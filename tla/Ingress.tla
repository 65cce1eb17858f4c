-------------------------------- MODULE Ingress --------------------------------
(***************************************************************************)
(* The exporting side of a connection: replicas of the control plane share *)
(* a secret (JWK) with which they sign access tokens (authorizeIngress)    *)
(* and check them (parseAuthorizationHeader), in pkg/controlplane/authz.   *)
(* The secret is created when a replica starts (CreateJWKSSecret) and      *)
(* looked after by control.secret (checkJWKSecret,                         *)
(* pkg/controlplane/control/manager.go); authz.secret loads it.  Both      *)
(* controllers run in every replica and read a cache.                      *)
(*                                                                         *)
(* A key is a number; every generated key is new.  Time is a bounded       *)
(* clock.  The verdict of the policies is left open (module PDP), and the  *)
(* exports are those that the caches of the replicas show.                 *)
(***************************************************************************)
EXTENDS Integers, Sequences, FiniteSets

CONSTANTS Replicas, Exports,
          jwtExpirySeconds,
          MaxKeys,         \* keys that are generated
          MaxTime,
          MaxTokens,       \* tokens that are issued
          MaxIngressChanges  \* what administrators and users do

ASSUME IngressAssumption ==
    /\ jwtExpirySeconds \in Nat \ {0}
    /\ MaxKeys \in Nat /\ MaxTime \in Nat /\ MaxTokens \in Nat /\ MaxIngressChanges \in Nat

None == 0      \* no secret, or no key
Bad == -1      \* a secret that cannot be parsed
Keys == 1..MaxKeys

VARIABLES secret,          \* the secret in the API server
          cache,           \* the cache of a replica
          controlQ, authzQ,   \* replicas with an event of the secret
          jwkKey,          \* the key a replica uses
          running,         \* the replicas that run
          nextKey,
          exports,         \* the exports there are, valid or not
          tokens,          \* the tokens that were issued
          accepted,        \* the export that was let through last, and when
          deleted,         \* when an export was deleted last
          now, ingressChanges

secretVars == <<secret, cache, controlQ, authzQ, jwkKey, running, nextKey>>
exportVars == <<exports, deleted>>
accessVars == <<tokens, accepted>>
ingressVars == <<secret, cache, controlQ, authzQ, jwkKey, running, nextKey, exports,
                 tokens, accepted, deleted, now, ingressChanges>>

IngressTypeOK ==
    /\ secret \in Keys \cup {None, Bad}
    /\ cache \in [Replicas -> Keys \cup {None, Bad}]
    /\ controlQ \subseteq running /\ authzQ \subseteq running
    /\ jwkKey \in [Replicas -> Keys \cup {None}]
    /\ running \subseteq Replicas
    /\ nextKey \in 1..(MaxKeys + 1)
    /\ exports \subseteq Exports
    /\ tokens \subseteq [key: Keys, export: Exports, expiration: 0..(MaxTime + jwtExpirySeconds)]
    /\ accepted \in Seq(Exports \X (0..MaxTime)) /\ Len(accepted) <= 1
    /\ deleted \in [Exports -> 0..MaxTime]
    /\ now \in 0..MaxTime
    /\ ingressChanges \in 0..MaxIngressChanges

IngressInit ==
    /\ secret = None
    /\ cache = [r \in Replicas |-> None]
    /\ controlQ = {} /\ authzQ = {}
    /\ jwkKey = [r \in Replicas |-> None]
    /\ running = {}
    /\ nextKey = 1
    /\ exports \in SUBSET Exports
    /\ tokens = {} /\ accepted = <<>>
    /\ deleted = [e \in Exports |-> 0]
    /\ now = 0 /\ ingressChanges = 0
-------------------------------------------------------------------------------
(* The secret *)

Generate == nextKey \in Keys /\ secret' = nextKey /\ nextKey' = nextKey + 1

CreateJWKSSecret == IF secret = None THEN Generate ELSE UNCHANGED <<secret, nextKey>>

(* A replica starts: it creates the secret if there is none, and gets an   *)
(* event for the secret once its cache is filled.                          *)
StartReplica(r) ==
    /\ r \notin running
    /\ CreateJWKSSecret
    /\ running' = running \cup {r}
    /\ cache' = [cache EXCEPT ![r] = secret']
    /\ jwkKey' = [jwkKey EXCEPT ![r] = None]
    /\ controlQ' = controlQ \cup {r} /\ authzQ' = authzQ \cup {r}
    /\ UNCHANGED <<exportVars, accessVars, now, ingressChanges>>

StopReplica(r) ==
    /\ r \in running /\ ingressChanges < MaxIngressChanges
    /\ ingressChanges' = ingressChanges + 1
    /\ running' = running \ {r}
    /\ controlQ' = controlQ \ {r} /\ authzQ' = authzQ \ {r}
    /\ UNCHANGED <<secret, cache, jwkKey, nextKey, exportVars, accessVars, now>>

(* Mutant of SyncSecret: only the creation of the secret is noticed. *)
SyncSecretCreated(r) ==
    /\ r \in running /\ cache[r] = None /\ secret # None
    /\ cache' = [cache EXCEPT ![r] = secret]
    /\ controlQ' = controlQ \cup {r} /\ authzQ' = authzQ \cup {r}
    /\ UNCHANGED <<secret, jwkKey, running, nextKey, exportVars, accessVars, now, ingressChanges>>

SyncSecret(r) ==
    /\ r \in running /\ cache[r] # secret
    /\ cache' = [cache EXCEPT ![r] = secret]
    /\ controlQ' = controlQ \cup {r} /\ authzQ' = authzQ \cup {r}
    /\ UNCHANGED <<secret, jwkKey, running, nextKey, exportVars, accessVars, now, ingressChanges>>

(* checkJWKSecret.  A secret in the cache is left alone, bad or not; one   *)
(* that is not there is not created but updated, without a resource        *)
(* version: an error, and the event stays, unless the secret is back and   *)
(* only missing in the cache.                                              *)
CheckJWKSecret(r) ==
    /\ r \in controlQ
    /\ controlQ' = controlQ \ {r}
    /\ \/ cache[r] # None /\ UNCHANGED <<secret, nextKey>>
       \/ cache[r] = None /\ secret # None /\ Generate
    /\ UNCHANGED <<cache, authzQ, jwkKey, running, exportVars, accessVars, now, ingressChanges>>

(* The entry of the secret with the key is there and is base64. *)
ParseJWKSSecret(s) == s # Bad

(* Manager.addSecret of authz.  *)
addSecret(r) == jwkKey' = [jwkKey EXCEPT ![r] = cache[r]]

(* authz.secret: a bad secret is an error, and the event stays; a deleted  *)
(* one changes nothing.                                                    *)
ReconcileSecret(r) ==
    /\ r \in authzQ /\ ParseJWKSSecret(cache[r])
    /\ authzQ' = authzQ \ {r}
    /\ IF cache[r] = None THEN UNCHANGED jwkKey ELSE addSecret(r)
    /\ UNCHANGED <<secret, cache, controlQ, running, nextKey, exportVars, accessVars, now, ingressChanges>>

(* An administrator deletes or spoils the secret. *)
ChangeSecret ==
    /\ ingressChanges < MaxIngressChanges
    /\ ingressChanges' = ingressChanges + 1
    /\ secret' \in {None, Bad} \ {secret}
    /\ UNCHANGED <<cache, controlQ, authzQ, jwkKey, running, nextKey, exportVars, accessVars, now>>
-------------------------------------------------------------------------------
(* Connections *)

(* Users delete an export, or create it again. *)
ChangeExport(e) ==
    /\ ingressChanges < MaxIngressChanges
    /\ ingressChanges' = ingressChanges + 1
    /\ exports' = (exports \ {e}) \cup ({e} \ exports)
    /\ deleted' = [deleted EXCEPT ![e] = now]
    /\ UNCHANGED <<secretVars, accessVars, now>>

(* authorizeIngress grants if the export exists (its condition is only     *)
(* looked at when it could not be read, so that an export without service  *)
(* will do), the policies allow it (here, they may), and there is a key to *)
(* sign with.                                                              *)
authorizeIngress(r, e) == e \in exports /\ jwkKey[r] # None

CheckAuthorizationRequest(r, e) ==
    /\ r \in running /\ authorizeIngress(r, e) /\ Cardinality(tokens) < MaxTokens
    /\ tokens' = tokens \cup {[key |-> jwkKey[r], export |-> e, expiration |-> now + jwtExpirySeconds]}
    /\ UNCHANGED <<secretVars, exportVars, accepted, now, ingressChanges>>

(* Mutant of parseAuthorizationHeader: the token is not validated. *)
parseUnvalidated(r, t) == t.key = jwkKey[r]

parseAuthorizationHeader(r, t) == t.key = jwkKey[r] /\ now < t.expiration

(* A CONNECT request with a token. *)
CheckServiceAccessRequest(r, t) ==
    /\ r \in running /\ parseAuthorizationHeader(r, t)
    /\ accepted' = <<<<t.export, now>>>>
    /\ UNCHANGED <<secretVars, exportVars, tokens, now, ingressChanges>>

Tick ==
    /\ now < MaxTime /\ now' = now + 1
    /\ UNCHANGED <<secretVars, exportVars, accessVars, ingressChanges>>

ControlPlane(r) == SyncSecret(r) \/ CheckJWKSecret(r) \/ ReconcileSecret(r)

IngressNext ==
    \/ \E r \in Replicas : StartReplica(r) \/ StopReplica(r) \/ ControlPlane(r)
    \/ \E r \in Replicas, e \in Exports : CheckAuthorizationRequest(r, e)
    \/ \E r \in Replicas, t \in tokens : CheckServiceAccessRequest(r, t)
    \/ \E e \in Exports : ChangeExport(e)
    \/ ChangeSecret \/ Tick

IngressSpec == IngressInit /\ [][IngressNext]_ingressVars

(* Informers deliver, and controllers retry. *)
FairIngressSpec ==
    /\ IngressSpec
    /\ \A r \in Replicas :
          /\ WF_ingressVars(SyncSecret(r)) /\ WF_ingressVars(CheckJWKSecret(r))
          /\ WF_ingressVars(ReconcileSecret(r))
-------------------------------------------------------------------------------
(* A deleted export is not accessible any more once the tokens that were   *)
(* issued for it have expired, in whichever replica the request arrives.   *)
AccessEndsAfterDeletion ==
    \A e \in Exports :
        accepted = <<<<e, now>>>> /\ e \notin exports => now - deleted[e] < jwtExpirySeconds

(* Replicas that start together, or one after the other, do not cost the   *)
(* others their key (CreateJWKSSecret, checkJWKSecret): a second one is    *)
(* only generated if the secret was deleted or spoiled.                    *)
KeyKept ==
    ingressChanges = 0 => nextKey <= 2 /\ \A r \in running : jwkKey[r] \in {None, secret}

(* All replicas get to sign with one key (addSecret): they keep it, and a  *)
(* key that stays in the secret reaches every replica that runs on,        *)
(* whatever was in the secret before.                                      *)
KeyShared ==
    /\ []KeyKept
    /\ \A r \in Replicas, k \in Keys :
          r \in running /\ secret = k ~> r \notin running \/ secret # k \/ jwkKey[r] = k
===============================================================================
