------------------------------ MODULE AuthzProofs ------------------------------
(***************************************************************************)
(* Proofs about the parts of the authorization manager: the policy         *)
(* decision point, for any namespaces and any number of policies; the      *)
(* index of pods, for any pods and addresses; getResponse of the peer      *)
(* client, which asks the other side, for any number of gateways; and the  *)
(* access tokens of the exporting side, for any replicas, exports and      *)
(* lifetime.  The four specifications share no variables.                  *)
(***************************************************************************)
EXTENDS PDP, PodIndex, PeerClient, Ingress, TLAPS

(***************************************************************************)
(* Ingress: access tokens and the key they are signed with.                *)
(***************************************************************************)

LEMMA IngressTypeInit == IngressInit => IngressTypeOK
BY IngressAssumption DEF IngressInit, IngressTypeOK, Keys, None

LEMMA IngressTypeStep == IngressTypeOK /\ [IngressNext]_ingressVars => IngressTypeOK'
<1> SUFFICES ASSUME IngressTypeOK, [IngressNext]_ingressVars PROVE IngressTypeOK'
  OBVIOUS
<1> USE IngressAssumption DEF IngressTypeOK, secretVars, exportVars, accessVars
<1>1. ASSUME NEW r \in Replicas, StartReplica(r) PROVE IngressTypeOK'
  BY <1>1 DEF StartReplica, CreateJWKSSecret, Generate, Keys, None
<1>2. ASSUME NEW r \in Replicas, StopReplica(r) PROVE IngressTypeOK'
  BY <1>2 DEF StopReplica
<1>3. ASSUME NEW r \in Replicas, SyncSecret(r) PROVE IngressTypeOK'
  BY <1>3 DEF SyncSecret
<1>4. ASSUME NEW r \in Replicas, CheckJWKSecret(r) PROVE IngressTypeOK'
  BY <1>4 DEF CheckJWKSecret, Generate, Keys
<1>5. ASSUME NEW r \in Replicas, ReconcileSecret(r) PROVE IngressTypeOK'
  BY <1>5 DEF ReconcileSecret, ParseJWKSSecret, addSecret
<1>6. ASSUME NEW r \in Replicas, NEW e \in Exports, CheckAuthorizationRequest(r, e) PROVE IngressTypeOK'
  BY <1>6 DEF CheckAuthorizationRequest, authorizeIngress
<1>7. ASSUME NEW r \in Replicas, NEW t \in tokens, CheckServiceAccessRequest(r, t) PROVE IngressTypeOK'
  BY <1>7 DEF CheckServiceAccessRequest
<1>8. ASSUME NEW e \in Exports, ChangeExport(e) PROVE IngressTypeOK'
  BY <1>8 DEF ChangeExport
<1>9. CASE ChangeSecret
  BY <1>9 DEF ChangeSecret
<1>10. CASE Tick
  BY <1>10 DEF Tick
<1>11. CASE UNCHANGED ingressVars
  BY <1>11 DEF ingressVars
<1> QED BY <1>1, <1>2, <1>3, <1>4, <1>5, <1>6, <1>7, <1>8, <1>9, <1>10, <1>11
        DEF IngressNext, ControlPlane

(* The replicas are type correct for any replicas, exports and lifetime.   *)
THEOREM IngressTypeCorrect == IngressSpec => []IngressTypeOK
BY IngressTypeInit, IngressTypeStep, PTL DEF IngressSpec

(* A token outlives its export by less than the lifetime of tokens: it was *)
(* issued while the export was there, that is, not after its last          *)
(* deletion.  What was accepted was not accepted in the future.            *)
TokenInv ==
    /\ \A e \in Exports : deleted[e] <= now
    /\ \A t \in tokens :
          /\ t.expiration <= now + jwtExpirySeconds
          /\ t.export \notin exports => t.expiration <= deleted[t.export] + jwtExpirySeconds
    /\ accepted # <<>> => accepted[1][2] <= now
    /\ AccessEndsAfterDeletion

LEMMA TokenTypes ==
    ASSUME IngressTypeOK
    PROVE  /\ now \in Nat /\ jwtExpirySeconds \in Nat \ {0} /\ deleted \in [Exports -> Nat]
           /\ \A t \in tokens : t.export \in Exports /\ t.expiration \in Nat
           /\ accepted # <<>> => accepted[1][2] \in Nat
<1>1. now \in Nat /\ jwtExpirySeconds \in Nat \ {0}
  BY IngressAssumption, SMTT(30) DEF IngressTypeOK
<1>2. deleted \in [Exports -> Nat]
  BY IngressAssumption, SMTT(30) DEF IngressTypeOK
<1>3. \A t \in tokens : t.export \in Exports /\ t.expiration \in Nat
  BY IngressAssumption, SMTT(30) DEF IngressTypeOK
<1>4. accepted # <<>> => accepted[1][2] \in Nat
  BY IngressAssumption, SMTT(30) DEF IngressTypeOK
<1> QED BY <1>1, <1>2, <1>3, <1>4, Zenon

LEMMA TokenStep == IngressTypeOK /\ TokenInv /\ [IngressNext]_ingressVars => TokenInv'
<1> SUFFICES ASSUME IngressTypeOK, TokenInv, [IngressNext]_ingressVars PROVE TokenInv'
  OBVIOUS
<1> USE IngressAssumption DEF TokenInv, AccessEndsAfterDeletion
<1>1. /\ now \in Nat /\ jwtExpirySeconds \in Nat \ {0} /\ deleted \in [Exports -> Nat]
      /\ \A t \in tokens : t.export \in Exports /\ t.expiration \in Nat
      /\ accepted # <<>> => accepted[1][2] \in Nat
  BY TokenTypes, Zenon
<1>2. CASE UNCHANGED <<exportVars, accessVars, now>>
  BY <1>2 DEF exportVars, accessVars
<1>3. ASSUME NEW r \in Replicas, NEW e \in Exports, CheckAuthorizationRequest(r, e) PROVE TokenInv'
  BY <1>1, <1>3 DEF CheckAuthorizationRequest, authorizeIngress, exportVars
<1>4. ASSUME NEW r \in Replicas, NEW t \in tokens, CheckServiceAccessRequest(r, t) PROVE TokenInv'
  BY <1>1, <1>4 DEF CheckServiceAccessRequest, parseAuthorizationHeader, exportVars
<1>5. ASSUME NEW e \in Exports, ChangeExport(e) PROVE TokenInv'
  BY <1>1, <1>5 DEF ChangeExport, accessVars
<1>6. CASE Tick
  <2>1. now' = now + 1 /\ UNCHANGED <<exports, deleted, tokens, accepted>>
    BY <1>6 DEF Tick, exportVars, accessVars
  <2>2. ASSUME NEW e \in Exports PROVE accepted # <<<<e, now'>>>>
    <3>1. accepted = <<<<e, now'>>>> => accepted # <<>> /\ accepted[1][2] = now'
      OBVIOUS
    <3> QED BY <1>1, <2>1, <3>1
  <2> QED BY <1>1, <2>1, <2>2
<1>7. UNCHANGED <<exportVars, accessVars, now>>
          \/ (\E r \in Replicas, e \in Exports : CheckAuthorizationRequest(r, e))
          \/ (\E r \in Replicas, t \in tokens : CheckServiceAccessRequest(r, t))
          \/ (\E e \in Exports : ChangeExport(e)) \/ Tick
  <2>1. ASSUME NEW r \in Replicas, StartReplica(r) \/ StopReplica(r) \/ ControlPlane(r)
        PROVE  UNCHANGED <<exportVars, accessVars, now>>
    BY <2>1 DEF ControlPlane, StartReplica, StopReplica, SyncSecret, CheckJWKSecret, ReconcileSecret,
                exportVars, accessVars
  <2>2. ASSUME ChangeSecret \/ UNCHANGED ingressVars PROVE UNCHANGED <<exportVars, accessVars, now>>
    BY <2>2 DEF ChangeSecret, ingressVars, exportVars, accessVars
  <2> QED BY <2>1, <2>2, Zenon DEF IngressNext
<1> QED BY <1>2, <1>3, <1>4, <1>5, <1>6, <1>7

(* For any replicas, exports, keys and lifetime of tokens, a request for a *)
(* deleted export is let through only as long as a token issued before the *)
(* deletion may live, whatever happens to the secret and to the replicas   *)
(* in between (authorizeIngress, parseAuthorizationHeader).                *)
THEOREM AccessEnds == IngressSpec => []AccessEndsAfterDeletion
<1>1. IngressInit => TokenInv
  BY IngressAssumption DEF IngressInit, TokenInv, AccessEndsAfterDeletion
<1>2. TokenInv => AccessEndsAfterDeletion
  BY DEF TokenInv
<1> QED BY <1>1, <1>2, TokenStep, IngressTypeCorrect, PTL DEF IngressSpec

(* Until somebody deletes or spoils the secret or stops a replica, there   *)
(* is one key at most, and it is in the secret and in all caches.          *)
FirstKey ==
    ingressChanges = 0 =>
        /\ secret \in {None, 1} /\ (secret = None => nextKey = 1 /\ running = {})
        /\ secret = 1 => nextKey = 2
        /\ \A r \in running : cache[r] = secret /\ jwkKey[r] \in {None, secret}

LEMMA FirstKeyStep == IngressTypeOK /\ FirstKey /\ [IngressNext]_ingressVars => FirstKey'
<1> SUFFICES ASSUME IngressTypeOK, FirstKey, [IngressNext]_ingressVars, ingressChanges' = 0 PROVE FirstKey'
  BY DEF FirstKey
<1> USE DEF FirstKey, None
<1>1. /\ ingressChanges \in Nat /\ running \subseteq Replicas /\ nextKey \in Nat
      /\ cache \in [Replicas -> Keys \cup {None, Bad}] /\ jwkKey \in [Replicas -> Keys \cup {None}]
      /\ controlQ \subseteq running /\ authzQ \subseteq running
  BY IngressAssumption DEF IngressTypeOK
<1>2. ASSUME NEW r \in Replicas, StartReplica(r) PROVE FirstKey'
  BY <1>1, <1>2 DEF StartReplica, CreateJWKSSecret, Generate
<1>3. ASSUME NEW r \in Replicas, CheckJWKSecret(r) PROVE FirstKey'
  BY <1>1, <1>3 DEF CheckJWKSecret, Generate
<1>4. ASSUME NEW r \in Replicas, SyncSecret(r) PROVE FirstKey'
  BY <1>1, <1>4 DEF SyncSecret
<1>5. ASSUME NEW r \in Replicas, ReconcileSecret(r) PROVE FirstKey'
  BY <1>1, <1>5 DEF ReconcileSecret, addSecret
<1>6. CASE UNCHANGED <<secretVars, ingressChanges>>
  BY <1>6 DEF secretVars
<1>7. \/ \E r \in Replicas : StartReplica(r) \/ CheckJWKSecret(r) \/ SyncSecret(r) \/ ReconcileSecret(r)
      \/ UNCHANGED <<secretVars, ingressChanges>>
  <2>1. ASSUME NEW r \in Replicas, StopReplica(r) PROVE FALSE
    BY <1>1, <2>1 DEF StopReplica
  <2>2. ASSUME ChangeSecret \/ \E e \in Exports : ChangeExport(e) PROVE FALSE
    BY <1>1, <2>2 DEF ChangeSecret, ChangeExport
  <2>3. ASSUME \/ Tick
               \/ \E r \in Replicas, e \in Exports : CheckAuthorizationRequest(r, e)
               \/ \E r \in Replicas, t \in tokens : CheckServiceAccessRequest(r, t)
               \/ UNCHANGED ingressVars
        PROVE  UNCHANGED <<secretVars, ingressChanges>>
    BY <2>3 DEF Tick, CheckAuthorizationRequest, CheckServiceAccessRequest, ingressVars, secretVars
  <2> QED BY <2>1, <2>2, <2>3, Zenon DEF IngressNext, ControlPlane
<1> QED BY <1>2, <1>3, <1>4, <1>5, <1>6, <1>7

(* For any number of replicas that start in any order, or together, the    *)
(* key that the first one generated stays the only one, unless the secret  *)
(* was deleted or spoiled (CreateJWKSSecret, checkJWKSecret, addSecret).   *)
THEOREM OneKey == IngressSpec => []KeyKept
<1>1. IngressInit => FirstKey
  BY DEF IngressInit, FirstKey, None
<1>2. FirstKey => KeyKept
  BY DEF FirstKey, KeyKept, None
<1> QED BY <1>1, <1>2, FirstKeyStep, IngressTypeCorrect, PTL DEF IngressSpec

(***************************************************************************)
(* The policy decision point.  A listing (getPolicies) writes to the map   *)
(* it reads; what is proved about decisions is about PDPs without one.     *)
(***************************************************************************)

(* What a request that is being decided knows: the policies that were      *)
(* there all the time are still there, all that are there were seen, and   *)
(* once it has left the privileged tier no privileged policy was there all *)
(* the time.                                                               *)
Witnessed ==
    /\ Active => always \subseteq Installed /\ Installed \subseteq ever
    /\ pc = "iterating" => src = "none"
    /\ pc = "regular" => /\ ~Say(always, "deny", "privileged")
                         /\ ~Say(always, "allow", "privileged")

IInv == TypeOK /\ (~listed => OnePolicyPerName /\ Witnessed /\ StablePoliciesObeyed)

(* Specifications with and without a policy differ by their action. *)
LEMMA SpecFacts ==
    /\ NoSpec \notin ValidSpecs /\ Invalid \notin ValidSpecs /\ NoSpec # Invalid
    /\ \A s \in Stored : s.action \in {"allow", "deny", "none"}
    /\ \A s \in Stored : s = NoSpec <=> s.action = "none"
    /\ \A s \in Stored \cup {Invalid} : Validate(s) <=> s \in ValidSpecs
    /\ \A s \in ValidSpecs : s.action \in {"allow", "deny"}
    /\ NoSpec \in Stored /\ ValidSpecs \subseteq Stored /\ Stored \subseteq ValidSpecs \cup {NoSpec}
  BY DEF NoSpec, Invalid, Stored, ValidSpecs, Validate

(* The state of the PDP keeps its types: only valid policies get in. *)
LEMMA TypeStep == TypeOK /\ [Next]_vars => TypeOK'
<1> SUFFICES ASSUME TypeOK, [Next]_vars PROVE TypeOK'
  OBVIOUS
<1> USE SpecFacts, PDPAssumption DEF TypeOK
<1>0. Installed' \in SUBSET (Policies \X ValidSpecs)
  BY DEF Installed
<1>a. Watch => /\ always' \in SUBSET (Policies \X ValidSpecs)
               /\ ever' \in SUBSET (Policies \X ValidSpecs)
  BY <1>0 DEF Watch
<1>1. CASE Begin
  BY <1>0, <1>1 DEF Begin, userVars, pdpVars
<1>2. CASE CheckClientAttrs
  BY <1>2 DEF CheckClientAttrs, Decided, Undecided, userVars, pdpVars
<1>3. CASE Crash
  <2>1. raced' \in BOOLEAN /\ listed' \in BOOLEAN
    BY <1>3, Zenon DEF Crash
  <2>2. QED
    BY <1>3, <2>1 DEF Crash, userVars
<1>4. CASE DecidePrivileged
  <2>1. TierDecisions("privileged") \subseteq {"allow", "deny"}
    BY DEF TierDecisions, MapDecisions, Matches
  <2>2. QED
    BY <1>4, <2>1 DEF DecidePrivileged, Decided, Undecided, userVars, pdpVars
<1>5. CASE DecideRegular
  <2>1. TierDecisions("regular") \subseteq {"allow", "deny"}
    BY DEF TierDecisions, MapDecisions, Matches
  <2>2. QED
    BY <1>5, <2>1 DEF DecideRegular, Decided, Undecided, userVars, pdpVars
<1>6. ASSUME NEW p \in Policies, ReconcilePolicy(p) PROVE TypeOK'
  <2>1. /\ denyPolicies' \in [Policies -> Stored]
        /\ allowPolicies' \in [Policies -> Stored]
    BY <1>6 DEF ReconcilePolicy, addPolicy, unsafeDeletePolicy
  <2>2. raced' \in BOOLEAN
    BY <1>6, Zenon DEF ReconcilePolicy
  <2>3. QED
    BY <1>a, <1>6, <2>1, <2>2 DEF ReconcilePolicy, userVars, requestVars
<1>7. ASSUME NEW p \in Policies, UserWrites(p) PROVE TypeOK'
  BY <1>7 DEF UserWrites, pdpVars, requestVars
<1>8. ASSUME NEW t \in Tiers, GetPolicies(t) PROVE TypeOK'
  <2>1. raced' \in BOOLEAN /\ listed' \in BOOLEAN
    BY <1>8, Zenon DEF GetPolicies
  <2>2. QED
    BY <1>a, <1>8, <2>1 DEF GetPolicies, userVars, requestVars
<1>9. CASE UNCHANGED vars
  BY <1>9 DEF vars
<1>10. QED
  BY <1>1, <1>2, <1>3, <1>4, <1>5, <1>6, <1>7, <1>8, <1>9 DEF Next

(* The PDP starts without policies. *)
LEMMA InitTypeOK == Init => TypeOK
<1> SUFFICES ASSUME Init PROVE TypeOK
  OBVIOUS
<1>1. raced \in BOOLEAN /\ listed \in BOOLEAN
  BY Zenon DEF Init
<1>2. QED
  BY <1>1, SpecFacts, PDPAssumption DEF Init, TypeOK

(* The PDP is type correct. *)
THEOREM TypeCorrect == Spec => []TypeOK
  BY InitTypeOK, TypeStep, PTL DEF Spec

(* Adding and deleting keep a policy in the map of its action alone. *)
LEMMA OnePolicyStep ==
    ASSUME ~listed, ~listed', TypeOK, OnePolicyPerName, [Next]_vars
    PROVE  OnePolicyPerName'
<1> USE SpecFacts DEF TypeOK, OnePolicyPerName
<1>1. CASE UNCHANGED pdpVars
  BY <1>1 DEF pdpVars
<1>2. CASE Crash
  BY <1>2 DEF Crash
<1>3. ASSUME NEW p \in Policies, ReconcilePolicy(p) PROVE OnePolicyPerName'
  <2>1. CASE objects[p] \in ValidSpecs /\ addPolicy(p, objects[p])
    BY <2>1 DEF addPolicy
  <2>2. CASE unsafeDeletePolicy(p)
    BY <2>2 DEF unsafeDeletePolicy
  <2>3. QED
    BY <1>3, <2>1, <2>2 DEF ReconcilePolicy
<1>4. QED
  BY <1>1, <1>2, <1>3 DEF Next, vars, pdpVars, Begin, CheckClientAttrs, DecidePrivileged,
     DecideRegular, UserWrites, GetPolicies

(* The policies that count are the privileged ones and those of the        *)
(* namespace of the connection.                                            *)
LEMMA ConsideredFacts ==
    ASSUME ns \in Namespaces, NEW p \in Policies
    PROVE  Considered(p, ns) <=> p[2][1] \in {NoNamespace, ns}
<1>1. CASE p \in {"privileged"} \X ({NoNamespace} \X Ids)
  BY <1>1 DEF Considered
<1>2. CASE p \in {"regular"} \X (Namespaces \X Ids)
  BY <1>2, PDPAssumption DEF Considered
<1>3. QED
  BY <1>1, <1>2 DEF Policies, Names, Tiers

(* What a tier decides, in terms of the installed policies that match. *)
LEMMA TierFacts ==
    ASSUME ~listed, TypeOK, OnePolicyPerName, NEW t \in Tiers
    PROVE  /\ "deny" \in TierDecisions(t) <=> Say(Installed, "deny", t)
           /\ "allow" \in TierDecisions(t) =>
                 Say(Installed, "allow", t) /\ ~Say(Installed, "deny", t)
           /\ TierDecisions(t) = {} => ~Say(Installed, "allow", t) /\ ~Say(Installed, "deny", t)
           /\ TierDecisions(t) \subseteq {"allow", "deny"}
<1> USE SpecFacts DEF TypeOK, OnePolicyPerName
<1>1. MapDecisions(denyPolicies, t) \subseteq {"deny"}
  BY DEF MapDecisions, Matches
<1>2. MapDecisions(allowPolicies, t) \subseteq {"allow"}
  BY DEF MapDecisions, Matches
<1>3. MapDecisions(denyPolicies, t) # {} <=> Say(Installed, "deny", t)
  <2>1. ASSUME NEW p \in Policies, p[1] = t, Considered(p, ns), Matches(denyPolicies[p], src)
        PROVE  <<p, denyPolicies[p]>> \in Installed /\ denyPolicies[p].action = "deny"
    BY <2>1, ConsideredFacts DEF Installed, Matches
  <2>2. ASSUME NEW x \in Installed, x[1][1] = t, x[2].action = "deny"
        PROVE  x[1] \in Policies /\ x[2] = denyPolicies[x[1]] /\ Considered(x[1], ns)
               /\ Matches(x[2], src)
    BY <2>2, ConsideredFacts DEF Installed
  <2>3. ASSUME MapDecisions(denyPolicies, t) # {} PROVE Say(Installed, "deny", t)
    <3>1. PICK p \in Policies : p[1] = t /\ Considered(p, ns) /\ Matches(denyPolicies[p], src)
      BY <2>3 DEF MapDecisions
    <3>2. <<p, denyPolicies[p]>> \in Installed /\ denyPolicies[p].action = "deny"
      BY <2>1, <3>1
    <3>3. QED
      BY <3>1, <3>2 DEF Say
  <2>4. ASSUME Say(Installed, "deny", t) PROVE MapDecisions(denyPolicies, t) # {}
    <3>1. PICK x \in Installed : x[1][1] = t /\ x[2].action = "deny"
      BY <2>4 DEF Say
    <3>2. denyPolicies[x[1]].action \in MapDecisions(denyPolicies, t)
      BY <2>2, <3>1 DEF MapDecisions
    <3>3. QED
      BY <3>2
  <2>5. QED
    BY <2>3, <2>4
<1>4. MapDecisions(allowPolicies, t) # {} <=> Say(Installed, "allow", t)
  <2>1. ASSUME NEW p \in Policies, p[1] = t, Considered(p, ns), Matches(allowPolicies[p], src)
        PROVE  <<p, allowPolicies[p]>> \in Installed /\ allowPolicies[p].action = "allow"
    BY <2>1, ConsideredFacts DEF Installed, Matches
  <2>2. ASSUME NEW x \in Installed, x[1][1] = t, x[2].action = "allow"
        PROVE  x[1] \in Policies /\ x[2] = allowPolicies[x[1]] /\ Considered(x[1], ns)
               /\ Matches(x[2], src)
    BY <2>2, ConsideredFacts DEF Installed
  <2>3. ASSUME MapDecisions(allowPolicies, t) # {} PROVE Say(Installed, "allow", t)
    <3>1. PICK p \in Policies : p[1] = t /\ Considered(p, ns) /\ Matches(allowPolicies[p], src)
      BY <2>3 DEF MapDecisions
    <3>2. <<p, allowPolicies[p]>> \in Installed /\ allowPolicies[p].action = "allow"
      BY <2>1, <3>1
    <3>3. QED
      BY <3>1, <3>2 DEF Say
  <2>4. ASSUME Say(Installed, "allow", t) PROVE MapDecisions(allowPolicies, t) # {}
    <3>1. PICK x \in Installed : x[1][1] = t /\ x[2].action = "allow"
      BY <2>4 DEF Say
    <3>2. allowPolicies[x[1]].action \in MapDecisions(allowPolicies, t)
      BY <2>2, <3>1 DEF MapDecisions
    <3>3. QED
      BY <3>2
  <2>5. QED
    BY <2>3, <2>4
<1>5. QED
  BY <1>1, <1>2, <1>3, <1>4 DEF TierDecisions

(* More policies say more. *)
LEMMA SayMonotone ==
    ASSUME NEW S, NEW T, S \subseteq T, NEW action, NEW t, Say(S, action, t)
    PROVE  Say(T, action, t)
  BY DEF Say

(* A request keeps track of the policies around it. *)
LEMMA WitnessedStep ==
    ASSUME ~listed, ~listed', IInv, [Next]_vars
    PROVE  Witnessed'
<1> USE DEF IInv, TypeOK, Witnessed, Active
<1>1. CASE Begin
  BY <1>1 DEF Begin
<1>2. CASE CheckClientAttrs
  <2>1. Installed' = Installed
    BY <1>2 DEF CheckClientAttrs, Decided, Undecided, pdpVars, Installed
  <2>2. QED
    BY <1>2, <2>1 DEF CheckClientAttrs, Decided, Undecided
<1>3. CASE Crash
  BY <1>3 DEF Crash
<1>4. CASE DecidePrivileged
  <2>1. Installed' = Installed
    BY <1>4 DEF DecidePrivileged, Decided, Undecided, pdpVars, Installed
  <2>2. TierDecisions("privileged") = {} =>
           ~Say(Installed, "allow", "privileged") /\ ~Say(Installed, "deny", "privileged")
    BY TierFacts DEF Tiers
  <2>3. always \subseteq Installed
    BY <1>4 DEF DecidePrivileged
  <2>4. QED
    BY <1>4, <2>1, <2>2, <2>3 DEF DecidePrivileged, Decided, Undecided, Say
<1>5. CASE DecideRegular
  BY <1>5 DEF DecideRegular, Decided
<1>6. ASSUME NEW p \in Policies, ReconcilePolicy(p) PROVE Witnessed'
  <2>1. Active => always' \subseteq Installed' /\ Installed' \subseteq ever'
    BY <1>6 DEF ReconcilePolicy, Watch
  <2>2. Active => always' \subseteq always
    BY <1>6 DEF ReconcilePolicy, Watch
  <2>3. QED
    BY <1>6, <2>1, <2>2 DEF ReconcilePolicy, requestVars, Say
<1>7. ASSUME NEW p \in Policies, UserWrites(p) PROVE Witnessed'
  BY <1>7 DEF UserWrites, pdpVars, requestVars, Installed
<1>8. CASE UNCHANGED vars
  BY <1>8 DEF vars, Installed
<1>9. QED
  BY <1>1, <1>2, <1>3, <1>4, <1>5, <1>6, <1>7, <1>8 DEF Next, GetPolicies

(* A decision obeys the policies that were there all the time. *)
LEMMA ObeyedStep ==
    ASSUME ~listed, ~listed', IInv, [Next]_vars
    PROVE  StablePoliciesObeyed'
<1> USE DEF IInv, StablePoliciesObeyed
<1>1. ASSUME UNCHANGED <<pc, decision, src, always, ever>> PROVE StablePoliciesObeyed'
  BY <1>1
<1>2. CASE pc' # "done"
  BY <1>2
<1>3. CASE CheckClientAttrs
  BY <1>3 DEF CheckClientAttrs, Decided, Undecided, Witnessed
<1>4. CASE DecidePrivileged
  <2>1. always \subseteq Installed /\ Installed \subseteq ever
    BY <1>4 DEF DecidePrivileged, Witnessed, Active
  <2>2. ASSUME NEW d \in TierDecisions("privileged"), Decided(d) PROVE StablePoliciesObeyed'
    <3>1. CASE d = "deny"
      BY <1>4, <2>1, <2>2, <3>1, TierFacts, SayMonotone DEF DecidePrivileged, Decided, Tiers
    <3>2. CASE d = "allow"
      BY <1>4, <2>1, <2>2, <3>2, TierFacts, SayMonotone DEF DecidePrivileged, Decided, Tiers
    <3>3. QED
      BY <3>1, <3>2, TierFacts DEF Tiers
  <2>3. QED
    BY <1>4, <2>2 DEF DecidePrivileged, Undecided
<1>5. CASE DecideRegular
  <2>1. always \subseteq Installed /\ Installed \subseteq ever
    BY <1>5 DEF DecideRegular, Witnessed, Active
  <2>2. ~Say(always, "deny", "privileged") /\ ~Say(always, "allow", "privileged")
    BY <1>5 DEF DecideRegular, Witnessed
  <2>3. ASSUME NEW d \in TierDecisions("regular"), Decided(d) PROVE StablePoliciesObeyed'
    <3>1. CASE d = "deny"
      BY <1>5, <2>1, <2>2, <2>3, <3>1, TierFacts, SayMonotone DEF DecideRegular, Decided, Tiers
    <3>2. CASE d = "allow"
      BY <1>5, <2>1, <2>2, <2>3, <3>2, TierFacts, SayMonotone DEF DecideRegular, Decided, Tiers
    <3>3. QED
      BY <3>1, <3>2, TierFacts DEF Tiers
  <2>4. CASE TierDecisions("regular") = {} /\ Decided("deny")
    BY <1>5, <2>1, <2>2, <2>4, TierFacts, SayMonotone DEF DecideRegular, Decided, Tiers
  <2>5. QED
    BY <1>5, <2>3, <2>4 DEF DecideRegular
<1>6. ASSUME NEW p \in Policies, ReconcilePolicy(p), pc' = "done" PROVE StablePoliciesObeyed'
  BY <1>6 DEF ReconcilePolicy, Watch, Active, requestVars
<1>7. QED
  BY <1>1, <1>2, <1>3, <1>4, <1>5, <1>6 DEF Next, vars, Begin, Crash, UserWrites, GetPolicies,
     requestVars

(* The inductive invariant. *)
LEMMA Inductive == Spec => []IInv
<1>1. Init => IInv
  BY InitTypeOK, SpecFacts DEF Init, IInv, OnePolicyPerName, Witnessed, Active,
     StablePoliciesObeyed
<1>2. ASSUME IInv, [Next]_vars PROVE IInv'
  <2>1. CASE listed'
    BY <1>2, <2>1, TypeStep DEF IInv
  <2>2. CASE ~listed /\ ~listed'
    BY <1>2, <2>2, TypeStep, OnePolicyStep, WitnessedStep, ObeyedStep DEF IInv
  <2>3. CASE listed /\ ~listed'
    <3>1. Crash
      BY <1>2, <2>3 DEF Next, vars, Begin, CheckClientAttrs, DecidePrivileged, DecideRegular,
         ReconcilePolicy, UserWrites, GetPolicies
    <3>2. QED
      BY <1>2, <3>1, TypeStep, SpecFacts DEF IInv, TypeOK, Crash, OnePolicyPerName, Witnessed,
         Active, StablePoliciesObeyed
  <2>4. QED
    BY <2>1, <2>2, <2>3
<1>3. QED
  BY <1>1, <1>2, PTL DEF Spec

(* What a policy is stored as: in one map, or after a listing in both, but *)
(* never with two versions.                                                *)
OneVersion ==
    \A p \in Policies : \/ denyPolicies[p] = NoSpec \/ allowPolicies[p] = NoSpec
                        \/ denyPolicies[p] = allowPolicies[p]

(* A handled event leaves the version that the API server has, and nothing *)
(* else changes what is installed: a crash puts every policy back in the   *)
(* queue, and a listing copies a policy as it is.                          *)
LEMMA InstalledStep ==
    ASSUME TypeOK, OneVersion, InstalledFollowsObjects, [Next]_vars
    PROVE  OneVersion' /\ InstalledFollowsObjects'
<1> USE SpecFacts DEF TypeOK, OneVersion, InstalledFollowsObjects
<1>1. CASE UNCHANGED <<objects, queue, denyPolicies, allowPolicies>>
  BY <1>1
<1>2. CASE Crash
  BY <1>2 DEF Crash, userVars
<1>3. ASSUME NEW p \in Policies, ReconcilePolicy(p)
      PROVE  OneVersion' /\ InstalledFollowsObjects'
  <2>1. CASE objects[p] \in ValidSpecs /\ addPolicy(p, objects[p])
    BY <1>3, <2>1 DEF ReconcilePolicy, addPolicy, userVars
  <2>2. CASE objects[p] = NoSpec /\ unsafeDeletePolicy(p)
    BY <1>3, <2>2 DEF ReconcilePolicy, unsafeDeletePolicy, userVars
  <2>3. QED
    BY <1>3, <2>1, <2>2 DEF ReconcilePolicy
<1>4. ASSUME NEW p \in Policies, UserWrites(p)
      PROVE  OneVersion' /\ InstalledFollowsObjects'
  BY <1>4 DEF UserWrites, pdpVars
<1>5. ASSUME NEW t \in Tiers, GetPolicies(t)
      PROVE  OneVersion' /\ InstalledFollowsObjects'
  BY <1>5 DEF GetPolicies, userVars
<1>6. QED
  BY <1>1, <1>2, <1>3, <1>4, <1>5 DEF Next, vars, userVars, pdpVars, Begin, CheckClientAttrs,
     DecidePrivileged, DecideRegular

(* For any policies, changes, listings and crashes: a policy whose events  *)
(* are handled is applied as users wrote it last.                          *)
THEOREM Followed == Spec => []InstalledFollowsObjects
<1>1. Init => TypeOK /\ OneVersion /\ InstalledFollowsObjects
  BY InitTypeOK DEF Init, OneVersion, InstalledFollowsObjects
<1>2. QED
  BY <1>1, TypeStep, InstalledStep, PTL DEF Spec

(* Within a tier a policy has one action, however often users change it. *)
THEOREM OneAction == Spec => []OnePolicyPerName
<1>1. IInv => OnePolicyPerName
  BY DEF IInv, OnePolicyPerName
<1>2. QED
  BY Inductive, <1>1, PTL

(* For any number of policies and any interleaving of their changes with a *)
(* request, Decide obeys the policies that are there throughout.           *)
THEOREM PoliciesObeyed == Spec => []StablePoliciesObeyed
<1>1. IInv => StablePoliciesObeyed
  BY DEF IInv, StablePoliciesObeyed
<1>2. QED
  BY Inductive, <1>1, PTL
-------------------------------------------------------------------------------
(***************************************************************************)
(* The index of pods.  That a running pod is found rests on the cluster    *)
(* giving an address to one running pod at a time, and on no pod keeping   *)
(* an address it has lost: only finished pods do, and their addresses are  *)
(* left out.                                                               *)
(***************************************************************************)

(* No two running pods have the same address, unless it is a host's. *)
AddressesUnique ==
    \A p, q \in Pods :
        pods[p].phase = "running" /\ pods[q].phase = "running"
        /\ pods[p].ip = pods[q].ip /\ pods[p].ip \notin HostIPs => p = q

(* Pods that exist have an address, and if they do not run, they have      *)
(* finished with it.                                                       *)
RunningOrFinished ==
    \A p \in Pods : \/ pods[p] = Gone
                    \/ pods[p].phase = "running" /\ pods[p].ip \in IPs
                    \/ pods[p].phase = "finished" /\ pods[p].ip \in finishedIPs

(* What the cluster does to a pod is one write of it. *)
LEMMA ClusterWrites ==
    ASSUME PodTypeOK, NEW p \in Pods, StartPod(p) \/ MovePod(p) \/ FinishPod(p) \/ DeletePod(p)
    PROVE  \E pod \in Pod : WritePod(p, pod)
  BY DEF PodTypeOK, Pod, Gone, StartPod, MovePod, FinishPod, DeletePod

(* The index stays well formed. *)
LEMMA PodTypeStep == PodTypeOK /\ [PodNext]_podVars => PodTypeOK'
<1> SUFFICES ASSUME PodTypeOK, [PodNext]_podVars PROVE PodTypeOK'
  OBVIOUS
<1> USE PodAssumption DEF PodTypeOK, Pod
<1>1. ASSUME NEW p \in Pods, ReconcilePod(p) PROVE PodTypeOK'
  BY <1>1 DEF ReconcilePod, addPod, deletePod
<1>2. ASSUME NEW p \in Pods, NEW pod \in Pod, WritePod(p, pod), finishedIPs' \subseteq IPs \cup {NoIP}
      PROVE  PodTypeOK'
  BY <1>2 DEF WritePod
<1>3. ASSUME NEW p \in Pods, StartPod(p) \/ MovePod(p) \/ FinishPod(p) \/ DeletePod(p)
      PROVE  PodTypeOK'
  <2>1. finishedIPs' \subseteq IPs \cup {NoIP}
    BY <1>3 DEF StartPod, MovePod, FinishPod, DeletePod
  <2>2. QED
    BY <1>2, <1>3, <2>1, ClusterWrites
<1>4. CASE UNCHANGED podVars
  BY <1>4 DEF podVars
<1>5. QED
  BY <1>1, <1>3, <1>4 DEF PodNext

LEMMA PodTypeInit == PodInit => PodTypeOK
  BY PodAssumption DEF PodInit, PodTypeOK, Pod, Gone

(* The index is type correct. *)
THEOREM PodTypeCorrect == PodSpec => []PodTypeOK
  BY PodTypeInit, PodTypeStep, PTL DEF PodSpec

(* No address leads to a pod that is gone, whatever pods do. *)
THEOREM NoGhosts == PodSpec => []GonePodForgotten
<1>1. PodInit => GonePodForgotten
  BY PodAssumption DEF PodInit, GonePodForgotten, getPodInfoByIP
<1>2. PodTypeOK /\ GonePodForgotten /\ [PodNext]_podVars => GonePodForgotten'
  <2> SUFFICES ASSUME PodTypeOK, GonePodForgotten, [PodNext]_podVars PROVE GonePodForgotten'
    OBVIOUS
  <2> USE PodAssumption DEF PodTypeOK, Pod, GonePodForgotten, getPodInfoByIP
  <2>1. ASSUME NEW p \in Pods, ReconcilePod(p) PROVE GonePodForgotten'
    <3>1. CASE pods[p] = Gone
      BY <2>1, <3>1 DEF ReconcilePod, deletePod
    <3>2. CASE pods[p] # Gone
      BY <2>1, <3>2 DEF ReconcilePod, addPod
    <3>3. QED
      BY <3>1, <3>2
  <2>2. ASSUME NEW p \in Pods, NEW pod \in Pod, WritePod(p, pod) PROVE GonePodForgotten'
    BY <2>2 DEF WritePod
  <2>3. ASSUME NEW p \in Pods, StartPod(p) \/ MovePod(p) \/ FinishPod(p) \/ DeletePod(p)
        PROVE  GonePodForgotten'
    BY <2>2, <2>3, ClusterWrites
  <2>4. CASE UNCHANGED podVars
    BY <2>4 DEF podVars
  <2>5. QED
    BY <2>1, <2>3, <2>4 DEF PodNext
<1>3. QED
  BY <1>1, <1>2, PodTypeCorrect, PTL DEF PodSpec

FoundInv == PodTypeOK /\ RunningOrFinished /\ AddressesUnique /\ RunningPodFound

(* What the cluster does keeps addresses unique. *)
LEMMA ClusterStep ==
    ASSUME PodTypeOK, RunningOrFinished, AddressesUnique, [PodNext]_podVars
    PROVE  RunningOrFinished' /\ AddressesUnique'
<1> USE PodAssumption DEF PodTypeOK, Pod, RunningOrFinished, AddressesUnique
<1>1. CASE pods' = pods /\ finishedIPs' = finishedIPs
  BY <1>1
<1>2. ASSUME NEW p \in Pods, StartPod(p) PROVE RunningOrFinished' /\ AddressesUnique'
  BY <1>2 DEF StartPod, WritePod, FreeIP
<1>3. ASSUME NEW p \in Pods, MovePod(p) PROVE RunningOrFinished' /\ AddressesUnique'
  BY <1>3 DEF MovePod, WritePod, FreeIP
<1>4. ASSUME NEW p \in Pods, FinishPod(p) PROVE RunningOrFinished' /\ AddressesUnique'
  BY <1>4 DEF FinishPod, WritePod
<1>5. ASSUME NEW p \in Pods, DeletePod(p) PROVE RunningOrFinished' /\ AddressesUnique'
  BY <1>5 DEF DeletePod, WritePod, Gone
<1>6. QED
  BY <1>1, <1>2, <1>3, <1>4, <1>5 DEF PodNext, podVars, ReconcilePod

(* An event for one pod does not take the address of another, unless the   *)
(* first has finished with it.                                             *)
LEMMA FoundStep ==
    ASSUME FoundInv, [PodNext]_podVars
    PROVE  RunningPodFound'
<1> USE PodAssumption DEF FoundInv, PodTypeOK, Pod, RunningPodFound, getPodInfoByIP
<1>1. ASSUME NEW p \in Pods, ReconcilePod(p) PROVE RunningPodFound'
  <2>1. CASE pods[p] = Gone
    BY <1>1, <2>1 DEF ReconcilePod, deletePod, Gone, RunningOrFinished
  <2>2. CASE pods[p] # Gone
    <3> SUFFICES ASSUME NEW q \in Pods \ podQueue', pods'[q].phase = "running",
                        pods'[q].ip \notin HostIPs \cup finishedIPs'
                 PROVE  ipToPod'[pods'[q].ip] = q /\ q \in podList'
      OBVIOUS
    <3>1. /\ pods' = pods /\ finishedIPs' = finishedIPs
          /\ podList' = podList \cup {p} /\ podQueue' = podQueue \ {p}
      BY <1>1, <2>2 DEF ReconcilePod, addPod
    <3>2. pods[q].phase = "running" /\ pods[q].ip \in IPs
      BY <3>1 DEF RunningOrFinished, Gone
    <3>3. CASE q = p
      BY <1>1, <2>2, <3>1, <3>2, <3>3 DEF ReconcilePod, addPod
    <3>4. CASE q # p
      <4>1. ipToPod[pods[q].ip] = q /\ q \in podList
        BY <3>1, <3>2, <3>4
      <4>2. pods[p].ip # pods[q].ip
        BY <2>2, <3>1, <3>2, <3>4 DEF AddressesUnique, RunningOrFinished
      <4>3. QED
        BY <1>1, <2>2, <3>1, <3>2, <4>1, <4>2 DEF ReconcilePod, addPod
    <3>5. QED
      BY <3>3, <3>4
  <2>3. QED
    BY <2>1, <2>2
<1>2. ASSUME NEW p \in Pods, NEW pod \in Pod, WritePod(p, pod), finishedIPs \subseteq finishedIPs'
      PROVE  RunningPodFound'
  BY <1>2 DEF WritePod
<1>3. ASSUME NEW p \in Pods, StartPod(p) \/ MovePod(p) \/ FinishPod(p) \/ DeletePod(p)
      PROVE  RunningPodFound'
  <2>1. finishedIPs \subseteq finishedIPs'
    BY <1>3 DEF StartPod, MovePod, FinishPod, DeletePod
  <2>2. QED
    BY <1>2, <1>3, <2>1, ClusterWrites
<1>4. CASE UNCHANGED podVars
  BY <1>4 DEF podVars
<1>5. QED
  BY <1>1, <1>3, <1>4 DEF PodNext

(* The address of a running pod leads to it as soon as its event is        *)
(* handled, if no pod has finished with that address.                      *)
THEOREM PodFound == PodSpec => []RunningPodFound
<1>1. PodInit => FoundInv
  BY PodTypeInit DEF PodInit, FoundInv, RunningOrFinished, AddressesUnique, RunningPodFound, Gone
<1>2. FoundInv /\ [PodNext]_podVars => FoundInv'
  BY PodTypeStep, ClusterStep, FoundStep DEF FoundInv
<1>3. FoundInv => RunningPodFound
  BY DEF FoundInv
<1>4. QED
  BY <1>1, <1>2, <1>3, PTL DEF PodSpec
-------------------------------------------------------------------------------
(***************************************************************************)
(* getResponse of the peer client.  That a success is justified follows    *)
(* from the step that receives it; that an error is, and that nobody is    *)
(* left sending, also needs to know what the lock excludes and which       *)
(* goroutines the flag done can still meet.                                *)
(***************************************************************************)

(* Nobody shares the lock, and whoever is between lock and unlock holds it. *)
Exclusion == LockHolders /\ \A a, b \in lock : a = b

(* What the phases of the goroutines and of the caller tell about the rest. *)
Progress ==
    /\ done <=> ret \in {"unlocking", "ok"}
    /\ \A c \in clients : sender[c] = "sending" => ~done
    /\ \A c \in clients : sender[c] = "calling" <=> result[c] = "none"
    /\ \A c \in received : result[c] = "error" /\ sender[c] \in {"unlocking", "finished"}
    /\ ret = "error" => received = clients
    /\ ret \in {"locking", "unlocking", "ok"} => \E c \in clients : result[c] = "ok"

ClientInv == ClientTypeOK /\ Exclusion /\ Progress

(* The state of getResponse keeps its types. *)
THEOREM ClientTypeCorrect == ClientSpec => []ClientTypeOK
<1>1. ClientInit => ClientTypeOK
  BY DEF ClientInit, ClientTypeOK
<1>2. ClientTypeOK /\ [ClientNext]_clientVars => ClientTypeOK'
  BY DEF ClientTypeOK, ClientNext, clientVars, Respond, Lock, Receive, Unlock, SetDone, Return
<1>3. QED
  BY <1>1, <1>2, PTL DEF ClientSpec

(* At the start nobody holds the lock and nothing is known. *)
LEMMA InitClientInv == ClientInit => ClientInv
  BY DEF ClientInit, ClientInv, ClientTypeOK, Exclusion, LockHolders, Progress

(* Every step keeps the lock exclusive. *)
LEMMA ExclusionStep == ClientInv /\ [ClientNext]_clientVars => Exclusion'
<1> SUFFICES ASSUME ClientInv, [ClientNext]_clientVars PROVE Exclusion'
  OBVIOUS
<1> USE ClientsAssumption DEF ClientInv, ClientTypeOK, Exclusion, LockHolders
<1>1. CASE SetDone
  BY <1>1 DEF SetDone
<1>2. CASE Return
  BY <1>2 DEF Return
<1>3. ASSUME NEW c \in clients, Respond(c) PROVE Exclusion'
  BY <1>3 DEF Respond
<1>4. ASSUME NEW c \in clients, Lock(c) PROVE Exclusion'
  BY <1>4 DEF Lock
<1>5. ASSUME NEW c \in clients, Receive(c) PROVE Exclusion'
  BY <1>5 DEF Receive
<1>6. ASSUME NEW c \in clients, Unlock(c) PROVE Exclusion'
  BY <1>6 DEF Unlock
<1>7. CASE UNCHANGED clientVars
  BY <1>7 DEF clientVars
<1>8. QED
  BY <1>1, <1>2, <1>3, <1>4, <1>5, <1>6, <1>7 DEF ClientNext

(* Every step keeps what the phases tell. *)
LEMMA ProgressStep == ClientInv /\ [ClientNext]_clientVars => Progress'
<1> SUFFICES ASSUME ClientInv, [ClientNext]_clientVars PROVE Progress'
  OBVIOUS
<1> USE ClientsAssumption DEF ClientInv, ClientTypeOK, Progress
<1>1. CASE SetDone
  BY <1>1 DEF SetDone, Exclusion, LockHolders
<1>2. CASE Return
  BY <1>2 DEF Return
<1>3. ASSUME NEW c \in clients, Respond(c) PROVE Progress'
  BY <1>3 DEF Respond
<1>4. ASSUME NEW c \in clients, Lock(c) PROVE Progress'
  BY <1>4 DEF Lock
<1>5. ASSUME NEW c \in clients, Receive(c) PROVE Progress'
  <2>1. ~done /\ sender[c] = "sending" /\ ret = "receiving"
    BY <1>5 DEF Receive
  <2>2. CASE result[c] = "ok"
    BY <1>5, <2>1, <2>2 DEF Receive
  <2>3. CASE result[c] # "ok"
    <3>1. result[c] = "error"
      BY <2>1, <2>3
    <3>2. QED
      BY <1>5, <2>1, <2>3, <3>1 DEF Receive
  <2>4. QED
    BY <2>2, <2>3
<1>6. ASSUME NEW c \in clients, Unlock(c) PROVE Progress'
  BY <1>6 DEF Unlock
<1>7. CASE UNCHANGED clientVars
  BY <1>7 DEF clientVars
<1>8. QED
  BY <1>1, <1>2, <1>3, <1>4, <1>5, <1>6, <1>7 DEF ClientNext

(* The inductive invariant holds throughout. *)
LEMMA ClientInductive == ClientSpec => []ClientInv
<1>1. ClientInv /\ [ClientNext]_clientVars => ClientInv'
  <2>1. ClientInv /\ [ClientNext]_clientVars => ClientTypeOK'
    BY DEF ClientInv, ClientTypeOK, ClientNext, clientVars, Respond, Lock, Receive, Unlock, SetDone, Return
  <2>2. QED
    BY <2>1, ExclusionStep, ProgressStep DEF ClientInv
<1>2. QED
  BY InitClientInv, <1>1, PTL DEF ClientSpec

(* For any number of gateways, getResponse returns a success only if some  *)
(* gateway answered, and an error only if every gateway failed.            *)
THEOREM Justified == ClientSpec => []ReturnIsJustified
<1>1. ClientInv => ReturnIsJustified
  BY DEF ClientInv, ClientTypeOK, Progress, ReturnIsJustified
<1>2. QED
  BY ClientInductive, <1>1, PTL

(* For any number of gateways, no goroutine is left in the channel once    *)
(* getResponse has returned.                                               *)
THEOREM NobodyLeft == ClientSpec => []NobodyLeftSending
<1>1. ClientInv => NobodyLeftSending
  BY DEF ClientInv, ClientTypeOK, Progress, NobodyLeftSending
<1>2. QED
  BY ClientInductive, <1>1, PTL
===============================================================================
