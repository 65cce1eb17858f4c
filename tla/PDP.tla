---------------------------------- MODULE PDP ----------------------------------
(***************************************************************************)
(* The policy decision point of the control plane                          *)
(* (pkg/controlplane/authz/connectivitypdp) and the two controllers that   *)
(* feed it: policies in two tiers, each with a map of deny and a map of    *)
(* allow policies under a lock of its own, and a request that first asks   *)
(* whether policies depend on attributes of the client (if it has none),   *)
(* and then has the connection decided by one tier after the other.        *)
(* Requests only read, so one at a time is enough to see all of them.      *)
(* Only tests list the policies (GetPolicies), which mixes up the maps:    *)
(* listed tells that it happened.                                          *)
(*                                                                         *)
(* Attributes and selectors are reduced to what they do: a client either   *)
(* has attributes ("app") or not ("none"), and the From of a policy        *)
(* selects everything ("all", empty selectors), or is a selector that      *)
(* matches the client with attributes ("app") or only the one without      *)
(* ("notApp").  To always matches: a policy whose To does not match is, to *)
(* the decision, like one that is not there.                               *)
(***************************************************************************)
EXTENDS Integers, FiniteSets

CONSTANTS Namespaces,
          NoNamespace,   \* the namespace of privileged policies
          Ids,           \* the names of policies within a namespace
          MaxChanges,    \* changes of policies by users
          Clients        \* the clients that connect

ASSUME PDPAssumption ==
    /\ NoNamespace \notin Namespaces
    /\ MaxChanges \in Nat
    /\ Clients \subseteq {"app", "none"}

Tiers == {"privileged", "regular"}
Names(t) == (IF t = "privileged" THEN {NoNamespace} ELSE Namespaces) \X Ids
Policies == UNION {{t} \X Names(t) : t \in Tiers}

ValidSpecs == [action: {"allow", "deny"}, from: {"all", "app", "notApp"}]
Invalid == [action |-> "invalid", from |-> "all"]
NoSpec == [action |-> "none", from |-> "all"]
Stored == ValidSpecs \cup {NoSpec}

VARIABLES objects,        \* the policies in the API server
          queue,          \* policies with an event
          denyPolicies, allowPolicies,
          src, ns,        \* the request: the client, and the namespace of the import or export
          pc, decision,   \* how far it is, and how it was decided
          raced,          \* a map changed while it was iterated without lock
          always, ever,   \* policies installed all through the request, or at some time in it
          listed,         \* GetPolicies was called, and has put allow policies among the others
          changes

pdpVars == <<denyPolicies, allowPolicies>>
userVars == <<objects, changes>>
requestVars == <<src, ns, pc, decision>>
vars == <<objects, queue, denyPolicies, allowPolicies, src, ns, pc, decision, raced,
          always, ever, listed, changes>>

TypeOK ==
    /\ objects \in [Policies -> Stored \cup {Invalid}]
    /\ queue \in SUBSET Policies
    /\ denyPolicies \in [Policies -> Stored]
    /\ allowPolicies \in [Policies -> Stored]
    /\ src \in {"app", "none"}
    /\ ns \in Namespaces
    /\ pc \in {"idle", "iterating", "privileged", "regular", "done"}
    /\ decision \in {"allow", "deny"}
    /\ raced \in BOOLEAN
    /\ always \in SUBSET (Policies \X ValidSpecs)
    /\ ever \in SUBSET (Policies \X ValidSpecs)
    /\ listed \in BOOLEAN
    /\ changes \in 0..MaxChanges

Init ==
    /\ objects = [p \in Policies |-> NoSpec]
    /\ queue = {}
    /\ denyPolicies = [p \in Policies |-> NoSpec]
    /\ allowPolicies = [p \in Policies |-> NoSpec]
    /\ src \in Clients /\ ns \in Namespaces
    /\ pc = "idle" /\ decision = "deny" /\ raced = FALSE
    /\ always = {} /\ ever = {}
    /\ listed = FALSE /\ changes = 0
-------------------------------------------------------------------------------
(* accessPolicyMatches *)
Matches(s, client) ==
    s # NoSpec /\ (s.from = "all" \/ (s.from = "app") = (client = "app"))

(* Mutant of Considered: the namespace is not looked at. *)
ConsideredAnywhere(p, namespace) == TRUE

(* Regular policies count in their namespace only. *)
Considered(p, namespace) == p[1] = "privileged" \/ p[2][1] = namespace

(* connPolicyMap.decide: the map is walked in any order, and the first     *)
(* policy that matches decides.                                            *)
MapDecisions(cpm, t) ==
    {cpm[p].action : p \in {q \in Policies : /\ q[1] = t /\ Considered(q, ns)
                                             /\ Matches(cpm[q], src)}}

(* policyTier.decide, under the lock of the tier ({}: undecided). *)
TierDecisions(t) ==
    IF MapDecisions(denyPolicies, t) # {}
    THEN MapDecisions(denyPolicies, t)
    ELSE MapDecisions(allowPolicies, t)

(* PDP.DependsOnClientAttrs *)
DependsOnClientAttrs ==
    \E p \in Policies : \E s \in {denyPolicies[p], allowPolicies[p]} : s # NoSpec /\ s.from # "all"
-------------------------------------------------------------------------------
(* Whether a policy of a set and a tier has an action. *)
Say(S, action, t) == \E x \in S : x[1][1] = t /\ x[2].action = action

(* The installed policies that match the connection of the request. *)
Installed ==
    {x \in Policies \X ValidSpecs :
        /\ x[2] \in {denyPolicies[x[1]], allowPolicies[x[1]]}
        /\ x[1][2][1] \in {NoNamespace, ns} /\ Matches(x[2], src)}

(* The history variables, when policies change during a request. *)
Active == pc \in {"iterating", "privileged", "regular"}
Watch ==
    IF Active
    THEN /\ always' = always \cap Installed'
         /\ ever' = ever \cup Installed'
    ELSE UNCHANGED <<always, ever>>
-------------------------------------------------------------------------------
(* The requests (authorizeEgress, authorizeIngress). *)

Begin ==
    /\ pc \in {"idle", "done"}
    /\ src' \in Clients /\ ns' \in Namespaces
    /\ pc' = IF src' = "none" THEN "iterating" ELSE "privileged"
    /\ raced' = FALSE
    /\ UNCHANGED <<userVars, queue, pdpVars, decision, listed>>
    /\ always' = Installed' /\ ever' = Installed'

Decided(d) ==
    /\ pc' = "done" /\ decision' = d
    /\ UNCHANGED <<src, ns>>

Undecided(next) ==
    /\ pc' = next
    /\ UNCHANGED <<src, ns, decision>>

(* The end of dependsOnClientAttrs, which iterates over the maps without   *)
(* their locks.  If one changed meanwhile the result may be anything.      *)
CheckClientAttrs ==
    /\ pc = "iterating"
    /\ \/ (DependsOnClientAttrs \/ raced) /\ Decided("deny")
       \/ (~DependsOnClientAttrs \/ raced) /\ Undecided("privileged")
    /\ UNCHANGED <<userVars, queue, pdpVars, raced, always, ever, listed>>

(* Or the runtime aborts the process ("concurrent map iteration and map    *)
(* write"), and a new one starts with the policies that exist.             *)
Crash ==
    /\ pc = "iterating" /\ raced
    /\ denyPolicies' = [p \in Policies |-> NoSpec]
    /\ allowPolicies' = [p \in Policies |-> NoSpec]
    /\ queue' = {p \in Policies : objects[p] # NoSpec}
    /\ pc' = "idle" /\ raced' = FALSE /\ listed' = FALSE
    /\ always' = {} /\ ever' = {}
    /\ UNCHANGED <<userVars, src, ns, decision>>

DecidePrivileged ==
    /\ pc = "privileged"
    /\ \/ \E d \in TierDecisions("privileged") : Decided(d)
       \/ TierDecisions("privileged") = {} /\ Undecided("regular")
    /\ UNCHANGED <<userVars, queue, pdpVars, raced, always, ever, listed>>

DecideRegular ==
    /\ pc = "regular"
    /\ \/ \E d \in TierDecisions("regular") : Decided(d)
       \/ TierDecisions("regular") = {} /\ Decided("deny")
    /\ UNCHANGED <<userVars, queue, pdpVars, raced, always, ever, listed>>
-------------------------------------------------------------------------------
(* The controllers authz.access-policy and authz.privileged-access-policy. *)

(* Mutant of unsafeDeletePolicy: a policy that was not there is an allow   *)
(* policy.                                                                 *)
deleteDenyOnly(p) ==
    /\ denyPolicies' = [denyPolicies EXCEPT ![p] = NoSpec]
    /\ UNCHANGED allowPolicies

unsafeDeletePolicy(p) ==
    /\ denyPolicies' = [denyPolicies EXCEPT ![p] = NoSpec]
    /\ allowPolicies' = [allowPolicies EXCEPT ![p] = NoSpec]

addPolicy(p, s) ==
    /\ denyPolicies' = [denyPolicies EXCEPT ![p] = IF s.action = "deny" THEN s ELSE NoSpec]
    /\ allowPolicies' = [allowPolicies EXCEPT ![p] = IF s.action = "deny" THEN NoSpec ELSE s]

Validate(s) == s.action \in {"allow", "deny"}

(* A policy that is not valid is an error, and so is the deletion of one   *)
(* that is not installed: the event stays in the queue and nothing         *)
(* changes.                                                                *)
ReconcilePolicy(p) ==
    /\ p \in queue
    /\ \/ objects[p] # NoSpec /\ Validate(objects[p]) /\ addPolicy(p, objects[p])
       \/ /\ objects[p] = NoSpec
          /\ denyPolicies[p] # NoSpec \/ allowPolicies[p] # NoSpec
          /\ unsafeDeletePolicy(p)
    /\ queue' = queue \ {p}
    /\ raced' = (raced \/ pc = "iterating")
    /\ UNCHANGED <<userVars, requestVars, listed>>
    /\ Watch

(* GetPolicies, GetPrivilegedPolicies: getPolicies collects the policies   *)
(* in the map of the deny policies itself.                                 *)
GetPolicies(t) ==
    /\ listed' = TRUE
    /\ denyPolicies' = [p \in Policies |->
          IF p[1] = t /\ allowPolicies[p] # NoSpec THEN allowPolicies[p] ELSE denyPolicies[p]]
    /\ raced' = (raced \/ pc = "iterating")
    /\ UNCHANGED <<userVars, queue, requestVars, allowPolicies>>
    /\ Watch

UserWrites(p) ==
    /\ changes < MaxChanges
    /\ changes' = changes + 1
    /\ \E s \in (Stored \cup {Invalid}) \ {objects[p]} : objects' = [objects EXCEPT ![p] = s]
    /\ queue' = queue \cup {p}
    /\ UNCHANGED <<pdpVars, requestVars, raced, always, ever, listed>>

Next ==
    \/ Begin \/ CheckClientAttrs \/ Crash \/ DecidePrivileged \/ DecideRegular
    \/ \E p \in Policies : ReconcilePolicy(p) \/ UserWrites(p)
    \/ \E t \in Tiers : GetPolicies(t)

Spec == Init /\ [][Next]_vars
-------------------------------------------------------------------------------
(* "Within a tier, no two policies can have the same name, even if one is  *)
(* deny and the other is allow", and each is in the map of its action, as  *)
(* long as nobody lists the policies.                                      *)
OnePolicyPerName ==
    ~listed =>
    \A p \in Policies : /\ denyPolicies[p] = NoSpec \/ allowPolicies[p] = NoSpec
                        /\ denyPolicies[p].action \in {"deny", "none"}
                        /\ allowPolicies[p].action \in {"allow", "none"}

(* Once its events are handled, the PDP applies a policy as users wrote    *)
(* it, and no policy that they deleted.                                    *)
InstalledFollowsObjects ==
    \A p \in Policies \ queue :
        objects[p] = IF denyPolicies[p] # NoSpec THEN denyPolicies[p] ELSE allowPolicies[p]

(* Policies that stay while a connection is decided are obeyed, whatever   *)
(* happens to others meanwhile: a privileged deny is final, a privileged   *)
(* allow is only overruled by a privileged deny, and so on down the tiers. *)
(* Nothing is allowed without a policy.  After a listing the order of deny *)
(* and allow within a tier is no longer kept.                              *)
StablePoliciesObeyed ==
    pc = "done" /\ ~listed =>
        /\ decision = "allow" =>
              /\ ~Say(always, "deny", "privileged")
              /\ Say(ever, "allow", "privileged") \/ Say(ever, "allow", "regular")
              /\ Say(always, "deny", "regular") => Say(ever, "allow", "privileged")
        /\ decision = "deny" /\ src = "app" =>
              /\ Say(always, "allow", "privileged") => Say(ever, "deny", "privileged")
              /\ Say(always, "allow", "regular") =>
                    Say(ever, "deny", "privileged") \/ Say(ever, "deny", "regular")
===============================================================================
