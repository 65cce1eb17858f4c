--------------------------------- MODULE Egress ---------------------------------
(***************************************************************************)
(* Authorization of connections to an imported service: authorizeEgress of *)
(* pkg/controlplane/authz/manager.go with the load balancer of             *)
(* pkg/controlplane/authz/loadbalancer.go.  Requests run concurrently;     *)
(* each tries the sources of its copy of the import one by one, sets those *)
(* aside whose peer is not reachable, and comes back to them in the end.   *)
(*                                                                         *)
(* Peers, policies and remote control planes may answer differently at     *)
(* every step, except in a healthy environment, where every peer exists,   *)
(* is reachable and allows the connection.                                 *)
(***************************************************************************)
EXTENDS Integers, Sequences, FiniteSets

CONSTANTS sourceCount,    \* the number of sources of the import
          Requests,
          MaxRequests,    \* requests that are made in all
          MaxHealthy,     \* the same in a healthy environment
          Schemes,        \* the load balancing schemes an import may have
          CounterBits     \* the width of the round robin counter (32 in the code)

Sources == 0..(sourceCount - 1)

ASSUME EgressAssumption ==
    /\ sourceCount \in Nat /\ IsFiniteSet(Requests)
    /\ CounterBits \in Nat /\ 2 ^ CounterBits \in Nat \ {0}
    /\ MaxRequests \in Nat /\ MaxHealthy \in Nat
    /\ Schemes \subseteq {"random", "round-robin", "static"}

(* Objects importState; 0 is the nil pointer. *)
States == 1..(Cardinality(Requests) + 1)

VARIABLES scheme,
          healthy,        \* whether the environment is healthy
          states,         \* the entry of the import in LoadBalancer.states
          counters,       \* the counters of the objects that were created
          req,            \* the requests
          picks,          \* how often a source was selected first
          made

vars == <<scheme, healthy, states, counters, req, picks, made>>

Request == [pc: {"idle", "select", "create", "count", "peer", "contact", "done"},
            currentIndex: Sources \cup {-1}, failed: SUBSET Sources, delayed: Seq(Sources),
            state: States \cup {0}, up: BOOLEAN,
            seen: [Sources -> {"untried", "delayed", "refused"}],
            result: {"none", "invalid", "exhausted", "error", "allowed"}]

TypeOK ==
    /\ scheme \in Schemes /\ healthy \in BOOLEAN
    /\ states \in States \cup {0}
    /\ counters \in [States -> 0..(2 ^ CounterBits - 1)]
    /\ req \in [Requests -> Request]
    /\ picks \in [Sources -> Nat]
    /\ made \in 0..(IF healthy THEN MaxHealthy ELSE MaxRequests)

NewLoadBalancingResult(pc, result) ==
    [pc |-> pc, currentIndex |-> -1, failed |-> {}, delayed |-> <<>>, state |-> 0,
     up |-> FALSE, seen |-> [i \in Sources |-> "untried"], result |-> result]

Init ==
    /\ scheme \in Schemes /\ healthy \in BOOLEAN
    /\ states = 0
    /\ counters = [s \in States |-> 0]
    /\ req = [r \in Requests |-> NewLoadBalancingResult("idle", "none")]
    /\ picks = [i \in Sources |-> 0]
    /\ made = 0

(* A request comes in.  It is refused at once if its import does not exist *)
(* or policies depend on attributes that its client does not have.         *)
Begin(r) ==
    /\ req[r].pc \in {"idle", "done"} /\ made < (IF healthy THEN MaxHealthy ELSE MaxRequests)
    /\ made' = made + 1
    /\ \/ req' = [req EXCEPT ![r] = NewLoadBalancingResult("select", "none")]
       \/ ~healthy /\ req' = [req EXCEPT ![r] = NewLoadBalancingResult("done", "invalid")]
    /\ UNCHANGED <<scheme, healthy, states, counters, picks>>
-------------------------------------------------------------------------------
(* LoadBalancer.Select *)

(* Select marks the current source as failed (or tried), *)
Failed(q) == q.failed \cup ({q.currentIndex} \ {-1})

(* and hands out source i. *)
Selected(r, i) ==
    /\ req' = [req EXCEPT ![r].failed = Failed(req[r]), ![r].currentIndex = i, ![r].pc = "peer"]
    /\ picks' = IF Failed(req[r]) = {} THEN [picks EXCEPT ![i] = @ + 1] ELSE picks

(* Mutant of SelectDelayed: a source that was set aside stays on the list. *)
SelectDelayedAgain(r) ==
    /\ req[r].pc = "select" /\ Failed(req[r]) = Sources
    /\ req' = [req EXCEPT ![r] =
          IF req[r].delayed # <<>>
          THEN [req[r] EXCEPT !.failed = Sources, !.currentIndex = Head(req[r].delayed), !.pc = "peer"]
          ELSE [req[r] EXCEPT !.failed = Sources, !.pc = "done", !.result = "exhausted"]]
    /\ UNCHANGED <<scheme, healthy, states, counters, picks, made>>

(* All sources were tried: the first one that was set aside, or the end. *)
SelectDelayed(r) ==
    /\ req[r].pc = "select" /\ Failed(req[r]) = Sources
    /\ req' = [req EXCEPT ![r] =
          IF req[r].delayed # <<>>
          THEN [req[r] EXCEPT !.failed = Sources, !.currentIndex = Head(req[r].delayed),
                              !.delayed = Tail(req[r].delayed), !.pc = "peer"]
          ELSE [req[r] EXCEPT !.failed = Sources, !.pc = "done", !.result = "exhausted"]]
    /\ UNCHANGED <<scheme, healthy, states, counters, picks, made>>

(* Any source that has not failed (the search starts at a random one). *)
SelectRandom(r) ==
    /\ req[r].pc = "select" /\ Failed(req[r]) # Sources /\ scheme = "random"
    /\ \E i \in Sources \ Failed(req[r]) : Selected(r, i)
    /\ UNCHANGED <<scheme, healthy, states, counters, made>>

SelectStatic(r) ==
    /\ req[r].pc = "select" /\ Failed(req[r]) # Sources /\ scheme = "static"
    /\ Selected(r, req[r].currentIndex + 1)
    /\ UNCHANGED <<scheme, healthy, states, counters, made>>

(* selectRoundRobin: the state of the import is looked up, *)
LookUpState(r) ==
    /\ req[r].pc = "select" /\ Failed(req[r]) # Sources /\ scheme = "round-robin"
    /\ req' = [req EXCEPT ![r].state = states, ![r].pc = IF states = 0 THEN "create" ELSE "count"]
    /\ UNCHANGED <<scheme, healthy, states, counters, picks, made>>

(* Mutant of CreateState: it is not looked up again under the lock. *)
CreateAnyway(r) ==
    /\ req[r].pc = "create"
    /\ states' = states + 1
    /\ req' = [req EXCEPT ![r].state = states', ![r].pc = "count"]
    /\ UNCHANGED <<scheme, healthy, counters, picks, made>>

(* created if it is still not there, *)
CreateState(r) ==
    /\ req[r].pc = "create"
    /\ states' = IF states = 0 THEN 1 ELSE states
    /\ req' = [req EXCEPT ![r].state = states', ![r].pc = "count"]
    /\ UNCHANGED <<scheme, healthy, counters, picks, made>>

NextIndex(i, counter) ==
    IF i = -1 THEN counter % sourceCount ELSE (i + 1) % sourceCount

(* and counted. *)
SelectRoundRobin(r) ==
    LET counter == (counters[req[r].state] + 1) % 2 ^ CounterBits
    IN  /\ req[r].pc = "count"
        /\ counters' = [counters EXCEPT ![req[r].state] = counter]
        /\ Selected(r, NextIndex(req[r].currentIndex, counter))
        /\ UNCHANGED <<scheme, healthy, states, made>>
-------------------------------------------------------------------------------
(* The rest of the loop of authorizeEgress. *)

IsDelayed(q) == q.failed = Sources

(* Mutant of Delay: the source is forgotten. *)
DelayLost(q) == [q EXCEPT !.seen[q.currentIndex] = "delayed", !.pc = "select"]

Delay(q) ==
    [q EXCEPT !.delayed = Append(@, q.currentIndex), !.seen[q.currentIndex] = "delayed",
              !.pc = "select"]

(* The peer of the source, and whether it is reachable. *)
GetPeer(r) ==
    LET q == req[r]
    IN  /\ q.pc = "peer"
        /\ \E up \in (IF healthy THEN {TRUE} ELSE BOOLEAN) :
              req' = [req EXCEPT ![r] =
                 IF ~up /\ ~IsDelayed(q) THEN Delay(q) ELSE [q EXCEPT !.up = up, !.pc = "contact"]]
        /\ UNCHANGED <<scheme, healthy, states, counters, picks, made>>

(* The peer, or the client for it, does not exist. *)
PeerMissing(r) ==
    /\ ~healthy /\ req[r].pc \in {"peer", "contact"}
    /\ req' = [req EXCEPT ![r].pc = "done", ![r].result = "error"]
    /\ UNCHANGED <<scheme, healthy, states, counters, picks, made>>

(* The PDP denies the connection, or the remote peer does. *)
Refused(r) ==
    /\ ~healthy /\ req[r].pc = "contact"
    /\ req' = [req EXCEPT ![r].pc = "select", ![r].seen[req[r].currentIndex] = "refused"]
    /\ UNCHANGED <<scheme, healthy, states, counters, picks, made>>

(* Both allow it: the peer and its token are the answer. *)
Authorized(r) ==
    /\ req[r].pc = "contact"
    /\ req' = [req EXCEPT ![r].pc = "done", ![r].result = "allowed"]
    /\ UNCHANGED <<scheme, healthy, states, counters, picks, made>>

Step(r) ==
    \/ SelectDelayed(r) \/ SelectRandom(r) \/ SelectStatic(r)
    \/ LookUpState(r) \/ CreateState(r) \/ SelectRoundRobin(r)
    \/ GetPeer(r) \/ PeerMissing(r) \/ Refused(r) \/ Authorized(r)

Next == \E r \in Requests : Begin(r) \/ Step(r)

Spec == Init /\ [][Next]_vars

(* The goroutine of a request runs on; calls of other peers time out. *)
FairSpec == Spec /\ \A r \in Requests : WF_vars(Step(r))
-------------------------------------------------------------------------------
(* "tried out all sources": a request that gives up was refused by every   *)
(* source, those set aside included.                                       *)
NoSourceSkipped ==
    \A r \in Requests :
        req[r].result = "exhausted" => \A i \in Sources : req[r].seen[i] = "refused"

(* In a healthy environment round robin spreads concurrent requests evenly *)
(* over the sources: no two of them create the state of the import, and    *)
(* every wrap-around of the counter costs at most one request.             *)
RoundRobinBalanced ==
    scheme = "round-robin" /\ healthy =>
        \A i, j \in Sources : picks[i] <= picks[j] + 1 + made \div 2 ^ CounterBits

(* Every request is answered: the loop over the sources ends. *)
Answered == \A r \in Requests : req[r].pc # "done" /\ req[r].pc # "idle" ~> req[r].pc = "done"
===============================================================================
