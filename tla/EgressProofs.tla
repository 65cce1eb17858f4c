----------------------------- MODULE EgressProofs -----------------------------
(***************************************************************************)
(* Proofs about the choice of a source for a connection to an imported     *)
(* service (Egress), for any number of sources, any number of concurrent   *)
(* requests and any width of the round robin counter; and about the        *)
(* monitors that tell which peers can be reached (PeerManager), for any    *)
(* peers and any number of monitors.  The two specifications share no      *)
(* variables.                                                              *)
(***************************************************************************)
EXTENDS Egress, PeerManager, FiniteSetTheorems, TLAPS

(* Source i was refused, or is on the list of those that were set aside. *)
Settled(q, i) == q.seen[i] = "refused" \/ \E k \in 1..Len(q.delayed) : q.delayed[k] = i

(* What the loop over the sources knows of a request: the sources that it  *)
(* has left behind are settled.  While a source is tried, it alone may not *)
(* be; the static scheme leaves them behind in order.                      *)
LoopInv(q) ==
    /\ q.pc \in {"select", "create", "count"} => \A i \in Failed(q) : Settled(q, i)
    /\ q.pc \in {"peer", "contact"} =>
          q.currentIndex \in Sources /\ \A i \in q.failed \ {q.currentIndex} : Settled(q, i)
    /\ q.pc \in {"create", "count"} => Failed(q) # Sources /\ scheme = "round-robin"
    /\ q.pc = "count" => q.state \in States
    /\ scheme = "static" /\ Failed(q) # Sources => q.failed = 0..(q.currentIndex - 1)
    /\ q.result = "exhausted" => q.pc = "done" /\ \A i \in Sources : q.seen[i] = "refused"

SkipInv == TypeOK /\ \A r \in Requests : LoopInv(req[r])

-------------------------------------------------------------------------------
(* A step that writes one request keeps the invariant if that request does. *)
LEMMA OneRequest ==
    ASSUME SkipInv, NEW r \in Requests, NEW q \in Request, req' = [req EXCEPT ![r] = q],
           LoopInv(q), scheme' = scheme
    PROVE  req' \in [Requests -> Request] /\ \A x \in Requests : LoopInv(req[x])'
<1>1. req \in [Requests -> Request] /\ \A x \in Requests : LoopInv(req[x])
  BY DEF SkipInv, TypeOK
<1>2. req' \in [Requests -> Request]
  BY <1>1
<1>3. \A x \in Requests : LoopInv(req'[x])
  BY <1>1
<1>4. QED
  BY <1>2, <1>3 DEF LoopInv

(* The sources are numbers, and a request that goes on has some. *)
LEMMA FailedType ==
    ASSUME NEW q \in Request
    PROVE  Failed(q) \in SUBSET Sources /\ q.currentIndex \in Int
  BY EgressAssumption DEF Request, Failed, Sources

(* A request begins with no source behind it. *)
LEMMA NewResult ==
    ASSUME NEW pc \in {"idle", "select", "done"}, NEW result \in {"none", "invalid"}
    PROVE  /\ NewLoadBalancingResult(pc, result) \in Request
           /\ LoopInv(NewLoadBalancingResult(pc, result))
<1> DEFINE p == NewLoadBalancingResult(pc, result)
<1>1. /\ p.pc = pc /\ p.result = result /\ p.currentIndex = -1 /\ p.failed = {}
      /\ Failed(p) = {}
  BY DEF NewLoadBalancingResult, Failed
<1>2. 0..(-1 - 1) = {}
  OBVIOUS
<1>3. p \in Request
  BY DEF NewLoadBalancingResult, Request
<1>4. QED
  BY <1>1, <1>2, <1>3 DEF LoopInv

(* There is room for a state of the import, and its counter keeps its width. *)
LEMMA OneState == 1 \in States
  BY FS_CardinalityType, EgressAssumption DEF States

LEMMA CounterRange == \A c \in Nat : c % 2 ^ CounterBits \in 0..(2 ^ CounterBits - 1)
<1> DEFINE M == 2 ^ CounterBits
<1>1. M \in Nat \ {0}
  BY EgressAssumption
<1> HIDE DEF M
<1>2. \A c \in Nat : c % M \in 0..(M - 1)
  BY <1>1
<1>3. QED
  BY <1>2 DEF M

(* Handing out source i, which has not been tried, keeps the invariant. *)
LEMMA SelectedStep ==
    ASSUME SkipInv, NEW r \in Requests, NEW i \in Sources, Selected(r, i), scheme' = scheme,
           req[r].pc \in {"select", "count"}, Failed(req[r]) # Sources,
           scheme = "static" => i = req[r].currentIndex + 1
    PROVE  /\ req' \in [Requests -> Request] /\ \A x \in Requests : LoopInv(req[x])'
           /\ picks' \in [Sources -> Nat]
<1> DEFINE q == req[r]
           p == [q EXCEPT !.failed = Failed(q), !.currentIndex = i, !.pc = "peer"]
<1>1. q \in Request /\ LoopInv(q)
  BY DEF SkipInv, TypeOK
<1>2. p \in Request
  BY <1>1, FailedType DEF Request
<1>3. req' = [req EXCEPT ![r] = p]
  BY <1>1 DEF Selected, SkipInv, TypeOK, Request
<1>4. \A j \in Sources : Settled(p, j) <=> Settled(q, j)
  BY <1>1 DEF Settled, Request
<1>5. LoopInv(p)
  <2>1. \A j \in p.failed \ {i} : Settled(p, j)
    BY <1>1, <1>4, FailedType DEF LoopInv, Request
  <2>2. scheme = "static" => p.failed = 0..(p.currentIndex - 1)
    <3>1. SUFFICES ASSUME scheme = "static" PROVE Failed(q) = 0..(i - 1)
      BY <1>1 DEF Request
    <3>2. q.failed = 0..(q.currentIndex - 1) /\ i = q.currentIndex + 1
      BY <1>1, <3>1 DEF LoopInv
    <3>3. q.currentIndex \in Int /\ q.currentIndex >= -1
      BY <1>1, EgressAssumption DEF Request, Sources
    <3>4. QED
      BY <3>2, <3>3 DEF Failed
  <2>3. QED
    BY <1>1, <2>1, <2>2 DEF LoopInv, Request
<1>6. picks' \in [Sources -> Nat]
  BY DEF Selected, SkipInv, TypeOK
<1>7. QED
  BY <1>2, <1>3, <1>5, <1>6, OneRequest

(* Every step keeps what the loop knows of every request. *)
LEMMA SkipStep == SkipInv /\ [Next]_vars => SkipInv'
<1> SUFFICES ASSUME SkipInv, [Next]_vars PROVE SkipInv'
  OBVIOUS
<1>1. ASSUME NEW r \in Requests, Begin(r) PROVE SkipInv'
  <2>1. PICK pc \in {"select", "done"}, result \in {"none", "invalid"} :
            req' = [req EXCEPT ![r] = NewLoadBalancingResult(pc, result)]
    BY <1>1 DEF Begin
  <2>2. NewLoadBalancingResult(pc, result) \in Request
    BY NewResult
  <2>3. LoopInv(NewLoadBalancingResult(pc, result))
    BY NewResult
  <2>4. req' \in [Requests -> Request] /\ \A x \in Requests : LoopInv(req[x])'
    BY <1>1, <2>1, <2>2, <2>3, OneRequest DEF Begin
  <2>5. made' \in 0..(IF healthy THEN MaxHealthy ELSE MaxRequests)
    BY <1>1, EgressAssumption DEF Begin, SkipInv, TypeOK
  <2>6. QED
    BY <1>1, <2>4, <2>5 DEF Begin, SkipInv, TypeOK
<1>2. ASSUME NEW r \in Requests, SelectDelayed(r) PROVE SkipInv'
  <2> DEFINE q == req[r]
  <2>1. q \in Request /\ LoopInv(q) /\ q.pc = "select" /\ Failed(q) = Sources
    BY <1>2 DEF SelectDelayed, SkipInv, TypeOK
  <2>2. \A i \in Sources : Settled(q, i)
    BY <2>1 DEF LoopInv
  <2>3. CASE q.delayed # <<>>
    <3> DEFINE p == [q EXCEPT !.failed = Sources, !.currentIndex = Head(q.delayed),
                              !.delayed = Tail(q.delayed), !.pc = "peer"]
    <3>1. req' = [req EXCEPT ![r] = p]
      BY <1>2, <2>3 DEF SelectDelayed
    <3>2. Head(q.delayed) \in Sources /\ Tail(q.delayed) \in Seq(Sources)
      BY <2>1, <2>3 DEF Request
    <3>3. p \in Request
      BY <2>1, <3>2 DEF Request
    <3>4. ASSUME NEW i \in Sources \ {Head(q.delayed)} PROVE Settled(p, i)
      <4>1. CASE q.seen[i] = "refused"
        BY <2>1, <4>1 DEF Settled, Request
      <4>2. CASE \E k \in 1..Len(q.delayed) : q.delayed[k] = i
        <5>1. PICK k \in 1..Len(q.delayed) : q.delayed[k] = i
          BY <4>2
        <5>2. q.delayed \in Seq(Sources)
          BY <2>1 DEF Request
        <5>3. k # 1
          BY <2>3, <3>4, <5>1, <5>2
        <5>4. k - 1 \in 1..Len(Tail(q.delayed)) /\ Tail(q.delayed)[k - 1] = i
          BY <2>3, <5>1, <5>2, <5>3
        <5>5. p.delayed = Tail(q.delayed)
          BY <2>1 DEF Request
        <5>6. QED
          BY <5>4, <5>5 DEF Settled
      <4>3. QED
        BY <2>2, <4>1, <4>2 DEF Settled
    <3>5. LoopInv(p)
      BY <2>1, <3>2, <3>4 DEF LoopInv, Request, Failed
    <3>6. QED
      BY <1>2, <3>1, <3>3, <3>5, OneRequest DEF SelectDelayed, SkipInv, TypeOK
  <2>4. CASE q.delayed = <<>>
    <3> DEFINE p == [q EXCEPT !.failed = Sources, !.pc = "done", !.result = "exhausted"]
    <3>1. req' = [req EXCEPT ![r] = p]
      BY <1>2, <2>4 DEF SelectDelayed
    <3>2. p \in Request
      BY <2>1 DEF Request
    <3>3. \A i \in Sources : p.seen[i] = "refused"
      BY <2>1, <2>2, <2>4 DEF Settled, Request
    <3>4. LoopInv(p)
      BY <2>1, <3>3 DEF LoopInv, Request, Failed
    <3>5. QED
      BY <1>2, <3>1, <3>2, <3>4, OneRequest DEF SelectDelayed, SkipInv, TypeOK
  <2>5. QED
    BY <2>3, <2>4
<1>3. ASSUME NEW r \in Requests, SelectRandom(r) PROVE SkipInv'
  <2>1. PICK i \in Sources \ Failed(req[r]) : Selected(r, i)
    BY <1>3 DEF SelectRandom
  <2>2. QED
    BY <1>3, <2>1, SelectedStep DEF SelectRandom, SkipInv, TypeOK
<1>4. ASSUME NEW r \in Requests, SelectStatic(r) PROVE SkipInv'
  <2>1. req[r] \in Request /\ LoopInv(req[r])
    BY DEF SkipInv, TypeOK
  <2>2. req[r].currentIndex + 1 \in Sources
    BY <1>4, <2>1, EgressAssumption DEF SelectStatic, LoopInv, Request, Failed, Sources
  <2>3. QED
    BY <1>4, <2>2, SelectedStep DEF SelectStatic, SkipInv, TypeOK
<1>5. ASSUME NEW r \in Requests, LookUpState(r) PROVE SkipInv'
  <2> DEFINE q == req[r]
             p == [q EXCEPT !.state = states, !.pc = IF states = 0 THEN "create" ELSE "count"]
  <2>1. q \in Request /\ LoopInv(q) /\ states \in States \cup {0}
    BY DEF SkipInv, TypeOK
  <2>2. req' = [req EXCEPT ![r] = p] /\ p \in Request
    BY <1>5, <2>1 DEF LookUpState, Request, SkipInv, TypeOK
  <2>3. \A i \in Sources : Settled(p, i) <=> Settled(q, i)
    BY <2>1 DEF Settled, Request
  <2>4. Failed(p) = Failed(q) /\ Failed(q) \subseteq Sources
    BY <2>1, FailedType DEF Failed, Request
  <2>5. LoopInv(p)
    BY <1>5, <2>1, <2>3, <2>4 DEF LookUpState, LoopInv, Request
  <2>6. QED
    BY <1>5, <2>2, <2>5, OneRequest DEF LookUpState, SkipInv, TypeOK
<1>6. ASSUME NEW r \in Requests, CreateState(r) PROVE SkipInv'
  <2> DEFINE q == req[r]
             p == [q EXCEPT !.state = states', !.pc = "count"]
  <2>1. q \in Request /\ LoopInv(q)
    BY DEF SkipInv, TypeOK
  <2>2. states' \in States
    BY <1>6, OneState DEF CreateState, SkipInv, TypeOK
  <2>3. req' = [req EXCEPT ![r] = p] /\ p \in Request
    BY <1>6, <2>1, <2>2 DEF CreateState, Request, SkipInv, TypeOK
  <2>4. \A i \in Sources : Settled(p, i) <=> Settled(q, i)
    BY <2>1 DEF Settled, Request
  <2>5. Failed(p) = Failed(q) /\ Failed(q) \subseteq Sources
    BY <2>1, FailedType DEF Failed, Request
  <2>6. LoopInv(p)
    BY <1>6, <2>1, <2>2, <2>4, <2>5 DEF CreateState, LoopInv, Request
  <2>7. QED
    BY <1>6, <2>2, <2>3, <2>6, OneRequest DEF CreateState, SkipInv, TypeOK
<1>7. ASSUME NEW r \in Requests, SelectRoundRobin(r) PROVE SkipInv'
  <2> DEFINE counter == (counters[req[r].state] + 1) % 2 ^ CounterBits
  <2>1. req[r] \in Request /\ LoopInv(req[r]) /\ counters \in [States -> 0..(2 ^ CounterBits - 1)]
    BY DEF SkipInv, TypeOK
  <2>2. req[r].pc = "count" /\ Selected(r, NextIndex(req[r].currentIndex, counter))
        /\ counters' = [counters EXCEPT ![req[r].state] = counter] /\ UNCHANGED <<scheme, healthy, states, made>>
    BY <1>7 DEF SelectRoundRobin
  <2>3. Failed(req[r]) # Sources /\ req[r].state \in States
    BY <2>1, <2>2 DEF LoopInv
  <2>4. counter \in 0..(2 ^ CounterBits - 1)
    BY <2>1, <2>3, CounterRange
  <2>5. sourceCount # 0
    BY <2>1, <2>3, FailedType, EgressAssumption DEF Sources
  <2>6. NextIndex(req[r].currentIndex, counter) \in Sources
    <3>1. req[r].currentIndex = -1 \/ req[r].currentIndex \in Nat
      BY <2>1, EgressAssumption DEF Request, Sources
    <3>2. counter \in Nat
      BY <2>4
    <3>3. QED
      BY <2>5, <3>1, <3>2, EgressAssumption DEF NextIndex, Sources
  <2>7. scheme # "static"
    BY <2>1, <2>2 DEF LoopInv
  <2>8. QED
    BY <2>1, <2>2, <2>3, <2>4, <2>6, <2>7, SelectedStep DEF SkipInv, TypeOK
<1>8. ASSUME NEW r \in Requests, GetPeer(r) PROVE SkipInv'
  <2> DEFINE q == req[r]
  <2>1. q \in Request /\ LoopInv(q) /\ q.pc = "peer"
    BY <1>8 DEF GetPeer, SkipInv, TypeOK
  <2>2. q.currentIndex \in Sources /\ \A i \in q.failed \ {q.currentIndex} : Settled(q, i)
    BY <2>1 DEF LoopInv
  <2>3. PICK up \in BOOLEAN :
            req' = [req EXCEPT ![r] = IF ~up /\ ~IsDelayed(q) THEN Delay(q)
                                      ELSE [q EXCEPT !.up = up, !.pc = "contact"]]
    BY <1>8 DEF GetPeer
  <2>4. CASE ~up /\ ~IsDelayed(q)
    <3>1. Delay(q) \in Request
      <4>1. Append(q.delayed, q.currentIndex) \in Seq(Sources)
        BY <2>1, <2>2 DEF Request
      <4>2. [q.seen EXCEPT ![q.currentIndex] = "delayed"] \in [Sources -> {"untried", "delayed", "refused"}]
        BY <2>1, <2>2 DEF Request
      <4>3. QED
        BY <2>1, <4>1, <4>2 DEF Request, Delay
    <3>2. Delay(q).delayed = Append(q.delayed, q.currentIndex) /\ q.delayed \in Seq(Sources)
      BY <2>1 DEF Request, Delay
    <3>3. \E k \in 1..Len(Delay(q).delayed) : Delay(q).delayed[k] = q.currentIndex
      <4>1. Len(q.delayed) + 1 \in 1..Len(Delay(q).delayed)
        BY <2>2, <3>2
      <4>2. Delay(q).delayed[Len(q.delayed) + 1] = q.currentIndex
        BY <2>2, <3>2
      <4>3. QED
        BY <4>1, <4>2
    <3>4. ASSUME NEW i \in q.failed \ {q.currentIndex} PROVE Settled(Delay(q), i)
      <4>1. CASE q.seen[i] = "refused"
        BY <2>1, <3>4, <4>1 DEF Delay, Request, Settled
      <4>2. CASE \E k \in 1..Len(q.delayed) : q.delayed[k] = i
        BY <2>2, <3>2, <4>2 DEF Settled
      <4>3. QED
        BY <2>2, <4>1, <4>2 DEF Settled
    <3>5. LoopInv(Delay(q))
      <4>1. Failed(Delay(q)) = Failed(q)
        BY <2>1 DEF Failed, Delay, Request
      <4>2. \A i \in Failed(Delay(q)) : Settled(Delay(q), i)
        BY <3>3, <3>4, <4>1 DEF Failed, Settled
      <4>3. Delay(q).pc = "select" /\ Delay(q).failed = q.failed
            /\ Delay(q).currentIndex = q.currentIndex /\ Delay(q).result = q.result
        BY <2>1 DEF Delay, Request
      <4>4. q.result # "exhausted"
        BY <2>1 DEF LoopInv
      <4>5. QED
        BY <2>1, <4>1, <4>2, <4>3, <4>4 DEF LoopInv
    <3>6. QED
      BY <1>8, <2>3, <2>4, <3>1, <3>5, OneRequest DEF GetPeer, SkipInv, TypeOK
  <2>5. CASE ~(~up /\ ~IsDelayed(q))
    <3> DEFINE p == [q EXCEPT !.up = up, !.pc = "contact"]
    <3>1. req' = [req EXCEPT ![r] = p] /\ p \in Request
      BY <2>1, <2>3, <2>5 DEF Request
    <3>2. LoopInv(p)
      BY <2>1, <2>2 DEF LoopInv, Request, Failed, Settled
    <3>3. QED
      BY <1>8, <3>1, <3>2, OneRequest DEF GetPeer, SkipInv, TypeOK
  <2>6. QED
    BY <2>4, <2>5
<1>9. ASSUME NEW r \in Requests, NEW result \in {"error", "allowed"}, req[r].pc \in {"peer", "contact"},
             req' = [req EXCEPT ![r].pc = "done", ![r].result = result],
             UNCHANGED <<scheme, healthy, states, counters, picks, made>>
      PROVE  SkipInv'
  <2> DEFINE q == req[r]
             p == [q EXCEPT !.pc = "done", !.result = result]
  <2>1. q \in Request /\ LoopInv(q)
    BY DEF SkipInv, TypeOK
  <2>2. req' = [req EXCEPT ![r] = p] /\ p \in Request
    BY <1>9, <2>1 DEF Request, SkipInv, TypeOK
  <2>3. LoopInv(p)
    BY <2>1, <1>9 DEF LoopInv, Request, Failed
  <2>4. QED
    BY <1>9, <2>2, <2>3, OneRequest DEF SkipInv, TypeOK
<1>10. ASSUME NEW r \in Requests, Refused(r) PROVE SkipInv'
  <2> DEFINE q == req[r]
             p == [q EXCEPT !.pc = "select", !.seen[q.currentIndex] = "refused"]
  <2>1. q \in Request /\ LoopInv(q) /\ q.pc = "contact"
    BY <1>10 DEF Refused, SkipInv, TypeOK
  <2>2. q.currentIndex \in Sources /\ \A i \in q.failed \ {q.currentIndex} : Settled(q, i)
    BY <2>1 DEF LoopInv
  <2>3. p \in Request
    BY <2>1, <2>2 DEF Request
  <2>4. req' = [req EXCEPT ![r] = p]
    BY <1>10, <2>1 DEF Refused, Request, SkipInv, TypeOK
  <2>5. \A i \in Failed(p) : Settled(p, i)
    BY <2>1, <2>2 DEF Failed, Settled, Request
  <2>6. LoopInv(p)
    BY <2>1, <2>5 DEF LoopInv, Request, Failed
  <2>7. QED
    BY <1>10, <2>3, <2>4, <2>6, OneRequest DEF Refused, SkipInv, TypeOK
<1>11. CASE UNCHANGED vars
  BY <1>11 DEF vars, SkipInv, TypeOK, LoopInv, Failed, Settled
<1>12. ASSUME NEW r \in Requests, PeerMissing(r) \/ Authorized(r) PROVE SkipInv'
  BY <1>9, <1>12 DEF PeerMissing, Authorized
<1>13. QED
  BY <1>1, <1>2, <1>3, <1>4, <1>5, <1>6, <1>7, <1>8, <1>10, <1>11, <1>12 DEF Next, Step

LEMMA InitSkipInv == Init => SkipInv
<1> SUFFICES ASSUME Init PROVE SkipInv
  OBVIOUS
<1>1. \A r \in Requests : req[r] = NewLoadBalancingResult("idle", "none")
  BY DEF Init
<1>2. NewLoadBalancingResult("idle", "none") \in Request
  BY NewResult
<1>3. LoopInv(NewLoadBalancingResult("idle", "none"))
  BY NewResult
<1>4. TypeOK
  BY <1>2, EgressAssumption DEF Init, TypeOK
<1>5. QED
  BY <1>1, <1>3, <1>4 DEF SkipInv

(* The load balancer's state and the requests are type correct: in         *)
(* particular every index handed out is a source, whatever the scheme.     *)
THEOREM TypeCorrect == Spec => []TypeOK
<1>1. SkipInv => TypeOK
  BY DEF SkipInv
<1>2. QED
  BY <1>1, InitSkipInv, SkipStep, PTL DEF Spec

(* A request gives up only after every source has refused it, however many *)
(* sources there are and whatever requests run beside it.                  *)
THEOREM AllSourcesTried == Spec => []NoSourceSkipped
<1>1. SkipInv => NoSourceSkipped
  BY DEF SkipInv, LoopInv, NoSourceSkipped
<1>2. QED
  BY <1>1, InitSkipInv, SkipStep, PTL DEF Spec
-------------------------------------------------------------------------------
(* Round robin.  The state of the import is created once, every request    *)
(* counts it once, and the counter runs through 0..M-1 again and again.    *)

M == 2 ^ CounterBits

(* How many of the counter values 0..m-1 lead to source i. *)
Share(m, i) == m \div sourceCount + (IF i < m % sourceCount THEN 1 ELSE 0)

(* The requests that have not been counted yet. *)
Uncounted == {r \in Requests : req[r].pc \in {"select", "create", "count"}}

(* After w full rounds of the counter, the sources have been picked as     *)
(* often as the values of the counter that led to them, but for the value  *)
(* 0 that the counter starts from.                                         *)
Rounds(w) ==
    /\ w * M + counters[1] + Cardinality(Uncounted) <= made
    /\ \A i \in Sources : picks[i] + (IF i = 0 THEN 1 ELSE 0) = w * Share(M, i) + Share(counters[1] + 1, i)

BalanceInv ==
    scheme = "round-robin" /\ healthy =>
        /\ states \in {0, 1}
        /\ \A r \in Requests :
              /\ req[r].pc \in {"select", "create", "count"} => req[r].currentIndex = -1 /\ req[r].failed = {}
              /\ req[r].pc = "count" => req[r].state = 1
        /\ sourceCount # 0 => \E w \in Nat : Rounds(w)

(* The value m leads to source m % sourceCount. *)
LEMMA ShareNext ==
    ASSUME sourceCount # 0, NEW m \in Nat, NEW i \in Sources
    PROVE  Share(m + 1, i) = Share(m, i) + (IF i = m % sourceCount THEN 1 ELSE 0)
<1> DEFINE n == sourceCount
           q == m \div n
           k == m % n
<1>1. n \in Nat \ {0} /\ i \in 0..(n - 1)
  BY EgressAssumption DEF Sources
<1>2. q \in Nat /\ k \in 0..(n - 1) /\ m = n * q + k
  BY <1>1
<1> HIDE DEF n, q, k
<1>3. CASE k < n - 1
  <2>1. m + 1 = n * q + (k + 1)
    BY <1>1, <1>2
  <2>2. (m + 1) \div n = q /\ (m + 1) % n = k + 1
    BY <1>1, <1>2, <1>3, <2>1
  <2>3. QED
    BY <1>1, <1>2, <1>3, <2>2 DEF Share, n, q, k
<1>4. CASE k = n - 1
  <2>1. m + 1 = n * (q + 1)
    BY <1>1, <1>2, <1>4
  <2>2. (m + 1) \div n = q + 1 /\ (m + 1) % n = 0
    BY <1>1, <1>2, <2>1
  <2>3. QED
    BY <1>1, <1>2, <1>4, <2>2 DEF Share, n, q, k
<1>5. QED
  BY <1>1, <1>2, <1>3, <1>4

(* Shares differ by one at most, and source 0 has the largest. *)
LEMMA ShareEven ==
    ASSUME sourceCount # 0, NEW m \in Nat, NEW i \in Sources, NEW j \in Sources
    PROVE  Share(m, i) \in Nat /\ Share(m, i) <= Share(m, j) + 1 /\ Share(m, i) <= Share(m, 0)
  BY EgressAssumption DEF Share, Sources

LEMMA ShareOne ==
    ASSUME sourceCount # 0, NEW i \in Sources
    PROVE  Share(0, i) = 0 /\ Share(1, i) = IF i = 0 THEN 1 ELSE 0
  BY EgressAssumption DEF Share, Sources

LEMMA WidthType == M \in Nat \ {0}
  BY EgressAssumption DEF M

LEMMA UncountedFinite == IsFiniteSet(Uncounted) /\ Cardinality(Uncounted) \in Nat
  BY FS_Subset, FS_CardinalityType, EgressAssumption DEF Uncounted

(* A step that counts no request and lets none in or out keeps the rounds. *)
LEMMA SameRounds ==
    ASSUME NEW w \in Nat, Rounds(w), Uncounted' = Uncounted, UNCHANGED <<counters, picks, made>>
    PROVE  Rounds(w)'
  BY DEF Rounds, M, Share

(* Counting request r picks the source that the counter leads to. *)
LEMMA CountStep ==
    ASSUME SkipInv, NEW r \in Requests, SelectRoundRobin(r), sourceCount # 0,
           req[r].state = 1, req[r].currentIndex = -1, req[r].failed = {},
           NEW w \in Nat, Rounds(w)
    PROVE  \E v \in Nat : Rounds(v)'
<1> DEFINE c == counters[1]
           counter == (c + 1) % M
           i == counter % sourceCount
<1>1. c \in 0..(M - 1) /\ 1 \in States /\ M \in Nat \ {0} /\ sourceCount \in Nat \ {0}
  BY OneState, WidthType, EgressAssumption DEF SkipInv, TypeOK, M
<1>2. /\ counters'[1] = counter /\ picks' = [picks EXCEPT ![i] = @ + 1] /\ made' = made
      /\ req[r].pc = "count" /\ req' = [req EXCEPT ![r].failed = {}, ![r].currentIndex = i, ![r].pc = "peer"]
  <2>1. Failed(req[r]) = {}
    BY DEF Failed
  <2>2. counters \in [States -> 0..(M - 1)]
    BY DEF SkipInv, TypeOK, M
  <2>3. NextIndex(req[r].currentIndex, counter) = i
    BY DEF NextIndex
  <2>4. counters' = [counters EXCEPT ![1] = counter] /\ Selected(r, i) /\ made' = made /\ req[r].pc = "count"
    BY <2>3 DEF SelectRoundRobin, M
  <2>5. QED
    BY <1>1, <2>1, <2>2, <2>4 DEF Selected
<1>3. Uncounted' = Uncounted \ {r} /\ r \in Uncounted
  BY <1>2 DEF Uncounted, SkipInv, TypeOK, Request
<1>4. Cardinality(Uncounted') = Cardinality(Uncounted) - 1
  BY <1>3, UncountedFinite, FS_RemoveElement
<1>5. made \in Nat /\ picks \in [Sources -> Nat]
  BY EgressAssumption DEF SkipInv, TypeOK
<1>6. CASE c + 1 < M
  <2>1. counter = c + 1
    BY <1>1, <1>6
  <2>2. w * M + counters'[1] + Cardinality(Uncounted') <= made'
    <3>1. w * M \in Nat
      BY <1>1
    <3>2. QED
      BY <1>1, <1>2, <1>4, <2>1, <3>1, UncountedFinite DEF Rounds
  <2>3. ASSUME NEW j \in Sources
        PROVE  picks'[j] + (IF j = 0 THEN 1 ELSE 0) = w * Share(M, j) + Share(counters'[1] + 1, j)
    <3>1. Share(counter + 1, j) = Share(c + 1, j) + (IF j = i THEN 1 ELSE 0)
      BY <1>1, <2>1, ShareNext
    <3>2. picks[j] + (IF j = 0 THEN 1 ELSE 0) = w * Share(M, j) + Share(c + 1, j)
      BY DEF Rounds
    <3>3. picks'[j] = picks[j] + (IF j = i THEN 1 ELSE 0) /\ picks[j] \in Nat
      BY <1>2, <1>5
    <3>4. Share(M, j) \in Nat /\ Share(c + 1, j) \in Nat
      BY <1>1, ShareEven
    <3>5. w * Share(M, j) \in Nat
      BY <3>4
    <3>6. QED
      BY <1>2, <3>1, <3>2, <3>3, <3>4, <3>5
  <2>4. Rounds(w)'
    BY <2>2, <2>3 DEF Rounds, M, Share
  <2>5. QED
    BY <2>4
<1>7. CASE c + 1 = M
  <2>1. counter = 0 /\ i = 0
    BY <1>1, <1>7
  <2>2. (w + 1) * M = w * M + M /\ w * M \in Nat
    BY <1>1
  <2>3. (w + 1) * M + counters'[1] + Cardinality(Uncounted') <= made'
    BY <1>1, <1>2, <1>4, <1>5, <1>7, <2>1, <2>2, UncountedFinite DEF Rounds
  <2>4. ASSUME NEW j \in Sources
        PROVE  picks'[j] + (IF j = 0 THEN 1 ELSE 0) = (w + 1) * Share(M, j) + Share(counters'[1] + 1, j)
    <3>1. Share(1, j) = IF j = 0 THEN 1 ELSE 0
      BY ShareOne
    <3>2. picks[j] + (IF j = 0 THEN 1 ELSE 0) = w * Share(M, j) + Share(M, j)
      BY <1>7 DEF Rounds
    <3>3. picks'[j] = picks[j] + (IF j = 0 THEN 1 ELSE 0) /\ picks[j] \in Nat
      BY <1>2, <1>5, <2>1
    <3>4. Share(M, j) \in Nat
      BY <1>1, ShareEven
    <3>5. (w + 1) * Share(M, j) = w * Share(M, j) + Share(M, j) /\ w * Share(M, j) \in Nat
      BY <3>4
    <3>6. counters'[1] + 1 = 1
      BY <1>2, <2>1
    <3>7. QED
      BY <3>1, <3>2, <3>3, <3>4, <3>5, <3>6
  <2>5. Rounds(w + 1)'
    BY <2>3, <2>4 DEF Rounds, M, Share
  <2>6. QED
    BY <2>5
<1>8. QED
  BY <1>1, <1>6, <1>7

LEMMA BalanceStep == SkipInv /\ BalanceInv /\ [Next]_vars => BalanceInv'
<1> SUFFICES ASSUME SkipInv, BalanceInv, [Next]_vars, scheme' = "round-robin", healthy' = TRUE
             PROVE  BalanceInv'
  BY DEF BalanceInv, SkipInv, TypeOK, Next, Step, Begin, SelectDelayed, SelectRandom, SelectStatic,
         LookUpState, CreateState, SelectRoundRobin, GetPeer, PeerMissing, Refused, Authorized, vars
<1> DEFINE Fresh(q) == /\ q.pc \in {"select", "create", "count"} => q.currentIndex = -1 /\ q.failed = {}
                       /\ q.pc = "count" => q.state = 1
           Waits(q) == q.pc \in {"select", "create", "count"}
<1>1. scheme = "round-robin" /\ healthy
  BY DEF SkipInv, TypeOK, Next, Step, Begin, SelectDelayed, SelectRandom, SelectStatic,
         LookUpState, CreateState, SelectRoundRobin, GetPeer, PeerMissing, Refused, Authorized, vars
<1>2. /\ states \in {0, 1} /\ \A r \in Requests : Fresh(req[r]) /\ req[r] \in Request
      /\ req \in [Requests -> Request]
      /\ sourceCount # 0 => \E w \in Nat : Rounds(w)
  BY <1>1 DEF BalanceInv, SkipInv, TypeOK
<1>3. ASSUME NEW r \in Requests, NEW q \in Request, req' = [req EXCEPT ![r] = q], Fresh(q),
             Waits(q) <=> Waits(req[r]), states' \in {0, 1}, UNCHANGED <<counters, picks, made>>
      PROVE  BalanceInv'
  <2>1. Uncounted' = Uncounted
    BY <1>2, <1>3 DEF Uncounted
  <2>2. ASSUME sourceCount # 0 PROVE \E w \in Nat : Rounds(w)'
    <3>1. PICK w \in Nat : Rounds(w)
      BY <1>2, <2>2
    <3>2. Rounds(w)'
      BY <1>3, <2>1, <3>1, SameRounds
    <3>3. QED
      BY <3>2
  <2>3. \A x \in Requests : Fresh(req'[x])
    BY <1>2, <1>3
  <2>4. QED
    BY <1>3, <2>2, <2>3 DEF BalanceInv
<1>4. ASSUME NEW r \in Requests, Begin(r) PROVE BalanceInv'
  <2> DEFINE q == NewLoadBalancingResult("select", "none")
  <2>1. req' = [req EXCEPT ![r] = q] /\ made' = made + 1 /\ UNCHANGED <<states, counters, picks>>
        /\ req[r].pc \in {"idle", "done"}
    BY <1>1, <1>4 DEF Begin
  <2>2. Fresh(q) /\ Waits(q)
    BY DEF NewLoadBalancingResult
  <2>3. Uncounted' = Uncounted \cup {r} /\ r \notin Uncounted
    <3>1. \A x \in Requests : req'[x] = IF x = r THEN q ELSE req[x]
      BY <1>2, <2>1
    <3>2. ~Waits(req[r])
      BY <2>1
    <3>3. QED
      BY <2>2, <3>1, <3>2 DEF Uncounted
  <2>4. Cardinality(Uncounted') = Cardinality(Uncounted) + 1
    BY <2>3, UncountedFinite, FS_AddElement
  <2>5. ASSUME NEW w \in Nat, Rounds(w) PROVE Rounds(w)'
    <3>1. w * M \in Nat /\ counters[1] \in Nat /\ made \in Nat
      BY WidthType, OneState, EgressAssumption DEF SkipInv, TypeOK, M
    <3>2. w * M + counters'[1] + Cardinality(Uncounted') <= made'
      BY <2>1, <2>4, <2>5, <3>1, UncountedFinite DEF Rounds
    <3>3. QED
      BY <2>1, <2>5, <3>2 DEF Rounds, M, Share
  <2>6. \A x \in Requests : Fresh(req'[x])
    BY <1>2, <2>1, <2>2
  <2>7. ASSUME sourceCount # 0 PROVE \E w \in Nat : Rounds(w)'
    <3>1. PICK w \in Nat : Rounds(w)
      BY <1>2, <2>7
    <3>2. Rounds(w)'
      BY <2>5, <3>1
    <3>3. QED
      BY <3>2
  <2>8. QED
    BY <1>2, <2>1, <2>6, <2>7 DEF BalanceInv
<1>5. ASSUME NEW r \in Requests, SelectDelayed(r) PROVE BalanceInv'
  <2>1. Failed(req[r]) = {} /\ Failed(req[r]) = Sources
    BY <1>2, <1>5 DEF SelectDelayed, Failed
  <2>2. sourceCount = 0
    BY <2>1, EgressAssumption DEF Sources
  <2>3. req'[r].pc \in {"peer", "done"} /\ \A x \in Requests \ {r} : req'[x] = req[x]
    <3> DEFINE p == IF req[r].delayed # <<>>
                    THEN [req[r] EXCEPT !.failed = Sources, !.currentIndex = Head(req[r].delayed),
                                        !.delayed = Tail(req[r].delayed), !.pc = "peer"]
                    ELSE [req[r] EXCEPT !.failed = Sources, !.pc = "done", !.result = "exhausted"]
    <3>1. req' = [req EXCEPT ![r] = p]
      BY <1>5 DEF SelectDelayed
    <3>2. p.pc \in {"peer", "done"}
      BY <1>2 DEF Request
    <3>3. QED
      BY <1>2, <3>1, <3>2
  <2>4. \A x \in Requests : Fresh(req'[x])
    BY <1>2, <2>3
  <2>5. QED
    BY <1>2, <1>5, <2>2, <2>4 DEF BalanceInv, SelectDelayed
<1>6. ASSUME NEW r \in Requests, LookUpState(r) PROVE BalanceInv'
  <2> DEFINE q == [req[r] EXCEPT !.state = states, !.pc = IF states = 0 THEN "create" ELSE "count"]
  <2>1. req' = [req EXCEPT ![r] = q] /\ req[r].pc = "select"
    BY <1>2, <1>6 DEF LookUpState, Request
  <2>2. q \in Request
    <3>1. req[r] \in Request /\ states \in States \cup {0}
      BY <1>2, OneState
    <3>2. QED
      BY <3>1 DEF Request
  <2>3. Fresh(q) /\ Waits(q)
    BY <1>2, <2>1 DEF Request
  <2>4. QED
    <3>1. UNCHANGED <<states, counters, picks, made>> /\ Waits(req[r])
      BY <1>6, <2>1 DEF LookUpState
    <3>2. QED
      BY <1>2, <1>3, <2>1, <2>2, <2>3, <3>1
<1>7. ASSUME NEW r \in Requests, CreateState(r) PROVE BalanceInv'
  <2> DEFINE q == [req[r] EXCEPT !.state = 1, !.pc = "count"]
  <2>1. req' = [req EXCEPT ![r] = q] /\ req[r].pc = "create" /\ states' = 1
    <3>1. states' = 1
      BY <1>2, <1>7 DEF CreateState
    <3>2. req' = [req EXCEPT ![r].state = 1, ![r].pc = "count"] /\ req[r].pc = "create"
      BY <1>7, <3>1 DEF CreateState
    <3>3. QED
      BY <1>2, <3>1, <3>2 DEF Request
  <2>2. q \in Request /\ Fresh(q) /\ Waits(q)
    BY <1>2, <2>1, OneState DEF Request
  <2>3. QED
    BY <1>3, <1>7, <2>1, <2>2 DEF CreateState
<1>8. ASSUME NEW r \in Requests, SelectRoundRobin(r) PROVE BalanceInv'
  <2>1. req[r].pc = "count" /\ req[r].currentIndex = -1 /\ req[r].failed = {} /\ req[r].state = 1
        /\ states' = states
    BY <1>2, <1>8 DEF SelectRoundRobin
  <2>2. ASSUME sourceCount # 0 PROVE \E w \in Nat : Rounds(w)'
    <3>1. PICK w \in Nat : Rounds(w)
      BY <1>2, <2>2
    <3>2. QED
      BY <1>8, <2>1, <2>2, <3>1, CountStep
  <2>3. req'[r].pc = "peer" /\ \A x \in Requests \ {r} : req'[x] = req[x]
    <3>1. PICK i : Selected(r, i)
      BY <1>8 DEF SelectRoundRobin
    <3>2. QED
      BY <1>2, <3>1 DEF Selected, Request
  <2>4. \A x \in Requests : Fresh(req'[x])
    BY <1>2, <2>3
  <2>5. QED
    BY <1>2, <2>1, <2>2, <2>4 DEF BalanceInv
<1>9. ASSUME NEW r \in Requests, GetPeer(r) PROVE BalanceInv'
  <2> DEFINE q == [req[r] EXCEPT !.up = TRUE, !.pc = "contact"]
  <2>1. req' = [req EXCEPT ![r] = q] /\ req[r].pc = "peer"
    BY <1>1, <1>9 DEF GetPeer
  <2>2. q \in Request /\ q.pc \notin {"select", "create", "count"}
    <3>1. req[r] \in Request
      BY <1>2
    <3>2. QED
      BY <3>1 DEF Request
  <2>3. QED
    BY <1>2, <1>3, <1>9, <2>1, <2>2 DEF GetPeer
<1>10. ASSUME NEW r \in Requests, Authorized(r) PROVE BalanceInv'
  <2> DEFINE q == [req[r] EXCEPT !.pc = "done", !.result = "allowed"]
  <2>1. req' = [req EXCEPT ![r] = q] /\ req[r].pc = "contact"
    BY <1>2, <1>10 DEF Authorized, Request
  <2>2. q \in Request /\ q.pc \notin {"select", "create", "count"}
    <3>1. req[r] \in Request
      BY <1>2
    <3>2. QED
      BY <3>1 DEF Request
  <2>3. QED
    BY <1>2, <1>3, <1>10, <2>1, <2>2 DEF Authorized
<1>11. CASE UNCHANGED vars
  BY <1>11 DEF vars, BalanceInv, Rounds, Share, M, Uncounted
<1>12. QED
  BY <1>1, <1>4, <1>5, <1>6, <1>7, <1>8, <1>9, <1>10, <1>11
     DEF Next, Step, SelectRandom, SelectStatic, PeerMissing, Refused

LEMMA InitBalanceInv == Init => BalanceInv
<1> SUFFICES ASSUME Init PROVE BalanceInv
  OBVIOUS
<1>1. \A r \in Requests : req[r].pc = "idle"
  BY DEF Init, NewLoadBalancingResult
<1>2. Cardinality(Uncounted) = 0
  <2>1. Uncounted = {}
    BY <1>1 DEF Uncounted
  <2>2. QED
    BY <2>1, FS_EmptySet
<1>3. counters[1] = 0 /\ made = 0 /\ \A i \in Sources : picks[i] = 0
  BY OneState DEF Init
<1>4. ASSUME sourceCount # 0 PROVE Rounds(0)
  <2>1. \A i \in Sources : Share(M, i) \in Nat /\ Share(1, i) = IF i = 0 THEN 1 ELSE 0
    BY <1>4, ShareOne, ShareEven, WidthType
  <2>2. 0 * M = 0 /\ \A i \in Sources : 0 * Share(M, i) = 0
    BY <2>1, WidthType
  <2>3. QED
    BY <1>2, <1>3, <2>1, <2>2 DEF Rounds
<1>5. QED
  BY <1>1, <1>4 DEF Init, BalanceInv

(* A round of the counter costs at most one request. *)
LEMMA RoundsBalance ==
    ASSUME TypeOK, sourceCount # 0, NEW w \in Nat, Rounds(w), NEW i \in Sources, NEW j \in Sources
    PROVE  picks[i] <= picks[j] + 1 + made \div 2 ^ CounterBits
<1> DEFINE c == counters[1]
           d == made \div M
           si == Share(M, i)
           sj == Share(M, j)
<1>1. c \in Nat /\ made \in Nat /\ M \in Nat \ {0} /\ picks[i] \in Nat /\ picks[j] \in Nat
  BY OneState, WidthType, EgressAssumption DEF TypeOK, M
<1>2. w <= d /\ d \in Nat
  <2>1. w * M <= made
    <3>1. w * M \in Nat
      BY <1>1
    <3>2. QED
      BY <1>1, <3>1, UncountedFinite DEF Rounds
  <2>2. made < M * (d + 1) /\ d \in Nat
    BY <1>1
  <2>3. w < d + 1
    BY <1>1, <2>1, <2>2
  <2>4. QED
    BY <2>2, <2>3
<1>3. si \in Nat /\ sj \in Nat /\ si <= sj + 1
  BY <1>1, ShareEven
<1>4. w * si <= w * sj + w /\ w * si \in Nat /\ w * sj \in Nat
  BY <1>3
<1>5. 0 \in Sources
  BY EgressAssumption DEF Sources
<1>6. /\ Share(c + 1, i) \in Nat /\ Share(c + 1, j) \in Nat
      /\ Share(c + 1, i) <= Share(c + 1, j) + 1 /\ Share(c + 1, i) <= Share(c + 1, 0)
  BY <1>1, <1>5, ShareEven
<1>7. /\ picks[i] + (IF i = 0 THEN 1 ELSE 0) = w * si + Share(c + 1, i)
      /\ picks[j] + (IF j = 0 THEN 1 ELSE 0) = w * sj + Share(c + 1, j)
  BY DEF Rounds
<1> HIDE DEF c, d, si, sj
<1>8. picks[i] <= picks[j] + 1 + d
  BY <1>1, <1>2, <1>3, <1>4, <1>6, <1>7
<1>9. QED
  BY <1>8 DEF d, M

(* Round robin spreads concurrent requests evenly over healthy sources, up *)
(* to the wrap-around of its counter: for any number of sources and any    *)
(* width of the counter.                                                   *)
THEOREM RoundRobinEven == Spec => []RoundRobinBalanced
<1>1. SkipInv /\ BalanceInv => RoundRobinBalanced
  <2> SUFFICES ASSUME SkipInv, BalanceInv, scheme = "round-robin", healthy,
                      NEW i \in Sources, NEW j \in Sources
               PROVE  picks[i] <= picks[j] + 1 + made \div 2 ^ CounterBits
    BY DEF RoundRobinBalanced
  <2>1. sourceCount # 0
    BY EgressAssumption DEF Sources
  <2>2. PICK w \in Nat : Rounds(w)
    BY <2>1 DEF BalanceInv
  <2>3. QED
    BY <2>1, <2>2, RoundsBalance DEF SkipInv
<1>2. QED
  BY <1>1, InitSkipInv, SkipStep, InitBalanceInv, BalanceStep, PTL DEF Spec

(***************************************************************************)
(* The peer manager.                                                       *)
(***************************************************************************)

LEMMA MonitorTypes ==
    /\ NoMonitor \in Monitor /\ NoPeerObject \in Peer
    /\ \A pr \in Peer, c \in Conds : [pr EXCEPT !.cond = c] \in Peer
    /\ \A m \in Monitor :
          /\ [m EXCEPT !.stop = TRUE] \in Monitor /\ [m EXCEPT !.current = FALSE] \in Monitor
          /\ [m EXCEPT !.pc = "beat"] \in Monitor
          /\ \A c \in Conds : [m EXCEPT !.cond = c, !.current = TRUE] \in Monitor
          /\ \A ok \in BOOLEAN : Undecided(m, ok) \in Monitor /\ Decided(m, ok) \in Monitor
<1> USE PeerAssumption
<1>1. NoMonitor \in Monitor /\ NoPeerObject \in Peer
  BY DEF Monitor, NoMonitor, NoPeerObject, Peer, Gateways, Conds, Thresholds
<1>2. ASSUME NEW m \in Monitor
      PROVE  [m EXCEPT !.stop = TRUE] \in Monitor /\ [m EXCEPT !.current = FALSE] \in Monitor
             /\ [m EXCEPT !.pc = "beat"] \in Monitor
  BY <1>2 DEF Monitor
<1>3. ASSUME NEW m \in Monitor, NEW c \in Conds
      PROVE  [m EXCEPT !.cond = c, !.current = TRUE] \in Monitor
  BY <1>3 DEF Monitor
<1>4. ASSUME NEW m \in Monitor, NEW ok \in BOOLEAN PROVE Undecided(m, ok) \in Monitor
  BY <1>4 DEF Monitor, Undecided
<1>5. ASSUME NEW m \in Monitor, NEW ok \in BOOLEAN PROVE Decided(m, ok) \in Monitor
  BY <1>5 DEF Monitor, Decided, Conds, Thresholds
<1>6. \A pr \in Peer, c \in Conds : [pr EXCEPT !.cond = c] \in Peer
  BY DEF Peer
<1> QED BY <1>1, <1>2, <1>3, <1>4, <1>5, <1>6

LEMMA PeerTypeInit == PeerInit => PeerTypeOK
<1>1. NoMonitor \in Monitor /\ NoPeerObject \in Peer
  BY MonitorTypes
<1> QED BY <1>1, PeerAssumption DEF PeerInit, PeerTypeOK

LEMMA PeerTypeStep == PeerTypeOK /\ [PeerNext]_peerVars => PeerTypeOK'
<1> SUFFICES ASSUME PeerTypeOK, [PeerNext]_peerVars PROVE PeerTypeOK'
  OBVIOUS
<1> USE PeerAssumption
<1>1. ASSUME NEW p \in Peers, ReconcilePeer(p) PROVE PeerTypeOK'
  <2>0. newPeerMonitor(p) \in Monitor
    BY DEF PeerTypeOK, newPeerMonitor, Peer, Monitor, Thresholds
  <2>1. CASE peers[p].exists
    <3>1. AddPeer(p) /\ UNCHANGED <<orphans, peers, updater, stopping, linkUp, peerChanges>> /\ peerQ' = peerQ \ {p}
      BY <1>1, <2>1 DEF ReconcilePeer
    <3>2. Stopped(monitors[p]) \in [Ids -> Monitor]
      BY MonitorTypes DEF PeerTypeOK, Stopped
    <3>3. monitors' \in [Peers -> 0..MaxMonitors] /\ mon' \in [Ids -> Monitor]
      <4>1. ASSUME NEW j \in Ids, monitors' = [monitors EXCEPT ![p] = j],
                   mon' = [Stopped(monitors[p]) EXCEPT ![j] = newPeerMonitor(p)]
            PROVE  monitors' \in [Peers -> 0..MaxMonitors] /\ mon' \in [Ids -> Monitor]
        BY <2>0, <3>2, <4>1 DEF PeerTypeOK, Ids
      <4>2. ASSUME mon' = [mon EXCEPT ![monitors[p]].cond = peers[p].cond, ![monitors[p]].current = TRUE]
            PROVE  mon' \in [Ids -> Monitor]
        <5>1. peers[p].cond \in Conds
          BY DEF PeerTypeOK, Peer
        <5>2. mon' = [mon EXCEPT ![monitors[p]] = [mon[monitors[p]] EXCEPT !.cond = peers[p].cond, !.current = TRUE]]
          BY <4>2 DEF PeerTypeOK
        <5> QED BY <5>1, <5>2, MonitorTypes DEF PeerTypeOK
      <4> QED BY <3>1, <4>1, <4>2 DEF AddPeer, PeerTypeOK
    <3> QED BY <3>1, <3>3 DEF PeerTypeOK
  <2>2. CASE ~peers[p].exists
    <3>1. DeletePeer(p) /\ UNCHANGED <<peers, updater, stopping, linkUp, peerChanges>> /\ peerQ' = peerQ \ {p}
      BY <1>1, <2>2 DEF ReconcilePeer
    <3>2. monitors' \in [Peers -> 0..MaxMonitors] /\ orphans' \subseteq Ids
      <4>1. monitors[p] \in 0..MaxMonitors
        BY DEF PeerTypeOK
      <4>2. {monitors[p]} \ {0} \subseteq Ids
        BY <4>1 DEF Ids
      <4> QED BY <3>1, <4>2 DEF DeletePeer, PeerTypeOK
    <3> QED BY <3>1, <3>2 DEF DeletePeer, PeerTypeOK
  <2> QED BY <2>1, <2>2
<1>2. ASSUME NEW i \in Ids, Heartbeat(i) PROVE PeerTypeOK'
  <2>1. mon[i] \in Monitor
    BY DEF PeerTypeOK
  <2>2. PICK m \in Monitor : mon' = [mon EXCEPT ![i] = m]
    BY <1>2, <2>1, MonitorTypes DEF Heartbeat, GetHeartbeat
  <2> QED BY <1>2, <2>1, <2>2 DEF Heartbeat, PeerTypeOK
<1>3. ASSUME NEW i \in Ids, QueueStatusUpdate(i) PROVE PeerTypeOK'
  <2>1. mon[i] \in Monitor /\ mon[i].peer \in Peers \cup {NoPeer}
    BY DEF PeerTypeOK, Monitor
  <2> QED BY <1>3, <2>1, MonitorTypes DEF QueueStatusUpdate, PeerTypeOK
<1>4. CASE UpdateStatus
  <2>1. /\ monitors[updater] \in Ids => mon[monitors[updater]] \in Monitor /\ mon[monitors[updater]].cond \in Conds
        /\ updater \in Peers /\ peers[updater] \in Peer
    BY <1>4 DEF UpdateStatus, PeerTypeOK, Monitor
  <2>2. peers' \in [Peers -> Peer]
    <3>1. monitors[updater] \in Ids
      BY <1>4, <2>1 DEF UpdateStatus, PeerTypeOK, Ids
    <3>2. [peers[updater] EXCEPT !.cond = mon[monitors[updater]].cond] \in Peer
      BY <2>1, <3>1, MonitorTypes
    <3> QED BY <1>4, <2>1, <3>2 DEF UpdateStatus, PeerTypeOK
  <2>3. mon' \in [Ids -> Monitor]
    BY <1>4, <2>1, MonitorTypes DEF UpdateStatus, PeerTypeOK, Ids
  <2> QED BY <1>4, <2>2, <2>3 DEF UpdateStatus, PeerTypeOK
<1>5. CASE Stop
  BY <1>5, MonitorTypes DEF Stop, PeerTypeOK
<1>6. CASE MonitorsStopped \/ UpdaterExits
  BY <1>6 DEF MonitorsStopped, UpdaterExits, PeerTypeOK
<1>7. ASSUME NEW p \in Peers, NEW pr \in Peer, WritePeer(p, pr) PROVE PeerTypeOK'
  <2>1. mon' \in [Ids -> Monitor]
    BY <1>7, MonitorTypes DEF WritePeer, PeerTypeOK
  <2> QED BY <1>7, <2>1 DEF WritePeer, Change, PeerTypeOK
<1>8. ASSUME NEW p \in Peers, UserCreates(p) \/ UserEdits(p) \/ UserDeletes(p) PROVE PeerTypeOK'
  <2>1. \E pr \in Peer : WritePeer(p, pr)
    <3>1. peers[p] \in Peer
      BY DEF PeerTypeOK
    <3>2. CASE UserCreates(p)
      BY <3>2 DEF UserCreates, Peer, Conds
    <3>3. CASE UserEdits(p)
      BY <3>1, <3>3 DEF UserEdits, Peer
    <3>4. CASE UserDeletes(p)
      BY <3>4, MonitorTypes DEF UserDeletes
    <3> QED BY <1>8, <3>2, <3>3, <3>4
  <2> QED BY <2>1, <1>7
<1>9. ASSUME NEW p \in Peers, LinkChanges(p) PROVE PeerTypeOK'
  BY <1>9 DEF LinkChanges, Change, PeerTypeOK
<1>10. CASE UNCHANGED peerVars
  BY <1>10 DEF peerVars, PeerTypeOK
<1> QED BY <1>1, <1>2, <1>3, <1>4, <1>5, <1>6, <1>8, <1>9, <1>10 DEF PeerNext

(* The peer manager is type correct for any peers and thresholds: the map  *)
(* of AddPeer and DeletePeer only has monitors that exist.                 *)
THEOREM PeerTypeCorrect == PeerSpec => []PeerTypeOK
BY PeerTypeInit, PeerTypeStep, PTL DEF PeerSpec

(* The monitor of a peer that goes on is the one in the map: AddPeer stops *)
(* the one it replaces, and Stop those of the map.  Those that DeletePeer  *)
(* forgot are in orphans.                                                  *)
MonitorInv ==
    /\ \A i \in Ids \ orphans : ~mon[i].stop => mon[i].peer \in Peers /\ monitors[mon[i].peer] = i
    /\ stopping \in {"updater", "done"} => \A i \in Ids : mon[i].pc = "done"

(* A step that starts no monitor, restarts none, and keeps the map. *)
LEMMA SameMonitors ==
    ASSUME PeerTypeOK, MonitorInv, UNCHANGED <<monitors, stopping>>, orphans \subseteq orphans',
           \A i \in Ids : /\ ~mon'[i].stop => ~mon[i].stop /\ mon'[i].peer = mon[i].peer
                          /\ mon[i].pc = "done" => mon'[i].pc = "done"
    PROVE  MonitorInv'
BY DEF MonitorInv

LEMMA MonitorFields ==
    \A m \in Monitor :
        /\ [m EXCEPT !.stop = TRUE].stop = TRUE /\ [m EXCEPT !.stop = TRUE].pc = m.pc
        /\ \A c \in Conds : LET n == [m EXCEPT !.cond = c, !.current = TRUE]
                            IN  n.stop = m.stop /\ n.peer = m.peer /\ n.pc = m.pc
        /\ LET n == [m EXCEPT !.current = FALSE] IN n.stop = m.stop /\ n.peer = m.peer /\ n.pc = m.pc
        /\ LET n == [m EXCEPT !.pc = "beat"] IN n.stop = m.stop /\ n.peer = m.peer
        /\ \A ok \in BOOLEAN : /\ Undecided(m, ok).stop = m.stop /\ Undecided(m, ok).peer = m.peer
                               /\ Decided(m, ok).stop = m.stop /\ Decided(m, ok).peer = m.peer
BY DEF Monitor, Undecided, Decided

LEMMA MonitorReconcile ==
    ASSUME PeerTypeOK, MonitorInv, NEW p \in Peers, ReconcilePeer(p)
    PROVE  MonitorInv'
<1>1. CASE ~peers[p].exists
  <2>1. monitors' = [monitors EXCEPT ![p] = 0] /\ orphans' = orphans \cup ({monitors[p]} \ {0})
        /\ UNCHANGED <<mon, stopping>>
    BY <1>1 DEF ReconcilePeer, DeletePeer
  <2>2. ASSUME NEW i \in Ids \ orphans', ~mon[i].stop
        PROVE  mon[i].peer \in Peers /\ monitors'[mon[i].peer] = i
    <3>1. i \in Ids \ orphans /\ i # 0 /\ i # monitors[p]
      BY <2>1, <2>2, PeerAssumption DEF Ids
    <3> QED BY <2>1, <2>2, <3>1 DEF MonitorInv, PeerTypeOK
  <2> QED BY <2>1, <2>2 DEF MonitorInv
<1>2. CASE peers[p].exists
  <2>1. AddPeer(p) /\ UNCHANGED <<orphans, stopping>>
    BY <1>2 DEF ReconcilePeer
  <2>2. ASSUME stopping = "no", NEW j \in Ids, monitors' = [monitors EXCEPT ![p] = j],
               mon' = [Stopped(monitors[p]) EXCEPT ![j] = newPeerMonitor(p)]
        PROVE  MonitorInv'
    <3>1. mon'[j].peer = p /\ monitors'[p] = j
      BY <2>2 DEF PeerTypeOK, Stopped, newPeerMonitor
    <3>2. ASSUME NEW i \in Ids \ orphans, i # j, ~mon'[i].stop
          PROVE  mon'[i] = mon[i] /\ i # monitors[p]
      BY <2>2, <3>2, MonitorFields DEF Stopped, PeerTypeOK
    <3>3. ASSUME NEW i \in Ids \ orphans, ~mon'[i].stop
          PROVE  mon'[i].peer \in Peers /\ monitors'[mon'[i].peer] = i
      <4>1. CASE i = j
        BY <3>1, <4>1
      <4>2. CASE i # j
        <5>1. mon'[i] = mon[i] /\ i # monitors[p]
          BY <3>2, <3>3, <4>2
        <5>2. mon[i].peer \in Peers /\ monitors[mon[i].peer] = i
          BY <3>3, <5>1 DEF MonitorInv
        <5> QED BY <2>2, <5>1, <5>2 DEF PeerTypeOK
      <4> QED BY <4>1, <4>2
    <3> QED BY <2>1, <2>2, <3>3 DEF MonitorInv
  <2>3. ASSUME mon' = [mon EXCEPT ![monitors[p]].cond = peers[p].cond, ![monitors[p]].current = TRUE],
               UNCHANGED monitors
        PROVE  MonitorInv'
    <3>1. peers[p].cond \in Conds
      BY DEF PeerTypeOK, Peer
    <3>2. ASSUME NEW i \in Ids
          PROVE  /\ ~mon'[i].stop => ~mon[i].stop /\ mon'[i].peer = mon[i].peer
                 /\ mon[i].pc = "done" => mon'[i].pc = "done"
      BY <2>3, <3>1, MonitorFields DEF PeerTypeOK
    <3> QED BY <2>1, <2>3, <3>2, SameMonitors
  <2>4. CASE UNCHANGED <<monitors, mon>>
    BY <2>1, <2>4 DEF MonitorInv
  <2> QED BY <2>1, <2>2, <2>3, <2>4 DEF AddPeer
<1> QED BY <1>1, <1>2

LEMMA MonitorStep == PeerTypeOK /\ MonitorInv /\ [PeerNext]_peerVars => MonitorInv'
<1> SUFFICES ASSUME PeerTypeOK, MonitorInv, [PeerNext]_peerVars PROVE MonitorInv'
  OBVIOUS
<1>1. ASSUME NEW p \in Peers, ReconcilePeer(p) PROVE MonitorInv'
  BY <1>1, MonitorReconcile
<1>2. ASSUME NEW i \in Ids, Heartbeat(i) PROVE MonitorInv'
  <2>1. mon[i] \in Monitor /\ mon[i].pc = "beat" /\ UNCHANGED <<monitors, orphans, stopping>>
    BY <1>2 DEF Heartbeat, PeerTypeOK
  <2>2. PICK m \in {NoMonitor} \cup {Undecided(mon[i], ok) : ok \in BOOLEAN}
                                \cup {Decided(mon[i], ok) : ok \in BOOLEAN} : mon' = [mon EXCEPT ![i] = m]
    BY <1>2 DEF Heartbeat, GetHeartbeat
  <2>3. ~m.stop => ~mon[i].stop /\ m.peer = mon[i].peer
    BY <2>1, MonitorFields DEF NoMonitor
  <2> QED BY <2>1, <2>2, <2>3, SameMonitors DEF PeerTypeOK
<1>3. ASSUME NEW i \in Ids, QueueStatusUpdate(i) PROVE MonitorInv'
  <2>1. /\ mon[i] \in Monitor /\ mon[i].pc = "send" /\ UNCHANGED <<monitors, orphans, stopping>>
        /\ mon' = [mon EXCEPT ![i] = [mon[i] EXCEPT !.pc = "beat"]]
    BY <1>3 DEF QueueStatusUpdate, PeerTypeOK
  <2> QED BY <2>1, MonitorFields, SameMonitors DEF PeerTypeOK
<1>4. CASE UpdateStatus
  <2>1. UNCHANGED <<monitors, orphans, stopping>>
    BY <1>4 DEF UpdateStatus
  <2>2. ASSUME NEW j \in Ids
        PROVE  /\ ~mon'[j].stop => ~mon[j].stop /\ mon'[j].peer = mon[j].peer
               /\ mon[j].pc = "done" => mon'[j].pc = "done"
    <3>1. mon'[j] \in {mon[j], [mon[j] EXCEPT !.current = FALSE]}
      BY <1>4 DEF UpdateStatus, PeerTypeOK
    <3>2. mon[j] \in Monitor
      BY DEF PeerTypeOK
    <3>3. LET n == [mon[j] EXCEPT !.current = FALSE]
          IN  n.stop = mon[j].stop /\ n.peer = mon[j].peer /\ n.pc = mon[j].pc
      BY <3>2, MonitorFields
    <3> QED BY <3>1, <3>3
  <2> QED BY <2>1, <2>2, SameMonitors
<1>5. CASE Stop
  <2>1. UNCHANGED <<monitors, orphans>> /\ stopping' = "monitors"
    BY <1>5 DEF Stop
  <2>2. ASSUME NEW j \in Ids, ~mon'[j].stop PROVE mon'[j] = mon[j]
    BY <1>5, <2>2, MonitorFields DEF Stop, PeerTypeOK
  <2> QED BY <2>1, <2>2 DEF MonitorInv
<1>6. CASE MonitorsStopped \/ UpdaterExits
  BY <1>6 DEF MonitorsStopped, UpdaterExits, MonitorInv
<1>7. ASSUME NEW p \in Peers, NEW pr, WritePeer(p, pr) PROVE MonitorInv'
  <2>1. UNCHANGED <<monitors, orphans, stopping>>
    BY <1>7 DEF WritePeer, Change
  <2>2. ASSUME NEW j \in Ids
        PROVE  /\ ~mon'[j].stop => ~mon[j].stop /\ mon'[j].peer = mon[j].peer
               /\ mon[j].pc = "done" => mon'[j].pc = "done"
    BY <1>7, MonitorFields DEF WritePeer, PeerTypeOK
  <2> QED BY <2>1, <2>2, SameMonitors
<1>8. ASSUME NEW p \in Peers, UserCreates(p) \/ UserEdits(p) \/ UserDeletes(p) PROVE MonitorInv'
  BY <1>7, <1>8 DEF UserCreates, UserEdits, UserDeletes
<1>9. CASE UNCHANGED <<monitors, mon, orphans, stopping>>
  BY <1>9 DEF MonitorInv
<1>10. ASSUME NEW p \in Peers, LinkChanges(p) PROVE MonitorInv'
  BY <1>9, <1>10 DEF LinkChanges, Change
<1> QED BY <1>1, <1>2, <1>3, <1>4, <1>5, <1>6, <1>8, <1>9, <1>10 DEF PeerNext, peerVars

LEMMA PeersManaged == PeerSpec => []MonitorInv
<1>1. PeerInit => MonitorInv
  BY DEF PeerInit, MonitorInv, NoMonitor
<1> QED BY <1>1, MonitorStep, PeerTypeCorrect, PTL DEF PeerSpec

(* For any peers, thresholds and number of monitors, in every order of     *)
(* reconciliations, heartbeats, status updates and Stop, at most one       *)
(* monitor of a peer goes on, apart from those that DeletePeer forgot      *)
(* (AddPeer, peer.go).                                                     *)
THEOREM MonitorsUnique == PeerSpec => []OneMonitorPerPeer
<1>1. MonitorInv => OneMonitorPerPeer
  BY DEF MonitorInv, OneMonitorPerPeer
<1> QED BY <1>1, PeersManaged, PTL

(* For any peers and monitors, once Stop has returned no monitor runs, and *)
(* no later event of a peer starts one (Stop and AddPeer, peer.go).        *)
THEOREM StopFinal == PeerSpec => []MonitorsEnded
<1>1. MonitorInv => MonitorsEnded
  BY DEF MonitorInv, MonitorsEnded
<1> QED BY <1>1, PeersManaged, PTL
===============================================================================
