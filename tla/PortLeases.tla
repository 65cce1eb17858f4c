------------------------------ MODULE PortLeases ------------------------------
(***************************************************************************)
(* What the port manager of the control plane promises its callers: one    *)
(* table of leases in which a name holds at most one port and no port is   *)
(* held by two names.  PortManager (the two maps of port.go) is shown to   *)
(* implement this specification.                                           *)
(***************************************************************************)
EXTENDS Integers

CONSTANTS Names,    \* the names (of imports) that may lease a port
          MaxPort   \* the largest port number

VARIABLE lease      \* lease[n] is the port held by n, 0 when n holds none

Init == lease = [n \in Names |-> 0]

(* n obtains p, which nobody else holds, and gives up the port it held. *)
Take(n, p) ==
    /\ \A m \in Names \ {n} : lease[m] # p
    /\ lease' = [lease EXCEPT ![n] = p]

(* n gives up the port it holds. *)
Free(n) == lease' = [lease EXCEPT ![n] = 0]

Next == \E n \in Names : Free(n) \/ \E p \in 1..MaxPort : Take(n, p)

Spec == Init /\ [][Next]_lease
===============================================================================
