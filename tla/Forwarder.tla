------------------------------- MODULE Forwarder -------------------------------
(***************************************************************************)
(* The forwarders of the Go data plane (pkg/dataplane/server/forwarder.go) *)
(* in a row between a client and a service: one in the data plane of the   *)
(* client (initiateEgressConnection) and one in that of the service        *)
(* (routeIngress).  A forwarder has a goroutine for each direction; the    *)
(* first one that ends raises closeSignal, the other one sees it when it   *)
(* is at the top of its loop, and then both connections are closed.        *)
(*                                                                         *)
(* Connection k is between node k and node k + 1; node 0 is the client,    *)
(* node Hops + 1 the service.  Data are counted.  Connections are those of *)
(* TCP: closing one with unread data, or writing to one that the receiver  *)
(* has closed, resets it, and then data that were not read may be lost.    *)
(***************************************************************************)
EXTENDS Integers

CONSTANTS Hops,           \* the number of forwarders
          ClientData,     \* bound: what the client sends
          ServiceData,    \* bound: what the service sends
          Capacity        \* what a connection can hold

Forwarders == 1..Hops
Connections == 0..Hops
Directions == {"right", "left"}
Opposite(d) == IF d = "right" THEN "left" ELSE "right"

MaxData(d) == IF d = "right" THEN ClientData ELSE ServiceData

(* The first and the last connection of a direction, those of its ends. *)
First(d) == IF d = "right" THEN 0 ELSE Hops
Last(d) == First(Opposite(d))

(* The connections a goroutine reads and writes. *)
In(f, d) == IF d = "right" THEN f - 1 ELSE f
Out(f, d) == In(f, Opposite(d))

VARIABLES queue,          \* the data on a connection, in each direction
          fin,            \* directions that were closed by their sender ...
          shut,           \* ... and by their receiver
          reset,          \* the connections that were reset
          at, closeSignal, closed,
          sent, delivered

netVars == <<queue, fin, shut, reset>>
endVars == <<sent, delivered>>
vars == <<queue, fin, shut, reset, at, closeSignal, closed, sent, delivered>>

TypeOK ==
    /\ queue \in [Connections -> [Directions -> 0..Capacity]]
    /\ fin \in [Connections -> SUBSET Directions]
    /\ shut \in [Connections -> SUBSET Directions]
    /\ reset \subseteq Connections
    /\ at \in [Forwarders -> [Directions -> {"loop", "read", "write", "done"}]]
    /\ closeSignal \subseteq Forwarders
    /\ closed \subseteq closeSignal
    /\ \A d \in Directions : delivered[d] \in 0..sent[d] /\ sent[d] \in 0..MaxData(d)

Init ==
    /\ queue = [k \in Connections |-> [d \in Directions |-> 0]]
    /\ fin = [k \in Connections |-> {}]
    /\ shut = [k \in Connections |-> {}]
    /\ reset = {}
    /\ at = [f \in Forwarders |-> [d \in Directions |-> "loop"]]
    /\ closeSignal = {} /\ closed = {}
    /\ sent = [d \in Directions |-> 0]
    /\ delivered = [d \in Directions |-> 0]
-------------------------------------------------------------------------------
(* Connections *)

(* Data are written to a connection: an error on one that was reset, lost  *)
(* on one that the receiver has closed.                                    *)
Write(k, d) ==
    /\ k \notin reset
    /\ \/ /\ d \in shut[k]
          /\ reset' = reset \cup {k}
          /\ UNCHANGED queue
       \/ /\ d \notin shut[k] /\ queue[k][d] < Capacity
          /\ queue' = [queue EXCEPT ![k][d] = @ + 1]
          /\ UNCHANGED reset
    /\ UNCHANGED <<fin, shut>>

Take(k, d) ==
    /\ queue[k][d] > 0
    /\ queue' = [queue EXCEPT ![k][d] = @ - 1]
    /\ UNCHANGED <<fin, shut, reset>>

(* The ends of connections that send in the given directions are closed. *)
CloseEnds(directions) ==
    LET Receives(k) == {Opposite(d) : d \in directions[k]}
    IN  /\ fin' = [k \in Connections |-> fin[k] \cup directions[k]]
        /\ shut' = [k \in Connections |-> shut[k] \cup Receives(k)]
        /\ reset' = reset \cup {k \in Connections : \E d \in Receives(k) : queue[k][d] > 0}
        /\ UNCHANGED queue

Lose(k, d) ==
    /\ k \in reset /\ queue[k][d] > 0
    /\ queue' = [queue EXCEPT ![k][d] = 0]
    /\ UNCHANGED <<fin, shut, reset, at, closeSignal, closed, endVars>>
-------------------------------------------------------------------------------
(* peerToWorkload and workloadToPeer of forwarder f *)

Goto(f, d, label) == at' = [at EXCEPT ![f][d] = label]

(* Mutant of CheckSignal: a goroutine ends only by itself. *)
CheckNothing(f, d) ==
    /\ at[f][d] = "loop"
    /\ Goto(f, d, "read")
    /\ UNCHANGED <<netVars, closeSignal, closed, endVars>>

CheckSignal(f, d) ==
    /\ at[f][d] = "loop"
    /\ Goto(f, d, IF f \in closeSignal THEN "done" ELSE "read")
    /\ UNCHANGED <<netVars, closeSignal, closed, endVars>>

(* The deadline of the read passes, with nothing there to return. *)
ReadTimeout(f, d) ==
    /\ at[f][d] = "read" /\ queue[In(f, d)][d] = 0
    /\ d \notin fin[In(f, d)] /\ In(f, d) \notin reset
    /\ Goto(f, d, "loop")
    /\ UNCHANGED <<netVars, closeSignal, closed, endVars>>

ReadData(f, d) ==
    /\ at[f][d] = "read"
    /\ Take(In(f, d), d)
    /\ Goto(f, d, "write")
    /\ UNCHANGED <<closeSignal, closed, endVars>>

(* Mutant of ReadEnds: the end is seen before the data. *)
ReadEndsEarly(f, d) ==
    /\ at[f][d] = "read"
    /\ d \in fin[In(f, d)] \/ In(f, d) \in reset
    /\ closeSignal' = closeSignal \cup {f}
    /\ Goto(f, d, "done")
    /\ UNCHANGED <<netVars, closed, endVars>>

(* EOF, or an error. *)
ReadEnds(f, d) ==
    /\ at[f][d] = "read" /\ queue[In(f, d)][d] = 0
    /\ d \in fin[In(f, d)] \/ In(f, d) \in reset
    /\ closeSignal' = closeSignal \cup {f}
    /\ Goto(f, d, "done")
    /\ UNCHANGED <<netVars, closed, endVars>>

WriteData(f, d) ==
    /\ at[f][d] = "write"
    /\ Write(Out(f, d), d)
    /\ Goto(f, d, "loop")
    /\ UNCHANGED <<closeSignal, closed, endVars>>

WriteFails(f, d) ==
    /\ at[f][d] = "write" /\ Out(f, d) \in reset
    /\ closeSignal' = closeSignal \cup {f}
    /\ Goto(f, d, "done")
    /\ UNCHANGED <<netVars, closed, endVars>>

(* The end of run: both connections are closed. *)
CloseConnections(f) ==
    /\ f \notin closed /\ \A d \in Directions : at[f][d] = "done"
    /\ closed' = closed \cup {f}
    /\ CloseEnds([k \in Connections |-> {d \in Directions : k = Out(f, d)}])
    /\ UNCHANGED <<at, closeSignal, endVars>>
-------------------------------------------------------------------------------
(* The client (direction "right") and the service (direction "left") *)

Closed(d) == Opposite(d) \in shut[First(d)]

Send(d) ==
    /\ d \notin fin[First(d)] /\ sent[d] < MaxData(d)
    /\ sent' = [sent EXCEPT ![d] = @ + 1]
    /\ Write(First(d), d)
    /\ UNCHANGED <<at, closeSignal, closed, delivered>>

(* What was sent in direction d is read at its other end. *)
Receive(d) ==
    /\ ~Closed(Opposite(d))
    /\ Take(Last(d), d)
    /\ delivered' = [delivered EXCEPT ![d] = @ + 1]
    /\ UNCHANGED <<at, closeSignal, closed, sent>>

HalfClose(d) ==
    /\ d \notin fin[First(d)]
    /\ fin' = [fin EXCEPT ![First(d)] = @ \cup {d}]
    /\ UNCHANGED <<queue, shut, reset, at, closeSignal, closed, endVars>>

Close(d) ==
    /\ ~Closed(d)
    /\ CloseEnds([k \in Connections |-> IF k = First(d) THEN {d} ELSE {}])
    /\ UNCHANGED <<at, closeSignal, closed, endVars>>

Goroutine(f, d) ==
    \/ CheckSignal(f, d) \/ ReadTimeout(f, d) \/ ReadData(f, d) \/ ReadEnds(f, d)
    \/ WriteData(f, d) \/ WriteFails(f, d)
-------------------------------------------------------------------------------
(* The receiver of a direction sees its end: a FIN, and no reset. *)
EndOfData(d) ==
    /\ d \in fin[Last(d)] /\ queue[Last(d)][d] = 0
    /\ Last(d) \notin reset /\ ~Closed(Opposite(d))

(* A client that sends and then closes, to a service that does not answer: *)
(* when the service sees the end, it has got everything.  closeSignal      *)
(* never cuts off data that were sent before the end.                      *)
NothingCutOff ==
    EndOfData("right") /\ sent["left"] = 0 /\ "left" \notin fin[First("left")] =>
        delivered["right"] = sent["right"]

(* Forwarders do not end, and connections are not reset, while both ends   *)
(* are open: deadlines of reads and slow readers are no errors.            *)
OpenStaysOpen ==
    (\A d \in Directions : d \notin fin[First(d)]) => closeSignal = {} /\ reset = {}
===============================================================================
