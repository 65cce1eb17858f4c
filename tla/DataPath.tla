------------------------------- MODULE DataPath -------------------------------
(***************************************************************************)
(* Connections of clients to an imported service, from the listener of the *)
(* import to the service: they are set up as in the module Tunnel, and     *)
(* then their bytes go through the forwarders of the two data planes       *)
(* (module Forwarder).  The client may send, and close, as soon as its     *)
(* connection is accepted, the service as soon as it is dialled.           *)
(*                                                                         *)
(* The bytes of at most one connection are followed, and that one is then  *)
(* alone; otherwise any number is set up, and forwarding ends when it may. *)
(***************************************************************************)
EXTENDS Tunnel, Integers

CONSTANTS ClientData, ServiceData, Capacity

ASSUME DataAssumption == {ClientData, ServiceData} \subseteq Nat /\ Capacity \in Nat \ {0}
ASSUME ConnsAssumption == Conns # {}

NoConn == "none"

VARIABLES followed,       \* the connection whose bytes are followed, if any
          queue, fin, shut, reset, at, closeSignal, closed, sent, delivered

EgressForwarder == 1
IngressForwarder == 2

Bytes == INSTANCE Forwarder WITH Hops <- 2

bytesVars == <<queue, fin, shut, reset, at, closeSignal, closed, sent, delivered>>
dataPathVars == <<tunnelVars, bytesVars, followed>>

DataPathTypeOK == TunnelTypeOK /\ Bytes!TypeOK /\ followed \in Conns \cup {NoConn}

DataPathInit == TunnelInit /\ Bytes!Init /\ followed \in {NoConn, CHOOSE c \in Conns : TRUE}

SetUp(c) ==
    /\ followed \in {c, NoConn}
    /\ ClientConnects(c) \/ Accept(c) \/ Egress(c) \/ Ingress(c) \/ IdleTimeout(c)
    /\ UNCHANGED <<bytesVars, followed>>

ClustersChange == followed = NoConn /\ (ChangePeers \/ ChangeExports) /\ UNCHANGED <<bytesVars, followed>>

(***************************************************************************)
(* Forwarding, of a connection that is not followed and of one that is.    *)
(***************************************************************************)
ForwardingEnds(c) == c # followed /\ (EgressEnds(c) \/ IngressEnds(c)) /\ UNCHANGED <<bytesVars, followed>>

Running(f) ==
    \E c \in Conns \cap {followed} :
        \/ f = EgressForwarder /\ egress[c] = "forwarding"
        \/ f = IngressForwarder /\ ingress[c] = "forwarding"

Forward(f, d) ==
    /\ Running(f)
    /\ Bytes!Goroutine(f, d)
    /\ UNCHANGED <<tunnelVars, followed>>

ForwarderEnds(f) ==
    /\ Running(f)
    /\ Bytes!CloseConnections(f)
    /\ IF f = EgressForwarder THEN EgressEnds(followed) ELSE IngressEnds(followed)
    /\ UNCHANGED followed

(***************************************************************************)
(* The client, the service and the network.                                *)
(***************************************************************************)
Connected(d) ==
    \E c \in Conns \cap {followed} :
        \/ d = "right" /\ egress[c] \notin {"none", "queued", "failed"}
        \/ d = "left" /\ ingress[c] \in {"hijack", "forwarding", "ended"}

EndSends(d) ==
    /\ Connected(d)
    /\ Bytes!Send(d) \/ Bytes!HalfClose(d) \/ Bytes!Close(d)
    /\ UNCHANGED <<tunnelVars, followed>>

EndReceives(d) == Bytes!Receive(d) /\ UNCHANGED <<tunnelVars, followed>>

NetworkLoses == (\E k \in 0..2, d \in Bytes!Directions : Bytes!Lose(k, d)) /\ UNCHANGED <<tunnelVars, followed>>

\* A data plane that panics is gone, with its connections.
DataPathNext ==
    /\ ~panicked
    /\ \/ \E c \in Conns : SetUp(c) \/ ForwardingEnds(c)
       \/ ClustersChange
       \/ \E f \in 1..2 : ForwarderEnds(f) \/ \E d \in Bytes!Directions : Forward(f, d)
       \/ \E d \in Bytes!Directions : EndSends(d) \/ EndReceives(d)
       \/ NetworkLoses

\* Goroutines are scheduled fairly, and control planes, peers and services
\* answer or fail.  A listener that keeps accepting accepts every connection.
\* The ends read what they get.
DataPathSpec ==
    /\ DataPathInit /\ [][DataPathNext]_dataPathVars
    /\ \A c \in Conns :
        LET Step(A) == ~panicked /\ followed \in {c, NoConn} /\ A /\ UNCHANGED <<bytesVars, followed>>
        IN  /\ SF_dataPathVars(Step(Accept(c)))
            /\ WF_dataPathVars(Step(Egress(c) \/ Ingress(c)))
            /\ WF_dataPathVars(Step(IdleTimeout(c)))
    /\ \A f \in 1..2 :
        /\ WF_dataPathVars(ForwarderEnds(f))
        /\ \A d \in Bytes!Directions : WF_dataPathVars(Forward(f, d))
    /\ \A d \in Bytes!Directions : WF_dataPathVars(EndReceives(d))
-------------------------------------------------------------------------------
\* A client that sends and then closes, to a service that does not answer: when
\* the service sees the end, it has got everything, also what was sent before
\* the tunnel was there.  And forwarders do not end, and connections are not
\* reset, while both ends are open: deadlines of reads are no errors.
NothingCutOff == Bytes!NothingCutOff /\ Bytes!OpenStaysOpen

\* The data planes keep no socket of a connection open: neither of one that was
\* given up on any path, whichever of them accepted or dialled it, nor of one
\* whose client or service has closed it, whatever the other end does.
SocketsClosed ==
    /\ \A c \in Conns : egress[c] = "failed" ~> {s \in open : s[1] = c} = {} \/ panicked
    /\ (\E c \in Conns, d \in Bytes!Directions :
          followed = c /\ egress[c] = "forwarding" /\ Bytes!Closed(d))
       ~> {s \in open : s[1] = followed} = {}
===============================================================================
