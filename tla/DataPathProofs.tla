---------------------------- MODULE DataPathProofs ----------------------------
(***************************************************************************)
(* Proofs about the data path, for any number of connections, gateways and *)
(* exports, any amount of data and any capacity of the connections.        *)
(*                                                                         *)
(* TunnelInv says what the two ends of a connection know of each other,    *)
(* and which sockets are open at each stage.  BytesInv counts the data of  *)
(* the connection that is followed: what was sent towards the service is   *)
(* in the queues, held by a forwarder or delivered, until an end closes.   *)
(***************************************************************************)
EXTENDS DataPath, TLAPS

Waiting == {"none", "queued"}
Dialling == {"authorize", "host", "useHost", "target", "useTarget", "hostname", "useHostname", "dial"}

(* What the two ends of a connection know of each other: the handler of    *)
(* the request starts with it, and answers once, when it has the socket of *)
(* the service or has given up.                                            *)
Ends(c) ==
    /\ egress[c] \in Waiting \cup Dialling \cup {"request"} => ingress[c] = "none"
    /\ ingress[c] \in {"none", "authorize", "target", "useTarget", "dial", "hijack"} => status[c] = "none"
    /\ ingress[c] \in {"forwarding", "ended"} <=> status[c] = "OK"
    /\ egress[c] = "forwarding" => status[c] = "OK"

(* The sockets that are open then. *)
SocketsOpen(c) ==
    /\ egress[c] \in Dialling \cup {"request", "response", "forwarding"} => <<c, "app">> \in open
    /\ egress[c] \in {"request", "response", "forwarding"} /\ ingress[c] # "refused" => <<c, "peer">> \in open
    /\ ingress[c] \in {"hijack", "forwarding"} => <<c, "service">> \in open

TunnelInv == TunnelTypeOK /\ \A c \in Conns : Ends(c) /\ SocketsOpen(c)
-------------------------------------------------------------------------------
(* A step of one connection leaves the others alone. *)
LEMMA OneConnection ==
    ASSUME TunnelInv, NEW c \in Conns, TunnelTypeOK', Ends(c)', SocketsOpen(c)',
           \A d \in Conns \ {c} :
               /\ egress'[d] = egress[d] /\ ingress'[d] = ingress[d] /\ status'[d] = status[d]
               /\ \A s \in {"app", "peer", "service"} : <<d, s>> \in open' <=> <<d, s>> \in open
    PROVE  TunnelInv'
<1>1. ASSUME NEW d \in Conns \ {c} PROVE Ends(d)' /\ SocketsOpen(d)'
  BY <1>1 DEF TunnelInv, Ends, SocketsOpen
<1>2. QED
  BY <1>1 DEF TunnelInv

(* The listener, and the goroutine it starts for a connection. *)
LEMMA EgressTypes ==
    ASSUME TunnelTypeOK, NEW c \in Conns,
           \/ ClientConnects(c) \/ Accept(c) \/ Egress(c) \/ EgressEnds(c)
    PROVE  TunnelTypeOK'
<1> USE DEF TunnelTypeOK, Fail, EgressGoes, Loop, Lookups
<1>1. CASE ClientConnects(c)
  BY <1>1 DEF ClientConnects
<1>2. CASE Accept(c)
  BY <1>2 DEF Accept, Sockets
<1>3. CASE getEgressAuth(c)
  BY <1>3 DEF getEgressAuth
<1>4. CASE GetClusterHost(c)
  BY <1>4 DEF GetClusterHost, Check, Use
<1>5. CASE GetClusterTarget(c)
  BY <1>5 DEF GetClusterTarget, Check, Use
<1>6. CASE GetClusterHostname(c)
  BY <1>6 DEF GetClusterHostname, Check, Use
<1>7. CASE DialPeer(c)
  BY <1>7 DEF DialPeer, Sockets
<1>8. CASE Request(c)
  BY <1>8 DEF Request, IngressGoes
<1>9. CASE Response(c)
  BY <1>9 DEF Response
<1>10. CASE EgressEnds(c)
  BY <1>10 DEF EgressEnds
<1>11. QED
  BY <1>1, <1>2, <1>3, <1>4, <1>5, <1>6, <1>7, <1>8, <1>9, <1>10 DEF Egress

(* The handler of the request in the other data plane. *)
LEMMA IngressTypes ==
    ASSUME TunnelTypeOK, NEW c \in Conns, Ingress(c) \/ IngressEnds(c) \/ IdleTimeout(c)
    PROVE  TunnelTypeOK'
<1> USE DEF TunnelTypeOK, Refuse, Answer, IngressGoes
<1>1. CASE IngressAuthorize(c)
  BY <1>1 DEF IngressAuthorize
<1>2. CASE ExportTarget(c)
  BY <1>2 DEF ExportTarget
<1>3. CASE DialService(c)
  BY <1>3 DEF DialService, Sockets
<1>4. CASE hijackConn(c)
  BY <1>4 DEF hijackConn
<1>5. CASE IngressEnds(c)
  BY <1>5 DEF IngressEnds
<1>6. CASE IdleTimeout(c)
  BY <1>6 DEF IdleTimeout
<1>7. QED
  BY <1>1, <1>2, <1>3, <1>4, <1>5, <1>6 DEF Ingress

LEMMA ClustersTypes ==
    ASSUME TunnelTypeOK, ChangePeers \/ ChangeExports
    PROVE  TunnelTypeOK'
  BY DEF TunnelTypeOK, ChangePeers, ChangeExports, handleCluster
-------------------------------------------------------------------------------
LEMMA EgressPreserves ==
    ASSUME TunnelInv, NEW c \in Conns,
           \/ ClientConnects(c) \/ Accept(c) \/ Egress(c) \/ EgressEnds(c)
    PROVE  TunnelInv'
<1>1. TunnelTypeOK'
  BY EgressTypes DEF TunnelInv
<1> USE DEF TunnelInv, TunnelTypeOK, Fail, EgressGoes
<1>2. \A d \in Conns \ {c} :
          /\ egress'[d] = egress[d] /\ ingress'[d] = ingress[d] /\ status'[d] = status[d]
          /\ \A s \in {"app", "peer", "service"} : <<d, s>> \in open' <=> <<d, s>> \in open
  BY DEF Egress, ClientConnects, Accept, getEgressAuth, GetClusterHost, GetClusterTarget, GetClusterHostname,
         Check, Use, DialPeer, Request, Response, IngressGoes, EgressEnds
<1> USE DEF Ends, SocketsOpen, Waiting, Dialling
<1>3. CASE ClientConnects(c)
  BY <1>1, <1>2, <1>3, OneConnection DEF ClientConnects
<1>4. CASE Accept(c)
  BY <1>1, <1>2, <1>4, OneConnection DEF Accept
<1>5. CASE getEgressAuth(c)
  BY <1>1, <1>2, <1>5, OneConnection DEF getEgressAuth
<1>6. CASE GetClusterHost(c)
  BY <1>1, <1>2, <1>6, OneConnection DEF GetClusterHost, Check, Use
<1>7. CASE GetClusterTarget(c)
  BY <1>1, <1>2, <1>7, OneConnection DEF GetClusterTarget, Check, Use
<1>8. CASE GetClusterHostname(c)
  BY <1>1, <1>2, <1>8, OneConnection DEF GetClusterHostname, Check, Use
<1>9. CASE DialPeer(c)
  BY <1>1, <1>2, <1>9, OneConnection DEF DialPeer
<1>10. CASE Request(c)
  BY <1>1, <1>2, <1>10, OneConnection DEF Request, IngressGoes
<1>11. CASE Response(c)
  BY <1>1, <1>2, <1>11, OneConnection DEF Response
<1>12. CASE EgressEnds(c)
  BY <1>1, <1>2, <1>12, OneConnection DEF EgressEnds
<1>13. QED
  BY <1>3, <1>4, <1>5, <1>6, <1>7, <1>8, <1>9, <1>10, <1>11, <1>12 DEF Egress

LEMMA IngressPreserves ==
    ASSUME TunnelInv, NEW c \in Conns, Ingress(c) \/ IngressEnds(c) \/ IdleTimeout(c)
    PROVE  TunnelInv'
<1>1. TunnelTypeOK'
  BY IngressTypes DEF TunnelInv
<1> USE DEF TunnelInv, TunnelTypeOK, Refuse, Answer, IngressGoes
<1>2. \A d \in Conns \ {c} :
          /\ egress'[d] = egress[d] /\ ingress'[d] = ingress[d] /\ status'[d] = status[d]
          /\ \A s \in {"app", "peer", "service"} : <<d, s>> \in open' <=> <<d, s>> \in open
  BY DEF Ingress, IngressAuthorize, ExportTarget, DialService, hijackConn, IngressEnds, IdleTimeout
<1> USE DEF Ends, SocketsOpen, Waiting, Dialling
<1>3. CASE IngressAuthorize(c)
  BY <1>1, <1>2, <1>3, OneConnection DEF IngressAuthorize
<1>4. CASE ExportTarget(c)
  BY <1>1, <1>2, <1>4, OneConnection DEF ExportTarget
<1>5. CASE DialService(c)
  BY <1>1, <1>2, <1>5, OneConnection DEF DialService
<1>6. CASE hijackConn(c)
  BY <1>1, <1>2, <1>6, OneConnection DEF hijackConn
<1>7. CASE IngressEnds(c)
  BY <1>1, <1>2, <1>7, OneConnection DEF IngressEnds
<1>8. CASE IdleTimeout(c)
  BY <1>1, <1>2, <1>8, OneConnection DEF IdleTimeout
<1>9. QED
  BY <1>3, <1>4, <1>5, <1>6, <1>7, <1>8 DEF Ingress

LEMMA TunnelUnchanged ==
    ASSUME TunnelInv, UNCHANGED tunnelVars
    PROVE  TunnelInv'
  BY DEF TunnelInv, TunnelTypeOK, Ends, SocketsOpen, tunnelVars

LEMMA TunnelStep == TunnelInv /\ [DataPathNext]_dataPathVars => TunnelInv'
<1> SUFFICES ASSUME TunnelInv, [DataPathNext]_dataPathVars PROVE TunnelInv'
  OBVIOUS
<1>1. ASSUME NEW c \in Conns, SetUp(c) PROVE TunnelInv'
  BY <1>1, EgressPreserves, IngressPreserves DEF SetUp
<1>2. ASSUME NEW c \in Conns, ForwardingEnds(c) PROVE TunnelInv'
  BY <1>2, EgressPreserves, IngressPreserves DEF ForwardingEnds
<1>3. CASE ClustersChange
  BY <1>3, ClustersTypes DEF ClustersChange, ChangePeers, ChangeExports, TunnelInv, Ends, SocketsOpen
<1>4. ASSUME NEW f \in 1..2, ForwarderEnds(f) PROVE TunnelInv'
  BY <1>4, EgressPreserves, IngressPreserves DEF ForwarderEnds, Running
<1>5. ASSUME NEW f \in 1..2, NEW d \in Bytes!Directions, Forward(f, d) PROVE TunnelInv'
  BY <1>5, TunnelUnchanged DEF Forward
<1>6. ASSUME NEW d \in Bytes!Directions, EndSends(d) \/ EndReceives(d) PROVE TunnelInv'
  BY <1>6, TunnelUnchanged DEF EndSends, EndReceives
<1>7. CASE NetworkLoses
  BY <1>7, TunnelUnchanged DEF NetworkLoses
<1>8. CASE UNCHANGED dataPathVars
  BY <1>8, TunnelUnchanged DEF dataPathVars
<1>9. QED
  BY <1>1, <1>2, <1>3, <1>4, <1>5, <1>6, <1>7, <1>8 DEF DataPathNext

LEMMA TunnelInitial == DataPathInit => TunnelInv
  BY DEF DataPathInit, TunnelInit, TunnelInv, TunnelTypeOK, Ends, SocketsOpen, Waiting, Dialling

(* A client's connection is only forwarded into a tunnel that the other    *)
(* data plane has accepted and connected to the service                    *)
(* (initiateEgressConnection, routeIngress), for any number of connections *)
(* and whatever happens to the clusters meanwhile.                         *)
THEOREM TunnelsConnected == DataPathSpec => []ForwardedToService
<1>1. TunnelInv => ForwardedToService
  BY DEF TunnelInv, TunnelTypeOK, Ends, SocketsOpen, ForwardedToService
<1>2. QED
  BY <1>1, TunnelInitial, TunnelStep, PTL DEF DataPathSpec
-------------------------------------------------------------------------------
Held(f, d) == IF at[f][d] = "write" THEN 1 ELSE 0

(* What became of the data of a direction that was not lost. *)
Kept(d) == delivered[d] + queue[0][d] + queue[1][d] + queue[2][d] + Held(1, d) + Held(2, d)

BytesTypes ==
    /\ queue \in [0..2 -> [{"right", "left"} -> 0..Capacity]]
    /\ fin \in [0..2 -> SUBSET {"right", "left"}]
    /\ shut \in [0..2 -> SUBSET {"right", "left"}]
    /\ reset \subseteq 0..2
    /\ at \in [1..2 -> [{"right", "left"} -> {"loop", "read", "write", "done"}]]
    /\ closeSignal \subseteq 1..2
    /\ closed \subseteq closeSignal
    /\ sent \in [{"right", "left"} -> Nat]
    /\ delivered \in [{"right", "left"} -> Nat]
    /\ sent["right"] <= ClientData /\ sent["left"] <= ServiceData

NothingInvented == \A d \in {"right", "left"} : Kept(d) <= sent[d]

(* While both ends are open nothing ends. *)
AllOpen ==
    "right" \notin fin[0] /\ "left" \notin fin[2] =>
        /\ fin = [k \in 0..2 |-> {}] /\ shut = [k \in 0..2 |-> {}]
        /\ reset = {} /\ closeSignal = {}
        /\ \A f \in 1..2, d \in {"right", "left"} : at[f][d] # "done"

(* While the service is silent, the end comes from the client and goes     *)
(* from one forwarder to the next, behind the data.                        *)
Silent == sent["left"] = 0 /\ "left" \notin fin[2]

EndFollows(f) ==
    /\ f \in closeSignal => at[f]["right"] = "done" /\ "right" \in fin[f - 1] /\ queue[f - 1]["right"] = 0
    /\ f \in closed => at[f]["left"] = "done"
    /\ "right" \in fin[f] <=> f \in closed
    /\ "right" \in shut[f - 1] => f \in closed
    /\ at[f]["left"] # "write"

DataFirst ==
    Silent =>
        /\ reset = {}
        /\ \A k \in 0..2 : queue[k]["left"] = 0
        /\ EndFollows(1) /\ EndFollows(2)
        /\ "left" \in fin[1] => 2 \in closed
        /\ "right" \notin shut[2]
        /\ Kept("right") = sent["right"]

DoneSignalled == \A f \in 1..2, d \in {"right", "left"} : at[f][d] = "done" => f \in closeSignal

BytesInv == BytesTypes /\ DoneSignalled /\ NothingInvented /\ AllOpen /\ DataFirst

BytesNext ==
    \/ \E f \in 1..2 : Bytes!CloseConnections(f)
    \/ \E f \in 1..2, d \in {"right", "left"} : Bytes!Goroutine(f, d)
    \/ \E d \in {"right", "left"} : Bytes!Send(d) \/ Bytes!HalfClose(d) \/ Bytes!Close(d) \/ Bytes!Receive(d)
    \/ \E k \in 0..2, d \in {"right", "left"} : Bytes!Lose(k, d)
-------------------------------------------------------------------------------
(* What the operations on connections do, one direction of one connection  *)
(* at a time.                                                              *)
OthersKept(k, d) ==
    \A j \in 0..2, e \in {"right", "left"} : <<j, e>> # <<k, d>> => queue'[j][e] = queue[j][e]

Queues == queue \in [0..2 -> [{"right", "left"} -> 0..Capacity]]

LEMMA WriteEffect ==
    ASSUME BytesTypes, NEW k \in 0..2, NEW d \in {"right", "left"}, Bytes!Write(k, d)
    PROVE  /\ Queues' /\ OthersKept(k, d) /\ reset' \subseteq 0..2 /\ k \notin reset
           /\ \/ d \in shut[k] /\ queue' = queue /\ reset' = reset \cup {k}
              \/ d \notin shut[k] /\ queue'[k][d] = queue[k][d] + 1 /\ reset' = reset
           /\ UNCHANGED <<fin, shut>>
<1> USE DEF BytesTypes, Queues, OthersKept, Bytes!Write
<1>0. Capacity \in Nat
  BY DataAssumption
<1>1. CASE d \in shut[k]
  <2>1. queue' = queue /\ reset' = reset \cup {k} /\ k \notin reset /\ UNCHANGED <<fin, shut>>
    BY <1>1
  <2>2. QED
    BY <1>1, <2>1
<1>2. CASE d \notin shut[k]
  <2>1. /\ queue' = [queue EXCEPT ![k][d] = queue[k][d] + 1] /\ queue[k][d] < Capacity
        /\ reset' = reset /\ k \notin reset /\ UNCHANGED <<fin, shut>>
    BY <1>2
  <2>2. queue[k][d] \in 0..Capacity
    OBVIOUS
  <2>3. queue[k][d] + 1 \in 0..Capacity
    BY <1>0, <2>1, <2>2
  <2>4. QED
    BY <1>2, <2>1, <2>3
<1>3. QED
  BY <1>1, <1>2

LEMMA TakeEffect ==
    ASSUME BytesTypes, NEW k \in 0..2, NEW d \in {"right", "left"}, Bytes!Take(k, d)
    PROVE  /\ Queues' /\ OthersKept(k, d)
           /\ queue[k][d] > 0 /\ queue'[k][d] = queue[k][d] - 1
           /\ UNCHANGED <<fin, shut, reset>>
<1> USE DEF BytesTypes, Queues, OthersKept, Bytes!Take
<1>1. queue[k][d] \in 0..Capacity /\ Capacity \in Nat
  BY DataAssumption
<1>2. queue[k][d] - 1 \in 0..Capacity
  BY <1>1
<1>3. QED
  BY <1>2

LEMMA GotoEffect ==
    ASSUME BytesTypes, NEW f \in 1..2, NEW d \in {"right", "left"},
           NEW l \in {"loop", "read", "write", "done"}, Bytes!Goto(f, d, l)
    PROVE  /\ at' \in [1..2 -> [{"right", "left"} -> {"loop", "read", "write", "done"}]]
           /\ at'[f][d] = l
           /\ \A g \in 1..2, e \in {"right", "left"} : <<g, e>> # <<f, d>> => at'[g][e] = at[g][e]
  BY DEF BytesTypes, Bytes!Goto

(* A connection is closed with data that were not read. *)
Unread(k, directions) ==
    ("left" \in directions[k] /\ queue[k]["right"] > 0) \/ ("right" \in directions[k] /\ queue[k]["left"] > 0)

LEMMA CloseEffect ==
    ASSUME BytesTypes, NEW directions \in [0..2 -> SUBSET {"right", "left"}], Bytes!CloseEnds(directions)
    PROVE  /\ fin' \in [0..2 -> SUBSET {"right", "left"}]
           /\ shut' \in [0..2 -> SUBSET {"right", "left"}]
           /\ reset' \subseteq 0..2 /\ queue' = queue
           /\ \A k \in 0..2 :
                /\ fin'[k] = fin[k] \cup directions[k]
                /\ "right" \in shut'[k] <=> "right" \in shut[k] \/ "left" \in directions[k]
                /\ "left" \in shut'[k] <=> "left" \in shut[k] \/ "right" \in directions[k]
                /\ k \in reset' <=> k \in reset \/ Unread(k, directions)
<1>1. /\ fin' = [k \in 0..2 |-> fin[k] \cup directions[k]]
      /\ shut' = [k \in 0..2 |-> shut[k] \cup {Bytes!Opposite(d) : d \in directions[k]}]
      /\ reset' = reset \cup {k \in 0..2 : \E d \in {Bytes!Opposite(e) : e \in directions[k]} : queue[k][d] > 0}
      /\ queue' = queue
  BY DEF Bytes!CloseEnds, Bytes!Connections
<1>2. \A k \in 0..2 : /\ {Bytes!Opposite(d) : d \in directions[k]} \subseteq {"right", "left"}
                      /\ "right" \in {Bytes!Opposite(d) : d \in directions[k]} <=> "left" \in directions[k]
                      /\ "left" \in {Bytes!Opposite(d) : d \in directions[k]} <=> "right" \in directions[k]
  BY DEF Bytes!Opposite
<1>3. \A k \in 0..2 : k \in reset' <=>
          k \in reset \/ \E d \in {Bytes!Opposite(e) : e \in directions[k]} : queue[k][d] > 0
  BY <1>1 DEF BytesTypes
<1>4. ASSUME NEW k \in 0..2
      PROVE  k \in reset' <=> k \in reset \/ Unread(k, directions)
  <2>1. {Bytes!Opposite(e) : e \in directions[k]} \subseteq {"right", "left"}
    BY <1>2
  <2>2. (\E d \in {Bytes!Opposite(e) : e \in directions[k]} : queue[k][d] > 0) <=> Unread(k, directions)
    BY <1>2, <2>1 DEF Unread
  <2>3. QED
    BY <1>3, <2>2
<1>5. reset' \subseteq 0..2
  <2>1. {k \in 0..2 : \E d \in {Bytes!Opposite(e) : e \in directions[k]} : queue[k][d] > 0} \subseteq 0..2
    BY Zenon
  <2>2. QED
    BY <1>1, <2>1, Zenon DEF BytesTypes
<1>6. QED
  BY <1>1, <1>2, <1>4, <1>5 DEF BytesTypes
-------------------------------------------------------------------------------
(* The connections that a goroutine reads and writes. *)
LEMMA InOut ==
    /\ Bytes!In(1, "right") = 0 /\ Bytes!Out(1, "right") = 1
    /\ Bytes!In(2, "right") = 1 /\ Bytes!Out(2, "right") = 2
    /\ Bytes!In(1, "left") = 1 /\ Bytes!Out(1, "left") = 0
    /\ Bytes!In(2, "left") = 2 /\ Bytes!Out(2, "left") = 1
  BY DEF Bytes!In, Bytes!Out, Bytes!Opposite

LEMMA EndsAre ==
    /\ Bytes!First("right") = 0 /\ Bytes!Last("right") = 2
    /\ Bytes!First("left") = 2 /\ Bytes!Last("left") = 0
    /\ Bytes!Opposite("right") = "left" /\ Bytes!Opposite("left") = "right"
  BY DEF Bytes!First, Bytes!Last, Bytes!Opposite

(* A goroutine at the top of its loop, or at a read that returns nothing. *)
LEMMA LoopPreserves ==
    ASSUME BytesInv, NEW f \in 1..2, NEW d \in {"right", "left"},
           Bytes!CheckSignal(f, d) \/ Bytes!ReadTimeout(f, d)
    PROVE  BytesInv'
<1>1. PICK l \in {"loop", "read", "done"} :
          /\ Bytes!Goto(f, d, l) /\ at[f][d] \in {"loop", "read"}
          /\ l = "done" => f \in closeSignal
          /\ UNCHANGED <<queue, fin, shut, reset, closeSignal, closed, sent, delivered>>
  BY DEF Bytes!CheckSignal, Bytes!ReadTimeout, Bytes!netVars, Bytes!endVars
<1>2. /\ at' \in [1..2 -> [{"right", "left"} -> {"loop", "read", "write", "done"}]]
      /\ at'[f][d] = l
      /\ \A g \in 1..2, e \in {"right", "left"} : <<g, e>> # <<f, d>> => at'[g][e] = at[g][e]
  BY <1>1, GotoEffect DEF BytesInv
<1>3. BytesTypes' /\ DoneSignalled' /\ AllOpen' /\ \A e \in {"right", "left"} : Kept(e)' = Kept(e)
  BY <1>1, <1>2 DEF BytesInv, BytesTypes, DoneSignalled, AllOpen, Kept, Held
<1>4. NothingInvented' /\ DataFirst'
  BY <1>1, <1>2, <1>3 DEF BytesInv, BytesTypes, NothingInvented, DataFirst, EndFollows, Silent
<1>5. QED
  BY <1>3, <1>4 DEF BytesInv

(* A goroutine that reads data, and then writes it. *)
LEMMA ReadPreserves ==
    ASSUME BytesInv, NEW f \in 1..2, NEW d \in {"right", "left"}, Bytes!ReadData(f, d)
    PROVE  BytesInv'
<1> DEFINE k == Bytes!In(f, d)
<1>1. /\ Bytes!Take(k, d) /\ Bytes!Goto(f, d, "write") /\ at[f][d] = "read"
      /\ k \in 0..2 /\ (d = "right" => k = f - 1)
      /\ UNCHANGED <<closeSignal, closed, sent, delivered>>
  BY InOut DEF Bytes!ReadData, Bytes!endVars
<1> HIDE DEF k
<1>2. /\ at' \in [1..2 -> [{"right", "left"} -> {"loop", "read", "write", "done"}]]
      /\ at'[f][d] = "write"
      /\ \A g \in 1..2, e \in {"right", "left"} : <<g, e>> # <<f, d>> => at'[g][e] = at[g][e]
      /\ Queues' /\ OthersKept(k, d)
      /\ queue[k][d] > 0 /\ queue'[k][d] = queue[k][d] - 1
      /\ UNCHANGED <<fin, shut, reset>>
  BY <1>1, GotoEffect, TakeEffect DEF BytesInv
<1>3. BytesTypes' /\ DoneSignalled' /\ AllOpen' /\ \A e \in {"right", "left"} : Kept(e)' = Kept(e)
  BY <1>1, <1>2 DEF BytesInv, BytesTypes, Queues, DoneSignalled, AllOpen, Kept, Held, OthersKept
<1>4. NothingInvented' /\ DataFirst'
  BY <1>1, <1>2, <1>3 DEF BytesInv, BytesTypes, OthersKept, NothingInvented, DataFirst, EndFollows, Silent
<1>5. QED
  BY <1>3, <1>4 DEF BytesInv

LEMMA WritePreserves ==
    ASSUME BytesInv, NEW f \in 1..2, NEW d \in {"right", "left"}, Bytes!WriteData(f, d)
    PROVE  BytesInv'
<1> DEFINE k == Bytes!Out(f, d)
<1>1. /\ Bytes!Write(k, d) /\ Bytes!Goto(f, d, "loop") /\ at[f][d] = "write"
      /\ k \in 0..2 /\ (d = "right" => k = f)
      /\ UNCHANGED <<closeSignal, closed, sent, delivered>>
  BY InOut DEF Bytes!WriteData, Bytes!endVars
<1> HIDE DEF k
<1>2. /\ at' \in [1..2 -> [{"right", "left"} -> {"loop", "read", "write", "done"}]]
      /\ at'[f][d] = "loop"
      /\ \A g \in 1..2, e \in {"right", "left"} : <<g, e>> # <<f, d>> => at'[g][e] = at[g][e]
      /\ Queues' /\ OthersKept(k, d) /\ reset' \subseteq 0..2 /\ k \notin reset
      /\ \/ d \in shut[k] /\ queue' = queue /\ reset' = reset \cup {k}
         \/ d \notin shut[k] /\ queue'[k][d] = queue[k][d] + 1 /\ reset' = reset
      /\ UNCHANGED <<fin, shut>>
  BY <1>1, GotoEffect, WriteEffect DEF BytesInv
<1>3. /\ BytesTypes' /\ DoneSignalled' /\ AllOpen'
      /\ \A e \in {"right", "left"} :
             Kept(e) \in Int /\ Kept(e)' \in Int /\ Kept(e)' <= Kept(e) /\ (reset' = reset => Kept(e)' = Kept(e))
  BY <1>1, <1>2 DEF BytesInv, BytesTypes, Queues, DoneSignalled, AllOpen, Kept, Held, OthersKept
<1>4. NothingInvented'
  BY <1>1, <1>3 DEF BytesInv, BytesTypes, NothingInvented
<1>5. ASSUME Silent PROVE d = "right" /\ k = f /\ {f, f + 1} \cap closeSignal = {} /\ d \notin shut[k]
  BY <1>1, <1>5 DEF BytesInv, BytesTypes, DataFirst, EndFollows
<1>6. DataFirst'
  BY <1>1, <1>2, <1>3, <1>5 DEF BytesInv, BytesTypes, DataFirst, EndFollows, OthersKept, Silent
<1>7. QED
  BY <1>3, <1>4, <1>6 DEF BytesInv

(* A goroutine that ends by itself: the end of the data, or an error. *)
LEMMA EndPreserves ==
    ASSUME BytesInv, NEW f \in 1..2, NEW d \in {"right", "left"}, Bytes!ReadEnds(f, d) \/ Bytes!WriteFails(f, d)
    PROVE  BytesInv'
<1> DEFINE k == Bytes!In(f, d)
<1>1. /\ Bytes!Goto(f, d, "done") /\ at[f][d] \in {"read", "write"} /\ closeSignal' = closeSignal \cup {f}
      /\ k \in 0..2 /\ (d = "right" => k = f - 1) /\ (d = "left" => k = f)
      /\ reset = {} => at[f][d] = "read" /\ queue[k][d] = 0 /\ d \in fin[k]
      /\ UNCHANGED <<queue, fin, shut, reset, closed, sent, delivered>>
  BY InOut DEF Bytes!ReadEnds, Bytes!WriteFails, Bytes!netVars, Bytes!endVars
<1> HIDE DEF k
<1>2. /\ at' \in [1..2 -> [{"right", "left"} -> {"loop", "read", "write", "done"}]]
      /\ at'[f][d] = "done"
      /\ \A g \in 1..2, e \in {"right", "left"} : <<g, e>> # <<f, d>> => at'[g][e] = at[g][e]
  BY <1>1, GotoEffect DEF BytesInv
<1>3. BytesTypes' /\ DoneSignalled'
  BY <1>1, <1>2 DEF BytesInv, BytesTypes, DoneSignalled
<1>4. AllOpen'
  BY <1>1 DEF BytesInv, AllOpen
<1>5. \A e \in {"right", "left"} :
          /\ Kept(e) \in Int /\ Kept(e)' \in Int /\ Kept(e)' <= Kept(e)
          /\ at[f][d] = "read" => Kept(e)' = Kept(e)
  BY <1>1, <1>2 DEF BytesInv, BytesTypes, Kept, Held
<1>6. NothingInvented'
  BY <1>1, <1>5 DEF BytesInv, BytesTypes, NothingInvented
<1>7. ASSUME Silent PROVE d = "right" /\ at[f][d] = "read" /\ queue[f - 1][d] = 0 /\ d \in fin[f - 1]
  <2>1. at[f][d] = "read" /\ queue[k][d] = 0 /\ d \in fin[k]
    BY <1>1, <1>7 DEF BytesInv, DataFirst
  <2>2. "left" \in fin[1] => at[1]["left"] = "done"
    BY <1>7 DEF BytesInv, BytesTypes, DataFirst, EndFollows
  <2>3. QED
    BY <1>1, <1>7, <2>1, <2>2 DEF Silent
<1>8. DataFirst'
  BY <1>1, <1>2, <1>5, <1>7 DEF BytesInv, BytesTypes, DataFirst, EndFollows, Silent
<1>9. QED
  BY <1>3, <1>4, <1>6, <1>8 DEF BytesInv

(* Nothing is kept or lost by a step that leaves the data where they are. *)
LEMMA DataUnchanged ==
    ASSUME BytesInv, UNCHANGED <<queue, at, sent, delivered>>
    PROVE  NothingInvented' /\ \A e \in {"right", "left"} : Kept(e)' = Kept(e)
<1>1. \A e \in {"right", "left"} : Kept(e)' = Kept(e)
  BY DEF Kept, Held
<1>2. QED
  BY <1>1 DEF BytesInv, NothingInvented

(* The end of a forwarder. *)
LEMMA CloseConnectionsPreserves ==
    ASSUME BytesInv, NEW f \in 1..2, Bytes!CloseConnections(f)
    PROVE  BytesInv'
<1> DEFINE directions == [k \in 0..2 |-> {d \in {"right", "left"} : k = Bytes!Out(f, d)}]
<1>1. /\ f \notin closed /\ at[f]["right"] = "done" /\ at[f]["left"] = "done"
      /\ closed' = closed \cup {f}
      /\ Bytes!CloseEnds(directions)
      /\ UNCHANGED <<at, closeSignal, sent, delivered>>
  BY DEF Bytes!CloseConnections, Bytes!Directions, Bytes!Connections, Bytes!endVars
<1>2. /\ directions \in [0..2 -> SUBSET {"right", "left"}]
      /\ \A k \in 0..2 : ("right" \in directions[k] <=> k = f) /\ ("left" \in directions[k] <=> k = f - 1)
  BY InOut
<1> HIDE DEF directions
<1>3. /\ fin' \in [0..2 -> SUBSET {"right", "left"}]
      /\ shut' \in [0..2 -> SUBSET {"right", "left"}]
      /\ reset' \subseteq 0..2 /\ queue' = queue
      /\ \A k \in 0..2 :
           /\ fin'[k] = fin[k] \cup directions[k]
           /\ "right" \in shut'[k] <=> "right" \in shut[k] \/ "left" \in directions[k]
           /\ "left" \in shut'[k] <=> "left" \in shut[k] \/ "right" \in directions[k]
           /\ k \in reset' <=> k \in reset \/ Unread(k, directions)
  BY <1>1, <1>2, CloseEffect DEF BytesInv
<1>4. NothingInvented' /\ Kept("right")' = Kept("right")
  BY <1>1, <1>3, DataUnchanged
<1>5. f \in closeSignal /\ ("right" \in fin[0] \/ "left" \in fin[2]) /\ (Silent' => Silent)
  BY <1>1, <1>3 DEF BytesInv, DoneSignalled, AllOpen, Silent
<1>6. BytesTypes' /\ DoneSignalled' /\ AllOpen'
  <2>1. BytesTypes'
    BY <1>1, <1>3, <1>5 DEF BytesInv, BytesTypes
  <2>2. DoneSignalled'
    BY <1>1, <1>3, <1>5 DEF BytesInv, DoneSignalled
  <2>3. AllOpen'
    BY <1>1, <1>3, <1>5 DEF BytesInv, AllOpen
  <2> QED BY <2>1, <2>2, <2>3
<1>7. ASSUME Silent PROVE reset' = {}
  <2>1. \A k \in 0..2 : ~Unread(k, directions)
    BY <1>2, <1>5, <1>7 DEF BytesInv, BytesTypes, DataFirst, EndFollows, Unread
  <2>2. QED
    BY <1>3, <1>7, <2>1 DEF BytesInv, DataFirst
<1>8. DataFirst'
  BY <1>1, <1>2, <1>3, <1>4, <1>5, <1>7 DEF BytesInv, BytesTypes, DataFirst, EndFollows
<1>9. QED
  BY <1>4, <1>6, <1>8 DEF BytesInv
-------------------------------------------------------------------------------
(* The ends of the tunnel, and the network. *)
LEMMA SendPreserves ==
    ASSUME BytesInv, NEW d \in {"right", "left"}, Bytes!Send(d)
    PROVE  BytesInv'
<1> DEFINE k == Bytes!First(d)
<1>1. /\ d \notin fin[k] /\ sent[d] < Bytes!MaxData(d) /\ sent' = [sent EXCEPT ![d] = @ + 1]
      /\ Bytes!Write(k, d)
      /\ k \in 0..2 /\ (d = "right" => k = 0) /\ (d = "left" => k = 2)
      /\ UNCHANGED <<at, closeSignal, closed, delivered>>
  BY EndsAre DEF Bytes!Send
<1> HIDE DEF k
<1>2. /\ Queues' /\ OthersKept(k, d) /\ reset' \subseteq 0..2 /\ k \notin reset
      /\ \/ d \in shut[k] /\ queue' = queue /\ reset' = reset \cup {k}
         \/ d \notin shut[k] /\ queue'[k][d] = queue[k][d] + 1 /\ reset' = reset
      /\ UNCHANGED <<fin, shut>>
  BY <1>1, WriteEffect DEF BytesInv
<1>3. /\ sent' \in [{"right", "left"} -> Nat] /\ sent'["right"] <= ClientData /\ sent'["left"] <= ServiceData
      /\ sent[d] \in Nat /\ sent'[d] = sent[d] + 1 /\ \A e \in {"right", "left"} \ {d} : sent'[e] = sent[e]
  BY <1>1, DataAssumption DEF BytesInv, BytesTypes, Bytes!MaxData
<1>4. BytesTypes' /\ DoneSignalled' /\ AllOpen'
  BY <1>1, <1>2, <1>3 DEF BytesInv, BytesTypes, Queues, DoneSignalled, AllOpen
<1>5. /\ \A e \in {"right", "left"} : Kept(e) \in Int /\ sent[e] \in Int
      /\ \A e \in {"right", "left"} \ {d} : Kept(e)' = Kept(e)
      /\ Kept(d)' = Kept(d) \/ Kept(d)' = Kept(d) + 1
      /\ reset' = reset => Kept(d)' = Kept(d) + 1
  BY <1>1, <1>2 DEF Kept, Held, OthersKept, BytesInv, BytesTypes
<1>6. NothingInvented'
  BY <1>3, <1>5 DEF BytesInv, NothingInvented
<1>7. ASSUME Silent' PROVE Silent /\ d = "right" /\ 1 \notin closeSignal /\ d \notin shut[0]
  <2>1. Silent /\ d = "right"
    BY <1>2, <1>3, <1>7 DEF Silent, BytesInv, BytesTypes
  <2>2. QED
    BY <1>1, <2>1 DEF BytesInv, BytesTypes, DataFirst, EndFollows
<1>8. DataFirst'
  BY <1>1, <1>2, <1>3, <1>5, <1>7 DEF BytesInv, BytesTypes, DataFirst, EndFollows, OthersKept
<1>9. QED
  BY <1>4, <1>6, <1>8 DEF BytesInv

LEMMA HalfClosePreserves ==
    ASSUME BytesInv, NEW d \in {"right", "left"}, Bytes!HalfClose(d)
    PROVE  BytesInv'
<1> DEFINE k == Bytes!First(d)
<1>1. /\ fin' = [fin EXCEPT ![k] = @ \cup {d}]
      /\ k \in 0..2 /\ (d = "right" => k = 0) /\ (d = "left" => k = 2)
      /\ UNCHANGED <<queue, shut, reset, at, closeSignal, closed, sent, delivered>>
  BY EndsAre DEF Bytes!HalfClose, Bytes!endVars
<1> HIDE DEF k
<1>2. /\ fin' \in [0..2 -> SUBSET {"right", "left"}]
      /\ fin'[k] = fin[k] \cup {d} /\ \A j \in 0..2 \ {k} : fin'[j] = fin[j]
  BY <1>1 DEF BytesInv, BytesTypes
<1>3. NothingInvented' /\ Kept("right")' = Kept("right")
  BY <1>1, DataUnchanged
<1>4. BytesTypes' /\ DoneSignalled' /\ AllOpen' /\ (Silent' => Silent /\ d = "right")
  BY <1>1, <1>2 DEF BytesInv, BytesTypes, DoneSignalled, AllOpen, Silent
<1>5. DataFirst'
  BY <1>1, <1>2, <1>3, <1>4 DEF BytesInv, BytesTypes, DataFirst, EndFollows
<1>6. QED
  BY <1>3, <1>4, <1>5 DEF BytesInv

LEMMA ClosePreserves ==
    ASSUME BytesInv, NEW d \in {"right", "left"}, Bytes!Close(d)
    PROVE  BytesInv'
<1> DEFINE first == Bytes!First(d)
           directions == [k \in 0..2 |-> IF k = first THEN {d} ELSE {}]
<1>1. /\ first \in 0..2 /\ (d = "right" => first = 0) /\ (d = "left" => first = 2)
      /\ Bytes!CloseEnds(directions) /\ UNCHANGED <<at, closeSignal, closed, sent, delivered>>
  BY EndsAre DEF Bytes!Close, Bytes!Connections, Bytes!endVars
<1> HIDE DEF first
<1>2. /\ directions \in [0..2 -> SUBSET {"right", "left"}]
      /\ \A k \in 0..2, e \in {"right", "left"} : e \in directions[k] <=> k = first /\ e = d
  OBVIOUS
<1> HIDE DEF directions
<1>3. /\ fin' \in [0..2 -> SUBSET {"right", "left"}]
      /\ shut' \in [0..2 -> SUBSET {"right", "left"}]
      /\ reset' \subseteq 0..2 /\ queue' = queue
      /\ \A k \in 0..2 :
           /\ fin'[k] = fin[k] \cup directions[k]
           /\ "right" \in shut'[k] <=> "right" \in shut[k] \/ "left" \in directions[k]
           /\ "left" \in shut'[k] <=> "left" \in shut[k] \/ "right" \in directions[k]
           /\ k \in reset' <=> k \in reset \/ Unread(k, directions)
  BY <1>1, <1>2, CloseEffect DEF BytesInv
<1>4. NothingInvented' /\ Kept("right")' = Kept("right")
  BY <1>1, <1>3, DataUnchanged
<1>5. BytesTypes' /\ DoneSignalled' /\ AllOpen' /\ (Silent' => Silent /\ d = "right")
  BY <1>1, <1>2, <1>3 DEF BytesInv, BytesTypes, DoneSignalled, AllOpen, Silent
<1>6. ASSUME Silent, d = "right" PROVE reset' = {}
  <2>1. \A k \in 0..2 : ~Unread(k, directions)
    BY <1>1, <1>2, <1>6 DEF BytesInv, DataFirst, Unread
  <2>2. QED
    BY <1>3, <1>6, <2>1 DEF BytesInv, DataFirst
<1>7. DataFirst'
  BY <1>1, <1>2, <1>3, <1>4, <1>5, <1>6 DEF BytesInv, BytesTypes, DataFirst, EndFollows
<1>8. QED
  BY <1>4, <1>5, <1>7 DEF BytesInv

LEMMA ReceivePreserves ==
    ASSUME BytesInv, NEW d \in {"right", "left"}, Bytes!Receive(d)
    PROVE  BytesInv'
<1> DEFINE k == Bytes!Last(d)
<1>1. /\ Bytes!Take(k, d) /\ delivered' = [delivered EXCEPT ![d] = @ + 1]
      /\ k \in 0..2 /\ (d = "right" => k = 2) /\ (d = "left" => k = 0)
      /\ UNCHANGED <<at, closeSignal, closed, sent>>
  BY EndsAre DEF Bytes!Receive
<1> HIDE DEF k
<1>2. /\ Queues' /\ OthersKept(k, d)
      /\ queue[k][d] > 0 /\ queue'[k][d] = queue[k][d] - 1
      /\ UNCHANGED <<fin, shut, reset>>
  BY <1>1, TakeEffect DEF BytesInv
<1>3. /\ delivered' \in [{"right", "left"} -> Nat] /\ delivered'[d] = delivered[d] + 1
      /\ \A e \in {"right", "left"} \ {d} : delivered'[e] = delivered[e]
  BY <1>1 DEF BytesInv, BytesTypes
<1>4. BytesTypes' /\ DoneSignalled' /\ AllOpen' /\ \A e \in {"right", "left"} : Kept(e)' = Kept(e)
  BY <1>1, <1>2, <1>3 DEF BytesInv, BytesTypes, Queues, DoneSignalled, AllOpen, Kept, Held, OthersKept
<1>5. NothingInvented' /\ DataFirst'
  BY <1>1, <1>2, <1>4 DEF BytesInv, BytesTypes, NothingInvented, DataFirst, EndFollows, OthersKept, Silent
<1>6. QED
  BY <1>4, <1>5 DEF BytesInv

LEMMA LosePreserves ==
    ASSUME BytesInv, NEW k \in 0..2, NEW d \in {"right", "left"}, Bytes!Lose(k, d)
    PROVE  BytesInv'
<1>1. /\ k \in reset /\ queue' = [queue EXCEPT ![k][d] = 0]
      /\ UNCHANGED <<fin, shut, reset, at, closeSignal, closed, sent, delivered>>
  BY DEF Bytes!Lose, Bytes!endVars
<1>2. Queues' /\ OthersKept(k, d) /\ queue'[k][d] = 0
  BY <1>1, DataAssumption DEF BytesInv, BytesTypes, Queues, OthersKept
<1>3. BytesTypes' /\ DoneSignalled'
  BY <1>1, <1>2 DEF BytesInv, BytesTypes, Queues, DoneSignalled
<1>4. \A e \in {"right", "left"} : Kept(e)' <= Kept(e)
  BY <1>1, <1>2 DEF Kept, Held, OthersKept, BytesInv, BytesTypes
<1>5. NothingInvented'
  <2>1. \A e \in {"right", "left"} : Kept(e) \in Int /\ Kept(e)' \in Int /\ sent[e] \in Int /\ sent'[e] = sent[e]
    BY <1>1, <1>3 DEF Kept, Held, BytesInv, BytesTypes
  <2>2. QED
    BY <1>4, <2>1 DEF BytesInv, NothingInvented
<1>6. AllOpen' /\ DataFirst'
  BY <1>1 DEF BytesInv, AllOpen, DataFirst, Silent
<1>7. QED
  BY <1>3, <1>5, <1>6 DEF BytesInv

LEMMA BytesUnchanged ==
    ASSUME BytesInv, UNCHANGED bytesVars
    PROVE  BytesInv'
<1>1. UNCHANGED <<queue, fin, shut, reset, at, closeSignal, closed, sent, delivered>>
  BY DEF bytesVars
<1>2. BytesTypes' /\ DoneSignalled' /\ AllOpen'
  BY <1>1 DEF BytesInv, BytesTypes, DoneSignalled, AllOpen
<1>3. DataFirst'
  BY <1>1, DataUnchanged DEF BytesInv, DataFirst, Silent, EndFollows
<1>4. QED
  BY <1>1, <1>2, <1>3, DataUnchanged DEF BytesInv

LEMMA BytesInitial == DataPathInit => BytesInv
<1> SUFFICES ASSUME Bytes!Init PROVE BytesInv
  BY DEF DataPathInit
<1> USE DEF Bytes!Init, Bytes!Connections, Bytes!Directions, Bytes!Forwarders
<1>1. BytesTypes /\ DoneSignalled
  BY DataAssumption DEF BytesTypes, DoneSignalled
<1>2. \A d \in {"right", "left"} : Kept(d) = 0 /\ sent[d] = 0
  BY DEF Kept, Held
<1>3. AllOpen /\ DataFirst
  BY <1>2 DEF AllOpen, DataFirst, EndFollows
<1>4. QED
  BY <1>1, <1>2, <1>3 DEF BytesInv, NothingInvented

LEMMA BytesStep == BytesInv /\ [DataPathNext]_dataPathVars => BytesInv'
<1> SUFFICES ASSUME BytesInv, [DataPathNext]_dataPathVars PROVE BytesInv'
  OBVIOUS
<1> USE DEF Bytes!Directions
<1>1. ASSUME NEW c \in Conns, SetUp(c) \/ ForwardingEnds(c) PROVE BytesInv'
  BY <1>1, BytesUnchanged DEF SetUp, ForwardingEnds
<1>2. CASE ClustersChange
  BY <1>2, BytesUnchanged DEF ClustersChange
<1>3. ASSUME NEW f \in 1..2, ForwarderEnds(f) PROVE BytesInv'
  BY <1>3, CloseConnectionsPreserves DEF ForwarderEnds
<1>4. ASSUME NEW f \in 1..2, NEW d \in {"right", "left"}, Forward(f, d) PROVE BytesInv'
  BY <1>4, LoopPreserves, ReadPreserves, WritePreserves, EndPreserves DEF Forward, Bytes!Goroutine
<1>5. ASSUME NEW d \in {"right", "left"}, EndSends(d) PROVE BytesInv'
  BY <1>5, SendPreserves, HalfClosePreserves, ClosePreserves DEF EndSends
<1>6. ASSUME NEW d \in {"right", "left"}, EndReceives(d) PROVE BytesInv'
  BY <1>6, ReceivePreserves DEF EndReceives
<1>7. CASE NetworkLoses
  BY <1>7, LosePreserves DEF NetworkLoses
<1>8. CASE UNCHANGED dataPathVars
  BY <1>8, BytesUnchanged DEF dataPathVars
<1>9. QED
  BY <1>1, <1>2, <1>3, <1>4, <1>5, <1>6, <1>7, <1>8 DEF DataPathNext

(* closeSignal never cuts off data that a client has sent before it closed *)
(* its connection (peerToWorkload, workloadToPeer), and neither deadlines  *)
(* of reads nor slow readers end a forwarder or reset a connection: for    *)
(* any amount of data, any buffers, and while the tunnel is set up.        *)
THEOREM DataArrives == DataPathSpec => []NothingCutOff
<1>1. BytesInv => NothingCutOff
  <2> SUFFICES ASSUME BytesInv PROVE NothingCutOff
    OBVIOUS
  <2> USE EndsAre
  <2>1. Bytes!OpenStaysOpen
    BY DEF BytesInv, AllOpen, Bytes!OpenStaysOpen, Bytes!Directions
  <2>2. ASSUME Bytes!EndOfData("right"), Silent PROVE delivered["right"] = sent["right"]
    <3>1. "right" \in fin[2] /\ queue[2]["right"] = 0
      BY <2>2 DEF Bytes!EndOfData
    <3>2. 2 \in closeSignal /\ 1 \in closeSignal
      BY <2>2, <3>1 DEF BytesInv, BytesTypes, DataFirst, EndFollows
    <3>3. /\ queue[1]["right"] = 0 /\ queue[0]["right"] = 0
          /\ Held(1, "right") = 0 /\ Held(2, "right") = 0
      BY <2>2, <3>2 DEF BytesInv, DataFirst, EndFollows, Held
    <3>4. QED
      BY <2>2, <3>1, <3>3 DEF BytesInv, BytesTypes, DataFirst, Kept
  <2>3. QED
    BY <2>1, <2>2 DEF NothingCutOff, Bytes!NothingCutOff, Silent
<1>2. QED
  BY <1>1, BytesInitial, BytesStep, PTL DEF DataPathSpec

(* The state of the tunnels and of their data has its type: in particular, *)
(* no more is delivered in a direction than was sent, whatever is reset,   *)
(* and a connection never holds more than its capacity.                    *)
THEOREM DataPathTypeCorrect == DataPathSpec => []DataPathTypeOK
<1>1. DataPathInit => TunnelInv /\ BytesInv
  BY BytesInitial, TunnelInitial DEF DataPathInit
<1>2. BytesInv => Bytes!TypeOK
  <2> SUFFICES ASSUME BytesInv PROVE Bytes!TypeOK
    OBVIOUS
  <2>1. ASSUME NEW d \in {"right", "left"}
        PROVE  delivered[d] \in 0..sent[d] /\ sent[d] \in 0..Bytes!MaxData(d)
    BY DataAssumption DEF BytesInv, BytesTypes, NothingInvented, Kept, Held, Bytes!MaxData
  <2>2. QED
    BY <2>1 DEF BytesInv, BytesTypes, Bytes!TypeOK, Bytes!Connections, Bytes!Directions, Bytes!Forwarders
<1>3. DataPathInit => followed \in Conns \cup {NoConn}
  BY ConnsAssumption DEF DataPathInit
<1>4. followed \in Conns \cup {NoConn} /\ [DataPathNext]_dataPathVars => (followed \in Conns \cup {NoConn})'
  BY DEF DataPathNext, SetUp, ForwardingEnds, ClustersChange, ForwarderEnds, Forward, EndSends, EndReceives,
         NetworkLoses, dataPathVars
<1>5. TunnelInv /\ BytesInv /\ followed \in Conns \cup {NoConn} => DataPathTypeOK
  BY <1>2 DEF DataPathTypeOK, TunnelInv
<1>6. QED
  BY <1>1, <1>3, <1>4, <1>5, TunnelStep, BytesStep, PTL DEF DataPathSpec
===============================================================================
