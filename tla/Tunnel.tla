-------------------------------- MODULE Tunnel --------------------------------
(***************************************************************************)
(* How a connection to an imported service is set up in the Go data plane: *)
(* the listener of the import in the data plane of the client              *)
(* (serveEgressConnections, initiateEgressConnection) and the server of    *)
(* the gateway it connects to (dataplaneIngressAuthorize, routeIngress),   *)
(* while the fetchers change the maps of clusters of both.                 *)
(*                                                                         *)
(* The decisions of the control planes are those of the modules Egress and *)
(* Ingress, and are any here; the bytes are forwarded as in the module     *)
(* Forwarder.                                                              *)
(***************************************************************************)
EXTENDS Naturals, FiniteSets

CONSTANTS
    Conns,          \* the connections of clients to one listener
    Gateways,       \* the data planes of the peers that export
    Exports         \* the exports of each of them

Route == Gateways \X Exports
NoRoute == <<>>

VARIABLES
    peers,      \* clusters in the client's data plane: the peers
    exports,    \* clusters in the data planes of the peers: their exports
    egress,     \* where the listener, or the goroutine of a connection, is
    grant,      \* the peer, and the export the access token is for
    ingress,    \* where the server's handler of the request is
    status,     \* what the handler answered
    open,       \* the sockets that are open
    panicked    \* a data plane has used a cluster that is gone

tunnelVars == <<peers, exports, egress, grant, ingress, status, open, panicked>>

Sockets == Conns \X {"app", "peer", "service"}

Loop == {"authorize", "host", "useHost"}
Lookups == {"useHost", "useTarget", "useHostname"}

TunnelTypeOK ==
    /\ peers \subseteq Gateways /\ exports \subseteq Route
    /\ egress \in [Conns -> Loop \cup Lookups \cup {"none", "queued", "target", "hostname", "dial",
                                  "request", "response", "forwarding", "failed", "ended"}]
    /\ grant \in [Conns -> Route \cup {NoRoute}]
    /\ ingress \in [Conns -> {"none", "authorize", "target", "useTarget", "dial", "hijack",
                              "forwarding", "refused", "ended"}]
    /\ status \in [Conns -> {"none", "OK", "error"}]
    /\ open \subseteq Sockets
    /\ panicked \in BOOLEAN

TunnelInit ==
    /\ peers = Gateways /\ exports = Route
    /\ egress = [c \in Conns |-> "none"] /\ ingress = [c \in Conns |-> "none"]
    /\ grant = [c \in Conns |-> NoRoute]
    /\ status = [c \in Conns |-> "none"]
    /\ open = {}
    /\ panicked = FALSE

EgressGoes(c, to) == egress' = [egress EXCEPT ![c] = to]
IngressGoes(c, to) == ingress' = [ingress EXCEPT ![c] = to]

\* Clients connect; the connection waits in the queue of the socket.
ClientConnects(c) ==
    /\ egress[c] = "none"
    /\ EgressGoes(c, "queued")
    /\ UNCHANGED <<peers, exports, grant, ingress, status, open, panicked>>

(***************************************************************************)
(* The fetchers of clusters: handleClusters, AddCluster, RemoveCluster.    *)
(***************************************************************************)
handleCluster(clusters, c) == IF c \in clusters THEN clusters \ {c} ELSE clusters \cup {c}

ChangePeers ==
    /\ \E g \in Gateways : peers' = handleCluster(peers, g)
    /\ UNCHANGED <<exports, egress, grant, ingress, status, open, panicked>>

ChangeExports ==
    /\ \E r \in Route : exports' = handleCluster(exports, r)
    /\ UNCHANGED <<peers, egress, grant, ingress, status, open, panicked>>

(***************************************************************************)
(* serveEgressConnections authorizes one connection after the other, and   *)
(* starts a goroutine for each.                                            *)
(***************************************************************************)
\* Mutant of Accept: one connection is served after the other.
AcceptWhenDone(c) ==
    /\ egress[c] = "queued" /\ \A d \in Conns : egress[d] \in {"none", "queued", "failed", "ended"}
    /\ EgressGoes(c, "authorize")
    /\ open' = open \cup {<<c, "app">>}
    /\ UNCHANGED <<peers, exports, grant, ingress, status, panicked>>

Accept(c) ==
    /\ egress[c] = "queued" /\ \A d \in Conns : egress[d] \notin Loop
    /\ EgressGoes(c, "authorize")
    /\ open' = open \cup {<<c, "app">>}
    /\ UNCHANGED <<peers, exports, grant, ingress, status, panicked>>

\* Every error closes the connection of the client, and only that one.
Fail(c) ==
    /\ EgressGoes(c, "failed")
    /\ open' = open \ {<<c, "app">>}

getEgressAuth(c) ==
    /\ egress[c] = "authorize"
    /\ \/ Fail(c) /\ UNCHANGED grant
       \/ \E r \in Route :
            /\ grant' = [grant EXCEPT ![c] = r]
            /\ EgressGoes(c, "host") /\ UNCHANGED open
    /\ UNCHANGED <<peers, exports, ingress, status, panicked>>

\* GetClusterHost, GetClusterTarget and GetClusterHostname look whether the
\* map has the cluster, and then take it from the map.
Check(c, at, use) ==
    /\ egress[c] = at
    /\ IF grant[c][1] \in peers THEN EgressGoes(c, use) /\ UNCHANGED open ELSE Fail(c)
    /\ UNCHANGED <<peers, exports, grant, ingress, status, panicked>>

Use(c, use, next) ==
    /\ egress[c] = use
    /\ EgressGoes(c, next)
    /\ panicked' = (panicked \/ grant[c][1] \notin peers)
    /\ UNCHANGED <<peers, exports, grant, ingress, status, open>>

GetClusterHost(c) == Check(c, "host", "useHost") \/ Use(c, "useHost", "target")
GetClusterTarget(c) == Check(c, "target", "useTarget") \/ Use(c, "useTarget", "hostname")
GetClusterHostname(c) == Check(c, "hostname", "useHostname") \/ Use(c, "useHostname", "dial")

DialPeer(c) ==
    /\ egress[c] = "dial"
    /\ \/ Fail(c)
       \/ EgressGoes(c, "request") /\ open' = open \cup {<<c, "peer">>}
    /\ UNCHANGED <<peers, exports, grant, ingress, status, panicked>>

Request(c) ==
    /\ egress[c] = "request"
    /\ EgressGoes(c, "response")
    /\ IngressGoes(c, "authorize")
    /\ UNCHANGED <<peers, exports, grant, status, open, panicked>>

\* Mutant of Response: the status of the answer is not looked at.
AnyResponse(c) ==
    /\ egress[c] = "response" /\ status[c] # "none"
    /\ EgressGoes(c, "forwarding") /\ UNCHANGED open
    /\ UNCHANGED <<peers, exports, grant, ingress, status, panicked>>

Response(c) ==
    /\ egress[c] = "response" /\ status[c] # "none"
    /\ IF status[c] = "OK" THEN EgressGoes(c, "forwarding") /\ UNCHANGED open ELSE Fail(c)
    /\ UNCHANGED <<peers, exports, grant, ingress, status, panicked>>

\* A forwarder closes both of its connections when it ends.
EgressEnds(c) ==
    /\ egress[c] = "forwarding"
    /\ EgressGoes(c, "ended")
    /\ open' = open \ {<<c, "app">>, <<c, "peer">>}
    /\ UNCHANGED <<peers, exports, grant, ingress, status, panicked>>

(***************************************************************************)
(* The gateway of the peer: dataplaneIngressAuthorize, routeIngress,       *)
(* hijackConn.                                                             *)
(***************************************************************************)
Answer(c, s) == status' = [status EXCEPT ![c] = s]

Refuse(c) == IngressGoes(c, "refused") /\ Answer(c, "error") /\ open' = open \ {<<c, "service">>}

IngressAuthorize(c) ==
    /\ ingress[c] = "authorize"
    /\ \/ Refuse(c)
       \/ IngressGoes(c, "target") /\ UNCHANGED <<status, open>>
    /\ UNCHANGED <<peers, exports, egress, grant, panicked>>

ExportTarget(c) ==
    /\ \/ /\ ingress[c] = "target"
          /\ IF grant[c] \in exports
               THEN IngressGoes(c, "useTarget") /\ UNCHANGED <<status, open>>
               ELSE Refuse(c)
          /\ UNCHANGED panicked
       \/ /\ ingress[c] = "useTarget"
          /\ IngressGoes(c, "dial")
          /\ panicked' = (panicked \/ grant[c] \notin exports)
          /\ UNCHANGED <<status, open>>
    /\ UNCHANGED <<peers, exports, egress, grant>>

DialService(c) ==
    /\ ingress[c] = "dial"
    /\ \/ Refuse(c)
       \/ IngressGoes(c, "hijack") /\ open' = open \cup {<<c, "service">>} /\ UNCHANGED status
    /\ UNCHANGED <<peers, exports, egress, grant, panicked>>

\* A connection that cannot be hijacked is one that is broken, which is an error
\* to the client's side as well.
hijackConn(c) ==
    /\ ingress[c] = "hijack"
    /\ \/ Refuse(c)
       \/ IngressGoes(c, "forwarding") /\ Answer(c, "OK") /\ UNCHANGED open
    /\ UNCHANGED <<peers, exports, egress, grant, panicked>>

IngressEnds(c) ==
    /\ ingress[c] = "forwarding"
    /\ IngressGoes(c, "ended")
    /\ open' = open \ {<<c, "service">>}
    /\ UNCHANGED <<peers, exports, egress, grant, status, panicked>>

\* A refused connection stays open on both sides, until the server has found
\* it idle for IdleTimeout, or the client's side has failed.
IdleTimeout(c) ==
    /\ ingress[c] = "refused" /\ <<c, "peer">> \in open
    /\ open' = open \ {<<c, "peer">>}
    /\ UNCHANGED <<peers, exports, egress, grant, ingress, status, panicked>>

Egress(c) ==
    \/ getEgressAuth(c) \/ GetClusterHost(c) \/ GetClusterTarget(c) \/ GetClusterHostname(c)
    \/ DialPeer(c) \/ Request(c) \/ Response(c)

Ingress(c) == IngressAuthorize(c) \/ ExportTarget(c) \/ DialService(c) \/ hijackConn(c)

-----------------------------------------------------------------------------
\* The connection of a client is forwarded only into a tunnel whose other end
\* has authorized it, has connected to the service of the export that the
\* access token is for, and has answered so.
ForwardedToService ==
    \A c \in Conns : egress[c] = "forwarding" =>
        /\ ingress[c] \in {"forwarding", "ended"}
        /\ {<<c, "app">>, <<c, "peer">>} \subseteq open
        /\ ingress[c] = "forwarding" => <<c, "service">> \in open

\* Every client that connects is served or has its connection closed: no error
\* of another connection, and no change of clusters, ends or blocks the loop,
\* unless it ends the process.
ClientsAnswered ==
    \A c \in Conns : egress[c] = "queued" ~> egress[c] \in {"forwarding", "failed", "ended"} \/ panicked
===============================================================================
