------------------------------ MODULE GoDataplane ------------------------------
(***************************************************************************)
(* The Go data plane as a whole (cmd/cl-go-dataplane) with the control     *)
(* plane it follows: three fetchers (XDSClient) bring what the xDS manager *)
(* (XDSManager) serves.  The one of listeners calls AddListener and        *)
(* RemoveListener (GoListeners), the others change the map of clusters and *)
(* the TLS configuration (GoConfig), before they fetch again.              *)
(***************************************************************************)
EXTENDS GoListeners

CONSTANTS Clusters, Endpoints,
          MaxChanges, MaxRotations, MaxRestarts, MaxBreaks,
          MaxEvents       \* changes, rotations, restarts, crashes and breaks together

ASSUME DataplaneAssumption ==
    /\ Endpoints \subseteq Nat \ {0}
    /\ MaxChanges \in Nat /\ MaxRotations \in Nat /\ MaxRestarts \in Nat
    /\ MaxBreaks \in Nat /\ MaxEvents \in Nat

VARIABLES fetcher,        \* where the fetchers are (pc of XDSClient)
          stream, clustersReady, news, loneBreak, breaks,
          clusters, tlsConfig, response, left,
          ports, endpoints, certificates, deleted, changes, restarts,
          servedClusters, servedSecrets,  \* caches of the xDS manager; wanted is the third
          topic           \* the kind of resource that changes, for the whole behaviour

Xds == INSTANCE XDSClient WITH pc <- fetcher
Config == INSTANCE GoConfig WITH Absent <- NoPort
Manager == INSTANCE XDSManager
    WITH listeners <- wanted, clusters <- servedClusters, secrets <- servedSecrets

listenerVars == <<resources, pc, todo, current, sendTo, listeners, listenerEnd, go, onlyAdded, crashes>>
xdsVars == <<fetcher, stream, clustersReady, news, loneBreak, breaks>>
configVars == <<clusters, tlsConfig, response, left>>
managerVars == <<wanted, ports, endpoints, certificates, deleted, changes, restarts, servedClusters,
                 servedSecrets>>
dataplaneVars == <<listenerVars, xdsVars, configVars, managerVars, topic>>

DataplaneTypeOK ==
    /\ ListenersTypeOK /\ Xds!TypeOK /\ Manager!TypeOK
    /\ clusters \in [Clusters -> Endpoints \cup {NoPort}]
    /\ tlsConfig \in [Config!Secrets -> Manager!Version \cup {Config!Unset}]

DataplaneInit == ListenersInit /\ Xds!Init /\ Config!Init /\ Manager!Init /\ topic \in Xds!resources

(* The fetchers of clusters and listeners wait for each other; that of     *)
(* secrets does without them, and is followed alone.                       *)
Followed(r) == (r = "secret") = (topic = "secret")
-------------------------------------------------------------------------------
(* The fetchers in runFetcher. *)
Connect(r) ==
    /\ \/ Xds!InitConnect(r) \/ Xds!FetchFails(r)
       \/ r = "cluster" /\ Xds!SignalClusters
       \/ r = "listener" /\ Xds!WaitForClusters
    /\ UNCHANGED <<listenerVars, configVars, managerVars>>

(* The fetchers in fetcher.Run: a response, what is done with it, and Ack. *)
FetchResponse(r) ==
    /\ Xds!Fetch(r)
    /\ CASE r = "listener" -> Fetch /\ UNCHANGED <<configVars, managerVars>>
         [] r = "cluster" -> Config!FetchClusters(servedClusters) /\ UNCHANGED <<listenerVars, managerVars>>
         [] r = "secret" -> Config!FetchSecrets(servedSecrets) /\ UNCHANGED <<listenerVars, managerVars>>

handleListeners == (AddNext \/ AddDone \/ RemoveNext) /\ UNCHANGED configVars
handleClusters == (\E c \in Clusters : Config!AddCluster(c) \/ Config!RemoveCluster(c)) /\ UNCHANGED listenerVars
handleSecrets == (\E s \in Config!Secrets : Config!AddSecret(s)) /\ UNCHANGED listenerVars

Handle(r) ==
    /\ fetcher[r] = "handle"
    /\ CASE r = "listener" -> handleListeners [] r = "cluster" -> handleClusters [] r = "secret" -> handleSecrets
    /\ UNCHANGED <<xdsVars, managerVars>>

ReturnToRun(r) ==
    /\ Xds!Handled(r)
    /\ CASE r = "listener" -> RemoveDone /\ UNCHANGED configVars
         [] r = "cluster" -> Config!ClustersHandled /\ UNCHANGED listenerVars
         [] r = "secret" -> Config!SecretsHandled /\ UNCHANGED listenerVars
    /\ UNCHANGED managerVars

Fetcher(r) ==
    /\ Followed(r)
    /\ Connect(r) \/ FetchResponse(r) \/ Handle(r) \/ ReturnToRun(r)
    /\ UNCHANGED topic

(* CreateListener *)
Listener(g) == Run(g) /\ UNCHANGED <<xdsVars, configVars, managerVars, topic>>

(* The control plane: whatever changes a cache is new to the streams. *)
ControlPlaneUpdates ==
    /\ \/ (\E i \in Imports : Manager!ReconcileImport(i)) /\ Xds!Update("listener")
       \/ (\E c \in Clusters : Manager!ReconcileCluster(c)) /\ Xds!Update("cluster")
       \/ Manager!SetPeerCertificates /\ Xds!Update("secret")
    /\ UNCHANGED <<listenerVars, configVars, topic>>

(* Users change objects, certificates are replaced, connections break, and *)
(* either side crashes.                                                    *)
Environment ==
    \/ /\ \/ topic = "listener" /\ \E i \in Imports : Manager!ChangeImport(i)
          \/ topic = "cluster" /\ \E c \in Clusters : Manager!ChangeCluster(c)
          \/ topic = "secret" /\ Manager!Rotate
       /\ UNCHANGED <<listenerVars, configVars, xdsVars>>
    \/ Xds!Break /\ UNCHANGED <<listenerVars, configVars, managerVars>>
    \/ Manager!Restart /\ Xds!BreakAll /\ UNCHANGED <<listenerVars, configVars, breaks>>
    \/ Crash /\ Xds!Restart /\ Config!Restart /\ UNCHANGED managerVars

DataplaneNext ==
    \/ \E r \in Xds!resources : Fetcher(r)
    \/ \E g \in Goroutines : Listener(g)
    \/ ControlPlaneUpdates
    \/ changes + (certificates - 1) + restarts + crashes + breaks < MaxEvents /\ Environment /\ UNCHANGED topic

(* Goroutines run, and a control plane that is there accepts connections,  *)
(* reconciles and answers.                                                 *)
DataplaneSpec ==
    /\ DataplaneInit /\ [][DataplaneNext]_dataplaneVars
    /\ \A r \in Xds!resources : WF_dataplaneVars(Fetcher(r))
    /\ \A g \in Goroutines : WF_dataplaneVars(Listener(g))
    /\ WF_dataplaneVars(ControlPlaneUpdates)
-------------------------------------------------------------------------------
(* "CreateListener starts a listener to an imported service": the port of  *)
(* every import is served in the end, although streams break together, the *)
(* control plane restarts and the data plane crashes.  Responses only add: *)
(* a listener that takes over a port of another, or that comes back after  *)
(* a response of a new control plane was without it, may find its port in  *)
(* use, and one that is removed too early blocks the fetcher.              *)
ListenersUp ==
    [](onlyAdded /\ ~loneBreak) =>
        \A i \in Imports :
            <>[](ports[i] # NoPort =>
                    \E g \in Goroutines : /\ go[g].at = "serve" /\ go[g].name = i
                                          /\ go[g].port = ports[i])

(* What AddCluster, RemoveCluster and AddSecret leave: in the end the map  *)
(* has exactly the clusters of the peers and exports there are, with their *)
(* endpoints, and the certificate and the CA are those of the last         *)
(* rotation, whatever breaks or crashes; but when the stream of clusters   *)
(* or that of listeners breaks alone, the former may be blocked.           *)
ConfigurationSettles ==
    <>[](IF topic = "secret" THEN \A s \in Config!Secrets : tlsConfig[s] = certificates
         ELSE clusters = endpoints \/ loneBreak)

(* "Delete existing clusters if its not present in the resources fetched": *)
(* a cluster leaves the map, and its connections fail, only when its peer  *)
(* or export was deleted, the data plane crashed, or the control plane was *)
(* restarted; never because of another one.                                *)
StableRoutes ==
    [][\A c \in Clusters : clusters[c] # NoPort /\ clusters'[c] = NoPort =>
            c \in deleted \/ restarts > 0 \/ crashes' > 0]_dataplaneVars
===============================================================================
