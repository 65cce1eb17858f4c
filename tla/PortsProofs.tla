------------------------------- MODULE PortsProofs -------------------------------
(***************************************************************************)
(* Proofs about the ports of imports: the Go data plane, that listens on   *)
(* them, for any imports, ports, clusters and endpoints, and however often *)
(* the control plane changes and either side restarts; and the port        *)
(* manager, that leases them, for every set of names and every port range. *)
(***************************************************************************)
EXTENDS GoDataplane, PortManager, TLAPS


(* The goroutines that serve a port, or will. *)
Serves(g) == go[g].at \in {"start", "listen", "serve"}

(* How far the fetcher has brought the listeners into line with the        *)
(* response it handles.                                                    *)
Progress ==
    /\ pc \in {"add", "sendAdd"} =>
          \A i \in Imports : resources[i] # NoPort /\ i \notin todo /\ ~(pc = "sendAdd" /\ current = i)
                                => listeners[i] = resources[i]
    /\ pc \in {"remove", "sendRemove"} =>
          \A i \in Imports : resources[i] # NoPort => listeners[i] = resources[i]
    /\ pc = "fetch" => listeners = resources
    /\ \A i \in todo : resources[i] # NoPort
    /\ pc = "sendAdd" => resources[current] # NoPort

(* An import's goroutine serves the port that the map has for it, until    *)
(* the fetcher has told it to end; and it is the only one.                 *)
Serving ==
    /\ \A g \in Goroutines : Serves(g) =>
          /\ go[g].port # NoPort
          /\ listeners[go[g].name] = go[g].port \/ (pc = "sendRemove" /\ current = go[g].name)
    /\ \A g, h \in Goroutines : Serves(g) /\ Serves(h) /\ go[g].name = go[h].name => g = h

(* Every channel in the map, and the one the fetcher sends on, are of a    *)
(* goroutine of that import or of none that still runs.                    *)
Channels ==
    /\ \A g \in Goroutines : go[g].at \in {"listen", "serve"} => listenerEnd[go[g].name] = g
    /\ \A g \in Goroutines : go[g].at = "serve" => go[g].channel = g
    /\ \A i \in Imports : listenerEnd[i] # Nil =>
          LET g == listenerEnd[i] IN go[g].at # "start" /\ (Serves(g) => go[g].name = i)
    /\ pc \in {"sendAdd", "sendRemove"} /\ sendTo # Nil =>
          go[sendTo].at # "start" /\ (Serves(sendTo) => go[sendTo].name = current)

ListenerInv == ListenersTypeOK /\ Progress /\ Serving /\ Channels

(* What users write and the control plane serves is well formed. *)
ServedOK ==
    /\ ports \in [Imports -> Ports \cup {NoPort}] /\ wanted \in [Imports -> Ports \cup {NoPort}]
    /\ endpoints \in [Clusters -> Endpoints \cup {NoPort}]
    /\ servedClusters \in [Clusters -> Endpoints \cup {NoPort}]
    /\ clusters \in [Clusters -> Endpoints \cup {NoPort}]
    /\ response.cluster \in [Clusters -> Endpoints \cup {NoPort}]
    /\ response = [cluster |-> response.cluster, secret |-> response.secret]
    /\ restarts \in Nat /\ deleted \subseteq Clusters

(* While nothing crashes and the control plane runs on, a cluster that was *)
(* not deleted is served wherever it has arrived once.                     *)
RouteInv ==
    restarts = 0 /\ crashes = 0 =>
        \A c \in Clusters \ deleted :
            /\ clusters[c] # NoPort => response.cluster[c] # NoPort
            /\ response.cluster[c] # NoPort => servedClusters[c] # NoPort
            /\ servedClusters[c] # NoPort => endpoints[c] # NoPort
-------------------------------------------------------------------------------
(* A goroutine that is started takes a number that nothing refers to. *)
LEMMA StartedFree ==
    ASSUME NEW goroutines, NEW i, \E g \in Goroutines : Free(g)
    PROVE  \E g \in Goroutines :
              /\ Free(g)
              /\ Started(goroutines, i) =
                    [goroutines EXCEPT ![g] = [at |-> "start", name |-> i, port |-> resources[i], channel |-> Nil]]
  BY DEF Started

(* Starting the goroutine of an import that has none, or whose goroutine e *)
(* has just been told to end.                                              *)
LEMMA StartStep ==
    ASSUME ListenerInv, NEW i \in Imports, resources[i] # NoPort,
           NEW ended \in SUBSET Goroutines, \A e \in ended : go[e].at = "serve",
           \A g \in Goroutines \ ended : Serves(g) => go[g].name # i,
           \A e \in ended : go[e].name = i,
           pc \in {"add", "sendAdd"}, pc = "sendAdd" => current = i,
           pc' = "add", todo' \in {todo, todo \ {i}},
           StartListener(i, [g \in Goroutines |-> IF g \in ended THEN [go[g] EXCEPT !.at = "closing"] ELSE go[g]]),
           sendTo' \in {sendTo, Nil}, current' = current, UNCHANGED <<wanted, resources, onlyAdded, crashes>>
    PROVE  ListenerInv'
<1> DEFINE told == [g \in Goroutines |-> IF g \in ended THEN [go[g] EXCEPT !.at = "closing"] ELSE go[g]]
           new == [at |-> "start", name |-> i, port |-> resources[i], channel |-> Nil]
<1> USE ListenerAssumption DEF NoPort, Nil
<1>1. PICK n \in Goroutines : Free(n) /\ go' = [told EXCEPT ![n] = new]
  BY StartedFree DEF StartListener
<1>2. go \in [Goroutines -> Goroutine] /\ told \in [Goroutines -> Goroutine] /\ new \in Goroutine
  BY DEF ListenerInv, ListenersTypeOK, Goroutine
<1>3. /\ go'[n] = new /\ go[n].at = "gone" /\ n # sendTo /\ \A j \in Imports : listenerEnd[j] # n
      /\ \A g \in ended : g # n /\ go'[g] = [go[g] EXCEPT !.at = "closing"]
      /\ \A g \in Goroutines \ ended : g # n => go'[g] = go[g]
  BY <1>1, <1>2 DEF Free
<1>4. listeners' = [listeners EXCEPT ![i] = resources[i]] /\ listenerEnd' = listenerEnd
  BY DEF StartListener
<1>5. ListenersTypeOK'
  BY <1>1, <1>2, <1>4 DEF ListenerInv, ListenersTypeOK
<1>6. Progress'
  BY <1>4 DEF ListenerInv, ListenersTypeOK, Progress
<1>7. Serving'
  <2>1. \A g \in Goroutines : Serves(g)' => g = n \/ (g \notin ended /\ Serves(g) /\ go'[g] = go[g] /\ go[g].name # i)
    BY <1>2, <1>3 DEF Serves, Goroutine
  <2>2. go'[n].name = i /\ go'[n].port = resources[i]
    BY <1>3
  <2>3. QED
    BY <1>4, <2>1, <2>2, <1>2 DEF ListenerInv, ListenersTypeOK, Serving, Goroutine
<1>8. Channels'
  <2>1. \A g \in Goroutines : go'[g].at \in {"listen", "serve"} => g \notin ended /\ go'[g] = go[g]
    BY <1>2, <1>3 DEF Goroutine
  <2>2. \A g \in Goroutines : go'[g].at \in {"listen", "serve"} => listenerEnd'[go'[g].name] = g
    BY <1>4, <2>1 DEF ListenerInv, Channels
  <2>3. \A g \in Goroutines : go'[g].at = "serve" => go'[g].channel = g
    BY <2>1 DEF ListenerInv, Channels
  <2>4. \A g \in Goroutines : go'[g].at = "start" => g = n \/ (go[g].at = "start" /\ go'[g] = go[g])
    BY <1>2, <1>3 DEF Goroutine
  <2>5. ASSUME NEW j \in Imports, listenerEnd[j] # Nil
        PROVE  go'[listenerEnd[j]].at # "start" /\ (Serves(listenerEnd[j])' => go'[listenerEnd[j]].name = j)
    <3>1. listenerEnd[j] \in Goroutines /\ listenerEnd[j] # n
      BY <1>3, <2>5 DEF ListenerInv, ListenersTypeOK
    <3>2. go[listenerEnd[j]].at # "start" /\ (Serves(listenerEnd[j]) => go[listenerEnd[j]].name = j)
      BY <2>5 DEF ListenerInv, Channels
    <3>3. go'[listenerEnd[j]].at # "start"
      BY <2>4, <3>1, <3>2
    <3>4. QED
      BY <1>4, <2>1, <3>1, <3>2, <3>3 DEF Serves
  <2>6. QED
    BY <1>4, <2>2, <2>3, <2>5 DEF Channels
<1>9. QED
  BY <1>5, <1>6, <1>7, <1>8 DEF ListenerInv

(* The fetcher of listeners keeps the invariant, *)
LEMMA FetcherStep ==
    ASSUME ListenerInv, Fetch \/ AddNext \/ AddDone \/ RemoveNext \/ RemoveDone
    PROVE  ListenerInv'
<1> USE ListenerAssumption DEF NoPort, Nil
<1>1. CASE Fetch
  BY <1>1 DEF Fetch, mapVars, ListenerInv, ListenersTypeOK, Progress, Serving, Channels, Serves
<1>2. CASE AddNext
  <2>1. PICK i \in todo : AddListener(i) /\ todo' = todo \ {i}
    BY <1>2 DEF AddNext
  <2>2. i \in Imports /\ resources[i] # NoPort /\ pc = "add" /\ UNCHANGED <<wanted, resources, onlyAdded, crashes>>
    BY <1>2 DEF AddNext, envVars, ListenerInv, ListenersTypeOK, Progress
  <2>3. CASE listeners[i] = resources[i] /\ UNCHANGED <<pc, current, sendTo, mapVars, go>>
    BY <2>1, <2>2, <2>3 DEF mapVars, ListenerInv, ListenersTypeOK, Progress, Serving, Channels, Serves
  <2>4. CASE /\ listeners[i] \notin {NoPort, resources[i]}
             /\ pc' = "sendAdd" /\ current' = i /\ sendTo' = listenerEnd[i]
             /\ UNCHANGED <<mapVars, go>>
    <3>1. ListenersTypeOK' /\ Progress'
      BY <2>1, <2>2, <2>4 DEF mapVars, ListenerInv, ListenersTypeOK, Progress
    <3>2. Serving' /\ Channels'
      BY <2>1, <2>2, <2>4 DEF mapVars, ListenerInv, ListenersTypeOK, Serving, Channels, Serves
    <3>3. QED
      BY <3>1, <3>2 DEF ListenerInv
  <2>5. CASE listeners[i] = NoPort /\ StartListener(i, go) /\ UNCHANGED <<pc, current, sendTo>>
    <3>1. \A g \in Goroutines : Serves(g) => go[g].name # i
      BY <2>2, <2>5 DEF ListenerInv, Serving
    <3> DEFINE none == {}
    <3>2. go = [g \in Goroutines |-> IF g \in none THEN [go[g] EXCEPT !.at = "closing"] ELSE go[g]]
      BY DEF ListenerInv, ListenersTypeOK
    <3>3. StartListener(i, [g \in Goroutines |-> IF g \in none THEN [go[g] EXCEPT !.at = "closing"] ELSE go[g]])
      BY <2>5, <3>2
    <3>4. none \in SUBSET Goroutines /\ \A e \in none : go[e].at = "serve" /\ go[e].name = i
      OBVIOUS
    <3> HIDE DEF none
    <3>5. QED
      BY <2>1, <2>2, <2>5, <3>1, <3>3, <3>4, StartStep
  <2>6. QED
    BY <2>1, <2>3, <2>4, <2>5 DEF AddListener
<1>3. CASE AddDone
  BY <1>3 DEF AddDone, mapVars, envVars, ListenerInv, ListenersTypeOK, Progress, Serving, Channels, Serves
<1>4. CASE RemoveNext
  <2>1. PICK i \in Surplus : RemoveListener(i)
    BY <1>4 DEF RemoveNext
  <2>2. i \in Imports /\ resources[i] = NoPort /\ pc = "remove" /\ UNCHANGED <<wanted, resources, todo, onlyAdded, crashes>>
    BY <1>4 DEF RemoveNext, envVars, Surplus
  <2>3. ListenersTypeOK' /\ Progress'
    BY <2>1, <2>2 DEF RemoveListener, ListenerInv, ListenersTypeOK, Progress
  <2>4. Serving' /\ Channels'
    BY <2>1, <2>2 DEF RemoveListener, ListenerInv, ListenersTypeOK, Serving, Channels, Serves
  <2>5. QED
    BY <2>3, <2>4 DEF ListenerInv
<1>5. CASE RemoveDone
  <2>1. listeners = resources
    BY <1>5 DEF RemoveDone, Surplus, ListenerInv, ListenersTypeOK, Progress
  <2>2. QED
    BY <1>5, <2>1 DEF RemoveDone, mapVars, envVars, ListenerInv, ListenersTypeOK, Progress, Serving, Channels, Serves
<1>6. QED
  BY <1>1, <1>2, <1>3, <1>4, <1>5

(* and so do the goroutines of listeners, *)
LEMMA ListenerStep ==
    ASSUME ListenerInv, NEW g \in Goroutines, Run(g)
    PROVE  ListenerInv'
<1> USE ListenerAssumption DEF NoPort, Nil
<1>0. go \in [Goroutines -> Goroutine] /\ Idle \in Goroutine
  BY DEF ListenerInv, ListenersTypeOK, Goroutine, Idle, Nobody
<1>1. CASE MakeChannel(g)
  <2> DEFINE p == [go[g] EXCEPT !.at = "listen"]
  <2>1. go' = [go EXCEPT ![g] = p] /\ p \in Goroutine /\ p.name = go[g].name /\ p.port = go[g].port /\ p.at = "listen"
    BY <1>0, <1>1 DEF MakeChannel, Goroutine
  <2>2. ListenersTypeOK' /\ Progress'
    BY <1>0, <1>1, <2>1 DEF MakeChannel, fetchVars, envVars, ListenerInv, ListenersTypeOK, Progress, Goroutine
  <2>3. Serving'
    BY <1>0, <1>1, <2>1 DEF MakeChannel, fetchVars, envVars, ListenerInv, ListenersTypeOK, Serving, Serves, Goroutine
  <2>4. Channels'
    BY <1>0, <1>1, <2>1 DEF MakeChannel, fetchVars, envVars, ListenerInv, ListenersTypeOK, Serving, Channels, Serves, Goroutine
  <2>5. QED
    BY <2>2, <2>3, <2>4 DEF ListenerInv
<1>2. CASE Listen(g)
  <2>1. CASE Bound(go[g].port)
    BY <1>0, <1>2, <2>1 DEF Listen, fetchVars, mapVars, envVars, ListenerInv, ListenersTypeOK, Progress, Serving, Channels, Serves, Idle
  <2>2. CASE ~Bound(go[g].port)
    <3> DEFINE p == [go[g] EXCEPT !.at = "serve", !.channel = listenerEnd[go[g].name]]
    <3>1. /\ go' = [go EXCEPT ![g] = p] /\ p \in Goroutine /\ p.name = go[g].name /\ p.port = go[g].port
          /\ p.at = "serve" /\ p.channel = g
      BY <1>0, <1>2, <2>2 DEF Listen, Goroutine, ListenerInv, ListenersTypeOK, Channels
    <3>2. ListenersTypeOK' /\ Progress'
      BY <1>0, <1>2, <3>1 DEF Listen, fetchVars, mapVars, envVars, ListenerInv, ListenersTypeOK, Progress
    <3>3. Serving'
      <4>1. go[g].at = "listen" /\ UNCHANGED <<pc, current, listeners>>
        BY <1>2 DEF Listen, fetchVars, mapVars
      <4>2. \A h \in Goroutines : /\ Serves(h)' <=> Serves(h)
                                  /\ go'[h].name = go[h].name /\ go'[h].port = go[h].port
        BY <1>0, <3>1, <4>1 DEF Serves
      <4>3. QED
        BY <4>1, <4>2 DEF ListenerInv, Serving
    <3>4. Channels'
      <4>1. go[g].at = "listen" /\ UNCHANGED <<pc, current, sendTo, listenerEnd>>
        BY <1>2 DEF Listen, fetchVars, mapVars
      <4>2. \A h \in Goroutines : /\ go'[h].name = go[h].name
                                  /\ go'[h].at \in {"listen", "serve"} <=> go[h].at \in {"listen", "serve"}
                                  /\ go'[h].at = "start" <=> go[h].at = "start"
        BY <1>0, <3>1, <4>1
      <4>3. \A h \in Goroutines : go'[h].at = "serve" => go'[h].channel = h
        BY <1>0, <3>1 DEF ListenerInv, Channels
      <4>4. listenerEnd \in [Imports -> Goroutines \cup {Nil}] /\ sendTo \in Goroutines \cup {Nil}
        BY DEF ListenerInv, ListenersTypeOK
      <4>5. QED
        BY <4>1, <4>2, <4>3, <4>4 DEF ListenerInv, Channels, Serves
    <3>5. QED
      BY <3>2, <3>3, <3>4 DEF ListenerInv
  <2>3. QED
    BY <2>1, <2>2
<1>3. CASE EndListener(g)
  <2> DEFINE p == [go[g] EXCEPT !.at = "closing"]
  <2>1. /\ pc \in {"sendAdd", "sendRemove"} /\ go[g].at = "serve" /\ g = sendTo /\ go[g].name = current
        /\ sendTo' = Nil /\ UNCHANGED <<wanted, resources, todo, current, onlyAdded, crashes>>
    BY <1>3 DEF EndListener, envVars, ListenerInv, Channels, Serves
  <2>2. \A h \in Goroutines \ {g} : Serves(h) => go[h].name # current
    BY <2>1 DEF ListenerInv, Serving, Serves
  <2>3. CASE pc = "sendRemove" /\ pc' = "remove" /\ go' = [go EXCEPT ![g].at = "closing"] /\ UNCHANGED mapVars
    <3>1. go' = [go EXCEPT ![g] = p] /\ p \in Goroutine /\ p.at = "closing"
      BY <1>0, <2>3 DEF Goroutine
    <3>2. ListenersTypeOK' /\ Progress'
      BY <1>0, <2>1, <2>3, <3>1 DEF mapVars, ListenerInv, ListenersTypeOK, Progress
    <3>3. Serving' /\ Channels'
      BY <1>0, <2>1, <2>2, <2>3, <3>1 DEF mapVars, ListenerInv, ListenersTypeOK, Serving, Channels, Serves
    <3>4. QED
      BY <3>2, <3>3 DEF ListenerInv
  <2>4. CASE pc = "sendAdd" /\ pc' = "add" /\ StartListener(current, [go EXCEPT ![g].at = "closing"])
    <3>1. [go EXCEPT ![g].at = "closing"]
            = [h \in Goroutines |-> IF h \in {g} THEN [go[h] EXCEPT !.at = "closing"] ELSE go[h]]
      BY <1>0
    <3>2. current \in Imports /\ resources[current] # NoPort
      BY <2>4 DEF ListenerInv, ListenersTypeOK, Progress
    <3> DEFINE told == {g}
    <3>3. StartListener(current, [h \in Goroutines |-> IF h \in told THEN [go[h] EXCEPT !.at = "closing"] ELSE go[h]])
      BY <2>4, <3>1
    <3>4. /\ told \in SUBSET Goroutines /\ \A e \in told : go[e].at = "serve" /\ go[e].name = current
          /\ \A h \in Goroutines \ told : Serves(h) => go[h].name # current
      BY <2>1, <2>2
    <3> HIDE DEF told
    <3>5. QED
      BY <2>1, <2>4, <3>2, <3>3, <3>4, StartStep
  <2>5. QED
    BY <1>3, <2>3, <2>4 DEF EndListener
<1>4. CASE Close(g)
  BY <1>0, <1>4 DEF Close, fetchVars, mapVars, envVars, ListenerInv, ListenersTypeOK, Progress, Serving, Channels, Serves, Idle
<1>5. QED
  BY <1>1, <1>2, <1>3, <1>4 DEF Run

(* and a crash. *)
LEMMA CrashStep ==
    ASSUME ListenerInv, Crash
    PROVE  ListenerInv'
<1> USE ListenerAssumption DEF NoPort, Nil
<1>1. Nobody \in Imports /\ Idle \in Goroutine
  BY DEF Idle, Nobody, Goroutine
<1>2. ListenersTypeOK'
  BY <1>1 DEF Crash, ListenerInv, ListenersTypeOK, Empty
<1>3. Progress' /\ Serving' /\ Channels'
  BY DEF Crash, Progress, Serving, Channels, Serves, Idle, Empty
<1>4. QED
  BY <1>2, <1>3 DEF ListenerInv

LEMMA InitListenerInv == ListenersInit => ListenerInv
<1> USE ListenerAssumption DEF NoPort, Nil
<1>1. Nobody \in Imports /\ Idle \in Goroutine
  BY DEF Idle, Nobody, Goroutine
<1>2. ListenersInit => ListenersTypeOK
  BY <1>1 DEF ListenersInit, ListenersTypeOK, Empty
<1>3. ListenersInit => Progress /\ Serving /\ Channels
  BY DEF ListenersInit, Progress, Serving, Channels, Serves, Idle, Empty
<1>4. QED
  BY <1>2, <1>3 DEF ListenerInv
-------------------------------------------------------------------------------
LEMMA InitServedOK == DataplaneInit => ServedOK
  BY ListenerAssumption DEF DataplaneInit, ServedOK, Manager!Init, Manager!NoListeners, Manager!NoClusters,
     Manager!Absent, Config!Init, Config!Empty, Config!NoClusters, Config!NoSecrets, NoPort

(* What the control plane serves, and the data plane has, is well formed. *)
LEMMA ServedStep == ServedOK /\ [DataplaneNext]_dataplaneVars => ServedOK'
<1> SUFFICES ASSUME ServedOK, [DataplaneNext]_dataplaneVars PROVE ServedOK'
  OBVIOUS
<1> USE ListenerAssumption DEF ServedOK, NoPort
<1>1. ASSUME UNCHANGED managerVars,
             \/ UNCHANGED configVars
             \/ Config!FetchClusters(servedClusters) \/ Config!FetchSecrets(servedSecrets)
             \/ \E c \in Clusters : Config!AddCluster(c) \/ Config!RemoveCluster(c)
             \/ \E s \in Config!Secrets : Config!AddSecret(s)
             \/ Config!Restart
      PROVE  ServedOK'
  <2>1. UNCHANGED <<ports, wanted, endpoints, servedClusters, restarts, deleted>>
    BY <1>1 DEF managerVars
  <2>2. CASE UNCHANGED configVars
    BY <2>1, <2>2 DEF configVars
  <2>3. CASE Config!FetchClusters(servedClusters)
    BY <2>1, <2>3 DEF Config!FetchClusters
  <2>4. CASE Config!FetchSecrets(servedSecrets)
    BY <2>1, <2>4 DEF Config!FetchSecrets
  <2>5. ASSUME NEW c \in Clusters, Config!AddCluster(c) \/ Config!RemoveCluster(c) PROVE ServedOK'
    BY <2>1, <2>5 DEF Config!AddCluster, Config!RemoveCluster
  <2>6. ASSUME NEW s \in Config!Secrets, Config!AddSecret(s) PROVE ServedOK'
    BY <2>1, <2>6 DEF Config!AddSecret
  <2>7. CASE Config!Restart
    BY <2>1, <2>7 DEF Config!Restart, Config!Empty, Config!NoClusters, Config!NoSecrets
  <2>8. QED
    BY <1>1, <2>2, <2>3, <2>4, <2>5, <2>6, <2>7
<1>2. ASSUME NEW r \in Xds!resources, Fetcher(r) PROVE ServedOK'
  BY <1>1, <1>2 DEF Fetcher, Connect, FetchResponse, Handle, ReturnToRun, handleListeners, handleClusters,
     handleSecrets, Config!ClustersHandled, Config!SecretsHandled, Config!vars, configVars, Xds!resources
<1>3. ASSUME NEW g \in Goroutines, Listener(g) PROVE ServedOK'
  BY <1>1, <1>3 DEF Listener
<1>4. ASSUME ControlPlaneUpdates PROVE ServedOK'
  BY <1>4 DEF ControlPlaneUpdates, configVars, Manager!ReconcileImport, Manager!ReconcileCluster,
     Manager!SetPeerCertificates, Manager!objectVars
<1>5. ASSUME Environment PROVE ServedOK'
  <2>1. ASSUME NEW i \in Imports, Manager!ChangeImport(i), UNCHANGED configVars PROVE ServedOK'
    BY <2>1 DEF configVars, Manager!ChangeImport, Manager!cacheVars, Manager!Absent
  <2>2. ASSUME NEW c \in Clusters, Manager!ChangeCluster(c), UNCHANGED configVars PROVE ServedOK'
    BY <2>2 DEF configVars, Manager!ChangeCluster, Manager!cacheVars, Manager!Absent
  <2>3. CASE Manager!Rotate /\ UNCHANGED configVars
    BY <2>3 DEF configVars, Manager!Rotate, Manager!cacheVars
  <2>4. CASE Manager!Restart /\ UNCHANGED configVars
    BY <2>4 DEF configVars, Manager!Restart, Manager!objectVars, Manager!NoListeners, Manager!NoClusters, Manager!Absent
  <2>5. CASE UNCHANGED managerVars /\ (UNCHANGED configVars \/ Config!Restart)
    BY <1>1, <2>5
  <2>6. QED
    BY <1>5, <2>1, <2>2, <2>3, <2>4, <2>5 DEF Environment
<1>6. CASE UNCHANGED dataplaneVars
  BY <1>1, <1>6 DEF dataplaneVars, managerVars, configVars
<1>7. QED
  BY <1>2, <1>3, <1>4, <1>5, <1>6 DEF DataplaneNext

(* Every step of the data plane and its control plane keeps the listeners. *)
LEMMA ListenersStep ==
    ServedOK /\ ListenerInv /\ [DataplaneNext]_dataplaneVars => ListenerInv'
<1> SUFFICES ASSUME ServedOK, ListenerInv, [DataplaneNext]_dataplaneVars PROVE ListenerInv'
  OBVIOUS
<1>1. wanted' \in [Imports -> Ports \cup {NoPort}]
  BY ServedStep DEF ServedOK
<1>2. ASSUME UNCHANGED listenerVars PROVE ListenerInv'
  BY <1>1, <1>2 DEF listenerVars, ListenerInv, ListenersTypeOK, Progress, Serving, Channels, Serves
<1>3. ASSUME NEW r \in Xds!resources, Fetcher(r) PROVE ListenerInv'
  BY <1>2, <1>3, FetcherStep DEF Fetcher, Connect, FetchResponse, Handle, ReturnToRun, handleListeners,
     handleClusters, handleSecrets, Xds!resources
<1>4. ASSUME NEW g \in Goroutines, Listener(g) PROVE ListenerInv'
  BY <1>4, ListenerStep DEF Listener
<1>5. ASSUME ControlPlaneUpdates PROVE ListenerInv'
  BY <1>2, <1>5 DEF ControlPlaneUpdates
<1>6. ASSUME Environment PROVE ListenerInv'
  BY <1>2, <1>6, CrashStep DEF Environment
<1>7. CASE UNCHANGED dataplaneVars
  BY <1>2, <1>7 DEF dataplaneVars
<1>8. QED
  BY <1>3, <1>4, <1>5, <1>6, <1>7 DEF DataplaneNext

(* No goroutine serves a port that its import does not have any more, and  *)
(* no import has two: whatever the control plane sends, in whatever order  *)
(* goroutines run, and through crashes.                                    *)
THEOREM ListenersFollow == DataplaneSpec => []NoStrayListener
<1>1. DataplaneInit => ServedOK /\ ListenerInv
  BY InitServedOK, InitListenerInv DEF DataplaneInit
<1>2. ListenerInv => NoStrayListener
  BY DEF ListenerInv, ListenersTypeOK, Progress, Serving, Serves, NoStrayListener
<1>3. QED
  BY <1>1, <1>2, ServedStep, ListenersStep, PTL DEF DataplaneSpec
-------------------------------------------------------------------------------
LEMMA InitRouteInv == DataplaneInit => RouteInv
  BY DEF DataplaneInit, RouteInv, Config!Init, Config!NoClusters, Config!Empty, Manager!Init, Manager!NoClusters,
     Manager!Absent, NoPort

(* A cluster that was not deleted is not lost on its way to the map. *)
LEMMA RouteStep ==
    ASSUME ServedOK, RouteInv, crashes \in Nat, [DataplaneNext]_dataplaneVars
    PROVE  /\ RouteInv'
           /\ \A c \in Clusters : clusters[c] # NoPort /\ clusters'[c] = NoPort =>
                 c \in deleted \/ restarts > 0 \/ crashes' > 0
<1> DEFINE Kept == \A c \in Clusters : clusters[c] # NoPort /\ clusters'[c] = NoPort =>
                      c \in deleted \/ restarts > 0 \/ crashes' > 0
<1> USE ListenerAssumption DEF ServedOK, NoPort, RouteInv
<1>1. ASSUME UNCHANGED managerVars, crashes' = crashes,
             \/ UNCHANGED configVars
             \/ Config!FetchClusters(servedClusters) \/ Config!FetchSecrets(servedSecrets)
             \/ \E c \in Clusters : Config!AddCluster(c) \/ Config!RemoveCluster(c)
             \/ \E s \in Config!Secrets : Config!AddSecret(s)
      PROVE  RouteInv' /\ Kept
  <2>1. UNCHANGED <<endpoints, servedClusters, restarts, deleted>>
    BY <1>1 DEF managerVars
  <2>2. CASE UNCHANGED configVars
    BY <1>1, <2>1, <2>2 DEF configVars
  <2>3. CASE Config!FetchClusters(servedClusters)
    BY <1>1, <2>1, <2>3 DEF Config!FetchClusters
  <2>4. CASE Config!FetchSecrets(servedSecrets)
    BY <1>1, <2>1, <2>4 DEF Config!FetchSecrets
  <2>5. ASSUME NEW c \in Clusters, Config!AddCluster(c) PROVE RouteInv' /\ Kept
    BY <1>1, <2>1, <2>5 DEF Config!AddCluster
  <2>6. ASSUME NEW c \in Clusters, Config!RemoveCluster(c) PROVE RouteInv' /\ Kept
    BY <1>1, <2>1, <2>6 DEF Config!RemoveCluster, Config!Surplus
  <2>7. ASSUME NEW s \in Config!Secrets, Config!AddSecret(s) PROVE RouteInv' /\ Kept
    BY <1>1, <2>1, <2>7 DEF Config!AddSecret
  <2>8. QED
    BY <1>1, <2>2, <2>3, <2>4, <2>5, <2>6, <2>7
<1>2. ASSUME NEW r \in Xds!resources, Fetcher(r) PROVE RouteInv' /\ Kept
  <2>1. crashes' = crashes
    BY <1>2 DEF Fetcher, Connect, FetchResponse, Handle, ReturnToRun, handleListeners, handleClusters, handleSecrets,
       Fetch, AddNext, AddDone, RemoveNext, RemoveDone, envVars, listenerVars, Xds!resources
  <2>2. QED
    BY <1>1, <1>2, <2>1 DEF Fetcher, Connect, FetchResponse, Handle, ReturnToRun, handleListeners, handleClusters,
       handleSecrets, Config!ClustersHandled, Config!SecretsHandled, Config!vars, configVars, Xds!resources
<1>3. ASSUME NEW g \in Goroutines, Listener(g) PROVE RouteInv' /\ Kept
  <2>1. crashes' = crashes
    BY <1>3 DEF Listener, Run, MakeChannel, Listen, EndListener, Close, envVars
  <2>2. QED
    BY <1>1, <1>3, <2>1 DEF Listener
<1>4. ASSUME ControlPlaneUpdates PROVE RouteInv' /\ Kept
  BY <1>4 DEF ControlPlaneUpdates, configVars, listenerVars, Manager!ReconcileImport, Manager!ReconcileCluster,
     Manager!SetPeerCertificates, Manager!objectVars
<1>5. ASSUME Environment PROVE RouteInv' /\ Kept
  <2>1. ASSUME NEW i \in Imports, Manager!ChangeImport(i), UNCHANGED <<listenerVars, configVars>> PROVE RouteInv' /\ Kept
    BY <2>1 DEF configVars, listenerVars, Manager!ChangeImport, Manager!cacheVars
  <2>2. ASSUME NEW c \in Clusters, Manager!ChangeCluster(c), UNCHANGED <<listenerVars, configVars>> PROVE RouteInv' /\ Kept
    BY <2>2 DEF configVars, listenerVars, Manager!ChangeCluster, Manager!cacheVars, Manager!Absent
  <2>3. CASE Manager!Rotate /\ UNCHANGED <<listenerVars, configVars>>
    BY <2>3 DEF configVars, listenerVars, Manager!Rotate, Manager!cacheVars
  <2>4. CASE Manager!Restart /\ UNCHANGED <<listenerVars, configVars>>
    BY <2>4 DEF configVars, listenerVars, Manager!Restart
  <2>5. CASE UNCHANGED <<managerVars, listenerVars, configVars>>
    BY <1>1, <2>5 DEF listenerVars
  <2>6. CASE Crash
    BY <2>6 DEF Crash
  <2>7. QED
    BY <1>5, <2>1, <2>2, <2>3, <2>4, <2>5, <2>6 DEF Environment
<1>6. CASE UNCHANGED dataplaneVars
  BY <1>1, <1>6 DEF dataplaneVars, managerVars, configVars, listenerVars
<1>7. QED
  BY <1>2, <1>3, <1>4, <1>5, <1>6 DEF DataplaneNext

(* A cluster leaves the map only when its peer or export was deleted, the  *)
(* control plane was restarted or the data plane crashed: what happens to  *)
(* one cluster never costs another its route.                              *)
THEOREM RoutesStable == DataplaneSpec => StableRoutes
<1> DEFINE Kept == \A c \in Clusters : clusters[c] # NoPort /\ clusters'[c] = NoPort =>
                      c \in deleted \/ restarts > 0 \/ crashes' > 0
<1>1. DataplaneInit => ServedOK /\ ListenerInv /\ RouteInv
  BY InitServedOK, InitListenerInv, InitRouteInv DEF DataplaneInit
<1>2. ListenerInv => crashes \in Nat
  BY ListenerAssumption DEF ListenerInv, ListenersTypeOK
<1>3. ServedOK /\ ListenerInv /\ RouteInv /\ [DataplaneNext]_dataplaneVars => RouteInv' /\ Kept
  BY <1>2, RouteStep
<1>4. DataplaneSpec => [][Kept]_dataplaneVars
  BY <1>1, <1>3, ServedStep, ListenersStep, PTL DEF DataplaneSpec
<1>5. QED
  BY <1>4 DEF StableRoutes
-------------------------------------------------------------------------------
(* The port manager.  The pigeonhole argument of FreeScan is the heart: as *)
(* long as the two maps are inverse and the names are few, a name without  *)
(* a lease always finds a free port in the full scan.                      *)
LEMMA PortFacts ==
    /\ portCount \in Nat /\ portCount >= 3
    /\ portRange \subseteq Port
    /\ 1..(portCount - 2) \subseteq Port
    /\ 0 \notin Port
    /\ Port \subseteq 0..MaxPort
BY PortsAssumption DEF portCount, portRange, Port

(* getRandomFreePort only returns port numbers. *)
LEMMA PickedPort == getRandomFreePort \subseteq Port
BY PortFacts DEF getRandomFreePort, scannedPort

(* Every step of the port manager keeps the types of its maps. *)
LEMMA TypeStep == TypeOK /\ [Next]_vars => TypeOK'
<1> SUFFICES ASSUME TypeOK, [Next]_vars PROVE TypeOK'
    OBVIOUS
<1> USE NamesAssumption, PortFacts
<1>1. ASSUME NEW n \in Names, NEW p \in 0..MaxPort, NEW g \in 0..MaxPort,
             Lease(n, p, g),
             ret' = [op |-> "lease", name |-> n, port |-> p, granted |-> g]
      PROVE  TypeOK'
  <2>1. p # 0 => p \in Port
    BY PortsAssumption DEF Port
  <2>2. ASSUME NEW q \in Port, mark(n, q) PROVE TypeOK'
    BY <1>1, <2>2 DEF TypeOK, mark
  <2>3. CASE UNCHANGED portVars
    BY <1>1, <2>3 DEF TypeOK, portVars
  <2>4. CASE p = 0
    BY <1>1, <2>2, <2>3, <2>4, PickedPort DEF Lease, leaseWithRandomPort
  <2>5. CASE p # 0
    BY <1>1, <2>1, <2>2, <2>3, <2>5 DEF Lease, leaseWithSpecificPort
  <2> QED BY <2>4, <2>5
<1>2. ASSUME NEW n \in Names, Release(n),
             ret' = [op |-> "release", name |-> n, port |-> 0, granted |-> 0]
      PROVE  TypeOK'
  BY <1>2, PortsAssumption DEF TypeOK, Release
<1>3. CASE UNCHANGED vars
  BY <1>3 DEF TypeOK, vars
<1> QED BY <1>1, <1>2, <1>3 DEF Next

(* The maps of the port manager always hold names and port numbers. *)
THEOREM TypeCorrect == Spec => []TypeOK
<1>1. Init => TypeOK
  BY NamesAssumption, PortsAssumption DEF Init, TypeOK, Port
<1> QED BY <1>1, TypeStep, PTL DEF Spec
-------------------------------------------------------------------------------
FST == INSTANCE FiniteSetTheorems

(* Pigeonhole: when the maps are inverse and n holds no port, the other    *)
(* names cannot lease all the ports 1..portCount-2 the full scan visits.   *)
LEMMA FreeScan ==
    ASSUME FewNames, TypeOK, LeasesInverse,
           NEW n \in Names, leasesByName[n] = 0
    PROVE  \E k \in 1..(portCount - 2) : k \notin Leased
<1> DEFINE S == 1..(portCount - 2)
<1> DEFINE T == Names \ {n}
<1>1. SUFFICES ASSUME S \subseteq Leased PROVE FALSE
  OBVIOUS
<1>2. FST!IsFiniteSet(S) /\ FST!Cardinality(S) = portCount - 2
  BY PortFacts, FST!FS_Interval, portCount - 2 \in Int, 1 \in Int
<1>3. FST!IsFiniteSet(Names) /\ FST!Cardinality(Names) = Cardinality(Names)
  BY NamesAssumption DEF IsFiniteSet, FST!IsFiniteSet, Cardinality, FST!Cardinality
<1>4. /\ FST!IsFiniteSet(T) /\ FST!Cardinality(T) = FST!Cardinality(Names) - 1
      /\ FST!Cardinality(Names) \in Nat
  BY <1>3, FST!FS_RemoveElement, FST!FS_CardinalityType
<1>5. FST!Cardinality(T) < FST!Cardinality(S)
  BY <1>2, <1>3, <1>4, PortFacts DEF FewNames
<1> DEFINE f == [k \in S |-> leasesByPort[k]]
<1>6. f \in [S -> T]
  <2> SUFFICES ASSUME NEW k \in S PROVE leasesByPort[k] \in T
    OBVIOUS
  <2>1. k \in Port /\ leasesByPort[k] \in Names
    BY <1>1, PortFacts DEF Leased, TypeOK
  <2>2. leasesByPort[k] # n
    BY <2>1, PortFacts DEF LeasesInverse
  <2> QED BY <2>1, <2>2
<1>7. PICK x, y \in S : x # y /\ f[x] = f[y]
  <2> HIDE DEF S, T, f
  <2> QED BY <1>2, <1>4, <1>5, <1>6, FST!FS_PigeonHole
<1>8. leasesByPort[x] = leasesByPort[y] /\ leasesByPort[x] \in Names
  BY <1>1, <1>7, PortFacts DEF Leased, TypeOK
<1> QED BY <1>7, <1>8, PortFacts DEF LeasesInverse

(* Hence getRandomFreePort, called for a name without a lease, returns a   *)
(* port that is free.                                                      *)
LEMMA PickedPortFree ==
    ASSUME FewNames, TypeOK, LeasesInverse,
           NEW n \in Names, leasesByName[n] = 0,
           NEW p \in getRandomFreePort
    PROVE  p \in Port /\ leasesByPort[p] = NoName
<1>1. PICK k \in 1..(portCount - 2) : k \notin Leased
  BY FreeScan
<1>2. ASSUME p \in scannedPort PROVE p \notin Leased
  BY <1>1, <1>2, PortFacts DEF scannedPort
<1> QED BY <1>2, PickedPort DEF getRandomFreePort, Leased

(* Marking a port that is free or already held by n keeps the maps inverse,*)
(* and takes a port from nobody but n.                                     *)
LEMMA MarkInverse ==
    ASSUME TypeOK, LeasesInverse,
           NEW n \in Names, NEW p \in Port,
           leasesByPort[p] \in {n, NoName}, mark(n, p)
    PROVE  /\ LeasesInverse'
           /\ \A q \in Port : leasesByPort[q] # NoName /\ leasesByPort'[q] # leasesByPort[q]
                                => leasesByPort[q] = n
           /\ \A m \in Names \ {n} : leasesByName[m] # p
<1>1. ASSUME NEW m \in Names, NEW q \in Port
      PROVE  leasesByPort'[q] = m <=> leasesByName'[m] = q
  <2>1. leasesByPort[q] = m <=> leasesByName[m] = q
    BY DEF LeasesInverse
  <2>2. leasesByPort[q] = n <=> leasesByName[n] = q
    BY DEF LeasesInverse
  <2>3. leasesByPort[p] = m <=> leasesByName[m] = p
    BY DEF LeasesInverse
  <2> QED BY <2>1, <2>2, <2>3, NamesAssumption DEF TypeOK, mark
<1>2. LeasesInverse'
  BY <1>1 DEF LeasesInverse
<1>3. ASSUME NEW q \in Port, leasesByPort[q] # NoName, leasesByPort'[q] # leasesByPort[q]
      PROVE  leasesByPort[q] = n
  BY <1>3 DEF LeasesInverse, TypeOK, mark
<1>4. ASSUME NEW m \in Names \ {n} PROVE leasesByName[m] # p
  BY NamesAssumption DEF LeasesInverse
<1> QED BY <1>2, <1>3, <1>4

(* What a step of the port manager does when the names are few: the maps   *)
(* stay inverse, only the caller loses a port, and the step is one of the  *)
(* table of exclusive leases.                                              *)
LEMMA LeaseStep ==
    ASSUME FewNames, TypeOK, LeasesInverse,
           NEW n \in Names, NEW p \in 0..MaxPort, NEW g \in 0..MaxPort, Lease(n, p, g)
    PROVE  /\ LeasesInverse'
           /\ \A q \in Port : leasesByPort[q] # NoName /\ leasesByPort'[q] # leasesByPort[q]
                                => leasesByPort[q] = n
           /\ (\E q \in Port : Leases!Take(n, q)) \/ UNCHANGED leasesByName
<1>1. ASSUME NEW q \in Port, leasesByPort[q] \in {n, NoName}, mark(n, q)
      PROVE  /\ LeasesInverse'
             /\ \A r \in Port : leasesByPort[r] # NoName /\ leasesByPort'[r] # leasesByPort[r]
                                  => leasesByPort[r] = n
             /\ Leases!Take(n, q)
  BY <1>1, MarkInverse DEF mark, Leases!Take
<1>2. CASE UNCHANGED portVars
  BY <1>2 DEF portVars, LeasesInverse
<1>3. CASE p = 0 /\ leaseWithRandomPort(n, g)
  <2>1. CASE leasesByName[n] = 0 /\ g \in getRandomFreePort /\ mark(n, g)
    <3>1. g \in Port /\ leasesByPort[g] = NoName
      BY <2>1, PickedPortFree
    <3> QED BY <1>1, <2>1, <3>1
  <2> QED BY <1>2, <1>3, <2>1 DEF leaseWithRandomPort
<1>4. CASE p # 0 /\ leaseWithSpecificPort(n, p, g)
  <2>1. p \in Port
    BY <1>4, PortsAssumption DEF Port
  <2>2. CASE leasesByPort[p] \in {n, NoName} /\ mark(n, p)
    BY <1>1, <2>1, <2>2
  <2> QED BY <1>2, <1>4, <2>2 DEF leaseWithSpecificPort
<1> QED BY <1>3, <1>4 DEF Lease

LEMMA ReleaseStep ==
    ASSUME TypeOK, LeasesInverse, NEW n \in Names, Release(n)
    PROVE  /\ LeasesInverse'
           /\ \A q \in Port : leasesByPort[q] # NoName /\ leasesByPort'[q] # leasesByPort[q]
                                => leasesByPort[q] = n
           /\ Leases!Free(n)
<1>1. ASSUME NEW m \in Names, NEW q \in Port
      PROVE  leasesByPort'[q] = m <=> leasesByName'[m] = q
  <2>1. leasesByPort[q] = m <=> leasesByName[m] = q
    BY DEF LeasesInverse
  <2>2. leasesByPort[q] = n <=> leasesByName[n] = q
    BY DEF LeasesInverse
  <2> QED BY <2>1, <2>2, NamesAssumption, PortFacts DEF TypeOK, Release
<1>2. ASSUME NEW q \in Port, leasesByPort[q] # NoName, leasesByPort'[q] # leasesByPort[q]
      PROVE  leasesByPort[q] = n
  BY <1>2 DEF LeasesInverse, TypeOK, Release
<1> QED BY <1>1, <1>2 DEF LeasesInverse, Release, Leases!Free
-------------------------------------------------------------------------------
(* The two maps of the port manager stay inverse, for at most              *)
(* portCount - 2 names.                                                    *)
THEOREM MapsInverse ==
    ASSUME FewNames
    PROVE  Spec => []LeasesInverse
<1>1. Init => LeasesInverse
  BY NamesAssumption, PortFacts DEF Init, LeasesInverse
<1>2. TypeOK /\ LeasesInverse /\ [Next]_vars => LeasesInverse'
  <2> SUFFICES ASSUME TypeOK, LeasesInverse, [Next]_vars PROVE LeasesInverse'
    OBVIOUS
  <2>1. CASE UNCHANGED vars
    BY <2>1 DEF vars, LeasesInverse
  <2> QED BY <2>1, LeaseStep, ReleaseStep DEF Next
<1> QED BY <1>1, <1>2, TypeCorrect, PTL DEF Spec

(* No call made for one name ends the lease of another. *)
THEOREM HoldersKeepPorts ==
    ASSUME FewNames
    PROVE  Spec => HolderKeepsPort
<1> DEFINE OnlyCaller == \A p \in Port :
             leasesByPort[p] # NoName /\ leasesByPort'[p] # leasesByPort[p]
               => ret'.name = leasesByPort[p]
<1>1. TypeOK /\ LeasesInverse /\ [Next]_vars => [OnlyCaller]_vars
  <2> SUFFICES ASSUME TypeOK, LeasesInverse, Next PROVE OnlyCaller
    OBVIOUS
  <2>1. ASSUME NEW n \in Names, NEW p \in 0..MaxPort, NEW g \in 0..MaxPort, Lease(n, p, g),
               ret' = [op |-> "lease", name |-> n, port |-> p, granted |-> g]
        PROVE  OnlyCaller
    BY <2>1, LeaseStep
  <2>2. ASSUME NEW n \in Names, Release(n),
               ret' = [op |-> "release", name |-> n, port |-> 0, granted |-> 0]
        PROVE  OnlyCaller
    BY <2>2, ReleaseStep
  <2> QED BY <2>1, <2>2 DEF Next
<1> QED BY <1>1, TypeCorrect, MapsInverse, PTL DEF Spec, HolderKeepsPort

(* The port manager implements the table of exclusive leases. *)
THEOREM Refinement ==
    ASSUME FewNames
    PROVE  Spec => ImplementsPortLeases
<1>1. Init => Leases!Init
  BY DEF Init, Leases!Init
<1>2. TypeOK /\ LeasesInverse /\ [Next]_vars => [Leases!Next]_leasesByName
  <2> SUFFICES ASSUME TypeOK, LeasesInverse, Next
               PROVE  Leases!Next \/ UNCHANGED leasesByName
    BY DEF vars
  <2> QED BY LeaseStep, ReleaseStep DEF Next, Leases!Next, Port
<1> QED BY <1>1, <1>2, TypeCorrect, MapsInverse, PTL DEF Spec, ImplementsPortLeases, Leases!Spec
===============================================================================
