------------------------------- MODULE XDSClient -------------------------------
(***************************************************************************)
(* The fetchers with which the Go data plane follows the control plane     *)
(* (pkg/dataplane/client/xds.go and fetcher.go): one goroutine and one     *)
(* stream for each kind of resource.  A fetcher connects (InitConnect),    *)
(* and fetches and handles resources until its stream fails, and then      *)
(* starts again.  Each time it starts, the fetcher of listeners waits for  *)
(* a token of the fetcher of clusters, in the channel clustersReady.       *)
(*                                                                         *)
(* Of the resources of a kind it only matters whether the control plane    *)
(* has something that the stream is yet to bring (news).                   *)
(***************************************************************************)
EXTENDS Integers

CONSTANTS MaxBreaks      \* how often streams break

resources == {"cluster", "listener", "secret"}
capacity == 1

VARIABLES pc,
          stream,         \* the streams that are up
          clustersReady,  \* the tokens in the channel
          news,
          loneBreak,      \* the stream of clusters or listeners broke without the other,
                          \* or while one of their fetchers was not running
          breaks

streamVars == <<stream, loneBreak, breaks>>
vars == <<pc, stream, clustersReady, news, loneBreak, breaks>>

TypeOK ==
    /\ pc \in [resources -> {"connect", "signal", "wait", "run", "handle"}]
    /\ stream \subseteq resources
    /\ clustersReady \in 0..capacity
    /\ news \subseteq resources
    /\ loneBreak \in BOOLEAN
    /\ breaks \in 0..MaxBreaks

Init ==
    /\ pc = [r \in resources |-> "connect"]
    /\ stream = {}
    /\ clustersReady = 0
    /\ news = resources
    /\ loneBreak = FALSE /\ breaks = 0

Goto(r, label) == pc' = [pc EXCEPT ![r] = label]

(* Where a fetcher goes once it is connected. *)
AfterConnect(r) ==
    CASE r = "cluster" -> "signal" [] r = "listener" -> "wait" [] r = "secret" -> "run"

(* InitConnect succeeds (if it fails, it is repeated). *)
InitConnect(r) ==
    /\ pc[r] = "connect"
    /\ stream' = stream \cup {r}
    /\ Goto(r, AfterConnect(r))
    /\ UNCHANGED <<clustersReady, news, loneBreak, breaks>>

SignalClusters ==
    /\ pc["cluster"] = "signal" /\ clustersReady < capacity
    /\ clustersReady' = clustersReady + 1
    /\ Goto("cluster", "run")
    /\ UNCHANGED <<streamVars, news>>

WaitForClusters ==
    /\ pc["listener"] = "wait" /\ clustersReady > 0
    /\ clustersReady' = clustersReady - 1
    /\ Goto("listener", "run")
    /\ UNCHANGED <<streamVars, news>>

(* A response arrives: at once on a new stream, later when there is        *)
(* something new.                                                          *)
Fetch(r) ==
    /\ pc[r] = "run" /\ r \in stream /\ r \in news
    /\ news' = news \ {r}
    /\ Goto(r, "handle")
    /\ UNCHANGED <<streamVars, clustersReady>>

(* The end of handleClusters, handleListeners or handleSecrets, and Ack,   *)
(* which may fail without consequence.                                     *)
Handled(r) ==
    /\ pc[r] = "handle"
    /\ Goto(r, "run")
    /\ UNCHANGED <<streamVars, clustersReady, news>>

(* The stream has failed: Run returns, and runFetcher starts again.  The   *)
(* new stream will bring everything.                                       *)
FetchFails(r) ==
    /\ pc[r] = "run" /\ r \notin stream
    /\ news' = news \cup {r}
    /\ Goto(r, "connect")
    /\ UNCHANGED <<streamVars, clustersReady>>

(* The connection to the control plane ends, and with it all streams. *)
BreakAll ==
    /\ stream' = {}
    /\ loneBreak' = (loneBreak \/ \E r \in {"cluster", "listener"} :
                                   r \notin stream \/ pc[r] \notin {"run", "handle"})
    /\ UNCHANGED <<pc, clustersReady, news>>

(* One stream breaks, or all of them. *)
Break ==
    /\ breaks < MaxBreaks /\ breaks' = breaks + 1 /\ stream # {}
    /\ \/ \E r \in stream : /\ stream' = stream \ {r} /\ loneBreak' = (loneBreak \/ r # "secret")
                             /\ UNCHANGED <<pc, clustersReady, news>>
       \/ BreakAll

(* The control plane changes its resources. *)
Update(r) ==
    /\ news' = news \cup {r}
    /\ UNCHANGED <<pc, streamVars, clustersReady>>

(* The data plane's process ends and is started again. *)
Restart ==
    /\ pc' = [r \in resources |-> "connect"]
    /\ stream' = {}
    /\ clustersReady' = 0
    /\ news' = resources
    /\ UNCHANGED <<loneBreak, breaks>>
-------------------------------------------------------------------------------
===============================================================================
