------------------------------ MODULE PeerManager ------------------------------
(***************************************************************************)
(* The peer manager of the control plane (pkg/controlplane/control/        *)
(* peer.go).  For every peer a monitor goroutine sends heartbeats and      *)
(* decides whether the peer is reachable; a single updater goroutine takes *)
(* the decisions from an unbuffered channel and writes them to the status  *)
(* of the peer, retrying until the API server accepts them.                *)
(*                                                                         *)
(* AddPeer, DeletePeer, Stop and the updater share the lock of the         *)
(* manager.  Only Stop keeps it across other steps: the lock is free       *)
(* unless stopping is "monitors" or "updater".                             *)
(*                                                                         *)
(* A monitor keeps a copy of its peer.  current says that the copy has the *)
(* resource version of the API server; a status update from another copy   *)
(* is a conflict.                                                          *)
(***************************************************************************)
EXTENDS Integers

CONSTANTS Peers,
          NoPeer,
          MaxMonitors,         \* monitors that exist at the same time
          healthyThreshold,    \* heartbeats in a row before a peer is declared reachable
          unhealthyThreshold,  \* missed heartbeats in a row before it is declared unreachable
          MaxPeerChanges       \* changes of peers and of the network

ASSUME PeerAssumption ==
    /\ NoPeer \notin Peers
    /\ MaxMonitors \in Nat \ {0} /\ MaxPeerChanges \in Nat
    /\ healthyThreshold \in Nat \ {0} /\ unhealthyThreshold \in Nat \ {0}

VARIABLES peers,     \* the peers in the API server
          peerQ,     \* peers with an event for control.peer
          monitors,  \* the monitor of a peer (0: none)
          mon,       \* all monitors that were started
          orphans,   \* those that DeletePeer forgot
          updater,   \* the peer whose status the updater is writing
          stopping,  \* how far Stop is
          linkUp,    \* whether the good gateway of a peer answers
          peerChanges

peerVars == <<peers, peerQ, monitors, mon, orphans, updater, stopping, linkUp, peerChanges>>

Conds == {"Unknown", "True", "False"}
Gateways == {"good", "bad"}
Thresholds == {1, healthyThreshold, unhealthyThreshold}
Peer == [exists: BOOLEAN, gateways: Gateways, cond: Conds]
NoPeerObject == [exists |-> FALSE, gateways |-> "good", cond |-> "Unknown"]
Ids == 1..MaxMonitors

(* A monitor: its copy of the peer, and the local variables of its loop. *)
Monitor == [peer: Peers \cup {NoPeer}, gateways: Gateways, cond: Conds, current: BOOLEAN,
            pc: {"beat", "send", "done"}, stop: BOOLEAN, healthy: BOOLEAN,
            strikeCount: Nat, threshold: Thresholds]
NoMonitor == [peer |-> NoPeer, gateways |-> "good", cond |-> "Unknown", current |-> FALSE,
              pc |-> "done", stop |-> TRUE, healthy |-> FALSE,
              strikeCount |-> 0, threshold |-> 1]

PeerTypeOK ==
    /\ peers \in [Peers -> Peer]
    /\ peerQ \subseteq Peers
    /\ monitors \in [Peers -> 0..MaxMonitors]
    /\ mon \in [Ids -> Monitor]
    /\ orphans \subseteq Ids
    /\ updater \in Peers \cup {NoPeer, "exited"}
    /\ stopping \in {"no", "monitors", "updater", "done"}
    /\ linkUp \in [Peers -> BOOLEAN]
    /\ peerChanges \in 0..MaxPeerChanges

PeerInit ==
    /\ peers = [p \in Peers |-> NoPeerObject]
    /\ peerQ = {}
    /\ monitors = [p \in Peers |-> 0]
    /\ mon = [i \in Ids |-> NoMonitor]
    /\ orphans = {}
    /\ updater = NoPeer
    /\ stopping = "no"
    /\ linkUp \in [Peers -> BOOLEAN]
    /\ peerChanges = 0

LockFree == stopping \in {"no", "done"}
-------------------------------------------------------------------------------
(* control.peer *)

peerChanged(m, pr) == m.gateways # pr.gateways \/ m.cond # pr.cond

newPeerMonitor(p) ==
    [peer |-> p, gateways |-> peers[p].gateways, cond |-> peers[p].cond, current |-> TRUE,
     pc |-> "beat", stop |-> FALSE, healthy |-> peers[p].cond = "True",
     strikeCount |-> 0, threshold |-> 1]

(* Mutant of Stopped: the monitor that is replaced goes on. *)
NotStopped(i) == mon

(* The monitors after Stop of the i-th (0: of none). *)
Stopped(i) == [j \in Ids |-> IF j = i THEN [mon[j] EXCEPT !.stop = TRUE] ELSE mon[j]]

(* The name for a new monitor; a monitor that has returned is forgotten.   *)
FirstFree(j) == mon[j].pc = "done" /\ \A k \in 1..(j - 1) : mon[k].pc # "done"

(* AddPeer: a new monitor, or new data for the one there is. *)
AddPeer(p) ==
    LET i == monitors[p]
        renew == i # 0 => peerChanged(mon[i], peers[p])
    IN  \/ /\ stopping = "no" /\ renew
           /\ \E j \in Ids : /\ FirstFree(j)
                             /\ monitors' = [monitors EXCEPT ![p] = j]
                             /\ mon' = [Stopped(i) EXCEPT ![j] = newPeerMonitor(p)]
        \/ /\ stopping = "no" /\ ~renew
           /\ mon' = [mon EXCEPT ![i].cond = peers[p].cond, ![i].current = TRUE]
           /\ UNCHANGED monitors
        \/ stopping # "no" /\ UNCHANGED <<monitors, mon>>

(* DeletePeer forgets the monitor, and does not stop it. *)
DeletePeer(p) ==
    /\ monitors' = [monitors EXCEPT ![p] = 0]
    /\ orphans' = orphans \cup ({monitors[p]} \ {0})
    /\ UNCHANGED mon

ReconcilePeer(p) ==
    /\ p \in peerQ /\ LockFree
    /\ peerQ' = peerQ \ {p}
    /\ IF peers[p].exists THEN AddPeer(p) /\ UNCHANGED orphans ELSE DeletePeer(p)
    /\ UNCHANGED <<peers, updater, stopping, linkUp, peerChanges>>
-------------------------------------------------------------------------------
(* peerMonitor.Start: one round of the loop. *)

GetHeartbeat(i) == mon[i].gateways = "good" /\ linkUp[mon[i].peer]

(* The local variables after a heartbeat that decided nothing, *)
Undecided(m, ok) ==
    [m EXCEPT !.strikeCount = IF m.healthy = ok THEN 0 ELSE @ + 1]

(* Mutant of Decided: the monitor does not remember what it decided. *)
DecidedForgetful(m, ok) ==
    [m EXCEPT !.strikeCount = 0,
              !.threshold = IF ok THEN unhealthyThreshold ELSE healthyThreshold,
              !.cond = IF ok THEN "True" ELSE "False",
              !.pc = "send"]

(* and after one that reached the threshold. *)
Decided(m, ok) ==
    [m EXCEPT !.strikeCount = 0,
              !.healthy = ok,
              !.threshold = IF ok THEN unhealthyThreshold ELSE healthyThreshold,
              !.cond = IF ok THEN "True" ELSE "False",
              !.pc = "send"]

Heartbeat(i) ==
    LET m == mon[i]
        ok == GetHeartbeat(i)
    IN  /\ m.pc = "beat"
        /\ mon' = [mon EXCEPT ![i] =
              CASE m.stop -> NoMonitor
                [] ~m.stop /\ Undecided(m, ok).strikeCount < m.threshold -> Undecided(m, ok)
                [] OTHER -> Decided(m, ok)]
        /\ UNCHANGED <<peers, peerQ, monitors, orphans, updater, stopping, linkUp, peerChanges>>

(* The monitor hands its decision to the updater (queueStatusUpdate). *)
QueueStatusUpdate(i) ==
    /\ mon[i].pc = "send" /\ updater = NoPeer
    /\ updater' = mon[i].peer
    /\ mon' = [mon EXCEPT ![i].pc = "beat"]
    /\ UNCHANGED <<peers, peerQ, monitors, orphans, stopping, linkUp, peerChanges>>

(* The updater writes what the monitor of the peer now has.  It tries      *)
(* again, that is, nothing changes, as long as the copy of the monitor is  *)
(* not current or the peer has no monitor.  The new resource version       *)
(* reaches the monitor only with the next event of the peer.               *)
UpdateStatus ==
    /\ updater \in Peers /\ LockFree
    /\ LET p == updater
           i == monitors[p]
       IN  /\ i # 0 /\ mon[i].current
           /\ IF mon[i].cond = peers[p].cond
              THEN UNCHANGED <<peers, peerQ, mon>>
              ELSE /\ peers' = [peers EXCEPT ![p].cond = mon[i].cond]
                   /\ peerQ' = peerQ \cup {p}
                   /\ mon' = [mon EXCEPT ![i].current = FALSE]
    /\ updater' = NoPeer
    /\ UNCHANGED <<monitors, orphans, stopping, linkUp, peerChanges>>
-------------------------------------------------------------------------------
(* Stop: under the lock, wait for the monitors, then for the updater. *)

(* Mutant of Stop: nobody tells the monitors. *)
StopSilently ==
    /\ stopping = "no"
    /\ stopping' = "monitors"
    /\ UNCHANGED <<peers, peerQ, monitors, mon, orphans, updater, linkUp, peerChanges>>

Stop ==
    /\ stopping = "no"
    /\ stopping' = "monitors"
    /\ mon' = [i \in Ids |-> IF \E p \in Peers : monitors[p] = i
                             THEN [mon[i] EXCEPT !.stop = TRUE] ELSE mon[i]]
    /\ UNCHANGED <<peers, peerQ, monitors, orphans, updater, linkUp, peerChanges>>

(* monitorWG.Wait *)
MonitorsStopped ==
    /\ stopping = "monitors" /\ \A i \in Ids : mon[i].pc = "done"
    /\ stopping' = "updater"
    /\ UNCHANGED <<peers, peerQ, monitors, mon, orphans, updater, linkUp, peerChanges>>

(* close(stopCh), and updaterWG.Wait *)
UpdaterExits ==
    /\ stopping = "updater" /\ updater = NoPeer
    /\ updater' = "exited"
    /\ stopping' = "done"
    /\ UNCHANGED <<peers, peerQ, monitors, mon, orphans, linkUp, peerChanges>>
-------------------------------------------------------------------------------
(* Users and the network. *)

Change == peerChanges < MaxPeerChanges /\ peerChanges' = peerChanges + 1
          /\ UNCHANGED <<monitors, orphans, updater, stopping>>

(* A write of a peer outdates the copies of its monitors. *)
WritePeer(p, pr) ==
    /\ Change
    /\ peers' = [peers EXCEPT ![p] = pr]
    /\ peerQ' = peerQ \cup {p}
    /\ mon' = [i \in Ids |-> IF mon[i].peer = p THEN [mon[i] EXCEPT !.current = FALSE] ELSE mon[i]]
    /\ UNCHANGED linkUp

UserCreates(p) ==
    /\ ~peers[p].exists
    /\ \E g \in Gateways :
          WritePeer(p, [exists |-> TRUE, gateways |-> g, cond |-> "Unknown"])

UserEdits(p) ==
    /\ peers[p].exists
    /\ \E g \in Gateways \ {peers[p].gateways} : WritePeer(p, [peers[p] EXCEPT !.gateways = g])

UserDeletes(p) == peers[p].exists /\ WritePeer(p, NoPeerObject)

LinkChanges(p) ==
    /\ Change
    /\ linkUp' = [linkUp EXCEPT ![p] = ~@]
    /\ UNCHANGED <<peers, peerQ, mon>>

PeerNext ==
    \/ \E p \in Peers : ReconcilePeer(p)
    \/ \E i \in Ids : Heartbeat(i) \/ QueueStatusUpdate(i)
    \/ UpdateStatus
    \/ Stop \/ MonitorsStopped \/ UpdaterExits
    \/ \E p \in Peers : UserCreates(p) \/ UserEdits(p) \/ UserDeletes(p) \/ LinkChanges(p)

PeerSpec == PeerInit /\ [][PeerNext]_peerVars

(* Every monitor, the updater, control.peer and Stop are goroutines that   *)
(* run when they can; goroutines blocked on a channel are served in the    *)
(* order in which they came.                                               *)
FairPeerSpec ==
    /\ PeerSpec
    /\ \A p \in Peers : WF_peerVars(ReconcilePeer(p))
    /\ \A i \in Ids : WF_peerVars(Heartbeat(i)) /\ SF_peerVars(QueueStatusUpdate(i))
    /\ WF_peerVars(UpdateStatus)
    /\ WF_peerVars(MonitorsStopped) /\ WF_peerVars(UpdaterExits)
-------------------------------------------------------------------------------
(* Two monitors of one peer never run on unless one was told to stop (or   *)
(* the peer was deleted): they would overwrite each other's verdict.       *)
OneMonitorPerPeer ==
    \A i, j \in Ids \ orphans :
        mon[i].peer = mon[j].peer /\ ~mon[i].stop /\ ~mon[j].stop => i = j

(* The status of a peer ends up telling whether the peer is reachable,     *)
(* once neither the peer nor the network changes any more; unless a peer   *)
(* with a monitor was deleted, for whose sake the updater may spin.        *)
Reachable(p) == peers[p].exists /\ peers[p].gateways = "good" /\ linkUp[p]
StatusConverges ==
    [](orphans = {} /\ stopping = "no") =>
        \A p \in Peers :
            /\ <>[]Reachable(p) => <>[](peers[p].cond = "True")
            /\ <>[](peers[p].exists /\ ~Reachable(p)) => <>[](peers[p].cond # "True")

(* After Stop has returned no monitor runs, and none is started. *)
MonitorsEnded == stopping = "done" => \A i \in Ids : mon[i].pc = "done"

(* Stop returns, with two named exceptions: it waits, under the lock, for  *)
(* a monitor that DeletePeer forgot and nobody told to stop, or the        *)
(* updater has a status to write and waits for the lock that Stop holds.   *)
(* After it has returned no monitor runs.                                  *)
StopReturns ==
    /\ stopping = "monitors" ~>
          (stopping = "done" \/ updater \in Peers \/ \E i \in orphans : mon[i].pc # "done")
    /\ []MonitorsEnded
===============================================================================
