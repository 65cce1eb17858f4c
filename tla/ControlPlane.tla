---------------------------- MODULE ControlPlane ----------------------------
(***************************************************************************)
(* The process of the control plane (cmd/cl-controlplane): it reads the    *)
(* certificates once (CertsWatcher), then runs the watcher of              *)
(* certificates, the controllers and the servers (RunnableManager) until   *)
(* one of them fails, and is restarted by the kubelet.  The controllers    *)
(* call AddPeer and DeletePeer, and an error of the watcher is what most   *)
(* often ends the process.                                                 *)
(***************************************************************************)
EXTENDS CertsWatcher

CONSTANTS N, Servers, Sticky

watcher == 1
controllers == 2

VARIABLES run,          \* where Manager.Run is (pc of RunnableManager)
          listening,
          goroutine,    \* where the goroutine of each runnable is (state of RunnableManager)
          failed, errors, stopper, stopNext, asked, lost

Runner == INSTANCE RunnableManager WITH pc <- run, state <- goroutine

ASSUME RunnablesAssumption ==
    N \in Nat \ {0, 1} /\ Servers \subseteq 3..N /\ Sticky \subseteq 1..N

managerVars == <<run, listening, goroutine, failed, errors, stopper, stopNext, asked, lost>>
controlPlaneVars == <<certsVars, managerVars>>

ControlPlaneTypeOK == CertsTypeOK /\ Runner!TypeOK

ControlPlaneInit == CertsInit /\ Runner!Init

Budget == ends < MaxEnds /\ ends' = ends + 1
UNCHANGEDButEnds ==
    UNCHANGED <<version, event, modified, watching, pc, read, consumers, missed>>

\* The certificates are read for the first time before Run is called, and
\* an error returns from main.
ReadFirst == ~watching /\ ReadCertsAndUpdateConsumers /\ UNCHANGED managerVars

\* Manager.Run.  A listener that is not opened ends it.
Run ==
    /\ pc # "read" /\ (watching \/ pc = "start")
    /\ Runner!Run
    /\ IF run = "listen" /\ run' = "returned" THEN Budget /\ UNCHANGEDButEnds ELSE UNCHANGED certsVars

Stopper == Runner!Stopper /\ UNCHANGED certsVars

(***************************************************************************)
(* The goroutine of the watcher.                                           *)
(***************************************************************************)
StartWatcher == Runner!Start(watcher) /\ Watch

\* An error of ReadCertsAndUpdateConsumers is returned by Start.
ReadAgain ==
    /\ watching /\ ReadCertsAndUpdateConsumers
    /\ IF pc' = "ended" THEN Runner!End(watcher) /\ watcher \in failed' ELSE UNCHANGED managerVars

NextEvent == Event /\ UNCHANGED managerVars
NextTick == Tick /\ UNCHANGED managerVars

StopWatcher == watcher \in asked /\ End /\ Runner!End(watcher) /\ watcher \notin failed'

FailWatcher ==
    /\ pc = "select" /\ pc' = "ended" /\ Budget
    /\ UNCHANGED <<version, event, modified, watching, read, consumers, missed>>
    /\ Runner!End(watcher) /\ watcher \in failed'

(***************************************************************************)
(* The goroutines of the others, which fail without the help of            *)
(* certificates.                                                           *)
(***************************************************************************)
StartOther(r) == r # watcher /\ Runner!Start(r) /\ UNCHANGED certsVars

StopOther(r) == r \in asked \ {watcher} /\ Runner!End(r) /\ r \notin failed' /\ UNCHANGED certsVars

FailOther(r) == r # watcher /\ Runner!End(r) /\ r \in failed' /\ Budget /\ UNCHANGEDButEnds

Ended(r) == (Runner!Record(r) \/ Runner!Done(r)) /\ UNCHANGED certsVars

PeerController ==
    /\ goroutine[controllers] = "running"
    /\ \E p \in Peers : AddPeer(p) \/ DeletePeer(p)
    /\ UNCHANGED managerVars

FinishAddPeer == StorePeer /\ UNCHANGED managerVars

(***************************************************************************)
(* The kubelet.                                                            *)
(***************************************************************************)
RotateSecret == Rotate /\ UNCHANGED managerVars

RestartProcess ==
    /\ run = "returned" \/ (pc = "ended" /\ ~watching)
    /\ Restart
    /\ run' = "listen" /\ listening' = {} /\ goroutine' = [r \in 1..N |-> "none"]
    /\ failed' = {} /\ errors' = {} /\ stopper' = "none" /\ stopNext' = 1
    /\ asked' = {} /\ lost' = FALSE

Process == ReadFirst \/ Run \/ RestartProcess
Watcher == StartWatcher \/ ReadAgain \/ NextEvent
Other(r) == StartOther(r) \/ StopOther(r)

ControlPlaneNext ==
    \/ Process \/ Stopper
    \/ Watcher \/ NextTick \/ StopWatcher \/ FailWatcher
    \/ \E r \in 1..N : Other(r) \/ FailOther(r) \/ Ended(r)
    \/ PeerController \/ FinishAddPeer
    \/ RotateSecret

\* The process runs and is restarted, goroutines are scheduled, and what was
\* asked to stop does; ticks and the closed stopCh win against events in the
\* end, as the secret changes finitely often.
ControlPlaneSpec ==
    /\ ControlPlaneInit /\ [][ControlPlaneNext]_controlPlaneVars
    /\ WF_controlPlaneVars(Process) /\ WF_controlPlaneVars(Stopper)
    /\ WF_controlPlaneVars(Watcher) /\ WF_controlPlaneVars(NextTick) /\ WF_controlPlaneVars(StopWatcher)
    /\ \A r \in 1..N : WF_controlPlaneVars(Other(r)) /\ WF_controlPlaneVars(Ended(r))

-----------------------------------------------------------------------------
\* "Goroutine for stopping all runnables if one fails": a failure of the
\* watcher, the controllers or a server ends the process, but for signals and
\* Stops that come too early.
FailureEndsRun == Runner!FailureEndsRun

\* "CertsWatcher watches certificate updates": when the secret does not change
\* any more, and is well-formed, all consumers use it in the end and keep using
\* it, after whatever restarts it takes; but for a change that came before the
\* watch, and a process that hangs because a signal or a Stop was lost.
CertificatesSettle ==
    \A v \in Version \ (Broken \cup Nameless) :
        <>[](version = v) => <>[](Uses(v) \/ missed \/ lost)
=============================================================================
