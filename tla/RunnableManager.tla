-------------------------- MODULE RunnableManager --------------------------
(***************************************************************************)
(* The manager of runnables (pkg/util/runnable), with which the control    *)
(* plane runs its watcher of certificates, controllers, peer manager and   *)
(* servers until one of them fails, and then stops the others.             *)
(*                                                                         *)
(* Run opens the listeners of the servers, starts a goroutine that waits   *)
(* on a condition variable to stop everything (the stopper), starts one    *)
(* goroutine per runnable, and waits for these.                            *)
(***************************************************************************)
EXTENDS Naturals, FiniteSets

CONSTANTS
    N,              \* runnables are 1..N, in the order they were added
    Servers,        \* those with a listener
    Sticky          \* those that obey a Stop that comes before their Start

Runnables == 1..N

VARIABLES
    pc,         \* where Run is
    listening,  \* the servers whose listener is open
    state,      \* where the goroutine of each runnable is
    failed,     \* the runnables whose Start returned an error
    errors,     \* the keys of Manager.errors
    stopper,    \* where the stopper is
    stopNext,   \* the runnable it calls Stop on next
    asked,      \* the runnables on which Stop was called to effect
    lost        \* history: a signal or a Stop came too early to have an effect

vars == <<pc, listening, state, failed, errors, stopper, stopNext, asked, lost>>

TypeOK ==
    /\ pc \in {"listen", "start", "wait", "returned"}
    /\ listening \subseteq Servers
    /\ state \in [Runnables -> {"none", "created", "running", "ended", "recorded", "done"}]
    /\ failed \subseteq errors \cup {r \in Runnables : state[r] = "ended"}
    /\ errors \subseteq Runnables
    /\ stopper \in {"none", "created", "waiting", "signalled", "stopping", "done"}
    /\ stopNext \in 1..(N + 1)
    /\ asked \subseteq Runnables
    /\ lost \in BOOLEAN

Init ==
    /\ pc = "listen"
    /\ listening = {}
    /\ state = [r \in Runnables |-> "none"]
    /\ failed = {}
    /\ errors = {}
    /\ stopper = "none"
    /\ stopNext = 1
    /\ asked = {} /\ lost = FALSE

(***************************************************************************)
(* Run.  A listener that cannot be opened ends it, and the deferred        *)
(* function closes those that could.                                       *)
(***************************************************************************)
Listen(s) ==
    /\ pc = "listen"
    /\ s \in Servers \ listening
    /\ \/ listening' = listening \cup {s} /\ UNCHANGED pc
       \/ listening' = {} /\ pc' = "returned"
    /\ UNCHANGED <<state, failed, errors, stopper, stopNext, asked, lost>>

StartStopper ==
    /\ pc = "listen" /\ listening = Servers
    /\ pc' = "start"
    /\ stopper' = "created"
    /\ UNCHANGED <<listening, state, failed, errors, stopNext, asked, lost>>

StartRunnable(r) ==
    /\ pc = "start"
    /\ state[r] = "none" /\ \A q \in 1..(r - 1) : state[q] # "none"
    /\ state' = [state EXCEPT ![r] = "created"]
    /\ pc' = IF r = N THEN "wait" ELSE pc
    /\ UNCHANGED <<listening, failed, errors, stopper, stopNext, asked, lost>>

\* A signal is lost when nobody waits.
Signal == stopper' = IF stopper = "waiting" THEN "signalled" ELSE stopper

Return ==
    /\ pc = "wait" /\ \A r \in Runnables : state[r] = "done"
    /\ Signal
    /\ pc' = "returned" /\ listening' = {}
    /\ UNCHANGED <<state, failed, errors, stopNext, asked, lost>>

(***************************************************************************)
(* The goroutine of a runnable.                                            *)
(***************************************************************************)
Start(r) ==
    /\ state[r] = "created"
    /\ state' = [state EXCEPT ![r] = "running"]
    /\ UNCHANGED <<pc, listening, failed, errors, stopper, stopNext, asked, lost>>

\* Start returns, by itself with an error only.
End(r) ==
    /\ state[r] = "running"
    /\ state' = [state EXCEPT ![r] = "ended"]
    /\ \/ failed' = failed \cup {r}
       \/ r \in asked /\ UNCHANGED failed
    /\ UNCHANGED <<pc, listening, errors, stopper, stopNext, asked, lost>>

Record(r) ==
    /\ state[r] = "ended"
    /\ state' = [state EXCEPT ![r] = "recorded"]
    /\ errors' = errors \cup {r}
    /\ UNCHANGED <<pc, listening, failed, stopper, stopNext, asked, lost>>

\* Mutant of Done: a failure is not signalled.
DoneSilently(r) ==
    /\ state[r] = "recorded"
    /\ state' = [state EXCEPT ![r] = "done"]
    /\ UNCHANGED <<pc, listening, failed, errors, stopper, stopNext, asked, lost>>

Done(r) ==
    /\ state[r] = "recorded"
    /\ state' = [state EXCEPT ![r] = "done"]
    /\ IF r \in failed
         THEN Signal /\ lost' = (lost \/ stopper = "created")
         ELSE UNCHANGED <<stopper, lost>>
    /\ UNCHANGED <<pc, listening, failed, errors, stopNext, asked>>

(***************************************************************************)
(* The stopper.                                                            *)
(***************************************************************************)
Wait ==
    /\ stopper = "created"
    /\ stopper' = "waiting"
    /\ UNCHANGED <<pc, listening, state, failed, errors, stopNext, asked, lost>>

CheckPending ==
    /\ stopper = "signalled"
    /\ stopper' = IF Cardinality(errors) < N THEN "stopping" ELSE "done"
    /\ UNCHANGED <<pc, listening, state, failed, errors, stopNext, asked, lost>>

\* Stop of the controllers cancels the context that their Start makes.
Obeys(r) == r \in Sticky \/ state[r] \notin {"none", "created"}

Stop(r) ==
    /\ stopper = "stopping" /\ r = stopNext
    /\ asked' = asked \cup {q \in {r} : Obeys(q)}
    /\ lost' = (lost \/ ~Obeys(r))
    /\ stopNext' = r + 1
    /\ stopper' = IF r = N THEN "done" ELSE stopper
    /\ UNCHANGED <<pc, listening, state, failed, errors>>

Run == (\E s \in Servers : Listen(s)) \/ StartStopper \/ (\E r \in Runnables : StartRunnable(r)) \/ Return

Goroutine(r) == Start(r) \/ End(r) \/ Record(r) \/ Done(r)

Stopper == Wait \/ CheckPending \/ \E r \in Runnables : Stop(r)

-----------------------------------------------------------------------------
\* "Goroutine for stopping all runnables if one fails": once one fails, all
\* others are stopped, and Run returns its error, so that the process ends and
\* is restarted; unless it fails before the stopper waits for the signal, or
\* the stopper stops the controllers before they start.
FailureEndsRun == failed # {} ~> pc = "returned" \/ lost
=============================================================================
