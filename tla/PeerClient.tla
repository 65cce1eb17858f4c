------------------------------- MODULE PeerClient -------------------------------
(***************************************************************************)
(* getResponse of the client for a remote peer (pkg/controlplane/peer/     *)
(* client.go), for a peer with several gateways: one goroutine per gateway *)
(* sends the request and passes the result on through an unbuffered        *)
(* channel, while it holds a lock that protects the flag done.             *)
(***************************************************************************)
EXTENDS Integers, FiniteSets

CONSTANTS clients,   \* the clients of the gateways
          Main       \* the goroutine that called getResponse

ASSUME ClientsAssumption ==
    IsFiniteSet(clients) /\ Cardinality(clients) > 1 /\ Main \notin clients

VARIABLES sender,    \* where the goroutines of the gateways are
          result,    \* what a gateway answered
          lock,      \* who holds the lock ({}: nobody)
          done,      \* the flag
          received,  \* the clients whose failures were received
          ret        \* the state of the caller

clientVars == <<sender, result, lock, done, received, ret>>

ClientTypeOK ==
    /\ sender \in [clients -> {"calling", "locking", "sending", "unlocking", "finished"}]
    /\ result \in [clients -> {"none", "ok", "error"}]
    /\ lock \in SUBSET (clients \cup {Main})
    /\ done \in BOOLEAN
    /\ received \in SUBSET clients
    /\ ret \in {"receiving", "locking", "unlocking", "ok", "error"}

ClientInit ==
    /\ sender = [c \in clients |-> "calling"]
    /\ result = [c \in clients |-> "none"]
    /\ lock = {}
    /\ done = FALSE
    /\ received = {}
    /\ ret = "receiving"

(* getRespFunc returns.  A gateway that never answers runs into the        *)
(* timeout of the HTTP client, which is an error.                          *)
Respond(c) ==
    /\ sender[c] = "calling"
    /\ \E r \in {"ok", "error"} : result' = [result EXCEPT ![c] = r]
    /\ sender' = [sender EXCEPT ![c] = "locking"]
    /\ UNCHANGED <<lock, done, received, ret>>

(* Mutant of Lock: the flag is not looked at. *)
LockOnly(c) ==
    /\ sender[c] = "locking" /\ lock = {}
    /\ lock' = {c}
    /\ sender' = [sender EXCEPT ![c] = "sending"]
    /\ UNCHANGED <<result, done, received, ret>>

Lock(c) ==
    /\ sender[c] = "locking" /\ lock = {}
    /\ lock' = {c}
    /\ sender' = [sender EXCEPT ![c] = IF done THEN "unlocking" ELSE "sending"]
    /\ UNCHANGED <<result, done, received, ret>>

(* Mutant of Receive: a failure ends the loop as well. *)
ReceiveFirst(c) ==
    /\ sender[c] = "sending" /\ ret = "receiving"
    /\ sender' = [sender EXCEPT ![c] = "unlocking"]
    /\ received' = received \cup {c}
    /\ ret' = IF result[c] = "ok" THEN "locking" ELSE "error"
    /\ UNCHANGED <<result, lock, done>>

(* The result goes through the channel.  The caller counts the failures,   *)
(* and returns the joined error with the last of them.                     *)
Receive(c) ==
    /\ sender[c] = "sending" /\ ret = "receiving"
    /\ sender' = [sender EXCEPT ![c] = "unlocking"]
    /\ IF result[c] = "ok"
       THEN ret' = "locking" /\ UNCHANGED received
       ELSE /\ received' = received \cup {c}
            /\ ret' = IF received' = clients THEN "error" ELSE ret
    /\ UNCHANGED <<result, lock, done>>

(* Mutant of Unlock: the deferred unlock is missing. *)
UnlockNever(c) ==
    /\ sender[c] = "unlocking"
    /\ sender' = [sender EXCEPT ![c] = "finished"]
    /\ UNCHANGED <<result, lock, done, received, ret>>

Unlock(c) ==
    /\ sender[c] = "unlocking"
    /\ lock' = {}
    /\ sender' = [sender EXCEPT ![c] = "finished"]
    /\ UNCHANGED <<result, done, received, ret>>

(* The caller has a success: it sets the flag under the lock, and returns. *)
SetDone ==
    /\ ret = "locking" /\ lock = {}
    /\ lock' = {Main}
    /\ done' = TRUE
    /\ ret' = "unlocking"
    /\ UNCHANGED <<sender, result, received>>

Return ==
    /\ ret = "unlocking"
    /\ lock' = {}
    /\ ret' = "ok"
    /\ UNCHANGED <<sender, result, done, received>>

ClientNext == SetDone \/ Return \/ \E c \in clients : Respond(c) \/ Lock(c) \/ Receive(c) \/ Unlock(c)

ClientSpec == ClientInit /\ [][ClientNext]_clientVars

(* Every goroutine runs when it can, every request ends, and a mutex is    *)
(* handed to everyone who waits for it (starvation mode of sync.Mutex).    *)
FairClientSpec ==
    /\ ClientSpec
    /\ SF_clientVars(SetDone) /\ WF_clientVars(Return)
    /\ \A c \in clients : /\ WF_clientVars(Respond(c)) /\ SF_clientVars(Lock(c))
                          /\ WF_clientVars(Receive(c)) /\ WF_clientVars(Unlock(c))
-------------------------------------------------------------------------------
(* getResponse returns what the gateways said: a success only if some      *)
(* gateway succeeded, an error only if all of them failed.                 *)
ReturnIsJustified ==
    /\ ret \in {"locking", "unlocking", "ok"} => \E c \in clients : result[c] = "ok"
    /\ ret = "error" => \A c \in clients : result[c] = "error"

(* After getResponse has returned, no goroutine is left behind that waits  *)
(* for somebody to take its result, holding the lock.                      *)
NobodyLeftSending ==
    ret \in {"ok", "error"} => \A c \in clients : sender[c] # "sending"

(* The lock excludes: who is between lock and unlock holds it. *)
LockHolders ==
    lock = {c \in clients : sender[c] \in {"sending", "unlocking"}}
           \cup (IF ret = "unlocking" THEN {Main} ELSE {})

(* Once all gateways have answered, getResponse returns, with one named    *)
(* exception: it has received a success and wants the lock for the flag,   *)
(* while the goroutine of another gateway holds the lock and waits for     *)
(* somebody to take its own result from the channel.  Then all wait for    *)
(* each other.                                                             *)
Embraced == ret = "locking" /\ \E c \in clients : lock = {c} /\ sender[c] = "sending"
CallReturns == (\A c \in clients : result[c] # "none") ~> (ret \in {"ok", "error"} \/ Embraced)
===============================================================================
