------------------------------ MODULE GoListeners ------------------------------
(***************************************************************************)
(* The listeners of the Go data plane: the fetcher of listeners            *)
(* (handleListeners, pkg/dataplane/client/fetcher.go) calls AddListener    *)
(* and RemoveListener (pkg/dataplane/server/dataplane.go), which start and *)
(* end goroutines that each serve the port of an import (CreateListener,   *)
(* listener.go).  A goroutine is ended through a channel without buffer    *)
(* that it makes itself and leaves in the map listenerEnd.                 *)
(*                                                                         *)
(* The channel of a goroutine has the number of the goroutine; the nil     *)
(* channel is 0, on which a send never ends.  What the goroutine does with *)
(* connections depends on nothing here but the name of its import.         *)
(***************************************************************************)
EXTENDS Integers, FiniteSets

CONSTANTS Imports, Ports,
          MaxGoroutines,  \* the numbers of goroutines that are gone are used again
          MaxCrashes      \* crashes that are looked at

ASSUME ListenerAssumption ==
    /\ Imports # {} /\ Ports \subseteq Nat \ {0}
    /\ MaxGoroutines \in Nat /\ MaxCrashes \in Nat

Goroutines == 1..MaxGoroutines
NoPort == 0
Nil == 0

VARIABLES wanted,       \* the listeners that the control plane serves (module XDSManager)
          resources,    \* those fetched last
          pc,           \* the fetcher: "fetch", "add", "remove", or waiting in a send
          todo,         \* imports that are still to be added
          current,      \* where the send is about the port of which import ...
          sendTo,       \* ... and on which channel
          listeners, listenerEnd,
          go,           \* the goroutines of CreateListener
          onlyAdded,    \* no response was without a listener that is there, or had it on another port
          crashes

mapVars == <<listeners, listenerEnd>>
fetchVars == <<resources, pc, todo, current, sendTo>>
envVars == <<wanted, onlyAdded, crashes>>

Goroutine == [at: {"gone", "start", "listen", "serve", "closing"},
              name: Imports, port: Ports \cup {NoPort}, channel: Goroutines \cup {Nil}]

Nobody == CHOOSE i \in Imports : TRUE
Idle == [at |-> "gone", name |-> Nobody, port |-> NoPort, channel |-> Nil]

ListenersTypeOK ==
    /\ wanted \in [Imports -> Ports \cup {NoPort}]
    /\ resources \in [Imports -> Ports \cup {NoPort}]
    /\ pc \in {"fetch", "add", "remove", "sendAdd", "sendRemove"}
    /\ todo \subseteq Imports /\ (todo # {} => pc \in {"add", "sendAdd"})
    /\ current \in Imports
    /\ sendTo \in Goroutines \cup {Nil}
    /\ listeners \in [Imports -> Ports \cup {NoPort}]
    /\ listenerEnd \in [Imports -> Goroutines \cup {Nil}]
    /\ go \in [Goroutines -> Goroutine]
    /\ onlyAdded \in BOOLEAN
    /\ crashes \in 0..MaxCrashes

Empty == [i \in Imports |-> NoPort]

(* The response that comes next has all listeners there are, where they are. *)
Grows == \A i \in Imports : listeners[i] \in {NoPort, wanted[i]}

ListenersInit ==
    /\ wanted = Empty /\ resources = Empty
    /\ pc = "fetch" /\ todo = {} /\ current = Nobody /\ sendTo = Nil
    /\ listeners = Empty
    /\ listenerEnd = [i \in Imports |-> Nil]
    /\ go = [g \in Goroutines |-> Idle]
    /\ onlyAdded = TRUE /\ crashes = 0
-------------------------------------------------------------------------------
(* The fetcher of listeners *)

(* Mutant of Fetch: a response updates the listeners that are there. *)
FetchKnown ==
    /\ pc = "fetch"
    /\ resources' = wanted
    /\ todo' = {i \in Imports : wanted[i] # NoPort /\ (listeners = Empty \/ listeners[i] # NoPort)}
    /\ pc' = "add"
    /\ onlyAdded' = (onlyAdded /\ Grows)
    /\ UNCHANGED <<current, sendTo, mapVars, go, wanted, crashes>>

(* A response with all listeners there are. *)
Fetch ==
    /\ pc = "fetch"
    /\ resources' = wanted
    /\ todo' = {i \in Imports : wanted[i] # NoPort}
    /\ pc' = "add"
    /\ onlyAdded' = (onlyAdded /\ Grows)
    /\ UNCHANGED <<current, sendTo, mapVars, go, wanted, crashes>>

Free(g) == go[g].at = "gone" /\ g # sendTo /\ \A i \in Imports : listenerEnd[i] # g

(* The goroutines when one more is started for import i. *)
Started(goroutines, i) ==
    LET g == CHOOSE h \in Goroutines : Free(h)
    IN  [goroutines EXCEPT ![g] = [at |-> "start", name |-> i, port |-> resources[i],
                                   channel |-> Nil]]

StartListener(i, goroutines) ==
    /\ \E g \in Goroutines : Free(g)
    /\ listeners' = [listeners EXCEPT ![i] = resources[i]]
    /\ go' = Started(goroutines, i)
    /\ UNCHANGED listenerEnd

(* AddListener: nothing for a listener that is there; one with another     *)
(* port is ended first.                                                    *)
AddListener(i) ==
    \/ listeners[i] = resources[i] /\ UNCHANGED <<pc, current, sendTo, mapVars, go>>
    \/ /\ listeners[i] \notin {NoPort, resources[i]}
       /\ pc' = "sendAdd" /\ current' = i /\ sendTo' = listenerEnd[i]
       /\ UNCHANGED <<mapVars, go>>
    \/ listeners[i] = NoPort /\ StartListener(i, go) /\ UNCHANGED <<pc, current, sendTo>>

(* handleListeners, the loop that adds (in the order of the response). *)
AddNext ==
    /\ pc = "add"
    /\ \E i \in todo : AddListener(i) /\ todo' = todo \ {i}
    /\ UNCHANGED <<resources, envVars>>

AddDone ==
    /\ pc = "add" /\ todo = {}
    /\ pc' = "remove"
    /\ UNCHANGED <<resources, todo, current, sendTo, mapVars, go, envVars>>

(* Mutant of RemoveListener: the goroutine is not told. *)
RemoveListenerOnly(i) ==
    /\ listeners' = [listeners EXCEPT ![i] = NoPort]
    /\ UNCHANGED <<pc, current, sendTo, listenerEnd, go>>

RemoveListener(i) ==
    /\ listeners' = [listeners EXCEPT ![i] = NoPort]
    /\ pc' = "sendRemove" /\ current' = i /\ sendTo' = listenerEnd[i]
    /\ UNCHANGED <<listenerEnd, go>>

Surplus == {i \in Imports : listeners[i] # NoPort /\ resources[i] = NoPort}

RemoveNext ==
    /\ pc = "remove"
    /\ \E i \in Surplus : RemoveListener(i)
    /\ UNCHANGED <<resources, todo, envVars>>

RemoveDone ==
    /\ pc = "remove" /\ Surplus = {}
    /\ pc' = "fetch"
    /\ UNCHANGED <<resources, todo, current, sendTo, mapVars, go, envVars>>
-------------------------------------------------------------------------------
(* CreateListener, in goroutine g *)

(* The channel is made. *)
MakeChannel(g) ==
    /\ go[g].at = "start"
    /\ listenerEnd' = [listenerEnd EXCEPT ![go[g].name] = g]
    /\ go' = [go EXCEPT ![g].at = "listen"]
    /\ UNCHANGED <<fetchVars, listeners, envVars>>

Bound(port) == \E g \in Goroutines : go[g].at \in {"serve", "closing"} /\ go[g].port = port

(* net.Listen fails if the port is in use, and that is the end of it;      *)
(* otherwise the goroutine reads the channel that the map has now.         *)
Listen(g) ==
    /\ go[g].at = "listen"
    /\ go' = [go EXCEPT ![g] =
          IF Bound(go[g].port) THEN Idle
          ELSE [go[g] EXCEPT !.at = "serve", !.channel = listenerEnd[go[g].name]]]
    /\ UNCHANGED <<fetchVars, mapVars, envVars>>

(* The fetcher's send meets the goroutine's receive.  RemoveListener       *)
(* returns; AddListener goes on.                                           *)
EndListener(g) ==
    LET ended == [go EXCEPT ![g].at = "closing"]
    IN  /\ pc \in {"sendAdd", "sendRemove"}
        /\ go[g].at = "serve" /\ go[g].channel = sendTo /\ sendTo # Nil
        /\ sendTo' = Nil
        /\ \/ pc = "sendRemove" /\ pc' = "remove" /\ go' = ended /\ UNCHANGED mapVars
           \/ pc = "sendAdd" /\ pc' = "add" /\ StartListener(current, ended)
        /\ UNCHANGED <<resources, todo, current, envVars>>

(* acceptor.Close *)
Close(g) ==
    /\ go[g].at = "closing"
    /\ go' = [go EXCEPT ![g] = Idle]
    /\ UNCHANGED <<fetchVars, mapVars, envVars>>
-------------------------------------------------------------------------------
(* The environment *)

(* Goroutines that are about to write the map at the same time. *)
Writers == {g \in Goroutines : go[g].at = "start"}

(* "concurrent map writes": the process ends, and is started again. *)
Crash ==
    /\ Cardinality(Writers) > 1 /\ crashes < MaxCrashes
    /\ crashes' = crashes + 1
    /\ resources' = Empty /\ pc' = "fetch" /\ todo' = {} /\ current' = Nobody /\ sendTo' = Nil
    /\ listeners' = Empty
    /\ listenerEnd' = [i \in Imports |-> Nil]
    /\ go' = [g \in Goroutines |-> Idle]
    /\ UNCHANGED <<wanted, onlyAdded>>

Run(g) == MakeChannel(g) \/ Listen(g) \/ EndListener(g) \/ Close(g)
-------------------------------------------------------------------------------
(* When the fetcher is done, a goroutine that serves a port serves it for  *)
(* the import that has it: nobody serves a port for an import that has     *)
(* another port by now, or is gone.  And at no time does an import have    *)
(* two goroutines, not counting those that are about to end.               *)
NoStrayListener ==
    LET Serving == {g \in Goroutines : go[g].at \in {"start", "listen", "serve"}}
    IN  /\ pc = "fetch" => \A g \in Serving : resources[go[g].name] = go[g].port
        /\ \A g, h \in Serving : go[g].name = go[h].name => g = h
===============================================================================
