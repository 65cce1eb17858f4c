------------------------------ MODULE XDSManager ------------------------------
(***************************************************************************)
(* The xDS manager of the control plane (pkg/controlplane/xds), which      *)
(* keeps what data planes fetch in three caches: the clusters that Peer    *)
(* and Export objects make, the listeners that Import objects make, and    *)
(* the two secrets of the peer's certificates.                             *)
(*                                                                         *)
(* The caches are in memory.  A control plane that starts serves them at   *)
(* once, while its controllers still fill those of clusters and listeners; *)
(* the certificates are read before.                                       *)
(***************************************************************************)
EXTENDS Naturals

CONSTANTS Imports, Ports,
          Clusters,       \* the names of Peer and Export objects
          Endpoints,      \* the gateways of a peer, or the host and port of an export
          MaxChanges,     \* what users change
          MaxRotations,   \* new certificates
          MaxRestarts     \* of the control plane

Absent == 0

VARIABLES ports,          \* the target ports of Import objects
          endpoints,      \* the endpoints of Peer and Export objects
          certificates,   \* the certificates that were handed to the manager last
          listeners, clusters, secrets,   \* the caches
          deleted,        \* history: the Peer and Export objects that were deleted
          changes, restarts

objectVars == <<ports, endpoints, certificates, deleted>>
cacheVars == <<listeners, clusters, secrets>>
vars == <<objectVars, cacheVars, changes, restarts>>

Version == 1..(MaxRotations + 1)
Secrets == {"certificate", "validation"}

TypeOK ==
    /\ ports \in [Imports -> Ports \cup {Absent}] /\ listeners \in [Imports -> Ports \cup {Absent}]
    /\ endpoints \in [Clusters -> Endpoints \cup {Absent}]
    /\ clusters \in [Clusters -> Endpoints \cup {Absent}]
    /\ certificates \in Version /\ secrets \in [Secrets -> Version]
    /\ deleted \subseteq Clusters
    /\ changes \in 0..MaxChanges /\ restarts \in 0..MaxRestarts

NoListeners == [i \in Imports |-> Absent]
NoClusters == [c \in Clusters |-> Absent]
Current(version) == [s \in Secrets |-> version]

Init ==
    /\ ports = NoListeners /\ endpoints = NoClusters /\ certificates = 1
    /\ listeners = NoListeners /\ clusters = NoClusters /\ secrets = Current(1)
    /\ deleted = {} /\ changes = 0 /\ restarts = 0
-------------------------------------------------------------------------------
(* Users, and the control manager, change objects.  No two imports have    *)
(* the same valid port (ValidPortsDistinct in the module ImportControl).   *)

ChangeImport(i) ==
    /\ changes < MaxChanges /\ changes' = changes + 1
    /\ \E p \in (Ports \cup {Absent}) \ {ports[i]} :
          /\ p = Absent \/ \A j \in Imports : ports[j] # p
          /\ ports' = [ports EXCEPT ![i] = p]
    /\ UNCHANGED <<endpoints, certificates, deleted, cacheVars, restarts>>

ChangeCluster(c) ==
    /\ changes < MaxChanges /\ changes' = changes + 1
    /\ \E e \in (Endpoints \cup {Absent}) \ {endpoints[c]} :
          /\ endpoints' = [endpoints EXCEPT ![c] = e]
          /\ deleted' = IF e = Absent THEN deleted \cup {c} ELSE deleted
    /\ UNCHANGED <<ports, certificates, cacheVars, restarts>>

(* The controllers: AddImport and DeleteImport, *)
ReconcileImport(i) ==
    /\ listeners[i] # ports[i]
    /\ listeners' = [listeners EXCEPT ![i] = ports[i]]
    /\ UNCHANGED <<objectVars, clusters, secrets, changes, restarts>>

(* AddPeer and AddExport, DeletePeer and DeleteExport. *)
ReconcileCluster(c) ==
    /\ clusters[c] # endpoints[c]
    /\ clusters' = [clusters EXCEPT ![c] = endpoints[c]]
    /\ UNCHANGED <<objectVars, listeners, secrets, changes, restarts>>

(* The certificates on disk were replaced, and the watcher has read them. *)
Rotate ==
    /\ certificates \in 1..MaxRotations /\ secrets = Current(certificates)
    /\ certificates' = certificates + 1
    /\ UNCHANGED <<ports, endpoints, deleted, cacheVars, changes, restarts>>

(* SetPeerCertificates: first one secret, then the other. *)
SetPeerCertificates ==
    /\ secrets # Current(certificates)
    /\ secrets' = [secrets EXCEPT
          ![IF secrets["certificate"] # certificates THEN "certificate" ELSE "validation"] = certificates]
    /\ UNCHANGED <<objectVars, listeners, clusters, changes, restarts>>

(* A new process, or another replica. *)
Restart ==
    /\ restarts < MaxRestarts /\ restarts' = restarts + 1
    /\ listeners' = NoListeners /\ clusters' = NoClusters /\ secrets' = Current(certificates)
    /\ UNCHANGED <<objectVars, changes>>
===============================================================================
