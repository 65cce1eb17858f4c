-------------------------------- MODULE PodIndex --------------------------------
(***************************************************************************)
(* The index with which the control plane finds the attributes of a client *)
(* by its IP address (addPod, deletePod and getPodInfoByIP of              *)
(* pkg/controlplane/authz/manager.go, fed by the controller authz.pod).    *)
(*                                                                         *)
(* Pods get an address from the cluster, may be moved to another one (a    *)
(* new sandbox), finish, and are deleted.  A finished pod keeps its        *)
(* address in its status although the cluster may give it to another pod.  *)
(***************************************************************************)
EXTENDS Integers

CONSTANTS Pods, IPs,
          NoIP, NoPod,
          HostIPs,        \* the addresses of hosts, which several pods may have
          MaxPodChanges

ASSUME PodAssumption ==
    /\ NoPod \notin Pods /\ NoIP \notin IPs /\ HostIPs \subseteq IPs
    /\ MaxPodChanges \in Nat

VARIABLES pods,         \* the pods in the API server
          podQueue,     \* pods with an event
          podList,      \* the pods the manager knows
          ipToPod,
          finishedIPs,  \* the addresses that pods had when they finished
          podChanges

podVars == <<pods, podQueue, podList, ipToPod, finishedIPs, podChanges>>

Pod == [phase: {"none", "running", "finished"}, ip: IPs \cup {NoIP}]
Gone == [phase |-> "none", ip |-> NoIP]

PodTypeOK ==
    /\ pods \in [Pods -> Pod]
    /\ podQueue \subseteq Pods
    /\ podList \subseteq Pods
    /\ ipToPod \in [IPs -> Pods \cup {NoPod}]
    /\ finishedIPs \subseteq IPs \cup {NoIP}
    /\ podChanges \in 0..MaxPodChanges

PodInit ==
    /\ pods = [p \in Pods |-> Gone]
    /\ podQueue = {}
    /\ podList = {}
    /\ ipToPod = [ip \in IPs |-> NoPod]
    /\ finishedIPs = {}
    /\ podChanges = 0

(* Mutant of addPod: an address that is known is left alone. *)
addNewPod(p) ==
    /\ podList' = podList \cup {p}
    /\ ipToPod' = IF pods[p].ip \in HostIPs \cup {NoIP} \/ ipToPod[pods[p].ip] # NoPod
                  THEN ipToPod ELSE [ipToPod EXCEPT ![pods[p].ip] = p]

addPod(p) ==
    /\ podList' = podList \cup {p}
    /\ ipToPod' = IF pods[p].ip \in HostIPs \cup {NoIP}
                  THEN ipToPod ELSE [ipToPod EXCEPT ![pods[p].ip] = p]

(* Mutant of deletePod: the addresses of the pod stay. *)
deletePodOnly(p) == podList' = podList \ {p} /\ UNCHANGED ipToPod

deletePod(p) ==
    /\ podList' = podList \ {p}
    /\ ipToPod' = [ip \in IPs |-> IF ipToPod[ip] = p THEN NoPod ELSE ipToPod[ip]]

ReconcilePod(p) ==
    /\ p \in podQueue
    /\ podQueue' = podQueue \ {p}
    /\ IF pods[p] = Gone THEN deletePod(p) ELSE addPod(p)
    /\ UNCHANGED <<pods, finishedIPs, podChanges>>

getPodInfoByIP(ip) == IF ipToPod[ip] \in podList THEN ipToPod[ip] ELSE NoPod
-------------------------------------------------------------------------------
(* The cluster *)

WritePod(p, pod) ==
    /\ podChanges < MaxPodChanges
    /\ podChanges' = podChanges + 1
    /\ pods' = [pods EXCEPT ![p] = pod]
    /\ podQueue' = podQueue \cup {p}
    /\ UNCHANGED <<podList, ipToPod>>

(* An address is given to one running pod, except for those of hosts. *)
FreeIP(ip) == ip \in HostIPs \/ \A p \in Pods : ~(pods[p].phase = "running" /\ pods[p].ip = ip)

StartPod(p) ==
    /\ pods[p] = Gone
    /\ \E ip \in IPs : FreeIP(ip) /\ WritePod(p, [phase |-> "running", ip |-> ip])
    /\ UNCHANGED finishedIPs

MovePod(p) ==
    /\ pods[p].phase = "running" /\ pods[p].ip \notin HostIPs
    /\ \E ip \in IPs \ HostIPs : FreeIP(ip) /\ WritePod(p, [pods[p] EXCEPT !.ip = ip])
    /\ UNCHANGED finishedIPs

FinishPod(p) ==
    /\ pods[p].phase = "running"
    /\ WritePod(p, [pods[p] EXCEPT !.phase = "finished"])
    /\ finishedIPs' = finishedIPs \cup {pods[p].ip}

DeletePod(p) ==
    /\ pods[p] # Gone
    /\ WritePod(p, Gone)
    /\ UNCHANGED finishedIPs

PodNext ==
    \E p \in Pods : ReconcilePod(p) \/ StartPod(p) \/ MovePod(p) \/ FinishPod(p) \/ DeletePod(p)

PodSpec == PodInit /\ [][PodNext]_podVars
-------------------------------------------------------------------------------
(* "getPodInfoByIP returns the information about the Pod with the          *)
(* specified IP address": the address of a running pod leads to it as soon *)
(* as its own event is handled, whatever events of earlier owners of the   *)
(* address are still to come.  The exception are addresses with which a    *)
(* pod has finished: addPod also indexes finished pods.                    *)
RunningPodFound ==
    \A p \in Pods \ podQueue :
        pods[p].phase = "running" /\ pods[p].ip \notin HostIPs \cup finishedIPs =>
            getPodInfoByIP(pods[p].ip) = p

(* An address never leads to a pod that is gone, and that of a host never  *)
(* to a pod at all.                                                        *)
GonePodForgotten ==
    /\ \A ip \in IPs, p \in Pods : ipToPod[ip] = p => p \in podList
    /\ \A p \in podList \ podQueue : pods[p] # Gone
    /\ \A ip \in HostIPs : getPodInfoByIP(ip) = NoPod
===============================================================================
