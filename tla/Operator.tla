------------------------------- MODULE Operator -------------------------------
(***************************************************************************)
(* The operator (pkg/operator), which deploys the components of            *)
(* ClusterLink for every Instance object: the reconciler of instances, its *)
(* map of the instance that owns each namespace, which only lives in       *)
(* memory, and the objects that it creates and deletes.                    *)
(*                                                                         *)
(* One worker reconciles.  A reconciliation is one step here: it may stop  *)
(* with an error after any of the objects it creates or deletes, and is    *)
(* then repeated.  The call of Reconcile for the successor of a deleted    *)
(* instance is a step of its own, before which nothing else is reconciled. *)
(***************************************************************************)
EXTENDS Naturals, Sequences, FiniteSetsExt

CONSTANTS
    Instances, Namespaces,
    None,
    Setups,         \* what users ask for and what goes wrong, see Setup
    MaxFaults       \* bound: how often something goes wrong, all together

\* early: a request failed before the instance had its finalizer;
\* error: one failed later; trigger: one failed while the successor was reconciled;
\* removal: someone else deleted a deployment;
\* stall: a deployment was reported as failed for a while;
\* late: the load balancer got its address after all else was reported ready;
\* move: the namespace of an instance was changed;
\* restart: the operator was restarted;
\* cut, skip: see PeerCommands.
Fault == {"early", "error", "trigger", "removal", "stall", "late", "move", "restart",
          "cut", "skip"}

\* A setup tells which instances users create and delete, the namespaces they ask
\* for and the type of their ingress, which faults there are, how many commands
\* are given, and in which namespaces the pods of deployments get anywhere.
\* Without commands (see PeerCommands) the operator runs from the beginning.
Setup == [users : SUBSET Instances, ns : [Instances -> Namespaces],
          ingress : {"LoadBalancer", "NodePort", "none"}, faults : SUBSET Fault,
          commands : Nat, progress : SUBSET Namespaces]

ASSUME OperatorAssumption == MaxFaults \in Nat /\ Setups \subseteq Setup

VARIABLES
    setup,      \* one of Setups, for the whole behaviour
    state,      \* whether each Instance object exists, and is being deleted
    ns,         \* its namespace
    born,       \* the instances in the order of their creation
    finalizer,  \* those with a finalizer
    status,     \* their conditions, and the address of the ingress
    running,    \* whether the process of the operator runs
    owner,      \* InstanceReconciler.Instances
    queue,      \* the requests to reconcile
    call,       \* the successor to reconcile, and the deleted instance
    parts,      \* the objects that exist in each namespace
    binding,    \* the namespace in the one ClusterRoleBinding, if that exists
    role,       \* the one ClusterRole exists
    deployed,   \* how far Kubernetes is with the deployments of each namespace
    addressed,  \* the namespaces whose ingress service has an address
    faults,     \* history: the kinds of faults there were
    count       \* their number

instances == <<state, ns, born, setup>>
objects == <<parts, binding, role, deployed, addressed>>
counters == <<faults, count>>
vars == <<instances, finalizer, status, running, owner, queue, call, objects, counters>>

Parts == {"account", "service", "controlplane", "dataplane", "ingress"}
Deployments == {"controlplane", "dataplane"}
NoDeployments == [d \in Deployments |-> "progressing"]

\* What an instance reports: of the deployments, of the service of the control
\* plane and of the ingress service.  (The service of the data plane, which is
\* looked up as well, does not exist.)
Conditions == {"none", "refused", "NotExist", "Progressing", "Failed", "Ready"}
Status == [controlplane : Conditions, dataplane : Conditions, service : Conditions,
           ingress : Conditions, ip : {"none", "pending", "address"}]
NoStatus == [controlplane |-> "none", dataplane |-> "none", service |-> "none",
             ingress |-> "none", ip |-> "none"]

Exists(i) == state[i] \in {"live", "deleting"}
NoCall == [next |-> None, deleted |-> None]

TypeOK ==
    /\ state \in [Instances -> {"none", "live", "deleting", "gone"}]
    /\ ns \in [Instances -> Namespaces]
    /\ finalizer \subseteq {i \in Instances : state[i] \in {"live", "deleting"}}
    /\ status \in [Instances -> Status]
    /\ setup \in Setups
    /\ running \in BOOLEAN
    /\ owner \in [Namespaces -> Instances \cup {None}]
    /\ queue \subseteq Instances
    /\ call = NoCall \/ call \in [next : Instances, deleted : queue]
    /\ parts \in [Namespaces -> SUBSET Parts]
    /\ binding \in Namespaces \cup {None} /\ role \in BOOLEAN
    /\ deployed \in [Namespaces -> [Deployments -> {"progressing", "failed", "available"}]]
    /\ addressed \subseteq Namespaces
    /\ faults \subseteq Fault /\ count \in 0..MaxFaults

Init ==
    /\ state = [i \in Instances |-> "none"]
    /\ setup \in Setups /\ ns = setup.ns
    /\ born = <<>>
    /\ finalizer = {}
    /\ status = [i \in Instances |-> NoStatus]
    /\ running = (setup.commands = 0)
    /\ owner = [n \in Namespaces |-> None]
    /\ queue = {} /\ call = NoCall
    /\ parts = [n \in Namespaces |-> {}]
    /\ binding = None /\ role = FALSE
    /\ deployed = [n \in Namespaces |-> NoDeployments] /\ addressed = {}
    /\ faults = {} /\ count = 0

(***************************************************************************)
(* The objects.  createResource leaves alone what exists.                  *)
(***************************************************************************)
\* No ingress service is created for the type none.
ApplyOrder ==
    <<"account", "role", "binding", "service", "controlplane", "dataplane">>
        \o (IF setup.ingress = "none" THEN <<>> ELSE <<"ingress">>)

\* Mutant of DeleteOrder: the ingress service is forgotten.
DeleteOrderShort == <<"controlplane", "service", "role", "binding", "dataplane">>

DeleteOrder == <<"controlplane", "service", "role", "binding", "dataplane", "ingress">>

First(order, k) == Range(SubSeq(order, 1, k))

\* applyClusterLink, up to its first k objects.
applyClusterLink(n, k) ==
    LET made == First(ApplyOrder, k)
    IN  /\ parts' = [parts EXCEPT ![n] = @ \cup (made \cap Parts)]
        /\ role' = (role \/ "role" \in made)
        /\ binding' = IF binding = None /\ "binding" \in made THEN n ELSE binding
        /\ UNCHANGED <<deployed, addressed>>

\* deleteClusterLink, up to its first k objects.
deleteClusterLink(n, k) ==
    LET deleted == First(DeleteOrder, k)
    IN  /\ parts' = [parts EXCEPT ![n] = @ \ deleted]
        /\ role' = (role /\ "role" \notin deleted)
        /\ binding' = IF "binding" \in deleted THEN None ELSE binding
        /\ deployed' = [deployed EXCEPT ![n] =
              [d \in Deployments |-> IF d \in deleted THEN "progressing" ELSE @[d]]]
        /\ addressed' = IF "ingress" \in deleted THEN addressed \ {n} ELSE addressed

(***************************************************************************)
(* The status.                                                             *)
(***************************************************************************)
checkDeploymnetStatus(n, d) ==
    CASE d \notin parts[n] -> "NotExist"
      [] d \in parts[n] /\ deployed[n][d] = "available" -> "Ready"
      [] d \in parts[n] /\ deployed[n][d] = "failed" -> "Failed"
      [] OTHER -> "Progressing"

checkServiceStatus(n, service) == IF service \in parts[n] THEN "Ready" ELSE "NotExist"

\* checkExternalServiceStatus: the address of a load balancer, or of a node.
ingressIP(n, old) ==
    CASE "ingress" \notin parts[n] -> old
      [] "ingress" \in parts[n] /\ setup.ingress = "LoadBalancer" /\ n \notin addressed -> "pending"
      [] OTHER -> "address"

\* checkStatus, in memory.
checkStatus(n, old) ==
    [controlplane |-> checkDeploymnetStatus(n, "controlplane"),
     dataplane |-> checkDeploymnetStatus(n, "dataplane"),
     service |-> checkServiceStatus(n, "service"),
     ingress |-> IF setup.ingress = "none" THEN old.ingress ELSE checkServiceStatus(n, "ingress"),
     ip |-> IF setup.ingress = "none" THEN old.ip ELSE ingressIP(n, old.ip)]

\* updateCondition: whether a condition is new.  The address is not compared.
updateCondition(old, new) ==
    \E c \in {"controlplane", "dataplane", "service", "ingress"} : old[c] # new[c]

\* Mutant of Progressing: nobody looks at the deployments again.
NeverProgressing(st) == FALSE

Progressing(st) == "Progressing" \in {st.controlplane, st.dataplane}

(***************************************************************************)
(* What becomes of the request: it is repeated after an error, and while   *)
(* the deployment is progressing.  When the successor of a deleted         *)
(* instance was reconciled, an error repeats the request for the deleted   *)
(* one.  Changes of the Instance object itself make a new request.         *)
(***************************************************************************)
Calling(i) == call.next = i
Requested(i) == IF call = NoCall THEN i \in queue ELSE Calling(i)
Request(i) == IF Calling(i) THEN call.deleted ELSE i

\* Mutant of Done: a request that failed is not repeated.
DoneAnyway(i, again, events) ==
    /\ queue' = (queue \ {Request(i)}) \cup events
    /\ call' = NoCall

Done(i, again, events) ==
    /\ queue' = (IF again THEN queue ELSE queue \ {Request(i)}) \cup events
    /\ call' = NoCall

Happens(fault) ==
    /\ fault \in setup.faults /\ count < MaxFaults
    /\ count' = count + 1 /\ faults' = faults \cup {fault}

Fails(i, fault) == Happens(IF Calling(i) THEN "trigger" ELSE fault)

NotFound(i) ==
    /\ Requested(i) /\ state[i] = "gone"
    /\ Done(i, FALSE, {})
    /\ UNCHANGED <<instances, finalizer, status, running, owner, objects, counters>>

\* Another instance owns the namespace: updateFailureStatus.
Refuse(i) ==
    /\ Requested(i) /\ state[i] # "gone" /\ owner[ns[i]] \notin {None, i}
    /\ status' = [status EXCEPT ![i].controlplane = "refused", ![i].dataplane = "refused"]
    /\ Done(i, FALSE, {j \in {i} : status'[j] # status[j]})
    /\ UNCHANGED <<instances, finalizer, running, owner, objects, counters>>

MayTake(i) == Requested(i) /\ owner[ns[i]] \in {None, i}

\* The instance takes its namespace, before anything can fail.
Take(i) == owner' = [owner EXCEPT ![ns[i]] = i]

FailEarly(i) ==
    /\ MayTake(i) /\ Exists(i)
    /\ Take(i)
    /\ Fails(i, "early")
    /\ Done(i, TRUE, {})
    /\ UNCHANGED <<instances, finalizer, status, running, objects>>

createFinalizer(i) == finalizer' = finalizer \cup {i}

StatusNow(i) == checkStatus(ns[i], status[i])
StatusIsNew(i) == updateCondition(status[i], StatusNow(i))

\* The status is written only if a condition is new; that is an event of the
\* instance, as is the finalizer.
StoreStatus(i) == status' = IF StatusIsNew(i) THEN [status EXCEPT ![i] = StatusNow(i)] ELSE status
Events(i) == IF StatusIsNew(i) THEN {i} ELSE {i} \ finalizer

\* The object after the first k cannot be created.
ApplyStops(i, k) ==
    StoreStatus(i) /\ applyClusterLink(ns[i], k) /\ Done(i, TRUE, Events(i))

Apply(i) ==
    /\ MayTake(i) /\ state[i] = "live"
    /\ Take(i)
    /\ createFinalizer(i)
    /\ \/ /\ applyClusterLink(ns[i], Len(ApplyOrder))
          /\ StoreStatus(i)
          /\ Done(i, Progressing(StatusNow(i)) /\ ~Calling(i), Events(i))
          /\ UNCHANGED counters
       \/ /\ Fails(i, "error")
          /\ \/ UNCHANGED <<status, objects>> /\ Done(i, TRUE, {i} \ finalizer)
             \/ \E k \in 0..(Len(ApplyOrder) - 1) : ApplyStops(i, k)
    /\ UNCHANGED <<instances, running>>

\* triggerAnotherInstance
Others(i) ==
    {j \in Instances \ {i} : Exists(j) /\ ns[j] = ns[i]}

\* Mutant of Successor: no other instance is looked for.
NoSuccessor(i) == None

Successor(i) ==
    IF Others(i) = {} THEN None
    ELSE SelectSeq(born, LAMBDA j : j \in Others(i))[1]

ReleaseNamespace(i) == owner' = [owner EXCEPT ![ns[i]] = None]

Delete(i) ==
    LET all == Len(DeleteOrder)
        next == Successor(i)
    IN  /\ MayTake(i) /\ state[i] = "deleting"
        /\ \/ /\ deleteClusterLink(ns[i], all)
              /\ finalizer' = finalizer \ {i}
              /\ state' = [state EXCEPT ![i] = "gone"]
              /\ ReleaseNamespace(i)
              /\ IF next = None
                   THEN Done(i, FALSE, {i} \ {Request(i)})
                   ELSE /\ call' = [next |-> next, deleted |-> Request(i)]
                        /\ queue' = queue \cup {i}
              /\ UNCHANGED counters
           \/ /\ Fails(i, "error")
              /\ \E k \in 0..(all - 1) : deleteClusterLink(ns[i], k)
              /\ Take(i)
              /\ Done(i, TRUE, {})
              /\ UNCHANGED <<finalizer, state>>
        /\ UNCHANGED <<ns, born, setup, status, running>>

Reconcile(i) ==
    running /\ (NotFound(i) \/ Refuse(i) \/ FailEarly(i) \/ Apply(i) \/ Delete(i))

(***************************************************************************)
(* Users, the API server, and Kubernetes.  An event of a deployment        *)
(* requests the instance with the name and namespace of the deployment,    *)
(* which there is not.                                                     *)
(***************************************************************************)
NewInstance(i) ==
    /\ state' = [state EXCEPT ![i] = "live"]
    /\ born' = Append(SelectSeq(born, LAMBDA j : j # i), i)
    /\ status' = [status EXCEPT ![i] = NoStatus]
    /\ queue' = queue \cup {i}
    /\ UNCHANGED <<ns, setup, finalizer, running, owner, call, objects, counters>>

Create(i) == i \in setup.users /\ state[i] = "none" /\ NewInstance(i)

\* The API server deletes the instances in D: those with a finalizer only get a
\* deletion timestamp.
DeleteInstances(D) ==
    /\ state' = [i \in Instances |->
          IF i \in D THEN IF i \in finalizer THEN "deleting" ELSE "gone" ELSE state[i]]
    /\ queue' = queue \cup D
    /\ UNCHANGED <<ns, born, setup, finalizer, status, running, owner, call>>

DeleteInstance(i) ==
    i \in setup.users /\ state[i] = "live" /\ DeleteInstances({i}) /\ UNCHANGED <<objects, counters>>

Move(i) ==
    /\ state[i] = "live"
    /\ \E n \in Namespaces \ {ns[i]} : ns' = [ns EXCEPT ![i] = n]
    /\ Happens("move")
    /\ queue' = queue \cup {i}
    /\ UNCHANGED <<state, born, setup, finalizer, status, running, owner, call, objects>>

Kubernetes(n, d, to) ==
    /\ n \in setup.progress /\ d \in parts[n] /\ deployed[n][d] # to
    /\ deployed' = [deployed EXCEPT ![n][d] = to]
    /\ UNCHANGED <<instances, finalizer, status, running, owner, queue, call, parts, binding, role, addressed>>

BecomeAvailable(n, d) == Kubernetes(n, d, "available") /\ UNCHANGED counters

\* The progress deadline is exceeded, or a replica cannot be made.
DeploymentFails(n, d) ==
    deployed[n][d] = "progressing" /\ Kubernetes(n, d, "failed") /\ Happens("stall")

RemoveDeployment(n, d) ==
    /\ d \in parts[n]
    /\ parts' = [parts EXCEPT ![n] = @ \ {d}]
    /\ deployed' = [deployed EXCEPT ![n][d] = "progressing"]
    /\ Happens("removal")
    /\ UNCHANGED <<instances, finalizer, status, running, owner, queue, call, binding, role, addressed>>

\* Some instance has reported that both deployments in n are ready.
ReportedReady(n) ==
    \E i \in Instances : /\ state[i] = "live" /\ ns[i] = n
                         /\ status[i].controlplane = "Ready" /\ status[i].dataplane = "Ready"

\* The load balancer is given an address.
AssignAddress(n) ==
    /\ setup.ingress = "LoadBalancer" /\ "ingress" \in parts[n] /\ n \notin addressed
    /\ addressed' = addressed \cup {n}
    /\ faults' = IF ReportedReady(n) THEN faults \cup {"late"} ELSE faults
    /\ UNCHANGED <<instances, finalizer, status, running, owner, queue, call, parts, binding, role,
                   deployed, count>>

\* A new process has an empty map, and is sent all instances that exist.
NewProcess ==
    /\ owner' = [n \in Namespaces |-> None]
    /\ queue' = {i \in Instances : Exists(i)} /\ call' = NoCall
    /\ UNCHANGED <<instances, finalizer, status, objects>>

Crash == running /\ NewProcess /\ Happens("restart") /\ UNCHANGED running

-----------------------------------------------------------------------------
Without(kinds) == faults \cap kinds = {}

\* "The ClusterLink operator will subsequently remove all instance components":
\* no components, but for the service account, are left in a namespace when no
\* instance asks for them, as an instance gets its finalizer before anything is
\* created for it, and loses it after everything is deleted.  An instance that
\* is moved leaves them behind.
RemovedWithInstance ==
    Without({"move"}) =>
        \A n \in Namespaces : parts[n] \ {"account"} # {} => \E i \in Instances : Exists(i) /\ ns[i] = n

\* An instance that is deleted disappears, once its components are deleted;
\* after a restart or a move another one may own its namespace, and nothing
\* happens without the operator.
DeletionEnds ==
    \A i \in Instances :
        state[i] = "deleting" ~> state[i] = "gone" \/ ~running \/ ~Without({"restart", "move"})

\* A namespace some instance asks for has all components in the end, also when
\* the instance was refused at first because of another one, deleted since; but
\* not after a fault that nothing reconciles again.  Its control plane also has
\* the role, and the binding of its service account to it, without which it
\* cannot read any object, if there never was an instance in another namespace.
OnlyNamespace(n) == \A i \in Instances : state[i] = "none" \/ ns[i] = n
Deployed ==
    \A n \in Namespaces :
        <>[](running /\ \E i \in Instances : state[i] = "live" /\ ns[i] = n)
            => <>[]\/ Range(ApplyOrder) \cap Parts \subseteq parts[n] /\ (OnlyNamespace(n) => role /\ binding = n)
                   \/ ~Without({"early", "trigger", "removal", "move"})

\* The status of an instance that stays, and has its namespace for itself, ends up
\* telling that the deployments are ready and where the ingress is, but for the
\* cases that nothing reconciles again: a request or a deployment failed, or was
\* removed, or an address came after the deployments were reported ready.
StatusSettles ==
    \A i \in Instances :
        <>[](/\ running /\ state[i] = "live" /\ owner[ns[i]] = i /\ ns[i] \in setup.progress
             /\ setup.ingress = "LoadBalancer" => ns[i] \in addressed)
            => <>[]\/ /\ status[i].controlplane = "Ready" /\ status[i].dataplane = "Ready"
                      /\ setup.ingress # "none" => status[i].ip = "address"
                   \/ ~Without(Fault \ {"restart"})
===============================================================================
