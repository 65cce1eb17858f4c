----------------------------- MODULE LifecycleProofs -----------------------------
(***************************************************************************)
(* Proofs about what keeps a deployment running: the operator and the      *)
(* commands that install and remove it, for any instances, namespaces,     *)
(* setups and numbers of faults; and the control plane's certificates, for *)
(* any peers and however often they are replaced.                          *)
(***************************************************************************)
EXTENDS PeerCommands, ControlPlane, TLAPS


(* The first k elements of a sequence. *)
LEMMA FirstElements ==
    ASSUME NEW S, NEW order \in Seq(S), NEW k \in 0..Len(order)
    PROVE  /\ First(order, k) = {order[j] : j \in 1..k}
           /\ First(order, k) \subseteq Range(order)
           /\ First(order, Len(order)) = Range(order)
<1>1. ASSUME NEW l \in 0..Len(order) PROVE First(order, l) = {order[j] : j \in 1..l}
  <2>1. SubSeq(order, 1, l) \in Seq(S) /\ Len(SubSeq(order, 1, l)) = l
        /\ \A j \in 1..l : SubSeq(order, 1, l)[j] = order[j]
    OBVIOUS
  <2>2. DOMAIN SubSeq(order, 1, l) = 1..l
    BY <2>1
  <2>3. QED
    BY <2>1, <2>2 DEF First, Range
<1>2. Range(order) = {order[j] : j \in 1..Len(order)}
  BY DEF Range
<1>3. QED
  BY <1>1, <1>2

(* Everything but the service account is deleted. *)
LEMMA AllDeleted == Parts \ First(DeleteOrder, Len(DeleteOrder)) \subseteq {"account"}
<1>1. DeleteOrder \in Seq({"controlplane", "service", "role", "binding", "dataplane", "ingress"})
  BY DEF DeleteOrder
<1>2. First(DeleteOrder, Len(DeleteOrder)) = Range(DeleteOrder)
  BY <1>1, FirstElements
<1>3. Range(DeleteOrder) = {"controlplane", "service", "role", "binding", "dataplane", "ingress"}
  BY DEF DeleteOrder, Range
<1>4. QED
  BY <1>2, <1>3 DEF Parts

(* An instance has its finalizer as long as there may be components for    *)
(* it: only then does the API server wait for the operator.                *)
OwnedParts ==
    Without({"move"}) =>
        \A n \in Namespaces : parts[n] \ {"account"} # {} => \E i \in finalizer : ns[i] = n

RemovedInv ==
    /\ state \in [Instances -> {"none", "live", "deleting", "gone"}]
    /\ ns \in [Instances -> Namespaces] /\ parts \in [Namespaces -> SUBSET Parts]
    /\ finalizer \subseteq {i \in Instances : Exists(i)}
    /\ OwnedParts
-------------------------------------------------------------------------------
(* Steps that create no components and touch no instance. *)
LEMMA NothingMade ==
    ASSUME RemovedInv, UNCHANGED <<state, ns, finalizer>>, faults \subseteq faults',
           parts' \in [Namespaces -> SUBSET Parts], \A n \in Namespaces : parts'[n] \subseteq parts[n]
    PROVE  RemovedInv'
  BY DEF RemovedInv, OwnedParts, Exists, Without

(* The operator creates components for a live instance, after its finalizer. *)
LEMMA Created ==
    ASSUME RemovedInv, NEW i \in Instances, NEW k, state[i] = "live", createFinalizer(i),
           UNCHANGED <<state, ns>>, faults \subseteq faults',
           applyClusterLink(ns[i], k) \/ UNCHANGED parts
    PROVE  RemovedInv'
<1>1. finalizer' = finalizer \cup {i} /\ Exists(i)
  BY DEF createFinalizer, Exists
<1>2. parts' \in [Namespaces -> SUBSET Parts] /\ \A n \in Namespaces \ {ns[i]} : parts'[n] = parts[n]
  BY DEF applyClusterLink, RemovedInv
<1>3. OwnedParts'
  BY <1>1, <1>2 DEF RemovedInv, OwnedParts, Without
<1>4. QED
  BY <1>1, <1>2, <1>3 DEF RemovedInv, Exists

(* The operator deletes components, all of them before the finalizer. *)
LEMMA Deleted ==
    ASSUME RemovedInv, NEW i \in Instances, Delete(i)
    PROVE  RemovedInv'
<1> DEFINE all == Len(DeleteOrder)
<1>1. UNCHANGED ns /\ faults \subseteq faults' /\ ns[i] \in Namespaces
  BY Zenon DEF Delete, Fails, Happens, counters, RemovedInv
<1>2. ASSUME NEW k, deleteClusterLink(ns[i], k)
      PROVE  /\ parts' \in [Namespaces -> SUBSET Parts] /\ \A n \in Namespaces : parts'[n] \subseteq parts[n]
             /\ parts'[ns[i]] = parts[ns[i]] \ First(DeleteOrder, k)
  BY <1>1, <1>2 DEF deleteClusterLink, RemovedInv
<1>3. CASE /\ deleteClusterLink(ns[i], all) /\ finalizer' = finalizer \ {i}
           /\ state' = [state EXCEPT ![i] = "gone"]
  <2>1. parts'[ns[i]] \subseteq {"account"}
    BY <1>1, <1>2, <1>3, AllDeleted DEF RemovedInv
  <2>2. OwnedParts'
    BY <1>1, <1>2, <1>3, <2>1 DEF RemovedInv, OwnedParts, Without
  <2>3. QED
    BY <1>1, <1>2, <1>3, <2>2 DEF RemovedInv, Exists
<1>4. CASE (\E k \in 0..(all - 1) : deleteClusterLink(ns[i], k)) /\ UNCHANGED <<finalizer, state>>
  BY <1>1, <1>2, <1>4, NothingMade
<1>5. QED
  BY <1>3, <1>4, Zenon DEF Delete

(* The API server deletes only instances without a finalizer at once. *)
LEMMA InstancesGo ==
    ASSUME RemovedInv, NEW D \in SUBSET Instances, DeleteInstances(D), UNCHANGED <<parts, faults>>
    PROVE  RemovedInv'
  BY DEF DeleteInstances, RemovedInv, OwnedParts, Exists, Without

LEMMA InstanceComes ==
    ASSUME RemovedInv, NEW i \in Instances, NewInstance(i)
    PROVE  RemovedInv'
  BY DEF NewInstance, objects, counters, RemovedInv, OwnedParts, Exists, Without

(* The operator keeps the invariant, *)
LEMMA OperatorStep ==
    ASSUME RemovedInv, NEW i \in Instances, OperatorReconciles(i)
    PROVE  RemovedInv'
<1>1. CASE ApplyRefused(i) /\ state[i] = "live"
  BY <1>1, Created DEF ApplyRefused, ApplyStops, instances, counters
<1>2. CASE NotFound(i) \/ Refuse(i) \/ FailEarly(i)
  BY <1>2, NothingMade, Zenon DEF NotFound, Refuse, FailEarly, Fails, Happens, instances, objects, counters, RemovedInv
<1>3. CASE Apply(i)
  BY <1>3, Created, Zenon DEF Apply, ApplyStops, Fails, Happens, instances, objects, counters
<1>4. CASE Delete(i)
  BY <1>4, Deleted
<1>5. QED
  BY <1>1, <1>2, <1>3, <1>4 DEF OperatorReconciles, Reconcile

(* and so do users and Kubernetes, *)
LEMMA UserStep ==
    ASSUME RemovedInv, UsersAndKubernetes
    PROVE  RemovedInv'
<1>1. ASSUME NEW i \in Instances, Create(i) PROVE RemovedInv'
  BY <1>1, InstanceComes DEF Create
<1>2. ASSUME NEW i \in Instances, Move(i) PROVE RemovedInv'
  BY <1>2 DEF Move, Happens, objects, RemovedInv, OwnedParts, Exists, Without
<1>3. ASSUME NEW i \in Instances, DeleteInstance(i) PROVE RemovedInv'
  BY <1>3, InstancesGo DEF DeleteInstance, objects, counters
<1>4. ASSUME NEW n \in Namespaces, AssignAddress(n) PROVE RemovedInv'
  BY <1>4, NothingMade DEF AssignAddress, instances, RemovedInv
<1>5. ASSUME NEW n \in Namespaces, NEW d \in Deployments, DeploymentFails(n, d) PROVE RemovedInv'
  BY <1>5, NothingMade DEF DeploymentFails, Kubernetes, Happens, instances, RemovedInv
<1>6. ASSUME NEW n \in Namespaces, NEW d \in Deployments, RemoveDeployment(n, d) PROVE RemovedInv'
  BY <1>6, NothingMade DEF RemoveDeployment, Happens, instances, RemovedInv
<1>7. ASSUME Crash PROVE RemovedInv'
  BY <1>7, NothingMade DEF Crash, NewProcess, Happens, instances, objects, RemovedInv
<1>8. QED
  BY <1>1, <1>2, <1>3, <1>4, <1>5, <1>6, <1>7 DEF UsersAndKubernetes

(* the phases of commands leave the operator alone, *)
LEMMA PhaseFaults ==
    ASSUME NEW order, NEW k, NEW to, Phase(order, k, Goto(to)) \/ Phase(order, k, Return(to))
    PROVE  faults \subseteq faults'
  BY DEF Phase, Happens, counters

LEMMA CommandStep ==
    ASSUME RemovedInv, Command
    PROVE  RemovedInv'
<1>1. ASSUME UNCHANGED operatorVars, faults \subseteq faults' PROVE RemovedInv'
  BY <1>1, NothingMade DEF operatorVars, instances, objects, RemovedInv
<1>2. CASE DeployManager
  BY <1>1, <1>2, PhaseFaults DEF DeployManager, counters
<1>3. CASE DeployRbac
  BY <1>1, <1>3, PhaseFaults DEF DeployRbac
<1>4. CASE DeployCrds
  BY <1>1, <1>4, PhaseFaults DEF DeployCrds
<1>5. CASE DeploySecrets
  BY <1>1, <1>5, PhaseFaults DEF DeploySecrets, counters
<1>6. CASE DeployInstance
  BY <1>1, <1>6, InstanceComes, CommandsAssumption DEF DeployInstance, Happens, counters
<1>7. CASE ListInstances \/ waitForInstanceDeletion \/ InstancesDeleted
  BY <1>1, <1>7 DEF ListInstances, waitForInstanceDeletion, InstancesDeleted, vars, operatorVars, counters
<1>8. ASSUME NEW i \in Instances, DeleteListed(i) PROVE RemovedInv'
  <2>1. {i} \ {j \in Instances : state[j] = "deleting"} \in SUBSET Instances
    OBVIOUS
  <2>2. QED
    BY <1>1, <1>8, <2>1, InstancesGo DEF DeleteListed, Happens, objects, counters
<1>9. ASSUME NEW to, NEW order, NEW next, DeleteDir(to, order, next) PROVE RemovedInv'
  BY <1>1, <1>9, PhaseFaults DEF DeleteDir
<1>10. CASE DeleteSecrets
  BY <1>1, <1>10, PhaseFaults DEF DeleteSecrets
<1>11. QED
  BY <1>2, <1>3, <1>4, <1>5, <1>6, <1>7, <1>8, <1>9, <1>10 DEF Command

(* and what Kubernetes deletes was left by an instance or goes with its    *)
(* namespace.                                                              *)
LEMMA RemovedStep == RemovedInv /\ [CommandsNext]_allVars => RemovedInv'
<1> SUFFICES ASSUME RemovedInv, [CommandsNext]_allVars PROVE RemovedInv'
  OBVIOUS
<1>1. ASSUME UNCHANGED <<state, ns, finalizer, parts>>, faults \subseteq faults' PROVE RemovedInv'
  BY <1>1, NothingMade DEF RemovedInv
<1>2. ASSUME NEW n \in Namespaces, NEW d \in Deployments, Available(n, d) PROVE RemovedInv'
  BY <1>1, <1>2 DEF Available, BecomeAvailable, Kubernetes, instances, counters
<1>3. CASE DeployPeerCommand \/ DeletePeerCommand \/ \E x \in Lingering : Terminated(x)
  BY <1>1, <1>3 DEF DeployPeerCommand, DeletePeerCommand, StartCommand, Terminated, vars, instances, objects, counters
<1>4. CASE InstancesTerminate
  <2>1. {i \in Instances : state[i] = "live"} \in SUBSET Instances
    OBVIOUS
  <2>2. QED
    BY <1>4, <2>1, InstancesGo DEF InstancesTerminate, objects, counters
<1>5. CASE SystemTerminates
  BY <1>5, NothingMade, Zenon DEF SystemTerminates, instances, counters, RemovedInv
<1>6. CASE StartOperator \/ StopOperator
  BY <1>1, <1>6 DEF StartOperator, StopOperator, NewProcess, instances, objects, counters
<1>7. CASE UNCHANGED allVars
  BY <1>1, <1>7 DEF allVars, vars, instances, objects, counters
<1>8. QED
  BY <1>2, <1>3, <1>4, <1>5, <1>6, <1>7, OperatorStep, UserStep, CommandStep DEF CommandsNext

LEMMA InitRemovedInv == CommandsInit => RemovedInv
  BY OperatorAssumption DEF CommandsInit, Init, Setup, RemovedInv, OwnedParts, Exists

(* No components are left in a namespace that no instance asks for,        *)
(* whatever fails, is restarted or removed on the way, unless an instance  *)
(* was moved.                                                              *)
THEOREM ComponentsOwned == CommandsSpec => []RemovedWithInstance
<1>1. RemovedInv => RemovedWithInstance
  BY DEF RemovedInv, OwnedParts, RemovedWithInstance
<1>2. QED
  BY <1>1, InitRemovedInv, RemovedStep, PTL DEF CommandsSpec
-------------------------------------------------------------------------------
(* deploy peer.  Nothing is deleted while it runs, if nothing was when it  *)
(* was started; each phase leaves its objects to the later ones as it      *)
(* found them when the command was given.                                  *)

(* deploy peer has come to one of these phases, or to its end. *)
Reached(phases) == cli.pc \in phases \/ (cli.pc = "idle" /\ cli.outcome = "ok")

Untouched ==
    /\ cli.pc \in {"manager", "rbac"} => made \cap Range(Rbac) = before.made \cap Range(Rbac)
    /\ cli.pc \in {"manager", "rbac", "crds"} => made \cap Range(Crds) = before.made \cap Range(Crds)
    /\ cli.pc \in {"manager", "rbac", "crds", "secrets"} => secrets = before.secrets

Completed ==
    /\ Reached({"rbac", "crds", "secrets", "instance"}) => Range(Manager) \subseteq made
    /\ Reached({"crds", "secrets", "instance"}) => Partly(Rbac) \/ Range(Rbac) \subseteq made
    /\ Reached({"secrets", "instance"}) => Partly(Crds) \/ Range(Crds) \subseteq made
    /\ Reached({"instance"}) =>
          \A s, t \in Range(Secrets) : secrets[s] # 0 /\ (SecretsDiffer \/ secrets[s] = secrets[t])

CommandType ==
    /\ cli \in [command : {"none", "deploy", "delete"}, pc : Phases \cup {"idle", "list", "delete", "wait"},
                outcome : {"none", "ok", "error"}, run : Nat,
                todo : SUBSET Instances, handled : SUBSET Instances]
    /\ secrets \in [Range(Secrets) -> Nat]

DeployInv ==
    /\ CommandType
    /\ cli.command # "none" => cli.run # 0
    /\ cli.command = "deploy" /\ before.clean => terminating = {} /\ Untouched /\ Completed

(* The files of a phase, and those of the others. *)
LEMMA FileSets ==
    /\ Manager \in Seq(Range(Manager)) /\ Range(Manager) = {"operatorNamespace", "deployment", "systemNamespace"}
    /\ Rbac \in Seq(Range(Rbac)) /\ Range(Rbac) = {"leaderRole", "role", "serviceAccount"}
    /\ Crds \in Seq(Range(Crds)) /\ Range(Crds) = {"exports", "instances", "peers"}
    /\ Secrets \in Seq(Range(Secrets)) /\ Range(Secrets) = {"ca", "controlplane", "dataplane", "peer"}
<1>1. Range(Manager) = {"operatorNamespace", "deployment", "systemNamespace"} /\ Manager \in Seq(Range(Manager))
  BY DEF Manager, Range
<1>2. Range(Rbac) = {"leaderRole", "role", "serviceAccount"} /\ Rbac \in Seq(Range(Rbac))
  BY DEF Rbac, Range
<1>3. Range(Crds) = {"exports", "instances", "peers"} /\ Crds \in Seq(Range(Crds))
  BY DEF Crds, Range
<1>4. Range(Secrets) = {"ca", "controlplane", "dataplane", "peer"} /\ Secrets \in Seq(Range(Secrets))
  BY DEF Secrets, Range
<1>5. QED
  BY <1>1, <1>2, <1>3, <1>4

(* deployDir creates files of its directory only, and all of them if there *)
(* were none.                                                              *)
LEMMA DirDeployed ==
    ASSUME NEW S, NEW order \in Seq(S), NEW k \in 0..Len(order)
    PROVE  /\ deployDir(order, k) \subseteq Range(order)
           /\ Range(order) \cap made = {} => deployDir(order, Len(order)) = Range(order)
<1>1. Range(order) = {order[j] : j \in 1..Len(order)}
  BY DEF Range
<1>2. deployDir(order, k) \subseteq Range(order)
  BY <1>1 DEF deployDir
<1>3. ASSUME Range(order) \cap made = {} PROVE deployDir(order, Len(order)) = Range(order)
  <2>1. \A l \in 1..Len(order) : First(order, l) \cap made = {}
    BY <1>3, FirstElements
  <2>2. QED
    BY <1>1, <2>1 DEF deployDir
<1>4. QED
  BY <1>2, <1>3

(* Steps that leave the command, and what it creates, alone. *)
LEMMA OutsideCommand ==
    ASSUME DeployInv, UNCHANGED cliVars \/ (UNCHANGED <<cli, before>> /\ terminating # {} /\ secrets' \in {secrets, NoSecrets})
    PROVE  DeployInv'
<1>1. secrets' \in [Range(Secrets) -> Nat]
  BY DEF DeployInv, CommandType, cliVars, NoSecrets
<1>2. CASE UNCHANGED cliVars
  BY <1>2 DEF DeployInv, CommandType, cliVars, Untouched, Completed, Reached, Partly, SecretsDiffer
<1>3. CASE UNCHANGED <<cli, before>> /\ terminating # {}
  BY <1>1, <1>3 DEF DeployInv, CommandType
<1>4. QED
  BY <1>2, <1>3

LEMMA Went ==
    ASSUME CommandType, NEW to \in Phases \cup {"delete"}, Goto(to)
    PROVE  /\ cli' \in [command : {"none", "deploy", "delete"}, pc : Phases \cup {"idle", "list", "delete", "wait"},
                        outcome : {"none", "ok", "error"}, run : Nat,
                        todo : SUBSET Instances, handled : SUBSET Instances]
           /\ cli'.pc = to /\ cli'.command = cli.command /\ cli'.run = cli.run
  BY DEF CommandType, Goto

LEMMA CameBack ==
    ASSUME CommandType, NEW outcome \in {"ok", "error"}, Return(outcome)
    PROVE  /\ cli' \in [command : {"none", "deploy", "delete"}, pc : Phases \cup {"idle", "list", "delete", "wait"},
                        outcome : {"none", "ok", "error"}, run : Nat,
                        todo : SUBSET Instances, handled : SUBSET Instances]
           /\ cli'.pc = "idle" /\ cli'.outcome = outcome /\ cli'.command = cli.command /\ cli'.run = cli.run
  BY Zenon DEF CommandType, Return

(* A command that is cut promises nothing. *)
LEMMA CutStep ==
    ASSUME DeployInv, Return("error"), before' = before, secrets' \in [Range(Secrets) -> Nat],
           cli.command = "deploy" => terminating' = terminating
    PROVE  DeployInv'
<1>1. /\ cli'.pc = "idle" /\ cli'.outcome = "error" /\ cli'.command = cli.command /\ cli'.run = cli.run
      /\ CommandType'
  BY CameBack DEF DeployInv, CommandType
<1>2. Untouched' /\ Completed'
  BY <1>1 DEF Untouched, Completed, Reached, Phases
<1>3. QED
  BY <1>1, <1>2 DEF DeployInv

(* Every phase of deploy peer leaves the invariant to the next one. *)
LEMMA DeployStep ==
    ASSUME DeployInv, DeployManager \/ DeployRbac \/ DeployCrds \/ DeploySecrets \/ DeployInstance
    PROVE  DeployInv'
<1>0. CommandType /\ secrets \in [Range(Secrets) -> Nat] /\ before' = before /\ terminating' = terminating
  BY DEF DeployInv, CommandType, DeployManager, DeployRbac, DeployCrds, DeploySecrets, DeployInstance, cluster
<1>1. CASE DeployManager
  <2>1. At("deploy", "manager") /\ secrets' = secrets
    BY <1>1 DEF DeployManager
  <2>2. CASE Return("error")
    BY <1>0, <2>1, <2>2, CutStep
  <2>3. CASE Goto("rbac") /\ made' = made \cup CreateMissing(Manager, Len(Manager))
    <3>1. cli'.pc = "rbac" /\ cli'.command = cli.command /\ cli'.run = cli.run /\ CommandType'
      BY <1>0, <2>1, <2>3, Went DEF CommandType, Phases
    <3>2. made' = made \cup Range(Manager)
      <4>1. Manager \in Seq(Range(Manager)) /\ Len(Manager) \in 0..Len(Manager)
        BY FileSets
      <4>2. First(Manager, Len(Manager)) = Range(Manager)
        BY <4>1, FirstElements
      <4>3. QED
        BY <2>3, <4>2 DEF CreateMissing
    <3>3. Range(Manager) \cap (Range(Rbac) \cup Range(Crds)) = {}
      BY FileSets
    <3>4. cli.command = "deploy" /\ before.clean => Untouched' /\ Completed'
      BY <1>0, <2>1, <3>1, <3>2, <3>3 DEF DeployInv, At, Untouched, Completed, Reached
    <3>5. QED
      BY <1>0, <3>1, <3>4 DEF DeployInv
  <2>4. QED
    BY <1>1, <2>2, <2>3 DEF DeployManager, Phase
<1>2. CASE DeployRbac
  <2>1. At("deploy", "rbac") /\ secrets' = secrets
    BY <1>2 DEF DeployRbac
  <2>2. CASE Return("error")
    BY <1>0, <2>1, <2>2, CutStep
  <2>3. CASE Goto("crds") /\ made' = made \cup deployDir(Rbac, Len(Rbac))
    <3>1. cli'.pc = "crds" /\ cli'.command = cli.command /\ cli'.run = cli.run /\ CommandType'
      BY <1>0, <2>1, <2>3, Went DEF CommandType, Phases
    <3>2. /\ deployDir(Rbac, Len(Rbac)) \subseteq Range(Rbac)
          /\ Range(Rbac) \cap made = {} => deployDir(Rbac, Len(Rbac)) = Range(Rbac)
      <4>1. Rbac \in Seq(Range(Rbac)) /\ Len(Rbac) \in 0..Len(Rbac)
        BY FileSets
      <4>2. QED
        BY <4>1, DirDeployed
    <3>3. Range(Rbac) \cap Range(Crds) = {}
      BY FileSets
    <3>4. cli.command = "deploy" /\ before.clean => Untouched' /\ Completed'
      BY <1>0, <2>1, <2>3, <3>1, <3>2, <3>3 DEF DeployInv, At, Untouched, Completed, Reached, Partly
    <3>5. QED
      BY <1>0, <3>1, <3>4 DEF DeployInv
  <2>4. QED
    BY <1>2, <2>2, <2>3 DEF DeployRbac, Phase
<1>3. CASE DeployCrds
  <2>1. At("deploy", "crds") /\ secrets' = secrets
    BY <1>3 DEF DeployCrds
  <2>2. CASE Return("error")
    BY <1>0, <2>1, <2>2, CutStep
  <2>3. CASE Goto("secrets") /\ made' = made \cup deployDir(Crds, Len(Crds))
    <3>1. cli'.pc = "secrets" /\ cli'.command = cli.command /\ cli'.run = cli.run /\ CommandType'
      BY <1>0, <2>1, <2>3, Went DEF CommandType, Phases
    <3>2. /\ deployDir(Crds, Len(Crds)) \subseteq Range(Crds)
          /\ Range(Crds) \cap made = {} => deployDir(Crds, Len(Crds)) = Range(Crds)
      <4>1. Crds \in Seq(Range(Crds)) /\ Len(Crds) \in 0..Len(Crds)
        BY FileSets
      <4>2. QED
        BY <4>1, DirDeployed
    <3>3. cli.command = "deploy" /\ before.clean => Untouched' /\ Completed'
      BY <1>0, <2>1, <2>3, <3>1, <3>2 DEF DeployInv, At, Untouched, Completed, Reached, Partly
    <3>4. QED
      BY <1>0, <3>1, <3>3 DEF DeployInv
  <2>4. QED
    BY <1>3, <2>2, <2>3 DEF DeployCrds, Phase
<1>4. CASE DeploySecrets
  <2>1. At("deploy", "secrets") /\ made' = made
    BY <1>4 DEF DeploySecrets
  <2>2. ASSUME NEW k, CreateSecrets(k) PROVE secrets' \in [Range(Secrets) -> Nat]
    BY <1>0, <2>2 DEF CreateSecrets, CommandType
  <2>3. CASE Return("error")
    <3>1. secrets' \in [Range(Secrets) -> Nat]
      BY <1>0, <1>4, <2>2 DEF DeploySecrets
    <3>2. QED
      BY <1>0, <2>3, <3>1, CutStep
  <2>4. CASE Goto("instance") /\ CreateSecrets(Len(Secrets))
    <3>1. cli'.pc = "instance" /\ cli'.command = cli.command /\ cli'.run = cli.run /\ CommandType'
      BY <1>0, <2>2, <2>4, Went DEF CommandType, Phases
    <3>2. secrets' = [s \in Range(Secrets) |-> IF secrets[s] = 0 THEN cli.run ELSE secrets[s]]
      <4>1. Secrets \in Seq(Range(Secrets)) /\ Len(Secrets) \in 0..Len(Secrets)
        BY FileSets
      <4>2. First(Secrets, Len(Secrets)) = Range(Secrets)
        BY <4>1, FirstElements
      <4>3. QED
        BY <2>4, <4>2 DEF CreateSecrets
    <3>3. cli.run \in Nat /\ cli.run # 0
      BY <2>1 DEF DeployInv, CommandType, At
    <3>4. cli.command = "deploy" /\ before.clean => Untouched' /\ Completed'
      <4> SUFFICES ASSUME cli.command = "deploy", before.clean PROVE Untouched' /\ Completed'
        OBVIOUS
      <4>1. cli.pc = "secrets" /\ secrets = before.secrets /\ secrets \in [Range(Secrets) -> Nat]
        BY <2>1 DEF DeployInv, CommandType, At, Untouched
      <4>2. /\ Range(Manager) \subseteq made
            /\ Partly(Rbac) \/ Range(Rbac) \subseteq made
            /\ Partly(Crds) \/ Range(Crds) \subseteq made
        BY <4>1 DEF DeployInv, Completed, Reached
      <4>3. \A s \in Range(Secrets) : secrets'[s] # 0
        BY <3>2, <3>3
      <4>4. SecretsDiffer \/ \A s, t \in Range(Secrets) : secrets'[s] = secrets'[t]
        BY <3>2, <4>1 DEF SecretsDiffer
      <4>5. UNCHANGED <<made, before>>
        BY <1>0, <2>1
      <4>6. Untouched'
        BY <3>1 DEF Untouched
      <4>7. Completed'
        BY <3>1, <4>2, <4>3, <4>4, <4>5, Zenon DEF Completed, Partly, SecretsDiffer
      <4>8. QED
        BY <4>6, <4>7
    <3>5. QED
      BY <1>0, <3>1, <3>4 DEF DeployInv
  <2>5. QED
    BY <1>4, <2>3, <2>4 DEF DeploySecrets, Phase
<1>5. CASE DeployInstance
  <2>1. At("deploy", "instance") /\ UNCHANGED <<made, secrets>>
    BY <1>5 DEF DeployInstance, cluster
  <2>2. CASE Return("error")
    BY <1>0, <2>1, <2>2, CutStep
  <2>3. CASE Return("ok")
    <3>1. cli'.pc = "idle" /\ cli'.outcome = "ok" /\ cli'.command = cli.command /\ cli'.run = cli.run /\ CommandType'
      BY <1>0, <2>1, <2>3, CameBack DEF CommandType
    <3>2. cli.command = "deploy" /\ before.clean => Untouched' /\ Completed'
      BY <1>0, <2>1, <3>1, Zenon DEF DeployInv, At, Untouched, Completed, Reached, Partly, SecretsDiffer
    <3>3. QED
      BY <1>0, <3>1, <3>2 DEF DeployInv
  <2>4. QED
    BY <1>5, <2>2, <2>3 DEF DeployInstance
<1>6. QED
  BY <1>1, <1>2, <1>3, <1>4, <1>5

(* While another command runs, or once it has returned, deploy peer        *)
(* promises nothing; a new one starts from what there is.                  *)
LEMMA OtherCommand ==
    ASSUME DeployInv, cli' \in [command : {"delete"}, pc : Phases \cup {"idle", "list", "delete", "wait"},
                                outcome : {"none", "ok", "error"}, run : Nat \ {0},
                                todo : SUBSET Instances, handled : SUBSET Instances],
           secrets' \in [Range(Secrets) -> Nat]
    PROVE  DeployInv'
<1>1. CommandType' /\ cli'.command = "delete" /\ cli'.run # 0
  BY DEF CommandType
<1>2. QED
  BY <1>1 DEF DeployInv

LEMMA DeleteStep ==
    ASSUME DeployInv, Command, cli.command = "delete"
    PROVE  DeployInv'
<1>0. CommandType /\ cli.run \in Nat \ {0} /\ secrets \in [Range(Secrets) -> Nat]
  BY DEF DeployInv, CommandType
<1>1. ASSUME NEW to \in Phases \cup {"delete"}, Goto(to), secrets' \in [Range(Secrets) -> Nat] PROVE DeployInv'
  BY <1>0, <1>1, OtherCommand DEF CommandType, Goto
<1>2. ASSUME NEW outcome \in {"ok", "error"}, Return(outcome), secrets' \in [Range(Secrets) -> Nat] PROVE DeployInv'
  BY <1>0, <1>2, OtherCommand, Zenon DEF CommandType, Return
<1>3. CASE ListInstances
  BY <1>0, <1>3, OtherCommand, Zenon DEF ListInstances, CommandType, cluster
<1>4. ASSUME NEW i \in Instances, DeleteListed(i) PROVE DeployInv'
  <2>1. \/ cli' = [cli EXCEPT !.pc = "wait", !.todo = @ \ {i}, !.handled = @ \cup {i}]
        \/ cli' = [cli EXCEPT !.todo = @ \ {i}]
    BY <1>4 DEF DeleteListed
  <2>2. secrets' = secrets
    BY <1>4 DEF DeleteListed, cluster
  <2>3. CASE cli' = [cli EXCEPT !.pc = "wait", !.todo = @ \ {i}, !.handled = @ \cup {i}]
    BY <1>0, <2>2, <2>3, OtherCommand, Zenon DEF CommandType
  <2>4. CASE cli' = [cli EXCEPT !.todo = @ \ {i}]
    BY <1>0, <2>2, <2>4, OtherCommand DEF CommandType
  <2>5. QED
    BY <2>1, <2>3, <2>4
<1>5. CASE waitForInstanceDeletion \/ InstancesDeleted
  BY <1>0, <1>1, <1>2, <1>5 DEF waitForInstanceDeletion, InstancesDeleted, cluster, Phases
<1>6. ASSUME NEW to, NEW order, NEW next \in Phases, DeleteDir(to, order, next) PROVE DeployInv'
  BY <1>0, <1>1, <1>2, <1>6 DEF DeleteDir, Phase
<1>7. CASE DeleteSecrets
  <2>1. secrets' \in [Range(Secrets) -> Nat]
    BY <1>0, <1>7 DEF DeleteSecrets
  <2>2. QED
    BY <1>2, <1>7, <2>1 DEF DeleteSecrets, Phase
<1>8. QED
  <2>1. {"rbac", "crds", "secrets"} \subseteq Phases
    BY DEF Phases
  <2>2. QED
    BY <1>3, <1>4, <1>5, <1>6, <1>7, <2>1
       DEF Command, DeployManager, DeployRbac, DeployCrds, DeploySecrets, DeployInstance, At

LEMMA CommandStarts ==
    ASSUME DeployInv, DeployPeerCommand \/ DeletePeerCommand
    PROVE  DeployInv'
<1>1. cli.run + 1 \in Nat \ {0} /\ secrets' = secrets /\ UNCHANGED <<made, terminating>>
      /\ secrets \in [Range(Secrets) -> Nat]
  BY DEF DeployInv, CommandType, DeployPeerCommand, DeletePeerCommand, StartCommand, cluster
<1>2. CASE DeletePeerCommand
  BY <1>1, <1>2, OtherCommand, Zenon DEF DeletePeerCommand, StartCommand, NoCommand
<1>3. CASE DeployPeerCommand
  <2>1. cli' = [NoCommand EXCEPT !.command = "deploy", !.pc = "manager", !.run = cli.run + 1]
    BY <1>3 DEF DeployPeerCommand, StartCommand
  <2>2. cli'.pc = "manager" /\ cli'.command = "deploy" /\ cli'.run = cli.run + 1 /\ CommandType'
    BY <1>1, <2>1, Zenon DEF NoCommand, CommandType, Phases
  <2>3. before'.made = made' /\ before'.secrets = secrets' /\ before'.clean = (terminating' = {})
    BY <1>1, <1>3, Zenon DEF DeployPeerCommand
  <2>4. Untouched' /\ Completed'
    BY <2>2, <2>3 DEF Untouched, Completed, Reached
  <2>5. QED
    BY <1>1, <2>2, <2>3, <2>4, Zenon DEF DeployInv
<1>4. QED
  BY <1>2, <1>3

LEMMA DeployInvStep == DeployInv /\ [CommandsNext]_allVars => DeployInv'
<1> SUFFICES ASSUME DeployInv, [CommandsNext]_allVars PROVE DeployInv'
  OBVIOUS
<1>1. CASE UNCHANGED cliVars
  BY <1>1, OutsideCommand
<1>2. ASSUME UNCHANGED <<cli, before>>, terminating # {}, secrets' \in {secrets, NoSecrets} PROVE DeployInv'
  BY <1>2, OutsideCommand
<1>3. CASE Command
  <2>1. cli.command = "delete" \/ DeployManager \/ DeployRbac \/ DeployCrds \/ DeploySecrets \/ DeployInstance
    BY <1>3, Zenon DEF Command, ListInstances, DeleteListed, waitForInstanceDeletion, InstancesDeleted, DeleteDir,
       DeleteSecrets, At
  <2>2. QED
    BY <1>3, <2>1, DeployStep, DeleteStep
<1>4. CASE InstancesTerminate \/ SystemTerminates \/ StopOperator \/ \E x \in Lingering : Terminated(x)
  BY <1>2, <1>4 DEF InstancesTerminate, SystemTerminates, StopOperator, Terminated
<1>5. CASE (\E i \in Instances : OperatorReconciles(i)) \/ UsersAndKubernetes \/ StartOperator
           \/ \E n \in Namespaces, d \in Deployments : Available(n, d)
  BY <1>1, <1>5, Zenon DEF OperatorReconciles, UsersAndKubernetes, StartOperator, Available
<1>6. CASE UNCHANGED allVars
  BY <1>1, <1>6 DEF allVars
<1>7. QED
  BY <1>3, <1>4, <1>5, <1>6, CommandStarts DEF CommandsNext

LEMMA InitDeployInv == CommandsInit => DeployInv
  BY DEF CommandsInit, NoCommand, NoSecrets, DeployInv, CommandType

(* deploy peer that returns without an error has created all it should,    *)
(* but for the three exceptions that its files and secrets make: whatever  *)
(* else happens in the cluster while it runs, and wherever earlier         *)
(* commands were cut.                                                      *)
THEOREM DeploySound == CommandsSpec => []DeployCompletes
<1>1. DeployInv => DeployCompletes
  <2> SUFFICES ASSUME DeployInv, Returned("deploy"), before.clean PROVE DeployCompletes
    BY DEF DeployCompletes
  <2>1. cli.command = "deploy" /\ cli.pc = "idle" /\ cli.outcome = "ok"
    BY Zenon DEF Returned, DeployInv, CommandType
  <2>2. QED
    BY <2>1 DEF DeployInv, Completed, Reached, DeployCompletes
<1>2. QED
  BY <1>1, InitDeployInv, DeployInvStep, PTL DEF CommandsSpec
-------------------------------------------------------------------------------
(* The certificates of the control plane. *)
CertFiles == [ca : Version \cup {NoVersion}, cert : Version \cup {NoVersion}, key : Version \cup {NoVersion}]

(* What the invariant below needs of the types. *)
ConsumerTypes ==
    /\ version \in Version /\ read \in CertFiles
    /\ authz \in TLS /\ control \in TLS /\ xdsSecrets \in TLS
    /\ clients \in [Peers -> TLS]
    /\ adding = [peer |-> adding.peer, tls |-> adding.tls, late |-> adding.late]
    /\ adding # NoAdd => adding.peer \in Peers /\ adding.tls \in TLS

(* Versions only grow on their way from the files to the consumers, and    *)
(* the watcher hands over a certificate that it has read with its key, was *)
(* able to parse, and that authorization has accepted.                     *)
HandedOver ==
    /\ authz.cert <= version /\ read.cert <= version
    /\ xdsSecrets.cert <= control.cert /\ control.cert <= authz.cert
    /\ pc \in {"key", "parse", "authz"} => authz.cert <= read.cert
    /\ pc \in {"authz", "control", "certificate", "validation", "start", "select"} =>
          read.cert = read.key /\ read.cert \notin Broken
    /\ pc \in {"control", "certificate", "validation", "start", "select"} =>
          authz.cert = read.cert /\ read.cert \notin Nameless
    /\ pc \in {"certificate", "validation"} => control.cert = read.cert

(* A client of a peer was built from the certificates that authorization   *)
(* has, and so was one that is about to be stored.                         *)
ClientsFollow ==
    /\ \A p \in Peers \ overtaken : clients[p] \in {NoTLS, authz}
    /\ adding # NoAdd /\ ~adding.late => adding.tls = authz

CertsInv == ConsumerTypes /\ HandedOver /\ ClientsFollow
-----------------------------------------------------------------------------
\* What the watcher does preserves the invariant, whoever runs it.
LEMMA ReadsPreserve ==
    ASSUME CertsInv, ReadCA \/ ReadCert \/ ReadKey \/ Parse
    PROVE  CertsInv'
<1> USE VersionsAssumption DEF CertsInv, Version, TLS, CertFiles, NoVersion, consumers, ReadFile
<1>1. CASE ReadCA
  <2>1. ConsumerTypes'
    BY <1>1 DEF ReadCA, ConsumerTypes
  <2>2. HandedOver' /\ ClientsFollow'
    BY <1>1 DEF ReadCA, ConsumerTypes, HandedOver, ClientsFollow
  <2>3. QED
    BY <2>1, <2>2
<1>2. CASE ReadCert
  <2>1. ConsumerTypes'
    BY <1>2 DEF ReadCert, ConsumerTypes
  <2>2. HandedOver' /\ ClientsFollow'
    BY <1>2 DEF ReadCert, ConsumerTypes, HandedOver, ClientsFollow
  <2>3. QED
    BY <2>1, <2>2
<1>3. CASE ReadKey
  <2>1. ConsumerTypes'
    BY <1>3 DEF ReadKey, ConsumerTypes
  <2>2. HandedOver' /\ ClientsFollow'
    BY <1>3 DEF ReadKey, ConsumerTypes, HandedOver, ClientsFollow
  <2>3. QED
    BY <2>1, <2>2
<1>4. CASE Parse
  <2>1. ConsumerTypes'
    BY <1>4 DEF Parse, ConsumerTypes
  <2>2. HandedOver' /\ ClientsFollow'
    BY <1>4 DEF Parse, Parses, ConsumerTypes, HandedOver, ClientsFollow
  <2>3. QED
    BY <2>1, <2>2
<1>5. QED
  BY <1>1, <1>2, <1>3, <1>4

LEMMA AuthzPreserves ==
    ASSUME CertsInv, SetAuthz
    PROVE  CertsInv'
<1> USE VersionsAssumption DEF CertsInv, Version, TLS, CertFiles, NoVersion
<1>1. CASE read.cert \in Nameless
  BY <1>1 DEF SetAuthz, ConsumerTypes, HandedOver, ClientsFollow
<1>2. CASE read.cert \notin Nameless
  <2>1. ReadTLS \in TLS
    BY DEF ReadTLS, ConsumerTypes
  <2>2. adding' = [peer |-> adding.peer, tls |-> adding.tls, late |-> adding # NoAdd]
    BY <1>2 DEF SetAuthz, ConsumerTypes
  <2>8. adding = NoAdd => adding' = NoAdd
    <3> SUFFICES ASSUME adding = NoAdd PROVE adding' = NoAdd
      OBVIOUS
    <3>1. (adding # NoAdd) = FALSE
      OBVIOUS
    <3>2. adding' = [peer |-> adding.peer, tls |-> adding.tls, late |-> FALSE]
      BY <2>2, <3>1, Zenon
    <3>3. QED
      BY <3>2 DEF NoAdd
  <2>9. adding # NoAdd => adding' = [peer |-> adding.peer, tls |-> adding.tls, late |-> TRUE]
    BY <2>2, Zenon
  <2>. NoTLS \in TLS
    BY DEF NoTLS
  <2>6. clients' \in [Peers -> TLS]
    BY <1>2, <2>1 DEF SetAuthz
  <2>7. ConsumerTypes'
    <3>1. adding' = [peer |-> adding'.peer, tls |-> adding'.tls, late |-> adding'.late]
      BY <2>2
    <3>2. adding' # NoAdd => adding'.peer \in Peers /\ adding'.tls \in TLS
      BY <2>8, <2>9 DEF ConsumerTypes
    <3>3. QED
      BY <1>2, <2>1, <2>6, <3>1, <3>2 DEF SetAuthz, ConsumerTypes
  <2>3. HandedOver'
    BY <1>2 DEF SetAuthz, ReadTLS, ConsumerTypes, HandedOver
  <2>4. ClientsFollow'
    <3>1. \A p \in Peers : clients'[p] \in {NoTLS, authz'}
      BY <1>2 DEF SetAuthz
    <3>2. adding' # NoAdd => adding'.late
      BY <2>8, <2>9
    <3>3. QED
      BY <3>1, <3>2 DEF ClientsFollow
  <2>5. QED
    BY <2>3, <2>4, <2>7
<1>3. QED
  BY <1>1, <1>2

LEMMA OthersPreserve ==
    ASSUME CertsInv, SetControl \/ SetCertificate \/ SetValidation
    PROVE  CertsInv'
<1> USE VersionsAssumption DEF CertsInv, Version, TLS, CertFiles, NoVersion
<1>1. CASE SetControl
  <2>1. ConsumerTypes'
    BY <1>1, Zenon DEF SetControl, ReadTLS, ConsumerTypes
  <2>2. HandedOver'
    BY <1>1 DEF SetControl, ReadTLS, ConsumerTypes, HandedOver
  <2>3. ClientsFollow'
    BY <1>1, Zenon DEF SetControl, ClientsFollow
  <2>4. QED
    BY <2>1, <2>2, <2>3
<1>2. CASE SetCertificate
  <2>1. ConsumerTypes'
    BY <1>2 DEF SetCertificate, ConsumerTypes
  <2>2. HandedOver'
    BY <1>2 DEF SetCertificate, ConsumerTypes, HandedOver
  <2>3. ClientsFollow'
    BY <1>2 DEF SetCertificate, ClientsFollow
  <2>4. QED
    BY <2>1, <2>2, <2>3
<1>3. CASE SetValidation
  <2>1. ConsumerTypes'
    BY <1>3 DEF SetValidation, ConsumerTypes
  <2>2. HandedOver'
    BY <1>3 DEF SetValidation, ConsumerTypes, HandedOver
  <2>3. ClientsFollow'
    BY <1>3 DEF SetValidation, ClientsFollow
  <2>4. QED
    BY <2>1, <2>2, <2>3
<1>4. QED
  BY <1>1, <1>2, <1>3

\* Steps that change neither files nor consumers.
LEMMA WatchingPreserves ==
    ASSUME CertsInv, UNCHANGED <<version, read, consumers>>,
           \/ pc' = pc
           \/ pc' \in {"read", "ended"}
           \/ pc = "start" /\ pc' = "select"
    PROVE  CertsInv'
  BY DEF CertsInv, ConsumerTypes, HandedOver, ClientsFollow, consumers

LEMMA RotationPreserves ==
    ASSUME CertsInv, Rotate
    PROVE  CertsInv'
  BY VersionsAssumption DEF Rotate, CertsInv, ConsumerTypes, HandedOver, ClientsFollow, consumers,
     Version, TLS, CertFiles, NoVersion

LEMMA RestartPreserves ==
    ASSUME CertsInv, Restart
    PROVE  CertsInv'
<1> USE VersionsAssumption DEF CertsInv, Version, TLS, CertFiles, NoVersion
<1>1. ConsumerTypes'
  BY DEF Restart, ConsumerTypes, NoTLS, NoAdd, NoClients
<1>2. HandedOver'
  BY DEF Restart, ConsumerTypes, HandedOver, NoTLS
<1>3. ClientsFollow'
  BY DEF Restart, ClientsFollow, NoClients
<1>4. QED
  BY <1>1, <1>2, <1>3

LEMMA PeersPreserve ==
    ASSUME CertsInv, NEW p \in Peers, AddPeer(p) \/ StorePeer \/ DeletePeer(p)
    PROVE  CertsInv'
<1> USE DEF CertsInv
<1>1. CASE AddPeer(p)
  <2>1. ConsumerTypes' /\ HandedOver'
    BY <1>1 DEF AddPeer, ConsumerTypes, HandedOver
  <2>2. ClientsFollow'
    BY <1>1, Zenon DEF AddPeer, ClientsFollow
  <2>3. QED
    BY <2>1, <2>2
<1>2. CASE StorePeer
  <2>1. ConsumerTypes' /\ HandedOver'
    BY <1>2 DEF StorePeer, ConsumerTypes, HandedOver, NoAdd
  <2>2. ClientsFollow'
    BY <1>2 DEF StorePeer, ConsumerTypes, ClientsFollow
  <2>3. QED
    BY <2>1, <2>2
<1>3. CASE DeletePeer(p)
  <2>1. NoTLS \in TLS
    BY DEF NoTLS, TLS
  <2>2. ConsumerTypes' /\ HandedOver'
    BY <1>3, <2>1 DEF DeletePeer, ConsumerTypes, HandedOver
  <2>3. ClientsFollow'
    BY <1>3 DEF DeletePeer, ConsumerTypes, ClientsFollow
  <2>4. QED
    BY <2>2, <2>3
<1>4. QED
  BY <1>1, <1>2, <1>3

LEMMA CertsInitial == ControlPlaneInit => CertsInv
<1> SUFFICES ASSUME CertsInit PROVE CertsInv
  BY DEF ControlPlaneInit
<1> USE VersionsAssumption DEF Version, TLS, CertFiles, NoVersion, NoTLS
<1>1. ConsumerTypes
  BY DEF CertsInit, ConsumerTypes, NoAdd, NoClients
<1>2. HandedOver
  BY DEF CertsInit, HandedOver
<1>3. ClientsFollow
  BY DEF CertsInit, ClientsFollow, NoClients
<1>4. QED
  BY <1>1, <1>2, <1>3 DEF CertsInv

LEMMA CertsStep == CertsInv /\ [ControlPlaneNext]_controlPlaneVars => CertsInv'
<1> SUFFICES ASSUME CertsInv, [ControlPlaneNext]_controlPlaneVars PROVE CertsInv'
  OBVIOUS
<1>1. ASSUME ReadCertsAndUpdateConsumers PROVE CertsInv'
  BY <1>1, ReadsPreserve, AuthzPreserves, OthersPreserve DEF ReadCertsAndUpdateConsumers
<1>2. ASSUME UNCHANGED certsVars PROVE CertsInv'
  BY <1>2, WatchingPreserves DEF certsVars
<1>3. ASSUME UNCHANGEDButEnds PROVE CertsInv'
  BY <1>3, WatchingPreserves DEF UNCHANGEDButEnds
<1>4. CASE ReadFirst
  BY <1>1, <1>4 DEF ReadFirst
<1>5. CASE Run
  BY <1>2, <1>3, <1>5 DEF Run
<1>6. CASE RestartProcess
  BY <1>6, RestartPreserves DEF RestartProcess
<1>7. CASE Stopper
  BY <1>2, <1>7 DEF Stopper
<1>8. CASE StartWatcher
  BY <1>8, WatchingPreserves DEF StartWatcher, Watch
<1>9. CASE ReadAgain
  BY <1>1, <1>9 DEF ReadAgain
<1>10. CASE NextEvent
  BY <1>10, WatchingPreserves DEF NextEvent, Event
<1>11. CASE NextTick
  BY <1>11, WatchingPreserves DEF NextTick, Tick
<1>12. CASE StopWatcher
  BY <1>12, WatchingPreserves DEF StopWatcher, End
<1>13. CASE FailWatcher
  BY <1>13, WatchingPreserves DEF FailWatcher
<1>14. CASE \E r \in 1..N : Other(r) \/ FailOther(r) \/ Ended(r)
  BY <1>2, <1>3, <1>14 DEF Other, StartOther, StopOther, FailOther, Ended
<1>15. CASE PeerController
  BY <1>15, PeersPreserve DEF PeerController
<1>16. CASE FinishAddPeer
  <2>1. CASE adding = NoAdd
    BY <1>16, <2>1 DEF FinishAddPeer, StorePeer
  <2>2. CASE adding # NoAdd
    BY <1>16, <2>2, PeersPreserve DEF FinishAddPeer, CertsInv, ConsumerTypes
  <2>3. QED
    BY <2>1, <2>2
<1>17. CASE RotateSecret
  BY <1>17, RotationPreserves DEF RotateSecret
<1>18. CASE UNCHANGED controlPlaneVars
  BY <1>2, <1>18 DEF controlPlaneVars
<1>19. QED
  BY <1>4, <1>5, <1>6, <1>7, <1>8, <1>9, <1>10, <1>11, <1>12, <1>13, <1>14, <1>15, <1>16, <1>17,
     <1>18 DEF ControlPlaneNext, Process, Watcher

\* In a control plane that is restarted as often as it ends, whatever its
\* runnables do, no consumer gets a certificate without its key, or one that
\* authorization refused, and clients of peers keep to the current one
\* (ReadCertsAndUpdateConsumers, SetPeerCertificates, AddPeer).
THEOREM Agreement == ControlPlaneSpec => []ConsumersAgree
<1>1. CertsInv => ConsumersAgree
  BY DEF CertsInv, HandedOver, ClientsFollow, ConsumersAgree
<1>2. QED
  BY <1>1, CertsInitial, CertsStep, PTL DEF ControlPlaneSpec
=============================================================================
