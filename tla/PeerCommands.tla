----------------------------- MODULE PeerCommands -----------------------------
(***************************************************************************)
(* The commands clusterlink deploy peer and clusterlink delete peer        *)
(* (cmd/clusterlink/cmd/deploy and cmd/clusterlink/cmd/delete), together   *)
(* with the operator that they install and remove.                         *)
(*                                                                         *)
(* A command works through phases.  A phase is one step here, which the    *)
(* user, the network or the API server may cut after any of its objects;   *)
(* the command then returns an error.  One command runs at a time, and can *)
(* be given again.                                                         *)
(*                                                                         *)
(* Namespaces and the definition of instances do not disappear at once     *)
(* when they are deleted, but only after what they hold.                   *)
(***************************************************************************)
EXTENDS Operator

CONSTANTS System,      \* the namespace clusterlink-system
          ClInstance   \* the instance that deploy peer creates

ASSUME CommandsAssumption == System \in Namespaces /\ ClInstance \in Instances

VARIABLES made,         \* the objects of the manager, rbac and crds files that exist
          terminating,  \* those that are being deleted, and the pod of the operator
          secrets,      \* the run of deploy peer that made the CA of a secret (0: no secret)
          cli,          \* the command that runs
          before        \* history: the objects and secrets when deploy peer was started

cluster == <<made, terminating, secrets>>
cliVars == <<made, terminating, secrets, cli, before>>
operatorVars == <<instances, finalizer, status, running, owner, queue, call, objects>>
allVars == <<vars, cliVars>>

(* The files, in the order in which the commands take them.  Of a          *)
(* directory there is one file for each kind that matters: the role of the *)
(* operator belongs to no namespace, the others to the operator's; the     *)
(* definition of instances has others before and after it.                 *)
Manager == <<"operatorNamespace", "deployment", "systemNamespace">>
Rbac == <<"leaderRole", "role", "serviceAccount">>
Crds == <<"exports", "instances", "peers">>
Secrets == <<"ca", "controlplane", "dataplane", "peer">>

Files == Range(Manager) \cup Range(Rbac) \cup Range(Crds)
InOperatorNamespace == {"deployment", "leaderRole", "serviceAccount"}
Lingering == {"operatorNamespace", "systemNamespace", "instances"}

(* The pod outlives its deployment for a while. *)
Doomed(deleted) == IF running /\ "deployment" \in deleted THEN {"pod"} ELSE {}

Phases == {"manager", "rbac", "crds", "secrets", "instance"}
NoCommand == [command |-> "none", pc |-> "idle", outcome |-> "none", run |-> 0,
              todo |-> {}, handled |-> {}]

CommandsTypeOK ==
    /\ TypeOK
    /\ made \subseteq Files /\ terminating \subseteq (made \cap Lingering) \cup {"pod"}
    /\ secrets \in [Range(Secrets) -> 0..setup.commands]
    /\ cli \in [command : {"none", "deploy", "delete"},
                pc : Phases \cup {"idle", "list", "delete", "wait"},
                outcome : {"none", "ok", "error"}, run : 0..setup.commands,
                todo : SUBSET Instances, handled : SUBSET Instances]

NoSecrets == [s \in Range(Secrets) |-> 0]

(* Without commands, everything the operator needs is there. *)
CommandsInit ==
    /\ Init
    /\ made = (IF setup.commands = 0 THEN Files ELSE {})
    /\ terminating = {}
    /\ secrets = NoSecrets
    /\ cli = NoCommand
    /\ before = [made |-> {}, secrets |-> NoSecrets, clean |-> TRUE]
-------------------------------------------------------------------------------
(* Running a command. *)

StartCommand(command, pc) ==
    /\ cli.pc = "idle" /\ cli.run < setup.commands
    /\ cli' = [NoCommand EXCEPT !.command = command, !.pc = pc, !.run = cli.run + 1]
    /\ UNCHANGED <<vars, cluster>>

At(command, pc) == cli.command = command /\ cli.pc = pc
Goto(pc) == cli' = [cli EXCEPT !.pc = pc]
Return(outcome) == cli' = [cli EXCEPT !.pc = "idle", !.outcome = outcome]

(* A phase has dealt with its first k objects: these are all, or it is cut. *)
Cuts(order) == 0..Len(order)
Phase(order, k, then) ==
    IF k = Len(order) THEN then /\ UNCHANGED counters ELSE Happens("cut") /\ Return("error")

(* decoder.DecodeEach with CreateIgnoreAlreadyExists *)
CreateMissing(order, k) == First(order, k) \ made

(* deployDir: CreateHandler ends with the first file that exists already,  *)
(* which deployDir takes for success.                                      *)
deployDir(order, k) ==
    {order[j] : j \in {l \in 1..k : First(order, l) \cap made = {}}}

(* Nothing can be created in a namespace that is being deleted. *)
Open(namespace) == namespace \in made \ terminating
-------------------------------------------------------------------------------
(* deploy peer *)

DeployPeerCommand ==
    /\ StartCommand("deploy", "manager")
    /\ before' = [made |-> made, secrets |-> secrets, clean |-> terminating = {}]

DeployManager ==
    /\ At("deploy", "manager")
    /\ IF "operatorNamespace" \in terminating
         THEN Return("error") /\ UNCHANGED <<made, counters>>
         ELSE \E k \in Cuts(Manager) :
                /\ Phase(Manager, k, Goto("rbac")) /\ made' = made \cup CreateMissing(Manager, k)
    /\ UNCHANGED <<operatorVars, terminating, secrets, before>>

DeployRbac ==
    /\ At("deploy", "rbac")
    /\ \E k \in Cuts(Rbac) :
          Phase(Rbac, k, Goto("crds")) /\ made' = made \cup deployDir(Rbac, k)
    /\ UNCHANGED <<operatorVars, terminating, secrets, before>>

DeployCrds ==
    /\ At("deploy", "crds")
    /\ \E k \in Cuts(Crds) :
          Phase(Crds, k, Goto("secrets")) /\ made' = made \cup deployDir(Crds, k)
    /\ UNCHANGED <<operatorVars, terminating, secrets, before>>

(* Mutant of CreateSecrets: as in a directory, the first that exists is the last. *)
CreateSecretsOnce(k) ==
    secrets' = [s \in Range(Secrets) |->
        IF secrets = NoSecrets /\ s \in First(Secrets, k) THEN cli.run ELSE secrets[s]]

(* The secrets that are missing get certificates of the CA of this run. *)
CreateSecrets(k) ==
    secrets' = [s \in Range(Secrets) |->
        IF secrets[s] = 0 /\ s \in First(Secrets, k) THEN cli.run ELSE secrets[s]]

DeploySecrets ==
    /\ At("deploy", "secrets")
    /\ IF Open("systemNamespace")
         THEN \E k \in Cuts(Secrets) : Phase(Secrets, k, Goto("instance")) /\ CreateSecrets(k)
         ELSE Return("error") /\ UNCHANGED <<secrets, counters>>
    /\ UNCHANGED <<operatorVars, made, terminating, before>>

InstancesServed == Open("instances") /\ Open("operatorNamespace")

(* The instance is created.  Nothing is done for one that exists, or with  *)
(* --start operator, where an example is written to a file.                *)
DeployInstance ==
    /\ At("deploy", "instance")
    /\ \/ /\ InstancesServed /\ ~Exists(ClInstance)
          /\ NewInstance(ClInstance)
          /\ Return("ok")
       \/ UNCHANGED <<operatorVars, counters>> /\ Return("ok")
       \/ ~InstancesServed /\ UNCHANGED <<operatorVars, counters>> /\ Return("error")
       \/ Happens("cut") /\ UNCHANGED operatorVars /\ Return("error")
    /\ UNCHANGED <<cluster, before>>
-------------------------------------------------------------------------------
(* delete peer *)

DeletePeerCommand == StartCommand("delete", "list") /\ UNCHANGED before

(* Without the definition of instances the list is empty. *)
ListInstances ==
    /\ At("delete", "list")
    /\ cli' = [cli EXCEPT !.pc = "delete",
                          !.todo = {i \in Instances : "instances" \in made /\ Exists(i)}]
    /\ UNCHANGED <<vars, cluster, before>>

(* The next instance is deleted; after an error, also if it is gone        *)
(* already, the loop goes on with the others.                              *)
DeleteListed(i) ==
    /\ At("delete", "delete") /\ i \in cli.todo
    /\ \/ /\ Exists(i)
          /\ DeleteInstances({i} \ {j \in Instances : state[j] = "deleting"})
          /\ cli' = [cli EXCEPT !.pc = "wait", !.todo = @ \ {i}, !.handled = @ \cup {i}]
          /\ UNCHANGED <<objects, counters>>
       \/ /\ ~Exists(i) /\ UNCHANGED counters
          /\ cli' = [cli EXCEPT !.todo = @ \ {i}]
          /\ UNCHANGED operatorVars
       \/ /\ Happens("skip")
          /\ cli' = [cli EXCEPT !.todo = @ \ {i}]
          /\ UNCHANGED operatorVars
    /\ UNCHANGED <<cluster, before>>

(* Mutant of waitForInstanceDeletion: nobody waits. *)
waitForNothing ==
    /\ At("delete", "wait")
    /\ Goto("delete")
    /\ UNCHANGED <<vars, cluster, before>>

(* The instance has gone, or a minute has passed. *)
waitForInstanceDeletion ==
    /\ At("delete", "wait")
    /\ IF \E i \in cli.handled : Exists(i) THEN Return("error") ELSE Goto("delete")
    /\ UNCHANGED <<vars, cluster, before>>

InstancesDeleted ==
    /\ At("delete", "delete") /\ cli.todo = {}
    /\ Goto("manager")
    /\ UNCHANGED <<vars, cluster, before>>

(* deleteDir, for the first k files. *)
deleteDir(order, k) ==
    LET deleted == First(order, k) \cap made
    IN  /\ made' = made \ (deleted \ Lingering)
        /\ terminating' = terminating \cup (deleted \cap Lingering) \cup Doomed(deleted)

DeleteDir(pc, order, next) ==
    /\ At("delete", pc)
    /\ \E k \in Cuts(order) : Phase(order, k, Goto(next)) /\ deleteDir(order, k)
    /\ UNCHANGED <<operatorVars, secrets, before>>

DeleteSecrets ==
    /\ At("delete", "secrets")
    /\ \E k \in Cuts(Secrets) :
          /\ Phase(Secrets, k, Return("ok"))
          /\ secrets' = [s \in Range(Secrets) |-> IF s \in First(Secrets, k) THEN 0 ELSE secrets[s]]
    /\ UNCHANGED <<operatorVars, made, terminating, before>>

Command ==
    \/ DeployManager \/ DeployRbac \/ DeployCrds \/ DeploySecrets \/ DeployInstance
    \/ ListInstances \/ (\E i \in Instances : DeleteListed(i)) \/ waitForInstanceDeletion
    \/ InstancesDeleted
    \/ DeleteDir("manager", Manager, "rbac") \/ DeleteDir("rbac", Rbac, "crds")
    \/ DeleteDir("crds", Crds, "secrets") \/ DeleteSecrets
-------------------------------------------------------------------------------
(* Kubernetes deletes what is in a namespace, or of a kind whose           *)
(* definition is being deleted, and in the end these themselves.           *)

InstancesTerminate ==
    LET live == {i \in Instances : state[i] = "live"}
        rest == IF "operatorNamespace" \in terminating THEN InOperatorNamespace \cap made ELSE {}
    IN  /\ terminating \cap {"operatorNamespace", "instances"} # {}
        /\ live # {} \/ rest # {}
        /\ DeleteInstances(live)
        /\ made' = made \ rest
        /\ terminating' = terminating \cup Doomed(rest)
        /\ UNCHANGED <<objects, counters, secrets, cli, before>>

SystemTerminates ==
    /\ "systemNamespace" \in terminating
    /\ parts[System] # {} \/ secrets # NoSecrets
    /\ parts' = [parts EXCEPT ![System] = {}]
    /\ deployed' = [deployed EXCEPT ![System] = NoDeployments]
    /\ addressed' = addressed \ {System}
    /\ secrets' = NoSecrets
    /\ UNCHANGED <<instances, finalizer, status, running, owner, queue, call, binding, role,
                   counters, made, terminating, cli, before>>

Held(x) ==
    IF x = "systemNamespace" THEN parts[System] # {} \/ secrets # NoSecrets
    ELSE \/ \E i \in Instances : Exists(i)
         \/ x = "operatorNamespace" /\ InOperatorNamespace \cap made # {}

Terminated(x) ==
    /\ x \in terminating /\ ~Held(x)
    /\ made' = made \ {x} /\ terminating' = terminating \ {x}
    /\ UNCHANGED <<vars, secrets, cli, before>>

(* The pod of the operator starts when all that it needs exists, and stops *)
(* some time after its deployment was deleted.                             *)
StartOperator ==
    /\ ~running
    /\ {"operatorNamespace", "deployment", "instances"} \cup Range(Rbac) \subseteq made
    /\ running' = TRUE
    /\ NewProcess
    /\ UNCHANGED <<counters, cliVars>>

StopOperator ==
    /\ "pod" \in terminating
    /\ running' = FALSE
    /\ terminating' = terminating \ {"pod"}
    /\ UNCHANGED <<instances, finalizer, status, owner, queue, call, objects, counters,
                   made, secrets, cli, before>>
-------------------------------------------------------------------------------
(* The operator, with the roles it has left.  In a namespace that is being *)
(* deleted, or does not exist, nothing can be created.                     *)
Closed(n) == n = System /\ ~Open("systemNamespace")

(* How many objects of the instance come before the first that is missing  *)
(* in its namespace.                                                       *)
Creatable(n) == Max({k \in 0..Len(ApplyOrder) : First(ApplyOrder, k) \cap Parts \subseteq parts[n]})

ApplyRefused(i) ==
    /\ MayTake(i) /\ Take(i) /\ createFinalizer(i)
    /\ ApplyStops(i, Creatable(ns[i]))
    /\ UNCHANGED <<instances, running, counters>>

OperatorReconciles(i) ==
    /\ running /\ Range(Rbac) \cup {"instances"} \subseteq made
    /\ IF Closed(ns[i]) /\ Creatable(ns[i]) < Len(ApplyOrder) /\ state[i] = "live" /\ MayTake(i)
         THEN ApplyRefused(i) ELSE Reconcile(i)
    /\ UNCHANGED cliVars

UsersAndKubernetes ==
    /\ \/ \E i \in Instances : \/ InstancesServed /\ (Create(i) \/ Move(i))
                               \/ DeleteInstance(i)
       \/ \E n \in Namespaces :
             \/ AssignAddress(n)
             \/ \E d \in Deployments : DeploymentFails(n, d) \/ RemoveDeployment(n, d)
       \/ Crash
    /\ UNCHANGED cliVars

Available(n, d) == BecomeAvailable(n, d) /\ UNCHANGED cliVars

CommandsNext ==
    \/ \E i \in Instances : OperatorReconciles(i)
    \/ UsersAndKubernetes
    \/ \E n \in Namespaces, d \in Deployments : Available(n, d)
    \/ DeployPeerCommand \/ DeletePeerCommand \/ Command
    \/ InstancesTerminate \/ SystemTerminates \/ \E x \in Lingering : Terminated(x)
    \/ StartOperator \/ StopOperator

(* The queue of the operator is worked off in some fair order, a command   *)
(* goes on, and Kubernetes starts, stops and deletes what it is told to.   *)
CommandsSpec ==
    /\ CommandsInit /\ [][CommandsNext]_allVars
    /\ \A i \in Instances : SF_allVars(OperatorReconciles(i))
    /\ \A n \in Namespaces, d \in Deployments : WF_allVars(Available(n, d))
    /\ WF_allVars(Command)
    /\ WF_allVars(InstancesTerminate) /\ WF_allVars(SystemTerminates)
    /\ \A x \in Lingering : WF_allVars(Terminated(x))
    /\ WF_allVars(StartOperator) /\ WF_allVars(StopOperator)
-------------------------------------------------------------------------------
Returned(command) == cli = [cli EXCEPT !.command = command, !.pc = "idle", !.outcome = "ok"]

(* Part of the files existed before deploy peer was started, or the        *)
(* secrets were not all of one run.                                        *)
Partly(order) == before.made \cap Range(order) \notin {{}, Range(order)}
SecretsDiffer == \E s, t \in Range(Secrets) : before.secrets[s] # before.secrets[t]

(* deploy peer that returns without an error has created what the operator *)
(* and the components need, also when an earlier command was cut: the      *)
(* manager and all secrets, with certificates of one CA, the roles and the *)
(* definitions.  There are three exceptions: something was still being     *)
(* deleted when it started; a directory of which a part existed stays      *)
(* incomplete; and secrets of which a part existed are of two CAs, for good. *)
DeployCompletes ==
    Returned("deploy") /\ before.clean =>
        /\ Range(Manager) \subseteq made
        /\ Partly(Rbac) \/ Range(Rbac) \subseteq made
        /\ Partly(Crds) \/ Range(Crds) \subseteq made
        /\ \A s, t \in Range(Secrets) :
              secrets[s] # 0 /\ (SecretsDiffer \/ secrets[s] = secrets[t])

(* "To completely remove ClusterLink from the cluster, including the       *)
(* operator, CRDs, namespaces, and instances": some time after delete peer *)
(* has returned without an error nothing is left, unless another command   *)
(* is given or there is an instance that it did not wait for, as it was    *)
(* created after the list was read or could not be deleted.                *)
Nothing ==
    /\ made = {} /\ secrets = NoSecrets /\ role = FALSE /\ binding = None
    /\ \A i \in Instances : ~Exists(i)
    /\ \A n \in Namespaces : parts[n] \subseteq {"account"}
DeleteLeavesNothing ==
    Returned("delete") ~>
        (Nothing \/ cli.pc # "idle" \/ \E i \in Instances \ cli.handled : Exists(i))
===============================================================================
