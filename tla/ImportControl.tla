----------------------------- MODULE ImportControl -----------------------------
(***************************************************************************)
(* How the control plane turns imports and exports into leased ports,      *)
(* Kubernetes services and data plane listeners.  The controllers          *)
(* control.import, control.service and control.export share one            *)
(* control.Manager (pkg/controlplane/control/manager.go) and its port      *)
(* manager; xds.import feeds the listeners (pkg/controlplane/xds).         *)
(*                                                                         *)
(* Every controller has one worker and a queue of names, and reads objects *)
(* from an informer cache that may lag behind the API server.  A worker    *)
(* runs a handler as a sequence of steps, one per call to the API server   *)
(* or to the port manager; steps of different workers interleave.  A read  *)
(* of the cache and the write it decides on are one step: a stale cache    *)
(* stands for the time between them.                                       *)
(*                                                                         *)
(* Resource versions are abstracted to one bit: a copy of an import is     *)
(* current as long as nobody wrote the import since the copy was taken; an *)
(* update from a copy that is not current is a conflict.                   *)
(***************************************************************************)
EXTENDS Integers, FiniteSets

CONSTANTS Names,        \* names of imports, exports and their services
          SystemNames,  \* those in the namespace of the control plane
          NoName, startPort, endPort, MaxPort,  \* see PortManager
          UserPorts,    \* target ports that users ask for
          MaxAddress,   \* bound: the addresses of the data plane's pods
          Environments  \* what may happen around the control plane, see Environment

Addresses == 1..MaxAddress
Workers == {"import", "service"}
UserOps == {"create", "delete", "edit", "merge", "service", "export", "dataplane"}

(* An environment bounds what users do (names, ops, maxOps) and how often  *)
(* the control plane restarts, tells which of control.import and           *)
(* control.service have anything to do, and whether caches are up to date  *)
(* whenever a worker reads them (fresh).                                   *)
Environment == [names: SUBSET Names, ops: SUBSET UserOps, maxOps: Nat, maxRestarts: Nat,
                workers: SUBSET Workers, fresh: BOOLEAN]

ASSUME ControlAssumption ==
    /\ SystemNames \subseteq Names /\ NoName \notin Names /\ IsFiniteSet(Names)
    /\ startPort \in Nat \ {0} /\ endPort \in Nat /\ MaxPort \in Nat
    /\ startPort + 3 <= endPort /\ endPort <= MaxPort
    /\ UserPorts \subseteq 1..MaxPort
    /\ Environments \subseteq Environment /\ MaxAddress \in Nat \ {0}

VARIABLES imports,         \* the imports in the API server
          importCache,     \* the imports in the informer cache
          importCurrent,   \* names whose cached import is current
          services,        \* the services in the API server, by service key
          serviceCache,    \* the services in the informer cache
          serviceCurrent,  \* keys whose cached service is current
          exports,         \* validity of the exports in the API server
          slices,          \* the endpoint slice of a merge import, or NoSlice
          dataplaneSlice,  \* the addresses in the endpoint slice of the data plane (0: there is none)
          leasesByPort, leasesByName,  \* the port manager
          serviceToImport, \* names whose system service is known to the manager
          listeners,       \* port of the xDS listener of an import (0: none)
          importQ, serviceQ, exportQ, sliceQ, xdsQ,  \* work queues of the controllers
          worker,          \* what the workers of control.import and control.service do
          environment,     \* one of Environments, for the whole behaviour
          userOps, restarts                  \* bounded counters of the environment

api == <<imports, services, exports, slices, dataplaneSlice>>
caches == <<importCache, importCurrent, serviceCache, serviceCurrent>>
ports == <<leasesByPort, leasesByName>>
queues == <<importQ, serviceQ, exportQ, sliceQ, xdsQ>>
env == <<userOps, restarts>>
vars == <<api, caches, ports, serviceToImport, listeners, queues, worker, env, environment>>

(* The return value of the port manager is used in the step that calls it. *)
Ports == INSTANCE PortManager WITH ret <- 0

(***************************************************************************)
(* Objects.  The status of an import stands for its two conditions: the    *)
(* port is valid (TargetPortValid) unless the status is Unset or           *)
(* PortError, the service is valid (ServiceValid) when it is Valid.        *)
(***************************************************************************)
ServiceErrors == {"ConflictingService", "ServiceNotExist", "ServiceApiError"}
Status == {"Unset", "Valid", "PortError"} \cup ServiceErrors
Import == [exists: BOOLEAN, targetPort: 0..MaxPort, merge: BOOLEAN, status: Status]
NoImport == [exists |-> FALSE, targetPort |-> 0, merge |-> FALSE, status |-> "Unset"]
TargetPortValid(imp) == imp.status \in {"Valid"} \cup ServiceErrors

(* A service is addressed by the import it would serve.  The service       *)
(* <<"user", n>> has the name and namespace of import n; an import outside *)
(* the namespace of the control plane also has the service <<"system", n>> *)
(* there.  A service managed for its import carries the labels of the      *)
(* import and a target port, 0 for an ExternalName service.                *)
ServiceKeys == ({"user"} \X Names) \cup ({"system"} \X (Names \ SystemNames))
(* The system service of an import, in the namespace of the control plane. *)
SystemKey(n) == <<IF n \in SystemNames THEN "user" ELSE "system", n>>

NoService == [kind |-> "none", port |-> 0]
Foreign == [kind |-> "foreign", port |-> 0]
Managed(p) == [kind |-> "managed", port |-> p]
Service == {NoService, Foreign} \cup {Managed(p) : p \in 0..MaxPort}

(* The data plane has one endpoint slice, which addEndpointSlice and       *)
(* addImport copy for every merge import, with the port of the import.  In *)
(* the queue of control.endpointslice the name of an import stands for its *)
(* slice, NoName for the one of the data plane.                            *)
Slice(port, address) == [port |-> port, address |-> address]
NoSlice == Slice(0, 0)

(* The job of an idle worker.  pc names the next call of the handler, or   *)
(* the status that addImport is about to report; imp is the local copy of  *)
(* the import.                                                             *)
Idle == [pc |-> "idle", name |-> NoName, key |-> "user", imp |-> NoImport, current |-> FALSE]

TypeOK ==
    /\ imports \in [Names -> Import] /\ importCache \in [Names -> Import]
    /\ importCurrent \subseteq Names /\ serviceCurrent \subseteq ServiceKeys
    /\ services \in [ServiceKeys -> Service] /\ serviceCache \in [ServiceKeys -> Service]
    /\ exports \in [Names -> {"none", "Unset", "Valid", "Invalid"}]
    /\ slices \in [Names -> [port : 0..MaxPort, address : Addresses \cup {0}]]
    /\ dataplaneSlice \in Addresses \cup {0}
    /\ leasesByPort \in [1..MaxPort -> Names \cup {NoName}]
    /\ leasesByName \in [Names -> 0..MaxPort]
    /\ serviceToImport \subseteq Names
    /\ listeners \in [Names -> 0..MaxPort]
    /\ importQ \subseteq Names /\ serviceQ \subseteq ServiceKeys
    /\ exportQ \subseteq Names /\ sliceQ \subseteq Names \cup {NoName} /\ xdsQ \subseteq Names
    /\ worker \in [Workers ->
          [pc: {"idle", "lease", "update", "services", "user", "Valid", "PortError",
                "export", "delete", "release", "releaseRetry"} \cup ServiceErrors,
           name: Names \cup {NoName}, key: {"user", "system"},
           imp: Import, current: BOOLEAN]]
    /\ environment \in Environments
    /\ userOps \in 0..environment.maxOps /\ restarts \in 0..environment.maxRestarts

Init ==
    /\ imports = [n \in Names |-> NoImport] /\ importCache = imports
    /\ importCurrent = Names /\ serviceCurrent = ServiceKeys
    /\ services = [k \in ServiceKeys |-> NoService] /\ serviceCache = services
    /\ exports = [n \in Names |-> "none"]
    /\ slices = [n \in Names |-> NoSlice] /\ dataplaneSlice = 1
    /\ leasesByPort = [p \in 1..MaxPort |-> NoName]
    /\ leasesByName = [n \in Names |-> 0]
    /\ serviceToImport = {}
    /\ listeners = [n \in Names |-> 0]
    /\ importQ = {} /\ serviceQ = {} /\ exportQ = {} /\ sliceQ = {} /\ xdsQ = {}
    /\ worker = [w \in Workers |-> Idle]
    /\ environment \in Environments
    /\ userOps = 0 /\ restarts = 0
-------------------------------------------------------------------------------
(* The API server and the informers. *)

(* Write import n: every other copy of it is no longer current. *)
WriteImport(n, imp) ==
    /\ imports' = [imports EXCEPT ![n] = imp]
    /\ importCurrent' = importCurrent \ {n}

WriteServices(keys, svc) ==
    /\ services' = [k \in ServiceKeys |-> IF k \in keys THEN svc ELSE services[k]]
    /\ serviceCurrent' = serviceCurrent \ keys

(* An event for control.endpointslice follows the write of a slice. *)
SetSlice(n, slice) ==
    /\ slices' = [slices EXCEPT ![n] = slice]
    /\ sliceQ' = IF slice # slices[n] THEN sliceQ \cup {n} ELSE sliceQ

Outdated(n) == [w \in Workers |->
    IF worker[w].name = n THEN [worker[w] EXCEPT !.current = FALSE] ELSE worker[w]]

SyncImport(n) ==
    /\ n \notin importCurrent
    /\ importCache' = [importCache EXCEPT ![n] = imports[n]]
    /\ importCurrent' = importCurrent \cup {n}
    /\ importQ' = importQ \cup {n}
    /\ xdsQ' = xdsQ \cup {n}
    /\ UNCHANGED <<api, serviceCache, serviceCurrent, ports, serviceToImport,
                   listeners, serviceQ, exportQ, sliceQ, worker, env>>

SyncService(k) ==
    /\ k \notin serviceCurrent
    /\ serviceCache' = [serviceCache EXCEPT ![k] = services[k]]
    /\ serviceCurrent' = serviceCurrent \cup {k}
    /\ serviceQ' = serviceQ \cup {k}
    /\ UNCHANGED <<api, importCache, importCurrent, ports, serviceToImport, listeners,
                   importQ, exportQ, sliceQ, xdsQ, worker, env>>

(* What a worker may assume of the cache of n when it reads it. *)
Readable(n) ==
    environment.fresh =>
                  /\ n \in importCurrent
                  /\ \A k \in ServiceKeys : k[2] = n => k \in serviceCurrent
-------------------------------------------------------------------------------
(* Reconcile: a worker takes a name from its queue and reads the cache. *)

Start(w, n, key, pc) ==
    worker' = [worker EXCEPT ![w] =
        [pc |-> pc, name |-> n, key |-> key,
         imp |-> IF pc = "lease" THEN importCache[n] ELSE NoImport,
         current |-> pc = "lease" /\ n \in importCurrent]]

(* control.import: addImport for an import that exists, deleteImport otherwise. *)
ReconcileImport(n) ==
    /\ n \in importQ /\ Readable(n)
    /\ worker["import"].pc = "idle"
    /\ importQ' = importQ \ {n}
    /\ Start("import", n, "user", IF importCache[n].exists THEN "lease" ELSE "delete")
    /\ UNCHANGED <<api, caches, ports, serviceToImport, listeners, serviceQ, exportQ,
                   sliceQ, xdsQ, env>>

(* control.service: addService and deleteService, which both call          *)
(* checkImportService (here up to the call of addImport) and then          *)
(* checkExportService.  The import of a system service is looked up in     *)
(* serviceToImport; a system service has no export.                        *)
ReconcileService(k) ==
    LET n == k[2]
        found == importCache[n].exists /\ (k[1] = "user" \/ n \in serviceToImport)
    IN  /\ k \in serviceQ /\ Readable(n)
        /\ worker["service"].pc = "idle"
        /\ serviceQ' = serviceQ \ {k}
        /\ Start("service", n, k[1], IF found THEN "lease" ELSE "export")
        /\ UNCHANGED <<api, caches, ports, serviceToImport, listeners, importQ,
                       exportQ, sliceQ, xdsQ, env>>

Goto(w, pc) == worker' = [worker EXCEPT ![w].pc = pc]

(* The handler returns; retry: with an error that is not terminal. *)
Return(w, retry) ==
    /\ importQ' = IF retry /\ w = "import" THEN importQ \cup {worker[w].name} ELSE importQ
    /\ serviceQ' = IF retry /\ w = "service"
                   THEN serviceQ \cup {<<worker[w].key, worker[w].name>>} ELSE serviceQ
    /\ UNCHANGED <<exportQ, sliceQ, xdsQ>>
-------------------------------------------------------------------------------
(* addImport, one step for each call. *)

(* Mutant of allocateTargetPort: a conflicting port is not noticed. *)
leaseErrorIgnored(p, g) == IF g # 0 /\ p = 0 THEN "update" ELSE "services"

(* What follows when Lease(n, p) returned g. *)
allocateTargetPort(p, g) ==
    CASE g = 0 -> "PortError"
      [] g # 0 /\ p = 0 -> "update"
      [] OTHER -> "services"

(* allocateTargetPort: the call of Lease. *)
LeasePort(w) ==
    LET n == worker[w].name
        p == worker[w].imp.targetPort
    IN  /\ worker[w].pc = "lease"
        /\ \E g \in 0..MaxPort :
              /\ Ports!Lease(n, p, g)
              /\ worker' = [worker EXCEPT
                    ![w].pc = allocateTargetPort(p, g),
                    ![w].imp.targetPort = IF g = 0 THEN p ELSE g]
        /\ UNCHANGED <<api, caches, serviceToImport, listeners, queues, env>>

(* allocateTargetPort: store the picked port in the import.  On a conflict *)
(* the lease is released; the deferred status update then fails as well,   *)
(* and addImport is retried.                                               *)
UpdateImport(w) ==
    LET n == worker[w].name IN
    /\ worker[w].pc = "update"
    /\ \/ /\ worker[w].current
          /\ WriteImport(n, worker[w].imp)
          /\ worker' = [Outdated(n) EXCEPT ![w] = [worker[w] EXCEPT !.pc = "services"]]
          /\ UNCHANGED <<ports, queues>>
       \/ /\ ~worker[w].current
          /\ Ports!Release(n)
          /\ worker' = [worker EXCEPT ![w] = Idle]
          /\ Return(w, TRUE)
          /\ UNCHANGED <<imports, importCurrent>>
    /\ UNCHANGED <<services, exports, slices, dataplaneSlice, importCache,
                   serviceCache, serviceCurrent, serviceToImport, listeners, env>>

(* Mutant of checkServiceLabels: any service will do. *)
anyServiceLabels(svc) == svc # NoService

checkServiceLabels(svc) == svc.kind = "managed"

(* Mutant of serviceChanged: the target port is not compared. *)
serviceKindChanged(old, svc) == old.kind # svc.kind

serviceChanged(old, svc) == old # svc

(* addImportService for the service k of an import: the cached service     *)
(* decides, the API server may refuse.                                     *)
addImportService(w, k, svc, next) ==
    LET old == serviceCache[k]
        put == \/ old = NoService /\ services[k] = NoService
               \/ /\ checkServiceLabels(old) /\ serviceChanged(old, svc)
                  /\ services[k] # NoService
        keep == checkServiceLabels(old) /\ ~serviceChanged(old, svc)
    IN  /\ WriteServices(IF put THEN {k} ELSE {}, svc)
        /\ UNCHANGED <<importCache, importCurrent, serviceCache>>
        /\ Goto(w, CASE put \/ keep -> next
                     [] old # NoService /\ ~checkServiceLabels(old) -> "ConflictingService"
                     [] OTHER -> "ServiceApiError")

(* Whether a slice has to be written anew: the port is not compared. *)
endpointSliceChanged(slice, old) == slice.address # old.address

(* The slice of merge import n after checkImportEndpointSlice, for the     *)
(* slice of the data plane if there is one.                                *)
checkImportEndpointSlice(n, imp) ==
    LET slice == Slice(imp.targetPort, dataplaneSlice)
    IN  IF /\ dataplaneSlice # 0
           /\ slices[n] = NoSlice \/ endpointSliceChanged(slice, slices[n])
          THEN slice ELSE slices[n]

deleteImportEndpointSlices(n) == SetSlice(n, NoSlice)

(* A merge import: addImportEndpointSlices. *)
AddImportEndpointSlices(w) ==
    LET n == worker[w].name
        found == serviceCache[<<"user", n>>] # NoService
        slice == IF found THEN checkImportEndpointSlice(n, worker[w].imp) ELSE slices[n]
    IN  /\ worker[w].pc = "services" /\ worker[w].imp.merge
        /\ SetSlice(n, slice)
        /\ Goto(w, IF found THEN "Valid" ELSE "ServiceNotExist")
        /\ UNCHANGED <<imports, services, exports, dataplaneSlice, caches, ports,
                       serviceToImport, listeners, importQ, serviceQ, exportQ, xdsQ,
                       env>>

(* Another import: the slices of a former merge import are deleted, then   *)
(* the service that selects the data plane is written.                     *)
AddSystemService(w) ==
    LET n == worker[w].name
    IN  /\ worker[w].pc = "services" /\ ~worker[w].imp.merge
        /\ deleteImportEndpointSlices(n)
        /\ serviceToImport' = IF n \in SystemNames THEN serviceToImport
                              ELSE serviceToImport \cup {n}
        /\ addImportService(w, SystemKey(n), Managed(worker[w].imp.targetPort),
                            IF n \in SystemNames THEN "Valid" ELSE "user")
        /\ UNCHANGED <<imports, exports, dataplaneSlice, ports, listeners, importQ,
                       serviceQ, exportQ, xdsQ, env>>

(* The ExternalName service next to an import of another namespace. *)
AddUserService(w) ==
    /\ worker[w].pc = "user"
    /\ addImportService(w, <<"user", worker[w].name>>, Managed(0), "Valid")
    /\ UNCHANGED <<imports, exports, slices, dataplaneSlice, ports, serviceToImport,
                   listeners, queues, env>>

(* Mutant of conditionChanged: every status is new. *)
conditionAlwaysChanged(imp, st) == TRUE

conditionChanged(imp, st) == imp.status # st

(* The deferred function of addImport.  A failed status update is retried  *)
(* even after a terminal error; control.service goes on to the export only *)
(* when addImport succeeded.                                               *)
UpdateImportStatus(w) ==
    LET n == worker[w].name
        st == worker[w].pc
        imp == [worker[w].imp EXCEPT !.status = st]
        changed == conditionChanged(worker[w].imp, st)
        failed == changed /\ ~worker[w].current
        retry == \/ failed
                 \/ st = "ServiceApiError"
                 \/ st = "PortError" /\ imp.targetPort = 0
        done == IF st = "Valid" /\ ~failed /\ w = "service"
                THEN [Idle EXCEPT !.pc = "export", !.name = n, !.key = worker[w].key] ELSE Idle
    IN  /\ st \in {"Valid", "PortError"} \cup ServiceErrors
        /\ IF changed /\ ~failed
           THEN /\ WriteImport(n, imp)
                /\ worker' = [Outdated(n) EXCEPT ![w] = done]
           ELSE /\ worker' = [worker EXCEPT ![w] = done]
                /\ UNCHANGED <<imports, importCurrent>>
        /\ Return(w, retry)
        /\ UNCHANGED <<services, exports, slices, dataplaneSlice, importCache,
                       serviceCache, serviceCurrent, ports, serviceToImport, listeners,
                       env>>
-------------------------------------------------------------------------------
(* Mutant of importServices: the system service is forgotten. *)
userServiceOnly(n) == {<<"user", n>>}

(* The services that deleteImport looks at. *)
importServices(n) == {k \in ServiceKeys : k[2] = n}

(* deleteImport: the services that the cache says are managed for n, and   *)
(* the slices, are deleted.  A service that is already gone is an error.   *)
DeleteImportServices(w) ==
    LET n == worker[w].name
        managed == {k \in importServices(n) : checkServiceLabels(serviceCache[k])}
        gone == {k \in managed : services[k] = NoService}
    IN  /\ worker[w].pc = "delete"
        /\ WriteServices(managed \ gone, NoService)
        /\ deleteImportEndpointSlices(n)
        /\ Goto(w, IF gone = {} THEN "release" ELSE "releaseRetry")
        /\ UNCHANGED <<imports, exports, dataplaneSlice, importCache, importCurrent,
                       serviceCache, ports, serviceToImport, listeners, importQ,
                       serviceQ, exportQ, xdsQ, env>>

(* deleteImport: the port is released, and the errors are returned. *)
ReleasePort(w) ==
    /\ worker[w].pc \in {"release", "releaseRetry"}
    /\ Ports!Release(worker[w].name)
    /\ worker' = [worker EXCEPT ![w] = Idle]
    /\ Return(w, worker[w].pc = "releaseRetry")
    /\ UNCHANGED <<api, caches, serviceToImport, listeners, env>>
-------------------------------------------------------------------------------
(* Mutant of addExport: an export that is valid stays so. *)
addExportOnce(n) ==
    CASE exports[n] = "none" -> "none"
      [] exports[n] # "none" /\ serviceCache[<<"user", n>>] # NoService -> "Valid"
      [] exports[n] = "Unset" /\ serviceCache[<<"user", n>>] = NoService -> "Invalid"
      [] OTHER -> exports[n]

(* The status that addExport gives to an export: it is valid when its      *)
(* service exists.                                                         *)
addExport(n) ==
    CASE exports[n] = "none" -> "none"
      [] exports[n] # "none" /\ serviceCache[<<"user", n>>] # NoService -> "Valid"
      [] OTHER -> "Invalid"

(* control.export *)
ReconcileExport(n) ==
    /\ n \in exportQ /\ Readable(n)
    /\ exports' = [exports EXCEPT ![n] = addExport(n)]
    /\ exportQ' = IF addExport(n) # exports[n] THEN exportQ ELSE exportQ \ {n}
    /\ UNCHANGED <<imports, services, slices, dataplaneSlice, caches, ports,
                   serviceToImport, listeners, importQ, serviceQ, sliceQ, xdsQ, worker,
                   env>>

(* checkExportService, the last call of addService and deleteService. *)
CheckExportService(w) ==
    LET n == worker[w].name
        st == IF worker[w].key = "user" THEN addExport(n) ELSE exports[n]
    IN  /\ worker[w].pc = "export"
        /\ exports' = [exports EXCEPT ![n] = st]
        /\ exportQ' = IF st # exports[n] THEN exportQ \cup {n} ELSE exportQ
        /\ worker' = [worker EXCEPT ![w] = Idle]
        /\ UNCHANGED <<imports, services, slices, dataplaneSlice, caches, ports,
                       serviceToImport, listeners, importQ, serviceQ, sliceQ, xdsQ,
                       env>>

(* control.endpointslice, for the slice of an import: checkEndpointSlice   *)
(* removes the slice of an import that is gone or no longer a merge        *)
(* import, and creates a missing one.                                      *)
ReconcileEndpointSlice(n) ==
    LET imp == importCache[n]
        slice == IF imp.merge /\ dataplaneSlice # 0 THEN checkImportEndpointSlice(n, imp) ELSE NoSlice
    IN  /\ n \in sliceQ /\ Readable(n)
        /\ slices' = [slices EXCEPT ![n] = slice]
        /\ sliceQ' = IF slice # slices[n] THEN sliceQ ELSE sliceQ \ {n}
        /\ UNCHANGED <<imports, services, exports, dataplaneSlice, caches, ports,
                       serviceToImport, listeners, importQ, serviceQ, exportQ, xdsQ,
                       worker, env>>

(* control.endpointslice, for the slice of the data plane: it is copied    *)
(* for every merge import whose copy is missing or has other addresses, or *)
(* all copies are deleted.                                                 *)
ReconcileDataplaneSlice ==
    LET slice(n) == CASE dataplaneSlice = 0 -> NoSlice
                      [] dataplaneSlice # 0 /\ importCache[n].merge
                           -> checkImportEndpointSlice(n, importCache[n])
                      [] OTHER -> slices[n]
    IN  /\ NoName \in sliceQ
        /\ slices' = [n \in Names |-> slice(n)]
        /\ sliceQ' = (sliceQ \ {NoName}) \cup {n \in Names : slice(n) # slices[n]}
        /\ UNCHANGED <<imports, services, exports, dataplaneSlice, caches, ports,
                       serviceToImport, listeners, importQ, serviceQ, exportQ, xdsQ,
                       worker, env>>

(* xds.Manager.AddImport skips an import whose port is not valid. *)
AddImport(n, imp) == IF TargetPortValid(imp) THEN imp.targetPort ELSE listeners[n]

(* xds.import *)
ReconcileListener(n) ==
    LET imp == importCache[n] IN
    /\ n \in xdsQ /\ Readable(n)
    /\ xdsQ' = xdsQ \ {n}
    /\ listeners' = [listeners EXCEPT ![n] =
          IF imp.exists THEN AddImport(n, imp) ELSE 0]
    /\ UNCHANGED <<api, caches, ports, serviceToImport, importQ, serviceQ, exportQ,
                   sliceQ, worker, env>>
-------------------------------------------------------------------------------
(* The environment: users, and restarts of the control plane. *)

UserOp(op) ==
    /\ op \in environment.ops /\ userOps < environment.maxOps
    /\ userOps' = userOps + 1
    /\ UNCHANGED restarts

UserWritesImport(op, n, imp) ==
    /\ UserOp(op)
    /\ WriteImport(n, imp)
    /\ worker' = Outdated(n)
    /\ UNCHANGED <<services, exports, slices, dataplaneSlice, importCache,
                   serviceCache, serviceCurrent, ports, serviceToImport, listeners,
                   queues>>

CreateImport(n) ==
    /\ ~imports[n].exists
    /\ \E p \in UserPorts \cup {0}, m \in IF "merge" \in environment.ops THEN BOOLEAN ELSE {FALSE} :
          UserWritesImport("create", n,
              [exists |-> TRUE, targetPort |-> p, merge |-> m, status |-> "Unset"])

DeleteImport(n) ==
    imports[n].exists /\ UserWritesImport("delete", n, NoImport)

EditTargetPort(n) ==
    /\ imports[n].exists
    /\ \E p \in (UserPorts \cup {0}) \ {imports[n].targetPort} :
          UserWritesImport("edit", n, [imports[n] EXCEPT !.targetPort = p])

ToggleMerge(n) ==
    /\ imports[n].exists
    /\ UserWritesImport("merge", n, [imports[n] EXCEPT !.merge = ~@])

(* A user creates a service of the name an import needs, deletes a service *)
(* or changes the labels of a managed one.                                 *)
UserService(k) ==
    /\ UserOp("service")
    /\ \E svc \in {NoService, Foreign} \ {services[k]} : WriteServices({k}, svc)
    /\ UNCHANGED <<imports, exports, slices, dataplaneSlice, importCache,
                   importCurrent, serviceCache, ports, serviceToImport, listeners,
                   queues, worker>>

UserExport(n) ==
    /\ UserOp("export")
    /\ exports' = [exports EXCEPT ![n] = IF @ = "none" THEN "Unset" ELSE "none"]
    /\ exportQ' = exportQ \cup {n}
    /\ UNCHANGED <<imports, services, slices, dataplaneSlice, caches, ports,
                   serviceToImport, listeners, importQ, serviceQ, sliceQ, xdsQ, worker>>

(* The pods of the data plane come, go and move. *)
ChangeDataplane ==
    /\ UserOp("dataplane")
    /\ dataplaneSlice' \in (Addresses \cup {0}) \ {dataplaneSlice}
    /\ sliceQ' = sliceQ \cup {NoName}
    /\ UNCHANGED <<imports, services, exports, slices, caches, ports, serviceToImport,
                   listeners, importQ, serviceQ, exportQ, xdsQ, worker>>

(* The control plane restarts, or another replica becomes the leader: the  *)
(* new process lists all objects and has no memory of the old one.         *)
Restart ==
    /\ restarts < environment.maxRestarts
    /\ restarts' = restarts + 1
    /\ leasesByPort' = [p \in 1..MaxPort |-> NoName]
    /\ leasesByName' = [n \in Names |-> 0]
    /\ serviceToImport' = {}
    /\ listeners' = [n \in Names |-> 0]
    /\ importCache' = imports /\ importCurrent' = Names
    /\ serviceCache' = services /\ serviceCurrent' = ServiceKeys
    /\ importQ' = {n \in Names : imports[n].exists} /\ xdsQ' = importQ'
    /\ serviceQ' = {k \in ServiceKeys : services[k] # NoService}
    /\ exportQ' = {n \in Names : exports[n] # "none"}
    /\ sliceQ' = {n \in Names : slices[n] # NoSlice}
                 \cup (IF dataplaneSlice # 0 THEN {NoName} ELSE {})
    /\ worker' = [w \in Workers |-> Idle]
    /\ UNCHANGED <<api, userOps>>
-------------------------------------------------------------------------------
WorkerStep(w) ==
    \/ LeasePort(w) \/ UpdateImport(w) \/ AddImportEndpointSlices(w)
    \/ AddSystemService(w) \/ AddUserService(w) \/ UpdateImportStatus(w)
    \/ DeleteImportServices(w) \/ ReleasePort(w) \/ CheckExportService(w)

ImportController == "import" \in environment.workers /\ UNCHANGED environment /\
    (WorkerStep("import") \/ \E n \in Names : ReconcileImport(n))
ServiceController == "service" \in environment.workers /\ UNCHANGED environment /\
    (WorkerStep("service") \/ \E k \in ServiceKeys : ReconcileService(k))
ExportController == UNCHANGED environment /\ \E n \in Names : ReconcileExport(n)
SliceController == UNCHANGED environment /\
    (ReconcileDataplaneSlice \/ \E n \in Names : ReconcileEndpointSlice(n))
XdsController == UNCHANGED environment /\ \E n \in Names : ReconcileListener(n)

InformImports(n) == UNCHANGED environment /\ SyncImport(n)
InformServices(k) == UNCHANGED environment /\ SyncService(k)

Users ==
    \/ \E n \in environment.names :
          \/ CreateImport(n) \/ DeleteImport(n) \/ EditTargetPort(n)
          \/ ToggleMerge(n) \/ UserExport(n)
          \/ \E k \in ServiceKeys : k[2] = n /\ UserService(k)
    \/ ChangeDataplane

Next ==
    \/ ImportController \/ ServiceController \/ ExportController
    \/ SliceController \/ XdsController
    \/ \E n \in Names : InformImports(n)
    \/ \E k \in ServiceKeys : InformServices(k)
    \/ UNCHANGED environment /\ (Users \/ Restart)

Spec == Init /\ [][Next]_vars

(* The informers deliver every event, and controller-runtime runs every    *)
(* controller in a goroutine of its own, which takes names from its queue  *)
(* for as long as there are any.                                           *)
FairSpec ==
    /\ Spec
    /\ \A n \in Names : WF_vars(InformImports(n))
    /\ \A k \in ServiceKeys : WF_vars(InformServices(k))
    /\ WF_vars(ImportController) /\ WF_vars(ServiceController)
    /\ WF_vars(ExportController) /\ WF_vars(SliceController) /\ WF_vars(XdsController)
-------------------------------------------------------------------------------
(* Nothing is left to do: all queues are empty and all caches current. *)
Quiescent ==
    /\ importCurrent = Names /\ serviceCurrent = ServiceKeys
    /\ importQ = {} /\ exportQ = {} /\ sliceQ = {} /\ xdsQ = {}
    /\ "service" \in environment.workers => serviceQ = {}
    /\ \A w \in Workers : worker[w].pc = "idle"

(* What the handlers of control.import do when control.service, which also *)
(* calls addImport, has nothing to do, the leases are not lost, and the    *)
(* caches are up to date when they are read.  A handler that reads a stale *)
(* import without a port gives the port of that import away, and one that  *)
(* does not see a service yet does not delete it.                          *)
ImportControllerOnly ==
    environment.workers = {"import"} /\ environment.maxRestarts = 0 /\ environment.fresh

(* Users do not change the target port of an import, or delete imports. *)
PortsNotEdited == "edit" \notin environment.ops
ImportsNotDeleted == "delete" \notin environment.ops

(* control.service sees what happens to services; without it nobody else   *)
(* changes them, and the cache is never behind.                            *)
ServicesSeen ==
    "service" \in environment.workers \/ (environment.fresh /\ "service" \notin environment.ops)

(* control.service may lease the port that an import used to have, which   *)
(* it notices when it writes the services of the import.                   *)
PortsSettled ==
    \/ "service" \notin environment.workers \/ "merge" \notin environment.ops
    \/ PortsNotEdited /\ ImportsNotDeleted

(* control.endpointslice copies the slice of the data plane, when that     *)
(* changes, also for a merge import that has no port yet.                  *)
DataplaneStays == "dataplane" \notin environment.ops /\ environment.maxRestarts = 0

(* Once nothing is left to do, a valid import has all that its status      *)
(* promises: it leases its target port, the data plane listens there, and  *)
(* its services lead to it.  The endpoint slice of a merge import sends    *)
(* clients to the pods of the data plane that there are, and to that port  *)
(* if the import has always had it and the pods have always been there.    *)
ValidImportServed ==
    Quiescent /\ ServicesSeen =>
        \A n \in Names : imports[n].exists /\ imports[n].status = "Valid" =>
            /\ PortsSettled => leasesByName[n] = imports[n].targetPort
            /\ listeners[n] = imports[n].targetPort
            /\ ~imports[n].merge =>
                  /\ services[SystemKey(n)] = Managed(imports[n].targetPort)
                  /\ services[<<"user", n>>].kind = "managed"
            /\ imports[n].merge => slices[n].address = dataplaneSlice
            /\ imports[n].merge /\ dataplaneSlice # 0
               /\ PortsNotEdited /\ ImportsNotDeleted /\ DataplaneStays =>
                  slices[n].port = imports[n].targetPort

(* Two imports whose status says that their target port is valid never     *)
(* have the same target port: the data plane could listen for only one.    *)
(* An edited port is compared with the leases only after the fact.         *)
ValidPortsDistinct ==
    ImportControllerOnly /\ PortsNotEdited =>
        \A n, m \in Names :
            /\ TargetPortValid(imports[n]) /\ TargetPortValid(imports[m])
            /\ imports[n].targetPort = imports[m].targetPort
            => n = m

(* Once nothing is left to do, a deleted import has left nothing behind:   *)
(* no leased port, no listener, no service that leads to the data plane,   *)
(* and no endpoint slice.                                                  *)
DeletedImportCleaned ==
    ImportControllerOnly /\ Quiescent =>
        \A n \in Names : ~imports[n].exists =>
            /\ leasesByName[n] = 0 /\ listeners[n] = 0
            /\ slices[n] = NoSlice
            /\ \A k \in ServiceKeys : k[2] = n => services[k].kind # "managed"

(* Once nothing is left to do, an export is valid if and only if its       *)
(* service exists, where control.service runs and no import of the same    *)
(* name fights for the service.                                            *)
ExportsFollowServices ==
    "create" \notin environment.ops /\ "service" \in environment.workers /\ Quiescent =>
        \A n \in Names : exports[n] # "none" =>
            (exports[n] = "Valid" <=> services[<<"user", n>>] # NoService)

(* The controllers never delete or overwrite a service that a user made or *)
(* took over, except in one window: the informer cache still shows the     *)
(* managed service that used to have its name.                             *)
UserServiceKept ==
    [][\A k \in ServiceKeys :
          /\ services[k] = Foreign /\ services'[k] # Foreign /\ userOps' = userOps
          => serviceCache[k].kind = "managed" /\ k \notin serviceCurrent]_vars

(* When users stop, the controllers come to rest, with a verdict for every *)
(* import: no two of them undo each other's work for ever, and no event    *)
(* that matters is missed.                                                 *)
Settles ==
    <>[](Quiescent /\ \A n \in Names : imports[n].exists => imports[n].status # "Unset")
===============================================================================
