-------------------------- MODULE ImportStatusProofs --------------------------
(***************************************************************************)
(* Proofs about what the conditions in the status of objects promise: an   *)
(* export is valid as long as its service exists, imports with a valid     *)
(* target port do not share it, and the data plane listens on that port.   *)
(***************************************************************************)
EXTENDS ImportControlProofs

(* Exports.  Where no import is ever created, control.import has nothing   *)
(* to do, and control.service only looks at exports.  An export whose      *)
(* status does not agree with the cached service is then about to be       *)
(* looked at again: because of the export itself, or of an event of its    *)
(* service that is on its way from the API server to the end of            *)
(* checkExportService.                                                     *)
ExportsOnly == "create" \notin environment.ops /\ "service" \in environment.workers

NoImports ==
    /\ \A n \in Names : ~imports[n].exists /\ ~importCache[n].exists
    /\ importCurrent = Names /\ importQ = {}
    /\ worker["import"].pc = "idle" /\ worker["service"].pc \in {"idle", "export"}

ExportPending(n) ==
    \/ n \in exportQ
    \/ <<"user", n>> \notin serviceCurrent
    \/ <<"user", n>> \in serviceQ
    \/ /\ worker["service"].pc = "export"
       /\ worker["service"].name = n /\ worker["service"].key = "user"

ExportFollowed(n) ==
    exports[n] # "none" =>
        \/ ExportPending(n)
        \/ (exports[n] = "Valid" <=> serviceCache[<<"user", n>>] # NoService)

ExportInv == ExportsOnly => NoImports /\ \A n \in Names : ExportFollowed(n)

(* What is left of Next. *)
LEMMA ExportSteps ==
    ASSUME Parts, ExportsOnly, NoImports, Next
    PROVE  \/ CheckExportService("service")
           \/ \E k \in ServiceKeys : ReconcileService(k)
           \/ \E n \in Names : ReconcileExport(n)
           \/ ReconcileDataplaneSlice \/ \E n \in Names : ReconcileEndpointSlice(n)
           \/ \E n \in Names : ReconcileListener(n)
           \/ \E k \in ServiceKeys : SyncService(k)
           \/ \E k \in ServiceKeys : UserService(k)
           \/ \E n \in Names : UserExport(n)
           \/ ChangeDataplane
           \/ Restart
<1>1. ASSUME NEW w \in Workers, WorkerAction(w)
      PROVE  CheckExportService("service") \/ \E k \in ServiceKeys : ReconcileService(k)
  <2>1. ~\E n \in Names : ReconcileImport(n)
    BY Zenon DEF NoImports, ReconcileImport
  <2>2. worker[w].pc \in {"idle", "export"} /\ (worker[w].pc = "export" => w = "service")
    BY DEF NoImports, Workers
  <2>3. WorkerStep(w) => CheckExportService(w) /\ worker[w].pc = "export"
    BY <2>2, Zenon DEF WorkerStep, LeasePort, UpdateImport, AddImportEndpointSlices, AddSystemService,
                AddUserService, UpdateImportStatus, DeleteImportServices, ReleasePort,
                CheckExportService, ServiceErrors
  <2> QED BY <1>1, <2>1, <2>2, <2>3, Zenon DEF WorkerAction
<1>2. ~\E n \in Names : SyncImport(n)
  BY Zenon DEF NoImports, SyncImport
<1>3. ~\E n \in Names, op \in UserOps, imp \in Import :
         UserWritesImport(op, n, imp) /\ UserImport(n, imp)
  BY Zenon DEF NoImports, ExportsOnly, UserImport
<1> QED BY <1>1, <1>2, <1>3, NextSteps, UserSteps, Zenon

(* The steps of the service controller and of the users of exports. *)
LEMMA ExportWorkerStep ==
    ASSUME Parts, ExportsOnly, NoImports, \A n \in Names : ExportFollowed(n),
           \/ CheckExportService("service")
           \/ \E k \in ServiceKeys : ReconcileService(k)
    PROVE  NoImports' /\ \A n \in Names : ExportFollowed(n)'
<1>0. /\ worker["service"] \in Job /\ "service" \in Workers /\ "import" \in Workers
      /\ worker \in [Workers -> Job]
  BY DEF Parts, JobsOK, Workers
<1>1. CASE CheckExportService("service")
  <2> DEFINE m == worker["service"].name
             st == IF worker["service"].key = "user" THEN addExport(m) ELSE exports[m]
  <2>1. /\ worker["service"].pc = "export"
        /\ exports' = [exports EXCEPT ![m] = st]
        /\ exportQ' = IF st # exports[m] THEN exportQ \cup {m} ELSE exportQ
        /\ worker' = [worker EXCEPT !["service"] = Idle]
        /\ UNCHANGED <<imports, caches, importQ, serviceQ>>
    BY <1>1, Zenon DEF CheckExportService
  <2>2. m \in Names
    BY <1>0, <2>1 DEF Parts, Busy
  <2>3. NoImports'
    BY <1>0, <2>1, Constants DEF NoImports, caches
  <2>4. ASSUME NEW n \in Names, exports'[n] # "none", ~ExportPending(n)'
        PROVE  exports'[n] = "Valid" <=> serviceCache'[<<"user", n>>] # NoService
    <3>1. CASE n = m /\ worker["service"].key = "user"
      <4>1. exports'[n] = addExport(n)
        BY <2>1, <2>2, <3>1 DEF Parts, ApiOK
      <4> QED BY <2>1, <2>4, <4>1 DEF addExport, caches
    <3>2. CASE n # m \/ worker["service"].key # "user"
      <4>1. exports'[n] = exports[n]
        BY <2>1, <2>2, <3>2 DEF Parts, ApiOK
      <4>2. ~ExportPending(n)
        BY <2>1, <2>4, <3>2 DEF ExportPending, caches
      <4> QED BY <2>1, <2>4, <4>1, <4>2 DEF ExportFollowed, caches
    <3> QED BY <3>1, <3>2
  <2> QED BY <2>3, <2>4 DEF ExportFollowed
<1>2. ASSUME NEW k \in ServiceKeys, ReconcileService(k)
      PROVE  NoImports' /\ \A n \in Names : ExportFollowed(n)'
  <2>1. k[2] \in Names /\ k = <<k[1], k[2]>>
    BY Keys
  <2>2. /\ Start("service", k[2], k[1], "export")
        /\ worker["service"].pc = "idle"
        /\ serviceQ' = serviceQ \ {k}
        /\ UNCHANGED <<imports, exports, caches, importQ, exportQ>>
    BY <1>2, <2>1 DEF ReconcileService, NoImports, api
  <2>3. /\ worker'["service"].pc = "export" /\ worker'["import"] = worker["import"]
        /\ worker'["service"].name = k[2] /\ worker'["service"].key = k[1]
    BY <1>0, <2>2 DEF Start
  <2>4. NoImports'
    BY <2>2, <2>3 DEF NoImports, caches
  <2>5. ASSUME NEW n \in Names PROVE ExportFollowed(n)'
    <3>1. CASE k = <<"user", n>>
      BY <2>3, <3>1 DEF ExportFollowed, ExportPending
    <3>2. CASE k # <<"user", n>>
      <4>1. ExportPending(n) => ExportPending(n)'
        BY <2>2, <3>2 DEF ExportPending, caches
      <4> QED BY <2>2, <4>1 DEF ExportFollowed, caches
    <3> QED BY <3>1, <3>2
  <2> QED BY <2>4, <2>5
<1> QED BY <1>1, <1>2

LEMMA ExportOtherStep ==
    ASSUME Parts, ExportsOnly, NoImports, \A n \in Names : ExportFollowed(n),
           \/ \E n \in Names : ReconcileExport(n)
           \/ \E k \in ServiceKeys : SyncService(k)
           \/ \E k \in ServiceKeys : UserService(k)
           \/ \E n \in Names : UserExport(n)
           \/ Restart
    PROVE  NoImports' /\ \A n \in Names : ExportFollowed(n)'
<1>1. ASSUME NEW m \in Names, ReconcileExport(m)
      PROVE  NoImports' /\ \A n \in Names : ExportFollowed(n)'
  <2>1. /\ exports' = [exports EXCEPT ![m] = addExport(m)]
        /\ exportQ' = exportQ \/ exportQ' = exportQ \ {m}
        /\ UNCHANGED <<imports, caches, importQ, serviceQ, worker>>
    BY <1>1, Zenon DEF ReconcileExport
  <2>2. NoImports'
    BY <2>1 DEF NoImports, caches
  <2>3. ASSUME NEW n \in Names PROVE ExportFollowed(n)'
    <3>1. CASE n = m
      <4>1. exports'[n] = addExport(n)
        BY <2>1, <3>1 DEF Parts, ApiOK
      <4> QED BY <2>1, <4>1 DEF addExport, caches, ExportFollowed
    <3>2. CASE n # m
      <4>1. exports'[n] = exports[n]
        BY <2>1, <3>2 DEF Parts, ApiOK
      <4>2. ExportPending(n) => ExportPending(n)'
        BY <2>1, <3>2 DEF ExportPending, caches
      <4> QED BY <2>1, <4>1, <4>2 DEF ExportFollowed, caches
    <3> QED BY <3>1, <3>2
  <2> QED BY <2>2, <2>3
<1>2. ASSUME NEW k \in ServiceKeys, SyncService(k)
      PROVE  NoImports' /\ \A n \in Names : ExportFollowed(n)'
  <2>1. /\ serviceCache' = [serviceCache EXCEPT ![k] = services[k]]
        /\ serviceCurrent' = serviceCurrent \cup {k} /\ serviceQ' = serviceQ \cup {k}
        /\ UNCHANGED <<imports, exports, importCache, importCurrent, importQ, exportQ, worker>>
    BY <1>2, Zenon DEF SyncService, api
  <2>2. NoImports'
    BY <2>1 DEF NoImports
  <2>3. ASSUME NEW n \in Names PROVE ExportFollowed(n)'
    <3>1. CASE k = <<"user", n>>
      BY <2>1, <3>1 DEF ExportFollowed, ExportPending
    <3>2. CASE k # <<"user", n>>
      <4>1. ExportPending(n) => ExportPending(n)'
        BY <2>1, <3>2 DEF ExportPending
      <4>2. serviceCache'[<<"user", n>>] = serviceCache[<<"user", n>>]
        BY <2>1, <3>2, Keys DEF Parts, CachesOK
      <4> QED BY <2>1, <4>1, <4>2 DEF ExportFollowed
    <3> QED BY <3>1, <3>2
  <2> QED BY <2>2, <2>3
<1>3. ASSUME NEW k \in ServiceKeys, UserService(k)
      PROVE  NoImports' /\ \A n \in Names : ExportFollowed(n)'
  <2>1. /\ serviceCurrent' = serviceCurrent \ {k}
        /\ UNCHANGED <<imports, exports, importCache, importCurrent, serviceCache, importQ,
                       serviceQ, exportQ, worker>>
    BY <1>3, Zenon DEF UserService, WriteServices, queues
  <2>2. NoImports'
    BY <2>1 DEF NoImports
  <2>3. ASSUME NEW n \in Names PROVE ExportFollowed(n)'
    BY <2>1 DEF ExportFollowed, ExportPending
  <2> QED BY <2>2, <2>3
<1>4. ASSUME NEW m \in Names, UserExport(m)
      PROVE  NoImports' /\ \A n \in Names : ExportFollowed(n)'
  <2>1. /\ exports' = [exports EXCEPT ![m] = IF @ = "none" THEN "Unset" ELSE "none"]
        /\ exportQ' = exportQ \cup {m}
        /\ UNCHANGED <<imports, caches, importQ, serviceQ, worker>>
    BY <1>4, Zenon DEF UserExport
  <2>2. NoImports'
    BY <2>1 DEF NoImports, caches
  <2>3. ASSUME NEW n \in Names PROVE ExportFollowed(n)'
    <3>1. n # m => exports'[n] = exports[n]
      BY <2>1 DEF Parts, ApiOK
    <3> QED BY <2>1, <3>1 DEF ExportFollowed, ExportPending, caches
  <2> QED BY <2>2, <2>3
<1>5. CASE Restart
  <2>1. /\ importCache' = imports /\ importCurrent' = Names
        /\ importQ' = {n \in Names : imports[n].exists}
        /\ exportQ' = {n \in Names : exports[n] # "none"}
        /\ worker' = [w \in Workers |-> Idle]
        /\ UNCHANGED <<imports, exports>>
    BY <1>5, Zenon DEF Restart, api
  <2>2. NoImports'
    BY <2>1, Constants DEF NoImports, Workers
  <2>3. ASSUME NEW n \in Names PROVE ExportFollowed(n)'
    BY <2>1 DEF ExportFollowed, ExportPending
  <2> QED BY <2>2, <2>3
<1> QED BY <1>1, <1>2, <1>3, <1>4, <1>5

LEMMA ExportStep == BaseInv /\ ExportInv /\ [Next]_vars => ExportInv'
<1> SUFFICES ASSUME BaseInv, ExportInv, [Next]_vars, ExportsOnly'
             PROVE  NoImports' /\ \A n \in Names : ExportFollowed(n)'
  BY DEF ExportInv
<1>1. UNCHANGED environment
  BY NextSteps DEF vars
<1>2. ExportsOnly /\ NoImports /\ (\A n \in Names : ExportFollowed(n)) /\ Parts
  BY <1>1, BaseParts DEF ExportsOnly, ExportInv
<1>3. CASE UNCHANGED <<imports, exports, caches, importQ, serviceQ, exportQ, worker>>
  <2>1. NoImports'
    BY <1>2, <1>3 DEF NoImports, caches
  <2>2. ASSUME NEW n \in Names PROVE ExportFollowed(n)'
    BY <1>2, <1>3 DEF ExportFollowed, ExportPending, caches
  <2> QED BY <2>1, <2>2
<1>4. CASE \/ ReconcileDataplaneSlice \/ ChangeDataplane \/ UNCHANGED vars
           \/ \E n \in Names : ReconcileEndpointSlice(n)
           \/ \E n \in Names : ReconcileListener(n)
  BY <1>3, <1>4, Zenon DEF ReconcileDataplaneSlice, ReconcileEndpointSlice, ReconcileListener,
         ChangeDataplane, vars, api, queues
<1> QED BY <1>2, <1>4, ExportSteps, ExportWorkerStep, ExportOtherStep, Zenon

(* addExport and checkExportService: where no imports are made, every      *)
(* export ends up valid exactly if its service exists, whatever users do   *)
(* to services and exports meanwhile, and across restarts.                 *)
THEOREM ExportsFollow == Spec => []ExportsFollowServices
<1>1. Init => ExportInv
  <2> SUFFICES ASSUME Init PROVE NoImports /\ \A n \in Names : ExportFollowed(n)
    BY DEF ExportInv
  <2>1. NoImports
    BY Constants DEF Init, NoImports, NoImport, Workers
  <2>2. \A n \in Names : ExportFollowed(n)
    BY DEF Init, ExportFollowed
  <2> QED BY <2>1, <2>2
<1>2. BaseInv /\ ExportInv => ExportsFollowServices
  <2> SUFFICES ASSUME BaseInv, ExportInv, ExportsOnly, Quiescent,
                      NEW n \in Names, exports[n] # "none"
               PROVE  exports[n] = "Valid" <=> services[<<"user", n>>] # NoService
    BY DEF ExportsFollowServices, ExportsOnly
  <2>1. ~ExportPending(n)
    BY Keys DEF Quiescent, ExportsOnly, ExportPending, Workers
  <2>2. exports[n] = "Valid" <=> serviceCache[<<"user", n>>] # NoService
    BY <2>1 DEF ExportInv, ExportFollowed
  <2>3. serviceCache[<<"user", n>>] = services[<<"user", n>>]
    BY Keys DEF Quiescent, BaseInv, Coherent
  <2> QED BY <2>2, <2>3
<1> QED BY <1>1, <1>2, ExportStep, Base, PTL DEF Spec
-------------------------------------------------------------------------------
(* Target ports, where control.import alone works, reads caches that are   *)
(* up to date, and users do not edit ports.  An import whose port is valid *)
(* leases that port.  The handler may give a port away only as long as the *)
(* status of the import does not say that it is valid; what it writes into *)
(* the import or its status is a port it holds.                            *)
PortHeld(n) ==
    /\ imports[n].exists /\ imports[n].targetPort # 0
    /\ leasesByName[n] = imports[n].targetPort

JobPort ==
    /\ job.pc = "lease" /\ TargetPortValid(imports[job.name])
         => job.imp.targetPort = imports[job.name].targetPort
    /\ job.pc \in {"lease", "update"} /\ job.current
         => job.imp.status = imports[job.name].status
    /\ job.pc \in Adding => job.imp.exists
    /\ job.pc \in Adding \ {"lease", "PortError"}
         => job.imp.targetPort # 0 /\ leasesByName[job.name] = job.imp.targetPort
    /\ job.pc \in {"update", "delete", "release", "releaseRetry"}
         => ~TargetPortValid(imports[job.name])

PortsHeld == JobPort /\ \A n \in Names : TargetPortValid(imports[n]) => PortHeld(n)

PortInv == ImportControllerOnly /\ PortsNotEdited => PortsHeld

PortContext == ImportControllerOnly /\ PortsNotEdited /\ WorkerContext("import") /\ PortsHeld

LEMMA PortJobFacts ==
    ASSUME PortContext
    PROVE  /\ job \in Job /\ worker \in [Workers -> Job] /\ "import" \in Workers
           /\ job.imp \in Import /\ job.imp.targetPort \in 0..MaxPort
           /\ job.pc # "idle" => job.name \in Names
           /\ PortsOK /\ leasesByName \in [Names -> 0..MaxPort] /\ imports \in [Names -> Import]
BY DEF PortContext, WorkerContext, job, JobsOK, Job, PortsOK, ApiOK

LEMMA PortGoto ==
    ASSUME PortContext, NEW pc, Goto("import", pc)
    PROVE  job'.pc = pc /\ job'.name = job.name /\ job'.imp = job.imp
BY PortJobFacts DEF Goto, job, Job

(* The other steps of a handler keep imports and leases. *)
LEMMA PortsQuietStep ==
    ASSUME PortContext, UNCHANGED <<imports, leasesByName>>,
           \/ job' = job
           \/ job'.pc = "idle"
           \/ /\ job.pc \in {"services", "user"} /\ job'.name = job.name /\ job'.imp = job.imp
              /\ job'.pc \in {"user", "Valid"} \cup ServiceErrors
           \/ /\ job.pc = "delete" /\ job'.name = job.name
              /\ job'.pc \in {"release", "releaseRetry"}
    PROVE  PortsHeld'
<1>1. \A n \in Names : TargetPortValid(imports'[n]) => PortHeld(n)'
  BY DEF PortContext, PortsHeld, PortHeld
<1>2. CASE job' = job
  BY <1>1, <1>2 DEF PortContext, PortsHeld, JobPort
<1>3. CASE job'.pc = "idle"
  BY <1>1, <1>3 DEF PortsHeld, JobPort, Adding, ServiceErrors
<1>4. CASE /\ job.pc \in {"services", "user"} /\ job'.name = job.name /\ job'.imp = job.imp
           /\ job'.pc \in {"user", "Valid"} \cup ServiceErrors
  BY <1>1, <1>4 DEF PortContext, PortsHeld, JobPort, Adding, ServiceErrors
<1>5. CASE /\ job.pc = "delete" /\ job'.name = job.name
           /\ job'.pc \in {"release", "releaseRetry"}
  BY <1>1, <1>5 DEF PortContext, PortsHeld, JobPort, Adding, ServiceErrors
<1> QED BY <1>2, <1>3, <1>4, <1>5

LEMMA PortLeasePort ==
    ASSUME PortContext, LeasePort("import")
    PROVE  PortsHeld'
<1>1. PICK m \in Names, p \in 0..MaxPort, g \in 0..MaxPort :
        /\ m = job.name /\ p = job.imp.targetPort /\ job.pc = "lease"
        /\ Ports!Lease(m, p, g)
        /\ worker' = [worker EXCEPT !["import"].pc = allocateTargetPort(p, g),
                                    !["import"].imp.targetPort = IF g = 0 THEN p ELSE g]
        /\ UNCHANGED imports
  <2>1. job.pc = "lease" /\ UNCHANGED imports
    BY Zenon DEF LeasePort, job, api
  <2>2. job.name \in Names /\ job.imp.targetPort \in 0..MaxPort
    BY <2>1, PortJobFacts
  <2> QED BY <2>1, <2>2, Zenon DEF LeasePort, job
<1>2. job' = [job EXCEPT !.pc = allocateTargetPort(p, g),
                         !.imp.targetPort = IF g = 0 THEN p ELSE g]
  BY <1>1, PortJobFacts DEF job
<1>3. /\ job'.name = m /\ job'.pc = allocateTargetPort(p, g)
      /\ job'.imp.exists = job.imp.exists /\ job'.imp.status = job.imp.status
      /\ job'.imp.targetPort = IF g = 0 THEN p ELSE g
      /\ job'.current = job.current
  BY <1>1, <1>2, PortJobFacts DEF Job, Import
<1>4. /\ \A n \in Names \ {m} : leasesByName'[n] = leasesByName[n]
      /\ g = 0 => leasesByName' = leasesByName
      /\ g # 0 => leasesByName'[m] = g
      /\ g # 0 /\ p # 0 => g = p
  <2>1. PortsOK
    BY PortJobFacts
  <2> QED BY <1>1, <2>1, LeaseEffect
<1>5. TargetPortValid(imports[m]) => p = imports[m].targetPort /\ PortHeld(m)
  BY <1>1 DEF PortContext, PortsHeld, JobPort
<1>6. ASSUME NEW n \in Names, TargetPortValid(imports'[n]) PROVE PortHeld(n)'
  <2>1. TargetPortValid(imports[n]) /\ PortHeld(n)
    BY <1>1, <1>6 DEF PortContext, PortsHeld
  <2> QED BY <1>1, <1>4, <1>5, <2>1 DEF PortHeld
<1>7. JobPort'
  <2>1. \/ g = 0 /\ job'.pc = "PortError"
        \/ g # 0 /\ p = 0 /\ job'.pc = "update"
        \/ g # 0 /\ p # 0 /\ job'.pc = "services"
    BY <1>3 DEF allocateTargetPort
  <2>2. job.imp.exists /\ (job.current => job.imp.status = imports[m].status)
    BY <1>1 DEF PortContext, PortsHeld, JobPort, Adding
  <2>3. p = 0 => ~TargetPortValid(imports[m])
    BY <1>5 DEF PortHeld
  <2> QED BY <1>1, <1>3, <1>4, <2>1, <2>2, <2>3 DEF JobPort
<1> QED BY <1>6, <1>7 DEF PortsHeld

LEMMA PortUpdateImport ==
    ASSUME PortContext, UpdateImport("import")
    PROVE  PortsHeld'
<1>1. PICK m \in Names : m = job.name /\ job.pc = "update"
  BY PortJobFacts DEF UpdateImport, job
<1>2. /\ ~TargetPortValid(imports[m]) /\ job.imp.exists
      /\ job.imp.targetPort # 0 /\ leasesByName[m] = job.imp.targetPort
      /\ job.current => job.imp.status = imports[m].status
  BY <1>1 DEF PortContext, PortsHeld, JobPort, Adding
<1>3. CASE /\ job.current /\ WriteImport(m, job.imp)
           /\ worker' = [Outdated(m) EXCEPT !["import"] = [job EXCEPT !.pc = "services"]]
           /\ UNCHANGED <<ports, queues>>
  <2>1. job' = [job EXCEPT !.pc = "services"]
    BY <1>3, PortJobFacts DEF job, Outdated
  <2>2. job'.name = m /\ job'.pc = "services" /\ job'.imp = job.imp
    BY <1>1, <2>1, PortJobFacts DEF Job
  <2>3. JobPort'
    BY <1>2, <1>3, <2>2 DEF JobPort, ports
  <2>4. ASSUME NEW n \in Names, TargetPortValid(imports'[n]) PROVE PortHeld(n)'
    <3>1. imports' = [imports EXCEPT ![m] = job.imp] /\ UNCHANGED leasesByName
      BY <1>3 DEF WriteImport, ports
    <3>2. ~TargetPortValid(job.imp)
      BY <1>2, <1>3 DEF TargetPortValid
    <3>3. n # m /\ imports'[n] = imports[n]
      BY <2>4, <3>1, <3>2, PortJobFacts
    <3> QED BY <2>4, <3>1, <3>3 DEF PortContext, PortsHeld, PortHeld
  <2> QED BY <2>3, <2>4 DEF PortsHeld
<1>4. CASE /\ Ports!Release(m) /\ worker' = [worker EXCEPT !["import"] = Idle]
           /\ UNCHANGED <<imports, importCurrent>>
  <2>1. job'.pc = "idle"
    BY <1>4, PortJobFacts, Constants DEF job
  <2>2. \A n \in Names \ {m} : leasesByName'[n] = leasesByName[n]
    BY <1>4, ReleaseEffect, PortJobFacts
  <2>3. JobPort'
    BY <2>1 DEF JobPort, Adding, ServiceErrors
  <2>4. ASSUME NEW n \in Names, TargetPortValid(imports'[n]) PROVE PortHeld(n)'
    BY <1>2, <1>4, <2>2, <2>4 DEF PortContext, PortsHeld, PortHeld
  <2> QED BY <2>3, <2>4 DEF PortsHeld
<1> QED BY <1>1, <1>3, <1>4, Zenon DEF UpdateImport, job

LEMMA PortUpdateImportStatus ==
    ASSUME PortContext, UpdateImportStatus("import")
    PROVE  PortsHeld'
<1>1. /\ job.pc \in {"Valid", "PortError"} \cup ServiceErrors
      /\ UNCHANGED leasesByName
  BY Zenon DEF UpdateImportStatus, job, ports
<1>2. job.pc # "idle" /\ job.pc \in Adding
  BY <1>1 DEF Adding, ServiceErrors
<1>3. PICK m \in Names, imp \in Import : m = job.name /\ imp = [job.imp EXCEPT !.status = job.pc]
  <2>1. [job.imp EXCEPT !.status = job.pc] \in Import
    BY <1>1, PortJobFacts DEF Import, Status
  <2> QED BY <1>2, <2>1, PortJobFacts
<1>4. \/ WriteImport(m, imp) /\ worker' = [Outdated(m) EXCEPT !["import"] = Idle]
      \/ UNCHANGED <<imports, importCurrent>> /\ worker' = [worker EXCEPT !["import"] = Idle]
  BY <1>3 DEF UpdateImportStatus, job
<1>5. job'.pc = "idle"
  <2>1. job' = Idle
    BY <1>4, PortJobFacts DEF job, Outdated
  <2> QED BY <2>1, Constants
<1>6. CASE UNCHANGED imports
  BY <1>1, <1>5, <1>6, PortsQuietStep
<1>7. CASE WriteImport(m, imp)
  <2>1. imports' = [imports EXCEPT ![m] = imp]
    BY <1>7 DEF WriteImport
  <2>2. JobPort'
    BY <1>5 DEF JobPort, Adding, ServiceErrors
  <2>3. imp.status = job.pc /\ imp.exists = job.imp.exists /\ imp.targetPort = job.imp.targetPort
    BY <1>3, PortJobFacts DEF Import
  <2>4. TargetPortValid(imp) => imp.exists /\ imp.targetPort # 0 /\ leasesByName[m] = imp.targetPort
    BY <1>1, <1>2, <1>3, <2>3 DEF PortContext, PortsHeld, JobPort, TargetPortValid, Adding, ServiceErrors
  <2>5. ASSUME NEW n \in Names, TargetPortValid(imports'[n]) PROVE PortHeld(n)'
    <3>1. CASE n = m
      BY <1>1, <2>1, <2>4, <2>5, <3>1, PortJobFacts DEF PortHeld
    <3>2. CASE n # m
      BY <1>1, <2>1, <2>5, <3>2, PortJobFacts DEF PortContext, PortsHeld, PortHeld
    <3> QED BY <3>1, <3>2
  <2> QED BY <2>2, <2>5 DEF PortsHeld
<1> QED BY <1>4, <1>6, <1>7

LEMMA PortReleasePort ==
    ASSUME PortContext, ReleasePort("import")
    PROVE  PortsHeld'
<1>1. PICK m \in Names : m = job.name /\ job.pc \in {"release", "releaseRetry"}
  BY PortJobFacts DEF ReleasePort, job
<1>2. Ports!Release(m) /\ worker' = [worker EXCEPT !["import"] = Idle] /\ UNCHANGED imports
  BY <1>1, Zenon DEF ReleasePort, job, api
<1>3. job'.pc = "idle"
  BY <1>2, PortJobFacts, Constants DEF job
<1>4. \A n \in Names \ {m} : leasesByName'[n] = leasesByName[n]
  BY <1>2, ReleaseEffect, PortJobFacts
<1>5. JobPort'
  BY <1>3 DEF JobPort, Adding, ServiceErrors
<1>6. ASSUME NEW n \in Names, TargetPortValid(imports'[n]) PROVE PortHeld(n)'
  BY <1>1, <1>2, <1>4, <1>6 DEF PortContext, PortsHeld, PortHeld, JobPort
<1> QED BY <1>5, <1>6 DEF PortsHeld

LEMMA PortHandlerStep ==
    ASSUME PortContext,
           \/ AddImportEndpointSlices("import")
           \/ AddSystemService("import") \/ AddUserService("import")
           \/ DeleteImportServices("import") \/ CheckExportService("import")
    PROVE  PortsHeld'
<1>1. UNCHANGED <<imports, leasesByName>>
  BY Zenon DEF AddImportEndpointSlices, AddSystemService, AddUserService, DeleteImportServices,
         CheckExportService, ports
<1>2. ASSUME NEW k, NEW svc, NEW next \in {"Valid", "user"}, addImportService("import", k, svc, next)
      PROVE  \E pc \in {"user", "Valid"} \cup ServiceErrors : Goto("import", pc)
  BY <1>2 DEF addImportService, ServiceErrors
<1>3. CASE AddImportEndpointSlices("import") \/ AddSystemService("import") \/ AddUserService("import")
  <2>1. job.pc \in {"services", "user"}
    BY <1>3 DEF AddImportEndpointSlices, AddSystemService, AddUserService, job
  <2>2. PICK pc \in {"user", "Valid"} \cup ServiceErrors : Goto("import", pc)
    <3>1. CASE AddImportEndpointSlices("import")
      BY <3>1, Zenon DEF AddImportEndpointSlices, ServiceErrors
    <3>2. CASE AddSystemService("import")
      <4>1. PICK next \in {"Valid", "user"} :
              addImportService("import", SystemKey(job.name), Managed(job.imp.targetPort), next)
        BY <3>2, Zenon DEF AddSystemService, job
      <4> QED BY <1>2, <4>1
    <3>3. CASE AddUserService("import")
      BY <1>2, <3>3, Zenon DEF AddUserService
    <3> QED BY <1>3, <3>1, <3>2, <3>3
  <2> QED BY <1>1, <2>1, <2>2, PortGoto, PortsQuietStep
<1>4. CASE DeleteImportServices("import")
  <2>1. job.pc = "delete" /\ \E pc \in {"release", "releaseRetry"} : Goto("import", pc)
    BY <1>4, Zenon DEF DeleteImportServices, job
  <2> QED BY <1>1, <2>1, PortGoto, PortsQuietStep
<1>5. CASE CheckExportService("import")
  <2>1. job'.pc = "idle"
    BY <1>5, PortJobFacts, Constants DEF CheckExportService, job
  <2> QED BY <1>1, <2>1, PortsQuietStep
<1> QED BY <1>3, <1>4, <1>5

LEMMA PortReconcileImport ==
    ASSUME PortContext, NEW m \in Names, ReconcileImport(m)
    PROVE  PortsHeld'
<1> DEFINE pc == IF importCache[m].exists THEN "lease" ELSE "delete"
<1>1. /\ Readable(m) /\ Start("import", m, "user", pc)
      /\ UNCHANGED <<imports, leasesByName>>
  BY Zenon DEF ReconcileImport, api, ports
<1>2. importCache[m] = imports[m]
  BY <1>1 DEF Readable, PortContext, ImportControllerOnly, WorkerContext, Coherent
<1>3. /\ job'.name = m /\ job'.pc = pc
      /\ pc = "lease" => job'.imp = imports[m]
  BY <1>1, <1>2, PortJobFacts DEF Start, job
<1>4. TargetPortValid(imports[m]) => imports[m].exists
  BY DEF PortContext, PortsHeld, PortHeld
<1>5. JobPort'
  BY <1>1, <1>2, <1>3, <1>4 DEF JobPort, Adding, ServiceErrors
<1>6. \A n \in Names : TargetPortValid(imports'[n]) => PortHeld(n)'
  BY <1>1 DEF PortContext, PortsHeld, PortHeld
<1> QED BY <1>5, <1>6 DEF PortsHeld

LEMMA PortUserImport ==
    ASSUME PortContext, NEW m \in Names, NEW op, NEW imp \in Import,
           UserWritesImport(op, m, imp), UserImport(m, imp)
    PROVE  PortsHeld'
<1>1. worker' = Outdated(m) /\ imports' = [imports EXCEPT ![m] = imp] /\ UNCHANGED leasesByName
  BY Zenon DEF UserWritesImport, WriteImport, ports
<1>2. /\ job'.pc = job.pc /\ job'.name = job.name /\ job'.imp = job.imp
      /\ job'.current => job.current /\ job.name # m
  BY <1>1, OutdatedJobs, PortJobFacts DEF job, PortContext, WorkerContext
<1>3. TargetPortValid(imp) => /\ TargetPortValid(imports[m]) /\ imp.exists
                              /\ imp.targetPort = imports[m].targetPort
  BY DEF UserImport, TargetPortValid, NoImport, ServiceErrors, PortContext, PortsNotEdited
<1>4. imports'[m] = imp /\ \A n \in Names \ {m} : imports'[n] = imports[n]
  BY <1>1, PortJobFacts
<1>5. \A n \in Names : TargetPortValid(imports'[n]) => PortHeld(n)'
  BY <1>1, <1>3, <1>4 DEF PortContext, PortsHeld, PortHeld
<1>6. JobPort'
  <2>1. CASE job.pc = "idle"
    BY <1>2, <2>1 DEF JobPort, Adding, ServiceErrors
  <2>2. CASE job.pc # "idle"
    <3>1. job.name \in Names
      BY <2>2, PortJobFacts
    <3>2. CASE job.name = m
      BY <1>1, <1>2, <1>3, <1>4, <3>2 DEF PortContext, PortsHeld, JobPort
    <3>3. CASE job.name # m
      BY <1>1, <1>2, <1>4, <3>1, <3>3 DEF PortContext, PortsHeld, JobPort
    <3> QED BY <3>2, <3>3
  <2> QED BY <2>1, <2>2
<1> QED BY <1>5, <1>6 DEF PortsHeld

LEMMA PortOtherStep ==
    ASSUME PortContext,
           \/ ReconcileDataplaneSlice \/ \E n \in Names : ReconcileEndpointSlice(n)
           \/ \E n \in Names : ReconcileListener(n)
           \/ (\E n \in Names : SyncImport(n)) \/ (\E k \in ServiceKeys : SyncService(k))
           \/ \E k \in ServiceKeys : UserService(k)
           \/ \E n \in Names : ReconcileExport(n) \/ UserExport(n)
           \/ ChangeDataplane
           \/ UNCHANGED vars
    PROVE  PortsHeld'
<1>1. UNCHANGED <<imports, leasesByName, worker>>
  BY Zenon DEF ReconcileDataplaneSlice, ReconcileEndpointSlice, ReconcileListener, SyncImport, SyncService,
         UserService, ReconcileExport, UserExport, ChangeDataplane, vars, api, ports
<1> QED BY <1>1, PortsQuietStep DEF job

LEMMA PortStep == BaseInv /\ PortInv /\ [Next]_vars => PortInv'
<1> SUFFICES ASSUME BaseInv, PortInv, [Next]_vars, ImportControllerOnly', PortsNotEdited'
             PROVE  PortsHeld'
  BY DEF PortInv
<1>1. UNCHANGED environment
  BY NextSteps DEF vars
<1>2. ImportControllerOnly /\ PortsNotEdited /\ PortsHeld
  BY <1>1 DEF ImportControllerOnly, PortsNotEdited, PortInv
<1>3. PortContext
  <2>1. "import" \in Workers /\ "import" \in environment.workers
    BY <1>2 DEF Workers, ImportControllerOnly
  <2> QED BY <1>1, <1>2, <2>1, Context DEF PortContext
<1>4. CASE WorkerStep("import")
  BY <1>3, <1>4, PortLeasePort, PortUpdateImport, PortUpdateImportStatus, PortReleasePort,
     PortHandlerStep, Zenon DEF WorkerStep
<1>5. CASE UNCHANGED vars
  BY <1>3, <1>5, PortOtherStep
<1> QED BY <1>2, <1>3, <1>4, <1>5, ImportSteps, PortReconcileImport, PortUserImport, PortOtherStep, Zenon

LEMMA PortInit == Init => PortInv
<1> SUFFICES ASSUME Init PROVE PortsHeld
  BY DEF PortInv
<1>1. job.pc = "idle"
  BY Constants DEF Init, job, Workers
<1>2. JobPort
  BY <1>1 DEF JobPort, Adding, ServiceErrors
<1>3. \A n \in Names : ~TargetPortValid(imports[n])
  BY DEF Init, TargetPortValid, NoImport, ServiceErrors
<1> QED BY <1>2, <1>3 DEF PortsHeld

(* Whatever the environment, the port manager is only called by handlers,  *)
(* for names of imports, and a restart empties its maps.                   *)
LEMMA PortManagerSteps ==
    ASSUME BaseInv, [Next]_vars
    PROVE  \/ UNCHANGED <<leasesByName, leasesByPort>>
           \/ \E n \in Names, p, g \in 0..MaxPort : Ports!Lease(n, p, g)
           \/ \E n \in Names : Ports!Release(n)
           \/ leasesByPort' = [p \in 1..MaxPort |-> NoName] /\ leasesByName' = [n \in Names |-> 0]
<1>1. Parts
  BY BaseParts
<1>2. ASSUME NEW w \in Workers, w \in environment.workers, WorkerAction(w)
      PROVE  \/ UNCHANGED <<leasesByName, leasesByPort>>
             \/ \E n \in Names, p, g \in 0..MaxPort : Ports!Lease(n, p, g)
             \/ \E n \in Names : Ports!Release(n)
  <2>1. worker[w] \in Job /\ (worker[w].pc # "idle" => worker[w].name \in Names)
    BY <1>1, Zenon DEF Parts, JobsOK, Busy
  <2>2. CASE LeasePort(w)
    <3>1. worker[w].name \in Names /\ worker[w].imp.targetPort \in 0..MaxPort
      BY <2>1, <2>2 DEF LeasePort, Job, Import
    <3> QED BY <2>2, <3>1 DEF LeasePort
  <2>3. CASE UpdateImport(w) \/ ReleasePort(w)
    <3>1. worker[w].name \in Names
      BY <2>1, <2>3 DEF UpdateImport, ReleasePort
    <3> QED BY <2>3, <3>1, Zenon DEF UpdateImport, ReleasePort, ports
  <2>4. CASE \/ AddImportEndpointSlices(w) \/ AddSystemService(w) \/ AddUserService(w)
             \/ UpdateImportStatus(w) \/ DeleteImportServices(w) \/ CheckExportService(w)
    BY <2>4, Zenon DEF AddImportEndpointSlices, AddSystemService, AddUserService, UpdateImportStatus,
           DeleteImportServices, CheckExportService, ports
  <2>5. CASE (\E n \in Names : ReconcileImport(n)) \/ (\E k \in ServiceKeys : ReconcileService(k))
    BY <2>5, Zenon DEF ReconcileImport, ReconcileService, ports
  <2> QED BY <1>2, <2>2, <2>3, <2>4, <2>5, Zenon DEF WorkerAction, WorkerStep
<1>3. CASE \/ \E n \in Names : ReconcileExport(n)
           \/ ReconcileDataplaneSlice \/ \E n \in Names : ReconcileEndpointSlice(n)
           \/ \E n \in Names : ReconcileListener(n)
           \/ \E n \in Names : SyncImport(n)
           \/ \E k \in ServiceKeys : SyncService(k)
  BY <1>3, Zenon DEF ReconcileExport, ReconcileDataplaneSlice, ReconcileEndpointSlice, ReconcileListener,
         SyncImport, SyncService, ports
<1>4. CASE Users
  BY <1>1, <1>4, UserSteps, Zenon DEF UserWritesImport, UserService, UserExport, ChangeDataplane, ports
<1>5. CASE Restart
  BY <1>5 DEF Restart
<1>6. CASE UNCHANGED vars
  BY <1>6, Zenon DEF vars, ports
<1> QED BY <1>2, <1>3, <1>4, <1>5, <1>6, NextSteps, Zenon
-------------------------------------------------------------------------------
(* The port manager behind the import handlers: its two maps are inverse   *)
(* to each other.  The argument is that of PortsProofs, for the            *)
(* instance of the port manager the handlers call.                         *)
FST == INSTANCE FiniteSetTheorems

LEMMA PortRange ==
    /\ Ports!portCount \in Nat /\ Ports!portCount >= 3
    /\ Ports!Port = 1..MaxPort /\ 1..(Ports!portCount - 2) \subseteq Ports!Port
    /\ Ports!getRandomFreePort \subseteq Ports!Port
<1>1. /\ Ports!portCount \in Nat /\ Ports!portCount >= 3
      /\ Ports!Port = 1..MaxPort /\ 1..(Ports!portCount - 2) \subseteq Ports!Port
      /\ Ports!portRange \subseteq Ports!Port
  BY ControlAssumption DEF Ports!portCount, Ports!Port, Ports!portRange
<1>2. Ports!scannedPort \subseteq Ports!Port
  BY <1>1 DEF Ports!scannedPort
<1> QED BY <1>1, <1>2, Zenon DEF Ports!getRandomFreePort

(* Pigeonhole: the other names cannot lease all the ports of the full scan. *)
LEMMA FreeScan ==
    ASSUME Ports!FewNames, PortsOK, Ports!LeasesInverse,
           NEW n \in Names, leasesByName[n] = 0
    PROVE  \E k \in 1..(Ports!portCount - 2) : k \notin Ports!Leased
<1> DEFINE S == 1..(Ports!portCount - 2)
           T == Names \ {n}
           f == [k \in S |-> leasesByPort[k]]
<1>1. SUFFICES ASSUME S \subseteq Ports!Leased PROVE FALSE
  OBVIOUS
<1>2. FST!IsFiniteSet(S) /\ FST!Cardinality(S) = Ports!portCount - 2
  BY PortRange, FST!FS_Interval, Ports!portCount - 2 \in Int, 1 \in Int
<1>3. /\ FST!IsFiniteSet(T) /\ FST!Cardinality(T) = FST!Cardinality(Names) - 1
      /\ FST!Cardinality(Names) \in Nat /\ FST!Cardinality(Names) = Ports!Cardinality(Names)
  <2>1. FST!Cardinality(Names) = Ports!Cardinality(Names)
    BY DEF FST!Cardinality, Ports!Cardinality
  <2>2. FST!IsFiniteSet(Names)
    BY ControlAssumption DEF IsFiniteSet, FST!IsFiniteSet
  <2> QED BY <2>1, <2>2, FST!FS_RemoveElement, FST!FS_CardinalityType
<1>4. FST!Cardinality(T) < FST!Cardinality(S)
  BY <1>2, <1>3, PortRange DEF Ports!FewNames
<1>5. ASSUME NEW k \in S PROVE leasesByPort[k] \in T /\ leasesByName[leasesByPort[k]] = k
  BY <1>1, PortRange DEF Ports!Leased, PortsOK, Ports!LeasesInverse
<1>6. \E x, y \in S : x # y /\ f[x] = f[y]
  <2>1. f \in [S -> T]
    BY <1>5
  <2> HIDE DEF S, T, f
  <2> QED BY <1>2, <1>3, <1>4, <2>1, FST!FS_PigeonHole
<1> QED BY <1>5, <1>6

(* Marking a port that is free or already held by n keeps the maps inverse. *)
LEMMA MarkInverse ==
    ASSUME PortsOK, Ports!LeasesInverse, NEW n \in Names, NEW p \in Ports!Port,
           leasesByPort[p] \in {n, NoName}, Ports!mark(n, p)
    PROVE  Ports!LeasesInverse'
<1> SUFFICES ASSUME NEW m \in Names, NEW q \in Ports!Port
             PROVE  leasesByPort'[q] = m <=> leasesByName'[m] = q
  BY DEF Ports!LeasesInverse
<1>1. /\ leasesByPort[q] = m <=> leasesByName[m] = q
      /\ leasesByPort[q] = n <=> leasesByName[n] = q
      /\ leasesByPort[p] = m <=> leasesByName[m] = p
  BY DEF Ports!LeasesInverse
<1> QED BY <1>1, ControlAssumption DEF PortsOK, Ports!Port, Ports!mark

LEMMA LeasesInverseStep ==
    ASSUME Ports!FewNames, BaseInv, Ports!LeasesInverse, [Next]_vars
    PROVE  Ports!LeasesInverse'
<1>1. PortsOK
  BY BaseParts DEF Parts
<1>2. ASSUME NEW n \in Names, NEW p \in 0..MaxPort, NEW g \in 0..MaxPort, Ports!Lease(n, p, g)
      PROVE  Ports!LeasesInverse'
  <2>1. CASE UNCHANGED Ports!portVars
    BY <2>1 DEF Ports!portVars, Ports!LeasesInverse
  <2>2. ASSUME leasesByName[n] = 0, g \in Ports!getRandomFreePort
        PROVE  g \in Ports!Port /\ leasesByPort[g] = NoName
    <3>1. PICK k \in 1..(Ports!portCount - 2) : k \notin Ports!Leased
      BY <1>1, <2>2, FreeScan
    <3> QED BY <2>2, <3>1, PortRange DEF Ports!getRandomFreePort, Ports!scannedPort, Ports!Leased
  <2>3. p # 0 => p \in Ports!Port
    BY PortRange, ControlAssumption
  <2> QED BY <1>1, <1>2, <2>1, <2>2, <2>3, MarkInverse, Zenon
          DEF Ports!Lease, Ports!leaseWithRandomPort, Ports!leaseWithSpecificPort
<1>3. ASSUME NEW n \in Names, Ports!Release(n)
      PROVE  Ports!LeasesInverse'
  <2> SUFFICES ASSUME NEW m \in Names, NEW q \in Ports!Port
               PROVE  leasesByPort'[q] = m <=> leasesByName'[m] = q
    BY DEF Ports!LeasesInverse
  <2>1. /\ leasesByPort[q] = m <=> leasesByName[m] = q
        /\ leasesByPort[q] = n <=> leasesByName[n] = q
    BY DEF Ports!LeasesInverse
  <2> QED BY <1>1, <1>3, <2>1, ControlAssumption, PortRange DEF PortsOK, Ports!Release
<1>4. CASE leasesByPort' = [p \in 1..MaxPort |-> NoName] /\ leasesByName' = [n \in Names |-> 0]
  BY <1>4, ControlAssumption, PortRange DEF Ports!LeasesInverse
<1>5. CASE UNCHANGED <<leasesByName, leasesByPort>>
  BY <1>5 DEF Ports!LeasesInverse
<1> QED BY <1>2, <1>3, <1>4, <1>5, PortManagerSteps, Zenon

(* Two imports that are reported with a valid target port never share it,  *)
(* whatever users create, delete and toggle while the handlers run, as     *)
(* long as there are not more names than the full scan of the port manager *)
(* visits: allocateTargetPort and Release keep the leases of the port      *)
(* manager ahead of the statuses of the imports.                           *)
THEOREM ValidPortsLeased ==
    ASSUME Ports!FewNames
    PROVE  Spec => []ValidPortsDistinct
<1>1. Init => Ports!LeasesInverse
  BY ControlAssumption, PortRange DEF Init, Ports!LeasesInverse
<1>2. BaseInv /\ Ports!LeasesInverse /\ [Next]_vars => Ports!LeasesInverse'
  BY LeasesInverseStep
<1>3. BaseInv /\ Ports!LeasesInverse /\ PortInv => ValidPortsDistinct
  <2> SUFFICES ASSUME BaseInv, Ports!LeasesInverse, PortInv, ImportControllerOnly, PortsNotEdited,
                      NEW n \in Names, NEW m \in Names,
                      TargetPortValid(imports[n]), TargetPortValid(imports[m]),
                      imports[n].targetPort = imports[m].targetPort
               PROVE  n = m
    BY DEF ValidPortsDistinct
  <2>1. PortHeld(n) /\ PortHeld(m)
    BY DEF PortInv, PortsHeld
  <2>2. leasesByName[n] \in Ports!Port /\ leasesByName[m] = leasesByName[n]
    BY <2>1, BaseParts DEF Parts, PortsOK, PortHeld, Ports!Port
  <2> QED BY <2>2 DEF Ports!LeasesInverse
<1> QED BY <1>1, <1>2, <1>3, PortInit, PortStep, Base, PTL DEF Spec

(* Listeners, in every environment: an import is not yet in the cache or   *)
(* is queued for xds.import, or the data plane listens where it says.      *)
Listened(n) ==
    \/ n \notin importCurrent \/ n \in xdsQ
    \/ /\ ~imports[n].exists => listeners[n] = 0
       /\ imports[n].exists /\ TargetPortValid(imports[n]) => listeners[n] = imports[n].targetPort

ListenInv == \A n \in Names : Listened(n)

(* Only xds.import, SyncImport and restarts touch listeners and their      *)
(* queue, and a written import is no longer current.                       *)
LEMMA ListenQuiet ==
    ASSUME ListenInv, UNCHANGED <<xdsQ, listeners>>,
           \/ UNCHANGED <<imports, importCurrent>>
           \/ /\ imports \in [Names -> Import]
              /\ \E n \in Names : \E imp : WriteImport(n, imp)
    PROVE  ListenInv'
<1> SUFFICES ASSUME NEW n \in Names PROVE Listened(n)'
  BY DEF ListenInv
<1>1. Listened(n)
  BY DEF ListenInv
<1>2. n \notin importCurrent' \/ (imports'[n] = imports[n] /\ (n \in importCurrent' => n \in importCurrent))
  BY DEF WriteImport
<1> QED BY <1>1, <1>2 DEF Listened

LEMMA ListenWorker ==
    ASSUME BaseInv, ListenInv, NEW w \in Workers, WorkerAction(w)
    PROVE  ListenInv'
<1>1. imports \in [Names -> Import] /\ (worker[w].pc # "idle" => worker[w].name \in Names)
  BY BaseParts, Zenon DEF Parts, ApiOK, Busy
<1>2. CASE UpdateImport(w)
  <2>1. worker[w].name \in Names
    BY <1>1, <1>2 DEF UpdateImport
  <2>2. UNCHANGED <<xdsQ, listeners>>
    BY <1>2, Zenon DEF UpdateImport, queues, Return
  <2>3. \/ UNCHANGED <<imports, importCurrent>>
        \/ WriteImport(worker[w].name, worker[w].imp)
    BY <1>2, Zenon DEF UpdateImport
  <2> QED BY <1>1, <2>1, <2>2, <2>3, ListenQuiet
<1>3. CASE UpdateImportStatus(w)
  <2> DEFINE imp == [worker[w].imp EXCEPT !.status = worker[w].pc]
  <2>1. worker[w].name \in Names
    BY <1>1, <1>3 DEF UpdateImportStatus, ServiceErrors
  <2>2. UNCHANGED <<xdsQ, listeners>>
    BY <1>3, Zenon DEF UpdateImportStatus, Return
  <2>3. \/ UNCHANGED <<imports, importCurrent>>
        \/ WriteImport(worker[w].name, imp)
    BY <1>3 DEF UpdateImportStatus
  <2> HIDE DEF imp
  <2> QED BY <1>1, <2>1, <2>2, <2>3, ListenQuiet
<1>4. CASE AddSystemService(w) \/ AddUserService(w)
  <2>1. UNCHANGED <<imports, importCurrent, xdsQ, listeners>>
    BY <1>4, Zenon DEF AddSystemService, AddUserService, addImportService, queues
  <2> QED BY <2>1, ListenQuiet
<1>5. CASE \/ LeasePort(w) \/ AddImportEndpointSlices(w) \/ DeleteImportServices(w)
           \/ ReleasePort(w) \/ CheckExportService(w)
           \/ (\E n \in Names : ReconcileImport(n)) \/ (\E k \in ServiceKeys : ReconcileService(k))
  <2>1. UNCHANGED <<imports, importCurrent, xdsQ, listeners>>
    BY <1>5, Zenon DEF LeasePort, AddImportEndpointSlices, DeleteImportServices, ReleasePort,
       CheckExportService, ReconcileImport, ReconcileService, Return, api, caches, queues
  <2> QED BY <2>1, ListenQuiet
<1> QED BY <1>2, <1>3, <1>4, <1>5, Zenon DEF WorkerAction, WorkerStep

LEMMA ListenStep == BaseInv /\ ListenInv /\ [Next]_vars => ListenInv'
<1> SUFFICES ASSUME BaseInv, ListenInv, [Next]_vars PROVE ListenInv'
  OBVIOUS
<1>1. Parts /\ imports \in [Names -> Import]
  BY BaseParts DEF Parts, ApiOK
<1>2. CASE \E n \in Names : ReconcileListener(n)
  <2>1. PICK m \in Names : ReconcileListener(m)
    BY <1>2
  <2>2. /\ UNCHANGED <<imports, importCurrent>> /\ xdsQ' = xdsQ \ {m}
        /\ listeners' = [listeners EXCEPT ![m] =
              IF importCache[m].exists THEN AddImport(m, importCache[m]) ELSE 0]
    BY <2>1, Zenon DEF ReconcileListener, api, caches
  <2>3. listeners \in [Names -> 0..MaxPort] /\ (m \in importCurrent => importCache[m] = imports[m])
    BY <1>1 DEF Parts, OthersOK, Coherent
  <2> QED BY <2>2, <2>3 DEF ListenInv, Listened, AddImport
<1>3. CASE \E n \in Names : SyncImport(n)
  <2>1. PICK m \in Names : /\ importCurrent' = importCurrent \cup {m} /\ xdsQ' = xdsQ \cup {m}
                           /\ UNCHANGED <<imports, listeners>>
    BY <1>3, Zenon DEF SyncImport, api
  <2> QED BY <2>1 DEF ListenInv, Listened
<1>4. CASE Restart
  <2>1. /\ UNCHANGED imports /\ listeners' = [n \in Names |-> 0]
        /\ xdsQ' = {n \in Names : imports[n].exists}
    BY <1>4, Zenon DEF Restart, api
  <2> QED BY <2>1 DEF ListenInv, Listened
<1>5. CASE Users
  <2>1. CASE \E n \in Names, op \in UserOps, imp \in Import : UserWritesImport(op, n, imp)
    <3>1. UNCHANGED <<xdsQ, listeners>> /\ \E n \in Names : \E imp : WriteImport(n, imp)
      BY <2>1, Zenon DEF UserWritesImport, queues
    <3> QED BY <1>1, <3>1, ListenQuiet
  <2>2. CASE (\E k \in ServiceKeys : UserService(k)) \/ (\E n \in Names : UserExport(n)) \/ ChangeDataplane
    <3>1. UNCHANGED <<imports, importCurrent, xdsQ, listeners>>
      BY <2>2, Zenon DEF UserService, UserExport, ChangeDataplane, caches, queues
    <3> QED BY <3>1, ListenQuiet
  <2> QED BY <1>1, <1>5, <2>1, <2>2, UserSteps
<1>6. CASE \/ \E n \in Names : ReconcileExport(n)
           \/ ReconcileDataplaneSlice \/ \E n \in Names : ReconcileEndpointSlice(n)
           \/ \E k \in ServiceKeys : SyncService(k)
           \/ UNCHANGED vars
  <2>1. UNCHANGED <<imports, importCurrent, xdsQ, listeners>>
    BY <1>6, Zenon DEF ReconcileExport, ReconcileDataplaneSlice, ReconcileEndpointSlice, SyncService,
       vars, api, caches, queues
  <2> QED BY <2>1, ListenQuiet
<1> QED BY <1>2, <1>3, <1>4, <1>5, <1>6, NextSteps, ListenWorker, Zenon

(* At rest the data plane listens where the imports say, and nowhere else: *)
(* a deleted import has no listener, and an import with a valid port has   *)
(* one on that port.                                                       *)
ListenersFollowImports ==
    Quiescent => \A n \in Names :
        /\ ~imports[n].exists => listeners[n] = 0
        /\ imports[n].exists /\ TargetPortValid(imports[n]) => listeners[n] = imports[n].targetPort

(* xds.Manager follows the imports in every environment: with both        *)
(* workers, stale caches, users who edit and delete imports, and restarts. *)
THEOREM ListenersMatch == Spec => []ListenersFollowImports
<1>1. Init => ListenInv
  BY DEF Init, ListenInv, Listened, NoImport
<1>2. ListenInv => ListenersFollowImports
  BY DEF ListenInv, Listened, ListenersFollowImports, Quiescent
<1> QED BY <1>1, <1>2, ListenStep, Base, PTL DEF Spec

===============================================================================
