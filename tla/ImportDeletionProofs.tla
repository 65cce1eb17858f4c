------------------------- MODULE ImportDeletionProofs -------------------------
(***************************************************************************)
(* Proof that deleteImport leaves nothing behind, for every set of names   *)
(* and whatever users do, in environments where control.import alone works *)
(* and reads caches that are up to date.                                   *)
(***************************************************************************)
EXTENDS ImportControlProofs

(* What a deleted import leaves behind is still to be cleaned: its         *)
(* deletion has not reached the queue or is waiting there, or the handler  *)
(* is at it, with this much done.                                          *)
Unseen(n) == n \notin importCurrent \/ n \in importQ

NoManaged(n) == \A k \in ServiceKeys : k[2] = n => services[k].kind # "managed"

ListenerGone(n) == n \notin importCurrent \/ n \in xdsQ \/ listeners[n] = 0

SliceGone(n) ==
    \/ Unseen(n) \/ n \in sliceQ \/ slices[n] = NoSlice
    \/ job.name = n /\ job.pc = "delete"

ServicesGone(n) ==
    \/ Unseen(n)
    \/ job.name = n /\ job.pc \in {"delete", "releaseRetry"}
    \/ job.name = n /\ job.pc = "release" /\ NoManaged(n)
    \/ job.name # n /\ NoManaged(n) /\ leasesByName[n] = 0

ImportGone(n) ==
    ~imports[n].exists =>
        imports[n] = NoImport /\ ListenerGone(n) /\ SliceGone(n) /\ ServicesGone(n)

(* deleteImport sees every managed service of its import in the cache. *)
JobSees ==
    /\ job.pc \in Adding => job.imp.exists
    /\ job.pc = "delete" =>
          \A k \in ServiceKeys : k[2] = job.name /\ services[k].kind = "managed"
              => serviceCache[k].kind = "managed"

Gone == JobSees /\ \A n \in Names : ImportGone(n)

CleanInv == ImportControllerOnly => Gone

CleanContext == ImportControllerOnly /\ WorkerContext("import") /\ Gone

(* An import that a step has nothing to do with. *)
LEMMA OtherImport ==
    ASSUME NEW n \in Names, ImportGone(n), imports'[n] = imports[n],
           n \in importCurrent' => n \in importCurrent,
           n \in importQ => n \in importQ',
           n \in xdsQ => n \in xdsQ', listeners'[n] = listeners[n],
           n \in sliceQ => n \in sliceQ',
           slices'[n] = slices[n] \/ slices'[n] = NoSlice \/ n \in sliceQ',
           leasesByName'[n] = leasesByName[n], NoManaged(n) => NoManaged(n)',
           \/ job'.name = job.name /\ job'.pc = job.pc
           \/ (job.name # n \/ job.pc = "idle") /\ job'.name # n
    PROVE  ImportGone(n)'
<1> SUFFICES ASSUME ~imports[n].exists
             PROVE  ListenerGone(n)' /\ SliceGone(n)' /\ ServicesGone(n)'
  BY DEF ImportGone
<1>1. Unseen(n) => Unseen(n)'
  BY DEF Unseen
<1>2. ListenerGone(n)'
  BY DEF ImportGone, ListenerGone
<1>3. SliceGone(n)'
  BY <1>1 DEF ImportGone, SliceGone
<1>4. ServicesGone(n)'
  BY <1>1 DEF ImportGone, ServicesGone
<1> QED BY <1>2, <1>3, <1>4

(* An import that is deleted while addImport is at work is seen to be so   *)
(* only later.                                                             *)
LEMMA AddingUnseen ==
    ASSUME JobSees, NEW n \in Names, ImportGone(n), job.pc \in Adding, job.name = n,
           ~imports[n].exists
    PROVE  Unseen(n)
BY DEF ImportGone, ServicesGone, Adding, ServiceErrors

LEMMA UnseenGone ==
    ASSUME NEW n \in Names, Unseen(n)', ListenerGone(n)',
           ~imports'[n].exists => imports'[n] = NoImport
    PROVE  ImportGone(n)'
BY Zenon DEF ImportGone, SliceGone, ServicesGone

(* The services of other imports. *)
LEMMA OtherServices ==
    ASSUME NEW n \in Names, NEW keys, NEW svc, WriteServices(keys, svc),
           \A k \in ServiceKeys : k \in keys => k[2] # n \/ svc.kind # "managed"
    PROVE  NoManaged(n) => NoManaged(n)'
BY DEF NoManaged, WriteServices

(* A step of addImport touches the port, the slice and the services of its *)
(* import only.                                                            *)
LEMMA AddingStep ==
    ASSUME CleanContext, job.pc \in Adding,
           job'.name = job.name, job'.pc \in Adding, job'.imp.exists = job.imp.exists,
           UNCHANGED <<imports, importCurrent, importQ, xdsQ, listeners>>,
           \A n \in Names \ {job.name} :
               /\ leasesByName'[n] = leasesByName[n] /\ slices'[n] = slices[n]
               /\ n \in sliceQ => n \in sliceQ'
               /\ NoManaged(n) => NoManaged(n)'
    PROVE  Gone'
<1>1. JobSees'
  BY DEF CleanContext, Gone, JobSees, Adding, ServiceErrors
<1>2. ASSUME NEW n \in Names PROVE ImportGone(n)'
  <2>1. CASE n # job.name
    BY <2>1, OtherImport DEF CleanContext, Gone
  <2>2. CASE n = job.name /\ ~imports[n].exists
    <3>1. Unseen(n)
      BY <2>2, AddingUnseen DEF CleanContext, Gone
    <3>2. Unseen(n)' /\ ListenerGone(n)' /\ imports'[n] = NoImport
      BY <2>2, <3>1 DEF CleanContext, Gone, ImportGone, Unseen, ListenerGone
    <3> QED BY <3>2, UnseenGone
  <2>3. CASE imports[n].exists
    BY <2>3 DEF ImportGone
  <2> QED BY <2>1, <2>2, <2>3
<1> QED BY <1>1, <1>2 DEF Gone

LEMMA JobFacts ==
    ASSUME CleanContext
    PROVE  /\ job \in Job /\ worker \in [Workers -> Job] /\ "import" \in Workers
           /\ job.imp \in Import /\ job.imp.targetPort \in 0..MaxPort
           /\ job.pc # "idle" => job.name \in Names
BY DEF CleanContext, WorkerContext, job, JobsOK, Job

LEMMA JobGoto ==
    ASSUME CleanContext, NEW pc, Goto("import", pc)
    PROVE  job'.pc = pc /\ job'.name = job.name /\ job'.imp = job.imp
BY JobFacts DEF Goto, job, Job

LEMMA CleanLeasePort ==
    ASSUME CleanContext, LeasePort("import")
    PROVE  Gone'
<1> DEFINE m == job.name
           p == job.imp.targetPort
<1>1. PICK g \in 0..MaxPort :
        /\ Ports!Lease(m, p, g)
        /\ worker' = [worker EXCEPT !["import"].pc = allocateTargetPort(p, g),
                                    !["import"].imp.targetPort = IF g = 0 THEN p ELSE g]
  BY Zenon DEF LeasePort, job
<1>2. /\ job.pc = "lease"
      /\ UNCHANGED <<imports, services, slices, caches, listeners, queues>>
  BY Zenon DEF LeasePort, job, api
<1>3. m \in Names /\ p \in 0..MaxPort /\ PortsOK
  BY <1>2, JobFacts DEF CleanContext, WorkerContext
<1>4. job' = [job EXCEPT !.pc = allocateTargetPort(p, g),
                         !.imp.targetPort = IF g = 0 THEN p ELSE g]
  BY <1>1, JobFacts DEF job
<1>5. job'.name = m /\ job'.pc = allocateTargetPort(p, g) /\ job'.imp.exists = job.imp.exists
  BY <1>4, JobFacts DEF Job, Import
<1>6. job.pc \in Adding /\ job'.pc \in Adding
  BY <1>2, <1>5 DEF allocateTargetPort, Adding
<1>7. \A n \in Names \ {m} : leasesByName'[n] = leasesByName[n]
  BY <1>1, <1>3, LeaseEffect, Zenon
<1>8. \A n \in Names : NoManaged(n) => NoManaged(n)'
  BY <1>2 DEF NoManaged
<1> QED BY <1>2, <1>5, <1>6, <1>7, <1>8, AddingStep DEF caches, queues

LEMMA CleanAddImportEndpointSlices ==
    ASSUME CleanContext, AddImportEndpointSlices("import")
    PROVE  Gone'
<1>1. PICK pc \in {"Valid", "ServiceNotExist"} : Goto("import", pc)
  BY Zenon DEF AddImportEndpointSlices, job
<1>2. /\ job.pc = "services" /\ \E slice : SetSlice(job.name, slice)
      /\ UNCHANGED <<imports, services, caches, ports, listeners, importQ, xdsQ>>
  BY Zenon DEF AddImportEndpointSlices, job
<1>3. /\ job'.name = job.name /\ job'.imp = job.imp
      /\ job.pc \in Adding /\ job'.pc \in Adding
  BY <1>1, <1>2, JobGoto DEF Adding, ServiceErrors
<1>4. \A n \in Names \ {job.name} : slices'[n] = slices[n] /\ (n \in sliceQ => n \in sliceQ')
  BY <1>2 DEF SetSlice, CleanContext, WorkerContext, ApiOK
<1>5. \A n \in Names : NoManaged(n) => NoManaged(n)'
  BY <1>2 DEF NoManaged
<1> QED BY <1>2, <1>3, <1>4, <1>5, AddingStep DEF caches, ports

LEMMA CleanAddService ==
    ASSUME CleanContext, NEW k, NEW svc, k[2] = job.name, NEW next \in {"Valid", "user"},
           addImportService("import", k, svc, next)
    PROVE  /\ job'.name = job.name /\ job'.imp = job.imp /\ job'.pc \in Adding
           /\ UNCHANGED importCurrent
           /\ \A n \in Names \ {job.name} : NoManaged(n) => NoManaged(n)'
<1>1. PICK keys \in SUBSET {k}, pc \in Adding :
        WriteServices(keys, svc) /\ Goto("import", pc) /\ UNCHANGED importCurrent
  <2> DEFINE old == serviceCache[k]
             put == \/ old = NoService /\ services[k] = NoService
                    \/ /\ checkServiceLabels(old) /\ serviceChanged(old, svc)
                       /\ services[k] # NoService
             keep == checkServiceLabels(old) /\ ~serviceChanged(old, svc)
             keys == IF put THEN {k} ELSE {}
             pc == CASE put \/ keep -> next
                     [] old # NoService /\ ~checkServiceLabels(old) -> "ConflictingService"
                     [] OTHER -> "ServiceApiError"
  <2>1. WriteServices(keys, svc) /\ Goto("import", pc) /\ UNCHANGED importCurrent
    BY DEF addImportService
  <2>2. keys \in SUBSET {k} /\ pc \in Adding
    BY DEF Adding, ServiceErrors
  <2> HIDE DEF keys, pc
  <2> QED BY <2>1, <2>2
<1>2. \A n \in Names \ {job.name} : NoManaged(n) => NoManaged(n)'
  BY <1>1, OtherServices
<1> QED BY <1>1, <1>2, JobGoto

LEMMA CleanAddServices ==
    ASSUME CleanContext, AddSystemService("import") \/ AddUserService("import")
    PROVE  Gone'
<1>1. job.name \in Names /\ job.pc \in Adding
  BY JobFacts DEF AddSystemService, AddUserService, job, Adding
<1>2. PICK k \in ServiceKeys, svc \in Service, next \in {"Valid", "user"} :
        k[2] = job.name /\ addImportService("import", k, svc, next)
  <2>1. CASE AddSystemService("import")
    <3> DEFINE svc == Managed(job.imp.targetPort)
               next == IF job.name \in SystemNames THEN "Valid" ELSE "user"
    <3>1. addImportService("import", SystemKey(job.name), svc, next)
      BY <2>1, Zenon DEF AddSystemService, job
    <3>2. /\ svc \in Service /\ next \in {"Valid", "user"}
          /\ SystemKey(job.name) \in ServiceKeys /\ SystemKey(job.name)[2] = job.name
      BY <1>1, JobFacts, Constants, Keys
    <3> HIDE DEF svc, next
    <3> QED BY <3>1, <3>2, Zenon
  <2>2. CASE AddUserService("import")
    <3>1. addImportService("import", <<"user", job.name>>, Managed(0), "Valid")
      BY <2>2, Zenon DEF AddUserService, job
    <3>2. /\ Managed(0) \in Service
          /\ <<"user", job.name>> \in ServiceKeys /\ <<"user", job.name>>[2] = job.name
      BY <1>1, Constants, Keys
    <3> QED BY <3>1, <3>2, Zenon
  <2> QED BY <2>1, <2>2
<1>3. UNCHANGED <<imports, importQ, xdsQ, listeners, ports>>
  BY Zenon DEF AddSystemService, AddUserService, queues
<1>4. (SetSlice(job.name, NoSlice)) \/ UNCHANGED <<slices, sliceQ>>
  BY Zenon DEF AddSystemService, AddUserService, queues, deleteImportEndpointSlices, job
<1>5. \A n \in Names \ {job.name} : slices'[n] = slices[n] /\ (n \in sliceQ => n \in sliceQ')
  BY <1>4 DEF SetSlice, CleanContext, WorkerContext, ApiOK
<1> QED BY <1>1, <1>2, <1>3, <1>5, CleanAddService, AddingStep DEF ports

(* addImport writes its import, or leaves it as it is; then it goes on or  *)
(* returns.                                                                *)
LEMMA CleanUpdate ==
    ASSUME CleanContext, NEW m \in Names, m = job.name, job.pc \in Adding, NEW imp, imp.exists,
           \/ WriteImport(m, imp) /\ job'.name \in {m, NoName}
           \/ UNCHANGED <<imports, importCurrent>> /\ job'.name = NoName,
           job'.pc \notin {"delete", "release", "releaseRetry"},
           job'.pc \in Adding => job'.imp.exists,
           importQ \subseteq importQ', leasesByName' \in [Names -> 0..MaxPort],
           \A n \in Names \ {m} : leasesByName'[n] = leasesByName[n],
           UNCHANGED <<services, slices, sliceQ, xdsQ, listeners>>
    PROVE  Gone'
<1>1. JobSees'
  BY DEF JobSees
<1>2. ASSUME NEW n \in Names PROVE ImportGone(n)'
  <2>1. CASE n # m
    <3>1. imports'[n] = imports[n] /\ (n \in importCurrent' => n \in importCurrent)
      BY <2>1 DEF WriteImport, CleanContext, WorkerContext, ApiOK
    <3>2. NoManaged(n) => NoManaged(n)'
      BY DEF NoManaged
    <3>3. job.name # n /\ job'.name # n
      BY <2>1, ControlAssumption
    <3> QED BY <2>1, <3>1, <3>2, <3>3, OtherImport DEF CleanContext, Gone
  <2>2. CASE n = m /\ WriteImport(m, imp)
    <3>1. imports'[n] = imp
      BY <2>2 DEF WriteImport, CleanContext, WorkerContext, ApiOK
    <3> QED BY <3>1 DEF ImportGone
  <2>3. CASE n = m /\ UNCHANGED <<imports, importCurrent>>
    <3> SUFFICES ASSUME ~imports[n].exists PROVE ImportGone(n)'
      BY <2>3 DEF ImportGone
    <3>1. Unseen(n)
      BY <2>3, AddingUnseen DEF CleanContext, Gone
    <3>2. Unseen(n)' /\ ListenerGone(n)' /\ imports'[n] = NoImport
      BY <2>3, <3>1 DEF CleanContext, Gone, ImportGone, Unseen, ListenerGone
    <3> QED BY <3>2, UnseenGone
  <2> QED BY <2>1, <2>2, <2>3
<1> QED BY <1>1, <1>2 DEF Gone

LEMMA CleanUpdateImport ==
    ASSUME CleanContext, UpdateImport("import")
    PROVE  Gone'
<1> DEFINE m == job.name
<1>1. /\ job.pc = "update" /\ m \in Names /\ job.pc \in Adding /\ PortsOK
      /\ UNCHANGED <<services, slices, listeners>>
  BY JobFacts DEF UpdateImport, job, Adding, CleanContext, WorkerContext
<1>2. job.imp.exists
  BY <1>1 DEF CleanContext, Gone, JobSees
<1>3. CASE /\ WriteImport(m, job.imp)
           /\ worker' = [Outdated(m) EXCEPT !["import"] = [job EXCEPT !.pc = "services"]]
           /\ UNCHANGED <<ports, queues>>
  <2>1. job' = [job EXCEPT !.pc = "services"]
    BY <1>3, JobFacts DEF job, Outdated
  <2>2. job'.name = m /\ job'.pc = "services" /\ job'.imp = job.imp
    BY <2>1, JobFacts DEF Job
  <2> QED BY <1>1, <1>2, <1>3, <2>2, CleanUpdate DEF ports, queues, PortsOK, Adding
<1>4. CASE /\ Ports!Release(m) /\ worker' = [worker EXCEPT !["import"] = Idle]
           /\ Return("import", TRUE)
           /\ UNCHANGED <<imports, importCurrent>>
  <2>1. job'.name = NoName /\ job'.pc = "idle"
    BY <1>4, JobFacts, Constants DEF job
  <2>2. importQ \subseteq importQ' /\ UNCHANGED <<sliceQ, xdsQ>>
    BY <1>4 DEF Return
  <2>3. /\ leasesByName' \in [Names -> 0..MaxPort]
        /\ \A n \in Names \ {m} : leasesByName'[n] = leasesByName[n]
    BY <1>1, <1>4, ReleaseEffect DEF PortsOK
  <2> QED BY <1>1, <1>2, <1>4, <2>1, <2>2, <2>3, CleanUpdate DEF Adding, ServiceErrors
<1> QED BY <1>3, <1>4, Zenon DEF UpdateImport, job

LEMMA CleanUpdateImportStatus ==
    ASSUME CleanContext, UpdateImportStatus("import")
    PROVE  Gone'
<1> DEFINE m == job.name
           imp == [job.imp EXCEPT !.status = job.pc]
<1>1. /\ job.pc \in {"Valid", "PortError"} \cup ServiceErrors
      /\ UNCHANGED <<services, slices, ports, listeners>>
  BY Zenon DEF UpdateImportStatus, job
<1>2. job.pc \in Adding /\ job.pc # "idle" /\ m \in Names /\ PortsOK
  BY <1>1, JobFacts DEF Adding, ServiceErrors, CleanContext, WorkerContext
<1>3. imp.exists
  <2>1. job.imp.exists /\ job.imp \in Import
    BY <1>2, JobFacts DEF CleanContext, Gone, JobSees
  <2> QED BY <2>1 DEF Import
<1>4. importQ \subseteq importQ' /\ UNCHANGED <<sliceQ, xdsQ>>
  BY DEF UpdateImportStatus, Return
<1>5. \/ WriteImport(m, imp) /\ worker' = [Outdated(m) EXCEPT !["import"] = Idle]
      \/ UNCHANGED <<imports, importCurrent>> /\ worker' = [worker EXCEPT !["import"] = Idle]
  BY DEF UpdateImportStatus, job
<1>6. job' = Idle
  BY <1>5, JobFacts DEF job, Outdated
<1>7. job'.name = NoName /\ job'.pc = "idle"
  BY <1>6, Constants
<1> HIDE DEF imp
<1> QED BY <1>1, <1>2, <1>3, <1>4, <1>5, <1>7, CleanUpdate DEF Adding, ServiceErrors, ports, PortsOK

LEMMA CleanDeleteImportServices ==
    ASSUME CleanContext, DeleteImportServices("import")
    PROVE  Gone'
<1> DEFINE m == job.name
           managed == {k \in importServices(m) : checkServiceLabels(serviceCache[k])}
           gone == {k \in managed : services[k] = NoService}
<1>1. /\ job.pc = "delete" /\ WriteServices(managed \ gone, NoService)
      /\ SetSlice(m, NoSlice)
      /\ Goto("import", IF gone = {} THEN "release" ELSE "releaseRetry")
      /\ UNCHANGED <<imports, importCurrent, ports, listeners, importQ, xdsQ>>
  BY Zenon DEF DeleteImportServices, deleteImportEndpointSlices, job
<1>2. m \in Names /\ NoService.kind # "managed"
  BY <1>1, JobFacts DEF NoService
<1>3. job'.name = m /\ job'.pc \in {"release", "releaseRetry"}
  BY <1>1, JobGoto
<1>4. JobSees'
  BY <1>3 DEF JobSees, Adding, ServiceErrors
<1>5. ASSUME NEW n \in Names, n = m PROVE NoManaged(n)'
  <2> SUFFICES ASSUME NEW k \in ServiceKeys, k[2] = n PROVE services'[k].kind # "managed"
    BY DEF NoManaged
  <2>1. services[k].kind = "managed" => k \in managed \ gone
    BY <1>1, <1>2, <1>5 DEF CleanContext, Gone, JobSees, importServices, checkServiceLabels
  <2> HIDE DEF managed, gone
  <2> QED BY <1>1, <1>2, <2>1 DEF WriteServices
<1>6. /\ \A n \in Names \ {m} : slices'[n] = slices[n] /\ (n \in sliceQ => n \in sliceQ')
      /\ slices'[m] = NoSlice
  BY <1>1, <1>2 DEF SetSlice, CleanContext, WorkerContext, ApiOK
<1>7. ASSUME NEW n \in Names PROVE ImportGone(n)'
  <2>1. CASE n # m
    <3>1. NoManaged(n) => NoManaged(n)'
      BY <1>1, <1>2, OtherServices
    <3> QED BY <1>1, <1>3, <1>6, <2>1, <3>1, OtherImport DEF CleanContext, Gone, ports
  <2>2. CASE n = m
    <3> SUFFICES ASSUME ~imports'[n].exists
                 PROVE  imports'[n] = NoImport /\ ListenerGone(n)' /\ SliceGone(n)' /\ ServicesGone(n)'
      BY DEF ImportGone
    <3>1. imports'[n] = NoImport /\ ListenerGone(n)'
      BY <1>1 DEF CleanContext, Gone, ImportGone, ListenerGone
    <3>2. SliceGone(n)'
      BY <1>6, <2>2 DEF SliceGone
    <3>3. ServicesGone(n)'
      BY <1>3, <1>5, <2>2 DEF ServicesGone
    <3> QED BY <3>1, <3>2, <3>3
  <2> QED BY <2>1, <2>2
<1> QED BY <1>4, <1>7 DEF Gone

LEMMA CleanReleasePort ==
    ASSUME CleanContext, ReleasePort("import")
    PROVE  Gone'
<1> DEFINE m == job.name
<1>1. /\ job.pc \in {"release", "releaseRetry"} /\ Ports!Release(m)
      /\ worker' = [worker EXCEPT !["import"] = Idle]
      /\ Return("import", job.pc = "releaseRetry")
      /\ UNCHANGED <<imports, services, slices, caches, listeners>>
  BY Zenon DEF ReleasePort, job, api
<1>2. m \in Names /\ PortsOK
  BY <1>1, JobFacts DEF CleanContext, WorkerContext
<1>3. job'.name = NoName /\ job'.pc = "idle"
  BY <1>1, JobFacts, Constants DEF job
<1>4. /\ importQ \subseteq importQ' /\ (job.pc = "releaseRetry" => m \in importQ')
      /\ UNCHANGED <<sliceQ, xdsQ>>
  BY <1>1 DEF Return, job
<1>5. leasesByName'[m] = 0 /\ \A n \in Names \ {m} : leasesByName'[n] = leasesByName[n]
  BY <1>1, <1>2, ReleaseEffect
<1>6. JobSees'
  BY <1>3 DEF JobSees, Adding, ServiceErrors
<1>7. ASSUME NEW n \in Names PROVE ImportGone(n)'
  <2>1. NoManaged(n) => NoManaged(n)'
    BY <1>1 DEF NoManaged
  <2>2. job'.name # n
    BY <1>3, ControlAssumption
  <2>3. CASE n # m
    BY <1>1, <1>4, <1>5, <2>1, <2>2, <2>3, OtherImport DEF CleanContext, Gone, caches
  <2>4. CASE n = m /\ ~imports[n].exists
    <3>1. imports'[n] = NoImport /\ ListenerGone(n)'
      BY <1>1, <1>4, <2>4 DEF CleanContext, Gone, ImportGone, ListenerGone, caches
    <3>2. Unseen(n) => Unseen(n)'
      BY <1>1, <1>4 DEF Unseen, caches
    <3>3. SliceGone(n)'
      BY <1>1, <1>4, <2>4, <3>2 DEF CleanContext, Gone, ImportGone, SliceGone
    <3>4. ServicesGone(n)'
      <4>1. job.pc = "releaseRetry" => Unseen(n)'
        BY <1>4, <2>4 DEF Unseen
      <4> QED BY <1>1, <1>5, <2>1, <2>2, <2>4, <3>2, <4>1 DEF CleanContext, Gone, ImportGone, ServicesGone
    <3> QED BY <3>1, <3>3, <3>4 DEF ImportGone
  <2>5. CASE imports[n].exists
    BY <1>1, <2>5 DEF ImportGone
  <2> QED BY <2>3, <2>4, <2>5
<1> QED BY <1>6, <1>7 DEF Gone

LEMMA CleanReconcileImport ==
    ASSUME CleanContext, NEW m \in Names, ReconcileImport(m)
    PROVE  Gone'
<1> DEFINE pc == IF importCache[m].exists THEN "lease" ELSE "delete"
<1>1. /\ Readable(m) /\ job.pc = "idle" /\ importQ' = importQ \ {m}
      /\ Start("import", m, "user", pc)
      /\ UNCHANGED <<imports, services, slices, caches, ports, listeners, sliceQ, xdsQ>>
  BY Zenon DEF ReconcileImport, job, api
<1>2. /\ m \in importCurrent /\ importCache[m] = imports[m]
      /\ \A k \in ServiceKeys : k[2] = m => serviceCache[k] = services[k]
  BY <1>1 DEF Readable, CleanContext, ImportControllerOnly, WorkerContext, Coherent
<1>3. /\ job'.name = m /\ job'.pc = pc
      /\ pc = "lease" => job'.imp = importCache[m]
  BY <1>1, JobFacts DEF Start, job
<1>4. JobSees'
  BY <1>1, <1>2, <1>3 DEF JobSees, Adding, ServiceErrors, caches
<1>5. ASSUME NEW n \in Names PROVE ImportGone(n)'
  <2>1. CASE n # m
    <3>1. NoManaged(n) => NoManaged(n)'
      BY <1>1 DEF NoManaged
    <3> QED BY <1>1, <1>3, <2>1, <3>1, OtherImport, Zenon DEF CleanContext, Gone, caches, ports
  <2>2. CASE n = m /\ ~imports[n].exists
    <3>1. imports'[n] = NoImport /\ ListenerGone(n)'
      BY <1>1, <2>2, Zenon DEF CleanContext, Gone, ImportGone, ListenerGone, caches
    <3>2. SliceGone(n)' /\ ServicesGone(n)'
      BY <1>2, <1>3, <2>2 DEF SliceGone, ServicesGone
    <3> QED BY <3>1, <3>2 DEF ImportGone
  <2>3. CASE imports[n].exists
    BY <1>1, <2>3 DEF ImportGone
  <2> QED BY <2>1, <2>2, <2>3
<1> QED BY <1>4, <1>5 DEF Gone

(* A step that leaves the worker and the services alone. *)
LEMMA CleanQuietStep ==
    ASSUME CleanContext, UNCHANGED <<worker, services>>,
           \/ UNCHANGED serviceCache
           \/ \E k \in ServiceKeys : serviceCache' = [serviceCache EXCEPT ![k] = services[k]],
           \A n \in Names : ImportGone(n)'
    PROVE  Gone'
<1>1. JobSees'
  BY DEF CleanContext, Gone, JobSees, job, WorkerContext, CachesOK
<1> QED BY <1>1 DEF Gone

LEMMA CleanSlices ==
    ASSUME CleanContext, ReconcileDataplaneSlice \/ \E n \in Names : ReconcileEndpointSlice(n)
    PROVE  Gone'
<1>1. UNCHANGED <<imports, services, caches, ports, listeners, importQ, xdsQ, worker>>
  BY Zenon DEF ReconcileDataplaneSlice, ReconcileEndpointSlice
<1>2. ASSUME NEW n \in Names PROVE NoManaged(n) => NoManaged(n)'
  BY <1>1 DEF NoManaged
<1>3. CASE ReconcileDataplaneSlice
  <2>1. \A n \in Names : /\ n \in sliceQ => n \in sliceQ'
                         /\ slices'[n] = slices[n] \/ n \in sliceQ'
    BY <1>3, ControlAssumption DEF ReconcileDataplaneSlice
  <2>2. \A n \in Names : ImportGone(n)'
    BY <1>1, <1>2, <2>1, OtherImport DEF CleanContext, Gone, caches, ports, job
  <2> QED BY <1>1, <2>2, CleanQuietStep DEF caches
<1>4. ASSUME NEW m \in Names, ReconcileEndpointSlice(m) PROVE Gone'
  <2>1. /\ Readable(m) /\ (sliceQ' = sliceQ \/ sliceQ' = sliceQ \ {m})
        /\ \A n \in Names \ {m} : slices'[n] = slices[n]
        /\ ~importCache[m].merge => slices'[m] = NoSlice
    BY <1>4 DEF ReconcileEndpointSlice, CleanContext, WorkerContext, ApiOK
  <2>2. importCache[m] = imports[m]
    BY <2>1 DEF Readable, CleanContext, ImportControllerOnly, WorkerContext, Coherent
  <2>3. ASSUME NEW n \in Names PROVE ImportGone(n)'
    <3>1. CASE n # m
      BY <1>1, <1>2, <2>1, <3>1, OtherImport, Zenon DEF CleanContext, Gone, caches, ports, job
    <3>2. CASE n = m /\ ~imports[n].exists
      <4>1. imports[n] = NoImport /\ ListenerGone(n) /\ ServicesGone(n)
        BY <3>2 DEF CleanContext, Gone, ImportGone
      <4>2. SliceGone(n)'
        BY <2>1, <2>2, <3>2, <4>1 DEF SliceGone, NoImport
      <4>3. ListenerGone(n)' /\ ServicesGone(n)'
        BY <1>1, <1>2, <4>1 DEF ListenerGone, ServicesGone, Unseen, caches, ports, job
      <4> QED BY <1>1, <4>1, <4>2, <4>3 DEF ImportGone
    <3>3. CASE imports[n].exists
      BY <1>1, <3>3 DEF ImportGone
    <3> QED BY <3>1, <3>2, <3>3
  <2> QED BY <1>1, <2>3, CleanQuietStep DEF caches
<1> QED BY <1>3, <1>4

LEMMA CleanListener ==
    ASSUME CleanContext, NEW m \in Names, ReconcileListener(m)
    PROVE  Gone'
<1>1. /\ Readable(m) /\ xdsQ' = xdsQ \ {m}
      /\ UNCHANGED <<imports, services, slices, caches, ports, importQ, sliceQ, worker>>
  BY Zenon DEF ReconcileListener, api
<1>2. /\ \A n \in Names \ {m} : listeners'[n] = listeners[n]
      /\ ~importCache[m].exists => listeners'[m] = 0
  BY DEF ReconcileListener, CleanContext, WorkerContext, OthersOK
<1>3. importCache[m] = imports[m]
  BY <1>1 DEF Readable, CleanContext, ImportControllerOnly, WorkerContext, Coherent
<1>4. ASSUME NEW n \in Names PROVE ImportGone(n)'
  <2>1. NoManaged(n) => NoManaged(n)'
    BY <1>1 DEF NoManaged
  <2>2. CASE n # m
    BY <1>1, <1>2, <2>1, <2>2, OtherImport DEF CleanContext, Gone, caches, ports, job
  <2>3. CASE n = m /\ ~imports[n].exists
    <3>1. imports[n] = NoImport /\ SliceGone(n) /\ ServicesGone(n)
      BY <2>3 DEF CleanContext, Gone, ImportGone
    <3>2. ListenerGone(n)'
      BY <1>2, <1>3, <2>3 DEF ListenerGone
    <3>3. SliceGone(n)' /\ ServicesGone(n)'
      BY <1>1, <2>1, <3>1 DEF SliceGone, ServicesGone, Unseen, caches, ports, job
    <3> QED BY <1>1, <3>1, <3>2, <3>3 DEF ImportGone
  <2>4. CASE imports[n].exists
    BY <1>1, <2>4 DEF ImportGone
  <2> QED BY <2>2, <2>3, <2>4
<1> QED BY <1>1, <1>4, CleanQuietStep DEF caches

LEMMA CleanInform ==
    ASSUME CleanContext, (\E n \in Names : SyncImport(n)) \/ (\E k \in ServiceKeys : SyncService(k))
    PROVE  Gone'
<1>1. ASSUME NEW m \in Names, SyncImport(m) PROVE Gone'
  <2>1. /\ importCurrent' = importCurrent \cup {m} /\ importQ' = importQ \cup {m}
        /\ xdsQ' = xdsQ \cup {m}
        /\ UNCHANGED <<imports, services, slices, serviceCache, ports, listeners, sliceQ, worker>>
    BY <1>1, Zenon DEF SyncImport, api
  <2>2. ASSUME NEW n \in Names PROVE ImportGone(n)'
    <3>1. NoManaged(n) => NoManaged(n)'
      BY <2>1 DEF NoManaged
    <3>2. CASE n # m
      BY <2>1, <3>1, <3>2, OtherImport DEF CleanContext, Gone, ports, job
    <3>3. CASE n = m
      <4>1. Unseen(n)' /\ ListenerGone(n)'
        BY <2>1, <3>3 DEF Unseen, ListenerGone
      <4>2. ~imports'[n].exists => imports'[n] = NoImport
        BY <2>1 DEF CleanContext, Gone, ImportGone
      <4> QED BY <4>1, <4>2, UnseenGone
    <3> QED BY <3>2, <3>3
  <2> QED BY <2>1, <2>2, CleanQuietStep
<1>2. ASSUME NEW k \in ServiceKeys, SyncService(k) PROVE Gone'
  <2>1. /\ serviceCache' = [serviceCache EXCEPT ![k] = services[k]]
        /\ UNCHANGED <<imports, services, slices, importCurrent, ports, listeners, importQ,
                       sliceQ, xdsQ, worker>>
    BY <1>2, Zenon DEF SyncService, api
  <2>2. ASSUME NEW n \in Names PROVE ImportGone(n)'
    <3>1. NoManaged(n) => NoManaged(n)'
      BY <2>1 DEF NoManaged
    <3> QED BY <2>1, <3>1, OtherImport DEF CleanContext, Gone, ports, job
  <2> QED BY <2>1, <2>2, CleanQuietStep
<1> QED BY <1>1, <1>2

LEMMA CleanUserImport ==
    ASSUME CleanContext, NEW m \in Names, NEW op, NEW imp \in Import,
           UserWritesImport(op, m, imp), UserImport(m, imp)
    PROVE  Gone'
<1>1. /\ WriteImport(m, imp) /\ worker' = Outdated(m)
      /\ UNCHANGED <<services, slices, serviceCache, ports, listeners, queues>>
  BY Zenon DEF UserWritesImport
<1>2. /\ job'.pc = job.pc /\ job'.name = job.name /\ job'.imp = job.imp
  BY <1>1, OutdatedJobs, JobFacts DEF job, CleanContext, WorkerContext
<1>3. JobSees'
  BY <1>1, <1>2 DEF CleanContext, Gone, JobSees
<1>4. ASSUME NEW n \in Names PROVE ImportGone(n)'
  <2>1. CASE n # m
    <3>1. NoManaged(n) => NoManaged(n)'
      BY <1>1 DEF NoManaged
    <3>2. imports'[n] = imports[n] /\ (n \in importCurrent' => n \in importCurrent)
      BY <1>1, <2>1 DEF WriteImport, CleanContext, WorkerContext, ApiOK
    <3> QED BY <1>1, <1>2, <3>1, <3>2, OtherImport, Zenon DEF CleanContext, Gone, ports, queues
  <2>2. CASE n = m
    <3>1. imports'[n] = imp /\ n \notin importCurrent'
      BY <1>1, <2>2 DEF WriteImport, CleanContext, WorkerContext, ApiOK
    <3>2. Unseen(n)' /\ ListenerGone(n)'
      BY <3>1 DEF Unseen, ListenerGone
    <3>3. ~imports'[n].exists => imports'[n] = NoImport
      BY <3>1 DEF UserImport
    <3> QED BY <3>2, <3>3, UnseenGone
  <2> QED BY <2>1, <2>2
<1> QED BY <1>3, <1>4 DEF Gone

LEMMA CleanUserService ==
    ASSUME CleanContext, NEW k \in ServiceKeys, UserService(k)
    PROVE  Gone'
<1>1. PICK svc \in {NoService, Foreign} : WriteServices({k}, svc)
  BY DEF UserService
<1>2. UNCHANGED <<imports, slices, importCurrent, serviceCache, ports, listeners, importQ,
                  sliceQ, xdsQ, worker>>
  BY Zenon DEF UserService, queues
<1>3. svc.kind # "managed"
  BY DEF NoService, Foreign
<1>4. JobSees'
  BY <1>1, <1>2, <1>3 DEF CleanContext, Gone, JobSees, WriteServices, job
<1>5. ASSUME NEW n \in Names PROVE ImportGone(n)'
  <2>1. NoManaged(n) => NoManaged(n)'
    BY <1>1, <1>3, OtherServices
  <2> QED BY <1>2, <2>1, OtherImport DEF CleanContext, Gone, ports, job
<1> QED BY <1>4, <1>5 DEF Gone

(* Steps that leave all alone that deleteImport cleans up. *)
LEMMA CleanOther ==
    ASSUME CleanContext,
           \/ \E n \in Names : ReconcileExport(n) \/ UserExport(n)
           \/ ChangeDataplane
           \/ UNCHANGED vars
    PROVE  Gone'
<1>1. /\ sliceQ \subseteq sliceQ'
      /\ UNCHANGED <<imports, services, slices, caches, ports, listeners, importQ, xdsQ, worker>>
  BY DEF ReconcileExport, UserExport, ChangeDataplane, vars, api, queues
<1>2. ASSUME NEW n \in Names PROVE ImportGone(n)'
  <2>1. NoManaged(n) => NoManaged(n)'
    BY <1>1 DEF NoManaged
  <2> QED BY <1>1, <2>1, OtherImport, Zenon DEF CleanContext, Gone, caches, ports, job
<1> QED BY <1>1, <1>2, CleanQuietStep DEF caches

LEMMA CleanCheckExportService ==
    ASSUME CleanContext, CheckExportService("import")
    PROVE  Gone'
<1> DEFINE m == job.name
<1>1. /\ job.pc = "export" /\ worker' = [worker EXCEPT !["import"] = Idle]
      /\ UNCHANGED <<imports, services, slices, caches, ports, listeners, importQ, sliceQ, xdsQ>>
  BY Zenon DEF CheckExportService, job
<1>2. job'.name = NoName /\ job'.pc = "idle"
  BY <1>1, JobFacts, Constants DEF job
<1>3. JobSees'
  BY <1>2 DEF JobSees, Adding, ServiceErrors
<1>4. ASSUME NEW n \in Names PROVE ImportGone(n)'
  <2>1. CASE n # m
    <3>1. NoManaged(n) => NoManaged(n)'
      BY <1>1 DEF NoManaged
    <3>2. job'.name # n
      BY <1>2, ControlAssumption
    <3> QED BY <1>1, <2>1, <3>1, <3>2, OtherImport DEF CleanContext, Gone, caches, ports
  <2>2. CASE n = m /\ ~imports[n].exists
    <3>1. Unseen(n) /\ ListenerGone(n) /\ imports[n] = NoImport
      BY <1>1, <2>2 DEF CleanContext, Gone, ImportGone, ServicesGone
    <3>2. Unseen(n)' /\ ListenerGone(n)'
      BY <1>1, <3>1 DEF Unseen, ListenerGone, caches
    <3> QED BY <1>1, <3>1, <3>2, UnseenGone
  <2>3. CASE imports[n].exists
    BY <1>1, <2>3 DEF ImportGone
  <2> QED BY <2>1, <2>2, <2>3
<1> QED BY <1>3, <1>4 DEF Gone

LEMMA CleanStep == BaseInv /\ CleanInv /\ [Next]_vars => CleanInv'
<1> SUFFICES ASSUME BaseInv, CleanInv, [Next]_vars, ImportControllerOnly' PROVE Gone'
  BY DEF CleanInv
<1>1. UNCHANGED environment
  BY NextSteps DEF vars
<1>2. ImportControllerOnly /\ Gone
  BY <1>1 DEF ImportControllerOnly, CleanInv
<1>3. CleanContext
  <2>1. "import" \in Workers /\ "import" \in environment.workers
    BY <1>2 DEF Workers, ImportControllerOnly
  <2> QED BY <1>1, <1>2, <2>1, Context DEF CleanContext
<1>4. CASE WorkerStep("import")
  BY <1>3, <1>4, CleanLeasePort, CleanUpdateImport, CleanAddImportEndpointSlices, CleanAddServices,
     CleanUpdateImportStatus, CleanDeleteImportServices, CleanReleasePort,
     CleanCheckExportService, Zenon DEF WorkerStep
<1>5. CASE UNCHANGED vars
  BY <1>3, <1>5, CleanOther
<1> QED BY <1>2, <1>3, <1>4, <1>5, ImportSteps, CleanReconcileImport, CleanSlices, CleanListener,
           CleanInform, CleanUserImport, CleanUserService, CleanOther, Zenon

(* deleteImport leaves nothing behind: at rest, a deleted import has no    *)
(* port, no listener, no managed service and no slice, whatever users did  *)
(* to imports and services while the handlers were running.                *)
THEOREM DeletedCleaned == Spec => []DeletedImportCleaned
<1>1. Init => CleanInv
  <2> SUFFICES ASSUME Init PROVE Gone
    BY DEF CleanInv
  <2>1. job = Idle
    BY DEF Init, job, Workers
  <2>2. JobSees
    BY <2>1, Constants DEF JobSees, Adding, ServiceErrors
  <2>3. ASSUME NEW n \in Names PROVE ImportGone(n)
    <3>1. NoManaged(n)
      BY DEF Init, NoManaged, NoService
    <3>2. job.name # n
      BY <2>1, Constants, ControlAssumption
    <3> QED BY <3>1, <3>2 DEF Init, ImportGone, ListenerGone, SliceGone, ServicesGone
  <2> QED BY <2>2, <2>3 DEF Gone
<1>2. BaseInv /\ CleanInv => DeletedImportCleaned
  <2> SUFFICES ASSUME BaseInv, CleanInv, ImportControllerOnly, Quiescent,
                      NEW n \in Names, ~imports[n].exists
               PROVE  /\ leasesByName[n] = 0 /\ listeners[n] = 0
                      /\ slices[n] = NoSlice
                      /\ \A k \in ServiceKeys : k[2] = n => services[k].kind # "managed"
    BY DEF DeletedImportCleaned
  <2>1. ListenerGone(n) /\ SliceGone(n) /\ ServicesGone(n)
    BY DEF CleanInv, Gone, ImportGone
  <2>2. ~Unseen(n) /\ n \in importCurrent /\ n \notin xdsQ /\ n \notin sliceQ /\ job.pc = "idle"
    BY DEF Quiescent, Unseen, job, Workers
  <2> QED BY <2>1, <2>2 DEF ListenerGone, SliceGone, ServicesGone, NoManaged
<1> QED BY <1>1, <1>2, CleanStep, Base, PTL DEF Spec
===============================================================================
