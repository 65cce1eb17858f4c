-------------------------- MODULE ImportControlProofs --------------------------
(***************************************************************************)
(* Proofs about the controllers of imports, exports and services, for      *)
(* every set of names, every port range and every environment.             *)
(*                                                                         *)
(* BaseInv holds of every behaviour: types, what a busy worker works on,   *)
(* and that a cached object that counts as current is the one in the API   *)
(* server.  On top of it stand the invariants of ImportDeletionProofs and  *)
(* ImportStatusProofs, each of them about the environments its property    *)
(* speaks of.                                                              *)
(***************************************************************************)
EXTENDS ImportControl, TLAPS

(* A job of a worker, and the parts of the type invariant. *)
Job == [pc: {"idle", "lease", "update", "services", "user", "Valid", "PortError",
             "export", "delete", "release", "releaseRetry"} \cup ServiceErrors,
        name: Names \cup {NoName}, key: {"user", "system"},
        imp: Import, current: BOOLEAN]

ApiOK ==
    /\ imports \in [Names -> Import] /\ services \in [ServiceKeys -> Service]
    /\ exports \in [Names -> {"none", "Unset", "Valid", "Invalid"}]
    /\ slices \in [Names -> [port : 0..MaxPort, address : Addresses \cup {0}]]
    /\ dataplaneSlice \in Addresses \cup {0}
CachesOK ==
    /\ importCache \in [Names -> Import] /\ serviceCache \in [ServiceKeys -> Service]
    /\ importCurrent \subseteq Names /\ serviceCurrent \subseteq ServiceKeys
PortsOK ==
    /\ leasesByPort \in [1..MaxPort -> Names \cup {NoName}]
    /\ leasesByName \in [Names -> 0..MaxPort]
QueuesOK ==
    /\ importQ \subseteq Names /\ serviceQ \subseteq ServiceKeys
    /\ exportQ \subseteq Names /\ sliceQ \subseteq Names \cup {NoName} /\ xdsQ \subseteq Names
OthersOK ==
    /\ serviceToImport \subseteq Names
    /\ listeners \in [Names -> 0..MaxPort]
    /\ environment \in Environments
    /\ userOps \in 0..environment.maxOps /\ restarts \in 0..environment.maxRestarts
JobsOK == worker \in [Workers -> Job]

LEMMA TypeParts ==
    TypeOK <=> ApiOK /\ CachesOK /\ PortsOK /\ QueuesOK /\ OthersOK /\ JobsOK
BY Zenon DEF TypeOK, ApiOK, CachesOK, PortsOK, QueuesOK, OthersOK, JobsOK, Job

(* A worker that is not idle is one of the environment's, and works on an  *)
(* import by that name and on one of its services.                         *)
Busy ==
    \A w \in Workers : worker[w].pc # "idle" =>
        /\ w \in environment.workers
        /\ worker[w].name \in Names
        /\ <<worker[w].key, worker[w].name>> \in ServiceKeys

(* What is current in a cache is what the API server has. *)
Coherent ==
    /\ \A n \in importCurrent : importCache[n] = imports[n]
    /\ \A k \in serviceCurrent : serviceCache[k] = services[k]

BaseInv == TypeOK /\ Busy /\ Coherent
-------------------------------------------------------------------------------
LEMMA Constants ==
    /\ NoImport \in Import /\ Idle \in Job /\ Idle.pc = "idle" /\ Idle.name = NoName
    /\ NoService \in Service /\ Foreign \in Service
    /\ NoSlice \in [port : 0..MaxPort, address : Addresses \cup {0}]
    /\ 0 \in 0..MaxPort /\ 1..MaxPort \subseteq 0..MaxPort
    /\ \A p \in 0..MaxPort : Managed(p) \in Service
    /\ MaxPort \in Nat
<1>1. MaxPort \in Nat /\ 0 \in 0..MaxPort /\ 1..MaxPort \subseteq 0..MaxPort
  BY ControlAssumption
<1>2. NoImport \in Import
  BY <1>1 DEF NoImport, Import, Status
<1>3. Idle \in Job /\ Idle.pc = "idle" /\ Idle.name = NoName
  BY <1>2 DEF Idle, Job
<1>4. NoService \in Service /\ Foreign \in Service /\ \A p \in 0..MaxPort : Managed(p) \in Service
  BY DEF Service
<1>5. NoSlice \in [port : 0..MaxPort, address : Addresses \cup {0}]
  BY <1>1 DEF NoSlice, Slice
<1> QED BY <1>1, <1>2, <1>3, <1>4, <1>5

(* The services of an import. *)
LEMMA Keys ==
    /\ \A n \in Names : <<"user", n>> \in ServiceKeys /\ SystemKey(n) \in ServiceKeys
    /\ \A k \in ServiceKeys : k[2] \in Names /\ k[1] \in {"user", "system"} /\ k = <<k[1], k[2]>>
    /\ \A n \in Names : SystemKey(n)[2] = n /\ <<"user", n>>[2] = n
BY ControlAssumption DEF ServiceKeys, SystemKey

(* A worker gets another job. *)
LEMMA NewJob ==
    ASSUME JobsOK, Busy, NEW w \in Workers, NEW j \in Job, UNCHANGED environment,
           worker' = [worker EXCEPT ![w] = j],
           \/ j.pc = "idle"
           \/ /\ w \in environment.workers /\ j.name \in Names
              /\ <<j.key, j.name>> \in ServiceKeys
    PROVE  JobsOK' /\ Busy'
BY DEF JobsOK, Busy

(* The same, when the copies of import n that the workers have are         *)
(* outdated.                                                               *)
LEMMA OutdatedJobs ==
    ASSUME JobsOK, Busy, NEW n
    PROVE  /\ Outdated(n) \in [Workers -> Job]
           /\ \A v \in Workers : /\ Outdated(n)[v].pc = worker[v].pc
                                 /\ Outdated(n)[v].name = worker[v].name
                                 /\ Outdated(n)[v].key = worker[v].key
                                 /\ Outdated(n)[v].imp = worker[v].imp
                                 /\ Outdated(n)[v].current => worker[v].current /\ worker[v].name # n
<1>1. ASSUME NEW v \in Workers
      PROVE  /\ Outdated(n)[v] \in Job
             /\ Outdated(n)[v].pc = worker[v].pc
             /\ Outdated(n)[v].name = worker[v].name
             /\ Outdated(n)[v].key = worker[v].key
             /\ Outdated(n)[v].imp = worker[v].imp
             /\ Outdated(n)[v].current => worker[v].current /\ worker[v].name # n
  <2>1. worker[v] \in Job
    BY DEF JobsOK
  <2>2. CASE worker[v].name = n
    <3>1. Outdated(n)[v] = [worker[v] EXCEPT !.current = FALSE]
      BY <2>2 DEF Outdated
    <3> QED BY <2>1, <3>1, Zenon DEF Job
  <2>3. CASE worker[v].name # n
    <3>1. Outdated(n)[v] = worker[v]
      BY <2>3 DEF Outdated
    <3> QED BY <2>1, <2>3, <3>1
  <2> QED BY <2>2, <2>3
<1>2. DOMAIN Outdated(n) = Workers /\ Outdated(n) = [v \in Workers |-> Outdated(n)[v]]
  BY DEF Outdated
<1> QED BY <1>1, <1>2, Zenon

LEMMA OutdatedNewJob ==
    ASSUME JobsOK, Busy, NEW n, NEW w \in Workers, NEW j \in Job, UNCHANGED environment,
           worker' = [Outdated(n) EXCEPT ![w] = j],
           \/ j.pc = "idle"
           \/ /\ w \in environment.workers /\ j.name \in Names
              /\ <<j.key, j.name>> \in ServiceKeys
    PROVE  JobsOK' /\ Busy'
BY OutdatedJobs DEF JobsOK, Busy

LEMMA GotoJob ==
    ASSUME JobsOK, Busy, NEW w \in Workers, worker[w].pc # "idle",
           NEW pc \in {"lease", "update", "services", "user", "Valid", "PortError",
                       "export", "delete", "release", "releaseRetry"} \cup ServiceErrors,
           Goto(w, pc), UNCHANGED environment
    PROVE  JobsOK' /\ Busy'
<1>1. worker[w] \in Job
  BY DEF JobsOK
<1> DEFINE j == [worker[w] EXCEPT !.pc = pc]
<1>2. j \in Job /\ j.key = worker[w].key /\ j.name = worker[w].name
  BY <1>1 DEF Job
<1>3. worker' = [worker EXCEPT ![w] = j]
  BY DEF Goto
<1> QED BY <1>2, <1>3, NewJob, Zenon DEF Busy
-------------------------------------------------------------------------------
(* What a call of Lease does to the maps. *)
LEMMA LeaseEffect ==
    ASSUME PortsOK, NEW n \in Names, NEW p \in 0..MaxPort, NEW g \in 0..MaxPort,
           Ports!Lease(n, p, g)
    PROVE  /\ PortsOK'
           /\ \A m \in Names \ {n} : leasesByName'[m] = leasesByName[m]
           /\ g = 0 => leasesByName' = leasesByName
           /\ g # 0 => leasesByName'[n] = g
           /\ g # 0 /\ p # 0 => g = p
<1>1. p # 0 => p \in 1..MaxPort
  BY Constants
<1>2. Ports!getRandomFreePort \subseteq 1..MaxPort
  BY ControlAssumption DEF Ports!getRandomFreePort, Ports!scannedPort, Ports!portRange,
                           Ports!portCount
<1>3. ASSUME NEW q \in 1..MaxPort, Ports!mark(n, q)
      PROVE  /\ PortsOK' /\ leasesByName'[n] = q /\ q # 0
             /\ \A m \in Names \ {n} : leasesByName'[m] = leasesByName[m]
  BY <1>3, Constants DEF Ports!mark, PortsOK, Ports!Port
<1>4. CASE UNCHANGED <<leasesByPort, leasesByName>> /\ g \in {0, leasesByName[n]} /\ (p = 0 \/ g = 0)
  BY <1>4 DEF PortsOK
<1>5. CASE p = 0 /\ Ports!leaseWithRandomPort(n, g)
  <2>1. CASE g \in Ports!getRandomFreePort /\ Ports!mark(n, g)
    BY <1>2, <1>3, <1>5, <2>1
  <2> QED BY <1>4, <1>5, <2>1 DEF Ports!leaseWithRandomPort, Ports!portVars
<1>6. CASE p # 0 /\ Ports!leaseWithSpecificPort(n, p, g)
  <2>1. CASE g = p /\ Ports!mark(n, p)
    BY <1>1, <1>3, <1>6, <2>1
  <2> QED BY <1>4, <1>6, <2>1 DEF Ports!leaseWithSpecificPort, Ports!portVars
<1> QED BY <1>5, <1>6 DEF Ports!Lease

LEMMA ReleaseEffect ==
    ASSUME PortsOK, NEW n \in Names, Ports!Release(n)
    PROVE  /\ PortsOK' /\ leasesByName'[n] = 0
           /\ \A m \in Names \ {n} : leasesByName'[m] = leasesByName[m]
BY Constants DEF PortsOK, Ports!Release, Ports!Port
-------------------------------------------------------------------------------
(* Writes to the API server. *)
LEMMA ImportWritten ==
    ASSUME ApiOK, CachesOK, Coherent, NEW n \in Names, NEW imp \in Import, WriteImport(n, imp),
           UNCHANGED <<services, exports, slices, dataplaneSlice,
                       importCache, serviceCache, serviceCurrent>>
    PROVE  ApiOK' /\ CachesOK' /\ Coherent'
BY DEF ApiOK, CachesOK, Coherent, WriteImport

LEMMA ServicesWritten ==
    ASSUME ApiOK, CachesOK, Coherent, NEW keys \in SUBSET ServiceKeys, NEW svc \in Service,
           WriteServices(keys, svc), UNCHANGED <<imports, importCache, importCurrent, serviceCache>>
    PROVE  CachesOK' /\ Coherent' /\ services' \in [ServiceKeys -> Service]
BY DEF ApiOK, CachesOK, Coherent, WriteServices

LEMMA SliceWritten ==
    ASSUME ApiOK, QueuesOK, NEW n \in Names,
           NEW slice \in [port : 0..MaxPort, address : Addresses \cup {0}], SetSlice(n, slice)
    PROVE  /\ slices' \in [Names -> [port : 0..MaxPort, address : Addresses \cup {0}]]
           /\ sliceQ' \subseteq Names \cup {NoName}
BY DEF ApiOK, QueuesOK, SetSlice

LEMMA CopiedSlice ==
    ASSUME ApiOK, NEW n \in Names, NEW imp \in Import
    PROVE  checkImportEndpointSlice(n, imp) \in [port : 0..MaxPort, address : Addresses \cup {0}]
BY DEF ApiOK, Import, checkImportEndpointSlice, Slice

LEMMA ServiceEnsured ==
    ASSUME ApiOK, CachesOK, Coherent, JobsOK, Busy, NEW w \in Workers, worker[w].pc # "idle",
           NEW k \in ServiceKeys, NEW svc \in Service, NEW next \in {"Valid", "user"},
           addImportService(w, k, svc, next), UNCHANGED <<environment, imports>>
    PROVE  /\ CachesOK' /\ Coherent' /\ services' \in [ServiceKeys -> Service]
           /\ JobsOK' /\ Busy'
<1>1. PICK keys \in SUBSET ServiceKeys,
           pc \in {"Valid", "user", "ConflictingService", "ServiceApiError"} :
        /\ WriteServices(keys, svc) /\ Goto(w, pc)
        /\ UNCHANGED <<importCache, importCurrent, serviceCache>>
  <2> DEFINE old == serviceCache[k]
             put == \/ old = NoService /\ services[k] = NoService
                    \/ /\ checkServiceLabels(old) /\ serviceChanged(old, svc)
                       /\ services[k] # NoService
             keep == checkServiceLabels(old) /\ ~serviceChanged(old, svc)
             keys == IF put THEN {k} ELSE {}
             pc == CASE put \/ keep -> next
                     [] old # NoService /\ ~checkServiceLabels(old) -> "ConflictingService"
                     [] OTHER -> "ServiceApiError"
  <2>1. /\ WriteServices(keys, svc) /\ Goto(w, pc)
        /\ UNCHANGED <<importCache, importCurrent, serviceCache>>
    BY DEF addImportService
  <2>2. keys \in SUBSET ServiceKeys
    OBVIOUS
  <2>3. pc \in {"Valid", "user", "ConflictingService", "ServiceApiError"}
    OBVIOUS
  <2> HIDE DEF keys, pc
  <2> QED BY <2>1, <2>2, <2>3
<1>2. CachesOK' /\ Coherent' /\ services' \in [ServiceKeys -> Service]
  BY <1>1, ServicesWritten
<1>3. JobsOK' /\ Busy'
  BY <1>1, GotoJob, Zenon DEF ServiceErrors
<1> QED BY <1>2, <1>3

LEMMA Returned ==
    ASSUME QueuesOK, Busy, NEW w \in Workers, worker[w].pc # "idle", NEW retry, Return(w, retry)
    PROVE  QueuesOK'
BY Zenon DEF QueuesOK, Busy, Return
-------------------------------------------------------------------------------
(* Every step keeps BaseInv: one lemma for each group of actions. *)
WorkerContext(w) ==
    /\ ApiOK /\ CachesOK /\ PortsOK /\ QueuesOK /\ OthersOK /\ JobsOK /\ Busy /\ Coherent
    /\ w \in Workers /\ w \in environment.workers /\ UNCHANGED environment
    /\ worker[w] \in Job /\ worker[w].imp \in Import /\ worker[w].imp.targetPort \in 0..MaxPort
    /\ worker[w].pc # "idle" =>
          /\ worker[w].name \in Names
          /\ <<worker[w].key, worker[w].name>> \in ServiceKeys

LEMMA Context ==
    ASSUME BaseInv, NEW w \in Workers, w \in environment.workers, UNCHANGED environment
    PROVE  WorkerContext(w)
<1>1. ApiOK /\ CachesOK /\ PortsOK /\ QueuesOK /\ OthersOK /\ JobsOK /\ Busy /\ Coherent
  BY TypeParts DEF BaseInv
<1>2. worker[w] \in Job
  BY <1>1 DEF JobsOK
<1>3. worker[w].imp \in Import /\ worker[w].imp.targetPort \in 0..MaxPort
  BY <1>2 DEF Job, Import
<1>4. worker[w].pc # "idle" =>
        /\ worker[w].name \in Names
        /\ <<worker[w].key, worker[w].name>> \in ServiceKeys
  BY <1>1 DEF Busy
<1> QED BY <1>1, <1>2, <1>3, <1>4 DEF WorkerContext

LEMMA NextParts ==
    ASSUME ApiOK', CachesOK', PortsOK', QueuesOK', OthersOK', JobsOK', Busy', Coherent'
    PROVE  BaseInv'
<1>1. TypeOK'
  BY Zenon DEF TypeOK, ApiOK, CachesOK, PortsOK, QueuesOK, OthersOK, JobsOK, Job
<1> QED BY <1>1 DEF BaseInv

LEMMA BaseLeasePort ==
    ASSUME NEW w, WorkerContext(w), LeasePort(w)
    PROVE  BaseInv'
<1> USE DEF WorkerContext
<1> DEFINE n == worker[w].name
           p == worker[w].imp.targetPort
<1>1. PICK g \in 0..MaxPort :
        /\ Ports!Lease(n, p, g)
        /\ worker' = [worker EXCEPT ![w].pc = allocateTargetPort(p, g),
                                    ![w].imp.targetPort = IF g = 0 THEN p ELSE g]
  BY Zenon DEF LeasePort
<1>2. worker[w].pc # "idle" /\ UNCHANGED <<api, caches, serviceToImport, listeners, queues, env>>
  BY DEF LeasePort
<1>3. PortsOK'
  BY <1>1, <1>2, LeaseEffect
<1> DEFINE j == [worker[w] EXCEPT !.pc = allocateTargetPort(p, g),
                                  !.imp.targetPort = IF g = 0 THEN p ELSE g]
<1>4. j \in Job /\ j.name = n /\ j.key = worker[w].key
  BY Zenon DEF Job, Import, allocateTargetPort
<1>5. worker' = [worker EXCEPT ![w] = j]
  BY <1>1, Zenon
<1>6. JobsOK' /\ Busy'
  <2> HIDE DEF j
  <2> QED BY <1>2, <1>4, <1>5, NewJob, Zenon
<1>7. ApiOK' /\ CachesOK' /\ QueuesOK' /\ OthersOK' /\ Coherent'
  BY <1>2 DEF api, caches, queues, env, ApiOK, CachesOK, QueuesOK, OthersOK, Coherent
<1> QED BY <1>3, <1>6, <1>7, NextParts, Zenon

LEMMA BaseUpdateImport ==
    ASSUME NEW w, WorkerContext(w), UpdateImport(w)
    PROVE  BaseInv'
<1> USE DEF WorkerContext
<1> DEFINE n == worker[w].name
<1>1. /\ worker[w].pc # "idle"
      /\ UNCHANGED <<services, exports, slices, dataplaneSlice, importCache,
                     serviceCache, serviceCurrent, serviceToImport, listeners, env>>
  BY Zenon DEF UpdateImport
<1>2. OthersOK'
  BY <1>1 DEF OthersOK, env
<1>3. CASE /\ WriteImport(n, worker[w].imp)
           /\ worker' = [Outdated(n) EXCEPT ![w] = [worker[w] EXCEPT !.pc = "services"]]
           /\ UNCHANGED <<ports, queues>>
  <2>1. ApiOK' /\ CachesOK' /\ Coherent'
    BY <1>1, <1>3, ImportWritten
  <2> DEFINE j == [worker[w] EXCEPT !.pc = "services"]
  <2>2. j \in Job /\ j.name = n /\ j.key = worker[w].key
    BY DEF Job
  <2>3. JobsOK' /\ Busy'
    <3> HIDE DEF j
    <3> QED BY <1>1, <1>3, <2>2, OutdatedNewJob, Zenon DEF j
  <2>4. PortsOK' /\ QueuesOK'
    BY <1>3 DEF ports, queues, PortsOK, QueuesOK
  <2> QED BY <1>2, <2>1, <2>3, <2>4, NextParts, Zenon
<1>4. CASE /\ Ports!Release(n) /\ worker' = [worker EXCEPT ![w] = Idle] /\ Return(w, TRUE)
           /\ UNCHANGED <<imports, importCurrent>>
  <2>1. PortsOK' /\ QueuesOK'
    BY <1>1, <1>4, ReleaseEffect, Returned, Zenon
  <2>2. JobsOK' /\ Busy'
    BY <1>4, NewJob, Constants, Zenon
  <2>3. ApiOK' /\ CachesOK' /\ Coherent'
    BY <1>1, <1>4 DEF ApiOK, CachesOK, Coherent
  <2> QED BY <1>2, <2>1, <2>2, <2>3, NextParts, Zenon
<1> QED BY <1>3, <1>4, Zenon DEF UpdateImport

LEMMA BaseAddImportEndpointSlices ==
    ASSUME NEW w, WorkerContext(w), AddImportEndpointSlices(w)
    PROVE  BaseInv'
<1> USE DEF WorkerContext
<1> DEFINE n == worker[w].name
           found == serviceCache[<<"user", n>>] # NoService
           slice == IF found THEN checkImportEndpointSlice(n, worker[w].imp) ELSE slices[n]
<1>1. /\ worker[w].pc # "idle" /\ SetSlice(n, slice)
      /\ Goto(w, IF found THEN "Valid" ELSE "ServiceNotExist")
      /\ UNCHANGED <<imports, services, exports, dataplaneSlice, caches, ports,
                     serviceToImport, listeners, importQ, serviceQ, exportQ, xdsQ, env>>
  BY Zenon DEF AddImportEndpointSlices
<1>2. slice \in [port : 0..MaxPort, address : Addresses \cup {0}]
  BY <1>1, CopiedSlice DEF ApiOK
<1>3. /\ slices' \in [Names -> [port : 0..MaxPort, address : Addresses \cup {0}]]
      /\ sliceQ' \subseteq Names \cup {NoName}
  <2> HIDE DEF slice
  <2> QED BY <1>1, <1>2, SliceWritten
<1>4. JobsOK' /\ Busy'
  BY <1>1, GotoJob, Zenon DEF ServiceErrors
<1>5. ApiOK' /\ QueuesOK'
  BY <1>1, <1>3 DEF ApiOK, QueuesOK
<1>6. CachesOK' /\ PortsOK' /\ OthersOK' /\ Coherent'
  BY <1>1 DEF caches, ports, env, CachesOK, PortsOK, OthersOK, Coherent
<1> QED BY <1>4, <1>5, <1>6, NextParts, Zenon

LEMMA BaseAddSystemService ==
    ASSUME NEW w, WorkerContext(w), AddSystemService(w)
    PROVE  BaseInv'
<1> DEFINE n == worker[w].name
           svc == Managed(worker[w].imp.targetPort)
           next == IF n \in SystemNames THEN "Valid" ELSE "user"
<1>1. /\ worker[w].pc # "idle" /\ SetSlice(n, NoSlice)
      /\ serviceToImport' = IF n \in SystemNames THEN serviceToImport
                            ELSE serviceToImport \cup {n}
      /\ addImportService(w, SystemKey(n), svc, next)
      /\ UNCHANGED <<imports, exports, dataplaneSlice, ports, listeners, importQ,
                     serviceQ, exportQ, xdsQ, env>>
  BY Zenon DEF AddSystemService, deleteImportEndpointSlices
<1> HIDE DEF n, svc, next
<1>2. n \in Names
  BY <1>1, Zenon DEF WorkerContext, n
<1>3. svc \in Service /\ next \in {"Valid", "user"} /\ SystemKey(n) \in ServiceKeys
  BY <1>2, Constants, Keys, Zenon DEF WorkerContext, svc, next
<1>4. CachesOK' /\ Coherent' /\ services' \in [ServiceKeys -> Service] /\ JobsOK' /\ Busy'
  BY <1>1, <1>3, ServiceEnsured, Zenon DEF WorkerContext
<1>5. /\ slices' \in [Names -> [port : 0..MaxPort, address : Addresses \cup {0}]]
      /\ sliceQ' \subseteq Names \cup {NoName}
  BY <1>1, <1>2, Constants, SliceWritten, Zenon DEF WorkerContext
<1>6. ApiOK' /\ QueuesOK' /\ PortsOK' /\ OthersOK'
  BY <1>1, <1>2, <1>4, <1>5 DEF WorkerContext, ApiOK, QueuesOK, PortsOK, OthersOK, ports, env
<1> QED BY <1>4, <1>6, NextParts, Zenon

LEMMA BaseAddUserService ==
    ASSUME NEW w, WorkerContext(w), AddUserService(w)
    PROVE  BaseInv'
<1> USE DEF WorkerContext
<1> DEFINE n == worker[w].name
<1>1. /\ worker[w].pc # "idle" /\ addImportService(w, <<"user", n>>, Managed(0), "Valid")
      /\ UNCHANGED <<imports, exports, slices, dataplaneSlice, ports, serviceToImport,
                     listeners, queues, env>>
  BY DEF AddUserService
<1>2. Managed(0) \in Service /\ <<"user", n>> \in ServiceKeys
  BY <1>1, Constants, Keys
<1>3. CachesOK' /\ Coherent' /\ services' \in [ServiceKeys -> Service] /\ JobsOK' /\ Busy'
  BY <1>1, <1>2, ServiceEnsured, Zenon
<1>4. ApiOK' /\ QueuesOK' /\ PortsOK' /\ OthersOK'
  BY <1>1, <1>3 DEF ApiOK, QueuesOK, PortsOK, OthersOK, ports, queues, env
<1> QED BY <1>3, <1>4, NextParts, Zenon

LEMMA BaseUpdateImportStatus ==
    ASSUME NEW w, WorkerContext(w), UpdateImportStatus(w)
    PROVE  BaseInv'
<1> USE DEF WorkerContext
<1> DEFINE n == worker[w].name
           st == worker[w].pc
           imp == [worker[w].imp EXCEPT !.status = st]
<1>1. /\ st \in {"Valid", "PortError"} \cup ServiceErrors /\ st # "idle"
      /\ UNCHANGED <<services, exports, slices, dataplaneSlice, importCache,
                     serviceCache, serviceCurrent, ports, serviceToImport, listeners, env>>
  BY DEF UpdateImportStatus, ServiceErrors
<1>2. imp \in Import
  BY <1>1 DEF Import, Status
<1>3. QueuesOK'
  <2>1. PICK retry : Return(w, retry)
    BY Zenon DEF UpdateImportStatus
  <2> QED BY <1>1, <2>1, Returned
<1>4. PICK j \in Job :
        /\ \/ j.pc = "idle"
           \/ j.pc = "export" /\ j.name = n /\ j.key = worker[w].key
        /\ \/ WriteImport(n, imp) /\ worker' = [Outdated(n) EXCEPT ![w] = j]
           \/ worker' = [worker EXCEPT ![w] = j] /\ UNCHANGED <<imports, importCurrent>>
  <2> DEFINE exp == [Idle EXCEPT !.pc = "export", !.name = n, !.key = worker[w].key]
  <2>1. exp \in Job /\ exp.pc = "export" /\ exp.name = n /\ exp.key = worker[w].key
    BY Constants, Zenon DEF Job, Idle
  <2>2. \E j \in {Idle, exp} :
          \/ WriteImport(n, imp) /\ worker' = [Outdated(n) EXCEPT ![w] = j]
          \/ worker' = [worker EXCEPT ![w] = j] /\ UNCHANGED <<imports, importCurrent>>
    BY DEF UpdateImportStatus
  <2> HIDE DEF exp
  <2> QED BY <2>1, <2>2, Constants
<1>5. JobsOK' /\ Busy'
  BY <1>1, <1>4, NewJob, OutdatedNewJob, Zenon
<1>6. ApiOK' /\ CachesOK' /\ Coherent'
  <2>1. CASE WriteImport(n, imp)
    <3> HIDE DEF imp
    <3> QED BY <1>1, <1>2, <2>1, ImportWritten, Zenon
  <2>2. CASE UNCHANGED <<imports, importCurrent>>
    BY <1>1, <2>2 DEF ApiOK, CachesOK, Coherent
  <2> QED BY <1>4, <2>1, <2>2
<1>7. PortsOK' /\ OthersOK'
  BY <1>1 DEF PortsOK, OthersOK, ports, env
<1> QED BY <1>3, <1>5, <1>6, <1>7, NextParts, Zenon

LEMMA BaseDeleteImport ==
    ASSUME NEW w, WorkerContext(w), DeleteImportServices(w) \/ ReleasePort(w)
    PROVE  BaseInv'
<1> USE DEF WorkerContext
<1> DEFINE n == worker[w].name
<1>1. CASE DeleteImportServices(w)
  <2>1. PICK keys \in SUBSET ServiceKeys, pc \in {"release", "releaseRetry"} :
          /\ worker[w].pc # "idle" /\ WriteServices(keys, NoService)
          /\ SetSlice(n, NoSlice) /\ Goto(w, pc)
          /\ UNCHANGED <<imports, exports, dataplaneSlice, importCache, importCurrent,
                         serviceCache, ports, serviceToImport, listeners, importQ,
                         serviceQ, exportQ, xdsQ, env>>
    <3> DEFINE managed == {k \in importServices(n) : checkServiceLabels(serviceCache[k])}
               gone == {k \in managed : services[k] = NoService}
               pc == IF gone = {} THEN "release" ELSE "releaseRetry"
    <3>1. managed \ gone \in SUBSET ServiceKeys
      BY DEF importServices
    <3> QED BY <1>1, <3>1, Zenon DEF DeleteImportServices, deleteImportEndpointSlices
  <2>2. JobsOK' /\ Busy'
    BY <2>1, GotoJob, Zenon
  <2>3. CachesOK' /\ Coherent' /\ services' \in [ServiceKeys -> Service]
    BY <2>1, ServicesWritten, Constants, Zenon
  <2>4. /\ slices' \in [Names -> [port : 0..MaxPort, address : Addresses \cup {0}]]
        /\ sliceQ' \subseteq Names \cup {NoName}
    BY <2>1, SliceWritten, Constants, Zenon
  <2>5. ApiOK' /\ QueuesOK' /\ PortsOK' /\ OthersOK'
    BY <2>1, <2>3, <2>4 DEF ApiOK, QueuesOK, PortsOK, OthersOK, ports, env
  <2> QED BY <2>2, <2>3, <2>5, NextParts, Zenon
<1>2. CASE ReleasePort(w)
  <2>1. /\ worker[w].pc # "idle" /\ Ports!Release(n) /\ worker' = [worker EXCEPT ![w] = Idle]
        /\ Return(w, worker[w].pc = "releaseRetry")
        /\ UNCHANGED <<api, caches, serviceToImport, listeners, env>>
    BY <1>2 DEF ReleasePort
  <2>2. PortsOK' /\ QueuesOK'
    BY <2>1, ReleaseEffect, Returned, Zenon
  <2>3. JobsOK' /\ Busy'
    BY <2>1, NewJob, Constants, Zenon
  <2>4. ApiOK' /\ CachesOK' /\ OthersOK' /\ Coherent'
    BY <2>1, Zenon DEF api, caches, env, ApiOK, CachesOK, OthersOK, Coherent
  <2> QED BY <2>2, <2>3, <2>4, NextParts, Zenon
<1> QED BY <1>1, <1>2, Zenon

LEMMA AddedExport ==
    ASSUME ApiOK, NEW n \in Names
    PROVE  addExport(n) \in {"none", "Unset", "Valid", "Invalid"}
BY DEF addExport, ApiOK

LEMMA BaseCheckExportService ==
    ASSUME NEW w, WorkerContext(w), CheckExportService(w)
    PROVE  BaseInv'
<1> USE DEF WorkerContext
<1> DEFINE n == worker[w].name
           st == IF worker[w].key = "user" THEN addExport(n) ELSE exports[n]
<1>1. /\ worker[w].pc # "idle"
      /\ exports' = [exports EXCEPT ![n] = st]
      /\ exportQ' = IF st # exports[n] THEN exportQ \cup {n} ELSE exportQ
      /\ worker' = [worker EXCEPT ![w] = Idle]
      /\ UNCHANGED <<imports, services, slices, dataplaneSlice, caches, ports,
                     serviceToImport, listeners, importQ, serviceQ, sliceQ, xdsQ, env>>
  BY Zenon DEF CheckExportService
<1>2. st \in {"none", "Unset", "Valid", "Invalid"}
  BY <1>1, AddedExport, Zenon DEF ApiOK
<1>3. ApiOK' /\ QueuesOK'
  <2> HIDE DEF st
  <2> QED BY <1>1, <1>2, Zenon DEF ApiOK, QueuesOK
<1>4. JobsOK' /\ Busy'
  BY <1>1, NewJob, Constants, Zenon
<1>5. CachesOK' /\ PortsOK' /\ OthersOK' /\ Coherent'
  BY <1>1, Zenon DEF caches, ports, env, CachesOK, PortsOK, OthersOK, Coherent
<1> QED BY <1>3, <1>4, <1>5, NextParts, Zenon

(* A worker takes a name from its queue. *)
LEMMA Started ==
    ASSUME JobsOK, CachesOK, Busy, NEW w \in Workers, w \in environment.workers, UNCHANGED environment,
           NEW n \in Names, NEW key \in {"user", "system"}, <<key, n>> \in ServiceKeys,
           NEW pc \in {"lease", "delete", "export"}, Start(w, n, key, pc)
    PROVE  JobsOK' /\ Busy'
<1> DEFINE imp == IF pc = "lease" THEN importCache[n] ELSE NoImport
           j == [pc |-> pc, name |-> n, key |-> key, imp |-> imp,
                 current |-> pc = "lease" /\ n \in importCurrent]
<1>1. worker' = [worker EXCEPT ![w] = j]
  BY Zenon DEF Start
<1>2. imp \in Import
  BY Constants DEF CachesOK
<1>3. j \in Job /\ j.name = n /\ j.key = key
  <2> HIDE DEF imp
  <2> QED BY <1>2 DEF Job
<1> HIDE DEF j
<1> QED BY <1>1, <1>3, NewJob, Zenon

LEMMA BaseReconcileImport ==
    ASSUME WorkerContext("import"), NEW n \in Names, ReconcileImport(n)
    PROVE  BaseInv'
<1>1. PICK pc \in {"lease", "delete"} : Start("import", n, "user", pc)
  BY Zenon DEF ReconcileImport
<1>2. /\ importQ' = importQ \ {n}
      /\ UNCHANGED <<api, caches, ports, serviceToImport, listeners, serviceQ, exportQ,
                     sliceQ, xdsQ, env>>
  BY Zenon DEF ReconcileImport
<1>3. JobsOK' /\ Busy'
  BY <1>1, Started, Keys, Zenon DEF WorkerContext
<1>4. ApiOK' /\ PortsOK' /\ QueuesOK' /\ OthersOK'
  BY <1>2 DEF WorkerContext, api, ports, env, ApiOK, PortsOK, QueuesOK, OthersOK
<1>5. CachesOK' /\ Coherent'
  BY <1>2 DEF WorkerContext, api, caches, CachesOK, Coherent
<1> QED BY <1>3, <1>4, <1>5, NextParts, Zenon

LEMMA BaseReconcileService ==
    ASSUME WorkerContext("service"), NEW k \in ServiceKeys, ReconcileService(k)
    PROVE  BaseInv'
<1>1. PICK pc \in {"lease", "export"} : Start("service", k[2], k[1], pc)
  BY Zenon DEF ReconcileService
<1>2. /\ serviceQ' = serviceQ \ {k}
      /\ UNCHANGED <<api, caches, ports, serviceToImport, listeners, importQ, exportQ,
                     sliceQ, xdsQ, env>>
  BY Zenon DEF ReconcileService
<1>3. JobsOK' /\ Busy'
  <2>1. k[2] \in Names /\ k[1] \in {"user", "system"} /\ <<k[1], k[2]>> \in ServiceKeys
    BY Keys
  <2> QED BY <1>1, <2>1, Started, Zenon DEF WorkerContext
<1>4. ApiOK' /\ PortsOK' /\ QueuesOK' /\ OthersOK'
  BY <1>2 DEF WorkerContext, api, ports, env, ApiOK, PortsOK, QueuesOK, OthersOK
<1>5. CachesOK' /\ Coherent'
  BY <1>2 DEF WorkerContext, api, caches, CachesOK, Coherent
<1> QED BY <1>3, <1>4, <1>5, NextParts, Zenon

(* The controllers of exports, of slices and of listeners, and the         *)
(* informers, leave the workers alone.                                     *)
Parts ==
    /\ ApiOK /\ CachesOK /\ PortsOK /\ QueuesOK /\ OthersOK /\ JobsOK /\ Busy /\ Coherent

LEMMA BaseParts == BaseInv <=> Parts
BY TypeParts, Zenon DEF BaseInv, Parts

LEMMA BaseExport ==
    ASSUME Parts, UNCHANGED environment, NEW n \in Names, ReconcileExport(n)
    PROVE  BaseInv'
<1>1. /\ exports' = [exports EXCEPT ![n] = addExport(n)]
      /\ exportQ' = exportQ \/ exportQ' = exportQ \ {n}
      /\ UNCHANGED <<imports, services, slices, dataplaneSlice, caches, ports,
                     serviceToImport, listeners, importQ, serviceQ, sliceQ, xdsQ, worker, env>>
  BY Zenon DEF ReconcileExport
<1>2. ApiOK' /\ QueuesOK'
  BY <1>1, AddedExport DEF Parts, ApiOK, QueuesOK
<1>3. PortsOK' /\ OthersOK' /\ JobsOK' /\ Busy'
  BY <1>1 DEF Parts, ports, env, PortsOK, OthersOK, JobsOK, Busy
<1>4. CachesOK' /\ Coherent'
  BY <1>1 DEF Parts, caches, CachesOK, Coherent
<1> QED BY <1>2, <1>3, <1>4, NextParts, Zenon

LEMMA BaseSlices ==
    ASSUME Parts, UNCHANGED environment,
           ReconcileDataplaneSlice \/ \E n \in Names : ReconcileEndpointSlice(n)
    PROVE  BaseInv'
<1> DEFINE SliceSet == [port : 0..MaxPort, address : Addresses \cup {0}]
<1>1. /\ slices' \in [Names -> SliceSet]
      /\ sliceQ' \subseteq Names \cup {NoName}
      /\ UNCHANGED <<imports, services, exports, dataplaneSlice, caches, ports,
                     serviceToImport, listeners, importQ, serviceQ, exportQ, xdsQ, worker, env>>
  <2>1. CASE ReconcileDataplaneSlice
    <3> DEFINE slice(n) == CASE dataplaneSlice = 0 -> NoSlice
                             [] dataplaneSlice # 0 /\ importCache[n].merge
                                  -> checkImportEndpointSlice(n, importCache[n])
                             [] OTHER -> slices[n]
    <3>1. \A n \in Names : slice(n) \in SliceSet
      BY Constants, CopiedSlice DEF Parts, ApiOK, CachesOK
    <3>2. /\ slices' = [n \in Names |-> slice(n)]
          /\ sliceQ' = (sliceQ \ {NoName}) \cup {n \in Names : slice(n) # slices[n]}
          /\ UNCHANGED <<imports, services, exports, dataplaneSlice, caches, ports,
                         serviceToImport, listeners, importQ, serviceQ, exportQ, xdsQ, worker, env>>
      BY <2>1, Zenon DEF ReconcileDataplaneSlice
    <3> HIDE DEF slice, SliceSet
    <3> QED BY <3>1, <3>2 DEF Parts, QueuesOK
  <2>2. ASSUME NEW n \in Names, ReconcileEndpointSlice(n)
        PROVE  <1>1!1 /\ <1>1!2 /\ <1>1!3
    <3> DEFINE imp == importCache[n]
               slice == IF imp.merge /\ dataplaneSlice # 0
                        THEN checkImportEndpointSlice(n, imp) ELSE NoSlice
    <3>1. slice \in SliceSet
      BY Constants, CopiedSlice DEF Parts, CachesOK
    <3>2. /\ slices' = [slices EXCEPT ![n] = slice]
          /\ sliceQ' = sliceQ \/ sliceQ' = sliceQ \ {n}
          /\ UNCHANGED <<imports, services, exports, dataplaneSlice, caches, ports,
                         serviceToImport, listeners, importQ, serviceQ, exportQ, xdsQ, worker, env>>
      BY <2>2, Zenon DEF ReconcileEndpointSlice
    <3>3. slices \in [Names -> SliceSet] /\ sliceQ \subseteq Names \cup {NoName}
      BY DEF Parts, ApiOK, QueuesOK
    <3> HIDE DEF slice, SliceSet
    <3> QED BY <3>1, <3>2, <3>3
  <2> QED BY <2>1, <2>2
<1>2. ApiOK' /\ QueuesOK'
  BY <1>1 DEF Parts, ApiOK, QueuesOK
<1>3. PortsOK' /\ OthersOK' /\ JobsOK' /\ Busy'
  BY <1>1 DEF Parts, ports, env, PortsOK, OthersOK, JobsOK, Busy
<1>4. CachesOK' /\ Coherent'
  BY <1>1 DEF Parts, caches, CachesOK, Coherent
<1> QED BY <1>2, <1>3, <1>4, NextParts, Zenon

LEMMA BaseListener ==
    ASSUME Parts, UNCHANGED environment, NEW n \in Names, ReconcileListener(n)
    PROVE  BaseInv'
<1> DEFINE imp == importCache[n]
           port == IF imp.exists THEN AddImport(n, imp) ELSE 0
<1>1. /\ xdsQ' = xdsQ \ {n} /\ listeners' = [listeners EXCEPT ![n] = port]
      /\ UNCHANGED <<api, caches, ports, serviceToImport, importQ, serviceQ, exportQ,
                     sliceQ, worker, env>>
  BY Zenon DEF ReconcileListener
<1>2. port \in 0..MaxPort
  BY Constants DEF Parts, CachesOK, OthersOK, Import, AddImport
<1> HIDE DEF port
<1>3. QueuesOK' /\ OthersOK'
  BY <1>1, <1>2 DEF Parts, QueuesOK, OthersOK, env
<1>4. ApiOK' /\ PortsOK' /\ JobsOK' /\ Busy'
  BY <1>1 DEF Parts, api, ports, ApiOK, PortsOK, JobsOK, Busy
<1>5. CachesOK' /\ Coherent'
  BY <1>1 DEF Parts, api, caches, CachesOK, Coherent
<1> QED BY <1>3, <1>4, <1>5, NextParts, Zenon

LEMMA BaseInform ==
    ASSUME Parts, UNCHANGED environment,
           (\E n \in Names : SyncImport(n)) \/ (\E k \in ServiceKeys : SyncService(k))
    PROVE  BaseInv'
<1>1. ASSUME NEW n \in Names, SyncImport(n) PROVE BaseInv'
  <2>1. CachesOK' /\ Coherent' /\ QueuesOK'
    BY <1>1 DEF SyncImport, Parts, api, ApiOK, CachesOK, Coherent, QueuesOK
  <2>2. ApiOK' /\ PortsOK' /\ OthersOK' /\ JobsOK' /\ Busy'
    BY <1>1 DEF SyncImport, Parts, api, ports, env, ApiOK, PortsOK, OthersOK, JobsOK, Busy
  <2> QED BY <2>1, <2>2, NextParts, Zenon
<1>2. ASSUME NEW k \in ServiceKeys, SyncService(k) PROVE BaseInv'
  <2>1. CachesOK' /\ Coherent' /\ QueuesOK'
    BY <1>2 DEF SyncService, Parts, api, ApiOK, CachesOK, Coherent, QueuesOK
  <2>2. ApiOK' /\ PortsOK' /\ OthersOK' /\ JobsOK' /\ Busy'
    BY <1>2 DEF SyncService, Parts, api, ports, env, ApiOK, PortsOK, OthersOK, JobsOK, Busy
  <2> QED BY <2>1, <2>2, NextParts, Zenon
<1> QED BY <1>1, <1>2

(* What the user operations on imports write. *)
UserImport(n, imp) ==
    \/ /\ ~imports[n].exists /\ "create" \in environment.ops
       /\ imp.exists /\ imp.status = "Unset"
    \/ imports[n].exists /\ imp = NoImport
    \/ /\ imports[n].exists /\ "edit" \in environment.ops
       /\ imp.exists /\ imp.status = imports[n].status
    \/ /\ imports[n].exists
       /\ imp.exists /\ imp.status = imports[n].status
       /\ imp.targetPort = imports[n].targetPort

LEMMA UserImports ==
    ASSUME Parts, NEW n \in Names,
           CreateImport(n) \/ DeleteImport(n) \/ EditTargetPort(n) \/ ToggleMerge(n)
    PROVE  \E op \in UserOps, imp \in Import : UserWritesImport(op, n, imp) /\ UserImport(n, imp)
<1>1. imports[n] \in Import
  BY DEF Parts, ApiOK
<1>2. UserPorts \cup {0} \subseteq 0..MaxPort
  BY ControlAssumption
<1>3. CASE CreateImport(n)
  <2>1. PICK p \in UserPorts \cup {0}, m \in BOOLEAN :
          UserWritesImport("create", n,
              [exists |-> TRUE, targetPort |-> p, merge |-> m, status |-> "Unset"])
    BY <1>3, Zenon DEF CreateImport
  <2>2. ~imports[n].exists /\ "create" \in environment.ops
    BY <1>3, <2>1, Zenon DEF CreateImport, UserWritesImport, UserOp
  <2> DEFINE imp == [exists |-> TRUE, targetPort |-> p, merge |-> m, status |-> "Unset"]
  <2>3. imp \in Import /\ imp.exists /\ imp.status = "Unset"
    BY <1>2 DEF Import, Status
  <2> HIDE DEF imp
  <2>4. UserWritesImport("create", n, imp)
    BY <2>1 DEF imp
  <2> QED BY <2>2, <2>3, <2>4 DEF UserImport, UserOps
<1>4. CASE DeleteImport(n)
  BY <1>4, Constants DEF DeleteImport, UserImport, UserOps
<1>5. CASE EditTargetPort(n)
  <2>1. PICK p \in UserPorts \cup {0} :
          UserWritesImport("edit", n, [imports[n] EXCEPT !.targetPort = p])
    BY <1>5 DEF EditTargetPort
  <2>2. imports[n].exists /\ "edit" \in environment.ops
    BY <1>5, <2>1, Zenon DEF EditTargetPort, UserWritesImport, UserOp
  <2> DEFINE imp == [imports[n] EXCEPT !.targetPort = p]
  <2>3. imp \in Import /\ imp.exists = imports[n].exists /\ imp.status = imports[n].status
    BY <1>1, <1>2 DEF Import
  <2> HIDE DEF imp
  <2>4. UserWritesImport("edit", n, imp)
    BY <2>1 DEF imp
  <2> QED BY <2>2, <2>3, <2>4, Zenon DEF UserImport, UserOps
<1>6. CASE ToggleMerge(n)
  <2> DEFINE imp == [imports[n] EXCEPT !.merge = ~@]
  <2>1. imports[n].exists /\ UserWritesImport("merge", n, imp)
    BY <1>6, Zenon DEF ToggleMerge
  <2>2. /\ imp \in Import /\ imp.exists = imports[n].exists /\ imp.status = imports[n].status
        /\ imp.targetPort = imports[n].targetPort
    BY <1>1 DEF Import
  <2> HIDE DEF imp
  <2> QED BY <2>1, <2>2, Zenon DEF UserImport, UserOps
<1> QED BY <1>3, <1>4, <1>5, <1>6

(* The counters of the environment stay within its bounds. *)
LEMMA UserCount ==
    ASSUME OthersOK, UNCHANGED environment, NEW op, UserOp(op)
    PROVE  userOps' \in 0..environment.maxOps /\ restarts' \in 0..environment.maxRestarts
BY ControlAssumption DEF OthersOK, UserOp, Environment

LEMMA BaseUserImport ==
    ASSUME Parts, UNCHANGED environment, NEW n \in Names, NEW op, NEW imp \in Import,
           UserWritesImport(op, n, imp)
    PROVE  BaseInv'
<1>1. /\ UserOp(op) /\ WriteImport(n, imp) /\ worker' = Outdated(n)
      /\ UNCHANGED <<services, exports, slices, dataplaneSlice, importCache,
                     serviceCache, serviceCurrent, ports, serviceToImport, listeners, queues>>
  BY Zenon DEF UserWritesImport
<1>2. ApiOK' /\ CachesOK' /\ Coherent'
  BY <1>1, ImportWritten, Zenon DEF Parts
<1>3. JobsOK' /\ Busy'
  BY <1>1, OutdatedJobs DEF Parts, JobsOK, Busy
<1>4. OthersOK'
  BY <1>1, UserCount DEF Parts, OthersOK
<1>5. PortsOK' /\ QueuesOK'
  BY <1>1 DEF Parts, ports, queues, PortsOK, QueuesOK
<1> QED BY <1>2, <1>3, <1>4, <1>5, NextParts, Zenon

LEMMA BaseUserOther ==
    ASSUME Parts, UNCHANGED environment,
           \/ \E k \in ServiceKeys : UserService(k)
           \/ \E n \in Names : UserExport(n)
           \/ ChangeDataplane
    PROVE  BaseInv'
<1>1. ASSUME NEW k \in ServiceKeys, UserService(k) PROVE BaseInv'
  <2>1. PICK svc \in {NoService, Foreign} : WriteServices({k}, svc)
    BY <1>1 DEF UserService
  <2>2. /\ UserOp("service")
        /\ UNCHANGED <<imports, exports, slices, dataplaneSlice, importCache,
                       importCurrent, serviceCache, ports, serviceToImport, listeners,
                       queues, worker>>
    BY <1>1, Zenon DEF UserService
  <2>3. CachesOK' /\ Coherent' /\ services' \in [ServiceKeys -> Service]
    BY <2>1, <2>2, ServicesWritten, Constants DEF Parts
  <2>4. ApiOK' /\ OthersOK'
    BY <2>2, <2>3, UserCount DEF Parts, ApiOK, OthersOK
  <2>5. PortsOK' /\ QueuesOK' /\ JobsOK' /\ Busy'
    BY <2>2 DEF Parts, ports, queues, PortsOK, QueuesOK, JobsOK, Busy
  <2> QED BY <2>3, <2>4, <2>5, NextParts, Zenon
<1>2. ASSUME NEW n \in Names, UserExport(n) PROVE BaseInv'
  <2>1. /\ UserOp("export") /\ exportQ' = exportQ \cup {n}
        /\ exports' = [exports EXCEPT ![n] = IF @ = "none" THEN "Unset" ELSE "none"]
        /\ UNCHANGED <<imports, services, slices, dataplaneSlice, caches, ports,
                       serviceToImport, listeners, importQ, serviceQ, sliceQ, xdsQ, worker>>
    BY <1>2, Zenon DEF UserExport
  <2>2. ApiOK' /\ QueuesOK'
    BY <2>1 DEF Parts, ApiOK, QueuesOK
  <2>3. CachesOK' /\ Coherent'
    BY <2>1 DEF Parts, caches, CachesOK, Coherent
  <2>4. OthersOK'
    BY <2>1, UserCount DEF Parts, OthersOK
  <2>5. PortsOK' /\ JobsOK' /\ Busy'
    BY <2>1 DEF Parts, ports, PortsOK, JobsOK, Busy
  <2> QED BY <2>2, <2>3, <2>4, <2>5, NextParts, Zenon
<1>3. CASE ChangeDataplane
  <2>1. /\ UserOp("dataplane") /\ sliceQ' = sliceQ \cup {NoName}
        /\ dataplaneSlice' \in (Addresses \cup {0}) \ {dataplaneSlice}
        /\ UNCHANGED <<imports, services, exports, slices, caches, ports, serviceToImport,
                       listeners, importQ, serviceQ, exportQ, xdsQ, worker>>
    BY <1>3, Zenon DEF ChangeDataplane
  <2>2. ApiOK' /\ QueuesOK'
    BY <2>1 DEF Parts, ApiOK, QueuesOK
  <2>3. CachesOK' /\ Coherent'
    BY <2>1 DEF Parts, caches, CachesOK, Coherent
  <2>4. OthersOK'
    BY <2>1, UserCount DEF Parts, OthersOK
  <2>5. PortsOK' /\ JobsOK' /\ Busy'
    BY <2>1 DEF Parts, ports, PortsOK, JobsOK, Busy
  <2> QED BY <2>2, <2>3, <2>4, <2>5, NextParts, Zenon
<1> QED BY <1>1, <1>2, <1>3

LEMMA BaseRestart ==
    ASSUME Parts, UNCHANGED environment, Restart
    PROVE  BaseInv'
<1>1. ApiOK'
  BY Zenon DEF Parts, Restart, api, ApiOK
<1>2. CachesOK' /\ Coherent'
  BY DEF Parts, Restart, api, ApiOK, CachesOK, Coherent
<1>3. PortsOK'
  BY Constants DEF Restart, PortsOK
<1>4. QueuesOK'
  BY DEF Restart, QueuesOK
<1>5. OthersOK'
  BY ControlAssumption, Constants DEF Parts, Restart, OthersOK, Environment
<1>6. JobsOK' /\ Busy'
  BY Constants DEF Restart, JobsOK, Busy
<1> QED BY <1>1, <1>2, <1>3, <1>4, <1>5, <1>6, NextParts, Zenon

(* The steps of the users are those of the lemmas above. *)
LEMMA UserSteps ==
    ASSUME Parts, Users
    PROVE  \/ \E n \in Names, op \in UserOps, imp \in Import :
                 UserWritesImport(op, n, imp) /\ UserImport(n, imp)
           \/ \E k \in ServiceKeys : UserService(k)
           \/ \E n \in Names : UserExport(n)
           \/ ChangeDataplane
<1>1. environment.names \subseteq Names
  BY ControlAssumption DEF Parts, OthersOK, Environment
<1>2. ASSUME NEW n \in Names,
             CreateImport(n) \/ DeleteImport(n) \/ EditTargetPort(n) \/ ToggleMerge(n)
      PROVE  \E m \in Names, op \in UserOps, imp \in Import :
                 UserWritesImport(op, m, imp) /\ UserImport(m, imp)
  BY <1>2, UserImports
<1> QED BY <1>1, <1>2 DEF Users

(* The steps of a worker of control.import or control.service. *)
WorkerAction(w) ==
    \/ WorkerStep(w)
    \/ w = "import" /\ \E n \in Names : ReconcileImport(n)
    \/ w = "service" /\ \E k \in ServiceKeys : ReconcileService(k)

LEMMA NextSteps ==
    ASSUME Next
    PROVE  /\ UNCHANGED environment
           /\ \/ \E w \in Workers : w \in environment.workers /\ WorkerAction(w)
              \/ \E n \in Names : ReconcileExport(n)
              \/ ReconcileDataplaneSlice \/ \E n \in Names : ReconcileEndpointSlice(n)
              \/ \E n \in Names : ReconcileListener(n)
              \/ \E n \in Names : SyncImport(n)
              \/ \E k \in ServiceKeys : SyncService(k)
              \/ Users
              \/ Restart
BY Zenon DEF Next, ImportController, ServiceController, ExportController, SliceController,
       XdsController, InformImports, InformServices, Workers, WorkerAction

LEMMA BaseWorker ==
    ASSUME NEW w \in Workers, WorkerContext(w), WorkerAction(w)
    PROVE  BaseInv'
BY BaseLeasePort, BaseUpdateImport, BaseAddImportEndpointSlices, BaseAddSystemService,
   BaseAddUserService, BaseUpdateImportStatus, BaseDeleteImport, BaseCheckExportService,
   BaseReconcileImport, BaseReconcileService, Zenon DEF WorkerAction, WorkerStep

LEMMA BaseUsers ==
    ASSUME Parts, UNCHANGED environment, Users
    PROVE  BaseInv'
BY UserSteps, BaseUserImport, BaseUserOther, Zenon

LEMMA BaseStep == BaseInv /\ [Next]_vars => BaseInv'
<1> SUFFICES ASSUME BaseInv, [Next]_vars PROVE BaseInv'
  OBVIOUS
<1>1. Parts
  BY BaseParts
<1>2. CASE Next
  <2>1. UNCHANGED environment
    BY <1>2, NextSteps
  <2>2. ASSUME NEW w \in Workers, w \in environment.workers, WorkerAction(w) PROVE BaseInv'
    BY <2>1, <2>2, Context, BaseWorker, Zenon
  <2> QED BY <1>1, <1>2, <2>1, <2>2, NextSteps, BaseExport, BaseSlices, BaseListener,
             BaseInform, BaseUsers, BaseRestart, Zenon
<1>3. CASE UNCHANGED vars
  <2>1. TypeOK'
    BY <1>3 DEF BaseInv, TypeOK, vars, api, caches, ports, queues, env
  <2>2. Busy' /\ Coherent'
    BY <1>3, Zenon DEF BaseInv, Busy, Coherent, vars, api, caches
  <2> QED BY <2>1, <2>2 DEF BaseInv
<1> QED BY <1>2, <1>3

LEMMA BaseInit == Init => BaseInv
<1> SUFFICES ASSUME Init PROVE BaseInv
  OBVIOUS
<1>1. ApiOK
  BY Constants, ControlAssumption DEF Init, ApiOK, Addresses
<1>2. CachesOK /\ Coherent
  BY Constants DEF Init, CachesOK, Coherent
<1>3. PortsOK /\ QueuesOK
  BY Constants DEF Init, PortsOK, QueuesOK
<1>4. OthersOK
  BY Constants, ControlAssumption DEF Init, OthersOK, Environment
<1>5. JobsOK /\ Busy
  BY Constants DEF Init, JobsOK, Busy
<1> QED BY <1>1, <1>2, <1>3, <1>4, <1>5, BaseParts DEF Parts

LEMMA Base == Spec => []BaseInv
BY BaseInit, BaseStep, PTL DEF Spec

(* Objects, queues and jobs always have the types of the model. *)
THEOREM TypeCorrect == Spec => []TypeOK
<1>1. BaseInv => TypeOK
  BY DEF BaseInv
<1> QED BY <1>1, Base, PTL
-------------------------------------------------------------------------------
(* A worker that changes the service of a user took it for a managed one. *)
LEMMA ForeignChanged ==
    ASSUME NEW w, WorkerContext(w), WorkerAction(w),
           NEW k \in ServiceKeys, services[k] = Foreign, services'[k] # Foreign
    PROVE  serviceCache[k].kind = "managed"
<1>1. Foreign # NoService
  BY DEF Foreign, NoService
<1>2. ASSUME NEW key, NEW svc, NEW next, addImportService(w, key, svc, next)
      PROVE  serviceCache[k].kind = "managed"
  BY <1>1, <1>2 DEF addImportService, WriteServices, checkServiceLabels
<1>3. CASE DeleteImportServices(w)
  BY <1>3 DEF DeleteImportServices, WriteServices, checkServiceLabels
<1>4. CASE AddSystemService(w) \/ AddUserService(w)
  BY <1>2, <1>4, Zenon DEF AddSystemService, AddUserService
<1>5. CASE UNCHANGED services
  BY <1>5
<1>6. /\ LeasePort(w) => UNCHANGED services
      /\ UpdateImport(w) => UNCHANGED services
      /\ AddImportEndpointSlices(w) => UNCHANGED services
      /\ UpdateImportStatus(w) => UNCHANGED services
      /\ ReleasePort(w) => UNCHANGED services
      /\ CheckExportService(w) => UNCHANGED services
  BY Zenon DEF LeasePort, UpdateImport, AddImportEndpointSlices, UpdateImportStatus, ReleasePort,
         CheckExportService, api
<1>7. /\ (\E n \in Names : ReconcileImport(n)) => UNCHANGED services
      /\ (\E s \in ServiceKeys : ReconcileService(s)) => UNCHANGED services
  BY Zenon DEF ReconcileImport, ReconcileService, api
<1> QED BY <1>3, <1>4, <1>5, <1>6, <1>7, Zenon DEF WorkerAction, WorkerStep

(* The other controllers, the informers and a restart write no service. *)
LEMMA ServicesLeft ==
    /\ (\E n \in Names : ReconcileExport(n)) => UNCHANGED services
    /\ ReconcileDataplaneSlice => UNCHANGED services
    /\ (\E n \in Names : ReconcileEndpointSlice(n)) => UNCHANGED services
    /\ (\E n \in Names : ReconcileListener(n)) => UNCHANGED services
    /\ (\E n \in Names : SyncImport(n)) => UNCHANGED services
    /\ (\E k \in ServiceKeys : SyncService(k)) => UNCHANGED services
    /\ Restart => UNCHANGED services
BY Zenon DEF ReconcileExport, ReconcileDataplaneSlice, ReconcileEndpointSlice, ReconcileListener,
       SyncImport, SyncService, Restart, api

LEMMA UsersCounted ==
    ASSUME Parts, Users
    PROVE  userOps' # userOps
<1>1. userOps \in Nat
  BY ControlAssumption DEF Parts, OthersOK, Environment
<1>2. \E op : UserOp(op)
  BY UserSteps, Zenon DEF UserWritesImport, UserService, UserExport, ChangeDataplane
<1> QED BY <1>1, <1>2 DEF UserOp

(* addImportService and deleteImport never touch a service of a user,      *)
(* except when the cache still shows the managed service of that name.     *)
THEOREM UserServicesKept == Spec => UserServiceKept
<1> DEFINE Kept == \A k \in ServiceKeys :
             /\ services[k] = Foreign /\ services'[k] # Foreign /\ userOps' = userOps
             => serviceCache[k].kind = "managed" /\ k \notin serviceCurrent
<1>1. BaseInv /\ [Next]_vars => [Kept]_vars
  <2> SUFFICES ASSUME BaseInv, Next,
                      NEW k \in ServiceKeys, services[k] = Foreign, services'[k] # Foreign,
                      userOps' = userOps
               PROVE  serviceCache[k].kind = "managed" /\ k \notin serviceCurrent
    OBVIOUS
  <2>1. PICK w \in Workers : w \in environment.workers /\ WorkerAction(w) /\ UNCHANGED environment
    BY NextSteps, ServicesLeft, UsersCounted, BaseParts, Zenon
  <2>2. serviceCache[k].kind = "managed"
    BY <2>1, Context, ForeignChanged, Zenon
  <2>3. Foreign.kind # "managed"
    BY DEF Foreign
  <2>4. k \in serviceCurrent => serviceCache[k] = Foreign
    BY DEF BaseInv, Coherent
  <2> QED BY <2>2, <2>3, <2>4, Zenon
<1> QED BY <1>1, Base, PTL DEF Spec, UserServiceKept
-------------------------------------------------------------------------------
(* What the worker of control.import does, and when it is adding an import. *)
job == worker["import"]

Adding == {"lease", "update", "services", "user", "Valid", "PortError"} \cup ServiceErrors

(* Where control.import works alone, the steps are those of its handler,   *)
(* of the controllers of slices and listeners, of informers and of users.  *)
LEMMA ImportSteps ==
    ASSUME BaseInv, ImportControllerOnly, Next
    PROVE  /\ WorkerContext("import")
           /\ \/ WorkerStep("import") \/ \E n \in Names : ReconcileImport(n)
              \/ ReconcileDataplaneSlice \/ \E n \in Names : ReconcileEndpointSlice(n)
              \/ \E n \in Names : ReconcileListener(n)
              \/ (\E n \in Names : SyncImport(n)) \/ (\E k \in ServiceKeys : SyncService(k))
              \/ \E n \in Names, op \in UserOps, imp \in Import :
                    UserWritesImport(op, n, imp) /\ UserImport(n, imp)
              \/ \E k \in ServiceKeys : UserService(k)
              \/ \E n \in Names : ReconcileExport(n) \/ UserExport(n)
              \/ ChangeDataplane
<1>1. ~Restart
  <2>1. environment.maxRestarts = 0 /\ restarts \in 0..environment.maxRestarts
    BY BaseParts, Zenon DEF ImportControllerOnly, Parts, OthersOK
  <2>2. ~(restarts < environment.maxRestarts)
    BY <2>1
  <2> QED BY <2>2, Zenon DEF Restart
<1>2. ASSUME NEW w \in Workers, w \in environment.workers, WorkerAction(w)
      PROVE  WorkerStep("import") \/ \E n \in Names : ReconcileImport(n)
  BY <1>2 DEF ImportControllerOnly, WorkerAction
<1>3. "import" \in Workers /\ "import" \in environment.workers /\ UNCHANGED environment
  BY NextSteps DEF Workers, ImportControllerOnly
<1>4. WorkerContext("import")
  BY <1>3, Context
<1>5. Parts
  BY BaseParts
<1> QED BY <1>1, <1>2, <1>4, <1>5, NextSteps, UserSteps, Zenon
===============================================================================
