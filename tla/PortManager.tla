------------------------------ MODULE PortManager ------------------------------
(***************************************************************************)
(* The port manager of the control plane (pkg/controlplane/control/        *)
(* port.go): it leases the TCP ports on which the data plane listens for   *)
(* imported services.  Lease and Release run under one mutex, so each call *)
(* is one step.                                                            *)
(*                                                                         *)
(* The Go maps are total functions here: leasesByPort[p] = NoName and      *)
(* leasesByName[n] = 0 stand for a missing key (port 0 is never stored).   *)
(***************************************************************************)
EXTENDS Integers, FiniteSets

CONSTANTS Names,      \* names of imports
          NoName,     \* the missing entry of leasesByPort
          startPort,  \* first port of the allocation range
          endPort,    \* end of the allocation range (not included)
          MaxPort     \* largest port number (65535 in the code)

ASSUME NamesAssumption == NoName \notin Names /\ IsFiniteSet(Names)

(* port.go: 1024 and 49152 in a uint16; a range of at least three ports    *)
(* keeps the unsigned portCount-2 of the full scan positive.               *)
ASSUME PortsAssumption ==
    /\ startPort \in Nat \ {0} /\ endPort \in Nat /\ MaxPort \in Nat
    /\ startPort + 3 <= endPort /\ endPort <= MaxPort

VARIABLES leasesByPort,  \* which name leases a port
          leasesByName,  \* which port a name leases
          ret            \* the last call: operation, name, port argument, port returned (0: an error)

portVars == <<leasesByPort, leasesByName>>
vars == <<leasesByPort, leasesByName, ret>>

Port == 1..MaxPort
portCount == endPort - startPort

(* The names are few enough for the full scan to find a free port for a    *)
(* name without one: at most 48126 imports with the code's constants.      *)
FewNames == Cardinality(Names) <= portCount - 2

(* The keys of leasesByPort, and the ports of the allocation range. *)
Leased == {p \in Port : leasesByPort[p] # NoName}
portRange == startPort..(endPort - 1)

TypeOK ==
    /\ leasesByPort \in [Port -> Names \cup {NoName}]
    /\ leasesByName \in [Names -> 0..MaxPort]
    /\ ret \in [op: {"none", "lease", "release"},
                name: Names \cup {NoName}, port: 0..MaxPort, granted: 0..MaxPort]

Init ==
    /\ leasesByPort = [p \in Port |-> NoName]
    /\ leasesByName = [n \in Names |-> 0]
    /\ ret = [op |-> "none", name |-> NoName, port |-> 0, granted |-> 0]

(* The full scan.  The variable it increments is not the one the random    *)
(* tries assigned, so it starts at 0: it visits the ports 1..portCount-2   *)
(* (and never reaches endPort), stops at the first free one, and returns   *)
(* the last one it visited when none is free.                              *)
scannedPort ==
    {k \in 1..(portCount - 2) :
        /\ \A j \in 1..(k - 1) : j \in Leased
        /\ k \notin Leased \/ k = portCount - 2}

(* The ports getRandomFreePort may return: a free port of the range, or,   *)
(* when all maxRandomTries tries happened to hit leased ports, the port    *)
(* the full scan ends at.                                                  *)
getRandomFreePort ==
    (portRange \ Leased) \cup (IF portRange \cap Leased = {} THEN {} ELSE scannedPort)

(* Mutant of mark: the previous port of n stays leased. *)
markKeepOld(n, p) ==
    /\ leasesByPort' = [leasesByPort EXCEPT ![p] = n]
    /\ leasesByName' = [leasesByName EXCEPT ![n] = p]

(* Free the previous port of n, if any, and mark p as leased by n. *)
mark(n, p) ==
    /\ leasesByPort' = [q \in Port |-> IF q = p THEN n
                                       ELSE IF q = leasesByName[n] THEN NoName
                                       ELSE leasesByPort[q]]
    /\ leasesByName' = [leasesByName EXCEPT ![n] = p]

(* Lease(n, 0) grants g; g = 0 is the error "all ports are taken". *)
leaseWithRandomPort(n, g) ==
    \/ /\ Cardinality(Leased) = portCount
       /\ g = 0
       /\ UNCHANGED portVars
    \/ /\ Cardinality(Leased) # portCount
       /\ leasesByName[n] # 0
       /\ g = leasesByName[n]
       /\ UNCHANGED portVars
    \/ /\ Cardinality(Leased) # portCount
       /\ leasesByName[n] = 0
       /\ g \in getRandomFreePort
       /\ mark(n, g)

(* Mutant of leaseWithSpecificPort: no conflict is ever reported. *)
leaseUnchecked(n, p, g) == g = p /\ mark(n, p)

(* Lease(n, p) grants g; g = 0 is a conflictingTargetPortError. *)
leaseWithSpecificPort(n, p, g) ==
    \/ /\ leasesByPort[p] \notin {n, NoName}
       /\ g = 0
       /\ UNCHANGED portVars
    \/ /\ leasesByPort[p] \in {n, NoName}
       /\ g = p
       /\ mark(n, p)

Lease(n, p, g) ==
    \/ p = 0 /\ leaseWithRandomPort(n, g)
    \/ p # 0 /\ leaseWithSpecificPort(n, p, g)

Release(n) ==
    /\ leasesByName' = [leasesByName EXCEPT ![n] = 0]
    /\ leasesByPort' = [q \in Port |-> IF q = leasesByName[n] THEN NoName
                                       ELSE leasesByPort[q]]

Next == \E n \in Names :
    \/ \E p, g \in 0..MaxPort :
          /\ Lease(n, p, g)
          /\ ret' = [op |-> "lease", name |-> n, port |-> p, granted |-> g]
    \/ /\ Release(n)
       /\ ret' = [op |-> "release", name |-> n, port |-> 0, granted |-> 0]

Spec == Init /\ [][Next]_vars
-------------------------------------------------------------------------------
(* The two maps of the port manager are inverse to each other after every  *)
(* sequence of Lease and Release: no port is counted for a name that does  *)
(* not hold it, no name believes in a port that was given away.            *)
LeasesInverse ==
    \A n \in Names, p \in Port : leasesByPort[p] = n <=> leasesByName[n] = p

(* The lease of a port ends only by a call made for the name that holds    *)
(* it: Lease for one import never takes the port of another one.           *)
HolderKeepsPort ==
    [][\A p \in Port :
         leasesByPort[p] # NoName /\ leasesByPort'[p] # leasesByPort[p]
           => ret'.name = leasesByPort[p]]_vars

(* The port manager implements the table of exclusive leases. *)
Leases == INSTANCE PortLeases WITH lease <- leasesByName
ImplementsPortLeases == Leases!Spec
===============================================================================
