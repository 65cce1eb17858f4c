---------------------------- MODULE CertsWatcher ----------------------------
(***************************************************************************)
(* The certificates a control plane uses between peers: the watcher that   *)
(* reads them again when the files of their secret change                  *)
(* (pkg/controlplane/peer/certs.go), its three consumers in the order in   *)
(* which they are updated (authorization, control, xDS), and the clients   *)
(* of peers that authorization builds from them.                           *)
(*                                                                         *)
(* A version of the secret is a number; the files of a version appear at   *)
(* once, but are read one by one.                                          *)
(***************************************************************************)
EXTENDS Naturals

CONSTANTS
    Peers,
    Versions,       \* bound: the secret has the versions 1..Versions, one after the other
    Broken,         \* versions in which a file cannot be parsed
    Nameless,       \* versions whose certificate has no DNS name
    MaxEnds         \* bound: how often something fails that certificates are not to blame for

ASSUME VersionsAssumption ==
    Versions \in Nat \ {0} /\ MaxEnds \in Nat /\ Broken \cup Nameless \subseteq 2..Versions

NoVersion == 0
Version == 1..Versions
TLS == [ca : Version \cup {NoVersion}, cert : Version \cup {NoVersion}]
NoTLS == [ca |-> NoVersion, cert |-> NoVersion]

VARIABLES
    version,    \* the files that are mounted
    event,      \* an event is in watcher.Events
    modified,   \* certsModified
    watching,   \* Start has added its directory to the watcher
    pc,         \* where the watcher is
    read,       \* the files ReadCertsAndUpdateConsumers has read
    authz,      \* peerTLS of the authorization manager
    control,    \* peerTLS of the peer manager
    xdsSecrets, \* the secrets of the xDS manager
    clients,    \* the certificates of the client of each peer, if any
    adding,     \* the AddPeer that has built its client and not stored it
    ends,       \* how often something failed
    missed,     \* history: the files changed between a first read and the watch
    overtaken   \* history: the peers whose client was built before the last change
                \* of certificates, and stored after it

consumers == <<authz, control, xdsSecrets, clients, adding, overtaken>>
certsVars == <<version, event, modified, watching, pc, read, consumers, ends, missed>>

NoAdd == [peer |-> "none", tls |-> NoTLS, late |-> FALSE]

CertsTypeOK ==
    /\ version \in Version
    /\ event \in BOOLEAN /\ modified \in BOOLEAN /\ watching \in BOOLEAN
    /\ pc \in {"read", "cert", "key", "parse", "authz", "control", "certificate", "validation",
               "start", "select", "ended"}
    /\ read \in [ca : Version \cup {NoVersion}, cert : Version \cup {NoVersion}, key : Version \cup {NoVersion}]
    /\ {authz, control, xdsSecrets} \subseteq TLS
    /\ clients \in [Peers -> TLS]
    /\ adding = NoAdd \/ (adding.peer \in Peers /\ adding.tls \in TLS /\ adding.late \in BOOLEAN)
    /\ ends \in 0..MaxEnds
    /\ missed \in BOOLEAN /\ overtaken \subseteq Peers

NoClients == [p \in Peers |-> NoTLS]

CertsInit ==
    /\ version = 1
    /\ event = FALSE /\ modified = FALSE /\ watching = FALSE
    /\ pc = "read" /\ read = [ca |-> NoVersion, cert |-> NoVersion, key |-> NoVersion]
    /\ authz = NoTLS /\ control = NoTLS /\ xdsSecrets = NoTLS
    /\ clients = NoClients /\ adding = NoAdd
    /\ ends = 0 /\ missed = FALSE /\ overtaken = {}

\* The kubelet swaps the directory of the secret.
Rotate ==
    /\ version < Versions
    /\ version' = version + 1
    /\ event' = (event \/ watching)
    /\ missed' = (missed \/ (~watching /\ read.ca # NoVersion))
    /\ UNCHANGED <<modified, watching, pc, read, consumers, ends>>

(***************************************************************************)
(* ReadCertsAndUpdateConsumers: ParseFiles, then the consumers in turn.    *)
(***************************************************************************)
ReadFile(file, next) ==
    /\ read' = [read EXCEPT ![file] = version]
    /\ pc' = next
    /\ UNCHANGED <<version, event, modified, watching, consumers, ends>>

\* A second read makes good what the first has missed.
ReadCA == pc = "read" /\ ReadFile("ca", "cert") /\ missed' = FALSE
ReadCert == pc = "cert" /\ ReadFile("cert", "key") /\ UNCHANGED missed
ReadKey == pc = "key" /\ ReadFile("key", "parse") /\ UNCHANGED missed

\* Mutant of Parses: the key is not compared with the certificate.
ParsesAnyKey == {read.ca, read.cert, read.key} \cap Broken = {}

Parses == read.cert = read.key /\ {read.ca, read.cert, read.key} \cap Broken = {}

\* The new parseError that a parse error is compared with is never the same
\* one, so that every error ends the watcher, and with it the process.
Parse ==
    /\ pc = "parse"
    /\ pc' = IF Parses THEN "authz" ELSE "ended"
    /\ UNCHANGED <<version, event, modified, watching, read, consumers, ends, missed>>

ReadTLS == [ca |-> read.ca, cert |-> read.cert]

SetAuthz ==
    /\ pc = "authz"
    /\ IF read.cert \in Nameless
         THEN pc' = "ended" /\ UNCHANGED <<authz, clients, adding, overtaken>>
         ELSE /\ pc' = "control"
              /\ authz' = ReadTLS
              /\ clients' = [p \in Peers |-> IF clients[p] = NoTLS THEN NoTLS ELSE ReadTLS]
              /\ adding' = [adding EXCEPT !.late = adding # NoAdd]
              /\ overtaken' = {}
    /\ UNCHANGED <<version, event, modified, watching, read, control, xdsSecrets, ends, missed>>

SetControl ==
    /\ pc = "control"
    /\ pc' = "certificate" /\ control' = ReadTLS
    /\ UNCHANGED <<version, event, modified, watching, read, authz, xdsSecrets, clients, adding, overtaken, ends, missed>>

SetCertificate ==
    /\ pc = "certificate"
    /\ pc' = "validation" /\ xdsSecrets' = [xdsSecrets EXCEPT !.cert = read.cert]
    /\ UNCHANGED <<version, event, modified, watching, read, authz, control, clients, adding, overtaken, ends, missed>>

SetValidation ==
    /\ pc = "validation"
    /\ pc' = IF watching THEN "select" ELSE "start"
    /\ xdsSecrets' = [xdsSecrets EXCEPT !.ca = read.ca]
    /\ UNCHANGED <<version, event, modified, watching, read, authz, control, clients, adding, overtaken, ends, missed>>

ReadCertsAndUpdateConsumers ==
    \/ ReadCA \/ ReadCert \/ ReadKey \/ Parse
    \/ SetAuthz \/ SetControl \/ SetCertificate \/ SetValidation

(***************************************************************************)
(* Start.                                                                  *)
(***************************************************************************)
Watch ==
    /\ pc = "start"
    /\ pc' = "select" /\ watching' = TRUE
    /\ UNCHANGED <<version, event, modified, read, consumers, ends, missed>>

Event ==
    /\ pc = "select" /\ event
    /\ event' = FALSE /\ modified' = TRUE
    /\ UNCHANGED <<version, watching, pc, read, consumers, ends, missed>>

\* Mutant of Tick: the flag is tested the wrong way round.
TickUnmodified ==
    /\ pc = "select" /\ ~modified
    /\ pc' = "read"
    /\ UNCHANGED <<version, event, modified, watching, read, consumers, ends, missed>>

Tick ==
    /\ pc = "select" /\ modified
    /\ modified' = FALSE /\ pc' = "read"
    /\ UNCHANGED <<version, event, watching, read, consumers, ends, missed>>

\* Stop was called, or the watcher of files fails.
End ==
    /\ pc = "select"
    /\ pc' = "ended"
    /\ UNCHANGED <<version, event, modified, watching, read, consumers, ends, missed>>

\* The kubelet restarts a control plane that has ended, with or without an
\* error: it reads the certificates before it watches them.
Restart ==
    /\ event' = FALSE /\ modified' = FALSE /\ watching' = FALSE
    /\ pc' = "read" /\ read' = [ca |-> NoVersion, cert |-> NoVersion, key |-> NoVersion]
    /\ authz' = NoTLS /\ control' = NoTLS /\ xdsSecrets' = NoTLS
    /\ clients' = NoClients /\ adding' = NoAdd
    /\ missed' = FALSE /\ overtaken' = {}
    /\ UNCHANGED <<version, ends>>

(***************************************************************************)
(* The controller of peers calls these, one at a time.                     *)
(***************************************************************************)
AddPeer(p) ==
    /\ adding = NoAdd
    /\ adding' = [peer |-> p, tls |-> authz, late |-> FALSE]
    /\ UNCHANGED <<version, event, modified, watching, pc, read, authz, control, xdsSecrets, clients,
                   overtaken, ends, missed>>

StorePeer ==
    /\ adding # NoAdd
    /\ clients' = [clients EXCEPT ![adding.peer] = adding.tls]
    /\ overtaken' = (overtaken \ {adding.peer}) \cup {p \in {adding.peer} : adding.late}
    /\ adding' = NoAdd
    /\ UNCHANGED <<version, event, modified, watching, pc, read, authz, control, xdsSecrets, ends, missed>>

DeletePeer(p) ==
    /\ clients[p] # NoTLS /\ adding = NoAdd
    /\ clients' = [clients EXCEPT ![p] = NoTLS]
    /\ overtaken' = overtaken \ {p}
    /\ UNCHANGED <<version, event, modified, watching, pc, read, authz, control, xdsSecrets, adding, ends,
                   missed>>

-----------------------------------------------------------------------------
Uses(v) == \A tls \in {authz, control, xdsSecrets} : tls = [ca |-> v, cert |-> v]

\* A certificate is given to the consumers only with the key it belongs to, and
\* to control and xDS only after authorization has accepted it.
\* "Re-initialize peer clients": the clients of peers that authorization keeps
\* use the same certificates, as SetPeerCertificates replaces those that exist
\* and AddPeer builds new ones from what it has set; but not when it was set
\* between the two halves of AddPeer.
ConsumersAgree ==
    /\ pc \in {"control", "certificate", "validation", "select"} =>
        authz.cert = read.key /\ authz.cert \notin Broken \cup Nameless
    /\ xdsSecrets.cert <= control.cert /\ control.cert <= authz.cert
    /\ \A p \in Peers \ overtaken : clients[p] \in {NoTLS, authz}
=============================================================================
