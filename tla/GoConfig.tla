------------------------------- MODULE GoConfig -------------------------------
(***************************************************************************)
(* The map of clusters and the TLS configuration of the Go data plane      *)
(* (pkg/dataplane/server/dataplane.go), and how its fetchers change them:  *)
(* handleClusters and handleSecrets (pkg/dataplane/client/fetcher.go).     *)
(* Connections use both at any time, so every change is a step of its own. *)
(***************************************************************************)
EXTENDS Naturals

CONSTANTS Clusters, Absent

Secrets == {"certificate", "validation"}
Unset == 0

VARIABLES clusters,     \* Dataplane.clusters
          tlsConfig,    \* the certificate, and the CA that peers are validated with
          response,     \* what the fetchers have fetched last
          left          \* what they have still to add of it

vars == <<clusters, tlsConfig, response, left>>

NoClusters == [c \in Clusters |-> Absent]
NoSecrets == [s \in Secrets |-> Unset]
Empty == [cluster |-> NoClusters, secret |-> NoSecrets]

(* NewDataplane *)
Init == clusters = NoClusters /\ tlsConfig = NoSecrets /\ response = Empty /\ left = {}

(* The data plane's process ends and is started again. *)
Restart == clusters' = NoClusters /\ tlsConfig' = NoSecrets /\ response' = Empty /\ left' = {}

(* Mutant of FetchClusters: the response brings what is new. *)
FetchNewClusters(served) ==
    /\ response' = [response EXCEPT !.cluster =
          [c \in Clusters |-> IF served[c] = clusters[c] THEN Absent ELSE served[c]]]
    /\ left' = left \cup {c \in Clusters : served[c] \notin {Absent, clusters[c]}}
    /\ UNCHANGED <<clusters, tlsConfig>>

(* A response has all clusters there are. *)
FetchClusters(served) ==
    /\ response' = [response EXCEPT !.cluster = served]
    /\ left' = left \cup {c \in Clusters : served[c] # Absent}
    /\ UNCHANGED <<clusters, tlsConfig>>

AddCluster(c) ==
    /\ c \in left
    /\ clusters' = [clusters EXCEPT ![c] = response.cluster[c]]
    /\ left' = left \ {c}
    /\ UNCHANGED <<tlsConfig, response>>

(* Mutant of Surplus: clusters are only added. *)
NoSurplus == {}

Surplus == {c \in Clusters : clusters[c] # Absent /\ response.cluster[c] = Absent}

RemoveCluster(c) ==
    /\ left \cap Clusters = {} /\ c \in Surplus
    /\ clusters' = [clusters EXCEPT ![c] = Absent]
    /\ UNCHANGED <<tlsConfig, response, left>>

ClustersHandled == left \cap Clusters = {} /\ Surplus = {} /\ UNCHANGED vars

(* Both secrets are fetched, whichever has changed. *)
FetchSecrets(served) ==
    /\ response' = [response EXCEPT !.secret = served]
    /\ left' = left \cup Secrets
    /\ UNCHANGED <<clusters, tlsConfig>>

(* AddSecret: addCertificateSecret or addValidationSecret *)
AddSecret(s) ==
    /\ s \in left
    /\ tlsConfig' = [tlsConfig EXCEPT ![s] = response.secret[s]]
    /\ left' = left \ {s}
    /\ UNCHANGED <<clusters, response>>

SecretsHandled == left \cap Secrets = {} /\ UNCHANGED vars
===============================================================================
