---------------------------- MODULE MCPeerCommands ----------------------------
(* Instances of PeerCommands for TLC. *)
EXTENDS PeerCommands

CONSTANTS i1, i2, n1, n2

Both == [i \in Instances |-> n1]
Apart == [i \in Instances |-> IF i = i1 THEN n1 ELSE n2]

Around(users, homes, ingress, kinds, commands, progress) ==
    [users |-> users, ns |-> homes, ingress |-> ingress, faults |-> kinds,
     commands |-> commands, progress |-> progress]

MCSetups ==
    { Around(Instances, Both, "none", Fault \ {"stall", "late"}, 0, {}),
      Around(Instances, Apart, "none", {"error", "trigger", "move"}, 0, {}),
      Around(Instances, Both, "LoadBalancer", {"restart"}, 0, {n1}),
      Around({i1}, Both, "LoadBalancer", Fault, 0, {n1}),
      Around({i1}, Both, "NodePort", {"restart"}, 0, {n1}),
      Around({}, Both, "none", {"cut", "skip"}, 3, {}),
      Around({i2}, Apart, "none", {"cut"}, 2, {}) }
===============================================================================
