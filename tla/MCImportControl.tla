---------------------------- MODULE MCImportControl ----------------------------
(* Instances of ImportControl for TLC. *)
EXTENDS ImportControl

CONSTANTS a, b

Around(names, ops, maxOps, maxRestarts, workers, fresh) ==
    [names |-> names, ops |-> ops, maxOps |-> maxOps, maxRestarts |-> maxRestarts,
     workers |-> workers, fresh |-> fresh]

MCEnvironments ==
    { Around({a, b}, {"create", "delete"}, 3, 0, {"import"}, TRUE),
      Around({a}, {"create", "delete", "service"}, 2, 0, Workers, FALSE),
      Around({a}, {"create", "merge", "service"}, 2, 0, Workers, TRUE),
      Around({b}, {"create", "delete", "merge", "dataplane"}, 3, 0, {"import"}, TRUE),
      Around({a, b}, {"service", "export"}, 4, 1, Workers, FALSE),
      Around({a}, {"create"}, 1, 1, Workers, FALSE),
      Around({a}, {"create", "edit"}, 2, 0, Workers, FALSE) }
===============================================================================
