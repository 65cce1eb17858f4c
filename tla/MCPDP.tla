--------------------------------- MODULE MCPDP ---------------------------------
(* The PDP for model checking: policies of the same kind are alike. *)
EXTENDS PDP, TLC

Symmetry == Permutations(Ids) \cup Permutations(Namespaces)
===============================================================================
