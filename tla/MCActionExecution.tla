-------------------------- MODULE MCActionExecution --------------------------
(* Instances of ActionExecution for TLC: every action targets one resource. *)
EXTENDS ActionExecution, TLC

OneResource == [a \in Actions |-> "r"]

Symmetry == Permutations(Executors)
=============================================================================
