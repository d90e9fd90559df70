---------------------------- MODULE MCReplyTurns ----------------------------
(* Instances of ReplyTurns for TLC. *)
EXTENDS ReplyTurns, TLC

\* Messages, workers and recovery scans are interchangeable.
Symmetry == Permutations(Messages) \cup Permutations(Workers) \cup Permutations(Recoverers)
=============================================================================
