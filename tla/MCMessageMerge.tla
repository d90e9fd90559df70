--------------------------- MODULE MCMessageMerge ---------------------------
(* Instances of MessageMerge for TLC: one process without console calls. *)
EXTENDS MessageMerge
=============================================================================
