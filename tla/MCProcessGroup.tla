---------------------------- MODULE MCProcessGroup ----------------------------
(* ProcessGroup for TLC: two pids, and room for at most three descriptors. *)
EXTENDS ProcessGroup, TLC

CONSTANTS p, q, d1, d2, d3

(* Descriptors are interchangeable.                                        *)
Blocks == Permutations({d1, d2, d3} \cap Desc)
=============================================================================
