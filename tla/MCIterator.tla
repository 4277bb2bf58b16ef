----------------------------- MODULE MCIterator -----------------------------
(* Names of processes for instances of Iterator.                           *)
EXTENDS Iterator

CONSTANTS t, a, b, s, init
=============================================================================
