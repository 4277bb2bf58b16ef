---------------------------- MODULE MCProcessTable ----------------------------
(* Three processes, two of which share a bucket, and the nodes they need.   *)
EXTENDS ProcessTable

MCPids == {1, 2, 3}
MCNodes == 1001 .. 1006
=============================================================================
