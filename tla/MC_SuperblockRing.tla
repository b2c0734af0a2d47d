-------------------------- MODULE MC_SuperblockRing --------------------------
(* Model-checking instance of SuperblockRing: three replicas of two       *)
(* clusters, versions modulo 4 so that the version wraps within a few     *)
(* flushes, and two values for a cluster's slice of the superblock.       *)
EXTENDS SuperblockRing

CONSTANTS v1, v2

MC_Vals      == {v1, v2}
MC_FormatVal == [c \in 0 .. 1 |-> v1]
=============================================================================
