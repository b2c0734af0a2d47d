------------------------------ MODULE MC_FileIO ------------------------------
(* Model-checking instance of FileIO: two files, three data clusters of   *)
(* two bytes, files of up to two clusters, and u32 scaled to 8.           *)
EXTENDS FileIO
MC_FileIdx     == {1, 2}
MC_ReadCounts  == {1, 2}
MC_WriteCounts == {1, 2}
MC_SeekOffsets == {7}            \* -1 modulo WordSize
MC_OneFile     == {1}
MC_WrapReadCounts == {1, 2, 7}   \* 7 = WordSize - 1: a count that wraps
(* The ghost `logical`, the persisted `disk` and the flag `ub` are only  *)
(* written, never read, by the actions, so states that differ in them     *)
(* alone have the same futures; runs whose properties do not mention      *)
(* them identify such states.                                             *)
DataView == <<fat, fst, nand, handles, cache>>
=============================================================================
