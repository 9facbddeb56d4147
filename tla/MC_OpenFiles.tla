---------------------------- MODULE MC_OpenFiles ----------------------------
(* Two tasks, a TmpFS file, a FAT32 file and a name without a directory.   *)
EXTENDS OpenFiles, TLC

(* No definition tells one task from another.                              *)
Interchangeable == Permutations(Tasks)
=============================================================================
