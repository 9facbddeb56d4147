------------------------------ MODULE MC_FAT32 ------------------------------
(* A disk of a few clusters with four entries each.                        *)
EXTENDS FAT32

(* No definition tells one handle, or one value, from another.             *)
Interchangeable == Permutations(Handles) \cup Permutations(Values)
=============================================================================
