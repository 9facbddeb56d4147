--------------------------- MODULE MC_Allocators ----------------------------
(* The allocators, one at a time.  "frames": page frames of a zone of 8; the *)
(* sizes are one page, one above it, two that need rounding up, and one too  *)
(* large.  "chunks": chunks from two small pages.                            *)
EXTENDS BuddyAllocator, SlobAllocator

VARIABLE part

ASSUME ExactFit \/ SlobConstants

AllocatorsInit == part \in {"frames", "chunks"} /\ Init /\ SlobInit

AllocatorsNext ==
  /\ UNCHANGED part
  /\ \/ part = "frames" /\ Next /\ UNCHANGED slob_vars
     \/ part = "chunks" /\ SlobNext /\ UNCHANGED vars

AllocatorsSpec == AllocatorsInit /\ [][AllocatorsNext]_<<part, vars, slob_vars>>
=============================================================================
