--------------------------- MODULE MC_AddressSpaces --------------------------
(* Small instances of AddressSpaces.                                       *)
EXTENDS AddressSpaces, TLC

(* get_free_page may return any free frame, fork may take any free slot,   *)
(* and no value is special.                                                *)
Interchangeable ==
    Permutations(Frames) \cup Permutations(Values) \cup Permutations(Tasks \ {init})
==============================================================================
