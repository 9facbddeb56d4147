-------------------------------- MODULE Lib ---------------------------------
(***************************************************************************)
(* The functions of the kernel's library which several components use: the *)
(* integer functions of lib/Math.cc, and the removal of an element from a  *)
(* list of include/lib/List.h (module List models the list itself).        *)
(***************************************************************************)
EXTENDS Integers, Sequences, Functions

\* pow(2, k), one multiplication per round of its loop.
pow2[k \in Nat] == IF k = 0 THEN 1 ELSE 2 * pow2[k - 1]

\* log2(): the highest set bit, and 0 for 0.
log2(x) == CHOOSE e \in 0..x : pow2[e] <= (IF x = 0 THEN 1 ELSE x) /\ x < pow2[e + 1]

round_up_never(x) == x

round_up_to_pow_of_2(x) ==
  pow2[CHOOSE e \in 0..x : pow2[e] >= x /\ (e = 0 \/ pow2[e - 1] < x)]

\* erase(k - 1): list_del_entry() of the k-th node.
erase(list, k) == SubSeq(list, 1, k - 1) \o SubSeq(list, k + 1, Len(list))

\* remove(val): the first node that holds it, if there is one.
remove(list, val) ==
  IF val \notin Range(list) THEN list
  ELSE erase(list, CHOOSE k \in DOMAIN list :
                     list[k] = val /\ \A j \in 1..(k - 1) : list[j] # val)
=============================================================================
