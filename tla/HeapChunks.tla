----------------------------- MODULE HeapChunks -----------------------------
(***************************************************************************)
(* What an allocator of small objects promises to kmalloc() and kfree():   *)
(* an object lies inside the heap, is aligned, is as large as was asked    *)
(* for, and overlaps no other object until it is freed.                    *)
(***************************************************************************)
EXTENDS Integers

CONSTANTS HeapSize, Alignment, Sizes

VARIABLE held   \* the objects callers hold: pairs <<first byte, size asked for>>

Objects ==
  {h \in {Alignment * k : k \in 0..(HeapSize \div Alignment)} \X Sizes : h[1] + h[2] <= HeapSize}

Disjoint(g, h) == g[1] + g[2] <= h[1] \/ h[1] + h[2] <= g[1]

Init == held = {}

Allocate(h) ==
  /\ held' = held \cup {h}
  /\ \A g \in held : Disjoint(g, h)

Free(h) == held' = held \ {h}

Next ==
  \/ \E h \in Objects : Allocate(h)
  \/ \E h \in held : Free(h)

Spec == Init /\ [][Next]_held
=============================================================================
