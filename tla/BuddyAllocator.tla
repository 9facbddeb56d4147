--------------------------- MODULE BuddyAllocator ---------------------------
(***************************************************************************)
(* The page frame allocator of a zone (mm/BuddyAllocator.cc), one step per *)
(* call of allocate() or deallocate(): both run with IRQs masked under the *)
(* kernel mutex.  A pointer to a page frame, and to its BlockHeader, is    *)
(* the index of the frame; a free list is the sequence of its blocks.      *)
(***************************************************************************)
EXTENDS Lib

CONSTANTS
  MAX_ORDER,   \* orders 0 .. MAX_ORDER - 1; the zone has pow2[MAX_ORDER - 1] frames
  PAGE_SIZE,
  Sizes        \* bound: the sizes, in bytes, that callers ask for

ASSUME BuddyAssumption ==
  /\ MAX_ORDER \in Nat \ {0}
  /\ \E k \in 0..PAGE_SIZE : PAGE_SIZE = pow2[k]
  /\ PAGE_SIZE \in Nat /\ PAGE_SIZE \in Sizes /\ Sizes \subseteq Nat

VARIABLES
  zone,   \* [frame_array, free_lists, order]: the allocator's fields
  live,   \* the blocks callers hold: pairs <<first frame, order>>
  ret     \* what the last call returned: <<size, first frame or nullptr>>

Orders == 0..(MAX_ORDER - 1)
FrameIndices == 0..(pow2[MAX_ORDER - 1] - 1)
ALLOCATED == -1
DONT_ALLOCATE == -2
NULL == -1

size_to_order(size) == log2(size \div PAGE_SIZE)

\* The index with bit `order' flipped.
buddy_index(b, o) == IF (b \div pow2[o]) % 2 = 0 THEN b + pow2[o] ELSE b - pow2[o]

get_buddy(z, b) == buddy_index(b, z.order[b])

Block(z, b) == b..(b + pow2[z.order[b]] - 1)

mark_block_as_allocated(z, b) ==
  [z EXCEPT !.frame_array =
     [i \in FrameIndices |-> IF i \in Block(z, b) THEN ALLOCATED ELSE @[i]]]

mark_block_as_allocatable(z, b) ==
  [z EXCEPT !.frame_array =
     [i \in FrameIndices |-> IF i = b THEN z.order[b]
                             ELSE IF i \in Block(z, b) THEN DONT_ALLOCATE ELSE @[i]]]

free_list_del_entry(z, b) ==
  [z EXCEPT !.free_lists[z.order[b]] = remove(@, b)]

free_list_add_head(z, b) ==
  LET list == z.free_lists[z.order[b]] IN
  IF list # <<>> /\ Head(list) = b THEN z
  ELSE [z EXCEPT !.free_lists[z.order[b]] = <<b>> \o @]

\* Halve block b once: the upper half becomes a free block of its own.
halve(z, b) ==
  LET lower == [z EXCEPT !.order[b] = @ - 1]
      buddy == get_buddy(lower, b)
      upper == [lower EXCEPT !.order[buddy] = lower.order[b]]
  IN  free_list_add_head(mark_block_as_allocatable(upper, buddy), buddy)

split_block(z, b, target) ==
  LET after[k \in 0..(z.order[b] - target)] == IF k = 0 THEN z ELSE halve(after[k - 1], b)
  IN  IF z.order[b] > target THEN after[z.order[b] - target] ELSE z

\* One round of deallocate()'s loop on <<zone, block>>; no change once the
\* buddy is in use or split, or the block is the whole zone.
merge_never(zb) == zb

merge(zb) ==
  LET z == zb[1]  b == zb[2]  buddy == get_buddy(z, b) IN
  IF \/ z.order[b] >= MAX_ORDER - 1
     \/ z.frame_array[buddy] = ALLOCATED
     \/ z.order[b] # z.order[buddy]
  THEN zb
  ELSE LET lower == IF b > buddy THEN buddy ELSE b
       IN  <<[free_list_del_entry(z, buddy) EXCEPT !.order[lower] = @ + 1], lower>>

-----------------------------------------------------------------------------
Init ==
  /\ zone = [frame_array |-> [i \in FrameIndices |-> IF i = 0 THEN MAX_ORDER - 1
                                                     ELSE DONT_ALLOCATE],
             free_lists  |-> [o \in Orders |-> IF o = MAX_ORDER - 1 THEN <<0>> ELSE <<>>],
             order       |-> [i \in FrameIndices |-> IF i = 0 THEN MAX_ORDER - 1 ELSE 0]]
  /\ live = {} /\ ret = <<0, NULL>>

\* The block allocate(size) takes: an exact fit, or the head of the first
\* list of larger blocks; NULL when it fails.
victim(size) ==
  LET o == size_to_order(round_up_to_pow_of_2(size))
      lists == {k \in Orders : k >= o /\ zone.free_lists[k] # <<>>}
  IN  IF lists = {} THEN NULL
      ELSE Head(zone.free_lists[CHOOSE k \in lists : \A j \in lists : k <= j])

\* The zone after block b has been cut down to `target' and handed out.
take_without_marking(b, target) == split_block(free_list_del_entry(zone, b), b, target)

take(b, target) ==
  mark_block_as_allocated(split_block(free_list_del_entry(zone, b), b, target), b)

allocate(size) ==
  LET b == victim(size)
      o == size_to_order(round_up_to_pow_of_2(size))
  IN
  /\ ret' = <<size, b>>
  /\ IF b = NULL
     THEN UNCHANGED <<zone, live>>
     ELSE zone' = take(b, o) /\ live' = live \cup {<<b, o>>}

\* The zone after the block at b has been given back.
give_back(b) ==
  LET merged[k \in 0..MAX_ORDER] == IF k = 0 THEN <<zone, b>> ELSE merge(merged[k - 1])
      result == merged[MAX_ORDER]
  IN  mark_block_as_allocatable(free_list_add_head(result[1], result[2]), result[2])

\* deallocate() of a block its caller holds (AddressSanitizer stops any other).
deallocate(r) ==
  /\ zone' = give_back(r[1])
  /\ live' = live \ {r}
  /\ ret' = <<0, NULL>>

Next ==
  \/ \E size \in Sizes : allocate(size)
  \/ \E r \in live : deallocate(r)

vars == <<zone, live, ret>>

Spec == Init /\ [][Next]_vars

-----------------------------------------------------------------------------
(* Properties.                                                             *)

Zones == [frame_array : [FrameIndices -> -2..(MAX_ORDER - 1)],
          free_lists  : [Orders -> Seq(FrameIndices)],
          order       : [FrameIndices -> Orders]]

\* The arrays of the zone, the blocks held and the last result.
TypeOK ==
  /\ zone \in Zones
  /\ live \subseteq (FrameIndices \X Orders)
  /\ ret \in (Nat \X (FrameIndices \cup {NULL}))

\* A block is a pair <<first frame, order>>.
Run(r) == r[1]..(r[1] + pow2[r[2]] - 1)
FreeBlocks(z) == {r \in FrameIndices \X Orders : r[1] \in Range(z.free_lists[r[2]])}

\* _frame_array, the headers and the free lists of zone z tell the same story:
\* the free blocks, the ones callers hold and the loose ones (those that split_block()
\* or deallocate() has in hand) are aligned and tile the zone; a free block is in the
\* list of its order, once; the header of a block has its order; the frames of free
\* and held blocks are marked as such.
Partitioned(z, held, loose) ==
  LET blocks == FreeBlocks(z) \cup held \cup loose IN
  /\ \A o \in Orders : IsInjective(z.free_lists[o])
  /\ FreeBlocks(z) \cap (held \cup loose) = {} /\ held \cap loose = {}
  /\ \A r \in blocks : z.order[r[1]] = r[2] /\ r[1] % pow2[r[2]] = 0
  /\ \A r, s \in blocks : r # s => Run(r) \cap Run(s) = {}
  /\ \A i \in FrameIndices : \E r \in blocks : i \in Run(r)
  /\ \A r \in held : \A i \in Run(r) : z.frame_array[i] = ALLOCATED
  /\ \A r \in FreeBlocks(z) : \A i \in Run(r) :
       z.frame_array[i] = IF i = r[1] THEN r[2] ELSE DONT_ALLOCATE

FramesPartitioned == Partitioned(zone, live, {})

\* Between two calls the frame array, the headers and the free lists agree, and
\* a caller's block keeps the order that deallocate() will read from its header.
FramesAgree == TypeOK /\ FramesPartitioned

\* Two buddies of the same order are never both free.
Merged(z) ==
  \A r \in FreeBlocks(z) :
    r[2] < MAX_ORDER - 1 => <<buddy_index(r[1], r[2]), r[2]>> \notin FreeBlocks(z)

\* deallocate() merges as far as it can, so the zone is not more fragmented than
\* its callers make it.
BuddiesMerged == Merged(zone)

\* allocate() and deallocate() keep the promises of a page frame allocator:
\* aligned, large enough, held by one caller, refused only when nothing fits.
Promise == INSTANCE PageFrames
FramesImplemented == Promise!Spec

=============================================================================
