------------------------- MODULE Allocators_proofs --------------------------
(***************************************************************************)
(* The buddy allocator keeps its books (FramesAgree), merges completely    *)
(* (BuddiesMerged) and implements PageFrames.  The argument follows the    *)
(* blocks: the free blocks, the ones callers hold and the ones a call has  *)
(* in hand tile the zone at every point of allocate() and deallocate();    *)
(* every helper moves a block from one of the three groups to another, or  *)
(* reshapes the ones in hand.  On top of it, kfree() and the tracker of    *)
(* live pointers: a double free is stopped before it reaches the           *)
(* allocator.                                                              *)
(***************************************************************************)
EXTENDS MemoryManager, FiniteSetTheorems, Lemmas

-----------------------------------------------------------------------------
(* Blocks and buddies.                                                     *)

\* The frames of a block are a non-empty interval that starts with its first
\* frame.
LEMMA Frame ==
  ASSUME NEW r \in FrameIndices \X Orders
  PROVE  /\ r[1] \in Nat /\ r[2] \in Nat /\ pow2[r[2]] \in Nat \ {0}
         /\ r = <<r[1], r[2]>> /\ r[1] \in Run(r)
         /\ \A i : i \in Run(r) <=> i \in Int /\ r[1] <= i /\ i < r[1] + pow2[r[2]]
<1>1. r[1] \in Nat /\ r[2] \in Nat /\ r = <<r[1], r[2]>>
  BY Pow2, BuddyAssumption DEF FrameIndices, Orders
<1>2. pow2[r[2]] \in Nat \ {0}
  BY <1>1, Pow2
<1> QED BY <1>1, <1>2 DEF Run

\* Of two aligned blocks that share a frame, the smaller lies in the larger.
LEMMA Nested ==
  ASSUME NEW r \in FrameIndices \X Orders, NEW s \in FrameIndices \X Orders,
         r[1] % pow2[r[2]] = 0, s[1] % pow2[s[2]] = 0, r[2] <= s[2],
         NEW i \in Run(r), i \in Run(s)
  PROVE  Run(r) \subseteq Run(s) /\ s[1] <= r[1]
<1> DEFINE d == pow2[r[2]]
<1>1. PICK m \in Nat \ {0} : pow2[s[2]] = m * d
  BY Frame, Pow2Divides
<1>2. PICK x \in Nat : r[1] = x * d
  BY Frame, Multiple, Zenon
<1>3. PICK y \in Nat : s[1] = y * pow2[s[2]]
  BY Frame, Multiple, Zenon
<1>4. d \in Nat \ {0}
  BY Frame
<1> HIDE DEF d
<1>5. s[1] = (y * m) * d /\ s[1] + pow2[s[2]] = (y * m + m) * d /\ r[1] + d = (x + 1) * d
  BY <1>1, <1>2, <1>3, <1>4
<1>6. y * m \in Nat /\ y * m + m \in Nat /\ x + 1 \in Nat
  OBVIOUS
<1>7. s[1] <= i /\ i < s[1] + pow2[s[2]] /\ r[1] <= i /\ i < r[1] + d /\ i \in Int
  BY Frame DEF d
<1>8. r[1] + d <= s[1] + pow2[s[2]]
  <2>1. x * d < (y * m + m) * d
    BY <1>2, <1>4, <1>5, <1>6, <1>7
  <2> QED BY <2>1, <1>4, <1>5, <1>6, Gap
<1>9. s[1] <= r[1]
  <2>1. (y * m) * d < (x + 1) * d
    BY <1>2, <1>4, <1>5, <1>6, <1>7
  <2>2. (y * m) + 1 <= x + 1
    BY <2>1, <1>4, <1>6, Gap
  <2>3. PICK k \in Nat : x = (y * m) + k
    <3>1. x - (y * m) \in Nat /\ x = (y * m) + (x - (y * m))
      BY <2>2, <1>6
    <3> QED BY <3>1
  <2>4. x * d = (y * m) * d + k * d /\ k * d \in Nat /\ (y * m) * d \in Nat
    BY <2>3, <1>4, <1>6
  <2> QED BY <2>4, <1>2, <1>5
<1> QED BY <1>8, <1>9, Frame DEF d

\* An aligned block that starts in the zone ends in the zone.
LEMMA ZoneEnd ==
  ASSUME NEW r \in FrameIndices \X Orders, r[1] % pow2[r[2]] = 0
  PROVE  Run(r) \subseteq FrameIndices
<1> DEFINE top == <<0, MAX_ORDER - 1>>
<1>1. top \in FrameIndices \X Orders /\ top[1] = 0 /\ top[2] = MAX_ORDER - 1
      /\ MAX_ORDER - 1 \in Nat /\ pow2[MAX_ORDER - 1] \in Nat \ {0}
  BY BuddyAssumption, Pow2 DEF FrameIndices, Orders
<1>2. Run(top) = FrameIndices
  BY <1>1 DEF Run, FrameIndices
<1>3. top[1] % pow2[top[2]] = 0 /\ r[2] <= top[2]
  BY <1>1 DEF Orders
<1>4. r[1] \in Run(r) /\ r[1] \in Run(top)
  BY <1>2, Frame
<1> HIDE DEF top
<1> QED BY <1>1, <1>2, <1>3, <1>4, Nested

\* What get_buddy() computes: the buddy of an aligned block is a block of the
\* zone, the two are disjoint, their union is the aligned block of the next
\* order that starts at the lower one, and each is the buddy of the other.
LEMMA BuddyFacts ==
  ASSUME NEW b \in FrameIndices, NEW o \in Orders, b % pow2[o] = 0, o < MAX_ORDER - 1
  PROVE  LET c == buddy_index(b, o)  lower == IF b > c THEN c ELSE b IN
         /\ c \in FrameIndices /\ c % pow2[o] = 0 /\ c # b
         /\ lower \in FrameIndices /\ lower % pow2[o + 1] = 0 /\ o + 1 \in Orders
         /\ Run(<<lower, o + 1>>) = Run(<<b, o>>) \cup Run(<<c, o>>)
         /\ Run(<<b, o>>) \cap Run(<<c, o>>) = {}
         /\ buddy_index(c, o) = b
<1> DEFINE d == pow2[o]  c == buddy_index(b, o)  lower == IF b > c THEN c ELSE b
<1>1. b \in Nat /\ o \in Nat /\ o + 1 \in Orders /\ d \in Nat \ {0} /\ pow2[o + 1] = 2 * d
      /\ pow2[o + 1] \in Nat \ {0}
  BY Pow2, BuddyAssumption DEF FrameIndices, Orders
<1>2. PICK x \in Nat : b = x * d
  BY <1>1, Multiple, Zenon
<1>3. b \div d = x
  BY <1>1, <1>2, Multiple
<1>4. PICK y \in Nat : x = 2 * y \/ x = 2 * y + 1
  <2>1. x \div 2 \in Nat /\ (x = 2 * (x \div 2) \/ x = 2 * (x \div 2) + 1)
    OBVIOUS
  <2> QED BY <2>1
<1>5. /\ lower \in Nat /\ lower = y * (2 * d) /\ c \in Nat
      /\ (b = lower /\ c = lower + d) \/ (c = lower /\ b = lower + d)
      /\ c # b /\ c % d = 0 /\ buddy_index(c, o) = b
  <2>1. CASE x = 2 * y
    <3>1. x % 2 = 0 /\ (x + 1) % 2 = 1
      BY <2>1
    <3>2. c = b + d
      BY <1>3, <3>1 DEF buddy_index
    <3>3. c = (x + 1) * d /\ x + 1 \in Nat /\ c \in Nat
      BY <3>2, <1>1, <1>2
    <3>4. c % d = 0 /\ c \div d = x + 1
      BY <3>3, <1>1, Multiple
    <3>5. b = y * (2 * d)
      BY <2>1, <1>2, <1>1
    <3>6. buddy_index(c, o) = c - d
      BY <3>1, <3>4 DEF buddy_index
    <3>7. lower = b /\ c # b /\ c - d = b
      BY <3>2, <1>1
    <3> HIDE DEF c, d, lower
    <3>8. lower \in Nat /\ b = lower /\ c = lower + d
      BY <3>2, <3>7, <1>1
    <3>9. lower = y * (2 * d)
      BY <3>5, <3>7, Zenon
    <3>10. buddy_index(c, o) = b
      BY <3>6, <3>7, Zenon
    <3> QED BY <3>3, <3>4, <3>7, <3>8, <3>9, <3>10, Zenon
  <2>2. CASE x = 2 * y + 1
    <3>1. x % 2 = 1 /\ (2 * y) % 2 = 0
      BY <2>2
    <3>2. c = b - d
      BY <1>3, <3>1 DEF buddy_index
    <3>3. c = (2 * y) * d /\ 2 * y \in Nat /\ c \in Nat
      BY <3>2, <1>1, <1>2, <2>2
    <3>4. c % d = 0 /\ c \div d = 2 * y
      <4>1. PICK q \in Nat : q = 2 * y
        BY <3>3
      <4>2. c \in Nat /\ c = q * d
        BY <3>3, <4>1
      <4> HIDE DEF c, d
      <4>3. c % d = 0 /\ c \div d = q
        BY <1>1, <4>2, Multiple
      <4> QED BY <4>1, <4>3
    <3>5. c = y * (2 * d)
      BY <3>3, <1>1
    <3>6. buddy_index(c, o) = c + d
      BY <3>1, <3>4 DEF buddy_index
    <3>7. lower = c
      BY <3>2, <1>1
    <3> HIDE DEF c, d, lower
    <3> QED BY <3>2, <3>3, <3>4, <3>5, <3>6, <3>7, <1>1
  <2> QED BY <2>1, <2>2, <1>4
<1> HIDE DEF c, lower, d
<1>6. lower % pow2[o + 1] = 0
  BY <1>1, <1>5, Multiple, Zenon
<1>7. /\ lower \in Nat /\ c \in Nat /\ d \in Nat \ {0} /\ b \in Nat
      /\ (b = lower /\ c = lower + d) \/ (c = lower /\ b = lower + d)
  BY <1>1, <1>5
<1>8. lower \in FrameIndices
  <2>1. lower <= b
    BY <1>7
  <2>2. pow2[MAX_ORDER - 1] \in Nat
    BY Pow2, BuddyAssumption
  <2> QED BY <1>7, <2>1, <2>2 DEF FrameIndices
<1>9. Run(<<lower, o + 1>>) \subseteq FrameIndices
  BY <1>1, <1>6, <1>8, ZoneEnd
<1>10. Run(<<lower, o + 1>>) = lower..(lower + 2 * d - 1)
  BY <1>1 DEF Run
<1>11. c \in FrameIndices
  BY <1>7, <1>9, <1>10
<1>12. Run(<<b, o>>) = b..(b + d - 1) /\ Run(<<c, o>>) = c..(c + d - 1)
  BY DEF Run, d
<1>13. /\ Run(<<lower, o + 1>>) = Run(<<b, o>>) \cup Run(<<c, o>>)
       /\ Run(<<b, o>>) \cap Run(<<c, o>>) = {}
  <2>1. CASE b = lower /\ c = lower + d
    BY <2>1, <1>7, <1>10, <1>12
  <2>2. CASE c = lower /\ b = lower + d
    BY <2>2, <1>7, <1>10, <1>12
  <2> QED BY <2>1, <2>2, <1>7
<1> QED BY <1>1, <1>5, <1>6, <1>8, <1>11, <1>13 DEF c, lower, d

\* Pairs <<first frame, order>>.
Blocks == FrameIndices \X Orders

\* The ranges of frames and orders.
LEMMA Constants ==
  /\ MAX_ORDER \in Nat \ {0} /\ MAX_ORDER - 1 \in Orders /\ Orders \subseteq Nat /\ 0 \in Orders
  /\ pow2[MAX_ORDER - 1] \in Nat \ {0} /\ FrameIndices \subseteq Nat /\ 0 \in FrameIndices
BY BuddyAssumption, Pow2 DEF Orders, FrameIndices

-----------------------------------------------------------------------------
(* The free lists and the frame array.                                     *)

\* Zone z is well formed when callers hold the blocks `held' and the allocator
\* has the blocks `loose' in hand.
Sound(z, held, loose) ==
  z \in Zones /\ held \in SUBSET Blocks /\ loose \in SUBSET Blocks /\ Partitioned(z, held, loose)

\* No block is twice in a free list.
ListsInjective(z) == \A o \in Orders : IsInjective(z.free_lists[o])

\* Membership in FreeBlocks, list by list.
LEMMA FreeBlock ==
  ASSUME NEW z
  PROVE  /\ FreeBlocks(z) \subseteq Blocks
         /\ \A b \in FrameIndices, o \in Orders :
              <<b, o>> \in FreeBlocks(z) <=> b \in Range(z.free_lists[o])
BY DEF FreeBlocks, Blocks

\* free_list_del_entry() takes just that block off its list.
LEMMA DelEntry ==
  ASSUME NEW z \in Zones, ListsInjective(z), NEW b \in FrameIndices,
         <<b, z.order[b]>> \in FreeBlocks(z)
  PROVE  LET y == free_list_del_entry(z, b) IN
         /\ y \in Zones /\ ListsInjective(y)
         /\ y.order = z.order /\ y.frame_array = z.frame_array
         /\ FreeBlocks(y) = FreeBlocks(z) \ {<<b, z.order[b]>>}
<1> DEFINE o == z.order[b]  list == remove(z.free_lists[o], b)
           y == free_list_del_entry(z, b)
<1>1. o \in Orders /\ b \in Range(z.free_lists[o])
  BY FreeBlock DEF Zones
<1>2. /\ list \in Seq(FrameIndices) /\ IsInjective(list)
      /\ Range(list) = Range(z.free_lists[o]) \ {b}
  <2>1. z.free_lists[o] \in Seq(FrameIndices) /\ IsInjective(z.free_lists[o])
    BY <1>1 DEF Zones, ListsInjective
  <2> QED BY <1>1, <2>1, Removed, Zenon
<1> HIDE DEF list
<1>3. y = [z EXCEPT !.free_lists = [@ EXCEPT ![o] = list]]
  BY DEF free_list_del_entry, list, Zones
<1> HIDE DEF y, o
<1>4. /\ y \in Zones /\ y.order = z.order /\ y.frame_array = z.frame_array
      /\ y.free_lists = [z.free_lists EXCEPT ![o] = list]
  BY <1>1, <1>2, <1>3, Zenon DEF Zones
<1>5. \A p \in Orders : y.free_lists[p] = IF p = o THEN list ELSE z.free_lists[p]
  BY <1>4, <1>1 DEF Zones
<1>6. ListsInjective(y)
  BY <1>2, <1>5 DEF ListsInjective
<1>7. FreeBlocks(y) = FreeBlocks(z) \ {<<b, o>>}
  BY <1>2, <1>5 DEF FreeBlocks
<1> QED BY <1>4, <1>6, <1>7 DEF y, o

\* free_list_add_head() puts just that block on the list of its order.
LEMMA AddHead ==
  ASSUME NEW z \in Zones, ListsInjective(z), NEW b \in FrameIndices,
         <<b, z.order[b]>> \notin FreeBlocks(z)
  PROVE  LET y == free_list_add_head(z, b) IN
         /\ y \in Zones /\ ListsInjective(y)
         /\ y.order = z.order /\ y.frame_array = z.frame_array
         /\ FreeBlocks(y) = FreeBlocks(z) \cup {<<b, z.order[b]>>}
<1> DEFINE o == z.order[b]  list == <<b>> \o z.free_lists[o]
           y == free_list_add_head(z, b)
<1>1. o \in Orders
  BY DEF Zones
<1>2. b \notin Range(z.free_lists[o])
  BY <1>1, FreeBlock
<1>3. z.free_lists[o] \in Seq(FrameIndices) /\ IsInjective(z.free_lists[o])
  BY <1>1 DEF Zones, ListsInjective
<1>4. /\ list \in Seq(FrameIndices) /\ IsInjective(list)
      /\ Range(list) = Range(z.free_lists[o]) \cup {b}
  BY <1>2, <1>3, PushFront, Zenon
<1>5. ~ (z.free_lists[o] # <<>> /\ Head(z.free_lists[o]) = b)
  <2>1. ASSUME z.free_lists[o] # <<>> PROVE Head(z.free_lists[o]) \in Range(z.free_lists[o])
    BY <2>1, <1>3 DEF Range
  <2> QED BY <2>1, <1>2
<1> HIDE DEF list
<1>6. y = [z EXCEPT !.free_lists = [@ EXCEPT ![o] = list]]
  BY <1>5 DEF free_list_add_head, list, Zones
<1> HIDE DEF y, o
<1>7. /\ y \in Zones /\ y.order = z.order /\ y.frame_array = z.frame_array
      /\ y.free_lists = [z.free_lists EXCEPT ![o] = list]
  BY <1>1, <1>4, <1>6, Zenon DEF Zones
<1>8. \A p \in Orders : y.free_lists[p] = IF p = o THEN list ELSE z.free_lists[p]
  BY <1>7, <1>1 DEF Zones
<1>9. ListsInjective(y)
  BY <1>4, <1>8 DEF ListsInjective
<1>10. FreeBlocks(y) = FreeBlocks(z) \cup {<<b, o>>}
  BY <1>1, <1>4, <1>8 DEF FreeBlocks
<1> QED BY <1>7, <1>9, <1>10 DEF y, o

\* mark_block_as_allocatable() and mark_block_as_allocated() write the entries
\* of the block and no other.
LEMMA MarkBlock ==
  ASSUME NEW z \in Zones, NEW b \in FrameIndices
  PROVE  LET y == mark_block_as_allocatable(z, b)
             x == mark_block_as_allocated(z, b)
             run == Run(<<b, z.order[b]>>)
         IN
         /\ y \in Zones /\ y.order = z.order /\ y.free_lists = z.free_lists
         /\ FreeBlocks(y) = FreeBlocks(z)
         /\ \A i \in FrameIndices :
              y.frame_array[i] = IF i = b THEN z.order[b]
                                 ELSE IF i \in run THEN DONT_ALLOCATE ELSE z.frame_array[i]
         /\ x \in Zones /\ x.order = z.order /\ x.free_lists = z.free_lists
         /\ FreeBlocks(x) = FreeBlocks(z)
         /\ \A i \in FrameIndices :
              x.frame_array[i] = IF i \in run THEN ALLOCATED ELSE z.frame_array[i]
<1> DEFINE run == Run(<<b, z.order[b]>>)
           fy == [i \in FrameIndices |-> IF i = b THEN z.order[b]
                    ELSE IF i \in run THEN DONT_ALLOCATE ELSE z.frame_array[i]]
           fx == [i \in FrameIndices |-> IF i \in run THEN ALLOCATED ELSE z.frame_array[i]]
           y == mark_block_as_allocatable(z, b)
           x == mark_block_as_allocated(z, b)
<1>1. Block(z, b) = run
  BY DEF Block, Run
<1>2. y = [z EXCEPT !.frame_array = fy] /\ x = [z EXCEPT !.frame_array = fx]
  BY <1>1 DEF mark_block_as_allocatable, mark_block_as_allocated, Zones
<1>3. fy \in [FrameIndices -> -2..(MAX_ORDER - 1)] /\ fx \in [FrameIndices -> -2..(MAX_ORDER - 1)]
  <2> HIDE DEF run
  <2>1. z.order[b] \in -2..(MAX_ORDER - 1) /\ DONT_ALLOCATE \in -2..(MAX_ORDER - 1)
        /\ ALLOCATED \in -2..(MAX_ORDER - 1)
    BY Constants DEF Zones, Orders, DONT_ALLOCATE, ALLOCATED
  <2> QED BY <2>1 DEF Zones
<1> HIDE DEF fy, fx, y, x, run
<1>4. y \in Zones /\ y.order = z.order /\ y.free_lists = z.free_lists /\ y.frame_array = fy
  BY <1>2, <1>3, Zenon DEF Zones
<1>5. x \in Zones /\ x.order = z.order /\ x.free_lists = z.free_lists /\ x.frame_array = fx
  BY <1>2, <1>3, Zenon DEF Zones
<1> QED BY <1>4, <1>5 DEF fy, fx, x, y, run, FreeBlocks

\* Two blocks of a well-formed zone that share a frame are the same block.
LEMMA Apart ==
  ASSUME NEW z, NEW held, NEW loose, Sound(z, held, loose),
         NEW r \in FreeBlocks(z) \cup held \cup loose,
         NEW s \in FreeBlocks(z) \cup held \cup loose
  PROVE  /\ r \in Blocks /\ r[1] \in FrameIndices /\ r[2] \in Orders /\ r = <<r[1], r[2]>>
         /\ z.order[r[1]] = r[2] /\ r[1] % pow2[r[2]] = 0
         /\ r[1] \in Run(r) /\ Run(r) \subseteq FrameIndices
         /\ \A i : i \in Run(r) /\ i \in Run(s) => r = s
<1>1. r \in Blocks
  BY FreeBlock DEF Sound
<1>2. z.order[r[1]] = r[2] /\ r[1] % pow2[r[2]] = 0 /\ (r # s => Run(r) \cap Run(s) = {})
  BY DEF Sound, Partitioned
<1>3. r[1] \in Run(r) /\ r = <<r[1], r[2]>>
  BY <1>1, Frame DEF Blocks
<1>4. Run(r) \subseteq FrameIndices
  BY <1>1, <1>2, ZoneEnd DEF Blocks
<1> QED BY <1>1, <1>2, <1>3, <1>4 DEF Blocks

\* Taking a free block off its list leaves it in hand.
LEMMA TakeFree ==
  ASSUME NEW z, NEW held, NEW loose, Sound(z, held, loose), NEW r \in FreeBlocks(z)
  PROVE  LET y == free_list_del_entry(z, r[1]) IN
         /\ Sound(y, held, loose \cup {r}) /\ FreeBlocks(y) = FreeBlocks(z) \ {r}
         /\ y.order = z.order /\ y.frame_array = z.frame_array
<1> DEFINE y == free_list_del_entry(z, r[1])
<1>1. /\ r \in Blocks /\ r[1] \in FrameIndices /\ z.order[r[1]] = r[2] /\ r = <<r[1], r[2]>>
  BY Apart
<1>2. z \in Zones /\ ListsInjective(z)
  BY DEF Sound, Partitioned, ListsInjective
<1>3. /\ y \in Zones /\ ListsInjective(y)
      /\ y.order = z.order /\ y.frame_array = z.frame_array
      /\ FreeBlocks(y) = FreeBlocks(z) \ {r}
  BY <1>1, <1>2, DelEntry
<1> HIDE DEF y
<1>4. Sound(y, held, loose \cup {r})
  <2>1. FreeBlocks(y) \cup held \cup (loose \cup {r}) = FreeBlocks(z) \cup held \cup loose
    BY <1>3
  <2>2. FreeBlocks(y) \cap (held \cup (loose \cup {r})) = {} /\ held \cap (loose \cup {r}) = {}
    BY <1>3 DEF Sound, Partitioned
  <2>3. \A s \in FreeBlocks(y) : \A i \in Run(s) :
          y.frame_array[i] = IF i = s[1] THEN s[2] ELSE DONT_ALLOCATE
    BY <1>3 DEF Sound, Partitioned
  <2> QED BY <1>1, <1>3, <2>1, <2>2, <2>3 DEF Sound, Partitioned, ListsInjective
<1> QED BY <1>3, <1>4 DEF y

\* A block in hand that is put on its list and marked allocatable is free.
LEMMA MakeFree ==
  ASSUME NEW z, NEW held, NEW loose, Sound(z, held, loose), NEW r \in loose,
         NEW y \in Zones, ListsInjective(y), y.order = z.order,
         FreeBlocks(y) = FreeBlocks(z) \cup {r},
         \A i \in FrameIndices :
           y.frame_array[i] = IF i = r[1] THEN r[2]
                              ELSE IF i \in Run(r) THEN DONT_ALLOCATE ELSE z.frame_array[i]
  PROVE  Sound(y, held, loose \ {r})
<1>1. FreeBlocks(y) \cup held \cup (loose \ {r}) = FreeBlocks(z) \cup held \cup loose
  OBVIOUS
<1>2. FreeBlocks(y) \cap (held \cup (loose \ {r})) = {} /\ held \cap (loose \ {r}) = {}
  BY DEF Sound, Partitioned
<1>3. ASSUME NEW s \in held, NEW i \in Run(s) PROVE y.frame_array[i] = ALLOCATED
  <2>1. r # s
    BY DEF Sound, Partitioned
  <2>2. i \in FrameIndices /\ i \notin Run(r) /\ i # r[1]
    BY <2>1, Apart
  <2>3. z.frame_array[i] = ALLOCATED
    BY DEF Sound, Partitioned
  <2> QED BY <2>2, <2>3
<1>4. ASSUME NEW s \in FreeBlocks(y), NEW i \in Run(s)
      PROVE  y.frame_array[i] = IF i = s[1] THEN s[2] ELSE DONT_ALLOCATE
  <2>1. CASE s = r
    <3>1. i \in FrameIndices
      BY <2>1, Apart
    <3> QED BY <2>1, <3>1
  <2>2. CASE s # r
    <3>1. i \in FrameIndices /\ i \notin Run(r) /\ i # r[1]
      BY <2>2, Apart
    <3>2. z.frame_array[i] = IF i = s[1] THEN s[2] ELSE DONT_ALLOCATE
      BY <2>2 DEF Sound, Partitioned
    <3> QED BY <3>1, <3>2
  <2> QED BY <2>1, <2>2
<1> QED BY <1>1, <1>2, <1>3, <1>4 DEF Sound, Partitioned, ListsInjective

\* A block in hand that is marked allocated is a caller's.
LEMMA HandOut ==
  ASSUME NEW z, NEW held, NEW loose, Sound(z, held, loose), NEW r \in loose
  PROVE  LET y == mark_block_as_allocated(z, r[1]) IN
         Sound(y, held \cup {r}, loose \ {r}) /\ FreeBlocks(y) = FreeBlocks(z)
<1> DEFINE y == mark_block_as_allocated(z, r[1])
<1>1. r \in Blocks /\ r[1] \in FrameIndices /\ z.order[r[1]] = r[2] /\ r = <<r[1], r[2]>>
  BY Apart
<1>2. z \in Zones
  BY DEF Sound
<1>3. /\ y \in Zones /\ y.order = z.order /\ y.free_lists = z.free_lists
      /\ FreeBlocks(y) = FreeBlocks(z)
      /\ \A i \in FrameIndices :
           y.frame_array[i] = IF i \in Run(r) THEN ALLOCATED ELSE z.frame_array[i]
  BY <1>1, <1>2, MarkBlock
<1> HIDE DEF y
<1>4. FreeBlocks(y) \cup (held \cup {r}) \cup (loose \ {r}) = FreeBlocks(z) \cup held \cup loose
  BY <1>3
<1>5. FreeBlocks(y) \cap ((held \cup {r}) \cup (loose \ {r})) = {}
      /\ (held \cup {r}) \cap (loose \ {r}) = {}
  BY <1>3 DEF Sound, Partitioned
<1>6. ASSUME NEW s \in held \cup {r}, NEW i \in Run(s) PROVE y.frame_array[i] = ALLOCATED
  <2>1. i \in FrameIndices
    BY Apart
  <2>2. s = r \/ z.frame_array[i] = ALLOCATED
    BY DEF Sound, Partitioned
  <2> QED BY <1>3, <2>1, <2>2
<1>7. ASSUME NEW s \in FreeBlocks(y), NEW i \in Run(s)
      PROVE  y.frame_array[i] = IF i = s[1] THEN s[2] ELSE DONT_ALLOCATE
  <2>1. s # r
    BY <1>3 DEF Sound, Partitioned
  <2>2. i \in FrameIndices /\ i \notin Run(r)
    BY <1>3, <2>1, Apart
  <2>3. z.frame_array[i] = IF i = s[1] THEN s[2] ELSE DONT_ALLOCATE
    BY <1>3 DEF Sound, Partitioned
  <2> QED BY <1>3, <2>2, <2>3
<1>8. Sound(y, held \cup {r}, loose \ {r})
  BY <1>1, <1>3, <1>4, <1>5, <1>6, <1>7 DEF Sound, Partitioned
<1> QED BY <1>3, <1>8 DEF y

\* A caller's block may be taken in hand.
LEMMA Release ==
  ASSUME NEW z, NEW held, NEW loose, Sound(z, held, loose), NEW r \in held
  PROVE  Sound(z, held \ {r}, loose \cup {r})
<1>1. FreeBlocks(z) \cup (held \ {r}) \cup (loose \cup {r}) = FreeBlocks(z) \cup held \cup loose
  OBVIOUS
<1>2. /\ FreeBlocks(z) \cap ((held \ {r}) \cup (loose \cup {r})) = {}
      /\ (held \ {r}) \cap (loose \cup {r}) = {}
  BY DEF Sound, Partitioned
<1> QED BY <1>1, <1>2 DEF Sound, Partitioned

\* The blocks `new' cover the frames of the blocks `old', and zone y has
\* headers for them; nothing else differs from zone z.
Reshaped(z, old, y, new) ==
  /\ y \in Zones /\ y.frame_array = z.frame_array /\ y.free_lists = z.free_lists
  /\ new \in SUBSET Blocks
  /\ \A r \in new : y.order[r[1]] = r[2] /\ r[1] % pow2[r[2]] = 0
  /\ \A r, s \in new : r # s => Run(r) \cap Run(s) = {}
  /\ \A i : (\E r \in new : i \in Run(r)) <=> (\E r \in old : i \in Run(r))
  /\ \A i \in FrameIndices : y.order[i] # z.order[i] => \E r \in old : i \in Run(r)

\* Cutting blocks in hand, or joining them, keeps the zone well formed.
LEMMA Reshape ==
  ASSUME NEW z, NEW held, NEW old, Sound(z, held, old), NEW y, NEW new, Reshaped(z, old, y, new)
  PROVE  Sound(y, held, new) /\ FreeBlocks(y) = FreeBlocks(z)
<1> USE DEF Reshaped
<1>1. FreeBlocks(y) = FreeBlocks(z)
  BY DEF FreeBlocks
<1>2. ASSUME NEW r \in new, NEW s \in FreeBlocks(z) \cup held
      PROVE  Run(r) \cap Run(s) = {} /\ r # s
  <2>1. ASSUME NEW i \in Run(r), i \in Run(s) PROVE FALSE
    <3>1. PICK t \in old : i \in Run(t)
      BY <2>1
    <3>2. t # s
      BY DEF Sound, Partitioned
    <3> QED BY <2>1, <3>1, <3>2, Apart
  <2>2. r[1] \in Run(r)
    BY Frame DEF Blocks
  <2> QED BY <2>1, <2>2
<1>3. ASSUME NEW s \in FreeBlocks(z) \cup held
      PROVE  y.order[s[1]] = s[2] /\ s[1] % pow2[s[2]] = 0
  <2>1. s[1] \in Run(s) /\ s[1] \in FrameIndices /\ z.order[s[1]] = s[2] /\ s[1] % pow2[s[2]] = 0
    BY Apart
  <2>2. \A t \in old : s[1] \notin Run(t)
    BY <2>1, Apart DEF Sound, Partitioned
  <2> QED BY <2>1, <2>2
<1>4. ASSUME NEW i \in FrameIndices
      PROVE  \E r \in FreeBlocks(z) \cup held \cup new : i \in Run(r)
  <2>1. PICK r \in FreeBlocks(z) \cup held \cup old : i \in Run(r)
    BY DEF Sound, Partitioned
  <2> QED BY <2>1
<1>5. ASSUME NEW r \in FreeBlocks(z) \cup held \cup new, NEW s \in FreeBlocks(z) \cup held \cup new,
             r # s
      PROVE  Run(r) \cap Run(s) = {}
  <2>1. CASE r \in new /\ s \in new
    BY <1>5, <2>1
  <2>2. CASE r \in new /\ s \notin new
    BY <1>2, <2>2
  <2>3. CASE r \notin new /\ s \in new
    BY <1>2, <2>3
  <2>4. CASE r \notin new /\ s \notin new
    BY <1>5, <2>4 DEF Sound, Partitioned
  <2> QED BY <2>1, <2>2, <2>3, <2>4
<1>6. FreeBlocks(z) \cap (held \cup new) = {} /\ held \cap new = {}
  BY <1>2 DEF Sound, Partitioned
<1>7. Sound(y, held, new)
  BY <1>1, <1>3, <1>4, <1>5, <1>6 DEF Sound, Partitioned
<1> QED BY <1>1, <1>7

\* A free block whose buddy is not free leaves no two buddies free.
LEMMA StillMerged ==
  ASSUME NEW z, NEW held, NEW loose, Sound(z, held, loose), Merged(z), NEW r \in loose,
         r[2] < MAX_ORDER - 1 => <<buddy_index(r[1], r[2]), r[2]>> \notin FreeBlocks(z),
         NEW y, FreeBlocks(y) = FreeBlocks(z) \cup {r}
  PROVE  Merged(y)
<1> SUFFICES ASSUME NEW s \in FreeBlocks(y), s[2] < MAX_ORDER - 1,
                    <<buddy_index(s[1], s[2]), s[2]>> \in FreeBlocks(y)
             PROVE  FALSE
  BY DEF Merged
<1> DEFINE t == <<buddy_index(s[1], s[2]), s[2]>>
<1>1. /\ s[1] \in FrameIndices /\ s[2] \in Orders /\ s[1] % pow2[s[2]] = 0 /\ s = <<s[1], s[2]>>
      /\ r = <<r[1], r[2]>>
  BY Apart
<1>2. buddy_index(s[1], s[2]) # s[1] /\ buddy_index(buddy_index(s[1], s[2]), s[2]) = s[1]
  BY <1>1, BuddyFacts, Zenon
<1>3. t # s
  BY <1>1, <1>2
<1>4. CASE s = r
  BY <1>3, <1>4
<1>5. CASE t = r
  <2>1. r[2] = s[2] /\ r[1] = buddy_index(s[1], s[2])
    BY <1>5
  <2> QED BY <1>1, <1>2, <1>3, <1>5, <2>1
<1>6. CASE s # r /\ t # r
  BY <1>6 DEF Merged
<1> QED BY <1>4, <1>5, <1>6

-----------------------------------------------------------------------------
(* split_block().                                                          *)

\* One round of split_block(): the upper half becomes free, the lower half
\* stays in hand, and no two buddies are free (the upper half's buddy is in
\* hand).
LEMMA Halve ==
  ASSUME NEW z, NEW held, NEW b, NEW o \in Nat, Sound(z, held, {<<b, o + 1>>}), Merged(z)
  PROVE  Sound(halve(z, b), held, {<<b, o>>}) /\ Merged(halve(z, b))
<1> DEFINE whole == <<b, o + 1>>
           low == [z EXCEPT !.order[b] = @ - 1]
           c == get_buddy(low, b)
           up == [low EXCEPT !.order[c] = low.order[b]]
           marked == mark_block_as_allocatable(up, c)
           y == free_list_add_head(marked, c)
<1>1. /\ b \in FrameIndices /\ o + 1 \in Orders /\ z.order[b] = o + 1 /\ b % pow2[o + 1] = 0
      /\ z \in Zones
  <2>1. whole \in {whole} /\ whole[1] = b /\ whole[2] = o + 1
    OBVIOUS
  <2> QED BY <2>1, Apart DEF Sound
<1>2. o \in Orders /\ o < MAX_ORDER - 1
  BY <1>1, Constants DEF Orders
<1>3. low \in Zones /\ low.order = [z.order EXCEPT ![b] = o]
      /\ low.frame_array = z.frame_array /\ low.free_lists = z.free_lists /\ low.order[b] = o
  <2>1. z.order[b] - 1 = o
    BY <1>1
  <2>2. low = [z EXCEPT !.order = [z.order EXCEPT ![b] = o]]
    BY <1>1, <2>1, Zenon DEF Zones
  <2> QED BY <1>1, <1>2, <2>2, Zenon DEF Zones
<1>4. c = buddy_index(b, o)
  BY <1>3 DEF get_buddy
<1>5. b % pow2[o] = 0 /\ (b \div pow2[o]) % 2 = 0
  <2>1. pow2[o] \in Nat \ {0} /\ pow2[o + 1] = 2 * pow2[o] /\ b \in Nat /\ pow2[o + 1] \in Nat \ {0}
    BY <1>1, <1>2, Pow2, Constants
  <2>2. PICK x \in Nat : b = x * pow2[o + 1]
    BY <1>1, <2>1, Multiple, Zenon
  <2>3. PICK q \in Nat : q = 2 * x
    OBVIOUS
  <2>4. b = q * pow2[o]
    BY <2>1, <2>2, <2>3
  <2>5. b % pow2[o] = 0 /\ b \div pow2[o] = q
    BY <2>1, <2>4, Multiple, Zenon
  <2> QED BY <2>3, <2>5
<1>6. b + pow2[o] = c /\ ~ (b > c)
  <2>1. pow2[o] \in Nat \ {0} /\ b \in Nat
    BY <1>1, <1>2, Pow2, Constants
  <2> QED BY <1>4, <1>5, <2>1 DEF buddy_index
<1>7. /\ c \in FrameIndices /\ c % pow2[o] = 0 /\ c # b
      /\ Run(<<b, o + 1>>) = Run(<<b, o>>) \cup Run(<<c, o>>)
      /\ Run(<<b, o>>) \cap Run(<<c, o>>) = {}
      /\ buddy_index(c, o) = b
  <2> HIDE DEF c
  <2> QED BY <1>1, <1>2, <1>4, <1>5, <1>6, BuddyFacts
<1> HIDE DEF c, low
<1>8. /\ up \in Zones /\ up.frame_array = z.frame_array /\ up.free_lists = z.free_lists
      /\ up.order = [[z.order EXCEPT ![b] = o] EXCEPT ![c] = o]
  BY <1>2, <1>3, <1>7, Zenon DEF Zones
<1>9. up.order[b] = o /\ up.order[c] = o
      /\ \A i \in FrameIndices : i # b /\ i # c => up.order[i] = z.order[i]
  BY <1>1, <1>7, <1>8 DEF Zones
<1> HIDE DEF up
<1> DEFINE new == {<<b, o>>, <<c, o>>}
<1>10. Sound(up, held, new) /\ FreeBlocks(up) = FreeBlocks(z)
  <2>1. new \in SUBSET Blocks
    BY <1>1, <1>2, <1>7 DEF Blocks
  <2>2. \A r \in new : up.order[r[1]] = r[2] /\ r[1] % pow2[r[2]] = 0
    BY <1>5, <1>7, <1>9
  <2>3. \A r, s \in new : r # s => Run(r) \cap Run(s) = {}
    BY <1>7
  <2>4. \A i : (\E r \in new : i \in Run(r)) <=> (\E r \in {whole} : i \in Run(r))
    BY <1>7
  <2>5. \A i \in FrameIndices : up.order[i] # z.order[i] => \E r \in {whole} : i \in Run(r)
    <3>1. b \in Run(<<b, o>>) /\ c \in Run(<<c, o>>)
      BY <2>1, Frame DEF Blocks
    <3> QED BY <1>7, <1>9, <3>1
  <2>6. Reshaped(z, {whole}, up, new)
    BY <1>8, <2>1, <2>2, <2>3, <2>4, <2>5, Zenon DEF Reshaped
  <2> HIDE DEF new
  <2> QED BY <2>6, Reshape
<1>11. <<c, o>> \in new /\ <<b, o>> \in new
  OBVIOUS
<1>12. <<c, o>> \notin FreeBlocks(up) /\ <<b, o>> \notin FreeBlocks(up) /\ ListsInjective(up)
  BY <1>10, <1>11 DEF Sound, Partitioned, ListsInjective
<1>13. /\ marked \in Zones /\ marked.order = up.order /\ marked.free_lists = up.free_lists
       /\ FreeBlocks(marked) = FreeBlocks(up)
       /\ \A i \in FrameIndices :
            marked.frame_array[i] = IF i = c THEN o
                ELSE IF i \in Run(<<c, o>>) THEN DONT_ALLOCATE ELSE up.frame_array[i]
  BY <1>7, <1>8, <1>9, MarkBlock
<1> HIDE DEF marked
<1>14. ListsInjective(marked)
  BY <1>12, <1>13 DEF ListsInjective
<1>15. /\ y \in Zones /\ ListsInjective(y) /\ y.order = marked.order
       /\ y.frame_array = marked.frame_array
       /\ FreeBlocks(y) = FreeBlocks(up) \cup {<<c, o>>}
  BY <1>7, <1>9, <1>12, <1>13, <1>14, AddHead
<1> HIDE DEF y
<1>16. Sound(y, held, new \ {<<c, o>>})
  <2> DEFINE r == <<c, o>>
  <2>1. r[1] = c /\ r[2] = o /\ r \in new
    OBVIOUS
  <2>2. \A i \in FrameIndices :
           y.frame_array[i] = IF i = r[1] THEN r[2]
                              ELSE IF i \in Run(r) THEN DONT_ALLOCATE ELSE up.frame_array[i]
    BY <1>13, <1>15
  <2>3. y.order = up.order /\ FreeBlocks(y) = FreeBlocks(up) \cup {r}
    BY <1>13, <1>15
  <2> HIDE DEF r, new
  <2>4. Sound(y, held, new \ {r})
    BY <1>10, <1>15, <2>1, <2>2, <2>3, MakeFree
  <2> QED BY <2>4 DEF r
<1>17. new \ {<<c, o>>} = {<<b, o>>}
  BY <1>7
<1>18. Merged(y)
  <2> DEFINE r == <<c, o>>
  <2>1. r[1] = c /\ r[2] = o /\ r \in new
    OBVIOUS
  <2>2. <<buddy_index(r[1], r[2]), r[2]>> \notin FreeBlocks(up)
    BY <1>7, <1>12
  <2>3. Merged(up)
    BY <1>10 DEF Merged
  <2>4. FreeBlocks(y) = FreeBlocks(up) \cup {r}
    BY <1>15
  <2> HIDE DEF r, new
  <2> QED BY <1>10, <2>1, <2>2, <2>3, <2>4, StillMerged
<1>19. y = halve(z, b)
  BY DEF halve, y, marked, up, c, low
<1> QED BY <1>16, <1>17, <1>18, <1>19

\* The rounds h[0..n] of split_block(), each computed from the one before.
Halves(h, n, held, b, o) ==
  /\ Sound(h[0], held, {<<b, o>>}) /\ Merged(h[0])
  /\ \A k \in 0..(n - 1) :
       Sound(halve(h[k], b), held, {<<b, o - (k + 1)>>}) => h[k + 1] = halve(h[k], b)

\* Every round of split_block() leaves the zone well formed.
HalvedDown(h, n, held, b, o) ==
  /\ \A k \in 0..n : Sound(h[k], held, {<<b, o - k>>}) /\ Merged(h[k])
  /\ \A k \in 0..(n - 1) : h[k + 1] = halve(h[k], b)

\* split_block() keeps the zone well formed for any number of rounds.
LEMMA Halved ==
  ASSUME NEW held, NEW b, NEW o \in Nat, NEW n \in Nat, n <= o, NEW h, Halves(h, n, held, b, o)
  PROVE  HalvedDown(h, n, held, b, o)
<1> DEFINE S == {k \in Nat : k <= n => Sound(h[k], held, {<<b, o - k>>}) /\ Merged(h[k])}
<1>1. 0 \in S
  <2>1. o - 0 = o
    OBVIOUS
  <2> QED BY <2>1 DEF Halves
<1>2. ASSUME NEW k \in Nat, k + 1 <= n, Sound(h[k], held, {<<b, o - k>>}), Merged(h[k])
      PROVE  /\ Sound(h[k + 1], held, {<<b, o - (k + 1)>>}) /\ Merged(h[k + 1])
             /\ h[k + 1] = halve(h[k], b)
  <2>1. PICK q \in Nat : q = o - (k + 1)
    BY <1>2
  <2>2. o - k = q + 1 /\ k \in 0..(n - 1)
    BY <1>2, <2>1
  <2>3. Sound(halve(h[k], b), held, {<<b, q>>}) /\ Merged(halve(h[k], b))
    BY <1>2, <2>2, Halve
  <2>4. h[k + 1] = halve(h[k], b)
    BY <2>1, <2>2, <2>3 DEF Halves
  <2> QED BY <2>1, <2>3, <2>4
<1>3. ASSUME NEW k \in Nat, k \in S PROVE k + 1 \in S
  BY <1>2, <1>3
<1>4. Nat \subseteq S
  <2> HIDE DEF S
  <2> QED BY <1>1, <1>3, Ind
<1>5. \A k \in 0..n : Sound(h[k], held, {<<b, o - k>>}) /\ Merged(h[k])
  BY <1>4
<1>6. \A k \in 0..(n - 1) : h[k + 1] = halve(h[k], b)
  <2>1. ASSUME NEW k \in 0..(n - 1) PROVE h[k + 1] = halve(h[k], b)
    <3>1. k \in Nat /\ k + 1 <= n /\ k \in 0..n
      OBVIOUS
    <3>2. Sound(h[k], held, {<<b, o - k>>}) /\ Merged(h[k])
      BY <3>1, <1>5, Zenon
    <3> QED BY <3>1, <3>2, <1>2, Zenon
  <2> QED BY <2>1
<1> QED BY <1>5, <1>6 DEF HalvedDown

\* split_block() leaves in hand the block of the order asked for.
LEMMA SplitBlock ==
  ASSUME NEW z, NEW held, NEW b, NEW o, Sound(z, held, {<<b, o>>}), Merged(z),
         NEW target \in Nat, target <= o
  PROVE  LET y == split_block(z, b, target) IN Sound(y, held, {<<b, target>>}) /\ Merged(y)
<1>1. z.order[b] = o /\ o \in Nat /\ z \in Zones
  <2> DEFINE own == <<b, o>>
  <2>1. own \in {own} /\ own[1] = b /\ own[2] = o
    OBVIOUS
  <2> QED BY <2>1, Apart, Constants DEF Sound
<1> DEFINE n == z.order[b] - target
           after[k \in 0..n] == IF k = 0 THEN z ELSE halve(after[k - 1], b)
           g == [y \in Zones |-> IF halve(y, b) \in Zones THEN halve(y, b) ELSE y]
<1>2. split_block(z, b, target) = IF z.order[b] > target THEN after[n] ELSE z
  BY DEF split_block
<1>3. n \in Nat /\ n <= o /\ o - n = target
  BY <1>1
<1>4. g \in [Zones -> Zones]
  OBVIOUS
<1>5. PICK f : Loop(f, n, z, g) /\ \A k \in 0..n : f[k] \in Zones
  <2> HIDE DEF g, n
  <2> QED BY <1>1, <1>3, <1>4, FiniteLoop
<1> DEFINE Eqn(h) == h = [k \in 0..n |-> IF k = 0 THEN z ELSE halve(h[k - 1], b)]
<1>6. Eqn(f)
  <2> HIDE DEF n
  <2>1. f[0] = z /\ f = [k \in 0..n |-> f[k]]
    BY <1>5 DEF Loop
  <2>2. ASSUME NEW k \in 0..(n - 1), Sound(halve(f[k], b), held, {<<b, o - (k + 1)>>})
        PROVE  f[k + 1] = halve(f[k], b)
    <3>1. f[k + 1] = g[f[k]] /\ f[k] \in Zones
      <4>1. k \in 0..n
        BY <1>3
      <4> HIDE DEF g
      <4> QED BY <1>5, <4>1, Zenon DEF Loop
    <3>2. halve(f[k], b) \in Zones
      BY <2>2 DEF Sound
    <3> QED BY <3>1, <3>2
  <2>3. Halves(f, n, held, b, o)
    BY <2>1, <2>2, Zenon DEF Halves
  <2>4. \A k \in 0..(n - 1) : f[k + 1] = halve(f[k], b)
    <3>1. HalvedDown(f, n, held, b, o)
      BY <1>1, <1>3, <2>3, Halved
    <3> QED BY <3>1 DEF HalvedDown
  <2>5. ASSUME NEW k \in 0..n PROVE f[k] = IF k = 0 THEN z ELSE halve(f[k - 1], b)
    <3>1. CASE k # 0
      <4>1. k - 1 \in 0..(n - 1) /\ (k - 1) + 1 = k
        BY <1>3, <3>1
      <4> QED BY <2>4, <3>1, <4>1
    <3> QED BY <2>1, <3>1
  <2> QED BY <2>1, <2>5, Zenon
<1>7. Eqn(after)
  BY <1>6, Zenon DEF after
<1> HIDE DEF after, n
<1>8. after[0] = z /\ \A k \in 0..(n - 1) : after[k + 1] = halve(after[k], b)
  BY <1>3, <1>7
<1>9. Sound(after[n], held, {<<b, o - n>>}) /\ Merged(after[n])
  <2>1. Halves(after, n, held, b, o)
    BY <1>8 DEF Halves
  <2>2. n \in 0..n
    BY <1>3
  <2> QED BY <1>1, <1>3, <2>1, <2>2, Halved, Zenon DEF HalvedDown
<1>10. CASE z.order[b] > target
  BY <1>2, <1>3, <1>9, <1>10, Zenon
<1>11. CASE ~ (z.order[b] > target)
  <2>1. o = target
    BY <1>1, <1>11
  <2> QED BY <1>2, <1>11, <2>1
<1> QED BY <1>10, <1>11

-----------------------------------------------------------------------------
(* The merge loop of deallocate().                                         *)

\* Zone zb[1] is well formed with the block that starts at zb[2] in hand.
InHand(zb, held) == Sound(zb[1], held, {<<zb[2], zb[1].order[zb[2]]>>}) /\ Merged(zb[1])

\* The conditions under which deallocate() leaves its merge loop.
Stops(zb) ==
  LET z == zb[1]  b == zb[2]  buddy == get_buddy(z, b) IN
  \/ z.order[b] >= MAX_ORDER - 1
  \/ z.frame_array[buddy] = ALLOCATED
  \/ z.order[b] # z.order[buddy]

\* A buddy whose first frame is not marked allocated and whose header has the
\* order of the block is a free block: the header deallocate() reads is not a
\* stale one.
LEMMA FreeBuddy ==
  ASSUME NEW z, NEW held, NEW b, NEW o, Sound(z, held, {<<b, o>>}), o < MAX_ORDER - 1,
         z.frame_array[buddy_index(b, o)] # ALLOCATED, z.order[buddy_index(b, o)] = o
  PROVE  <<buddy_index(b, o), o>> \in FreeBlocks(z)
<1> DEFINE c == buddy_index(b, o)  lower == IF b > c THEN c ELSE b  own == <<b, o>>
           pair == <<lower, o + 1>>  other == <<c, o>>
<1>1. b \in FrameIndices /\ o \in Orders /\ b % pow2[o] = 0 /\ o \in Nat /\ b \in Run(own)
  <2>1. own \in {own} /\ own[1] = b /\ own[2] = o
    OBVIOUS
  <2> QED BY <2>1, Apart, Constants
<1>2. /\ c \in FrameIndices /\ c % pow2[o] = 0 /\ c # b
      /\ lower \in FrameIndices /\ lower % pow2[o + 1] = 0 /\ o + 1 \in Orders
      /\ Run(pair) = Run(own) \cup Run(other)
      /\ Run(own) \cap Run(other) = {}
  BY <1>1, BuddyFacts
<1> HIDE DEF c, lower
<1>3. other \in Blocks /\ pair \in Blocks /\ c \in Run(other)
      /\ other[1] = c /\ other[2] = o /\ pair[1] = lower /\ pair[2] = o + 1
  <2>1. other \in Blocks /\ pair \in Blocks
    BY <1>1, <1>2 DEF Blocks
  <2> QED BY <2>1, Frame DEF Blocks
<1>4. PICK s \in FreeBlocks(z) \cup held \cup {own} : c \in Run(s)
  BY <1>2 DEF Sound, Partitioned
<1>5. s \notin held
  BY <1>4 DEF Sound, Partitioned, c
<1>6. s # own
  BY <1>2, <1>3, <1>4
<1>7. s \in FreeBlocks(z)
  BY <1>5, <1>6
<1>8. s \in Blocks /\ s[1] % pow2[s[2]] = 0 /\ s[2] \in Orders /\ s = <<s[1], s[2]>>
      /\ z.order[s[1]] = s[2] /\ s[1] \in FrameIndices
  BY Apart
<1>9. ~ (o + 1 <= s[2])
  <2>1. SUFFICES ASSUME o + 1 <= s[2] PROVE FALSE
    OBVIOUS
  <2>2. c \in Run(pair)
    BY <1>2, <1>3
  <2> HIDE DEF pair
  <2>3. Run(pair) \subseteq Run(s)
    BY <1>2, <1>3, <1>4, <1>8, <2>1, <2>2, Nested DEF Blocks
  <2>4. b \in Run(s)
    BY <1>1, <1>2, <2>3
  <2> QED BY <1>1, <1>6, <2>4, Apart
<1>10. s[2] <= o
  BY <1>1, <1>8, <1>9, Constants
<1>11. other[1] <= s[1]
  <2> HIDE DEF other
  <2> QED BY <1>2, <1>3, <1>4, <1>8, <1>10, Nested DEF Blocks
<1>12. s[1] = c
  <2>1. s[1] <= c /\ s[1] \in Nat /\ c \in Nat
    BY <1>2, <1>4, <1>8, Frame, Constants DEF Blocks
  <2> QED BY <1>11, <2>1, <1>3
<1>13. s = other
  BY <1>8, <1>12 DEF c
<1> QED BY <1>7, <1>13 DEF c

\* One round of the merge loop of deallocate() joins the block in hand with its
\* buddy.
LEMMA MergeStep ==
  ASSUME NEW zb, NEW held, zb = <<zb[1], zb[2]>>, InHand(zb, held), ~ Stops(zb)
  PROVE  LET m == merge(zb) IN
         InHand(m, held) /\ m[1].order[m[2]] = zb[1].order[zb[2]] + 1 /\ m = <<m[1], m[2]>>
<1> DEFINE z == zb[1]  b == zb[2]  o == z.order[b]  c == buddy_index(b, o)
           lower == IF b > c THEN c ELSE b  own == <<b, o>>  other == <<c, o>>
           y == free_list_del_entry(z, c)  x == [y EXCEPT !.order[lower] = @ + 1]
<1>1. Sound(z, held, {own}) /\ Merged(z)
  BY DEF InHand
<1>2. o < MAX_ORDER - 1 /\ z.frame_array[c] # ALLOCATED /\ z.order[c] = o
  <2>1. ~ (o >= MAX_ORDER - 1) /\ z.frame_array[c] # ALLOCATED /\ z.order[c] = o
    BY DEF Stops, get_buddy
  <2>2. o \in Orders
    <3>1. own \in {own} /\ own[1] = b /\ own[2] = o
      OBVIOUS
    <3> HIDE DEF z, o
    <3> QED BY <1>1, <3>1, Apart DEF Sound
  <2>3. o \in Int
    BY <2>2, Constants
  <2> QED BY <2>1, <2>3, Constants
<1>3. merge(zb) = <<x, lower>>
  BY Zenon DEF merge, Stops, get_buddy
<1> HIDE DEF z, x, y
<1>4. other \in FreeBlocks(z)
  BY <1>1, <1>2, FreeBuddy
<1>5. b \in FrameIndices /\ o \in Orders /\ b % pow2[o] = 0 /\ z \in Zones /\ o \in Nat
  <2>1. own \in {own} /\ own[1] = b /\ own[2] = o
    OBVIOUS
  <2> QED BY <1>1, <2>1, Apart, Constants DEF Sound
<1>6. /\ c \in FrameIndices /\ c % pow2[o] = 0 /\ c # b
      /\ lower \in FrameIndices /\ lower % pow2[o + 1] = 0 /\ o + 1 \in Orders
      /\ Run(<<lower, o + 1>>) = Run(own) \cup Run(other)
  BY <1>2, <1>5, BuddyFacts, Zenon
<1>7. lower = b \/ lower = c
  OBVIOUS
<1> HIDE DEF c, lower, o
<1>8. /\ Sound(y, held, {own} \cup {other}) /\ FreeBlocks(y) = FreeBlocks(z) \ {other}
      /\ y.order = z.order /\ y.frame_array = z.frame_array
  <2>1. other[1] = c
    OBVIOUS
  <2> HIDE DEF other, own
  <2> QED BY <1>1, <1>4, <2>1, TakeFree, Zenon DEF y
<1>9. y \in Zones /\ y.order[lower] = o
  BY <1>2, <1>7, <1>8 DEF Sound, o
<1>10. x = [y EXCEPT !.order = [y.order EXCEPT ![lower] = o + 1]]
  BY <1>9 DEF x, Zones
<1>11. /\ x \in Zones /\ x.frame_array = y.frame_array /\ x.free_lists = y.free_lists
       /\ x.order = [y.order EXCEPT ![lower] = o + 1]
  BY <1>6, <1>9, <1>10, Zenon DEF Zones
<1>12. x.order[lower] = o + 1 /\ \A i \in FrameIndices : i # lower => x.order[i] = y.order[i]
  BY <1>6, <1>9, <1>11 DEF Zones
<1> DEFINE pair == <<lower, o + 1>>  old == {own} \cup {other}
<1>13. Reshaped(y, old, x, {pair})
  <2>1. {pair} \in SUBSET Blocks
    BY <1>6 DEF Blocks
  <2>2. \A r \in {pair} : x.order[r[1]] = r[2] /\ r[1] % pow2[r[2]] = 0
    BY <1>6, <1>12
  <2>3. \A r, s \in {pair} : r # s => Run(r) \cap Run(s) = {}
    OBVIOUS
  <2>4. \A i : (\E r \in {pair} : i \in Run(r)) <=> (\E r \in old : i \in Run(r))
    BY <1>6
  <2>5. \A i \in FrameIndices : x.order[i] # y.order[i] => \E r \in old : i \in Run(r)
    <3>1. lower \in Run(pair)
      BY <2>1, Frame DEF Blocks
    <3> QED BY <1>12, <2>4, <3>1
  <2> HIDE DEF pair, old
  <2> QED BY <1>11, <2>1, <2>2, <2>3, <2>4, <2>5, Zenon DEF Reshaped
<1>14. Sound(x, held, {pair}) /\ FreeBlocks(x) = FreeBlocks(y)
  <2> HIDE DEF pair
  <2>1. Sound(y, held, old)
    BY <1>8
  <2> HIDE DEF old
  <2> QED BY <1>13, <2>1, Reshape
<1>15. Merged(x)
  BY <1>1, <1>8, <1>14 DEF Merged
<1> DEFINE m == <<x, lower>>
<1>16. InHand(m, held)
  BY <1>12, <1>14, <1>15 DEF InHand
<1> QED BY <1>3, <1>12, <1>16 DEF o, z

\* InHand for a pair <<zone, first frame>>.
InHandPair(zb, held) == zb = <<zb[1], zb[2]>> /\ InHand(zb, held)

\* The rounds h[0..n] of the merge loop, each computed from the one before.
Merges(h, n, held) ==
  /\ InHandPair(h[0], held)
  /\ \A k \in 0..(n - 1) : InHandPair(merge(h[k]), held) => h[k + 1] = merge(h[k])

\* Every round of the merge loop leaves the zone well formed; a loop that has
\* not stopped after k rounds has a block of order k or more.
MergedUp(h, n, held) ==
  /\ \A k \in 0..n : InHandPair(h[k], held) /\ (Stops(h[k]) \/ h[k][1].order[h[k][2]] >= k)
  /\ \A k \in 0..(n - 1) : h[k + 1] = merge(h[k])

\* The types of a block in hand.
LEMMA HandType ==
  ASSUME NEW zb, NEW held, InHandPair(zb, held)
  PROVE  /\ zb \in Zones \X FrameIndices /\ zb[1].order[zb[2]] \in Orders
         /\ zb[1].order[zb[2]] \in Nat
<1> DEFINE own == <<zb[2], zb[1].order[zb[2]]>>
<1>1. own \in {own} /\ own[1] = zb[2] /\ own[2] = zb[1].order[zb[2]]
  OBVIOUS
<1>2. Sound(zb[1], held, {own})
  BY DEF InHandPair, InHand
<1> HIDE DEF own
<1>3. zb[2] \in FrameIndices /\ zb[1].order[zb[2]] \in Orders
  BY <1>1, <1>2, Apart
<1> QED BY <1>2, <1>3, Constants DEF InHandPair, Sound

\* A round of the merge loop, whether or not it has stopped.
LEMMA MergeOnce ==
  ASSUME NEW zb, NEW held, InHandPair(zb, held)
  PROVE  /\ InHandPair(merge(zb), held)
         /\ IF Stops(zb) THEN merge(zb) = zb
            ELSE merge(zb)[1].order[merge(zb)[2]] = zb[1].order[zb[2]] + 1
<1>1. CASE Stops(zb)
  <2>1. merge(zb) = zb
    BY <1>1 DEF merge, Stops
  <2> QED BY <1>1, <2>1
<1>2. CASE ~ Stops(zb)
  <2> DEFINE m == merge(zb)
  <2>1. InHand(m, held) /\ m[1].order[m[2]] = zb[1].order[zb[2]] + 1 /\ m = <<m[1], m[2]>>
    BY <1>2, MergeStep DEF InHandPair
  <2> QED BY <1>2, <2>1 DEF InHandPair
<1> QED BY <1>1, <1>2

\* The merge loop keeps the zone well formed for any number of rounds.
LEMMA MergeLoop ==
  ASSUME NEW held, NEW n \in Nat, NEW h, Merges(h, n, held)
  PROVE  MergedUp(h, n, held)
<1> DEFINE S == {k \in Nat : k <= n => /\ InHandPair(h[k], held)
                                       /\ Stops(h[k]) \/ h[k][1].order[h[k][2]] >= k}
<1>1. 0 \in S
  <2>1. InHandPair(h[0], held)
    BY DEF Merges
  <2>2. h[0][1].order[h[0][2]] \in Nat
    BY <2>1, HandType
  <2> QED BY <2>1, <2>2
<1>2. ASSUME NEW k \in 0..(n - 1), InHandPair(h[k], held)
      PROVE  h[k + 1] = merge(h[k]) /\ InHandPair(h[k + 1], held)
  <2>1. InHandPair(merge(h[k]), held)
    BY <1>2, MergeOnce
  <2> QED BY <2>1 DEF Merges
<1>3. ASSUME NEW k \in Nat, k \in S PROVE k + 1 \in S
  <2>1. SUFFICES ASSUME k + 1 <= n
                 PROVE  /\ InHandPair(h[k + 1], held)
                        /\ Stops(h[k + 1]) \/ h[k + 1][1].order[h[k + 1][2]] >= k + 1
    OBVIOUS
  <2>2. k \in 0..(n - 1) /\ k <= n
    BY <2>1
  <2>3. InHandPair(h[k], held) /\ (Stops(h[k]) \/ h[k][1].order[h[k][2]] >= k)
    BY <1>3, <2>2
  <2>4. h[k + 1] = merge(h[k]) /\ InHandPair(h[k + 1], held)
    BY <1>2, <2>2, <2>3
  <2>5. CASE Stops(h[k])
    <3>1. h[k + 1] = h[k]
      BY <2>3, <2>4, <2>5, MergeOnce
    <3> QED BY <2>4, <2>5, <3>1
  <2>6. CASE ~ Stops(h[k])
    <3>1. h[k + 1][1].order[h[k + 1][2]] = h[k][1].order[h[k][2]] + 1
      BY <2>3, <2>4, <2>6, MergeOnce
    <3>2. h[k][1].order[h[k][2]] \in Nat
      BY <2>3, HandType
    <3> QED BY <2>3, <2>4, <2>6, <3>1, <3>2
  <2> QED BY <2>5, <2>6
<1>4. Nat \subseteq S
  <2> HIDE DEF S
  <2> QED BY <1>1, <1>3, Ind
<1>5. ASSUME NEW k \in 0..n
      PROVE  InHandPair(h[k], held) /\ (Stops(h[k]) \/ h[k][1].order[h[k][2]] >= k)
  <2>1. k \in S /\ k <= n
    <3> HIDE DEF S
    <3> QED BY <1>4
  <2> QED BY <2>1
<1>6. ASSUME NEW k \in 0..(n - 1) PROVE h[k + 1] = merge(h[k])
  <2>1. k \in 0..n
    OBVIOUS
  <2> QED BY <1>2, <1>5, <2>1
<1> QED BY <1>5, <1>6 DEF MergedUp

\* After MAX_ORDER rounds the merge loop has stopped.
LEMMA MergeAll ==
  ASSUME NEW zb, NEW held, InHandPair(zb, held),
         NEW merged,
         merged = CHOOSE f : f = [k \in 0..MAX_ORDER |-> IF k = 0 THEN zb ELSE merge(f[k - 1])]
  PROVE  InHandPair(merged[MAX_ORDER], held) /\ Stops(merged[MAX_ORDER])
<1> DEFINE n == MAX_ORDER  X == Zones \X FrameIndices
           g == [x \in X |-> IF merge(x) \in X THEN merge(x) ELSE x]
           Eqn(h) == h = [k \in 0..n |-> IF k = 0 THEN zb ELSE merge(h[k - 1])]
<1>1. n \in Nat /\ n \in 0..n
  BY Constants
<1>2. g \in [X -> X] /\ zb \in X
  BY HandType
<1>3. PICK f : Loop(f, n, zb, g) /\ \A k \in 0..n : f[k] \in X
  <2> HIDE DEF g, n, X
  <2> QED BY <1>1, <1>2, FiniteLoop
<1> HIDE DEF n
<1>4. Eqn(f)
  <2>1. f[0] = zb /\ f = [k \in 0..n |-> f[k]]
    BY <1>3 DEF Loop
  <2>2. ASSUME NEW k \in 0..(n - 1), InHandPair(merge(f[k]), held)
        PROVE  f[k + 1] = merge(f[k])
    <3>1. f[k + 1] = g[f[k]] /\ f[k] \in X
      <4>1. k \in 0..n
        BY <1>1
      <4> HIDE DEF g, X
      <4> QED BY <1>3, <4>1 DEF Loop
    <3>2. merge(f[k]) \in X
      BY <2>2, HandType
    <3> HIDE DEF X
    <3> QED BY <3>1, <3>2
  <2>3. Merges(f, n, held)
    BY <2>1, <2>2 DEF Merges
  <2>4. \A k \in 0..(n - 1) : f[k + 1] = merge(f[k])
    <3>1. MergedUp(f, n, held)
      BY <1>1, <2>3, MergeLoop
    <3> QED BY <3>1 DEF MergedUp
  <2>5. ASSUME NEW k \in 0..n PROVE f[k] = IF k = 0 THEN zb ELSE merge(f[k - 1])
    <3>1. CASE k # 0
      <4>1. k - 1 \in 0..(n - 1) /\ (k - 1) + 1 = k
        BY <1>1, <3>1
      <4> QED BY <2>4, <3>1, <4>1
    <3> QED BY <2>1, <3>1
  <2> QED BY <2>1, <2>5, Zenon
<1>5. Eqn(merged)
  BY <1>4, Zenon DEF n
<1>6. merged[0] = zb /\ \A k \in 0..(n - 1) : merged[k + 1] = merge(merged[k])
  <2>1. ASSUME NEW k \in 0..n PROVE merged[k] = IF k = 0 THEN zb ELSE merge(merged[k - 1])
    BY <1>5, Zenon
  <2>2. ASSUME NEW k \in 0..(n - 1) PROVE merged[k + 1] = merge(merged[k])
    <3>1. k + 1 \in 0..n /\ k + 1 # 0 /\ (k + 1) - 1 = k
      BY <1>1
    <3> HIDE DEF Eqn
    <3> QED BY <2>1, <3>1
  <2>3. 0 \in 0..n
    BY <1>1
  <2> HIDE DEF Eqn
  <2> QED BY <2>1, <2>2, <2>3
<1>7. MergedUp(merged, n, held)
  <2>1. Merges(merged, n, held)
    BY <1>6 DEF Merges
  <2> QED BY <1>1, <2>1, MergeLoop
<1>8. InHandPair(merged[n], held) /\ (Stops(merged[n]) \/ merged[n][1].order[merged[n][2]] >= n)
  BY <1>1, <1>7, Zenon DEF MergedUp
<1>9. merged[n][1].order[merged[n][2]] \in Orders
  BY <1>8, HandType, Zenon
<1>10. ~ (merged[n][1].order[merged[n][2]] >= n)
  <2>1. \A q \in Orders : ~ (q >= n)
    BY Constants DEF Orders, n
  <2> QED BY <1>9, <2>1
<1> QED BY <1>8, <1>10, Zenon DEF n

\* Once the loop has stopped, putting the block on its list leaves no two
\* buddies free.
LEMMA PutBack ==
  ASSUME NEW zb, NEW held, InHandPair(zb, held), Stops(zb)
  PROVE  LET y == mark_block_as_allocatable(free_list_add_head(zb[1], zb[2]), zb[2]) IN
         Sound(y, held, {}) /\ Merged(y)
<1> DEFINE z == zb[1]  b == zb[2]  o == z.order[b]  own == <<b, o>>
           x == free_list_add_head(z, b)  y == mark_block_as_allocatable(x, b)
<1>1. Sound(z, held, {own}) /\ Merged(z) /\ own \in {own} /\ own[1] = b /\ own[2] = o
  BY DEF InHandPair, InHand
<1>2. o >= MAX_ORDER - 1 \/ z.frame_array[buddy_index(b, o)] = ALLOCATED
      \/ o # z.order[buddy_index(b, o)]
  BY DEF Stops, get_buddy
<1> HIDE DEF z, b, x, y
<1>3. own \in Blocks /\ b \in FrameIndices /\ o \in Orders /\ b % pow2[o] = 0 /\ o \in Nat
  <2> HIDE DEF own, o
  <2> QED BY <1>1, Apart, Constants
<1>4. z \in Zones /\ ListsInjective(z) /\ own \notin FreeBlocks(z)
  BY <1>1 DEF Sound, Partitioned, ListsInjective
<1>5. /\ x \in Zones /\ ListsInjective(x) /\ x.order = z.order /\ x.frame_array = z.frame_array
      /\ FreeBlocks(x) = FreeBlocks(z) \cup {own}
  BY <1>3, <1>4, AddHead DEF x
<1>6. /\ y \in Zones /\ y.order = z.order /\ y.free_lists = x.free_lists
      /\ FreeBlocks(y) = FreeBlocks(z) \cup {own}
      /\ \A i \in FrameIndices :
           y.frame_array[i] = IF i = own[1] THEN own[2]
                              ELSE IF i \in Run(own) THEN DONT_ALLOCATE ELSE z.frame_array[i]
  <2>1. x.order[b] = o
    BY <1>5
  <2> QED BY <1>3, <1>5, <2>1, MarkBlock DEF y
<1>7. ListsInjective(y)
  BY <1>5, <1>6 DEF ListsInjective
<1>8. o < MAX_ORDER - 1 => <<buddy_index(b, o), o>> \notin FreeBlocks(z)
  <2>1. SUFFICES ASSUME o < MAX_ORDER - 1, <<buddy_index(b, o), o>> \in FreeBlocks(z) PROVE FALSE
    OBVIOUS
  <2> DEFINE c == buddy_index(b, o)  s == <<c, o>>
  <2>2. s \in FreeBlocks(z) /\ s[1] = c /\ s[2] = o
    BY <2>1
  <2> HIDE DEF s
  <2>3. z.order[s[1]] = s[2] /\ s[1] \in Run(s)
    BY <1>1, <2>2, Apart
  <2>4. z.frame_array[s[1]] = s[2]
    BY <1>1, <2>2, <2>3, Zenon DEF Sound, Partitioned
  <2>5. ~ (o >= MAX_ORDER - 1) /\ o # ALLOCATED
    BY <2>1, <1>3, Constants DEF ALLOCATED
  <2> QED BY <1>2, <2>2, <2>3, <2>4, <2>5
<1> HIDE DEF own, o
<1>9. Sound(y, held, {own} \ {own})
  BY <1>1, <1>6, <1>7, MakeFree, Zenon
<1>10. Merged(y)
  BY <1>1, <1>6, <1>8, StillMerged
<1>11. {own} \ {own} = {}
  OBVIOUS
<1> QED BY <1>9, <1>10, <1>11 DEF x, y, z, b

\* deallocate() of a block that nobody holds any more.
LEMMA GiveBack ==
  ASSUME NEW held, NEW b, NEW o, Sound(zone, held, {<<b, o>>}), Merged(zone)
  PROVE  Sound(give_back(b), held, {}) /\ Merged(give_back(b))
<1> DEFINE zb == <<zone, b>>
           merged[k \in 0..MAX_ORDER] == IF k = 0 THEN zb ELSE merge(merged[k - 1])
           result == merged[MAX_ORDER]
<1>1. InHandPair(zb, held)
  <2> DEFINE own == <<b, o>>
  <2>1. own \in {own} /\ own[1] = b /\ own[2] = o
    OBVIOUS
  <2>2. Sound(zone, held, {own})
    OBVIOUS
  <2>3. zone.order[own[1]] = own[2]
    <3> HIDE DEF own
    <3> QED BY <2>1, <2>2, Apart
  <2> QED BY <2>3 DEF InHandPair, InHand
<1>2. InHandPair(result, held) /\ Stops(result)
  <2>1. merged = CHOOSE f : f = [k \in 0..MAX_ORDER |-> IF k = 0 THEN zb ELSE merge(f[k - 1])]
    BY DEF merged
  <2> HIDE DEF merged, zb
  <2> QED BY <1>1, <2>1, MergeAll
<1>3. give_back(b) = mark_block_as_allocatable(free_list_add_head(result[1], result[2]), result[2])
  BY DEF give_back
<1> HIDE DEF result
<1> QED BY <1>2, <1>3, PutBack

-----------------------------------------------------------------------------
(* allocate() and deallocate().                                            *)

\* allocate() rounds a request to the smallest order whose block holds it.
LEMMA OrderFits ==
  ASSUME NEW size \in Nat
  PROVE  LET o == size_to_order(round_up_to_pow_of_2(size)) IN
         /\ o \in Nat /\ Promise!Fits(o, size)
         /\ \A p \in Nat : Promise!Fits(p, size) => p = o
<1> DEFINE o == size_to_order(round_up_to_pow_of_2(size))
<1>1. PICK k \in Nat : PAGE_SIZE = pow2[k]
  BY BuddyAssumption
<1>2. PICK e \in Nat : round_up_to_pow_of_2(size) = pow2[e] /\ RoundedUp(size, e)
  BY RoundUp
<1>3. o = log2(pow2[e] \div pow2[k])
  BY <1>1, <1>2 DEF size_to_order
<1>4. pow2[e] \in Nat \ {0} /\ pow2[k] \in Nat \ {0}
  BY Pow2
<1> DEFINE Fit(p) == pow2[k + p] >= size /\ (p = 0 \/ pow2[k + (p - 1)] < size)
<1>5. ASSUME NEW p \in Nat PROVE Promise!Fits(p, size) <=> Fit(p)
  <2>1. PAGE_SIZE * pow2[p] = pow2[k + p]
    BY <1>1, Pow2Sum
  <2>2. p # 0 => PAGE_SIZE * pow2[p - 1] = pow2[k + (p - 1)]
    BY <1>1, Pow2Sum
  <2>3. Promise!pow2 = pow2
    BY Zenon DEF Promise!pow2, pow2
  <2> QED BY <2>1, <2>2, <2>3 DEF Promise!Fits
<1>6. o \in Nat /\ Fit(o)
  <2>1. CASE e <= k
    <3>1. pow2[e] <= pow2[k]
      BY <2>1, Pow2Grows
    <3>2. pow2[e] \div pow2[k] = 0 \/ pow2[e] \div pow2[k] = 1
      BY <1>4, <3>1
    <3>3. o = 0
      BY <1>3, <3>2, Log2, Pow2
    <3>4. pow2[k + 0] >= size
      BY <1>2, <1>4, <3>1 DEF RoundedUp
    <3> HIDE DEF o
    <3> QED BY <3>3, <3>4
  <2>2. CASE e > k
    <3>1. PICK j \in Nat \ {0} : e = k + j
      <4>1. e - k \in Nat \ {0} /\ e = k + (e - k)
        BY <2>2
      <4> QED BY <4>1
    <3>2. pow2[e] = pow2[j] * pow2[k] /\ pow2[j] \in Nat
      <4>1. pow2[j + k] = pow2[j] * pow2[k] /\ j + k = e
        BY <3>1, Pow2Sum
      <4> QED BY <3>1, <4>1, Pow2
    <3>3. pow2[e] \div pow2[k] = pow2[j]
      BY <1>4, <3>2, Multiple
    <3>4. o = j
      BY <1>3, <3>3, Log2
    <3>5. pow2[k + j] >= size /\ pow2[k + (j - 1)] < size
      <4>1. e # 0 /\ e - 1 = k + (j - 1)
        BY <3>1
      <4> QED BY <1>2, <3>1, <4>1 DEF RoundedUp
    <3> HIDE DEF o
    <3> QED BY <3>1, <3>4, <3>5
  <2> QED BY <2>1, <2>2
<1> HIDE DEF o
<1>7. ASSUME NEW p \in Nat, Fit(p) PROVE p = o
  <2>1. \A a, c \in Nat : Fit(a) /\ Fit(c) => ~ (a < c)
    <3> SUFFICES ASSUME NEW a \in Nat, NEW c \in Nat, Fit(a), Fit(c), a < c PROVE FALSE
      OBVIOUS
    <3>1. k + a \in Nat /\ k + (c - 1) \in Nat /\ k + a <= k + (c - 1) /\ c # 0
      OBVIOUS
    <3>2. pow2[k + a] <= pow2[k + (c - 1)] /\ pow2[k + a] \in Nat /\ pow2[k + (c - 1)] \in Nat
      BY <3>1, Pow2Grows, Pow2
    <3> QED BY <3>1, <3>2
  <2> HIDE DEF Fit
  <2>2. ~ (p < o) /\ ~ (o < p)
    BY <1>6, <1>7, <2>1
  <2> QED BY <1>6, <2>2
<1> HIDE DEF Fit
<1>8. o \in Nat /\ Promise!Fits(o, size) /\ \A p \in Nat : Promise!Fits(p, size) => p = o
  BY <1>5, <1>6, <1>7
<1> QED BY <1>8 DEF o

\* Between two calls: nothing in hand, no two buddies free.
Holds(held) == Sound(zone, held, {}) /\ Merged(zone)

\* allocate() finds a block whenever there is a free one that is large enough.
LEMMA Victim ==
  ASSUME Holds(live), NEW size \in Nat
  PROVE  LET o == size_to_order(round_up_to_pow_of_2(size))  b == victim(size) IN
         \/ b = NULL /\ \A r \in FreeBlocks(zone) : r[2] < o
         \/ b # NULL /\ \E k \in Orders : k >= o /\ <<b, k>> \in FreeBlocks(zone)
<1> DEFINE o == size_to_order(round_up_to_pow_of_2(size))
           lists == {k \in Orders : k >= o /\ zone.free_lists[k] # <<>>}
           Low(k) == k \in lists /\ \A j \in lists : k <= j
           k0 == CHOOSE k \in lists : \A j \in lists : k <= j
<1>0. o \in Nat /\ zone \in Zones
  BY OrderFits DEF Holds, Sound
<1> HIDE DEF o
<1>1. victim(size) = IF lists = {} THEN NULL ELSE Head(zone.free_lists[k0])
  BY DEF victim, o
<1>2. CASE lists = {}
  <2>1. ASSUME NEW r \in FreeBlocks(zone) PROVE r[2] < o
    <3>1. r[2] \in Orders /\ r[1] \in Range(zone.free_lists[r[2]])
      BY DEF FreeBlocks
    <3>2. zone.free_lists[r[2]] # <<>>
      BY <3>1 DEF Range
    <3>3. ~ (r[2] >= o)
      BY <1>2, <3>1, <3>2
    <3>4. r[2] \in Nat
      BY <3>1, Constants, Zenon
    <3> QED BY <1>0, <3>3, <3>4
  <2> QED BY <1>1, <1>2, <2>1 DEF o
<1>3. CASE lists # {}
  <2>1. \E k \in lists : \A j \in lists : k <= j
    <3>1. lists \in SUBSET Nat
      BY Constants, Zenon
    <3> HIDE DEF lists
    <3> QED BY <1>3, <3>1, Least
  <2>2. k0 \in lists
    <3> HIDE DEF lists
    <3> QED BY <2>1, Zenon
  <2> HIDE DEF k0
  <2>3. zone.free_lists[k0] \in Seq(FrameIndices) /\ zone.free_lists[k0] # <<>> /\ k0 \in Orders
    BY <1>0, <2>2 DEF Zones
  <2> DEFINE b == Head(zone.free_lists[k0])
  <2>4. b \in FrameIndices /\ b \in Range(zone.free_lists[k0])
    BY <2>3 DEF Range
  <2>5. b # NULL
    BY <2>4, Constants DEF NULL
  <2>6. <<b, k0>> \in FreeBlocks(zone)
    <3> HIDE DEF b
    <3> QED BY <2>3, <2>4, FreeBlock
  <2> HIDE DEF b
  <2>7. victim(size) = b
    BY <1>1, <1>3 DEF b
  <2> QED BY <2>2, <2>3, <2>5, <2>6, <2>7 DEF o
<1> QED BY <1>2, <1>3

\* Splitting a free block and handing it out.
LEMMA Take ==
  ASSUME Holds(live), NEW b, NEW k \in Orders, <<b, k>> \in FreeBlocks(zone),
         NEW o \in Nat, o <= k
  PROVE  /\ Sound(take(b, o), live \cup {<<b, o>>}, {}) /\ Merged(take(b, o))
         /\ <<b, o>> \in Blocks /\ <<b, o>> \notin live
<1> DEFINE r == <<b, k>>  own == <<b, o>>  y == free_list_del_entry(zone, b)
           x == split_block(y, b, o)  w == mark_block_as_allocated(x, b)
<1>1. Sound(y, live, {r}) /\ FreeBlocks(y) = FreeBlocks(zone) \ {r}
  <2>1. r[1] = b /\ r \in FreeBlocks(zone) /\ {} \cup {r} = {r}
    OBVIOUS
  <2> HIDE DEF r
  <2>2. Sound(y, live, {} \cup {r}) /\ FreeBlocks(y) = FreeBlocks(zone) \ {r}
    BY <2>1, TakeFree, Zenon DEF Holds
  <2> QED BY <2>1, <2>2
<1>2. Merged(y)
  BY <1>1 DEF Holds, Merged
<1> HIDE DEF y
<1>3. Sound(x, live, {own}) /\ Merged(x)
  BY <1>1, <1>2, SplitBlock
<1> HIDE DEF x
<1>4. Sound(w, live \cup {own}, {own} \ {own}) /\ FreeBlocks(w) = FreeBlocks(x)
  <2>1. own[1] = b /\ own \in {own}
    OBVIOUS
  <2> HIDE DEF own
  <2> QED BY <1>3, <2>1, HandOut
<1>5. {own} \ {own} = {}
  OBVIOUS
<1>6. Merged(w)
  BY <1>3, <1>4 DEF Merged
<1>7. own \in Blocks /\ own \notin live
  BY <1>3 DEF Sound, Partitioned
<1>8. take(b, o) = w
  BY DEF take, w, x, y
<1> HIDE DEF w
<1> QED BY <1>4, <1>5, <1>6, <1>7, <1>8

\* Giving a block back.
LEMMA Return ==
  ASSUME Holds(live), NEW r \in live
  PROVE  Sound(give_back(r[1]), live \ {r}, {}) /\ Merged(give_back(r[1]))
<1>1. Sound(zone, live \ {r}, {r})
  <2>1. Sound(zone, live \ {r}, {} \cup {r})
    BY Release DEF Holds
  <2>2. {} \cup {r} = {r}
    OBVIOUS
  <2> QED BY <2>1, <2>2
<1>2. r = <<r[1], r[2]>>
  BY Apart DEF Holds
<1> QED BY <1>1, <1>2, GiveBack, Zenon DEF Holds

\* Sound when nothing is in hand.
LEMMA SoundIs ==
  ASSUME NEW z, NEW held
  PROVE  Sound(z, held, {}) <=> z \in Zones /\ held \in SUBSET Blocks /\ Partitioned(z, held, {})
BY DEF Sound

\* An aligned run of frames that nobody holds lies in one free block: this is
\* where merging pays, for a zone of unmerged buddies would fail the request.
LEMMA FreeRun ==
  ASSUME Holds(live), NEW c \in FrameIndices, NEW o \in Orders, c % pow2[o] = 0,
         \A r \in live : Run(<<c, o>>) \cap Run(r) = {}
  PROVE  \E s \in FreeBlocks(zone) : s[2] >= o /\ c \in Run(s)
<1> DEFINE Untouched(d, p) == /\ d \in FrameIndices /\ p \in Orders /\ d % pow2[p] = 0
                              /\ \A r \in live : Run(<<d, p>>) \cap Run(r) = {}
           Inside(d, p) == \E s \in FreeBlocks(zone) : s[2] >= p /\ d \in Run(s)
           S == {p \in Nat : \A d \in FrameIndices : Untouched(d, p) => Inside(d, p)}
<1>1. 0 \in S
  <2> SUFFICES ASSUME NEW d \in FrameIndices, Untouched(d, 0) PROVE Inside(d, 0)
    OBVIOUS
  <2>1. PICK s \in FreeBlocks(zone) \cup live \cup {} : d \in Run(s)
    BY DEF Holds, Sound, Partitioned
  <2>2. <<d, 0>> \in FrameIndices \X Orders
    BY Constants
  <2>3. d \in Run(<<d, 0>>)
    BY <2>2, Frame
  <2>4. s \in FreeBlocks(zone)
    BY <2>1, <2>3
  <2>5. s[2] \in Nat
    BY <2>4, Frame DEF FreeBlocks
  <2> QED BY <2>1, <2>4, <2>5
<1>2. ASSUME NEW p \in Nat, p \in S PROVE p + 1 \in S
  <2> SUFFICES ASSUME NEW d \in FrameIndices, Untouched(d, p + 1) PROVE Inside(d, p + 1)
    OBVIOUS
  <2> DEFINE e == buddy_index(d, p)  pair == <<d, p + 1>>
  <2>1. p \in Orders /\ p < MAX_ORDER - 1
    BY Constants DEF Orders
  <2>2. /\ d % pow2[p] = 0 /\ e \in FrameIndices /\ e % pow2[p] = 0 /\ e # d
        /\ Run(pair) = Run(<<d, p>>) \cup Run(<<e, p>>)
    <3>1. d % pow2[p] = 0 /\ (d \div pow2[p]) % 2 = 0
      <4>1. /\ pow2[p] \in Nat \ {0} /\ pow2[p + 1] = 2 * pow2[p]
            /\ d \in Nat /\ pow2[p + 1] \in Nat \ {0}
        BY Pow2, Constants
      <4>2. PICK x \in Nat : d = x * pow2[p + 1]
        BY <4>1, Multiple, Zenon
      <4>3. PICK q \in Nat : q = 2 * x
        OBVIOUS
      <4>4. d = q * pow2[p]
        BY <4>1, <4>2, <4>3
      <4>5. d % pow2[p] = 0 /\ d \div pow2[p] = q
        BY <4>1, <4>4, Multiple
      <4> QED BY <4>3, <4>5
    <3>2. ~ (d > e)
      <4>1. pow2[p] \in Nat \ {0} /\ d \in Nat
        BY Pow2, Constants
      <4> QED BY <3>1, <4>1 DEF buddy_index
    <3> HIDE DEF e
    <3> QED BY <2>1, <3>1, <3>2, BuddyFacts DEF e
  <2> HIDE DEF e
  <2>3. Untouched(d, p) /\ Untouched(e, p)
    BY <2>1, <2>2
  <2>4. Inside(d, p) /\ Inside(e, p)
    <3> HIDE DEF Inside, Untouched
    <3> QED BY <1>2, <2>2, <2>3
  <2>5. PICK s \in FreeBlocks(zone) : s[2] >= p /\ d \in Run(s)
    BY <2>4
  <2>6. PICK t \in FreeBlocks(zone) : t[2] >= p /\ e \in Run(t)
    BY <2>4
  <2>7. ASSUME NEW u \in FreeBlocks(zone), NEW i \in FrameIndices, u[2] = p, i \in Run(u),
               i % pow2[p] = 0
        PROVE  u = <<i, p>>
    <3> DEFINE v == <<i, p>>
    <3>1. v \in FrameIndices \X Orders /\ v[1] = i /\ v[2] = p
      BY <2>1
    <3>2. u \in FrameIndices \X Orders /\ u[1] % pow2[u[2]] = 0 /\ u = <<u[1], u[2]>>
      BY Apart DEF Holds, Blocks
    <3> HIDE DEF v
    <3>3. i \in Run(v)
      BY <3>1, Frame
    <3>4. u[1] <= v[1] /\ v[1] <= u[1]
      BY <2>7, <3>1, <3>2, <3>3, Nested
    <3>5. u[1] \in Nat /\ v[1] \in Nat
      BY <3>1, <3>2, Frame
    <3>6. u[1] = i
      BY <3>1, <3>4, <3>5
    <3> QED BY <2>7, <3>2, <3>6
  <2>8. s[2] \in Nat /\ t[2] \in Nat
    BY Frame DEF FreeBlocks
  <2>9. CASE s[2] >= p + 1
    BY <2>5, <2>9
  <2>10. CASE t[2] >= p + 1
    <3>1. pair \in FrameIndices \X Orders /\ pair[1] % pow2[pair[2]] = 0 /\ pair[2] = p + 1
          /\ pair[1] = d
      OBVIOUS
    <3>2. e \in Run(pair) /\ d \in Run(pair)
      <4>1. <<e, p>> \in FrameIndices \X Orders
        BY <2>1, <2>2
      <4>2. e \in Run(<<e, p>>)
        BY <4>1, Frame
      <4> QED BY <2>2, <3>1, <4>2, Frame
    <3>3. t \in FrameIndices \X Orders /\ t[1] % pow2[t[2]] = 0
      BY Apart DEF Holds, Blocks
    <3> HIDE DEF pair
    <3>4. Run(pair) \subseteq Run(t)
      BY <2>6, <2>10, <3>1, <3>2, <3>3, Nested
    <3> QED BY <2>10, <3>2, <3>4
  <2>11. CASE s[2] = p /\ t[2] = p
    <3>1. s = <<d, p>> /\ t = <<e, p>>
      BY <2>2, <2>5, <2>6, <2>7, <2>11
    <3> QED BY <2>1, <3>1 DEF Holds, Merged, e
  <2> QED BY <2>5, <2>6, <2>8, <2>9, <2>10, <2>11
<1>3. o \in S
  <2>1. Nat \subseteq S
    <3> HIDE DEF S
    <3> QED BY <1>1, <1>2, Ind
  <2> HIDE DEF S
  <2> QED BY <2>1, Constants
<1> QED BY <1>3

\* The abstract allocator computes with the same powers of two.
LEMMA SamePow2 == Promise!pow2 = pow2
BY Zenon DEF Promise!pow2, pow2

\* Two blocks callers hold do not start at the same frame.
LEMMA OneBlockPerFrame ==
  ASSUME NEW z, NEW held, Sound(z, held, {}), NEW r \in held, NEW s \in held, r[1] = s[1]
  PROVE  r = s
BY Apart

\* allocate() keeps the invariant; it hands out a block that nobody held, or
\* nothing; and it is a step of the abstract allocator: it fails only when no
\* aligned run of the right size is free.
LEMMA AllocateStep ==
  ASSUME Holds(live), NEW size \in Nat, allocate(size)
  PROVE  LET b == ret'[2] IN
         /\ Holds(live)' /\ ret' \in Nat \X (FrameIndices \cup {NULL})
         /\ \/ b = NULL /\ UNCHANGED <<zone, live>>
            \/ /\ b \in FrameIndices /\ b # NULL /\ \A r \in live : r[1] # b
               /\ \E o \in Orders : live' = live \cup {<<b, o>>}
         /\ size \in Sizes => Promise!Next
<1> DEFINE b == victim(size)  o == size_to_order(round_up_to_pow_of_2(size))
<1>1. ret' = <<size, b>>
  BY DEF allocate
<1>2. o \in Nat /\ Promise!Fits(o, size) /\ \A p \in Nat : Promise!Fits(p, size) => p = o
  BY OrderFits
<1>3. \/ b = NULL /\ \A r \in FreeBlocks(zone) : r[2] < o
      \/ b # NULL /\ \E k \in Orders : k >= o /\ <<b, k>> \in FreeBlocks(zone)
  BY Victim, Zenon
<1>4. CASE b = NULL
  <2>1. UNCHANGED <<zone, live>>
    BY <1>4 DEF allocate
  <2>2. \A r \in FreeBlocks(zone) : r[2] < o
    BY <1>3, <1>4
  <2> HIDE DEF o, b
  <2>3. Holds(live)'
    BY <2>1 DEF Holds
  <2>4. ASSUME NEW p \in 0..(MAX_ORDER - 1), Promise!Fits(p, size), NEW c \in Promise!FreeRuns(p)
        PROVE  FALSE
    <3>1. p = o /\ p \in Orders
      <4>1. p \in Nat
        BY Constants
      <4> QED BY <1>2, <2>4, <4>1 DEF Orders
    <3>2. /\ c \in FrameIndices /\ c % pow2[p] = 0
          /\ \A r \in live : Run(<<c, p>>) \cap Run(r) = {}
      <4>1. /\ c \in Promise!Frames /\ c % pow2[p] = 0
            /\ Promise!Run(c, p) \subseteq Promise!Frames \ Promise!HeldFrames
        BY SamePow2 DEF Promise!FreeRuns
      <4>2. Promise!Frames = FrameIndices /\ Promise!Run(c, p) = Run(<<c, p>>)
        BY SamePow2 DEF Promise!Frames, FrameIndices, Promise!Run, Run
      <4>3. \A r \in live : Run(r) \subseteq Promise!HeldFrames
        BY SamePow2 DEF Promise!HeldFrames, Promise!Run, Run
      <4> QED BY <4>1, <4>2, <4>3
    <3>3. PICK s \in FreeBlocks(zone) : s[2] >= p /\ c \in Run(s)
      BY <3>1, <3>2, FreeRun
    <3>4. s[2] \in Nat
      BY Frame DEF FreeBlocks
    <3> QED BY <1>2, <2>2, <3>1, <3>3, <3>4
  <2>5. size \in Sizes => Promise!Fail
    <3>1. SUFFICES ASSUME size \in Sizes PROVE Promise!Fail
      OBVIOUS
    <3>2. ret' = <<size, Promise!NULL>>
      BY <1>1, <1>4 DEF NULL, Promise!NULL
    <3>3. \A p \in 0..(MAX_ORDER - 1) : Promise!Fits(p, size) => Promise!FreeRuns(p) = {}
      BY <2>4
    <3> QED BY <2>1, <3>1, <3>2, <3>3 DEF Promise!Fail
  <2> QED BY <1>1, <1>4, <2>1, <2>3, <2>5 DEF Promise!Next
<1>5. CASE b # NULL
  <2>1. zone' = take(b, o) /\ live' = live \cup {<<b, o>>}
    BY <1>5 DEF allocate
  <2>2. PICK k \in Orders : k >= o /\ <<b, k>> \in FreeBlocks(zone)
    BY <1>3, <1>5
  <2> HIDE DEF o, b
  <2>3. o <= k
    BY <1>2, <2>2, Constants
  <2>4. /\ Sound(zone', live', {}) /\ Merged(zone') /\ <<b, o>> \in Blocks /\ <<b, o>> \notin live
    BY <1>2, <2>1, <2>2, <2>3, Take
  <2>5. Holds(live)'
    BY <2>4 DEF Holds
  <2>6. b \in FrameIndices /\ o \in Orders
    BY <2>4 DEF Blocks
  <2> DEFINE own == <<b, o>>
  <2>7. own \in live' /\ own[1] = b /\ own[2] = o /\ live \subseteq live' /\ own \notin live
    BY <2>1, <2>4
  <2>8. \A r \in live : r[1] # b
    <3> HIDE DEF own
    <3> QED BY <2>4, <2>7, OneBlockPerFrame
  <2>9. size \in Sizes => Promise!Allocate
    <3>1. SUFFICES ASSUME size \in Sizes PROVE Promise!Allocate
      OBVIOUS
    <3>2. /\ b % pow2[o] = 0 /\ Run(own) \subseteq FrameIndices
          /\ \A r \in live : Run(own) \cap Run(r) = {}
      <4> HIDE DEF own
      <4>1. own[1] % pow2[own[2]] = 0 /\ Run(own) \subseteq FrameIndices
        BY <2>4, <2>7, Apart
      <4>2. ASSUME NEW r \in live PROVE Run(own) \cap Run(r) = {}
        BY <2>4, <2>7, Apart
      <4> QED BY <2>7, <4>1, <4>2
    <3>3. Promise!Frames = FrameIndices /\ Promise!Run(b, o) = Run(own)
      BY SamePow2 DEF Promise!Frames, FrameIndices, Promise!Run, Run
    <3>4. Promise!HeldFrames = UNION {Run(r) : r \in live}
      BY SamePow2 DEF Promise!HeldFrames, Promise!Run, Run
    <3>5. b \in Promise!FreeRuns(o)
      <4>1. Run(own) \subseteq FrameIndices \ (UNION {Run(r) : r \in live})
        BY <3>2
      <4> QED BY <2>6, <3>2, <3>3, <3>4, <4>1, SamePow2 DEF Promise!FreeRuns
    <3>6. o \in 0..(MAX_ORDER - 1)
      BY <2>6 DEF Orders
    <3> QED BY <1>1, <1>2, <2>1, <3>1, <3>5, <3>6 DEF Promise!Allocate
  <2> QED BY <1>1, <1>5, <2>1, <2>5, <2>6, <2>8, <2>9 DEF Promise!Next
<1> QED BY <1>4, <1>5

\* deallocate() of a block a caller holds keeps the invariant and is a step of
\* the abstract allocator.
LEMMA DeallocateStep ==
  ASSUME Holds(live), NEW r \in live, zone' = give_back(r[1]), live' = live \ {r},
         ret' = <<0, NULL>>
  PROVE  Holds(live)' /\ ret' \in Nat \X (FrameIndices \cup {NULL}) /\ Promise!Next
<1>1. Holds(live)'
  BY Return DEF Holds
<1>2. Promise!Free
  BY DEF Promise!Free, NULL, Promise!NULL
<1> QED BY <1>1, <1>2 DEF Promise!Next

-----------------------------------------------------------------------------
(* The theorems of the buddy allocator.                                    *)

\* The inductive invariant of the buddy allocator: the properties the run
\* checks are inductive together.
BuddyInv == FramesAgree /\ BuddiesMerged

\* BuddyInv in the terms of the lemmas.
LEMMA Inv ==
  BuddyInv <=> Holds(live) /\ ret \in Nat \X (FrameIndices \cup {NULL})
<1>1. live \subseteq Blocks <=> live \in SUBSET Blocks
  OBVIOUS
<1> QED BY <1>1 DEF BuddyInv, FramesAgree, BuddiesMerged, FramesPartitioned, Holds, Sound,
                    TypeOK, Blocks

\* The zone starts as a single free block.
LEMMA BuddyInit ==
  ASSUME Init
  PROVE  Holds(live) /\ ret \in Nat \X (FrameIndices \cup {NULL}) /\ Promise!Init
<1> DEFINE top == <<0, MAX_ORDER - 1>>
<1>1. zone \in Zones
  <2>1. MAX_ORDER - 1 \in -2..(MAX_ORDER - 1) /\ DONT_ALLOCATE \in -2..(MAX_ORDER - 1)
    BY Constants DEF DONT_ALLOCATE
  <2>2. <<0>> \in Seq(FrameIndices) /\ <<>> \in Seq(FrameIndices)
    BY Constants
  <2> QED BY <2>1, <2>2, Constants DEF Init, Zones
<1>2. \A o \in Orders : zone.free_lists[o] = IF o = MAX_ORDER - 1 THEN <<0>> ELSE <<>>
  BY DEF Init
<1>3. Range(<<0>>) = {0} /\ Range(<<>>) = {} /\ IsInjective(<<0>>) /\ IsInjective(<<>>)
  BY DEF Range, IsInjective
<1>4. FreeBlocks(zone) = {top}
  <2>1. ASSUME NEW r PROVE r \in FreeBlocks(zone) <=> r = top
    <3>1. r \in FreeBlocks(zone) <=>
            \E i \in FrameIndices, o \in Orders : r = <<i, o>> /\ i \in Range(zone.free_lists[o])
      BY DEF FreeBlocks
    <3> QED BY <1>2, <1>3, <3>1, Constants
  <2> QED BY <2>1
<1>5. live = {} /\ {top} \cup live \cup {} = {top}
  BY DEF Init
<1>6. top \in Blocks /\ top[1] = 0 /\ top[2] = MAX_ORDER - 1 /\ Run(top) = FrameIndices
  BY Constants DEF Blocks, Run, FrameIndices
<1>7. zone.order[0] = MAX_ORDER - 1 /\ 0 % pow2[MAX_ORDER - 1] = 0
  BY Constants DEF Init
<1>8. \A i \in FrameIndices :
        zone.frame_array[i] = IF i = 0 THEN MAX_ORDER - 1 ELSE DONT_ALLOCATE
  BY DEF Init
<1> HIDE DEF top
<1>9. Partitioned(zone, live, {})
  BY <1>2, <1>3, <1>4, <1>5, <1>6, <1>7, <1>8 DEF Partitioned
<1>10. Merged(zone)
  BY <1>4, <1>6, Constants DEF Merged
<1>11. Holds(live)
  BY <1>1, <1>5, <1>9, <1>10 DEF Holds, Sound
<1> QED BY <1>11 DEF Init, Promise!Init, NULL, Promise!NULL

\* Every step keeps the invariant and is a step, or a stutter, of the abstract
\* allocator.
LEMMA BuddyStep ==
  ASSUME BuddyInv, [Next]_vars
  PROVE  BuddyInv' /\ [Promise!Next]_<<live, ret>>
<1>1. Holds(live)
  BY Inv
<1>2. BuddyInv' <=> Holds(live)' /\ ret' \in Nat \X (FrameIndices \cup {NULL})
  <2>1. live' \subseteq Blocks <=> live' \in SUBSET Blocks
    OBVIOUS
  <2> QED BY <2>1 DEF BuddyInv, FramesAgree, BuddiesMerged, FramesPartitioned, Holds, Sound,
                      TypeOK,
                      Blocks
<1>3. ASSUME NEW size \in Sizes, allocate(size)
      PROVE  BuddyInv' /\ Promise!Next
  <2>1. size \in Nat
    BY BuddyAssumption
  <2> QED BY <1>1, <1>2, <1>3, <2>1, AllocateStep
<1>4. ASSUME NEW r \in live, deallocate(r)
      PROVE  BuddyInv' /\ Promise!Next
  BY <1>1, <1>2, <1>4, DeallocateStep DEF deallocate
<1>5. CASE UNCHANGED vars
  BY <1>1, <1>2, <1>5, Inv DEF vars, Holds
<1> QED BY <1>3, <1>4, <1>5 DEF Next

\* Between two calls the frame array, the headers and the free lists of
\* BuddyAllocator agree, and no two buddies are free, for every number of
\* orders, every page size that is a power of two and every set of request
\* sizes.
THEOREM ZoneSound == Spec => [](FramesAgree /\ BuddiesMerged)
<1>1. Init => BuddyInv
  BY BuddyInit, Inv
<1>2. BuddyInv /\ [Next]_vars => BuddyInv'
  BY BuddyStep
<1>3. BuddyInv => FramesAgree /\ BuddiesMerged
  BY DEF BuddyInv
<1> QED BY <1>1, <1>2, <1>3, PTL DEF Spec

\* BuddyAllocator implements the page frame allocator of PageFrames: a block
\* handed out by allocate() is aligned, of the smallest order that holds the
\* request and held by nobody else, and a request is refused only when no such
\* run of frames is free.
THEOREM ZoneImplements == Spec => FramesImplemented
<1>1. Init => BuddyInv /\ Promise!Init
  BY BuddyInit, Inv
<1>2. BuddyInv /\ [Next]_vars => BuddyInv' /\ [Promise!Next]_<<live, ret>>
  BY BuddyStep
<1> QED BY <1>1, <1>2, PTL DEF Spec, FramesImplemented, Promise!Spec

-----------------------------------------------------------------------------
(* Live pointers and slots.                                                *)

\* Every pointer kmalloc() can return.
Pointers == FrameIndices \cup Chunks

\* mark_allocated() and mark_free_chk() keep live pointers only in
\* _allocated_pointers, each once.
TrackerSound ==
  /\ allocated_pointers \in [Slots -> Pointers \cup {NULL}]
  /\ \A i \in Slots : allocated_pointers[i] \in InUse \cup {NULL}
  /\ \A i, j \in Slots :
       allocated_pointers[i] = allocated_pointers[j] /\ allocated_pointers[i] # NULL => i = j

\* The inductive invariant of the kernel heap, whatever the length of
\* _allocated_pointers.
MMInv ==
  /\ Holds(live) /\ ret \in Nat \X (FrameIndices \cup {NULL})
  /\ chunks \subseteq Chunks /\ NULL \notin freed
  /\ TrackerSound

\* What holds in addition while the live pointers fit in _allocated_pointers.
TrackerComplete == (\A p \in InUse : Recorded(p)) /\ OnlyDoubleFreePanics

\* A step after which the live pointers fit keeps TrackerComplete.
NextComplete == TrackerComplete /\ LivePointersFit' => TrackerComplete'

\* Frames and chunks are different pointers, none of them null.
LEMMA PointerFacts ==
  ASSUME TrackerConstants
  PROVE  /\ Chunks \cap FrameIndices = {} /\ Chunks \subseteq Nat
         /\ Pointers = 0..((pow2[MAX_ORDER - 1] + NumChunks) - 1)
         /\ NULL \notin Pointers /\ 1 \in Slots
<1>1. PICK n \in Nat \ {0} : n = pow2[MAX_ORDER - 1]
  BY Constants
<1>2. FrameIndices = 0..(n - 1) /\ Chunks = {n + c : c \in 0..(NumChunks - 1)}
  BY <1>1 DEF FrameIndices, Chunks
<1>3. NumChunks \in Nat /\ KASAN_SLOTS \in Nat \ {0}
  BY DEF TrackerConstants
<1>4. \A x : x \in Chunks <=> x \in n..((n + NumChunks) - 1)
  <2>1. ASSUME NEW x \in Chunks PROVE x \in n..((n + NumChunks) - 1)
    BY <1>2, <1>3
  <2>2. ASSUME NEW x \in n..((n + NumChunks) - 1) PROVE x \in Chunks
    <3>1. x - n \in 0..(NumChunks - 1) /\ x = n + (x - n)
      BY <1>3
    <3> QED BY <1>2, <3>1
  <2> QED BY <2>1, <2>2
<1>5. Chunks \cap FrameIndices = {} /\ Chunks \subseteq Nat
  BY <1>2, <1>3, <1>4
<1>6. \A x : x \in Pointers <=> x \in 0..((n + NumChunks) - 1)
  BY <1>2, <1>3, <1>4 DEF Pointers
<1>7. Pointers = 0..((n + NumChunks) - 1)
  BY <1>6, Zenon
<1>8. NULL \notin Pointers /\ 1 \in Slots
  BY <1>3, <1>7 DEF NULL, Slots
<1> QED BY <1>1, <1>5, <1>7, <1>8

\* Live pointers are pointers, and not null.
LEMMA InUseFacts ==
  ASSUME TrackerConstants, Holds(live), chunks \subseteq Chunks
  PROVE  InUse \subseteq Pointers /\ NULL \notin InUse
<1>1. \A r \in live : r[1] \in FrameIndices
  BY DEF Holds, Sound, Blocks
<1> QED BY <1>1, PointerFacts DEF InUse, Pointers

\* There are at most as many live pointers as frames and chunks.
LEMMA InUseFinite ==
  ASSUME TrackerConstants, Holds(live), chunks \subseteq Chunks
  PROVE  IsFiniteSet(InUse) /\ Cardinality(InUse) <= pow2[MAX_ORDER - 1] + NumChunks
<1> DEFINE N == pow2[MAX_ORDER - 1] + NumChunks
<1>1. N \in Nat
  BY Constants DEF TrackerConstants
<1>2. Pointers = 0..(N - 1)
  BY PointerFacts, Zenon
<1> HIDE DEF N
<1>3. IsFiniteSet(Pointers) /\ Cardinality(Pointers) = N
  BY <1>1, <1>2, FS_Interval
<1>4. InUse \in SUBSET Pointers
  BY InUseFacts
<1>5. IsFiniteSet(InUse) /\ Cardinality(InUse) <= Cardinality(Pointers)
  BY <1>3, <1>4, FS_Subset, Zenon
<1> QED BY <1>3, <1>5 DEF N

\* When _allocated_pointers has no empty slot, as many pointers are live as
\* there are slots, by the pigeonhole principle.
LEMMA FullTracker ==
  ASSUME TrackerConstants, TrackerSound, IsFiniteSet(InUse), ~Recorded(NULL), NEW p, p \notin InUse
  PROVE  Cardinality(InUse \cup {p}) > KASAN_SLOTS
<1> DEFINE a == allocated_pointers
<1>1. a \in [Slots -> InUse] /\ \A i, j \in Slots : a[i] = a[j] => i = j
  BY DEF TrackerSound, Recorded
<1>2. KASAN_SLOTS \in Nat /\ Slots = 1..KASAN_SLOTS
  BY DEF Slots, TrackerConstants
<1> HIDE DEF a
<1>3. IsFiniteSet(Slots) /\ Cardinality(Slots) = KASAN_SLOTS
  BY <1>2, FS_Interval
<1>4. ~(Cardinality(InUse) < Cardinality(Slots))
  BY <1>1, <1>3, FS_PigeonHole
<1>5. Cardinality(InUse) \in Nat
  BY FS_CardinalityType
<1>6. Cardinality(InUse \cup {p}) = Cardinality(InUse) + 1
  BY FS_AddElement
<1> QED BY <1>2, <1>3, <1>4, <1>5, <1>6

\* The search of mark_allocated() and mark_free_chk() finds a slot if there is
\* one.
LEMMA FirstSlotIs ==
  ASSUME TrackerConstants, NEW p, Recorded(p)
  PROVE  FirstSlot(p) \in Slots /\ allocated_pointers[FirstSlot(p)] = p
<1> DEFINE S == {i \in Slots : allocated_pointers[i] = p}
<1>1. S # {} /\ S \subseteq Nat
  BY DEF Recorded, Slots, TrackerConstants
<1>2. PICK i \in S : \A j \in S : i <= j
  BY <1>1, Least, Zenon
<1>3. \A j \in 1..(i - 1) : allocated_pointers[j] # p
  <2>1. SUFFICES ASSUME NEW j \in 1..(i - 1), allocated_pointers[j] = p PROVE FALSE
    OBVIOUS
  <2>2. i \in 1..KASAN_SLOTS /\ KASAN_SLOTS \in Nat
    BY DEF Slots, TrackerConstants
  <2>3. j \in S /\ j < i
    BY <2>1, <2>2 DEF Slots
  <2> QED BY <1>2, <2>2, <2>3
<1>4. \E k \in Slots : allocated_pointers[k] = p /\ \A j \in 1..(k - 1) : allocated_pointers[j] # p
  BY <1>3
<1> QED BY <1>4 DEF FirstSlot

-----------------------------------------------------------------------------
(* kmalloc(), get_free_page() and kfree().                                 *)

\* mark_allocated() of a pointer that was not live, or of null.
LEMMA MarkNew ==
  ASSUME TrackerConstants, MMInv, panicked = NO, NEW p \in Pointers \cup {NULL}, p \notin InUse,
         Holds(live)', ret' \in Nat \X (FrameIndices \cup {NULL}), chunks' \subseteq Chunks,
         InUse' = IF p = NULL THEN InUse ELSE InUse \cup {p},
         mark_allocated(p)
  PROVE  MMInv' /\ NextComplete
<1> DEFINE a == allocated_pointers
<1>1. InUse \subseteq Pointers /\ NULL \notin InUse /\ NULL \notin Pointers
  BY InUseFacts, PointerFacts DEF MMInv
<1>2. p # NULL => ~Recorded(p)
  BY DEF MMInv, TrackerSound, Recorded
<1>6. NULL \notin freed'
  BY Zenon DEF MMInv, mark_allocated
<1>3. CASE p = NULL
  <2>1. allocated_pointers' = a /\ InUse' = InUse
    BY <1>3, Zenon DEF mark_allocated
  <2>2. panicked'[1] # "double free"
    BY Zenon DEF mark_allocated, NO
  <2>3. TrackerSound'
    BY <2>1 DEF MMInv, TrackerSound
  <2>4. TrackerComplete => \A q \in InUse' : Recorded(q)'
    BY <2>1 DEF TrackerComplete, Recorded
  <2> QED BY <1>6, <2>2, <2>3, <2>4, Zenon DEF MMInv, NextComplete, TrackerComplete,
                                               OnlyDoubleFreePanics
<1>4. CASE p # NULL /\ ~Recorded(NULL)
  <2>1. allocated_pointers' = a /\ panicked' = NO /\ InUse' = InUse \cup {p}
    BY <1>2, <1>4 DEF mark_allocated
  <2>2. ~LivePointersFit'
    <3>1. IsFiniteSet(InUse) /\ KASAN_SLOTS \in Nat
      BY InUseFinite DEF MMInv, TrackerConstants
    <3>2. Cardinality(InUse \cup {p}) > KASAN_SLOTS /\ IsFiniteSet(InUse \cup {p})
      BY <1>4, <3>1, FullTracker, FS_AddElement DEF MMInv
    <3>3. Cardinality(InUse \cup {p}) \in Nat
      BY <3>2, FS_CardinalityType
    <3> QED BY <2>1, <3>1, <3>2, <3>3 DEF LivePointersFit
  <2>3. TrackerSound'
    BY <2>1 DEF MMInv, TrackerSound
  <2> QED BY <1>6, <2>2, <2>3 DEF MMInv, NextComplete
<1>5. CASE p # NULL /\ Recorded(NULL)
  <2> DEFINE k == FirstSlot(NULL)
  <2>1. k \in Slots /\ a[k] = NULL
    BY <1>5, FirstSlotIs
  <2> HIDE DEF k
  <2>2. /\ allocated_pointers' = [a EXCEPT ![k] = p] /\ panicked' = NO
        /\ InUse' = InUse \cup {p}
    BY <1>2, <1>5 DEF mark_allocated, k
  <2>3. a \in [Slots -> Pointers \cup {NULL}]
    BY DEF MMInv, TrackerSound
  <2>4. \A i \in Slots : allocated_pointers'[i] = IF i = k THEN p ELSE a[i]
    BY <2>2, <2>3
  <2>5. TrackerSound'
    <3>1. allocated_pointers' \in [Slots -> Pointers \cup {NULL}]
      BY <2>1, <2>2, <2>3
    <3>2. \A i \in Slots : allocated_pointers'[i] \in InUse' \cup {NULL}
      BY <2>2, <2>4 DEF MMInv, TrackerSound
    <3>3. \A i, j \in Slots : allocated_pointers'[i] = allocated_pointers'[j]
            /\ allocated_pointers'[i] # NULL => i = j
      BY <1>2, <1>5, <2>4 DEF MMInv, TrackerSound, Recorded
    <3> QED BY <3>1, <3>2, <3>3 DEF TrackerSound, Pointers, Slots, Chunks
  <2>6. TrackerComplete => \A q \in InUse' : Recorded(q)'
    <3>1. SUFFICES ASSUME TrackerComplete, NEW q \in InUse'
                   PROVE  \E i \in Slots : allocated_pointers'[i] = q
      BY DEF Recorded, Slots
    <3>2. CASE q = p
      BY <2>1, <2>4, <3>2
    <3>3. CASE q # p
      <4>1. q \in InUse /\ q # NULL
        BY <1>1, <2>2, <3>3
      <4>2. PICK i \in Slots : a[i] = q
        BY <3>1, <4>1 DEF TrackerComplete, Recorded
      <4> QED BY <2>1, <2>4, <4>1, <4>2
    <3> QED BY <3>2, <3>3
  <2>7. panicked'[1] # "double free"
    BY <2>2 DEF NO
  <2> QED BY <1>6, <2>5, <2>6, <2>7, Zenon DEF MMInv, NextComplete, TrackerComplete,
                                               OnlyDoubleFreePanics
<1> QED BY <1>3, <1>4, <1>5

\* kmalloc() and get_free_page() from zone 0.
LEMMA GetFrames ==
  ASSUME TrackerConstants, MMInv, panicked = NO, NEW size \in Sizes, allocate(size),
         mark_allocated(ret'[2]), UNCHANGED chunks
  PROVE  MMInv' /\ NextComplete /\ Promise!Next
<1> DEFINE b == ret'[2]
<1>1. Holds(live) /\ size \in Nat
  BY BuddyAssumption DEF MMInv
<1>2. /\ Holds(live)' /\ ret' \in Nat \X (FrameIndices \cup {NULL}) /\ Promise!Next
      /\ \/ b = NULL /\ UNCHANGED <<zone, live>>
         \/ /\ b \in FrameIndices /\ b # NULL /\ \A r \in live : r[1] # b
            /\ \E o \in Orders : live' = live \cup {<<b, o>>}
  BY <1>1, AllocateStep
<1>3. /\ NULL \notin Pointers /\ Chunks \cap FrameIndices = {}
      /\ InUse \subseteq Pointers /\ NULL \notin InUse
  BY PointerFacts, InUseFacts DEF MMInv
<1> HIDE DEF b
<1>4. b \in Pointers \cup {NULL} /\ b \notin InUse
  BY <1>2, <1>3 DEF Pointers, InUse, MMInv
<1>5. InUse' = IF b = NULL THEN InUse ELSE InUse \cup {b}
  <2>1. CASE b = NULL
    BY <1>2, <2>1 DEF InUse
  <2>2. CASE b # NULL
    <3>1. PICK o \in Orders : live' = live \cup {<<b, o>>}
      BY <1>2, <2>2
    <3> DEFINE own == <<b, o>>
    <3>2. own[1] = b /\ live' = live \cup {own}
      BY <3>1
    <3> HIDE DEF own
    <3>3. {r[1] : r \in live'} = {r[1] : r \in live} \cup {b}
      BY <3>2
    <3> QED BY <2>2, <3>3 DEF InUse
  <2> QED BY <2>1, <2>2
<1>6. chunks' \subseteq Chunks /\ mark_allocated(b)
  BY DEF MMInv, b
<1> QED BY <1>2, <1>4, <1>5, <1>6, MarkNew

\* kmalloc() from zone 1.
LEMMA GetChunk ==
  ASSUME TrackerConstants, MMInv, panicked = NO, NEW c, slob_allocate(c), mark_allocated(c)
  PROVE  MMInv' /\ NextComplete /\ UNCHANGED <<live, ret>>
<1>1. NULL \notin Pointers /\ Chunks \cap FrameIndices = {}
  BY PointerFacts
<1>2. /\ c \in IF chunks = Chunks THEN {NULL} ELSE Chunks \ chunks
      /\ chunks' = (chunks \cup {c}) \ {NULL} /\ UNCHANGED <<zone, live, ret>>
  BY DEF slob_allocate
<1>3. chunks \subseteq Chunks /\ Holds(live) /\ ret \in Nat \X (FrameIndices \cup {NULL})
  BY DEF MMInv
<1>4. c \in Pointers \cup {NULL} /\ c \notin InUse /\ chunks' \subseteq Chunks
  <2>1. c \in Chunks \cup {NULL} /\ c \notin chunks
    BY <1>1, <1>2, <1>3 DEF Pointers
  <2>2. InUse \subseteq Pointers /\ NULL \notin InUse
    BY <1>3, InUseFacts
  <2>3. \A r \in live : r[1] \in FrameIndices
    BY <1>3 DEF Holds, Sound, Blocks
  <2> QED BY <1>1, <1>2, <1>3, <2>1, <2>2, <2>3 DEF Pointers, InUse
<1>5. InUse' = IF c = NULL THEN InUse ELSE InUse \cup {c}
  BY <1>1, <1>2, <1>3 DEF InUse, Pointers
<1>6. Holds(live)' /\ ret' \in Nat \X (FrameIndices \cup {NULL})
  BY <1>2, <1>3 DEF Holds
<1> QED BY <1>2, <1>4, <1>5, <1>6, MarkNew

\* kfree() of a pointer the tracker knows.
LEMMA FreeRecorded ==
  ASSUME TrackerConstants, MMInv, panicked = NO, NEW p, p # NULL, Recorded(p), kfree(p)
  PROVE  MMInv' /\ NextComplete /\ [Promise!Next]_<<live, ret>>
<1> DEFINE a == allocated_pointers  k == FirstSlot(p)
<1>1. /\ allocated_pointers' = [a EXCEPT ![k] = NULL]
      /\ release(p) /\ panicked' = NO
  BY DEF kfree
<1>2. k \in Slots /\ a[k] = p
  BY FirstSlotIs
<1> HIDE DEF k
<1>3. /\ Holds(live) /\ ret \in Nat \X (FrameIndices \cup {NULL}) /\ chunks \subseteq Chunks
      /\ TrackerSound
  BY DEF MMInv
<1>4. Chunks \cap FrameIndices = {} /\ \A r \in live : r[1] \in FrameIndices
  BY <1>3, PointerFacts DEF Holds, Sound, Blocks
<1>5. p \in InUse
  BY <1>2 DEF MMInv, TrackerSound
<1>6. /\ Holds(live)' /\ ret' \in Nat \X (FrameIndices \cup {NULL}) /\ chunks' \subseteq Chunks
      /\ InUse' = InUse \ {p} /\ [Promise!Next]_<<live, ret>>
  <2>1. CASE p \in FrameIndices
    <3>1. /\ zone' = give_back(p) /\ live' = {r \in live : r[1] # p}
          /\ ret' = <<0, NULL>> /\ chunks' = chunks
      BY <1>1, <2>1 DEF release
    <3>2. PICK r \in live : r[1] = p
      BY <1>3, <1>4, <1>5, <2>1 DEF InUse
    <3>3. live' = live \ {r}
      <4>1. \A s \in live : s[1] = p => s = r
        BY <1>3, <3>2, OneBlockPerFrame DEF Holds
      <4> QED BY <3>1, <3>2, <4>1
    <3>4. Holds(live)' /\ ret' \in Nat \X (FrameIndices \cup {NULL}) /\ Promise!Next
      BY <1>3, <3>1, <3>2, <3>3, DeallocateStep
    <3>5. {s[1] : s \in live'} = {s[1] : s \in live} \ {p}
      BY <3>1
    <3> QED BY <1>3, <1>4, <2>1, <3>1, <3>4, <3>5 DEF InUse
  <2>2. CASE p \notin FrameIndices
    <3>1. chunks' = chunks \ {p} /\ UNCHANGED <<zone, live, ret>>
      BY <1>1, <2>2 DEF release
    <3>2. InUse' = InUse \ {p}
      BY <1>4, <2>2, <3>1 DEF InUse
    <3> QED BY <1>3, <3>1, <3>2 DEF Holds
  <2> QED BY <2>1, <2>2
<1>7. a \in [Slots -> Pointers \cup {NULL}]
  BY <1>3 DEF TrackerSound
<1>8. \A i \in Slots : allocated_pointers'[i] = IF i = k THEN NULL ELSE a[i]
  BY <1>1, <1>7
<1>9. TrackerSound'
  <2>1. allocated_pointers' \in [Slots -> Pointers \cup {NULL}]
    BY <1>1, <1>7, Zenon
  <2>2. \A i \in Slots : allocated_pointers'[i] \in InUse' \cup {NULL}
    BY <1>2, <1>3, <1>6, <1>8 DEF TrackerSound
  <2>3. \A i, j \in Slots : allocated_pointers'[i] = allocated_pointers'[j]
          /\ allocated_pointers'[i] # NULL => i = j
    BY <1>3, <1>8 DEF TrackerSound
  <2> QED BY <2>1, <2>2, <2>3 DEF TrackerSound
<1>10. TrackerComplete => \A q \in InUse' : Recorded(q)'
  <2>1. SUFFICES ASSUME TrackerComplete, NEW q \in InUse'
                 PROVE  \E i \in Slots : allocated_pointers'[i] = q
    BY DEF Recorded
  <2>2. q \in InUse /\ q # p
    BY <1>6
  <2>3. PICK i \in Slots : a[i] = q
    BY <2>1, <2>2 DEF TrackerComplete, Recorded
  <2> QED BY <1>2, <1>8, <2>2, <2>3
<1>11. panicked'[1] # "double free" /\ NULL \notin freed'
  BY <1>1 DEF NO, kfree, MMInv
<1> QED BY <1>6, <1>9, <1>10, <1>11, Zenon DEF MMInv, NextComplete, TrackerComplete,
                                               OnlyDoubleFreePanics

\* kfree() of a pointer the tracker does not know stops the kernel and releases
\* nothing.
LEMMA FreeUnknown ==
  ASSUME TrackerConstants, MMInv, panicked = NO, NEW p, ~Recorded(p), kfree(p)
  PROVE  MMInv' /\ NextComplete /\ UNCHANGED <<live, ret>>
<1>1. /\ panicked' = <<"double free", p>>
      /\ UNCHANGED <<zone, live, ret, chunks, allocated_pointers, freed>>
  BY Zenon DEF kfree
<1>2. InUse' = InUse /\ TrackerSound' /\ Holds(live)'
  BY <1>1, Zenon DEF InUse, TrackerSound, MMInv, Holds
<1>3. TrackerComplete => (\A q \in InUse' : Recorded(q)') /\ panicked'[2] \notin InUse'
  BY <1>1, <1>2, Zenon DEF TrackerComplete, Recorded
<1> QED BY <1>1, <1>2, <1>3, Zenon DEF MMInv, NextComplete, TrackerComplete, OnlyDoubleFreePanics

\* Every step keeps the invariant and is a step, or a stutter, of the abstract
\* page frame allocator.
LEMMA MMStep ==
  ASSUME TrackerConstants, MMInv, [MMNext]_mmVars
  PROVE  MMInv' /\ NextComplete /\ [Promise!Next]_<<live, ret>>
<1>1. CASE get_free_page
  <2>1. PAGE_SIZE \in Sizes
    BY BuddyAssumption
  <2> QED BY <1>1, <2>1, GetFrames DEF get_free_page
<1>2. ASSUME NEW size \in Sizes, kmalloc(size)
      PROVE  MMInv' /\ NextComplete /\ [Promise!Next]_<<live, ret>>
  <2>1. CASE size + CHUNK_HEADER_SIZE >= PAGE_SIZE
    BY <1>2, <2>1, GetFrames DEF kmalloc
  <2>2. CASE ~(size + CHUNK_HEADER_SIZE >= PAGE_SIZE)
    BY <1>2, <2>2, GetChunk DEF kmalloc
  <2> QED BY <2>1, <2>2
<1>3. ASSUME NEW p \in InUse \cup freed, kfree(p)
      PROVE  MMInv' /\ NextComplete /\ [Promise!Next]_<<live, ret>>
  <2>1. panicked = NO /\ p # NULL
    BY <1>3, InUseFacts, Zenon DEF kfree, MMInv
  <2>2. CASE Recorded(p)
    BY <1>3, <2>1, <2>2, FreeRecorded
  <2>3. CASE ~Recorded(p)
    BY <1>3, <2>1, <2>3, FreeUnknown
  <2> QED BY <2>2, <2>3
<1>4. CASE Halted \/ UNCHANGED mmVars
  BY <1>4, Zenon DEF Halted, mmVars, MMInv, InUse, TrackerSound, Holds, Recorded,
                     OnlyDoubleFreePanics, NextComplete,
              TrackerComplete
<1> QED BY <1>1, <1>2, <1>3, <1>4 DEF MMNext

\* The kernel heap starts with no live pointer.
LEMMA MMStart ==
  ASSUME TrackerConstants, MMInit
  PROVE  MMInv /\ TrackerComplete /\ Promise!Init
<1>1. /\ Holds(live) /\ ret \in Nat \X (FrameIndices \cup {NULL}) /\ Promise!Init
      /\ live = {} /\ chunks = {} /\ freed = {} /\ panicked = NO
      /\ allocated_pointers = [i \in Slots |-> NULL]
  BY BuddyInit DEF MMInit, Init
<1>2. InUse = {}
  BY <1>1 DEF InUse
<1>3. panicked[1] # "double free"
  BY <1>1 DEF NO
<1>4. TrackerSound
  BY <1>1, Zenon DEF TrackerSound
<1> QED BY <1>1, <1>2, <1>3, <1>4, Zenon DEF MMInv, TrackerComplete, OnlyDoubleFreePanics

\* The invariants imply the property the run checks.
LEMMA Exact ==
  ASSUME TrackerConstants, MMInv, TrackerComplete
  PROVE  DoubleFreeStopped
<1>1. HeapSurvivesDoubleFree /\ OnlyDoubleFreePanics
  BY DEF MMInv, TrackerComplete, Holds, Sound, HeapSurvivesDoubleFree, FramesPartitioned
<1>2. ASSUME NEW p \in InUse PROVE Cardinality({i \in Slots : allocated_pointers[i] = p}) = 1
  <2>1. p # NULL
    BY InUseFacts DEF MMInv
  <2>2. PICK i \in Slots : allocated_pointers[i] = p
    BY DEF TrackerComplete, Recorded
  <2>3. {j \in Slots : allocated_pointers[j] = p} = {i}
    BY <2>1, <2>2 DEF MMInv, TrackerSound
  <2> QED BY <2>3, FS_Singleton
<1>3. \A i \in Slots : allocated_pointers[i] \in InUse \cup {NULL}
  BY DEF MMInv, TrackerSound
<1> QED BY <1>1, <1>2, <1>3 DEF DoubleFreeStopped, TrackerExact

-----------------------------------------------------------------------------
(* The theorems of kmalloc() and kfree().                                  *)

\* kfree() reports double frees only, and all of them before the allocator is
\* touched, as long as there are never more live pointers than
\* _allocated_pointers has slots.
THEOREM DoubleFrees ==
  ASSUME TrackerConstants
  PROVE  MMSpec /\ []LivePointersFit => []DoubleFreeStopped
<1>1. MMInit => MMInv /\ TrackerComplete
  BY MMStart
<1>2. MMInv /\ [MMNext]_mmVars => MMInv'
  BY MMStep
<1>3. MMInv /\ TrackerComplete /\ LivePointersFit' /\ [MMNext]_mmVars => TrackerComplete'
  BY MMStep DEF NextComplete
<1>4. MMInv /\ TrackerComplete => DoubleFreeStopped
  BY Exact
<1> QED BY <1>1, <1>2, <1>3, <1>4, PTL DEF MMSpec

\* Whatever pointers callers free, once or twice, and however short
\* _allocated_pointers is, kfree() leaves the frame array, headers and free
\* lists consistent and no two buddies free.
THEOREM HeapSurvives ==
  ASSUME TrackerConstants
  PROVE  MMSpec => [](HeapSurvivesDoubleFree /\ BuddiesMerged)
<1>1. MMInit => MMInv
  BY MMStart
<1>2. MMInv /\ [MMNext]_mmVars => MMInv'
  BY MMStep
<1>3. MMInv => HeapSurvivesDoubleFree /\ BuddiesMerged
  BY DEF MMInv, Holds, Sound, HeapSurvivesDoubleFree, FramesPartitioned, BuddiesMerged
<1> QED BY <1>1, <1>2, <1>3, PTL DEF MMSpec

\* kmalloc(), get_free_page() and kfree(), with double frees, use zone 0 as the
\* page frame allocator of PageFrames.
THEOREM KernelHeapImplements ==
  ASSUME TrackerConstants
  PROVE  MMSpec => FramesImplemented
<1>1. MMInit => MMInv /\ Promise!Init
  BY MMStart
<1>2. MMInv /\ [MMNext]_mmVars => MMInv' /\ NextComplete /\ [Promise!Next]_<<live, ret>>
  BY MMStep
<1> QED BY <1>1, <1>2, PTL DEF MMSpec, FramesImplemented, Promise!Spec

=============================================================================
