---------------------------- MODULE MemoryManager ----------------------------
(***************************************************************************)
(* kmalloc(), kfree() and get_free_page() (src/mm/MemoryManager.cc) with   *)
(* the tracker of live pointers they consult (src/mm/AddressSanitizer.cc). *)
(* Zone 0 is the buddy allocator of BuddyAllocator; of the chunk allocator *)
(* of zone 1 only this is assumed: a chunk it hands out is in no use.      *)
(***************************************************************************)
EXTENDS BuddyAllocator, FiniteSets

CONSTANTS
  KASAN_SLOTS,         \* length of _allocated_pointers (1000 in the code)
  CHUNK_HEADER_SIZE,   \* SlobAllocator::get_chunk_header_size()
  NumChunks            \* bound: how many chunks zone 1 can hold

TrackerConstants ==
  KASAN_SLOTS \in Nat \ {0} /\ CHUNK_HEADER_SIZE \in Nat /\ NumChunks \in Nat

VARIABLES
  chunks,               \* the chunks callers hold
  allocated_pointers,
  freed,                \* pointers given to kfree() and not handed out since
  panicked              \* NO, or why the kernel stopped and at which pointer

mmVars == <<zone, live, ret, chunks, allocated_pointers, freed, panicked>>

\* Chunk pointers are never page-aligned: they are no frame index.
Chunks == {pow2[MAX_ORDER - 1] + c : c \in 0..(NumChunks - 1)}

Slots == 1..KASAN_SLOTS
NO == <<"no", NULL>>

MMInit ==
  /\ Init
  /\ chunks = {}
  /\ allocated_pointers = [i \in Slots |-> NULL]
  /\ freed = {}
  /\ panicked = NO

\* The first slot that holds p, if any.
FirstSlot(p) ==
  CHOOSE i \in Slots : /\ allocated_pointers[i] = p
                       /\ \A j \in 1..(i - 1) : allocated_pointers[j] # p

Recorded(p) == \E i \in Slots : allocated_pointers[i] = p

mark_allocated_in_first_slot(p) ==
  /\ panicked' = IF Recorded(p) THEN <<"already allocated", p>> ELSE panicked
  /\ allocated_pointers' = IF Recorded(p) THEN allocated_pointers
                           ELSE [allocated_pointers EXCEPT ![1] = p]
  /\ freed' = freed \ {p}

\* mark_allocated(): a null pointer equals an empty slot; a full table
\* records nothing.
mark_allocated(p) ==
  /\ panicked' = IF Recorded(p) THEN <<"already allocated", p>> ELSE panicked
  /\ allocated_pointers' =
       IF Recorded(p) \/ ~Recorded(NULL) THEN allocated_pointers
       ELSE [allocated_pointers EXCEPT ![FirstSlot(NULL)] = p]
  /\ freed' = freed \ {p}

get_free_page ==
  /\ panicked = NO
  /\ allocate(PAGE_SIZE)
  /\ mark_allocated(ret'[2])
  /\ UNCHANGED chunks

\* The chunk zone 1 hands out; nullptr when it is out of memory.
slob_allocate(c) ==
  /\ c \in IF chunks = Chunks THEN {NULL} ELSE Chunks \ chunks
  /\ chunks' = (chunks \cup {c}) \ {NULL}
  /\ UNCHANGED <<zone, live, ret>>

kmalloc(size) ==
  /\ panicked = NO
  /\ IF size + CHUNK_HEADER_SIZE >= PAGE_SIZE
     THEN allocate(size) /\ mark_allocated(ret'[2]) /\ UNCHANGED chunks
     ELSE \E c \in Chunks \cup {NULL} : slob_allocate(c) /\ mark_allocated(c)

InUse == {r[1] : r \in live} \cup chunks

\* Give p back to its allocator.
release(p) ==
  IF p \in FrameIndices
  THEN /\ zone' = give_back(p)
       /\ live' = {r \in live : r[1] # p}
       /\ ret' = <<0, NULL>>
       /\ UNCHANGED chunks
  ELSE chunks' = chunks \ {p} /\ UNCHANGED <<zone, live, ret>>

\* kfree() of a pointer its caller holds, or freed before: mark_free_chk()
\* panics on one the tracker does not know, and nothing is released.
kfree(p) ==
  /\ panicked = NO
  /\ IF Recorded(p)
     THEN /\ allocated_pointers' = [allocated_pointers EXCEPT ![FirstSlot(p)] = NULL]
          /\ release(p)
          /\ freed' = freed \cup {p}
          /\ UNCHANGED panicked
     ELSE /\ panicked' = <<"double free", p>>
          /\ UNCHANGED <<zone, live, ret, chunks, allocated_pointers, freed>>

Halted ==
  /\ panicked # NO
  /\ UNCHANGED mmVars

MMNext ==
  \/ get_free_page
  \/ \E size \in Sizes : kmalloc(size)
  \/ \E p \in InUse \cup freed : kfree(p)
  \/ Halted

MMSpec == MMInit /\ [][MMNext]_mmVars

-----------------------------------------------------------------------------
(* Properties.                                                             *)

\* No more pointers are live than mark_allocated() has slots to record them in.
LivePointersFit == Cardinality(InUse) <= KASAN_SLOTS

\* While every live pointer has a slot, the tracker holds exactly the live
\* pointers, each once, so it stops a second kfree() and no first one.
TrackerExact ==
  /\ \A p \in InUse : Cardinality({i \in Slots : allocated_pointers[i] = p}) = 1
  /\ \A i \in Slots : allocated_pointers[i] \in InUse \cup {NULL}

\* "*** kasan: double free detected" is printed only for a pointer that
\* nobody holds.
OnlyDoubleFreePanics == panicked[1] = "double free" => panicked[2] \notin InUse

\* A second kfree() of a pointer is stopped before it reaches the allocator,
\* unless the pointer has been handed out again: the frame array, headers and
\* free lists stay consistent whatever the callers free.
HeapSurvivesDoubleFree == FramesPartitioned

\* kfree(): while the live pointers fit its slots the tracker knows them, so it
\* reports double frees only, and reports them before the allocator's lists are
\* touched.
DoubleFreeStopped == TrackerExact /\ OnlyDoubleFreePanics /\ HeapSurvivesDoubleFree
=============================================================================
