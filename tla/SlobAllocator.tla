--------------------------- MODULE SlobAllocator ---------------------------
(***************************************************************************)
(* The chunk allocator of zone 1 (mm/SlobAllocator.cc), one step per call  *)
(* of allocate() or deallocate().  Addresses are bytes from the start of   *)
(* the zone.  The zone's page frames are handed out to this allocator      *)
(* only, in ascending order, and are never given back.  A bin, linked      *)
(* through `next', is the sequence of its chunks.                          *)
(***************************************************************************)
EXTENDS Lib

CONSTANTS
  SLOB_PAGE_SIZE,       \* PAGE_SIZE, 4096 in the code; a multiple of 16
  NumPages,             \* page frames of the zone, 512 in the code
  largest_chunk_size,   \* 0x80 in the code
  ChunkSizes,           \* bound: the sizes callers ask for
  ExactFit              \* may a request find its exact size in the unsorted bin?

HEADER == 16
smallest_chunk_size == 32
chunk_size_gap == 16
nr_bins == (largest_chunk_size - smallest_chunk_size) \div chunk_size_gap + 1
UNSORTED == nr_bins

VARIABLES
  heap,   \* [mem, bins, top, top_prev, end, pages, panicked]: memory and fields
  held    \* what callers hold: pairs <<payload address, size asked for>>

slob_vars == <<heap, held>>

is_aligned(a) == a % SLOB_PAGE_SIZE = 0

\* Header places: every 16 bytes, and one past the zone's end, which a chunk at
\* the end of the last page has for a successor.
Places == {16 * k : k \in 0..(NumPages * SLOB_PAGE_SIZE) \div 16}

\* A place that holds no header holds data, zeroes here; so does the header of
\* a chunk that has been merged into another one, which nothing reads again.
Data == [index |-> 0, prev |-> 0, alloc |-> FALSE]

chunk_size(i) == smallest_chunk_size + i * chunk_size_gap
get_size(h, c) == chunk_size(h.mem[c].index)
get_prev_chunk(h, c) == c - h.mem[c].prev
get_next_chunk(h, c) == c + get_size(h, c)

set_allocated(h, c, flag) == [h EXCEPT !.mem[c].alloc = flag]
set_prev_chunk_size(h, c, size) == [h EXCEPT !.mem[c].prev = size]

is_chunk_size_usable(size) == size >= smallest_chunk_size
get_top_chunk_size(h) == h.end - h.top

\* The size_t subtraction wraps and the cast to int wraps it back: -1 for 16
\* bytes, -2 for none.
get_bin_index(size) == (size - smallest_chunk_size) \div chunk_size_gap

normalize_size_down(size) ==
  (IF size < smallest_chunk_size THEN 2 ELSE size \div 16) * 16

normalize_size(size) ==
  LET s == IF size < smallest_chunk_size THEN smallest_chunk_size ELSE size
  IN  ((s + 15) \div 16) * 16

bin_get_head(h, c) == IF h.mem[c].index >= nr_bins THEN UNSORTED ELSE h.mem[c].index

bin_del_entry(h, c) == [h EXCEPT !.bins[bin_get_head(h, c)] = remove(@, c)]

bin_del_head_forgotten(h, c) == h

bin_del_head(h, c) ==
  IF h.mem[c].index >= nr_bins THEN bin_del_entry(h, c)
  ELSE [h EXCEPT !.bins[h.mem[c].index] = IF @ = <<>> THEN @ ELSE Tail(@)]

bin_add_head(h, c) ==
  LET b == bin_get_head(h, c) IN
  IF h.bins[b] # <<>> /\ Head(h.bins[b]) = c THEN [h EXCEPT !.panicked = TRUE]
  ELSE [h EXCEPT !.bins[b] = <<c>> \o @]

\* Sets the allocated flag, so that no neighbour merges with the chunk.
discard(h, c) == set_allocated(h, c, TRUE)

\* The sizes the allocator is compiled with; a request fits a page with its header
\* (kmalloc() sends larger ones to the buddy allocator), and none finds its exact
\* size in the unsorted bin, where split_from_chunk() fails.
SlobConstants ==
  /\ SLOB_PAGE_SIZE \in Nat /\ SLOB_PAGE_SIZE % 16 = 0 /\ SLOB_PAGE_SIZE >= smallest_chunk_size
  /\ NumPages \in Nat
  /\ largest_chunk_size \in Nat /\ largest_chunk_size >= smallest_chunk_size
  /\ \A size \in ChunkSizes : size \in Nat /\ normalize_size(HEADER + size) <= SLOB_PAGE_SIZE
  /\ ~ExactFit

-----------------------------------------------------------------------------
\* The heap after a chunk has been cut off the top; the chunk is h.top.
split_from_top_chunk(h, size) ==
  IF size > get_top_chunk_size(h) THEN [h EXCEPT !.panicked = TRUE]
  ELSE [h EXCEPT !.mem[h.top] = [index |-> get_bin_index(size), prev |-> h.top_prev,
                                 alloc |-> TRUE],
                 !.top = @ + size, !.top_prev = size]

split_from_chunk_untold(h, c, size) ==
  LET left == get_size(h, c) - size
      rest == c + size
      out  == bin_del_head([h EXCEPT !.mem[rest] = [index |-> get_bin_index(left),
                                                    prev |-> size, alloc |-> FALSE]], c)
      kept == IF is_chunk_size_usable(left) THEN bin_add_head(out, rest) ELSE discard(out, rest)
  IN  [kept EXCEPT !.mem[c] = [index |-> get_bin_index(size), prev |-> @.prev, alloc |-> TRUE]]

\* The heap after `size' bytes have been cut off the front of chunk c.  Storing
\* a null `next' into the remainder ends a list the remainder is itself in.
split_from_chunk(h, c, size) ==
  LET left == get_size(h, c) - size
      rest == c + size
      cut  == [h EXCEPT !.mem[rest] = [index |-> get_bin_index(left), prev |-> size,
                                       alloc |-> @.alloc],
                        !.bins = [b \in DOMAIN @ |->
                           LET at == {i \in DOMAIN @[b] : @[b][i] = rest}
                           IN  IF at = {} THEN @[b]
                               ELSE SubSeq(@[b], 1, CHOOSE i \in at : TRUE)]]
      out  == bin_del_head(cut, c)
      kept == IF is_chunk_size_usable(left)
              THEN bin_add_head(set_allocated(out, rest, FALSE), rest)
              ELSE discard(out, rest)
      next == get_next_chunk(kept, c)
      told == IF next # kept.top THEN set_prev_chunk_size(kept, next, left) ELSE kept
  IN  IF h.mem[c].index < 0 \/ left < 0 \/ ~is_chunk_size_usable(size)
      THEN [h EXCEPT !.panicked = TRUE]
      ELSE [told EXCEPT !.mem[c] = [index |-> get_bin_index(size), prev |-> @.prev,
                                    alloc |-> TRUE]]

request_new_page_frame(h) ==
  [h EXCEPT !.top = h.pages * SLOB_PAGE_SIZE, !.end = (h.pages + 1) * SLOB_PAGE_SIZE,
            !.pages = @ + 1]

\* The top chunk is too small: keep what is left of it in a bin if that is
\* large enough.  The chunk goes there with its allocated flag set.
retire_top_chunk(h) ==
  LET cut == split_from_top_chunk(h, get_top_chunk_size(h)) IN
  IF is_chunk_size_usable(get_top_chunk_size(h)) THEN bin_add_head(cut, h.top)
  ELSE discard(cut, h.top)

-----------------------------------------------------------------------------
SlobInit ==
  /\ heap = [mem |-> [a \in Places |-> Data], bins |-> [b \in 0..UNSORTED |-> <<>>],
             top |-> 0, top_prev |-> 0, end |-> 0, pages |-> 0, panicked |-> FALSE]
  /\ held = {}

\* Positions in the unsorted bin of the chunks that are large enough.
Larger(size) ==
  {i \in DOMAIN heap.bins[UNSORTED] : get_size(heap, heap.bins[UNSORTED][i]) >= size}

\* The bins allocate() may split a chunk from, in the order of its search.
LargerBins(size) ==
  {b \in 0..(nr_bins - 1) : b >= get_bin_index(size) /\ heap.bins[b] # <<>>}

First(S) == CHOOSE x \in S : \A y \in S : x <= y

\* The caller owns chunk c of the new heap h, and fills it.
Hand(h, c, size) ==
  /\ heap' = [h EXCEPT !.mem = [a \in Places |->
                IF a > c /\ a < get_next_chunk(h, c) THEN Data ELSE @[a]],
              !.panicked = @ \/ is_aligned(c + HEADER)]
  /\ held' = held \cup {<<c + HEADER, size>>}

allocate_chunk(size) ==
  LET n == normalize_size(HEADER + size)
      i == get_bin_index(n)
      h == IF get_top_chunk_size(heap) # 0 /\ get_top_chunk_size(heap) < n
           THEN retire_top_chunk(heap) ELSE heap
      new_page == get_top_chunk_size(heap) < n
  IN
  /\ ~heap.panicked
  /\ IF i < nr_bins /\ heap.bins[i] # <<>>
     THEN LET c == Head(heap.bins[i])
          IN  Hand(bin_del_head(set_allocated(heap, c, TRUE), c), c, size)
     ELSE IF Larger(n) # {}
     THEN LET c == heap.bins[UNSORTED][First(Larger(n))]
          IN  /\ get_size(heap, c) = n => ExactFit
              /\ Hand(split_from_chunk(heap, c, n), c, size)
     ELSE IF LargerBins(n) # {}
     THEN LET c == Head(heap.bins[First(LargerBins(n))])
          IN  Hand(split_from_chunk(heap, c, n), c, size)
     ELSE IF new_page /\ h.pages = NumPages
     THEN heap' = h /\ UNCHANGED held
     ELSE LET t == IF new_page THEN request_new_page_frame(h) ELSE h
          IN  Hand(split_from_top_chunk(t, n), t.top, size)

merge_prev_never(h, c) == <<h, c, get_size(h, c)>>

\* deallocate(), first half: merge the chunk with the one before it.  The new
\* heap, the chunk, and its size.
merge_prev(h, c) ==
  LET prev == get_prev_chunk(h, c)
      size == get_size(h, c) + get_size(h, prev)
      out  == [bin_del_entry(h, prev) EXCEPT !.mem[prev].index = get_bin_index(size),
                                     !.mem[c] = Data]
  IN  IF is_aligned(c) \/ h.mem[prev].alloc THEN <<h, c, get_size(h, c)>>
      ELSE <<set_prev_chunk_size(out, get_next_chunk(h, c), size), prev, size>>

\* The second half: merge it with the one after it, which is `next'.
merge_next(h, c, csize, next) ==
  LET size == csize + get_size(h, next)
      out  == [bin_del_entry(h, next) EXCEPT !.mem[c].index = get_bin_index(size),
                                     !.mem[next] = Data]
  IN  IF is_aligned(next) THEN h
      ELSE IF next = h.top THEN [h EXCEPT !.top = c, !.top_prev = h.mem[c].prev,
                                               !.mem[c] = Data]
      ELSE IF h.mem[next].alloc THEN h
      ELSE bin_add_head(set_prev_chunk_size(out, get_next_chunk(h, next), size), c)

\* A header that has been overwritten (index -2) leads out of _bins: nothing is
\* said about the heap after that.
deallocate_chunk(p) ==
  LET c == p[1] - HEADER
      m == merge_prev(set_allocated(heap, c, FALSE), c)
  IN
  /\ ~heap.panicked
  /\ heap' = IF heap.mem[c].index < 0 THEN [heap EXCEPT !.panicked = TRUE]
             ELSE merge_next(m[1], m[2], m[3], get_next_chunk(heap, c))
  /\ held' = held \ {p}

SlobNext ==
  \/ \E size \in ChunkSizes : allocate_chunk(size)
  \/ \E p \in held : deallocate_chunk(p)

SlobSpec == SlobInit /\ [][SlobNext]_slob_vars

-----------------------------------------------------------------------------
(* Properties.                                                             *)

\* Where the chunks of a page end: at the top chunk in the page it is in.
Limit(page) ==
  IF heap.top >= page * SLOB_PAGE_SIZE /\ heap.top < (page + 1) * SLOB_PAGE_SIZE THEN heap.top
  ELSE (page + 1) * SLOB_PAGE_SIZE

\* The places reached from the start of a page by get_next_chunk().
Walk(page) ==
  LET reach[k \in Nat] ==
        IF k = 0 THEN {page * SLOB_PAGE_SIZE}
        ELSE LET R == reach[k - 1] IN
             R \cup {get_next_chunk(heap, c) : c \in {d \in R : d < Limit(page)}}
  IN  reach[SLOB_PAGE_SIZE \div chunk_size_gap]

ChunksOf(page) == {c \in Walk(page) : c < Limit(page)}
HeldChunks == {p[1] - HEADER : p \in held}

\* Headers, bins and the top chunk lie in the zone.
SlobTypeOK ==
  /\ \A a \in Places :
       /\ heap.mem[a].index \in -2..((SLOB_PAGE_SIZE - smallest_chunk_size) \div chunk_size_gap)
       /\ heap.mem[a].prev \in 0..SLOB_PAGE_SIZE
       /\ heap.mem[a].alloc \in BOOLEAN
  /\ \A b \in 0..UNSORTED : Range(heap.bins[b]) \subseteq Places
  /\ {heap.top, heap.end} \subseteq Places /\ heap.pages \in 0..NumPages
  /\ held \subseteq (Nat \X ChunkSizes)

\* Every page is tiled: following the sizes in the headers from its start one
\* arrives exactly at the top chunk or at the page's end, and every chunk but
\* the first knows the size of the one before it, so that deallocate() finds
\* both neighbours.
HeapTiled ==
  \A page \in 0..(heap.pages - 1) :
    /\ Limit(page) \in Walk(page)
    /\ \A c \in ChunksOf(page) :
         LET n == get_next_chunk(heap, c) IN
         /\ n > c
         /\ n < Limit(page) => heap.mem[n].prev = get_size(heap, c)
         /\ n = heap.top /\ ~is_aligned(n) => heap.top_prev = get_size(heap, c)

\* The bins list only chunks nobody holds, each once and in the bin of its
\* size; what a caller holds is marked as allocated.  No list operation of
\* allocate() or deallocate() can therefore hand out a chunk twice.
BinsExact ==
  LET chunks == UNION {ChunksOf(page) : page \in 0..(heap.pages - 1)} IN
  /\ \A b \in 0..UNSORTED :
       /\ IsInjective(heap.bins[b])
       /\ \A c \in Range(heap.bins[b]) : c \in chunks \ HeldChunks /\ bin_get_head(heap, c) = b
  /\ \A c \in HeldChunks : c \in chunks /\ heap.mem[c].alloc

\* A free chunk is followed by a chunk in use or by the end of its page: what
\* deallocate() leaves out of every bin is found again when the chunk before
\* it is freed, and cannot pile up between two free chunks.
Coalesced ==
  \A page \in 0..(heap.pages - 1) : \A c \in ChunksOf(page) :
    LET n == get_next_chunk(heap, c) IN
    ~heap.mem[c].alloc /\ n < (page + 1) * SLOB_PAGE_SIZE => n # heap.top /\ heap.mem[n].alloc

\* The allocator stores headers only in memory that nobody holds: what a
\* caller has written to its object stays.
PayloadIntact ==
  \A p \in held : \A a \in {x \in Places : x >= p[1] /\ x < p[1] + p[2]} : heap.mem[a] = Data

\* "kernel heap corrupted" is never reported.
NeverPanics == ~heap.panicked

\* allocate() and deallocate() keep the promise MemoryManager builds on: an
\* object is aligned, large enough and overlaps no other.
Chunks == INSTANCE HeapChunks WITH HeapSize <- NumPages * SLOB_PAGE_SIZE, Alignment <- HEADER,
                                Sizes <- ChunkSizes
ChunksImplemented == Chunks!Spec

\* What a caller is given next is right: the bins name free chunks, each once and
\* by its size, no free memory is lost between two of them, and no list operation
\* of allocate() or deallocate() finds the heap corrupted.
BinsSound == SlobTypeOK /\ BinsExact /\ Coalesced /\ NeverPanics
=============================================================================
