------------------------ MODULE AddressSpaces_proofs ------------------------
(***************************************************************************)
(* That the reference counts are exact, that shared frames are read-only,  *)
(* and that copy-on-write implements private memory, for any number of     *)
(* tasks, pages and frames.                                                *)
(***************************************************************************)
EXTENDS AddressSpacesSteps_proofs

(* The invariant.                                                          *)

LEMMA InitAInv ==
  Init => AInv
<1>1. SUFFICES ASSUME Init PROVE AInv
  OBVIOUS
<1>2. None \notin Frames /\ INVALID.frame = None /\ INVALID \in Entries /\ init \in Tasks
  <2>1. None \notin Frames /\ init \in Tasks
    BY AddressSpacesAssumption
  <2>2. INVALID.frame = None /\ INVALID \in Entries
    BY DEF INVALID, Entries
  <2> QED
    BY <2>1, <2>2
<1>3. PICK f \in Frames :
        /\ ustack_page = [t \in Tasks |-> IF t = init THEN f ELSE None]
        /\ allocated = {f}
  BY <1>1, Zenon DEF Init
<1>4. /\ \A t \in Tasks, v \in Pages : pte[t][v] = INVALID
      /\ \A t \in Tasks : status[t] = IF t = init THEN "alive" ELSE "unused"
      /\ \A t \in Tasks : ustack_page[t] = IF t = init THEN f ELSE None
      /\ lost = {}
  <2>1. /\ status = [t \in Tasks |-> IF t = init THEN "alive" ELSE "unused"]
        /\ pte = [t \in Tasks |-> [v \in Pages |-> INVALID]]
        /\ lost = {}
    BY <1>1 DEF Init
  <2> QED
    BY <1>3, <2>1
<1>5. TypeOK
  <2>1. pte = [t \in Tasks |-> [v \in Pages |-> INVALID]]
    BY <1>1 DEF Init
  <2>2. pte \in [Tasks -> [Pages -> Entries]]
    BY <1>2, <2>1
  <2>3. /\ status \in [Tasks -> {"unused", "alive", "zombie"}]
        /\ page_ref_count \in [Frames -> Nat]
        /\ content \in [Frames -> Values \cup {None}]
        /\ panicked \in BOOLEAN
        /\ lost \subseteq Frames
    BY <1>1, Zenon DEF Init
  <2>4. ustack_page \in [Tasks -> Frames \cup {None}] /\ allocated \subseteq Frames
    BY <1>3
  <2> QED
    BY <2>2, <2>3, <2>4 DEF TypeOK
<1>6. RefCountExact
  <2>1. ASSUME NEW g \in Frames PROVE page_ref_count[g] = Cardinality(UsersIn(pte, g))
    <3>1. UsersIn(pte, g) = {}
      <4>1. \A x : x \notin UsersIn(pte, g)
        BY <1>2, <1>4, UsersPair
      <4> QED
        BY <4>1
    <3>2. page_ref_count[g] = 0
      BY <1>1 DEF Init
    <3> QED
      BY <3>1, <3>2, FS_EmptySet
  <2> QED
    BY <2>1, Counts
<1>7. OncePerTask /\ ContentInv /\ SharedInv
  BY <1>2, <1>4 DEF OncePerTask, ContentInv, SharedInv
<1>8. SlotInv
  BY <1>2, <1>3, <1>4 DEF SlotInv
<1>9. FrameInv
  BY <1>2, <1>3, <1>4 DEF FrameInv
<1> QED
  BY <1>5, <1>6, <1>7, <1>8, <1>9 DEF AInv, MapInv

LEMMA InvStep ==
  AInv /\ [Next]_vars => AInv'
<1>1. SUFFICES ASSUME AInv, [Next]_vars PROVE AInv'
  OBVIOUS
<1>2. ASSUME NEW t \in Tasks, NEW v \in Pages, NEW writable \in BOOLEAN,
             NEW val \in Values, mmap(t, v, writable, val)
      PROVE  AInv'
  BY <1>1, <1>2, MmapStep
<1>3. ASSUME NEW t \in Tasks, NEW v \in Pages, NEW val \in Values,
             store(t, v, val) \/ kernel_store(t, v, val)
      PROVE  AInv'
  <2>1. v \in Mapped(t) /\ Write(t, v, val)
    BY <1>3 DEF store, kernel_store
  <2> QED
    BY <1>1, <2>1, WriteStep
<1>4. ASSUME NEW t \in Tasks, NEW v \in Pages, handle_page_fault(t, v)
      PROVE  AInv'
  BY <1>1, <1>4, FaultStep
<1>5. ASSUME NEW p \in Tasks, NEW c \in Tasks, fork(p, c)
      PROVE  AInv'
  BY <1>1, <1>5, ForkStep
<1>6. ASSUME NEW t \in Tasks, NEW args \in Values, NEW image \in Images,
             NEW writable \in BOOLEAN, exec(t, args, image, writable)
      PROVE  AInv'
  BY <1>1, <1>6, ExecStep
<1>7. ASSUME NEW t \in Tasks, exit(t)
      PROVE  AInv'
  BY <1>1, <1>7, ExitStep
<1>8. ASSUME NEW t \in Tasks, reap(t)
      PROVE  AInv'
  BY <1>1, <1>8, ReapStep
<1>9. CASE UNCHANGED vars
  BY <1>1, <1>9, MapsKept DEF vars, AInv, TypeOK
<1>10. Halted => UNCHANGED vars
  BY DEF Halted
<1> QED
  BY <1>1, <1>2, <1>3, <1>4, <1>5, <1>6, <1>7, <1>8, <1>9, <1>10 DEF Next

(* The inductive invariant holds: types, exact reference counts, and what  *)
(* copying and freeing rely on, across fork, exec, page faults and ~Task.  *)
THEOREM MapsInductive ==
  Spec => []AInv
<1>1. Init => AInv
  BY InitAInv
<1>2. AInv /\ [Next]_vars => AInv'
  BY InvStep
<1> QED
  BY <1>1, <1>2, PTL DEF Spec

(* What copying and freeing rely on: a task maps a frame once, shared      *)
(* entries are copy-on-write, and no frame serves two purposes.            *)
THEOREM MapsConsistent ==
  Spec => []MapInv
<1>1. AInv => MapInv
  BY DEF AInv
<1> QED
  BY <1>1, MapsInductive, PTL

(* Every page_ref_count is the number of page table entries of its frame,  *)
(* for any number of tasks, pages and frames.                              *)
THEOREM CountsExact ==
  Spec => []RefCountExact
<1>1. AInv => RefCountExact
  BY DEF AInv
<1> QED
  BY <1>1, MapsInductive, PTL

(* A frame that two entries map is read-only and copy-on-write in both:    *)
(* no store reaches it without handle_page_fault.                          *)
THEOREM SharedReadOnly ==
  Spec => []SharedIsReadOnly
<1>1. AInv => SharedIsReadOnly
  <2>1. SUFFICES ASSUME AInv, NEW f \in Frames, Cardinality(UsersIn(pte, f)) > 1,
                        NEW tv \in UsersIn(pte, f)
                 PROVE  pte[tv[1]][tv[2]].ro /\ pte[tv[1]][tv[2]].cow
    BY DEF SharedIsReadOnly, Users, UsersIn
  <2>2. PICK t \in Tasks, v \in Pages : tv = <<t, v>> /\ pte[t][v].frame = f
    BY UsersPair
  <2>3. Cardinality(UsersIn(pte, f)) # 1
    BY <2>1, UsersFinite
  <2>4. Others(pte, f, t, v)
    BY <2>2, <2>3, UsersMany
  <2>5. PICK u \in Tasks, w \in Pages : <<u, w>> # <<t, v>> /\ pte[u][w].frame = f
    BY <2>4 DEF Others
  <2>6. pte[t][v].ro /\ pte[t][v].cow
    BY <2>1, <2>2, <2>5 DEF AInv, MapInv, SharedInv
  <2> QED
    BY <2>2, <2>6
<1> QED
  BY <1>1, MapsInductive, PTL

(* Every frame handed out is mapped, spare or lost, and never two of them. *)
THEOREM NoFrameMixedUp ==
  Spec => []FramesAccounted
<1>1. AInv => FramesAccounted
  <2>1. SUFFICES ASSUME AInv PROVE FramesAccounted
    OBVIOUS
  <2> DEFINE mapped == {f \in Frames : Users(f) # {}}
             spare == {ustack_page[t] : t \in {u \in Tasks : status[u] # "unused"}}
  <2>2. \A f : f \in mapped <=>
          f \in Frames /\ \E t \in Tasks, v \in Pages : pte[t][v].frame = f
    <3>1. ASSUME NEW f
          PROVE  Users(f) # {} <=> \E t \in Tasks, v \in Pages : pte[t][v].frame = f
      <4>1. Users(f) = UsersIn(pte, f)
        BY DEF Users, UsersIn
      <4> QED
        <5>1. ASSUME Users(f) # {}
              PROVE  \E t \in Tasks, v \in Pages : pte[t][v].frame = f
          <6>1. PICK x : x \in UsersIn(pte, f)
            BY <4>1, <5>1
          <6> QED
            BY <6>1, UsersPair
        <5>2. ASSUME NEW t \in Tasks, NEW v \in Pages, pte[t][v].frame = f
              PROVE  Users(f) # {}
          <6>1. <<t, v>> \in UsersIn(pte, f)
            BY <5>2, UsersMember, Zenon
          <6> QED
            BY <4>1, <6>1
        <5> QED
          BY <5>1, <5>2
    <3> QED
      BY <3>1
  <2>3. \A f : f \in spare <=> f \in Frames /\ \E t \in Tasks : ustack_page[t] = f
    BY <2>1 DEF AInv, MapInv, SlotInv
  <2>4. None \notin Frames /\ \A t \in Tasks : ustack_page[t] \in Frames \cup {None}
    BY <2>1, AddressSpacesAssumption DEF AInv, TypeOK
  <2>5. allocated \subseteq Frames /\ lost \subseteq Frames
    BY <2>1 DEF AInv, TypeOK
  <2> HIDE DEF mapped, spare
  <2>6. allocated = mapped \cup spare \cup lost
    <3>1. \A f \in allocated : f \in mapped \cup spare \cup lost
      BY <2>1, <2>2, <2>3, <2>5 DEF AInv, MapInv, FrameInv
    <3>2. \A f \in mapped \cup spare \cup lost : f \in allocated
      BY <2>1, <2>2, <2>3, <2>5 DEF AInv, MapInv, FrameInv
    <3> QED
      BY <3>1, <3>2
  <2>7. mapped \cap (spare \cup lost) = {} /\ spare \cap lost = {}
    BY <2>1, <2>2, <2>3 DEF AInv, MapInv, FrameInv
  <2>8. \A t, u \in Tasks : ustack_page[t] = ustack_page[u] =>
          t = u \/ ustack_page[t] = None
    BY <2>1, <2>4 DEF AInv, MapInv, FrameInv
  <2> QED
    BY <2>6, <2>7, <2>8 DEF FramesAccounted, mapped, spare
<1> QED
  BY <1>1, MapsInductive, PTL


-----------------------------------------------------------------------------
(* Copy-on-write implements private memory.                                *)

Memories == [Tasks -> [Pages -> Values \cup {None}]]

(* Two memories are equal if each task reads the same in each.             *)
LEMMA SameMemory ==
  ASSUME NEW m \in Memories, NEW n \in Memories,
         \A u \in Tasks, w \in Pages : n[u][w] = m[u][w]
  PROVE  n = m
<1>1. \A u \in Tasks : m[u] \in [Pages -> Values \cup {None}]
                       /\ n[u] \in [Pages -> Values \cup {None}]
  BY DEF Memories
<1>2. \A u \in Tasks : n[u] = m[u]
  BY <1>1
<1> QED
  BY <1>2 DEF Memories

(* One page is written.                                                    *)
Wrote(m, n, t, v, val) ==
  /\ m \in Memories /\ n \in Memories
  /\ n[t][v] = val
  /\ \A u \in Tasks, w \in Pages : <<u, w>> # <<t, v>> => n[u][w] = m[u][w]

LEMMA WroteMemory ==
  ASSUME NEW m, NEW n, NEW t \in Tasks, NEW v \in Pages, NEW val \in Values,
         Wrote(m, n, t, v, val)
  PROVE  n = [m EXCEPT ![t][v] = val]
<1> DEFINE k == [m EXCEPT ![t][v] = val]
<1>1. m \in Memories /\ n \in Memories
  BY DEF Wrote
<1>2. k \in Memories
  BY <1>1 DEF Memories
<1>3. \A u \in Tasks, w \in Pages :
        k[u][w] = IF u = t /\ w = v THEN val ELSE m[u][w]
  BY <1>1 DEF Memories
<1>4. \A u \in Tasks, w \in Pages : n[u][w] = k[u][w]
  BY <1>3 DEF Wrote
<1> HIDE DEF k
<1>5. n = k
  BY <1>1, <1>2, <1>4, SameMemory
<1> QED
  BY <1>5 DEF k

(* The memory of one task is replaced.                                     *)
Became(m, n, t, img) ==
  /\ m \in Memories /\ n \in Memories
  /\ img \in [Pages -> Values \cup {None}]
  /\ \A w \in Pages : n[t][w] = img[w]
  /\ \A u \in Tasks, w \in Pages : u # t => n[u][w] = m[u][w]

LEMMA BecameMemory ==
  ASSUME NEW m, NEW n, NEW t \in Tasks, NEW img, Became(m, n, t, img)
  PROVE  n = [m EXCEPT ![t] = img]
<1> DEFINE k == [m EXCEPT ![t] = img]
<1>1. m \in Memories /\ n \in Memories /\ img \in [Pages -> Values \cup {None}]
  BY DEF Became
<1>2. k \in Memories
  BY <1>1 DEF Memories
<1>3. \A u \in Tasks, w \in Pages :
        k[u][w] = IF u = t THEN img[w] ELSE m[u][w]
  BY <1>1 DEF Memories
<1>4. \A u \in Tasks, w \in Pages : n[u][w] = k[u][w]
  BY <1>3 DEF Became
<1> HIDE DEF k
<1>5. n = k
  BY <1>1, <1>2, <1>4, SameMemory
<1> QED
  BY <1>5 DEF k

(* What a task reads.                                                      *)
LEMMA MemoryFacts ==
  ASSUME AInv
  PROVE  /\ Memory \in Memories
         /\ \A u \in Tasks, w \in Pages :
              /\ pte[u][w].frame \in Frames =>
                   Memory[u][w] = content[pte[u][w].frame] /\ Memory[u][w] \in Values
              /\ pte[u][w].frame \notin Frames => Memory[u][w] = None
<1>1. ASSUME NEW u \in Tasks, NEW w \in Pages
      PROVE  /\ pte[u][w].frame \in Frames =>
                  Memory[u][w] = content[pte[u][w].frame] /\ Memory[u][w] \in Values
             /\ pte[u][w].frame \notin Frames => Memory[u][w] = None
             /\ Memory[u][w] \in Values \cup {None}
  <2>1. Memory[u][w] = IF pte[u][w] = INVALID THEN None ELSE content[pte[u][w].frame]
    BY DEF Memory
  <2>2. pte[u][w].frame \in Frames <=> pte[u][w] # INVALID
    BY EntryFacts DEF AInv, Mapped
  <2>3. pte[u][w].frame \in Frames => content[pte[u][w].frame] \in Values
    BY DEF AInv, MapInv, ContentInv
  <2> QED
    BY <2>1, <2>2, <2>3
<1>2. Memory = [u \in Tasks |-> [w \in Pages |-> Memory[u][w]]]
  BY DEF Memory
<1>3. Memory \in Memories
  BY <1>1, <1>2 DEF Memories
<1> QED
  BY <1>1, <1>3

LEMMA MemoryFactsAfter ==
  ASSUME AInv'
  PROVE  /\ Memory' \in Memories
         /\ \A u \in Tasks, w \in Pages :
              /\ pte'[u][w].frame \in Frames =>
                   Memory'[u][w] = content'[pte'[u][w].frame] /\ Memory'[u][w] \in Values
              /\ pte'[u][w].frame \notin Frames => Memory'[u][w] = None
<1>1. ASSUME NEW u \in Tasks, NEW w \in Pages
      PROVE  /\ pte'[u][w].frame \in Frames =>
                  Memory'[u][w] = content'[pte'[u][w].frame] /\ Memory'[u][w] \in Values
             /\ pte'[u][w].frame \notin Frames => Memory'[u][w] = None
             /\ Memory'[u][w] \in Values \cup {None}
  <2>1. Memory'[u][w] = IF pte'[u][w] = INVALID THEN None ELSE content'[pte'[u][w].frame]
    BY DEF Memory
  <2>2. pte'[u][w].frame \in Frames <=> pte'[u][w] # INVALID
    <3>1. pte'[u][w] \in Entries
      BY DEF AInv, TypeOK
    <3>2. CASE pte'[u][w] = INVALID
      BY <3>2, AddressSpacesAssumption DEF INVALID
    <3>3. CASE pte'[u][w] \in [frame : Frames, ro : BOOLEAN, cow : BOOLEAN]
      BY <3>3, AddressSpacesAssumption DEF INVALID
    <3> QED
      BY <3>1, <3>2, <3>3 DEF Entries
  <2>3. pte'[u][w].frame \in Frames => content'[pte'[u][w].frame] \in Values
    BY DEF AInv, MapInv, ContentInv
  <2> QED
    BY <2>1, <2>2, <2>3
<1>2. Memory' = [u \in Tasks |-> [w \in Pages |-> Memory'[u][w]]]
  BY DEF Memory
<1>3. Memory' \in Memories
  BY <1>1, <1>2 DEF Memories
<1> QED
  BY <1>1, <1>3

LEMMA InitMemory ==
  Init => Promise!Init
<1>1. SUFFICES ASSUME Init PROVE Promise!Init
  OBVIOUS
<1>2. pte = [t \in Tasks |-> [v \in Pages |-> INVALID]] /\ request = <<"boot">>
  BY <1>1 DEF Init
<1>3. Memory = [t \in Tasks |-> [v \in Pages |-> None]]
  BY <1>2 DEF Memory
<1> QED
  BY <1>2, <1>3 DEF Promise!Init, Promise!Empty


(* A step or a stutter of the promise.                                     *)
Allowed == [Promise!Next]_<<Memory, request>>

(* panic(), exit() and a step that does nothing.                           *)
LEMMA KeptMemory ==
  ASSUME UNCHANGED <<pte, content, request>>
  PROVE  Allowed
<1>1. Memory' = Memory
  BY DEF Memory
<1> QED
  BY <1>1 DEF Allowed

(* A fresh frame holds val at page v, and nothing else changes.            *)
Filled(t, v, f, e, val) ==
  /\ val \in Values /\ f \in Frames \ allocated /\ e.frame = f
  /\ pte' = [pte EXCEPT ![t][v] = e]
  /\ content' = [content EXCEPT ![f] = val]

LEMMA FreshMemory ==
  ASSUME AInv, AInv', NEW t \in Tasks, NEW v \in Pages, NEW val, NEW f, NEW e,
         Filled(t, v, f, e, val)
  PROVE  Memory' = [Memory EXCEPT ![t][v] = val]
<1>1. /\ \A u \in Tasks, w \in Pages : <<u, w>> # <<t, v>> => pte'[u][w] = pte[u][w]
      /\ pte'[t][v] = e
      /\ \A g \in Frames : content'[g] = IF g = f THEN val ELSE content[g]
  BY DEF Filled, AInv, TypeOK
<1>2. \A u \in Tasks, w \in Pages : pte[u][w].frame # f
  BY DEF Filled, AInv, MapInv, FrameInv
<1>3. Memory'[t][v] = val
  BY <1>1, MemoryFactsAfter DEF Filled
<1>4. ASSUME NEW u \in Tasks, NEW w \in Pages, <<u, w>> # <<t, v>>
      PROVE  Memory'[u][w] = Memory[u][w]
  <2>1. CASE pte[u][w].frame \in Frames
    BY <1>1, <1>2, <1>4, <2>1, MemoryFacts, MemoryFactsAfter
  <2>2. CASE pte[u][w].frame \notin Frames
    BY <1>1, <1>4, <2>2, MemoryFacts, MemoryFactsAfter
  <2> QED
    BY <2>1, <2>2
<1>5. Wrote(Memory, Memory', t, v, val)
  BY <1>3, <1>4, MemoryFacts, MemoryFactsAfter DEF Wrote
<1>6. val \in Values
  BY DEF Filled
<1> QED
  BY <1>5, <1>6, WroteMemory

LEMMA MmapMemory ==
  ASSUME AInv, AInv', NEW t \in Tasks, NEW v \in Pages, NEW writable \in BOOLEAN,
         NEW val \in Values, mmap(t, v, writable, val)
  PROVE  Allowed
<1>1. CASE panic
  BY <1>1, KeptMemory DEF panic
<1>2. CASE ~panic
  <2>1. PICK f \in get_free_page :
          /\ pte' = [pte EXCEPT ![t][v] = Entry(f, writable)]
          /\ content' = [content EXCEPT ![f] = val]
          /\ request' = <<"mmap", t, v, val>>
    BY <1>2 DEF mmap
  <2>2. v \notin Mapped(t)
    BY <1>2 DEF mmap
  <2>3. Memory[t][v] = None
    <3>1. pte[t][v].frame \notin Frames
      BY <2>2, EntryFacts DEF AInv
    <3> QED
      BY <3>1, MemoryFacts
  <2>4. f \in Frames \ allocated /\ Entry(f, writable).frame = f
    BY DEF get_free_page, Entry
  <2>5. Memory' = [Memory EXCEPT ![t][v] = val]
    <3>1. Filled(t, v, f, Entry(f, writable), val)
      BY <2>1, <2>4 DEF Filled
    <3> QED
      BY <3>1, FreshMemory
  <2>6. Promise!Map(t, v, val)
    BY <2>1, <2>3, <2>5 DEF Promise!Map
  <2> QED
    BY <2>6 DEF Allowed, Promise!Next
<1> QED
  BY <1>1, <1>2

(* A store changes what one task reads if the frame has no other user.     *)
LEMMA WriteMemory ==
  ASSUME AInv, AInv', NEW t \in Tasks, NEW v \in Pages, NEW val \in Values,
         v \in Mapped(t), Write(t, v, val),
         \A u \in Tasks, w \in Pages :
            pte[u][w].frame = pte[t][v].frame => u = t /\ w = v
  PROVE  Allowed
<1> DEFINE f == pte[t][v].frame
<1>1. f \in Frames
  BY EntryFacts DEF AInv
<1>2. /\ pte' = pte /\ request' = <<"store", t, v, val>>
      /\ \A g \in Frames : content'[g] = IF g = f THEN val ELSE content[g]
  BY DEF Write, AInv, TypeOK
<1>3. Memory'[t][v] = val
  BY <1>1, <1>2, MemoryFactsAfter
<1>4. ASSUME NEW u \in Tasks, NEW w \in Pages, <<u, w>> # <<t, v>>
      PROVE  Memory'[u][w] = Memory[u][w]
  <2>1. CASE pte[u][w].frame \in Frames
    <3>1. pte[u][w].frame # f
      BY <1>4
    <3> QED
      BY <1>2, <2>1, <3>1, MemoryFacts, MemoryFactsAfter
  <2>2. CASE pte[u][w].frame \notin Frames
    BY <1>2, <2>2, MemoryFacts, MemoryFactsAfter
  <2> QED
    BY <2>1, <2>2
<1>5. Wrote(Memory, Memory', t, v, val)
  BY <1>3, <1>4, MemoryFacts, MemoryFactsAfter DEF Wrote
<1>6. Memory' = [Memory EXCEPT ![t][v] = val]
  BY <1>5, WroteMemory
<1>7. Memory[t][v] # None
  BY <1>1, MemoryFacts, AddressSpacesAssumption
<1>8. Promise!Store(t, v, val)
  BY <1>2, <1>6, <1>7 DEF Promise!Store
<1> QED
  BY <1>8 DEF Allowed, Promise!Next

LEMMA StoreMemory ==
  ASSUME AInv, AInv', NEW t \in Tasks, NEW v \in Pages, NEW val \in Values,
         store(t, v, val)
  PROVE  Allowed
<1>1. v \in Mapped(t) /\ ~pte[t][v].ro /\ Write(t, v, val)
  BY DEF store
<1>2. pte[t][v].frame \in Frames
  BY <1>1, EntryFacts DEF AInv
<1>3. \A u \in Tasks, w \in Pages :
        pte[u][w].frame = pte[t][v].frame => u = t /\ w = v
  BY <1>1, <1>2 DEF AInv, MapInv, SharedInv
<1> QED
  BY <1>1, <1>3, WriteMemory

LEMMA KernelStoreMemory ==
  ASSUME AInv, AInv', ~KernelStores, NEW t \in Tasks, NEW v \in Pages,
         NEW val \in Values, kernel_store(t, v, val)
  PROVE  Allowed
<1>1. v \in Mapped(t) /\ page_ref_count[pte[t][v].frame] = 1 /\ Write(t, v, val)
  BY DEF kernel_store
<1>2. pte[t][v].frame \in Frames
  BY <1>1, EntryFacts DEF AInv
<1>3. Cardinality(UsersIn(pte, pte[t][v].frame)) = 1
  BY <1>1, <1>2, Counts DEF AInv
<1>4. \A u \in Tasks, w \in Pages :
        pte[u][w].frame = pte[t][v].frame => u = t /\ w = v
  BY <1>3, UsersOne
<1> QED
  BY <1>1, <1>4, WriteMemory


(* A page fault is invisible.                                              *)
LEMMA FaultMemory ==
  ASSUME AInv, AInv', NEW t \in Tasks, NEW v \in Pages, handle_page_fault(t, v)
  PROVE  Allowed
<1> DEFINE old == pte[t][v].frame
<1>1. request' = request
  BY DEF handle_page_fault
<1>2. CASE ~pte[t][v].cow
  BY <1>2, KeptMemory DEF handle_page_fault
<1>3. CASE pte[t][v].cow
  <2>1. copy_page_frame(t, v)
    BY <1>3 DEF handle_page_fault
  <2>2. old \in Frames
    BY <1>3, EntryFacts DEF AInv, INVALID
  <2>3. CASE page_ref_count[old] = 1
    <3>1. /\ pte' = [pte EXCEPT ![t][v] = [frame |-> old, ro |-> FALSE, cow |-> FALSE]]
          /\ content' = content
      BY <2>1, <2>3 DEF copy_page_frame
    <3>2. \A u \in Tasks, w \in Pages : pte'[u][w].frame = pte[u][w].frame
      BY <3>1 DEF AInv, TypeOK
    <3>3. ASSUME NEW u \in Tasks, NEW w \in Pages PROVE Memory'[u][w] = Memory[u][w]
      BY <3>1, <3>2, MemoryFacts, MemoryFactsAfter
    <3>4. Memory' = Memory
      BY <3>3, MemoryFacts, MemoryFactsAfter, SameMemory
    <3> QED
      BY <1>1, <3>4 DEF Allowed
  <2>4. CASE page_ref_count[old] # 1 /\ get_free_page = {}
    BY <1>1, <2>1, <2>4, KeptMemory DEF copy_page_frame
  <2>5. CASE page_ref_count[old] # 1 /\ get_free_page # {}
    <3>1. PICK f \in get_free_page :
            /\ content' = [content EXCEPT ![f] = content[old]]
            /\ pte' = [pte EXCEPT ![t][v] = [frame |-> f, ro |-> FALSE, cow |-> FALSE]]
      BY <2>1, <2>5 DEF copy_page_frame
    <3>2. content[old] \in Values /\ Memory[t][v] = content[old]
      BY <2>2, MemoryFacts
    <3>3. f \in Frames \ allocated
      BY DEF get_free_page
    <3>4. Filled(t, v, f, [frame |-> f, ro |-> FALSE, cow |-> FALSE], content[old])
      BY <3>1, <3>2, <3>3 DEF Filled
    <3>5. Memory' = [Memory EXCEPT ![t][v] = content[old]]
      BY <3>4, FreshMemory
    <3>6. Memory' = Memory
      BY <3>2, <3>5, MemoryFacts DEF Memories
    <3> QED
      BY <1>1, <3>6 DEF Allowed
  <2> QED
    BY <2>3, <2>4, <2>5
<1> QED
  BY <1>2, <1>3

LEMMA ForkMemory ==
  ASSUME AInv, AInv', NEW p \in Tasks, NEW c \in Tasks, fork(p, c)
  PROVE  Allowed
<1>1. CASE get_free_page = {}
  BY <1>1, KeptMemory DEF fork, panic
<1>2. CASE get_free_page # {}
  <2>1. PICK f \in get_free_page : Forked(p, c, f)
    BY <1>2 DEF fork, Forked, InUserMode, get_free_page
  <2>2. request' = <<"fork", p, c>>
    BY <1>2 DEF fork
  <2>3. /\ \A w \in Pages : pte[c][w] = INVALID
        /\ \A u \in Tasks, w \in Pages : u # p /\ u # c => pte'[u][w] = pte[u][w]
        /\ \A u \in {p, c}, w \in Pages : pte'[u][w].frame = pte[p][w].frame
    BY <2>1, ForkedTables
  <2>4. f \in Frames \ allocated
    BY DEF get_free_page
  <2>5. \A g \in Frames : g # f => content'[g] = content[g]
    BY <2>1 DEF Forked, AInv, TypeOK
  <2>6. \A u \in Tasks, w \in Pages : pte[u][w].frame # f
    BY <2>4 DEF AInv, MapInv, FrameInv
  <2>7. \A w \in Pages : Memory'[p][w] = Memory[p][w] /\ Memory'[c][w] = Memory[p][w]
    BY <2>3, <2>5, <2>6, MemoryFacts, MemoryFactsAfter
  <2>8. \A u \in Tasks, w \in Pages : u # p /\ u # c => Memory'[u][w] = Memory[u][w]
    BY <2>3, <2>5, <2>6, MemoryFacts, MemoryFactsAfter
  <2>9. Memory[p] \in [Pages -> Values \cup {None}] /\ Memory[c] \in [Pages -> Values \cup {None}]
    BY MemoryFacts DEF Memories
  <2>10. Became(Memory, Memory', c, Memory[p])
    BY <2>7, <2>8, <2>9, MemoryFacts, MemoryFactsAfter DEF Became
  <2>11. Memory' = [Memory EXCEPT ![c] = Memory[p]]
    BY <2>10, BecameMemory
  <2>12. Memory[c] = [w \in Pages |-> None]
    <3>1. INVALID.frame \notin Frames
      BY AddressSpacesAssumption DEF INVALID
    <3>2. \A w \in Pages : Memory[c][w] = None
      BY <2>3, <3>1, MemoryFacts
    <3> QED
      BY <2>9, <3>2
  <2>13. Promise!Fork(p, c)
    BY <2>2, <2>11, <2>12 DEF Promise!Fork, Promise!Empty
  <2> QED
    BY <2>13 DEF Allowed, Promise!Next
<1> QED
  BY <1>1, <1>2


LEMMA ExecMemory ==
  ASSUME AInv, AInv', NEW t \in Tasks, NEW args \in Values, NEW image \in Images,
         NEW writable \in BOOLEAN, exec(t, args, image, writable)
  PROVE  Allowed
<1> DEFINE img == [v \in Pages |->
                     IF v = USER_STACK_PAGE THEN args
                     ELSE IF v \in DOMAIN image THEN image[v] ELSE None]
<1>1. CASE panic
  BY <1>1, KeptMemory DEF panic
<1>2. CASE ~panic
  <2>1. PICK new, at : /\ Loads(t, args, image, writable, new, at)
                       /\ request' = <<"exec", t, img>>
    BY <1>2, ExecLoads
  <2>2. /\ \A u \in Tasks, w \in Pages : u # t => pte'[u][w] = pte[u][w]
        /\ pte'[t][USER_STACK_PAGE].frame = ustack_page[t]
        /\ \A v \in DOMAIN image : pte'[t][v].frame = at[v]
        /\ \A v \in Pages : v \notin DOMAIN image /\ v # USER_STACK_PAGE =>
               pte'[t][v] = INVALID
        /\ content'[ustack_page[t]] = args
        /\ \A v \in DOMAIN image : content'[at[v]] = image[v]
        /\ \A u \in Tasks, w \in Pages :
               u # t /\ pte[u][w].frame \in Frames =>
                  content'[pte[u][w].frame] = content[pte[u][w].frame]
    BY <2>1, LoadedContent
  <2>3. ustack_page[t] \in Frames /\ \A v \in DOMAIN image : at[v] \in Frames
    BY <2>1, LoadedFrames
  <2>4. /\ DOMAIN image \subseteq Pages \ {USER_STACK_PAGE}
        /\ \A v \in DOMAIN image : image[v] \in Values
    BY <2>1 DEF Loads
  <2>5. INVALID.frame \notin Frames /\ USER_STACK_PAGE \in Pages
    BY AddressSpacesAssumption DEF INVALID
  <2>6. img \in [Pages -> Values \cup {None}]
    BY <2>4
  <2>7. ASSUME NEW w \in Pages PROVE Memory'[t][w] = img[w]
    <3>1. CASE w = USER_STACK_PAGE
      BY <2>2, <2>3, <3>1, MemoryFactsAfter
    <3>2. CASE w \in DOMAIN image
      <4>1. img[w] = image[w] /\ pte'[t][w].frame = at[w] /\ at[w] \in Frames
        BY <2>2, <2>3, <2>4, <3>2
      <4> QED
        BY <2>2, <3>2, <4>1, MemoryFactsAfter
    <3>3. CASE w # USER_STACK_PAGE /\ w \notin DOMAIN image
      BY <2>2, <2>5, <3>3, MemoryFactsAfter
    <3> QED
      BY <3>1, <3>2, <3>3
  <2>8. \A u \in Tasks, w \in Pages : u # t => Memory'[u][w] = Memory[u][w]
    BY <2>2, MemoryFacts, MemoryFactsAfter
  <2> HIDE DEF img
  <2>9. Became(Memory, Memory', t, img)
    BY <2>6, <2>7, <2>8, MemoryFacts, MemoryFactsAfter DEF Became
  <2>10. Memory' = [Memory EXCEPT ![t] = img]
    BY <2>9, BecameMemory
  <2>11. Promise!Exec(t, img)
    BY <2>1, <2>10 DEF Promise!Exec
  <2> QED
    BY <2>6, <2>11 DEF Allowed, Promise!Next
<1> QED
  BY <1>1, <1>2

LEMMA ReapMemory ==
  ASSUME AInv, AInv', NEW t \in Tasks, reap(t)
  PROVE  Allowed
<1> DEFINE img == [v \in Pages |-> None]
<1>1. /\ \A w \in Pages : pte'[t][w] = INVALID
      /\ \A u \in Tasks, w \in Pages : u # t => pte'[u][w] = pte[u][w]
      /\ content' = content
      /\ request' = <<"release", t>>
  BY DEF reap, AInv, TypeOK
<1>2. INVALID.frame \notin Frames
  BY AddressSpacesAssumption DEF INVALID
<1>3. \A w \in Pages : Memory'[t][w] = img[w]
  BY <1>1, <1>2, MemoryFactsAfter
<1>4. \A u \in Tasks, w \in Pages : u # t => Memory'[u][w] = Memory[u][w]
  BY <1>1, MemoryFacts, MemoryFactsAfter
<1>5. img \in [Pages -> Values \cup {None}]
  OBVIOUS
<1> HIDE DEF img
<1>6. Became(Memory, Memory', t, img)
  BY <1>3, <1>4, <1>5, MemoryFacts, MemoryFactsAfter DEF Became
<1>7. Memory' = [Memory EXCEPT ![t] = img]
  BY <1>6, BecameMemory
<1>8. Promise!Release(t)
  BY <1>1, <1>7 DEF Promise!Release, Promise!Empty, img
<1> QED
  BY <1>8 DEF Allowed, Promise!Next

LEMMA ExitMemory ==
  ASSUME NEW t \in Tasks, exit(t)
  PROVE  Allowed
BY KeptMemory DEF exit, panic

LEMMA MemoryStep ==
  ASSUME ~KernelStores
  PROVE  AInv /\ AInv' /\ [Next]_vars => [Promise!Next]_<<Memory, request>>
<1>1. SUFFICES ASSUME AInv, AInv', [Next]_vars PROVE Allowed
  BY DEF Allowed
<1>2. ASSUME NEW t \in Tasks, NEW v \in Pages, NEW writable \in BOOLEAN,
             NEW val \in Values, mmap(t, v, writable, val)
      PROVE  Allowed
  BY <1>1, <1>2, MmapMemory
<1>3. ASSUME NEW t \in Tasks, NEW v \in Pages, NEW val \in Values, store(t, v, val)
      PROVE  Allowed
  BY <1>1, <1>3, StoreMemory
<1>4. ASSUME NEW t \in Tasks, NEW v \in Pages, NEW val \in Values, kernel_store(t, v, val)
      PROVE  Allowed
  BY <1>1, <1>4, KernelStoreMemory
<1>5. ASSUME NEW t \in Tasks, NEW v \in Pages, handle_page_fault(t, v)
      PROVE  Allowed
  BY <1>1, <1>5, FaultMemory
<1>6. ASSUME NEW p \in Tasks, NEW c \in Tasks, fork(p, c)
      PROVE  Allowed
  BY <1>1, <1>6, ForkMemory
<1>7. ASSUME NEW t \in Tasks, NEW args \in Values, NEW image \in Images,
             NEW writable \in BOOLEAN, exec(t, args, image, writable)
      PROVE  Allowed
  BY <1>1, <1>7, ExecMemory
<1>8. ASSUME NEW t \in Tasks, exit(t)
      PROVE  Allowed
  BY <1>8, ExitMemory
<1>9. ASSUME NEW t \in Tasks, reap(t)
      PROVE  Allowed
  BY <1>1, <1>9, ReapMemory
<1>10. CASE UNCHANGED vars
  BY <1>10, KeptMemory DEF vars
<1>11. Halted => UNCHANGED vars
  BY DEF Halted
<1> QED
  BY <1>1, <1>2, <1>3, <1>4, <1>5, <1>6, <1>7, <1>8, <1>9, <1>10, <1>11 DEF Next

(* Copy-on-write is invisible, for any number of tasks, pages and frames:  *)
(* if system calls store to unshared frames only, AddressSpaces implements *)
(* PrivateMemory.                                                          *)
THEOREM CopyOnWriteIsInvisible ==
  ASSUME ~KernelStores
  PROVE  Spec => MemoryIsPrivate
<1>1. Init => Promise!Init
  BY InitMemory
<1>2. AInv /\ AInv' /\ [Next]_vars => [Promise!Next]_<<Memory, request>>
  BY MemoryStep
<1> QED
  BY <1>1, <1>2, MapsInductive, PTL DEF Spec, MemoryIsPrivate, Promise!Spec
=============================================================================
