--------------------- MODULE AddressSpacesSteps_proofs ----------------------
(***************************************************************************)
(* The invariant of AddressSpaces, what a change of the page tables does   *)
(* to the number of users of a frame, and that every step, from mmap(),    *)
(* page faults and fork() to exec(), exit() and the destructors of a task, *)
(* keeps the invariant.                                                    *)
(***************************************************************************)
EXTENDS AddressSpaces, FiniteSetTheorems, TLAPS

-----------------------------------------------------------------------------
(* Page table entries.                                                     *)

(* VMMap: an entry maps a frame or is invalid.                             *)
LEMMA EntryFacts ==
  ASSUME TypeOK, NEW t \in Tasks, NEW v \in Pages
  PROVE  /\ pte[t][v] \in Entries
         /\ pte[t][v].frame \in Frames \/ pte[t][v].frame = None
         /\ pte[t][v].frame \in Frames <=> v \in Mapped(t)
         /\ pte[t][v].frame = None <=> pte[t][v] = INVALID
<1>1. pte[t][v] \in Entries
  BY DEF TypeOK
<1>2. CASE pte[t][v] = INVALID
  BY <1>1, <1>2, AddressSpacesAssumption DEF INVALID, Mapped
<1>3. CASE pte[t][v] \in [frame : Frames, ro : BOOLEAN, cow : BOOLEAN]
  BY <1>1, <1>3, AddressSpacesAssumption DEF INVALID, Mapped
<1> QED
  BY <1>1, <1>2, <1>3 DEF Entries

(* FramesOf, by the frames of the entries.                                 *)
LEMMA FramesOfFacts ==
  ASSUME TypeOK, NEW t \in Tasks, NEW f \in Frames
  PROVE  f \in FramesOf(t) <=> \E v \in Pages : pte[t][v].frame = f
BY EntryFacts DEF FramesOf, Mapped

-----------------------------------------------------------------------------
(* How many entries of the page tables pt map a frame.                     *)

UsersIn(pt, f) == {tv \in Tasks \X Pages : pt[tv[1]][tv[2]].frame = f}

LEMMA UsersMember ==
  ASSUME NEW pt, NEW f, NEW t \in Tasks, NEW v \in Pages
  PROVE  <<t, v>> \in UsersIn(pt, f) <=> pt[t][v].frame = f
BY DEF UsersIn

LEMMA UsersPair ==
  ASSUME NEW pt, NEW f, NEW x \in UsersIn(pt, f)
  PROVE  \E t \in Tasks, v \in Pages : x = <<t, v>> /\ pt[t][v].frame = f
BY DEF UsersIn

LEMMA UsersFinite ==
  ASSUME NEW pt, NEW f
  PROVE  IsFiniteSet(UsersIn(pt, f)) /\ Cardinality(UsersIn(pt, f)) \in Nat
<1>1. IsFiniteSet(Tasks \X Pages)
  BY AddressSpacesAssumption, FS_Product
<1>2. UsersIn(pt, f) \subseteq Tasks \X Pages
  BY DEF UsersIn
<1> QED
  BY <1>1, <1>2, FS_Subset, FS_CardinalityType

(* No entry starts or stops to map f.                                      *)
LEMMA UsersSame ==
  ASSUME NEW pt, NEW qt, NEW f,
         \A u \in Tasks, w \in Pages : qt[u][w].frame = f <=> pt[u][w].frame = f
  PROVE  UsersIn(qt, f) = UsersIn(pt, f)
<1>1. ASSUME NEW x \in UsersIn(qt, f) PROVE x \in UsersIn(pt, f)
  <2>1. PICK u \in Tasks, w \in Pages : x = <<u, w>> /\ qt[u][w].frame = f
    BY UsersPair
  <2> QED
    BY <2>1, UsersMember, Zenon
<1>2. ASSUME NEW x \in UsersIn(pt, f) PROVE x \in UsersIn(qt, f)
  <2>1. PICK u \in Tasks, w \in Pages : x = <<u, w>> /\ pt[u][w].frame = f
    BY UsersPair
  <2> QED
    BY <2>1, UsersMember, Zenon
<1> QED
  BY <1>1, <1>2

(* One more entry maps f.                                                  *)
Gained(pt, qt, f, t, v) ==
  /\ pt[t][v].frame # f
  /\ qt[t][v].frame = f
  /\ \A u \in Tasks, w \in Pages : <<u, w>> # <<t, v>> =>
        (qt[u][w].frame = f <=> pt[u][w].frame = f)

LEMMA UsersGain ==
  ASSUME NEW pt, NEW qt, NEW f, NEW t \in Tasks, NEW v \in Pages,
         Gained(pt, qt, f, t, v)
  PROVE  Cardinality(UsersIn(qt, f)) = Cardinality(UsersIn(pt, f)) + 1
<1>1. <<t, v>> \notin UsersIn(pt, f)
  BY DEF UsersIn, Gained
<1>2. ASSUME NEW x \in UsersIn(qt, f) PROVE x \in UsersIn(pt, f) \cup {<<t, v>>}
  <2>1. PICK u \in Tasks, w \in Pages : x = <<u, w>> /\ qt[u][w].frame = f
    BY UsersPair
  <2>2. CASE <<u, w>> = <<t, v>>
    BY <2>1, <2>2
  <2>3. CASE <<u, w>> # <<t, v>>
    <3>1. pt[u][w].frame = f
      BY <2>1, <2>3 DEF Gained
    <3>2. <<u, w>> \in UsersIn(pt, f)
      BY <3>1, UsersMember, Zenon
    <3> QED
      BY <2>1, <3>2
  <2> QED
    BY <2>2, <2>3
<1>3. ASSUME NEW x \in UsersIn(pt, f) PROVE x \in UsersIn(qt, f)
  <2>1. PICK u \in Tasks, w \in Pages : x = <<u, w>> /\ pt[u][w].frame = f
    BY UsersPair
  <2>2. <<u, w>> # <<t, v>>
    BY <2>1 DEF Gained
  <2>3. qt[u][w].frame = f
    BY <2>1, <2>2 DEF Gained
  <2>4. <<u, w>> \in UsersIn(qt, f)
    BY <2>3, UsersMember, Zenon
  <2> QED
    BY <2>1, <2>4
<1>4. <<t, v>> \in UsersIn(qt, f)
  BY DEF UsersIn, Gained
<1>5. UsersIn(qt, f) = UsersIn(pt, f) \cup {<<t, v>>}
  BY <1>2, <1>3, <1>4
<1>6. IsFiniteSet(UsersIn(pt, f))
  BY UsersFinite, Zenon
<1>7. Cardinality(UsersIn(pt, f) \cup {<<t, v>>}) = Cardinality(UsersIn(pt, f)) + 1
  BY <1>1, <1>6, FS_AddElement, Zenon
<1> QED
  BY <1>5, <1>7

(* The entry that is the only one to map f, by the count.                  *)
LEMMA UsersOne ==
  ASSUME NEW pt, NEW f, Cardinality(UsersIn(pt, f)) = 1,
         NEW t \in Tasks, NEW u \in Tasks, NEW v \in Pages, NEW w \in Pages,
         pt[t][v].frame = f, pt[u][w].frame = f
  PROVE  t = u /\ v = w
<1>1. PICK x : UsersIn(pt, f) = {x}
  BY UsersFinite, FS_Singleton, Zenon
<1>2. <<t, v>> \in UsersIn(pt, f) /\ <<u, w>> \in UsersIn(pt, f)
  BY UsersMember, Zenon
<1>3. <<t, v>> = <<u, w>>
  BY <1>1, <1>2
<1> QED
  BY <1>3

(* An entry that maps f without being the only one shows in the count.     *)
Others(pt, f, t, v) ==
  \E u \in Tasks, w \in Pages : <<u, w>> # <<t, v>> /\ pt[u][w].frame = f

LEMMA UsersMany ==
  ASSUME NEW pt, NEW f, NEW t \in Tasks, NEW v \in Pages, pt[t][v].frame = f,
         Cardinality(UsersIn(pt, f)) # 1
  PROVE  Others(pt, f, t, v)
<1>1. <<t, v>> \in UsersIn(pt, f) /\ UsersIn(pt, f) # {<<t, v>>}
  BY UsersMember, FS_Singleton, Zenon
<1>2. PICK x \in UsersIn(pt, f) : x # <<t, v>>
  BY <1>1
<1>3. PICK u \in Tasks, w \in Pages : x = <<u, w>> /\ pt[u][w].frame = f
  BY UsersPair
<1> QED
  BY <1>2, <1>3 DEF Others

-----------------------------------------------------------------------------
(* Every step keeps the invariant: one lemma for each way to change the    *)
(* page tables.                                                            *)

(* The counts, by UsersIn.                                                 *)
LEMMA Counts ==
  RefCountExact <=> \A f \in Frames : page_ref_count[f] = Cardinality(UsersIn(pte, f))
BY DEF RefCountExact, Users, UsersIn

LEMMA CountsAfter ==
  RefCountExact' <=> \A f \in Frames : page_ref_count'[f] = Cardinality(UsersIn(pte', f))
BY DEF RefCountExact, Users, UsersIn

(* panic() and exit() leave the maps alone.                                *)
LEMMA MapsKept ==
  ASSUME AInv, panicked' \in BOOLEAN,
         status' \in [Tasks -> {"unused", "alive", "zombie"}],
         \A t \in Tasks : status'[t] = "unused" <=> status[t] = "unused",
         UNCHANGED <<pte, ustack_page, page_ref_count, allocated, lost, content>>
  PROVE  AInv'
<1>1. TypeOK'
  BY DEF AInv, TypeOK
<1>2. RefCountExact'
  BY Counts, CountsAfter DEF AInv
<1>3. OncePerTask' /\ ContentInv' /\ FrameInv' /\ SharedInv'
  BY DEF AInv, MapInv, OncePerTask, ContentInv, FrameInv, SharedInv
<1>4. SlotInv'
  BY DEF AInv, MapInv, SlotInv
<1> QED
  BY <1>1, <1>2, <1>3, <1>4 DEF AInv, MapInv

(* Storing a value changes the contents of a frame only.                   *)
LEMMA WriteStep ==
  ASSUME AInv, NEW t \in Tasks, NEW v \in Pages, NEW val \in Values,
         v \in Mapped(t), Write(t, v, val)
  PROVE  AInv'
<1> USE DEF Write
<1>1. TypeOK'
  BY Zenon DEF AInv, TypeOK
<1>2. RefCountExact'
  BY Counts, CountsAfter DEF AInv
<1>3. OncePerTask' /\ SlotInv' /\ FrameInv' /\ SharedInv'
  BY DEF AInv, MapInv, OncePerTask, SlotInv, FrameInv, SharedInv
<1>4. ContentInv'
  BY DEF AInv, TypeOK, MapInv, ContentInv
<1> QED
  BY <1>1, <1>2, <1>3, <1>4 DEF AInv, MapInv

(* A fresh frame f is mapped at an invalid entry, by mmap(), or at one     *)
(* whose frame has other users, by copy_page_frame().                      *)
Fresh(t, v, f, e, val) ==
  /\ status[t] # "unused"
  /\ f \in Frames \ allocated
  /\ e \in [frame : {f}, ro : BOOLEAN, cow : BOOLEAN]
  /\ val \in Values
  /\ pte[t][v].frame \notin Frames \/ page_ref_count[pte[t][v].frame] # 1
  /\ pte' = [pte EXCEPT ![t][v] = e]
  /\ allocated' = allocated \cup {f}
  /\ content' = [content EXCEPT ![f] = val]
  /\ page_ref_count' = [g \in Frames |->
        IF g = f THEN page_ref_count[g] + 1
        ELSE IF g = pte[t][v].frame THEN page_ref_count[g] - 1
        ELSE page_ref_count[g]]
  /\ UNCHANGED <<status, ustack_page, lost, panicked>>

LEMMA FreshStep ==
  ASSUME AInv, NEW t \in Tasks, NEW v \in Pages, NEW f, NEW e, NEW val,
         Fresh(t, v, f, e, val)
  PROVE  AInv'
<1> DEFINE old == pte[t][v].frame
<1>0. \A g \in Frames : page_ref_count'[g] =
        IF g = f THEN page_ref_count[g] + 1
        ELSE IF g = old THEN page_ref_count[g] - 1
        ELSE page_ref_count[g]
  BY DEF Fresh
<1>1. \A u \in Tasks, w \in Pages :
         pte'[u][w] = IF u = t /\ w = v THEN e ELSE pte[u][w]
  BY DEF Fresh, AInv, TypeOK
<1>2. e.frame = f /\ f \in Frames /\ e \in Entries
  BY DEF Fresh, Entries
<1>3. \A u \in Tasks, w \in Pages : pte[u][w].frame # f
  BY DEF Fresh, AInv, MapInv, FrameInv
<1>4. \A u \in Tasks : ustack_page[u] # f
  BY DEF Fresh, AInv, MapInv, FrameInv
<1>5. \A u \in Tasks, w \in Pages : <<u, w>> # <<t, v>> => pte'[u][w] = pte[u][w]
  BY <1>1
<1>6. pte'[t][v] = e
  BY <1>1
<1>7. ASSUME NEW g \in Frames
      PROVE  /\ page_ref_count'[g] = Cardinality(UsersIn(pte', g))
             /\ page_ref_count'[g] \in Nat
  <2>1. page_ref_count[g] = Cardinality(UsersIn(pte, g))
    BY Counts DEF Fresh, AInv
  <2>2. Cardinality(UsersIn(pte, g)) \in Nat /\ Cardinality(UsersIn(pte', g)) \in Nat
    BY UsersFinite
  <2>3. CASE g = f
    <3>1. pte[t][v].frame # g /\ pte'[t][v].frame = g
      BY <1>2, <1>3, <1>6, <2>3
    <3>2. Gained(pte, pte', g, t, v)
      BY <1>5, <3>1 DEF Gained
    <3>3. Cardinality(UsersIn(pte', g)) = Cardinality(UsersIn(pte, g)) + 1
      BY <3>2, UsersGain
    <3> QED
      BY <1>0, <2>1, <2>2, <2>3, <3>3
  <2>4. CASE g # f /\ g = old
    <3>1. pte'[t][v].frame # g /\ pte[t][v].frame = g
      BY <1>2, <1>6, <2>4
    <3>2. Gained(pte', pte, g, t, v)
      BY <1>5, <3>1 DEF Gained
    <3>3. Cardinality(UsersIn(pte, g)) = Cardinality(UsersIn(pte', g)) + 1
      BY <3>2, UsersGain
    <3> QED
      BY <1>0, <2>1, <2>2, <2>4, <3>3
  <2>5. CASE g # f /\ g # old
    <3>1. \A u \in Tasks, w \in Pages : pte'[u][w].frame = g <=> pte[u][w].frame = g
      BY <1>1, <1>2, <2>5
    <3>2. UsersIn(pte', g) = UsersIn(pte, g)
      BY ONLY <3>1, UsersSame
    <3> QED
      BY <1>0, <2>1, <2>2, <2>5, <3>2
  <2> QED
    BY <2>3, <2>4, <2>5
<1>8. RefCountExact'
  BY <1>7, CountsAfter
<1>9. TypeOK'
  BY <1>2, <1>7 DEF Fresh, AInv, TypeOK
<1>10. OncePerTask' /\ SharedInv'
  BY <1>1, <1>2, <1>3 DEF Fresh, AInv, MapInv, OncePerTask, SharedInv
<1>11. SlotInv'
  BY <1>1 DEF Fresh, AInv, MapInv, SlotInv
<1>12. ContentInv'
  BY <1>1, <1>2, <1>3 DEF Fresh, AInv, TypeOK, MapInv, ContentInv
<1>13. FrameInv'
  <2>1. ASSUME NEW u \in Tasks, NEW w \in Pages, pte'[u][w].frame \in Frames
        PROVE  /\ pte'[u][w].frame \in allocated'
               /\ pte'[u][w].frame \notin lost'
               /\ \A x \in Tasks : ustack_page'[x] # pte'[u][w].frame
    BY <2>1, <1>1, <1>2, <1>4 DEF Fresh, AInv, MapInv, FrameInv
  <2>2. ASSUME NEW g \in allocated'
        PROVE  \/ g \in lost'
               \/ \E u \in Tasks : ustack_page'[u] = g
               \/ \E u \in Tasks, w \in Pages : pte'[u][w].frame = g
    <3>1. CASE g = f
      BY <3>1, <1>2, <1>6
    <3>2. CASE g # f /\ g = old
      <4>1. g \in Frames
        BY <2>2, <1>2 DEF Fresh, AInv, TypeOK
      <4>2. Cardinality(UsersIn(pte, g)) # 1
        BY <3>2, <4>1, Counts DEF Fresh, AInv
      <4>3. Others(pte, g, t, v)
        BY <3>2, <4>2, UsersMany, Zenon
      <4> QED
        BY <4>3, <1>5 DEF Others
    <3>3. CASE g # f /\ g # old
      BY <3>3, <2>2, <1>1 DEF Fresh, AInv, MapInv, FrameInv
    <3> QED
      BY <3>1, <3>2, <3>3
  <2>3. lost' \subseteq allocated'
    BY DEF Fresh, AInv, MapInv, FrameInv
  <2>4. \A x, u \in Tasks : ustack_page'[x] \in Frames =>
          /\ ustack_page'[x] \in allocated'
          /\ ustack_page'[x] \notin lost'
          /\ ustack_page'[x] = ustack_page'[u] => x = u
    BY DEF Fresh, AInv, MapInv, FrameInv
  <2> QED
    BY <2>1, <2>2, <2>3, <2>4 DEF FrameInv
<1> QED
  BY <1>8, <1>9, <1>10, <1>11, <1>12, <1>13 DEF Fresh, AInv, MapInv

(* do_mmap().                                                              *)
LEMMA MmapStep ==
  ASSUME AInv, NEW t \in Tasks, NEW v \in Pages, NEW writable \in BOOLEAN,
         NEW val \in Values, mmap(t, v, writable, val)
  PROVE  AInv'
<1>1. CASE panic
  BY <1>1, MapsKept DEF panic, AInv, TypeOK
<1>2. CASE ~panic
  <2>1. PICK f \in get_free_page :
          /\ allocated' = allocated \cup {f}
          /\ pte' = [pte EXCEPT ![t][v] = Entry(f, writable)]
          /\ page_ref_count' = [page_ref_count EXCEPT ![f] = @ + 1]
          /\ content' = [content EXCEPT ![f] = val]
          /\ UNCHANGED <<status, ustack_page, lost, panicked>>
    BY <1>2 DEF mmap
  <2>2. v \notin Mapped(t) /\ status[t] # "unused"
    BY <1>2 DEF mmap, InUserMode
  <2>3. pte[t][v].frame \notin Frames
    BY <2>2, EntryFacts DEF AInv
  <2>4. f \in Frames \ allocated
    BY DEF get_free_page
  <2>5. Entry(f, writable) \in [frame : {f}, ro : BOOLEAN, cow : BOOLEAN]
    BY DEF Entry
  <2>6. page_ref_count' = [g \in Frames |->
            IF g = f THEN page_ref_count[g] + 1
            ELSE IF g = pte[t][v].frame THEN page_ref_count[g] - 1
            ELSE page_ref_count[g]]
    BY <2>1, <2>3, Zenon DEF AInv, TypeOK
  <2>7. Fresh(t, v, f, Entry(f, writable), val)
    BY <2>1, <2>2, <2>3, <2>4, <2>5, <2>6, Zenon DEF Fresh
  <2> QED
    BY <2>7, FreshStep
<1> QED
  BY <1>1, <1>2

(* The only user of a frame makes its entry writable.                      *)
LEMMA InPlaceStep ==
  ASSUME AInv, NEW t \in Tasks, NEW v \in Pages,
         pte[t][v].frame \in Frames, page_ref_count[pte[t][v].frame] = 1,
         pte' = [pte EXCEPT ![t][v] =
                    [frame |-> pte[t][v].frame, ro |-> FALSE, cow |-> FALSE]],
         UNCHANGED <<status, ustack_page, page_ref_count, allocated, lost,
                     content, panicked>>
  PROVE  AInv'
<1> DEFINE e == [frame |-> pte[t][v].frame, ro |-> FALSE, cow |-> FALSE]
<1>1. \A u \in Tasks, w \in Pages :
         pte'[u][w] = IF u = t /\ w = v THEN e ELSE pte[u][w]
  BY DEF AInv, TypeOK
<1>2. e \in Entries /\ e.frame = pte[t][v].frame
  BY DEF Entries
<1>3. \A u \in Tasks, w \in Pages : pte'[u][w].frame = pte[u][w].frame
  BY <1>1, <1>2
<1>4. \A u \in Tasks, w \in Pages : pte[u][w].frame = pte[t][v].frame => u = t /\ w = v
  <2>1. Cardinality(UsersIn(pte, pte[t][v].frame)) = 1
    BY Counts DEF AInv
  <2> QED
    BY <2>1, UsersOne
<1>5. TypeOK'
  BY <1>2 DEF AInv, TypeOK
<1>6. RefCountExact'
  <2>1. ASSUME NEW g \in Frames PROVE UsersIn(pte', g) = UsersIn(pte, g)
    BY ONLY <1>3, UsersSame
  <2> QED
    BY <2>1, Counts, CountsAfter, Zenon DEF AInv
<1>7. OncePerTask' /\ ContentInv' /\ FrameInv'
  BY <1>3 DEF AInv, MapInv, OncePerTask, ContentInv, FrameInv
<1>8. SlotInv'
  <2>1. status[t] # "unused"
    BY EntryFacts, AddressSpacesAssumption DEF AInv, MapInv, SlotInv, INVALID
  <2> QED
    BY <1>1, <2>1 DEF AInv, MapInv, SlotInv
<1>9. SharedInv'
  BY <1>1, <1>3, <1>4 DEF AInv, MapInv, SharedInv
<1> QED
  BY <1>5, <1>6, <1>7, <1>8, <1>9 DEF AInv, MapInv

(* The write fault handler.                                                *)
LEMMA FaultStep ==
  ASSUME AInv, NEW t \in Tasks, NEW v \in Pages, handle_page_fault(t, v)
  PROVE  AInv'
<1> DEFINE old == pte[t][v].frame
<1>1. CASE ~pte[t][v].cow
  <2>1. UNCHANGED <<status, pte, ustack_page, page_ref_count, allocated, lost, content, panicked>>
    BY <1>1 DEF handle_page_fault
  <2> QED
    BY <2>1, MapsKept DEF AInv, TypeOK
<1>2. CASE pte[t][v].cow
  <2>1. copy_page_frame(t, v) /\ UNCHANGED <<status, ustack_page, lost>>
    BY <1>2 DEF handle_page_fault
  <2>2. old \in Frames /\ status[t] # "unused"
    BY <1>2, EntryFacts DEF AInv, handle_page_fault, InUserMode, INVALID
  <2>3. CASE page_ref_count[old] = 1
    BY <2>1, <2>2, <2>3, InPlaceStep DEF copy_page_frame
  <2>4. CASE page_ref_count[old] # 1 /\ get_free_page = {}
    <3>1. panicked' = TRUE /\ UNCHANGED <<pte, page_ref_count, allocated, content>>
      BY <2>1, <2>4 DEF copy_page_frame
    <3> QED
      BY <2>1, <3>1, MapsKept DEF AInv, TypeOK
  <2>5. CASE page_ref_count[old] # 1 /\ get_free_page # {}
    <3>1. PICK f \in get_free_page :
            /\ allocated' = allocated \cup {f}
            /\ content' = [content EXCEPT ![f] = content[old]]
            /\ pte' = [pte EXCEPT ![t][v] = [frame |-> f, ro |-> FALSE, cow |-> FALSE]]
            /\ page_ref_count' = [page_ref_count EXCEPT ![old] = @ - 1, ![f] = @ + 1]
            /\ UNCHANGED panicked
      BY <2>1, <2>5 DEF copy_page_frame
    <3>2. f \in Frames \ allocated
      BY DEF get_free_page
    <3>3. f # old
      BY <2>2, <3>2 DEF AInv, MapInv, FrameInv
    <3>4. content[old] \in Values
      BY <2>2 DEF AInv, MapInv, ContentInv
    <3>5. page_ref_count' = [g \in Frames |->
            IF g = f THEN page_ref_count[g] + 1
            ELSE IF g = pte[t][v].frame THEN page_ref_count[g] - 1
            ELSE page_ref_count[g]]
      BY <2>2, <3>1, <3>2, <3>3, Zenon DEF AInv, TypeOK
    <3>6. [frame |-> f, ro |-> FALSE, cow |-> FALSE] \in [frame : {f}, ro : BOOLEAN, cow : BOOLEAN]
      OBVIOUS
    <3>7. Fresh(t, v, f, [frame |-> f, ro |-> FALSE, cow |-> FALSE], content[old])
      BY <2>1, <2>2, <2>5, <3>1, <3>2, <3>4, <3>5, <3>6, Zenon DEF Fresh
    <3> QED
      BY <3>7, FreshStep
  <2> QED
    BY <2>3, <2>4, <2>5
<1> QED
  BY <1>1, <1>2

(* Task::fork(): the child gets the parent's entries, all of them shared,  *)
(* and a fresh frame f as its spare stack page.                            *)
Forked(p, c, f) ==
  /\ status[p] = "alive" /\ status[c] = "unused"
  /\ f \in Frames \ allocated
  /\ allocated' = allocated \cup {f}
  /\ ustack_page' = [ustack_page EXCEPT ![c] = f]
  /\ content' = [content EXCEPT ![f] = content[ustack_page[p]]]
  /\ status' = [status EXCEPT ![c] = "alive"]
  /\ dfs_copy_page_tables(p, c)
  /\ UNCHANGED <<lost, panicked>>

LEMMA ForkedTables ==
  ASSUME AInv, NEW p \in Tasks, NEW c \in Tasks, NEW f, Forked(p, c, f)
  PROVE  /\ pte' \in [Tasks -> [Pages -> Entries]]
         /\ \A w \in Pages : pte[c][w] = INVALID
         /\ \A u \in Tasks, w \in Pages : u # p /\ u # c => pte'[u][w] = pte[u][w]
         /\ \A u \in {p, c}, w \in Pages :
               /\ pte'[u][w].frame = pte[p][w].frame
               /\ pte[p][w].frame \in Frames => pte'[u][w].ro /\ pte'[u][w].cow
               /\ pte[p][w].frame = None => pte'[u][w] = INVALID
<1> DEFINE shared == [v \in Pages |->
                        IF v \in Mapped(p)
                        THEN [frame |-> pte[p][v].frame, ro |-> TRUE, cow |-> TRUE]
                        ELSE INVALID]
<1>1. pte' = [pte EXCEPT ![p] = shared, ![c] = shared]
  BY DEF Forked, dfs_copy_page_tables
<1>2. ASSUME NEW w \in Pages
      PROVE  /\ shared[w] \in Entries
             /\ shared[w].frame = pte[p][w].frame
             /\ pte[p][w].frame \in Frames => shared[w].ro /\ shared[w].cow
             /\ pte[p][w].frame = None => shared[w] = INVALID
  <2>1. CASE w \in Mapped(p)
    <3>1. pte[p][w].frame \in Frames /\ pte[p][w].frame # None
      BY <2>1, EntryFacts, AddressSpacesAssumption DEF AInv
    <3> QED
      BY <2>1, <3>1 DEF Entries
  <2>2. CASE w \notin Mapped(p)
    <3>1. pte[p][w].frame = None /\ pte[p][w].frame \notin Frames
      BY <2>2, EntryFacts, AddressSpacesAssumption DEF AInv
    <3> QED
      BY <2>2, <3>1 DEF Entries, INVALID
  <2> QED
    BY <2>1, <2>2
<1>3. shared \in [Pages -> Entries]
  BY <1>2
<1>4. \A w \in Pages : pte[c][w] = INVALID
  BY DEF Forked, AInv, MapInv, SlotInv
<1> HIDE DEF shared
<1>5. \A u \in Tasks : pte'[u] = IF u \in {p, c} THEN shared ELSE pte[u]
  BY <1>1 DEF AInv, TypeOK
<1>6. pte' \in [Tasks -> [Pages -> Entries]]
  BY <1>1, <1>3 DEF AInv, TypeOK
<1> QED
  BY <1>2, <1>4, <1>5, <1>6

LEMMA ForkedStep ==
  ASSUME AInv, NEW p \in Tasks, NEW c \in Tasks, NEW f, Forked(p, c, f)
  PROVE  AInv'
<1>1. p # c
  BY DEF Forked
<1>t. pte' \in [Tasks -> [Pages -> Entries]]
  BY ForkedTables
<1>2. /\ \A w \in Pages : pte[c][w] = INVALID
      /\ \A u \in Tasks, w \in Pages : u # p /\ u # c => pte'[u][w] = pte[u][w]
  BY ForkedTables
<1>a. \A u \in {p, c}, w \in Pages :
               /\ pte'[u][w].frame = pte[p][w].frame
               /\ pte[p][w].frame \in Frames => pte'[u][w].ro /\ pte'[u][w].cow
               /\ pte[p][w].frame = None => pte'[u][w] = INVALID
  BY ForkedTables
<1>b. \A w \in Pages : pte[c][w].frame = None
  BY <1>2 DEF INVALID
<1>c. /\ \A u \in Tasks, w \in Pages : u # c => pte'[u][w].frame = pte[u][w].frame
      /\ \A w \in Pages : pte'[c][w].frame = pte[p][w].frame
  BY <1>2, <1>a
<1>3. None \notin Frames /\ f \in Frames
  BY AddressSpacesAssumption DEF Forked
<1>4. ASSUME NEW g \in Frames
      PROVE  /\ page_ref_count'[g] = Cardinality(UsersIn(pte', g))
             /\ page_ref_count'[g] \in Nat
  <2>1. page_ref_count[g] = Cardinality(UsersIn(pte, g))
    BY Counts DEF AInv
  <2>2. Cardinality(UsersIn(pte, g)) \in Nat /\ Cardinality(UsersIn(pte', g)) \in Nat
    BY UsersFinite
  <2>3. page_ref_count'[g] = page_ref_count[g] + IF g \in FramesOf(p) THEN 1 ELSE 0
    BY DEF Forked, dfs_copy_page_tables
  <2>4. CASE g \in FramesOf(p)
    <3>1. PICK w \in Pages : pte[p][w].frame = g
      BY <2>4, FramesOfFacts DEF AInv
    <3>2. \A x \in Pages : x # w => pte[p][x].frame # g
      BY <3>1 DEF AInv, MapInv, OncePerTask
    <3>3. Gained(pte, pte', g, c, w)
      BY <1>3, <1>b, <1>c, <3>1, <3>2 DEF Gained
    <3>4. Cardinality(UsersIn(pte', g)) = Cardinality(UsersIn(pte, g)) + 1
      BY <3>3, UsersGain
    <3> QED
      BY <2>1, <2>2, <2>3, <2>4, <3>4
  <2>5. CASE g \notin FramesOf(p)
    <3>1. \A w \in Pages : pte[p][w].frame # g
      BY <2>5, FramesOfFacts DEF AInv
    <3>2. \A u \in Tasks, w \in Pages : pte'[u][w].frame = g <=> pte[u][w].frame = g
      BY <1>3, <1>b, <1>c, <3>1
    <3>3. UsersIn(pte', g) = UsersIn(pte, g)
      BY ONLY <3>2, UsersSame
    <3> QED
      BY <2>1, <2>2, <2>3, <2>5, <3>3
  <2> QED
    BY <2>4, <2>5
<1>5. RefCountExact'
  BY <1>4, CountsAfter
<1>6. TypeOK'
  <2>1. page_ref_count' \in [Frames -> Nat]
    BY <1>4 DEF Forked, dfs_copy_page_tables
  <2>2. content[ustack_page[p]] \in Values \cup {None}
    BY DEF Forked, AInv, TypeOK, MapInv, SlotInv
  <2> QED
    BY <1>t, <1>3, <2>1, <2>2, Zenon DEF Forked, AInv, TypeOK
<1>7. OncePerTask'
  BY <1>c DEF AInv, MapInv, OncePerTask
<1>8. SharedInv'
  <2> SUFFICES ASSUME NEW t \in Tasks, NEW u \in Tasks, NEW v \in Pages, NEW w \in Pages,
                      pte'[t][v].frame \in Frames,
                      pte'[t][v].frame = pte'[u][w].frame,
                      <<t, v>> # <<u, w>>
               PROVE  pte'[t][v].ro /\ pte'[t][v].cow
    BY DEF SharedInv
  <2>1. CASE t \in {p, c}
    BY <1>a, <2>1
  <2>2. CASE t \notin {p, c} /\ u \in {p, c}
    <3>1. pte'[t][v] = pte[t][v] /\ pte[p][w].frame = pte[t][v].frame /\ <<t, v>> # <<p, w>>
      BY <1>2, <1>a, <2>2
    <3> QED
      BY <3>1 DEF AInv, MapInv, SharedInv
  <2>3. CASE t \notin {p, c} /\ u \notin {p, c}
    BY <1>2, <2>3 DEF AInv, MapInv, SharedInv
  <2> QED
    BY <2>1, <2>2, <2>3
<1>9. SlotInv'
  <2>1. \A u \in Tasks : u # c => status'[u] = status[u] /\ ustack_page'[u] = ustack_page[u]
    BY DEF Forked, AInv, TypeOK
  <2>2. status'[c] = "alive" /\ ustack_page'[c] \in Frames /\ status[p] # "unused"
    BY <1>3 DEF Forked, AInv, TypeOK
  <2> QED
    BY <1>1, <1>2, <2>1, <2>2 DEF AInv, MapInv, SlotInv
<1>10. \A u \in Tasks, w \in Pages : pte[u][w].frame # f
  BY DEF Forked, AInv, MapInv, FrameInv
<1>11. ContentInv'
  <2>1. \A g \in Frames : g # f => content'[g] = content[g]
    BY DEF Forked, AInv, TypeOK
  <2> QED
    BY <1>c, <1>10, <2>1 DEF AInv, MapInv, ContentInv
<1>12. FrameInv'
  <2>1. \A u \in Tasks : ustack_page'[u] = IF u = c THEN f ELSE ustack_page[u]
    BY DEF Forked, AInv, TypeOK
  <2>2. /\ f \notin lost /\ lost' = lost /\ allocated' = allocated \cup {f}
        /\ \A u \in Tasks : ustack_page[u] # f
        /\ ustack_page[c] \notin Frames
    BY <1>3 DEF Forked, AInv, MapInv, FrameInv, SlotInv
  <2>3. ASSUME NEW u \in Tasks, NEW w \in Pages, pte'[u][w].frame \in Frames
        PROVE  /\ pte'[u][w].frame \in allocated'
               /\ pte'[u][w].frame \notin lost'
               /\ \A x \in Tasks : ustack_page'[x] # pte'[u][w].frame
    <3>1. PICK y \in Tasks : pte'[u][w].frame = pte[y][w].frame
      BY <1>c
    <3> QED
      BY <2>1, <2>2, <2>3, <3>1, <1>10 DEF AInv, MapInv, FrameInv
  <2>4. \A x, u \in Tasks : ustack_page'[x] \in Frames =>
          /\ ustack_page'[x] \in allocated'
          /\ ustack_page'[x] \notin lost'
          /\ ustack_page'[x] = ustack_page'[u] => x = u
    BY <2>1, <2>2 DEF AInv, MapInv, FrameInv
  <2>5. ASSUME NEW g \in allocated'
        PROVE  \/ g \in lost'
               \/ \E u \in Tasks : ustack_page'[u] = g
               \/ \E u \in Tasks, w \in Pages : pte'[u][w].frame = g
    <3>1. CASE g = f
      BY <2>1, <3>1
    <3>2. CASE g # f /\ \E u \in Tasks, w \in Pages : pte[u][w].frame = g
      <4>1. PICK u \in Tasks, w \in Pages : pte[u][w].frame = g
        BY <3>2
      <4>2. g \in Frames
        BY <1>3, <2>2, <2>5 DEF AInv, TypeOK
      <4>3. u # c
        BY <1>b, <1>3, <4>1, <4>2
      <4>4. pte'[u][w].frame = g
        BY <1>c, <4>1, <4>3
      <4> QED
        BY <4>4
    <3>3. CASE g # f /\ \E u \in Tasks : ustack_page[u] = g
      BY <1>3, <2>1, <2>2, <2>5, <3>3 DEF AInv, TypeOK
    <3> QED
      BY <2>2, <2>5, <3>1, <3>2, <3>3 DEF AInv, MapInv, FrameInv
  <2>6. lost' \subseteq allocated'
    BY <2>2 DEF AInv, MapInv, FrameInv
  <2> QED
    BY <2>3, <2>4, <2>5, <2>6 DEF FrameInv
<1> QED
  BY <1>5, <1>6, <1>7, <1>8, <1>9, <1>11, <1>12 DEF AInv, MapInv

LEMMA ForkStep ==
  ASSUME AInv, NEW p \in Tasks, NEW c \in Tasks, fork(p, c)
  PROVE  AInv'
<1>1. CASE get_free_page = {}
  BY <1>1, MapsKept DEF fork, panic, AInv, TypeOK
<1>2. CASE get_free_page # {}
  <2>1. PICK f \in get_free_page : Forked(p, c, f)
    BY <1>2 DEF fork, Forked, InUserMode, get_free_page
  <2> QED
    BY <2>1, ForkedStep
<1> QED
  BY <1>1, <1>2

-----------------------------------------------------------------------------
(* exec(), exit() and the destructors of a task.                           *)

(* exec() and ~VMMap replace all entries of t by those of nm, whose frames *)
(* nobody else maps.                                                       *)
Replaced(t, nm) ==
  /\ nm \in [Pages -> Entries]
  /\ pte' = [pte EXCEPT ![t] = nm]
  /\ \A v, w \in Pages : nm[v].frame = nm[w].frame /\ nm[v].frame \in Frames => v = w
  /\ \A u \in Tasks, v, w \in Pages :
        u # t /\ nm[v].frame \in Frames => pte[u][w].frame # nm[v].frame
  /\ page_ref_count' = [g \in Frames |-> Dropped(t)[g] +
        IF \E v \in Pages : nm[v].frame = g THEN 1 ELSE 0]

LEMMA ReplacedStep ==
  ASSUME AInv, NEW t \in Tasks, NEW nm, Replaced(t, nm)
  PROVE  /\ pte' \in [Tasks -> [Pages -> Entries]]
         /\ page_ref_count' \in [Frames -> Nat]
         /\ RefCountExact' /\ OncePerTask' /\ SharedInv'
<1>1. /\ \A w \in Pages : pte'[t][w] = nm[w]
      /\ \A u \in Tasks, w \in Pages : u # t => pte'[u][w] = pte[u][w]
      /\ pte' \in [Tasks -> [Pages -> Entries]]
  BY DEF Replaced, AInv, TypeOK
<1> DEFINE mid == [u \in Tasks |-> [w \in Pages |-> IF u = t THEN INVALID ELSE pte[u][w]]]
<1>2. /\ \A w \in Pages : mid[t][w].frame = None
      /\ \A u \in Tasks, w \in Pages : u # t => mid[u][w] = pte[u][w]
  BY DEF INVALID
<1> HIDE DEF mid
<1>3. None \notin Frames
  BY AddressSpacesAssumption
<1>4. ASSUME NEW g \in Frames
      PROVE  /\ page_ref_count'[g] = Cardinality(UsersIn(pte', g))
             /\ page_ref_count'[g] \in Nat
  <2>1. page_ref_count[g] = Cardinality(UsersIn(pte, g))
    BY Counts DEF AInv
  <2>2. /\ Cardinality(UsersIn(pte, g)) \in Nat
        /\ Cardinality(UsersIn(mid, g)) \in Nat
        /\ Cardinality(UsersIn(pte', g)) \in Nat
    BY UsersFinite
  <2>3. page_ref_count'[g] = page_ref_count[g] - (IF g \in FramesOf(t) THEN 1 ELSE 0)
                               + IF \E v \in Pages : nm[v].frame = g THEN 1 ELSE 0
    BY DEF Replaced, Dropped
  <2>4. Cardinality(UsersIn(pte, g)) =
          Cardinality(UsersIn(mid, g)) + IF g \in FramesOf(t) THEN 1 ELSE 0
    <3>1. CASE g \in FramesOf(t)
      <4>1. PICK w \in Pages : pte[t][w].frame = g
        BY <3>1, FramesOfFacts DEF AInv
      <4>2. \A x \in Pages : x # w => pte[t][x].frame # g
        BY <4>1 DEF AInv, MapInv, OncePerTask
      <4>3. Gained(mid, pte, g, t, w)
        BY <1>2, <1>3, <4>1, <4>2 DEF Gained
      <4>4. Cardinality(UsersIn(pte, g)) = Cardinality(UsersIn(mid, g)) + 1
        BY <4>3, UsersGain
      <4> QED
        BY <3>1, <4>4
    <3>2. CASE g \notin FramesOf(t)
      <4>1. \A w \in Pages : pte[t][w].frame # g
        BY <3>2, FramesOfFacts DEF AInv
      <4>2. \A u \in Tasks, w \in Pages : pte[u][w].frame = g <=> mid[u][w].frame = g
        BY <1>2, <1>3, <4>1
      <4>3. UsersIn(pte, g) = UsersIn(mid, g)
        BY ONLY <4>2, UsersSame
      <4> QED
        BY <2>2, <3>2, <4>3
    <3> QED
      BY <3>1, <3>2
  <2>5. Cardinality(UsersIn(pte', g)) =
          Cardinality(UsersIn(mid, g)) + IF \E v \in Pages : nm[v].frame = g THEN 1 ELSE 0
    <3>1. CASE \E v \in Pages : nm[v].frame = g
      <4>1. PICK w \in Pages : nm[w].frame = g
        BY <3>1
      <4>2. \A x \in Pages : x # w => nm[x].frame # g
        BY <4>1 DEF Replaced
      <4>3. Gained(mid, pte', g, t, w)
        BY <1>1, <1>2, <1>3, <4>1, <4>2 DEF Gained
      <4>4. Cardinality(UsersIn(pte', g)) = Cardinality(UsersIn(mid, g)) + 1
        BY <4>3, UsersGain
      <4> QED
        BY <3>1, <4>4
    <3>2. CASE ~\E v \in Pages : nm[v].frame = g
      <4>1. \A u \in Tasks, w \in Pages : pte'[u][w].frame = g <=> mid[u][w].frame = g
        BY <1>1, <1>2, <1>3, <3>2
      <4>2. UsersIn(pte', g) = UsersIn(mid, g)
        BY ONLY <4>1, UsersSame
      <4> QED
        BY <2>2, <3>2, <4>2
    <3> QED
      BY <3>1, <3>2
  <2> DEFINE gone == IF g \in FramesOf(t) THEN 1 ELSE 0
             come == IF \E v \in Pages : nm[v].frame = g THEN 1 ELSE 0
  <2>6. gone \in {0, 1} /\ come \in {0, 1}
    OBVIOUS
  <2> HIDE DEF gone, come
  <2>7. /\ page_ref_count'[g] = page_ref_count[g] - gone + come
        /\ Cardinality(UsersIn(pte, g)) = Cardinality(UsersIn(mid, g)) + gone
        /\ Cardinality(UsersIn(pte', g)) = Cardinality(UsersIn(mid, g)) + come
    BY <2>3, <2>4, <2>5 DEF gone, come
  <2> QED
    BY <2>1, <2>2, <2>6, <2>7
<1>5. RefCountExact'
  BY <1>4, CountsAfter
<1>6. page_ref_count' \in [Frames -> Nat]
  BY <1>4 DEF Replaced
<1>7. OncePerTask'
  BY <1>1 DEF Replaced, AInv, MapInv, OncePerTask
<1>8. SharedInv'
  <2> SUFFICES ASSUME NEW a \in Tasks, NEW u \in Tasks, NEW v \in Pages, NEW w \in Pages,
                      pte'[a][v].frame \in Frames,
                      pte'[a][v].frame = pte'[u][w].frame,
                      <<a, v>> # <<u, w>>
               PROVE  pte'[a][v].ro /\ pte'[a][v].cow
    BY DEF SharedInv
  <2>1. CASE a = t /\ u = t
    BY <1>1, <2>1 DEF Replaced
  <2>2. CASE (a = t /\ u # t) \/ (a # t /\ u = t)
    BY <1>1, <2>2 DEF Replaced
  <2>3. CASE a # t /\ u # t
    BY <1>1, <2>3 DEF AInv, MapInv, SharedInv
  <2> QED
    BY <2>1, <2>2, <2>3
<1> QED
  BY <1>1, <1>5, <1>6, <1>7, <1>8

(* dfs_kfree_page() frees the frames that only t maps.                     *)
LEMMA Freed ==
  ASSUME AInv, NEW t \in Tasks, NEW f \in dfs_kfree_page(t)
  PROVE  /\ f \in Frames /\ f \in allocated /\ f \notin lost
         /\ \E v \in Pages : pte[t][v].frame = f
         /\ \A u \in Tasks : ustack_page[u] # f
         /\ \A u \in Tasks, w \in Pages : u # t => pte[u][w].frame # f
<1>1. f \in FramesOf(t)
  BY DEF dfs_kfree_page
<1>2. f \in Frames
  BY <1>1, EntryFacts DEF FramesOf, Mapped, AInv
<1>3. PICK v \in Pages : pte[t][v].frame = f
  BY <1>1, <1>2, FramesOfFacts DEF AInv
<1>4. Cardinality(UsersIn(pte, f)) = 1
  BY <1>2, Counts DEF AInv, dfs_kfree_page
<1>5. \A u \in Tasks, w \in Pages : u # t => pte[u][w].frame # f
  BY <1>3, <1>4, UsersOne
<1> QED
  BY <1>2, <1>3, <1>5 DEF AInv, MapInv, FrameInv

(* A frame of t that is not freed is mapped by another task.               *)
LEMMA NotFreed ==
  ASSUME AInv, NEW t \in Tasks, NEW v \in Pages, NEW f \in Frames,
         pte[t][v].frame = f, f \notin dfs_kfree_page(t)
  PROVE  \E u \in Tasks, w \in Pages : u # t /\ pte[u][w].frame = f
<1>1. f \in FramesOf(t)
  BY FramesOfFacts DEF AInv
<1>2. page_ref_count[f] # 1
  BY <1>1 DEF dfs_kfree_page
<1>3. Cardinality(UsersIn(pte, f)) # 1
  BY <1>2, Counts DEF AInv
<1>4. PICK u \in Tasks, w \in Pages : <<u, w>> # <<t, v>> /\ pte[u][w].frame = f
  <2>1. Others(pte, f, t, v)
    BY <1>3, UsersMany
  <2> QED
    BY <2>1 DEF Others
<1>5. u # t
  <2>1. SUFFICES ASSUME u = t PROVE FALSE
    OBVIOUS
  <2>2. w # v /\ pte[t][w].frame = pte[t][v].frame
    BY <1>4, <2>1
  <2> QED
    BY <2>2 DEF AInv, MapInv, OncePerTask
<1> QED
  BY <1>4, <1>5

(* ~Task and ~VMMap.                                                       *)
LEMMA ReapStep ==
  ASSUME AInv, NEW t \in Tasks, reap(t)
  PROVE  AInv'
<1> DEFINE nm == [v \in Pages |-> INVALID]
<1>1. None \notin Frames /\ INVALID.frame = None /\ INVALID \in Entries
  BY AddressSpacesAssumption DEF INVALID, Entries
<1>2. Replaced(t, nm)
  <2>1. page_ref_count' = Dropped(t) /\ pte' = [pte EXCEPT ![t] = nm]
    BY DEF reap
  <2>2. \A g \in Frames : ~\E v \in Pages : nm[v].frame = g
    BY <1>1
  <2>3. \A g \in Frames : Dropped(t)[g] \in Int
    BY DEF Dropped, AInv, TypeOK
  <2>4. Dropped(t) = [g \in Frames |-> Dropped(t)[g]]
    BY DEF Dropped
  <2>5. page_ref_count' = [g \in Frames |-> Dropped(t)[g] +
          IF \E v \in Pages : nm[v].frame = g THEN 1 ELSE 0]
    BY <2>1, <2>2, <2>3, <2>4
  <2> QED
    BY <1>1, <2>1, <2>5 DEF Replaced
<1>3. /\ pte' \in [Tasks -> [Pages -> Entries]]
      /\ page_ref_count' \in [Frames -> Nat]
      /\ RefCountExact' /\ OncePerTask' /\ SharedInv'
  BY <1>2, ReplacedStep
<1>4. /\ \A w \in Pages : pte'[t][w] = INVALID
      /\ \A u \in Tasks, w \in Pages : u # t => pte'[u][w] = pte[u][w]
      /\ \A u \in Tasks : ustack_page'[u] = IF u = t THEN None ELSE ustack_page[u]
      /\ \A u \in Tasks : status'[u] = IF u = t THEN "unused" ELSE status[u]
  BY DEF reap, AInv, TypeOK
<1>5. ustack_page[t] \in Frames
  BY DEF reap, AInv, MapInv, SlotInv
<1>6. TypeOK'
  <2>1. /\ status' \in [Tasks -> {"unused", "alive", "zombie"}]
        /\ ustack_page' \in [Tasks -> Frames \cup {None}]
    BY DEF reap, AInv, TypeOK
  <2>2. allocated' \subseteq Frames /\ lost' \subseteq Frames
    BY <1>5 DEF reap, AInv, TypeOK
  <2> QED
    BY <1>3, <2>1, <2>2 DEF reap, AInv, TypeOK
<1>7. SlotInv' /\ ContentInv'
  <2>1. content' = content
    BY DEF reap
  <2>2. ContentInv'
    BY <1>1, <1>4, <2>1 DEF AInv, MapInv, ContentInv
  <2>3. SlotInv'
    BY <1>1, <1>4 DEF AInv, MapInv, SlotInv
  <2> QED
    BY <2>2, <2>3
<1>8. FrameInv'
  <2>1. allocated' = allocated \ dfs_kfree_page(t) /\ lost' = lost \cup {ustack_page[t]}
    BY DEF reap
  <2>2. ASSUME NEW u \in Tasks, NEW w \in Pages, pte'[u][w].frame \in Frames
        PROVE  /\ pte'[u][w].frame \in allocated'
               /\ pte'[u][w].frame \notin lost'
               /\ \A x \in Tasks : ustack_page'[x] # pte'[u][w].frame
    <3>1. u # t /\ pte'[u][w] = pte[u][w]
      BY <1>1, <1>4, <2>2
    <3>2. pte[u][w].frame \notin dfs_kfree_page(t)
      BY <3>1, Freed
    <3> QED
      BY <1>1, <1>4, <2>1, <2>2, <3>1, <3>2 DEF AInv, MapInv, FrameInv
  <2>3. \A x, u \in Tasks : ustack_page'[x] \in Frames =>
          /\ ustack_page'[x] \in allocated'
          /\ ustack_page'[x] \notin lost'
          /\ ustack_page'[x] = ustack_page'[u] => x = u
    BY <1>1, <1>4, <1>5, <2>1, Freed DEF AInv, MapInv, FrameInv
  <2>4. lost' \subseteq allocated'
    BY <1>5, <2>1, Freed DEF AInv, MapInv, FrameInv
  <2>5. ASSUME NEW g \in allocated'
        PROVE  \/ g \in lost'
               \/ \E u \in Tasks : ustack_page'[u] = g
               \/ \E u \in Tasks, w \in Pages : pte'[u][w].frame = g
    <3>1. g \in allocated /\ g \in Frames
      BY <2>1, <2>5 DEF AInv, TypeOK
    <3>2. CASE \E u \in Tasks, w \in Pages : u # t /\ pte[u][w].frame = g
      BY <3>2, <1>4
    <3>3. CASE \E w \in Pages : pte[t][w].frame = g
      <4>1. PICK w \in Pages : pte[t][w].frame = g
        BY <3>3
      <4>2. \E u \in Tasks, x \in Pages : u # t /\ pte[u][x].frame = g
        BY <2>1, <2>5, <3>1, <4>1, NotFreed
      <4> QED
        BY <3>2, <4>2
    <3>4. CASE \E u \in Tasks : ustack_page[u] = g
      BY <3>4, <1>4, <2>1
    <3> QED
      BY <2>1, <3>1, <3>2, <3>3, <3>4 DEF AInv, MapInv, FrameInv
  <2> QED
    BY <2>2, <2>3, <2>4, <2>5 DEF FrameInv
<1> QED
  BY <1>3, <1>6, <1>7, <1>8 DEF AInv, MapInv

(* Task::exec() with enough memory: new is the next spare stack page, and  *)
(* the segments are loaded into the frames at.                             *)
Loads(t, args, image, writable, new, at) ==
  /\ status[t] = "alive"
  /\ args \in Values /\ writable \in BOOLEAN
  /\ DOMAIN image \subseteq Pages \ {USER_STACK_PAGE}
  /\ \A v \in DOMAIN image : image[v] \in Values
  /\ new \in Frames \ allocated
  /\ at \in [DOMAIN image -> ((Frames \ allocated) \cup dfs_kfree_page(t)) \ {new}]
  /\ \A v, w \in DOMAIN image : at[v] = at[w] => v = w
  /\ allocated' = (allocated \ dfs_kfree_page(t)) \cup Range(at) \cup {new}
  /\ pte' = [pte EXCEPT ![t] = LoadedMap(t, image, writable, at)]
  /\ page_ref_count' = [f \in Frames |-> Dropped(t)[f] +
        IF f \in Range(at) \cup {ustack_page[t]} THEN 1 ELSE 0]
  /\ content' = [f \in Frames |->
        IF f = ustack_page[t] THEN args
        ELSE IF f \in Range(at)
             THEN image[CHOOSE v \in DOMAIN image : at[v] = f]
             ELSE content[f]]
  /\ ustack_page' = [ustack_page EXCEPT ![t] = new]
  /\ UNCHANGED <<status, lost, panicked>>

(* The frames that exec() fills are nobody else's.                         *)
LEMMA LoadedFrames ==
  ASSUME AInv, NEW t \in Tasks, NEW args, NEW image, NEW writable, NEW new, NEW at,
         Loads(t, args, image, writable, new, at)
  PROVE  /\ ustack_page[t] \in Frames
         /\ \A u \in Tasks, w \in Pages : pte[u][w].frame # ustack_page[t]
         /\ \A v \in DOMAIN image :
              /\ at[v] \in Frames /\ at[v] # new /\ at[v] \notin lost
              /\ \A u \in Tasks : ustack_page[u] # at[v]
              /\ \A u \in Tasks, w \in Pages : u # t => pte[u][w].frame # at[v]
<1>1. ustack_page[t] \in Frames
  BY DEF Loads, AInv, MapInv, SlotInv
<1>2. \A u \in Tasks, w \in Pages : pte[u][w].frame # ustack_page[t]
  BY <1>1 DEF AInv, MapInv, FrameInv
<1>3. ASSUME NEW v \in DOMAIN image
      PROVE  /\ at[v] \in Frames /\ at[v] # new /\ at[v] \notin lost
             /\ \A u \in Tasks : ustack_page[u] # at[v]
             /\ \A u \in Tasks, w \in Pages : u # t => pte[u][w].frame # at[v]
  <2>1. at[v] \in (Frames \ allocated) \cup dfs_kfree_page(t) /\ at[v] # new
    BY DEF Loads
  <2>2. CASE at[v] \in Frames \ allocated
    BY <2>1, <2>2 DEF AInv, MapInv, FrameInv
  <2>3. CASE at[v] \in dfs_kfree_page(t)
    BY <2>1, <2>3, Freed
  <2> QED
    BY <2>1, <2>2, <2>3
<1> QED
  BY <1>1, <1>2, <1>3

(* The entries that exec() leaves.                                         *)
LEMMA LoadedEntries ==
  ASSUME AInv, NEW t \in Tasks, NEW args, NEW image, NEW writable, NEW new, NEW at,
         Loads(t, args, image, writable, new, at)
  PROVE  LET nm == LoadedMap(t, image, writable, at) IN
         /\ nm \in [Pages -> Entries]
         /\ nm[USER_STACK_PAGE].frame = ustack_page[t]
         /\ \A v \in DOMAIN image : v \in Pages /\ v # USER_STACK_PAGE /\ nm[v].frame = at[v]
         /\ \A v \in Pages : v \notin DOMAIN image /\ v # USER_STACK_PAGE =>
               nm[v] = INVALID /\ nm[v].frame = None
<1> DEFINE nm == LoadedMap(t, image, writable, at)
<1>1. nm = [v \in Pages |->
        IF v = USER_STACK_PAGE THEN Entry(ustack_page[t], TRUE)
        ELSE IF v \in DOMAIN image THEN Entry(at[v], writable)
        ELSE INVALID]
  BY DEF LoadedMap
<1>2. /\ \A f \in Frames : Entry(f, TRUE) \in Entries /\ Entry(f, TRUE).frame = f
      /\ \A f \in Frames : Entry(f, writable) \in Entries /\ Entry(f, writable).frame = f
      /\ INVALID \in Entries /\ INVALID.frame = None
  BY DEF Loads, Entry, Entries, INVALID
<1>3. /\ ustack_page[t] \in Frames
      /\ \A v \in DOMAIN image : at[v] \in Frames /\ v \in Pages /\ v # USER_STACK_PAGE
      /\ USER_STACK_PAGE \in Pages
  <2>1. /\ ustack_page[t] \in Frames
        /\ \A v \in DOMAIN image : at[v] \in Frames
    BY LoadedFrames
  <2>2. \A v \in DOMAIN image : v \in Pages /\ v # USER_STACK_PAGE
    BY DEF Loads
  <2> QED
    BY <2>1, <2>2, AddressSpacesAssumption
<1>4. /\ \A v \in Pages : nm[v] \in Entries
      /\ nm = [v \in Pages |-> nm[v]]
  BY <1>1, <1>2, <1>3, Zenon
<1>5. nm \in [Pages -> Entries]
  BY <1>4
<1>6. nm[USER_STACK_PAGE].frame = ustack_page[t]
  BY <1>1, <1>2, <1>3, Zenon
<1>7. \A v \in DOMAIN image : v \in Pages /\ v # USER_STACK_PAGE /\ nm[v].frame = at[v]
  BY <1>1, <1>2, <1>3, Zenon
<1>8. \A v \in Pages : v \notin DOMAIN image /\ v # USER_STACK_PAGE =>
         nm[v] = INVALID /\ nm[v].frame = None
  BY <1>1, <1>2
<1> QED
  BY <1>5, <1>6, <1>7, <1>8

(* exec() keeps the counts and the sharing right.                          *)
LEMMA LoadedMaps ==
  ASSUME AInv, NEW t \in Tasks, NEW args, NEW image, NEW writable, NEW new, NEW at,
         Loads(t, args, image, writable, new, at)
  PROVE  Replaced(t, LoadedMap(t, image, writable, at))
<1> DEFINE nm == LoadedMap(t, image, writable, at)
<1>1. /\ nm \in [Pages -> Entries]
      /\ nm[USER_STACK_PAGE].frame = ustack_page[t]
      /\ \A v \in DOMAIN image : v \in Pages /\ v # USER_STACK_PAGE /\ nm[v].frame = at[v]
      /\ \A v \in Pages : v \notin DOMAIN image /\ v # USER_STACK_PAGE => nm[v].frame = None
  BY LoadedEntries
<1>2. pte' = [pte EXCEPT ![t] = nm]
  BY DEF Loads
<1>3. None \notin Frames /\ USER_STACK_PAGE \in Pages
  BY AddressSpacesAssumption
<1>4. /\ ustack_page[t] \in Frames
      /\ \A u \in Tasks, w \in Pages : pte[u][w].frame # ustack_page[t]
      /\ \A v \in DOMAIN image :
           /\ at[v] \in Frames /\ ustack_page[t] # at[v]
           /\ \A u \in Tasks, w \in Pages : u # t => pte[u][w].frame # at[v]
  BY LoadedFrames
<1>5. \A v, w \in DOMAIN image : at[v] = at[w] => v = w
  BY DEF Loads
<1>6. DOMAIN at = DOMAIN image /\ Range(at) = {at[v] : v \in DOMAIN image}
  BY DEF Loads, Range
<1> HIDE DEF nm
<1>7. \A v, w \in Pages : nm[v].frame = nm[w].frame /\ nm[v].frame \in Frames => v = w
  BY <1>1, <1>3, <1>4, <1>5
<1>8. \A u \in Tasks, v, w \in Pages :
        u # t /\ nm[v].frame \in Frames => pte[u][w].frame # nm[v].frame
  BY <1>1, <1>3, <1>4
<1>9. \A g \in Frames :
        g \in Range(at) \cup {ustack_page[t]} <=> \E v \in Pages : nm[v].frame = g
  BY <1>1, <1>3, <1>4, <1>6
<1>10. page_ref_count' = [g \in Frames |-> Dropped(t)[g] +
        IF \E v \in Pages : nm[v].frame = g THEN 1 ELSE 0]
  BY <1>9 DEF Loads
<1>11. Replaced(t, nm)
  BY <1>1, <1>2, <1>7, <1>8, <1>10 DEF Replaced
<1> QED
  BY <1>11 DEF nm


(* What exec() makes of each entry and of each frame's contents.           *)
LEMMA LoadedContent ==
  ASSUME AInv, NEW t \in Tasks, NEW args, NEW image, NEW writable, NEW new, NEW at,
         Loads(t, args, image, writable, new, at)
  PROVE  /\ \A u \in Tasks, w \in Pages : u # t => pte'[u][w] = pte[u][w]
         /\ pte'[t][USER_STACK_PAGE].frame = ustack_page[t]
         /\ \A v \in DOMAIN image : pte'[t][v].frame = at[v]
         /\ \A v \in Pages : v \notin DOMAIN image /\ v # USER_STACK_PAGE =>
               pte'[t][v] = INVALID
         /\ content'[ustack_page[t]] = args
         /\ \A v \in DOMAIN image : content'[at[v]] = image[v]
         /\ \A u \in Tasks, w \in Pages :
               u # t /\ pte[u][w].frame \in Frames =>
                  content'[pte[u][w].frame] = content[pte[u][w].frame]
<1>1. /\ pte' = [pte EXCEPT ![t] = LoadedMap(t, image, writable, at)]
      /\ pte \in [Tasks -> [Pages -> Entries]]
  BY DEF Loads, AInv, TypeOK
<1>2. pte'[t] = LoadedMap(t, image, writable, at)
      /\ \A u \in Tasks, w \in Pages : u # t => pte'[u][w] = pte[u][w]
  BY <1>1
<1>3. /\ pte'[t][USER_STACK_PAGE].frame = ustack_page[t]
      /\ \A v \in DOMAIN image : pte'[t][v].frame = at[v]
      /\ \A v \in Pages : v \notin DOMAIN image /\ v # USER_STACK_PAGE =>
               pte'[t][v] = INVALID
  <2> DEFINE nm == LoadedMap(t, image, writable, at)
  <2>1. /\ nm[USER_STACK_PAGE].frame = ustack_page[t]
        /\ \A v \in DOMAIN image : nm[v].frame = at[v]
        /\ \A v \in Pages : v \notin DOMAIN image /\ v # USER_STACK_PAGE => nm[v] = INVALID
    BY LoadedEntries
  <2>2. pte'[t] = nm
    BY <1>2, Zenon
  <2> HIDE DEF nm
  <2> QED BY <2>1, <2>2, Zenon
<1>4. \A f \in Frames : content'[f] =
        IF f = ustack_page[t] THEN args
        ELSE IF f \in Range(at)
             THEN image[CHOOSE v \in DOMAIN image : at[v] = f]
             ELSE content[f]
  BY DEF Loads
<1>5. DOMAIN at = DOMAIN image /\ Range(at) = {at[v] : v \in DOMAIN image}
  BY DEF Loads, Range
<1>6. /\ ustack_page[t] \in Frames
      /\ \A u \in Tasks, w \in Pages : pte[u][w].frame # ustack_page[t]
      /\ \A v \in DOMAIN image :
           /\ at[v] \in Frames /\ ustack_page[t] # at[v]
           /\ \A u \in Tasks, w \in Pages : u # t => pte[u][w].frame # at[v]
  BY LoadedFrames
<1>7. ASSUME NEW v \in DOMAIN image
      PROVE  content'[at[v]] = image[v]
  <2>1. content'[at[v]] = image[CHOOSE w \in DOMAIN image : at[w] = at[v]]
    BY <1>4, <1>5, <1>6
  <2>2. \A w \in DOMAIN image : at[w] = at[v] => w = v
    BY DEF Loads
  <2>3. (CHOOSE w \in DOMAIN image : at[w] = at[v]) = v
    BY <2>2
  <2> QED
    BY <2>1, <2>3, Zenon
<1>8. content'[ustack_page[t]] = args
  BY <1>4, <1>6
<1>9. \A u \in Tasks, w \in Pages :
         u # t /\ pte[u][w].frame \in Frames =>
            content'[pte[u][w].frame] = content[pte[u][w].frame]
  BY <1>4, <1>5, <1>6
<1> QED
  BY <1>2, <1>3, <1>7, <1>8, <1>9

(* exec() keeps the frames accounted for.                                  *)
LEMMA LoadedAccount ==
  ASSUME AInv, NEW t \in Tasks, NEW args, NEW image, NEW writable, NEW new, NEW at,
         Loads(t, args, image, writable, new, at)
  PROVE  FrameInv'
<1>1. /\ \A u \in Tasks, w \in Pages : u # t => pte'[u][w] = pte[u][w]
      /\ pte'[t][USER_STACK_PAGE].frame = ustack_page[t]
      /\ \A v \in DOMAIN image : pte'[t][v].frame = at[v]
      /\ \A v \in Pages : v \notin DOMAIN image /\ v # USER_STACK_PAGE =>
               pte'[t][v] = INVALID
  BY LoadedContent
<1>2. /\ ustack_page[t] \in Frames
      /\ \A v \in DOMAIN image :
           /\ at[v] \in Frames /\ at[v] # new /\ at[v] \notin lost
           /\ \A u \in Tasks : ustack_page[u] # at[v]
  BY LoadedFrames
<1>3. /\ allocated' = (allocated \ dfs_kfree_page(t)) \cup Range(at) \cup {new}
      /\ lost' = lost
      /\ new \in Frames \ allocated
  BY DEF Loads
<1>4. \A u \in Tasks : ustack_page'[u] = IF u = t THEN new ELSE ustack_page[u]
  BY DEF Loads, AInv, TypeOK
<1>5. DOMAIN at = DOMAIN image /\ Range(at) = {at[v] : v \in DOMAIN image}
  BY DEF Loads, Range
<1>6. None \notin Frames /\ INVALID.frame = None /\ USER_STACK_PAGE \in Pages
  BY AddressSpacesAssumption DEF INVALID
<1>7. DOMAIN image \subseteq Pages
  BY DEF Loads
<1>8. \A f \in dfs_kfree_page(t) :
         /\ f \notin lost
         /\ \A u \in Tasks : ustack_page[u] # f
         /\ \A u \in Tasks, w \in Pages : u # t => pte[u][w].frame # f
  BY Freed
<1>9. /\ \A u \in Tasks : ustack_page[u] # new
      /\ \A u \in Tasks, w \in Pages : pte[u][w].frame # new
      /\ new \notin lost
  BY <1>3 DEF AInv, MapInv, FrameInv
<1>10. ASSUME NEW u \in Tasks, NEW w \in Pages, pte'[u][w].frame \in Frames
       PROVE  /\ pte'[u][w].frame \in allocated'
              /\ pte'[u][w].frame \notin lost'
              /\ \A x \in Tasks : ustack_page'[x] # pte'[u][w].frame
  <2>1. CASE u # t
    <3>1. pte'[u][w].frame = pte[u][w].frame
      BY <1>1, <2>1
    <3>2. /\ pte[u][w].frame \in allocated
          /\ pte[u][w].frame \notin lost
          /\ \A x \in Tasks : ustack_page[x] # pte[u][w].frame
      BY <1>10, <3>1 DEF AInv, MapInv, FrameInv
    <3> QED
      BY <1>3, <1>4, <1>8, <1>9, <2>1, <3>1, <3>2
  <2>2. CASE u = t /\ w = USER_STACK_PAGE
    <3>1. /\ ustack_page[t] \in allocated
          /\ ustack_page[t] \notin lost
          /\ \A x \in Tasks : ustack_page[x] = ustack_page[t] => x = t
      BY <1>2 DEF AInv, MapInv, FrameInv
    <3> QED
      BY <1>1, <1>3, <1>4, <1>8, <1>9, <2>2, <3>1
  <2>3. CASE u = t /\ w \in DOMAIN image
    BY <1>1, <1>2, <1>3, <1>4, <1>5, <2>3
  <2> QED
    BY <1>1, <1>6, <1>10, <2>1, <2>2, <2>3
<1>11. \A x, u \in Tasks : ustack_page'[x] \in Frames =>
         /\ ustack_page'[x] \in allocated'
         /\ ustack_page'[x] \notin lost'
         /\ ustack_page'[x] = ustack_page'[u] => x = u
  BY <1>3, <1>4, <1>8, <1>9 DEF AInv, MapInv, FrameInv
<1>12. lost' \subseteq allocated'
  BY <1>3, <1>8 DEF AInv, MapInv, FrameInv
<1>13. ASSUME NEW g \in allocated'
       PROVE  \/ g \in lost'
              \/ \E u \in Tasks : ustack_page'[u] = g
              \/ \E u \in Tasks, w \in Pages : pte'[u][w].frame = g
  <2>1. CASE g = new
    BY <1>4, <2>1
  <2>2. CASE g \in Range(at)
    BY <1>1, <1>5, <1>7, <2>2
  <2>3. CASE g \in allocated \ dfs_kfree_page(t)
    <3>1. g \in Frames
      BY <2>3 DEF AInv, TypeOK
    <3>2. CASE \E u \in Tasks, w \in Pages : u # t /\ pte[u][w].frame = g
      BY <3>2, <1>1
    <3>3. CASE \E w \in Pages : pte[t][w].frame = g
      <4>1. PICK w \in Pages : pte[t][w].frame = g
        BY <3>3
      <4>2. \E u \in Tasks, x \in Pages : u # t /\ pte[u][x].frame = g
        BY <2>3, <3>1, <4>1, NotFreed
      <4> QED
        BY <3>2, <4>2
    <3>4. CASE \E u \in Tasks : ustack_page[u] = g
      BY <3>4, <1>1, <1>4, <1>6
    <3>5. CASE g \in lost
      BY <1>3, <3>5
    <3> QED
      BY <2>3, <3>2, <3>3, <3>4, <3>5 DEF AInv, MapInv, FrameInv
  <2> QED
    BY <1>3, <2>1, <2>2, <2>3
<1> QED
  BY <1>10, <1>11, <1>12, <1>13 DEF FrameInv


LEMMA LoadedStep ==
  ASSUME AInv, NEW t \in Tasks, NEW args, NEW image, NEW writable, NEW new, NEW at,
         Loads(t, args, image, writable, new, at)
  PROVE  AInv'
<1>1. Replaced(t, LoadedMap(t, image, writable, at))
  BY LoadedMaps
<1>2. /\ pte' \in [Tasks -> [Pages -> Entries]]
      /\ page_ref_count' \in [Frames -> Nat]
      /\ RefCountExact' /\ OncePerTask' /\ SharedInv'
  BY <1>1, ReplacedStep
<1>3. FrameInv'
  BY LoadedAccount
<1>4. /\ \A u \in Tasks, w \in Pages : u # t => pte'[u][w] = pte[u][w]
      /\ pte'[t][USER_STACK_PAGE].frame = ustack_page[t]
      /\ \A v \in DOMAIN image : pte'[t][v].frame = at[v]
      /\ \A v \in Pages : v \notin DOMAIN image /\ v # USER_STACK_PAGE =>
               pte'[t][v] = INVALID
      /\ content'[ustack_page[t]] = args
      /\ \A v \in DOMAIN image : content'[at[v]] = image[v]
      /\ \A u \in Tasks, w \in Pages :
               u # t /\ pte[u][w].frame \in Frames =>
                  content'[pte[u][w].frame] = content[pte[u][w].frame]
  BY LoadedContent, Zenon
<1>5. /\ args \in Values
      /\ \A v \in DOMAIN image : image[v] \in Values
      /\ new \in Frames \ allocated
      /\ status' = status /\ lost' = lost /\ panicked' = panicked
      /\ status[t] = "alive"
  BY DEF Loads
<1>6. None \notin Frames /\ INVALID.frame = None
  BY AddressSpacesAssumption DEF INVALID
<1>7. ContentInv'
  BY <1>4, <1>5, <1>6 DEF AInv, MapInv, ContentInv
<1>8. \A u \in Tasks : ustack_page'[u] = IF u = t THEN new ELSE ustack_page[u]
  BY DEF Loads, AInv, TypeOK
<1>9. SlotInv'
  BY <1>4, <1>5, <1>8 DEF AInv, MapInv, SlotInv
<1>10. /\ ustack_page' \in [Tasks -> Frames \cup {None}]
       /\ DOMAIN at = DOMAIN image
  BY DEF Loads, AInv, TypeOK
<1>11. allocated' \subseteq Frames
  <2>1. \A v \in DOMAIN image : at[v] \in Frames
    BY LoadedFrames
  <2>2. Range(at) \subseteq Frames
    BY <1>10, <2>1 DEF Range
  <2> QED
    BY <2>2 DEF Loads, AInv, TypeOK
<1>12. content' \in [Frames -> Values \cup {None}]
  <2>1. ASSUME NEW f \in Frames PROVE content'[f] \in Values \cup {None}
    <3>1. content'[f] =
            IF f = ustack_page[t] THEN args
            ELSE IF f \in Range(at)
                 THEN image[CHOOSE v \in DOMAIN image : at[v] = f]
                 ELSE content[f]
      BY DEF Loads
    <3>2. CASE f \in Range(at)
      <4>1. PICK v \in DOMAIN image : at[v] = f
        BY <1>10, <3>2 DEF Range
      <4> QED
        BY <1>4, <1>5, <4>1
    <3>3. CASE f \notin Range(at)
      BY <1>5, <3>1, <3>3 DEF AInv, TypeOK
    <3> QED
      BY <3>2, <3>3
  <2>2. content' = [f \in Frames |-> content'[f]]
    BY DEF Loads
  <2> QED
    BY <2>1, <2>2
<1>13. TypeOK'
  BY <1>2, <1>5, <1>10, <1>11, <1>12 DEF AInv, TypeOK
<1> QED
  BY <1>2, <1>3, <1>7, <1>9, <1>13 DEF AInv, MapInv

(* A step of exec() that does not panic loads the image.                   *)
LEMMA ExecLoads ==
  ASSUME NEW t \in Tasks, NEW args \in Values, NEW image \in Images,
         NEW writable \in BOOLEAN, exec(t, args, image, writable), ~panic
  PROVE  \E new, at :
           /\ Loads(t, args, image, writable, new, at)
           /\ request' = <<"exec", t, [v \in Pages |->
                IF v = USER_STACK_PAGE THEN args
                ELSE IF v \in DOMAIN image THEN image[v] ELSE None]>>
<1>1. PICK new \in get_free_page :
      \E at \in Injection(DOMAIN image, (get_free_page \cup dfs_kfree_page(t)) \ {new}) :
        /\ allocated' = (allocated \ dfs_kfree_page(t)) \cup Range(at) \cup {new}
        /\ pte' = [pte EXCEPT ![t] = LoadedMap(t, image, writable, at)]
        /\ page_ref_count' = [f \in Frames |-> Dropped(t)[f] +
             IF f \in Range(at) \cup {ustack_page[t]} THEN 1 ELSE 0]
        /\ content' = [f \in Frames |->
             IF f = ustack_page[t] THEN args
             ELSE IF f \in Range(at)
                  THEN image[CHOOSE v \in DOMAIN image : at[v] = f]
                  ELSE content[f]]
        /\ ustack_page' = [ustack_page EXCEPT ![t] = new]
        /\ request' = <<"exec", t, [v \in Pages |->
             IF v = USER_STACK_PAGE THEN args
             ELSE IF v \in DOMAIN image THEN image[v] ELSE None]>>
        /\ UNCHANGED <<status, lost, panicked>>
  BY Zenon DEF exec
<1>2. PICK at \in Injection(DOMAIN image, (get_free_page \cup dfs_kfree_page(t)) \ {new}) :
        /\ allocated' = (allocated \ dfs_kfree_page(t)) \cup Range(at) \cup {new}
        /\ pte' = [pte EXCEPT ![t] = LoadedMap(t, image, writable, at)]
        /\ page_ref_count' = [f \in Frames |-> Dropped(t)[f] +
             IF f \in Range(at) \cup {ustack_page[t]} THEN 1 ELSE 0]
        /\ content' = [f \in Frames |->
             IF f = ustack_page[t] THEN args
             ELSE IF f \in Range(at)
                  THEN image[CHOOSE v \in DOMAIN image : at[v] = f]
                  ELSE content[f]]
        /\ ustack_page' = [ustack_page EXCEPT ![t] = new]
        /\ request' = <<"exec", t, [v \in Pages |->
             IF v = USER_STACK_PAGE THEN args
             ELSE IF v \in DOMAIN image THEN image[v] ELSE None]>>
        /\ UNCHANGED <<status, lost, panicked>>
  BY <1>1, Zenon
<1>3. status[t] = "alive"
  BY Zenon DEF exec
<1>4. PICK S \in SUBSET (Pages \ {USER_STACK_PAGE}) : image \in [S -> Values]
  BY DEF Images
<1>5. DOMAIN image = S /\ \A v \in DOMAIN image : image[v] \in Values
  BY <1>4
<1>6. new \in Frames \ allocated
  BY DEF get_free_page
<1>7. /\ at \in [DOMAIN image -> ((Frames \ allocated) \cup dfs_kfree_page(t)) \ {new}]
      /\ DOMAIN at = DOMAIN image
  BY DEF Injection, get_free_page
<1>8. \A v, w \in DOMAIN image : at[v] = at[w] => v = w
  BY <1>7 DEF Injection, IsInjective
<1>9. Loads(t, args, image, writable, new, at)
  BY <1>2, <1>3, <1>5, <1>6, <1>7, <1>8, Zenon DEF Loads
<1> QED
  BY <1>2, <1>9

LEMMA ExecStep ==
  ASSUME AInv, NEW t \in Tasks, NEW args \in Values, NEW image \in Images,
         NEW writable \in BOOLEAN, exec(t, args, image, writable)
  PROVE  AInv'
<1>1. CASE panic
  BY <1>1, MapsKept DEF panic, AInv, TypeOK
<1>2. CASE ~panic
  <2>1. PICK new, at : Loads(t, args, image, writable, new, at)
    BY <1>2, ExecLoads
  <2> QED
    BY <2>1, LoadedStep
<1> QED
  BY <1>1, <1>2

LEMMA ExitStep ==
  ASSUME AInv, NEW t \in Tasks, exit(t)
  PROVE  AInv'
<1>1. CASE panic
  BY <1>1, MapsKept DEF panic, AInv, TypeOK
<1>2. CASE ~panic
  <2>1. /\ status' = [status EXCEPT ![t] = "zombie"]
        /\ UNCHANGED <<pte, ustack_page, page_ref_count, allocated, lost, content, panicked>>
        /\ status[t] = "alive"
    BY <1>2 DEF exit, InUserMode
  <2>2. /\ status' \in [Tasks -> {"unused", "alive", "zombie"}]
        /\ \A u \in Tasks : status'[u] = "unused" <=> status[u] = "unused"
        /\ panicked' \in BOOLEAN
    BY <2>1 DEF AInv, TypeOK
  <2> QED
    BY <2>1, <2>2, MapsKept
<1> QED
  BY <1>1, <1>2
=============================================================================
