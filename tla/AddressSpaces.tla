---------------------------- MODULE AddressSpaces ----------------------------
(***************************************************************************)
(* The user address spaces: VMMap (src/mm/VirtualMemoryMap.cc), the page   *)
(* reference counts of MemoryManager, and the callers that change them:    *)
(* fork, exec, do_mmap, the write fault handler and the destructor of a    *)
(* reaped task.                                                            *)
(*                                                                         *)
(* A page table entry is [frame, ro, cow]: the frame, PD_RDONLY and        *)
(* PD_COW_PAGE.  PD_EL0_EXEC_NEVER, the upper page table levels and their  *)
(* frames are left out.  Every handler runs with IRQs masked, so each is   *)
(* one step.  Running out of frames stops the kernel: the allocation       *)
(* tracker panics on the null result.                                      *)
(***************************************************************************)
EXTENDS Integers, FiniteSets, Functions

CONSTANTS
    Tasks,          \* task slots; a slot is free again when its task is reaped
    Pages,          \* virtual pages
    Frames,         \* page frames
    Values,         \* page contents
    USER_STACK_PAGE,
    init,           \* the first user task
    None,           \* no frame, or no contents
    KernelStores    \* do system calls also store to shared frames?

ASSUME AddressSpacesAssumption ==
    /\ IsFiniteSet(Tasks)
    /\ IsFiniteSet(Pages)
    /\ init \in Tasks
    /\ USER_STACK_PAGE \in Pages
    /\ None \notin Frames \cup Values
    /\ KernelStores \in BOOLEAN

VARIABLES
    status,         \* status[t]: "unused", "alive" or "zombie"
    pte,            \* pte[t][v]
    ustack_page,   \* ustack_page[t]: the frame the next exec will use
    page_ref_count, \* MemoryManager's reference counts
    allocated,      \* frames handed out by get_free_page and not kfreed
    lost,           \* ustack_page frames of tasks that no longer exist
    content,        \* content[f]: what frame f holds
    request,        \* the last operation, with its arguments
    panicked

vars == <<status, pte, ustack_page, page_ref_count, allocated,
          lost, content, request, panicked>>

INVALID == [frame |-> None, ro |-> TRUE, cow |-> FALSE]

Entries == {INVALID} \cup [frame : Frames, ro : BOOLEAN, cow : BOOLEAN]

Mapped(t) == {v \in Pages : pte[t][v] # INVALID}

FramesOf(t) == {pte[t][v].frame : v \in Mapped(t)}

(* USER_PAGE_R(W) as VMMap::map completes it: writable means copy-on-write *)
Entry(f, writable) == [frame |-> f, ro |-> ~writable, cow |-> writable]

(* Start-up has created the first user task, which has not called exec.    *)
Init ==
    /\ status = [t \in Tasks |-> IF t = init THEN "alive" ELSE "unused"]
    /\ pte = [t \in Tasks |-> [v \in Pages |-> INVALID]]
    /\ \E f \in Frames :
         /\ ustack_page = [t \in Tasks |-> IF t = init THEN f ELSE None]
         /\ allocated = {f}
    /\ page_ref_count = [f \in Frames |-> 0]
    /\ lost = {}
    /\ content = [f \in Frames |-> None]
    /\ request = <<"boot">>
    /\ panicked = FALSE

(* A task that runs user code: exec has mapped its stack.                  *)
InUserMode(t) ==
    /\ ~panicked
    /\ status[t] = "alive"
    /\ USER_STACK_PAGE \in Mapped(t)

panic ==
    /\ panicked' = TRUE
    /\ UNCHANGED <<status, pte, ustack_page, page_ref_count,
                   allocated, lost, content, request>>

get_free_page == Frames \ allocated

(* do_mmap() of one page, anonymous or file-backed: a fresh frame is       *)
(* mapped, zeroed and filled with val.  map() panics if v is mapped.       *)
mmap(t, v, writable, val) ==
    /\ InUserMode(t)
    /\ IF v \in Mapped(t) \/ get_free_page = {}
       THEN panic
       ELSE \E f \in get_free_page :
              /\ allocated' = allocated \cup {f}
              /\ pte' = [pte EXCEPT ![t][v] = Entry(f, writable)]
              /\ page_ref_count' = [page_ref_count EXCEPT ![f] = @ + 1]
              /\ content' = [content EXCEPT ![f] = val]
              /\ request' = <<"mmap", t, v, val>>
              /\ UNCHANGED <<status, ustack_page, lost, panicked>>

Write(t, v, val) ==
    /\ content' = [content EXCEPT ![pte[t][v].frame] = val]
    /\ request' = <<"store", t, v, val>>
    /\ UNCHANGED <<status, pte, ustack_page, page_ref_count,
                   allocated, lost, panicked>>

(* A user store the MMU lets through.                                      *)
store(t, v, val) ==
    /\ InUserMode(t)
    /\ v \in Mapped(t)
    /\ ~pte[t][v].ro
    /\ Write(t, v, val)

(* A system call stores to a user buffer (sys_read, sys_wait): v2p() only  *)
(* translates the address, whatever the entry's attributes.  The code does *)
(* so for shared frames too, KernelStores = TRUE; FALSE is a kernel that   *)
(* is only given buffers whose frames are not shared.                      *)
kernel_store(t, v, val) ==
    /\ InUserMode(t)
    /\ v \in Mapped(t)
    /\ KernelStores \/ page_ref_count[pte[t][v].frame] = 1
    /\ Write(t, v, val)

copy_page_frame_always_in_place(t, v) ==
    /\ pte' = [pte EXCEPT ![t][v] = [frame |-> pte[t][v].frame, ro |-> FALSE, cow |-> FALSE]]
    /\ UNCHANGED <<page_ref_count, allocated, content, panicked>>

copy_page_frame_keeps_old_count(t, v) ==
    IF page_ref_count[pte[t][v].frame] = 1 \/ get_free_page = {}
    THEN copy_page_frame_always_in_place(t, v)
    ELSE \E f \in get_free_page :
           /\ allocated' = allocated \cup {f}
           /\ content' = [content EXCEPT ![f] = content[pte[t][v].frame]]
           /\ pte' = [pte EXCEPT ![t][v] = [frame |-> f, ro |-> FALSE, cow |-> FALSE]]
           /\ page_ref_count' = [page_ref_count EXCEPT ![f] = @ + 1]
           /\ UNCHANGED panicked

copy_page_frame_without_memcpy(t, v) ==
    LET old == pte[t][v].frame IN
    IF page_ref_count[old] = 1 \/ get_free_page = {}
    THEN copy_page_frame_always_in_place(t, v)
    ELSE \E f \in get_free_page :
           /\ allocated' = allocated \cup {f}
           /\ pte' = [pte EXCEPT ![t][v] = [frame |-> f, ro |-> FALSE, cow |-> FALSE]]
           /\ page_ref_count' = [page_ref_count EXCEPT ![old] = @ - 1, ![f] = @ + 1]
           /\ UNCHANGED <<content, panicked>>

(* The only user of a frame takes it over; another one gets a copy, whose  *)
(* entry keeps the low attribute bits, so not PD_COW_PAGE.                 *)
copy_page_frame(t, v) ==
    LET old == pte[t][v].frame IN
    IF page_ref_count[old] = 1
    THEN /\ pte' = [pte EXCEPT ![t][v] = [frame |-> old, ro |-> FALSE, cow |-> FALSE]]
         /\ UNCHANGED <<page_ref_count, allocated, content, panicked>>
    ELSE IF get_free_page = {}
    THEN /\ panicked' = TRUE
         /\ UNCHANGED <<pte, page_ref_count, allocated, content>>
    ELSE \E f \in get_free_page :
           /\ allocated' = allocated \cup {f}
           /\ content' = [content EXCEPT ![f] = content[old]]
           /\ pte' = [pte EXCEPT ![t][v] = [frame |-> f, ro |-> FALSE, cow |-> FALSE]]
           /\ page_ref_count' = [page_ref_count EXCEPT ![old] = @ - 1, ![f] = @ + 1]
           /\ UNCHANGED panicked

(* A user store the MMU refuses.  For a page that is not copy-on-write the *)
(* handler only posts SIGSEGV, which ends in exit: see page_fault of Tasks. *)
handle_page_fault(t, v) ==
    /\ InUserMode(t)
    /\ pte[t][v].ro
    /\ IF pte[t][v].cow
       THEN copy_page_frame(t, v)
       ELSE UNCHANGED <<pte, page_ref_count, allocated, content, panicked>>
    /\ UNCHANGED <<status, ustack_page, lost, request>>

(* Every entry of the parent, and its copy in the child, becomes read-only *)
(* and copy-on-write.                                                      *)
dfs_copy_page_tables(p, c) ==
    LET shared == [v \in Pages |->
                     IF v \in Mapped(p)
                     THEN [frame |-> pte[p][v].frame, ro |-> TRUE, cow |-> TRUE]
                     ELSE INVALID]
    IN /\ pte' = [pte EXCEPT ![p] = shared, ![c] = shared]
       /\ page_ref_count' = [f \in Frames |->
             page_ref_count[f] + IF f \in FramesOf(p) THEN 1 ELSE 0]

(* Task::fork(): the child's own ustack_page gets the parent's contents.  *)
fork(p, c) ==
    /\ InUserMode(p)
    /\ status[c] = "unused"
    /\ IF get_free_page = {}
       THEN panic
       ELSE /\ \E f \in get_free_page :
                 /\ allocated' = allocated \cup {f}
                 /\ ustack_page' = [ustack_page EXCEPT ![c] = f]
                 /\ content' = [content EXCEPT ![f] = content[ustack_page[p]]]
            /\ status' = [status EXCEPT ![c] = "alive"]
            /\ dfs_copy_page_tables(p, c)
            /\ request' = <<"fork", p, c>>
            /\ UNCHANGED <<lost, panicked>>

dfs_kfree_page_ignores_count(t) == FramesOf(t)

(* The frames whose last reference dfs_kfree_page drops.                   *)
dfs_kfree_page(t) == {f \in FramesOf(t) : page_ref_count[f] = 1}

(* The counts after dfs_kfree_page.                                        *)
Dropped(t) ==
    [f \in Frames |-> page_ref_count[f] - IF f \in FramesOf(t) THEN 1 ELSE 0]

(* The page tables exec leaves: ustack_page, which holds the arguments, is *)
(* the new stack; the loaded segments, whose pages image gives, are mapped *)
(* in the frames at.                                                       *)
LoadedMap(t, image, writable, at) ==
    [v \in Pages |->
        IF v = USER_STACK_PAGE THEN Entry(ustack_page[t], TRUE)
        ELSE IF v \in DOMAIN image THEN Entry(at[v], writable)
        ELSE INVALID]

(* Task::exec() of a valid ELF file.  A new ustack_page is allocated, the  *)
(* old map is dropped, and the stack and each segment are mapped.          *)
exec(t, args, image, writable) ==
    LET segments == DOMAIN image
        freed == dfs_kfree_page(t)
        left == get_free_page \cup freed
    IN /\ ~panicked
       /\ status[t] = "alive"
       /\ IF get_free_page = {} \/ Cardinality(left) < Cardinality(segments) + 1
          THEN panic
          ELSE \E new \in get_free_page :
               \E at \in Injection(segments, left \ {new}) :
                 /\ allocated' = (allocated \ freed) \cup Range(at) \cup {new}
                 /\ pte' = [pte EXCEPT ![t] = LoadedMap(t, image, writable, at)]
                 /\ page_ref_count' = [f \in Frames |-> Dropped(t)[f] +
                      IF f \in Range(at) \cup {ustack_page[t]} THEN 1 ELSE 0]
                 /\ content' = [f \in Frames |->
                      IF f = ustack_page[t] THEN args
                      ELSE IF f \in Range(at)
                           THEN image[CHOOSE v \in segments : at[v] = f]
                           ELSE content[f]]
                 /\ ustack_page' = [ustack_page EXCEPT ![t] = new]
                 /\ request' = <<"exec", t, [v \in Pages |->
                      IF v = USER_STACK_PAGE THEN args
                      ELSE IF v \in segments THEN image[v] ELSE None]>>
                 /\ UNCHANGED <<status, lost, panicked>>

(* Task::exit(), called or forced by a signal: the address space stays     *)
(* until the parent reaps the task.                                        *)
exit(t) ==
    /\ InUserMode(t)
    /\ IF t = init
       THEN panic
       ELSE /\ status' = [status EXCEPT ![t] = "zombie"]
            /\ UNCHANGED <<pte, ustack_page, page_ref_count, allocated,
                           lost, content, request, panicked>>

(* wait() destroys the Task: ~VMMap gives its frames back, and nothing     *)
(* frees its ustack_page.                                                  *)
reap(t) ==
    /\ ~panicked
    /\ status[t] = "zombie"
    /\ status' = [status EXCEPT ![t] = "unused"]
    /\ pte' = [pte EXCEPT ![t] = [v \in Pages |-> INVALID]]
    /\ page_ref_count' = Dropped(t)
    /\ allocated' = allocated \ dfs_kfree_page(t)
    /\ lost' = lost \cup {ustack_page[t]}
    /\ ustack_page' = [ustack_page EXCEPT ![t] = None]
    /\ request' = <<"release", t>>
    /\ UNCHANGED <<content, panicked>>

Halted ==
    /\ panicked
    /\ UNCHANGED vars

Images == UNION {[S -> Values] : S \in SUBSET (Pages \ {USER_STACK_PAGE})}

Next ==
    \/ \E t \in Tasks, v \in Pages, val \in Values :
         \/ \E writable \in BOOLEAN : mmap(t, v, writable, val)
         \/ store(t, v, val)
         \/ kernel_store(t, v, val)
    \/ \E t \in Tasks, v \in Pages : handle_page_fault(t, v)
    \/ \E p, c \in Tasks : fork(p, c)
    \/ \E t \in Tasks, args \in Values, image \in Images, writable \in BOOLEAN :
         exec(t, args, image, writable)
    \/ \E t \in Tasks : exit(t) \/ reap(t)
    \/ Halted

Spec == Init /\ [][Next]_vars

(* Every variable has its type, and counts are never negative.             *)
TypeOK ==
    /\ status \in [Tasks -> {"unused", "alive", "zombie"}]
    /\ pte \in [Tasks -> [Pages -> Entries]]
    /\ ustack_page \in [Tasks -> Frames \cup {None}]
    /\ page_ref_count \in [Frames -> Nat]
    /\ allocated \subseteq Frames
    /\ lost \subseteq Frames
    /\ content \in [Frames -> Values \cup {None}]
    /\ panicked \in BOOLEAN

Users(f) == {tv \in Tasks \X Pages : pte[tv[1]][tv[2]].frame = f}

(* page_ref_count[f] is the number of page table entries that map f, in    *)
(* all tasks, zombies included: fork, copy_page_frame, exec and ~VMMap     *)
(* keep the count that decides about copying and freeing exact.            *)
RefCountExact ==
    \A f \in Frames : page_ref_count[f] = Cardinality(Users(f))

(* A frame two entries map is read-only and copy-on-write in both, so no   *)
(* user store reaches it without handle_page_fault.                        *)
SharedIsReadOnly ==
    \A f \in Frames : Cardinality(Users(f)) > 1 =>
        \A tv \in Users(f) : pte[tv[1]][tv[2]].ro /\ pte[tv[1]][tv[2]].cow

(* Every frame handed out is mapped, or is the spare stack of exactly one  *)
(* task, or was the spare stack of a task that was destroyed; these are    *)
(* never mixed up, and no mapped frame has been freed.                     *)
FramesAccounted ==
    LET mapped == {f \in Frames : Users(f) # {}}
        spare == {ustack_page[t] : t \in {u \in Tasks : status[u] # "unused"}}
    IN /\ allocated = mapped \cup spare \cup lost
       /\ mapped \cap (spare \cup lost) = {}
       /\ spare \cap lost = {}
       /\ \A t, u \in Tasks : ustack_page[t] = ustack_page[u] =>
             t = u \/ ustack_page[t] = None

(* A task maps a frame at one page only.                                   *)
OncePerTask ==
    \A t \in Tasks : \A v, w \in Pages :
        pte[t][v].frame = pte[t][w].frame /\ pte[t][v].frame \in Frames => v = w

(* A task has a spare stack page and may have mapped pages exactly while   *)
(* it exists.                                                              *)
SlotInv ==
    \A t \in Tasks :
        /\ status[t] = "unused" => \A v \in Pages : pte[t][v] = INVALID
        /\ status[t] # "unused" <=> ustack_page[t] \in Frames

(* Mapped pages have contents.                                             *)
ContentInv ==
    \A t \in Tasks, v \in Pages :
        pte[t][v].frame \in Frames => content[pte[t][v].frame] \in Values

(* Frames that are handed out for one purpose are not used for another.    *)
FrameInv ==
    /\ \A t \in Tasks, v \in Pages : pte[t][v].frame \in Frames =>
          /\ pte[t][v].frame \in allocated
          /\ pte[t][v].frame \notin lost
          /\ \A u \in Tasks : ustack_page[u] # pte[t][v].frame
    /\ \A t, u \in Tasks : ustack_page[t] \in Frames =>
          /\ ustack_page[t] \in allocated
          /\ ustack_page[t] \notin lost
          /\ ustack_page[t] = ustack_page[u] => t = u
    /\ lost \subseteq allocated
    /\ \A f \in allocated :
          \/ f \in lost
          \/ \E t \in Tasks : ustack_page[t] = f
          \/ \E t \in Tasks, v \in Pages : pte[t][v].frame = f

(* A frame that two entries map is read-only and copy-on-write in both.    *)
SharedInv ==
    \A t, u \in Tasks, v, w \in Pages :
        /\ pte[t][v].frame \in Frames
        /\ pte[t][v].frame = pte[u][w].frame
        /\ <<t, v>> # <<u, w>>
        => pte[t][v].ro /\ pte[t][v].cow

(* What copying and freeing rely on: each part holds only together with    *)
(* the others, across fork, page faults, exec and reaping.                 *)
MapInv == OncePerTask /\ SlotInv /\ ContentInv /\ FrameInv /\ SharedInv

(* The inductive invariant: exact counts, and what makes deciding by them  *)
(* right in copy_page_frame and dfs_kfree_page.                            *)
AInv == TypeOK /\ RefCountExact /\ MapInv

Memory ==
    [t \in Tasks |-> [v \in Pages |->
        IF pte[t][v] = INVALID THEN None ELSE content[pte[t][v].frame]]]

Promise == INSTANCE PrivateMemory WITH mem <- Memory, Unmapped <- None

(* Copy-on-write is invisible: with page faults, sharing and in-place      *)
(* reuse hidden, every task reads its own private memory, and a child's    *)
(* starts as a copy of its parent's.                                       *)
MemoryIsPrivate == Promise!Spec
==============================================================================
