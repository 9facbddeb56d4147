---------------------------- MODULE PrivateMemory ----------------------------
(***************************************************************************)
(* What fork() promises a user program: every task has a memory of its     *)
(* own.  A child starts with a copy of its parent's memory, and from then  *)
(* on nothing one task does changes what another task reads.  There are no *)
(* frames, no sharing and no page tables here; AddressSpaces implements    *)
(* this module with copy-on-write.                                         *)
(***************************************************************************)
CONSTANTS
    Tasks,          \* task slots
    Pages,          \* virtual pages of an address space
    Values,         \* page contents
    Unmapped        \* "this page is not mapped"

VARIABLES
    mem,            \* mem[t][v]: what task t reads at page v
    request         \* the last operation, with its arguments

Empty == [v \in Pages |-> Unmapped]

Init ==
    /\ mem = [t \in Tasks |-> Empty]
    /\ request = <<"boot">>

(* A task maps page v with contents val, or stores val to a mapped page.   *)
Map(t, v, val) ==
    /\ mem[t][v] = Unmapped
    /\ mem' = [mem EXCEPT ![t][v] = val]
    /\ request' = <<"mmap", t, v, val>>

Store(t, v, val) ==
    /\ mem[t][v] # Unmapped
    /\ mem' = [mem EXCEPT ![t][v] = val]
    /\ request' = <<"store", t, v, val>>

(* A child's memory starts as a copy of its parent's.                      *)
Fork(p, c) ==
    /\ mem[c] = Empty
    /\ mem' = [mem EXCEPT ![c] = mem[p]]
    /\ request' = <<"fork", p, c>>

(* A task's memory is replaced by the image of another program.            *)
Exec(t, image) ==
    /\ mem' = [mem EXCEPT ![t] = image]
    /\ request' = <<"exec", t, image>>

Release(t) ==
    /\ mem' = [mem EXCEPT ![t] = Empty]
    /\ request' = <<"release", t>>

Next ==
    \/ \E t \in Tasks, v \in Pages, val \in Values : Map(t, v, val) \/ Store(t, v, val)
    \/ \E p, c \in Tasks : Fork(p, c)
    \/ \E t \in Tasks, image \in [Pages -> Values \cup {Unmapped}] : Exec(t, image)
    \/ \E t \in Tasks : Release(t)

Spec == Init /\ [][Next]_<<mem, request>>
==============================================================================
