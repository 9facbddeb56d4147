------------------------------ MODULE SharedPtr ------------------------------
(***************************************************************************)
(* Ownership by SharedPtr, WeakPtr and EnableSharedFromThis (include/lib), *)
(* in the shape the file systems give it: an inode owns its child and      *)
(* refers weakly to its parent and to itself.  Memory that is freed keeps  *)
(* its contents until it is allocated again, which is what the slob        *)
(* allocator does to a payload: the code relies on it (see drop).          *)
(***************************************************************************)
EXTENDS Integers, FiniteSets

CONSTANTS
  SharedVars, WeakVars,   \* variables of type SharedPtr and WeakPtr
  MaxObjects, MaxBlocks   \* bounds: objects and control blocks at a time

VARIABLES
  h,      \* the heap: h.blk[b], a ControlBlock; h.obj[o], an inode; h.freed_twice
  sp,     \* sp[s]: [ctrl, alias]
  wp      \* wp[w]: _ctrl

vars == <<h, sp, wp>>

nullptr == 0
Objects == 1..MaxObjects
Blocks == 1..MaxBlocks
NoBlock == [alloc |-> FALSE, p |-> nullptr, use_count |-> 0, use_count_weak |-> 0]
NoObject == [alive |-> FALSE, self |-> nullptr, parent |-> nullptr, child |-> nullptr]
Empty == [ctrl |-> nullptr, alias |-> nullptr]

Init ==
  /\ h = [blk |-> [b \in Blocks |-> NoBlock], obj |-> [o \in Objects |-> NoObject],
          freed_twice |-> FALSE]
  /\ sp = [s \in SharedVars |-> Empty]
  /\ wp = [w \in WeakVars |-> nullptr]

get(ptr) == IF ptr.alias # nullptr THEN ptr.alias
            ELSE IF ptr.ctrl # nullptr THEN h.blk[ptr.ctrl].p ELSE nullptr

-----------------------------------------------------------------------------
inc_use_count(g, b) == IF b = nullptr THEN g ELSE [g EXCEPT !.blk[b].use_count = @ + 1]
inc_use_count_weak(g, b) == IF b = nullptr THEN g ELSE [g EXCEPT !.blk[b].use_count_weak = @ + 1]


\* "Set use_count_weak to -1 to prevent against double delete."
maybe_delete_ctrl_block(g, b) ==
  IF g.blk[b].use_count + g.blk[b].use_count_weak # 0 THEN g
  ELSE [g EXCEPT !.freed_twice = @ \/ ~g.blk[b].alloc, !.blk[b].alloc = FALSE,
                 !.blk[b].use_count_weak = -1]

dec_use_count_weak(g, b) ==
  IF b = nullptr THEN g
  ELSE IF g.blk[b].use_count_weak <= 0 THEN g
  ELSE maybe_delete_ctrl_block([g EXCEPT !.blk[b].use_count_weak = @ - 1], b)

\* delete runs the destructor of the inode: its child, its parent, and the base
\* class with the pointer to itself.  When that was the last weak pointer, it
\* frees the block, which maybe_delete_p() and maybe_delete_ctrl_block() then
\* still write to and read.
RECURSIVE dec_use_count(_, _)
maybe_delete_p(g, b) ==
  LET o == g.blk[b].p IN
  IF g.blk[b].use_count # 0 THEN g
  ELSE IF o = nullptr THEN g
  ELSE LET g1 == dec_use_count(g, g.obj[o].child)
           g2 == dec_use_count_weak(g1, g.obj[o].parent)
           g3 == dec_use_count_weak(g2, g.obj[o].self)
       IN  [g3 EXCEPT !.freed_twice = @ \/ ~g.obj[o].alive, !.obj[o] = NoObject, !.blk[b].p = nullptr]

dec_use_count(g, b) ==
  IF b = nullptr THEN g
  ELSE IF g.blk[b].use_count <= 0 THEN g
  ELSE maybe_delete_ctrl_block(maybe_delete_p([g EXCEPT !.blk[b].use_count = @ - 1], b), b)

-----------------------------------------------------------------------------
FreeBlocks == {b \in Blocks : ~h.blk[b].alloc}
FreeObjects == {o \in Objects : ~h.obj[o].alive}
First(S) == CHOOSE x \in S : \A y \in S : x <= y

\* A new inode whose parent is the inode of block `parent', and its SharedPtr;
\* `from_this': its class is an EnableSharedFromThis.
new(parent, from_this) ==
  LET b == First(FreeBlocks)
      self == IF from_this THEN b ELSE nullptr
  IN  inc_use_count_weak(
        inc_use_count_weak(
          [h EXCEPT !.blk[b] = [alloc |-> TRUE, p |-> First(FreeObjects), use_count |-> 1,
                                use_count_weak |-> 0],
                    !.obj[First(FreeObjects)] = [alive |-> TRUE, self |-> self, parent |-> parent,
                                                 child |-> nullptr]], self), parent)

make_shared(s, from_this) ==
  /\ sp[s] = Empty /\ FreeBlocks # {} /\ FreeObjects # {}
  /\ h' = new(nullptr, from_this)
  /\ sp' = [sp EXCEPT ![s] = [ctrl |-> First(FreeBlocks), alias |-> nullptr]]
  /\ UNCHANGED wp

copy_construct(s, r) ==
  /\ sp[s] = Empty
  /\ h' = inc_use_count(h, sp[r].ctrl)
  /\ sp' = [sp EXCEPT ![s] = sp[r]]
  /\ UNCHANGED wp

\* static_pointer_cast() and the conversion to a SharedPtr of a base class.
cast(s, r) ==
  /\ sp[s] = Empty /\ get(sp[r]) # nullptr
  /\ h' = inc_use_count(h, sp[r].ctrl)
  /\ sp' = [sp EXCEPT ![s] = [ctrl |-> sp[r].ctrl, alias |-> get(sp[r])]]
  /\ UNCHANGED wp

move_construct(s, r) ==
  /\ sp[s] = Empty /\ s # r
  /\ sp' = [sp EXCEPT ![s] = sp[r], ![r] = Empty]
  /\ UNCHANGED <<h, wp>>

NullBlock == [alloc |-> TRUE, p |-> nullptr, use_count |-> 1, use_count_weak |-> 0]

\* Assignment first calls reset(), if there is something to release.
Resets(s) == sp[s].ctrl # nullptr /\ h.blk[sp[s].ctrl].use_count > 0

\* reset() exchanges the block of the pointer for a new one, of a null pointer,
\* and releases the old.  The assignment then overwrites the new one: nobody
\* owns it, and nobody frees it.
reset(s) ==
  IF Resets(s) THEN dec_use_count([h EXCEPT !.blk[First(FreeBlocks)] = NullBlock], sp[s].ctrl) ELSE h

\* Assigned to itself, the pointer finds the new block in its own place.
copy_assign(s, r) ==
  LET from == IF s = r /\ Resets(s) THEN [ctrl |-> First(FreeBlocks), alias |-> nullptr] ELSE sp[r] IN
  /\ FreeBlocks # {}
  /\ h' = inc_use_count(reset(s), from.ctrl)
  /\ sp' = [sp EXCEPT ![s] = from]
  /\ UNCHANGED wp

move_assign(s, r) ==
  /\ FreeBlocks # {}
  /\ h' = reset(s)
  /\ sp' = [sp EXCEPT ![s] = sp[r], ![r] = Empty]
  /\ UNCHANGED wp

destroy(s) ==
  /\ sp[s] # Empty
  /\ h' = dec_use_count(h, sp[s].ctrl)
  /\ sp' = [sp EXCEPT ![s] = Empty]
  /\ UNCHANGED wp

-----------------------------------------------------------------------------
\* operator WeakPtr(), copied to or assigned to a variable.
weak_assign(w, ctrl) ==
  /\ h' = inc_use_count_weak(dec_use_count_weak(h, wp[w]), ctrl)
  /\ wp' = [wp EXCEPT ![w] = ctrl]
  /\ UNCHANGED sp

\* When this frees the block, the pointer is null before it is read.
weak_self_assign(w) ==
  LET g == dec_use_count_weak(h, wp[w])
      b == IF wp[w] # nullptr /\ g.blk[wp[w]].alloc THEN wp[w] ELSE nullptr
  IN
  /\ h' = inc_use_count_weak(g, b)
  /\ wp' = [wp EXCEPT ![w] = b]
  /\ UNCHANGED sp

weak_move_assign(w, v) ==
  /\ h' = dec_use_count_weak(h, wp[w])
  /\ wp' = [wp EXCEPT ![w] = wp[v], ![v] = nullptr]
  /\ UNCHANGED sp

weak_destroy(w) ==
  /\ wp[w] # nullptr
  /\ h' = dec_use_count_weak(h, wp[w])
  /\ wp' = [wp EXCEPT ![w] = nullptr]
  /\ UNCHANGED sp

expired(b) == IF b = nullptr THEN TRUE ELSE h.blk[b].use_count = 0

\* The SharedPtr that lock() returns, in a new variable.
lock(s, b) ==
  /\ sp[s] = Empty
  /\ h' = IF expired(b) THEN h ELSE inc_use_count(h, b)
  /\ sp' = [sp EXCEPT ![s].ctrl = IF expired(b) THEN nullptr ELSE b]
  /\ UNCHANGED wp

-----------------------------------------------------------------------------
(* The inode that a variable points to.                                    *)

\* The child refers to shared_from_this().
create_child(s) ==
  LET o == get(sp[s]) IN
  /\ o # nullptr /\ FreeBlocks # {} /\ FreeObjects # {}
  /\ h.obj[o].child = nullptr /\ ~expired(h.obj[o].self)
  /\ h' = [new(h.obj[o].self, TRUE) EXCEPT !.obj[o].child = First(FreeBlocks)]
  /\ UNCHANGED <<sp, wp>>

get_child(s, r) ==
  LET o == get(sp[r]) IN
  /\ sp[s] = Empty /\ o # nullptr
  /\ h' = inc_use_count(h, h.obj[o].child)
  /\ sp' = [sp EXCEPT ![s].ctrl = h.obj[o].child]
  /\ UNCHANGED wp

get_parent(s, r) == get(sp[r]) # nullptr /\ lock(s, h.obj[get(sp[r])].parent)

remove_child(s, r) ==
  LET o == get(sp[r]) IN
  /\ sp[s] = Empty /\ o # nullptr /\ h.obj[o].child # nullptr
  /\ h' = [h EXCEPT !.obj[o].child = nullptr]
  /\ sp' = [sp EXCEPT ![s].ctrl = h.obj[o].child]
  /\ UNCHANGED wp

Next ==
  \/ \E s \in SharedVars, from_this \in BOOLEAN : make_shared(s, from_this)
  \/ \E s, r \in SharedVars :
       \/ copy_construct(s, r) \/ cast(s, r) \/ move_construct(s, r)
       \/ copy_assign(s, r) \/ move_assign(s, r)
       \/ get_child(s, r) \/ get_parent(s, r) \/ remove_child(s, r)
  \/ \E s \in SharedVars : destroy(s) \/ create_child(s)
  \/ \E w \in WeakVars, s \in SharedVars : weak_assign(w, sp[s].ctrl) \/ lock(s, wp[w])
  \/ \E w, v \in WeakVars : (w # v /\ weak_assign(w, wp[v])) \/ weak_move_assign(w, v)
  \/ \E w \in WeakVars : weak_self_assign(w) \/ weak_destroy(w)

Spec == Init /\ [][Next]_vars

-----------------------------------------------------------------------------
(* Properties.                                                             *)

Alive == {o \in Objects : h.obj[o].alive}

\* The blocks that reset() made for the null pointer.
OfReset(b) == h.blk[b].alloc /\ h.blk[b].p = nullptr /\ h.blk[b].use_count > 0

\* A control block counts the SharedPtrs and the WeakPtrs that refer to it, in
\* variables and in the members of inodes that exist, and is freed when there
\* are none of either.  Only the blocks that assignments make for the null
\* pointer count one owner too many, and stay.
CountsExact ==
  \A b \in Blocks :
    LET shared == Cardinality({s \in SharedVars : sp[s].ctrl = b})
                  + Cardinality({o \in Alive : h.obj[o].child = b})
        weak == Cardinality({w \in WeakVars : wp[w] = b})
                + Cardinality({o \in Alive : h.obj[o].parent = b})
                + Cardinality({o \in Alive : h.obj[o].self = b})
        lost == IF OfReset(b) THEN 1 ELSE 0
    IN  /\ h.blk[b].alloc => h.blk[b].use_count = shared + lost /\ h.blk[b].use_count_weak = weak
        /\ h.blk[b].alloc = (shared + lost + weak > 0)

\* An inode exists exactly as long as a SharedPtr owns it, and every pointer that
\* is not null leads to an inode that exists.
AliveWhileOwned ==
  /\ \A o \in Objects :
       h.obj[o].alive = \E b \in Blocks : h.blk[b].alloc /\ h.blk[b].use_count > 0 /\ h.blk[b].p = o
  /\ \A s \in SharedVars : get(sp[s]) # nullptr => h.obj[get(sp[s])].alive
  /\ \A s \in SharedVars : sp[s].alias # nullptr => sp[s].alias = h.blk[sp[s].ctrl].p

\* Neither an inode nor a control block is freed twice, although the destructor of
\* an inode can free the block that is deleting it.
FreedOnce == ~h.freed_twice

=============================================================================
