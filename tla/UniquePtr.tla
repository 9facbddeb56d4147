----------------------------- MODULE UniquePtr -----------------------------
(***************************************************************************)
(* Ownership by UniquePtr (include/lib/UniquePtr.h), which hands tasks,    *)
(* mounts, partitions and file contents from one owner to the next.        *)
(***************************************************************************)
EXTENDS Integers, FiniteSets

CONSTANTS
  UniqueVars,       \* variables of type UniquePtr
  MaxOwned          \* objects at a time

VARIABLES
  up,       \* up[u]: _p
  raw,      \* a pointer that the caller holds itself, after release()
  owned     \* [alive, deleted_twice]: the objects

unique_vars == <<up, raw, owned>>

Null == 0
Derived == {1}      \* the objects for which dynamic_cast succeeds

UniqueInit ==
  /\ up = [u \in UniqueVars |-> Null]
  /\ raw = Null
  /\ owned = [alive |-> {}, deleted_twice |-> FALSE]

-----------------------------------------------------------------------------
\* delete p
Deleted(m, p) ==
  IF p = Null THEN m
  ELSE [alive |-> m.alive \ {p}, deleted_twice |-> m.deleted_twice \/ p \notin m.alive]

\* The pointers and the objects, as the operations of a step change them.
Now == [up |-> up, owned |-> owned]
Set(s) == up' = s.up /\ owned' = s.owned

reset(s, u, p) ==
  IF s.up[u] = p THEN s
  ELSE [up |-> [s.up EXCEPT ![u] = p], owned |-> Deleted(s.owned, s.up[u])]

Released(s, u) == [s EXCEPT !.up[u] = Null]

\* reset(r.release()), for u and r the same as well.
move_assign(s, u, r) == reset(Released(s, r), u, s.up[r])

make_unique(u) ==
  \E p \in (1..MaxOwned) \ owned.alive :
    /\ Set(reset([Now EXCEPT !.owned.alive = @ \cup {p}], u, p))
    /\ UNCHANGED raw

move(u, r) == Set(move_assign(Now, u, r)) /\ UNCHANGED raw

release(u) == raw = Null /\ raw' = up[u] /\ Set(Released(Now, u))

\* The caller gives the pointer back; by reset(get()) it gives the one that is held.
reset_to(u, p) == p \in {raw, up[u]} /\ Set(reset(Now, u, p)) /\ raw' = IF p = raw THEN Null ELSE raw

\* The destructor at the end of a scope.
destroy(u) == Set(reset(Now, u, Null)) /\ UNCHANGED raw

\* swap() of Utility.h: three moves, the first to a temporary and the last from it.
swap(u, r) ==
  /\ Set(reset(move_assign(Released(Now, u), u, r), r, up[u]))
  /\ UNCHANGED raw

\* r = UniquePtr<U>(u), where U is a derived class: the pointer moves only if it is one.
convert(u, r) ==
  /\ u # r
  /\ Set(IF up[u] \in Derived THEN move_assign(Now, r, u) ELSE reset(Now, r, Null))
  /\ UNCHANGED raw

UniqueNext ==
  \/ \E u \in UniqueVars : make_unique(u) \/ release(u) \/ destroy(u)
  \/ \E u \in UniqueVars, p \in 0..MaxOwned : reset_to(u, p)
  \/ \E u, r \in UniqueVars : move(u, r) \/ swap(u, r) \/ convert(u, r)

-----------------------------------------------------------------------------
\* UniquePtr.h: an object lives exactly as long as one pointer owns it, never two,
\* whatever is moved to whom: nothing leaks, dangles or is deleted twice.
SoleOwner ==
  /\ ~owned.deleted_twice
  /\ \A p \in 1..MaxOwned :
       Cardinality({u \in UniqueVars : up[u] = p}) + (IF raw = p THEN 1 ELSE 0)
         = IF p \in owned.alive THEN 1 ELSE 0
=============================================================================
