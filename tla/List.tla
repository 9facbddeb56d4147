-------------------------------- MODULE List --------------------------------
(***************************************************************************)
(* The doubly linked list of include/lib/List.h, which holds the kernel's  *)
(* run queue, children, open files, mounts and directories.  A list is a   *)
(* ring of nodes through a head node that holds no value.                  *)
(*                                                                         *)
(* Left out is what no caller does: remove_if() with check_all, which goes *)
(* on from a node that it has deleted, popping from an empty list, which   *)
(* deletes the head, copying, and assigning to a list that has nodes.      *)
(***************************************************************************)
EXTENDS Integers, Sequences, SequencesExt, FiniteSets

CONSTANTS
  Lists,       \* variables of type List
  ListValues,  \* strings
  MaxListNodes \* bound: nodes at a time, beside the heads

VARIABLES
  mem,         \* mem.prev[n], mem.next[n], mem.data[n]; mem.used: allocated nodes
  lists,       \* lists[l]: [head, size]
  contents     \* contents[l]: the sequence that the list should be

vars == <<mem, lists, contents>>

HeadOf(l) == <<"head", l>>
Nodes == 1..MaxListNodes
NodeIds == {<<"node", i>> : i \in Nodes} \cup {HeadOf(l) : l \in Lists}
None == <<"none", 0>>
NoValue == "no value"

\* Node(): a head that is its own neighbour.
Init ==
  /\ mem = [prev |-> [n \in NodeIds |-> IF n[1] = "head" THEN n ELSE None],
            next |-> [n \in NodeIds |-> IF n[1] = "head" THEN n ELSE None],
            data |-> [n \in NodeIds |-> NoValue],
            used |-> {HeadOf(l) : l \in Lists}]
  /\ lists = [l \in Lists |-> [head |-> HeadOf(l), size |-> 0]]
  /\ contents = [l \in Lists |-> <<>>]

Free == {i \in Nodes : <<"node", i>> \notin mem.used}
New == <<"node", CHOOSE i \in Free : \A j \in Free : i <= j>>

\* The nodes from n to the head, with at most k of them.
RECURSIVE Walk(_, _, _, _)
Walk(link, n, head, k) ==
  IF n = head \/ k = 0 \/ n = None THEN <<>> ELSE <<n>> \o Walk(link, link[n], head, k - 1)

From(m, l) == Walk(m.next, m.next[lists[l].head], lists[l].head, MaxListNodes + 1)
BackFrom(m, l) == Walk(m.prev, m.prev[lists[l].head], lists[l].head, MaxListNodes + 1)

-----------------------------------------------------------------------------
is_list_add_valid(n, prev, next) ==
  mem.prev[next] = prev /\ mem.next[prev] = next /\ n # prev /\ n # next

list_add(l, n, prev, next, v) ==
  IF ~is_list_add_valid(n, prev, next) THEN UNCHANGED <<mem, lists>>
  ELSE /\ mem' = [prev |-> [mem.prev EXCEPT ![next] = n, ![n] = prev],
                  next |-> [mem.next EXCEPT ![prev] = n, ![n] = next],
                  data |-> [mem.data EXCEPT ![n] = v],
                  used |-> mem.used \cup {n}]
       /\ lists' = [lists EXCEPT ![l].size = @ + 1]

list_del_forward(m, prev, next) == [m EXCEPT !.next[prev] = next]

list_del(m, prev, next) == [m EXCEPT !.prev[next] = prev, !.next[prev] = next]

is_list_del_entry_valid(m, n) == m.next[m.prev[n]] = n /\ m.prev[m.next[n]] = n

\* The memory without the node, which is deleted.
list_del_entry(m, n) ==
  IF ~is_list_del_entry_valid(m, n) THEN m
  ELSE [list_del(m, m.prev[n], m.next[n])
          EXCEPT !.prev[n] = None, !.next[n] = None, !.data[n] = NoValue, !.used = @ \ {n}]

Delete(l, n) ==
  /\ mem' = list_del_entry(mem, n)
  /\ lists' = IF is_list_del_entry_valid(mem, n) THEN [lists EXCEPT ![l].size = @ - 1] ELSE lists

empty(l) == mem.next[lists[l].head] = lists[l].head

push_back(l, v) ==
  /\ Free # {}
  /\ list_add(l, New, mem.prev[lists[l].head], lists[l].head, v)
  /\ contents' = [contents EXCEPT ![l] = Append(@, v)]

push_front(l, v) ==
  /\ Free # {}
  /\ list_add(l, New, lists[l].head, mem.next[lists[l].head], v)
  /\ contents' = [contents EXCEPT ![l] = <<v>> \o @]

\* Callers pop only from a list that is not empty: otherwise the head goes.
pop_back(l) ==
  /\ ~empty(l)
  /\ Delete(l, mem.prev[lists[l].head])
  /\ contents' = [contents EXCEPT ![l] = Front(@)]

pop_front(l) ==
  /\ ~empty(l)
  /\ Delete(l, mem.next[lists[l].head])
  /\ contents' = [contents EXCEPT ![l] = Tail(@)]

erase(l, index) ==
  /\ index < lists[l].size
  /\ Delete(l, From(mem, l)[index + 1])
  /\ contents' = [contents EXCEPT ![l] = RemoveAt(@, index + 1)]

\* The first node whose value is in the set, as remove() and remove_if() look
\* for it; find_if() ends at the same node.
find_if(l, S) == SelectSeq(From(mem, l), LAMBDA n : mem.data[n] \in S)

\* With check_all = false.
remove_if(l, S) ==
  LET matching == find_if(l, S)
      at == SelectInSeq(contents[l], LAMBDA v : v \in S)
  IN
  /\ IF matching = <<>> THEN UNCHANGED <<mem, lists>> ELSE Delete(l, Head(matching))
  /\ contents' = IF at = 0 THEN contents ELSE [contents EXCEPT ![l] = RemoveAt(@, at)]

clear(l) ==
  /\ mem' = FoldLeft(list_del_entry, mem, From(mem, l))
  /\ lists' = [lists EXCEPT ![l].size = @ - Len(From(mem, l))]
  /\ contents' = [contents EXCEPT ![l] = <<>>]

\* The move constructor, and the move assignment to an empty list.
move(l, r) ==
  /\ l # r /\ empty(l)
  /\ lists' = [lists EXCEPT ![l] = lists[r], ![r] = [head |-> lists[l].head, size |-> 0]]
  /\ contents' = [contents EXCEPT ![l] = contents[r], ![r] = <<>>]
  /\ UNCHANGED mem

\* The destructor, which deletes the nodes without unlinking them; the variable
\* is then constructed anew.
destroy(l) ==
  LET gone == ToSet(From(mem, l)) \cup {lists[l].head}
      Renewed(link, n) == IF n = lists[l].head THEN n ELSE IF n \in gone THEN None ELSE link[n]
  IN
  /\ mem' = [prev |-> [n \in NodeIds |-> Renewed(mem.prev, n)],
             next |-> [n \in NodeIds |-> Renewed(mem.next, n)],
             data |-> [n \in NodeIds |-> IF n \in gone THEN NoValue ELSE mem.data[n]],
             used |-> (mem.used \ gone) \cup {lists[l].head}]
  /\ lists' = [lists EXCEPT ![l].size = 0]
  /\ contents' = [contents EXCEPT ![l] = <<>>]

Next ==
  \E l \in Lists :
    \/ \E v \in ListValues : push_back(l, v) \/ push_front(l, v)
    \/ pop_back(l) \/ pop_front(l) \/ clear(l) \/ destroy(l)
    \/ \E index \in 0..(MaxListNodes - 1) : erase(l, index)
    \/ \E S \in SUBSET ListValues : remove_if(l, S)
    \/ \E r \in Lists : move(l, r)

Spec == Init /\ [][Next]_vars

-----------------------------------------------------------------------------
(* Properties.                                                             *)

\* The links forward and backward lead through the same nodes, as many as the
\* list says, and every allocated node is in a list.
LinksAgree ==
  /\ \A l \in Lists : From(mem, l) = Reverse(BackFrom(mem, l)) /\ Len(From(mem, l)) = lists[l].size
  /\ mem.used = UNION {ToSet(From(mem, l)) \cup {lists[l].head} : l \in Lists}

\* Whatever the callers of List call, a list holds the sequence of values that it
\* should.
IsSequence ==
  \A l \in Lists :
    contents[l] = [i \in DOMAIN From(mem, l) |-> mem.data[From(mem, l)[i]]]

\* Read in either direction, a list is the sequence that its operations made.
ListIsSequence == LinksAgree /\ IsSequence
=============================================================================
