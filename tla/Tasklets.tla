------------------------------ MODULE Tasklets ------------------------------
(***************************************************************************)
(* The tasklet scheduler (include/kernel/TaskletScheduler.h) over its ring *)
(* buffer (include/lib/RingBuffer.h).  Tasklets are numbered in the order  *)
(* in which they are added; 0 is a null pointer.  Handlers add no tasklets *)
(* themselves.                                                             *)
(***************************************************************************)
EXTENDS Integers, Sequences

CONSTANTS
  Capacity,      \* 32 in the code
  MaxTasklets    \* bound: tasklets ever added

ASSUME CapacityAssumption == Capacity \in Nat \ {0, 1} /\ MaxTasklets \in Nat

VARIABLES
  queue,         \* [data, head, tail, size] of _tasklet_queue
  added,         \* tasklets added so far
  handled        \* the tasklets that have run, in order

tasklet_vars == <<queue, added, handled>>

TaskletInit ==
  /\ queue = [data |-> [i \in 0..(Capacity - 1) |-> 0], head |-> 0, tail |-> 0, size |-> 0]
  /\ added = 0
  /\ handled = <<>>

full(q) == (q.tail + 1) % Capacity = q.head

\* A push to a full buffer drops the oldest element.
push(q, val) ==
  [data |-> [i \in 0..(Capacity - 1) |-> IF i = q.tail THEN val ELSE q.data[i]],
   head |-> IF full(q) THEN (q.head + 1) % Capacity ELSE q.head,
   tail |-> (q.tail + 1) % Capacity,
   size |-> IF q.size < Capacity THEN q.size + 1 ELSE q.size]

clear_drains(q) == [data |-> q.data, head |-> q.tail, tail |-> q.tail, size |-> 0]

clear(q) == [data |-> q.data, head |-> 0, tail |-> 0, size |-> 0]

\* What the loop of finish_all() runs: it indexes the array, not the ring.
handle(q) == [i \in 1..q.size |-> q.data[i - 1]]

reset_handled(q) ==
  [data |-> [i \in 0..(Capacity - 1) |-> IF i < q.size THEN 0 ELSE q.data[i]],
   head |-> q.head, tail |-> q.tail, size |-> q.size]

finish_all ==
  /\ handled' = handled \o handle(queue)
  /\ queue' = clear(reset_handled(queue))
  /\ UNCHANGED added

add_tasklet ==
  /\ added < MaxTasklets
  /\ added' = added + 1
  /\ IF full(queue)
     THEN /\ handled' = handled \o handle(queue)
          /\ queue' = push(clear(reset_handled(queue)), added + 1)
     ELSE /\ queue' = push(queue, added + 1)
          /\ UNCHANGED handled

TaskletNext == finish_all \/ add_tasklet

TaskletSpec == TaskletInit /\ [][TaskletNext]_tasklet_vars

-----------------------------------------------------------------------------
(* Properties.                                                             *)

\* Every tasklet runs once and in the order of add_tasklet(): the ones that have
\* run are the first ones, and the buffer holds the others and no null pointer
\* among them.  So none is overwritten when the buffer fills up.
RunOnceInOrder ==
  /\ \A i \in 1..Len(handled) : handled[i] = i
  /\ Len(handled) + queue.size = added
  /\ \A i \in 0..(queue.size - 1) : queue.data[i] = Len(handled) + i + 1

\* full() is true before the array is: the buffer starts at the array's first
\* element, and its end and its size agree.
RingIsArray == queue.head = 0 /\ queue.tail = queue.size /\ queue.size < Capacity
=============================================================================
