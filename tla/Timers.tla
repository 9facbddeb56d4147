------------------------------- MODULE Timers -------------------------------
(***************************************************************************)
(* The timer multiplexer (kernel/TimerMultiplexer.cc), the core timer      *)
(* (kernel/Timer.cc) and the Deque (include/lib/Deque.h) of its events.    *)
(* Events are one-shot, or periodic: their callback registers them again.  *)
(* The storage of the deque is modelled by its contents: a reference into  *)
(* it does not dangle when the callback makes it grow.                     *)
(***************************************************************************)
EXTENDS Integers, Sequences, SequencesExt, FiniteSets, FiniteSetsExt

CONSTANTS
  Events,        \* callbacks, each registered at most once at a time
  Timeouts,      \* timeouts that callers use
  Periods,       \* timeouts with which a callback registers itself; 0: it does not
  DEFAULT_SIZE   \* 4 in the code

VARIABLES
  deque,         \* [data, size, capacity] of _events
  is_enabled,    \* of the core timer
  left,          \* left[e]: ticks until the callback should run; 0: not registered
  due,           \* the callbacks that should have run in the last tick
  ran            \* those that did, in order

vars == <<deque, is_enabled, left, due, ran>>

\* A default-constructed or moved-from event.
NoEvent == [callback |-> {}, timeout |-> 0, period |-> 0]
event(e, timeout, period) == [callback |-> {e}, timeout |-> timeout, period |-> period]

new_data(capacity) == [i \in 0..(capacity - 1) |-> NoEvent]

Init ==
  /\ deque = [data |-> new_data(DEFAULT_SIZE), size |-> 0, capacity |-> DEFAULT_SIZE]
  /\ is_enabled = TRUE
  /\ left = [e \in Events |-> 0]
  /\ due = {}
  /\ ran = <<>>

-----------------------------------------------------------------------------
(* The deque.                                                              *)

resize(d, new_capacity, migrate_data) ==
  LET capacity == Max({DEFAULT_SIZE, new_capacity})
      kept == IF migrate_data THEN d.size ELSE 0
  IN [d EXCEPT !.capacity = capacity,
               !.data = [i \in 0..(capacity - 1) |-> IF i < kept THEN d.data[i] ELSE NoEvent]]

insert(d, index, val) ==
  LET r == IF d.size = d.capacity THEN resize(d, d.capacity * 2, TRUE) ELSE d
  IN [r EXCEPT !.size = @ + 1,
               !.data = [i \in DOMAIN @ |-> CASE i < index -> @[i]
                                              [] i = index -> val
                                              [] i > index /\ i <= r.size -> @[i - 1]
                                              [] OTHER -> @[i]]]

push_back(d, val) == insert(d, d.size, val)

erase(d, index) ==
  LET r == [d EXCEPT !.size = @ - 1,
                     !.data = [i \in DOMAIN @ |-> CASE i < index \/ i >= d.size -> @[i]
                                                    [] i >= index /\ i < d.size - 1 -> @[i + 1]
                                                    [] OTHER -> NoEvent]]
  IN IF r.size <= r.capacity \div 4 THEN resize(r, r.capacity \div 2, TRUE) ELSE r

clear(d) == [resize(d, DEFAULT_SIZE, FALSE) EXCEPT !.size = 0]

-----------------------------------------------------------------------------
(* The multiplexer.  s is [deque, enabled, left, ran].                     *)

add_timer(s, ev) == [s EXCEPT !.deque = push_back(@, ev), !.enabled = TRUE]

callback(s, ev) ==
  LET e == CHOOSE e \in ev.callback : TRUE
      called == [s EXCEPT !.ran = Append(@, e)]
  IN IF ev.period = 0 THEN called
     ELSE [add_timer(called, event(e, ev.period, ev.period)) EXCEPT !.left[e] = ev.period]

\* Callback and erase(i--); or the decrement.
fire_or_count(s, i) ==
  LET ev == s.deque.data[i] IN
  IF ev.timeout = 0
  THEN LET r == callback(s, ev) IN [r EXCEPT !.deque = erase(@, i)]
  ELSE [s EXCEPT !.deque.data[i].timeout = @ - 1]

disable_if_empty(s) ==
  IF s.deque.size = 0 THEN [s EXCEPT !.deque = clear(@), !.enabled = FALSE] ELSE s

next_index_unadjusted(s, i) == i + 1

\* After erase(i--), i++ leads to the event that moved into the place.
next_index(s, i) == IF s.deque.data[i].timeout = 0 THEN i ELSE i + 1

RECURSIVE tick_from(_, _)
tick_from(s, i) ==
  IF i >= s.deque.size THEN s
  ELSE tick_from(disable_if_empty(fire_or_count(s, i)), next_index(s, i))

Become(s) ==
  /\ deque' = s.deque
  /\ is_enabled' = s.enabled
  /\ left' = s.left
  /\ ran' = s.ran

State(l) == [deque |-> deque, enabled |-> is_enabled, left |-> l, ran |-> <<>>]

tick ==
  /\ is_enabled
  /\ due' = {e \in Events : left[e] = 1}
  /\ Become(tick_from(State([e \in Events |-> Max({0, left[e] - 1})]), 0))

register ==
  \E e \in Events, timeout \in Timeouts, period \in Periods :
    /\ left[e] = 0
    /\ due' = {}
    /\ Become(add_timer(State([left EXCEPT ![e] = timeout + 1]), event(e, timeout, period)))

Next == tick \/ register

Spec == Init /\ [][Next]_vars

-----------------------------------------------------------------------------
(* Properties.                                                             *)

\* A callback runs in the tick that its timeout names, once, whatever other
\* callbacks run, are erased or are registered in the same tick.
FiresOnTime == ToSet(ran) = due /\ Len(ran) = Cardinality(due)

\* Between ticks the deque holds each registered event once with the ticks that
\* are left to it, within its capacity, whether it has just grown or shrunk.
EventsExact ==
  /\ deque.size <= deque.capacity
  /\ deque.size = Cardinality({e \in Events : left[e] > 0})
  /\ \A e \in Events : left[e] > 0 =>
       \E i \in 0..(deque.size - 1) :
         deque.data[i].callback = {e} /\ deque.data[i].timeout + 1 = left[e]

\* The core timer is on while an event waits for it.
TimerOnWhilePending == deque.size > 0 => is_enabled

\* Between ticks every event is in the deque with its time and has the timer on,
\* and in a tick the right callbacks have run.
TimersExact == FiresOnTime /\ EventsExact /\ TimerOnWhilePending
=============================================================================
