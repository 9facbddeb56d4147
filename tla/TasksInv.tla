------------------------------ MODULE TasksInv ------------------------------
(* The inductive invariant behind the safety properties of Tasks.          *)
EXTENDS Tasks

NotOnQueue == {"none", "zombie", "freed"}

\* The run queue holds every task that can still run, once, current first.
QueueInv ==
  /\ CurrentIsFront
  /\ \A i, j \in DOMAIN runqueue : i # j => runqueue[i] # runqueue[j]
  /\ \A p \in Pids : OnQueue(p) <=> pc[p] \notin NotOnQueue

\* Where each task can be: only the running task is outside schedule() or its
\* first instruction, and the entry points belong to their tasks.
PointInv ==
  /\ \A p \in Pids : p # current => pc[p] \in Suspended \cup Fresh \cup NotOnQueue
  /\ \A p \in Pids : pc[p] = "none" <=> p >= next_pid
  /\ \A p \in Pids :
       /\ pc[p] \in {"idle", "idle_sw"} <=> p = IDLE
       /\ pc[p] = "start_init" => p = INIT
       /\ pc[p] \in {"kthreadd", "kthreadd_sw", "kthreadd_yield"} => p = KTHREADD
       /\ pc[p] = "fork_out" => p >= 3
  /\ pc[INIT] \notin NotOnQueue
  /\ pc[INIT] = "start_init" => current \in {IDLE, INIT}
  /\ pc[INIT] = "start_init" /\ current = IDLE
       => runqueue = <<IDLE, INIT, KTHREADD>> /\ pc[IDLE] = "idle"

\* The family tree: every zombie is in its parent's list once, and only tasks
\* with a parent get to the locked part of exit().
ParentInv ==
  /\ FamilyConsistent
  /\ \A p \in Pids : \A i, j \in DOMAIN terminated_children[p] :
       i # j => terminated_children[p][i] # terminated_children[p][j]
  /\ parent[IDLE] = nullptr /\ parent[INIT] = nullptr
  /\ \A p \in Pids : pc[p] \in {"none", "freed"} => parent[p] = nullptr
  /\ \A p \in Pids : pc[p] = "zombie" \/ "exit" \in {pc[p], saved[p]}
                       => parent[p] # nullptr

\* Where kthreadd can be: it neither forks nor exits.
DaemonPoints == {"kthreadd", "kthreadd_sw", "kthreadd_yield", "wait", "wait_sw"}

\* The parents lead to init: every forked task has one, older than itself, that
\* is neither idle nor kthreadd.
TreeInv ==
  /\ pc[KTHREADD] \in DaemonPoints /\ parent[KTHREADD] = nullptr
  /\ \A p \in Pids : parent[p] # nullptr => parent[p] < p /\ parent[p] \notin {IDLE, KTHREADD}
  /\ \A p \in Pids : p >= 3 /\ Exists(p) => parent[p] # nullptr

\* Where IRQs are unmasked, and where the handler of one returns to.
IrqInv ==
  /\ irqs => pc[current] \in Unlocked
  /\ \A p \in Pids : saved[p] \in Unlocked \cup {"none"}
  /\ \A p \in Pids : pc[p] \in {"irq_tick", "irq_sw", "irq_ret"} => saved[p] \in Unlocked

(* A lower bound on the nesting counter, in the guards the tasks hold.     *)

\* LockGuards of idle, init or kthreadd that are still to be destroyed.
Held(p) == IF pc[p] = "wait_sw" THEN 2
           ELSE IF pc[p] \in Suspended \cup {"wait"} THEN 1 ELSE 0

\* A forked task starts one unlock() short; it makes up for it while it is
\* suspended, and is ahead by one when it is suspended in wait().
Waiting == {p \in 3..MaxPid : pc[p] = "wait_sw"}
Short   == IF current >= 3 /\ pc[current] \notin Suspended \cup {"fork_out", "wait"}
           THEN 1 ELSE 0

\* The guard that init's first exec() never releases.
Leaked == IF pc[INIT] = "start_init" THEN 0 ELSE 1

DepthInv ==
  depth >= Leaked + Held(IDLE) + Held(INIT) + Held(KTHREADD)
             + Cardinality(Waiting) - Short

\* All of it: inductive for [Next]_vars.
IInv == TypeOK /\ QueueInv /\ PointInv /\ ParentInv /\ TreeInv /\ IrqInv /\ DepthInv

=============================================================================
