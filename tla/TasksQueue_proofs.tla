------------------------- MODULE TasksQueue_proofs --------------------------
(***************************************************************************)
(* Lemmas about the operators of Tasks, and the proofs that every step     *)
(* keeps its types, its run queue and the points of its tasks.             *)
(***************************************************************************)
EXTENDS TasksInv, FiniteSetTheorems, SequenceTheorems, TLAPS

Injective(q) == \A i, j \in DOMAIN q : i # j => q[i] # q[j]

-----------------------------------------------------------------------------
(* Lemmas about the operators the model is built from.                     *)

\* Rotating a run queue, as schedule() does, keeps its tasks and repeats none.
LEMMA RotateFacts ==
  ASSUME NEW q \in Seq(Pids), q # <<>>
  PROVE  /\ Rotate(q) \in Seq(Pids) /\ Rotate(q) # <<>>
         /\ Len(Rotate(q)) = Len(q)
         /\ SeqRange(Rotate(q)) = SeqRange(q)
         /\ Injective(q) => Injective(Rotate(q))
<1>1. CASE Len(q) <= 1
  BY <1>1 DEF Rotate
<1>2. CASE Len(q) > 1
  <2> DEFINE r == Append(Tail(q), Head(q))
  <2>1. Rotate(q) = r
    BY <1>2 DEF Rotate
  <2>2. r \in Seq(Pids) /\ r # <<>> /\ Len(r) = Len(q) /\ DOMAIN r = DOMAIN q
    <3>1. Head(q) \in Pids /\ Tail(q) \in Seq(Pids) /\ Len(Tail(q)) = Len(q) - 1
      BY HeadTailProperties
    <3>2. r \in Seq(Pids) /\ Len(r) = Len(q)
      BY <3>1, <1>2
    <3> HIDE DEF r
    <3> QED BY <3>2, <1>2, EmptySeq, LenProperties
  <2>3. \A i \in DOMAIN r : r[i] = IF i = Len(q) THEN q[1] ELSE q[i + 1]
    BY <1>2
  <2>4. SeqRange(r) \subseteq SeqRange(q)
    BY <1>2, <2>2, <2>3 DEF SeqRange
  <2>5. SeqRange(q) \subseteq SeqRange(r)
    <3> SUFFICES ASSUME NEW i \in DOMAIN q PROVE q[i] \in SeqRange(r)
      BY DEF SeqRange
    <3>1. CASE i = 1
      <4>1. r[Len(q)] = q[i] /\ Len(q) \in DOMAIN r
        BY <1>2, <2>2, <2>3, <3>1
      <4> QED BY <4>1 DEF SeqRange
    <3>2. CASE i # 1
      <4>1. r[i - 1] = q[i] /\ i - 1 \in DOMAIN r
        BY <1>2, <2>2, <2>3, <3>2
      <4> QED BY <4>1 DEF SeqRange
    <3> QED BY <3>1, <3>2
  <2>6. ASSUME Injective(q) PROVE Injective(r)
    <3> SUFFICES ASSUME NEW i \in DOMAIN r, NEW j \in DOMAIN r, i # j
                 PROVE  r[i] # r[j]
      BY DEF Injective
    <3> QED BY <1>2, <2>2, <2>3, <2>6 DEF Injective
  <2> QED BY <2>1, <2>2, <2>4, <2>5, <2>6, Zenon
<1> QED BY <1>1, <1>2

\* The tail of a queue without repetitions holds everything but its head.
LEMMA TailFacts ==
  ASSUME NEW q \in Seq(Pids), q # <<>>, Injective(q)
  PROVE  /\ Tail(q) \in Seq(Pids) /\ (Len(q) > 1 => Tail(q) # <<>>)
         /\ SeqRange(Tail(q)) = SeqRange(q) \ {Head(q)}
         /\ Injective(Tail(q))
<1>1. Tail(q) \in Seq(Pids) /\ Len(Tail(q)) = Len(q) - 1 /\ Len(q) >= 1
  BY HeadTailProperties, EmptySeq
<1>a. Len(q) > 1 => Tail(q) # <<>>
  <2> DEFINE t == Tail(q)
  <2>1. t \in Seq(Pids) /\ Len(t) = Len(q) - 1
    BY <1>1
  <2> HIDE DEF t
  <2>2. Len(q) > 1 => t # <<>>
    BY <2>1, EmptySeq
  <2> QED BY <2>2 DEF t
<1>2. \A i \in DOMAIN Tail(q) : Tail(q)[i] = q[i + 1]
  BY <1>1
<1>3. SeqRange(Tail(q)) \subseteq SeqRange(q) \ {Head(q)}
  BY <1>1, <1>2 DEF SeqRange, Injective
<1>4. ASSUME NEW i \in DOMAIN q, q[i] # Head(q) PROVE q[i] \in SeqRange(Tail(q))
  <2>1. i - 1 \in DOMAIN Tail(q) /\ Tail(q)[i - 1] = q[i]
    BY <1>1, <1>2, <1>4
  <2> QED BY <2>1 DEF SeqRange
<1>5. Injective(Tail(q))
  <2> SUFFICES ASSUME NEW i \in DOMAIN Tail(q), NEW j \in DOMAIN Tail(q), i # j
               PROVE  Tail(q)[i] # Tail(q)[j]
    BY DEF Injective
  <2> QED BY <1>1, <1>2 DEF Injective
<1> QED BY <1>1, <1>a, <1>3, <1>4, <1>5, SMTT(40) DEF SeqRange

\* remove_task() of the running task takes the front of the run queue off.
LEMMA RemoveFront ==
  ASSUME NEW q \in Seq(Pids), q # <<>>
  PROVE  remove_task(q, Head(q)) = Tail(q)
<1> DEFINE P(j) == q[j] = Head(q) /\ \A k \in 1..(j - 1) : q[k] # Head(q)
           i == CHOOSE j \in DOMAIN q : P(j)
<1>1. 1 \in DOMAIN q /\ P(1)
  OBVIOUS
<1>2. i \in DOMAIN q /\ P(i)
  BY <1>1
<1>3. i = 1
  BY <1>1, <1>2
<1>4. remove_task(q, Head(q)) =
        [j \in 1..(Len(q) - 1) |-> IF j < i THEN q[j] ELSE q[j + 1]]
  BY DEF remove_task
<1>5. \A j \in 1..(Len(q) - 1) : ~(j < i)
  BY <1>3
<1> HIDE DEF i
<1> DEFINE t == [j \in 1..(Len(q) - 1) |-> q[j + 1]]
<1>6. remove_task(q, Head(q)) = t
  BY <1>4, <1>5
<1>7. t \in Seq(Pids) /\ Len(t) = Len(q) - 1
  BY EmptySeq
<1>8. Tail(q) \in Seq(Pids) /\ Len(Tail(q)) = Len(q) - 1
      /\ \A j \in 1..Len(Tail(q)) : Tail(q)[j] = q[j + 1]
  BY HeadTailProperties
<1>9. \A j \in 1..Len(t) : t[j] = Tail(q)[j]
  BY <1>7, <1>8
<1> HIDE DEF t
<1>10. t = Tail(q)
  BY <1>7, <1>8, <1>9, SeqEqual
<1> QED BY <1>6, <1>10

\* The points a step moves a task to.
LEMMA PointFacts ==
  /\ Suspended \subseteq Points
  /\ {"idle", "kthreadd", "kthreadd_yield", "fork_out", "wait", "user", "fault", "read",
      "exit", "zombie", "sys_ret", "sys_sig", "irq_tick", "irq_ret", "eret", "none",
      "freed"} \subseteq Points
  /\ \A point \in Suspended : ResumePoint(point) \in {"idle", "kthreadd", "wait", "sys_ret", "irq_ret", "eret"}
<1>1. Suspended \subseteq Points
  BY DEF Points
<1>2. \A point \in Suspended : ResumePoint(point) \in {"idle", "kthreadd", "wait", "sys_ret", "irq_ret", "eret"}
  BY DEF Suspended, ResumePoint
<1> QED BY <1>1, <1>2 DEF Points, Fresh

\* schedule(): what it makes of the run queue and of the running task.
LEMMA ScheduleFacts ==
  ASSUME TypeOK, NEW q \in Seq(Pids), q # <<>>, NEW point \in Points,
         schedule(q, point)
  PROVE  /\ runqueue' \in Seq(Pids) /\ runqueue' # <<>>
         /\ current' = Head(runqueue') /\ current' \in Pids
         /\ SeqRange(runqueue') = SeqRange(q)
         /\ Injective(q) => Injective(runqueue')
         /\ state' \in [Pids -> States]
         /\ pc' = [pc EXCEPT ![current] = point] /\ pc' \in [Pids -> Points]
<1>1. /\ runqueue' = Rotate(q) /\ current' = Head(Rotate(q))
      /\ state' = [state EXCEPT ![current] = "SLEEPING", ![Head(Rotate(q))] = "RUNNING"]
      /\ pc' = [pc EXCEPT ![current] = point]
  BY DEF schedule, Goto
<1>2. Rotate(q) \in Seq(Pids) /\ Rotate(q) # <<>>
      /\ SeqRange(Rotate(q)) = SeqRange(q)
      /\ (Injective(q) => Injective(Rotate(q)))
  BY RotateFacts
<1>3. Head(Rotate(q)) \in Pids
  BY <1>2, HeadTailProperties
<1>4. state' \in [Pids -> States] /\ pc' \in [Pids -> Points]
  BY <1>1, Zenon DEF TypeOK, TaskTypeOK, States
<1> QED BY <1>1, <1>2, <1>3, <1>4

\* The front of the run queue can leave it: idle stays behind.
LEMMA RemoveCurrent ==
  ASSUME TypeOK, QueueInv, PointInv, pc[current] = "exit"
  PROVE  /\ remove_task(runqueue, current) = Tail(runqueue)
         /\ Tail(runqueue) \in Seq(Pids) /\ Tail(runqueue) # <<>>
         /\ SeqRange(Tail(runqueue)) = SeqRange(runqueue) \ {current}
         /\ Injective(Tail(runqueue))
<1>1. IDLE \in Pids /\ OnQueue(IDLE) /\ current # IDLE
  BY ConstantsAssumption DEF PointInv, QueueInv, Pids, IDLE, NotOnQueue
<1>2. runqueue \in Seq(Pids) /\ runqueue # <<>> /\ current = Head(runqueue)
  BY DEF TypeOK, CpuTypeOK, QueueInv, CurrentIsFront
<1>3. PICK i \in DOMAIN runqueue : runqueue[i] = IDLE
  BY <1>1 DEF OnQueue, SeqRange
<1>4. Len(runqueue) > 1
  BY <1>1, <1>2, <1>3
<1>5. Injective(runqueue)
  BY DEF QueueInv, Injective
<1> QED BY <1>2, <1>4, <1>5, RemoveFront, TailFacts

\* What the family tree says of the members of its lists.
LEMMA FamilyFacts ==
  ASSUME ParentInv, NEW p \in Pids, NEW c
  PROVE  /\ c \in active_children[p] <=> c \in Pids /\ parent[c] = p /\ pc[c] # "zombie"
         /\ c \in SeqRange(terminated_children[p])
              <=> c \in Pids /\ parent[c] = p /\ pc[c] = "zombie"
BY DEF ParentInv, FamilyConsistent

\* What reaping the zombie z deletes: zombies only, with z every zombie below
\* it, and nothing that is not below it.
LEMMA DestroyedFacts ==
  ASSUME TypeOK, ParentInv, NEW z \in Pids, pc[z] = "zombie"
  PROVE  /\ \A p \in Destroyed(z) : p \in Pids /\ pc[p] = "zombie"
         /\ z \in Destroyed(z)
         /\ \A p \in Destroyed(z) : SeqRange(terminated_children[p]) \subseteq Destroyed(z)
         /\ \A p \in Destroyed(z) : p = z \/ parent[p] \in Destroyed(z)
<1> DEFINE Z == {p \in Pids : pc[p] = "zombie"}
           succ == [p \in Pids |-> SeqRange(terminated_children[p])]
           D == Destroyed(z)
           S == {p \in D : p = z \/ parent[p] \in D}
<1>1. D = {p \in Pids : \A T \in SUBSET Pids :
             z \in T /\ (\A q \in T : succ[q] \subseteq T) => p \in T}
  BY DEF Destroyed, Closure
<1>2. \A p \in Pids : succ[p] = {c \in Pids : parent[c] = p /\ pc[c] = "zombie"}
  BY DEF ParentInv, FamilyConsistent
<1>3. Z \in SUBSET Pids /\ z \in Z /\ \A q \in Z : succ[q] \subseteq Z
  BY <1>2
<1> HIDE DEF succ, D
<1>4. D \subseteq Z
  BY <1>1, <1>3, Zenon
<1>5. z \in D
  BY <1>1
<1>6. ASSUME NEW p \in D PROVE succ[p] \subseteq D
  <2> SUFFICES ASSUME NEW c \in succ[p], NEW T \in SUBSET Pids, z \in T,
                      \A q \in T : succ[q] \subseteq T
               PROVE  c \in T
    BY <1>1, <1>2, <1>4
  <2>1. p \in T
    BY <1>1, <1>6
  <2> QED BY <2>1
<1>7. D \subseteq S
  <2>1. S \in SUBSET Pids /\ z \in S
    BY <1>4, <1>5
  <2>2. \A q \in S : succ[q] \subseteq S
    BY <1>2, <1>4, <1>6
  <2> HIDE DEF S
  <2> QED BY <1>1, <2>1, <2>2
<1>8. \A p \in Pids : succ[p] = SeqRange(terminated_children[p])
  BY DEF succ
<1> QED BY <1>4, <1>5, <1>6, <1>7, <1>8 DEF D

\* The child that wait() reaps.
LEMMA ReapedFacts ==
  ASSUME TypeOK, ParentInv, terminated_children[current] # <<>>
  PROVE  /\ current \in Pids
         /\ terminated_children[current] \in Seq(Pids)
         /\ Head(terminated_children[current]) \in SeqRange(terminated_children[current])
         /\ Head(terminated_children[current]) \in Pids
         /\ pc[Head(terminated_children[current])] = "zombie"
         /\ parent[Head(terminated_children[current])] = current
<1> DEFINE t == terminated_children[current]
<1>1. current \in Pids /\ t \in Seq(Pids)
  BY DEF TypeOK, CpuTypeOK, FamilyTypeOK
<1>2. Head(t) \in SeqRange(t)
  <2> HIDE DEF t
  <2>1. t # <<>>
    BY DEF t
  <2> QED BY <1>1, <2>1, EmptySeq DEF SeqRange
<1>3. Head(t) \in Pids /\ pc[Head(t)] = "zombie" /\ parent[Head(t)] = current
  BY <1>1, <1>2, FamilyFacts
<1> QED BY <1>1, <1>2, <1>3

\* Reaping a child deletes zombies only.
LEMMA DestroyedAreZombies ==
  ASSUME TypeOK, ParentInv, terminated_children[current] # <<>>
  PROVE  \A p \in Destroyed(Head(terminated_children[current])) : p \in Pids /\ pc[p] = "zombie"
BY ReapedFacts, DestroyedFacts

-----------------------------------------------------------------------------
(* Type correctness.                                                       *)

\* What a step leaves alone keeps its type.
LEMMA TypeFrame ==
  ASSUME TypeOK
  PROVE  /\ UNCHANGED famVars => FamilyTypeOK'
         /\ UNCHANGED sigVars => SignalTypeOK'
         /\ UNCHANGED cpuVars => CpuTypeOK'
BY DEF TypeOK, famVars, sigVars, cpuVars, FamilyTypeOK, SignalTypeOK, CpuTypeOK

\* lock(), unlock() and a section between them.
LEMMA LockTypes ==
  ASSUME CpuTypeOK
  PROVE  /\ \A n \in Int : Lock(n) => depth' \in Int /\ irqs' \in BOOLEAN
         /\ Unlock => depth' \in Int /\ irqs' \in BOOLEAN
         /\ LockedSection => depth' \in Int /\ irqs' \in BOOLEAN
<1>1. ASSUME NEW n \in Int, Lock(n) PROVE depth' \in Int /\ irqs' \in BOOLEAN
  <2>1. depth' \in Int
    BY <1>1 DEF Lock, CpuTypeOK
  <2>2. irqs' = FALSE
    BY <1>1 DEF Lock
  <2> QED BY <2>1, <2>2, Zenon
<1>2. ASSUME Unlock PROVE depth' \in Int /\ irqs' \in BOOLEAN
  <2>1. depth' \in Int
    BY <1>2 DEF Unlock, CpuTypeOK
  <2>2. irqs' \in BOOLEAN
    BY <1>2 DEF Unlock
  <2> QED BY <2>1, <2>2
<1>3. ASSUME LockedSection PROVE depth' \in Int /\ irqs' \in BOOLEAN
  <2>1. depth' \in Int
    BY <1>3 DEF LockedSection, CpuTypeOK
  <2>2. irqs' \in BOOLEAN
    BY <1>3 DEF LockedSection
  <2> QED BY <2>1, <2>2
<1> QED BY <1>1, <1>2, <1>3

\* Moving the running task to a point, with its other fields left alone.
LEMMA TypeGoto ==
  ASSUME TypeOK, NEW point \in Points, Goto(point), UNCHANGED <<saved, state, time_slice>>
  PROVE  TaskTypeOK'
BY DEF TypeOK, TaskTypeOK, CpuTypeOK, Goto

\* A step that calls schedule() on the run queue.
LEMMA TypeSchedule ==
  ASSUME TypeOK, QueueInv, NEW point \in Suspended, schedule(runqueue, point), Lock(1),
         UNCHANGED <<panicked, saved>>, need_reschedule' \in BOOLEAN,
         time_slice' \in [Pids -> 0..TASK_TIME_SLICE]
  PROVE  CpuTypeOK' /\ TaskTypeOK'
<1>1. runqueue \in Seq(Pids) /\ runqueue # <<>> /\ point \in Points
  BY PointFacts DEF TypeOK, CpuTypeOK, QueueInv, CurrentIsFront
<1>2. /\ runqueue' \in Seq(Pids) /\ current' \in Pids /\ state' \in [Pids -> States]
      /\ pc' \in [Pids -> Points]
  BY <1>1, ScheduleFacts
<1>3. depth' \in Int /\ irqs' \in BOOLEAN
  BY LockTypes DEF TypeOK
<1>4. CpuTypeOK'
  BY <1>2, <1>3 DEF TypeOK, CpuTypeOK
<1>5. TaskTypeOK'
  BY <1>2 DEF TypeOK, TaskTypeOK
<1> QED BY <1>4, <1>5

\* Every step keeps every variable in its type.
LEMMA TypeStep ==
  ASSUME IInv, Next
  PROVE  TypeOK'
<1> USE ConstantsAssumption
<1>t. TypeOK /\ CpuTypeOK /\ FamilyTypeOK /\ SignalTypeOK /\ TaskTypeOK /\ QueueInv
  BY DEF IInv, TypeOK
<1>f. /\ UNCHANGED famVars => FamilyTypeOK'
      /\ UNCHANGED sigVars => SignalTypeOK'
      /\ UNCHANGED cpuVars => CpuTypeOK'
  BY <1>t, TypeFrame
<1>g. ASSUME NEW point \in Points, Goto(point), UNCHANGED <<saved, state, time_slice>>
      PROVE  TaskTypeOK'
  BY <1>t, <1>g, TypeGoto
<1>s. ASSUME NEW point \in Suspended, schedule(runqueue, point), Lock(1),
             UNCHANGED <<panicked, saved, need_reschedule, time_slice>>
      PROVE  CpuTypeOK' /\ TaskTypeOK'
  <2>1. need_reschedule' \in BOOLEAN /\ time_slice' \in [Pids -> 0..TASK_TIME_SLICE]
    BY <1>t, <1>s DEF CpuTypeOK, TaskTypeOK
  <2> QED BY <1>t, <1>s, <2>1, TypeSchedule
<1>m. ASSUME NEW p1 \in Suspended, NEW p2 \in Points, maybe_schedule(p1, p2),
             UNCHANGED <<panicked, saved>>
      PROVE  CpuTypeOK' /\ TaskTypeOK'
  <2>1. CASE need_reschedule
    <3>1. schedule(runqueue, p1) /\ Lock(1)
      BY <1>m, <2>1 DEF maybe_schedule
    <3>2. need_reschedule' \in BOOLEAN
      BY <1>m, <2>1, Zenon DEF maybe_schedule
    <3>3. time_slice' \in [Pids -> 0..TASK_TIME_SLICE]
      BY <1>m, <2>1, <1>t DEF maybe_schedule, TaskTypeOK
    <3> QED BY <1>m, <1>t, <3>1, <3>2, <3>3, TypeSchedule
  <2>2. CASE ~need_reschedule
    <3>1. Goto(p2) /\ UNCHANGED <<need_reschedule, time_slice, runqueue, current, state, depth, irqs>>
      BY <1>m, <2>2 DEF maybe_schedule
    <3>2. TaskTypeOK'
      BY <1>m, <1>g, <3>1
    <3>3. CpuTypeOK'
      BY <1>m, <1>t, <3>1 DEF CpuTypeOK
    <3> QED BY <3>2, <3>3
  <2> QED BY <2>1, <2>2
<1>1. CASE idle
  <2>1. schedule(runqueue, "idle_sw") /\ "idle_sw" \in Suspended
    BY <1>1 DEF idle, Suspended
  <2> QED BY <1>1, <2>1, <1>s, <1>f DEF idle, TypeOK
<1>2. CASE kthreadd_yields
  <2>1. schedule(runqueue, "kthreadd_sw") /\ "kthreadd_sw" \in Suspended
    BY <1>2 DEF kthreadd_yields, Suspended
  <2> QED BY <1>2, <2>1, <1>s, <1>f DEF kthreadd_yields, TypeOK
<1>3. CASE ReturnFromSwitch
  <2>1. ResumePoint(pc[current]) \in Points
    BY <1>3, PointFacts DEF ReturnFromSwitch, At
  <2>2. TaskTypeOK'
    BY <1>3, <2>1, <1>g DEF ReturnFromSwitch
  <2>3. CpuTypeOK'
    BY <1>3, <1>t DEF ReturnFromSwitch, Unlock, CpuTypeOK
  <2> QED BY <1>3, <2>2, <2>3, <1>f DEF ReturnFromSwitch, TypeOK
<1>4. CASE ForkOut
  <2>1. TaskTypeOK'
    BY <1>4, <1>g, PointFacts DEF ForkOut
  <2>2. CpuTypeOK'
    BY <1>4, <1>t DEF ForkOut, Unlock, CpuTypeOK
  <2> QED BY <1>4, <2>1, <2>2, <1>f DEF ForkOut, TypeOK
<1>5. CASE fork
  <2>1. next_pid \in Pids /\ current \in Pids
    BY <1>5, <1>t DEF fork, FamilyTypeOK, CpuTypeOK, Pids
  <2>2. CpuTypeOK'
    BY <1>5, <1>t, <2>1 DEF fork, LockedSection, CpuTypeOK
  <2>3. FamilyTypeOK'
    BY <1>5, <1>t, <2>1 DEF fork, FamilyTypeOK
  <2>4. TaskTypeOK'
    BY <1>5, <1>t, <2>1, PointFacts, Zenon DEF fork, TaskTypeOK, States
  <2> QED BY <1>5, <2>2, <2>3, <2>4, <1>f DEF fork, TypeOK
<1>6. CASE exec
  <2>1. TaskTypeOK'
    BY <1>6, <1>g, PointFacts DEF exec
  <2>2. CpuTypeOK'
    BY <1>6, <1>t DEF exec, CpuTypeOK
  <2> QED BY <1>6, <2>1, <2>2, <1>f DEF exec, TypeOK
<1>7. CASE exec_failed
  <2>1. TaskTypeOK'
    BY <1>7, <1>g, <1>t, PointFacts DEF exec_failed, TaskTypeOK
  <2>2. CpuTypeOK'
    <3>1. CASE pc[current] = "start_init"
      BY <1>7, <3>1, <1>t, Zenon DEF exec_failed, panic, CpuTypeOK
    <3>2. CASE pc[current] # "start_init"
      BY <1>7, <3>2, <1>t DEF exec_failed, LockedSection, CpuTypeOK
    <3> QED BY <3>1, <3>2
  <2> QED BY <1>7, <2>1, <2>2, <1>f DEF exec_failed, TypeOK
<1>8. CASE wait
  <2>1. TaskTypeOK'
    BY <1>8, <1>g, PointFacts DEF wait, WaitReturn
  <2>2. CpuTypeOK'
    <3>1. depth' \in Int /\ irqs' \in BOOLEAN
      BY <1>8, <1>t, LockTypes DEF wait
    <3> QED BY <1>8, <1>t, <3>1 DEF wait, CpuTypeOK
  <2> QED BY <1>8, <2>1, <2>2, <1>f DEF wait, TypeOK
<1>9. CASE wait_for_child
  <2>1. schedule(runqueue, "wait_sw") /\ "wait_sw" \in Suspended
    BY <1>9 DEF wait_for_child, Suspended
  <2> QED BY <1>9, <2>1, <1>s, <1>f DEF wait_for_child, TypeOK
<1>10. CASE reap
  <2> DEFINE D == Destroyed(Head(terminated_children[current]))
             orphans == UNION {active_children[p] : p \in D}
  <2>1. current \in Pids /\ INIT \in Pids /\ WaitReturn \in Points
    BY <1>t, PointFacts DEF CpuTypeOK, Pids, INIT, WaitReturn
  <2>2. D \subseteq Pids
    BY DEF Destroyed, Closure
  <2>3. orphans \subseteq Pids
    BY <2>2, <1>t DEF FamilyTypeOK
  <2>4. terminated_children[current] \in Seq(Pids) /\ terminated_children[current] # <<>>
    BY <1>10, <2>1, <1>t DEF reap, FamilyTypeOK
  <2>d. current \notin D
    BY <1>10, DestroyedAreZombies, Zenon DEF reap, At, IInv
  <2>5. Tail(terminated_children[current]) \in Seq(Pids)
    BY <2>4, HeadTailProperties
  <2> HIDE DEF D, orphans
  <2>6. CpuTypeOK'
    BY <1>10, <1>t DEF reap, Unlock, CpuTypeOK
  <2>7. SignalTypeOK'
    <3>1. pending_signals' = [p \in Pids |-> IF p \in D THEN <<>> ELSE pending_signals[p]]
          /\ custom_handlers' = [p \in Pids |-> IF p \in D THEN {} ELSE custom_handlers[p]]
      BY <1>10, Zenon DEF reap, D
    <3> QED BY <3>1, <1>t DEF SignalTypeOK
  <2>8. TaskTypeOK'
    <3>1. pc' = [[p \in Pids |-> IF p \in D THEN "freed" ELSE pc[p]] EXCEPT ![current] = WaitReturn]
          /\ saved' = [p \in Pids |-> IF p \in D THEN "none" ELSE saved[p]]
          /\ state' = [p \in Pids |-> IF p \in D THEN "freed" ELSE state[p]]
          /\ time_slice' = [p \in Pids |-> IF p \in D THEN TASK_TIME_SLICE ELSE time_slice[p]]
      BY <1>10, Zenon DEF reap, D
    <3> HIDE DEF WaitReturn
    <3>2. pc' \in [Pids -> Points] /\ saved' \in [Pids -> Points]
      BY <3>1, <2>1, <1>t, PointFacts DEF TaskTypeOK
    <3>3. state' \in [Pids -> States] /\ time_slice' \in [Pids -> 0..TASK_TIME_SLICE]
      BY <3>1, <1>t DEF TaskTypeOK, States
    <3> QED BY <3>2, <3>3 DEF TaskTypeOK
  <2>9. FamilyTypeOK'
    <3> DEFINE tc == [p \in Pids |-> IF p \in D THEN <<>> ELSE terminated_children[p]]
    <3>1. active_children' = [[p \in Pids |-> IF p \in D THEN {} ELSE active_children[p]]
                                EXCEPT ![INIT] = @ \cup orphans]
          /\ terminated_children' = [tc EXCEPT ![current] = Tail(@)]
          /\ parent' = [p \in Pids |-> IF p \in orphans THEN INIT
                                 ELSE IF p \in D THEN nullptr ELSE parent[p]]
          /\ next_pid' = next_pid
      BY <1>10, Zenon DEF reap, D, orphans
    <3>2. active_children' \in [Pids -> SUBSET Pids]
      BY <3>1, <2>1, <2>3, <1>t, Zenon DEF FamilyTypeOK
    <3>3. parent' \in [Pids -> Pids \cup {nullptr}] /\ next_pid' \in 3..(MaxPid + 1)
      BY <3>1, <2>1, <1>t DEF FamilyTypeOK
    <3>4. terminated_children' \in [Pids -> Seq(Pids)]
      <4>1. tc \in [Pids -> Seq(Pids)] /\ tc[current] = terminated_children[current]
        BY <2>1, <2>d, <1>t DEF FamilyTypeOK
      <4> HIDE DEF tc
      <4> QED BY <3>1, <4>1, <2>5, <2>1
    <3> QED BY <3>2, <3>3, <3>4 DEF FamilyTypeOK
  <2> QED BY <2>6, <2>7, <2>8, <2>9 DEF TypeOK
<1>11. CASE exit
  <2>1. TaskTypeOK'
    BY <1>11, <1>t, PointFacts, Zenon DEF exit, BeginExit, Goto, CpuTypeOK, TaskTypeOK, States
  <2>2. CpuTypeOK'
    BY <1>11, <1>t, Zenon DEF exit, CpuTypeOK, BeginExit, panic
  <2> QED BY <1>11, <2>1, <2>2, <1>f DEF exit, TypeOK
<1>12. CASE exit_locked
  <2> DEFINE q == remove_task(runqueue, current)
  <2>1. q \in Seq(Pids) /\ q # <<>>
    BY <1>12, RemoveCurrent, Zenon DEF exit_locked, At, IInv
  <2>2. schedule(q, "zombie") /\ "zombie" \in Points
    BY <1>12, PointFacts DEF exit_locked
  <2>3. /\ runqueue' \in Seq(Pids) /\ current' \in Pids /\ state' \in [Pids -> States]
        /\ pc' \in [Pids -> Points]
    BY <1>t, <2>1, <2>2, ScheduleFacts
  <2>a. depth' \in Int /\ irqs' \in BOOLEAN
    BY <1>12, <1>t, LockTypes DEF exit_locked
  <2>4. CpuTypeOK'
    BY <1>12, <1>t, <2>3, <2>a DEF exit_locked, CpuTypeOK
  <2>5. TaskTypeOK'
    BY <1>12, <1>t, <2>3 DEF exit_locked, TaskTypeOK
  <2>6. parent[current] \in Pids /\ current \in Pids
    BY <1>12, <1>t DEF exit_locked, At, IInv, ParentInv, FamilyTypeOK, CpuTypeOK
  <2>7. FamilyTypeOK'
    BY <1>12, <1>t, <2>6 DEF exit_locked, FamilyTypeOK
  <2> QED BY <1>12, <2>4, <2>5, <2>7, <1>f DEF exit_locked, TypeOK
<1>13. CASE sched_yield
  <2>1. schedule(runqueue, "yield_sw") /\ "yield_sw" \in Suspended
    BY <1>13 DEF sched_yield, Suspended
  <2> QED BY <1>13, <2>1, <1>s, <1>f DEF sched_yield, TypeOK
<1>14. ASSUME NEW pid \in Pids, NEW sig \in Signals, kill(pid, sig) PROVE TypeOK'
  <2>1. TaskTypeOK'
    BY <1>14, <1>g, PointFacts DEF kill
  <2>2. CpuTypeOK'
    BY <1>14, <1>t DEF kill, CpuTypeOK, LockedSection
  <2>3. SignalTypeOK'
    <3>1. CASE pid = current \/ found_by_pid(pid)
      <4>1. pending_signals' = [pending_signals EXCEPT ![pid] = Append(@, sig)]
            /\ custom_handlers' = custom_handlers
        BY <1>14, <3>1 DEF kill
      <4>2. Append(pending_signals[pid], sig) \in Seq(Signals)
        BY <1>14, <1>t DEF SignalTypeOK
      <4> QED BY <4>1, <4>2, <1>14, <1>t DEF SignalTypeOK
    <3>2. CASE ~(pid = current \/ found_by_pid(pid))
      BY <1>14, <3>2, <1>t DEF kill, SignalTypeOK
    <3> QED BY <3>1, <3>2
  <2> QED BY <1>14, <2>1, <2>2, <2>3, <1>f DEF kill, TypeOK
<1>15. ASSUME NEW sig \in Signals, NEW set \in BOOLEAN, signal(sig, set) PROVE TypeOK'
  <2>1. TaskTypeOK'
    BY <1>15, <1>g, PointFacts DEF signal
  <2>2. CpuTypeOK'
    BY <1>15, <1>t DEF signal, CpuTypeOK, LockedSection
  <2>3. SignalTypeOK'
    BY <1>15, <1>t DEF signal, SignalTypeOK, CpuTypeOK
  <2> QED BY <1>15, <2>1, <2>2, <2>3, <1>f DEF signal, TypeOK
<1>16. CASE console_read
  <2>1. TaskTypeOK'
    BY <1>16, <1>g, PointFacts DEF console_read
  <2> QED BY <1>16, <2>1, <1>f DEF console_read, TypeOK
<1>17. CASE console_read_done
  <2>1. TaskTypeOK'
    BY <1>17, <1>g, PointFacts DEF console_read_done
  <2> QED BY <1>17, <2>1, <1>f DEF console_read_done, TypeOK
<1>18. ASSUME NEW locks \in BOOLEAN, other_syscall(locks) PROVE TypeOK'
  <2>1. TaskTypeOK'
    BY <1>18, <1>g, PointFacts DEF other_syscall
  <2>2. CpuTypeOK'
    BY <1>18, <1>t, Zenon DEF other_syscall, CpuTypeOK, LockedSection
  <2> QED BY <1>18, <2>1, <2>2, <1>f DEF other_syscall, TypeOK
<1>19. CASE page_fault
  <2>1. TaskTypeOK'
    BY <1>19, <1>g, PointFacts DEF page_fault
  <2>2. SignalTypeOK'
    BY <1>19, <1>t DEF page_fault, SignalTypeOK, CpuTypeOK
  <2> QED BY <1>19, <2>1, <2>2, <1>f DEF page_fault, TypeOK
<1>20. CASE syscall_ret
  <2>1. TaskTypeOK'
    BY <1>20, <1>g, PointFacts DEF syscall_ret
  <2>2. CpuTypeOK'
    BY <1>20, <1>t, Zenon DEF syscall_ret, CpuTypeOK
  <2> QED BY <1>20, <2>1, <2>2, <1>f DEF syscall_ret, TypeOK
<1>21. CASE handle_pending_signal
  <2>1. TaskTypeOK'
    BY <1>21, <1>t, PointFacts, Zenon DEF handle_pending_signal, BeginExit, Goto, CpuTypeOK, TaskTypeOK, States
  <2>2. CpuTypeOK'
    BY <1>21, <1>t, Zenon DEF handle_pending_signal, CpuTypeOK, BeginExit, panic
  <2>3. SignalTypeOK'
    <3>1. pending_signals[current] \in Seq(Signals) /\ pending_signals[current] # <<>>
      BY <1>21, <1>t DEF handle_pending_signal, SignalTypeOK, CpuTypeOK
    <3>2. Tail(pending_signals[current]) \in Seq(Signals)
      BY <3>1, HeadTailProperties
    <3> QED BY <1>21, <1>t, <3>2, Zenon DEF handle_pending_signal, SignalTypeOK
  <2> QED BY <1>21, <2>1, <2>2, <2>3, <1>f DEF handle_pending_signal, TypeOK
<1>22. CASE syscall_reschedule
  <2>1. "sys_sw" \in Suspended /\ "eret" \in Points
    BY PointFacts DEF Suspended
  <2>2. CpuTypeOK' /\ TaskTypeOK'
    BY <1>22, <2>1, <1>m DEF syscall_reschedule
  <2> QED BY <1>22, <2>2, <1>f DEF syscall_reschedule, TypeOK
<1>23. CASE eret
  <2>1. TaskTypeOK'
    BY <1>23, <1>g, PointFacts DEF eret
  <2>2. CpuTypeOK'
    BY <1>23, <1>t DEF eret, CpuTypeOK
  <2> QED BY <1>23, <2>1, <2>2, <1>f DEF eret, TypeOK
<1>24. CASE handle_irq
  <2>1. TaskTypeOK'
    BY <1>24, <1>t, PointFacts DEF handle_irq, Goto, CpuTypeOK, TaskTypeOK
  <2>2. CpuTypeOK'
    BY <1>24, <1>t, Zenon DEF handle_irq, CpuTypeOK
  <2> QED BY <1>24, <2>1, <2>2, <1>f DEF handle_irq, TypeOK
<1>25. CASE irq_reschedule
  <2>1. "irq_sw" \in Suspended /\ "irq_ret" \in Points
    BY PointFacts DEF Suspended
  <2>2. CpuTypeOK' /\ TaskTypeOK'
    BY <1>25, <2>1, <1>m DEF irq_reschedule
  <2> QED BY <1>25, <2>2, <1>f DEF irq_reschedule, TypeOK
<1>26. CASE irq_eret
  <2>1. TaskTypeOK'
    BY <1>26, <1>t, PointFacts DEF irq_eret, Goto, CpuTypeOK, TaskTypeOK
  <2>2. CpuTypeOK'
    BY <1>26, <1>t DEF irq_eret, CpuTypeOK
  <2> QED BY <1>26, <2>1, <2>2, <1>f DEF irq_eret, TypeOK
<1>27. CASE halt
  BY <1>27, <1>t, <1>f DEF halt, vars, TypeOK, TaskTypeOK
<1> QED
  BY <1>1, <1>2, <1>3, <1>4, <1>5, <1>6, <1>7, <1>8, <1>9, <1>10, <1>11, <1>12,
     <1>13, <1>14, <1>15, <1>16, <1>17, <1>18, <1>19, <1>20, <1>21, <1>22, <1>23,
     <1>24, <1>25, <1>26, <1>27, SMTT(40) DEF Next, KernelStep, UserStep

-----------------------------------------------------------------------------
(* The run queue and the points of the tasks.                              *)

KthreaddPoints == {"kthreadd", "kthreadd_sw", "kthreadd_yield"}

\* A step that moves the running task without a switch.
LEMMA MoveStep ==
  ASSUME TypeOK, QueueInv, PointInv, NEW point, Goto(point),
         UNCHANGED <<runqueue, current, next_pid>>,
         point \notin NotOnQueue \cup {"start_init", "fork_out"},
         point \in {"idle", "idle_sw"} <=> current = IDLE,
         point \in KthreaddPoints => current = KTHREADD,
         pc[current] # "idle"
  PROVE  QueueInv' /\ PointInv'
<1>1. current \in Pids /\ pc \in [Pids -> Points] /\ INIT \in Pids /\ IDLE \in Pids
  BY ConstantsAssumption DEF TypeOK, CpuTypeOK, TaskTypeOK, Pids, INIT, IDLE
<1>2. \A p \in Pids : pc'[p] = IF p = current THEN point ELSE pc[p]
  BY <1>1 DEF Goto
<1>3. OnQueue(current)
  BY <1>1, EmptySeq DEF QueueInv, CurrentIsFront, OnQueue, SeqRange, TypeOK, CpuTypeOK
<1>4. pc[current] \notin NotOnQueue
  BY <1>1, <1>3 DEF QueueInv
<1>5. QueueInv'
  BY <1>2, <1>3, <1>4 DEF QueueInv, CurrentIsFront, OnQueue, SeqRange
<1>6. pc[INIT] = "start_init" => current = INIT
  BY <1>1 DEF PointInv
<1>7. PointInv'
  <2>1. \A p \in Pids : p # current' => pc'[p] \in Suspended \cup Fresh \cup NotOnQueue
    BY <1>2 DEF PointInv
  <2>2. \A p \in Pids : pc'[p] = "none" <=> p >= next_pid'
    BY <1>2, <1>4 DEF PointInv, NotOnQueue
  <2>3. ASSUME NEW p \in Pids
        PROVE  /\ pc'[p] \in {"idle", "idle_sw"} <=> p = IDLE
               /\ pc'[p] = "start_init" => p = INIT
               /\ pc'[p] \in {"kthreadd", "kthreadd_sw", "kthreadd_yield"} => p = KTHREADD
               /\ pc'[p] = "fork_out" => p >= 3
    BY <1>2 DEF PointInv, KthreaddPoints
  <2>4. pc'[INIT] \notin NotOnQueue /\ pc'[INIT] # "start_init"
    BY <1>1, <1>2, <1>6 DEF PointInv
  <2> QED BY <2>1, <2>2, <2>3, <2>4 DEF PointInv
<1> QED BY <1>5, <1>7

\* A step in which the running task calls schedule() and is suspended there.
LEMMA SwitchStep ==
  ASSUME TypeOK, QueueInv, PointInv, NEW point \in Suspended,
         schedule(runqueue, point), UNCHANGED next_pid,
         point = "idle_sw" <=> current = IDLE,
         point = "kthreadd_sw" => current = KTHREADD,
         pc[current] # "start_init"
  PROVE  QueueInv' /\ PointInv'
<1>1. /\ current \in Pids /\ pc \in [Pids -> Points] /\ INIT \in Pids /\ IDLE \in Pids
      /\ runqueue \in Seq(Pids) /\ runqueue # <<>> /\ point \in Points
  BY ConstantsAssumption, PointFacts
     DEF TypeOK, CpuTypeOK, TaskTypeOK, Pids, INIT, IDLE, QueueInv, CurrentIsFront
<1>2. /\ runqueue' \in Seq(Pids) /\ runqueue' # <<>>
      /\ current' = Head(runqueue') /\ current' \in Pids
      /\ SeqRange(runqueue') = SeqRange(runqueue)
      /\ Injective(runqueue) => Injective(runqueue')
      /\ pc' = [pc EXCEPT ![current] = point]
  BY <1>1, ScheduleFacts
<1>3. \A p \in Pids : pc'[p] = IF p = current THEN point ELSE pc[p]
  BY <1>1, <1>2
<1>4. OnQueue(current)
  BY <1>1, EmptySeq DEF QueueInv, CurrentIsFront, OnQueue, SeqRange
<1>5. pc[current] \notin NotOnQueue /\ point \notin NotOnQueue
  BY <1>1, <1>4 DEF QueueInv, Suspended, NotOnQueue
<1>6. QueueInv'
  <2>1. CurrentIsFront'
    BY <1>2 DEF CurrentIsFront
  <2>2. Injective(runqueue)'
    BY <1>2 DEF QueueInv, Injective
  <2>3. ASSUME NEW p \in Pids PROVE OnQueue(p)' <=> pc'[p] \notin NotOnQueue
    BY <1>2, <1>3, <1>4, <1>5 DEF QueueInv, OnQueue
  <2> QED BY <2>1, <2>2, <2>3 DEF QueueInv, Injective
<1>7. PointInv'
  <2>1. \A p \in Pids : p # current' => pc'[p] \in Suspended \cup Fresh \cup NotOnQueue
    BY <1>3 DEF PointInv
  <2>2. \A p \in Pids : pc'[p] = "none" <=> p >= next_pid'
    BY <1>3, <1>5 DEF PointInv, NotOnQueue
  <2>3. ASSUME NEW p \in Pids
        PROVE  /\ pc'[p] \in {"idle", "idle_sw"} <=> p = IDLE
               /\ pc'[p] = "start_init" => p = INIT
               /\ pc'[p] \in {"kthreadd", "kthreadd_sw", "kthreadd_yield"} => p = KTHREADD
               /\ pc'[p] = "fork_out" => p >= 3
    BY <1>3 DEF PointInv, Suspended
  <2>4. pc'[INIT] \notin NotOnQueue
    BY <1>1, <1>3, <1>5 DEF PointInv
  <2>5. pc'[INIT] = "start_init" => current' = INIT
    <3> SUFFICES ASSUME pc'[INIT] = "start_init" PROVE current' = INIT
      OBVIOUS
    <3>1. pc[INIT] = "start_init" /\ current # INIT
      BY <1>1, <1>3 DEF Suspended
    <3>2. runqueue = <<IDLE, INIT, KTHREADD>>
      BY <3>1 DEF PointInv
    <3>3. current' = Head(Rotate(runqueue))
      BY DEF schedule
    <3> QED BY <3>2, <3>3 DEF Rotate
  <2> QED BY <2>1, <2>2, <2>3, <2>4, <2>5 DEF PointInv, INIT, IDLE
<1> QED BY <1>6, <1>7

\* Every step keeps the run queue and the points of the tasks in order.
LEMMA QueueStep ==
  ASSUME IInv, Next
  PROVE  QueueInv' /\ PointInv'
<1>t. /\ TypeOK /\ QueueInv /\ PointInv /\ ParentInv /\ IrqInv
      /\ current \in Pids /\ pc \in [Pids -> Points] /\ next_pid \in 3..(MaxPid + 1)
      /\ INIT \in Pids /\ IDLE \in Pids /\ runqueue \in Seq(Pids) /\ runqueue # <<>>
  <2>1. TypeOK /\ QueueInv /\ PointInv /\ ParentInv /\ IrqInv
    BY DEF IInv
  <2>2. /\ current \in Pids /\ pc \in [Pids -> Points] /\ next_pid \in 3..(MaxPid + 1)
        /\ runqueue \in Seq(Pids) /\ runqueue # <<>>
    BY <2>1 DEF TypeOK, CpuTypeOK, TaskTypeOK, FamilyTypeOK, QueueInv, CurrentIsFront
  <2>3. INIT \in Pids /\ IDLE \in Pids
    BY ConstantsAssumption DEF Pids, INIT, IDLE
  <2> QED BY <2>1, <2>2, <2>3
<1>i. pc[current] \notin {"idle", "idle_sw"} => current # IDLE
  BY <1>t DEF PointInv
<1>g. ASSUME NEW point, Goto(point), UNCHANGED <<runqueue, current, next_pid>>,
             point \notin NotOnQueue \cup Fresh \cup Suspended \cup {"idle", "kthreadd_yield"},
             pc[current] \notin {"idle", "idle_sw"}
      PROVE  QueueInv' /\ PointInv'
  BY <1>t, <1>i, <1>g, MoveStep DEF Fresh, Suspended, KthreaddPoints
<1>s. ASSUME NEW point \in {"wait_sw", "yield_sw", "irq_sw", "sys_sw"}, schedule(runqueue, point),
             UNCHANGED next_pid, pc[current] \notin {"idle", "idle_sw", "start_init"}
      PROVE  QueueInv' /\ PointInv'
  <2>1. point \in Suspended
    BY <1>s DEF Suspended
  <2> QED BY <1>t, <1>i, <1>s, <2>1, SwitchStep
<1>u. ASSUME UNCHANGED <<runqueue, current, next_pid, pc>>
      PROVE  QueueInv' /\ PointInv'
  BY <1>t, <1>u DEF QueueInv, PointInv, CurrentIsFront, OnQueue
<1>m. ASSUME NEW p1 \in {"irq_sw", "sys_sw"}, NEW p2 \in {"irq_ret", "eret"},
             maybe_schedule(p1, p2), UNCHANGED next_pid, pc[current] \in {"sys_sig", "irq_tick"}
      PROVE  QueueInv' /\ PointInv'
  <2>1. CASE need_reschedule
    <3>1. schedule(runqueue, p1)
      BY <1>m, <2>1 DEF maybe_schedule
    <3> QED BY <1>m, <1>s, <3>1
  <2>2. CASE ~need_reschedule
    <3>1. Goto(p2) /\ UNCHANGED <<runqueue, current>>
      BY <1>m, <2>2 DEF maybe_schedule
    <3> QED BY <1>m, <1>g, <3>1 DEF NotOnQueue, Fresh, Suspended
  <2> QED BY <2>1, <2>2
<1>1. CASE idle
  <2>1. "idle_sw" \in Suspended /\ schedule(runqueue, "idle_sw") /\ UNCHANGED next_pid
        /\ pc[current] = "idle"
    BY <1>1 DEF idle, famVars, Suspended, At
  <2>2. current = IDLE
    BY <1>t, <2>1 DEF PointInv
  <2> QED BY <1>t, <2>1, <2>2, SwitchStep
<1>2. CASE kthreadd_yields
  <2>1. "kthreadd_sw" \in Suspended /\ schedule(runqueue, "kthreadd_sw") /\ UNCHANGED next_pid
        /\ pc[current] = "kthreadd_yield"
    BY <1>2 DEF kthreadd_yields, famVars, Suspended, At
  <2>2. current = KTHREADD /\ current # IDLE
    BY <1>t, <2>1 DEF PointInv
  <2> QED BY <1>t, <2>1, <2>2, SwitchStep
<1>3. CASE ReturnFromSwitch
  <2> DEFINE point == ResumePoint(pc[current])
  <2>1. pc[current] \in Suspended /\ Goto(point) /\ UNCHANGED <<runqueue, current, next_pid>>
    BY <1>3 DEF ReturnFromSwitch, At, famVars
  <2>2. /\ point \notin NotOnQueue \cup {"start_init", "fork_out"}
        /\ point \in {"idle", "idle_sw"} <=> pc[current] = "idle_sw"
        /\ point \in KthreaddPoints => pc[current] = "kthreadd_sw"
        /\ pc[current] # "idle"
    BY <2>1 DEF ResumePoint, Suspended, NotOnQueue, KthreaddPoints
  <2>3. /\ current = IDLE <=> pc[current] = "idle_sw"
        /\ pc[current] = "kthreadd_sw" => current = KTHREADD
    BY <1>t, <2>2 DEF PointInv
  <2> HIDE DEF point
  <2> QED BY <1>t, <2>1, <2>2, <2>3, MoveStep
<1>4. CASE ForkOut
  BY <1>4, <1>g DEF ForkOut, At, famVars, cpuVars, NotOnQueue, Fresh, Suspended
<1>5. CASE fork
  <2> DEFINE child == next_pid
  <2>1. /\ child \in Pids /\ child # current /\ child >= 3
        /\ pc[child] = "none" /\ ~OnQueue(child) /\ pc[current] = "user"
    BY <1>5, <1>t DEF fork, At, PointInv, QueueInv, Pids, NotOnQueue
  <2>2. /\ runqueue' = Append(runqueue, child) /\ current' = current /\ next_pid' = child + 1
        /\ \A p \in Pids : pc'[p] = IF p = child THEN "fork_out"
                                     ELSE IF p = current THEN "sys_ret" ELSE pc[p]
    BY <1>5, <1>t, <2>1 DEF fork
  <2>3. QueueInv'
    <3>1. /\ Len(runqueue') = Len(runqueue) + 1 /\ DOMAIN runqueue' = 1..(Len(runqueue) + 1)
          /\ \A i \in 1..Len(runqueue) : runqueue'[i] = runqueue[i]
          /\ runqueue'[Len(runqueue) + 1] = child
      BY <2>1, <2>2, <1>t
    <3>2. CurrentIsFront'
      BY <3>1, <2>2, <1>t, EmptySeq DEF QueueInv, CurrentIsFront
    <3>3. SeqRange(runqueue') = SeqRange(runqueue) \cup {child}
      BY <3>1, <1>t DEF SeqRange
    <3>4. \A i, j \in DOMAIN runqueue' : i # j => runqueue'[i] # runqueue'[j]
      BY <3>1, <2>1, <1>t DEF QueueInv, OnQueue, SeqRange
    <3>5. ASSUME NEW p \in Pids PROVE OnQueue(p)' <=> pc'[p] \notin NotOnQueue
      BY <3>3, <2>1, <2>2, <1>t DEF QueueInv, OnQueue, NotOnQueue
    <3> QED BY <3>2, <3>4, <3>5 DEF QueueInv
  <2>4. current # IDLE /\ pc[INIT] # "start_init"
    BY <2>1, <1>t, <1>i DEF PointInv
  <2>5. PointInv'
    <3>1. \A p \in Pids : p # current' => pc'[p] \in Suspended \cup Fresh \cup NotOnQueue
      BY <2>2, <1>t DEF PointInv, Fresh
    <3>2. \A p \in Pids : pc'[p] = "none" <=> p >= next_pid'
      BY <2>1, <2>2, <1>t DEF PointInv, Pids
    <3>3. ASSUME NEW p \in Pids
          PROVE  /\ pc'[p] \in {"idle", "idle_sw"} <=> p = IDLE
                 /\ pc'[p] = "start_init" => p = INIT
                 /\ pc'[p] \in {"kthreadd", "kthreadd_sw", "kthreadd_yield"} => p = KTHREADD
                 /\ pc'[p] = "fork_out" => p >= 3
      BY <2>1, <2>2, <2>4, <1>t DEF PointInv, IDLE
    <3>4. pc'[INIT] \notin NotOnQueue /\ pc'[INIT] # "start_init"
      BY <2>1, <2>2, <2>4, <1>t DEF PointInv, NotOnQueue, INIT
    <3> QED BY <3>1, <3>2, <3>3, <3>4 DEF PointInv
  <2> QED BY <2>3, <2>5
<1>6. CASE exec
  BY <1>6, <1>g DEF exec, At, famVars, cpuVars, NotOnQueue, Fresh, Suspended
<1>7. CASE exec_failed
  <2>1. CASE pc[current] = "start_init"
    BY <1>7, <2>1, <1>u DEF exec_failed, famVars
  <2>2. CASE pc[current] # "start_init"
    BY <1>7, <2>2, <1>g DEF exec_failed, At, famVars, NotOnQueue, Fresh, Suspended
  <2> QED BY <2>1, <2>2
<1>8. CASE wait
  <2>1. pc[current] \in {"user", "kthreadd"} /\ UNCHANGED <<runqueue, current, next_pid>>
    BY <1>8 DEF wait, At, famVars
  <2>2. CASE get_children_count(current) = 0
    <3>1. Goto(WaitReturn)
      BY <1>8, <2>2 DEF wait
    <3>2. /\ WaitReturn \notin NotOnQueue \cup {"start_init", "fork_out", "idle", "idle_sw"}
          /\ WaitReturn \in KthreaddPoints => current = KTHREADD
      BY DEF WaitReturn, NotOnQueue, KthreaddPoints
    <3> HIDE DEF WaitReturn
    <3> QED BY <1>t, <1>i, <2>1, <3>1, <3>2, MoveStep
  <2>3. CASE get_children_count(current) # 0
    BY <1>8, <2>1, <2>3, <1>g DEF wait, NotOnQueue, Fresh, Suspended
  <2> QED BY <2>2, <2>3
<1>9. CASE wait_for_child
  BY <1>9, <1>s, SMTT(40) DEF wait_for_child, At, famVars
<1>10. CASE reap
  <2> DEFINE D == Destroyed(Head(terminated_children[current]))
  <2>1. \A p \in D : p \in Pids /\ pc[p] = "zombie"
    <3>1. terminated_children[current] # <<>>
      BY <1>10, Zenon DEF reap
    <3> QED BY <3>1, <1>t, DestroyedAreZombies, Zenon
  <2>2. /\ UNCHANGED <<runqueue, current, next_pid>> /\ pc[current] = "wait"
        /\ pc' = [[p \in Pids |-> IF p \in D THEN "freed" ELSE pc[p]] EXCEPT ![current] = WaitReturn]
    BY <1>10, Zenon DEF reap, At
  <2> HIDE DEF D
  <2>3. \A p \in Pids : pc'[p] = IF p = current THEN WaitReturn
                                 ELSE IF p \in D THEN "freed" ELSE pc[p]
    BY <2>2, <1>t
  <2>4. /\ WaitReturn \in {"sys_ret", "kthreadd_yield"}
        /\ WaitReturn = "kthreadd_yield" => current = KTHREADD
    BY DEF WaitReturn
  <2> HIDE DEF WaitReturn
  <2>5. QueueInv'
    BY <2>1, <2>2, <2>3, <2>4, <1>t, SMTT(40) DEF QueueInv, CurrentIsFront, OnQueue, NotOnQueue
  <2>6. PointInv'
    <3>1. \A p \in Pids : p # current' => pc'[p] \in Suspended \cup Fresh \cup NotOnQueue
      BY <2>2, <2>3, <1>t DEF PointInv, NotOnQueue
    <3>2. \A p \in Pids : pc'[p] = "none" <=> p >= next_pid'
      BY <2>1, <2>2, <2>3, <2>4, <1>t DEF PointInv
    <3>3. ASSUME NEW p \in Pids
          PROVE  /\ pc'[p] \in {"idle", "idle_sw"} <=> p = IDLE
                 /\ pc'[p] = "start_init" => p = INIT
                 /\ pc'[p] \in {"kthreadd", "kthreadd_sw", "kthreadd_yield"} => p = KTHREADD
                 /\ pc'[p] = "fork_out" => p >= 3
      BY <2>1, <2>2, <2>3, <2>4, <1>t DEF PointInv
    <3>4. pc'[INIT] \notin NotOnQueue /\ pc'[INIT] # "start_init"
      BY <2>1, <2>2, <2>3, <2>4, <1>i, <1>t DEF PointInv, NotOnQueue
    <3> QED BY <3>1, <3>2, <3>3, <3>4 DEF PointInv
  <2> QED BY <2>5, <2>6
<1>11. CASE exit
  <2>1. CASE parent[current] = nullptr
    BY <1>11, <2>1, <1>u DEF exit, BeginExit, famVars
  <2>2. CASE parent[current] # nullptr
    BY <1>11, <2>2, <1>g DEF exit, BeginExit, At, famVars, NotOnQueue, Fresh, Suspended
  <2> QED BY <2>1, <2>2
<1>12. CASE exit_locked
  <2> DEFINE q == remove_task(runqueue, current)
  <2>1. pc[current] = "exit" /\ schedule(q, "zombie") /\ UNCHANGED next_pid
    BY <1>12 DEF exit_locked, At
  <2>2. q \in Seq(Pids) /\ q # <<>> /\ SeqRange(q) = SeqRange(runqueue) \ {current} /\ Injective(q)
    BY <2>1, <1>t, RemoveCurrent, Zenon
  <2>3. "zombie" \in Points
    BY PointFacts
  <2> HIDE DEF q
  <2>4. /\ runqueue' # <<>> /\ current' = Head(runqueue') /\ SeqRange(runqueue') = SeqRange(q)
        /\ Injective(runqueue') /\ pc' = [pc EXCEPT ![current] = "zombie"]
    BY <1>t, <2>1, <2>2, <2>3, ScheduleFacts
  <2>5. \A p \in Pids : pc'[p] = IF p = current THEN "zombie" ELSE pc[p]
    BY <2>4, <1>t
  <2>6. current # INIT /\ current # IDLE /\ pc[INIT] # "start_init"
    BY <2>1, <1>t, <1>i DEF ParentInv, PointInv
  <2>7. QueueInv'
    <3>1. ASSUME NEW p \in Pids PROVE OnQueue(p)' <=> pc'[p] \notin NotOnQueue
      BY <2>2, <2>4, <2>5, <1>t, SMTT(40) DEF QueueInv, OnQueue, NotOnQueue
    <3> QED BY <2>4, <3>1 DEF QueueInv, CurrentIsFront, Injective
  <2>8. PointInv'
    <3>1. \A p \in Pids : p # current' => pc'[p] \in Suspended \cup Fresh \cup NotOnQueue
      BY <2>5, <1>t DEF PointInv, NotOnQueue
    <3>2. \A p \in Pids : pc'[p] = "none" <=> p >= next_pid'
      BY <2>1, <2>5, <1>t DEF PointInv
    <3>3. ASSUME NEW p \in Pids
          PROVE  /\ pc'[p] \in {"idle", "idle_sw"} <=> p = IDLE
                 /\ pc'[p] = "start_init" => p = INIT
                 /\ pc'[p] \in {"kthreadd", "kthreadd_sw", "kthreadd_yield"} => p = KTHREADD
                 /\ pc'[p] = "fork_out" => p >= 3
      BY <2>5, <2>6, <1>t DEF PointInv
    <3>4. pc'[INIT] \notin NotOnQueue /\ pc'[INIT] # "start_init"
      BY <2>5, <2>6, <1>t DEF PointInv
    <3> QED BY <3>1, <3>2, <3>3, <3>4 DEF PointInv
  <2> QED BY <2>7, <2>8
<1>13. CASE sched_yield
  BY <1>13, <1>s DEF sched_yield, At, famVars
<1>14. ASSUME NEW pid \in Pids, NEW sig \in Signals, kill(pid, sig) PROVE QueueInv' /\ PointInv'
  BY <1>14, <1>g DEF kill, At, famVars, cpuVars, NotOnQueue, Fresh, Suspended
<1>15. ASSUME NEW sig \in Signals, NEW set \in BOOLEAN, signal(sig, set) PROVE QueueInv' /\ PointInv'
  BY <1>15, <1>g DEF signal, At, famVars, cpuVars, NotOnQueue, Fresh, Suspended
<1>16. CASE console_read
  BY <1>16, <1>g DEF console_read, At, famVars, cpuVars, NotOnQueue, Fresh, Suspended
<1>17. CASE console_read_done
  BY <1>17, <1>g DEF console_read_done, At, famVars, cpuVars, NotOnQueue, Fresh, Suspended
<1>18. ASSUME NEW locks \in BOOLEAN, other_syscall(locks) PROVE QueueInv' /\ PointInv'
  BY <1>18, <1>g DEF other_syscall, At, famVars, cpuVars, NotOnQueue, Fresh, Suspended
<1>19. CASE page_fault
  BY <1>19, <1>g DEF page_fault, At, famVars, cpuVars, NotOnQueue, Fresh, Suspended
<1>20. CASE syscall_ret
  BY <1>20, <1>g DEF syscall_ret, At, famVars, cpuVars, NotOnQueue, Fresh, Suspended
<1>21. CASE handle_pending_signal
  <2>1. pc[current] \in {"sys_sig", "irq_ret"} /\ UNCHANGED <<runqueue, current, next_pid>>
    BY <1>21 DEF handle_pending_signal, At, famVars
  <2>2. Goto("exit") \/ UNCHANGED pc
    BY <1>21 DEF handle_pending_signal, BeginExit
  <2> QED BY <2>1, <2>2, <1>g, <1>u DEF NotOnQueue, Fresh, Suspended
<1>22. CASE syscall_reschedule
  BY <1>22, <1>m DEF syscall_reschedule, At, famVars
<1>23. CASE eret
  BY <1>23, <1>g DEF eret, At, famVars, cpuVars, NotOnQueue, Fresh, Suspended
<1>24. CASE handle_irq
  <2>1. pc[current] \in Unlocked /\ Goto("irq_tick") /\ UNCHANGED <<runqueue, current, next_pid>>
    BY <1>24, <1>t DEF handle_irq, IrqInv, famVars
  <2> QED BY <2>1, <1>g DEF Unlocked, NotOnQueue, Fresh, Suspended
<1>25. CASE irq_reschedule
  BY <1>25, <1>m DEF irq_reschedule, At, famVars
<1>26. CASE irq_eret
  <2>1. pc[current] = "irq_ret" /\ Goto(saved[current]) /\ UNCHANGED <<runqueue, current, next_pid>>
    BY <1>26 DEF irq_eret, At, famVars
  <2>2. saved[current] \in Unlocked
    BY <2>1, <1>t DEF IrqInv
  <2> QED BY <2>1, <2>2, <1>g DEF Unlocked, NotOnQueue, Fresh, Suspended
<1>27. CASE halt
  BY <1>27, <1>u DEF halt, vars, cpuVars, famVars
<1> QED
  BY <1>1, <1>2, <1>3, <1>4, <1>5, <1>6, <1>7, <1>8, <1>9, <1>10, <1>11, <1>12,
     <1>13, <1>14, <1>15, <1>16, <1>17, <1>18, <1>19, <1>20, <1>21, <1>22, <1>23,
     <1>24, <1>25, <1>26, <1>27, SMTT(40) DEF Next, KernelStep, UserStep

=============================================================================
