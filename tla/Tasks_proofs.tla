---------------------------- MODULE Tasks_proofs ----------------------------
(***************************************************************************)
(* The safety properties of Tasks, for every number of tasks, every        *)
(* nesting depth and every length of a time slice: first that every step   *)
(* keeps parents, children and zombies consistent, and the way from a task *)
(* up to init; then the lower bound on the nesting counter, and with it    *)
(* the IRQ mask; then the invariant as a whole.                            *)
(***************************************************************************)
EXTENDS TasksQueue_proofs, Lemmas

-----------------------------------------------------------------------------
(* The invariant holds at first, and while nothing changes.                *)

\* What boot leaves behind satisfies the invariant.
LEMMA InitInv == Init => IInv
<1> SUFFICES ASSUME Init PROVE IInv
  OBVIOUS
<1> USE ConstantsAssumption
<1>1. IDLE \in Pids /\ INIT \in Pids /\ KTHREADD \in Pids
  BY DEF Pids, IDLE, INIT, KTHREADD
<1>2. /\ \A p \in Pids : pc[p] = IF p = 0 THEN "idle" ELSE IF p = 1 THEN "start_init"
                                 ELSE IF p = 2 THEN "kthreadd" ELSE "none"
      /\ \A p \in Pids : saved[p] = "none" /\ parent[p] = nullptr /\ active_children[p] = {}
                         /\ terminated_children[p] = <<>>
  BY DEF Init, IDLE, INIT, KTHREADD
<1>3. pc \in [Pids -> Points]
  <2>1. {"idle", "start_init", "kthreadd", "none"} \subseteq Points
    BY DEF Points, Fresh
  <2>2. pc = [p \in Pids |-> pc[p]]
    BY DEF Init
  <2> QED BY <2>1, <2>2, <1>2
<1>4. TypeOK
  <2>1. CpuTypeOK
    <3>1. runqueue \in Seq(Pids) /\ current \in Pids /\ depth \in Int
      BY <1>1 DEF Init
    <3>2. need_reschedule \in BOOLEAN /\ irqs \in BOOLEAN /\ panicked \in BOOLEAN
      BY Zenon DEF Init
    <3> QED BY <3>1, <3>2 DEF CpuTypeOK
  <2>2. FamilyTypeOK
    BY DEF Init, FamilyTypeOK
  <2>3. SignalTypeOK
    BY DEF Init, SignalTypeOK
  <2>4. TaskTypeOK
    <3>1. "none" \in Points
      BY DEF Points
    <3> QED BY <1>3, <3>1 DEF Init, TaskTypeOK, States
  <2> QED BY <2>1, <2>2, <2>3, <2>4 DEF TypeOK
<1>5. QueueInv
  <2>1. runqueue = <<0, 1, 2>> /\ current = 0
    BY DEF Init, IDLE, INIT, KTHREADD
  <2>2. CurrentIsFront
    BY <2>1 DEF CurrentIsFront
  <2>3. SeqRange(runqueue) = {0, 1, 2}
    <3>1. DOMAIN runqueue = {1, 2, 3} /\ runqueue[1] = 0 /\ runqueue[2] = 1 /\ runqueue[3] = 2
      BY <2>1
    <3> QED BY <3>1 DEF SeqRange
  <2>4. \A p \in Pids : OnQueue(p) <=> pc[p] \notin NotOnQueue
    BY <2>3, <1>2 DEF OnQueue, NotOnQueue
  <2>5. \A i, j \in DOMAIN runqueue : i # j => runqueue[i] # runqueue[j]
    BY <2>1
  <2> QED BY <2>2, <2>4, <2>5 DEF QueueInv
<1>6. PointInv
  <2>1. current = 0 /\ next_pid = 3 /\ runqueue = <<IDLE, INIT, KTHREADD>>
    BY DEF Init, IDLE
  <2>2. \A p \in Pids : pc[p] = "none" <=> p >= 3
    BY <1>2 DEF Pids
  <2>3. \A p \in Pids : p # 0 => pc[p] \in {"start_init", "kthreadd", "none"}
    BY <1>2, SMTT(40)
  <2> QED BY <1>1, <1>2, <2>1, <2>2, <2>3
      DEF PointInv, IDLE, INIT, KTHREADD, Fresh, NotOnQueue
<1>7. ParentInv
  <2>1. \A p \in Pids : p # nullptr /\ SeqRange(terminated_children[p]) = {}
                        /\ DOMAIN terminated_children[p] = {}
    BY <1>2, SMTT(40) DEF SeqRange, Pids, nullptr
  <2>2. FamilyConsistent
    BY <1>2, <2>1 DEF FamilyConsistent
  <2> QED BY <1>1, <1>2, <2>1, <2>2, SMTT(40) DEF ParentInv
<1>10. TreeInv
  <2>1. pc[KTHREADD] \in DaemonPoints /\ parent[KTHREADD] = nullptr
    BY <1>1, <1>2 DEF KTHREADD, DaemonPoints
  <2>2. \A p \in Pids : p >= 3 => ~Exists(p)
    BY <1>2 DEF Exists, Pids
  <2> QED BY <1>2, <2>1, <2>2 DEF TreeInv
<1>8. IrqInv
  BY <1>2 DEF IrqInv, Init
<1>9. DepthInv
  <2>1. Waiting = {}
    BY <1>2 DEF Waiting, Pids
  <2>2. Cardinality(Waiting) = 0
    BY <2>1, FS_EmptySet
  <2>3. depth = 0 /\ Leaked = 0 /\ Short = 0
    BY <1>1, <1>2 DEF Init, Leaked, Short, INIT, IDLE
  <2>4. Held(IDLE) = 0 /\ Held(INIT) = 0 /\ Held(KTHREADD) = 0
    BY <1>1, <1>2 DEF Held, IDLE, INIT, KTHREADD, Suspended
  <2> QED BY <2>2, <2>3, <2>4 DEF DepthInv
<1> QED BY <1>4, <1>5, <1>6, <1>7, <1>8, <1>9, <1>10 DEF IInv

\* A step that changes nothing keeps the invariant.
LEMMA StutterInv ==
  ASSUME IInv, UNCHANGED vars
  PROVE  IInv'
<1>1. UNCHANGED <<cpuVars, famVars, sigVars, pc, saved, state, time_slice>>
  BY DEF vars
<1>2. /\ UNCHANGED <<runqueue, current, need_reschedule, irqs, panicked, depth>>
      /\ UNCHANGED <<next_pid, parent, active_children, terminated_children>>
      /\ UNCHANGED <<pending_signals, custom_handlers>>
      /\ UNCHANGED <<pc, saved, state, time_slice>>
  BY <1>1, SMTT(40) DEF cpuVars, famVars, sigVars
<1>3. TypeOK'
  BY <1>2, SMTT(40) DEF IInv, TypeOK, CpuTypeOK, FamilyTypeOK, SignalTypeOK, TaskTypeOK
<1>4. QueueInv' /\ PointInv'
  BY <1>2, SMTT(40) DEF IInv, QueueInv, CurrentIsFront, OnQueue, PointInv
<1>5. IrqInv'
  BY <1>2 DEF IInv, IrqInv
<1>6. ParentInv'
  <2>1. UNCHANGED <<parent, active_children, terminated_children, pc, saved>>
    BY <1>2
  <2>2. FamilyConsistent'
    BY <2>1 DEF IInv, ParentInv, FamilyConsistent, Exists
  <2>3. ParentInv
    BY DEF IInv
  <2> QED BY <2>1, <2>2, <2>3 DEF ParentInv
<1>7. DepthInv'
  BY <1>2 DEF IInv, DepthInv, Leaked, Held, Waiting, Short
<1>8. TreeInv'
  BY <1>2 DEF IInv, TreeInv, Exists
<1> QED BY <1>3, <1>4, <1>5, <1>6, <1>7, <1>8 DEF IInv

-----------------------------------------------------------------------------
(* The family tree.                                                        *)

\* A step that moves the running task and leaves the family tree alone.
LEMMA ParentMove ==
  ASSUME TypeOK, QueueInv, ParentInv, NEW point, Goto(point), UNCHANGED famVars,
         point \notin NotOnQueue,
         point = "exit" => parent[current] # nullptr,
         \A p \in Pids : saved'[p] = "exit" =>
            saved[p] = "exit" \/ (p = current /\ pc[current] = "exit")
  PROVE  ParentInv'
<1>1. /\ current \in Pids /\ pc \in [Pids -> Points]
      /\ UNCHANGED <<parent, active_children, terminated_children>>
      /\ parent \in [Pids -> Pids \cup {nullptr}]
  BY DEF TypeOK, CpuTypeOK, TaskTypeOK, FamilyTypeOK, famVars
<1>2. \A p \in Pids : pc'[p] = IF p = current THEN point ELSE pc[p]
  BY <1>1, SMTT(40) DEF Goto
<1>3. pc[current] \notin NotOnQueue
  <2>1. OnQueue(current)
    BY <1>1, EmptySeq, SMTT(40) DEF QueueInv, CurrentIsFront, OnQueue, SeqRange, TypeOK, CpuTypeOK
  <2> QED BY <1>1, <2>1, SMTT(40) DEF QueueInv
<1>4. FamilyConsistent'
  <2> SUFFICES ASSUME NEW p \in Pids
      PROVE /\ parent[p] # nullptr => pc'[parent[p]] \notin {"none", "freed"}
            /\ active_children[p] = {c \in Pids : parent[c] = p /\ pc'[c] # "zombie"}
            /\ SeqRange(terminated_children[p]) = {c \in Pids : parent[c] = p /\ pc'[c] = "zombie"}
    BY <1>1 DEF FamilyConsistent, Exists
  <2>1. \A c \in Pids : /\ pc'[c] = "zombie" <=> pc[c] = "zombie"
                        /\ pc'[c] \in {"none", "freed"} <=> pc[c] \in {"none", "freed"}
    BY <1>2, <1>3 DEF NotOnQueue
  <2>2. parent[p] # nullptr => parent[p] \in Pids
    BY <1>1
  <2> QED BY <2>1, <2>2, ZenonT(40) DEF ParentInv, FamilyConsistent, Exists
<1>5. \A p \in Pids : pc'[p] = "zombie" \/ "exit" \in {pc'[p], saved'[p]} => parent'[p] # nullptr
  BY <1>1, <1>2 DEF ParentInv, NotOnQueue
<1>6. \A p \in Pids : pc'[p] \in {"none", "freed"} => parent'[p] = nullptr
  BY <1>1, <1>2 DEF ParentInv, NotOnQueue
<1> QED BY <1>1, <1>4, <1>5, <1>6 DEF ParentInv

\* The children lists, by membership.
LEMMA FamilyMembers ==
  ASSUME TypeOK, ParentInv, NEW p \in Pids
  PROVE  /\ active_children[p] \subseteq Pids /\ SeqRange(terminated_children[p]) \subseteq Pids
         /\ \A c \in Pids : c \in active_children[p] <=> parent[c] = p /\ pc[c] # "zombie"
         /\ \A c \in Pids : c \in SeqRange(terminated_children[p])
                               <=> parent[c] = p /\ pc[c] = "zombie"
<1>1. /\ active_children[p] = {c \in Pids : parent[c] = p /\ pc[c] # "zombie"}
      /\ SeqRange(terminated_children[p]) = {c \in Pids : parent[c] = p /\ pc[c] = "zombie"}
  BY DEF ParentInv, FamilyConsistent
<1> QED BY <1>1

\* The same, the other way round, for the next state.
LEMMA FamilyByMembers ==
  ASSUME \A p \in Pids :
           /\ active_children'[p] \subseteq Pids /\ SeqRange(terminated_children'[p]) \subseteq Pids
           /\ \A c \in Pids : c \in active_children'[p] <=> parent'[c] = p /\ pc'[c] # "zombie"
           /\ \A c \in Pids : c \in SeqRange(terminated_children'[p])
                                 <=> parent'[c] = p /\ pc'[c] = "zombie"
           /\ parent'[p] # nullptr => pc'[parent'[p]] \notin {"none", "freed"}
  PROVE  FamilyConsistent'
<1>1. ASSUME NEW p \in Pids
      PROVE  active_children'[p] = {c \in Pids : parent'[c] = p /\ pc'[c] # "zombie"}
  <2>1. /\ active_children'[p] \subseteq Pids
        /\ \A c \in Pids : c \in active_children'[p] <=> parent'[c] = p /\ pc'[c] # "zombie"
    BY <1>1
  <2> QED BY <2>1
<1>2. ASSUME NEW p \in Pids
      PROVE  SeqRange(terminated_children'[p]) = {c \in Pids : parent'[c] = p /\ pc'[c] = "zombie"}
  <2>1. /\ SeqRange(terminated_children'[p]) \subseteq Pids
        /\ \A c \in Pids : c \in SeqRange(terminated_children'[p])
                              <=> parent'[c] = p /\ pc'[c] = "zombie"
    BY <1>2
  <2> QED BY <2>1
<1> QED BY <1>1, <1>2 DEF FamilyConsistent, Exists

\* Every step keeps them in order.
LEMMA ParentStep ==
  ASSUME IInv, Next
  PROVE  ParentInv'
<1>t. /\ TypeOK /\ QueueInv /\ PointInv /\ ParentInv /\ current \in Pids
      /\ pc \in [Pids -> Points] /\ saved \in [Pids -> Points]
  BY DEF IInv, TypeOK, CpuTypeOK, TaskTypeOK
<1>n. NotOnQueue = {"none", "zombie", "freed"}
  BY DEF NotOnQueue
<1>g. ASSUME NEW point, Goto(point), UNCHANGED famVars, UNCHANGED saved,
             point \notin {"none", "zombie", "freed"}, point = "exit" => parent[current] # nullptr
      PROVE  ParentInv'
  BY <1>t, <1>n, <1>g, ParentMove
<1>s. ASSUME NEW q, NEW point, schedule(q, point), UNCHANGED famVars, UNCHANGED saved,
             point \notin {"none", "zombie", "freed", "exit"}
      PROVE  ParentInv'
  BY <1>s, <1>g, SMTT(40) DEF schedule
<1>u. ASSUME UNCHANGED famVars, UNCHANGED <<pc, saved>> PROVE ParentInv'
  BY <1>t, <1>u DEF ParentInv, FamilyConsistent, Exists, famVars
<1>m. ASSUME NEW p1, NEW p2, maybe_schedule(p1, p2), UNCHANGED famVars, UNCHANGED saved,
             p1 \in Suspended, p2 \in {"irq_ret", "eret"}
      PROVE  ParentInv'
  <2>1. CASE need_reschedule
    <3>1. schedule(runqueue, p1)
      BY <1>m, <2>1 DEF maybe_schedule
    <3> QED BY <1>m, <3>1, <1>s DEF Suspended
  <2>2. CASE ~need_reschedule
    <3>1. Goto(p2)
      BY <1>m, <2>2 DEF maybe_schedule
    <3> QED BY <1>m, <3>1, <1>g
  <2> QED BY <2>1, <2>2
<1>1. CASE idle
  BY <1>1, <1>s DEF idle
<1>2. CASE kthreadd_yields
  BY <1>2, <1>s DEF kthreadd_yields
<1>3. CASE ReturnFromSwitch
  <2>1. ResumePoint(pc[current]) \notin {"none", "zombie", "freed", "exit"}
    BY <1>3, PointFacts DEF ReturnFromSwitch, At
  <2> QED BY <1>3, <2>1, <1>g DEF ReturnFromSwitch
<1>4. CASE ForkOut
  BY <1>4, <1>g DEF ForkOut
<1>5. CASE fork
  <2>1. /\ next_pid \in Pids /\ next_pid # current /\ next_pid >= 3 /\ pc[next_pid] = "none"
        /\ pc[current] = "user"
    BY <1>5, <1>t DEF fork, At, PointInv, TypeOK, FamilyTypeOK, Pids
  <2>2. /\ \A p \in Pids : pc'[p] = IF p = next_pid THEN "fork_out"
                                     ELSE IF p = current THEN "sys_ret" ELSE pc[p]
        /\ \A p \in Pids : parent'[p] = IF p = next_pid THEN current ELSE parent[p]
        /\ \A p \in Pids : active_children'[p] = IF p = current THEN active_children[p] \cup {next_pid}
                                                  ELSE active_children[p]
        /\ UNCHANGED <<terminated_children, saved>>
    BY <1>5, <1>t, <2>1, ZenonT(40) DEF fork, TypeOK, FamilyTypeOK
  <2>3. parent[next_pid] = nullptr /\ current # nullptr
    BY <2>1, <1>t DEF ParentInv, nullptr, Pids
  <2>4. FamilyConsistent'
    <3> SUFFICES ASSUME NEW p \in Pids
        PROVE /\ active_children'[p] \subseteq Pids /\ SeqRange(terminated_children'[p]) \subseteq Pids
              /\ \A c \in Pids : c \in active_children'[p] <=> parent'[c] = p /\ pc'[c] # "zombie"
              /\ \A c \in Pids : c \in SeqRange(terminated_children'[p])
                                    <=> parent'[c] = p /\ pc'[c] = "zombie"
              /\ parent'[p] # nullptr => pc'[parent'[p]] \notin {"none", "freed"}
      BY FamilyByMembers
    <3>1. parent'[p] # nullptr => pc'[parent'[p]] \notin {"none", "freed"}
      <4>1. parent[p] # nullptr => parent[p] \in Pids /\ pc[parent[p]] \notin {"none", "freed"}
        BY <1>t, SMTT(40) DEF ParentInv, FamilyConsistent, Exists, TypeOK, FamilyTypeOK
      <4> QED BY <4>1, <2>1, <2>2, <1>t
    <3>2. /\ active_children[p] \subseteq Pids /\ SeqRange(terminated_children[p]) \subseteq Pids
          /\ \A c \in Pids : c \in active_children[p] <=> parent[c] = p /\ pc[c] # "zombie"
          /\ \A c \in Pids : c \in SeqRange(terminated_children[p])
                                <=> parent[c] = p /\ pc[c] = "zombie"
          /\ p # nullptr
      BY <1>t, FamilyMembers DEF Pids, nullptr
    <3>3. /\ active_children'[p] \subseteq Pids
          /\ \A c \in Pids : c \in active_children'[p] <=> parent'[c] = p /\ pc'[c] # "zombie"
      <4>1. active_children'[p] \subseteq Pids
        BY TypeStep, SMT DEF TypeOK, FamilyTypeOK
      <4>2. ASSUME NEW c \in Pids
            PROVE  c \in active_children'[p] <=> parent'[c] = p /\ pc'[c] # "zombie"
        <5>1. CASE c = next_pid
          BY <5>1, <3>2, <2>1, <2>2, <2>3, Zenon
        <5>2. CASE c # next_pid
          <6>1. c \in active_children'[p] <=> c \in active_children[p]
            BY <5>2, <2>2, ZenonT(40)
          <6>2. parent'[c] = parent[c] /\ (pc'[c] # "zombie" <=> pc[c] # "zombie")
            BY <5>2, <2>1, <2>2
          <6> QED BY <6>1, <6>2, <3>2
        <5> QED BY <5>1, <5>2
      <4> QED BY <4>1, <4>2
    <3>4. /\ SeqRange(terminated_children'[p]) = SeqRange(terminated_children[p])
          /\ \A c \in Pids : parent'[c] = p /\ pc'[c] = "zombie" <=> parent[c] = p /\ pc[c] = "zombie"
      BY <3>2, <2>1, <2>2, <2>3
    <3> QED BY <3>1, <3>2, <3>3, <3>4
  <2>5. \A p \in Pids : \A i, j \in DOMAIN terminated_children'[p] :
          i # j => terminated_children'[p][i] # terminated_children'[p][j]
    BY <2>2, <1>t DEF ParentInv
  <2>6. parent'[IDLE] = nullptr /\ parent'[INIT] = nullptr
    BY <2>1, <2>2, <1>t, ConstantsAssumption, SMTT(40) DEF ParentInv, IDLE, INIT, Pids
  <2>7. \A p \in Pids : pc'[p] = "zombie" \/ "exit" \in {pc'[p], saved'[p]} => parent'[p] # nullptr
    BY <2>1, <2>2, <2>3, <1>t, SMTT(40) DEF ParentInv
  <2>8. \A p \in Pids : pc'[p] \in {"none", "freed"} => parent'[p] = nullptr
    BY <2>1, <2>2, <1>t DEF ParentInv
  <2> QED BY <2>4, <2>5, <2>6, <2>7, <2>8, SMTT(40) DEF ParentInv
<1>6. CASE exec
  BY <1>6, <1>g, SMTT(40) DEF exec
<1>7. CASE exec_failed
  BY <1>7, <1>g, <1>u DEF exec_failed
<1>8. CASE wait
  <2>1. WaitReturn \notin {"none", "zombie", "freed", "exit"}
    BY DEF WaitReturn
  <2> QED BY <1>8, <2>1, <1>g DEF wait
<1>9. CASE wait_for_child
  BY <1>9, <1>s DEF wait_for_child
<1>10. CASE reap
  <2> DEFINE z == Head(terminated_children[current])
             D == Destroyed(z)
             orphans == UNION {active_children[p] : p \in D}
             tc == terminated_children[current]
  <2>1. terminated_children[current] # <<>> /\ pc[current] = "wait"
    BY <1>10 DEF reap, At
  <2>2. z \in Pids /\ pc[z] = "zombie" /\ parent[z] = current /\ tc \in Seq(Pids)
    BY <1>t, <2>1, ReapedFacts
  <2>3. /\ \A p \in D : p \in Pids /\ pc[p] = "zombie"
        /\ z \in D
        /\ \A p \in D : SeqRange(terminated_children[p]) \subseteq D
        /\ \A p \in D : p = z \/ parent[p] \in D
    BY <1>t, <2>2, DestroyedFacts, SMTT(40)
  <2>4. /\ pc' = [[p \in Pids |-> IF p \in D THEN "freed" ELSE pc[p]] EXCEPT ![current] = WaitReturn]
        /\ saved' = [p \in Pids |-> IF p \in D THEN "none" ELSE saved[p]]
        /\ active_children' = [[p \in Pids |-> IF p \in D THEN {} ELSE active_children[p]]
                                EXCEPT ![INIT] = @ \cup orphans]
        /\ terminated_children' = [[p \in Pids |-> IF p \in D THEN <<>> ELSE terminated_children[p]]
                                     EXCEPT ![current] = Tail(@)]
        /\ parent' = [p \in Pids |-> IF p \in orphans THEN INIT
                                 ELSE IF p \in D THEN nullptr ELSE parent[p]]
    BY <1>10 DEF reap
  <2>5. INIT # nullptr /\ IDLE \in Pids /\ INIT \in Pids /\ WaitReturn \in {"sys_ret", "kthreadd_yield"}
    BY ConstantsAssumption, SMTT(40) DEF INIT, IDLE, nullptr, Pids, WaitReturn
  <2>6. \A c : c \in orphans <=> c \in Pids /\ pc[c] # "zombie" /\ parent[c] \in D
    BY <2>3, <1>t DEF ParentInv, FamilyConsistent
  <2>7. current \notin D /\ INIT \notin D
    BY <2>1, <2>3, <1>t DEF PointInv, NotOnQueue
  <2>8. \A p \in Pids :
          /\ active_children[p] \subseteq Pids /\ SeqRange(terminated_children[p]) \subseteq Pids
          /\ \A c \in Pids : c \in active_children[p] <=> parent[c] = p /\ pc[c] # "zombie"
          /\ \A c \in Pids : c \in SeqRange(terminated_children[p])
                                <=> parent[c] = p /\ pc[c] = "zombie"
          /\ parent[p] # nullptr => parent[p] \in Pids /\ pc[parent[p]] \notin {"none", "freed"}
    <3>1. \A p \in Pids : parent[p] # nullptr => parent[p] \in Pids /\ pc[parent[p]] \notin {"none", "freed"}
      BY <1>t DEF ParentInv, FamilyConsistent, Exists, TypeOK, FamilyTypeOK
    <3> QED BY <3>1, <1>t, FamilyMembers
  <2>9. nullptr \notin Pids
    BY DEF nullptr, Pids
  <2>10. SeqRange(Tail(tc)) = SeqRange(tc) \ {z} /\ Injective(Tail(tc))
    <3>1. Injective(tc) /\ tc # <<>>
      BY <2>1, <1>t DEF ParentInv, Injective
    <3> HIDE DEF tc
    <3>2. SeqRange(Tail(tc)) = SeqRange(tc) \ {Head(tc)} /\ Injective(Tail(tc))
      BY <3>1, <2>2, TailFacts
    <3> QED BY <3>2 DEF tc
  <2> HIDE DEF D, orphans, WaitReturn, z
  <2>11. /\ \A p \in Pids : pc'[p] = IF p = current THEN WaitReturn
                                 ELSE IF p \in D THEN "freed" ELSE pc[p]
         /\ \A p \in Pids : parent'[p] = IF p \in orphans THEN INIT
                                 ELSE IF p \in D THEN nullptr ELSE parent[p]
         /\ \A p \in Pids : active_children'[p] =
               IF p = INIT THEN active_children[p] \cup orphans
               ELSE IF p \in D THEN {} ELSE active_children[p]
         /\ \A p \in Pids : terminated_children'[p] =
               IF p = current THEN Tail(tc)
               ELSE IF p \in D THEN <<>> ELSE terminated_children[p]
         /\ \A p \in Pids : saved'[p] = IF p \in D THEN "none" ELSE saved[p]
    BY <2>4, <2>5, <2>7, <1>t, ZenonT(40)
  <2> HIDE DEF tc
  <2>12. \A c \in Pids : (pc'[c] = "zombie") <=> (pc[c] = "zombie" /\ c \notin D)
    BY <2>1, <2>3, <2>5, <2>11, Zenon
  <2>13. \A c \in Pids : pc[c] # "zombie" => c \notin D
    BY <2>3, SMTT(40)
  <2>14. ASSUME NEW p \in Pids
         PROVE  /\ active_children'[p] \subseteq Pids
                /\ \A c \in Pids : c \in active_children'[p] <=> parent'[c] = p /\ pc'[c] # "zombie"
    <3>1. CASE p = INIT
      <4>1. active_children'[p] = active_children[p] \cup orphans
        BY <3>1, <2>5, <2>11, Zenon
      <4>2. orphans \subseteq Pids
        BY <2>6
      <4>3. ASSUME NEW c \in Pids
            PROVE  c \in active_children[p] \/ c \in orphans <=> parent'[c] = p /\ pc'[c] # "zombie"
        <5>1. /\ c \in active_children[p] <=> parent[c] = p /\ pc[c] # "zombie"
              /\ c \in orphans <=> pc[c] # "zombie" /\ parent[c] \in D
              /\ parent'[c] = IF c \in orphans THEN INIT ELSE IF c \in D THEN nullptr ELSE parent[c]
          BY <2>6, <2>8, <2>11
        <5>2. p # nullptr /\ ((pc'[c] # "zombie") <=> (pc[c] # "zombie" \/ c \in D))
              /\ (pc[c] # "zombie" => c \notin D)
          BY <2>9, <2>12, <2>13
        <5> QED BY <3>1, <5>1, <5>2
      <4> QED BY <4>1, <4>2, <4>3, <2>8
    <3>2. CASE p # INIT /\ p \in D
      <4>1. active_children'[p] = {}
        BY <3>2, <2>11, ZenonT(40)
      <4>2. ASSUME NEW c \in Pids, parent'[c] = p, pc'[c] # "zombie" PROVE FALSE
        <5>1. c \notin D /\ c \notin orphans /\ parent[c] = p
          BY <4>2, <3>2, <2>9, <2>11, Zenon
        <5> QED BY <5>1, <4>2, <3>2, <2>6, <2>12
      <4> QED BY <4>1, <4>2, SMTT(40)
    <3>3. CASE p # INIT /\ p \notin D
      <4>1. active_children'[p] = active_children[p]
        BY <3>3, <2>11, ZenonT(40)
      <4>2. ASSUME NEW c \in Pids
            PROVE  parent[c] = p /\ pc[c] # "zombie" <=> parent'[c] = p /\ pc'[c] # "zombie"
        <5>1. /\ c \in orphans <=> pc[c] # "zombie" /\ parent[c] \in D
              /\ parent'[c] = IF c \in orphans THEN INIT ELSE IF c \in D THEN nullptr ELSE parent[c]
          BY <2>6, <2>11
        <5>2. p # nullptr /\ ((pc'[c] # "zombie") <=> (pc[c] # "zombie" \/ c \in D))
              /\ (pc[c] # "zombie" => c \notin D)
          BY <2>9, <2>12, <2>13
        <5> QED BY <3>3, <5>1, <5>2
      <4> QED BY <4>1, <4>2, <2>8
    <3> QED BY <3>1, <3>2, <3>3, SMTT(40)
  <2>15. ASSUME NEW p \in Pids
         PROVE  /\ SeqRange(terminated_children'[p]) \subseteq Pids
                /\ \A c \in Pids : c \in SeqRange(terminated_children'[p])
                                      <=> parent'[c] = p /\ pc'[c] = "zombie"
    <3>1. \A c \in Pids : (pc'[c] = "zombie") <=> (pc[c] = "zombie" /\ c \notin D)
      BY <2>12
    <3>2. \A c \in Pids : pc'[c] = "zombie" => parent'[c] = parent[c]
      BY <3>1, <2>6, <2>11
    <3>3. CASE p = current
      <4>1. SeqRange(terminated_children'[p]) = SeqRange(terminated_children[p]) \ {z}
        BY <3>3, <2>10, <2>11, <1>t DEF tc
      <4>2. \A c \in Pids : parent[c] = p /\ c \in D => c = z
        BY <3>3, <2>3, <2>7
      <4> QED BY <4>1, <4>2, <3>1, <3>2, <2>3, <2>8, SMTT(40)
    <3>4. CASE p # current /\ p \in D
      <4>1. SeqRange(terminated_children'[p]) = {}
        BY <3>4, <2>11 DEF SeqRange
      <4>2. \A c \in Pids : parent[c] = p /\ pc[c] = "zombie" => c \in D
        BY <3>4, <2>3, <2>8
      <4> QED BY <4>1, <4>2, <3>1, <3>2, SMTT(40)
    <3>5. CASE p # current /\ p \notin D
      <4>1. SeqRange(terminated_children'[p]) = SeqRange(terminated_children[p])
        BY <3>5, <2>11
      <4>2. \A c \in Pids : parent[c] = p => c \notin D
        BY <3>5, <2>2, <2>3
      <4> QED BY <4>1, <4>2, <3>1, <3>2, <2>8, SMTT(40)
    <3> QED BY <3>3, <3>4, <3>5
  <2>16. \A p \in Pids : parent'[p] # nullptr => pc'[parent'[p]] \notin {"none", "freed"}
    <3> SUFFICES ASSUME NEW p \in Pids, parent'[p] # nullptr
                 PROVE  pc'[parent'[p]] \notin {"none", "freed"}
      OBVIOUS
    <3>1. CASE p \in orphans
      <4>1. pc[INIT] \notin {"none", "freed"}
        BY <1>t DEF PointInv, NotOnQueue
      <4> QED BY <3>1, <4>1, <2>5, <2>7, <2>11
    <3>2. CASE p \notin orphans
      <4>1. p \notin D /\ parent'[p] = parent[p] /\ parent[p] \in Pids
            /\ pc[parent[p]] \notin {"none", "freed"}
        BY <3>2, <2>8, <2>11, SMTT(40)
      <4>2. parent[p] \notin D
        BY <3>2, <4>1, <2>3, <2>6, <2>8, SMTT(40)
      <4> QED BY <4>1, <4>2, <2>5, <2>11, SMTT(40)
    <3> QED BY <3>1, <3>2
  <2>17. \A p \in Pids : \A i, j \in DOMAIN terminated_children'[p] :
           i # j => terminated_children'[p][i] # terminated_children'[p][j]
    <3> SUFFICES ASSUME NEW p \in Pids PROVE Injective(terminated_children'[p])
      BY DEF Injective
    <3>1. Injective(terminated_children[p]) /\ Injective(<<>>)
      BY <1>t, SMTT(40) DEF ParentInv, Injective
    <3> QED BY <3>1, <2>10, <2>11
  <2>18. parent'[IDLE] = nullptr /\ parent'[INIT] = nullptr
    BY <2>3, <2>5, <2>6, <2>9, <2>11, <1>t, SMTT(40) DEF ParentInv
  <2>19. \A p \in Pids : pc'[p] = "zombie" \/ "exit" \in {pc'[p], saved'[p]} => parent'[p] # nullptr
    BY <2>1, <2>5, <2>11, <2>12, <1>t, SMTT(40) DEF ParentInv
  <2>20. \A p \in Pids : pc'[p] \in {"none", "freed"} => parent'[p] = nullptr
    BY <2>3, <2>5, <2>6, <2>9, <2>11, <1>t, SMTT(40) DEF ParentInv
  <2>21. FamilyConsistent'
    BY <2>14, <2>15, <2>16, FamilyByMembers
  <2> QED BY <2>17, <2>18, <2>19, <2>20, <2>21, SMTT(40) DEF ParentInv
<1>11. CASE exit
  BY <1>11, <1>g, <1>u, SMTT(40) DEF exit, BeginExit
<1>12. CASE exit_locked
  <2> DEFINE par == parent[current]
  <2>1. /\ pc[current] = "exit" /\ par # nullptr /\ par \in Pids
        /\ UNCHANGED <<parent, saved>>
    BY <1>12, <1>t DEF exit_locked, At, ParentInv, TypeOK, FamilyTypeOK
  <2>2. pc' = [pc EXCEPT ![current] = "zombie"]
    BY <1>12 DEF exit_locked, schedule, Goto
  <2> HIDE DEF par
  <2>3. /\ \A p \in Pids : pc'[p] = IF p = current THEN "zombie" ELSE pc[p]
        /\ \A p \in Pids : active_children'[p] = IF p = par THEN active_children[p] \ {current}
                                                  ELSE active_children[p]
        /\ \A p \in Pids : terminated_children'[p] =
              IF p = par THEN Append(terminated_children[p], current) ELSE terminated_children[p]
    BY <1>12, <1>t, <2>1, <2>2, Zenon DEF exit_locked, TypeOK, FamilyTypeOK, par
  <2>4. \A p \in Pids :
          /\ active_children[p] \subseteq Pids /\ SeqRange(terminated_children[p]) \subseteq Pids
          /\ \A c \in Pids : c \in active_children[p] <=> parent[c] = p /\ pc[c] # "zombie"
          /\ \A c \in Pids : c \in SeqRange(terminated_children[p])
                                <=> parent[c] = p /\ pc[c] = "zombie"
          /\ parent[p] # nullptr => parent[p] \in Pids /\ pc[parent[p]] \notin {"none", "freed"}
          /\ terminated_children[p] \in Seq(Pids) /\ Injective(terminated_children[p])
    BY FamilyMembers, <1>t DEF ParentInv, FamilyConsistent, Exists, TypeOK, FamilyTypeOK, Injective
  <2>5. ASSUME NEW s \in Seq(Pids)
        PROVE  /\ SeqRange(Append(s, current)) = SeqRange(s) \cup {current}
               /\ Injective(s) /\ current \notin SeqRange(s) => Injective(Append(s, current))
    <3>1. /\ DOMAIN Append(s, current) = 1..(Len(s) + 1) /\ DOMAIN s = 1..Len(s) /\ Len(s) \in Nat
          /\ \A i \in 1..Len(s) : Append(s, current)[i] = s[i]
          /\ Append(s, current)[Len(s) + 1] = current
      BY <1>t
    <3> QED BY <3>1 DEF SeqRange, Injective
  <2>6. FamilyConsistent'
    <3> SUFFICES ASSUME NEW p \in Pids
        PROVE /\ active_children'[p] \subseteq Pids /\ SeqRange(terminated_children'[p]) \subseteq Pids
              /\ \A c \in Pids : c \in active_children'[p] <=> parent'[c] = p /\ pc'[c] # "zombie"
              /\ \A c \in Pids : c \in SeqRange(terminated_children'[p])
                                    <=> parent'[c] = p /\ pc'[c] = "zombie"
              /\ parent'[p] # nullptr => pc'[parent'[p]] \notin {"none", "freed"}
      BY FamilyByMembers
    <3>1. parent'[p] # nullptr => pc'[parent'[p]] \notin {"none", "freed"}
      BY <2>1, <2>3, <2>4, SMTT(40)
    <3>2. /\ active_children'[p] \subseteq Pids
          /\ \A c \in Pids : c \in active_children'[p] <=> parent'[c] = p /\ pc'[c] # "zombie"
      <4>1. active_children'[p] \subseteq Pids
        BY TypeStep, SMT DEF TypeOK, FamilyTypeOK
      <4>2. ASSUME NEW c \in Pids
            PROVE  c \in active_children'[p] <=> parent'[c] = p /\ pc'[c] # "zombie"
        <5>1. c \in active_children[p] <=> parent'[c] = p /\ pc[c] # "zombie"
          BY <2>1, <2>4
        <5>2. CASE c = current
          <6>1. p = parent'[c] => p = par
            BY <5>2, <2>1 DEF par
          <6> QED BY <5>1, <5>2, <6>1, <2>3, Zenon
        <5>3. CASE c # current
          <6>1. c \in active_children'[p] <=> c \in active_children[p]
            BY <5>3, <2>3, ZenonT(40)
          <6>2. pc'[c] = pc[c]
            BY <5>3, <2>3
          <6> QED BY <5>1, <6>1, <6>2
        <5> QED BY <5>2, <5>3
      <4> QED BY <4>1, <4>2
    <3>3. /\ SeqRange(terminated_children'[p]) \subseteq Pids
          /\ \A c \in Pids : c \in SeqRange(terminated_children'[p])
                                <=> parent'[c] = p /\ pc'[c] = "zombie"
      <4>1. SeqRange(terminated_children'[p]) = IF p = par THEN SeqRange(terminated_children[p]) \cup {current}
                                                ELSE SeqRange(terminated_children[p])
        BY <2>3, <2>4, <2>5, Zenon
      <4> QED BY <4>1, <2>1, <2>3, <2>4, <1>t DEF par
    <3> QED BY <3>1, <3>2, <3>3
  <2>7. \A p \in Pids : \A i, j \in DOMAIN terminated_children'[p] :
          i # j => terminated_children'[p][i] # terminated_children'[p][j]
    <3> SUFFICES ASSUME NEW p \in Pids PROVE Injective(terminated_children'[p])
      BY DEF Injective
    <3>1. current \notin SeqRange(terminated_children[p])
      BY <2>1, <2>4
    <3> QED BY <3>1, <2>3, <2>4, <2>5
  <2>8. /\ parent'[IDLE] = nullptr /\ parent'[INIT] = nullptr
        /\ \A p \in Pids : pc'[p] = "zombie" \/ "exit" \in {pc'[p], saved'[p]} => parent'[p] # nullptr
        /\ \A p \in Pids : pc'[p] \in {"none", "freed"} => parent'[p] = nullptr
    BY <2>1, <2>3, <1>t DEF ParentInv, par
  <2> QED BY <2>6, <2>7, <2>8 DEF ParentInv
<1>13. CASE sched_yield
  BY <1>13, <1>s DEF sched_yield
<1>14. ASSUME NEW pid \in Pids, NEW sig \in Signals, kill(pid, sig) PROVE ParentInv'
  BY <1>14, <1>g, SMTT(40) DEF kill
<1>15. ASSUME NEW sig \in Signals, NEW set \in BOOLEAN, signal(sig, set) PROVE ParentInv'
  BY <1>15, <1>g DEF signal
<1>16. CASE console_read
  BY <1>16, <1>g DEF console_read
<1>17. CASE console_read_done
  BY <1>17, <1>g DEF console_read_done
<1>18. ASSUME NEW locks \in BOOLEAN, other_syscall(locks) PROVE ParentInv'
  BY <1>18, <1>g DEF other_syscall
<1>19. CASE page_fault
  BY <1>19, <1>g DEF page_fault
<1>20. CASE syscall_ret
  BY <1>20, <1>g DEF syscall_ret
<1>21. CASE handle_pending_signal
  BY <1>21, <1>g, <1>u DEF handle_pending_signal, BeginExit
<1>22. CASE syscall_reschedule
  BY <1>22, <1>m DEF syscall_reschedule, Suspended
<1>23. CASE eret
  BY <1>23, <1>g DEF eret
<1>24. CASE handle_irq
  <2>1. \A p \in Pids : saved'[p] = "exit" =>
          saved[p] = "exit" \/ (p = current /\ pc[current] = "exit")
    BY <1>24, <1>t DEF handle_irq
  <2> QED BY <1>24, <1>t, <1>n, <2>1, ParentMove DEF handle_irq
<1>25. CASE irq_reschedule
  BY <1>25, <1>m DEF irq_reschedule, Suspended
<1>26. CASE irq_eret
  <2>1. \A p \in Pids : saved'[p] = "exit" =>
          saved[p] = "exit" \/ (p = current /\ pc[current] = "exit")
    BY <1>26, <1>t DEF irq_eret
  <2>2. saved[current] = "exit" => parent[current] # nullptr
    BY <1>t DEF ParentInv
  <2>3. saved[current] \notin NotOnQueue
    BY <1>26, <1>t DEF irq_eret, At, IInv, IrqInv, Unlocked, NotOnQueue
  <2> QED BY <1>26, <1>t, <2>1, <2>2, <2>3, ParentMove DEF irq_eret
<1>27. CASE halt
  BY <1>27, <1>u, SMTT(40) DEF halt, vars
<1> QED
  BY <1>1, <1>2, <1>3, <1>4, <1>5, <1>6, <1>7, <1>8, <1>9, <1>10, <1>11, <1>12,
     <1>13, <1>14, <1>15, <1>16, <1>17, <1>18, <1>19, <1>20, <1>21, <1>22, <1>23,
     <1>24, <1>25, <1>26, <1>27, SMTT(40) DEF Next, KernelStep, UserStep

-----------------------------------------------------------------------------
(* The way up from a task.                                                 *)

\* A step that moves the running task and leaves every parent alone.
LEMMA TreeMove ==
  ASSUME TypeOK, TreeInv, pc[current] \notin {"none", "freed"}, NEW point, Goto(point),
         UNCHANGED parent, pc[current] \in DaemonPoints => point \in DaemonPoints
  PROVE  TreeInv'
<1>1. current \in Pids /\ pc \in [Pids -> Points]
  BY DEF TypeOK, CpuTypeOK, TaskTypeOK
<1>2. \A p \in Pids : pc'[p] = IF p = current THEN point ELSE pc[p]
  BY <1>1, SMTT(40) DEF Goto
<1>3. KTHREADD \in Pids
  BY ConstantsAssumption DEF Pids, KTHREADD
<1>4. pc'[KTHREADD] \in DaemonPoints /\ parent'[KTHREADD] = nullptr
  BY <1>2, <1>3 DEF TreeInv
<1>5. \A p \in Pids : p >= 3 /\ Exists(p)' => parent'[p] # nullptr
  BY <1>2 DEF TreeInv, Exists
<1> QED BY <1>4, <1>5, SMTT(40) DEF TreeInv

\* Every step keeps the parents leading to init.
LEMMA TreeStep ==
  ASSUME IInv, Next
  PROVE  TreeInv'
<1>t. /\ TypeOK /\ PointInv /\ ParentInv /\ TreeInv /\ current \in Pids /\ KTHREADD \in Pids
      /\ pc \in [Pids -> Points] /\ parent \in [Pids -> Pids \cup {nullptr}]
  <2>1. TypeOK /\ PointInv /\ ParentInv /\ TreeInv
    BY Zenon DEF IInv
  <2>2. KTHREADD \in Pids
    BY ConstantsAssumption DEF Pids, KTHREADD
  <2>3. current \in Pids /\ pc \in [Pids -> Points]
    BY <2>1, Zenon DEF TypeOK, CpuTypeOK, TaskTypeOK
  <2>4. parent \in [Pids -> Pids \cup {nullptr}]
    BY <2>1, Zenon DEF TypeOK, FamilyTypeOK
  <2> QED BY <2>1, <2>2, <2>3, <2>4
<1>e. pc[current] \notin {"none", "freed"}
  <2>1. OnQueue(current)
    BY <1>t, EmptySeq, SMTT(40) DEF IInv, QueueInv, CurrentIsFront, OnQueue, SeqRange, TypeOK, CpuTypeOK
  <2> QED BY <1>t, <2>1, SMTT(40) DEF IInv, QueueInv, NotOnQueue
<1>g. ASSUME NEW point, Goto(point), UNCHANGED parent,
             pc[current] \notin DaemonPoints \/ point \in DaemonPoints
      PROVE  TreeInv'
  BY <1>t, <1>e, <1>g, TreeMove
<1>s. ASSUME NEW q, NEW point, schedule(q, point), UNCHANGED parent,
             pc[current] \notin DaemonPoints \/ point \in DaemonPoints
      PROVE  TreeInv'
  BY <1>s, <1>g, Zenon DEF schedule
<1>u. ASSUME UNCHANGED <<parent, pc>> PROVE TreeInv'
  BY <1>t, <1>u DEF TreeInv, Exists
<1>m. ASSUME NEW p1, NEW p2, maybe_schedule(p1, p2), UNCHANGED parent, pc[current] \notin DaemonPoints
      PROVE  TreeInv'
  BY <1>m, <1>s, <1>g, Zenon DEF maybe_schedule
<1>1. CASE idle
  <2>1. pc[current] \notin DaemonPoints
    BY <1>1 DEF idle, At, DaemonPoints
  <2> QED BY <1>1, <2>1, <1>s DEF idle, famVars
<1>2. CASE kthreadd_yields
  BY <1>2, <1>s DEF kthreadd_yields, famVars, DaemonPoints
<1>3. CASE ReturnFromSwitch
  <2>1. pc[current] \notin DaemonPoints \/ ResumePoint(pc[current]) \in DaemonPoints
    BY <1>3 DEF ReturnFromSwitch, At, Suspended, ResumePoint, DaemonPoints
  <2> QED BY <1>3, <2>1, <1>g DEF ReturnFromSwitch, famVars
<1>4. CASE ForkOut
  BY <1>4, <1>g DEF ForkOut, At, famVars, DaemonPoints
<1>5. CASE fork
  <2>1. /\ next_pid \in Pids /\ next_pid >= 3 /\ next_pid # current /\ pc[current] = "user"
    BY <1>5, <1>t DEF fork, At, PointInv, TypeOK, FamilyTypeOK, Pids
  <2>2. current < next_pid /\ current # KTHREADD /\ current # IDLE
    BY <2>1, <1>t DEF PointInv, TreeInv, TypeOK, FamilyTypeOK, Pids, DaemonPoints, IDLE, KTHREADD
  <2>3. /\ \A p \in Pids : pc'[p] = IF p = next_pid THEN "fork_out"
                                    ELSE IF p = current THEN "sys_ret" ELSE pc[p]
        /\ \A p \in Pids : parent'[p] = IF p = next_pid THEN current ELSE parent[p]
    BY <1>5, <1>t, <2>1, ZenonT(40) DEF fork
  <2>4. pc'[KTHREADD] \in DaemonPoints /\ parent'[KTHREADD] = nullptr
    <3>1. KTHREADD # next_pid
      BY <2>1 DEF KTHREADD
    <3> QED BY <3>1, <2>2, <2>3, <1>t DEF TreeInv
  <2>5. \A p \in Pids : parent'[p] # nullptr => parent'[p] < p /\ parent'[p] \notin {IDLE, KTHREADD}
    BY <2>2, <2>3, <1>t DEF TreeInv
  <2>6. \A p \in Pids : p >= 3 /\ Exists(p)' => parent'[p] # nullptr
    <3>1. current # nullptr
      BY <1>t DEF nullptr, Pids
    <3> QED BY <3>1, <1>e, <2>3, <1>t DEF TreeInv, Exists
  <2> QED BY <2>4, <2>5, <2>6 DEF TreeInv
<1>6. CASE exec
  BY <1>6, <1>g DEF exec, At, famVars, DaemonPoints
<1>7. CASE exec_failed
  BY <1>7, <1>g, <1>u DEF exec_failed, At, famVars, DaemonPoints
<1>8. CASE wait
  <2>1. pc[current] \notin DaemonPoints \/ WaitReturn \in DaemonPoints
    BY <1>8, <1>t DEF wait, At, WaitReturn, DaemonPoints, PointInv
  <2>2. "wait" \in DaemonPoints
    BY DEF DaemonPoints
  <2> QED BY <1>8, <2>1, <2>2, <1>g DEF wait, famVars
<1>9. CASE wait_for_child
  BY <1>9, <1>s DEF wait_for_child, famVars, DaemonPoints
<1>10. CASE reap
  <2> DEFINE z == Head(terminated_children[current])
             D == Destroyed(z)
             orphans == UNION {active_children[p] : p \in D}
  <2>1. terminated_children[current] # <<>> /\ pc[current] = "wait"
    BY <1>10 DEF reap, At
  <2>2. \A p \in D : p \in Pids /\ pc[p] = "zombie"
    BY <1>t, <2>1, DestroyedAreZombies
  <2>3. /\ pc' = [[p \in Pids |-> IF p \in D THEN "freed" ELSE pc[p]] EXCEPT ![current] = WaitReturn]
        /\ parent' = [p \in Pids |-> IF p \in orphans THEN INIT
                                     ELSE IF p \in D THEN nullptr ELSE parent[p]]
    BY <1>10 DEF reap
  <2>4. \A c : c \in orphans => c \in Pids /\ parent[c] \in D
    BY <2>2, <1>t DEF ParentInv, FamilyConsistent
  <2>5. nullptr \notin Pids
    BY DEF nullptr, Pids
  <2> HIDE DEF z, D, orphans
  <2>6. /\ \A p \in Pids : pc'[p] = IF p = current THEN WaitReturn
                                    ELSE IF p \in D THEN "freed" ELSE pc[p]
        /\ \A p \in Pids : parent'[p] = IF p \in orphans THEN INIT
                                        ELSE IF p \in D THEN nullptr ELSE parent[p]
    BY <2>3, <1>t, Zenon
  <2>7. KTHREADD \notin D /\ KTHREADD \notin orphans
    <3>1. pc[KTHREADD] # "zombie" /\ parent[KTHREADD] = nullptr
      BY <1>t DEF TreeInv, DaemonPoints
    <3> QED BY <3>1, <2>2, <2>4, <2>5
  <2>8. pc'[KTHREADD] \in DaemonPoints /\ parent'[KTHREADD] = nullptr
    <3>1. current = KTHREADD => WaitReturn \in DaemonPoints
      BY DEF WaitReturn, DaemonPoints
    <3> QED BY <3>1, <2>6, <2>7, <1>t DEF TreeInv
  <2>9. ASSUME NEW p \in Pids, parent'[p] # nullptr
        PROVE  parent'[p] < p /\ parent'[p] \notin {IDLE, KTHREADD}
    <3>1. CASE p \in orphans
      <4>1. parent[p] # nullptr /\ p # IDLE /\ p # INIT
        BY <3>1, <2>2, <2>4, <2>5, <1>t DEF ParentInv
      <4>2. p > 1
        BY <4>1 DEF Pids, IDLE, INIT
      <4> QED BY <3>1, <4>2, <2>6 DEF INIT, IDLE, KTHREADD
    <3>2. CASE p \notin orphans
      BY <3>2, <2>9, <2>6, <1>t DEF TreeInv
    <3> QED BY <3>1, <3>2
  <2>10. ASSUME NEW p \in Pids, p >= 3, Exists(p)' PROVE parent'[p] # nullptr
    <3>1. p \notin D
      BY <2>1, <2>2, <2>6, <2>10 DEF Exists
    <3>2. Exists(p)
      BY <3>1, <1>e, <2>6, <2>10 DEF Exists
    <3>3. INIT # nullptr
      BY DEF INIT, nullptr
    <3> QED BY <3>1, <3>2, <3>3, <2>6, <2>10, <1>t DEF TreeInv
  <2> QED BY <2>8, <2>9, <2>10 DEF TreeInv
<1>11. CASE exit
  BY <1>11, <1>g, <1>u DEF exit, BeginExit, At, famVars, DaemonPoints
<1>12. CASE exit_locked
  <2>1. pc[current] \notin DaemonPoints
    BY <1>12 DEF exit_locked, At, DaemonPoints
  <2> QED BY <1>12, <2>1, <1>s, Zenon DEF exit_locked
<1>13. CASE sched_yield
  <2>1. pc[current] \notin DaemonPoints
    BY <1>13 DEF sched_yield, At, DaemonPoints
  <2> QED BY <1>13, <2>1, <1>s DEF sched_yield, famVars
<1>14. ASSUME NEW pid \in Pids, NEW sig \in Signals, kill(pid, sig) PROVE TreeInv'
  <2>1. pc[current] \notin DaemonPoints
    BY <1>14 DEF kill, At, DaemonPoints
  <2> QED BY <1>14, <2>1, <1>g DEF kill, famVars
<1>15. ASSUME NEW sig \in Signals, NEW set \in BOOLEAN, signal(sig, set) PROVE TreeInv'
  BY <1>15, <1>g DEF signal, At, famVars, DaemonPoints
<1>16. CASE console_read
  BY <1>16, <1>g DEF console_read, At, famVars, DaemonPoints
<1>17. CASE console_read_done
  BY <1>17, <1>g DEF console_read_done, At, famVars, DaemonPoints
<1>18. ASSUME NEW locks \in BOOLEAN, other_syscall(locks) PROVE TreeInv'
  BY <1>18, <1>g DEF other_syscall, At, famVars, DaemonPoints
<1>19. CASE page_fault
  BY <1>19, <1>g DEF page_fault, At, famVars, DaemonPoints
<1>20. CASE syscall_ret
  BY <1>20, <1>g DEF syscall_ret, At, famVars, DaemonPoints
<1>21. CASE handle_pending_signal
  BY <1>21, <1>g, <1>u DEF handle_pending_signal, BeginExit, At, famVars, DaemonPoints
<1>22. CASE syscall_reschedule
  BY <1>22, <1>m DEF syscall_reschedule, At, famVars, DaemonPoints
<1>23. CASE eret
  BY <1>23, <1>g DEF eret, At, famVars, DaemonPoints
<1>24. CASE handle_irq
  <2>1. pc[current] \notin DaemonPoints
    BY <1>24 DEF handle_irq, IInv, IrqInv, Unlocked, DaemonPoints
  <2> QED BY <1>24, <2>1, <1>g DEF handle_irq, famVars
<1>25. CASE irq_reschedule
  BY <1>25, <1>m DEF irq_reschedule, At, famVars, DaemonPoints
<1>26. CASE irq_eret
  BY <1>26, <1>g DEF irq_eret, At, famVars, DaemonPoints
<1>27. CASE halt
  BY <1>27, <1>u, SMTT(40) DEF halt, vars, famVars
<1> QED
  BY <1>1, <1>2, <1>3, <1>4, <1>5, <1>6, <1>7, <1>8, <1>9, <1>10, <1>11, <1>12,
     <1>13, <1>14, <1>15, <1>16, <1>17, <1>18, <1>19, <1>20, <1>21, <1>22, <1>23,
     <1>24, <1>25, <1>26, <1>27, SMTT(40) DEF Next, KernelStep, UserStep

\* What closed sets under a relation are for: the least one holds its root, is
\* closed, and lies inside every other.
LEMMA ClosureFacts ==
  ASSUME NEW root \in Pids, NEW succ, \A q \in Pids : succ[q] \subseteq Pids
  PROVE  /\ Closure(root, succ) \subseteq Pids /\ root \in Closure(root, succ)
         /\ \A q \in Closure(root, succ) : succ[q] \subseteq Closure(root, succ)
         /\ \A S \in SUBSET Pids : root \in S /\ (\A q \in S : succ[q] \subseteq S)
                                     => Closure(root, succ) \subseteq S
<1> DEFINE C == Closure(root, succ)
<1>1. C = {p \in Pids : \A S \in SUBSET Pids :
             root \in S /\ (\A q \in S : succ[q] \subseteq S) => p \in S}
  BY DEF Closure
<1> HIDE DEF C
<1>2. C \subseteq Pids /\ root \in C
  BY <1>1
<1>3. \A S \in SUBSET Pids : root \in S /\ (\A q \in S : succ[q] \subseteq S) => C \subseteq S
  BY <1>1
<1>4. ASSUME NEW q \in C, NEW c \in succ[q] PROVE c \in C
  <2>1. c \in Pids
    BY <1>2
  <2> SUFFICES ASSUME NEW S \in SUBSET Pids, root \in S, \A r \in S : succ[r] \subseteq S
               PROVE  c \in S
    BY <1>1, <2>1
  <2> QED BY <1>3
<1> QED BY <1>2, <1>3, <1>4 DEF C

\* The tree of active children is searched from init down; going up from a task
\* that can run, the way leads to init or to a zombie.
LEMMA FoundOrOrphaned == IInv => RunnableIsFound
<1> SUFFICES ASSUME IInv PROVE RunnableIsFound
  OBVIOUS
<1> DEFINE up == [p \in Pids |-> IF parent[p] \in Pids THEN {parent[p]} ELSE {}]
           Above(p) == Closure(p, up)
           Tree == Closure(INIT, active_children)
           Lost == {p \in Pids \ {IDLE, INIT, KTHREADD} :
                      /\ OnQueue(p) /\ p \notin Tree
                      /\ ~ \E a \in Above(p) : pc[a] = "zombie"}
<1>1. INIT \in Pids /\ INIT = 1 /\ IDLE = 0 /\ KTHREADD = 2 /\ Pids \subseteq Nat
  BY ConstantsAssumption DEF Pids, INIT, IDLE, KTHREADD
<1>2. \A q \in Pids : up[q] \subseteq Pids
  OBVIOUS
<1>3. TypeOK /\ QueueInv /\ ParentInv /\ TreeInv
  BY DEF IInv
<1>4. /\ active_children \in [Pids -> SUBSET Pids] /\ parent \in [Pids -> Pids \cup {nullptr}]
  BY <1>3 DEF TypeOK, FamilyTypeOK
<1>5. INIT \in Tree /\ \A q \in Tree : active_children[q] \subseteq Tree
  BY <1>1, <1>4, ClosureFacts
<1>6. \A p \in Pids : up[p] = IF parent[p] \in Pids THEN {parent[p]} ELSE {}
  OBVIOUS
<1> HIDE DEF up, Tree
<1>7. ASSUME NEW p \in Pids PROVE p \in Above(p) /\ up[p] \subseteq Above(p)
  BY <1>2, ClosureFacts
<1>8. ASSUME NEW p \in Pids, NEW q \in up[p] PROVE Above(q) \subseteq Above(p)
  <2>1. q \in Pids /\ Above(p) \in SUBSET Pids /\ q \in Above(p)
    BY <1>2, <1>8, ClosureFacts
  <2>2. \A r \in Above(p) : up[r] \subseteq Above(p)
    BY <1>2, ClosureFacts
  <2> QED BY <1>2, <2>1, <2>2, ClosureFacts
<1> HIDE DEF Above
<1>9. Lost = {}
  <2> SUFFICES ASSUME Lost # {} PROVE FALSE
    OBVIOUS
  <2>1. Lost \in SUBSET Nat
    <3>1. Lost \subseteq Pids
      BY Zenon
    <3> HIDE DEF Lost
    <3> QED BY <1>1, <3>1
  <2>2. PICK p \in Lost : \A m \in Lost : p <= m
    <3> HIDE DEF Lost
    <3> QED BY <2>1, Least
  <2> DEFINE q == parent[p]
  <2>3. p \in Pids /\ p >= 3 /\ OnQueue(p) /\ Exists(p) /\ pc[p] # "zombie"
    BY <1>1, <1>3, <2>2 DEF QueueInv, NotOnQueue, Exists
  <2>4. q \in Pids /\ q < p /\ q # IDLE /\ q # KTHREADD /\ Exists(q)
    BY <1>3, <1>4, <2>3 DEF TreeInv, ParentInv, FamilyConsistent
  <2>5. q \in up[p] /\ p \in active_children[q]
    BY <1>3, <1>6, <2>3, <2>4 DEF ParentInv, FamilyConsistent
  <2> HIDE DEF q
  <2>6. pc[q] # "zombie"
    BY <1>7, <2>2, <2>3, <2>5
  <2>7. q \notin Tree
    BY <1>5, <2>2, <2>5
  <2>8. OnQueue(q) /\ q # INIT
    BY <1>3, <1>5, <2>4, <2>6, <2>7 DEF QueueInv, NotOnQueue, Exists
  <2>9. ~ \E a \in Above(q) : pc[a] = "zombie"
    BY <1>8, <2>2, <2>3, <2>5
  <2>10. q \in Lost
    BY <2>4, <2>7, <2>8, <2>9
  <2> QED BY <1>1, <2>2, <2>3, <2>4, <2>10
<1>10. ASSUME NEW p \in Pids \ {IDLE, INIT, KTHREADD}, OnQueue(p)
       PROVE  found_by_pid(p) \/ \E a \in Closure(p, up) : pc[a] = "zombie"
  BY <1>9, <1>10 DEF found_by_pid, Tree, Above
<1> QED BY <1>10 DEF RunnableIsFound, up

-----------------------------------------------------------------------------
(* The nesting counter, and the invariant as a whole.                      *)

\* What task p, when it is at point x, adds to the lower bound of DepthInv ...
Weight(p, x) == IF x = "wait_sw" THEN (IF p >= 3 THEN 1 ELSE 2)
                ELSE IF p < 3 /\ x \in Suspended \cup {"wait"} THEN 1 ELSE 0

\* ... and what it takes from it while it runs.
Debt(p, x) == IF p >= 3 /\ x \notin Suspended \cup {"fork_out", "wait"} THEN 1 ELSE 0

\* Points that neither hold a guard nor owe one.
Idle3 == {"none", "zombie", "freed", "fork_out"}

\* A step that moves no other task between points that hold or owe a guard.
OnlyCurrentMoves ==
  \A p \in Pids : p # current => pc'[p] = pc[p] \/ {pc[p], pc'[p]} \subseteq Idle3

\* A step in which the counter changes by no less than what the running task
\* holds and owes.
CounterCovers ==
  depth' >= depth + Weight(current, pc'[current]) - Weight(current, pc[current])
              + Debt(current, pc[current])
              - (IF current' = current THEN Debt(current, pc'[current]) ELSE 0)
              + (IF pc[current] = "start_init" THEN 1 ELSE 0)

\* What a task holds and owes is a number, at whatever point it is.
LEMMA HeldType ==
  ASSUME NEW p, NEW x
  PROVE  /\ Held(p) \in Int /\ Held(p)' \in Int
         /\ Weight(p, x) \in Int /\ Debt(p, x) \in Int
BY DEF Held, Weight, Debt

\* The tasks in Waiting after a step that moves only the running task.
LEMMA WaitingStep ==
  ASSUME TypeOK, OnlyCurrentMoves
  PROVE  /\ Cardinality(Waiting) \in Nat /\ Cardinality(Waiting') \in Nat
         /\ current < 3 => Cardinality(Waiting') = Cardinality(Waiting)
         /\ current >= 3 => Cardinality(Waiting') =
              Cardinality(Waiting) + Weight(current, pc'[current]) - Weight(current, pc[current])
<1> USE ConstantsAssumption
<1>1. current \in Pids /\ current \in Int
  BY DEF TypeOK, CpuTypeOK, Pids
<1>2. IsFiniteSet(Waiting) /\ IsFiniteSet(Waiting')
  <2>1. IsFiniteSet(3..MaxPid)
    <3>1. 3 \in Int /\ MaxPid \in Int
      OBVIOUS
    <3> QED BY <3>1, FS_Interval
  <2>2. Waiting \subseteq 3..MaxPid /\ Waiting' \subseteq 3..MaxPid
    BY DEF Waiting
  <2> QED BY <2>1, <2>2, FS_Subset, Zenon
<1>3. Cardinality(Waiting) \in Nat /\ Cardinality(Waiting') \in Nat
  BY <1>2, FS_CardinalityType
<1>4. \A p \in 3..MaxPid : p # current => (p \in Waiting' <=> p \in Waiting)
  <2> SUFFICES ASSUME NEW p \in 3..MaxPid, p # current
               PROVE  pc'[p] = "wait_sw" <=> pc[p] = "wait_sw"
    BY DEF Waiting
  <2>1. p \in Pids
    BY DEF Pids
  <2> QED BY <2>1 DEF OnlyCurrentMoves, Idle3
<1>5. Waiting \subseteq 3..MaxPid /\ Waiting' \subseteq 3..MaxPid
  BY DEF Waiting
<1>6. CASE current < 3
  <2>1. Waiting' = Waiting
    <3>0. \A p \in 3..MaxPid : p # current
      BY <1>1, <1>6
    <3>1. \A p : p \in Waiting' <=> p \in Waiting
      BY <3>0, <1>4, <1>5, Zenon
    <3> QED BY <3>1
  <2> QED BY <2>1, <1>1, <1>3, <1>6
<1>7. CASE current >= 3
  <2>a. current \in 3..MaxPid
    BY <1>1, <1>7 DEF Pids
  <2>b. /\ current \in Waiting <=> pc[current] = "wait_sw"
        /\ current \in Waiting' <=> pc'[current] = "wait_sw"
    BY <2>a DEF Waiting
  <2>c. \A x : Weight(current, x) = IF x = "wait_sw" THEN 1 ELSE 0
    BY <1>1, <1>7 DEF Weight
  <2>1. CASE pc[current] = "wait_sw" <=> pc'[current] = "wait_sw"
    <3>1. Waiting' = Waiting
      <4>1. \A p : p \in Waiting' <=> p \in Waiting
        BY <1>4, <1>5, <2>b, <2>1, Zenon
      <4> QED BY <4>1
    <3> QED BY <3>1, <1>1, <1>3, <1>7, <2>1, <2>c
  <2>2. CASE pc[current] # "wait_sw" /\ pc'[current] = "wait_sw"
    <3>1. Waiting' = Waiting \cup {current} /\ current \notin Waiting
      <4>1. \A p : p \in Waiting' <=> p \in Waiting \cup {current}
        BY <1>4, <1>5, <2>a, <2>b, <2>2, Zenon
      <4> QED BY <4>1, <2>b, <2>2
    <3>2. Cardinality(Waiting') = Cardinality(Waiting) + 1
      BY <3>1, <1>2, FS_AddElement
    <3> QED BY <3>2, <1>1, <1>3, <1>7, <2>2, <2>c
  <2>3. CASE pc[current] = "wait_sw" /\ pc'[current] # "wait_sw"
    <3>1. Waiting' = Waiting \ {current} /\ current \in Waiting
      <4>1. \A p : p \in Waiting' <=> p \in Waiting \ {current}
        BY <1>4, <1>5, <2>a, <2>b, <2>3, ZenonT(40)
      <4> QED BY <4>1, <2>b, <2>3
    <3>2. Cardinality(Waiting') = Cardinality(Waiting) - 1
      BY <3>1, <1>2, FS_RemoveElement
    <3> QED BY <3>2, <1>1, <1>3, <1>7, <2>3, <2>c
  <2> QED BY <2>1, <2>2, <2>3, <1>1, <1>7
<1> QED BY <1>1, <1>3, <1>6, <1>7

\* Such a step keeps the bound, if the next task to run is suspended or new.
LEMMA DepthMove ==
  ASSUME TypeOK, DepthInv, PointInv, TypeOK', PointInv', OnlyCurrentMoves, CounterCovers,
         current' = current \/ pc'[current'] \in Suspended \cup Fresh,
         pc'[current] # "start_init"
  PROVE  DepthInv'
<1> USE ConstantsAssumption
<1>1. /\ current \in Pids /\ current \in Int /\ current' \in Pids /\ current' \in Int
      /\ depth \in Int /\ depth' \in Int
      /\ IDLE \in Pids /\ INIT \in Pids /\ KTHREADD \in Pids
  BY DEF TypeOK, CpuTypeOK, Pids, IDLE, INIT, KTHREADD
<1>2. /\ Cardinality(Waiting) \in Nat /\ Cardinality(Waiting') \in Nat
      /\ current < 3 => Cardinality(Waiting') = Cardinality(Waiting)
      /\ current >= 3 => Cardinality(Waiting') =
           Cardinality(Waiting) + Weight(current, pc'[current]) - Weight(current, pc[current])
  BY WaitingStep, SMTT(40)
<1>3. \A p \in {IDLE, INIT, KTHREADD} :
        /\ Held(p) \in Int /\ Held(p)' \in Int
        /\ p # current => Held(p)' = Held(p)
        /\ p = current => Held(p) = Weight(current, pc[current])
                          /\ Held(p)' = Weight(current, pc'[current])
  <2> SUFFICES ASSUME NEW p \in {IDLE, INIT, KTHREADD}
               PROVE  /\ Held(p) \in Int /\ Held(p)' \in Int
                      /\ p # current => Held(p)' = Held(p)
                      /\ p = current => Held(p) = Weight(current, pc[current])
                                        /\ Held(p)' = Weight(current, pc'[current])
    OBVIOUS
  <2>1. p \in Pids /\ p < 3 /\ p \in Int
    BY <1>1 DEF IDLE, INIT, KTHREADD
  <2>2. Held(p) \in Int /\ Held(p)' \in Int
    BY HeldType, Zenon
  <2>3. ASSUME p # current PROVE Held(p)' = Held(p)
    <3>0. pc'[p] = pc[p] \/ {pc[p], pc'[p]} \subseteq Idle3
      BY <2>1, <2>3 DEF OnlyCurrentMoves
    <3>1. CASE pc'[p] = pc[p]
      BY <3>1 DEF Held
    <3>2. CASE {pc[p], pc'[p]} \subseteq Idle3
      BY <3>2 DEF Held, Idle3, Suspended
    <3> QED BY <3>0, <3>1, <3>2, Zenon
  <2>4. ASSUME p = current
        PROVE  Held(p) = Weight(current, pc[current]) /\ Held(p)' = Weight(current, pc'[current])
    BY <2>1, <2>4 DEF Held, Weight
  <2> QED BY <2>2, <2>3, <2>4, Zenon
<1>4. Short = Debt(current, pc[current]) /\ Short \in Int
  BY HeldType DEF Short, Debt
<1>5. Short' = IF current' = current THEN Debt(current, pc'[current]) ELSE 0
  <2>1. CASE current' = current
    BY <2>1 DEF Short, Debt
  <2>2. CASE current' # current
    <3>1. pc'[current'] \in Suspended \cup Fresh
      BY <2>2, SMTT(40)
    <3>2. pc'[current'] \in {"start_init", "kthreadd"} => current' < 3
      BY <1>1, SMTT(40) DEF PointInv, INIT, KTHREADD
    <3> QED BY <1>1, <2>2, <3>1, <3>2, SMTT(40) DEF Short, Fresh
  <2> QED BY <2>1, <2>2
<1>6. Leaked' = Leaked + (IF pc[current] = "start_init" THEN 1 ELSE 0) /\ Leaked \in Int
  <2>1. CASE current = INIT
    BY <2>1, SMTT(40) DEF Leaked
  <2>2. CASE current # INIT
    <3>1. pc[current] # "start_init"
      BY <1>1, <2>2, SMTT(40) DEF PointInv
    <3>2. pc'[INIT] = "start_init" <=> pc[INIT] = "start_init"
      BY <1>1, <2>2, SMTT(40) DEF OnlyCurrentMoves, Idle3
    <3> QED BY <3>1, <3>2, SMTT(40) DEF Leaked
  <2> QED BY <2>1, <2>2, SMTT(40)
<1>7. Debt(current, pc'[current]) \in Int /\ Weight(current, pc'[current]) \in Int
      /\ Weight(current, pc[current]) \in Int
  BY HeldType, Zenon
<1>8. depth >= Leaked + Held(IDLE) + Held(INIT) + Held(KTHREADD) + Cardinality(Waiting) - Short
  BY SMTT(40) DEF DepthInv
<1>9. SUFFICES depth' >= Leaked' + Held(IDLE)' + Held(INIT)' + Held(KTHREADD)'
                           + Cardinality(Waiting') - Short'
  BY DEF DepthInv
<1>10. current >= 3 => current # IDLE /\ current # INIT /\ current # KTHREADD
  BY DEF IDLE, INIT, KTHREADD
<1>11. IDLE # INIT /\ IDLE # KTHREADD /\ INIT # KTHREADD
  BY DEF IDLE, INIT, KTHREADD
<1>12. current < 3 => current \in {IDLE, INIT, KTHREADD}
  BY <1>1, SMTT(40) DEF IDLE, INIT, KTHREADD, Pids
<1> HIDE DEF Short, Leaked, Held, Waiting, Weight, Debt, IDLE, INIT, KTHREADD
<1>13. Held(IDLE)' + Held(INIT)' + Held(KTHREADD)' + Cardinality(Waiting') =
         Held(IDLE) + Held(INIT) + Held(KTHREADD) + Cardinality(Waiting)
           + Weight(current, pc'[current]) - Weight(current, pc[current])
  <2>1. CASE current >= 3
    BY <2>1, <1>1, <1>2, <1>3, <1>7, <1>10, SMTT(40)
  <2>2. CASE current < 3
    BY <2>2, <1>1, <1>2, <1>3, <1>7, <1>11, <1>12, SMTT(40)
  <2> QED BY <2>1, <2>2, <1>1, SMTT(40)
<1>14. Held(IDLE) \in Int /\ Held(INIT) \in Int /\ Held(KTHREADD) \in Int
       /\ Held(IDLE)' \in Int /\ Held(INIT)' \in Int /\ Held(KTHREADD)' \in Int
  BY HeldType, Zenon
<1> QED BY <1>1, <1>2, <1>4, <1>5, <1>6, <1>7, <1>8, <1>13, <1>14, SMTT(40) DEF CounterCovers

\* Every step keeps the lower bound.
LEMMA DepthStep ==
  ASSUME IInv, Next, TypeOK', PointInv'
  PROVE  DepthInv'
<1> USE ConstantsAssumption
<1>t. TypeOK /\ QueueInv /\ PointInv /\ ParentInv /\ IrqInv /\ DepthInv
  BY DEF IInv
<1>c. /\ current \in Pids /\ current \in Int /\ depth \in Int /\ depth' \in Int
      /\ pc \in [Pids -> Points] /\ runqueue \in Seq(Pids) /\ runqueue # <<>>
  BY <1>t DEF TypeOK, CpuTypeOK, TaskTypeOK, QueueInv, CurrentIsFront, Pids
<1> DEFINE Plain == {"user", "fault", "read", "exit", "sys_ret", "sys_sig", "irq_tick",
                     "irq_ret", "eret", "idle", "kthreadd", "kthreadd_yield"}
\* moves of a task that keeps the core
<1>o. ASSUME NEW point, Goto(point), UNCHANGED current
      PROVE  /\ pc'[current] = point
             /\ OnlyCurrentMoves
  BY <1>c, <1>o DEF Goto, OnlyCurrentMoves
<1>p. ASSUME NEW point, Goto(point), UNCHANGED current, depth' >= depth,
             point \in Plain, pc[current] \in Plain
      PROVE  DepthInv'
  <2>1. Weight(current, point) = 0 /\ Weight(current, pc[current]) = 0
        /\ Debt(current, point) = Debt(current, pc[current]) /\ Debt(current, point) \in Int
        /\ pc[current] # "start_init" /\ point # "start_init"
    BY <1>p DEF Weight, Debt, Suspended
  <2> HIDE DEF Plain
  <2>2. pc'[current] = point /\ OnlyCurrentMoves
    BY <1>o, <1>p, Zenon
  <2>3. CounterCovers
    BY <1>c, <1>p, <2>1, <2>2, SMTT(40) DEF CounterCovers
  <2> QED BY <1>t, <1>p, <2>1, <2>2, <2>3, DepthMove, Zenon
<1>u. ASSUME UNCHANGED <<pc, current, depth>> PROVE DepthInv'
  BY <1>t, <1>u DEF DepthInv, Leaked, Held, Waiting, Short
<1>k. /\ LockedSection => depth' >= depth
      /\ Lock(1) => depth' = depth + 1
      /\ Lock(2) => depth' = depth + 2
      /\ Unlock => depth' = depth - 1
  BY <1>c, SMTT(40) DEF LockedSection, Lock, Unlock
\* moves of a task that gives up the core
<1>s. ASSUME NEW point \in Suspended, schedule(runqueue, point), Lock(1),
             pc[current] \in Plain \cup {"wait"}, pc[current] = "wait" <=> point = "wait_sw"
      PROVE  DepthInv'
  <2>1. /\ pc' = [pc EXCEPT ![current] = point] /\ point \in Points
        /\ SeqRange(runqueue') = SeqRange(runqueue) /\ current' = Head(runqueue')
        /\ runqueue' \in Seq(Pids) /\ runqueue' # <<>>
    <3>1. point \in Points
      BY PointFacts
    <3> QED BY <1>s, <1>c, <1>t, <3>1, ScheduleFacts
  <2>2. pc'[current] = point /\ \A p \in Pids : p # current => pc'[p] = pc[p]
    BY <2>1, <1>c
  <2>3. current' \in Pids /\ OnQueue(current')
    <3>1. Head(runqueue') \in SeqRange(runqueue')
      BY <2>1, HeadTailProperties, EmptySeq DEF SeqRange
    <3> QED BY <3>1, <2>1, SMTT(40) DEF OnQueue, SeqRange
  <2>4. current' # current => pc'[current'] \in Suspended \cup Fresh
    BY <2>2, <2>3, <1>t, SMTT(40) DEF PointInv, QueueInv
  <2>5. /\ Weight(current, point) - Weight(current, pc[current]) + Debt(current, pc[current]) = 1
        /\ Debt(current, point) = 0 /\ pc[current] # "start_init" /\ point # "start_init"
        /\ Weight(current, point) \in Int /\ Weight(current, pc[current]) \in Int
        /\ Debt(current, pc[current]) \in Int
    BY <1>s, <1>c DEF Weight, Debt, Suspended
  <2> HIDE DEF Plain
  <2>6. OnlyCurrentMoves
    BY <2>2, Zenon DEF OnlyCurrentMoves
  <2>7. CounterCovers
    BY <1>c, <1>k, <1>s, <2>2, <2>5, SMTT(40) DEF CounterCovers
  <2> QED BY <1>t, <2>2, <2>4, <2>5, <2>6, <2>7, DepthMove, Zenon
<1>1. CASE idle
  BY <1>1, <1>s DEF idle, At, Suspended
<1>2. CASE kthreadd_yields
  BY <1>2, <1>s DEF kthreadd_yields, At, Suspended
<1>3. CASE ReturnFromSwitch
  <2> DEFINE a == pc[current]
             b == ResumePoint(a)
  <2>1. Goto(b) /\ a \in Suspended /\ UNCHANGED current /\ depth' = depth - 1
    BY <1>3, <1>k DEF ReturnFromSwitch, At
  <2>2. /\ Weight(current, b) - Weight(current, a) - Debt(current, b) = -1
        /\ Debt(current, a) = 0 /\ a # "start_init" /\ b # "start_init"
        /\ Weight(current, b) \in Int /\ Weight(current, a) \in Int /\ Debt(current, b) \in Int
    BY <2>1, <1>c, SMTT(40) DEF Weight, Debt, Suspended, ResumePoint
  <2> HIDE DEF b
  <2>3. pc'[current] = b /\ OnlyCurrentMoves
    BY <1>o, <2>1, Zenon
  <2>4. CounterCovers
    BY <1>c, <2>1, <2>2, <2>3, SMTT(40) DEF CounterCovers
  <2> QED BY <1>t, <2>1, <2>2, <2>3, <2>4, DepthMove, Zenon
<1>4. CASE ForkOut
  <2>1. Goto("sys_ret") /\ pc[current] = "fork_out" /\ UNCHANGED current /\ depth' = depth - 1
    BY <1>4, <1>k, SMTT(40) DEF ForkOut, At
  <2>2. current >= 3
    BY <1>c, <1>t, <2>1 DEF PointInv
  <2>3. /\ Weight(current, "sys_ret") = 0 /\ Weight(current, "fork_out") = 0
        /\ Debt(current, "sys_ret") = 1 /\ Debt(current, "fork_out") = 0
    BY <2>2, <1>c, SMTT(40) DEF Weight, Debt, Suspended
  <2>4. pc'[current] = "sys_ret" /\ OnlyCurrentMoves
    BY <1>o, <2>1, Zenon
  <2>5. CounterCovers
    BY <1>c, <2>1, <2>3, <2>4, SMTT(40) DEF CounterCovers
  <2> QED BY <1>t, <2>1, <2>4, <2>5, DepthMove, Zenon
<1>5. CASE fork
  <2>1. /\ next_pid \in Pids /\ next_pid # current /\ pc[next_pid] = "none" /\ pc[current] = "user"
        /\ UNCHANGED current /\ LockedSection
        /\ pc' = [pc EXCEPT ![current] = "sys_ret", ![next_pid] = "fork_out"]
    <3>1. /\ pc[current] \in {"user"} /\ next_pid <= MaxPid /\ UNCHANGED current /\ LockedSection
          /\ pc' = [pc EXCEPT ![current] = "sys_ret", ![next_pid] = "fork_out"]
      BY <1>5, Zenon DEF fork, At
    <3>2. next_pid \in Pids
      BY <1>t, <3>1 DEF TypeOK, FamilyTypeOK, Pids
    <3>3. pc[next_pid] = "none"
      BY <1>t, <3>2 DEF PointInv, Pids
    <3> QED BY <3>1, <3>2, <3>3
  <2>2. pc'[current] = "sys_ret" /\ OnlyCurrentMoves
    BY <2>1, <1>c DEF OnlyCurrentMoves, Idle3
  <2>3. /\ Weight(current, "sys_ret") = 0 /\ Weight(current, "user") = 0
        /\ Debt(current, "sys_ret") = Debt(current, "user") /\ Debt(current, "user") \in Int
    BY DEF Weight, Debt, Suspended
  <2>4. CounterCovers
    BY <1>c, <1>k, <2>1, <2>2, <2>3, SMTT(40) DEF CounterCovers
  <2> QED BY <1>t, <2>1, <2>2, <2>4, DepthMove, Zenon
<1>6. CASE exec
  <2>1. /\ Goto("user") /\ pc[current] \in {"user", "start_init"} /\ UNCHANGED current
        /\ depth' = depth + 1
    BY <1>6 DEF exec, At
  <2>2. pc[current] = "start_init" => current < 3
    BY <1>c, <1>t DEF PointInv, INIT
  <2>3. /\ Weight(current, "user") = 0 /\ Weight(current, pc[current]) = 0
        /\ Debt(current, "user") = Debt(current, pc[current]) /\ Debt(current, "user") \in Int
    BY <1>c, <2>1, <2>2 DEF Weight, Debt, Suspended
  <2>4. pc'[current] = "user" /\ OnlyCurrentMoves
    BY <1>o, <2>1, Zenon
  <2>5. CounterCovers
    BY <1>c, <2>1, <2>3, <2>4, SMTT(40) DEF CounterCovers
  <2> QED BY <1>t, <2>1, <2>4, <2>5, DepthMove, Zenon
<1>7. CASE exec_failed
  BY <1>7, <1>c, <1>k, <1>p, <1>u DEF exec_failed, At
<1>8. CASE wait
  <2>1. CASE Goto(WaitReturn) /\ LockedSection
    <3>1. WaitReturn \in Plain
      BY SMTT(40) DEF WaitReturn
    <3> QED BY <1>8, <1>k, <1>p, <2>1, <3>1 DEF wait, At
  <2>2. CASE Goto("wait") /\ Lock(1)
    <3>1. pc[current] \in {"user", "kthreadd"} /\ UNCHANGED current /\ depth' = depth + 1
      BY <1>8, <1>k, <2>2, SMTT(40) DEF wait, At
    <3>2. /\ Weight(current, "wait") + Debt(current, pc[current]) = 1
          /\ Weight(current, pc[current]) = 0 /\ Debt(current, "wait") = 0
          /\ pc[current] # "start_init" /\ "wait" # "start_init"
          /\ Weight(current, "wait") \in Int /\ Debt(current, pc[current]) \in Int
      BY <1>c, <3>1, SMTT(40) DEF Weight, Debt, Suspended
    <3>3. pc'[current] = "wait" /\ OnlyCurrentMoves
      BY <1>o, <2>2, <3>1, Zenon
    <3>4. CounterCovers
      BY <1>c, <3>1, <3>2, <3>3, SMTT(40) DEF CounterCovers
    <3> QED BY <1>t, <3>1, <3>2, <3>3, <3>4, DepthMove, Zenon
  <2> QED BY <1>8, <2>1, <2>2, SMTT(40) DEF wait
<1>9. CASE wait_for_child
  BY <1>9, <1>s, ZenonT(40) DEF wait_for_child, At, Suspended
<1>10. CASE reap
  <2> DEFINE D == Destroyed(Head(terminated_children[current]))
  <2>1. /\ pc[current] = "wait" /\ UNCHANGED current /\ depth' = depth - 1
        /\ terminated_children[current] # <<>>
        /\ pc' = [[p \in Pids |-> IF p \in D THEN "freed" ELSE pc[p]] EXCEPT ![current] = WaitReturn]
    BY <1>10, <1>k, ZenonT(40) DEF reap, At
  <2>2. \A p \in D : p \in Pids /\ pc[p] = "zombie"
    BY <1>t, <2>1, DestroyedAreZombies
  <2> HIDE DEF D
  <2>3. pc'[current] = WaitReturn /\ OnlyCurrentMoves
    BY <1>c, <2>1, <2>2, SMTT(40) DEF OnlyCurrentMoves, Idle3
  <2>4. /\ Weight(current, WaitReturn) - Weight(current, "wait") - Debt(current, WaitReturn) = -1
        /\ Debt(current, "wait") = 0 /\ WaitReturn # "start_init"
        /\ Weight(current, WaitReturn) \in Int /\ Weight(current, "wait") \in Int
        /\ Debt(current, WaitReturn) \in Int
    BY <1>c DEF Weight, Debt, WaitReturn, Suspended
  <2>5. CounterCovers
    BY <1>c, <2>1, <2>3, <2>4, SMTT(40) DEF CounterCovers
  <2> QED BY <1>t, <2>1, <2>3, <2>4, <2>5, DepthMove, Zenon
<1>11. CASE exit
  BY <1>11, <1>c, <1>p, <1>u, SMTT(40) DEF exit, BeginExit, At
<1>12. CASE exit_locked
  <2>1. /\ pc[current] = "exit" /\ schedule(remove_task(runqueue, current), "zombie")
        /\ depth' = depth + 2
    BY <1>12, <1>k, Zenon DEF exit_locked, At
  <2>2. /\ remove_task(runqueue, current) = Tail(runqueue)
        /\ Tail(runqueue) \in Seq(Pids) /\ Tail(runqueue) # <<>>
        /\ SeqRange(Tail(runqueue)) = SeqRange(runqueue) \ {current}
    BY <1>t, <2>1, RemoveCurrent
  <2>3. /\ runqueue' \in Seq(Pids) /\ runqueue' # <<>> /\ current' = Head(runqueue')
        /\ SeqRange(runqueue') = SeqRange(runqueue) \ {current}
        /\ pc' = [pc EXCEPT ![current] = "zombie"]
    <3>1. "zombie" \in Points
      BY PointFacts
    <3> QED BY <1>t, <2>1, <2>2, <3>1, ScheduleFacts, Zenon
  <2>4. current' \in Pids /\ OnQueue(current') /\ current' # current
    <3>1. Head(runqueue') \in SeqRange(runqueue')
      BY <2>3, HeadTailProperties, EmptySeq DEF SeqRange
    <3>2. Head(runqueue') \in Pids
      BY <2>3
    <3> QED BY <3>1, <3>2, <2>3 DEF OnQueue
  <2>5. pc'[current'] \in Suspended \cup Fresh
    BY <2>3, <2>4, <1>c, <1>t DEF PointInv, QueueInv
  <2>6. /\ Weight(current, "zombie") = 0 /\ Weight(current, "exit") = 0
        /\ Debt(current, "exit") \in {0, 1}
    BY DEF Weight, Debt, Suspended
  <2>7. pc'[current] = "zombie" /\ OnlyCurrentMoves
    BY <1>c, <2>3 DEF OnlyCurrentMoves
  <2>8. CounterCovers
    BY <1>c, <2>1, <2>4, <2>6, <2>7, SMTT(40) DEF CounterCovers
  <2> QED BY <1>t, <2>5, <2>7, <2>8, DepthMove, Zenon
<1>13. CASE sched_yield
  BY <1>13, <1>s DEF sched_yield, At, Suspended
<1>14. ASSUME NEW pid \in Pids, NEW sig \in Signals, kill(pid, sig) PROVE DepthInv'
  BY <1>14, <1>k, <1>p DEF kill, At
<1>15. ASSUME NEW sig \in Signals, NEW set \in BOOLEAN, signal(sig, set) PROVE DepthInv'
  BY <1>15, <1>k, <1>p DEF signal, At
<1>16. CASE console_read
  BY <1>16, <1>c, <1>p DEF console_read, At, cpuVars
<1>17. CASE console_read_done
  BY <1>17, <1>c, <1>p DEF console_read_done, At, cpuVars
<1>18. ASSUME NEW locks \in BOOLEAN, other_syscall(locks) PROVE DepthInv'
  <2>1. depth' >= depth
    BY <1>18, <1>c, <1>k DEF other_syscall
  <2> QED BY <1>18, <1>p, <2>1 DEF other_syscall, At
<1>19. CASE page_fault
  BY <1>19, <1>c, <1>p DEF page_fault, At, cpuVars
<1>20. CASE syscall_ret
  BY <1>20, <1>c, <1>p, SMTT(40) DEF syscall_ret, At
<1>21. CASE handle_pending_signal
  BY <1>21, <1>c, <1>p, <1>u, SMTT(40) DEF handle_pending_signal, BeginExit, At
<1>22. CASE syscall_reschedule
  BY <1>22, <1>c, <1>p, <1>s DEF syscall_reschedule, maybe_schedule, At, Suspended
<1>23. CASE eret
  BY <1>23, <1>c, <1>p DEF eret, At
<1>24. CASE handle_irq
  <2>1. pc[current] \in Plain
    BY <1>24, <1>t DEF handle_irq, IrqInv, Unlocked
  <2> QED BY <1>24, <1>c, <1>p, <2>1, SMTT(40) DEF handle_irq
<1>25. CASE irq_reschedule
  BY <1>25, <1>c, <1>p, <1>s DEF irq_reschedule, maybe_schedule, At, Suspended
<1>26. CASE irq_eret
  <2>1. saved[current] \in Plain /\ pc[current] \in Plain
    BY <1>26, <1>c, <1>t DEF irq_eret, At, IrqInv, Unlocked
  <2> QED BY <1>26, <1>c, <1>p, <2>1, SMTT(40) DEF irq_eret
<1>27. CASE halt
  BY <1>27, <1>u DEF halt, vars, cpuVars
<1> QED
  BY <1>1, <1>2, <1>3, <1>4, <1>5, <1>6, <1>7, <1>8, <1>9, <1>10, <1>11, <1>12,
     <1>13, <1>14, <1>15, <1>16, <1>17, <1>18, <1>19, <1>20, <1>21, <1>22, <1>23,
     <1>24, <1>25, <1>26, <1>27, SMTT(40) DEF Next, KernelStep, UserStep

\* Once init has run its first exec(), at least two guards are outstanding
\* whoever runs: no unlock() of any path brings the counter down to 0.
LEMMA DepthLow ==
  ASSUME TypeOK, PointInv, DepthInv
  PROVE  depth >= 0 /\ (pc[INIT] # "start_init" => depth >= 2)
<1> USE ConstantsAssumption
<1>1. /\ current \in Pids /\ current \in Int /\ depth \in Int
      /\ IDLE \in Pids /\ INIT \in Pids /\ KTHREADD \in Pids /\ pc \in [Pids -> Points]
  BY DEF TypeOK, CpuTypeOK, TaskTypeOK, Pids, IDLE, INIT, KTHREADD
<1>2. Cardinality(Waiting) \in Nat
  <2>1. 3 \in Int /\ MaxPid \in Int
    OBVIOUS
  <2>2. IsFiniteSet(3..MaxPid)
    BY <2>1, FS_Interval
  <2>3. Waiting \subseteq 3..MaxPid
    BY DEF Waiting
  <2> QED BY <2>2, <2>3, FS_Subset, FS_CardinalityType, Zenon
<1>3. \A p \in Pids : Held(p) \in {0, 1, 2}
  BY DEF Held
<1>4. Short \in {0, 1} /\ (current < 3 => Short = 0)
  BY <1>1 DEF Short
<1>5. current # IDLE => Held(IDLE) = 1
  <2>1. ASSUME current # IDLE PROVE pc[IDLE] = "idle_sw"
    BY <1>1, <2>1 DEF PointInv, Suspended, Fresh, NotOnQueue
  <2> QED BY <2>1 DEF Held, Suspended
<1>6. current # INIT /\ pc[INIT] # "start_init" => Held(INIT) >= 1
  <2>1. ASSUME current # INIT, pc[INIT] # "start_init" PROVE pc[INIT] \in Suspended
    <3>1. pc[INIT] \in Suspended \cup Fresh
      BY <1>1, <2>1 DEF PointInv
    <3>2. pc[INIT] # "fork_out" /\ pc[INIT] # "kthreadd"
      BY <1>1 DEF PointInv, INIT, KTHREADD
    <3> QED BY <2>1, <3>1, <3>2 DEF Fresh
  <2> QED BY <2>1 DEF Held
<1>7. /\ pc[INIT] = "start_init" => current < 3
      /\ Leaked = IF pc[INIT] = "start_init" THEN 0 ELSE 1
  BY <1>1 DEF PointInv, Leaked, IDLE, INIT
<1>8. depth >= Leaked + Held(IDLE) + Held(INIT) + Held(KTHREADD) + Cardinality(Waiting) - Short
  BY DEF DepthInv
<1>9. current < 3 \/ (current # IDLE /\ current # INIT)
  BY <1>1 DEF IDLE, INIT
<1>10. current # IDLE \/ current # INIT
  BY DEF IDLE, INIT
<1> HIDE DEF Held, Leaked, Short, Waiting, IDLE, INIT, KTHREADD
<1> QED BY <1>1, <1>2, <1>3, <1>4, <1>5, <1>6, <1>7, <1>8, <1>9, <1>10, SMTT(40)

\* So lock(), unlock() and a locked section all leave IRQs masked after boot.
LEMMA MaskedByLock ==
  ASSUME TypeOK, PointInv, DepthInv, pc[INIT] # "start_init"
  PROVE  /\ \A n : Lock(n) => irqs' = FALSE
         /\ Unlock => irqs' = FALSE
         /\ LockedSection => irqs' = FALSE
<1>1. depth >= 2 /\ depth \in Int
  BY DepthLow DEF TypeOK, CpuTypeOK
<1>2. (depth - 1 = 0) = FALSE /\ (depth = 0) = FALSE
  BY <1>1
<1> QED BY <1>2, ZenonT(40) DEF Lock, Unlock, LockedSection

\* Every step keeps the places where IRQs are unmasked.
LEMMA IrqStep ==
  ASSUME IInv, Next, TypeOK'
  PROVE  IrqInv'
<1> USE ConstantsAssumption
<1>t. TypeOK /\ QueueInv /\ PointInv /\ ParentInv /\ IrqInv /\ DepthInv
  BY DEF IInv
<1>c. /\ current \in Pids /\ current' \in Pids /\ IDLE \in Pids /\ INIT \in Pids /\ IDLE # INIT
      /\ pc \in [Pids -> Points] /\ saved \in [Pids -> Points]
      /\ runqueue \in Seq(Pids) /\ runqueue # <<>>
  <2>1. IDLE \in Pids /\ INIT \in Pids /\ IDLE # INIT
    BY DEF Pids, IDLE, INIT
  <2>2. current' \in Pids
    BY DEF TypeOK, CpuTypeOK
  <2>3. /\ current \in Pids /\ pc \in [Pids -> Points] /\ saved \in [Pids -> Points]
        /\ runqueue \in Seq(Pids) /\ runqueue # <<>>
    BY <1>t DEF TypeOK, CpuTypeOK, TaskTypeOK, QueueInv, CurrentIsFront
  <2> QED BY <2>1, <2>2, <2>3
<1> DEFINE Irq == {"irq_tick", "irq_sw", "irq_ret"}
<1>i. /\ irqs => pc[current] \in Unlocked
      /\ \A p \in Pids : saved[p] \in Unlocked \cup {"none"}
      /\ \A p \in Pids : pc[p] \in Irq => saved[p] \in Unlocked
  BY <1>t DEF IrqInv
\* after boot
<1>b. pc[current] \notin {"start_init", "idle"} => pc[INIT] # "start_init"
  BY <1>t, <1>c DEF PointInv
<1>k. ASSUME pc[current] \notin {"start_init", "idle"}
      PROVE  /\ \A n : Lock(n) => irqs' = FALSE
             /\ Unlock => irqs' = FALSE
             /\ LockedSection => irqs' = FALSE
  BY <1>b, <1>k, <1>t, MaskedByLock, Zenon
\* a step after which IRQs are masked
<1>m. ASSUME NEW point, pc' = [pc EXCEPT ![current] = point], UNCHANGED saved, irqs' = FALSE,
             point \in Irq => pc[current] \in Irq
      PROVE  IrqInv'
  BY <1>c, <1>i, <1>m DEF IrqInv
\* a step of an unlocked task that leaves them as they are, or unmasks them
<1>u. ASSUME NEW point, Goto(point), UNCHANGED <<saved, current>>, point \in Unlocked
      PROVE  IrqInv'
  BY <1>c, <1>i, <1>u DEF IrqInv, Goto, Unlocked
<1>h. ASSUME UNCHANGED <<pc, saved, current>>, irqs' = FALSE \/ irqs' = irqs PROVE IrqInv'
  BY <1>c, <1>i, <1>h DEF IrqInv
<1>1. CASE idle
  BY <1>1, <1>m, Zenon DEF idle, schedule, Lock, Goto
<1>2. CASE kthreadd_yields
  BY <1>2, <1>m, Zenon DEF kthreadd_yields, schedule, Lock, Goto
<1>3. CASE ReturnFromSwitch
  <2>1. /\ Goto(ResumePoint(pc[current])) /\ UNCHANGED saved /\ irqs' = FALSE
        /\ pc[current] \in Suspended
    BY <1>3, <1>k, ZenonT(40) DEF ReturnFromSwitch, At, Suspended
  <2>2. ResumePoint(pc[current]) \in Irq => pc[current] \in Irq
    BY <2>1 DEF ResumePoint, Suspended
  <2> QED BY <2>1, <2>2, <1>m, Zenon DEF Goto
<1>4. CASE ForkOut
  BY <1>4, <1>u DEF ForkOut, Unlocked
<1>5. CASE fork
  <2>1. /\ pc' = [pc EXCEPT ![current] = "sys_ret", ![next_pid] = "fork_out"]
        /\ UNCHANGED <<saved, current>> /\ irqs' = FALSE
    BY <1>5, <1>k, Zenon DEF fork, At
  <2> QED BY <2>1, <1>c, <1>i DEF IrqInv
<1>6. CASE exec
  BY <1>6, <1>u DEF exec, Unlocked
<1>7. CASE exec_failed
  BY <1>7, <1>u, <1>h, Zenon DEF exec_failed, panic, Unlocked
<1>8. CASE wait
  <2>1. irqs' = FALSE
    BY <1>8, <1>k, Zenon DEF wait, At
  <2> QED BY <1>8, <2>1, <1>m, Zenon DEF wait, Goto, WaitReturn
<1>9. CASE wait_for_child
  BY <1>9, <1>m, ZenonT(40) DEF wait_for_child, schedule, Lock, Goto
<1>10. CASE reap
  <2> DEFINE D == Destroyed(Head(terminated_children[current]))
  <2>1. irqs' = FALSE
    BY <1>10, <1>k, Zenon DEF reap, At
  <2>2. /\ pc' = [[p \in Pids |-> IF p \in D THEN "freed" ELSE pc[p]] EXCEPT ![current] = WaitReturn]
        /\ saved' = [p \in Pids |-> IF p \in D THEN "none" ELSE saved[p]]
        /\ UNCHANGED current
    BY <1>10, Zenon DEF reap
  <2>3. WaitReturn \in {"sys_ret", "kthreadd_yield"}
    BY DEF WaitReturn
  <2> HIDE DEF D, WaitReturn
  <2>4. \A p \in Pids : /\ saved'[p] \in Unlocked \cup {"none"}
                        /\ pc'[p] \in Irq => saved'[p] \in Unlocked
    BY <2>2, <2>3, <1>c, <1>i, SMTT(40)
  <2> QED BY <2>1, <2>4 DEF IrqInv
<1>11. CASE exit
  BY <1>11, <1>u, <1>h, Zenon DEF exit, BeginExit, panic, Unlocked
<1>12. CASE exit_locked
  BY <1>12, <1>m, Zenon DEF exit_locked, schedule, Lock, Goto
<1>13. CASE sched_yield
  BY <1>13, <1>m, ZenonT(40) DEF sched_yield, schedule, Lock, Goto
<1>14. ASSUME NEW pid \in Pids, NEW sig \in Signals, kill(pid, sig) PROVE IrqInv'
  BY <1>14, <1>u DEF kill, Unlocked
<1>15. ASSUME NEW sig \in Signals, NEW set \in BOOLEAN, signal(sig, set) PROVE IrqInv'
  BY <1>15, <1>u DEF signal, Unlocked
<1>16. CASE console_read
  BY <1>16, <1>u DEF console_read, cpuVars, Unlocked
<1>17. CASE console_read_done
  BY <1>17, <1>u DEF console_read_done, cpuVars, Unlocked
<1>18. ASSUME NEW locks \in BOOLEAN, other_syscall(locks) PROVE IrqInv'
  BY <1>18, <1>u DEF other_syscall, Unlocked
<1>19. CASE page_fault
  BY <1>19, <1>u DEF page_fault, cpuVars, Unlocked
<1>20. CASE syscall_ret
  BY <1>20, <1>m, Zenon DEF syscall_ret, Goto
<1>21. CASE handle_pending_signal
  BY <1>21, <1>u, <1>h, Zenon DEF handle_pending_signal, BeginExit, panic, Unlocked
<1>22. CASE syscall_reschedule
  <2>1. irqs' = FALSE
    <3>1. irqs = FALSE
      BY <1>22, <1>i, <1>t DEF syscall_reschedule, At, Unlocked, TypeOK, CpuTypeOK
    <3> QED BY <1>22, <3>1 DEF syscall_reschedule, maybe_schedule, Lock
  <2> QED BY <1>22, <2>1, <1>m, ZenonT(40) DEF syscall_reschedule, maybe_schedule, schedule, Goto
<1>23. CASE eret
  BY <1>23, <1>u DEF eret, Unlocked
<1>24. CASE handle_irq
  <2>1. /\ saved' = [saved EXCEPT ![current] = pc[current]] /\ irqs' = FALSE
        /\ pc' = [pc EXCEPT ![current] = "irq_tick"] /\ pc[current] \in Unlocked
    BY <1>24, <1>i, SMTT(40) DEF handle_irq, Goto
  <2> QED BY <2>1, <1>c, <1>i, SMTT(40) DEF IrqInv
<1>25. CASE irq_reschedule
  <2>1. irqs' = FALSE
    <3>1. irqs = FALSE
      BY <1>25, <1>i, <1>t DEF irq_reschedule, At, Unlocked, TypeOK, CpuTypeOK
    <3> QED BY <1>25, <3>1 DEF irq_reschedule, maybe_schedule, Lock
  <2>2. pc[current] \in Irq
    BY <1>25 DEF irq_reschedule, At
  <2> QED BY <1>25, <2>1, <2>2, <1>m, ZenonT(40) DEF irq_reschedule, maybe_schedule, schedule, Goto
<1>26. CASE irq_eret
  <2>1. /\ saved' = [saved EXCEPT ![current] = "none"] /\ UNCHANGED current
        /\ pc' = [pc EXCEPT ![current] = saved[current]] /\ pc[current] = "irq_ret"
    BY <1>26 DEF irq_eret, Goto, At
  <2>2. saved[current] \in Unlocked
    BY <2>1, <1>c, <1>i
  <2> QED BY <2>1, <2>2, <1>c, <1>i, SMTT(40) DEF IrqInv, Unlocked
<1>27. CASE halt
  BY <1>27, <1>h DEF halt, vars, cpuVars
<1> QED
  BY <1>1, <1>2, <1>3, <1>4, <1>5, <1>6, <1>7, <1>8, <1>9, <1>10, <1>11, <1>12,
     <1>13, <1>14, <1>15, <1>16, <1>17, <1>18, <1>19, <1>20, <1>21, <1>22, <1>23,
     <1>24, <1>25, <1>26, <1>27 DEF Next, KernelStep, UserStep

-----------------------------------------------------------------------------
(* The theorems.                                                           *)

\* No step of the kernel, of a program or of the timer breaks it.
LEMMA InvStep == IInv /\ [Next]_vars => IInv'
<1> SUFFICES ASSUME IInv, [Next]_vars PROVE IInv'
  OBVIOUS
<1>1. CASE Next
  <2>1. TypeOK' /\ QueueInv' /\ PointInv' /\ ParentInv' /\ TreeInv'
    BY <1>1, TypeStep, QueueStep, ParentStep, TreeStep
  <2> QED BY <1>1, <2>1, DepthStep, IrqStep DEF IInv
<1> QED BY <1>1, StutterInv

\* The inductive invariant holds in every reachable state, for any number of
\* tasks, any time slice and any signals.
THEOREM Inductive == Spec => []IInv
BY InitInv, InvStep, PTL DEF Spec

\* The task in TPIDR_EL1 is the front of the run queue after every sequence of
\* switches, forks and exits: schedule() never saves into the wrong task.
THEOREM RunsTheFront == Spec => []CurrentIsFront
<1>1. IInv => CurrentIsFront
  BY SMTT(40) DEF IInv, QueueInv
<1> QED BY <1>1, Inductive, PTL

\* The family pointers of ~Task, exit() and wait() never dangle and never
\* disagree.
THEOREM FamilyAgrees == Spec => []FamilyConsistent
<1>1. IInv => FamilyConsistent
  BY SMTT(40) DEF IInv, ParentInv
<1> QED BY <1>1, Inductive, PTL

\* Every Task object has exactly one owner from fork() until it is reaped.
THEOREM SingleOwner == Spec => []OwnedOnce
<1>1. IInv => OwnedOnce
  <2> SUFFICES ASSUME IInv PROVE OwnedOnce
    OBVIOUS
  <2>1. TypeOK /\ QueueInv /\ ParentInv
    BY DEF IInv
  <2>2. ASSUME NEW p \in Pids PROVE OnQueue(p) <=> Exists(p) /\ pc[p] # "zombie"
    BY <2>1 DEF QueueInv, NotOnQueue, Exists
  <2>3. ASSUME NEW p \in Pids
        PROVE  Cardinality(OwnersOf(p)) = IF pc[p] = "zombie" THEN 1 ELSE 0
    <3>1. \A q \in Pids : p \in SeqRange(terminated_children[q])
                            <=> parent[p] = q /\ pc[p] = "zombie"
      BY <2>1, FamilyMembers, SMTT(40)
    <3>2. CASE pc[p] = "zombie"
      <4>1. parent[p] \in Pids
        BY <2>1, <3>2 DEF ParentInv, TypeOK, FamilyTypeOK
      <4>2. OwnersOf(p) = {parent[p]}
        BY <3>1, <3>2, <4>1 DEF OwnersOf
      <4> QED BY <3>2, <4>2, FS_Singleton, Zenon
    <3>3. CASE pc[p] # "zombie"
      <4>1. OwnersOf(p) = {}
        BY <3>1, <3>3, SMTT(40) DEF OwnersOf
      <4> QED BY <3>3, <4>1, FS_EmptySet
    <3> QED BY <3>2, <3>3
  <2> QED BY <2>1, <2>2, <2>3, Zenon DEF OwnedOnce, QueueInv, ParentInv
<1> QED BY <1>1, Inductive, PTL

\* get_by_pid() searches only the active children below init, and still finds
\* every task that can run, unless an ancestor of it is a zombie that nobody
\* has reaped yet.
THEOREM FoundByPid == Spec => []RunnableIsFound
BY FoundOrOrphaned, Inductive, PTL

\* The shared nesting counter of the kernel mutex never goes negative, and no
\* unlock() unmasks IRQs inside a handler, whatever forks, execs and exits
\* have done to the balance.
THEOREM MaskedInKernel == Spec => []NeverUnmasksInKernel
<1>1. IInv => NeverUnmasksInKernel
  BY DepthLow, SMTT(40) DEF IInv, IrqInv, NeverUnmasksInKernel
<1> QED BY <1>1, Inductive, PTL

\* Only the tick raises need_reschedule, and the maybe_schedule() of the same
\* interrupt lowers it.
LEMMA RescheduleStep ==
  ASSUME IInv, RescheduleIsImmediate, [Next]_vars
  PROVE  RescheduleIsImmediate'
<1>t. /\ TypeOK /\ IrqInv /\ current \in Pids /\ pc \in [Pids -> Points]
      /\ time_slice \in [Pids -> 0..TASK_TIME_SLICE]
  BY DEF IInv, TypeOK, CpuTypeOK, TaskTypeOK
<1>b. need_reschedule \in BOOLEAN
  BY SMTT(40) DEF IInv, TypeOK, CpuTypeOK
<1>n. pc[current] # "irq_tick" => need_reschedule = FALSE
  BY <1>b DEF RescheduleIsImmediate
\* a step from any other point does not touch the flag
<1>f. ASSUME pc[current] # "irq_tick", UNCHANGED need_reschedule PROVE RescheduleIsImmediate'
  BY <1>f, <1>n DEF RescheduleIsImmediate
<1>u. ASSUME UNCHANGED vars PROVE RescheduleIsImmediate'
  BY <1>u DEF RescheduleIsImmediate, vars, cpuVars
<1>1. CASE idle
  BY <1>1, <1>f DEF idle, At
<1>2. CASE kthreadd_yields
  BY <1>2, <1>f DEF kthreadd_yields, At
<1>3. CASE ReturnFromSwitch
  BY <1>3, <1>f DEF ReturnFromSwitch, At, Suspended
<1>4. CASE ForkOut
  BY <1>4, <1>f DEF ForkOut, At
<1>5. CASE fork
  BY <1>5, <1>f DEF fork, At
<1>6. CASE exec
  BY <1>6, <1>f DEF exec, At
<1>7. CASE exec_failed
  BY <1>7, <1>f DEF exec_failed, At
<1>8. CASE wait
  BY <1>8, <1>f DEF wait, At
<1>9. CASE wait_for_child
  BY <1>9, <1>f, SMTT(40) DEF wait_for_child, At
<1>10. CASE reap
  BY <1>10, <1>f DEF reap, At
<1>11. CASE exit
  BY <1>11, <1>f, SMTT(40) DEF exit, At
<1>12. CASE exit_locked
  BY <1>12, <1>f DEF exit_locked, At
<1>13. CASE sched_yield
  BY <1>13, <1>f DEF sched_yield, At
<1>14. ASSUME NEW pid \in Pids, NEW sig \in Signals, kill(pid, sig) PROVE RescheduleIsImmediate'
  BY <1>14, <1>f DEF kill, At
<1>15. ASSUME NEW sig \in Signals, NEW set \in BOOLEAN, signal(sig, set)
       PROVE  RescheduleIsImmediate'
  BY <1>15, <1>f DEF signal, At
<1>16. CASE console_read
  BY <1>16, <1>f DEF console_read, At, cpuVars
<1>17. CASE console_read_done
  BY <1>17, <1>f DEF console_read_done, At, cpuVars
<1>18. ASSUME NEW locks \in BOOLEAN, other_syscall(locks) PROVE RescheduleIsImmediate'
  BY <1>18, <1>f DEF other_syscall, At
<1>19. CASE page_fault
  BY <1>19, <1>f DEF page_fault, At, cpuVars
<1>20. CASE syscall_ret
  BY <1>20, <1>f DEF syscall_ret, At
<1>21. CASE handle_pending_signal
  BY <1>21, <1>f DEF handle_pending_signal, At
<1>22. CASE syscall_reschedule
  BY <1>22, <1>f, <1>n DEF syscall_reschedule, maybe_schedule, At
<1>23. CASE eret
  BY <1>23, <1>f DEF eret, At
<1>24. CASE handle_irq
  <2>1. pc[current] # "irq_tick"
    BY <1>24, <1>t DEF handle_irq, IrqInv, Unlocked
  <2> DEFINE left == IF time_slice[current] > 0 THEN time_slice[current] - 1
                                                ELSE time_slice[current]
  <2>2. /\ need_reschedule' = (left <= 0) /\ UNCHANGED current
        /\ time_slice' = [time_slice EXCEPT ![current] = left]
        /\ pc' = [pc EXCEPT ![current] = "irq_tick"]
    BY <1>24, <1>n, <2>1 DEF handle_irq, Goto
  <2>3. left \in Nat
    BY <1>t, ConstantsAssumption
  <2> HIDE DEF left
  <2>4. time_slice'[current] = left /\ pc'[current] = "irq_tick"
    BY <1>t, <2>2
  <2>5. (left <= 0) => left = 0
    BY <2>3
  <2>6. ASSUME need_reschedule' PROVE left = 0
    BY <2>2, <2>5, <2>6, Zenon
  <2> QED BY <2>2, <2>4, <2>6, Zenon DEF RescheduleIsImmediate
<1>25. CASE irq_reschedule
  <2>1. need_reschedule' = FALSE
    BY <1>25, <1>b, SMTT(40) DEF irq_reschedule, maybe_schedule
  <2> QED BY <2>1 DEF RescheduleIsImmediate
<1>26. CASE irq_eret
  BY <1>26, <1>f DEF irq_eret, At
<1>27. CASE halt
  BY <1>27, <1>u DEF halt
<1> QED
  BY <1>u, <1>1, <1>2, <1>3, <1>4, <1>5, <1>6, <1>7, <1>8, <1>9, <1>10, <1>11, <1>12,
     <1>13, <1>14, <1>15, <1>16, <1>17, <1>18, <1>19, <1>20, <1>21, <1>22, <1>23,
     <1>24, <1>25, <1>26, <1>27, SMTT(40) DEF Next, KernelStep, UserStep

\* A used-up time slice preempts its own task, in the interrupt that finds it
\* used up.
THEOREM PreemptsAtOnce == Spec => []RescheduleIsImmediate
<1>1. Init => RescheduleIsImmediate
  BY DEF Init, RescheduleIsImmediate
<1>2. IInv /\ RescheduleIsImmediate /\ [Next]_vars => RescheduleIsImmediate'
  BY RescheduleStep
<1> QED BY <1>1, <1>2, Inductive, PTL DEF Spec
=============================================================================
