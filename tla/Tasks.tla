-------------------------------- MODULE Tasks --------------------------------
(***************************************************************************)
(* Tasks, the scheduler, signals and the kernel mutex of Valkyrie          *)
(* (proc/Task.cc, proc/TaskScheduler.cc, kernel/Exception.cc,              *)
(* include/lib/Mutex.h) on the one CPU core the kernel uses.               *)
(*                                                                         *)
(* A step of the model runs the code between two points at which control   *)
(* can leave the running task: a trap, an IRQ taken while IRQs are         *)
(* unmasked, switch_to(), eret.  pc[t] is the point task t has reached; a  *)
(* point ending in "_sw" is inside schedule(), in the call of switch_to(). *)
(* Interrupts are masked by hardware on every trap and the mask (DAIF) is  *)
(* a property of the core that switch_to() does not save: irqs.            *)
(***************************************************************************)
EXTENDS Integers, Sequences, FiniteSets

CONSTANTS
  MaxPid,           \* bound: pids above MaxPid are never given out
  MaxDepth,         \* bound: exec is not tried once the mutex is this deep
  MaxPending,       \* bound: signals queued on one task
  Signals,          \* bound: the kinds of signal that are raised
  TASK_TIME_SLICE   \* ticks a task runs before it is preempted

ASSUME ConstantsAssumption ==
  /\ MaxPid \in Nat /\ MaxPid >= 2
  /\ MaxDepth \in Nat /\ MaxPending \in Nat
  /\ Signals \subseteq {"SIGKILL", "SIGSEGV", "unsupported"}
  /\ TASK_TIME_SLICE \in Nat \ {0}

VARIABLES
  \* the core and the scheduler
  runqueue, current, need_reschedule, irqs, panicked,
  \* Kernel::mutex: the one nesting counter all tasks share
  depth,
  \* per task
  next_pid, pc, saved, state, parent, active_children, terminated_children,
  time_slice, pending_signals, custom_handlers

cpuVars  == <<runqueue, current, need_reschedule, irqs, panicked, depth>>
famVars  == <<next_pid, parent, active_children, terminated_children>>
sigVars  == <<pending_signals, custom_handlers>>
vars     == <<cpuVars, famVars, sigVars, pc, saved, state, time_slice>>

Pids     == 0..MaxPid
IDLE     == 0
INIT     == 1
KTHREADD == 2
nullptr  == -1

States  == {"none", "CREATED", "RUNNING", "SLEEPING", "TERMINATED", "freed"}

\* Where schedule() returns to when a suspended task gets the core back.
Suspended == {"idle_sw", "kthreadd_sw", "wait_sw", "yield_sw", "irq_sw", "sys_sw"}
ResumePoint(point) ==
  CASE point = "idle_sw"  -> "idle"    [] point = "kthreadd_sw" -> "kthreadd"
    [] point = "wait_sw"  -> "wait"    [] point = "yield_sw"    -> "sys_ret"
    [] point = "irq_sw"   -> "irq_ret" [] point = "sys_sw"      -> "eret"

\* Points of a task that has never run: the two entry points given to
\* make_user_task/make_kernel_task and the label `out' of fork().
Fresh == {"start_init", "kthreadd", "fork_out"}

Points == Suspended \cup Fresh \cup
  {"idle", "kthreadd_yield", "wait", "user", "fault", "read", "exit", "zombie",
   "sys_ret", "sys_sig", "irq_tick", "irq_ret", "eret", "none", "freed"}

Init ==
  /\ runqueue = <<IDLE, INIT, KTHREADD>>
  /\ current = IDLE
  /\ need_reschedule = FALSE /\ irqs = FALSE /\ panicked = FALSE
  /\ depth = 0
  /\ next_pid = 3
  /\ pc = [p \in Pids |-> CASE p = IDLE -> "idle" [] p = INIT -> "start_init"
                            [] p = KTHREADD -> "kthreadd" [] OTHER -> "none"]
  /\ saved = [p \in Pids |-> "none"]
  /\ state = [p \in Pids |-> IF p <= 2 THEN "RUNNING" ELSE "none"]
  /\ parent = [p \in Pids |-> nullptr]
  /\ active_children = [p \in Pids |-> {}]
  /\ terminated_children = [p \in Pids |-> <<>>]
  /\ time_slice = [p \in Pids |-> TASK_TIME_SLICE]
  /\ pending_signals = [p \in Pids |-> <<>>]
  /\ custom_handlers = [p \in Pids |-> {}]

-----------------------------------------------------------------------------
(* The running task and the points it moves between.                       *)

At(points) == ~panicked /\ pc[current] \in points
Goto(point) == pc' = [pc EXCEPT ![current] = point]

(* RecursiveMutex.  lock() masks IRQs, unlock() unmasks them only when the *)
(* shared counter is back at 0; a section that locks and unlocks in one    *)
(* step leaves the counter as it was.                                      *)
Lock(n) == depth' = depth + n /\ irqs' = FALSE
Unlock_ignores_nesting == depth' = depth - 1 /\ irqs' = TRUE
Unlock == depth' = depth - 1 /\ irqs' = (depth - 1 = 0)
LockedSection == depth' = depth /\ irqs' = (depth = 0)

panic == panicked' = TRUE /\ irqs' = FALSE

\* schedule() with run queue q, called by current, which resumes at `point'.
Rotate(q) == IF Len(q) > 1 THEN Append(Tail(q), Head(q)) ELSE q

schedule(q, point) ==
  LET r == Rotate(q) IN
  /\ runqueue' = r
  /\ current' = Head(r)
  /\ state' = [state EXCEPT ![current] = "SLEEPING", ![Head(r)] = "RUNNING"]
  /\ Goto(point)

maybe_schedule_keeps_flag(switchPoint, point) ==
  IF need_reschedule
  THEN /\ time_slice' = [time_slice EXCEPT ![current] = TASK_TIME_SLICE]
       /\ schedule(runqueue, switchPoint)
       /\ Lock(1)
       /\ UNCHANGED need_reschedule
  ELSE /\ Goto(point)
       /\ UNCHANGED <<need_reschedule, time_slice, runqueue, current, state,
                      depth, irqs>>

\* maybe_schedule(): preempt current or carry on at `point'.
maybe_schedule(switchPoint, point) ==
  IF need_reschedule
  THEN /\ need_reschedule' = FALSE
       /\ time_slice' = [time_slice EXCEPT ![current] = TASK_TIME_SLICE]
       /\ schedule(runqueue, switchPoint)
       /\ Lock(1)
  ELSE /\ Goto(point)
       /\ UNCHANGED <<need_reschedule, time_slice, runqueue, current, state,
                      depth, irqs>>

remove_task_finds_nothing(q, t) == q

\* remove_task(): the queue without its first entry for t.
remove_task(q, t) ==
  LET i == CHOOSE j \in DOMAIN q : q[j] = t /\ \A k \in 1..(j - 1) : q[k] # t
  IN  [j \in 1..(Len(q) - 1) |-> IF j < i THEN q[j] ELSE q[j + 1]]

-----------------------------------------------------------------------------
(* Kernel threads.                                                         *)

idle ==
  /\ At({"idle"})
  /\ schedule(runqueue, "idle_sw") /\ Lock(1)
  /\ UNCHANGED <<need_reschedule, panicked, famVars, sigVars, saved, time_slice>>

kthreadd_yields ==
  /\ At({"kthreadd_yield"})
  /\ schedule(runqueue, "kthreadd_sw") /\ Lock(1)
  /\ UNCHANGED <<need_reschedule, panicked, famVars, sigVars, saved, time_slice>>

\* schedule() returns in the task that was switched in; ~LockGuard runs there.
ReturnFromSwitch ==
  /\ At(Suspended)
  /\ Goto(ResumePoint(pc[current])) /\ Unlock
  /\ UNCHANGED <<runqueue, current, need_reschedule, panicked, famVars, sigVars,
                 saved, state, time_slice>>

\* A forked child's first step: `out: return ret;' on the copied kernel
\* stack, which runs ~LockGuard for the guard its parent acquired.
ForkOut ==
  /\ At({"fork_out"})
  /\ Goto("sys_ret") /\ Unlock
  /\ UNCHANGED <<runqueue, current, need_reschedule, panicked, famVars, sigVars,
                 saved, state, time_slice>>

-----------------------------------------------------------------------------
(* System calls; each starts in user mode and runs with IRQs unmasked      *)
(* until its first lock().                                                 *)

fork ==
  /\ At({"user"}) /\ next_pid <= MaxPid
  /\ LET child == next_pid IN
     /\ runqueue' = Append(runqueue, child)
     /\ next_pid' = next_pid + 1
     /\ parent' = [parent EXCEPT ![child] = current]
     /\ active_children' = [active_children EXCEPT ![current] = @ \cup {child}]
     /\ state' = [state EXCEPT ![child] = "RUNNING"]
     /\ pc' = [pc EXCEPT ![current] = "sys_ret", ![child] = "fork_out"]
  /\ LockedSection
  /\ UNCHANGED <<current, need_reschedule, panicked, terminated_children,
                 sigVars, saved, time_slice>>

exec_releases_its_guard ==
  /\ At({"user", "start_init"}) /\ depth < MaxDepth
  /\ Goto("user")
  /\ irqs' = TRUE
  /\ UNCHANGED <<runqueue, current, need_reschedule, panicked, depth, famVars,
                 sigVars, saved, state, time_slice>>

\* exec() of a valid ELF file ends in switch_to_user_mode(): its LockGuard is
\* never destroyed.
exec ==
  /\ At({"user", "start_init"}) /\ depth < MaxDepth
  /\ Goto("user")
  /\ depth' = depth + 1 /\ irqs' = TRUE
  /\ UNCHANGED <<runqueue, current, need_reschedule, panicked, famVars, sigVars,
                 saved, state, time_slice>>

\* exec() of a missing or malformed file; fatal in start_init().
exec_failed ==
  /\ At({"user", "start_init"})
  /\ IF pc[current] = "start_init"
     THEN panic /\ UNCHANGED <<pc, depth>>
     ELSE Goto("sys_ret") /\ LockedSection /\ UNCHANGED panicked
  /\ UNCHANGED <<runqueue, current, need_reschedule, famVars, sigVars, saved,
                 state, time_slice>>

get_children_count(p) ==
  Cardinality(active_children[p]) + Len(terminated_children[p])

WaitReturn == IF current = KTHREADD THEN "kthreadd_yield" ELSE "sys_ret"

wait ==
  /\ At({"user", "kthreadd"})
  /\ IF get_children_count(current) = 0
     THEN Goto(WaitReturn) /\ LockedSection
     ELSE Goto("wait") /\ Lock(1)
  /\ UNCHANGED <<runqueue, current, need_reschedule, panicked, famVars, sigVars,
                 saved, state, time_slice>>

wait_rechecks_nothing ==
  /\ At({"wait"})
  /\ schedule(runqueue, "wait_sw") /\ Lock(1)
  /\ UNCHANGED <<need_reschedule, panicked, famVars, sigVars, saved, time_slice>>

wait_for_child ==
  /\ At({"wait"}) /\ terminated_children[current] = <<>>
  /\ schedule(runqueue, "wait_sw") /\ Lock(1)
  /\ UNCHANGED <<need_reschedule, panicked, famVars, sigVars, saved, time_slice>>

SeqRange(s) == {s[i] : i \in DOMAIN s}

\* The least set of tasks that holds root and is closed under `succ'.
Closure(root, succ) ==
  {p \in Pids : \A S \in SUBSET Pids :
     root \in S /\ (\A q \in S : succ[q] \subseteq S) => p \in S}

\* Deleting a Task deletes the zombies its _terminated_children list owns.
Destroyed(z) == Closure(z, [p \in Pids |-> SeqRange(terminated_children[p])])

reap_without_adoption ==
  /\ At({"wait"}) /\ terminated_children[current] # <<>>
  /\ LET D == Destroyed(Head(terminated_children[current]))
         Clear(f, v) == [p \in Pids |-> IF p \in D THEN v ELSE f[p]]
     IN
     /\ active_children' = Clear(active_children, {})
     /\ terminated_children' =
          [Clear(terminated_children, <<>>) EXCEPT ![current] = Tail(@)]
     /\ parent' = Clear(parent, nullptr)
     /\ state' = Clear(state, "freed")
     /\ pc' = [Clear(pc, "freed") EXCEPT ![current] = WaitReturn]
     /\ UNCHANGED <<saved, pending_signals, custom_handlers, time_slice>>
  /\ Unlock
  /\ UNCHANGED <<runqueue, current, need_reschedule, panicked, next_pid>>

\* pop_front() of the reaped child runs ~Task: its running children, and those
\* of the zombies deleted with it, are adopted by init.
reap ==
  /\ At({"wait"}) /\ terminated_children[current] # <<>>
  /\ LET D == Destroyed(Head(terminated_children[current]))
         orphans == UNION {active_children[p] : p \in D}
         Clear(f, v) == [p \in Pids |-> IF p \in D THEN v ELSE f[p]]
     IN
     /\ active_children' =
          [Clear(active_children, {}) EXCEPT ![INIT] = @ \cup orphans]
     /\ terminated_children' =
          [Clear(terminated_children, <<>>) EXCEPT ![current] = Tail(@)]
     /\ parent' = [p \in Pids |-> IF p \in orphans THEN INIT
                                  ELSE IF p \in D THEN nullptr ELSE parent[p]]
     /\ state' = Clear(state, "freed")
     /\ pc' = [Clear(pc, "freed") EXCEPT ![current] = WaitReturn]
     /\ saved' = Clear(saved, "none")
     /\ pending_signals' = Clear(pending_signals, <<>>)
     /\ custom_handlers' = Clear(custom_handlers, {})
     /\ time_slice' = Clear(time_slice, TASK_TIME_SLICE)
  /\ Unlock
  /\ UNCHANGED <<runqueue, current, need_reschedule, panicked, next_pid>>

\* The unlocked start of Task::exit(), as sys_exit or from a signal handler.
BeginExit ==
  IF parent[current] = nullptr
  THEN panic /\ UNCHANGED <<pc, state>>
  ELSE /\ state' = [state EXCEPT ![current] = "TERMINATED"]
       /\ Goto("exit") /\ UNCHANGED <<panicked, irqs>>

exit ==
  /\ At({"user"})
  /\ BeginExit
  /\ UNCHANGED <<runqueue, current, need_reschedule, depth, famVars, sigVars,
                 saved, time_slice>>

\* The locked rest of Task::exit().  Neither its LockGuard nor the one of its
\* last schedule() is ever destroyed.
exit_locked ==
  /\ At({"exit"})
  /\ active_children' = [active_children EXCEPT ![parent[current]] = @ \ {current}]
  /\ terminated_children' =
       [terminated_children EXCEPT ![parent[current]] = Append(@, current)]
  /\ schedule(remove_task(runqueue, current), "zombie")
  /\ Lock(2)
  /\ UNCHANGED <<need_reschedule, panicked, next_pid, parent, sigVars, saved,
                 time_slice>>

sched_yield ==
  /\ At({"user"})
  /\ schedule(runqueue, "yield_sw") /\ Lock(1)
  /\ UNCHANGED <<need_reschedule, panicked, famVars, sigVars, saved, time_slice>>

found_by_pid_one_level(pid) == pid \in {INIT, KTHREADD} \cup active_children[INIT]

\* get_by_pid(): init, kthreadd, or a search of the tree of _active_children.
found_by_pid(pid) == pid \in {INIT, KTHREADD} \cup Closure(INIT, active_children)

kill(pid, signal) ==
  /\ At({"user"})
  /\ IF pid = current \/ found_by_pid(pid)
     THEN /\ Len(pending_signals[pid]) < MaxPending
          /\ pending_signals' = [pending_signals EXCEPT ![pid] = Append(@, signal)]
     ELSE UNCHANGED pending_signals
  /\ Goto("sys_ret") /\ LockedSection
  /\ UNCHANGED <<runqueue, current, need_reschedule, panicked, famVars,
                 custom_handlers, saved, state, time_slice>>

\* signal(): install a handler, or remove it by passing a null one.
signal(sig, set) ==
  /\ At({"user"})
  /\ custom_handlers' = [custom_handlers EXCEPT ![current] =
                           IF set THEN @ \cup {sig} ELSE @ \ {sig}]
  /\ Goto("sys_ret") /\ LockedSection
  /\ UNCHANGED <<runqueue, current, need_reschedule, panicked, famVars,
                 pending_signals, saved, state, time_slice>>

\* sys_read of fd 0 polls the UART without any lock ...
console_read ==
  /\ At({"user"})
  /\ Goto("read")
  /\ UNCHANGED <<cpuVars, famVars, sigVars, saved, state, time_slice>>

\* ... and returns when a line has been typed.
console_read_done ==
  /\ At({"read"})
  /\ Goto("sys_ret")
  /\ UNCHANGED <<cpuVars, famVars, sigVars, saved, state, time_slice>>

\* Every other system call, as the scheduler sees it: the ones that lock (VFS,
\* mmap) and the ones that do not (getpid, a bad id, an invalid signal).
other_syscall(locks) ==
  /\ At({"user"})
  /\ Goto("sys_ret")
  /\ IF locks THEN LockedSection ELSE UNCHANGED <<depth, irqs>>
  /\ UNCHANGED <<runqueue, current, need_reschedule, panicked, famVars, sigVars,
                 saved, state, time_slice>>

\* handle_page_fault() on a page that is not copy-on-write.  Its eret retries
\* the faulting instruction: the task faults again until a timer IRQ comes.
page_fault ==
  /\ At({"user", "fault"}) /\ "SIGSEGV" \in Signals
  /\ Len(pending_signals[current]) < MaxPending
  /\ pending_signals' = [pending_signals EXCEPT ![current] = Append(@, "SIGSEGV")]
  /\ Goto("fault")
  /\ UNCHANGED <<cpuVars, famVars, custom_handlers, saved, state, time_slice>>

-----------------------------------------------------------------------------
(* Return paths and the timer interrupt.                                   *)

\* handle_syscall() after do_syscall() has returned.
syscall_ret ==
  /\ At({"sys_ret"})
  /\ Goto("sys_sig") /\ irqs' = FALSE
  /\ UNCHANGED <<runqueue, current, need_reschedule, panicked, depth, famVars,
                 sigVars, saved, state, time_slice>>

\* One round of the loop of handle_pending_signals().
handle_pending_signal ==
  /\ At({"sys_sig", "irq_ret"}) /\ pending_signals[current] # <<>>
  /\ pending_signals' = [pending_signals EXCEPT ![current] = Tail(@)]
  /\ LET s == Head(pending_signals[current]) IN
     IF s \in custom_handlers[current]
     THEN panic /\ UNCHANGED <<pc, state>>
     ELSE IF s = "unsupported"
          THEN UNCHANGED <<pc, state, panicked, irqs>>
          ELSE BeginExit
  /\ UNCHANGED <<runqueue, current, need_reschedule, depth, famVars,
                 custom_handlers, saved, time_slice>>

syscall_reschedule ==
  /\ At({"sys_sig"}) /\ pending_signals[current] = <<>>
  /\ maybe_schedule("sys_sw", "eret")
  /\ UNCHANGED <<panicked, famVars, sigVars, saved>>

eret ==
  /\ At({"eret"})
  /\ Goto("user") /\ irqs' = TRUE
  /\ UNCHANGED <<runqueue, current, need_reschedule, panicked, depth, famVars,
                 sigVars, saved, state, time_slice>>

handle_irq_never_preempts ==
  /\ ~panicked /\ irqs
  /\ saved' = [saved EXCEPT ![current] = pc[current]]
  /\ Goto("irq_tick") /\ irqs' = FALSE
  /\ UNCHANGED <<runqueue, current, panicked, need_reschedule, time_slice, depth,
                 famVars, sigVars, state>>

\* The timer IRQ: TaskScheduler::tick(), with IRQs masked by the core.
handle_irq ==
  /\ ~panicked /\ irqs
  /\ saved' = [saved EXCEPT ![current] = pc[current]]
  /\ Goto("irq_tick") /\ irqs' = FALSE
  /\ LET left == IF time_slice[current] > 0 THEN time_slice[current] - 1
                                            ELSE time_slice[current]
     IN  /\ time_slice' = [time_slice EXCEPT ![current] = left]
         /\ need_reschedule' = (need_reschedule \/ left <= 0)
  /\ UNCHANGED <<runqueue, current, panicked, depth, famVars, sigVars, state>>

irq_reschedule ==
  /\ At({"irq_tick"})
  /\ maybe_schedule("irq_sw", "irq_ret")
  /\ UNCHANGED <<panicked, famVars, sigVars, saved>>

irq_eret_ignores_signals ==
  /\ At({"irq_ret"})
  /\ Goto(saved[current]) /\ irqs' = TRUE
  /\ saved' = [saved EXCEPT ![current] = "none"]
  /\ UNCHANGED <<runqueue, current, need_reschedule, panicked, depth, famVars,
                 sigVars, state, time_slice>>

irq_eret ==
  /\ At({"irq_ret"}) /\ pending_signals[current] = <<>>
  /\ Goto(saved[current]) /\ irqs' = TRUE
  /\ saved' = [saved EXCEPT ![current] = "none"]
  /\ UNCHANGED <<runqueue, current, need_reschedule, panicked, depth, famVars,
                 sigVars, state, time_slice>>

\* Kernel::halt(), where a panic ends.
halt == panicked /\ UNCHANGED vars

-----------------------------------------------------------------------------
(* Steps the kernel takes by itself, and those a user program chooses.     *)
KernelStep ==
  \/ idle \/ kthreadd_yields \/ ReturnFromSwitch \/ ForkOut
  \/ (At({"start_init"}) /\ (exec \/ exec_failed))
  \/ (At({"kthreadd"}) /\ wait)
  \/ wait_for_child \/ reap \/ exit_locked
  \/ syscall_ret \/ handle_pending_signal \/ syscall_reschedule \/ eret
  \/ irq_reschedule \/ irq_eret

UserStep ==
  \/ fork \/ (At({"user"}) /\ (exec \/ exec_failed \/ wait)) \/ exit \/ sched_yield
  \/ \E pid \in Pids, sig \in Signals : kill(pid, sig)
  \/ \E sig \in Signals, set \in BOOLEAN : signal(sig, set)
  \/ console_read \/ console_read_done
  \/ \E locks \in BOOLEAN : other_syscall(locks)
  \/ page_fault

Next == KernelStep \/ UserStep \/ handle_irq \/ halt

Spec == Init /\ [][Next]_vars

(* The core keeps executing kernel code, and a timer IRQ stays pending     *)
(* until IRQs are unmasked (CNTP is level triggered and re-armed by every  *)
(* tick), so it is taken if they are unmasked again and again.  Nothing is *)
(* assumed of user programs.                                               *)
FairSpec == Spec /\ WF_vars(KernelStep) /\ SF_vars(handle_irq)

-----------------------------------------------------------------------------
(* Properties.                                                             *)

CpuTypeOK ==
  /\ runqueue \in Seq(Pids) /\ current \in Pids
  /\ need_reschedule \in BOOLEAN /\ irqs \in BOOLEAN /\ panicked \in BOOLEAN
  /\ depth \in Int

FamilyTypeOK ==
  /\ next_pid \in 3..(MaxPid + 1)
  /\ parent \in [Pids -> Pids \cup {nullptr}]
  /\ active_children \in [Pids -> SUBSET Pids]
  /\ terminated_children \in [Pids -> Seq(Pids)]

SignalTypeOK ==
  /\ pending_signals \in [Pids -> Seq(Signals)]
  /\ custom_handlers \in [Pids -> SUBSET Signals]

TaskTypeOK ==
  /\ pc \in [Pids -> Points] /\ saved \in [Pids -> Points]
  /\ state \in [Pids -> States]
  /\ time_slice \in [Pids -> 0..TASK_TIME_SLICE]

\* The type of every variable.
TypeOK == CpuTypeOK /\ FamilyTypeOK /\ SignalTypeOK /\ TaskTypeOK

OnQueue(p) == p \in SeqRange(runqueue)
OwnersOf(z) == {p \in Pids : z \in SeqRange(terminated_children[p])}
Exists(p) == pc[p] \notin {"none", "freed"}

\* schedule() and maybe_schedule() take the running task to be the first of
\* the run queue: the task in TPIDR_EL1 is always the one at its front.
CurrentIsFront == runqueue # <<>> /\ current = Head(runqueue)

\* A Task is owned by exactly one UniquePtr: one entry of the run queue while
\* it can still run, one entry of one _terminated_children list once it has
\* exited, and none before it is forked or after it is reaped.
OwnedOnce ==
  /\ \A i, j \in DOMAIN runqueue : i # j => runqueue[i] # runqueue[j]
  /\ \A p \in Pids : \A i, j \in DOMAIN terminated_children[p] :
       i # j => terminated_children[p][i] # terminated_children[p][j]
  /\ \A p \in Pids :
       /\ OnQueue(p) <=> Exists(p) /\ pc[p] # "zombie"
       /\ Cardinality(OwnersOf(p)) = IF pc[p] = "zombie" THEN 1 ELSE 0

\* _parent, _active_children and _terminated_children agree and refer to Task
\* objects that still exist, whatever the order in which parents and children
\* exit, are reaped and are adopted by init (~Task).
FamilyConsistent ==
  \A p \in Pids :
    /\ parent[p] # nullptr => Exists(parent[p])
    /\ active_children[p] = {c \in Pids : parent[c] = p /\ pc[c] # "zombie"}
    /\ SeqRange(terminated_children[p]) = {c \in Pids : parent[c] = p /\ pc[c] = "zombie"}

\* Points at which kernel code runs unlocked with IRQs unmasked.
Unlocked == {"user", "fault", "read", "exit", "sys_ret"}

\* fork(), exec() and exit() unbalance the one counter all tasks share: a fork
\* child unlocks what it never locked, exec() and exit() never unlock.  Still
\* the count stays positive after boot (the spin under "XXX: This must not
\* happen..." in unlock() is not reached), and no unlock() on the way unmasks
\* IRQs in the middle of an interrupt handler, a signal delivery or wait().
NeverUnmasksInKernel ==
  /\ depth >= 0
  /\ irqs => pc[current] \in Unlocked

\* A used-up time slice preempts the task in the very interrupt that finds it
\* used up, so a pending reschedule is never charged to another task.
RescheduleIsImmediate ==
  need_reschedule => pc[current] = "irq_tick" /\ time_slice[current] = 0

\* Every task on the run queue gets the core again (round robin), as long as
\* only finitely many tasks exit: exit() rotates the queue once more after it
\* has removed itself, and passes over the next task in line.
EveryTaskRuns == \A p \in Pids : OnQueue(p) ~> (current = p \/ panicked)

\* A task blocked in wait() returns once a child of it has exited.
WaitReturns ==
  \A p \in Pids :
    (pc[p] = "wait_sw" /\ terminated_children[p] # <<>>)
      ~> (pc[p] \in {"sys_ret", "kthreadd_yield"} \/ panicked)

\* A fatal signal reaches its task, posted by kill() or by a page fault,
\* unless that is blocked in wait() or is kthreadd, neither of which calls
\* handle_pending_signals().
KillTakesEffect ==
  \A p \in Pids \ {KTHREADD} :
    ({"SIGKILL", "SIGSEGV"} \cap SeqRange(pending_signals[p]) # {})
      ~> (pc[p] \in {"zombie", "freed", "wait", "wait_sw"} \/ panicked)

\* get_by_pid(), which kill() and ProcFS rely on, finds every task that can still
\* run and has no zombie among its ancestors.  The children of a zombie are in no
\* list it searches until the zombie is reaped.
RunnableIsFound ==
  LET up == [p \in Pids |-> IF parent[p] \in Pids THEN {parent[p]} ELSE {}] IN
  \A p \in Pids \ {IDLE, INIT, KTHREADD} :
    OnQueue(p) => found_by_pid(p) \/ \E a \in Closure(p, up) : pc[a] = "zombie"

=============================================================================
