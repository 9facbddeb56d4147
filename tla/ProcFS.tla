------------------------------- MODULE ProcFS -------------------------------
(***************************************************************************)
(* The root directory of /proc (fs/ProcFS.cc), as VFS::read() and path     *)
(* resolution use it while tasks come and go.  Directories of tasks are    *)
(* made and removed on the way of lookups and listings, never when a task  *)
(* starts or ends.  Every system call runs under the kernel mutex and is   *)
(* one step.                                                               *)
(*                                                                         *)
(* A name is a number of leading zeros and a number: <<0, 3>> is "3" and   *)
(* <<1, 3>> is "03", which atoi() reads as the same pid.  The four files   *)
(* of the root have the numbers 0 to -3.  Their contents, and those of     *)
(* /proc/<pid>/status, are left out.                                       *)
(***************************************************************************)
EXTENDS Integers, Sequences, SequencesExt, FiniteSets

CONSTANTS
  MaxPid,      \* bound: pids ever given out; init and kthreadd are 1 and 2
  MaxZeros     \* bound: leading zeros in a path

ASSUME ProcFSAssumption == MaxPid \in Nat /\ MaxPid >= 2 /\ MaxZeros \in Nat

INIT == 1
KTHREADD == 2
Pids == 1..MaxPid

VARIABLES
  next_pid,
  active_children, terminated_children,
  children,        \* the names in _root_inode->_children
  pos,             \* of the File of /proc, which all that open it share
  panicked,
  listed           \* history since the File was rewound: [shown, tasks, shrunk]

tasks == <<next_pid, active_children, terminated_children>>
files == <<children, pos, panicked>>
vars == <<tasks, files, listed>>

Switch == <<0, 0>>
Hello == <<0, -1>>
BuddyInfo == <<0, -2>>
SlobInfo == <<0, -3>>
nullptr == <<0, -4>>

all_digits(name) == name[2] > 0
atoi(name) == name[2]
sprintf(pid) == <<0, pid>>
TaskNames == (0..MaxZeros) \X Pids

\* How often each name has been handed out, the tasks that were there all the
\* time, and whether an entry disappeared that had been passed.
NotListing == [shown |-> [n \in TaskNames |-> 0], tasks |-> {}, shrunk |-> FALSE]

Init ==
  /\ next_pid = 3
  /\ active_children = [p \in Pids |-> <<>>]
  /\ terminated_children = [p \in Pids |-> <<>>]
  /\ children = <<Switch, Hello, BuddyInfo, SlobInfo>>
  /\ pos = 0
  /\ panicked = FALSE
  /\ listed = NotListing

-----------------------------------------------------------------------------
\* The tasks that a breadth-first search with the queue visits.
RECURSIVE Visited(_, _)
Visited(queue, kids) ==
  IF queue = <<>> THEN <<>>
  ELSE <<Head(queue)>> \o Visited(Tail(queue) \o kids[Head(queue)], kids)

get_active_tasks == <<INIT, KTHREADD>> \o Visited(<<INIT>>, active_children)

found(kids) == {INIT, KTHREADD} \cup ToSet(Visited(<<INIT>>, kids))

get_by_pid(p) == p \in found(active_children)

fork(p) ==
  /\ next_pid <= MaxPid
  /\ active_children' = [active_children EXCEPT ![p] = Append(@, next_pid)]
  /\ next_pid' = next_pid + 1
  /\ UNCHANGED <<terminated_children, files>>

exit(parent, p) ==
  /\ active_children' = [active_children EXCEPT ![parent] = RemoveFirst(@, p)]
  /\ terminated_children' = [terminated_children EXCEPT ![parent] = Append(@, p)]
  /\ UNCHANGED <<next_pid, files>>

\* wait() destroys a zombie and the zombies it owns.  Init adopts their
\* children that still run.
reap(parent) ==
  LET dead == Visited(<<Head(terminated_children[parent])>>, terminated_children)
      orphans == FlattenSeq([i \in DOMAIN dead |-> active_children[dead[i]]])
      Without(f) == [p \in Pids |-> IF p \in ToSet(dead) THEN <<>> ELSE f[p]]
  IN
  /\ active_children' = [Without(active_children) EXCEPT ![INIT] = @ \o orphans]
  /\ terminated_children' = [Without(terminated_children) EXCEPT ![parent] = Tail(@)]
  /\ UNCHANGED <<next_pid, files>>

-----------------------------------------------------------------------------
stale == SelectSeq(children, LAMBDA c : all_digits(c) /\ ~get_by_pid(atoi(c)))

HasDirectory(c, p) == \E i \in DOMAIN c : all_digits(c[i]) /\ atoi(c[i]) = p

\* The children after repopulate_task_directories(): List::remove_if() removes
\* one directory at most.
repopulate_in_front ==
  LET left == IF stale = <<>> THEN children ELSE RemoveFirst(children, Head(stale))
      Add(c, p) == IF HasDirectory(c, p) THEN c ELSE InsertAt(c, 5, sprintf(p))
  IN  FoldLeft(Add, left, get_active_tasks)

repopulate_unsearched ==
  LET left == IF stale = <<>> THEN children ELSE RemoveFirst(children, Head(stale))
      Add(c, p) == IF HasDirectory(children, p) THEN c ELSE Append(c, sprintf(p))
  IN  FoldLeft(Add, left, get_active_tasks)

repopulate_task_directories ==
  LET left == IF stale = <<>> THEN children ELSE RemoveFirst(children, Head(stale))
      Add(c, p) == IF HasDirectory(c, p) THEN c ELSE Append(c, sprintf(p))
  IN  FoldLeft(Add, left, get_active_tasks)

NR_SPECIAL_ENTRIES == 2

\* For 0 and 1, the directory itself and its parent, whose names are not read.
get_ith_child(c, i) ==
  LET k == i - NR_SPECIAL_ENTRIES + 1 IN
  IF i < NR_SPECIAL_ENTRIES THEN Switch ELSE IF k \in DOMAIN c THEN c[k] ELSE nullptr

get_children_count(c) == NR_SPECIAL_ENTRIES + Len(c)

\* read() on the directory by any task that has it open: one name, or the end
\* of the listing.
read_directory ==
  LET c == repopulate_task_directories IN
  /\ ~panicked
  /\ children' = c
  /\ pos' = IF pos >= get_children_count(c) THEN 0 ELSE pos + 1
  /\ panicked' = (pos < get_children_count(c) /\ get_ith_child(c, pos) = nullptr)
  /\ UNCHANGED tasks

\* close() rewinds the File for all the others; a File that is opened anew
\* starts at 0 too.
close_directory ==
  /\ ~panicked
  /\ pos' = 0
  /\ UNCHANGED <<tasks, children, panicked>>

\* A path that leads to /proc/<name>: access(), open() or any other call.  The
\* directory is looked for by its name, the task by its number.
get_child(name) ==
  /\ ~panicked
  /\ children' = CASE ~get_by_pid(atoi(name)) -> RemoveFirst(children, name)
                   [] name \in ToSet(children) -> children
                   [] OTHER -> Append(children, name)
  /\ UNCHANGED <<tasks, pos, panicked>>

-----------------------------------------------------------------------------
\* An entry disappears that the listing has passed.
Shrinks ==
  ToSet(SubSeq(children, 1, pos - NR_SPECIAL_ENTRIES)) \ ToSet(children') # {}

Watch ==
  LET now == found(active_children')
      name == get_ith_child(children', pos)
  IN  listed' =
        CASE pos' = 0 -> NotListing
          [] pos = 0 /\ pos' = 1 -> [NotListing EXCEPT !.tasks = now]
          [] OTHER ->
               [shown |-> [n \in TaskNames |->
                             IF pos' > pos /\ pos >= NR_SPECIAL_ENTRIES /\ name = n
                             THEN listed.shown[n] + 1 ELSE listed.shown[n]],
                tasks |-> listed.tasks \cap now,
                shrunk |-> listed.shrunk \/ Shrinks]

\* Bound: the paths that programs use; init and kthreadd never end.
LookedUp == (0..MaxZeros) \X (3..MaxPid)

Alive == {INIT} \cup UNION {ToSet(active_children[p]) : p \in Pids}

Step ==
  \/ \E p \in Alive : fork(p)
  \/ \E parent \in Pids : \E p \in ToSet(active_children[parent]) : exit(parent, p)
  \/ \E parent \in Alive : terminated_children[parent] # <<>> /\ reap(parent)
  \/ read_directory
  \/ close_directory
  \/ \E name \in LookedUp : get_child(name)

Next == Step /\ Watch

Spec == Init /\ [][Next]_vars

-----------------------------------------------------------------------------
(* Properties.                                                             *)

\* The special files come first; a task's directory is never of a pid still to come.
TypeOK ==
  /\ IsPrefix(<<Switch, Hello, BuddyInfo, SlobInfo>>, children)
  /\ \A c \in ToSet(children) : all_digits(c) => c \in TaskNames /\ atoi(c) < next_pid
  /\ pos \in Nat

\* However lookups and listings create directories, a name is there once: "3"
\* and "03" may both be, for one task, but none of them twice.
OneDirectoryPerName == IsInjective(children)

\* read() never finds a null child: "get_ith_child() is probably buggy".
NeverPanics == ~panicked

\* The tasks that have /proc open share one position, so each entry is handed
\* out to one of them.  Together, from the first entry to the end and unless
\* one of them closes the directory, they are shown every task that was there
\* all the time, and no name twice -- unless a directory that had been passed
\* was removed meanwhile: positions are indices, so a removal makes the reads
\* skip an entry.
ListsEveryTask ==
  [][pos' = 0 /\ pos >= get_children_count(children') /\ ~listed.shrunk /\ ~Shrinks =>
       /\ \A p \in listed.tasks : \E n \in TaskNames : atoi(n) = p /\ listed.shown[n] = 1
       /\ \A n \in TaskNames : listed.shown[n] <= 1]_vars

\* What read() and get_child() meet in /proc while tasks come and go: a name once,
\* and never a null child.
ProcSound == TypeOK /\ OneDirectoryPerName /\ NeverPanics
=============================================================================
