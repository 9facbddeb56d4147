------------------------------ MODULE OpenFiles ------------------------------
(***************************************************************************)
(* The system-wide table of opened files (fs/VirtualFileSystem.cc) and the *)
(* descriptor tables of the tasks (proc/Task.cc).  Every call runs under   *)
(* the kernel mutex and is one step.  A File is found in the table by its  *)
(* vnode.  A lookup of a Stable name (TmpFS, ProcFS, a mount's root)       *)
(* yields the same vnode each time; FAT32 makes a new one for each lookup  *)
(* of a Fresh name, with the size that is on the disk.                     *)
(***************************************************************************)
EXTENDS Lib, FiniteSets

CONSTANTS
  Tasks, Stable, Fresh,
  NoParent,            \* names in directories that do not exist
  ExecNames,           \* the programs
  NR_TASK_FD_LIMITS,
  Closable,            \* bound: the descriptors that programs close
  Lens,                \* bound: bytes per read and write
  MaxFiles, MaxPos     \* bounds: File objects at a time, positions

ASSUME OpenFilesAssumption ==
  /\ NR_TASK_FD_LIMITS \in Nat /\ NR_TASK_FD_LIMITS > 3
  /\ Closable \subseteq 0..(NR_TASK_FD_LIMITS - 1) /\ Lens \subseteq Nat /\ MaxFiles \in Nat /\ MaxPos \in Nat
  /\ ExecNames \subseteq Stable \cup Fresh /\ Stable \cap Fresh = {}
  /\ "(nullptr)" \notin Stable \cup Fresh
  /\ IsFiniteSet(Tasks)

VARIABLES
  fd_table,       \* fd_table[t][i]: NULL, STD or a File
  state,          \* of each task: "none", "runs" or "zombie"
  opened_files,   \* _opened_files
  file,           \* file[f]: [name, size, pos]; NoName stands for a null vnode
  on_disk,        \* the size of each name that exists
  crashed         \* a null vnode has been dereferenced

vars == <<fd_table, state, opened_files, file, on_disk, crashed>>

NULL == -1
NoName == "(nullptr)"
STD == 0                       \* a task's File for fds 0 to 2, with a null vnode
Files == 1..MaxFiles
Names == Stable \cup Fresh
Fds == 0..(NR_TASK_FD_LIMITS - 1)
First(S) == CHOOSE x \in S : \A y \in S : x <= y

NoFile == [name |-> NoName, size |-> 0, pos |-> 0]
NewTable == [i \in Fds |-> IF i < 3 THEN STD ELSE NULL]
NoTable == [i \in Fds |-> NULL]

Init ==
  /\ \E t \in Tasks :
       /\ state = [u \in Tasks |-> IF u = t THEN "runs" ELSE "none"]
       /\ fd_table = [u \in Tasks |-> IF u = t THEN NewTable ELSE NoTable]
  /\ opened_files = <<>>
  /\ file = [f \in Files \cup {STD} |-> NoFile]
  /\ on_disk = <<>> /\ crashed = FALSE

Slots(f) == {x \in Tasks \X Fds : fd_table[x[1]][x[2]] = f}
Registered(f) == f \in Range(opened_files)
Exists(n) == n \in DOMAIN on_disk

\* The numbers of Files that do not exist.
Unused == {f \in Files : Slots(f) = {} /\ ~Registered(f)}

\* get_size(): a FAT32 vnode has its own copy.
get_size(f) == IF file[f].name \in Stable THEN on_disk[file[f].name] ELSE file[f].size

Runs(t) == state[t] = "runs" /\ ~crashed

-----------------------------------------------------------------------------
\* Where the table has the vnode that resolve_path(n) returns, a null one if
\* the name does not exist.
OpenedAs(n) ==
  {i \in DOMAIN opened_files :
     LET m == file[opened_files[i]].name
     IN  IF Exists(n) THEN n \in Stable /\ m = n ELSE m = NoName}

Created(n, creat) ==
  IF creat /\ n \notin NoParent
  THEN [m \in DOMAIN on_disk \cup {n} |-> IF Exists(m) THEN on_disk[m] ELSE 0]
  ELSE on_disk

\* The part of the state that open() and close() work on.
Tables == [fds |-> fd_table, table |-> opened_files, file |-> file]

register(n, disk, f) ==
  [Tables EXCEPT !.table = Append(@, f),
                 !.file[f] = IF n \in DOMAIN disk THEN [name |-> n, size |-> disk[n], pos |-> 0]
                             ELSE NoFile]

\* VFS::open(): the File it returns and the tables after it.  A creation that
\* fails registers a File with a null vnode, which the next failing lookup
\* finds.
open(n, creat) ==
  IF OpenedAs(n) # {} THEN <<opened_files[First(OpenedAs(n))], Tables>>
  ELSE IF Exists(n) \/ creat
  THEN <<First(Unused), register(n, Created(n, creat), First(Unused))>>
  ELSE <<NULL, Tables>>

\* The first free descriptor; a full table leaves the File registered.
allocate_fd_for_file(s, t, f) ==
  LET free == {i \in Fds : s.fds[t][i] = NULL} IN
  IF free = {} THEN s ELSE [s EXCEPT !.fds[t][First(free)] = f]

\* The state becomes s; Files without a reference are destroyed.
Becomes(s) ==
  /\ fd_table' = s.fds /\ opened_files' = s.table
  /\ file' = [f \in Files \cup {STD} |->
                IF f \in Range(s.table) \/ \E t \in Tasks, i \in Fds : s.fds[t][i] = f
                THEN s.file[f] ELSE NoFile]

sys_open(t, n, creat) ==
  LET o == open(n, creat) IN
  /\ Runs(t) /\ Unused # {}
  /\ Becomes(IF o[1] = NULL THEN o[2] ELSE allocate_fd_for_file(o[2], t, o[1]))
  /\ on_disk' = IF OpenedAs(n) # {} THEN on_disk ELSE Created(n, creat)
  /\ UNCHANGED <<state, crashed>>

\* Where the table has the vnode of File f.
SameVnode(s, f) ==
  {i \in DOMAIN s.table : \/ s.table[i] = f
                          \/ s.file[f].name = NoName /\ s.file[s.table[i]].name = NoName}

\* File::use_count() in a call of close() by task t: the descriptors (each task
\* has an STD of its own), the table, and `locals' variables.
use_count(s, t, f, locals) ==
  Cardinality({x \in Tasks \X Fds : s.fds[x[1]][x[2]] = f /\ (f = STD => x[1] = t)})
    + (IF f \in Range(s.table) THEN 1 ELSE 0) + locals

\* VFS::close(): rewind the File, and drop it from the table if nobody else
\* has it open.
close_always_drops(s, t, f, locals) ==
  IF SameVnode(s, f) = {} THEN s
  ELSE [s EXCEPT !.file[f].pos = 0, !.table = erase(@, First(SameVnode(s, f)))]

close_one_too_few(s, t, f, locals) ==
  IF SameVnode(s, f) = {} THEN s
  ELSE [s EXCEPT !.file[f].pos = 0,
                 !.table = IF use_count(s, t, f, locals) <= 2
                           THEN erase(@, First(SameVnode(s, f))) ELSE @]

close(s, t, f, locals) ==
  IF SameVnode(s, f) = {} THEN s
  ELSE [s EXCEPT !.file[f].pos = 0,
                 !.table = IF use_count(s, t, f, locals) <= 3
                           THEN erase(@, First(SameVnode(s, f))) ELSE @]

\* sys_close(): its variable and close()'s parameter refer to the File.
closed(s, t, i) == close([s EXCEPT !.fds[t][i] = NULL], t, s.fds[t][i], 2)

sys_close(t, i) ==
  /\ Runs(t) /\ fd_table[t][i] # NULL
  /\ Becomes(closed(Tables, t, i))
  /\ UNCHANGED <<state, on_disk, crashed>>

\* exec() opens and closes its program, but leaves it open after a format
\* error.  Only close()'s parameter refers to the File.
exec(t, n, valid) ==
  LET o == open(n, FALSE)
      null == o[1] # NULL /\ o[2].file[o[1]].name = NoName
  IN
  /\ Runs(t) /\ Unused # {}
  /\ Becomes(IF o[1] # NULL /\ ~null /\ valid THEN close(o[2], t, o[1], 1) ELSE o[2])
  /\ crashed' = null
  /\ UNCHANGED <<state, on_disk>>

\* VFS::write() replaces the whole content, wherever the position is.
sys_write(t, i, len) ==
  LET f == fd_table[t][i] IN
  /\ Runs(t) /\ i \notin {1, 2} /\ f # NULL
  /\ IF file[f].name = NoName THEN crashed' = TRUE /\ UNCHANGED <<file, on_disk>>
     ELSE /\ file[f].pos + len <= MaxPos
          /\ file' = [file EXCEPT ![f].pos = @ + len, ![f].size = len]
          /\ on_disk' = [on_disk EXCEPT ![file[f].name] = len]
          /\ UNCHANGED crashed
  /\ UNCHANGED <<fd_table, state, opened_files>>

\* VFS::read(): the subtraction of size_t wraps when the position is past the
\* end, and is then larger than any length.
sys_read(t, i, len) ==
  LET f == fd_table[t][i]
      there == get_size(f) - file[f].pos
      n == IF there < 0 \/ len < there THEN len ELSE there
  IN
  /\ Runs(t) /\ i # 0 /\ f # NULL
  /\ IF file[f].name = NoName THEN crashed' = TRUE /\ UNCHANGED file
     ELSE /\ file[f].pos + n <= MaxPos
          /\ file' = [file EXCEPT ![f].pos = @ + n]
          /\ UNCHANGED crashed
  /\ UNCHANGED <<fd_table, state, opened_files, on_disk>>

\* fork() does not clone the descriptors.
fork(t) ==
  /\ ~crashed /\ state[t] = "none"
  /\ state' = [state EXCEPT ![t] = "runs"]
  /\ fd_table' = [fd_table EXCEPT ![t] = NewTable]
  /\ UNCHANGED <<opened_files, file, on_disk, crashed>>

\* exit() closes the descriptors from 3 on, one after the other.
exit(t) ==
  LET after[i \in 2..(NR_TASK_FD_LIMITS - 1)] ==
        IF i = 2 THEN Tables
        ELSE LET s == after[i - 1] IN IF s.fds[t][i] = NULL THEN s ELSE closed(s, t, i)
  IN
  /\ Runs(t) /\ \E u \in Tasks \ {t} : state[u] = "runs"
  /\ Becomes(after[NR_TASK_FD_LIMITS - 1])
  /\ state' = [state EXCEPT ![t] = "zombie"]
  /\ UNCHANGED <<on_disk, crashed>>

\* ~Task() drops what is left of the descriptors, without close().
reap(t) ==
  /\ state[t] = "zombie" /\ ~crashed
  /\ state' = [state EXCEPT ![t] = "none"]
  /\ Becomes([Tables EXCEPT !.fds[t] = NoTable])
  /\ UNCHANGED <<on_disk, crashed>>

\* A data abort in the kernel is not handled: it stops.
Halted == crashed /\ UNCHANGED vars

Next ==
  \/ \E t \in Tasks :
       \/ \E n \in Names, creat \in BOOLEAN : sys_open(t, n, creat)
       \/ \E n \in ExecNames, valid \in BOOLEAN : exec(t, n, valid)
       \/ \E i \in Closable : sys_close(t, i)
       \/ \E i \in Fds, len \in Lens : sys_read(t, i, len) \/ sys_write(t, i, len)
       \/ fork(t)
       \/ exit(t)
       \/ reap(t)
  \/ Halted

Spec == Init /\ [][Next]_vars

-----------------------------------------------------------------------------
(* Properties.                                                             *)

\* The programs are on the SD card.  close() counts one reference less when
\* exec() calls it, so that running a TmpFS program which one descriptor has
\* open would take the File out of the table.
ProgramsOnFat32 == ExecNames \subseteq Fresh

\* The open files, the descriptors and the positions.
TypeOK ==
  /\ fd_table \in [Tasks -> [Fds -> Files \cup {STD, NULL}]]
  /\ state \in [Tasks -> {"none", "runs", "zombie"}]
  /\ Range(opened_files) \subseteq Files
  /\ \A f \in Files \cup {STD} : /\ file[f].name \in Names \cup {NoName}
                                 /\ file[f].pos \in 0..MaxPos
  /\ DOMAIN on_disk \subseteq Names /\ \A n \in DOMAIN on_disk : on_disk[n] \in Lens \cup {0}

\* "Check if this file has already been opened by any other process": open()
\* can tell, because the table never loses a File that a task still has open,
\* whoever closes it, execs it or exits first.
RegisteredWhileOpen ==
  \A f \in Files : Slots(f) # {} /\ file[f].name # NoName => Registered(f)

\* Tasks that have opened the same vnode share one File, and so one position;
\* a vnode that FAT32 made for one open() is used by one descriptor only.
OneHandlePerVnode ==
  /\ IsInjective(opened_files)
  /\ \A f, g \in {x \in Files : Registered(x)} :
       f # g /\ file[f].name = file[g].name => file[f].name \in Fresh
  /\ \A f \in Files : file[f].name \in Fresh => Cardinality(Slots(f)) <= 1

\* Once the last descriptor of a File is closed, by close() or exit(), the
\* File leaves the table: the test use_count() <= 3 counts right.
ClosedIsForgotten ==
  [][\A f \in Files :
       /\ \E x \in Slots(f) : state[x[1]] = "runs"
       /\ Slots(f)' = {}
       /\ file[f].name # NoName
       => ~Registered(f)']_vars

\* "read min(len, readable file data size) byte to buf from the opened file."
ReadWithinFile ==
  [][\A t \in Tasks, i \in Fds, len \in Lens :
       sys_read(t, i, len) /\ ~crashed' =>
         LET f == fd_table[t][i]
         IN  file'[f].pos > file[f].pos => file'[f].pos <= get_size(f)]_vars

\* open(), close(), fork() and exit(): whoever uses a file finds it in the table,
\* and under one entry.
TableExact == TypeOK /\ RegisteredWhileOpen /\ OneHandlePerVnode
=============================================================================
