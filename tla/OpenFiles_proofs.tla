-------------------------- MODULE OpenFiles_proofs --------------------------
(***************************************************************************)
(* The table of opened files has what the tasks have open, and forgets     *)
(* what they have closed.                                                  *)
(***************************************************************************)
EXTENDS OpenFiles, FiniteSetTheorems, Lemmas

\* The descriptors that refer to File f in the tables s.
Holders(s, f) == {x \in Tasks \X Fds : s.fds[x[1]][x[2]] = f}

\* The states of a File.
FileStates == [name : Names \cup {NoName}, size : Lens \cup {0}, pos : 0..MaxPos]

\* The states of what open() and close() work on.
TableStates ==
  [fds : [Tasks -> [Fds -> Files \cup {STD, NULL}]],
   table : Seq(Files),
   file : [Files \cup {STD} -> FileStates]]

\* The table has every File that a descriptor refers to.
FoundWhileHeld(s) ==
  \A f \in Files : Holders(s, f) # {} /\ s.file[f].name # NoName => f \in Range(s.table)

\* A vnode that is looked up again has one entry.
OneEntry(s) ==
  \A f, g \in Range(s.table) : f # g /\ s.file[f].name = s.file[g].name => s.file[f].name \in Fresh

\* A File on FAT32 has one descriptor at most.
OneHolder(s) ==
  \A f \in Files : s.file[f].name \in Fresh => \A x, y \in Holders(s, f) : x = y

\* A File has a vnode of a name that exists, or a null one.
NamesExist(s, d) ==
  s.file[STD].name = NoName /\ \A f \in Files : s.file[f].name \in DOMAIN d \cup {NoName}

\* The sizes on the disk.
DiskOK(d) == DOMAIN d \subseteq Names /\ \A n \in DOMAIN d : d[n] \in Lens \cup {0}

\* What open(), close() and the steps of exit() keep, in the middle of a call as well.
TablesOK(s, d) ==
  /\ s \in TableStates
  /\ IsInjective(s.table) /\ FoundWhileHeld(s) /\ OneEntry(s) /\ OneHolder(s) /\ NamesExist(s, d)

\* The sets that number Files and descriptors are disjoint and finite.
LEMMA Numbers ==
  /\ Fds \subseteq Nat /\ Files \subseteq Nat /\ STD \notin Files /\ NULL \notin Files /\ STD # NULL
  /\ IsFiniteSet(Tasks \X Fds) /\ NoName \notin Names /\ Stable \cap Fresh = {} /\ NULL \notin Nat
<1>1. IsFiniteSet(Fds)
  BY OpenFilesAssumption, FS_Interval DEF Fds
<1>2. IsFiniteSet(Tasks \X Fds)
  BY <1>1, OpenFilesAssumption, FS_Product
<1>3. STD = 0 /\ NULL = -1 /\ NoName = "(nullptr)"
  BY DEF STD, NULL, NoName
<1>4. Files \subseteq Nat /\ 0 \notin Files /\ Fds \subseteq Nat
  BY OpenFilesAssumption DEF Files, Fds
<1> QED BY <1>2, <1>3, <1>4, OpenFilesAssumption DEF Names

\* find_if() and the search for a free descriptor return one of those they look for.
LEMMA FirstIn ==
  ASSUME NEW S \in SUBSET Nat, S # {}
  PROVE  First(S) \in S
BY Least, Zenon DEF First

\* VFS::open() keeps the tables right, and returns a File with the vnode of the name, or a null one;
\* one on FAT32 is new.
LEMMA OpenKeeps ==
  ASSUME TablesOK(Tables, on_disk), DiskOK(on_disk), Unused # {}, NEW n \in Names,
         NEW creat \in BOOLEAN
  PROVE  LET o == open(n, creat)
             d == IF OpenedAs(n) # {} THEN on_disk ELSE Created(n, creat)
         IN  /\ TablesOK(o[2], d) /\ DiskOK(d) /\ o[2].fds = fd_table
             /\ o[1] # NULL => /\ o[1] \in Range(o[2].table)
                               /\ o[2].file[o[1]].name \in {n, NoName}
                               /\ o[2].file[o[1]].name \in Fresh => Holders(o[2], o[1]) = {}
<1> DEFINE o == open(n, creat)
           d == IF OpenedAs(n) # {} THEN on_disk ELSE Created(n, creat)
<1> SUFFICES /\ TablesOK(o[2], d) /\ DiskOK(d) /\ o[2].fds = fd_table
             /\ o[1] # NULL => /\ o[1] \in Range(o[2].table)
                               /\ o[2].file[o[1]].name \in {n, NoName}
                               /\ o[2].file[o[1]].name \in Fresh => Holders(o[2], o[1]) = {}
  BY Zenon
<1>1. /\ Tables.fds = fd_table /\ Tables.table = opened_files /\ Tables.file = file
          /\ Tables \in TableStates
      /\ IsInjective(opened_files) /\ FoundWhileHeld(Tables) /\ OneEntry(Tables)
          /\ OneHolder(Tables)
      /\ NamesExist(Tables, on_disk)
  BY DEF Tables, TablesOK
<1>2. opened_files \in Seq(Files) /\ DOMAIN opened_files \subseteq Nat
      /\ fd_table \in [Tasks -> [Fds -> Files \cup {STD, NULL}]]
          /\ file \in [Files \cup {STD} -> FileStates]
  BY <1>1 DEF TableStates
<1>3. CASE OpenedAs(n) # {}
  <2>1. First(OpenedAs(n)) \in OpenedAs(n)
    <3>1. OpenedAs(n) \in SUBSET Nat
      BY <1>2 DEF OpenedAs
    <3> QED BY <1>3, <3>1, FirstIn
  <2>2. PICK i \in DOMAIN opened_files : /\ o[1] = opened_files[i]
                                         /\ IF Exists(n) THEN n \in Stable
                                             /\ file[opened_files[i]].name = n
                                            ELSE file[opened_files[i]].name = NoName
    BY <1>3, <2>1, Zenon DEF open, OpenedAs
  <2>3. o[2] = Tables /\ d = on_disk
    BY <1>3 DEF open
  <2>4. o[1] \in Range(opened_files) /\ file[o[1]].name \in {n, NoName} \ Fresh
    BY <2>2, Numbers DEF Range, Names
  <2> QED BY <1>1, <2>3, <2>4, Zenon
<1>4. CASE OpenedAs(n) = {} /\ ~(Exists(n) \/ creat)
  <2>1. o = <<NULL, Tables>> /\ d = on_disk
    BY <1>4 DEF open, Created
  <2>2. o[1] = NULL /\ o[2] = Tables
    BY <2>1
  <2> HIDE DEF o, d
  <2> QED BY <1>1, <2>1, <2>2, Zenon
<1>5. CASE OpenedAs(n) = {} /\ (Exists(n) \/ creat)
  <2> DEFINE f == First(Unused)
             r == register(n, d, f)
  <2>1. f \in Unused /\ f \in Files
    <3>1. Unused \in SUBSET Nat /\ Unused \subseteq Files
      BY Numbers, Zenon DEF Unused
    <3> QED BY <3>1, FirstIn, Zenon
  <2>2. Slots(f) = {} /\ f \notin Range(opened_files)
    BY <2>1 DEF Unused, Registered
  <2>3. o = <<f, r>>
    BY <1>5 DEF open
  <2>4. /\ DOMAIN on_disk \subseteq DOMAIN d /\ DiskOK(d)
    <3>1. CASE creat /\ n \notin NoParent
      <4>1. d = [m \in DOMAIN on_disk \cup {n} |-> IF Exists(m) THEN on_disk[m] ELSE 0]
        BY <1>5, <3>1 DEF Created
      <4> QED BY <4>1 DEF DiskOK, Exists
    <3>2. CASE ~(creat /\ n \notin NoParent)
      <4>1. d = on_disk
        BY <1>5, <3>2 DEF Created
      <4> QED BY <4>1
    <3> QED BY <3>1, <3>2
  <2> HIDE DEF f, d
  <2> DEFINE v == IF n \in DOMAIN d THEN [name |-> n, size |-> d[n], pos |-> 0] ELSE NoFile
  <2>5. v \in FileStates /\ v.name \in {n, NoName} /\ v.name \in DOMAIN d \cup {NoName}
    BY <2>4, OpenFilesAssumption DEF FileStates, NoFile, DiskOK
  <2>6. /\ r.fds = fd_table /\ r.table = Append(opened_files, f)
        /\ r.file = [file EXCEPT ![f] = v]
        /\ r = [fds |-> fd_table, table |-> Append(opened_files, f),
                file |-> [file EXCEPT ![f] = v]]
    <3>1. r = [Tables EXCEPT !.table = Append(@, f), !.file[f] = v]
      BY DEF register
    <3> HIDE DEF r, v
    <3> QED BY <3>1, Zenon DEF Tables
  <2>7. \A i \in DOMAIN opened_files :
          /\ Exists(n) /\ n \in Stable => file[opened_files[i]].name # n
          /\ ~Exists(n) => file[opened_files[i]].name # NoName
    BY <1>5 DEF OpenedAs
  <2> HIDE DEF r, v
  <2>8. /\ r.table \in Seq(Files) /\ IsInjective(r.table)
            /\ Range(r.table) = Range(opened_files) \cup {f}
    <3> DEFINE T == Append(opened_files, f)
    <3>1. T \in Seq(Files) /\ IsInjective(T) /\ Range(T) = Range(opened_files) \cup {f}
      BY <1>1, <1>2, <2>1, <2>2, Appended
    <3> QED BY <2>6, <3>1, Zenon
  <2>9. r.file \in [Files \cup {STD} -> FileStates] /\ r.file[f] = v
        /\ \A g \in Files \cup {STD} : g # f => r.file[g] = file[g]
    BY <1>2, <2>1, <2>5, <2>6, Zenon
  <2>10. \A g : Holders(r, g) = Holders(Tables, g)
    BY <1>1, <2>6, Zenon DEF Holders
  <2>11. Holders(r, f) = {}
    BY <1>1, <2>2, <2>6 DEF Slots, Holders
  <2>12. r \in TableStates
    BY <1>2, <2>6, <2>8, <2>9, Zenon DEF TableStates
  <2>13. FoundWhileHeld(r)
    BY <1>1, <2>8, <2>9, <2>10, Zenon DEF FoundWhileHeld
  <2>14. OneHolder(r)
    BY <1>1, <2>9, <2>10, <2>11, Zenon DEF OneHolder
  <2>15. NamesExist(r, d)
    BY <1>1, <2>1, <2>4, <2>5, <2>9, Numbers, Zenon DEF NamesExist
  <2>16. \A g \in Range(opened_files) : file[g].name = v.name => v.name \in Fresh
    <3> SUFFICES ASSUME NEW i \in DOMAIN opened_files, file[opened_files[i]].name = v.name
                 PROVE  v.name \in Fresh
      BY DEF Range
    <3>1. CASE Exists(n)
      <4>1. n \in DOMAIN d
        BY <2>4, <3>1 DEF Exists
      <4>2. v.name = n
        BY <4>1 DEF v
      <4> QED BY <2>7, <3>1, <4>2 DEF Names
    <3>2. CASE ~Exists(n)
      <4>1. file[opened_files[i]].name # NoName
        BY <2>7, <3>2
      <4>2. opened_files[i] \in Files
        BY <1>2
      <4>3. file[opened_files[i]].name \in DOMAIN on_disk
        BY <1>1, <4>1, <4>2 DEF NamesExist
      <4>4. v.name = n
        BY <2>5, <4>1
      <4> QED BY <3>2, <4>3, <4>4 DEF Exists
    <3> QED BY <3>1, <3>2
  <2>17. OneEntry(r)
    <3> SUFFICES ASSUME NEW g \in Range(r.table), NEW h \in Range(r.table), g # h,
                        r.file[g].name = r.file[h].name
                 PROVE  r.file[g].name \in Fresh
      BY DEF OneEntry
    <3>0. Range(opened_files) \subseteq Files
      BY <1>2 DEF Range
    <3>1. CASE g = f \/ h = f
      BY <2>2, <2>8, <2>9, <2>16, <3>0, <3>1
    <3>2. CASE g # f /\ h # f
      BY <1>1, <2>8, <2>9, <3>0, <3>2, Zenon DEF OneEntry
    <3> QED BY <3>1, <3>2
  <2>18. TablesOK(r, d)
    BY <2>8, <2>12, <2>13, <2>14, <2>15, <2>17 DEF TablesOK
  <2>19. o[1] = f /\ o[2] = r
    BY <2>3
  <2> HIDE DEF o
  <2>20. f \in Range(r.table) /\ r.file[f].name \in {n, NoName}
    BY <2>5, <2>8, <2>9
  <2> QED BY <2>4, <2>6, <2>11, <2>18, <2>19, <2>20, Zenon
<1> QED BY <1>3, <1>4, <1>5, Zenon

\* allocate_fd_for_file(), with a File that open() returned.
LEMMA AllocateKeeps ==
  ASSUME NEW s, NEW d, TablesOK(s, d), NEW t \in Tasks, NEW f \in Range(s.table),
         s.file[f].name \in Fresh => Holders(s, f) = {}
  PROVE  /\ TablesOK(allocate_fd_for_file(s, t, f), d)
         /\ \A g \in Files : Holders(s, g) \subseteq Holders(allocate_fd_for_file(s, t, f), g)
<1> DEFINE free == {i \in Fds : s.fds[t][i] = NULL}
           k == First(free)
           r == allocate_fd_for_file(s, t, f)
<1>1. CASE free = {}
  BY <1>1 DEF allocate_fd_for_file
<1>2. CASE free # {}
  <2>1. k \in free
    <3>1. free \in SUBSET Nat
      BY Numbers, Zenon
    <3> QED BY <1>2, <3>1, FirstIn
  <2>2. k \in Fds /\ s.fds[t][k] = NULL
    BY <2>1
  <2>3. s \in TableStates /\ f \in Files
    BY DEF TablesOK, TableStates, Range
  <2>4. r = [s EXCEPT !.fds[t][k] = f]
    BY <1>2 DEF allocate_fd_for_file
  <2> HIDE DEF r, k
  <2>5. /\ r \in TableStates /\ r.table = s.table /\ r.file = s.file
        /\ \A u \in Tasks, i \in Fds : r.fds[u][i] = IF u = t /\ i = k THEN f ELSE s.fds[u][i]
    BY <2>2, <2>3, <2>4, Zenon DEF TableStates
  <2>6. \A g \in Files :
          Holders(r, g) = IF g = f THEN Holders(s, f) \cup {<<t, k>>} ELSE Holders(s, g)
    <3> TAKE g \in Files
    <3>1. g # NULL
      BY Numbers
    <3>2. \A x \in Tasks \X Fds : r.fds[x[1]][x[2]] = g <=> (s.fds[x[1]][x[2]] = g \/ (g = f
          /\ x = <<t, k>>))
      BY <2>2, <2>5, <3>1
    <3> QED BY <2>2, <3>2 DEF Holders
  <2>7. FoundWhileHeld(r) /\ OneHolder(r) /\ OneEntry(r) /\ NamesExist(r, d) /\ IsInjective(r.table)
    BY <2>3, <2>5, <2>6 DEF TablesOK, FoundWhileHeld, OneHolder, OneEntry, NamesExist
  <2> QED BY <2>5, <2>6, <2>7, Zenon DEF TablesOK, r
<1> QED BY <1>1, <1>2

\* VFS::close() keeps the tables right if a count of at most 3 means that no descriptor is left.
LEMMA CloseKeeps ==
  ASSUME NEW s, NEW d, TablesOK(s, d), NEW t \in Tasks, NEW f \in Files \cup {STD}, NEW locals,
         use_count(s, t, f, locals) <= 3 /\ s.file[f].name # NoName => Holders(s, f) = {}
  PROVE  LET r == close(s, t, f, locals)
         IN  /\ TablesOK(r, d) /\ r.fds = s.fds
             /\ Range(r.table) \subseteq Range(s.table)
             /\ \A g \in Files : r.file[g].name = s.file[g].name
             /\ use_count(s, t, f, locals) <= 3
                 /\ s.file[f].name # NoName => f \notin Range(r.table)
<1> DEFINE r == close(s, t, f, locals)
           k == First(SameVnode(s, f))
<1>1. /\ s \in TableStates /\ s.table \in Seq(Files) /\ s.file \in [Files \cup {STD} -> FileStates]
      /\ IsInjective(s.table) /\ FoundWhileHeld(s) /\ OneEntry(s) /\ OneHolder(s)
      /\ NamesExist(s, d)
  BY Zenon DEF TablesOK, TableStates
<1>2. CASE SameVnode(s, f) = {}
  <2>1. r = s
    BY <1>2 DEF close
  <2>2. f \notin Range(s.table)
    BY <1>2 DEF SameVnode, Range
  <2> QED BY <2>1, <2>2
<1>3. CASE SameVnode(s, f) # {}
  <2>1. k \in SameVnode(s, f)
    <3>1. SameVnode(s, f) \in SUBSET Nat
      BY <1>1 DEF SameVnode
    <3> QED BY <1>3, <3>1, FirstIn
  <2>2. /\ k \in DOMAIN s.table
        /\ s.table[k] = f \/ (s.file[f].name = NoName /\ s.file[s.table[k]].name = NoName)
    BY <2>1, Zenon DEF SameVnode
  <2> DEFINE T == IF use_count(s, t, f, locals) <= 3 THEN erase(s.table, k) ELSE s.table
  <2>3. r = [s EXCEPT !.file[f].pos = 0, !.table = T]
    BY <1>3 DEF close
  <2>4. /\ T \in Seq(Files) /\ IsInjective(T) /\ Range(T) \subseteq Range(s.table)
        /\ use_count(s, t, f, locals) <= 3 => Range(T) = Range(s.table) \ {s.table[k]}
        /\ ~(use_count(s, t, f, locals) <= 3) => Range(T) = Range(s.table)
    <3> DEFINE R == erase(s.table, k)
    <3>1. R \in Seq(Files) /\ IsInjective(R) /\ Range(R) = Range(s.table) \ {s.table[k]}
      BY <1>1, <2>2, RemovedAt, Zenon
    <3>2. CASE use_count(s, t, f, locals) <= 3
      <4>1. T = R
        BY <3>2
      <4> QED BY <3>1, <3>2, <4>1, Zenon
    <3>3. CASE ~(use_count(s, t, f, locals) <= 3)
      <4>1. T = s.table
        BY <3>3
      <4> QED BY <1>1, <3>3, <4>1, Zenon
    <3> QED BY <3>2, <3>3, Zenon
  <2> HIDE DEF T, r, k
  <2>5. [s.file[f] EXCEPT !.pos = 0] \in FileStates
        /\ [s.file[f] EXCEPT !.pos = 0].name = s.file[f].name
    <3>1. s.file[f] \in FileStates /\ 0 \in 0..MaxPos
      BY <1>1, OpenFilesAssumption
    <3> QED BY <3>1 DEF FileStates
  <2>6. r = [s EXCEPT !.file = [s.file EXCEPT ![f] = [s.file[f] EXCEPT !.pos = 0]], !.table = T]
    BY <1>1, <2>3 DEF TableStates
  <2>7. /\ r \in TableStates /\ r.fds = s.fds /\ r.table = T
        /\ r.file = [s.file EXCEPT ![f] = [s.file[f] EXCEPT !.pos = 0]]
    BY <1>1, <2>4, <2>5, <2>6, Zenon DEF TableStates
  <2>8. \A g \in Files \cup {STD} : r.file[g].name = s.file[g].name
    BY <1>1, <2>5, <2>7
  <2>9. \A g : Holders(r, g) = Holders(s, g)
    BY <2>7 DEF Holders
  <2>10. ASSUME NEW g \in Files, Holders(s, g) # {}, s.file[g].name # NoName PROVE g \in Range(T)
    <3>1. g \in Range(s.table)
      BY <1>1, <2>10 DEF FoundWhileHeld
    <3>2. CASE use_count(s, t, f, locals) <= 3
      <4>1. s.table[k] # g
        BY <2>2, <2>10, <3>2
      <4> QED BY <2>4, <3>1, <3>2, <4>1
    <3> QED BY <2>4, <3>1, <3>2
  <2>11. FoundWhileHeld(r)
    BY <2>7, <2>8, <2>9, <2>10 DEF FoundWhileHeld
  <2>12. Range(T) \subseteq Files
    BY <2>4 DEF Range
  <2>13. OneEntry(r) /\ OneHolder(r) /\ NamesExist(r, d)
    BY <1>1, <2>4, <2>7, <2>8, <2>9, <2>12 DEF OneEntry, OneHolder, NamesExist
  <2>14. TablesOK(r, d)
    BY <2>4, <2>7, <2>11, <2>13 DEF TablesOK
  <2>15. use_count(s, t, f, locals) <= 3 /\ s.file[f].name # NoName => f \notin Range(T)
    BY <2>2, <2>4, Zenon
  <2>16. /\ TablesOK(r, d) /\ r.fds = s.fds /\ Range(r.table) \subseteq Range(s.table)
         /\ \A g \in Files : r.file[g].name = s.file[g].name
         /\ use_count(s, t, f, locals) <= 3 /\ s.file[f].name # NoName => f \notin Range(r.table)
    BY <2>4, <2>7, <2>8, <2>14, <2>15
  <2> QED BY <2>16 DEF r
<1> QED BY <1>2, <1>3

\* Tables with fewer descriptors and the same Files are right.
LEMMA FewerHolders ==
  ASSUME NEW s, NEW d, TablesOK(s, d), NEW r \in TableStates, r.table = s.table,
         \A f \in Files \cup {STD} : r.file[f].name = s.file[f].name,
         \A f \in Files : Holders(r, f) \subseteq Holders(s, f),
         NEW e, DOMAIN e = DOMAIN d
  PROVE  TablesOK(r, e)
<1>1. Range(s.table) \subseteq Files
  <2>1. s.table \in Seq(Files)
    BY DEF TablesOK, TableStates
  <2> QED BY <2>1 DEF Range
<1>2. IsInjective(r.table)
  BY DEF TablesOK
<1>3. FoundWhileHeld(r)
  BY Zenon DEF TablesOK, FoundWhileHeld
<1>4. OneEntry(r)
  <2> SUFFICES ASSUME NEW f \in Range(r.table), NEW g \in Range(r.table), f # g,
                      r.file[f].name = r.file[g].name
               PROVE  r.file[f].name \in Fresh
    BY Zenon DEF OneEntry
  <2>1. f \in Files /\ g \in Files
    BY <1>1
  <2>2. s.file[f].name = r.file[f].name /\ s.file[g].name = r.file[g].name
    BY <2>1
  <2> QED BY <2>2, Zenon DEF TablesOK, OneEntry
<1>5. OneHolder(r)
  BY Zenon DEF TablesOK, OneHolder
<1>6. NamesExist(r, e)
  BY Zenon DEF TablesOK, NamesExist
<1> QED BY <1>2, <1>3, <1>4, <1>5, <1>6, Zenon DEF TablesOK

\* It does mean that when sys_close() or exit() calls close().
LEMMA UseCount ==
  ASSUME NEW s, NEW t \in Tasks, NEW f \in Files, f \in Range(s.table)
  PROVE  use_count(s, t, f, 2) <= 3 <=> Holders(s, f) = {}
<1>1. {x \in Tasks \X Fds : s.fds[x[1]][x[2]] = f /\ (f = STD => x[1] = t)} = Holders(s, f)
  BY Numbers DEF Holders
<1>2. IsFiniteSet(Holders(s, f))
  BY Numbers, FS_Subset DEF Holders
<1>3. Cardinality(Holders(s, f)) \in Nat /\ (Cardinality(Holders(s, f)) = 0 <=> Holders(s, f) = {})
  BY <1>2, FS_CardinalityType, FS_EmptySet
<1>4. use_count(s, t, f, 2) = Cardinality(Holders(s, f)) + 1 + 2
  BY <1>1, Zenon DEF use_count
<1> QED BY <1>3, <1>4

\* The tables s, in the middle of exit(), have no entry for a File that has lost its last descriptor.
Forgot(s) ==
  /\ \A f \in Files : s.file[f].name = file[f].name
  /\ \A f \in Files :
       Slots(f) # {} /\ file[f].name # NoName /\ Holders(s, f) = {} => f \notin Range(s.table)

\* sys_close(), and each round of the loop of exit().
LEMMA ClosedKeeps ==
  ASSUME NEW s, NEW d, TablesOK(s, d), Forgot(s), NEW t \in Tasks, NEW i \in Fds, s.fds[t][i] # NULL
  PROVE  TablesOK(closed(s, t, i), d) /\ Forgot(closed(s, t, i))
<1> DEFINE f == s.fds[t][i]
           s1 == [s EXCEPT !.fds[t][i] = NULL]
           r == closed(s, t, i)
<1>1. s \in TableStates /\ f \in Files \cup {STD}
  <2>1. s \in TableStates
    BY Zenon DEF TablesOK
  <2>2. s.fds \in [Tasks -> [Fds -> Files \cup {STD, NULL}]]
    BY <2>1 DEF TableStates
  <2>3. f \in Files \cup {STD, NULL}
    BY <2>2
  <2> QED BY <2>1, <2>3
<1>2. r = close(s1, t, f, 2)
  BY DEF closed
<1>3. /\ s1 \in TableStates /\ s1.table = s.table /\ s1.file = s.file
      /\ \A u \in Tasks, j \in Fds : s1.fds[u][j] = IF u = t /\ j = i THEN NULL ELSE s.fds[u][j]
  BY <1>1, Zenon DEF TableStates
<1> HIDE DEF f, s1, r
<1>4. \A g \in Files : Holders(s1, g) = Holders(s, g) \ {<<t, i>>}
  <2> TAKE g \in Files
  <2>1. \A x \in Tasks \X Fds : s1.fds[x[1]][x[2]] = g <=> (s.fds[x[1]][x[2]] = g /\ x # <<t, i>>)
    <3>1. g # NULL
      BY Numbers
    <3> QED BY <1>3, <3>1
  <2> QED BY <2>1 DEF Holders
<1>5. \A g \in Files : g # f => Holders(s1, g) = Holders(s, g)
  <2> TAKE g \in Files
  <2>1. <<t, i>> \in Holders(s, g) => g = f
    BY DEF Holders, f
  <2> QED BY <1>4, <2>1
<1>6. TablesOK(s1, d)
  <2>1. \A g \in Files : Holders(s1, g) \subseteq Holders(s, g)
    BY <1>4
  <2>2. \A g \in Files \cup {STD} : s1.file[g].name = s.file[g].name
    BY <1>3, Zenon
  <2> QED BY <1>3, <2>1, <2>2, FewerHolders, Zenon
<1>7. use_count(s1, t, f, 2) <= 3 /\ s1.file[f].name # NoName => Holders(s1, f) = {}
  <2> SUFFICES ASSUME use_count(s1, t, f, 2) <= 3, s1.file[f].name # NoName, Holders(s1, f) # {}
               PROVE  FALSE
    OBVIOUS
  <2>1. f \in Files
    BY <1>1, <1>6, Zenon DEF TablesOK, NamesExist
  <2>2. f \in Range(s1.table)
    BY <1>6, <2>1 DEF TablesOK, FoundWhileHeld
  <2> QED BY <2>1, <2>2, UseCount
<1>8. /\ TablesOK(r, d) /\ r.fds = s1.fds
      /\ Range(r.table) \subseteq Range(s1.table)
      /\ \A g \in Files : r.file[g].name = s1.file[g].name
      /\ use_count(s1, t, f, 2) <= 3 /\ s1.file[f].name # NoName => f \notin Range(r.table)
  <2> DEFINE c == close(s1, t, f, 2)
  <2>1. /\ TablesOK(c, d) /\ c.fds = s1.fds
        /\ Range(c.table) \subseteq Range(s1.table)
        /\ \A g \in Files : c.file[g].name = s1.file[g].name
        /\ use_count(s1, t, f, 2) <= 3 /\ s1.file[f].name # NoName => f \notin Range(c.table)
    BY <1>1, <1>6, <1>7, CloseKeeps, Zenon
  <2> QED BY <1>2, <2>1, Zenon
<1>9. \A g : Holders(r, g) = Holders(s1, g)
  BY <1>8 DEF Holders
<1>10. ASSUME NEW g \in Files, Slots(g) # {}, file[g].name # NoName, Holders(r, g) = {}
       PROVE  g \notin Range(r.table)
  <2>1. CASE g # f
    BY <1>3, <1>5, <1>8, <1>9, <1>10, <2>1, Zenon DEF Forgot
  <2>2. CASE g = f /\ f \notin Range(s1.table)
    BY <1>8, <2>2, Zenon
  <2>3. CASE g = f /\ f \in Range(s1.table)
    <3>1. use_count(s1, t, f, 2) <= 3
      BY <1>9, <1>10, <2>3, UseCount
    <3>2. s1.file[f].name # NoName
      BY <1>3, <1>10, <2>3, Zenon DEF Forgot
    <3> QED BY <1>8, <2>3, <3>1, <3>2, Zenon
  <2> QED BY <2>1, <2>2, <2>3
<1>11. Forgot(r)
  BY <1>3, <1>8, <1>10, Zenon DEF Forgot
<1> QED BY <1>8, <1>11 DEF r

\* exit() starts with the tables as they are.
LEMMA TablesStart == Forgot(Tables)
<1>1. Tables.file = file /\ \A f : Holders(Tables, f) = Slots(f)
  BY DEF Tables, Holders, Slots
<1> QED BY <1>1 DEF Forgot

\* Destroying the Files without a reference keeps the tables right.
LEMMA BecomesKeeps ==
  ASSUME NEW s, NEW d, TablesOK(s, d), Becomes(s)
  PROVE  /\ TablesOK(Tables', d)
         /\ opened_files' = s.table /\ \A f : Slots(f)' = Holders(s, f)
<1>1. /\ s \in TableStates /\ s.file \in [Files \cup {STD} -> FileStates]
  BY Zenon DEF TablesOK, TableStates
<1>2. /\ Tables'.fds = s.fds /\ Tables'.table = s.table
      /\ Tables' = [fds |-> s.fds, table |-> s.table, file |-> file']
      /\ \A f \in Files \cup {STD} : Tables'.file[f] = s.file[f]
                                     \/ (Tables'.file[f] = NoFile /\ f \notin Range(s.table)
                                         /\ Holders(s, f) = {})
  <2>1. /\ fd_table' = s.fds /\ opened_files' = s.table
        /\ file' = [f \in Files \cup {STD} |->
                      IF f \in Range(s.table) \/ \E t \in Tasks, i \in Fds : s.fds[t][i] = f
                      THEN s.file[f] ELSE NoFile]
    BY DEF Becomes
  <2>2. Tables' = [fds |-> fd_table', table |-> opened_files', file |-> file']
    BY DEF Tables
  <2>3. \A f : Holders(s, f) # {} => \E t \in Tasks, i \in Fds : s.fds[t][i] = f
    BY DEF Holders
  <2> QED BY <2>1, <2>2, <2>3, Zenon
<1>3. NoFile \in FileStates /\ NoFile.name = NoName
  BY OpenFilesAssumption DEF NoFile, FileStates
<1>4. file' \in [Files \cup {STD} -> FileStates]
  BY <1>1, <1>3 DEF Becomes
<1>5. Tables' \in TableStates
  BY <1>1, <1>2, <1>4, Zenon DEF TableStates
<1>6. \A f : Holders(Tables', f) = Holders(s, f)
  BY <1>2 DEF Holders
<1>7. Range(s.table) \subseteq Files
  BY <1>1 DEF TableStates, Range
<1>8. FoundWhileHeld(Tables')
  BY <1>2, <1>3, <1>6, Zenon DEF TablesOK, FoundWhileHeld
<1>9. OneEntry(Tables')
  <2> SUFFICES ASSUME NEW f \in Range(s.table), NEW g \in Range(s.table), f # g,
                      Tables'.file[f].name = Tables'.file[g].name
               PROVE  Tables'.file[f].name \in Fresh
    BY <1>2, Zenon DEF OneEntry
  <2>1. f \in Files /\ g \in Files
    BY <1>7
  <2>2. Tables'.file[f] = s.file[f] /\ Tables'.file[g] = s.file[g]
    BY <1>2, <2>1
  <2> QED BY <2>2, Zenon DEF TablesOK, OneEntry
<1>10. OneHolder(Tables')
  BY <1>2, <1>6 DEF TablesOK, OneHolder
<1>11. NamesExist(Tables', d)
  BY <1>2, <1>3, Numbers, Zenon DEF TablesOK, NamesExist
<1>12. \A f : Slots(f)' = Holders(s, f)
  BY DEF Becomes, Slots, Holders
<1> QED BY <1>2, <1>5, <1>8, <1>9, <1>10, <1>11, <1>12 DEF TablesOK, Becomes

\* The loop of exit(), for every number of descriptors.
LEMMA ExitKeeps ==
  ASSUME TablesOK(Tables, on_disk), NEW t \in Tasks, exit(t)
  PROVE  \E s : TablesOK(s, on_disk) /\ Forgot(s) /\ Becomes(s)
<1> DEFINE N == NR_TASK_FD_LIMITS
           X == {s \in TableStates : TablesOK(s, on_disk) /\ Forgot(s)}
           one(s, i) == IF s.fds[t][i] = NULL THEN s ELSE closed(s, t, i)
           F(h) == [i \in 2..(N - 1) |-> IF i = 2 THEN Tables ELSE one(h[i - 1], i)]
           g == [x \in Nat \X X |-> IF x[1] + 3 \in Fds THEN one(x[2], x[1] + 3) ELSE x[2]]
<1>0. N \in Nat /\ N > 3 /\ Fds = 0..(N - 1)
  BY OpenFilesAssumption DEF Fds
<1>1. \A s \in X, i \in Fds : one(s, i) \in X
  <2> TAKE s \in X, i \in Fds
  <2>1. TablesOK(one(s, i), on_disk) /\ Forgot(one(s, i))
    BY ClosedKeeps
  <2> QED BY <2>1 DEF TablesOK
<1>2. Tables \in X
  BY TablesStart DEF TablesOK
<1> HIDE DEF X, one
<1>3. g \in [Nat \X X -> X]
  BY <1>1
<1>4. \A k \in Nat, s \in X : g[<<k, s>>] = IF k + 3 \in Fds THEN one(s, k + 3) ELSE s
  OBVIOUS
<1> HIDE DEF g
<1>5. PICK f : Iterates(f, X, Tables, g)
  BY <1>2, <1>3, Iteration, Zenon
<1>6. f \in [Nat -> X] /\ f[0] = Tables /\ \A k \in Nat : f[k + 1] = g[<<k, f[k]>>]
  BY <1>5 DEF Iterates
<1> DEFINE h == [i \in 2..(N - 1) |-> f[i - 2]]
<1>7. h = F(h)
  <2>1. ASSUME NEW i \in 2..(N - 1) PROVE f[i - 2] = IF i = 2 THEN Tables ELSE one(h[i - 1], i)
    <3>1. CASE i = 2
      BY <1>6, <3>1
    <3>2. CASE i # 2
      <4>1. i - 3 \in Nat /\ i - 3 + 1 = i - 2 /\ i - 3 + 3 = i /\ i - 1 \in 2..(N - 1)
            /\ i - 1 - 2 = i - 3 /\ i \in Fds
        BY <1>0, <3>2
      <4>2. f[i - 2] = g[<<i - 3, f[i - 3]>>] /\ f[i - 3] \in X
        BY <1>6, <4>1
      <4>3. f[i - 2] = one(f[i - 3], i)
        BY <1>4, <4>1, <4>2
      <4>4. h[i - 1] = f[i - 3]
        BY <4>1
      <4> QED BY <3>2, <4>3, <4>4
    <3> QED BY <3>1, <3>2
  <2> QED BY <2>1
<1> DEFINE a == CHOOSE a : a = F(a)
<1>8. a = F(a)
  <2> HIDE DEF h, F
  <2> QED BY <1>7
<1>9. Becomes(a[N - 1])
  BY DEF exit, one
<1> HIDE DEF a, h
<1> DEFINE S == {k \in Nat : k + 2 \in 2..(N - 1) => a[k + 2] \in X}
<1>10. 0 \in S
  <2>1. 0 + 2 = 2 /\ a[2] = Tables
    BY <1>0, <1>8
  <2> QED BY <1>2, <2>1
<1>11. \A k \in Nat : k \in S => k + 1 \in S
  <2> SUFFICES ASSUME NEW k \in Nat, k \in S, k + 1 + 2 \in 2..(N - 1) PROVE a[k + 1 + 2] \in X
    OBVIOUS
  <2>1. k + 2 \in 2..(N - 1) /\ k + 1 + 2 # 2 /\ k + 1 + 2 - 1 = k + 2 /\ k + 1 + 2 \in Fds
    BY <1>0
  <2>2. a[k + 2] \in X
    BY <2>1
  <2>3. a[k + 1 + 2] = one(a[k + 2], k + 1 + 2)
    BY <1>8, <2>1
  <2> QED BY <1>1, <2>1, <2>2, <2>3
<1>12. Nat \subseteq S
  <2> HIDE DEF S
  <2> QED BY <1>10, <1>11, Ind
<1>13. a[N - 1] \in X
  <2>1. N - 3 \in Nat /\ N - 3 + 2 = N - 1 /\ N - 1 \in 2..(N - 1)
    BY <1>0
  <2>2. N - 3 \in S
    BY <1>12, <2>1
  <2> QED BY <2>1, <2>2
<1> QED BY <1>9, <1>13 DEF X

\* What every system call keeps.
OpenFilesInv ==
  /\ TablesOK(Tables, on_disk) /\ DiskOK(on_disk)
  /\ state \in [Tasks -> {"none", "runs", "zombie"}]

\* The fields of Tables.
LEMMA Parts ==
  ASSUME OpenFilesInv
  PROVE  /\ Tables.fds = fd_table /\ Tables.table = opened_files /\ Tables.file = file
         /\ fd_table \in [Tasks -> [Fds -> Files \cup {STD, NULL}]]
         /\ opened_files \in Seq(Files) /\ file \in [Files \cup {STD} -> FileStates]
         /\ \A f : Holders(Tables, f) = Slots(f)
<1>1. /\ Tables.fds = fd_table /\ Tables.table = opened_files /\ Tables.file = file
          /\ Tables \in TableStates
  BY DEF Tables, OpenFilesInv, TablesOK
<1> QED BY <1>1 DEF TableStates, Holders, Slots

\* The invariant says what TableExact says.
LEMMA InvExact ==
  ASSUME OpenFilesInv
  PROVE  TableExact
<1>1. /\ Tables.fds = fd_table /\ Tables.table = opened_files /\ Tables.file = file
      /\ fd_table \in [Tasks -> [Fds -> Files \cup {STD, NULL}]]
      /\ opened_files \in Seq(Files) /\ file \in [Files \cup {STD} -> FileStates]
      /\ \A f : Holders(Tables, f) = Slots(f)
  BY Parts, Zenon
<1>2. TablesOK(Tables, on_disk) /\ DiskOK(on_disk)
      /\ state \in [Tasks -> {"none", "runs", "zombie"}]
  BY DEF OpenFilesInv
<1>3. Range(opened_files) \subseteq Files
  BY <1>1 DEF Range
<1>4. \A f \in Files \cup {STD} : file[f].name \in Names \cup {NoName} /\ file[f].pos \in 0..MaxPos
  BY <1>1 DEF FileStates
<1>5. TypeOK
  BY <1>1, <1>2, <1>3, <1>4, Zenon DEF TypeOK, DiskOK
<1>6. RegisteredWhileOpen
  BY <1>1, <1>2, Zenon DEF RegisteredWhileOpen, Registered, TablesOK, FoundWhileHeld
<1>7. ASSUME NEW f \in Files, file[f].name \in Fresh PROVE Cardinality(Slots(f)) <= 1
  <2>1. \A x, y \in Slots(f) : x = y
    BY <1>1, <1>2, <1>7, Zenon DEF TablesOK, OneHolder
  <2>2. CASE Slots(f) = {}
    BY <2>2, FS_EmptySet
  <2>3. CASE Slots(f) # {}
    <3>1. PICK x : Slots(f) = {x}
      BY <2>1, <2>3
    <3> QED BY <3>1, FS_Singleton
  <2> QED BY <2>2, <2>3
<1>8. IsInjective(opened_files)
  BY <1>1, <1>2 DEF TablesOK
<1>9. \A f, g \in {x \in Files : Registered(x)} :
        f # g /\ file[f].name = file[g].name => file[f].name \in Fresh
  BY <1>1, <1>2, Zenon DEF TablesOK, OneEntry, Registered
<1>10. OneHandlePerVnode
  BY <1>7, <1>8, <1>9 DEF OneHandlePerVnode
<1> QED BY <1>5, <1>6, <1>10 DEF TableExact

\* sys_open() keeps the invariant and takes no descriptor away.
LEMMA OpenStep ==
  ASSUME OpenFilesInv, NEW t \in Tasks, NEW n \in Names, NEW creat \in BOOLEAN, sys_open(t, n,
         creat)
  PROVE  OpenFilesInv' /\ \A f \in Files : Slots(f) \subseteq Slots(f)'
<1> DEFINE o == open(n, creat)
           d == IF OpenedAs(n) # {} THEN on_disk ELSE Created(n, creat)
           s == IF o[1] = NULL THEN o[2] ELSE allocate_fd_for_file(o[2], t, o[1])
<1>1. Unused # {} /\ TablesOK(Tables, on_disk) /\ DiskOK(on_disk)
  BY DEF sys_open, OpenFilesInv
<1>2. /\ TablesOK(o[2], d) /\ DiskOK(d) /\ o[2].fds = fd_table
      /\ o[1] # NULL => /\ o[1] \in Range(o[2].table)
                        /\ o[2].file[o[1]].name \in Fresh => Holders(o[2], o[1]) = {}
  BY <1>1, OpenKeeps, Zenon
<1>3. Becomes(s) /\ on_disk' = d /\ state' = state
  BY DEF sys_open
<1> HIDE DEF o, d
<1>4. TablesOK(s, d) /\ \A f \in Files : Holders(o[2], f) \subseteq Holders(s, f)
  <2>1. CASE o[1] = NULL
    BY <1>2, <2>1, Zenon
  <2>2. CASE o[1] # NULL
    BY <1>2, <2>2, AllocateKeeps, Zenon
  <2> QED BY <2>1, <2>2
<1> HIDE DEF s
<1>5. TablesOK(Tables', d) /\ \A f : Slots(f)' = Holders(s, f)
  BY <1>3, <1>4, BecomesKeeps, Zenon
<1>6. \A f : Holders(o[2], f) = Slots(f)
  BY <1>2, Zenon DEF Holders, Slots
<1> QED BY <1>2, <1>3, <1>4, <1>5, <1>6, Zenon DEF OpenFilesInv

\* exec() of a program on FAT32 keeps the invariant and the descriptors.
LEMMA ExecStep ==
  ASSUME ProgramsOnFat32, OpenFilesInv, NEW t \in Tasks, NEW n \in ExecNames,
         NEW valid \in BOOLEAN, exec(t, n, valid)
  PROVE  OpenFilesInv' /\ \A f \in Files : Slots(f)' = Slots(f)
<1> DEFINE o == open(n, FALSE)
           d == IF OpenedAs(n) # {} THEN on_disk ELSE Created(n, FALSE)
           null == o[1] # NULL /\ o[2].file[o[1]].name = NoName
           s == IF o[1] # NULL /\ ~null /\ valid THEN close(o[2], t, o[1], 1) ELSE o[2]
<1>1. /\ Unused # {} /\ TablesOK(Tables, on_disk) /\ DiskOK(on_disk)
      /\ n \in Names /\ n \in Fresh /\ FALSE \in BOOLEAN
  BY Zenon DEF exec, OpenFilesInv, ProgramsOnFat32, Names
<1>2. /\ TablesOK(o[2], d) /\ DiskOK(d) /\ o[2].fds = fd_table
      /\ o[1] # NULL => /\ o[1] \in Range(o[2].table)
                        /\ o[2].file[o[1]].name \in {n, NoName}
                        /\ o[2].file[o[1]].name \in Fresh => Holders(o[2], o[1]) = {}
  BY <1>1, OpenKeeps, Zenon
<1>3. d = on_disk
  BY DEF Created
<1>4. Becomes(s) /\ on_disk' = on_disk /\ state' = state
  BY Zenon DEF exec
<1> HIDE DEF o, d
<1>5. TablesOK(s, d) /\ s.fds = fd_table
  <2>1. CASE o[1] # NULL /\ ~null /\ valid
    <3>1. Holders(o[2], o[1]) = {} /\ o[1] \in Files
      <4>1. o[2].file[o[1]].name = n /\ o[1] \in Range(o[2].table)
        BY <1>2, <2>1
      <4>2. o[2].table \in Seq(Files)
        BY <1>2 DEF TablesOK, TableStates
      <4>3. o[1] \in Files
        BY <4>1, <4>2 DEF Range
      <4> QED BY <1>1, <1>2, <2>1, <4>1, <4>3, Zenon
    <3>2. TablesOK(close(o[2], t, o[1], 1), d) /\ close(o[2], t, o[1], 1).fds = o[2].fds
      <4>1. o[1] \in Files \cup {STD}
        BY <3>1, Zenon
      <4> QED BY <1>2, <3>1, <4>1, CloseKeeps
    <3> QED BY <1>2, <2>1, <3>2, Zenon
  <2>2. CASE ~(o[1] # NULL /\ ~null /\ valid)
    BY <1>2, <2>2, Zenon
  <2> QED BY <2>1, <2>2, Zenon
<1> HIDE DEF s
<1>6. TablesOK(Tables', d) /\ \A f : Slots(f)' = Holders(s, f)
  BY <1>4, <1>5, BecomesKeeps
<1>7. \A f : Holders(s, f) = Slots(f)
  BY <1>5 DEF Holders, Slots
<1> QED BY <1>2, <1>3, <1>4, <1>6, <1>7, Zenon DEF OpenFilesInv

\* sys_close() and exit() keep the invariant, and forget the Files that lose their last descriptor.
LEMMA CloseStep ==
  ASSUME OpenFilesInv, NEW t \in Tasks, exit(t) \/ \E i \in Closable : sys_close(t, i)
  PROVE  /\ OpenFilesInv'
         /\ \A f \in Files : Slots(f) # {} /\ Slots(f)' = {}
             /\ file[f].name # NoName => ~Registered(f)'
<1>1. PICK s : TablesOK(s, on_disk) /\ Forgot(s) /\ Becomes(s)
  <2>1. CASE exit(t)
    BY <2>1, ExitKeeps DEF OpenFilesInv
  <2>2. ASSUME NEW i \in Closable, sys_close(t, i) PROVE \E s : TablesOK(s, on_disk)
        /\ Forgot(s) /\ Becomes(s)
    <3>1. i \in Fds /\ Tables.fds[t][i] # NULL /\ Becomes(closed(Tables, t, i))
      BY <2>2, OpenFilesAssumption, Parts, Zenon DEF sys_close, Fds
    <3> QED BY <3>1, ClosedKeeps, TablesStart DEF OpenFilesInv
  <2> QED BY <2>1, <2>2
<1>2. on_disk' = on_disk /\ state' \in [Tasks -> {"none", "runs", "zombie"}]
  BY DEF exit, sys_close, OpenFilesInv
<1>3. TablesOK(Tables', on_disk) /\ opened_files' = s.table /\ \A f : Slots(f)' = Holders(s, f)
  BY <1>1, BecomesKeeps
<1>4. OpenFilesInv'
  BY <1>2, <1>3 DEF OpenFilesInv
<1>5. \A f : Registered(f)' <=> f \in Range(s.table)
  BY <1>3 DEF Registered
<1> QED BY <1>1, <1>3, <1>4, <1>5, Zenon DEF Forgot

\* fork() keeps the invariant and the descriptors of the tasks that run.
LEMMA ForkStep ==
  ASSUME OpenFilesInv, NEW t \in Tasks, fork(t)
  PROVE  OpenFilesInv'
        /\ \A f \in Files : \A x \in Slots(f) : state[x[1]] = "runs" => x \in Slots(f)'
<1>1. /\ state[t] = "none" /\ state' = [state EXCEPT ![t] = "runs"]
      /\ fd_table' = [fd_table EXCEPT ![t] = NewTable]
          /\ UNCHANGED <<opened_files, file, on_disk, crashed>>
  BY DEF fork
<1>2. /\ Tables.fds = fd_table /\ Tables.table = opened_files /\ Tables.file = file
      /\ fd_table \in [Tasks -> [Fds -> Files \cup {STD, NULL}]]
      /\ opened_files \in Seq(Files) /\ file \in [Files \cup {STD} -> FileStates]
      /\ \A f : Holders(Tables, f) = Slots(f)
  BY Parts
<1>3. Tables' = [fds |-> fd_table', table |-> opened_files, file |-> file]
  BY <1>1 DEF Tables
<1>4. NewTable \in [Fds -> Files \cup {STD, NULL}] /\ \A i \in Fds : NewTable[i] \notin Files
  BY Numbers DEF NewTable
<1>5. Tables' \in TableStates /\ Tables'.fds = fd_table' /\ Tables'.table = opened_files
      /\ Tables'.file = file
  BY <1>1, <1>2, <1>3, <1>4, Zenon DEF TableStates
<1>6. \A f \in Files : Holders(Tables', f) = {x \in Holders(Tables, f) : x[1] # t}
  <2> TAKE f \in Files
  <2>1. \A x \in Tasks \X Fds : fd_table'[x[1]][x[2]] = f <=> (fd_table[x[1]][x[2]] = f /\ x[1] # t)
    BY <1>1, <1>2, <1>4
  <2> QED BY <1>2, <1>5, <2>1, Zenon DEF Holders
<1>7. TablesOK(Tables', on_disk)
  <2>1. \A f \in Files : Holders(Tables', f) \subseteq Holders(Tables, f)
    BY <1>6, Zenon
  <2>2. \A f \in Files \cup {STD} : Tables'.file[f].name = Tables.file[f].name
    BY <1>2, <1>5, Zenon
  <2>3. Tables'.table = Tables.table /\ TablesOK(Tables, on_disk)
    BY <1>2, <1>5, Zenon DEF OpenFilesInv
  <2> QED BY <1>5, <2>1, <2>2, <2>3, FewerHolders, Zenon
<1>8. \A f : Slots(f)' = Holders(Tables', f)
  BY <1>5 DEF Slots, Holders
<1>9. OpenFilesInv'
  BY <1>1, <1>7 DEF OpenFilesInv
<1>10. \A f \in Files : \A x \in Slots(f) : state[x[1]] = "runs" => x \in Slots(f)'
  BY <1>1, <1>2, <1>6, <1>8, Zenon
<1> QED BY <1>9, <1>10

\* ~Task() keeps the invariant and the descriptors of the tasks that run.
LEMMA ReapStep ==
  ASSUME OpenFilesInv, NEW t \in Tasks, reap(t)
  PROVE  OpenFilesInv'
        /\ \A f \in Files : \A x \in Slots(f) : state[x[1]] = "runs" => x \in Slots(f)'
<1> DEFINE s == [Tables EXCEPT !.fds[t] = NoTable]
<1>1. state[t] = "zombie" /\ state' = [state EXCEPT ![t] = "none"] /\ Becomes(s)
      /\ on_disk' = on_disk
  BY DEF reap
<1>2. /\ Tables.fds = fd_table /\ Tables.table = opened_files /\ Tables.file = file
      /\ fd_table \in [Tasks -> [Fds -> Files \cup {STD, NULL}]]
      /\ opened_files \in Seq(Files) /\ file \in [Files \cup {STD} -> FileStates]
      /\ \A f : Holders(Tables, f) = Slots(f)
  BY Parts
<1>3. NoTable \in [Fds -> Files \cup {STD, NULL}] /\ \A i \in Fds : NoTable[i] \notin Files
  BY Numbers DEF NoTable
<1>4. s = [fds |-> [fd_table EXCEPT ![t] = NoTable], table |-> opened_files, file |-> file]
  BY DEF Tables
<1> HIDE DEF s
<1>5. /\ s \in TableStates /\ s.table = opened_files /\ s.file = file
      /\ \A u \in Tasks : s.fds[u] = IF u = t THEN NoTable ELSE fd_table[u]
  BY <1>2, <1>3, <1>4, Zenon DEF TableStates
<1>6. \A f \in Files : Holders(s, f) = {x \in Holders(Tables, f) : x[1] # t}
  <2> TAKE f \in Files
  <2>1. \A x \in Tasks \X Fds : s.fds[x[1]][x[2]] = f <=> (fd_table[x[1]][x[2]] = f /\ x[1] # t)
    BY <1>2, <1>3, <1>5
  <2> QED BY <1>2, <2>1, Zenon DEF Holders
<1>7. TablesOK(s, on_disk)
  <2>1. \A f \in Files : Holders(s, f) \subseteq Holders(Tables, f)
    BY <1>6, Zenon
  <2>2. \A f \in Files \cup {STD} : s.file[f].name = Tables.file[f].name
    BY <1>2, <1>5, Zenon
  <2>3. s.table = Tables.table /\ TablesOK(Tables, on_disk)
    BY <1>2, <1>5, Zenon DEF OpenFilesInv
  <2> QED BY <1>5, <2>1, <2>2, <2>3, FewerHolders, Zenon
<1>8. TablesOK(Tables', on_disk) /\ \A f : Slots(f)' = Holders(s, f)
  BY <1>1, <1>7, BecomesKeeps
<1>9. OpenFilesInv'
  BY <1>1, <1>8 DEF OpenFilesInv
<1>10. \A f \in Files : \A x \in Slots(f) : state[x[1]] = "runs" => x \in Slots(f)'
  BY <1>1, <1>2, <1>6, <1>8, Zenon
<1> QED BY <1>9, <1>10

\* sys_read() and sys_write() keep the invariant and the descriptors.
LEMMA FileStep ==
  ASSUME OpenFilesInv, NEW t \in Tasks, NEW i \in Fds, NEW len \in Lens, sys_read(t, i,
         len) \/ sys_write(t, i, len)
  PROVE  OpenFilesInv' /\ \A f : Slots(f)' = Slots(f)
<1> DEFINE f == fd_table[t][i]
<1>1. /\ Tables.fds = fd_table /\ Tables.table = opened_files /\ Tables.file = file
      /\ fd_table \in [Tasks -> [Fds -> Files \cup {STD, NULL}]]
      /\ opened_files \in Seq(Files) /\ file \in [Files \cup {STD} -> FileStates]
      /\ \A g : Holders(Tables, g) = Slots(g)
  BY Parts, Zenon
<1>2. f # NULL /\ UNCHANGED <<fd_table, state, opened_files>>
  BY Zenon DEF sys_read, sys_write
<1>3. f \in Files \cup {STD} /\ len \in Nat /\ file[f] \in FileStates
  <2>1. f \in Files \cup {STD, NULL}
    BY <1>1
  <2>2. f \in Files \cup {STD}
    BY <1>2, <2>1
  <2>3. Lens \subseteq Nat
    BY OpenFilesAssumption, Zenon
  <2> QED BY <1>1, <2>2, <2>3, Zenon
<1>4. /\ file' \in [Files \cup {STD} -> FileStates]
          /\ \A g \in Files \cup {STD} : file'[g].name = file[g].name
      /\ DOMAIN on_disk' = DOMAIN on_disk /\ DiskOK(on_disk')
  <2>1. CASE file[f].name = NoName
    <3>1. file' = file /\ on_disk' = on_disk
      BY <2>1 DEF sys_read, sys_write
    <3> QED BY <1>1, <3>1, Zenon DEF OpenFilesInv
  <2>2. CASE file[f].name # NoName /\ sys_write(t, i, len)
    <3>1. /\ file[f].pos + len <= MaxPos
          /\ file' = [file EXCEPT ![f].pos = @ + len, ![f].size = len]
          /\ on_disk' = [on_disk EXCEPT ![file[f].name] = len]
      BY <2>2, Zenon DEF sys_write
    <3> HIDE DEF f
    <3>2. file[f].pos + len \in 0..MaxPos
      BY <1>3, <3>1, OpenFilesAssumption DEF FileStates
    <3>3. file' = [file EXCEPT ![f] = [file[f] EXCEPT !.pos = file[f].pos + len, !.size = len]]
      BY <1>1, <1>3, <3>1, Zenon
    <3>4. /\ [file[f] EXCEPT !.pos = file[f].pos + len, !.size = len] \in FileStates
          /\ [file[f] EXCEPT !.pos = file[f].pos + len, !.size = len].name = file[f].name
      BY <1>3, <3>2, Zenon DEF FileStates
    <3>5. DOMAIN on_disk' = DOMAIN on_disk /\ DiskOK(on_disk')
      BY <3>1 DEF DiskOK, OpenFilesInv
    <3> QED BY <1>1, <1>3, <3>3, <3>4, <3>5
  <2>3. CASE file[f].name # NoName /\ sys_read(t, i, len)
    <3> DEFINE there == get_size(f) - file[f].pos
               n == IF there < 0 \/ len < there THEN len ELSE there
    <3>1. file[f].pos + n <= MaxPos /\ file' = [file EXCEPT ![f].pos = @ + n] /\ on_disk' = on_disk
      BY <2>3, Zenon DEF sys_read
    <3> HIDE DEF f
    <3>2. f \in Files
      BY <1>1, <1>3, <2>3, Zenon DEF OpenFilesInv, TablesOK, NamesExist
    <3>3. get_size(f) \in Nat
      <4>1. file[f].name \in DOMAIN on_disk
        BY <1>1, <2>3, <3>2, Zenon DEF OpenFilesInv, TablesOK, NamesExist
      <4>2. on_disk[file[f].name] \in Nat /\ file[f].size \in Nat
        <5>1. on_disk[file[f].name] \in Lens \cup {0}
          BY <4>1, Zenon DEF OpenFilesInv, DiskOK
        <5>2. file[f].size \in Lens \cup {0}
          BY <1>3 DEF FileStates
        <5>3. \A v \in Lens \cup {0} : v \in Nat
          BY OpenFilesAssumption
        <5> QED BY <5>1, <5>2, <5>3, Zenon
      <4> QED BY <4>2 DEF get_size
    <3>4. n \in Nat /\ file[f].pos \in Nat
      BY <1>3, <3>3 DEF FileStates
    <3> HIDE DEF n
    <3>5. file[f].pos + n \in 0..MaxPos
      BY <3>1, <3>4, OpenFilesAssumption
    <3>6. /\ [file[f] EXCEPT !.pos = file[f].pos + n] \in FileStates
          /\ [file[f] EXCEPT !.pos = file[f].pos + n].name = file[f].name
      BY <1>3, <3>5 DEF FileStates
    <3>7. file' = [file EXCEPT ![f] = [file[f] EXCEPT !.pos = file[f].pos + n]]
      BY <1>1, <1>3, <3>1
    <3> QED BY <1>1, <1>3, <3>1, <3>6, <3>7 DEF OpenFilesInv
  <2> QED BY <2>1, <2>2, <2>3, Zenon
<1> HIDE DEF f
<1>5. Tables' = [fds |-> fd_table, table |-> opened_files, file |-> file']
  BY <1>2 DEF Tables
<1>6. Tables' \in TableStates /\ Tables'.fds = fd_table /\ Tables'.table = opened_files
      /\ Tables'.file = file'
  BY <1>1, <1>4, <1>5, Zenon DEF TableStates
<1>7. \A g : Holders(Tables', g) = Holders(Tables, g)
  BY <1>1, <1>6, Zenon DEF Holders
<1>8. TablesOK(Tables', on_disk')
  BY <1>1, <1>4, <1>6, <1>7, FewerHolders, Zenon DEF OpenFilesInv
<1>9. \A g : Slots(g)' = Slots(g)
  BY <1>2, Zenon DEF Slots
<1> QED BY <1>2, <1>4, <1>8, <1>9, Zenon DEF OpenFilesInv

\* The invariant holds when the first task starts.
LEMMA OpenFilesInit == Init => OpenFilesInv
<1> SUFFICES ASSUME Init PROVE OpenFilesInv
  OBVIOUS
<1>1. /\ NewTable \in [Fds -> Files \cup {STD, NULL}] /\ \A i \in Fds : NewTable[i] \notin Files
      /\ NoTable \in [Fds -> Files \cup {STD, NULL}] /\ \A i \in Fds : NoTable[i] \notin Files
  BY Numbers DEF NewTable, NoTable
<1>2. /\ fd_table \in [Tasks -> [Fds -> Files \cup {STD, NULL}]]
      /\ \A u \in Tasks, i \in Fds : fd_table[u][i] \notin Files
      /\ state \in [Tasks -> {"none", "runs", "zombie"}]
  BY <1>1 DEF Init
<1>3. NoFile \in FileStates /\ NoFile.name = NoName
  BY OpenFilesAssumption DEF NoFile, FileStates
<1>4. /\ file = [f \in Files \cup {STD} |-> NoFile] /\ opened_files = <<>> /\ on_disk = <<>>
  BY DEF Init
<1>5. /\ Tables = [fds |-> fd_table, table |-> opened_files, file |-> file]
      /\ Tables.fds = fd_table /\ Tables.table = <<>> /\ Tables.file = file
  BY <1>4 DEF Tables
<1>6. DOMAIN opened_files = {} /\ Range(opened_files) = {} /\ opened_files \in Seq(Files)
      /\ DOMAIN on_disk = {}
  BY <1>4 DEF Range
<1>7. Tables \in TableStates
  BY <1>2, <1>3, <1>4, <1>5, <1>6, Zenon DEF TableStates
<1>8. \A f \in Files : Holders(Tables, f) = {}
  BY <1>2, <1>5 DEF Holders
<1>9. \A f \in Files \cup {STD} : Tables.file[f].name = NoName
  BY <1>3, <1>4, <1>5
<1>10. IsInjective(Tables.table) /\ Range(Tables.table) = {}
  BY <1>4, <1>5, <1>6 DEF IsInjective
<1>11. FoundWhileHeld(Tables) /\ OneEntry(Tables) /\ OneHolder(Tables)
      /\ NamesExist(Tables, on_disk)
  BY <1>8, <1>9, <1>10, Zenon DEF FoundWhileHeld, OneEntry, OneHolder, NamesExist
<1> QED BY <1>2, <1>6, <1>7, <1>10, <1>11, Zenon DEF OpenFilesInv, TablesOK, DiskOK

\* Every step keeps the invariant; one that takes the last descriptor of a running task forgets the
\* File.
LEMMA OpenFilesStep ==
  ASSUME ProgramsOnFat32, OpenFilesInv, [Next]_vars
  PROVE  /\ OpenFilesInv'
         /\ \A f \in Files :
              (\E x \in Slots(f) : state[x[1]] = "runs") /\ Slots(f)' = {} /\ file[f].name # NoName
              => ~Registered(f)'
<1>1. ASSUME NEW t \in Tasks, NEW n \in Names, NEW creat \in BOOLEAN, sys_open(t, n, creat)
      PROVE  OpenFilesInv'
            /\ \A f \in Files : \A x \in Slots(f) : state[x[1]] = "runs" => x \in Slots(f)'
  BY <1>1, OpenStep
<1>2. ASSUME NEW t \in Tasks, NEW n \in ExecNames, NEW valid \in BOOLEAN, exec(t, n, valid)
      PROVE  OpenFilesInv'
            /\ \A f \in Files : \A x \in Slots(f) : state[x[1]] = "runs" => x \in Slots(f)'
  BY <1>2, ExecStep
<1>3. ASSUME NEW t \in Tasks, NEW i \in Fds, NEW len \in Lens, sys_read(t, i,
      len) \/ sys_write(t, i, len)
      PROVE  OpenFilesInv'
            /\ \A f \in Files : \A x \in Slots(f) : state[x[1]] = "runs" => x \in Slots(f)'
  BY <1>3, FileStep
<1>4. ASSUME UNCHANGED vars
      PROVE  OpenFilesInv'
            /\ \A f \in Files : \A x \in Slots(f) : state[x[1]] = "runs" => x \in Slots(f)'
  BY <1>4, Zenon DEF vars, OpenFilesInv, Slots, Tables
<1>5. CASE \E t \in Tasks : exit(t) \/ \E i \in Closable : sys_close(t, i)
  <2>1. \A f \in Files : (\E x \in Slots(f) : state[x[1]] = "runs") => Slots(f) # {}
    OBVIOUS
  <2> QED BY <1>5, <2>1, CloseStep, Zenon
<1>6. CASE OpenFilesInv'
      /\ \A f \in Files : \A x \in Slots(f) : state[x[1]] = "runs" => x \in Slots(f)'
  BY <1>6
<1> QED BY <1>1, <1>2, <1>3, <1>4, <1>5, <1>6, ForkStep, ReapStep, Zenon DEF Next, Halted

\* fs/VirtualFileSystem.cc, proc/Task.cc: for every number of tasks, files and descriptors, the table
\* has each File that a task has open, and under one entry, if the programs are on FAT32.
THEOREM FileTableExact ==
  ASSUME ProgramsOnFat32
  PROVE  Spec => []TableExact
<1>1. OpenFilesInv /\ [Next]_vars => OpenFilesInv'
  BY OpenFilesStep
<1>2. OpenFilesInv => TableExact
  BY InvExact
<1> QED BY <1>1, <1>2, OpenFilesInit, PTL DEF Spec

\* close(), exit(): a File that loses its last descriptor leaves the table in the same step.
THEOREM FileTableForgets ==
  ASSUME ProgramsOnFat32
  PROVE  Spec => ClosedIsForgotten
<1> DEFINE Forgets == \A f \in Files :
       /\ \E x \in Slots(f) : state[x[1]] = "runs"
       /\ Slots(f)' = {}
       /\ file[f].name # NoName
       => ~Registered(f)'
<1>1. OpenFilesInv /\ [Next]_vars => OpenFilesInv'
  BY OpenFilesStep
<1>2. OpenFilesInv /\ [Next]_vars => [Forgets]_vars
  BY OpenFilesStep, Zenon
<1> HIDE DEF Forgets
<1>3. Spec => [][Forgets]_vars
  BY <1>1, <1>2, OpenFilesInit, PTL DEF Spec
<1> QED BY <1>3 DEF ClosedIsForgotten, Forgets
=============================================================================
