-------------------------------- MODULE FAT32 --------------------------------
(***************************************************************************)
(* The FAT32 file system (fs/FAT32.cc): the allocation table, directories  *)
(* with long names, and the contents of files.  Every call runs under the  *)
(* kernel mutex and is one step.  A cluster is one block.  It holds        *)
(* directory entries, or a block of a file.  A long name is the sequence   *)
(* of its parts, one per filename entry; short names matter only for the   *)
(* entries `.' and `..'.  Offsets count entries, from 1.                   *)
(***************************************************************************)
EXTENDS Integers, Sequences, SequencesExt, FiniteSets, TLC

CONSTANTS
  NrClusters,            \* clusters of the data region: 2..(NrClusters + 1); the FAT
                         \* has no entries to spare behind the last one
  EntriesPerCluster,     \* 16 in the code
  FileNames, DirNames,
  LongNames,             \* the names that take two filename entries
  Deleted,               \* how many deleted files the root directory starts with
  Short,                 \* whether those had a short name only
  Handles,               \* bound: inodes in memory
  Values, Lens           \* bounds: what is written, and how many blocks, at least one

ASSUME FAT32Assumption ==
  /\ NrClusters \in Nat \ {0} /\ EntriesPerCluster \in Nat /\ EntriesPerCluster > 2
  /\ Deleted \in Nat /\ 2 * Deleted < EntriesPerCluster /\ Short \in BOOLEAN
  /\ Lens \subseteq Nat \ {0}

VARIABLES
  disk,        \* [fat, data]: the first FAT, and what each cluster holds
  inode,       \* the inode of each handle, or NoInode
  made,        \* history: <<directory, name, location>> of what was created
  torn,        \* history: a creation failed half-way in entries used again
  wrote,       \* history: what each dentry's file should contain, and whether the
               \* inode that create_child() returned wrote it
  panicked

vars == <<disk, inode, made, torn, wrote, panicked>>

EOC == -1
NONE == -2                          \* (uint32_t) -1
root_cluster == 2
Clusters == 2..(NrClusters + 1)
Offsets == 1..EntriesPerCluster
Names == FileNames \cup DirNames

-----------------------------------------------------------------------------
(* Entries.                                                                *)

End == [kind |-> "end", deleted |-> FALSE]
Fentry(name, i, del) == [kind |-> "lfn", deleted |-> del, part |-> <<name, i>>]
Dentry(dir, sfn, first, size, del) ==
  [kind |-> IF dir THEN "dir" ELSE "file", deleted |-> del,
   sfn |-> sfn, first |-> first, size |-> size]
Block(v, i) == [o \in Offsets |-> [kind |-> "data", deleted |-> FALSE, block |-> <<v, i>>]]
EmptyCluster == [o \in Offsets |-> End]

IsDentry(e) == e.kind \in {"file", "dir"}
name_segments(name) == IF name \in LongNames THEN 2 ELSE 1
ShortName(sfn) == <<<<sfn, 0>>>>
Parts(name) == [i \in 1..name_segments(name) |-> <<name, i>>]

\* Two entries per deleted file, a filename entry and a dentry, or two dentries.
Image == [o \in Offsets |->
            IF o > 2 * Deleted THEN End
            ELSE IF o % 2 = 1 /\ ~Short THEN Fentry("old", 1, TRUE)
            ELSE Dentry(FALSE, "OLD", 0, 0, TRUE)]

NoInode == [name |-> <<>>]
Root == [name |-> ShortName("/"), dir |-> TRUE, first |-> root_cluster, at |-> <<EOC, 1>>, size |-> 0]

Init ==
  /\ disk = [fat |-> [c \in 0..(NrClusters + 1) |-> IF c <= root_cluster THEN EOC ELSE 0],
             data |-> [c \in 0..(NrClusters + 1) |->
                         IF c = root_cluster THEN Image ELSE EmptyCluster]]
  /\ inode = [h \in Handles |-> NoInode]
  /\ made = {} /\ torn = FALSE /\ wrote = <<>> /\ panicked = FALSE

fat_read(d, n) == IF n \in DOMAIN d.fat THEN d.fat[n] ELSE EOC

fat_write(d, n, val) == IF n \in DOMAIN d.fat THEN [d EXCEPT !.fat[n] = val] ELSE d

fat_find_free_cluster(d) ==
  LET free == {n \in DOMAIN d.fat : d.fat[n] = 0} IN
  IF free = {} THEN NONE ELSE CHOOSE n \in free : \A m \in free : n <= m

\* The clusters from n on, until EoC.  A chain with a loop is cut off.
Chain(d, n) ==
  LET walk[k \in 0..(NrClusters + 1)] ==
        IF k = 0 THEN <<n>>
        ELSE LET c == walk[k - 1] IN
             IF fat_read(d, Last(c)) = EOC THEN c ELSE Append(c, fat_read(d, Last(c)))
  IN  IF n = EOC THEN <<>> ELSE walk[NrClusters + 1]

\* Where the entries of a directory are, in the order in which they are read.
Locations(d, n) ==
  LET c == Chain(d, n)
      per == EntriesPerCluster
  IN  [i \in 1..(Len(c) * per) |-> <<c[((i - 1) \div per) + 1], ((i - 1) % per) + 1>>]

At(d, loc) == d.data[loc[1]][loc[2]]

-----------------------------------------------------------------------------
(* Looking things up.                                                      *)

dir_first_cluster_number(ino) == IF ino.first = 0 THEN root_cluster ELSE ino.first

\* Equality of hash_code(): size, mode and first cluster.
is_root_vnode(ino) == ino.dir /\ ino.size = 0 /\ ino.first = root_cluster

iterate_children_name_kept(d, ino) ==
  FoldLeft(LAMBDA s, loc :
             LET e == At(d, loc) IN
             CASE s.end \/ e.deleted -> s
               [] e.kind = "end" -> [s EXCEPT !.end = TRUE]
               [] e.kind = "lfn" -> [s EXCEPT !.name = <<e.part>> \o @]
               [] OTHER ->
                    [s EXCEPT !.views = Append(@, [name |-> IF s.name = <<>> THEN ShortName(e.sfn)
                                                            ELSE s.name,
                                                   dentry |-> e, at |-> loc])],
           [end |-> FALSE, name |-> <<>>, views |-> <<>>],
           IF ino.dir THEN Locations(d, dir_first_cluster_number(ino)) ELSE <<>>).views

\* The children that iterate_children() visits, with the names it makes up.
iterate_children(d, ino) ==
  FoldLeft(LAMBDA s, loc :
             LET e == At(d, loc) IN
             CASE s.end \/ e.deleted -> s
               [] e.kind = "end" -> [s EXCEPT !.end = TRUE]
               [] e.kind = "lfn" -> [s EXCEPT !.name = <<e.part>> \o @]
               [] IsDentry(e) ->
                    [s EXCEPT !.views = Append(@, [name |-> IF s.name = <<>> THEN ShortName(e.sfn)
                                                            ELSE s.name,
                                                   dentry |-> e, at |-> loc]),
                              !.name = <<>>]
               [] OTHER -> s,
           [end |-> FALSE, name |-> <<>>, views |-> <<>>],
           IF ino.dir THEN Locations(d, dir_first_cluster_number(ino)) ELSE <<>>).views

\* The inode that find_child_if() makes: cluster 0 becomes the root's.
Inode(view) ==
  [name |-> view.name, dir |-> view.dentry.kind = "dir",
   first |-> IF view.dentry.first = 0 THEN root_cluster ELSE view.dentry.first,
   at |-> view.at, size |-> view.dentry.size]

find_child_if(d, ino, P(_, _)) ==
  LET views == iterate_children(d, ino)
      hits == {i \in DOMAIN views : P(i - 1, views[i])}
  IN  IF hits = {} THEN NoInode
      ELSE Inode(views[CHOOSE i \in hits : \A j \in hits : i <= j])

\* Names are compared as sequences of parts, `.' and `..' as short names.
get_child(d, ino, name) ==
  IF is_root_vnode(ino) /\ name \in {ShortName("."), ShortName("..")} THEN Root
  ELSE find_child_if(d, ino, LAMBDA i, view : view.name = name)

get_parent(d, ino) ==
  LET parent == get_child(d, ino, ShortName("..")) IN IF parent = NoInode THEN Root ELSE parent

NR_SPECIAL_ENTRIES == 2

get_ith_child(d, ino, i) ==
  IF is_root_vnode(ino) /\ i < NR_SPECIAL_ENTRIES THEN Root
  ELSE find_child_if(d, ino, LAMBDA j, view :
                       j = IF is_root_vnode(ino) THEN i - NR_SPECIAL_ENTRIES ELSE i)

get_children_count(d, ino) ==
  Len(iterate_children(d, ino)) + IF is_root_vnode(ino) THEN NR_SPECIAL_ENTRIES ELSE 0

\* The blocks of a file; cluster 0 lies outside the data region.
get_content(d, ino) ==
  LET c == Chain(d, ino.first) IN [i \in DOMAIN c |-> At(d, <<c[i], 1>>)]

-----------------------------------------------------------------------------
(* Creating.                                                               *)

\* The first scan of create_child(): where to write, and how many entries can
\* be used again.  `at' moves with each live dentry, with the first filename
\* entry of a run, and to the end.
search(d, ino, need) ==
  FoldLeft(LAMBDA s, loc :
             LET e == At(d, loc) IN
             CASE s.stop -> s
               [] e.kind = "end" -> [at |-> loc, counter |-> 0, stop |-> TRUE]
               [] e.kind = "lfn" -> [s EXCEPT !.at = IF s.counter = 0 THEN loc ELSE @,
                                              !.counter = @ + 1]
               [] e.kind # "lfn" /\ ~e.deleted -> [s EXCEPT !.at = loc, !.counter = 0]
               [] OTHER -> [s EXCEPT !.counter = @ + 1, !.stop = s.counter + 1 = need],
           [at |-> <<0, 1>>, counter |-> 0, stop |-> FALSE],
           Locations(d, dir_first_cluster_number(ino)))

\* The second scan makes room for `left' entries from `at' on, and starts at
\* the same offset in every cluster.  A cluster is added when the last entry of
\* one is taken, even if the chain goes on.  ok is FALSE if the disk is full.
RECURSIVE make_room(_, _, _, _)
make_room(d, n, offset, left) ==
  LET ends == {o \in offset..EntriesPerCluster : d.data[n][o].kind = "end"}
      after == left - Cardinality(ends)
      new == fat_find_free_cluster(d)
      grown == [fat_write(fat_write(d, n, new), new, EOC) EXCEPT !.data[new] = EmptyCluster]
  IN  IF EntriesPerCluster \in ends /\ after >= 0
      THEN IF new = NONE THEN [disk |-> d, ok |-> FALSE]
           ELSE IF after = 0 THEN [disk |-> grown, ok |-> TRUE]
           ELSE make_room(grown, new, offset, after)
      ELSE IF after <= 0 \/ fat_read(d, n) = EOC THEN [disk |-> d, ok |-> TRUE]
      ELSE make_room(d, fat_read(d, n), offset, after)

NewDirectory_in_root(ino, n) ==
  [EmptyCluster EXCEPT ![1] = Dentry(TRUE, ".", n, 0, FALSE),
                       ![2] = Dentry(TRUE, "..", 0, 0, FALSE)]

\* A new directory: `.' and `..', which is 0 for the root.
NewDirectory(ino, n) ==
  [EmptyCluster EXCEPT
     ![1] = Dentry(TRUE, ".", n, 0, FALSE),
     ![2] = Dentry(TRUE, "..", IF is_root_vnode(ino) THEN 0 ELSE ino.first, 0, FALSE)]

\* The third scan writes the parts of the name, last part first, and then the
\* dentry, if there is a free cluster.  A file gets none of it.
write_entries(d, ino, name, at) ==
  LET locs == SubSeq(Locations(d, at[1]), at[2], Len(Locations(d, at[1])))
      k == name_segments(name)
      named == [d EXCEPT !.data = [c \in DOMAIN d.data |-> [o \in Offsets |->
                  IF \E i \in 1..k : i <= Len(locs) /\ locs[i] = <<c, o>>
                  THEN LET i == CHOOSE j \in 1..k : locs[j] = <<c, o>>
                       IN  Fentry(name, k + 1 - i, FALSE)
                  ELSE d.data[c][o]]]]
      new == fat_find_free_cluster(d)
      dir == name \in DirNames
      loc == locs[k + 1]
      entered == [named EXCEPT !.data[loc[1]][loc[2]] =
                    Dentry(dir, "SHORT", IF dir THEN new ELSE 0, 0, FALSE)]
  IN  IF Len(locs) <= k THEN [disk |-> named, ino |-> NoInode, panic |-> TRUE]
      ELSE IF new = NONE THEN [disk |-> named, ino |-> NoInode, panic |-> FALSE]
      ELSE [disk |-> IF dir THEN [fat_write(entered, new, EOC)
                                    EXCEPT !.data[new] = NewDirectory(ino, new)]
                     ELSE entered,
            ino |-> [name |-> Parts(name), dir |-> dir, first |-> IF dir THEN new ELSE 0,
                     at |-> loc, size |-> 0],
            panic |-> FALSE]

create_child(d, ino, name) ==
  LET need == name_segments(name) + 1
      s == search(d, ino, need)
      r == IF s.counter < need THEN make_room(d, s.at[1], s.at[2], need + 1)
           ELSE [disk |-> d, ok |-> TRUE]
  IN  IF ~ino.dir THEN [disk |-> d, ino |-> NoInode, panic |-> FALSE]
      ELSE IF ~r.ok THEN [disk |-> r.disk, ino |-> NoInode, panic |-> FALSE]
      ELSE write_entries(r.disk, ino, name, s.at)

Parents == {Root} \cup {ino \in {inode[h] : h \in Handles} : ino # NoInode}

\* VFS::create() of a name that does not exist yet.
create(h, parent, name) ==
  LET r == create_child(disk, parent, name)
      need == name_segments(name) + 1
  IN
  /\ ~panicked
  /\ get_child(disk, parent, Parts(name)) = NoInode
  /\ disk' = r.disk
  /\ inode' = [inode EXCEPT ![h] = r.ino]
  /\ made' = IF r.ino = NoInode THEN made
             ELSE made \cup {<<dir_first_cluster_number(parent), name, r.ino.at>>}
  /\ torn' = \/ torn
             \/ r.ino = NoInode /\ parent.dir /\ search(disk, parent, need).counter = need
  /\ panicked' = r.panic
  /\ UNCHANGED wrote

\* One step of resolve_path().
lookup(h, parent, name) ==
  /\ ~panicked
  /\ inode' = [inode EXCEPT ![h] = get_child(disk, parent, name)]
  /\ UNCHANGED <<disk, made, torn, wrote, panicked>>

-----------------------------------------------------------------------------
(* Writing.                                                                *)

update_dentry_to_disk(d, ino, field, val) ==
  IF ino.at[1] = EOC THEN d
  ELSE [d EXCEPT !.data[ino.at[1]][ino.at[2]] =
          IF field = "first" THEN [@ EXCEPT !.first = val] ELSE [@ EXCEPT !.size = val]]

\* The cluster is entered in the dentry but not taken yet, and the inode keeps
\* its 0.
allocate_first_cluster(d, ino) ==
  LET new == fat_find_free_cluster(d) IN
  IF new = NONE THEN d ELSE update_dentry_to_disk(d, ino, "first", new)

blocks_written_unmarked(d, len, v) ==
  LET fill[i \in 0..len] ==
        IF i = 0 THEN [disk |-> d, prev |-> 0, ok |-> TRUE]
        ELSE LET s == fill[i - 1]
                 curr == fat_find_free_cluster(s.disk)
                 taken == [s.disk EXCEPT !.data[curr] = Block(v, i)]
             IN  IF ~s.ok \/ curr = NONE THEN [s EXCEPT !.ok = FALSE]
                 ELSE [disk |-> IF s.prev = 0 THEN taken ELSE fat_write(taken, s.prev, curr),
                       prev |-> curr, ok |-> TRUE]
  IN  fill[len]

\* set_content() after `len' blocks, or as many as there are free clusters.
blocks_written_unlinked(d, len, v) ==
  LET fill[i \in 0..len] ==
        IF i = 0 THEN [disk |-> d, prev |-> 0, ok |-> TRUE]
        ELSE LET s == fill[i - 1]
                 curr == fat_find_free_cluster(s.disk)
             IN  IF ~s.ok \/ curr = NONE THEN [s EXCEPT !.ok = FALSE]
                 ELSE [disk |-> fat_write([s.disk EXCEPT !.data[curr] = Block(v, i)], curr, EOC),
                       prev |-> curr, ok |-> TRUE]
  IN  fill[len]

blocks_written(d, len, v) ==
  LET fill[i \in 0..len] ==
        IF i = 0 THEN [disk |-> d, prev |-> 0, ok |-> TRUE]
        ELSE LET s == fill[i - 1]
                 curr == fat_find_free_cluster(s.disk)
                 taken == fat_write([s.disk EXCEPT !.data[curr] = Block(v, i)], curr, EOC)
             IN  IF ~s.ok \/ curr = NONE THEN [s EXCEPT !.ok = FALSE]
                 ELSE [disk |-> IF s.prev = 0 THEN taken ELSE fat_write(taken, s.prev, curr),
                       prev |-> curr, ok |-> TRUE]
  IN  fill[len]

\* VFS::write() to a file that handle h refers to.
set_content(h, len, v) ==
  LET ino == inode[h]
      d == IF ino.first = 0 THEN allocate_first_cluster(disk, ino) ELSE disk
      r == blocks_written(d, len, v)
      others == [loc \in DOMAIN wrote \ {ino.at} |-> wrote[loc]]
  IN
  /\ ~panicked /\ ino # NoInode /\ ~ino.dir
  /\ IF r.ok
     THEN /\ disk' = update_dentry_to_disk(r.disk, ino, "size", len)
          /\ inode' = [inode EXCEPT ![h].size = len]
          /\ wrote' = (ino.at :> [blocks |-> [i \in 1..len |-> Block(v, i)[1]],
                                  by_creator |-> ino.first = 0]) @@ others
     ELSE disk' = r.disk /\ wrote' = others /\ UNCHANGED inode
  /\ UNCHANGED <<made, torn, panicked>>

Next ==
  \/ \E h \in Handles, parent \in Parents :
       \/ \E name \in Names : create(h, parent, name) \/ lookup(h, parent, Parts(name))
       \/ lookup(h, parent, ShortName(".."))
  \/ \E h \in Handles, len \in Lens, v \in Values : set_content(h, len, v)

Spec == Init /\ [][Next]_vars

-----------------------------------------------------------------------------
(* Properties.                                                             *)

\* The locations of dentries that are in use, other than `.' and `..'.
InUse ==
  {loc \in Clusters \X Offsets :
     /\ IsDentry(At(disk, loc)) /\ ~At(disk, loc).deleted
     /\ At(disk, loc).sfn \notin {".", ".."}}

Directories == {root_cluster} \cup {At(disk, loc).first : loc \in {x \in InUse : At(disk, x).kind = "dir"}}
FilesAt == {loc \in InUse : At(disk, loc).kind = "file" /\ At(disk, loc).first # 0}
DirInode(n) == [Root EXCEPT !.first = n]
Ends(n) == Last(Chain(disk, n)) # 0 /\ fat_read(disk, Last(Chain(disk, n))) = EOC
Used(n) == ToSet(Chain(disk, n))

\* The disk, the directory entries and the histories.
TypeOK ==
  /\ disk.fat \in [0..(NrClusters + 1) -> Clusters \cup {0, EOC}]
  /\ \A c \in Clusters, o \in Offsets :
       /\ disk.data[c][o].kind \in {"end", "lfn", "file", "dir", "data"}
       /\ IsDentry(disk.data[c][o]) =>
            disk.data[c][o].first \in Clusters \cup {0} /\ disk.data[c][o].size \in Lens \cup {0}
  /\ \A h \in Handles : inode[h] = NoInode \/ inode[h].first \in Clusters \cup {0}
  /\ \A x \in made : x[2] \in Names
  /\ torn \in BOOLEAN /\ panicked \in BOOLEAN

\* "Shouldn't have reached here": create_child() never runs out of entries,
\* however the directory was filled and however full the disk is.
NeverPanics == ~panicked

\* Every directory's chain ends, holds entries only and an end mark, and belongs
\* to that directory alone; `..' leads to the directory that lists it.
DirectoriesIntact ==
  /\ \A n \in Directories :
       /\ Ends(n)
       /\ \A c \in Used(n), o \in Offsets : disk.data[c][o].kind # "data"
       /\ \E loc \in ToSet(Locations(disk, n)) : At(disk, loc).kind = "end"
       /\ \A m \in Directories \ {n} : Used(n) \cap Used(m) = {}
  /\ \A x \in made :
       At(disk, x[3]).kind = "dir" =>
         get_parent(disk, DirInode(At(disk, x[3]).first)).first = x[1]

\* A name that was created is found from then on, at the dentry that
\* create_child() returned, whatever is created around it; unless the disk was
\* full when create_child() had begun to overwrite deleted entries, whose new
\* filename entries then become part of the next name.
NamesFound ==
  ~torn =>
    \A x \in made : LET ino == get_child(disk, DirInode(x[1]), Parts(x[2]))
                    IN  ino # NoInode /\ ino.at = x[3]

\* Reading a directory entry by entry, as VFS::read() does, yields each of its
\* names once after `.' and `..', and never the null vnode that it panics on;
\* with the same exception.
ListedOnce ==
  ~torn => \A n \in Directories :
    LET ino == DirInode(n)
        count == get_children_count(disk, ino)
        child == [i \in 0..(count - 1) |-> get_ith_child(disk, ino, i)]
        listed == {i \in 2..(count - 1) : child[i] # NoInode}
    IN  /\ \A i \in 0..(count - 1) : child[i] # NoInode
        /\ child[0].first = n /\ child[1] = get_parent(disk, ino)
        /\ {child[i].name : i \in listed} = {Parts(x[2]) : x \in {y \in made : y[1] = n}}
        /\ Cardinality({child[i].name : i \in listed}) = count - 2

\* No cluster belongs to two files, or to a file and a directory, and every
\* file's chain ends.
FilesDisjoint ==
  \A x \in FilesAt :
    LET n == At(disk, x).first IN
    /\ Ends(n)
    /\ \A m \in Directories : Used(n) \cap Used(m) = {}
    /\ \A y \in FilesAt \ {x} : Used(n) \cap Used(At(disk, y).first) = {}

\* What a file contains for whoever looks it up now.
Contents(loc) ==
  get_content(disk, Inode([name |-> <<>>, dentry |-> At(disk, loc), at |-> loc]))

\* What is written through the inode that create_child() returned, and fits on
\* the disk, is what later lookups read, each time it is written: that inode
\* keeps the cluster 0, so that each set_content() enters the first cluster of
\* its new chain in the dentry.  The test vfs_test_mnt writes this way.
CreatorsWriteIsRead ==
  \A loc \in DOMAIN wrote :
    wrote[loc].by_creator => /\ At(disk, loc).size = Len(wrote[loc].blocks)
                             /\ Contents(loc) = wrote[loc].blocks

\* "we have written it to the disk, so we don't need it now": whichever inode it is
\* called for, set_content() leaves the new content on the disk for whoever looks
\* the file up.
WrittenIsRead ==
  \A loc \in DOMAIN wrote : Contents(loc) = wrote[loc].blocks

\* create_child() keeps every directory whole: it finds room or gives up, and its
\* chains stay its own.
DirectoriesSound == TypeOK /\ NeverPanics /\ DirectoriesIntact

\* Lookup by name and listing by index agree with what was created.
NamesListed == NamesFound /\ ListedOnce
=============================================================================
