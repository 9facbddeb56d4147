------------------------------ MODULE Namespace ------------------------------
(***************************************************************************)
(* Names: mounts and path resolution (fs/VirtualFileSystem.cc), the trees  *)
(* of TmpFS (fs/TmpFS.cc) and of the FAT32 root file system, and working   *)
(* directories.  Every call runs under the kernel mutex and is one step.   *)
(* Nothing is ever renamed or removed, so a vnode is the path that leads   *)
(* to it in its own file system.  File system 0 is FAT32, the others are   *)
(* TmpFS.                                                                  *)
(***************************************************************************)
EXTENDS Integers, Sequences, SequencesExt, FiniteSets

CONSTANTS
  Tasks,
  Names, FileNames,  \* what is created; FileNames become regular files
  NameHash,          \* NameHash[n]: the sum of the characters
  MaxFs, MaxDepth,   \* bounds: TmpFS instances; components of a path
  MaxNodes,          \* bound: files and directories other than roots
  MountAnywhere,     \* may the mountpoint be a file, or have a mount already
  BusyUmount         \* do programs unmount file systems in use, the rootfs included

VARIABLES
  ns,        \* ns.tree[k]: the paths of file system k; ns.mounts: _mounts, as
             \* [guest, host], where guest is a file system
  cwd,       \* _cwd_vnode
  dangling   \* a vnode has used its file system after that was freed

vars == <<ns, cwd, dangling>>

Vnode(k, path) == [fs |-> k, path |-> path]
nullptr == Vnode(-1, <<>>)
RootOf(k) == Vnode(k, <<>>)
is_directory(v) == ~(v.path # <<>> /\ Last(v.path) \in FileNames)
Nodes(n) == UNION {{Vnode(k, p) : p \in n.tree[k] \ {<<>>}} : k \in 0..MaxFs}

Paths == UNION {[1..n -> Names \cup {".", ".."}] : n \in 0..MaxDepth}

Init ==
  /\ ns = [tree |-> [k \in 0..MaxFs |-> IF k = 0 THEN {<<>>} ELSE {}],
           mounts |-> <<[guest |-> 0, host |-> RootOf(0)]>>]
  /\ cwd = [t \in Tasks |-> RootOf(0)]
  /\ dangling = FALSE

rootfs(n) == Head(n.mounts).guest
Mounted(n, k) == \E i \in DOMAIN n.mounts : n.mounts[i].guest = k

-----------------------------------------------------------------------------
\* FAT32 hashes the first cluster, which empty files do not have.  TmpFS hashes
\* the name and the parent; a root has the name `/' and no parent.
hash_code(v) ==
  IF v.fs = 0 THEN IF is_directory(v) THEN <<0, v.path, 0, TRUE>> ELSE <<0, <<>>, 0, FALSE>>
  ELSE IF v.path = <<>> THEN <<-1, <<>>, 0, TRUE>>
  ELSE <<v.fs, Front(v.path), NameHash[Last(v.path)], is_directory(v)>>

First(S) == CHOOSE i \in S : \A j \in S : i <= j

get_mounted_vnode_or_host_vnode(n, v) ==
  LET on == {i \in DOMAIN n.mounts : hash_code(n.mounts[i].host) = hash_code(v)} IN
  IF v = nullptr \/ on = {} THEN v ELSE RootOf(n.mounts[First(on)].guest)

get_host_vnode(n, k) ==
  LET of == {i \in DOMAIN n.mounts : n.mounts[i].guest = k} IN
  IF of = {} THEN nullptr ELSE n.mounts[First(of)].host

\* The vnode whose parent get_parent() returns: for the root of a TmpFS, it is
\* the directory that the root is mounted on.
RECURSIVE Outer(_, _)
Outer(n, v) ==
  IF v.path = <<>> /\ v.fs # 0 /\ Mounted(n, v.fs) THEN Outer(n, get_host_vnode(n, v.fs)) ELSE v

get_parent_in_fs(n, v) == IF v.path = <<>> THEN v ELSE Vnode(v.fs, Front(v.path))

get_parent(n, v) ==
  LET w == Outer(n, v) IN IF w.path = <<>> THEN w ELSE Vnode(w.fs, Front(w.path))

\* A regular file of TmpFS can have children.
get_child(n, v, name) ==
  LET child == Vnode(v.fs, Append(v.path, name)) IN
  CASE v.fs = 0 /\ ~is_directory(v) -> nullptr
    [] name = "." -> v
    [] name = ".." -> get_parent(n, v)
    [] OTHER -> IF child \in Nodes(n) THEN child ELSE nullptr

\* The vnode that each prefix of the path resolves to, from where it starts.
Steps(n, start, path) ==
  LET at[i \in 0..Len(path)] ==
        IF i = 0 THEN start
        ELSE LET v == at[i - 1] IN
             IF v = nullptr THEN nullptr
             ELSE get_mounted_vnode_or_host_vnode(n, get_child(n, v, path[i]))
  IN  at

Start(n, t, absolute, path) == IF absolute \/ path = <<>> THEN RootOf(rootfs(n)) ELSE cwd[t]

\* "." alone is the working directory itself, also under a mount.
resolve_path(n, start, path) ==
  IF path = <<".">> THEN start ELSE Steps(n, start, path)[Len(path)]

\* A `..' is taken in a file system that has been freed with its mount.
UsesFreed(n, start, path) ==
  \E i \in DOMAIN path :
    LET v == Steps(n, start, path)[i - 1]
    IN  path[i] = ".." /\ v # nullptr /\ Outer(n, v).fs # 0 /\ ~Mounted(n, Outer(n, v).fs)

Runs(start, path) == ~dangling /\ ns.mounts # <<>> /\ dangling' = UsesFreed(ns, start, path)

-----------------------------------------------------------------------------
\* create_child(): FAT32 checks that the parent is a directory.
create_child(v, name) ==
  IF v.fs = 0 /\ ~is_directory(v) THEN UNCHANGED ns
  ELSE /\ Cardinality(Nodes(ns)) < MaxNodes
       /\ ns' = [ns EXCEPT !.tree[v.fs] = @ \cup {Append(v.path, name)}]

\* create(), as called by mkdir(), mknod() and open() with O_CREAT.
create(start, path) ==
  LET parent == Steps(ns, start, path)[Len(path) - 1] IN
  /\ Runs(start, path)
  /\ IF \/ path \in {<<>>, <<".">>, <<"..">>}
        \/ resolve_path(ns, start, path) # nullptr
        \/ parent = nullptr
     THEN UNCHANGED ns
     ELSE create_child(parent, Last(path))
  /\ UNCHANGED cwd

\* A task works in the file system, or one is mounted in it; the rootfs is
\* mounted in itself.
InUse(k) == \/ \E t \in Tasks : cwd[t].fs = k
            \/ \E i \in DOMAIN ns.mounts : ns.mounts[i].host.fs = k

Unused == {k \in 1..MaxFs : ~Mounted(ns, k) /\ ~InUse(k)}

mount(start, path) ==
  LET v == resolve_path(ns, start, path)
      k == First(Unused)
      taken == \E i \in DOMAIN ns.mounts : ns.mounts[i].host = v
  IN
  /\ Runs(start, path) /\ Unused # {}
  /\ v = nullptr \/ MountAnywhere \/ (is_directory(v) /\ v.path # <<>> /\ ~taken)
  /\ ns' = IF v = nullptr THEN ns
           ELSE [ns EXCEPT !.mounts = Append(@, [guest |-> k, host |-> v]), !.tree[k] = {<<>>}]
  /\ UNCHANGED cwd

IsMountRoot(v) == v # nullptr /\ v.path = <<>> /\ Mounted(ns, v.fs)

umount_rest(start, path) ==
  LET v == resolve_path(ns, start, path)
      i == First({j \in DOMAIN ns.mounts : ns.mounts[j].guest = v.fs})
  IN
  /\ Runs(start, path)
  /\ ns' = IF ~IsMountRoot(v) THEN ns ELSE [ns EXCEPT !.mounts = SubSeq(@, 1, i - 1)]
  /\ UNCHANGED cwd

\* umount() asks nobody whether the file system is in use; one that is not is
\* freed with its mount.
umount(start, path) ==
  LET v == resolve_path(ns, start, path) IN
  /\ Runs(start, path)
  /\ ns' = IF ~IsMountRoot(v) THEN ns
           ELSE [ns EXCEPT !.mounts = SelectSeq(@, LAMBDA m : m.guest # v.fs),
                           !.tree[v.fs] = IF InUse(v.fs) THEN @ ELSE {}]
  /\ UNCHANGED cwd

sys_chdir(t, start, path) ==
  LET v == resolve_path(ns, start, path) IN
  /\ Runs(start, path)
  /\ cwd' = IF v = nullptr \/ ~is_directory(v) THEN cwd ELSE [cwd EXCEPT ![t] = v]
  /\ UNCHANGED ns

Next ==
  \E t \in Tasks, absolute \in BOOLEAN, path \in Paths :
    LET start == Start(ns, t, absolute, path) IN
    \/ create(start, path)
    \/ mount(start, path)
    \/ /\ BusyUmount \/ LET v == resolve_path(ns, start, path)
                        IN  v = nullptr \/ v.path # <<>> \/ ~InUse(v.fs)
       /\ umount(start, path)
    \/ sys_chdir(t, start, path)

Spec == Init /\ [][Next]_vars

-----------------------------------------------------------------------------
(* Properties.                                                             *)

\* The trees, the mount table and the working directories.
TypeOK ==
  /\ \A k \in 0..MaxFs : \A p \in ns.tree[k] : p = <<>> \/ Front(p) \in ns.tree[k]
  /\ \A t \in Tasks : cwd[t].fs \in 0..MaxFs /\ cwd[t].path \in ns.tree[cwd[t].fs]
  /\ \A i \in DOMAIN ns.mounts : ns.mounts[i].host.fs \in 0..MaxFs
  /\ dangling \in BOOLEAN

\* The name of a vnode from the root, across mounts.
RECURSIVE FullPath(_)
FullPath(v) == IF v.fs = 0 THEN v.path ELSE FullPath(get_host_vnode(ns, v.fs)) \o v.path

\* Something is mounted on the vnode or above it.
RECURSIVE Hidden(_)
Hidden(v) ==
  \/ \E i \in 2..Len(ns.mounts) :
       LET h == ns.mounts[i].host IN h.fs = v.fs /\ IsPrefix(h.path, v.path)
  \/ v.fs # 0 /\ LET h == get_host_vnode(ns, v.fs)
                 IN  h.path # <<>> /\ Hidden(Vnode(h.fs, Front(h.path)))

FromRoot(n, path) == Steps(n, RootOf(rootfs(n)), path)
Resolved(path) == FromRoot(ns, path)[Len(path)]

\* Every file and directory that is not under a mount is found by the names on
\* the way to it, from the root and across mounts, and nothing else is found
\* there.
NamesResolve ==
  \A v \in Nodes(ns) : Mounted(ns, v.fs) /\ ~Hidden(v) => Resolved(FullPath(v)) = v

\* "cd d; cd .." leads back, also out of a mounted file system and into one.
DotDot ==
  \A path \in Paths, name \in Names :
    LET child == Resolved(Append(path, name)) IN
    child # nullptr /\ is_directory(child) =>
      Resolved(path \o <<name, "..">>) = Resolved(path)

\* A mount changes what its mountpoint is, and nothing on paths that do not
\* lead through it; unmounting brings back what was there.  The test
\* vfs_test_mnt does one round of this.
MountCovers ==
  [][ns'.mounts # ns.mounts =>
       LET names == {path \in Paths : ToSet(path) \subseteq Names}
           before == [path \in names |-> FromRoot(ns, path)]
           after == [path \in names |-> FromRoot(ns', path)[Len(path)]]
           Was(path) == before[path][Len(path)]
           Through(path, v) == \E i \in DOMAIN path : before[path][i] = v
       IN  /\ \A m \in ToSet(ns'.mounts) \ ToSet(ns.mounts) : \A path \in names :
                /\ after[path] # Was(path) => Through(path, m.host)
                /\ Was(path) = m.host => after[path] = RootOf(m.guest)
           /\ \A m \in ToSet(ns.mounts) \ ToSet(ns'.mounts) : \A path \in names :
                /\ after[path] # Was(path) => Through(path, RootOf(m.guest))
                /\ Was(path) = RootOf(m.guest) => after[path] = m.host]_vars

\* Path resolution is right downwards and upwards, across mounts.
PathsResolve == TypeOK /\ NamesResolve /\ DotDot
=============================================================================
