--------------------------- MODULE MC_Directories ---------------------------
(* Path names and /proc, one at a time.  Path names: two TmpFS instances     *)
(* beside the root, a few files, one task.  /proc: a shared listing and      *)
(* lookups, with a leading zero or without, beside tasks that come and go.   *)
EXTENDS ProcFS

CONSTANTS Tasks, Names, FileNames, MaxFs, MaxDepth, MaxNodes, MountAnywhere, BusyUmount

VARIABLES part, ns, cwd, dangling

names_vars == <<ns, cwd, dangling>>

(* No two names have the same sum of characters.                             *)
NameHash == [n \in Names |-> CASE n = "a" -> 97 [] n = "b" -> 98 [] OTHER -> 102]

N == INSTANCE Namespace

DirectoriesInit == part \in {"names", "proc"} /\ Init /\ N!Init

DirectoriesNext ==
  /\ UNCHANGED part
  /\ \/ part = "names" /\ N!Next /\ UNCHANGED vars
     \/ part = "proc" /\ Next /\ UNCHANGED names_vars

DirectoriesSpec == DirectoriesInit /\ [][DirectoriesNext]_<<part, vars, names_vars>>

\* VirtualFileSystem.cc: a file that no mount hides is found by the names that lead
\* to it, from the root and across mounts, and "cd d; cd .." leads back.
PathsResolve == part = "names" => N!PathsResolve

\* VirtualFileSystem.cc: mount and umount change what the mountpoint is, and
\* nothing on paths that do not lead through it.
MountCovers == N!MountCovers
=============================================================================
