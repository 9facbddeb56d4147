----------------------------- MODULE MC_Library -----------------------------
(* The library, the storage device and the tracker of kernel pointers, one   *)
(* part at a time: a behaviour starts with the choice of a part and then     *)
(* only uses that one.  The tracked heap has 4 frames and a chunk.           *)
EXTENDS Tasklets, Storage, MemoryManager, TLC

CONSTANTS
  SharedVars, WeakVars, MaxObjects, MaxBlocks,
  Lists, ListValues, MaxListNodes,
  Events, Timeouts, Periods, DEFAULT_SIZE,
  Alphabet, MaxTyped, INT_MAX, UcsChars, MaxNameChars, EntryChars,
  Letters, LineSizes, MaxKeys, MaxColumns, UniqueVars, MaxOwned

VARIABLES part, h, sp, wp, mem, lists, contents, deque, is_enabled, left, due, ran,
          input, number, filename, screen, tty, up, raw, owned

pointer_vars == <<h, sp, wp>>
list_vars == <<mem, lists, contents>>
timer_vars == <<deque, is_enabled, left, due, ran>>
text_vars == <<input, number, filename, screen, tty>>
unique_vars == <<up, raw, owned>>
tracked_vars == <<zone, live, ret, chunks, allocated_pointers, freed, panicked>>

\* The first entry of the MBR is the boot partition, which the kernel skips.
FourEntries == <<[start |-> 1, nr |-> 1], [start |-> 2, nr |-> 2],
                 [start |-> 0, nr |-> 0], [start |-> 4, nr |-> 1]>>

P == INSTANCE SharedPtr
L == INSTANCE List
T == INSTANCE Timers
S == INSTANCE Formats
C == INSTANCE Console WITH Sizes <- LineSizes
U == INSTANCE UniquePtr

ASSUME TrackerConstants /\ StorageConstants

\* In this instance the tracker has a slot for every pointer that can be live.
ASSUME KASAN_SLOTS >= pow2[MAX_ORDER - 1] + NumChunks

LibraryInit ==
  /\ part \in {"pointers", "unique", "lists", "timers", "tasklets",
              "strings", "formats", "console", "storage", "tracker"}
  /\ P!Init /\ U!UniqueInit /\ L!Init /\ T!Init /\ TaskletInit
  /\ S!Init /\ (part # "strings" => input = <<>>)
  /\ S!FormatsInit /\ C!ConsoleInit
  /\ StorageInit /\ (part # "storage" => card.high_capacity)
  /\ MMInit

LibraryNext ==
  /\ UNCHANGED part
  /\ \/ /\ part = "pointers" /\ P!Next
        /\ UNCHANGED <<unique_vars, list_vars, timer_vars, tasklet_vars, text_vars, storage_vars, tracked_vars>>
     \/ /\ part = "unique" /\ U!UniqueNext
        /\ UNCHANGED <<pointer_vars, list_vars, timer_vars, tasklet_vars, text_vars, storage_vars, tracked_vars>>
     \/ /\ part = "lists" /\ L!Next
        /\ UNCHANGED <<pointer_vars, unique_vars, timer_vars, tasklet_vars, text_vars, storage_vars, tracked_vars>>
     \/ /\ part = "timers" /\ T!Next
        /\ UNCHANGED <<pointer_vars, unique_vars, list_vars, tasklet_vars, text_vars, storage_vars, tracked_vars>>
     \/ /\ part = "tasklets" /\ TaskletNext
        /\ UNCHANGED <<pointer_vars, unique_vars, list_vars, timer_vars, text_vars, storage_vars, tracked_vars>>
     \/ /\ part = "strings" /\ S!Next
        /\ UNCHANGED <<number, filename, screen, tty, pointer_vars, unique_vars, list_vars, timer_vars, tasklet_vars, storage_vars, tracked_vars>>
     \/ /\ part = "formats" /\ S!FormatsNext
        /\ UNCHANGED <<input, screen, tty, pointer_vars, unique_vars, list_vars, timer_vars, tasklet_vars, storage_vars, tracked_vars>>
     \/ /\ part = "console" /\ C!ConsoleNext
        /\ UNCHANGED <<input, number, filename, pointer_vars, unique_vars, list_vars, timer_vars, tasklet_vars, storage_vars, tracked_vars>>
     \/ /\ part = "storage" /\ StorageNext
        /\ UNCHANGED <<pointer_vars, unique_vars, list_vars, timer_vars, tasklet_vars, text_vars, tracked_vars>>
     \/ /\ part = "tracker" /\ MMNext
        /\ UNCHANGED <<pointer_vars, unique_vars, list_vars, timer_vars, tasklet_vars, text_vars, storage_vars>>

LibrarySpec == LibraryInit /\ [][LibraryNext]_<<part, pointer_vars, unique_vars, list_vars,
                                                timer_vars, tasklet_vars, text_vars, storage_vars,
                                                tracked_vars>>

Interchangeable == Permutations(SharedVars) \cup Permutations(WeakVars) \cup Permutations(UniqueVars)


\* List.h: both directions, the size and the values are those of one sequence.
ListIsSequence == L!ListIsSequence

\* TimerMultiplexer.cc, Timer.cc, Deque.h: a callback runs once, in the tick that its
\* timeout names; until then its event is in the deque and the core timer is on.
TimersExact == T!TimersExact

\* String.h, CString.cc, FAT32.cc, sh/main.cc: splitting, comparing, reading numbers,
\* short names and the shell's arguments are what their reference definitions say.
StringsAgree == part = "strings" => S!StringsAgree

\* printf.cc, Encoding.cc, FAT32.cc: numbers, fields and the file names that fit the
\* buffer of get_filename() survive being written.
FormatsReadBack == part = "formats" => S!FormatsReadBack

\* Console.cc: the buffer holds the line as it was edited, and the terminal shows it.
LineIsShown == C!LineIsShown
=============================================================================
