----------------------------- MODULE PageFrames -----------------------------
(***************************************************************************)
(* What the page frame allocator of a zone promises its callers: an        *)
(* allocation returns a naturally aligned run of page frames, the smallest *)
(* power of two of them that holds the request, that nobody else holds;    *)
(* it fails only when there is no such run.                                *)
(***************************************************************************)
EXTENDS Lib

CONSTANTS MAX_ORDER, PAGE_SIZE, Sizes

VARIABLES
  live,   \* the runs callers hold: pairs <<first frame, order>>
  ret     \* what the last call returned: <<size, first frame or nullptr>>

Frames == 0..(pow2[MAX_ORDER - 1] - 1)
NULL == -1

Run(b, o) == b..(b + pow2[o] - 1)
HeldFrames == UNION {Run(r[1], r[2]) : r \in live}

\* The runs of pow2[o] frames that are free and aligned to their size.
FreeRuns(o) ==
  {b \in Frames : /\ b % pow2[o] = 0
                  /\ Run(b, o) \subseteq Frames \ HeldFrames}

\* The smallest order whose run holds `size' bytes.
Fits(o, size) ==
  /\ PAGE_SIZE * pow2[o] >= size
  /\ o = 0 \/ PAGE_SIZE * pow2[o - 1] < size

Init == live = {} /\ ret = <<0, NULL>>

Allocate ==
  \E size \in Sizes, o \in 0..(MAX_ORDER - 1) :
    /\ Fits(o, size)
    /\ \E b \in FreeRuns(o) : live' = live \cup {<<b, o>>} /\ ret' = <<size, b>>

Fail ==
  \E size \in Sizes :
    /\ \A o \in 0..(MAX_ORDER - 1) : Fits(o, size) => FreeRuns(o) = {}
    /\ ret' = <<size, NULL>>
    /\ UNCHANGED live

Free == \E r \in live : live' = live \ {r} /\ ret' = <<0, NULL>>

Next == Allocate \/ Fail \/ Free

Spec == Init /\ [][Next]_<<live, ret>>

=============================================================================
