------------------------------ MODULE Strings ------------------------------
(***************************************************************************)
(* The string algorithms that names, paths and numbers go through:         *)
(* lib/CString.cc, include/lib/String.h, the short names of FAT32 and the  *)
(* arguments of the shell (usr/sh/main.cc).                                *)
(*                                                                         *)
(* A string is the sequence of its character codes, without the final NUL. *)
(* Positions of the code count from 0.  A behaviour types a string; the    *)
(* properties compare each algorithm with its definition on every string.  *)
(***************************************************************************)
EXTENDS Integers, Sequences, SequencesExt, FiniteSetsExt

CONSTANTS
  Alphabet,     \* codes of the characters that are typed
  MaxTyped,     \* characters typed
  INT_MAX       \* the largest int

VARIABLE input

SPACE == 32
PERIOD == 46
npos == -1
INT_MIN == -INT_MAX - 1

\* Nothing, or eight letters: a short name's limits lie behind them.
Init == input \in {<<>>, [i \in 1..8 |-> 90]}

type_char ==
  /\ Len(input) \notin {MaxTyped, 8 + MaxTyped}
  /\ \E c \in Alphabet : input' = Append(input, c)

new_line == Len(input) \in {MaxTyped, 8 + MaxTyped} /\ input' = <<>>

Next == type_char \/ new_line

-----------------------------------------------------------------------------
(* CString.cc                                                              *)

CharAt(s, i) == IF i < Len(s) THEN s[i + 1] ELSE 0

RECURSIVE strncmp_from(_, _, _, _)
strncmp_from(s1, s2, n, i) ==
  IF (CharAt(s1, i) = 0 /\ CharAt(s2, i) = 0) \/ n = i THEN 0
  ELSE IF CharAt(s1, i) = CharAt(s2, i) THEN strncmp_from(s1, s2, n, i + 1)
  ELSE CharAt(s1, i) - CharAt(s2, i)

strncmp(s1, s2, n) == strncmp_from(s1, s2, n, 0)

strcmp(s1, s2) == strncmp_from(s1, s2, npos, 0)

IsDigit(c) == c \in 48..57
IsAlphanumeric(c) == c \in 48..57 \/ c \in 65..70 \/ c \in 97..102
IsValid(c, base) == IF base = 10 THEN IsDigit(c) ELSE IsAlphanumeric(c)
to_decimal(c) == IF IsDigit(c) THEN c - 48 ELSE IF c \in 65..70 THEN c - 55 ELSE c - 87

Saturated(is_negative) == IF is_negative THEN INT_MIN ELSE INT_MAX

\* The loop of atoi().
RECURSIVE digits_unchecked(_, _, _, _, _)
digits_unchecked(str, base, ptr, result, is_negative) ==
  IF ~(ptr < Len(str) /\ IsValid(CharAt(str, ptr), base))
  THEN IF is_negative THEN -result ELSE result
  ELSE IF result > INT_MAX \div base THEN Saturated(is_negative)
  ELSE digits_unchecked(str, base, ptr + 1,
         (result * base + to_decimal(CharAt(str, ptr))) % (2 * (INT_MAX + 1)), is_negative)

RECURSIVE digits(_, _, _, _, _)
digits(str, base, ptr, result, is_negative) ==
  IF ~(ptr < Len(str) /\ IsValid(CharAt(str, ptr), base))
  THEN IF is_negative THEN -result ELSE result
  ELSE IF \/ result > INT_MAX \div base
          \/ result * base > INT_MAX - to_decimal(CharAt(str, ptr))
  THEN Saturated(is_negative)
  ELSE digits(str, base, ptr + 1, result * base + to_decimal(CharAt(str, ptr)), is_negative)

WithoutBlanks(str) ==
  SubSeq(str, 1 + Cardinality({k \in 1..Len(str) : \A j \in 1..k : str[j] = SPACE}), Len(str))

atoi(s, base) ==
  LET str == WithoutBlanks(s)
      sign == CharAt(str, 0) IN
  IF sign \notin {43, 45} /\ ~IsValid(sign, base) THEN 0
  ELSE digits(str, base, IF sign \in {43, 45} THEN 1 ELSE 0, 0, sign = 45)

-----------------------------------------------------------------------------
(* String.h                                                                *)

Positions(s, P(_)) == {i \in 0..(Len(s) - 1) : P(s[i + 1])}
FirstOf(positions) == IF positions = {} THEN npos ELSE Min(positions)

find_first_of(s, c) == FirstOf(Positions(s, LAMBDA x : x = c))
find_first_not_of(s, c) == FirstOf(Positions(s, LAMBDA x : x # c))
find_last_of(s, c) == Max(Positions(s, LAMBDA x : x = c) \cup {npos})

\* The terminator goes one place too low: the last character kept is lost.
remove(s, val) ==
  LET kept == SelectSeq(s, LAMBDA c : c # val)
  IN SubSeq(kept, 1, Len(kept) - 1)

substr(s, begin, len) ==
  IF s = <<>> THEN <<>>
  ELSE SubSeq(s, begin + 1, begin + IF len = npos \/ begin + len > Len(s) THEN Len(s) - begin ELSE len)

RECURSIVE split_from(_, _, _, _, _, _)
split_from(s, delimiter, limit, i, begin, substrings) ==
  IF i < Len(s) /\ Len(substrings) # limit - 1
  THEN IF s[i + 1] = delimiter
       THEN split_from(s, delimiter, limit, i + 1, i + 1,
              IF i - begin # 0 THEN Append(substrings, substr(s, begin, i - begin)) ELSE substrings)
       ELSE split_from(s, delimiter, limit, i + 1, begin, substrings)
  ELSE IF Len(s) - begin # 0 THEN Append(substrings, substr(s, begin, Len(s) - begin))
  ELSE substrings

split(s, delimiter, limit) ==
  IF s = <<>> THEN <<>> ELSE split_from(s, delimiter, limit, 0, 0, <<>>)

to_upper(s) == [i \in DOMAIN s |-> IF s[i] \in 97..122 THEN s[i] - 32 ELSE s[i]]

-----------------------------------------------------------------------------
(* FAT32.cc: the short name of a file.                                     *)

is_valid_short_filename_char(c) ==
  \/ c \in 65..90 \/ c \in 48..57 \/ c \in 128..228 \/ c \in 230..255
  \/ c \in {32, 33, 35, 36, 37, 38, 39, 40, 41, 45, 64, 94, 95, 96, 123, 125, 126}

can_fit_within_83_short_filename(name) ==
  /\ Len(name) <= 11
  /\ find_first_of(name, PERIOD) = npos \/ find_first_of(name, PERIOD) <= 8
  /\ find_last_of(name, PERIOD) = npos \/ Len(name) - find_last_of(name, PERIOD) <= 3

to_oem(s) ==
  [i \in DOMAIN s |-> IF is_valid_short_filename_char(to_upper(s)[i]) THEN to_upper(s)[i] ELSE 95]

\* Each character of the primary name is stored at basis[7], and the extension
\* starts at index 2 whenever there is a period.
Basis(name) ==
  LET primary == substr(name, 0, find_first_of(name, PERIOD))
      extension == IF find_last_of(name, PERIOD) # npos THEN SubSeq(name, 3, Len(name)) ELSE <<>>
  IN [i \in 1..11 |->
        IF i = 8 /\ primary # <<>> THEN Last(primary)
        ELSE IF i > 8 /\ i - 8 <= Len(extension) THEN extension[i - 8]
        ELSE SPACE]

\* What the stack may hold behind basis[10], up to a NUL.
Behind == {<<>>, <<7>>, <<200, 7>>}

\* Panics for an empty name, which create_child() is never given.  The early return
\* leaves basis[11] as the stack had it, so that the string goes on behind it.
generate_short_filename(long_filename, behind) ==
  LET lossy_conversion == to_oem(long_filename) # to_upper(long_filename)
      stripped == remove(to_oem(long_filename), SPACE)
      name == substr(stripped, find_first_not_of(stripped, PERIOD), npos)
  IN IF ~lossy_conversion /\ can_fit_within_83_short_filename(name)
     THEN Basis(name) \o behind
     ELSE [Basis(name) EXCEPT ![7] = 126, ![8] = 49]

-----------------------------------------------------------------------------
(* sh: the arguments of a command line, in a buffer filled up with NULs.   *)

SkipTo(buf, s, Stop(_)) == Min({k \in s..Len(buf) : Stop(buf[k])})

get_argc(s) ==
  LET ends == {i \in 2..Len(s) : s[i] = SPACE /\ s[i - 1] # SPACE}
  IN Cardinality(ends) + IF s # <<>> /\ Last(s) # SPACE THEN 1 ELSE 0

\* Ends the current argument and moves s to the next one.
get_next_arg(r) ==
  LET e == SkipTo(r.buf, r.s, LAMBDA c : c \in {0, SPACE})
      buf == [r.buf EXCEPT ![e] = 0]
  IN [buf |-> buf, s |-> SkipTo(buf, e + 1, LAMBDA c : c # SPACE)]

RECURSIVE next_args(_, _, _)
next_args(r, starts, argc) ==
  IF Len(starts) >= argc THEN [buf |-> r.buf, starts |-> SubSeq(starts, 1, argc)]
  ELSE LET n == get_next_arg(r) IN next_args(n, Append(starts, n.s), argc)

\* arguments[] of run_shell().
arguments(line) ==
  LET buf == line \o [i \in 1..(Len(line) + 1) |-> 0]
      s == SkipTo(buf, 1, LAMBDA c : c # SPACE)
      r == next_args([buf |-> buf, s |-> s], <<s>>, get_argc(line))
  IN [i \in DOMAIN r.starts |->
        SubSeq(r.buf, r.starts[i], SkipTo(r.buf, r.starts[i], LAMBDA c : c = 0) - 1)]

-----------------------------------------------------------------------------
(* What the algorithms should compute.                                     *)

Words(s, delimiter) ==
  LET runs == {r \in (1..Len(s)) \X (1..Len(s)) :
                 /\ r[1] <= r[2] /\ \A k \in r[1]..r[2] : s[k] # delimiter
                 /\ r[1] = 1 \/ s[r[1] - 1] = delimiter
                 /\ r[2] = Len(s) \/ s[r[2] + 1] = delimiter}
      order == SetToSortSeq(runs, LAMBDA x, y : x[1] < y[1])
  IN [i \in DOMAIN order |-> SubSeq(s, order[i][1], order[i][2])]

Before(s1, s2) ==
  \/ IsStrictPrefix(s1, s2)
  \/ \E i \in 1..Len(s1) : i <= Len(s2) /\ s1[i] < s2[i] /\ \A j \in 1..(i - 1) : s1[j] = s2[j]

Value(ds, base) == FoldLeft(LAMBDA v, c : v * base + to_decimal(c), 0, ds)

\* The longest run of digits after blanks and a sign.
Number(s, base) ==
  LET str == WithoutBlanks(s)
      from == IF CharAt(str, 0) \in {43, 45} THEN 2 ELSE 1
      ends == {k \in from..Len(str) : \A j \in from..k : IsValid(str[j], base)}
      v == Value(SubSeq(str, from, from + Cardinality(ends) - 1), base)
  IN IF CharAt(str, 0) = 45 THEN Max({-v, INT_MIN}) ELSE Min({v, INT_MAX})

\* split() gives the words of a path; with a limit, at most that many pieces, of
\* which all but the last are words.
SplitIsWords ==
  \A d \in {SPACE, PERIOD} :
    /\ split(input, d, 0) = Words(input, d)
    /\ \A limit \in 1..3 :
         LET pieces == split(input, d, limit) IN
         /\ Len(pieces) <= limit
         /\ \A i \in 1..(Len(pieces) - 1) : pieces[i] = Words(input, d)[i]

\* atoi() is the number that the string starts with, held at the limits of an int
\* rather than wrapped round.
AtoiSaturates == \A base \in {10, 16} : atoi(input, base) = Number(input, base)

\* strcmp() and strncmp() order strings, and their prefixes, as a dictionary does.
CompareIsOrder ==
  \A k \in 0..Len(input), n \in 0..(Len(input) + 1) :
    LET s1 == SubSeq(input, 1, k)
        s2 == SubSeq(input, k + 1, Len(input))
        Pre(s) == SubSeq(s, 1, Min({n, Len(s)}))
    IN /\ (strcmp(s1, s2) = 0) = (s1 = s2) /\ (strcmp(s1, s2) < 0) = Before(s1, s2)
       /\ (strncmp(s1, s2, n) = 0) = (Pre(s1) = Pre(s2))
       /\ (strncmp(s1, s2, n) < 0) = Before(Pre(s1), Pre(s2))

\* The eleven characters that create_child() copies from a short name to the
\* directory entry are legal, whatever the long name is and whatever follows them; a
\* name that had to be changed has nothing behind them and is marked with a numeric
\* tail.
ShortNameLegal ==
  input # <<>> => \A behind \in Behind :
    LET name == generate_short_filename(input, behind) IN
    /\ Len(name) >= 11 /\ \A i \in 1..11 : is_valid_short_filename_char(name[i])
    /\ (\E i \in DOMAIN input : ~is_valid_short_filename_char(to_upper(input)[i])) =>
         Len(name) = 11 /\ SubSeq(name, 7, 8) = <<126, 49>>

\* The shell's arguments are the words of the line; only the last one keeps the
\* spaces that follow it.
ArgumentsAreWords ==
  LET words == Words(input, SPACE)
      args == arguments(input)
  IN /\ Len(args) = Len(words)
     /\ \A i \in DOMAIN args :
          IF i < Len(args) THEN args[i] = words[i]
          ELSE IsPrefix(words[i], args[i]) /\ IsSuffix(args[i], input)

\* Every string algorithm returns what its reference definition says of the input.
StringsAgree ==
  SplitIsWords /\ AtoiSaturates /\ CompareIsOrder /\ ShortNameLegal /\ ArgumentsAreWords
=============================================================================
