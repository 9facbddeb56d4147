------------------------------ MODULE Formats ------------------------------
(***************************************************************************)
(* Numbers and names that change their representation: printf.cc, through  *)
(* which every number that the kernel shows or puts in a file of ProcFS    *)
(* goes, and Encoding.cc, through which every FAT32 file name goes.        *)
(*                                                                         *)
(* An int has the width that INT_MAX gives it, an unsigned long twice that *)
(* width.  A behaviour counts through the numbers, or types a file name.   *)
(***************************************************************************)
EXTENDS Strings

CONSTANTS
  UcsChars,      \* UCS-2 characters of file names
  MaxNameChars,  \* characters of a file name
  EntryChars     \* characters in a FilenameEntry: 13

VARIABLES number, filename

format_vars == <<number, filename>>

\* The number of values of an unsigned int.
WORD == 2 * (INT_MAX + 1)

FormatsInit == number = 0 /\ filename = <<>>

next_number == filename = <<>> /\ number' = (number + 1) % WORD /\ UNCHANGED filename

next_name ==
  /\ number = 0 /\ UNCHANGED number
  /\ IF Len(filename) = MaxNameChars THEN filename' = <<>>
     ELSE \E c \in UcsChars : filename' = Append(filename, c)

FormatsNext == next_number \/ next_name

-----------------------------------------------------------------------------
(* printf.cc                                                               *)

DigitChar(dgt, uc) == IF dgt < 10 THEN 48 + dgt ELSE (IF uc THEN 65 ELSE 97) + dgt - 10

RECURSIVE Divisor_above(_, _, _)
Divisor_above(num, base, d) ==
  IF d # 0 /\ num \div d > base THEN Divisor_above(num, base, (d * base) % WORD) ELSE d

\* The first loop of ui2a() and uli2a(): the divisor is an unsigned int in both,
\* and once it has wrapped round to 0 the core's division gives 0.
RECURSIVE Divisor(_, _, _)
Divisor(num, base, d) ==
  IF d # 0 /\ num \div d >= base THEN Divisor(num, base, (d * base) % WORD) ELSE d

\* The second one: n is whether a digit was put.
RECURSIVE digits_of(_, _, _, _, _)
digits_of(num, d, base, uc, n) ==
  IF d = 0 THEN <<>>
  ELSE LET dgt == num \div d
           put == n \/ dgt > 0 \/ d \div base = 0
       IN (IF put THEN <<DigitChar(dgt, uc)>> ELSE <<>>)
            \o digits_of(num % d, d \div base, base, uc, put)

ui2a(num, base, uc) == digits_of(num, Divisor(num, base, 1), base, uc, FALSE)

uli2a(num, base, uc) == digits_of(num, Divisor(num, base, 1), base, uc, FALSE)

\* -num wraps round for the smallest number, whose digits are right nevertheless.
i2a(num) == IF num < 0 THEN <<45>> \o ui2a(-num, 10, FALSE) ELSE ui2a(num, 10, FALSE)

li2a(num) == IF num < 0 THEN <<45>> \o uli2a(-num, 10, FALSE) ELSE uli2a(num, 10, FALSE)

a2d(ch) == IF ch \in 48..57 THEN ch - 48
           ELSE IF ch \in 97..102 THEN ch - 87
           ELSE IF ch \in 65..70 THEN ch - 55 ELSE -1

\* Reads a number from p on: the next position is the one after the character ch
\* that ended it.
RECURSIVE a2i(_, _, _, _)
a2i(fmt, p, base, num) ==
  LET digit == a2d(CharAt(fmt, p)) IN
  IF digit < 0 \/ digit > base THEN [ch |-> CharAt(fmt, p), p |-> p + 1, num |-> num]
  ELSE a2i(fmt, p + 1, base, num * base + digit)

putchw(n, z, bf) == [k \in 1..Max({n - Len(bf), 0}) |-> IF z THEN 48 ELSE SPACE] \o bf

\* The text of one conversion.
Converted(ch, lng, w, lz, arg) ==
  CASE ch = 117 -> putchw(w, lz, IF lng THEN uli2a(arg, 10, FALSE) ELSE ui2a(arg, 10, FALSE))
    [] ch = 100 -> putchw(w, lz, IF lng THEN li2a(arg) ELSE i2a(arg))
    [] ch \in {120, 88} -> putchw(w, lz, IF lng THEN uli2a(arg, 16, ch = 88) ELSE ui2a(arg, 16, ch = 88))
    [] ch = 112 -> putchw(8, TRUE, ui2a(arg \div WORD, 16, FALSE))
                     \o putchw(8, TRUE, ui2a(arg % WORD, 16, FALSE))
    [] ch = 99 -> <<arg>>
    [] ch = 115 -> putchw(w, FALSE, arg)

Takes(ch) == ch \in {99, 100, 112, 115, 117, 120, 88}

\* fmt from position i on, with the arguments va: a lone '%' at the end stops it,
\* an unknown conversion prints nothing and takes no argument.
RECURSIVE format_from(_, _, _)
format_from(fmt, i, va) ==
  IF i >= Len(fmt) THEN <<>>
  ELSE IF CharAt(fmt, i) # 37 THEN <<CharAt(fmt, i)>> \o format_from(fmt, i + 1, va)
  ELSE LET lz == CharAt(fmt, i + 1) = 48
           first == i + IF lz THEN 2 ELSE 1
           width == IF IsDigit(CharAt(fmt, first)) THEN a2i(fmt, first, 10, 0)
                    ELSE [ch |-> CharAt(fmt, first), p |-> first + 1, num |-> 0]
           lng == width.ch = 108
           ch == IF lng THEN CharAt(fmt, width.p) ELSE width.ch
           next == width.p + IF lng THEN 1 ELSE 0
       IN IF ch = 0 THEN <<>>
          ELSE IF Takes(ch)
          THEN Converted(ch, lng, width.num, lz, Head(va)) \o format_from(fmt, next, Tail(va))
          ELSE (IF ch = 37 THEN <<37>> ELSE <<>>) \o format_from(fmt, next, va)

tfp_format(fmt, va) == format_from(fmt, 0, va)

-----------------------------------------------------------------------------
(* Encoding.cc, byte by byte: x & 0x3F is x % 64, and x | 0x80 adds 128.   *)

\* The number of bytes that utf2ucs() takes for the character at i.
Taken(src, i) ==
  IF CharAt(src, i) >= 128 /\ CharAt(src, i + 1) >= 128 THEN 3
  ELSE IF CharAt(src, i) >= 128 /\ CharAt(src, i + 1) >= 64 THEN 2 ELSE 1

Decoded(src, i) ==
  CASE Taken(src, i) = 3 -> (CharAt(src, i) % 16) * 4096 + (CharAt(src, i + 1) % 64) * 64
                              + (CharAt(src, i + 2) % 64)
    [] Taken(src, i) = 2 -> (CharAt(src, i) % 32) * 64 + (CharAt(src, i + 1) % 64)
    [] OTHER -> CharAt(src, i)

RECURSIVE utf2ucs_from(_, _)
utf2ucs_from(src, i) ==
  IF CharAt(src, i) = 0 THEN <<>>
  ELSE <<Decoded(src, i)>> \o utf2ucs_from(src, i + Taken(src, i))

utf2ucs(src) == utf2ucs_from(src, 0)

\* One character.  In two bytes, the upper bits of the character are lost.
Encoded(c) ==
  IF c < 128 THEN <<c>>
  ELSE IF c < 2048 THEN <<((c % 64) % 32) + 192, (c % 64) + 128>>
  ELSE <<((c \div 4096) % 16) + 224, ((c \div 64) % 64) + 128, (c % 64) + 128>>

ucs2utf(src) == FlattenSeq([j \in DOMAIN src |-> Encoded(src[j])])

-----------------------------------------------------------------------------
(* FAT32.cc: a name in its entries.                                        *)

\* The pieces that create_child() puts in one FilenameEntry each, in the order of the
\* name.
name_segments(ucs) ==
  [k \in 1..((Len(ucs) + EntryChars - 1) \div EntryChars) |->
     SubSeq(ucs, EntryChars * (k - 1) + 1, Min({EntryChars * k, Len(ucs)}))]

\* out[] has two bytes for a character, and one for the NUL.
FitsOut(segment) == Len(ucs2utf(segment)) + 1 <= 2 * EntryChars + 1

\* What is found behind an out[] that was overrun is no part of the name.
Overrun == <<0>>

get_filename(segment) == IF FitsOut(segment) THEN ucs2utf(segment) ELSE Overrun

\* The name that iterate_children() puts together from the entries.
NameOf(ucs) == FlattenSeq([k \in DOMAIN name_segments(ucs) |-> get_filename(name_segments(ucs)[k])])

-----------------------------------------------------------------------------
IsNumeral(s, base, n) ==
  /\ s # <<>> /\ \A k \in DOMAIN s : IsValid(s[k], base)
  /\ Value(s, base) = n /\ (s[1] = 48 => Len(s) = 1)

Signed(n) == IF n > INT_MAX THEN n - WORD ELSE n

\* printf.cc, CString.cc: what printf() writes for an int, atoi() reads back, the
\* smallest one included; an unsigned number, also one given as a long, is printed
\* as its shortest numeral, up to the largest unsigned int.
PrintedReadsBack ==
  /\ atoi(tfp_format(<<37, 100>>, <<Signed(number)>>), 10) = Signed(number)
  /\ \A conversion \in {<<37, 117>>, <<37, 108, 117>>} :
       IsNumeral(tfp_format(conversion, <<number>>), 10, number)
  /\ \A conversion \in {<<37, 120>>, <<37, 88>>, <<37, 108, 120>>} :
       IsNumeral(tfp_format(conversion, <<number>>), 16, number)

\* printf.cc: the text around the conversions is kept, each conversion takes the
\* next argument, a field is filled on the left up to its width and never cut, and
\* a pointer has all of its digits.
FieldsInOrder ==
  LET d == i2a(Signed(number))
      x == ui2a(number, 16, FALSE)
      Fill(c, n) == [k \in 1..n |-> c]
  IN /\ tfp_format(<<91, 37, 100, 32, 48, 120, 37, 120, 93>>, <<Signed(number), number>>)
          = <<91>> \o d \o <<32, 48, 120>> \o x \o <<93>>
     /\ \A w \in 1..9, z \in {<<>>, <<48>>} :
          LET f == tfp_format(<<37>> \o z \o <<48 + w, 100, 37, 37, 37, 115>>, <<Signed(number), x>>) IN
          /\ Len(f) = Max({w, Len(d)}) + 1 + Len(x)
          /\ \E n \in 0..w : f = Fill(IF z = <<>> THEN SPACE ELSE 48, n) \o d \o <<37>> \o x
     /\ LET p == tfp_format(<<37, 112>>, <<number * WORD + number>>) IN
        Len(p) = 16 /\ \A h \in {0, 8} : Value(SubSeq(p, h + 1, h + 8), 16) = number

\* Encoding.cc, FAT32.cc: a file name that create_child() converts to UCS-2 and spreads
\* over its entries is put together again unchanged, if no character of it takes two
\* bytes and the part of each entry fits the buffer of get_filename().
NameSurvives ==
  LET utf8 == ucs2utf(filename) IN
  ((\A k \in DOMAIN filename : filename[k] \notin 128..2047)
   /\ \A segment \in Range(name_segments(filename)) : FitsOut(segment))
  => utf2ucs(utf8) = filename /\ NameOf(utf2ucs(utf8)) = utf8

\* What printf() and the encodings write can be read back as what was given to them.
FormatsReadBack == PrintedReadsBack /\ FieldsInOrder /\ NameSurvives
=============================================================================
