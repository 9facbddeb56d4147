------------------------------ MODULE Console ------------------------------
(***************************************************************************)
(* The line editor of the console (dev/Console.cc over                     *)
(* driver/MiniUART.cc), as the shell uses it: the terminal echoes what the *)
(* user types, and read() collects it in the shell's buffer.  The user     *)
(* types printable characters, DEL and return; other control characters    *)
(* are echoed and kept as they are, and are left out.                      *)
(***************************************************************************)
EXTENDS Integers, Sequences, FiniteSets

CONSTANTS
  Letters,      \* printable characters: what a terminal shows in one column
  Sizes,        \* sizes given to read()
  MaxKeys,      \* keys pressed in one read()
  MaxColumns    \* columns at which a line can still be begun

VARIABLES
  screen,   \* the terminal's current line: [text, col]
  tty       \* [buf, i, size, reading] of read(); typed, the keys since it began;
            \* prompt, what the line showed when it began

console_vars == <<screen, tty>>

BS == 8
LF == 10
CR == 13
BLANK == 32
DEL == 127

Zeros(n) == [k \in 1..n |-> 0]

ConsoleInit ==
  /\ screen = [text |-> <<>>, col |-> 0]
  /\ tty = [buf |-> <<>>, i |-> 0, size |-> 0, reading |-> FALSE, typed |-> <<>>, prompt |-> <<>>]

-----------------------------------------------------------------------------
\* What a terminal does with a byte.  It ignores DEL.
send(t, byte) ==
  CASE byte = BS -> [t EXCEPT !.col = IF @ = 0 THEN 0 ELSE @ - 1]
    [] byte = CR -> [t EXCEPT !.col = 0]
    [] byte = LF -> [t EXCEPT !.text = <<>>]
    [] byte = DEL -> t
    [] OTHER -> [text |-> IF t.col < Len(t.text) THEN [t.text EXCEPT ![t.col + 1] = byte]
                          ELSE Append(t.text, byte),
                 col |-> t.col + 1]

putchar_sync(t, c) == IF c = LF THEN send(send(t, CR), LF) ELSE send(t, c)

Erased(t) == putchar_sync(putchar_sync(putchar_sync(t, BS), BLANK), BS)

\* The shell clears its buffer before it reads.
read ==
  /\ ~tty.reading /\ screen.col <= MaxColumns
  /\ \E size \in Sizes :
       tty' = [buf |-> Zeros(size), i |-> 0, size |-> size, reading |-> size > 0,
               typed |-> <<>>, prompt |-> SubSeq(screen.text, 1, screen.col)]
  /\ UNCHANGED screen

read_char_keeps(c) ==
  /\ screen' = IF c = DEL /\ tty.i > 0 THEN Erased(putchar_sync(screen, c)) ELSE putchar_sync(screen, c)
  /\ tty' = CASE c = DEL -> [tty EXCEPT !.i = IF @ = 0 THEN 0 ELSE @ - 1, !.typed = Append(@, c)]
              [] c = LF -> [tty EXCEPT !.reading = FALSE, !.typed = Append(@, c)]
              [] OTHER -> [tty EXCEPT !.buf[tty.i + 1] = c, !.i = @ + 1, !.typed = Append(@, c),
                                      !.reading = tty.i + 1 < tty.size]

\* One round of the loop of read(), with the character that getchar_sync() has
\* received and echoed.
read_char(c) ==
  /\ screen' = IF c = DEL /\ tty.i > 0 THEN Erased(putchar_sync(screen, c)) ELSE putchar_sync(screen, c)
  /\ tty' = CASE c = DEL /\ tty.i > 0 ->
                   [tty EXCEPT !.buf[tty.i] = 0, !.i = @ - 1, !.typed = Append(@, c)]
              [] c = DEL /\ tty.i = 0 -> [tty EXCEPT !.typed = Append(@, c)]
              [] c = LF -> [tty EXCEPT !.reading = FALSE, !.typed = Append(@, c)]
              [] OTHER -> [tty EXCEPT !.buf[tty.i + 1] = c, !.i = @ + 1, !.typed = Append(@, c),
                                      !.reading = tty.i + 1 < tty.size]

\* The user presses a key; past the bound only the return key.
key(k) ==
  /\ tty.reading /\ (Len(tty.typed) < MaxKeys \/ k = CR)
  /\ read_char(IF k = CR THEN LF ELSE k)

\* A program prints a character.
write(c) ==
  /\ ~tty.reading /\ (screen.col < MaxColumns \/ c = LF)
  /\ screen' = putchar_sync(screen, c)
  /\ UNCHANGED tty

ConsoleNext ==
  \/ read
  \/ \E k \in Letters \cup {DEL, CR} : key(k)
  \/ \E c \in Letters \cup {LF} : write(c)

-----------------------------------------------------------------------------
Line == SubSeq(tty.buf, 1, tty.i)

\* The k-th key is kept if no later DEL takes it back: every stretch of keys behind
\* it holds at most as many DELs as letters.
Kept(keys) ==
  LET Count(a, b, S) == Cardinality({j \in a..b : keys[j] \in S})
      kept == {k \in DOMAIN keys : keys[k] \in Letters /\
                 \A b \in k..Len(keys) : Count(k + 1, b, {DEL}) <= Count(k + 1, b, Letters)}
  IN [n \in 1..Cardinality(kept) |->
        keys[CHOOSE k \in kept : Cardinality({j \in kept : j <= k}) = n]]

\* Console.cc: at every moment the buffer holds the keys that were not taken back,
\* and NULs behind them, so the shell finds the end of the line that was edited.
LineIsEdited == tty.buf = Kept(tty.typed) \o Zeros(tty.size - tty.i)

\* Console.cc, MiniUART.cc: while a line is read, the terminal shows the prompt, then
\* what is in the buffer, and nothing else: neither the prompt nor an earlier read's
\* text can be taken back.
ScreenShowsLine ==
  tty.reading =>
    /\ SubSeq(screen.text, 1, screen.col) = tty.prompt \o Line
    /\ \A k \in (screen.col + 1)..Len(screen.text) : screen.text[k] = BLANK

\* The keys that were typed, the buffer and the terminal agree at every key.
LineIsShown == LineIsEdited /\ ScreenShowsLine
=============================================================================
