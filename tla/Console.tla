------------------------------ MODULE Console -------------------------------
(***************************************************************************)
(* The text console (vga.c): the cells of the video memory, the cursor the *)
(* program keeps and the cursor the CRT controller shows.  All output runs *)
(* through putc: printf, puts and the system calls of int 0x80.            *)
(*                                                                         *)
(* Video memory is taken by rows.  More of them exist than are shown; the  *)
(* colour, which nobody changes, is left out.                              *)
(***************************************************************************)
EXTENDS Integers, Sequences

CONSTANTS
  width, height, tap_len, \* 80, 25, 4
  MemoryRows,             \* the rows that fit the video memory
  Text,                   \* the characters putc does not treat specially
  ByteSize,               \* 256
  MaxScrolls              \* bound on the rows that scroll away

Blank == "blank"
Junk  == "junk"

ASSUME ConsoleAssumption ==
  /\ width \in Nat \ {0} /\ height \in Nat \ {0} /\ tap_len \in 1..width
  /\ MemoryRows \in Nat /\ MemoryRows >= height
  /\ ByteSize \in Nat \ {0} /\ width * height <= ByteSize * ByteSize
  /\ MaxScrolls \in Nat
  /\ Text \intersect {Blank, Junk} = {}

VARIABLES
  cleared,            \* has main called clear_screen?
  text_memory,        \* rows of cells
  cursor_x, cursor_y,
  crtc,               \* the low and the high byte of the cursor register
  past,               \* history: the rows scrolled away
  astray              \* history: has a tab taken the cursor below the screen?

vars == <<cleared, text_memory, cursor_x, cursor_y, crtc, past, astray>>

Cols    == 0..width - 1
MemRows == 0..MemoryRows - 1
Cell    == Text \union {Blank, Junk}
Byte    == 0..ByteSize - 1
Row(c)  == [x \in Cols |-> c]

TypeOK ==
  /\ cleared \in BOOLEAN
  /\ text_memory \in [MemRows -> [Cols -> Cell]]
  /\ cursor_x \in Cols
  /\ cursor_y \in MemRows
  /\ crtc \in [low : Byte, high : Byte]
  /\ past \in Seq([Cols -> Cell])
  /\ astray \in BOOLEAN

\* The boot loader's text is still there.
Init ==
  /\ cleared = FALSE
  /\ text_memory = [y \in MemRows |-> Row(Junk)]
  /\ cursor_x = 0 /\ cursor_y = 0
  /\ crtc \in [low : Byte, high : Byte]
  /\ past = <<>> /\ astray = FALSE
-----------------------------------------------------------------------------
High(pos) == (pos \div ByteSize) % ByteSize
update_cursor(x, y) ==
  LET pos == y * width + x
  IN  crtc' = [low |-> pos % ByteSize, high |-> High(pos)]

ClearedRows == 0..height - 1
ClearScreen ==
  /\ ~cleared /\ cleared' = TRUE
  /\ text_memory' = [y \in MemRows |-> IF y \in ClearedRows THEN Row(Blank)
                                       ELSE text_memory[y]]
  /\ cursor_x' = 0 /\ cursor_y' = 0
  /\ update_cursor(0, 0)
  /\ past' = <<>>
  /\ UNCHANGED astray

\* The rows move up in ascending order, so each is read before it is written.
ScrolledKeepingLast(m) == \* mutant: the last row is not blanked
  [y \in MemRows |-> IF y < height - 1 THEN m[y + 1] ELSE m[y]]
Scrolled(m) ==
  [y \in MemRows |-> IF y < height - 1 THEN m[y + 1]
                     ELSE IF y = height - 1 THEN Row(Blank) ELSE m[y]]

\* What putc leaves: the cells m, scrolled up or not, and the cursor.  Where the
\* video memory ends, so does the model.
Finish(m, scroll, x, y) ==
  /\ cleared /\ y \in MemRows
  /\ IF scroll
     THEN /\ Len(past) < MaxScrolls
          /\ text_memory' = Scrolled(m) /\ past' = Append(past, m[0])
     ELSE text_memory' = m /\ past' = past
  /\ cursor_x' = x /\ cursor_y' = y
  /\ update_cursor(x, y)
  /\ UNCHANGED cleared

PutReturn == Finish(text_memory, FALSE, 0, cursor_y)

PutNewLine ==
  LET last == cursor_y = height - 1
  IN  Finish(text_memory, last, 0, IF last THEN cursor_y ELSE cursor_y + 1)

\* One column further tap_len times; the row is not compared with height.
AdvanceLate(x, y) == IF x + 1 > width THEN <<0, y + 1>> ELSE <<x + 1, y>> \* mutant
Advance(x, y) == IF x + 1 >= width THEN <<0, y + 1>> ELSE <<x + 1, y>>
TabStop == LET after[n \in 0..tap_len] ==
                 IF n = 0 THEN <<cursor_x, cursor_y>>
                 ELSE Advance(after[n - 1][1], after[n - 1][2])
           IN  after[tap_len]
PutTab ==
  /\ Finish(text_memory, FALSE, TabStop[1], TabStop[2])
  /\ astray' = (astray \/ TabStop[2] >= height)

PutBackspace ==
  IF cursor_x > 0 THEN Finish(text_memory, FALSE, cursor_x - 1, cursor_y)
  ELSE IF cursor_y > 0 THEN Finish(text_memory, FALSE, width - 1, cursor_y - 1)
  ELSE Finish(text_memory, FALSE, cursor_x, cursor_y)

BelowScreenLate(y) == y > height \* mutant: > for >=
BelowScreen(y) == y >= height
PutText(c) ==
  LET m    == [text_memory EXCEPT ![cursor_y][cursor_x] = c]
      next == Advance(cursor_x, cursor_y)
  IN  IF next[1] = 0 /\ BelowScreen(next[2])
      THEN Finish(m, TRUE, 0, height - 1)
      ELSE Finish(m, FALSE, next[1], next[2])

Putc ==
  \/ PutTab
  \/ /\ PutReturn \/ PutNewLine \/ PutBackspace \/ \E c \in Text : PutText(c)
     /\ UNCHANGED astray

Next == ClearScreen \/ Putc

Spec == Init /\ [][Next]_vars
-----------------------------------------------------------------------------
(***************************************************************************)
(* Properties.                                                             *)
(***************************************************************************)

\* Once main has cleared it, the console is a teletype whose last rows are the
\* screen: scrolling loses, doubles and overwrites nothing, and a full line and a
\* newline leave the cursor on the screen.  The teletype stops promising anything
\* once a tab has run over the end of its last row, and only then: no other
\* character gets the cursor below the screen.  The carriage is where the CRT
\* controller shows the cursor, which is written in two halves.
Shown == IF cleared THEN crtc.high * ByteSize + crtc.low ELSE 0
Paper == INSTANCE Terminal WITH
           Width <- width, Height <- height, TabLength <- tap_len,
           paper <- past \o [r \in 1..height |-> text_memory[r - 1]],
           row <- Len(past) + (Shown \div width) + 1, col <- Shown % width, off <- astray
ImplementsTerminal == Paper!Spec

\* The rows of video memory below the screen are not written, unless a tab has
\* taken the cursor there before: text, newlines and backspaces never do.
BelowUntouched ==
  ~astray => \A y \in MemRows : y >= height => text_memory[y] = Row(Junk)
=============================================================================
