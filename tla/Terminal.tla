------------------------------ MODULE Terminal ------------------------------
(***************************************************************************)
(* What the text console promises: a teletype.  Everything printed goes on *)
(* a roll of paper that only grows; the last Height rows of it are what    *)
(* the reader sees, and the carriage stays among them.  A tab over the end *)
(* of the last row is not for this teletype: it is off, and may do         *)
(* anything.                                                               *)
(***************************************************************************)
EXTENDS Integers, Sequences

CONSTANTS
  Width, Height, \* not 0
  TabLength,     \* columns a tab advances by, at most Width
  Text,          \* the characters that leave a mark
  Blank, Junk    \* an empty cell, and one nobody has written yet

VARIABLES paper, row, col, off

Row      == [0..Width - 1 -> Text \union {Blank, Junk}]
BlankRow == [c \in 0..Width - 1 |-> Blank]

Init == paper \in [1..Height -> Row] /\ row = 1 /\ col = 0 /\ off = FALSE

\* Sheets are added when the carriage gets below the last row.
Carriage(p, r, c) ==
  /\ UNCHANGED off
  /\ row' = r /\ col' = c
  /\ paper' = IF r > Len(p) THEN Append(p, BlankRow) ELSE p

Forward(p, n) ==
  IF col + n < Width THEN Carriage(p, row, col + n)
  ELSE Carriage(p, row + 1, col + n - Width)

Mark(c) == Forward([paper EXCEPT ![row][col] = c], 1)
Tab     == IF row = Len(paper) /\ col + TabLength >= Width THEN off'
           ELSE Forward(paper, TabLength)
NewLine == Carriage(paper, row + 1, 0)
Return  == Carriage(paper, row, 0)

\* Backwards, but never out of the reader's sight.
Back ==
  \/ col > 0 /\ Carriage(paper, row, col - 1)
  \/ col = 0 /\ row > Len(paper) - Height + 1 /\ Carriage(paper, row - 1, Width - 1)

Reset ==
  /\ paper' = [r \in 1..Height |-> BlankRow]
  /\ row' = 1 /\ col' = 0
  /\ UNCHANGED off

Next ==
  \/ ~off /\ (\/ \E c \in Text : Mark(c)
             \/ Tab \/ NewLine \/ Return \/ Back \/ Reset)
  \/ off /\ off'

Spec == Init /\ [][Next]_<<paper, row, col, off>>
=============================================================================
