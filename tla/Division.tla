------------------------------ MODULE Division ------------------------------
(***************************************************************************)
(* __udivdi3 and __umoddi3 (util.c): the 64-bit division the compiler      *)
(* calls for, by repeated subtraction.  Both run the same loop; one        *)
(* returns the number of subtractions and one what is left.                *)
(***************************************************************************)
EXTENDS Integers

CONSTANT MaxWord \* 2^64 - 1

ASSUME MaxWordAssumption == MaxWord \in Nat \ {0}

Word == 0..MaxWord

VARIABLES
  dividend, \* history: a as it was passed
  a, b,
  quotient,
  pc        \* "loop", or "return" between two calls

division == <<dividend, a, b, quotient, pc>>

DivisionTypes ==
  /\ dividend \in Word /\ a \in Word /\ b \in Word
  /\ quotient \in Word
  /\ pc \in {"loop", "return"}

\* Before the first call, as after one of 0 by 1.
DivisionInit ==
  /\ dividend = 0 /\ a = 0 /\ b = 1
  /\ quotient = 0
  /\ pc = "return"

Call(x, y) ==
  /\ pc = "return" /\ pc' = "loop"
  /\ dividend' = x /\ a' = x /\ b' = y
  /\ quotient' = 0

GoesOnLate == a > b \* mutant: > for >=
GoesOn == a >= b

\* With b = 0 the loop goes on for ever, and quotient wraps.
Subtract ==
  /\ pc = "loop" /\ GoesOn
  /\ a' = a - b
  /\ quotient' = (quotient + 1) % (MaxWord + 1)
  /\ UNCHANGED <<dividend, b, pc>>

Return ==
  /\ pc = "loop" /\ ~GoesOn
  /\ pc' = "return"
  /\ UNCHANGED <<dividend, a, b, quotient>>

Loop == Subtract \/ Return

DivisionSpec ==
  DivisionInit /\ [][Loop \/ \E x, y \in Word : Call(x, y)]_division
-----------------------------------------------------------------------------
\* What a call returns is the quotient and the remainder of what it was passed;
\* nothing has wrapped on the way.
Divides == pc = "return" => quotient * b + a = dividend /\ a < b
=============================================================================
