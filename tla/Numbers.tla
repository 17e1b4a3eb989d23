------------------------------ MODULE Numbers -------------------------------
(***************************************************************************)
(* printf_signed, printf_unsigned and their dbg_ doubles (vga.c): the      *)
(* digits of a number, collected from the last to the first in a buffer of *)
(* fixed size and put out the other way round.  Each digit takes a call of *)
(* __umoddi3 and one of __udivdi3.                                         *)
(***************************************************************************)
EXTENDS Division, Sequences

CONSTANTS
  Radices,    \* 8, 10, 16
  BufferSize  \* 32

HalfRange == (MaxWord + 1) \div 2

ASSUME NumbersAssumption ==
  /\ MaxWord = 2 * HalfRange - 1
  /\ Radices \subseteq Word \ {0, 1}
  /\ BufferSize \in Nat

Signed   == -HalfRange..HalfRange - 1
Unsigned == Word

VARIABLES
  value,          \* history: the argument, and how it was passed
  number, radix,
  buffer, pos,    \* digits, as numbers
  minus, out,     \* has a sign been put out, and the digits after it
  step            \* "mod", "rem", "div", "print", then "done"

conversion == <<value, number, radix, buffer, pos, minus, out, step>>
vars       == <<division, conversion>>

Digits == UNION {0..r - 1 : r \in Radices}

TypeOK ==
  /\ DivisionTypes
  /\ value \in Signed \union Unsigned
  /\ number \in Unsigned /\ radix \in Radices
  /\ buffer \in [0..BufferSize - 1 -> Digits]
  /\ pos \in 0..BufferSize
  /\ minus \in BOOLEAN /\ out \in Seq(Digits)
  /\ step \in {"mod", "rem", "div", "print", "done"}

\* Negation wraps at -HalfRange, and the cast keeps the bits.
MagnitudeClipped(v) == IF v = -HalfRange THEN HalfRange - 1 ELSE -v \* mutant
Magnitude(v) == (-v) % (2 * HalfRange)

printf_signed ==
  \E v \in Signed :
    /\ value = v
    /\ number = IF v < 0 THEN Magnitude(v) ELSE v
    /\ minus = (v < 0)

printf_unsigned ==
  \E v \in Unsigned : value = v /\ number = v /\ minus = FALSE

Init ==
  /\ DivisionInit
  /\ printf_signed \/ printf_unsigned
  /\ radix \in Radices
  /\ buffer = [i \in 0..BufferSize - 1 |-> 0] \* not initialised, never read
  /\ pos = 0 /\ out = <<>>
  /\ step = "mod"

\* One turn of the do loop: the call of __umoddi3, its return, the call of
\* __udivdi3, its return.
CallMod ==
  /\ step = "mod" /\ step' = "rem"
  /\ Call(number, radix)
  /\ UNCHANGED <<value, number, radix, buffer, pos, minus, out>>

LastDigit == a
\* pos < BufferSize is not in the code: past the end it would overwrite its own
\* stack, of which nothing can be said.  The model stops there instead, and
\* Finishes and BufferHasRoom show that it never does.
StoreDigit ==
  /\ step = "rem" /\ step' = "div"
  /\ pos < BufferSize
  /\ buffer' = [buffer EXCEPT ![pos] = LastDigit]
  /\ pos' = pos + 1
  /\ Call(number, radix)
  /\ UNCHANGED <<value, number, radix, minus, out>>

\* The test comes after the digit.
Stops(n) == n = 0
QuotientKept == number \* mutant: the result is not assigned
Quotient == quotient
NextDigit ==
  /\ step = "div" /\ pc = "return"
  /\ number' = Quotient
  /\ step' = IF Stops(Quotient) THEN "print" ELSE "mod"
  /\ UNCHANGED <<division, value, radix, buffer, pos, minus, out>>

\* while (--pos >= 0)
PutDigit ==
  /\ step = "print"
  /\ IF pos > 0
     THEN out' = Append(out, buffer[pos - 1]) /\ pos' = pos - 1 /\ step' = step
     ELSE step' = "done" /\ UNCHANGED <<out, pos>>
  /\ UNCHANGED <<division, value, number, radix, buffer, minus>>

Next ==
  \/ CallMod \/ StoreDigit \/ NextDigit \/ PutDigit
  \/ Loop /\ UNCHANGED conversion

Spec     == Init /\ [][Next]_vars
FairSpec == Spec /\ WF_vars(Next)
-----------------------------------------------------------------------------
(***************************************************************************)
(* Properties.                                                             *)
(***************************************************************************)

\* The number a sequence of digits denotes, the first the most significant.
Denotes(ds) ==
  LET prefix[i \in 0..Len(ds)] == IF i = 0 THEN 0 ELSE prefix[i - 1] * radix + ds[i]
  IN  prefix[Len(ds)]

\* What has been put out denotes the argument, in the shortest way: a sign only
\* for a negative number, no leading zero, and a digit for zero too.
PrintsTheNumber ==
  step = "done" =>
    /\ value = IF minus THEN -Denotes(out) ELSE Denotes(out)
    /\ out # <<>>
    /\ out[1] = 0 => out = <<0>> /\ ~minus

\* The buffer has room for every digit of every number, and the loops end.
Finishes == <>(step = "done")
=============================================================================
