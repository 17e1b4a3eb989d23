------------------------------- MODULE Printf -------------------------------
(***************************************************************************)
(* printf and dbg_printf (vga.c): the state machine over the characters of *)
(* the format, and the words it takes off the caller's stack.  The two     *)
(* functions differ only in where a character goes.                        *)
(*                                                                         *)
(* d stands for d and i, x for x, X and p, a for every character printf    *)
(* gives no meaning to, the digits among them.  An argument is one word of *)
(* the stack, a long long two; what is put out is a character of the       *)
(* format, or the conversion with the words it was given.  Module Numbers  *)
(* has the digits.                                                         *)
(***************************************************************************)
EXTENDS Integers, Sequences, FiniteSets

CONSTANTS
  Alphabet, \* the characters formats are made of
  MaxFormat \* bound on the length of a format

Numeric == {"d", "u", "x", "o"}
Specs   == Numeric \union {"c", "s", "%"}

ASSUME FormatAssumption ==
  /\ Alphabet \subseteq Specs \union {"h", "l", "a"}
  /\ MaxFormat \in Nat

Formats  == UNION {[1..n -> Alphabet] : n \in 0..MaxFormat}

VARIABLES
  fmt, at,                 \* the format, and the index of *fmt
  state, length,           \* PRINTF_STATE_.. and PRINTF_LENGTH_..
  radix, sign, number,
  args,                    \* words taken
  out                      \* what has been put out

printf == <<fmt, at, state, length, radix, sign, number, args, out>>

States  == {"NORMAL", "LENGTH", "LENGTH_SHORT", "LENGTH_LONG", "SPEC"}
Lengths == {"DEFAULT", "SHORT_SHORT", "SHORT", "LONG", "LONG_LONG"}

\* A conversion that took words first .. first + words - 1.
Conversion(conv, base, signed, first, words) ==
  [conv |-> conv, radix |-> base, sign |-> signed, first |-> first, words |-> words]
Literal(c) == Conversion(c, 0, FALSE, 0, 0)
Items == [conv : Specs \union {"h", "l", "a"} \union {"number"}, radix : {0, 8, 10, 16}, sign : BOOLEAN,
          first : 0..2 * MaxFormat, words : 0..2]

PrintfTypes ==
  /\ fmt \in Seq(Alphabet) /\ at \in 1..MaxFormat + 1
  /\ state \in States /\ length \in Lengths
  /\ radix \in {8, 10, 16} /\ sign \in BOOLEAN /\ number \in BOOLEAN
  /\ args \in 0..2 * MaxFormat
  /\ out \in Seq(Items)

Defaults ==
  /\ state = "NORMAL" /\ length = "DEFAULT"
  /\ radix = 10 /\ sign = FALSE /\ number = FALSE

PrintfInit ==
  /\ fmt \in Formats /\ at = 1
  /\ Defaults
  /\ args = 0 /\ out = <<>>
-----------------------------------------------------------------------------
More == at <= Len(fmt)
Char == fmt[at]
Step == More /\ at' = at + 1 /\ UNCHANGED fmt

Goto(s, len) ==
  /\ state' = s /\ length' = len
  /\ UNCHANGED <<radix, sign, number, args, out>>

Ordinary ==
  /\ Step /\ state = "NORMAL"
  /\ IF Char = "%" THEN Goto("LENGTH", length)
     ELSE /\ out' = Append(out, Literal(Char))
          /\ UNCHANGED <<state, length, radix, sign, number, args>>

Length ==
  /\ Step /\ state = "LENGTH"
  /\ \/ Char = "h" /\ Goto("LENGTH_SHORT", "SHORT")
     \/ Char = "l" /\ Goto("LENGTH_LONG", "LONG")

SecondLength ==
  /\ Step
  /\ \/ state = "LENGTH_SHORT" /\ Char = "h" /\ Goto("SPEC", "SHORT_SHORT")
     \/ state = "LENGTH_LONG" /\ Char = "l" /\ Goto("SPEC", "LONG_LONG")

\* The state in which the character is taken for a conversion, by its label too.
AtSpec ==
  \/ state = "SPEC"
  \/ state = "LENGTH" /\ Char \notin {"h", "l"}
  \/ state = "LENGTH_SHORT" /\ Char # "h"
  \/ state = "LENGTH_LONG" /\ Char # "l"

Words(len) == IF len = "LONG_LONG" THEN 2 ELSE 1

\* The switch over the conversion, then the number if it set number: here with
\* the values the switch leaves in radix, sign and number.
IsNumber == number \/ Char \in Numeric
Radix    == CASE Char \in {"d", "u"} -> 10 [] Char = "x" -> 16 [] Char = "o" -> 8
              [] OTHER -> radix
Sign     == CASE Char = "d" -> TRUE [] Char \in {"u", "x", "o"} -> FALSE [] OTHER -> sign

Taken(first) ==
  CASE Char \in {"c", "s"} -> <<Conversion(Char, 0, FALSE, first, 1)>>
    [] Char = "%" -> <<Literal("%")>>
    [] OTHER -> <<>>
Printed(first) ==
  IF IsNumber THEN <<Conversion("number", Radix, Sign, first, Words(length))>> ELSE <<>>

\* What the next conversion starts with.
ResetNotLength == \* mutant: length is not reset
  [state |-> "NORMAL", length |-> length, radix |-> 10, sign |-> FALSE, number |-> FALSE]
ResetNotNumber == \* mutant: number is not reset
  [state |-> "NORMAL", length |-> "DEFAULT", radix |-> 10, sign |-> FALSE, number |-> IsNumber]
Reset ==
  [state |-> "NORMAL", length |-> "DEFAULT", radix |-> 10, sign |-> FALSE, number |-> FALSE]

One(set)   == IF Char \in set THEN 1 ELSE 0
WordsTaken == One({"c", "s"}) + (IF IsNumber THEN Words(length) ELSE 0)

Spec_ ==
  /\ Step /\ AtSpec
  /\ out' = out \o Taken(args) \o Printed(args + One({"c", "s"}))
  /\ args' = args + WordsTaken
  /\ state' = Reset.state /\ length' = Reset.length
  /\ radix' = Reset.radix /\ sign' = Reset.sign /\ number' = Reset.number

\* dbg_printf is the same function again, over another output.
PrintfNext == Ordinary \/ Length \/ SecondLength \/ Spec_

PrintfSpec == PrintfInit /\ [][PrintfNext]_printf
-----------------------------------------------------------------------------
(***************************************************************************)
(* The reference: a format as a sequence of plain characters and           *)
(* directives, each directive a '%', up to two equal length characters and *)
(* a conversion.                                                           *)
(***************************************************************************)
Lone(f, i) == i <= Len(f) /\ f[i] \in {"h", "l"}

\* How many length characters follow the '%' at i.
Prefix(f, i) ==
  IF ~Lone(f, i + 1) THEN 0
  ELSE IF i + 2 <= Len(f) /\ f[i + 2] = f[i + 1] THEN 2 ELSE 1

\* The words the C standard gives a conversion of that many l's or h's.
StandardWords(c, long) ==
  CASE c = "%" -> 0 [] c \in {"c", "s"} -> 1 [] OTHER -> IF long THEN 2 ELSE 1

Directive(c, long, first) ==
  CASE c = "%" -> <<Literal("%")>>
    [] c \in {"c", "s"} -> <<Conversion(c, 0, FALSE, first, 1)>>
    [] c \in Numeric ->
         <<Conversion("number", CASE c = "x" -> 16 [] c = "o" -> 8 [] OTHER -> 10,
                      c = "d", first, StandardWords(c, long))>>

\* What has been read of a format: up to at, with so many words and that output;
\* ok says whether every directive was a standard one.
Read(ok, position, words, output) ==
  [ok |-> ok, at |-> position, args |-> words, out |-> output]

\* The plain character or the directive that comes next, after r.
ReadOne(f, r) ==
  IF f[r.at] # "%"
  THEN Read(TRUE, r.at + 1, r.args, Append(r.out, Literal(f[r.at])))
  ELSE LET p    == Prefix(f, r.at)
           j    == r.at + p + 1
           long == p = 2 /\ f[r.at + 1] = "l"
       IN  IF j > Len(f) \/ f[j] \notin Specs \/ (p > 0 /\ f[j] \notin Numeric)
           THEN Read(FALSE, r.at, r.args, r.out)
           ELSE Read(TRUE, j + 1, r.args + StandardWords(f[j], long),
                     r.out \o Directive(f[j], long, r.args))

ReadNext(f, r) == IF r.ok /\ r.at <= Len(f) THEN ReadOne(f, r) ELSE r

\* A format has no more characters and directives than characters.
Reference(f) ==
  LET read[n \in 0..Len(f)] ==
        IF n = 0 THEN Read(TRUE, 1, 0, <<>>) ELSE ReadNext(f, read[n - 1])
  IN  read[Len(f)]

(***************************************************************************)
(* Properties.                                                             *)
(***************************************************************************)

\* A format of standard directives (no flags, width or precision) prints what it
\* says, each number with its radix, sign and words, and takes exactly the words
\* the caller has passed: nothing a directive sets is left over for the next.
PrintsTheFormat ==
  ~More => LET r == Reference(fmt) IN r.ok => out = r.out /\ args = r.args

\* The '%'s and the pairs of l's among the first n characters.
Percents(f, n) == {i \in 1..n : f[i] = "%"}
Longs(f, n)    == {i \in 1..n - 1 : f[i] = "l" /\ f[i + 1] = "l"}

\* Whatever the format, printf takes no word for a character outside a directive,
\* one at most for each '%', and a second only for a pair of l's: a wrong format
\* reads no further into the stack than that.
NoStrayWords ==
  args <= Cardinality(Percents(fmt, at - 1)) + Cardinality(Longs(fmt, at - 1))
=============================================================================
