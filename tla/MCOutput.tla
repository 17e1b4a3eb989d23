------------------------------ MODULE MCOutput ------------------------------
(***************************************************************************)
(* The two halves of text output, one at a time: the behaviours are those  *)
(* of the console with no printf going on, and those of printf over every  *)
(* format with the console at rest.  printf reads nothing back from the    *)
(* console, so what it puts out does not depend on it.                     *)
(*                                                                         *)
(* A console of two rows and three columns; bytes of four values make its  *)
(* cursor register use both halves.  Every format of up to MaxFormat       *)
(* characters over an alphabet with one character for each branch of       *)
(* printf; u, o and s take the branches of x and c.                        *)
(***************************************************************************)
EXTENDS Console, Printf

VARIABLE part \* "console" or "printf"

output == <<part, vars, printf>>

MCText == {"a"}
MCAlphabet == {"%", "h", "l", "d", "x", "c", "a"}

OutputInit ==
  \/ part = "console" /\ Init /\ PrintfInit /\ fmt = <<>>
  \/ part = "printf" /\ Init /\ crtc = [low |-> 0, high |-> 0] /\ PrintfInit

OutputNext ==
  \/ part = "console" /\ Next /\ UNCHANGED <<part, printf>>
  \/ part = "printf" /\ PrintfNext /\ UNCHANGED <<part, vars>>

OutputSpec == OutputInit /\ [][OutputNext]_output
=============================================================================
