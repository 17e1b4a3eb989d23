----------------------------- MODULE MCKeyboard -----------------------------
(***************************************************************************)
(* A keyboard for TLC: one key of each kind the decoder tells apart.       *)
(***************************************************************************)
EXTENDS Keyboard

Key(kind, code) == [kind |-> kind, code |-> code]

LeftShift  == Key("plain", 42)
KeyA       == Key("plain", 30)
RightCtrl  == Key("extended", 29)
Pause      == Key("pause", 69)

\* A modifier, a letter, a prefixed key with the code of a modifier, Pause.
AllKinds == {LeftShift, KeyA, RightCtrl, Pause}
=============================================================================
