------------------------------ MODULE Keyboard ------------------------------
(***************************************************************************)
(* The PS/2 keyboard driver (ps2.c): the bytes of the keyboard, one at a   *)
(* time in the controller's output buffer, decoded by process_scan_code in *)
(* the interrupt handler, and the single key slot that getch and kbhit     *)
(* share with it.                                                          *)
(*                                                                         *)
(* The actors are the person at the keyboard, the controller, the handler  *)
(* and a main program that polls kbhit and then calls getch.  The handler  *)
(* interrupts the main program between any two of its steps, never the     *)
(* other way round (module Interrupts).                                    *)
(***************************************************************************)
EXTENDS Integers, Sequences

CONSTANTS
  Keys,         \* the keys of the keyboard
  MaxQueue,     \* bound: no key is pressed or released with more bytes held back
  FastTransfer  \* can a byte arrive between two reads of one handler run?

\* A key sends one byte, a byte after the prefix 0xE0, or (Pause) six bytes.
KeyKinds == [kind : {"plain", "extended", "pause"}, code : 1..127]

ASSUME KeysAssumption     == Keys \subseteq KeyKinds
ASSUME MaxQueueAssumption == MaxQueue \in Nat
ASSUME FastAssumption     == FastTransfer \in BOOLEAN

VARIABLES
  held,   \* the keys that are down
  line,   \* the bytes the keyboard has not passed on yet
  obuf,   \* the byte port 0x60 returns
  obf,    \* is it unread?
  irq1,   \* is line 1 requested?
  h,      \* the handler: "idle", or "reread" before its second read
  shift_pressed, ctrl_pressed, alt_pressed,
  extended_key_sequence_1, extended_key_sequence_2,
  new_key_press, key,
  m,      \* the main program: "idle", "hit" after kbhit, "getch" inside getch
  fresh,  \* history: has the last press stored not been returned yet?
  meant   \* history: the character that press stands for

hardware  == <<held, line, obuf, obf, irq1>>
modifiers == <<shift_pressed, ctrl_pressed, alt_pressed>>
prefixes  == <<extended_key_sequence_1, extended_key_sequence_2>>
slot      == <<new_key_press, key>>
history   == <<fresh, meant>>
vars == <<hardware, h, modifiers, prefixes, slot, m, history>>
-----------------------------------------------------------------------------
(***************************************************************************)
(* The tables.  A code without a character maps to "".                     *)
(***************************************************************************)
Digits  == <<"1", "2", "3", "4", "5", "6", "7", "8", "9", "0", "-", "=">>
Top     == <<"q", "w", "e", "r", "t", "y", "u", "i", "o", "p", "[", "]">>
Home    == <<"a", "s", "d", "f", "g", "h", "j", "k", "l", ";", "quote", "backtick">>
Bottom  == <<"backslash", "z", "x", "c", "v", "b", "n", "m", ",", ".", "/">>

keymap ==
  [c \in 0..127 |->
     CASE c \in 2..13  -> Digits[c - 1]
       [] c \in 16..27 -> Top[c - 15]
       [] c \in 30..41 -> Home[c - 29]
       [] c \in 43..53 -> Bottom[c - 42]
       [] c = 1  -> "ESC"   [] c = 14 -> "BACKSPACE" [] c = 15 -> "TAB"
       [] c = 28 -> "ENTER" [] c = 55 -> "*"         [] c = 57 -> " "
       [] c = 75 -> "-"     [] c = 79 -> "+"
       [] OTHER -> ""]

\* The rows of the table in keycodes_in_uppercase; the backtick is in none of them.
Lower == Digits \o Top \o SubSeq(Home, 1, 11) \o Bottom
Upper == <<"!", "@", "#", "$", "%", "^", "&", "*", "(", ")", "_", "+",
           "Q", "W", "E", "R", "T", "Y", "U", "I", "O", "P", "{", "}",
           "A", "S", "D", "F", "G", "H", "J", "K", "L", ":", "doublequote",
           "|", "Z", "X", "C", "V", "B", "N", "M", "<", ">", "?">>

keycodes_in_uppercase(k) ==
  IF \E i \in 1..Len(Lower) : Lower[i] = k
  THEN Upper[CHOOSE i \in 1..Len(Lower) : Lower[i] = k]
  ELSE k

CharacterRaw(code, shifted) == "scan code" \* mutant: the code is stored, not looked up
Character(code, shifted) ==
  IF shifted THEN keycodes_in_uppercase(keymap[code]) ELSE keymap[code]

\* The cursor keys are stored as their code, which as a character is a letter.
Cursor ==
  [c \in {72, 75, 77, 80} |->
     CASE c = 72 -> "H" [] c = 75 -> "K" [] c = 77 -> "M" [] c = 80 -> "P"]

Characters == {keymap[c] : c \in 0..127}
              \union {Upper[i] : i \in 1..Len(Upper)}
              \union {Cursor[c] : c \in DOMAIN Cursor}
-----------------------------------------------------------------------------
(***************************************************************************)
(* Bytes.  Two fields no program can see say what a byte is: the second of *)
(* a prefixed pair, and sent while a shift key was down.                   *)
(***************************************************************************)
Byte == [code : 0..255, second : BOOLEAN, shifted : BOOLEAN]

E0 == 224
E1 == 225

Shifts == {42, 54}
Ctrl   == 29
Alt    == 56

\* Right Ctrl and right Alt send the codes of the left ones after the prefix.
\* A prefixed code of a shift key is no key but part of what others send.
RightDown(codes) ==
  \E k \in held : k.kind = "extended" /\ k.code \in codes \ Shifts

\* Is the modifier of these codes down, on either side of the keyboard?
IsDown(codes) ==
  (\E k \in held : k.kind = "plain" /\ k.code \in codes) \/ RightDown(codes)

Plain(code)  == [code |-> code, second |-> FALSE, shifted |-> IsDown(Shifts)]
Second(code) == [code |-> code, second |-> TRUE, shifted |-> IsDown(Shifts)]

MakeBytes(k) ==
  CASE k.kind = "plain"    -> <<Plain(k.code)>>
    [] k.kind = "extended" -> <<Plain(E0), Second(k.code)>>
    [] k.kind = "pause"    -> <<Plain(E1), Plain(29), Plain(69),
                                Plain(E1), Plain(157), Plain(197)>>
BreakBytes(k) ==
  CASE k.kind = "plain"    -> <<Plain(k.code + 128)>>
    [] k.kind = "extended" -> <<Plain(E0), Second(k.code + 128)>>
    [] k.kind = "pause"    -> <<>>
-----------------------------------------------------------------------------
TypeOK ==
  /\ held \subseteq Keys
  /\ line \in Seq(Byte)
  /\ obuf \in Byte
  /\ obf \in BOOLEAN
  /\ irq1 \in BOOLEAN
  /\ h \in {"idle", "reread"}
  /\ modifiers \in BOOLEAN \X BOOLEAN \X BOOLEAN
  /\ prefixes \in BOOLEAN \X BOOLEAN
  /\ new_key_press \in BOOLEAN
  /\ key \in Characters
  /\ m \in {"idle", "hit", "getch"}
  /\ fresh \in BOOLEAN
  /\ meant \in Characters

\* install_keyboard_irq has run, no key is down, and nothing has been typed
\* before (module Interrupts says what becomes of a key pressed earlier).
Init ==
  /\ held = {} /\ line = <<>>
  /\ obuf = [code |-> 0, second |-> FALSE, shifted |-> FALSE]
  /\ obf = FALSE /\ irq1 = FALSE
  /\ h = "idle"
  /\ shift_pressed = FALSE /\ ctrl_pressed = FALSE /\ alt_pressed = FALSE
  /\ extended_key_sequence_1 = FALSE /\ extended_key_sequence_2 = FALSE
  /\ new_key_press = FALSE /\ key = ""
  /\ m = "idle"
  /\ fresh = FALSE /\ meant = ""
-----------------------------------------------------------------------------
(***************************************************************************)
(* The keyboard and its controller.                                        *)
(***************************************************************************)
software == <<h, modifiers, prefixes, slot, m, history>>

Send(bytes) ==
  /\ Len(line) < MaxQueue
  /\ line' = line \o bytes
  /\ UNCHANGED <<obuf, obf, irq1, software>>

\* A key that stays down repeats its bytes.
Press(k)   == Send(MakeBytes(k)) /\ held' = held \union {k}
Release(k) == k \in held /\ Send(BreakBytes(k)) /\ held' = held \ {k}

\* The controller passes on a byte when its buffer is empty, and requests line 1.
Transfer ==
  /\ ~obf /\ line # <<>>
  /\ FastTransfer \/ h = "idle"
  /\ obuf' = Head(line) /\ line' = Tail(line)
  /\ obf' = TRUE /\ irq1' = TRUE
  /\ UNCHANGED <<held, software>>
-----------------------------------------------------------------------------
(***************************************************************************)
(* keyboard_irq_handler and process_scan_code.                             *)
(***************************************************************************)
ps2_read_data == obf' = FALSE /\ UNCHANGED <<held, line, obuf>>

\* Entering the handler takes the request; its first read takes the byte.
Enter == h = "idle" /\ irq1 /\ irq1' = FALSE /\ ps2_read_data

Scan == obuf.code
IsPrefix == Scan \in {E0, E1}

Prefix ==
  /\ Enter /\ IsPrefix
  /\ extended_key_sequence_1' = (extended_key_sequence_1 \/ Scan = E0)
  /\ extended_key_sequence_2' = (extended_key_sequence_2 \/ Scan = E1)
  /\ UNCHANGED <<h, modifiers, slot, m, history>>

\* After 0xE0: the byte has been read already, but it is read again.
Extended ==
  /\ Enter /\ ~IsPrefix /\ extended_key_sequence_1
  /\ h' = "reread"
  /\ UNCHANGED <<modifiers, prefixes, slot, m, history>>

\* The second read, which may take the byte after it.  Its request then drops
\* from the line, and the interrupt controller keeps it or not.
KeyAfterExtended(k) == IF Scan \in DOMAIN Cursor THEN Cursor[Scan] ELSE k
FlagAfterPairKept == TRUE \* mutant: the reset is missing
FlagAfterPair == FALSE
Reread ==
  /\ h = "reread" /\ ps2_read_data
  /\ irq1' = irq1 \/ (obf /\ irq1' = FALSE)
  /\ extended_key_sequence_1' = FlagAfterPair
  /\ key' = KeyAfterExtended(key)
  /\ h' = "idle"
  /\ UNCHANGED <<extended_key_sequence_2, modifiers, new_key_press, m, history>>

Code     == Scan % 128
Released == Scan >= 128

\* What a make or break code leaves in a modifier's flag.
FollowMakeOnly(flag, codes) == flag \/ Code \in codes \* mutant: no release
Follow(flag, codes) == IF Code \in codes THEN ~Released ELSE flag

Modifier ==
  /\ Enter /\ ~IsPrefix /\ ~extended_key_sequence_1
  /\ Released \/ Code \in Shifts \union {Ctrl, Alt}
  /\ shift_pressed' = Follow(shift_pressed, Shifts)
  /\ ctrl_pressed' = Follow(ctrl_pressed, {Ctrl})
  /\ alt_pressed' = Follow(alt_pressed, {Alt})
  /\ UNCHANGED <<h, prefixes, slot, m, history>>

NewKeyPressForgotten == new_key_press \* mutant: the flag is not set
NewKeyPress == TRUE
KeyPress ==
  /\ Enter /\ ~IsPrefix /\ ~extended_key_sequence_1
  /\ ~Released /\ Code \notin Shifts \union {Ctrl, Alt}
  /\ IF keymap[Code] = "" THEN UNCHANGED <<slot, history>>
     ELSE /\ key' = Character(Code, shift_pressed)
          /\ new_key_press' = NewKeyPress
          /\ meant' = Character(Code, obuf.shifted)
          /\ fresh' = TRUE
  /\ UNCHANGED <<h, modifiers, prefixes, m>>

Handler == Prefix \/ Extended \/ Reread \/ Modifier \/ KeyPress
-----------------------------------------------------------------------------
(***************************************************************************)
(* The main program: when kbhit says so, getch.                            *)
(***************************************************************************)
Main(from, to) == h = "idle" /\ m = from /\ m' = to

Kbhit ==
  /\ Main("idle", "hit")
  /\ new_key_press
  /\ UNCHANGED <<hardware, h, modifiers, prefixes, slot, history>>

\* The two statements of getch, in their order.
GetchSwapped == <<"return key", "reset flag">> \* mutant: swapped
Getch == <<"reset flag", "return key">>

Execute(statement) ==
  IF statement = "reset flag" THEN new_key_press' = FALSE /\ UNCHANGED fresh
  ELSE fresh' = FALSE /\ UNCHANGED new_key_press

GetchFirst ==
  /\ Main("hit", "getch") /\ Execute(Getch[1])
  /\ UNCHANGED <<hardware, h, modifiers, prefixes, key, meant>>

GetchSecond ==
  /\ Main("getch", "idle") /\ Execute(Getch[2])
  /\ UNCHANGED <<hardware, h, modifiers, prefixes, key, meant>>

Poll == Kbhit \/ GetchFirst \/ GetchSecond
-----------------------------------------------------------------------------
Next ==
  \/ \E k \in Keys : Press(k) \/ Release(k)
  \/ Transfer \/ Handler \/ Poll

Spec == Init /\ [][Next]_vars

\* The controller passes bytes on, a requested handler runs, and interrupts
\* leave the main program time to run now and then.
FairSpec == Spec /\ WF_vars(Transfer) /\ WF_vars(Handler) /\ SF_vars(Poll)
-----------------------------------------------------------------------------
(***************************************************************************)
(* Properties.                                                             *)
(***************************************************************************)
Drained == line = <<>> /\ ~obf /\ ~irq1 /\ h = "idle"

\* The decoder of process_scan_code is in step with the stream: it expects the
\* second byte of a pair exactly when the next byte is one.
InStep ==
  h = "idle" =>
    extended_key_sequence_1 =
      \/ obf /\ obuf.second
      \/ ~obf /\ line # <<>> /\ line[1].second

\* Once every byte is decoded, the modifier flags say which modifiers are down:
\* no press or release is lost, no prefixed or Pause byte is taken for another
\* key's.  While a right Ctrl or right Alt is down nothing is said of its flag,
\* since process_scan_code drops these keys (EveryModifierCounts).
ModifiersFollowKeys ==
  Drained => /\ shift_pressed = IsDown(Shifts)
             /\ RightDown({Ctrl}) \/ ctrl_pressed = IsDown({Ctrl})
             /\ RightDown({Alt}) \/ alt_pressed = IsDown({Alt})

\* What ps2.h and the comments of process_scan_code say: Ctrl and Alt are held
\* when the left or the right key is (RIGHT_CTRL and RIGHT_ALT are keys of the
\* header; "Ctrl" and "Alt", unlike the shift keys, name no side).  False: the
\* byte after the prefix is only looked up among the cursor keys.
EveryModifierCounts ==
  Drained => /\ ctrl_pressed = IsDown({Ctrl})
             /\ alt_pressed = IsDown({Alt})

\* As long as a press is announced, the slot holds the character it was meant
\* as: that of the driver's own table, in upper case if a shift key was down at
\* the time the key was pressed, however late the handler sees it.
SlotIsMeant == (new_key_press \/ m = "getch") => key = meant

\* A press that getch has not returned is still announced, or getch is about to
\* return it: the order of its two statements loses no press to the handler
\* running between them.
NothingForgotten == fresh => new_key_press \/ m = "getch"

\* A press that is stored is returned, or replaced by a later one that is.
PressReturned == fresh ~> ~fresh
=============================================================================
