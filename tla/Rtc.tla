-------------------------------- MODULE Rtc ---------------------------------
(***************************************************************************)
(* The real-time clock (cmos.c): a chip that counts on while read_rtc      *)
(* reads its registers one at a time, whose registers mean nothing while   *)
(* it updates them; then the conversion to binary, and update_cmos.        *)
(*                                                                         *)
(* Minute, day and month are read and converted the way the second is: one *)
(* field stands for the four.  The sizes of a digit, a half day and a      *)
(* century are constants, so that small ones meet every case.              *)
(***************************************************************************)
EXTENDS Integers

CONSTANTS
  Seconds, Half, Century, \* 60, 12 and 100: the values a field runs through
  Ten, Nibble, PmBit,     \* 10, 16 and 0x80: how a register holds them
  current_year,           \* the year of the build, as read_rtc knows it
  Garbage                 \* what a read during an update may return

Byte == 0..2 * PmBit - 1

ASSUME RtcAssumption ==
  /\ {Seconds, Half, Century, Ten, Nibble, PmBit} \subseteq Nat \ {0}
  /\ current_year \in Nat
  /\ Garbage \subseteq Byte

\* Binary-coded decimal.
InDigits(v) == (v \div Ten) * Nibble + (v % Ten)

\* A digit fits its half of a byte, a field its byte, and an hour the bits below
\* the one for the afternoon.
ASSUME FieldsAssumption ==
  /\ Ten <= Nibble /\ PmBit % Nibble = 0
  /\ \A v \in (0..Seconds - 1) \union (0..Century - 1) : InDigits(v) \in Byte
  /\ \A h \in 0..2 * Half - 1 : InDigits(h) < PmBit

VARIABLES
  regs, format,  \* the chip's registers, and its register B
  phase,         \* "idle", "soon" and "updating": in the last two UIP is set
  since,         \* rounds begun since its last update, up to 3
  pc, n,         \* the program, and the register it reads or writes next
  first,         \* is it the round before the do loop?
  now,           \* second, hour, year as they are read
  last,          \* last_second, last_hour, last_year
  result,        \* second, hour, year after the conversion
  shown          \* history: the contents the registers have had since the call

chip    == <<regs, format, phase, since>>
program == <<pc, n, first, now, last, result>>
vars    == <<chip, program, shown>>

Times   == [second : 0..Seconds - 1, hour : 0..2 * Half - 1, year : 0..Century - 1]
Raw     == [1..3 -> Byte]
Formats == [binary : BOOLEAN, h24 : BOOLEAN]
Unset   == [second |-> 0, hour |-> 0, year |-> 0]
-----------------------------------------------------------------------------
(***************************************************************************)
(* The chip.                                                               *)
(***************************************************************************)
Digits(f, v) == IF f.binary THEN v ELSE InDigits(v)

\* In 12-hour mode the hours run 12, 1, .., 11, with a bit for the afternoon.
HourByte(f, h) ==
  IF f.h24 THEN Digits(f, h)
  ELSE (IF h >= Half THEN PmBit ELSE 0) + Digits(f, IF h % Half = 0 THEN Half ELSE h % Half)

Registers(f, t) == <<Digits(f, t.second), HourByte(f, t.hour), Digits(f, t.year)>>

Later(t) ==
  LET hour == t.second = Seconds - 1
      year == hour /\ t.hour = 2 * Half - 1
  IN  [second |-> (t.second + 1) % Seconds,
       hour   |-> IF hour THEN (t.hour + 1) % (2 * Half) ELSE t.hour,
       year   |-> IF year THEN (t.year + 1) % Century ELSE t.year]

\* The contents that follow each contents, in each format.
Followings ==
  [f \in Formats |-> [r \in {Registers(f, t) : t \in Times} |->
     Registers(f, Later(CHOOSE t \in Times : Registers(f, t) = r))]]
Following(r) == Followings[format][r]

\* UIP is set some time ahead of an update.  The chip updates once a second and a
\* round takes microseconds: there are at least three rounds between two updates.
Announce ==
  /\ phase = "idle" /\ since = 3
  /\ pc \notin {"write", "written"} \* updates that meet update_cmos are left out
  /\ phase' = "soon"
  /\ UNCHANGED <<regs, format, since, program, shown>>

StartUpdate ==
  /\ phase = "soon" /\ phase' = "updating"
  /\ since' = 0
  /\ UNCHANGED <<regs, format, program, shown>>

EndUpdate ==
  /\ phase = "updating" /\ phase' = "idle"
  /\ regs' = Following(regs)
  /\ shown' = shown \union {Following(regs)}
  /\ UNCHANGED <<format, since, program>>

Chip == Announce \/ StartUpdate \/ EndUpdate

\* What get_RTC_register may return.
Seen(i) ==
  IF phase # "updating" THEN {regs[i]}
  ELSE Garbage \union {regs[i], Following(regs)[i]}
-----------------------------------------------------------------------------
(***************************************************************************)
(* read_rtc.                                                               *)
(***************************************************************************)
\* while (get_update_in_progress_flag());
WaitReady ==
  /\ pc = "wait" /\ phase = "idle"
  /\ pc' = "read" /\ n' = 1
  /\ since' = IF since < 3 THEN since + 1 ELSE since
  /\ UNCHANGED <<regs, format, phase, first, now, last, result, shown>>

get_RTC_register ==
  /\ pc = "read"
  /\ \E b \in Seen(n) : now' = [now EXCEPT ![n] = b]
  /\ n' = n + 1
  /\ pc' = IF n = 3 THEN "check" ELSE "read"
  /\ UNCHANGED <<chip, first, last, result, shown>>

\* The condition of the do loop.  century, never assigned since century_register
\* is 0, is compared with its own copy: equal, as the build keeps it in memory.
DifferSecondOnly == last[1] # now[1] \* mutant: the other fields are not compared
Differ == last # now
RememberedNothing == last \* mutant: last_second and so on are set once
Remembered == now
CheckRound ==
  /\ pc = "check"
  /\ IF first \/ Differ
     THEN last' = Remembered /\ first' = FALSE /\ pc' = "wait"
     ELSE pc' = "convert" /\ UNCHANGED <<last, first>>
  /\ UNCHANGED <<chip, n, now, result, shown>>

Pm(b) == b >= PmBit

FromDigits(b) == IF format.binary THEN b ELSE (b % Nibble) + (b \div Nibble) * Ten

\* The bit for the afternoon is taken out before the conversion, and put back.
HourFromDigitsKept(b) == FromDigits(b) \* mutant: it is not taken out
HourFromDigits(b) ==
  IF format.binary THEN b
  ELSE (b % Nibble) + ((b % PmBit) \div Nibble) * Ten + (IF Pm(b) THEN PmBit ELSE 0)

Hour(b) ==
  LET h == HourFromDigits(b)
  IN  IF ~format.h24 /\ Pm(h) THEN ((h % PmBit) + Half) % (2 * Half) ELSE h

Year(y) ==
  LET full == (current_year \div Century) * Century + y
  IN  IF full < current_year THEN full + Century ELSE full

Convert ==
  /\ pc = "convert" /\ pc' = "done"
  /\ result' = [second |-> FromDigits(now[1]), hour |-> Hour(now[2]),
                year |-> Year(FromDigits(now[3]))]
  /\ UNCHANGED <<chip, n, first, now, last, shown>>
-----------------------------------------------------------------------------
(***************************************************************************)
(* update_cmos, called with what read_rtc has left.                        *)
(***************************************************************************)
WaitToWrite ==
  /\ pc = "done" /\ phase = "idle"
  /\ pc' = "write" /\ n' = 1
  /\ UNCHANGED <<chip, first, now, last, result, shown>>

Written == <<result.second, result.hour, result.year % (2 * PmBit)>>

WriteRegister ==
  /\ pc = "write"
  /\ regs' = [regs EXCEPT ![n] = Written[n]]
  /\ n' = n + 1
  /\ pc' = IF n = 3 THEN "written" ELSE "write"
  /\ UNCHANGED <<format, phase, since, first, now, last, result, shown>>

Program ==
  \/ WaitReady \/ get_RTC_register \/ CheckRound \/ Convert
  \/ WaitToWrite \/ WriteRegister
-----------------------------------------------------------------------------
TypeOK ==
  /\ regs \in Raw /\ format \in Formats
  /\ phase \in {"idle", "soon", "updating"}
  /\ since \in 0..3
  /\ pc \in {"wait", "read", "check", "convert", "done", "write", "written"}
  /\ n \in 1..4 /\ first \in BOOLEAN
  /\ now \in Raw /\ last \in Raw
  /\ result \in [second : Byte, hour : 0..2 * Half - 1, year : Nat]
  /\ shown \subseteq Raw

Init ==
  /\ format \in Formats
  /\ \E t \in Times : regs = Registers(format, t)
  /\ phase = "idle" /\ since = 3
  /\ pc = "wait" /\ n = 1 /\ first = TRUE
  /\ now = <<0, 0, 0>> /\ last = <<0, 0, 0>> /\ result = Unset
  /\ shown = {regs}

Next == Chip \/ Program

Spec == Init /\ [][Next]_vars

\* An announced update takes place and ends; the program keeps running.
FairSpec == Spec /\ WF_vars(StartUpdate \/ EndUpdate) /\ WF_vars(Program)
-----------------------------------------------------------------------------
(***************************************************************************)
(* Properties.                                                             *)
(***************************************************************************)

\* The fields read_rtc ends with were in the registers together, at one moment
\* since it was called: no update, and no garbage read during one, tears them.
Untorn == pc \in {"convert", "done"} => now \in shown

\* The conversion gives back the time the registers stood for, in each of their
\* four formats, with the first year from current_year on that has its digits.
\* The exception: twelve o'clock in the 12-hour formats.
Converted ==
  pc = "done" =>
    \A t \in Times : now = Registers(format, t) =>
      /\ result.second = t.second
      /\ format.h24 \/ t.hour % Half # 0 => result.hour = t.hour
      /\ result.year \in current_year..current_year + Century - 1
      /\ result.year % Century = t.year

\* read_rtc returns.
ReadEnds == <>(pc = "done")
=============================================================================
