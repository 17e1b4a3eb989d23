------------------------------ MODULE MCClocks ------------------------------
(***************************************************************************)
(* The two clocks of the kernel, one call at a time: the behaviours are    *)
(* those of wait with the real-time clock at rest, and those of read_rtc   *)
(* and update_cmos with the counter at rest.  The calls share no state.    *)
(*                                                                         *)
(* A counter of eight values, and every wait but wait(0): with zero, a     *)
(* tick before the first look costs a whole turn of the counter.  A clock  *)
(* with digits of base 2, two hours in a half day and two years in a       *)
(* century: each kind of carry and of register format occurs.              *)
(***************************************************************************)
EXTENDS Timer, Rtc

VARIABLE call \* "wait" or "read_rtc"

clocks == <<call, timer, vars>>

MCDurations == 1..Wrap - 1

\* A byte of some formats, and one of none.
MCGarbage == {5, 15}

\* What an earlier read_rtc has left, of midnight in a year that ends in 0.
RtcAtRest ==
  /\ format = [binary |-> TRUE, h24 |-> TRUE]
  /\ regs = Registers(format, Unset)
  /\ phase = "idle" /\ since = 3
  /\ pc = "done" /\ n = 4 /\ first = FALSE
  /\ now = regs /\ last = regs
  /\ result = [Unset EXCEPT !.year = Year(0)]
  /\ shown = {regs}

ClocksInit ==
  \/ call = "wait" /\ TimerInit /\ RtcAtRest
  \/ call = "read_rtc" /\ TimerInit /\ ticks = 0 /\ Init

DuringWait(A) == call = "wait" /\ A /\ UNCHANGED <<call, vars>>
DuringRead(A) == call = "read_rtc" /\ A /\ UNCHANGED <<call, timer>>

ClocksNext == DuringWait(TimerNext) \/ DuringRead(Next)

\* The fairness of TimerFairSpec and of FairSpec.
ClocksSpec ==
  /\ ClocksInit /\ [][ClocksNext]_clocks
  /\ WF_clocks(DuringWait(PIT_irq_handler)) /\ WF_clocks(DuringWait(Look))
  /\ WF_clocks(DuringRead(StartUpdate \/ EndUpdate)) /\ WF_clocks(DuringRead(Program))
=============================================================================
