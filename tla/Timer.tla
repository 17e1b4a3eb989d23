------------------------------- MODULE Timer --------------------------------
(***************************************************************************)
(* wait (pit.c): a program that looks at the tick counter until it has one *)
(* value, while the timer interrupt counts on and wraps.                   *)
(*                                                                         *)
(* The interrupt is served between any two steps of the program (module    *)
(* Interrupts).  At 1000 ticks a second the loop turns many times between  *)
(* two of them: there is at least one look at the counter.                 *)
(***************************************************************************)
EXTENDS Integers

CONSTANTS
  Wrap,     \* 2^32: the values of ticks
  Durations \* the arguments wait is called with

ASSUME WrapAssumption      == Wrap \in Nat \ {0, 1}
ASSUME DurationsAssumption == Durations \subseteq 1..Wrap - 1

Count == 0..Wrap - 1

VARIABLES
  ticks, end_ticks,
  caller,  \* "idle", or "waiting" in the loop
  looked,  \* has the program read ticks since the last tick?
  asked,   \* history: the argument of wait
  elapsed  \* history: the ticks since the call, counted up to Wrap

timer == <<ticks, end_ticks, caller, looked, asked, elapsed>>

TimerTypes ==
  /\ ticks \in Count /\ end_ticks \in Count
  /\ caller \in {"idle", "waiting"} /\ looked \in BOOLEAN
  /\ asked \in Count /\ elapsed \in 0..Wrap

\* wait may be called at any time; the counter may stand anywhere then.
TimerInit ==
  /\ ticks \in Count /\ end_ticks = 0
  /\ caller = "idle" /\ looked = FALSE
  /\ asked = 0 /\ elapsed = 0

PlusUnwrapped(a, b) == a + b \* mutant: a wider sum
Plus(a, b) == IF a + b >= Wrap THEN a + b - Wrap ELSE a + b

Wait(n) ==
  /\ caller = "idle" /\ caller' = "waiting"
  /\ end_ticks' = Plus(ticks, n)
  /\ looked' = TRUE
  /\ asked' = n /\ elapsed' = 0
  /\ UNCHANGED ticks

\* ticks++.  The first conjunct is not in the code but the assumption above: a
\* waiting program has looked at the counter since the last tick.  A tick at the
\* awaited value that is not seen would make it wait a whole turn of the counter.
PIT_irq_handler ==
  /\ caller = "waiting" => looked
  /\ ticks' = IF ticks = Wrap - 1 THEN 0 ELSE ticks + 1
  /\ looked' = FALSE
  /\ elapsed' = IF caller = "waiting" /\ elapsed < Wrap THEN elapsed + 1 ELSE elapsed
  /\ UNCHANGED <<end_ticks, caller, asked>>

ReachedOrPassed == ticks >= end_ticks \* mutant: < for !=
Reached == ticks = end_ticks
Look ==
  /\ caller = "waiting"
  /\ caller' = IF Reached THEN "idle" ELSE "waiting"
  /\ looked' = TRUE
  /\ UNCHANGED <<ticks, end_ticks, asked, elapsed>>

TimerNext == (\E n \in Durations : Wait(n)) \/ PIT_irq_handler \/ Look

TimerSpec == TimerInit /\ [][TimerNext]_timer

\* The timer pulses and is served (module Interrupts), and the program runs.
TimerFairSpec == TimerSpec /\ WF_timer(PIT_irq_handler) /\ WF_timer(Look)
-----------------------------------------------------------------------------
(***************************************************************************)
(* Properties.                                                             *)
(***************************************************************************)

\* wait returns after exactly the ticks it was asked for, wherever the counter
\* stands and whether or not it wraps meanwhile.
ExactWait == [][caller = "waiting" /\ caller' = "idle" => elapsed = asked]_timer

\* The loop never misses the one value that ends it.
NeverLate == caller = "waiting" => elapsed <= asked

\* wait returns.
WaitEnds == caller = "waiting" ~> caller = "idle"
=============================================================================
