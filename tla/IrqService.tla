----------------------------- MODULE IrqService -----------------------------
(***************************************************************************)
(* What the interrupt subsystem promises to the rest of the kernel, with   *)
(* no mention of flags, gates, frames or in-service bits:                  *)
(*   - handlers run one at a time and to completion;                       *)
(*   - the handler that runs next is the one of the pending request with   *)
(*     the highest priority;                                               *)
(*   - a request is consumed by the handler run it starts, or by an earlier *)
(*     run of the same line's handler that already did its work;           *)
(*   - nothing runs before the kernel opens for interrupts, nor after it   *)
(*     has stopped.                                                        *)
(***************************************************************************)
EXTENDS Integers

CONSTANTS
  Lines,         \* the interrupt lines
  SpuriousLines, \* the lines on which a request may turn out to be no request
  Outranks(_, _),
  None           \* no handler is running

VARIABLES
  phase,   \* "boot", "open" or "stopped"
  pending, \* the requests not yet taken
  serving  \* the line whose handler is running, or None

Init ==
  /\ phase = "boot"
  /\ pending \in SUBSET Lines
  /\ serving = None

Request(n) ==
  /\ pending' = pending \union {n}
  /\ UNCHANGED <<phase, serving>>

\* Programming the controller forgets the requests made so far.
Forget ==
  /\ phase = "boot"
  /\ pending' = {}
  /\ UNCHANGED <<phase, serving>>

Open ==
  /\ phase = "boot"
  /\ phase' = "open"
  /\ UNCHANGED <<pending, serving>>

Start(n) ==
  /\ phase = "open"
  /\ serving = None
  /\ n \in pending
  /\ \A m \in pending : ~Outranks(m, n)
  /\ serving' = n
  /\ pending' = pending \ {n}
  /\ UNCHANGED phase

StartSpurious(n) ==
  /\ phase = "open"
  /\ serving = None
  /\ serving' = n
  /\ UNCHANGED <<phase, pending>>

\* A running handler may deal with a further request of its own line.
Absorb ==
  /\ serving # None
  /\ pending' = pending \ {serving}
  /\ UNCHANGED <<phase, serving>>

Finish ==
  /\ serving # None
  /\ serving' = None
  /\ UNCHANGED <<phase, pending>>

\* Only the main program stops the kernel, so no handler is cut short.
Stop ==
  /\ phase = "open"
  /\ serving = None
  /\ phase' = "stopped"
  /\ UNCHANGED <<pending, serving>>

Next ==
  \/ \E n \in Lines : Request(n) \/ Start(n)
  \/ \E n \in SpuriousLines : StartSpurious(n)
  \/ Forget \/ Open \/ Absorb \/ Finish \/ Stop

Spec == Init /\ [][Next]_<<phase, pending, serving>>
=============================================================================
