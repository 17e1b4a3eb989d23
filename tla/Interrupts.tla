----------------------------- MODULE Interrupts -----------------------------
(***************************************************************************)
(* Interrupt dispatch and the boot sequence that opens it.                 *)
(*                                                                         *)
(* The actors are the main program (kernel.c main and what it calls to set *)
(* interrupts up), the CPU that enters and leaves the stubs of idt.asm,    *)
(* and the devices: the timer on line 0, the keyboard on line 1 and any    *)
(* others.  A device acts at any time; the main program only runs when no  *)
(* stub is active, because there is one CPU.                               *)
(***************************************************************************)
EXTENDS Pic8259, Sequences

CONSTANTS
  Devices,     \* the lines with a device other than the timer and the keyboard
  DriverLines, \* the lines later kernel code installs a handler on
  SoftVectors, \* the vectors the main program raises: exceptions, system calls
  TickMod,     \* 2^32: ticks is a uint32_t
  MaxFrames,   \* bound on nested stub activations (the code never nests)
  EarlyKeys    \* may a key be pressed before install_keyboard_irq?

ASSUME DevicesAssumption     == Devices \subseteq DeviceLines \ {0, 1}
ASSUME DriverLinesAssumption == DriverLines \subseteq 0..15 \ {0, 1}
ASSUME SoftAssumption        == SoftVectors \subseteq (0..31) \union {128, 177}
ASSUME TickModAssumption     == TickMod \in Nat \ {0}
ASSUME MaxFramesAssumption   == MaxFrames \in Nat \ {0}
ASSUME EarlyKeysAssumption   == EarlyKeys \in BOOLEAN

VARIABLES
  pc,       \* what the main program does next
  IFlag,    \* the interrupt flag of the CPU
  idtr,     \* has LIDT loaded IDT_ptr?
  gates,    \* the vectors with an entry in IDT_entries
  base,     \* the vector of line 0 of each controller
  irr,      \* lines with a latched request
  isr,      \* lines in service, as the controllers see it
  frames,   \* the active stubs, the innermost last
  routines, \* irq_routines
  ticks,    \* the tick counter of pit.c
  obf       \* output buffer full: port 0x60 holds a byte nobody has read

control    == <<pc, IFlag, idtr, gates, base>>
controller == <<irr, isr>>
kernel     == <<routines, ticks>>
vars       == <<control, controller, frames, kernel, obf>>

Stages == {"remap", "gates", "flush", "init_PIT", "install_PIT_irq", "ps2_cli",
           "ps2_sti", "install_keyboard_irq", "run", "halted"}
Handlers == {"none", "PIT_irq_handler", "keyboard_irq_handler", "driver"}
Steps    == {"handler", "reread", "eoi_slave", "eoi_master", "sti", "iret", "spin"}
Vectors  == 0..255

\* The line whose stub pushed int_no.
Line(int_no) == int_no - 32
IrqVectors   == 32..47

\* real: was the request still there when the CPU acknowledged it?  If not, the
\* controller answers with line 7 and marks nothing of its own in service.
Frame == [int_no : SoftVectors \union IrqVectors, real : BOOLEAN,
          saved_if : BOOLEAN, step : Steps]

TypeOK ==
  /\ pc \in Stages
  /\ IFlag \in BOOLEAN
  /\ idtr \in BOOLEAN
  /\ gates \subseteq Vectors
  /\ base \in [master : Vectors, slave : Vectors]
  /\ irr \subseteq DeviceLines
  /\ isr \subseteq 0..15
  /\ frames \in Seq(Frame)
  /\ routines \in [0..15 -> Handlers]
  /\ ticks \in 0..TickMod - 1
  /\ obf \in BOOLEAN

InMain == frames = <<>>
Top    == frames[Len(frames)]

\* An exception prints a message and loops in isr_handler; main returning ends
\* in halt_kernel.
Crashed == frames # <<>> /\ Top.int_no < 32
Stopped == pc = "halted" \/ Crashed

\* start has executed CLI; the firmware left its own vector bases, and any
\* requests made since it stopped serving them.
Init ==
  /\ pc = "remap"
  /\ IFlag = FALSE
  /\ idtr = FALSE
  /\ gates = {}
  /\ base = [master |-> 8, slave |-> 112]
  /\ irr \in SUBSET (Devices \union {0})
  /\ isr = {}
  /\ frames = <<>>
  /\ routines = [n \in 0..15 |-> "none"]
  /\ ticks = 0
  /\ obf = FALSE
-----------------------------------------------------------------------------
(***************************************************************************)
(* The main program.                                                       *)
(***************************************************************************)
Goto(from, to) == InMain /\ pc = from /\ pc' = to

\* The first half of init_IDT: ICW1 to ICW4 to both controllers, then a zero
\* mask.  ICW1 forgets the requests latched so far.
MasterBase == 32
SlaveBase  == 40
InitIDT_RemapPIC ==
  /\ Goto("remap", "gates")
  /\ base' = [master |-> MasterBase, slave |-> SlaveBase]
  /\ irr' = {}
  /\ isr' = {}
  /\ UNCHANGED <<IFlag, idtr, gates, frames, kernel, obf>>

\* The second half: the calls of set_IDT_gate.
PresentGatesShort == (0..46) \union {128, 177} \* mutant: irq15 forgotten
PresentGates == (0..47) \union {128, 177}
InitIDT_SetGates ==
  /\ Goto("gates", "flush")
  /\ gates' = PresentGates
  /\ UNCHANGED <<IFlag, idtr, base, controller, frames, kernel, obf>>

\* LIDT and STI: from here on the kernel is interruptible.
IDT_flush ==
  /\ Goto("flush", "init_PIT")
  /\ idtr' = TRUE
  /\ IFlag' = TRUE
  /\ UNCHANGED <<gates, base, controller, frames, kernel, obf>>

\* Only the rate of line 0 changes, and line 0 may pulse at any time anyway.
InitPIT ==
  /\ Goto("init_PIT", "install_PIT_irq")
  /\ UNCHANGED <<IFlag, idtr, gates, base, controller, frames, kernel, obf>>

InstallPitIrq ==
  /\ Goto("install_PIT_irq", "ps2_cli")
  /\ routines' = [routines EXCEPT ![0] = "PIT_irq_handler"]
  /\ UNCHANGED <<IFlag, idtr, gates, base, controller, frames, ticks, obf>>

Ps2Init_Cli ==
  /\ Goto("ps2_cli", "ps2_sti")
  /\ IFlag' = FALSE
  /\ UNCHANGED <<idtr, gates, base, controller, frames, kernel, obf>>

Ps2Init_Sti ==
  /\ Goto("ps2_sti", "install_keyboard_irq")
  /\ IFlag' = TRUE
  /\ UNCHANGED <<idtr, gates, base, controller, frames, kernel, obf>>

InstallKeyboardIrq ==
  /\ Goto("install_keyboard_irq", "run")
  /\ routines' = [routines EXCEPT ![1] = "keyboard_irq_handler"]
  /\ UNCHANGED <<IFlag, idtr, gates, base, controller, frames, ticks, obf>>

\* irq_install_handler and irq_uninstall_handler, for the drivers to come.
IrqInstallHandler(n) ==
  /\ Goto("run", "run")
  /\ routines' = [routines EXCEPT ![n] = "driver"]
  /\ UNCHANGED <<IFlag, idtr, gates, base, controller, frames, ticks, obf>>

IrqUninstallHandler(n) ==
  /\ Goto("run", "run")
  /\ routines' = [routines EXCEPT ![n] = "none"]
  /\ UNCHANGED <<IFlag, idtr, gates, base, controller, frames, ticks, obf>>

\* main returns into halt_kernel: CLI, HLT.
IFAfterHaltOpen == TRUE \* mutant: halt_kernel without CLI
IFAfterHalt == FALSE
MainReturn ==
  /\ Goto("run", "halted")
  /\ IFlag' = IFAfterHalt
  /\ UNCHANGED <<idtr, gates, base, controller, frames, kernel, obf>>

Main ==
  \/ InitIDT_RemapPIC \/ InitIDT_SetGates \/ IDT_flush
  \/ InitPIT \/ InstallPitIrq
  \/ Ps2Init_Cli \/ Ps2Init_Sti \/ InstallKeyboardIrq
  \/ \E n \in DriverLines : IrqInstallHandler(n) \/ IrqUninstallHandler(n)
  \/ MainReturn
-----------------------------------------------------------------------------
(***************************************************************************)
(* Entering a stub.                                                        *)
(***************************************************************************)
Vector(n) ==
  IF n \in SlaveLines THEN base.slave + (n - 8) ELSE base.master + n

\* Every gate is an interrupt gate (flags 0x8E) and the stubs begin with CLI.
IFOnEntryTrap == TRUE \* mutant: trap gates, and no CLI
IFOnEntry == FALSE

Enter(int_no, real, step) ==
  /\ frames' = Append(frames, [int_no |-> int_no, real |-> real,
                               saved_if |-> IFlag, step |-> step])
  /\ IFlag' = IFOnEntry
  /\ UNCHANGED <<pc, idtr, gates, base, kernel, obf>>

\* The shadow of STI: no interrupt is taken before the instruction after it is
\* done, which in both common stubs is IRET.
ShadowMissed == FALSE \* mutant: something between STI and IRET
Shadow == frames # <<>> /\ Top.step = "iret"

CanInterrupt == IFlag /\ ~Shadow /\ Len(frames) < MaxFrames

\* The CPU acknowledges the request the controllers signal.
Deliver(n) ==
  /\ CanInterrupt
  /\ Signalled(irr, isr, n)
  /\ irr' = irr \ {n}
  /\ isr' = isr \union InServiceBits(n)
  /\ Enter(Vector(n), TRUE, "handler")

\* A request that has gone by the time it is acknowledged: the master answers
\* with line 7, the slave with line 15, and then the master's bit for the slave
\* is set all the same.
Spurious(n) ==
  /\ CanInterrupt
  /\ ~Blocked(isr, n)
  /\ irr' = irr
  /\ isr' = isr \union (InServiceBits(n) \ {n})
  /\ Enter(Vector(n), FALSE, "handler")

SpuriousLines == {7, 15}

\* A software interrupt or an exception of the main program.
SoftInterrupt(v) ==
  /\ Goto("run", "run")
  /\ v \in gates
  /\ UNCHANGED controller
  /\ Enter(v, TRUE, "handler")
-----------------------------------------------------------------------------
(***************************************************************************)
(* Inside a stub: irq_common_stub and irq_handler for a line,              *)
(* isr_common_stub and isr_handler for the rest.                           *)
(***************************************************************************)
At(step) == frames # <<>> /\ Top.step = step

StepTo(step) == frames' = [frames EXCEPT ![Len(frames)].step = step]

InIrq == Top.int_no \in IrqVectors

\* ticks++ of PIT_irq_handler.
NextTickUnbounded(t) == t + 1 \* mutant: a counter that does not wrap
NextTick(t) == (t + 1) % TickMod

PitHandler ==
  /\ At("handler") /\ InIrq
  /\ routines[Line(Top.int_no)] = "PIT_irq_handler"
  /\ ticks' = NextTick(ticks)
  /\ StepTo("eoi_slave")
  /\ UNCHANGED <<control, controller, routines, obf>>

\* keyboard_irq_handler reads port 0x60, and process_scan_code reads it again
\* when the byte before was the prefix 0xE0.  Which it was does not matter here.
BufferNotRead(b) == b \* mutant: the handler returns without reading
BufferAfterRead(b) == FALSE
KeyboardHandler ==
  /\ At("handler") /\ InIrq
  /\ routines[Line(Top.int_no)] = "keyboard_irq_handler"
  /\ obf' = BufferAfterRead(obf)
  /\ StepTo("eoi_slave") \/ StepTo("reread")
  /\ UNCHANGED <<control, controller, kernel>>

\* If the second read takes a byte whose request is already latched, the line
\* drops: the controller may keep the request or lose it.
KeyboardReread ==
  /\ At("reread")
  /\ obf' = BufferAfterRead(obf)
  /\ irr' = irr \/ (obf /\ irr' = irr \ {1})
  /\ StepTo("eoi_slave")
  /\ UNCHANGED <<control, isr, kernel>>

\* A driver's handler, or no handler at all.
OtherHandler ==
  /\ At("handler") /\ InIrq
  /\ routines[Line(Top.int_no)] \in {"driver", "none"}
  /\ StepTo("eoi_slave")
  /\ UNCHANGED <<control, controller, kernel, obf>>

\* if (regs->int_no >= 40) outb(0xA0, 0x20);
FromSlaveAbove40(int_no) == int_no > 40 \* mutant: off by one
FromSlave(int_no) == int_no >= 40
EoiSlave ==
  /\ At("eoi_slave")
  /\ isr' = IF FromSlave(Top.int_no) THEN Eoi(isr, SlaveLines) ELSE isr
  /\ StepTo("eoi_master")
  /\ UNCHANGED <<control, irr, kernel, obf>>

\* outb(0x20, 0x20);
MasterEoiSpecific(bits) == bits \ {0} \* mutant: 0x60, the EOI of line 0 only
MasterEoi(bits) == Eoi(bits, MasterLines)
EoiMaster ==
  /\ At("eoi_master")
  /\ isr' = MasterEoi(isr)
  /\ StepTo("sti")
  /\ UNCHANGED <<control, irr, kernel, obf>>

\* isr_handler: an exception never returns, a system call only prints.
IsrHandler ==
  /\ At("handler") /\ ~InIrq
  /\ StepTo(IF Top.int_no < 32 THEN "spin" ELSE "sti")
  /\ UNCHANGED <<control, controller, kernel, obf>>

\* Both common stubs end in STI; IRET, two instructions with a boundary between
\* them: IF is set there, inside the stub.
Sti ==
  /\ At("sti")
  /\ IFlag' = TRUE
  /\ StepTo("iret")
  /\ UNCHANGED <<pc, idtr, gates, base, controller, kernel, obf>>

\* IRET restores the saved flags.
IFOnExitClosed(saved) == FALSE \* mutant: the saved flags are not restored
IFOnExit(saved) == saved
Iret ==
  /\ At("iret")
  /\ IFlag' = IFOnExit(Top.saved_if)
  /\ frames' = SubSeq(frames, 1, Len(frames) - 1)
  /\ UNCHANGED <<pc, idtr, gates, base, controller, kernel, obf>>

Stub == PitHandler \/ KeyboardHandler \/ KeyboardReread \/ OtherHandler
        \/ EoiSlave \/ EoiMaster \/ IsrHandler \/ Sti \/ Iret
-----------------------------------------------------------------------------
(***************************************************************************)
(* The devices.  Requests are latched on an edge, so two pulses before the *)
(* first is acknowledged are one request.                                  *)
(***************************************************************************)
Raise(n) ==
  /\ irr' = irr \union {n}
  /\ UNCHANGED <<control, isr, frames, kernel>>

PitPulse == Raise(0) /\ UNCHANGED obf

\* The keyboard controller transfers one byte and waits until it is read.
KbdByte ==
  /\ ~obf
  /\ EarlyKeys \/ routines[1] = "keyboard_irq_handler"
  /\ obf' = TRUE
  /\ Raise(1)

DeviceRaise(n) == Raise(n) /\ UNCHANGED obf

Environment == PitPulse \/ KbdByte \/ \E n \in Devices : DeviceRaise(n)
-----------------------------------------------------------------------------
Interrupt ==
  \/ \E n \in DeviceLines : Deliver(n)
  \/ \E n \in SpuriousLines : Spurious(n)
  \/ \E v \in SoftVectors : SoftInterrupt(v)

Next == Main \/ Interrupt \/ Stub \/ Environment

Spec == Init /\ [][Next]_vars

(***************************************************************************)
(* A stub runs on to its end.  The CPU looks at its INTR pin at every      *)
(* instruction boundary where IF is set, so a line that is signalled again *)
(* and again at such moments is taken.  Nothing is assumed of the main     *)
(* program, and of the devices only that the timer keeps pulsing.          *)
(***************************************************************************)
Fairness ==
  /\ WF_vars(Stub)
  /\ WF_vars(Main /\ ~IFlag)
  /\ WF_vars(PitPulse)
  /\ SF_vars(Deliver(0))
  /\ SF_vars(Deliver(1))

FairSpec == Spec /\ Fairness
-----------------------------------------------------------------------------
(***************************************************************************)
(* Properties.                                                             *)
(***************************************************************************)

\* The in-service bits that the stub with this frame still has to give back.
\* irq_handler gives the slave's back first, then the master's.
Unreturned(f) ==
  LET n    == Line(f.int_no)
      held == IF f.real THEN InServiceBits(n) ELSE InServiceBits(n) \ {n}
  IN  IF f.int_no \notin IrqVectors \/ f.step \in {"sti", "iret"} THEN {}
      ELSE IF f.step = "eoi_master" THEN held \ SlaveLines
      ELSE held

\* Every end-of-interrupt command of irq_handler retires the bit of the line it
\* serves and no other: the controllers hold exactly the bits the active stub
\* owes them, whether the request was real or spurious, and none while the main
\* program runs.  (A bit left behind blocks its line and all lower ones for
\* good; one retired twice lets a lower line in early.)
InServiceMatchesFrame ==
  isr = UNION {Unreturned(frames[i]) : i \in 1..Len(frames)}

\* The stubs of idt.asm never nest, although both common stubs execute STI
\* before IRET: a stub is never entered inside another, and at the one boundary
\* of it where IF is set, all its end-of-interrupt commands sent and its frame
\* still on the stack, nothing is taken.
NoNesting ==
  /\ Len(frames) <= 1
  /\ frames # <<>> => (IFlag <=> Top.step = "iret")

\* Whenever the CPU may be interrupted, init_IDT has already loaded the table
\* and moved the controllers, so that every line has a gate of its own and none
\* is taken for an exception.
GateReady ==
  IFlag => /\ idtr
           /\ \A n \in 0..15 : /\ Vector(n) \in gates
                               /\ Line(Vector(n)) = n

\* A byte in the keyboard controller always has a request on its way once the
\* keyboard handler is installed, so the kernel will read it.  (The controller
\* transfers nothing more until it is read: a byte whose request was answered
\* without reading it silences the keyboard for good.)
ByteAnnounced ==
  (obf /\ routines[1] = "keyboard_irq_handler" /\ ~Stopped) =>
    \/ 1 \in irr
    \/ \E i \in 1..Len(frames) : /\ frames[i].int_no = 33
                                 /\ frames[i].step \in {"handler", "reread"}

\* Once the kernel has stopped, after main returned into halt_kernel or an
\* exception reached the loop in isr_handler, no handler ever runs again.
StoppedForGood ==
  [][Stopped => /\ Stopped'
                /\ UNCHANGED <<IFlag, isr, ticks, routines>>
                /\ \A i \in 1..Len(frames') : frames'[i].int_no < 32]_vars

\* A tick is counted only while no controller would signal the timer again: the
\* increment of ticks, a read and a write in the code, is never interrupted by
\* another one, and one request never counts twice.
TickIsExclusive ==
  [][ticks' # ticks => /\ 0 \in isr
                       /\ ~IFlag
                       /\ Len(frames) = 1]_vars

\* The phase of the kernel and the line it serves, as a client sees them.
Phase == IF pc \in {"remap", "gates", "flush"} THEN "boot"
         ELSE IF Stopped THEN "stopped" ELSE "open"

ServedLine == IF ~InMain /\ InIrq THEN Line(Top.int_no) ELSE -1

\* The dispatcher implements IrqService: one handler at a time, to completion,
\* in the order of the controllers' priorities, only between IDT_flush and the
\* stop.
Service == INSTANCE IrqService WITH
  Lines <- DeviceLines, None <- -1,
  phase <- Phase, pending <- irr, serving <- ServedLine

ImplementsService == Service!Spec

Serving(n) == ~InMain /\ Top.int_no = 32 + n

\* Every interrupt of a line gives the CPU back to the main program.
EveryServiceEnds ==
  \A n \in DeviceLines : Serving(n) ~> InMain

\* A pulse of the timer is served, whatever the other lines do, unless the
\* kernel stops first: none of the windows in which interrupts are off (init_IDT,
\* ps2_init, the stubs) lasts.
TimerServed == (0 \in irr) ~> (Serving(0) \/ Stopped)

\* A byte of the keyboard is served unless the timer leaves no gap: it is only
\* line 0 that can delay line 1 for ever.
KeyboardServed ==
  []<>(InMain /\ IFlag /\ 0 \notin irr) =>
    ((1 \in irr) ~> (Serving(1) \/ 1 \notin irr))
=============================================================================
