------------------------- MODULE Interrupts_proofs --------------------------
(***************************************************************************)
(* Proofs about Interrupts, for every set of devices, every set of driver  *)
(* lines and every width of the tick counter.                              *)
(***************************************************************************)
EXTENDS Interrupts, SequenceTheorems, TLAPS

\* What the kernel has set up by each stage of the boot sequence.
Closed == {"remap", "gates", "flush"}

StageInv ==
  /\ pc \in Closed \union {"ps2_sti", "halted"} => ~IFlag /\ frames = <<>>
  /\ pc # "remap" => base = [master |-> 32, slave |-> 40]
  /\ pc \notin {"remap", "gates"} => gates = PresentGates
  /\ pc \notin Closed => idtr

\* The steps a stub with a given number goes through.
FrameInv(f) ==
  /\ f \in Frame
  /\ f.int_no \in IrqVectors =>
       f.step \in {"handler", "reread", "eoi_slave", "eoi_master", "sti", "iret"}
  /\ f.int_no \in IrqVectors /\ ~f.real => Line(f.int_no) \in SpuriousLines
  /\ f.int_no \notin IrqVectors => f.step \in {"handler", "spin", "sti", "iret"}
  /\ f.int_no < 32 => f.step \notin {"sti", "iret"}

\* There is at most one stub, with interrupts off but in the shadow of its STI, and
\* the controllers hold the bits it owes them.
StubInv ==
  \/ frames = <<>> /\ isr = {}
  \/ \E f \in Frame : /\ frames = <<f>>
                      /\ FrameInv(f)
                      /\ IFlag <=> f.step = "iret"
                      /\ isr = Unreturned(f)

IInv == TypeOK /\ StageInv /\ StubInv
-----------------------------------------------------------------------------
(***************************************************************************)
(* Lemmas about one active stub.                                           *)
(***************************************************************************)

LEMMA TopOfOne ==
  ASSUME NEW f, frames = <<f>>
  PROVE  Len(frames) = 1 /\ Top = f /\ frames # <<>>
BY DEF Top

LEMMA StepOfOne ==
  ASSUME NEW f \in Frame, NEW s \in Steps, frames = <<f>>, StepTo(s)
  PROVE  /\ frames' = <<[f EXCEPT !.step = s]>>
         /\ [f EXCEPT !.step = s] \in Frame
BY DEF StepTo, Frame, Steps

LEMMA EnterFromMain ==
  ASSUME frames = <<>>, NEW v, NEW r, NEW s, Enter(v, r, s)
  PROVE  frames' = <<[int_no |-> v, real |-> r, saved_if |-> IFlag, step |-> s]>>
BY DEF Enter

LEMMA LeaveToMain ==
  ASSUME NEW f, frames = <<f>>, Iret
  PROVE  frames' = <<>>
BY DEF Iret

\* The end-of-interrupt commands give back what a stub owes, step by step.
LEMMA EoiGivesBack ==
  ASSUME NEW f \in Frame, FrameInv(f), f.int_no \in IrqVectors
  PROVE  /\ f.step = "eoi_slave" /\ FromSlave(f.int_no) =>
              Eoi(Unreturned(f), SlaveLines)
                = Unreturned([f EXCEPT !.step = "eoi_master"])
         /\ f.step = "eoi_slave" /\ ~FromSlave(f.int_no) =>
              Unreturned(f) = Unreturned([f EXCEPT !.step = "eoi_master"])
         /\ f.step = "eoi_master" =>
              Eoi(Unreturned(f), MasterLines) = {}
<1> DEFINE n == Line(f.int_no)
<1>1. n \in 0..15 /\ f.int_no = n + 32
  BY DEF Line, IrqVectors
<1>2. CASE n \in SlaveLines
  <2>1. FromSlave(f.int_no) /\ MasterLine(n) = 2 /\ InServiceBits(n) = {n, 2}
    BY <1>1, <1>2 DEF FromSlave, MasterLine, InServiceBits, SlaveLines, Cascade
  <2>2. Eoi({n, 2}, SlaveLines) = {2} /\ Eoi({2}, SlaveLines) = {2}
    BY <1>2 DEF Eoi, SlaveLines
  <2>3. Eoi({2}, MasterLines) = {}
    BY DEF Eoi, MasterLines
  <2>4. {n, 2} \ SlaveLines = {2} /\ {n, 2} \ {n} = {2} /\ {2} \ SlaveLines = {2}
    BY <1>2 DEF SlaveLines
  <2> QED
    BY <2>1, <2>2, <2>3, <2>4 DEF Unreturned, Frame
<1>3. CASE n \in MasterLines
  <2>1. ~FromSlave(f.int_no) /\ MasterLine(n) = n /\ InServiceBits(n) = {n}
    BY <1>1, <1>3
    DEF FromSlave, MasterLine, InServiceBits, SlaveLines, MasterLines
  <2>2. Eoi({n}, MasterLines) = {} /\ Eoi({}, MasterLines) = {}
    BY <1>3 DEF Eoi, MasterLines
  <2>3. {n} \ SlaveLines = {n} /\ {n} \ {n} = {} /\ {} \ SlaveLines = {}
    BY <1>3 DEF SlaveLines, MasterLines
  <2> QED
    BY <2>1, <2>2, <2>3 DEF Unreturned, Frame
<1> QED
  BY <1>1, <1>2, <1>3 DEF SlaveLines, MasterLines
-----------------------------------------------------------------------------
(***************************************************************************)
(* The inductive invariant.                                                *)
(***************************************************************************)

LEMMA InitIInv == Init => IInv
<1> SUFFICES ASSUME Init PROVE IInv
  OBVIOUS
<1> USE DevicesAssumption, TickModAssumption
    DEF DevicesAssumption, TickModAssumption
<1>1. TypeOK
  <2>1. irr \subseteq DeviceLines
    BY DEF Init, DeviceLines, MasterLines, SlaveLines, Cascade
  <2>2. frames \in Seq(Frame)
    BY DEF Init
  <2>3. ticks \in 0..TickMod - 1 /\ routines \in [0..15 -> Handlers]
    BY DEF Init, Handlers
  <2>4. base \in [master : Vectors, slave : Vectors]
    BY DEF Init, Vectors
  <2>5. /\ pc \in Stages /\ IFlag \in BOOLEAN /\ idtr \in BOOLEAN
        /\ obf \in BOOLEAN /\ gates \subseteq Vectors /\ isr \subseteq 0..15
    BY DEF Init, Stages
  <2> QED
    BY <2>1, <2>2, <2>3, <2>4, <2>5 DEF TypeOK
<1>2. StageInv /\ StubInv
  BY DEF Init, StageInv, StubInv, Closed
<1> QED
  BY <1>1, <1>2 DEF IInv

\* While the main program has the CPU, no line is in service.
LEMMA MainOwesNothing ==
  ASSUME IInv, InMain
  PROVE  isr = {}
BY DEF IInv, StubInv, InMain

\* A step of the main program.
LEMMA MainStep ==
  ASSUME IInv, Main
  PROVE  IInv'
<1>1. frames = <<>> /\ isr = {} /\ TypeOK /\ StageInv
  BY DEF IInv, StubInv, Main, Goto, InMain, InitIDT_RemapPIC, InitIDT_SetGates,
         IDT_flush, InitPIT, InstallPitIrq, Ps2Init_Cli, Ps2Init_Sti,
         InstallKeyboardIrq, IrqInstallHandler, IrqUninstallHandler, MainReturn
<1>2. frames' = <<>> /\ isr' = {}
  BY <1>1 DEF Main, InitIDT_RemapPIC, InitIDT_SetGates, controller, kernel,
         IDT_flush, InitPIT, InstallPitIrq, Ps2Init_Cli, Ps2Init_Sti,
         InstallKeyboardIrq, IrqInstallHandler, IrqUninstallHandler, MainReturn
<1>3. TypeOK'
  <2>1. irr' \subseteq DeviceLines /\ isr' \subseteq 0..15
    BY <1>1, <1>2 DEF TypeOK, Main, InitIDT_RemapPIC, InitIDT_SetGates,
       controller, IDT_flush, InitPIT, InstallPitIrq, Ps2Init_Cli, Ps2Init_Sti,
       InstallKeyboardIrq, IrqInstallHandler, IrqUninstallHandler, MainReturn
  <2>2. routines' \in [0..15 -> Handlers]
    BY <1>1, DriverLinesAssumption DEF DriverLinesAssumption, TypeOK, Handlers, Main, InitIDT_RemapPIC,
       InitIDT_SetGates, kernel, IDT_flush, InitPIT, InstallPitIrq, Ps2Init_Cli,
       Ps2Init_Sti, InstallKeyboardIrq, IrqInstallHandler, IrqUninstallHandler,
       MainReturn
  <2> PresentGates \subseteq Vectors
    BY DEF PresentGates, Vectors
  <2> MasterBase \in Vectors /\ SlaveBase \in Vectors
    BY DEF MasterBase, SlaveBase, Vectors
  <2>3. gates' \subseteq Vectors /\ base' \in [master : Vectors, slave : Vectors]
    BY <1>1 DEF TypeOK, Main, InitIDT_RemapPIC, InitIDT_SetGates, IDT_flush, InitPIT, InstallPitIrq,
       Ps2Init_Cli, Ps2Init_Sti, InstallKeyboardIrq, IrqInstallHandler,
       IrqUninstallHandler, MainReturn
  <2>4. /\ pc' \in Stages /\ IFlag' \in BOOLEAN /\ idtr' \in BOOLEAN
        /\ ticks' \in 0..TickMod - 1 /\ obf' \in BOOLEAN
    BY <1>1 DEF TypeOK, Stages, Goto, IFAfterHalt, kernel, Main,
       InitIDT_RemapPIC, InitIDT_SetGates, IDT_flush, InitPIT, InstallPitIrq,
       Ps2Init_Cli, Ps2Init_Sti, InstallKeyboardIrq, IrqInstallHandler,
       IrqUninstallHandler, MainReturn
  <2>5. frames' \in Seq(Frame)
    BY <1>2
  <2> QED
    BY <2>1, <2>2, <2>3, <2>4, <2>5 DEF TypeOK
<1>4. StageInv'
  BY <1>1, <1>2 DEF StageInv, Closed, Goto, MasterBase, SlaveBase, IFAfterHalt,
     Main, InitIDT_RemapPIC, InitIDT_SetGates, IDT_flush, InitPIT,
     InstallPitIrq, Ps2Init_Cli, Ps2Init_Sti, InstallKeyboardIrq,
     IrqInstallHandler, IrqUninstallHandler, MainReturn
<1> QED
  BY <1>2, <1>3, <1>4 DEF IInv, StubInv

\* The devices only latch requests and fill the keyboard's buffer.
LEMMA EnvironmentStep ==
  ASSUME IInv, Environment
  PROVE  IInv'
<1>1. irr' \subseteq DeviceLines
  <2>1. {0, 1} \subseteq DeviceLines
    BY DEF DeviceLines, MasterLines, SlaveLines, Cascade
  <2>2. Devices \subseteq DeviceLines
    BY DevicesAssumption DEF DevicesAssumption
  <2>3. PICK n \in {0, 1} \union Devices : irr' = irr \union {n}
    BY DEF Environment, PitPulse, KbdByte, DeviceRaise, Raise
  <2> QED
    BY <2>1, <2>2, <2>3 DEF IInv, TypeOK
<1>1a. obf' \in BOOLEAN
  BY DEF IInv, TypeOK, Environment, PitPulse, KbdByte, DeviceRaise
<1>2. UNCHANGED <<pc, IFlag, idtr, gates, base, isr, frames, routines, ticks>>
  BY DEF Environment, PitPulse, KbdByte, DeviceRaise, Raise, control, kernel
<1>3. TypeOK'
  BY <1>1, <1>1a, <1>2 DEF IInv, TypeOK
<1>4. StageInv'
  BY <1>2 DEF IInv, StageInv
<1>5. StubInv'
  BY <1>2 DEF IInv, StubInv
<1> QED
  BY <1>3, <1>4, <1>5 DEF IInv

\* Wherever an interrupt can be taken, the main program is running and the
\* controllers have their vectors.
LEMMA InterruptibleState ==
  ASSUME IInv, CanInterrupt
  PROVE  /\ frames = <<>> /\ isr = {}
         /\ pc \notin Closed \union {"ps2_sti", "halted"}
         /\ idtr /\ gates = PresentGates
         /\ base = [master |-> 32, slave |-> 40]
<1>1. IFlag /\ ~Shadow
  BY DEF CanInterrupt
<1>2. frames = <<>> /\ isr = {}
  BY <1>1, TopOfOne DEF Shadow, IInv, StubInv
<1> QED
  BY <1>1, <1>2 DEF IInv, StageInv, Closed

LEMMA VectorOfLine ==
  ASSUME base = [master |-> 32, slave |-> 40], NEW n \in 0..15
  PROVE  /\ Vector(n) \in IrqVectors
         /\ Line(Vector(n)) = n
BY DEF Vector, Line, IrqVectors, SlaveLines

\* Entering a stub from the main program.
LEMMA EnterStep ==
  ASSUME IInv, frames = <<>>, pc \notin Closed \union {"ps2_sti", "halted"},
         NEW v \in SoftVectors \union IrqVectors, NEW r \in BOOLEAN,
         Enter(v, r, "handler"),
         irr' \subseteq DeviceLines,
         v \in IrqVectors /\ ~r => Line(v) \in SpuriousLines,
         NEW f, f = [int_no |-> v, real |-> r, saved_if |-> IFlag,
                     step |-> "handler"],
         isr' = Unreturned(f), isr' \subseteq 0..15
  PROVE  IInv'
<1>1. frames' = <<f>> /\ f \in Frame
  BY EnterFromMain DEF Frame, Steps, IInv, TypeOK
<1>2. UNCHANGED <<pc, idtr, gates, base, routines, ticks, obf>> /\ IFlag' = FALSE
  BY DEF Enter, kernel, IFOnEntry
<1>3. TypeOK'
  <2>1. frames' \in Seq(Frame)
    BY <1>1
  <2> QED
    BY <1>2, <2>1 DEF IInv, TypeOK
<1>4. StageInv'
  BY <1>2 DEF IInv, StageInv, Closed
<1>5. FrameInv(f)
  BY <1>1 DEF FrameInv
<1>6. StubInv'
  BY <1>1, <1>2, <1>5 DEF StubInv
<1> QED
  BY <1>3, <1>4, <1>6 DEF IInv

LEMMA InterruptStep ==
  ASSUME IInv, Interrupt
  PROVE  IInv'
<1>1. ASSUME NEW n \in DeviceLines, Deliver(n)
      PROVE  IInv'
  <2>1. /\ frames = <<>> /\ isr = {} /\ IFlag
        /\ pc \notin Closed \union {"ps2_sti", "halted"}
        /\ base = [master |-> 32, slave |-> 40]
    BY <1>1, InterruptibleState DEF Deliver, CanInterrupt
  <2>2. n \in 0..15 /\ Vector(n) \in IrqVectors /\ Line(Vector(n)) = n
    <3>1. n \in 0..15
      BY <1>1 DEF DeviceLines, MasterLines, SlaveLines
    <3> QED
      BY <2>1, <3>1, VectorOfLine
  <2> DEFINE f == [int_no |-> Vector(n), real |-> TRUE, saved_if |-> IFlag,
                   step |-> "handler"]
  <2>3. isr' = InServiceBits(n)
    BY <1>1, <2>1 DEF Deliver
  <2>4. Unreturned(f) = InServiceBits(n)
    BY <2>2 DEF Unreturned
  <2>5. InServiceBits(n) \subseteq 0..15
    BY <2>2 DEF InServiceBits, MasterLine, Cascade
  <2>6. irr' \subseteq DeviceLines
    BY <1>1 DEF Deliver, IInv, TypeOK
  <2> QED
    BY <1>1, <2>1, <2>2, <2>3, <2>4, <2>5, <2>6, EnterStep DEF Deliver
<1>2. ASSUME NEW n \in SpuriousLines, Spurious(n)
      PROVE  IInv'
  <2>1. /\ frames = <<>> /\ isr = {} /\ IFlag
        /\ pc \notin Closed \union {"ps2_sti", "halted"}
        /\ base = [master |-> 32, slave |-> 40]
    BY <1>2, InterruptibleState DEF Spurious, CanInterrupt
  <2>2. n \in 0..15 /\ Vector(n) \in IrqVectors /\ Line(Vector(n)) = n
    <3>1. n \in 0..15
      BY <1>2 DEF SpuriousLines
    <3> QED
      BY <2>1, <3>1, VectorOfLine
  <2> DEFINE f == [int_no |-> Vector(n), real |-> FALSE, saved_if |-> IFlag,
                   step |-> "handler"]
  <2>3. isr' = InServiceBits(n) \ {n}
    BY <1>2, <2>1 DEF Spurious
  <2>4. Unreturned(f) = InServiceBits(n) \ {n}
    BY <2>2 DEF Unreturned
  <2>5. InServiceBits(n) \ {n} \subseteq 0..15
    BY <2>2 DEF InServiceBits, MasterLine, Cascade
  <2>6. irr' \subseteq DeviceLines
    BY <1>2 DEF Spurious, IInv, TypeOK
  <2> QED
    BY <1>2, <2>1, <2>2, <2>3, <2>4, <2>5, <2>6, EnterStep DEF Spurious
<1>3. ASSUME NEW v \in SoftVectors, SoftInterrupt(v)
      PROVE  IInv'
  <2>1. frames = <<>> /\ isr = {} /\ pc = "run" /\ v \notin IrqVectors
    BY <1>3, MainOwesNothing, SoftAssumption
    DEF SoftInterrupt, Goto, InMain, SoftAssumption, IrqVectors
  <2> DEFINE f == [int_no |-> v, real |-> TRUE, saved_if |-> IFlag,
                   step |-> "handler"]
  <2>2. Unreturned(f) = {} /\ isr' = {}
    BY <1>3, <2>1 DEF Unreturned, SoftInterrupt, controller
  <2>3. irr' \subseteq DeviceLines
    BY <1>3 DEF SoftInterrupt, controller, IInv, TypeOK
  <2> QED
    BY <1>3, <2>1, <2>2, <2>3, EnterStep DEF SoftInterrupt, Closed
<1> QED
  BY <1>1, <1>2, <1>3 DEF Interrupt
\* Moving the active stub to its next step.
LEMMA StepStep ==
  ASSUME IInv, NEW f \in Frame, frames = <<f>>, FrameInv(f),
         NEW s \in Steps, StepTo(s), UNCHANGED <<pc, idtr, gates, base>>,
         IFlag' \in BOOLEAN, IFlag' <=> s = "iret",
         FrameInv([f EXCEPT !.step = s]),
         isr' = Unreturned([f EXCEPT !.step = s]), isr' \subseteq 0..15,
         irr' \subseteq DeviceLines,
         routines' = routines, ticks' \in 0..TickMod - 1, obf' \in BOOLEAN
  PROVE  IInv'
<1> DEFINE g == [f EXCEPT !.step = s]
<1>1. frames' = <<g>> /\ g \in Frame
  BY StepOfOne
<1>2. UNCHANGED <<pc, idtr, gates, base>> /\ g.step = s
  BY DEF Frame
<1>3. pc \notin Closed \union {"ps2_sti", "halted"}
  BY DEF IInv, StageInv
<1>4. TypeOK'
  <2>1. frames' \in Seq(Frame)
    BY <1>1
  <2> QED
    BY <1>2, <2>1 DEF IInv, TypeOK
<1>5. StageInv'
  BY <1>2, <1>3 DEF IInv, StageInv, Closed
<1>6. StubInv'
  BY <1>1, <1>2 DEF StubInv
<1> QED
  BY <1>4, <1>5, <1>6 DEF IInv

\* The steps of a handler leave the in-service bits alone.
LEMMA HandlerOwesTheSame ==
  ASSUME NEW f \in Frame, f.step \in {"handler", "reread"},
         f.int_no \in IrqVectors, NEW s \in {"reread", "eoi_slave"}
  PROVE  Unreturned([f EXCEPT !.step = s]) = Unreturned(f)
BY DEF Unreturned, Frame

\* One that leaves the flag as it is, which is off.
LEMMA StepClosed ==
  ASSUME IInv, NEW f \in Frame, frames = <<f>>, FrameInv(f),
         IFlag <=> f.step = "iret", f.step # "iret",
         NEW s \in Steps \ {"iret"}, StepTo(s), UNCHANGED control,
         FrameInv([f EXCEPT !.step = s]),
         isr' = Unreturned([f EXCEPT !.step = s]), isr' \subseteq 0..15,
         irr' \subseteq DeviceLines,
         routines' = routines, ticks' \in 0..TickMod - 1, obf' \in BOOLEAN
  PROVE  IInv'
<1>1. UNCHANGED <<pc, IFlag, idtr, gates, base>> /\ IFlag \in BOOLEAN
  BY DEF control, IInv, TypeOK
<1> QED
  BY <1>1, StepStep

LEMMA StubStep ==
  ASSUME IInv, Stub
  PROVE  IInv'
<1>1. PICK f \in Frame : /\ frames = <<f>> /\ FrameInv(f)
                         /\ IFlag <=> f.step = "iret"
                         /\ isr = Unreturned(f)
  BY DEF IInv, StubInv, Stub, PitHandler, KeyboardHandler, KeyboardReread,
         OtherHandler, EoiSlave, EoiMaster, IsrHandler, Sti, Iret, At
<1>2. Top = f /\ frames # <<>>
  BY <1>1, TopOfOne
<1>3. /\ irr \subseteq DeviceLines /\ isr \subseteq 0..15
      /\ ticks \in 0..TickMod - 1 /\ TickMod \in Nat \ {0}
  BY TickModAssumption DEF IInv, TypeOK, TickModAssumption
<1>4. obf \in BOOLEAN
  BY DEF IInv, TypeOK
<1>5. CASE PitHandler
  <2>1. /\ f.step = "handler" /\ f.int_no \in IrqVectors
        /\ StepTo("eoi_slave") /\ UNCHANGED <<control, irr, isr, routines, obf>>
        /\ ticks' = NextTick(ticks)
    BY <1>2, <1>5 DEF PitHandler, At, InIrq, controller
  <2>2. ticks' \in 0..TickMod - 1
    BY <1>3, <2>1 DEF NextTick
  <2>3. FrameInv([f EXCEPT !.step = "eoi_slave"])
    BY <1>1, <2>1 DEF FrameInv, Frame, Steps, IrqVectors
  <2> QED
    BY <1>1, <1>3, <1>4, <2>1, <2>2, <2>3, StepClosed, HandlerOwesTheSame DEF Steps
<1>6. CASE KeyboardHandler
  <2>1. /\ f.step = "handler" /\ f.int_no \in IrqVectors
        /\ UNCHANGED <<control, irr, isr, routines, ticks>>
    BY <1>2, <1>6 DEF KeyboardHandler, At, InIrq, controller, kernel
  <2>2. PICK s \in {"reread", "eoi_slave"} : StepTo(s)
    BY <1>6 DEF KeyboardHandler
  <2>3. obf' \in BOOLEAN
    BY <1>6 DEF KeyboardHandler, BufferAfterRead
  <2>4. FrameInv([f EXCEPT !.step = s])
    BY <1>1, <2>1, <2>2 DEF FrameInv, Frame, Steps, IrqVectors
  <2> QED
    BY <1>1, <1>3, <2>1, <2>2, <2>3, <2>4, StepClosed, HandlerOwesTheSame DEF Steps
<1>7. CASE KeyboardReread
  <2>1. /\ f.step = "reread" /\ f.int_no \in IrqVectors
        /\ StepTo("eoi_slave") /\ UNCHANGED <<control, isr, routines, ticks>>
    BY <1>1, <1>2, <1>7 DEF KeyboardReread, At, kernel, FrameInv
  <2>2. irr' \subseteq DeviceLines
    BY <1>3, <1>7 DEF KeyboardReread
  <2>3. obf' \in BOOLEAN
    BY <1>7 DEF KeyboardReread, BufferAfterRead
  <2>4. FrameInv([f EXCEPT !.step = "eoi_slave"])
    BY <1>1, <2>1 DEF FrameInv, Frame, Steps, IrqVectors
  <2> QED
    BY <1>1, <1>3, <2>1, <2>2, <2>3, <2>4, StepClosed, HandlerOwesTheSame DEF Steps
<1>8. CASE OtherHandler
  <2>1. /\ f.step = "handler" /\ f.int_no \in IrqVectors
        /\ StepTo("eoi_slave")
        /\ UNCHANGED <<control, irr, isr, routines, ticks, obf>>
    BY <1>2, <1>8 DEF OtherHandler, At, InIrq, controller, kernel
  <2>2. FrameInv([f EXCEPT !.step = "eoi_slave"])
    BY <1>1, <2>1 DEF FrameInv, Frame, Steps, IrqVectors
  <2> QED
    BY <1>1, <1>3, <1>4, <2>1, <2>2, StepClosed, HandlerOwesTheSame DEF Steps
<1>9. CASE EoiSlave
  <2>1. /\ f.step = "eoi_slave" /\ f.int_no \in IrqVectors
        /\ StepTo("eoi_master")
        /\ UNCHANGED <<control, irr, routines, ticks, obf>>
    BY <1>1, <1>2, <1>9 DEF EoiSlave, At, kernel, FrameInv
  <2>2. isr' = Unreturned([f EXCEPT !.step = "eoi_master"])
    BY <1>1, <1>2, <1>9, <2>1, EoiGivesBack DEF EoiSlave
  <2>3. isr' \subseteq 0..15
    BY <1>3, <1>9 DEF EoiSlave, Eoi
  <2>4. FrameInv([f EXCEPT !.step = "eoi_master"])
    BY <1>1, <2>1 DEF FrameInv, Frame, Steps, IrqVectors
  <2> QED
    BY <1>1, <1>3, <1>4, <2>1, <2>2, <2>3, <2>4, StepClosed DEF Steps
<1>10. CASE EoiMaster
  <2>1. /\ f.step = "eoi_master" /\ f.int_no \in IrqVectors
        /\ StepTo("sti")
        /\ UNCHANGED <<control, irr, routines, ticks, obf>>
    BY <1>1, <1>2, <1>10 DEF EoiMaster, At, kernel, FrameInv
  <2>2. isr' = {} /\ Unreturned([f EXCEPT !.step = "sti"]) = {}
    <3>1. isr' = {}
      BY <1>1, <1>10, <2>1, EoiGivesBack DEF EoiMaster, MasterEoi
    <3> QED
      BY <3>1 DEF Unreturned, Frame
  <2>3. FrameInv([f EXCEPT !.step = "sti"])
    BY <1>1, <2>1 DEF FrameInv, Frame, Steps, IrqVectors
  <2> QED
    BY <1>1, <1>3, <1>4, <2>1, <2>2, <2>3, StepClosed DEF Steps
<1>11. CASE IsrHandler
  <2>1. /\ f.step = "handler" /\ f.int_no \notin IrqVectors
        /\ UNCHANGED <<control, irr, isr, routines, ticks, obf>>
    BY <1>2, <1>11 DEF IsrHandler, At, InIrq, controller, kernel
  <2>2. PICK s \in {"spin", "sti"} : StepTo(s) /\ (f.int_no < 32 => s = "spin")
    BY <1>2, <1>11 DEF IsrHandler
  <2>3. FrameInv([f EXCEPT !.step = s])
    BY <1>1, <2>1, <2>2 DEF FrameInv, Frame, Steps, IrqVectors
  <2>4. Unreturned([f EXCEPT !.step = s]) = {} /\ isr = {}
    BY <1>1, <2>1 DEF Unreturned, Frame
  <2> QED
    BY <1>1, <1>3, <1>4, <2>1, <2>2, <2>3, <2>4, StepClosed DEF Steps
<1>12. CASE Sti
  <2>1. /\ f.step = "sti" /\ StepTo("iret") /\ IFlag' = TRUE
        /\ UNCHANGED <<pc, idtr, gates, base, irr, isr, routines, ticks, obf>>
    BY <1>2, <1>12 DEF Sti, At, controller, kernel
  <2>2. FrameInv([f EXCEPT !.step = "iret"])
    BY <1>1, <2>1 DEF FrameInv, Frame, Steps, IrqVectors
  <2>3. Unreturned([f EXCEPT !.step = "iret"]) = {} /\ isr = {}
    BY <1>1, <2>1 DEF Unreturned, Frame
  <2> QED
    BY <1>1, <1>3, <1>4, <2>1, <2>2, <2>3, StepStep DEF Steps
<1>13. CASE Iret
  <2>1. frames' = <<>> /\ f.step = "iret"
    BY <1>1, <1>2, <1>13, LeaveToMain DEF Iret, At
  <2>2. UNCHANGED <<pc, idtr, gates, base, irr, isr, routines, ticks, obf>>
    BY <1>13 DEF Iret, controller, kernel
  <2>3. pc \notin Closed \union {"ps2_sti", "halted"}
    BY <1>1, <1>2 DEF IInv, StageInv
  <2>4. isr' = {}
    BY <1>1, <2>1, <2>2 DEF Unreturned
  <2>5. IFlag' \in BOOLEAN
    BY <1>2, <1>13 DEF Iret, IFOnExit, Frame
  <2>6. TypeOK'
    <3>1. frames' \in Seq(Frame)
      BY <2>1
    <3> QED
      BY <2>2, <2>5, <3>1 DEF IInv, TypeOK
  <2>7. StageInv'
    BY <2>2, <2>3 DEF IInv, StageInv, Closed
  <2> QED
    BY <2>1, <2>4, <2>6, <2>7 DEF IInv, StubInv
<1> QED
  BY <1>5, <1>6, <1>7, <1>8, <1>9, <1>10, <1>11, <1>12, <1>13 DEF Stub

LEMMA NextIInv ==
  ASSUME IInv, [Next]_vars
  PROVE  IInv'
<1>1. CASE UNCHANGED vars
  <2>1. UNCHANGED <<pc, IFlag, idtr, gates, base, irr, isr, frames, routines,
                    ticks, obf>>
    BY <1>1 DEF vars, control, controller, kernel
  <2> QED
    BY <2>1 DEF IInv, TypeOK, StageInv, StubInv
<1> QED
  BY <1>1, MainStep, InterruptStep, StubStep, EnvironmentStep DEF Next

\* The invariant of the dispatch, the boot and the controllers.
THEOREM Invariance == Spec => []IInv
BY InitIInv, NextIInv, PTL DEF Spec-----------------------------------------------------------------------------
(***************************************************************************)
(* The safety properties.                                                  *)
(***************************************************************************)

\* Every variable keeps its type: irq_routines is never indexed outside its
\* sixteen entries, and no stub has a number without a gate.
THEOREM TypeCorrect == Spec => []TypeOK
<1>1. IInv => TypeOK
  BY DEF IInv
<1> QED
  BY <1>1, Invariance, PTL

\* The end-of-interrupt commands of irq_handler retire exactly the bits the
\* stub owes, for every set of devices and every spurious request.
THEOREM InServiceCorrect == Spec => []InServiceMatchesFrame
<1>1. ASSUME IInv PROVE InServiceMatchesFrame
  <2>1. CASE frames = <<>> /\ isr = {}
    BY <2>1 DEF InServiceMatchesFrame
  <2>2. ASSUME NEW f \in Frame, frames = <<f>>, isr = Unreturned(f)
        PROVE  InServiceMatchesFrame
    <3>1. Len(frames) = 1 /\ frames[1] = f
      BY <2>2
    <3>2. {Unreturned(frames[i]) : i \in 1..Len(frames)} = {Unreturned(f)}
      BY <3>1
    <3> QED
      BY <2>2, <3>2 DEF InServiceMatchesFrame
  <2> QED
    BY <1>1, <2>1, <2>2 DEF IInv, StubInv
<1> QED
  BY <1>1, Invariance, PTL

\* No stub is entered inside another one, not even at the boundary between its STI
\* and its IRET.
THEOREM StubsDoNotNest == Spec => []NoNesting
<1>1. ASSUME IInv PROVE NoNesting
  <2>1. CASE frames = <<>>
    <3>1. Len(frames) <= 1
      BY <2>1
    <3> QED
      BY <2>1, <3>1, Zenon DEF NoNesting
  <2>2. ASSUME NEW f \in Frame, frames = <<f>>, IFlag <=> f.step = "iret"
        PROVE  NoNesting
    <3>1. Len(frames) <= 1 /\ Top = f
      BY <2>2, TopOfOne
    <3> QED
      BY <2>2, <3>1, Zenon DEF NoNesting
  <2> QED
    BY <1>1, <2>1, <2>2 DEF IInv, StubInv
<1> QED
  BY <1>1, Invariance, PTL

\* Interrupts are only ever enabled behind a loaded table with a gate of its own
\* for every line.
THEOREM GatesAreReady == Spec => []GateReady
<1>1. ASSUME IInv PROVE GateReady
  <2> SUFFICES ASSUME IFlag PROVE GateReady
    BY DEF GateReady
  <2>1. idtr /\ gates = PresentGates /\ base = [master |-> 32, slave |-> 40]
    BY <1>1 DEF IInv, StageInv, Closed
  <2>2. ASSUME NEW n \in 0..15
        PROVE  Vector(n) \in gates /\ Line(Vector(n)) = n
    BY <2>1, <2>2, VectorOfLine DEF PresentGates, IrqVectors
  <2> QED
    BY <2>1, <2>2 DEF GateReady
<1> QED
  BY <1>1, Invariance, PTL

\* The tick counter only changes inside one uninterrupted run of the timer's
\* handler.  The handler installed on line 0 is the timer's and on no other, so
\* that the line in service is line 0.
RoutineInv == \A n \in 0..15 :
  /\ routines[n] = "PIT_irq_handler" => n = 0
  /\ routines[n] = "keyboard_irq_handler" => n = 1

LEMMA RoutineInvariance == Spec => []RoutineInv
<1>1. Init => RoutineInv
  BY DEF Init, RoutineInv
<1>2. ASSUME IInv, RoutineInv, [Next]_vars PROVE RoutineInv'
  <2>1. routines' = routines => RoutineInv'
    BY <1>2 DEF RoutineInv
  <2>2. CASE InstallPitIrq \/ InstallKeyboardIrq
    BY <1>2, <2>2
    DEF InstallPitIrq, InstallKeyboardIrq, RoutineInv, IInv, TypeOK
  <2>3. ASSUME NEW n \in DriverLines,
               IrqInstallHandler(n) \/ IrqUninstallHandler(n)
        PROVE  RoutineInv'
    BY <1>2, <2>3 DEF IrqInstallHandler, IrqUninstallHandler, RoutineInv, IInv,
       TypeOK
  <2>4. Environment \/ Interrupt \/ Stub \/ UNCHANGED vars => routines' = routines
    BY DEF Environment, Interrupt, Stub, vars, kernel, PitPulse, KbdByte,
       DeviceRaise, Raise, Deliver, Spurious, SoftInterrupt, Enter, PitHandler,
       KeyboardHandler, KeyboardReread, OtherHandler, EoiSlave, EoiMaster,
       IsrHandler, Sti, Iret
  <2>5. CASE InitIDT_RemapPIC \/ InitIDT_SetGates \/ IDT_flush \/ InitPIT
             \/ Ps2Init_Cli \/ Ps2Init_Sti \/ MainReturn
    BY <2>1, <2>5 DEF kernel, InitIDT_RemapPIC, InitIDT_SetGates, IDT_flush,
       InitPIT, Ps2Init_Cli, Ps2Init_Sti, MainReturn
  <2> QED
    BY <1>2, <2>1, <2>2, <2>3, <2>4, <2>5 DEF Next, Main
<1> QED
  BY <1>1, <1>2, Invariance, PTL DEF Spec

\* ticks changes only in the timer's routine, which nothing interrupts.
THEOREM TicksAreExclusive == Spec => TickIsExclusive
<1>1. ASSUME IInv, RoutineInv, [Next]_vars, ticks' # ticks
      PROVE  0 \in isr /\ ~IFlag /\ Len(frames) = 1
  <2>1. PitHandler
    BY <1>1 DEF Next, Main, Interrupt, Environment, Stub, vars, kernel, PitPulse,
       KbdByte, DeviceRaise, Raise, Deliver, Spurious, SoftInterrupt, Enter,
       KeyboardHandler, KeyboardReread, OtherHandler, EoiSlave, EoiMaster,
       IsrHandler, Sti, Iret, InitIDT_RemapPIC, InitIDT_SetGates, IDT_flush,
       InitPIT,
       InstallPitIrq, Ps2Init_Cli, Ps2Init_Sti, InstallKeyboardIrq,
       IrqInstallHandler, IrqUninstallHandler, MainReturn
  <2>2. PICK f \in Frame : /\ frames = <<f>> /\ FrameInv(f)
                           /\ IFlag <=> f.step = "iret"
                           /\ isr = Unreturned(f)
    BY <1>1, <2>1 DEF IInv, StubInv, PitHandler, At
  <2>3. /\ Top = f /\ Len(frames) = 1
        /\ f.step = "handler" /\ f.int_no \in IrqVectors
        /\ routines[Line(f.int_no)] = "PIT_irq_handler"
    BY <2>1, <2>2, TopOfOne DEF PitHandler, At, InIrq
  <2>4. Line(f.int_no) = 0
    BY <1>1, <2>3 DEF RoutineInv, Line, IrqVectors
  <2>5. isr = InServiceBits(0)
    BY <2>2, <2>3, <2>4 DEF FrameInv, SpuriousLines, Unreturned
  <2> QED
    BY <2>2, <2>3, <2>5 DEF InServiceBits
<1>2. IInv /\ RoutineInv /\ [Next]_vars =>
        [ticks' # ticks => 0 \in isr /\ ~IFlag /\ Len(frames) = 1]_vars
  BY <1>1
<1> QED
  BY <1>2, Invariance, RoutineInvariance, PTL DEF Spec, TickIsExclusive
\* What the keyboard adds: its handler is installed last, only its frames read
\* port 0x60 twice, and a byte it holds has been announced.
ByteInService ==
  \E f \in Frame : /\ frames = <<f>>
                   /\ f.int_no = 33
                   /\ f.step \in {"handler", "reread"}

KeyboardInv ==
  /\ pc \notin {"run", "halted"} => routines[1] # "keyboard_irq_handler"
  /\ \A f \in Frame : frames = <<f>> /\ f.step = "reread" => f.int_no = 33
  /\ ~EarlyKeys /\ obf => /\ routines[1] = "keyboard_irq_handler"
                          /\ 1 \in irr \/ ByteInService

LEMMA KeyboardInvariance == Spec => []KeyboardInv
<1>1. Init => KeyboardInv
  BY DEF Init, KeyboardInv
<1>2. ASSUME IInv, RoutineInv, KeyboardInv, [Next]_vars PROVE KeyboardInv'
  <2>1. CASE Main
    <3>1. /\ frames = <<>> /\ frames' = <<>> /\ obf' = obf
      BY <2>1 DEF Main, Goto, InMain, InitIDT_RemapPIC, InitIDT_SetGates,
         IDT_flush, InitPIT, InstallPitIrq, Ps2Init_Cli, Ps2Init_Sti,
         InstallKeyboardIrq, IrqInstallHandler, IrqUninstallHandler, MainReturn
    <3>2. pc = "remap" \/ irr' = irr
      BY <2>1 DEF Main, Goto, InitIDT_RemapPIC, InitIDT_SetGates, controller,
         IDT_flush, InitPIT, InstallPitIrq, Ps2Init_Cli, Ps2Init_Sti,
         InstallKeyboardIrq, IrqInstallHandler, IrqUninstallHandler, MainReturn
    <3>3. \/ routines'[1] = routines[1] /\ (pc \in {"run", "halted"} <=> pc' \in {"run", "halted"})
          \/ routines'[1] = "keyboard_irq_handler" /\ pc' = "run"
          \/ routines'[1] = routines[1] /\ pc' = "halted"
      <4>1. CASE InstallKeyboardIrq
        BY <1>2, <4>1 DEF InstallKeyboardIrq, Goto, IInv, TypeOK
      <4>2. CASE InstallPitIrq
        BY <1>2, <4>2 DEF InstallPitIrq, Goto, IInv, TypeOK
      <4>3. ASSUME NEW n \in DriverLines,
                   IrqInstallHandler(n) \/ IrqUninstallHandler(n)
            PROVE  routines'[1] = routines[1] /\ pc = "run" /\ pc' = "run"
        BY <1>2, <4>3, DriverLinesAssumption DEF DriverLinesAssumption, IInv,
           TypeOK, IrqInstallHandler, IrqUninstallHandler, Goto
      <4>4. CASE \/ InitIDT_RemapPIC \/ InitIDT_SetGates \/ IDT_flush \/ InitPIT
                 \/ Ps2Init_Cli \/ Ps2Init_Sti \/ MainReturn
        BY <4>4 DEF Goto, kernel, InitIDT_RemapPIC, InitIDT_SetGates, IDT_flush,
           InitPIT, Ps2Init_Cli, Ps2Init_Sti, MainReturn
      <4> QED
        BY <2>1, <4>1, <4>2, <4>3, <4>4 DEF Main
    <3> QED
      BY <1>2, <3>1, <3>2, <3>3 DEF KeyboardInv, ByteInService
  <2>2. CASE Environment
    <3>1. UNCHANGED <<pc, routines, frames>> /\ irr \subseteq irr'
      BY <2>2 DEF Environment, PitPulse, KbdByte, DeviceRaise, Raise, control,
         kernel
    <3>2. \/ obf' = obf
          \/ 1 \in irr' /\ (EarlyKeys \/ routines[1] = "keyboard_irq_handler")
      BY <2>2 DEF Environment, PitPulse, KbdByte, DeviceRaise, Raise
    <3> QED
      BY <1>2, <3>1, <3>2 DEF KeyboardInv, ByteInService
  <2>3. CASE UNCHANGED vars
    BY <1>2, <2>3 DEF vars, control, controller, kernel, KeyboardInv,
       ByteInService
  <2>4. CASE Interrupt
    <3>1. PICK v, r : Enter(v, r, "handler")
      BY <2>4 DEF Interrupt, Deliver, Spurious, SoftInterrupt
    <3>2. frames = <<>>
      BY <1>2, <2>4, InterruptibleState DEF Interrupt, Deliver, Spurious,
         SoftInterrupt, Goto, InMain
    <3>3. frames' = <<[int_no |-> v, real |-> r, saved_if |-> IFlag,
                       step |-> "handler"]>>
      BY <3>1, <3>2, EnterFromMain
    <3>4. UNCHANGED <<pc, routines, obf>>
      BY <3>1 DEF Enter, kernel
    <3>5. 1 \in irr => 1 \in irr' \/ ByteInService'
      <4>1. ASSUME NEW n \in DeviceLines, Deliver(n), 1 \in irr, 1 \notin irr'
            PROVE  ByteInService'
        <5>1. n = 1 /\ Vector(1) = 33
          BY <1>2, <4>1, InterruptibleState
          DEF Deliver, Vector, SlaveLines
        <5>2. frames' = <<[int_no |-> 33, real |-> TRUE, saved_if |-> IFlag,
                           step |-> "handler"]>>
          BY <3>2, <4>1, <5>1, EnterFromMain DEF Deliver
        <5>3. IFlag \in BOOLEAN
          BY <1>2 DEF IInv, TypeOK
        <5>4. [int_no |-> 33, real |-> TRUE, saved_if |-> IFlag,
               step |-> "handler"] \in Frame
          BY <5>3 DEF Frame, Steps, IrqVectors
        <5> QED
          BY <5>2, <5>4 DEF ByteInService
      <4>2. \/ irr' = irr
            \/ \E n \in DeviceLines : Deliver(n)
        BY <2>4 DEF Interrupt, Spurious, SoftInterrupt, controller
      <4> QED
        BY <4>1, <4>2
    <3>6. \A f \in Frame : frames' = <<f>> => f.step = "handler"
      BY <3>3
    <3>7. ~ByteInService
      BY <3>2 DEF ByteInService
    <3> QED
      BY <1>2, <3>4, <3>5, <3>6, <3>7 DEF KeyboardInv
  <2>5. CASE Stub
    <3>1. PICK f \in Frame : frames = <<f>> /\ FrameInv(f)
      BY <1>2, <2>5 DEF IInv, StubInv, Stub, PitHandler, KeyboardHandler,
         KeyboardReread, OtherHandler, EoiSlave, EoiMaster, IsrHandler, Sti, Iret, At
    <3>2. Top = f
      BY <3>1, TopOfOne
    <3>3. UNCHANGED <<pc, routines>>
      BY <2>5 DEF Stub, PitHandler, KeyboardHandler, KeyboardReread,
         OtherHandler, EoiSlave, EoiMaster, IsrHandler, Sti, Iret, control, kernel
    <3>4. CASE KeyboardHandler \/ KeyboardReread
      <4>1. obf' = FALSE
        BY <3>4 DEF KeyboardHandler, KeyboardReread, BufferAfterRead
      <4>2. f.int_no = 33
        BY <1>2, <3>1, <3>2, <3>4 DEF KeyboardHandler, KeyboardReread, At, InIrq,
           RoutineInv, KeyboardInv, Line, IrqVectors
      <4>3. PICK s \in Steps : StepTo(s)
        BY <3>4 DEF KeyboardHandler, KeyboardReread, Steps
      <4>4. \A g \in Frame : frames' = <<g>> => g.int_no = 33
        <5>1. frames' = <<[f EXCEPT !.step = s]>>
          BY <3>1, <4>3, StepOfOne
        <5>2. [f EXCEPT !.step = s].int_no = 33
          BY <4>2 DEF Frame
        <5> QED
          BY <5>1, <5>2
      <4> QED
        BY <1>2, <3>3, <4>1, <4>4 DEF KeyboardInv
    <3>5. CASE Iret
      <4>1. frames' = <<>> /\ irr' = irr /\ obf' = obf /\ f.step = "iret"
        BY <3>1, <3>2, <3>5, LeaveToMain DEF Iret, At, controller
      <4>2. ~ByteInService
        BY <3>1, <4>1 DEF ByteInService
      <4> QED
        BY <1>2, <3>3, <4>1, <4>2 DEF KeyboardInv
    <3>6. CASE PitHandler \/ OtherHandler \/ EoiSlave \/ EoiMaster \/ IsrHandler
               \/ Sti
      <4>1. irr' = irr /\ obf' = obf
        BY <3>6 DEF PitHandler, OtherHandler, EoiSlave, EoiMaster, IsrHandler,
           Sti, controller
      <4>2. PICK s \in Steps \ {"reread"} : StepTo(s)
        BY <3>6 DEF PitHandler, OtherHandler, EoiSlave, EoiMaster, IsrHandler,
           Sti, Steps
      <4>3. \A g \in Frame : frames' = <<g>> => g.step # "reread"
        <5>1. frames' = <<[f EXCEPT !.step = s]>>
          BY <3>1, <4>2, StepOfOne
        <5>2. [f EXCEPT !.step = s].step = s
          BY DEF Frame
        <5> QED
          BY <4>2, <5>1, <5>2
      <4>4. routines[1] = "keyboard_irq_handler" => ~ByteInService
        BY <3>1, <3>2, <3>6 DEF ByteInService, PitHandler, OtherHandler,
           EoiSlave, EoiMaster, IsrHandler, Sti, At, InIrq, Line, IrqVectors
      <4> QED
        BY <1>2, <3>3, <4>1, <4>3, <4>4 DEF KeyboardInv
    <3> QED
      BY <2>5, <3>4, <3>5, <3>6 DEF Stub
  <2> QED
    BY <1>2, <2>1, <2>2, <2>3, <2>4, <2>5 DEF Next
<1> QED
  BY <1>1, <1>2, Invariance, RoutineInvariance, PTL DEF Spec

\* If no key is pressed before install_keyboard_irq, a byte waiting in the
\* keyboard controller always has a request or a handler on its way to it.
THEOREM BytesAreAnnounced ==
  ASSUME EarlyKeys = FALSE
  PROVE  Spec => []ByteAnnounced
<1>1. ASSUME KeyboardInv PROVE ByteAnnounced
  <2> SUFFICES ASSUME obf, 1 \notin irr
               PROVE  \E i \in 1..Len(frames) :
                         /\ frames[i].int_no = 33
                         /\ frames[i].step \in {"handler", "reread"}
    BY DEF ByteAnnounced
  <2>1. ByteInService
    BY <1>1 DEF KeyboardInv
  <2> QED
    BY <2>1 DEF ByteInService
<1> QED
  BY <1>1, KeyboardInvariance, PTL
-----------------------------------------------------------------------------
\* A kernel that has halted or reported an exception never runs a handler again,
\* whatever the devices do.
THEOREM StopIsFinal == Spec => StoppedForGood
<1> DEFINE Quiet == /\ Stopped'
                    /\ UNCHANGED <<IFlag, isr, ticks, routines>>
                    /\ \A i \in 1..Len(frames') : frames'[i].int_no < 32
<1>1. ASSUME IInv, [Next]_vars, Stopped
      PROVE  Quiet
  <2>1. PICK fs : frames = fs /\ (fs = <<>> \/ \E f \in Frame : fs = <<f>> /\ FrameInv(f))
    BY <1>1 DEF IInv, StubInv
  <2>3. frames # <<>> => \E f \in Frame : frames = <<f>> /\ FrameInv(f) /\ f.int_no < 32
    <3>1. frames # <<>> => Top.int_no < 32
      BY <1>1 DEF IInv, StageInv, Stopped, Crashed
    <3> QED
      BY <2>1, <3>1, TopOfOne
  <2>2. ~IFlag
    <3>1. CASE frames = <<>>
      BY <1>1, <3>1 DEF IInv, StageInv, Stopped, Crashed
    <3>2. CASE frames # <<>>
      <4>1. PICK f \in Frame : /\ frames = <<f>> /\ FrameInv(f)
                               /\ IFlag <=> f.step = "iret"
        BY <1>1, <3>2 DEF IInv, StubInv
      <4>2. f.int_no < 32
        BY <1>1, <3>2, <4>1, TopOfOne DEF IInv, StageInv, Stopped, Crashed
      <4> QED
        BY <4>1, <4>2 DEF FrameInv
    <3> QED
      BY <3>1, <3>2
  <2>4. \A i \in 1..Len(frames) : frames[i].int_no < 32
    BY <2>3
  <2>5. ~Main
    BY <1>1, <2>3 DEF Main, Goto, InMain, Stopped, Crashed, InitIDT_RemapPIC,
       InitIDT_SetGates, IDT_flush, InitPIT, InstallPitIrq, Ps2Init_Cli,
       Ps2Init_Sti, InstallKeyboardIrq, IrqInstallHandler, IrqUninstallHandler,
       MainReturn
  <2>6. ~Interrupt
    BY <1>1, <2>2, <2>3 DEF Interrupt, Deliver, Spurious, CanInterrupt,
       SoftInterrupt, Goto, InMain, Stopped, Crashed
  <2>7. CASE Stub
    <3>1. PICK f \in Frame : frames = <<f>> /\ FrameInv(f) /\ f.int_no < 32
      BY <2>3, <2>7 DEF Stub, PitHandler, KeyboardHandler, KeyboardReread,
         OtherHandler, EoiSlave, EoiMaster, IsrHandler, Sti, Iret, At
    <3>2. Top = f /\ f.int_no \notin IrqVectors
      BY <3>1, TopOfOne DEF IrqVectors
    <3>3. f.step \in {"handler", "spin"}
      BY <3>1, <3>2 DEF FrameInv
    <3>4. IsrHandler
      BY <2>7, <3>2, <3>3 DEF Stub, PitHandler, KeyboardHandler, KeyboardReread,
         OtherHandler, EoiSlave, EoiMaster, Sti, Iret, At, InIrq
    <3>5. frames' = <<[f EXCEPT !.step = "spin"]>>
      BY <3>1, <3>2, <3>4, StepOfOne DEF IsrHandler, Steps
    <3> DEFINE g == [f EXCEPT !.step = "spin"]
    <3>6. g.int_no < 32
      BY <3>1 DEF Frame
    <3>7. Crashed'
      BY <3>5, <3>6 DEF Crashed, Top
    <3>8. \A i \in 1..Len(frames') : frames'[i].int_no < 32
      <4>1. frames' = <<g>>
        BY <3>5
      <4> HIDE DEF g
      <4> QED
        BY <3>6, <4>1
    <3> QED
      BY <3>4, <3>7, <3>8 DEF IsrHandler, control, controller, kernel, Stopped
  <2>8. CASE Environment \/ UNCHANGED vars
    <3>1. UNCHANGED <<pc, IFlag, isr, ticks, routines, frames>>
      BY <2>8 DEF Environment, PitPulse, KbdByte, DeviceRaise, Raise, vars,
         control, controller, kernel
    <3>2. Stopped'
      BY <1>1, <3>1 DEF Stopped, Crashed, Top
    <3>3. \A i \in 1..Len(frames') : frames'[i].int_no < 32
      BY <2>4, <3>1
    <3> QED
      BY <3>1, <3>2, <3>3
  <2> QED
    BY <1>1, <2>5, <2>6, <2>7, <2>8 DEF Next
<1>2. IInv /\ [Next]_vars => [Stopped => Quiet]_vars
  BY <1>1
<1> QED
  BY <1>2, Invariance, PTL DEF Spec, StoppedForGood
-----------------------------------------------------------------------------
(***************************************************************************)
(* The dispatcher implements IrqService.                                   *)
(***************************************************************************)

LEMMA MainMapping ==
  ASSUME frames = <<>>
  PROVE  /\ ServedLine = -1
         /\ ~Crashed
         /\ Stopped <=> pc = "halted"
BY DEF ServedLine, InMain, Crashed, Stopped

LEMMA StubMapping ==
  ASSUME NEW f \in Frame, frames = <<f>>
  PROVE  /\ ServedLine = IF f.int_no \in IrqVectors THEN Line(f.int_no) ELSE -1
         /\ Crashed <=> f.int_no < 32
BY TopOfOne DEF ServedLine, InMain, InIrq, Crashed

\* A controller with nothing in service signals its request of highest priority.
LEMMA FirstInPriority ==
  ASSUME NEW n, isr = {}, Signalled(irr, isr, n)
  PROVE  n \in irr /\ \A m \in irr : ~Outranks(m, n)
BY DEF Signalled, Blocked

LEMMA RefinementStep ==
  ASSUME IInv, IInv', KeyboardInv, [Next]_vars
  PROVE  [Service!Next]_<<Phase, irr, ServedLine>>
<1> USE DEF Service!Next
<1>1. CASE Main
  <2>1. frames = <<>> /\ frames' = <<>>
    BY <1>1 DEF Main, Goto, InMain, InitIDT_RemapPIC, InitIDT_SetGates,
       IDT_flush, InitPIT, InstallPitIrq, Ps2Init_Cli, Ps2Init_Sti,
       InstallKeyboardIrq, IrqInstallHandler, IrqUninstallHandler, MainReturn
  <2>2. /\ ServedLine = -1 /\ (Stopped <=> pc = "halted")
        /\ ServedLine' = -1 /\ (Stopped' <=> pc' = "halted")
    BY <2>1, MainMapping DEF ServedLine, InMain, Crashed, Stopped
  <2>3. CASE InitIDT_RemapPIC
    BY <2>2, <2>3 DEF InitIDT_RemapPIC, Goto, Phase, Service!Forget
  <2>4. CASE IDT_flush
    BY <2>2, <2>4 DEF IDT_flush, Goto, controller, Phase, Service!Open
  <2>5. CASE MainReturn
    BY <2>2, <2>5 DEF MainReturn, Goto, controller, Phase, Service!Stop
  <2>6. CASE \/ InitIDT_SetGates \/ InitPIT \/ InstallPitIrq \/ Ps2Init_Cli
             \/ Ps2Init_Sti \/ InstallKeyboardIrq
             \/ \E n \in DriverLines : IrqInstallHandler(n) \/ IrqUninstallHandler(n)
    <3>1. UNCHANGED <<Phase, irr>>
      BY <2>2, <2>6 DEF InitIDT_SetGates, InitPIT, InstallPitIrq, Ps2Init_Cli,
         Ps2Init_Sti, InstallKeyboardIrq, IrqInstallHandler,
         IrqUninstallHandler, Goto, controller, Phase
    <3> QED
      BY <2>2, <3>1
  <2> QED
    BY <1>1, <2>3, <2>4, <2>5, <2>6 DEF Main
<1>2. ASSUME NEW n \in DeviceLines, Deliver(n)
      PROVE  Service!Start(n)
  <2>1. /\ frames = <<>> /\ isr = {}
        /\ pc \notin Closed \union {"ps2_sti", "halted"}
        /\ base = [master |-> 32, slave |-> 40]
    BY <1>2, InterruptibleState DEF Deliver
  <2>2. n \in 0..15 /\ Vector(n) \in IrqVectors /\ Line(Vector(n)) = n
    <3>1. n \in 0..15
      BY <1>2 DEF DeviceLines, MasterLines, SlaveLines
    <3> QED
      BY <2>1, <3>1, VectorOfLine
  <2> DEFINE f == [int_no |-> Vector(n), real |-> TRUE, saved_if |-> IFlag,
                   step |-> "handler"]
  <2>3. frames' = <<f>>
    BY <1>2, <2>1, EnterFromMain DEF Deliver
  <2>4. Top' = f /\ frames' # <<>>
    BY <2>3 DEF Top
  <2>5. ServedLine' = n
    BY <2>2, <2>4 DEF ServedLine, InMain, InIrq
  <2>6. ~Crashed' /\ pc' = pc
    BY <1>2, <2>2, <2>4 DEF Crashed, IrqVectors, Deliver, Enter
  <2>7. Phase = "open" /\ Phase' = "open" /\ ServedLine = -1
    BY <2>1, <2>6, MainMapping DEF Phase, Closed, Stopped
  <2>8. n \in irr /\ \A m \in irr : ~Outranks(m, n)
    BY <1>2, <2>1, FirstInPriority DEF Deliver
  <2>9. irr' = irr \ {n}
    BY <1>2 DEF Deliver
  <2> QED
    BY <2>5, <2>7, <2>8, <2>9 DEF Service!Start
<1>3. ASSUME NEW n \in SpuriousLines, Spurious(n)
      PROVE  Service!StartSpurious(n)
  <2>1. /\ frames = <<>>
        /\ pc \notin Closed \union {"ps2_sti", "halted"}
        /\ base = [master |-> 32, slave |-> 40]
    BY <1>3, InterruptibleState DEF Spurious
  <2>2. n \in 0..15 /\ Vector(n) \in IrqVectors /\ Line(Vector(n)) = n
    <3>1. n \in 0..15
      BY <1>3 DEF SpuriousLines
    <3> QED
      BY <2>1, <3>1, VectorOfLine
  <2> DEFINE f == [int_no |-> Vector(n), real |-> FALSE, saved_if |-> IFlag,
                   step |-> "handler"]
  <2>3. frames' = <<f>>
    BY <1>3, <2>1, EnterFromMain DEF Spurious
  <2>4. Top' = f /\ frames' # <<>>
    BY <2>3 DEF Top
  <2>5. ServedLine' = n
    BY <2>2, <2>4 DEF ServedLine, InMain, InIrq
  <2>6. ~Crashed' /\ pc' = pc
    BY <1>3, <2>2, <2>4 DEF Crashed, IrqVectors, Spurious, Enter
  <2>7. Phase = "open" /\ Phase' = "open" /\ ServedLine = -1
    BY <2>1, <2>6, MainMapping DEF Phase, Closed, Stopped
  <2> QED
    BY <1>3, <2>5, <2>7 DEF Spurious, Service!StartSpurious
<1>4. ASSUME NEW v \in SoftVectors, SoftInterrupt(v)
      PROVE  Service!Stop \/ UNCHANGED <<Phase, irr, ServedLine>>
  <2>1. frames = <<>> /\ pc = "run" /\ pc' = "run" /\ v \notin IrqVectors
    BY <1>4, SoftAssumption
    DEF SoftInterrupt, Goto, InMain, SoftAssumption, IrqVectors
  <2> DEFINE f == [int_no |-> v, real |-> TRUE, saved_if |-> IFlag,
                   step |-> "handler"]
  <2>2. Top'.int_no = v /\ frames' # <<>>
    <3>1. frames' = <<f>>
      BY <1>4, <2>1, EnterFromMain DEF SoftInterrupt
    <3>2. Top' = f /\ frames' # <<>>
      BY <3>1 DEF Top
    <3> QED
      BY <3>2
  <2>3. ServedLine = -1 /\ ServedLine' = -1 /\ irr' = irr /\ Phase = "open"
    BY <1>4, <2>1, <2>2, MainMapping
    DEF ServedLine, InIrq, SoftInterrupt, controller, Phase
  <2>4. Crashed' <=> v < 32
    BY <2>2 DEF Crashed
  <2>5. Phase' = IF v < 32 THEN "stopped" ELSE "open"
    BY <2>1, <2>4 DEF Phase, Stopped
  <2> QED
    BY <2>3, <2>5 DEF Service!Stop
<1>5. CASE Stub
  <2>1. PICK f \in Frame : frames = <<f>> /\ FrameInv(f)
    BY <1>5 DEF IInv, StubInv, Stub, PitHandler, KeyboardHandler,
       KeyboardReread, OtherHandler, EoiSlave, EoiMaster, IsrHandler, Sti, Iret, At
  <2>2. Top = f /\ pc' = pc
    BY <1>5, <2>1, TopOfOne DEF Stub, PitHandler, KeyboardHandler,
       KeyboardReread, OtherHandler, EoiSlave, EoiMaster, IsrHandler, Sti, Iret,
       control
  <2>3. pc \notin Closed \union {"ps2_sti", "halted"}
    BY <2>1 DEF IInv, StageInv
  <2>4. CASE Iret
    <3>1. frames' = <<>> /\ irr' = irr /\ f.step = "iret"
      BY <2>1, <2>2, <2>4, LeaveToMain DEF Iret, At, controller
    <3>2. ~Crashed /\ ~Crashed' /\ ServedLine' = -1
      BY <2>1, <3>1, StubMapping DEF FrameInv, Frame, Crashed, ServedLine, InMain
    <3>3. Phase' = Phase
      BY <2>2, <3>2 DEF Phase, Stopped
    <3> QED
      BY <3>1, <3>2, <3>3 DEF Service!Finish
  <2>5. CASE Stub /\ ~Iret
    <3>1. PICK s \in Steps : StepTo(s)
      BY <2>5 DEF Stub, PitHandler, KeyboardHandler, KeyboardReread,
         OtherHandler, EoiSlave, EoiMaster, IsrHandler, Sti, Steps
    <3> DEFINE g == [f EXCEPT !.step = s]
    <3>2. frames' = <<g>> /\ g.int_no = f.int_no
      BY <2>1, <3>1, StepOfOne DEF Frame
    <3>3. Top' = g /\ frames' # <<>>
      BY <3>2 DEF Top
    <3>4. Crashed' = Crashed /\ ServedLine' = ServedLine
      BY <2>1, <2>2, <3>2, <3>3 DEF Crashed, ServedLine, InMain, InIrq
    <3>5. Phase' = Phase
      BY <2>2, <3>4 DEF Phase, Stopped
    <3>6. CASE irr' = irr
      BY <3>4, <3>5, <3>6
    <3>7. CASE irr' # irr
      <4>1. irr' = irr \ {1} /\ f.step = "reread"
        BY <2>2, <2>5, <3>7 DEF Stub, PitHandler, KeyboardHandler,
           KeyboardReread, OtherHandler, EoiSlave, EoiMaster, IsrHandler, Sti,
           At, controller
      <4>2. ServedLine = 1
        BY <2>1, <4>1, StubMapping DEF KeyboardInv, IrqVectors, Line
      <4> QED
        BY <3>4, <3>5, <4>1, <4>2 DEF Service!Absorb
    <3> QED
      BY <3>6, <3>7
  <2> QED
    BY <1>5, <2>4, <2>5
<1>6. CASE Environment
  <2>1. UNCHANGED <<pc, frames>>
    BY <1>6 DEF Environment, PitPulse, KbdByte, DeviceRaise, Raise, control
  <2>2. UNCHANGED <<Phase, ServedLine>>
    BY <2>1 DEF Phase, ServedLine, Stopped, Crashed, InMain, InIrq, Top
  <2>3. PICK n \in {0, 1} \union Devices : irr' = irr \union {n}
    BY <1>6 DEF Environment, PitPulse, KbdByte, DeviceRaise, Raise
  <2>4. n \in DeviceLines
    BY <2>3, DevicesAssumption
    DEF DevicesAssumption, DeviceLines, MasterLines, SlaveLines, Cascade
  <2> QED
    BY <2>2, <2>3, <2>4 DEF Service!Request
<1>7. CASE UNCHANGED vars
  BY <1>7 DEF vars, control, controller, Phase, ServedLine, Stopped, Crashed,
     InMain, InIrq, Top
<1> QED
  BY <1>1, <1>2, <1>3, <1>4, <1>5, <1>6, <1>7 DEF Next, Interrupt

\* The dispatcher, with its flags, gates, frames and in-service bits, implements
\* the service that has none of them.
THEOREM Refinement == Spec => ImplementsService
<1>1. Init => Service!Init
  <2> SUFFICES ASSUME Init PROVE Service!Init
    OBVIOUS
  <2>1. irr \subseteq DeviceLines
    BY InitIInv DEF IInv, TypeOK
  <2>2. Phase = "boot" /\ ServedLine = -1
    BY MainMapping DEF Init, Phase
  <2> QED
    BY <2>1, <2>2 DEF Service!Init
<1>2. IInv /\ IInv' /\ KeyboardInv /\ [Next]_vars =>
        [Service!Next]_<<Phase, irr, ServedLine>>
  BY RefinementStep
<1> QED
  BY <1>1, <1>2, Invariance, KeyboardInvariance, PTL
  DEF Spec, ImplementsService, Service!Spec
=============================================================================
