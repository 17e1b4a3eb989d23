---------------------------------- MODULE Pci ----------------------------------
(* The walk over the PCI buses (src/Drivers/PCI/pci.c), on any machine: what   *)
(* answers to a configuration read is a constant of the behaviour, and may be  *)
(* any tree of bridges, loops included. The recursion checkBus - checkDevice - *)
(* checkFunction - checkBus is a stack of the loops it leaves open. Nothing in *)
(* the kernel calls checkAllBuses yet.                                         *)
EXTENDS Naturals, Sequences, FiniteSets

CONSTANTS
    Devices,     \* devices of a bus: 32
    Functions,   \* functions of a device, and host controllers: 8
    Machines,    \* what may be there: functions from <<bus, device, function>> to registers
    MaxDepth     \* bound: loops open at a time

\* The double words of the configuration space the walk reads.
Offsets == {0, 8, 12, 24}
Byte == {n \in Nat : n < 256}
Registers == [Offsets -> [1..4 -> Byte]]

ASSUME SizesAssumption ==
    Devices \in Nat \ {0} /\ Functions \in Nat \ {0} /\ Functions <= 256 /\ MaxDepth \in Nat \ {0}

ASSUME MachinesAssumption ==
    \A m \in Machines : \A f \in DOMAIN m : m[f] \in Registers

VARIABLES
    machine,      \* what is there
    vendorID,     \* static: the last device's is 0xFFFF or not
    headerType,   \* static
    host,         \* the loop of checkAllBuses: its next function, once it has begun
    walk,         \* "start", "hosts" or "end": where checkAllBuses is
    stack,        \* the loops open, the innermost last
    visits        \* history: the functions checkFunction was called for, in order

vars == <<machine, vendorID, headerType, host, walk, stack, visits>>

-------------------------------------------------------------------------------
(* Configuration reads. Where nothing is, every bit reads as one.              *)
DWord(bus, device, function, offset) ==
    IF <<bus, device, function>> \in DOMAIN machine
    THEN machine[<<bus, device, function>>][offset - (offset % 4)]
    ELSE [k \in 1..4 |-> 255]

\* mutant of pciConfigReadByte: the byte the offset names.
ByteAtOffset(bus, device, function, offset) ==
    DWord(bus, device, function, offset)[1 + (offset % 4)]

\* The low byte of the double word, whatever the low bits of the offset.
pciConfigReadByte(bus, device, function, offset) ==
    DWord(bus, device, function, offset)[1]

getVendorID(bus, device, function) ==
    LET d == DWord(bus, device, function, 0) IN d[1] + 256 * d[2]

getHeaderType(bus, device, function) == DWord(bus, device, function, 12)[3]

getBaseClass(bus, device, function) == pciConfigReadByte(bus, device, function, 11)

getSubClass(bus, device, function) == pciConfigReadByte(bus, device, function, 10)

\* The bit of several functions: & 0x80.
Several(header) == header >= 128

getSecondaryBus(bus, device, function) ==
    IF Several(pciConfigReadByte(bus, device, function, 14))
    THEN pciConfigReadByte(bus, device, function, 25)
    ELSE 255

NoVendor == 65535

Places == Byte \X Nat \X Nat

-------------------------------------------------------------------------------
(* The loops: bus and device of checkBus, function of checkDevice, and which   *)
(* line of checkDevice comes next.                                             *)
Loop == [bus : Byte, device : 0..Devices, function : 1..Functions,
         next : {"vendor", "header", "functions"}]

OpenLoop(bus) == [bus |-> bus, device |-> 0, function |-> 1, next |-> "vendor"]

Top == stack[Len(stack)]

\* The stack with the innermost loop changed.
With(loop) == [stack EXCEPT ![Len(stack)] = loop]

NextDevice ==
    [bus |-> Top.bus, device |-> Top.device + 1, function |-> 1, next |-> "vendor"]

\* checkFunction, called from the innermost loop, which goes on with loop.
checkFunction(function, loop) ==
    LET bus == Top.bus
        device == Top.device
        isBridge == getBaseClass(bus, device, function) = 6
                    /\ getSubClass(bus, device, function) = 4
    IN  /\ visits' = Append(visits, <<bus, device, function>>)
        /\ isBridge => Len(stack) < MaxDepth
        /\ stack' = IF isBridge
                    THEN Append(With(loop), OpenLoop(getSecondaryBus(bus, device, function)))
                    ELSE With(loop)

InLoop(next) == stack # << >> /\ Top.device < Devices /\ Top.next = next

\* mutant of CheckVendor: a device that is not there ends the bus.
CheckVendorEndsBus ==
    /\ InLoop("vendor")
    /\ vendorID' = getVendorID(Top.bus, Top.device, 0)
    /\ IF vendorID' = NoVendor
       THEN stack' = With([Top EXCEPT !.device = Devices]) /\ visits' = visits
       ELSE checkFunction(0, [Top EXCEPT !.next = "header"])
    /\ UNCHANGED <<machine, headerType, host, walk>>

CheckVendor ==
    /\ InLoop("vendor")
    /\ vendorID' = getVendorID(Top.bus, Top.device, 0)
    /\ IF vendorID' = NoVendor
       THEN stack' = With(NextDevice) /\ visits' = visits
       ELSE checkFunction(0, [Top EXCEPT !.next = "header"])
    /\ UNCHANGED <<machine, headerType, host, walk>>

CheckHeader ==
    /\ InLoop("header")
    /\ headerType' = getHeaderType(Top.bus, Top.device, 0)
    /\ stack' = IF Several(headerType')
                THEN With([Top EXCEPT !.next = "functions"]) ELSE With(NextDevice)
    /\ UNCHANGED <<machine, vendorID, host, walk, visits>>

CheckNextFunction ==
    /\ InLoop("functions")
    /\ IF Top.function = Functions
       THEN stack' = With(NextDevice) /\ visits' = visits
       ELSE LET loop == [Top EXCEPT !.function = @ + 1]
            IN  IF getVendorID(Top.bus, Top.device, Top.function) = NoVendor
                THEN stack' = With(loop) /\ visits' = visits
                ELSE checkFunction(Top.function, loop)
    /\ UNCHANGED <<machine, vendorID, headerType, host, walk>>

\* checkBus returns, to the checkFunction that called it or to checkAllBuses.
EndBus ==
    /\ stack # << >> /\ Top.device = Devices
    /\ stack' = SubSeq(stack, 1, Len(stack) - 1)
    /\ UNCHANGED <<machine, vendorID, headerType, host, walk, visits>>

\* checkAllBuses: one host controller, or a loop over several.
CheckHost ==
    /\ walk = "start"
    /\ headerType' = getHeaderType(0, 0, 0)
    /\ IF Several(headerType')
       THEN walk' = "hosts" /\ stack' = stack
       ELSE walk' = "end" /\ stack' = << OpenLoop(0) >>
    /\ UNCHANGED <<machine, vendorID, host, visits>>

\* The loop is left at the first function that is there.
CheckNextHost ==
    /\ walk = "hosts" /\ stack = << >>
    /\ IF host = Functions \/ getVendorID(0, 0, host) # NoVendor
       THEN walk' = "end" /\ UNCHANGED <<host, stack>>
       ELSE /\ host' = host + 1
            /\ stack' = << OpenLoop(host) >>
            /\ walk' = walk
    /\ UNCHANGED <<machine, vendorID, headerType, visits>>

Init ==
    /\ machine \in Machines
    /\ vendorID = 0 /\ headerType = 0 /\ host = 0
    /\ walk = "start" /\ stack = << >> /\ visits = << >>

Next == \/ CheckHost \/ CheckNextHost \/ CheckVendor \/ CheckHeader
        \/ CheckNextFunction \/ EndBus

Spec == Init /\ [][Next]_vars /\ WF_vars(Next)

-------------------------------------------------------------------------------
TypeOK ==
    /\ machine \in Machines
    /\ vendorID \in {n \in Nat : n < 65536} /\ headerType \in Byte /\ host \in 0..Functions
    /\ walk \in {"start", "hosts", "end"}
    /\ stack \in Seq(Loop)
    /\ visits \in Seq(Places)

Over == walk = "end" /\ stack = << >>

There(f) == f \in DOMAIN machine /\ getVendorID(f[1], f[2], f[3]) # NoVendor

(* The functions of a bus an enumeration has to see: those of the devices      *)
(* there, the first of one that says it has only one.                          *)
OnBus(bus) ==
    {f \in {bus} \X (0..Devices - 1) \X (0..Functions - 1) :
        /\ There(f) /\ There(<<bus, f[2], 0>>)
        /\ f[3] # 0 => Several(getHeaderType(bus, f[2], 0))}

OneHost == ~Several(getHeaderType(0, 0, 0))

(* On a machine with one host controller, the walk checks each function of bus *)
(* 0 and checks it once: no empty slot ends the bus early, no function of a    *)
(* device with several is passed over, the loops over devices and functions    *)
(* lose no place. What is checked on other buses is not its matter.            *)
WalkedOnce ==
    (Over /\ OneHost) =>
        LET onBus0 == {k \in DOMAIN visits : visits[k][1] = 0}
        IN  /\ {visits[k] : k \in onBus0} = OnBus(0)
            /\ Cardinality(onBus0) = Cardinality(OnBus(0))

\* What the registers say: class and subclass of a PCI-to-PCI bridge, and its bus.
Register(f, offset) == DWord(f[1], f[2], f[3], offset)[1 + (offset % 4)]
IsBridge(f) == Register(f, 11) = 6 /\ Register(f, 10) = 4

(* What checkFunction is written for (pci.c:276-278): the bus behind a bridge  *)
(* is checked too. False: pciConfigReadByte returns the low byte of the double *)
(* word at any offset, so the class and the subclass are both the revision.    *)
BridgesFollowed ==
    (Over /\ OneHost) =>
        \A k \in DOMAIN visits :
            IsBridge(visits[k]) =>
                OnBus(Register(visits[k], 25)) \subseteq {visits[l] : l \in DOMAIN visits}

(* The walk ends, whatever the bridges say is behind them: a bridge to its own *)
(* bus too, though nothing in the recursion keeps it from going round.         *)
WalkEnds == <>Over
===============================================================================
