------------------------------ MODULE Pci_proofs ------------------------------
(* Proofs about Pci: its types, and that on any machine with one host          *)
(* controller it checks each function of bus 0 once.                           *)
EXTENDS Pci, FiniteSetTheorems, SequenceTheorems, TLAPS

\* The class and the subclass are read from the same byte.
LEMMA SameByte ==
  ASSUME NEW bus, NEW device, NEW function
  PROVE  getBaseClass(bus, device, function) = getSubClass(bus, device, function)
<1>1. 11 - (11 % 4) = 8 /\ 10 - (10 % 4) = 8
  OBVIOUS
<1> QED
  BY <1>1 DEF getBaseClass, getSubClass, pciConfigReadByte, DWord

LEMMA NoBridge ==
  ASSUME NEW bus, NEW device, NEW function
  PROVE  ~(/\ getBaseClass(bus, device, function) = 6
           /\ getSubClass(bus, device, function) = 4)
BY SameByte

\* A read is four bytes, of a register or of nothing.
LEMMA ReadType ==
  ASSUME machine \in Machines,
         NEW bus, NEW device, NEW function, NEW offset \in {0, 12}
  PROVE  DWord(bus, device, function, offset) \in [1..4 -> Byte]
<1>1. offset - (offset % 4) \in Offsets
  BY DEF Offsets
<1>2. [k \in 1..4 |-> 255] \in [1..4 -> Byte]
  BY DEF Byte
<1>3. CASE <<bus, device, function>> \in DOMAIN machine
  <2>1. machine[<<bus, device, function>>] \in [Offsets -> [1..4 -> Byte]]
    BY <1>3, MachinesAssumption DEF Registers
  <2>2. machine[<<bus, device, function>>][offset - (offset % 4)] \in [1..4 -> Byte]
    BY <1>1, <2>1
  <2> QED
    BY <1>3, <2>2 DEF DWord
<1>4. CASE <<bus, device, function>> \notin DOMAIN machine
  BY <1>2, <1>4 DEF DWord
<1> QED
  BY <1>3, <1>4

LEMMA VendorType ==
  ASSUME machine \in Machines,
         NEW bus, NEW device, NEW function
  PROVE  getVendorID(bus, device, function) \in {n \in Nat : n < 65536}
<1>1. DWord(bus, device, function, 0) \in [1..4 -> Byte]
  BY ReadType
<1> QED
  BY <1>1 DEF getVendorID, Byte

LEMMA HeaderIsByte ==
  ASSUME machine \in Machines,
         NEW bus, NEW device, NEW function
  PROVE  getHeaderType(bus, device, function) \in Byte
<1>1. DWord(bus, device, function, 12) \in [1..4 -> Byte]
  BY ReadType
<1> QED
  BY <1>1 DEF getHeaderType

LEMMA OpenLoopType ==
  ASSUME NEW bus \in Byte
  PROVE  OpenLoop(bus) \in Loop
BY SizesAssumption DEF OpenLoop, Loop

-------------------------------------------------------------------------------
\* As the code is, no bridge is taken for one, so that one loop at most is open.
OneLoopOpen == Len(stack) <= 1

IInv == TypeOK /\ OneLoopOpen

\* What a step leaves of the stack when it only changes the innermost loop.
LEMMA WithType ==
  ASSUME stack \in Seq(Loop), stack # << >>, NEW loop \in Loop
  PROVE  With(loop) \in Seq(Loop) /\ Len(With(loop)) = Len(stack)
BY DEF With

LEMMA TopType ==
  ASSUME stack \in Seq(Loop), stack # << >>
  PROVE  Top \in Loop
BY DEF Top

LEMMA NextDeviceType ==
  ASSUME stack \in Seq(Loop), stack # << >>, Top.device < Devices
  PROVE  NextDevice \in Loop
<1>1. Top \in Loop
  BY TopType
<1> QED
  BY <1>1, SizesAssumption DEF NextDevice, Loop

\* checkFunction never opens a loop: it goes on with the one it was called from.
LEMMA CheckedHere ==
  ASSUME TypeOK, stack # << >>, NEW loop \in Loop,
         NEW function \in Nat, checkFunction(function, loop)
  PROVE  /\ stack' = With(loop)
         /\ visits' \in Seq(Places)
<1>1. stack' = With(loop)
  <2>1. ~(/\ getBaseClass(Top.bus, Top.device, function) = 6
          /\ getSubClass(Top.bus, Top.device, function) = 4)
    BY NoBridge
  <2> QED
    BY <2>1, Zenon DEF checkFunction
<1>2. visits' = Append(visits, <<Top.bus, Top.device, function>>)
  BY Zenon DEF checkFunction
<1>3. Top.bus \in Byte /\ Top.device \in Nat
  BY TopType, SizesAssumption DEF TypeOK, Loop
<1>4. <<Top.bus, Top.device, function>> \in Places
  BY <1>3 DEF Places
<1> QED
  BY <1>1, <1>2, <1>4 DEF TypeOK

LEMMA InitInv == ASSUME Init PROVE IInv
BY SizesAssumption DEF Init, IInv, TypeOK, OneLoopOpen, Byte

LEMMA StepInv == ASSUME IInv, [Next]_vars PROVE IInv'
<1> USE DEF IInv
<1>1. CASE CheckHost
  <2>1. headerType' \in Byte
    BY <1>1, HeaderIsByte DEF CheckHost, TypeOK
  <2>2. << OpenLoop(0) >> \in Seq(Loop)
    BY OpenLoopType DEF Byte
  <2>3. stack' \in Seq(Loop) /\ Len(stack') <= 1
    <3>1. stack' = stack \/ stack' = << OpenLoop(0) >>
      BY Zenon, <1>1 DEF CheckHost
    <3>2. Len(<< OpenLoop(0) >>) <= 1
      OBVIOUS
    <3>3. stack \in Seq(Loop) /\ Len(stack) <= 1
      BY DEF TypeOK, OneLoopOpen
    <3>4. CASE stack' = stack
      BY <3>3, <3>4
    <3>5. CASE stack' = << OpenLoop(0) >>
      BY Zenon, <2>2, <3>2, <3>5
    <3> QED
      BY <3>1, <3>4, <3>5
  <2>4. walk' \in {"hosts", "end"}
    BY Zenon, <1>1 DEF CheckHost
  <2> QED
    BY <1>1, <2>1, <2>3, <2>4 DEF CheckHost, TypeOK, OneLoopOpen
<1>2. CASE CheckNextHost
  <2>1. CASE walk' = "end"
    <3>1. host' = host /\ stack' = stack
      BY <1>2, <2>1 DEF CheckNextHost
    <3> QED
      BY <1>2, <2>1, <3>1 DEF CheckNextHost, TypeOK, OneLoopOpen
  <2>2. CASE walk' # "end"
    <3>1. host' = host + 1 /\ stack' = << OpenLoop(host) >> /\ host # Functions
      BY <1>2, <2>2 DEF CheckNextHost
    <3>2. host \in Byte /\ host + 1 \in 0..Functions
      BY <3>1, SizesAssumption DEF TypeOK, Byte
    <3>3. OpenLoop(host) \in Loop
      BY <3>2, OpenLoopType
    <3> QED
      BY <1>2, <2>2, <3>1, <3>2, <3>3 DEF CheckNextHost, TypeOK, OneLoopOpen
  <2> QED
    BY <2>1, <2>2
<1>3. CASE CheckVendor
  <2>1. stack # << >> /\ stack \in Seq(Loop) /\ Top.device < Devices
    BY <1>3 DEF CheckVendor, InLoop, TypeOK
  <2>2. vendorID' \in {n \in Nat : n < 65536}
    BY <1>3, VendorType DEF CheckVendor, TypeOK
  <2>3. \E loop \in Loop : stack' = With(loop) /\ visits' \in Seq(Places)
    <3>1. CASE vendorID' = NoVendor
      BY <1>3, <2>1, <3>1, NextDeviceType DEF CheckVendor, TypeOK
    <3>2. CASE vendorID' # NoVendor
      <4>1. [Top EXCEPT !.next = "header"] \in Loop
        BY <2>1, TopType DEF Loop
      <4>2. checkFunction(0, [Top EXCEPT !.next = "header"])
        BY <1>3, <3>2 DEF CheckVendor
      <4> QED
        BY <2>1, <4>1, <4>2, CheckedHere
    <3> QED
      BY <3>1, <3>2
  <2> QED
    BY <1>3, <2>1, <2>2, <2>3, WithType DEF CheckVendor, TypeOK, OneLoopOpen
<1>4. CASE CheckHeader
  <2>1. stack # << >> /\ stack \in Seq(Loop) /\ Top.device < Devices
    BY <1>4 DEF CheckHeader, InLoop, TypeOK
  <2>2. headerType' \in Byte
    BY <1>4, HeaderIsByte DEF CheckHeader, TypeOK
  <2>3. [Top EXCEPT !.next = "functions"] \in Loop
    BY <2>1, TopType DEF Loop
  <2>4. \E loop \in Loop : stack' = With(loop)
    BY <1>4, <2>1, <2>3, NextDeviceType DEF CheckHeader
  <2> QED
    BY <1>4, <2>1, <2>2, <2>4, WithType DEF CheckHeader, TypeOK, OneLoopOpen
<1>5. CASE CheckNextFunction
  <2>1. stack # << >> /\ stack \in Seq(Loop) /\ Top.device < Devices
    BY <1>5 DEF CheckNextFunction, InLoop, TypeOK
  <2>2. \E loop \in Loop : stack' = With(loop) /\ visits' \in Seq(Places)
    <3>1. CASE Top.function = Functions
      BY <1>5, <2>1, <3>1, NextDeviceType DEF CheckNextFunction, TypeOK
    <3>2. CASE Top.function # Functions
      <4> DEFINE loop == [Top EXCEPT !.function = @ + 1]
      <4>1. loop \in Loop /\ Top.function \in Nat
        <5>1. Top \in Loop /\ Top.function \in 1..Functions
          BY <2>1, TopType DEF Loop
        <5>2. Top.function + 1 \in 1..Functions
          BY <3>2, <5>1, SizesAssumption
        <5> QED
          BY <5>1, <5>2 DEF Loop
      <4>2. \/ stack' = With(loop) /\ visits' = visits
            \/ checkFunction(Top.function, loop)
        BY <1>5, <3>2 DEF CheckNextFunction
      <4> HIDE DEF loop
      <4> QED
        BY <2>1, <4>1, <4>2, CheckedHere DEF TypeOK
    <3> QED
      BY <3>1, <3>2
  <2> QED
    BY <1>5, <2>1, <2>2, WithType DEF CheckNextFunction, TypeOK, OneLoopOpen
<1>6. CASE EndBus
  <2>1. stack \in Seq(Loop) /\ stack # << >> /\ stack' = SubSeq(stack, 1, Len(stack) - 1)
    BY <1>6 DEF EndBus, TypeOK
  <2>2. stack' \in Seq(Loop) /\ Len(stack') <= Len(stack)
    BY <2>1
  <2> QED
    BY <1>6, <2>2 DEF EndBus, TypeOK, OneLoopOpen
<1>7. CASE UNCHANGED vars
  BY <1>7 DEF vars, TypeOK, OneLoopOpen
<1> QED
  BY <1>1, <1>2, <1>3, <1>4, <1>5, <1>6, <1>7 DEF Next

(* For any number of devices and functions and any machine, every variable     *)
(* keeps its type: what the walk indexes the configuration space with is a bus.*)
THEOREM TypeCorrect == Spec => []TypeOK
<1>1. IInv => TypeOK
  BY DEF IInv
<1> QED
  BY <1>1, InitInv, StepInv, PTL DEF Spec

-------------------------------------------------------------------------------
(* The walk of bus 0: what has been checked is what of the bus lies before the *)
(* device and the function that the innermost loop has come to.                *)
Seen == {visits[k] : k \in DOMAIN visits}

Before(device, function) ==
  {f \in OnBus(0) : f[2] < device \/ (f[2] = device /\ f[3] < function)}

Position(loop) ==
  IF loop.next = "vendor" THEN 0 ELSE IF loop.next = "header" THEN 1 ELSE loop.function

Within(loop, seen) ==
  /\ loop.bus = 0
  /\ loop.next # "vendor" =>
       loop.device < Devices /\ getVendorID(0, loop.device, 0) # NoVendor
  /\ loop.next = "functions" => Several(getHeaderType(0, loop.device, 0))
  /\ loop.next # "functions" => loop.function = 1
  /\ seen = Before(loop.device, Position(loop))

Walking ==
  /\ walk # "hosts"
  /\ walk = "start" => stack = << >> /\ Seen = {}
  /\ stack # << >> => Within(Top, Seen)
  /\ walk = "end" /\ stack = << >> => Seen = OnBus(0)

Counted == IsFiniteSet(Seen) /\ Len(visits) = Cardinality(Seen)

WalkInv == OneHost => Walking /\ Counted

\* Nothing is there where a read finds no vendor.
LEMMA ThereIs ==
  ASSUME NEW bus, NEW device, NEW function
  PROVE  There(<<bus, device, function>>) <=> getVendorID(bus, device, function) # NoVendor
<1>1. CASE <<bus, device, function>> \in DOMAIN machine
  BY <1>1 DEF There
<1>2. CASE <<bus, device, function>> \notin DOMAIN machine
  <2>1. DWord(bus, device, function, 0) = [k \in 1..4 |-> 255]
    BY Zenon, <1>2 DEF DWord
  <2>2. getVendorID(bus, device, function) = NoVendor
    BY <2>1 DEF getVendorID, NoVendor
  <2> QED
    BY <2>2 DEF There
<1> QED
  BY <1>1, <1>2

LEMMA Positions ==
  /\ \A f \in OnBus(0) : /\ f = <<0, f[2], f[3]>>
                         /\ f[2] \in 0..Devices - 1 /\ f[3] \in 0..Functions - 1
  /\ \A d \in 0..Devices - 1, g \in 0..Functions - 1 :
       <<0, d, g>> \in OnBus(0) <=>
         /\ getVendorID(0, d, g) # NoVendor /\ getVendorID(0, d, 0) # NoVendor
         /\ g # 0 => Several(getHeaderType(0, d, 0))
<1>1. ASSUME NEW f \in OnBus(0)
      PROVE  /\ f = <<0, f[2], f[3]>>
             /\ f[2] \in 0..Devices - 1 /\ f[3] \in 0..Functions - 1
  BY <1>1 DEF OnBus
<1>2. ASSUME NEW d \in 0..Devices - 1, NEW g \in 0..Functions - 1
      PROVE  <<0, d, g>> \in OnBus(0) <=>
               /\ There(<<0, d, g>>) /\ There(<<0, d, 0>>)
               /\ g # 0 => Several(getHeaderType(0, d, 0))
  <2>1. <<0, d, g>> \in {0} \X (0..Devices - 1) \X (0..Functions - 1)
    OBVIOUS
  <2>2. <<0, d, g>>[2] = d /\ <<0, d, g>>[3] = g
    OBVIOUS
  <2> QED
    BY Zenon, <2>1, <2>2 DEF OnBus
<1> QED
  BY Zenon, <1>1, <1>2, ThereIs

\* The same, of what lies before a position.
LEMMA BeforeIs ==
  ASSUME NEW d \in 0..Devices, NEW g \in 0..Functions, NEW T,
         \A e \in 0..Devices - 1, h \in 0..Functions - 1 :
           <<0, e, h>> \in T <=>
             <<0, e, h>> \in OnBus(0) /\ (e < d \/ (e = d /\ h < g)),
         T \subseteq OnBus(0)
  PROVE  T = Before(d, g)
<1>1. ASSUME NEW f \in OnBus(0) PROVE f \in T <=> f \in Before(d, g)
  <2>1. PICK e \in 0..Devices - 1, h \in 0..Functions - 1 : f = <<0, e, h>>
    BY Zenon, Positions
  <2>2. f[2] = e /\ f[3] = h
    BY <2>1
  <2> QED
    BY Zenon, <2>1, <2>2 DEF Before
<1>2. Before(d, g) \subseteq OnBus(0)
  BY Zenon DEF Before
<1> QED
  BY Zenon, <1>1, <1>2

LEMMA BeforeHas ==
  ASSUME NEW d \in 0..Devices, NEW g \in 0..Functions,
         NEW e \in 0..Devices - 1, NEW h \in 0..Functions - 1
  PROVE  /\ <<0, e, h>> \in Before(d, g) <=>
              <<0, e, h>> \in OnBus(0) /\ (e < d \/ (e = d /\ h < g))
         /\ Before(d, g) \subseteq OnBus(0)
<1>1. <<0, e, h>>[2] = e /\ <<0, e, h>>[3] = h
  OBVIOUS
<1> QED
  BY Zenon, <1>1 DEF Before

LEMMA BeforeNone == Before(0, 0) = {}
<1> SUFFICES ASSUME NEW f \in Before(0, 0) PROVE FALSE
  BY Zenon
<1>1. f[2] \in 0..Devices - 1 /\ f[3] \in 0..Functions - 1
  BY Zenon, Positions DEF Before
<1>2. f[2] < 0 \/ f[3] < 0
  BY Zenon DEF Before
<1> QED
  BY <1>1, <1>2

LEMMA BeforeAll == Before(Devices, 0) = OnBus(0)
<1>1. ASSUME NEW f \in OnBus(0) PROVE f \in Before(Devices, 0)
  <2>1. f[2] < Devices
    BY Positions, SizesAssumption
  <2> QED
    BY Zenon, <2>1 DEF Before
<1> QED
  BY Zenon, <1>1 DEF Before

\* An empty slot, a device with one function, and the last function of another
\* leave nothing out.
LEMMA BeforeSkips ==
  ASSUME NEW d \in 0..Devices - 1
  PROVE  /\ getVendorID(0, d, 0) = NoVendor => Before(d + 1, 0) = Before(d, 0)
         /\ ~Several(getHeaderType(0, d, 0)) => Before(d + 1, 0) = Before(d, 1)
         /\ Before(d + 1, 0) = Before(d, Functions)
         /\ \A g \in 1..Functions - 1 :
              getVendorID(0, d, g) = NoVendor => Before(d, g + 1) = Before(d, g)
<1>1. /\ Devices \in Nat /\ Functions \in Nat \ {0} /\ d \in 0..Devices /\ d + 1 \in 0..Devices
      /\ 0 \in 0..Functions /\ 1 \in 0..Functions /\ Functions \in 0..Functions
  BY SizesAssumption
<1>2. ASSUME NEW g \in 0..Functions,
             \A h \in 0..Functions - 1 : <<0, d, h>> \in OnBus(0) => h < g
      PROVE  Before(d + 1, 0) = Before(d, g)
  <2>1. Before(d + 1, 0) \subseteq OnBus(0)
    BY Zenon DEF Before
  <2>2. ASSUME NEW e \in 0..Devices - 1, NEW h \in 0..Functions - 1
        PROVE  <<0, e, h>> \in Before(d + 1, 0) <=>
                 <<0, e, h>> \in OnBus(0) /\ (e < d \/ (e = d /\ h < g))
    <3>1. <<0, e, h>> \in Before(d + 1, 0) <=>
            <<0, e, h>> \in OnBus(0) /\ (e < d + 1 \/ (e = d + 1 /\ h < 0))
      BY <1>1, BeforeHas
    <3>2. (e < d + 1 \/ (e = d + 1 /\ h < 0)) <=> (e < d \/ e = d)
      BY <1>1
    <3> QED
      BY Zenon, <1>2, <3>1, <3>2
  <2> QED
    BY <1>1, <2>1, <2>2, BeforeIs
<1>3. ASSUME getVendorID(0, d, 0) = NoVendor PROVE Before(d + 1, 0) = Before(d, 0)
  BY <1>1, <1>2, <1>3, Positions
<1>4. ASSUME ~Several(getHeaderType(0, d, 0)) PROVE Before(d + 1, 0) = Before(d, 1)
  <2>1. \A h \in 0..Functions - 1 : <<0, d, h>> \in OnBus(0) => h = 0
    BY Zenon, <1>4, Positions
  <2> QED
    BY <1>1, <1>2, <2>1
<1>5. Before(d + 1, 0) = Before(d, Functions)
  <2>1. \A h \in 0..Functions - 1 : h < Functions
    BY <1>1
  <2> QED
    BY Zenon, <1>1, <1>2, <2>1
<1>6. ASSUME NEW g \in 1..Functions - 1, getVendorID(0, d, g) = NoVendor
      PROVE  Before(d, g + 1) = Before(d, g)
  <2>1. g \in 0..Functions - 1 /\ g \in 0..Functions /\ g + 1 \in 0..Functions
    BY <1>1
  <2>2. <<0, d, g>> \notin OnBus(0)
    BY Zenon, <1>6, <2>1, Positions
  <2>3. ASSUME NEW e \in 0..Devices - 1, NEW h \in 0..Functions - 1
        PROVE  <<0, e, h>> \in Before(d, g + 1) <=>
                 <<0, e, h>> \in OnBus(0) /\ (e < d \/ (e = d /\ h < g))
    <3>1. <<0, e, h>> \in Before(d, g + 1) <=>
            <<0, e, h>> \in OnBus(0) /\ (e < d \/ (e = d /\ h < g + 1))
      BY Zenon, <1>1, <2>1, BeforeHas
    <3>2. h < g + 1 <=> h < g \/ h = g
      OBVIOUS
    <3> QED
      BY Zenon, <2>2, <3>1, <3>2
  <2>4. Before(d, g + 1) \subseteq OnBus(0)
    BY Zenon DEF Before
  <2> QED
    BY <1>1, <2>1, <2>3, <2>4, BeforeIs
<1> QED
  BY Zenon, <1>3, <1>4, <1>5, <1>6

\* A function that is checked is one of the bus, and has not been before.
LEMMA BeforeGrows ==
  ASSUME NEW d \in 0..Devices - 1, NEW g \in 0..Functions - 1,
         getVendorID(0, d, g) # NoVendor, getVendorID(0, d, 0) # NoVendor,
         g # 0 => Several(getHeaderType(0, d, 0))
  PROVE  /\ <<0, d, g>> \notin Before(d, g)
         /\ Before(d, g) \union {<<0, d, g>>} = Before(d, g + 1)
<1>1. /\ Devices \in Nat /\ Functions \in Nat \ {0} /\ d \in 0..Devices
      /\ g \in 0..Functions /\ g + 1 \in 0..Functions
  BY SizesAssumption
<1>2. <<0, d, g>> \in OnBus(0)
  BY Zenon, Positions
<1>3. ASSUME NEW e \in 0..Devices - 1, NEW h \in 0..Functions - 1
      PROVE  <<0, e, h>> \in Before(d, g) <=>
               <<0, e, h>> \in OnBus(0) /\ (e < d \/ (e = d /\ h < g))
  BY Zenon, <1>1, BeforeHas
<1>4. <<0, d, g>> \notin Before(d, g)
  <2>1. ~(d < d) /\ ~(g < g)
    OBVIOUS
  <2> QED
    BY Zenon, <1>3, <2>1
<1> DEFINE T == Before(d, g) \union {<<0, d, g>>}
<1>5. T \subseteq OnBus(0)
  BY Zenon, <1>2 DEF Before
<1>6. ASSUME NEW e \in 0..Devices - 1, NEW h \in 0..Functions - 1
      PROVE  <<0, e, h>> \in T <=>
               <<0, e, h>> \in OnBus(0) /\ (e < d \/ (e = d /\ h < g + 1))
  <2>1. <<0, e, h>> = <<0, d, g>> <=> e = d /\ h = g
    OBVIOUS
  <2>2. h < g + 1 <=> h < g \/ h = g
    OBVIOUS
  <2> QED
    BY Zenon, <1>2, <1>3, <2>1, <2>2
<1>7. T = Before(d, g + 1)
  <2> HIDE DEF T
  <2> QED
    BY <1>1, <1>5, <1>6, BeforeIs
<1> QED
  BY Zenon, <1>4, <1>7

-------------------------------------------------------------------------------
\* The machine stays as it is.
LEMMA SameMachine ==
  ASSUME UNCHANGED machine
  PROVE  /\ OneHost' <=> OneHost
         /\ OnBus(0)' = OnBus(0)
         /\ \A d : getVendorID(0, d, 0)' = getVendorID(0, d, 0)
         /\ \A d : Several(getHeaderType(0, d, 0))' <=> Several(getHeaderType(0, d, 0))
<1>1. \A b, d, f, o : DWord(b, d, f, o)' = DWord(b, d, f, o)
  BY Zenon DEF DWord
<1>2. \A b, d, f : getVendorID(b, d, f)' = getVendorID(b, d, f)
  BY Zenon, <1>1 DEF getVendorID
<1>3. \A b, d, f : getHeaderType(b, d, f)' = getHeaderType(b, d, f)
  BY Zenon, <1>1 DEF getHeaderType
<1>4. \A f : There(f)' <=> There(f)
  BY Zenon, <1>2 DEF There
<1>5. \A b, d, f : Several(getHeaderType(b, d, f))' <=> Several(getHeaderType(b, d, f))
  BY Zenon, <1>3 DEF Several
<1>6. OnBus(0)' = OnBus(0)
  BY Zenon, <1>4, <1>5 DEF OnBus
<1>7. OneHost' <=> OneHost
  BY Zenon, <1>5 DEF OneHost
<1> QED
  BY Zenon, <1>2, <1>5, <1>6, <1>7

LEMMA WithinTop ==
  ASSUME UNCHANGED machine, NEW loop, NEW seen,
         Top' = loop, Seen' = seen, Within(loop, seen)
  PROVE  Within(Top, Seen)'
<1>1. Before(loop.device, Position(loop))' = Before(loop.device, Position(loop))
  BY Zenon, SameMachine DEF Before, Position
<1>2. Within(loop, seen)'
  BY Zenon, <1>1, SameMachine DEF Within
<1> QED
  BY Zenon, <1>2 DEF Within, Before, Position

LEMMA SameSeen == ASSUME UNCHANGED visits PROVE Seen' = Seen /\ (Counted => Counted')
BY Zenon DEF Seen, Counted

LEMMA SeenNext ==
  ASSUME visits \in Seq(Places), NEW place \in Places, visits' = Append(visits, place)
  PROVE  /\ Seen' = Seen \union {place}
         /\ Counted /\ place \notin Seen => Counted'
<1>1. /\ visits' \in Seq(Places) /\ Len(visits') = Len(visits) + 1
      /\ \A k \in 1..Len(visits) : visits'[k] = visits[k]
      /\ visits'[Len(visits) + 1] = place
  BY AppendProperties
<1>2. Len(visits) \in Nat /\ DOMAIN visits = 1..Len(visits) /\ DOMAIN visits' = 1..Len(visits')
  BY <1>1
<1>3. Seen' = Seen \union {place}
  <2>1. ASSUME NEW k \in DOMAIN visits' PROVE visits'[k] \in Seen \union {place}
    <3>1. k \in DOMAIN visits \/ k = Len(visits) + 1
      BY <1>1, <1>2
    <3> QED
      BY <1>1, <1>2, <3>1 DEF Seen
  <2>2. ASSUME NEW k \in DOMAIN visits PROVE visits[k] \in Seen'
    <3>1. k \in DOMAIN visits' /\ visits'[k] = visits[k]
      BY <1>1, <1>2
    <3> QED
      BY Zenon, <3>1 DEF Seen
  <2>3. place \in Seen'
    <3>1. Len(visits) + 1 \in DOMAIN visits'
      BY <1>1, <1>2
    <3> QED
      BY Zenon, <1>1, <3>1 DEF Seen
  <2>4. Seen' \subseteq Seen \union {place}
    BY Zenon, <2>1 DEF Seen
  <2>5. Seen \subseteq Seen'
    BY Zenon, <2>2 DEF Seen
  <2> QED
    BY Zenon, <2>3, <2>4, <2>5
<1>4. ASSUME Counted, place \notin Seen PROVE Counted'
  <2>1. /\ IsFiniteSet(Seen \union {place})
        /\ Cardinality(Seen \union {place}) = Cardinality(Seen) + 1
    BY <1>4, FS_AddElement DEF Counted
  <2>2. IsFiniteSet(Seen') /\ Cardinality(Seen') = Cardinality(Seen) + 1
    BY Zenon, <1>3, <2>1
  <2>3. Len(visits') = Cardinality(Seen')
    BY <1>1, <1>4, <2>2 DEF Counted
  <2> QED
    BY <2>2, <2>3 DEF Counted
<1> QED
  BY <1>3, <1>4

\* On bus 0, the stack is the loop of one bus.
LEMMA OneLoop ==
  ASSUME IInv, stack # << >>
  PROVE  stack \in Seq(Loop) /\ Len(stack) = 1
<1>1. TypeOK /\ OneLoopOpen
  BY Zenon DEF IInv
<1>2. stack \in Seq(Loop)
  BY <1>1 DEF TypeOK
<1>3. Len(stack) <= 1
  BY Zenon, <1>1 DEF OneLoopOpen
<1>4. Len(stack) \in Nat /\ Len(stack) # 0
  BY <1>2, EmptySeq, LenProperties
<1>5. \A k \in Nat : k # 0 /\ k <= 1 => k = 1
  OBVIOUS
<1>6. Len(stack) = 1
  BY Zenon, <1>3, <1>4, <1>5
<1> QED
  BY Zenon, <1>2, <1>6

\* The innermost loop goes on.
LEMMA LoopGoesOn ==
  ASSUME IInv, Walking, stack # << >>, UNCHANGED <<machine, walk>>,
         NEW loop \in Loop, stack' = With(loop),
         NEW seen, Seen' = seen, Within(loop, seen), Counted'
  PROVE  WalkInv'
<1>1. stack' # << >> /\ Top' = loop
  <2>1. stack \in Seq(Loop) /\ Len(stack) = 1
    BY Zenon, OneLoop
  <2>0. stack' = [stack EXCEPT ![1] = loop] /\ 1 \in 1..Len(stack)
    BY <2>1 DEF With
  <2>2. stack' \in Seq(Loop) /\ Len(stack') = 1 /\ stack'[1] = loop
    BY <2>0, <2>1, ExceptSeq
  <2>3. Top' = stack'[1]
    BY Zenon, <2>2 DEF Top
  <2>4. stack' # << >>
    <3>1. Len(<< >>) = 0 /\ 0 # 1
      OBVIOUS
    <3> QED
      BY Zenon, <2>2, <3>1
  <2> QED
    BY Zenon, <2>2, <2>3, <2>4
<1>2. Within(Top, Seen)'
  BY Zenon, <1>1, WithinTop
<1>3. walk \notin {"start", "hosts"} /\ walk' = walk
  BY DEF Walking
<1> QED
  BY Zenon, <1>1, <1>2, <1>3 DEF WalkInv, Walking

LEMMA WalkInit == Init => WalkInv
<1> SUFFICES ASSUME Init PROVE WalkInv
  OBVIOUS
<1>1. visits = << >> /\ walk = "start" /\ stack = << >>
  BY DEF Init
<1>2. Seen = {} /\ Len(visits) = 0
  BY <1>1 DEF Seen
<1>3. Counted
  BY <1>2, FS_EmptySet DEF Counted
<1> QED
  BY <1>1, <1>2, <1>3 DEF WalkInv, Walking

LEMMA TopIs ==
  ASSUME IInv, Walking, stack # << >>
  PROVE  /\ Within(Top, Seen) /\ Top \in Loop /\ stack \in Seq(Loop)
         /\ Top.bus = 0 /\ Top.device \in 0..Devices /\ Top.function \in 1..Functions
         /\ 0 \in Byte
<1>1. Top \in Loop /\ stack \in Seq(Loop)
  BY TopType DEF IInv, TypeOK
<1>2. Within(Top, Seen)
  BY DEF Walking
<1>3. 0 \in Byte
  BY DEF Byte
<1> QED
  BY <1>1, <1>2, <1>3 DEF Within, Loop

\* What checkFunction does in the walk of bus 0.
LEMMA Checked ==
  ASSUME IInv, Walking, stack # << >>, NEW function \in Nat, NEW loop \in Loop,
         checkFunction(function, loop)
  PROVE  /\ stack' = With(loop)
         /\ visits' = Append(visits, <<0, Top.device, function>>)
         /\ <<0, Top.device, function>> \in Places
<1>1. Top.bus = 0 /\ Top.device \in 0..Devices /\ 0 \in Byte
  BY TopIs
<1>2. stack' = With(loop)
  BY CheckedHere DEF IInv
<1>3. visits' = Append(visits, <<Top.bus, Top.device, function>>)
  BY Zenon DEF checkFunction
<1> QED
  BY <1>1, <1>2, <1>3, SizesAssumption DEF Places

LEMMA CheckVendorWalks ==
  ASSUME IInv, Walking, Counted, CheckVendor
  PROVE  WalkInv'
<1>1. /\ stack # << >> /\ Top.device < Devices /\ Top.next = "vendor"
      /\ UNCHANGED <<machine, walk>>
  BY Zenon DEF CheckVendor, InLoop
<1>2. PICK top \in Loop, d \in 0..Devices - 1 : top = Top /\ d = Top.device
  <2>1. Top \in Loop /\ Top.device \in 0..Devices
    BY <1>1, TopIs
  <2>2. Top.device \in 0..Devices - 1
    BY <1>1, <2>1, SizesAssumption
  <2> QED
    BY Zenon, <2>1, <2>2
<1>3. /\ Within(Top, Seen) /\ Top.bus = 0
  BY Zenon, <1>1, TopIs
<1>4. Seen = Before(d, 0) /\ Top.function = 1
  BY Zenon, <1>1, <1>2, <1>3 DEF Within, Position
<1>5. vendorID' = getVendorID(0, d, 0)
  BY Zenon, <1>2, <1>3 DEF CheckVendor
<1>6. CASE vendorID' = NoVendor
  <2>1. stack' = With(NextDevice) /\ visits' = visits
    BY Zenon, <1>6 DEF CheckVendor
  <2>2. PICK loop \in Loop : loop = NextDevice
    BY <1>1, TopIs, NextDeviceType
  <2>3. loop = [bus |-> 0, device |-> d + 1, function |-> 1, next |-> "vendor"]
    BY Zenon, <1>2, <1>3, <2>2 DEF NextDevice
  <2>4. loop.bus = 0 /\ loop.device = d + 1 /\ loop.next = "vendor" /\ loop.function = 1
    BY <2>3
  <2>5. Before(d + 1, 0) = Before(d, 0)
    BY Zenon, <1>5, <1>6, BeforeSkips
  <2>6. Within(loop, Before(d, 0))
    BY Zenon, <2>4, <2>5 DEF Within, Position
  <2>7. Seen' = Before(d, 0) /\ Counted'
    BY Zenon, <1>4, <2>1, SameSeen
  <2>8. PICK seen : seen = Before(d, 0)
    OBVIOUS
  <2> QED
    BY Zenon, <1>1, <2>1, <2>2, <2>6, <2>7, <2>8, LoopGoesOn
<1>7. CASE vendorID' # NoVendor
  <2>1. checkFunction(0, [Top EXCEPT !.next = "header"])
    BY Zenon, <1>7 DEF CheckVendor
  <2>2. PICK loop \in Loop : loop = [top EXCEPT !.next = "header"]
    BY DEF Loop
  <2>3. checkFunction(0, loop)
    BY Zenon, <1>2, <2>1, <2>2
  <2>4. /\ stack' = With(loop) /\ visits' = Append(visits, <<0, d, 0>>)
        /\ <<0, d, 0>> \in Places
    BY <1>1, <1>2, <2>3, Checked
  <2>5. loop.bus = 0 /\ loop.device = d /\ loop.next = "header" /\ loop.function = 1
    BY <1>2, <1>3, <1>4, <2>2 DEF Loop
  <2>6. 0 \in 0..Functions - 1 /\ 0 # 0 => Several(getHeaderType(0, d, 0))
    BY SizesAssumption
  <2>7. /\ <<0, d, 0>> \notin Before(d, 0)
        /\ Before(d, 0) \union {<<0, d, 0>>} = Before(d, 1)
    <3>1. 0 + 1 = 1 /\ 0 \in 0..Functions - 1
      BY SizesAssumption
    <3>2. getVendorID(0, d, 0) # NoVendor
      BY Zenon, <1>5, <1>7
    <3> QED
      BY Zenon, <3>1, <3>2, BeforeGrows
  <2>8. visits \in Seq(Places)
    BY DEF IInv, TypeOK
  <2>9. Seen' = Before(d, 1) /\ Counted'
    BY Zenon, <1>4, <2>4, <2>7, <2>8, SeenNext
  <2>10. Within(loop, Before(d, 1))
    <3>1. Position(loop) = 1 /\ loop.next # "functions"
      BY <2>5 DEF Position
    <3> QED
      BY Zenon, <1>2, <1>1, <1>5, <1>7, <2>5, <3>1 DEF Within
  <2>11. PICK seen : seen = Before(d, 1)
    OBVIOUS
  <2> QED
    BY Zenon, <1>1, <2>4, <2>9, <2>10, <2>11, LoopGoesOn
<1> QED
  BY <1>6, <1>7

LEMMA CheckHeaderWalks ==
  ASSUME IInv, Walking, Counted, CheckHeader
  PROVE  WalkInv'
<1>1. /\ stack # << >> /\ Top.device < Devices /\ Top.next = "header"
      /\ UNCHANGED <<machine, walk, visits>>
  BY Zenon DEF CheckHeader, InLoop
<1>2. PICK top \in Loop, d \in 0..Devices - 1 : top = Top /\ d = Top.device
  <2>1. Top \in Loop /\ Top.device \in 0..Devices
    BY <1>1, TopIs
  <2>2. Top.device \in 0..Devices - 1
    BY <1>1, <2>1, SizesAssumption
  <2> QED
    BY Zenon, <2>1, <2>2
<1>3. Within(Top, Seen) /\ Top.bus = 0
  BY Zenon, <1>1, TopIs
<1>4. Top.next # "vendor" /\ Top.next # "functions"
  BY <1>1
<1>5. /\ Seen = Before(d, 1) /\ Top.function = 1
      /\ getVendorID(0, d, 0) # NoVendor
  BY Zenon, <1>1, <1>2, <1>3, <1>4 DEF Within, Position
<1>6. headerType' = getHeaderType(0, d, 0)
  BY Zenon, <1>2, <1>3 DEF CheckHeader
<1>7. Seen' = Before(d, 1) /\ Counted'
  BY Zenon, <1>1, <1>5, SameSeen
<1>8. PICK seen : seen = Before(d, 1)
  OBVIOUS
<1>9. CASE Several(headerType')
  <2>1. stack' = With([Top EXCEPT !.next = "functions"])
    BY Zenon, <1>9 DEF CheckHeader
  <2>2. PICK loop \in Loop : loop = [top EXCEPT !.next = "functions"]
    BY DEF Loop
  <2>3. stack' = With(loop)
    BY Zenon, <1>2, <2>1, <2>2
  <2>4. loop.bus = 0 /\ loop.device = d /\ loop.next = "functions" /\ loop.function = 1
    BY <1>2, <1>3, <1>5, <2>2 DEF Loop
  <2>5. Position(loop) = 1
    BY <2>4 DEF Position
  <2>6. Within(loop, Before(d, 1))
    BY Zenon, <1>1, <1>2, <1>5, <1>6, <1>9, <2>4, <2>5 DEF Within
  <2> QED
    BY Zenon, <1>1, <1>7, <1>8, <2>2, <2>3, <2>6, LoopGoesOn
<1>10. CASE ~Several(headerType')
  <2>1. stack' = With(NextDevice)
    BY Zenon, <1>10 DEF CheckHeader
  <2>2. PICK loop \in Loop : loop = NextDevice
    BY <1>1, TopIs, NextDeviceType
  <2>3. loop = [bus |-> 0, device |-> d + 1, function |-> 1, next |-> "vendor"]
    BY Zenon, <1>2, <1>3, <2>2 DEF NextDevice
  <2>4. loop.bus = 0 /\ loop.device = d + 1 /\ loop.next = "vendor" /\ loop.function = 1
    BY <2>3
  <2>5. Before(d + 1, 0) = Before(d, 1)
    BY Zenon, <1>6, <1>10, BeforeSkips
  <2>6. Within(loop, Before(d, 1))
    BY Zenon, <2>4, <2>5 DEF Within, Position
  <2> QED
    BY Zenon, <1>1, <1>7, <1>8, <2>1, <2>2, <2>6, LoopGoesOn
<1> QED
  BY <1>9, <1>10

LEMMA CheckNextFunctionWalks ==
  ASSUME IInv, Walking, Counted, CheckNextFunction
  PROVE  WalkInv'
<1>1. /\ stack # << >> /\ Top.device < Devices /\ Top.next = "functions"
      /\ UNCHANGED <<machine, walk>>
  BY Zenon DEF CheckNextFunction, InLoop
<1>2. PICK top \in Loop, d \in 0..Devices - 1, g \in 1..Functions :
        top = Top /\ d = Top.device /\ g = Top.function
  <2>1. Top \in Loop /\ Top.device \in 0..Devices /\ Top.function \in 1..Functions
    BY <1>1, TopIs
  <2>2. Top.device \in 0..Devices - 1
    BY <1>1, <2>1, SizesAssumption
  <2> QED
    BY Zenon, <2>1, <2>2
<1>3. Within(Top, Seen) /\ Top.bus = 0
  BY Zenon, <1>1, TopIs
<1>4. Top.next # "vendor" /\ Top.next # "header"
  BY <1>1
<1>5. /\ Seen = Before(d, g)
      /\ getVendorID(0, d, 0) # NoVendor /\ Several(getHeaderType(0, d, 0))
  BY Zenon, <1>1, <1>2, <1>3, <1>4 DEF Within, Position
<1>6. CASE g = Functions
  <2>1. stack' = With(NextDevice) /\ visits' = visits
    BY Zenon, <1>2, <1>6 DEF CheckNextFunction
  <2>2. PICK loop \in Loop : loop = NextDevice
    BY <1>1, TopIs, NextDeviceType
  <2>3. loop = [bus |-> 0, device |-> d + 1, function |-> 1, next |-> "vendor"]
    BY Zenon, <1>2, <1>3, <2>2 DEF NextDevice
  <2>4. loop.bus = 0 /\ loop.device = d + 1 /\ loop.next = "vendor" /\ loop.function = 1
    BY <2>3
  <2>5. Before(d + 1, 0) = Before(d, g)
    BY Zenon, <1>6, BeforeSkips
  <2>6. Within(loop, Before(d, g))
    BY Zenon, <2>4, <2>5 DEF Within, Position
  <2>7. Seen' = Before(d, g) /\ Counted'
    BY Zenon, <1>5, <2>1, SameSeen
  <2>8. PICK seen : seen = Before(d, g)
    OBVIOUS
  <2> QED
    BY Zenon, <1>1, <2>1, <2>2, <2>6, <2>7, <2>8, LoopGoesOn
<1>7. CASE g # Functions
  <2>1. /\ g \in 1..Functions - 1 /\ g \in 0..Functions - 1 /\ g \in Nat
        /\ g + 1 \in 1..Functions
    BY <1>2, <1>7, SizesAssumption
  <2>2. PICK loop \in Loop : loop = [top EXCEPT !.function = @ + 1]
    BY <1>2, <2>1 DEF Loop
  <2>3. /\ loop.bus = 0 /\ loop.device = d /\ loop.next = "functions"
        /\ loop.function = g + 1
    BY <1>1, <1>2, <1>3, <2>2 DEF Loop
  <2>4. Position(loop) = g + 1
    BY <2>3 DEF Position
  <2>5. Within(loop, Before(d, g + 1))
    BY Zenon, <1>1, <1>2, <1>5, <2>3, <2>4 DEF Within
  <2>6. PICK seen : seen = Before(d, g + 1)
    OBVIOUS
  <2>7. CASE getVendorID(0, d, g) = NoVendor
    <3>1. stack' = With(loop) /\ visits' = visits
      BY Zenon, <1>2, <1>3, <1>7, <2>2, <2>7 DEF CheckNextFunction
    <3>2. Before(d, g + 1) = Before(d, g)
      BY Zenon, <2>1, <2>7, BeforeSkips
    <3>3. Seen' = Before(d, g + 1) /\ Counted'
      BY Zenon, <1>5, <3>1, <3>2, SameSeen
    <3> QED
      BY Zenon, <1>1, <2>2, <2>5, <2>6, <3>1, <3>3, LoopGoesOn
  <2>8. CASE getVendorID(0, d, g) # NoVendor
    <3>1. checkFunction(g, loop)
      BY Zenon, <1>2, <1>3, <1>7, <2>2, <2>8 DEF CheckNextFunction
    <3>2. /\ stack' = With(loop) /\ visits' = Append(visits, <<0, d, g>>)
          /\ <<0, d, g>> \in Places
      BY <1>1, <1>2, <2>1, <3>1, Checked
    <3>3. /\ <<0, d, g>> \notin Before(d, g)
          /\ Before(d, g) \union {<<0, d, g>>} = Before(d, g + 1)
      BY Zenon, <1>5, <2>1, <2>8, BeforeGrows
    <3>4. visits \in Seq(Places)
      BY DEF IInv, TypeOK
    <3>5. Seen' = Before(d, g + 1) /\ Counted'
      BY Zenon, <1>5, <3>2, <3>3, <3>4, SeenNext
    <3> QED
      BY Zenon, <1>1, <2>2, <2>5, <2>6, <3>2, <3>5, LoopGoesOn
  <2> QED
    BY <2>7, <2>8
<1> QED
  BY <1>6, <1>7

LEMMA EndBusWalks ==
  ASSUME IInv, Walking, Counted, EndBus
  PROVE  WalkInv'
<1>1. /\ stack # << >> /\ Top.device = Devices
      /\ stack' = SubSeq(stack, 1, Len(stack) - 1)
      /\ UNCHANGED <<machine, walk, visits>>
  BY Zenon DEF EndBus
<1>2. Within(Top, Seen) /\ Top.device \in 0..Devices
  BY <1>1, TopIs
<1>3. Top.next = "vendor"
  <2>1. ~(Top.device < Devices)
    BY <1>1, SizesAssumption
  <2> QED
    BY Zenon, <1>2, <2>1 DEF Within
<1>4. Seen = OnBus(0)
  <2>1. Seen = Before(Devices, 0)
    BY Zenon, <1>1, <1>2, <1>3 DEF Within, Position
  <2> QED
    BY Zenon, <2>1, BeforeAll
<1>5. stack' = << >>
  <2>1. stack \in Seq(Loop) /\ Len(stack) = 1
    BY Zenon, <1>1, OneLoop
  <2>2. Len(stack) - 1 = 0
    BY <2>1
  <2>3. stack' = SubSeq(stack, 1, 0)
    BY Zenon, <1>1, <2>2
  <2>4. stack' \in Seq(Loop) /\ Len(stack') = 0
    BY <2>1, <2>3, SubSeqProperties
  <2> QED
    BY <2>4, EmptySeq
<1>6. walk \notin {"start", "hosts"}
  BY Zenon, <1>1 DEF Walking
<1>7. Seen' = OnBus(0)' /\ Counted'
  BY Zenon, <1>1, <1>4, SameSeen, SameMachine
<1> QED
  BY Zenon, <1>1, <1>5, <1>6, <1>7 DEF WalkInv, Walking

LEMMA CheckHostWalks ==
  ASSUME IInv, OneHost, Walking, Counted, CheckHost
  PROVE  WalkInv'
<1>1. /\ walk = "start" /\ headerType' = getHeaderType(0, 0, 0)
      /\ UNCHANGED <<machine, visits>>
  BY Zenon DEF CheckHost
<1>2. walk' = "end" /\ stack' = << OpenLoop(0) >>
  BY Zenon, <1>1 DEF CheckHost, OneHost
<1>3. Seen = {} /\ Seen' = {} /\ Counted'
  BY Zenon, <1>1, SameSeen DEF Walking
<1>4. PICK loop \in Loop : loop = OpenLoop(0)
  <2>1. 0 \in Byte
    BY DEF Byte
  <2> QED
    BY <2>1, OpenLoopType
<1>5. stack' # << >> /\ Top' = loop
  <2>1. stack' = << loop >>
    BY Zenon, <1>2, <1>4
  <2>2. Len(<< loop >>) = 1 /\ << loop >>[1] = loop /\ << loop >> # << >>
    OBVIOUS
  <2> QED
    BY Zenon, <2>1, <2>2 DEF Top
<1>6. loop.bus = 0 /\ loop.device = 0 /\ loop.function = 1 /\ loop.next = "vendor"
  BY <1>4 DEF OpenLoop
<1>7. Within(loop, {})
  BY Zenon, <1>6, BeforeNone DEF Within, Position
<1>8. Within(Top, Seen)'
  <2>1. PICK seen : seen = {}
    OBVIOUS
  <2> QED
    BY Zenon, <1>1, <1>3, <1>5, <1>7, <2>1, WithinTop
<1>9. walk' # "hosts" /\ walk' # "start"
  BY <1>2
<1> QED
  BY Zenon, <1>3, <1>5, <1>8, <1>9 DEF WalkInv, Walking

LEMMA WalkStep ==
  ASSUME IInv, WalkInv, [Next]_vars
  PROVE  WalkInv'
<1>1. UNCHANGED machine
  BY Zenon DEF Next, vars, CheckHost, CheckNextHost, CheckVendor, CheckHeader,
     CheckNextFunction, EndBus
<1> SUFFICES ASSUME OneHost PROVE WalkInv'
  BY Zenon, <1>1, SameMachine DEF WalkInv
<1>2. Walking /\ Counted
  BY Zenon DEF WalkInv
<1>3. CASE CheckNextHost
  BY Zenon, <1>2, <1>3 DEF CheckNextHost, Walking
<1>4. CASE UNCHANGED vars
  <2>1. UNCHANGED <<machine, walk, stack, visits>>
    BY <1>4 DEF vars
  <2>2. Seen' = Seen /\ Counted'
    BY Zenon, <1>2, <2>1, SameSeen
  <2>3. stack # << >> => Within(Top, Seen)'
    <3> SUFFICES ASSUME stack # << >> PROVE Within(Top, Seen)'
      OBVIOUS
    <3>1. PICK loop, seen : loop = Top /\ seen = Seen
      OBVIOUS
    <3>2. Within(loop, seen)
      BY Zenon, <1>2, <3>1 DEF Walking
    <3>3. Top' = loop /\ Seen' = seen
      BY Zenon, <2>1, <2>2, <3>1 DEF Top
    <3> QED
      BY Zenon, <1>1, <3>2, <3>3, WithinTop
  <2>4. OnBus(0)' = OnBus(0)
    BY Zenon, <1>1, SameMachine
  <2> QED
    BY Zenon, <1>2, <2>1, <2>2, <2>3, <2>4 DEF WalkInv, Walking
<1> QED
  BY Zenon, <1>2, <1>3, <1>4, CheckHostWalks, CheckVendorWalks, CheckHeaderWalks,
     CheckNextFunctionWalks, EndBusWalks
  DEF Next

LEMMA OnBusPlace == \A f \in OnBus(0) : f[1] = 0
BY DEF OnBus

(* For any number of devices and functions and any machine with one host       *)
(* controller: when the walk is over, it has checked each function of bus 0,   *)
(* and none of them twice.                                                     *)
THEOREM EachIsWalkedOnce == Spec => []WalkedOnce
<1>1. ASSUME IInv, WalkInv PROVE WalkedOnce
  <2> SUFFICES ASSUME Over, OneHost
               PROVE  LET onBus0 == {k \in DOMAIN visits : visits[k][1] = 0}
                      IN  /\ {visits[k] : k \in onBus0} = OnBus(0)
                          /\ Cardinality(onBus0) = Cardinality(OnBus(0))
    BY Zenon DEF WalkedOnce
  <2> DEFINE onBus0 == {k \in DOMAIN visits : visits[k][1] = 0}
  <2>1. Seen = OnBus(0) /\ Len(visits) = Cardinality(OnBus(0))
    BY Zenon, <1>1 DEF WalkInv, Walking, Over, Counted
  <2>2. \A k \in DOMAIN visits : visits[k][1] = 0
    BY Zenon, <2>1, OnBusPlace DEF Seen
  <2>3. onBus0 = DOMAIN visits
    BY Zenon, <2>2
  <2>4. DOMAIN visits = 1..Len(visits) /\ Len(visits) \in Nat
    BY <1>1 DEF IInv, TypeOK
  <2>5. Cardinality(1..Len(visits)) = Len(visits)
    <3>1. PICK n \in Nat : n = Len(visits)
      BY <2>4
    <3>2. Cardinality(1..n) = IF 1 > n THEN 0 ELSE n - 1 + 1
      BY FS_Interval
    <3>3. Cardinality(1..n) = n
      BY <3>2
    <3> QED
      BY <3>1, <3>3
  <2> HIDE DEF onBus0
  <2>6. {visits[k] : k \in onBus0} = OnBus(0)
    BY Zenon, <2>1, <2>3 DEF Seen
  <2>7. Cardinality(onBus0) = Cardinality(OnBus(0))
    BY Zenon, <2>1, <2>3, <2>4, <2>5
  <2> QED
    BY <2>6, <2>7 DEF onBus0
<1>2. Init => IInv
  BY InitInv
<1>3. IInv /\ [Next]_vars => IInv'
  BY StepInv
<1>4. IInv /\ WalkInv /\ [Next]_vars => WalkInv'
  BY WalkStep
<1> QED
  BY <1>1, <1>2, <1>3, <1>4, WalkInit, PTL DEF Spec
===============================================================================
