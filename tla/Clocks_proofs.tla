---------------------------- MODULE Clocks_proofs ----------------------------
(***************************************************************************)
(* The two clocks: wait is exact for a counter of every width, and what    *)
(* read_rtc returns was the time at one moment, for fields of every size.  *)
(***************************************************************************)
EXTENDS Timer, Rtc, TLAPS

-----------------------------------------------------------------------------
(***************************************************************************)
(* The timer.                                                              *)
(***************************************************************************)
\* Where the counter is on its way to end_ticks: before it by what is left of the
\* wait, less a turn if the wait runs over the end of the counter.
OnItsWay ==
  \/ ticks + (asked - elapsed) = end_ticks
  \/ ticks + (asked - elapsed) = end_ticks + Wrap

WaitInv ==
  caller = "waiting" =>
    /\ asked # 0 /\ elapsed <= asked
    /\ OnItsWay
    /\ looked => elapsed < asked

TimerInv == TimerTypes /\ WaitInv

LEMMA TimerInitInv == TimerInit => TimerInv
<1> SUFFICES ASSUME TimerInit PROVE TimerInv
  OBVIOUS
<1>1. 0 \in Count /\ 0 \in 0..Wrap
  BY WrapAssumption DEF WrapAssumption, Count
<1>2. TimerTypes
  BY <1>1 DEF TimerInit, TimerTypes
<1> QED
  BY <1>2 DEF TimerInit, TimerInv, WaitInv

LEMMA WaitStep ==
  ASSUME TimerInv, NEW d \in Durations, Wait(d)
  PROVE  TimerInv'
<1>1. d \in 1..Wrap - 1 /\ Wrap \in Nat
  BY WrapAssumption, DurationsAssumption DEF WrapAssumption, DurationsAssumption
<1>2. ticks \in 0..Wrap - 1 /\ ticks' = ticks
  BY DEF TimerInv, TimerTypes, Count, Wait
<1>3. Plus(ticks, d) \in Count
  BY <1>1, <1>2 DEF Plus, Count
<1>4. TimerTypes'
  BY <1>1, <1>3 DEF TimerInv, TimerTypes, Wait, Count
<1>5. OnItsWay'
  BY <1>1, <1>2 DEF OnItsWay, Wait, Plus
<1> QED
  BY <1>1, <1>4, <1>5 DEF TimerInv, WaitInv, Wait

LEMMA TickStep == TimerInv /\ PIT_irq_handler => TimerInv'
<1> SUFFICES ASSUME TimerInv, PIT_irq_handler PROVE TimerInv'
  OBVIOUS
<1>1. /\ ticks \in 0..Wrap - 1 /\ end_ticks \in 0..Wrap - 1 /\ Wrap \in Nat
      /\ asked \in 0..Wrap - 1 /\ elapsed \in 0..Wrap
  BY WrapAssumption DEF WrapAssumption, TimerInv, TimerTypes, Count
<1>2. ticks' = IF ticks = Wrap - 1 THEN 0 ELSE ticks + 1
  BY DEF PIT_irq_handler
<1>3. TimerTypes'
  <2>1. ticks' \in Count
    BY <1>1, <1>2 DEF Count
  <2>2. elapsed' \in 0..Wrap
    BY <1>1 DEF PIT_irq_handler
  <2> QED
    BY <2>1, <2>2 DEF TimerInv, TimerTypes, PIT_irq_handler
<1>4. WaitInv'
  <2> SUFFICES ASSUME caller = "waiting" PROVE WaitInv'
    BY DEF WaitInv, PIT_irq_handler
  <2>1. asked # 0 /\ elapsed < asked /\ OnItsWay
    BY DEF TimerInv, WaitInv, PIT_irq_handler
  <2>2. elapsed' = elapsed + 1 /\ asked' = asked /\ end_ticks' = end_ticks
    BY <1>1, <2>1 DEF PIT_irq_handler
  <2>3. OnItsWay'
    BY <1>1, <1>2, <2>1, <2>2 DEF OnItsWay
  <2>4. elapsed' <= asked'
    BY <1>1, <2>1, <2>2
  <2> QED
    BY <2>1, <2>2, <2>3, <2>4 DEF WaitInv, PIT_irq_handler
<1> QED
  BY <1>3, <1>4 DEF TimerInv

\* A look that does not end the loop comes before the wait is over.
LEMMA LookStep == TimerInv /\ Look => TimerInv'
<1> SUFFICES ASSUME TimerInv, Look PROVE TimerInv'
  OBVIOUS
<1>1. TimerTypes'
  BY DEF TimerInv, TimerTypes, Look
<1>2. WaitInv'
  <2> SUFFICES ASSUME caller' = "waiting" PROVE WaitInv'
    BY DEF WaitInv
  <2>1. /\ ticks # end_ticks /\ asked # 0 /\ elapsed <= asked /\ OnItsWay
        /\ UNCHANGED <<ticks, end_ticks, asked, elapsed>>
    BY DEF TimerInv, WaitInv, Look, Reached
  <2>2. elapsed < asked
    BY <2>1, WrapAssumption DEF WrapAssumption, TimerInv, TimerTypes, Count, OnItsWay
  <2> QED
    BY <2>1, <2>2 DEF WaitInv, OnItsWay
<1> QED
  BY <1>1, <1>2 DEF TimerInv

\* While wait loops, end_ticks is what is left of the wait ahead of ticks.
THEOREM TimerInvariance == TimerSpec => []TimerInv
<1>1. TimerInv /\ [TimerNext]_timer => TimerInv'
  <2>1. TimerInv /\ UNCHANGED timer => TimerInv'
    BY DEF TimerInv, TimerTypes, WaitInv, OnItsWay, timer
  <2> QED
    BY <2>1, WaitStep, TickStep, LookStep DEF TimerNext
<1> QED
  BY <1>1, TimerInitInv, PTL DEF TimerSpec

\* Types, for a counter of every width.
THEOREM TimerTypesCorrect == TimerSpec => []TimerTypes
<1>1. TimerInv => TimerTypes
  BY DEF TimerInv
<1> QED
  BY <1>1, TimerInvariance, PTL

\* The loop of wait never misses the value it waits for.
THEOREM WaitIsNeverLate == TimerSpec => []NeverLate
<1>1. TimerInv => NeverLate
  BY DEF TimerInv, WaitInv, NeverLate
<1> QED
  BY <1>1, TimerInvariance, PTL

\* wait returns after exactly the ticks it was asked for, over the wrap too.
THEOREM WaitIsExact == TimerSpec => ExactWait
<1>1. TimerInv /\ [TimerNext]_timer
        => [caller = "waiting" /\ caller' = "idle" => elapsed = asked]_timer
  <2> SUFFICES ASSUME TimerInv, TimerNext, caller = "waiting", caller' = "idle"
               PROVE  elapsed = asked
    OBVIOUS
  <2>1. ticks = end_ticks /\ elapsed <= asked /\ OnItsWay
    BY DEF TimerInv, WaitInv, TimerNext, Wait, PIT_irq_handler, Look, Reached
  <2> QED
    BY <2>1, WrapAssumption DEF WrapAssumption, TimerInv, TimerTypes, Count, OnItsWay
<1> QED
  BY <1>1, TimerInvariance, PTL DEF TimerSpec, ExactWait

-----------------------------------------------------------------------------
(***************************************************************************)
(* The real-time clock: first its numbers.                                 *)
(***************************************************************************)
LEMMA Sizes ==
  /\ Seconds \in Nat \ {0} /\ Half \in Nat \ {0} /\ Century \in Nat \ {0}
  /\ Ten \in Nat \ {0} /\ Nibble \in Nat \ {0} /\ PmBit \in Nat \ {0}
  /\ current_year \in Nat /\ Garbage \subseteq Byte
BY RtcAssumption DEF RtcAssumption

LEMMA Fields ==
  /\ Ten <= Nibble /\ PmBit % Nibble = 0
  /\ \A v \in (0..Seconds - 1) \union (0..Century - 1) : InDigits(v) \in Byte
  /\ \A h \in 0..2 * Half - 1 : InDigits(h) < PmBit
BY FieldsAssumption DEF FieldsAssumption

\* Quotient and remainder.
LEMMA Parts ==
  ASSUME NEW v \in Int, NEW m \in Nat \ {0}
  PROVE  /\ v \div m \in Int /\ v % m \in 0..m - 1
         /\ v = (v \div m) * m + (v % m)
<1>1. v \div m \in Int /\ v % m \in 0..m - 1
  OBVIOUS
<1>2. v = m * (v \div m) + (v % m)
  OBVIOUS
<1>3. m * (v \div m) = (v \div m) * m
  BY <1>1
<1> QED
  BY <1>1, <1>2, <1>3

LEMMA Positive ==
  ASSUME NEW v \in Nat, NEW m \in Nat \ {0}
  PROVE  v \div m \in Nat
OBVIOUS

LEMMA SameParts ==
  ASSUME NEW m \in Nat \ {0}, NEW x \in Int, NEW y \in Int,
         NEW c \in 0..m - 1, NEW d \in 0..m - 1, x * m + c = y * m + d
  PROVE  x = y /\ c = d
<1>1. ASSUME NEW u \in Int, NEW v \in Int, NEW e \in 0..m - 1, NEW f \in 0..m - 1,
             u * m + e = v * m + f
      PROVE  ~(u < v)
  <2> SUFFICES ASSUME u < v PROVE FALSE
    OBVIOUS
  <2>1. v - u \in Nat /\ v - u >= 1
    OBVIOUS
  <2>2. (v - u) * m >= m
    BY <2>1
  <2>3. v * m = u * m + (v - u) * m
    OBVIOUS
  <2>4. u * m \in Int /\ v * m \in Int /\ (v - u) * m \in Int
    OBVIOUS
  <2> HIDE <2>1
  <2> QED
    BY <1>1, <2>2, <2>3, <2>4
<1>2. x = y
  BY <1>1
<1>3. x * m \in Int
  OBVIOUS
<1> QED
  BY <1>2, <1>3

LEMMA PartsOfSum ==
  ASSUME NEW m \in Nat \ {0}, NEW x \in Int, NEW y \in 0..m - 1
  PROVE  (x * m + y) \div m = x /\ (x * m + y) % m = y
<1> DEFINE v == x * m + y
<1>1. v \in Int
  OBVIOUS
<1>2. v = x * m + y
  OBVIOUS
<1> HIDE DEF v
<1>3. v \div m \in Int /\ v % m \in 0..m - 1 /\ v = (v \div m) * m + (v % m)
  BY <1>1, Parts
<1>4. v \div m = x /\ v % m = y
  BY <1>2, <1>3, SameParts
<1> QED
  BY <1>4 DEF v

LEMMA DigitsOf ==
  ASSUME NEW v \in Nat
  PROVE  /\ InDigits(v) \in Nat /\ InDigits(v) >= v
         /\ InDigits(v) % Nibble = v % Ten /\ InDigits(v) \div Nibble = v \div Ten
<1>1. v \div Ten \in Nat /\ v % Ten \in 0..Ten - 1 /\ v = (v \div Ten) * Ten + (v % Ten)
  <2>1. Ten \in Nat \ {0} /\ v \in Int
    BY Sizes
  <2> QED
    BY <2>1, Parts, Positive
<1> DEFINE x == v \div Ten
           y == v % Ten
<1>2. InDigits(v) = x * Nibble + y
  BY DEF InDigits
<1>3. x \in Nat /\ y \in 0..Ten - 1 /\ v = x * Ten + y
  BY <1>1
<1> HIDE DEF x, y
<1>4. y \in 0..Nibble - 1 /\ y \in Nat
  BY <1>3, Sizes, Fields
<1>5. (x * Nibble + y) \div Nibble = x /\ (x * Nibble + y) % Nibble = y
  BY <1>3, <1>4, Sizes, PartsOfSum
<1>6. x * Nibble >= x * Ten
  <2>1. Nibble - Ten \in Nat
    BY Sizes, Fields
  <2>2. x * (Nibble - Ten) \in Nat
    BY <1>3, <2>1
  <2>3. x * Nibble = x * Ten + x * (Nibble - Ten)
    BY <1>3, Sizes
  <2>4. x * Nibble \in Int /\ x * Ten \in Int
    BY <1>3, Sizes
  <2> QED
    BY <2>2, <2>3, <2>4
<1>7. x * Nibble \in Nat /\ x * Ten \in Nat
  BY <1>3, Sizes
<1> QED
  BY <1>2, <1>3, <1>4, <1>5, <1>6, <1>7 DEF x, y

\* The two parts of a byte that is in digits give the number back.
LEMMA DigitsBack ==
  ASSUME NEW v \in Nat
  PROVE  (InDigits(v) % Nibble) + (InDigits(v) \div Nibble) * Ten = v
<1>1. v \div Ten \in Int /\ v % Ten \in Int /\ v = (v \div Ten) * Ten + (v % Ten)
  BY Sizes, Parts
<1>2. InDigits(v) % Nibble = v % Ten /\ InDigits(v) \div Nibble = v \div Ten
  BY DigitsOf
<1>3. (v \div Ten) * Ten \in Int
  BY <1>1, Sizes
<1> QED
  BY <1>1, <1>2, <1>3

\* The bit for the afternoon comes out of a byte as it went in.
LEMMA BitOut ==
  ASSUME NEW d \in Nat, d < PmBit
  PROVE  /\ d % PmBit = d /\ (PmBit + d) % PmBit = d
         /\ (PmBit + d) % Nibble = d % Nibble
<1>1. d % PmBit = d
  <2>1. d \in 0..PmBit - 1 /\ PmBit \in Nat \ {0} /\ 0 * PmBit + d = d
    BY Sizes
  <2> QED
    BY <2>1, PartsOfSum
<1>2. (PmBit + d) % PmBit = d
  <2>1. d \in 0..PmBit - 1 /\ PmBit \in Nat \ {0} /\ 1 * PmBit + d = PmBit + d
    BY Sizes
  <2> QED
    BY <2>1, PartsOfSum
<1>3. (PmBit + d) % Nibble = d % Nibble
  <2> DEFINE k == PmBit \div Nibble
             x == d \div Nibble
             y == d % Nibble
  <2>1. Nibble \in Nat \ {0} /\ PmBit \in Int /\ d \in Int
    BY Sizes
  <2>2. k \in Int /\ PmBit = k * Nibble + (PmBit % Nibble)
    BY <2>1, Parts
  <2>3. x \in Int /\ y \in 0..Nibble - 1 /\ d = x * Nibble + y
    BY <2>1, Parts
  <2>4. PmBit % Nibble = 0
    BY Fields
  <2>5. y = d % Nibble
    OBVIOUS
  <2> HIDE DEF k, x, y
  <2>6. k * Nibble \in Int /\ x * Nibble \in Int
    BY <2>1, <2>2, <2>3
  <2>7. (k + x) * Nibble = k * Nibble + x * Nibble /\ k + x \in Int
    BY <2>1, <2>2, <2>3
  <2>8. PmBit + d = (k + x) * Nibble + y
    BY <2>2, <2>3, <2>4, <2>6, <2>7
  <2>9. ((k + x) * Nibble + y) % Nibble = y
    BY <2>1, <2>3, <2>7, PartsOfSum
  <2> QED
    BY <2>5, <2>8, <2>9
<1> QED
  BY <1>1, <1>2, <1>3
-----------------------------------------------------------------------------
(***************************************************************************)
(* The hour.                                                               *)
(***************************************************************************)
OnDial(h) == IF h % Half = 0 THEN Half ELSE h % Half

LEMMA Dial ==
  ASSUME NEW h \in 0..2 * Half - 1
  PROVE  /\ h < Half => h % Half = h
         /\ h >= Half => h % Half = h - Half
         /\ OnDial(h) \in 1..Half /\ OnDial(h) \in 0..2 * Half - 1
<1>1. Half \in Nat \ {0}
  BY Sizes
<1>2. ASSUME h < Half PROVE h % Half = h
  <2>1. h \in 0..Half - 1 /\ 0 * Half + h = h
    BY <1>1, <1>2
  <2> QED
    BY <1>1, <2>1, PartsOfSum
<1>3. ASSUME h >= Half PROVE h % Half = h - Half
  <2>1. h - Half \in 0..Half - 1 /\ 1 * Half + (h - Half) = h
    BY <1>1, <1>3
  <2> QED
    BY <1>1, <2>1, PartsOfSum
<1>4. OnDial(h) \in 1..Half
  BY <1>1, <1>2, <1>3 DEF OnDial
<1> QED
  BY <1>1, <1>2, <1>3, <1>4

\* An hour fits below the bit for the afternoon, in digits or not.
LEMMA HourFits ==
  ASSUME NEW h \in 0..2 * Half - 1
  PROVE  /\ h \in Nat /\ h < PmBit
         /\ InDigits(h) \in Nat /\ InDigits(h) < PmBit
<1>1. h \in Nat /\ Half \in Nat /\ PmBit \in Nat
  BY Sizes
<1>2. InDigits(h) \in Nat /\ InDigits(h) >= h
  BY <1>1, DigitsOf
<1>3. InDigits(h) < PmBit
  BY Fields
<1> QED
  BY <1>1, <1>2, <1>3

LEMMA HourByteIs ==
  ASSUME NEW f \in Formats, NEW h
  PROVE  /\ f.h24 /\ f.binary => HourByte(f, h) = h
         /\ f.h24 /\ ~f.binary => HourByte(f, h) = InDigits(h)
         /\ ~f.h24 /\ f.binary => HourByte(f, h) = (IF h >= Half THEN PmBit ELSE 0) + OnDial(h)
         /\ ~f.h24 /\ ~f.binary =>
              HourByte(f, h) = (IF h >= Half THEN PmBit ELSE 0) + InDigits(OnDial(h))
BY Zenon DEF HourByte, Digits, OnDial

LEMMA RegistersAreBytes ==
  ASSUME NEW f \in Formats, NEW t \in Times
  PROVE  Registers(f, t) \in Raw
<1>1. t.second \in 0..Seconds - 1 /\ t.hour \in 0..2 * Half - 1 /\ t.year \in 0..Century - 1
  BY DEF Times
<1>2. ASSUME NEW v \in (0..Seconds - 1) \union (0..Century - 1) PROVE Digits(f, v) \in Byte
  <2>1. v \in Nat
    BY Sizes
  <2>2. InDigits(v) \in Byte /\ InDigits(v) >= v
    BY <2>1, Fields, DigitsOf
  <2>3. v \in Byte
    BY <2>1, <2>2, Sizes DEF Byte
  <2> QED
    BY Zenon, <2>2, <2>3 DEF Digits
<1>3. HourByte(f, t.hour) \in Byte
  <2>1. PICK h \in 0..2 * Half - 1 : h = t.hour
    BY <1>1
  <2>2. /\ h \in Nat /\ h < PmBit /\ InDigits(h) \in Nat /\ InDigits(h) < PmBit
        /\ OnDial(h) \in Nat /\ OnDial(h) < PmBit
        /\ InDigits(OnDial(h)) \in Nat /\ InDigits(OnDial(h)) < PmBit
    BY Dial, HourFits
  <2>3. /\ h \in Byte /\ InDigits(h) \in Byte
        /\ (IF h >= Half THEN PmBit ELSE 0) + OnDial(h) \in Byte
        /\ (IF h >= Half THEN PmBit ELSE 0) + InDigits(OnDial(h)) \in Byte
    BY <2>2, Sizes DEF Byte
  <2>4. HourByte(f, h) \in Byte
    BY Zenon, <2>3, HourByteIs
  <2> QED
    BY <2>1, <2>4
<1>4. Digits(f, t.second) \in Byte /\ Digits(f, t.year) \in Byte
  BY Zenon, <1>1, <1>2
<1> QED
  BY <1>3, <1>4 DEF Registers, Raw

\* The conversion takes a field out of its register again.
LEMMA FieldBack ==
  ASSUME format \in Formats, NEW v \in Nat
  PROVE  FromDigits(Digits(format, v)) = v
BY Zenon, DigitsBack DEF FromDigits, Digits

\* The second conversion: digits, with the bit for the afternoon beside them.
LEMMA HourOutOfDigits ==
  ASSUME format \in Formats, ~format.binary, NEW v \in Nat, InDigits(v) < PmBit
  PROVE  /\ HourFromDigits(InDigits(v)) = v
         /\ HourFromDigits(PmBit + InDigits(v)) = PmBit + v
<1> DEFINE d == InDigits(v)
<1>1. d \in Nat /\ d < PmBit
  BY DigitsOf
<1>2. (d % Nibble) + (d \div Nibble) * Ten = v
  BY DigitsBack
<1> HIDE DEF d
<1>3. d % PmBit = d /\ (PmBit + d) % PmBit = d /\ (PmBit + d) % Nibble = d % Nibble
  BY <1>1, BitOut
<1>4. PmBit \in Nat /\ ~(d >= PmBit) /\ PmBit + d >= PmBit
  BY <1>1, Sizes
<1>5. ~Pm(d) /\ Pm(PmBit + d)
  BY <1>4 DEF Pm
<1>6. /\ HourFromDigits(d) = (d % Nibble) + (d \div Nibble) * Ten + 0
      /\ HourFromDigits(PmBit + d) = (d % Nibble) + (d \div Nibble) * Ten + PmBit
  BY Zenon, <1>3, <1>5 DEF HourFromDigits
<1>7. HourFromDigits(d) = v + 0 /\ HourFromDigits(PmBit + d) = v + PmBit
  BY Zenon, <1>2, <1>6
<1> QED
  BY <1>4, <1>7 DEF d

\* What has become of the hour: right, or 12 at night and 0 at noon on the dial.
HourBecomes(h) ==
  IF format.h24 \/ h % Half # 0 THEN h ELSE IF h < Half THEN Half ELSE 0

LEMMA HourConverted ==
  ASSUME format \in Formats, NEW h \in 0..2 * Half - 1
  PROVE  Hour(HourByte(format, h)) = HourBecomes(h)
<1>1. /\ h \in Nat /\ h < PmBit /\ InDigits(h) < PmBit /\ Half \in Nat \ {0} /\ PmBit \in Nat
      /\ OnDial(h) \in Nat /\ OnDial(h) < PmBit /\ InDigits(OnDial(h)) < PmBit
      /\ OnDial(h) \in 1..Half
  BY Sizes, Dial, HourFits
<1>2. CASE format.h24
  <2>1. HourFromDigits(HourByte(format, h)) = h
    <3>1. CASE format.binary
      BY Zenon, <1>2, <3>1, HourByteIs DEF HourFromDigits
    <3>2. CASE ~format.binary
      <4>1. HourFromDigits(InDigits(h)) = h
        BY <1>1, <3>2, HourOutOfDigits
      <4> QED
        BY Zenon, <1>2, <3>2, <4>1, HourByteIs
    <3> QED
      BY <3>1, <3>2
  <2> QED
    BY Zenon, <1>2, <2>1 DEF Hour, HourBecomes
<1>3. CASE ~format.h24
  <2> DEFINE bit == IF h >= Half THEN PmBit ELSE 0
  <2>1. HourFromDigits(HourByte(format, h)) = bit + OnDial(h)
    <3>1. CASE format.binary
      BY Zenon, <1>3, <3>1, HourByteIs DEF HourFromDigits
    <3>2. CASE ~format.binary
      <4>1. /\ HourFromDigits(InDigits(OnDial(h))) = OnDial(h)
            /\ HourFromDigits(PmBit + InDigits(OnDial(h))) = PmBit + OnDial(h)
        BY <1>1, <3>2, HourOutOfDigits
      <4>2. 0 + InDigits(OnDial(h)) = InDigits(OnDial(h)) /\ 0 + OnDial(h) = OnDial(h)
        BY <1>1, DigitsOf
      <4> QED
        BY Zenon, <1>3, <3>2, <4>1, <4>2, HourByteIs
    <3> QED
      BY <3>1, <3>2
  <2> DEFINE x == bit + OnDial(h)
  <2>2. Hour(HourByte(format, h)) = IF Pm(x) THEN ((x % PmBit) + Half) % (2 * Half) ELSE x
    BY Zenon, <1>3, <2>1 DEF Hour
  <2>3. CASE h < Half
    <3>1. x = OnDial(h) /\ ~Pm(x)
      BY <1>1, <2>3 DEF Pm
    <3>2. h % Half = h
      BY <2>3, Dial
    <3> QED
      BY Zenon, <1>3, <2>2, <2>3, <3>1, <3>2 DEF HourBecomes, OnDial
  <2>4. CASE ~(h < Half)
    <3>1. x = PmBit + OnDial(h) /\ Pm(x)
      BY <1>1, <2>4 DEF Pm
    <3>2. x % PmBit = OnDial(h)
      BY <1>1, <3>1, BitOut
    <3>3. h % Half = h - Half
      BY <1>1, <2>4, Dial
    <3>4. Hour(HourByte(format, h)) = (OnDial(h) + Half) % (2 * Half)
      BY Zenon, <2>2, <3>1, <3>2
    <3>5. 2 * Half \in Nat \ {0}
      BY <1>1
    <3>6. CASE h = Half
      <4>1. h % Half = 0 /\ OnDial(h) = Half
        BY <1>1, <3>3, <3>6 DEF OnDial
      <4>2. (1 * (2 * Half) + 0) % (2 * Half) = 0
        <5>1. 0 \in 0..2 * Half - 1
          BY <1>1
        <5> QED
          BY <3>5, <5>1, PartsOfSum
      <4>3. OnDial(h) + Half = 1 * (2 * Half) + 0
        BY <1>1, <4>1
      <4> QED
        BY Zenon, <1>3, <2>4, <3>4, <4>1, <4>2, <4>3 DEF HourBecomes
    <3>7. CASE h # Half
      <4>1. h % Half # 0 /\ OnDial(h) + Half = h
        BY <1>1, <2>4, <3>3, <3>7 DEF OnDial
      <4>2. h % (2 * Half) = h
        <5>1. 0 * (2 * Half) + h = h
          BY <1>1
        <5> QED
          BY <3>5, <5>1, PartsOfSum
      <4> QED
        BY Zenon, <3>4, <4>1, <4>2 DEF HourBecomes
    <3> QED
      BY <3>6, <3>7
  <2> QED
    BY <2>3, <2>4
<1> QED
  BY <1>2, <1>3

LEMMA HourType ==
  ASSUME NEW h \in 0..2 * Half - 1
  PROVE  HourBecomes(h) \in 0..2 * Half - 1
<1>1. 0 \in 0..2 * Half - 1 /\ Half \in 0..2 * Half - 1
  BY Sizes
<1> QED
  BY Zenon, <1>1 DEF HourBecomes

\* The year is the first from current_year on with these digits.
LEMMA YearConverted ==
  ASSUME NEW y \in 0..Century - 1
  PROVE  /\ Year(y) \in current_year..current_year + Century - 1
         /\ Year(y) \in Nat /\ Year(y) % Century = y
<1> DEFINE k == current_year \div Century
           c == current_year % Century
<1>1. current_year \in Nat /\ Century \in Nat \ {0}
  BY Sizes
<1>2. k \in Int /\ c \in 0..Century - 1 /\ current_year = k * Century + c
  BY <1>1, Parts
<1> DEFINE full == k * Century + y
<1>3. Year(y) = IF full < current_year THEN full + Century ELSE full
  BY DEF Year
<1> HIDE DEF k, c
<1>4. k * Century \in Int
  BY <1>1, <1>2
<1>5. full % Century = y
  BY <1>1, <1>2, PartsOfSum
<1>6. (full + Century) % Century = y
  <2>1. full + Century = (k + 1) * Century + y /\ k + 1 \in Int
    <3>1. (k + 1) * Century = k * Century + Century
      BY <1>1, <1>2
    <3> QED
      BY <1>1, <1>2, <1>4, <3>1
  <2>2. ((k + 1) * Century + y) % Century = y
    BY <1>1, <2>1, PartsOfSum
  <2> QED
    BY <2>1, <2>2
<1>7. CASE full < current_year
  <2>1. Year(y) = full + Century
    BY <1>3, <1>7
  <2>2. full + Century \in current_year..current_year + Century - 1 /\ full + Century \in Nat
    BY <1>1, <1>2, <1>4, <1>7
  <2> QED
    BY <1>6, <2>1, <2>2
<1>8. CASE ~(full < current_year)
  <2>1. Year(y) = full
    BY <1>3, <1>8
  <2>2. full \in current_year..current_year + Century - 1 /\ full \in Nat
    BY <1>1, <1>2, <1>4, <1>8
  <2> QED
    BY <1>5, <2>1, <2>2
<1> QED
  BY <1>7, <1>8
-----------------------------------------------------------------------------
(***************************************************************************)
(* The reads.  since says how long ago the last update began: in the round *)
(* of reads it began in it is 0, in the two after it 1 and 2.              *)
(***************************************************************************)
IsTime(r) == \E t \in Times : r = Registers(format, t)

ChipInv ==
  /\ \A r \in shown : IsTime(r)
  /\ pc \notin {"write", "written"} => regs \in shown
  /\ pc \in {"write", "written"} => phase = "idle"
  /\ phase = "soon" => since = 3
  /\ phase = "updating" => since = 0

Place ==
  /\ pc \in {"read", "write"} => n \in 1..3
  /\ pc = "check" => n = 4

\* Unless an update began in this round, the reads agree with the registers.
SameSoFar == pc \in {"read", "check"} /\ since # 0 => \A i \in 1..n - 1 : now[i] = regs[i]

\* If it did, or still may, the round before was undisturbed.
LastWhole ==
  /\ ~first /\ pc = "wait" /\ since \in {2, 3} => last \in shown
  /\ ~first /\ pc \in {"read", "check"} /\ since \in {0, 3} => last \in shown

Conversion ==
  pc = "done" => result = [second |-> FromDigits(now[1]), hour |-> Hour(now[2]),
                           year |-> Year(FromDigits(now[3]))]

Reads == ChipInv /\ Place /\ SameSoFar /\ LastWhole /\ Untorn /\ Conversion

RtcInv == TypeOK /\ Reads

LEMMA LaterIsTime ==
  ASSUME NEW t \in Times
  PROVE  Later(t) \in Times
<1>1. /\ t.second \in 0..Seconds - 1 /\ t.hour \in 0..2 * Half - 1 /\ t.year \in 0..Century - 1
      /\ Seconds \in Nat \ {0} /\ 2 * Half \in Nat \ {0} /\ Century \in Nat \ {0}
  BY Sizes DEF Times
<1>2. /\ (t.second + 1) % Seconds \in 0..Seconds - 1
      /\ (t.hour + 1) % (2 * Half) \in 0..2 * Half - 1
      /\ (t.year + 1) % Century \in 0..Century - 1
  BY <1>1
<1> QED
  BY <1>1, <1>2 DEF Later, Times

LEMMA FollowingIsTime ==
  ASSUME TypeOK, IsTime(regs)
  PROVE  IsTime(Following(regs)) /\ Following(regs) \in Raw
<1>1. format \in Formats
  BY DEF TypeOK
<1> DEFINE t == CHOOSE t \in Times : Registers(format, t) = regs
<1>2. t \in Times
  BY Zenon DEF IsTime
<1>3. regs \in {Registers(format, u) : u \in Times}
  BY Zenon DEF IsTime
<1>4. Following(regs) = Registers(format, Later(t))
  BY Zenon, <1>1, <1>3 DEF Following, Followings
<1> HIDE DEF t
<1>5. Later(t) \in Times
  BY <1>2, LaterIsTime
<1> QED
  BY Zenon, <1>1, <1>4, <1>5, RegistersAreBytes DEF IsTime

LEMMA InitRtc == Init => RtcInv
<1> SUFFICES ASSUME Init PROVE RtcInv
  OBVIOUS
<1>1. PICK t \in Times : regs = Registers(format, t)
  BY DEF Init
<1>2. format \in Formats /\ shown = {regs}
  BY DEF Init
<1>3. regs \in Raw /\ IsTime(regs)
  BY Zenon, <1>1, <1>2, RegistersAreBytes DEF IsTime
<1>4. /\ phase = "idle" /\ since = 3 /\ pc = "wait" /\ n = 1 /\ first = TRUE
      /\ now = <<0, 0, 0>> /\ last = <<0, 0, 0>> /\ result = Unset
  BY DEF Init
<1>5. <<0, 0, 0>> \in Raw
  BY Sizes DEF Raw, Byte
<1>6. Unset \in [second : Byte, hour : 0..2 * Half - 1, year : Nat]
  BY Sizes DEF Unset, Byte
<1>7. TypeOK
  BY <1>2, <1>3, <1>4, <1>5, <1>6 DEF TypeOK
<1>8. Reads
  BY <1>2, <1>3, <1>4
  DEF Reads, ChipInv, Place, SameSoFar, LastWhole, Untorn, Conversion
<1> QED
  BY <1>7, <1>8 DEF RtcInv

LEMMA AnnounceStep == RtcInv /\ Announce => RtcInv'
<1> SUFFICES ASSUME RtcInv, Announce PROVE RtcInv'
  OBVIOUS
<1>1. /\ UNCHANGED <<regs, format, since, pc, n, first, now, last, result, shown>>
      /\ phase' = "soon" /\ since = 3 /\ pc \notin {"write", "written"}
  BY DEF Announce, program
<1>2. TypeOK'
  BY <1>1 DEF RtcInv, TypeOK
<1>3. ChipInv'
  BY <1>1 DEF RtcInv, Reads, ChipInv, IsTime
<1>4. Place' /\ SameSoFar' /\ LastWhole' /\ Untorn'
  BY <1>1 DEF RtcInv, Reads, Place, SameSoFar, LastWhole, Untorn
<1>5. Conversion'
  BY Zenon, <1>1 DEF RtcInv, Reads, Conversion, FromDigits, Hour, HourFromDigits
<1> QED
  BY <1>2, <1>3, <1>4, <1>5 DEF RtcInv, Reads

LEMMA StartUpdateStep == RtcInv /\ StartUpdate => RtcInv'
<1> SUFFICES ASSUME RtcInv, StartUpdate PROVE RtcInv'
  OBVIOUS
<1>1. /\ UNCHANGED <<regs, format, pc, n, first, now, last, result, shown>>
      /\ phase = "soon" /\ phase' = "updating" /\ since' = 0
  BY DEF StartUpdate, program
<1>2. TypeOK'
  BY <1>1 DEF RtcInv, TypeOK
<1>3. since = 3 /\ pc \notin {"write", "written"}
  BY <1>1 DEF RtcInv, Reads, ChipInv
<1>4. ChipInv'
  BY <1>1, <1>3 DEF RtcInv, Reads, ChipInv, IsTime
<1>5. LastWhole'
  BY <1>1, <1>3 DEF RtcInv, Reads, LastWhole
<1>6. Place' /\ SameSoFar' /\ Untorn'
  BY <1>1 DEF RtcInv, Reads, Place, SameSoFar, Untorn
<1>7. Conversion'
  BY Zenon, <1>1 DEF RtcInv, Reads, Conversion, FromDigits, Hour, HourFromDigits
<1> QED
  BY <1>2, <1>4, <1>5, <1>6, <1>7 DEF RtcInv, Reads

LEMMA EndUpdateStep == RtcInv /\ EndUpdate => RtcInv'
<1> SUFFICES ASSUME RtcInv, EndUpdate PROVE RtcInv'
  OBVIOUS
<1>1. /\ UNCHANGED <<format, since, pc, n, first, now, last, result>>
      /\ phase = "updating" /\ phase' = "idle"
      /\ regs' = Following(regs) /\ shown' = shown \union {Following(regs)}
  BY DEF EndUpdate, program
<1>2. since = 0 /\ pc \notin {"write", "written"}
  BY <1>1 DEF RtcInv, Reads, ChipInv
<1>3. IsTime(regs)
  BY <1>2 DEF RtcInv, Reads, ChipInv
<1>4. IsTime(Following(regs)) /\ Following(regs) \in Raw
  BY <1>3, FollowingIsTime DEF RtcInv
<1>5. TypeOK'
  BY <1>1, <1>4 DEF RtcInv, TypeOK
<1>6. ChipInv'
  BY <1>1, <1>2, <1>4 DEF RtcInv, Reads, ChipInv, IsTime
<1>7. Place' /\ SameSoFar' /\ LastWhole' /\ Untorn'
  BY <1>1, <1>2 DEF RtcInv, Reads, Place, SameSoFar, LastWhole, Untorn
<1>8. Conversion'
  BY Zenon, <1>1 DEF RtcInv, Reads, Conversion, FromDigits, Hour, HourFromDigits
<1> QED
  BY <1>5, <1>6, <1>7, <1>8 DEF RtcInv, Reads

LEMMA WaitReadyStep == RtcInv /\ WaitReady => RtcInv'
<1> SUFFICES ASSUME RtcInv, WaitReady PROVE RtcInv'
  OBVIOUS
<1>1. /\ UNCHANGED <<regs, format, phase, first, now, last, result, shown>>
      /\ pc = "wait" /\ phase = "idle" /\ pc' = "read" /\ n' = 1
      /\ since' = IF since < 3 THEN since + 1 ELSE since
  BY DEF WaitReady
<1>2. since \in 0..3
  BY DEF RtcInv, TypeOK
<1>3. TypeOK'
  BY <1>1, <1>2 DEF RtcInv, TypeOK
<1>4. ChipInv'
  BY <1>1 DEF RtcInv, Reads, ChipInv, IsTime
<1>5. LastWhole'
  BY <1>1, <1>2 DEF RtcInv, Reads, LastWhole
<1>6. Place' /\ SameSoFar' /\ Untorn' /\ Conversion'
  BY <1>1 DEF Place, SameSoFar, Untorn, Conversion
<1> QED
  BY <1>3, <1>4, <1>5, <1>6 DEF RtcInv, Reads

LEMMA ReadStep == RtcInv /\ get_RTC_register => RtcInv'
<1> SUFFICES ASSUME RtcInv, get_RTC_register PROVE RtcInv'
  OBVIOUS
<1>1. /\ UNCHANGED <<regs, format, phase, since, first, last, result, shown>>
      /\ pc = "read" /\ n' = n + 1 /\ pc' = IF n = 3 THEN "check" ELSE "read"
  BY DEF get_RTC_register, chip
<1>2. PICK c \in Seen(n) : now' = [now EXCEPT ![n] = c]
  BY DEF get_RTC_register
<1>3. n \in 1..3 /\ now \in Raw /\ regs \in Raw
  BY <1>1 DEF RtcInv, TypeOK, Reads, Place
<1>4. IsTime(regs)
  BY <1>1 DEF RtcInv, Reads, ChipInv
<1>5. c \in Byte
  <2>1. Following(regs) \in Raw
    BY <1>4, FollowingIsTime DEF RtcInv
  <2>2. regs[n] \in Byte /\ Following(regs)[n] \in Byte /\ Garbage \subseteq Byte
    BY <1>3, <2>1, Sizes DEF Raw
  <2> QED
    BY Zenon, <2>2, <1>2 DEF Seen
<1>6. now' \in Raw /\ now'[n] = c /\ \A i \in 1..n - 1 : now'[i] = now[i]
  BY <1>2, <1>3, <1>5 DEF Raw
<1>7. n' \in 1..4
  BY <1>1, <1>3
<1>8. TypeOK'
  BY <1>1, <1>6, <1>7 DEF RtcInv, TypeOK
<1>9. SameSoFar'
  <2> SUFFICES ASSUME since # 0, NEW i \in 1..n PROVE now'[i] = regs[i]
    BY <1>1, <1>3 DEF SameSoFar
  <2>1. phase # "updating"
    BY DEF RtcInv, Reads, ChipInv
  <2>2. c = regs[n]
    BY Zenon, <1>2, <2>1 DEF Seen
  <2>3. \A j \in 1..n - 1 : now[j] = regs[j]
    BY <1>1 DEF RtcInv, Reads, SameSoFar
  <2> QED
    BY <1>3, <1>6, <2>2, <2>3
<1>10. ChipInv'
  BY <1>1 DEF RtcInv, Reads, ChipInv, IsTime
<1>11. Place' /\ LastWhole' /\ Untorn' /\ Conversion'
  BY <1>1, <1>3 DEF RtcInv, Reads, Place, LastWhole, Untorn, Conversion
<1> QED
  BY <1>8, <1>9, <1>10, <1>11 DEF RtcInv, Reads

LEMMA CheckStep == RtcInv /\ CheckRound => RtcInv'
<1> SUFFICES ASSUME RtcInv, CheckRound PROVE RtcInv'
  OBVIOUS
<1>1. /\ UNCHANGED <<regs, format, phase, since, n, now, result, shown>>
      /\ pc = "check"
  BY DEF CheckRound, chip
<1>2. n = 4 /\ now \in Raw /\ regs \in Raw /\ regs \in shown /\ since \in 0..3
  BY <1>1 DEF RtcInv, TypeOK, Reads, Place, ChipInv
<1>3. since # 0 => now \in shown
  <2> SUFFICES ASSUME since # 0 PROVE now = regs
    BY <1>2
  <2>1. \A i \in 1..3 : now[i] = regs[i]
    BY <1>1, <1>2 DEF RtcInv, Reads, SameSoFar
  <2> QED
    BY <1>2, <2>1 DEF Raw
<1>4. ChipInv' /\ Place'
  BY <1>1 DEF RtcInv, Reads, ChipInv, IsTime, Place, CheckRound
<1>5. CASE first \/ Differ
  <2>1. last' = now /\ ~first' /\ pc' = "wait" /\ first' \in BOOLEAN
    BY Zenon, <1>5 DEF CheckRound, Remembered
  <2>2. TypeOK'
    BY <1>1, <1>2, <2>1 DEF RtcInv, TypeOK
  <2>3. LastWhole'
    BY <1>1, <1>3, <2>1 DEF LastWhole
  <2>4. SameSoFar' /\ Untorn' /\ Conversion'
    BY <2>1 DEF SameSoFar, Untorn, Conversion
  <2> QED
    BY <1>4, <2>2, <2>3, <2>4 DEF RtcInv, Reads
<1>6. CASE ~(first \/ Differ)
  <2>1. last' = last /\ first' = first /\ pc' = "convert" /\ ~first /\ last = now
    BY Zenon, <1>6 DEF CheckRound, Differ
  <2>2. TypeOK'
    BY <1>1, <2>1 DEF RtcInv, TypeOK
  <2>3. now \in shown
    <3>1. CASE since = 0
      BY <1>1, <2>1, <3>1 DEF RtcInv, Reads, LastWhole
    <3> QED
      BY <1>3, <3>1
  <2>4. LastWhole' /\ SameSoFar' /\ Untorn' /\ Conversion'
    BY <1>1, <2>1, <2>3 DEF LastWhole, SameSoFar, Untorn, Conversion
  <2> QED
    BY <1>4, <2>2, <2>4 DEF RtcInv, Reads
<1> QED
  BY <1>5, <1>6

\* What the conversion makes of the registers of a time.
LEMMA TimeConverted ==
  ASSUME format \in Formats, NEW t \in Times, now = Registers(format, t)
  PROVE  /\ FromDigits(now[1]) = t.second /\ t.second \in Byte
         /\ Hour(now[2]) = HourBecomes(t.hour) /\ t.hour \in 0..2 * Half - 1
         /\ FromDigits(now[3]) = t.year /\ t.year \in 0..Century - 1
<1>1. t.second \in 0..Seconds - 1 /\ t.hour \in 0..2 * Half - 1 /\ t.year \in 0..Century - 1
  BY DEF Times
<1>2. /\ now[1] = Digits(format, t.second) /\ now[2] = HourByte(format, t.hour)
      /\ now[3] = Digits(format, t.year)
  BY DEF Registers
<1>3. t.second \in Nat /\ t.year \in Nat
  BY <1>1
<1>4. FromDigits(now[1]) = t.second /\ FromDigits(now[3]) = t.year
  BY Zenon, <1>2, <1>3, FieldBack
<1>5. Hour(now[2]) = HourBecomes(t.hour)
  BY Zenon, <1>1, <1>2, HourConverted
<1>6. t.second \in Byte
  <2>1. InDigits(t.second) \in Byte /\ InDigits(t.second) >= t.second
    BY <1>1, <1>3, Fields, DigitsOf
  <2> QED
    BY <1>3, <2>1, Sizes DEF Byte
<1> QED
  BY <1>1, <1>4, <1>5, <1>6

LEMMA ConvertStep == RtcInv /\ Convert => RtcInv'
<1> SUFFICES ASSUME RtcInv, Convert PROVE RtcInv'
  OBVIOUS
<1>1. /\ UNCHANGED <<regs, format, phase, since, n, first, now, last, shown>>
      /\ pc = "convert" /\ pc' = "done"
      /\ result' = [second |-> FromDigits(now[1]), hour |-> Hour(now[2]),
                    year |-> Year(FromDigits(now[3]))]
  BY DEF Convert, chip
<1>2. format \in Formats /\ now \in shown /\ IsTime(now)
  BY <1>1 DEF RtcInv, TypeOK, Reads, Untorn, ChipInv
<1>3. PICK t \in Times : now = Registers(format, t)
  BY Zenon, <1>2 DEF IsTime
<1>4. /\ FromDigits(now[1]) \in Byte /\ Hour(now[2]) \in 0..2 * Half - 1
      /\ Year(FromDigits(now[3])) \in Nat
  BY Zenon, <1>2, <1>3, TimeConverted, HourType, YearConverted
<1>5. result' \in [second : Byte, hour : 0..2 * Half - 1, year : Nat]
  BY <1>1, <1>4
<1>6. TypeOK'
  BY <1>1, <1>5 DEF RtcInv, TypeOK
<1>7. ChipInv' /\ Place' /\ SameSoFar' /\ LastWhole' /\ Untorn'
  BY <1>1, <1>2 DEF RtcInv, Reads, ChipInv, IsTime, Place, SameSoFar, LastWhole, Untorn
<1>8. Conversion'
  BY Zenon, <1>1 DEF Conversion, FromDigits, Hour, HourFromDigits
<1> QED
  BY <1>6, <1>7, <1>8 DEF RtcInv, Reads

LEMMA WaitToWriteStep == RtcInv /\ WaitToWrite => RtcInv'
<1> SUFFICES ASSUME RtcInv, WaitToWrite PROVE RtcInv'
  OBVIOUS
<1>1. /\ UNCHANGED <<regs, format, phase, since, first, now, last, result, shown>>
      /\ pc' = "write" /\ n' = 1 /\ phase = "idle"
  BY DEF WaitToWrite, chip
<1>2. TypeOK'
  BY <1>1 DEF RtcInv, TypeOK
<1>3. Reads'
  BY <1>1
  DEF RtcInv, Reads, ChipInv, IsTime, Place, SameSoFar, LastWhole, Untorn, Conversion
<1> QED
  BY <1>2, <1>3 DEF RtcInv

LEMMA WriteRegisterStep == RtcInv /\ WriteRegister => RtcInv'
<1> SUFFICES ASSUME RtcInv, WriteRegister PROVE RtcInv'
  OBVIOUS
<1>1. /\ UNCHANGED <<format, phase, since, first, now, last, result, shown>>
      /\ pc = "write" /\ n' = n + 1 /\ pc' = IF n = 3 THEN "written" ELSE "write"
      /\ regs' = [regs EXCEPT ![n] = Written[n]]
  BY DEF WriteRegister
<1>2. n \in 1..3 /\ regs \in Raw /\ phase = "idle"
  BY <1>1 DEF RtcInv, TypeOK, Reads, Place, ChipInv
<1>3. Written[n] \in Byte
  <2>1. result.second \in Byte /\ result.hour \in 0..2 * Half - 1 /\ result.year \in Nat
    BY DEF RtcInv, TypeOK
  <2>2. result.hour \in Byte
    BY <2>1, HourFits, Sizes DEF Byte
  <2>3. result.year % (2 * PmBit) \in Byte
    <3>1. 2 * PmBit \in Nat \ {0} /\ result.year \in Int
      BY <2>1, Sizes
    <3> QED
      BY <3>1, Parts DEF Byte
  <2> QED
    BY <1>2, <2>1, <2>2, <2>3 DEF Written
<1>4. regs' \in Raw
  BY <1>1, <1>2, <1>3 DEF Raw
<1>5. TypeOK'
  BY <1>1, <1>2, <1>4 DEF RtcInv, TypeOK
<1>6. Reads'
  BY <1>1, <1>2
  DEF RtcInv, Reads, ChipInv, IsTime, Place, SameSoFar, LastWhole, Untorn, Conversion
<1> QED
  BY <1>5, <1>6 DEF RtcInv

\* The invariant of read_rtc's rounds: reads since the last update agree with the
\* registers, and a round with no update in it read one time.
THEOREM RtcInvariance == Spec => []RtcInv
<1>1. RtcInv /\ UNCHANGED vars => RtcInv'
  <2> SUFFICES ASSUME RtcInv, UNCHANGED vars PROVE RtcInv'
    OBVIOUS
  <2>1. UNCHANGED <<regs, format, phase, since, pc, n, first, now, last, result, shown>>
    BY DEF vars, chip, program
  <2>2. TypeOK'
    BY <2>1 DEF RtcInv, TypeOK
  <2>3. ChipInv' /\ Place' /\ SameSoFar' /\ LastWhole' /\ Untorn'
    BY <2>1 DEF RtcInv, Reads, ChipInv, IsTime, Place, SameSoFar, LastWhole, Untorn
  <2>4. Conversion'
    BY Zenon, <2>1 DEF RtcInv, Reads, Conversion, FromDigits, Hour, HourFromDigits
  <2> QED
    BY <2>2, <2>3, <2>4 DEF RtcInv, Reads
<1>2. RtcInv /\ [Next]_vars => RtcInv'
  BY <1>1, AnnounceStep, StartUpdateStep, EndUpdateStep, WaitReadyStep, ReadStep,
     CheckStep, ConvertStep, WaitToWriteStep, WriteRegisterStep
  DEF Next, Chip, Program
<1> QED
  BY <1>2, InitRtc, PTL DEF Spec

\* Types: whatever is read, converted and written back fits where it is kept.
THEOREM RtcTypesCorrect == Spec => []TypeOK
<1>1. RtcInv => TypeOK
  BY DEF RtcInv
<1> QED
  BY <1>1, RtcInvariance, PTL

\* For fields of every size and whatever a read during an update returns: what
\* read_rtc ends with was in the registers at one moment.
THEOREM NothingTorn == Spec => []Untorn
<1>1. RtcInv => Untorn
  BY DEF RtcInv, Reads
<1> QED
  BY <1>1, RtcInvariance, PTL

\* For fields of every size: the conversion of read_rtc gives back the time that
\* the registers stood for, twelve o'clock in the 12-hour formats aside.
THEOREM ConversionIsRight == Spec => []Converted
<1>1. RtcInv => Converted
  <2> SUFFICES ASSUME RtcInv, pc = "done", NEW t \in Times, now = Registers(format, t)
               PROVE  /\ result.second = t.second
                      /\ format.h24 \/ t.hour % Half # 0 => result.hour = t.hour
                      /\ result.year \in current_year..current_year + Century - 1
                      /\ result.year % Century = t.year
    BY DEF Converted
  <2>1. /\ result.second = FromDigits(now[1]) /\ result.hour = Hour(now[2])
        /\ result.year = Year(FromDigits(now[3]))
    BY DEF RtcInv, Reads, Conversion
  <2>2. format \in Formats
    BY DEF RtcInv, TypeOK
  <2>3. result.second = t.second /\ result.hour = HourBecomes(t.hour)
    BY Zenon, <2>1, <2>2, TimeConverted
  <2>4. format.h24 \/ t.hour % Half # 0 => result.hour = t.hour
    BY Zenon, <2>3 DEF HourBecomes
  <2>5. result.year = Year(t.year) /\ t.year \in 0..Century - 1
    BY Zenon, <2>1, <2>2, TimeConverted
  <2>6. /\ result.year \in current_year..current_year + Century - 1
        /\ result.year % Century = t.year
    BY Zenon, <2>5, YearConverted
  <2> QED
    BY <2>3, <2>4, <2>6
<1> QED
  BY <1>1, RtcInvariance, PTL
=============================================================================
