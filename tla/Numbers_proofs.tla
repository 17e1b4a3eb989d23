--------------------------- MODULE Numbers_proofs ---------------------------
(***************************************************************************)
(* Division is right for words of every width, and what printf puts out    *)
(* for a number denotes it, in every radix.                                *)
(***************************************************************************)
EXTENDS Numbers, SequenceTheorems, WellFoundedInduction, TLAPS

\* What has been subtracted so far, as long as there is something to subtract.
LoopInv == b # 0 => quotient * b + a = dividend

DivisionInv == DivisionTypes /\ LoopInv /\ (pc = "return" => a < b)

\* One more subtraction, in numbers.
LEMMA OneMore ==
  ASSUME NEW q \in Nat, NEW x \in Nat, NEW y \in Nat, x >= y
  PROVE  (q + 1) * y + (x - y) = q * y + x
<1>1. (q + 1) * y = q * y + y
  OBVIOUS
<1> QED
  BY <1>1

\* As many subtractions as there have been, the dividend is at least as large.
LEMMA CountBelow ==
  ASSUME NEW q \in Nat, NEW y \in Nat \ {0}
  PROVE  q * y >= q
OBVIOUS

LEMMA SubtractStep == DivisionInv /\ Subtract => DivisionInv'
<1> SUFFICES ASSUME DivisionInv, Subtract PROVE DivisionInv'
  OBVIOUS
<1>1. /\ a \in Word /\ b \in Word /\ quotient \in Word /\ dividend \in Word
      /\ MaxWord \in Nat /\ a >= b
  BY MaxWordAssumption DEF MaxWordAssumption, DivisionInv, DivisionTypes, Subtract, GoesOn
<1>2. a' = a - b /\ b' = b /\ dividend' = dividend /\ pc' = "loop"
  BY DEF Subtract
<1>3. a' \in Word
  BY <1>1, <1>2 DEF Word
<1>4. quotient' \in Word
  <2>1. quotient' = (quotient + 1) % (MaxWord + 1)
    BY DEF Subtract
  <2>2. (quotient + 1) % (MaxWord + 1) \in 0..MaxWord
    BY <1>1 DEF Word
  <2> QED
    BY <2>1, <2>2 DEF Word
<1>5. LoopInv'
  <2> SUFFICES ASSUME b # 0 PROVE quotient' * b + a' = dividend
    BY <1>2 DEF LoopInv
  <2>1. quotient * b + a = dividend
    BY DEF DivisionInv, LoopInv
  <2>2. (quotient + 1) * b + (a - b) = dividend
    BY <1>1, <2>1, OneMore DEF Word
  <2>3. quotient + 1 <= MaxWord
    <3>1. (quotient + 1) * b >= quotient + 1
      BY <1>1, CountBelow DEF Word
    <3>2. (quotient + 1) * b \in Nat /\ a - b \in Nat /\ dividend <= MaxWord
      BY <1>1 DEF Word
    <3> QED
      BY <1>1, <2>2, <3>1, <3>2 DEF Word
  <2>4. quotient' = quotient + 1
    BY <1>1, <2>3 DEF Subtract, Word
  <2> QED
    BY <1>2, <2>2, <2>4
<1> QED
  BY <1>1, <1>2, <1>3, <1>4, <1>5 DEF DivisionInv, DivisionTypes

LEMMA ReturnStep == DivisionInv /\ Return => DivisionInv'
<1> SUFFICES ASSUME DivisionInv, Return PROVE DivisionInv'
  OBVIOUS
<1>1. a < b
  BY DEF DivisionInv, DivisionTypes, Word, Return, GoesOn
<1> QED
  BY <1>1 DEF DivisionInv, DivisionTypes, LoopInv, Return

LEMMA CallStep == ASSUME DivisionInv, NEW x \in Word, NEW y \in Word, Call(x, y) PROVE DivisionInv'
<1>1. 0 \in Word
  BY MaxWordAssumption DEF MaxWordAssumption, Word
<1> QED
  BY <1>1 DEF DivisionInv, DivisionTypes, LoopInv, Call, Word

\* The invariant of the loop, for words of every width: a wrap is never reached.
THEOREM DivisionInvariance == DivisionSpec => []DivisionInv
<1>1. DivisionInit => DivisionInv
  BY MaxWordAssumption
  DEF MaxWordAssumption, DivisionInit, DivisionInv, DivisionTypes, LoopInv, Word
<1>2. ASSUME DivisionInv, [Loop \/ \E x, y \in Word : Call(x, y)]_division PROVE DivisionInv'
  <2>1. CASE Subtract
    BY <1>2, <2>1, SubtractStep
  <2>2. CASE Return
    BY <1>2, <2>2, ReturnStep
  <2>3. CASE \E x, y \in Word : Call(x, y)
    BY <1>2, <2>3, CallStep
  <2>4. CASE UNCHANGED division
    BY <1>2, <2>4 DEF DivisionInv, DivisionTypes, LoopInv, division
  <2> QED
    BY <1>2, <2>1, <2>2, <2>3, <2>4 DEF Loop
<1> QED
  BY <1>1, <1>2, PTL DEF DivisionSpec

\* For words of every width, and every two of them: what the loop returns is the
\* quotient and the remainder.
THEOREM DivisionIsRight == DivisionSpec => []Divides
<1>1. DivisionInv => Divides
  BY DEF DivisionInv, DivisionTypes, LoopInv, Divides, Word
<1> QED
  BY <1>1, DivisionInvariance, PTL

-----------------------------------------------------------------------------
(***************************************************************************)
(* The digits.  q[i] is what is left of the number after i digits.         *)
(***************************************************************************)
LEMMA LeastOfSet ==
  ASSUME NEW T, T \subseteq Nat, T # {}
  PROVE  \E least \in T : \A k \in T : ~(k < least)
<1>1. \E x \in T : \A y \in T : ~(<<y, x>> \in OpToRel(<, Nat))
  BY NatLessThanWellFounded, WFMin
<1>2. \A x, y \in T : y < x => <<y, x>> \in OpToRel(<, Nat)
  BY DEF OpToRel
<1> QED
  BY <1>1, <1>2

Lasts(q, n) ==
  /\ q \in [0..n -> Nat]
  /\ \A i \in 1..n : q[i - 1] = q[i] * radix + buffer[i - 1]
  /\ value = IF minus THEN -q[0] ELSE q[0]
  /\ minus => q[0] # 0

\* Nothing is left only after the last digit.
Some(q, n) == \A i \in 1..n : q[i] # 0

Collecting ==
  \E q : Lasts(q, pos) /\ Some(q, pos) /\ q[pos] = number

\* The digit has been stored, but number not been divided yet.
Stored ==
  /\ pos >= 1 /\ buffer[pos - 1] < radix
  /\ \E z \in Nat : number = z * radix + buffer[pos - 1]
  /\ \E q : Lasts(q, pos - 1) /\ Some(q, pos - 1) /\ q[pos - 1] = number

Printing ==
  \E p \in Nat :
    /\ p >= 1 /\ pos <= p /\ p <= BufferSize
    /\ Len(out) = p - pos /\ \A i \in 1..p - pos : out[i] = buffer[p - i]
    /\ \E q : Lasts(q, p) /\ Some(q, p - 1) /\ q[p] = 0

Types ==
  /\ number \in Nat /\ number <= MaxWord
  /\ radix \in Radices /\ radix \in Nat /\ radix >= 2 /\ radix <= MaxWord
  /\ buffer \in [0..BufferSize - 1 -> Nat]
  /\ pos \in Nat /\ pos <= BufferSize
  /\ out \in Seq(Nat)
  /\ step \in {"mod", "rem", "div", "print", "done"}

Divided == step \in {"rem", "div"} => dividend = number /\ b = radix

NumbersInv ==
  /\ DivisionInv /\ Types /\ Divided
  /\ step \in {"mod", "rem"} => Collecting
  /\ step = "div" => Stored
  /\ step \in {"print", "done"} => Printing
  /\ step \in {"mod", "rem", "div"} => out = <<>>
  /\ step = "done" => pos = 0

\* Quotient and remainder are unique.
LEMMA Unique ==
  ASSUME NEW r \in Nat, NEW x \in Nat, NEW y \in Nat, NEW c \in Nat, NEW d \in Nat,
         c < r, d < r, x * r + c = y * r + d
  PROVE  x = y /\ c = d
<1>1. ASSUME NEW u \in Nat, NEW v \in Nat, NEW e \in Nat, NEW f \in Nat,
             e < r, f < r, u * r + e = v * r + f
      PROVE  ~(u < v)
  <2> SUFFICES ASSUME u < v PROVE FALSE
    OBVIOUS
  <2>1. v - u \in Nat /\ v - u >= 1
    OBVIOUS
  <2>2. (v - u) * r >= r
    BY <2>1
  <2>3. v * r = u * r + (v - u) * r
    OBVIOUS
  <2>4. u * r \in Int /\ v * r \in Int /\ (v - u) * r \in Int
    OBVIOUS
  <2> HIDE <2>1
  <2> QED
    BY <1>1, <2>2, <2>3, <2>4
<1>2. x = y
  BY <1>1
<1>3. x * r \in Int
  OBVIOUS
<1> QED
  BY <1>2, <1>3

LEMMA Assumptions ==
  /\ MaxWord \in Nat /\ BufferSize \in Nat /\ HalfRange \in Int /\ HalfRange >= 1
  /\ MaxWord = 2 * HalfRange - 1
  /\ \A r \in Radices : r \in Nat /\ r >= 2 /\ r <= MaxWord
<1>1. MaxWord \in Nat /\ MaxWord >= 1
  BY MaxWordAssumption DEF MaxWordAssumption
<1>0. MaxWord = 2 * HalfRange - 1 /\ BufferSize \in Nat
  BY Zenon, NumbersAssumption DEF NumbersAssumption
<1>2. HalfRange \in Int
  BY <1>1 DEF HalfRange
<1>3. Radices \subseteq Word \ {0, 1}
  BY Zenon, NumbersAssumption DEF NumbersAssumption
<1>4. \A r \in Radices : r \in Nat /\ r >= 2 /\ r <= MaxWord
  BY <1>1, <1>3 DEF Word
<1> QED
  BY <1>0, <1>1, <1>2, <1>4

LEMMA InitNumbers == Init => NumbersInv
<1> SUFFICES ASSUME Init PROVE NumbersInv
  OBVIOUS
<1>1. DivisionInv
  BY MaxWordAssumption
  DEF MaxWordAssumption, Init, DivisionInit, DivisionInv, DivisionTypes, LoopInv, Word
<1>2. /\ number \in Nat /\ number <= MaxWord
      /\ value = IF minus THEN -number ELSE number
      /\ minus => number # 0
  <2>1. CASE printf_signed
    <3>1. PICK v \in Signed : /\ value = v
                              /\ number = IF v < 0 THEN Magnitude(v) ELSE v
                              /\ minus = (v < 0)
      BY <2>1 DEF printf_signed
    <3>2. v \in Int /\ -HalfRange <= v /\ v <= HalfRange - 1
      BY Assumptions DEF Signed
    <3>3. CASE v < 0
      <4>1. -v \in Nat /\ -v < 2 * HalfRange
        BY <3>2, <3>3, Assumptions
      <4>2. Magnitude(v) = -v
        BY <4>1, Assumptions DEF Magnitude
      <4>3. number = -v /\ minus
        BY <3>1, <3>3, <4>2
      <4> QED
        BY <3>1, <3>2, <3>3, <4>1, <4>3, Assumptions
    <3>4. CASE ~(v < 0)
      <4>1. number = v /\ ~minus
        BY <3>1, <3>4
      <4> QED
        BY <3>1, <3>2, <3>4, <4>1, Assumptions
    <3> QED
      BY <3>3, <3>4
  <2>2. CASE printf_unsigned
    <3>1. PICK v \in Unsigned : value = v /\ number = v /\ ~minus
      BY <2>2 DEF printf_unsigned
    <3> QED
      BY <3>1, Assumptions DEF Unsigned, Word
  <2> QED
    BY <2>1, <2>2 DEF Init
<1>3. Types
  <2>1. out \in Seq(Nat)
    BY DEF Init
  <2>2. buffer \in [0..BufferSize - 1 -> Nat] /\ pos = 0 /\ step = "mod" /\ radix \in Radices
    BY DEF Init
  <2> QED
    BY <1>2, <2>1, <2>2, Assumptions DEF Types
<1>4. Collecting
  <2> DEFINE q == [i \in 0..0 |-> number]
  <2>1. q \in [0..0 -> Nat] /\ q[0] = number
    BY <1>2
  <2> HIDE DEF q
  <2>2. pos = 0
    BY DEF Init
  <2>3. Lasts(q, pos) /\ Some(q, pos)
    BY <1>2, <2>1, <2>2 DEF Lasts, Some
  <2> QED
    BY <2>1, <2>2, <2>3 DEF Collecting
<1>5. step = "mod" /\ out = <<>>
  BY DEF Init
<1> QED
  BY <1>1, <1>3, <1>4, <1>5 DEF NumbersInv, Divided

\* A call takes the number and the radix, whichever of the two functions it is.
LEMMA CallNumbers ==
  ASSUME NumbersInv, Call(number, radix)
  PROVE  DivisionInv' /\ dividend' = number /\ b' = radix
<1>1. DivisionInv /\ number \in Word /\ radix \in Word
  BY Assumptions DEF NumbersInv, Types, Word
<1>2. DivisionInv'
  BY <1>1, CallStep
<1> QED
  BY <1>2 DEF Call

LEMMA CallModStep == NumbersInv /\ CallMod => NumbersInv'
<1> SUFFICES ASSUME NumbersInv, CallMod PROVE NumbersInv'
  OBVIOUS
<1>1. DivisionInv' /\ Divided'
  BY CallNumbers DEF CallMod, Divided
<1>2. UNCHANGED <<value, number, radix, buffer, pos, minus, out>> /\ step' = "rem"
  BY DEF CallMod
<1>3. Types'
  BY <1>2 DEF NumbersInv, Types
<1>4. Collecting'
  <2>1. Collecting
    BY DEF NumbersInv, CallMod
  <2> QED
    BY Zenon, <1>2, <2>1 DEF Collecting, Lasts, Some
<1>5. out' = <<>>
  BY <1>2 DEF NumbersInv, CallMod
<1> QED
  BY <1>1, <1>2, <1>3, <1>4, <1>5 DEF NumbersInv

\* What the two functions return, of the number and the radix.
LEMMA Returned ==
  ASSUME NumbersInv, step \in {"rem", "div"}, pc = "return"
  PROVE  /\ a \in Nat /\ quotient \in Nat /\ quotient <= MaxWord
         /\ a < radix /\ number = quotient * radix + a
<1>1. /\ a \in Nat /\ quotient \in Nat /\ quotient <= MaxWord
      /\ a < b /\ LoopInv /\ b = radix /\ dividend = number
  BY MaxWordAssumption DEF MaxWordAssumption, NumbersInv, DivisionInv, DivisionTypes, Divided, Word
<1>2. b # 0
  BY <1>1
<1>3. quotient * b + a = dividend
  BY <1>1, <1>2 DEF LoopInv
<1> QED
  BY <1>1, <1>3

LEMMA StoreDigitStep == NumbersInv /\ StoreDigit => NumbersInv'
<1> SUFFICES ASSUME NumbersInv, StoreDigit PROVE NumbersInv'
  OBVIOUS
<1>1. DivisionInv' /\ Divided'
  BY CallNumbers DEF StoreDigit, Divided
<1>2. /\ UNCHANGED <<value, number, radix, minus, out>>
      /\ step = "rem" /\ step' = "div" /\ pc = "return"
      /\ pos < BufferSize /\ pos' = pos + 1
      /\ buffer' = [buffer EXCEPT ![pos] = a]
  BY DEF StoreDigit, LastDigit, Call
<1>3. a \in Nat /\ quotient \in Nat /\ a < radix /\ number = quotient * radix + a
  BY <1>2, Returned
<1>4. Types
  BY DEF NumbersInv
<1>5. pos \in 0..BufferSize - 1 /\ pos' - 1 = pos /\ pos' \in Nat /\ pos' >= 1 /\ pos' <= BufferSize
  BY <1>2, <1>4, Assumptions DEF Types
<1>6. buffer' \in [0..BufferSize - 1 -> Nat] /\ buffer'[pos] = a
  BY <1>2, <1>3, <1>4, <1>5 DEF Types
<1>7. \A i \in 1..pos : buffer'[i - 1] = buffer[i - 1]
  <2> TAKE i \in 1..pos
  <2>1. i - 1 \in 0..BufferSize - 1 /\ i - 1 # pos
    BY <1>2, <1>4, Assumptions DEF Types
  <2> QED
    BY <1>2, <1>4, <2>1 DEF Types
<1>8. Types'
  BY <1>2, <1>4, <1>5, <1>6 DEF Types
<1>9. Stored'
  <2>1. Collecting
    BY <1>2 DEF NumbersInv
  <2>2. PICK q : Lasts(q, pos) /\ Some(q, pos) /\ q[pos] = number
    BY <2>1 DEF Collecting
  <2>3. /\ q \in [0..pos -> Nat]
        /\ \A i \in 1..pos : q[i - 1] = q[i] * radix' + buffer'[i - 1]
        /\ value' = IF minus' THEN -q[0] ELSE q[0]
        /\ minus' => q[0] # 0
    BY <1>2, <1>7, <2>2 DEF Lasts
  <2>4. Lasts(q, pos - 1)'
    BY Zenon, <1>5, <2>3 DEF Lasts
  <2>7. Some(q, pos - 1)'
    BY Zenon, <1>5, <2>2 DEF Some
  <2>8. q[pos' - 1] = number'
    BY <1>2, <1>5, <2>2
  <2>5. \E z \in Nat : number' = z * radix' + buffer'[pos' - 1]
    BY <1>2, <1>3, <1>5, <1>6
  <2>6. pos' >= 1 /\ buffer'[pos' - 1] < radix'
    BY <1>2, <1>3, <1>5, <1>6
  <2> QED
    BY <2>4, <2>5, <2>6, <2>7, <2>8 DEF Stored
<1>10. out' = <<>>
  BY <1>2 DEF NumbersInv
<1> QED
  BY <1>1, <1>2, <1>8, <1>9, <1>10 DEF NumbersInv

LEMMA NextDigitStep == NumbersInv /\ NextDigit => NumbersInv'
<1> SUFFICES ASSUME NumbersInv, NextDigit PROVE NumbersInv'
  OBVIOUS
<1>1. /\ UNCHANGED <<division, value, radix, buffer, pos, minus, out>>
      /\ step = "div" /\ pc = "return" /\ number' = quotient
      /\ step' = IF quotient = 0 THEN "print" ELSE "mod"
  BY DEF NextDigit, Quotient, Stops
<1>2. Types /\ DivisionInv /\ Stored /\ out = <<>>
  BY <1>1 DEF NumbersInv
<1>3. DivisionInv'
  BY <1>1, <1>2 DEF division, DivisionInv, DivisionTypes, LoopInv
<1>4. /\ a \in Nat /\ quotient \in Nat /\ quotient <= MaxWord
      /\ a < radix /\ number = quotient * radix + a
  BY <1>1, Returned
<1>5. Types'
  BY <1>1, <1>2, <1>4 DEF Types
<1>6. /\ pos \in Nat /\ pos >= 1 /\ pos <= BufferSize /\ pos - 1 \in 0..BufferSize - 1
      /\ buffer[pos - 1] \in Nat /\ buffer[pos - 1] < radix /\ radix \in Nat
  BY <1>2, Assumptions DEF Types, Stored
<1>7. a = buffer[pos - 1]
  <2>1. PICK z \in Nat : number = z * radix + buffer[pos - 1]
    BY <1>2 DEF Stored
  <2>2. quotient * radix + a = z * radix + buffer[pos - 1]
    BY <1>4, <2>1
  <2>3. \A x, y, c, d \in Nat :
          c < radix /\ d < radix /\ x * radix + c = y * radix + d => c = d
    BY Zenon, <1>6, Unique
  <2> QED
    BY Zenon, <1>4, <1>6, <2>1, <2>2, <2>3
<1>8. PICK q : Lasts(q, pos - 1) /\ Some(q, pos - 1) /\ q[pos - 1] = number
  BY <1>2 DEF Stored
<1>9. PICK longer : /\ longer \in [0..pos -> Nat] /\ longer[pos] = quotient
                    /\ \A i \in 0..pos - 1 : longer[i] = q[i]
  <2> DEFINE more == [i \in 0..pos |-> IF i = pos THEN quotient ELSE q[i]]
  <2>1. q \in [0..pos - 1 -> Nat]
    BY <1>8 DEF Lasts
  <2>2. pos \in 0..pos /\ \A i \in 0..pos : i # pos => i \in 0..pos - 1
    BY <1>6
  <2>3. \A i \in 0..pos - 1 : i \in 0..pos /\ i # pos
    BY <1>6
  <2>4. /\ more \in [0..pos -> Nat] /\ more[pos] = quotient
        /\ \A i \in 0..pos - 1 : more[i] = q[i]
    BY <1>4, <2>1, <2>2, <2>3
  <2> HIDE DEF more
  <2> QED
    BY <2>4
<1>10. Lasts(longer, pos)
  <2>1. \A i \in 1..pos : longer[i - 1] = longer[i] * radix + buffer[i - 1]
    <3> TAKE i \in 1..pos
    <3>1. CASE i = pos
      <4>1. longer[i - 1] = number
        BY <1>6, <1>8, <1>9, <3>1
      <4> QED
        BY <1>4, <1>7, <1>9, <3>1, <4>1
    <3>2. CASE i # pos
      <4>1. i \in 1..pos - 1 /\ i \in 0..pos - 1 /\ i - 1 \in 0..pos - 1
        BY <1>6, <3>2
      <4>2. q[i - 1] = q[i] * radix + buffer[i - 1]
        BY <1>8, <4>1 DEF Lasts
      <4> QED
        BY <1>9, <4>1, <4>2
    <3> QED
      BY <3>1, <3>2
  <2>2. longer[0] = q[0]
    BY <1>6, <1>9
  <2> QED
    BY <1>8, <1>9, <2>1, <2>2 DEF Lasts
<1>11. Some(longer, pos - 1)
  BY <1>6, <1>8, <1>9 DEF Some
<1>12. Lasts(longer, pos)'
  BY Zenon, <1>1, <1>10 DEF Lasts
<1>13. CASE quotient = 0
  <2>1. Printing'
    <3>1. /\ pos' = pos /\ pos \in Nat /\ pos >= 1 /\ pos <= pos /\ pos <= BufferSize
          /\ Len(out') = pos - pos /\ \A i \in 1..pos - pos : out'[i] = buffer'[pos - i]
      BY <1>1, <1>2, <1>6
    <3>2. (Lasts(longer, pos) /\ Some(longer, pos - 1) /\ longer[pos] = 0)'
      BY Zenon, <1>9, <1>11, <1>12, <1>13, <3>1 DEF Some
    <3> QED
      BY <3>1, <3>2 DEF Printing
  <2>2. step' = "print"
    BY <1>1, <1>13
  <2> QED
    BY <1>3, <1>5, <2>1, <2>2 DEF NumbersInv, Divided
<1>14. CASE quotient # 0
  <2>1. Some(longer, pos)
    BY <1>6, <1>9, <1>11, <1>14 DEF Some
  <2>2. Collecting'
    BY Zenon, <1>1, <1>9, <1>12, <2>1 DEF Collecting, Some
  <2>3. step' = "mod" /\ out' = <<>>
    BY <1>1, <1>2, <1>14
  <2> QED
    BY <1>3, <1>5, <2>2, <2>3 DEF NumbersInv, Divided
<1> QED
  BY <1>13, <1>14

LEMMA LoopStep == NumbersInv /\ Loop /\ UNCHANGED conversion => NumbersInv'
<1> SUFFICES ASSUME NumbersInv, Loop, UNCHANGED conversion PROVE NumbersInv'
  OBVIOUS
<1>1. DivisionInv'
  BY SubtractStep, ReturnStep DEF NumbersInv, Loop
<1>2. UNCHANGED <<value, number, radix, buffer, pos, minus, out, step>>
  BY DEF conversion
<1>3. dividend' = dividend /\ b' = b
  BY DEF Loop, Subtract, Return
<1>4. Types' /\ Divided'
  BY <1>2, <1>3 DEF NumbersInv, Types, Divided
<1>5. Collecting' = Collecting /\ Stored' = Stored /\ Printing' = Printing
  BY Zenon, <1>2 DEF Collecting, Stored, Printing, Lasts, Some
<1> QED
  BY <1>1, <1>2, <1>4, <1>5 DEF NumbersInv

LEMMA PutDigitStep == NumbersInv /\ PutDigit => NumbersInv'
<1> SUFFICES ASSUME NumbersInv, PutDigit PROVE NumbersInv'
  OBVIOUS
<1>1. /\ UNCHANGED <<division, value, number, radix, buffer, minus>>
      /\ step = "print"
  BY DEF PutDigit
<1>2. Types /\ DivisionInv /\ Printing
  BY <1>1 DEF NumbersInv
<1>3. DivisionInv'
  BY <1>1, <1>2 DEF division, DivisionInv, DivisionTypes, LoopInv
<1>4. PICK p \in Nat :
        /\ p >= 1 /\ pos <= p /\ p <= BufferSize
        /\ Len(out) = p - pos /\ \A i \in 1..p - pos : out[i] = buffer[p - i]
        /\ \E q : Lasts(q, p) /\ Some(q, p - 1) /\ q[p] = 0
  BY <1>2 DEF Printing
<1>5. \E q : (Lasts(q, p) /\ Some(q, p - 1) /\ q[p] = 0)'
  BY Zenon, <1>1, <1>4 DEF Lasts, Some
<1>6. CASE pos > 0
  <2>1. out' = Append(out, buffer[pos - 1]) /\ pos' = pos - 1 /\ step' = "print"
    BY <1>1, <1>6 DEF PutDigit
  <2>2. pos \in Nat /\ pos <= BufferSize /\ pos - 1 \in Nat /\ pos - 1 \in 0..BufferSize - 1
    BY <1>2, <1>6, Assumptions DEF Types
  <2>3. buffer[pos - 1] \in Nat /\ out \in Seq(Nat)
    BY <1>2, <2>2 DEF Types
  <2>4. out' \in Seq(Nat) /\ Len(out') = Len(out) + 1 /\ out'[Len(out) + 1] = buffer[pos - 1]
        /\ \A i \in 1..Len(out) : out'[i] = out[i]
    BY <2>1, <2>3, AppendProperties
  <2>5. Len(out') = p - pos'
    BY <1>4, <2>1, <2>2, <2>4
  <2>6. \A i \in 1..p - pos' : out'[i] = buffer'[p - i]
    <3> TAKE i \in 1..p - pos'
    <3>1. CASE i = Len(out) + 1
      <4>1. p - i = pos - 1
        BY <1>4, <2>2, <3>1
      <4> QED
        BY <1>1, <2>4, <3>1, <4>1
    <3>2. CASE i # Len(out) + 1
      <4>1. i \in 1..p - pos /\ i \in 1..Len(out)
        BY <1>4, <2>1, <2>2, <3>2
      <4> QED
        BY <1>1, <1>4, <2>4, <4>1
    <3> QED
      BY <3>1, <3>2
  <2>7. Types'
    BY <1>1, <1>2, <2>1, <2>2, <2>4, Assumptions DEF Types
  <2>8. pos' <= p
    BY <1>4, <2>1, <2>2
  <2>9. Printing'
    BY <1>4, <1>5, <2>5, <2>6, <2>8 DEF Printing
  <2> QED
    BY <1>3, <2>1, <2>7, <2>9 DEF NumbersInv, Divided
<1>7. CASE ~(pos > 0)
  <2>1. UNCHANGED <<out, pos>> /\ step' = "done"
    BY <1>7 DEF PutDigit
  <2>2. pos' = 0
    BY <1>2, <1>7, <2>1 DEF Types
  <2>3. Types'
    BY <1>1, <1>2, <2>1 DEF Types
  <2>4. Printing'
    BY Zenon, <1>1, <1>4, <1>5, <2>1 DEF Printing
  <2> QED
    BY <1>3, <2>1, <2>2, <2>3, <2>4 DEF NumbersInv, Divided
<1> QED
  BY <1>6, <1>7

\* The invariant of a conversion, its calls of the division functions included.
THEOREM NumbersInvariance == Spec => []NumbersInv
<1>1. ASSUME NumbersInv, UNCHANGED vars PROVE NumbersInv'
  <2>1. UNCHANGED <<dividend, a, b, quotient, pc>>
    BY <1>1 DEF vars, division
  <2>2. UNCHANGED <<value, number, radix, buffer, pos, minus, out, step>>
    BY <1>1 DEF vars, conversion
  <2>3. DivisionInv' /\ Types' /\ Divided'
    BY <1>1, <2>1, <2>2
    DEF NumbersInv, DivisionInv, DivisionTypes, LoopInv, Types, Divided
  <2>4. Collecting' = Collecting /\ Stored' = Stored /\ Printing' = Printing
    BY Zenon, <2>2 DEF Collecting, Stored, Printing, Lasts, Some
  <2> QED
    BY <1>1, <2>2, <2>3, <2>4 DEF NumbersInv
<1>2. NumbersInv /\ [Next]_vars => NumbersInv'
  BY <1>1, CallModStep, StoreDigitStep, NextDigitStep, PutDigitStep, LoopStep DEF Next
<1> QED
  BY <1>2, InitNumbers, PTL DEF Spec

\* Along the digits that have been put out, the number read so far is what was
\* left of the argument when that digit was stored.
LEMMA ReadsBack ==
  ASSUME NEW p \in Nat, NEW q, Lasts(q, p), q[p] = 0,
         out \in Seq(Nat), Len(out) = p, \A i \in 1..p : out[i] = buffer[p - i]
  PROVE  Denotes(out) = q[0]
<1> DEFINE Turn(f, i) == IF i = 0 THEN 0 ELSE f[i - 1] * radix + out[i]
           w      == [i \in 0..p |-> q[p - i]]
           prefix == CHOOSE f : f = [i \in 0..Len(out) |-> Turn(f, i)]
           wrong  == {i \in 0..p : prefix[i] # w[i]}
<1>1. ASSUME NEW i \in 0..p PROVE w[i] = Turn(w, i)
  <2>1. CASE i = 0
    BY <2>1
  <2>2. CASE i # 0
    <3>1. /\ i \in 1..p /\ i - 1 \in 0..p /\ p - i + 1 \in 1..p
          /\ p - (i - 1) = p - i + 1 /\ (p - i + 1) - 1 = p - i
      BY <2>2
    <3>2. q[p - i] = q[p - i + 1] * radix + buffer[p - i]
      BY <3>1 DEF Lasts
    <3> QED
      BY <2>2, <3>1, <3>2
  <2> QED
    BY <2>1, <2>2
<1>2. w = [i \in 0..Len(out) |-> Turn(w, i)]
  BY <1>1
<1>3. prefix = [i \in 0..Len(out) |-> Turn(prefix, i)]
  <2> HIDE DEF w
  <2> QED
    BY <1>2
<1>4. Denotes(out) = prefix[Len(out)]
  BY DEF Denotes
<1> HIDE DEF prefix
<1>5. wrong = {}
  <2> SUFFICES ASSUME wrong # {} PROVE FALSE
    OBVIOUS
  <2>1. PICK i \in wrong : \A k \in wrong : ~(k < i)
    <3>1. wrong \subseteq Nat
      OBVIOUS
    <3> HIDE DEF wrong
    <3> QED
      BY <3>1, LeastOfSet
  <2>2. i \in 0..p /\ prefix[i] # w[i] /\ prefix[i] = Turn(prefix, i) /\ w[i] = Turn(w, i)
    BY <1>1, <1>3
  <2> HIDE DEF w
  <2>3. i # 0
    BY <2>2
  <2>4. i - 1 \in 0..p /\ i - 1 < i
    BY <2>2, <2>3
  <2>5. prefix[i - 1] = w[i - 1]
    BY <2>1, <2>4
  <2> QED
    BY <2>2, <2>3, <2>5
<1>6. p \in 0..p /\ w[p] = q[0]
  OBVIOUS
<1> QED
  BY <1>4, <1>5, <1>6

LEMMA Printed == NumbersInv => PrintsTheNumber
<1> SUFFICES ASSUME NumbersInv, step = "done" PROVE
      /\ value = IF minus THEN -Denotes(out) ELSE Denotes(out)
      /\ out # <<>>
      /\ out[1] = 0 => out = <<0>> /\ ~minus
  BY DEF PrintsTheNumber
<1>1. Types /\ Printing /\ pos = 0
  BY DEF NumbersInv
<1>2. PICK p \in Nat :
        /\ p >= 1 /\ p <= BufferSize
        /\ Len(out) = p - pos /\ \A i \in 1..p - pos : out[i] = buffer[p - i]
        /\ \E q : Lasts(q, p) /\ Some(q, p - 1) /\ q[p] = 0
  BY <1>1 DEF Printing
<1>3. PICK q : Lasts(q, p) /\ Some(q, p - 1) /\ q[p] = 0
  BY <1>2
<1>4. out \in Seq(Nat) /\ Len(out) = p /\ \A i \in 1..p : out[i] = buffer[p - i]
  BY <1>1, <1>2 DEF Types
<1>5. Denotes(out) = q[0]
  BY Zenon, <1>3, <1>4, ReadsBack
<1>6. value = IF minus THEN -Denotes(out) ELSE Denotes(out)
  BY Zenon, <1>3, <1>5 DEF Lasts
<1>7. out # <<>>
  BY <1>2, <1>4
<1>8. ASSUME out[1] = 0 PROVE out = <<0>> /\ ~minus
  <2>1. q[p - 1] = 0
    <3>1. q[p - 1] = q[p] * radix + buffer[p - 1] /\ buffer[p - 1] = out[1]
      BY <1>2, <1>3, <1>4 DEF Lasts
    <3>2. radix \in Nat
      BY <1>1 DEF Types
    <3> QED
      BY <1>3, <1>8, <3>1, <3>2
  <2>2. p = 1
    BY <1>2, <1>3, <2>1 DEF Some
  <2>3. out = <<0>>
    BY <1>4, <1>8, <2>2
  <2>4. q[0] = 0
    BY <2>1, <2>2
  <2>5. ~minus
    BY Zenon, <1>3, <2>4 DEF Lasts
  <2> QED
    BY <2>3, <2>5
<1> QED
  BY <1>6, <1>7, <1>8

\* For words of every width, every set of radices in it and a buffer of every
\* size: when a conversion is done, the digits that printf_signed or
\* printf_unsigned has put out denote its argument, with a sign only for a
\* negative one, without a leading zero, and with a digit for zero.
THEOREM DigitsDenoteTheNumber == Spec => []PrintsTheNumber
<1> QED
  BY Printed, NumbersInvariance, PTL

\* In a conversion too, what the two functions of util.c return is the quotient
\* and the remainder.
THEOREM DivisionsAreRight == Spec => []Divides
<1>1. NumbersInv => Divides
  BY DEF NumbersInv, DivisionInv, DivisionTypes, LoopInv, Divides, Word
<1> QED
  BY <1>1, NumbersInvariance, PTL
-----------------------------------------------------------------------------
(***************************************************************************)
(* The buffer has room: each digit leaves a number that is smaller by the  *)
(* radix, so the powers of the radix tell how many there are.              *)
(***************************************************************************)

\* The powers of a radix, up to the length of the buffer.
Powers(r) ==
  LET power[i \in 0..BufferSize] == IF i = 0 THEN 1 ELSE power[i - 1] * r
  IN  power

Multiplies(r, n, g) == g = [i \in 0..n |-> IF i = 0 THEN 1 ELSE g[i - 1] * r]

LEMMA PowersExist == ASSUME NEW r \in Nat, NEW n \in Nat PROVE \E g : Multiplies(r, n, g)
<1> DEFINE T == {k \in Nat : ~\E g : Multiplies(r, k, g)}
<1> SUFFICES ASSUME T # {} PROVE FALSE
  OBVIOUS
<1>1. PICK m \in T : \A k \in T : ~(k < m)
  BY LeastOfSet
<1>2. CASE m = 0
  <2>1. Multiplies(r, 0, [i \in 0..0 |-> 1])
    BY DEF Multiplies
  <2> QED
    BY <1>1, <1>2, <2>1
<1>3. CASE m # 0
  <2>1. m - 1 \in Nat /\ m \in Nat
    BY <1>1, <1>3
  <2>2. PICK g : Multiplies(r, m - 1, g)
    BY <1>1, <2>1
  <2> DEFINE h == [i \in 0..m |-> IF i = m THEN g[m - 1] * r ELSE g[i]]
  <2>3. \A i \in 0..m - 1 : g[i] = IF i = 0 THEN 1 ELSE g[i - 1] * r
    BY <2>2 DEF Multiplies
  <2>4. \A i \in 0..m : h[i] = IF i = 0 THEN 1 ELSE h[i - 1] * r
    <3> TAKE i \in 0..m
    <3>1. CASE i = 0
      BY <1>3, <2>1, <2>3, <3>1
    <3>2. CASE i # 0
      <4>1. i - 1 \in 0..m - 1 /\ i - 1 \in 0..m /\ i - 1 # m
        BY <2>1, <3>2
      <4>2. h[i - 1] = g[i - 1]
        BY <4>1
      <4>3. h[i] = g[i - 1] * r
        <5>1. CASE i = m
          BY <5>1
        <5>2. CASE i # m
          <6>1. i \in 0..m - 1
            BY <2>1, <5>2
          <6> QED
            BY <2>3, <3>2, <5>2, <6>1
        <5> QED
          BY <5>1, <5>2
      <4> QED
        BY <3>2, <4>2, <4>3
    <3> QED
      BY <3>1, <3>2
  <2>5. h = [i \in 0..m |-> h[i]]
    OBVIOUS
  <2> HIDE DEF h
  <2>6. Multiplies(r, m, h)
    BY <2>4, <2>5 DEF Multiplies
  <2> QED
    BY <1>1, <2>6
<1> QED
  BY <1>2, <1>3

LEMMA PowersAre ==
  ASSUME NEW r \in Nat
  PROVE  /\ Powers(r)[0] = 1
         /\ \A i \in 0..BufferSize : Powers(r)[i] \in Nat
         /\ \A i \in 1..BufferSize : Powers(r)[i] = Powers(r)[i - 1] * r
<1> DEFINE p == Powers(r)
<1>1. BufferSize \in Nat
  BY NumbersAssumption DEF NumbersAssumption
<1>2. p = CHOOSE g : Multiplies(r, BufferSize, g)
  BY DEF Powers, Multiplies
<1> HIDE DEF p
<1>3. Multiplies(r, BufferSize, p)
  BY <1>1, <1>2, PowersExist
<1>4. \A i \in 0..BufferSize : p[i] = IF i = 0 THEN 1 ELSE p[i - 1] * r
  BY <1>3 DEF Multiplies
<1>5. p[0] = 1 /\ \A i \in 1..BufferSize : p[i] = p[i - 1] * r
  BY <1>1, <1>4
<1>6. \A i \in 0..BufferSize : p[i] \in Nat
  <2> DEFINE T == {i \in 0..BufferSize : p[i] \notin Nat}
  <2> SUFFICES ASSUME T # {} PROVE FALSE
    OBVIOUS
  <2>1. T \subseteq Nat
    OBVIOUS
  <2>2. PICK m \in T : \A k \in T : ~(k < m)
    BY <2>1, LeastOfSet
  <2>3. m \in 1..BufferSize /\ m - 1 \in 0..BufferSize /\ m - 1 < m
    BY <1>1, <1>5, <2>2
  <2>4. p[m - 1] \in Nat
    BY <2>2, <2>3
  <2> QED
    BY <1>5, <2>2, <2>3, <2>4
<1> QED
  BY <1>5, <1>6 DEF p

HasRoom == \A r \in Radices : Powers(r)[BufferSize] > MaxWord

Smaller ==
  /\ step \in {"mod", "rem"} => number * Powers(radix)[pos] <= MaxWord
  /\ step = "div" => number * Powers(radix)[pos - 1] <= MaxWord

\* What a digit takes from the number.
LEMMA OneDigitLess ==
  ASSUME NEW q \in Nat, NEW r \in Nat, NEW d \in Nat, NEW u \in Nat,
         NEW m \in Nat, (q * r + d) * u <= m
  PROVE  q * (u * r) <= m
<1>1. (q * r + d) * u = q * (u * r) + d * u
  OBVIOUS
<1>2. d * u \in Nat /\ q * (u * r) \in Nat
  OBVIOUS
<1> QED
  BY <1>1, <1>2

LEMMA StillSmaller ==
  ASSUME NumbersInv, Smaller, [Next]_vars
  PROVE  Smaller'
<1>1. /\ radix \in Radices /\ number \in Nat /\ pos \in Nat /\ radix \in Nat
      /\ pos <= BufferSize /\ BufferSize \in Nat /\ MaxWord \in Nat
  BY Assumptions DEF NumbersInv, Types
<1>2. CASE CallMod
  <2>1. UNCHANGED <<number, radix, pos>> /\ step = "mod" /\ step' = "rem"
    BY <1>2 DEF CallMod
  <2> QED
    BY Zenon, <2>1 DEF Smaller
<1>3. CASE StoreDigit
  <2>1. UNCHANGED <<number, radix>> /\ step = "rem" /\ step' = "div" /\ pos' - 1 = pos
    BY <1>1, <1>3 DEF StoreDigit
  <2> QED
    BY <2>1 DEF Smaller
<1>4. CASE NextDigit
  <2>1. /\ UNCHANGED <<radix, pos>> /\ step = "div" /\ number' = quotient
        /\ step' \in {"mod", "print"} /\ pc = "return"
    BY <1>4 DEF NextDigit, Quotient
  <2>2. a \in Nat /\ quotient \in Nat /\ number = quotient * radix + a
    BY <2>1, Returned
  <2>3. pos \in 1..BufferSize /\ pos - 1 \in 0..BufferSize
    BY <1>1, <2>1 DEF NumbersInv, Stored
  <2>4. Powers(radix)[pos] = Powers(radix)[pos - 1] * radix /\ Powers(radix)[pos - 1] \in Nat
    BY <1>1, <2>3, PowersAre
  <2>5. number * Powers(radix)[pos - 1] <= MaxWord
    BY <2>1 DEF Smaller
  <2>6. quotient * (Powers(radix)[pos - 1] * radix) <= MaxWord
    BY <1>1, <2>2, <2>4, <2>5, OneDigitLess
  <2> QED
    BY <2>1, <2>4, <2>6 DEF Smaller
<1>5. CASE PutDigit
  <2>1. step' \in {"print", "done"}
    BY <1>5 DEF PutDigit
  <2> QED
    BY <2>1 DEF Smaller
<1>6. CASE UNCHANGED conversion
  <2>1. UNCHANGED <<number, radix, pos, step>>
    BY <1>6 DEF conversion
  <2> QED
    BY Zenon, <2>1 DEF Smaller
<1> QED
  BY <1>2, <1>3, <1>4, <1>5, <1>6 DEF Next, vars

\* When a power of each radix that the buffer is as long as exceeds the largest
\* word (8^22 exceeds it for 64 bits, and the buffer has 32 places), no digit is
\* ever stored past the end of the buffer, whatever the number is.
THEOREM BufferHasRoom ==
  ASSUME HasRoom
  PROVE  Spec => [](step = "rem" => pos < BufferSize)
<1>1. Init => Smaller
  <2> SUFFICES ASSUME Init PROVE Smaller
    OBVIOUS
  <2>1. NumbersInv /\ step = "mod" /\ pos = 0
    BY InitNumbers DEF Init
  <2>2. radix \in Radices /\ number \in Nat /\ number <= MaxWord
    BY <2>1 DEF NumbersInv, Types
  <2>3. Powers(radix)[pos] = 1
    BY <2>1, <2>2, PowersAre, Assumptions
  <2> QED
    BY <2>1, <2>2, <2>3 DEF Smaller
<1>2. ASSUME NumbersInv, Smaller, step = "rem" PROVE pos < BufferSize
  <2>1. /\ radix \in Radices /\ number \in Nat /\ pos \in Nat
        /\ pos <= BufferSize /\ BufferSize \in Nat /\ MaxWord \in Nat
    BY <1>2, Assumptions DEF NumbersInv, Types
  <2>0. MaxWord >= 1
    BY MaxWordAssumption DEF MaxWordAssumption
  <2>2. number * Powers(radix)[pos] <= MaxWord
    BY <1>2 DEF Smaller
  <2>3. /\ Powers(radix)[BufferSize] \in Nat /\ Powers(radix)[0] = 1
        /\ Powers(radix)[BufferSize] > MaxWord
    BY <2>1, PowersAre, Assumptions, BufferSize \in 0..BufferSize DEF HasRoom
  <2>4. pos > 0 => number # 0
    <3>1. PICK q : Some(q, pos) /\ q[pos] = number
      BY <1>2 DEF NumbersInv, Collecting
    <3> QED
      BY <2>1, <3>1 DEF Some
  <2> SUFFICES ASSUME pos = BufferSize PROVE FALSE
    BY <2>1
  <2>5. Powers(radix)[pos] \in Nat /\ Powers(radix)[pos] > MaxWord
    BY <2>1, <2>3
  <2>6. number >= 1
    BY <2>0, <2>1, <2>3, <2>4
  <2>7. number * Powers(radix)[pos] >= Powers(radix)[pos]
    BY <2>1, <2>5, <2>6
  <2>8. number * Powers(radix)[pos] \in Nat
    BY <2>1, <2>5
  <2> QED
    BY <2>1, <2>2, <2>5, <2>7, <2>8
<1>3. NumbersInv /\ Smaller /\ [Next]_vars => Smaller'
  BY StillSmaller
<1> QED
  BY <1>1, <1>2, <1>3, NumbersInvariance, PTL DEF Spec
=============================================================================
