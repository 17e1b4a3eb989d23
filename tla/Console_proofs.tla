--------------------------- MODULE Console_proofs ---------------------------
(***************************************************************************)
(* Proofs about Console for every size of the screen, every alphabet and   *)
(* any number of scrolled rows, and about Printf for formats of every      *)
(* length.  The first need not know the column: a row the cursor is on is  *)
(* on the screen, and only that row and the rows of the screen are         *)
(* written.                                                                *)
(***************************************************************************)
EXTENDS Console, Printf, FiniteSetTheorems, SequenceTheorems, WellFoundedInduction,
        TLAPS

OnScreen == cursor_y \in 0..height - 1

Memory == [MemRows -> [Cols -> Cell]]

\* The cells below the screen, in any contents of the video memory.
Below(m) == \A y \in MemRows : y >= height => m[y] = Row(Junk)

\* Nothing is claimed once a tab has taken the cursor below the screen.
IInv == ~astray => text_memory \in Memory /\ OnScreen /\ Below(text_memory)

LEMMA Sizes ==
  /\ height \in Nat \ {0} /\ width \in Nat \ {0}
  /\ MemoryRows \in Nat /\ MemoryRows >= height
BY ConsoleAssumption DEF ConsoleAssumption

LEMMA RowsAreRows == \A c \in Cell : Row(c) \in [Cols -> Cell]
BY DEF Row

LEMMA InitIInv == Init => IInv
<1> SUFFICES ASSUME Init PROVE IInv
  OBVIOUS
<1>1. Row(Junk) \in [Cols -> Cell]
  BY RowsAreRows DEF Cell
<1>2. text_memory \in Memory /\ Below(text_memory)
  BY <1>1 DEF Init, Memory, Below
<1>3. OnScreen
  BY Sizes DEF Init, OnScreen
<1> QED
  BY <1>2, <1>3 DEF IInv

\* A tab that has done so cannot be taken back.
LEMMA AstrayForGood == astray /\ [Next]_vars => astray'
BY DEF Next, ClearScreen, Putc, PutTab, vars

LEMMA ClearScreenStep == IInv /\ ~astray /\ ClearScreen => IInv'
<1> SUFFICES ASSUME IInv, ~astray, ClearScreen PROVE IInv'
  OBVIOUS
<1>1. Row(Blank) \in [Cols -> Cell]
  BY RowsAreRows DEF Cell
<1>2. text_memory' \in Memory
  BY <1>1 DEF IInv, Memory, ClearScreen
<1>3. Below(text_memory')
  BY Sizes DEF IInv, Below, ClearScreen, ClearedRows, MemRows
<1>4. OnScreen'
  BY Sizes DEF OnScreen, ClearScreen
<1> QED
  BY <1>2, <1>3, <1>4 DEF IInv

\* A scroll blanks the last row of the screen and leaves those below alone.
LEMMA ScrolledBelow ==
  ASSUME NEW m \in Memory, Below(m)
  PROVE  Scrolled(m) \in Memory /\ Below(Scrolled(m))
<1>1. Row(Blank) \in [Cols -> Cell]
  BY RowsAreRows DEF Cell
<1>2. ASSUME NEW y \in MemRows, y < height - 1 PROVE y + 1 \in MemRows
  BY <1>2, Sizes DEF MemRows
<1>3. Scrolled(m) \in Memory
  BY <1>1, <1>2 DEF Scrolled, Memory
<1>4. Below(Scrolled(m))
  BY Sizes DEF Below, Scrolled, MemRows
<1> QED
  BY <1>3, <1>4

\* Whatever putc writes: if the cells below the screen are not among it, and the
\* cursor is left on the screen, the invariant is kept.
LEMMA FinishStep ==
  ASSUME NEW m \in Memory, Below(m), NEW scroll \in BOOLEAN, NEW x, NEW y,
         Finish(m, scroll, x, y), y < height \/ astray'
  PROVE  IInv'
<1>1. cursor_y' = y /\ text_memory' \in {m, Scrolled(m)}
  BY DEF Finish
<1>2. text_memory' \in Memory /\ Below(text_memory')
  BY <1>1, ScrolledBelow
<1>3. ~astray' => y \in 0..height - 1
  <2>1. y \in MemRows
    BY DEF Finish
  <2>2. y < height => y \in 0..height - 1
    BY <2>1, Sizes DEF MemRows
  <2> QED
    BY <2>2
<1> QED
  BY <1>1, <1>2, <1>3 DEF IInv, OnScreen

LEMMA TextStep ==
  ASSUME IInv, ~astray, NEW c \in Text, PutText(c)
  PROVE  IInv'
<1> DEFINE m    == [text_memory EXCEPT ![cursor_y][cursor_x] = c]
           next == Advance(cursor_x, cursor_y)
<1>1. text_memory \in Memory /\ cursor_y \in 0..height - 1 /\ Below(text_memory)
  BY DEF IInv, OnScreen
<1>2. cursor_y \in MemRows
  BY <1>1, Sizes DEF MemRows
<1>3. m \in Memory
  <2>1. [text_memory[cursor_y] EXCEPT ![cursor_x] = c] \in [Cols -> Cell]
    BY <1>1, <1>2 DEF Memory, Cell
  <2> QED
    BY <1>1, <2>1 DEF Memory
<1>4. Below(m)
  BY <1>1, <1>2, Sizes DEF Below, Memory, MemRows
<1>5. CASE next[1] = 0 /\ BelowScreen(next[2])
  <2>1. Finish(m, TRUE, 0, height - 1)
    BY <1>5 DEF PutText
  <2>2. height - 1 < height
    BY Sizes
  <2> HIDE DEF m
  <2> QED
    BY <1>3, <1>4, <2>1, <2>2, FinishStep
<1>6. CASE ~(next[1] = 0 /\ BelowScreen(next[2]))
  <2>1. Finish(m, FALSE, next[1], next[2])
    BY <1>6 DEF PutText
  <2>2. next[2] < height
    <3>1. next = <<0, cursor_y + 1>> \/ next = <<cursor_x + 1, cursor_y>>
      BY DEF Advance
    <3>2. CASE next = <<0, cursor_y + 1>>
      BY <1>1, <1>6, <3>2, Sizes DEF BelowScreen
    <3>3. CASE next = <<cursor_x + 1, cursor_y>>
      BY <1>1, <3>3, Sizes
    <3> QED
      BY <3>1, <3>2, <3>3
  <2> HIDE DEF m, next
  <2> QED
    BY <1>3, <1>4, <2>1, <2>2, FinishStep
<1> QED
  BY <1>5, <1>6

LEMMA ControlStep ==
  ASSUME IInv, ~astray, PutReturn \/ PutNewLine \/ PutTab \/ PutBackspace
  PROVE  IInv'
<1>1. text_memory \in Memory /\ Below(text_memory) /\ cursor_y \in 0..height - 1
  BY DEF IInv, OnScreen
<1>2. height \in Nat /\ cursor_y < height /\ cursor_y - 1 < height
  BY <1>1, Sizes
<1>3. CASE PutReturn
  BY <1>1, <1>2, <1>3, FinishStep DEF PutReturn
<1>4. CASE PutNewLine
  <2> DEFINE last == cursor_y = height - 1
             next == IF last THEN cursor_y ELSE cursor_y + 1
  <2>1. Finish(text_memory, last, 0, next) /\ last \in BOOLEAN
    BY <1>4 DEF PutNewLine
  <2>2. next < height
    BY <1>1, <1>2
  <2> HIDE DEF last, next
  <2> QED
    BY <1>1, <2>1, <2>2, FinishStep
<1>5. CASE PutTab
  <2> DEFINE stop == TabStop
  <2>1. Finish(text_memory, FALSE, stop[1], stop[2]) /\ (stop[2] >= height => astray')
    BY <1>5 DEF PutTab
  <2> HIDE DEF stop
  <2>2. stop[2] \in MemRows
    BY <2>1 DEF Finish
  <2>3. stop[2] < height \/ astray'
    <3>1. stop[2] < height \/ stop[2] >= height
      BY <2>2, Sizes DEF MemRows
    <3> QED
      BY <2>1, <3>1
  <2> QED
    BY <1>1, <2>1, <2>3, FinishStep
<1>6. CASE PutBackspace
  <2>1. CASE cursor_x > 0
    BY <1>1, <1>2, <1>6, <2>1, FinishStep DEF PutBackspace
  <2>2. CASE ~(cursor_x > 0) /\ cursor_y > 0
    BY <1>1, <1>2, <1>6, <2>2, FinishStep DEF PutBackspace
  <2>3. CASE ~(cursor_x > 0) /\ ~(cursor_y > 0)
    BY <1>1, <1>2, <1>6, <2>3, FinishStep DEF PutBackspace
  <2> QED
    BY <2>1, <2>2, <2>3
<1> QED
  BY <1>3, <1>4, <1>5, <1>6

LEMMA StepIInv == ASSUME IInv, [Next]_vars PROVE IInv'
<1>1. CASE astray
  BY <1>1, AstrayForGood DEF IInv
<1>2. CASE ~astray /\ UNCHANGED vars
  BY <1>2 DEF vars, IInv, OnScreen, Below
<1>3. CASE ~astray /\ ClearScreen
  BY <1>3, ClearScreenStep
<1>4. CASE ~astray /\ Putc
  BY <1>4, TextStep, ControlStep DEF Putc
<1> QED
  BY <1>1, <1>2, <1>3, <1>4 DEF Next

\* Nothing the kernel prints reaches the video memory below the screen, until a
\* tab has run past the last column of the last row.
THEOREM WritesStayOnScreen == Spec => []BelowUntouched
<1>1. IInv => BelowUntouched
  BY DEF IInv, BelowUntouched, Below
<1> QED
  BY <1>1, InitIInv, StepIInv, PTL DEF Spec
-----------------------------------------------------------------------------
(***************************************************************************)
(* Where a tab stops.                                                      *)
(***************************************************************************)

\* Every set of natural numbers but the empty one has a least element.
LEMMA LeastOfSet ==
  ASSUME NEW T, T \subseteq Nat, T # {}
  PROVE  \E least \in T : \A k \in T : ~(k < least)
<1>1. \E x \in T : \A y \in T : ~(<<y, x>> \in OpToRel(<, Nat))
  BY NatLessThanWellFounded, WFMin
<1>2. \A x, y \in T : y < x => <<y, x>> \in OpToRel(<, Nat)
  BY DEF OpToRel
<1> QED
  BY <1>1, <1>2

\* Where the cursor is n columns further, for n up to a row.
Further(n) ==
  IF cursor_x + n < width THEN <<cursor_x + n, cursor_y>>
  ELSE <<cursor_x + n - width, cursor_y + 1>>

\* The equation TabStop is defined by, for a function f.
Turn(f, n) ==
  IF n = 0 THEN <<cursor_x, cursor_y>> ELSE Advance(f[n - 1][1], f[n - 1][2])

\* The tap_len turns of the loop move the cursor by tap_len columns.
LEMMA TabMoves ==
  ASSUME cursor_x \in Cols, cursor_y \in Nat
  PROVE  TabStop = Further(tap_len)
<1> DEFINE w     == [n \in 0..tap_len |-> Further(n)]
           after == CHOOSE f : f = [n \in 0..tap_len |-> Turn(f, n)]
           wrong == {n \in 0..tap_len : after[n] # Further(n)}
<1>1. /\ tap_len \in Nat /\ 1 <= tap_len /\ tap_len <= width /\ width \in Nat
      /\ cursor_x \in Nat /\ cursor_x < width
  BY ConsoleAssumption DEF ConsoleAssumption, Cols
<1>2. \A n \in 1..tap_len : Further(n) = Advance(Further(n - 1)[1], Further(n - 1)[2])
  BY <1>1 DEF Further, Advance
<1>3. Further(0) = <<cursor_x, cursor_y>>
  BY <1>1 DEF Further
<1>4. w = [n \in 0..tap_len |-> Turn(w, n)]
  <2>1. ASSUME NEW n \in 0..tap_len PROVE w[n] = Turn(w, n)
    <3>1. CASE n = 0
      BY <1>3, <3>1 DEF Turn
    <3>2. CASE n # 0
      <4>1. n \in 1..tap_len /\ n - 1 \in 0..tap_len
        BY <1>1, <3>2
      <4> QED
        BY <1>2, <3>2, <4>1 DEF Turn
    <3> QED
      BY <3>1, <3>2
  <2> QED
    BY <2>1
<1>5. after = [n \in 0..tap_len |-> Turn(after, n)]
  <2> HIDE DEF w
  <2> QED
    BY <1>4
<1>6. TabStop = after[tap_len]
  BY DEF TabStop, Turn
<1> HIDE DEF after
<1>7. wrong = {}
  <2> SUFFICES ASSUME wrong # {} PROVE FALSE
    OBVIOUS
  <2>1. PICK n \in wrong : \A k \in wrong : ~(k < n)
    <3>1. wrong \subseteq Nat
      BY <1>1
    <3> HIDE DEF wrong
    <3> QED
      BY <3>1, LeastOfSet
  <2>2. n \in 0..tap_len /\ after[n] # Further(n) /\ after[n] = Turn(after, n)
    BY <1>5
  <2>3. n # 0
    BY <1>3, <2>2 DEF Turn
  <2>4. n - 1 \in 0..tap_len /\ n - 1 < n /\ n \in 1..tap_len
    BY <1>1, <2>2, <2>3
  <2>5. after[n - 1] = Further(n - 1)
    BY <2>1, <2>4
  <2> QED
    BY <1>2, <2>2, <2>3, <2>4, <2>5 DEF Turn
<1>8. tap_len \in 0..tap_len
  BY <1>1
<1> QED
  BY <1>6, <1>7, <1>8
-----------------------------------------------------------------------------
(***************************************************************************)
(* Types, of every variable, wherever a tab has taken the cursor.          *)
(***************************************************************************)
Rows == [Cols -> Cell]

LEMMA MoreSizes ==
  /\ ByteSize \in Nat \ {0} /\ width * height <= ByteSize * ByteSize
  /\ tap_len \in Nat /\ 1 <= tap_len /\ tap_len <= width
BY ConsoleAssumption DEF ConsoleAssumption

LEMMA RemainderType == ASSUME NEW n \in Int PROVE n % ByteSize \in Byte
BY MoreSizes DEF Byte

LEMMA CursorType ==
  ASSUME NEW x \in Int, NEW y \in Int, update_cursor(x, y)
  PROVE  crtc' \in [low : Byte, high : Byte]
<1> DEFINE pos == y * width + x
<1>1. pos \in Int /\ pos \div ByteSize \in Int
  BY Sizes, MoreSizes
<1>2. pos % ByteSize \in Byte /\ High(pos) \in Byte
  BY <1>1, RemainderType DEF High
<1>3. crtc' = [low |-> pos % ByteSize, high |-> High(pos)]
  BY DEF update_cursor
<1> HIDE DEF pos
<1> QED
  BY <1>2, <1>3

LEMMA InitTypes == Init => TypeOK
<1> SUFFICES ASSUME Init PROVE TypeOK
  OBVIOUS
<1>1. text_memory \in [MemRows -> [Cols -> Cell]]
  <2>1. Row(Junk) \in [Cols -> Cell]
    BY RowsAreRows DEF Cell
  <2> QED
    BY <2>1 DEF Init
<1>2. cursor_x \in Cols /\ cursor_y \in MemRows
  BY Sizes DEF Init, Cols, MemRows
<1>3. past \in Seq([Cols -> Cell])
  <2>1. past = <<>>
    BY DEF Init
  <2> QED
    BY <2>1
<1>4. cleared \in BOOLEAN /\ astray \in BOOLEAN
  BY DEF Init
<1>5. crtc \in [low : Byte, high : Byte]
  BY DEF Init
<1> QED
  BY <1>1, <1>2, <1>3, <1>4, <1>5 DEF TypeOK

LEMMA ScrolledType ==
  ASSUME NEW m \in Memory
  PROVE  Scrolled(m) \in Memory /\ m[0] \in Rows
<1>1. Row(Blank) \in [Cols -> Cell]
  BY RowsAreRows DEF Cell
<1>2. ASSUME NEW y \in MemRows, y < height - 1 PROVE y + 1 \in MemRows
  BY <1>2, Sizes DEF MemRows
<1>3. 0 \in MemRows
  BY Sizes DEF MemRows
<1> QED
  BY <1>1, <1>2, <1>3 DEF Scrolled, Memory, Rows

\* What every branch of putc but the history of tabs ends in.
LEMMA FinishTypes ==
  ASSUME TypeOK, NEW m \in Memory, NEW scroll \in BOOLEAN, NEW x \in Cols, NEW y,
         Finish(m, scroll, x, y), astray' \in BOOLEAN
  PROVE  TypeOK'
<1>1. /\ y \in MemRows /\ cursor_x' = x /\ cursor_y' = y /\ cleared' = cleared
      /\ update_cursor(x, y)
  BY DEF Finish
<1>2. crtc' \in [low : Byte, high : Byte]
  BY <1>1, CursorType DEF Cols, MemRows
<1>3. text_memory' \in Memory
  BY ScrolledType DEF Finish
<1>4. past' \in Seq(Rows)
  <2>1. past \in Seq(Rows)
    BY DEF TypeOK, Rows
  <2>2. past' = past \/ past' = Append(past, m[0])
    BY DEF Finish
  <2> QED
    BY <2>1, <2>2, ScrolledType
<1> QED
  BY <1>1, <1>2, <1>3, <1>4 DEF TypeOK, Memory, Rows

LEMMA MarkedType ==
  ASSUME TypeOK, NEW c \in Text
  PROVE  [text_memory EXCEPT ![cursor_y][cursor_x] = c] \in Memory
<1>1. text_memory \in Memory /\ cursor_y \in MemRows /\ cursor_x \in Cols
  BY DEF TypeOK, Memory
<1>2. [text_memory[cursor_y] EXCEPT ![cursor_x] = c] \in [Cols -> Cell]
  BY <1>1 DEF Memory, Cell
<1> QED
  BY <1>1, <1>2 DEF Memory

LEMMA AdvanceType ==
  ASSUME NEW x \in Cols, NEW y
  PROVE  Advance(x, y)[1] \in Cols
BY Sizes DEF Advance, Cols

LEMMA PutcTypes == ASSUME TypeOK, Putc PROVE TypeOK'
<1>1. /\ text_memory \in Memory /\ cursor_x \in Cols /\ cursor_y \in MemRows
      /\ cursor_y \in Nat /\ astray \in BOOLEAN
  BY DEF TypeOK, Memory, MemRows
<1>2. 0 \in Cols /\ width - 1 \in Cols
  BY Sizes DEF Cols
<1>3. CASE PutTab
  <2>1. TabStop[1] \in Cols
    <3>1. Further(tap_len)[1] \in Cols
      BY <1>1, Sizes, MoreSizes DEF Further, Cols
    <3> QED
      BY <1>1, <3>1, TabMoves
  <2>2. Finish(text_memory, FALSE, TabStop[1], TabStop[2]) /\ astray' \in BOOLEAN
    BY <1>1, <1>3, Zenon DEF PutTab
  <2> QED
    BY <1>1, <2>1, <2>2, FinishTypes
<1>4. CASE PutReturn /\ UNCHANGED astray
  BY <1>1, <1>2, <1>4, FinishTypes DEF PutReturn
<1>5. CASE PutNewLine /\ UNCHANGED astray
  <2> DEFINE last == cursor_y = height - 1
             next == IF last THEN cursor_y ELSE cursor_y + 1
  <2>1. Finish(text_memory, last, 0, next) /\ last \in BOOLEAN
    BY <1>5 DEF PutNewLine
  <2> HIDE DEF last, next
  <2> QED
    BY <1>1, <1>2, <1>5, <2>1, FinishTypes
<1>6. CASE PutBackspace /\ UNCHANGED astray
  <2>1. CASE cursor_x > 0
    <3>1. cursor_x - 1 \in Cols
      BY <1>1, <2>1, Sizes DEF Cols
    <3> QED
      BY <1>1, <1>6, <2>1, <3>1, FinishTypes DEF PutBackspace
  <2>2. CASE ~(cursor_x > 0) /\ cursor_y > 0
    BY <1>1, <1>2, <1>6, <2>2, FinishTypes DEF PutBackspace
  <2>3. CASE ~(cursor_x > 0) /\ ~(cursor_y > 0)
    BY <1>1, <1>6, <2>3, FinishTypes DEF PutBackspace
  <2> QED
    BY <2>1, <2>2, <2>3
<1>7. ASSUME NEW c \in Text, PutText(c), UNCHANGED astray PROVE TypeOK'
  <2> DEFINE m    == [text_memory EXCEPT ![cursor_y][cursor_x] = c]
             next == Advance(cursor_x, cursor_y)
  <2>1. \/ Finish(m, TRUE, 0, height - 1)
        \/ Finish(m, FALSE, next[1], next[2])
    BY <1>7 DEF PutText
  <2>2. m \in Memory /\ next[1] \in Cols
    BY <1>1, MarkedType, AdvanceType
  <2> HIDE DEF m, next
  <2> QED
    BY <1>1, <1>2, <1>7, <2>1, <2>2, FinishTypes
<1> QED
  BY <1>3, <1>4, <1>5, <1>6, <1>7 DEF Putc

LEMMA ClearTypes == ASSUME TypeOK, ClearScreen PROVE TypeOK'
<1>1. text_memory' \in Memory
  <2>1. Row(Blank) \in [Cols -> Cell]
    BY RowsAreRows DEF Cell
  <2> QED
    BY <2>1 DEF TypeOK, ClearScreen, Memory
<1>2. cursor_x' \in Cols /\ cursor_y' \in MemRows
  BY Sizes DEF ClearScreen, Cols, MemRows
<1>3. crtc' \in [low : Byte, high : Byte]
  BY CursorType DEF ClearScreen
<1>4. past' \in Seq([Cols -> Cell])
  <2>1. past' = <<>>
    BY DEF ClearScreen
  <2> QED
    BY <2>1
<1>5. cleared' \in BOOLEAN /\ astray' \in BOOLEAN
  BY DEF ClearScreen, TypeOK
<1> QED
  BY <1>1, <1>2, <1>3, <1>4, <1>5 DEF TypeOK, Memory

\* The types of the console, for every size of the screen and every text: the
\* column is one of the screen, where a tab takes the cursor below it too.
THEOREM TypeCorrect == Spec => []TypeOK
<1>1. TypeOK /\ UNCHANGED vars => TypeOK'
  BY DEF TypeOK, vars
<1>2. TypeOK /\ [Next]_vars => TypeOK'
  BY <1>1, PutcTypes, ClearTypes DEF Next
<1> QED
  BY <1>2, InitTypes, PTL DEF Spec
-----------------------------------------------------------------------------
(***************************************************************************)
(* The console is the teletype of module Terminal.                         *)
(***************************************************************************)

\* The cursor register, written in two halves, tells the row and the column.
LEMMA DivideBack ==
  ASSUME NEW q \in Int, NEW d \in Nat \ {0}, NEW r \in Int, 0 <= r, r < d
  PROVE  (q * d + r) \div d = q /\ (q * d + r) % d = r
<1> DEFINE n == q * d + r
           k == n \div d
           e == n % d
<1>1. n \in Int /\ k \in Int /\ e \in Int /\ 0 <= e /\ e < d /\ n = k * d + e
  OBVIOUS
<1>2. (k - q) * d = r - e
  <2>1. k * d + e = q * d + r
    BY <1>1
  <2>2. (k - q) * d = k * d - q * d
    BY <1>1
  <2>3. k * d \in Int /\ q * d \in Int
    BY <1>1
  <2> HIDE DEF n, k, e
  <2> QED
    BY <1>1, <2>1, <2>2, <2>3
<1>3. k = q
  <2> DEFINE z == k - q
  <2>1. z \in Int /\ z * d < d /\ -d < z * d
    BY <1>1, <1>2
  <2> HIDE DEF z
  <2>2. ~(z >= 1)
    <3> SUFFICES ASSUME z >= 1 PROVE FALSE
      OBVIOUS
    <3>1. z * d >= d
      BY <2>1
    <3> QED
      BY <2>1, <3>1
  <2>3. ~(z <= -1)
    <3> SUFFICES ASSUME z <= -1 PROVE FALSE
      OBVIOUS
    <3>1. z * d <= -d
      BY <2>1
    <3> QED
      BY <2>1, <3>1
  <2>4. z = 0
    BY <2>1, <2>2, <2>3
  <2> QED
    BY <1>1, <2>4 DEF z
<1>4. e = r
  BY <1>1, <1>2, <1>3
<1> QED
  BY <1>3, <1>4

LEMMA HalvesOfPosition ==
  ASSUME NEW pos \in Nat, pos < ByteSize * ByteSize
  PROVE  High(pos) * ByteSize + (pos % ByteSize) = pos
<1> DEFINE q == pos \div ByteSize
           r == pos % ByteSize
<1>1. q \in Int /\ r \in Int /\ 0 <= r /\ r < ByteSize /\ pos = q * ByteSize + r
  BY MoreSizes
<1> HIDE DEF q, r
<1>2. q >= 0
  <2> SUFFICES ASSUME q <= -1 PROVE FALSE
    BY <1>1
  <2>1. q * ByteSize <= -ByteSize
    BY <1>1, MoreSizes
  <2>2. q * ByteSize \in Int
    BY <1>1, MoreSizes
  <2> QED
    BY <1>1, <2>1, <2>2, MoreSizes
<1>3. q < ByteSize
  <2> SUFFICES ASSUME q >= ByteSize PROVE FALSE
    BY <1>1, MoreSizes
  <2>1. q * ByteSize >= ByteSize * ByteSize
    BY <1>1, MoreSizes
  <2>2. q * ByteSize \in Int /\ ByteSize * ByteSize \in Int
    BY <1>1, MoreSizes
  <2> QED
    BY <1>1, <2>1, <2>2, MoreSizes
<1>4. (0 * ByteSize + q) % ByteSize = q
  BY <1>1, <1>2, <1>3, DivideBack, MoreSizes
<1>5. q % ByteSize = q
  BY <1>1, <1>4, MoreSizes
<1>6. High(pos) = q
  BY <1>5 DEF High, q
<1> QED
  BY <1>1, <1>6 DEF r

\* What the refinement mapping gives the teletype: the rows of the roll, and the
\* row and the column of its carriage.
Screen(m) == [r \in 1..height |-> m[r - 1]]
Roll      == past \o Screen(text_memory)
RollRow   == Len(past) + (Shown \div width) + 1
RollCol   == Shown % width

\* The cursor register shows the cursor, and a console nobody has cleared is new.
CursorShown ==
  /\ ~cleared => cursor_x = 0 /\ cursor_y = 0 /\ past = <<>> /\ ~astray
  /\ ~astray => Shown = cursor_y * width + cursor_x

RefinementInv == TypeOK /\ IInv /\ CursorShown

LEMMA PositionFits ==
  ASSUME NEW x \in Cols, NEW y \in 0..height - 1
  PROVE  /\ y * width + x \in Nat /\ y * width + x < ByteSize * ByteSize
         /\ (y * width + x) \div width = y /\ (y * width + x) % width = x
<1>1. /\ x \in Nat /\ y \in Nat /\ x < width /\ y + 1 <= height /\ width \in Nat
      /\ height \in Nat /\ ByteSize \in Nat
  BY Sizes, MoreSizes DEF Cols
<1>2. (y + 1) * width <= height * width
  BY <1>1
<1>3. (y + 1) * width = y * width + width /\ height * width = width * height
  BY <1>1
<1>4. y * width \in Nat /\ width * height \in Nat /\ ByteSize * ByteSize \in Nat
  BY <1>1
<1>5. y * width + x \in Nat /\ y * width + x < ByteSize * ByteSize
  <2>1. width * height <= ByteSize * ByteSize
    BY MoreSizes
  <2> QED
    BY <1>1, <1>2, <1>3, <1>4, <2>1
<1> QED
  BY <1>1, <1>5, DivideBack, Sizes

LEMMA ShownAfter ==
  ASSUME NEW x \in Cols, NEW y \in 0..height - 1, update_cursor(x, y), cleared'
  PROVE  Shown' = y * width + x
<1> DEFINE pos == y * width + x
<1>1. pos \in Nat /\ pos < ByteSize * ByteSize
  BY PositionFits
<1>2. crtc' = [low |-> pos % ByteSize, high |-> High(pos)]
  BY DEF update_cursor
<1>3. Shown' = High(pos) * ByteSize + (pos % ByteSize)
  <2> HIDE DEF pos
  <2> QED
    BY <1>2 DEF Shown
<1> HIDE DEF pos
<1>4. Shown' = pos
  BY <1>1, <1>3, HalvesOfPosition
<1> QED
  BY <1>4 DEF pos

\* The mapping, as long as the cursor is on the screen.
LEMMA Mapped ==
  ASSUME RefinementInv, ~astray
  PROVE  /\ RollRow = Len(past) + cursor_y + 1 /\ RollCol = cursor_x
         /\ cursor_x \in Cols /\ cursor_y \in 0..height - 1
<1>1. cursor_x \in Cols /\ cursor_y \in 0..height - 1
  BY DEF RefinementInv, TypeOK, IInv, OnScreen
<1>2. Shown = cursor_y * width + cursor_x
  BY DEF RefinementInv, CursorShown
<1>3. (cursor_y * width + cursor_x) \div width = cursor_y
      /\ (cursor_y * width + cursor_x) % width = cursor_x
  BY <1>1, PositionFits
<1>4. Shown \div width = cursor_y /\ Shown % width = cursor_x
  BY <1>2, <1>3
<1> QED
  BY <1>1, <1>4 DEF RollRow, RollCol

LEMMA RollType ==
  ASSUME NEW m \in Memory, NEW p \in Seq(Rows)
  PROVE  /\ Screen(m) \in Seq(Rows) /\ Len(Screen(m)) = height
         /\ \A r \in 1..height : Screen(m)[r] = m[r - 1]
         /\ p \o Screen(m) \in Seq(Rows)
         /\ Len(p \o Screen(m)) = Len(p) + height
         /\ \A k \in 1..Len(p) + height :
              (p \o Screen(m))[k] = IF k <= Len(p) THEN p[k] ELSE m[k - Len(p) - 1]
<1>1. \A r \in 1..height : m[r - 1] \in Rows
  BY Sizes DEF Memory, MemRows, Rows
<1>2. Screen(m) \in Seq(Rows) /\ Len(Screen(m)) = height
      /\ \A r \in 1..height : Screen(m)[r] = m[r - 1]
  BY <1>1, Sizes DEF Screen
<1>3. Len(p) \in Nat
  OBVIOUS
<1>4. /\ p \o Screen(m) \in Seq(Rows)
      /\ Len(p \o Screen(m)) = Len(p) + height
      /\ \A k \in 1..Len(p) + height :
           (p \o Screen(m))[k] = IF k <= Len(p) THEN p[k] ELSE Screen(m)[k - Len(p)]
  BY <1>2, ConcatProperties
<1>5. \A k \in 1..Len(p) + height : k > Len(p) => k - Len(p) \in 1..height
  BY <1>3, Sizes
<1> QED
  BY <1>2, <1>3, <1>4, <1>5

\* A scroll tears off nothing and adds one blank row.
LEMMA ScrolledRoll ==
  ASSUME NEW m \in Memory, NEW p \in Seq(Rows)
  PROVE  Append(p, m[0]) \o Screen(Scrolled(m)) = Append(p \o Screen(m), Row(Blank))
<1> DEFINE q == Append(p, m[0])
           s == q \o Screen(Scrolled(m))
           t == p \o Screen(m)
           u == Append(t, Row(Blank))
           n == Len(p)
<1>1. Scrolled(m) \in Memory /\ m[0] \in Rows /\ Row(Blank) \in Rows
  BY ScrolledType, RowsAreRows DEF Cell, Rows
<1>2. q \in Seq(Rows) /\ Len(q) = n + 1 /\ n \in Nat
      /\ \A k \in 1..n + 1 : q[k] = IF k <= n THEN p[k] ELSE m[0]
  BY <1>1
<1>3. s \in Seq(Rows) /\ Len(s) = n + 1 + height
      /\ \A k \in 1..n + 1 + height :
           s[k] = IF k <= n + 1 THEN q[k] ELSE Scrolled(m)[k - (n + 1) - 1]
  <2> HIDE DEF q
  <2> QED
    BY <1>1, <1>2, RollType
<1>4. t \in Seq(Rows) /\ Len(t) = n + height
      /\ \A k \in 1..n + height : t[k] = IF k <= n THEN p[k] ELSE m[k - n - 1]
  BY RollType
<1> HIDE DEF q, s, t, n
<1>5. u \in Seq(Rows) /\ Len(u) = n + height + 1
      /\ \A k \in 1..n + height + 1 : u[k] = IF k <= n + height THEN t[k] ELSE Row(Blank)
  BY <1>1, <1>4, AppendProperties
<1> HIDE DEF u
<1>6. ASSUME NEW k \in 1..n + 1 + height PROVE s[k] = u[k]
  <2>1. k \in 1..n + height + 1 /\ k \in Nat /\ 1 <= k
    BY <1>2, Sizes
  <2>2. CASE k <= n
    <3>1. k <= n + 1 /\ k <= n + height /\ k \in 1..n + 1 /\ k \in 1..n + height
      BY <1>2, <2>1, <2>2, Sizes
    <3>2. s[k] = p[k]
      BY <1>2, <1>3, <2>2, <3>1
    <3>3. u[k] = p[k]
      BY <1>4, <1>5, <2>1, <2>2, <3>1
    <3> QED
      BY <3>2, <3>3
  <2>3. CASE k = n + 1
    <3>1. ~(k <= n) /\ k <= n + height /\ k \in 1..n + 1 /\ k \in 1..n + height
          /\ k - n - 1 = 0
      BY <1>2, <2>3, Sizes
    <3>2. s[k] = m[0]
      BY <1>2, <1>3, <2>3, <3>1
    <3>3. u[k] = m[0]
      BY <1>4, <1>5, <2>1, <3>1
    <3> QED
      BY <3>2, <3>3
  <2>4. CASE k > n + 1
    <3> DEFINE y == k - n - 2
    <3>1. y \in MemRows /\ y <= height - 1 /\ k - (n + 1) - 1 = y
      BY <1>2, <2>1, <2>4, Sizes DEF MemRows
    <3>2. s[k] = Scrolled(m)[y]
      BY <1>2, <1>3, <2>4, <3>1
    <3>3. CASE y < height - 1
      <4>1. Scrolled(m)[y] = m[y + 1]
        BY <3>1, <3>3 DEF Scrolled
      <4>2. k <= n + height /\ k - n - 1 = y + 1 /\ k \in 1..n + height
        BY <1>2, <2>1, <2>4, <3>3, Sizes
      <4> QED
        BY <1>2, <1>4, <1>5, <2>1, <2>4, <3>2, <4>1, <4>2
    <3>4. CASE y = height - 1
      <4>1. Scrolled(m)[y] = Row(Blank)
        BY <3>1, <3>4, Sizes DEF Scrolled
      <4>2. k = n + height + 1
        BY <1>2, <2>1, <3>4, Sizes
      <4> QED
        BY <1>2, <1>5, <2>1, <3>2, <4>1, <4>2, Sizes
    <3>5. y < height - 1 \/ y = height - 1
      BY <3>1, Sizes DEF MemRows
    <3> QED
      BY <3>3, <3>4, <3>5
  <2> QED
    BY <1>2, <2>1, <2>2, <2>3, <2>4
<1>7. s = u
  BY <1>2, <1>3, <1>5, <1>6, SeqEqual, Sizes
<1> QED
  BY <1>7 DEF s, u, t, q

\* The cell putc writes is the one under the carriage.
LEMMA MarkedRoll ==
  ASSUME TypeOK, cursor_y \in 0..height - 1, NEW c \in Text
  PROVE  [Roll EXCEPT ![Len(past) + cursor_y + 1][cursor_x] = c]
           = past \o Screen([text_memory EXCEPT ![cursor_y][cursor_x] = c])
<1> DEFINE m    == [text_memory EXCEPT ![cursor_y][cursor_x] = c]
           n    == Len(past)
           row  == n + cursor_y + 1
           line == [text_memory[cursor_y] EXCEPT ![cursor_x] = c]
           s    == [Roll EXCEPT ![row][cursor_x] = c]
           t    == past \o Screen(m)
<1>1. /\ text_memory \in Memory /\ past \in Seq(Rows) /\ n \in Nat
      /\ cursor_x \in Cols /\ cursor_y \in MemRows
  BY DEF TypeOK, Memory, Rows
<1>2. /\ Roll \in Seq(Rows) /\ Len(Roll) = n + height
      /\ \A k \in 1..n + height :
           Roll[k] = IF k <= n THEN past[k] ELSE text_memory[k - n - 1]
  BY <1>1, RollType DEF Roll
<1>3. m \in Memory
  BY MarkedType
<1>4. \A y \in MemRows : m[y] = IF y = cursor_y THEN line ELSE text_memory[y]
  BY <1>1 DEF Memory
<1>5. line \in Rows
  <2>1. text_memory[cursor_y] \in [Cols -> Cell] /\ c \in Cell
    BY <1>1 DEF Memory, Cell
  <2> QED
    BY <1>1, <2>1 DEF Rows
<1>6. t \in Seq(Rows) /\ Len(t) = n + height
      /\ \A k \in 1..n + height : t[k] = IF k <= n THEN past[k] ELSE m[k - n - 1]
  <2> HIDE DEF m
  <2> QED
    BY <1>1, <1>3, RollType
<1>7. row \in 1..n + height /\ Roll[row] = text_memory[cursor_y]
  BY <1>1, <1>2, Sizes
<1>8. s = [Roll EXCEPT ![row] = line]
  <2>1. s = [Roll EXCEPT ![row] = [Roll[row] EXCEPT ![cursor_x] = c]]
    BY Zenon
  <2> QED
    BY <1>7, <2>1, Zenon
<1> HIDE DEF m, s, t, line
<1>9. s \in Seq(Rows) /\ Len(s) = n + height
      /\ \A k \in 1..n + height : s[k] = IF k = row THEN line ELSE Roll[k]
  BY <1>2, <1>5, <1>7, <1>8, ExceptSeq
<1>10. ASSUME NEW k \in 1..n + height PROVE s[k] = t[k]
  <2>1. CASE k <= n
    <3>1. k # row
      BY <1>1, <2>1 DEF MemRows
    <3>2. s[k] = Roll[k]
      BY <1>9, <3>1
    <3>3. Roll[k] = past[k]
      BY <1>2, <2>1
    <3>4. t[k] = past[k]
      BY <1>6, <2>1
    <3> QED
      BY <3>2, <3>3, <3>4
  <2>2. CASE k > n
    <3>1. k - n - 1 \in MemRows /\ (k - n - 1 = cursor_y <=> k = row)
      BY <1>1, <2>2, Sizes DEF MemRows
    <3>2. s[k] = IF k = row THEN line ELSE text_memory[k - n - 1]
      BY <1>1, <1>2, <1>9, <2>2
    <3>3. t[k] = m[k - n - 1]
      BY <1>1, <1>6, <2>2
    <3> HIDE DEF n, row
    <3> QED
      BY <1>4, <3>1, <3>2, <3>3
  <2> QED
    BY <1>1, <2>1, <2>2
<1>11. s = t
  BY <1>6, <1>9, <1>10, SeqEqual
<1> QED
  BY <1>11 DEF s, t, m

-----------------------------------------------------------------------------
\* What a branch of putc that ends on the screen leaves, for the console and for
\* the teletype.
LEMMA FinishMaps ==
  ASSUME TypeOK, NEW m \in Memory, NEW scroll \in BOOLEAN, NEW x \in Cols,
         NEW y, y < height, Finish(m, scroll, x, y)
  PROVE  /\ CursorShown'
         /\ RollRow' = Len(past') + y + 1 /\ RollCol' = x
         /\ scroll => Roll' = Append(past \o Screen(m), Row(Blank)) /\ Len(past') = Len(past) + 1
         /\ ~scroll => Roll' = past \o Screen(m) /\ past' = past
<1>1. /\ y \in MemRows /\ cleared /\ cleared' = cleared /\ update_cursor(x, y)
      /\ cursor_x' = x /\ cursor_y' = y
  BY DEF Finish
<1>2. y \in 0..height - 1
  BY <1>1, Sizes DEF MemRows
<1>3. Shown' = y * width + x
  BY <1>1, <1>2, ShownAfter
<1>4. (y * width + x) \div width = y /\ (y * width + x) % width = x
  BY <1>2, PositionFits
<1>5. RollRow' = Len(past') + y + 1 /\ RollCol' = x
  BY <1>3, <1>4 DEF RollRow, RollCol
<1>6. past \in Seq(Rows)
  BY DEF TypeOK, Rows
<1>7. CursorShown'
  BY <1>1, <1>3 DEF CursorShown
<1>8. ASSUME scroll
      PROVE  Roll' = Append(past \o Screen(m), Row(Blank)) /\ Len(past') = Len(past) + 1
  <2>1. text_memory' = Scrolled(m) /\ past' = Append(past, m[0])
    BY <1>8 DEF Finish
  <2>2. Roll' = Append(past, m[0]) \o Screen(Scrolled(m))
    BY <2>1 DEF Roll, Screen
  <2>3. m[0] \in Rows
    BY ScrolledType
  <2> QED
    BY <1>6, <2>1, <2>2, <2>3, ScrolledRoll, AppendProperties
<1>9. ASSUME ~scroll PROVE Roll' = past \o Screen(m) /\ past' = past
  BY <1>9 DEF Finish, Roll, Screen
<1> QED
  BY <1>5, <1>7, <1>8, <1>9

\* The carriage is where the cursor is, and below the last row there is a new sheet
\* exactly if the console has scrolled.
LEMMA FinishMoves ==
  ASSUME TypeOK, NEW m \in Memory, NEW scroll \in BOOLEAN, NEW x \in Cols,
         NEW y, y < height, scroll => y = height - 1, Finish(m, scroll, x, y)
  PROVE  LET p == past \o Screen(m)
         IN  /\ CursorShown'
             /\ RollRow' = Len(past) + y + 1 + (IF scroll THEN 1 ELSE 0) /\ RollCol' = x
             /\ Roll' = IF RollRow' > Len(p) THEN Append(p, Row(Blank)) ELSE p
<1> DEFINE p == past \o Screen(m)
<1>1. past \in Seq(Rows) /\ y \in MemRows
  BY DEF TypeOK, Rows, Finish
<1>2. Len(p) = Len(past) + height /\ Len(past) \in Nat /\ y \in Int
  BY <1>1, RollType DEF MemRows
<1>3. CursorShown' /\ RollRow' = Len(past') + y + 1 /\ RollCol' = x
  BY FinishMaps
<1>4. CASE scroll
  <2>1. Roll' = Append(p, Row(Blank)) /\ Len(past') = Len(past) + 1
    BY <1>4, FinishMaps
  <2>2. RollRow' = Len(past) + y + 1 + 1 /\ RollRow' > Len(p)
    BY <1>2, <1>3, <1>4, <2>1, Sizes
  <2> HIDE DEF p
  <2>3. CursorShown' /\ RollRow' = Len(past) + y + 1 + (IF scroll THEN 1 ELSE 0)
        /\ RollCol' = x /\ Roll' = IF RollRow' > Len(p) THEN Append(p, Row(Blank)) ELSE p
    BY <1>3, <1>4, <2>1, <2>2
  <2> QED
    BY <2>3 DEF p
<1>5. CASE ~scroll
  <2>1. Roll' = p /\ past' = past
    BY <1>5, FinishMaps
  <2>2. RollRow' = Len(past) + y + 1 + 0 /\ ~(RollRow' > Len(p))
    BY <1>2, <1>3, <2>1, Sizes
  <2> HIDE DEF p
  <2>3. CursorShown' /\ RollRow' = Len(past) + y + 1 + (IF scroll THEN 1 ELSE 0)
        /\ RollCol' = x /\ Roll' = IF RollRow' > Len(p) THEN Append(p, Row(Blank)) ELSE p
    BY <1>3, <1>5, <2>1, <2>2
  <2> QED
    BY <2>3 DEF p
<1> QED
  BY <1>4, <1>5

\* Steps that have moved the carriage and the roll as the teletype does.
LEMMA CarriageMoved ==
  ASSUME NEW p, NEW r, NEW c, UNCHANGED astray, RollRow' = r, RollCol' = c,
         Roll' = IF RollRow' > Len(p) THEN Append(p, Row(Blank)) ELSE p
  PROVE  Paper!Carriage(p, r, c)
<1>1. Row(Blank) = Paper!BlankRow
  BY DEF Row, Cols, Paper!BlankRow
<1>2. Roll' = IF r > Len(p) THEN Append(p, Paper!BlankRow) ELSE p
  BY <1>1
<1> QED
  BY <1>2, Zenon DEF Paper!Carriage, RollRow, RollCol, Roll, Screen

-----------------------------------------------------------------------------
LEMMA InitRefines == Init => Paper!Init /\ RefinementInv
<1> SUFFICES ASSUME Init PROVE Paper!Init /\ RefinementInv
  OBVIOUS
<1>1. TypeOK /\ IInv
  BY InitTypes, InitIInv
<1>2. ~cleared /\ cursor_x = 0 /\ cursor_y = 0 /\ past = <<>> /\ astray = FALSE
  BY DEF Init
<1>3. Shown = 0
  BY <1>2 DEF Shown
<1>4. 0 * width + 0 = 0
  BY Sizes
<1>5. CursorShown
  BY <1>2, <1>3, <1>4 DEF CursorShown
<1>6. RollRow = 1 /\ RollCol = 0
  BY <1>1, <1>2, <1>5, Mapped DEF RefinementInv
<1>7. Roll \in [1..height -> Rows]
  <2>1. text_memory \in Memory
    BY <1>1 DEF TypeOK, Memory
  <2>2. Screen(text_memory) \in Seq(Rows) /\ Len(Screen(text_memory)) = height
    BY <1>1, <2>1, RollType DEF TypeOK, Rows
  <2>3. Roll = Screen(text_memory)
    BY <1>2, <2>2, ConcatEmptySeq DEF Roll
  <2> QED
    BY <2>2, <2>3, LenProperties
<1>8. Paper!Init
  BY <1>2, <1>6, <1>7
  DEF Paper!Init, Paper!Row, RollRow, RollCol, Roll, Screen, Rows, Cell, Cols
<1> QED
  BY <1>1, <1>5, <1>8 DEF RefinementInv

LEMMA TextRefines ==
  ASSUME RefinementInv, ~astray, NEW c \in Text, PutText(c), UNCHANGED astray
  PROVE  Paper!Mark(c) /\ CursorShown'
<1> DEFINE m    == [text_memory EXCEPT ![cursor_y][cursor_x] = c]
           next == Advance(cursor_x, cursor_y)
           p    == past \o Screen(m)
           q    == [Roll EXCEPT ![RollRow][RollCol] = c]
<1>1. /\ RollRow = Len(past) + cursor_y + 1 /\ RollCol = cursor_x /\ TypeOK
      /\ cursor_x \in Cols /\ cursor_y \in 0..height - 1
  BY Mapped DEF RefinementInv
<1>2. m \in Memory
  BY <1>1, MarkedType
<1>3. q = p
  BY <1>1, MarkedRoll
<1>4. Len(past) \in Nat
  BY <1>1 DEF TypeOK
<1>5. \/ Finish(m, TRUE, 0, height - 1) /\ next[1] = 0 /\ BelowScreen(next[2])
      \/ Finish(m, FALSE, next[1], next[2]) /\ ~(next[1] = 0 /\ BelowScreen(next[2]))
  BY DEF PutText
<1>6. next = IF cursor_x + 1 < width THEN <<cursor_x + 1, cursor_y>>
             ELSE <<0, cursor_y + 1>>
  BY <1>1, Sizes DEF Advance, Cols
<1>7. 0 \in Cols /\ next[1] \in Cols
  BY <1>1, Sizes, AdvanceType DEF Cols
<1> HIDE DEF m, next, q
<1>8. /\ CursorShown'
      /\ RollCol + 1 < width => RollRow' = RollRow /\ RollCol' = RollCol + 1
      /\ ~(RollCol + 1 < width) => RollRow' = RollRow + 1 /\ RollCol' = RollCol + 1 - width
      /\ Roll' = IF RollRow' > Len(p) THEN Append(p, Row(Blank)) ELSE p
  <2>1. CASE Finish(m, TRUE, 0, height - 1) /\ next[1] = 0 /\ BelowScreen(next[2])
    <3>1. height - 1 < height /\ TRUE \in BOOLEAN
      BY Sizes
    <3>2. /\ CursorShown' /\ RollCol' = 0 /\ RollRow' = Len(past) + (height - 1) + 1 + 1
          /\ Roll' = IF RollRow' > Len(p) THEN Append(p, Row(Blank)) ELSE p
      BY <1>1, <1>2, <1>7, <2>1, <3>1, FinishMoves
    <3>3. ~(cursor_x + 1 < width) /\ cursor_x + 1 - width = 0 /\ cursor_y + 1 = height
      BY <1>1, <1>6, <2>1, Sizes DEF BelowScreen, Cols
    <3> HIDE DEF p
    <3> QED
      BY <1>1, <1>4, <3>2, <3>3, Sizes
  <2>2. CASE /\ Finish(m, FALSE, next[1], next[2])
             /\ ~(next[1] = 0 /\ BelowScreen(next[2]))
    <3>1. next[2] < height /\ FALSE \in BOOLEAN
      BY <1>1, <1>6, <2>2, Sizes DEF BelowScreen
    <3>2. /\ CursorShown' /\ RollCol' = next[1] /\ RollRow' = Len(past) + next[2] + 1 + 0
          /\ Roll' = IF RollRow' > Len(p) THEN Append(p, Row(Blank)) ELSE p
      BY <1>1, <1>2, <1>7, <2>2, <3>1, FinishMoves
    <3> HIDE DEF p
    <3>3. CASE cursor_x + 1 < width
      BY <1>1, <1>4, <1>6, <3>2, <3>3, Sizes
    <3>4. CASE ~(cursor_x + 1 < width)
      <4>1. cursor_x + 1 - width = 0
        BY <1>1, <3>4, Sizes DEF Cols
      <4> QED
        BY <1>1, <1>4, <1>6, <3>2, <3>4, <4>1, Sizes
    <3> QED
      BY <3>3, <3>4
  <2> QED
    BY <1>5, <2>1, <2>2
<1>9. Paper!Forward(q, 1)
  <2>1. Row(Blank) = Paper!BlankRow
    BY DEF Row, Cols, Paper!BlankRow
  <2>2. Roll' = IF RollRow' > Len(q) THEN Append(q, Paper!BlankRow) ELSE q
    <3> HIDE DEF p
    <3> QED
      BY <1>3, <1>8, <2>1
  <2>3. CASE RollCol + 1 < width
    <3>1. /\ RollRow' = RollRow /\ RollCol' = RollCol + 1
          /\ Roll' = IF RollRow > Len(q) THEN Append(q, Paper!BlankRow) ELSE q
      BY <1>8, <2>2, <2>3
    <3> QED
      BY <2>3, <3>1, Zenon
      DEF Paper!Forward, Paper!Carriage, RollRow, RollCol, Roll, Screen
  <2>4. CASE ~(RollCol + 1 < width)
    <3>1. /\ RollRow' = RollRow + 1 /\ RollCol' = RollCol + 1 - width
          /\ Roll' = IF RollRow + 1 > Len(q) THEN Append(q, Paper!BlankRow) ELSE q
      BY <1>8, <2>2, <2>4
    <3> QED
      BY <2>4, <3>1, Zenon
      DEF Paper!Forward, Paper!Carriage, RollRow, RollCol, Roll, Screen
  <2> QED
    BY <2>3, <2>4
<1>10. Paper!Mark(c)
  BY <1>9, Zenon DEF Paper!Mark, q, RollRow, RollCol, Roll, Screen
<1> QED
  BY <1>8, <1>10

LEMMA TabRefines ==
  ASSUME RefinementInv, ~astray, PutTab
  PROVE  Paper!Tab /\ CursorShown'
<1> DEFINE x == TabStop[1]
           y == TabStop[2]
<1>1. /\ RollRow = Len(past) + cursor_y + 1 /\ RollCol = cursor_x /\ TypeOK
      /\ cursor_x \in Cols /\ cursor_y \in 0..height - 1
  BY Mapped DEF RefinementInv
<1>2. TabStop = IF cursor_x + tap_len < width THEN <<cursor_x + tap_len, cursor_y>>
                ELSE <<cursor_x + tap_len - width, cursor_y + 1>>
  BY <1>1, TabMoves, Sizes DEF Further
<1>3. Finish(text_memory, FALSE, x, y)
  BY DEF PutTab
<1>4. astray' = (astray \/ y >= height)
  BY Zenon DEF PutTab
<1>5. /\ text_memory \in Memory /\ past \in Seq(Rows) /\ Len(past) \in Nat
      /\ Len(Roll) = Len(past) + height /\ Roll = past \o Screen(text_memory)
  BY <1>1, RollType DEF TypeOK, Memory, Rows, Roll
<1>6. Paper!Tab <=> IF RollRow = Len(Roll) /\ RollCol + tap_len >= width THEN astray'
                    ELSE Paper!Forward(Roll, tap_len)
  BY Zenon DEF Paper!Tab, RollRow, RollCol, Roll, Screen
<1>7. x \in Cols
  BY <1>1, <1>2, Sizes, MoreSizes DEF Cols
<1>8. /\ x = IF cursor_x + tap_len < width THEN cursor_x + tap_len
             ELSE cursor_x + tap_len - width
      /\ y = IF cursor_x + tap_len < width THEN cursor_y ELSE cursor_y + 1
  BY <1>2
<1> HIDE DEF x, y
<1>9. y \in Int /\ (y >= height <=> RollRow = Len(Roll) /\ RollCol + tap_len >= width)
  <2>1. /\ RollRow = Len(Roll) <=> cursor_y = height - 1
        /\ cursor_y \in Int /\ cursor_y < height /\ RollCol = cursor_x /\ cursor_x \in Int
    BY <1>1, <1>5, Sizes DEF Cols
  <2>2. CASE cursor_x + tap_len < width
    <3>1. y = cursor_y /\ ~(RollCol + tap_len >= width)
      BY <1>8, <2>1, <2>2, Sizes, MoreSizes
    <3> QED
      BY <2>1, <3>1, Sizes
  <2>3. CASE ~(cursor_x + tap_len < width)
    <3>1. y = cursor_y + 1 /\ RollCol + tap_len >= width
      BY <1>8, <2>1, <2>3, Sizes, MoreSizes
    <3> QED
      BY <2>1, <3>1, Sizes
  <2> QED
    BY <2>2, <2>3
<1>10. CASE y >= height
  <2>1. astray'
    BY <1>4, <1>10
  <2>2. cleared'
    BY <1>3 DEF Finish
  <2> QED
    BY <1>6, <1>9, <1>10, <2>1, <2>2 DEF CursorShown
<1>11. CASE ~(y >= height)
  <2>1. UNCHANGED astray
    <3>1. astray = FALSE
      BY <1>1 DEF TypeOK
    <3>2. astray' = FALSE
      BY <1>4, <1>11
    <3> QED
      BY <3>1, <3>2
  <2>2. y < height /\ FALSE \in BOOLEAN
    BY <1>9, <1>11, Sizes
  <2>3. /\ CursorShown' /\ RollCol' = x /\ RollRow' = Len(past) + y + 1 + 0
        /\ Roll' = IF RollRow' > Len(Roll) THEN Append(Roll, Row(Blank)) ELSE Roll
    BY <1>1, <1>3, <1>5, <1>7, <2>2, FinishMoves
  <2>4. /\ RollCol + tap_len < width => RollRow' = RollRow /\ RollCol' = RollCol + tap_len
        /\ ~(RollCol + tap_len < width) =>
             RollRow' = RollRow + 1 /\ RollCol' = RollCol + tap_len - width
    BY <1>1, <1>5, <1>8, <2>3
  <2>5. Paper!Forward(Roll, tap_len)
    <3>1. Row(Blank) = Paper!BlankRow
      BY DEF Row, Cols, Paper!BlankRow
    <3>2. CASE RollCol + tap_len < width
      <4>1. /\ RollRow' = RollRow /\ RollCol' = RollCol + tap_len
            /\ Roll' = IF RollRow > Len(Roll) THEN Append(Roll, Paper!BlankRow) ELSE Roll
        BY <2>3, <2>4, <3>1, <3>2
      <4> QED
        BY <2>1, <3>2, <4>1, Zenon
        DEF Paper!Forward, Paper!Carriage, RollRow, RollCol, Roll, Screen
    <3>3. CASE ~(RollCol + tap_len < width)
      <4>1. /\ RollRow' = RollRow + 1 /\ RollCol' = RollCol + tap_len - width
            /\ Roll' = IF RollRow + 1 > Len(Roll) THEN Append(Roll, Paper!BlankRow) ELSE Roll
        BY <2>3, <2>4, <3>1, <3>3
      <4> QED
        BY <2>1, <3>3, <4>1, Zenon
        DEF Paper!Forward, Paper!Carriage, RollRow, RollCol, Roll, Screen
    <3> QED
      BY <3>2, <3>3
  <2> QED
    BY <1>6, <1>9, <1>11, <2>3, <2>5
<1> QED
  BY <1>10, <1>11

LEMMA ControlRefines ==
  ASSUME RefinementInv, ~astray, PutReturn \/ PutNewLine \/ PutBackspace, UNCHANGED astray
  PROVE  /\ \/ Paper!Return \/ Paper!NewLine \/ Paper!Back
            \/ UNCHANGED <<Roll, RollRow, RollCol, astray>>
         /\ CursorShown'
<1>1. /\ RollRow = Len(past) + cursor_y + 1 /\ RollCol = cursor_x /\ TypeOK
      /\ cursor_x \in Cols /\ cursor_y \in 0..height - 1
  BY Mapped DEF RefinementInv
<1>2. /\ text_memory \in Memory /\ past \in Seq(Rows) /\ Len(past) \in Nat
      /\ Len(Roll) = Len(past) + height /\ Roll = past \o Screen(text_memory)
  BY <1>1, RollType DEF TypeOK, Memory, Rows, Roll
<1>3. /\ 0 \in Cols /\ width - 1 \in Cols /\ (cursor_x > 0 => cursor_x - 1 \in Cols)
      /\ cursor_x \in Nat /\ cursor_y \in Nat /\ cursor_y < height /\ cursor_y - 1 < height
      /\ height \in Nat /\ TRUE \in BOOLEAN /\ FALSE \in BOOLEAN
  BY <1>1, Sizes DEF Cols
<1>4. CASE PutReturn
  <2>1. Finish(text_memory, FALSE, 0, cursor_y)
    BY <1>4 DEF PutReturn
  <2>2. /\ CursorShown' /\ RollCol' = 0 /\ RollRow' = Len(past) + cursor_y + 1 + 0
        /\ Roll' = IF RollRow' > Len(Roll) THEN Append(Roll, Row(Blank)) ELSE Roll
    BY <1>1, <1>2, <1>3, <2>1, FinishMoves
  <2>3. RollRow' = RollRow
    BY <1>1, <1>2, <1>3, <2>2
  <2>4. Paper!Carriage(Roll, RollRow, 0)
    BY <2>2, <2>3, CarriageMoved
  <2>5. Paper!Return
    BY <2>4, Zenon DEF Paper!Return, RollRow, Roll, Screen
  <2> QED
    BY <2>2, <2>5
<1>5. CASE PutNewLine
  <2> DEFINE last == cursor_y = height - 1
             y    == IF last THEN cursor_y ELSE cursor_y + 1
  <2>1. Finish(text_memory, last, 0, y)
    BY <1>5 DEF PutNewLine
  <2>2. last \in BOOLEAN /\ y < height /\ (last => y = height - 1)
    BY <1>3
  <2>3. y + 1 + (IF last THEN 1 ELSE 0) = cursor_y + 2 /\ y \in Int
    BY <1>3
  <2> HIDE DEF last, y
  <2>4. /\ CursorShown' /\ RollCol' = 0
        /\ RollRow' = Len(past) + y + 1 + (IF last THEN 1 ELSE 0)
        /\ Roll' = IF RollRow' > Len(Roll) THEN Append(Roll, Row(Blank)) ELSE Roll
    BY <1>1, <1>2, <1>3, <2>1, <2>2, FinishMoves
  <2>5. RollRow' = RollRow + 1
    <3> DEFINE more == IF last THEN 1 ELSE 0
    <3>1. more \in Int
      OBVIOUS
    <3>2. y + 1 + more = cursor_y + 2 /\ RollRow' = Len(past) + y + 1 + more
      BY <2>3, <2>4
    <3> HIDE DEF more
    <3> QED
      <4>1. y \in Int /\ Len(past) \in Int /\ cursor_y \in Int
        BY <1>2, <1>3, <2>3
      <4>2. RollRow = Len(past) + cursor_y + 1
        BY <1>1
      <4> QED
        BY <3>1, <3>2, <4>1, <4>2
  <2>6. Paper!Carriage(Roll, RollRow + 1, 0)
    BY <2>4, <2>5, CarriageMoved
  <2>7. Paper!NewLine
    BY <2>6, Zenon DEF Paper!NewLine, RollRow, Roll, Screen
  <2> QED
    BY <2>4, <2>7
<1>6. CASE PutBackspace
  <2>1. CASE cursor_x > 0
    <3>1. Finish(text_memory, FALSE, cursor_x - 1, cursor_y)
      BY <1>6, <2>1, Zenon DEF PutBackspace
    <3>2. /\ CursorShown' /\ RollCol' = cursor_x - 1 /\ RollRow' = Len(past) + cursor_y + 1 + 0
          /\ Roll' = IF RollRow' > Len(Roll) THEN Append(Roll, Row(Blank)) ELSE Roll
      BY <1>1, <1>2, <1>3, <2>1, <3>1, FinishMoves
    <3>3. RollRow' = RollRow /\ RollCol' = RollCol - 1 /\ RollCol > 0
      BY <1>1, <1>2, <1>3, <2>1, <3>2
    <3>4. Row(Blank) = Paper!BlankRow
      BY DEF Row, Cols, Paper!BlankRow
    <3>5. Roll' = IF RollRow > Len(Roll) THEN Append(Roll, Paper!BlankRow) ELSE Roll
      BY <3>2, <3>3, <3>4
    <3>6. Paper!Back
      BY <3>3, <3>5, Zenon
      DEF Paper!Back, Paper!Carriage, RollRow, RollCol, Roll, Screen
    <3> QED
      BY <3>2, <3>6
  <2>2. CASE ~(cursor_x > 0) /\ cursor_y > 0
    <3>1. Finish(text_memory, FALSE, width - 1, cursor_y - 1)
      BY <1>6, <2>2, Zenon DEF PutBackspace
    <3>2. /\ CursorShown' /\ RollCol' = width - 1
          /\ RollRow' = Len(past) + (cursor_y - 1) + 1 + 0
          /\ Roll' = IF RollRow' > Len(Roll) THEN Append(Roll, Row(Blank)) ELSE Roll
      BY <1>1, <1>2, <1>3, <3>1, FinishMoves
    <3>3. RollRow' = RollRow - 1 /\ RollCol = 0 /\ RollRow > Len(Roll) - height + 1
      BY <1>1, <1>2, <1>3, <2>2, <3>2
    <3>4. Paper!Carriage(Roll, RollRow - 1, width - 1)
      BY <3>2, <3>3, CarriageMoved
    <3>5. Paper!Back
      BY <3>3, <3>4, Zenon DEF Paper!Back, RollRow, RollCol, Roll, Screen
    <3> QED
      BY <3>2, <3>5
  <2>3. CASE ~(cursor_x > 0) /\ ~(cursor_y > 0)
    <3>1. Finish(text_memory, FALSE, cursor_x, cursor_y)
      BY <1>6, <2>3, Zenon DEF PutBackspace
    <3>2. /\ CursorShown' /\ RollCol' = cursor_x /\ RollRow' = Len(past) + cursor_y + 1 + 0
          /\ Roll' = IF RollRow' > Len(Roll) THEN Append(Roll, Row(Blank)) ELSE Roll
      BY <1>1, <1>2, <1>3, <3>1, FinishMoves
    <3>3. RollRow' = RollRow /\ RollCol' = RollCol /\ ~(RollRow' > Len(Roll))
      BY <1>1, <1>2, <1>3, <3>2
    <3> QED
      BY <3>2, <3>3
  <2> QED
    BY <2>1, <2>2, <2>3
<1> QED
  BY <1>4, <1>5, <1>6

LEMMA ClearRefines ==
  ASSUME RefinementInv, ~astray, ClearScreen
  PROVE  Paper!Reset /\ CursorShown'
<1>1. /\ cleared' /\ cursor_x' = 0 /\ cursor_y' = 0 /\ past' = <<>> /\ UNCHANGED astray
      /\ update_cursor(0, 0)
  BY DEF ClearScreen
<1>2. 0 \in Cols /\ 0 \in 0..height - 1
  BY Sizes DEF Cols
<1>3. Shown' = 0 * width + 0
  BY <1>1, <1>2, ShownAfter
<1>4. (0 * width + 0) \div width = 0 /\ (0 * width + 0) % width = 0
  BY <1>2, PositionFits
<1>5. RollRow' = 1 /\ RollCol' = 0
  BY <1>1, <1>3, <1>4 DEF RollRow, RollCol
<1>6. CursorShown'
  BY <1>1, <1>3 DEF CursorShown
<1>7. Roll' = [r \in 1..height |-> Row(Blank)]
  <2>1. \A r \in 1..height : text_memory'[r - 1] = Row(Blank)
    BY Sizes DEF ClearScreen, ClearedRows, MemRows
  <2>2. Screen(text_memory') = [r \in 1..height |-> Row(Blank)]
    BY <2>1 DEF Screen
  <2>3. Row(Blank) \in Rows
    BY RowsAreRows DEF Cell, Rows
  <2>4. Screen(text_memory') \in Seq(Rows)
    BY <2>2, <2>3, Sizes
  <2>5. Roll' = <<>> \o Screen(text_memory')
    BY <1>1 DEF Roll, Screen
  <2> QED
    BY <2>2, <2>4, <2>5, ConcatEmptySeq
<1>8. Row(Blank) = Paper!BlankRow
  BY DEF Row, Cols, Paper!BlankRow
<1> QED
  BY <1>1, <1>5, <1>6, <1>7, <1>8 DEF Paper!Reset, RollRow, RollCol, Roll, Screen

LEMMA Refines ==
  ASSUME RefinementInv, [Next]_vars
  PROVE  /\ [Paper!Next]_<<Roll, RollRow, RollCol, astray>>
         /\ CursorShown'
<1>1. CASE astray
  <2>1. astray'
    BY <1>1, AstrayForGood
  <2>2. cleared
    BY <1>1 DEF RefinementInv, CursorShown
  <2>3. cleared'
    BY <2>2 DEF Next, ClearScreen, Putc, PutTab, PutReturn, PutNewLine, PutBackspace, PutText, Finish, vars
  <2> QED
    BY <1>1, <2>1, <2>3 DEF Paper!Next, CursorShown
<1>2. CASE ~astray /\ UNCHANGED vars
  <2>1. UNCHANGED <<Roll, RollRow, RollCol, astray>>
    BY <1>2 DEF vars, Roll, RollRow, RollCol, Screen, Shown
  <2>2. CursorShown'
    BY <1>2 DEF RefinementInv, CursorShown, vars, Shown
  <2> QED
    BY <2>1, <2>2
<1>3. CASE ~astray /\ ClearScreen
  BY <1>3, ClearRefines, Zenon DEF Paper!Next
<1>4. CASE ~astray /\ PutTab
  BY <1>4, TabRefines, Zenon DEF Paper!Next
<1>5. CASE ~astray /\ (PutReturn \/ PutNewLine \/ PutBackspace) /\ UNCHANGED astray
  BY <1>5, ControlRefines, Zenon DEF Paper!Next
<1>6. CASE ~astray /\ (\E c \in Text : PutText(c)) /\ UNCHANGED astray
  <2>1. PICK c \in Text : PutText(c)
    BY <1>6
  <2>2. Paper!Mark(c) /\ CursorShown'
    BY <1>6, <2>1, TextRefines
  <2> QED
    BY <1>6, <2>2, Zenon DEF Paper!Next
<1> QED
  BY <1>1, <1>2, <1>3, <1>4, <1>5, <1>6 DEF Next, Putc

\* From clear_screen on the console is a teletype, for every size of the screen,
\* every tab and every text: what scrolls away stays on the roll, every character
\* is where it was put, and the two bytes of the CRT controller's register show
\* where the next one goes, up to a tab over the end of the last row.
THEOREM Refinement == Spec => ImplementsTerminal
<1>1. RefinementInv /\ [Next]_vars =>
        RefinementInv' /\ [Paper!Next]_<<Roll, RollRow, RollCol, astray>>
  <2>1. TypeOK /\ [Next]_vars => TypeOK'
    BY PutcTypes, ClearTypes DEF Next, TypeOK, vars
  <2> QED
    BY <2>1, Refines, StepIInv DEF RefinementInv
<1> QED
  BY <1>1, InitRefines, PTL
  DEF Spec, ImplementsTerminal, Paper!Spec, Roll, RollRow, RollCol, Screen
-----------------------------------------------------------------------------
(***************************************************************************)
(* printf: the words it takes.                                             *)
(***************************************************************************)

\* How many words there may have been among the first n characters.
Room(f, n) == Cardinality(Percents(f, n)) + Cardinality(Longs(f, n))

\* What the directive being read may still take.
Claim == IF state = "NORMAL" THEN 0 ELSE IF length = "LONG_LONG" THEN 2 ELSE 1

Place ==
  /\ fmt \in Seq(Alphabet) /\ Len(fmt) <= MaxFormat
  /\ at \in 1..Len(fmt) + 1
  /\ state \in States /\ length \in Lengths

Between ==
  /\ radix = 10 /\ sign = FALSE /\ number = FALSE
  /\ state \in {"NORMAL", "LENGTH"} => length = "DEFAULT"
  /\ state = "LENGTH_SHORT" => length = "SHORT"
  /\ state = "LENGTH_LONG" => length = "LONG" /\ at > 1 /\ fmt[at - 1] = "l"

WordsInv == Place /\ Between /\ args \in Nat /\ args + Claim <= Room(fmt, at - 1)

LEMMA RoomGrows ==
  ASSUME NEW f, NEW n \in Nat
  PROVE  /\ Room(f, n) \in Nat
         /\ Room(f, n + 1) \in Nat
         /\ Room(f, n + 1) >= Room(f, n)
         /\ f[n + 1] = "%" => Room(f, n + 1) >= Room(f, n) + 1
         /\ n > 0 /\ f[n] = "l" /\ f[n + 1] = "l" => Room(f, n + 1) >= Room(f, n) + 1
<1>1. \A k \in Nat : /\ IsFiniteSet(Percents(f, k)) /\ Cardinality(Percents(f, k)) \in Nat
                     /\ IsFiniteSet(Longs(f, k)) /\ Cardinality(Longs(f, k)) \in Nat
  <2> TAKE k \in Nat
  <2>1. IsFiniteSet(1..k) /\ IsFiniteSet(1..k - 1)
    BY FS_Interval
  <2>2. Percents(f, k) \in SUBSET (1..k) /\ Longs(f, k) \in SUBSET (1..k - 1)
    BY DEF Percents, Longs
  <2> QED
    BY <2>1, <2>2, FS_Subset, FS_CardinalityType
<1>2. Percents(f, n) \in SUBSET Percents(f, n + 1) /\ Longs(f, n) \in SUBSET Longs(f, n + 1)
  BY DEF Percents, Longs
<1>3. /\ Cardinality(Percents(f, n)) <= Cardinality(Percents(f, n + 1))
      /\ Cardinality(Longs(f, n)) <= Cardinality(Longs(f, n + 1))
  BY <1>1, <1>2, FS_Subset
<1>4. ASSUME f[n + 1] = "%"
      PROVE  Cardinality(Percents(f, n + 1)) = Cardinality(Percents(f, n)) + 1
  <2>1. Percents(f, n + 1) = Percents(f, n) \union {n + 1} /\ n + 1 \notin Percents(f, n)
    BY <1>4 DEF Percents
  <2> QED
    BY <1>1, <2>1, FS_AddElement
<1>5. ASSUME n > 0, f[n] = "l", f[n + 1] = "l"
      PROVE  Cardinality(Longs(f, n + 1)) = Cardinality(Longs(f, n)) + 1
  <2>1. Longs(f, n + 1) = Longs(f, n) \union {n} /\ n \notin Longs(f, n)
    BY <1>5 DEF Longs
  <2> QED
    BY <1>1, <2>1, FS_AddElement
<1> QED
  BY <1>1, <1>3, <1>4, <1>5 DEF Room

LEMMA InitWords == PrintfInit => WordsInv
<1> SUFFICES ASSUME PrintfInit PROVE WordsInv
  OBVIOUS
<1>1. fmt \in Seq(Alphabet) /\ Len(fmt) \in Nat /\ Len(fmt) <= MaxFormat
  BY FormatAssumption DEF PrintfInit, Formats, FormatAssumption
<1>2. Place
  BY <1>1 DEF PrintfInit, Defaults, Place, States, Lengths
<1>3. Room(fmt, 0) \in Nat
  BY RoomGrows
<1>4. args + Claim <= Room(fmt, at - 1)
  BY <1>3 DEF PrintfInit, Defaults, Claim
<1> QED
  BY <1>2, <1>4 DEF WordsInv, PrintfInit, Defaults, Between

\* A step takes the next character.
LEMMA PlaceStep ==
  ASSUME Place, Step
  PROVE  /\ fmt' = fmt /\ at' = at + 1 /\ at \in 1..Len(fmt) /\ Char \in Alphabet
         /\ Len(fmt) \in Nat /\ at' \in 1..Len(fmt) + 1
BY DEF Place, Step, More, Char

LEMMA OrdinaryWords == WordsInv /\ Ordinary => WordsInv'
<1> SUFFICES ASSUME WordsInv, Ordinary PROVE WordsInv'
  OBVIOUS
<1>1. /\ fmt' = fmt /\ at' = at + 1 /\ at \in 1..Len(fmt) /\ Len(fmt) \in Nat
      /\ at' \in 1..Len(fmt) + 1
  BY PlaceStep DEF WordsInv, Ordinary
<1>2. Room(fmt, at) >= Room(fmt, at - 1) /\ Room(fmt, at) \in Nat /\ Room(fmt, at - 1) \in Nat
  BY <1>1, RoomGrows, at - 1 \in Nat, (at - 1) + 1 = at
<1>3. CASE Char = "%"
  <2>1. Room(fmt, at) >= Room(fmt, at - 1) + 1
    BY <1>1, <1>3, RoomGrows, at - 1 \in Nat, (at - 1) + 1 = at DEF Char
  <2>2. state' = "LENGTH" /\ length' = length /\ args' = args /\ state = "NORMAL"
        /\ UNCHANGED <<radix, sign, number>>
    BY <1>3 DEF Ordinary, Goto
  <2>3. Place' /\ Between'
    BY <1>1, <2>2 DEF WordsInv, Place, Between, States
  <2>4. Claim' = 1 /\ Claim = 0 /\ at' - 1 = at
    BY <1>1, <2>2 DEF Claim, WordsInv, Between
  <2> QED
    BY <1>1, <1>2, <2>1, <2>2, <2>3, <2>4 DEF WordsInv
<1>4. CASE Char # "%"
  <2>1. UNCHANGED <<state, length, radix, sign, number, args>> /\ state = "NORMAL"
    BY <1>4 DEF Ordinary
  <2>2. Place' /\ Between'
    BY <1>1, <2>1 DEF WordsInv, Place, Between
  <2>3. Claim' = 0 /\ Claim = 0 /\ at' - 1 = at
    BY <1>1, <2>1 DEF Claim
  <2> QED
    BY <1>1, <1>2, <2>1, <2>2, <2>3 DEF WordsInv
<1> QED
  BY <1>3, <1>4

LEMMA LengthWords == WordsInv /\ Length => WordsInv'
<1> SUFFICES ASSUME WordsInv, Length PROVE WordsInv'
  OBVIOUS
<1>1. /\ fmt' = fmt /\ at' = at + 1 /\ at \in 1..Len(fmt) /\ Len(fmt) \in Nat
      /\ at' \in 1..Len(fmt) + 1
  BY PlaceStep DEF WordsInv, Length
<1>2. Room(fmt, at) >= Room(fmt, at - 1) /\ Room(fmt, at) \in Nat /\ Room(fmt, at - 1) \in Nat
  BY <1>1, RoomGrows, at - 1 \in Nat, (at - 1) + 1 = at
<1>3. /\ UNCHANGED <<radix, sign, number, args>> /\ state = "LENGTH"
      /\ \/ state' = "LENGTH_SHORT" /\ length' = "SHORT"
         \/ state' = "LENGTH_LONG" /\ length' = "LONG" /\ Char = "l"
  BY DEF Length, Goto
<1>4. Place' /\ Between'
  BY <1>1, <1>3 DEF WordsInv, Place, Between, States, Lengths, Char
<1>5. Claim = 1 /\ Claim' = 1 /\ at' - 1 = at
  BY <1>1, <1>3 DEF WordsInv, Between, Claim
<1> QED
  BY <1>1, <1>2, <1>3, <1>4, <1>5 DEF WordsInv

LEMMA SecondWords == WordsInv /\ SecondLength => WordsInv'
<1> SUFFICES ASSUME WordsInv, SecondLength PROVE WordsInv'
  OBVIOUS
<1>1. /\ fmt' = fmt /\ at' = at + 1 /\ at \in 1..Len(fmt) /\ Len(fmt) \in Nat
      /\ at' \in 1..Len(fmt) + 1
  BY PlaceStep DEF WordsInv, SecondLength
<1>2. Room(fmt, at) >= Room(fmt, at - 1) /\ Room(fmt, at) \in Nat /\ Room(fmt, at - 1) \in Nat
  BY <1>1, RoomGrows, at - 1 \in Nat, (at - 1) + 1 = at
<1>3. /\ UNCHANGED <<radix, sign, number, args>> /\ state' = "SPEC"
      /\ \/ length' = "SHORT_SHORT" /\ state = "LENGTH_SHORT"
         \/ length' = "LONG_LONG" /\ state = "LENGTH_LONG" /\ Char = "l"
  BY DEF SecondLength, Goto
<1>4. Place' /\ Between'
  BY <1>1, <1>3 DEF WordsInv, Place, Between, States, Lengths
<1>5. CASE length' = "SHORT_SHORT"
  <2>1. Claim = 1 /\ Claim' = 1 /\ at' - 1 = at
    BY <1>1, <1>3, <1>5 DEF WordsInv, Between, Claim
  <2> QED
    BY <1>1, <1>2, <1>3, <1>4, <2>1 DEF WordsInv
<1>6. CASE length' = "LONG_LONG"
  <2>1. Claim = 1 /\ Claim' = 2 /\ at' - 1 = at /\ at > 1 /\ fmt[at - 1] = "l" /\ fmt[at] = "l"
    BY <1>1, <1>3, <1>6 DEF WordsInv, Between, Claim, Char
  <2>2. \A n \in Nat : n > 0 /\ fmt[n] = "l" /\ fmt[n + 1] = "l"
                      => Room(fmt, n + 1) >= Room(fmt, n) + 1
    BY RoomGrows
  <2>3. Room(fmt, at) >= Room(fmt, at - 1) + 1
    BY <1>1, <2>1, <2>2, at - 1 \in Nat, (at - 1) + 1 = at
  <2> QED
    BY <1>1, <1>2, <1>3, <1>4, <2>1, <2>3 DEF WordsInv
<1> QED
  BY <1>3, <1>5, <1>6

\* A conversion takes no more than has been claimed.
LEMMA TakesItsClaim ==
  ASSUME WordsInv, AtSpec
  PROVE  WordsTaken \in Nat /\ WordsTaken <= Claim /\ Claim \in {1, 2}
<1>1. state # "NORMAL"
  BY DEF AtSpec
<1>2. Claim = Words(length) /\ Claim \in {1, 2}
  BY <1>1 DEF Claim, Words
<1>3. IsNumber = (Char \in Numeric)
  BY DEF IsNumber, WordsInv, Between
<1>4. CASE Char \in {"c", "s"}
  <2>1. ~IsNumber
    BY <1>3, <1>4 DEF Numeric
  <2>2. WordsTaken = 1
    BY <1>4, <2>1 DEF WordsTaken, One
  <2> QED
    BY <1>2, <2>2
<1>5. CASE Char \notin {"c", "s"}
  <2>1. WordsTaken \in {0, Words(length)}
    BY <1>2, <1>5 DEF WordsTaken, One
  <2> QED
    BY <1>2, <2>1
<1> QED
  BY <1>4, <1>5

LEMMA SpecWords == WordsInv /\ Spec_ => WordsInv'
<1> SUFFICES ASSUME WordsInv, Spec_ PROVE WordsInv'
  OBVIOUS
<1>1. /\ fmt' = fmt /\ at' = at + 1 /\ at \in 1..Len(fmt) /\ Len(fmt) \in Nat
      /\ at' \in 1..Len(fmt) + 1
  BY PlaceStep DEF WordsInv, Spec_
<1>2. Room(fmt, at) >= Room(fmt, at - 1) /\ Room(fmt, at) \in Nat /\ Room(fmt, at - 1) \in Nat
  BY <1>1, RoomGrows, at - 1 \in Nat, (at - 1) + 1 = at
<1>3. /\ state' = "NORMAL" /\ length' = "DEFAULT" /\ radix' = 10
      /\ sign' = FALSE /\ number' = FALSE /\ args' = args + WordsTaken
  BY DEF Spec_, Reset
<1>4. Place' /\ Between'
  BY <1>1, <1>3 DEF WordsInv, Place, Between, States, Lengths
<1>5. Claim' = 0 /\ at' - 1 = at
  BY <1>1, <1>3 DEF Claim
<1>6. WordsTaken \in Nat /\ WordsTaken <= Claim /\ Claim \in {1, 2}
  BY TakesItsClaim DEF Spec_
<1> QED
  BY <1>1, <1>2, <1>3, <1>4, <1>5, <1>6 DEF WordsInv

LEMMA WordsStep == WordsInv /\ [PrintfNext]_printf => WordsInv'
<1>1. WordsInv /\ UNCHANGED printf => WordsInv'
  BY DEF printf, WordsInv, Place, Between, Claim, Room, Percents, Longs
<1> QED
  BY <1>1, OrdinaryWords, LengthWords, SecondWords, SpecWords DEF PrintfNext

\* Whatever the format, and however long.
THEOREM ReadsNoStrayWords == PrintfSpec => []NoStrayWords
<1>1. WordsInv => NoStrayWords
  <2> SUFFICES ASSUME WordsInv PROVE NoStrayWords
    OBVIOUS
  <2>1. Claim \in Nat /\ Room(fmt, at - 1) \in Nat
    BY RoomGrows DEF Claim, WordsInv, Place
  <2> QED
    BY <2>1 DEF WordsInv, NoStrayWords, Room
<1> QED
  BY <1>1, InitWords, WordsStep, PTL DEF PrintfSpec
-----------------------------------------------------------------------------
(***************************************************************************)
(* printf: what it puts out.                                               *)
(***************************************************************************)

LEMMA RoomIsBounded ==
  ASSUME NEW f, NEW n \in Nat
  PROVE  Room(f, n) <= 2 * n
<1>1. /\ IsFiniteSet(1..n) /\ Cardinality(1..n) = n
      /\ IsFiniteSet(1..n - 1) /\ Cardinality(1..n - 1) <= n
  BY FS_Interval
<1>2. Percents(f, n) \in SUBSET (1..n) /\ Longs(f, n) \in SUBSET (1..n - 1)
  BY DEF Percents, Longs
<1>3. Cardinality(Percents(f, n)) <= n /\ IsFiniteSet(Percents(f, n))
  BY <1>1, <1>2, FS_Subset
<1>4. Cardinality(Longs(f, n)) <= Cardinality(1..n - 1) /\ IsFiniteSet(Longs(f, n))
  BY <1>1, <1>2, FS_Subset
<1>5. /\ Cardinality(Percents(f, n)) \in Nat /\ Cardinality(Longs(f, n)) \in Nat
      /\ Cardinality(1..n - 1) \in Nat
  BY <1>1, <1>3, <1>4, FS_CardinalityType
<1> QED
  BY <1>1, <1>3, <1>4, <1>5 DEF Room

\* What Spec_ puts out, as sequences of conversions.
LEMMA WordsFit ==
  ASSUME WordsInv
  PROVE  /\ args \in 0..2 * MaxFormat
         /\ fmt \in Seq(Alphabet) /\ at \in 1..MaxFormat + 1
<1>1. /\ Len(fmt) \in Nat /\ MaxFormat \in Nat /\ Len(fmt) <= MaxFormat
      /\ at \in 1..Len(fmt) + 1 /\ fmt \in Seq(Alphabet)
  BY FormatAssumption DEF FormatAssumption, WordsInv, Place
<1>2. Room(fmt, at - 1) <= 2 * (at - 1) /\ Room(fmt, at - 1) \in Nat /\ Claim \in Nat
  BY <1>1, RoomIsBounded, RoomGrows, at - 1 \in Nat DEF Claim
<1>3. args \in Nat /\ args <= 2 * (at - 1)
  BY <1>1, <1>2 DEF WordsInv
<1> QED
  BY <1>1, <1>3

TypesInv == WordsInv /\ out \in Seq(Items)

LEMMA ItemTypes ==
  ASSUME WordsInv
  PROVE  /\ \A c \in Alphabet : Literal(c) \in Items
         /\ \A c \in Specs, words \in 0..2, base \in {0, 8, 10, 16}, signed \in BOOLEAN :
              /\ Conversion(c, base, signed, args, words) \in Items
              /\ Conversion("number", base, signed, args, words) \in Items
<1>1. args \in 0..2 * MaxFormat /\ 0 \in 0..2 * MaxFormat /\ 0 \in 0..2
  BY WordsFit, FormatAssumption DEF FormatAssumption
<1>2. \A c \in Alphabet : c \in Specs \union {"h", "l", "a"}
  BY FormatAssumption DEF FormatAssumption
<1>3. \A c \in Alphabet : Literal(c) \in Items
  BY <1>1, <1>2 DEF Literal, Conversion, Items
<1> QED
  BY <1>1, <1>3 DEF Conversion, Items

\* What a conversion puts out: a character, a number, or nothing.
SpecOutput ==
  CASE Char \in {"c", "s"} -> <<Conversion(Char, 0, FALSE, args, 1)>>
    [] Char = "%" -> <<Literal("%")>>
    [] Char \in Numeric -> <<Conversion("number", Radix, Sign, args, Words(length))>>
    [] OTHER -> <<>>

LEMMA SpecPutsOut ==
  ASSUME TypesInv, Spec_
  PROVE  out' = out \o SpecOutput /\ SpecOutput \in Seq(Items)
<1>1. out' = out \o Taken(args) \o Printed(args + One({"c", "s"})) /\ Char \in Alphabet
  BY PlaceStep DEF Spec_, TypesInv, WordsInv
<1>2. IsNumber = (Char \in Numeric) /\ out \in Seq(Items) /\ WordsInv
  BY DEF IsNumber, TypesInv, WordsInv, Between
<1>3. \A s \in Seq(Items) : s \o <<>> = s
  BY ConcatEmptySeq
<1>8. \A e \in Items : <<e>> \in Seq(Items)
  OBVIOUS
<1>4. CASE Char \in {"c", "s"}
  <2>1. Char \notin Numeric /\ Char \in Specs
    BY <1>4 DEF Numeric, Specs
  <2>2. Printed(args + One({"c", "s"})) = <<>>
    BY <1>2, <2>1 DEF Printed
  <2>3. /\ Taken(args) = <<Conversion(Char, 0, FALSE, args, 1)>>
        /\ SpecOutput = <<Conversion(Char, 0, FALSE, args, 1)>>
    <3>1. Char # "%"
      BY <1>4
    <3> QED
      BY <1>4, <2>1, <3>1, Zenon DEF Taken, SpecOutput
  <2>4. Conversion(Char, 0, FALSE, args, 1) \in Items
    <3>1. 0 \in {0, 8, 10, 16} /\ 1 \in 0..2 /\ FALSE \in BOOLEAN
      OBVIOUS
    <3> QED
      BY <1>2, <2>1, <3>1, ItemTypes, Zenon
  <2>5. out \o Taken(args) \in Seq(Items) /\ SpecOutput \in Seq(Items)
    BY <1>2, <1>8, <2>3, <2>4, ConcatProperties
  <2> QED
    BY <1>1, <1>3, <2>2, <2>3, <2>5
<1>5. CASE Char = "%"
  <2>1. Char \notin Numeric
    BY <1>5 DEF Numeric
  <2>2. Printed(args + One({"c", "s"})) = <<>>
    BY <1>2, <2>1 DEF Printed
  <2>3. Taken(args) = <<Literal("%")>> /\ SpecOutput = <<Literal("%")>>
    <3>1. Char \notin {"c", "s"}
      BY <1>5
    <3> QED
      BY <1>5, <2>1, <3>1, Zenon DEF Taken, SpecOutput
  <2>4. Literal("%") \in Items
    BY <1>1, <1>2, <1>5, ItemTypes
  <2>5. out \o Taken(args) \in Seq(Items) /\ SpecOutput \in Seq(Items)
    BY <1>2, <1>8, <2>3, <2>4, ConcatProperties
  <2> QED
    BY <1>1, <1>3, <2>2, <2>3, <2>5
<1>6. CASE Char \in Numeric
  <2>1. Char \notin {"c", "s"} /\ Char # "%" /\ Char \in Specs
    BY <1>6 DEF Numeric, Specs
  <2>2. Taken(args) = <<>> /\ One({"c", "s"}) = 0 /\ args + 0 = args
    BY <1>2, <2>1 DEF Taken, One, WordsInv
  <2>3. /\ Printed(args) = <<Conversion("number", Radix, Sign, args, Words(length))>>
        /\ SpecOutput = <<Conversion("number", Radix, Sign, args, Words(length))>>
    BY <1>2, <1>6, <2>1 DEF Printed, SpecOutput
  <2>4. Radix \in {0, 8, 10, 16} /\ Words(length) \in 0..2
    BY <1>6 DEF Radix, Numeric, Words
  <2>5. Sign \in BOOLEAN
    BY <1>6 DEF Sign, Numeric
  <2>6. Conversion("number", Radix, Sign, args, Words(length)) \in Items
    BY <1>2, <2>1, <2>4, <2>5, ItemTypes
  <2>7. SpecOutput \in Seq(Items)
    BY <1>8, <2>3, <2>6
  <2> QED
    BY <1>1, <1>2, <1>3, <2>2, <2>3, <2>7
<1>7. CASE Char \notin {"c", "s"} /\ Char # "%" /\ Char \notin Numeric
  <2>1. Taken(args) = <<>> /\ Printed(args + One({"c", "s"})) = <<>> /\ SpecOutput = <<>>
    BY <1>2, <1>7 DEF Taken, Printed, SpecOutput
  <2> QED
    BY <1>1, <1>2, <1>3, <2>1
<1> QED
  BY <1>4, <1>5, <1>6, <1>7

LEMMA TypesStep == TypesInv /\ [PrintfNext]_printf => TypesInv'
<1> SUFFICES ASSUME TypesInv, [PrintfNext]_printf PROVE TypesInv'
  OBVIOUS
<1>1. WordsInv' /\ WordsInv /\ out \in Seq(Items)
  BY WordsStep DEF TypesInv
<1>2. CASE Ordinary
  <2>1. Char \in Alphabet
    BY <1>1, <1>2, PlaceStep DEF Ordinary, WordsInv
  <2>2. Literal(Char) \in Items
    BY <1>1, <2>1, ItemTypes
  <2>3. out' = out \/ out' = Append(out, Literal(Char))
    BY <1>2 DEF Ordinary, Goto
  <2>4. Append(out, Literal(Char)) \in Seq(Items)
    BY <1>1, <2>2
  <2> QED
    BY <1>1, <2>3, <2>4 DEF TypesInv
<1>3. CASE Length \/ SecondLength \/ UNCHANGED printf
  BY <1>1, <1>3 DEF Length, SecondLength, Goto, printf, TypesInv
<1>4. CASE Spec_
  <2>1. out' = out \o SpecOutput /\ SpecOutput \in Seq(Items)
    BY <1>4, SpecPutsOut
  <2>2. out \o SpecOutput \in Seq(Items)
    BY <1>1, <2>1
  <2> QED
    BY <1>1, <2>1, <2>2 DEF TypesInv
<1> QED
  BY <1>2, <1>3, <1>4 DEF PrintfNext

LEMMA InitTypesInv == PrintfInit => TypesInv
BY InitWords, EmptySeq DEF TypesInv, PrintfInit

\* The variables keep to their types, with room for two words for every character.
THEOREM PrintfTypesCorrect == PrintfSpec => []PrintfTypes
<1>1. TypesInv => PrintfTypes
  BY WordsFit DEF TypesInv, WordsInv, Place, Between, PrintfTypes
<1> QED
  BY <1>1, InitTypesInv, TypesStep, PTL DEF PrintfSpec
-----------------------------------------------------------------------------
(***************************************************************************)
(* printf: what it puts out is what the reference reads.                   *)
(***************************************************************************)

Start == Read(TRUE, 1, 0, <<>>)

\* The equation Reference's function is defined by, up to n.
Reads(f, n, g) ==
  g = [k \in 0..n |-> IF k = 0 THEN Start ELSE ReadNext(f, g[k - 1])]

Reading(f) == CHOOSE g : Reads(f, Len(f), g)

LEMMA ReadingExists == ASSUME NEW f, NEW n \in Nat PROVE \E g : Reads(f, n, g)
<1> DEFINE T == {k \in Nat : ~\E g : Reads(f, k, g)}
<1> SUFFICES ASSUME T # {} PROVE FALSE
  OBVIOUS
<1>1. PICK m \in T : \A k \in T : ~(k < m)
  BY LeastOfSet
<1>2. CASE m = 0
  <2>1. Reads(f, 0, [k \in 0..0 |-> Start])
    BY DEF Reads
  <2> QED
    BY <1>1, <1>2, <2>1
<1>3. CASE m # 0
  <2>1. m - 1 \in Nat /\ m \in Nat
    BY <1>1, <1>3
  <2>2. PICK g : Reads(f, m - 1, g)
    BY <1>1, <2>1
  <2> DEFINE h == [k \in 0..m |-> IF k = m THEN ReadNext(f, g[m - 1]) ELSE g[k]]
  <2>3. \A k \in 0..m - 1 : g[k] = IF k = 0 THEN Start ELSE ReadNext(f, g[k - 1])
    BY <2>2 DEF Reads
  <2>4. \A k \in 0..m : h[k] = IF k = 0 THEN Start ELSE ReadNext(f, h[k - 1])
    <3> TAKE k \in 0..m
    <3>1. CASE k = 0
      BY <1>3, <2>1, <2>3, <3>1
    <3>2. CASE k # 0
      <4>1. k - 1 \in 0..m - 1 /\ k - 1 \in 0..m /\ k - 1 # m
        BY <2>1, <3>2
      <4>2. h[k - 1] = g[k - 1]
        BY <4>1
      <4>3. h[k] = ReadNext(f, g[k - 1])
        <5>1. CASE k = m
          BY <5>1
        <5>2. CASE k # m
          <6>1. k \in 0..m - 1
            BY <2>1, <5>2
          <6> QED
            BY <2>3, <3>2, <5>2, <6>1
        <5> QED
          BY <5>1, <5>2
      <4> QED
        BY <3>2, <4>2, <4>3
    <3> QED
      BY <3>1, <3>2
  <2>5. h = [k \in 0..m |-> h[k]]
    OBVIOUS
  <2> HIDE DEF h
  <2>6. Reads(f, m, h)
    BY <2>4, <2>5 DEF Reads
  <2> QED
    BY <1>1, <2>6
<1> QED
  BY <1>2, <1>3

LEMMA ReadingIs ==
  ASSUME NEW f, Len(f) \in Nat
  PROVE  /\ Reading(f)[0] = Start
         /\ \A n \in 1..Len(f) : Reading(f)[n] = ReadNext(f, Reading(f)[n - 1])
         /\ Reference(f) = Reading(f)[Len(f)]
<1>1. Reads(f, Len(f), Reading(f))
  BY ReadingExists DEF Reading
<1>2. Reference(f) = Reading(f)[Len(f)]
  BY DEF Reference, Reading, Reads, Start
<1>3. \A k \in 0..Len(f) :
        Reading(f)[k] = IF k = 0 THEN Start ELSE ReadNext(f, Reading(f)[k - 1])
  BY <1>1 DEF Reads
<1> QED
  BY <1>2, <1>3

\* What has been read is not lost, and an end is an end.
LEMMA ReadingStays ==
  ASSUME NEW f, Len(f) \in Nat, NEW n \in 0..Len(f),
         ~Reading(f)[n].ok \/ ~(Reading(f)[n].at <= Len(f))
  PROVE  Reference(f) = Reading(f)[n]
<1> DEFINE T == {k \in n..Len(f) : Reading(f)[k] # Reading(f)[n]}
<1>1. T = {}
  <2> SUFFICES ASSUME T # {} PROVE FALSE
    OBVIOUS
  <2>1. T \subseteq Nat
    OBVIOUS
  <2>2. PICK m \in T : \A k \in T : ~(k < m)
    BY <2>1, LeastOfSet
  <2>3. m \in n..Len(f) /\ m # n
    BY <2>2
  <2>4. m - 1 \in n..Len(f) /\ m - 1 < m /\ m \in 1..Len(f)
    BY <2>3
  <2>5. Reading(f)[m - 1] = Reading(f)[n]
    BY <2>2, <2>4
  <2>6. Reading(f)[m] = ReadNext(f, Reading(f)[m - 1])
    BY <2>4, ReadingIs
  <2>7. Reading(f)[m] = Reading(f)[n]
    BY <2>5, <2>6 DEF ReadNext
  <2> QED
    BY <2>2, <2>7
<1>2. Len(f) \in n..Len(f)
  OBVIOUS
<1> QED
  BY <1>1, <1>2, ReadingIs
-----------------------------------------------------------------------------

\* The machine is as far as r has been read, or inside the directive at r.at.
Follows(r) ==
  /\ r.ok /\ r.args = args /\ r.out = out
  /\ r.at \in 1..Len(fmt) + 1
  /\ \/ state = "NORMAL" /\ at = r.at
     \/ /\ at > r.at /\ fmt[r.at] = "%"
        /\ \/ state = "LENGTH" /\ at = r.at + 1
           \/ state = "LENGTH_SHORT" /\ at = r.at + 2 /\ fmt[r.at + 1] = "h"
           \/ state = "LENGTH_LONG" /\ at = r.at + 2 /\ fmt[r.at + 1] = "l"
           \/ /\ state = "SPEC" /\ at = r.at + 3 /\ fmt[r.at + 2] = fmt[r.at + 1]
              /\ \/ fmt[r.at + 1] = "h" /\ length = "SHORT_SHORT"
                 \/ fmt[r.at + 1] = "l" /\ length = "LONG_LONG"

Abandoned == \E n \in 0..Len(fmt) : ~Reading(fmt)[n].ok

Followed == \E n \in 0..Len(fmt) : n < Reading(fmt)[n].at /\ Follows(Reading(fmt)[n])

FormatInv == TypesInv /\ (Abandoned \/ Followed)

LEMMA InitFormat == PrintfInit => FormatInv
<1> SUFFICES ASSUME PrintfInit PROVE FormatInv
  OBVIOUS
<1>1. TypesInv
  BY InitTypesInv
<1>2. Len(fmt) \in Nat
  BY <1>1 DEF TypesInv, WordsInv, Place
<1>3. Reading(fmt)[0] = Start
  BY <1>2, ReadingIs
<1>4. Start.ok = TRUE /\ Start.at = 1 /\ Start.args = 0 /\ Start.out = <<>>
  BY DEF Start, Read
<1>5. Follows(Start) /\ 0 < Start.at /\ 0 \in 0..Len(fmt)
  BY <1>2, <1>4 DEF Follows, PrintfInit, Defaults
<1> QED
  BY <1>1, <1>3, <1>5 DEF FormatInv, Followed

\* The step that ends a directive, or takes a plain character, is one more read.
LEMMA OneMoreRead ==
  ASSUME FormatInv, TypesInv', fmt' = fmt, at \in 1..Len(fmt),
         NEW n \in 0..Len(fmt), n < Reading(fmt)[n].at, Follows(Reading(fmt)[n]),
         NEW s, s = ReadOne(fmt, Reading(fmt)[n]),
         s.ok => Follows(s)' /\ s.at = at + 1
  PROVE  FormatInv'
<1>1. Len(fmt) \in Nat /\ Reading(fmt)[n].at <= at
  BY DEF FormatInv, TypesInv, WordsInv, Place, Follows
<1>2. /\ Reading(fmt)[n].ok /\ Reading(fmt)[n].at <= Len(fmt) /\ n + 1 \in 1..Len(fmt)
      /\ n + 1 < at + 1
  BY <1>1 DEF Follows
<1>3. Reading(fmt)[n + 1] = ReadNext(fmt, Reading(fmt)[n])
  BY <1>1, <1>2, ReadingIs, (n + 1) - 1 = n
<1>4. Reading(fmt)[n + 1] = s
  BY <1>2, <1>3 DEF ReadNext
<1>5. n + 1 \in 0..Len(fmt')
  BY <1>2
<1>6. CASE s.ok
  <2>1. Followed'
    BY <1>2, <1>4, <1>5, <1>6 DEF Followed
  <2> QED
    BY <2>1 DEF FormatInv
<1>7. CASE ~s.ok
  <2>1. Abandoned'
    BY <1>4, <1>5, <1>7 DEF Abandoned
  <2> QED
    BY <2>1 DEF FormatInv
<1> QED
  BY <1>6, <1>7

LEMMA OrdinaryReads ==
  ASSUME FormatInv, TypesInv', Ordinary, Followed
  PROVE  FormatInv'
<1>1. /\ fmt' = fmt /\ at' = at + 1 /\ at \in 1..Len(fmt) /\ Len(fmt) \in Nat
      /\ at' \in 1..Len(fmt) + 1
  BY PlaceStep DEF FormatInv, TypesInv, WordsInv, Ordinary
<1>2. PICK n \in 0..Len(fmt) : n < Reading(fmt)[n].at /\ Follows(Reading(fmt)[n])
  BY DEF Followed
<1>3. PICK r : r = Reading(fmt)[n]
  OBVIOUS
<1>4. state = "NORMAL"
  BY DEF Ordinary
<1>5. r.ok /\ r.args = args /\ r.out = out /\ r.at = at
  BY <1>2, <1>3, <1>4 DEF Follows
<1>6. CASE Char = "%"
  <2>1. state' = "LENGTH" /\ args' = args /\ out' = out
    BY <1>6 DEF Ordinary, Goto
  <2>2. Follows(r)'
    BY <1>1, <1>5, <1>6, <2>1 DEF Follows, Char
  <2>3. Followed'
    BY <1>1, <1>2, <1>3, <2>2 DEF Followed
  <2> QED
    BY <2>3 DEF FormatInv
<1>7. CASE Char # "%"
  <2>1. state' = "NORMAL" /\ args' = args /\ out' = Append(out, Literal(Char))
    BY <1>4, <1>7 DEF Ordinary
  <2>2. PICK s : s = ReadOne(fmt, r)
    OBVIOUS
  <2>3. s = Read(TRUE, at + 1, args, Append(out, Literal(Char)))
    BY <1>5, <1>7, <2>2 DEF ReadOne, Char
  <2>4. s.ok = TRUE /\ s.at = at + 1 /\ s.args = args' /\ s.out = out'
    BY <2>1, <2>3 DEF Read
  <2>5. Follows(s)'
    BY <1>1, <2>1, <2>4 DEF Follows
  <2> QED
    BY <1>1, <1>2, <1>3, <2>2, <2>4, <2>5, OneMoreRead
<1> QED
  BY <1>6, <1>7

\* A length character leads further into the directive.
LEMMA LengthsRead ==
  ASSUME FormatInv, TypesInv', Length \/ SecondLength, Followed
  PROVE  FormatInv'
<1>1. /\ fmt' = fmt /\ at' = at + 1 /\ at \in 1..Len(fmt) /\ Len(fmt) \in Nat
      /\ at' \in 1..Len(fmt) + 1
  BY PlaceStep DEF FormatInv, TypesInv, WordsInv, Length, SecondLength
<1>2. PICK n \in 0..Len(fmt) : n < Reading(fmt)[n].at /\ Follows(Reading(fmt)[n])
  BY DEF Followed
<1>3. PICK r : r = Reading(fmt)[n]
  OBVIOUS
<1>4. r.ok /\ r.args = args /\ r.out = out /\ r.at \in 1..Len(fmt) + 1 /\ Follows(r)
  BY <1>2, <1>3 DEF Follows
<1>5. args' = args /\ out' = out
  BY DEF Length, SecondLength, Goto
<1>6. Follows(r)'
  <2>1. CASE Length
    <3>1. /\ state = "LENGTH"
          /\ \/ Char = "h" /\ state' = "LENGTH_SHORT"
             \/ Char = "l" /\ state' = "LENGTH_LONG"
      BY <2>1 DEF Length, Goto
    <3>2. at = r.at + 1 /\ fmt[r.at] = "%"
      BY <1>4, <3>1 DEF Follows
    <3> QED
      BY <1>1, <1>4, <1>5, <3>1, <3>2 DEF Follows, Char
  <2>2. CASE SecondLength
    <3>1. /\ state' = "SPEC"
          /\ \/ state = "LENGTH_SHORT" /\ Char = "h" /\ length' = "SHORT_SHORT"
             \/ state = "LENGTH_LONG" /\ Char = "l" /\ length' = "LONG_LONG"
      BY <2>2 DEF SecondLength, Goto
    <3>2. /\ at = r.at + 2 /\ fmt[r.at] = "%"
          /\ state = "LENGTH_SHORT" => fmt[r.at + 1] = "h"
          /\ state = "LENGTH_LONG" => fmt[r.at + 1] = "l"
      BY <1>4, <3>1 DEF Follows
    <3>3. /\ at' = r.at + 3 /\ at' > r.at /\ fmt[r.at + 2] = Char
          /\ r.at \in 1..Len(fmt') + 1
      BY <1>1, <1>4, <3>2 DEF Char
    <3> QED
      BY <1>1, <1>4, <1>5, <3>1, <3>2, <3>3 DEF Follows
  <2> QED
    BY <2>1, <2>2
<1>7. Followed'
  BY <1>1, <1>2, <1>3, <1>6 DEF Followed
<1> QED
  BY <1>7 DEF FormatInv

\* How many length characters there have been.
LEMMA PrefixRead ==
  ASSUME FormatInv, AtSpec, More, NEW r, Follows(r)
  PROVE  /\ Prefix(fmt, r.at) \in 0..2 /\ at = r.at + Prefix(fmt, r.at) + 1
         /\ fmt[r.at] = "%"
         /\ (Prefix(fmt, r.at) = 2 /\ fmt[r.at + 1] = "l") <=> length = "LONG_LONG"
<1>1. Len(fmt) \in Nat /\ r.at \in 1..Len(fmt) + 1 /\ at \in 1..Len(fmt)
  BY DEF FormatInv, TypesInv, WordsInv, Place, Follows, More
<1>2. Between
  BY DEF FormatInv, TypesInv, WordsInv
<1>3. state # "NORMAL"
  BY DEF AtSpec
<1>4. fmt[r.at] = "%"
  BY <1>3 DEF Follows
<1>5. CASE state = "LENGTH"
  <2>1. at = r.at + 1 /\ fmt[r.at + 1] \notin {"h", "l"} /\ length # "LONG_LONG"
    BY <1>2, <1>5 DEF Follows, AtSpec, Char, Between
  <2>2. Prefix(fmt, r.at) = 0
    BY <1>1, <2>1 DEF Prefix, Lone
  <2> QED
    BY <1>1, <1>4, <2>1, <2>2
<1>6. CASE state \in {"LENGTH_SHORT", "LENGTH_LONG"}
  <2>1. /\ at = r.at + 2 /\ fmt[r.at + 1] \in {"h", "l"} /\ fmt[r.at + 2] # fmt[r.at + 1]
        /\ length # "LONG_LONG"
    BY <1>2, <1>6 DEF Follows, AtSpec, Char, Between
  <2>2. Prefix(fmt, r.at) = 1
    BY <1>1, <2>1 DEF Prefix, Lone
  <2> QED
    BY <1>1, <1>4, <2>1, <2>2
<1>7. CASE state = "SPEC"
  <2>1. /\ at = r.at + 3 /\ fmt[r.at + 1] \in {"h", "l"} /\ fmt[r.at + 2] = fmt[r.at + 1]
        /\ fmt[r.at + 1] = "l" <=> length = "LONG_LONG"
    BY <1>7 DEF Follows
  <2>2. Prefix(fmt, r.at) = 2
    BY <1>1, <2>1 DEF Prefix, Lone
  <2> QED
    BY <1>1, <1>4, <2>1, <2>2
<1> QED
  BY <1>5, <1>6, <1>7 DEF AtSpec

\* A directive the reference has no reading of may print anything.
LEMMA DirectiveRead ==
  ASSUME FormatInv, Spec_, NEW r, Follows(r), NEW s, s = ReadOne(fmt, r), s.ok
  PROVE  s.at = at + 1 /\ s.args = args' /\ s.out = out'
<1> DEFINE p    == Prefix(fmt, r.at)
           long == p = 2 /\ fmt[r.at + 1] = "l"
           c    == fmt[r.at + p + 1]
<1>1. AtSpec /\ More /\ TypesInv /\ args \in Nat
  BY DEF Spec_, Step, FormatInv, TypesInv, WordsInv
<1>2. /\ p \in 0..2 /\ at = r.at + p + 1 /\ fmt[r.at] = "%"
      /\ long <=> length = "LONG_LONG"
  BY <1>1, PrefixRead
<1>3. r.args = args /\ r.out = out
  BY DEF Follows
<1>4. c = Char
  BY <1>2 DEF Char
<1>5. s = IF r.at + p + 1 > Len(fmt) \/ c \notin Specs \/ (p > 0 /\ c \notin Numeric)
          THEN Read(FALSE, r.at, r.args, r.out)
          ELSE Read(TRUE, r.at + p + 1 + 1, r.args + StandardWords(c, long),
                    r.out \o Directive(c, long, r.args))
  BY <1>2, Zenon DEF ReadOne
<1> HIDE DEF p, c, long
<1>6. c \in Specs
  BY <1>5 DEF Read
<1>7. s = Read(TRUE, at + 1, args + StandardWords(c, long), out \o Directive(c, long, args))
  <2>1. ~(r.at + p + 1 > Len(fmt) \/ c \notin Specs \/ (p > 0 /\ c \notin Numeric))
    BY <1>5 DEF Read
  <2> QED
    <3>1. r.at + p + 1 = at /\ r.at + p + 1 + 1 = at + 1
      BY <1>2
    <3> QED
      BY <1>3, <1>5, <2>1, <3>1, Zenon
<1>8. Directive(c, long, args) = SpecOutput
  <2>1. CASE c = "%"
    <3>1. c \notin {"c", "s"} /\ c \notin Numeric
      BY <2>1 DEF Numeric
    <3> QED
      BY <1>4, <2>1, <3>1, Zenon DEF Directive, SpecOutput
  <2>2. CASE c \in {"c", "s"}
    <3>1. c # "%" /\ c \notin Numeric
      BY <2>2 DEF Numeric
    <3> QED
      BY <1>4, <2>2, <3>1, Zenon DEF Directive, SpecOutput
  <2>3. CASE c \in Numeric
    <3>1. c \notin {"c", "s"} /\ c # "%"
      BY <2>3 DEF Numeric
    <3>2. Radix = CASE c = "x" -> 16 [] c = "o" -> 8 [] OTHER -> 10
      BY <1>4, <2>3 DEF Radix, Numeric
    <3>3. Sign = (c = "d")
      BY <1>4, <2>3 DEF Sign, Numeric
    <3>4. StandardWords(c, long) = Words(length)
      BY <1>2, <3>1, Zenon DEF StandardWords, Words
    <3> QED
      BY <1>4, <2>3, <3>1, <3>2, <3>3, <3>4, Zenon DEF Directive, SpecOutput
  <2> QED
    BY <1>6, <2>1, <2>2, <2>3 DEF Specs
<1>9. StandardWords(c, long) = WordsTaken
  <2>1. IsNumber = (c \in Numeric)
    BY <1>1, <1>4 DEF IsNumber, TypesInv, WordsInv, Between
  <2>2. WordsTaken = One({"c", "s"}) + (IF c \in Numeric THEN Words(length) ELSE 0)
    BY <2>1 DEF WordsTaken
  <2>3. Words(length) \in {1, 2}
    BY DEF Words
  <2>4. CASE c = "%"
    <3>1. c \notin {"c", "s"} /\ c \notin Numeric
      BY <2>4 DEF Numeric
    <3>2. One({"c", "s"}) = 0
      BY <1>4, <3>1 DEF One
    <3>3. StandardWords(c, long) = 0
      BY <2>4, Zenon DEF StandardWords
    <3> QED
      BY <2>2, <3>1, <3>2, <3>3
  <2>5. CASE c \in {"c", "s"}
    <3>1. c # "%" /\ c \notin Numeric
      BY <2>5 DEF Numeric
    <3>2. One({"c", "s"}) = 1
      BY <1>4, <2>5 DEF One
    <3>3. StandardWords(c, long) = 1
      BY <2>5, <3>1, Zenon DEF StandardWords
    <3> QED
      BY <2>2, <3>1, <3>2, <3>3
  <2>6. CASE c \in Numeric
    <3>1. c \notin {"c", "s"} /\ c # "%"
      BY <2>6 DEF Numeric
    <3>2. One({"c", "s"}) = 0
      BY <1>4, <3>1 DEF One
    <3>3. StandardWords(c, long) = Words(length)
      BY <1>2, <3>1, Zenon DEF StandardWords, Words
    <3> QED
      BY <2>2, <2>3, <2>6, <3>2, <3>3
  <2> QED
    BY <1>6, <2>4, <2>5, <2>6 DEF Specs
<1>10. args' = args + WordsTaken /\ out' = out \o SpecOutput
  BY <1>1, SpecPutsOut DEF Spec_
<1> QED
  BY <1>7, <1>8, <1>9, <1>10 DEF Read

LEMMA SpecReads ==
  ASSUME FormatInv, TypesInv', Spec_, Followed
  PROVE  FormatInv'
<1>1. /\ fmt' = fmt /\ at' = at + 1 /\ at \in 1..Len(fmt) /\ Len(fmt) \in Nat
      /\ at' \in 1..Len(fmt) + 1
  BY PlaceStep DEF FormatInv, TypesInv, WordsInv, Spec_
<1>2. PICK n \in 0..Len(fmt) : n < Reading(fmt)[n].at /\ Follows(Reading(fmt)[n])
  BY DEF Followed
<1>3. PICK s : s = ReadOne(fmt, Reading(fmt)[n])
  OBVIOUS
<1>4. state' = "NORMAL"
  BY DEF Spec_, Reset
<1>5. s.ok => Follows(s)' /\ s.at = at + 1
  <2> SUFFICES ASSUME s.ok PROVE Follows(s)' /\ s.at = at + 1
    OBVIOUS
  <2>1. s.at = at + 1 /\ s.args = args' /\ s.out = out'
    BY <1>2, <1>3, DirectiveRead
  <2> QED
    BY <1>1, <1>4, <2>1 DEF Follows
<1> QED
  BY <1>1, <1>2, <1>3, <1>5, OneMoreRead

LEMMA FormatStep == FormatInv /\ [PrintfNext]_printf => FormatInv'
<1> SUFFICES ASSUME FormatInv, [PrintfNext]_printf PROVE FormatInv'
  OBVIOUS
<1>1. TypesInv'
  BY TypesStep DEF FormatInv
<1>2. fmt' = fmt
  BY DEF PrintfNext, Ordinary, Length, SecondLength, Spec_, Step, printf
<1>3. CASE Abandoned
  <2>1. Abandoned'
    BY <1>2, <1>3 DEF Abandoned
  <2> QED
    BY <1>1, <2>1 DEF FormatInv
<1>4. CASE Followed
  <2>1. CASE UNCHANGED printf
    <3>1. Followed'
      BY <1>4, <2>1 DEF Followed, Follows, printf
    <3> QED
      BY <1>1, <3>1 DEF FormatInv
  <2> QED
    BY <1>1, <1>4, <2>1, OrdinaryReads, LengthsRead, SpecReads DEF PrintfNext
<1> QED
  BY <1>3, <1>4 DEF FormatInv

\* Every format of standard directives, however long: its characters, its numbers
\* with their radix, sign and words, and no word more.
THEOREM FormatsArePrinted == PrintfSpec => []PrintsTheFormat
<1>1. FormatInv => PrintsTheFormat
  <2> SUFFICES ASSUME FormatInv, ~More, Reference(fmt).ok
               PROVE  out = Reference(fmt).out /\ args = Reference(fmt).args
    BY DEF PrintsTheFormat
  <2>1. Len(fmt) \in Nat /\ at = Len(fmt) + 1
    BY DEF FormatInv, TypesInv, WordsInv, Place, More
  <2>2. ~Abandoned
    BY <2>1, ReadingStays DEF Abandoned
  <2>3. PICK n \in 0..Len(fmt) : n < Reading(fmt)[n].at /\ Follows(Reading(fmt)[n])
    BY <2>2 DEF FormatInv, Followed
  <2>4. PICK r : r = Reading(fmt)[n]
    OBVIOUS
  <2>5. CASE r.at > Len(fmt)
    <3>1. ~(r.at <= Len(fmt))
      BY <2>1, <2>3, <2>4, <2>5 DEF Follows
    <3>2. Reference(fmt) = r
      BY <2>1, <2>4, <3>1, ReadingStays
    <3> QED
      BY <2>3, <2>4, <3>2 DEF Follows
  <2>6. CASE ~(r.at > Len(fmt))
    <3>1. r.ok /\ r.at \in 1..Len(fmt) /\ fmt[r.at] = "%"
      BY <2>1, <2>3, <2>4, <2>6 DEF Follows
    <3>2. r.at + Prefix(fmt, r.at) + 1 > Len(fmt)
      BY <2>1, <2>3, <2>4, <3>1 DEF Follows, Prefix, Lone
    <3>3. ReadOne(fmt, r) = Read(FALSE, r.at, r.args, r.out)
      BY <3>1, <3>2, Zenon DEF ReadOne
    <3>4. n + 1 \in 1..Len(fmt) /\ n + 1 \in 0..Len(fmt) /\ (n + 1) - 1 = n
      BY <2>1, <2>3, <2>4, <3>1
    <3>5. Reading(fmt)[n + 1] = ReadNext(fmt, r)
      BY <2>1, <2>4, <3>4, ReadingIs
    <3>6. ~Reading(fmt)[n + 1].ok
      BY <3>1, <3>3, <3>5 DEF ReadNext, Read
    <3> QED
      BY <2>2, <3>4, <3>6 DEF Abandoned
  <2> QED
    BY <2>5, <2>6
<1> QED
  BY <1>1, InitFormat, FormatStep, PTL DEF PrintfSpec
=============================================================================
