--------------------------- MODULE Keyboard_proofs ---------------------------
(***************************************************************************)
(* Proofs about Keyboard, for every set of keys and every number of bytes  *)
(* held back: the decoder stays in step with the stream of bytes, the      *)
(* modifier flags follow the keys, and the slot holds what was meant.      *)
(***************************************************************************)
EXTENDS Keyboard, SequenceTheorems, TLAPS

\* No key has a release code that reads as a prefix.
NoPrefixCode == \A k \in Keys : k.code + 128 \notin {E0, E1}

Bytes == [code : Nat, second : BOOLEAN, shifted : BOOLEAN]

\* A stretch of the stream that ends between two keys: the second byte of a pair
\* follows 0xE0, nothing else does, and none is a prefix itself.
Paired(s) ==
  /\ s \in Seq(Bytes)
  /\ \A k \in 1..Len(s) : s[k].second => s[k].code \notin {E0, E1}
  /\ \A k \in 1..Len(s) : \A j \in 1..Len(s) :
       j = k + 1 => (s[j].second <=> s[k].code = E0)
  /\ s # <<>> => s[Len(s)].code # E0

\* It begins with a second byte, or with the first one of a key.
Starts(s, second) == IF s = <<>> THEN ~second ELSE s[1].second <=> second

Waiting == obf => (obuf.second => obuf.code \notin {E0, E1})

Expected ==
  /\ h = "reread" => Starts(line, FALSE)
  /\ (h = "idle" /\ ~obf) => Starts(line, extended_key_sequence_1)
  /\ (h = "idle" /\ obf) => /\ obuf.second <=> extended_key_sequence_1
                            /\ Starts(line, obuf.code = E0)

Requested ==
  /\ h \in {"idle", "reread"} /\ obuf \in Bytes
  /\ obf \in BOOLEAN /\ irq1 \in BOOLEAN /\ extended_key_sequence_1 \in BOOLEAN
  /\ irq1 <=> obf
  /\ obf => h = "idle"

Flow == Paired(line) /\ Requested /\ Waiting /\ Expected

-----------------------------------------------------------------------------
\* The modifiers process_scan_code tracks: it reads no prefixed code as one.
PlainDown(codes) == \E k \in held : k.kind = "plain" /\ k.code \in codes

LEMMA DownIsBoolean == ASSUME NEW codes PROVE PlainDown(codes) \in BOOLEAN
BY DEF PlainDown

LEMMA DownIsPlain ==
  ASSUME NEW codes, ~RightDown(codes) PROVE IsDown(codes) = PlainDown(codes)
BY Zenon DEF IsDown, PlainDown

LEMMA ShiftIsPlain == IsDown(Shifts) = PlainDown(Shifts)
<1>1. ~RightDown(Shifts)
  BY Zenon DEF RightDown
<1> QED
  BY <1>1, DownIsPlain

LEMMA ByteTypes ==
  ASSUME NEW code \in Nat
  PROVE  /\ Plain(code) \in Bytes /\ Plain(code).code = code /\ ~Plain(code).second
         /\ Second(code) \in Bytes /\ Second(code).code = code /\ Second(code).second
<1>1. IsDown(Shifts) \in BOOLEAN
  BY DownIsBoolean, ShiftIsPlain
<1> QED
  BY <1>1 DEF Plain, Second, Bytes

LEMMA KeyCodes ==
  ASSUME NEW k \in Keys
  PROVE  /\ k.kind \in {"plain", "extended", "pause"}
         /\ k.code \in Nat /\ k.code # E0 /\ k.code # E1
<1>1. k \in KeyKinds
  BY KeysAssumption
<1>2. k.kind \in {"plain", "extended", "pause"} /\ k.code \in 1..127
  BY <1>1 DEF KeyKinds
<1> QED
  BY <1>2 DEF E0, E1

LEMMA OneByte ==
  ASSUME NEW b \in Bytes, ~b.second, b.code # E0
  PROVE  Paired(<<b>>) /\ Starts(<<b>>, FALSE)
BY DEF Paired, Starts

LEMMA TwoBytes ==
  ASSUME NEW b \in Bytes, NEW c \in Bytes, ~b.second, b.code = E0, c.second,
         c.code \notin {E0, E1}
  PROVE  Paired(<<b, c>>) /\ Starts(<<b, c>>, FALSE)
BY DEF Paired, Starts

LEMMA PausePaired ==
  LET s == <<Plain(E1), Plain(29), Plain(69), Plain(E1), Plain(157), Plain(197)>>
  IN  Paired(s) /\ Starts(s, FALSE)
<1> DEFINE s == <<Plain(E1), Plain(29), Plain(69), Plain(E1), Plain(157), Plain(197)>>
<1>1. \A c \in {E1, 29, 69, 157, 197} :
        Plain(c) \in Bytes /\ Plain(c).code # E0 /\ ~Plain(c).second
  BY ByteTypes DEF E0, E1
<1>2. s \in Seq(Bytes) /\ Len(s) = 6
  BY <1>1
<1>3. \A k \in 1..6 : s[k].code # E0 /\ ~s[k].second
  <2>1. 1..6 = {1, 2, 3, 4, 5, 6}
    OBVIOUS
  <2> QED
    BY <1>1, <2>1
<1>4. s # <<>>
  OBVIOUS
<1> HIDE DEF s
<1>5. Paired(s) /\ Starts(s, FALSE)
  BY <1>2, <1>3, <1>4 DEF Paired, Starts
<1> QED
  BY <1>5 DEF s

\* What a key sends is a stretch of its own.
LEMMA KeyPaired ==
  ASSUME NoPrefixCode, NEW k \in Keys
  PROVE  /\ Paired(MakeBytes(k)) /\ Starts(MakeBytes(k), FALSE)
         /\ Paired(BreakBytes(k)) /\ Starts(BreakBytes(k), FALSE)
<1>1. /\ k.kind \in {"plain", "extended", "pause"}
      /\ k.code \in Nat /\ k.code \notin {E0, E1}
      /\ k.code + 128 \in Nat /\ k.code + 128 \notin {E0, E1}
  BY KeyCodes DEF NoPrefixCode
<1>2. E0 \in Nat
  BY DEF E0
<1>3. CASE k.kind = "plain"
  <2>1. MakeBytes(k) = <<Plain(k.code)>> /\ BreakBytes(k) = <<Plain(k.code + 128)>>
    BY <1>3 DEF MakeBytes, BreakBytes
  <2> QED
    BY <1>1, <2>1, ByteTypes, OneByte
<1>4. CASE k.kind = "extended"
  <2>1. /\ MakeBytes(k) = <<Plain(E0), Second(k.code)>>
        /\ BreakBytes(k) = <<Plain(E0), Second(k.code + 128)>>
    BY <1>4 DEF MakeBytes, BreakBytes
  <2>2. Plain(E0) \in Bytes /\ Plain(E0).code = E0 /\ ~Plain(E0).second
    BY <1>2, ByteTypes
  <2>3. ASSUME NEW c \in Nat, c \notin {E0, E1}
        PROVE  Paired(<<Plain(E0), Second(c)>>) /\ Starts(<<Plain(E0), Second(c)>>, FALSE)
    <3>1. Second(c) \in Bytes /\ Second(c).code \notin {E0, E1} /\ Second(c).second
      BY <2>3, ByteTypes
    <3> QED
      BY <2>2, <3>1, TwoBytes
  <2> QED
    BY <1>1, <2>1, <2>3
<1>5. CASE k.kind = "pause"
  <2>1. Paired(<<>>) /\ Starts(<<>>, FALSE)
    BY DEF Paired, Starts
  <2>2. MakeBytes(k) = <<Plain(E1), Plain(29), Plain(69),
                         Plain(E1), Plain(157), Plain(197)>>
    BY <1>5, Zenon DEF MakeBytes
  <2>3. BreakBytes(k) = <<>>
    BY <1>5 DEF BreakBytes
  <2>4. Paired(MakeBytes(k)) /\ Starts(MakeBytes(k), FALSE)
    BY <2>2, PausePaired, Zenon
  <2> QED
    BY <2>1, <2>3, <2>4
<1> QED
  BY <1>1, <1>3, <1>4, <1>5

LEMMA Joined ==
  ASSUME NEW s, NEW b, Paired(s), Paired(b), Starts(b, FALSE)
  PROVE  /\ Paired(s \o b)
         /\ \A e \in BOOLEAN : Starts(s, e) => Starts(s \o b, e)
<1>1. s \in Seq(Bytes) /\ b \in Seq(Bytes)
  BY DEF Paired
<1>2. CASE b = <<>>
  BY <1>1, <1>2, ConcatEmptySeq
<1>3. CASE s = <<>>
  BY <1>1, <1>3, ConcatEmptySeq DEF Starts
<1>4. CASE s # <<>> /\ b # <<>>
  <2> DEFINE t == s \o b
             n == Len(s)
             m1 == Len(b)
  <2>1. n \in Nat /\ n >= 1 /\ m1 \in Nat /\ m1 >= 1
    BY <1>1, <1>4, EmptySeq
  <2>2. /\ t \in Seq(Bytes) /\ Len(t) = n + m1
        /\ \A k \in 1..n + m1 : t[k] = IF k <= n THEN s[k] ELSE b[k - n]
    BY <1>1, ConcatProperties
  <2>3. /\ \A k \in 1..n : s[k].second => s[k].code \notin {E0, E1}
        /\ \A k \in 1..n : \A j \in 1..n : j = k + 1 => (s[j].second <=> s[k].code = E0)
        /\ s[n].code # E0
    BY <1>4 DEF Paired
  <2>4. /\ \A k \in 1..m1 : b[k].second => b[k].code \notin {E0, E1}
        /\ \A k \in 1..m1 : \A j \in 1..m1 : j = k + 1 => (b[j].second <=> b[k].code = E0)
        /\ b[m1].code # E0 /\ ~b[1].second
    BY <1>4 DEF Paired, Starts
  <2> HIDE DEF t, n, m1
  <2>5. \A k \in 1..Len(t) : t[k].second => t[k].code \notin {E0, E1}
    <3> SUFFICES ASSUME NEW k \in 1..n + m1 PROVE t[k].second => t[k].code \notin {E0, E1}
      BY <2>2
    <3>1. CASE k <= n
      <4>1. t[k] = s[k] /\ k \in 1..n
        BY <2>1, <2>2, <3>1
      <4> QED
        BY <2>3, <4>1
    <3>2. CASE k > n
      <4>1. t[k] = b[k - n] /\ k - n \in 1..m1
        BY <2>1, <2>2, <3>2
      <4> QED
        BY <2>4, <4>1
    <3> QED
      BY <2>1, <3>1, <3>2
  <2>6. \A k \in 1..Len(t) : \A j \in 1..Len(t) :
          j = k + 1 => (t[j].second <=> t[k].code = E0)
    <3> SUFFICES ASSUME NEW k \in 1..n + m1, k + 1 \in 1..n + m1
                 PROVE  t[k + 1].second <=> t[k].code = E0
      BY <2>2
    <3>1. CASE k < n
      <4>1. t[k] = s[k] /\ t[k + 1] = s[k + 1] /\ k \in 1..n /\ k + 1 \in 1..n
        BY <2>1, <2>2, <3>1
      <4> QED
        BY <2>3, <4>1
    <3>2. CASE k = n
      <4>1. t[k] = s[n] /\ t[k + 1] = b[1]
        BY <2>1, <2>2, <3>2
      <4> QED
        BY <2>3, <2>4, <4>1
    <3>3. CASE k > n
      <4>1. /\ t[k] = b[k - n] /\ t[k + 1] = b[(k - n) + 1]
            /\ k - n \in 1..m1 /\ (k - n) + 1 \in 1..m1
        BY <2>1, <2>2, <3>3
      <4> QED
        BY <2>4, <4>1
    <3> QED
      BY <2>1, <3>1, <3>2, <3>3
  <2>7. t[Len(t)] = b[m1] /\ t[1] = s[1] /\ t # <<>>
    BY <2>1, <2>2
  <2>8. Paired(t)
    BY <2>2, <2>4, <2>5, <2>6, <2>7 DEF Paired
  <2>9. \A e \in BOOLEAN : Starts(s, e) => Starts(t, e)
    BY <1>4, <2>7 DEF Starts
  <2> QED
    BY <2>8, <2>9 DEF t
<1> QED
  BY <1>2, <1>3, <1>4

\* The bytes but the first one.
LEMMA Rest ==
  ASSUME NEW s, Paired(s), s # <<>>
  PROVE  /\ Head(s) \in Bytes /\ Head(s) = s[1]
         /\ Head(s).second => Head(s).code \notin {E0, E1}
         /\ Paired(Tail(s)) /\ Starts(Tail(s), Head(s).code = E0)
<1> DEFINE t == Tail(s)
<1>1. /\ s \in Seq(Bytes) /\ Len(s) \in Nat /\ Len(s) >= 1
      /\ Head(s) \in Bytes /\ Head(s) = s[1]
      /\ t \in Seq(Bytes) /\ Len(t) = Len(s) - 1
      /\ \A k \in 1..Len(t) : t[k] = s[k + 1]
  BY EmptySeq, HeadTailProperties DEF Paired
<1>2. /\ \A k \in 1..Len(s) : s[k].second => s[k].code \notin {E0, E1}
      /\ \A k \in 1..Len(s) : \A j \in 1..Len(s) :
           j = k + 1 => (s[j].second <=> s[k].code = E0)
      /\ s[Len(s)].code # E0
  BY DEF Paired
<1> HIDE DEF t
<1>3. \A k \in 1..Len(t) : t[k].second => t[k].code \notin {E0, E1}
  BY <1>1, <1>2
<1>4. \A k \in 1..Len(t) : \A j \in 1..Len(t) :
        j = k + 1 => (t[j].second <=> t[k].code = E0)
  <2> SUFFICES ASSUME NEW k \in 1..Len(t), k + 1 \in 1..Len(t)
               PROVE  t[k + 1].second <=> t[k].code = E0
    OBVIOUS
  <2>1. t[k] = s[k + 1] /\ t[k + 1] = s[(k + 1) + 1]
        /\ k + 1 \in 1..Len(s) /\ (k + 1) + 1 \in 1..Len(s)
    BY <1>1
  <2> QED
    BY <1>2, <2>1
<1>5. t # <<>> => t[Len(t)] = s[Len(s)] /\ t[1] = s[2] /\ Len(s) >= 2
  <2> SUFFICES ASSUME t # <<>> PROVE t[Len(t)] = s[Len(s)] /\ t[1] = s[2] /\ Len(s) >= 2
    OBVIOUS
  <2>1. Len(t) \in Nat /\ Len(t) >= 1
    BY <1>1, EmptySeq
  <2> QED
    BY <1>1, <2>1
<1>6. Paired(t)
  BY <1>1, <1>2, <1>3, <1>4, <1>5 DEF Paired
<1>7. Starts(t, Head(s).code = E0)
  <2>1. CASE t = <<>>
    <3>1. Len(s) = 1
      BY <1>1, <2>1
    <3> QED
      BY <1>1, <1>2, <2>1, <3>1 DEF Starts
  <2>2. CASE t # <<>>
    <3>1. s[2].second <=> s[1].code = E0
      BY <1>1, <1>2, <1>5, <2>2
    <3> QED
      BY <1>1, <1>5, <2>2, <3>1 DEF Starts
  <2> QED
    BY <2>1, <2>2
<1> QED
  BY <1>1, <1>2, <1>6, <1>7 DEF t
-----------------------------------------------------------------------------
LEMMA InitFlow == Init => Flow
<1> SUFFICES ASSUME Init PROVE Flow
  OBVIOUS
<1>1. Paired(line)
  <2>1. line = <<>>
    BY DEF Init
  <2> QED
    BY <2>1 DEF Paired
<1>2. Requested
  <2>1. obuf \in Bytes /\ h = "idle"
    BY DEF Init, Bytes
  <2>2. ~obf /\ ~irq1 /\ ~extended_key_sequence_1
    BY DEF Init
  <2>3. obf \in BOOLEAN /\ irq1 \in BOOLEAN /\ extended_key_sequence_1 \in BOOLEAN
    BY Zenon DEF Init
  <2> QED
    BY <2>1, <2>2, <2>3 DEF Requested
<1>3. Waiting /\ Expected
  BY DEF Init, Waiting, Expected, Starts
<1> QED
  BY <1>1, <1>2, <1>3 DEF Flow

LEMMA SendFlow ==
  ASSUME NoPrefixCode, Flow, NEW k \in Keys, Press(k) \/ Release(k)
  PROVE  Flow'
<1>1. PICK bytes : Send(bytes) /\ Paired(bytes) /\ Starts(bytes, FALSE)
  BY KeyPaired DEF Press, Release
<1>2. /\ line' = line \o bytes /\ obuf' = obuf /\ obf' = obf /\ irq1' = irq1 /\ h' = h
      /\ extended_key_sequence_1' = extended_key_sequence_1
  BY <1>1 DEF Send, software, prefixes
<1>3. Paired(line') /\ \A e \in BOOLEAN : Starts(line, e) => Starts(line', e)
  BY <1>1, <1>2, Joined DEF Flow
<1>4. Requested' /\ Waiting'
  BY <1>2 DEF Flow, Requested, Waiting
<1>5. FALSE \in BOOLEAN /\ extended_key_sequence_1 \in BOOLEAN /\ (obuf.code = E0) \in BOOLEAN
  BY DEF Flow, Requested
<1>6. Expected'
  BY <1>2, <1>3, <1>5 DEF Flow, Expected
<1> QED
  BY <1>3, <1>4, <1>6 DEF Flow

LEMMA TransferFlow ==
  ASSUME ~FastTransfer, Flow, Transfer
  PROVE  Flow'
<1>1. /\ ~obf /\ line # <<>> /\ h = "idle" /\ h' = h
      /\ obuf' = Head(line) /\ line' = Tail(line)
      /\ obf' = TRUE /\ irq1' = TRUE
      /\ extended_key_sequence_1' = extended_key_sequence_1
  BY DEF Transfer, software, prefixes
<1>2. /\ obuf' \in Bytes /\ obuf' = line[1]
      /\ obuf'.second => obuf'.code \notin {E0, E1}
      /\ Paired(line') /\ Starts(line', obuf'.code = E0)
  BY <1>1, Rest DEF Flow
<1>3. Requested' /\ Waiting'
  BY <1>1, <1>2 DEF Flow, Requested, Waiting
<1>4. obuf'.second <=> extended_key_sequence_1
  BY <1>1, <1>2 DEF Flow, Expected, Starts
<1>5. Expected'
  BY <1>1, <1>2, <1>4 DEF Expected
<1> QED
  BY <1>2, <1>3, <1>5 DEF Flow

\* What a handler that enters finds: the byte it reads has not been read before,
\* and is a second byte exactly if the decoder expects one.
LEMMA Entered ==
  ASSUME Flow, Enter
  PROVE  /\ h = "idle" /\ obf /\ ~obf' /\ ~irq1' /\ line' = line /\ obuf' = obuf
         /\ obf' \in BOOLEAN /\ irq1' \in BOOLEAN
         /\ obuf.second <=> extended_key_sequence_1
         /\ Starts(line, obuf.code = E0) /\ Paired(line)
         /\ extended_key_sequence_1 => ~IsPrefix
<1>1. h = "idle" /\ obf /\ obf' = FALSE /\ irq1' = FALSE /\ line' = line /\ obuf' = obuf
  BY DEF Flow, Requested, Enter, ps2_read_data
<1>2. (obuf.second <=> extended_key_sequence_1) /\ Starts(line, obuf.code = E0)
  BY <1>1 DEF Flow, Expected
<1>3. extended_key_sequence_1 => ~IsPrefix
  BY <1>1, <1>2 DEF Flow, Waiting, IsPrefix, Scan
<1> QED
  BY <1>1, <1>2, <1>3 DEF Flow

LEMMA PrefixFlow == ASSUME Flow, Prefix PROVE Flow'
<1>1. Enter /\ IsPrefix /\ h' = h
      /\ (extended_key_sequence_1' <=> (extended_key_sequence_1 \/ Scan = E0))
      /\ extended_key_sequence_1' \in BOOLEAN
  BY Zenon DEF Prefix
<1>2. extended_key_sequence_1' <=> obuf.code = E0
  BY <1>1, Entered DEF Scan
<1>3. Starts(line', extended_key_sequence_1')
  BY <1>1, <1>2, Entered DEF Starts
<1>4. Requested' /\ Waiting' /\ Paired(line')
  BY <1>1, Entered DEF Flow, Requested, Waiting
<1>5. Expected'
  BY <1>1, <1>3, Entered DEF Expected
<1> QED
  BY <1>4, <1>5 DEF Flow

LEMMA ExtendedFlow == ASSUME Flow, Extended PROVE Flow'
<1>1. Enter /\ ~IsPrefix /\ h' = "reread"
      /\ extended_key_sequence_1' = extended_key_sequence_1
  BY DEF Extended, prefixes
<1>2. Starts(line', FALSE)
  BY <1>1, Entered DEF IsPrefix, Scan, Starts
<1>3. Requested' /\ Waiting' /\ Paired(line')
  BY <1>1, Entered DEF Flow, Requested, Waiting
<1>4. Expected'
  BY <1>1, <1>2 DEF Expected
<1> QED
  BY <1>3, <1>4 DEF Flow

\* The second read finds nothing new, as no byte comes between the two.
LEMMA RereadFlow == ASSUME Flow, Reread PROVE Flow'
<1>1. /\ h = "reread" /\ h' = "idle" /\ obf' = FALSE /\ line' = line /\ obuf' = obuf
      /\ extended_key_sequence_1' = FALSE
  BY DEF Reread, ps2_read_data, FlagAfterPair
<1>2. ~obf /\ ~irq1 /\ irq1 \in BOOLEAN
  BY <1>1 DEF Flow, Requested
<1>3. irq1' = FALSE
  <2>1. irq1' = irq1 \/ (obf /\ irq1' = FALSE)
    BY Zenon DEF Reread
  <2> QED
    BY <1>2, <2>1
<1>4. Starts(line', FALSE) /\ Paired(line')
  BY <1>1 DEF Flow, Expected
<1>5. Requested' /\ Waiting'
  BY <1>1, <1>3 DEF Flow, Requested, Waiting
<1>6. Expected'
  BY <1>1, <1>4 DEF Expected
<1> QED
  BY <1>4, <1>5, <1>6 DEF Flow

LEMMA DecodedFlow == ASSUME Flow, Modifier \/ KeyPress PROVE Flow'
<1>1. /\ Enter /\ ~IsPrefix /\ ~extended_key_sequence_1 /\ h' = h
      /\ extended_key_sequence_1' = extended_key_sequence_1
  BY DEF Modifier, KeyPress, prefixes
<1>2. Starts(line', extended_key_sequence_1')
  BY <1>1, Entered DEF IsPrefix, Scan, Starts
<1>3. Requested' /\ Waiting' /\ Paired(line')
  BY <1>1, Entered DEF Flow, Requested, Waiting
<1>4. Expected'
  BY <1>1, <1>2, Entered DEF Expected
<1> QED
  BY <1>3, <1>4 DEF Flow

LEMMA UnchangedFlow ==
  ASSUME Flow, UNCHANGED <<line, obuf, obf, irq1, h, extended_key_sequence_1>>
  PROVE  Flow'
BY DEF Flow, Paired, Requested, Waiting, Expected, Starts

LEMMA NextFlow ==
  ASSUME NoPrefixCode, ~FastTransfer
  PROVE  Flow /\ [Next]_vars => Flow'
<1> SUFFICES ASSUME Flow, [Next]_vars PROVE Flow'
  OBVIOUS
<1>1. CASE UNCHANGED vars
  BY <1>1, UnchangedFlow DEF vars, hardware, prefixes
<1>2. CASE Poll
  BY <1>2, UnchangedFlow DEF Poll, Kbhit, GetchFirst, GetchSecond, hardware, prefixes
<1>3. CASE Handler
  BY <1>3, PrefixFlow, ExtendedFlow, RereadFlow, DecodedFlow DEF Handler
<1> QED
  BY <1>1, <1>2, <1>3, SendFlow, TransferFlow DEF Next

LEMMA FlowInStep == ASSUME Flow PROVE InStep
<1> SUFFICES ASSUME h = "idle"
             PROVE  extended_key_sequence_1 =
                      \/ obf /\ obuf.second
                      \/ ~obf /\ line # <<>> /\ line[1].second
  BY DEF InStep
<1>1. obf \in BOOLEAN /\ extended_key_sequence_1 \in BOOLEAN
  BY DEF Flow, Requested
<1>2. extended_key_sequence_1 <=> \/ obf /\ obuf.second
                                  \/ ~obf /\ line # <<>> /\ line[1].second
  <2>1. CASE obf
    BY <2>1 DEF Flow, Expected
  <2>2. CASE ~obf
    BY <2>2 DEF Flow, Expected, Starts
  <2> QED
    BY <2>1, <2>2
<1> QED
  BY <1>1, <1>2

\* Whatever keys are pressed, in whatever order and however fast, the decoder
\* takes for a second byte exactly the second bytes: as long as no byte arrives
\* between the two reads of one run of the handler, and no key has a release
\* code that reads as a prefix.
THEOREM DecoderStaysInStep ==
  ASSUME NoPrefixCode, ~FastTransfer
  PROVE  Spec => []InStep
<1>1. Init => Flow
  BY InitFlow
<1>2. Flow /\ [Next]_vars => Flow'
  BY NextFlow
<1>3. Flow => InStep
  BY FlowInStep
<1> QED
  BY <1>1, <1>2, <1>3, PTL DEF Spec

-----------------------------------------------------------------------------
\* A press that has not been returned is announced, or in getch's hands: between
\* the two statements of getch too, and with any number of presses meanwhile.
THEOREM NoPressIsForgotten == Spec => []NothingForgotten
<1>1. Init => NothingForgotten
  BY DEF Init, NothingForgotten
<1>2. ASSUME NothingForgotten, [Next]_vars PROVE NothingForgotten'
  <2>1. CASE UNCHANGED <<new_key_press, m, fresh>>
    BY <1>2, <2>1 DEF NothingForgotten
  <2>2. ASSUME NEW k \in Keys, Press(k) \/ Release(k) PROVE NothingForgotten'
    BY <2>1, <2>2 DEF Press, Release, Send, software, slot, history
  <2>3. CASE Transfer
    BY <2>1, <2>3 DEF Transfer, software, slot, history
  <2>4. CASE Prefix \/ Extended \/ Reread \/ Modifier
    BY <2>1, <2>4 DEF Prefix, Extended, Reread, Modifier, slot, history
  <2>5. CASE KeyPress
    <3>1. CASE keymap[Code] = ""
      BY <2>1, <2>5, <3>1 DEF KeyPress, slot, history
    <3>2. CASE keymap[Code] # ""
      BY <2>5, <3>2 DEF KeyPress, NewKeyPress, NothingForgotten
    <3> QED
      BY <3>1, <3>2
  <2>6. CASE Kbhit
    BY <1>2, <2>6 DEF Kbhit, Main, slot, history, NothingForgotten
  <2>7. CASE GetchFirst
    BY <2>7 DEF GetchFirst, Main, NothingForgotten
  <2>8. CASE GetchSecond
    BY <2>8 DEF GetchSecond, Execute, Getch, NothingForgotten
  <2>9. CASE UNCHANGED vars
    BY <2>1, <2>9 DEF vars, slot, history
  <2> QED
    BY <1>2, <2>2, <2>3, <2>4, <2>5, <2>6, <2>7, <2>8, <2>9 DEF Next, Handler, Poll
<1> QED
  BY <1>1, <1>2, PTL DEF Spec

-----------------------------------------------------------------------------
(***************************************************************************)
(* The modifier flags and the slot.  A byte tells the decoder about the    *)
(* modifier keys with codes unless it is a prefix or comes after one.      *)
(***************************************************************************)
\* The two shift keys share one flag, and so do the left Ctrl key and Pause.
OneShiftKey ==
  \A k1, k2 \in Keys :
    k1.kind = "plain" /\ k2.kind = "plain" /\ k1.code \in Shifts /\ k2.code \in Shifts
      => k1 = k2
CtrlOrPause ==
  \A k1, k2 \in Keys : k1.kind = "plain" /\ k1.code = Ctrl => k2.kind # "pause"

Tells(b, codes)       == ~b.second /\ b.code \notin {E0, E1} /\ b.code % 128 \in codes
After(b, codes, flag) == IF Tells(b, codes) THEN b.code < 128 ELSE flag

\* Decoding the stretch s takes the flag to down, by the values v; each byte was
\* sent when the shift keys were what their flag says when the byte is decoded.
Values(s, codes, v) ==
  /\ v \in [0..Len(s) -> BOOLEAN]
  /\ \A k \in 1..Len(s) : /\ v[k] <=> After(s[k], codes, v[k - 1])
                          /\ codes = Shifts => (s[k].shifted <=> v[k - 1])
Leads(s, codes, flag, down) ==
  \E v : Values(s, codes, v) /\ (v[0] <=> flag) /\ (v[Len(s)] <=> down)

LEMMA AfterType ==
  ASSUME NEW b \in Bytes, NEW codes, NEW flag \in BOOLEAN
  PROVE  After(b, codes, flag) \in BOOLEAN
<1>1. (b.code < 128) \in BOOLEAN
  BY DEF Bytes
<1>2. After(b, codes, flag) \in {b.code < 128, flag}
  BY Zenon DEF After
<1> QED
  BY <1>1, <1>2, Zenon

LEMMA LeadsNowhere ==
  ASSUME NEW codes, NEW flag \in BOOLEAN
  PROVE  Leads(<<>>, codes, flag, flag)
<1> DEFINE v == [k \in 0..0 |-> flag]
<1>1. v \in [0..0 -> BOOLEAN] /\ v[0] = flag /\ Len(<<>>) = 0
  OBVIOUS
<1> HIDE DEF v
<1>2. Values(<<>>, codes, v)
  BY <1>1 DEF Values
<1> QED
  BY <1>1, <1>2 DEF Leads

LEMMA LeadsByOne ==
  ASSUME NEW b \in Bytes, NEW codes, NEW flag \in BOOLEAN,
         codes = Shifts => (b.shifted <=> flag)
  PROVE  Leads(<<b>>, codes, flag, After(b, codes, flag))
<1> DEFINE next == After(b, codes, flag)
           v    == [k \in 0..1 |-> IF k = 0 THEN flag ELSE next]
<1>1. next \in BOOLEAN
  BY AfterType
<1> HIDE DEF next
<1>2. v \in [0..1 -> BOOLEAN] /\ v[0] = flag /\ v[1] = next
  BY <1>1
<1> HIDE DEF v
<1>3. Len(<<b>>) = 1 /\ <<b>>[1] = b
  OBVIOUS
<1>4. 1 - 1 = 0 /\ 1..1 = {1}
  OBVIOUS
<1>5. next <=> After(b, codes, v[0])
  BY <1>2, Zenon DEF next
<1>6. Values(<<b>>, codes, v)
  BY <1>2, <1>3, <1>4, <1>5 DEF Values
<1> QED
  BY <1>2, <1>3, <1>6 DEF Leads, next

LEMMA LeadsOn ==
  ASSUME NEW s \in Seq(Bytes), NEW t \in Seq(Bytes), NEW codes,
         NEW from, NEW mid, NEW to,
         Leads(s, codes, from, mid), Leads(t, codes, mid, to)
  PROVE  Leads(s \o t, codes, from, to)
<1> DEFINE n == Len(s)
           l == Len(t)
           r == s \o t
<1>1. PICK v : Values(s, codes, v) /\ (v[0] <=> from) /\ (v[n] <=> mid)
  BY DEF Leads
<1>2. PICK w : Values(t, codes, w) /\ (w[0] <=> mid) /\ (w[l] <=> to)
  BY DEF Leads
<1> DEFINE u == [k \in 0..n + l |-> IF k <= n THEN v[k] ELSE w[k - n]]
<1>3. n \in Nat /\ l \in Nat /\ Len(r) = n + l
      /\ \A k \in 1..n + l : r[k] = IF k <= n THEN s[k] ELSE t[k - n]
  BY ConcatProperties
<1> HIDE DEF n, l, r
<1>4. v \in [0..n -> BOOLEAN] /\ w \in [0..l -> BOOLEAN]
  BY <1>1, <1>2 DEF Values, n, l
<1>5. /\ \A k \in 0..n : u[k] = v[k]
      /\ \A k \in 1..l : u[n + k] = w[k]
      /\ DOMAIN u = 0..n + l
  BY <1>3
<1>6. v[n] = w[0]
  <2>1. v[n] \in BOOLEAN /\ w[0] \in BOOLEAN
    BY <1>3, <1>4
  <2> QED
    BY <1>1, <1>2, <2>1
<1>7. \A k \in 0..l : u[n + k] = w[k]
  BY <1>3, <1>5, <1>6
<1>8. u \in [0..n + l -> BOOLEAN]
  <2>1. ASSUME NEW k \in 0..n + l
        PROVE  (IF k <= n THEN v[k] ELSE w[k - n]) \in BOOLEAN
    <3>1. CASE k <= n
      BY <1>3, <1>4, <3>1
    <3>2. CASE ~(k <= n)
      <4>1. k - n \in 0..l
        BY <1>3, <3>2
      <4> QED
        BY <1>4, <3>2, <4>1
    <3> QED
      BY <3>1, <3>2
  <2> QED
    BY <2>1
<1> HIDE DEF u
<1>9. ASSUME NEW k \in 1..n + l
      PROVE  /\ u[k] <=> After(r[k], codes, u[k - 1])
             /\ codes = Shifts => (r[k].shifted <=> u[k - 1])
  <2>1. CASE k <= n
    <3>1. /\ r[k] = s[k] /\ u[k] = v[k] /\ u[k - 1] = v[k - 1] /\ k \in 1..n
      BY <1>3, <1>5, <2>1
    <3> QED
      BY <1>1, <3>1 DEF Values, n
  <2>2. CASE ~(k <= n)
    <3>1. k - n \in 1..l /\ (k - n) - 1 \in 0..l /\ k - n \in 0..l
          /\ n + (k - n) = k /\ n + ((k - n) - 1) = k - 1
      BY <1>3, <2>2
    <3>2. r[k] = t[k - n] /\ u[k] = w[k - n] /\ u[k - 1] = w[(k - n) - 1]
      BY <1>3, <1>7, <2>2, <3>1
    <3> QED
      BY <1>2, <3>1, <3>2 DEF Values, l
  <2> QED
    BY <2>1, <2>2
<1>10. Values(r, codes, u)
  BY <1>3, <1>8, <1>9 DEF Values
<1>11. u[0] = v[0] /\ u[n + l] = w[l]
  BY <1>3, <1>5, <1>7
<1>12. Leads(r, codes, from, to)
  BY <1>1, <1>2, <1>3, <1>10, <1>11 DEF Leads
<1> QED
  BY <1>12 DEF r

LEMMA LeadsRest ==
  ASSUME NEW s \in Seq(Bytes), s # <<>>, NEW codes, NEW from \in BOOLEAN, NEW to,
         Leads(s, codes, from, to)
  PROVE  /\ Leads(Tail(s), codes, After(Head(s), codes, from), to)
         /\ codes = Shifts => (Head(s).shifted <=> from)
<1> DEFINE t == Tail(s)
           n == Len(t)
<1>1. PICK v : Values(s, codes, v) /\ (v[0] <=> from) /\ (v[Len(s)] <=> to)
  BY DEF Leads
<1> DEFINE w == [k \in 0..n |-> v[k + 1]]
<1>2. /\ n \in Nat /\ Len(s) = n + 1 /\ Head(s) = s[1]
      /\ \A k \in 1..n : t[k] = s[k + 1]
  BY EmptySeq, HeadTailProperties
<1> HIDE DEF t, n
<1>3. v \in [0..n + 1 -> BOOLEAN]
      /\ \A k \in 1..n + 1 : /\ v[k] <=> After(s[k], codes, v[k - 1])
                             /\ codes = Shifts => (s[k].shifted <=> v[k - 1])
  BY <1>1, <1>2 DEF Values
<1>4. w \in [0..n -> BOOLEAN] /\ \A k \in 0..n : w[k] = v[k + 1]
  BY <1>2, <1>3
<1> HIDE DEF w
<1>5. ASSUME NEW k \in 1..n
      PROVE  /\ w[k] <=> After(t[k], codes, w[k - 1])
             /\ codes = Shifts => (t[k].shifted <=> w[k - 1])
  <2>1. /\ w[k] = v[k + 1] /\ w[k - 1] = v[k] /\ t[k] = s[k + 1]
        /\ k + 1 \in 1..n + 1 /\ (k + 1) - 1 = k
    BY <1>2, <1>4
  <2> QED
    BY <1>3, <2>1
<1>6. Values(t, codes, w)
  BY <1>4, <1>5 DEF Values, n
<1>7. w[0] = v[1] /\ w[n] = v[n + 1] /\ 1 \in 1..n + 1 /\ 1 - 1 = 0
  BY <1>2, <1>4
<1>8. v[0] = from
  <2>1. v[0] \in BOOLEAN
    BY <1>2, <1>3
  <2> QED
    BY <1>1, <2>1
<1>9. /\ w[0] <=> After(Head(s), codes, from)
      /\ codes = Shifts => (Head(s).shifted <=> from)
  BY <1>2, <1>3, <1>7, <1>8
<1>10. w[n] <=> to
  BY <1>1, <1>2, <1>7
<1>11. Leads(t, codes, After(Head(s), codes, from), to)
  BY <1>6, <1>9, <1>10 DEF Leads, n
<1> QED
  BY <1>9, <1>11 DEF t

\* A stretch that tells nothing.
LEMMA LeadsQuietly ==
  ASSUME NEW s \in Seq(Bytes), NEW codes, NEW flag \in BOOLEAN,
         \A k \in 1..Len(s) : ~Tells(s[k], codes),
         codes = Shifts => \A k \in 1..Len(s) : s[k].shifted <=> flag
  PROVE  Leads(s, codes, flag, flag)
<1> DEFINE n == Len(s)
           v == [k \in 0..n |-> flag]
<1>1. n \in Nat
  OBVIOUS
<1>2. v \in [0..n -> BOOLEAN] /\ \A k \in 0..n : v[k] = flag
  OBVIOUS
<1> HIDE DEF v
<1>3. ASSUME NEW k \in 1..n PROVE v[k] = flag /\ v[k - 1] = flag
  BY <1>1, <1>2
<1>4. Values(s, codes, v)
  BY <1>2, <1>3 DEF Values, After
<1>5. v[0] = flag /\ v[n] = flag
  BY <1>1, <1>2
<1> QED
  BY <1>4, <1>5 DEF Leads

LEMMA KeyCodesNext ==
  ASSUME NEW c \in Nat, c >= 1, c < 128
  PROVE  c % 128 = c /\ (c + 128) % 128 = c /\ c < 128 /\ ~(c + 128 < 128)
OBVIOUS

\* What is down after a key is pressed or released.
LEMMA PressDown ==
  ASSUME NEW k, NEW codes, held' = held \union {k}
  PROVE  PlainDown(codes)' <=> PlainDown(codes) \/ (k.kind = "plain" /\ k.code \in codes)
BY DEF PlainDown

LEMMA ReleaseDown ==
  ASSUME OneShiftKey, NEW k \in Keys, NEW codes \in {Shifts, {Ctrl}, {Alt}},
         held \subseteq Keys, k \in held, held' = held \ {k}
  PROVE  PlainDown(codes)' <=> PlainDown(codes) /\ ~(k.kind = "plain" /\ k.code \in codes)
<1>1. ASSUME NEW k2 \in Keys, k.kind = "plain", k.code \in codes,
             k2.kind = "plain", k2.code \in codes
      PROVE  k2 = k
  <2>1. CASE codes = Shifts
    BY <1>1, <2>1 DEF OneShiftKey
  <2>2. CASE codes = {Ctrl} \/ codes = {Alt}
    <3>1. k = [kind |-> k.kind, code |-> k.code] /\ k2 = [kind |-> k2.kind, code |-> k2.code]
      BY KeysAssumption DEF KeyKinds
    <3>2. k.code = k2.code
      BY <1>1, <2>2
    <3> QED
      BY <1>1, <3>1, <3>2
  <2> QED
    BY <2>1, <2>2
<1> QED
  BY <1>1 DEF PlainDown

LEMMA CodeRange ==
  ASSUME NEW k \in Keys
  PROVE  /\ k.kind \in {"plain", "extended", "pause"}
         /\ k.code \in Nat /\ k.code >= 1 /\ k.code < 128
<1>1. k \in KeyKinds
  BY KeysAssumption
<1>2. k.kind \in {"plain", "extended", "pause"} /\ k.code \in 1..127
  BY <1>1 DEF KeyKinds
<1> QED
  BY <1>2

\* The bytes of a key, and what becomes of the modifiers with codes.
LEMMA PlainLeads ==
  ASSUME NEW c \in Nat, c \notin {E0, E1}, NEW codes
  PROVE  Leads(<<Plain(c)>>, codes, PlainDown(codes),
               IF c % 128 \in codes THEN c < 128 ELSE PlainDown(codes))
<1>1. /\ Plain(c) \in Bytes /\ Plain(c).code = c /\ ~Plain(c).second
      /\ Plain(c).shifted = PlainDown(Shifts)
  BY ByteTypes, ShiftIsPlain DEF Plain
<1>2. PlainDown(codes) \in BOOLEAN
  BY DownIsBoolean
<1>3. Leads(<<Plain(c)>>, codes, PlainDown(codes), After(Plain(c), codes, PlainDown(codes)))
  BY <1>1, <1>2, LeadsByOne
<1>4. After(Plain(c), codes, PlainDown(codes)) = IF c % 128 \in codes THEN c < 128 ELSE PlainDown(codes)
  BY <1>1, Zenon DEF After, Tells
<1> QED
  BY <1>3, <1>4

LEMMA PairLeads ==
  ASSUME NEW c \in Nat, NEW codes
  PROVE  Leads(<<Plain(E0), Second(c)>>, codes, PlainDown(codes), PlainDown(codes))
<1> DEFINE s == <<Plain(E0), Second(c)>>
<1>1. E0 \in Nat
  BY DEF E0
<1>2. /\ Plain(E0) \in Bytes /\ Plain(E0).code = E0 /\ Plain(E0).shifted = PlainDown(Shifts)
      /\ Second(c) \in Bytes /\ Second(c).second /\ Second(c).shifted = PlainDown(Shifts)
  BY <1>1, ByteTypes, ShiftIsPlain DEF Plain, Second
<1>3. s \in Seq(Bytes) /\ Len(s) = 2 /\ s[1] = Plain(E0) /\ s[2] = Second(c)
  BY <1>2
<1> HIDE DEF s
<1>4. \A k \in 1..Len(s) : ~Tells(s[k], codes) /\ s[k].shifted = PlainDown(Shifts)
  <2>1. 1..2 = {1, 2}
    OBVIOUS
  <2>2. ~Tells(s[1], codes) /\ ~Tells(s[2], codes)
    BY <1>2, <1>3 DEF Tells
  <2> QED
    BY <1>2, <1>3, <2>1, <2>2
<1>5. PlainDown(codes) \in BOOLEAN
  BY DownIsBoolean
<1>6. Leads(s, codes, PlainDown(codes), PlainDown(codes))
  BY <1>3, <1>4, <1>5, LeadsQuietly
<1> QED
  BY <1>6 DEF s

\* Pause sends a make and a break code of the left Ctrl key.
LEMMA PauseLeads ==
  ASSUME NEW codes \in {Shifts, {Ctrl}, {Alt}}, codes = {Ctrl} => ~PlainDown(codes)
  PROVE  LET s == <<Plain(E1), Plain(29), Plain(69), Plain(E1), Plain(157), Plain(197)>>
         IN  Leads(s, codes, PlainDown(codes), PlainDown(codes))
<1> DEFINE s == <<Plain(E1), Plain(29), Plain(69), Plain(E1), Plain(157), Plain(197)>>
<1>1. \A c \in {E1, 29, 69, 157, 197} :
        /\ Plain(c) \in Bytes /\ Plain(c).code = c
        /\ ~Plain(c).second /\ Plain(c).shifted = PlainDown(Shifts)
  <2>1. \A c \in {E1, 29, 69, 157, 197} : c \in Nat
    BY DEF E1
  <2> QED
    BY <2>1, ByteTypes, ShiftIsPlain DEF Plain
<1>2. s \in Seq(Bytes) /\ Len(s) = 6
  BY <1>1
<1>3. /\ s[1] = Plain(E1) /\ s[2] = Plain(29) /\ s[3] = Plain(69)
      /\ s[4] = Plain(E1) /\ s[5] = Plain(157) /\ s[6] = Plain(197)
  OBVIOUS
<1> HIDE DEF s
<1>4. /\ ~Tells(s[1], codes) /\ ~Tells(s[3], codes)
      /\ ~Tells(s[4], codes) /\ ~Tells(s[6], codes)
      /\ codes = {Ctrl} => /\ Tells(s[2], codes) /\ s[2].code < 128
                           /\ Tells(s[5], codes) /\ ~(s[5].code < 128)
      /\ codes # {Ctrl} => ~Tells(s[2], codes) /\ ~Tells(s[5], codes)
  <2>1. /\ 69 % 128 = 69 /\ 197 % 128 = 69 /\ 29 % 128 = 29 /\ 157 % 128 = 29
        /\ 69 \notin codes /\ (29 \in codes <=> codes = {Ctrl})
    BY DEF Shifts, Ctrl, Alt
  <2>2. /\ s[1].code = E1 /\ s[2].code = 29 /\ s[3].code = 69
        /\ s[4].code = E1 /\ s[5].code = 157 /\ s[6].code = 197
        /\ ~s[2].second /\ ~s[3].second /\ ~s[5].second /\ ~s[6].second
    BY <1>1, <1>3
  <2> QED
    BY <2>1, <2>2 DEF Tells, E0, E1
<1>5. 1..6 = {1, 2, 3, 4, 5, 6}
  OBVIOUS
<1>6. \A k \in 1..Len(s) : s[k].shifted = PlainDown(Shifts)
  BY <1>1, <1>2, <1>3, <1>5
<1>7. PlainDown(codes) \in BOOLEAN
  BY DownIsBoolean
<1>8. CASE codes # {Ctrl}
  <2>1. \A k \in 1..Len(s) : ~Tells(s[k], codes)
    BY <1>2, <1>4, <1>5, <1>8
  <2>2. Leads(s, codes, PlainDown(codes), PlainDown(codes))
    BY <1>2, <1>6, <1>7, <2>1, LeadsQuietly
  <2> QED
    BY <2>2 DEF s
<1>9. CASE codes = {Ctrl}
  <2> DEFINE v == [k \in 0..6 |-> IF k \in {2, 3, 4} THEN TRUE ELSE FALSE]
  <2>1. /\ v \in [0..6 -> BOOLEAN] /\ ~v[0] /\ ~v[1] /\ v[2] /\ v[3] /\ v[4] /\ ~v[5] /\ ~v[6]
    OBVIOUS
  <2> HIDE DEF v
  <2>2. codes # Shifts
    BY <1>9 DEF Shifts, Ctrl
  <2>3. ASSUME NEW k \in 1..6 PROVE v[k] <=> After(s[k], codes, v[k - 1])
    <3>1. CASE k = 1
      BY <1>4, <2>1, <3>1 DEF After
    <3>2. CASE k = 2
      BY <1>4, <1>9, <2>1, <3>2 DEF After
    <3>3. CASE k = 3
      BY <1>4, <2>1, <3>3 DEF After
    <3>4. CASE k = 4
      BY <1>4, <2>1, <3>4 DEF After
    <3>5. CASE k = 5
      BY <1>4, <1>9, <2>1, <3>5 DEF After
    <3>6. CASE k = 6
      BY <1>4, <2>1, <3>6 DEF After
    <3> QED
      BY <1>5, <3>1, <3>2, <3>3, <3>4, <3>5, <3>6
  <2>4. Values(s, codes, v)
    BY <1>2, <2>1, <2>2, <2>3 DEF Values
  <2>5. Leads(s, codes, PlainDown(codes), PlainDown(codes))
    BY <1>2, <1>9, <2>1, <2>4 DEF Leads
  <2> QED
    BY <2>5 DEF s
<1> QED
  BY <1>8, <1>9

LEMMA LeadsTo ==
  ASSUME NEW s, NEW codes, NEW from, NEW to, NEW down,
         Leads(s, codes, from, to), to <=> down
  PROVE  Leads(s, codes, from, down)
BY DEF Leads

LEMMA MakeLeads ==
  ASSUME NoPrefixCode, CtrlOrPause, held \subseteq Keys, NEW k \in Keys,
         NEW codes \in {Shifts, {Ctrl}, {Alt}}, NEW down,
         down <=> PlainDown(codes) \/ (k.kind = "plain" /\ k.code \in codes)
  PROVE  Leads(MakeBytes(k), codes, PlainDown(codes), down)
<1>1. /\ k.kind \in {"plain", "extended", "pause"}
      /\ k.code \in Nat /\ k.code >= 1 /\ k.code < 128 /\ k.code \notin {E0, E1}
  BY CodeRange DEF E0, E1
<1>2. PlainDown(codes) \in BOOLEAN
  BY DownIsBoolean
<1>3. CASE k.kind = "plain"
  <2> DEFINE to == IF k.code % 128 \in codes THEN k.code < 128 ELSE PlainDown(codes)
  <2>1. MakeBytes(k) = <<Plain(k.code)>>
    BY <1>3 DEF MakeBytes
  <2>2. Leads(MakeBytes(k), codes, PlainDown(codes), to)
    BY <1>1, <2>1, PlainLeads
  <2>3. k.code % 128 = k.code /\ k.code < 128
    BY <1>1, KeyCodesNext
  <2>4. to <=> down
    <3>1. CASE k.code \in codes
      <4>1. to = (k.code < 128)
        BY <2>3, <3>1, Zenon
      <4> QED
        BY <1>3, <2>3, <3>1, <4>1
    <3>2. CASE k.code \notin codes
      <4>1. to = PlainDown(codes)
        BY <2>3, <3>2, Zenon
      <4> QED
        BY <3>2, <4>1
    <3> QED
      BY <3>1, <3>2
  <2> HIDE DEF to
  <2> QED
    BY <2>2, <2>4, LeadsTo
<1>4. CASE k.kind = "extended"
  <2>1. MakeBytes(k) = <<Plain(E0), Second(k.code)>>
    BY <1>4 DEF MakeBytes
  <2>2. Leads(MakeBytes(k), codes, PlainDown(codes), PlainDown(codes))
    BY <1>1, <2>1, PairLeads
  <2> QED
    BY <1>4, <2>2, LeadsTo
<1>5. CASE k.kind = "pause"
  <2>1. MakeBytes(k) = <<Plain(E1), Plain(29), Plain(69),
                         Plain(E1), Plain(157), Plain(197)>>
    BY <1>5, Zenon DEF MakeBytes
  <2>2. codes = {Ctrl} => ~PlainDown(codes)
    BY <1>5 DEF CtrlOrPause, PlainDown
  <2>3. Leads(MakeBytes(k), codes, PlainDown(codes), PlainDown(codes))
    BY <2>1, <2>2, PauseLeads
  <2> QED
    BY <1>5, <2>3, LeadsTo
<1> QED
  BY <1>1, <1>3, <1>4, <1>5

LEMMA BreakLeads ==
  ASSUME NoPrefixCode, NEW k \in Keys,
         NEW codes \in {Shifts, {Ctrl}, {Alt}}, NEW down,
         down <=> PlainDown(codes) /\ ~(k.kind = "plain" /\ k.code \in codes)
  PROVE  Leads(BreakBytes(k), codes, PlainDown(codes), down)
<1>1. /\ k.kind \in {"plain", "extended", "pause"}
      /\ k.code \in Nat /\ k.code >= 1 /\ k.code < 128
      /\ k.code + 128 \in Nat /\ k.code + 128 \notin {E0, E1}
  BY CodeRange DEF NoPrefixCode
<1>2. PlainDown(codes) \in BOOLEAN
  BY DownIsBoolean
<1>3. CASE k.kind = "plain"
  <2> DEFINE to == IF (k.code + 128) % 128 \in codes THEN k.code + 128 < 128
                   ELSE PlainDown(codes)
  <2>1. BreakBytes(k) = <<Plain(k.code + 128)>>
    BY <1>3 DEF BreakBytes
  <2>2. Leads(BreakBytes(k), codes, PlainDown(codes), to)
    BY <1>1, <2>1, PlainLeads
  <2>3. (k.code + 128) % 128 = k.code /\ ~(k.code + 128 < 128)
    BY <1>1, KeyCodesNext
  <2>4. to <=> down
    <3>1. CASE k.code \in codes
      <4>1. to = (k.code + 128 < 128)
        BY <2>3, <3>1, Zenon
      <4> QED
        BY <1>3, <2>3, <3>1, <4>1
    <3>2. CASE k.code \notin codes
      <4>1. to = PlainDown(codes)
        BY <2>3, <3>2, Zenon
      <4> QED
        BY <3>2, <4>1
    <3> QED
      BY <3>1, <3>2
  <2> HIDE DEF to
  <2> QED
    BY <2>2, <2>4, LeadsTo
<1>4. CASE k.kind = "extended"
  <2>1. BreakBytes(k) = <<Plain(E0), Second(k.code + 128)>>
    BY <1>4 DEF BreakBytes
  <2>2. Leads(BreakBytes(k), codes, PlainDown(codes), PlainDown(codes))
    BY <1>1, <2>1, PairLeads
  <2> QED
    BY <1>4, <2>2, LeadsTo
<1>5. CASE k.kind = "pause"
  <2>1. BreakBytes(k) = <<>>
    BY <1>5 DEF BreakBytes
  <2>2. Leads(BreakBytes(k), codes, PlainDown(codes), PlainDown(codes))
    BY <1>2, <2>1, LeadsNowhere
  <2> QED
    BY <1>5, <2>2, LeadsTo
<1> QED
  BY <1>1, <1>3, <1>4, <1>5
-----------------------------------------------------------------------------
\* The flags the decoder will have once the byte in the buffer is read.
Now(codes, flag) == IF obf THEN After(obuf, codes, flag) ELSE flag

FlagsAhead ==
  /\ Leads(line, Shifts, Now(Shifts, shift_pressed), PlainDown(Shifts))
  /\ Leads(line, {Ctrl}, Now({Ctrl}, ctrl_pressed), PlainDown({Ctrl}))
  /\ Leads(line, {Alt}, Now({Alt}, alt_pressed), PlainDown({Alt}))

FlagTypes ==
  /\ held \subseteq Keys
  /\ shift_pressed \in BOOLEAN /\ ctrl_pressed \in BOOLEAN /\ alt_pressed \in BOOLEAN

\* Every byte will find the flags as the keys were when it was sent.
Decoded ==
  /\ FlagTypes /\ FlagsAhead
  /\ obf => (obuf.shifted <=> shift_pressed)

LEMMA NowType ==
  ASSUME Flow, NEW codes, NEW flag \in BOOLEAN PROVE Now(codes, flag) \in BOOLEAN
<1>1. obuf \in Bytes
  BY DEF Flow, Requested
<1>2. Now(codes, flag) \in {After(obuf, codes, flag), flag}
  BY Zenon DEF Now
<1> QED
  BY <1>1, <1>2, AfterType, Zenon

LEMMA InitDecoded == Init => Decoded
<1> SUFFICES ASSUME Init PROVE Decoded
  OBVIOUS
<1>1. /\ held = {} /\ line = <<>> /\ ~obf /\ ~shift_pressed /\ ~ctrl_pressed /\ ~alt_pressed
  BY DEF Init
<1>2. /\ shift_pressed \in BOOLEAN /\ ctrl_pressed \in BOOLEAN /\ alt_pressed \in BOOLEAN
  BY Zenon DEF Init
<1>3. ASSUME NEW codes, NEW flag \in BOOLEAN, ~flag
      PROVE  Leads(line, codes, Now(codes, flag), PlainDown(codes))
  <2>1. Now(codes, flag) = flag
    BY <1>1, Zenon DEF Now
  <2>2. ~PlainDown(codes)
    BY <1>1 DEF PlainDown
  <2>3. Leads(line, codes, flag, flag)
    BY <1>1, LeadsNowhere
  <2>4. Leads(line, codes, flag, PlainDown(codes))
    BY <1>3, <2>2, <2>3, LeadsTo
  <2> QED
    BY <2>1, <2>4
<1> QED
  BY <1>1, <1>2, <1>3 DEF Decoded, FlagTypes, FlagsAhead

\* What a key sends joins the bytes that wait.
LEMMA SendAhead ==
  ASSUME NoPrefixCode, OneShiftKey, CtrlOrPause, Flow, held \subseteq Keys,
         NEW k \in Keys, Press(k) \/ Release(k), NEW codes \in {Shifts, {Ctrl}, {Alt}},
         NEW flag, Leads(line, codes, flag, PlainDown(codes))
  PROVE  Leads(line', codes, flag, PlainDown(codes)')
<1>1. line \in Seq(Bytes) /\ MakeBytes(k) \in Seq(Bytes) /\ BreakBytes(k) \in Seq(Bytes)
  BY KeyPaired DEF Flow, Paired
<1> DEFINE down == PlainDown(codes)'
<1>2. CASE Press(k)
  <2>1. line' = line \o MakeBytes(k) /\ held' = held \union {k}
    BY <1>2 DEF Press, Send
  <2>2. down <=> PlainDown(codes) \/ (k.kind = "plain" /\ k.code \in codes)
    BY <2>1, PressDown
  <2> HIDE DEF down
  <2>3. Leads(MakeBytes(k), codes, PlainDown(codes), down)
    BY <2>2, MakeLeads
  <2>4. Leads(line', codes, flag, down)
    BY <1>1, <2>1, <2>3, LeadsOn
  <2> QED
    BY <2>4 DEF down
<1>3. CASE Release(k)
  <2>1. line' = line \o BreakBytes(k) /\ held' = held \ {k} /\ k \in held
    BY <1>3 DEF Release, Send
  <2>2. down <=> PlainDown(codes) /\ ~(k.kind = "plain" /\ k.code \in codes)
    BY <2>1, ReleaseDown
  <2> HIDE DEF down
  <2>3. Leads(BreakBytes(k), codes, PlainDown(codes), down)
    BY <2>2, BreakLeads
  <2>4. Leads(line', codes, flag, down)
    BY <1>1, <2>1, <2>3, LeadsOn
  <2> QED
    BY <2>4 DEF down
<1> QED
  BY <1>2, <1>3

LEMMA SendDecoded ==
  ASSUME NoPrefixCode, OneShiftKey, CtrlOrPause, Flow, Decoded,
         NEW k \in Keys, Press(k) \/ Release(k)
  PROVE  Decoded'
<1>1. /\ held' \subseteq Keys /\ obuf' = obuf /\ obf' = obf
      /\ shift_pressed' = shift_pressed /\ ctrl_pressed' = ctrl_pressed
      /\ alt_pressed' = alt_pressed
  BY DEF Decoded, FlagTypes, Press, Release, Send, software, modifiers
<1>2. held \subseteq Keys
  BY DEF Decoded, FlagTypes
<1>3. /\ Leads(line', Shifts, Now(Shifts, shift_pressed), PlainDown(Shifts)')
      /\ Leads(line', {Ctrl}, Now({Ctrl}, ctrl_pressed), PlainDown({Ctrl})')
      /\ Leads(line', {Alt}, Now({Alt}, alt_pressed), PlainDown({Alt})')
  BY <1>2, SendAhead DEF Decoded, FlagsAhead
<1>4. \A codes : /\ Now(codes, shift_pressed)' = Now(codes, shift_pressed)
                 /\ Now(codes, ctrl_pressed)' = Now(codes, ctrl_pressed)
                 /\ Now(codes, alt_pressed)' = Now(codes, alt_pressed)
  BY <1>1 DEF Now
<1>5. FlagsAhead'
  BY <1>3, <1>4 DEF FlagsAhead
<1> QED
  BY <1>1, <1>5 DEF Decoded, FlagTypes

\* The byte the controller passes on.
LEMMA TransferDecoded ==
  ASSUME ~FastTransfer, Flow, Decoded, Transfer
  PROVE  Decoded'
<1>1. /\ ~obf /\ line # <<>> /\ line \in Seq(Bytes)
      /\ obuf' = Head(line) /\ line' = Tail(line) /\ obf' = TRUE /\ held' = held
      /\ shift_pressed' = shift_pressed /\ ctrl_pressed' = ctrl_pressed
      /\ alt_pressed' = alt_pressed
  BY DEF Flow, Paired, Transfer, software, modifiers
<1>2. /\ shift_pressed \in BOOLEAN /\ ctrl_pressed \in BOOLEAN /\ alt_pressed \in BOOLEAN
      /\ FlagTypes
  BY DEF Decoded, FlagTypes
<1>3. ASSUME NEW codes, NEW flag \in BOOLEAN, Leads(line, codes, Now(codes, flag), PlainDown(codes))
      PROVE  /\ Leads(line', codes, After(obuf', codes, flag), PlainDown(codes)')
             /\ codes = Shifts => (obuf'.shifted <=> flag)
  <2>1. Now(codes, flag) = flag
    BY <1>1, Zenon DEF Now
  <2>2. Leads(line, codes, flag, PlainDown(codes))
    BY <1>3, <2>1
  <2>3. /\ Leads(Tail(line), codes, After(Head(line), codes, flag), PlainDown(codes))
        /\ codes = Shifts => (Head(line).shifted <=> flag)
    BY <1>1, <2>2, LeadsRest
  <2>4. PlainDown(codes)' = PlainDown(codes)
    BY <1>1 DEF PlainDown
  <2> QED
    BY <1>1, <2>3, <2>4
<1>4. /\ Leads(line', Shifts, After(obuf', Shifts, shift_pressed), PlainDown(Shifts)')
      /\ Leads(line', {Ctrl}, After(obuf', {Ctrl}, ctrl_pressed), PlainDown({Ctrl})')
      /\ Leads(line', {Alt}, After(obuf', {Alt}, alt_pressed), PlainDown({Alt})')
      /\ obuf'.shifted <=> shift_pressed
  BY <1>2, <1>3 DEF Decoded, FlagsAhead
<1>5. \A codes : /\ Now(codes, shift_pressed)' = After(obuf', codes, shift_pressed)
                 /\ Now(codes, ctrl_pressed)' = After(obuf', codes, ctrl_pressed)
                 /\ Now(codes, alt_pressed)' = After(obuf', codes, alt_pressed)
  BY <1>1, Zenon DEF Now
<1>6. FlagsAhead'
  BY <1>4, <1>5 DEF FlagsAhead
<1>7. FlagTypes'
  BY <1>1, <1>2 DEF FlagTypes
<1> QED
  BY <1>1, <1>4, <1>6, <1>7 DEF Decoded

\* A handler that has read the byte and leaves the flags as it says.
LEMMA ReadDecoded ==
  ASSUME Flow, Decoded, Enter,
         shift_pressed' = After(obuf, Shifts, shift_pressed),
         ctrl_pressed' = After(obuf, {Ctrl}, ctrl_pressed),
         alt_pressed' = After(obuf, {Alt}, alt_pressed)
  PROVE  Decoded'
<1>1. obf /\ ~obf' /\ line' = line /\ obuf \in Bytes /\ held' = held
  BY Entered DEF Flow, Requested, Enter, ps2_read_data
<1>2. /\ shift_pressed \in BOOLEAN /\ ctrl_pressed \in BOOLEAN /\ alt_pressed \in BOOLEAN
  BY DEF Decoded, FlagTypes
<1>3. FlagTypes'
  BY <1>1, <1>2, AfterType DEF Decoded, FlagTypes
<1>4. \A codes : /\ Now(codes, shift_pressed)' = shift_pressed'
                 /\ Now(codes, ctrl_pressed)' = ctrl_pressed'
                 /\ Now(codes, alt_pressed)' = alt_pressed'
                 /\ Now(codes, shift_pressed) = After(obuf, codes, shift_pressed)
                 /\ Now(codes, ctrl_pressed) = After(obuf, codes, ctrl_pressed)
                 /\ Now(codes, alt_pressed) = After(obuf, codes, alt_pressed)
  BY <1>1, Zenon DEF Now
<1>5. \A codes : PlainDown(codes)' = PlainDown(codes)
  BY <1>1 DEF PlainDown
<1>6. FlagsAhead'
  BY <1>1, <1>4, <1>5 DEF Decoded, FlagsAhead
<1> QED
  BY <1>1, <1>3, <1>6 DEF Decoded

\* Where the byte tells nothing.
LEMMA QuietDecoded ==
  ASSUME Flow, Decoded, Enter, UNCHANGED modifiers,
         \A codes \in {Shifts, {Ctrl}, {Alt}} : ~Tells(obuf, codes)
  PROVE  Decoded'
<1>1. /\ shift_pressed' = shift_pressed /\ ctrl_pressed' = ctrl_pressed
      /\ alt_pressed' = alt_pressed
  BY DEF modifiers
<1>2. /\ After(obuf, Shifts, shift_pressed) = shift_pressed
      /\ After(obuf, {Ctrl}, ctrl_pressed) = ctrl_pressed
      /\ After(obuf, {Alt}, alt_pressed) = alt_pressed
  BY Zenon DEF After
<1> QED
  BY <1>1, <1>2, ReadDecoded

LEMMA PrefixDecoded == ASSUME Flow, Decoded, Prefix PROVE Decoded'
<1>1. Enter /\ obuf.code \in {E0, E1} /\ UNCHANGED modifiers
  BY DEF Prefix, IsPrefix, Scan
<1>2. \A codes : ~Tells(obuf, codes)
  BY <1>1 DEF Tells
<1> QED
  BY <1>1, <1>2, QuietDecoded

LEMMA ExtendedDecoded == ASSUME Flow, Decoded, Extended PROVE Decoded'
<1>1. Enter /\ UNCHANGED modifiers /\ extended_key_sequence_1
  BY DEF Extended
<1>2. obuf.second
  BY <1>1, Entered
<1>3. \A codes : ~Tells(obuf, codes)
  BY <1>2 DEF Tells
<1> QED
  BY <1>1, <1>3, QuietDecoded

LEMMA RereadDecoded == ASSUME Flow, Decoded, Reread PROVE Decoded'
<1>1. /\ ~obf /\ ~obf' /\ line' = line /\ held' = held
      /\ shift_pressed' = shift_pressed /\ ctrl_pressed' = ctrl_pressed
      /\ alt_pressed' = alt_pressed
  BY DEF Flow, Requested, Reread, ps2_read_data, modifiers
<1>2. \A codes : /\ Now(codes, shift_pressed)' = Now(codes, shift_pressed)
                 /\ Now(codes, ctrl_pressed)' = Now(codes, ctrl_pressed)
                 /\ Now(codes, alt_pressed)' = Now(codes, alt_pressed)
                 /\ PlainDown(codes)' = PlainDown(codes)
  BY <1>1 DEF Now, PlainDown
<1> QED
  BY <1>1, <1>2 DEF Decoded, FlagTypes, FlagsAhead

LEMMA ModifierDecoded == ASSUME Flow, Decoded, Modifier PROVE Decoded'
<1>1. /\ Enter /\ obuf.code \notin {E0, E1} /\ ~extended_key_sequence_1
      /\ shift_pressed' = Follow(shift_pressed, Shifts)
      /\ ctrl_pressed' = Follow(ctrl_pressed, {Ctrl})
      /\ alt_pressed' = Follow(alt_pressed, {Alt})
  BY DEF Modifier, IsPrefix, Scan
<1>2. ~obuf.second /\ obuf \in Bytes
  BY <1>1, Entered DEF Flow, Requested
<1>3. (~Released) = (obuf.code < 128)
  <2>1. obuf.code \in Nat
    BY <1>2 DEF Bytes
  <2> QED
    BY <2>1 DEF Released, Scan
<1>4. ASSUME NEW flag, NEW codes PROVE Follow(flag, codes) = After(obuf, codes, flag)
  <2>1. Tells(obuf, codes) <=> Code \in codes
    BY <1>1, <1>2 DEF Tells, Code, Scan
  <2> QED
    BY <1>3, <2>1, Zenon DEF Follow, After
<1> QED
  BY <1>1, <1>4, ReadDecoded

LEMMA KeyPressDecoded == ASSUME Flow, Decoded, KeyPress PROVE Decoded'
<1>1. Enter /\ UNCHANGED modifiers /\ Code \notin Shifts \union {Ctrl, Alt}
  BY DEF KeyPress
<1>2. \A codes \in {Shifts, {Ctrl}, {Alt}} : ~Tells(obuf, codes)
  BY <1>1 DEF Tells, Code, Scan
<1> QED
  BY <1>1, <1>2, QuietDecoded

LEMMA UnchangedDecoded ==
  ASSUME Decoded, UNCHANGED <<held, line, obuf, obf, modifiers>>
  PROVE  Decoded'
<1>1. \A codes : /\ Now(codes, shift_pressed)' = Now(codes, shift_pressed)
                 /\ Now(codes, ctrl_pressed)' = Now(codes, ctrl_pressed)
                 /\ Now(codes, alt_pressed)' = Now(codes, alt_pressed)
                 /\ PlainDown(codes)' = PlainDown(codes)
  BY DEF Now, PlainDown, modifiers
<1> QED
  BY <1>1 DEF Decoded, FlagTypes, FlagsAhead, modifiers

LEMMA NextDecoded ==
  ASSUME NoPrefixCode, OneShiftKey, CtrlOrPause, ~FastTransfer
  PROVE  Flow /\ Decoded /\ [Next]_vars => Decoded'
<1> SUFFICES ASSUME Flow, Decoded, [Next]_vars PROVE Decoded'
  OBVIOUS
<1>1. CASE UNCHANGED vars
  BY <1>1, UnchangedDecoded DEF vars, hardware
<1>2. CASE Poll
  BY <1>2, UnchangedDecoded DEF Poll, Kbhit, GetchFirst, GetchSecond, hardware
<1>3. CASE Handler
  BY <1>3, PrefixDecoded, ExtendedDecoded, RereadDecoded, ModifierDecoded,
     KeyPressDecoded DEF Handler
<1> QED
  BY <1>1, <1>2, <1>3, SendDecoded, TransferDecoded DEF Next

\* With every byte decoded the flags say which modifiers are down, for every
\* keyboard with one shift key and not both left Ctrl and Pause, but for the Ctrl
\* and Alt flags while the right key is held, which process_scan_code drops: no
\* press and no release is lost, no byte is taken for that of another key.
THEOREM FlagsFollowKeys ==
  ASSUME NoPrefixCode, OneShiftKey, CtrlOrPause, ~FastTransfer
  PROVE  Spec => []ModifiersFollowKeys
<1>1. Init => Flow /\ Decoded
  BY InitFlow, InitDecoded
<1>2. Flow /\ Decoded /\ [Next]_vars => (Flow /\ Decoded)'
  BY NextFlow, NextDecoded
<1>3. ASSUME Flow, Decoded PROVE ModifiersFollowKeys
  <2> SUFFICES ASSUME Drained
               PROVE  /\ shift_pressed = PlainDown(Shifts)
                      /\ ctrl_pressed = PlainDown({Ctrl})
                      /\ alt_pressed = PlainDown({Alt})
    BY ShiftIsPlain, DownIsPlain, Zenon DEF ModifiersFollowKeys
  <2>1. line = <<>> /\ ~obf
    BY DEF Drained
  <2>2. ASSUME NEW codes, NEW flag \in BOOLEAN,
               Leads(line, codes, Now(codes, flag), PlainDown(codes))
        PROVE  flag = PlainDown(codes)
    <3>1. Now(codes, flag) = flag
      BY <2>1, Zenon DEF Now
    <3>2. Len(line) = 0
      BY <2>1
    <3>3. flag <=> PlainDown(codes)
      BY <2>2, <3>1, <3>2 DEF Leads
    <3>4. PlainDown(codes) \in BOOLEAN
      BY DownIsBoolean
    <3> QED
      BY <3>3, <3>4
  <2> QED
    BY <1>3, <2>2 DEF Decoded, FlagTypes, FlagsAhead
<1> QED
  BY <1>1, <1>2, <1>3, PTL DEF Spec

-----------------------------------------------------------------------------
(***************************************************************************)
(* Types, for every keyboard.                                              *)
(***************************************************************************)
LEMMA NothingAtZero == "" \in Characters
<1>1. 0 \in 0..127 /\ 0 \notin 2..13 /\ 0 \notin 16..27 /\ 0 \notin 30..41 /\ 0 \notin 43..53
  OBVIOUS
<1>2. keymap[0] = ""
  BY <1>1 DEF keymap
<1> QED
  BY <1>1, <1>2, Zenon DEF Characters

LEMMA RowsMatch == 1..Len(Lower) \subseteq 1..Len(Upper)
<1> DEFINE SD == {"1", "2", "3", "4", "5", "6", "7", "8", "9", "0", "-", "="}
           ST == {"q", "w", "e", "r", "t", "y", "u", "i", "o", "p", "[", "]"}
           SH == {"a", "s", "d", "f", "g", "h", "j", "k", "l", ";", "quote", "backtick"}
           SB == {"backslash", "z", "x", "c", "v", "b", "n", "m", ",", ".", "/"}
           S  == SD \union ST \union SH \union SB
<1>1. /\ Digits \in Seq(S) /\ Len(Digits) = 12
      /\ Top \in Seq(S) /\ Len(Top) = 12
      /\ Bottom \in Seq(S) /\ Len(Bottom) = 11
      /\ Home \in Seq(S) /\ Len(Home) = 12
  <2>1. Digits \in Seq(SD) /\ Len(Digits) = 12
    BY DEF Digits
  <2>2. Top \in Seq(ST) /\ Len(Top) = 12
    BY DEF Top
  <2>3. Home \in Seq(SH) /\ Len(Home) = 12
    BY DEF Home
  <2>4. Bottom \in Seq(SB) /\ Len(Bottom) = 11
    BY DEF Bottom
  <2> HIDE DEF SD, ST, SH, SB
  <2>5. ASSUME NEW T, NEW U, T \subseteq U PROVE Seq(T) \subseteq Seq(U)
    BY <2>5
  <2>6. SD \subseteq S /\ ST \subseteq S /\ SH \subseteq S /\ SB \subseteq S
    OBVIOUS
  <2> QED
    BY <2>1, <2>2, <2>3, <2>4, <2>5, <2>6
<1> HIDE DEF S
<1>2. SubSeq(Home, 1, 11) \in Seq(S) /\ Len(SubSeq(Home, 1, 11)) = 11
  <2>1. \A i \in 1..Len(Home) : Home[i] \in S
    BY <1>1, ElementOfSeq
  <2>2. \A i \in 1..11 : Home[i] \in S
    BY <1>1, <2>1
  <2> QED
    BY <2>2, SubSeqProperties
<1>3. Len(Lower) = 46
  <2> DEFINE two   == Digits \o Top
             three == two \o SubSeq(Home, 1, 11)
  <2>1. two \in Seq(S) /\ Len(two) = Len(Digits) + Len(Top)
    BY <1>1, ConcatProperties
  <2> HIDE DEF two
  <2>2. three \in Seq(S) /\ Len(three) = Len(two) + Len(SubSeq(Home, 1, 11))
    BY <1>2, <2>1, ConcatProperties
  <2> HIDE DEF three
  <2>3. Len(three \o Bottom) = Len(three) + Len(Bottom)
    BY <1>1, <2>2, ConcatProperties
  <2>4. Lower = three \o Bottom
    BY DEF Lower, two, three
  <2> QED
    BY <1>1, <1>2, <2>1, <2>2, <2>3, <2>4
<1>4. Len(Upper) = 46
  BY DEF Upper
<1> QED
  BY <1>3, <1>4

LEMMA CharacterType ==
  ASSUME NEW code \in 0..127, NEW shifted
  PROVE  Character(code, shifted) \in Characters
<1>1. keymap[code] \in Characters
  BY Zenon DEF Characters
<1>2. keycodes_in_uppercase(keymap[code]) \in Characters
  <2> DEFINE k == keymap[code]
  <2>1. CASE \E i \in 1..Len(Lower) : Lower[i] = k
    <3> DEFINE i == CHOOSE i \in 1..Len(Lower) : Lower[i] = k
    <3>1. i \in 1..Len(Upper)
      BY <2>1, RowsMatch, Zenon
    <3>2. keycodes_in_uppercase(k) = Upper[i]
      BY <2>1, Zenon DEF keycodes_in_uppercase
    <3> HIDE DEF i
    <3> QED
      BY <3>1, <3>2, Zenon DEF Characters
  <2>2. CASE ~\E i \in 1..Len(Lower) : Lower[i] = k
    BY <1>1, <2>2, Zenon DEF keycodes_in_uppercase
  <2> QED
    BY <2>1, <2>2
<1> QED
  BY <1>1, <1>2, Zenon DEF Character

LEMMA CursorType == \A c \in DOMAIN Cursor : Cursor[c] \in Characters
BY Zenon DEF Characters

LEMMA ByteCodes ==
  ASSUME NEW c \in Nat, c < 256 PROVE Plain(c) \in Byte /\ Second(c) \in Byte
<1>1. c \in 0..255 /\ IsDown(Shifts) \in BOOLEAN
  BY DownIsBoolean, ShiftIsPlain
<1> QED
  BY <1>1 DEF Plain, Second, Byte

LEMMA KeyBytesType ==
  ASSUME NEW k \in Keys PROVE MakeBytes(k) \in Seq(Byte) /\ BreakBytes(k) \in Seq(Byte)
<1>1. /\ k.kind \in {"plain", "extended", "pause"}
      /\ k.code \in Nat /\ k.code < 256 /\ k.code + 128 \in Nat /\ k.code + 128 < 256
  BY CodeRange
<1>2. CASE k.kind = "plain"
  <2>1. MakeBytes(k) = <<Plain(k.code)>> /\ BreakBytes(k) = <<Plain(k.code + 128)>>
    BY <1>2 DEF MakeBytes, BreakBytes
  <2>2. Plain(k.code) \in Byte /\ Plain(k.code + 128) \in Byte
    BY <1>1, ByteCodes
  <2> QED
    BY <2>1, <2>2
<1>3. CASE k.kind = "extended"
  <2>1. /\ MakeBytes(k) = <<Plain(E0), Second(k.code)>>
        /\ BreakBytes(k) = <<Plain(E0), Second(k.code + 128)>>
    BY <1>3 DEF MakeBytes, BreakBytes
  <2>2. Plain(E0) \in Byte /\ Second(k.code) \in Byte /\ Second(k.code + 128) \in Byte
    BY <1>1, ByteCodes DEF E0
  <2> QED
    BY <2>1, <2>2
<1>4. CASE k.kind = "pause"
  <2>1. MakeBytes(k) = <<Plain(E1), Plain(29), Plain(69),
                         Plain(E1), Plain(157), Plain(197)>>
    BY <1>4, Zenon DEF MakeBytes
  <2>2. BreakBytes(k) = <<>>
    BY <1>4 DEF BreakBytes
  <2>3. /\ Plain(E1) \in Byte /\ Plain(29) \in Byte /\ Plain(69) \in Byte
        /\ Plain(157) \in Byte /\ Plain(197) \in Byte
    BY ByteCodes DEF E1
  <2> QED
    BY <2>1, <2>2, <2>3
<1> QED
  BY <1>1, <1>2, <1>3, <1>4

\* TypeOK in parts: what the hardware, the handler and the main program change.
HardwareTypes ==
  /\ held \subseteq Keys /\ line \in Seq(Byte) /\ obuf \in Byte
  /\ obf \in BOOLEAN /\ irq1 \in BOOLEAN
HandlerTypes ==
  /\ h \in {"idle", "reread"}
  /\ shift_pressed \in BOOLEAN /\ ctrl_pressed \in BOOLEAN /\ alt_pressed \in BOOLEAN
  /\ extended_key_sequence_1 \in BOOLEAN /\ extended_key_sequence_2 \in BOOLEAN
SlotTypes ==
  /\ new_key_press \in BOOLEAN /\ key \in Characters /\ m \in {"idle", "hit", "getch"}
  /\ fresh \in BOOLEAN /\ meant \in Characters
Types == HardwareTypes /\ HandlerTypes /\ SlotTypes

LEMMA TypesAreTypeOK == Types <=> TypeOK
BY DEF Types, HardwareTypes, HandlerTypes, SlotTypes, TypeOK, modifiers, prefixes

LEMMA InitTypes == Init => Types
<1> SUFFICES ASSUME Init PROVE Types
  OBVIOUS
<1>1. held \subseteq Keys /\ line \in Seq(Byte)
  <2>1. held = {} /\ line = <<>>
    BY DEF Init
  <2>2. <<>> \in Seq(Byte)
    OBVIOUS
  <2> QED
    BY <2>1, <2>2
<1>2. obuf \in Byte
  <2>1. 0 \in 0..255
    OBVIOUS
  <2> QED
    BY <2>1 DEF Init, Byte
<1>3. obf \in BOOLEAN /\ irq1 \in BOOLEAN
  BY Zenon DEF Init
<1>4. HandlerTypes
  BY Zenon DEF Init, HandlerTypes
<1>5. SlotTypes
  BY NothingAtZero, Zenon DEF Init, SlotTypes
<1> QED
  BY <1>1, <1>2, <1>3, <1>4, <1>5 DEF Types, HardwareTypes

LEMMA CodeType == ASSUME obuf \in Byte PROVE Code \in 0..127
<1>1. obuf.code \in 0..255
  BY Zenon DEF Byte
<1>2. obuf.code \in Nat
  BY <1>1
<1> QED
  BY <1>2 DEF Code, Scan

LEMMA KeyboardTypes ==
  ASSUME Types, NEW k \in Keys, Press(k) \/ Release(k)
  PROVE  Types'
<1>1. /\ held' \subseteq Keys /\ (line' = line \o MakeBytes(k) \/ line' = line \o BreakBytes(k))
      /\ UNCHANGED <<obuf, obf, irq1, software>>
  BY DEF Types, HardwareTypes, Press, Release, Send
<1>2. line' \in Seq(Byte)
  BY <1>1, KeyBytesType, ConcatProperties DEF Types, HardwareTypes
<1> QED
  BY <1>1, <1>2 DEF Types, HardwareTypes, HandlerTypes, SlotTypes, software, modifiers,
     prefixes, slot, history

LEMMA TransferTypes == ASSUME Types, Transfer PROVE Types'
<1>1. /\ line # <<>> /\ obuf' = Head(line) /\ line' = Tail(line)
      /\ UNCHANGED <<held, software>>
  BY DEF Transfer
<1>2. obuf' \in Byte /\ line' \in Seq(Byte)
  BY <1>1, HeadTailProperties DEF Types, HardwareTypes
<1>3. obf' \in BOOLEAN /\ irq1' \in BOOLEAN
  BY Zenon DEF Transfer
<1>4. HardwareTypes'
  BY <1>1, <1>2, <1>3 DEF Types, HardwareTypes
<1> QED
  BY <1>1, <1>4 DEF Types, HandlerTypes, SlotTypes, software, modifiers, prefixes, slot, history

LEMMA EnteredTypes ==
  ASSUME HardwareTypes, Enter PROVE HardwareTypes'
<1>1. UNCHANGED <<held, line, obuf>>
  BY DEF Enter, ps2_read_data
<1>2. obf' \in BOOLEAN /\ irq1' \in BOOLEAN
  BY Zenon DEF Enter, ps2_read_data
<1> QED
  BY <1>1, <1>2 DEF HardwareTypes

LEMMA PrefixTypes == ASSUME Types, Prefix \/ Extended PROVE Types'
<1>1. Enter /\ UNCHANGED <<modifiers, slot, m, history>> /\ h' \in {"idle", "reread"}
  BY DEF Types, HandlerTypes, Prefix, Extended
<1>2. extended_key_sequence_1' \in BOOLEAN /\ extended_key_sequence_2' \in BOOLEAN
  <2>1. CASE Prefix
    BY <2>1, Zenon DEF Prefix
  <2>2. CASE Extended
    BY <2>2, Zenon DEF Extended, prefixes, Types, HandlerTypes
  <2> QED
    BY <2>1, <2>2
<1>3. HardwareTypes'
  BY <1>1, EnteredTypes DEF Types
<1> QED
  BY <1>1, <1>2, <1>3 DEF Types, HandlerTypes, SlotTypes, modifiers, slot, history

LEMMA RereadTypes == ASSUME Types, Reread PROVE Types'
<1>1. /\ UNCHANGED <<held, line, obuf, modifiers, new_key_press, m, history>>
      /\ extended_key_sequence_2' = extended_key_sequence_2 /\ h' = "idle"
  BY DEF Reread, ps2_read_data
<1>2. obf' \in BOOLEAN /\ extended_key_sequence_1' \in BOOLEAN
  BY Zenon DEF Reread, ps2_read_data, FlagAfterPair
<1>3. irq1' \in BOOLEAN
  BY Zenon DEF Reread, Types, HardwareTypes
<1>4. key' \in Characters
  <2>1. CASE Scan \in DOMAIN Cursor
    BY <2>1, CursorType, Zenon DEF Reread, KeyAfterExtended
  <2>2. CASE Scan \notin DOMAIN Cursor
    BY <2>2, Zenon DEF Reread, KeyAfterExtended, Types, SlotTypes
  <2> QED
    BY <2>1, <2>2
<1> QED
  BY <1>1, <1>2, <1>3, <1>4 DEF Types, HardwareTypes, HandlerTypes, SlotTypes, modifiers,
     history

LEMMA ModifierTypes == ASSUME Types, Modifier PROVE Types'
<1>1. Enter /\ UNCHANGED <<h, prefixes, slot, m, history>>
  BY DEF Modifier
<1>2. \A flag \in BOOLEAN : \A codes : Follow(flag, codes) \in BOOLEAN
  BY Zenon DEF Follow
<1>3. /\ shift_pressed' \in BOOLEAN /\ ctrl_pressed' \in BOOLEAN /\ alt_pressed' \in BOOLEAN
  BY <1>2, Zenon DEF Modifier, Types, HandlerTypes
<1>4. HardwareTypes'
  BY <1>1, EnteredTypes DEF Types
<1> QED
  BY <1>1, <1>3, <1>4 DEF Types, HandlerTypes, SlotTypes, prefixes, slot, history

LEMMA KeyPressTypes == ASSUME Types, KeyPress PROVE Types'
<1>1. Enter /\ UNCHANGED <<h, modifiers, prefixes, m>>
  BY DEF KeyPress
<1>2. HardwareTypes' /\ HandlerTypes'
  BY <1>1, EnteredTypes DEF Types, HandlerTypes, modifiers, prefixes
<1>3. SlotTypes'
  <2>1. CASE UNCHANGED <<slot, history>>
    BY <1>1, <2>1 DEF Types, SlotTypes, slot, history
  <2>2. CASE ~UNCHANGED <<slot, history>>
    <3>1. /\ key' = Character(Code, shift_pressed) /\ meant' = Character(Code, obuf.shifted)
          /\ new_key_press' = TRUE /\ fresh' = TRUE
      BY <2>2, Zenon DEF KeyPress, NewKeyPress
    <3>2. key' \in Characters /\ meant' \in Characters
      BY <3>1, CodeType, CharacterType DEF Types, HardwareTypes
    <3>3. new_key_press' \in BOOLEAN /\ fresh' \in BOOLEAN
      BY <3>1, Zenon
    <3> QED
      BY <1>1, <3>2, <3>3 DEF Types, SlotTypes
  <2> QED
    BY <2>1, <2>2
<1> QED
  BY <1>2, <1>3 DEF Types

LEMMA PollTypes == ASSUME Types, Poll PROVE Types'
<1>1. UNCHANGED <<hardware, h, modifiers, prefixes, key, meant>>
  BY DEF Poll, Kbhit, GetchFirst, GetchSecond, slot, history
<1>2. m' \in {"idle", "hit", "getch"}
  BY DEF Poll, Kbhit, GetchFirst, GetchSecond, Main
<1>3. new_key_press' \in BOOLEAN /\ fresh' \in BOOLEAN
  BY Zenon DEF Poll, Kbhit, GetchFirst, GetchSecond, Execute, slot, history, Types, SlotTypes
<1> QED
  BY <1>1, <1>2, <1>3 DEF Types, HardwareTypes, HandlerTypes, SlotTypes, hardware, modifiers,
     prefixes

\* The types of the driver, for every keyboard: what the slot holds is a character
\* of the tables or, after a cursor key, of the cursor keys.
THEOREM TypeCorrect == Spec => []TypeOK
<1>1. Types /\ UNCHANGED vars => Types'
  BY DEF Types, HardwareTypes, HandlerTypes, SlotTypes, vars, hardware, modifiers, prefixes,
     slot, history
<1>2. Types /\ Handler => Types'
  BY PrefixTypes, RereadTypes, ModifierTypes, KeyPressTypes DEF Handler
<1>3. Types /\ [Next]_vars => Types'
  BY <1>1, <1>2, KeyboardTypes, TransferTypes, PollTypes DEF Next
<1> QED
  BY <1>3, InitTypes, TypesAreTypeOK, PTL DEF Spec

-----------------------------------------------------------------------------
(***************************************************************************)
(* The slot, for a keyboard without the cursor keys, whose codes overwrite *)
(* it.                                                                     *)
(***************************************************************************)
NoCursorKeys == \A k \in Keys : k.kind = "extended" => k.code \notin DOMAIN Cursor

\* No second byte on its way is the code of a cursor key.
NoCursorCode(s) == \A k \in 1..Len(s) : s[k].second => s[k].code \notin DOMAIN Cursor

Meant ==
  /\ key = meant
  /\ NoCursorCode(line)
  /\ obuf.second => obuf.code \notin DOMAIN Cursor
  /\ h = "reread" => obuf.second

LEMMA CursorCodes == \A c \in DOMAIN Cursor : c \in Nat /\ c < 128
BY DEF Cursor

LEMMA SendsNoCursorCode ==
  ASSUME NoCursorKeys, NEW k \in Keys
  PROVE  NoCursorCode(MakeBytes(k)) /\ NoCursorCode(BreakBytes(k))
<1>1. k.kind \in {"plain", "extended", "pause"} /\ k.code \in Nat
  BY CodeRange
<1>2. \A c : ~Plain(c).second /\ Second(c).code = c
  BY DEF Plain, Second
<1>3. k.code + 128 \notin DOMAIN Cursor
  BY <1>1, CursorCodes
<1>4. CASE k.kind = "plain"
  BY <1>2, <1>4 DEF MakeBytes, BreakBytes, NoCursorCode
<1>5. CASE k.kind = "extended"
  <2>1. k.code \notin DOMAIN Cursor
    BY <1>5 DEF NoCursorKeys
  <2>2. ASSUME NEW c, c \notin DOMAIN Cursor PROVE NoCursorCode(<<Plain(E0), Second(c)>>)
    <3>1. 1..2 = {1, 2}
      OBVIOUS
    <3> QED
      BY <1>2, <2>2, <3>1 DEF NoCursorCode
  <2>3. /\ MakeBytes(k) = <<Plain(E0), Second(k.code)>>
        /\ BreakBytes(k) = <<Plain(E0), Second(k.code + 128)>>
    BY <1>5 DEF MakeBytes, BreakBytes
  <2> QED
    BY <1>3, <2>1, <2>2, <2>3
<1>6. CASE k.kind = "pause"
  <2> DEFINE s == <<Plain(E1), Plain(29), Plain(69), Plain(E1), Plain(157), Plain(197)>>
  <2>1. 1..6 = {1, 2, 3, 4, 5, 6} /\ Len(s) = 6
    OBVIOUS
  <2>2. \A i \in 1..6 : ~s[i].second
    BY <1>2, <2>1
  <2>3. MakeBytes(k) = s
    BY <1>6, Zenon DEF MakeBytes
  <2>4. BreakBytes(k) = <<>>
    BY <1>6 DEF BreakBytes
  <2>5. NoCursorCode(<<>>)
    BY DEF NoCursorCode
  <2> HIDE DEF s
  <2>6. NoCursorCode(s)
    BY <2>1, <2>2 DEF NoCursorCode
  <2> QED
    BY <2>3, <2>4, <2>5, <2>6
<1> QED
  BY <1>1, <1>4, <1>5, <1>6

LEMMA NoCursorCodeJoined ==
  ASSUME NEW s \in Seq(Bytes), NEW t \in Seq(Bytes), NoCursorCode(s), NoCursorCode(t)
  PROVE  NoCursorCode(s \o t)
<1>1. /\ Len(s \o t) = Len(s) + Len(t) /\ Len(s) \in Nat /\ Len(t) \in Nat
      /\ \A k \in 1..Len(s) + Len(t) :
           (s \o t)[k] = IF k <= Len(s) THEN s[k] ELSE t[k - Len(s)]
  BY ConcatProperties
<1> DEFINE r == s \o t
           n == Len(s)
           l == Len(t)
<1>2. /\ \A k \in 1..n : s[k].second => s[k].code \notin DOMAIN Cursor
      /\ \A k \in 1..l : t[k].second => t[k].code \notin DOMAIN Cursor
  BY DEF NoCursorCode
<1> HIDE DEF r, n, l
<1>3. ASSUME NEW k \in 1..n + l PROVE r[k].second => r[k].code \notin DOMAIN Cursor
  <2>1. n \in Nat /\ l \in Nat /\ r[k] = IF k <= n THEN s[k] ELSE t[k - n]
    BY <1>1 DEF r, n, l
  <2>2. CASE k <= n
    BY <1>2, <2>1, <2>2
  <2>3. CASE ~(k <= n)
    <3>1. k - n \in 1..l
      BY <2>1, <2>3
    <3> QED
      BY <1>2, <2>1, <2>3, <3>1
  <2> QED
    BY <2>2, <2>3
<1> QED
  BY <1>1, <1>3 DEF NoCursorCode, r, n, l

LEMMA SendMeant ==
  ASSUME NoPrefixCode, NoCursorKeys, Flow, Meant, NEW k \in Keys, Press(k) \/ Release(k)
  PROVE  Meant'
<1>1. /\ key' = key /\ meant' = meant /\ obuf' = obuf /\ h' = h
      /\ (line' = line \o MakeBytes(k) \/ line' = line \o BreakBytes(k))
  BY DEF Press, Release, Send, software, slot, history
<1>2. line \in Seq(Bytes) /\ MakeBytes(k) \in Seq(Bytes) /\ BreakBytes(k) \in Seq(Bytes)
  BY KeyPaired DEF Flow, Paired
<1>3. NoCursorCode(line')
  BY <1>1, <1>2, SendsNoCursorCode, NoCursorCodeJoined DEF Meant
<1> QED
  BY <1>1, <1>3 DEF Meant

LEMMA TransferMeant ==
  ASSUME Flow, Meant, ~FastTransfer, Transfer PROVE Meant'
<1>1. /\ key' = key /\ meant' = meant /\ line # <<>> /\ line \in Seq(Bytes)
      /\ obuf' = Head(line) /\ line' = Tail(line) /\ h' = "idle"
  BY DEF Flow, Paired, Transfer, software, slot, history
<1>2. /\ Len(line) \in Nat /\ Len(line) >= 1 /\ Len(Tail(line)) = Len(line) - 1
      /\ Head(line) = line[1] /\ \A k \in 1..Len(Tail(line)) : Tail(line)[k] = line[k + 1]
  BY <1>1, EmptySeq, HeadTailProperties
<1>3. \A k \in 1..Len(line) : line[k].second => line[k].code \notin DOMAIN Cursor
  BY DEF Meant, NoCursorCode
<1> DEFINE t == Tail(line)
<1>4. ASSUME NEW k \in 1..Len(t) PROVE t[k].second => t[k].code \notin DOMAIN Cursor
  <2>1. t[k] = line[k + 1] /\ k + 1 \in 1..Len(line)
    BY <1>2
  <2> QED
    BY <1>3, <2>1
<1>5. obuf'.second => obuf'.code \notin DOMAIN Cursor
  BY <1>1, <1>2, <1>3
<1>6. NoCursorCode(line')
  BY <1>1, <1>4 DEF NoCursorCode
<1> QED
  BY <1>1, <1>5, <1>6 DEF Meant

LEMMA HandlerMeant ==
  ASSUME Flow, Decoded, Meant, Handler PROVE Meant'
<1>1. ASSUME UNCHANGED <<line, obuf, key, meant>>, h' = "reread" => obuf.second
      PROVE  Meant'
  BY <1>1 DEF Meant, NoCursorCode
<1>2. CASE Prefix \/ Modifier
  BY <1>1, <1>2 DEF Prefix, Modifier, Enter, ps2_read_data, slot, history, Meant
<1>3. CASE Extended
  <2>1. Enter /\ extended_key_sequence_1 /\ UNCHANGED <<slot, history>>
    BY <1>3 DEF Extended
  <2>2. obuf.second
    BY <2>1, Entered
  <2> QED
    BY <1>1, <2>1, <2>2 DEF Enter, ps2_read_data, slot, history
<1>4. CASE Reread
  <2>1. obuf.code \notin DOMAIN Cursor
    BY <1>4 DEF Reread, Meant
  <2>2. key' = key
    BY <1>4, <2>1, Zenon DEF Reread, KeyAfterExtended, Scan
  <2> QED
    BY <1>1, <1>4, <2>2 DEF Reread, ps2_read_data, history
<1>5. CASE KeyPress
  <2>1. Enter /\ h' = h /\ h = "idle" /\ UNCHANGED <<line, obuf>>
    BY <1>5, Entered DEF KeyPress
  <2>2. key' = meant'
    <3>1. CASE UNCHANGED <<slot, history>>
      BY <3>1 DEF Meant, slot, history
    <3>2. CASE ~UNCHANGED <<slot, history>>
      <4>1. /\ key' = Character(Code, shift_pressed)
            /\ meant' = Character(Code, obuf.shifted)
        BY <1>5, <3>2, Zenon DEF KeyPress
      <4>2. obuf.shifted <=> shift_pressed
        BY <2>1, Entered DEF Decoded
      <4>3. Character(Code, shift_pressed) = Character(Code, obuf.shifted)
        BY <4>2, Zenon DEF Character
      <4> QED
        BY <4>1, <4>3
    <3> QED
      BY <3>1, <3>2
  <2> QED
    BY <2>1, <2>2 DEF Meant, NoCursorCode
<1> QED
  BY <1>2, <1>3, <1>4, <1>5 DEF Handler

\* The slot holds the character its press was meant as, in upper case exactly if
\* a shift key was down when the press was sent, however late the handler decodes
\* it and whatever getch is doing: for every keyboard without cursor keys.
THEOREM SlotHoldsWhatWasMeant ==
  ASSUME NoPrefixCode, OneShiftKey, CtrlOrPause, NoCursorKeys, ~FastTransfer
  PROVE  Spec => []SlotIsMeant
<1>1. Init => Flow /\ Decoded
  BY InitFlow, InitDecoded
<1>2. ASSUME Init PROVE Meant
  <2>1. line = <<>> /\ key = meant /\ h = "idle"
    BY <1>2 DEF Init
  <2>2. ~obuf.second
    BY <1>2 DEF Init
  <2>3. NoCursorCode(line)
    BY <2>1 DEF NoCursorCode
  <2> QED
    BY <2>1, <2>2, <2>3 DEF Meant
<1>3. Flow /\ Decoded /\ [Next]_vars => (Flow /\ Decoded)'
  BY NextFlow, NextDecoded
<1>4. ASSUME Flow, Decoded, Meant, [Next]_vars PROVE Meant'
  <2>1. CASE UNCHANGED vars
    BY <1>4, <2>1 DEF Meant, NoCursorCode, vars, hardware, slot, history
  <2>2. CASE Poll
    BY <1>4, <2>2
    DEF Poll, Kbhit, GetchFirst, GetchSecond, hardware, slot, history, Meant, NoCursorCode
  <2> QED
    BY <1>4, <2>1, <2>2, SendMeant, TransferMeant, HandlerMeant DEF Next
<1>5. Meant => SlotIsMeant
  BY DEF Meant, SlotIsMeant
<1> QED
  BY <1>1, <1>2, <1>3, <1>4, <1>5, PTL DEF Spec
=============================================================================
