--------------------------- MODULE Paging_proofs ----------------------------
(***************************************************************************)
(* Proofs about Paging, for every size of the tables and of the cache.     *)
(***************************************************************************)
EXTENDS Paging, TLAPS

\* The pages that nothing but the loop of init_paging maps.
Kept == Resident \ Mappable

Identity(t) == table[t] = [present |-> TRUE, frame |-> t]

\* How far init_paging has come, and what the cache may hold of it.
StageInv ==
  /\ pc = "identity" => \A t \in Tables : t < i => Identity(t)
  /\ pc \in {"directory", "window"} => \A t \in Tables : Identity(t)
  /\ pc \in {"enable", "on"} => \A t \in Kept : Identity(t)
  /\ pc \in {"window", "enable", "on"} => 0 \in present
  /\ pc # "on" => last = None
  /\ pc \in {"memset", "identity"} /\ i # 0 => pc = "identity"

CacheInv == \A c \in tlb : c.page[2] \in Kept => c.frame = c.page[2]

IInv == TypeOK /\ StageInv /\ CacheInv

LEMMA InitIInv == Init => IInv
<1> SUFFICES ASSUME Init PROVE IInv
  OBVIOUS
<1>1. 0 \in Tables
  BY SizesAssumption DEF SizesAssumption, Tables
<1>2. TypeOK
  <2>1. table \in [Tables -> Entry]
    BY <1>1 DEF Init, Entry, NotPresent, Frames
  <2>2. i \in 0..TableEntries
    BY SizesAssumption DEF Init, SizesAssumption
  <2> QED
    BY <2>1, <2>2 DEF Init, TypeOK
<1> QED
  BY <1>2 DEF Init, IInv, StageInv, CacheInv

\* Writing one entry of the table keeps the identity of all others.
LEMMA OtherEntriesKept ==
  ASSUME table \in [Tables -> Entry], NEW t \in Tables, NEW f \in Frames,
         NEW flag \in BOOLEAN, SetTableEntry(t, f, flag)
  PROVE  /\ table' \in [Tables -> Entry]
         /\ \A u \in Tables : u # t /\ Identity(u) => Identity(u)'
BY DEF SetTableEntry, Entry, Identity

LEMMA MemsetStep == IInv /\ Memset => IInv'
<1> SUFFICES ASSUME IInv, Memset PROVE IInv'
  OBVIOUS
<1>1. i = 0
  BY DEF IInv, StageInv, Memset
<1>2. 0 \in Frames
  BY SizesAssumption DEF SizesAssumption, Frames, Tables
<1>3. table' \in [Tables -> Entry]
  BY <1>2 DEF Memset, NotPresent, Entry
<1>4. TypeOK'
  BY <1>3 DEF IInv, TypeOK, Memset
<1>5. StageInv'
  BY <1>1 DEF IInv, StageInv, Memset, Tables
<1> QED
  BY <1>4, <1>5 DEF IInv, CacheInv, Memset

LEMMA IdentityLoopStep == IInv /\ IdentityLoop => IInv'
<1> SUFFICES ASSUME IInv, IdentityLoop PROVE IInv'
  OBVIOUS
<1>1. TypeOK /\ pc = "identity" /\ \A t \in Tables : t < i => Identity(t)
  BY DEF IInv, StageInv, IdentityLoop
<1>2. TableEntries \in Nat
  BY SizesAssumption DEF SizesAssumption
<1>3. CASE i < LastIdentity
  <2>1. i \in Tables /\ i + 1 \in 0..TableEntries
    BY <1>1, <1>2, <1>3 DEF LastIdentity, TypeOK, Tables
  <2>2. i' = i + 1 /\ pc' = "identity" /\ SetTableEntry(i, i, TRUE)
    BY <1>1, <1>3 DEF IdentityLoop
  <2>3. /\ table' \in [Tables -> Entry]
        /\ \A u \in Tables : u # i /\ Identity(u) => Identity(u)'
    <3>1. table \in [Tables -> Entry] /\ i \in Frames /\ TRUE \in BOOLEAN
      BY <1>1, <2>1 DEF TypeOK, Frames
    <3> QED
      BY <2>1, <2>2, <3>1, OtherEntriesKept
  <2>4. \A u \in Tables : u = i => Identity(u)'
    BY <1>1, <2>1, <2>2 DEF SetTableEntry, TypeOK, Identity
  <2>5. TypeOK'
    BY <1>1, <2>1, <2>2, <2>3 DEF TypeOK, IdentityLoop
  <2>6. \A t \in Tables : t < i' => Identity(t)'
    <3> SUFFICES ASSUME NEW t \in Tables, t < i' PROVE Identity(t)'
      OBVIOUS
    <3>1. t = i \/ (t # i /\ t < i)
      BY <1>2, <2>1, <2>2 DEF Tables
    <3> QED
      BY <1>1, <2>3, <2>4, <3>1
  <2>7. StageInv'
    BY <1>1, <2>2, <2>6 DEF IInv, StageInv, IdentityLoop, Identity
  <2> QED
    BY <2>5, <2>7 DEF IInv, CacheInv, IdentityLoop
<1>4. CASE ~(i < LastIdentity)
  <2>1. UNCHANGED <<i, table, present, tlb, last>> /\ pc' = "directory"
    BY <1>4 DEF IdentityLoop
  <2>2. \A t \in Tables : Identity(t)
    BY <1>1, <1>2, <1>4 DEF LastIdentity, TypeOK, Tables
  <2>3. StageInv'
    BY <1>1, <2>1, <2>2 DEF IInv, StageInv, Identity
  <2> QED
    BY <1>1, <2>1, <2>3 DEF IInv, TypeOK, CacheInv
<1> QED
  BY <1>3, <1>4

LEMMA LinkDirectoryStep == IInv /\ LinkDirectory => IInv'
<1> SUFFICES ASSUME IInv, LinkDirectory PROVE IInv'
  OBVIOUS
<1>1. 0 \in Dirs
  BY SizesAssumption DEF SizesAssumption, Dirs
<1>2. TypeOK'
  BY <1>1 DEF IInv, TypeOK, LinkDirectory
<1>3. StageInv'
  BY DEF IInv, StageInv, LinkDirectory, Identity
<1> QED
  BY <1>2, <1>3 DEF IInv, CacheInv, LinkDirectory

\* The window is at table index 0, and page 0 is not one the kernel runs on.
LEMMA MapWindowStep == IInv /\ MapWindow => IInv'
<1> SUFFICES ASSUME IInv, MapWindow PROVE IInv'
  OBVIOUS
<1>1. /\ 0 \in Tables /\ WindowFrame \in Frames /\ WindowDir \in Dirs
      /\ 0 \notin Resident /\ Resident \subseteq Tables
  BY SizesAssumption, ResidentAssumption
  DEF SizesAssumption, ResidentAssumption, Tables
<1>2. SetTableEntry(0, WindowFrame, TRUE) /\ present' = present \union {WindowDir}
  BY DEF MapWindow, map_page, WindowIndex, Linked
<1>3. /\ table' \in [Tables -> Entry]
      /\ \A u \in Tables : u # 0 /\ Identity(u) => Identity(u)'
  BY <1>1, <1>2, OtherEntriesKept DEF IInv, TypeOK
<1>4. TypeOK'
  BY <1>1, <1>2, <1>3 DEF IInv, TypeOK, MapWindow
<1>5. StageInv'
  BY <1>1, <1>2, <1>3 DEF IInv, StageInv, MapWindow, Kept
<1> QED
  BY <1>4, <1>5 DEF IInv, CacheInv, MapWindow

LEMMA EnablePagingStep == IInv /\ EnablePaging => IInv'
BY DEF IInv, TypeOK, StageInv, CacheInv, EnablePaging, Identity

LEMMA MapPageStep ==
  ASSUME IInv, NEW f \in Frames, NEW d \in Dirs, NEW t \in Mappable,
         NEW flag \in BOOLEAN, MapPage(f, d, t, flag)
  PROVE  IInv'
<1>1. t \in Tables /\ t \notin Kept /\ Kept \subseteq Tables
  BY MappableAssumption, ResidentAssumption
  DEF MappableAssumption, ResidentAssumption, Kept
<1>2. SetTableEntry(t, f, flag) /\ present' = present \union {d}
  BY DEF MapPage, map_page, Linked
<1>3. /\ table' \in [Tables -> Entry]
      /\ \A u \in Tables : u # t /\ Identity(u) => Identity(u)'
  BY <1>1, <1>2, OtherEntriesKept DEF IInv, TypeOK
<1>4. last' \in Mapping
  BY <1>1 DEF MapPage, Mapping, Pages
<1>5. TypeOK'
  BY <1>2, <1>3, <1>4 DEF IInv, TypeOK, MapPage
<1>6. StageInv'
  BY <1>1, <1>2, <1>3 DEF IInv, StageInv, MapPage
<1> QED
  BY <1>5, <1>6 DEF IInv, CacheInv, MapPage

LEMMA FillStep ==
  ASSUME IInv, NEW p \in Pages, Fill(p)
  PROVE  IInv'
<1> DEFINE c == [page |-> p, frame |-> Walk(p)]
<1>1. p[2] \in Tables /\ p[1] \in Dirs /\ pc = "on"
  BY DEF Pages, Fill
<1>2. c \in Cached
  BY <1>1 DEF IInv, TypeOK, Entry, Cached, Walk
<1>3. c.page[2] \in Kept => c.frame = c.page[2]
  <2> SUFFICES ASSUME p[2] \in Kept PROVE Walk(p) = p[2]
    OBVIOUS
  <2>1. Identity(p[2])
    BY <1>1 DEF IInv, StageInv
  <2> QED
    BY <2>1 DEF Identity, Walk
<1>4. tlb' = tlb \union {c}
  BY DEF Fill
<1>5. TypeOK'
  BY <1>2, <1>4 DEF IInv, TypeOK, Fill
<1>6. StageInv'
  BY DEF IInv, StageInv, Fill, Identity
<1>7. CacheInv'
  BY <1>3, <1>4 DEF IInv, CacheInv, Fill, Kept
<1> QED
  BY <1>5, <1>6, <1>7 DEF IInv

\* The invariant of the table, the directory and the translation cache.
THEOREM Invariance == Spec => []IInv
<1>1. IInv /\ [Next]_vars => IInv'
  <2> SUFFICES ASSUME IInv, [Next]_vars PROVE IInv'
    OBVIOUS
  <2>1. CASE UNCHANGED vars
    BY <2>1 DEF vars, IInv, TypeOK, StageInv, CacheInv, Identity
  <2>2. ASSUME NEW c \in tlb, Evict(c) PROVE IInv'
    BY <2>2 DEF Evict, IInv, TypeOK, StageInv, CacheInv, Identity
  <2>3. CASE InitPaging
    BY <2>3, MemsetStep, IdentityLoopStep, LinkDirectoryStep, MapWindowStep,
       EnablePagingStep DEF InitPaging
  <2> QED
    BY <2>1, <2>2, <2>3, MapPageStep, FillStep DEF Next
<1> QED
  BY <1>1, InitIInv, PTL DEF Spec

\* Types, for every size.
THEOREM TypeCorrect == Spec => []TypeOK
<1>1. IInv => TypeOK
  BY DEF IInv
<1> QED
  BY <1>1, Invariance, PTL

\* From the moment paging is on, each page the kernel runs on and nobody maps
\* over is reached at its own address, through the tables and through the cache.
THEOREM KernelStaysReached == Spec => []KernelReached
<1>1. ASSUME IInv PROVE KernelReached
  <2> SUFFICES ASSUME pc = "on", NEW t \in Kept
               PROVE  Reach(<<0, t>>) = {t}
    BY DEF KernelReached, Kept
  <2> DEFINE hit == {c \in tlb : c.page = <<0, t>>}
  <2>1. Mapped(<<0, t>>) /\ Walk(<<0, t>>) = t
    <3>1. 0 \in present /\ Identity(t)
      BY <1>1 DEF IInv, StageInv
    <3>2. table[t].present /\ table[t].frame = t
      BY <3>1 DEF Identity
    <3> QED
      BY <3>1, <3>2 DEF Mapped, Walk
  <2>2. \A c \in hit : c.frame = t
    BY <1>1 DEF IInv, CacheInv
  <2>3. CASE hit = {}
    BY <2>1, <2>3 DEF Reach
  <2>4. CASE hit # {}
    <3>1. {c.frame : c \in hit} = {t}
      BY <2>2, <2>4
    <3> QED
      BY <2>4, <3>1 DEF Reach
  <2> QED
    BY <2>3, <2>4
<1> QED
  BY <1>1, Invariance, PTL

\* A map_page finds its own entry where it put it, linked or not before.
LEMMA MapPageIsLatest ==
  ASSUME IInv, NEW f \in Frames, NEW d \in Dirs, NEW t \in Mappable,
         NEW flag \in BOOLEAN, MapPage(f, d, t, flag)
  PROVE  LatestMapping'
<1>1. /\ last' = [page |-> <<d, t>>, frame |-> f, flag |-> flag]
      /\ present' = present \union {d}
      /\ table' = [table EXCEPT ![t] = [present |-> flag, frame |-> f]]
  BY DEF MapPage, map_page, Linked, SetTableEntry
<1>2. t \in Tables /\ table \in [Tables -> Entry]
  BY MappableAssumption DEF MappableAssumption, IInv, TypeOK
<1>3. table'[t] = [present |-> flag, frame |-> f]
  BY <1>1, <1>2
<1>4. table'[t].present = flag /\ table'[t].frame = f /\ d \in present'
  BY <1>1, <1>3
<1>5. last'.page[1] = d /\ last'.page[2] = t /\ last'.flag = flag /\ last'.frame = f
  BY <1>1
<1> QED
  BY <1>4, <1>5 DEF LatestMapping, Mapped, Walk

\* After every map_page its page is mapped the way it said, for every size of
\* the tables and whatever the directory held before.
THEOREM MappingsTakeEffect == Spec => []LatestMapping
<1>1. Init => LatestMapping
  BY DEF Init, LatestMapping
<1>2. ASSUME IInv, LatestMapping, [Next]_vars PROVE LatestMapping'
  <2>1. CASE InitPaging
    <3>1. last = None /\ last' = None
      BY <1>2, <2>1 DEF IInv, StageInv, InitPaging, Memset, IdentityLoop,
                        LinkDirectory, MapWindow, EnablePaging
    <3> QED
      BY <3>1 DEF LatestMapping
  <2>2. CASE UNCHANGED <<present, table, last>>
    BY <1>2, <2>2 DEF LatestMapping, Mapped, Walk
  <2>3. ASSUME NEW p \in Pages, Fill(p) PROVE LatestMapping'
    BY <2>2, <2>3 DEF Fill
  <2>4. ASSUME NEW c \in tlb, Evict(c) PROVE LatestMapping'
    BY <2>2, <2>4 DEF Evict
  <2>5. CASE UNCHANGED vars
    BY <2>2, <2>5 DEF vars
  <2> QED
    BY <1>2, <2>1, <2>3, <2>4, <2>5, MapPageIsLatest DEF Next
<1> QED
  BY <1>1, <1>2, Invariance, PTL DEF Spec
=============================================================================
