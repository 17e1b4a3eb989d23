------------------------------- MODULE Paging -------------------------------
(***************************************************************************)
(* Paging (paging.c, paging.asm): one page directory, one page table that  *)
(* every present directory entry points to, and the CPU's translation      *)
(* cache, which no code flushes after paging is on.                        *)
(*                                                                         *)
(* An address is taken at the granularity of pages: a virtual page is a    *)
(* pair <<directory index, table index>>, a physical one a frame number.   *)
(***************************************************************************)
EXTENDS Integers, FiniteSets

CONSTANTS
  DirEntries,   \* 1024
  TableEntries, \* 1024: the frames below 4 MB, too
  WindowDir,    \* 768: the directory index of 0xc0000000
  WindowFrame,  \* 256: the frame of 0x00100000
  Resident,     \* the pages the kernel runs on: its image, stack, screen
  Mappable,     \* the table indexes later kernel code maps pages at
  TlbSize       \* how many translations the CPU caches

Dirs   == 0..DirEntries - 1
Tables == 0..TableEntries - 1
Pages  == Dirs \X Tables
Frames == Tables

ASSUME SizesAssumption ==
  /\ DirEntries \in Nat \ {0}
  /\ TableEntries \in Nat \ {0}
  /\ WindowDir \in Dirs \ {0}
  /\ WindowFrame \in Frames
  /\ TlbSize \in Nat
\* 0xc0000000 has table index 0, and page 0 of memory is not the kernel's.
ASSUME ResidentAssumption == Resident \subseteq Tables \ {0}
ASSUME MappableAssumption == Mappable \subseteq Tables

VARIABLES
  pc,      \* the next step of init_paging, then "on"
  i,       \* its loop counter
  present, \* the directory indexes whose entry is present
  table,   \* page_table
  tlb,     \* the translations the CPU has cached
  last     \* history: the arguments of the last map_page once paging was on

vars == <<pc, i, present, table, tlb, last>>

NotPresent == [present |-> FALSE, frame |-> 0]
Entry      == [present : BOOLEAN, frame : Frames]
Cached     == [page : Pages, frame : Frames]
Mapping    == [page : Pages, frame : Frames, flag : BOOLEAN]
None       == [page |-> "none"]

TypeOK ==
  /\ pc \in {"memset", "identity", "directory", "window", "enable", "on"}
  /\ i \in 0..TableEntries
  /\ present \subseteq Dirs
  /\ table \in [Tables -> Entry]
  /\ tlb \subseteq Cached
  /\ last \in Mapping \union {None}

Init ==
  /\ pc = "memset" /\ i = 0
  /\ present = {}
  /\ table = [t \in Tables |-> NotPresent]
  /\ tlb = {} /\ last = None
-----------------------------------------------------------------------------
SetTableEntry(t, f, flag) ==
  table' = [table EXCEPT ![t] = [present |-> flag, frame |-> f]]

\* map_page: a missing directory entry is pointed to the one page table.
LinkForgotten(d) == present \* mutant: the directory entry is not set
Linked(d) == present \union {d}
map_page(f, d, t, flag) ==
  /\ present' = Linked(d)
  /\ SetTableEntry(t, f, flag)

Memset ==
  /\ pc = "memset" /\ pc' = "identity"
  /\ present' = {}
  /\ table' = [t \in Tables |-> NotPresent]
  /\ UNCHANGED <<i, tlb, last>>

\* for (i = 0; i < PAGE_TABLE_ENTRIES; i++)
LastIdentity == TableEntries
IdentityLoop ==
  /\ pc = "identity"
  /\ IF i < LastIdentity
     THEN SetTableEntry(i, i, TRUE) /\ i' = i + 1 /\ pc' = pc
     ELSE pc' = "directory" /\ UNCHANGED <<i, table>>
  /\ UNCHANGED <<present, tlb, last>>

LinkDirectory ==
  /\ pc = "directory" /\ pc' = "window"
  /\ present' = present \union {0}
  /\ UNCHANGED <<i, table, tlb, last>>

\* (0xc0000000 >> 12) & 0x3FF
DirShift == WindowDir % TableEntries \* mutant: >> 22 for the table index too
WindowIndex == 0
MapWindow ==
  /\ pc = "window" /\ pc' = "enable"
  /\ map_page(WindowFrame, WindowDir, WindowIndex, TRUE)
  /\ UNCHANGED <<i, tlb, last>>

\* CR3, then the paging bit of CR0; loading CR3 empties the cache.
EnablePaging ==
  /\ pc = "enable" /\ pc' = "on"
  /\ tlb' = {}
  /\ UNCHANGED <<i, present, table, last>>

InitPaging == Memset \/ IdentityLoop \/ LinkDirectory \/ MapWindow \/ EnablePaging

\* map_page called once paging is on; its flags say present or not.
MapPage(f, d, t, flag) ==
  /\ pc = "on"
  /\ map_page(f, d, t, flag)
  /\ last' = [page |-> <<d, t>>, frame |-> f, flag |-> flag]
  /\ UNCHANGED <<pc, i, tlb>>
-----------------------------------------------------------------------------
(***************************************************************************)
(* The CPU: walks the tables, and remembers or forgets what it found at    *)
(* any time.  It never caches the lack of a translation.                   *)
(***************************************************************************)
Mapped(p) == p[1] \in present /\ table[p[2]].present
Walk(p)   == table[p[2]].frame

Fill(p) ==
  /\ pc = "on" /\ Mapped(p)
  /\ Cardinality(tlb) < TlbSize
  /\ \A c \in tlb : c.page # p
  /\ tlb' = tlb \union {[page |-> p, frame |-> Walk(p)]}
  /\ UNCHANGED <<pc, i, present, table, last>>

Evict(c) ==
  /\ tlb' = tlb \ {c}
  /\ UNCHANGED <<pc, i, present, table, last>>

Next ==
  \/ InitPaging
  \/ \E f \in Frames, d \in Dirs, t \in Mappable, flag \in BOOLEAN :
       MapPage(f, d, t, flag)
  \/ \E p \in Pages : Fill(p)
  \/ \E c \in tlb : Evict(c)

Spec == Init /\ [][Next]_vars
-----------------------------------------------------------------------------
(***************************************************************************)
(* Properties.                                                             *)
(***************************************************************************)

\* The frames an access to page p may reach: the cached translation if there is
\* one, the one in the tables if there is not.  None at all is a page fault.
Reach(p) ==
  LET hit == {c \in tlb : c.page = p}
  IN  IF hit # {} THEN {c.frame : c \in hit}
      ELSE IF Mapped(p) THEN {Walk(p)} ELSE {}

\* From the instruction after the one that sets the paging bit, every page the
\* kernel runs on is reached at its own address: through the loop bounds, the
\* window of init_paging, every later map_page at other indexes, and the cache.
KernelReached == pc = "on" => \A t \in Resident \ Mappable : Reach(<<0, t>>) = {t}

\* The page of the last map_page is mapped the way its arguments say, whether or
\* not its directory entry was there before.
LatestMapping ==
  last # None => /\ Mapped(last.page) <=> last.flag
                 /\ Walk(last.page) = last.frame
=============================================================================
