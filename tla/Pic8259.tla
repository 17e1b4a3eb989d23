------------------------------ MODULE Pic8259 ------------------------------
(***************************************************************************)
(* The cascaded pair of 8259A interrupt controllers, as far as idt.c       *)
(* drives it: fully nested priorities, normal (non-automatic) end of       *)
(* interrupt, nothing masked, the slave on line 2 of the master.           *)
(* The controllers are hardware, so these definitions are external: they   *)
(* give the meaning of the bytes init_IDT and irq_handler write to ports   *)
(* 0x20, 0x21, 0xA0 and 0xA1.                                              *)
(***************************************************************************)
EXTENDS Integers

Cascade     == 2
MasterLines == 0..7
SlaveLines  == 8..15

\* Line 2 of the master carries the slave: no device can be wired to it.
DeviceLines == (MasterLines \ {Cascade}) \union SlaveLines

\* The input of the master through which a device line reaches the CPU.
MasterLine(n) == IF n \in SlaveLines THEN Cascade ELSE n

\* m has strictly higher priority than n.
Outranks(m, n) ==
  \/ MasterLine(m) < MasterLine(n)
  \/ MasterLine(m) = MasterLine(n) /\ m < n

\* The in-service bits that acknowledging n sets.
InServiceBits(n) == {n, MasterLine(n)}

\* An in-service bit blocks requests of its own and of lower priority.
Blocked(isr, n) ==
  \/ \E m \in isr \cap MasterLines : m <= MasterLine(n)
  \/ n \in SlaveLines /\ \E m \in isr \cap SlaveLines : m <= n

\* The requests a controller pair with requests irr puts on the INTR pin: the
\* unblocked one of highest priority.
Signalled(irr, isr, n) ==
  /\ n \in irr
  /\ ~Blocked(isr, n)
  /\ \A m \in irr : Blocked(isr, m) \/ ~Outranks(m, n)

\* A non-specific EOI written to one chip (the lines in chip) clears its
\* in-service bit of highest priority, whoever that bit belongs to.
Eoi(isr, chip) ==
  {m \in isr : m \in chip => \E k \in isr \cap chip : k < m}
=============================================================================
