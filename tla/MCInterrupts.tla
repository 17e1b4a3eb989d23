---------------------------- MODULE MCInterrupts ----------------------------
(***************************************************************************)
(* The instances of Interrupts for TLC.  Line 4 is a device of the master, *)
(* below the keyboard; line 8 is the first of the slave, where the test of *)
(* irq_handler and the end of the gates of the master meet.                *)
(***************************************************************************)
EXTENDS Interrupts

MCDevices     == {4, 8}
MCDriverLines == {4}
MCSoftVectors == {0, 128}
=============================================================================
