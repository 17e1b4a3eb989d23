------------------------------- MODULE AtaDrive -------------------------------
(* The two channels the driver polls, with the drives on them, as far as       *)
(* ata.c can tell them apart. This is hardware: every operator takes the state *)
(* of a drive and gives the states it may be in next.                          *)
(*                                                                             *)
(* Assumed of a drive: it is busy from the moment it takes a command, it has   *)
(* no error bit set while it is busy, and it ignores commands while it is.     *)
EXTENDS Naturals

CONSTANTS
    SECTOR_SIZE,   \* bytes of a sector, and of what IDENTIFY answers
    Counts,        \* sectors a command may be for: no one writes that register
    IdleWords      \* what the data port of a drive with no data to give reads as

ASSUME DriveAssumption ==
    /\ SECTOR_SIZE \in Nat \ {0, 1}
    /\ Counts \subseteq Nat \ {0}
    /\ IdleWords \subseteq {"zero", "ones"} /\ IdleWords # {}

Channels  == {"primary", "secondary"}
Units     == {"master", "slave"}
Positions == Channels \X Units

\* The bytes a command register can be sent, by what they have a drive do.
Commands == {"identify", "read", "write", "other"}

\* A word of the data port, by where it comes from.
Words == {"zero", "ones", "identify", "sector"}

SectorWords == SECTOR_SIZE \div 2

(* What is at a position. The fields of a disk are those of its IDENTIFY       *)
(* answer that the driver keeps; sector_size is word 106.                      *)
Device(sectorSizes) ==
    [type : {"none", "packet", "disk"}, lba_28 : BOOLEAN, lba_48 : BOOLEAN,
     sector_size : sectorSizes]

Exchanges == {"none", "identify", "sector", "store"}

\* what: what a busy drive prepares, or one with data exchanges; left: its words.
DriveStates ==
    [state : {"idle", "busy", "data"}, what : Exchanges, left : Nat]

Idle == [state |-> "idle", what |-> "none", left |-> 0]

Busy(what, sectors) ==
    [state |-> "busy", what |-> what, left |-> sectors * SectorWords]

Answers(device, command) ==
    IF device.type = "disk" /\ command = "identify" THEN {Busy("identify", 1)}
    ELSE IF device.type = "disk" /\ command = "read"
         THEN {Busy("sector", n) : n \in Counts}
    ELSE IF device.type = "disk" /\ command = "write"
         THEN {Busy("store", n) : n \in Counts}
    ELSE {Idle}

\* With words still to exchange, a drive may take a new command or ignore it.
AfterCommand(device, drive, command) ==
    CASE device.type = "none"  -> {drive}
      [] drive.state = "busy"  -> {drive}
      [] drive.state = "data"  -> {drive} \cup Answers(device, command)
      [] OTHER                 -> Answers(device, command)

\* One word less; between two sectors the drive is busy again.
AfterWord(drive) ==
    LET rest == drive.left - 1
    IN  IF rest = 0 THEN Idle
        ELSE [drive EXCEPT !.left = rest,
                           !.state = IF rest % SectorWords = 0 THEN "busy" ELSE "data"]

\* A busy drive has its data, or gives up a transfer with an error.
AfterWork(drive) ==
    {[drive EXCEPT !.state = "data"]} \cup
    (IF drive.what = "identify" THEN {} ELSE {Idle})
===============================================================================
