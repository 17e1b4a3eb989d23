-------------------------------- MODULE MCAta --------------------------------
(* Constants for the runs of Ata. A sector of 4 bytes is 2 words, of which     *)
(* outsw moves one. The primary master reports a sector size of zero, of a     *)
(* sector, one that does not divide what main reads, or (as QEMU does in       *)
(* word 106) one as large as main's buffer.                                    *)
EXTENDS Ata

MCSizes106 == {0, 4, 6, 8}

Nothing == [type |-> "none", lba_28 |-> FALSE, lba_48 |-> FALSE, sector_size |-> 0]
Packet  == [Nothing EXCEPT !.type = "packet"]
Disk(lba28, lba48, size) ==
    [type |-> "disk", lba_28 |-> lba28, lba_48 |-> lba48, sector_size |-> size]

FirstDrives ==
    {Nothing, Packet, Disk(FALSE, FALSE, 4), Disk(TRUE, TRUE, 4),
     Disk(TRUE, FALSE, 0), Disk(TRUE, FALSE, 4), Disk(TRUE, FALSE, 6),
     Disk(FALSE, FALSE, 8)}

OtherDrives == {Nothing, Packet, Disk(TRUE, FALSE, 4)}

MCMachines ==
    {m \in [Positions -> FirstDrives] :
        /\ \A p \in Positions \ {<<"primary", "master">>} : m[p] \in OtherDrives
        /\ m[<<"secondary", "slave">>] # Packet}

\* Machines whose drives all report a sector size.
MCSizedMachines == {m \in MCMachines : \A p \in Positions :
                        m[p].type = "disk" => m[p].sector_size # 0}

MCBlocks == {[k \in 1..4 |-> "other"], [k \in 1..4 |-> IF k = 1 THEN "write" ELSE "other"],
             [k \in 1..4 |-> IF k = 3 THEN "read" ELSE "other"]}
MCCounts == {1, 2}
MCIdleWords == {"zero"}
MCSizes == {0, 4, 6, 8}
==============================================================================
