---------------------------------- MODULE Ata ----------------------------------
(* The ATA driver (src/Drivers/ATA/ata.c) one port access at a time, against   *)
(* drives that work on their own. main surveys the four positions, identifies  *)
(* the primary master and reads from it (kernel.c:71-75); after that anyone    *)
(* may call the functions of ata.h.                                            *)
(*                                                                             *)
(* identify_drive and the six sector functions have one shape: select, then    *)
(* rounds of register writes, a wait and a transfer. A call is a record of     *)
(* that shape and the steps are shared.                                        *)
EXTENDS AtaDrive, Sequences

CONSTANTS
    Word106,       \* sector sizes disks report
    Machines,      \* what may be plugged in: a set of functions on Positions
    BootSize,      \* bytes main reads
    Sizes,         \* bytes later callers transfer
    Blocks,        \* the four bytes of a block number, taken as commands
    MaxCalls       \* bound: calls after the boot

ASSUME AtaAssumption ==
    /\ Word106 \subseteq Nat
    /\ Machines \subseteq [Positions -> Device(Word106)]
    /\ BootSize \in Nat /\ Sizes \subseteq Nat
    /\ Blocks \subseteq [1..4 -> Commands]
    /\ MaxCalls \in Nat

VARIABLES
    machine, floats,       \* what is plugged in; how an empty channel reads
    drives, selected,      \* the state of each drive; the unit each channel selects
    pc, call, pending,     \* the driver: its step, the call, registers to write
    done, moved, got,      \* rounds done, words moved in this one, the words read
    drive_info,            \* the caller's struct DriveInfo
    boot, found, calls,    \* main's next call, what the survey says, later calls
    misled                 \* history: a block number has been sent as commands

hardware == <<machine, floats>>
program  == <<pc, call, pending, done, moved, got, drive_info, boot, found, calls, misled>>
vars     == <<hardware, drives, selected, program>>

-------------------------------------------------------------------------------
(* Calls. rounds: sectors to transfer; size: bytes of the caller's buffer;     *)
(* unit: bytes of a sector as the driver counts them.                          *)
Modes == {"identify", "chs", "lba28", "lba48"}

Calls == [mode : Modes, channel : Channels, drive : Units,
          write : BOOLEAN, size : Nat, unit : Nat, rounds : Nat]

IdentifyCall(slave, secondary) ==
    [mode |-> "identify", channel |-> IF secondary THEN "secondary" ELSE "primary",
     drive |-> IF slave THEN "slave" ELSE "master",
     write |-> FALSE, size |-> SECTOR_SIZE, unit |-> SECTOR_SIZE, rounds |-> 1]

\* Nothing sets is_secondary or is_slave after the memset of identify_drive.
SectorCall(mode, write, size, unit) ==
    [mode |-> mode, channel |-> "primary", drive |-> "master",
     write |-> write, size |-> size, unit |-> unit, rounds |-> size \div unit]

NoDrive == [detected |-> FALSE, chs |-> FALSE, lba_28 |-> FALSE, lba_48 |-> FALSE,
            sector_size |-> 0]

\* The record identify_drive makes of the answer of a disk.
InfoOf(device) ==
    [detected |-> TRUE, chs |-> ~device.lba_28, lba_28 |-> device.lba_28,
     lba_48 |-> device.lba_48, sector_size |-> device.sector_size]

(* The register writes of a round, as offsets from the data port and the       *)
(* values they put there. chs and lba48 count from the command port, 7.        *)
Register(offset, value) == [offset |-> offset, value |-> value]

command_port == 7

PortWrites == [offset : 7..14, value : Commands]

write_command(command, block) ==
    << Register(command_port, command) >> \o
    [k \in 1..(IF call.rounds > 1 THEN 4 ELSE 3) |-> Register(command_port, block[k])]

\* mutant of CommandOffset: counted from the first register of the task file.
CommandOffsetInside == command_port

CommandOffset == command_port + 7

Past(k) == Register(command_port + k, "other")

lba48_registers(command) ==
    << Past(1), Past(2), Past(3), Past(4), Past(5), Past(6),
       Register(CommandOffset, command) >>

chs_registers(command) ==
    << Past(6), Past(2), Past(3), Past(4), Past(5), Register(CommandOffset, command) >>

RoundRegisters(block) ==
    LET command == IF call.write THEN "write" ELSE "read"
    IN  CASE call.mode = "identify" -> << Register(command_port, "identify") >>
          [] call.mode = "lba28"    -> write_command(command, block)
          [] call.mode = "lba48"    -> lba48_registers(command)
          [] call.mode = "chs"      -> chs_registers(command)

\* mutant of TransferWords: bytes taken for words.
TransferBytes == call.unit

\* insw is given words and moves as many; outsw halves the number it is given.
TransferWords ==
    IF call.write THEN (call.unit \div 2) \div 2 ELSE call.unit \div 2

-------------------------------------------------------------------------------
(* The ports. *)
Here(channel) == <<channel, selected[channel]>>

Empty(channel) == \A u \in Units : machine[<<channel, u>>].type = "none"

status(channel) ==
    IF Empty(channel) THEN [busy |-> floats[channel], error |-> floats[channel]]
    ELSE [busy |-> drives[Here(channel)].state = "busy", error |-> FALSE]

outb(channel, register) ==
    CASE register.offset = 6 ->
           /\ selected' = [selected EXCEPT ![channel] = register.value]
           /\ drives' = drives
      [] register.offset = 7 ->
           /\ \E d \in AfterCommand(machine[Here(channel)], drives[Here(channel)],
                                    register.value) :
                drives' = [drives EXCEPT ![Here(channel)] = d]
           /\ selected' = selected
      [] OTHER -> UNCHANGED <<drives, selected>>

\* The words the data port may read as, with nothing taken from a drive.
NoData(channel) ==
    IF Empty(channel) THEN {IF floats[channel] THEN "ones" ELSE "zero"}
    ELSE IF machine[Here(channel)].type = "none" THEN {"zero"} ELSE IdleWords

\* What a sector holds is its reader's: only the answer to IDENTIFY is looked at.
Keep(word) == got' = IF call.mode = "identify" THEN Append(got, word) ELSE got

insw(channel) ==
    LET drive == drives[Here(channel)]
    IN  IF drive.state = "data" /\ drive.what \in {"identify", "sector"}
        THEN /\ Keep(drive.what)
             /\ drives' = [drives EXCEPT ![Here(channel)] = AfterWord(drive)]
        ELSE /\ \E w \in NoData(channel) : Keep(w)
             /\ drives' = drives

outsw(channel) ==
    LET drive == drives[Here(channel)]
    IN  /\ drives' = IF drive.state = "data" /\ drive.what = "store"
                     THEN [drives EXCEPT ![Here(channel)] = AfterWord(drive)]
                     ELSE drives
        /\ got' = got

-------------------------------------------------------------------------------
(* The steps of a call. *)
Begin(c) ==
    /\ call' = c
    /\ done' = 0 /\ moved' = 0 /\ got' = << >> /\ pending' = << >>
    /\ pc' = "select"

\* mutant of Resume: the survey goes on after the first drive it finds.
ResumeThroughout(info) ==
    /\ pc' = "main"
    /\ boot' = IF boot < 7 THEN boot + 1 ELSE boot
    /\ found' = IF boot <= 4 THEN info.detected ELSE found

\* What main does once a call has come back.
Resume(info) ==
    /\ pc' = "main"
    /\ boot' = IF boot < 4 /\ info.detected THEN 5
               ELSE IF boot < 7 THEN boot + 1 ELSE boot
    /\ found' = IF boot <= 4 THEN info.detected ELSE found

select_drive ==
    /\ pc = "select"
    /\ outb(call.channel, Register(6, call.drive))
    /\ pc' = "round"
    /\ UNCHANGED <<hardware, call, pending, done, moved, got, drive_info,
                   boot, found, calls, misled>>

StartRound ==
    /\ pc = "round" /\ done < call.rounds
    /\ \E block \in Blocks : pending' = RoundRegisters(block)
    /\ misled' = (misled \/ call.mode = "lba28")
    /\ moved' = 0
    /\ pc' = "registers"
    /\ UNCHANGED <<hardware, drives, selected, call, done, got, drive_info,
                   boot, found, calls>>

WriteRegister ==
    /\ pc = "registers"
    /\ outb(call.channel, Head(pending))
    /\ pending' = Tail(pending)
    /\ pc' = IF Len(pending) = 1 THEN "wait" ELSE "registers"
    /\ UNCHANGED <<hardware, call, done, moved, got, drive_info,
                   boot, found, calls, misled>>

\* mutants of LoopEnds: the busy bit is not looked at; the error bit is not.
LoopEndsUnpolled(channel) == TRUE
LoopEndsReady(channel) == ~status(channel).busy

\* The loop ends on a drive that is not busy, and on a busy one with an error.
LoopEnds(channel) == ~status(channel).busy \/ status(channel).error

wait_for_ready ==
    /\ pc = "wait"
    /\ LoopEnds(call.channel)
    /\ pc' = "transfer"
    /\ UNCHANGED <<hardware, drives, selected, call, pending, done, moved, got,
                   drive_info, boot, found, calls, misled>>

TransferWord ==
    /\ pc = "transfer" /\ moved < TransferWords
    /\ IF call.write THEN outsw(call.channel) ELSE insw(call.channel)
    /\ moved' = moved + 1
    /\ UNCHANGED <<hardware, selected, pc, call, pending, done, drive_info,
                   boot, found, calls, misled>>

EndRound ==
    /\ pc = "transfer" /\ moved >= TransferWords
    /\ done' = done + 1 /\ moved' = 0
    /\ pc' = "round"
    /\ UNCHANGED <<hardware, drives, selected, call, pending, got, drive_info,
                   boot, found, calls, misled>>

(* What identify_drive makes of the words: nothing there, the record of the    *)
(* drive that answered, or, of words that are not such an answer, any record.  *)
Records ==
    IF got[1] \in {"zero", "ones"} THEN {NoDrive}
    ELSE IF \A k \in DOMAIN got : got[k] = "identify"
         THEN {InfoOf(machine[Here(call.channel)])}
         ELSE {NoDrive} \cup {InfoOf(d) : d \in Device(Word106)}

IdentifyReturn ==
    /\ pc = "round" /\ done = call.rounds /\ call.mode = "identify"
    /\ \E info \in Records : drive_info' = info /\ Resume(info)
    /\ got' = << >>
    /\ UNCHANGED <<hardware, drives, selected, call, pending, done, moved,
                   calls, misled>>

SectorReturn ==
    /\ pc = "round" /\ done = call.rounds /\ call.mode # "identify"
    /\ Resume(drive_info)
    /\ UNCHANGED <<hardware, drives, selected, call, pending, done, moved, got,
                   drive_info, calls, misled>>

-------------------------------------------------------------------------------
(* The calls. *)
identify_drive(slave, secondary) ==
    /\ Begin(IdentifyCall(slave, secondary))
    /\ drive_info' = NoDrive
    /\ UNCHANGED <<hardware, drives, selected, boot, found, misled>>

\* A division by zero: isr_handler reports it and never returns.
Stop ==
    /\ pc' = "stopped"
    /\ UNCHANGED <<hardware, drives, selected, call, pending, done, moved, got,
                   drive_info, boot, found, misled>>

Refuse ==
    /\ Resume(drive_info)
    /\ UNCHANGED <<hardware, drives, selected, call, pending, done, moved, got,
                   drive_info, misled>>

StartSectors(mode, write, size, unit) ==
    /\ Begin(SectorCall(mode, write, size, unit))
    /\ UNCHANGED <<hardware, drives, selected, drive_info, boot, found, misled>>

(* The six sector functions. The test is left at the first operand that is     *)
(* true, before the remainder is taken.                                        *)
Checked(mode, write, unit, null, size) ==
    \/ (null \/ size = 0) /\ Refuse
    \/ ~(null \/ size = 0) /\ unit = 0 /\ Stop
    \/ /\ ~(null \/ size = 0) /\ unit # 0
       /\ IF size % unit # 0 THEN Refuse ELSE StartSectors(mode, write, size, unit)

read_sector_lba48(null, size) == Checked("lba48", FALSE, SECTOR_SIZE, null, size)

\* Without the line that does not compile.
write_sector_lba48(null, size) == Checked("lba48", TRUE, SECTOR_SIZE, null, size)

read_sector_lba28(null, size) ==
    Checked("lba28", FALSE, drive_info.sector_size, null, size)

write_sector_lba28(null, size) ==
    Checked("lba28", TRUE, drive_info.sector_size, null, size)

read_sector_chs(null, size) ==
    Checked("chs", FALSE, drive_info.sector_size, null, size)

\* It reports an invalid buffer and goes on: the remainder is not what decides.
write_sector_chs(size) ==
    IF drive_info.sector_size = 0 THEN Stop
    ELSE StartSectors("chs", TRUE, size, drive_info.sector_size)

\* heads_per_cylinder * sectors_per_track is zero: nothing ever fills them in.
read_sector(null, size) ==
    IF drive_info.lba_48 THEN read_sector_lba48(null, size)
    ELSE IF drive_info.lba_28 THEN read_sector_lba28(null, size)
    ELSE IF drive_info.chs THEN Stop ELSE Refuse

write_sector(null, size) ==
    IF drive_info.lba_48 THEN write_sector_lba48(null, size)
    ELSE IF drive_info.lba_28 THEN write_sector_lba28(null, size)
    ELSE IF drive_info.chs THEN Stop ELSE Refuse

\* check_ata_controller, up to the first drive, and what main does after it.
Survey ==
    /\ pc = "main" /\ boot <= 5
    /\ identify_drive(boot \in {2, 4}, boot \in {3, 4})
    /\ UNCHANGED calls

BootRead ==
    /\ pc = "main" /\ boot = 6
    /\ read_sector_chs(FALSE, BootSize)
    /\ UNCHANGED calls

LaterCall ==
    /\ pc = "main" /\ boot = 7 /\ calls < MaxCalls
    /\ calls' = calls + 1

LaterIdentify ==
    /\ LaterCall
    /\ \E slave, secondary \in BOOLEAN : identify_drive(slave, secondary)

LaterSectors ==
    /\ LaterCall
    /\ \E null \in BOOLEAN, size \in Sizes :
         \/ read_sector(null, size)       \/ write_sector(null, size)
         \/ read_sector_lba48(null, size) \/ write_sector_lba48(null, size)
         \/ read_sector_lba28(null, size) \/ write_sector_lba28(null, size)
         \/ read_sector_chs(null, size)   \/ write_sector_chs(size)

Driver == \/ select_drive \/ StartRound \/ WriteRegister \/ wait_for_ready
          \/ TransferWord \/ EndRound \/ IdentifyReturn \/ SectorReturn

\* A drive comes to the end of what it was busy with.
DriveWorks(p) ==
    /\ drives[p].state = "busy"
    /\ \E d \in AfterWork(drives[p]) : drives' = [drives EXCEPT ![p] = d]
    /\ UNCHANGED <<hardware, selected, program>>

Init ==
    /\ machine \in Machines
    /\ floats \in [Channels -> BOOLEAN] /\ \A c \in Channels : floats[c] => Empty(c)
    /\ drives = [p \in Positions |-> Idle]
    /\ selected = [c \in Channels |-> "master"]
    /\ pc = "main" /\ call = IdentifyCall(FALSE, FALSE) /\ pending = << >>
    /\ done = 0 /\ moved = 0 /\ got = << >>
    /\ drive_info = NoDrive
    /\ boot = 1 /\ found = FALSE /\ calls = 0 /\ misled = FALSE

Next == \/ Survey \/ BootRead \/ LaterIdentify \/ LaterSectors \/ Driver
        \/ \E p \in Positions : DriveWorks(p)

Fairness == /\ WF_vars(Driver)
            /\ \A p \in Positions : WF_vars(DriveWorks(p))

Spec == Init /\ [][Next]_vars /\ Fairness

-------------------------------------------------------------------------------
TypeOK ==
    /\ machine \in [Positions -> Device(Word106)]
    /\ floats \in [Channels -> BOOLEAN]
    /\ drives \in [Positions -> DriveStates]
    /\ selected \in [Channels -> Units]
    /\ pc \in {"main", "select", "round", "registers", "wait", "transfer", "stopped"}
    /\ call \in Calls
    /\ pending \in Seq(PortWrites)
    /\ done \in Nat /\ moved \in Nat /\ got \in Seq(Words)
    /\ drive_info \in [detected : BOOLEAN, chs : BOOLEAN, lba_28 : BOOLEAN,
                       lba_48 : BOOLEAN, sector_size : Word106 \cup {0}]
    /\ boot \in 1..7 /\ found \in BOOLEAN /\ calls \in 0..MaxCalls
    /\ misled \in BOOLEAN

IsDisk(p) == machine[p].type = "disk"

(* identify_drive finds a drive exactly where there is a disk, and the record  *)
(* it leaves is that disk's own: it was read after the disk had it ready, from *)
(* its first word on, and from no other drive of the channel.                  *)
Identified ==
    (pc = "main" /\ call.mode = "identify" /\ ~misled /\ boot > 1) =>
        LET p == <<call.channel, call.drive>>
        IN  drive_info = IF IsDisk(p) THEN InfoOf(machine[p]) ELSE NoDrive

(* check_ata_controller says yes exactly when one of the four positions has a  *)
(* disk, whatever answers in the place of those that have none.                *)
SurveyIsRight == boot >= 5 => (found <=> \E p \in Positions : IsDisk(p))

(* Between two calls no drive is at work or has words left to exchange: the    *)
(* next call starts with its own data. The 28-bit transfers break this for     *)
(* good (misled): what they send as a block number is taken as commands.       *)
InStep ==
    (pc = "main" /\ ~misled) => \A p \in Positions : drives[p] = Idle

(* A transfer touches no byte outside the buffer it was given, wherever that   *)
(* is: the rounds, the sector size taken from the drive and the words a round  *)
(* moves fit together, in write_sector_chs too, which uses an invalid size.    *)
StaysInBuffer ==
    (pc = "transfer" /\ moved < TransferWords) =>
        done * call.unit + 2 * (moved + 1) <= call.size

(* Every call returns, whatever is plugged in: wait_for_ready has no limit of  *)
(* its own, and ends on an empty channel that reads as all ones.               *)
CallsEnd == (pc \notin {"main", "stopped"}) ~> (pc = "main")

(* What kernel.c:71 says of a machine without a drive: it is reported, and the *)
(* boot goes on. (A drive elsewhere than on the primary master: the same.)     *)
BootGoesOn == ~found => pc # "stopped"
===============================================================================
