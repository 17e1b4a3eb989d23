------------------------------ MODULE Ata_proofs ------------------------------
(* Proofs about Ata, for every machine, sector size and sequence of calls: its *)
(* types, and that no transfer leaves its buffer.                              *)
EXTENDS Ata, SequenceTheorems, TLAPS

-------------------------------------------------------------------------------
(* Arithmetic.                                                                 *)
LEMMA HalfFits ==
  ASSUME NEW n \in Nat
  PROVE  /\ n \div 2 \in Nat /\ 2 * (n \div 2) <= n
         /\ (n \div 2) \div 2 \in Nat /\ 2 * ((n \div 2) \div 2) <= n
OBVIOUS

LEMMA RoundFits ==
  ASSUME NEW d \in Nat, NEW r \in Nat, NEW u \in Nat, d < r
  PROVE  d * u + u <= r * u
<1>1. PICK k \in Nat : r = d + 1 + k
  <2>1. r - d - 1 \in Nat /\ r = d + 1 + (r - d - 1)
    OBVIOUS
  <2> QED
    BY <2>1
<1>2. r * u = d * u + u + k * u
  BY <1>1
<1>3. k * u \in Nat /\ d * u \in Nat
  OBVIOUS
<1> QED
  BY <1>2, <1>3

LEMMA QuotientFits ==
  ASSUME NEW n \in Nat, NEW u \in Nat, u # 0
  PROVE  n \div u \in Nat /\ (n \div u) * u <= n
<1>1. n \div u \in Nat /\ n % u \in Nat
  OBVIOUS
<1>2. n = u * (n \div u) + (n % u)
  OBVIOUS
<1>3. (n \div u) * u = u * (n \div u) /\ u * (n \div u) \in Nat
  BY <1>1
<1> QED
  BY <1>1, <1>2, <1>3

LEMMA SectorWordsPositive == SectorWords \in Nat /\ SectorWords >= 1
BY DriveAssumption DEF SectorWords

-------------------------------------------------------------------------------
(* Drives. One that is not idle has words left to exchange.                    *)
Drive == {d \in DriveStates : d.state # "idle" => d.left >= 1}

Info == [detected : BOOLEAN, chs : BOOLEAN, lba_28 : BOOLEAN, lba_48 : BOOLEAN,
         sector_size : Word106 \cup {0}]

LEMMA IdleType == Idle \in Drive
BY DEF Idle, Drive, DriveStates, Exchanges

LEMMA BusyType ==
  ASSUME NEW what \in Exchanges, NEW n \in Nat, n >= 1
  PROVE  Busy(what, n) \in Drive
<1>1. n * SectorWords \in Nat
  BY SectorWordsPositive
<1>2. n * SectorWords >= 1
  <2>1. PICK k \in Nat : n = 1 + k
    <3>1. n - 1 \in Nat /\ n = 1 + (n - 1)
      OBVIOUS
    <3> QED
      BY <3>1
  <2>2. n * SectorWords = SectorWords + k * SectorWords
    BY <2>1, SectorWordsPositive
  <2>3. k * SectorWords \in Nat
    BY SectorWordsPositive
  <2> QED
    BY <2>2, <2>3, SectorWordsPositive
<1> QED
  BY <1>1, <1>2 DEF Busy, Drive, DriveStates

LEMMA AnswersType ==
  ASSUME NEW device, NEW command
  PROVE  Answers(device, command) \subseteq Drive
<1>1. Counts \subseteq {n \in Nat : n >= 1}
  BY DriveAssumption
<1>2. Busy("identify", 1) \in Drive
  BY BusyType DEF Exchanges
<1>3. \A n \in Counts : Busy("sector", n) \in Drive /\ Busy("store", n) \in Drive
  BY <1>1, BusyType DEF Exchanges
<1> QED
  BY <1>2, <1>3, IdleType DEF Answers

LEMMA AfterCommandType ==
  ASSUME NEW device, NEW command, NEW drive \in Drive
  PROVE  AfterCommand(device, drive, command) \subseteq Drive
BY AnswersType DEF AfterCommand

LEMMA AfterWordType ==
  ASSUME NEW drive \in Drive, drive.state = "data"
  PROVE  AfterWord(drive) \in Drive
<1>1. drive.left \in Nat /\ drive.left >= 1 /\ drive \in DriveStates
  BY DEF Drive, DriveStates
<1>2. CASE drive.left - 1 = 0
  BY <1>2, IdleType DEF AfterWord
<1>3. CASE drive.left - 1 # 0
  <2>1. drive.left - 1 \in Nat /\ drive.left - 1 >= 1
    BY <1>1, <1>3
  <2> DEFINE busy == IF (drive.left - 1) % SectorWords = 0 THEN "busy" ELSE "data"
  <2>2. busy \in {"busy", "data"}
    OBVIOUS
  <2>3. AfterWord(drive) = [drive EXCEPT !.left = drive.left - 1, !.state = busy]
    BY <1>3 DEF AfterWord
  <2> HIDE DEF busy
  <2> QED
    BY <1>1, <2>1, <2>2, <2>3 DEF Drive, DriveStates
<1> QED
  BY <1>2, <1>3

LEMMA AfterWorkType ==
  ASSUME NEW drive \in Drive, drive.state = "busy"
  PROVE  AfterWork(drive) \subseteq Drive
<1>1. [drive EXCEPT !.state = "data"] \in Drive
  BY DEF Drive, DriveStates
<1> QED
  BY <1>1, IdleType DEF AfterWork

-------------------------------------------------------------------------------
(* Types, and what a transfer has left of its buffer.                          *)
HardwareOK ==
    /\ machine \in [Positions -> Device(Word106)]
    /\ floats \in [Channels -> BOOLEAN]
    /\ drives \in [Positions -> Drive]
    /\ selected \in [Channels -> Units]

CallOK ==
    /\ call \in Calls
    /\ pending \in Seq(PortWrites)
    /\ pc = "registers" => pending # << >>
    /\ done \in Nat /\ moved \in Nat /\ got \in Seq(Words)

MainOK ==
    /\ pc \in {"main", "select", "round", "registers", "wait", "transfer", "stopped"}
    /\ drive_info \in Info
    /\ boot \in 1..7 /\ found \in BOOLEAN /\ calls \in 0..MaxCalls
    /\ misled \in BOOLEAN

\* The rounds fit the size, and one under way is one of them.
BufferOK ==
    /\ call.rounds * call.unit <= call.size
    /\ pc \in {"registers", "wait", "transfer"} => done < call.rounds

Typed == HardwareOK /\ CallOK /\ MainOK /\ BufferOK

LEMMA TypedIsTypeOK == ASSUME Typed PROVE TypeOK
<1>1. drives \in [Positions -> DriveStates]
  BY DEF Typed, HardwareOK, Drive
<1> QED
  BY <1>1 DEF Typed, HardwareOK, CallOK, MainOK, TypeOK, Info

LEMMA HereType ==
  ASSUME HardwareOK, NEW channel \in Channels
  PROVE  Here(channel) \in Positions
BY DEF HardwareOK, Here, Positions

LEMMA TransferType ==
  ASSUME CallOK
  PROVE  TransferWords \in Nat /\ 2 * TransferWords <= call.unit /\ call.unit \in Nat
<1>1. call.unit \in Nat
  BY DEF CallOK, Calls
<1> QED
  BY <1>1, HalfFits DEF TransferWords

LEMMA OutbType ==
  ASSUME HardwareOK, NEW channel \in Channels, NEW register,
         register.offset = 6 => register.value \in Units,
         outb(channel, register)
  PROVE  drives' \in [Positions -> Drive] /\ selected' \in [Channels -> Units]
<1>1. CASE register.offset = 6
  BY <1>1 DEF outb, HardwareOK
<1>2. CASE register.offset = 7
  <2>1. PICK d \in AfterCommand(machine[Here(channel)], drives[Here(channel)],
                                register.value) :
          drives' = [drives EXCEPT ![Here(channel)] = d]
    BY <1>2 DEF outb
  <2>2. d \in Drive
    BY <2>1, HereType, AfterCommandType DEF HardwareOK
  <2> QED
    BY <1>2, <2>1, <2>2 DEF outb, HardwareOK
<1>3. CASE register.offset # 6 /\ register.offset # 7
  BY <1>3 DEF outb, HardwareOK
<1> QED
  BY <1>1, <1>2, <1>3

\* Reading a word: one less to give, and one more read if it is looked at.
LEMMA InswType ==
  ASSUME HardwareOK, got \in Seq(Words), NEW channel \in Channels, insw(channel)
  PROVE  drives' \in [Positions -> Drive] /\ got' \in Seq(Words)
<1>1. \A w \in Words : Keep(w) => got' \in Seq(Words)
  BY DEF Keep
<1> DEFINE drive == drives[Here(channel)]
<1>2. drive \in Drive /\ Here(channel) \in Positions
  BY HereType DEF HardwareOK
<1>3. CASE drive.state = "data" /\ drive.what \in {"identify", "sector"}
  <2>1. AfterWord(drive) \in Drive
    BY <1>2, <1>3, AfterWordType
  <2>2. Keep(drive.what) /\ drives' = [drives EXCEPT ![Here(channel)] = AfterWord(drive)]
    BY <1>3 DEF insw
  <2>3. drive.what \in Words
    BY <1>3 DEF Words
  <2> HIDE DEF drive
  <2> QED
    BY <1>1, <1>2, <2>1, <2>2, <2>3 DEF HardwareOK
<1>4. CASE ~(drive.state = "data" /\ drive.what \in {"identify", "sector"})
  <2>1. NoData(channel) \subseteq Words
    BY DriveAssumption DEF NoData, Words
  <2> QED
    BY <1>1, <1>4, <2>1 DEF insw, HardwareOK
<1> QED
  BY <1>3, <1>4

LEMMA OutswType ==
  ASSUME HardwareOK, NEW channel \in Channels, outsw(channel)
  PROVE  drives' \in [Positions -> Drive] /\ got' = got
<1> DEFINE drive == drives[Here(channel)]
<1>1. drive \in Drive /\ Here(channel) \in Positions
  BY HereType DEF HardwareOK
<1>2. drive.state = "data" => AfterWord(drive) \in Drive
  BY <1>1, AfterWordType
<1> QED
  BY <1>1, <1>2 DEF outsw, HardwareOK

LEMMA RegistersType ==
  ASSUME CallOK, NEW block \in Blocks
  PROVE  RoundRegisters(block) \in Seq(PortWrites) /\ RoundRegisters(block) # << >>
<1> DEFINE command == IF call.write THEN "write" ELSE "read"
<1>1. command \in Commands
  BY DEF Commands
<1>2. \A o \in 7..14, v \in Commands : Register(o, v) \in PortWrites
  BY DEF Register, PortWrites
<1>3. \A k \in 1..7 : Past(k) \in PortWrites
  BY <1>2 DEF Past, command_port, Commands
<1> HIDE DEF command
<1>4. Register(CommandOffset, command) \in PortWrites /\ Register(command_port, command) \in PortWrites
  BY <1>1, <1>2 DEF CommandOffset, command_port
<1>5. CASE call.mode = "identify"
  <2>1. Register(command_port, "identify") \in PortWrites
    BY <1>2 DEF command_port, Commands
  <2> QED
    BY <1>5, <2>1 DEF RoundRegisters
<1>6. CASE call.mode = "lba28"
  <2> DEFINE n == IF call.rounds > 1 THEN 4 ELSE 3
             bytes == [k \in 1..n |-> Register(command_port, block[k])]
  <2>1. n \in Nat /\ 1..n \subseteq 1..4
    OBVIOUS
  <2>2. block \in [1..4 -> Commands]
    BY AtaAssumption
  <2>3. \A k \in 1..4 : Register(command_port, block[k]) \in PortWrites
    BY <1>2, <2>2 DEF command_port
  <2>4. bytes \in Seq(PortWrites)
    BY <2>1, <2>3
  <2>5. RoundRegisters(block) = << Register(command_port, command) >> \o bytes
    BY <1>6 DEF RoundRegisters, write_command, command
  <2> HIDE DEF bytes
  <2>6. << Register(command_port, command) >> \in Seq(PortWrites)
    BY <1>4
  <2> QED
    BY <2>4, <2>5, <2>6
<1>7. CASE call.mode = "lba48"
  <2>1. RoundRegisters(block) = lba48_registers(command)
    BY <1>7 DEF RoundRegisters, command
  <2> QED
    BY <1>3, <1>4, <2>1 DEF lba48_registers
<1>8. CASE call.mode = "chs"
  <2>1. RoundRegisters(block) = chs_registers(command)
    BY <1>8 DEF RoundRegisters, command
  <2> QED
    BY <1>3, <1>4, <2>1 DEF chs_registers
<1>9. call.mode \in {"identify", "chs", "lba28", "lba48"}
  BY DEF CallOK, Calls, Modes
<1> QED
  BY <1>5, <1>6, <1>7, <1>8, <1>9

LEMMA InfoType ==
  ASSUME NEW device \in Device(Word106)
  PROVE  InfoOf(device) \in Info
BY DEF Device, InfoOf, Info

LEMMA NoDriveType == NoDrive \in Info
BY DEF NoDrive, Info

LEMMA RecordsType ==
  ASSUME HardwareOK, CallOK
  PROVE  Records \subseteq Info
<1>1. machine[Here(call.channel)] \in Device(Word106)
  BY HereType DEF HardwareOK, CallOK, Calls
<1> QED
  BY <1>1, InfoType, NoDriveType DEF Records

-------------------------------------------------------------------------------
(* What the eight sector functions come down to.                               *)
Transfers == {"chs", "lba28", "lba48"}

Sectors ==
    \/ Refuse \/ Stop
    \/ \E mode \in Transfers, write \in BOOLEAN, size \in Nat, unit \in Nat \ {0} :
         StartSectors(mode, write, size, unit)

LEMMA CheckedCases ==
  ASSUME NEW mode \in Transfers, NEW write \in BOOLEAN, NEW unit \in Nat,
         NEW null \in BOOLEAN, NEW size \in Nat, Checked(mode, write, unit, null, size)
  PROVE  Sectors
<1>1. CASE (null \/ size = 0) /\ Refuse
  BY <1>1 DEF Sectors
<1>2. CASE Stop
  BY <1>2 DEF Sectors
<1>3. CASE unit # 0 /\ (IF size % unit # 0 THEN Refuse
                        ELSE StartSectors(mode, write, size, unit))
  <2>1. CASE Refuse
    BY <2>1 DEF Sectors
  <2>2. CASE StartSectors(mode, write, size, unit)
    <3>1. unit \in Nat \ {0}
      BY <1>3
    <3> QED
      BY <2>2, <3>1, Zenon DEF Sectors
  <2> QED
    BY <1>3, <2>1, <2>2
<1> QED
  BY <1>1, <1>2, <1>3 DEF Checked

LEMMA InfoSize == ASSUME Typed PROVE drive_info.sector_size \in Nat
<1>1. drive_info \in Info
  BY DEF Typed, MainOK
<1>2. drive_info.sector_size \in Word106 \cup {0}
  BY <1>1 DEF Info
<1>3. Word106 \cup {0} \subseteq Nat
  <2>1. Word106 \subseteq Nat
    BY AtaAssumption, Zenon
  <2> QED
    BY <2>1
<1> QED
  BY <1>2, <1>3, Zenon

LEMMA FunctionCases ==
  ASSUME Typed, NEW null \in BOOLEAN, NEW size \in Nat,
         \/ read_sector(null, size)       \/ write_sector(null, size)
         \/ read_sector_lba48(null, size) \/ write_sector_lba48(null, size)
         \/ read_sector_lba28(null, size) \/ write_sector_lba28(null, size)
         \/ read_sector_chs(null, size)   \/ write_sector_chs(size)
  PROVE  Sectors
<1>1. SECTOR_SIZE \in Nat /\ drive_info.sector_size \in Nat
  BY DriveAssumption, InfoSize
<1>2. {"chs", "lba28", "lba48"} = Transfers
  BY DEF Transfers
<1>3. read_sector_lba48(null, size) => Sectors
  BY <1>1, <1>2, CheckedCases DEF read_sector_lba48
<1>4. write_sector_lba48(null, size) => Sectors
  BY <1>1, <1>2, CheckedCases DEF write_sector_lba48
<1>5. read_sector_lba28(null, size) => Sectors
  BY <1>1, <1>2, CheckedCases DEF read_sector_lba28
<1>6. write_sector_lba28(null, size) => Sectors
  BY <1>1, <1>2, CheckedCases DEF write_sector_lba28
<1>7. read_sector_chs(null, size) => Sectors
  BY <1>1, <1>2, CheckedCases DEF read_sector_chs
<1>8. write_sector_chs(size) => Sectors
  <2>1. CASE drive_info.sector_size = 0
    BY <2>1 DEF write_sector_chs, Sectors
  <2>2. CASE drive_info.sector_size # 0
    <3>1. drive_info.sector_size \in Nat \ {0} /\ "chs" \in Transfers
      BY <1>1, <2>2 DEF Transfers
    <3> QED
      BY <2>2, <3>1, Zenon DEF write_sector_chs, Sectors
  <2> QED
    BY <2>1, <2>2
<1>9. Stop \/ Refuse => Sectors
  BY DEF Sectors
<1>10. read_sector(null, size) => Sectors
  BY <1>3, <1>5, <1>9 DEF read_sector
<1>11. write_sector(null, size) => Sectors
  BY <1>4, <1>6, <1>9 DEF write_sector
<1> QED
  BY <1>3, <1>4, <1>5, <1>6, <1>7, <1>8, <1>10, <1>11

LEMMA SectorCases ==
  ASSUME Typed, BootRead \/ LaterSectors
  PROVE  pc = "main" /\ Sectors /\ calls' \in 0..MaxCalls
<1>1. calls \in 0..MaxCalls /\ MaxCalls \in Nat /\ BootSize \in Nat /\ Sizes \subseteq Nat
  BY AtaAssumption DEF Typed, MainOK
<1>2. CASE BootRead
  BY <1>1, <1>2, FunctionCases DEF BootRead
<1>3. CASE LaterSectors
  <2>1. pc = "main" /\ calls' = calls + 1 /\ calls < MaxCalls
    BY <1>3 DEF LaterSectors, LaterCall
  <2>2. Sectors
    BY <1>1, <1>3, FunctionCases DEF LaterSectors
  <2> QED
    BY <1>1, <2>1, <2>2
<1> QED
  BY <1>2, <1>3

-------------------------------------------------------------------------------
(* The steps.                                                                  *)
LEMMA IdentifyCallType ==
  ASSUME NEW slave \in BOOLEAN, NEW secondary \in BOOLEAN
  PROVE  LET c == IdentifyCall(slave, secondary)
         IN  c \in Calls /\ c.rounds * c.unit <= c.size
BY DriveAssumption DEF IdentifyCall, Calls, Modes, Channels, Units

LEMMA SectorCallType ==
  ASSUME NEW mode \in Transfers, NEW write \in BOOLEAN, NEW size \in Nat,
         NEW unit \in Nat \ {0}
  PROVE  LET c == SectorCall(mode, write, size, unit)
         IN  c \in Calls /\ c.rounds * c.unit <= c.size
<1>1. size \div unit \in Nat /\ (size \div unit) * unit <= size
  BY QuotientFits
<1>2. mode \in Modes
  BY DEF Transfers, Modes
<1> HIDE DEF Transfers
<1> QED
  BY <1>1, <1>2 DEF SectorCall, Calls, Channels, Units

LEMMA BeginType ==
  ASSUME NEW c \in Calls, c.rounds * c.unit <= c.size, Begin(c)
  PROVE  CallOK' /\ BufferOK' /\ pc' = "select"
BY DEF Begin, CallOK, BufferOK

LEMMA ResumeType ==
  ASSUME MainOK, NEW info \in Info, Resume(info)
  PROVE  pc' = "main" /\ boot' \in 1..7 /\ found' \in BOOLEAN
<1>1. boot' \in 1..7 /\ pc' = "main"
  BY DEF MainOK, Resume
<1>2. found' \in BOOLEAN
  <2>1. info.detected \in BOOLEAN /\ found \in BOOLEAN
    BY DEF MainOK, Info
  <2>2. found' = info.detected \/ found' = found
    BY Zenon DEF Resume
  <2> QED
    BY <2>1, <2>2
<1> QED
  BY <1>1, <1>2

LEMMA InitTyped == Init => Typed
<1> SUFFICES ASSUME Init PROVE Typed
  OBVIOUS
<1>1. machine \in [Positions -> Device(Word106)] /\ 0 \in 0..MaxCalls
  BY AtaAssumption DEF Init
<1>2. HardwareOK
  BY <1>1, IdleType DEF Init, HardwareOK, Channels, Units
<1>3. call \in Calls /\ call.rounds * call.unit <= call.size
  BY IdentifyCallType DEF Init
<1>4. CallOK
  <2>1. pc = "main" /\ pending = << >> /\ done = 0 /\ moved = 0 /\ got = << >>
    BY DEF Init
  <2>2. << >> \in Seq(PortWrites) /\ << >> \in Seq(Words)
    OBVIOUS
  <2> QED
    BY <1>3, <2>1, <2>2 DEF CallOK
<1>5. MainOK
  <2>1. pc = "main" /\ drive_info = NoDrive /\ boot = 1 /\ calls = 0
    BY DEF Init
  <2>2. found \in BOOLEAN /\ misled \in BOOLEAN
    BY Zenon DEF Init
  <2>3. boot \in 1..7 /\ drive_info \in Info
    BY <2>1, NoDriveType
  <2> QED
    BY <1>1, <2>1, <2>2, <2>3 DEF MainOK
<1>6. BufferOK
  BY <1>3 DEF Init, BufferOK
<1> QED
  BY <1>2, <1>4, <1>5, <1>6 DEF Typed

LEMMA IdentifyTyped ==
  ASSUME Typed, Survey \/ LaterIdentify
  PROVE  Typed'
<1>1. PICK slave \in BOOLEAN, secondary \in BOOLEAN : identify_drive(slave, secondary)
  <2>1. CASE Survey
    <3>1. identify_drive(boot \in {2, 4}, boot \in {3, 4})
      BY <2>1 DEF Survey
    <3>2. (boot \in {2, 4}) \in BOOLEAN /\ (boot \in {3, 4}) \in BOOLEAN
      OBVIOUS
    <3> QED
      BY <3>1, <3>2, Zenon
  <2>2. CASE LaterIdentify
    BY <2>2, Zenon DEF LaterIdentify
  <2> QED
    BY <2>1, <2>2
<1>2. CallOK' /\ BufferOK' /\ pc' = "select"
  BY <1>1, IdentifyCallType, BeginType DEF identify_drive
<1>3. HardwareOK'
  BY <1>1 DEF identify_drive, hardware, Typed, HardwareOK
<1>4. calls' \in 0..MaxCalls
  BY AtaAssumption DEF Survey, LaterIdentify, LaterCall, Typed, MainOK
<1>5. MainOK'
  BY <1>1, <1>2, <1>4, NoDriveType DEF identify_drive, Typed, MainOK
<1> QED
  BY <1>2, <1>3, <1>5 DEF Typed

LEMMA SectorsTyped ==
  ASSUME Typed, BootRead \/ LaterSectors
  PROVE  Typed'
<1>1. Sectors /\ calls' \in 0..MaxCalls /\ pc = "main"
  BY SectorCases
<1>2. CASE Refuse
  <2>1. pc' = "main" /\ boot' \in 1..7 /\ found' \in BOOLEAN
    BY <1>2, ResumeType DEF Refuse, Typed, MainOK
  <2> QED
    BY <1>1, <1>2, <2>1 DEF Refuse, hardware, Typed, HardwareOK, CallOK, MainOK, BufferOK
<1>3. CASE Stop
  BY <1>1, <1>3 DEF Stop, hardware, Typed, HardwareOK, CallOK, MainOK, BufferOK
<1>4. ASSUME NEW mode \in Transfers, NEW write \in BOOLEAN, NEW size \in Nat,
             NEW unit \in Nat \ {0}, StartSectors(mode, write, size, unit)
      PROVE  Typed'
  <2>1. CallOK' /\ BufferOK' /\ pc' = "select"
    BY <1>4, SectorCallType, BeginType DEF StartSectors
  <2>2. HardwareOK'
    BY <1>4 DEF StartSectors, hardware, Typed, HardwareOK
  <2>3. MainOK'
    BY <1>1, <1>4, <2>1 DEF StartSectors, Typed, MainOK
  <2> QED
    BY <2>1, <2>2, <2>3 DEF Typed
<1> QED
  BY <1>1, <1>2, <1>3, <1>4 DEF Sectors

LEMMA CallFacts ==
  ASSUME Typed
  PROVE  /\ call.channel \in Channels /\ call.drive \in Units
         /\ call.rounds \in Nat /\ call.mode \in Modes
BY DEF Typed, CallOK, Calls

LEMMA SelectTyped == ASSUME Typed, select_drive PROVE Typed'
<1> DEFINE r == Register(6, call.drive)
<1>1. r.offset = 6 /\ r.value \in Units /\ outb(call.channel, r)
  BY CallFacts DEF select_drive, Register
<1>2. drives' \in [Positions -> Drive] /\ selected' \in [Channels -> Units]
  <2> HIDE DEF r
  <2> QED
    BY <1>1, CallFacts, OutbType DEF Typed
<1> QED
  BY <1>2 DEF select_drive, hardware, Typed, HardwareOK, CallOK, MainOK, BufferOK

LEMMA StartRoundTyped == ASSUME Typed, StartRound PROVE Typed'
<1>1. pending' \in Seq(PortWrites) /\ pending' # << >>
  BY RegistersType DEF StartRound, Typed
<1>2. HardwareOK' /\ BufferOK'
  BY DEF StartRound, hardware, Typed, HardwareOK, BufferOK
<1>3. CallOK'
  BY <1>1 DEF StartRound, Typed, CallOK
<1>4. misled' \in BOOLEAN
  BY Zenon DEF StartRound, Typed, MainOK
<1>5. MainOK'
  BY <1>4 DEF StartRound, Typed, MainOK
<1> QED
  BY <1>2, <1>3, <1>5 DEF Typed

LEMMA WriteRegisterTyped == ASSUME Typed, WriteRegister PROVE Typed'
<1>1. /\ pending \in Seq(PortWrites) /\ pending # << >>
      /\ outb(call.channel, Head(pending)) /\ pending' = Tail(pending)
      /\ pc = "registers" /\ pc' \in {"wait", "registers"}
      /\ pc' = "registers" => Len(pending) # 1
  BY DEF WriteRegister, Typed, CallOK
<1>2. Head(pending) \in PortWrites /\ pending' \in Seq(PortWrites)
  BY <1>1
<1>3. pc' = "registers" => pending' # << >>
  <2>1. Len(pending) \in Nat /\ Len(pending) # 0
    BY <1>1, EmptySeq
  <2>2. pc' = "registers" => Len(pending') # 0
    BY <1>1, <2>1
  <2> QED
    BY <2>2
<1>4. Head(pending).offset # 6
  BY <1>2 DEF PortWrites
<1>5. drives' \in [Positions -> Drive] /\ selected' \in [Channels -> Units]
  BY <1>1, <1>4, CallFacts, OutbType DEF Typed
<1>6. HardwareOK'
  BY <1>5 DEF WriteRegister, hardware, Typed, HardwareOK
<1>7. CallOK'
  BY <1>2, <1>3 DEF WriteRegister, Typed, CallOK
<1>8. MainOK' /\ BufferOK'
  BY <1>1 DEF WriteRegister, Typed, MainOK, BufferOK
<1> QED
  BY <1>6, <1>7, <1>8 DEF Typed

LEMMA WaitTyped == ASSUME Typed, wait_for_ready PROVE Typed'
BY DEF wait_for_ready, hardware, Typed, HardwareOK, CallOK, MainOK, BufferOK

LEMMA TransferWordTyped == ASSUME Typed, TransferWord PROVE Typed'
<1>1. drives' \in [Positions -> Drive] /\ got' \in Seq(Words)
  <2>1. outsw(call.channel) \/ insw(call.channel)
    BY Zenon DEF TransferWord
  <2>2. got \in Seq(Words) /\ HardwareOK
    BY DEF Typed, CallOK
  <2>3. CASE outsw(call.channel)
    BY <2>2, <2>3, CallFacts, OutswType
  <2>4. CASE insw(call.channel)
    BY <2>2, <2>4, CallFacts, InswType
  <2> QED
    BY <2>1, <2>3, <2>4
<1>2. HardwareOK'
  BY <1>1 DEF TransferWord, hardware, Typed, HardwareOK
<1>3. CallOK'
  BY <1>1 DEF TransferWord, Typed, CallOK
<1>4. MainOK' /\ BufferOK'
  BY DEF TransferWord, Typed, MainOK, BufferOK
<1> QED
  BY <1>2, <1>3, <1>4 DEF Typed

LEMMA EndRoundTyped == ASSUME Typed, EndRound PROVE Typed'
BY DEF EndRound, hardware, Typed, HardwareOK, CallOK, MainOK, BufferOK

LEMMA IdentifyReturnTyped == ASSUME Typed, IdentifyReturn PROVE Typed'
<1>1. PICK info \in Info : drive_info' = info /\ Resume(info)
  BY RecordsType DEF IdentifyReturn, Typed
<1>2. pc' = "main" /\ boot' \in 1..7 /\ found' \in BOOLEAN
  BY <1>1, ResumeType DEF Typed
<1>3. HardwareOK' /\ BufferOK'
  BY <1>2 DEF IdentifyReturn, hardware, Typed, HardwareOK, BufferOK
<1>4. CallOK'
  BY <1>2 DEF IdentifyReturn, Typed, CallOK
<1>5. MainOK'
  BY <1>1, <1>2 DEF IdentifyReturn, Typed, MainOK
<1> QED
  BY <1>3, <1>4, <1>5 DEF Typed

LEMMA SectorReturnTyped == ASSUME Typed, SectorReturn PROVE Typed'
<1>1. pc' = "main" /\ boot' \in 1..7 /\ found' \in BOOLEAN
  BY ResumeType DEF SectorReturn, Typed, MainOK
<1> QED
  BY <1>1 DEF SectorReturn, hardware, Typed, HardwareOK, CallOK, MainOK, BufferOK

LEMMA DriveWorksTyped == ASSUME Typed, NEW p \in Positions, DriveWorks(p) PROVE Typed'
<1>1. PICK d \in AfterWork(drives[p]) : drives' = [drives EXCEPT ![p] = d]
  BY DEF DriveWorks
<1>2. d \in Drive
  BY <1>1, AfterWorkType DEF DriveWorks, Typed, HardwareOK
<1> QED
  BY <1>1, <1>2 DEF DriveWorks, hardware, program, Typed, HardwareOK, CallOK,
                    MainOK, BufferOK

LEMMA NextTyped == Typed /\ [Next]_vars => Typed'
<1> SUFFICES ASSUME Typed, [Next]_vars PROVE Typed'
  OBVIOUS
<1>1. CASE UNCHANGED vars
  BY <1>1 DEF vars, hardware, program, Typed, HardwareOK, CallOK, MainOK, BufferOK
<1>2. CASE Driver
  BY <1>2, SelectTyped, StartRoundTyped, WriteRegisterTyped, WaitTyped,
     TransferWordTyped, EndRoundTyped, IdentifyReturnTyped, SectorReturnTyped
     DEF Driver
<1> QED
  BY <1>1, <1>2, IdentifyTyped, SectorsTyped, DriveWorksTyped DEF Next

(* Every variable keeps its type, on every machine, for every sequence of      *)
(* calls: no record read is of something a drive could not have answered.      *)
THEOREM TypeCorrect == Spec => []TypeOK
<1>1. Init => Typed
  BY InitTyped
<1>2. Typed /\ [Next]_vars => Typed'
  BY NextTyped
<1>3. Typed => TypeOK
  BY TypedIsTypeOK
<1> QED
  BY <1>1, <1>2, <1>3, PTL DEF Spec

(* A word of a transfer is a word of the buffer, whatever sector size the      *)
(* drive reported and whatever size the caller gave.                           *)
LEMMA TypedStaysInBuffer == ASSUME Typed PROVE StaysInBuffer
<1> SUFFICES ASSUME pc = "transfer", moved < TransferWords
             PROVE  done * call.unit + 2 * (moved + 1) <= call.size
  BY DEF StaysInBuffer
<1>1. /\ done \in Nat /\ moved \in Nat /\ call.rounds \in Nat /\ call.size \in Nat
      /\ call.unit \in Nat
  BY DEF Typed, CallOK, Calls
<1>2. done < call.rounds /\ call.rounds * call.unit <= call.size
  BY DEF Typed, BufferOK
<1>3. TransferWords \in Nat /\ 2 * TransferWords <= call.unit
  BY TransferType DEF Typed
<1>4. 2 * (moved + 1) <= call.unit
  BY <1>1, <1>3
<1>5. done * call.unit + call.unit <= call.rounds * call.unit
  BY <1>1, <1>2, RoundFits
<1>6. done * call.unit \in Nat /\ call.rounds * call.unit \in Nat
  BY <1>1
<1> QED
  BY <1>1, <1>2, <1>4, <1>5, <1>6

\* Whatever sizes a caller of ata.h asks for, no transfer leaves its buffer.
THEOREM TransfersStayInBuffer == Spec => []StaysInBuffer
<1>1. Init => Typed
  BY InitTyped
<1>2. Typed /\ [Next]_vars => Typed'
  BY NextTyped
<1>3. Typed => StaysInBuffer
  BY TypedStaysInBuffer
<1> QED
  BY <1>1, <1>2, <1>3, PTL DEF Spec

-------------------------------------------------------------------------------
(* The driver and its drives in step. While no block number has been sent as   *)
(* commands, a drive is at work only between an IDENTIFY and its last word,    *)
(* and then it is the one the call is for.                                     *)
Place == <<call.channel, call.drive>>

AllIdle == \A p \in Positions : drives[p] = Idle

\* What the words read of the place of a call can be.
Voice == IF IsDisk(Place) THEN {"identify"} ELSE {"zero", "ones"}

Heard == \A k \in 1..Len(got) : got[k] \in Voice

Working(state, left) == [state |-> state, what |-> "identify", left |-> left]

Answering ==
    /\ \A p \in Positions : p # Place => drives[p] = Idle
    /\ Len(got) = moved /\ moved <= SectorWords /\ Heard
    /\ (~IsDisk(Place) \/ moved = SectorWords) => drives[Place] = Idle
    /\ (IsDisk(Place) /\ moved # SectorWords) =>
           \/ drives[Place] = Working("data", SectorWords - moved)
           \/ pc = "wait" /\ drives[Place] = Working("busy", SectorWords - moved)

Shape ==
    /\ call.mode = "identify" =>
           ~call.write /\ call.rounds = 1 /\ call.unit = SECTOR_SIZE
    /\ (call.mode = "lba28" /\ pc \in {"registers", "wait", "transfer"}) => misled

Quiet ==
    (pc \in {"main", "select", "round", "registers", "stopped"}
     \/ call.mode # "identify") => AllIdle

Chosen ==
    pc \in {"round", "registers", "wait", "transfer"} =>
        selected[call.channel] = call.drive

Queued ==
    pc = "registers" =>
        IF call.mode = "identify"
        THEN pending = << Register(command_port, "identify") >>
        ELSE \A k \in 1..Len(pending) : pending[k].offset > 7

Asked ==
    /\ pc = "select" => done = 0
    /\ (call.mode = "identify" /\ (pc \in {"select", "registers", "wait"}
                                   \/ (pc = "round" /\ done = 0))) => got = << >>
    /\ pc \in {"registers", "wait"} => moved = 0
    /\ (call.mode = "identify" /\ pc \in {"wait", "transfer"}) => Answering

Answered ==
    (call.mode = "identify" /\ pc = "round" /\ done # 0) =>
        Len(got) = SectorWords /\ Heard

Step == Quiet /\ Chosen /\ Queued /\ Asked /\ Answered /\ Identified

Together == Shape /\ (~misled => Step)

LEMMA AnswerToIdentify ==
  ASSUME NEW device, NEW d \in AfterCommand(device, Idle, "identify")
  PROVE  d = IF device.type = "disk" THEN Working("busy", SectorWords) ELSE Idle
<1>1. Busy("identify", 1) = Working("busy", SectorWords)
  BY SectorWordsPositive DEF Busy, Working
<1>2. Idle.state = "idle"
  BY DEF Idle
<1> QED
  BY <1>1, <1>2 DEF AfterCommand, Answers

LEMMA WordOfIdentify ==
  ASSUME NEW left \in Nat, left >= 1, left <= SectorWords
  PROVE  AfterWord(Working("data", left)) =
             IF left = 1 THEN Idle ELSE Working("data", left - 1)
<1> DEFINE drive == Working("data", left)
<1>1. drive.left = left /\ drive.what = "identify" /\ drive.state = "data"
  BY DEF Working
<1>2. CASE left = 1
  BY <1>1, <1>2 DEF AfterWord
<1>3. CASE left # 1
  <2>1. left - 1 \in Nat /\ left - 1 >= 1 /\ left - 1 < SectorWords
    BY <1>3, SectorWordsPositive
  <2>2. (left - 1) % SectorWords = left - 1
    BY <2>1, SectorWordsPositive
  <2>3. left - 1 # 0 /\ (left - 1) % SectorWords # 0
    BY <2>1, <2>2
  <2>4. drive.left - 1 # 0 /\ (drive.left - 1) % SectorWords # 0
    BY <1>1, <2>3
  <2>5. AfterWord(drive) = [drive EXCEPT !.left = drive.left - 1, !.state = "data"]
    BY <2>4, Zenon DEF AfterWord
  <2> QED
    BY <1>1, <1>3, <2>5 DEF Working
<1> QED
  BY <1>2, <1>3

LEMMA WordsAppended ==
  ASSUME NEW s \in Seq(Words), NEW S, NEW w \in S, \A k \in 1..Len(s) : s[k] \in S
  PROVE  /\ Len(Append(s, w)) = Len(s) + 1
         /\ \A k \in 1..Len(Append(s, w)) : Append(s, w)[k] \in S
OBVIOUS

LEMMA DiskChannel ==
  ASSUME Typed, IsDisk(Place)
  PROVE  ~Empty(call.channel) /\ Place \in Positions
<1>1. machine[Place].type = "disk" /\ call.drive \in Units /\ call.channel \in Channels
  BY CallFacts DEF IsDisk
<1>2. machine[Place].type # "none"
  BY <1>1
<1> QED
  BY <1>1, <1>2 DEF Empty, Place, Positions

LEMMA PlaceType == ASSUME Typed PROVE Place \in Positions
BY CallFacts DEF Place, Positions

LEMMA IdentifyWords ==
  ASSUME Shape, call.mode = "identify"
  PROVE  TransferWords = SectorWords /\ ~call.write /\ call.rounds = 1
BY DEF Shape, TransferWords, SectorWords

LEMMA InitTogether == Init => Together
<1> SUFFICES ASSUME Init PROVE Together
  OBVIOUS
<1>1. call = IdentifyCall(FALSE, FALSE) /\ pc = "main" /\ boot = 1
  BY DEF Init
<1>2. Shape
  BY <1>1 DEF Shape, IdentifyCall
<1>3. AllIdle
  BY DEF Init, AllIdle
<1>4. Step
  BY <1>1, <1>3 DEF Step, Quiet, Chosen, Queued, Asked, Answered, Identified
<1> QED
  BY <1>2, <1>4 DEF Together

\* A call begins: no drive is at work, and nothing has been read.
LEMMA BeginTogether ==
  ASSUME Together, NEW c, Begin(c), pc = "main",
         c.mode = "identify" => ~c.write /\ c.rounds = 1 /\ c.unit = SECTOR_SIZE,
         UNCHANGED <<hardware, drives, selected, misled>>
  PROVE  Together'
<1>1. pc' = "select" /\ call' = c /\ done' = 0 /\ got' = << >> /\ moved' = 0
  BY DEF Begin
<1>2. Shape'
  BY <1>1 DEF Shape
<1>3. ~misled' => AllIdle'
  BY DEF Together, Step, Quiet, AllIdle
<1>4. ~misled' => Step'
  BY <1>1, <1>3 DEF Step, Quiet, Chosen, Queued, Asked, Answered, Identified
<1> QED
  BY <1>2, <1>4 DEF Together

\* A call that is refused, or that does not return.
LEMMA RefusedTogether ==
  ASSUME Together, pc = "main", boot > 1, pc' \in {"main", "stopped"},
         UNCHANGED <<hardware, drives, selected, call, got, done, moved, drive_info, misled>>
  PROVE  Together'
<1>1. Shape'
  BY DEF Together, Shape
<1>2. ~misled' => AllIdle'
  BY DEF Together, Step, Quiet, AllIdle
<1>3. ASSUME ~misled' PROVE Identified'
  <2>1. Identified /\ machine' = machine /\ ~misled
    BY <1>3 DEF Together, Step, hardware
  <2> QED
    BY <2>1 DEF Identified, IsDisk
<1>4. ~misled' => Step'
  BY <1>2, <1>3 DEF Step, Quiet, Chosen, Queued, Asked, Answered
<1> QED
  BY <1>1, <1>4 DEF Together

LEMMA SelectTogether == ASSUME Typed, Together, select_drive PROVE Together'
<1>1. pc' = "round" /\ call' = call /\ done' = done /\ got' = got /\ pc = "select"
      /\ moved' = moved /\ misled' = misled
  BY DEF select_drive
<1>2. drives' = drives /\ selected' = [selected EXCEPT ![call.channel] = call.drive]
  BY DEF select_drive, outb, Register
<1>3. selected'[call.channel] = call.drive
  BY <1>2, CallFacts DEF Typed, HardwareOK
<1>4. Shape'
  BY <1>1 DEF Together, Shape
<1>5. ~misled' => AllIdle'
  BY <1>1, <1>2 DEF Together, Step, Quiet, AllIdle
<1>6. ~misled' => Step'
  BY <1>1, <1>3, <1>5 DEF Together, Step, Quiet, Chosen, Queued, Asked, Answered, Identified
<1> QED
  BY <1>4, <1>6 DEF Together

LEMMA StartRoundTogether == ASSUME Typed, Together, StartRound PROVE Together'
<1>1. /\ pc' = "registers" /\ call' = call /\ done' = done /\ got' = got /\ pc = "round"
      /\ moved' = 0 /\ done < call.rounds /\ drives' = drives /\ selected' = selected
  BY DEF StartRound
<1>2. misled' <=> (misled \/ call.mode = "lba28")
  BY Zenon DEF StartRound
<1>3. Shape'
  BY <1>1, <1>2 DEF Together, Shape
<1>4. call.mode = "identify" => done = 0
  BY <1>1 DEF Together, Shape, Typed, CallOK
<1>5. ~misled' => AllIdle' /\ selected'[call.channel] = call.drive
  BY <1>1, <1>2 DEF Together, Step, Quiet, AllIdle, Chosen
<1>6. ASSUME ~misled' PROVE Queued'
  <2>1. PICK block \in Blocks : pending' = RoundRegisters(block)
    BY DEF StartRound
  <2>2. CASE call.mode = "identify"
    BY <1>1, <2>1, <2>2 DEF RoundRegisters, Queued
  <2>3. CASE call.mode # "identify"
    <3>1. call.mode \in {"chs", "lba48"}
      BY <1>2, <1>6, <2>3, CallFacts DEF Modes
    <3> DEFINE command == IF call.write THEN "write" ELSE "read"
    <3>2. pending' = IF call.mode = "lba48" THEN lba48_registers(command)
                     ELSE chs_registers(command)
      BY <2>1, <3>1 DEF RoundRegisters
    <3> HIDE DEF command
    <3>3. \A k \in 1..Len(pending') : pending'[k].offset > 7
      BY <3>2 DEF lba48_registers, chs_registers, Past, Register, CommandOffset, command_port
    <3> QED
      BY <1>1, <2>3, <3>3 DEF Queued
  <2> QED
    BY <2>2, <2>3
<1>7. ASSUME ~misled' PROVE got' = << >> \/ call.mode # "identify"
  BY <1>1, <1>2, <1>4, <1>7 DEF Together, Step, Asked
<1>8. ~misled' => Step'
  BY <1>1, <1>5, <1>6, <1>7 DEF Step, Quiet, Chosen, Asked, Answered, Identified
<1> QED
  BY <1>3, <1>8 DEF Together

\* After the last register: an identify_drive has asked, nothing else has.
LEMMA WriteRegisterTogether == ASSUME Typed, Together, WriteRegister PROVE Together'
<1>1. /\ pc = "registers" /\ call' = call /\ done' = done /\ got' = got
      /\ moved' = moved /\ misled' = misled /\ machine' = machine
      /\ outb(call.channel, Head(pending)) /\ pending' = Tail(pending)
      /\ pc' = IF Len(pending) = 1 THEN "wait" ELSE "registers"
  BY DEF WriteRegister, hardware
<1>2. Shape'
  BY <1>1 DEF Together, Shape
<1> SUFFICES ASSUME ~misled PROVE Step'
  BY <1>1, <1>2 DEF Together
<1>3. /\ AllIdle /\ selected[call.channel] = call.drive /\ moved = 0
      /\ pending \in Seq(PortWrites) /\ pending # << >>
  BY <1>1 DEF Together, Step, Quiet, Chosen, Asked, Typed, CallOK
<1>4. CASE call.mode = "identify"
  <2>1. pending = << Register(command_port, "identify") >> /\ got = << >>
    <3>1. Queued /\ Asked
      BY DEF Together, Step
    <3>2. pending = << Register(command_port, "identify") >>
      BY <1>1, <1>4, <3>1, Zenon DEF Queued
    <3>3. got = << >>
      <4>1. pc \in {"select", "registers", "wait"}
        BY <1>1
      <4>2. (call.mode = "identify" /\ (pc \in {"select", "registers", "wait"}
                                        \/ (pc = "round" /\ done = 0))) => got = << >>
        BY <3>1, Zenon DEF Asked
      <4> QED
        BY <1>4, <4>1, <4>2, Zenon
    <3> QED
      BY <3>2, <3>3
  <2>2. /\ Head(pending) = Register(command_port, "identify") /\ Len(pending) = 1
        /\ Head(pending).offset = 7 /\ Head(pending).value = "identify"
    BY <2>1 DEF Register, command_port
  <2>3. pc' = "wait" /\ selected' = selected
    BY <1>1, <2>2 DEF outb
  <2>4. Here(call.channel) = Place /\ Place \in Positions /\ drives[Place] = Idle
    BY <1>3, PlaceType DEF Here, Place, AllIdle
  <2>5. PICK d \in AfterCommand(machine[Place], Idle, "identify") :
          drives' = [drives EXCEPT ![Place] = d]
    BY <1>1, <2>2, <2>4 DEF outb
  <2>6. drives'[Place] = IF IsDisk(Place) THEN Working("busy", SectorWords) ELSE Idle
    BY <2>4, <2>5, AnswerToIdentify DEF Typed, HardwareOK, IsDisk
  <2>7. \A p \in Positions : p # Place => drives'[p] = Idle
    BY <1>3, <2>5 DEF AllIdle, Typed, HardwareOK
  <2>8. Place' = Place /\ IsDisk(Place)' = IsDisk(Place)
    BY <1>1 DEF Place, IsDisk
  <2>9. Answering'
    <3>1. Len(got') = moved' /\ moved' = 0 /\ Heard'
      BY <1>1, <1>3, <2>1 DEF Heard
    <3>2. moved' # SectorWords /\ moved' <= SectorWords /\ SectorWords - moved' = SectorWords
      BY <3>1, SectorWordsPositive
    <3> QED
      BY <2>3, <2>6, <2>7, <2>8, <3>1, <3>2 DEF Answering
  <2> QED
    BY <1>1, <1>3, <1>4, <2>1, <2>3, <2>9
       DEF Step, Quiet, Chosen, Queued, Asked, Answered, Identified
<1>5. CASE call.mode # "identify"
  <2>1. \A k \in 1..Len(pending) : pending[k].offset > 7
    BY <1>1, <1>5 DEF Together, Step, Queued
  <2>2. /\ Len(pending) \in Nat /\ Len(pending) >= 1 /\ Head(pending) = pending[1]
        /\ Len(Tail(pending)) = Len(pending) - 1
        /\ \A k \in 1..Len(Tail(pending)) : Tail(pending)[k] = pending[k + 1]
    BY <1>3, EmptySeq, HeadTailProperties
  <2>3. Head(pending).offset > 7
    BY <2>1, <2>2
  <2>4. drives' = drives /\ selected' = selected
    BY <1>1, <2>3 DEF outb
  <2>5. \A k \in 1..Len(pending') : pending'[k].offset > 7
    BY <1>1, <2>1, <2>2
  <2>6. AllIdle'
    BY <1>3, <2>4 DEF AllIdle
  <2> QED
    BY <1>1, <1>3, <1>5, <2>4, <2>5, <2>6
       DEF Step, Quiet, Chosen, Queued, Asked, Answered, Identified
<1> QED
  BY <1>4, <1>5

\* The loop ends on the drive that was asked only when it has its answer ready.
LEMMA WaitTogether == ASSUME Typed, Together, wait_for_ready PROVE Together'
<1>1. /\ pc = "wait" /\ pc' = "transfer" /\ call' = call /\ done' = done /\ got' = got
      /\ moved' = moved /\ misled' = misled /\ machine' = machine
      /\ drives' = drives /\ selected' = selected
  BY DEF wait_for_ready, hardware
<1>2. Shape'
  BY <1>1 DEF Together, Shape
<1> SUFFICES ASSUME ~misled PROVE Step'
  BY <1>1, <1>2 DEF Together
<1>3. selected[call.channel] = call.drive
  BY <1>1 DEF Together, Step, Chosen
<1>4. ASSUME call.mode = "identify" PROVE Answering'
  <2>1. Answering
    BY <1>1, <1>4 DEF Together, Step, Asked
  <2>2. Place' = Place /\ IsDisk(Place)' = IsDisk(Place) /\ Heard' = Heard
    BY <1>1 DEF Place, IsDisk, Heard, Voice
  <2>3. ASSUME IsDisk(Place), moved # SectorWords
        PROVE  drives[Place] = Working("data", SectorWords - moved)
    <3>1. ~Empty(call.channel)
      BY <2>3, DiskChannel
    <3>2. drives[Here(call.channel)].state # "busy"
      BY <3>1 DEF wait_for_ready, LoopEnds, status
    <3>3. Here(call.channel) = Place
      BY <1>3 DEF Here, Place
    <3> QED
      BY <2>1, <2>3, <3>2, <3>3 DEF Answering, Working
  <2> QED
    BY <1>1, <2>1, <2>2, <2>3 DEF Answering
<1>5. call.mode # "identify" => AllIdle'
  BY <1>1 DEF Together, Step, Quiet, AllIdle
<1> QED
  BY <1>1, <1>3, <1>4, <1>5 DEF Step, Quiet, Chosen, Queued, Asked, Answered, Identified

\* A word of the answer: one less to come, and one more of the same voice.
LEMMA IdentifyWord ==
  ASSUME Typed, Shape, Answering, call.mode = "identify", pc = "transfer",
         selected[call.channel] = call.drive, TransferWord
  PROVE  Answering' /\ pc' = "transfer"
<1>1. /\ moved' = moved + 1 /\ call' = call /\ machine' = machine /\ pc' = "transfer"
      /\ moved < SectorWords /\ insw(call.channel)
  BY IdentifyWords DEF TransferWord, hardware
<1>2. /\ Place \in Positions /\ Here(call.channel) = Place /\ moved \in Nat
      /\ got \in Seq(Words) /\ drives \in [Positions -> Drive]
  BY PlaceType DEF Here, Place, Typed, CallOK, HardwareOK
<1>3. \A p \in Positions : p # Place => drives[p] = Idle
  BY DEF Answering
<1>4. Len(got) = moved /\ Heard /\ moved <= SectorWords
  BY DEF Answering
<1>5. Place' = Place /\ IsDisk(Place)' = IsDisk(Place) /\ Voice' = Voice
  BY <1>1 DEF Place, IsDisk, Voice
<1>6. ASSUME NEW w \in Voice, Keep(w)
      PROVE  Len(got') = moved' /\ moved' <= SectorWords /\ Heard'
  <2>1. got' = Append(got, w)
    BY <1>6 DEF Keep
  <2>2. Len(got') = Len(got) + 1 /\ \A k \in 1..Len(got') : got'[k] \in Voice
    BY <1>2, <1>4, <2>1, WordsAppended DEF Heard
  <2>3. moved + 1 <= SectorWords
    BY <1>1, <1>2, SectorWordsPositive
  <2> QED
    BY <1>1, <1>4, <1>5, <2>2, <2>3 DEF Heard
<1>7. CASE IsDisk(Place)
  <2>1. drives[Place] = Working("data", SectorWords - moved)
    BY <1>1, <1>2, <1>7, SectorWordsPositive DEF Answering
  <2>2. drives[Place].state = "data" /\ drives[Place].what = "identify"
    BY <2>1 DEF Working
  <2>3. Keep("identify") /\ drives' = [drives EXCEPT ![Place] = AfterWord(drives[Place])]
    BY <1>1, <1>2, <2>2 DEF insw
  <2>4. SectorWords - moved \in Nat /\ SectorWords - moved >= 1 /\ SectorWords - moved <= SectorWords
    BY <1>1, <1>2, SectorWordsPositive
  <2>5. drives'[Place] = IF SectorWords - moved = 1 THEN Idle
                         ELSE Working("data", SectorWords - moved - 1)
    BY <1>2, <2>1, <2>3, <2>4, WordOfIdentify
  <2>6. (SectorWords - moved = 1 <=> moved' = SectorWords)
        /\ SectorWords - moved - 1 = SectorWords - moved'
    BY <1>1, <1>2, SectorWordsPositive
  <2>7. \A p \in Positions : p # Place => drives'[p] = Idle
    BY <1>2, <1>3, <2>3
  <2>8. "identify" \in Voice
    BY <1>7 DEF Voice
  <2>9. Len(got') = moved' /\ moved' <= SectorWords /\ Heard'
    BY <1>6, <2>3, <2>8
  <2> QED
    BY <1>1, <1>5, <1>7, <2>5, <2>6, <2>7, <2>9 DEF Answering
<1>8. CASE ~IsDisk(Place)
  <2>1. drives[Place] = Idle
    BY <1>8 DEF Answering
  <2>2. drives[Place].state # "data"
    BY <2>1 DEF Idle
  <2>3. drives' = drives /\ \E w \in NoData(call.channel) : Keep(w)
    BY <1>1, <1>2, <2>2 DEF insw
  <2>4. NoData(call.channel) \subseteq Voice
    BY <1>8, DriveAssumption DEF NoData, Voice
  <2>5. Len(got') = moved' /\ moved' <= SectorWords /\ Heard'
    BY <1>6, <2>3, <2>4
  <2> QED
    BY <1>1, <1>3, <1>5, <1>8, <2>1, <2>3, <2>5 DEF Answering
<1> QED
  BY <1>1, <1>7, <1>8

\* A transfer that asked for nothing finds no drive with words to exchange.
LEMMA IdleWord ==
  ASSUME Typed, AllIdle, TransferWord
  PROVE  AllIdle'
<1>1. Here(call.channel) \in Positions
  BY CallFacts, HereType DEF Typed
<1>2. drives[Here(call.channel)].state = "idle"
  BY <1>1 DEF AllIdle, Idle
<1>3. insw(call.channel) => drives' = drives
  BY <1>2 DEF insw
<1>4. outsw(call.channel) => drives' = drives
  BY <1>2 DEF outsw
<1>5. drives' = drives
  BY <1>3, <1>4, Zenon DEF TransferWord
<1> QED
  BY <1>5 DEF AllIdle

LEMMA TransferWordTogether == ASSUME Typed, Together, TransferWord PROVE Together'
<1>1. /\ pc = "transfer" /\ pc' = "transfer" /\ call' = call /\ done' = done
      /\ misled' = misled /\ selected' = selected
  BY DEF TransferWord
<1>2. Shape'
  BY <1>1 DEF Together, Shape
<1> SUFFICES ASSUME ~misled PROVE Step'
  BY <1>1, <1>2 DEF Together
<1>3. selected[call.channel] = call.drive
  BY <1>1 DEF Together, Step, Chosen
<1>4. call.mode = "identify" => Answering'
  BY <1>1, <1>3, IdentifyWord DEF Together, Step, Asked
<1>5. call.mode # "identify" => AllIdle'
  BY <1>1, IdleWord DEF Together, Step, Quiet
<1> QED
  BY <1>1, <1>3, <1>4, <1>5 DEF Step, Quiet, Chosen, Queued, Asked, Answered, Identified

LEMMA EndRoundTogether == ASSUME Typed, Together, EndRound PROVE Together'
<1>1. /\ pc = "transfer" /\ pc' = "round" /\ call' = call /\ done' = done + 1
      /\ misled' = misled /\ selected' = selected /\ drives' = drives /\ got' = got
      /\ machine' = machine /\ moved >= TransferWords /\ done \in Nat /\ moved \in Nat
  BY DEF EndRound, hardware, Typed, CallOK
<1>2. Shape'
  BY <1>1 DEF Together, Shape
<1> SUFFICES ASSUME ~misled PROVE Step'
  BY <1>1, <1>2 DEF Together
<1>3. selected[call.channel] = call.drive
  BY <1>1 DEF Together, Step, Chosen
<1>4. done' # 0
  BY <1>1
<1>5. ASSUME call.mode = "identify"
      PROVE  AllIdle' /\ Len(got') = SectorWords /\ Heard'
  <2>1. Answering
    BY <1>1, <1>5 DEF Together, Step, Asked
  <2>2. moved = SectorWords
    <3>1. moved >= SectorWords
      BY <1>1, <1>5, IdentifyWords DEF Together
    <3> QED
      BY <1>1, <2>1, <3>1, SectorWordsPositive DEF Answering
  <2>3. AllIdle
    BY <2>1, <2>2 DEF Answering, AllIdle
  <2> QED
    BY <1>1, <2>1, <2>2, <2>3 DEF Answering, AllIdle, Heard, Voice, IsDisk, Place
<1>6. call.mode # "identify" => AllIdle'
  BY <1>1 DEF Together, Step, Quiet, AllIdle
<1> QED
  BY <1>1, <1>3, <1>4, <1>5, <1>6
     DEF Step, Quiet, Chosen, Queued, Asked, Answered, Identified

\* The answer was the disk's own, from its first word, and so is the record.
LEMMA IdentifyReturnTogether == ASSUME Typed, Together, IdentifyReturn PROVE Together'
<1>1. /\ pc = "round" /\ pc' = "main" /\ call' = call /\ misled' = misled
      /\ drives' = drives /\ machine' = machine
      /\ done = call.rounds /\ call.mode = "identify" /\ drive_info' \in Records
  BY DEF IdentifyReturn, Resume, hardware
<1>2. Shape'
  BY <1>1 DEF Together, Shape
<1> SUFFICES ASSUME ~misled PROVE Step'
  BY <1>1, <1>2 DEF Together
<1>3. AllIdle' /\ selected[call.channel] = call.drive
  BY <1>1 DEF Together, Step, Quiet, Chosen, AllIdle
<1>4. done # 0
  BY <1>1 DEF Together, Shape
<1>5. Len(got) = SectorWords /\ Heard /\ got \in Seq(Words)
  BY <1>1, <1>4 DEF Together, Step, Answered, Typed, CallOK
<1>6. DOMAIN got = 1..Len(got) /\ 1 \in 1..Len(got)
  BY <1>5, SectorWordsPositive
<1>7. Here(call.channel) = Place
  BY <1>3 DEF Here, Place
<1>8. drive_info' = IF IsDisk(Place) THEN InfoOf(machine[Place]) ELSE NoDrive
  <2>1. CASE IsDisk(Place)
    <3>1. \A k \in DOMAIN got : got[k] = "identify"
      BY <1>5, <1>6, <2>1 DEF Heard, Voice
    <3>2. got[1] \notin {"zero", "ones"}
      BY <1>6, <3>1
    <3>3. Records = {InfoOf(machine[Place])}
      BY <1>7, <3>1, <3>2, Zenon DEF Records
    <3> QED
      BY <1>1, <2>1, <3>3
  <2>2. CASE ~IsDisk(Place)
    <3>1. got[1] \in {"zero", "ones"}
      BY <1>5, <1>6, <2>2 DEF Heard, Voice
    <3>2. Records = {NoDrive}
      BY <3>1, Zenon DEF Records
    <3> QED
      BY <1>1, <2>2, <3>2
  <2> QED
    BY <2>1, <2>2
<1>9. Identified'
  BY <1>1, <1>8 DEF Identified, Place, IsDisk
<1> QED
  BY <1>1, <1>3, <1>9 DEF Step, Quiet, Chosen, Queued, Asked, Answered

LEMMA SectorReturnTogether == ASSUME Typed, Together, SectorReturn PROVE Together'
<1>1. /\ pc = "round" /\ pc' = "main" /\ call' = call /\ misled' = misled
      /\ drives' = drives /\ call.mode # "identify"
  BY DEF SectorReturn, Resume
<1>2. Shape'
  BY <1>1 DEF Together, Shape
<1>3. ~misled' => AllIdle'
  BY <1>1 DEF Together, Step, Quiet, AllIdle
<1>4. ~misled' => Step'
  BY <1>1, <1>3 DEF Step, Quiet, Chosen, Queued, Asked, Answered, Identified
<1> QED
  BY <1>2, <1>4 DEF Together

\* The only drive that can be at work is the one that answers.
LEMMA DriveWorksTogether ==
  ASSUME Typed, Together, NEW p \in Positions, DriveWorks(p)
  PROVE  Together'
<1>1. /\ UNCHANGED <<hardware, selected, program>> /\ drives[p].state = "busy"
      /\ \E d \in AfterWork(drives[p]) : drives' = [drives EXCEPT ![p] = d]
  BY DEF DriveWorks
<1>2. /\ machine' = machine /\ selected' = selected /\ pc' = pc /\ call' = call
      /\ pending' = pending /\ done' = done /\ moved' = moved /\ got' = got
      /\ drive_info' = drive_info /\ boot' = boot /\ misled' = misled
  BY <1>1 DEF hardware, program
<1>3. Shape'
  BY <1>2 DEF Together, Shape
<1> SUFFICES ASSUME ~misled PROVE Step'
  BY <1>2, <1>3 DEF Together
<1>4. drives[p] # Idle
  BY <1>1 DEF Idle
<1>5. call.mode = "identify" /\ pc \in {"wait", "transfer"}
  <2>1. ~AllIdle
    BY <1>4 DEF AllIdle
  <2>2. pc \in {"main", "select", "round", "registers", "wait", "transfer", "stopped"}
    BY DEF Typed, MainOK
  <2> QED
    BY <2>1, <2>2 DEF Together, Step, Quiet
<1>6. Answering
  BY <1>5 DEF Together, Step, Asked
<1>7. p = Place /\ IsDisk(Place) /\ moved # SectorWords
  BY <1>4, <1>6 DEF Answering
<1>8. pc = "wait" /\ drives[p] = Working("busy", SectorWords - moved)
  <2>1. drives[p] # Working("data", SectorWords - moved)
    BY <1>1 DEF Working
  <2> QED
    BY <1>6, <1>7, <2>1 DEF Answering
<1>9. AfterWork(drives[p]) = {Working("data", SectorWords - moved)}
  BY <1>8 DEF AfterWork, Working
<1>10. drives' = [drives EXCEPT ![p] = Working("data", SectorWords - moved)]
  BY <1>1, <1>9
<1>11. /\ drives'[p] = Working("data", SectorWords - moved)
       /\ \A q \in Positions : q # p => drives'[q] = drives[q]
  BY <1>10 DEF Typed, HardwareOK
<1>12. Answering'
  <2>1. Place' = Place /\ IsDisk(Place)' = IsDisk(Place) /\ Heard' = Heard
    BY <1>2 DEF Place, IsDisk, Heard, Voice
  <2> QED
    BY <1>2, <1>6, <1>7, <1>11, <2>1 DEF Answering
<1>13. Chosen' /\ Queued' /\ Answered'
  BY <1>2, <1>5 DEF Together, Step, Chosen, Queued, Answered
<1>14. Asked'
  BY <1>2, <1>5, <1>12 DEF Together, Step, Asked
<1>15. Quiet' /\ Identified'
  BY <1>2, <1>5 DEF Quiet, Identified
<1> QED
  BY <1>13, <1>14, <1>15 DEF Step

LEMMA CallsTogether ==
  ASSUME Typed, Together, Survey \/ BootRead \/ LaterIdentify \/ LaterSectors
  PROVE  Together'
<1>1. CASE Survey \/ LaterIdentify
  <2>1. PICK slave, secondary : identify_drive(slave, secondary)
    BY <1>1 DEF Survey, LaterIdentify
  <2>2. pc = "main"
    BY <1>1 DEF Survey, LaterIdentify, LaterCall
  <2> DEFINE c == IdentifyCall(slave, secondary)
  <2>3. ~c.write /\ c.rounds = 1 /\ c.unit = SECTOR_SIZE
    BY DEF IdentifyCall
  <2>4. Begin(c) /\ UNCHANGED <<hardware, drives, selected, misled>>
    BY <2>1 DEF identify_drive
  <2> HIDE DEF c
  <2> QED
    BY <2>2, <2>3, <2>4, BeginTogether
<1>2. CASE BootRead \/ LaterSectors
  <2>1. pc = "main" /\ Sectors
    BY <1>2, SectorCases
  <2>2. boot > 1
    <3>1. boot \in {6, 7}
      BY <1>2 DEF BootRead, LaterSectors, LaterCall
    <3> QED
      BY <3>1
  <2>3. CASE Refuse
    <3>1. pc' = "main"
      BY <2>3 DEF Refuse, Resume
    <3> QED
      BY <2>1, <2>2, <2>3, <3>1, RefusedTogether DEF Refuse
  <2>4. CASE Stop
    BY <2>1, <2>2, <2>4, RefusedTogether DEF Stop
  <2>5. ASSUME NEW mode \in Transfers, NEW write \in BOOLEAN, NEW size \in Nat,
               NEW unit \in Nat \ {0}, StartSectors(mode, write, size, unit)
        PROVE  Together'
    <3> DEFINE c == SectorCall(mode, write, size, unit)
    <3>1. c.mode # "identify"
      BY <2>5 DEF SectorCall, Transfers
    <3>2. Begin(c) /\ UNCHANGED <<hardware, drives, selected, misled>>
      BY <2>5 DEF StartSectors
    <3> HIDE DEF c
    <3> QED
      BY <2>1, <3>1, <3>2, BeginTogether
  <2> QED
    BY <2>1, <2>3, <2>4, <2>5 DEF Sectors
<1> QED
  BY <1>1, <1>2

LEMMA NextTogether == Typed /\ Together /\ [Next]_vars => Together'
<1> SUFFICES ASSUME Typed, Together, [Next]_vars PROVE Together'
  OBVIOUS
<1>1. CASE UNCHANGED vars
  <2>1. /\ machine' = machine /\ drives' = drives /\ selected' = selected /\ pc' = pc
        /\ call' = call /\ pending' = pending /\ done' = done /\ moved' = moved
        /\ got' = got /\ drive_info' = drive_info /\ boot' = boot /\ misled' = misled
    BY <1>1 DEF vars, hardware, program
  <2>2. /\ AllIdle' = AllIdle /\ Heard' = Heard /\ Place' = Place
        /\ IsDisk(Place)' = IsDisk(Place)
    BY <2>1 DEF AllIdle, Heard, Voice, Place, IsDisk
  <2>3. Shape' = Shape /\ Quiet' = Quiet /\ Chosen' = Chosen /\ Queued' = Queued
    BY <2>1, <2>2 DEF Shape, Quiet, Chosen, Queued
  <2>4. Answering' = Answering
    BY <2>1, <2>2 DEF Answering
  <2>5. Asked' = Asked /\ Answered' = Answered /\ Identified' = Identified
    BY <2>1, <2>2, <2>4 DEF Asked, Answered, Identified, IsDisk
  <2> QED
    BY <2>1, <2>3, <2>5 DEF Together, Step
<1>2. CASE Driver
  BY <1>2, SelectTogether, StartRoundTogether, WriteRegisterTogether, WaitTogether,
     TransferWordTogether, EndRoundTogether, IdentifyReturnTogether,
     SectorReturnTogether DEF Driver
<1> QED
  BY <1>1, <1>2, CallsTogether, DriveWorksTogether DEF Next

LEMMA Safe == Spec => [](Typed /\ Together)
<1>1. Init => Typed /\ Together
  BY InitTyped, InitTogether
<1>2. (Typed /\ Together) /\ [Next]_vars => (Typed /\ Together)'
  BY NextTyped, NextTogether
<1> QED
  BY <1>1, <1>2, PTL DEF Spec

(* Between two calls every drive is idle, as long as no 28-bit transfer has    *)
(* sent a block number: whatever is plugged in, whatever an empty data port    *)
(* reads as, however long a drive takes.                                       *)
THEOREM CallsStayInStep == Spec => []InStep
<1>1. Typed /\ Together => InStep
  BY DEF Together, Step, Quiet, AllIdle, InStep
<1> QED
  BY <1>1, Safe, PTL

(* identify_drive says there is a drive exactly where there is a disk, and     *)
(* the record it leaves is that disk's answer, read whole.                     *)
THEOREM DrivesAreIdentified == Spec => []Identified
<1>1. Typed /\ Together => Identified
  <2> SUFFICES ASSUME Together PROVE Identified
    OBVIOUS
  <2>1. CASE misled
    BY <2>1 DEF Identified
  <2>2. CASE ~misled
    BY <2>2 DEF Together, Step
  <2> QED
    BY <2>1, <2>2
<1> QED
  BY <1>1, Safe, PTL

-------------------------------------------------------------------------------
(* The survey: what has been looked at so far, and what the last call was for. *)
SurveyCall == IdentifyCall(boot \in {2, 4}, boot \in {3, 4})

At(k) == LET c == IdentifyCall(k \in {2, 4}, k \in {3, 4}) IN <<c.channel, c.drive>>

Looked ==
    /\ misled => boot = 7
    /\ (pc # "main" /\ boot <= 5) => call = SurveyCall
    /\ (pc \notin {"main", "stopped"} /\ call.mode = "lba28") => boot = 7
    /\ boot <= 4 => \A k \in 1..4 : k < boot => ~IsDisk(At(k))
    /\ SurveyIsRight

LEMMA PositionsOfTheSurvey == Positions = {At(k) : k \in 1..4}
<1>1. /\ At(1) = <<"primary", "master">> /\ At(2) = <<"primary", "slave">>
      /\ At(3) = <<"secondary", "master">> /\ At(4) = <<"secondary", "slave">>
  BY DEF At, IdentifyCall
<1>2. Positions = {At(1), At(2), At(3), At(4)}
  BY <1>1 DEF Positions, Channels, Units
<1>3. 1..4 = {1, 2, 3, 4}
  OBVIOUS
<1> QED
  BY <1>2, <1>3

LEMMA InitLooked == Init => Looked
<1> SUFFICES ASSUME Init PROVE Looked
  OBVIOUS
<1>1. pc = "main" /\ boot = 1 /\ ~misled
  BY DEF Init
<1> QED
  BY <1>1 DEF Looked, SurveyIsRight

\* A step of a call: nothing main keeps changes.
LEMMA CallLooked ==
  ASSUME Looked, UNCHANGED <<machine, call, boot, found>>,
         pc \notin {"main", "stopped"}, pc' # "main",
         misled' => misled \/ call.mode = "lba28"
  PROVE  Looked'
<1>1. misled' => boot' = 7
  BY DEF Looked
<1>2. \A k \in 1..4 : IsDisk(At(k))' <=> IsDisk(At(k))
  BY DEF IsDisk, At
<1>3. SurveyIsRight' <=> SurveyIsRight
  BY DEF SurveyIsRight, IsDisk
<1>4. SurveyCall' = SurveyCall
  BY DEF SurveyCall
<1> QED
  BY <1>1, <1>2, <1>3, <1>4 DEF Looked

\* A call or its return, once the survey is over.
LEMMA LaterLooked ==
  ASSUME Typed, Looked, boot >= 6, boot' >= boot, boot' \in 1..7, machine' = machine,
         found' = found, misled' = misled,
         (pc' \notin {"main", "stopped"} /\ call'.mode = "lba28") => boot' = 7
  PROVE  Looked'
<1>1. misled' => boot' = 7
  BY DEF Looked
<1>2. SurveyIsRight'
  <2>1. boot >= 5
    BY DEF Typed, MainOK
  <2> QED
    BY <2>1 DEF Looked, SurveyIsRight, IsDisk
<1>3. boot' > 5
  BY DEF Typed, MainOK
<1> QED
  BY <1>1, <1>2, <1>3 DEF Looked

LEMMA ResumeLater ==
  ASSUME Typed, boot >= 6, NEW info, Resume(info)
  PROVE  boot' >= boot /\ boot' \in 1..7 /\ found' = found /\ pc' = "main"
<1>1. boot \in 1..7 /\ ~(boot < 4) /\ ~(boot <= 4)
  BY DEF Typed, MainOK
<1>2. boot' = (IF boot < 7 THEN boot + 1 ELSE boot) /\ pc' = "main"
  BY <1>1 DEF Resume
<1>3. found' = found
  BY <1>1, Zenon DEF Resume
<1> QED
  BY <1>1, <1>2, <1>3

LEMMA CallsLooked ==
  ASSUME Typed, Looked, Survey \/ LaterIdentify
  PROVE  Looked'
<1>1. /\ machine' = machine /\ boot' = boot /\ found' = found /\ misled' = misled
      /\ pc = "main" /\ pc' = "select" /\ call'.mode = "identify"
  BY DEF Survey, LaterIdentify, LaterCall, identify_drive, hardware, Begin, IdentifyCall
<1>2. boot' <= 5 => call' = SurveyCall'
  <2>1. CASE Survey
    BY <1>1, <2>1 DEF Survey, identify_drive, Begin, SurveyCall
  <2>2. CASE LaterIdentify
    BY <1>1, <2>2 DEF LaterIdentify, LaterCall
  <2> QED
    BY <2>1, <2>2
<1>3. \A k \in 1..4 : IsDisk(At(k))' <=> IsDisk(At(k))
  BY <1>1 DEF IsDisk, At
<1>4. SurveyIsRight' <=> SurveyIsRight
  BY <1>1 DEF SurveyIsRight, IsDisk
<1> QED
  BY <1>1, <1>2, <1>3, <1>4 DEF Looked

LEMMA SectorsLooked ==
  ASSUME Typed, Looked, BootRead \/ LaterSectors
  PROVE  Looked'
<1>1. pc = "main" /\ Sectors /\ boot \in {6, 7} /\ boot >= 6
  <2>1. boot \in {6, 7}
    BY DEF BootRead, LaterSectors, LaterCall
  <2> QED
    BY <2>1, SectorCases
<1>2. CASE Refuse
  <2>1. boot' >= boot /\ boot' \in 1..7 /\ found' = found /\ pc' = "main"
    BY <1>1, <1>2, ResumeLater DEF Refuse
  <2> QED
    BY <1>1, <1>2, <2>1, LaterLooked DEF Refuse, hardware
<1>3. CASE Stop
  <2>1. /\ machine' = machine /\ boot' = boot /\ found' = found /\ misled' = misled
        /\ pc' = "stopped" /\ boot \in 1..7
    BY <1>3 DEF Stop, hardware, Typed, MainOK
  <2>2. boot' >= boot
    BY <2>1
  <2> QED
    BY <1>1, <2>1, <2>2, LaterLooked
<1>4. ASSUME NEW mode \in Transfers, NEW write \in BOOLEAN, NEW size \in Nat,
             NEW unit \in Nat \ {0}, StartSectors(mode, write, size, unit)
      PROVE  Looked'
  <2>1. machine' = machine /\ boot' = boot /\ found' = found /\ misled' = misled
        /\ call'.mode = mode
    BY <1>4 DEF StartSectors, hardware, Begin, SectorCall
  <2>2. boot = 6 => mode = "chs"
    <3>1. ASSUME boot = 6 PROVE mode = "chs"
      <4>1. BootRead
        BY <3>1 DEF LaterSectors, LaterCall
      <4>2. read_sector_chs(FALSE, BootSize)
        BY <4>1 DEF BootRead
      <4>3. pc' = "select"
        BY <1>4 DEF StartSectors, Begin
      <4>4. ~Refuse /\ ~Stop
        BY <4>3 DEF Refuse, Resume, Stop
      <4> QED
        BY <2>1, <4>2, <4>4 DEF read_sector_chs, Checked, StartSectors, Begin, SectorCall
    <3> QED
      BY <3>1
  <2> QED
    BY <1>1, <2>1, <2>2, LaterLooked DEF Typed, MainOK
<1> QED
  BY <1>1, <1>2, <1>3, <1>4 DEF Sectors

\* identify_drive comes back: one position more has been looked at.
LEMMA IdentifyLooked ==
  ASSUME Typed, Together, Looked, IdentifyReturn
  PROVE  Looked'
<1>1. /\ machine' = machine /\ call' = call /\ misled' = misled /\ pc = "round"
      /\ call.mode = "identify" /\ Resume(drive_info') /\ pc' = "main"
  BY DEF IdentifyReturn, hardware, Resume
<1>2. boot \in 1..7
  BY DEF Typed, MainOK
<1>3. CASE boot >= 6
  BY <1>1, <1>2, <1>3, ResumeLater, LaterLooked
<1>4. CASE boot = 5
  <2>1. boot' = 6
    BY <1>1, <1>4 DEF Resume
  <2>2. found' = found
    <3>1. ~(boot <= 4)
      BY <1>4
    <3> QED
      BY <1>1, <3>1, Zenon DEF Resume
  <2>3. ~misled'
    BY <1>1, <1>4 DEF Looked
  <2>4. SurveyIsRight'
    BY <1>1, <1>4, <2>1, <2>2 DEF Looked, SurveyIsRight, IsDisk
  <2> QED
    BY <1>1, <2>1, <2>3, <2>4 DEF Looked
<1>5. CASE boot <= 4
  <2>1. ~misled /\ ~misled' /\ call = SurveyCall
    BY <1>1, <1>2, <1>5 DEF Looked
  <2>2. <<call.channel, call.drive>> = At(boot)
    BY <2>1, Zenon DEF SurveyCall, At
  <2>3. boot' > 1 /\ boot' \in 1..5
    BY <1>1, <1>2, <1>5 DEF Resume
  <2>4. Identified'
    BY <2>1, IdentifyReturnTogether DEF Together, Step
  <2>5. drive_info'.detected <=> IsDisk(At(boot))
    <3>1. drive_info' = IF IsDisk(At(boot)) THEN InfoOf(machine[At(boot)]) ELSE NoDrive
      BY <1>1, <2>1, <2>2, <2>3, <2>4 DEF Identified, IsDisk
    <3>2. InfoOf(machine[At(boot)]).detected = TRUE /\ NoDrive.detected = FALSE
      BY DEF InfoOf, NoDrive
    <3> QED
      BY <3>1, <3>2
  <2>6. found' = drive_info'.detected
    BY <1>1, <1>5, Zenon DEF Resume
  <2>7. found' <=> IsDisk(At(boot))
    BY <2>5, <2>6
  <2>8. CASE boot' <= 4
    <3>1. boot' = boot + 1 /\ ~drive_info'.detected
      BY <1>1, <1>2, <1>5, <2>8 DEF Resume
    <3>2. ~IsDisk(At(boot))
      BY <2>5, <3>1
    <3>3. \A k \in 1..4 : k < boot' => ~IsDisk(At(k))
      <4> SUFFICES ASSUME NEW k \in 1..4, k < boot' PROVE ~IsDisk(At(k))
        OBVIOUS
      <4>1. k < boot \/ k = boot
        BY <1>2, <3>1
      <4>2. k < boot => ~IsDisk(At(k))
        BY <1>5 DEF Looked
      <4> QED
        BY <3>2, <4>1, <4>2, Zenon
    <3>4. \A k \in 1..4 : ~(k < boot') \/ ~IsDisk(At(k))'
      BY <1>1, <3>3 DEF IsDisk, At
    <3>5. SurveyIsRight'
      BY <2>3, <2>8 DEF SurveyIsRight
    <3> QED
      BY <1>1, <2>1, <3>4, <3>5 DEF Looked
  <2>9. CASE boot' = 5
    <3>1. drive_info'.detected \/ boot = 4
      BY <1>1, <1>2, <1>5, <2>9 DEF Resume
    <3>2. found' <=> \E p \in Positions : IsDisk(p)
      <4>1. At(boot) \in Positions
        BY <1>2, <1>5, PositionsOfTheSurvey
      <4>2. CASE found'
        BY <2>7, <4>1, <4>2
      <4>3. CASE ~found'
        <5>1. boot = 4 /\ ~IsDisk(At(4))
          BY <2>5, <2>7, <3>1, <4>3
        <5>2. \A k \in 1..4 : ~IsDisk(At(k))
          <6> SUFFICES ASSUME NEW k \in 1..4 PROVE ~IsDisk(At(k))
            OBVIOUS
          <6>1. k < boot \/ k = 4
            BY <5>1
          <6> QED
            BY <1>5, <5>1, <6>1 DEF Looked
        <5> QED
          BY <4>3, <5>2, PositionsOfTheSurvey
      <4> QED
        BY <4>2, <4>3
    <3>3. SurveyIsRight'
      BY <1>1, <3>2 DEF SurveyIsRight, IsDisk
    <3> QED
      BY <1>1, <2>1, <2>9, <3>3 DEF Looked
  <2> QED
    BY <2>3, <2>8, <2>9
<1> QED
  BY <1>2, <1>3, <1>4, <1>5

LEMMA SectorReturnLooked ==
  ASSUME Typed, Looked, SectorReturn
  PROVE  Looked'
<1>1. boot >= 6
  <2>1. pc = "round" /\ call.mode # "identify" /\ boot \in 1..7
    BY DEF SectorReturn, Typed, MainOK
  <2>2. SurveyCall.mode = "identify"
    BY DEF SurveyCall, IdentifyCall
  <2> QED
    BY <2>1, <2>2 DEF Looked
<1>2. Resume(drive_info) /\ machine' = machine /\ misled' = misled
  BY DEF SectorReturn, hardware
<1>3. boot' >= boot /\ boot' \in 1..7 /\ found' = found /\ pc' = "main"
  BY <1>1, <1>2, ResumeLater
<1> QED
  BY <1>1, <1>2, <1>3, LaterLooked

LEMMA NextLooked == Typed /\ Together /\ Looked /\ [Next]_vars => Looked'
<1> SUFFICES ASSUME Typed, Together, Looked, [Next]_vars PROVE Looked'
  OBVIOUS
<1>1. ASSUME UNCHANGED <<machine, call, boot, found, pc, misled>> PROVE Looked'
  <2>1. /\ \A k \in 1..4 : IsDisk(At(k))' <=> IsDisk(At(k))
        /\ SurveyIsRight' <=> SurveyIsRight
        /\ SurveyCall' = SurveyCall
    BY <1>1 DEF IsDisk, At, SurveyIsRight, SurveyCall
  <2> QED
    BY <1>1, <2>1 DEF Looked
<1>2. CASE UNCHANGED vars
  BY <1>1, <1>2 DEF vars, hardware, program
<1>3. ASSUME NEW p \in Positions, DriveWorks(p) PROVE Looked'
  BY <1>1, <1>3 DEF DriveWorks, hardware, program
<1>4. CASE select_drive \/ WriteRegister \/ wait_for_ready \/ TransferWord \/ EndRound
  <2>1. /\ UNCHANGED <<machine, call, boot, found, misled>>
        /\ pc \in {"select", "registers", "wait", "transfer"}
        /\ pc' \in {"round", "registers", "wait", "transfer"}
    BY <1>4 DEF select_drive, WriteRegister, wait_for_ready, TransferWord, EndRound,
                hardware
  <2> QED
    BY <2>1, CallLooked
<1>5. CASE StartRound
  <2>1. UNCHANGED <<machine, call, boot, found>> /\ pc = "round" /\ pc' = "registers"
    BY <1>5 DEF StartRound, hardware
  <2>2. misled' => misled \/ call.mode = "lba28"
    BY <1>5, Zenon DEF StartRound
  <2> QED
    BY <2>1, <2>2, CallLooked
<1> QED
  BY <1>2, <1>3, <1>4, <1>5, CallsLooked, SectorsLooked, IdentifyLooked,
     SectorReturnLooked DEF Next, Driver

(* check_ata_controller tells a machine with a disk from one without: the      *)
(* positions before the one it stops at have none, packet drives and empty     *)
(* channels that read as ones included.                                        *)
THEOREM SurveyTellsTheTruth == Spec => []SurveyIsRight
<1>1. Init => Typed /\ Together /\ Looked
  BY InitTyped, InitTogether, InitLooked
<1>2. (Typed /\ Together /\ Looked) /\ [Next]_vars => (Typed /\ Together /\ Looked)'
  BY NextTyped, NextTogether, NextLooked
<1>3. Typed /\ Together /\ Looked => SurveyIsRight
  BY DEF Looked
<1> QED
  BY <1>1, <1>2, <1>3, PTL DEF Spec
===============================================================================
