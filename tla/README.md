# RetroFlex OS: models, checks and proofs

RetroFlex OS is a 32-bit x86 kernel: a multiboot image that sets up segments,
paging and interrupts, starts a timer and a keyboard, reads the clock and the
disk, prints, and halts. This directory holds TLA+ modules written from its
source, the TLC runs that check them on small instances, and theorems that TLAPS
checks for every value of the constants.

Paths below are relative to the root of the repository; `PROJECT.json` has the
same information by definition and by line.

## 1. Inventory

### The parts, their state and their operations

| Part | Source | State | Operations |
|---|---|---|---|
| Boot sequence | `src/Boot/boot.asm`, `src/kernel.c`, `src/kernel.asm` | where main is, the interrupt flag | `start`, `main`, `halt_kernel` |
| Interrupt dispatch | `src/IDT/idt.c`, `idt.asm` | `IDT_entries`, `IDT_ptr`, `irq_routines`; in the hardware the two 8259 controllers and the CPU's flag | `init_IDT`, `IDT_flush`, the stubs, `irq_handler`, `isr_handler`, `irq_install_handler`, `irq_uninstall_handler` |
| Timer | `src/Drivers/PIT` | `ticks` | `init_PIT`, `PIT_irq_handler`, `wait` |
| Keyboard | `src/Drivers/PS2` | three modifier flags, two prefix flags, one key slot with its flag; in the hardware the output buffer | `ps2_init`, `keyboard_irq_handler`, `process_scan_code`, `kbhit`, `getch` |
| Paging | `src/Paging` | `page_directory`, one `page_table`; in the hardware CR3, CR0 and the translation cache | `init_paging`, `enable_paging`, `map_page` |
| Console | `src/Drivers/VGA/vga.c` | the text memory, `cursor_x`, `cursor_y`; in the hardware the cursor register | `putc`, `puts`, `clear_screen`, `scroll_up`, `update_cursor` |
| Formatted output | `vga.c` | local: the state machine of `printf`, the stack pointer it walks, a digit buffer | `printf`, `dbg_printf`, `printf_signed`, `printf_unsigned` |
| 64-bit division | `src/Headers/util.c` | local | `__udivdi3`, `__umoddi3` |
| Real-time clock | `src/Drivers/CMOS` | `second` .. `year`; in the hardware the registers of the chip | `read_rtc`, `update_cmos` |
| ATA | `src/Drivers/ATA` | `drive_info`, a sector buffer; in the hardware the task file of the drive | `check_ata_controller`, `identify_drive`, reading and writing by CHS, LBA28, LBA48 |
| PCI | `src/Drivers/PCI` | `vendorID`, `headerType`; in the hardware the configuration address | configuration reads and writes, `checkAllBuses` and the functions under it |
| Segments | `src/GDT` | six descriptors, one task state segment | `init_GDT` |
| Speaker, multiboot information | `src/Drivers/Speaker`, `src/Headers/multiboot.c` | none | `beep`, `stop_beep`; `read_multiboot_header` |

### How they interact

There is one CPU and no scheduler. Concurrency comes from the devices: the timer
and the keyboard raise requests at any time, the controllers rank them, and a
stub runs between two instructions of the main program. What a handler shares
with the main program is `ticks` (read by `wait` and by every debug message) and
the key slot (read by `kbhit` and `getch`). What the kernel shares with hardware
that moves on its own is the keyboard's output buffer, the registers of the
clock, the drive's status and the CPU's translation cache. All output, of the
main program and of `isr_handler`, goes through `putc`.

### What is hard, and what has to be right

- **Interrupt dispatch**: two controllers with priorities and in-service bits,
  one end of interrupt for the master and one for the slave; STI inside the
  stubs; interrupts opened half-way through the boot. Exactly the bits served
  are given back, nothing nests, nothing is opened before it is ready, no
  request is acknowledged without being served, the timer is always served, and
  after the stop nothing runs.
- **Keyboard**: a byte stream with prefixes decoded over several interrupts, two
  reads of a port where one is meant, flags that cache which keys are down, one
  slot for all presses, a consumer that clears the flag before it takes the key.
- **Paging**: the page that runs the code has to stay where it is while paging
  is switched on; one table behind all directory entries; a cache nobody flushes.
- **Console**: scrolling in place, wrapping, tabs that move several columns, a
  second copy of the cursor in the hardware.
- **Formatted output**: what one directive leaves behind decides how much of the
  stack the next one takes; the extreme numbers.
- **Division**: its end, and its result, for every pair of words.
- **Clock**: registers that change between two reads and mean nothing during an
  update; four register formats; a guessed century.
- **Timer**: `wait` tests for one value of a counter that wraps.
- **ATA**: status polling without a limit, an order of register writes the drive
  gives a meaning to, sizes taken from the drive, a drive that works on while the
  driver goes on, data left over from one call for the next.
- **PCI**: recursion over a tree the hardware describes, state shared by the
  levels of the recursion, registers read by the byte.

`PROJECT.json` lists every hazard at its line, with the properties that look at
it or the reason why none does.

## 2. Modules and plan

Written, in the order of their importance:

| Module | Models | Abstract specification | Proofs |
|---|---|---|---|
| `Pic8259`, `Interrupts` | dispatch, the controllers, the boot sequence | `IrqService` | `Interrupts_proofs` |
| `Keyboard` | the PS/2 driver and its client | | `Keyboard_proofs` |
| `Paging` | the tables, `map_page`, the translation cache | | `Paging_proofs` |
| `Console` | the text console | `Terminal` | `Console_proofs` |
| `Printf` | the formats of `printf` | a reference reading of formats, in `Printf` | `Console_proofs` |
| `Numbers`, `Division` | the digits of `printf`, and the division they are made with | | `Numbers_proofs` |
| `Timer` | `wait` against the timer interrupt | | `Clocks_proofs` |
| `Rtc` | `read_rtc` and `update_cmos` against the chip | | `Clocks_proofs` |
| `AtaDrive`, `Ata` | the disk driver, one port access a step, against two channels of drives | | `Ata_proofs` |
| `Pci` | the walk over the buses, on any machine | | `Pci_proofs` |

`MCx` holds the constants of the runs of module `x`. `MCClocks` (for `Timer` and
`Rtc`) and `MCOutput` (for `Console` and `Printf`) check two modules in one run,
one call at a time: each behaviour is one of the first module with the variables
of the second at rest, or the other way round. The two share no state, so that
this loses nothing of either. `Interrupts` composes with
the other parts by what it proves: `Keyboard` and `Timer` let a handler run
between any two steps of the main program and never the other way round
(`NoNesting`), one run at a time (`ImplementsService`), and again and again
(`TimerServed`, `KeyboardServed`).

What could still be added, in this order:

1. Proofs: every safety property that a run passes is a theorem. Of the liveness
   properties, that each step of the walk over the buses, and of the conversion
   of a number, makes what is left to do smaller, which is their safety half.
2. `Multiboot`: the walk over the memory map, once something calls it.
3. `Pci`: `readPCIConfig`, once its result is not undefined.

## 3. The modules and the code

### Interrupts

The variables are the CPU's flag (`IFlag`), whether LIDT has run (`idtr`), the
vectors with an entry (`gates`), the controllers' vector bases (`base`), requests
and in-service bits (`irr`, `isr`), the stack of active stubs (`frames`),
`irq_routines`, `ticks`, and whether the keyboard controller holds an unread
byte (`obf`). `pc` is where main is.

The calls of main that touch interrupts are one action each, in their order:
the two halves of `init_IDT`, `IDT_flush`, `init_PIT`, the two installations,
and `ps2_init` in two, since it opens and closes interrupts. `main` returning is
`MainReturn`. All of them need `InMain`: one CPU. `Deliver`, `Spurious` and
`SoftInterrupt` enter a stub; `PitHandler`, `KeyboardHandler`, `KeyboardReread`,
`OtherHandler`, `EoiSlave`, `EoiMaster`, `IsrHandler`, `Sti` and `Iret` are its
steps, and only a clear flag keeps them from being interrupted. Both common stubs
end in STI; IRET: after `Sti` the flag is set while the stub's frame is still
there, a state of its own, in which only the CPU's delay of one instruction
(`Shadow`) keeps a request out; `ShadowMissed` is the mutant without it. A request may be spurious
(the controller then answers with line 7 or 15 and marks nothing of its own).
A stub may be entered wherever the flag allows: that none ever is inside another
one is a property, not a guard; `MaxFrames` bounds the depth in the runs and a
theorem says the bound is never met.

`Pic8259` is the meaning of the bytes written to the controllers; they are
hardware, and it is marked external.

`IrqService` is what the rest of the kernel may rely on: handlers run one at a
time, to completion, by priority, only while the kernel is open. `Interrupts`
implements it with the refinement mapping `Phase`, `irr`, `ServedLine`.

### Keyboard

The person, the controller, the handler and a polling main program. A key sends
one byte, a prefixed pair, or the six bytes of Pause; the controller holds one
byte until it is read. A run of the handler is one step, except after 0xE0,
where the code reads the port twice and the second read is a step of its own
(`Reread`). `FastTransfer` says whether the controller can put the next byte
there between the two. The tables `keymap` and `keycodes_in_uppercase` are
translated whole. Two history variables, `fresh` and `meant`, say which press
has not been returned and what it stood for.

Right Ctrl and right Alt are the codes of the left ones behind 0xE0. `IsDown`
counts them: a Ctrl key is down when either is. The driver drops their second
byte, since it looks only for cursor keys there (`ps2.c:146`), so that
`ModifiersFollowKeys` demands nothing of a flag whose right key is held, and
`EveryModifierCounts`, which does, is violated in a run of its own.

### Paging

Pages are pairs of indexes. `init_paging` is taken apart: the two memsets, the
loop (one entry a step), the directory entry, the window at 0xc0000000, and the
switch. After that `map_page` may be called with any frame, any directory index,
and the table indexes in `Mappable`; the CPU fills and forgets its cache at any
time. `Resident` are the pages the kernel itself uses.

### Console, Printf, Numbers, Division

`Console` has an action for each branch of `putc` and `clear_screen`; every one
ends in `Finish`, as every branch of `putc` ends in `update_cursor`. Two history
variables: `past`, the rows scrolled away, and `astray`, whether a tab has taken
the cursor below the screen, the one thing that can (`vga.c:204`).
`Terminal` is a roll of paper that only grows; a tab over the end of its last
row turns it off, and it promises nothing from there on. The refinement mapping
glues the rows scrolled away to the rows on the screen.

`Printf` is the state machine over the characters of a format, with the words it
takes from the stack as numbers; `dbg_printf` is the same machine over another
output. `Reference` is what a format means: characters and directives read whole,
one after the other. `Division` is the loop of the two library functions; `Numbers` extends
it with the digit loop that calls them, twice a digit. `StoreDigit` does not go
beyond the buffer, which the code does not test; `BufferHasRoom` and `Finishes`
show that this never stops it.

### Timer, Rtc

`Timer` is `wait` with ticks in between; between two ticks the program looks at
the counter at least once. That is a guard of `PIT_irq_handler` (`looked`) the
code does not have: a tick at the awaited value that nobody looks at would make
`wait` take a whole turn of the counter more. `Rtc` reads one register a step while the chip
announces, starts and ends updates; during one, a read returns the old value,
the new one, or garbage. One field (`second`) stands for the four that are read
and converted alike. An update comes after at least three rounds of reads since
the last: they are a second apart, a round takes microseconds. `FieldsAssumption`
says what the chip's formats need: a digit fits its half of a byte, a field its
byte, an hour the bits below the one for the afternoon.

### Ata, AtaDrive

`AtaDrive` is the hardware: for each of the two positions of the two channels,
nothing, a packet drive or a disk, and for a disk whether it is idle, busy with a
command, or has words to exchange. Assumed of a drive: it is busy from the moment
it takes a command, has no error bit set while it is, ignores commands while it
is, and answers IDENTIFY if it is a disk; a transfer it may give up with an
error. A drive with no data to give reads as zeros or ones (`IdleWords`; the run
takes zeros, the theorems either), an empty channel as all zeros or all ones.

`Ata` takes the driver one port access at a time: drives get on with their work
between any two. `identify_drive` and the six sector functions have one shape
(select, then per sector: registers, `wait_for_ready`, words), so that a call is
a record of its mode, position, direction and sizes, and the steps are shared.
`check_ata_controller` calls `identify_drive` for the four positions up to the
first that has a drive (`Survey`, `Resume`), main then identifies the primary
master again and reads with `read_sector_chs` (`BootRead`), and after the boot
any function of `ata.h` may be called with any of `Sizes`, valid buffer or not.

Register writes are kept as an offset from the data port and what the byte means
there. That is where the code departs from the hardware: the CHS and LBA48
transfers count their registers from the command port (`ata.c:311`), beyond the
task file, so that their command never reaches the drive (`CommandOffset`); the
28-bit ones write the bytes of the block number to the command register itself
(`ata.c:184`), where each is a command. `misled` says this has happened;
`Blocks` are the bytes, as the commands they are taken for. Line 235 of `ata.c`
does not compile as it stands, and is read as absent.

### Pci

What is plugged in is a constant of a behaviour: a function from bus, device and
function to the double words read there, with any tree of bridges, or a bridge to
its own bus. The recursion of `checkBus`, `checkDevice` and `checkFunction` is a
stack of the loops it leaves open; `MaxDepth` bounds it in the runs.
`pciConfigReadByte` returns the low byte of the double word for every offset
(`pci.c:68`), and that is what the class, the subclass and the header of a bridge
are read with. The class and the subclass are both the revision, so that no
bridge is ever followed (`BridgesFollowed` is violated); `IsBridge` reads the
byte the offset names.

## 4. The runs

Deadlock is checked unless the system really may stop: `numbers`, `output`,
`clocks`, `ata` and `pci` end. The type invariants of `Paging`, `Timer`, `Rtc`,
`Printf`, `Ata` and `Pci` are proved and left out of their runs.

| Run | Shows | Bounds |
|---|---|---|
| `interrupts` | the in-service bits are exactly those of the active stub; no nesting; no opening before the table is full and the controllers moved; no byte of the keyboard without a request once its handler is installed; nothing after the stop; ticks are exclusive; the abstract service is implemented; every service ends; the timer is served, and the keyboard unless the timer leaves no gap | the timer, the keyboard, line 4 of the master and line 8 of the slave: the first line with two ends of interrupt, where `int_no >= 40` decides; an exception and a system call; 3 nested frames, two more than occur |
| `interrupts_early_keys` | *violation*: see below | a key may be pressed before the handler is installed |
| `keyboard` | the decoder is in step with the bytes; the modifier flags follow the keys; the slot holds what was meant; no press is forgotten between the statements of `getch`; every stored press is returned or replaced by one that is | one shift key, a letter, the right Ctrl (a prefixed pair) and Pause (six bytes); a key is pressed or released while fewer than 2 bytes are under way, so that the bytes of two keys are, with all six of Pause behind the last byte of another |
| `keyboard_right_modifiers` | *violation*: see below | the same keys |
| `paging` | the kernel's pages are reached at their own addresses from the switch on, through the cache too; the last mapping is in the tables | 3 directory entries, 4 table entries, 2 cached translations: page 0 under the window, two of the kernel, one free |
| `output` | after `clear_screen`, the console is the abstract teletype, the CRT's cursor included; nothing is written below the screen; every standard format prints what it says and takes its words; any format takes no more than its directives could | 3 columns, 2 rows, a third row of memory below, 2 rows scrolled away: every cell is a first or last one; bytes of 4 values use both halves of the cursor; all formats of up to 6 characters over one character for each branch: two full directives fit |
| `numbers` | every number is printed in its shortest form, in a large enough buffer, by divisions that return quotient and remainder; the loops end | all numbers of one byte, signed and unsigned, in four radices |
| `clocks` | `wait` takes exactly the ticks asked for and ends; what `read_rtc` read was in the registers at one moment, its conversion is right, and it returns while the clock goes on | a counter of 8 values, from every value: every wait wraps somewhere; 3 seconds, half days of 2 hours, centuries of 2 years, digits of base 2: every carry and all four formats; a garbage byte that some formats could hold, and one that none could |
| `ata` | the survey finds a disk exactly if there is one; a record is the one of the disk asked for, read whole; between calls no drive is at work or has words left, until a 28-bit transfer; no transfer leaves its buffer; every call returns | 8 kinds of primary master (absent, packet, disks with each set of addressing modes and with sector sizes of zero, one sector, a size that does not divide what main reads, and all of it), 3 kinds at the other positions; a sector of two words; one or two sectors a command; two calls after the boot, so that every call follows every other |
| `ata_no_drive` | *violation*: see below | the same |
| `pci` | with one host controller, each function of bus 0 is checked, and checked once; on any machine the walk ends | 2 buses of 3 devices with 2 functions; bridges to the bus behind and to their own, with the codes of a bridge in their revision too; one host controller, several, and none at 0:0.0 |
| `pci_bridges` | *violation*: see below | the same |

Left and right shift together, the left Ctrl together with Pause (which sends the
left Ctrl's codes) and the cursor keys are left out of the `keyboard` run: its
properties are false with them, for the reasons below. The right Ctrl is in it,
as the key whose second byte must be taken for nothing else.

Each property of a passing run has a mutant, a definition with a plausible bug
in its place (they stand beside the definition, marked `mutant`), under which
TLC finds it violated.

### What the violations say

- `interrupts_early_keys`: a key pressed before `install_keyboard_irq` is either
  forgotten by the ICW1 of `init_IDT` or acknowledged by `irq_handler` with no
  routine to read its byte. The controller then waits for a read that never
  comes: the keyboard is silent for good.
- `ata_no_drive`: without a disk as primary master, `read_sector_chs` divides by
  the sector size nobody filled in (`ata.c:300`). `isr_handler` reports it and
  never returns, so that the boot ends there, where `kernel.c:71` and
  `kernel.c:76` report the missing drive and go on.
- `keyboard_right_modifiers`: `ps2.h:66` and `ps2.h:68` name the right Ctrl and the
  right Alt as keys, and the comments at `ps2.c:177` say Ctrl and Alt for both
  sides, but the byte behind 0xE0 is only looked up among the cursor keys: with
  the right Ctrl held and every byte decoded, `ctrl_pressed` is false. The right
  Alt goes the same way.
- `pci_bridges`: `pciConfigReadByte` returns the low byte of the double word for
  any offset (`pci.c:68`), against its comment (`pci.c:55`), so that a function
  with class 6 and subclass 4 is not seen to be a bridge, and `pci.c:276` does not
  go to the bus behind it.

Seen while modelling, plain from a line and without a run of their own:

- the second read of the port after 0xE0 (`ps2.c:143`) is one too many: with a
  controller that has the next byte there already, that byte is lost (the
  `keyboard` run and the theorem have `FastTransfer` false);
- a press stored between the two statements of `getch` is returned, and stays
  announced (`ps2.c:202`);
- both shift keys share one flag (`ps2.c:168`): releasing either clears it;
- a cursor key stores its scan code in the slot without announcing it, over a
  press that was announced (`ps2.c:148`);
- the window shares the page table of the first 4 MB and moves page 0, which
  `paging.c:53` says is mapped to itself;
- a new directory entry gets no page table of its own (`paging.c:39`), so mapping
  a page there maps all of its 4 MB through the one table;
- `map_page` flushes no cached translation (`paging.c:44`);
- `update_cmos` writes binary values whatever format the chip is in
  (`cmos.c:151`), and `main` prints `current_year` for the year (`kernel.c:68`);
- the command byte of `init_PIT` is a latch command (`pit.c:25`);
- `%02X` in `ata.c:411` prints `2X` and takes no argument; `write_sector_chs`
  goes on after it has found its buffer invalid (`ata.c:336`);
- no transfer does what it is for: the CHS and LBA48 commands go to ports beyond
  the task file, the 28-bit ones are followed by bytes of the block number as
  commands, each round of a loop asks for all the sectors again, and writes send
  half a sector, since `outsw` halves the count it is given (`util.c:59`);
- `read_sector` divides by a geometry nobody fills in (`ata.c:377`, `ata.c:393`);
- the loop over several host controllers ends at the first one that is there
  (`pci.c:318`), so that such a machine is not walked; `getSecondaryBus` tests
  one byte and returns another, both the wrong ones (`pci.c:134`).

## 5. Fairness

- `Interrupts`: a stub runs on to its end (`WF(Stub)`), because nothing but an
  interrupt takes the CPU from it; a main program with interrupts off runs on
  (`WF(Main /\ ~IFlag)`): it only turns them off around straight code; the timer
  keeps pulsing; a line that is signalled again and again while the flag is set
  is taken (`SF(Deliver)`): the CPU looks at its pin at every instruction.
  Nothing is assumed of the main program with interrupts on, of the other
  devices, or of the person typing.
- `Keyboard`: the controller passes bytes on, a requested handler runs, and the
  main program gets to poll: strong fairness, since interrupts disable its steps
  again and again and, by `EveryServiceEnds`, give the CPU back each time.
- `Timer`: ticks come (`TimerServed`) and the loop runs.
- `Rtc`: an announced update takes place and ends; the program runs.
- `Numbers`, `Pci`: the program runs.
- `Ata`: the driver runs, and a drive that is busy comes to an end of it, one way
  or the other. That is an assumption about the hardware: `wait_for_ready` has
  no limit, and with a drive that stays busy no call returns.

## 6. What is proved

| Theorem | For every | Rests on |
|---|---|---|
| `Interrupts_proofs!TypeCorrect`, `InServiceCorrect`, `StubsDoNotNest`, `GatesAreReady`, `TicksAreExclusive`, `StopIsFinal` | set of devices, of driver lines and of software vectors, depth bound, counter width | the assumptions of `Interrupts` |
| `Interrupts_proofs!BytesAreAnnounced` | the same | and that no key is pressed early (`~EarlyKeys`); the run above shows it is needed |
| `Interrupts_proofs!Refinement` | the same | the invariant below |
| `Paging_proofs!TypeCorrect`, `KernelStaysReached` | number of entries, cache size, set of resident and mappable pages | the assumptions of `Paging`; the window's page is not resident |
| `Paging_proofs!MappingsTakeEffect` | the same | the same |
| `Keyboard_proofs!DecoderStaysInStep` | set of keys, of any kind, and number of bytes held back | no byte arrives between the two reads of one handler run; no key has the code 0x60 or 0x61, whose release reads as a prefix (scan code set 1 has none) |
| `Keyboard_proofs!NoPressIsForgotten`, `TypeCorrect` | the same | none |
| `Keyboard_proofs!FlagsFollowKeys` | the same; of the Ctrl and the Alt flag it says nothing while the right key is held | the same as `DecoderStaysInStep`; one shift key (`OneShiftKey`); not both the left Ctrl and Pause (`CtrlOrPause`) |
| `Keyboard_proofs!SlotHoldsWhatWasMeant` | the same | the same as `FlagsFollowKeys`; no cursor keys (`NoCursorKeys`) |
| `Console_proofs!WritesStayOnScreen` | screen size, text, memory size | the assumptions of `Console`; the property ends with the first tab over the end of the last row |
| `Console_proofs!TypeCorrect` | the same, past such a tab too | the assumptions of `Console` |
| `Console_proofs!Refinement` | the same | the assumptions of `Console` |
| `Console_proofs!FormatsArePrinted`, `ReadsNoStrayWords`, `PrintfTypesCorrect` | format, of any length | none |
| `Numbers_proofs!DivisionIsRight`, `DivisionsAreRight` | word width, sequence of calls | none |
| `Numbers_proofs!DigitsDenoteTheNumber` | word width, radices, length of the buffer | words of an even number of values; radices of two or more that are words |
| `Numbers_proofs!BufferHasRoom` | the same | the power of each radix that the buffer is as long as exceeds the largest word (`HasRoom`): 8 to the 32nd does, for 64 bits |
| `Clocks_proofs!TimerTypesCorrect`, `WaitIsNeverLate`, `WaitIsExact` | counter width, durations | no `wait(0)` |
| `Clocks_proofs!RtcTypesCorrect`, `NothingTorn`, `ConversionIsRight` | size of the fields, digits and centuries, garbage a read may return during an update | the assumptions of `Rtc`; an update comes after three rounds at least, as in the model |
| `Ata_proofs!TypeCorrect`, `TransfersStayInBuffer`, `CallsStayInStep`, `DrivesAreIdentified`, `SurveyTellsTheTruth` | machine, sector size, sectors a command is for, sequence of calls, what an idle data port reads as | the assumptions on drives above |
| `Pci_proofs!TypeCorrect` | number of devices and functions, machine | the machine has the registers read |
| `Pci_proofs!EachIsWalkedOnce` | the same | the same; the property is about machines with one host controller |

The arguments:

- *Interrupts.* None of the safety properties is inductive alone. The invariant
  proved says together: there is at most one frame; with one, the flag is clear,
  but for the last instruction, in the shadow of STI, and was set when the frame
  was entered; the controllers hold exactly the bits that
  frame still owes; the flag is only set once table and bases are in place; the
  routines of lines 0 and 1 and the steps in their stubs agree; and a byte that
  waits has a request or a handler before its read. No frame is entered with the
  flag clear or in the shadow, and no stub sets it before that shadow, which ends
  with the frame: hence no nesting, hence one frame's bits, hence an end of interrupt, which
  retires the highest bit, retires the right one. The refinement then needs only
  that a signalled request is one nothing pending outranks when no bit is set.
- *Paging.* The invariant says what the table holds at each step of
  `init_paging`: the entries below `i` are the identity; after the loop, all of
  them but the window's. Then a resident page that is never mapped keeps its
  entry, and a cached translation of it cannot differ.
- *Console.* Until such a tab, every action leaves the cursor on the screen, so
  the one cell `putc` writes, and the rows `scroll_up` writes, are on it. For the
  refinement the roll of the teletype is the rows scrolled away followed by the
  rows of the screen: a write changes one row of it, and a scroll moves the
  border by a row and appends a blank one. The invariant adds that the two bytes
  in the CRT controller are the cursor's, so that dividing them by the width
  gives the carriage back. A tab is a recursive function of the columns left to
  go; that it moves as many is shown by taking the first number it is false of.
- *Printf, words.* The words taken, and those the directive being read may still
  take, are no more than the `%`s and the pairs of `l`s read so far. A directive
  has a claim to a second word only once it has read its pair.
- *Printf, output.* After some number of reads the reference is where the machine
  is, with the same output and words, or at the `%` of the directive the machine
  is inside of, with as many length characters behind it as the state says; or it
  has met a directive that is not standard, and nothing is claimed. At the end of
  the format the machine cannot be inside a directive of a standard format.
- *Division.* `quotient * b + a = dividend` is kept, and bounds `quotient` by
  `dividend` as long as `b` is not zero: it cannot wrap.
- *Numbers.* There is a sequence of what was left of the number after each digit,
  from the magnitude of the argument on, in which each is the next times the
  radix plus a digit of the buffer. What has been put out from the back of the
  buffer denotes the element of the sequence it has come to, and the magnitude at
  the end. A leading zero would be the digit of an element that is zero, and the
  loop ended there. What is left, times the power of the radix the digits so far
  make, never exceeds the largest word, so that no more digits follow than the
  buffer has places.
- *Timer.* While `wait` loops, `end_ticks` is `ticks` plus what is left of the
  wait, modulo the width; a tick that makes it zero is followed by a look.
- *Clock.* `since` is how many rounds have begun since the last update. Until
  an update begins in this round, what has been read agrees with the registers.
  If one has, or still may (`since` is 0, or 3), the round before read them whole.
  Of two equal rounds one is therefore what the registers were at one moment. The conversion is arithmetic with digits:
  quotient and remainder of a digit pair give the field back.
- *Keyboard.* The bytes on their way are such that a second byte of a pair comes
  after 0xE0 and nowhere else, the decoder awaits one exactly if the next byte is
  one, a byte in the buffer has its request, and there is none while the handler
  is between its two reads. A key adds a stretch of bytes that is well-formed by
  itself, and joining two such stretches gives one.
- *Keyboard, flags and slot.* Decoding the bytes on the line, from the flag as it
  is after the byte in the buffer, leads to whether the key is down now (`Leads`),
  and each byte carries, as history, the shift it was sent under, which is the
  flag when the decoder comes to it. No other key's bytes decode to the flag: with
  two shift keys, or Pause and the left Ctrl, one would.
- *Ata, buffers.* The rounds of a call times its unit never exceed the size the
  caller gave, a round under way is one of them, and a round moves at most its
  unit, halved or not.
- *Ata, drives.* While no block number has gone out as commands, a drive is at
  work only between an IDENTIFY and its last word; it is then the selected one,
  its words left and the words read make up a sector, and the words read are all
  its own. Hence the record is the disk's, hence the survey's verdict: the
  positions before the one looked at have no disk. Without the invariant on what
  is left over, one call could read the answer to the call before.
- *Pci.* The class and the subclass are read from the same byte, so no function
  passes for one of class 6 and subclass 4, and one loop at most is open
  (`OneLoopOpen`). That is the defect of `pci.c:68`, which the proofs have to use,
  not a merit: with a repaired read, a bridge to its own bus would not let the
  walk end.
- *Pci, the walk.* What has been visited is what `OnBus` has before the device and
  the function that the one loop has come to, and as many visits as members: no two
  are the same.

The provers have no induction for properties given as operators. Where a proof
needs one, about a recursive function or a sequence of any length, it takes the
least number its claim is false of (`LeastOfSet`, from the well-foundedness of
`<`) and finds a smaller one.

Only model-checked: everything temporal (`EveryServiceEnds`, `TimerServed`,
`KeyboardServed`, `PressReturned`, `Finishes`, `WaitEnds`, `ReadEnds`,
`CallsEnd`, `WalkEnds`), since fairness and ENABLED are out of the prover's
reach. The theorems about `Printf` and `Numbers` are about one format and one
number at a time: what `printf` prints as a whole is both together.

## 7. What is left out

- Twelve o'clock in the 12-hour formats of the clock: the code makes 12 pm 0 and
  leaves 12 am 12 (`cmos.c:132`); `Converted` excludes it.
- A write of `update_cmos` that meets an update of the chip.
- `wait(0)`, which a tick between its two lines turns into a wait of 49 days.
- What the console shows after a tab over the end of the last row: from there
  newlines go on below the screen.
- Flags and widths in formats: `%02X` in `ata.c:411` prints `2X` and takes no
  argument.
- Graphics mode 0x13, which nothing sets and whose comment says it does not work.
- Non-maskable interrupts, which could print in the middle of a `putc`; faults
  raised by the kernel's own mistakes are `SoftInterrupt` with vectors below 32.
- Of `pci.c`: `readPCIConfig`, which clears memory through a pointer to a pointer
  and so has no defined behaviour after that, the command register, which nothing
  uses, and `arch_msi_address`. Of several host controllers only that the walk
  ends is checked.
- The segment descriptors (one straight line run once), the multiboot information
  (nothing calls it: main does not keep the pointer), the speaker (two straight
  lines nothing calls).
- A drive that stays busy for good, and what a sector holds: nothing in the
  kernel looks at the data it reads.
- The compiler: no optimisation is asked for (`src/Makefile:23`), so variables
  are where the source has them; `century` in `read_rtc`, which is read without
  ever being written, is its own copy.
