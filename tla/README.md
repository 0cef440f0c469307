# Morbo in TLA+

Morbo is a set of small programs that a PC runs between its boot loader and its
operating system, and the programs on another PC that talk to it over FireWire.
Morbo itself finds an OHCI-1394 controller, opens the machine's memory for remote
DMA, and starts the next multiboot module: the one it was given, or one that a host
on the FireWire bus has written into its memory. Paths below are relative to the
repository; a module `M` is the file `M.tla` here, `MCM` instantiates it for TLC.

Run a check with `tlc -config MCOhci.cfg MCOhci`, the proofs with
`tlapm M.tla` for the eight modules `M` of section 5. `PROJECT.json` lists the runs, maps every definition to the
lines it models, and gives for every property a mutant of the code that violates it.

## 1. The system

| Part | State it keeps | Operations | Talks to |
|---|---|---|---|
| OHCI driver, `standalone/ohci.c` | controller registers (events, filters, link, self-ID buffer, ROM pointer), the driver's place in them | initialise, poll events, handle a bus reset | the controller, by registers; the bus, by what the controller lets through |
| Morbo's `main`, `standalone/morbo.c` | `mods_count` of the multiboot information, command line | wait for modules, start one | the driver; hosts, by remote DMA |
| Host script, `boot/morbo.py`, `boot/firewire.py` | nothing that survives a run | find Morbo nodes, write modules and list, boot | the target's memory, through the transfer programs |
| Transfer programs, `tools/fw_peek.cpp` (also `fw_poke`, `fw_screen`) | position in the transfer | read or write a range of a node's memory | the bus; the script, by a pipe |
| Memory map, `standalone/mbi.c` | blocks of the multiboot memory map | take protected memory, find free memory, relocate modules | boot loaders |
| Boot loaders: `unzip.c`, `farnsworth.c`, `bender.c`, `morbo.c`, `zapp.c`, with `elf.c` | module list, memory map | relocate (and inflate) modules, start the first | the next stage, by the multiboot information |
| bender's serial port, `standalone/bender.c`, with `pci.c` | the BIOS data area | find a serial controller, write its port where later stages look for it | PCI configuration space; every later stage |
| `zapp`, `standalone/zapp.c`, `acpi.c`, `pci.c` | ACPI root tables and the DMAR table | change, hide and add entries of the DMAR | the firmware's tables; PCI configuration space |
| `fw_scan`, `fw_scan/fw_scan.c` | static record of each node, signal flags | scan the bus every second, show the list | the bus, the terminal, signals |
| 64-bit division, `standalone/qdivrem.c` | digits | `__udivdi3`, `__umoddi3`, `__divdi3` | the compiler |
| Services: `util.c`, `serial.c`, `reboot.c` | timer reading, `serial_base`, `output_enabled` | wait, print, exit, reboot | timer, serial port, keyboard controller |
| Command lines: `parse_cmdline` of three programs, `strtok.c`, `strtoull.c`, `strncpy.c` | the buffer, two save pointers | options into variables and tables | the boot loader |
| Decompressor: `tinfgzip.c`, `tinflate.c` | place in the bit stream, code trees, output | length of a gzip file, decompress it | relocation of modules |

What makes it hard, and what has to be true in spite of it:

* **The bus is reset at any time**, by any node, between any two register accesses
  of the driver. A reset closes the four request filters. *The driver must open them
  again, and must not miss a reset by clearing the event of a second one together
  with the first.* Three kinds of waiting (for the PHY clock, for the forced reset, for
  the self-ID phase) poll bits that other events change too.
* **Two machines share `mods_count` and nothing else.** The target zeroes it and waits
  for it to change; the host checks that it is zero, writes several things block by
  block, and writes it last. Either may be slow, die or lose a transaction in
  between. *What the target starts must be complete and of one run; a boot that the
  host reports must happen; nobody writes into a node that runs already.*
* **Stages of a boot chain trust what earlier stages left.** Each one recomputes from
  sizes where the modules ought to be, moves them with overlapping copies, and takes
  memory without removing the modules from the memory map. *No stage may damage
  what a later one needs.*
* **Tables are changed in place with several copies and checksums** (zapp). *Both
  root tables must agree, every checksum must be right, reserved room must suffice.*
* **The configuration ROM has one writer and two readers** that parse it in different
  ways, and a controller that swaps some of its words. *A Morbo must be recognised by both.*
* **Nobody watches a boot program.** *A `wait()` must end in time, a busy serial port must not hold
  anything up, and a program that gives up must reach the reset line.*
* **Numbers are narrow**: an 8-bit generation, 8-bit timers, an `unsigned short` base
  in the division.

Every hazard, with its line and the properties that watch it, is in `PROJECT.json`.

## 2. The modules

```
RemoteDma  <--- implemented by --- Ohci <--- OhciProofs
    +------ used by ------ RemoteBoot <--- RemoteBootProofs
ConfigRom <--- FwScan <--- FwScanProofs          FwTransfer <--- FwTransferProofs
Pci <--- Zapp <--- ZappProofs                    Pci, Console <--- Bender <--- BenderProofs
MbiMemory <--- BootChain <--- BootChainProofs
MbiMemory <--- FreeMemory <--- FindMemory        CommandOptions <--- CommandLine
Qdivrem, FindMemory, CommandLine <--- LibraryProofs
Qdivrem, FindMemory, CommandLine, Inflate <--- MCLibrary  (inputs: MemoryMaps, CommandLines, GzipFiles)
```

**`RemoteDma`** is the abstract promise of a Morbo node: remote DMA is off, open,
closed by a bus reset or stopped for good, and a closed node is opened again
(weak fairness of `Reopen`).

**`Ohci`** has an action per register access or busy wait of `ohci_initialize`,
`ohci_poll_events` and `ohci_handle_bus_reset`; `pc` names the next one, `caller` the
place the handler returns to. `Poll` is one call of `ohci_poll_events` with its
else-if chain. The controller is external and is written from how the driver
uses its registers: the PHY clock starts whenever it likes once LPS is set
(`SclkStarts`); a probe of the PHY without clock may or may not raise `regAccessFail`;
`BusReset` closes the filters, sets `busReset`, and leaves `selfIDComplete2` alone;
errors appear at any time. Firmware or an earlier program may leave it with the link on, self-IDs received, any
events and open or closed filters (`Init`); only the soft reset ends that. `supported` says what its version register
holds: a controller that is refused is not reset, and with `keepgoing` `main()` polls it all the same
(`CheckVersion` fails, and the driver is in `mainPoll`). A `wait_loop` may run out of ticks at every place
where the code has one, an assertion on the version or the BARs may fail and an allocation may find nothing
(`Exit`: the machine reboots). The contents of the ROM and
of the self-ID buffer are left out here; the PHY accesses between the clock and the link
(contender bit, ports) are one action, which needs the clock.
`ClosedFilterIsSeen`, `HandlerCanFinish` and the refinement of `RemoteDma` are about controllers that were soft-reset
(`SoftResetDone`); one that was not is no node of Morbo, and `dma` is off.

**`RemoteBoot`** is `main()` of the target against `boot/morbo.py`. Its `dma` variable
and its `Reopen`, `Stop` and `Close` steps are those of `RemoteDma`: the
composition uses the abstract node that `Ohci` implements. The places the host
writes are blocks of the modules and their list `1..Blocks`, then the header, then
`mods_count`; for each the model remembers which run of the host wrote it. A failed write
may have happened; with posted writes (`--posted`) the host gets its acknowledgement
before the write lands, and it may then be lost. Host runs end by an exception or by the
user (`HostDies`) and start again with either entry of the script. What the target does
with `start_module` is in `StartModule`: it decrements the count and starts the first
module, or returns.

**`MbiMemory`** has the arithmetic of both allocators of `mbi.c`. **`FreeMemory`** says what
`mbi_find_memory` promises, without a loop, and **`FindMemory`** is its loop, one action per path through its body.
**`BootChain`** is a chain of loaders that ends with a kernel, which may be compressed, and a data module.
A stage allocates what it needs (morbo and zapp), moves the modules in one of the three ways
`mbi_relocate_modules` goes (not asked, already there, moved by copies from the last module to the
first, with memory held byte by byte; unzip inflates on the way), and runs `start_module`: the first
module leaves the list, the trampoline that `elf.c` generates at 0x7C00 copies and zeroes the module's
segments one by one (`LoadSegment`), though they may replace the program that generated it, and jumps
(`EnterStage`). The highest address a stage may move modules to is its `phys_max`; bender's is lower
than the others'.

**`FwTransfer`** is a transfer of `fw_peek` or `fw_poke`: the search for a GUID node by node,
the block loop with retries for reads and none for writes, and the script that feeds the pipe. That a single block is read or
written at one moment is an assumption of the model, about two FireWire controllers; no property is about it.

**`ConfigRom`** is the configuration ROM word by word: `GenerateCrom` and `LoadCrom` write it as
`ohci_generate_crom` and `ohci_load_crom` do, `QuadletReads` is what the bus then reads of a controller
that keeps the first words and of one that reloads (and swaps) them, and there are the two readers: the
directory walk of `collect_node_info` and the fixed indices of `is_morbo`, which also wants `mods_count` to be zero.

**`FwScan`** is the main loop of `fw_scan` with its static node records and its two signal
handlers, while devices are renumbered. What a record shows is computed from the words that were read, by
the operators of `ConfigRom`. "BOOT" is compared with what `is_morbo` says of a node that waits for modules: fw_scan
does not read `mods_count`, and shows "BOOT" for a Morbo that was given modules or runs too.

**`Pci`** is configuration space as `pci.c` reads it: which functions a scan sees, the last match by class, the
capability list. **`Zapp`** is `main()` of zapp with the helpers of `acpi.c` and `pci.c` it calls; the walk along a
capability list (`pci_find_cap`) takes a step per capability. An ACPI table is its signature, its entries and
whether its checksum is right; several zapps may follow each other.

**`Console`** has the services every boot program is linked with, as actions: `wait()` against a timer that runs by
itself, `serial_send` with its give-up counter, `__exit` and `reboot`. A program enters one by naming where it goes on
(`ret`). **`Bender`** is `main()` of `bender.c` and the beginning of the program it starts: the search for a serial
controller, the BIOS data area that carries its port to the next program, and a `main()` that ends in every way one can.

**`Qdivrem`** is Knuth's Algorithm D as the code has it, with the digit base as a constant
and `long` arithmetic modulo its square.

**`CommandLine`** is `parse_cmdline` of morbo, bender and zapp over one buffer: `Strtok` returns the token and
the changed buffer and save pointer, so that the two nested uses in zapp share what they share in C. **`CommandOptions`** is what
a line says, without a cursor: the set of places where words begin, the arguments behind a prefix, and numbers without a
cutoff. For an argument that is missing, `strtok_r` returns NULL and zapp takes the number that `strtoull` finds there: it is the
constant `AtNull` of both modules. `OptionsInForce` compares the two.

**`Inflate`** is the gzip header, the three kinds of blocks, the code trees and the copying of
matches, with the tables of RFC 1951 as the code computes them. `GzipFiles` has an encoder of its own, written from the format,
that makes files with chosen blocks, matches, trees and headers; the property is that decoding gives back what was encoded.

Definitions whose comment begins with `Mutant` are not part of a specification:
they are plausible bugs, kept beside the action they alter, that show that the
properties can fail.

## 3. What the runs show

| Run | Properties | Bounds |
|---|---|---|
| `ohci` | `TypeOK`, `ClosedFilterIsSeen`, `HandlerCanFinish`, `PhyHasClock`, `WarningMeansNoReset`, `EventsAreHandled`, `RemoteDmaSpec` | 2 attempts to start the clock, 1 extra wait, 2 polls in initialisation, generations modulo 3, 3 foreign resets and 2 errors, counted anew from the soft reset |
| `remote_boot` | `TypeOK`, `StartedIsComplete`, `NoLostBoot`, `NoDmaToRunning`, `DoneIsStarted` | 2 modules, 2 blocks, 3 runs of the host, 2 failures, 2 resets, 2 posted writes, all 24 setups of the target |
| `boot_chain` | `ModulesIntact`, `ProtectedIntact`, `StageIsLoaded`, `MovedOnce` | chains of one, two or (after unzip or bender) three loaders before a plain or compressed kernel and a data module, pages of 4 bytes, 80 bytes of memory, 19 sizes of extended memory |
| `bender` | `NeverEarly`, `InTime`, `OutputReachesPort`, `StartsOrReboots` | timer of period 4, waits of 3 and 6 ticks, pauses of up to 3 and up to 5 ticks, one retry of the serial port, 1 dot, 2 pulses of the reset line; several buses, BIOS data areas and ports |
| `library` | `Divides`, `DividendIsKept`, `OptionsInForce`, `FileIsRestored`, `FindsTheHighest`, `ReturnsOnOrderedMap` | division in base 4: all pairs of unsigned 8-bit numbers, signed ones at the corners; all morbo lines of up to 5 and bender lines of up to 4 words and spaces, zapp lines of up to 5 options with numbers around 8 bits and with too few arguments, tables of 3; gzip files with each kind of block and header field; pages of 3 bytes and up to three blocks in any order, aligned or not |
| `zapp` | `TablesRight`, `RootTablesAgree`, `DupTakesTheRepaired`, `RoomIsEnough`, `RepairsInForce`, `Finishes` | 3 tables, up to 4 entries, 5 functions with capability lists of 2 and 3, up to two additions, two zapps |
| `fw_scan` | `TypeOK`, `ListShowsTheBus`, `InterruptEnds` | buses of up to 2 of 6 kinds of nodes, 1 renumbering, 1 retry, 2 signals |
| `fw_transfer` | `TypeOK`, `NoHoles`, `SuccessIsComplete`, `PeekShowsMemory`, `Ends` | blocks of 2, lengths 1 to 6, chunks 2 to 4 in a pipe of 4, 3 nodes, 1 reset, 1 retry, 2 changes of memory |

Why these bounds are enough to see what matters:

* `ohci`: a reset takes two things to be missed, a handler in progress and a second
  reset; three foreign resets and the forced one allow a reset in each register
  write of a handler that is itself the second. With generations modulo 3 the count
  wraps, which is why `WarningMeansNoReset` has its exception. Both loop bounds of the LPS
  loop are exceeded. The theorems of section 5 drop these bounds.
* `remote_boot`: one run that leaves something half written, one that starts from that, and
  one more that interferes. Two blocks tell "some" from "all"; two modules tell a count that
  start_module decremented from zero.
* `boot_chain`: relocation copies overlap when the modules lie less than their length
  below the top of memory, and the 19 sizes of extended memory cover the distances from
  "does not fit" over "fits exactly" to "far away", with modules loaded at either of two pages. A
  compressed kernel and the data are longer after inflation. Loaders are linked to the page below the
  modules, and the kernel needs the pages where the boot loader put them. A third loader
  changes something only if an earlier one moves the modules in its own way, which unzip and
  bender do.
* `bender`: a period of 4 with waits of less and of more than a period, pauses shorter and longer than one; the theorems of
  section 5 drop the numbers. Ports that work, that become ready sometimes, that never do and that are not there, at the controller's
  port and at the one the BIOS left.
* `library`: three bytes per page give every combination of aligned and unaligned ends. The division is
  uniform in its base; base 4 has every case: no, one, two and three leading zero digits, single-digit divisors, both
  corrections of the guess and the add-back. Numbers of 8 bits let decimal, octal and hexadecimal ones overflow at
  the last digit and before it. The decompressor has its real tables; matches reach back by less and by more than
  their length, into the block before, and have the length 258; stored blocks begin in the middle of a byte.
* `fw_scan`: the six kinds are Morbos behind a controller that reloads the ROM header and one that does not, a
  device with a text, one without, one with a minimal ROM and one that is not ready.
* `zapp`: the buses have a device on bus 0, behind a bridge that forwards its IDs, behind one that does
  not, and bridges of two ranges; the firmwares list the DMAR before, after and
  without a second one with a wrong checksum, with and without an XSDT.
* `fw_transfer`: three blocks have a first, a middle and a last, full or short; chunks of three do
  not fit blocks of two.

### Disagreements

Four runs look for, and find, a state in which the code does not do what its own comments say.
They are `findings` in `PROJECT.json`.

* `ohci_selfid` (`WaitedForSelfId`): the handler waits for `selfIDComplete2` "for completion
  of SelfID phase" (`ohci.c:462`). The bit keeps its value over a bus reset, so a second
  reset during the wait finds the completion of the first.
  The node still opens its filters (`ClosedFilterIsSeen`), but reads the self-ID buffer too early.
* `remote_boot_lost` (`ZeroErasesNoBoot`): a Morbo that was started without modules has
  `mods_count = 0` from the beginning and is reachable before `main()` writes its own zero
  (`morbo.c:142`). A host that is quick enough is told "Boot!", and its count is erased.
* `find_memory_unaligned` (`ReturnsOnUnalignedBlocks`): both `continue` statements of
  `mbi_find_memory` (`mbi.c:31`, `mbi.c:40`) skip the line that advances to the next block; a block that
  lies inside a page is looked at for ever.
* `fw_scan_text` (`TextIsOwnOrEmpty`): `info_str` "is an empty string, when no info is available"
  (`fw_scan.c:277`), but is never cleared; a node without text shows that of the device that
  had its number earlier.

Other things the models brought up, which no run is devoted to:

* `ohci.c:311` treats `regAccessFail` as "SCLK has not started yet" and waits, up to ten
  times, but the flag was cleared before the one read and the read is not repeated; if the
  branch is taken, initialisation always fails in the end. (In the model: `LpsSample`.)
* `fw_scan.c:117`: after the first SIGINT the handler becomes that of SIGWINCH, so that
  "a second interrupt exits at once" cannot happen; `InterruptEnds` holds because the first one
  ends the loop.
* `README` says that Morbo without a controller "will complain, but continue";
  `morbo.c:127-133` does so only with `keepgoing`.
* Booting a node with a single module brings `mods_count` back to zero (`elf.c:73`), so that hosts
  take the running node for a waiting one and overwrite it: `NoDmaToRunning` and `StartedIsComplete` are about
  nodes with more than one.
* With posted writes a lost write leaves the target with incomplete modules:
  `StartedIsComplete` and `DoneIsStarted` exclude it.
* `acpi.c:73` wants 4K alignment and passes 0x1000 where a number of bits is expected.
* `zapp.c:67`: the assertion on the number of `disabledmar=` options tests the counter of additions. More than
  `MAX_FIXUPS` of them are written behind the table, and a line with `MAX_FIXUPS` additions may not have any.
  `OptionsInForce` is about lines without the former and names the latter.
* `parse_cmdline` copies with `strncpy`, which leaves no end in a buffer that is full: `CommandLine` is about lines shorter than
  the buffer. zapp hands what `strtok_r` returns to `strtoull` without looking (`zapp.c:57-69`): an option with too few arguments
  is not refused but gets the number the bytes at address 0 happen to spell.
* `ohci_initialize` refuses a controller of an unknown version (`ohci.c:258`) before it resets it. With `keepgoing` `main()` still
  polls it (`morbo.c:119-145`): a pending bus reset then starts the handler, and its assertion that self-IDs are received
  (`ohci.c:463`) may fail. TLC shows it when `SoftResetDone` is dropped from `HandlerCanFinish`. Without any controller, or with one whose
  registers are not mapped, the same loop reads through a pointer that was never set; that is not modelled.
* "BOOT" of fw_scan only says that a node is a Morbo; `morbo.py:48` also reads `mods_count` and leaves out nodes that have modules.
* `bender.c:90`: the offset for an XR16850 is added before the port is compared with zero, so that such a chip without an
  I/O port is taken to have one at 0xc0. `OutputReachesPort` speaks of controllers that have one.
* `fw_scan.c:210`: the string begins two words into the leaf but is given the length of the whole leaf; the
  two words behind it, which were not swapped, are shown too unless the text ends in a NUL, as Morbo's does.
* The ROM is parsed without looking at the end of the 32 words that were read: an entry may point, or a directory reach, past it.
  The ROMs of the run and of the theorem stay inside.
* A gzip file is believed to have a header and a trailer; the damaged files of `GzipFiles` have wrong contents, but do
  not end early.
* zapp reserves two entries per addition. Several bridges that claim the same bus, as firmware
  leaves them only if it did not configure them, need more: `RoomIsEnough` and `RepairsInForce` speak of
  configured bridges.
* `pci_find_cap` ends if the capability list does; `Finishes` is about such lists.
* "Cannot relocate" is only printed: a loader that finds no room starts the kernel all the same, whose
  segments may then replace modules that were never moved. `ModulesIntact` and `StageIsLoaded` leave that case
  out (`Harmless`).
* The check of `mbi_relocate_modules` for overlaps (`mbi.c:155-195`) looks at the ends of the modules, not at the strings behind them. If a
  single module is left and moves a second time by less than its length, its string is overwritten before it is copied.
  With a kernel and another module this cannot happen (`Copying` in `BootChainProofs`), so the chains have both.
* bender asks for modules below its own limit, but modules that unzip has put higher stay there: a module that
  ends above the new place counts as an overlap (`mbi.c`: "Modules might overlap."). Modules move a
  second time only if the limit of a later stage is higher, which is what `MovedOnce` says.
* If unzip leaves low memory without room, a later allocation may come from the memory where the
  relocated modules lie, because they are not removed from the map. The maps of `boot_chain` have
  low memory of a usual size.
* `fw_poke` ends successfully at a short read; `SuccessIsComplete` asks for a feeder that
  writes multiples of a block, as the script does.
* A GUID is compared in two reads; a bus reset between them, or after them, makes the program speak
  to another node. `NoHoles` and `SuccessIsComplete` are about transfers without reset where they name a node.

## 4. Fairness

* `Ohci`: weak fairness of `Driver`, since Morbo is the only program on its machine and its
  loop never blocks; of the forced reset, once the PHY was told to reset the bus; and of
  `SelfIdDone`, since the bus ends a self-ID phase. Nothing is assumed of the clock, of
  other nodes, of errors, or of the moment modules arrive (`MainLeaves`). Foreign
  resets are bounded: on a bus that is reset for ever nobody can promise an open node.
* `RemoteBoot`: weak fairness of the target's steps, of `Reopen` (this is what `RemoteDma`
  promises), of looking at `mods_count`, of posted writes (the controller delivers them), and
  of a host script that nobody interrupts. Failures, resets, `HostDies`, `HostRestarts` and
  `TargetExits` are not fair.
* `Bender`: weak fairness of the program and of the timer (`TimerRuns`): neither waits for the other. Nothing is
  assumed of the serial port and the keyboard controller, except that a port that works is ready before the tries are
  over. `StartsOrReboots` and `InTime` are about machines whose pauses are shorter than the period of the timer (about
  0.2 ms); on others `wait()` may miss whole periods and has no bound.
* `FwScan`: `WF(Main)`: the loop runs, and reads return. Signals and renumbering are not fair.
* `FwTransfer`: the program and the script run; a process waiting at the pipe has no enabled
  step. Failing transactions, resets and changes of memory are not fair.
* The sequential modules have `WF(Next)`, the library `WF(Search)`, the only job with a liveness property. `CHECK_DEADLOCK FALSE` stands where the program ends (it
  exited, rebooted, or started the next module).

## 5. What is proved

`OhciProofs` proves about `Ohci`, from `OhciAssumption` alone (numbers are numbers, at least one
attempt and one generation), for every number of retries, polls, resets and errors and every
width of the generation:

| Theorem | Statement |
|---|---|
| `TypeCorrect` | `Spec => []TypeOK` |
| `PhyAlwaysHasClock` | `Spec => []PhyHasClock` |
| `NoResetIsLost` | `Spec => []ClosedFilterIsSeen` |
| `HandlerAlwaysCanFinish` | `Spec => []HandlerCanFinish` |
| `WarningIsRight` | `Spec => WarningMeansNoReset` |
| `DriverImplementsRemoteDma` | `Spec => RemoteDma!Init /\ [][RemoteDma!Next]_dma` |

The inductive invariant is built in layers, each inductive given the ones before:

1. `RegistersOK`, then `CountersOK /\ LpsCounts`: the retry counter of the LPS loop stays a
   natural number only because the loop is left when it reaches one, so its type
   depends on the program counter (`LpsCounts`).
2. `ClockInv`: that the PHY has its clock after the loop does not follow from the loop's
   exit condition by itself. It needs to know that the clock never runs without LPS, and that a
   probe that was answered (`phyRead = "done"`) was sent to a running clock.
3. `LinkInv`: a filter may be closed for two reasons, and the second handler's clearing of
   `busReset` is harmless only because it comes before the filter writes. Of a controller that was soft-reset the invariant says
   where the driver can be when the link is up, that self-IDs are received from the time
   the buffer is set, and that all filters are open when the link comes up; it says nothing of one that was refused. `NoResetIsLost` and `HandlerAlwaysCanFinish` are accordingly about controllers that were
   reset, whatever state they were in before.
4. `GenInv`: from the saved generation on, the number of resets the generation shows is
   bounded by those that happened, and is at least one once the forced one happened, unless
   so many happened that it may have wrapped.

For the refinement every action is shown to map to a step of `RemoteDma` or to leave `dma`
unchanged: `LinkOn` is `LinkUp` (by `LinkInv` with all filters open), a filter write may be `Reopen`,
`BusReset` may be `Close`.

`RemoteBootProofs` proves about `RemoteBoot`, from `RemoteBootAssumption` alone, for every number of
modules and blocks, every depth of the posted-write queue, and however often hosts run, die, fail or
find a reset bus:

| Theorem | Statement |
|---|---|
| `TypeCorrect` | `Spec => []TypeOK` |
| `ZeroIsHarmless` | `Spec => NoLostBoot` |
| `StartsOnlyComplete` | `Spec => []StartedIsComplete` |
| `NoWriteToRunning` | `Spec => NoDmaToRunning` |

* `KeptAway`: until `main()` writes its zero, the boot loader's count is still there, and a host
  that reads it does not come past its first check.
* `HostInv` and `BootInv`: the count alone synchronises the two machines, so the proof has to say what each
  place of the host's program knows: between the last check and its own write the count is zero, the
  header it holds carries a zero, and everything before `next` has been written by this run. Nothing may be known
  of the writes of earlier runs. A count with an owner then stands above a complete set of this owner's
  writes; since hosts stay away from a count that is not zero, it remains complete when
  the target takes one module off.
* `Posting`, `QueueInv` and `CountInv`: with posted writes the count changes long after the host is done.
  Writes land in the order they were posted, the count is the last one, and the next run's first read waits for it:
  while the count is not zero the queue is empty and no host is past its check.

`BootChainProofs` proves about `BootChain`, from `BootChainAssumption`, for every memory map, chain of loaders, image,
length of a module, compressed or not, list of allocations, and limit of relocation:

| Theorem | Statement |
|---|---|
| `Invariance` | `Spec => []IInv` |
| `ProtectedStays` | `Spec => []ProtectedIntact` |
| `ModulesStay` | `Spec => []ModulesIntact` |
| `StagesAreLoaded` | `Spec => []StageIsLoaded` |
| `ModulesMoveOnce` | `ASSUME OneBlockAbove PROVE Spec => MovedOnce` |

The assumption (`Layout`) says how a PC's boot loader leaves memory: low memory is the first block of the map and the
programs and modules are above it; segments of a program do not overlap and come from its file; loaders are linked below the modules;
the chain has a kernel and at least one module behind it; the kernel's memory ends before the last module does;
and low memory has room for the trampoline and all that the stages ask for. TLC evaluates it for the maps and chains of
`boot_chain`. None of the three properties is inductive, and they need one another:

* `Low` and `Areas`: what a stage may still take is subtracted from what low memory has (`Owed`), so that a request is always
  served from low memory, above the trampoline and below everything else. This is why a stage's protected memory survives
  every later copy, and shows that "No space" cannot happen under `Layout`.
* `Placed` and `Raised`: modules lie in the order of the list, each with its string behind it or in low memory, and never
  move down; loaders are below all of them, the kernel is below them once they were moved, and below the end of the last one before.
* `Copying`: while the copies go on from the last module to the first, everything that is not copied yet ends below
  the room that is still to be filled. Overlap of source and target is then impossible between modules.
* `Contents`, `Trampoline`, `StageIsLoaded`: a module that is intact may be copied, inflated or loaded; the trampoline's remaining
  copies read from a module that no earlier one has hit.

`ModulesMoveOnce` compares two stages, with others between them, so its invariant (`MInv`, on top of `IInv`) remembers what the last
stage that moved the modules did: they lie in one stack (`IsStack`), each on the page above the one before, and the end of the stack is the end of the
block or of the limit, whichever is lower (`IsRoom`). A later stage takes memory from low memory only (`Low`), removes modules from the bottom
of the stack only, and so finds the same end again (`FoundAgain`) or, with a lower limit, no room above (`NoHigher`).
The hypothesis `OneBlockAbove` is about memory maps: one usable block above low memory, as a PC has below 4 GB. It cannot be
dropped: with several, the smaller set of modules of a later stage may fit a higher block than all of them did. TLC evaluates it for the
maps of `boot_chain`.

The sizes of modules and requests are sums of sequences; what the proof needs of them (bounds, monotony) comes from an induction over
sets of numbers that is derived from the library's well-foundedness of `<`.

`LibraryProofs` proves about `Qdivrem`, from `QdivremAssumption` (the base is a power of two, the arguments are quads), about `FindMemory`,
from `MbiMemoryAssumption` (a page has bytes), and about `CommandLine`:

| Theorem | Statement |
|---|---|
| `KnuthHolds` | `Spec => []Knuth`, the inductive invariant of Algorithm D |
| `DivisionIsRight` | `Spec => []Divides`: quotient and remainder, and the sign of `__divdi3` |
| `DividendStays` | `Spec => []DividendIsKept`: nothing is lost between two digits, a corrected guess is right or one too large |
| `HighestIsFound` | `FM!Spec => []FindsTheHighest`, for every map (ordered or not), length, limit and page size |
| `OptionsAreRead` | `CL!Readable => (CL!Spec => []OptionsInForce)`, for every line, with all arguments or not, width of numbers and size of tables |

`Divides` says only what is returned; the invariant `Knuth` says what holds at each step of the algorithm. Between two digits
(`Between`) the digits found so far times the divisor, and what is left of `u`, are the dividend, both shifted by `2^d`; what was divided is less than the
divisor, which is why the next digit fits. After D3 the guess is never too small (`GuessIsEnough`, `GuessIsHigh`) and at most one too
large (`GuessIsNear`, `CloseEnough`): this needs the highest bit that D1 gives `v[1]`, and the test of D3 with the second digit. After D4 the
window holds what is left (`Taken`) or, for a guess that was one too large, a negative number modulo `B^(n+1)` (`TakenTooOften`), which
one addition of the divisor brings back: the carry that the code drops is the borrow that it did not write. `Borrow`, `LastBorrow` and `Carry` are
what one column of these loops computes in `long` arithmetic modulo `B^2`, and `Telescope` adds up the columns. That `2^k` doubles with `k`,
which the shifts of D1 and D8 need, follows from the library's theorem on the size of a set of subsets.

The invariant of the search (`LoopInv`) says that what was found is the highest place in the blocks looked at so far. Its hypotheses are the types of
maps, lengths and limits; `SearchAssumption` of `MCLibrary` has TLC check those of the run. That the function returns is not
part of it, and is not always true (see the disagreements).

The hypothesis of `OptionsAreRead` (`Readable`) says that lines are shorter than the buffer, have no NUL inside, and no more
`disabledmar=` than their table holds, which the code does not check; TLC evaluates it for the lines of `library`
(`LinesAssumption`). Options may lack arguments, and nothing is assumed of `AtNull`.
The proof has three parts. `StrtoullIs`: the loop with its cutoff and its flag computes the number the digits stand for or, when that is too large,
the largest one; this is an induction over the digits, with `Reads` as what a digit preserves. `StrtokIs`: where the buffer still is the line, a
call returns the next word, ends it with a NUL and leaves the cursor behind it; nothing behind the cursor changes. The invariant `IInv` has both cursors: behind
the outer one the buffer still is the line (`Unread`), and the configuration is what the options before it say; while zapp reads arguments, the token ends where the
word ends, so that the inner cursor never comes to the outer one (`ArgumentsRead`), and as many numbers have been read as arguments
begin before it or, once none is left, at least as many as there are. `WithPrefix`, `ArgumentsOf` and the rest are sets of places listed in their order; that a place behind all others extends the list at its end
(`InOrderAppends`) is what makes one token one more entry of a table.

`ZappProofs` proves about `Zapp`, from the assumptions on firmwares, buses and command lines, for any tables, any bus and capability lists, any number of
zapps and of additions:

| Theorem | Statement |
|---|---|
| `Invariance` | `Spec => []IInv` |
| `ChecksumsAreRight` | `Spec => []TablesRight` |
| `DuplicateIsRepaired` | `Spec => []DupTakesTheRepaired` |
| `RoomSuffices` | `Spec => []RoomIsEnough` |
| `RepairsHold` | `Spec => []RepairsInForce` |
| `RootTablesStayTogether` | `Spec => []RootTablesAgree` |

`Slot` says that the RSDT slot that zapp works on stays the first good DMAR, although its checksum is wrong meanwhile (`Sums` says which
may be); `Space` counts what the additions at hand may still write (`Owed`: two entries for a device with a bridge above it that
forwards its requests, one otherwise), so that the room for two entries per addition suffices; `Changed`, `AddedSoFar` and `Source` say
which entries are repaired already, and that the bridge of a device is either still to be met by the scan or has its region.
`Space` and `Source` need that bridges are configured (`Configured`): a scan finds every bridge of bus 0, and the buses below them are disjoint.
`Agreement` is a second invariant, for firmwares whose tables are below 4 GB, as the code can only change those.

`BenderProofs` proves about `Bender`, from `ConsoleAssumption` and `BusAssumption` (the types of the functions on a bus), for every period, time, bus and port:

| Theorem | Statement |
|---|---|
| `TypeCorrect` | `Spec => []TypeOK` |
| `NotEarly` | `Spec => []NeverEarly` |
| `EndsInTime` | `Spec => []InTime` |
| `OutputArrives` | `Spec => []OutputReachesPort` |

The invariant of `wait()` relates four numbers: the ticks that passed and the ticks left make up those asked for and those since the
last read that is not accounted for yet, *up to whole periods that were missed*; nothing is missed while the pauses are
shorter than a period, because the difference of two readings modulo the period is then the number of ticks between them.
For `OutputArrives` the port is followed from the bus to the line: the controller that is chosen is the last one (`Patched`), its port
is in the BIOS data area from then on, also while a service of bender runs (`Positions` says where a service may go on), and
the next program opens this port and does not give it up (`Opened`). It says nothing of bender's own output, which may go to
the port of the firmware, nor of machines whose last controller has no I/O port or no UART that works.

`FwTransferProofs` proves about `FwTransfer`, from the assumption on its constants, for every length, chunk and block size,
any number of nodes, resets, failures and changes of memory:

| Theorem | Statement |
|---|---|
| `PokeInvariant` | `Spec => []IInv` |
| `WrittenInPlace` | `Spec => []NoHoles` |
| `TypeCorrect` | `Spec => []TypeOK` |
| `SuccessMeansComplete` | `Spec => []SuccessIsComplete` |
| `ReadsAreComplete` | `Spec => []PeekShowsMemory` |

`NoHoles` is not inductive: that a block lands at its place needs that what the script has fed, what is in the pipe and
what the program took add up (`IInv`), and that the node found is the one meant as long as no reset was seen. Success means complete because a
pipe that is fed multiples of a block never gives a short read before the end (`WholeBlocks`). `PeekShowsMemory` is about count and order: a program
that succeeds has printed every byte once, and no block is older than one before it (`Versions`), however often
blocks were read again.

`FwScanProofs` proves about `FwScan` and `ConfigRom`, for any devices, buses, retries, signals and resets:

| Theorem | Statement |
|---|---|
| `TypeCorrect` | `Spec => []TypeOK` |
| `ListIsRight` | `ASSUME RomsAgree PROVE Spec => []ListShowsTheBus` |
| `MorboIsFound` | the ROM that `GenerateCrom` and `LoadCrom` make is one that both readers take for a Morbo, with the same pointer |

The invariant of `ListIsRight` says which records of this round are right already, those above the node that is being
read, and that the words read so far are the device's own while nothing was renumbered. `RomsAgree` is its hypothesis about the ROMs: what
`collect_node_info` calls bootable, `is_morbo` calls a Morbo when `mods_count` is zero, and the other way round. `MorboIsFound` discharges it for the
ROM of Morbo, for every GUID, bus option, speed, pointer and both kinds of controllers, provided that `crc16` gives two
bytes and the link is not enabled yet when the ROM is loaded.

**Only model-checked**:

* all liveness (`EventsAreHandled`, the fairness of `RemoteDma`, `DoneIsStarted`, `Ends`, `InterruptEnds`, `ReturnsOnOrderedMap`,
  `StartsOrReboots`, `Finishes`), which the provers do not handle;
* `FileIsRestored`: what `Inflate` computes from the bits of a file is compared with what the encoder of `GzipFiles` was given; the property is
  about that encoder, a chain of recursive functions over bits, and has no closed form a proof could be about.

## 6. Plan

The order follows what the system is for.

1. Done: `RemoteDma`, `Ohci`, `OhciProofs` (the promise, the driver, the proof).
2. Done: `RemoteBoot`, `RemoteBootProofs` (the protocol on top of the promise).
3. Done: `MbiMemory`, `FindMemory`, `BootChain` (memory that several stages share), with proofs.
4. Done: `FwScan` with `ConfigRom`, `FwTransfer`, `Zapp` with `Pci`, with proofs.
5. Done: `Console` and `Bender` with proofs; `Qdivrem`, `CommandLine` and `Inflate` (the library).
6. Done: proofs about the library: division for every base, the search for memory, the command lines; `MovedOnce` for maps with one
   usable block above low memory.
7. What remains: memory that is handed out once as an abstract specification of `BootChain`; the tables of code lengths
   of `Inflate` (`tinf_build_tree`) for every list of lengths.

**Not modelled, and why**: drawing and formatting (`printf.c`, `hexdump.c`, the list of `fw_scan`, the screen memory of `out_char`),
which nothing depends on; `basicperf.c` (it measures); the self-ID buffer, which is only printed; the search for the
RSDP in low memory (`acpi_get_rsdp`); the values of CRCs, which no program of the repository checks except the
decompressor, where they are any function of the bytes; `tinfzlib.c` and `adler32.c`, which nothing calls; the scripts that
decode ELF files with external tools (`boot/binary.py`); the device-name table (`pci_db.c`) and the build.
