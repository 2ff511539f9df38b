# biefircate in TLA+

biefircate is a boot loader that starts on a UEFI machine and sets up, step by
step, what software for a legacy BIOS expects.  Stage 1 (`src/stage1/`) is a
64-bit UEFI application.  It takes base memory away from the firmware, finds
option ROMs, loads stage 2 and leaves boot services.  Stage 2 (`src/stage2/`)
is 32-bit code with a 16-bit part (`src/stage2/16/`): it manages memory, sets
up interrupt controllers, calls option ROMs in real mode, and has the BIOS
services so far: timer, clock and keyboard.

This directory has TLA+ modules for the parts with state, TLC configurations
that check them on small instances, and proofs.  `PROJECT.json` maps each
definition to the lines it models.

## 1. The system

| Part | State it keeps | Operations | Interacts with |
|---|---|---|---|
| Base memory allocator, `stage1/bmem.c` | `blk[]`, `num_blks`, `boottime_bmem_bot`, `runtime_bmem_top` | `bmem_init`, `bmem_alloc`, `bmem_alloc_boottime`, `bmem_fini` | UEFI's `AllocatePages` and memory map; boot parameters (which it reports to and which allocate from it) |
| Boot parameters, `stage1/bparm.c`, `bparm.h` | a linked list in base memory | `bparm_add`, `bparm_add_mem_range` | written by all of stage 1, read by all of stage 2 |
| Firmware volume cache, `stage1/fv.c` | hash table of option ROM images | `fv_init`, `fv_find_rimg` | UEFI firmware volumes; `pci.c` |
| PCI and option ROMs, `stage1/pci.c`, `pci.h` | one parameter per device | `process_pci`, `rimg_find_pcir`, `get_rimg*` | `fv.c`, `bmem.c`, `bparm.c`, UEFI's PCI I/O |
| ACPI tables, `stage1/acpi.c` | none of its own | looks for the RSDP, prints, adds a parameter | `irq.c` through the parameter |
| ELF loader, hand-over, `stage1/main.c`, `util.c`, `run-stage2.asm` | pages for stage 2's segments; memory map and its key | `load_stage2`, `free_stage2_mem`, `prepare_to_hand_over`, `run_stage2` | UEFI files and `ExitBootServices`; stage 2's entry |
| Stage 2 memory map, `stage2/mem.c` | `mem_ranges[]` | `mem_map_init`, `shellsort`, `mem_alloc` | memory range parameters |
| Virtual memory, `stage2/mem.c` | `unused_va_ranges[]`, page directories and tables | `va_init`, `mem_va_map`, `mem_va_unmap` | `mem_alloc` for page tables; `irq.c` |
| Interrupt set-up, `stage2/irq.c` | I/O APICs, 8259s, 8254 | `irq_init` | ACPI tables through `mem_va_map`; what firmware left pending |
| Real-mode calls, `stage2/rm16.asm`, `16/do-rm16-call.asm` | saved `esp`, `cr3`, GDTR | `rm16_init`, `rm16_call` | option ROMs; EBDA |
| Interrupt vectors, `16/vecs16.asm` | the real-mode vectors | stubs, `isr16_unimpl` | timer, keyboard, option ROMs |
| Stage 2 main, `stage2/main.c`, `start.asm` | none | `stage2_main`, `rimg_init`, `hello` | all of stage 2 |
| Timer and clock, `16/time.asm` | `bda.timer`, `bda.timer_ovf`; int 0x1a's stack and registers | IRQ 0, int 0x1a functions 0 to 2 | the clock chip, which runs on its own |
| Keyboard, `16/kb.c`, stub in `16/vecs16.asm` | `bda.kb_stat1`, `kb_stat2`, ring buffer | IRQ 1 | keyboard, 8042, 8259, the program that reads the buffer |

Both stages are single-threaded; in stage 2's 32-bit part interrupts are off,
and `hlt()` there means stopping for good.  Beside stage 1 run the firmware's
timer events, until boot services end; an option ROM called by stage 2 may
turn interrupts on.  Nothing is kept over a reset.  What is hard in this code
is therefore:

- data structures that allocate from the thing they describe (`blk[]` and the
  parameters that report it; `mem_ranges[]` and the array's own space; page
  tables and `mem_alloc`), at their size limits;
- long sequences of legal calls (allocations from both ends of blocks,
  mappings undone in any order);
- devices and firmware that run alongside (clock chip, keyboard, 8042, timer
  events, interrupts that were pending before), interleaved with the program;
- code that is not ours and runs in between (option ROMs), and what must hold
  again after it;
- arrays walked while what is done for an entry changes them (`blk[]` in
  `bmem_fini`, `mem_ranges[]` in `va_init`);
- unsigned arithmetic that wraps round (`page_count`, ends of ranges at 4 GiB,
  sizes read from ROM images);
- data from firmware in every order and combination (memory maps, option
  ROMs, devices).

`hazards` in `PROJECT.json` lists the places, each with the properties that
watch it or the reason none does yet.

## 2. Modules

| Module | Models | Checked or proved by |
|---|---|---|
| `Bmem` | `bmem.c` with the parameters of `bparm.c` | `bmem`, `bmem_report`, `BmemProofs` |
| `BmemProofs` | | TLAPS |
| `MemAlloc` | the physical half of `stage2/mem.c` | `memalloc`, `memalloc_bottom`, `MemAllocProofs` |
| `MemInit` | `mem_init` as a whole: `va_init` on top of `MemAlloc` | `memalloc`, `MemAllocProofs` |
| `VaSpace` | what virtual memory promises, abstractly | refined by `VaMap`, used by `IrqInit` |
| `VaMap` | `mem_va_map` and `mem_va_unmap` with their page tables | `va`, `va_full`, `VaMapProofs` |
| `Stage1Main` | `stage1/main.c` with `get_mem_map` of `util.c`, `run-stage2.asm` | `stage1`, `Stage1Proofs` |
| `IrqInit` | `stage1/acpi.c`, `stage2/irq.c`, and the devices it programs | `stage2`, `Stage2Proofs` |
| `Stage2Main` | `stage2/main.c`, `rm16.asm`, `16/do-rm16-call.asm`, `16/vecs16.asm`, on top of `IrqInit` | `stage2`, `Stage2Proofs` |
| `OptionRoms` | `fv.c`, `pci.c`, `rimg_init` and `hello` of `stage2/main.c` | `optionroms`, `OptionRomsProofs` |
| `Time` | `16/time.asm` and a clock chip | `time`, `time_returns`, `ServiceProofs` |
| `Kb` | `16/kb.c`, its stub, and keyboard, 8042, 8259 and a reader | `kb`, `ServiceProofs` |
| `MemAllocProofs`, `VaMapProofs`, `Stage1Proofs`, `Stage2Proofs`, `OptionRomsProofs`, `ServiceProofs` | | TLAPS |
| `NatFacts` | division, remainders and least elements, for the proofs | TLAPS |

`MC*.tla` give the constants that a `.cfg` cannot hold.  In each module,
variables have the names of the code's where there is one; those marked
*history* in their comments are not in the program and only record what
happened.  `pc` follows the thread of control; a loop whose body changes
state takes one step per iteration.  Definitions marked *Mutant* are faulty
variants of the definition after them, which the properties must tell from
the right one (`mutants` in `PROJECT.json`); no specification uses them.

**Bmem.**  Pages have a kind: what firmware has in use and frees at the end,
keeps, has free (`conv`), or has given to us.  `GrabSome`/`GrabFail` are the
iterations of the loop around `AllocatePages`, where `page_count` wraps at
`WordMax`; which run of free pages the firmware gives is its choice.
`GroupAvail`, `GroupUnavail`, `GroupEnd` build `blk[]`; `Gauge` sets
`runtime_bmem_top`.  `BmemAlloc` and `BmemAllocBoottime` are the allocators,
with error actions.  `AddUefiMemBparm` to `FiniDone` are `bmem_fini`; each
parameter it adds takes a node from boot-time memory in the same step, so that
`blk[]` moves while it is walked.

**MemAlloc.**  `ChooseSpace` and `CopyRange` are `mem_map_init`; `SortBegin`
to `SortNextGap` shellsort, a step per move (`SortGap` is the loop that finds
the first gap); `AllocBegin`, `FindNarrow`,
`FindWalk`, `ScanNext`, `ScanTake` (with `SplitRange`) are `mem_alloc`.  What
stage 1 may report is the assumption `StageOneMap`, which agrees with what is
shown of `Bmem` (`RamApart`, a part of `ReportUsable`).

**MemInit.**  Extends `MemAlloc` with `va_init`: `AllocArray`, `FindHole`, `HolesFound`,
`AllocPdpt`, `AllocPd`, `MapBelowHoles`, then the loop over `mem_ranges[]` that
gives page flags to what may not be cached.  When it needs a page table it
calls `mem_alloc`, step by step as in `MemAlloc` (`vpc` waits while `pc` runs),
which splits entries of the array under the loop.  The comment there, "This
should not affect correctness though" (`mem.c:394`), is true with one exception:
if the entry that is split is one of base memory and overlaps others of other
attributes, its upper part comes before entries that start lower, `SkipDone`
passes over those, and they keep the flags of `mem_ranges[0]`.  It takes a machine
with so little RAM above 1 MiB that page tables come from base memory.
`IdMapped` leaves that case out (`BaseSimple`).

**VaMap.**  Starts from holes as `MemInit` finds them.  `IdMap` steps through
the identity mapping; `MemVaMap`/`MapLarge`/`MapSmall`/`MapDone` and
`MemVaUnmap`/`UnmapStep`/`GiveBack` are the two calls.  The page directory has
large pages, tables and blanks; `Translate` is the processor's view of it.

**Stage1Main.**  `FindBootMedia`, `AllocTrampoline`, `OpenStage2`,
`ReadHeaders`; per program header `LoadSegment` with `FillSegment`, or
`SkipSegment`; on errors `free_stage2_mem`, a `FreePages` call at a time
(`FreeOne`, `FreeDone`), with firmware events between the calls; then `ReportMap`, four `Wait`s on the
clock, `ExitBootServices`, `RunStage2`.  The firmware's map has a type for each
page and a version (`key`); `FirmwareEvent` changes both at any time before
the exit, and `FirmwareError` is any call's error status.  `RunStage2` has what
the hand-over does to memory on the way: it clears memory up to `BdaEnd` (0x600),
fills the trampoline's page and the word above it, and sets `BdaWords`.

**IrqInit.**  Stage 1's checks of the ACPI tables (`ProcessEfiConfTables`,
`CheckXsdt`, `CheckTable`, `AddRsdp`), then `irq_init`: RSDP, XSDT and each
table are mapped, looked at, mapped again if long and unmapped (`MapRsdp` to
`UnmapRsdp`), each pin of each I/O APIC is masked (`MaskPins`), and the words
to the 8259s and the timer go out one by one (`PortWrite`).  Mapping goes by
`VaSpace`, which `VaMap` is shown to implement; `stray` notes any read or unmap
outside a live mapping.  The 8259s take their initialization words in sequence
(`AfterCmd`, `AfterData`), so that a missing word makes the next ones mean
something else.  `LapicAccepts` is an interrupt that arrives from a pin not
masked yet.  The structures of a MADT have their offsets (`off`) and follow one
upon the other (`Packed`), as the walk at `irq.c:144` goes by their lengths.

**Stage2Main.**  `Rm16Init`, `RimgInit`, `Hello`; `rm16_call` in the steps
between which something can go wrong (`LeaveProtectedMode`, `SaveRegisters`,
`CalleeReturns`, `RestoreRegisters`, `ReenterProtectedMode`,
`Rm16CallReturns`); the option ROM's own freedom (`RomSetsFlag` to
`RomCallsUnimpl`); `Hello16`, `Isr16Unimpl`, `Message`; and interrupts
(`PicInterrupt`, `LapicInterrupt`), which come when the processor and the
controllers as programmed let them.

**OptionRoms.**  `NextFile` to `CacheError` go through firmware volumes, images
and hash table entries; `SkipDevice` to `PciDone` through PCI devices, with
`GetRimg` for the placement of an image; `RimgInit` and `Hello` are stage 2.
An image is its header and PCI Data Structure fields, as the program reads
them.  Base memory is one block (a machine whose free base memory is in one
piece); `Bmem` has the allocator in full.  A PCI class is that of a display
controller or another; its interface byte takes part in comparisons only
and is left out.

**Time.**  `Irq0`, `GetTicks`, `SetTicks`; then function 2 register by register
(`CallRtc`, `IsRtcOk`, `Poll`, `ReadSec`, `ReadMin`, `ReadHr`, `Got`, `Compare`,
`Retf`) with its stack, while `RtcStarts` and `RtcUpdates` move the clock on.

**Kb.**  `Press`, `Release`, `KbcReceive`, `KbcCommand` and `Consume` are the
world; `Irq1`, `SndDis`, `ReadCode`, `HandleModifier`, `HandleLock`,
`HandleKey`, `Eoi`, `SndEna` the handler.

## 3. What is checked

A property is described in full at its definition.

| Run | Question | Properties |
|---|---|---|
| `bmem` | Is base memory grabbed, divided and reported right, for every layout of 6 pages? | `TypeOK`, `GrabsEverything`, `GroupsExactly`, `NoOverlap`, `Scratch`, `RamIsFree`, `ReportUsable`, `Terminates` |
| `memalloc` | Is stage 2's memory map right in whatever order it is reported; does `va_init` find exactly the holes and map the rest with the right flags although its page tables split the array it walks; does `mem_alloc` hand out RAM only, once, below the limit? | `Sorted`, `AllocsDisjoint`, `BelowLimit`, `Tiles`, `HolesExact`, `IdMapped`, `Returns` |
| `va` | Do array and page tables agree however mappings come and go, and is `VaSpace` implemented? | `Conserved`, `Translates`, `Restored`, `Promise` |
| `stage1` | Does stage 2 start only with its segments in place and a true report of memory, whatever firmware events do meanwhile? | `Loaded`, `ReportTrue`, `NotGivenAway`, `UndoExact`, `Ends` |
| `stage2` | Are tables read through mappings that hold; do interrupts come only where and as they can be served; does stage 2 get its registers back after an option ROM; does the timer keep ticking? | `Served`, `ReadsMapped`, `Intact`, `KeepsTicking` |
| `optionroms` | Is the right image found and called, with images apart from each other in base memory? | `BestOfRom`, `DeviceGetsItsRom`, `VgaReady`, `RomsApart`, `Terminates` |
| `time` | Are midnights told once and times never torn? | `MidnightsAddUp`, `NotTorn`, `EndsIfGood` |
| `kb` | Do key codes come out as typed, in order? | `Fifo`, `AsTyped`, `StatusShown`, `AllHandled` |

Some of these hold with an exception that is in the code, stated in the
property and its comment: `Loaded` leaves out what `run_stage2` writes to beside
the trampoline's page (`Overwritten`); `Sorted` speaks of the order of ends
outside base memory only; `StatusShown` leaves out the Ctrl and Alt flags, each of
which stands for two keys; `UndoExact` is for segments of one size; `Served` leaves out what the
local APIC had accepted before the pins were masked; `DeviceGetsItsRom` an
image above 1 MiB.

### Where the code does not do what it says

Four runs end in a counterexample to something that the repository states of
itself:

- `bmem_report` (`FreeBlocksReported`): a node for the report can use up a
  block exactly; the blocks above move down in `blk[]`, and the loop in
  `add_our_mem_bparms` passes over one.  What is reported stays sound
  (`RamIsFree`), but free memory is left out.
- `memalloc_bottom` (`StopsAtBottom`): when nothing fits, `mem_alloc` reads
  below `mem_ranges[0]`, as `continue` jumps over the test meant to stop it.
- `va_full` (`UnmapReturns`): ranges that become empty or adjoin are never
  removed or merged, so two blocks at a time, undone in the order they were
  made, stop `mem_va_unmap` in the end.  In reverse order, as `irq.c` does it,
  this does not happen (`Restored`).
- `time_returns` (`ReturnsToCaller`): int 0x1a function 2 does not pop what
  it pushed.

Met while reading or modelling, and not the subject of a run:

- `acpi.c:97` passes the XSDT's length as the size of the RSDP.  The smallest
  XSDT that passes the checks is longer than the RSDP, so stage 2 maps too
  much and not too little (`ReadsMapped`).
- `free_stage2_mem` (`main.c:155-165`) takes the first header's size for each
  segment, does not go back to the start of a page, and does not skip headers
  that were not loaded; a failed read frees nothing at all.
- `ExitBootServices` is called seconds after the map was read (`main.c:454`,
  `502`) and is not retried; after a refusal, `error()` still uses the console.
- `run_stage2` writes over memory that may hold segments of stage 2, after these
  have been loaded: `rep stosq` clears the vector table and the BIOS data area,
  0 to 0x5ff (`run-stage2.asm:50-53`), the trampoline sets two words there
  (`91-94`), and `mov [esp+4], ebx` writes a word just above the trampoline's page
  (`45`).  `load_stage2` refuses no such address; a file linked higher up, as
  `stage2.sys` is, and not beside the trampoline, is safe (`Loaded`).
- "Sort the memory map by order of increasing ending addresses" (`mem.c:201`):
  `shellsort` compares starts (`mem.c:50-71`).  The two orders differ where a range
  lies within another, as ranges of base memory do, which stage 1 reports both from
  UEFI's map and as its own.  `find_highest_range_below` searches by ends, and is
  right all the same, since its two limits, 1 MiB and 4 GiB, are not inside base
  memory (`BelowLimit`).  `Sorted` says where the comment holds: outside base memory.
- `va_init` reads `unused_va_ranges[0]` when there is no hole; leaves out
  write-back memory above the last hole, unlike the comment at `mem.c:371-375`;
  and when it moves on past the entry just done (`mem.c:423-424`), it also
  passes over any other entry with the same start.
- `mem_ranges[]` has few spare entries for the splits of `mem_alloc`.
- The local APIC may hold an interrupt accepted before the masking
  (`irq.c:132-138` says so); I/O APICs with more than 24 pins keep the rest
  unmasked; a spurious IRQ 7 goes to a vector without a handler.
- Without a display's option ROM, `isr16_unimpl` calls itself through int 0x10
  for its message and never halts.
- `do-rm16-call.asm:99-101` does not return from the greeting, so that option
  ROMs other than a display's are not called.
- `rm16_init` takes base memory without lowering the size at 0x413.
- `pci.c:335` tests for a BAR index that cannot occur; only the first image of
  a device's own ROM is considered (`pci.c:204-211`), while `pci.h:34-37`
  speaks of several.
- int 0x1a function 2 does not end with a clock that stays in an update, for
  all its counting of tries (`time.asm:108`, `154`).
- One flag stands for two Ctrl keys, and one for two Alt keys (`kb.c:225`): with
  both held, letting go of one clears it.

### Bounds

Sizes are scaled down such that every comparison can go either way.

- `bmem`: 6 pages of 8 bytes allow three blocks, the most that fit; word size
  15 lets `page_count` wrap; requests can use up a block, leave a useless
  rest, or be passed over for size or alignment.  `bmem_report` has nodes of one
  byte, with which a block can be used up exactly.
- `memalloc`: 48 pages of 2 bytes in large pages of 8, base memory up to 6 and
  the 4 GiB mark at 96.  All orders of a map whose RAM may not be cached, from
  which page tables are taken while it is being walked; maps with overlaps in
  base memory, one where a range there lies within another, ranges that end at
  and cross 4 GiB or end within pages, equal starts, a range the array just
  fills, one where nothing fits and one without a hole; so little memory that
  page tables come from base memory; a map of nine in descending order, for two
  passes of shellsort.  `MaxBlocks` = 13 follows all allocations of `mem_init`
  and some after it.
- `va`: 12 pages, large pages of 2, two layouts, four requests (one page, two
  because of the offset, a whole large page, one astride), `MaxLive` = 4
  mappings at a time.
- `stage1`: nine pages of 2 bytes, two of base memory, 4 GiB at page 7, two
  maps; ten disks with files that are good, short, too long, too many headers,
  in the way of each other, or no ELF, and one with a segment at address 0, half
  of it in the BIOS data area.  `MaxKey` = 4 versions of the map that
  events lead to, before, between and after the allocations; minutes of three
  seconds of two ticks, so that a wait crosses the end of one.
- `stage2`: pages of 8 bytes, with the ACPI structures scaled such that tables
  are shorter and longer than the union through which they are first mapped,
  and cross pages; virtual pages in two pieces with just room for the mappings
  live together, and a table too long for them; 14 machines with good and bad
  tables, no MADT, no 8259s; 8259s left with a request in service; I/O APICs
  with three pins; three lists of devices; four interrupt lines, on both 8259s.
- `optionroms`: every sequence of one or two images of seven kinds, whole or
  cut off, and longer ones over two files and sections; 12 lists of up to four
  devices; 3 contents of 0xc0000.  Base memory has room for about four images.
  Two hash buckets make entries share lists.  Among the devices is one with a
  ROM above 1 MiB in size, for which an unsigned subtraction in `get_rimg`
  wraps; `DeviceGetsItsRom` sets that one aside.
- `time`: days of three ticks, an overflow byte modulo 2, `MaxDays` = 3, clock
  registers with two values each, two tries and two polls.
- `kb`: a buffer of 3 words (2 of use), `MaxTyped` = 5 scan codes made,
  `MaxBacklog` = 2 waiting: enough for a lock and a modifier with a key, and to
  fill the buffer, wrap it and drop.  Among the keys is the right Ctrl key, with
  its prefix byte.  `CHECK_DEADLOCK` is off, as all is quiet
  once the typing is over.

### Fairness

Weak fairness of the thread of control: the processor goes on executing
(`Work` in `Bmem` and `OptionRoms`; `MapInit`, `Search` and `va_init`'s steps in
`MemInit`, which do not oblige anyone to call `mem_alloc`; `Main` in
`Stage1Main` and `Stage2Main`; `Cpu` in `Time`; `Handler` in `Kb`).
In `OptionRoms` and `Stage2Main` that includes that option ROMs return, in
`Stage1Main` that interrupts keep ending `hlt`, as the firmware's timer does, and
time goes on.  `Ends` needs no fairness of events: they may come or not.
In `Stage2Main` also that int 0x10 returns from a message (`Message`) and that
the timer's interrupts come where 8254, 8259 and processor let them
(`PicInterrupt(0)`): the 8254 runs on its own once programmed.  Of the devices: a
clock that is not broken finishes an update it has begun, which the chip
guarantees; the 8042 takes scan codes and commands.  Nobody has to type, to
read the buffer, or to call a BIOS service.

## 4. What is proved

TLC checks small instances.  The theorems below hold for every value of the
constants that the `ASSUME`s of the modules allow: any number of pages, ranges,
tables, devices, keys or days, and any sequence of calls and events.  Each is of
the form `Spec => []P` (`TimeSpec` for `Time`) with the specification and the property that
the runs check, `Implements` being the refinement.  Each module proves an inductive
invariant `IInv` (`Inductive`), which TLC was first asked to check on the run's
instance, and derives the rest from it.

| Module | Theorem | States | For every |
|---|---|---|---|
| `BmemProofs` | `TypeCorrect` | `TypeOK`: `blk[]` is never written past its end | page size, number of pages (at least 2), word size, node size, set of requests |
| | `GrabsAll` | `GrabsEverything` | |
| | `AllocationsDisjoint` | `NoOverlap` | |
| | `ScratchIsFree` | `Scratch` | |
| | `RamReportSound` | `RamIsFree` | |
| | `GroupingExact` | `GroupsExactly` | |
| | `ReportIsUsable` | `ReportUsable` | |
| `MemAllocProofs` | `TypeCorrect` | `TypeOK`: `mem_ranges[]` stays in its room | memory map that `StageOneMap` allows, sequence of requests |
| | `SortCorrect` | `Sorted` | |
| | `NoByteTwice` | `AllocsDisjoint` | |
| | `LimitKept` | `BelowLimit` | |
| | `MemoryTiled` | `Tiles` | |
| | `HolesCorrect` | `HolesExact` | and every page size |
| | `IdentityMapped` | `IdMapped` | and every size of large pages |
| `VaMapProofs` | `TypeCorrect` | `TypeOK` | list of holes, page size, size of large pages, sequence of requests |
| | `PagesConserved` | `Conserved` | |
| | `TablesAgree` | `Translates` | |
| | `LifoRestores` | `Restored` | |
| | `Implements` | `Promise`: `VaSpace` is implemented | |
| `Stage1Proofs` | `SegmentsLoaded` | `Loaded` | disk, memory map, sequence of firmware events |
| | `ReportCorrect` | `ReportTrue` | |
| | `SegmentsNotGivenAway` | `NotGivenAway` | |
| | `UndoneExactly` | `UndoExact` | |
| `Stage2Proofs` | `RegistersIntact` | `Intact` | machine with well-formed tables, state of its 8259s, option ROMs |
| | `InterruptsServed` | `Served` | |
| | `TablesReadMapped` | `ReadsMapped` | |
| `OptionRomsProofs` | `TypeCorrect` | `TypeOK`, stated for the proofs only | set of firmware volumes, images and devices, number of hash buckets, block of base memory |
| | `ImagesApart` | `RomsApart` | |
| | `DisplayReady` | `VgaReady` | |
| | `RightRom` | `DeviceGetsItsRom` | |
| | `BestCached` | `BestOfRom` | |
| `ServiceProofs` | `TimeTypeCorrect` | `TimeTypeOK`: the tick count stays below a day | length of the day, size of the overflow byte, numbers of tries and polls |
| | `MidnightsCorrect` | `MidnightsAddUp` | |
| | `ReadingsNotTorn` | `NotTorn` | |
| | `TypeCorrect` | `TypeOK` | size of the buffer, key tables, sequence of keys |
| | `NothingLost` | `Fifo` | |
| | `TypedCodesKept` | `AsTyped` | |
| | `FlagsShown` | `StatusShown` | |

The bounds of section 3 that are in guards (`MaxKey`, `MaxLive`, `MaxBlocks`,
`MaxDays`, `MaxTyped`) are constants like the others: as they may be any
number, the theorems are not limited by them.

Why each invariant has to say more than the properties do:

**Bmem.**  `NoOverlap` is not inductive.  A new run-time area is taken below the `end` of
a block, so one must know that areas handed out are clear of what is left of
each block (`AreasOK`), that blocks are in ascending order with `start =< end
=< orig_end` (`BlkOrder`), and consist of grabbed pages (`BlkOurs`).  That
run-time areas lie above `runtime_bmem_top` and boot-time areas below it needs
that no block straddles that mark (`NoStraddle`), which holds only since
`Gauge` puts it on the border of a block, and since `bmem_alloc` lowers it only
to the new end of the block it takes from.  That `blk[]` has room rests on a count: each closed block has
cost at least two pages (`GroupInv`), one of its own and one between.
`GrabInv` and `EarlyInv` carry the first phases, `ReportInv` what is in the
report, `DoneInv` the last check.  `IInv` is their conjunction.  Each action
has its case in `InitStepInv`, `UseStepInv` or `FiniStepInv`; what the two
allocators do is in `RuntimeInv` and `BoottimeInv`, which the report's nodes
use too (`BparmInv`).  `GroupingExact` adds that each grabbed page that was
passed is in a closed block or in the open one, with a gap before the next
(`GroupedInv`).  `ReportIsUsable` adds that no block still to be reported starts
below `runtime_bmem_top` or below the end of a range of RAM reported already
(`ApartInv`): the nodes of the report are taken only from blocks below that
mark, so a block that becomes empty moves the ones to come down in the array and
changes none of them; and that each page `add_uefi_mem_bparms` has passed, if
kept, is inside a range reported as reserved (`PassedInv`).

**MemAlloc.**  The array is looked at with the entry that shellsort holds in
its hand put back in the hole (`Array`).  Each of its moves then swaps two
entries, which keeps how many entries equal a range (`CountInv`) or have a byte
(`TileInv`), by a bijection between the places before and after.  In the last
pass, with a gap of 1, the entries before the `i`-th are in order
(`OrderInv`).  A first guess, that the array stays in order from then on, was
refuted by TLC: cutting a range of base memory that others overlap leaves its
upper part before ranges that start lower.  What stays is that ranges out of
order are both in base memory (`InOrder`), and this is enough for the binary
search and the walk down to see only ranges below the limit (`ScanInv`), since
the limit is never inside base memory.  `ShapeInv`, `FreeInv` and `BlockInv`
say how ranges, blocks and the array's own space lie.  `InductiveAll` takes the
invariant over to `MemInit`: whatever va_init does, it moves `mem_ranges[]` only
by calls of `mem_alloc`, for at least a byte each; all theorems are
stated for `MemAlloc` alone and for `MemInit`.  `HolesCorrect` adds that with the
loop of `va_init` at entry n, what it has found are the holes below that entry
(`HoleInv`).  A step of the loop keeps this since entries from 1 MiB up stay in
order and apart however often they are cut, and those of base memory come before
them (`EntryFacts`); what is between two entries is compared with what was
reported by `TileInv` (`OccupiedReported`), and roundings to pages by
`PageFacts`.

`IdentityMapped` goes on from there.  Every entry stays a part of one range that
was reported, with its attribute, and if no ranges overlap the entries stay in
order (`ArrayInv`); the holes stay what they are, at borders of pages (`KeptInv`).
While ranges between holes are mapped, what is below the address reached and in
no hole has flags, those of base memory if that has one attribute (`IdMapInv`).
The loop over `mem_ranges[]` then keeps (`AttrInv`): each page of an entry it has
passed, unless the entry is write-back, has flags that one of its ranges calls for,
or is among the pages about to be given them; and write-back pages keep theirs.
What counts as passed are the entries before index `i` and, from the time an entry
is chosen until `SkipDone` has moved on, all that start no higher than it.
Stated so, it survives a cut: the parts of an entry come no earlier in the array and start no lower than
the entry did (`Refined`), so that a part counts as passed only if the whole did
(`TakeKeeps`).  An entry that counts as passed without having been looked at comes
later in the array and starts no higher; that is so only in base memory with
ranges that overlap (`LaterLower`), and is harmless if base memory has one
attribute.  When the loop ends all entries are passed, and each byte reported is
in one of them (`EntryOfPage`, from `TileInv`).

**VaMap.**  The walk of `mem_va_unmap` from the last range down decides by the
first range that it meets.  Ranges are not simply in order: one that has become
empty stays in the array, and a later one can grow down past it.  But an empty
range that lies within a block has after it a range that `mem_va_unmap` meets
first (`ArrayInv`); hence it always finds a place, never reaches the last
`hlt()`, and the ranges stay apart.  While mappings are undone in reverse order,
each range stays at the bottom of its hole, and later blocks lie below earlier
ones (`LifoInv`), so that each block goes back to the range it came from.
Large pages belong to a block entirely or not at all (`LargeInv`), so that
`do_va_unmap` never meets part of one, the case in which it does nothing
(`mem.c:291-297`).  `ShowInv` has what the page tables show in the middle of the
loops, `LoopInv` where these are.  The refinement maps `free` to the pages in
the array and `blocks` to the mappings in use, with the one being made or
undone: taking a block is one step, as is giving it back, and the steps of the
loops change neither.

**Stage1Main.**  `ReportTrue` needs that as long as `map_key` equals `key` the
report is that of the map as it is (`ReportInv`), which a firmware event ends
by a new key.  `Loaded` needs that segments have pages of their own
(`PlacedInv`), which keep their type whatever the firmware allocates
(`KeptInv`), and what is filled in so far (`FilledInv`); the trampoline's page is
then none of theirs, and what else `RunStage2` writes is in `Overwritten`.  `UndoExact` needs how
far the loop is, and that pages still to free have not changed (`UndoInv`).

**Stage2Main.**  `Intact` needs the saved registers in whichever EBDA is
current (`SavedInv`) and what mode each step runs in (`RegsInv`).
`Served` needs how far the 8259s are in their sequence of words for each number
of words written (`PicsInv`), that both vectors are set (`IvtInv`), and that the
pins of all structures passed in the walk are masked (`LoopInv`, `MaskedInv`).
`ReadsMapped` needs that the blocks taken from `VaSpace` are exactly those of
the mappings live at that point of the code, apart from each other (`VaInv`).

**OptionRoms.**  `RomsApart` needs that areas handed out are clear of what is
left between `bot` and `top` (`AreaInv`).  `VgaReady` needs that no device was
made to decode before one is picked, and that the images called are those of the
devices passed (`VgaInv`).  `DeviceGetsItsRom` is about the last entry made, but
`fv_find_rimg` takes the first that matches in its bucket's list: `CacheInv` says
that these are the same for each id and class, whatever else is in that list, as
entries are put in front.  `GetInv` says which tries failed before the one at
hand.  `BestOfRom` needs where the scan is (`GatherInv`): the bytes left of a
section are its size less the images passed (`ScanAt`), the image found so far is
the best of those since the end of the last option ROM, all option ROMs passed
are entered (`CompleteAt`), and of the one being entered what is missing is
pending (`PendingAt`).  The size of the images passed is a recursive function over a
section; that there is such a function is shown by a least counterexample
(`SumsExist`), since induction is out of the prover's reach.

**Time.**  `NotTorn` needs that of two readings one is whole: the first if the
clock had not moved on by its end, else the second, since it moves at most once
in a round (`ReadingsInv`, `UpdateInv`).

**Kb.**  The ring is described by counts: head and tail are the places of the
numbers of codes taken and put in, modulo its size (`RingInv`), with a
difference less than the size.  `AsTyped` needs that the flags are those of the
keyboard after the last code handled (`StatInv`), and that 8042 and handler
between them have each code once (`ProtoInv`).

Assumptions on constants are in the `ASSUME`s, and TLC evaluates them on each
run.  Beside sizes being positive, they are: what stage 1 reports
(`StageOneMap`), what `va_init` finds (`HoleList`; see `HolesCorrect`),
requests for at least a byte, `MAX_OROM_SZ` no more than 1 MiB (`MaxOrom`), no
option ROM in the block of memory that the firmware has given to stage 1
(`RomAssumption`), well-formed files and tables (section 5), a BIOS data area
within the first page, and for `Kb` a buffer within a segment with room for two
words, as `uint16_t` offsets wrap at 65536.

Only model-checked is all liveness (`Terminates`, `Returns`, `Ends`, `KeepsTicking`,
`EndsIfGood`, `AllHandled`), which is beyond the prover.

## 5. What is not modelled

- `fake_mp_table` of `stage1/main.c`, which is in `XV6_COMPAT` builds only and
  fills in constant tables.
- Arguments of `rm16_call` in general registers; int 0x11 and 0x12, which
  return a word; a spurious IRQ 7; processors other than the first.
- The memory attributes of base memory (`bmem_uefi_attr`); elsewhere, attributes
  are those that lead to different page flags.  The order of boot parameters in
  their list.
- What a keyboard repeats while a key is held; a lock key toggles at each scan
  code for it going down (`kb.c:231`), and what should happen the repository does
  not say.
- Console output; the C library routines; the `romdumper` tool, which prints;
  the boot record that prints a message; build and link scripts.
- Code that is not in the repository (gnu-efi, lai and others are empty
  submodules); UEFI is modelled from how it is called.

Assumed of the environment, in the `ASSUME`s of the modules: tables that pass
stage 1's checks are well-formed inside (the lengths in a MADT add up, every
I/O APIC is listed and has no more pins than are scanned; otherwise the walk at
`irq.c:144` does not stop at the end of the table); the MADT's flag tells the
truth about 8259s, and a machine without a MADT has them; stage 2's file is
linked below 4 GiB; an option ROM that moves the EBDA copies all of it and
returns.

## 6. Plan

Modelled is all of stage 1 and stage 2 that keeps state, and each safety property
of the runs that pass is proved.  What is left is `Boot`, composing the stages:
`Bmem`'s report as `MemAlloc`'s input, images left in place, the top of base
memory after `rm16_init`.
