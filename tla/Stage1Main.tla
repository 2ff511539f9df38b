----------------------------- MODULE Stage1Main -----------------------------
(***************************************************************************)
(* How stage 1 loads stage 2 and hands over to it (stage1/main.c,          *)
(* get_mem_map() of stage1/util.c, stage1/run-stage2.asm): the trampoline, *)
(* the ELF loader, the report on extended memory, the wait, and            *)
(* ExitBootServices(), which the firmware refuses once its memory map has  *)
(* changed since the map was read.  Base memory and the list of boot       *)
(* parameters are Bmem's, ACPI tables IrqInit's and option ROMs            *)
(* OptionRoms'.                                                            *)
(*                                                                         *)
(* Until boot services end the firmware's timer events run beside stage 1  *)
(* and allocate and free pages (FirmwareEvent).  Addresses are in bytes    *)
(* and wrap round at the end of the address space, as 64-bit ones do.      *)
(* "error" and "undone" are error(), which exits; "undone" comes after     *)
(* free_stage2_mem().                                                      *)
(***************************************************************************)
EXTENDS Integers, Sequences, FiniteSets, FiniteSetsExt

CONSTANTS
    PageSize,       \* EFI_PAGE_SIZE
    NPages,         \* the address space, in pages
    BmemPages,      \* BMEM_MAX_ADDR, in pages
    Xm32Pages,      \* 4 GiB, in pages
    BdaEnd,         \* 0x600, the end of the vector table and BIOS data area
    BdaWords,       \* the bytes at 0x40e and 0x413: EBDA, size of base memory
    MaxPhdrs,       \* MAX_PHDRS
    StartMaps,      \* the firmware's memory maps to start from
    Disks,          \* what the boot medium has under the three names
    TicksPerSecond, SecondsPerMinute, Minutes,  \* the clock
    MaxHalt,        \* bound: ticks that one hlt() lasts
    MaxKey          \* bound: the versions of the map that events lead to

Pages == 0 .. NPages - 1
AddrEnd == NPages * PageSize
BmemMax == BmemPages * PageSize

\* EFI memory types; a page that the map does not mention has none.
Types == {"Conventional", "LoaderData", "BootServicesData", "RuntimeServicesData",
          "ACPIReclaim", "ACPINVS", "Persistent", "Mmio", "none"}

NoFile == [elf |-> FALSE, len |-> 0, phdrs |-> << >>]
Phdrs == [load : BOOLEAN, off : Nat, paddr : Nat, filesz : Nat, memsz : Nat]
Files == [elf : BOOLEAN, len : Nat, phdrs : Seq(Phdrs)]

ASSUME Stage1Assumption ==
    /\ PageSize \in Nat \ {0} /\ NPages \in Nat \ {0} /\ MaxPhdrs \in Nat
    /\ BmemPages \in 1 .. NPages /\ Xm32Pages \in BmemPages .. NPages
    /\ BdaEnd \in 1 .. PageSize /\ BdaWords \subseteq 0 .. BdaEnd - 1
    /\ StartMaps \subseteq [Pages -> Types]
    /\ \A d \in Disks : \A n \in 1 .. 3 :
        /\ d[n] \in Files
        /\ \A a \in DOMAIN d[n].phdrs :
            d[n].phdrs[a].paddr + d[n].phdrs[a].memsz =< Xm32Pages * PageSize
    /\ TicksPerSecond \in Nat \ {0} /\ SecondsPerMinute \in Nat \ {0, 1}
    /\ Minutes \in Nat \ {0, 1}
    /\ MaxHalt \in 1 .. (TicksPerSecond * (SecondsPerMinute - 1))
    /\ MaxKey \in Nat

VARIABLES
    pc,
    map,            \* the firmware's memory map: the type of each page
    key,            \* its version, which ExitBootServices is given
    disk,
    file,           \* stage 2's file
    ph_idx,
    mem,            \* memory: a byte of the file, zero or anything
    trampoline,     \* the page for the trampoline
    held,           \* history: the pages that load_stage2 allocated
    undone,         \* free_stage2_mem: how many headers are done
    freed,          \* history: the pages that free_stage2_mem freed
    map_key,        \* the key that came with the map that was reported
    report,         \* the BP_MRNG parameters for extended memory
    clock, then,    \* the time, and the time a wait began; in ticks
    waits           \* how many of the four waits are over

undoVars == <<undone, freed>>
loadVars == <<file, ph_idx, mem, held, undoVars>>
handVars == <<map_key, report, clock, then, waits>>
vars == <<pc, map, key, disk, trampoline, loadVars, handVars>>

Anything == -1
FileByte(o) == o + 1    \* the byte at offset o; 0 is a zero

Init ==
    /\ pc = "media"
    /\ map \in StartMaps /\ key = 0
    /\ disk \in Disks
    /\ file = NoFile /\ ph_idx = 1
    /\ mem = [a \in 0 .. AddrEnd - 1 |-> Anything]
    /\ trampoline = 0 /\ held = {} /\ undone = 0 /\ freed = {}
    /\ map_key = 0 /\ report = {}
    /\ clock \in 0 .. (TicksPerSecond * SecondsPerMinute) - 1
    /\ then = 0 /\ waits = 0

\* AllocatePages: pages get a new type, and the map a new key.
Allocate(ps, type) ==
    /\ map' = [p \in Pages |-> IF p \in ps THEN type ELSE map[p]]
    /\ key' = key + 1

Fail == pc' = "error"

-----------------------------------------------------------------------------
\* find_boot_media.  (init, process_efi_conf_tables and process_pci are in
\* other modules; test_if_secure_boot changes nothing.)
FindBootMedia ==
    /\ pc = "media"
    /\ pc' = "trampoline"
    /\ UNCHANGED <<map, key, disk, trampoline, loadVars, handVars>>

AllocTrampoline ==
    /\ pc = "trampoline"
    /\ LET room == {p \in 0 .. Xm32Pages - 1 : map[p] = "Conventional"} IN
       \/ /\ room = {} /\ Fail
          /\ UNCHANGED <<map, key, trampoline>>
       \/ \E p \in room :
            /\ Allocate({p}, "LoaderData")
            /\ trampoline' = p
            /\ pc' = "open"
    /\ UNCHANGED <<disk, loadVars, handVars>>

\* The first of the three names that is there.
OpenStage2 ==
    /\ pc = "open"
    /\ LET there == {n \in 1 .. 3 : disk[n] # NoFile} IN
       \/ there = {} /\ Fail /\ UNCHANGED file
       \/ /\ there # {}
          /\ file' = disk[Min(there)]
          /\ pc' = "headers"
    /\ UNCHANGED <<map, key, disk, trampoline, ph_idx, mem, held, undoVars, handVars>>

\* The checks on the ELF header; then the program headers are read.
ReadHeaders ==
    /\ pc = "headers"
    /\ pc' = IF file.elf /\ Len(file.phdrs) =< MaxPhdrs THEN "load" ELSE "error"
    /\ UNCHANGED <<map, key, disk, trampoline, loadVars, handVars>>

-----------------------------------------------------------------------------
(***************************************************************************)
(* One program header.  A segment that starts within a page is loaded from *)
(* the start of that page, with what comes before it in the file.          *)
(***************************************************************************)
Phdr == file.phdrs[ph_idx]
Slack(h) == h.paddr % PageSize
PagesFor(sz) == (sz + PageSize - 1) \div PageSize
SegPages(h) ==
    LET first == h.paddr \div PageSize
    IN  first .. first + PagesFor(h.memsz + Slack(h)) - 1

\* The type that stage 2's pages get.
\* Mutant: that of a boot loader's own data.
SegTypeLoader == "LoaderData"

SegType == "RuntimeServicesData"

LoadSegment ==
    /\ pc = "load" /\ ph_idx =< Len(file.phdrs) /\ Phdr.load
    /\ IF /\ Phdr.filesz =< Phdr.memsz
          /\ SegPages(Phdr) # {}
          /\ \A p \in SegPages(Phdr) : map[p] = "Conventional"
       THEN /\ Allocate(SegPages(Phdr), SegType)
            /\ held' = held \cup SegPages(Phdr)
            /\ pc' = "fill"
       ELSE pc' = "undo" /\ UNCHANGED <<map, key, held>>
    /\ UNCHANGED <<disk, trampoline, file, ph_idx, mem, undoVars, handVars>>

(***************************************************************************)
(* free_stage2_mem: for each header before the bad one, so many pages as   *)
(* the FIRST one says, from its address.  FreePages takes only whole pages *)
(* that are allocated.                                                     *)
(***************************************************************************)
\* Mutant: the last one allocated is left out.
HeadersToUndoShort == ph_idx - 2

HeadersToUndo == ph_idx - 1

PagesToFree(h) ==
    LET first == h.paddr \div PageSize
    IN  first .. first + PagesFor(file.phdrs[1].memsz) - 1

Freeable(h) ==
    /\ Slack(h) = 0
    /\ PagesToFree(h) # {} /\ PagesToFree(h) \subseteq Pages
    /\ \A p \in PagesToFree(h) : map[p] \notin {"Conventional", "none"}

FreeOne ==
    /\ pc = "undo" /\ undone < HeadersToUndo
    /\ LET h == file.phdrs[undone + 1] IN
       IF Freeable(h)
       THEN Allocate(PagesToFree(h), "Conventional") /\ freed' = freed \cup PagesToFree(h)
       ELSE UNCHANGED <<map, key, freed>>
    /\ undone' = undone + 1
    /\ UNCHANGED <<pc, disk, trampoline, file, ph_idx, mem, held, handVars>>

FreeDone ==
    /\ pc = "undo" /\ undone >= HeadersToUndo
    /\ pc' = "undone"
    /\ UNCHANGED <<map, key, disk, trampoline, loadVars, handVars>>

SkipSegment ==
    /\ pc = "load" /\ ph_idx =< Len(file.phdrs) /\ ~Phdr.load
    /\ ph_idx' = ph_idx + 1
    /\ UNCHANGED <<pc, map, key, disk, trampoline, file, mem, held, undoVars, handVars>>

LoadDone ==
    /\ pc = "load" /\ ph_idx > Len(file.phdrs)
    /\ pc' = "map"
    /\ UNCHANGED <<map, key, disk, trampoline, loadVars, handVars>>

\* Where in the file a segment's first page starts.
\* Mutant: the offset is that of the segment.
FileStartPlain(h) == h.off

FileStart(h) == h.off - Slack(h)

\* Read and zero-fill.  A read past the end of the file, or from an offset
\* that has become negative, is short.
FillSegment ==
    /\ pc = "fill"
    /\ LET base == Phdr.paddr - Slack(Phdr)
           filesz == IF Phdr.filesz = 0 THEN 0 ELSE Phdr.filesz + Slack(Phdr)
           memsz == Phdr.memsz + Slack(Phdr)
           off == FileStart(Phdr)
       IN  \/ /\ filesz # 0 /\ (off < 0 \/ off + filesz > file.len)
              /\ Fail
              /\ UNCHANGED <<mem, ph_idx>>
           \/ /\ filesz = 0 \/ (off >= 0 /\ off + filesz =< file.len)
              /\ mem' = [a \in DOMAIN mem |->
                            CASE a \in base .. base + filesz - 1 -> FileByte(off + (a - base))
                              [] a \in base + filesz .. base + memsz - 1 -> 0
                              [] OTHER -> mem[a]]
              /\ ph_idx' = ph_idx + 1
              /\ pc' = "load"
    /\ UNCHANGED <<map, key, disk, trampoline, file, held, undoVars, handVars>>

-----------------------------------------------------------------------------
\* EFI's memory types as E820 types.
E820(type) ==
    CASE type \in {"Conventional", "LoaderData", "BootServicesData"} -> "RAM"
      [] type = "ACPIReclaim" -> "ACPI"
      [] type = "ACPINVS" -> "NVS"
      [] type = "Persistent" -> "PMEM"
      [] OTHER -> "RESERVED"

\* The descriptors of the map: runs of pages of one type.
Descs ==
    {d \in [start : Pages, pages : 1 .. NPages, type : Types \ {"none"}] :
        LET end == d.start + d.pages IN
        /\ end =< NPages
        /\ \A p \in d.start .. end - 1 : map[p] = d.type
        /\ d.start = 0 \/ map[d.start - 1] # d.type
        /\ end = NPages \/ map[end] # d.type}

\* The end of a descriptor, which is 0 at the end of the address space.
DescEnd(d) == ((d.start + d.pages) * PageSize) % AddrEnd

InBaseMem(d) == DescEnd(d) =< BmemMax /\ DescEnd(d) # 0

(***************************************************************************)
(* prepare_to_hand_over, first part: read the map with its key, and report *)
(* what is above 1 MiB.  The boot parameters are made in base memory, see  *)
(* Bmem, with no more calls to the firmware.                               *)
(***************************************************************************)
ReportMap ==
    /\ pc = "map"
    /\ map_key' = key
    /\ report' = {LET start == IF d.start < BmemPages THEN BmemMax ELSE d.start * PageSize
                  IN  [start |-> start, len |-> (DescEnd(d) - start) % AddrEnd,
                       type |-> E820(d.type)] : d \in {d \in Descs : ~InBaseMem(d)}}
    /\ then' = clock
    /\ pc' = "wait"
    /\ UNCHANGED <<map, key, disk, trampoline, loadVars, clock, waits>>

-----------------------------------------------------------------------------
TicksPerMinute == TicksPerSecond * SecondsPerMinute
ClockEnd == TicksPerMinute * Minutes
InMinute(t) == t % TicksPerMinute
MinuteOf(t) == t \div TicksPerMinute

\* hlt() until an interrupt; time goes on.  Then get_time.  An interrupt
\* before the clock has moved on changes nothing.
Sample(now) ==
    /\ \E d \in 1 .. MaxHalt : now = (clock + d) % ClockEnd
    /\ clock' = now

\* Whether wait_for_time_change (the first wait) or wait_for_one_second ends.
\* Mutant: the seconds start again from 0 and nobody notices.
WaitOverNoCarry(now) ==
    IF waits = 0 THEN InMinute(now) # InMinute(then)
    ELSE InMinute(now) >= InMinute(then) + TicksPerSecond

WaitOver(now) ==
    IF waits = 0 THEN InMinute(now) # InMinute(then)
    ELSE InMinute(now) + (IF MinuteOf(now) # MinuteOf(then) THEN TicksPerMinute ELSE 0)
         >= InMinute(then) + TicksPerSecond

Wait ==
    /\ pc = "wait"
    /\ \E now \in 0 .. ClockEnd - 1 :
        /\ Sample(now)
        /\ IF WaitOver(now)
           THEN /\ waits' = waits + 1
                /\ then' = now
                /\ pc' = IF waits' = 4 THEN "exit" ELSE "wait"
           ELSE UNCHANGED <<waits, then, pc>>
    /\ UNCHANGED <<map, key, disk, trampoline, loadVars, map_key, report>>

\* ExitBootServices is called with the key of the map that was reported.
\* Mutant: with a fresh one, as a loop that retries would.
KeyToExitFresh == key

KeyToExit == map_key

ExitBootServices ==
    /\ pc = "exit"
    /\ pc' = IF KeyToExit = key THEN "run" ELSE "error"
    /\ UNCHANGED <<map, key, disk, trampoline, loadVars, handVars>>

\* Where `rep stosq' stops.
\* Mutant: ecx counts bytes, while each store is a quadword.
ClearEndBytes == 8 * BdaEnd

ClearEnd == BdaEnd

(***************************************************************************)
(* run_stage2: `mov [esp+4], ebx', with esp at the end of the trampoline's *)
(* page, writes to the start of the next one; the vector table and the     *)
(* BIOS data area are cleared; stack and trampoline fill their page.  Then *)
(* the trampoline itself sets two words of the BIOS data area.             *)
(***************************************************************************)
RunStage2 ==
    /\ pc = "run"
    /\ LET base == trampoline * PageSize
           written == base .. base + PageSize \cup BdaWords
       IN  mem' = [a \in DOMAIN mem |->
                      IF a \in written THEN Anything
                      ELSE IF a < ClearEnd THEN 0 ELSE mem[a]]
    /\ pc' = "stage2"
    /\ UNCHANGED <<map, key, disk, trampoline, file, ph_idx, held, undoVars, handVars>>

-----------------------------------------------------------------------------
\* A call of the firmware reports an error: no protocol, no volume, a failed
\* read or seek, no memory map, no time of day.
FirmwareError ==
    /\ pc \in {"media", "open", "headers", "fill", "map", "wait"}
    /\ Fail
    /\ UNCHANGED <<map, key, disk, trampoline, loadVars, handVars>>

\* A timer event allocates or frees memory of the firmware's own.
FirmwareEvent ==
    /\ pc \notin {"run", "stage2", "error", "undone"}
    /\ key < MaxKey
    /\ \E p \in Pages :
        \/ /\ map[p] = "Conventional"
           /\ \E type \in {"BootServicesData", "ACPINVS"} : Allocate({p}, type)
        \/ map[p] = "BootServicesData" /\ Allocate({p}, "Conventional")
    /\ UNCHANGED <<pc, disk, trampoline, loadVars, handVars>>

Main == FindBootMedia \/ AllocTrampoline \/ OpenStage2 \/ ReadHeaders \/ LoadSegment
        \/ FreeOne \/ FreeDone \/ SkipSegment \/ FillSegment \/ LoadDone
        \/ ReportMap \/ Wait \/ ExitBootServices \/ RunStage2

Finished == pc \in {"stage2", "error", "undone"}

Next == Main \/ FirmwareError \/ FirmwareEvent \/ (Finished /\ UNCHANGED vars)

\* Stage 1 keeps running, and interrupts keep ending hlt().
Spec == Init /\ [][Next]_vars /\ WF_vars(Main)

-----------------------------------------------------------------------------
SegsOf(f) == {n \in DOMAIN f.phdrs : f.phdrs[n].load}

\* What run_stage2 writes to beside the trampoline's own page: the real-mode
\* vector table and BIOS data area (run-stage2.asm:50-53, 91-94), and the start
\* of the page after the trampoline's (45), though one page was allocated
\* (main.c:101-102).
Overwritten == 0 .. BdaEnd - 1 \cup {(trampoline + 1) * PageSize}

\* Stage 2 starts with its segments in memory as ELF has it: each byte of the
\* file at its own address, the rest zero, wherever in a page the segment
\* starts, whatever came after it was loaded (main.c:234-272) and wherever the
\* trampoline was put.  Nothing keeps a file from having a segment where
\* run_stage2 writes in the end; those bytes, and only those, are not its own.
Loaded ==
    pc = "stage2" =>
        \A n \in SegsOf(file) : \A i \in 0 .. file.phdrs[n].memsz - 1 :
            LET h == file.phdrs[n] IN
            h.paddr + i \notin Overwritten =>
                mem[h.paddr + i] = IF i < h.filesz THEN FileByte(h.off + i) ELSE 0

ReportedAt(a) == {r \in report : r.start =< a /\ a < r.start + r.len}

\* What stage 2 is told of extended memory is true when it starts: each page
\* above 1 MiB is in one range, of the type it has in the firmware's map at
\* that time, and pages that are not in the map are in none.  Events that
\* change the map between its reading and the exit, seconds later
\* (main.c:454, 502), never lead to a start with the old report.
ReportTrue ==
    pc = "stage2" =>
        \A p \in BmemPages .. NPages - 1 : \A a \in p * PageSize .. (p + 1) * PageSize - 1 :
            {r.type : r \in ReportedAt(a)}
                = IF map[p] = "none" THEN {} ELSE {E820(map[p])}

\* Stage 2's own mem_alloc is never given the memory that stage 2 itself was
\* loaded to: none of it is reported as RAM (main.c:261, 463-469).
NotGivenAway ==
    pc = "stage2" =>
        \A n \in SegsOf(file) : \A i \in 0 .. file.phdrs[n].memsz - 1 :
            \A r \in ReportedAt(file.phdrs[n].paddr + i) : r.type # "RAM"

\* Where each header before the bad one is a segment of so many whole pages
\* as the first.
Uniform ==
    \A n \in 1 .. ph_idx - 1 :
        LET h == file.phdrs[n] IN
        /\ h.load /\ Slack(h) = 0
        /\ PagesFor(h.memsz) = PagesFor(file.phdrs[1].memsz)

\* When a segment cannot be loaded, free_stage2_mem (main.c:155-165) undoes
\* exactly the allocations of those before it, if they are of one size; it
\* goes by the first header's size.
UndoExact == pc = "undone" /\ Uniform => freed = held

\* Stage 1 starts stage 2 or stops with an error.  Each wait of about a second
\* ends, across the end of a minute too (main.c:423-436).
Ends == <>Finished
=============================================================================
