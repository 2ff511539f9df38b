-------------------------------- MODULE Bmem --------------------------------
(***************************************************************************)
(* Stage 1's base memory allocator (stage1/bmem.c) together with the boot  *)
(* parameter list it feeds (stage1/bparm.c).                               *)
(*                                                                         *)
(* Base memory is the 1 MiB below BMEM_MAX_ADDR, NPages pages of PageSize  *)
(* bytes.  bmem_init() grabs every page UEFI will give it, groups the      *)
(* grabbed pages into blocks and measures the memory that starts at        *)
(* address 0.  The other parts of stage 1 then allocate:                   *)
(* run-time memory from the top of the highest block that fits,            *)
(* boot-time memory from the bottom of the lowest one.  bmem_fini() adds a *)
(* boot parameter for each range of base memory; each of those parameters  *)
(* is itself a boot-time allocation, made while the blocks are being       *)
(* reported.                                                               *)
(*                                                                         *)
(* Stage 1 is single-threaded.  pc follows it through the phases; a loop   *)
(* whose body allocates or writes the block array takes a step per         *)
(* iteration.                                                              *)
(***************************************************************************)
EXTENDS Integers, Sequences

CONSTANTS
    PageSize,   \* EFI_PAGE_SIZE
    NPages,     \* BMEM_MAX_ADDR / EFI_PAGE_SIZE
    WordMax,    \* the largest UINTN
    KiB,        \* KIBYTE
    ParaSize,   \* PARA_SIZE
    MinTop,     \* 192 * KIBYTE, the least base memory to go on with
    MinGap,     \* 128 * KIBYTE, the least scratch area to leave
    NodeSize,   \* sizeof(bparm_t) + sizeof(bdat_mem_range_t)
    NodeAlign,  \* sizeof(void *)
    RunReqs,    \* the [size, align] arguments bmem_alloc is called with
    BootReqs    \* the [size, align] arguments bmem_alloc_boottime is called with

Requests == [size : Nat \ {0}, align : Nat \ {0}]

ASSUME SizeAssumption ==
    /\ PageSize \in Nat \ {0} /\ NPages \in Nat \ {0, 1}
    /\ WordMax \in Nat \ {0} /\ NPages =< WordMax
    /\ KiB \in Nat \ {0} /\ ParaSize \in Nat \ {0}
    /\ MinTop \in Nat \ {0} /\ MinGap \in Nat /\ MinGap =< MinTop

ASSUME RequestAssumption ==
    /\ NodeSize \in Nat \ {0} /\ NodeAlign \in Nat \ {0}
    /\ RunReqs \subseteq Requests /\ BootReqs \subseteq Requests

VARIABLES
    pc,         \* where stage 1 is
    page_count, \* bmem_init: how many pages to ask UEFI for next
    kind,       \* the UEFI memory map: the type of each base memory page
    avail,      \* bmem_init: the bit vector of available pages
    idx,        \* the page that bmem_init's or bmem_fini's loop is at
    start,      \* bmem_init: start of the block being grouped
    blk,        \* the array of blocks
    num_blks,   \* how many entries of it are in use
    boottime_bmem_bot,
    runtime_bmem_top,
    blk_idx,    \* add_our_mem_bparms: the block the loop is at
    cur,        \* add_our_mem_bparms: its copy of that block's bounds
    rt,         \* history: the run-time areas handed out
    bt,         \* history: the boot-time areas handed out
    mrngs       \* the memory range parameters, in list order

initVars == <<page_count, kind, avail, idx, start>>
allocVars == <<blk, num_blks, boottime_bmem_bot, runtime_bmem_top, rt, bt>>
vars == <<pc, initVars, allocVars, blk_idx, cur, mrngs>>

-----------------------------------------------------------------------------
BmemMaxAddr == NPages * PageSize
\* Mutant: room for fewer blocks than there can be.
MaxBmemBlksTooFew == NPages \div 3

MaxBmemBlks == NPages \div 2

Pages == 0 .. NPages - 1
Addrs == 0 .. BmemMaxAddr

(***************************************************************************)
(* "conv" is EfiConventionalMemory, "boot" the loader and boot services    *)
(* types, which become free at ExitBootServices, "ours" the                *)
(* EfiRuntimeServicesData pages bmem_init grabbed, and "resv" stands for   *)
(* every type the firmware keeps (runtime services, ACPI, MMIO, ...).      *)
(***************************************************************************)
FirmwareKinds == {"conv", "boot", "resv"}
FreedKinds == {"conv", "boot"}

Blocks == [start : Addrs, end : Addrs, orig_end : Addrs]
NoBlock == [start |-> 0, end |-> 0, orig_end |-> 0]
Areas == [start : Addrs, end : Nat]

Area(s, e) == [start |-> s, end |-> e]
PageArea(p) == Area(p * PageSize, p * PageSize + PageSize)

\* Two half-open address ranges have a byte in common.
Overlap(a, b) == a.start < b.end /\ b.start < a.end
Inside(a, b) == b.start =< a.start /\ a.end =< b.end

AlignDown(x, a) == x - (x % a)
AlignUp(x, a) == AlignDown(x + a - 1, a)

Live == 0 .. num_blks - 1

-----------------------------------------------------------------------------
Init ==
    /\ pc = "grab"
    /\ page_count = NPages \div 2
    /\ kind \in [Pages -> FirmwareKinds]
    /\ avail = [p \in Pages |-> FALSE]
    /\ idx = 1
    /\ start = BmemMaxAddr
    /\ blk = [i \in 0 .. MaxBmemBlks - 1 |-> NoBlock]
    /\ num_blks = 0
    /\ boottime_bmem_bot = PageSize
    /\ runtime_bmem_top = 0
    /\ blk_idx = 0
    /\ cur = NoBlock
    /\ rt = {} /\ bt = {}
    /\ mrngs = << >>

(***************************************************************************)
(* BS->AllocatePages(AllocateMaxAddress): the firmware finds n consecutive *)
(* conventional pages starting at page f, if there are any.                *)
(***************************************************************************)
FreeRun(f, n) ==
    /\ f + n =< NPages
    /\ \A p \in f .. f + n - 1 : kind[p] = "conv"

(***************************************************************************)
(* bmem_init's loop over AllocatePages.  The inner                         *)
(* `while (page_count-- != 0)' leaves page_count wrapped round to the      *)
(* largest UINTN, so after each success the outer loop halves its way down *)
(* from there again.                                                       *)
(***************************************************************************)
GrabSome ==
    /\ pc = "grab"
    /\ \E f \in Pages :
        /\ FreeRun(f, page_count)
        /\ LET got == f .. f + page_count - 1 IN
           /\ kind' = [p \in Pages |-> IF p \in got THEN "ours" ELSE kind[p]]
           /\ avail' = [p \in Pages |-> p \in got \/ avail[p]]
    /\ page_count' = WordMax
    /\ UNCHANGED <<pc, idx, start, allocVars, blk_idx, cur, mrngs>>

\* Mutants of GrabFail: the loop stops before single pages are tried; it
\* rounds the halved count up.
GrabFailStopsAtTwo ==
    /\ pc = "grab"
    /\ \A f \in Pages : ~FreeRun(f, page_count)
    /\ page_count' = page_count \div 2
    /\ pc' = IF page_count' =< 1 THEN "group" ELSE "grab"
    /\ UNCHANGED <<kind, avail, idx, start, allocVars, blk_idx, cur, mrngs>>

GrabFailRoundsUp ==
    /\ pc = "grab"
    /\ \A f \in Pages : ~FreeRun(f, page_count)
    /\ page_count' = (page_count + 1) \div 2
    /\ pc' = IF page_count' = 0 THEN "group" ELSE "grab"
    /\ UNCHANGED <<kind, avail, idx, start, allocVars, blk_idx, cur, mrngs>>

GrabFail ==
    /\ pc = "grab"
    /\ \A f \in Pages : ~FreeRun(f, page_count)
    /\ page_count' = page_count \div 2
    /\ pc' = IF page_count' = 0 THEN "group" ELSE "grab"
    /\ UNCHANGED <<kind, avail, idx, start, allocVars, blk_idx, cur, mrngs>>

(***************************************************************************)
(* bmem_init's grouping loop over pages 1, 2, ...  start = BmemMaxAddr     *)
(* says that no block is open.                                             *)
(***************************************************************************)
NewBlock(s, e) ==
    /\ blk' = [blk EXCEPT ![num_blks] =
                   [start |-> s, end |-> e, orig_end |-> e]]
    /\ num_blks' = num_blks + 1
    /\ UNCHANGED <<boottime_bmem_bot, runtime_bmem_top, rt, bt>>

GroupAvail ==
    /\ pc = "group" /\ idx < NPages /\ avail[idx]
    /\ start' = IF start = BmemMaxAddr THEN idx * PageSize ELSE start
    /\ idx' = idx + 1
    /\ UNCHANGED <<pc, page_count, kind, avail, allocVars, blk_idx, cur, mrngs>>

GroupUnavail ==
    /\ pc = "group" /\ idx < NPages /\ ~avail[idx]
    /\ IF start # BmemMaxAddr THEN NewBlock(start, idx * PageSize)
                              ELSE UNCHANGED allocVars
    /\ start' = BmemMaxAddr
    /\ idx' = idx + 1
    /\ UNCHANGED <<pc, page_count, kind, avail, blk_idx, cur, mrngs>>

\* Mutant: a block that is open at the end is forgotten.
GroupEndForgets ==
    /\ pc = "group" /\ idx = NPages
    /\ pc' = "gauge"
    /\ UNCHANGED <<initVars, allocVars, blk_idx, cur, mrngs>>

GroupEnd ==
    /\ pc = "group" /\ idx = NPages
    /\ IF start # BmemMaxAddr THEN NewBlock(start, idx * PageSize)
                              ELSE UNCHANGED allocVars
    /\ pc' = "gauge"
    /\ UNCHANGED <<initVars, blk_idx, cur, mrngs>>

\* bmem_check_enough(): whether it returns.
Enough(bot, top) == top >= MinTop /\ bot =< top - MinGap

(***************************************************************************)
(* The rest of bmem_init: pages that ExitBootServices will free count as   *)
(* available too; n is the first page that is not.                         *)
(***************************************************************************)
Gauge ==
    /\ pc = "gauge"
    /\ avail' = [p \in Pages |-> avail[p] \/ kind[p] \in FreedKinds]
    /\ \E n \in 0 .. NPages :
        /\ \A p \in 0 .. n - 1 : avail'[p]
        /\ n < NPages => ~avail'[n]
        /\ runtime_bmem_top' = IF n * PageSize < MinTop
                               THEN runtime_bmem_top ELSE n * PageSize
    /\ pc' = IF Enough(boottime_bmem_bot, runtime_bmem_top')
             THEN "run" ELSE "error"
    /\ UNCHANGED <<page_count, kind, idx, start, blk, num_blks,
                   boottime_bmem_bot, rt, bt, blk_idx, cur, mrngs>>

-----------------------------------------------------------------------------
\* Where bmem_alloc would put an area in block i, and whether it fits.
RunStart(i, req) == AlignDown(blk[i].end - req.size, req.align)
RunFits(i, req) ==
    /\ blk[i].end - blk[i].start >= req.size
    /\ RunStart(i, req) >= blk[i].start

(***************************************************************************)
(* bmem_alloc(size, align): the highest block that fits.  error() never    *)
(* returns.                                                                *)
(***************************************************************************)
\* Mutant: the block keeps its end.
BmemAllocKeepsEnd(req) ==
    /\ pc = "run"
    /\ \E i \in Live :
        /\ RunFits(i, req)
        /\ \A j \in Live : j > i => ~RunFits(j, req)
        /\ LET astart == RunStart(i, req) IN
           /\ runtime_bmem_top' = IF runtime_bmem_top > astart
                                  THEN astart ELSE runtime_bmem_top
           /\ blk' = [blk EXCEPT ![i].end = astart + req.size]
           /\ rt' = rt \cup {Area(astart, astart + req.size)}
    /\ UNCHANGED <<pc, initVars, num_blks,
                   boottime_bmem_bot, bt, blk_idx, cur, mrngs>>

BmemAlloc(req) ==
    /\ pc = "run"
    /\ \E i \in Live :
        /\ RunFits(i, req)
        /\ \A j \in Live : j > i => ~RunFits(j, req)
        /\ LET astart == RunStart(i, req) IN
           /\ runtime_bmem_top' = IF runtime_bmem_top > astart
                                  THEN astart ELSE runtime_bmem_top
           /\ blk' = [blk EXCEPT ![i].end = astart]
           /\ rt' = rt \cup {Area(astart, astart + req.size)}
    /\ UNCHANGED <<pc, initVars, num_blks, boottime_bmem_bot, bt,
                   blk_idx, cur, mrngs>>

BmemAllocError(req) ==
    /\ pc = "run"
    /\ \A i \in Live : ~RunFits(i, req)
    /\ pc' = "error"
    /\ UNCHANGED <<initVars, allocVars, blk_idx, cur, mrngs>>

\* Where bmem_alloc_boottime would put an area in block i, and whether it fits.
BootStart(i, req) == AlignUp(blk[i].start, req.align)
BootFits(i, req) ==
    /\ blk[i].end - blk[i].start >= req.size
    /\ BootStart(i, req) =< blk[i].end
    /\ blk[i].end - BootStart(i, req) >= req.size

FirstBootFit(i, req) ==
    BootFits(i, req) /\ \A j \in Live : j < i => ~BootFits(j, req)

(***************************************************************************)
(* bmem_alloc_boottime(size, align): the lowest block that fits, if its    *)
(* area starts below runtime_bmem_top.  A block that is used up leaves the *)
(* array, and those after it move down.                                    *)
(***************************************************************************)
BootOK(i, req) == FirstBootFit(i, req) /\ BootStart(i, req) < runtime_bmem_top

\* What the caller goes on to is not part of this: only the allocator's state.
TakeBoottime(i, req) ==
    LET astart == BootStart(i, req)
        aend == astart + req.size
    IN  /\ boottime_bmem_bot' = IF boottime_bmem_bot < aend
                                THEN aend ELSE boottime_bmem_bot
        /\ IF aend # blk[i].end
           THEN /\ blk' = [blk EXCEPT ![i].start = aend]
                /\ UNCHANGED num_blks
           ELSE /\ blk' = [j \in DOMAIN blk |->
                             IF j \in i .. num_blks - 2 THEN blk[j + 1] ELSE blk[j]]
                /\ num_blks' = num_blks - 1
        /\ bt' = bt \cup {Area(astart, aend)}
        /\ UNCHANGED <<runtime_bmem_top, rt>>

BmemAllocBoottime(req) ==
    /\ pc = "run"
    /\ \E i \in Live : BootOK(i, req) /\ TakeBoottime(i, req)
    /\ UNCHANGED <<pc, initVars, blk_idx, cur, mrngs>>

BmemAllocBoottimeError(req) ==
    /\ pc = "run"
    /\ \A i \in Live : ~BootOK(i, req)
    /\ pc' = "error"
    /\ UNCHANGED <<initVars, allocVars, blk_idx, cur, mrngs>>

-----------------------------------------------------------------------------
NodeReq == [size |-> NodeSize, align |-> NodeAlign]

(***************************************************************************)
(* bparm_add_mem_range(): an empty range adds nothing, any other a list    *)
(* node in boot-time memory; without room for it error() stops stage 1.    *)
(* next is where the caller continues.                                     *)
(***************************************************************************)
BparmAddMemRange(s, e, type, next) ==
    \/ /\ s = e
       /\ pc' = next
       /\ UNCHANGED <<allocVars, mrngs>>
    \/ /\ s # e
       /\ \E i \in Live : BootOK(i, NodeReq) /\ TakeBoottime(i, NodeReq)
       /\ mrngs' = Append(mrngs, [start |-> s, end |-> e, type |-> type])
       /\ pc' = next
    \/ /\ s # e
       /\ \A i \in Live : ~BootOK(i, NodeReq)
       /\ pc' = "error"
       /\ UNCHANGED <<allocVars, mrngs>>

\* Stage 1 is done allocating and calls bmem_fini() with a fresh memory map.
BmemFini ==
    /\ pc = "run"
    /\ pc' = "uefi" /\ idx' = 0
    /\ UNCHANGED <<page_count, kind, avail, start, allocVars, blk_idx, cur, mrngs>>

(***************************************************************************)
(* add_uefi_mem_bparms(), a descriptor at a time.  How UEFI cuts pages of  *)
(* a type into descriptors is its own affair: [idx, e) is any run of pages *)
(* of one type.                                                            *)
(***************************************************************************)
\* Mutant: what bmem_init grabbed is left out as well.
AddUefiMemBparmNotOurs ==
    /\ pc = "uefi" /\ idx < NPages
    /\ \E e \in idx + 1 .. NPages :
        /\ \A p \in idx .. e - 1 : kind[p] = kind[idx]
        /\ idx' = e
        /\ IF kind[idx] # "resv"
           THEN UNCHANGED <<pc, allocVars, mrngs>>
           ELSE BparmAddMemRange(idx * PageSize, e * PageSize, "RESERVED",
                                 "uefi")
    /\ UNCHANGED <<page_count, kind, avail, start, blk_idx, cur>>

AddUefiMemBparm ==
    /\ pc = "uefi" /\ idx < NPages
    /\ \E e \in idx + 1 .. NPages :
        /\ \A p \in idx .. e - 1 : kind[p] = kind[idx]
        /\ idx' = e
        /\ IF kind[idx] \in FreedKinds
           THEN UNCHANGED <<pc, allocVars, mrngs>>
           ELSE BparmAddMemRange(idx * PageSize, e * PageSize, "RESERVED",
                                 "uefi")
    /\ UNCHANGED <<page_count, kind, avail, start, blk_idx, cur>>

\* add_our_mem_bparms(): first the base memory that starts at address 0 ...
AddBaseBparm ==
    /\ pc = "uefi" /\ idx = NPages
    /\ BparmAddMemRange(0, runtime_bmem_top, "RAM", "skip")
    /\ UNCHANGED <<initVars, blk_idx, cur>>

\* ... then past the blocks below runtime_bmem_top ...
\* Mutant: no block is skipped.
SkipNoBlks ==
    /\ pc = "skip"
    /\ blk_idx' = 0
    /\ pc' = "ours"
    /\ UNCHANGED <<initVars, allocVars, cur, mrngs>>

SkipLowBlks ==
    /\ pc = "skip"
    /\ \E n \in 0 .. num_blks :
        /\ \A i \in 0 .. n - 1 : blk[i].start < runtime_bmem_top
        /\ n < num_blks => blk[n].start >= runtime_bmem_top
        /\ blk_idx' = n
    /\ pc' = "ours"
    /\ UNCHANGED <<initVars, allocVars, cur, mrngs>>

(***************************************************************************)
(* ... and then two parameters for each block above it.  The block's       *)
(* bounds are read before either parameter is allocated.                   *)
(***************************************************************************)
\* Mutant: what is left of the block is taken for what it was.
AddBlkAllFreeBparm ==
    /\ pc = "ours" /\ blk_idx < num_blks
    /\ cur' = blk[blk_idx]
    /\ BparmAddMemRange(cur'.start, cur'.orig_end, "RAM", "used")
    /\ UNCHANGED <<initVars, blk_idx>>

AddBlkFreeBparm ==
    /\ pc = "ours" /\ blk_idx < num_blks
    /\ cur' = blk[blk_idx]
    /\ BparmAddMemRange(cur'.start, cur'.end, "RAM", "used")
    /\ UNCHANGED <<initVars, blk_idx>>

AddBlkUsedBparm ==
    /\ pc = "used"
    /\ BparmAddMemRange(cur.end, cur.orig_end, "RESERVED", "ours")
    /\ blk_idx' = blk_idx + 1
    /\ UNCHANGED <<initVars, cur>>

\* The rest of bmem_fini(): round both marks inwards and check once more.
\* Mutant: the marks are rounded outwards.
FiniDoneOutwards ==
    /\ pc = "ours" /\ blk_idx >= num_blks
    /\ boottime_bmem_bot' = AlignDown(boottime_bmem_bot, ParaSize)
    /\ runtime_bmem_top' = AlignUp(runtime_bmem_top, KiB)
    /\ pc' = IF Enough(boottime_bmem_bot', runtime_bmem_top')
             THEN "done" ELSE "error"
    /\ UNCHANGED <<initVars, blk, num_blks, rt, bt, blk_idx, cur, mrngs>>

FiniDone ==
    /\ pc = "ours" /\ blk_idx >= num_blks
    /\ boottime_bmem_bot' = AlignUp(boottime_bmem_bot, ParaSize)
    /\ runtime_bmem_top' = AlignDown(runtime_bmem_top, KiB)
    /\ pc' = IF Enough(boottime_bmem_bot', runtime_bmem_top')
             THEN "done" ELSE "error"
    /\ UNCHANGED <<initVars, blk, num_blks, rt, bt, blk_idx, cur, mrngs>>

Stopped ==
    /\ pc \in {"done", "error"}
    /\ UNCHANGED vars

-----------------------------------------------------------------------------
InitStep == GrabSome \/ GrabFail \/ GroupAvail \/ GroupUnavail \/ GroupEnd \/ Gauge
UseStep ==
    \/ \E req \in RunReqs : BmemAlloc(req) \/ BmemAllocError(req)
    \/ \E req \in BootReqs : BmemAllocBoottime(req) \/ BmemAllocBoottimeError(req)
FiniStep ==
    \/ BmemFini \/ AddUefiMemBparm \/ AddBaseBparm \/ SkipLowBlks
    \/ AddBlkFreeBparm \/ AddBlkUsedBparm \/ FiniDone

Work == InitStep \/ UseStep \/ FiniStep
Next == Work \/ Stopped

Spec == Init /\ [][Next]_vars
\* Stage 1 is one thread of control that keeps running.
FairSpec == Spec /\ WF_vars(Work)
-----------------------------------------------------------------------------
Phases == {"grab", "group", "gauge", "run", "uefi", "skip", "ours", "used",
           "done", "error"}
MemRanges == [start : Addrs, end : Addrs, type : {"RAM", "RESERVED"}]

\* Every variable has its type; in particular the block array, of
\* MAX_BMEM_BLKS entries (bmem.c:48), is never written past its end.
TypeOK ==
    /\ pc \in Phases
    /\ page_count \in 0 .. WordMax
    /\ kind \in [Pages -> FirmwareKinds \cup {"ours"}]
    /\ avail \in [Pages -> BOOLEAN]
    /\ idx \in 0 .. NPages
    /\ start \in Addrs
    /\ blk \in [0 .. MaxBmemBlks - 1 -> Blocks]
    /\ num_blks \in 0 .. MaxBmemBlks
    /\ boottime_bmem_bot \in Nat
    /\ runtime_bmem_top \in Addrs
    /\ blk_idx \in Nat
    /\ cur \in Blocks
    /\ rt \subseteq Areas /\ bt \subseteq Areas
    /\ mrngs \in Seq(MemRanges)

\* The loop at bmem.c:171-186 leaves UEFI no conventional page below 1 MiB,
\* whatever page_count wraps round to on the way, so that the firmware
\* cannot allocate base memory later ("first reserves as much base memory as
\* possible", bmem.c:43).
GrabsEverything == pc # "grab" => \A p \in Pages : kind[p] # "conv"

\* bmem.c:194-217 group the grabbed pages into blocks exactly: each grabbed
\* page but page 0 is in a block, a block has no other page in it, and the
\* blocks are in ascending order with a gap between any two.
GroupsExactly ==
    pc = "gauge" =>
        /\ \A p \in Pages \ {0} :
            kind[p] = "ours" <=>
                \E i \in Live : Inside(PageArea(p), Area(blk[i].start, blk[i].end))
        /\ \A i \in Live :
            /\ blk[i].start < blk[i].end /\ blk[i].end = blk[i].orig_end
            /\ ~Overlap(blk[i], PageArea(0))
            /\ \A j \in Live : i < j => blk[i].end < blk[j].start

\* No byte is handed out twice: the areas returned by bmem_alloc and
\* bmem_alloc_boottime and what is left of the blocks never overlap, and
\* all lie in pages bmem_init grabbed, above page 0 (which stage 2's
\* trampoline clears while the boot parameters are still in use).
NoOverlap ==
    /\ rt \cap bt = {}
    /\ \A a, b \in rt \cup bt : a # b => ~Overlap(a, b)
    /\ \A a \in rt \cup bt :
        /\ \A i \in Live : ~Overlap(a, blk[i])
        /\ \A p \in Pages : Overlap(a, PageArea(p)) => p # 0 /\ kind[p] = "ours"
        /\ a.end =< BmemMaxAddr

\* What bmem_fini() hands to stage 2 (bmem.c:64-76): the boot parameters all
\* lie below boottime_bmem_bot, the run-time areas all above runtime_bmem_top,
\* the scratch area between the two marks is of the promised size, and
\* nothing below runtime_bmem_top stays with the firmware.
Scratch ==
    pc = "done" =>
        /\ runtime_bmem_top >= MinTop
        /\ boottime_bmem_bot + MinGap =< runtime_bmem_top
        /\ \A a \in bt : a.end =< boottime_bmem_bot
        /\ \A a \in rt : a.start >= runtime_bmem_top
        /\ \A p \in Pages :
            Overlap(PageArea(p), Area(0, runtime_bmem_top)) => kind[p] # "resv"

\* A range reported to stage 2 as usable RAM holds no run-time area and no
\* page the firmware keeps, although blocks move in the array while they are
\* being reported (bmem.c:142-153).
RamIsFree ==
    \A k \in 1 .. Len(mrngs) :
        mrngs[k].type = "RAM" =>
            /\ \A a \in rt : ~Overlap(a, mrngs[k])
            /\ \A p \in Pages :
                Overlap(PageArea(p), mrngs[k]) => kind[p] # "resv"

\* Two ranges reported as RAM never overlap, for stage 2 would hand out the
\* bytes they share twice (MemAlloc relies on it): bmem.c:142-143 pass over
\* the blocks that the first range already covers.
RamApart ==
    \A k, l \in 1 .. Len(mrngs) :
        k # l /\ mrngs[k].type = "RAM" /\ mrngs[l].type = "RAM"
            => ~Overlap(mrngs[k], mrngs[l])

\* When bmem_fini() returns, each page that the firmware or a run-time area
\* occupies is inside a range reported as reserved (bmem.c:95-98).
ReservedReported ==
    pc = "done" =>
        \A p \in Pages :
            kind[p] \in {"ours", "resv"} =>
                \E k \in 1 .. Len(mrngs) :
                    mrngs[k].type = "RESERVED" /\ Inside(PageArea(p), mrngs[k])

\* What stage 2 is told of base memory can be used as it stands: no byte of
\* RAM twice, and nothing that is in use left unreserved.
ReportUsable == RamApart /\ ReservedReported

\* "Add information about free & reserved memory below the 1 MiB mark as
\* managed by us" (bmem.c:134-136): the free part of every block is reported
\* as RAM.
FreeBlocksReported ==
    pc = "done" =>
        \A i \in Live :
            blk[i].start < blk[i].end =>
                \E k \in 1 .. Len(mrngs) :
                    mrngs[k].type = "RAM" /\ Inside(blk[i], mrngs[k])

\* Stage 1 gets through bmem_init() and bmem_fini(): neither the wrapping
\* page_count nor the array that shifts under add_our_mem_bparms keeps a
\* loop going for ever.
Terminates == <>(pc \in {"done", "error"})
=============================================================================
