------------------------------ MODULE MemInit -------------------------------
(***************************************************************************)
(* mem_init() of stage 2 (stage2/mem.c) as a whole: mem_map_init() and     *)
(* mem_alloc() are MemAlloc's; va_init(), which runs on top of them, finds *)
(* the holes in the memory map, identity-maps the rest and then gives the  *)
(* ranges that may not be cached their page flags, in a loop over          *)
(* mem_ranges[] that itself allocates page tables, and so splits entries   *)
(* of the array it walks.  VaMap takes over with the holes found here.     *)
(*                                                                         *)
(* vpc follows va_init; while it is inside mem_alloc, pc is MemAlloc's.    *)
(* Mappings here are identity mappings: of a page only its flags matter.   *)
(***************************************************************************)
EXTENDS MemAlloc

CONSTANTS
    PageSize,       \* PAGE_SIZE
    LP,             \* LARGE_PAGE_SIZE / PAGE_SIZE
    VaEntrySize,    \* sizeof(va_range_t)
    PdptSize,       \* 4 * sizeof(uint64_t), which is also PDPT_ALIGN
    NumPds,         \* the page directories, 4
    MaxBlocks       \* bound: mem_alloc calls that are followed

ASSUME VaInitAssumption ==
    /\ PageSize \in Nat \ {0} /\ LP \in Nat \ {0}
    /\ BmemMax % PageSize = 0 /\ Xm32Max % (PageSize * LP) = 0
    /\ VaEntrySize \in Nat \ {0} /\ PdptSize \in Nat \ {0} /\ NumPds \in Nat \ {0}
    /\ MaxBlocks \in Nat

VARIABLES
    vpc,
    vi,             \* va_init's i
    unused_va_ranges,
    todo,           \* the rest of do_va_id_map's range, in pages, and its flags
    start64,        \* the start of the range whose attributes are being set
    pd,             \* each page directory entry: blank, a large page, a table
    flags           \* each virtual page's flags

vaVars == <<vi, unused_va_ranges, todo, start64, pd, flags>>
allVars == <<vars, vpc, vaVars>>

NPages == Xm32Max \div PageSize
PageDown(a) == a - (a % PageSize)
PageUp(a) == PageDown(a + PageSize - 1)

\* uefi_attr_to_pte_flags; 0 is "wb".
PteFlags(attr) == CASE attr = "wb" -> "wb" [] attr = "wt" -> "wt" [] attr = "uc" -> "cd"

NothingToDo == [from |-> 0, to |-> 0, flags |-> "wb", then |-> "idmap"]

InitAll ==
    /\ Init
    /\ vpc = "array" /\ vi = 0
    /\ unused_va_ranges = << >>
    /\ todo = NothingToDo /\ start64 = 0
    /\ pd = [n \in 0 .. (NPages \div LP) - 1 |-> "blank"]
    /\ flags = [p \in 0 .. NPages - 1 |-> "none"]

\* Nobody is inside mem_map_init or mem_alloc.
Idle == pc \in {"sorted", "ready"}

-----------------------------------------------------------------------------
Request(sz, al) == [size |-> sz, align |-> al, max_addr |-> 0]

AllocArray ==
    /\ vpc = "array" /\ Idle
    /\ AllocBegin(Request(max_mem_ranges * VaEntrySize, 1))
    /\ vpc' = "holes" /\ vi' = 1
    /\ UNCHANGED <<unused_va_ranges, todo, start64, pd, flags>>

\* The end of the range before number n, up to a page.
\* Mutant: down to a page.
RangeEndDown(n) == PageDown(EndOf(mem_ranges[n - 1]))

RangeEnd(n) == PageUp(EndOf(mem_ranges[n - 1]))

\* The hole before range number n; holes in base memory may not be holes.
HoleStart(n) == IF RangeEnd(n) < BmemMax THEN BmemMax ELSE RangeEnd(n)
HoleEnd(n) ==
    IF n = num_mem_ranges \/ PageDown(mem_ranges[n].start) > Xm32Max
    THEN Xm32Max ELSE PageDown(mem_ranges[n].start)

\* The loop over mem_ranges[], up to one that ends at 4 GiB or above.
FindHole ==
    /\ vpc = "holes" /\ Idle /\ vi =< num_mem_ranges /\ RangeEnd(vi) < Xm32Max
    /\ unused_va_ranges' =
         IF HoleStart(vi) < HoleEnd(vi)
         THEN Append(unused_va_ranges, [start |-> HoleStart(vi),
                                        len |-> HoleEnd(vi) - HoleStart(vi)])
         ELSE unused_va_ranges
    /\ vi' = vi + 1
    /\ UNCHANGED <<vars, vpc, todo, start64, pd, flags>>

HolesFound ==
    /\ vpc = "holes" /\ Idle
    /\ vi > num_mem_ranges \/ RangeEnd(vi) >= Xm32Max
    /\ vpc' = "pdpt"
    /\ UNCHANGED <<vars, vaVars>>

AllocPdpt ==
    /\ vpc = "pdpt" /\ Idle
    /\ AllocBegin(Request(PdptSize, PdptSize))
    /\ vpc' = "pds" /\ vi' = 0
    /\ UNCHANGED <<unused_va_ranges, todo, start64, pd, flags>>

AllocPd ==
    /\ vpc = "pds" /\ Idle /\ vi < NumPds
    /\ AllocBegin(Request(PageSize, PageSize))
    /\ vi' = vi + 1
    /\ UNCHANGED <<vpc, unused_va_ranges, todo, start64, pd, flags>>

-----------------------------------------------------------------------------
\* do_va_id_map(start, end - start, f) is called; what comes after it.
IdMap(start, end, f, then) ==
    /\ todo' = [from |-> start \div PageSize, to |-> end \div PageSize,
                flags |-> f, then |-> then]
    /\ vpc' = "map"

(***************************************************************************)
(* The memory below the first hole takes its flags from mem_ranges[0].     *)
(* With no hole, what unused_va_ranges[0] holds is undefined, and the      *)
(* model stops.                                                            *)
(***************************************************************************)
MapBelowHoles ==
    /\ vpc = "pds" /\ Idle /\ vi = NumPds
    /\ \/ /\ unused_va_ranges = << >>
          /\ vpc' = "undefined"
          /\ UNCHANGED <<vi, todo>>
       \/ /\ unused_va_ranges # << >>
          /\ IdMap(0, unused_va_ranges[1].start, PteFlags(mem_ranges[0].attr), "idmap")
          /\ vi' = 1
    /\ UNCHANGED <<vars, unused_va_ranges, start64, pd, flags>>

MapBetweenHoles ==
    /\ vpc = "idmap" /\ Idle
    /\ IF vi < Len(unused_va_ranges)
       THEN /\ IdMap(EndOf(unused_va_ranges[vi]), unused_va_ranges[vi + 1].start,
                     "wb", "idmap")
            /\ vi' = vi + 1
       ELSE /\ vpc' = "attr" /\ vi' = 0
            /\ UNCHANGED todo
    /\ UNCHANGED <<vars, unused_va_ranges, start64, pd, flags>>

-----------------------------------------------------------------------------
\* The pages of a range whose attributes have to be set, as va_init computes
\* them: clipped at 4 GiB, then rounded outwards.
\* Mutant: the length is not made up for what the start is rounded by.
AttrEndShort(r) ==
    PageDown(r.start) + PageUp((IF EndOf(r) >= Xm32Max THEN Xm32Max ELSE EndOf(r)) - r.start)

AttrEnd(r) ==
    PageDown(r.start)
    + PageUp((IF EndOf(r) >= Xm32Max THEN Xm32Max ELSE EndOf(r)) - PageDown(r.start))

\* The loop over mem_ranges[]: write-back ranges, and those above 4 GiB, are
\* passed over.
SetAttr ==
    /\ vpc = "attr" /\ Idle /\ vi < num_mem_ranges
    /\ LET r == mem_ranges[vi] IN
       IF PteFlags(r.attr) = "wb" \/ r.start >= Xm32Max
       THEN /\ vi' = vi + 1
            /\ UNCHANGED <<vpc, todo, start64>>
       ELSE /\ IdMap(PageDown(r.start), AttrEnd(r), PteFlags(r.attr), "skip")
            /\ start64' = r.start
            /\ UNCHANGED vi
    /\ UNCHANGED <<vars, unused_va_ranges, pd, flags>>

\* On to the first range that starts higher: index i may by now hold a range
\* that comes before the one just done, or the rest of that one.
\* Mutant: index i is looked at again, as if nothing had been done.
SkipDoneStays ==
    /\ vpc = "skip" /\ Idle
    /\ vpc' = "attr"
    /\ UNCHANGED <<vars, vi, unused_va_ranges, todo, start64, pd, flags>>

SkipDone ==
    /\ vpc = "skip" /\ Idle
    /\ vi' = CHOOSE n \in vi .. num_mem_ranges :
                /\ n = num_mem_ranges \/ mem_ranges[n].start > start64
                /\ \A m \in vi .. n - 1 : mem_ranges[m].start =< start64
    /\ vpc' = "attr"
    /\ UNCHANGED <<vars, unused_va_ranges, todo, start64, pd, flags>>

\* cr4.PAE, cr3 and cr0.PG: the page tables are in use.
PagingOn ==
    /\ vpc = "attr" /\ Idle /\ vi = num_mem_ranges
    /\ vpc' = "up"
    /\ UNCHANGED <<vars, vaVars>>

-----------------------------------------------------------------------------
(***************************************************************************)
(* The loop of do_va_map, see VaMap.  ensure_pt() calls mem_alloc for a    *)
(* table, and the loop goes on with the table in place.                    *)
(***************************************************************************)
Entry == todo.from \div LP
Large == todo.from % LP = 0 /\ todo.to - todo.from >= LP /\ pd[Entry] # "table"

MapPages(n, kind) ==
    /\ pd' = [pd EXCEPT ![Entry] = kind]
    /\ flags' = [p \in DOMAIN flags |->
                    IF p \in todo.from .. todo.from + n - 1 THEN todo.flags ELSE flags[p]]
    /\ todo' = [todo EXCEPT !.from = @ + n]
    /\ UNCHANGED <<vars, vpc, vi, unused_va_ranges, start64>>

MapLarge == vpc = "map" /\ Idle /\ todo.from < todo.to /\ Large /\ MapPages(LP, "large")
MapSmall ==
    vpc = "map" /\ Idle /\ todo.from < todo.to /\ pd[Entry] = "table" /\ MapPages(1, "table")

EnsurePt ==
    /\ vpc = "map" /\ Idle /\ todo.from < todo.to /\ ~Large /\ pd[Entry] # "table"
    /\ AllocBegin(Request(PageSize, PageSize))
    /\ pd' = [pd EXCEPT ![Entry] = "table"]
    /\ UNCHANGED <<vpc, vi, unused_va_ranges, todo, start64, flags>>

MapDone ==
    /\ vpc = "map" /\ Idle /\ todo.from >= todo.to
    /\ vpc' = todo.then
    /\ UNCHANGED <<vars, vaVars>>

-----------------------------------------------------------------------------
\* Later calls of mem_alloc: rm16_init and, through mem_va_map, page tables.
AllocLater ==
    /\ vpc = "up" /\ Idle /\ Cardinality(allocs) < MaxBlocks
    /\ \E q \in Requests : AllocBegin(q)
    /\ UNCHANGED <<vpc, vaVars>>

\* Everything has been called, or stage 2 has stopped.
Rests ==
    \/ pc \in {"halted", "underrun"} \/ vpc = "undefined"
    \/ vpc = "up" /\ Idle

VaInit == AllocArray \/ FindHole \/ HolesFound \/ AllocPdpt \/ AllocPd
          \/ MapBelowHoles \/ MapBetweenHoles \/ SetAttr \/ SkipDone \/ MapLarge \/ MapSmall
          \/ EnsurePt \/ MapDone \/ PagingOn

NextAll ==
    \/ (MapInit \/ Search) /\ UNCHANGED <<vpc, vaVars>>
    \/ VaInit
    \/ AllocLater
    \/ Rests /\ UNCHANGED allVars

\* Stage 2 keeps running; nothing makes it call mem_alloc again.
SpecAll ==
    /\ InitAll /\ [][NextAll]_allVars
    /\ WF_allVars(((MapInit \/ Search) /\ UNCHANGED <<vpc, vaVars>>) \/ VaInit)

-----------------------------------------------------------------------------
\* The pages that a range that stage 1 reported has a part in.
PagesOf(r) ==
    {p \in 0 .. NPages - 1 : EndOf(r) > p * PageSize /\ r.start < (p + 1) * PageSize}
Reported == UNION {PagesOf(bparms[n]) : n \in DOMAIN bparms}

\* va_init's holes (mem.c:330-360), which mem_va_map gives out, are in
\* ascending order with something between each two, as VaMap takes them to
\* be; and they are exactly the pages from 1 MiB up to 4 GiB in which nothing
\* was reported, whatever order, ends and overlaps the memory map has.
HolesExact ==
    vpc = "pdpt" =>
        LET hs == unused_va_ranges
            InHole(p) == \E n \in DOMAIN hs : /\ hs[n].start =< p * PageSize
                                              /\ p * PageSize < EndOf(hs[n])
        IN  /\ Len(hs) =< max_mem_ranges
            /\ \A n \in 1 .. Len(hs) - 1 : EndOf(hs[n]) < hs[n + 1].start
            /\ \A p \in 0 .. NPages - 1 :
                InHole(p) <=> p * PageSize >= BmemMax /\ p \notin Reported

(***************************************************************************)
(* Cutting a range of base memory that others overlap leaves its upper     *)
(* part before ranges that start lower, and SkipDone passes over those     *)
(* without having set their flags.  They have the right ones all the same  *)
(* if nothing overlaps, or if all of base memory has one attribute.        *)
(***************************************************************************)
BaseSimple ==
    LET base == {n \in DOMAIN bparms : bparms[n].start < BmemMax}
    IN  \/ \A m, n \in base : m # n => Disjoint(bparms[m], bparms[n])
        \/ \A m, n \in base : bparms[m].attr = bparms[n].attr

\* When paging goes on, stage 2 still reaches the memory it knows of, under
\* its own address: the ranges reported, hence also what mem_alloc has handed
\* out, page tables included.  No page with something in it that may not be
\* cached is write-back, however the loop at mem.c:394-425 splits the array
\* under its own feet ("This should not affect correctness though"); base
\* memory with ranges of different attributes that overlap is the exception.
\* Only write-back memory above the last hole is left out: the loops of
\* va_init map what is below a hole.
IdMapped ==
    vpc = "up" /\ Idle =>
        \A p \in Reported :
            LET hs == unused_va_ranges
                attrs == {bparms[n].attr : n \in {n \in DOMAIN bparms : p \in PagesOf(bparms[n])}}
            IN  IF attrs = {"wb"}
                THEN /\ p * PageSize < EndOf(hs[Len(hs)]) => flags[p] # "none"
                     /\ p * PageSize >= hs[1].start => flags[p] \in {"wb", "none"}
                ELSE IF p * PageSize >= BmemMax \/ BaseSimple
                THEN flags[p] \in {PteFlags(a) : a \in attrs \ {"wb"}}
                ELSE flags[p] # "none"

\* mem_init comes to an end, the loop over the array that grows meanwhile
\* included, and so does every later mem_alloc: they return or stop stage 2.
Returns == []<>Rests
=============================================================================
