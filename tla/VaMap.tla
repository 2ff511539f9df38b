------------------------------- MODULE VaMap --------------------------------
(***************************************************************************)
(* Stage 2's virtual address space (stage2/mem.c): the identity mapping    *)
(* that va_init() sets up around the holes in the memory map, and          *)
(* mem_va_map() and mem_va_unmap(), which give out virtual pages from the  *)
(* holes.  Two things must agree: the array unused_va_ranges[] and the     *)
(* page directories with their page tables.                                *)
(*                                                                         *)
(* A virtual address space of NPages pages stands for the 4 GiB, one page  *)
(* directory for the four.  Addresses that callers use are in bytes; the   *)
(* array, the tables and the loops here count in pages.  Stage 2 is        *)
(* single-threaded; the loops of do_va_map() and do_va_unmap() take a step *)
(* per iteration.  "halted" is hlt() with interrupts off; mem_va_unmap()   *)
(* has two of its own, "full" when the array has no entry left and "lost"  *)
(* when no range comes before the pages to give back.                      *)
(***************************************************************************)
EXTENDS Integers, Sequences, FiniteSets, SequencesExt

CONSTANTS
    PageSize,   \* PAGE_SIZE
    LP,         \* pages in a large page, LARGE_PAGE_SIZE / PAGE_SIZE
    NPages,     \* XM32_MAX_ADDR / PAGE_SIZE
    Layouts,    \* the holes va_init may find, in ascending order
    BaseFlags,  \* the page flags of the memory that starts at address 0
    MaxRanges,  \* max_unused_va_ranges
    PtRoom,     \* how many page tables mem_alloc can still make room for
    Requests,   \* the [pa, sz, flags] mem_va_map is called with
    MaxLive     \* bound: mappings live at a time

Pages == 0 .. NPages - 1
VaRanges == [start : Pages, len : 0 .. NPages]
EndOf(r) == r.start + r.len
PagesOf(r) == r.start .. EndOf(r) - 1

\* What va_init makes of a memory map: holes that are not empty, not at
\* address 0, and apart from each other.
HoleList(hs) ==
    /\ hs \in Seq(VaRanges) /\ hs # << >>
    /\ \A n \in DOMAIN hs : hs[n].start > 0 /\ hs[n].len > 0 /\ EndOf(hs[n]) =< NPages
    /\ \A m, n \in DOMAIN hs : m < n => EndOf(hs[m]) < hs[n].start

\* Page flags: 0, PTE_WT and PTE_CD.
Flags == {"wb", "wt", "cd"}

ASSUME VaAssumption ==
    /\ PageSize \in Nat \ {0} /\ LP \in Nat \ {0}
    /\ NPages \in Nat \ {0} /\ NPages % LP = 0
    /\ BaseFlags \in Flags
    /\ MaxRanges \in Nat /\ PtRoom \in Nat /\ MaxLive \in Nat
    /\ \A hs \in Layouts : HoleList(hs) /\ Len(hs) =< MaxRanges
    /\ Requests \subseteq [pa : Nat, sz : Nat \ {0}, flags : Flags]

VARIABLES
    pc,
    ret,        \* where do_va_map or do_va_unmap returns to
    layout,     \* history: the holes that va_init found
    gap,        \* va_init: how many gaps between holes are mapped
    unused_va_ranges,
    pd,         \* the page directory
    pts,        \* how many page tables there are
    vstart, pstart, len, pte_flags,     \* do_va_map's and do_va_unmap's locals
    cur,        \* the mapping being made or undone
    live,       \* history: the mappings in use, in the order they were made
    lifo        \* history: each was undone before those made earlier

loopVars == <<vstart, pstart, len, pte_flags>>
vars == <<pc, ret, layout, gap, unused_va_ranges, pd, pts, loopVars, cur, live, lifo>>

-----------------------------------------------------------------------------
Unmapped == [page |-> 0, flags |-> "none"]
Ptes == [page : Nat, flags : Flags] \cup {Unmapped}
Pte(p, f) == [page |-> p, flags |-> f]
NoTable == [n \in 0 .. LP - 1 |-> Unmapped]

\* A directory entry is blank, a large page (PDE_PS), or refers to a table.
Pde(k, e, t) == [kind |-> k, pte |-> e, table |-> t]
Blank == Pde("blank", Unmapped, NoTable)
Large(p, f) == Pde("large", Pte(p, f), NoTable)
Pdes == [kind : {"blank", "large", "table"}, pte : Ptes, table : [0 .. LP - 1 -> Ptes]]

\* What the MMU makes of virtual page p.  It takes a large page to be aligned.
Translate(p) ==
    LET e == pd[p \div LP] IN
    CASE e.kind = "blank" -> Unmapped
      [] e.kind = "large" -> Pte(e.pte.page - (e.pte.page % LP) + (p % LP), e.pte.flags)
      [] e.kind = "table" -> e.table[p % LP]

NoMapping == [va |-> 0, sz |-> 0, pa |-> 0, flags |-> "wb"]
Mappings == [va : Nat, sz : Nat, pa : Nat, flags : Flags]

FirstPage(a) == a \div PageSize
PageAfter(a, sz) == (a + sz + PageSize - 1) \div PageSize

Init ==
    /\ pc = "idmap" /\ ret = "idmap"
    /\ layout \in Layouts
    /\ gap = 0
    /\ unused_va_ranges = layout
    /\ pd = [n \in 0 .. (NPages \div LP) - 1 |-> Blank]
    /\ pts = 0
    /\ vstart = 0 /\ pstart = 0 /\ len = 0 /\ pte_flags = "wb"
    /\ cur = NoMapping
    /\ live = << >> /\ lifo = TRUE

-----------------------------------------------------------------------------
(***************************************************************************)
(* va_init: identity-map what is below the first hole, then what is        *)
(* between each hole and the next.                                         *)
(***************************************************************************)
IdMap ==
    /\ pc = "idmap" /\ gap < Len(unused_va_ranges)
    /\ LET start == IF gap = 0 THEN 0 ELSE EndOf(unused_va_ranges[gap]) IN
       /\ vstart' = start /\ pstart' = start
       /\ len' = unused_va_ranges[gap + 1].start - start
    /\ pte_flags' = IF gap = 0 THEN BaseFlags ELSE "wb"
    /\ gap' = gap + 1
    /\ pc' = "map" /\ ret' = "idmap"
    /\ UNCHANGED <<layout, unused_va_ranges, pd, pts, cur, live, lifo>>

IdMapDone ==
    /\ pc = "idmap" /\ gap >= Len(unused_va_ranges)
    /\ pc' = "ready"
    /\ UNCHANGED <<ret, layout, gap, unused_va_ranges, pd, pts, loopVars, cur, live, lifo>>

-----------------------------------------------------------------------------
\* Whether do_va_map may use a large page here.
\* Mutant: the alignment of the physical address is not looked at.
TakesLargeUnaligned ==
    /\ vstart % LP = 0 /\ len >= LP
    /\ pd[vstart \div LP].kind \in {"blank", "large"}

TakesLarge ==
    /\ vstart % LP = 0 /\ pstart % LP = 0 /\ len >= LP
    /\ pd[vstart \div LP].kind \in {"blank", "large"}

MapLarge ==
    /\ pc = "map" /\ len # 0 /\ TakesLarge
    /\ pd' = [pd EXCEPT ![vstart \div LP] = Large(pstart, pte_flags)]
    /\ vstart' = vstart + LP /\ pstart' = pstart + LP /\ len' = len - LP
    /\ UNCHANGED <<pc, ret, layout, gap, unused_va_ranges, pts, pte_flags, cur, live, lifo>>

\* ensure_pt(): the table for a directory entry.
EnsurePt(e) ==
    CASE e.kind = "blank" -> NoTable
      [] e.kind = "large" -> [n \in 0 .. LP - 1 |-> Pte(e.pte.page + n, e.pte.flags)]
      [] e.kind = "table" -> e.table

\* A new table needs a page from mem_alloc, which stops stage 2 if it has none.
MapSmall ==
    /\ pc = "map" /\ len # 0 /\ ~TakesLarge
    /\ LET n == vstart \div LP IN
       \/ /\ pd[n].kind # "table" /\ pts >= PtRoom
          /\ pc' = "halted"
          /\ UNCHANGED <<pd, pts, vstart, pstart, len>>
       \/ /\ pd[n].kind = "table" \/ pts < PtRoom
          /\ pts' = IF pd[n].kind = "table" THEN pts ELSE pts + 1
          /\ pd' = [pd EXCEPT ![n] =
                Pde("table", Unmapped,
                    [EnsurePt(pd[n]) EXCEPT ![vstart % LP] = Pte(pstart, pte_flags)])]
          /\ vstart' = vstart + 1 /\ pstart' = pstart + 1 /\ len' = len - 1
          /\ UNCHANGED pc
    /\ UNCHANGED <<ret, layout, gap, unused_va_ranges, pte_flags, cur, live, lifo>>

\* do_va_map returns, to va_init's loop or out of mem_va_map.
MapDone ==
    /\ pc = "map" /\ len = 0
    /\ pc' = ret
    /\ live' = IF ret = "ready" THEN Append(live, cur) ELSE live
    /\ UNCHANGED <<ret, layout, gap, unused_va_ranges, pd, pts, loopVars, cur, lifo>>

-----------------------------------------------------------------------------
(***************************************************************************)
(* mem_va_map(pa, sz, flags): the last range of the array with the room    *)
(* gives up its highest pages.  Without one, hlt().                        *)
(***************************************************************************)
PagesFor(q) == PageAfter(q.pa, q.sz) - FirstPage(q.pa)
HasRoom(n, q) == unused_va_ranges[n].len >= PagesFor(q)

MemVaMap(q) ==
    /\ pc = "ready" /\ Len(live) < MaxLive
    /\ \E n \in DOMAIN unused_va_ranges :
        /\ HasRoom(n, q)
        /\ \A m \in DOMAIN unused_va_ranges : m > n => ~HasRoom(m, q)
        /\ unused_va_ranges' = [unused_va_ranges EXCEPT ![n].len = @ - PagesFor(q)]
        /\ vstart' = EndOf(unused_va_ranges'[n])
        /\ pstart' = FirstPage(q.pa) /\ len' = PagesFor(q) /\ pte_flags' = q.flags
        /\ cur' = [va |-> (vstart' * PageSize) + (q.pa % PageSize),
                   sz |-> q.sz, pa |-> q.pa, flags |-> q.flags]
    /\ pc' = "map" /\ ret' = "ready"
    /\ UNCHANGED <<layout, gap, pd, pts, live, lifo>>

MemVaMapHalt(q) ==
    /\ pc = "ready" /\ Len(live) < MaxLive
    /\ \A n \in DOMAIN unused_va_ranges : ~HasRoom(n, q)
    /\ pc' = "halted"
    /\ UNCHANGED <<ret, layout, gap, unused_va_ranges, pd, pts, loopVars, cur, live, lifo>>

-----------------------------------------------------------------------------
(***************************************************************************)
(* mem_va_unmap(va, sz) of mapping number n.  va and the end computed from *)
(* it have 32 bits: the end of the address space is 0.                     *)
(***************************************************************************)
UnmapStart(m) == FirstPage(m.va)
UnmapEnd(m) == PageAfter(m.va, m.sz) % NPages
\* Mutant: the offset within the first page is left out of account.
UnmapLenOfSize(m) == (m.sz + PageSize - 1) \div PageSize

UnmapLen(m) == (UnmapEnd(m) - UnmapStart(m)) % NPages

MemVaUnmap(n) ==
    /\ pc = "ready"
    /\ cur' = live[n]
    /\ live' = RemoveAt(live, n)
    /\ lifo' = (lifo /\ n = Len(live))
    /\ vstart' = UnmapStart(cur') /\ len' = UnmapLen(cur')
    /\ pc' = "unmap" /\ ret' = "ready"
    /\ UNCHANGED <<layout, gap, unused_va_ranges, pd, pts, pstart, pte_flags>>

\* do_va_unmap's loop.  Part of a large page is left as it is.
WholeLarge == vstart % LP = 0 /\ len >= LP

UnmapStep ==
    /\ pc = "unmap" /\ len # 0
    /\ LET n == vstart \div LP
           whole == pd[n].kind = "large" /\ WholeLarge
           step == IF whole THEN LP ELSE 1
       IN  /\ pd' = [pd EXCEPT ![n] =
                        IF whole THEN Blank
                        ELSE IF @.kind = "table"
                        THEN [@ EXCEPT !.table[vstart % LP] = Unmapped]
                        ELSE @]
           /\ vstart' = vstart + step /\ len' = len - step
    /\ UNCHANGED <<pc, ret, layout, gap, unused_va_ranges, pts, pstart, pte_flags,
                   cur, live, lifo>>

(***************************************************************************)
(* The rest of mem_va_unmap: from the last range down, the first one that  *)
(* the pages adjoin takes them in; below that, they become a range of      *)
(* their own after the first one that starts lower.                        *)
(***************************************************************************)
\* Mutant: only the range above is looked at.
AdjoinsAbove(r, m) == r.start = UnmapEnd(m)

Adjoins(r, m) == r.start = UnmapEnd(m) \/ EndOf(r) = UnmapStart(m)
Decides(n) ==
    LET r == unused_va_ranges[n] IN Adjoins(r, cur) \/ r.start < UnmapStart(cur)

\* Mutant: the start stays where it was.
JoinedKeepsStart(r, m) == [r EXCEPT !.len = @ + UnmapLen(m)]

Joined(r, m) ==
    [start |-> IF r.start = UnmapEnd(m) THEN UnmapStart(m) ELSE r.start,
     len |-> r.len + UnmapLen(m)]

EntryLeft == Len(unused_va_ranges) < MaxRanges

GiveBack ==
    /\ pc = "unmap" /\ len = 0
    /\ LET ds == {n \in DOMAIN unused_va_ranges : Decides(n)}
           n == Max(ds)
       IN  IF ds = {}
           THEN /\ pc' = "lost"
                /\ UNCHANGED unused_va_ranges
           ELSE IF Adjoins(unused_va_ranges[n], cur)
           THEN /\ unused_va_ranges' = [unused_va_ranges EXCEPT ![n] = Joined(@, cur)]
                /\ pc' = "ready"
           ELSE IF EntryLeft
           THEN /\ unused_va_ranges' = InsertAt(unused_va_ranges, n + 1,
                        [start |-> UnmapStart(cur), len |-> UnmapLen(cur)])
                /\ pc' = "ready"
           ELSE /\ pc' = "full"
                /\ UNCHANGED unused_va_ranges
    /\ UNCHANGED <<ret, layout, gap, pd, pts, loopVars, cur, live, lifo>>

Stopped == pc \in {"halted", "full", "lost"} /\ UNCHANGED vars

-----------------------------------------------------------------------------
Next ==
    \/ IdMap \/ IdMapDone
    \/ MapLarge \/ MapSmall \/ MapDone
    \/ \E q \in Requests : MemVaMap(q) \/ MemVaMapHalt(q)
    \/ \E n \in DOMAIN live : MemVaUnmap(n)
    \/ UnmapStep
    \/ GiveBack
    \/ Stopped

Spec == Init /\ [][Next]_vars

-----------------------------------------------------------------------------
Phases == {"idmap", "map", "ready", "unmap", "halted", "full", "lost"}

\* Every variable has its type; in particular the array keeps within
\* max_unused_va_ranges (mem.c:530), and the loops of do_va_map and
\* do_va_unmap within the address space.
TypeOK ==
    /\ pc \in Phases /\ ret \in {"idmap", "ready"}
    /\ HoleList(layout)
    /\ gap \in 0 .. Len(layout)
    /\ unused_va_ranges \in Seq(VaRanges) /\ Len(unused_va_ranges) =< MaxRanges
    /\ pd \in [0 .. (NPages \div LP) - 1 -> Pdes]
    /\ pts \in 0 .. PtRoom
    /\ vstart \in 0 .. NPages /\ pstart \in Nat /\ len \in 0 .. NPages - vstart
    /\ pte_flags \in Flags
    /\ cur \in Mappings
    /\ live \in Seq(Mappings)
    /\ lifo \in BOOLEAN

\* The virtual pages of a mapping, from what its caller asked for.
BlockOf(m) == [start |-> FirstPage(m.va), len |-> PagesFor(m)]

\* Whether cur is being mapped or unmapped (or stage 2 stopped meanwhile).
Pending ==
    /\ ret = "ready"
    /\ pc \in {"map", "unmap", "full"} \/ (pc = "halted" /\ len # 0)

\* The blocks in use; a block being mapped or unmapped is.
Blocks == {BlockOf(live[n]) : n \in DOMAIN live}
          \cup (IF Pending THEN {BlockOf(cur)} ELSE {})

Unused == UNION {PagesOf(unused_va_ranges[n]) : n \in DOMAIN unused_va_ranges}
Holes == UNION {PagesOf(layout[n]) : n \in DOMAIN layout}

\* No virtual page is given out twice or lost, in whatever order mappings are
\* undone: the ranges of the array and the blocks in use are all apart, and
\* between them make up the holes.  (The hlt() for a block that comes before
\* all ranges, mem.c:542, is never reached.)
Conserved ==
    /\ Unused \cup UNION {PagesOf(b) : b \in Blocks} = Holes
    /\ \A b \in Blocks : PagesOf(b) \cap Unused = {}
    /\ \A b, c \in Blocks : b # c => PagesOf(b) \cap PagesOf(c) = {}
    /\ \A m, n \in DOMAIN unused_va_ranges :
        m # n => PagesOf(unused_va_ranges[m]) \cap PagesOf(unused_va_ranges[n]) = {}
    /\ Cardinality(Blocks) = Len(live) + IF Pending THEN 1 ELSE 0

\* The mapping of which virtual page p is a part.
Shows(m, p) ==
    Translate(p) = Pte(FirstPage(m.pa) + (p - FirstPage(m.va)), m.flags)

\* Page tables and array agree: between calls each page of a mapping in use
\* shows the physical page the caller asked for, with its flags; each unused
\* page is unmapped, so that no mapping outlives its mem_va_unmap
\* (do_va_unmap leaves parts of large pages alone, mem.c:291-297); and memory
\* below the last hole is identity-mapped.
Translates ==
    pc = "ready" =>
        /\ \A n \in DOMAIN live : \A p \in PagesOf(BlockOf(live[n])) : Shows(live[n], p)
        /\ \A p \in Unused : Translate(p) = Unmapped
        /\ \A p \in 0 .. layout[Len(layout)].start - 1 :
            p \notin Holes =>
                Translate(p) = Pte(p, IF p < layout[1].start THEN BaseFlags ELSE "wb")

\* When mappings are undone in the reverse order, as irq.c does with the ACPI
\* tables and the I/O APICs, the array is as va_init left it once the last
\* one is gone: nothing is fragmented and no entry is used up.
Restored == pc = "ready" /\ lifo /\ live = << >> => unused_va_ranges = layout

\* "Unmap some virtual memory previously mapped.  The address & size must
\* correspond exactly to a virtual memory block previously obtained by
\* mem_va_map(...)." (mem.c:501-504): such a call returns.
UnmapReturns == pc # "full"

HoleSets == {UNION {PagesOf(hs[n]) : n \in DOMAIN hs} : hs \in Layouts}

VA == INSTANCE VaSpace WITH
        Spaces <- HoleSets,
        free <- Unused,
        blocks <- Blocks

\* mem_va_map and mem_va_unmap do what VaSpace promises: each call gets a
\* run of pages that nobody has or gives back exactly the block it was given.
Promise == VA!Spec
=============================================================================
