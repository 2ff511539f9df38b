------------------------------ MODULE MemAlloc ------------------------------
(***************************************************************************)
(* Stage 2's physical memory map (stage2/mem.c): mem_map_init(), which     *)
(* copies the memory ranges that stage 1 reports into an array that it     *)
(* carves out of one of them and sorts with shellsort(), and mem_alloc(),  *)
(* which searches and splits that array.                                   *)
(*                                                                         *)
(* Stage 2 is single-threaded.  pc follows it through its loops, one step  *)
(* per iteration.  "halted" is hlt() with interrupts off.  "underrun" is   *)
(* mem_alloc() having walked below mem_ranges[0]: what it reads there is   *)
(* undefined, and the model stops.                                         *)
(***************************************************************************)
EXTENDS Integers, Sequences, FiniteSets

CONSTANTS
    BmemMax,    \* BMEM_MAX_ADDR
    Xm32Max,    \* XM32_MAX_ADDR, 4 GiB
    EntrySize,  \* sizeof(mem_range_t)
    MinEntries, \* the least room mem_map_init makes, 16 entries
    Maps,       \* the lists of memory ranges that stage 1 may report
    Requests    \* the [size, align, max_addr] mem_alloc is called with

Types == {"RAM", "RESERVED"}
Attrs == {"wb", "wt", "uc"}     \* the best caching that uefi_attr allows
Ranges == [start : Nat, len : Nat, type : Types, attr : Attrs]

EndOf(r) == r.start + r.len
Disjoint(r, s) == EndOf(r) =< s.start \/ EndOf(s) =< r.start

(***************************************************************************)
(* What stage 1 reports (see Bmem for base memory): ranges that are not    *)
(* empty, each on one side of the 1 MiB mark, RAM from address 0 up among  *)
(* them.  Two ranges overlap only in base memory, and never both as RAM:   *)
(* UEFI's own view of the pages that stage 1 grabbed is reported as well.  *)
(***************************************************************************)
StageOneMap(m) ==
    /\ m \in Seq(Ranges)
    /\ \E a \in DOMAIN m : m[a].start = 0 /\ m[a].type = "RAM"
    /\ \A a \in DOMAIN m :
        /\ m[a].len # 0
        /\ EndOf(m[a]) =< BmemMax \/ m[a].start >= BmemMax
        /\ \A b \in DOMAIN m :
            a # b =>
                \/ Disjoint(m[a], m[b])
                \/ /\ m[a].start < BmemMax
                   /\ m[a].type # "RAM" \/ m[b].type # "RAM"

ASSUME MapAssumption ==
    /\ BmemMax \in Nat \ {0} /\ Xm32Max \in Nat /\ BmemMax < Xm32Max
    /\ EntrySize \in Nat \ {0} /\ MinEntries \in Nat \ {0}
    /\ \A m \in Maps : StageOneMap(m)

ASSUME RequestAssumption ==
    Requests \subseteq [size : Nat \ {0}, align : Nat \ {0}, max_addr : {0, BmemMax}]

VARIABLES
    pc,
    bparms,     \* the BP_MRNG boot parameters, in list order
    chosen,     \* the parameter whose top holds the array
    mem_ranges, \* the array
    num_mem_ranges,
    max_mem_ranges,
    k,          \* mem_map_init: the parameter to copy next
    h, i, j, v, \* shellsort's locals
    req,        \* mem_alloc's arguments
    left, right,\* find_highest_range_below's locals; left is also mr
    allocs      \* history: the blocks handed out, with their max_addr

sortVars == <<h, i, j, v>>
findVars == <<req, left, right>>
mapVars == <<bparms, chosen, max_mem_ranges>>
vars == <<pc, mapVars, mem_ranges, num_mem_ranges, k, sortVars, findVars, allocs>>

NoRange == [start |-> 0, len |-> 0, type |-> "RESERVED", attr |-> "wb"]
NoReq == [size |-> 1, align |-> 1, max_addr |-> 0]
LiveRanges == 0 .. num_mem_ranges - 1

-----------------------------------------------------------------------------
Init ==
    /\ pc = "size"
    /\ bparms \in Maps
    /\ chosen = 0
    /\ mem_ranges = << >>
    /\ num_mem_ranges = 0 /\ max_mem_ranges = 0
    /\ k = 1
    /\ h = 0 /\ i = 0 /\ j = 0 /\ v = NoRange
    /\ req = NoReq /\ left = 0 /\ right = 0
    /\ allocs = {}

\* Room for half as many entries again as there can be at first.
EntriesFor(m) ==
    LET mmr == (3 * (1 + Len(m)) + 1) \div 2
    IN  IF mmr < MinEntries THEN MinEntries ELSE mmr

Space == max_mem_ranges * EntrySize

Eligible(r, space) ==
    /\ r.type = "RAM" /\ r.start < Xm32Max
    /\ r.len =< Xm32Max - r.start
    /\ r.len >= space

(***************************************************************************)
(* mem_map_init, first half: how large the array is to be, and which RAM   *)
(* range is to hold it, the one with the highest start that has the room.  *)
(***************************************************************************)
ChooseSpace ==
    /\ pc = "size"
    /\ max_mem_ranges' = EntriesFor(bparms)
    /\ mem_ranges' = [n \in 0 .. max_mem_ranges' - 1 |-> NoRange]
    /\ LET fits == {n \in 1 .. Len(bparms) :
                        Eligible(bparms[n], max_mem_ranges' * EntrySize)}
       IN  \/ /\ fits = {}
              /\ pc' = "halted"
              /\ UNCHANGED chosen
           \/ /\ chosen' \in fits
              /\ \A n \in fits : bparms[n].start =< bparms[chosen'].start
              /\ pc' = "copy"
    /\ UNCHANGED <<bparms, num_mem_ranges, k, sortVars, findVars, allocs>>

\* The array's own place, the top of the chosen range.
MapArea == [start |-> EndOf(bparms[chosen]) - Space, len |-> Space,
            type |-> "RESERVED", attr |-> bparms[chosen].attr]

(***************************************************************************)
(* mem_map_init, second half: copy each range; the chosen one becomes what *)
(* is left of it, if anything, and the array's own place.                  *)
(***************************************************************************)
CopyRange ==
    /\ pc = "copy" /\ k =< Len(bparms)
    /\ LET r == bparms[k]
           rest == [r EXCEPT !.len = @ - Space]
           n == num_mem_ranges
       IN  IF k # chosen
           THEN /\ mem_ranges' = [mem_ranges EXCEPT ![n] = r]
                /\ num_mem_ranges' = n + 1
           ELSE IF rest.len = 0
           THEN /\ mem_ranges' = [mem_ranges EXCEPT ![n] = MapArea]
                /\ num_mem_ranges' = n + 1
           ELSE /\ mem_ranges' = [mem_ranges EXCEPT ![n] = rest,
                                                    ![n + 1] = MapArea]
                /\ num_mem_ranges' = n + 2
    /\ k' = k + 1
    /\ UNCHANGED <<pc, mapVars, sortVars, findVars, allocs>>

\* shellsort is called; it has nothing to do for fewer than two entries.
SortBegin ==
    /\ pc = "copy" /\ k > Len(bparms)
    /\ IF num_mem_ranges < 2
       THEN pc' = "sorted" /\ UNCHANGED h
       ELSE pc' = "gap" /\ h' = 1
    /\ UNCHANGED <<mapVars, mem_ranges, num_mem_ranges, k, i, j, v, findVars, allocs>>

\* The first gap is one less than the first power of two from nmr up.
SortGap ==
    /\ pc = "gap"
    /\ IF h < num_mem_ranges
       THEN h' = 2 * h /\ UNCHANGED <<pc, i>>
       ELSE h' = h - 1 /\ i' = h' /\ pc' = "pick"
    /\ UNCHANGED <<mapVars, mem_ranges, num_mem_ranges, k, j, v, findVars, allocs>>

\* The head of the for loop: take mrs[i] out.
SortPick ==
    /\ pc = "pick" /\ i < num_mem_ranges
    /\ v' = mem_ranges[i]
    /\ j' = i
    /\ pc' = "shift"
    /\ UNCHANGED <<mapVars, mem_ranges, num_mem_ranges, k, h, i, findVars, allocs>>

Shifts == j >= h /\ mem_ranges[j - h].start > v.start

SortShift ==
    /\ pc = "shift" /\ Shifts
    /\ mem_ranges' = [mem_ranges EXCEPT ![j] = mem_ranges[j - h]]
    /\ j' = j - h
    /\ UNCHANGED <<pc, mapVars, num_mem_ranges, k, h, i, v, findVars, allocs>>

SortPlace ==
    /\ pc = "shift" /\ ~Shifts
    /\ mem_ranges' = [mem_ranges EXCEPT ![j] = v]
    /\ i' = i + 1
    /\ pc' = "pick"
    /\ UNCHANGED <<mapVars, num_mem_ranges, k, h, j, v, findVars, allocs>>

\* Mutant: the last pass, the one with gap 1, is left out.
SortNextGapStopsEarly ==
    /\ pc = "pick" /\ i >= num_mem_ranges
    /\ h' = h \div 2
    /\ i' = h'
    /\ pc' = IF h' =< 1 THEN "sorted" ELSE "pick"
    /\ UNCHANGED <<mapVars, mem_ranges, num_mem_ranges, k, j, v, findVars, allocs>>

SortNextGap ==
    /\ pc = "pick" /\ i >= num_mem_ranges
    /\ h' = h \div 2
    /\ i' = h'
    /\ pc' = IF h' = 0 THEN "sorted" ELSE "pick"
    /\ UNCHANGED <<mapVars, mem_ranges, num_mem_ranges, k, j, v, findVars, allocs>>

-----------------------------------------------------------------------------
Limit == IF req.max_addr = 0 THEN Xm32Max ELSE req.max_addr

\* mem_alloc(size, align, max_addr) is called.
AllocBegin(q) ==
    /\ pc \in {"sorted", "ready"}
    /\ req' = q
    /\ left' = 0 /\ right' = num_mem_ranges
    /\ pc' = IF (IF q.max_addr = 0 THEN Xm32Max ELSE q.max_addr) < q.size
             THEN "halted" ELSE "find"
    /\ UNCHANGED <<mapVars, mem_ranges, num_mem_ranges, k, sortVars, allocs>>

\* Mutant: the start of the range is looked at instead of its end.
AboveByStart(n) == mem_ranges[n].start > Limit

Above(n) == EndOf(mem_ranges[n]) > Limit

\* Whether the binary search goes on.
\* Mutant: until nothing is left between the two.
NarrowingToEnd == left < right

Narrowing == left < right - 1

(***************************************************************************)
(* find_highest_range_below: a binary search, then a walk down to a range  *)
(* that does end below the limit.                                          *)
(***************************************************************************)
FindNarrow ==
    /\ pc = "find" /\ Narrowing
    /\ LET mid == (left + right) \div 2 IN
       IF Above(mid) THEN right' = mid /\ UNCHANGED left
                     ELSE left' = mid /\ UNCHANGED right
    /\ UNCHANGED <<pc, mapVars, mem_ranges, num_mem_ranges, k, sortVars, req, allocs>>

FindWalk ==
    /\ pc = "find" /\ ~Narrowing
    /\ IF ~Above(left) THEN pc' = "scan" /\ UNCHANGED left
       ELSE IF left = 0 THEN pc' = "halted" /\ UNCHANGED left
       ELSE left' = left - 1 /\ UNCHANGED pc
    /\ UNCHANGED <<mapVars, mem_ranges, num_mem_ranges, k, sortVars, req, right, allocs>>

(***************************************************************************)
(* mem_alloc's loop: mr is the range at index left.  aend and astart are   *)
(* 32-bit, so a range that ends at 4 GiB has aend = 0.                     *)
(***************************************************************************)
AllocStart(r) ==
    LET aend == EndOf(r) % Xm32Max
        low == (aend - req.size) % Xm32Max
    IN  low - (low % req.align)

LongEnough(r) == r.type = "RAM" /\ r.len >= req.size
Fits(r) == LongEnough(r) /\ AllocStart(r) >= r.start

ScanNext ==
    /\ pc = "scan" /\ ~Fits(mem_ranges[left])
    /\ IF LongEnough(mem_ranges[left]) /\ mem_ranges[left].start = 0
       THEN pc' = "halted" /\ UNCHANGED left
       ELSE IF left = 0 THEN pc' = "underrun" /\ UNCHANGED left
       ELSE left' = left - 1 /\ UNCHANGED pc
    /\ UNCHANGED <<mapVars, mem_ranges, num_mem_ranges, k, sortVars, req, right, allocs>>

\* The part of range r from `at' up, once it is cut there.
\* Mutants: it keeps its type; it keeps its length.
UpperPartStaysRam(r, at) == [r EXCEPT !.start = at, !.len = EndOf(r) - at]
UpperPartTooLong(r, at) == [r EXCEPT !.start = at, !.type = "RESERVED"]

UpperPart(r, at) == [r EXCEPT !.start = at, !.len = EndOf(r) - at, !.type = "RESERVED"]

(***************************************************************************)
(* split_range(mr, at, E820_RAM, E820_RESERVED): the array with range n    *)
(* cut in two, those after it moved up.                                    *)
(***************************************************************************)
Cut(n, at) ==
    LET r == mem_ranges[n]
        low == [r EXCEPT !.len = at - r.start]
    IN  [m \in DOMAIN mem_ranges |->
            CASE m < n -> mem_ranges[m]
              [] m = n -> low
              [] m = n + 1 -> UpperPart(r, at)
              [] m > n + 1 /\ m =< num_mem_ranges -> mem_ranges[m - 1]
              [] m > num_mem_ranges /\ m > n + 1 -> mem_ranges[m]]

SplitRange(n, at) ==
    IF mem_ranges[n].start = at
    THEN /\ mem_ranges' = [mem_ranges EXCEPT ![n].type = "RESERVED"]
         /\ UNCHANGED num_mem_ranges
    ELSE /\ mem_ranges' = Cut(n, at)
         /\ num_mem_ranges' = num_mem_ranges + 1

\* A cut within a range needs a free entry; hlt() if there is none.
ScanTake ==
    /\ pc = "scan" /\ Fits(mem_ranges[left])
    /\ LET at == AllocStart(mem_ranges[left]) IN
       IF mem_ranges[left].start # at /\ num_mem_ranges >= max_mem_ranges
       THEN /\ pc' = "halted"
            /\ UNCHANGED <<mem_ranges, num_mem_ranges, allocs>>
       ELSE /\ SplitRange(left, at)
            /\ allocs' = allocs \cup
                   {[start |-> at, len |-> req.size, max_addr |-> req.max_addr]}
            /\ pc' = "ready"
    /\ UNCHANGED <<mapVars, k, sortVars, findVars>>

Stopped == pc \in {"halted", "underrun"} /\ UNCHANGED vars

-----------------------------------------------------------------------------
MapInit == ChooseSpace \/ CopyRange \/ SortBegin \/ SortGap \/ SortPick
           \/ SortShift \/ SortPlace \/ SortNextGap
Search == FindNarrow \/ FindWalk \/ ScanNext \/ ScanTake

Next == MapInit \/ (\E q \in Requests : AllocBegin(q)) \/ Search \/ Stopped

Spec == Init /\ [][Next]_vars

-----------------------------------------------------------------------------
Phases == {"size", "copy", "gap", "pick", "shift", "sorted", "ready", "find",
           "scan", "halted", "underrun"}
Blocks == [start : Nat, len : Nat, max_addr : Nat]

\* Every variable has its type; in particular the array is never written
\* past the max_mem_ranges entries that there is room for (mem.c:103, 141-144)
\* and mem_alloc's mr stays within the entries in use.
TypeOK ==
    /\ pc \in Phases
    /\ StageOneMap(bparms)
    /\ chosen \in 0 .. Len(bparms) /\ k \in 1 .. Len(bparms) + 1
    /\ max_mem_ranges \in Nat
    /\ mem_ranges \in [0 .. max_mem_ranges - 1 -> Ranges]
    /\ num_mem_ranges \in 0 .. max_mem_ranges
    /\ h \in Nat /\ i \in Nat /\ j \in Nat /\ v \in Ranges
    /\ req \in [size : Nat \ {0}, align : Nat \ {0}, max_addr : {0, BmemMax}]
    /\ left \in Nat /\ right \in Nat
    /\ pc \in {"find", "scan"} => left \in LiveRanges
    /\ allocs \subseteq Blocks

\* How many of the entries that mem_map_init makes are the range r.
Expected(r) ==
    LET c == bparms[chosen]
        rest == [c EXCEPT !.len = @ - Space]
    IN  Cardinality({n \in DOMAIN bparms \ {chosen} : bparms[n] = r})
        + (IF rest.len # 0 /\ r = rest THEN 1 ELSE 0)
        + (IF r = MapArea THEN 1 ELSE 0)

\* shellsort (mem.c:50-71) leaves exactly the ranges that were copied, in
\* whatever order stage 1 listed them, by increasing start.  The comment at its
\* call says "by order of increasing ending addresses" (mem.c:201), which
\* find_highest_range_below goes by.  That is true of all pairs but those in base
\* memory, where a range may lie within one that starts lower or together with
\* it: there the code does not do what the comment says.
Sorted ==
    pc = "sorted" =>
        /\ \A m, n \in LiveRanges :
            m < n => /\ mem_ranges[m].start =< mem_ranges[n].start
                     /\ \/ EndOf(mem_ranges[m]) =< EndOf(mem_ranges[n])
                        \/ EndOf(mem_ranges[m]) =< BmemMax
        /\ \A n \in LiveRanges :
            Cardinality({m \in LiveRanges : mem_ranges[m] = mem_ranges[n]})
                = Expected(mem_ranges[n])

\* mem_alloc hands out no byte twice: each block lies in RAM that stage 1
\* reported, is out of the way of every other block and of the array
\* itself, and no RAM entry that a later call may take covers any of it.
AllocsDisjoint ==
    \A a \in allocs :
        /\ \E n \in DOMAIN bparms :
            /\ bparms[n].type = "RAM"
            /\ bparms[n].start =< a.start /\ EndOf(a) =< EndOf(bparms[n])
        /\ Disjoint(a, MapArea)
        /\ \A b \in allocs : a # b => Disjoint(a, b)
        /\ \A n \in LiveRanges : mem_ranges[n].type = "RAM" => Disjoint(a, mem_ranges[n])

\* "The end of the memory block will be below max_addr" (mem.c:439-442), or
\* below 4 GiB if no limit is given: the binary search and the walk down from
\* it never reach a range above the limit.
BelowLimit == \A a \in allocs : EndOf(a) =< IF a.max_addr = 0 THEN Xm32Max ELSE a.max_addr

Covers(r, a) == r.start =< a /\ a < EndOf(r)

\* What covers a byte changes only where a range starts or ends.
Edges == LET rs == {bparms[n] : n \in DOMAIN bparms} \cup {mem_ranges[n] : n \in LiveRanges}
         IN  {r.start : r \in rs} \cup {EndOf(r) : r \in rs}

\* Nothing is lost or counted twice as the array is sorted and cut: each byte
\* is in as many entries as stage 1 reported ranges with it, and a byte that
\* only reserved ranges hold never becomes RAM.
Tiles ==
    pc \in {"sorted", "ready"} =>
        \A a \in Edges :
            LET now == {n \in LiveRanges : Covers(mem_ranges[n], a)}
                reported == {n \in DOMAIN bparms : Covers(bparms[n], a)}
            IN  /\ Cardinality(now) = Cardinality(reported)
                /\ (\E n \in now : mem_ranges[n].type = "RAM")
                     => \E n \in reported : bparms[n].type = "RAM"

\* "if (!mr->start) hlt();" (mem.c:462-463) is to stop stage 2 when no range
\* has the room: mem_alloc never reads below mem_ranges[0].
StopsAtBottom == pc # "underrun"
=============================================================================
