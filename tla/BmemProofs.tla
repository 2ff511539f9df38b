----------------------------- MODULE BmemProofs -----------------------------
(***************************************************************************)
(* Proofs about Bmem, for every page size, number of pages, word size and  *)
(* set of requests.                                                        *)
(*                                                                         *)
(* The safety properties of Bmem are not inductive on their own: that an   *)
(* allocation does not collide with an earlier one depends on the order of *)
(* the blocks, on their lying in grabbed pages, and on no block straddling *)
(* runtime_bmem_top.  IInv says all of this.                               *)
(***************************************************************************)
EXTENDS Bmem, TLAPS

\* The blocks are well formed, in order, and above page 0.
BlkOrder ==
    \A i \in Live :
        /\ PageSize =< blk[i].start /\ blk[i].start =< blk[i].end
        /\ blk[i].end =< blk[i].orig_end
        /\ \A j \in Live : i < j => blk[i].orig_end =< blk[j].start

\* A block has only grabbed pages in it.
BlkOurs ==
    \A i \in Live : \A p \in Pages :
        blk[i].start < p * PageSize + PageSize /\ p * PageSize < blk[i].orig_end
            => kind[p] = "ours"

\* The firmware keeps nothing below runtime_bmem_top.
TopClean == \A p \in Pages : p * PageSize < runtime_bmem_top => kind[p] # "resv"

\* Each block is on one side of runtime_bmem_top.
NoStraddle ==
    \A i \in Live : blk[i].end =< runtime_bmem_top \/ blk[i].start >= runtime_bmem_top

\* An area that was handed out is not empty and lies in grabbed pages, clear
\* of what is left of the blocks.
AreaOK(a) ==
    /\ PageSize =< a.start /\ a.start < a.end /\ a.end =< BmemMaxAddr
    /\ \A i \in Live : ~Overlap(a, blk[i])
    /\ \A p \in Pages : Overlap(a, PageArea(p)) => kind[p] = "ours"

AreasOK ==
    /\ \A a \in rt : AreaOK(a) /\ a.start >= runtime_bmem_top
    /\ \A a \in bt : AreaOK(a) /\ a.end =< boottime_bmem_bot
    /\ \A a, b \in rt \cup bt : a # b => ~Overlap(a, b)
    /\ rt \cap bt = {}

AllocInv == BlkOrder /\ BlkOurs /\ TopClean /\ AreasOK

\* Before bmem_init() has grouped the pages nothing has been handed out.
EarlyInv ==
    pc \in {"grab", "group", "gauge"} =>
        /\ rt = {} /\ bt = {} /\ runtime_bmem_top = 0
        /\ \A p \in Pages : avail[p] <=> kind[p] = "ours"

GrabInv ==
    /\ pc = "grab" => /\ page_count >= 1 /\ num_blks = 0
                      /\ idx = 1 /\ start = BmemMaxAddr
    /\ pc # "grab" => \A p \in Pages : kind[p] # "conv"

\* While the pages are grouped: each closed block has cost two pages.
GroupInv ==
    pc = "group" =>
        /\ idx >= 1
        /\ start = BmemMaxAddr =>
            /\ 2 * num_blks < idx
            /\ \A i \in Live : blk[i].orig_end =< idx * PageSize
        /\ start # BmemMaxAddr =>
            \E k \in 1 .. idx - 1 :
                /\ start = k * PageSize /\ 2 * num_blks < k
                /\ \A p \in k .. idx - 1 : avail[p]
                /\ \A i \in Live : blk[i].orig_end =< start

StraddleInv == pc \in {"run", "uefi", "skip", "ours", "used"} => NoStraddle

ReportInv ==
    /\ pc \in {"grab", "group", "gauge", "run"} => mrngs = << >>
    /\ RamIsFree

DoneInv == pc = "done" => Enough(boottime_bmem_bot, runtime_bmem_top)

IInv == /\ TypeOK /\ AllocInv /\ EarlyInv /\ GrabInv /\ GroupInv
        /\ StraddleInv /\ ReportInv /\ DoneInv

-----------------------------------------------------------------------------
\* Rounding down to a multiple of a stays within a - 1 of the argument.
LEMMA AlignDownBounds ==
    ASSUME NEW x \in Nat, NEW a \in Nat \ {0}
    PROVE  /\ AlignDown(x, a) \in Nat
           /\ AlignDown(x, a) =< x /\ x < AlignDown(x, a) + a
<1>1. x % a \in 0 .. a - 1 BY SMT
<1>2. x % a =< x BY SMT
<1> QED BY <1>1, <1>2 DEF AlignDown

\* Rounding up never goes below the argument.
LEMMA AlignUpBounds ==
    ASSUME NEW x \in Nat, NEW a \in Nat \ {0}
    PROVE  AlignUp(x, a) \in Nat /\ x =< AlignUp(x, a)
<1>1. x + a - 1 \in Nat OBVIOUS
<1> QED BY <1>1, AlignDownBounds DEF AlignUp

\* Pages follow one another.
LEMMA PageOrder ==
    /\ \A p \in Nat : p * PageSize \in Nat
    /\ \A p, q \in Nat : p < q => p * PageSize + PageSize =< q * PageSize
    /\ 0 * PageSize = 0
    /\ BmemMaxAddr \in Nat /\ PageSize =< BmemMaxAddr
<1>0. PageSize \in Nat \ {0} /\ NPages \in Nat \ {0, 1} BY SizeAssumption
<1>1. \A p \in Nat : p * PageSize \in Nat BY <1>0
<1>2. ASSUME NEW p \in Nat, NEW q \in Nat, p < q
      PROVE  p * PageSize + PageSize =< q * PageSize
  <2>1. PICK d \in Nat : q = p + 1 + d
    <3>1. q - p - 1 \in Nat BY <1>2
    <3> QED BY <3>1
  <2>2. q * PageSize = p * PageSize + PageSize + d * PageSize BY <2>1, <1>0
  <2>3. d * PageSize \in Nat BY <1>1
  <2> QED BY <2>2, <2>3, <1>0, <1>1
<1>3. 0 * PageSize = 0 BY <1>0
<1>4. 0 < NPages /\ NPages \in Nat BY <1>0
<1>5. BmemMaxAddr \in Nat /\ PageSize =< BmemMaxAddr
  <2>1. 0 * PageSize + PageSize =< NPages * PageSize BY <1>2, <1>4
  <2> QED BY <2>1, <1>3, <1>1, <1>0 DEF BmemMaxAddr
<1> QED BY <1>1, <1>2, <1>3, <1>5

-----------------------------------------------------------------------------
AllocType ==
    /\ kind \in [Pages -> FirmwareKinds \cup {"ours"}]
    /\ blk \in [0 .. MaxBmemBlks - 1 -> Blocks]
    /\ num_blks \in 0 .. MaxBmemBlks
    /\ boottime_bmem_bot \in Nat /\ runtime_bmem_top \in Addrs
    /\ rt \subseteq Areas /\ bt \subseteq Areas

\* bmem_alloc_boottime's change of the blocks and marks keeps them in order.
LEMMA BoottimeInv ==
    ASSUME AllocType, AllocInv, NoStraddle, NEW i \in Live, NEW req \in Requests,
           BootOK(i, req), TakeBoottime(i, req), UNCHANGED kind
    PROVE  AllocType' /\ AllocInv' /\ NoStraddle'
<1>a. PICK astart : astart = BootStart(i, req) OBVIOUS
<1>b. PICK aend : aend = astart + req.size OBVIOUS
<1>c. PICK new : new = Area(astart, aend) OBVIOUS
\* Where the block that ends up at index j was before.
<1> DEFINE Was(j) == IF aend = blk[i].end /\ j >= i THEN j + 1 ELSE j
<1>1. MaxBmemBlks \in Nat /\ BmemMaxAddr \in Nat
  BY SizeAssumption, PageOrder DEF MaxBmemBlks
<1>2. num_blks \in Nat /\ num_blks =< MaxBmemBlks /\ i \in Nat /\ i < num_blks
  BY <1>1 DEF AllocType, Live
<1>3. req.size \in Nat \ {0} /\ req.align \in Nat \ {0} BY DEF Requests
<1>4. \A j \in Live : /\ j \in 0 .. MaxBmemBlks - 1 /\ blk[j] \in Blocks
                      /\ blk[j].start \in Nat /\ blk[j].end \in Nat
                      /\ blk[j].orig_end \in Nat /\ blk[j].orig_end =< BmemMaxAddr
  <2>1. \A j \in Live : j \in 0 .. MaxBmemBlks - 1 BY <1>1, <1>2 DEF Live
  <2>2. \A j \in Live : blk[j] \in Blocks BY <2>1 DEF AllocType
  <2> QED BY <2>1, <2>2, <1>1 DEF Blocks, Addrs
<1>d. \A j \in Live : j \in Int BY DEF Live
<1>5. blk[i].end =< blk[i].orig_end /\ PageSize =< blk[i].start
  BY DEF AllocInv, BlkOrder
<1>6. astart \in Nat /\ blk[i].start =< astart
  BY <1>a, <1>3, <1>4, AlignUpBounds DEF BootStart
<1>7. /\ aend =< blk[i].end /\ astart < aend /\ aend \in Nat
      /\ astart < runtime_bmem_top
  BY <1>a, <1>b, <1>3, <1>4, <1>6 DEF BootOK, FirstBootFit, BootFits
<1>8. runtime_bmem_top \in Nat BY <1>1 DEF AllocType, Addrs
<1>9. aend =< runtime_bmem_top
  BY <1>4, <1>6, <1>7, <1>8 DEF NoStraddle
<1>10. new.start = astart /\ new.end = aend BY <1>c DEF Area
<1>11. astart \in Addrs /\ aend \in Addrs
  BY <1>1, <1>4, <1>5, <1>6, <1>7 DEF Addrs
<1>12. new \in Areas BY <1>c, <1>11, <1>7 DEF Areas, Area
<1>13. /\ runtime_bmem_top' = runtime_bmem_top /\ rt' = rt
       /\ bt' = bt \cup {new}
       /\ boottime_bmem_bot' = IF boottime_bmem_bot < aend
                               THEN aend ELSE boottime_bmem_bot
  BY <1>a, <1>b, <1>c DEF TakeBoottime
<1>14. /\ num_blks' \in 0 .. MaxBmemBlks
       /\ blk' \in [0 .. MaxBmemBlks - 1 -> Blocks]
       /\ \A j \in Live' :
            /\ Was(j) \in Live
            /\ blk'[j].end = blk[Was(j)].end
            /\ blk'[j].orig_end = blk[Was(j)].orig_end
            /\ blk'[j].start = IF Was(j) = i THEN aend ELSE blk[Was(j)].start
  <2>1. CASE aend # blk[i].end
    <3>1. blk' = [blk EXCEPT ![i].start = aend] /\ num_blks' = num_blks
      BY <2>1, <1>a, <1>b DEF TakeBoottime
    <3>2. blk' \in [0 .. MaxBmemBlks - 1 -> Blocks]
      BY <3>1, <1>4, <1>11 DEF AllocType, Blocks
    <3>3. Live' = Live BY <3>1 DEF Live
    <3>4. \A j \in Live : Was(j) = j BY <2>1
    <3>5. \A j \in Live : blk'[j] = IF j = i THEN [blk[i] EXCEPT !.start = aend]
                                    ELSE blk[j]
      BY <3>1, <1>4 DEF AllocType
    <3>6. /\ [blk[i] EXCEPT !.start = aend].start = aend
          /\ [blk[i] EXCEPT !.start = aend].end = blk[i].end
          /\ [blk[i] EXCEPT !.start = aend].orig_end = blk[i].orig_end
      BY <1>4 DEF Blocks
    <3>7. \A j \in Live : /\ blk'[j].end = blk[j].end
                          /\ blk'[j].orig_end = blk[j].orig_end
                          /\ blk'[j].start = IF j = i THEN aend ELSE blk[j].start
      BY <3>5, <3>6
    <3> HIDE DEF Was
    <3> QED BY <3>1, <3>2, <3>3, <3>4, <3>7, <1>1, <1>2
  <2>2. CASE aend = blk[i].end
    <3>1. /\ blk' = [j \in DOMAIN blk |->
                        IF j \in i .. num_blks - 2 THEN blk[j + 1] ELSE blk[j]]
          /\ num_blks' = num_blks - 1
      BY <2>2, <1>a, <1>b DEF TakeBoottime
    <3>2. DOMAIN blk = 0 .. MaxBmemBlks - 1 BY DEF AllocType
    <3>3. \A j \in 0 .. MaxBmemBlks - 1 :
             j \in i .. num_blks - 2 => j + 1 \in 0 .. MaxBmemBlks - 1
      BY <1>1, <1>2
    <3>4. blk' \in [0 .. MaxBmemBlks - 1 -> Blocks]
      BY <3>1, <3>2, <3>3 DEF AllocType
    <3>5. Live' = 0 .. num_blks - 2 BY <3>1, <1>2 DEF Live
    <3>6. \A j \in Live' : blk'[j] = blk[Was(j)]
      BY <3>1, <3>2, <3>5, <2>2, <1>1, <1>2
    <3>7. \A j \in Live' : Was(j) \in Live /\ Was(j) # i
      <4>1. Live = 0 .. num_blks - 1 BY DEF Live
      <4>2. ASSUME NEW j \in 0 .. num_blks - 2
            PROVE  Was(j) \in 0 .. num_blks - 1 /\ Was(j) # i
        BY <2>2, <1>2
      <4> HIDE DEF Was
      <4> QED BY <4>1, <4>2, <3>5
    <3>8. num_blks' \in 0 .. MaxBmemBlks BY <3>1, <1>1, <1>2
    <3> HIDE DEF Was
    <3> QED BY <3>4, <3>6, <3>7, <3>8
  <2> QED BY <2>1, <2>2
<1>15. \A j, l \in Live' : /\ j < l => Was(j) < Was(l)
                           /\ j \in Int /\ l \in Int
  BY <1>2, <1>14 DEF Live
<1> HIDE DEF Was
<1>16. AllocType'
  BY <1>12, <1>13, <1>14, <1>7 DEF AllocType
<1>17. BlkOrder'
  <2> SUFFICES ASSUME NEW j \in Live'
               PROVE  /\ PageSize =< blk'[j].start /\ blk'[j].start =< blk'[j].end
                      /\ blk'[j].end =< blk'[j].orig_end
                      /\ \A l \in Live' : j < l => blk'[j].orig_end =< blk'[l].start
    BY DEF BlkOrder
  <2>1. /\ PageSize =< blk'[j].start /\ blk'[j].start =< blk'[j].end
        /\ blk'[j].end =< blk'[j].orig_end
    BY <1>14, <1>4, <1>6, <1>7, SizeAssumption DEF AllocInv, BlkOrder
  <2>2. ASSUME NEW l \in Live', j < l
        PROVE  blk'[j].orig_end =< blk'[l].start
    <3>1. blk[Was(j)].orig_end =< blk[Was(l)].start
      BY <2>2, <1>14, <1>15 DEF AllocInv, BlkOrder
    <3>2. blk[Was(l)].start =< blk'[l].start
      BY <1>14, <1>4, <1>6, <1>7
    <3>3. blk'[j].orig_end = blk[Was(j)].orig_end /\ Was(j) \in Live /\ Was(l) \in Live
      BY <1>14
    <3>4. blk'[l].start \in Nat BY <1>14, <1>4, <1>7
    <3> QED BY <3>1, <3>2, <3>3, <3>4, <1>4
  <2> QED BY <2>1, <2>2
<1>18. BlkOurs'
  <2> SUFFICES ASSUME NEW j \in Live', NEW p \in Pages,
                      blk'[j].start < p * PageSize + PageSize,
                      p * PageSize < blk'[j].orig_end
               PROVE  kind[p] = "ours"
    BY DEF BlkOurs
  <2>1. p * PageSize \in Nat /\ PageSize \in Nat
    BY PageOrder, SizeAssumption DEF Pages
  <2>2. blk[Was(j)].start < p * PageSize + PageSize
    BY <2>1, <1>14, <1>4, <1>6, <1>7
  <2> QED BY <2>2, <1>14 DEF AllocInv, BlkOurs
<1>19. TopClean' BY <1>13 DEF AllocInv, TopClean
<1>20. NoStraddle'
  <2> SUFFICES ASSUME NEW j \in Live'
               PROVE  \/ blk'[j].end =< runtime_bmem_top
                      \/ blk'[j].start >= runtime_bmem_top
    BY <1>13 DEF NoStraddle
  <2>1. CASE Was(j) = i
    BY <2>1, <1>14, <1>4, <1>6, <1>7, <1>8 DEF NoStraddle
  <2>2. CASE Was(j) # i
    BY <2>2, <1>14 DEF NoStraddle
  <2> QED BY <2>1, <2>2
\* A new block is inside the old one, so it is clear of what the old one was
\* clear of; the new area is clear of every new block.
<1>21. ASSUME NEW a, AreaOK(a), a \in Areas
       PROVE  AreaOK(a)'
  <2>1. \A k \in Live : ~Overlap(a, blk[k]) BY <1>21 DEF AreaOK
  <2>2. a.start \in Nat /\ a.end \in Nat BY <1>21, <1>1 DEF Areas, Addrs
  <2>3. \A j \in Live' : ~Overlap(a, blk'[j])
    <3> SUFFICES ASSUME NEW j \in Live' PROVE ~Overlap(a, blk'[j])
      OBVIOUS
    <3>1. Was(j) \in Live /\ ~Overlap(a, blk[Was(j)]) BY <2>1, <1>14
    <3>2. /\ blk'[j].end = blk[Was(j)].end
          /\ blk[Was(j)].start =< blk'[j].start /\ blk'[j].start \in Nat
      BY <1>14, <1>4, <1>6, <1>7
    <3> QED BY <3>1, <3>2, <2>2, <1>4 DEF Overlap
  <2> QED BY <2>3, <1>21 DEF AreaOK
<1>22. AreaOK(new)'
  <2>1. \A j \in Live' : ~Overlap(new, blk'[j])
    <3> SUFFICES ASSUME NEW j \in Live' PROVE ~Overlap(new, blk'[j])
      OBVIOUS
    <3>1. CASE Was(j) = i
      BY <3>1, <1>14, <1>10, <1>7, <1>6, <1>4 DEF Overlap
    <3>2. CASE Was(j) < i
      <4>1. blk[Was(j)].orig_end =< blk[i].start /\ blk[Was(j)].end =< blk[Was(j)].orig_end
        BY <3>2, <1>14 DEF AllocInv, BlkOrder
      <4> QED BY <4>1, <3>2, <1>14, <1>10, <1>7, <1>6, <1>4 DEF Overlap
    <3>3. CASE i < Was(j)
      <4>1. blk[i].orig_end =< blk[Was(j)].start
        BY <3>3, <1>14 DEF AllocInv, BlkOrder
      <4> QED BY <4>1, <3>3, <1>14, <1>10, <1>7, <1>6, <1>5, <1>4 DEF Overlap
    <3>4. Was(j) \in Int /\ i \in Int BY <1>14, <1>2, <1>d
    <3> QED BY <3>1, <3>2, <3>3, <3>4
  <2>2. \A p \in Pages : Overlap(new, PageArea(p)) => kind[p] = "ours"
    <3> SUFFICES ASSUME NEW p \in Pages, Overlap(new, PageArea(p))
                 PROVE  kind[p] = "ours"
      OBVIOUS
    <3>1. p * PageSize \in Nat /\ PageSize \in Nat
      BY PageOrder, SizeAssumption DEF Pages
    <3>2. blk[i].start < p * PageSize + PageSize /\ p * PageSize < blk[i].orig_end
      BY <3>1, <1>10, <1>7, <1>6, <1>5, <1>4 DEF Overlap, PageArea, Area
    <3> QED BY <3>2 DEF AllocInv, BlkOurs
  <2>3. PageSize =< astart /\ astart < aend /\ aend =< BmemMaxAddr
    BY <1>1, <1>4, <1>5, <1>6, <1>7, SizeAssumption
  <2> QED BY <2>1, <2>2, <2>3, <1>10 DEF AreaOK
\* The new area came out of block i, which no earlier area overlaps.
<1>23. ASSUME NEW a \in rt \cup bt PROVE ~Overlap(a, new) /\ a # new
  <2>1. a \in Areas /\ a.start < a.end /\ ~Overlap(a, blk[i])
    BY DEF AllocInv, AreasOK, AreaOK, AllocType
  <2> QED BY <2>1, <1>10, <1>7, <1>6, <1>4 DEF Overlap, Areas, Addrs
<1>24. AreasOK'
  <2>1. \A a \in rt' : AreaOK(a)' /\ a.start >= runtime_bmem_top'
    BY <1>13, <1>21 DEF AllocInv, AreasOK, AllocType
  <2>2. \A a \in bt' : AreaOK(a)' /\ a.end =< boottime_bmem_bot'
    <3>1. ASSUME NEW a \in bt PROVE AreaOK(a)' /\ a.end =< boottime_bmem_bot'
      BY <1>13, <1>21, <1>7 DEF AllocInv, AreasOK, AllocType, Areas
    <3>2. AreaOK(new)' /\ new.end =< boottime_bmem_bot'
      BY <1>22, <1>10, <1>13, <1>7 DEF AllocType
    <3> QED BY <3>1, <3>2, <1>13
  <2>3. \A a, b \in rt' \cup bt' : a # b => ~Overlap(a, b)
    BY <1>13, <1>23 DEF AllocInv, AreasOK, Overlap
  <2>4. rt' \cap bt' = {} BY <1>13, <1>23 DEF AllocInv, AreasOK
  <2> QED BY <2>1, <2>2, <2>3, <2>4 DEF AreasOK
<1> QED BY <1>16, <1>17, <1>18, <1>19, <1>20, <1>24 DEF AllocInv

\* bmem_alloc's change of a block and of runtime_bmem_top.
LEMMA RuntimeInv ==
    ASSUME AllocType, AllocInv, NoStraddle, NEW req \in Requests, BmemAlloc(req)
    PROVE  AllocType' /\ AllocInv' /\ NoStraddle'
<1>1. PICK i \in Live :
        /\ RunFits(i, req)
        /\ runtime_bmem_top' = IF runtime_bmem_top > RunStart(i, req)
                               THEN RunStart(i, req) ELSE runtime_bmem_top
        /\ blk' = [blk EXCEPT ![i].end = RunStart(i, req)]
        /\ rt' = rt \cup {Area(RunStart(i, req), RunStart(i, req) + req.size)}
  BY DEF BmemAlloc
<1>2. PICK astart : astart = RunStart(i, req) OBVIOUS
<1>3. PICK new : new = Area(astart, astart + req.size) OBVIOUS
<1>4. /\ kind' = kind /\ num_blks' = num_blks /\ bt' = bt /\ Live' = Live
      /\ boottime_bmem_bot' = boottime_bmem_bot
  BY DEF BmemAlloc, initVars, Live
<1>5. MaxBmemBlks \in Nat /\ BmemMaxAddr \in Nat /\ PageSize \in Nat
      /\ runtime_bmem_top \in Nat /\ runtime_bmem_top =< BmemMaxAddr
  BY SizeAssumption, PageOrder DEF MaxBmemBlks, AllocType, Addrs
<1>6. req.size \in Nat \ {0} /\ req.align \in Nat \ {0} BY DEF Requests
<1>7. \A j \in Live : /\ j \in 0 .. MaxBmemBlks - 1 /\ blk[j] \in Blocks
                      /\ blk[j].start \in Nat /\ blk[j].end \in Nat
                      /\ blk[j].orig_end \in Nat /\ blk[j].orig_end =< BmemMaxAddr
                      /\ j \in Int
  <2>1. \A j \in Live : j \in 0 .. MaxBmemBlks - 1 BY <1>5 DEF Live, AllocType
  <2>2. \A j \in Live : blk[j] \in Blocks BY <2>1 DEF AllocType
  <2> QED BY <2>1, <2>2, <1>5 DEF Blocks, Addrs
<1>8. blk[i].end =< blk[i].orig_end /\ PageSize =< blk[i].start
  BY DEF AllocInv, BlkOrder
<1>9. /\ astart \in Nat /\ blk[i].start =< astart
      /\ astart + req.size =< blk[i].end
  <2>1. blk[i].end - req.size \in Nat BY <1>1, <1>6, <1>7 DEF RunFits
  <2>2. astart =< blk[i].end - req.size /\ astart \in Nat
    BY <2>1, <1>2, <1>6, AlignDownBounds DEF RunStart
  <2> QED BY <2>1, <2>2, <1>1, <1>2, <1>6, <1>7 DEF RunFits
<1>10. new.start = astart /\ new.end = astart + req.size BY <1>3 DEF Area
<1>11. /\ astart \in Addrs /\ new \in Areas /\ astart + req.size =< BmemMaxAddr
       /\ PageSize =< astart
  BY <1>3, <1>5, <1>6, <1>7, <1>8, <1>9 DEF Addrs, Areas, Area
<1>12. /\ runtime_bmem_top' = IF runtime_bmem_top > astart
                              THEN astart ELSE runtime_bmem_top
       /\ rt' = rt \cup {new}
       /\ blk' = [blk EXCEPT ![i].end = astart]
  BY <1>1, <1>2, <1>3
<1>13. runtime_bmem_top' \in Addrs /\ runtime_bmem_top' \in Nat
       /\ runtime_bmem_top' =< runtime_bmem_top /\ runtime_bmem_top' =< astart
  BY <1>5, <1>9, <1>11, <1>12 DEF AllocType, Addrs
<1>14. /\ blk' \in [0 .. MaxBmemBlks - 1 -> Blocks]
       /\ \A j \in Live : /\ blk'[j].start = blk[j].start
                          /\ blk'[j].orig_end = blk[j].orig_end
                          /\ blk'[j].end = IF j = i THEN astart ELSE blk[j].end
  <2>1. blk' \in [0 .. MaxBmemBlks - 1 -> Blocks]
    BY <1>12, <1>7, <1>11 DEF AllocType, Blocks
  <2>2. \A j \in Live : blk'[j] = IF j = i THEN [blk[i] EXCEPT !.end = astart]
                                  ELSE blk[j]
    BY <1>12, <1>7 DEF AllocType
  <2>3. /\ [blk[i] EXCEPT !.end = astart].start = blk[i].start
        /\ [blk[i] EXCEPT !.end = astart].end = astart
        /\ [blk[i] EXCEPT !.end = astart].orig_end = blk[i].orig_end
    BY <1>7 DEF Blocks
  <2> QED BY <2>1, <2>2, <2>3
<1>15. AllocType'
  BY <1>4, <1>11, <1>12, <1>13, <1>14 DEF AllocType
<1>16. BlkOrder'
  BY <1>4, <1>14, <1>7, <1>8, <1>9, <1>6 DEF AllocInv, BlkOrder
<1>17. BlkOurs' BY <1>4, <1>14 DEF AllocInv, BlkOurs
<1>18. TopClean'
  <2> SUFFICES ASSUME NEW p \in Pages, p * PageSize < runtime_bmem_top'
               PROVE  kind[p] # "resv"
    BY <1>4 DEF TopClean
  <2>1. p * PageSize \in Nat BY PageOrder DEF Pages
  <2> QED BY <2>1, <1>5, <1>13 DEF AllocInv, TopClean
<1>19. NoStraddle'
  <2> SUFFICES ASSUME NEW j \in Live
               PROVE  \/ blk'[j].end =< runtime_bmem_top'
                      \/ blk'[j].start >= runtime_bmem_top'
    BY <1>4 DEF NoStraddle
  <2>1. CASE runtime_bmem_top > astart
    <3>1. runtime_bmem_top' = astart BY <2>1, <1>12
    <3>2. CASE j = i BY <3>1, <3>2, <1>14, <1>9
    <3>3. CASE j < i
      <4>1. blk[j].orig_end =< blk[i].start /\ blk[j].end =< blk[j].orig_end
        BY <3>3 DEF AllocInv, BlkOrder
      <4> QED BY <4>1, <3>1, <3>3, <1>14, <1>9, <1>7
    <3>4. CASE i < j
      <4>1. blk[i].orig_end =< blk[j].start BY <3>4 DEF AllocInv, BlkOrder
      <4> QED BY <4>1, <3>1, <3>4, <1>14, <1>9, <1>7, <1>8, <1>6
    <3> QED BY <3>2, <3>3, <3>4, <1>7
  <2>2. CASE ~(runtime_bmem_top > astart)
    <3>1. runtime_bmem_top' = runtime_bmem_top BY <2>2, <1>12
    <3>2. CASE j = i
      BY <3>1, <3>2, <2>2, <1>14, <1>9, <1>7, <1>5, <1>6 DEF NoStraddle
    <3>3. CASE j # i BY <3>1, <3>3, <1>14 DEF NoStraddle
    <3> QED BY <3>2, <3>3
  <2> QED BY <2>1, <2>2
<1>20. ASSUME NEW a, AreaOK(a), a \in Areas
       PROVE  AreaOK(a)'
  <2>1. \A j \in Live : ~Overlap(a, blk[j]) BY <1>20 DEF AreaOK
  <2>2. a.start \in Nat /\ a.end \in Nat BY <1>20, <1>5 DEF Areas, Addrs
  <2>3. \A j \in Live : ~Overlap(a, blk'[j])
    BY <2>1, <2>2, <1>14, <1>7, <1>9, <1>6 DEF Overlap
  <2> QED BY <2>3, <1>4, <1>20 DEF AreaOK
<1>21. AreaOK(new)'
  <2>1. \A j \in Live : ~Overlap(new, blk'[j])
    <3> SUFFICES ASSUME NEW j \in Live PROVE ~Overlap(new, blk'[j])
      OBVIOUS
    <3>1. CASE j = i BY <3>1, <1>14, <1>10, <1>9 DEF Overlap
    <3>2. CASE j < i
      <4>1. blk[j].orig_end =< blk[i].start /\ blk[j].end =< blk[j].orig_end
        BY <3>2 DEF AllocInv, BlkOrder
      <4> QED BY <4>1, <3>2, <1>14, <1>10, <1>9, <1>7 DEF Overlap
    <3>3. CASE i < j
      <4>1. blk[i].orig_end =< blk[j].start BY <3>3 DEF AllocInv, BlkOrder
      <4> QED BY <4>1, <3>3, <1>14, <1>10, <1>9, <1>8, <1>7, <1>6 DEF Overlap
    <3> QED BY <3>1, <3>2, <3>3, <1>7
  <2>2. \A p \in Pages : Overlap(new, PageArea(p)) => kind[p] = "ours"
    <3> SUFFICES ASSUME NEW p \in Pages, Overlap(new, PageArea(p))
                 PROVE  kind[p] = "ours"
      OBVIOUS
    <3>1. p * PageSize \in Nat BY PageOrder DEF Pages
    <3>2. blk[i].start < p * PageSize + PageSize /\ p * PageSize < blk[i].orig_end
      BY <3>1, <1>10, <1>9, <1>8, <1>7, <1>6, <1>5 DEF Overlap, PageArea, Area
    <3> QED BY <3>2 DEF AllocInv, BlkOurs
  <2>3. PageSize =< new.start /\ new.start < new.end /\ new.end =< BmemMaxAddr
    BY <1>6, <1>9, <1>10, <1>11
  <2> QED BY <2>1, <2>2, <2>3, <1>4 DEF AreaOK
<1>22. ASSUME NEW a \in rt \cup bt PROVE ~Overlap(a, new) /\ a # new
  <2>1. a \in Areas /\ a.start < a.end /\ ~Overlap(a, blk[i])
    BY DEF AllocInv, AreasOK, AreaOK, AllocType
  <2> QED BY <2>1, <1>10, <1>9, <1>7, <1>6 DEF Overlap, Areas, Addrs
<1>23. AreasOK'
  <2>1. \A a \in rt' : AreaOK(a)' /\ a.start >= runtime_bmem_top'
    <3>1. ASSUME NEW a \in rt PROVE AreaOK(a)' /\ a.start >= runtime_bmem_top'
      <4>1. AreaOK(a) /\ a.start >= runtime_bmem_top /\ a \in Areas
        BY DEF AllocInv, AreasOK, AllocType
      <4>2. a.start \in Nat BY <4>1, <1>5 DEF Areas, Addrs
      <4> QED BY <4>1, <4>2, <1>13, <1>20, <1>5
    <3>2. AreaOK(new)' /\ new.start >= runtime_bmem_top'
      BY <1>21, <1>10, <1>13, <1>9
    <3> QED BY <3>1, <3>2, <1>12
  <2>2. \A a \in bt' : AreaOK(a)' /\ a.end =< boottime_bmem_bot'
    BY <1>4, <1>20 DEF AllocInv, AreasOK, AllocType
  <2>3. \A a, b \in rt' \cup bt' : a # b => ~Overlap(a, b)
    BY <1>12, <1>4, <1>22 DEF AllocInv, AreasOK, Overlap
  <2>4. rt' \cap bt' = {} BY <1>12, <1>4, <1>22 DEF AllocInv, AreasOK
  <2> QED BY <2>1, <2>2, <2>3, <2>4 DEF AreasOK
<1> QED BY <1>15, <1>16, <1>17, <1>18, <1>19, <1>23 DEF AllocInv

\* What leaves the allocator and the memory map alone keeps its invariant.
LEMMA AllocFrame ==
    ASSUME AllocInv, UNCHANGED <<allocVars, kind>>
    PROVE  AllocInv' /\ (NoStraddle => NoStraddle')
<1>1. Live' = Live BY DEF allocVars, Live
<1>2. BlkOrder' BY <1>1 DEF AllocInv, BlkOrder, allocVars
<1>3. BlkOurs' BY <1>1 DEF AllocInv, BlkOurs, allocVars
<1>4. TopClean' BY DEF AllocInv, TopClean, allocVars
<1>5. AreasOK' BY <1>1 DEF AllocInv, AreasOK, AreaOK, allocVars
<1>6. NoStraddle => NoStraddle' BY <1>1 DEF NoStraddle, allocVars
<1> QED BY <1>2, <1>3, <1>4, <1>5, <1>6 DEF AllocInv

\* Closing a block while the pages are grouped, at page idx.
LEMMA NewBlockInv ==
    ASSUME TypeOK, AllocInv, EarlyInv, GroupInv, pc = "group",
           start # BmemMaxAddr, NewBlock(start, idx * PageSize), UNCHANGED kind
    PROVE  /\ AllocType' /\ AllocInv'
           /\ 2 * num_blks' =< idx
           /\ \A i \in Live' : blk'[i].orig_end =< idx * PageSize
<1>1. PICK k \in 1 .. idx - 1 :
        /\ start = k * PageSize /\ 2 * num_blks < k
        /\ \A p \in k .. idx - 1 : avail[p]
        /\ \A i \in Live : blk[i].orig_end =< start
  BY DEF GroupInv
<1>2. /\ idx \in Nat /\ idx =< NPages /\ k \in Nat /\ 1 =< k /\ k < idx
      /\ num_blks \in Nat /\ NPages \in Nat /\ PageSize \in Nat \ {0}
  BY SizeAssumption, <1>1 DEF TypeOK, MaxBmemBlks
<1>3. 2 * num_blks + 2 =< NPages /\ 2 * num_blks + 2 =< idx BY <1>1, <1>2
<1>4. /\ num_blks + 1 =< MaxBmemBlks /\ MaxBmemBlks \in Nat
      /\ num_blks \in 0 .. MaxBmemBlks - 1
  BY <1>2, <1>3 DEF MaxBmemBlks
<1>5. PICK e : e = idx * PageSize OBVIOUS
<1>6. /\ e \in Nat /\ start \in Nat /\ start =< e /\ PageSize =< start
      /\ e =< BmemMaxAddr /\ BmemMaxAddr \in Nat
  <2>1. k * PageSize + PageSize =< idx * PageSize BY <1>2, PageOrder
  <2>2. 0 * PageSize + PageSize =< k * PageSize BY <1>2, PageOrder
  <2>3. idx = NPages \/ idx * PageSize + PageSize =< NPages * PageSize
    BY <1>2, PageOrder
  <2>4. k * PageSize \in Nat /\ idx * PageSize \in Nat /\ 0 * PageSize = 0
        /\ BmemMaxAddr \in Nat
    BY <1>2, PageOrder
  <2> QED BY <2>1, <2>2, <2>3, <2>4, <1>1, <1>2, <1>5 DEF BmemMaxAddr
<1>7. PICK b : b = [start |-> start, end |-> e, orig_end |-> e] OBVIOUS
<1>8. /\ blk' = [blk EXCEPT ![num_blks] = b] /\ num_blks' = num_blks + 1
      /\ boottime_bmem_bot' = boottime_bmem_bot
      /\ runtime_bmem_top' = runtime_bmem_top /\ rt' = rt /\ bt' = bt
  BY <1>5, <1>7 DEF NewBlock
<1>9. b \in Blocks /\ b.start = start /\ b.end = e /\ b.orig_end = e
  BY <1>6, <1>7 DEF Blocks, Addrs
<1>10. AllocType'
  <2>1. blk' \in [0 .. MaxBmemBlks - 1 -> Blocks] BY <1>4, <1>8, <1>9 DEF TypeOK
  <2>2. num_blks' \in 0 .. MaxBmemBlks BY <1>2, <1>4, <1>8
  <2> QED BY <2>1, <2>2, <1>8 DEF TypeOK, AllocType
<1>11. \A i \in Live' : /\ i \in Int
                        /\ \/ i = num_blks /\ blk'[i] = b
                           \/ i \in Live /\ i < num_blks /\ blk'[i] = blk[i]
  <2>1. Live' = 0 .. num_blks BY <1>2, <1>8 DEF Live
  <2>2. ASSUME NEW i \in 0 .. num_blks
        PROVE  /\ i \in Int
               /\ \/ i = num_blks /\ blk'[i] = b
                  \/ i \in 0 .. num_blks - 1 /\ i < num_blks /\ blk'[i] = blk[i]
    BY <1>2, <1>4, <1>8 DEF TypeOK
  <2>3. Live = 0 .. num_blks - 1 BY DEF Live
  <2> QED BY <2>1, <2>2, <2>3
<1>12. \A i \in Live : /\ blk[i].start \in Nat /\ blk[i].end \in Nat
                       /\ blk[i].orig_end \in Nat
  <2>1. \A i \in Live : i \in 0 .. MaxBmemBlks - 1 BY <1>2, <1>4 DEF Live, MaxBmemBlks
  <2>2. \A i \in Live : blk[i] \in Blocks BY <2>1 DEF TypeOK
  <2> QED BY <2>2, <1>6 DEF Blocks, Addrs
<1>13. BlkOrder'
  <2> SUFFICES ASSUME NEW i \in Live'
               PROVE  /\ PageSize =< blk'[i].start /\ blk'[i].start =< blk'[i].end
                      /\ blk'[i].end =< blk'[i].orig_end
                      /\ \A j \in Live' : i < j => blk'[i].orig_end =< blk'[j].start
    BY DEF BlkOrder
  <2>1. CASE i = num_blks /\ blk'[i] = b
    BY <2>1, <1>2, <1>6, <1>9, <1>11
  <2>2. CASE i \in Live /\ i < num_blks /\ blk'[i] = blk[i]
    <3>1. /\ PageSize =< blk'[i].start /\ blk'[i].start =< blk'[i].end
          /\ blk'[i].end =< blk'[i].orig_end
      BY <2>2 DEF AllocInv, BlkOrder
    <3>2. ASSUME NEW j \in Live', i < j PROVE blk'[i].orig_end =< blk'[j].start
      <4>1. CASE j = num_blks /\ blk'[j] = b
        BY <4>1, <2>2, <1>1, <1>9
      <4>2. CASE j \in Live /\ blk'[j] = blk[j]
        BY <4>2, <3>2, <2>2 DEF AllocInv, BlkOrder
      <4> QED BY <4>1, <4>2, <1>11
    <3> QED BY <3>1, <3>2
  <2> QED BY <2>1, <2>2, <1>11
<1>14. BlkOurs'
  <2> SUFFICES ASSUME NEW i \in Live', NEW p \in Pages,
                      blk'[i].start < p * PageSize + PageSize,
                      p * PageSize < blk'[i].orig_end
               PROVE  kind[p] = "ours"
    BY DEF BlkOurs
  <2>1. CASE blk'[i] = b
    <3>0. p \in Nat /\ p < NPages BY <1>2 DEF Pages
    <3>1. k * PageSize < p * PageSize + PageSize /\ p * PageSize < idx * PageSize
      BY <2>1, <1>1, <1>5, <1>9
    <3>2. ~(p < k)
      <4>1. p < k => p * PageSize + PageSize =< k * PageSize
        BY <3>0, <1>2, PageOrder
      <4>2. k * PageSize \in Nat /\ p * PageSize \in Nat BY <3>0, <1>2, PageOrder
      <4> QED BY <3>1, <4>1, <4>2, <1>2
    <3>3. p < idx
      <4>1. idx < p => idx * PageSize + PageSize =< p * PageSize
        BY <3>0, <1>2, PageOrder
      <4>2. idx * PageSize \in Nat /\ p * PageSize \in Nat BY <3>0, <1>2, PageOrder
      <4>3. ~(idx < p) BY <3>1, <4>1, <4>2, <1>2
      <4>4. idx # p BY <3>1, <4>2
      <4> QED BY <4>3, <4>4, <3>0, <1>2
    <3>4. avail[p] BY <3>0, <3>2, <3>3, <1>1, <1>2
    <3> QED BY <3>4 DEF EarlyInv
  <2>2. CASE i \in Live /\ blk'[i] = blk[i]
    BY <2>2 DEF AllocInv, BlkOurs
  <2> QED BY <2>1, <2>2, <1>11
<1>15. TopClean' BY <1>8 DEF AllocInv, TopClean
<1>16. AreasOK' BY <1>8 DEF AreasOK, EarlyInv
<1>17. \A i \in Live' : blk'[i].orig_end =< e
  BY <1>11, <1>12, <1>1, <1>6, <1>9
<1> QED BY <1>3, <1>2, <1>5, <1>8, <1>10, <1>13, <1>14, <1>15, <1>16, <1>17 DEF AllocInv

RangeFree(m) ==
    /\ \A a \in rt : ~Overlap(a, m)
    /\ \A p \in Pages : Overlap(PageArea(p), m) => kind[p] # "resv"

\* A list node is a request like any other.
LEMMA NodeReqType == NodeReq \in Requests
BY RequestAssumption DEF NodeReq, Requests

\* Adding a memory range parameter.
LEMMA BparmInv ==
    ASSUME TypeOK, AllocInv, NoStraddle, RamIsFree,
           NEW s \in Addrs, NEW e \in Addrs, NEW type \in {"RAM", "RESERVED"},
           NEW next, BparmAddMemRange(s, e, type, next), UNCHANGED kind,
           type = "RAM" => RangeFree(Area(s, e))
    PROVE  /\ AllocType' /\ AllocInv' /\ NoStraddle'
           /\ mrngs' \in Seq(MemRanges) /\ RamIsFree'
           /\ pc' \in {next, "error"} /\ rt' = rt
<1>0. AllocType BY DEF TypeOK, AllocType
<1>1. CASE UNCHANGED <<allocVars, mrngs>> /\ pc' \in {next, "error"}
  <2>1. AllocInv' /\ NoStraddle' BY <1>1, AllocFrame
  <2>2. AllocType' BY <1>0, <1>1 DEF AllocType, allocVars
  <2>3. RamIsFree' BY <1>1 DEF RamIsFree, allocVars
  <2> QED BY <1>1, <2>1, <2>2, <2>3 DEF TypeOK, allocVars
<1>2. CASE /\ \E i \in Live : BootOK(i, NodeReq) /\ TakeBoottime(i, NodeReq)
           /\ mrngs' = Append(mrngs, [start |-> s, end |-> e, type |-> type])
           /\ pc' = next
  <2>1. PICK i \in Live : BootOK(i, NodeReq) /\ TakeBoottime(i, NodeReq)
    BY <1>2
  <2>2. AllocType' /\ AllocInv' /\ NoStraddle'
    BY <1>0, <2>1, NodeReqType, BoottimeInv
  <2>3. rt' = rt BY <2>1 DEF TakeBoottime
  <2>4. PICK m : m = [start |-> s, end |-> e, type |-> type] OBVIOUS
  <2>5. m \in MemRanges /\ m.start = s /\ m.end = e /\ m.type = type
    BY <2>4 DEF MemRanges
  <2>6. mrngs \in Seq(MemRanges) BY DEF TypeOK
  <2>7. mrngs' = Append(mrngs, m) BY <1>2, <2>4
  <2>8. /\ mrngs' \in Seq(MemRanges) /\ Len(mrngs') = Len(mrngs) + 1
        /\ Len(mrngs) \in Nat
        /\ mrngs'[Len(mrngs) + 1] = m
        /\ \A k \in 1 .. Len(mrngs) : mrngs'[k] = mrngs[k]
    BY <2>5, <2>6, <2>7
  <2>9. type = "RAM" => RangeFree(m)
    BY <2>5 DEF RangeFree, Overlap, Area
  <2>10. RamIsFree'
    <3> SUFFICES ASSUME NEW k \in 1 .. Len(mrngs'), mrngs'[k].type = "RAM"
                 PROVE  RangeFree(mrngs'[k])
      BY <2>3 DEF RamIsFree, RangeFree
    <3>1. CASE k = Len(mrngs) + 1 BY <3>1, <2>5, <2>8, <2>9
    <3>2. CASE k \in 1 .. Len(mrngs)
      BY <3>2, <2>8 DEF RamIsFree, RangeFree
    <3> QED BY <3>1, <3>2, <2>8
  <2> QED BY <1>2, <2>2, <2>3, <2>8, <2>10
<1> QED BY <1>1, <1>2 DEF BparmAddMemRange

\* The invariant holds when bmem_init() starts.
LEMMA InitInv == Init => IInv
<1> SUFFICES ASSUME Init PROVE IInv OBVIOUS
<1> USE DEF Init
<1>1. NPages \div 2 \in Nat /\ 1 =< NPages \div 2 /\ NPages \div 2 =< WordMax
  BY SizeAssumption
<1>2. Live = {} BY DEF Live
<1>3. BmemMaxAddr \in Nat /\ PageSize \in Nat BY PageOrder, SizeAssumption
<1>4. NoBlock \in Blocks BY <1>3 DEF NoBlock, Blocks, Addrs
<1>5. << >> \in Seq(MemRanges) /\ Len(<< >>) = 0 OBVIOUS
<1>6. TypeOK
  <2>1. /\ pc \in Phases /\ page_count \in 0 .. WordMax
        /\ idx \in 0 .. NPages /\ blk_idx \in Nat
    BY <1>1, SizeAssumption DEF Phases
  <2>2. /\ kind \in [Pages -> FirmwareKinds \cup {"ours"}]
        /\ avail \in [Pages -> BOOLEAN]
    OBVIOUS
  <2>3. start \in Addrs /\ runtime_bmem_top \in Addrs /\ boottime_bmem_bot \in Nat
    BY <1>3 DEF Addrs
  <2>4. /\ blk \in [0 .. MaxBmemBlks - 1 -> Blocks] /\ cur \in Blocks
        /\ num_blks \in 0 .. MaxBmemBlks
    BY <1>1, <1>4 DEF MaxBmemBlks
  <2>5. rt \subseteq Areas /\ bt \subseteq Areas OBVIOUS
  <2> QED BY <2>1, <2>2, <2>3, <2>4, <2>5, <1>5 DEF TypeOK
<1>7. AllocInv
  <2>1. TopClean BY PageOrder DEF TopClean, Pages
  <2> QED BY <1>2, <2>1 DEF AllocInv, BlkOrder, BlkOurs, AreasOK
<1>8. EarlyInv BY DEF EarlyInv, FirmwareKinds
<1>9. GrabInv BY <1>1 DEF GrabInv
<1>10. ReportInv BY <1>5 DEF ReportInv, RamIsFree
<1> QED BY <1>6, <1>7, <1>8, <1>9, <1>10 DEF IInv, GroupInv, StraddleInv, DoneInv

\* The steps of bmem_init() keep the invariant.
LEMMA InitStepInv == IInv /\ InitStep => IInv'
<1> SUFFICES ASSUME IInv, InitStep PROVE IInv' OBVIOUS
<1> USE DEF IInv
<1>0. /\ PageSize \in Nat \ {0} /\ NPages \in Nat \ {0, 1} /\ WordMax \in Nat \ {0}
      /\ BmemMaxAddr \in Nat /\ MaxBmemBlks \in Nat
  BY SizeAssumption, PageOrder DEF MaxBmemBlks
<1>1. CASE GrabSome
  <2>1. PICK f \in Pages :
          LET got == f .. f + page_count - 1 IN
          /\ kind' = [p \in Pages |-> IF p \in got THEN "ours" ELSE kind[p]]
          /\ avail' = [p \in Pages |-> p \in got \/ avail[p]]
    BY <1>1 DEF GrabSome
  <2>2. /\ pc = "grab" /\ pc' = "grab" /\ page_count' = WordMax
        /\ UNCHANGED <<idx, start, allocVars, blk_idx, cur, mrngs>>
    BY <1>1 DEF GrabSome
  <2>3. TypeOK'
    BY <2>1, <2>2, <1>0 DEF TypeOK, allocVars, Live
  <2>4. Live' = {} /\ rt' = {} /\ bt' = {} /\ runtime_bmem_top' = 0 /\ num_blks' = 0
    BY <2>2 DEF GrabInv, EarlyInv, Live, allocVars
  <2>5. AllocInv'
    <3>1. TopClean' BY <2>4, PageOrder DEF TopClean, Pages
    <3> QED BY <2>4, <3>1 DEF AllocInv, BlkOrder, BlkOurs, AreasOK
  <2>6. EarlyInv' BY <2>1, <2>4, <2>2 DEF EarlyInv
  <2>7. GrabInv' BY <2>2, <2>4, <1>0 DEF GrabInv
  <2>8. ReportInv' BY <2>2 DEF ReportInv, RamIsFree
  <2> QED BY <2>2, <2>3, <2>5, <2>6, <2>7, <2>8 DEF GroupInv, StraddleInv, DoneInv
<1>2. CASE GrabFail
  <2>1. /\ pc = "grab" /\ page_count' = page_count \div 2
        /\ pc' = IF page_count' = 0 THEN "group" ELSE "grab"
        /\ UNCHANGED <<kind, avail, idx, start, allocVars, blk_idx, cur, mrngs>>
        /\ \A f \in Pages : ~FreeRun(f, page_count)
    BY <1>2 DEF GrabFail
  <2>2. page_count \in Nat /\ 1 =< page_count /\ page_count =< WordMax
    BY <2>1, <1>0 DEF TypeOK, GrabInv
  <2>3. page_count' \in 0 .. WordMax BY <2>1, <2>2, <1>0
  <2>4. pc' \in {"grab", "group"} BY <2>1
  <2>5. TypeOK' BY <2>1, <2>3, <2>4 DEF TypeOK, Phases, allocVars
  <2>6. AllocInv' BY <2>1, AllocFrame
  <2>7. EarlyInv' BY <2>1, <2>4 DEF EarlyInv, allocVars
  <2>8. GrabInv'
    <3>1. CASE page_count' = 0
      <4>1. page_count = 1 BY <3>1, <2>1, <2>2
      <4>2. ASSUME NEW p \in Pages PROVE kind[p] # "conv"
        <5>1. p \in Nat /\ p + 1 =< NPages BY <1>0 DEF Pages
        <5>2. p .. p + 1 - 1 = {p} BY <5>1
        <5> QED BY <5>1, <5>2, <4>1, <2>1 DEF FreeRun
      <4> QED BY <4>2, <3>1, <2>1 DEF GrabInv
    <3>2. CASE page_count' # 0
      BY <3>2, <2>1, <2>3 DEF GrabInv, allocVars
    <3> QED BY <3>1, <3>2
  <2>9. GroupInv'
    <3>1. Live' = {} BY <2>1 DEF GrabInv, Live, allocVars
    <3> QED BY <2>1, <3>1 DEF GroupInv, GrabInv, allocVars
  <2>10. ReportInv' BY <2>1, <2>4 DEF ReportInv, RamIsFree, allocVars
  <2> QED BY <2>4, <2>5, <2>6, <2>7, <2>8, <2>9, <2>10 DEF StraddleInv, DoneInv
<1>3. CASE GroupAvail
  <2>1. /\ pc = "group" /\ pc' = "group" /\ idx < NPages /\ avail[idx]
        /\ start' = IF start = BmemMaxAddr THEN idx * PageSize ELSE start
        /\ idx' = idx + 1
        /\ UNCHANGED <<page_count, kind, avail, allocVars, blk_idx, cur, mrngs>>
    BY <1>3 DEF GroupAvail
  <2>2. idx \in Nat /\ 1 =< idx /\ idx * PageSize \in Nat
    BY <2>1, <1>0, PageOrder DEF TypeOK, GroupInv
  <2>3. idx * PageSize + PageSize =< BmemMaxAddr
    BY <2>1, <2>2, <1>0, PageOrder DEF BmemMaxAddr
  <2>4. idx * PageSize \in Addrs /\ idx * PageSize # BmemMaxAddr
    BY <2>2, <2>3, <1>0 DEF Addrs
  <2>5. TypeOK' BY <2>1, <2>2, <2>4, <1>0 DEF TypeOK, allocVars
  <2>6. AllocInv' BY <2>1, AllocFrame
  <2>7. EarlyInv' BY <2>1 DEF EarlyInv, allocVars
  <2>8. GrabInv' BY <2>1 DEF GrabInv
  <2>9. GroupInv'
    <3>0. Live' = Live /\ blk' = blk /\ num_blks' = num_blks /\ avail' = avail
      BY <2>1 DEF Live, allocVars
    <3>1. CASE start = BmemMaxAddr
      <4>1. start' = idx * PageSize /\ start' # BmemMaxAddr BY <3>1, <2>1, <2>4
      <4>2. /\ idx \in 1 .. idx' - 1 /\ 2 * num_blks < idx
            /\ \A p \in idx .. idx' - 1 : avail[p]
            /\ \A i \in Live : blk[i].orig_end =< start'
        BY <2>1, <2>2, <3>1, <4>1 DEF GroupInv
      <4> QED BY <4>1, <4>2, <3>0, <2>1, <2>2 DEF GroupInv
    <3>2. CASE start # BmemMaxAddr
      <4>1. PICK k \in 1 .. idx - 1 :
              /\ start = k * PageSize /\ 2 * num_blks < k
              /\ \A p \in k .. idx - 1 : avail[p]
              /\ \A i \in Live : blk[i].orig_end =< start
        BY <3>2, <2>1 DEF GroupInv
      <4>2. start' = start BY <3>2, <2>1
      <4>3. k \in 1 .. idx' - 1 /\ \A p \in k .. idx' - 1 : avail[p]
        BY <4>1, <2>1, <2>2
      <4> QED BY <4>1, <4>2, <4>3, <3>0, <3>2, <2>1, <2>2 DEF GroupInv
    <3> QED BY <3>1, <3>2
  <2>10. ReportInv' BY <2>1 DEF ReportInv, RamIsFree, allocVars
  <2> QED BY <2>1, <2>5, <2>6, <2>7, <2>8, <2>9, <2>10 DEF StraddleInv, DoneInv
<1>4. CASE GroupUnavail
  <2>1. /\ pc = "group" /\ pc' = "group" /\ idx < NPages
        /\ start' = BmemMaxAddr /\ idx' = idx + 1
        /\ UNCHANGED <<page_count, kind, avail, blk_idx, cur, mrngs>>
        /\ IF start # BmemMaxAddr THEN NewBlock(start, idx * PageSize)
                                  ELSE UNCHANGED allocVars
    BY <1>4 DEF GroupUnavail
  <2>2. idx \in Nat /\ 1 =< idx /\ idx * PageSize \in Nat /\ idx' * PageSize \in Nat
        /\ idx * PageSize =< idx' * PageSize
    <3>1. idx \in Nat /\ 1 =< idx BY <2>1, <1>0 DEF TypeOK, GroupInv
    <3>2. idx * PageSize + PageSize =< (idx + 1) * PageSize BY <3>1, PageOrder
    <3>3. idx * PageSize \in Nat /\ (idx + 1) * PageSize \in Nat BY <3>1, PageOrder
    <3> QED BY <3>1, <3>2, <3>3, <2>1, <1>0
  <2>3. /\ AllocType' /\ AllocInv' /\ 2 * num_blks' =< idx
        /\ \A i \in Live' : blk'[i].orig_end =< idx * PageSize
        /\ rt' = rt /\ bt' = bt /\ runtime_bmem_top' = runtime_bmem_top
    <3>1. CASE start # BmemMaxAddr
      BY <3>1, <2>1, NewBlockInv DEF NewBlock
    <3>2. CASE start = BmemMaxAddr
      <4>1. UNCHANGED allocVars /\ Live' = Live BY <3>2, <2>1 DEF allocVars, Live
      <4>2. AllocInv' BY <4>1, <2>1, AllocFrame
      <4>3. AllocType' BY <4>1, <2>1 DEF TypeOK, AllocType, allocVars
      <4>4. num_blks \in Nat BY <1>0 DEF TypeOK
      <4> QED BY <4>1, <4>2, <4>3, <4>4, <3>2, <2>1, <2>2 DEF GroupInv, allocVars
    <3> QED BY <3>1, <3>2
  <2>4. BmemMaxAddr \in Addrs BY <1>0 DEF Addrs
  <2>5. TypeOK' BY <2>1, <2>2, <2>3, <2>4, <1>0 DEF TypeOK, AllocType
  <2>6. EarlyInv' BY <2>1, <2>3 DEF EarlyInv
  <2>7. GrabInv' BY <2>1 DEF GrabInv
  <2>8. GroupInv'
    <3>1. PICK n \in 0 .. MaxBmemBlks : num_blks' = n BY <2>3 DEF AllocType
    <3>2. n \in Nat /\ n =< MaxBmemBlks BY <1>0
    <3>3. Live' = 0 .. n - 1 BY <3>1 DEF Live
    <3>4. \A i \in Live' : blk'[i].orig_end =< idx' * PageSize
      <4> SUFFICES ASSUME NEW i \in 0 .. n - 1
                   PROVE  blk'[i].orig_end =< idx' * PageSize
        BY <3>3
      <4>1. i \in 0 .. MaxBmemBlks - 1 BY <3>2, <1>0
      <4>2. blk'[i].orig_end \in Nat BY <4>1, <2>3, <1>0 DEF AllocType, Blocks, Addrs
      <4>3. blk'[i].orig_end =< idx * PageSize BY <3>3, <2>3
      <4> QED BY <4>2, <4>3, <2>2
    <3>5. 2 * n < idx + 1 /\ idx + 1 >= 1
      <4>1. 2 * n =< idx BY <3>1, <3>2, <2>3
      <4> QED BY <4>1, <3>2, <2>2
    <3> QED BY <3>1, <3>2, <3>4, <3>5, <2>1 DEF GroupInv
  <2>9. ReportInv' BY <2>1, <2>3 DEF ReportInv, RamIsFree
  <2> QED BY <2>1, <2>3, <2>5, <2>6, <2>7, <2>8, <2>9 DEF StraddleInv, DoneInv
<1>5. CASE GroupEnd
  <2>1. /\ pc = "group" /\ pc' = "gauge"
        /\ UNCHANGED <<initVars, blk_idx, cur, mrngs>>
        /\ IF start # BmemMaxAddr THEN NewBlock(start, idx * PageSize)
                                  ELSE UNCHANGED allocVars
    BY <1>5 DEF GroupEnd
  <2>2. /\ AllocType' /\ AllocInv'
        /\ rt' = rt /\ bt' = bt /\ runtime_bmem_top' = runtime_bmem_top
    <3>1. CASE start # BmemMaxAddr
      BY <3>1, <2>1, NewBlockInv DEF NewBlock, initVars
    <3>2. CASE start = BmemMaxAddr
      BY <3>2, <2>1, AllocFrame DEF TypeOK, AllocType, allocVars, initVars
    <3> QED BY <3>1, <3>2
  <2>3. TypeOK' BY <2>1, <2>2 DEF TypeOK, AllocType, initVars, Phases
  <2>4. EarlyInv' BY <2>1, <2>2 DEF EarlyInv, initVars
  <2>5. GrabInv' BY <2>1 DEF GrabInv, initVars
  <2>6. ReportInv' BY <2>1, <2>2 DEF ReportInv, RamIsFree, initVars
  <2> QED BY <2>1, <2>2, <2>3, <2>4, <2>5, <2>6 DEF StraddleInv, DoneInv, GroupInv
<1>6. CASE Gauge
  <2>1. PICK n \in 0 .. NPages :
          /\ \A p \in 0 .. n - 1 : avail'[p]
          /\ n < NPages => ~avail'[n]
          /\ runtime_bmem_top' = IF n * PageSize < MinTop
                                 THEN runtime_bmem_top ELSE n * PageSize
    BY <1>6 DEF Gauge
  <2>2. /\ pc = "gauge" /\ pc' \in {"run", "error"}
        /\ avail' = [p \in Pages |-> avail[p] \/ kind[p] \in FreedKinds]
        /\ UNCHANGED <<page_count, kind, idx, start, blk, num_blks,
                       boottime_bmem_bot, rt, bt, blk_idx, cur, mrngs>>
    BY <1>6 DEF Gauge
  <2>3. Live' = Live BY <2>2 DEF Live
  <2>4. /\ runtime_bmem_top' \in {0, n * PageSize}
        /\ n \in Nat /\ n =< NPages /\ n * PageSize \in Nat
        /\ n * PageSize =< BmemMaxAddr
    <3>1. n \in Nat /\ n =< NPages BY <1>0
    <3>2. n = NPages \/ n * PageSize + PageSize =< NPages * PageSize
      BY <3>1, <1>0, PageOrder
    <3>3. n * PageSize \in Nat BY <3>1, PageOrder
    <3> QED BY <3>1, <3>2, <3>3, <2>1, <2>2, <1>0 DEF EarlyInv, BmemMaxAddr
  <2>5. runtime_bmem_top' \in Addrs BY <2>4, <1>0 DEF Addrs
  <2>6. TypeOK' BY <2>2, <2>5 DEF TypeOK, Phases
  <2>7. TopClean'
    <3> SUFFICES ASSUME NEW p \in Pages, p * PageSize < runtime_bmem_top'
                 PROVE  kind[p] # "resv"
      BY <2>2 DEF TopClean
    <3>1. p \in Nat /\ p * PageSize \in Nat BY PageOrder DEF Pages
    <3>2. p * PageSize < n * PageSize BY <3>1, <2>4
    <3>3. p < n
      <4>1. n < p => n * PageSize + PageSize =< p * PageSize
        BY <3>1, <2>4, PageOrder
      <4> QED BY <4>1, <3>1, <3>2, <2>4, <1>0
    <3>4. avail'[p] BY <3>1, <3>3, <2>1, <2>4
    <3>5. kind[p] = "ours" \/ kind[p] \in FreedKinds
      BY <3>4, <2>2 DEF EarlyInv
    <3> QED BY <3>5 DEF FreedKinds
  <2>8. AllocInv'
    BY <2>2, <2>3, <2>7 DEF AllocInv, BlkOrder, BlkOurs, AreasOK, EarlyInv
  <2>9. NoStraddle'
    <3> SUFFICES ASSUME NEW i \in Live,
                        blk[i].end > runtime_bmem_top',
                        blk[i].start < runtime_bmem_top'
                 PROVE  FALSE
      <4>1. \A i \in Live : /\ blk[i].end \in Nat /\ blk[i].start \in Nat
        <5>1. \A i \in Live : i \in 0 .. MaxBmemBlks - 1 BY <1>0 DEF Live, TypeOK
        <5> QED BY <5>1, <1>0 DEF TypeOK, Blocks, Addrs
      <4> QED BY <4>1, <2>2, <2>3, <2>5, <1>0 DEF NoStraddle, Addrs
    <3>1. /\ blk[i].start \in Nat /\ blk[i].end \in Nat /\ blk[i].orig_end \in Nat
          /\ blk[i].end =< blk[i].orig_end /\ blk[i].orig_end =< BmemMaxAddr
      <4>1. i \in 0 .. MaxBmemBlks - 1 BY <1>0 DEF Live, TypeOK
      <4> QED BY <4>1, <1>0 DEF TypeOK, Blocks, Addrs, AllocInv, BlkOrder
    <3>2. runtime_bmem_top' = n * PageSize BY <3>1, <2>4
    <3>3. n < NPages
      <4>1. n * PageSize < BmemMaxAddr BY <3>1, <3>2, <2>4, <1>0
      <4>2. n # NPages BY <4>1, <2>4, <1>0 DEF BmemMaxAddr
      <4> QED BY <4>2, <2>4, <1>0
    <3>4. n \in Pages BY <3>3, <2>4, <1>0 DEF Pages
    <3>5. blk[i].start < n * PageSize + PageSize /\ n * PageSize < blk[i].orig_end
      BY <3>1, <3>2, <2>4, <1>0
    <3>6. kind[n] = "ours" BY <3>4, <3>5 DEF AllocInv, BlkOurs
    <3>7. avail[n] BY <3>4, <3>6, <2>2 DEF EarlyInv
    <3>a. avail' = [p \in Pages |-> avail[p] \/ kind[p] \in FreedKinds] BY <2>2
    <3>8. avail'[n] BY <3>4, <3>7, <3>a, Zenon
    <3> QED BY <3>3, <3>8, <2>1
  <2>10. GrabInv' BY <2>2 DEF GrabInv
  <2>11. ReportInv' BY <2>2 DEF ReportInv, RamIsFree
  <2> QED BY <2>2, <2>6, <2>8, <2>9, <2>10, <2>11
          DEF EarlyInv, GroupInv, StraddleInv, DoneInv
<1> QED BY <1>1, <1>2, <1>3, <1>4, <1>5, <1>6 DEF InitStep

\* The allocations keep the invariant.
LEMMA UseStepInv == IInv /\ UseStep => IInv'
<1> SUFFICES ASSUME IInv, UseStep PROVE IInv' OBVIOUS
<1> USE DEF IInv
<1>0. AllocType BY DEF TypeOK, AllocType
<1>1. ASSUME pc = "run", pc' = "run", AllocType', AllocInv', NoStraddle',
             UNCHANGED <<initVars, blk_idx, cur, mrngs>>
      PROVE  IInv'
  <2>1. TypeOK' BY <1>1 DEF TypeOK, AllocType, initVars
  <2>2. GrabInv' BY <1>1 DEF GrabInv, initVars
  <2>3. ReportInv' BY <1>1 DEF ReportInv, RamIsFree
  <2> QED BY <1>1, <2>1, <2>2, <2>3 DEF EarlyInv, GroupInv, StraddleInv, DoneInv
<1>2. ASSUME pc = "run", pc' = "error",
             UNCHANGED <<initVars, allocVars, blk_idx, cur, mrngs>>
      PROVE  IInv'
  <2>1. TypeOK' BY <1>2 DEF TypeOK, initVars, allocVars, Phases
  <2>2. AllocInv' BY <1>2, AllocFrame DEF initVars
  <2>3. GrabInv' BY <1>2 DEF GrabInv, initVars
  <2>4. ReportInv' BY <1>2 DEF ReportInv, RamIsFree, initVars, allocVars
  <2> QED BY <1>2, <2>1, <2>2, <2>3, <2>4 DEF EarlyInv, GroupInv, StraddleInv, DoneInv
<1>3. ASSUME NEW req \in RunReqs, BmemAlloc(req) PROVE IInv'
  <2>1. /\ pc = "run" /\ pc' = "run"
        /\ UNCHANGED <<initVars, blk_idx, cur, mrngs>>
    BY <1>3 DEF BmemAlloc
  <2>2. AllocType' /\ AllocInv' /\ NoStraddle'
    BY <2>1, <1>0, <1>3, RequestAssumption, RuntimeInv DEF StraddleInv
  <2> QED BY <2>1, <2>2, <1>1
<1>4. ASSUME NEW req \in RunReqs, BmemAllocError(req) PROVE IInv'
  BY <1>4, <1>2 DEF BmemAllocError
<1>5. ASSUME NEW req \in BootReqs, BmemAllocBoottime(req) PROVE IInv'
  <2>1. /\ pc = "run" /\ pc' = "run"
        /\ UNCHANGED <<initVars, blk_idx, cur, mrngs>>
    BY <1>5 DEF BmemAllocBoottime
  <2>2. PICK i \in Live : BootOK(i, req) /\ TakeBoottime(i, req)
    BY <1>5 DEF BmemAllocBoottime
  <2>3. AllocType' /\ AllocInv' /\ NoStraddle'
    BY <2>1, <2>2, <1>0, RequestAssumption, BoottimeInv DEF StraddleInv, initVars
  <2> QED BY <2>1, <2>3, <1>1
<1>6. ASSUME NEW req \in BootReqs, BmemAllocBoottimeError(req) PROVE IInv'
  BY <1>6, <1>2 DEF BmemAllocBoottimeError
<1> QED BY <1>3, <1>4, <1>5, <1>6 DEF UseStep

\* The steps of bmem_fini() keep the invariant.
LEMMA FiniStepInv == IInv /\ FiniStep => IInv'
<1> SUFFICES ASSUME IInv, FiniStep PROVE IInv' OBVIOUS
<1> USE DEF IInv
<1>0. /\ PageSize \in Nat \ {0} /\ NPages \in Nat \ {0, 1}
      /\ BmemMaxAddr \in Nat /\ MaxBmemBlks \in Nat
  BY SizeAssumption, PageOrder DEF MaxBmemBlks
<1> DEFINE Busy == {"run", "uefi", "skip", "ours", "used"}
\* A step that reports a range, or nothing, and goes on within bmem_fini().
<1>1. ASSUME pc \in Busy, pc' \in Busy \cup {"error"}, pc' # "run",
             AllocType', AllocInv', NoStraddle',
             RamIsFree', mrngs' \in Seq(MemRanges), cur' \in Blocks,
             blk_idx' \in Nat, idx' \in 0 .. NPages,
             UNCHANGED <<page_count, kind, avail, start>>
      PROVE  IInv'
  <2>1. TypeOK' BY <1>1 DEF TypeOK, AllocType, Phases
  <2>2. GrabInv' BY <1>1 DEF GrabInv
  <2> QED BY <1>1, <2>1, <2>2
          DEF EarlyInv, GroupInv, StraddleInv, DoneInv, ReportInv
<1>2. ASSUME pc \in Busy, pc' \in Busy, pc' # "run",
             UNCHANGED <<allocVars, mrngs, kind>>
      PROVE  /\ AllocType' /\ AllocInv' /\ NoStraddle'
             /\ RamIsFree' /\ mrngs' \in Seq(MemRanges)
  <2>1. AllocInv' /\ NoStraddle' BY <1>2, AllocFrame DEF StraddleInv
  <2>2. AllocType' BY <1>2 DEF TypeOK, AllocType, allocVars
  <2>3. RamIsFree' BY <1>2 DEF ReportInv, RamIsFree, allocVars
  <2> QED BY <1>2, <2>1, <2>2, <2>3 DEF TypeOK
<1>3. CASE BmemFini
  BY <1>3, <1>1, <1>2, <1>0 DEF BmemFini, TypeOK
<1>4. CASE AddUefiMemBparm
  <2>1. PICK e \in idx + 1 .. NPages :
          /\ idx' = e
          /\ IF kind[idx] \in FreedKinds
             THEN UNCHANGED <<pc, allocVars, mrngs>>
             ELSE BparmAddMemRange(idx * PageSize, e * PageSize, "RESERVED", "uefi")
    BY <1>4 DEF AddUefiMemBparm
  <2>2. /\ pc = "uefi" /\ idx < NPages
        /\ UNCHANGED <<page_count, kind, avail, start, blk_idx, cur>>
    BY <1>4 DEF AddUefiMemBparm
  <2>3. idx \in Nat /\ e \in Nat /\ idx < e /\ e =< NPages
    BY <2>1, <1>0 DEF TypeOK
  <2>4. idx * PageSize \in Addrs /\ e * PageSize \in Addrs
    <3>1. idx * PageSize \in Nat /\ e * PageSize \in Nat BY <2>3, PageOrder
    <3>2. idx * PageSize + PageSize =< NPages * PageSize
      BY <2>2, <2>3, <1>0, PageOrder
    <3>3. e = NPages \/ e * PageSize + PageSize =< NPages * PageSize
      BY <2>3, <1>0, PageOrder
    <3> QED BY <3>1, <3>2, <3>3, <1>0 DEF Addrs, BmemMaxAddr
  <2>5. idx' \in 0 .. NPages BY <2>1, <2>3
  <2>6. CASE kind[idx] \in FreedKinds
    <3>1. pc' = "uefi" /\ UNCHANGED <<allocVars, mrngs>> BY <2>6, <2>1, <2>2
    <3> QED BY <3>1, <2>2, <2>5, <1>1, <1>2 DEF TypeOK
  <2>7. CASE kind[idx] \notin FreedKinds
    <3>1. BparmAddMemRange(idx * PageSize, e * PageSize, "RESERVED", "uefi")
      BY <2>7, <2>1
    <3>2. /\ AllocType' /\ AllocInv' /\ NoStraddle'
          /\ mrngs' \in Seq(MemRanges) /\ RamIsFree'
          /\ pc' \in {"uefi", "error"}
      BY <3>1, <2>2, <2>4, BparmInv DEF StraddleInv, ReportInv
    <3> QED BY <3>2, <2>2, <2>5, <1>1 DEF TypeOK
  <2> QED BY <2>6, <2>7
<1>5. CASE AddBaseBparm
  <2>1. /\ pc = "uefi" /\ BparmAddMemRange(0, runtime_bmem_top, "RAM", "skip")
        /\ UNCHANGED <<initVars, blk_idx, cur>>
    BY <1>5 DEF AddBaseBparm
  <2>2. runtime_bmem_top \in Addrs /\ 0 \in Addrs /\ runtime_bmem_top \in Nat
    BY <1>0 DEF TypeOK, Addrs
  <2>3. RangeFree(Area(0, runtime_bmem_top))
    <3>1. ASSUME NEW a \in rt PROVE ~Overlap(a, Area(0, runtime_bmem_top))
      <4>1. a.start >= runtime_bmem_top /\ a \in Areas
        BY DEF AllocInv, AreasOK, TypeOK
      <4> QED BY <4>1, <2>2, <1>0 DEF Overlap, Area, Areas, Addrs
    <3>2. ASSUME NEW p \in Pages, Overlap(PageArea(p), Area(0, runtime_bmem_top))
          PROVE  kind[p] # "resv"
      <4>1. p * PageSize < runtime_bmem_top
        BY <3>2 DEF Overlap, PageArea, Area
      <4> QED BY <4>1 DEF AllocInv, TopClean
    <3> QED BY <3>1, <3>2 DEF RangeFree
  <2>4. /\ AllocType' /\ AllocInv' /\ NoStraddle'
        /\ mrngs' \in Seq(MemRanges) /\ RamIsFree'
        /\ pc' \in {"skip", "error"}
    BY <2>1, <2>2, <2>3, BparmInv DEF StraddleInv, ReportInv, initVars
  <2> QED BY <2>1, <2>4, <1>1 DEF TypeOK, initVars
<1>6. CASE SkipLowBlks
  <2>1. /\ pc = "skip" /\ pc' = "ours" /\ blk_idx' \in 0 .. num_blks
        /\ UNCHANGED <<initVars, allocVars, cur, mrngs>>
    BY <1>6 DEF SkipLowBlks
  <2>2. blk_idx' \in Nat BY <2>1, <1>0 DEF TypeOK
  <2> QED BY <2>1, <2>2, <1>1, <1>2 DEF TypeOK, initVars
<1>7. CASE AddBlkFreeBparm
  <2>1. /\ pc = "ours" /\ blk_idx < num_blks /\ cur' = blk[blk_idx]
        /\ BparmAddMemRange(blk[blk_idx].start, blk[blk_idx].end, "RAM", "used")
        /\ UNCHANGED <<initVars, blk_idx>>
    BY <1>7 DEF AddBlkFreeBparm
  <2>2. blk_idx \in Live /\ blk_idx \in 0 .. MaxBmemBlks - 1
    BY <2>1, <1>0 DEF TypeOK, Live
  <2>3. PICK b \in Blocks : b = blk[blk_idx] BY <2>2 DEF TypeOK
  <2>4. /\ b.start \in Addrs /\ b.end \in Addrs /\ b.orig_end \in Addrs
        /\ b.start \in Nat /\ b.end \in Nat /\ b.orig_end \in Nat
    BY <2>3, <1>0 DEF Blocks, Addrs
  <2>5. RangeFree(Area(b.start, b.end))
    <3>1. ASSUME NEW a \in rt PROVE ~Overlap(a, Area(b.start, b.end))
      <4>1. ~Overlap(a, b) BY <2>2, <2>3 DEF AllocInv, AreasOK, AreaOK
      <4> QED BY <4>1 DEF Overlap, Area
    <3>2. ASSUME NEW p \in Pages, Overlap(PageArea(p), Area(b.start, b.end))
          PROVE  kind[p] # "resv"
      <4>1. p * PageSize < b.end /\ b.start < p * PageSize + PageSize
        BY <3>2 DEF Overlap, PageArea, Area
      <4>2. b.end =< b.orig_end BY <2>2, <2>3 DEF AllocInv, BlkOrder
      <4>3. p * PageSize \in Nat BY PageOrder DEF Pages
      <4>4. p * PageSize < b.orig_end BY <4>1, <4>2, <4>3, <2>4
      <4> QED BY <4>1, <4>4, <2>2, <2>3 DEF AllocInv, BlkOurs
    <3> QED BY <3>1, <3>2 DEF RangeFree
  <2>6. /\ AllocType' /\ AllocInv' /\ NoStraddle'
        /\ mrngs' \in Seq(MemRanges) /\ RamIsFree'
        /\ pc' \in {"used", "error"}
    <3>1. BparmAddMemRange(b.start, b.end, "RAM", "used") BY <2>1, <2>3
    <3> QED BY <3>1, <2>1, <2>4, <2>5, BparmInv DEF StraddleInv, ReportInv, initVars
  <2> QED BY <2>1, <2>3, <2>6, <1>1 DEF TypeOK, initVars
<1>8. CASE AddBlkUsedBparm
  <2>1. /\ pc = "used"
        /\ BparmAddMemRange(cur.end, cur.orig_end, "RESERVED", "ours")
        /\ blk_idx' = blk_idx + 1
        /\ UNCHANGED <<initVars, cur>>
    BY <1>8 DEF AddBlkUsedBparm
  <2>2. cur.end \in Addrs /\ cur.orig_end \in Addrs BY DEF TypeOK, Blocks
  <2>3. /\ AllocType' /\ AllocInv' /\ NoStraddle'
        /\ mrngs' \in Seq(MemRanges) /\ RamIsFree'
        /\ pc' \in {"ours", "error"}
    BY <2>1, <2>2, BparmInv DEF StraddleInv, ReportInv, initVars
  <2>4. blk_idx' \in Nat BY <2>1 DEF TypeOK
  <2> QED BY <2>1, <2>3, <2>4, <1>1 DEF TypeOK, initVars
<1>9. CASE FiniDone
  <2>1. /\ pc = "ours"
        /\ boottime_bmem_bot' = AlignUp(boottime_bmem_bot, ParaSize)
        /\ runtime_bmem_top' = AlignDown(runtime_bmem_top, KiB)
        /\ pc' = IF Enough(boottime_bmem_bot', runtime_bmem_top')
                 THEN "done" ELSE "error"
        /\ UNCHANGED <<initVars, blk, num_blks, rt, bt, blk_idx, cur, mrngs>>
    BY <1>9 DEF FiniDone
  <2>2. Live' = Live BY <2>1 DEF Live
  <2>3. /\ boottime_bmem_bot \in Nat /\ boottime_bmem_bot' \in Nat
        /\ boottime_bmem_bot =< boottime_bmem_bot'
    BY <2>1, SizeAssumption, AlignUpBounds DEF TypeOK
  <2>4. /\ runtime_bmem_top \in Nat /\ runtime_bmem_top' \in Nat
        /\ runtime_bmem_top' =< runtime_bmem_top
        /\ runtime_bmem_top' \in Addrs
    <3>1. runtime_bmem_top \in Nat /\ runtime_bmem_top =< BmemMaxAddr
      BY <1>0 DEF TypeOK, Addrs
    <3>2. /\ AlignDown(runtime_bmem_top, KiB) \in Nat
          /\ AlignDown(runtime_bmem_top, KiB) =< runtime_bmem_top
      BY <3>1, SizeAssumption, AlignDownBounds
    <3> QED BY <3>1, <3>2, <2>1, <1>0 DEF Addrs
  <2>5. pc' \in {"done", "error"} BY <2>1
  <2>6. TypeOK' BY <2>1, <2>3, <2>4, <2>5 DEF TypeOK, initVars, Phases
  <2>7. AllocInv'
    <3>1. BlkOrder' BY <2>1, <2>2 DEF AllocInv, BlkOrder
    <3>2. BlkOurs' BY <2>1, <2>2 DEF AllocInv, BlkOurs, initVars
    <3>3. TopClean'
      <4> SUFFICES ASSUME NEW p \in Pages, p * PageSize < runtime_bmem_top'
                   PROVE  kind[p] # "resv"
        BY <2>1 DEF TopClean, initVars
      <4>1. p * PageSize \in Nat BY PageOrder DEF Pages
      <4> QED BY <4>1, <2>4 DEF AllocInv, TopClean
    <3>4. \A a : AreaOK(a) => AreaOK(a)'
      BY <2>1, <2>2 DEF AreaOK, initVars
    <3>5. \A a \in rt : a.start >= runtime_bmem_top'
      <4> SUFFICES ASSUME NEW a \in rt PROVE a.start >= runtime_bmem_top'
        OBVIOUS
      <4>1. a.start \in Nat /\ a.start >= runtime_bmem_top
        BY <1>0 DEF TypeOK, Areas, Addrs, AllocInv, AreasOK
      <4> QED BY <4>1, <2>4
    <3>6. \A a \in bt : a.end =< boottime_bmem_bot'
      <4> SUFFICES ASSUME NEW a \in bt PROVE a.end =< boottime_bmem_bot'
        OBVIOUS
      <4>1. a.end \in Nat /\ a.end =< boottime_bmem_bot
        BY DEF TypeOK, Areas, AllocInv, AreasOK
      <4> QED BY <4>1, <2>3
    <3>7. AreasOK' BY <2>1, <3>4, <3>5, <3>6 DEF AllocInv, AreasOK
    <3> QED BY <3>1, <3>2, <3>3, <3>7 DEF AllocInv
  <2>8. GrabInv' BY <2>1, <2>5 DEF GrabInv, initVars
  <2>9. ReportInv' BY <2>1, <2>5 DEF ReportInv, RamIsFree, initVars
  <2>10. DoneInv' BY <2>1 DEF DoneInv
  <2> QED BY <2>5, <2>6, <2>7, <2>8, <2>9, <2>10
          DEF EarlyInv, GroupInv, StraddleInv
<1> QED BY <1>3, <1>4, <1>5, <1>6, <1>7, <1>8, <1>9 DEF FiniStep

-----------------------------------------------------------------------------
\* IInv holds in every reachable state.
THEOREM Inductive == Spec => []IInv
<1>1. Init => IInv BY InitInv
<1>2. IInv /\ [Next]_vars => IInv'
  <2> SUFFICES ASSUME IInv, [Next]_vars PROVE IInv' OBVIOUS
  <2>1. CASE InitStep BY <2>1, InitStepInv
  <2>2. CASE UseStep BY <2>2, UseStepInv
  <2>3. CASE FiniStep BY <2>3, FiniStepInv
  <2>4. CASE UNCHANGED vars
    <3>1. UNCHANGED <<allocVars, kind, pc, page_count, avail, idx, start, blk_idx,
                      cur, mrngs>>
      BY <2>4 DEF vars, initVars
    <3>2. AllocInv' /\ (NoStraddle => NoStraddle')
      BY <3>1, AllocFrame DEF IInv
    <3>3. Live' = Live BY <3>1 DEF Live, allocVars
    <3>4. TypeOK' BY <3>1 DEF IInv, TypeOK, allocVars
    <3>5. EarlyInv' /\ GrabInv' BY <3>1 DEF IInv, EarlyInv, GrabInv, allocVars
    <3>6. GroupInv' BY <3>1, <3>3 DEF IInv, GroupInv, allocVars
    <3>7. StraddleInv' BY <3>1, <3>2 DEF IInv, StraddleInv
    <3>8. ReportInv' BY <3>1 DEF IInv, ReportInv, RamIsFree, allocVars
    <3>9. DoneInv' BY <3>1 DEF IInv, DoneInv, allocVars
    <3> QED BY <3>2, <3>4, <3>5, <3>6, <3>7, <3>8, <3>9 DEF IInv
  <2> QED BY <2>1, <2>2, <2>3, <2>4 DEF Next, Work, Stopped
<1> QED BY <1>1, <1>2, PTL DEF Spec

\* The variables keep their types: the block array never overflows.
THEOREM TypeCorrect == Spec => []TypeOK
<1>1. IInv => TypeOK BY DEF IInv
<1> QED BY <1>1, Inductive, PTL

\* The wrapping loop over AllocatePages leaves UEFI no conventional page.
THEOREM GrabsAll == Spec => []GrabsEverything
<1>1. IInv => GrabsEverything BY DEF IInv, GrabInv, GrabsEverything
<1> QED BY <1>1, Inductive, PTL

\* No byte of base memory is handed out twice, and none of page 0.
THEOREM AllocationsDisjoint == Spec => []NoOverlap
<1>1. IInv => NoOverlap
  <2> SUFFICES ASSUME IInv PROVE NoOverlap OBVIOUS
  <2>1. ASSUME NEW a \in rt \cup bt
        PROVE  AreaOK(a) /\ a \in Areas
    BY DEF IInv, AllocInv, AreasOK, TypeOK
  <2>2. ASSUME NEW a \in rt \cup bt, NEW p \in Pages, Overlap(a, PageArea(p))
        PROVE  p # 0
    <3>1. PageSize =< a.start /\ a.start \in Nat
      BY <2>1, PageOrder DEF AreaOK, Areas, Addrs
    <3>2. a.start < p * PageSize + PageSize
      BY <2>2 DEF Overlap, PageArea, Area
    <3> QED BY <3>1, <3>2, PageOrder, SizeAssumption
  <2> QED BY <2>1, <2>2 DEF IInv, AllocInv, AreasOK, AreaOK, NoOverlap
<1> QED BY <1>1, Inductive, PTL

\* Stage 2 gets the scratch area that it is told of.
THEOREM ScratchIsFree == Spec => []Scratch
<1>1. IInv => Scratch
  <2> SUFFICES ASSUME IInv, pc = "done" PROVE Scratch
    BY DEF Scratch
  <2>1. /\ runtime_bmem_top \in Nat /\ boottime_bmem_bot \in Nat /\ MinGap \in Nat
    BY PageOrder, SizeAssumption DEF IInv, TypeOK, Addrs
  <2>2. Enough(boottime_bmem_bot, runtime_bmem_top) BY DEF IInv, DoneInv
  <2>3. /\ runtime_bmem_top >= MinTop
        /\ boottime_bmem_bot + MinGap =< runtime_bmem_top
    BY <2>1, <2>2, SizeAssumption DEF Enough
  <2>4. /\ \A a \in bt : a.end =< boottime_bmem_bot
        /\ \A a \in rt : a.start >= runtime_bmem_top
    BY DEF IInv, AllocInv, AreasOK
  <2>5. ASSUME NEW p \in Pages, Overlap(PageArea(p), Area(0, runtime_bmem_top))
        PROVE  kind[p] # "resv"
    BY <2>5 DEF IInv, AllocInv, TopClean, Overlap, PageArea, Area
  <2> QED BY <2>3, <2>4, <2>5 DEF Scratch
<1> QED BY <1>1, Inductive, PTL

\* What stage 2 is told is RAM is in nobody else's use.
THEOREM RamReportSound == Spec => []RamIsFree
<1>1. IInv => RamIsFree BY DEF IInv, ReportInv
<1> QED BY <1>1, Inductive, PTL

-----------------------------------------------------------------------------
(***************************************************************************)
(* The grouping of pages into blocks.                                      *)
(***************************************************************************)
PageInBlk(p, i) == Inside(PageArea(p), Area(blk[i].start, blk[i].end))

\* Nothing has been taken from the blocks yet, and there is a gap between
\* each two.
Gaps ==
    \A i \in Live :
        /\ blk[i].start < blk[i].end /\ blk[i].end = blk[i].orig_end
        /\ \A j \in Live : i < j => blk[i].end < blk[j].start

\* The pages passed so far are in a block or in the open one, and the blocks
\* end before the next that may be opened.
GroupedInv ==
    /\ pc = "grab" => num_blks = 0
    /\ pc = "group" =>
        /\ Gaps
        /\ \A p \in 1 .. idx - 1 :
            avail[p] => (start # BmemMaxAddr /\ start =< p * PageSize)
                        \/ \E i \in Live : PageInBlk(p, i)
        /\ \A i \in Live :
            blk[i].end < IF start = BmemMaxAddr THEN idx * PageSize ELSE start
    /\ pc = "gauge" =>
        /\ Gaps
        /\ \A p \in Pages \ {0} : avail[p] => \E i \in Live : PageInBlk(p, i)

\* A block that is closed at page n takes in the pages since its start.
LEMMA CloseBlock ==
    ASSUME IInv, GroupedInv, pc = "group", start # BmemMaxAddr,
           NewBlock(start, idx * PageSize), UNCHANGED <<kind, avail>>
    PROVE  /\ Gaps'
           /\ \A p \in 1 .. idx - 1 : avail[p] => \E i \in Live' : PageInBlk(p, i)'
           /\ \A i \in Live' : blk'[i].end =< idx * PageSize
<1>0. /\ PageSize \in Nat \ {0} /\ NPages \in Nat \ {0, 1}
      /\ BmemMaxAddr \in Nat /\ MaxBmemBlks \in Nat
  BY SizeAssumption, PageOrder DEF MaxBmemBlks
<1>1. idx \in Nat /\ idx =< NPages /\ start \in Nat
  BY <1>0 DEF IInv, TypeOK, Addrs
<1>2. PICK k \in 1 .. idx - 1 : start = k * PageSize /\ 2 * num_blks < k
  BY DEF IInv, GroupInv
<1>3. k \in Nat /\ k < idx /\ idx * PageSize \in Nat
  BY <1>1, <1>2, PageOrder
<1>4. start + PageSize =< idx * PageSize
  BY <1>1, <1>2, <1>3, PageOrder
<1>5. num_blks \in Nat /\ num_blks =< MaxBmemBlks - 1
  <2>1. num_blks \in Nat BY DEF IInv, TypeOK
  <2>2. 2 * num_blks < NPages - 1 BY <2>1, <1>1, <1>2, <1>3, <1>0
  <2> QED BY <2>1, <2>2, <1>0 DEF MaxBmemBlks
<1> DEFINE new == [start |-> start, end |-> idx * PageSize, orig_end |-> idx * PageSize]
<1>6. /\ num_blks' = num_blks + 1 /\ blk'[num_blks] = new
      /\ \A i \in Live : blk'[i] = blk[i]
  <2>1. blk \in [0 .. MaxBmemBlks - 1 -> Blocks] BY DEF IInv, TypeOK
  <2>2. blk' = [blk EXCEPT ![num_blks] = new] /\ num_blks' = num_blks + 1
    BY DEF NewBlock
  <2>3. num_blks \in 0 .. MaxBmemBlks - 1 BY <1>5, <1>0
  <2>4. \A i \in Live : i \in 0 .. MaxBmemBlks - 1 /\ i # num_blks
    BY <1>5, <1>0 DEF Live
  <2> HIDE DEF new
  <2> QED BY <2>1, <2>2, <2>3, <2>4
<1>7. Live' = Live \cup {num_blks} /\ num_blks \notin Live /\ \A i \in Live : i < num_blks
  BY <1>5, <1>6 DEF Live
<1>8. \A i \in Live : /\ blk[i].start \in Nat /\ blk[i].end \in Nat /\ blk[i].end < start
                      /\ blk[i].start < blk[i].end /\ blk[i].end = blk[i].orig_end
  <2>1. \A i \in Live : blk[i] \in Blocks
    <3>1. \A i \in Live : i \in 0 .. MaxBmemBlks - 1 BY <1>5, <1>0 DEF Live
    <3> QED BY <3>1 DEF IInv, TypeOK
  <2>2. \A i \in Live : blk[i].start \in Nat /\ blk[i].end \in Nat
    BY <2>1, <1>0 DEF Blocks, Addrs
  <2> QED BY <2>2 DEF GroupedInv, Gaps
<1>9. new.start = start /\ new.end = idx * PageSize /\ new.orig_end = idx * PageSize
  OBVIOUS
<1> HIDE DEF new
<1>10. Gaps'
  <2> SUFFICES ASSUME NEW i \in Live'
               PROVE  /\ blk'[i].start < blk'[i].end /\ blk'[i].end = blk'[i].orig_end
                      /\ \A j \in Live' : i < j => blk'[i].end < blk'[j].start
    BY DEF Gaps
  <2>1. CASE i = num_blks
    <3>1. \A j \in Live' : ~(i < j) BY <2>1, <1>5, <1>7 DEF Live
    <3> QED BY <2>1, <3>1, <1>6, <1>9, <1>4, <1>3, <1>1, <1>0
  <2>2. CASE i \in Live
    <3>1. \A j \in Live : i < j => blk[i].end < blk[j].start BY <2>2 DEF GroupedInv, Gaps
    <3>2. ASSUME NEW j \in Live', i < j PROVE blk'[i].end < blk'[j].start
      <4>1. CASE j \in Live BY <4>1, <3>1, <3>2, <2>2, <1>6
      <4>2. CASE j = num_blks BY <4>2, <2>2, <1>6, <1>8, <1>9
      <4> QED BY <4>1, <4>2, <1>7
    <3> QED BY <3>2, <2>2, <1>6, <1>8
  <2> QED BY <2>1, <2>2, <1>7
<1>11. ASSUME NEW p \in 1 .. idx - 1, avail[p] PROVE \E i \in Live' : PageInBlk(p, i)'
  <2>1. p \in Nat /\ p < idx /\ p * PageSize \in Nat /\ p * PageSize + PageSize =< idx * PageSize
    BY <1>1, PageOrder
  <2>2. CASE start =< p * PageSize
    <3>1. PICK n : n = num_blks OBVIOUS
    <3>2. blk'[n].start = start /\ blk'[n].end = idx * PageSize BY <3>1, <1>6, <1>9
    <3>3. PageInBlk(p, n)'
      BY <3>2, <2>1, <2>2 DEF PageInBlk, Inside, PageArea, Area
    <3> QED BY <3>1, <3>3, <1>7
  <2>3. CASE \E i \in Live : PageInBlk(p, i)
    <3>1. PICK i \in Live : PageInBlk(p, i) BY <2>3
    <3>2. PageInBlk(p, i)' BY <3>1, <1>6 DEF PageInBlk
    <3> QED BY <3>2, <1>7
  <2> QED BY <1>11, <2>2, <2>3 DEF GroupedInv
<1>12. \A i \in Live' : blk'[i].end =< idx * PageSize
  <2> SUFFICES ASSUME NEW i \in Live' PROVE blk'[i].end =< idx * PageSize OBVIOUS
  <2>1. CASE i = num_blks BY <2>1, <1>6, <1>9, <1>3
  <2>2. CASE i \in Live BY <2>2, <1>6, <1>8, <1>4, <1>3, <1>1, <1>0
  <2> QED BY <2>1, <2>2, <1>7
<1> QED BY <1>10, <1>11, <1>12

LEMMA GroupedStep == ASSUME IInv, GroupedInv, [Next]_vars PROVE GroupedInv'
<1>0. /\ PageSize \in Nat \ {0} /\ NPages \in Nat \ {0, 1}
      /\ BmemMaxAddr \in Nat /\ MaxBmemBlks \in Nat
      /\ idx \in Nat /\ idx =< NPages /\ start \in Nat /\ num_blks \in Nat
  BY SizeAssumption, PageOrder DEF MaxBmemBlks, IInv, TypeOK, Addrs
<1>1. CASE GrabSome \/ GrabFail
  <2>1. pc' \in {"grab", "group"} /\ pc = "grab" /\ num_blks' = num_blks /\ idx' = idx /\ start' = start
    BY <1>1, Zenon DEF GrabSome, GrabFail, allocVars
  <2>2. num_blks = 0 /\ idx = 1 BY <2>1 DEF IInv, GrabInv
  <2>3. Live' = {} /\ 1 .. idx' - 1 = {}
    <3>1. 0 .. -1 = {} /\ 1 .. 0 = {} OBVIOUS
    <3>2. num_blks' - 1 = -1 /\ idx' - 1 = 0 BY <2>1, <2>2
    <3> QED BY <3>1, <3>2 DEF Live
  <2> QED BY <2>1, <2>2, <2>3 DEF GroupedInv, Gaps
<1>2. CASE GroupAvail
  <2>1. /\ pc = "group" /\ pc' = "group" /\ idx < NPages /\ avail[idx] /\ idx' = idx + 1
        /\ start' = IF start = BmemMaxAddr THEN idx * PageSize ELSE start
        /\ UNCHANGED <<avail, blk, num_blks>>
    BY <1>2 DEF GroupAvail, allocVars
  <2>2. Live' = Live /\ idx >= 1 BY <2>1 DEF Live, IInv, GroupInv
  <2>3. Gaps' BY <2>1, <2>2 DEF GroupedInv, Gaps
  <2>4. start' # BmemMaxAddr /\ start' =< idx * PageSize /\ idx * PageSize \in Nat
    <3>1. idx * PageSize + PageSize =< NPages * PageSize /\ idx * PageSize \in Nat
      BY <2>1, <1>0, PageOrder
    <3>2. idx * PageSize # BmemMaxAddr /\ idx * PageSize < BmemMaxAddr BY <3>1, <1>0 DEF BmemMaxAddr
    <3>3. CASE start = BmemMaxAddr BY <3>3, <3>1, <3>2, <2>1
    <3>4. CASE start # BmemMaxAddr
      <4>1. PICK k \in 1 .. idx - 1 : start = k * PageSize BY <3>4, <2>1 DEF IInv, GroupInv
      <4>2. start + PageSize =< idx * PageSize BY <4>1, <1>0, PageOrder
      <4> QED BY <4>2, <3>1, <3>4, <2>1, <1>0
    <3> QED BY <3>3, <3>4
  <2>5. ASSUME NEW p \in 1 .. idx' - 1, avail[p]
        PROVE  start' =< p * PageSize \/ \E i \in Live : PageInBlk(p, i)
    <3>1. CASE p = idx BY <3>1, <2>4
    <3>2. CASE p \in 1 .. idx - 1
      <4>1. (start # BmemMaxAddr /\ start =< p * PageSize) \/ \E i \in Live : PageInBlk(p, i)
        BY <3>2, <2>5, <2>1 DEF GroupedInv
      <4> QED BY <4>1, <2>1
    <3> QED BY <3>1, <3>2, <2>1, <1>0
  <2>6. \A i \in Live : blk[i].end < start'
    BY <2>1 DEF GroupedInv
  <2>7. \A p, i : PageInBlk(p, i)' <=> PageInBlk(p, i) BY <2>1 DEF PageInBlk
  <2>8. \A p \in 1 .. idx' - 1 : avail'[p] =>
            (start' # BmemMaxAddr /\ start' =< p * PageSize) \/ \E i \in Live' : PageInBlk(p, i)'
    BY <2>1, <2>2, <2>4, <2>5, <2>7
  <2>9. \A i \in Live' : blk'[i].end < IF start' = BmemMaxAddr THEN idx' * PageSize ELSE start'
    BY <2>1, <2>2, <2>4, <2>6
  <2> QED BY <2>1, <2>3, <2>8, <2>9 DEF GroupedInv
<1>3. CASE GroupUnavail
  <2>1. /\ pc = "group" /\ pc' = "group" /\ idx < NPages /\ ~avail[idx] /\ idx' = idx + 1
        /\ start' = BmemMaxAddr /\ UNCHANGED <<kind, avail>>
    BY <1>3 DEF GroupUnavail
  <2>2. /\ idx >= 1 /\ idx * PageSize \in Nat /\ idx' * PageSize \in Nat
        /\ idx * PageSize + PageSize =< idx' * PageSize
    BY <2>1, <1>0, PageOrder DEF IInv, GroupInv
  <2>3. /\ Gaps'
        /\ \A p \in 1 .. idx - 1 : avail[p] => \E i \in Live' : PageInBlk(p, i)'
        /\ \A i \in Live' : blk'[i].end =< idx * PageSize
    <3>1. CASE start # BmemMaxAddr
      BY <3>1, <1>3, <2>1, CloseBlock DEF GroupUnavail
    <3>2. CASE start = BmemMaxAddr
      <4>1. UNCHANGED <<blk, num_blks>> BY <3>2, <1>3 DEF GroupUnavail, allocVars
      <4>2. Live' = Live BY <4>1 DEF Live
      <4>3. Gaps' BY <4>1, <4>2, <2>1 DEF GroupedInv, Gaps
      <4>4. \A p, i : PageInBlk(p, i)' <=> PageInBlk(p, i) BY <4>1 DEF PageInBlk
      <4>5. \A p \in 1 .. idx - 1 : avail[p] => \E i \in Live' : PageInBlk(p, i)'
        BY <4>2, <4>4, <3>2, <2>1 DEF GroupedInv
      <4>6. \A i \in Live : blk[i].end =< idx * PageSize
        BY <3>2, <2>1 DEF IInv, GroupInv, GroupedInv, Gaps
      <4> QED BY <4>1, <4>2, <4>3, <4>5, <4>6
    <3> QED BY <3>1, <3>2
  <2>4. \A i \in Live' : blk'[i].end < idx' * PageSize
    <3>1. blk' \in [0 .. MaxBmemBlks - 1 -> Blocks] /\ num_blks' \in 0 .. MaxBmemBlks
      <4>1. IInv' BY <1>3, InitStepInv DEF InitStep
      <4> QED BY <4>1 DEF IInv, TypeOK
    <3>2. \A i \in Live' : i \in 0 .. MaxBmemBlks - 1
      <4>1. PICK m \in 0 .. MaxBmemBlks : m = num_blks' BY <3>1
      <4>2. \A i \in 0 .. m - 1 : i \in 0 .. MaxBmemBlks - 1 BY <1>0
      <4> QED BY <4>1, <4>2 DEF Live
    <3>3. \A i \in Live' : blk'[i].end \in Nat BY <3>1, <3>2, <1>0 DEF Blocks, Addrs
    <3> QED BY <3>3, <2>2, <2>3, <1>0
  <2>5. \A p \in 1 .. idx' - 1 : avail'[p] => p \in 1 .. idx - 1 /\ avail[p]
    BY <2>1, <1>0
  <2> QED BY <2>1, <2>3, <2>4, <2>5 DEF GroupedInv
<1>4. CASE GroupEnd
  <2>1. /\ pc = "group" /\ pc' = "gauge" /\ idx = NPages /\ UNCHANGED <<kind, avail>>
    BY <1>4 DEF GroupEnd, initVars
  <2>2. /\ Gaps'
        /\ \A p \in 1 .. idx - 1 : avail[p] => \E i \in Live' : PageInBlk(p, i)'
    <3>1. CASE start # BmemMaxAddr
      BY <3>1, <1>4, <2>1, CloseBlock DEF GroupEnd
    <3>2. CASE start = BmemMaxAddr
      <4>1. UNCHANGED <<blk, num_blks>> BY <3>2, <1>4 DEF GroupEnd, allocVars
      <4>2. Live' = Live BY <4>1 DEF Live
      <4>3. Gaps' BY <4>1, <4>2, <2>1 DEF GroupedInv, Gaps
      <4>4. \A p, i : PageInBlk(p, i)' <=> PageInBlk(p, i) BY <4>1 DEF PageInBlk
      <4>5. \A p \in 1 .. idx - 1 : avail[p] => \E i \in Live' : PageInBlk(p, i)'
        BY <4>2, <4>4, <3>2, <2>1 DEF GroupedInv
      <4> QED BY <4>3, <4>5
    <3> QED BY <3>1, <3>2
  <2>3. \A p \in Pages \ {0} : p \in 1 .. idx - 1 BY <2>1, <1>0 DEF Pages
  <2> QED BY <2>1, <2>2, <2>3 DEF GroupedInv
<1>5. CASE UNCHANGED vars
  <2>1. UNCHANGED <<pc, num_blks, blk, avail, idx, start>> BY <1>5 DEF vars, initVars, allocVars
  <2>2. Live' = Live BY <2>1 DEF Live
  <2>3. Gaps' <=> Gaps BY <2>1, <2>2 DEF Gaps
  <2>4. \A p, i : PageInBlk(p, i)' <=> PageInBlk(p, i) BY <2>1 DEF PageInBlk
  <2> QED BY <2>1, <2>2, <2>3, <2>4 DEF GroupedInv
<1>6. CASE Gauge \/ UseStep \/ FiniStep \/ Stopped
  <2>1. pc' \notin {"grab", "group", "gauge"}
    <3>1. CASE Gauge BY <3>1 DEF Gauge
    <3>2. CASE UseStep
      BY <3>2 DEF UseStep, BmemAlloc, BmemAllocError, BmemAllocBoottime, BmemAllocBoottimeError
    <3>3. CASE FiniStep
      BY <3>3 DEF FiniStep, BmemFini, AddUefiMemBparm, AddBaseBparm, SkipLowBlks,
                  AddBlkFreeBparm, AddBlkUsedBparm, FiniDone, BparmAddMemRange
    <3>4. CASE Stopped BY <3>4 DEF Stopped, vars
    <3> QED BY <1>6, <3>1, <3>2, <3>3, <3>4
  <2> QED BY <2>1 DEF GroupedInv
<1> QED BY <1>1, <1>2, <1>3, <1>4, <1>5, <1>6 DEF Next, Work, InitStep

\* The loop at bmem.c:194-217 puts each page that was grabbed in a block, no
\* other, and makes as few blocks as there can be.
THEOREM GroupingExact == Spec => []GroupsExactly
<1>1. Init => GroupedInv
  <2> SUFFICES ASSUME Init PROVE GroupedInv OBVIOUS
  <2>1. pc = "grab" /\ num_blks = 0 BY DEF Init
  <2> QED BY <2>1 DEF GroupedInv
<1>2. IInv /\ GroupedInv /\ [Next]_vars => GroupedInv' BY GroupedStep
<1>3. IInv /\ GroupedInv => GroupsExactly
  <2> SUFFICES ASSUME IInv, GroupedInv, pc = "gauge" PROVE GroupsExactly
    BY DEF GroupsExactly
  <2>0. PageSize \in Nat \ {0} /\ BmemMaxAddr \in Nat /\ MaxBmemBlks \in Nat
    BY SizeAssumption, PageOrder DEF MaxBmemBlks
  <2>1. \A i \in Live : blk[i] \in Blocks
    <3>1. \A i \in Live : i \in 0 .. MaxBmemBlks - 1 BY <2>0 DEF Live, IInv, TypeOK
    <3> QED BY <3>1 DEF IInv, TypeOK
  <2>2. \A i \in Live : blk[i].start \in Nat /\ blk[i].end \in Nat /\ blk[i].orig_end \in Nat
    BY <2>1, <2>0 DEF Blocks, Addrs
  <2>3. ASSUME NEW p \in Pages \ {0}, kind[p] = "ours" PROVE \E i \in Live : PageInBlk(p, i)
    <3>1. avail[p] BY <2>3 DEF IInv, EarlyInv
    <3> QED BY <3>1 DEF GroupedInv
  <2>4. ASSUME NEW p \in Pages \ {0}, NEW i \in Live, PageInBlk(p, i) PROVE kind[p] = "ours"
    <3>1. blk[i].start =< p * PageSize /\ p * PageSize + PageSize =< blk[i].end
      BY <2>4 DEF PageInBlk, Inside, PageArea, Area
    <3>2. p * PageSize \in Nat BY PageOrder DEF Pages
    <3>3. blk[i].end = blk[i].orig_end BY DEF GroupedInv, Gaps
    <3>4. blk[i].start < p * PageSize + PageSize /\ p * PageSize < blk[i].orig_end
      BY <3>1, <3>2, <3>3, <2>0, <2>2
    <3> QED BY <3>4 DEF IInv, AllocInv, BlkOurs
  <2>5. ASSUME NEW i \in Live PROVE ~Overlap(blk[i], PageArea(0))
    <3>1. PageSize =< blk[i].start BY DEF IInv, AllocInv, BlkOrder
    <3> QED BY <3>1, <2>0, <2>2, PageOrder DEF Overlap, PageArea, Area
  <2> QED BY <2>3, <2>4, <2>5 DEF GroupsExactly, GroupedInv, Gaps, PageInBlk
<1> QED BY <1>1, <1>2, <1>3, Inductive, PTL DEF Spec

-----------------------------------------------------------------------------
(***************************************************************************)
(* The report of memory ranges.                                            *)
(***************************************************************************)
\* The first block that add_our_mem_bparms() has not come to.
From == IF pc = "used" THEN blk_idx + 1 ELSE blk_idx

ApartInv ==
    /\ RamApart
    /\ pc \in {"grab", "group", "gauge", "run", "uefi"} =>
        \A k \in 1 .. Len(mrngs) : mrngs[k].type # "RAM"
    /\ pc = "skip" =>
        \A k \in 1 .. Len(mrngs) : mrngs[k].type = "RAM" => mrngs[k].end =< runtime_bmem_top
    /\ pc \in {"ours", "used"} =>
        \A j \in Live : j >= From =>
            /\ blk[j].start >= runtime_bmem_top
            /\ \A k \in 1 .. Len(mrngs) :
                mrngs[k].type = "RAM" => mrngs[k].end =< blk[j].start

\* Page p is inside a range of m that is reported as reserved.
ReservedIn(m, p) ==
    \E k \in 1 .. Len(m) : m[k].type = "RESERVED" /\ Inside(PageArea(p), m[k])

PassedInv ==
    /\ pc \in {"uefi", "skip", "ours", "used", "done"} =>
        \A p \in Pages : p < idx /\ kind[p] \in {"ours", "resv"} => ReservedIn(mrngs, p)
    /\ pc \in {"skip", "ours", "used", "done"} => idx = NPages

Appended(a, r, b) ==
    /\ Len(b) = Len(a) + 1 /\ b[Len(a) + 1] = r
    /\ \A k \in 1 .. Len(a) : b[k] = a[k]

\* bparm_add_mem_range() adds nothing, or one range and a node, or stops.
LEMMA BparmAdds ==
    ASSUME IInv, NEW s, NEW e, NEW type, NEW next, BparmAddMemRange(s, e, type, next)
    PROVE  \/ pc' = next /\ s = e /\ UNCHANGED <<allocVars, mrngs>>
           \/ /\ pc' = next /\ s # e
              /\ Appended(mrngs, [start |-> s, end |-> e, type |-> type], mrngs')
              /\ \E i \in Live : BootOK(i, NodeReq) /\ TakeBoottime(i, NodeReq)
           \/ pc' = "error" /\ UNCHANGED mrngs
<1> DEFINE r == [start |-> s, end |-> e, type |-> type]
<1>1. mrngs \in Seq(MemRanges) BY DEF IInv, TypeOK
<1>2. ASSUME mrngs' = Append(mrngs, r) PROVE Appended(mrngs, r, mrngs')
  <2> HIDE DEF r
  <2> QED BY <1>1, <1>2 DEF Appended
<1> HIDE DEF r
<1>3. \/ pc' = next /\ s = e /\ UNCHANGED <<allocVars, mrngs>>
      \/ /\ pc' = next /\ s # e /\ mrngs' = Append(mrngs, r)
         /\ \E i \in Live : BootOK(i, NodeReq) /\ TakeBoottime(i, NodeReq)
      \/ pc' = "error" /\ UNCHANGED mrngs
  BY Zenon DEF BparmAddMemRange, r
<1> QED BY <1>2, <1>3 DEF r

\* What can be in a list that has been added to.
LEMMA AppendedIs ==
    ASSUME NEW a, NEW b, NEW r, Len(a) \in Nat, Appended(a, r, b)
    PROVE  /\ \A k \in 1 .. Len(b) : (k \in 1 .. Len(a) /\ b[k] = a[k])
                                     \/ (k = Len(a) + 1 /\ b[k] = r)
           /\ \A p : ReservedIn(a, p) => ReservedIn(b, p)
           /\ \A p : r.type = "RESERVED" /\ Inside(PageArea(p), r) => ReservedIn(b, p)
<1>1. Len(b) = Len(a) + 1 /\ b[Len(a) + 1] = r /\ \A k \in 1 .. Len(a) : b[k] = a[k]
  BY DEF Appended
<1>2. \A k \in 1 .. Len(b) : k \in 1 .. Len(a) \/ k = Len(a) + 1 BY <1>1
<1>3. Len(a) + 1 \in 1 .. Len(b) /\ 1 .. Len(a) \subseteq 1 .. Len(b) BY <1>1
<1>4. ASSUME NEW p, ReservedIn(a, p) PROVE ReservedIn(b, p)
  BY <1>4, <1>1, <1>3 DEF ReservedIn
<1>5. ASSUME NEW p, r.type = "RESERVED" /\ Inside(PageArea(p), r) PROVE ReservedIn(b, p)
  BY <1>5, <1>1, <1>3 DEF ReservedIn
<1> QED BY <1>1, <1>2, <1>4, <1>5

LEMMA BlkNumbers ==
    ASSUME IInv, NEW i \in Live
    PROVE  /\ i \in 0 .. MaxBmemBlks - 1 /\ num_blks \in Nat /\ i \in Nat
           /\ blk[i].start \in Nat /\ blk[i].end \in Nat /\ blk[i].orig_end \in Nat
           /\ blk[i].start =< blk[i].end /\ blk[i].end =< blk[i].orig_end
           /\ \A j \in Live : i < j => blk[i].orig_end =< blk[j].start
<1>0. BmemMaxAddr \in Nat /\ MaxBmemBlks \in Nat
  BY SizeAssumption, PageOrder DEF MaxBmemBlks
<1>1. i \in 0 .. MaxBmemBlks - 1 /\ num_blks \in Nat /\ i \in Nat
  BY <1>0 DEF Live, IInv, TypeOK
<1>2. blk[i] \in Blocks BY <1>1 DEF IInv, TypeOK
<1>3. blk[i].start \in Nat /\ blk[i].end \in Nat /\ blk[i].orig_end \in Nat
  BY <1>2, <1>0 DEF Blocks, Addrs
<1> QED BY <1>1, <1>3 DEF IInv, AllocInv, BlkOrder

\* A node is taken from below runtime_bmem_top; blocks above it at most move
\* down in the array.
LEMMA TakenBelow ==
    ASSUME IInv, NEW n \in Nat, \A j \in Live : j >= n => blk[j].start >= runtime_bmem_top,
           NEW i \in Live, BootOK(i, NodeReq), TakeBoottime(i, NodeReq)
    PROVE  /\ runtime_bmem_top' = runtime_bmem_top
           /\ \A j \in Live' : j >= n => \E l \in Live : l >= j /\ blk'[j] = blk[l]
<1>0. runtime_bmem_top \in Nat
  BY PageOrder DEF IInv, TypeOK, Addrs
<1>1. i \in Nat /\ num_blks \in Nat /\ blk[i].start \in Nat BY BlkNumbers
<1>2. i < n
  <2>1. BootStart(i, NodeReq) < runtime_bmem_top /\ BootStart(i, NodeReq) \in Nat
        /\ blk[i].start =< BootStart(i, NodeReq)
    BY <1>1, RequestAssumption, AlignUpBounds DEF BootOK, BootStart, NodeReq
  <2>2. ~(blk[i].start >= runtime_bmem_top) BY <2>1, <1>0, <1>1
  <2> QED BY <2>2, <1>1
<1>3. runtime_bmem_top' = runtime_bmem_top BY DEF TakeBoottime
<1>4. blk \in [0 .. MaxBmemBlks - 1 -> Blocks] BY DEF IInv, TypeOK
<1> DEFINE aend == BootStart(i, NodeReq) + NodeReq.size
<1>5. IF aend # blk[i].end
      THEN blk' = [blk EXCEPT ![i].start = aend] /\ num_blks' = num_blks
      ELSE /\ blk' = [j \in DOMAIN blk |->
                        IF j \in i .. num_blks - 2 THEN blk[j + 1] ELSE blk[j]]
           /\ num_blks' = num_blks - 1
  BY DEF TakeBoottime
<1> HIDE DEF aend
<1>6. ASSUME NEW j \in Live', j >= n PROVE \E l \in Live : l >= j /\ blk'[j] = blk[l]
  <2>1. CASE aend # blk[i].end
    <3>1. j \in Live /\ j # i BY <2>1, <1>1, <1>2, <1>5, <1>6 DEF Live
    <3>2. j \in 0 .. MaxBmemBlks - 1 /\ j \in Nat BY <3>1, BlkNumbers
    <3>3. blk'[j] = blk[j] BY <3>1, <3>2, <2>1, <1>4, <1>5
    <3> QED BY <3>1, <3>2, <3>3
  <2>2. CASE aend = blk[i].end
    <3>1. j \in 0 .. num_blks - 2 /\ j >= i BY <2>2, <1>1, <1>2, <1>5, <1>6 DEF Live
    <3>2. j \in Live /\ j + 1 \in Live /\ j \in i .. num_blks - 2 BY <3>1, <1>1 DEF Live
    <3>3. j \in DOMAIN blk BY <3>2, <1>4, BlkNumbers
    <3>4. blk'[j] = blk[j + 1] BY <3>2, <3>3, <2>2, <1>5
    <3> QED BY <3>1, <3>2, <3>4
  <2> QED BY <2>1, <2>2
<1> QED BY <1>3, <1>6

\* A range reported as reserved, or none, keeps the RAM apart from the blocks
\* to come.
LEMMA ApartKept ==
    ASSUME IInv, NEW n \in Nat, NEW r, r.type # "RAM",
           \A j \in Live : j >= n =>
                /\ blk[j].start >= runtime_bmem_top
                /\ \A k \in 1 .. Len(mrngs) :
                    mrngs[k].type = "RAM" => mrngs[k].end =< blk[j].start,
           \/ UNCHANGED <<allocVars, mrngs>>
           \/ /\ Appended(mrngs, r, mrngs')
              /\ \E i \in Live : BootOK(i, NodeReq) /\ TakeBoottime(i, NodeReq)
    PROVE  \A j \in Live' : j >= n =>
                /\ blk'[j].start >= runtime_bmem_top'
                /\ \A k \in 1 .. Len(mrngs') :
                    mrngs'[k].type = "RAM" => mrngs'[k].end =< blk'[j].start
<1>0. Len(mrngs) \in Nat BY DEF IInv, TypeOK
<1>1. CASE UNCHANGED <<allocVars, mrngs>>
  <2>1. UNCHANGED <<blk, num_blks, runtime_bmem_top, mrngs>> BY <1>1 DEF allocVars
  <2> QED BY <2>1 DEF Live
<1>2. CASE /\ Appended(mrngs, r, mrngs')
           /\ \E i \in Live : BootOK(i, NodeReq) /\ TakeBoottime(i, NodeReq)
  <2> SUFFICES ASSUME NEW j \in Live', j >= n
               PROVE  /\ blk'[j].start >= runtime_bmem_top'
                      /\ \A k \in 1 .. Len(mrngs') :
                          mrngs'[k].type = "RAM" => mrngs'[k].end =< blk'[j].start
    OBVIOUS
  <2>1. runtime_bmem_top' = runtime_bmem_top /\ \E l \in Live : l >= j /\ blk'[j] = blk[l]
    BY <1>2, TakenBelow
  <2>2. PICK l \in Live : l >= j /\ blk'[j] = blk[l] BY <2>1
  <2>3. l >= n
    <3>1. l \in Nat BY BlkNumbers
    <3>2. j \in Int BY DEF Live
    <3> QED BY <3>1, <3>2, <2>2
  <2>4. \A k \in 1 .. Len(mrngs') : mrngs'[k].type = "RAM" =>
            k \in 1 .. Len(mrngs) /\ mrngs'[k] = mrngs[k]
    BY <1>0, <1>2, AppendedIs
  <2> QED BY <2>1, <2>2, <2>3, <2>4
<1> QED BY <1>1, <1>2

LEMMA ApartSame ==
    ASSUME IInv, RamApart, NEW r, r.type # "RAM",
           mrngs' = mrngs \/ Appended(mrngs, r, mrngs')
    PROVE  /\ RamApart'
           /\ \A k \in 1 .. Len(mrngs') : mrngs'[k].type = "RAM" =>
                k \in 1 .. Len(mrngs) /\ mrngs'[k] = mrngs[k]
<1>0. Len(mrngs) \in Nat BY DEF IInv, TypeOK
<1>1. \A k \in 1 .. Len(mrngs') : mrngs'[k].type = "RAM" =>
            k \in 1 .. Len(mrngs) /\ mrngs'[k] = mrngs[k]
  BY <1>0, AppendedIs
<1> QED BY <1>1 DEF RamApart

\* A range r of RAM that starts where those before it have ended.
LEMMA ApartAdded ==
    ASSUME IInv, RamApart, NEW r, r.start \in Nat, r.end \in Nat,
           Appended(mrngs, r, mrngs'),
           \A k \in 1 .. Len(mrngs) : mrngs[k].type = "RAM" => mrngs[k].end =< r.start
    PROVE  RamApart'
<1>0. Len(mrngs) \in Nat /\ mrngs \in Seq(MemRanges) /\ BmemMaxAddr \in Nat
  BY PageOrder DEF IInv, TypeOK
<1>1. \A k \in 1 .. Len(mrngs) : mrngs[k].start \in Nat /\ mrngs[k].end \in Nat
  <2>1. \A k \in 1 .. Len(mrngs) : mrngs[k] \in MemRanges BY <1>0
  <2> QED BY <2>1, <1>0 DEF MemRanges, Addrs
<1>2. \A k \in 1 .. Len(mrngs) : mrngs[k].type = "RAM" =>
            ~Overlap(mrngs[k], r) /\ ~Overlap(r, mrngs[k])
  BY <1>1 DEF Overlap
<1>3. \A k \in 1 .. Len(mrngs') : (k \in 1 .. Len(mrngs) /\ mrngs'[k] = mrngs[k])
                                  \/ (k = Len(mrngs) + 1 /\ mrngs'[k] = r)
  BY <1>0, AppendedIs
<1> SUFFICES ASSUME NEW k \in 1 .. Len(mrngs'), NEW l \in 1 .. Len(mrngs'), k # l,
                    mrngs'[k].type = "RAM", mrngs'[l].type = "RAM"
             PROVE  ~Overlap(mrngs'[k], mrngs'[l])
  BY DEF RamApart
<1>4. CASE k \in 1 .. Len(mrngs) /\ l \in 1 .. Len(mrngs)
  <2>1. mrngs'[k] = mrngs[k] /\ mrngs'[l] = mrngs[l] BY <1>4, <1>3, <1>0
  <2> QED BY <2>1, <1>4 DEF RamApart
<1>5. CASE k = Len(mrngs) + 1 /\ l \in 1 .. Len(mrngs)
  <2>1. mrngs'[k] = r /\ mrngs'[l] = mrngs[l] BY <1>5, <1>3, <1>0
  <2> QED BY <2>1, <1>5, <1>2
<1>6. CASE k \in 1 .. Len(mrngs) /\ l = Len(mrngs) + 1
  <2>1. mrngs'[k] = mrngs[k] /\ mrngs'[l] = r BY <1>6, <1>3, <1>0
  <2> QED BY <2>1, <1>6, <1>2
<1> QED BY <1>3, <1>4, <1>5, <1>6

LEMMA ApartStep == ASSUME IInv, ApartInv, [Next]_vars PROVE ApartInv'
<1>0. /\ runtime_bmem_top \in Nat /\ num_blks \in Nat /\ blk_idx \in Nat
      /\ Len(mrngs) \in Nat /\ BmemMaxAddr \in Nat
  BY PageOrder DEF IInv, TypeOK, Addrs
<1>1. CASE UNCHANGED vars
  <2>1. UNCHANGED <<pc, blk, num_blks, runtime_bmem_top, blk_idx, mrngs>>
    BY <1>1 DEF vars, allocVars
  <2>2. Live' = Live /\ From' = From BY <2>1 DEF Live, From
  <2> QED BY <2>1, <2>2 DEF ApartInv, RamApart
\* Until bmem_fini() nothing is reported.
<1>2. CASE InitStep \/ UseStep \/ BmemFini
  <2>1. /\ mrngs' = mrngs /\ pc' \notin {"skip", "ours", "used"}
        /\ pc \in {"grab", "group", "gauge", "run"}
    <3>1. CASE InitStep
      BY <3>1 DEF InitStep, GrabSome, GrabFail, GroupAvail, GroupUnavail, GroupEnd, Gauge
    <3>2. CASE UseStep
      BY <3>2 DEF UseStep, BmemAlloc, BmemAllocError, BmemAllocBoottime, BmemAllocBoottimeError
    <3>3. CASE BmemFini BY <3>3 DEF BmemFini
    <3> QED BY <1>2, <3>1, <3>2, <3>3
  <2> QED BY <2>1 DEF ApartInv, RamApart
<1>3. CASE AddUefiMemBparm
  <2>1. /\ pc = "uefi"
        /\ \E e \in idx + 1 .. NPages :
            IF kind[idx] \in FreedKinds
            THEN UNCHANGED <<pc, allocVars, mrngs>>
            ELSE BparmAddMemRange(idx * PageSize, e * PageSize, "RESERVED", "uefi")
    BY <1>3 DEF AddUefiMemBparm
  <2>2. PICK e : \/ UNCHANGED <<pc, allocVars, mrngs>>
                 \/ BparmAddMemRange(idx * PageSize, e * PageSize, "RESERVED", "uefi")
    BY <2>1
  <2> DEFINE r == [start |-> idx * PageSize, end |-> e * PageSize, type |-> "RESERVED"]
  <2>3. pc' \in {"uefi", "error"} /\ (mrngs' = mrngs \/ Appended(mrngs, r, mrngs'))
    <3>1. CASE UNCHANGED <<pc, allocVars, mrngs>> BY <3>1, <2>1
    <3>2. CASE BparmAddMemRange(idx * PageSize, e * PageSize, "RESERVED", "uefi")
      BY <3>2, BparmAdds
    <3> QED BY <2>2, <3>1, <3>2
  <2>4. r.type # "RAM" OBVIOUS
  <2> HIDE DEF r
  <2>5. /\ RamApart'
        /\ \A k \in 1 .. Len(mrngs') : mrngs'[k].type = "RAM" =>
             k \in 1 .. Len(mrngs) /\ mrngs'[k] = mrngs[k]
    BY <2>3, <2>4, ApartSame DEF ApartInv
  <2>6. \A k \in 1 .. Len(mrngs) : mrngs[k].type # "RAM" BY <2>1 DEF ApartInv
  <2>7. \A k \in 1 .. Len(mrngs') : mrngs'[k].type # "RAM" BY <2>5, <2>6
  <2> QED BY <2>3, <2>5, <2>7 DEF ApartInv
<1>4. CASE AddBaseBparm
  <2>1. pc = "uefi" /\ BparmAddMemRange(0, runtime_bmem_top, "RAM", "skip")
    BY <1>4 DEF AddBaseBparm
  <2> DEFINE r == [start |-> 0, end |-> runtime_bmem_top, type |-> "RAM"]
  <2>2. \/ pc' = "skip" /\ UNCHANGED <<allocVars, mrngs>>
        \/ /\ pc' = "skip" /\ Appended(mrngs, r, mrngs')
           /\ \E i \in Live : TakeBoottime(i, NodeReq)
        \/ pc' = "error" /\ UNCHANGED mrngs
    BY <2>1, BparmAdds
  <2>3. r.start = 0 /\ r.end = runtime_bmem_top OBVIOUS
  <2> HIDE DEF r
  <2>4. \A k \in 1 .. Len(mrngs) : mrngs[k].type # "RAM" BY <2>1 DEF ApartInv
  <2>5. CASE UNCHANGED mrngs
    BY <2>5, <2>2, <2>4 DEF ApartInv, RamApart
  <2>6. CASE /\ pc' = "skip" /\ Appended(mrngs, r, mrngs')
             /\ \E i \in Live : TakeBoottime(i, NodeReq)
    <3>1. runtime_bmem_top' = runtime_bmem_top BY <2>6 DEF TakeBoottime
    <3>2. RamApart' BY <2>3, <2>4, <2>6, <1>0, ApartAdded DEF ApartInv
    <3>3. \A k \in 1 .. Len(mrngs') : (k \in 1 .. Len(mrngs) /\ mrngs'[k] = mrngs[k])
                                      \/ (k = Len(mrngs) + 1 /\ mrngs'[k] = r)
      BY <2>6, <1>0, AppendedIs
    <3>4. \A k \in 1 .. Len(mrngs') : mrngs'[k].type = "RAM" => mrngs'[k].end =< runtime_bmem_top
      <4>1. runtime_bmem_top =< runtime_bmem_top BY <1>0
      <4> QED BY <4>1, <3>3, <2>3, <2>4
    <3> QED BY <3>1, <3>2, <3>4, <2>6 DEF ApartInv
  <2> QED BY <2>2, <2>5, <2>6 DEF allocVars
<1>5. CASE SkipLowBlks
  <2>1. /\ pc = "skip" /\ pc' = "ours"
        /\ UNCHANGED <<blk, num_blks, runtime_bmem_top, mrngs>>
    BY <1>5 DEF SkipLowBlks, allocVars
  <2>2. PICK n \in 0 .. num_blks :
          /\ n < num_blks => blk[n].start >= runtime_bmem_top
          /\ blk_idx' = n
    BY <1>5 DEF SkipLowBlks
  <2>3. Live' = Live /\ From' = n BY <2>1, <2>2 DEF Live, From
  <2>4. ASSUME NEW j \in Live, j >= n PROVE blk[j].start >= runtime_bmem_top
    <3>1. j \in Nat /\ blk[j].start \in Nat /\ j < num_blks BY BlkNumbers, <1>0 DEF Live
    <3>2. n \in Live BY <3>1, <2>2, <2>4, <1>0 DEF Live
    <3>3. CASE j = n BY <3>3, <2>2, <3>1
    <3>4. CASE n < j
      <4>1. /\ blk[n].start \in Nat /\ blk[n].end \in Nat /\ blk[n].orig_end \in Nat
            /\ blk[n].start =< blk[n].end /\ blk[n].end =< blk[n].orig_end
            /\ blk[n].orig_end =< blk[j].start
        BY <3>2, <3>4, BlkNumbers
      <4>2. blk[n].start >= runtime_bmem_top
        <5>1. n < num_blks BY <3>1, <3>4, <1>0
        <5> QED BY <5>1, <2>2
      <4> QED BY <4>1, <4>2, <3>1, <1>0
    <3> QED BY <3>1, <3>3, <3>4, <2>2, <2>4, <1>0
  <2>5. ASSUME NEW j \in Live, j >= n, NEW k \in 1 .. Len(mrngs), mrngs[k].type = "RAM"
        PROVE  mrngs[k].end =< blk[j].start
    <3>1. mrngs[k].end =< runtime_bmem_top BY <2>1, <2>5 DEF ApartInv
    <3>2. mrngs[k].end \in Nat
      <4>1. mrngs[k] \in MemRanges BY DEF IInv, TypeOK
      <4> QED BY <4>1, <1>0 DEF MemRanges, Addrs
    <3>3. blk[j].start \in Nat BY BlkNumbers
    <3> QED BY <3>1, <3>2, <3>3, <2>4, <2>5, <1>0
  <2>6. \A j \in Live' : j >= From' =>
            /\ blk'[j].start >= runtime_bmem_top'
            /\ \A k \in 1 .. Len(mrngs') :
                mrngs'[k].type = "RAM" => mrngs'[k].end =< blk'[j].start
    BY <2>1, <2>3, <2>4, <2>5
  <2>7. RamApart' BY <2>1 DEF ApartInv, RamApart
  <2> QED BY <2>1, <2>6, <2>7 DEF ApartInv
<1>6. CASE AddBlkFreeBparm
  <2> DEFINE b == blk_idx
             r == [start |-> blk[b].start, end |-> blk[b].end, type |-> "RAM"]
  <2>1. /\ pc = "ours" /\ b < num_blks /\ blk_idx' = blk_idx
        /\ BparmAddMemRange(blk[b].start, blk[b].end, "RAM", "used")
    BY <1>6 DEF AddBlkFreeBparm
  <2>2. \/ pc' = "used" /\ UNCHANGED <<allocVars, mrngs>>
        \/ /\ pc' = "used" /\ Appended(mrngs, r, mrngs')
           /\ \E i \in Live : BootOK(i, NodeReq) /\ TakeBoottime(i, NodeReq)
        \/ pc' = "error" /\ UNCHANGED mrngs
    BY <2>1, BparmAdds
  <2>3. b \in Live /\ b \in Nat BY <2>1, <1>0 DEF Live
  <2>4. r.start = blk[b].start /\ r.end = blk[b].end OBVIOUS
  <2>5. /\ blk[b].start \in Nat /\ blk[b].end \in Nat /\ blk[b].orig_end \in Nat
        /\ blk[b].end =< blk[b].orig_end
        /\ \A j \in Live : b < j => blk[b].orig_end =< blk[j].start
    BY <2>3, BlkNumbers
  <2>6. From = b BY <2>1 DEF From
  <2> HIDE DEF b, r
  <2>7. \A j \in Live : j >= b =>
            /\ blk[j].start >= runtime_bmem_top
            /\ \A k \in 1 .. Len(mrngs) :
                mrngs[k].type = "RAM" => mrngs[k].end =< blk[j].start
    BY <2>1, <2>6 DEF ApartInv
  <2>8. CASE pc' = "error" /\ UNCHANGED mrngs BY <2>8 DEF ApartInv, RamApart
  <2>9. CASE pc' = "used" /\ UNCHANGED <<allocVars, mrngs>>
    <3>1. UNCHANGED <<blk, num_blks, runtime_bmem_top, mrngs>> BY <2>9 DEF allocVars
    <3>2. Live' = Live /\ From' = b + 1 BY <3>1, <2>9, <2>1 DEF Live, From, b
    <3>3. RamApart' BY <3>1 DEF ApartInv, RamApart
    <3>4. \A j \in Live : j >= b + 1 => j >= b BY <2>3 DEF Live
    <3>5. \A j \in Live' : j >= From' =>
              /\ blk'[j].start >= runtime_bmem_top'
              /\ \A k \in 1 .. Len(mrngs') :
                  mrngs'[k].type = "RAM" => mrngs'[k].end =< blk'[j].start
      BY <3>1, <3>2, <3>4, <2>7
    <3> QED BY <3>3, <3>5, <2>9 DEF ApartInv
  <2>10. CASE /\ pc' = "used" /\ Appended(mrngs, r, mrngs')
              /\ \E i \in Live : BootOK(i, NodeReq) /\ TakeBoottime(i, NodeReq)
    <3>1. /\ runtime_bmem_top' = runtime_bmem_top
          /\ \A j \in Live' : j >= b => \E l \in Live : l >= j /\ blk'[j] = blk[l]
      BY <2>3, <2>7, <2>10, TakenBelow
    <3>2. From' = b + 1 BY <2>10, <2>1 DEF From, b
    <3>3. RamApart'
      <4>1. b >= b BY <2>3
      <4>2. \A k \in 1 .. Len(mrngs) : mrngs[k].type = "RAM" => mrngs[k].end =< r.start
        BY <4>1, <2>3, <2>4, <2>7
      <4> QED BY <4>2, <2>4, <2>5, <2>10, ApartAdded DEF ApartInv
    <3>4. \A k \in 1 .. Len(mrngs') : (k \in 1 .. Len(mrngs) /\ mrngs'[k] = mrngs[k])
                                      \/ (k = Len(mrngs) + 1 /\ mrngs'[k] = r)
      BY <2>10, <1>0, AppendedIs
    <3>5. ASSUME NEW j \in Live', j >= b + 1
          PROVE  /\ blk'[j].start >= runtime_bmem_top'
                 /\ \A k \in 1 .. Len(mrngs') :
                     mrngs'[k].type = "RAM" => mrngs'[k].end =< blk'[j].start
      <4>0. j \in Int BY DEF Live
      <4>1. PICK l \in Live : l >= j /\ blk'[j] = blk[l] BY <3>1, <3>5, <4>0, <2>3
      <4>2. l >= b /\ b < l
        <5>1. l \in Nat BY BlkNumbers
        <5> QED BY <5>1, <4>0, <4>1, <3>5, <2>3
      <4>3. r.end =< blk[l].start
        <5>1. blk[b].orig_end =< blk[l].start /\ blk[l].start \in Nat
          BY <4>2, <2>5, BlkNumbers
        <5> QED BY <5>1, <2>4, <2>5
      <4> QED BY <4>1, <4>2, <4>3, <3>1, <3>4, <2>7
    <3> QED BY <3>2, <3>3, <3>5, <2>10 DEF ApartInv
  <2> QED BY <2>2, <2>8, <2>9, <2>10
<1>7. CASE AddBlkUsedBparm
  <2> DEFINE r == [start |-> cur.end, end |-> cur.orig_end, type |-> "RESERVED"]
             n == blk_idx + 1
  <2>1. /\ pc = "used" /\ blk_idx' = n
        /\ BparmAddMemRange(cur.end, cur.orig_end, "RESERVED", "ours")
    BY <1>7 DEF AddBlkUsedBparm
  <2>2. \/ pc' = "ours" /\ UNCHANGED <<allocVars, mrngs>>
        \/ /\ pc' = "ours" /\ Appended(mrngs, r, mrngs')
           /\ \E i \in Live : BootOK(i, NodeReq) /\ TakeBoottime(i, NodeReq)
        \/ pc' = "error" /\ UNCHANGED mrngs
    BY <2>1, BparmAdds
  <2>3. r.type # "RAM" /\ n \in Nat BY <1>0
  <2>4. From = n BY <2>1 DEF From
  <2>a. pc' = "ours" => From' = blk_idx' BY DEF From
  <2> HIDE DEF r, n
  <2>5. RamApart' BY <2>2, <2>3, ApartSame DEF ApartInv
  <2>6. CASE pc' = "error" BY <2>6, <2>5 DEF ApartInv
  <2>7. CASE pc' = "ours"
    <3>1. \A j \in Live : j >= n =>
            /\ blk[j].start >= runtime_bmem_top
            /\ \A k \in 1 .. Len(mrngs) :
                mrngs[k].type = "RAM" => mrngs[k].end =< blk[j].start
      BY <2>1, <2>4 DEF ApartInv
    <3>2. \A j \in Live' : j >= n =>
            /\ blk'[j].start >= runtime_bmem_top'
            /\ \A k \in 1 .. Len(mrngs') :
                mrngs'[k].type = "RAM" => mrngs'[k].end =< blk'[j].start
      BY <3>1, <2>2, <2>3, <2>7, ApartKept
    <3> QED BY <3>2, <2>1, <2>a, <2>5, <2>7 DEF ApartInv
  <2> QED BY <2>2, <2>6, <2>7
<1>8. CASE FiniDone
  <2>1. mrngs' = mrngs /\ pc' \in {"done", "error"} BY <1>8 DEF FiniDone
  <2> QED BY <2>1 DEF ApartInv, RamApart
<1> QED BY <1>1, <1>2, <1>3, <1>4, <1>5, <1>6, <1>7, <1>8 DEF Next, Work, FiniStep, Stopped

\* add_uefi_mem_bparms() reports the pages that it has passed, whatever the
\* descriptors are.
LEMMA PassedStep == ASSUME IInv, PassedInv, [Next]_vars PROVE PassedInv'
<1> DEFINE Kept == {"ours", "resv"}
<1>0. /\ PageSize \in Nat \ {0} /\ NPages \in Nat /\ idx \in Nat /\ Len(mrngs) \in Nat
  BY SizeAssumption DEF IInv, TypeOK
<1>1. ASSUME pc \in {"uefi", "skip", "ours", "used"}, idx' = idx, kind' = kind,
             pc' = "uefi" => pc = "uefi", pc \notin {"uefi", "error"} \/ idx = NPages,
             mrngs' = mrngs \/ \E r : Appended(mrngs, r, mrngs')
      PROVE  PassedInv'
  <2>1. \A p : ReservedIn(mrngs, p) => ReservedIn(mrngs', p) BY <1>0, <1>1, AppendedIs
  <2>2. \A p \in Pages : p < idx /\ kind[p] \in Kept => ReservedIn(mrngs, p)
    BY <1>1 DEF PassedInv
  <2>3. idx = NPages BY <1>1 DEF PassedInv
  <2> QED BY <1>1, <2>1, <2>2, <2>3 DEF PassedInv
<1>2. CASE UNCHANGED vars
  <2>1. UNCHANGED <<pc, idx, kind, mrngs>> BY <1>2 DEF vars, initVars
  <2> QED BY <2>1 DEF PassedInv
<1>3. CASE InitStep \/ UseStep
  <2>1. pc' \notin {"uefi", "skip", "ours", "used", "done"}
    <3>1. CASE InitStep
      BY <3>1 DEF InitStep, GrabSome, GrabFail, GroupAvail, GroupUnavail, GroupEnd, Gauge
    <3>2. CASE UseStep
      BY <3>2 DEF UseStep, BmemAlloc, BmemAllocError, BmemAllocBoottime, BmemAllocBoottimeError
    <3> QED BY <1>3, <3>1, <3>2
  <2> QED BY <2>1 DEF PassedInv
<1>4. CASE BmemFini
  <2>1. pc' = "uefi" /\ idx' = 0 BY <1>4 DEF BmemFini
  <2>2. \A p \in Pages : ~(p < 0) BY DEF Pages
  <2> QED BY <2>1, <2>2 DEF PassedInv
<1>5. CASE AddUefiMemBparm
  <2>1. pc = "uefi" /\ idx < NPages /\ kind' = kind BY <1>5 DEF AddUefiMemBparm
  <2>2. PICK e \in idx + 1 .. NPages :
          /\ \A p \in idx .. e - 1 : kind[p] = kind[idx]
          /\ idx' = e
          /\ IF kind[idx] \in FreedKinds
             THEN UNCHANGED <<pc, allocVars, mrngs>>
             ELSE BparmAddMemRange(idx * PageSize, e * PageSize, "RESERVED", "uefi")
    BY <1>5 DEF AddUefiMemBparm
  <2> DEFINE r == [start |-> idx * PageSize, end |-> e * PageSize, type |-> "RESERVED"]
  <2>3. r.start = idx * PageSize /\ r.end = e * PageSize /\ r.type = "RESERVED" OBVIOUS
  <2>4. \/ kind[idx] \in FreedKinds /\ pc' = "uefi" /\ mrngs' = mrngs
        \/ pc' = "uefi" /\ Appended(mrngs, r, mrngs')
        \/ pc' = "error"
    <3>1. idx * PageSize # e * PageSize
      <4>1. idx * PageSize + PageSize =< e * PageSize /\ idx * PageSize \in Nat
        BY <2>2, <1>0, PageOrder
      <4> QED BY <4>1, <1>0
    <3>2. CASE kind[idx] \in FreedKinds BY <3>2, <2>1, <2>2
    <3>3. CASE kind[idx] \notin FreedKinds
      <4>1. BparmAddMemRange(idx * PageSize, e * PageSize, "RESERVED", "uefi") BY <3>3, <2>2
      <4> QED BY <4>1, <3>1, BparmAdds
    <3> QED BY <3>2, <3>3
  <2> HIDE DEF r
  <2>5. \A p : ReservedIn(mrngs, p) /\ pc' = "uefi" => ReservedIn(mrngs', p)
    BY <1>0, <2>4, AppendedIs
  <2>6. ASSUME NEW p \in Pages, p < e, kind[p] \in Kept, pc' = "uefi"
        PROVE  ReservedIn(mrngs', p)
    <3>1. CASE p < idx
      <4>1. ReservedIn(mrngs, p) BY <3>1, <2>1, <2>6 DEF PassedInv
      <4> QED BY <4>1, <2>5, <2>6
    <3>2. CASE ~(p < idx)
      <4>1. p \in Nat /\ p \in idx .. e - 1 /\ e \in Nat BY <3>2, <2>2, <2>6, <1>0 DEF Pages
      <4>2. kind[idx] \notin FreedKinds BY <4>1, <2>2, <2>6 DEF FreedKinds
      <4>3. Appended(mrngs, r, mrngs') BY <4>2, <2>4, <2>6
      <4>4. Inside(PageArea(p), r)
        <5>1. p * PageSize \in Nat /\ p * PageSize + PageSize =< e * PageSize
          BY <4>1, <2>6, PageOrder
        <5>2. idx * PageSize =< p * PageSize
          <6>1. CASE idx = p BY <6>1, <5>1
          <6>2. CASE idx < p
            <7>1. idx * PageSize + PageSize =< p * PageSize /\ idx * PageSize \in Nat
              BY <6>2, <4>1, <1>0, PageOrder
            <7> QED BY <7>1, <5>1, <1>0
          <6> QED BY <6>1, <6>2, <3>2, <4>1, <1>0
        <5> QED BY <5>1, <5>2, <2>3 DEF Inside, PageArea, Area
      <4> QED BY <4>3, <4>4, <2>3, <1>0, AppendedIs
    <3> QED BY <3>1, <3>2
  <2>7. pc' \in {"uefi", "error"} BY <2>4
  <2> QED BY <2>1, <2>2, <2>6, <2>7 DEF PassedInv
<1>6. CASE AddBaseBparm
  <2>1. /\ pc = "uefi" /\ idx = NPages /\ idx' = idx /\ kind' = kind
        /\ BparmAddMemRange(0, runtime_bmem_top, "RAM", "skip")
    BY <1>6 DEF AddBaseBparm, initVars
  <2>2. mrngs' = mrngs \/ \E r : Appended(mrngs, r, mrngs') BY <2>1, BparmAdds
  <2>3. pc' # "uefi" BY <2>1, BparmAdds
  <2> QED BY <2>1, <2>2, <2>3, <1>1
<1>7. CASE SkipLowBlks
  BY <1>7, <1>1 DEF SkipLowBlks, initVars
<1>8. CASE AddBlkFreeBparm
  <2>1. /\ pc = "ours" /\ idx' = idx /\ kind' = kind
        /\ BparmAddMemRange(blk[blk_idx].start, blk[blk_idx].end, "RAM", "used")
    BY <1>8 DEF AddBlkFreeBparm, initVars
  <2>2. mrngs' = mrngs \/ \E r : Appended(mrngs, r, mrngs') BY <2>1, BparmAdds
  <2>3. pc' # "uefi" BY <2>1, BparmAdds
  <2> QED BY <2>1, <2>2, <2>3, <1>1
<1>9. CASE AddBlkUsedBparm
  <2>1. /\ pc = "used" /\ idx' = idx /\ kind' = kind
        /\ BparmAddMemRange(cur.end, cur.orig_end, "RESERVED", "ours")
    BY <1>9 DEF AddBlkUsedBparm, initVars
  <2>2. mrngs' = mrngs \/ \E r : Appended(mrngs, r, mrngs') BY <2>1, BparmAdds
  <2>3. pc' # "uefi" BY <2>1, BparmAdds
  <2> QED BY <2>1, <2>2, <2>3, <1>1
<1>10. CASE FiniDone
  <2>1. pc = "ours" /\ pc' # "uefi" /\ idx' = idx /\ kind' = kind /\ mrngs' = mrngs
    BY <1>10 DEF FiniDone, initVars
  <2> QED BY <2>1, <1>1
<1> QED BY <1>2, <1>3, <1>4, <1>5, <1>6, <1>7, <1>8, <1>9, <1>10
        DEF Next, Work, FiniStep, Stopped

\* bmem_fini() reports no byte of RAM twice, although the blocks move in the
\* array under add_our_mem_bparms() (bmem.c:138-154), and reports as reserved
\* each page that it or the firmware keeps (bmem.c:99-132).
THEOREM ReportIsUsable == Spec => []ReportUsable
<1>1. Init => ApartInv /\ PassedInv
  <2> SUFFICES ASSUME Init PROVE ApartInv /\ PassedInv OBVIOUS
  <2>1. pc = "grab" /\ mrngs = << >> BY DEF Init
  <2>2. 1 .. Len(mrngs) = {} BY <2>1
  <2> QED BY <2>1, <2>2 DEF ApartInv, PassedInv, RamApart
<1>2. IInv /\ ApartInv /\ PassedInv /\ [Next]_vars => ApartInv' /\ PassedInv'
  BY ApartStep, PassedStep
<1>3. IInv /\ ApartInv /\ PassedInv => ReportUsable
  <2> SUFFICES ASSUME IInv, ApartInv, PassedInv PROVE ReportUsable OBVIOUS
  <2>1. \A p \in Pages : p < NPages BY SizeAssumption DEF Pages
  <2>2. ReservedReported
    BY <2>1 DEF ReservedReported, PassedInv, ReservedIn
  <2> QED BY <2>2 DEF ReportUsable, ApartInv
<1> QED BY <1>1, <1>2, <1>3, Inductive, PTL DEF Spec
=============================================================================
