---------------------------- MODULE VaMapProofs -----------------------------
(***************************************************************************)
(* Proofs about VaMap, for every page size, address space, layout of holes *)
(* and set of requests: no virtual page is lost or given out twice, page   *)
(* tables and array agree, mappings undone in reverse order leave no       *)
(* trace, and VaSpace is implemented.                                      *)
(***************************************************************************)
EXTENDS VaMap, NatFacts, FiniteSetTheorems, SequenceTheorems, TLAPS

Apart(b, c) ==
    b.len = 0 \/ c.len = 0 \/ EndOf(b) =< c.start \/ EndOf(c) =< b.start

\* The pages of the ranges rs.
FreeOf(rs) == UNION {PagesOf(rs[n]) : n \in DOMAIN rs}

\* A block within the address space.
GoodBlock(b) ==
    /\ b \in [start : Pages, len : 1 .. NPages]
    /\ b.start > 0 /\ EndOf(b) =< NPages

(***************************************************************************)
(* What the array is like, beside the blocks B given out of it.  Ranges    *)
(* that are not empty come in ascending order.  An empty one need not: a   *)
(* later range may have grown down past it.  But then that later range is  *)
(* the one mem_va_unmap() meets first.                                     *)
(***************************************************************************)
RangeOrder(rs) ==
    /\ \A n \in DOMAIN rs : rs[n].start > 0 /\ EndOf(rs[n]) =< NPages
    /\ \A m, n \in DOMAIN rs :
        m < n /\ rs[m].len > 0 => EndOf(rs[m]) =< rs[n].start

BlocksApart(rs, B) ==
    /\ \A b \in B : GoodBlock(b)
    /\ \A b, c \in B : b # c => Apart(b, c)
    /\ \A b \in B : \A n \in DOMAIN rs : Apart(b, rs[n])

\* Some range comes before each block,
Preceded(rs, B) == \A b \in B : \E n \in DOMAIN rs : rs[n].start =< b.start

\* and one that comes after any (empty) range within the block.
Shadowed(rs, B) ==
    \A b \in B : \A k \in DOMAIN rs :
        b.start < rs[k].start /\ rs[k].start < EndOf(b) =>
            \E n \in DOMAIN rs : n > k /\ rs[n].start =< b.start

ArrayInv(rs, B) ==
    /\ rs \in Seq(VaRanges)
    /\ RangeOrder(rs) /\ BlocksApart(rs, B) /\ Preceded(rs, B) /\ Shadowed(rs, B)

\* What mem_va_unmap() computes from a mapping is the block it is made of.
GoodMapping(m) ==
    /\ m \in Mappings
    /\ GoodBlock(BlockOf(m))
    /\ UnmapStart(m) = BlockOf(m).start
    /\ UnmapLen(m) = BlockOf(m).len
    /\ UnmapEnd(m) = IF EndOf(BlockOf(m)) = NPages THEN 0 ELSE EndOf(BlockOf(m))

PcInv ==
    /\ pc # "lost"
    /\ pc \in {"idmap", "ready", "full"} => len = 0
    /\ pc = "idmap" => ret = "idmap"
    /\ pc \in {"unmap", "full"} => ret = "ready"
    /\ ret = "idmap" => live = << >> /\ unused_va_ranges = layout
    /\ ret = "ready" \/ pc = "ready" => gap = Len(layout)
    /\ pc = "map" /\ ret = "idmap" => gap > 0

\* The mappings in use are good and no two have the same block.
UseInv ==
    /\ \A i \in DOMAIN live : GoodMapping(live[i])
    /\ \A i, j \in DOMAIN live : i # j => BlockOf(live[i]) # BlockOf(live[j])
    /\ Pending => GoodMapping(cur)
    /\ Pending => \A i \in DOMAIN live : BlockOf(live[i]) # BlockOf(cur)

SpaceInv ==
    /\ ArrayInv(unused_va_ranges, Blocks)
    /\ Unused \cup UNION {PagesOf(b) : b \in Blocks} = Holes

\* As long as mappings are undone in reverse order, ranges stay at the
\* bottom of their holes, and later blocks of a hole lie below earlier ones.
InHole(b, n) == layout[n].start =< b.start /\ EndOf(b) =< EndOf(layout[n])

LifoInv ==
    lifo =>
        /\ Len(unused_va_ranges) = Len(layout)
        /\ \A n \in DOMAIN layout :
            /\ unused_va_ranges[n].start = layout[n].start
            /\ unused_va_ranges[n].len =< layout[n].len
        /\ \A b \in Blocks : \E n \in DOMAIN layout : InHole(b, n)
        /\ \A n \in DOMAIN layout : \A i, j \in DOMAIN live :
            i < j /\ InHole(BlockOf(live[i]), n) /\ InHole(BlockOf(live[j]), n)
                => EndOf(BlockOf(live[j])) =< BlockOf(live[i]).start
        /\ Pending => \A n \in DOMAIN layout : \A i \in DOMAIN live :
            InHole(BlockOf(live[i]), n) /\ InHole(BlockOf(cur), n)
                => EndOf(BlockOf(cur)) =< BlockOf(live[i]).start

-----------------------------------------------------------------------------
\* Where the loops of do_va_map and do_va_unmap are.
LoopInv ==
    /\ pc = "map" /\ ret = "idmap" =>
        /\ pstart = vstart /\ vstart + len = layout[gap].start
        /\ gap = 1 \/ vstart >= EndOf(layout[gap - 1])
        /\ pte_flags = IF gap = 1 THEN BaseFlags ELSE "wb"
    /\ pc = "map" /\ ret = "ready" =>
        /\ vstart >= BlockOf(cur).start /\ vstart + len = EndOf(BlockOf(cur))
        /\ pstart = FirstPage(cur.pa) + (vstart - FirstPage(cur.va))
        /\ pte_flags = cur.flags
    /\ pc = "unmap" =>
        vstart >= BlockOf(cur).start /\ vstart + len = EndOf(BlockOf(cur))

\* Large pages are aligned in physical memory, and what is mapped through one
\* is all of a block or none of it.
LargeInv ==
    \A n \in DOMAIN pd : pd[n].kind = "large" =>
        /\ pd[n].pte.page \in Nat /\ pd[n].pte.page % LP = 0 /\ pd[n].pte.flags \in Flags
        /\ \A b \in Blocks :
            (\E p \in PagesOf(b) : p \div LP = n) =>
                \A p \in Pages : p \div LP = n => p \in PagesOf(b)

\* What virtual pages show, at every step.
Identity(p) == Pte(p, IF p < layout[1].start THEN BaseFlags ELSE "wb")

IdBound ==
    IF pc = "map" /\ ret = "idmap" THEN vstart
    ELSE IF gap = 0 THEN 0 ELSE layout[gap].start

ShowInv ==
    pc \in {"idmap", "map", "ready", "unmap"} =>
        /\ \A i \in DOMAIN live : \A p \in PagesOf(BlockOf(live[i])) : Shows(live[i], p)
        /\ \A p \in Unused : Translate(p) = Unmapped
        /\ \A p \in Pages : p \notin Holes /\ p < IdBound => Translate(p) = Identity(p)
        /\ pc = "map" /\ ret = "ready" =>
            \A p \in PagesOf(BlockOf(cur)) : p < vstart => Shows(cur, p)
        /\ pc = "unmap" => \A p \in PagesOf(BlockOf(cur)) :
            IF p < vstart THEN Translate(p) = Unmapped ELSE Shows(cur, p)

IInv ==
    /\ TypeOK /\ PcInv /\ UseInv /\ SpaceInv /\ LifoInv
    /\ LoopInv /\ LargeInv /\ ShowInv

-----------------------------------------------------------------------------
(***************************************************************************)
(* Facts about sequences.                                                  *)
(***************************************************************************)

InsertedAt(s, n, e, t) == t = InsertAt(s, n + 1, e)
RemovedAt(s, n, t) == t = RemoveAt(s, n)

\* InsertAt makes room for one element after the n-th.
LEMMA Inserted ==
    ASSUME NEW S, NEW s \in Seq(S), NEW n \in 1 .. Len(s), NEW e \in S,
           NEW t, InsertedAt(s, n, e, t)
    PROVE  /\ t \in Seq(S) /\ Len(t) = Len(s) + 1
           /\ \A i \in 1 .. n : t[i] = s[i]
           /\ t[n + 1] = e
           /\ \A i \in n + 1 .. Len(s) : t[i + 1] = s[i]
<1> DEFINE a == SubSeq(s, 1, n)
           b == a \o <<e>>
           c == SubSeq(s, n + 1, Len(s))
<1>1. (n + 1) - 1 = n OBVIOUS
<1>2. t = b \o c BY <1>1 DEF InsertAt, InsertedAt
<1>3. Len(s) \in Nat OBVIOUS
<1>4. a \in Seq(S) /\ Len(a) = n /\ \A i \in 1 .. n : a[i] = s[i]
  BY <1>3, SubSeqProperties
<1>5. c \in Seq(S) /\ Len(c) = Len(s) - n /\ \A i \in 1 .. Len(s) - n : c[i] = s[n + i]
  <2>1. \A i \in n + 1 .. Len(s) : i \in 1 .. Len(s) OBVIOUS
  <2>2. c \in Seq(S) BY <2>1
  <2>3. Len(c) = Len(s) - n BY <1>3
  <2>4. \A i \in 1 .. Len(s) - n : c[i] = s[n + i] BY <1>3
  <2> QED BY <2>2, <2>3, <2>4
<1> HIDE DEF a, c
<1>6. b \in Seq(S) /\ Len(b) = n + 1 /\ (\A i \in 1 .. n : b[i] = a[i]) /\ b[n + 1] = e
  BY <1>4
<1> HIDE DEF b
<1>7. /\ b \o c \in Seq(S) /\ Len(b \o c) = Len(s) + 1
      /\ \A i \in 1 .. n + 1 : (b \o c)[i] = b[i]
      /\ \A i \in n + 2 .. Len(s) + 1 : (b \o c)[i] = c[i - (n + 1)]
  <2>1. /\ b \o c \in Seq(S) /\ Len(b \o c) = Len(b) + Len(c)
        /\ \A i \in 1 .. Len(b) + Len(c) :
            (b \o c)[i] = IF i =< Len(b) THEN b[i] ELSE c[i - Len(b)]
    BY <1>5, <1>6, ConcatProperties
  <2> QED BY <2>1, <1>3, <1>5, <1>6
<1>8. ASSUME NEW i \in n + 1 .. Len(s) PROVE (b \o c)[i + 1] = s[i]
  <2>1. i + 1 \in n + 2 .. Len(s) + 1 /\ (i + 1) - (n + 1) = i - n BY <1>3
  <2>2. (b \o c)[i + 1] = c[i - n] BY <2>1, <1>7
  <2>3. i - n \in 1 .. Len(s) - n /\ n + (i - n) = i BY <1>3
  <2> QED BY <2>2, <2>3, <1>5
<1>9. (\A i \in 1 .. n : (b \o c)[i] = s[i]) /\ (b \o c)[n + 1] = e
  BY <1>4, <1>6, <1>7
<1> QED BY <1>2, <1>7, <1>8, <1>9

\* RemoveAt closes the gap where the n-th element was.
LEMMA Removed ==
    ASSUME NEW S, NEW s \in Seq(S), NEW n \in 1 .. Len(s),
           NEW t, RemovedAt(s, n, t)
    PROVE  /\ t \in Seq(S) /\ Len(t) = Len(s) - 1
           /\ \A i \in 1 .. n - 1 : t[i] = s[i]
           /\ \A i \in n .. Len(s) - 1 : t[i] = s[i + 1]
<1> DEFINE a == SubSeq(s, 1, n - 1)
           c == SubSeq(s, n + 1, Len(s))
<1>2. t = a \o c BY DEF RemoveAt, RemovedAt
<1>3. Len(s) \in Nat OBVIOUS
<1>4. a \in Seq(S) /\ Len(a) = n - 1 /\ \A i \in 1 .. n - 1 : a[i] = s[i]
  <2>1. \A i \in 1 .. n - 1 : i \in 1 .. Len(s) BY <1>3
  <2> QED BY <2>1, <1>3
<1>5. c \in Seq(S) /\ Len(c) = Len(s) - n /\ \A i \in 1 .. Len(s) - n : c[i] = s[n + i]
  <2>1. \A i \in n + 1 .. Len(s) : i \in 1 .. Len(s) OBVIOUS
  <2>2. c \in Seq(S) BY <2>1
  <2>3. Len(c) = Len(s) - n BY <1>3
  <2>4. \A i \in 1 .. Len(s) - n : c[i] = s[n + i] BY <1>3
  <2> QED BY <2>2, <2>3, <2>4
<1> HIDE DEF a, c
<1>7. /\ a \o c \in Seq(S) /\ Len(a \o c) = Len(s) - 1
      /\ \A i \in 1 .. n - 1 : (a \o c)[i] = a[i]
      /\ \A i \in n .. Len(s) - 1 : (a \o c)[i] = c[i - (n - 1)]
  <2>1. /\ a \o c \in Seq(S) /\ Len(a \o c) = Len(a) + Len(c)
        /\ \A i \in 1 .. Len(a) + Len(c) :
            (a \o c)[i] = IF i =< Len(a) THEN a[i] ELSE c[i - Len(a)]
    BY <1>4, <1>5, ConcatProperties
  <2>2. Len(a) = n - 1 /\ Len(c) = Len(s) - n /\ Len(a) + Len(c) = Len(s) - 1
    BY <1>3, <1>4, <1>5
  <2>3. \A i \in 1 .. Len(s) - 1 :
            (a \o c)[i] = IF i =< n - 1 THEN a[i] ELSE c[i - (n - 1)]
    BY <2>1, <2>2
  <2>4. ASSUME NEW i \in 1 .. n - 1 PROVE (a \o c)[i] = a[i]
    <3>1. i \in 1 .. Len(s) - 1 /\ i =< n - 1 BY <1>3
    <3> QED BY <2>3, <3>1
  <2>5. ASSUME NEW i \in n .. Len(s) - 1 PROVE (a \o c)[i] = c[i - (n - 1)]
    <3>1. i \in 1 .. Len(s) - 1 /\ ~(i =< n - 1) BY <1>3
    <3> QED BY <2>3, <3>1
  <2> QED BY <2>1, <2>2, <2>4, <2>5
<1>8. ASSUME NEW i \in n .. Len(s) - 1 PROVE (a \o c)[i] = s[i + 1]
  <2>1. (a \o c)[i] = c[i - (n - 1)] BY <1>7
  <2>2. i - (n - 1) \in 1 .. Len(s) - n /\ n + (i - (n - 1)) = i + 1 BY <1>3
  <2> QED BY <2>1, <2>2, <1>5
<1>9. \A i \in 1 .. n - 1 : (a \o c)[i] = s[i] BY <1>4, <1>7
<1> QED BY <1>2, <1>7, <1>8, <1>9

-----------------------------------------------------------------------------
(***************************************************************************)
(* Pages and blocks.                                                       *)
(***************************************************************************)

\* The pages of a request, wherever they are put.
LEMMA RequestPages ==
    ASSUME NEW q \in Requests
    PROVE  /\ PagesFor(q) \in Nat \ {0}
           /\ \A x \in Nat :
                (((x * PageSize) + (q.pa % PageSize)) + q.sz + PageSize - 1) \div PageSize
                    = x + PagesFor(q)
<1> DEFINE off == q.pa % PageSize
           fp == q.pa \div PageSize
           k == (off + q.sz + PageSize - 1) \div PageSize
<1>1. PageSize \in Nat \ {0} BY VaAssumption
<1>2. q.pa \in Nat /\ q.sz \in Nat \ {0} BY VaAssumption
<1>3. off \in 0 .. PageSize - 1 /\ fp \in Nat /\ q.pa = (PageSize * fp) + off
  <2>1. q.pa \in Int BY <1>2
  <2>2. off \in 0 .. PageSize - 1 /\ q.pa = (PageSize * fp) + off BY <1>1, <2>1, DivModDef
  <2>3. fp \in Nat BY <1>1, <1>2, <2>1, DivModDef
  <2> QED BY <2>2, <2>3
<1> HIDE DEF off, fp
<1>4. k \in Nat \ {0}
  <2>1. PageSize \div PageSize = 1 BY <1>1, DivModUnique, PageSize = (PageSize * 1) + 0
  <2>2. (off + q.sz + PageSize - 1) \in Nat /\ PageSize =< off + q.sz + PageSize - 1
    BY <1>1, <1>2, <1>3
  <2>3. PageSize \div PageSize =< k BY <1>1, <2>2, DivMonotone
  <2>4. k \in Nat
    <3> DEFINE x == off + q.sz + PageSize - 1
    <3>1. x \in Nat /\ x \in Int BY <2>2
    <3> HIDE DEF x
    <3>2. x \div PageSize \in Nat BY <3>1, <1>1, DivModDef
    <3> QED BY <3>2 DEF x
  <2> QED BY <2>1, <2>3, <2>4
<1>5. ASSUME NEW x \in Nat
      PROVE  (((x * PageSize) + off) + q.sz + PageSize - 1) \div PageSize = x + k
  <2>1. ((x * PageSize) + off) + q.sz + PageSize - 1
            = (off + q.sz + PageSize - 1) + (PageSize * x)
    BY <1>1, <1>2, <1>3
  <2>2. off + q.sz + PageSize - 1 \in Int BY <1>1, <1>2, <1>3
  <2>3. ((off + q.sz + PageSize - 1) + (PageSize * x)) \div PageSize = k + x
    BY <1>1, <2>2, DivModAdd
  <2> QED BY <2>1, <2>3, <1>4
<1> HIDE DEF k
<1>6. PagesFor(q) = k
  <2>1. q.pa = (fp * PageSize) + off BY <1>1, <1>3
  <2>2. (q.pa + q.sz + PageSize - 1) \div PageSize = fp + k BY <2>1, <1>3, <1>5
  <2> QED BY <2>2, <1>3, <1>4 DEF PagesFor, PageAfter, FirstPage, fp
<1> QED BY <1>4, <1>5, <1>6 DEF off

\* A mapping that mem_va_map() returns for pages from v: what it has of pages,
\* and what mem_va_unmap() will compute from it.
LEMMA MappingGood ==
    ASSUME NEW q \in Requests, NEW v \in Pages, v > 0, v + PagesFor(q) =< NPages,
           NEW m, m = [va |-> (v * PageSize) + (q.pa % PageSize),
                       sz |-> q.sz, pa |-> q.pa, flags |-> q.flags]
    PROVE  /\ GoodMapping(m)
           /\ BlockOf(m) = [start |-> v, len |-> PagesFor(q)]
           /\ FirstPage(m.va) = v
<1> DEFINE off == q.pa % PageSize
           k == PagesFor(q)
<1>1. PageSize \in Nat \ {0} /\ NPages \in Nat \ {0} /\ v \in Nat /\ v < NPages
  BY VaAssumption DEF Pages
<1>2. q.pa \in Nat /\ q.sz \in Nat \ {0} /\ q.flags \in Flags BY VaAssumption
<1>3. off \in 0 .. PageSize - 1
  <2>1. q.pa \in Int BY <1>2
  <2> QED BY <1>1, <2>1, DivModDef
<1>4. k \in Nat \ {0} BY RequestPages
<1>5. \A x \in Nat : (((x * PageSize) + off) + q.sz + PageSize - 1) \div PageSize = x + k
  BY RequestPages
<1>7. /\ m.va = (v * PageSize) + off /\ m.sz = q.sz /\ m.pa = q.pa /\ m.flags = q.flags
      /\ PagesFor(m) = PagesFor(q)
  BY DEF PagesFor
<1>6. PagesFor(m) = k BY <1>7
<1> HIDE DEF off, k
<1>8. FirstPage(m.va) = v
  <2>1. m.va = (PageSize * v) + off BY <1>7, <1>1, <1>3
  <2>2. v \in Int BY <1>1
  <2>3. ((PageSize * v) + off) \div PageSize = v BY <2>2, <1>1, <1>3, DivModUnique
  <2> QED BY <2>1, <2>3 DEF FirstPage
<1>9. PageAfter(m.va, m.sz) = v + k BY <1>7, <1>1, <1>5 DEF PageAfter
<1>10. BlockOf(m) = [start |-> v, len |-> k] BY <1>6, <1>8 DEF BlockOf
<1>11. v + k =< NPages /\ k < NPages BY <1>1, <1>4 DEF k
<1>12. GoodBlock(BlockOf(m))
  BY <1>1, <1>4, <1>10, <1>11 DEF GoodBlock, EndOf, Pages
<1>13. UnmapEnd(m) = IF v + k = NPages THEN 0 ELSE v + k
  <2>1. CASE v + k = NPages
    <3>1. NPages = (NPages * 1) + 0 BY <1>1
    <3>2. NPages % NPages = 0 BY <1>1, <3>1, DivModUnique
    <3> QED BY <2>1, <3>2, <1>9 DEF UnmapEnd
  <2>2. CASE v + k # NPages
    <3>1. v + k \in 0 .. NPages - 1 BY <2>2, <1>1, <1>4, <1>11
    <3>2. (v + k) % NPages = v + k BY <3>1, <1>1, ModSmall
    <3> QED BY <2>2, <3>2, <1>9 DEF UnmapEnd
  <2> QED BY <2>1, <2>2
<1>14. UnmapLen(m) = k
  <2>1. CASE v + k = NPages
    <3>1. UnmapEnd(m) - UnmapStart(m) = (NPages * (-1)) + k
      BY <2>1, <1>13, <1>8, <1>1, <1>4 DEF UnmapStart
    <3>2. k \in 0 .. NPages - 1 BY <1>1, <1>4, <1>11
    <3>3. ((NPages * (-1)) + k) % NPages = k BY <3>2, <1>1, DivModUnique
    <3> QED BY <3>1, <3>3 DEF UnmapLen
  <2>2. CASE v + k # NPages
    <3>1. UnmapEnd(m) - UnmapStart(m) = k
      BY <2>2, <1>13, <1>8, <1>1, <1>4 DEF UnmapStart
    <3>2. k \in 0 .. NPages - 1 BY <1>1, <1>4, <1>11
    <3> QED BY <3>1, <3>2, <1>1, ModSmall DEF UnmapLen
  <2> QED BY <2>1, <2>2
<1>15. m \in Mappings
  <2>1. m.va \in Nat BY <1>1, <1>3, <1>7
  <2> QED BY <2>1, <1>2, <1>7 DEF Mappings
<1>16. EndOf(BlockOf(m)) = v + k BY <1>10 DEF EndOf
<1> QED BY <1>6, <1>8, <1>10, <1>12, <1>13, <1>14, <1>15, <1>16
        DEF GoodMapping, UnmapStart, k

-----------------------------------------------------------------------------
(***************************************************************************)
(* The array: what mem_va_map() and mem_va_unmap() do to it.               *)
(***************************************************************************)

\* Start, length and end of a range are numbers.
LEMMA RangeNumbers ==
    ASSUME NEW r \in VaRanges
    PROVE  /\ r.start \in Nat /\ r.len \in Nat /\ EndOf(r) \in Nat
           /\ r.start < NPages /\ EndOf(r) = r.start + r.len
           /\ \A p : p \in PagesOf(r) <=> p \in Nat /\ r.start =< p /\ p < EndOf(r)
<1>1. NPages \in Nat \ {0} BY VaAssumption
<1>2. r.start \in 0 .. NPages - 1 /\ r.len \in 0 .. NPages BY DEF VaRanges, Pages
<1>3. /\ r.start \in Nat /\ r.len \in Nat /\ EndOf(r) \in Nat
      /\ r.start < NPages /\ EndOf(r) = r.start + r.len
  BY <1>1, <1>2 DEF EndOf
<1> QED BY <1>3 DEF PagesOf

LEMMA BlockNumbers ==
    ASSUME NEW b, GoodBlock(b)
    PROVE  /\ b \in VaRanges /\ b.start \in Nat \ {0} /\ b.len \in Nat \ {0}
           /\ EndOf(b) \in Nat
           /\ b.start < NPages /\ EndOf(b) = b.start + b.len /\ EndOf(b) =< NPages
           /\ \A p : p \in PagesOf(b) <=> p \in Nat /\ b.start =< p /\ p < EndOf(b)
<1>1. NPages \in Nat \ {0} BY VaAssumption
<1>2. b \in VaRanges BY <1>1 DEF GoodBlock, VaRanges
<1>3. b.len \in 1 .. NPages /\ b.start > 0 /\ EndOf(b) =< NPages BY DEF GoodBlock
<1> QED BY <1>1, <1>2, <1>3, RangeNumbers

\* Ranges apart have no page in common, and the other way round.
LEMMA ApartPages ==
    ASSUME NEW b \in VaRanges, NEW c \in VaRanges
    PROVE  Apart(b, c) <=> PagesOf(b) \cap PagesOf(c) = {}
<1>1. /\ b.start \in Nat /\ b.len \in Nat /\ EndOf(b) \in Nat /\ EndOf(b) = b.start + b.len
      /\ \A p : p \in PagesOf(b) <=> p \in Nat /\ b.start =< p /\ p < EndOf(b)
  BY RangeNumbers
<1>2. /\ c.start \in Nat /\ c.len \in Nat /\ EndOf(c) \in Nat /\ EndOf(c) = c.start + c.len
      /\ \A p : p \in PagesOf(c) <=> p \in Nat /\ c.start =< p /\ p < EndOf(c)
  BY RangeNumbers
<1>3. ASSUME Apart(b, c), NEW p \in PagesOf(b), p \in PagesOf(c) PROVE FALSE
  BY <1>1, <1>2, <1>3 DEF Apart
<1>4. ASSUME ~Apart(b, c) PROVE \E p \in PagesOf(b) : p \in PagesOf(c)
  <2>1. CASE b.start =< c.start
    <3>1. c.start \in PagesOf(b) /\ c.start \in PagesOf(c)
      BY <2>1, <1>1, <1>2, <1>4 DEF Apart
    <3> QED BY <3>1
  <2>2. CASE c.start =< b.start
    <3>1. b.start \in PagesOf(b) /\ b.start \in PagesOf(c)
      BY <2>2, <1>1, <1>2, <1>4 DEF Apart
    <3> QED BY <3>1
  <2> QED BY <2>1, <2>2, <1>1, <1>2
<1> QED BY <1>3, <1>4

\* The blocks B beside the ranges rs, and the ranges' numbers.
LEMMA ArrayFacts ==
    ASSUME NEW rs, NEW B, ArrayInv(rs, B)
    PROVE  /\ Len(rs) \in Nat /\ DOMAIN rs = 1 .. Len(rs)
           /\ \A n \in DOMAIN rs :
                /\ rs[n] \in VaRanges /\ rs[n].start \in Nat \ {0} /\ rs[n].len \in Nat
                /\ EndOf(rs[n]) \in Nat /\ EndOf(rs[n]) = rs[n].start + rs[n].len
                /\ EndOf(rs[n]) =< NPages
           /\ \A m, n \in DOMAIN rs :
                m < n /\ rs[m].len > 0 => EndOf(rs[m]) =< rs[n].start
           /\ \A b \in B :
                /\ b \in VaRanges /\ b.start \in Nat \ {0} /\ b.len \in Nat \ {0}
                /\ EndOf(b) \in Nat /\ EndOf(b) = b.start + b.len /\ EndOf(b) =< NPages
           /\ \A b, c \in B : b # c => Apart(b, c)
           /\ \A b \in B : \A n \in DOMAIN rs : Apart(b, rs[n])
<1>1. rs \in Seq(VaRanges) /\ RangeOrder(rs) /\ BlocksApart(rs, B) BY DEF ArrayInv
<1>2. /\ Len(rs) \in Nat /\ DOMAIN rs = 1 .. Len(rs)
      /\ \A n \in DOMAIN rs : rs[n] \in VaRanges
  BY <1>1
<1>3. ASSUME NEW n \in DOMAIN rs
      PROVE  /\ rs[n].start \in Nat \ {0} /\ rs[n].len \in Nat
             /\ EndOf(rs[n]) \in Nat /\ EndOf(rs[n]) = rs[n].start + rs[n].len
             /\ EndOf(rs[n]) =< NPages
  <2>1. rs[n].start > 0 /\ EndOf(rs[n]) =< NPages BY <1>1 DEF RangeOrder
  <2>2. rs[n] \in VaRanges BY <1>2
  <2>3. /\ rs[n].start \in Nat /\ rs[n].len \in Nat
        /\ EndOf(rs[n]) \in Nat /\ EndOf(rs[n]) = rs[n].start + rs[n].len
    BY <2>2, RangeNumbers
  <2> QED BY <2>1, <2>3
<1>4. \A m, n \in DOMAIN rs : m < n /\ rs[m].len > 0 => EndOf(rs[m]) =< rs[n].start
  BY <1>1 DEF RangeOrder
<1>5. /\ \A b, c \in B : b # c => Apart(b, c)
      /\ \A b \in B : \A n \in DOMAIN rs : Apart(b, rs[n])
  BY <1>1 DEF BlocksApart
<1>6. ASSUME NEW b \in B
      PROVE  /\ b \in VaRanges /\ b.start \in Nat \ {0} /\ b.len \in Nat \ {0}
             /\ EndOf(b) \in Nat /\ EndOf(b) = b.start + b.len /\ EndOf(b) =< NPages
  <2>1. GoodBlock(b) BY <1>1 DEF BlocksApart
  <2> QED BY <2>1, BlockNumbers
<1> QED BY <1>2, <1>3, <1>4, <1>5, <1>6

SameLen(rs, rt) == Len(rt) = Len(rs)
FreeLess(rs, b, rt) == FreeOf(rt) = FreeOf(rs) \ PagesOf(b)

\* mem_va_map(): the highest k pages of a range make a new block.
Taken(rs, n, k, rt, b) ==
    rt = [rs EXCEPT ![n].len = @ - k] /\ b = [start |-> EndOf(rt[n]), len |-> k]

LEMMA TakeStep ==
    ASSUME NEW rs, NEW B, ArrayInv(rs, B), NEW n \in DOMAIN rs,
           NEW k \in Nat \ {0}, k =< rs[n].len, NEW b, NEW rt, Taken(rs, n, k, rt, b)
    PROVE  /\ ArrayInv(rt, B \cup {b}) /\ b \notin B
           /\ PagesOf(b) \subseteq FreeOf(rs)
           /\ FreeLess(rs, b, rt)
           /\ SameLen(rs, rt)
           /\ \A m \in DOMAIN rs : rt[m].start = rs[m].start /\ rt[m].len =< rs[m].len
           /\ GoodBlock(b) /\ rs[n].start =< b.start /\ EndOf(b) = EndOf(rs[n])
           /\ rt \in Seq(VaRanges) /\ b.start \in Pages
<1> DEFINE L == Len(rs)
<1>0. NPages \in Nat \ {0} BY VaAssumption
<1>1. /\ L \in Nat /\ DOMAIN rs = 1 .. L
      /\ \A m \in DOMAIN rs :
            /\ rs[m] \in VaRanges /\ rs[m].start \in Nat \ {0} /\ rs[m].len \in Nat
            /\ EndOf(rs[m]) \in Nat /\ EndOf(rs[m]) = rs[m].start + rs[m].len
            /\ EndOf(rs[m]) =< NPages
      /\ \A m, j \in DOMAIN rs :
            m < j /\ rs[m].len > 0 => EndOf(rs[m]) =< rs[j].start
  BY ArrayFacts
<1>2. /\ \A c \in B :
            /\ c \in VaRanges /\ c.start \in Nat \ {0} /\ c.len \in Nat \ {0}
            /\ EndOf(c) \in Nat /\ EndOf(c) = c.start + c.len /\ EndOf(c) =< NPages
      /\ \A c, d \in B : c # d => Apart(c, d)
      /\ \A c \in B : \A m \in DOMAIN rs : Apart(c, rs[m])
  BY ArrayFacts
<1>3. rs \in Seq(VaRanges) BY DEF ArrayInv
<1>4. /\ DOMAIN rt = DOMAIN rs
      /\ \A m \in DOMAIN rs : m # n => rt[m] = rs[m]
      /\ rt[n] = [rs[n] EXCEPT !.len = @ - k]
  <2>1. rt = [rs EXCEPT ![n] = [rs[n] EXCEPT !.len = @ - k]] BY DEF Taken
  <2> QED BY <2>1, <1>3
<1>5. rt[n].start = rs[n].start /\ rt[n].len = rs[n].len - k /\ rt[n] \in VaRanges
  <2>1. rs[n] \in VaRanges /\ rs[n].len \in Nat BY <1>1
  <2>2. rs[n] \in [start : Pages, len : 0 .. NPages] BY <2>1 DEF VaRanges
  <2>3. rs[n].len - k \in 0 .. NPages BY <2>2, <1>0
  <2>4. [rs[n] EXCEPT !.len = @ - k] = [rs[n] EXCEPT !.len = rs[n].len - k] OBVIOUS
  <2> QED BY <2>2, <2>3, <2>4, <1>4 DEF VaRanges
<1>6. rt \in Seq(VaRanges) /\ Len(rt) = L
  <2>1. rt \in [1 .. L -> VaRanges]
    <3>1. rt = [m \in 1 .. L |-> rt[m]] BY <1>1, <1>3 DEF Taken
    <3>2. \A m \in 1 .. L : rt[m] \in VaRanges BY <1>1, <1>4, <1>5
    <3> QED BY <3>1, <3>2
  <2> QED BY <2>1, <1>1
<1>7. EndOf(rt[n]) = rs[n].start + (rs[n].len - k) BY <1>5 DEF EndOf
<1>8. /\ b.start = rs[n].start + (rs[n].len - k) /\ b.len = k
      /\ EndOf(b) = EndOf(rs[n]) /\ b.start \in Nat \ {0} /\ EndOf(b) =< NPages
      /\ b.start >= rs[n].start /\ EndOf(rs[n]) \in Nat /\ rs[n].len > 0
      /\ EndOf(b) = b.start + k
  <2>1. b.start = rs[n].start + (rs[n].len - k) /\ b.len = k BY <1>7 DEF Taken
  <2>2. EndOf(b) = b.start + b.len BY DEF EndOf
  <2>3. /\ rs[n].start \in Nat \ {0} /\ rs[n].len \in Nat /\ EndOf(rs[n]) \in Nat
        /\ EndOf(rs[n]) = rs[n].start + rs[n].len /\ EndOf(rs[n]) =< NPages
    BY <1>1
  <2> QED BY <2>1, <2>2, <2>3
<1>9. GoodBlock(b)
  <2>1. b.start \in Pages /\ b.len \in 1 .. NPages BY <1>0, <1>8 DEF Pages
  <2>2. b = [start |-> b.start, len |-> b.len] BY DEF Taken
  <2> QED BY <2>1, <2>2, <1>8 DEF GoodBlock
<1>10. /\ b \in VaRanges /\ b.start \in Pages
       /\ \A p : p \in PagesOf(b) <=> p \in Nat /\ b.start =< p /\ p < EndOf(b)
  BY <1>9, BlockNumbers DEF GoodBlock
<1>11. \A m \in DOMAIN rs :
        /\ rt[m].start = rs[m].start /\ rt[m].len =< rs[m].len /\ rt[m].len \in Nat
        /\ EndOf(rt[m]) \in Nat /\ EndOf(rt[m]) = rt[m].start + rt[m].len
        /\ EndOf(rt[m]) =< EndOf(rs[m])
  <2> TAKE m \in DOMAIN rs
  <2>1. rt[m] \in VaRanges BY <1>1, <1>4, <1>5
  <2>2. /\ rt[m].len \in Nat /\ EndOf(rt[m]) = rt[m].start + rt[m].len
        /\ EndOf(rt[m]) \in Nat
    BY <2>1, RangeNumbers
  <2>3. rt[m].start = rs[m].start /\ rt[m].len =< rs[m].len
    <3>1. rs[m].len \in Nat BY <1>1
    <3>2. CASE m = n BY <3>1, <3>2, <1>5
    <3>3. CASE m # n BY <3>1, <3>3, <1>4
    <3> QED BY <3>2, <3>3
  <2> QED BY <2>2, <2>3, <1>1
<1>12. \A m \in DOMAIN rs : m # n => Apart(b, rs[m])
  <2> TAKE m \in DOMAIN rs
  <2>1. /\ rs[m].start \in Nat /\ rs[m].len \in Nat /\ EndOf(rs[m]) \in Nat
        /\ rs[n].start \in Nat /\ m \in Nat /\ n \in Nat
    BY <1>1
  <2>2. m < n /\ rs[m].len > 0 => EndOf(rs[m]) =< rs[n].start BY <1>1
  <2>3. n < m /\ rs[n].len > 0 => EndOf(rs[n]) =< rs[m].start BY <1>1
  <2> QED BY <2>1, <2>2, <2>3, <1>8 DEF Apart
<1>13. Apart(b, rt[n]) BY <1>5, <1>7, <1>8 DEF Apart
<1>14. \A c \in B : Apart(b, c) /\ Apart(c, b) /\ c # b
  <2> TAKE c \in B
  <2>1. Apart(c, rs[n]) /\ c.start \in Nat /\ c.len \in Nat \ {0} /\ EndOf(c) = c.start + c.len
    BY <1>2
  <2>2. /\ rs[n].start \in Nat /\ EndOf(rs[n]) \in Nat /\ EndOf(c) \in Nat
        /\ b.start \in Nat /\ EndOf(b) \in Nat /\ EndOf(c) > c.start
        /\ EndOf(b) > b.start
    <3>1. /\ rs[n].start \in Nat /\ EndOf(rs[n]) \in Nat /\ EndOf(c) \in Nat
      BY <1>1, <1>2
    <3>2. b.start \in Nat /\ EndOf(b) \in Nat /\ EndOf(b) = b.start + k BY <3>1, <1>8
    <3>3. EndOf(b) > b.start BY <3>2
    <3>4. EndOf(c) > c.start BY <2>1
    <3> QED BY <3>1, <3>2, <3>3, <3>4
  <2>3. EndOf(c) =< rs[n].start \/ EndOf(rs[n]) =< c.start
    BY <2>1, <1>8 DEF Apart
  <2>4. EndOf(c) =< b.start \/ EndOf(b) =< c.start
    <3>1. b.start >= rs[n].start /\ EndOf(b) = EndOf(rs[n]) BY <1>8
    <3> QED BY <2>2, <2>3, <3>1
  <2>5. c # b BY <2>2, <2>4
  <2> QED BY <2>4, <2>5 DEF Apart
<1>15. RangeOrder(rt)
  <2>1. \A m \in DOMAIN rt : rt[m].start > 0 /\ EndOf(rt[m]) =< NPages
    BY <1>0, <1>1, <1>4, <1>11
  <2>2. ASSUME NEW m \in DOMAIN rt, NEW j \in DOMAIN rt, m < j, rt[m].len > 0
        PROVE  EndOf(rt[m]) =< rt[j].start
    <3>1. rs[m].len > 0 BY <2>2, <1>1, <1>4, <1>11
    <3>2. EndOf(rs[m]) =< rs[j].start BY <3>1, <2>2, <1>1, <1>4
    <3> QED BY <3>2, <1>1, <1>4, <1>11
  <2> QED BY <2>1, <2>2 DEF RangeOrder
<1>16. BlocksApart(rt, B \cup {b})
  <2>1. \A c \in B \cup {b} : GoodBlock(c)
    BY <1>9 DEF ArrayInv, BlocksApart
  <2>2. \A c, d \in B \cup {b} : c # d => Apart(c, d) BY <1>2, <1>14
  <2>3. ASSUME NEW c \in B, NEW m \in DOMAIN rt PROVE Apart(c, rt[m])
    <3>1. Apart(c, rs[m]) /\ EndOf(c) \in Nat /\ c.start \in Nat BY <1>2, <1>4
    <3>2. /\ rt[m].start = rs[m].start /\ rt[m].len =< rs[m].len /\ rt[m].len \in Nat
          /\ rs[m].start \in Nat /\ rs[m].len \in Nat /\ EndOf(rs[m]) \in Nat
          /\ EndOf(rt[m]) \in Nat /\ EndOf(rt[m]) =< EndOf(rs[m])
      BY <1>1, <1>4, <1>11
    <3> QED BY <3>1, <3>2 DEF Apart
  <2>4. \A m \in DOMAIN rt : Apart(b, rt[m]) BY <1>4, <1>12, <1>13
  <2> QED BY <2>1, <2>2, <2>3, <2>4 DEF BlocksApart
<1>17. Preceded(rt, B \cup {b})
  <2>1. rt[n].start =< b.start /\ n \in DOMAIN rt BY <1>4, <1>5, <1>8
  <2>2. \A c \in B : \E m \in DOMAIN rs : rs[m].start =< c.start BY DEF ArrayInv, Preceded
  <2>3. \A c \in B : \E m \in DOMAIN rt : rt[m].start =< c.start BY <2>2, <1>4, <1>11
  <2> QED BY <2>1, <2>3 DEF Preceded
<1>18. Shadowed(rt, B \cup {b})
  <2>1. ASSUME NEW c \in B, NEW j \in DOMAIN rt,
               c.start < rt[j].start, rt[j].start < EndOf(c)
        PROVE  \E m \in DOMAIN rt : m > j /\ rt[m].start =< c.start
    <3>1. c.start < rs[j].start /\ rs[j].start < EndOf(c) BY <2>1, <1>4, <1>11
    <3>2. PICK m \in DOMAIN rs : m > j /\ rs[m].start =< c.start
      BY <3>1, <1>4 DEF ArrayInv, Shadowed
    <3> QED BY <3>2, <1>4, <1>11
  <2>2. ASSUME NEW j \in DOMAIN rt, b.start < rt[j].start, rt[j].start < EndOf(b)
        PROVE  \E m \in DOMAIN rt : m > j /\ rt[m].start =< b.start
    <3>1. rs[j].start > rs[n].start /\ rs[j].start < EndOf(rs[n]) /\ j \in DOMAIN rs
      BY <2>2, <1>1, <1>4, <1>8, <1>11
    <3>2. j # n BY <3>1, <1>1
    <3>3. ~(n < j)
      <4>1. n < j => EndOf(rs[n]) =< rs[j].start
        <5>1. rs[n].len > 0 BY <1>8
        <5> QED BY <5>1, <3>1, <1>1
      <4>2. EndOf(rs[n]) \in Nat /\ rs[j].start \in Nat BY <3>1, <1>1
      <4> QED BY <4>1, <4>2, <3>1
    <3>4. n > j
      <4>1. n \in Nat /\ j \in Nat BY <1>1, <3>1
      <4> QED BY <4>1, <3>2, <3>3
    <3> QED BY <3>4, <1>4, <1>5, <1>8
  <2> QED BY <2>1, <2>2 DEF Shadowed
<1>19. PagesOf(b) \subseteq FreeOf(rs)
  <2>1. rs[n] \in VaRanges BY <1>1
  <2>2. \A p : p \in PagesOf(rs[n]) <=> p \in Nat /\ rs[n].start =< p /\ p < EndOf(rs[n])
    BY <2>1, RangeNumbers
  <2>3. rs[n].start \in Nat BY <1>1
  <2>4. ASSUME NEW p \in PagesOf(b) PROVE p \in PagesOf(rs[n])
    BY <2>2, <2>3, <1>8, <1>10
  <2> QED BY <2>4 DEF FreeOf
<1>20. FreeOf(rt) = FreeOf(rs) \ PagesOf(b)
  <2>1. ASSUME NEW m \in DOMAIN rs, m # n
        PROVE  PagesOf(rt[m]) = PagesOf(rs[m]) /\ PagesOf(b) \cap PagesOf(rs[m]) = {}
    <3>1. rs[m] \in VaRanges /\ Apart(b, rs[m]) BY <1>1, <1>12, <2>1
    <3>2. PagesOf(b) \cap PagesOf(rs[m]) = {} BY <3>1, <1>10, ApartPages
    <3> QED BY <3>2, <2>1, <1>4
  <2>2. PagesOf(rt[n]) = PagesOf(rs[n]) \ PagesOf(b)
    <3>1. rs[n] \in VaRanges /\ rt[n] \in VaRanges BY <1>1, <1>5
    <3>2. /\ \A p : p \in PagesOf(rs[n]) <=> p \in Nat /\ rs[n].start =< p /\ p < EndOf(rs[n])
          /\ \A p : p \in PagesOf(rt[n]) <=> p \in Nat /\ rt[n].start =< p /\ p < EndOf(rt[n])
      BY <3>1, RangeNumbers
    <3>3. /\ EndOf(rt[n]) = b.start /\ rt[n].start = rs[n].start /\ EndOf(b) = EndOf(rs[n])
          /\ b.start \in Nat /\ rs[n].start =< b.start /\ rs[n].start \in Nat
          /\ EndOf(b) \in Nat /\ b.start =< EndOf(b)
      BY <1>1, <1>5, <1>7, <1>8
    <3>4. ASSUME NEW p PROVE p \in PagesOf(rt[n]) <=> p \in PagesOf(rs[n]) /\ p \notin PagesOf(b)
      BY <3>2, <3>3, <1>10
    <3> QED BY <3>4
  <2>3. ASSUME NEW p PROVE p \in FreeOf(rt) <=> p \in FreeOf(rs) /\ p \notin PagesOf(b)
    BY <2>1, <2>2, <1>4 DEF FreeOf
  <2> QED BY <2>3
<1>21. ArrayInv(rt, B \cup {b}) BY <1>6, <1>15, <1>16, <1>17, <1>18 DEF ArrayInv
<1> QED BY <1>4, <1>6, <1>8, <1>9, <1>10, <1>11, <1>14, <1>19, <1>20, <1>21 DEF SameLen, FreeLess

\* A range that ends where the block starts, or starts where it ends; one
\* that mem_va_unmap() stops at.
Meets(r, b) == r.start = EndOf(b) \/ EndOf(r) = b.start
Takes(r, b) == Meets(r, b) \/ r.start < b.start

\* The code's tests, which are on 32-bit addresses, amount to that.
LEMMA TestsAgree ==
    ASSUME NEW m, GoodMapping(m), NEW r \in VaRanges, r.start > 0
    PROVE  LET b == BlockOf(m) IN
           /\ Adjoins(r, m) <=> Meets(r, b)
           /\ r.start = UnmapEnd(m) <=> r.start = EndOf(b)
           /\ r.start < UnmapStart(m) <=> r.start < b.start
           /\ Joined(r, m) = [start |-> IF r.start = EndOf(b) THEN b.start ELSE r.start,
                              len |-> r.len + b.len]
<1> DEFINE b == BlockOf(m)
<1>1. /\ GoodBlock(b) /\ UnmapStart(m) = b.start /\ UnmapLen(m) = b.len
      /\ UnmapEnd(m) = IF EndOf(b) = NPages THEN 0 ELSE EndOf(b)
  BY DEF GoodMapping
<1>2. r.start \in Nat /\ r.start < NPages /\ NPages \in Nat BY RangeNumbers, VaAssumption
<1> HIDE DEF b
<1>3. EndOf(b) \in Nat BY <1>1, BlockNumbers
<1>4. r.start = UnmapEnd(m) <=> r.start = EndOf(b) BY <1>1, <1>2, <1>3
<1>5. Adjoins(r, m) <=> Meets(r, b) BY <1>1, <1>4 DEF Adjoins, Meets
<1>6. Joined(r, m) = [start |-> IF r.start = EndOf(b) THEN b.start ELSE r.start,
                      len |-> r.len + b.len]
  BY <1>1, <1>4, Zenon DEF Joined
<1> QED BY <1>1, <1>4, <1>5, <1>6 DEF b

\* mem_va_unmap() finds a range to stop at,
LEMMA SomeTakes ==
    ASSUME NEW rs, NEW B, ArrayInv(rs, B), NEW b \in B
    PROVE  \E n \in DOMAIN rs : Takes(rs[n], b)
<1>1. PICK n \in DOMAIN rs : rs[n].start =< b.start BY DEF ArrayInv, Preceded
<1>2. /\ rs[n].start \in Nat /\ rs[n].len \in Nat
      /\ EndOf(rs[n]) \in Nat /\ EndOf(rs[n]) = rs[n].start + rs[n].len
  BY ArrayFacts
<1>3. /\ b.start \in Nat /\ b.len \in Nat \ {0} /\ EndOf(b) = b.start + b.len
      /\ Apart(b, rs[n])
  BY ArrayFacts
<1>4. Takes(rs[n], b) BY <1>1, <1>2, <1>3 DEF Takes, Meets, Apart
<1> QED BY <1>4

\* and all ranges after that are above the block.
LEMMA AboveLast ==
    ASSUME NEW rs, NEW B, ArrayInv(rs, B), NEW b \in B, NEW n \in DOMAIN rs,
           \A k \in DOMAIN rs : k > n => ~Takes(rs[k], b)
    PROVE  \A k \in DOMAIN rs : k > n => rs[k].start >= EndOf(b)
<1>1. b.start \in Nat /\ b.len \in Nat \ {0} /\ EndOf(b) = b.start + b.len
  BY ArrayFacts
<1>2. Len(rs) \in Nat /\ DOMAIN rs = 1 .. Len(rs) BY ArrayFacts
<1>3. ASSUME NEW k \in DOMAIN rs, k > n
      PROVE  rs[k].start > b.start
  <2>1. /\ rs[k].start \in Nat /\ rs[k].len \in Nat /\ EndOf(rs[k]) = rs[k].start + rs[k].len
        /\ Apart(b, rs[k])
    BY ArrayFacts
  <2>2. ~Takes(rs[k], b) BY <1>3
  <2> QED BY <2>1, <2>2, <1>1 DEF Takes, Meets, Apart
<1>4. ASSUME NEW k \in DOMAIN rs, k > n, ~(rs[k].start >= EndOf(b)) PROVE FALSE
  <2>1. rs[k].start \in Nat BY ArrayFacts
  <2>2. b.start < rs[k].start /\ rs[k].start < EndOf(b) BY <1>1, <1>3, <1>4, <2>1
  <2>3. PICK j \in DOMAIN rs : j > k /\ rs[j].start =< b.start
    BY <2>2 DEF ArrayInv, Shadowed
  <2>4. j > n BY <1>2, <1>4, <2>3
  <2>5. rs[j].start > b.start BY <2>4, <1>3
  <2>6. rs[j].start \in Nat BY ArrayFacts
  <2> QED BY <2>3, <2>5, <2>6, <1>1
<1> QED BY <1>4

\* The block is joined to a range.
JoinedTo(rs, n, b, rt) ==
    rt = [rs EXCEPT ![n] = [start |-> IF rs[n].start = EndOf(b) THEN b.start ELSE rs[n].start,
                            len |-> rs[n].len + b.len]]

LEMMA JoinStep ==
    ASSUME NEW rs, NEW B, ArrayInv(rs, B), NEW b \in B, NEW n \in DOMAIN rs,
           Meets(rs[n], b), \A k \in DOMAIN rs : k > n => rs[k].start >= EndOf(b),
           NEW rt, JoinedTo(rs, n, b, rt)
    PROVE  /\ ArrayInv(rt, B \ {b}) /\ FreeOf(rt) = FreeOf(rs) \cup PagesOf(b)
           /\ SameLen(rs, rt)
<1> DEFINE L == Len(rs)
<1>0. NPages \in Nat \ {0} BY VaAssumption
<1>1. /\ L \in Nat /\ DOMAIN rs = 1 .. L
      /\ \A m \in DOMAIN rs :
            /\ rs[m] \in VaRanges /\ rs[m].start \in Nat \ {0} /\ rs[m].len \in Nat
            /\ EndOf(rs[m]) \in Nat /\ EndOf(rs[m]) = rs[m].start + rs[m].len
            /\ EndOf(rs[m]) =< NPages
      /\ \A m, j \in DOMAIN rs :
            m < j /\ rs[m].len > 0 => EndOf(rs[m]) =< rs[j].start
  BY ArrayFacts
<1>2. /\ \A c \in B :
            /\ c \in VaRanges /\ c.start \in Nat \ {0} /\ c.len \in Nat \ {0}
            /\ EndOf(c) \in Nat /\ EndOf(c) = c.start + c.len /\ EndOf(c) =< NPages
      /\ \A c, d \in B : c # d => Apart(c, d)
      /\ \A c \in B : \A m \in DOMAIN rs : Apart(c, rs[m])
  BY ArrayFacts
<1>3. rs \in Seq(VaRanges) BY DEF ArrayInv
<1>4. /\ b \in VaRanges /\ b.start \in Nat \ {0} /\ b.len \in Nat \ {0}
      /\ EndOf(b) \in Nat /\ EndOf(b) = b.start + b.len /\ EndOf(b) =< NPages
  BY <1>2
<1>5. /\ rs[n] \in VaRanges /\ rs[n].start \in Nat \ {0} /\ rs[n].len \in Nat
      /\ EndOf(rs[n]) \in Nat /\ EndOf(rs[n]) = rs[n].start + rs[n].len
      /\ EndOf(rs[n]) =< NPages
  BY <1>1
<1>6. /\ DOMAIN rt = DOMAIN rs
      /\ \A m \in DOMAIN rs : m # n => rt[m] = rs[m]
      /\ rt[n] = [start |-> IF rs[n].start = EndOf(b) THEN b.start ELSE rs[n].start,
                  len |-> rs[n].len + b.len]
  BY <1>3, Zenon DEF JoinedTo
<1>7. rt[n].len = rs[n].len + b.len BY <1>6
<1>8. \/ /\ rs[n].start = EndOf(b) /\ rt[n].start = b.start
         /\ EndOf(rt[n]) = EndOf(rs[n])
      \/ /\ EndOf(rs[n]) = b.start /\ rt[n].start = rs[n].start
         /\ EndOf(rt[n]) = EndOf(b)
  <2>1. EndOf(rt[n]) = rt[n].start + rt[n].len BY DEF EndOf
  <2>2. CASE rs[n].start = EndOf(b)
    <3>1. rt[n].start = b.start BY <2>2, <1>6
    <3> QED BY <3>1, <2>1, <2>2, <1>4, <1>5, <1>7
  <2>3. CASE rs[n].start # EndOf(b)
    <3>1. rt[n].start = rs[n].start BY <2>3, <1>6
    <3>2. EndOf(rs[n]) = b.start BY <2>3 DEF Meets
    <3> QED BY <3>1, <3>2, <2>1, <1>4, <1>5, <1>7
  <2> QED BY <2>2, <2>3
<1>9. /\ rt[n].start \in Nat \ {0} /\ rt[n].len \in Nat \ {0} /\ EndOf(rt[n]) \in Nat
      /\ EndOf(rt[n]) = rt[n].start + rt[n].len /\ EndOf(rt[n]) =< NPages
      /\ rt[n].start =< rs[n].start
  <2>1. EndOf(rt[n]) = rt[n].start + rt[n].len BY DEF EndOf
  <2> QED BY <2>1, <1>0, <1>4, <1>5, <1>7, <1>8
<1>10. rt[n] \in VaRanges
  <2>1. rt[n].start \in Pages /\ rt[n].len \in 0 .. NPages BY <1>0, <1>9 DEF Pages
  <2>2. rt[n] = [start |-> rt[n].start, len |-> rt[n].len] BY <1>6
  <2> QED BY <2>1, <2>2 DEF VaRanges
<1>11. rt \in Seq(VaRanges) /\ Len(rt) = L
  <2>1. rt = [m \in 1 .. L |-> rt[m]] BY <1>1, <1>3 DEF JoinedTo
  <2>2. \A m \in 1 .. L : rt[m] \in VaRanges BY <1>1, <1>6, <1>10
  <2>3. rt \in [1 .. L -> VaRanges] BY <2>1, <2>2
  <2> QED BY <2>3, <1>1
<1>12. RangeOrder(rt)
  <2>1. \A m \in DOMAIN rt : rt[m].start > 0 /\ EndOf(rt[m]) =< NPages
    <3> TAKE m \in DOMAIN rt
    <3>1. CASE m = n BY <3>1, <1>9
    <3>2. CASE m # n
      <4>1. rt[m] = rs[m] /\ rs[m].start \in Nat \ {0} /\ EndOf(rs[m]) =< NPages
        BY <3>2, <1>1, <1>6
      <4> QED BY <4>1
    <3> QED BY <3>1, <3>2
  <2>2. ASSUME NEW m \in DOMAIN rt, NEW j \in DOMAIN rt, m < j, rt[m].len > 0
        PROVE  EndOf(rt[m]) =< rt[j].start
    <3>1. CASE m # n /\ j # n
      <4>1. rt[m] = rs[m] /\ rt[j] = rs[j] BY <3>1, <1>6
      <4> QED BY <4>1, <2>2, <1>1, <1>6
    <3>2. CASE j = n /\ m # n
      <4>1. /\ rt[m] = rs[m] /\ Apart(b, rs[m]) /\ EndOf(rs[m]) =< rs[n].start
            /\ rs[m].start \in Nat /\ rs[m].len \in Nat \ {0}
            /\ EndOf(rs[m]) = rs[m].start + rs[m].len
        <5>1. rt[m] = rs[m] /\ m \in DOMAIN rs BY <3>2, <1>6
        <5>2. rs[m].len > 0 BY <5>1, <2>2
        <5>3. EndOf(rs[m]) =< rs[n].start BY <5>1, <5>2, <2>2, <3>2, <1>1
        <5>4. Apart(b, rs[m]) BY <5>1, <1>2
        <5>5. /\ rs[m].start \in Nat /\ rs[m].len \in Nat
              /\ EndOf(rs[m]) = rs[m].start + rs[m].len
          BY <5>1, <1>1
        <5> QED BY <5>1, <5>2, <5>3, <5>4, <5>5
      <4> QED BY <4>1, <3>2, <1>4, <1>5, <1>8 DEF Apart
    <3>3. CASE m = n
      <4>1. j # n /\ j > n /\ j \in DOMAIN rs BY <2>2, <3>3, <1>1, <1>6
      <4>2. rt[j] = rs[j] /\ rs[j].start >= EndOf(b) /\ rs[j].start \in Nat
        BY <4>1, <1>1, <1>6
      <4>3. rs[n].len > 0 => EndOf(rs[n]) =< rs[j].start BY <4>1, <1>1
      <4> QED BY <4>2, <4>3, <3>3, <1>4, <1>5, <1>8
    <3> QED BY <3>1, <3>2, <3>3
  <2> QED BY <2>1, <2>2 DEF RangeOrder
<1>13. BlocksApart(rt, B \ {b})
  <2>1. \A c \in B \ {b} : GoodBlock(c) BY DEF ArrayInv, BlocksApart
  <2>2. \A c, d \in B \ {b} : c # d => Apart(c, d) BY <1>2
  <2>3. ASSUME NEW c \in B \ {b}, NEW m \in DOMAIN rt PROVE Apart(c, rt[m])
    <3>1. CASE m # n BY <3>1, <1>2, <1>6
    <3>2. CASE m = n
      <4>1. /\ Apart(c, b) /\ Apart(c, rs[n]) /\ c.start \in Nat /\ c.len \in Nat \ {0}
            /\ EndOf(c) = c.start + c.len
        BY <1>2
      <4> QED BY <4>1, <3>2, <1>4, <1>5, <1>8, <1>9 DEF Apart
    <3> QED BY <3>1, <3>2
  <2> QED BY <2>1, <2>2, <2>3 DEF BlocksApart
<1>14. \A m \in DOMAIN rs : rt[m].start =< rs[m].start /\ rt[m].start \in Nat
  <2> TAKE m \in DOMAIN rs
  <2>1. rs[m].start \in Nat BY <1>1
  <2>2. CASE m = n BY <2>2, <1>9
  <2>3. CASE m # n BY <2>1, <2>3, <1>6
  <2> QED BY <2>2, <2>3
<1>15. Preceded(rt, B \ {b})
  <2> SUFFICES ASSUME NEW c \in B \ {b} PROVE \E m \in DOMAIN rt : rt[m].start =< c.start
    BY DEF Preceded
  <2>1. PICK m \in DOMAIN rs : rs[m].start =< c.start BY DEF ArrayInv, Preceded
  <2>2. rt[m].start =< rs[m].start /\ rt[m].start \in Nat /\ rs[m].start \in Nat
    BY <1>1, <1>14
  <2>3. c.start \in Nat BY <1>2
  <2> QED BY <2>1, <2>2, <2>3, <1>6
<1>16. Shadowed(rt, B \ {b})
  <2> SUFFICES ASSUME NEW c \in B \ {b}, NEW k \in DOMAIN rt,
                      c.start < rt[k].start, rt[k].start < EndOf(c)
               PROVE  \E m \in DOMAIN rt : m > k /\ rt[m].start =< c.start
    BY DEF Shadowed
  <2>0. c \in B /\ c.start \in Nat /\ EndOf(c) \in Nat BY <1>2
  <2>1. rt[k].start = rs[k].start
    <3>1. CASE k # n BY <3>1, <1>6
    <3>2. CASE k = n
      <4>1. Apart(c, b) /\ c.len \in Nat \ {0} /\ EndOf(c) = c.start + c.len BY <1>2
      <4>2. rt[n].start # b.start BY <4>1, <3>2, <2>0, <1>4 DEF Apart
      <4> QED BY <4>2, <3>2, <1>8
    <3> QED BY <3>1, <3>2
  <2>2. PICK m \in DOMAIN rs : m > k /\ rs[m].start =< c.start
    BY <2>0, <2>1, <1>6 DEF ArrayInv, Shadowed
  <2>3. rt[m].start =< rs[m].start /\ rt[m].start \in Nat /\ rs[m].start \in Nat
    BY <1>1, <1>14
  <2> QED BY <2>0, <2>2, <2>3, <1>6
<1>17. FreeOf(rt) = FreeOf(rs) \cup PagesOf(b)
  <2>1. /\ \A p : p \in PagesOf(b) <=> p \in Nat /\ b.start =< p /\ p < EndOf(b)
        /\ \A p : p \in PagesOf(rs[n]) <=> p \in Nat /\ rs[n].start =< p /\ p < EndOf(rs[n])
        /\ \A p : p \in PagesOf(rt[n]) <=> p \in Nat /\ rt[n].start =< p /\ p < EndOf(rt[n])
    BY <1>4, <1>5, <1>10, RangeNumbers
  <2>2. ASSUME NEW p PROVE p \in PagesOf(rt[n]) <=> p \in PagesOf(rs[n]) \/ p \in PagesOf(b)
    BY <2>1, <1>4, <1>5, <1>8
  <2>3. \A m \in DOMAIN rs : m # n => PagesOf(rt[m]) = PagesOf(rs[m]) BY <1>6
  <2>4. ASSUME NEW p PROVE p \in FreeOf(rt) <=> p \in FreeOf(rs) \/ p \in PagesOf(b)
    BY <2>2, <2>3, <1>6 DEF FreeOf
  <2> QED BY <2>4
<1> QED BY <1>11, <1>12, <1>13, <1>15, <1>16, <1>17 DEF ArrayInv, SameLen

\* The block becomes a range of its own, after the last one that starts lower.
LEMMA InsertStep ==
    ASSUME NEW rs, NEW B, ArrayInv(rs, B), NEW b \in B, NEW n \in DOMAIN rs,
           rs[n].start < b.start, ~Meets(rs[n], b),
           \A k \in DOMAIN rs : k > n => rs[k].start >= EndOf(b),
           NEW rt, InsertedAt(rs, n, b, rt)
    PROVE  /\ ArrayInv(rt, B \ {b}) /\ FreeOf(rt) = FreeOf(rs) \cup PagesOf(b)
           /\ Len(rt) = Len(rs) + 1
<1> DEFINE L == Len(rs)
<1>0. NPages \in Nat \ {0} BY VaAssumption
<1>1. /\ L \in Nat /\ DOMAIN rs = 1 .. L
      /\ \A m \in DOMAIN rs :
            /\ rs[m] \in VaRanges /\ rs[m].start \in Nat \ {0} /\ rs[m].len \in Nat
            /\ EndOf(rs[m]) \in Nat /\ EndOf(rs[m]) = rs[m].start + rs[m].len
            /\ EndOf(rs[m]) =< NPages
      /\ \A m, j \in DOMAIN rs :
            m < j /\ rs[m].len > 0 => EndOf(rs[m]) =< rs[j].start
  BY ArrayFacts
<1>2. /\ \A c \in B :
            /\ c \in VaRanges /\ c.start \in Nat \ {0} /\ c.len \in Nat \ {0}
            /\ EndOf(c) \in Nat /\ EndOf(c) = c.start + c.len /\ EndOf(c) =< NPages
      /\ \A c, d \in B : c # d => Apart(c, d)
      /\ \A c \in B : \A m \in DOMAIN rs : Apart(c, rs[m])
  BY ArrayFacts
<1>3. rs \in Seq(VaRanges) /\ b \in VaRanges BY <1>2 DEF ArrayInv
<1>4. /\ b.start \in Nat \ {0} /\ b.len \in Nat \ {0}
      /\ EndOf(b) \in Nat /\ EndOf(b) = b.start + b.len /\ EndOf(b) =< NPages
  BY <1>2
<1>5. n \in 1 .. L BY <1>1
<1>6. /\ rt \in Seq(VaRanges) /\ Len(rt) = L + 1 /\ DOMAIN rt = 1 .. L + 1
      /\ \A i \in 1 .. n : rt[i] = rs[i]
      /\ rt[n + 1] = b
      /\ \A i \in n + 1 .. L : rt[i + 1] = rs[i]
  <2>1. /\ rt \in Seq(VaRanges) /\ Len(rt) = L + 1
        /\ \A i \in 1 .. n : rt[i] = rs[i]
        /\ rt[n + 1] = b
        /\ \A i \in n + 1 .. L : rt[i + 1] = rs[i]
    BY <1>3, <1>5, Inserted
  <2> HIDE DEF L
  <2>2. DOMAIN rt = 1 .. Len(rt) BY <2>1
  <2> QED BY <2>1, <2>2
<1> DEFINE Old(i) == IF i =< n THEN i ELSE i - 1
           New(i) == IF i =< n THEN i ELSE i + 1
<1>7. \A i \in DOMAIN rt : i # n + 1 => Old(i) \in DOMAIN rs /\ rt[i] = rs[Old(i)]
  <2> SUFFICES ASSUME NEW i \in DOMAIN rt, i # n + 1
               PROVE  Old(i) \in DOMAIN rs /\ rt[i] = rs[Old(i)]
    OBVIOUS
  <2>1. i \in 1 .. L + 1 BY <1>6
  <2>2. CASE i =< n
    <3>1. i \in 1 .. n BY <2>1, <2>2, <1>5
    <3> QED BY <3>1, <2>2, <1>1, <1>5, <1>6
  <2>3. CASE ~(i =< n)
    <3>1. i - 1 \in n + 1 .. L /\ (i - 1) + 1 = i BY <2>1, <2>3, <1>1, <1>5
    <3>2. rt[i] = rs[i - 1] BY <3>1, <1>6
    <3> QED BY <3>1, <3>2, <2>3, <1>1, <1>5
  <2> QED BY <2>2, <2>3
<1>8. \A i \in DOMAIN rs : /\ New(i) \in DOMAIN rt /\ rt[New(i)] = rs[i] /\ New(i) # n + 1
                           /\ Old(New(i)) = i
  <2> TAKE i \in DOMAIN rs
  <2>1. i \in 1 .. L BY <1>1
  <2>2. CASE i =< n
    <3>1. i \in 1 .. n BY <2>1, <2>2, <1>5
    <3> QED BY <3>1, <2>2, <1>1, <1>5, <1>6
  <2>3. CASE ~(i =< n)
    <3>1. i \in n + 1 .. L BY <2>1, <2>3, <1>1, <1>5
    <3>2. rt[i + 1] = rs[i] BY <3>1, <1>6
    <3> QED BY <3>1, <3>2, <2>3, <1>1, <1>5, <1>6
  <2> QED BY <2>2, <2>3
<1>9. \A i, j \in Nat : i < j /\ i # n + 1 /\ j # n + 1 => Old(i) < Old(j)
  BY <1>5
<1>10. \A i, j \in Nat : i < j => New(i) < New(j) BY <1>5
<1>11. \A i \in DOMAIN rt : i \in Nat /\ (i < n + 1 => Old(i) =< n) /\ (i > n + 1 => Old(i) > n)
  BY <1>1, <1>5, <1>6
<1> HIDE DEF Old, New
<1>12. RangeOrder(rt)
  <2>1. \A m \in DOMAIN rt : rt[m].start > 0 /\ EndOf(rt[m]) =< NPages
    <3> TAKE m \in DOMAIN rt
    <3>1. CASE m = n + 1 BY <3>1, <1>4, <1>6
    <3>2. CASE m # n + 1
      <4>1. rt[m] = rs[Old(m)] /\ Old(m) \in DOMAIN rs BY <3>2, <1>7
      <4>2. rs[Old(m)].start \in Nat \ {0} /\ EndOf(rs[Old(m)]) =< NPages BY <4>1, <1>1
      <4> QED BY <4>1, <4>2
    <3> QED BY <3>1, <3>2
  <2>2. ASSUME NEW m \in DOMAIN rt, NEW j \in DOMAIN rt, m < j, rt[m].len > 0
        PROVE  EndOf(rt[m]) =< rt[j].start
    <3>0. m \in Nat /\ j \in Nat BY <1>11
    <3>1. CASE m # n + 1 /\ j # n + 1
      <4>1. /\ Old(m) \in DOMAIN rs /\ rt[m] = rs[Old(m)]
            /\ Old(j) \in DOMAIN rs /\ rt[j] = rs[Old(j)]
        BY <3>1, <1>7
      <4>2. Old(m) < Old(j) BY <3>0, <3>1, <2>2, <1>9
      <4> QED BY <4>1, <4>2, <2>2, <1>1
    <3>2. CASE j = n + 1 /\ m # n + 1
      <4>1. /\ Old(m) \in DOMAIN rs /\ rt[m] = rs[Old(m)] /\ Old(m) =< n
        BY <2>2, <3>2, <1>7, <1>11
      <4>2. /\ rs[Old(m)].start \in Nat /\ rs[Old(m)].len \in Nat \ {0}
            /\ EndOf(rs[Old(m)]) \in Nat
            /\ EndOf(rs[Old(m)]) = rs[Old(m)].start + rs[Old(m)].len
        <5>1. rs[Old(m)].len > 0 BY <4>1, <2>2
        <5> QED BY <5>1, <4>1, <1>1
      <4>3. EndOf(rs[Old(m)]) =< b.start
        <5>1. CASE Old(m) = n
          <6>1. Apart(b, rs[n]) BY <1>2
          <6> QED BY <6>1, <5>1, <4>2, <1>4 DEF Apart
        <5>2. CASE Old(m) # n
          <6>1. Old(m) < n BY <5>2, <4>1, <1>1, <1>5
          <6>2. EndOf(rs[Old(m)]) =< rs[n].start BY <6>1, <4>1, <4>2, <1>1
          <6>3. rs[n].start \in Nat BY <1>1
          <6> QED BY <6>2, <6>3, <4>2, <1>4
        <5> QED BY <5>1, <5>2
      <4> QED BY <4>1, <4>3, <3>2, <1>6
    <3>3. CASE m = n + 1
      <4>1. j > n + 1 BY <2>2, <3>3, <3>0, <1>5
      <4>2. Old(j) \in DOMAIN rs /\ rt[j] = rs[Old(j)] /\ Old(j) > n
        BY <4>1, <3>0, <1>5, <1>7, <1>11
      <4>3. rs[Old(j)].start >= EndOf(b) /\ rs[Old(j)].start \in Nat BY <4>2, <1>1
      <4> QED BY <4>2, <4>3, <3>3, <1>4, <1>6
    <3> QED BY <3>1, <3>2, <3>3
  <2> QED BY <2>1, <2>2 DEF RangeOrder
<1>13. BlocksApart(rt, B \ {b})
  <2>1. \A c \in B \ {b} : GoodBlock(c) BY DEF ArrayInv, BlocksApart
  <2>2. \A c, d \in B \ {b} : c # d => Apart(c, d) BY <1>2
  <2>3. ASSUME NEW c \in B \ {b}, NEW m \in DOMAIN rt PROVE Apart(c, rt[m])
    <3>1. CASE m = n + 1 BY <3>1, <1>2, <1>6
    <3>2. CASE m # n + 1 BY <3>2, <1>2, <1>7
    <3> QED BY <3>1, <3>2
  <2> QED BY <2>1, <2>2, <2>3 DEF BlocksApart
<1>15. Preceded(rt, B \ {b})
  <2> SUFFICES ASSUME NEW c \in B \ {b} PROVE \E m \in DOMAIN rt : rt[m].start =< c.start
    BY DEF Preceded
  <2>1. PICK m \in DOMAIN rs : rs[m].start =< c.start BY DEF ArrayInv, Preceded
  <2>2. New(m) \in DOMAIN rt /\ rt[New(m)].start =< c.start BY <2>1, <1>8
  <2> QED BY <2>2
<1>16. Shadowed(rt, B \ {b})
  <2> SUFFICES ASSUME NEW c \in B \ {b}, NEW k \in DOMAIN rt,
                      c.start < rt[k].start, rt[k].start < EndOf(c)
               PROVE  \E m \in DOMAIN rt : m > k /\ rt[m].start =< c.start
    BY DEF Shadowed
  <2>0. /\ c \in B /\ c.start \in Nat /\ EndOf(c) \in Nat /\ Apart(c, b)
        /\ c.len \in Nat \ {0} /\ EndOf(c) = c.start + c.len
    BY <1>2
  <2>1. k # n + 1
    <3>1. rt[n + 1] = b BY <1>6
    <3> QED BY <3>1, <2>0, <1>4 DEF Apart
  <2>2. Old(k) \in DOMAIN rs /\ rt[k] = rs[Old(k)] BY <2>1, <1>7
  <2>3. PICK m \in DOMAIN rs : m > Old(k) /\ rs[m].start =< c.start
    BY <2>0, <2>2 DEF ArrayInv, Shadowed
  <2>4. New(m) \in DOMAIN rt /\ rt[New(m)].start =< c.start BY <2>3, <1>8
  <2>5. New(m) > k
    <3>1. Old(New(m)) = m /\ New(m) # n + 1 /\ New(m) \in Nat /\ k \in Nat BY <2>4, <1>8, <1>11
    <3>2. ~(New(m) < k)
      <4>1. New(m) < k => Old(New(m)) < Old(k) BY <3>1, <2>1, <1>9
      <4>2. m \in Nat /\ Old(k) \in Nat BY <2>2, <1>1
      <4> QED BY <4>1, <4>2, <3>1, <2>3
    <3>3. New(m) # k
      <4>1. m \in Nat /\ Old(k) \in Nat BY <2>2, <1>1
      <4> QED BY <4>1, <3>1, <2>3
    <3> QED BY <3>1, <3>2, <3>3
  <2> QED BY <2>4, <2>5
<1>17. FreeOf(rt) = FreeOf(rs) \cup PagesOf(b)
  <2>1. ASSUME NEW p \in FreeOf(rt) PROVE p \in FreeOf(rs) \cup PagesOf(b)
    <3>1. PICK m \in DOMAIN rt : p \in PagesOf(rt[m]) BY DEF FreeOf
    <3>2. CASE m = n + 1 BY <3>1, <3>2, <1>6
    <3>3. CASE m # n + 1 BY <3>1, <3>3, <1>7 DEF FreeOf
    <3> QED BY <3>2, <3>3
  <2>2. ASSUME NEW p \in FreeOf(rs) PROVE p \in FreeOf(rt)
    <3>1. PICK m \in DOMAIN rs : p \in PagesOf(rs[m]) BY DEF FreeOf
    <3> QED BY <3>1, <1>8 DEF FreeOf
  <2>3. PagesOf(b) \subseteq FreeOf(rt)
    <3>1. n + 1 \in DOMAIN rt BY <1>5, <1>6
    <3> QED BY <3>1, <1>6 DEF FreeOf
  <2> QED BY <2>1, <2>2, <2>3
<1> QED BY <1>6, <1>12, <1>13, <1>15, <1>16, <1>17 DEF ArrayInv

-----------------------------------------------------------------------------
(***************************************************************************)
(* The page directory: what each change to it changes for the MMU.         *)
(***************************************************************************)
TransOf(d, p) ==
    LET e == d[p \div LP] IN
    CASE e.kind = "blank" -> Unmapped
      [] e.kind = "large" -> Pte(e.pte.page - (e.pte.page % LP) + (p % LP), e.pte.flags)
      [] e.kind = "table" -> e.table[p % LP]

Directories == [0 .. (NPages \div LP) - 1 -> Pdes]

LEMMA TransCases ==
    ASSUME NEW d, NEW p, NEW e, e = d[p \div LP]
    PROVE  /\ e.kind = "blank" => TransOf(d, p) = Unmapped
           /\ e.kind = "large" => TransOf(d, p) =
                    Pte(e.pte.page - (e.pte.page % LP) + (p % LP), e.pte.flags)
           /\ e.kind = "table" => TransOf(d, p) = e.table[p % LP]
<1>1. ASSUME e.kind = "blank" PROVE TransOf(d, p) = Unmapped
  <2>1. e.kind # "large" /\ e.kind # "table" BY <1>1
  <2> QED BY <1>1, <2>1, Zenon DEF TransOf
<1>2. ASSUME e.kind = "large"
      PROVE  TransOf(d, p) = Pte(e.pte.page - (e.pte.page % LP) + (p % LP), e.pte.flags)
  <2>1. e.kind # "blank" /\ e.kind # "table" BY <1>2
  <2> QED BY <1>2, <2>1, Zenon DEF TransOf
<1>3. ASSUME e.kind = "table" PROVE TransOf(d, p) = e.table[p % LP]
  <2>1. e.kind # "blank" /\ e.kind # "large" BY <1>3
  <2> QED BY <1>3, <2>1, Zenon DEF TransOf
<1> QED BY <1>1, <1>2, <1>3

\* A page's place in the directory and in its table.
LEMMA PageIndex ==
    ASSUME NEW p \in Pages
    PROVE  /\ p \in Nat /\ p < NPages
           /\ p \div LP \in 0 .. (NPages \div LP) - 1
           /\ p % LP \in 0 .. LP - 1
           /\ p = (LP * (p \div LP)) + (p % LP)
<1>1. LP \in Nat \ {0} /\ NPages \in Nat \ {0} /\ NPages % LP = 0 BY VaAssumption
<1>2. p \in Nat /\ p \in Int /\ p < NPages BY <1>1 DEF Pages
<1>3. p % LP \in 0 .. LP - 1 /\ p = (LP * (p \div LP)) + (p % LP) /\ p \div LP \in Nat
  BY <1>1, <1>2, DivModDef
<1>4. NPages \div LP \in Nat /\ NPages = (LP * (NPages \div LP)) + (NPages % LP)
  <2>1. NPages \in Int BY <1>1
  <2> QED BY <2>1, <1>1, DivModDef
<1>5. p \div LP < NPages \div LP
  <2> DEFINE x == p \div LP
             y == NPages \div LP
  <2>1. x \in Nat /\ y \in Nat /\ p = (LP * x) + (p % LP) /\ NPages = (LP * y) + 0
    BY <1>1, <1>3, <1>4
  <2> HIDE DEF x, y
  <2>2. LP * x = x * LP /\ LP * y = y * LP /\ x * LP \in Int /\ y * LP \in Int BY <2>1, <1>1
  <2>3. x * LP < y * LP BY <2>1, <2>2, <1>1, <1>2, <1>3
  <2>4. x < y <=> x * LP < y * LP BY <2>1, <1>1, MulMonotone
  <2> QED BY <2>3, <2>4 DEF x, y
<1> QED BY <1>2, <1>3, <1>4, <1>5

\* Two pages in one place are the same,
LEMMA SamePage ==
    ASSUME NEW p \in Pages, NEW v \in Pages, p \div LP = v \div LP, p % LP = v % LP
    PROVE  p = v
BY PageIndex

\* and the pages of a large page follow each other.
LEMMA LargePages ==
    ASSUME NEW p \in Pages, NEW v \in Pages, v % LP = 0
    PROVE  /\ p \div LP = v \div LP <=> v =< p /\ p < v + LP
           /\ p \div LP = v \div LP => p % LP = p - v
<1>1. LP \in Nat \ {0} BY VaAssumption
<1>2. /\ p \in Nat /\ p % LP \in 0 .. LP - 1 /\ p = (LP * (p \div LP)) + (p % LP)
      /\ p \div LP \in Nat
  BY PageIndex
<1>3. v \in Nat /\ v = (LP * (v \div LP)) + (v % LP) /\ v \div LP \in Nat
  BY PageIndex
<1>4. v = LP * (v \div LP) BY <1>1, <1>3
<1>5. ASSUME v =< p, p < v + LP PROVE p \div LP = v \div LP
  <2>1. p - v \in 0 .. LP - 1 /\ v \div LP \in Int BY <1>1, <1>2, <1>3, <1>5
  <2>2. p = (LP * (v \div LP)) + (p - v) BY <1>2, <1>3, <1>4
  <2>3. ((LP * (v \div LP)) + (p - v)) \div LP = v \div LP BY <2>1, <1>1, DivModUnique
  <2> QED BY <2>2, <2>3
<1>6. ASSUME p \div LP = v \div LP PROVE v =< p /\ p < v + LP /\ p % LP = p - v
  <2>1. p = v + (p % LP) BY <1>2, <1>4, <1>6
  <2> QED BY <2>1, <1>1, <1>2, <1>3
<1> QED BY <1>5, <1>6

\* The directory entry n is set to x.
Put(d, n, x, e) == e = [d EXCEPT ![n] = x]

\* do_va_map() with a large page.
LEMMA MapLargeShows ==
    ASSUME NEW d \in Directories, NEW v \in Pages, v % LP = 0,
           NEW q \in Nat, q % LP = 0, NEW f, NEW p \in Pages, NEW e,
           Put(d, v \div LP, Large(q, f), e)
    PROVE  TransOf(e, p) = IF v =< p /\ p < v + LP THEN Pte(q + (p - v), f) ELSE TransOf(d, p)
<1>1. v \div LP \in DOMAIN d /\ p \div LP \in DOMAIN d BY PageIndex DEF Directories
<1>2. p \div LP = v \div LP <=> v =< p /\ p < v + LP BY LargePages
<1>3. CASE p \div LP = v \div LP
  <2>1. e[p \div LP] = Large(q, f) BY <1>1, <1>3 DEF Put
  <2>2. p % LP = p - v /\ v \in Nat /\ p \in Nat BY <1>3, LargePages, PageIndex
  <2> DEFINE x == Large(q, f)
  <2>3. x.kind = "large" /\ x.pte.page = q /\ x.pte.flags = f BY DEF Large, Pde, Pte
  <2> HIDE DEF x
  <2>4. x = e[p \div LP] BY <2>1 DEF x
  <2>5. TransOf(e, p) = Pte(x.pte.page - (x.pte.page % LP) + (p % LP), x.pte.flags)
    BY <2>3, <2>4, TransCases
  <2>6. x.pte.page - (x.pte.page % LP) + (p % LP) = q + (p - v) BY <2>2, <2>3
  <2> QED BY <2>3, <2>5, <2>6, <1>2, <1>3
<1>4. CASE p \div LP # v \div LP
  <2>1. e[p \div LP] = d[p \div LP] BY <1>1, <1>4 DEF Put
  <2>2. TransOf(e, p) = TransOf(d, p) BY <2>1, Zenon DEF TransOf
  <2> QED BY <2>2, <1>2, <1>4
<1> QED BY <1>3, <1>4

\* What is left of a page whose table is replaced: t holds what it showed.
LEMMA TableShows ==
    ASSUME NEW d \in Directories, NEW v \in Pages, NEW p \in Pages, NEW e, NEW t, NEW x,
           Put(d, v \div LP, x, e),
           x.kind = "table", x.table = t,
           \A r \in Pages : r \div LP = v \div LP /\ r # v => t[r % LP] = TransOf(d, r)
    PROVE  TransOf(e, p) = IF p = v THEN t[v % LP] ELSE TransOf(d, p)
<1>1. v \div LP \in DOMAIN d /\ p \div LP \in DOMAIN d BY PageIndex DEF Directories
<1>2. CASE p \div LP = v \div LP
  <2>1. x = e[p \div LP] BY <1>1, <1>2 DEF Put
  <2>2. TransOf(e, p) = x.table[p % LP] BY <2>1, TransCases
  <2> QED BY <2>2, <1>2
<1>3. CASE p \div LP # v \div LP
  <2>1. e[p \div LP] = d[p \div LP] BY <1>1, <1>3 DEF Put
  <2>2. TransOf(e, p) = TransOf(d, p) BY <2>1, Zenon DEF TransOf
  <2> QED BY <2>2, <1>3
<1> QED BY <1>2, <1>3

\* A large page is aligned.
SoundLarge(x) ==
    x.kind = "large" => x.pte.page \in Nat /\ x.pte.page % LP = 0 /\ x.pte.flags \in Flags

\* A table's entry for page v is set to w, or cleared.
PutSmall(d, v, w, e) ==
    e = [d EXCEPT ![v \div LP] =
            Pde("table", Unmapped, [EnsurePt(d[v \div LP]) EXCEPT ![v % LP] = w])]
Cleared(d, v, e) ==
    e = [d EXCEPT ![v \div LP] = [@ EXCEPT !.table[v % LP] = Unmapped]]

\* do_va_map() with a small page.
LEMMA MapSmallShows ==
    ASSUME NEW d \in Directories, NEW v \in Pages, NEW w \in Ptes, NEW p \in Pages, NEW e,
           SoundLarge(d[v \div LP]), PutSmall(d, v, w, e)
    PROVE  /\ TransOf(e, p) = IF p = v THEN w ELSE TransOf(d, p)
           /\ e \in Directories /\ e[v \div LP].kind = "table"
           /\ \A k \in DOMAIN d : k # v \div LP => e[k] = d[k]
<1> DEFINE n == v \div LP
           s == EnsurePt(d[n])
           t == [s EXCEPT ![v % LP] = w]
           x == Pde("table", Unmapped, t)
<1>1. n \in DOMAIN d /\ n \in 0 .. (NPages \div LP) - 1 /\ v % LP \in 0 .. LP - 1
  BY PageIndex DEF Directories
<1>2. d[n] \in Pdes BY <1>1 DEF Directories
<1>3. d[n].kind \in {"blank", "large", "table"} /\ d[n].pte \in Ptes
      /\ d[n].table \in [0 .. LP - 1 -> Ptes]
  BY <1>2 DEF Pdes
<1>4. /\ s \in [0 .. LP - 1 -> Ptes]
      /\ \A r \in Pages : r \div LP = n => s[r % LP] = TransOf(d, r)
  <2>0. ASSUME NEW r \in Pages PROVE r % LP \in 0 .. LP - 1 BY PageIndex
  <2>1. CASE d[n].kind = "blank"
    <3>1. d[n].kind # "large" /\ d[n].kind # "table" BY <2>1
    <3>2. s = NoTable BY <2>1, <3>1, Zenon DEF EnsurePt
    <3>3. s \in [0 .. LP - 1 -> Ptes] BY <3>2 DEF NoTable, Ptes
    <3>4. ASSUME NEW r \in Pages, r \div LP = n PROVE s[r % LP] = TransOf(d, r)
      <4>1. TransOf(d, r) = Unmapped BY <2>1, <3>4, TransCases
      <4> QED BY <4>1, <3>2, <2>0 DEF NoTable
    <3> QED BY <3>3, <3>4
  <2>2. CASE d[n].kind = "large"
    <3> DEFINE g == d[n].pte.page
    <3>1. d[n].kind # "blank" /\ d[n].kind # "table" BY <2>2
    <3>2. s = [k \in 0 .. LP - 1 |-> Pte(g + k, d[n].pte.flags)]
      BY <2>2, <3>1, Zenon DEF EnsurePt
    <3>3. g \in Nat /\ g % LP = 0 BY <2>2 DEF SoundLarge
    <3>4. d[n].pte.flags \in Flags BY <2>2 DEF SoundLarge
    <3>5. s \in [0 .. LP - 1 -> Ptes]
      <4>1. LP \in Nat BY VaAssumption
      <4> HIDE DEF g
      <4>2. \A k \in 0 .. LP - 1 : Pte(g + k, d[n].pte.flags) \in Ptes
        BY <3>3, <3>4, <4>1 DEF Pte, Ptes
      <4> QED BY <4>2, <3>2
    <3>6. ASSUME NEW r \in Pages, r \div LP = n PROVE s[r % LP] = TransOf(d, r)
      <4>1. TransOf(d, r) = Pte(g - (g % LP) + (r % LP), d[n].pte.flags)
        BY <2>2, <3>6, TransCases
      <4>2. r % LP \in 0 .. LP - 1 BY <2>0
      <4> HIDE DEF g
      <4>3. g - (g % LP) + (r % LP) = g + (r % LP) BY <3>3, <4>2
      <4> QED BY <4>1, <4>2, <4>3, <3>2
    <3> QED BY <3>5, <3>6
  <2>3. CASE d[n].kind = "table"
    <3>1. d[n].kind # "blank" /\ d[n].kind # "large" BY <2>3
    <3>2. s = d[n].table BY <2>3, <3>1, Zenon DEF EnsurePt
    <3>4. ASSUME NEW r \in Pages, r \div LP = n PROVE s[r % LP] = TransOf(d, r)
      <4>1. TransOf(d, r) = d[n].table[r % LP] BY <2>3, <3>4, TransCases
      <4> QED BY <4>1, <3>2
    <3> QED BY <3>2, <3>4, <1>3
  <2> QED BY <2>1, <2>2, <2>3, <1>3
<1> HIDE DEF s
<1>5. t \in [0 .. LP - 1 -> Ptes] /\ t[v % LP] = w BY <1>1, <1>4
<1>6. \A r \in Pages : r \div LP = v \div LP /\ r # v => t[r % LP] = TransOf(d, r)
  <2> SUFFICES ASSUME NEW r \in Pages, r \div LP = v \div LP, r # v
               PROVE  t[r % LP] = TransOf(d, r)
    OBVIOUS
  <2>1. r % LP # v % LP BY SamePage
  <2>2. r % LP \in 0 .. LP - 1 BY PageIndex
  <2>3. t[r % LP] = s[r % LP] BY <2>1, <2>2, <1>4
  <2> QED BY <2>3, <1>4
<1> HIDE DEF t
<1>7. x.kind = "table" /\ x.table = t /\ x \in Pdes BY <1>5 DEF Pde, Pdes, Ptes
<1> HIDE DEF x
<1>8. Put(d, v \div LP, x, e) BY DEF x, t, s, Put, PutSmall
<1>9. TransOf(e, p) = IF p = v THEN t[v % LP] ELSE TransOf(d, p)
  BY <1>6, <1>7, <1>8, TableShows
<1>10. e \in Directories BY <1>1, <1>7, <1>8 DEF Directories, Put
<1>11. e[n].kind = "table" /\ \A k \in DOMAIN d : k # n => e[k] = d[k]
  BY <1>1, <1>7, <1>8 DEF Directories, Put
<1> QED BY <1>5, <1>9, <1>10, <1>11

\* do_va_unmap() of a large page,
LEMMA UnmapLargeShows ==
    ASSUME NEW d \in Directories, NEW v \in Pages, v % LP = 0, NEW p \in Pages, NEW e,
           Put(d, v \div LP, Blank, e)
    PROVE  TransOf(e, p) = IF v =< p /\ p < v + LP THEN Unmapped ELSE TransOf(d, p)
<1>1. v \div LP \in DOMAIN d /\ p \div LP \in DOMAIN d BY PageIndex DEF Directories
<1>2. p \div LP = v \div LP <=> v =< p /\ p < v + LP BY LargePages
<1>3. CASE p \div LP = v \div LP
  <2>1. e[p \div LP] = Blank BY <1>1, <1>3 DEF Put
  <2>2. Blank.kind = "blank" BY DEF Blank, Pde
  <2>3. TransOf(e, p) = Unmapped BY <2>1, <2>2, TransCases
  <2> QED BY <2>3, <1>2, <1>3
<1>4. CASE p \div LP # v \div LP
  <2>1. e[p \div LP] = d[p \div LP] BY <1>1, <1>4 DEF Put
  <2>2. TransOf(e, p) = TransOf(d, p) BY <2>1, Zenon DEF TransOf
  <2> QED BY <2>2, <1>2, <1>4
<1> QED BY <1>3, <1>4

\* and of a small one.
LEMMA UnmapSmallShows ==
    ASSUME NEW d \in Directories, NEW v \in Pages, NEW p \in Pages, NEW e,
           d[v \div LP].kind = "table", Cleared(d, v, e)
    PROVE  /\ TransOf(e, p) = IF p = v THEN Unmapped ELSE TransOf(d, p)
           /\ e \in Directories /\ e[v \div LP].kind = "table"
           /\ \A k \in DOMAIN d : k # v \div LP => e[k] = d[k]
<1> DEFINE n == v \div LP
           s == d[n].table
           t == [s EXCEPT ![v % LP] = Unmapped]
           x == [d[n] EXCEPT !.table = t]
<1>1. n \in DOMAIN d /\ n \in 0 .. (NPages \div LP) - 1 /\ v % LP \in 0 .. LP - 1
  BY PageIndex DEF Directories
<1>2. d[n] \in Pdes BY <1>1 DEF Directories
<1>3. /\ d[n].kind \in {"blank", "large", "table"} /\ d[n].pte \in Ptes
      /\ s \in [0 .. LP - 1 -> Ptes]
  BY <1>2 DEF Pdes
<1>4. \A r \in Pages : r \div LP = v \div LP => s[r % LP] = TransOf(d, r)
  BY TransCases
<1>8. Put(d, v \div LP, x, e) BY DEF Put, Cleared
<1> HIDE DEF s
<1>5. t \in [0 .. LP - 1 -> Ptes] /\ t[v % LP] = Unmapped BY <1>1, <1>3 DEF Ptes
<1>6. \A r \in Pages : r \div LP = v \div LP /\ r # v => t[r % LP] = TransOf(d, r)
  <2> SUFFICES ASSUME NEW r \in Pages, r \div LP = v \div LP, r # v
               PROVE  t[r % LP] = TransOf(d, r)
    OBVIOUS
  <2>1. r % LP # v % LP BY SamePage
  <2>2. r % LP \in 0 .. LP - 1 BY PageIndex
  <2>3. t[r % LP] = s[r % LP] BY <2>1, <2>2, <1>3
  <2> QED BY <2>3, <1>4
<1> HIDE DEF t
<1>7. x.kind = "table" /\ x.table = t /\ x \in Pdes BY <1>2, <1>5 DEF Pdes
<1> HIDE DEF x
<1>9. TransOf(e, p) = IF p = v THEN t[v % LP] ELSE TransOf(d, p)
  BY <1>6, <1>7, <1>8, TableShows
<1>10. e \in Directories BY <1>1, <1>7, <1>8 DEF Directories, Put
<1>11. e[n].kind = "table" /\ \A k \in DOMAIN d : k # n => e[k] = d[k]
  BY <1>1, <1>7, <1>8 DEF Directories, Put
<1> QED BY <1>5, <1>9, <1>10, <1>11

-----------------------------------------------------------------------------
(***************************************************************************)
(* The initial state.                                                      *)
(***************************************************************************)
LEMMA HoleFacts ==
    ASSUME NEW hs, HoleList(hs)
    PROVE  /\ hs \in Seq(VaRanges) /\ Len(hs) \in Nat \ {0} /\ DOMAIN hs = 1 .. Len(hs)
           /\ \A n \in DOMAIN hs :
                /\ hs[n] \in VaRanges /\ hs[n].start \in Nat \ {0} /\ hs[n].len \in Nat \ {0}
                /\ EndOf(hs[n]) \in Nat /\ EndOf(hs[n]) = hs[n].start + hs[n].len
                /\ EndOf(hs[n]) =< NPages /\ hs[n].start < NPages
           /\ \A m, n \in DOMAIN hs : m < n => EndOf(hs[m]) < hs[n].start
           /\ ArrayInv(hs, {})
<1>1. /\ hs \in Seq(VaRanges) /\ hs # << >>
      /\ \A n \in DOMAIN hs : hs[n].start > 0 /\ hs[n].len > 0 /\ EndOf(hs[n]) =< NPages
      /\ \A m, n \in DOMAIN hs : m < n => EndOf(hs[m]) < hs[n].start
  BY DEF HoleList
<1>2. Len(hs) \in Nat \ {0} /\ DOMAIN hs = 1 .. Len(hs) /\ \A n \in DOMAIN hs : hs[n] \in VaRanges
  BY <1>1
<1>3. ASSUME NEW n \in DOMAIN hs
      PROVE  /\ hs[n].start \in Nat \ {0} /\ hs[n].len \in Nat \ {0}
             /\ EndOf(hs[n]) \in Nat /\ EndOf(hs[n]) = hs[n].start + hs[n].len
             /\ hs[n].start < NPages
  <2>1. hs[n] \in VaRanges /\ hs[n].start > 0 /\ hs[n].len > 0 BY <1>1, <1>2
  <2>2. /\ hs[n].start \in Nat /\ hs[n].len \in Nat /\ EndOf(hs[n]) \in Nat
        /\ EndOf(hs[n]) = hs[n].start + hs[n].len /\ hs[n].start < NPages
    BY <2>1, RangeNumbers
  <2> QED BY <2>1, <2>2
<1>4. ArrayInv(hs, {})
  <2>1. RangeOrder(hs)
    <3>1. ASSUME NEW m \in DOMAIN hs, NEW n \in DOMAIN hs, m < n
          PROVE  EndOf(hs[m]) =< hs[n].start
      <4>1. EndOf(hs[m]) < hs[n].start BY <1>1, <3>1
      <4>2. EndOf(hs[m]) \in Nat /\ hs[n].start \in Nat BY <1>3
      <4> QED BY <4>1, <4>2
    <3> QED BY <3>1, <1>1 DEF RangeOrder
  <2> QED BY <2>1, <1>1 DEF ArrayInv, BlocksApart, Preceded, Shadowed
<1> QED BY <1>1, <1>2, <1>3, <1>4

LEMMA InitInv == Init => IInv
<1> SUFFICES ASSUME Init PROVE IInv OBVIOUS
<1>0. /\ PageSize \in Nat \ {0} /\ LP \in Nat \ {0} /\ NPages \in Nat \ {0}
      /\ MaxRanges \in Nat /\ PtRoom \in Nat
  BY VaAssumption
<1>1. HoleList(layout) /\ Len(layout) =< MaxRanges BY VaAssumption DEF Init
<1>2. /\ layout \in Seq(VaRanges) /\ Len(layout) \in Nat \ {0}
      /\ DOMAIN layout = 1 .. Len(layout) /\ ArrayInv(layout, {})
      /\ \A n \in DOMAIN layout : layout[n] \in VaRanges /\ EndOf(layout[n]) =< NPages
  BY <1>1, HoleFacts
<1>3. Blank \in Pdes /\ Blank.kind = "blank" BY DEF Blank, Pde, Pdes, Ptes, NoTable
<1>4. /\ pc = "idmap" /\ ret = "idmap" /\ gap = 0 /\ unused_va_ranges = layout
      /\ pd = [n \in 0 .. (NPages \div LP) - 1 |-> Blank] /\ pts = 0
      /\ vstart = 0 /\ pstart = 0 /\ len = 0 /\ pte_flags = "wb"
      /\ cur = NoMapping /\ live = << >> /\ lifo = TRUE
  BY DEF Init
<1>5. TypeOK
  <2>1. NoMapping \in Mappings BY DEF NoMapping, Mappings, Flags
  <2>2. "wb" \in Flags BY DEF Flags
  <2>3. pd \in [0 .. (NPages \div LP) - 1 -> Pdes] BY <1>3, <1>4
  <2>4. live \in Seq(Mappings) BY <1>4
  <2>5. gap \in 0 .. Len(layout) BY <1>2, <1>4
  <2>6. vstart \in 0 .. NPages /\ pstart \in Nat /\ len \in 0 .. NPages - vstart /\ pts \in 0 .. PtRoom
    BY <1>0, <1>4
  <2> QED BY <2>1, <2>2, <2>3, <2>4, <2>5, <2>6, <1>1, <1>2, <1>4 DEF TypeOK, Phases
<1>6. PcInv BY <1>4 DEF PcInv
<1>7. ~Pending /\ DOMAIN live = {} BY <1>4 DEF Pending
<1>8. Blocks = {} BY <1>7 DEF Blocks
<1>9. UseInv BY <1>7 DEF UseInv
<1>10. SpaceInv
  <2>1. Unused = Holes BY <1>4 DEF Unused, Holes
  <2> QED BY <2>1, <1>2, <1>4, <1>8 DEF SpaceInv
<1>11. LifoInv
  <2>1. \A n \in DOMAIN layout : layout[n].len =< layout[n].len
    <3> TAKE n \in DOMAIN layout
    <3>1. layout[n].len \in Nat BY <1>1, HoleFacts
    <3> QED BY <3>1
  <2> QED BY <2>1, <1>4, <1>7, <1>8 DEF LifoInv
<1>12. LoopInv BY <1>4 DEF LoopInv
<1>13. LargeInv BY <1>3, <1>4 DEF LargeInv
<1>14. ShowInv
  <2>1. ASSUME NEW p \in Unused PROVE Translate(p) = Unmapped
    <3>1. PICK n \in DOMAIN layout : p \in PagesOf(layout[n]) BY <1>4 DEF Unused
    <3>2. layout[n] \in VaRanges /\ EndOf(layout[n]) =< NPages BY <1>2
    <3>3. p \in Nat /\ p < EndOf(layout[n]) /\ EndOf(layout[n]) \in Nat
      BY <3>1, <3>2, RangeNumbers
    <3>4. p \in Pages BY <3>2, <3>3, <1>0 DEF Pages
    <3>5. p \div LP \in 0 .. (NPages \div LP) - 1 BY <3>4, PageIndex
    <3>6. Blank = pd[p \div LP] BY <3>5, <1>4
    <3>7. TransOf(pd, p) = Unmapped BY <3>6, <1>3, TransCases
    <3> QED BY <3>7, Zenon DEF Translate, TransOf
  <2>2. IdBound = 0 BY <1>4 DEF IdBound
  <2>3. \A p \in Pages : ~(p < IdBound) BY <2>2, <1>0 DEF Pages
  <2> QED BY <2>1, <2>3, <1>4, <1>7 DEF ShowInv
<1> QED BY <1>5, <1>6, <1>9, <1>10, <1>11, <1>12, <1>13, <1>14 DEF IInv

-----------------------------------------------------------------------------
(***************************************************************************)
(* What each step does to the blocks and to the array.                     *)
(***************************************************************************)
ArrayKept == unused_va_ranges' = unused_va_ranges /\ layout' = layout /\ Blocks' = Blocks

LEMMA IdMapKeeps ==
    ASSUME IInv, IdMap \/ IdMapDone
    PROVE  ArrayKept
<1>1. pc = "idmap" /\ ret = "idmap" BY DEF IInv, PcInv, IdMap, IdMapDone
<1>2. ret' = "idmap" /\ live' = live BY <1>1 DEF IdMap, IdMapDone
<1>3. ~Pending /\ ~Pending' BY <1>1, <1>2 DEF Pending
<1>4. Blocks' = Blocks BY <1>2, <1>3 DEF Blocks
<1> QED BY <1>4 DEF ArrayKept, IdMap, IdMapDone

LEMMA LoopKeeps ==
    ASSUME IInv, MapLarge \/ MapSmall \/ UnmapStep
    PROVE  ArrayKept /\ Pending' = Pending
<1>1. ret' = ret /\ live' = live /\ cur' = cur BY DEF MapLarge, MapSmall, UnmapStep
<1>2. \/ pc' = pc /\ pc \in {"map", "unmap"}
      \/ pc' = "halted" /\ pc = "map" /\ len' = len /\ len # 0
  BY DEF MapLarge, MapSmall, UnmapStep
<1>3. Pending' = Pending BY <1>1, <1>2 DEF Pending
<1>4. Blocks' = Blocks BY <1>1, <1>3 DEF Blocks
<1> QED BY <1>3, <1>4 DEF ArrayKept, MapLarge, MapSmall, UnmapStep

LEMMA MapDoneKeeps ==
    ASSUME IInv, MapDone
    PROVE  ArrayKept /\ ~Pending' /\ (Pending <=> ret = "ready")
<1>1. /\ pc = "map" /\ ret' = ret /\ pc' = ret /\ cur' = cur
      /\ live' = IF ret = "ready" THEN Append(live, cur) ELSE live
      /\ unused_va_ranges' = unused_va_ranges /\ layout' = layout
  BY DEF MapDone
<1>2. ret \in {"idmap", "ready"} /\ live \in Seq(Mappings) /\ cur \in Mappings
  BY DEF IInv, TypeOK
<1>3. ~Pending' BY <1>1, <1>2 DEF Pending
<1>4. Pending <=> ret = "ready" BY <1>1 DEF Pending
<1>5. Blocks' = Blocks
  <2>1. CASE ret = "idmap"
    <3>1. live' = live BY <2>1, <1>1
    <3> QED BY <3>1, <2>1, <1>3, <1>4 DEF Blocks
  <2>2. CASE ret = "ready"
    <3>1. live' = Append(live, cur) BY <2>2, <1>1
    <3>2. Len(live) \in Nat /\ DOMAIN live = 1 .. Len(live) BY <1>2
    <3>3. /\ DOMAIN live' = 1 .. Len(live) + 1
          /\ \A i \in 1 .. Len(live) : live'[i] = live[i]
          /\ live'[Len(live) + 1] = cur
      BY <3>1, <1>2
    <3>4. 1 .. Len(live) + 1 = (1 .. Len(live)) \cup {Len(live) + 1} BY <3>2
    <3>5. {BlockOf(live'[i]) : i \in DOMAIN live'}
            = {BlockOf(live[i]) : i \in DOMAIN live} \cup {BlockOf(cur)}
      BY <3>2, <3>3, <3>4
    <3> QED BY <3>5, <2>2, <1>1, <1>3, <1>4 DEF Blocks, BlockOf, PagesFor
  <2> QED BY <2>1, <2>2, <1>2
<1> QED BY <1>1, <1>3, <1>4, <1>5 DEF ArrayKept

LEMMA HaltKeeps ==
    ASSUME IInv, NEW q \in Requests, MemVaMapHalt(q)
    PROVE  ArrayKept /\ ~Pending' /\ ~Pending
<1>1. pc = "ready" /\ len = 0 BY DEF MemVaMapHalt, IInv, PcInv
<1>2. pc' = "halted" /\ len' = 0 /\ live' = live BY <1>1 DEF MemVaMapHalt, loopVars
<1>3. ~Pending /\ ~Pending' BY <1>1, <1>2 DEF Pending
<1>4. Blocks' = Blocks BY <1>2, <1>3 DEF Blocks
<1> QED BY <1>3, <1>4 DEF ArrayKept, MemVaMapHalt

LEMMA UnmapKeeps ==
    ASSUME IInv, NEW n \in DOMAIN live, MemVaUnmap(n)
    PROVE  /\ ArrayKept /\ ~Pending /\ Pending'
           /\ cur' = live[n] /\ Len(live) \in Nat /\ n \in 1 .. Len(live)
           /\ RemovedAt(live, n, live')
           /\ live' \in Seq(Mappings) /\ Len(live') = Len(live) - 1
           /\ DOMAIN live = 1 .. Len(live) /\ DOMAIN live' = 1 .. Len(live) - 1
           /\ \A i \in 1 .. n - 1 : live'[i] = live[i]
           /\ \A i \in n .. Len(live) - 1 : live'[i] = live[i + 1]
<1>1. /\ pc = "ready" /\ pc' = "unmap" /\ ret' = "ready"
      /\ cur' = live[n] /\ RemovedAt(live, n, live')
      /\ unused_va_ranges' = unused_va_ranges /\ layout' = layout
  BY DEF MemVaUnmap, RemovedAt
<1>2. live \in Seq(Mappings) BY DEF IInv, TypeOK
<1>3. ~Pending /\ Pending' BY <1>1 DEF Pending
<1> DEFINE L == Len(live)
<1>4. L \in Nat /\ DOMAIN live = 1 .. L /\ n \in 1 .. L BY <1>2
<1>5. /\ live' \in Seq(Mappings) /\ Len(live') = L - 1
      /\ \A i \in 1 .. n - 1 : live'[i] = live[i]
      /\ \A i \in n .. L - 1 : live'[i] = live[i + 1]
  BY <1>1, <1>2, <1>4, Removed
<1>6. DOMAIN live' = 1 .. L - 1 BY <1>5
<1> HIDE DEF L
<1>7. ASSUME NEW i \in DOMAIN live PROVE i = n \/ \E j \in DOMAIN live' : live'[j] = live[i]
  <2>1. CASE i < n
    <3>1. i \in 1 .. n - 1 /\ i \in DOMAIN live' BY <2>1, <1>4, <1>6
    <3> QED BY <3>1, <1>5
  <2>2. CASE i > n
    <3>1. i - 1 \in n .. L - 1 /\ (i - 1) + 1 = i /\ i - 1 \in DOMAIN live' BY <2>2, <1>4, <1>6
    <3>2. live'[i - 1] = live[i] BY <3>1, <1>5
    <3> QED BY <3>1, <3>2
  <2> QED BY <2>1, <2>2, <1>4
<1>8. ASSUME NEW j \in DOMAIN live' PROVE \E i \in DOMAIN live : live'[j] = live[i]
  <2>1. CASE j < n
    <3>1. j \in 1 .. n - 1 /\ j \in DOMAIN live BY <2>1, <1>4, <1>6
    <3> QED BY <3>1, <1>5
  <2>2. CASE j >= n
    <3>1. j \in n .. L - 1 /\ j + 1 \in DOMAIN live BY <2>2, <1>4, <1>6
    <3> QED BY <3>1, <1>5
  <2> QED BY <2>1, <2>2, <1>4, <1>6
<1>9. Blocks' = Blocks
  <2>1. Blocks' = {BlockOf(live'[j]) : j \in DOMAIN live'} \cup {BlockOf(live[n])}
    BY <1>1, <1>3 DEF Blocks, BlockOf, PagesFor
  <2>2. Blocks = {BlockOf(live[i]) : i \in DOMAIN live} BY <1>3 DEF Blocks
  <2> QED BY <2>1, <2>2, <1>7, <1>8
<1> QED BY <1>1, <1>3, <1>4, <1>5, <1>6, <1>9 DEF ArrayKept, L

LEMMA StoppedKeeps ==
    ASSUME Stopped \/ UNCHANGED vars
    PROVE  /\ UNCHANGED <<pc, ret, layout, gap, unused_va_ranges, pd, pts, vstart, pstart,
                          len, pte_flags, cur, live, lifo>>
           /\ ArrayKept /\ Pending' = Pending
<1>1. UNCHANGED <<pc, ret, layout, gap, unused_va_ranges, pd, pts, vstart, pstart,
                          len, pte_flags, cur, live, lifo>>
  BY DEF Stopped, vars, loopVars
<1>2. Pending' = Pending BY <1>1 DEF Pending
<1>3. Blocks' = Blocks BY <1>1, <1>2 DEF Blocks
<1> QED BY <1>1, <1>2, <1>3 DEF ArrayKept

\* mem_va_map() makes a block of unused pages.
LEMMA MapTakes ==
    ASSUME IInv, NEW q \in Requests, MemVaMap(q)
    PROVE  /\ ~Pending /\ Pending' /\ live' = live /\ layout' = layout
           /\ GoodMapping(cur') /\ FirstPage(cur'.va) = vstart'
           /\ BlockOf(cur') = [start |-> vstart', len |-> len']
           /\ pstart' = FirstPage(cur'.pa) /\ pte_flags' = cur'.flags
           /\ vstart' \in Pages /\ vstart' > 0 /\ len' \in Nat \ {0} /\ vstart' + len' =< NPages
           /\ BlockOf(cur') \notin Blocks /\ Blocks' = Blocks \cup {BlockOf(cur')}
           /\ ArrayInv(unused_va_ranges', Blocks')
           /\ PagesOf(BlockOf(cur')) \subseteq Unused
           /\ Unused' = Unused \ PagesOf(BlockOf(cur'))
           /\ Len(unused_va_ranges') = Len(unused_va_ranges)
           /\ \A m \in DOMAIN unused_va_ranges :
                /\ unused_va_ranges'[m].start = unused_va_ranges[m].start
                /\ unused_va_ranges'[m].len =< unused_va_ranges[m].len
           /\ \E n \in DOMAIN unused_va_ranges :
                /\ unused_va_ranges[n].start =< BlockOf(cur').start
                /\ EndOf(BlockOf(cur')) = EndOf(unused_va_ranges[n])
<1> DEFINE R == unused_va_ranges
           T == unused_va_ranges'
           b == [start |-> vstart', len |-> len']
<1>1. PICK n \in DOMAIN R :
        /\ HasRoom(n, q)
        /\ T = [R EXCEPT ![n].len = @ - PagesFor(q)]
        /\ vstart' = EndOf(T[n])
        /\ pstart' = FirstPage(q.pa) /\ len' = PagesFor(q) /\ pte_flags' = q.flags
        /\ cur' = [va |-> (vstart' * PageSize) + (q.pa % PageSize),
                   sz |-> q.sz, pa |-> q.pa, flags |-> q.flags]
  BY DEF MemVaMap
<1>2. pc = "ready" /\ pc' = "map" /\ ret' = "ready" /\ live' = live /\ layout' = layout
  BY DEF MemVaMap
<1>3. ArrayInv(R, Blocks) BY DEF IInv, SpaceInv
<1>4. len' \in Nat \ {0} BY <1>1, RequestPages
<1>5. len' =< R[n].len
  <2>1. R[n].len \in Nat BY <1>3, ArrayFacts
  <2> QED BY <2>1, <1>1, <1>4 DEF HasRoom
<1>6. Taken(R, n, len', T, b) BY <1>1, Zenon DEF Taken
<1>18. b.start = vstart' /\ b.len = len' OBVIOUS
<1>19. n \in DOMAIN R OBVIOUS
<1> HIDE DEF R, T, b
<1>7. /\ ArrayInv(T, Blocks \cup {b}) /\ b \notin Blocks
      /\ PagesOf(b) \subseteq FreeOf(R)
      /\ FreeOf(T) = FreeOf(R) \ PagesOf(b)
      /\ Len(T) = Len(R)
      /\ \A m \in DOMAIN R : T[m].start = R[m].start /\ T[m].len =< R[m].len
      /\ GoodBlock(b) /\ R[n].start =< b.start /\ EndOf(b) = EndOf(R[n])
      /\ b.start \in Pages
  <2>1. ArrayInv(T, Blocks \cup {b}) /\ b \notin Blocks /\ SameLen(R, T)
    BY <1>3, <1>4, <1>5, <1>6, <1>19, TakeStep
  <2>4. PagesOf(b) \subseteq FreeOf(R)
    BY <1>3, <1>4, <1>5, <1>6, <1>19, TakeStep
  <2>5. FreeLess(R, b, T)
    BY <1>3, <1>4, <1>5, <1>6, <1>19, TakeStep
  <2>2. \A m \in DOMAIN R : T[m].start = R[m].start /\ T[m].len =< R[m].len
    BY <1>3, <1>4, <1>5, <1>6, <1>19, TakeStep
  <2>3. /\ GoodBlock(b) /\ R[n].start =< b.start /\ EndOf(b) = EndOf(R[n])
        /\ b.start \in Pages
    BY <1>3, <1>4, <1>5, <1>6, <1>19, TakeStep
  <2> QED BY <2>1, <2>2, <2>3, <2>4, <2>5 DEF SameLen, FreeLess
<1>8. /\ vstart' \in Pages /\ vstart' \in Nat \ {0} /\ vstart' + len' =< NPages
  <2>2. b.start \in Nat \ {0} /\ EndOf(b) = b.start + b.len /\ EndOf(b) =< NPages
    BY <1>7, BlockNumbers
  <2> QED BY <2>2, <1>7, <1>18
<1>9. GoodMapping(cur') /\ BlockOf(cur') = b /\ FirstPage(cur'.va) = vstart'
  <2> DEFINE m == cur'
  <2>1. m = [va |-> (vstart' * PageSize) + (q.pa % PageSize),
             sz |-> q.sz, pa |-> q.pa, flags |-> q.flags]
    BY <1>1
  <2>2. vstart' > 0 /\ vstart' + PagesFor(q) =< NPages BY <1>1, <1>8
  <2> HIDE DEF m
  <2>3. /\ GoodMapping(m)
        /\ BlockOf(m) = [start |-> vstart', len |-> PagesFor(q)]
        /\ FirstPage(m.va) = vstart'
    BY <2>1, <2>2, <1>8, MappingGood
  <2> QED BY <2>3, <1>1 DEF m, b
<1>10. ~Pending /\ Pending' BY <1>2 DEF Pending
<1>11. Blocks' = Blocks \cup {b}
  <2>1. Blocks' = {BlockOf(live[i]) : i \in DOMAIN live} \cup {BlockOf(cur')}
    BY <1>2, <1>10 DEF Blocks, BlockOf, PagesFor
  <2>2. Blocks = {BlockOf(live[i]) : i \in DOMAIN live} BY <1>10 DEF Blocks
  <2> QED BY <2>1, <2>2, <1>9
<1>12. Unused = FreeOf(R) /\ Unused' = FreeOf(T) BY DEF Unused, FreeOf, R, T
<1>13. pstart' = FirstPage(cur'.pa) /\ pte_flags' = cur'.flags BY <1>1
<1>14. vstart' > 0 BY <1>8
<1>15. /\ ArrayInv(T, Blocks') /\ BlockOf(cur') \notin Blocks
       /\ PagesOf(BlockOf(cur')) \subseteq Unused
       /\ Unused' = Unused \ PagesOf(BlockOf(cur')) /\ Blocks' = Blocks \cup {BlockOf(cur')}
  BY <1>7, <1>9, <1>11, <1>12
<1>16. R[n].start =< BlockOf(cur').start /\ EndOf(BlockOf(cur')) = EndOf(R[n])
  BY <1>7, <1>9
<1>17. BlockOf(cur') = [start |-> vstart', len |-> len'] BY <1>9 DEF b
<1> QED BY <1>2, <1>4, <1>7, <1>8, <1>9, <1>10, <1>13, <1>14, <1>15, <1>16, <1>17 DEF R, T

\* mem_va_unmap() ends with the pages unused again, or in want of an entry.
LEMMA BackGives ==
    ASSUME IInv, GiveBack
    PROVE  /\ Pending /\ GoodMapping(cur) /\ BlockOf(cur) \in Blocks
           /\ pc = "unmap" /\ len = 0 /\ len' = 0 /\ ret = "ready" /\ ret' = "ready"
           /\ live' = live /\ layout' = layout /\ cur' = cur
           /\ \/ pc' = "full" /\ ArrayKept /\ Pending'
              \/ /\ pc' = "ready" /\ ~Pending' /\ Blocks' = Blocks \ {BlockOf(cur)}
                 /\ ArrayInv(unused_va_ranges', Blocks')
                 /\ Unused' = Unused \cup PagesOf(BlockOf(cur))
                 /\ Len(unused_va_ranges') =< MaxRanges
                 /\ \E n \in DOMAIN unused_va_ranges :
                        /\ Takes(unused_va_ranges[n], BlockOf(cur))
                        /\ \A k \in DOMAIN unused_va_ranges :
                            k > n => ~Takes(unused_va_ranges[k], BlockOf(cur))
                        /\ Meets(unused_va_ranges[n], BlockOf(cur)) =>
                            JoinedTo(unused_va_ranges, n, BlockOf(cur), unused_va_ranges')
<1> DEFINE R == unused_va_ranges
           T == unused_va_ranges'
           b == BlockOf(cur)
           ds == {n \in DOMAIN R : Decides(n)}
           n == Max(ds)
<1>1. /\ pc = "unmap" /\ len = 0 /\ len' = 0 /\ ret' = ret
      /\ live' = live /\ layout' = layout /\ cur' = cur
  BY DEF GiveBack, loopVars
<1>2. ret = "ready" BY <1>1 DEF IInv, PcInv
<1>3. Pending BY <1>1, <1>2 DEF Pending
<1>4. GoodMapping(cur) /\ b \in Blocks BY <1>3 DEF IInv, UseInv, Blocks
<1>5. ArrayInv(R, Blocks) BY DEF IInv, SpaceInv
<1>6. /\ Len(R) \in Nat /\ DOMAIN R = 1 .. Len(R) /\ R \in Seq(VaRanges)
      /\ \A k \in DOMAIN R : R[k] \in VaRanges /\ R[k].start > 0
  <2>1. \A k \in DOMAIN R : R[k] \in VaRanges /\ R[k].start \in Nat \ {0} BY <1>5, ArrayFacts
  <2> QED BY <2>1, <1>5, ArrayFacts DEF ArrayInv
<1>7. \A k \in DOMAIN R :
        /\ Decides(k) <=> Takes(R[k], b)
        /\ Adjoins(R[k], cur) <=> Meets(R[k], b)
        /\ Joined(R[k], cur) =
                [start |-> IF R[k].start = EndOf(b) THEN b.start ELSE R[k].start,
                 len |-> R[k].len + b.len]
  <2> TAKE k \in DOMAIN R
  <2>1. R[k] \in VaRanges /\ R[k].start > 0 BY <1>6
  <2>2. /\ Adjoins(R[k], cur) <=> Meets(R[k], b)
        /\ R[k].start < UnmapStart(cur) <=> R[k].start < b.start
        /\ Joined(R[k], cur) =
                [start |-> IF R[k].start = EndOf(b) THEN b.start ELSE R[k].start,
                 len |-> R[k].len + b.len]
    BY <2>1, <1>4, TestsAgree
  <2>3. Decides(k) <=> Adjoins(R[k], cur) \/ R[k].start < UnmapStart(cur) BY DEF Decides
  <2> QED BY <2>2, <2>3 DEF Takes
<1>8. [start |-> UnmapStart(cur), len |-> UnmapLen(cur)] = b
  <2>1. UnmapStart(cur) = b.start /\ UnmapLen(cur) = b.len BY <1>4 DEF GoodMapping
  <2>2. b = [start |-> b.start, len |-> b.len] BY DEF BlockOf
  <2> QED BY <2>1, <2>2
<1> HIDE DEF b
<1>9. ds # {}
  <2>1. \E k \in DOMAIN R : Takes(R[k], b) BY <1>4, <1>5, SomeTakes
  <2> QED BY <2>1, <1>7
<1>10. n \in DOMAIN R /\ Takes(R[n], b) /\ \A k \in DOMAIN R : k > n => ~Takes(R[k], b)
  <2>1. ds \subseteq 0 .. Len(R) BY <1>6
  <2>2. \A k \in ds : k \in Nat BY <1>6
  <2>3. \E x \in ds : \A y \in ds : y =< x BY <2>1, <1>6, <1>9, GreatestElement
  <2> HIDE DEF ds
  <2>4. \E x \in ds : \A y \in ds : x >= y BY <2>2, <2>3
  <2>5. n \in ds /\ \A y \in ds : n >= y BY <2>4 DEF Max
  <2> HIDE DEF n
  <2>6. n \in DOMAIN R /\ Takes(R[n], b) BY <2>5, <1>7 DEF ds
  <2>7. ASSUME NEW k \in DOMAIN R, k > n PROVE ~Takes(R[k], b)
    <3>1. k \notin ds BY <2>2, <2>5, <2>6, <2>7, <1>6
    <3> QED BY <3>1, <1>7 DEF ds
  <2> QED BY <2>6, <2>7
<1>11. \A k \in DOMAIN R : k > n => R[k].start >= EndOf(b)
  <2> HIDE DEF n
  <2> QED BY <1>4, <1>5, <1>10, AboveLast
<1>12. \/ /\ Meets(R[n], b) /\ T = [R EXCEPT ![n] = Joined(@, cur)] /\ pc' = "ready"
       \/ /\ ~Meets(R[n], b) /\ EntryLeft /\ InsertedAt(R, n, b, T) /\ pc' = "ready"
       \/ /\ ~Meets(R[n], b) /\ pc' = "full" /\ T = R
  <2>1. Adjoins(R[n], cur) <=> Meets(R[n], b) BY <1>7, <1>10
  <2>2. IF Adjoins(R[n], cur)
        THEN T = [R EXCEPT ![n] = Joined(@, cur)] /\ pc' = "ready"
        ELSE IF EntryLeft
        THEN /\ T = InsertAt(R, n + 1, [start |-> UnmapStart(cur), len |-> UnmapLen(cur)])
             /\ pc' = "ready"
        ELSE pc' = "full" /\ T = R
    BY <1>9 DEF GiveBack
  <2> HIDE DEF n, R, T
  <2> QED BY <2>1, <2>2, <1>8 DEF InsertedAt
<1>13. ASSUME pc' = "ready" PROVE ~Pending' /\ Blocks' = Blocks \ {b}
  <2>1. ~Pending' BY <1>13 DEF Pending
  <2>2. Blocks' = {BlockOf(live[i]) : i \in DOMAIN live}
    BY <2>1, <1>1 DEF Blocks, BlockOf, PagesFor
  <2>3. Blocks = {BlockOf(live[i]) : i \in DOMAIN live} \cup {b} BY <1>3 DEF Blocks, b
  <2>4. \A i \in DOMAIN live : BlockOf(live[i]) # b BY <1>3 DEF IInv, UseInv, b
  <2> QED BY <2>1, <2>2, <2>3, <2>4
<1>14. Unused = FreeOf(R) /\ Unused' = FreeOf(T) BY DEF Unused, FreeOf
<1>15. Len(R) =< MaxRanges /\ MaxRanges \in Nat BY VaAssumption DEF IInv, TypeOK
<1> HIDE DEF n
<1>16. CASE Meets(R[n], b) /\ T = [R EXCEPT ![n] = Joined(@, cur)] /\ pc' = "ready"
  <2>1. T = [R EXCEPT ![n] = Joined(R[n], cur)] BY <1>16
  <2>2. Joined(R[n], cur) =
                [start |-> IF R[n].start = EndOf(b) THEN b.start ELSE R[n].start,
                 len |-> R[n].len + b.len]
    BY <1>7, <1>10
  <2>3. JoinedTo(R, n, b, T) BY <2>1, <2>2, Zenon DEF JoinedTo
  <2> HIDE DEF R, T
  <2>4. /\ ArrayInv(T, Blocks \ {b}) /\ FreeOf(T) = FreeOf(R) \cup PagesOf(b)
        /\ Len(T) = Len(R)
    <3>1. Meets(R[n], b) /\ n \in DOMAIN R BY <1>10, <1>16
    <3>2. b \in Blocks /\ ArrayInv(R, Blocks) BY <1>4, <1>5
    <3>3. \A k \in DOMAIN R : k > n => R[k].start >= EndOf(b) BY <1>11
    <3>4. /\ ArrayInv(T, Blocks \ {b}) /\ FreeOf(T) = FreeOf(R) \cup PagesOf(b)
          /\ SameLen(R, T)
      BY <3>1, <3>2, <3>3, <2>3, JoinStep
    <3> QED BY <3>4 DEF SameLen
  <2>5. ~Pending' /\ Blocks' = Blocks \ {b} BY <1>13, <1>16
  <2> QED BY <2>3, <2>4, <2>5, <1>1, <1>2, <1>3, <1>4, <1>10, <1>14, <1>15, <1>16 DEF R, T, b
<1>17. CASE /\ ~Meets(R[n], b) /\ EntryLeft /\ InsertedAt(R, n, b, T) /\ pc' = "ready"
  <2>1. R[n].start < b.start BY <1>10, <1>17 DEF Takes
  <2>2. Len(R) < MaxRanges BY <1>17 DEF EntryLeft
  <2> HIDE DEF R, T
  <2>4. /\ ArrayInv(T, Blocks \ {b}) /\ FreeOf(T) = FreeOf(R) \cup PagesOf(b)
        /\ Len(T) = Len(R) + 1
    BY <2>1, <1>4, <1>5, <1>10, <1>11, <1>17, InsertStep
  <2>5. ~Pending' /\ Blocks' = Blocks \ {b} BY <1>13, <1>17
  <2>6. Len(T) =< MaxRanges BY <2>2, <2>4, <1>6, <1>15
  <2> QED BY <2>4, <2>5, <2>6, <1>1, <1>2, <1>3, <1>4, <1>10, <1>14, <1>15, <1>17 DEF R, T, b
<1>18. CASE pc' = "full" /\ T = R
  <2>1. Pending' BY <1>1, <1>2, <1>18 DEF Pending
  <2>2. Blocks' = Blocks BY <2>1, <1>1, <1>3 DEF Blocks, BlockOf, PagesFor
  <2> QED BY <2>1, <2>2, <1>1, <1>2, <1>3, <1>4, <1>18 DEF ArrayKept, b
<1> QED BY <1>12, <1>16, <1>17, <1>18

-----------------------------------------------------------------------------
(***************************************************************************)
(* The loops of do_va_map() and do_va_unmap().                             *)
(***************************************************************************)

\* All of the large page that v is in lies within the address space.
LEMMA LargeFits ==
    ASSUME NEW v \in Pages
    PROVE  /\ v - (v % LP) \in Pages /\ (v - (v % LP)) \div LP = v \div LP
           /\ (v - (v % LP)) % LP = 0
           /\ v - (v % LP) + (LP - 1) \in Pages
           /\ (v - (v % LP) + (LP - 1)) \div LP = v \div LP
<1> DEFINE n == v \div LP
           k == NPages \div LP
<1>1. LP \in Nat \ {0} /\ NPages \in Nat \ {0} /\ NPages % LP = 0 BY VaAssumption
<1>2. /\ v \in Nat /\ v < NPages /\ n \in 0 .. k - 1 /\ v % LP \in 0 .. LP - 1
      /\ v = (LP * n) + (v % LP)
  BY PageIndex
<1>3. NPages = (LP * k) + 0 /\ k \in Int
  <2>1. NPages \in Int BY <1>1
  <2> QED BY <2>1, <1>1, DivModDef
<1> HIDE DEF n, k
<1>4. v - (v % LP) = (LP * n) + 0 /\ LP * n \in Nat BY <1>1, <1>2
<1>5. (LP * n) + LP =< NPages
  <2>1. n + 1 =< k /\ n + 1 \in Int BY <1>2, <1>3
  <2>2. (n + 1) * LP =< k * LP BY <2>1, <1>1, <1>3, MulMonotone
  <2>3. (n + 1) * LP = (LP * n) + LP /\ k * LP = LP * k BY <1>1, <1>2, <1>3
  <2> QED BY <2>2, <2>3, <1>1, <1>3
<1>6. n \in Int /\ 0 \in 0 .. LP - 1 /\ LP - 1 \in 0 .. LP - 1 BY <1>1, <1>2
<1>7. ((LP * n) + 0) \div LP = n /\ ((LP * n) + 0) % LP = 0 BY <1>1, <1>6, DivModUnique
<1>8. ((LP * n) + (LP - 1)) \div LP = n BY <1>1, <1>6, DivModUnique
<1>9. v - (v % LP) + (LP - 1) = (LP * n) + (LP - 1) BY <1>1, <1>2, <1>4
<1>10. v - (v % LP) \in Pages /\ v - (v % LP) + (LP - 1) \in Pages
  BY <1>1, <1>4, <1>5, <1>9 DEF Pages
<1> QED BY <1>4, <1>7, <1>8, <1>9, <1>10 DEF n

LEMMA LoopFacts ==
    ASSUME IInv, pc \in {"map", "unmap"}, len # 0
    PROVE  /\ vstart \in Pages /\ vstart \in Nat /\ len \in Nat \ {0} /\ vstart + len =< NPages
           /\ LP \in Nat \ {0} /\ NPages \in Nat \ {0}
           /\ pstart \in Nat /\ pte_flags \in Flags /\ pd \in Directories
           /\ vstart \div LP \in DOMAIN pd /\ pd[vstart \div LP] \in Pdes
           /\ pd[vstart \div LP].kind \in {"blank", "large", "table"}
<1>1. LP \in Nat \ {0} /\ NPages \in Nat \ {0} BY VaAssumption
<1>2. /\ vstart \in 0 .. NPages /\ pstart \in Nat /\ len \in 0 .. NPages - vstart
      /\ pte_flags \in Flags /\ pd \in Directories
  BY DEF IInv, TypeOK, Directories
<1>3. vstart \in Pages /\ vstart \in Nat /\ len \in Nat \ {0} /\ vstart + len =< NPages
  BY <1>1, <1>2 DEF Pages
<1>4. vstart \div LP \in DOMAIN pd BY <1>2, <1>3, PageIndex DEF Directories
<1>5. pd[vstart \div LP] \in Pdes BY <1>2, <1>4 DEF Directories
<1>6. pd[vstart \div LP].kind \in {"blank", "large", "table"} BY <1>5 DEF Pdes
<1> QED BY <1>1, <1>2, <1>3, <1>4, <1>5, <1>6

\* What a page shows is never mistaken for no page.
LEMMA MappedShows ==
    ASSUME NEW x, NEW f \in Flags
    PROVE  Pte(x, f) # Unmapped
<1>1. Pte(x, f).flags = f /\ Unmapped.flags = "none" BY DEF Pte, Unmapped
<1>2. f # "none" BY DEF Flags
<1> QED BY <1>1, <1>2

LEMMA TranslateIs ==
    /\ \A p : Translate(p) = TransOf(pd, p)
    /\ \A p : Translate(p)' = TransOf(pd', p)
BY Zenon DEF Translate, TransOf, Unmapped, Pte

\* do_va_unmap() meets whole large pages or tables, never a part of a large
\* page (mem.c:291-297).
LEMMA UnmapCases ==
    ASSUME IInv, UnmapStep
    PROVE  /\ Pending /\ GoodMapping(cur) /\ BlockOf(cur) \in Blocks
           /\ vstart \in PagesOf(BlockOf(cur))
           /\ \/ /\ pd[vstart \div LP].kind = "large" /\ vstart % LP = 0 /\ len >= LP
                 /\ Put(pd, vstart \div LP, Blank, pd')
                 /\ vstart' = vstart + LP /\ len' = len - LP
              \/ /\ pd[vstart \div LP].kind = "table"
                 /\ Cleared(pd, vstart, pd')
                 /\ vstart' = vstart + 1 /\ len' = len - 1
<1> DEFINE n == vstart \div LP
           b == BlockOf(cur)
<1>1. pc = "unmap" /\ len # 0 BY DEF UnmapStep
<1>2. ret = "ready" BY <1>1 DEF IInv, PcInv
<1>3. Pending BY <1>1, <1>2 DEF Pending
<1>4. GoodMapping(cur) /\ b \in Blocks BY <1>3 DEF IInv, UseInv, Blocks
<1>5. /\ vstart \in Pages /\ vstart \in Nat /\ len \in Nat \ {0}
      /\ LP \in Nat \ {0} /\ pd \in Directories /\ n \in DOMAIN pd
      /\ pd[n].kind \in {"blank", "large", "table"}
  BY <1>1, LoopFacts
<1>6. vstart >= b.start /\ vstart + len = EndOf(b) BY <1>1 DEF IInv, LoopInv
<1>7. cur.flags \in Flags BY <1>4 DEF GoodMapping, Mappings
<1>8. /\ b.start \in Nat /\ EndOf(b) \in Nat
      /\ \A p : p \in PagesOf(b) <=> p \in Nat /\ b.start =< p /\ p < EndOf(b)
  <2>1. GoodBlock(b) BY <1>4 DEF GoodMapping
  <2> HIDE DEF b
  <2> QED BY <2>1, BlockNumbers
<1>9. vstart \in PagesOf(b) BY <1>5, <1>6, <1>8
<1>10. \A p \in PagesOf(b) :
        IF p < vstart THEN TransOf(pd, p) = Unmapped ELSE Shows(cur, p)
  BY <1>1, TranslateIs DEF IInv, ShowInv
<1>11. TransOf(pd, vstart) # Unmapped
  <2>1. Shows(cur, vstart) BY <1>5, <1>9, <1>10
  <2>2. TransOf(pd, vstart) = Pte(FirstPage(cur.pa) + (vstart - FirstPage(cur.va)), cur.flags)
    BY <2>1, TranslateIs DEF Shows
  <2> QED BY <2>2, <1>7, MappedShows
<1> HIDE DEF b
<1>12. pd[n].kind # "blank" BY <1>11, TransCases
<1>13. ASSUME pd[n].kind = "large" PROVE vstart % LP = 0 /\ len >= LP
  <2> DEFINE v0 == vstart - (vstart % LP)
             v1 == v0 + (LP - 1)
  <2>1. v0 \in Pages /\ v0 \div LP = n /\ v1 \in Pages /\ v1 \div LP = n BY <1>5, LargeFits
  <2>2. vstart % LP \in 0 .. LP - 1 BY <1>5, PageIndex
  <2>3. pd[n].pte.flags \in Flags /\ \A p \in Pages : p \div LP = n => p \in PagesOf(b)
    BY <1>4, <1>5, <1>9, <1>13 DEF IInv, LargeInv
  <2>4. v0 \in PagesOf(b) /\ v1 \in PagesOf(b) BY <2>1, <2>3
  <2>5. TransOf(pd, v0) # Unmapped
    <3>1. TransOf(pd, v0) =
            Pte(pd[n].pte.page - (pd[n].pte.page % LP) + (v0 % LP), pd[n].pte.flags)
      BY <2>1, <1>13, TransCases
    <3> QED BY <3>1, <2>3, MappedShows
  <2>6. ~(v0 < vstart) BY <2>4, <2>5, <1>10
  <2>7. vstart % LP = 0 BY <2>2, <2>6, <1>5
  <2>8. v1 < EndOf(b) BY <2>4, <1>8
  <2> QED BY <2>7, <2>8, <1>5, <1>6, <1>8
<1>14. CASE pd[n].kind = "large"
  <2>1. vstart % LP = 0 /\ len >= LP BY <1>13, <1>14
  <2>2. WholeLarge BY <2>1 DEF WholeLarge
  <2>3. /\ pd' = [pd EXCEPT ![n] = Blank]
        /\ vstart' = vstart + LP /\ len' = len - LP
    BY <2>2, <1>14 DEF UnmapStep
  <2> QED BY <2>1, <2>3, <1>3, <1>4, <1>9, <1>14 DEF Put, b
<1>15. CASE pd[n].kind = "table"
  <2>1. pd[n].kind # "large" BY <1>15
  <2>2. /\ pd' = [pd EXCEPT ![n] = IF @.kind = "table"
                        THEN [@ EXCEPT !.table[vstart % LP] = Unmapped]
                        ELSE @]
        /\ vstart' = vstart + 1 /\ len' = len - 1
    BY <2>1 DEF UnmapStep
  <2>3. pd' = [pd EXCEPT ![n] = [@ EXCEPT !.table[vstart % LP] = Unmapped]]
    BY <2>2, <1>5, <1>15
  <2>4. Cleared(pd, vstart, pd') BY <2>3, Zenon DEF Cleared
  <2> QED BY <2>2, <2>4, <1>3, <1>4, <1>9, <1>15 DEF b
<1> QED BY <1>5, <1>12, <1>14, <1>15

-----------------------------------------------------------------------------
(***************************************************************************)
(* Each step keeps the invariant, a part of it at a time.                  *)
(***************************************************************************)

\* va_init(): the gap that is to be mapped next.
LEMMA IdMapFacts ==
    ASSUME IInv, IdMap
    PROVE  /\ pc = "idmap" /\ pc' = "map" /\ ret = "idmap" /\ ret' = "idmap"
           /\ layout' = layout /\ pd' = pd /\ live' = live
           /\ gap \in Nat /\ gap' = gap + 1 /\ gap' \in DOMAIN layout
           /\ vstart' \in Nat /\ len' \in Nat /\ pstart' = vstart'
           /\ vstart' + len' = layout[gap'].start
           /\ gap = 0 => vstart' = 0
           /\ gap # 0 => gap \in DOMAIN layout /\ vstart' = EndOf(layout[gap])
           /\ pte_flags' = IF gap' = 1 THEN BaseFlags ELSE "wb"
<1>1. /\ pc = "idmap" /\ pc' = "map" /\ ret' = "idmap" /\ gap < Len(unused_va_ranges)
      /\ gap' = gap + 1 /\ layout' = layout /\ pd' = pd /\ live' = live
      /\ vstart' = IF gap = 0 THEN 0 ELSE EndOf(unused_va_ranges[gap])
      /\ pstart' = vstart'
      /\ len' = unused_va_ranges[gap + 1].start - vstart'
      /\ pte_flags' = IF gap = 0 THEN BaseFlags ELSE "wb"
  BY DEF IdMap
<1>2. ret = "idmap" /\ unused_va_ranges = layout BY <1>1 DEF IInv, PcInv
<1>3. HoleList(layout) /\ gap \in 0 .. Len(layout) BY DEF IInv, TypeOK
<1>4. /\ Len(layout) \in Nat \ {0} /\ DOMAIN layout = 1 .. Len(layout)
      /\ \A n \in DOMAIN layout :
            layout[n].start \in Nat \ {0} /\ EndOf(layout[n]) \in Nat
      /\ \A m, n \in DOMAIN layout : m < n => EndOf(layout[m]) < layout[n].start
  BY <1>3, HoleFacts
<1>5. gap \in Nat /\ gap + 1 \in DOMAIN layout /\ (gap # 0 => gap \in DOMAIN layout)
  BY <1>1, <1>2, <1>3, <1>4
<1>6. layout[gap + 1].start \in Nat \ {0} BY <1>4, <1>5
<1>7. gap # 0 => EndOf(layout[gap]) \in Nat /\ EndOf(layout[gap]) < layout[gap + 1].start
  <2>1. gap < gap + 1 BY <1>5
  <2> QED BY <2>1, <1>4, <1>5
<1>8. /\ gap = 0 => vstart' = 0
      /\ gap # 0 => gap \in DOMAIN layout /\ vstart' = EndOf(layout[gap])
  BY <1>1, <1>2, <1>5
<1>9. vstart' \in Nat /\ len' \in Nat /\ vstart' + len' = layout[gap + 1].start
  BY <1>1, <1>2, <1>6, <1>7, <1>8
<1>10. pte_flags' = IF gap' = 1 THEN BaseFlags ELSE "wb" BY <1>1, <1>5
<1> QED BY <1>1, <1>2, <1>5, <1>8, <1>9, <1>10

\* do_va_map(): an iteration with a large page,
LEMMA LargeCases ==
    ASSUME IInv, MapLarge
    PROVE  /\ pc = "map" /\ pc' = "map" /\ vstart % LP = 0 /\ pstart % LP = 0 /\ len >= LP
           /\ pd[vstart \div LP].kind \in {"blank", "large"}
           /\ Put(pd, vstart \div LP, Large(pstart, pte_flags), pd')
           /\ Large(pstart, pte_flags) \in Pdes
           /\ Large(pstart, pte_flags).kind = "large"
           /\ Large(pstart, pte_flags).pte = Pte(pstart, pte_flags)
           /\ vstart' = vstart + LP /\ pstart' = pstart + LP /\ len' = len - LP
           /\ UNCHANGED <<ret, layout, gap, pte_flags, cur, live, pts>>
<1>1. pc = "map" /\ len # 0 /\ TakesLarge BY DEF MapLarge
<1>2. pstart \in Nat /\ pte_flags \in Flags BY <1>1, LoopFacts
<1>3. Large(pstart, pte_flags) \in Pdes
  BY <1>2 DEF Large, Pde, Pdes, Pte, Ptes, NoTable
<1>4. /\ Large(pstart, pte_flags).kind = "large"
      /\ Large(pstart, pte_flags).pte = Pte(pstart, pte_flags)
  BY DEF Large, Pde
<1> QED BY <1>1, <1>3, <1>4 DEF MapLarge, TakesLarge, Put

\* and one with a small page, unless there is no room for its table.
LEMMA SmallCases ==
    ASSUME IInv, MapSmall
    PROVE  /\ pc = "map" /\ len # 0 /\ UNCHANGED <<ret, layout, gap, pte_flags, cur, live>>
           /\ \/ pc' = "halted" /\ UNCHANGED <<pd, pts, vstart, pstart, len>>
              \/ /\ pc' = "map" /\ pts' \in 0 .. PtRoom
                 /\ pd' \in Directories
                 /\ pd'[vstart \div LP].kind = "table"
                 /\ \A n \in DOMAIN pd : n # vstart \div LP => pd'[n] = pd[n]
                 /\ \A p \in Pages : TransOf(pd', p) =
                        IF p = vstart THEN Pte(pstart, pte_flags) ELSE TransOf(pd, p)
                 /\ vstart' = vstart + 1 /\ pstart' = pstart + 1 /\ len' = len - 1
<1> DEFINE n == vstart \div LP
           w == Pte(pstart, pte_flags)
<1>1. pc = "map" /\ len # 0 /\ UNCHANGED <<ret, layout, gap, pte_flags, cur, live>>
  BY DEF MapSmall
<1>2. /\ vstart \in Pages /\ pstart \in Nat /\ pte_flags \in Flags /\ pd \in Directories
      /\ n \in DOMAIN pd
  BY <1>1, LoopFacts
<1>3. w \in Ptes BY <1>2 DEF Pte, Ptes
<1>4. \/ pc' = "halted" /\ UNCHANGED <<pd, pts, vstart, pstart, len>>
      \/ /\ pd[n].kind = "table" \/ pts < PtRoom
         /\ pts' = IF pd[n].kind = "table" THEN pts ELSE pts + 1
         /\ pd' = [pd EXCEPT ![n] =
                Pde("table", Unmapped, [EnsurePt(pd[n]) EXCEPT ![vstart % LP] = w])]
         /\ vstart' = vstart + 1 /\ pstart' = pstart + 1 /\ len' = len - 1
         /\ pc' = pc
  BY DEF MapSmall
<1>5. CASE pc' = "halted" /\ UNCHANGED <<pd, pts, vstart, pstart, len>>
  BY <1>1, <1>5
<1>6. CASE /\ pd[n].kind = "table" \/ pts < PtRoom
           /\ pts' = IF pd[n].kind = "table" THEN pts ELSE pts + 1
           /\ pd' = [pd EXCEPT ![n] =
                Pde("table", Unmapped, [EnsurePt(pd[n]) EXCEPT ![vstart % LP] = w])]
           /\ vstart' = vstart + 1 /\ pstart' = pstart + 1 /\ len' = len - 1
           /\ pc' = pc
  <2>1. pts' \in 0 .. PtRoom
    <3>1. pts \in 0 .. PtRoom /\ PtRoom \in Nat BY VaAssumption DEF IInv, TypeOK
    <3> QED BY <3>1, <1>6
  <2>2. SoundLarge(pd[n]) BY <1>2 DEF IInv, LargeInv, SoundLarge
  <2> DEFINE d == pd
             e == pd'
  <2>3. PutSmall(d, vstart, w, e) BY <1>6, Zenon DEF PutSmall
  <2>4. d \in Directories /\ SoundLarge(d[vstart \div LP]) BY <2>2, <1>2
  <2> HIDE DEF d, e, w
  <2>5. \A p \in Pages : TransOf(e, p) = IF p = vstart THEN w ELSE TransOf(d, p)
    BY <2>3, <2>4, <1>2, <1>3, MapSmallShows
  <2>6. /\ e \in Directories /\ e[vstart \div LP].kind = "table"
        /\ \A k \in DOMAIN d : k # vstart \div LP => e[k] = d[k]
    BY <2>3, <2>4, <1>2, <1>3, MapSmallShows
  <2>7. pc' = "map" /\ vstart' = vstart + 1 /\ pstart' = pstart + 1 /\ len' = len - 1
    BY <1>1, <1>6
  <2> HIDE DEF n
  <2> QED BY <2>1, <2>5, <2>6, <2>7, <1>1, Zenon DEF d, e, w
<1> QED BY <1>4, <1>5, <1>6

LEMMA StepCases ==
    ASSUME [Next]_vars
    PROVE  \/ IdMap \/ IdMapDone \/ MapLarge \/ MapSmall \/ MapDone
           \/ (\E q \in Requests : MemVaMap(q)) \/ (\E q \in Requests : MemVaMapHalt(q))
           \/ (\E n \in DOMAIN live : MemVaUnmap(n))
           \/ UnmapStep \/ GiveBack \/ Stopped \/ UNCHANGED vars
BY DEF Next

LEMMA InSpace ==
    ASSUME NEW v \in Nat, NEW l \in Nat, v + l =< NPages
    PROVE  v \in 0 .. NPages /\ l \in 0 .. NPages - v
BY VaAssumption

LEMMA TypeStep ==
    ASSUME IInv, [Next]_vars PROVE TypeOK'
<1>0. /\ LP \in Nat \ {0} /\ NPages \in Nat \ {0} /\ PageSize \in Nat \ {0}
      /\ MaxRanges \in Nat /\ PtRoom \in Nat /\ BaseFlags \in Flags /\ "wb" \in Flags
  BY VaAssumption DEF Flags
<1>1. TypeOK BY DEF IInv
<1>2. CASE IdMap
  <2>1. /\ pc' = "map" /\ ret' = "idmap" /\ layout' = layout /\ pd' = pd /\ live' = live
        /\ gap' \in DOMAIN layout /\ vstart' \in Nat /\ len' \in Nat /\ pstart' = vstart'
        /\ vstart' + len' = layout[gap'].start
        /\ pte_flags' = IF gap' = 1 THEN BaseFlags ELSE "wb"
    BY <1>2, IdMapFacts
  <2>2. /\ DOMAIN layout = 1 .. Len(layout) /\ Len(layout) \in Nat
        /\ layout[gap'].start \in Nat /\ layout[gap'].start < NPages
    <3>1. HoleList(layout) BY <1>1 DEF TypeOK
    <3>2. \A n \in DOMAIN layout : layout[n].start \in Nat \ {0} /\ layout[n].start < NPages
      BY <3>1, HoleFacts
    <3> QED BY <3>1, <3>2, <2>1, HoleFacts
  <2>3. gap' \in 0 .. Len(layout) BY <2>1, <2>2
  <2>4. vstart' \in 0 .. NPages /\ len' \in 0 .. NPages - vstart'
    <3> DEFINE v == vstart'
               l == len'
               h == layout[gap'].start
    <3>1. v \in Nat /\ l \in Nat /\ v + l = h /\ h < NPages /\ h \in Nat BY <2>1, <2>2, Zenon
    <3> HIDE DEF v, l, h
    <3>2. v + l =< NPages BY <3>1, <1>0
    <3>3. v \in 0 .. NPages /\ l \in 0 .. NPages - v BY <3>1, <3>2, InSpace
    <3> QED BY <3>3 DEF v, l
  <2>5. pte_flags' \in Flags BY <2>1, <1>0
  <2>6. UNCHANGED <<unused_va_ranges, pts, cur, lifo>> BY <1>2 DEF IdMap
  <2> QED BY <2>1, <2>3, <2>4, <2>5, <2>6, <1>1 DEF TypeOK, Phases
<1>3. CASE IdMapDone
  <2>1. pc' = "ready" /\ UNCHANGED <<ret, layout, gap, unused_va_ranges, pd, pts, vstart, pstart,
            len, pte_flags, cur, live, lifo>>
    BY <1>3 DEF IdMapDone, loopVars
  <2> QED BY <2>1, <1>1 DEF TypeOK, Phases
<1>4. CASE MapLarge
  <2>1. /\ pc' = "map" /\ len >= LP /\ Large(pstart, pte_flags) \in Pdes
        /\ Put(pd, vstart \div LP, Large(pstart, pte_flags), pd')
        /\ vstart' = vstart + LP /\ pstart' = pstart + LP /\ len' = len - LP
        /\ UNCHANGED <<ret, layout, gap, pte_flags, cur, live, pts>>
    BY <1>4, LargeCases
  <2>2. pc = "map" /\ len # 0 /\ UNCHANGED <<unused_va_ranges, lifo>> BY <1>4 DEF MapLarge
  <2>3. /\ vstart \in Nat /\ len \in Nat \ {0} /\ vstart + len =< NPages /\ pstart \in Nat
    BY <2>2, LoopFacts
  <2>4. pd' \in [0 .. (NPages \div LP) - 1 -> Pdes] BY <2>1, <1>1 DEF TypeOK, Put
  <2>5. vstart' \in 0 .. NPages /\ pstart' \in Nat /\ len' \in 0 .. NPages - vstart'
    BY <2>1, <2>3, <1>0
  <2> QED BY <2>1, <2>2, <2>4, <2>5, <1>1 DEF TypeOK, Phases
<1>5. CASE MapSmall
  <2>1. UNCHANGED <<unused_va_ranges, lifo>> BY <1>5 DEF MapSmall
  <2>2. pc = "map" /\ len # 0 /\ UNCHANGED <<ret, layout, gap, pte_flags, cur, live>>
    BY <1>5, SmallCases
  <2>3. CASE pc' = "halted" /\ UNCHANGED <<pd, pts, vstart, pstart, len>>
    BY <2>1, <2>2, <2>3, <1>1 DEF TypeOK, Phases
  <2>4. CASE pc' # "halted"
    <3>1. /\ pc' = "map" /\ pts' \in 0 .. PtRoom /\ pd' \in Directories
          /\ vstart' = vstart + 1 /\ pstart' = pstart + 1 /\ len' = len - 1
      BY <2>4, <1>5, SmallCases
    <3>2. /\ vstart \in Nat /\ len \in Nat \ {0} /\ vstart + len =< NPages /\ pstart \in Nat
      BY <2>2, LoopFacts
    <3>3. vstart' \in 0 .. NPages /\ pstart' \in Nat /\ len' \in 0 .. NPages - vstart'
      BY <3>1, <3>2, <1>0
    <3> QED BY <3>1, <3>3, <2>1, <2>2, <1>1 DEF TypeOK, Phases, Directories
  <2> QED BY <2>3, <2>4, <1>5, SmallCases
<1>6. CASE MapDone
  <2>1. /\ pc' = ret /\ UNCHANGED <<ret, layout, gap, unused_va_ranges, pd, pts, vstart, pstart,
                                    len, pte_flags, cur, lifo>>
        /\ live' = IF ret = "ready" THEN Append(live, cur) ELSE live
    BY <1>6 DEF MapDone, loopVars
  <2>2. live' \in Seq(Mappings) /\ pc' \in Phases
    <3>1. ret \in {"idmap", "ready"} /\ live \in Seq(Mappings) /\ cur \in Mappings
      BY <1>1 DEF TypeOK
    <3> QED BY <3>1, <2>1 DEF Phases
  <2> QED BY <2>1, <2>2, <1>1 DEF TypeOK
<1>7. CASE \E q \in Requests : MemVaMap(q)
  <2>1. PICK q \in Requests : MemVaMap(q) BY <1>7
  <2>2. pc' = "map" /\ ret' = "ready" /\ UNCHANGED <<layout, gap, pd, pts, live, lifo>>
    BY <2>1 DEF MemVaMap
  <2>3. /\ GoodMapping(cur') /\ pte_flags' = cur'.flags /\ pstart' = FirstPage(cur'.pa)
        /\ vstart' \in Pages /\ len' \in Nat \ {0} /\ vstart' + len' =< NPages
    BY <2>1, MapTakes
  <2>4. /\ ArrayInv(unused_va_ranges', Blocks')
        /\ Len(unused_va_ranges') = Len(unused_va_ranges)
    BY <2>1, MapTakes
  <2>5. unused_va_ranges' \in Seq(VaRanges) /\ Len(unused_va_ranges') =< MaxRanges
    BY <2>4, <1>1 DEF ArrayInv, TypeOK
  <2>6. cur' \in Mappings BY <2>3 DEF GoodMapping
  <2>7. pte_flags' \in Flags /\ pstart' \in Nat
    <3>1. cur'.flags \in Flags /\ cur'.pa \in Nat /\ cur'.pa \in Int BY <2>6 DEF Mappings
    <3> DEFINE a == cur'.pa
    <3>2. a \in Nat /\ a \in Int BY <3>1
    <3> HIDE DEF a
    <3>3. a \div PageSize \in Nat BY <3>2, <1>0, DivModDef
    <3> QED BY <3>1, <3>3, <2>3 DEF FirstPage, a
  <2>8. vstart' \in 0 .. NPages /\ len' \in 0 .. NPages - vstart'
    <3>1. vstart' \in Nat /\ len' \in Nat BY <2>3, <1>0 DEF Pages
    <3> QED BY <3>1, <2>3, InSpace
  <2> QED BY <2>2, <2>5, <2>6, <2>7, <2>8, <1>1 DEF TypeOK, Phases
<1>8. CASE \E q \in Requests : MemVaMapHalt(q)
  <2>1. pc' = "halted" /\ UNCHANGED <<ret, layout, gap, unused_va_ranges, pd, pts, vstart, pstart,
            len, pte_flags, cur, live, lifo>>
    BY <1>8 DEF MemVaMapHalt, loopVars
  <2> QED BY <2>1, <1>1 DEF TypeOK, Phases
<1>9. CASE \E n \in DOMAIN live : MemVaUnmap(n)
  <2>1. PICK n \in DOMAIN live : MemVaUnmap(n) BY <1>9
  <2>2. /\ pc' = "unmap" /\ ret' = "ready" /\ lifo' \in BOOLEAN
        /\ vstart' = UnmapStart(cur') /\ len' = UnmapLen(cur')
        /\ UNCHANGED <<layout, gap, unused_va_ranges, pd, pts, pstart, pte_flags>>
    BY <2>1 DEF MemVaUnmap
  <2>3. live' \in Seq(Mappings) /\ cur' = live[n] BY <2>1, UnmapKeeps
  <2>4. GoodMapping(live[n])
    <3>1. UseInv BY DEF IInv
    <3> QED BY <3>1 DEF UseInv
  <2>5. /\ cur' \in Mappings
        /\ vstart' = BlockOf(live[n]).start /\ len' = BlockOf(live[n]).len
    BY <2>2, <2>3, <2>4 DEF GoodMapping, UnmapStart, UnmapLen, UnmapEnd
  <2>6. vstart' \in 0 .. NPages /\ len' \in 0 .. NPages - vstart'
    <3> DEFINE b == BlockOf(live[n])
    <3>1. GoodBlock(b) BY <2>4 DEF GoodMapping
    <3>3. vstart' = b.start /\ len' = b.len BY <2>5
    <3> HIDE DEF b
    <3>2. /\ b.start \in Nat \ {0} /\ b.len \in Nat \ {0}
          /\ EndOf(b) = b.start + b.len /\ EndOf(b) =< NPages
      BY <3>1, BlockNumbers
    <3> QED BY <3>2, <3>3, <1>0
  <2> QED BY <2>2, <2>3, <2>5, <2>6, <1>1 DEF TypeOK, Phases
<1>10. CASE UnmapStep
  <2>1. pc = "unmap" /\ len # 0 /\ UNCHANGED <<pc, ret, layout, gap, unused_va_ranges, pts, pstart,
                                     pte_flags, cur, live, lifo>>
    BY <1>10 DEF UnmapStep
  <2>2. /\ vstart \in Pages /\ vstart \in Nat /\ len \in Nat \ {0} /\ vstart + len =< NPages
        /\ pd \in Directories
    BY <2>1, LoopFacts
  <2>3. /\ pd' \in Directories
        /\ (vstart' = vstart + 1 /\ len' = len - 1)
            \/ (vstart' = vstart + LP /\ len' = len - LP /\ len >= LP)
    <3>1. CASE /\ Put(pd, vstart \div LP, Blank, pd') /\ len >= LP
               /\ vstart' = vstart + LP /\ len' = len - LP
      <4>1. Blank \in Pdes BY DEF Blank, Pde, Pdes, Ptes, NoTable
      <4>2. pd' \in Directories BY <4>1, <2>2, <3>1 DEF Put, Directories
      <4> QED BY <4>2, <3>1
    <3>2. CASE /\ pd[vstart \div LP].kind = "table" /\ Cleared(pd, vstart, pd')
               /\ vstart' = vstart + 1 /\ len' = len - 1
      <4> DEFINE d == pd
                 e == pd'
      <4>1. d \in Directories /\ d[vstart \div LP].kind = "table" /\ Cleared(d, vstart, e)
        BY <2>2, <3>2
      <4> HIDE DEF d, e
      <4>2. e \in Directories BY <4>1, <2>2, UnmapSmallShows
      <4> QED BY <4>2, <3>2 DEF e
    <3> QED BY <3>1, <3>2, <1>10, UnmapCases
  <2>4. vstart' \in 0 .. NPages /\ len' \in 0 .. NPages - vstart' BY <2>2, <2>3, <1>0
  <2> QED BY <2>1, <2>3, <2>4, <1>1 DEF TypeOK, Directories
<1>11. CASE GiveBack
  <2>1. UNCHANGED <<ret, layout, gap, pd, pts, vstart, pstart, len, pte_flags, cur, live, lifo>>
    BY <1>11 DEF GiveBack, loopVars
  <2>2. CASE pc' = "full" /\ ArrayKept
    BY <2>1, <2>2, <1>1 DEF TypeOK, Phases, ArrayKept
  <2>3. CASE /\ pc' = "ready" /\ ArrayInv(unused_va_ranges', Blocks')
             /\ Len(unused_va_ranges') =< MaxRanges
    BY <2>1, <2>3, <1>1 DEF TypeOK, Phases, ArrayInv
  <2> QED BY <2>2, <2>3, <1>11, BackGives
<1>12. CASE Stopped \/ UNCHANGED vars
  <2>1. UNCHANGED <<pc, ret, layout, gap, unused_va_ranges, pd, pts, vstart, pstart,
                          len, pte_flags, cur, live, lifo>>
    BY <1>12, StoppedKeeps
  <2> QED BY <2>1, <1>1 DEF TypeOK
<1> QED BY <1>2, <1>3, <1>4, <1>5, <1>6, <1>7, <1>8, <1>9, <1>10, <1>11, <1>12, StepCases

LEMMA PcStep ==
    ASSUME IInv, [Next]_vars PROVE PcInv'
<1>1. PcInv BY DEF IInv
<1>2. CASE IdMap
  <2>1. /\ pc' = "map" /\ ret = "idmap" /\ ret' = "idmap" /\ layout' = layout /\ live' = live
        /\ gap \in Nat /\ gap' = gap + 1
    BY <1>2, IdMapFacts
  <2>2. unused_va_ranges' = unused_va_ranges BY <1>2 DEF IdMap
  <2>3. gap' > 0 BY <2>1
  <2> QED BY <2>1, <2>2, <2>3, <1>1 DEF PcInv
<1>3. CASE IdMapDone
  <2>1. pc = "idmap" /\ pc' = "ready" /\ gap >= Len(unused_va_ranges)
        /\ UNCHANGED <<ret, layout, gap, unused_va_ranges, len, live>>
    BY <1>3 DEF IdMapDone, loopVars
  <2>2. HoleList(layout) /\ gap \in 0 .. Len(layout) BY DEF IInv, TypeOK
  <2>3. Len(layout) \in Nat BY <2>2, HoleFacts
  <2>4. ret = "idmap" /\ unused_va_ranges = layout BY <2>1, <1>1 DEF PcInv
  <2>5. gap = Len(layout) BY <2>1, <2>2, <2>3, <2>4
  <2> QED BY <2>1, <2>4, <2>5, <1>1 DEF PcInv
<1>4. CASE MapLarge
  <2>1. UNCHANGED <<pc, ret, layout, gap, unused_va_ranges, live>> /\ pc = "map"
    BY <1>4 DEF MapLarge
  <2> QED BY <2>1, <1>1 DEF PcInv
<1>5. CASE MapSmall
  <2>1. /\ UNCHANGED <<ret, layout, gap, unused_va_ranges, live>> /\ pc = "map"
        /\ pc' \in {"map", "halted"}
    BY <1>5 DEF MapSmall
  <2> QED BY <2>1, <1>1 DEF PcInv
<1>6. CASE MapDone
  <2>1. /\ pc = "map" /\ len = 0 /\ len' = 0 /\ pc' = ret /\ ret' = ret
        /\ UNCHANGED <<layout, gap, unused_va_ranges>>
        /\ ret # "ready" => live' = live
    BY <1>6 DEF MapDone, loopVars
  <2>2. ret \in {"idmap", "ready"} BY DEF IInv, TypeOK
  <2> QED BY <2>1, <2>2, <1>1 DEF PcInv
<1>7. CASE \E q \in Requests : MemVaMap(q)
  <2>1. /\ pc = "ready" /\ pc' = "map" /\ ret' = "ready" /\ UNCHANGED <<layout, gap>>
    BY <1>7 DEF MemVaMap
  <2> QED BY <2>1, <1>1 DEF PcInv
<1>8. CASE \E q \in Requests : MemVaMapHalt(q)
  <2>1. pc' = "halted" /\ UNCHANGED <<ret, layout, gap, unused_va_ranges, live>>
    BY <1>8 DEF MemVaMapHalt
  <2> QED BY <2>1, <1>1 DEF PcInv
<1>9. CASE \E n \in DOMAIN live : MemVaUnmap(n)
  <2>1. /\ pc = "ready" /\ pc' = "unmap" /\ ret' = "ready" /\ UNCHANGED <<layout, gap>>
    BY <1>9 DEF MemVaUnmap
  <2> QED BY <2>1, <1>1 DEF PcInv
<1>10. CASE UnmapStep
  <2>1. UNCHANGED <<pc, ret, layout, gap, unused_va_ranges, live>> /\ pc = "unmap"
    BY <1>10 DEF UnmapStep
  <2> QED BY <2>1, <1>1 DEF PcInv
<1>11. CASE GiveBack
  <2>1. UNCHANGED <<layout, gap>> BY <1>11 DEF GiveBack
  <2>2. ret = "ready" /\ ret' = "ready" /\ len' = 0 /\ pc' \in {"full", "ready"}
    BY <1>11, BackGives
  <2> QED BY <2>1, <2>2, <1>1 DEF PcInv
<1>12. CASE Stopped \/ UNCHANGED vars
  <2>1. UNCHANGED <<pc, ret, layout, gap, unused_va_ranges, len, live>> BY <1>12, StoppedKeeps
  <2> QED BY <2>1, <1>1 DEF PcInv
<1> QED BY <1>2, <1>3, <1>4, <1>5, <1>6, <1>7, <1>8, <1>9, <1>10, <1>11, <1>12, StepCases

\* UseInv with the mappings in use and the pending one as values.
UseOf(s, isPending, m) ==
    /\ \A i \in DOMAIN s : GoodMapping(s[i])
    /\ \A i, j \in DOMAIN s : i # j => BlockOf(s[i]) # BlockOf(s[j])
    /\ isPending => GoodMapping(m) /\ \A i \in DOMAIN s : BlockOf(s[i]) # BlockOf(m)

LEMMA UseIs ==
    /\ UseInv <=> UseOf(live, Pending, cur)
    /\ UseInv' <=> UseOf(live', Pending', cur')
<1>1. UseInv <=> UseOf(live, Pending, cur) BY DEF UseInv, UseOf
<1>2. UseInv' <=> UseOf(live', Pending', cur')
  BY DEF UseInv, UseOf, GoodMapping, GoodBlock, BlockOf, PagesFor, PageAfter, FirstPage,
         UnmapStart, UnmapLen, UnmapEnd, EndOf
<1> QED BY <1>1, <1>2

LEMMA UseStep ==
    ASSUME IInv, [Next]_vars PROVE UseInv'
<1>1. UseOf(live, Pending, cur) /\ live \in Seq(Mappings) /\ cur \in Mappings
  BY UseIs DEF IInv, TypeOK
<1>2. CASE IdMap \/ IdMapDone
  <2>1. live' = live /\ ~Pending'
    <3>1. pc = "idmap" /\ ret = "idmap" BY <1>2 DEF IInv, PcInv, IdMap, IdMapDone
    <3>2. ret' = "idmap" /\ live' = live BY <1>2, <3>1 DEF IdMap, IdMapDone
    <3> QED BY <3>2 DEF Pending
  <2>2. UseOf(live', Pending', cur') BY <2>1, <1>1 DEF UseOf
  <2> QED BY <2>2, UseIs
<1>3. CASE MapLarge \/ MapSmall \/ UnmapStep
  <2>1. live' = live /\ cur' = cur BY <1>3 DEF MapLarge, MapSmall, UnmapStep
  <2>2. Pending' = Pending BY <1>3, LoopKeeps
  <2>3. UseOf(live', Pending', cur') BY <2>1, <2>2, <1>1 DEF UseOf
  <2> QED BY <2>3, UseIs
<1>4. CASE MapDone
  <2>1. ~Pending' /\ (Pending <=> ret = "ready") BY <1>4, MapDoneKeeps
  <2>2. live' = IF ret = "ready" THEN Append(live, cur) ELSE live BY <1>4 DEF MapDone
  <2>3. CASE ret # "ready"
    <3>1. UseOf(live', Pending', cur') BY <2>1, <2>2, <2>3, <1>1 DEF UseOf
    <3> QED BY <3>1, UseIs
  <2>4. CASE ret = "ready"
    <3> DEFINE s == live
               t == live'
               k == Len(live) + 1
    <3>1. t = Append(s, cur) /\ s \in Seq(Mappings) /\ Pending BY <2>1, <2>2, <2>4, <1>1
    <3>2. /\ DOMAIN t = DOMAIN s \cup {k} /\ k \notin DOMAIN s
          /\ \A i \in DOMAIN s : t[i] = s[i]
          /\ t[k] = cur
      BY <3>1, <1>1
    <3>3. UseOf(s, TRUE, cur) BY <3>1, <1>1 DEF UseOf
    <3> HIDE DEF s, t, k
    <3>4. \A i \in DOMAIN t : GoodMapping(t[i]) BY <3>2, <3>3 DEF UseOf
    <3>5. \A i, j \in DOMAIN t : i # j => BlockOf(t[i]) # BlockOf(t[j])
      BY <3>2, <3>3 DEF UseOf
    <3>6. UseOf(t, FALSE, cur') BY <3>4, <3>5 DEF UseOf
    <3>7. UseOf(live', Pending', cur') BY <3>6, <2>1 DEF UseOf, t
    <3> QED BY <3>7, UseIs
  <2> QED BY <2>3, <2>4
<1>5. CASE \E q \in Requests : MemVaMap(q)
  <2>1. PICK q \in Requests : MemVaMap(q) BY <1>5
  <2>2. /\ ~Pending /\ Pending' /\ live' = live /\ GoodMapping(cur')
        /\ BlockOf(cur') \notin Blocks
    BY <2>1, MapTakes
  <2>3. \A i \in DOMAIN live : BlockOf(live[i]) \in Blocks BY DEF Blocks
  <2>4. \A i \in DOMAIN live : BlockOf(live[i]) # BlockOf(cur') BY <2>2, <2>3
  <2>5. UseOf(live', Pending', cur') BY <2>2, <2>4, <1>1 DEF UseOf
  <2> QED BY <2>5, UseIs
<1>6. CASE \E q \in Requests : MemVaMapHalt(q)
  <2>1. ~Pending' BY <1>6, HaltKeeps
  <2>2. live' = live BY <1>6 DEF MemVaMapHalt
  <2>3. UseOf(live', Pending', cur') BY <2>1, <2>2, <1>1 DEF UseOf
  <2> QED BY <2>3, UseIs
<1>7. CASE \E n \in DOMAIN live : MemVaUnmap(n)
  <2>1. PICK n \in DOMAIN live : MemVaUnmap(n) BY <1>7
  <2> DEFINE s == live
             t == live'
             m == cur'
             L == Len(live)
  <2>2. /\ m = s[n] /\ L \in Nat /\ n \in 1 .. L
        /\ DOMAIN s = 1 .. L /\ DOMAIN t = 1 .. L - 1
        /\ \A i \in 1 .. n - 1 : t[i] = s[i]
        /\ \A i \in n .. L - 1 : t[i] = s[i + 1]
    BY <2>1, UnmapKeeps
  <2>3. UseOf(s, FALSE, m) BY <1>1 DEF UseOf
  <2> HIDE DEF s, t, m, L
  <2> DEFINE old(i) == IF i < n THEN i ELSE i + 1
  <2>4. \A i \in DOMAIN t : old(i) \in DOMAIN s /\ old(i) # n /\ t[i] = s[old(i)]
    <3> TAKE i \in DOMAIN t
    <3>1. CASE i < n
      <4>1. i \in 1 .. n - 1 /\ i \in DOMAIN s BY <3>1, <2>2
      <4> QED BY <4>1, <3>1, <2>2
    <3>2. CASE ~(i < n)
      <4>1. i \in n .. L - 1 /\ i + 1 \in DOMAIN s /\ i + 1 # n BY <3>2, <2>2
      <4> QED BY <4>1, <3>2, <2>2
    <3> QED BY <3>1, <3>2
  <2>5. \A i, j \in DOMAIN t : i # j => old(i) # old(j) BY <2>2
  <2> HIDE DEF old
  <2>6. \A i \in DOMAIN t : GoodMapping(t[i]) BY <2>3, <2>4 DEF UseOf
  <2>7. \A i, j \in DOMAIN t : i # j => BlockOf(t[i]) # BlockOf(t[j])
    BY <2>3, <2>4, <2>5 DEF UseOf
  <2>8. GoodMapping(m) /\ \A i \in DOMAIN t : BlockOf(t[i]) # BlockOf(m)
    <3>1. n \in DOMAIN s BY <2>2
    <3> QED BY <3>1, <2>2, <2>3, <2>4 DEF UseOf
  <2>9. UseOf(t, Pending', m) BY <2>6, <2>7, <2>8 DEF UseOf
  <2> QED BY <2>9, UseIs DEF t, m
<1>8. CASE GiveBack
  <2>1. live' = live /\ cur' = cur /\ Pending BY <1>8, BackGives
  <2>2. UseOf(live', Pending', cur') BY <2>1, <1>1 DEF UseOf
  <2> QED BY <2>2, UseIs
<1>9. CASE Stopped \/ UNCHANGED vars
  <2>1. live' = live /\ cur' = cur /\ Pending' = Pending BY <1>9, StoppedKeeps
  <2>2. UseOf(live', Pending', cur') BY <2>1, <1>1 DEF UseOf
  <2> QED BY <2>2, UseIs
<1> QED BY <1>2, <1>3, <1>4, <1>5, <1>6, <1>7, <1>8, <1>9, StepCases

\* The pages of the blocks B.
CoverOf(B) == UNION {PagesOf(b) : b \in B}

LEMMA CoverMore ==
    ASSUME NEW B, NEW b
    PROVE  CoverOf(B \cup {b}) = CoverOf(B) \cup PagesOf(b)
<1>1. \A p : p \in CoverOf(B \cup {b}) <=> \E c \in B \cup {b} : p \in PagesOf(c)
  BY DEF CoverOf
<1>2. \A p : p \in CoverOf(B) <=> \E c \in B : p \in PagesOf(c) BY DEF CoverOf
<1>3. \A p : p \in CoverOf(B \cup {b}) <=> p \in CoverOf(B) \/ p \in PagesOf(b)
  BY <1>1, <1>2, Zenon
<1> QED BY <1>3

\* SpaceInv of an array, the blocks given out of it and the holes.
SpaceOf(rs, B, hs) ==
    ArrayInv(rs, B) /\ FreeOf(rs) \cup CoverOf(B) = FreeOf(hs)

LEMMA SpaceIs ==
    /\ SpaceInv <=> SpaceOf(unused_va_ranges, Blocks, layout)
    /\ SpaceInv' <=> SpaceOf(unused_va_ranges', Blocks', layout')
<1>1. Unused = FreeOf(unused_va_ranges) /\ Holes = FreeOf(layout) BY DEF Unused, Holes, FreeOf
<1>2. Unused' = FreeOf(unused_va_ranges') /\ Holes' = FreeOf(layout')
  BY DEF Unused, Holes, FreeOf
<1>3. SpaceInv' <=>
        /\ ArrayInv(unused_va_ranges', Blocks')
        /\ Unused' \cup UNION {PagesOf(b) : b \in Blocks'} = Holes'
  BY DEF SpaceInv
<1> QED BY <1>1, <1>2, <1>3 DEF SpaceInv, SpaceOf, CoverOf

LEMMA SpaceStep ==
    ASSUME IInv, [Next]_vars PROVE SpaceInv'
<1>1. SpaceOf(unused_va_ranges, Blocks, layout) BY SpaceIs DEF IInv
<1>2. ASSUME ArrayKept PROVE SpaceInv' BY <1>1, <1>2, SpaceIs DEF ArrayKept
<1>3. CASE IdMap \/ IdMapDone BY <1>2, <1>3, IdMapKeeps
<1>4. CASE MapLarge \/ MapSmall \/ UnmapStep BY <1>2, <1>4, LoopKeeps
<1>5. CASE MapDone BY <1>2, <1>5, MapDoneKeeps
<1>6. CASE \E q \in Requests : MemVaMapHalt(q) BY <1>2, <1>6, HaltKeeps
<1>7. CASE \E n \in DOMAIN live : MemVaUnmap(n) BY <1>2, <1>7, UnmapKeeps
<1>8. CASE Stopped \/ UNCHANGED vars BY <1>2, <1>8, StoppedKeeps
<1>9. Unused = FreeOf(unused_va_ranges) /\ Unused' = FreeOf(unused_va_ranges')
  BY DEF Unused, FreeOf
<1>10. CASE \E q \in Requests : MemVaMap(q)
  <2>1. PICK q \in Requests : MemVaMap(q) BY <1>10
  <2> DEFINE b == BlockOf(cur')
             B == Blocks
             C == Blocks'
             F == Unused
             G == Unused'
  <2>2. /\ layout' = layout /\ C = B \cup {b} /\ ArrayInv(unused_va_ranges', C)
        /\ PagesOf(b) \subseteq F /\ G = F \ PagesOf(b)
    BY <2>1, MapTakes
  <2>3. F \cup CoverOf(B) = FreeOf(layout) BY <1>1, <1>9 DEF SpaceOf
  <2> HIDE DEF b, B, C, F, G
  <2>4. CoverOf(C) = CoverOf(B) \cup PagesOf(b)
    BY <2>2, CoverMore
  <2>5. G \cup CoverOf(C) = FreeOf(layout) BY <2>2, <2>3, <2>4
  <2>6. SpaceOf(unused_va_ranges', C, layout') BY <2>2, <2>5, <1>9 DEF SpaceOf, G
  <2> QED BY <2>6, SpaceIs DEF C
<1>11. CASE GiveBack
  <2>1. CASE ArrayKept BY <1>2, <2>1
  <2>2. CASE ~ArrayKept
    <3> DEFINE b == BlockOf(cur)
               B == Blocks
               C == Blocks'
               F == Unused
               G == Unused'
    <3>1. /\ layout' = layout /\ b \in B /\ C = B \ {b} /\ ArrayInv(unused_va_ranges', C)
          /\ G = F \cup PagesOf(b)
      BY <2>2, <1>11, BackGives
    <3>2. F \cup CoverOf(B) = FreeOf(layout) BY <1>1, <1>9 DEF SpaceOf
    <3> HIDE DEF b, B, C, F, G
    <3>3. CoverOf(B) = CoverOf(C) \cup PagesOf(b)
      <4>1. B = C \cup {b} BY <3>1
      <4> QED BY <4>1, CoverMore
    <3>4. G \cup CoverOf(C) = FreeOf(layout) BY <3>1, <3>2, <3>3
    <3>5. SpaceOf(unused_va_ranges', C, layout') BY <3>1, <3>4, <1>9 DEF SpaceOf, G
    <3> QED BY <3>5, SpaceIs DEF C
  <2> QED BY <2>1, <2>2
<1> QED BY <1>3, <1>4, <1>5, <1>6, <1>7, <1>8, <1>10, <1>11, StepCases

-----------------------------------------------------------------------------
(***************************************************************************)
(* Mappings undone in reverse order.  LifoInv of an array rs, the holes    *)
(* hs, the blocks B, the mappings s in use and the block x pending.        *)
(***************************************************************************)
Within(hs, b, n) == hs[n].start =< b.start /\ EndOf(b) =< EndOf(hs[n])

AtBottom(rs, hs) ==
    /\ Len(rs) = Len(hs)
    /\ \A n \in DOMAIN hs : rs[n].start = hs[n].start /\ rs[n].len =< hs[n].len
AllWithin(hs, B) == \A b \in B : \E n \in DOMAIN hs : Within(hs, b, n)
Stacked(hs, s) ==
    \A n \in DOMAIN hs : \A i, j \in DOMAIN s :
        i < j /\ Within(hs, BlockOf(s[i]), n) /\ Within(hs, BlockOf(s[j]), n)
            => EndOf(BlockOf(s[j])) =< BlockOf(s[i]).start
OnTop(hs, s, x) ==
    \A n \in DOMAIN hs : \A i \in DOMAIN s :
        Within(hs, BlockOf(s[i]), n) /\ Within(hs, x, n)
            => EndOf(x) =< BlockOf(s[i]).start

LEMMA LifoIs ==
    /\ LifoInv /\ lifo =>
        /\ AtBottom(unused_va_ranges, layout) /\ AllWithin(layout, Blocks)
        /\ Stacked(layout, live) /\ (Pending => OnTop(layout, live, BlockOf(cur)))
    /\ layout' = layout =>
        (LifoInv' <=>
            (lifo' =>
                /\ AtBottom(unused_va_ranges', layout) /\ AllWithin(layout, Blocks')
                /\ Stacked(layout, live') /\ (Pending' => OnTop(layout, live', BlockOf(cur')))))
<1>1. LifoInv /\ lifo =>
        /\ AtBottom(unused_va_ranges, layout) /\ AllWithin(layout, Blocks)
        /\ Stacked(layout, live) /\ (Pending => OnTop(layout, live, BlockOf(cur)))
  BY DEF LifoInv, AtBottom, AllWithin, Stacked, OnTop, InHole, Within
<1>2. LifoInv' <=>
        (lifo' =>
            /\ AtBottom(unused_va_ranges', layout') /\ AllWithin(layout', Blocks')
            /\ Stacked(layout', live') /\ (Pending' => OnTop(layout', live', BlockOf(cur'))))
  BY DEF LifoInv, AtBottom, AllWithin, Stacked, OnTop, InHole, Within, EndOf,
         BlockOf, PagesFor, PageAfter, FirstPage
<1> QED BY <1>1, <1>2

\* A block is within one hole at most.
LEMMA OneHole ==
    ASSUME NEW hs, HoleList(hs), NEW b \in VaRanges, b.len > 0,
           NEW m \in DOMAIN hs, NEW n \in DOMAIN hs,
           NEW p \in PagesOf(b), hs[m].start =< p, p < EndOf(hs[m]),
           hs[n].start =< p, p < EndOf(hs[n])
    PROVE  m = n
<1>1. p \in Nat BY RangeNumbers
<1>2. /\ DOMAIN hs = 1 .. Len(hs) /\ Len(hs) \in Nat
      /\ \A i \in DOMAIN hs : hs[i].start \in Nat \ {0} /\ EndOf(hs[i]) \in Nat
      /\ \A i, j \in DOMAIN hs : i < j => EndOf(hs[i]) < hs[j].start
  BY HoleFacts
<1>3. hs[m].start \in Nat /\ EndOf(hs[m]) \in Nat /\ hs[n].start \in Nat /\ EndOf(hs[n]) \in Nat
  BY <1>2
<1>4. (m < n => EndOf(hs[m]) < hs[n].start) /\ (n < m => EndOf(hs[n]) < hs[m].start)
  BY <1>2
<1> QED BY <1>1, <1>2, <1>3, <1>4

\* mem_va_map(): the block comes from a range at the bottom of its hole, and
\* is below the blocks that were taken from it earlier.
LEMMA LifoTake ==
    ASSUME NEW rs, NEW hs, NEW B, NEW s, NEW n \in DOMAIN rs, NEW b,
           HoleList(hs), ArrayInv(rs, B), AtBottom(rs, hs),
           \A i \in DOMAIN s : BlockOf(s[i]) \in B,
           GoodBlock(b), rs[n].start =< b.start, EndOf(b) = EndOf(rs[n])
    PROVE  n \in DOMAIN hs /\ Within(hs, b, n) /\ OnTop(hs, s, b)
<1>1. Len(rs) \in Nat /\ DOMAIN rs = 1 .. Len(rs) BY ArrayFacts
<1>2. /\ rs[n].start \in Nat \ {0} /\ rs[n].len \in Nat /\ EndOf(rs[n]) \in Nat
      /\ EndOf(rs[n]) = rs[n].start + rs[n].len
  BY ArrayFacts
<1>3. DOMAIN hs = 1 .. Len(hs) BY HoleFacts
<1>4. n \in DOMAIN hs BY <1>1, <1>3 DEF AtBottom
<1>5. /\ hs[n].start \in Nat /\ hs[n].len \in Nat /\ EndOf(hs[n]) \in Nat
      /\ EndOf(hs[n]) = hs[n].start + hs[n].len
  BY <1>4, HoleFacts
<1>6. rs[n].start = hs[n].start /\ rs[n].len =< hs[n].len BY <1>4 DEF AtBottom
<1>7. /\ b \in VaRanges /\ b.start \in Nat \ {0} /\ b.len \in Nat \ {0} /\ EndOf(b) \in Nat
      /\ EndOf(b) = b.start + b.len
      /\ \A p : p \in PagesOf(b) <=> p \in Nat /\ b.start =< p /\ p < EndOf(b)
  BY BlockNumbers
<1>8. Within(hs, b, n) BY <1>2, <1>5, <1>6, <1>7 DEF Within
<1>9. ASSUME NEW m \in DOMAIN hs, NEW i \in DOMAIN s,
             Within(hs, BlockOf(s[i]), m), Within(hs, b, m)
      PROVE  EndOf(b) =< BlockOf(s[i]).start
  <2> DEFINE c == BlockOf(s[i])
  <2>1. c \in B OBVIOUS
  <2>2. Within(hs, c, m) BY <1>9
  <2> HIDE DEF c
  <2>3. /\ c.start \in Nat \ {0} /\ c.len \in Nat \ {0} /\ EndOf(c) \in Nat
        /\ EndOf(c) = c.start + c.len
    BY <2>1, ArrayFacts
  <2>4. Apart(c, rs[n]) BY <2>1, ArrayFacts
  <2>5. m = n
    <3>1. b.start \in PagesOf(b) /\ b.len > 0 BY <1>7
    <3>2. hs[m].start =< b.start /\ hs[n].start =< b.start BY <1>8, <1>9 DEF Within
    <3>3. EndOf(hs[m]) \in Nat BY HoleFacts
    <3>4. b.start < EndOf(hs[m]) /\ b.start < EndOf(hs[n])
      BY <3>3, <1>5, <1>7, <1>8, <1>9 DEF Within
    <3> QED BY <3>1, <3>2, <3>4, <1>4, <1>7, OneHole
  <2>6. hs[n].start =< c.start BY <2>2, <2>5 DEF Within
  <2>7. rs[n].len # 0 BY <1>2, <1>7
  <2>8. EndOf(rs[n]) =< c.start BY <2>3, <2>4, <2>6, <2>7, <1>2, <1>6 DEF Apart
  <2> QED BY <2>8 DEF c
<1> QED BY <1>4, <1>8, <1>9 DEF OnTop

\* mem_va_unmap() of the block taken last: it lies just above the range of its
\* hole, which takes it in.
LEMMA LifoMeets ==
    ASSUME NEW rs, NEW hs, NEW B, NEW s, NEW b \in B, NEW n \in DOMAIN hs,
           HoleList(hs), SpaceOf(rs, B, hs), AtBottom(rs, hs), AllWithin(hs, B),
           \A c \in B : c = b \/ \E i \in DOMAIN s : c = BlockOf(s[i]),
           OnTop(hs, s, b), Within(hs, b, n)
    PROVE  n \in DOMAIN rs /\ EndOf(rs[n]) = b.start
<1>1. ArrayInv(rs, B) BY DEF SpaceOf
<1>2. Len(rs) \in Nat /\ DOMAIN rs = 1 .. Len(rs) BY <1>1, ArrayFacts
<1>3. DOMAIN hs = 1 .. Len(hs) BY HoleFacts
<1>4. n \in DOMAIN rs /\ DOMAIN rs = DOMAIN hs BY <1>2, <1>3 DEF AtBottom
<1>5. /\ rs[n].start \in Nat \ {0} /\ rs[n].len \in Nat /\ EndOf(rs[n]) \in Nat
      /\ EndOf(rs[n]) = rs[n].start + rs[n].len
  BY <1>1, <1>4, ArrayFacts
<1>6. /\ hs[n].start \in Nat /\ hs[n].len \in Nat /\ EndOf(hs[n]) \in Nat
      /\ EndOf(hs[n]) = hs[n].start + hs[n].len /\ hs[n] \in VaRanges
  BY HoleFacts
<1>7. rs[n].start = hs[n].start BY DEF AtBottom
<1>8. /\ b.start \in Nat \ {0} /\ b.len \in Nat \ {0} /\ EndOf(b) \in Nat
      /\ EndOf(b) = b.start + b.len
  BY <1>1, ArrayFacts
<1>9. Apart(b, rs[n]) BY <1>1, <1>4, ArrayFacts
<1>10. hs[n].start =< b.start /\ EndOf(b) =< EndOf(hs[n]) BY DEF Within
<1>11. EndOf(rs[n]) =< b.start BY <1>5, <1>7, <1>8, <1>9, <1>10 DEF Apart
<1>12. ASSUME EndOf(rs[n]) < b.start PROVE FALSE
  <2> DEFINE p == b.start - 1
  <2>1. p \in Nat /\ EndOf(rs[n]) =< p /\ p < b.start BY <1>5, <1>8, <1>12
  <2>2. hs[n].start =< p /\ p < EndOf(hs[n]) BY <2>1, <1>5, <1>6, <1>7, <1>8, <1>10
  <2> HIDE DEF p
  <2>3. p \in PagesOf(hs[n]) BY <2>1, <2>2, <1>6, RangeNumbers
  <2>4. p \in FreeOf(hs) BY <2>3 DEF FreeOf
  <2>5. p \in FreeOf(rs) \/ p \in CoverOf(B) BY <2>4 DEF SpaceOf
  <2>6. CASE p \in FreeOf(rs)
    <3>1. PICK k \in DOMAIN rs : p \in PagesOf(rs[k]) BY <2>6 DEF FreeOf
    <3>2. rs[k] \in VaRanges /\ rs[k].start \in Nat /\ EndOf(rs[k]) = rs[k].start + rs[k].len
      /\ rs[k].len \in Nat
      BY <1>1, ArrayFacts
    <3>3. rs[k].start =< p /\ p < EndOf(rs[k]) BY <3>1, <3>2, RangeNumbers
    <3>4. k \in DOMAIN hs /\ rs[k].start = hs[k].start /\ rs[k].len =< hs[k].len
      BY <1>4 DEF AtBottom
    <3>5. hs[k].len \in Nat /\ EndOf(hs[k]) = hs[k].start + hs[k].len BY <3>4, HoleFacts
    <3>6. hs[k].start =< p /\ p < EndOf(hs[k]) BY <3>2, <3>3, <3>4, <3>5, <2>1
    <3>7. hs[n].len > 0 BY <2>2, <2>1, <1>6
    <3>8. k = n BY <3>4, <3>6, <3>7, <2>2, <2>3, <1>6, OneHole
    <3> QED BY <3>3, <3>8, <2>1, <1>5
  <2>7. CASE p \in CoverOf(B)
    <3>1. PICK c \in B : p \in PagesOf(c) BY <2>7 DEF CoverOf
    <3>2. /\ c \in VaRanges /\ c.start \in Nat \ {0} /\ c.len \in Nat \ {0}
          /\ EndOf(c) \in Nat /\ EndOf(c) = c.start + c.len
      BY <1>1, ArrayFacts
    <3>3. c.start =< p /\ p < EndOf(c) BY <3>1, <3>2, RangeNumbers
    <3>4. c # b BY <3>3, <2>1, <1>8
    <3>5. PICK i \in DOMAIN s : c = BlockOf(s[i]) BY <3>4
    <3>6. PICK m \in DOMAIN hs : Within(hs, c, m) BY DEF AllWithin
    <3>7. hs[m].start \in Nat /\ EndOf(hs[m]) \in Nat BY HoleFacts
    <3>8. hs[m].start =< p /\ p < EndOf(hs[m]) BY <3>2, <3>3, <3>6, <3>7, <2>1 DEF Within
    <3>9. hs[n].len > 0 BY <2>2, <2>1, <1>6
    <3>10. m = n BY <3>8, <3>9, <2>2, <2>3, <1>6, OneHole
    <3>11. Within(hs, BlockOf(s[i]), n) BY <3>5, <3>6, <3>10
    <3>12. EndOf(b) =< BlockOf(s[i]).start BY <3>11 DEF OnTop
    <3>13. EndOf(b) =< c.start BY <3>5, <3>12
    <3> QED BY <3>2, <3>3, <3>13, <2>1, <1>8
  <2> QED BY <2>5, <2>6, <2>7
<1> QED BY <1>4, <1>5, <1>8, <1>11, <1>12

LEMMA LifoBack ==
    ASSUME NEW rs, NEW hs, NEW B, NEW s, NEW b \in B, NEW j \in DOMAIN rs, NEW rt,
           HoleList(hs), SpaceOf(rs, B, hs), AtBottom(rs, hs), AllWithin(hs, B),
           \A c \in B : c = b \/ \E i \in DOMAIN s : c = BlockOf(s[i]),
           OnTop(hs, s, b),
           Takes(rs[j], b), \A k \in DOMAIN rs : k > j => ~Takes(rs[k], b),
           Meets(rs[j], b) => JoinedTo(rs, j, b, rt)
    PROVE  AtBottom(rt, hs)
<1>1. ArrayInv(rs, B) BY DEF SpaceOf
<1>2. Len(rs) \in Nat /\ DOMAIN rs = 1 .. Len(rs) /\ rs \in Seq(VaRanges)
  BY <1>1, ArrayFacts DEF ArrayInv
<1>3. DOMAIN hs = 1 .. Len(hs) BY HoleFacts
<1>4. DOMAIN rs = DOMAIN hs BY <1>2, <1>3 DEF AtBottom
<1>5. PICK n \in DOMAIN hs : Within(hs, b, n) BY DEF AllWithin
<1>6. EndOf(rs[n]) = b.start BY <1>5, LifoMeets
<1>7. Takes(rs[n], b) BY <1>6 DEF Takes, Meets
<1>8. /\ b.start \in Nat \ {0} /\ b.len \in Nat \ {0} /\ EndOf(b) \in Nat
      /\ EndOf(b) = b.start + b.len
  BY <1>1, ArrayFacts
<1>9. j = n
  <2>1. ~(n > j) BY <1>4, <1>7
  <2>2. ASSUME j > n PROVE FALSE
    <3>1. rs[j].start = hs[j].start BY <1>4 DEF AtBottom
    <3>2. EndOf(hs[n]) < hs[j].start /\ EndOf(hs[n]) \in Nat /\ hs[j].start \in Nat
      BY <2>2, <1>4, HoleFacts
    <3>3. EndOf(b) =< EndOf(hs[n]) BY <1>5 DEF Within
    <3>4. /\ rs[j].start \in Nat \ {0} /\ rs[j].len \in Nat
          /\ EndOf(rs[j]) = rs[j].start + rs[j].len
      BY <1>1, ArrayFacts
    <3>5. rs[j].start > EndOf(b) BY <3>1, <3>2, <3>3, <1>8
    <3> QED BY <3>4, <3>5, <1>8 DEF Takes, Meets
  <2> QED BY <2>1, <2>2, <1>2, <1>4
<1>10. /\ rs[n].start \in Nat \ {0} /\ rs[n].len \in Nat
       /\ EndOf(rs[n]) = rs[n].start + rs[n].len
  BY <1>1, <1>4, ArrayFacts
<1>11. /\ hs[n].start \in Nat /\ hs[n].len \in Nat
       /\ EndOf(hs[n]) = hs[n].start + hs[n].len
  BY HoleFacts
<1>12. rs[n].start = hs[n].start /\ EndOf(b) =< EndOf(hs[n]) BY <1>5 DEF AtBottom, Within
<1>13. Meets(rs[j], b) BY <1>6, <1>9 DEF Meets
<1> DEFINE r == [start |-> IF rs[n].start = EndOf(b) THEN b.start ELSE rs[n].start,
                 len |-> rs[n].len + b.len]
<1>14. rt = [rs EXCEPT ![n] = r] BY <1>9, <1>13, Zenon DEF JoinedTo
<1>15. r.start = hs[n].start /\ r.len =< hs[n].len
  <2>1. rs[n].start # EndOf(b) BY <1>6, <1>8, <1>10
  <2>2. r.start = rs[n].start /\ r.len = rs[n].len + b.len BY <2>1
  <2> QED BY <2>2, <1>6, <1>8, <1>10, <1>11, <1>12
<1> HIDE DEF r
<1>16. Len(rt) = Len(rs) /\ DOMAIN rt = DOMAIN rs BY <1>2, <1>14
<1>17. \A k \in DOMAIN rs : k # n => rt[k] = rs[k] BY <1>2, <1>14
<1>18. rt[n] = r BY <1>2, <1>4, <1>14
<1>19. ASSUME NEW k \in DOMAIN hs PROVE rt[k].start = hs[k].start /\ rt[k].len =< hs[k].len
  <2>1. CASE k = n BY <2>1, <1>15, <1>18
  <2>2. CASE k # n BY <2>2, <1>4, <1>17 DEF AtBottom
  <2> QED BY <2>1, <2>2
<1>20. Len(rt) = Len(hs) BY <1>16 DEF AtBottom
<1> QED BY <1>19, <1>20 DEF AtBottom

LEMMA LifoStep ==
    ASSUME IInv, [Next]_vars PROVE LifoInv'
<1> DEFINE R == unused_va_ranges
           T == unused_va_ranges'
           H == layout
           s == live
           t == live'
<1>1. lifo => /\ AtBottom(R, H) /\ AllWithin(H, Blocks)
              /\ Stacked(H, s) /\ (Pending => OnTop(H, s, BlockOf(cur)))
  BY LifoIs DEF IInv
<1>2. ASSUME H' = H,
             lifo' => /\ AtBottom(T, H) /\ AllWithin(H, Blocks')
                      /\ Stacked(H, t) /\ (Pending' => OnTop(H, t, BlockOf(cur')))
      PROVE  LifoInv'
  BY <1>2, LifoIs
<1>3. HoleList(H) /\ s \in Seq(Mappings) /\ cur \in Mappings BY DEF IInv, TypeOK
<1>4. SpaceOf(R, Blocks, H) /\ ArrayInv(R, Blocks) BY SpaceIs DEF IInv, SpaceInv
<1>5. \A i \in DOMAIN s : BlockOf(s[i]) \in Blocks BY DEF Blocks
<1>6. CASE IdMap \/ IdMapDone
  <2>1. ArrayKept BY <1>6, IdMapKeeps
  <2>2. t = s /\ lifo' = lifo /\ ~Pending'
    <3>1. pc = "idmap" /\ ret = "idmap" BY <1>6 DEF IInv, PcInv, IdMap, IdMapDone
    <3>2. ret' = "idmap" /\ t = s /\ lifo' = lifo BY <1>6, <3>1 DEF IdMap, IdMapDone
    <3> QED BY <3>2 DEF Pending
  <2>3. T = R /\ H' = H /\ Blocks' = Blocks BY <2>1 DEF ArrayKept
  <2> HIDE DEF R, T, H, s, t
  <2> QED BY <2>2, <2>3, <1>1, <1>2
<1>7. CASE MapLarge \/ MapSmall \/ UnmapStep
  <2>1. ArrayKept /\ Pending' = Pending BY <1>7, LoopKeeps
  <2>2. t = s /\ lifo' = lifo /\ cur' = cur BY <1>7 DEF MapLarge, MapSmall, UnmapStep
  <2>3. T = R /\ H' = H /\ Blocks' = Blocks BY <2>1 DEF ArrayKept
  <2> HIDE DEF R, T, H, s, t
  <2> QED BY <2>1, <2>2, <2>3, <1>1, <1>2
<1>8. CASE MapDone
  <2>1. ArrayKept /\ ~Pending' /\ (Pending <=> ret = "ready") BY <1>8, MapDoneKeeps
  <2>2. T = R /\ H' = H /\ Blocks' = Blocks BY <2>1 DEF ArrayKept
  <2>3. lifo' = lifo /\ t = IF ret = "ready" THEN Append(s, cur) ELSE s BY <1>8 DEF MapDone
  <2>4. CASE ret # "ready"
    <3>1. t = s BY <2>3, <2>4
    <3> HIDE DEF R, T, H, s, t
    <3> QED BY <3>1, <2>1, <2>2, <2>3, <1>1, <1>2
  <2>5. CASE ret = "ready"
    <3> DEFINE k == Len(s) + 1
    <3>1. t = Append(s, cur) /\ s \in Seq(Mappings) BY <2>3, <2>5, <1>3
    <3>2. /\ DOMAIN t = DOMAIN s \cup {k} /\ \A i \in DOMAIN s : i < k /\ i \in Nat
          /\ \A i \in DOMAIN s : t[i] = s[i]
          /\ t[k] = cur /\ k \in Nat
      BY <3>1, <1>3
    <3> HIDE DEF R, T, H, s, t, k
    <3>3. ASSUME lifo PROVE Stacked(H, t)
      <4>1. Stacked(H, s) /\ OnTop(H, s, BlockOf(cur)) BY <3>3, <2>1, <2>5, <1>1
      <4>2. ASSUME NEW n \in DOMAIN H, NEW i \in DOMAIN t, NEW j \in DOMAIN t, i < j,
                   Within(H, BlockOf(t[i]), n), Within(H, BlockOf(t[j]), n)
            PROVE  EndOf(BlockOf(t[j])) =< BlockOf(t[i]).start
        <5>1. i \in DOMAIN s BY <3>2, <4>2
        <5>2. CASE j \in DOMAIN s
          <6>1. t[i] = s[i] /\ t[j] = s[j] BY <5>1, <5>2, <3>2
          <6> QED BY <6>1, <5>1, <5>2, <4>1, <4>2 DEF Stacked
        <5>3. CASE j = k
          <6>1. t[i] = s[i] /\ t[j] = cur BY <5>1, <5>3, <3>2
          <6> QED BY <6>1, <5>1, <4>1, <4>2 DEF OnTop
        <5> QED BY <5>2, <5>3, <3>2
      <4> QED BY <4>2 DEF Stacked
    <3> QED BY <3>3, <2>1, <2>2, <2>3, <1>1, <1>2
  <2> QED BY <2>4, <2>5
<1>9. CASE \E q \in Requests : MemVaMap(q)
  <2>1. PICK q \in Requests : MemVaMap(q) BY <1>9
  <2> DEFINE b == BlockOf(cur')
             B == Blocks
             C == Blocks'
  <2>2. /\ ~Pending /\ Pending' /\ t = s /\ H' = H
        /\ GoodMapping(cur') /\ C = B \cup {b}
    BY <2>1, MapTakes
  <2>10. Len(T) = Len(R) BY <2>1, MapTakes
  <2>3. \A m \in DOMAIN R : T[m].start = R[m].start /\ T[m].len =< R[m].len
    BY <2>1, MapTakes
  <2>4. PICK n \in DOMAIN R : R[n].start =< b.start /\ EndOf(b) = EndOf(R[n])
    BY <2>1, MapTakes
  <2>5. lifo' = lifo BY <2>1 DEF MemVaMap
  <2>6. GoodBlock(b) BY <2>2 DEF GoodMapping
  <2>11. T \in Seq(VaRanges)
    <3>1. ArrayInv(T, C) BY <2>1, MapTakes
    <3> QED BY <3>1 DEF ArrayInv
  <2> HIDE DEF b, B, C, R, T, H, s, t
  <2>7. ASSUME lifo PROVE AtBottom(T, H) /\ AllWithin(H, C) /\ Stacked(H, t) /\ OnTop(H, t, b)
    <3>1. AtBottom(R, H) /\ AllWithin(H, B) /\ Stacked(H, s) BY <2>7, <1>1 DEF B
    <3>2. n \in DOMAIN H /\ Within(H, b, n) /\ OnTop(H, s, b)
      <4>1. \A i \in DOMAIN s : BlockOf(s[i]) \in B BY <1>5 DEF B
      <4>2. ArrayInv(R, B) BY <1>4 DEF B
      <4> QED BY <4>1, <4>2, <3>1, <2>4, <2>6, <1>3, LifoTake
    <3>3. AllWithin(H, C) BY <3>1, <3>2, <2>2 DEF AllWithin
    <3>4. AtBottom(T, H)
      <4>1. Len(T) = Len(H) BY <3>1, <2>10 DEF AtBottom
      <4>2. DOMAIN R = 1 .. Len(R) BY <1>4, ArrayFacts
      <4>3. DOMAIN H = 1 .. Len(H) BY <1>3, HoleFacts
      <4>4. DOMAIN R = DOMAIN H BY <4>2, <4>3, <3>1 DEF AtBottom
      <4>5. ASSUME NEW m \in DOMAIN H PROVE T[m].start = H[m].start /\ T[m].len =< H[m].len
        <5>1. T[m].start = R[m].start /\ T[m].len =< R[m].len BY <4>4, <2>3
        <5>2. R[m].start = H[m].start /\ R[m].len =< H[m].len BY <3>1 DEF AtBottom
        <5>3. R[m].len \in Nat BY <4>4, <1>4, ArrayFacts
        <5>4. H[m].len \in Nat BY <1>3, HoleFacts
        <5>5. T[m].len \in Nat
          <6>1. m \in DOMAIN T BY <4>1, <4>3, <2>11
          <6>2. T[m] \in VaRanges BY <6>1, <2>11
          <6> QED BY <6>2, RangeNumbers
        <5> QED BY <5>1, <5>2, <5>3, <5>4, <5>5
      <4> QED BY <4>1, <4>5 DEF AtBottom
    <3> QED BY <3>1, <3>2, <3>3, <3>4, <2>2
  <2> QED BY <2>2, <2>5, <2>7, <1>2 DEF b, C
<1>10. CASE \E q \in Requests : MemVaMapHalt(q)
  <2>1. ArrayKept /\ ~Pending' BY <1>10, HaltKeeps
  <2>2. t = s /\ lifo' = lifo BY <1>10 DEF MemVaMapHalt
  <2>3. T = R /\ H' = H /\ Blocks' = Blocks BY <2>1 DEF ArrayKept
  <2> HIDE DEF R, T, H, s, t
  <2> QED BY <2>1, <2>2, <2>3, <1>1, <1>2
<1>11. CASE \E n \in DOMAIN live : MemVaUnmap(n)
  <2>1. PICK n \in DOMAIN live : MemVaUnmap(n) BY <1>11
  <2> DEFINE L == Len(live)
             m == cur'
  <2>2. ArrayKept /\ ~Pending /\ Pending' BY <2>1, UnmapKeeps
  <2>3. /\ m = s[n] /\ L \in Nat /\ n \in 1 .. L
        /\ DOMAIN s = 1 .. L /\ DOMAIN t = 1 .. L - 1
        /\ \A i \in 1 .. n - 1 : t[i] = s[i]
    BY <2>1, UnmapKeeps
  <2>4. lifo' => lifo /\ n = L BY <2>1 DEF MemVaUnmap
  <2>5. T = R /\ H' = H /\ Blocks' = Blocks BY <2>2 DEF ArrayKept
  <2> HIDE DEF R, T, H, s, t, L, m
  <2>6. ASSUME lifo' PROVE Stacked(H, t) /\ OnTop(H, t, BlockOf(m))
    <3>1. n = L /\ Stacked(H, s) BY <2>4, <2>6, <1>1
    <3>2. \A i \in DOMAIN t : i \in DOMAIN s /\ i < n /\ t[i] = s[i] /\ i \in Nat
      BY <3>1, <2>3
    <3>3. Stacked(H, t) BY <3>1, <3>2 DEF Stacked
    <3>4. n \in DOMAIN s BY <2>3
    <3>5. OnTop(H, t, BlockOf(m)) BY <3>1, <3>2, <3>4, <2>3 DEF Stacked, OnTop
    <3> QED BY <3>3, <3>5
  <2> QED BY <2>4, <2>5, <2>6, <1>1, <1>2 DEF m
<1>12. CASE GiveBack
  <2>1. /\ Pending /\ t = s /\ H' = H /\ cur' = cur /\ BlockOf(cur) \in Blocks
    BY <1>12, BackGives
  <2>2. lifo' = lifo BY <1>12 DEF GiveBack
  <2>3. CASE ArrayKept
    <3>1. T = R /\ Blocks' = Blocks BY <2>3 DEF ArrayKept
    <3> HIDE DEF R, T, H, s, t
    <3> QED BY <3>1, <2>1, <2>2, <1>1, <1>2
  <2>4. CASE ~ArrayKept
    <3> DEFINE b == BlockOf(cur)
               B == Blocks
               C == Blocks'
    <3>1. ~Pending' /\ C = B \ {b} BY <2>4, <1>12, BackGives
    <3>2. PICK j \in DOMAIN R :
            /\ Takes(R[j], b) /\ \A k \in DOMAIN R : k > j => ~Takes(R[k], b)
            /\ Meets(R[j], b) => JoinedTo(R, j, b, T)
      BY <2>4, <1>12, BackGives
    <3>3. \A c \in B : c = b \/ \E i \in DOMAIN s : c = BlockOf(s[i]) BY DEF Blocks
    <3>4. b \in B /\ SpaceOf(R, B, H) BY <2>1, <1>4
    <3>5. ASSUME lifo PROVE AtBottom(R, H) /\ AllWithin(H, B) /\ OnTop(H, s, b)
      BY <3>5, <2>1, <1>1
    <3> HIDE DEF R, T, H, s, t, b, B, C
    <3>6. ASSUME lifo PROVE AtBottom(T, H)
      <4>1. AtBottom(R, H) /\ AllWithin(H, B) /\ OnTop(H, s, b) BY <3>5, <3>6
      <4> QED BY <4>1, <3>2, <3>3, <3>4, <1>3, LifoBack
    <3>7. ASSUME lifo PROVE AllWithin(H, C) BY <3>1, <3>5, <3>7 DEF AllWithin
    <3> QED BY <3>1, <3>6, <3>7, <2>1, <2>2, <1>1, <1>2 DEF C
  <2> QED BY <2>3, <2>4
<1>13. CASE Stopped \/ UNCHANGED vars
  <2>1. ArrayKept /\ Pending' = Pending BY <1>13, StoppedKeeps
  <2>2. t = s /\ lifo' = lifo /\ cur' = cur BY <1>13, StoppedKeeps
  <2>3. T = R /\ H' = H /\ Blocks' = Blocks BY <2>1 DEF ArrayKept
  <2> HIDE DEF R, T, H, s, t
  <2> QED BY <2>1, <2>2, <2>3, <1>1, <1>2
<1> QED BY <1>6, <1>7, <1>8, <1>9, <1>10, <1>11, <1>12, <1>13, StepCases

-----------------------------------------------------------------------------
\* LoopInv, a loop at a time.
IdLoop(h, g, v, ps, l, f) ==
    /\ ps = v /\ v + l = h[g].start
    /\ g = 1 \/ v >= EndOf(h[g - 1])
    /\ f = IF g = 1 THEN BaseFlags ELSE "wb"
InLoop(m, v, l) == v >= BlockOf(m).start /\ v + l = EndOf(BlockOf(m))
MapLoop(m, v, ps, l, f) ==
    InLoop(m, v, l) /\ ps = FirstPage(m.pa) + (v - FirstPage(m.va)) /\ f = m.flags

LEMMA LoopIs ==
    /\ LoopInv <=>
        /\ pc = "map" /\ ret = "idmap" => IdLoop(layout, gap, vstart, pstart, len, pte_flags)
        /\ pc = "map" /\ ret = "ready" => MapLoop(cur, vstart, pstart, len, pte_flags)
        /\ pc = "unmap" => InLoop(cur, vstart, len)
    /\ LoopInv' <=>
        /\ pc' = "map" /\ ret' = "idmap" =>
            IdLoop(layout', gap', vstart', pstart', len', pte_flags')
        /\ pc' = "map" /\ ret' = "ready" => MapLoop(cur', vstart', pstart', len', pte_flags')
        /\ pc' = "unmap" => InLoop(cur', vstart', len')
BY DEF LoopInv, IdLoop, InLoop, MapLoop, BlockOf, EndOf, FirstPage, PageAfter, PagesFor

\* The first page of a mapping's physical memory is a number.
LEMMA PhysPage ==
    ASSUME NEW m \in Mappings
    PROVE  FirstPage(m.pa) \in Nat /\ FirstPage(m.va) \in Nat /\ m.flags \in Flags
<1> DEFINE a == m.pa
           v == m.va
<1>1. a \in Nat /\ a \in Int /\ v \in Nat /\ v \in Int /\ m.flags \in Flags BY DEF Mappings
<1>2. PageSize \in Nat \ {0} BY VaAssumption
<1> HIDE DEF a, v
<1>3. a \div PageSize \in Nat /\ v \div PageSize \in Nat BY <1>1, <1>2, DivModDef
<1> QED BY <1>1, <1>3 DEF FirstPage, a, v

LEMMA LoopStep ==
    ASSUME IInv, [Next]_vars PROVE LoopInv'
<1>1. /\ pc = "map" /\ ret = "idmap" => IdLoop(layout, gap, vstart, pstart, len, pte_flags)
      /\ pc = "map" /\ ret = "ready" => MapLoop(cur, vstart, pstart, len, pte_flags)
      /\ pc = "unmap" => InLoop(cur, vstart, len)
  BY LoopIs DEF IInv
<1>2. ASSUME pc' \notin {"map", "unmap"} PROVE LoopInv' BY <1>2, LoopIs
<1>3. CASE IdMap
  <2>1. /\ pc' = "map" /\ ret' = "idmap" /\ layout' = layout
        /\ gap \in Nat /\ gap' = gap + 1
        /\ vstart' \in Nat /\ len' \in Nat /\ pstart' = vstart'
        /\ vstart' + len' = layout[gap'].start
    BY <1>3, IdMapFacts
  <2>2. /\ gap # 0 => gap \in DOMAIN layout /\ vstart' = EndOf(layout[gap])
        /\ pte_flags' = IF gap' = 1 THEN BaseFlags ELSE "wb"
    BY <1>3, IdMapFacts
  <2>3. gap' = 1 \/ vstart' >= EndOf(layout[gap' - 1])
    <3>1. CASE gap = 0 BY <3>1, <2>1
    <3>2. CASE gap # 0
      <4>1. gap' - 1 = gap BY <2>1
      <4>2. vstart' = EndOf(layout[gap' - 1]) BY <4>1, <3>2, <2>2
      <4>3. vstart' >= vstart' BY <2>1
      <4> QED BY <4>2, <4>3
    <3> QED BY <3>1, <3>2
  <2>4. IdLoop(layout, gap', vstart', pstart', len', pte_flags') BY <2>1, <2>2, <2>3 DEF IdLoop
  <2> QED BY <2>1, <2>4, LoopIs
<1>4. ASSUME pc \in {"map", "unmap"}, len # 0, NEW k \in Nat, pc' = pc,
             vstart' = vstart + k, len' = len - k, pc = "map" => pstart' = pstart + k,
             UNCHANGED <<ret, layout, gap, pte_flags, cur>>
      PROVE  LoopInv'
  <2>1. vstart \in Nat /\ len \in Nat /\ pstart \in Nat BY <1>4, LoopFacts
  <2>2. HoleList(layout) /\ gap \in 0 .. Len(layout) /\ cur \in Mappings BY DEF IInv, TypeOK
  <2>3. ASSUME pc = "map", ret = "idmap"
        PROVE  IdLoop(layout, gap, vstart', pstart', len', pte_flags)
    <3>1. IdLoop(layout, gap, vstart, pstart, len, pte_flags) BY <1>1, <2>3
    <3>2. vstart' + len' = vstart + len BY <2>1, <1>4
    <3>3. pstart' = vstart' BY <3>1, <2>3, <1>4 DEF IdLoop
    <3>4. gap = 1 \/ vstart' >= EndOf(layout[gap - 1])
      <4>1. CASE gap # 1
        <5>1. /\ DOMAIN layout = 1 .. Len(layout) /\ Len(layout) \in Nat
              /\ \A n \in DOMAIN layout : EndOf(layout[n]) \in Nat
          BY <2>2, HoleFacts
        <5>2. gap > 0 BY <2>3 DEF IInv, PcInv
        <5>3. gap - 1 \in DOMAIN layout BY <5>1, <5>2, <4>1, <2>2
        <5>4. EndOf(layout[gap - 1]) \in Nat BY <5>1, <5>3
        <5>5. vstart >= EndOf(layout[gap - 1]) BY <3>1, <4>1 DEF IdLoop
        <5> QED BY <5>4, <5>5, <2>1, <1>4
      <4> QED BY <4>1
    <3> QED BY <3>1, <3>2, <3>3, <3>4 DEF IdLoop
  <2>4. ASSUME InLoop(cur, vstart, len), ret = "ready" PROVE InLoop(cur, vstart', len')
    <3> DEFINE b == BlockOf(cur)
    <3>1. vstart >= b.start /\ vstart + len = EndOf(b) BY <2>4 DEF InLoop
    <3>2. b.start \in Nat
      <4>1. Pending BY <2>4, <1>4 DEF Pending
      <4>2. GoodBlock(b) BY <4>1 DEF IInv, UseInv, GoodMapping
      <4> HIDE DEF b
      <4> QED BY <4>2, BlockNumbers
    <3> HIDE DEF b
    <3>3. vstart' >= b.start /\ vstart' + len' = EndOf(b) BY <3>1, <3>2, <2>1, <1>4
    <3> QED BY <3>3 DEF InLoop, b
  <2>5. ASSUME pc = "map", ret = "ready" PROVE MapLoop(cur, vstart', pstart', len', pte_flags)
    <3>1. MapLoop(cur, vstart, pstart, len, pte_flags) BY <2>5, <1>1
    <3>2. InLoop(cur, vstart', len') BY <3>1, <2>4, <2>5 DEF MapLoop
    <3> DEFINE x == FirstPage(cur.pa)
               y == FirstPage(cur.va)
    <3>3. x \in Nat /\ y \in Nat BY <2>2, PhysPage
    <3>4. pstart = x + (vstart - y) BY <3>1 DEF MapLoop
    <3> HIDE DEF x, y
    <3>5. pstart' = x + (vstart' - y) BY <3>3, <3>4, <2>1, <2>5, <1>4
    <3> QED BY <3>1, <3>2, <3>5 DEF MapLoop, x, y
  <2>6. ASSUME pc = "unmap" PROVE InLoop(cur, vstart', len')
    <3>1. ret = "ready" BY <2>6 DEF IInv, PcInv
    <3> QED BY <3>1, <2>4, <2>6, <1>1
  <2> QED BY <2>3, <2>5, <2>6, <1>4, LoopIs
<1>5. LP \in Nat BY VaAssumption
<1>6. CASE MapLarge
  <2>1. /\ pc = "map" /\ len # 0 /\ pc' = pc /\ vstart' = vstart + LP /\ len' = len - LP
        /\ pstart' = pstart + LP /\ UNCHANGED <<ret, layout, gap, pte_flags, cur>>
    BY <1>6 DEF MapLarge
  <2> QED BY <2>1, <1>4, <1>5
<1>7. CASE MapSmall
  <2>1. CASE pc' = "halted" BY <2>1, <1>2
  <2>2. CASE pc' # "halted"
    <3>1. /\ pc = "map" /\ len # 0 /\ pc' = pc /\ vstart' = vstart + 1 /\ len' = len - 1
          /\ pstart' = pstart + 1 /\ UNCHANGED <<ret, layout, gap, pte_flags, cur>>
      BY <2>2, <1>7, SmallCases
    <3> QED BY <3>1, <1>4
  <2> QED BY <2>1, <2>2
<1>8. CASE UnmapStep
  <2>1. /\ pc = "unmap" /\ len # 0 /\ pc' = pc /\ UNCHANGED <<ret, layout, gap, pte_flags, cur>>
    BY <1>8 DEF UnmapStep
  <2>2. CASE vstart' = vstart + LP /\ len' = len - LP BY <2>1, <2>2, <1>4, <1>5
  <2>3. CASE vstart' = vstart + 1 /\ len' = len - 1 BY <2>1, <2>3, <1>4
  <2> QED BY <2>2, <2>3, <1>8, UnmapCases
<1>9. CASE IdMapDone BY <1>2, <1>9 DEF IdMapDone
<1>10. CASE MapDone
  <2>1. ret \in {"idmap", "ready"} BY DEF IInv, TypeOK
  <2> QED BY <2>1, <1>2, <1>10 DEF MapDone
<1>11. CASE \E q \in Requests : MemVaMap(q)
  <2>1. PICK q \in Requests : MemVaMap(q) BY <1>11
  <2>2. pc' = "map" /\ ret' = "ready" BY <2>1 DEF MemVaMap
  <2> DEFINE m == cur'
             v == vstart'
             l == len'
  <2>3. /\ GoodMapping(m) /\ FirstPage(m.va) = v /\ BlockOf(m) = [start |-> v, len |-> l]
        /\ v \in Pages /\ l \in Nat \ {0}
    BY <2>1, MapTakes
  <2>8. pstart' = FirstPage(m.pa) /\ pte_flags' = m.flags BY <2>1, MapTakes
  <2>4. v \in Nat BY <2>3, VaAssumption DEF Pages
  <2> HIDE DEF m, v, l
  <2>5. v >= BlockOf(m).start /\ v + l = EndOf(BlockOf(m)) BY <2>3, <2>4 DEF EndOf
  <2>6. FirstPage(m.pa) \in Nat BY <2>3, PhysPage DEF GoodMapping
  <2>7. FirstPage(m.pa) = FirstPage(m.pa) + (v - v) BY <2>4, <2>6
  <2>9. MapLoop(m, v, pstart', l, pte_flags') BY <2>3, <2>5, <2>7, <2>8 DEF MapLoop, InLoop
  <2> QED BY <2>2, <2>9, LoopIs DEF m, v, l
<1>12. CASE \E q \in Requests : MemVaMapHalt(q) BY <1>2, <1>12 DEF MemVaMapHalt
<1>13. CASE \E n \in DOMAIN live : MemVaUnmap(n)
  <2>1. PICK n \in DOMAIN live : MemVaUnmap(n) BY <1>13
  <2>2. pc' = "unmap" /\ vstart' = UnmapStart(cur') /\ len' = UnmapLen(cur')
    BY <2>1 DEF MemVaUnmap
  <2>3. cur' = live[n] BY <2>1, UnmapKeeps
  <2> DEFINE m == cur'
  <2>4. GoodMapping(m)
    <3>1. UseInv BY DEF IInv
    <3> QED BY <3>1, <2>3 DEF UseInv
  <2> HIDE DEF m
  <2>5. /\ UnmapStart(m) = BlockOf(m).start /\ UnmapLen(m) = BlockOf(m).len
        /\ BlockOf(m).start \in Nat
    <3>1. GoodBlock(BlockOf(m)) BY <2>4 DEF GoodMapping
    <3> QED BY <3>1, <2>4, BlockNumbers DEF GoodMapping
  <2>6. vstart' = BlockOf(m).start /\ len' = BlockOf(m).len
    BY <2>2, <2>5 DEF m, UnmapStart, UnmapLen, UnmapEnd
  <2>7. InLoop(m, vstart', len') BY <2>5, <2>6 DEF InLoop, EndOf
  <2> QED BY <2>2, <2>7, LoopIs DEF m
<1>14. CASE GiveBack
  <2>1. pc' \in {"full", "ready"} BY <1>14, BackGives
  <2> QED BY <2>1, <1>2
<1>15. CASE Stopped \/ UNCHANGED vars
  <2>1. UNCHANGED <<pc, ret, layout, gap, vstart, pstart, len, pte_flags, cur>>
    BY <1>15, StoppedKeeps
  <2> QED BY <2>1, <1>1, LoopIs
<1> QED BY <1>3, <1>6, <1>7, <1>8, <1>9, <1>10, <1>11, <1>12, <1>13, <1>14, <1>15, StepCases

-----------------------------------------------------------------------------
(***************************************************************************)
(* Whose page a page is.                                                   *)
(***************************************************************************)
LEMMA UsedPages ==
    ASSUME IInv
    PROVE  /\ \A b \in Blocks : PagesOf(b) \subseteq Pages /\ PagesOf(b) \subseteq Holes
           /\ \A b \in Blocks : \A p \in PagesOf(b) : p \notin Unused
           /\ \A b, c \in Blocks : b # c => \A p \in PagesOf(b) : p \notin PagesOf(c)
           /\ Unused \subseteq Pages /\ Unused \subseteq Holes
<1> DEFINE R == unused_va_ranges
           B == Blocks
<1>1. ArrayInv(R, B) BY DEF IInv, SpaceInv
<1>2. Unused \cup CoverOf(B) = Holes BY DEF IInv, SpaceInv, CoverOf
<1>3. Unused = FreeOf(R) BY DEF Unused, FreeOf
<1>4. NPages \in Nat BY VaAssumption
<1> HIDE DEF R, B
<1>5. ASSUME NEW b \in B PROVE PagesOf(b) \subseteq Pages /\ PagesOf(b) \subseteq Holes
  <2>1. b \in VaRanges /\ EndOf(b) \in Nat /\ EndOf(b) =< NPages BY <1>1, ArrayFacts
  <2>2. ASSUME NEW p \in PagesOf(b) PROVE p \in Pages
    <3>1. p \in Nat /\ p < EndOf(b) BY <2>1, RangeNumbers
    <3> QED BY <3>1, <2>1, <1>4 DEF Pages
  <2>3. PagesOf(b) \subseteq CoverOf(B) BY DEF CoverOf
  <2> QED BY <2>2, <2>3, <1>2
<1>6. ASSUME NEW b \in B, NEW p \in PagesOf(b) PROVE p \notin Unused
  <2>1. ASSUME NEW n \in DOMAIN R PROVE p \notin PagesOf(R[n])
    <3>1. b \in VaRanges /\ R[n] \in VaRanges /\ Apart(b, R[n]) BY <1>1, ArrayFacts
    <3>2. PagesOf(b) \cap PagesOf(R[n]) = {} BY <3>1, ApartPages
    <3> QED BY <3>2
  <2> QED BY <2>1, <1>3 DEF FreeOf
<1>7. ASSUME NEW b \in B, NEW c \in B, b # c, NEW p \in PagesOf(b) PROVE p \notin PagesOf(c)
  <2>1. b \in VaRanges /\ c \in VaRanges /\ Apart(b, c) BY <1>1, <1>7, ArrayFacts
  <2>2. PagesOf(b) \cap PagesOf(c) = {} BY <2>1, ApartPages
  <2> QED BY <2>2
<1>8. ASSUME NEW p \in Unused PROVE p \in Pages /\ p \in Holes
  <2>1. PICK n \in DOMAIN R : p \in PagesOf(R[n]) BY <1>3 DEF FreeOf
  <2>2. R[n] \in VaRanges /\ EndOf(R[n]) \in Nat /\ EndOf(R[n]) =< NPages BY <1>1, ArrayFacts
  <2>3. p \in Nat /\ p < EndOf(R[n]) BY <2>1, <2>2, RangeNumbers
  <2> QED BY <2>2, <2>3, <1>2, <1>4 DEF Pages
<1> QED BY <1>5, <1>6, <1>7, <1>8 DEF B

\* The pages the loop of do_va_map() or do_va_unmap() has still to do are in
\* the block, or, in va_init(), in no hole.
LEMMA LoopPages ==
    ASSUME IInv, pc \in {"map", "unmap"}, len # 0, NEW p \in Pages,
           vstart =< p, p < vstart + len
    PROVE  /\ ret = "ready" => BlockOf(cur) \in Blocks /\ p \in PagesOf(BlockOf(cur))
           /\ ret = "idmap" => p \notin Holes /\ Blocks = {} /\ pc = "map"
<1>1. vstart \in Nat /\ len \in Nat BY LoopFacts
<1>2. p \in Nat BY PageIndex
<1>3. ASSUME ret = "ready" PROVE BlockOf(cur) \in Blocks /\ p \in PagesOf(BlockOf(cur))
  <2> DEFINE b == BlockOf(cur)
  <2>1. Pending BY <1>3 DEF Pending
  <2>2. b \in Blocks BY <2>1 DEF Blocks
  <2>3. GoodBlock(b) BY <2>1 DEF IInv, UseInv, GoodMapping
  <2>4. vstart >= b.start /\ vstart + len = EndOf(b) BY <1>3 DEF IInv, LoopInv
  <2> HIDE DEF b
  <2>5. /\ b.start \in Nat /\ EndOf(b) \in Nat
        /\ \A x : x \in PagesOf(b) <=> x \in Nat /\ b.start =< x /\ x < EndOf(b)
    BY <2>3, BlockNumbers
  <2>6. p \in PagesOf(b) BY <2>4, <2>5, <1>1, <1>2
  <2> QED BY <2>2, <2>6 DEF b
<1>4. ASSUME ret = "idmap" PROVE p \notin Holes /\ Blocks = {} /\ pc = "map"
  <2>1. pc = "map" /\ live = << >> /\ gap > 0 BY <1>4 DEF IInv, PcInv
  <2>2. Blocks = {} BY <2>1, <1>4 DEF Blocks, Pending
  <2>3. HoleList(layout) /\ gap \in 0 .. Len(layout) BY DEF IInv, TypeOK
  <2>4. /\ vstart + len = layout[gap].start
        /\ gap = 1 \/ vstart >= EndOf(layout[gap - 1])
    BY <2>1, <1>4 DEF IInv, LoopInv
  <2> DEFINE H == layout
             g == gap
  <2>5. /\ Len(H) \in Nat /\ DOMAIN H = 1 .. Len(H)
        /\ \A n \in DOMAIN H : /\ H[n] \in VaRanges /\ H[n].start \in Nat \ {0}
                               /\ EndOf(H[n]) \in Nat /\ EndOf(H[n]) = H[n].start + H[n].len
        /\ \A m, n \in DOMAIN H : m < n => EndOf(H[m]) < H[n].start
    <3> HIDE DEF H
    <3> QED BY <2>3, HoleFacts DEF H
  <2>6. g \in DOMAIN H /\ (g # 1 => g - 1 \in DOMAIN H) BY <2>1, <2>3, <2>5
  <2>7. vstart + len = H[g].start /\ (g = 1 \/ vstart >= EndOf(H[g - 1])) BY <2>4
  <2>9. Holes = FreeOf(H) BY DEF Holes, FreeOf
  <2> HIDE DEF H, g
  <2>8. ASSUME NEW n \in DOMAIN H PROVE p \notin PagesOf(H[n])
    <3>1. H[n] \in VaRanges /\ H[n].start \in Nat /\ EndOf(H[n]) \in Nat BY <2>5
    <3>2. p \in PagesOf(H[n]) <=> H[n].start =< p /\ p < EndOf(H[n])
      BY <3>1, <1>2, RangeNumbers
    <3>3. CASE n < g
      <4>1. g # 1 /\ g - 1 \in DOMAIN H BY <3>3, <2>5, <2>6
      <4>2. EndOf(H[g - 1]) \in Nat /\ H[g - 1].start \in Nat
            /\ EndOf(H[g - 1]) = H[g - 1].start + H[g - 1].len
        BY <4>1, <2>5
      <4>3. H[g - 1] \in VaRanges BY <4>1, <2>5
      <4>4. H[g - 1].len \in Nat BY <4>3, RangeNumbers
      <4>5. EndOf(H[n]) =< EndOf(H[g - 1])
        <5>1. CASE n = g - 1 BY <5>1, <3>1
        <5>2. CASE n # g - 1
          <6>1. n < g - 1 BY <5>2, <3>3, <2>5, <2>6
          <6>2. EndOf(H[n]) < H[g - 1].start BY <6>1, <4>1, <2>5
          <6> QED BY <6>2, <4>2, <4>4, <3>1
        <5> QED BY <5>1, <5>2
      <4> QED BY <4>1, <4>2, <4>5, <3>1, <3>2, <2>7, <1>1, <1>2
    <3>4. CASE n = g BY <3>4, <3>1, <3>2, <2>7, <1>1, <1>2
    <3>5. CASE g < n
      <4>1. EndOf(H[g]) < H[n].start /\ H[g].start \in Nat /\ EndOf(H[g]) \in Nat
            /\ EndOf(H[g]) = H[g].start + H[g].len /\ H[g] \in VaRanges
        BY <3>5, <2>5, <2>6
      <4>2. H[g].len \in Nat BY <4>1, RangeNumbers
      <4> QED BY <4>1, <4>2, <3>1, <3>2, <2>7, <1>1, <1>2
    <3> QED BY <3>3, <3>4, <3>5, <2>5, <2>6
  <2> QED BY <2>1, <2>2, <2>8, <2>9 DEF FreeOf
<1> QED BY <1>3, <1>4

\* LargeInv of a directory and the blocks.
Whole(n, b) ==
    (\E p \in PagesOf(b) : p \div LP = n) => \A p \in Pages : p \div LP = n => p \in PagesOf(b)
LargeOf(d, B) ==
    \A n \in DOMAIN d : d[n].kind = "large" =>
        SoundLarge(d[n]) /\ \A b \in B : Whole(n, b)

LEMMA LargeIs ==
    /\ LargeInv <=> LargeOf(pd, Blocks)
    /\ LargeInv' <=> LargeOf(pd', Blocks')
BY DEF LargeInv, LargeOf, Whole, SoundLarge

LEMMA LargeStep ==
    ASSUME IInv, [Next]_vars PROVE LargeInv'
<1>1. LargeOf(pd, Blocks) BY LargeIs DEF IInv
<1>2. pd \in Directories BY DEF IInv, TypeOK, Directories
<1>3. ASSUME pd' = pd, Blocks' \subseteq Blocks PROVE LargeInv'
  <2>1. LargeOf(pd', Blocks') BY <1>1, <1>3 DEF LargeOf
  <2> QED BY <2>1, LargeIs
\* An entry that is not a large page was written.
<1>4. ASSUME Blocks' = Blocks, NEW n \in DOMAIN pd, DOMAIN pd' = DOMAIN pd,
             \A k \in DOMAIN pd : k # n => pd'[k] = pd[k],
             pd'[n].kind # "large"
      PROVE  LargeInv'
  <2>1. LargeOf(pd', Blocks') BY <1>1, <1>4 DEF LargeOf
  <2> QED BY <2>1, LargeIs
<1>5. CASE IdMap \/ IdMapDone
  <2>1. ArrayKept /\ pd' = pd BY <1>5, IdMapKeeps DEF IdMap, IdMapDone
  <2> QED BY <2>1, <1>3 DEF ArrayKept
<1>6. CASE MapLarge
  <2> DEFINE n == vstart \div LP
             x == Large(pstart, pte_flags)
             d == pd
             e == pd'
             B == Blocks
  <2>1. /\ pc = "map" /\ vstart % LP = 0 /\ pstart % LP = 0 /\ len >= LP
        /\ Put(d, n, x, e) /\ x.kind = "large" /\ x.pte = Pte(pstart, pte_flags)
    BY <1>6, LargeCases
  <2>2. ArrayKept BY <1>6, LoopKeeps
  <2>3. len # 0 BY <1>6 DEF MapLarge
  <2>4. /\ vstart \in Pages /\ vstart \in Nat /\ len \in Nat /\ LP \in Nat \ {0}
        /\ pstart \in Nat /\ pte_flags \in Flags /\ n \in DOMAIN d
    BY <2>1, <2>3, LoopFacts
  <2>5. SoundLarge(x)
    <3>1. Pte(pstart, pte_flags).page = pstart /\ Pte(pstart, pte_flags).flags = pte_flags
      BY DEF Pte
    <3> QED BY <3>1, <2>1, <2>4 DEF SoundLarge
  <2>6. ASSUME NEW p \in Pages, p \div LP = n
        PROVE  /\ ret = "ready" => BlockOf(cur) \in Blocks /\ p \in PagesOf(BlockOf(cur))
               /\ ret = "idmap" => Blocks = {}
    <3>1. vstart =< p /\ p < vstart + LP BY <2>1, <2>4, <2>6, LargePages
    <3>2. p \in Nat BY PageIndex
    <3>3. p < vstart + len BY <3>1, <3>2, <2>1, <2>4
    <3> QED BY <3>1, <3>3, <2>1, <2>3, LoopPages
  <2>7. ret \in {"idmap", "ready"} BY DEF IInv, TypeOK
  <2>8. ASSUME NEW b \in Blocks PROVE Whole(n, b)
    <3>1. SUFFICES ASSUME NEW p \in PagesOf(b), p \div LP = n, NEW r \in Pages, r \div LP = n
                   PROVE  r \in PagesOf(b)
      BY DEF Whole
    <3>2. p \in Pages BY UsedPages
    <3>3. ret = "ready" BY <3>1, <3>2, <2>6, <2>7
    <3>4. BlockOf(cur) \in Blocks /\ p \in PagesOf(BlockOf(cur)) BY <3>1, <3>2, <3>3, <2>6
    <3>5. b = BlockOf(cur) BY <3>4, UsedPages
    <3>6. r \in PagesOf(BlockOf(cur)) BY <3>1, <3>3, <2>6
    <3> QED BY <3>5, <3>6
  <2>9. /\ DOMAIN e = DOMAIN d /\ e[n] = x /\ \A k \in DOMAIN d : k # n => e[k] = d[k]
    <3> HIDE DEF x, n, d, e
    <3> QED BY <2>1, <2>4, <1>2 DEF Put, Directories, d
  <2>10. LargeOf(d, B) BY <1>1
  <2>11. \A b \in B : Whole(n, b) BY <2>8
  <2> HIDE DEF x, n, d, e, B
  <2>12. LargeOf(e, B) BY <2>5, <2>9, <2>10, <2>11 DEF LargeOf
  <2>13. LargeOf(pd', Blocks') BY <2>12, <2>2 DEF e, B, ArrayKept
  <2> QED BY <2>13, LargeIs
<1>7. CASE MapSmall
  <2>1. ArrayKept BY <1>7, LoopKeeps
  <2>2. CASE pc' = "halted" /\ pd' = pd BY <2>1, <2>2, <1>3 DEF ArrayKept
  <2>3. CASE pc' # "halted"
    <3>1. /\ pc = "map" /\ len # 0 /\ pd' \in Directories
          /\ pd'[vstart \div LP].kind = "table"
          /\ \A n \in DOMAIN pd : n # vstart \div LP => pd'[n] = pd[n]
      BY <2>3, <1>7, SmallCases
    <3>2. vstart \div LP \in DOMAIN pd BY <3>1, LoopFacts
    <3>3. DOMAIN pd' = DOMAIN pd BY <3>1, <1>2 DEF Directories
    <3>4. pd'[vstart \div LP].kind # "large" BY <3>1
    <3> QED BY <3>1, <3>2, <3>3, <3>4, <2>1, <1>4 DEF ArrayKept
  <2> QED BY <2>2, <2>3, <1>7, SmallCases
<1>8. CASE UnmapStep
  <2>1. ArrayKept BY <1>8, LoopKeeps
  <2>2. pc = "unmap" /\ len # 0 BY <1>8 DEF UnmapStep
  <2> DEFINE n == vstart \div LP
             d == pd
             e == pd'
  <2>3. n \in DOMAIN d /\ vstart \in Pages /\ d \in Directories BY <2>2, LoopFacts
  <2>4. CASE Put(d, n, Blank, e)
    <3>1. Blank.kind # "large" BY DEF Blank, Pde
    <3>2. DOMAIN e = DOMAIN d /\ e[n] = Blank /\ \A k \in DOMAIN d : k # n => e[k] = d[k]
      <4> HIDE DEF d, e, n
      <4> QED BY <2>3, <2>4 DEF Put, Directories
    <3> QED BY <3>1, <3>2, <2>1, <2>3, <1>4 DEF ArrayKept
  <2>5. CASE d[n].kind = "table" /\ Cleared(d, vstart, e)
    <3>1. d[vstart \div LP].kind = "table" /\ Cleared(d, vstart, e) /\ d \in Directories
      BY <2>3, <2>5
    <3> HIDE DEF d, e
    <3>2. /\ e \in Directories /\ e[vstart \div LP].kind = "table"
          /\ \A k \in DOMAIN d : k # vstart \div LP => e[k] = d[k]
      BY <3>1, <2>3, UnmapSmallShows
    <3>3. DOMAIN e = DOMAIN d /\ e[vstart \div LP].kind # "large"
      BY <3>1, <3>2 DEF Directories
    <3> QED BY <3>2, <3>3, <2>1, <2>3, <1>4 DEF ArrayKept, d, e
  <2> QED BY <2>4, <2>5, <1>8, UnmapCases
<1>9. CASE MapDone
  <2>1. ArrayKept BY <1>9, MapDoneKeeps
  <2>2. pd' = pd BY <1>9 DEF MapDone
  <2> QED BY <2>1, <2>2, <1>3 DEF ArrayKept
<1>10. CASE \E q \in Requests : MemVaMap(q)
  <2>1. PICK q \in Requests : MemVaMap(q) BY <1>10
  <2>2. pc = "ready" /\ pd' = pd BY <2>1 DEF MemVaMap
  <2> DEFINE b == BlockOf(cur')
             B == Blocks
             C == Blocks'
             d == pd
  <2>3. C = B \cup {b} /\ PagesOf(b) \subseteq Unused BY <2>1, MapTakes
  <2>4. ASSUME NEW n \in DOMAIN pd, pd[n].kind = "large", NEW p \in PagesOf(b)
        PROVE  p \div LP # n
    <3>1. p \in Unused BY <2>3
    <3>2. Translate(p) = Unmapped BY <3>1, <2>2 DEF IInv, ShowInv
    <3>3. TransOf(pd, p) = Unmapped BY <3>2, TranslateIs
    <3>4. SUFFICES ASSUME p \div LP = n PROVE FALSE OBVIOUS
    <3>5. TransOf(pd, p) = Pte(pd[n].pte.page - (pd[n].pte.page % LP) + (p % LP), pd[n].pte.flags)
      BY <3>4, <2>4, TransCases
    <3>6. pd[n].pte.flags \in Flags BY <2>4, <1>1 DEF LargeOf, SoundLarge
    <3> QED BY <3>3, <3>5, <3>6, MappedShows
  <2>5. \A n \in DOMAIN d : d[n].kind = "large" => Whole(n, b) BY <2>4 DEF Whole
  <2>6. LargeOf(d, B) BY <1>1
  <2> HIDE DEF b, B, C, d
  <2>7. LargeOf(d, C) BY <2>3, <2>5, <2>6 DEF LargeOf
  <2>8. LargeOf(pd', Blocks') BY <2>2, <2>7 DEF d, C
  <2> QED BY <2>8, LargeIs
<1>11. CASE \E q \in Requests : MemVaMapHalt(q)
  <2>1. ArrayKept BY <1>11, HaltKeeps
  <2>2. pd' = pd BY <1>11 DEF MemVaMapHalt
  <2> QED BY <2>1, <2>2, <1>3 DEF ArrayKept
<1>12. CASE \E n \in DOMAIN live : MemVaUnmap(n)
  <2>1. ArrayKept BY <1>12, UnmapKeeps
  <2>2. pd' = pd BY <1>12 DEF MemVaUnmap
  <2> QED BY <2>1, <2>2, <1>3 DEF ArrayKept
<1>13. CASE GiveBack
  <2>1. pd' = pd BY <1>13 DEF GiveBack
  <2>2. Blocks' \subseteq Blocks
    <3>1. CASE ArrayKept BY <3>1 DEF ArrayKept
    <3>2. CASE ~ArrayKept
      <4>1. Blocks' = Blocks \ {BlockOf(cur)} BY <3>2, <1>13, BackGives
      <4> QED BY <4>1
    <3> QED BY <3>1, <3>2
  <2> QED BY <2>1, <2>2, <1>3
<1>14. CASE Stopped \/ UNCHANGED vars
  <2>1. ArrayKept /\ pd' = pd BY <1>14, StoppedKeeps
  <2> QED BY <2>1, <1>3 DEF ArrayKept
<1> QED BY <1>5, <1>6, <1>7, <1>8, <1>9, <1>10, <1>11, <1>12, <1>13, <1>14, StepCases

-----------------------------------------------------------------------------
(***************************************************************************)
(* What pages show.  ShowInv, a part at a time, of a directory d.          *)
(***************************************************************************)
ShowsIn(d, m, p) == TransOf(d, p) = Pte(FirstPage(m.pa) + (p - FirstPage(m.va)), m.flags)

LiveShown(d, s) == \A i \in DOMAIN s : \A p \in PagesOf(BlockOf(s[i])) : ShowsIn(d, s[i], p)
FreeShown(d, F) == \A p \in F : TransOf(d, p) = Unmapped
IdShown(d, h, x) ==
    \A p \in Pages : p \notin FreeOf(h) /\ p < x =>
        TransOf(d, p) = Pte(p, IF p < h[1].start THEN BaseFlags ELSE "wb")
MapShown(d, m, v) == \A p \in PagesOf(BlockOf(m)) : p < v => ShowsIn(d, m, p)
UnmapShown(d, m, v) ==
    \A p \in PagesOf(BlockOf(m)) :
        IF p < v THEN TransOf(d, p) = Unmapped ELSE ShowsIn(d, m, p)

LEMMA ShowIs ==
    /\ ShowInv /\ pc \in {"idmap", "map", "ready", "unmap"} =>
        /\ LiveShown(pd, live) /\ FreeShown(pd, Unused) /\ IdShown(pd, layout, IdBound)
        /\ pc = "map" /\ ret = "ready" => MapShown(pd, cur, vstart)
        /\ pc = "unmap" => UnmapShown(pd, cur, vstart)
    /\ (pc' \in {"idmap", "map", "ready", "unmap"} =>
            /\ LiveShown(pd', live') /\ FreeShown(pd', Unused') /\ IdShown(pd', layout', IdBound')
            /\ pc' = "map" /\ ret' = "ready" => MapShown(pd', cur', vstart')
            /\ pc' = "unmap" => UnmapShown(pd', cur', vstart'))
        => ShowInv'
<1>1. Holes = FreeOf(layout) /\ Holes' = FreeOf(layout') BY DEF Holes, FreeOf
<1>2. ShowInv /\ pc \in {"idmap", "map", "ready", "unmap"} =>
        /\ LiveShown(pd, live) /\ FreeShown(pd, Unused) /\ IdShown(pd, layout, IdBound)
        /\ pc = "map" /\ ret = "ready" => MapShown(pd, cur, vstart)
        /\ pc = "unmap" => UnmapShown(pd, cur, vstart)
  BY <1>1, TranslateIs
     DEF ShowInv, LiveShown, FreeShown, IdShown, MapShown, UnmapShown, ShowsIn, Shows, Identity
<1>3. ASSUME pc' \in {"idmap", "map", "ready", "unmap"} =>
            /\ LiveShown(pd', live') /\ FreeShown(pd', Unused') /\ IdShown(pd', layout', IdBound')
            /\ pc' = "map" /\ ret' = "ready" => MapShown(pd', cur', vstart')
            /\ pc' = "unmap" => UnmapShown(pd', cur', vstart')
      PROVE  ShowInv'
  <2>1. SUFFICES ASSUME pc' \in {"idmap", "map", "ready", "unmap"}
        PROVE  /\ \A i \in DOMAIN live' : \A p \in PagesOf(BlockOf(live'[i])) : ShowsIn(pd', live'[i], p)
               /\ \A p \in Unused' : TransOf(pd', p) = Unmapped
               /\ \A p \in Pages : p \notin Holes' /\ p < IdBound' => TransOf(pd', p) = Identity(p)'
               /\ pc' = "map" /\ ret' = "ready" =>
                    \A p \in PagesOf(BlockOf(cur')) : p < vstart' => ShowsIn(pd', cur', p)
               /\ pc' = "unmap" => \A p \in PagesOf(BlockOf(cur')) :
                    IF p < vstart' THEN TransOf(pd', p) = Unmapped ELSE ShowsIn(pd', cur', p)
    BY TranslateIs DEF ShowInv, ShowsIn, Shows, BlockOf, PagesOf, EndOf, PagesFor, PageAfter, FirstPage
  <2> QED BY <2>1, <1>1, <1>3
     DEF LiveShown, FreeShown, IdShown, MapShown, UnmapShown, Identity
<1> QED BY <1>2, <1>3

\* Pages from v up to v + k are written, and no others.
Only(d, e, v, k) ==
    \A p \in Pages : ~(v =< p /\ p < v + k) => TransOf(e, p) = TransOf(d, p)

\* What an iteration of the loops writes is nobody else's page.
LEMMA OthersShown ==
    ASSUME IInv, pc \in {"map", "unmap"}, len # 0, NEW k \in Nat, k =< len,
           NEW e, Only(pd, e, vstart, k)
    PROVE  /\ LiveShown(e, live) /\ FreeShown(e, Unused)
           /\ ret = "ready" => IdShown(e, layout, IdBound)
<1>1. /\ LiveShown(pd, live) /\ FreeShown(pd, Unused) /\ IdShown(pd, layout, IdBound)
  BY ShowIs DEF IInv
<1>2. vstart \in Nat /\ len \in Nat BY LoopFacts
<1>3. ret \in {"idmap", "ready"} BY DEF IInv, TypeOK
<1>4. ASSUME NEW p \in Pages, vstart =< p, p < vstart + k
      PROVE  /\ ret = "ready" => BlockOf(cur) \in Blocks /\ p \in PagesOf(BlockOf(cur))
             /\ ret = "idmap" => p \notin Holes /\ Blocks = {}
  <2>1. p \in Nat BY PageIndex
  <2>2. p < vstart + len BY <2>1, <1>2, <1>4
  <2> QED BY <2>2, <1>4, LoopPages
<1>5. ASSUME NEW i \in DOMAIN live, NEW p \in PagesOf(BlockOf(live[i]))
      PROVE  ShowsIn(e, live[i], p)
  <2> DEFINE c == BlockOf(live[i])
  <2>1. c \in Blocks BY DEF Blocks
  <2>2. p \in Pages BY <2>1, UsedPages
  <2>3. ~(vstart =< p /\ p < vstart + k)
    <3>1. SUFFICES ASSUME vstart =< p, p < vstart + k PROVE FALSE OBVIOUS
    <3>2. ret = "ready" BY <3>1, <2>1, <2>2, <1>3, <1>4
    <3>3. BlockOf(cur) \in Blocks /\ p \in PagesOf(BlockOf(cur)) BY <3>1, <3>2, <2>2, <1>4
    <3>4. Pending BY <3>2 DEF Pending
    <3>5. c # BlockOf(cur) BY <3>4 DEF IInv, UseInv
    <3> HIDE DEF c
    <3> QED BY <3>3, <3>5, <2>1, <1>5, UsedPages DEF c
  <2>4. TransOf(e, p) = TransOf(pd, p) BY <2>2, <2>3 DEF Only
  <2>5. ShowsIn(pd, live[i], p) BY <1>1 DEF LiveShown
  <2> QED BY <2>4, <2>5 DEF ShowsIn
<1>6. ASSUME NEW p \in Unused PROVE TransOf(e, p) = Unmapped
  <2>1. p \in Pages /\ p \in Holes BY UsedPages
  <2>2. ~(vstart =< p /\ p < vstart + k)
    <3>1. SUFFICES ASSUME vstart =< p, p < vstart + k PROVE FALSE OBVIOUS
    <3>2. ret = "ready" BY <3>1, <2>1, <1>3, <1>4
    <3>3. BlockOf(cur) \in Blocks /\ p \in PagesOf(BlockOf(cur)) BY <3>1, <3>2, <2>1, <1>4
    <3> QED BY <3>3, UsedPages
  <2>3. TransOf(e, p) = TransOf(pd, p) BY <2>1, <2>2 DEF Only
  <2> QED BY <2>3, <1>1 DEF FreeShown
<1>7. ASSUME ret = "ready" PROVE IdShown(e, layout, IdBound)
  <2>1. SUFFICES ASSUME NEW p \in Pages, p \notin FreeOf(layout), p < IdBound
                 PROVE  TransOf(e, p) = Pte(p, IF p < layout[1].start THEN BaseFlags ELSE "wb")
    BY DEF IdShown
  <2>2. p \notin Holes BY <2>1 DEF Holes, FreeOf
  <2>3. ~(vstart =< p /\ p < vstart + k)
    <3>1. SUFFICES ASSUME vstart =< p, p < vstart + k PROVE FALSE OBVIOUS
    <3>3. BlockOf(cur) \in Blocks /\ p \in PagesOf(BlockOf(cur)) BY <3>1, <1>4, <1>7
    <3> QED BY <3>3, <2>2, UsedPages
  <2>4. TransOf(e, p) = TransOf(pd, p) BY <2>3 DEF Only
  <2>5. TransOf(pd, p) = Pte(p, IF p < layout[1].start THEN BaseFlags ELSE "wb")
    BY <2>1, <1>1 DEF IdShown
  <2> QED BY <2>4, <2>5
<1> QED BY <1>5, <1>6, <1>7 DEF LiveShown, FreeShown

\* An iteration of do_va_map() shows k more pages.
LEMMA MapWrites ==
    ASSUME IInv, pc = "map", pc' = "map", len # 0, NEW k \in Nat, k =< len,
           ArrayKept, UNCHANGED <<ret, gap, cur, live>>, vstart' = vstart + k,
           \A p \in Pages : TransOf(pd', p) =
                IF vstart =< p /\ p < vstart + k
                THEN Pte(pstart + (p - vstart), pte_flags) ELSE TransOf(pd, p)
    PROVE  ShowInv'
<1>1. /\ LiveShown(pd, live) /\ FreeShown(pd, Unused) /\ IdShown(pd, layout, IdBound)
      /\ ret = "ready" => MapShown(pd, cur, vstart)
  BY ShowIs DEF IInv
<1>2. /\ vstart \in Nat /\ len \in Nat /\ pstart \in Nat /\ pte_flags \in Flags BY LoopFacts
<1>3. ret \in {"idmap", "ready"} /\ HoleList(layout) /\ gap \in 0 .. Len(layout) /\ cur \in Mappings
  BY DEF IInv, TypeOK
<1>4. Only(pd, pd', vstart, k) BY DEF Only
<1>5. /\ LiveShown(pd', live) /\ FreeShown(pd', Unused)
      /\ ret = "ready" => IdShown(pd', layout, IdBound)
  BY <1>4, OthersShown
<1>6. Unused' = Unused BY DEF ArrayKept, Unused
<1>7. layout' = layout BY DEF ArrayKept
<1>8. CASE ret = "idmap"
  <2>1. IdBound = vstart /\ IdBound' = vstart + k BY <1>8 DEF IdBound
  <2>2. IdLoop(layout, gap, vstart, pstart, len, pte_flags) BY <1>8, LoopIs DEF IInv
  <2>3. gap > 0 BY <1>8 DEF IInv, PcInv
  <2>4. IdShown(pd', layout, vstart + k)
    <3>1. SUFFICES ASSUME NEW p \in Pages, p \notin FreeOf(layout), p < vstart + k
                   PROVE  TransOf(pd', p) = Pte(p, IF p < layout[1].start THEN BaseFlags ELSE "wb")
      BY DEF IdShown
    <3>2. p \in Nat BY PageIndex
    <3>3. CASE p < vstart
      <4>1. ~(vstart =< p) BY <3>2, <3>3, <1>2
      <4>2. TransOf(pd', p) = TransOf(pd, p) BY <4>1
      <4>3. TransOf(pd, p) = Pte(p, IF p < layout[1].start THEN BaseFlags ELSE "wb")
        BY <3>1, <3>3, <2>1, <1>1 DEF IdShown
      <4> QED BY <4>2, <4>3
    <3>4. CASE vstart =< p
      <4>1. TransOf(pd', p) = Pte(pstart + (p - vstart), pte_flags) BY <3>1, <3>4
      <4>2. pstart + (p - vstart) = p BY <3>2, <2>2, <1>2 DEF IdLoop
      <4>3. pte_flags = IF p < layout[1].start THEN BaseFlags ELSE "wb"
        <5> DEFINE H == layout
        <5>1. /\ Len(H) \in Nat /\ DOMAIN H = 1 .. Len(H)
              /\ \A n \in DOMAIN H : H[n].start \in Nat \ {0} /\ H[n].len \in Nat \ {0}
                      /\ EndOf(H[n]) \in Nat /\ EndOf(H[n]) = H[n].start + H[n].len
              /\ \A m, n \in DOMAIN H : m < n => EndOf(H[m]) < H[n].start
          BY <1>3, HoleFacts
        <5>2. CASE gap = 1
          <6>1. vstart + len = H[1].start /\ pte_flags = BaseFlags BY <5>2, <2>2 DEF IdLoop
          <6>2. 1 \in DOMAIN H BY <5>1, <5>2, <1>3
          <6>3. H[1].start \in Nat BY <5>1, <6>2
          <6>4. p < H[1].start BY <6>1, <6>3, <3>1, <3>2, <1>2
          <6> QED BY <6>1, <6>4
        <5>3. CASE gap # 1
          <6> DEFINE g == gap - 1
          <6>1. vstart >= EndOf(H[g]) /\ pte_flags = "wb" BY <5>3, <2>2 DEF IdLoop
          <6>2. g \in DOMAIN H /\ 1 \in DOMAIN H BY <5>1, <5>3, <2>3, <1>3
          <6> HIDE DEF g
          <6>8. DOMAIN H = 1 .. Len(H) /\ Len(H) \in Nat BY <5>1
          <6> HIDE DEF H
          <6>3. 1 = g \/ 1 < g BY <6>2, <6>8
          <6>4. /\ H[1].start \in Nat /\ H[1].len \in Nat /\ EndOf(H[1]) \in Nat
                /\ EndOf(H[1]) = H[1].start + H[1].len
            BY <6>2, <5>1
          <6>5. /\ H[g].start \in Nat /\ H[g].len \in Nat /\ EndOf(H[g]) \in Nat
                /\ EndOf(H[g]) = H[g].start + H[g].len
            BY <6>2, <5>1
          <6>6. EndOf(H[1]) =< EndOf(H[g])
            <7>1. CASE g = 1 BY <7>1, <6>4
            <7>2. CASE 1 < g
              <8>1. EndOf(H[1]) < H[g].start BY <7>2, <6>2, <5>1
              <8> QED BY <8>1, <6>4, <6>5
            <7> QED BY <7>1, <7>2, <6>3
          <6>7. ~(p < H[1].start) BY <6>1, <6>4, <6>5, <6>6, <3>2, <3>4, <1>2
          <6> QED BY <6>1, <6>7 DEF H
        <5> QED BY <5>2, <5>3
      <4> QED BY <4>1, <4>2, <4>3
    <3> QED BY <3>2, <3>3, <3>4, <1>2
  <2>5. ret' = "idmap" BY <1>8
  <2> QED BY <2>1, <2>4, <2>5, <1>5, <1>6, <1>7, ShowIs
<1>9. CASE ret = "ready"
  <2>1. IdBound' = IdBound BY <1>7, <1>9 DEF IdBound
  <2>2. MapLoop(cur, vstart, pstart, len, pte_flags) BY <1>9, LoopIs DEF IInv
  <2>3. MapShown(pd', cur, vstart + k)
    <3>1. SUFFICES ASSUME NEW p \in PagesOf(BlockOf(cur)), p < vstart + k
                   PROVE  ShowsIn(pd', cur, p)
      BY DEF MapShown
    <3>2. Pending BY <1>9 DEF Pending
    <3>3. BlockOf(cur) \in Blocks BY <3>2 DEF Blocks
    <3>7. p \in Pages BY <3>3, UsedPages
    <3>4. p \in Pages /\ p \in Nat BY <3>7, PageIndex
    <3>5. CASE p < vstart
      <4>1. ~(vstart =< p) BY <3>4, <3>5, <1>2
      <4>2. TransOf(pd', p) = TransOf(pd, p) BY <4>1, <3>4
      <4>3. ShowsIn(pd, cur, p) BY <3>5, <1>1, <1>9 DEF MapShown
      <4> QED BY <4>2, <4>3 DEF ShowsIn
    <3>6. CASE vstart =< p
      <4> DEFINE x == FirstPage(cur.pa)
                 y == FirstPage(cur.va)
      <4>1. TransOf(pd', p) = Pte(pstart + (p - vstart), pte_flags) BY <3>1, <3>4, <3>6
      <4>2. pstart = x + (vstart - y) /\ pte_flags = cur.flags BY <2>2 DEF MapLoop
      <4>3. x \in Nat /\ y \in Nat BY <1>3, PhysPage
      <4> HIDE DEF x, y
      <4>4. pstart + (p - vstart) = x + (p - y) BY <4>2, <4>3, <3>4, <1>2
      <4> QED BY <4>1, <4>2, <4>4 DEF ShowsIn, x, y
    <3> QED BY <3>4, <3>5, <3>6, <1>2
  <2>4. MapShown(pd', cur', vstart') BY <2>3
  <2>5. IdShown(pd', layout', IdBound') BY <2>1, <1>5, <1>7, <1>9
  <2> QED BY <2>4, <2>5, <1>5, <1>6, ShowIs
<1> QED BY <1>3, <1>8, <1>9

\* An iteration of do_va_unmap() hides k more pages.
LEMMA UnmapWrites ==
    ASSUME IInv, pc = "unmap", pc' = "unmap", len # 0, NEW k \in Nat, k =< len,
           ArrayKept, UNCHANGED <<ret, gap, cur, live>>, vstart' = vstart + k,
           \A p \in Pages : TransOf(pd', p) =
                IF vstart =< p /\ p < vstart + k THEN Unmapped ELSE TransOf(pd, p)
    PROVE  ShowInv'
<1>1. UnmapShown(pd, cur, vstart) BY ShowIs DEF IInv
<1>2. vstart \in Nat /\ len \in Nat BY LoopFacts
<1>3. ret = "ready" BY DEF IInv, PcInv
<1>4. Only(pd, pd', vstart, k) BY DEF Only
<1>5. LiveShown(pd', live) /\ FreeShown(pd', Unused) /\ IdShown(pd', layout, IdBound)
  BY <1>3, <1>4, OthersShown
<1>6. Unused' = Unused BY DEF ArrayKept, Unused
<1>7. layout' = layout BY DEF ArrayKept
<1>8. IdBound' = IdBound BY <1>3, <1>7 DEF IdBound
<1>9. UnmapShown(pd', cur, vstart + k)
  <2>1. SUFFICES ASSUME NEW p \in PagesOf(BlockOf(cur))
                 PROVE  IF p < vstart + k THEN TransOf(pd', p) = Unmapped ELSE ShowsIn(pd', cur, p)
    BY DEF UnmapShown
  <2>2. Pending BY <1>3 DEF Pending
  <2>3. BlockOf(cur) \in Blocks BY <2>2 DEF Blocks
  <2>11. p \in Pages BY <2>3, UsedPages
  <2>4. p \in Pages /\ p \in Nat BY <2>11, PageIndex
  <2>5. IF p < vstart THEN TransOf(pd, p) = Unmapped ELSE ShowsIn(pd, cur, p)
    BY <1>1 DEF UnmapShown
  <2>6. TransOf(pd', p) = IF vstart =< p /\ p < vstart + k THEN Unmapped ELSE TransOf(pd, p)
    BY <2>4
  <2>7. CASE p < vstart
    <3>1. ~(vstart =< p) /\ p < vstart + k BY <2>4, <2>7, <1>2
    <3> QED BY <3>1, <2>5, <2>6, <2>7
  <2>8. CASE ~(p < vstart) /\ p < vstart + k
    <3>1. vstart =< p BY <2>4, <2>8, <1>2
    <3> QED BY <3>1, <2>6, <2>8
  <2>9. CASE ~(p < vstart) /\ ~(p < vstart + k)
    BY <2>5, <2>6, <2>9 DEF ShowsIn
  <2>10. p < vstart => p < vstart + k BY <2>4, <1>2
  <2> QED BY <2>7, <2>8, <2>9, <2>10
<1>10. UnmapShown(pd', cur', vstart') BY <1>9
<1> QED BY <1>5, <1>6, <1>7, <1>8, <1>10, ShowIs

LEMMA ShowStep ==
    ASSUME IInv, [Next]_vars PROVE ShowInv'
<1>1. pc \in {"idmap", "map", "ready", "unmap"} =>
        /\ LiveShown(pd, live) /\ FreeShown(pd, Unused) /\ IdShown(pd, layout, IdBound)
        /\ pc = "map" /\ ret = "ready" => MapShown(pd, cur, vstart)
        /\ pc = "unmap" => UnmapShown(pd, cur, vstart)
  BY ShowIs DEF IInv
<1>2. ASSUME pc' \notin {"idmap", "map", "ready", "unmap"} PROVE ShowInv' BY <1>2, ShowIs
<1>3. ASSUME ArrayKept PROVE Unused' = Unused /\ layout' = layout BY <1>3 DEF ArrayKept, Unused
<1>4. HoleList(layout) /\ gap \in 0 .. Len(layout) /\ ret \in {"idmap", "ready"}
  BY DEF IInv, TypeOK
<1>5. CASE IdMap
  <2>1. /\ pc = "idmap" /\ pc' = "map" /\ ret' = "idmap" /\ layout' = layout /\ pd' = pd
        /\ live' = live /\ gap \in Nat /\ vstart' \in Nat
        /\ gap = 0 => vstart' = 0
        /\ gap # 0 => gap \in DOMAIN layout /\ vstart' = EndOf(layout[gap])
    BY <1>5, IdMapFacts
  <2>2. Unused' = Unused BY <1>3, <1>5, IdMapKeeps
  <2>3. IdBound' = vstart' /\ IdBound = (IF gap = 0 THEN 0 ELSE layout[gap].start)
    BY <2>1 DEF IdBound
  <2>4. IdShown(pd, layout, vstart')
    <3>1. SUFFICES ASSUME NEW p \in Pages, p \notin FreeOf(layout), p < vstart'
                   PROVE  TransOf(pd, p) = Pte(p, IF p < layout[1].start THEN BaseFlags ELSE "wb")
      BY DEF IdShown
    <3>2. p \in Nat BY PageIndex
    <3>3. gap # 0 BY <3>1, <3>2, <2>1
    <3> DEFINE h == layout[gap]
    <3>4. h \in VaRanges /\ h.start \in Nat /\ EndOf(h) \in Nat BY <3>3, <2>1, <1>4, HoleFacts
    <3>5. p \notin PagesOf(h) BY <3>1, <3>3, <2>1 DEF FreeOf
    <3>6. p < EndOf(h) BY <3>1, <3>3, <2>1
    <3>7. IdBound = h.start BY <3>3, <2>3
    <3> HIDE DEF h
    <3>8. p < h.start BY <3>2, <3>4, <3>5, <3>6, RangeNumbers
    <3>9. p < IdBound BY <3>7, <3>8
    <3> QED BY <3>1, <3>9, <2>1, <1>1 DEF IdShown
  <2>5. LiveShown(pd, live) /\ FreeShown(pd, Unused) BY <2>1, <1>1
  <2> QED BY <2>1, <2>2, <2>3, <2>4, <2>5, ShowIs
<1>6. CASE IdMapDone
  <2>1. pc = "idmap" /\ pc' = "ready" /\ UNCHANGED <<gap, pd, live>> BY <1>6 DEF IdMapDone
  <2>2. Unused' = Unused /\ layout' = layout BY <1>3, <1>6, IdMapKeeps
  <2>3. IdBound' = IdBound BY <2>1, <2>2 DEF IdBound
  <2>4. LiveShown(pd, live) /\ FreeShown(pd, Unused) /\ IdShown(pd, layout, IdBound)
    BY <2>1, <1>1
  <2> QED BY <2>1, <2>2, <2>3, <2>4, ShowIs
<1>7. CASE MapLarge
  <2> DEFINE d == pd
             e == pd'
  <2>1. /\ pc = "map" /\ pc' = "map" /\ vstart % LP = 0 /\ pstart % LP = 0 /\ len >= LP
        /\ Put(d, vstart \div LP, Large(pstart, pte_flags), e)
        /\ vstart' = vstart + LP /\ UNCHANGED <<ret, gap, cur, live>>
    BY <1>7, LargeCases
  <2>2. ArrayKept BY <1>7, LoopKeeps
  <2>3. len # 0 BY <1>7 DEF MapLarge
  <2>4. /\ vstart \in Pages /\ pstart \in Nat /\ d \in Directories /\ LP \in Nat /\ len \in Nat
    BY <2>1, <2>3, LoopFacts
  <2>5. LP =< len BY <2>1, <2>4
  <2> HIDE DEF d, e
  <2>6. \A p \in Pages : TransOf(e, p) =
            IF vstart =< p /\ p < vstart + LP
            THEN Pte(pstart + (p - vstart), pte_flags) ELSE TransOf(d, p)
    BY <2>1, <2>4, MapLargeShows
  <2> QED BY <2>1, <2>2, <2>3, <2>4, <2>5, <2>6, MapWrites DEF d, e
<1>8. CASE MapSmall
  <2>1. CASE pc' = "halted" BY <2>1, <1>2
  <2>2. CASE pc' # "halted"
    <3>1. /\ pc = "map" /\ pc' = "map" /\ len # 0 /\ UNCHANGED <<ret, gap, cur, live>>
          /\ vstart' = vstart + 1
      BY <2>2, <1>8, SmallCases
    <3>2. \A p \in Pages : TransOf(pd', p) =
                        IF p = vstart THEN Pte(pstart, pte_flags) ELSE TransOf(pd, p)
      BY <2>2, <1>8, SmallCases
    <3>3. ArrayKept BY <1>8, LoopKeeps
    <3>4. vstart \in Nat /\ pstart \in Nat /\ len \in Nat \ {0} BY <3>1, LoopFacts
    <3>5. ASSUME NEW p \in Pages
          PROVE  TransOf(pd', p) = IF vstart =< p /\ p < vstart + 1
                 THEN Pte(pstart + (p - vstart), pte_flags) ELSE TransOf(pd, p)
      <4>1. p \in Nat BY PageIndex
      <4>2. p = vstart <=> vstart =< p /\ p < vstart + 1 BY <4>1, <3>4
      <4>3. p = vstart => pstart + (p - vstart) = pstart BY <4>1, <3>4
      <4> QED BY <4>2, <4>3, <3>2
    <3>6. 1 \in Nat /\ 1 =< len BY <3>4
    <3> QED BY <3>1, <3>3, <3>5, <3>6, MapWrites
  <2> QED BY <2>1, <2>2
<1>9. CASE UnmapStep
  <2> DEFINE d == pd
             e == pd'
  <2>1. pc = "unmap" /\ pc' = "unmap" /\ len # 0 /\ UNCHANGED <<ret, gap, cur, live>>
    BY <1>9 DEF UnmapStep
  <2>2. ArrayKept BY <1>9, LoopKeeps
  <2>3. /\ vstart \in Pages /\ vstart \in Nat /\ d \in Directories /\ LP \in Nat
        /\ len \in Nat \ {0}
    BY <2>1, LoopFacts
  <2>4. CASE /\ vstart % LP = 0 /\ len >= LP /\ Put(d, vstart \div LP, Blank, e)
             /\ vstart' = vstart + LP
    <3>1. LP =< len BY <2>3, <2>4
    <3> HIDE DEF d, e
    <3>2. \A p \in Pages : TransOf(e, p) =
            IF vstart =< p /\ p < vstart + LP THEN Unmapped ELSE TransOf(d, p)
      BY <2>3, <2>4, UnmapLargeShows
    <3> QED BY <3>1, <3>2, <2>1, <2>2, <2>3, <2>4, UnmapWrites DEF d, e
  <2>5. CASE d[vstart \div LP].kind = "table" /\ Cleared(d, vstart, e) /\ vstart' = vstart + 1
    <3> HIDE DEF d, e
    <3>1. \A p \in Pages : TransOf(e, p) = IF p = vstart THEN Unmapped ELSE TransOf(d, p)
      BY <2>3, <2>5, UnmapSmallShows
    <3>2. ASSUME NEW p \in Pages
          PROVE  TransOf(e, p) =
                    IF vstart =< p /\ p < vstart + 1 THEN Unmapped ELSE TransOf(d, p)
      <4>1. p \in Nat BY PageIndex
      <4>2. p = vstart <=> vstart =< p /\ p < vstart + 1 BY <4>1, <2>3
      <4> QED BY <4>2, <3>1
    <3>3. 1 \in Nat /\ 1 =< len BY <2>3
    <3> QED BY <3>2, <3>3, <2>1, <2>2, <2>5, UnmapWrites DEF d, e
  <2> QED BY <2>4, <2>5, <1>9, UnmapCases
<1>10. CASE MapDone
  <2>1. /\ pc = "map" /\ len = 0 /\ pc' = ret /\ UNCHANGED <<ret, gap, pd>>
        /\ live' = IF ret = "ready" THEN Append(live, cur) ELSE live
    BY <1>10 DEF MapDone
  <2>2. Unused' = Unused /\ layout' = layout BY <1>3, <1>10, MapDoneKeeps
  <2>3. LiveShown(pd, live) /\ FreeShown(pd, Unused) /\ IdShown(pd, layout, IdBound)
    BY <2>1, <1>1
  <2>4. vstart \in Nat BY VaAssumption DEF IInv, TypeOK
  <2>5. CASE ret = "idmap"
    <3>1. IdLoop(layout, gap, vstart, pstart, len, pte_flags) /\ gap > 0
      BY <2>1, <2>5, LoopIs DEF IInv, PcInv
    <3>2. vstart = layout[gap].start BY <3>1, <2>1, <2>4 DEF IdLoop
    <3>3. gap # 0 BY <3>1, <1>4
    <3>4. IdBound = vstart /\ IdBound' = layout[gap].start
      BY <3>3, <2>1, <2>2, <2>5 DEF IdBound
    <3>5. IdBound' = IdBound BY <3>2, <3>4
    <3>6. live' = live /\ pc' = "idmap" BY <2>1, <2>5
    <3> QED BY <3>5, <3>6, <2>1, <2>2, <2>3, ShowIs
  <2>6. CASE ret = "ready"
    <3>1. IdBound' = IdBound BY <2>1, <2>2, <2>6 DEF IdBound
    <3> DEFINE s == live
               t == live'
               k == Len(live) + 1
    <3>2. t = Append(s, cur) /\ s \in Seq(Mappings) /\ cur \in Mappings
      BY <2>1, <2>6 DEF IInv, TypeOK
    <3>3. /\ DOMAIN t = DOMAIN s \cup {k} /\ \A i \in DOMAIN s : t[i] = s[i]
          /\ t[k] = cur
      BY <3>2
    <3>4. \A p \in PagesOf(BlockOf(cur)) : ShowsIn(pd, cur, p)
      <4> DEFINE b == BlockOf(cur)
      <4>1. vstart >= b.start /\ vstart + len = EndOf(b) BY <2>1, <2>6 DEF IInv, LoopInv
      <4>2. vstart = EndOf(b) BY <4>1, <2>1, <2>4
      <4>3. Pending BY <2>1, <2>6 DEF Pending
      <4>4. GoodBlock(b) BY <4>3 DEF IInv, UseInv, GoodMapping
      <4> HIDE DEF b
      <4>5. \A p \in PagesOf(b) : p < EndOf(b) BY <4>4, BlockNumbers
      <4> QED BY <4>2, <4>5, <2>1, <2>6, <1>1 DEF MapShown, b
    <3> HIDE DEF s, t, k
    <3>5. LiveShown(pd, t) BY <3>3, <3>4, <2>3 DEF LiveShown, s
    <3>6. pc' = "ready" BY <2>1, <2>6
    <3> QED BY <3>1, <3>5, <3>6, <2>1, <2>2, <2>3, ShowIs DEF t
  <2> QED BY <2>5, <2>6, <1>4
<1>11. CASE \E q \in Requests : MemVaMap(q)
  <2>1. PICK q \in Requests : MemVaMap(q) BY <1>11
  <2>2. pc = "ready" /\ pc' = "map" /\ ret' = "ready" /\ UNCHANGED <<layout, gap, pd, live>>
    BY <2>1 DEF MemVaMap
  <2>3. LiveShown(pd, live) /\ FreeShown(pd, Unused) /\ IdShown(pd, layout, IdBound)
    BY <2>2, <1>1
  <2>4. IdBound' = IdBound BY <2>2 DEF IdBound
  <2>5. Unused' = Unused \ PagesOf(BlockOf(cur')) BY <2>1, MapTakes
  <2>6. FreeShown(pd, Unused') BY <2>3, <2>5 DEF FreeShown
  <2>7. MapShown(pd, cur', vstart')
    <3> DEFINE b == BlockOf(cur')
               v == vstart'
    <3>1. b = [start |-> v, len |-> len'] /\ GoodMapping(cur') BY <2>1, MapTakes
    <3>2. GoodBlock(b) /\ b.start = v BY <3>1 DEF GoodMapping
    <3> HIDE DEF b, v
    <3>3. b.start \in Nat /\ \A p \in PagesOf(b) : p \in Nat /\ b.start =< p
      BY <3>2, BlockNumbers
    <3>4. \A p \in PagesOf(b) : ~(p < v) BY <3>2, <3>3
    <3> QED BY <3>4 DEF MapShown, b, v
  <2> QED BY <2>2, <2>3, <2>4, <2>6, <2>7, ShowIs
<1>12. CASE \E q \in Requests : MemVaMapHalt(q) BY <1>2, <1>12 DEF MemVaMapHalt
<1>13. CASE \E n \in DOMAIN live : MemVaUnmap(n)
  <2>1. PICK n \in DOMAIN live : MemVaUnmap(n) BY <1>13
  <2>2. /\ pc = "ready" /\ pc' = "unmap" /\ UNCHANGED <<gap, pd>>
        /\ vstart' = UnmapStart(cur')
    BY <2>1 DEF MemVaUnmap
  <2>3. Unused' = Unused /\ layout' = layout BY <2>1, <1>3, UnmapKeeps
  <2>4. LiveShown(pd, live) /\ FreeShown(pd, Unused) /\ IdShown(pd, layout, IdBound)
    BY <2>2, <1>1
  <2>5. IdBound' = IdBound BY <2>2, <2>3 DEF IdBound
  <2> DEFINE s == live
             t == live'
             m == cur'
             L == Len(live)
  <2>6. /\ m = s[n] /\ L \in Nat /\ n \in 1 .. L
        /\ DOMAIN s = 1 .. L /\ DOMAIN t = 1 .. L - 1
        /\ \A i \in 1 .. n - 1 : t[i] = s[i]
        /\ \A i \in n .. L - 1 : t[i] = s[i + 1]
    BY <2>1, UnmapKeeps
  <2>7. LiveShown(pd, s) BY <2>4
  <2>8. GoodMapping(s[n])
    <3>1. UseInv BY DEF IInv
    <3> QED BY <3>1 DEF UseInv
  <2> HIDE DEF s, t, m, L
  <2>9. LiveShown(pd, t)
    <3>1. ASSUME NEW i \in DOMAIN t PROVE \E j \in DOMAIN s : t[i] = s[j]
      <4>1. CASE i < n
        <5>1. i \in 1 .. n - 1 /\ i \in DOMAIN s BY <4>1, <2>6
        <5> QED BY <5>1, <2>6
      <4>2. CASE ~(i < n)
        <5>1. i \in n .. L - 1 /\ i + 1 \in DOMAIN s BY <4>2, <2>6
        <5> QED BY <5>1, <2>6
      <4> QED BY <4>1, <4>2
    <3> QED BY <3>1, <2>7 DEF LiveShown
  <2>10. UnmapShown(pd, m, vstart')
    <3> DEFINE b == BlockOf(m)
    <3>1. GoodBlock(b) /\ UnmapStart(m) = b.start BY <2>6, <2>8 DEF GoodMapping
    <3>2. vstart' = b.start BY <3>1, <2>2 DEF m, UnmapStart
    <3>3. n \in DOMAIN s BY <2>6
    <3>4. \A p \in PagesOf(b) : ShowsIn(pd, m, p) BY <3>3, <2>6, <2>7 DEF LiveShown
    <3> HIDE DEF b
    <3>5. b.start \in Nat /\ \A p \in PagesOf(b) : p \in Nat /\ b.start =< p
      BY <3>1, BlockNumbers
    <3>6. \A p \in PagesOf(b) : ~(p < vstart') BY <3>2, <3>5
    <3> QED BY <3>4, <3>6 DEF UnmapShown, b
  <2> QED BY <2>2, <2>3, <2>4, <2>5, <2>9, <2>10, ShowIs DEF t, m
<1>14. CASE GiveBack
  <2>1. CASE pc' = "full" BY <2>1, <1>2
  <2>2. CASE pc' # "full"
    <3>1. /\ pc' = "ready" /\ Unused' = Unused \cup PagesOf(BlockOf(cur))
      BY <2>2, <1>14, BackGives
    <3>2. /\ pc = "unmap" /\ len = 0 /\ ret = "ready" /\ live' = live /\ layout' = layout
          /\ GoodMapping(cur)
      BY <1>14, BackGives
    <3>3. UNCHANGED <<gap, pd, ret>> BY <1>14 DEF GiveBack
    <3>4. /\ LiveShown(pd, live) /\ FreeShown(pd, Unused) /\ IdShown(pd, layout, IdBound)
          /\ UnmapShown(pd, cur, vstart)
      BY <3>2, <1>1
    <3>5. IdBound' = IdBound BY <3>1, <3>2, <3>3 DEF IdBound
    <3>6. \A p \in PagesOf(BlockOf(cur)) : TransOf(pd, p) = Unmapped
      <4> DEFINE b == BlockOf(cur)
      <4>1. vstart + len = EndOf(b) BY <3>2 DEF IInv, LoopInv
      <4>2. vstart \in Nat BY VaAssumption DEF IInv, TypeOK
      <4>3. vstart = EndOf(b) BY <4>1, <4>2, <3>2
      <4>4. GoodBlock(b) BY <3>2 DEF GoodMapping
      <4> HIDE DEF b
      <4>5. \A p \in PagesOf(b) : p < EndOf(b) BY <4>4, BlockNumbers
      <4> QED BY <4>3, <4>5, <3>4 DEF UnmapShown, b
    <3>7. FreeShown(pd, Unused') BY <3>1, <3>4, <3>6 DEF FreeShown
    <3> QED BY <3>1, <3>2, <3>3, <3>4, <3>5, <3>7, ShowIs
  <2> QED BY <2>1, <2>2
<1>15. CASE Stopped \/ UNCHANGED vars
  <2>1. UNCHANGED <<pc, ret, layout, gap, unused_va_ranges, pd, vstart, cur, live>>
    BY <1>15, StoppedKeeps
  <2>2. Unused' = Unused BY <2>1 DEF Unused
  <2>3. IdBound' = IdBound BY <2>1 DEF IdBound
  <2> QED BY <2>1, <2>2, <2>3, <1>1, ShowIs
<1> QED BY <1>5, <1>6, <1>7, <1>8, <1>9, <1>10, <1>11, <1>12, <1>13, <1>14, <1>15, StepCases

-----------------------------------------------------------------------------
\* The invariant holds in every state stage 2's memory code can be in, whatever
\* the memory map, the page size and the calls (mem.c:216-308, 473-544).
THEOREM Inductive == Spec => []IInv
<1>1. Init => IInv BY InitInv
<1>2. IInv /\ [Next]_vars => IInv'
  <2> SUFFICES ASSUME IInv, [Next]_vars PROVE IInv' OBVIOUS
  <2>1. TypeOK' /\ PcInv' /\ UseInv' /\ SpaceInv' BY TypeStep, PcStep, UseStep, SpaceStep
  <2>2. LifoInv' /\ LoopInv' /\ LargeInv' /\ ShowInv' BY LifoStep, LoopStep, LargeStep, ShowStep
  <2> QED BY <2>1, <2>2 DEF IInv
<1> QED BY <1>1, <1>2, PTL DEF Spec

\* Every variable keeps its type; the array does not outgrow
\* max_unused_va_ranges (mem.c:530).
THEOREM TypeCorrect == Spec => []TypeOK
<1>1. IInv => TypeOK BY DEF IInv
<1> QED BY <1>1, Inductive, PTL

\* Page tables and array agree between calls.
THEOREM TablesAgree == Spec => []Translates
<1>1. IInv => Translates
  <2> SUFFICES ASSUME IInv, pc = "ready" PROVE Translates BY DEF Translates
  <2>1. /\ \A i \in DOMAIN live : \A p \in PagesOf(BlockOf(live[i])) : Shows(live[i], p)
        /\ \A p \in Unused : Translate(p) = Unmapped
        /\ \A p \in Pages : p \notin Holes /\ p < IdBound => Translate(p) = Identity(p)
    BY DEF IInv, ShowInv
  <2>2. gap = Len(layout) /\ HoleList(layout) BY DEF IInv, PcInv, TypeOK
  <2>3. Len(layout) \in Nat \ {0} /\ DOMAIN layout = 1 .. Len(layout) BY <2>2, HoleFacts
  <2>4. IdBound = layout[Len(layout)].start BY <2>2, <2>3 DEF IdBound
  <2>5. Len(layout) \in DOMAIN layout BY <2>3
  <2>6. layout[Len(layout)].start \in Nat /\ layout[Len(layout)].start < NPages
    BY <2>2, <2>5, HoleFacts
  <2>7. ASSUME NEW p \in 0 .. layout[Len(layout)].start - 1, p \notin Holes
        PROVE  Translate(p) = Pte(p, IF p < layout[1].start THEN BaseFlags ELSE "wb")
    <3> DEFINE x == layout[Len(layout)].start
    <3>1. x \in Nat /\ x < NPages /\ p \in 0 .. x - 1 /\ IdBound = x BY <2>4, <2>6
    <3> HIDE DEF x
    <3>2. NPages \in Nat BY VaAssumption
    <3>3. p \in Pages /\ p < IdBound BY <3>1, <3>2 DEF Pages
    <3>4. Translate(p) = Identity(p) BY <3>3, <2>1, <2>7
    <3> QED BY <3>4 DEF Identity
  <2> QED BY <2>1, <2>7 DEF Translates
<1> QED BY <1>1, Inductive, PTL

\* Ranges at the bottom of the holes they fill are the holes.
LEMMA BottomFull ==
    ASSUME NEW rs, NEW hs, HoleList(hs), ArrayInv(rs, {}), AtBottom(rs, hs),
           FreeOf(rs) = FreeOf(hs)
    PROVE  rs = hs
<1>1. Len(rs) \in Nat /\ DOMAIN rs = 1 .. Len(rs) /\ rs \in Seq(VaRanges)
  BY ArrayFacts DEF ArrayInv
<1>2. DOMAIN hs = 1 .. Len(hs) /\ hs \in Seq(VaRanges) BY HoleFacts
<1>3. DOMAIN rs = DOMAIN hs /\ Len(rs) = Len(hs) BY <1>1, <1>2 DEF AtBottom
<1>4. ASSUME NEW n \in DOMAIN hs PROVE rs[n] = hs[n]
  <2>1. /\ rs[n] \in VaRanges /\ rs[n].start \in Nat /\ rs[n].len \in Nat
        /\ EndOf(rs[n]) \in Nat /\ EndOf(rs[n]) = rs[n].start + rs[n].len
    BY <1>3, ArrayFacts
  <2>2. /\ hs[n] \in VaRanges /\ hs[n].start \in Nat /\ hs[n].len \in Nat \ {0}
        /\ EndOf(hs[n]) \in Nat /\ EndOf(hs[n]) = hs[n].start + hs[n].len
    BY HoleFacts
  <2>3. rs[n].start = hs[n].start /\ rs[n].len =< hs[n].len BY DEF AtBottom
  <2>4. ASSUME rs[n].len < hs[n].len PROVE FALSE
    <3> DEFINE p == EndOf(rs[n])
    <3>1. p \in Nat /\ hs[n].start =< p /\ p < EndOf(hs[n]) BY <2>1, <2>2, <2>3, <2>4
    <3>8. p = rs[n].start + rs[n].len BY <2>1
    <3> HIDE DEF p
    <3>2. p \in PagesOf(hs[n]) BY <3>1, <2>2, RangeNumbers
    <3>3. p \in FreeOf(rs) BY <3>2 DEF FreeOf
    <3>4. PICK k \in DOMAIN rs : p \in PagesOf(rs[k]) BY <3>3 DEF FreeOf
    <3>5. /\ rs[k] \in VaRanges /\ rs[k].start \in Nat /\ rs[k].len \in Nat
          /\ EndOf(rs[k]) = rs[k].start + rs[k].len
      BY ArrayFacts
    <3>6. rs[k].start =< p /\ p < EndOf(rs[k]) BY <3>4, <3>5, RangeNumbers
    <3>7. k \in DOMAIN hs /\ rs[k].start = hs[k].start /\ rs[k].len =< hs[k].len
      BY <1>3 DEF AtBottom
    <3>9. hs[k].len \in Nat /\ EndOf(hs[k]) = hs[k].start + hs[k].len BY <3>7, HoleFacts
    <3>10. hs[k].start =< p /\ p < EndOf(hs[k]) BY <3>1, <3>5, <3>6, <3>7, <3>9
    <3>11. hs[n].len > 0 BY <2>2
    <3>12. k = n BY <3>1, <3>2, <3>7, <3>10, <3>11, <2>2, OneHole
    <3> QED BY <3>1, <3>6, <3>8, <3>12, <2>1
  <2>5. rs[n].len = hs[n].len BY <2>1, <2>2, <2>3, <2>4
  <2> QED BY <2>1, <2>2, <2>3, <2>5 DEF VaRanges
<1> QED BY <1>1, <1>2, <1>3, <1>4

\* Mappings undone in the reverse order leave the array as va_init() made it.
THEOREM LifoRestores == Spec => []Restored
<1>1. IInv => Restored
  <2> SUFFICES ASSUME IInv, pc = "ready", lifo, live = << >> PROVE unused_va_ranges = layout
    BY DEF Restored
  <2> DEFINE R == unused_va_ranges
             H == layout
  <2>1. Blocks = {}
    <3>1. DOMAIN live = {} /\ ~Pending BY DEF Pending
    <3> QED BY <3>1 DEF Blocks
  <2>2. SpaceOf(R, {}, H) BY <2>1, SpaceIs DEF IInv
  <2>3. AtBottom(R, H) /\ HoleList(H) BY LifoIs DEF IInv, TypeOK
  <2> HIDE DEF R, H
  <2>4. ArrayInv(R, {}) /\ FreeOf(R) = FreeOf(H)
    <3>1. CoverOf({}) = {} BY DEF CoverOf
    <3> QED BY <3>1, <2>2 DEF SpaceOf
  <2>5. R = H BY <2>3, <2>4, BottomFull
  <2> QED BY <2>5 DEF R, H
<1> QED BY <1>1, Inductive, PTL

\* Mappings with blocks of their own are as many as their blocks.
LEMMA CountBlocks ==
    ASSUME NEW s \in Seq(Mappings),
           \A i, j \in DOMAIN s : i # j => BlockOf(s[i]) # BlockOf(s[j])
    PROVE  LET B == {BlockOf(s[i]) : i \in DOMAIN s}
           IN  IsFiniteSet(B) /\ Cardinality(B) = Len(s)
<1> DEFINE B == {BlockOf(s[i]) : i \in DOMAIN s}
           f == [i \in 1 .. Len(s) |-> BlockOf(s[i])]
<1>1. Len(s) \in Nat /\ DOMAIN s = 1 .. Len(s) OBVIOUS
<1>2. f \in Bijection(1 .. Len(s), B)
  <2>1. f \in [1 .. Len(s) -> B] BY <1>1
  <2>2. \A i, j \in 1 .. Len(s) : f[i] = f[j] => i = j BY <1>1
  <2>3. \A b \in B : \E i \in 1 .. Len(s) : f[i] = b BY <1>1
  <2> HIDE DEF f, B
  <2> QED BY <2>1, <2>2, <2>3 DEF Bijection, Injection, Surjection, IsInjective
<1>3. ExistsBijection(1 .. Len(s), B)
  <2> HIDE DEF f, B
  <2> QED BY <1>2, Zenon DEF ExistsBijection
<1>4. IsFiniteSet(1 .. Len(s)) /\ Cardinality(1 .. Len(s)) = Len(s)
  <2>1. 1 \in Int /\ Len(s) \in Int BY <1>1
  <2>2. /\ IsFiniteSet(1 .. Len(s))
        /\ Cardinality(1 .. Len(s)) = IF 1 > Len(s) THEN 0 ELSE Len(s) - 1 + 1
    BY <2>1, FS_Interval
  <2>3. (IF 1 > Len(s) THEN 0 ELSE Len(s) - 1 + 1) = Len(s) BY <1>1
  <2> QED BY <2>2, <2>3
<1> HIDE DEF B
<1>5. IsFiniteSet(B) /\ Cardinality(B) = Cardinality(1 .. Len(s)) BY <1>3, <1>4, FS_Bijection
<1> QED BY <1>4, <1>5 DEF B

\* No virtual page is given out twice or lost, in whatever order mappings are
\* undone; in particular the hlt() at mem.c:542 is never reached.
THEOREM PagesConserved == Spec => []Conserved
<1>1. IInv => Conserved
  <2> SUFFICES ASSUME IInv PROVE Conserved OBVIOUS
  <2>1. Unused \cup UNION {PagesOf(b) : b \in Blocks} = Holes BY DEF IInv, SpaceInv
  <2>2. \A b \in Blocks : PagesOf(b) \cap Unused = {} BY UsedPages
  <2>3. \A b, c \in Blocks : b # c => PagesOf(b) \cap PagesOf(c) = {} BY UsedPages
  <2>4. ASSUME NEW m \in DOMAIN unused_va_ranges, NEW n \in DOMAIN unused_va_ranges, m # n
        PROVE  PagesOf(unused_va_ranges[m]) \cap PagesOf(unused_va_ranges[n]) = {}
    <3> DEFINE R == unused_va_ranges
    <3>1. ArrayInv(R, Blocks) BY DEF IInv, SpaceInv
    <3> HIDE DEF R
    <3>2. /\ Len(R) \in Nat /\ DOMAIN R = 1 .. Len(R)
          /\ \A i \in DOMAIN R : R[i] \in VaRanges /\ R[i].len \in Nat
          /\ \A i, j \in DOMAIN R : i < j /\ R[i].len > 0 => EndOf(R[i]) =< R[j].start
      BY <3>1, ArrayFacts
    <3>3. ASSUME NEW i \in DOMAIN R, NEW j \in DOMAIN R, i < j
          PROVE  PagesOf(R[i]) \cap PagesOf(R[j]) = {}
      <4>1. R[i].len = 0 \/ R[i].len > 0 BY <3>2
      <4>2. Apart(R[i], R[j]) BY <4>1, <3>2, <3>3 DEF Apart
      <4> QED BY <4>2, <3>2, ApartPages
    <3>4. m < n \/ n < m BY <3>2, <2>4 DEF R
    <3> QED BY <3>3, <3>4 DEF R
  <2>5. Cardinality(Blocks) = Len(live) + IF Pending THEN 1 ELSE 0
    <3> DEFINE B == {BlockOf(live[i]) : i \in DOMAIN live}
    <3>1. live \in Seq(Mappings) BY DEF IInv, TypeOK
    <3>2. \A i, j \in DOMAIN live : i # j => BlockOf(live[i]) # BlockOf(live[j])
      BY DEF IInv, UseInv
    <3>3. IsFiniteSet(B) /\ Cardinality(B) = Len(live) BY <3>1, <3>2, CountBlocks
    <3>4. Pending => BlockOf(cur) \notin B BY DEF IInv, UseInv
    <3>5. Blocks = B \cup (IF Pending THEN {BlockOf(cur)} ELSE {}) BY DEF Blocks
    <3>6. Len(live) \in Nat BY <3>1
    <3> HIDE DEF B
    <3>7. CASE Pending
      <4>1. Blocks = B \cup {BlockOf(cur)} BY <3>5, <3>7
      <4>2. Cardinality(B \cup {BlockOf(cur)}) = Cardinality(B) + 1
        BY <3>3, <3>4, <3>7, FS_AddElement
      <4> QED BY <4>1, <4>2, <3>3, <3>7
    <3>8. CASE ~Pending
      <4>1. Blocks = B BY <3>5, <3>8
      <4> QED BY <4>1, <3>3, <3>6, <3>8
    <3> QED BY <3>7, <3>8
  <2> QED BY <2>1, <2>2, <2>3, <2>4, <2>5 DEF Conserved
<1> QED BY <1>1, Inductive, PTL

-----------------------------------------------------------------------------
(***************************************************************************)
(* The detailed specification implements VaSpace.                          *)
(***************************************************************************)

\* A step that changes neither the array nor the blocks is none to a caller;
\* mem_va_map() takes a block, the end of mem_va_unmap() gives it back.
LEMMA PromiseStep ==
    ASSUME IInv, [Next]_vars
    PROVE  VA!Next \/ (Unused' = Unused /\ Blocks' = Blocks)
<1>1. ASSUME ArrayKept PROVE Unused' = Unused /\ Blocks' = Blocks
  BY <1>1 DEF ArrayKept, Unused
<1>2. CASE IdMap \/ IdMapDone BY <1>1, <1>2, IdMapKeeps
<1>3. CASE MapLarge \/ MapSmall \/ UnmapStep BY <1>1, <1>3, LoopKeeps
<1>4. CASE MapDone BY <1>1, <1>4, MapDoneKeeps
<1>5. CASE \E q \in Requests : MemVaMapHalt(q) BY <1>1, <1>5, HaltKeeps
<1>6. CASE \E n \in DOMAIN live : MemVaUnmap(n) BY <1>1, <1>6, UnmapKeeps
<1>7. CASE Stopped \/ UNCHANGED vars BY <1>1, <1>7, StoppedKeeps
<1>8. ASSUME NEW b PROVE VA!PagesOf(b) = PagesOf(b)
  BY DEF VA!PagesOf, PagesOf, EndOf
<1>9. CASE \E q \in Requests : MemVaMap(q)
  <2>1. PICK q \in Requests : MemVaMap(q) BY <1>9
  <2> DEFINE s == vstart'
             k == len'
             b == [start |-> s, len |-> k]
             F == Unused
             G == Unused'
             B == Blocks
             C == Blocks'
  <2>2. BlockOf(cur') = b /\ s \in Pages /\ k \in Nat \ {0} /\ GoodMapping(cur')
    BY <2>1, MapTakes
  <2>3. /\ PagesOf(b) \subseteq F /\ G = F \ PagesOf(b) /\ C = B \cup {b}
    <3>1. /\ PagesOf(BlockOf(cur')) \subseteq F /\ G = F \ PagesOf(BlockOf(cur'))
          /\ C = B \cup {BlockOf(cur')}
      BY <2>1, MapTakes
    <3> HIDE DEF F, G, B, C, b
    <3> QED BY <3>1, <2>2
  <2>4. GoodBlock(b) BY <2>2 DEF GoodMapping
  <2>5. b.start = s /\ b.len = k OBVIOUS
  <2>6. F \subseteq Pages BY UsedPages
  <2> HIDE DEF F, G, B, C, s, k
  <2>7. s \in Nat /\ EndOf(b) = s + k /\ EndOf(b) \in Nat
        /\ \A p : p \in PagesOf(b) <=> p \in Nat /\ s =< p /\ p < EndOf(b)
    <3> HIDE DEF b
    <3>1. /\ b.start \in Nat \ {0} /\ EndOf(b) = b.start + b.len /\ EndOf(b) \in Nat
          /\ \A p : p \in PagesOf(b) <=> p \in Nat /\ b.start =< p /\ p < EndOf(b)
      BY <2>4, BlockNumbers
    <3> QED BY <3>1, <2>5
  <2>8. s \in F
    <3>1. s \in PagesOf(b) BY <2>2, <2>7
    <3> QED BY <3>1, <2>3
  <2> DEFINE e == s + k - 1
  <2>9. e \in F /\ s =< e /\ e - s + 1 = k
    <3>1. e \in Nat /\ s =< e /\ e < EndOf(b) /\ e - s + 1 = k BY <2>2, <2>7
    <3>2. e \in PagesOf(b) BY <3>1, <2>7
    <3> QED BY <3>1, <3>2, <2>3
  <2>10. VA!PagesOf(b) = PagesOf(b) BY <1>8
  <2>11. VA!Acquire(b) BY <2>3, <2>10 DEF VA!Acquire, F, G, B, C
  <2> HIDE DEF e
  <2>12. VA!Acquire([start |-> s, len |-> e - s + 1]) BY <2>9, <2>11
  <2>13. \E first, last \in Unused :
            first =< last /\ VA!Acquire([start |-> first, len |-> last - first + 1])
    BY <2>8, <2>9, <2>12 DEF F
  <2> QED BY <2>13 DEF VA!Next
<1>10. CASE GiveBack
  <2>1. CASE ArrayKept BY <1>1, <2>1
  <2>2. CASE ~ArrayKept
    <3> DEFINE b == BlockOf(cur)
    <3>1. b \in Blocks BY <1>10, BackGives
    <3>2. Blocks' = Blocks \ {b} /\ Unused' = Unused \cup PagesOf(b)
      BY <2>2, <1>10, BackGives
    <3>3. VA!PagesOf(b) = PagesOf(b) BY <1>8
    <3> HIDE DEF b
    <3>4. VA!Release(b) BY <3>1, <3>2, <3>3 DEF VA!Release
    <3> QED BY <3>1, <3>4 DEF VA!Next
  <2> QED BY <2>1, <2>2
<1> QED BY <1>2, <1>3, <1>4, <1>5, <1>6, <1>7, <1>9, <1>10, StepCases

\* mem_va_map() and mem_va_unmap() do what VaSpace promises.
THEOREM Implements == Spec => Promise
<1>1. Init => VA!Init
  <2> SUFFICES ASSUME Init PROVE VA!Init OBVIOUS
  <2>1. layout \in Layouts /\ unused_va_ranges = layout /\ live = << >> /\ ret = "idmap"
    BY DEF Init
  <2>2. Unused = UNION {PagesOf(layout[n]) : n \in DOMAIN layout} BY <2>1 DEF Unused
  <2>3. Unused \in HoleSets BY <2>1, <2>2 DEF HoleSets
  <2>4. Blocks = {}
    <3>1. DOMAIN live = {} /\ ~Pending BY <2>1 DEF Pending
    <3> QED BY <3>1 DEF Blocks
  <2> QED BY <2>3, <2>4 DEF VA!Init
<1>2. IInv /\ [Next]_vars => [VA!Next]_<<Unused, Blocks>>
  <2> SUFFICES ASSUME IInv, [Next]_vars PROVE [VA!Next]_<<Unused, Blocks>> OBVIOUS
  <2>1. VA!Next \/ (Unused' = Unused /\ Blocks' = Blocks) BY PromiseStep
  <2> QED BY <2>1
<1> QED BY <1>1, <1>2, Inductive, PTL DEF Spec, Promise, VA!Spec
=============================================================================
