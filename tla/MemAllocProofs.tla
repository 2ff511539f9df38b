--------------------------- MODULE MemAllocProofs ---------------------------
(***************************************************************************)
(* Proofs about MemAlloc, alone and under va_init (MemInit), for every     *)
(* memory map that stage 1 may report, however long, and any requests:     *)
(* shellsort() leaves the ranges that were copied, in order; mem_alloc()   *)
(* hands out no byte twice and none above the limit, and loses none;       *)
(* va_init() finds exactly the holes and maps the rest to itself, with the *)
(* flags that each page needs.                                             *)
(***************************************************************************)
EXTENDS MemInit, NatFacts, FiniteSetTheorems, TLAPS

\* The array, with what shellsort has taken out of it back in its hole.
Array == IF pc = "shift" THEN [mem_ranges EXCEPT ![j] = v] ELSE mem_ranges

Within(r, s) == s.start =< r.start /\ EndOf(r) =< EndOf(s)

\* The first n entries of array A are related as the ranges of a map are.
Apart(r, s) ==
    \/ Disjoint(r, s)
    \/ r.start < BmemMax /\ s.start < BmemMax /\ (r.type # "RAM" \/ s.type # "RAM")
Sound(r) == r.len # 0 /\ (EndOf(r) =< BmemMax \/ r.start >= BmemMax)
Shape(A, n) ==
    \A a \in 0 .. n - 1 :
        /\ Sound(A[a])
        /\ \A b \in 0 .. n - 1 : a # b => Apart(A[a], A[b])

Ordered(A, n) == \A a, b \in 0 .. n - 1 : a < b => A[a].start =< A[b].start

\* Cutting a range that overlaps others, in base memory, may leave its upper
\* part before ranges that start lower: from then on only this holds.
InOrder(A, n) ==
    \A a, b \in 0 .. n - 1 :
        a < b => \/ A[a].start =< A[b].start
                 \/ A[a].start < BmemMax /\ A[b].start < BmemMax

\* What mem_map_init leaves of the chosen range.
Rest == [bparms[chosen] EXCEPT !.len = @ - Space]

\* The entries of A equal to r, or with the byte at a.
Equals(A, n, r) == {m \in 0 .. n - 1 : A[m] = r}
Holds(A, n, a) == {m \in 0 .. n - 1 : Covers(A[m], a)}

\* What the first n parameters make up: entries equal to r, those with a.
OthersEqual(n, r) == {m \in (1 .. n) \ {chosen} : bparms[m] = r}
ExpectedOf(n, r) ==
    Cardinality(OthersEqual(n, r))
    + (IF chosen =< n /\ Rest.len # 0 /\ r = Rest THEN 1 ELSE 0)
    + (IF chosen =< n /\ r = MapArea THEN 1 ELSE 0)
ReportedWith(n, a) == {m \in 1 .. n : Covers(bparms[m], a)}

InRam(r) == \E n \in 1 .. Len(bparms) : bparms[n].type = "RAM" /\ Within(r, bparms[n])

-----------------------------------------------------------------------------
\* Where mem_map_init, shellsort and mem_alloc are.
Early == {"size", "copy", "gap", "pick", "shift"}
PlanInv ==
    /\ chosen = 0 => pc \in {"size", "halted"} /\ num_mem_ranges = 0 /\ k = 1 /\ allocs = {}
    /\ chosen # 0 => /\ pc # "size" /\ max_mem_ranges = EntriesFor(bparms)
                     /\ Eligible(bparms[chosen], Space)
    /\ pc \in Early => allocs = {}
    /\ pc = "copy" => /\ k - 1 =< num_mem_ranges
                      /\ num_mem_ranges =< k - 1 + (IF chosen < k THEN 1 ELSE 0)
    /\ pc \notin {"size", "copy", "halted", "underrun"} => k = Len(bparms) + 1 /\ num_mem_ranges >= 1
    /\ pc \in {"gap", "pick", "shift"} => h >= 1 /\ num_mem_ranges >= 2
    /\ pc = "shift" => j =< i /\ i < num_mem_ranges
    /\ pc \in {"find", "scan"} => left < right /\ right =< num_mem_ranges

\* In the last pass of shellsort the entries before the i-th are in order,
\* but for the hole; after that they all are, until one is cut.
OrderInv ==
    /\ pc = "pick" /\ h = 1 => i \in 1 .. num_mem_ranges /\ Ordered(mem_ranges, i)
    /\ pc = "shift" /\ h = 1 =>
        /\ \A a, b \in (0 .. i) \ {j} : a < b => mem_ranges[a].start =< mem_ranges[b].start
        /\ \A b \in j + 1 .. i : v.start =< mem_ranges[b].start
    /\ pc = "sorted" => Ordered(mem_ranges, num_mem_ranges)
    /\ pc \in {"sorted", "ready", "find", "scan"} => InOrder(mem_ranges, num_mem_ranges)

\* Where the entries come from.
CopyInv ==
    pc = "copy" =>
        \A n \in LiveRanges :
            \E a \in 1 .. k - 1 :
                /\ Within(mem_ranges[n], bparms[a])
                /\ mem_ranges[n].type = "RAM" => bparms[a].type = "RAM"
CountInv ==
    pc \in {"copy", "gap", "pick", "shift", "sorted"} =>
        \A r \in Ranges :
            Cardinality(Equals(Array, num_mem_ranges, r)) = ExpectedOf(k - 1, r)
TileInv ==
    \A a \in Nat : Cardinality(Holds(Array, num_mem_ranges, a)) = Cardinality(ReportedWith(k - 1, a))

ShapeInv == Shape(Array, num_mem_ranges)
FreeInv ==
    \A n \in LiveRanges :
        Array[n].type = "RAM" => InRam(Array[n]) /\ Disjoint(Array[n], MapArea)

\* The blocks handed out.
BlockInv ==
    \A a \in allocs :
        /\ InRam(a) /\ Disjoint(a, MapArea)
        /\ \A b \in allocs : a # b => Disjoint(a, b)
        /\ \A n \in LiveRanges : Array[n].type = "RAM" => Disjoint(a, Array[n])

\* mem_alloc looks at ranges below the limit only.
ScanInv == pc = "scan" => \A n \in 0 .. left : EndOf(mem_ranges[n]) =< Limit

DataInv == ShapeInv /\ FreeInv /\ TileInv /\ BlockInv
IInv == TypeOK /\ PlanInv /\ OrderInv /\ CopyInv /\ CountInv /\ DataInv /\ ScanInv /\ BelowLimit

-----------------------------------------------------------------------------
\* A one-to-one function from all of one finite set onto another: they have
\* the same size.
LEMMA SameSize ==
    ASSUME NEW S, NEW T, IsFiniteSet(S), NEW f \in [T -> S],
           \A x, y \in T : f[x] = f[y] => x = y,
           \A y \in S : \E x \in T : f[x] = y
    PROVE  Cardinality(T) = Cardinality(S) /\ IsFiniteSet(T)
<1>1. f \in Injection(T, S) /\ f \in Surjection(T, S)
  BY Zenon DEF Injection, Surjection, IsInjective
<1>2. IsFiniteSet(T)
  BY <1>1, FS_Injection
<1>3. ExistsBijection(T, S)
  BY <1>1, Zenon DEF ExistsBijection, Bijection
<1> QED  BY <1>2, <1>3, FS_Bijection

\* Exchanging two entries of an array changes no count of them.
LEMMA SwapSize ==
    ASSUME NEW n \in Nat, NEW x \in 0 .. n - 1, NEW y \in 0 .. n - 1,
           NEW S \in SUBSET (0 .. n - 1), NEW T \in SUBSET (0 .. n - 1),
           x \in T <=> y \in S, y \in T <=> x \in S,
           \A m \in (0 .. n - 1) \ {x, y} : m \in T <=> m \in S
    PROVE  Cardinality(T) = Cardinality(S)
<1> DEFINE f == [m \in T |-> IF m = x THEN y ELSE IF m = y THEN x ELSE m]
<1>1. IsFiniteSet(S)
  <2>1. IsFiniteSet(0 .. n - 1)
    BY FS_Interval
  <2> QED  BY <2>1, FS_Subset
<1>2. \A m \in T : f[m] = IF m = x THEN y ELSE IF m = y THEN x ELSE m
  BY Zenon
<1>3. f \in [T -> S]
  <2>1. ASSUME NEW m \in T
        PROVE  (IF m = x THEN y ELSE IF m = y THEN x ELSE m) \in S
    <3>1. m \in 0 .. n - 1
      OBVIOUS
    <3> QED  BY <3>1
  <2> QED  BY <2>1, Zenon
<1> HIDE DEF f
<1>4. \A a, b \in T : f[a] = f[b] => a = b
  BY <1>2
<1>5. \A b \in S : \E a \in T : f[a] = b
  BY <1>2
<1> QED  BY <1>1, <1>3, <1>4, <1>5, SameSize

\* The numbers up to n that are in a set: one more has no more than one more.
LEMMA OneMore ==
    ASSUME NEW S, IsFiniteSet(S), NEW T, NEW x, x \notin S,
           T = S \/ T = S \cup {x}
    PROVE  /\ IsFiniteSet(T)
           /\ Cardinality(T) = Cardinality(S) + (IF x \in T THEN 1 ELSE 0)
           /\ Cardinality(T) \in Nat
<1>1. Cardinality(S) \in Nat
  BY FS_CardinalityType
<1>2. CASE T = S
  BY <1>1, <1>2
<1>3. CASE T = S \cup {x}
  BY <1>1, <1>3, FS_AddElement
<1> QED  BY <1>2, <1>3

\* The counts of MemAlloc are of finite sets.
LEMMA CountsFinite ==
    ASSUME NEW n \in Nat, NEW A, NEW r
    PROVE  /\ IsFiniteSet(Equals(A, n, r)) /\ IsFiniteSet(Holds(A, n, r))
           /\ IsFiniteSet(OthersEqual(n, r)) /\ IsFiniteSet(ReportedWith(n, r))
<1>1. IsFiniteSet(0 .. n - 1) /\ IsFiniteSet(1 .. n)
  BY FS_Interval
<1>2. /\ Equals(A, n, r) \in SUBSET (0 .. n - 1) /\ Holds(A, n, r) \in SUBSET (0 .. n - 1)
      /\ OthersEqual(n, r) \in SUBSET (1 .. n) /\ ReportedWith(n, r) \in SUBSET (1 .. n)
  BY DEF Equals, Holds, OthersEqual, ReportedWith
<1> QED  BY <1>1, <1>2, FS_Subset

LEMMA SwapCounts ==
    ASSUME NEW n \in Nat, NEW x \in 0 .. n - 1, NEW y \in 0 .. n - 1, NEW A, NEW B,
           B[x] = A[y], B[y] = A[x], \A m \in (0 .. n - 1) \ {x, y} : B[m] = A[m],
           NEW r
    PROVE  /\ Cardinality(Equals(B, n, r)) = Cardinality(Equals(A, n, r))
           /\ Cardinality(Holds(B, n, r)) = Cardinality(Holds(A, n, r))
<1>1. ASSUME NEW S, NEW T, S = Equals(A, n, r), T = Equals(B, n, r)
      PROVE  Cardinality(T) = Cardinality(S)
  <2>1. S \in SUBSET (0 .. n - 1) /\ T \in SUBSET (0 .. n - 1)
    BY <1>1 DEF Equals
  <2>2. x \in T <=> y \in S
    BY <1>1 DEF Equals
  <2>3. y \in T <=> x \in S
    BY <1>1 DEF Equals
  <2>4. \A m \in (0 .. n - 1) \ {x, y} : m \in T <=> m \in S
    BY <1>1 DEF Equals
  <2> QED  BY <2>1, <2>2, <2>3, <2>4, SwapSize
<1>2. ASSUME NEW S, NEW T, S = Holds(A, n, r), T = Holds(B, n, r)
      PROVE  Cardinality(T) = Cardinality(S)
  <2>1. S \in SUBSET (0 .. n - 1) /\ T \in SUBSET (0 .. n - 1)
    BY <1>2 DEF Holds
  <2>2. x \in T <=> y \in S
    BY <1>2 DEF Holds
  <2>3. y \in T <=> x \in S
    BY <1>2 DEF Holds
  <2>4. \A m \in (0 .. n - 1) \ {x, y} : m \in T <=> m \in S
    BY <1>2 DEF Holds
  <2> QED  BY <2>1, <2>2, <2>3, <2>4, SwapSize
<1> QED  BY <1>1, <1>2

\* Two ranges that are apart, and parts of them.
LEMMA PartsApart ==
    ASSUME NEW r \in Ranges, NEW s \in Ranges, NEW p \in Ranges, NEW q \in Ranges,
           Apart(r, s), Sound(r), Sound(s), Sound(p), Sound(q),
           Within(p, r), Within(q, s),
           p.type = "RAM" => r.type = "RAM", q.type = "RAM" => s.type = "RAM"
    PROVE  Apart(p, q) /\ (Disjoint(r, s) => Disjoint(p, q))
<1>1. /\ r.start \in Nat /\ r.len \in Nat /\ s.start \in Nat /\ s.len \in Nat
      /\ p.start \in Nat /\ p.len \in Nat /\ q.start \in Nat /\ q.len \in Nat
  BY DEF Ranges
<1>2. Disjoint(r, s) => Disjoint(p, q)
  BY <1>1 DEF Within, Disjoint, EndOf
<1>3. CASE ~Disjoint(r, s)
  <2>1. r.start < BmemMax /\ s.start < BmemMax /\ (r.type # "RAM" \/ s.type # "RAM")
    BY <1>3, Zenon DEF Apart
  <2>2. p.start < BmemMax /\ q.start < BmemMax
    BY <1>1, <2>1, MapAssumption DEF Sound, Within, EndOf
  <2>3. p.type # "RAM" \/ q.type # "RAM"
    BY <2>1
  <2> QED  BY <1>3, <2>2, <2>3, Zenon DEF Apart
<1> QED  BY <1>2, <1>3, Zenon DEF Apart

LEMMA DisjointPart ==
    ASSUME NEW p, NEW q, NEW s, Within(p, q), Disjoint(q, s),
           p.start \in Nat, q.start \in Nat, s.start \in Nat,
           EndOf(p) \in Nat, EndOf(q) \in Nat, EndOf(s) \in Nat
    PROVE  Disjoint(p, s) /\ Disjoint(s, p)
BY DEF Disjoint, Within

LEMMA RangeType ==
    ASSUME NEW r \in Ranges
    PROVE  /\ r.start \in Nat /\ r.len \in Nat /\ EndOf(r) \in Nat
           /\ EndOf(r) = r.start + r.len
           /\ r.type \in Types /\ r.attr \in Attrs
BY DEF Ranges, EndOf

-----------------------------------------------------------------------------
LEMMA InitIInv == Init => IInv
<1> SUFFICES ASSUME Init PROVE IInv
  OBVIOUS
<1>1. /\ pc = "size" /\ bparms \in Maps /\ chosen = 0 /\ mem_ranges = << >>
      /\ num_mem_ranges = 0 /\ max_mem_ranges = 0 /\ k = 1
      /\ h = 0 /\ i = 0 /\ j = 0 /\ v = NoRange
      /\ req = NoReq /\ left = 0 /\ right = 0 /\ allocs = {}
  BY DEF Init
<1>2. StageOneMap(bparms)
  BY <1>1, MapAssumption
<1>3. bparms \in Seq(Ranges) /\ Len(bparms) \in Nat
  BY <1>2 DEF StageOneMap
<1>4. v \in Ranges
  BY <1>1 DEF NoRange, Ranges, Types, Attrs
<1>5. mem_ranges \in [0 .. max_mem_ranges - 1 -> Ranges]
  BY <1>1
<1>6. req \in [size : Nat \ {0}, align : Nat \ {0}, max_addr : {0, BmemMax}]
  BY <1>1 DEF NoReq
<1>7. TypeOK
  BY <1>1, <1>2, <1>3, <1>4, <1>5, <1>6 DEF TypeOK, Phases
<1>8. PlanInv /\ OrderInv /\ CopyInv /\ ScanInv /\ BelowLimit
  BY <1>1 DEF PlanInv, OrderInv, CopyInv, ScanInv, BelowLimit
<1>9. ShapeInv /\ FreeInv /\ BlockInv
  BY <1>1 DEF ShapeInv, Shape, FreeInv, BlockInv, LiveRanges
<1>10. CountInv
  BY <1>1 DEF CountInv
<1>11. TileInv
  <2> SUFFICES ASSUME NEW a \in Nat
               PROVE  Holds(Array, num_mem_ranges, a) = {} /\ ReportedWith(k - 1, a) = {}
    BY Zenon DEF TileInv
  <2> QED  BY <1>1 DEF Holds, ReportedWith
<1> QED  BY <1>7, <1>8, <1>9, <1>10, <1>11 DEF IInv, DataInv

(***************************************************************************)
(* What is known of the data stays so where they do not change.            *)
(***************************************************************************)
LEMMA DataSame ==
    ASSUME DataInv, Array' = Array, UNCHANGED <<mapVars, num_mem_ranges, k, allocs>>
    PROVE  DataInv'
<1>1. MapArea' = MapArea
  BY DEF MapArea, Space, mapVars
<1>2. ShapeInv'
  BY DEF DataInv, ShapeInv
<1>3. \A r : InRam(r)' <=> InRam(r)
  BY DEF InRam, mapVars
<1>4. FreeInv'
  BY <1>1, <1>3 DEF DataInv, FreeInv, LiveRanges
<1>5. TileInv'
  BY DEF DataInv, TileInv, mapVars, ReportedWith
<1>6. BlockInv'
  BY <1>1, <1>3 DEF DataInv, BlockInv, LiveRanges
<1> QED  BY <1>2, <1>4, <1>5, <1>6 DEF DataInv

LEMMA CountSame ==
    ASSUME CountInv, Array' = Array, UNCHANGED <<mapVars, num_mem_ranges, k>>,
           pc' \in {"copy", "gap", "pick", "shift", "sorted"} =>
               pc \in {"copy", "gap", "pick", "shift", "sorted"}
    PROVE  CountInv'
<1>1. MapArea' = MapArea /\ Rest' = Rest
  BY DEF MapArea, Rest, Space, mapVars
<1>2. ASSUME NEW r PROVE ExpectedOf(k - 1, r)' = ExpectedOf(k - 1, r)
  BY <1>1 DEF ExpectedOf, OthersEqual, mapVars
<1> QED  BY <1>2 DEF CountInv

LEMMA Stuttering == ASSUME IInv, UNCHANGED vars PROVE IInv'
<1> USE DEF vars, mapVars, sortVars, findVars
<1>1. Array' = Array
  BY DEF Array
<1>2. DataInv' /\ CountInv'
  BY <1>1, DataSame, CountSame DEF IInv
<1>3. TypeOK'
  BY DEF IInv, TypeOK, StageOneMap, LiveRanges
<1>4. PlanInv'
  BY DEF IInv, PlanInv, EntriesFor, Space, Eligible
<1>5. OrderInv' /\ CopyInv' /\ ScanInv' /\ BelowLimit'
  BY DEF IInv, OrderInv, CopyInv, ScanInv, BelowLimit, LiveRanges, Limit
<1> QED  BY <1>2, <1>3, <1>4, <1>5 DEF IInv

\* In order of their start, the ranges are in order.
LEMMA OrderedInOrder ==
    ASSUME NEW A, NEW n, Ordered(A, n)
    PROVE  InOrder(A, n)
BY DEF Ordered, InOrder

(***************************************************************************)
(* shellsort's and mem_alloc's steps that move no range.                   *)
(***************************************************************************)
LEMMA SortBeginStep == ASSUME IInv, SortBegin PROVE IInv'
<1> USE DEF mapVars, findVars
<1>1. TypeOK /\ PlanInv /\ pc = "copy"
  BY DEF IInv, SortBegin
<1>2. Array' = Array
  BY DEF Array, SortBegin
<1>3. DataInv' /\ CountInv'
  BY <1>2, DataSame, CountSame DEF IInv, SortBegin
<1>4. /\ Len(bparms) \in Nat /\ k = Len(bparms) + 1 /\ Len(bparms) >= 1
      /\ num_mem_ranges \in Nat /\ num_mem_ranges >= 1
  BY <1>1 DEF SortBegin, TypeOK, PlanInv, StageOneMap
<1>5. TypeOK'
  BY <1>1 DEF SortBegin, TypeOK, StageOneMap, LiveRanges, Phases
<1>6. PlanInv'
  BY <1>1, <1>4 DEF SortBegin, PlanInv, EntriesFor, Space, Eligible, Early
<1>7. OrderInv'
  <2>1. CASE num_mem_ranges < 2
    <3>1. pc' = "sorted"
      BY <2>1 DEF SortBegin
    <3>2. Ordered(mem_ranges, num_mem_ranges)'
      BY <1>4, <2>1 DEF SortBegin, Ordered
    <3> QED  BY <3>1, <3>2, OrderedInOrder DEF OrderInv, Ordered, InOrder
  <2>2. CASE ~(num_mem_ranges < 2)
    BY <2>2 DEF OrderInv, SortBegin
  <2> QED  BY <2>1, <2>2
<1>8. CopyInv' /\ ScanInv' /\ BelowLimit'
  BY DEF IInv, SortBegin, CopyInv, ScanInv, BelowLimit
<1> QED  BY <1>3, <1>5, <1>6, <1>7, <1>8 DEF IInv

LEMMA SortGapStep == ASSUME IInv, SortGap PROVE IInv'
<1> USE DEF mapVars, findVars
<1>1. TypeOK /\ PlanInv /\ pc = "gap" /\ h \in Nat /\ num_mem_ranges \in Nat
  BY DEF IInv, SortGap, TypeOK
<1>2. Array' = Array
  BY DEF Array, SortGap
<1>3. DataInv' /\ CountInv'
  BY <1>2, DataSame, CountSame DEF IInv, SortGap
<1>4. h >= 1 /\ num_mem_ranges >= 2
  BY <1>1 DEF PlanInv
<1>5. /\ h' \in Nat /\ h' >= 1 /\ i' \in Nat /\ pc' \in {"gap", "pick"}
      /\ pc' = "pick" => i' = h'
  BY <1>1, <1>4 DEF SortGap, TypeOK
<1>6. TypeOK'
  BY <1>1, <1>5 DEF SortGap, TypeOK, StageOneMap, LiveRanges, Phases
<1>7. PlanInv'
  BY <1>1, <1>4, <1>5 DEF SortGap, PlanInv, EntriesFor, Space, Eligible, Early
<1>8. OrderInv'
  <2>1. pc' = "pick" /\ h' = 1 => i' = 1 /\ i' \in 1 .. num_mem_ranges'
    BY <1>1, <1>4, <1>5 DEF SortGap
  <2>2. i' = 1 => Ordered(mem_ranges, i)'
    BY DEF Ordered
  <2> QED  BY <1>5, <2>1, <2>2 DEF OrderInv
<1>9. CopyInv' /\ ScanInv' /\ BelowLimit'
  BY <1>5 DEF IInv, SortGap, CopyInv, ScanInv, BelowLimit
<1> QED  BY <1>3, <1>6, <1>7, <1>8, <1>9 DEF IInv

LEMMA SortNextGapStep == ASSUME IInv, SortNextGap PROVE IInv'
<1> USE DEF mapVars, findVars
<1>1. TypeOK /\ PlanInv /\ pc = "pick" /\ h \in Nat /\ num_mem_ranges \in Nat
  BY DEF IInv, SortNextGap, TypeOK
<1>2. Array' = Array
  BY DEF Array, SortNextGap
<1>3. DataInv' /\ CountInv'
  BY <1>2, DataSame, CountSame DEF IInv, SortNextGap
<1>4. h >= 1 /\ num_mem_ranges >= 2
  BY <1>1 DEF PlanInv
<1>5. /\ h' \in Nat /\ i' = h' /\ pc' = (IF h' = 0 THEN "sorted" ELSE "pick")
      /\ h' = 0 => h = 1
  BY <1>1, <1>4 DEF SortNextGap, TypeOK
<1>6. TypeOK'
  BY <1>1, <1>5 DEF SortNextGap, TypeOK, StageOneMap, LiveRanges, Phases
<1>7. PlanInv'
  BY <1>1, <1>4, <1>5 DEF SortNextGap, PlanInv, EntriesFor, Space, Eligible, Early
<1>8. OrderInv'
  <2>1. CASE h' = 0
    <3>1. h = 1 /\ i >= num_mem_ranges /\ pc' = "sorted"
      BY <1>5, <2>1 DEF SortNextGap
    <3>2. i = num_mem_ranges /\ Ordered(mem_ranges, i)
      BY <1>1, <3>1 DEF IInv, OrderInv
    <3>3. Ordered(mem_ranges, num_mem_ranges)'
      BY <3>2 DEF SortNextGap, Ordered
    <3> QED  BY <3>1, <3>3, OrderedInOrder DEF OrderInv, Ordered, InOrder
  <2>2. CASE h' # 0
    <3>1. pc' = "pick" /\ (h' = 1 => i' = 1 /\ i' \in 1 .. num_mem_ranges')
      BY <1>1, <1>4, <1>5, <2>2 DEF SortNextGap
    <3>2. i' = 1 => Ordered(mem_ranges, i)'
      BY DEF Ordered
    <3> QED  BY <3>1, <3>2 DEF OrderInv
  <2> QED  BY <2>1, <2>2
<1>9. CopyInv' /\ ScanInv' /\ BelowLimit'
  BY <1>5 DEF IInv, SortNextGap, CopyInv, ScanInv, BelowLimit
<1> QED  BY <1>3, <1>6, <1>7, <1>8, <1>9 DEF IInv

(***************************************************************************)
(* Taking an entry out, moving others up, putting it in: the array with    *)
(* its hole filled stays, or has two entries exchanged.                    *)
(***************************************************************************)
LEMMA SortPickStep == ASSUME IInv, SortPick PROVE IInv'
<1> USE DEF mapVars, findVars
<1>1. /\ TypeOK /\ PlanInv /\ pc = "pick" /\ pc' = "shift"
      /\ i \in Nat /\ i < num_mem_ranges /\ j' = i /\ v' = mem_ranges[i]
      /\ num_mem_ranges \in Nat /\ num_mem_ranges =< max_mem_ranges /\ max_mem_ranges \in Nat
      /\ mem_ranges \in [0 .. max_mem_ranges - 1 -> Ranges] /\ mem_ranges' = mem_ranges
      /\ UNCHANGED <<mapVars, num_mem_ranges, k, h, i, findVars, allocs>>
  BY DEF IInv, SortPick, TypeOK
<1>2. Array' = Array
  <2>1. [mem_ranges EXCEPT ![i] = mem_ranges[i]] = mem_ranges
    BY <1>1
  <2> QED  BY <1>1, <2>1 DEF Array
<1>3. DataInv' /\ CountInv'
  BY <1>1, <1>2, DataSame, CountSame DEF IInv
<1>4. v' \in Ranges
  BY <1>1
<1>5. TypeOK'
  BY <1>1, <1>4 DEF TypeOK, StageOneMap, LiveRanges, Phases
<1>6. PlanInv'
  BY <1>1 DEF PlanInv, EntriesFor, Space, Eligible, Early
<1>7. OrderInv'
  <2> SUFFICES ASSUME h' = 1
               PROVE  /\ \A a, b \in (0 .. i) \ {i} : a < b => mem_ranges[a].start =< mem_ranges[b].start
                      /\ \A b \in i + 1 .. i : v'.start =< mem_ranges[b].start
    BY <1>1 DEF OrderInv
  <2>1. Ordered(mem_ranges, i)
    BY <1>1 DEF IInv, OrderInv
  <2> QED  BY <1>1, <2>1 DEF Ordered
<1>8. CopyInv' /\ ScanInv' /\ BelowLimit'
  BY <1>1 DEF IInv, CopyInv, ScanInv, BelowLimit
<1> QED  BY <1>3, <1>5, <1>6, <1>7, <1>8 DEF IInv

LEMMA SortPlaceStep == ASSUME IInv, SortPlace PROVE IInv'
<1> USE DEF mapVars, findVars
<1>1. /\ TypeOK /\ PlanInv /\ pc = "shift" /\ pc' = "pick" /\ ~Shifts
      /\ i \in Nat /\ i < num_mem_ranges /\ j \in Nat /\ j =< i /\ v \in Ranges /\ h >= 1 /\ h \in Nat
      /\ num_mem_ranges \in Nat /\ num_mem_ranges =< max_mem_ranges /\ max_mem_ranges \in Nat
      /\ mem_ranges \in [0 .. max_mem_ranges - 1 -> Ranges]
      /\ mem_ranges' = [mem_ranges EXCEPT ![j] = v] /\ i' = i + 1
      /\ UNCHANGED <<mapVars, num_mem_ranges, k, h, j, v, findVars, allocs>>
  BY DEF IInv, SortPlace, TypeOK, PlanInv
<1>2. Array' = Array
  BY <1>1 DEF Array
<1>3. DataInv' /\ CountInv'
  BY <1>1, <1>2, DataSame, CountSame DEF IInv
<1>4. mem_ranges' \in [0 .. max_mem_ranges - 1 -> Ranges]
  BY <1>1
<1>5. TypeOK'
  BY <1>1, <1>4 DEF TypeOK, StageOneMap, LiveRanges, Phases
<1>6. PlanInv'
  BY <1>1 DEF PlanInv, EntriesFor, Space, Eligible, Early
<1>7. OrderInv'
  <2> SUFFICES ASSUME h = 1
               PROVE  i' \in 1 .. num_mem_ranges /\ Ordered(mem_ranges', i')
    BY <1>1 DEF OrderInv, Ordered
  <2>1. /\ \A a, b \in (0 .. i) \ {j} : a < b => mem_ranges[a].start =< mem_ranges[b].start
        /\ \A b \in j + 1 .. i : v.start =< mem_ranges[b].start
    BY <1>1 DEF IInv, OrderInv
  <2>2. \A a \in 0 .. i : mem_ranges[a] \in Ranges
    BY <1>1
  <2>3. \A a \in 0 .. i : mem_ranges[a].start \in Nat
    BY <2>2, RangeType
  <2>4. v.start \in Nat
    BY <1>1, RangeType
  <2>5. \A a \in 0 .. j - 1 : mem_ranges[a].start =< v.start
    <3> SUFFICES ASSUME NEW a \in 0 .. j - 1 PROVE mem_ranges[a].start =< v.start
      OBVIOUS
    <3>1. mem_ranges[j - 1].start =< v.start
      BY <1>1, <2>3, <2>4 DEF Shifts
    <3>2. a = j - 1 \/ mem_ranges[a].start =< mem_ranges[j - 1].start
      BY <1>1, <2>1
    <3> QED  BY <1>1, <2>3, <2>4, <3>1, <3>2
  <2>6. ASSUME NEW a \in 0 .. i, NEW b \in 0 .. i, a < b
        PROVE  mem_ranges'[a].start =< mem_ranges'[b].start
    <3>1. CASE a = j
      <4>1. mem_ranges'[a] = v /\ mem_ranges'[b] = mem_ranges[b]
        BY <1>1, <3>1, <2>6
      <4> QED  BY <1>1, <2>1, <2>6, <3>1, <4>1
    <3>2. CASE b = j
      <4>1. mem_ranges'[b] = v /\ mem_ranges'[a] = mem_ranges[a]
        BY <1>1, <3>2, <2>6
      <4> QED  BY <1>1, <2>5, <2>6, <3>2, <4>1
    <3>3. CASE a # j /\ b # j
      <4>1. mem_ranges'[b] = mem_ranges[b] /\ mem_ranges'[a] = mem_ranges[a]
        BY <1>1, <3>3
      <4> QED  BY <1>1, <2>1, <2>6, <3>3, <4>1
    <3> QED  BY <3>1, <3>2, <3>3
  <2> QED  BY <1>1, <2>6 DEF Ordered
<1>8. CopyInv' /\ ScanInv' /\ BelowLimit'
  BY <1>1 DEF IInv, CopyInv, ScanInv, BelowLimit
<1> QED  BY <1>3, <1>5, <1>6, <1>7, <1>8 DEF IInv

LEMMA SortShiftStep == ASSUME IInv, SortShift PROVE IInv'
<1> USE DEF mapVars, findVars
<1>1. /\ TypeOK /\ PlanInv /\ pc = "shift" /\ pc' = "shift" /\ Shifts
      /\ i \in Nat /\ i < num_mem_ranges /\ j \in Nat /\ j =< i /\ v \in Ranges /\ h >= 1 /\ h \in Nat
      /\ num_mem_ranges \in Nat /\ num_mem_ranges =< max_mem_ranges /\ max_mem_ranges \in Nat
      /\ mem_ranges \in [0 .. max_mem_ranges - 1 -> Ranges]
      /\ mem_ranges' = [mem_ranges EXCEPT ![j] = mem_ranges[j - h]] /\ j' = j - h
      /\ UNCHANGED <<mapVars, num_mem_ranges, k, h, i, v, findVars, allocs>>
  BY DEF IInv, SortShift, TypeOK, PlanInv
<1>2. j' \in 0 .. j - 1 /\ mem_ranges[j'].start > v.start
  BY <1>1 DEF Shifts
<1>3. mem_ranges' \in [0 .. max_mem_ranges - 1 -> Ranges]
  BY <1>1, <1>2
<1> DEFINE n == num_mem_ranges
           A == Array
           x == j
           y == j - h
<1>4. /\ A \in [0 .. max_mem_ranges - 1 -> Ranges] /\ Array' \in [0 .. max_mem_ranges - 1 -> Ranges]
      /\ x \in 0 .. n - 1 /\ y \in 0 .. n - 1 /\ n \in Nat /\ n =< max_mem_ranges
      /\ Array'[x] = A[y] /\ Array'[y] = A[x]
      /\ \A m \in (0 .. n - 1) \ {x, y} : Array'[m] = A[m]
  BY <1>1, <1>2, <1>3 DEF Array
<1>5. TypeOK'
  BY <1>1, <1>2, <1>3 DEF TypeOK, StageOneMap, LiveRanges, Phases
<1>6. PlanInv'
  BY <1>1, <1>2 DEF PlanInv, EntriesFor, Space, Eligible, Early
<1>7. OrderInv'
  <2> SUFFICES ASSUME h = 1
               PROVE  /\ \A a, b \in (0 .. i) \ {j'} : a < b => mem_ranges'[a].start =< mem_ranges'[b].start
                      /\ \A b \in j' + 1 .. i : v.start =< mem_ranges'[b].start
    BY <1>1 DEF OrderInv
  <2>1. /\ \A a, b \in (0 .. i) \ {j} : a < b => mem_ranges[a].start =< mem_ranges[b].start
        /\ \A b \in j + 1 .. i : v.start =< mem_ranges[b].start
    BY <1>1 DEF IInv, OrderInv
  <2>2. \A a \in 0 .. i : mem_ranges[a] \in Ranges
    BY <1>1
  <2>3. \A a \in 0 .. i : mem_ranges[a].start \in Nat
    BY <2>2, RangeType
  <2>4. v.start \in Nat
    BY <1>1, RangeType
  <2>5. j' = j - 1 /\ mem_ranges'[j] = mem_ranges[j - 1]
    BY <1>1, <1>2
  <2>6. \A a \in (0 .. i) \ {j} : mem_ranges'[a] = mem_ranges[a]
    BY <1>1
  <2>7. ASSUME NEW a \in (0 .. i) \ {j - 1}, NEW b \in (0 .. i) \ {j - 1}, a < b
        PROVE  mem_ranges'[a].start =< mem_ranges'[b].start
    BY <1>1, <1>2, <2>1, <2>5, <2>6, <2>7
  <2>8. ASSUME NEW b \in j .. i PROVE v.start =< mem_ranges'[b].start
    BY <1>1, <1>2, <2>1, <2>3, <2>4, <2>5, <2>6
  <2> QED  BY <1>1, <2>5, <2>7, <2>8
<1>8. CopyInv' /\ ScanInv' /\ BelowLimit'
  BY <1>1 DEF IInv, CopyInv, ScanInv, BelowLimit
<1> DEFINE B == Array'
<1>41. /\ x \in 0 .. n - 1 /\ y \in 0 .. n - 1 /\ n \in Nat
      /\ B[x] = A[y] /\ B[y] = A[x]
      /\ \A m \in (0 .. n - 1) \ {x, y} : B[m] = A[m]
  BY <1>4
<1> HIDE DEF A, n, x, y, B
<1>42. ASSUME NEW r
      PROVE  /\ Cardinality(Equals(B, n, r)) = Cardinality(Equals(A, n, r))
             /\ Cardinality(Holds(B, n, r)) = Cardinality(Holds(A, n, r))
  BY <1>41, SwapCounts
<1>9. CountInv'
  <2>1. MapArea' = MapArea /\ Rest' = Rest
    BY <1>1 DEF MapArea, Rest, Space
  <2>2. ASSUME NEW r PROVE ExpectedOf(k - 1, r)' = ExpectedOf(k - 1, r)
    BY <1>1, <2>1 DEF ExpectedOf, OthersEqual
  <2>3. ASSUME NEW r \in Ranges
        PROVE  Cardinality(Equals(Array', n, r)) = Cardinality(Equals(A, n, r))
    BY <1>42 DEF B
  <2> QED  BY <1>1, <2>2, <2>3 DEF IInv, CountInv, A, n
<1>10. TileInv'
  <2>1. ASSUME NEW r \in Nat
        PROVE  Cardinality(Holds(Array', n, r)) = Cardinality(Holds(A, n, r))
    BY <1>42 DEF B
  <2> QED  BY <1>1, <2>1 DEF IInv, DataInv, TileInv, A, n, ReportedWith
<1>11. \A m \in 0 .. n - 1 : \E o \in 0 .. n - 1 : Array'[m] = A[o]
  BY <1>4
<1>12. ShapeInv'
  <2>1. Shape(A, n)
    BY DEF IInv, DataInv, ShapeInv, A, n
  <2>2. ASSUME NEW a \in 0 .. n - 1, NEW b \in 0 .. n - 1, a # b
        PROVE  Apart(Array'[a], Array'[b])
    <3> DEFINE f(m) == IF m = x THEN y ELSE IF m = y THEN x ELSE m
    <3>1. /\ f(a) \in 0 .. n - 1 /\ f(b) \in 0 .. n - 1 /\ f(a) # f(b)
          /\ Array'[a] = A[f(a)] /\ Array'[b] = A[f(b)]
      BY <1>4, <2>2
    <3> QED  BY <2>1, <3>1, Zenon DEF Shape
  <2>3. \A a \in 0 .. n - 1 : Sound(Array'[a])
    BY <1>11, <2>1, Zenon DEF Shape
  <2> QED  BY <1>1, <2>2, <2>3 DEF ShapeInv, Shape, n
<1>13. FreeInv'
  <2>1. MapArea' = MapArea
    BY <1>1 DEF MapArea, Space
  <2>2. \A r : InRam(r)' <=> InRam(r)
    BY <1>1 DEF InRam
  <2> QED  BY <1>1, <1>11, <2>1, <2>2 DEF IInv, DataInv, FreeInv, LiveRanges, n, A
<1>14. BlockInv'
  BY <1>1 DEF BlockInv, PlanInv, Early
<1> QED  BY <1>5, <1>6, <1>7, <1>8, <1>9, <1>10, <1>12, <1>13, <1>14 DEF IInv, DataInv

-----------------------------------------------------------------------------
\* There is room for an entry for each parameter and one more.
LEMMA EntriesEnough ==
    ASSUME NEW m, Len(m) \in Nat
    PROVE  EntriesFor(m) \in Nat /\ EntriesFor(m) >= Len(m) + 1
<1> DEFINE x == 3 * (1 + Len(m)) + 1
<1>1. x \in Nat
  OBVIOUS
<1>2. x \div 2 \in Nat /\ x \div 2 >= Len(m) + 1
  BY <1>1
<1> QED  BY <1>2, MapAssumption DEF EntriesFor

\* What stage 1 reports.
LEMMA MapApart ==
    ASSUME NEW m, StageOneMap(m)
    PROVE  /\ m \in Seq(Ranges) /\ Len(m) \in Nat /\ Len(m) >= 1 /\ DOMAIN m = 1 .. Len(m)
           /\ \A a \in 1 .. Len(m) :
                /\ m[a] \in Ranges /\ Sound(m[a])
                /\ \A b \in 1 .. Len(m) : a # b => Apart(m[a], m[b])
<1>1. m \in Seq(Ranges) /\ Len(m) \in Nat /\ Len(m) >= 1 /\ DOMAIN m = 1 .. Len(m)
  BY DEF StageOneMap
<1>2. ASSUME NEW a \in 1 .. Len(m)
      PROVE  m[a] \in Ranges /\ Sound(m[a])
  BY <1>1 DEF StageOneMap, Sound
<1>3. ASSUME NEW a \in 1 .. Len(m), NEW b \in 1 .. Len(m), a # b
      PROVE  Apart(m[a], m[b])
  <2>1. CASE Disjoint(m[a], m[b])
    BY <2>1 DEF Apart
  <2>2. CASE ~Disjoint(m[a], m[b])
    <3>1. m[a].start < BmemMax /\ (m[a].type # "RAM" \/ m[b].type # "RAM")
      BY <1>1, <1>3, <2>2, Zenon DEF StageOneMap
    <3>2. ~Disjoint(m[b], m[a])
      BY <2>2 DEF Disjoint
    <3>3. m[b].start < BmemMax
      BY <1>1, <1>3, <3>2, Zenon DEF StageOneMap
    <3> QED  BY <3>1, <3>3, Zenon DEF Apart
  <2> QED  BY <2>1, <2>2
<1> QED  BY <1>1, <1>2, <1>3

\* The chosen range is RAM; what is left of it and the array's place make it up.
LEMMA ChosenParts ==
    ASSUME TypeOK, PlanInv, chosen # 0
    PROVE  /\ chosen \in 1 .. Len(bparms) /\ bparms[chosen] \in Ranges
           /\ bparms[chosen].type = "RAM"
           /\ Rest \in Ranges /\ MapArea \in Ranges
           /\ Rest.type = "RAM" /\ MapArea.type # "RAM"
           /\ Rest.start = bparms[chosen].start /\ EndOf(Rest) = MapArea.start
           /\ EndOf(MapArea) = EndOf(bparms[chosen])
           /\ MapArea.len \in Nat \ {0} /\ Rest.len = bparms[chosen].len - Space
           /\ Rest.len \in Nat
<1> DEFINE c == bparms[chosen]
<1>1. Len(bparms) \in Nat /\ chosen \in 1 .. Len(bparms) /\ c \in Ranges
  BY MapApart DEF TypeOK
<1>2. max_mem_ranges \in Nat \ {0}
  BY <1>1, EntriesEnough DEF PlanInv
<1>3. Space \in Nat \ {0}
  <2>1. 1 * EntrySize =< max_mem_ranges * EntrySize /\ max_mem_ranges * EntrySize \in Int
    BY <1>2, MapAssumption, MulMonotone
  <2> QED  BY <2>1, MapAssumption DEF Space
<1>4. c.type = "RAM" /\ c.len >= Space
  BY DEF PlanInv, Eligible
<1>5. c.start \in Nat /\ c.len \in Nat /\ c.attr \in Attrs /\ EndOf(c) = c.start + c.len
  BY <1>1, RangeType
<1>6. /\ Rest \in Ranges /\ Rest.type = c.type /\ Rest.start = c.start
      /\ Rest.len = c.len - Space
  <2>1. c.len - Space \in Nat
    BY <1>3, <1>4, <1>5
  <2> QED  BY <1>1, <2>1 DEF Rest, Ranges
<1>7. MapArea = [start |-> EndOf(c) - Space, len |-> Space, type |-> "RESERVED", attr |-> c.attr]
  BY Zenon DEF MapArea
<1> HIDE DEF c
<1>8. Rest \in Ranges /\ Rest.type = "RAM" /\ Rest.start = c.start /\ Rest.len = c.len - Space
  BY <1>4, <1>6
<1>9. /\ MapArea \in Ranges /\ MapArea.type # "RAM" /\ MapArea.start = EndOf(c) - Space
      /\ MapArea.len = Space
  BY <1>3, <1>4, <1>5, <1>7 DEF Ranges, Types
<1>10. EndOf(Rest) = MapArea.start /\ EndOf(MapArea) = EndOf(c)
  BY <1>3, <1>5, <1>8, <1>9 DEF EndOf
<1> QED  BY <1>1, <1>3, <1>4, <1>5, <1>8, <1>9, <1>10 DEF c

LEMMA ChooseSpaceStep == ASSUME IInv, ChooseSpace PROVE IInv'
<1> USE DEF findVars, sortVars
<1>1. /\ TypeOK /\ PlanInv /\ pc = "size" /\ pc' \in {"copy", "halted"}
      /\ chosen = 0 /\ num_mem_ranges = 0 /\ k = 1 /\ allocs = {}
      /\ max_mem_ranges' = EntriesFor(bparms)
      /\ mem_ranges' = [n \in 0 .. max_mem_ranges' - 1 |-> NoRange]
      /\ UNCHANGED <<bparms, num_mem_ranges, k, h, i, j, v, req, left, right, allocs>>
  BY DEF IInv, ChooseSpace, PlanInv
<1>2. /\ Len(bparms) \in Nat /\ max_mem_ranges' \in Nat
      /\ StageOneMap(bparms) /\ StageOneMap(bparms)'
  BY <1>1, MapApart, EntriesEnough DEF TypeOK, StageOneMap
<1>3. \/ pc' = "halted" /\ chosen' = 0
      \/ /\ pc' = "copy" /\ chosen' \in 1 .. Len(bparms)
         /\ Eligible(bparms[chosen'], max_mem_ranges' * EntrySize)
  BY <1>1 DEF ChooseSpace
<1>4. mem_ranges' \in [0 .. max_mem_ranges' - 1 -> Ranges]
  BY <1>1 DEF NoRange, Ranges, Types, Attrs
<1>5. TypeOK'
  BY <1>1, <1>2, <1>3, <1>4 DEF TypeOK, Phases, LiveRanges
<1>6. PlanInv'
  BY <1>1, <1>2, <1>3 DEF PlanInv, Space, Early, Eligible, EntriesFor
<1>7. OrderInv' /\ CopyInv' /\ ScanInv' /\ BelowLimit'
  BY <1>1 DEF OrderInv, CopyInv, ScanInv, BelowLimit, LiveRanges
<1>8. ShapeInv' /\ FreeInv' /\ BlockInv'
  BY <1>1 DEF ShapeInv, Shape, FreeInv, BlockInv, LiveRanges
<1>9. TileInv'
  <2> SUFFICES ASSUME NEW a \in Nat
               PROVE  Holds(Array, num_mem_ranges, a)' = {} /\ ReportedWith(k - 1, a)' = {}
    BY DEF TileInv
  <2> QED  BY <1>1 DEF Holds, ReportedWith
<1>10. CountInv'
  <2> SUFFICES ASSUME NEW r \in Ranges, pc' = "copy"
               PROVE  Cardinality(Equals(Array, num_mem_ranges, r)') = ExpectedOf(k - 1, r)'
    BY <1>1 DEF CountInv
  <2>1. Equals(Array, num_mem_ranges, r)' = {} /\ OthersEqual(k - 1, r)' = {}
    BY <1>1 DEF Equals, OthersEqual
  <2>2. ~(chosen' =< (k - 1)')
    BY <1>1, <1>3
  <2> QED  BY <2>1, <2>2, FS_EmptySet DEF ExpectedOf
<1> QED  BY <1>5, <1>6, <1>7, <1>8, <1>9, <1>10 DEF IInv, DataInv

\* B is A with one more entry, r, after the first n.
Extends(A, B, M, n, r) ==
    /\ B \in [0 .. M - 1 -> Ranges] /\ B[n] = r
    /\ \A m \in 0 .. n - 1 : B[m] = A[m]
    /\ \A q : Cardinality(Equals(B, n + 1, q))
                 = Cardinality(Equals(A, n, q)) + (IF r = q THEN 1 ELSE 0)
    /\ \A a : Cardinality(Holds(B, n + 1, a))
                 = Cardinality(Holds(A, n, a)) + (IF Covers(r, a) THEN 1 ELSE 0)

LEMMA Appended ==
    ASSUME NEW M \in Nat, NEW n \in 0 .. M - 1, NEW A \in [0 .. M - 1 -> Ranges],
           NEW r \in Ranges, NEW B, B = [A EXCEPT ![n] = r]
    PROVE  Extends(A, B, M, n, r)
<1>1. /\ B \in [0 .. M - 1 -> Ranges] /\ B[n] = r
      /\ \A m \in 0 .. n - 1 : B[m] = A[m]
  OBVIOUS
<1>2. ASSUME NEW q
      PROVE  Cardinality(Equals(B, n + 1, q)) = Cardinality(Equals(A, n, q)) + (IF r = q THEN 1 ELSE 0)
  <2> DEFINE S == Equals(A, n, q)
             T == Equals(B, n + 1, q)
  <2>1. IsFiniteSet(S)
    BY CountsFinite
  <2>2. n \notin S /\ (T = S \/ T = S \cup {n}) /\ (n \in T <=> r = q)
    BY <1>1 DEF Equals
  <2> HIDE DEF S, T
  <2>3. Cardinality(T) = Cardinality(S) + (IF n \in T THEN 1 ELSE 0)
    BY <2>1, <2>2, OneMore
  <2> QED  BY <2>2, <2>3 DEF S, T
<1>3. ASSUME NEW a
      PROVE  Cardinality(Holds(B, n + 1, a))
                = Cardinality(Holds(A, n, a)) + (IF Covers(r, a) THEN 1 ELSE 0)
  <2> DEFINE S == Holds(A, n, a)
             T == Holds(B, n + 1, a)
  <2>1. IsFiniteSet(S)
    BY CountsFinite
  <2>2. n \notin S /\ (T = S \/ T = S \cup {n}) /\ (n \in T <=> Covers(r, a))
    BY <1>1 DEF Holds
  <2> HIDE DEF S, T
  <2>3. Cardinality(T) = Cardinality(S) + (IF n \in T THEN 1 ELSE 0)
    BY <2>1, <2>2, OneMore
  <2> QED  BY <2>2, <2>3 DEF S, T
<1> QED  BY <1>1, <1>2, <1>3 DEF Extends

\* The parameters up to number n and those up to the one before.
LEMMA ReportedGrows ==
    ASSUME NEW n \in Nat \ {0}, NEW a
    PROVE  Cardinality(ReportedWith(n, a))
              = Cardinality(ReportedWith(n - 1, a)) + (IF Covers(bparms[n], a) THEN 1 ELSE 0)
<1> DEFINE S == ReportedWith(n - 1, a)
           T == ReportedWith(n, a)
<1>1. IsFiniteSet(S)
  <2>1. n - 1 \in Nat
    OBVIOUS
  <2> QED  BY <2>1, CountsFinite
<1>2. n \notin S /\ (T = S \/ T = S \cup {n}) /\ (n \in T <=> Covers(bparms[n], a))
  BY DEF ReportedWith
<1> HIDE DEF S, T
<1>3. Cardinality(T) = Cardinality(S) + (IF n \in T THEN 1 ELSE 0)
  BY <1>1, <1>2, OneMore
<1> QED  BY <1>2, <1>3 DEF S, T

LEMMA ExpectedGrows ==
    ASSUME TypeOK, chosen # 0, NEW n \in Nat \ {0}, NEW r
    PROVE  ExpectedOf(n, r) =
              ExpectedOf(n - 1, r) +
                (IF n # chosen THEN (IF bparms[n] = r THEN 1 ELSE 0)
                 ELSE (IF Rest.len # 0 /\ r = Rest THEN 1 ELSE 0) + (IF r = MapArea THEN 1 ELSE 0))
<1> DEFINE S == OthersEqual(n - 1, r)
           T == OthersEqual(n, r)
<1>1. chosen \in Nat
  BY MapApart DEF TypeOK
<1>2. IsFiniteSet(S) /\ Cardinality(S) \in Nat
  <2>1. n - 1 \in Nat
    OBVIOUS
  <2> QED  BY <2>1, CountsFinite, FS_CardinalityType
<1>3. n \notin S /\ (T = S \/ T = S \cup {n}) /\ (n \in T <=> n # chosen /\ bparms[n] = r)
  BY DEF OthersEqual
<1> HIDE DEF S, T
<1>4. Cardinality(T) = Cardinality(S) + (IF n \in T THEN 1 ELSE 0)
  BY <1>2, <1>3, OneMore
<1>5. CASE n # chosen
  <2>1. chosen =< n <=> chosen =< n - 1
    BY <1>1, <1>5
  <2>2. Cardinality(T) = Cardinality(S) + (IF bparms[n] = r THEN 1 ELSE 0)
    BY <1>3, <1>4, <1>5
  <2> QED  BY <1>2, <1>5, <2>1, <2>2 DEF ExpectedOf, S, T
<1>6. CASE n = chosen
  <2>1. chosen =< n /\ ~(chosen =< n - 1)
    BY <1>1, <1>6
  <2>2. Cardinality(T) = Cardinality(S)
    BY <1>2, <1>3, <1>4, <1>6
  <2> QED  BY <1>2, <1>6, <2>1, <2>2 DEF ExpectedOf, S, T
<1> QED  BY <1>5, <1>6

\* Entries that are related as a map's stay so with one that is apart.
LEMMA ShapeGrows ==
    ASSUME NEW A, NEW n \in Nat, NEW B, \A m \in 0 .. n - 1 : B[m] = A[m],
           Shape(A, n), Sound(B[n]), \A m \in 0 .. n - 1 : Apart(A[m], B[n])
    PROVE  Shape(B, n + 1)
<1>1. \A m \in 0 .. n : m = n \/ m \in 0 .. n - 1
  OBVIOUS
<1>2. \A m \in 0 .. n - 1 : Apart(B[n], A[m])
  BY DEF Apart, Disjoint
<1>3. \A m \in 0 .. n : Sound(B[m])
  BY <1>1, Zenon DEF Shape
<1>4. ASSUME NEW a \in 0 .. n, NEW b \in 0 .. n, a # b
      PROVE  Apart(B[a], B[b])
  <2>1. CASE a = n
    BY <1>1, <1>2, <1>4, <2>1, Zenon
  <2>2. CASE b = n
    BY <1>1, <1>4, <2>2, Zenon
  <2>3. CASE a # n /\ b # n
    BY <1>1, <1>4, <2>3, Zenon DEF Shape
  <2> QED  BY <2>1, <2>2, <2>3
<1>5. (n + 1) - 1 = n
  OBVIOUS
<1> QED  BY <1>3, <1>4, <1>5, Zenon DEF Shape

LEMMA CopyRangeStep == ASSUME IInv, CopyRange PROVE IInv'
<1> USE DEF mapVars, sortVars, findVars
<1> DEFINE n == num_mem_ranges
           M == max_mem_ranges
           A == mem_ranges
           B == mem_ranges'
           r == bparms[k]
           n2 == num_mem_ranges'
<1>01. TypeOK /\ PlanInv /\ pc = "copy" /\ k =< Len(bparms) /\ StageOneMap(bparms)
  BY DEF IInv, CopyRange, TypeOK
<1>02. Len(bparms) \in Nat /\ chosen # 0
  BY <1>01, MapApart DEF PlanInv
<1>03. M >= Len(bparms) + 1
  BY <1>01, <1>02, EntriesEnough DEF PlanInv
<1>1. /\ TypeOK /\ PlanInv /\ pc = "copy" /\ k =< Len(bparms) /\ k' = k + 1 /\ pc' = "copy"
      /\ StageOneMap(bparms) /\ Len(bparms) \in Nat /\ k \in Nat \ {0} /\ chosen \in Nat /\ chosen # 0
      /\ n \in Nat /\ M \in Nat /\ A \in [0 .. M - 1 -> Ranges] /\ allocs = {}
      /\ k - 1 =< n /\ n =< k - 1 + (IF chosen < k THEN 1 ELSE 0) /\ M >= Len(bparms) + 1
      /\ UNCHANGED <<bparms, chosen, max_mem_ranges, h, i, j, v, req, left, right, allocs>>
  <2>1. k' = k + 1 /\ pc' = pc
        /\ UNCHANGED <<bparms, chosen, max_mem_ranges, h, i, j, v, req, left, right, allocs>>
    BY DEF CopyRange
  <2>2. /\ k \in Nat \ {0} /\ chosen \in Nat /\ n \in Nat /\ M \in Nat
        /\ A \in [0 .. M - 1 -> Ranges]
    BY <1>01, <1>02 DEF TypeOK
  <2>3. allocs = {} /\ k - 1 =< n /\ n =< k - 1 + (IF chosen < k THEN 1 ELSE 0)
    BY <1>01 DEF PlanInv, Early
  <2> QED  BY <1>01, <1>02, <1>03, <2>1, <2>2, <2>3
<1>2. /\ \A a \in 1 .. Len(bparms) :
           /\ bparms[a] \in Ranges /\ Sound(bparms[a])
           /\ \A b \in 1 .. Len(bparms) : a # b => Apart(bparms[a], bparms[b])
      /\ r \in Ranges /\ Sound(r) /\ k \in 1 .. Len(bparms)
  BY <1>1, MapApart
<1>3. Array = A /\ Array' = B
  BY <1>1 DEF Array
<1>4. Shape(A, n)
  BY <1>3 DEF IInv, DataInv, ShapeInv
<1>5. MapArea' = MapArea /\ Rest' = Rest /\ (\A s : InRam(s)' <=> InRam(s))
  BY <1>1 DEF MapArea, Rest, Space, InRam
<1>6. ASSUME NEW p \in Ranges, Sound(p), Within(p, r), p.type = "RAM" => r.type = "RAM",
             NEW m \in 0 .. n - 1
      PROVE  Apart(A[m], p)
  <2>1. PICK a \in 1 .. k - 1 : /\ Within(A[m], bparms[a])
                                /\ A[m].type = "RAM" => bparms[a].type = "RAM"
    BY <1>1 DEF IInv, CopyInv, LiveRanges
  <2>2. a \in 1 .. Len(bparms) /\ a # k
    BY <1>1
  <2>3. Apart(bparms[a], r) /\ Sound(bparms[a]) /\ bparms[a] \in Ranges
    BY <1>2, <2>2
  <2>4. A[m] \in Ranges /\ Sound(A[m])
    BY <1>1, <1>4 DEF Shape, TypeOK
  <2> QED  BY <1>2, <1>6, <2>1, <2>3, <2>4, PartsApart
<1>7. chosen # k /\ r.type = "RAM" => Disjoint(r, MapArea)
  <2> SUFFICES ASSUME chosen # k, r.type = "RAM" PROVE Disjoint(r, MapArea)
    OBVIOUS
  <2>1. /\ chosen \in 1 .. Len(bparms) /\ bparms[chosen].type = "RAM" /\ bparms[chosen] \in Ranges
        /\ MapArea \in Ranges /\ EndOf(MapArea) = EndOf(bparms[chosen])
        /\ MapArea.start = EndOf(Rest) /\ Rest \in Ranges /\ Rest.start = bparms[chosen].start
    BY <1>1, ChosenParts
  <2>2. Disjoint(r, bparms[chosen])
    BY <1>2, <2>1, Zenon DEF Apart
  <2>3. /\ r.start \in Nat /\ EndOf(r) \in Nat /\ bparms[chosen].start \in Nat
        /\ EndOf(bparms[chosen]) \in Nat /\ Rest.start \in Nat /\ Rest.len \in Nat
        /\ EndOf(Rest) = Rest.start + Rest.len
    BY <1>2, <2>1, RangeType
  <2> QED  BY <2>1, <2>2, <2>3 DEF Disjoint
<1> DEFINE
      Source(p) == Within(p, r) /\ (p.type = "RAM" => r.type = "RAM")
      Good(p) == p.type = "RAM" => InRam(p) /\ Disjoint(p, MapArea)
      NewEntries == \A m \in n .. n2 - 1 : Source(B[m]) /\ Good(B[m])
      OldEntries == \A m \in 0 .. n - 1 : B[m] = A[m]
      Added(q) ==
        IF k # chosen THEN (IF r = q THEN 1 ELSE 0)
        ELSE (IF Rest.len # 0 /\ q = Rest THEN 1 ELSE 0) + (IF q = MapArea THEN 1 ELSE 0)
      Counts == /\ \A q : Cardinality(Equals(B, n2, q))
                            = Cardinality(Equals(A, n, q)) + Added(q)
                /\ \A a \in Nat : Cardinality(Holds(B, n2, a))
                            = Cardinality(Holds(A, n, a)) + (IF Covers(r, a) THEN 1 ELSE 0)
      Copied == /\ B \in [0 .. M - 1 -> Ranges] /\ OldEntries /\ NewEntries /\ Counts
                /\ Shape(B, n2)
                /\ n2 \in n + 1 .. n + (IF k = chosen THEN 2 ELSE 1)
<1>71. CopyRange =>
         IF k # chosen THEN B = [A EXCEPT ![n] = r] /\ n2 = n + 1
         ELSE IF Rest.len = 0 THEN B = [A EXCEPT ![n] = MapArea] /\ n2 = n + 1
         ELSE B = [A EXCEPT ![n] = Rest, ![n + 1] = MapArea] /\ n2 = n + 2
  BY <1>1, Zenon DEF CopyRange, Rest
<1>72. k = chosen => r = bparms[chosen]
  OBVIOUS
<1>73. \A p : bparms[k].type = "RAM" /\ Within(p, r) => InRam(p)
  BY <1>2 DEF InRam
<1> HIDE DEF n, M, A, B, r, n2, Source, Good, NewEntries, OldEntries, Counts, Copied, Added
<1>8. ASSUME k # chosen PROVE Copied
  <2>1. B = [A EXCEPT ![n] = r] /\ n2 = n + 1
    BY <1>8, <1>71
  <2>2. n \in 0 .. M - 1
    BY <1>1, <1>8
  <2>3. /\ B \in [0 .. M - 1 -> Ranges] /\ B[n] = r /\ (\A m \in 0 .. n - 1 : B[m] = A[m])
        /\ \A q : Cardinality(Equals(B, n + 1, q))
                        = Cardinality(Equals(A, n, q)) + (IF r = q THEN 1 ELSE 0)
        /\ \A a : Cardinality(Holds(B, n + 1, a))
                        = Cardinality(Holds(A, n, a)) + (IF Covers(r, a) THEN 1 ELSE 0)
    <3>1. M \in Nat /\ n \in 0 .. M - 1 /\ A \in [0 .. M - 1 -> Ranges] /\ r \in Ranges
      BY <1>1, <1>2, <2>2
    <3>2. Extends(A, B, M, n, r)
      BY <2>1, <3>1, Appended
    <3> QED  BY <3>2 DEF Extends
  <2>4. Within(r, r) /\ (r.type = "RAM" => InRam(r))
    BY <1>2, <1>73, RangeType DEF Within, r
  <2>5. Shape(B, n + 1)
    <3>1. \A m \in 0 .. n - 1 : Apart(A[m], B[n])
      BY <1>2, <1>6, <2>3, <2>4
    <3>2. Sound(B[n])
      BY <1>2, <2>3
    <3> QED  BY <1>1, <1>4, <2>3, <3>1, <3>2, ShapeGrows
  <2>6. NewEntries
    <3>1. \A m \in n .. n2 - 1 : m = n
      BY <1>1, <2>1
    <3>2. Source(r) /\ Good(r)
      BY <1>7, <1>8, <2>4 DEF Source, Good
    <3> QED  BY <2>3, <3>1, <3>2 DEF NewEntries
  <2>7. Counts
    BY <1>8, <2>1, <2>3 DEF Counts, Added
  <2>8. n2 \in n + 1 .. n + (IF k = chosen THEN 2 ELSE 1)
    BY <1>1, <1>8, <2>1
  <2> QED  BY <2>1, <2>3, <2>5, <2>6, <2>7, <2>8, Zenon DEF Copied, OldEntries
<1>9. ASSUME k = chosen PROVE Copied
  <2>1. /\ r.type = "RAM" /\ Rest \in Ranges /\ MapArea \in Ranges
        /\ Rest.type = "RAM" /\ MapArea.type # "RAM"
        /\ Rest.start = r.start /\ EndOf(Rest) = MapArea.start
        /\ EndOf(MapArea) = EndOf(r)
        /\ MapArea.len \in Nat \ {0} /\ Rest.len \in Nat
    BY <1>1, <1>72, <1>9, ChosenParts
  <2>2. /\ r.start \in Nat /\ r.len \in Nat /\ MapArea.start \in Nat
        /\ EndOf(r) = r.start + r.len /\ EndOf(Rest) = Rest.start + Rest.len
        /\ EndOf(MapArea) = MapArea.start + MapArea.len
    BY <1>2, <2>1, RangeType
  <2>3. /\ Within(Rest, r) /\ Within(MapArea, r) /\ Disjoint(Rest, MapArea)
        /\ Sound(MapArea) /\ (Rest.len # 0 => Sound(Rest))
    BY <1>2, <2>1, <2>2, MapAssumption DEF Within, Disjoint, Sound
  <2>4. ASSUME NEW a \in Nat
        PROVE  /\ Covers(r, a) <=> (Covers(Rest, a) \/ Covers(MapArea, a))
               /\ ~(Covers(Rest, a) /\ Covers(MapArea, a))
               /\ Rest.len = 0 => ~Covers(Rest, a)
    BY <2>1, <2>2 DEF Covers
  <2>5. n + 1 \in 0 .. M - 1 /\ n \in 0 .. M - 1
    BY <1>1, <1>9
  <2>6. \A m \in 0 .. n - 1 : Apart(A[m], MapArea)
    BY <1>6, <2>1, <2>3
  <2>7. Rest.len # 0 => \A m \in 0 .. n - 1 : Apart(A[m], Rest)
    BY <1>6, <2>1, <2>3
  <2>8. Source(Rest) /\ Good(Rest) /\ Source(MapArea) /\ Good(MapArea)
    BY <1>73, <2>1, <2>3 DEF Source, Good, r
  <2>9. \A q : Cardinality(Equals(A, n, q)) \in Nat /\ Cardinality(Holds(A, n, q)) \in Nat
    BY <1>1, CountsFinite, FS_CardinalityType
  <2>10. CASE Rest.len = 0
    <3>1. B = [A EXCEPT ![n] = MapArea] /\ n2 = n + 1
      BY <1>9, <1>71, <2>10
    <3>2. /\ B \in [0 .. M - 1 -> Ranges] /\ B[n] = MapArea
          /\ \A m \in 0 .. n - 1 : B[m] = A[m]
          /\ \A q : Cardinality(Equals(B, n + 1, q))
                        = Cardinality(Equals(A, n, q)) + (IF MapArea = q THEN 1 ELSE 0)
          /\ \A a : Cardinality(Holds(B, n + 1, a))
                        = Cardinality(Holds(A, n, a)) + (IF Covers(MapArea, a) THEN 1 ELSE 0)
      <4>1. M \in Nat /\ n \in 0 .. M - 1 /\ A \in [0 .. M - 1 -> Ranges] /\ MapArea \in Ranges
        BY <1>1, <2>1, <2>5
      <4>2. Extends(A, B, M, n, MapArea)
        BY <3>1, <4>1, Appended
      <4> QED  BY <4>2 DEF Extends
    <3>3. Shape(B, n + 1)
      <4>1. Sound(B[n]) /\ \A m \in 0 .. n - 1 : Apart(A[m], B[n])
        BY <2>3, <2>6, <3>2
      <4> QED  BY <1>1, <1>4, <3>2, <4>1, ShapeGrows
    <3>4. NewEntries
      <4>1. \A m \in n .. n2 - 1 : m = n
        BY <1>1, <3>1
      <4> QED  BY <2>8, <3>2, <4>1 DEF NewEntries
    <3>5. Counts
      <4>1. ASSUME NEW q
            PROVE  Cardinality(Equals(B, n + 1, q)) = Cardinality(Equals(A, n, q)) + Added(q)
        <5>1. Added(q) = IF MapArea = q THEN 1 ELSE 0
          BY <1>9, <2>10 DEF Added
        <5> QED  BY <3>2, <5>1
      <4>2. ASSUME NEW a \in Nat
            PROVE  Cardinality(Holds(B, n + 1, a))
                     = Cardinality(Holds(A, n, a)) + (IF Covers(r, a) THEN 1 ELSE 0)
        <5>1. Covers(r, a) <=> Covers(MapArea, a)
          BY <2>4, <2>10
        <5> QED  BY <3>2, <5>1
      <4> QED  BY <3>1, <4>1, <4>2 DEF Counts
    <3>6. n2 \in n + 1 .. n + (IF k = chosen THEN 2 ELSE 1)
      BY <1>1, <1>9, <3>1
    <3> QED  BY <3>1, <3>2, <3>3, <3>4, <3>5, <3>6, Zenon DEF Copied, OldEntries
  <2>11. CASE Rest.len # 0
    <3> DEFINE B1 == [A EXCEPT ![n] = Rest]
               n1 == n + 1
    <3>1. B = [A EXCEPT ![n] = Rest, ![n + 1] = MapArea] /\ n2 = n + 2
      BY <1>9, <1>71, <2>11
    <3>2. B = [B1 EXCEPT ![n1] = MapArea] /\ B1 = [A EXCEPT ![n] = Rest]
      BY <1>1, <3>1
    <3>3. n1 \in 0 .. M - 1 /\ n1 \in Nat /\ n2 = n1 + 1 /\ n1 - 1 = n
          /\ (\A m \in 0 .. n1 - 1 : m = n \/ m \in 0 .. n - 1)
          /\ (\A m \in n .. n2 - 1 : m = n \/ m = n1)
          /\ n \in 0 .. n1 - 1 /\ (\A m \in 0 .. n - 1 : m \in 0 .. n1 - 1)
      BY <1>1, <2>5, <3>1
    <3> HIDE DEF B1, n1
    <3>4. /\ B1 \in [0 .. M - 1 -> Ranges] /\ B1[n] = Rest
          /\ \A m \in 0 .. n - 1 : B1[m] = A[m]
          /\ \A q : Cardinality(Equals(B1, n + 1, q))
                        = Cardinality(Equals(A, n, q)) + (IF Rest = q THEN 1 ELSE 0)
          /\ \A a : Cardinality(Holds(B1, n + 1, a))
                        = Cardinality(Holds(A, n, a)) + (IF Covers(Rest, a) THEN 1 ELSE 0)
      <4>1. M \in Nat /\ n \in 0 .. M - 1 /\ A \in [0 .. M - 1 -> Ranges] /\ Rest \in Ranges
        BY <1>1, <2>1, <2>5
      <4>2. Extends(A, B1, M, n, Rest)
        BY <3>2, <4>1, Appended
      <4> QED  BY <4>2 DEF Extends
    <3>5. /\ B \in [0 .. M - 1 -> Ranges] /\ B[n1] = MapArea
          /\ \A m \in 0 .. n1 - 1 : B[m] = B1[m]
          /\ \A q : Cardinality(Equals(B, n1 + 1, q))
                        = Cardinality(Equals(B1, n1, q)) + (IF MapArea = q THEN 1 ELSE 0)
          /\ \A a : Cardinality(Holds(B, n1 + 1, a))
                        = Cardinality(Holds(B1, n1, a)) + (IF Covers(MapArea, a) THEN 1 ELSE 0)
      <4>1. M \in Nat /\ n1 \in 0 .. M - 1 /\ B1 \in [0 .. M - 1 -> Ranges] /\ MapArea \in Ranges
        BY <1>1, <2>1, <3>3, <3>4
      <4>2. Extends(B1, B, M, n1, MapArea)
        BY <3>2, <4>1, Appended
      <4> QED  BY <4>2 DEF Extends
    <3>6. Shape(B1, n1)
      <4>1. Sound(B1[n]) /\ \A m \in 0 .. n - 1 : Apart(A[m], B1[n])
        BY <2>3, <2>7, <2>11, <3>4
      <4> QED  BY <1>1, <1>4, <3>4, <4>1, ShapeGrows DEF n1
    <3>7. Shape(B, n2)
      <4>1. Sound(B[n1]) /\ \A m \in 0 .. n1 - 1 : Apart(B1[m], B[n1])
        BY <2>3, <2>6, <3>3, <3>4, <3>5, Zenon DEF Apart
      <4>2. Shape(B, n1 + 1)
        BY <3>3, <3>5, <3>6, <4>1, ShapeGrows
      <4> QED  BY <3>3, <4>2
    <3>8. B[n] = Rest /\ B[n1] = MapArea /\ \A m \in 0 .. n - 1 : B[m] = A[m]
      BY <3>3, <3>4, <3>5
    <3>9. NewEntries
      BY <2>8, <3>3, <3>8, Zenon DEF NewEntries
    <3>10. Counts
      <4>1. ASSUME NEW q
            PROVE  Cardinality(Equals(B, n2, q)) = Cardinality(Equals(A, n, q)) + Added(q)
        <5>1. Added(q) = (IF q = Rest THEN 1 ELSE 0) + (IF q = MapArea THEN 1 ELSE 0)
          BY <1>9, <2>11 DEF Added
        <5>2. Cardinality(Equals(B1, n1, q)) = Cardinality(Equals(A, n, q)) + (IF Rest = q THEN 1 ELSE 0)
          BY <3>4 DEF n1
        <5>3. Cardinality(Equals(B, n2, q))
                  = Cardinality(Equals(B1, n1, q)) + (IF MapArea = q THEN 1 ELSE 0)
          BY <3>3, <3>5
        <5> QED  BY <2>9, <5>1, <5>2, <5>3
      <4>2. ASSUME NEW a \in Nat
            PROVE  Cardinality(Holds(B, n2, a))
                     = Cardinality(Holds(A, n, a)) + (IF Covers(r, a) THEN 1 ELSE 0)
        <5>2. Cardinality(Holds(B1, n1, a)) = Cardinality(Holds(A, n, a)) + (IF Covers(Rest, a) THEN 1 ELSE 0)
          BY <3>4 DEF n1
        <5>3. Cardinality(Holds(B, n2, a))
                  = Cardinality(Holds(B1, n1, a)) + (IF Covers(MapArea, a) THEN 1 ELSE 0)
          BY <3>3, <3>5
        <5> QED  BY <2>4, <2>9, <5>2, <5>3
      <4> QED  BY <4>1, <4>2 DEF Counts
    <3>11. n2 \in n + 1 .. n + (IF k = chosen THEN 2 ELSE 1)
      BY <1>1, <1>9, <3>1
    <3> QED  BY <3>5, <3>7, <3>8, <3>9, <3>10, <3>11, Zenon DEF Copied, OldEntries
  <2> QED  BY <2>10, <2>11
<1>10. Copied
  BY <1>8, <1>9, Zenon
<1>11. n2 \in Nat /\ n2 =< M /\ k =< n2 /\ n2 =< k + (IF chosen < k + 1 THEN 1 ELSE 0)
  <2>1. n2 \in n + 1 .. n + (IF k = chosen THEN 2 ELSE 1)
    BY <1>10 DEF Copied
  <2>2. CASE k = chosen
    BY <1>1, <2>1, <2>2
  <2>3. CASE k # chosen
    BY <1>1, <2>1, <2>3
  <2> QED  BY <2>2, <2>3
<1>12. TypeOK'
  <2>1. B \in [0 .. M - 1 -> Ranges]
    BY <1>10 DEF Copied
  <2> QED  BY <1>1, <1>11, <2>1 DEF TypeOK, Phases, LiveRanges, B, M, n2
<1>13. PlanInv'
  BY <1>1, <1>11 DEF PlanInv, Space, Early, Eligible, EntriesFor, n2, M
<1>14. OrderInv' /\ ScanInv' /\ BelowLimit'
  BY <1>1 DEF OrderInv, ScanInv, BelowLimit
<1>15. \A m \in 0 .. n2 - 1 : m \in 0 .. n - 1 \/ m \in n .. n2 - 1
  BY <1>1, <1>11
<1>16. CopyInv'
  <2> SUFFICES ASSUME NEW m \in 0 .. n2 - 1
               PROVE  \E a \in 1 .. k : /\ Within(B[m], bparms[a])
                                        /\ B[m].type = "RAM" => bparms[a].type = "RAM"
    BY <1>1 DEF CopyInv, LiveRanges, n2, B
  <2>1. CASE m \in 0 .. n - 1
    <3>1. PICK a \in 1 .. k - 1 : /\ Within(A[m], bparms[a])
                                  /\ A[m].type = "RAM" => bparms[a].type = "RAM"
      BY <1>1, <2>1 DEF IInv, CopyInv, LiveRanges, A, n
    <3>2. a \in 1 .. k
      BY <1>1
    <3>3. B[m] = A[m]
      BY <1>10, <2>1 DEF Copied, OldEntries
    <3> QED  BY <3>1, <3>2, <3>3
  <2>2. CASE m \in n .. n2 - 1
    <3>1. Source(B[m])
      BY <1>10, <2>2 DEF Copied, NewEntries
    <3>2. k \in 1 .. k
      BY <1>1
    <3> QED  BY <3>1, <3>2 DEF Source, r
  <2> QED  BY <1>15, <2>1, <2>2
<1>17. FreeInv'
  <2> SUFFICES ASSUME NEW m \in 0 .. n2 - 1 PROVE Good(B[m])
    BY <1>3, <1>5 DEF FreeInv, LiveRanges, Good, n2
  <2>1. CASE m \in 0 .. n - 1
    <3>1. Good(A[m])
      BY <1>3, <2>1 DEF IInv, DataInv, FreeInv, LiveRanges, Good, n
    <3> QED  BY <1>10, <2>1, <3>1 DEF Copied, OldEntries
  <2>2. CASE m \in n .. n2 - 1
    BY <1>10, <2>2 DEF Copied, NewEntries
  <2> QED  BY <1>15, <2>1, <2>2
<1>18. ShapeInv' /\ BlockInv'
  BY <1>1, <1>3, <1>10 DEF ShapeInv, BlockInv, Copied, n2
<1>19. CountInv'
  <2> SUFFICES ASSUME NEW q \in Ranges
               PROVE  Cardinality(Equals(B, n2, q)) = ExpectedOf(k, q)
    <3>1. (k - 1)' = k
      BY <1>1
    <3>2. \A q : ExpectedOf(k - 1, q)' = ExpectedOf(k, q)
      BY <1>1, <1>5, <3>1 DEF ExpectedOf, OthersEqual
    <3> QED  BY <1>3, <3>2 DEF CountInv, n2
  <2>1. Cardinality(Equals(A, n, q)) = ExpectedOf(k - 1, q)
    BY <1>1, <1>3 DEF IInv, CountInv, n
  <2>2. Cardinality(Equals(B, n2, q)) = Cardinality(Equals(A, n, q)) + Added(q)
    BY <1>10 DEF Copied, Counts
  <2>3. ExpectedOf(k, q) = ExpectedOf(k - 1, q) + Added(q)
    BY <1>1, ExpectedGrows DEF Added, r
  <2> QED  BY <2>1, <2>2, <2>3
<1>20. TileInv'
  <2> SUFFICES ASSUME NEW a \in Nat
               PROVE  Cardinality(Holds(B, n2, a)) = Cardinality(ReportedWith(k, a))
    <3>1. (k - 1)' = k
      BY <1>1
    <3>2. \A q : ReportedWith(k - 1, q)' = ReportedWith(k, q)
      BY <1>1, <3>1 DEF ReportedWith
    <3> QED  BY <1>3, <3>2 DEF TileInv, n2
  <2>1. Cardinality(Holds(A, n, a)) = Cardinality(ReportedWith(k - 1, a))
    BY <1>3 DEF IInv, DataInv, TileInv, n
  <2>2. Cardinality(Holds(B, n2, a)) = Cardinality(Holds(A, n, a)) + (IF Covers(r, a) THEN 1 ELSE 0)
    BY <1>10 DEF Copied, Counts
  <2>3. Cardinality(ReportedWith(k, a))
            = Cardinality(ReportedWith(k - 1, a)) + (IF Covers(r, a) THEN 1 ELSE 0)
    BY <1>1, ReportedGrows DEF r
  <2> QED  BY <2>1, <2>2, <2>3
<1> QED  BY <1>12, <1>13, <1>14, <1>16, <1>17, <1>18, <1>19, <1>20 DEF IInv, DataInv

-----------------------------------------------------------------------------
\* What mem_alloc may be asked for, by va_init or by others.
GoodRequests == [size : Nat \ {0}, align : Nat \ {0}, max_addr : {0, BmemMax}]

LEMMA AllocBeginStep == ASSUME IInv, NEW q \in GoodRequests, AllocBegin(q) PROVE IInv'
<1> USE DEF mapVars, sortVars
<1>1. /\ TypeOK /\ PlanInv /\ pc \in {"sorted", "ready"} /\ pc' \in {"halted", "find"}
      /\ req' = q /\ left' = 0 /\ right' = num_mem_ranges
      /\ UNCHANGED <<bparms, chosen, max_mem_ranges, mem_ranges, num_mem_ranges, k, h, i, j, v, allocs>>
  BY DEF IInv, AllocBegin
<1>2. Array' = Array
  BY <1>1 DEF Array
<1>3. DataInv'
  BY <1>1, <1>2, DataSame DEF IInv
<1>4. num_mem_ranges \in Nat /\ num_mem_ranges >= 1
  BY <1>1 DEF TypeOK, PlanInv
<1>5. q \in [size : Nat \ {0}, align : Nat \ {0}, max_addr : {0, BmemMax}]
  BY DEF GoodRequests
<1>6. TypeOK'
  BY <1>1, <1>4, <1>5 DEF TypeOK, StageOneMap, LiveRanges, Phases
<1>7. PlanInv'
  BY <1>1, <1>4 DEF PlanInv, EntriesFor, Space, Eligible, Early
<1>8. InOrder(mem_ranges, num_mem_ranges)
  BY <1>1 DEF IInv, OrderInv
<1>9. OrderInv'
  BY <1>1, <1>8 DEF OrderInv, InOrder
<1>10. CountInv' /\ CopyInv' /\ ScanInv' /\ BelowLimit'
  BY <1>1 DEF IInv, CountInv, CopyInv, ScanInv, BelowLimit
<1> QED  BY <1>3, <1>6, <1>7, <1>9, <1>10 DEF IInv

\* The steps of the search and of the scan move left, within the entries.
LEMMA SearchStep ==
    ASSUME IInv, pc \in {"find", "scan"}, pc' \in {"find", "scan", "halted", "underrun"},
           UNCHANGED <<mapVars, mem_ranges, num_mem_ranges, k, sortVars, req, allocs>>,
           left' \in Nat, right' \in Nat, left' < right', right' =< num_mem_ranges,
           ScanInv'
    PROVE  IInv'
<1> USE DEF mapVars, sortVars
<1>1. Array' = Array
  BY DEF Array
<1>2. DataInv'
  BY <1>1, DataSame DEF IInv
<1>3. TypeOK /\ PlanInv /\ num_mem_ranges \in Nat
  BY DEF IInv, TypeOK
<1>4. TypeOK'
  BY <1>3 DEF TypeOK, StageOneMap, LiveRanges, Phases
<1>5. PlanInv'
  BY <1>3 DEF PlanInv, EntriesFor, Space, Eligible, Early
<1>6. InOrder(mem_ranges, num_mem_ranges)
  BY DEF IInv, OrderInv
<1>7. OrderInv'
  BY <1>6 DEF OrderInv, InOrder
<1>8. CountInv' /\ CopyInv' /\ BelowLimit'
  BY DEF IInv, CountInv, CopyInv, BelowLimit
<1> QED  BY <1>2, <1>4, <1>5, <1>7, <1>8 DEF IInv

LEMMA FindNarrowStep == ASSUME IInv, FindNarrow PROVE IInv'
<1>1. /\ pc = "find" /\ left \in Nat /\ right \in Nat /\ left < right - 1
      /\ right =< num_mem_ranges /\ num_mem_ranges \in Nat
  BY DEF IInv, FindNarrow, Narrowing, TypeOK, PlanInv
<1> DEFINE mid == (left + right) \div 2
<1>2. mid \in Nat /\ left < mid /\ mid < right
  BY <1>1
<1> HIDE DEF mid
<1>3. (left' = left /\ right' = mid) \/ (left' = mid /\ right' = right)
  BY DEF FindNarrow, mid
<1>4. left' \in Nat /\ right' \in Nat /\ left' < right' /\ right' =< num_mem_ranges
  BY <1>1, <1>2, <1>3
<1>5. /\ pc' = "find"
      /\ UNCHANGED <<mapVars, mem_ranges, num_mem_ranges, k, sortVars, req, allocs>>
  BY <1>1 DEF FindNarrow
<1> QED  BY <1>1, <1>4, <1>5, SearchStep DEF ScanInv

\* Ranges before one that ends below the limit do so too.
LEMMA EndsBelow ==
    ASSUME IInv, pc \in {"find", "scan"}, ~Above(left), NEW n \in 0 .. left
    PROVE  EndOf(mem_ranges[n]) =< Limit
<1>1. /\ left \in Nat /\ left < num_mem_ranges /\ num_mem_ranges \in Nat
      /\ num_mem_ranges =< max_mem_ranges /\ max_mem_ranges \in Nat
      /\ mem_ranges \in [0 .. max_mem_ranges - 1 -> Ranges] /\ req.max_addr \in {0, BmemMax}
  BY DEF IInv, TypeOK, LiveRanges
<1> DEFINE r == mem_ranges[n]
           s == mem_ranges[left]
<1>2. /\ n \in 0 .. num_mem_ranges - 1 /\ left \in 0 .. num_mem_ranges - 1
      /\ r \in Ranges /\ s \in Ranges
  BY <1>1
<1>3. /\ r.start \in Nat /\ r.len \in Nat /\ s.start \in Nat /\ s.len \in Nat
      /\ EndOf(r) = r.start + r.len /\ EndOf(s) = s.start + s.len
  BY <1>2, RangeType
<1>4. Limit \in Nat /\ BmemMax \in Nat /\ BmemMax =< Limit /\ EndOf(s) =< Limit
  BY <1>1, <1>3, MapAssumption DEF Limit, Above
<1>5. Sound(r) /\ Sound(s) /\ (n # left => Apart(r, s))
  BY <1>2 DEF IInv, DataInv, ShapeInv, Shape, Array
<1>6. n = left \/ r.start =< s.start \/ (r.start < BmemMax /\ s.start < BmemMax)
  BY <1>1, <1>2 DEF IInv, OrderInv, InOrder
<1> HIDE DEF r, s
<1>7. CASE n = left
  BY <1>4, <1>7 DEF r, s
<1>8. CASE n # left
  <2>1. CASE Disjoint(r, s)
    <3>1. EndOf(r) =< Limit
      BY <1>3, <1>4, <1>5, <1>6, <1>8, <2>1 DEF Disjoint, Sound
    <3> QED  BY <3>1 DEF r
  <2>2. CASE ~Disjoint(r, s)
    <3>1. r.start < BmemMax
      BY <1>5, <1>8, <2>2, Zenon DEF Apart
    <3>2. EndOf(r) =< Limit
      BY <1>3, <1>4, <1>5, <3>1 DEF Sound
    <3> QED  BY <3>2 DEF r
  <2> QED  BY <2>1, <2>2
<1> QED  BY <1>7, <1>8

LEMMA FindWalkStep == ASSUME IInv, FindWalk PROVE IInv'
<1> USE DEF mapVars, sortVars
<1>1. /\ pc = "find" /\ left \in Nat /\ right \in Nat /\ left < right
      /\ right =< num_mem_ranges /\ num_mem_ranges \in Nat
  BY DEF IInv, FindWalk, TypeOK, PlanInv
<1>2. /\ pc' \in {"find", "scan", "halted", "underrun"} /\ right' = right
      /\ left' \in Nat /\ left' < right'
      /\ UNCHANGED <<mapVars, mem_ranges, num_mem_ranges, k, sortVars, req, allocs>>
  BY <1>1 DEF FindWalk
<1>3. ScanInv'
  <2>1. pc' = "scan" => left' = left /\ ~Above(left)
    BY <1>1 DEF FindWalk
  <2>2. Limit' = Limit
    BY <1>2 DEF Limit
  <2> QED  BY <1>1, <1>2, <2>1, <2>2, EndsBelow DEF ScanInv
<1> QED  BY <1>1, <1>2, <1>3, SearchStep

LEMMA ScanNextStep == ASSUME IInv, ScanNext PROVE IInv'
<1> USE DEF mapVars, sortVars
<1>1. /\ pc = "scan" /\ left \in Nat /\ right \in Nat /\ left < right
      /\ right =< num_mem_ranges /\ num_mem_ranges \in Nat
  BY DEF IInv, ScanNext, TypeOK, PlanInv
<1>2. /\ pc' \in {"find", "scan", "halted", "underrun"} /\ right' = right
      /\ left' \in Nat /\ left' < right' /\ left' =< left
      /\ UNCHANGED <<mapVars, mem_ranges, num_mem_ranges, k, sortVars, req, allocs>>
  BY <1>1 DEF ScanNext
<1>3. ScanInv'
  <2>1. Limit' = Limit
    BY <1>2 DEF Limit
  <2>2. \A n \in 0 .. left : EndOf(mem_ranges[n]) =< Limit
    BY <1>1 DEF IInv, ScanInv
  <2>3. \A n \in 0 .. left' : n \in 0 .. left
    BY <1>1, <1>2
  <2> QED  BY <1>2, <2>1, <2>2, <2>3 DEF ScanInv
<1> QED  BY <1>1, <1>2, <1>3, SearchStep

-----------------------------------------------------------------------------
(***************************************************************************)
(* Taking a block.  aend and astart do not wrap round to anywhere but      *)
(* where the block is, since the range ends below the limit.               *)
(***************************************************************************)
LEMMA BlockPlace ==
    ASSUME NEW r \in Ranges, Fits(r), EndOf(r) =< Xm32Max,
           req.size \in Nat \ {0}, req.align \in Nat \ {0}
    PROVE  /\ AllocStart(r) \in Nat /\ r.start =< AllocStart(r)
           /\ AllocStart(r) + req.size =< EndOf(r) /\ r.type = "RAM"
<1> DEFINE X == Xm32Max
           e == EndOf(r)
           sz == req.size
           low == ((e % X) - sz) % X
           al == req.align
<1>1. r.start \in Nat /\ r.len \in Nat /\ e \in Nat /\ e = r.start + r.len
  BY RangeType
<1>2. r.type = "RAM" /\ sz =< r.len /\ AllocStart(r) >= r.start /\ sz \in Nat \ {0}
  BY DEF Fits, LongEnough
<1>3. X \in Nat \ {0} /\ e =< X
  BY MapAssumption
<1>4. AllocStart(r) = low - (low % al) /\ al \in Nat \ {0}
  BY DEF AllocStart
<1> HIDE DEF X, e, sz, al
<1>5. e % X \in Int /\ (e % X) - sz = (e % X) + (0 - sz) /\ e + (0 - sz) \in 0 .. X - 1
  <2>1. e % X \in 0 .. X - 1
    BY <1>1, <1>3, DivModDef
  <2> QED  BY <1>1, <1>2, <1>3, <2>1
<1>6. ((e % X) + (0 - sz)) % X = (e + (0 - sz)) % X
  <2>1. 0 - sz \in Int /\ e \in Int
    BY <1>1, <1>2
  <2> QED  BY <1>3, <2>1, ModSum
<1>7. (e + (0 - sz)) % X = e + (0 - sz)
  BY <1>3, <1>5, ModSmall
<1>8. low = e - sz
  BY <1>1, <1>2, <1>5, <1>6, <1>7
<1> HIDE DEF low
<1>9. low \in Nat
  BY <1>1, <1>2, <1>8
<1>10. low % al \in Nat /\ low % al =< low
  <2>0. al \in Nat \ {0} /\ low \in Int /\ low \in Nat
    BY <1>4, <1>9
  <2>1. low % al \in 0 .. al - 1 /\ (low \in Nat => low % al =< low)
    BY <2>0, DivModDef, Zenon
  <2> QED  BY <2>0, <2>1
<1>11. /\ AllocStart(r) \in Nat /\ AllocStart(r) + sz =< e
  BY <1>1, <1>2, <1>4, <1>8, <1>9, <1>10
<1> QED  BY <1>1, <1>2, <1>11 DEF e, sz

(***************************************************************************)
(* The entries after a block is taken are parts of those before, entry m   *)
(* of entry g[m].                                                          *)
(***************************************************************************)
Parts(A, N, B, N2, g, x, at) ==
    /\ g \in [0 .. N2 - 1 -> 0 .. N - 1]
    /\ \A m \in 0 .. N2 - 1 :
        /\ Within(B[m], A[g[m]]) /\ Sound(B[m])
        /\ B[m].type = "RAM" => A[g[m]].type = "RAM"
        /\ g[m] = x /\ B[m].type = "RAM" => EndOf(B[m]) =< at
        /\ \A o \in 0 .. N2 - 1 : m # o /\ g[m] = g[o] => Disjoint(B[m], B[o])

LEMMA TakeStep ==
    ASSUME IInv, pc = "scan", Fits(mem_ranges[left]), pc' = "ready",
           UNCHANGED <<mapVars, k, sortVars, findVars>>,
           allocs' = allocs \cup {[start |-> AllocStart(mem_ranges[left]), len |-> req.size,
                                   max_addr |-> req.max_addr]},
           mem_ranges' \in [0 .. max_mem_ranges - 1 -> Ranges],
           num_mem_ranges' \in num_mem_ranges .. max_mem_ranges, NEW g,
           Parts(mem_ranges, num_mem_ranges, mem_ranges', num_mem_ranges', g, left,
                 AllocStart(mem_ranges[left])),
           InOrder(mem_ranges', num_mem_ranges'),
           \A a \in Nat : Cardinality(Holds(mem_ranges', num_mem_ranges', a))
                            = Cardinality(Holds(mem_ranges, num_mem_ranges, a))
    PROVE  IInv'
<1> USE DEF mapVars, sortVars, findVars
<1> DEFINE A == mem_ranges
           N == num_mem_ranges
           B == mem_ranges'
           N2 == num_mem_ranges'
           M == max_mem_ranges
           r == mem_ranges[left]
           at == AllocStart(r)
           blk == [start |-> at, len |-> req.size, max_addr |-> req.max_addr]
<1>1. /\ TypeOK /\ PlanInv /\ left \in Nat /\ N \in Nat /\ left < N /\ M \in Nat /\ N =< M
      /\ A \in [0 .. M - 1 -> Ranges]
      /\ req \in [size : Nat \ {0}, align : Nat \ {0}, max_addr : {0, BmemMax}]
      /\ allocs \subseteq Blocks /\ StageOneMap(bparms)
  BY DEF IInv, TypeOK, LiveRanges
<1>2. /\ req.size \in Nat \ {0} /\ req.align \in Nat \ {0} /\ req.max_addr \in {0, BmemMax}
      /\ r \in Ranges /\ left \in 0 .. N - 1 /\ N2 \in Nat /\ N2 =< M /\ N2 >= N
  BY <1>1
<1>3. EndOf(r) =< Limit /\ Limit =< Xm32Max /\ Limit \in Nat /\ EndOf(r) \in Nat
  BY <1>1, <1>2, MapAssumption, RangeType DEF IInv, ScanInv, Limit
<1>4. EndOf(r) =< Xm32Max
  BY <1>3, MapAssumption
<1>5. /\ at \in Nat /\ r.start =< at /\ at + req.size =< EndOf(r) /\ r.type = "RAM"
      /\ r.start \in Nat
  BY <1>2, <1>4, BlockPlace, RangeType
<1>6. blk.start = at /\ blk.len = req.size /\ blk.max_addr = req.max_addr /\ EndOf(blk) = at + req.size
  BY DEF EndOf
<1>7. blk \in Blocks
  BY <1>2, <1>5, MapAssumption DEF Blocks
<1>8. Array = A /\ Array' = B /\ MapArea' = MapArea /\ (\A s : InRam(s)' <=> InRam(s))
  BY DEF Array, MapArea, Space, InRam
<1>9. chosen # 0 /\ k = Len(bparms) + 1 /\ N >= 1
  BY <1>1 DEF PlanInv
<1>10. MapArea \in Ranges
  BY <1>1, <1>9, ChosenParts
<1>11. allocs' = allocs \cup {blk}
  OBVIOUS
<1>12. /\ Shape(A, N) /\ InRam(r) /\ Disjoint(r, MapArea)
       /\ \A n \in 0 .. N - 1 : A[n].type = "RAM" => InRam(A[n]) /\ Disjoint(A[n], MapArea)
       /\ \A a \in allocs : /\ InRam(a) /\ Disjoint(a, MapArea)
                            /\ \A b \in allocs : a # b => Disjoint(a, b)
                            /\ \A n \in 0 .. N - 1 : A[n].type = "RAM" => Disjoint(a, A[n])
  BY <1>2, <1>5, <1>8 DEF IInv, DataInv, ShapeInv, FreeInv, BlockInv, LiveRanges
<1>13. Parts(A, N, B, N2, g, left, at)
  OBVIOUS
<1>14. TypeOK'
  BY <1>1, <1>2, <1>7 DEF TypeOK, Phases, LiveRanges
<1>15. PlanInv'
  BY <1>1, <1>2, <1>9 DEF PlanInv, Space, Early, Eligible, EntriesFor
<1>16. OrderInv' /\ CopyInv' /\ CountInv' /\ ScanInv'
  BY DEF OrderInv, CopyInv, CountInv, ScanInv, InOrder
<1>17. TileInv'
  <2>1. \A a : ReportedWith(k - 1, a)' = ReportedWith(k - 1, a)
    BY DEF ReportedWith
  <2> QED  BY <1>8, <2>1 DEF IInv, DataInv, TileInv
<1>18. BelowLimit'
  BY <1>2, <1>3, <1>5, <1>6, <1>11 DEF IInv, BelowLimit, Limit
<1> HIDE DEF A, N, B, N2, M, r, at, blk
<1>19. ASSUME NEW m \in 0 .. N2 - 1
       PROVE  /\ g[m] \in 0 .. N - 1 /\ B[m] \in Ranges /\ A[g[m]] \in Ranges
              /\ Within(B[m], A[g[m]]) /\ Sound(B[m]) /\ Sound(A[g[m]])
              /\ B[m].type = "RAM" => A[g[m]].type = "RAM"
              /\ g[m] = left /\ B[m].type = "RAM" => EndOf(B[m]) =< at
              /\ B[m].start \in Nat /\ EndOf(B[m]) \in Nat
              /\ A[g[m]].start \in Nat /\ EndOf(A[g[m]]) \in Nat
  <2>0. g \in [0 .. N2 - 1 -> 0 .. N - 1]
    BY <1>13, Zenon DEF Parts
  <2>1. m \in 0 .. M - 1 /\ g[m] \in 0 .. N - 1
    BY <1>1, <1>2, <2>0
  <2>2. g[m] \in 0 .. M - 1
    BY <1>1, <2>1
  <2>3. B[m] \in Ranges /\ A[g[m]] \in Ranges
    BY <1>1, <2>1, <2>2 DEF B, M
  <2>4. /\ B[m].start \in Nat /\ EndOf(B[m]) \in Nat
        /\ A[g[m]].start \in Nat /\ EndOf(A[g[m]]) \in Nat
    BY <2>3, RangeType
  <2>5. Sound(A[g[m]])
    BY <1>12, <2>1, Zenon DEF Shape
  <2> QED  BY <1>13, <2>1, <2>3, <2>4, <2>5 DEF Parts
<1>20. ShapeInv'
  <2>1. ASSUME NEW a \in 0 .. N2 - 1, NEW b \in 0 .. N2 - 1, a # b
        PROVE  Apart(B[a], B[b])
    <3>1. CASE g[a] = g[b]
      BY <1>13, <2>1, <3>1 DEF Parts, Apart
    <3>2. CASE g[a] # g[b]
      <4>1. Apart(A[g[a]], A[g[b]])
        BY <1>12, <1>19, <3>2, Zenon DEF Shape
      <4> QED  BY <1>19, <4>1, PartsApart
    <3> QED  BY <3>1, <3>2
  <2> QED  BY <1>8, <1>19, <2>1 DEF ShapeInv, Shape, N2
<1>21. FreeInv'
  <2> SUFFICES ASSUME NEW m \in 0 .. N2 - 1, B[m].type = "RAM"
               PROVE  InRam(B[m]) /\ Disjoint(B[m], MapArea)
    BY <1>8 DEF FreeInv, LiveRanges, N2
  <2>1. InRam(A[g[m]]) /\ Disjoint(A[g[m]], MapArea)
    BY <1>12, <1>19
  <2>2. PICK a \in 1 .. Len(bparms) : bparms[a].type = "RAM" /\ Within(A[g[m]], bparms[a])
    BY <2>1 DEF InRam
  <2>3. bparms[a].start \in Nat /\ EndOf(bparms[a]) \in Nat
    BY <1>1, <2>2, MapApart, RangeType
  <2>4. InRam(B[m])
    BY <1>19, <2>2, <2>3 DEF InRam, Within
  <2>5. MapArea.start \in Nat /\ EndOf(MapArea) \in Nat
    BY <1>10, RangeType
  <2>6. Disjoint(B[m], MapArea)
    BY <1>19, <2>1, <2>5 DEF Disjoint, Within
  <2> QED  BY <2>4, <2>6
<1>22. \A s : s.start \in Nat /\ EndOf(s) \in Nat /\ Disjoint(s, r) => Disjoint(s, blk) /\ Disjoint(blk, s)
  BY <1>2, <1>3, <1>5, <1>6 DEF Disjoint
<1>23. ASSUME NEW m \in 0 .. N2 - 1, B[m].type = "RAM" PROVE Disjoint(blk, B[m])
  <2>1. CASE g[m] = left
    BY <1>5, <1>6, <1>19, <1>23, <2>1 DEF Disjoint
  <2>2. CASE g[m] # left
    <3>1. Apart(A[g[m]], r) /\ A[g[m]].type = "RAM"
      BY <1>2, <1>12, <1>19, <1>23, <2>2 DEF Shape, r, A, N
    <3>2. Disjoint(A[g[m]], r)
      BY <1>5, <3>1, Zenon DEF Apart
    <3>3. Disjoint(B[m], r)
      <4>1. /\ Within(B[m], A[g[m]]) /\ B[m].start \in Nat /\ EndOf(B[m]) \in Nat
            /\ A[g[m]].start \in Nat /\ EndOf(A[g[m]]) \in Nat
        BY <1>19
      <4>2. r.start \in Nat /\ EndOf(r) \in Nat
        BY <1>3, <1>5
      <4> QED  BY <3>2, <4>1, <4>2, DisjointPart
    <3> QED  BY <1>19, <1>22, <3>3
  <2> QED  BY <2>1, <2>2
<1>24. ASSUME NEW a \in allocs
       PROVE  a.start \in Nat /\ EndOf(a) \in Nat /\ Disjoint(a, r)
  <2>1. a.start \in Nat /\ a.len \in Nat
    BY <1>1 DEF Blocks
  <2>2. Disjoint(a, r)
    BY <1>2, <1>5, <1>12 DEF r, A, N
  <2> QED  BY <2>1, <2>2 DEF EndOf
<1>25. ASSUME NEW a \in allocs, NEW m \in 0 .. N2 - 1, B[m].type = "RAM"
       PROVE  Disjoint(a, B[m])
  <2>1. Disjoint(a, A[g[m]])
    BY <1>12, <1>19, <1>25
  <2> QED  BY <1>19, <1>24, <2>1 DEF Disjoint, Within
<1>26. InRam(blk) /\ Disjoint(blk, MapArea)
  <2>1. PICK a \in 1 .. Len(bparms) : bparms[a].type = "RAM" /\ Within(r, bparms[a])
    BY <1>12 DEF InRam
  <2>2. bparms[a].start \in Nat /\ EndOf(bparms[a]) \in Nat
    BY <1>1, <2>1, MapApart, RangeType
  <2>3. Within(blk, bparms[a])
    BY <1>2, <1>3, <1>5, <1>6, <2>1, <2>2 DEF Within
  <2>4. MapArea.start \in Nat /\ EndOf(MapArea) \in Nat
    BY <1>10, RangeType
  <2>5. Disjoint(blk, MapArea)
    BY <1>2, <1>3, <1>5, <1>6, <1>12, <2>4 DEF Disjoint
  <2> QED  BY <2>1, <2>3, <2>5 DEF InRam
<1>27. BlockInv'
  <2> SUFFICES ASSUME NEW a \in allocs'
               PROVE  /\ InRam(a) /\ Disjoint(a, MapArea)
                      /\ \A b \in allocs' : a # b => Disjoint(a, b)
                      /\ \A n \in 0 .. N2 - 1 : B[n].type = "RAM" => Disjoint(a, B[n])
    BY <1>8 DEF BlockInv, LiveRanges, N2
  <2>1. CASE a = blk
    BY <1>11, <1>22, <1>23, <1>24, <1>26, <2>1
  <2>2. CASE a \in allocs
    <3>1. \A b \in allocs' : a # b => Disjoint(a, b)
      BY <1>11, <1>12, <1>22, <1>24, <2>2
    <3> QED  BY <1>12, <1>25, <2>2, <3>1
  <2> QED  BY <1>11, <2>1, <2>2
<1> QED  BY <1>14, <1>15, <1>16, <1>17, <1>18, <1>20, <1>21, <1>27 DEF IInv, DataInv

\* B is A, with N entries in use, after its entry x is cut in two at `at'.
IsCut(A, N, B, x, at) ==
    /\ \A m \in 0 .. x - 1 : B[m] = A[m]
    /\ B[x].start = A[x].start /\ EndOf(B[x]) = at /\ B[x].type = A[x].type
    /\ B[x + 1].start = at /\ EndOf(B[x + 1]) = EndOf(A[x]) /\ B[x + 1].type = "RESERVED"
    /\ B[x].attr = A[x].attr /\ B[x + 1].attr = A[x].attr
    /\ \A m \in x + 2 .. N : B[m] = A[m - 1]

LEMMA CutIs ==
    ASSUME NEW N \in Nat, N = num_mem_ranges, NEW x \in 0 .. N - 1, NEW at \in Nat, NEW B,
           N < max_mem_ranges, max_mem_ranges \in Nat,
           mem_ranges \in [0 .. max_mem_ranges - 1 -> Ranges],
           mem_ranges[x].start < at, at < EndOf(mem_ranges[x]), B = Cut(x, at)
    PROVE  B \in [0 .. max_mem_ranges - 1 -> Ranges] /\ IsCut(mem_ranges, N, B, x, at)
<1> DEFINE A == mem_ranges
           M == max_mem_ranges
           r == A[x]
           lo == [r EXCEPT !.len = at - r.start]
           up == UpperPart(r, at)
<1>1. r \in Ranges /\ r.start \in Nat /\ r.len \in Nat /\ EndOf(r) = r.start + r.len
  BY RangeType
<1>2. lo \in Ranges /\ lo.start = r.start /\ lo.len = at - r.start /\ lo.type = r.type
      /\ lo.attr = r.attr
  <2>1. at - r.start \in Nat
    BY <1>1
  <2> QED  BY <1>1, <2>1 DEF Ranges
<1>3. up \in Ranges /\ up.start = at /\ up.len = EndOf(r) - at /\ up.type = "RESERVED"
      /\ up.attr = r.attr
  <2>1. EndOf(r) - at \in Nat
    BY <1>1
  <2> QED  BY <1>1, <2>1 DEF Ranges, UpperPart, Types
<1>4. EndOf(lo) = at /\ EndOf(up) = EndOf(r)
  BY <1>1, <1>2, <1>3 DEF EndOf
<1>5. B = [m \in 0 .. M - 1 |->
             CASE m < x -> A[m]
               [] m = x -> lo
               [] m = x + 1 -> up
               [] m > x + 1 /\ m =< N -> A[m - 1]
               [] m > N /\ m > x + 1 -> A[m]]
  BY DEF Cut
<1> HIDE DEF lo, up
<1>6. ASSUME NEW m \in 0 .. M - 1
      PROVE  /\ m < x => B[m] = A[m]
             /\ m = x => B[m] = lo
             /\ m = x + 1 => B[m] = up
             /\ m > x + 1 /\ m =< N => B[m] = A[m - 1]
             /\ m > N /\ m > x + 1 => B[m] = A[m]
  <2>1. B[m] = CASE m < x -> A[m]
                 [] m = x -> lo
                 [] m = x + 1 -> up
                 [] m > x + 1 /\ m =< N -> A[m - 1]
                 [] m > N /\ m > x + 1 -> A[m]
    BY <1>5, Zenon
  <2>2. CASE m < x
    <3>1. m # x /\ m # x + 1 /\ ~(m > x + 1 /\ m =< N) /\ ~(m > N /\ m > x + 1)
      BY <2>2
    <3> QED  BY <2>1, <2>2, <3>1, Zenon
  <2>3. CASE m = x
    <3>1. ~(m < x) /\ m # x + 1 /\ ~(m > x + 1 /\ m =< N) /\ ~(m > N /\ m > x + 1)
      BY <2>3
    <3> QED  BY <2>1, <2>3, <3>1, Zenon
  <2>4. CASE m = x + 1
    <3>1. ~(m < x) /\ m # x /\ ~(m > x + 1 /\ m =< N) /\ ~(m > N /\ m > x + 1)
      BY <2>4
    <3> QED  BY <2>1, <2>4, <3>1, Zenon
  <2>5. CASE m > x + 1 /\ m =< N
    <3>1. ~(m < x) /\ m # x /\ m # x + 1 /\ ~(m > N /\ m > x + 1)
      BY <2>5
    <3> QED  BY <2>1, <2>5, <3>1, Zenon
  <2>6. CASE m > N /\ m > x + 1
    <3>1. ~(m < x) /\ m # x /\ m # x + 1 /\ ~(m > x + 1 /\ m =< N)
      BY <2>6
    <3> QED  BY <2>1, <2>6, <3>1, Zenon
  <2>7. m < x \/ m = x \/ m = x + 1 \/ (m > x + 1 /\ m =< N) \/ (m > N /\ m > x + 1)
    OBVIOUS
  <2> QED  BY <2>2, <2>3, <2>4, <2>5, <2>6, <2>7, Zenon
<1>7. ASSUME NEW m \in 0 .. M - 1 PROVE B[m] \in Ranges
  <2>1. m < x \/ m = x \/ m = x + 1 \/ (m > x + 1 /\ m =< N) \/ (m > N /\ m > x + 1)
    OBVIOUS
  <2>2. A[m] \in Ranges /\ (m > x + 1 => A[m - 1] \in Ranges)
    OBVIOUS
  <2> QED  BY <1>2, <1>3, <1>6, <2>1, <2>2, Zenon
<1>8. B \in [0 .. M - 1 -> Ranges]
  <2>1. B = [m \in 0 .. M - 1 |-> B[m]]
    BY <1>5, Zenon
  <2> QED  BY <1>7, <2>1, Zenon
<1>9. B[x] = lo /\ B[x + 1] = up
  <2>1. x \in 0 .. M - 1 /\ x + 1 \in 0 .. M - 1
    OBVIOUS
  <2> QED  BY <1>6, <2>1
<1>10. \A m \in 0 .. x - 1 : B[m] = A[m]
  BY <1>6
<1>11. \A m \in x + 2 .. N : B[m] = A[m - 1]
  BY <1>6
<1> QED  BY <1>2, <1>3, <1>4, <1>8, <1>9, <1>10, <1>11 DEF IsCut

\* What a cut leaves: parts of the entries, that cover what those covered, and
\* are in order if they were, but for those in base memory.
LEMMA CutParts ==
    ASSUME NEW N \in Nat, NEW x \in 0 .. N - 1, NEW at \in Nat, NEW A, NEW B,
           \A m \in 0 .. N - 1 : A[m] \in Ranges, \A m \in 0 .. N : B[m] \in Ranges,
           A[x].start < at, at < EndOf(A[x]), A[x].type = "RAM", IsCut(A, N, B, x, at),
           Shape(A, N), InOrder(A, N)
    PROVE  /\ \E g : Parts(A, N, B, N + 1, g, x, at)
           /\ InOrder(B, N + 1)
           /\ \A a \in Nat : Cardinality(Holds(B, N + 1, a)) = Cardinality(Holds(A, N, a))
<1> DEFINE g == [m \in 0 .. N |-> IF m =< x THEN m ELSE m - 1]
           r == A[x]
<1>1. /\ g \in [0 .. (N + 1) - 1 -> 0 .. N - 1]
      /\ \A m \in 0 .. N : g[m] = IF m =< x THEN m ELSE m - 1
  OBVIOUS
<1> HIDE DEF g
<1>2. \A m \in 0 .. N - 1 : /\ A[m].start \in Nat /\ A[m].len \in Nat
                            /\ EndOf(A[m]) \in Nat /\ EndOf(A[m]) = A[m].start + A[m].len
  BY RangeType
<1>3. \A m \in 0 .. N : /\ B[m].start \in Nat /\ B[m].len \in Nat
                        /\ EndOf(B[m]) \in Nat /\ EndOf(B[m]) = B[m].start + B[m].len
  BY RangeType
<1>4. /\ B[x].start = r.start /\ EndOf(B[x]) = at /\ B[x].type = "RAM"
      /\ B[x + 1].start = at /\ EndOf(B[x + 1]) = EndOf(r) /\ B[x + 1].type = "RESERVED"
      /\ x \in 0 .. N /\ x + 1 \in 0 .. N
  BY DEF IsCut
<1>5. ASSUME NEW m \in 0 .. N
      PROVE  \/ m < x /\ g[m] = m /\ B[m] = A[m]
             \/ m = x /\ g[m] = x
             \/ m = x + 1 /\ g[m] = x
             \/ m > x + 1 /\ g[m] = m - 1 /\ B[m] = A[m - 1] /\ m - 1 \in 0 .. N - 1
  BY <1>1 DEF IsCut
<1>6. Sound(r) /\ r.start \in Nat /\ EndOf(r) \in Nat /\ BmemMax \in Nat
  BY <1>2, MapAssumption DEF Shape
<1>7. \A m \in 0 .. N : Within(B[m], A[g[m]])
  <2> SUFFICES ASSUME NEW m \in 0 .. N PROVE Within(B[m], A[g[m]])
    OBVIOUS
  <2>1. g[m] \in 0 .. N - 1
    BY <1>1
  <2>2. /\ A[g[m]].start \in Nat /\ EndOf(A[g[m]]) \in Nat
    BY <1>2, <2>1
  <2> QED  BY <1>4, <1>5, <1>6, <2>2 DEF Within
<1>8. \A m \in 0 .. N : Sound(B[m])
  <2> SUFFICES ASSUME NEW m \in 0 .. N PROVE Sound(B[m])
    OBVIOUS
  <2>1. CASE m = x
    BY <1>3, <1>4, <1>6, <2>1 DEF Sound
  <2>2. CASE m = x + 1
    BY <1>3, <1>4, <1>6, <2>2 DEF Sound
  <2>3. CASE m # x /\ m # x + 1
    <3>1. g[m] \in 0 .. N - 1 /\ B[m] = A[g[m]]
      BY <1>1, <1>5, <2>3
    <3> QED  BY <3>1 DEF Shape
  <2> QED  BY <2>1, <2>2, <2>3
<1>9. ASSUME NEW m \in 0 .. N
      PROVE  /\ B[m].type = "RAM" => A[g[m]].type = "RAM"
             /\ g[m] = x /\ B[m].type = "RAM" => EndOf(B[m]) =< at
  BY <1>4, <1>5
<1>10. ASSUME NEW m \in 0 .. N, NEW o \in 0 .. N, m # o, g[m] = g[o]
       PROVE  Disjoint(B[m], B[o])
  <2>1. (m = x /\ o = x + 1) \/ (m = x + 1 /\ o = x)
    BY <1>5, <1>10
  <2> QED  BY <1>4, <2>1 DEF Disjoint
<1>11. Parts(A, N, B, N + 1, g, x, at)
  <2>1. (N + 1) - 1 = N
    OBVIOUS
  <2> QED  BY <1>1, <1>7, <1>8, <1>9, <1>10, <2>1, Zenon DEF Parts
<1>12. InOrder(B, N + 1)
  <2> SUFFICES ASSUME NEW a \in 0 .. N, NEW b \in 0 .. N, a < b
               PROVE  B[a].start =< B[b].start \/ (B[a].start < BmemMax /\ B[b].start < BmemMax)
    BY DEF InOrder
  <2>1. CASE b = x + 1
    <3>1. a =< x /\ a \in 0 .. N - 1 /\ B[a].start = A[a].start
      BY <1>4, <1>5, <2>1
    <3>2. a = x \/ A[a].start =< r.start \/ (A[a].start < BmemMax /\ r.start < BmemMax)
      BY <3>1 DEF InOrder
    <3>3. r.start < BmemMax => at < BmemMax
      BY <1>6 DEF Sound
    <3>4. A[a].start \in Nat
      BY <1>2, <3>1
    <3> QED  BY <1>4, <1>6, <2>1, <3>1, <3>2, <3>3, <3>4
  <2>2. CASE a = x + 1
    <3>1. b - 1 \in 0 .. N - 1 /\ x < b - 1 /\ B[b] = A[b - 1]
      BY <1>5, <2>2
    <3> DEFINE t == A[b - 1]
    <3>2. r.start =< t.start \/ (r.start < BmemMax /\ t.start < BmemMax)
      BY <3>1 DEF InOrder
    <3>3. Apart(r, t) /\ Sound(t) /\ t.start \in Nat /\ t.len \in Nat /\ EndOf(t) = t.start + t.len
      BY <1>2, <3>1 DEF Shape
    <3> HIDE DEF t
    <3>4. r.start < BmemMax => at < BmemMax
      BY <1>6 DEF Sound
    <3>5. CASE Disjoint(r, t)
      <4>1. at =< t.start \/ (at < BmemMax /\ t.start < BmemMax)
        BY <1>6, <3>2, <3>3, <3>4, <3>5 DEF Disjoint, Sound
      <4> QED  BY <1>4, <2>2, <3>1, <4>1 DEF t
    <3>6. CASE ~Disjoint(r, t)
      <4>1. r.start < BmemMax /\ t.start < BmemMax
        BY <3>3, <3>6, Zenon DEF Apart
      <4> QED  BY <1>4, <2>2, <3>1, <3>4, <4>1 DEF t
    <3> QED  BY <3>5, <3>6
  <2>3. CASE a # x + 1 /\ b # x + 1
    <3>1. g[a] \in 0 .. N - 1 /\ g[b] \in 0 .. N - 1 /\ g[a] < g[b]
      BY <1>5, <2>3
    <3>2. B[a].start = A[g[a]].start /\ B[b].start = A[g[b]].start
      BY <1>4, <1>5, <2>3
    <3> QED  BY <3>1, <3>2 DEF InOrder
  <2> QED  BY <2>1, <2>2, <2>3
<1>13. ASSUME NEW a \in Nat
       PROVE  Cardinality(Holds(B, N + 1, a)) = Cardinality(Holds(A, N, a))
  <2> DEFINE S == Holds(A, N, a)
             T == Holds(B, N + 1, a)
             f == [m \in T |-> g[m]]
  <2>1. IsFiniteSet(S)
    BY CountsFinite
  <2>2. \A m : m \in T <=> m \in 0 .. N /\ Covers(B[m], a)
    BY DEF Holds
  <2>3. \A m : m \in S <=> m \in 0 .. N - 1 /\ Covers(A[m], a)
    BY DEF Holds
  <2>4. /\ Covers(r, a) <=> (Covers(B[x], a) \/ Covers(B[x + 1], a))
        /\ ~(Covers(B[x], a) /\ Covers(B[x + 1], a))
    BY <1>4, <1>6 DEF Covers
  <2>5. \A m \in T : f[m] = g[m]
    BY Zenon
  <2>6. f \in [T -> S]
    <3>1. ASSUME NEW m \in T PROVE g[m] \in S
      <4>1. m \in 0 .. N /\ Covers(B[m], a) /\ g[m] \in 0 .. N - 1
        BY <1>1, <2>2
      <4>2. Covers(A[g[m]], a)
        BY <1>5, <2>4, <4>1
      <4> QED  BY <2>3, <4>1, <4>2
    <3> QED  BY <3>1, Zenon
  <2> HIDE DEF S, T, f
  <2>7. ASSUME NEW y \in T, NEW z \in T, f[y] = f[z] PROVE y = z
    <3>1. y \in 0 .. N /\ z \in 0 .. N /\ Covers(B[y], a) /\ Covers(B[z], a) /\ g[y] = g[z]
      BY <2>2, <2>5, <2>7
    <3>3. y = z \/ (y = x /\ z = x + 1) \/ (y = x + 1 /\ z = x)
      BY <1>5, <3>1
    <3> QED  BY <2>4, <3>1, <3>3
  <2>8. ASSUME NEW y \in S PROVE \E z \in T : f[z] = y
    <3>1. y \in 0 .. N - 1 /\ Covers(A[y], a)
      BY <2>3
    <3>2. CASE y < x
      <4>1. y \in 0 .. N /\ g[y] = y /\ B[y] = A[y]
        BY <1>5, <3>1, <3>2
      <4> QED  BY <2>2, <2>5, <3>1, <4>1
    <3>3. CASE y = x
      <4>1. x \in T \/ x + 1 \in T
        BY <1>4, <2>2, <2>4, <3>1, <3>3
      <4>2. g[x] = x /\ g[x + 1] = x
        BY <1>4, <1>5
      <4> QED  BY <2>5, <3>3, <4>1, <4>2
    <3>4. CASE y > x
      <4>1. y + 1 \in 0 .. N /\ y + 1 > x + 1 /\ (y + 1) - 1 = y
        BY <3>1, <3>4
      <4>2. g[y + 1] = y /\ B[y + 1] = A[y]
        BY <1>5, <4>1
      <4>3. y + 1 \in T
        BY <2>2, <3>1, <4>1, <4>2
      <4> QED  BY <2>5, <4>2, <4>3
    <3> QED  BY <3>1, <3>2, <3>3, <3>4
  <2>9. Cardinality(T) = Cardinality(S)
    BY <2>1, <2>6, <2>7, <2>8, SameSize
  <2> QED  BY <2>9 DEF S, T
<1> QED  BY <1>11, <1>12, <1>13

LEMMA ScanTakeStep == ASSUME IInv, ScanTake PROVE IInv'
<1> DEFINE A == mem_ranges
           N == num_mem_ranges
           M == max_mem_ranges
           r == mem_ranges[left]
           at == AllocStart(r)
<1>1. /\ pc = "scan" /\ Fits(r) /\ left \in Nat /\ left < right /\ right =< N /\ right \in Nat
      /\ N \in Nat /\ M \in Nat /\ N =< M /\ A \in [0 .. M - 1 -> Ranges]
      /\ req \in [size : Nat \ {0}, align : Nat \ {0}, max_addr : {0, BmemMax}]
      /\ UNCHANGED <<mapVars, k, sortVars, findVars>>
  BY DEF IInv, TypeOK, PlanInv, ScanTake
<1>2. /\ r \in Ranges /\ left \in 0 .. N - 1
      /\ req.size \in Nat \ {0} /\ req.align \in Nat \ {0} /\ req.max_addr \in {0, BmemMax}
  BY <1>1
<1>3. EndOf(r) =< Xm32Max
  <2>1. EndOf(r) =< Limit /\ Limit =< Xm32Max /\ Limit \in Nat
    BY <1>1, <1>2, MapAssumption DEF IInv, ScanInv, Limit
  <2>2. EndOf(r) \in Nat
    BY <1>2, RangeType
  <2> QED  BY <2>1, <2>2, MapAssumption
<1>4. at \in Nat /\ r.start =< at /\ at + req.size =< EndOf(r) /\ r.type = "RAM"
  BY <1>1, <1>2, <1>3, BlockPlace
<1>5. r.start \in Nat /\ r.len \in Nat /\ EndOf(r) = r.start + r.len
  BY <1>2, RangeType
<1>6. Shape(A, N) /\ InOrder(A, N)
  BY <1>1 DEF IInv, DataInv, ShapeInv, OrderInv, Array
<1>7. \/ /\ pc' = "halted" /\ UNCHANGED <<mem_ranges, num_mem_ranges, allocs>>
      \/ /\ pc' = "ready"
         /\ ~(r.start # at /\ N >= M) /\ SplitRange(left, at)
         /\ allocs' = allocs \cup {[start |-> at, len |-> req.size, max_addr |-> req.max_addr]}
  BY <1>1 DEF ScanTake
<1>8. CASE pc' = "halted" /\ UNCHANGED <<mem_ranges, num_mem_ranges, allocs>>
  <2>1. /\ left' \in Nat /\ right' \in Nat /\ left' < right' /\ right' =< num_mem_ranges
        /\ UNCHANGED <<mapVars, mem_ranges, num_mem_ranges, k, sortVars, req, allocs>>
    BY <1>1, <1>8 DEF findVars
  <2> QED  BY <1>1, <1>8, <2>1, SearchStep DEF ScanInv
<1>9. CASE /\ pc' = "ready"
           /\ ~(r.start # at /\ N >= M) /\ SplitRange(left, at)
           /\ allocs' = allocs \cup {[start |-> at, len |-> req.size, max_addr |-> req.max_addr]}
  <2>1. CASE r.start = at
    <3> DEFINE B == mem_ranges'
               g == [m \in 0 .. N - 1 |-> m]
    <3>1. B = [A EXCEPT ![left].type = "RESERVED"] /\ num_mem_ranges' = N
      BY <1>9, <2>1 DEF SplitRange
    <3>2. B = [A EXCEPT ![left] = [r EXCEPT !.type = "RESERVED"]]
      BY <3>1
    <3>3. /\ [r EXCEPT !.type = "RESERVED"] \in Ranges
          /\ [r EXCEPT !.type = "RESERVED"].start = r.start
          /\ [r EXCEPT !.type = "RESERVED"].len = r.len
          /\ [r EXCEPT !.type = "RESERVED"].type = "RESERVED"
      BY <1>2 DEF Ranges, Types
    <3>4. /\ B \in [0 .. M - 1 -> Ranges] /\ left \in 0 .. M - 1
          /\ B[left].start = r.start /\ B[left].len = r.len /\ B[left].type = "RESERVED"
          /\ \A m \in (0 .. N - 1) \ {left} : B[m] = A[m]
      BY <1>1, <1>2, <3>2, <3>3
    <3>5. /\ g \in [0 .. N - 1 -> 0 .. N - 1]
          /\ \A m \in 0 .. N - 1 : g[m] = m
      OBVIOUS
    <3> HIDE DEF g
    <3>6. ASSUME NEW m \in 0 .. N - 1
          PROVE  /\ B[m].start = A[m].start /\ B[m].len = A[m].len /\ EndOf(B[m]) = EndOf(A[m])
                 /\ B[m].type = "RAM" => m # left /\ B[m] = A[m]
                 /\ A[m].start \in Nat /\ EndOf(A[m]) \in Nat /\ Sound(A[m])
      <4>1. A[m] \in Ranges
        BY <1>1
      <4>2. Sound(A[m])
        BY <1>6 DEF Shape
      <4>3. A[m].start \in Nat /\ EndOf(A[m]) \in Nat
        BY <4>1, RangeType
      <4> QED  BY <3>4, <4>2, <4>3 DEF EndOf
    <3>7. Parts(A, N, B, N, g, left, at)
      <4> SUFFICES ASSUME NEW m \in 0 .. N - 1
                   PROVE  /\ Within(B[m], A[m]) /\ Sound(B[m])
                          /\ B[m].type = "RAM" => A[m].type = "RAM"
                          /\ m = left /\ B[m].type = "RAM" => EndOf(B[m]) =< at
        BY <3>5 DEF Parts
      <4> QED  BY <3>6 DEF Within, Sound
    <3>8. InOrder(B, N)
      BY <1>6, <3>6 DEF InOrder
    <3>9. \A a \in Nat : Cardinality(Holds(B, N, a)) = Cardinality(Holds(A, N, a))
      <4>1. \A a \in Nat : Holds(B, N, a) = Holds(A, N, a)
        BY <3>6 DEF Holds, Covers
      <4> QED  BY <4>1
    <3>10. num_mem_ranges' \in num_mem_ranges .. max_mem_ranges
      BY <1>1, <3>1
    <3>11. /\ Parts(mem_ranges, num_mem_ranges, mem_ranges', num_mem_ranges', g, left, at)
           /\ InOrder(mem_ranges', num_mem_ranges')
           /\ \A a \in Nat : Cardinality(Holds(mem_ranges', num_mem_ranges', a))
                               = Cardinality(Holds(mem_ranges, num_mem_ranges, a))
      BY <3>1, <3>7, <3>8, <3>9
    <3> QED  BY <1>1, <1>9, <3>4, <3>10, <3>11, TakeStep
  <2>2. CASE r.start # at
    <3> DEFINE B == mem_ranges'
    <3>1. B = Cut(left, at) /\ num_mem_ranges' = N + 1 /\ N < M
      BY <1>1, <1>9, <2>2 DEF SplitRange
    <3>2. r.start < at /\ at < EndOf(r)
      BY <1>2, <1>4, <1>5, <2>2
    <3>3. B \in [0 .. M - 1 -> Ranges] /\ IsCut(A, N, B, left, at)
      BY <1>1, <1>2, <1>4, <3>1, <3>2, CutIs
    <3>4. (\A m \in 0 .. N - 1 : A[m] \in Ranges) /\ (\A m \in 0 .. N : B[m] \in Ranges)
      BY <1>1, <3>1, <3>3
    <3> HIDE DEF B, A, N, M, r, at
    <3>5. r = A[left]
      BY DEF r, A
    <3>6. /\ \E g : Parts(A, N, B, N + 1, g, left, at)
          /\ InOrder(B, N + 1)
          /\ \A a \in Nat : Cardinality(Holds(B, N + 1, a)) = Cardinality(Holds(A, N, a))
      BY <1>1, <1>2, <1>4, <1>6, <3>2, <3>3, <3>4, <3>5, CutParts
    <3>7. PICK g : Parts(A, N, B, N + 1, g, left, at)
      BY <3>6
    <3>8. num_mem_ranges' \in num_mem_ranges .. max_mem_ranges
      BY <1>1, <3>1 DEF N, M
    <3>9. /\ Parts(mem_ranges, num_mem_ranges, mem_ranges', num_mem_ranges', g, left, AllocStart(mem_ranges[left]))
          /\ InOrder(mem_ranges', num_mem_ranges')
          /\ \A a \in Nat : Cardinality(Holds(mem_ranges', num_mem_ranges', a))
                              = Cardinality(Holds(mem_ranges, num_mem_ranges, a))
      BY <3>1, <3>6, <3>7 DEF N, A, B, at, r
    <3>10. mem_ranges' \in [0 .. max_mem_ranges - 1 -> Ranges]
      BY <3>3 DEF B, M
    <3> QED  BY <1>1, <1>9, <3>8, <3>9, <3>10, TakeStep DEF r, at
  <2> QED  BY <2>1, <2>2
<1> QED  BY <1>7, <1>8, <1>9

-----------------------------------------------------------------------------
LEMMA AskedFor == Requests \subseteq GoodRequests
BY RequestAssumption DEF GoodRequests

LEMMA MapInitStep == ASSUME IInv, MapInit PROVE IInv'
BY ChooseSpaceStep, CopyRangeStep, SortBeginStep, SortGapStep, SortPickStep,
   SortShiftStep, SortPlaceStep, SortNextGapStep DEF MapInit

LEMMA SearchSteps == ASSUME IInv, Search PROVE IInv'
BY FindNarrowStep, FindWalkStep, ScanNextStep, ScanTakeStep DEF Search

(***************************************************************************)
(* The invariant of mem_map_init, shellsort and mem_alloc is inductive.    *)
(***************************************************************************)
THEOREM Inductive == Spec => []IInv
<1>1. Init => IInv
  BY InitIInv
<1>2. IInv /\ [Next]_vars => IInv'
  <2> SUFFICES ASSUME IInv, [Next]_vars PROVE IInv'
    OBVIOUS
  <2>1. CASE MapInit
    BY <2>1, MapInitStep
  <2>2. CASE \E q \in Requests : AllocBegin(q)
    BY <2>2, AskedFor, AllocBeginStep
  <2>3. CASE Search
    BY <2>3, SearchSteps
  <2>4. CASE Stopped \/ UNCHANGED vars
    BY <2>4, Stuttering DEF Stopped
  <2> QED  BY <2>1, <2>2, <2>3, <2>4 DEF Next
<1> QED  BY <1>1, <1>2, PTL DEF Spec

\* What va_init asks mem_alloc for is at least a byte (mem.c:225, 328, 365-367).
LEMMA VaInitAsks ==
    /\ IInv /\ Idle => Request(max_mem_ranges * VaEntrySize, 1) \in GoodRequests
    /\ Request(PdptSize, PdptSize) \in GoodRequests
    /\ Request(PageSize, PageSize) \in GoodRequests
<1>1. ASSUME IInv, Idle PROVE max_mem_ranges * VaEntrySize \in Nat \ {0}
  <2>1. num_mem_ranges \in 0 .. max_mem_ranges /\ max_mem_ranges \in Nat /\ num_mem_ranges >= 1
    BY <1>1 DEF IInv, TypeOK, PlanInv, Idle
  <2>2. max_mem_ranges \in Nat \ {0}
    BY <2>1
  <2>3. VaEntrySize \in Nat \ {0}
    BY VaInitAssumption
  <2> QED  BY <2>2, <2>3
<1>2. IInv /\ Idle => Request(max_mem_ranges * VaEntrySize, 1) \in GoodRequests
  BY <1>1 DEF Request, GoodRequests
<1>3. PdptSize \in Nat \ {0} /\ PageSize \in Nat \ {0}
  BY VaInitAssumption
<1> QED  BY <1>2, <1>3 DEF Request, GoodRequests

(***************************************************************************)
(* The same invariant holds while va_init runs on top of mem_alloc, and    *)
(* for every call after it: va_init moves nothing but by mem_alloc.        *)
(***************************************************************************)
THEOREM InductiveAll == SpecAll => []IInv
<1>1. InitAll => IInv
  BY InitIInv DEF InitAll
<1>2. IInv /\ [NextAll]_allVars => IInv'
  <2> SUFFICES ASSUME IInv, [NextAll]_allVars PROVE IInv'
    OBVIOUS
  <2>1. CASE MapInit \/ Search
    BY <2>1, MapInitStep, SearchSteps
  <2>2. CASE AllocArray \/ AllocPdpt \/ AllocPd \/ EnsurePt
    BY <2>2, VaInitAsks, AllocBeginStep DEF AllocArray, AllocPdpt, AllocPd, EnsurePt
  <2>3. CASE AllocLater
    BY <2>3, AskedFor, AllocBeginStep DEF AllocLater
  <2>4. CASE UNCHANGED vars
    BY <2>4, Stuttering
  <2>5. CASE FindHole \/ HolesFound \/ MapBelowHoles \/ MapBetweenHoles \/ SetAttr \/ SkipDone
             \/ MapLarge \/ MapSmall \/ MapDone \/ PagingOn
    <3>1. UNCHANGED vars
      BY <2>5 DEF FindHole, HolesFound, MapBelowHoles, MapBetweenHoles, SetAttr, SkipDone,
                  MapLarge, MapSmall, MapPages, MapDone, PagingOn
    <3> QED  BY <3>1, Stuttering
  <2>6. CASE UNCHANGED allVars
    <3>1. UNCHANGED vars
      BY <2>6 DEF allVars
    <3> QED  BY <3>1, Stuttering
  <2> QED  BY <2>1, <2>2, <2>3, <2>4, <2>5, <2>6 DEF NextAll, VaInit
<1> QED  BY <1>1, <1>2, PTL DEF SpecAll

(***************************************************************************)
(* The variables have their types: the array is never written past the     *)
(* entries that mem_map_init made room for, nor read past those in use.    *)
(***************************************************************************)
THEOREM TypeCorrect == (Spec => []TypeOK) /\ (SpecAll => []TypeOK)
<1>1. IInv => TypeOK
  BY DEF IInv
<1> QED  BY <1>1, Inductive, InductiveAll, PTL

(***************************************************************************)
(* shellsort leaves the ranges that mem_map_init copied, each as often as  *)
(* it was, in order of their start, for every number and order of them;    *)
(* and in order of their ends too but in base memory.                      *)
(***************************************************************************)
THEOREM SortCorrect == (Spec => []Sorted) /\ (SpecAll => []Sorted)
<1>1. IInv => Sorted
  <2> SUFFICES ASSUME IInv, pc = "sorted"
               PROVE  /\ \A m, n \in LiveRanges :
                            m < n => /\ mem_ranges[m].start =< mem_ranges[n].start
                                     /\ \/ EndOf(mem_ranges[m]) =< EndOf(mem_ranges[n])
                                        \/ EndOf(mem_ranges[m]) =< BmemMax
                      /\ \A n \in LiveRanges :
                            Cardinality({m \in LiveRanges : mem_ranges[m] = mem_ranges[n]})
                                = Expected(mem_ranges[n])
    BY DEF Sorted
  <2>1. /\ k = Len(bparms) + 1 /\ chosen # 0 /\ chosen \in 0 .. Len(bparms) /\ Len(bparms) \in Nat
        /\ DOMAIN bparms = 1 .. Len(bparms) /\ num_mem_ranges \in Nat
        /\ max_mem_ranges \in Nat /\ num_mem_ranges =< max_mem_ranges
        /\ mem_ranges \in [0 .. max_mem_ranges - 1 -> Ranges]
    BY MapApart DEF IInv, TypeOK, PlanInv
  <2>2. \A m, n \in LiveRanges : m < n => mem_ranges[m].start =< mem_ranges[n].start
    BY DEF IInv, OrderInv, Ordered, LiveRanges
  <2>3. ASSUME NEW n \in LiveRanges
        PROVE  Cardinality({m \in LiveRanges : mem_ranges[m] = mem_ranges[n]})
                  = Expected(mem_ranges[n])
    <3> DEFINE r == mem_ranges[n]
    <3>1. r \in Ranges
      BY <2>1 DEF LiveRanges
    <3>2. {m \in LiveRanges : mem_ranges[m] = r} = Equals(Array, num_mem_ranges, r)
      BY DEF Equals, LiveRanges, Array
    <3>3. OthersEqual(k - 1, r) = {m \in DOMAIN bparms \ {chosen} : bparms[m] = r}
      <4>1. 1 .. k - 1 = DOMAIN bparms
        BY <2>1
      <4> QED  BY <4>1 DEF OthersEqual
    <3>4. chosen =< k - 1
      BY <2>1
    <3>5. ExpectedOf(k - 1, r) = Expected(r)
      BY <3>3, <3>4 DEF ExpectedOf, Expected, Rest
    <3> QED  BY <3>1, <3>2, <3>5 DEF IInv, CountInv
  <2>4. ASSUME NEW m \in LiveRanges, NEW n \in LiveRanges, m < n
        PROVE  \/ EndOf(mem_ranges[m]) =< EndOf(mem_ranges[n])
               \/ EndOf(mem_ranges[m]) =< BmemMax
    <3> DEFINE r == mem_ranges[m]
               s == mem_ranges[n]
    <3>1. r.start =< s.start
      BY <2>2, <2>4
    <3>2. Sound(r) /\ Sound(s) /\ Apart(r, s) /\ r \in Ranges /\ s \in Ranges
      <4>1. Array = mem_ranges /\ m \in 0 .. num_mem_ranges - 1 /\ n \in 0 .. num_mem_ranges - 1 /\ m # n
        BY <2>1, <2>4 DEF Array, LiveRanges
      <4>2. Sound(r) /\ Sound(s) /\ Apart(r, s)
        BY <4>1 DEF IInv, DataInv, ShapeInv, Shape
      <4> QED  BY <2>1, <4>1, <4>2
    <3> SUFFICES EndOf(r) =< EndOf(s) \/ EndOf(r) =< BmemMax
      OBVIOUS
    <3> HIDE DEF r, s
    <3>3. /\ r.start \in Nat /\ s.start \in Nat /\ EndOf(r) \in Nat /\ EndOf(s) \in Nat
          /\ BmemMax \in Nat /\ r.start < EndOf(r) /\ s.start < EndOf(s)
      <4>1. /\ r.start \in Nat /\ r.len \in Nat /\ EndOf(r) = r.start + r.len
            /\ s.start \in Nat /\ s.len \in Nat /\ EndOf(s) = s.start + s.len
        BY <3>2, RangeType
      <4>2. r.len # 0 /\ s.len # 0
        BY <3>2 DEF Sound
      <4> QED  BY <4>1, <4>2, MapAssumption
    <3>4. CASE Disjoint(r, s)
      BY <3>1, <3>3, <3>4 DEF Disjoint
    <3>5. CASE r.start < BmemMax
      BY <3>2, <3>3, <3>5 DEF Sound
    <3> QED  BY <3>2, <3>4, <3>5 DEF Apart
  <2> QED  BY <2>2, <2>3, <2>4
<1> QED  BY <1>1, Inductive, InductiveAll, PTL

(***************************************************************************)
(* mem_alloc hands out no byte twice, none of the array itself, and only   *)
(* RAM that stage 1 reported.                                              *)
(***************************************************************************)
THEOREM NoByteTwice == (Spec => []AllocsDisjoint) /\ (SpecAll => []AllocsDisjoint)
<1>1. IInv => AllocsDisjoint
  <2> SUFFICES ASSUME IInv, NEW a \in allocs
               PROVE  /\ \E n \in DOMAIN bparms :
                            /\ bparms[n].type = "RAM"
                            /\ bparms[n].start =< a.start /\ EndOf(a) =< EndOf(bparms[n])
                      /\ Disjoint(a, MapArea)
                      /\ \A b \in allocs : a # b => Disjoint(a, b)
                      /\ \A n \in LiveRanges :
                            mem_ranges[n].type = "RAM" => Disjoint(a, mem_ranges[n])
    BY DEF AllocsDisjoint
  <2>1. pc # "shift"
    BY DEF IInv, PlanInv, Early
  <2>2. DOMAIN bparms = 1 .. Len(bparms)
    BY MapApart DEF IInv, TypeOK
  <2> QED  BY <2>1, <2>2 DEF IInv, DataInv, BlockInv, Array, InRam, Within
<1> QED  BY <1>1, Inductive, InductiveAll, PTL

(***************************************************************************)
(* A block ends below the limit that mem_alloc was given, or below 4 GiB,  *)
(* although the array is in no order in base memory once it has been cut.  *)
(***************************************************************************)
THEOREM LimitKept == (Spec => []BelowLimit) /\ (SpecAll => []BelowLimit)
<1>1. IInv => BelowLimit
  BY DEF IInv
<1> QED  BY <1>1, Inductive, InductiveAll, PTL

(***************************************************************************)
(* Each byte stays in as many entries as stage 1 reported ranges with it,  *)
(* and memory that is reserved does not become RAM.                        *)
(***************************************************************************)
THEOREM MemoryTiled == (Spec => []Tiles) /\ (SpecAll => []Tiles)
<1>1. IInv => Tiles
  <2> SUFFICES ASSUME IInv, pc \in {"sorted", "ready"}, NEW a \in Edges
               PROVE  LET now == {n \in LiveRanges : Covers(mem_ranges[n], a)}
                          reported == {n \in DOMAIN bparms : Covers(bparms[n], a)}
                      IN  /\ Cardinality(now) = Cardinality(reported)
                          /\ (\E n \in now : mem_ranges[n].type = "RAM")
                               => \E n \in reported : bparms[n].type = "RAM"
    BY DEF Tiles
  <2>1. /\ k = Len(bparms) + 1 /\ Len(bparms) \in Nat
        /\ DOMAIN bparms = 1 .. Len(bparms) /\ num_mem_ranges \in Nat
        /\ max_mem_ranges \in Nat /\ num_mem_ranges =< max_mem_ranges
        /\ mem_ranges \in [0 .. max_mem_ranges - 1 -> Ranges]
        /\ \A n \in 1 .. Len(bparms) : bparms[n] \in Ranges
    BY MapApart DEF IInv, TypeOK, PlanInv
  <2>2. \A n \in LiveRanges : mem_ranges[n] \in Ranges
    BY <2>1 DEF LiveRanges
  <2>3. a \in Nat
    <3>1. PICK r \in Ranges : a = r.start \/ a = EndOf(r)
      BY <2>1, <2>2 DEF Edges
    <3> QED  BY <3>1, RangeType
  <2>4. {n \in LiveRanges : Covers(mem_ranges[n], a)} = Holds(Array, num_mem_ranges, a)
    BY DEF Holds, LiveRanges, Array
  <2>5. {n \in DOMAIN bparms : Covers(bparms[n], a)} = ReportedWith(k - 1, a)
    <3>1. 1 .. k - 1 = DOMAIN bparms
      BY <2>1
    <3> QED  BY <3>1 DEF ReportedWith
  <2>6. ASSUME NEW n \in LiveRanges, Covers(mem_ranges[n], a), mem_ranges[n].type = "RAM"
        PROVE  \E m \in DOMAIN bparms : Covers(bparms[m], a) /\ bparms[m].type = "RAM"
    <3>1. InRam(mem_ranges[n])
      BY <2>6 DEF IInv, DataInv, FreeInv, Array
    <3>2. PICK m \in 1 .. Len(bparms) : bparms[m].type = "RAM" /\ Within(mem_ranges[n], bparms[m])
      BY <3>1 DEF InRam
    <3>3. /\ bparms[m].start \in Nat /\ EndOf(bparms[m]) \in Nat
          /\ mem_ranges[n].start \in Nat /\ EndOf(mem_ranges[n]) \in Nat
      BY <2>1, <2>2, RangeType
    <3>4. Covers(bparms[m], a)
      BY <2>3, <2>6, <3>2, <3>3 DEF Covers, Within
    <3> QED  BY <2>1, <3>2, <3>4
  <2>7. Cardinality(Holds(Array, num_mem_ranges, a)) = Cardinality(ReportedWith(k - 1, a))
    BY <2>3 DEF IInv, DataInv, TileInv
  <2> QED  BY <2>4, <2>5, <2>6, <2>7
<1> QED  BY <1>1, Inductive, InductiveAll, PTL

-----------------------------------------------------------------------------
(***************************************************************************)
(* The holes that va_init() finds.                                         *)
(***************************************************************************)
\* Some entry of the array has a part in page p.
Occupied(p) ==
    \E a \in LiveRanges :
        EndOf(mem_ranges[a]) > p * PageSize /\ mem_ranges[a].start < (p + 1) * PageSize

InHole(hs, p) ==
    \E n \in 1 .. Len(hs) : hs[n].start =< p * PageSize /\ p * PageSize < EndOf(hs[n])

\* hs are the holes below the address top, if occ are the pages with something
\* in them.
HolesBelow(hs, top, occ) ==
    /\ hs \in Seq([start : Nat, len : Nat \ {0}])
    /\ \A n \in 1 .. Len(hs) : BmemMax =< hs[n].start /\ EndOf(hs[n]) =< top
    /\ \A n \in 1 .. Len(hs) - 1 : EndOf(hs[n]) < hs[n + 1].start
    /\ \A p \in 0 .. NPages - 1 :
        InHole(hs, p) <=> BmemMax =< p * PageSize /\ p * PageSize < top /\ p \notin occ

\* Where va_init's loop is: the holes below the range it comes to next have
\* been found.
HoleInv ==
    /\ vpc = "array" => unused_va_ranges = << >>
    /\ vpc = "holes" =>
        \/ vi = 1 /\ unused_va_ranges = << >>
        \/ /\ Idle /\ vi \in 2 .. num_mem_ranges + 1
           /\ Len(unused_va_ranges) =< vi - 1
           /\ HolesBelow(unused_va_ranges, HoleEnd(vi - 1), Reported)
    /\ vpc = "pdpt" =>
        /\ Idle /\ Len(unused_va_ranges) =< max_mem_ranges
        /\ HolesBelow(unused_va_ranges, Xm32Max, Reported)
    /\ DOMAIN todo = {"from", "to", "flags", "then"} /\ todo.then \in {"idmap", "skip"}

\* Rounding to pages, against the border before page p.
LEMMA PageFacts ==
    ASSUME NEW a \in Nat, NEW p \in Nat
    PROVE  /\ PageDown(a) \in Nat /\ PageUp(a) \in Nat
           /\ PageDown(a) =< a /\ a =< PageUp(a)
           /\ \E q \in Nat : PageDown(a) = q * PageSize
           /\ p * PageSize \in Nat /\ (p + 1) * PageSize = p * PageSize + PageSize
           /\ PageDown(a) =< p * PageSize <=> a < (p + 1) * PageSize
           /\ PageUp(a) =< p * PageSize <=> a =< p * PageSize
<1>0. PageSize \in Nat \ {0} BY VaInitAssumption
<1>1. p * PageSize \in Nat /\ (p + 1) * PageSize = p * PageSize + PageSize BY <1>0
<1>2. ASSUME NEW b \in Nat
      PROVE  /\ PageDown(b) \in Nat /\ PageDown(b) =< b /\ b < PageDown(b) + PageSize
             /\ \E q \in Nat : PageDown(b) = q * PageSize
             /\ PageDown(b) =< p * PageSize <=> b < p * PageSize + PageSize
  <2>1. PICK q \in Nat, r \in 0 .. PageSize - 1 : b = PageSize * q + r /\ r = b % PageSize
    <3>0. b \in Int OBVIOUS
    <3>1. /\ b % PageSize \in 0 .. PageSize - 1
          /\ b = PageSize * (b \div PageSize) + (b % PageSize)
          /\ b \in Nat => b \div PageSize \in Nat
      BY ONLY <1>0, <3>0, DivModDef
    <3> QED BY <3>1
  <2>2. PageSize * q = q * PageSize /\ q * PageSize \in Nat BY <1>0
  <2>3. PICK x \in Nat : x = q * PageSize BY <2>2
  <2>4. PICK y \in Nat : y = p * PageSize BY <1>1
  <2>5. PageDown(b) = x /\ b = x + r BY <1>0, <2>1, <2>2, <2>3 DEF PageDown
  <2>6. q =< p => x =< y BY <1>0, <2>3, <2>4, MulMonotone
  <2>7. p + 1 =< q => y + PageSize =< x
    <3>1. p + 1 =< q => (p + 1) * PageSize =< q * PageSize BY <1>0, MulMonotone
    <3> QED BY <3>1, <1>1, <2>3, <2>4
  <2>8. q =< p \/ p + 1 =< q OBVIOUS
  <2>9. x =< y <=> b < y + PageSize BY <1>0, <2>5, <2>6, <2>7, <2>8
  <2>10. b < x + PageSize /\ x =< b BY <1>0, <2>5
  <2>11. \E z \in Nat : PageDown(b) = z * PageSize BY <2>3, <2>5
  <2> QED BY <2>4, <2>5, <2>9, <2>10, <2>11
<1> DEFINE c == a + (PageSize - 1)
<1>3. c \in Nat BY <1>0
<1>4. PageUp(a) = PageDown(c) BY DEF PageUp
<1> HIDE DEF c
<1>5. /\ PageDown(c) \in Nat /\ c < PageDown(c) + PageSize
      /\ PageDown(c) =< p * PageSize <=> c < p * PageSize + PageSize
  BY <1>2, <1>3
<1>6. PageUp(a) \in Nat /\ a =< PageUp(a) BY <1>0, <1>3, <1>4, <1>5 DEF c
<1>7. PageUp(a) =< p * PageSize <=> a =< p * PageSize
  BY <1>0, <1>1, <1>3, <1>4, <1>5 DEF c
<1>8. /\ PageDown(a) \in Nat /\ PageDown(a) =< a
      /\ \E q \in Nat : PageDown(a) = q * PageSize
      /\ PageDown(a) =< p * PageSize <=> a < p * PageSize + PageSize
  BY <1>2
<1> QED BY <1>1, <1>6, <1>7, <1>8

LEMMA PageMonotone ==
    ASSUME NEW a \in Nat, NEW b \in Nat, a =< b
    PROVE  PageDown(a) =< PageDown(b)
<1>1. PICK q \in Nat : PageDown(b) = q * PageSize BY PageFacts
<1>2. q * PageSize \in Nat /\ (q + 1) * PageSize = q * PageSize + PageSize /\ PageSize \in Nat
  BY PageFacts, VaInitAssumption
<1>3. b < (q + 1) * PageSize
  <2>1. PageDown(b) =< q * PageSize BY <1>1, <1>2
  <2> QED BY <2>1, PageFacts
<1>4. (q + 1) * PageSize \in Nat BY <1>2
<1>5. a < (q + 1) * PageSize BY <1>3, <1>4
<1>6. PageDown(a) =< q * PageSize BY <1>5, PageFacts
<1> QED BY <1>1, <1>6

\* The 1 MiB and 4 GiB marks are borders of pages.
LEMMA Marks ==
    /\ \E q \in Nat : BmemMax = q * PageSize
    /\ NPages \in Nat /\ Xm32Max = NPages * PageSize
    /\ \A p \in 0 .. NPages - 1 : p \in Nat /\ p * PageSize \in Nat /\ p * PageSize < Xm32Max
<1>0. /\ PageSize \in Nat \ {0} /\ LP \in Nat \ {0} /\ BmemMax \in Nat /\ Xm32Max \in Nat
      /\ BmemMax % PageSize = 0 /\ Xm32Max % (PageSize * LP) = 0
  BY VaInitAssumption, MapAssumption
<1>1. /\ BmemMax = PageSize * (BmemMax \div PageSize) + (BmemMax % PageSize)
      /\ BmemMax \in Nat => BmemMax \div PageSize \in Nat
  <2>1. BmemMax \in Int BY <1>0
  <2> QED BY ONLY <1>0, <2>1, DivModDef
<1>2. PICK q \in Nat : BmemMax = PageSize * q
  <2>1. PICK d \in Nat : d = BmemMax \div PageSize BY <1>0, <1>1
  <2>2. BmemMax = PageSize * d + 0 BY <1>0, <1>1, <2>1
  <2>3. PageSize * d \in Nat BY <1>0
  <2> QED BY <2>2, <2>3
<1>3. BmemMax = q * PageSize BY <1>0, <1>2
<1> DEFINE L == PageSize * LP
<1>4. L \in Nat \ {0} BY <1>0
<1>5. Xm32Max % L = 0 BY <1>0
<1> HIDE DEF L
<1>50. /\ Xm32Max = L * (Xm32Max \div L) + (Xm32Max % L)
       /\ Xm32Max \in Nat => Xm32Max \div L \in Nat
  <2>1. Xm32Max \in Int BY <1>0
  <2> QED BY ONLY <1>4, <2>1, DivModDef
<1>6. PICK w \in Nat : Xm32Max = L * w BY <1>0, <1>4, <1>5, <1>50
<1>7. PICK x \in Nat : x = LP * w BY <1>0
<1>8. Xm32Max = PageSize * x BY <1>0, <1>6, <1>7 DEF L
<1>9. Xm32Max \div PageSize = x
  <2>1. 0 \in 0 .. PageSize - 1 BY <1>0
  <2>2. (PageSize * x + 0) \div PageSize = x BY <1>0, <2>1, DivModUnique
  <2>3. PageSize * x + 0 = Xm32Max BY <1>0, <1>8
  <2> QED BY <2>2, <2>3
<1>10. NPages = x BY <1>9 DEF NPages
<1>11. Xm32Max = NPages * PageSize BY <1>0, <1>8, <1>10
<1>12. ASSUME NEW p \in 0 .. NPages - 1
       PROVE  p \in Nat /\ p * PageSize \in Nat /\ p * PageSize < Xm32Max
  <2>1. p \in Nat /\ p < x BY <1>10
  <2>2. p * PageSize < x * PageSize BY <1>0, <2>1, MulMonotone
  <2>3. p * PageSize \in Nat BY <1>0, <2>1
  <2> QED BY <2>1, <2>2, <2>3, <1>10, <1>11
<1> QED BY <1>3, <1>10, <1>11, <1>12

\* The entries when nobody is inside mem_alloc: from 1 MiB up they come in
\* order and apart, after those of base memory, and there is one at address 0.
LEMMA EntryFacts ==
    ASSUME IInv, Idle
    PROVE  /\ num_mem_ranges \in Nat \ {0} /\ max_mem_ranges \in Nat
           /\ num_mem_ranges =< max_mem_ranges /\ BmemMax \in Nat /\ Xm32Max \in Nat
           /\ \A a \in LiveRanges :
                /\ mem_ranges[a].start \in Nat /\ EndOf(mem_ranges[a]) \in Nat
                /\ mem_ranges[a].start < EndOf(mem_ranges[a])
                /\ EndOf(mem_ranges[a]) =< BmemMax \/ mem_ranges[a].start >= BmemMax
           /\ \A a, b \in LiveRanges :
                /\ a < b
                /\ mem_ranges[a].start >= BmemMax \/ mem_ranges[b].start >= BmemMax
                => EndOf(mem_ranges[a]) =< mem_ranges[b].start
           /\ mem_ranges[0].start < BmemMax
<1>1. /\ num_mem_ranges \in Nat \ {0} /\ max_mem_ranges \in Nat
      /\ num_mem_ranges =< max_mem_ranges /\ BmemMax \in Nat \ {0} /\ Xm32Max \in Nat
  <2>1. num_mem_ranges >= 1 BY DEF IInv, PlanInv, Idle
  <2>2. num_mem_ranges \in 0 .. max_mem_ranges /\ max_mem_ranges \in Nat BY DEF IInv, TypeOK
  <2> QED BY <2>1, <2>2, MapAssumption
<1>2. Array = mem_ranges BY DEF Array, Idle
<1>3. \A a \in LiveRanges : mem_ranges[a] \in Ranges
  <2>1. \A a \in LiveRanges : a \in 0 .. max_mem_ranges - 1 BY <1>1 DEF LiveRanges
  <2> QED BY <2>1 DEF IInv, TypeOK
<1>4. ASSUME NEW a \in LiveRanges
      PROVE  /\ mem_ranges[a].start \in Nat /\ mem_ranges[a].len \in Nat
             /\ EndOf(mem_ranges[a]) = mem_ranges[a].start + mem_ranges[a].len
  BY <1>3 DEF Ranges, EndOf
<1>5. Shape(mem_ranges, num_mem_ranges) /\ InOrder(mem_ranges, num_mem_ranges)
  BY <1>2 DEF IInv, DataInv, ShapeInv, OrderInv, Idle
<1>6. ASSUME NEW a \in LiveRanges
      PROVE  /\ mem_ranges[a].start \in Nat /\ EndOf(mem_ranges[a]) \in Nat
             /\ mem_ranges[a].start < EndOf(mem_ranges[a])
             /\ EndOf(mem_ranges[a]) =< BmemMax \/ mem_ranges[a].start >= BmemMax
  <2>1. Sound(mem_ranges[a]) BY <1>5 DEF Shape, LiveRanges
  <2>2. mem_ranges[a].len # 0 BY <2>1 DEF Sound
  <2>3. EndOf(mem_ranges[a]) =< BmemMax \/ mem_ranges[a].start >= BmemMax
    BY <2>1 DEF Sound
  <2> QED BY <1>4, <2>2, <2>3
<1>7. ASSUME NEW a \in LiveRanges, NEW b \in LiveRanges, a < b,
             mem_ranges[a].start >= BmemMax \/ mem_ranges[b].start >= BmemMax
      PROVE  EndOf(mem_ranges[a]) =< mem_ranges[b].start
  <2>1. /\ mem_ranges[a].start \in Nat /\ EndOf(mem_ranges[a]) \in Nat
        /\ mem_ranges[b].start \in Nat /\ EndOf(mem_ranges[b]) \in Nat
        /\ mem_ranges[a].start < EndOf(mem_ranges[a])
        /\ mem_ranges[b].start < EndOf(mem_ranges[b])
    BY <1>6
  <2>2. a # b
    <3>1. a \in Nat /\ b \in Nat BY DEF LiveRanges
    <3> QED BY <3>1, <1>7
  <2>3. Apart(mem_ranges[a], mem_ranges[b]) BY <1>5, <2>2 DEF Shape, LiveRanges
  <2>4. \/ mem_ranges[a].start =< mem_ranges[b].start
        \/ mem_ranges[a].start < BmemMax /\ mem_ranges[b].start < BmemMax
    BY <1>5, <1>7 DEF InOrder, LiveRanges
  <2>5. mem_ranges[a].start =< mem_ranges[b].start BY <1>1, <1>7, <2>1, <2>4
  <2>6. ~(mem_ranges[a].start < BmemMax /\ mem_ranges[b].start < BmemMax)
    BY <1>1, <1>7, <2>1
  <2>7. \/ EndOf(mem_ranges[a]) =< mem_ranges[b].start
        \/ EndOf(mem_ranges[b]) =< mem_ranges[a].start
    BY <2>3, <2>6 DEF Apart, Disjoint
  <2> QED BY <2>1, <2>5, <2>7
<1>8. mem_ranges[0].start < BmemMax
  <2>1. PICK c \in 1 .. Len(bparms) : bparms[c].start = 0 /\ bparms[c].len # 0
                                      /\ bparms[c] \in Ranges
    BY DEF IInv, TypeOK, StageOneMap
  <2>2. k - 1 = Len(bparms) /\ Len(bparms) \in Nat
    <3>1. k = Len(bparms) + 1 BY DEF IInv, PlanInv, Idle
    <3>2. bparms \in Seq(Ranges) BY DEF IInv, TypeOK, StageOneMap
    <3> QED BY <3>1, <3>2
  <2>3. c \in ReportedWith(k - 1, 0)
    <3>1. bparms[c].len \in Nat BY <2>1 DEF Ranges
    <3>2. Covers(bparms[c], 0) BY <2>1, <3>1 DEF Covers, EndOf
    <3> QED BY <3>2, <2>2 DEF ReportedWith
  <2>4. ReportedWith(k - 1, 0) # {} /\ IsFiniteSet(ReportedWith(k - 1, 0))
    <3>1. IsFiniteSet(1 .. k - 1) BY <2>2, FS_Interval
    <3>2. ReportedWith(k - 1, 0) \subseteq 1 .. k - 1 BY DEF ReportedWith
    <3> QED BY <2>3, <3>1, <3>2, FS_Subset
  <2>5. Cardinality(Holds(mem_ranges, num_mem_ranges, 0)) = Cardinality(ReportedWith(k - 1, 0))
    BY <1>2 DEF IInv, DataInv, TileInv
  <2>6. Cardinality(ReportedWith(k - 1, 0)) # 0 BY <2>4, FS_EmptySet
  <2>7. Holds(mem_ranges, num_mem_ranges, 0) # {} BY <2>5, <2>6, FS_EmptySet
  <2>8. PICK a \in LiveRanges : mem_ranges[a].start =< 0
    BY <2>7 DEF Holds, Covers, LiveRanges
  <2>9. 0 \in LiveRanges /\ a \in Nat BY <1>1 DEF LiveRanges
  <2>10. mem_ranges[a].start = 0 BY <1>4, <2>8
  <2>11. CASE a = 0 BY <1>1, <2>10, <2>11
  <2>12. CASE a # 0
    <3>1. 0 < a BY <2>9, <2>12
    <3>2. \/ mem_ranges[0].start =< mem_ranges[a].start
          \/ mem_ranges[0].start < BmemMax /\ mem_ranges[a].start < BmemMax
      BY <1>5, <2>9, <3>1 DEF InOrder, LiveRanges
    <3>3. mem_ranges[0].start \in Nat BY <1>4, <2>9
    <3> QED BY <1>1, <2>10, <3>2, <3>3
  <2> QED BY <2>11, <2>12
<1> QED BY <1>1, <1>6, <1>7, <1>8

\* A byte is in some entry of the array if and only if it was reported.
LEMMA BytesKept ==
    ASSUME IInv, Idle, NEW a \in Nat
    PROVE  (\E n \in LiveRanges : Covers(mem_ranges[n], a))
           <=> (\E n \in 1 .. Len(bparms) : Covers(bparms[n], a))
<1> DEFINE S == Holds(mem_ranges, num_mem_ranges, a)
           T == ReportedWith(k - 1, a)
<1>1. Array = mem_ranges BY DEF Array, Idle
<1>2. k - 1 = Len(bparms) /\ Len(bparms) \in Nat
  <2>1. k = Len(bparms) + 1 BY DEF IInv, PlanInv, Idle
  <2>2. bparms \in Seq(Ranges) BY DEF IInv, TypeOK, StageOneMap
  <2> QED BY <2>1, <2>2
<1>3. num_mem_ranges \in Nat BY EntryFacts
<1>4. Cardinality(S) = Cardinality(T) BY <1>1 DEF IInv, DataInv, TileInv
<1>5. IsFiniteSet(S)
  <2>1. IsFiniteSet(0 .. num_mem_ranges - 1) BY <1>3, FS_Interval
  <2>2. S \subseteq 0 .. num_mem_ranges - 1 BY DEF Holds
  <2> QED BY <2>1, <2>2, FS_Subset
<1>6. IsFiniteSet(T)
  <2>1. IsFiniteSet(1 .. k - 1) BY <1>2, FS_Interval
  <2>2. T \subseteq 1 .. k - 1 BY DEF ReportedWith
  <2> QED BY <2>1, <2>2, FS_Subset
<1> HIDE DEF S, T
<1>7. S = {} <=> T = {} BY <1>4, <1>5, <1>6, FS_EmptySet
<1>8. S # {} <=> \E n \in LiveRanges : Covers(mem_ranges[n], a)
  BY DEF S, Holds, LiveRanges
<1>9. T # {} <=> \E n \in 1 .. Len(bparms) : Covers(bparms[n], a)
  BY <1>2 DEF T, ReportedWith
<1> QED BY <1>7, <1>8, <1>9

\* What entries of the array have a part in is what was reported.
LEMMA OccupiedReported ==
    ASSUME IInv, Idle, NEW p \in 0 .. NPages - 1
    PROVE  Occupied(p) <=> p \in Reported
<1>0. /\ p \in Nat /\ p * PageSize \in Nat /\ PageSize \in Nat \ {0}
      /\ (p + 1) * PageSize = p * PageSize + PageSize
  BY Marks, PageFacts, VaInitAssumption
<1>1. PICK x \in Nat : x = p * PageSize BY <1>0
<1>2. PICK y \in Nat : y = (p + 1) * PageSize /\ x < y BY <1>0, <1>1
<1>4. k - 1 = Len(bparms) /\ Len(bparms) \in Nat /\ bparms \in Seq(Ranges)
  <2>1. k = Len(bparms) + 1 BY DEF IInv, PlanInv, Idle
  <2>2. bparms \in Seq(Ranges) BY DEF IInv, TypeOK, StageOneMap
  <2> QED BY <2>1, <2>2
<1>6. ASSUME NEW a \in Nat
      PROVE  (\E n \in LiveRanges : Covers(mem_ranges[n], a))
             <=> (\E n \in 1 .. Len(bparms) : Covers(bparms[n], a))
  BY BytesKept
<1>7. ASSUME NEW r, r.start \in Nat, EndOf(r) \in Nat, r.start < EndOf(r)
      PROVE  (EndOf(r) > x /\ r.start < y) <=> \E a \in x .. y - 1 : Covers(r, a)
  <2>1. ASSUME EndOf(r) > x, r.start < y PROVE \E a \in x .. y - 1 : Covers(r, a)
    <3>1. CASE r.start =< x
      <4>1. x \in x .. y - 1 /\ Covers(r, x) BY <1>2, <2>1, <3>1 DEF Covers
      <4> QED BY <4>1
    <3>2. CASE r.start > x
      <4>1. r.start \in x .. y - 1 /\ Covers(r, r.start) BY <1>7, <2>1, <3>2 DEF Covers
      <4> QED BY <4>1
    <3> QED BY <1>7, <3>1, <3>2
  <2>2. ASSUME NEW a \in x .. y - 1, Covers(r, a) PROVE EndOf(r) > x /\ r.start < y
    BY <2>2, <1>7 DEF Covers
  <2> QED BY <2>1, <2>2
<1>8. Occupied(p) <=> \E a \in x .. y - 1 : \E n \in LiveRanges : Covers(mem_ranges[n], a)
  <2>1. Occupied(p) <=> \E n \in LiveRanges : EndOf(mem_ranges[n]) > x /\ mem_ranges[n].start < y
    BY <1>1, <1>2 DEF Occupied
  <2>2. \A n \in LiveRanges : (EndOf(mem_ranges[n]) > x /\ mem_ranges[n].start < y)
                              <=> \E a \in x .. y - 1 : Covers(mem_ranges[n], a)
    <3> TAKE n \in LiveRanges
    <3>1. /\ mem_ranges[n].start \in Nat /\ EndOf(mem_ranges[n]) \in Nat
          /\ mem_ranges[n].start < EndOf(mem_ranges[n])
      BY EntryFacts
    <3> QED BY <3>1, <1>7
  <2> QED BY <2>1, <2>2, Zenon
<1>9. p \in Reported <=> \E a \in x .. y - 1 : \E n \in 1 .. Len(bparms) : Covers(bparms[n], a)
  <2>1. DOMAIN bparms = 1 .. Len(bparms) BY <1>4
  <2>2. p \in Reported <=> \E n \in 1 .. Len(bparms) : p \in PagesOf(bparms[n])
    BY <2>1, Zenon DEF Reported
  <2>3. \A n \in 1 .. Len(bparms) : p \in PagesOf(bparms[n])
                                    <=> EndOf(bparms[n]) > x /\ bparms[n].start < y
    BY <1>1, <1>2 DEF PagesOf
  <2>4. \A n \in 1 .. Len(bparms) : (EndOf(bparms[n]) > x /\ bparms[n].start < y)
                                    <=> \E a \in x .. y - 1 : Covers(bparms[n], a)
    <3> TAKE n \in 1 .. Len(bparms)
    <3>1. bparms[n] \in Ranges BY <1>4
    <3>2. bparms[n].len # 0 BY <2>1 DEF IInv, TypeOK, StageOneMap
    <3>3. /\ bparms[n].start \in Nat /\ EndOf(bparms[n]) \in Nat
          /\ bparms[n].start < EndOf(bparms[n])
      BY <3>1, <3>2 DEF Ranges, EndOf
    <3> QED BY <3>3, <1>7
  <2> QED BY <2>2, <2>3, <2>4, Zenon
<1>10. x .. y - 1 \subseteq Nat OBVIOUS
<1> QED BY <1>6, <1>8, <1>9, <1>10

\* Number n of the loop: the hole before entry n is above what the loop has
\* passed, and entry n - 1 is what the pages in front of it hold.
LEMMA HoleFacts ==
    ASSUME IInv, Idle, NEW n \in 1 .. num_mem_ranges
    PROVE  /\ RangeEnd(n) \in Nat /\ HoleStart(n) \in Nat
           /\ HoleEnd(n) \in Nat /\ HoleEnd(n - 1) \in Nat
           /\ HoleEnd(n) =< Xm32Max /\ HoleEnd(n - 1) =< Xm32Max
           /\ BmemMax =< HoleStart(n) /\ RangeEnd(n) =< HoleStart(n)
           /\ \A p \in 0 .. NPages - 1 :
                HoleStart(n) =< p * PageSize
                <=> BmemMax =< p * PageSize /\ RangeEnd(n) =< p * PageSize
           /\ RangeEnd(n) < Xm32Max => HoleEnd(n - 1) < RangeEnd(n)
           /\ RangeEnd(n) < Xm32Max /\ BmemMax =< HoleEnd(n - 1) => HoleEnd(n - 1) =< HoleEnd(n)
           /\ \A p \in 0 .. NPages - 1 :
                HoleEnd(n - 1) =< p * PageSize =>
                    /\ p * PageSize < RangeEnd(n) => p \in Reported
                    /\ /\ BmemMax =< p * PageSize /\ p * PageSize < HoleEnd(n)
                       /\ p \in Reported
                       => p * PageSize < RangeEnd(n)
<1>0. /\ num_mem_ranges \in Nat \ {0} /\ BmemMax \in Nat /\ Xm32Max \in Nat
      /\ n \in Nat /\ n - 1 \in LiveRanges /\ n - 1 \in Nat
      /\ n - 1 # num_mem_ranges /\ n # num_mem_ranges => n \in LiveRanges
  BY EntryFacts DEF LiveRanges
<1> DEFINE r == mem_ranges[n - 1]
           s == mem_ranges[n]
<1>1. /\ r.start \in Nat /\ EndOf(r) \in Nat /\ r.start < EndOf(r)
      /\ EndOf(r) =< BmemMax \/ r.start >= BmemMax
  BY <1>0, EntryFacts
<1>2. n # num_mem_ranges =>
        /\ s.start \in Nat
        /\ r.start >= BmemMax \/ s.start >= BmemMax => EndOf(r) =< s.start
  <2> SUFFICES ASSUME n # num_mem_ranges
               PROVE  /\ s.start \in Nat
                      /\ r.start >= BmemMax \/ s.start >= BmemMax => EndOf(r) =< s.start
    OBVIOUS
  <2>1. n \in LiveRanges /\ n - 1 < n BY <1>0
  <2> QED BY <1>0, <2>1, EntryFacts
<1>3. RangeEnd(n) = PageUp(EndOf(r)) BY DEF RangeEnd
<1>4. HoleEnd(n - 1) = IF PageDown(r.start) > Xm32Max THEN Xm32Max ELSE PageDown(r.start)
  BY <1>0 DEF HoleEnd
<1>5. HoleEnd(n) = IF n = num_mem_ranges \/ PageDown(s.start) > Xm32Max
                   THEN Xm32Max ELSE PageDown(s.start)
  BY DEF HoleEnd
<1> HIDE DEF r, s
<1>6. /\ PageDown(r.start) \in Nat /\ PageDown(r.start) =< r.start
      /\ RangeEnd(n) \in Nat /\ EndOf(r) =< RangeEnd(n)
      /\ n # num_mem_ranges => PageDown(s.start) \in Nat /\ PageDown(s.start) =< s.start
  <2>1. 0 \in Nat OBVIOUS
  <2>2. PageDown(r.start) \in Nat /\ PageDown(r.start) =< r.start BY <1>1, <2>1, PageFacts
  <2>3. RangeEnd(n) \in Nat /\ EndOf(r) =< RangeEnd(n) BY <1>1, <1>3, <2>1, PageFacts
  <2>4. n # num_mem_ranges => PageDown(s.start) \in Nat /\ PageDown(s.start) =< s.start
    BY <1>2, <2>1, PageFacts
  <2> QED BY <2>2, <2>3, <2>4
<1>7. /\ HoleEnd(n) \in Nat /\ HoleEnd(n - 1) \in Nat
      /\ HoleEnd(n) =< Xm32Max /\ HoleEnd(n - 1) =< Xm32Max
  <2>1. HoleEnd(n - 1) \in Nat /\ HoleEnd(n - 1) =< Xm32Max BY <1>0, <1>4, <1>6
  <2>2. CASE n = num_mem_ranges BY <1>0, <1>5, <2>1, <2>2
  <2>3. CASE n # num_mem_ranges BY <1>0, <1>5, <1>6, <2>1, <2>3
  <2> QED BY <2>2, <2>3
<1>8. /\ HoleStart(n) \in Nat /\ BmemMax =< HoleStart(n) /\ RangeEnd(n) =< HoleStart(n)
      /\ HoleStart(n) = BmemMax \/ HoleStart(n) = RangeEnd(n)
  BY <1>0, <1>6 DEF HoleStart
<1>9. \A p \in 0 .. NPages - 1 :
        HoleStart(n) =< p * PageSize
        <=> BmemMax =< p * PageSize /\ RangeEnd(n) =< p * PageSize
  <2> TAKE p \in 0 .. NPages - 1
  <2>1. PICK x \in Nat : x = p * PageSize BY Marks
  <2>2. HoleStart(n) =< x <=> BmemMax =< x /\ RangeEnd(n) =< x BY <1>0, <1>6, <1>8
  <2> QED BY <2>1, <2>2
<1>10. ASSUME RangeEnd(n) < Xm32Max
       PROVE  /\ HoleEnd(n - 1) = PageDown(r.start)
              /\ HoleEnd(n - 1) < RangeEnd(n)
  <2>1. PageDown(r.start) < RangeEnd(n) BY <1>1, <1>6
  <2>2. ~(PageDown(r.start) > Xm32Max) BY <1>0, <1>6, <1>10, <2>1
  <2> QED BY <1>4, <2>1, <2>2
<1>11. ASSUME RangeEnd(n) < Xm32Max, BmemMax =< HoleEnd(n - 1)
       PROVE  HoleEnd(n - 1) =< HoleEnd(n)
  <2>1. CASE n = num_mem_ranges \/ PageDown(s.start) > Xm32Max
    <3>1. HoleEnd(n) = Xm32Max BY <1>5, <2>1
    <3> QED BY <3>1, <1>7
  <2>2. CASE n # num_mem_ranges /\ ~(PageDown(s.start) > Xm32Max)
    <3>1. HoleEnd(n) = PageDown(s.start) BY <1>5, <2>2
    <3>2. HoleEnd(n - 1) = PageDown(r.start) BY <1>10, <1>11
    <3>3. r.start >= BmemMax BY <1>0, <1>1, <1>6, <1>11, <3>2
    <3>4. s.start \in Nat /\ EndOf(r) =< s.start BY <1>2, <2>2, <3>3
    <3>5. r.start =< s.start BY <1>1, <3>4
    <3> QED BY <1>1, <3>1, <3>2, <3>4, <3>5, PageMonotone
  <2> QED BY <2>1, <2>2
<1>12. ASSUME NEW p \in 0 .. NPages - 1, HoleEnd(n - 1) =< p * PageSize
       PROVE  /\ p * PageSize < RangeEnd(n) => p \in Reported
              /\ /\ BmemMax =< p * PageSize /\ p * PageSize < HoleEnd(n)
                 /\ p \in Reported
                 => p * PageSize < RangeEnd(n)
  <2>1. /\ p \in Nat /\ p * PageSize \in Nat /\ p * PageSize < Xm32Max
        /\ (p + 1) * PageSize = p * PageSize + PageSize /\ PageSize \in Nat \ {0}
    BY Marks, PageFacts, VaInitAssumption
  <2>2. PICK x \in Nat, y \in Nat : x = p * PageSize /\ y = (p + 1) * PageSize /\ x < y
    BY <2>1
  <2>3. \A a \in Nat : /\ PageDown(a) =< x <=> a < y
                       /\ PageUp(a) =< x <=> a =< x
                       /\ PageDown(a) \in Nat /\ PageUp(a) \in Nat
    BY <2>1, <2>2, PageFacts
  <2>4. HoleEnd(n - 1) = PageDown(r.start) BY <1>0, <1>4, <1>6, <1>12, <2>1
  <2>5. r.start < y BY <1>1, <1>12, <2>2, <2>3, <2>4
  <2>6. x < RangeEnd(n) <=> x < EndOf(r)
    <3>1. RangeEnd(n) =< x <=> EndOf(r) =< x BY <1>1, <1>3, <2>3
    <3> QED BY <3>1, <1>1, <1>6
  <2>7. Occupied(p) <=> p \in Reported BY OccupiedReported
  <2>8. ASSUME x < RangeEnd(n) PROVE p \in Reported
    <3>1. EndOf(r) > x BY <2>6, <2>8, <1>1
    <3>2. Occupied(p) BY <1>0, <2>2, <2>5, <3>1 DEF Occupied, r
    <3> QED BY <2>7, <3>2
  <2>9. ASSUME BmemMax =< x, x < HoleEnd(n), p \in Reported PROVE x < RangeEnd(n)
    <3>1. PICK a \in LiveRanges : EndOf(mem_ranges[a]) > x /\ mem_ranges[a].start < y
      BY <2>2, <2>7, <2>9 DEF Occupied
    <3> DEFINE t == mem_ranges[a]
    <3>2. /\ t.start \in Nat /\ EndOf(t) \in Nat /\ t.start < EndOf(t)
          /\ EndOf(t) =< BmemMax \/ t.start >= BmemMax
      BY EntryFacts DEF LiveRanges
    <3>3. /\ a \in Nat /\ a < num_mem_ranges BY <1>0 DEF LiveRanges
    <3>4. t.start >= BmemMax BY <1>0, <2>9, <3>1, <3>2
    <3>5. CASE a > n - 1
      <4>1. n # num_mem_ranges BY <1>0, <3>3, <3>5
      <4>2. n \in LiveRanges BY <1>0, <4>1
      <4>3. x < PageDown(s.start)
        <5>1. HoleEnd(n) = Xm32Max => PageDown(s.start) >= Xm32Max
          BY <1>0, <1>5, <1>6, <4>1
        <5>2. HoleEnd(n) # Xm32Max => HoleEnd(n) = PageDown(s.start) BY <1>5
        <5>3. x < Xm32Max BY <2>1, <2>2
        <5> QED BY <1>0, <1>6, <2>9, <4>1, <5>1, <5>2, <5>3
      <4>4. y =< s.start
        <5>1. s.start \in Nat BY <1>2, <4>1
        <5>2. ~(PageDown(s.start) =< x) BY <1>6, <4>1, <4>3
        <5> QED BY <2>3, <5>1, <5>2
      <4>5. t.start < s.start /\ s.start \in Nat BY <1>2, <3>1, <3>2, <4>1, <4>4
      <4>6. a # n BY <4>5 DEF s
      <4>7. n < a BY <1>0, <3>3, <3>5, <4>6
      <4>8. EndOf(s) =< t.start BY <3>4, <4>2, <4>7, EntryFacts DEF s
      <4>9. s.start < EndOf(s) /\ EndOf(s) \in Nat BY <4>2, EntryFacts DEF s
      <4> QED BY <3>2, <4>5, <4>8, <4>9
    <3>6. CASE a = n - 1
      <4>1. t = r BY <3>6 DEF r
      <4> QED BY <2>6, <3>1, <4>1, <3>2
    <3>7. CASE a < n - 1
      <4>1. EndOf(t) =< r.start BY <1>0, <3>4, <3>7, EntryFacts DEF r
      <4> QED BY <1>1, <2>6, <3>1, <3>2, <4>1
    <3> QED BY <1>0, <3>3, <3>5, <3>6, <3>7
  <2> QED BY <2>2, <2>8, <2>9
<1>13. /\ RangeEnd(n) < Xm32Max => HoleEnd(n - 1) < RangeEnd(n)
       /\ RangeEnd(n) < Xm32Max /\ BmemMax =< HoleEnd(n - 1) => HoleEnd(n - 1) =< HoleEnd(n)
  BY <1>10, <1>11
<1>14. \A p \in 0 .. NPages - 1 :
        HoleEnd(n - 1) =< p * PageSize =>
            /\ p * PageSize < RangeEnd(n) => p \in Reported
            /\ /\ BmemMax =< p * PageSize /\ p * PageSize < HoleEnd(n)
               /\ p \in Reported
               => p * PageSize < RangeEnd(n)
  BY <1>12
<1> QED BY <1>6, <1>7, <1>8, <1>9, <1>13, <1>14

\* The hole before entry n is added, if there is one.
LEMMA OneMoreHole ==
    ASSUME IInv, Idle, NEW n \in 1 .. num_mem_ranges, RangeEnd(n) < Xm32Max,
           NEW hs, HolesBelow(hs, HoleEnd(n - 1), Reported), NEW ht,
           ht = IF HoleStart(n) < HoleEnd(n)
                THEN Append(hs, [start |-> HoleStart(n), len |-> HoleEnd(n) - HoleStart(n)])
                ELSE hs
    PROVE  HolesBelow(ht, HoleEnd(n), Reported) /\ Len(ht) =< Len(hs) + 1
<1> DEFINE S == HoleStart(n)
           E == HoleEnd(n)
           D == HoleEnd(n - 1)
           Z == RangeEnd(n)
           H == [start : Nat, len : Nat \ {0}]
           u == [start |-> S, len |-> E - S]
<1>1. /\ S \in Nat /\ E \in Nat /\ D \in Nat /\ Z \in Nat /\ BmemMax \in Nat
      /\ BmemMax =< S /\ Z =< S /\ D < Z
      /\ BmemMax =< D => D =< E
  BY HoleFacts, MapAssumption
<1>2. \A p \in 0 .. NPages - 1 : S =< p * PageSize
        <=> BmemMax =< p * PageSize /\ Z =< p * PageSize
  BY HoleFacts
<1>3. \A p \in 0 .. NPages - 1 :
        D =< p * PageSize =>
            /\ p * PageSize < Z => p \in Reported
            /\ BmemMax =< p * PageSize /\ p * PageSize < E /\ p \in Reported => p * PageSize < Z
  BY HoleFacts
<1>4. /\ hs \in Seq(H)
      /\ \A m \in 1 .. Len(hs) : BmemMax =< hs[m].start /\ EndOf(hs[m]) =< D
      /\ \A m \in 1 .. Len(hs) - 1 : EndOf(hs[m]) < hs[m + 1].start
      /\ \A p \in 0 .. NPages - 1 :
            InHole(hs, p) <=> BmemMax =< p * PageSize /\ p * PageSize < D /\ p \notin Reported
  BY DEF HolesBelow
<1>5. ht = IF S < E THEN Append(hs, u) ELSE hs OBVIOUS
<1> HIDE DEF H
<1>6. Len(hs) \in Nat /\ \A m \in 1 .. Len(hs) : hs[m] \in H BY <1>4
<1>7. \A m \in 1 .. Len(hs) :
        /\ hs[m].start \in Nat /\ EndOf(hs[m]) \in Nat /\ hs[m].start < EndOf(hs[m])
  <2> TAKE m \in 1 .. Len(hs)
  <2>1. hs[m] \in [start : Nat, len : Nat \ {0}] BY <1>6 DEF H
  <2> QED BY <2>1 DEF EndOf
<1> HIDE DEF S, E, D, Z, u
\* No hole found so far ends above the new mark.
<1>8. \A m \in 1 .. Len(hs) : EndOf(hs[m]) =< E
  <2> TAKE m \in 1 .. Len(hs)
  <2>1. BmemMax =< hs[m].start /\ EndOf(hs[m]) =< D BY <1>4
  <2>2. BmemMax =< D BY <1>1, <1>7, <2>1
  <2> QED BY <1>1, <1>7, <2>1, <2>2
<1>9. ASSUME NEW p \in 0 .. NPages - 1
      PROVE  (BmemMax =< p * PageSize /\ p * PageSize < E /\ p \notin Reported)
             <=> InHole(hs, p) \/ (S =< p * PageSize /\ p * PageSize < E)
  <2>1. PICK x \in Nat : x = p * PageSize BY Marks
  <2>2. /\ S =< x <=> BmemMax =< x /\ Z =< x
        /\ D =< x => /\ x < Z => p \in Reported
                     /\ BmemMax =< x /\ x < E /\ p \in Reported => x < Z
        /\ InHole(hs, p) <=> BmemMax =< x /\ x < D /\ p \notin Reported
    BY <1>2, <1>3, <1>4, <2>1
  <2>3. (BmemMax =< x /\ x < E /\ p \notin Reported) <=> InHole(hs, p) \/ (S =< x /\ x < E)
    <3>1. CASE D =< x BY <1>1, <2>2, <3>1
    <3>2. CASE x < D BY <1>1, <2>2, <3>2
    <3> QED BY <1>1, <3>1, <3>2
  <2> QED BY <2>1, <2>3
<1>10. CASE ~(S < E)
  <2>1. ht = hs BY <1>5, <1>10
  <2>2. \A p \in 0 .. NPages - 1 : ~(S =< p * PageSize /\ p * PageSize < E)
    BY <1>1, <1>10, Marks
  <2>3. \A p \in 0 .. NPages - 1 :
            InHole(hs, p) <=> BmemMax =< p * PageSize /\ p * PageSize < E /\ p \notin Reported
    BY <1>9, <2>2
  <2>4. HolesBelow(hs, E, Reported) BY <1>4, <1>8, <2>3 DEF HolesBelow, H
  <2> QED BY <1>6, <2>1, <2>4 DEF E
<1>11. CASE S < E
  <2>1. ht = Append(hs, u) BY <1>5, <1>11
  <2>2. u \in H /\ u.start = S /\ EndOf(u) = E
    <3>1. u = [start |-> S, len |-> E - S] /\ E - S \in Nat \ {0} BY <1>1, <1>11 DEF u
    <3>2. u.start = S /\ u.len = E - S /\ u \in H BY <1>1, <3>1 DEF H
    <3> QED BY <1>1, <3>2 DEF EndOf
  <2> DEFINE L == Len(hs)
  <2>3. /\ ht \in Seq(H) /\ Len(ht) = L + 1 /\ ht[L + 1] = u
        /\ \A m \in 1 .. L : ht[m] = hs[m]
    BY <1>4, <2>1, <2>2
  <2> HIDE DEF L
  <2>4. \A m \in 1 .. L + 1 : BmemMax =< ht[m].start /\ EndOf(ht[m]) =< E
    <3> TAKE m \in 1 .. L + 1
    <3>1. CASE m = L + 1 BY <1>1, <2>2, <2>3, <3>1
    <3>2. CASE m \in 1 .. L BY <1>4, <1>8, <2>3, <3>2 DEF L
    <3> QED BY <1>6, <3>1, <3>2 DEF L
  <2>5. \A m \in 1 .. L : EndOf(ht[m]) < ht[m + 1].start
    <3> TAKE m \in 1 .. L
    <3>1. L \in Nat BY <1>6 DEF L
    <3>2. CASE m = L
      <4>1. EndOf(hs[m]) =< D /\ EndOf(hs[m]) \in Nat BY <1>4, <1>7 DEF L
      <4>2. ht[m] = hs[m] /\ ht[m + 1] = u BY <2>3, <3>2
      <4>3. EndOf(ht[m]) =< D /\ EndOf(ht[m]) \in Nat /\ ht[m + 1].start = S
        BY <2>2, <4>1, <4>2
      <4>4. D < S /\ D \in Nat /\ S \in Nat BY ONLY <1>1
      <4> QED BY ONLY <4>3, <4>4
    <3>3. CASE m # L
      <4>1. m \in 1 .. L - 1 /\ m + 1 \in 1 .. L BY <3>1, <3>3
      <4>2. EndOf(hs[m]) < hs[m + 1].start BY <1>4, <4>1 DEF L
      <4> QED BY <2>3, <4>1, <4>2
    <3> QED BY <3>2, <3>3
  <2>6. \A p \in 0 .. NPages - 1 :
            InHole(ht, p) <=> InHole(hs, p) \/ (S =< p * PageSize /\ p * PageSize < E)
    <3> TAKE p \in 0 .. NPages - 1
    <3> DEFINE In(w) == w.start =< p * PageSize /\ p * PageSize < EndOf(w)
    <3>1. InHole(ht, p) <=> \E m \in 1 .. L + 1 : In(ht[m]) BY <2>3 DEF InHole
    <3>2. InHole(hs, p) <=> \E m \in 1 .. L : In(hs[m]) BY DEF InHole, L
    <3>3. In(u) <=> S =< p * PageSize /\ p * PageSize < E BY <2>2
    <3>4. \A m \in 1 .. L + 1 : m \in 1 .. L \/ m = L + 1 BY <1>6 DEF L
    <3>5. \A m \in 1 .. L : m \in 1 .. L + 1 BY <1>6 DEF L
    <3>6. L + 1 \in 1 .. L + 1 BY <1>6 DEF L
    <3> HIDE DEF In
    <3> QED BY <2>3, <3>1, <3>2, <3>3, <3>4, <3>5, <3>6
  <2>7. \A p \in 0 .. NPages - 1 :
            InHole(ht, p) <=> BmemMax =< p * PageSize /\ p * PageSize < E /\ p \notin Reported
    BY <1>9, <2>6
  <2>8. Len(ht) - 1 = L BY <1>6, <2>3 DEF L
  <2>9. HolesBelow(ht, E, Reported) BY <2>3, <2>4, <2>5, <2>7, <2>8 DEF HolesBelow, H
  <2> QED BY <1>6, <2>3, <2>9 DEF E, L
<1> QED BY <1>10, <1>11

\* Before the first entry there is no hole.
LEMMA FirstHole ==
    ASSUME IInv, Idle PROVE HolesBelow(<< >>, HoleEnd(0), Reported)
<1>1. /\ 1 \in 1 .. num_mem_ranges /\ mem_ranges[0].start < BmemMax
      /\ BmemMax \in Nat /\ Xm32Max \in Nat /\ 0 \in LiveRanges
  BY EntryFacts DEF LiveRanges
<1>2. HoleEnd(0) \in Nat /\ HoleEnd(0) < BmemMax
  <2>1. mem_ranges[0].start \in Nat BY <1>1, EntryFacts
  <2>2. /\ PageDown(mem_ranges[0].start) \in Nat
        /\ PageDown(mem_ranges[0].start) =< mem_ranges[0].start
    <3>1. 0 \in Nat OBVIOUS
    <3> QED BY <2>1, <3>1, PageFacts
  <2>3. 0 # num_mem_ranges BY <1>1
  <2>4. ~(PageDown(mem_ranges[0].start) > Xm32Max) BY <1>1, <2>1, <2>2, MapAssumption
  <2>5. HoleEnd(0) = PageDown(mem_ranges[0].start) BY <2>3, <2>4 DEF HoleEnd
  <2> QED BY <1>1, <2>1, <2>2, <2>5
<1>3. 1 .. Len(<< >>) = {} /\ 1 .. Len(<< >>) - 1 = {} OBVIOUS
<1>4. \A p \in 0 .. NPages - 1 :
        /\ ~InHole(<< >>, p)
        /\ ~(BmemMax =< p * PageSize /\ p * PageSize < HoleEnd(0))
  BY <1>1, <1>2, <1>3, Marks DEF InHole
<1>5. << >> \in Seq([start : Nat, len : Nat \ {0}]) OBVIOUS
<1> QED BY <1>3, <1>4, <1>5 DEF HolesBelow

\* After the last entry there is none, and none after one that ends at 4 GiB.
LEMMA LastHole ==
    ASSUME IInv, Idle, NEW n \in 1 .. num_mem_ranges + 1, NEW hs,
           HolesBelow(hs, HoleEnd(n - 1), Reported),
           n > num_mem_ranges \/ RangeEnd(n) >= Xm32Max
    PROVE  HolesBelow(hs, Xm32Max, Reported)
<1>0. num_mem_ranges \in Nat \ {0} /\ Xm32Max \in Nat BY EntryFacts
<1>1. CASE n > num_mem_ranges
  <2>1. n - 1 = num_mem_ranges BY <1>0, <1>1
  <2>2. HoleEnd(n - 1) = Xm32Max BY <2>1 DEF HoleEnd
  <2> QED BY <2>2
<1>2. CASE ~(n > num_mem_ranges)
  <2>1. n \in 1 .. num_mem_ranges /\ RangeEnd(n) >= Xm32Max BY <1>0, <1>2
  <2> DEFINE D == HoleEnd(n - 1)
  <2>2. /\ D \in Nat /\ D =< Xm32Max /\ RangeEnd(n) \in Nat
        /\ \A p \in 0 .. NPages - 1 :
            D =< p * PageSize => (p * PageSize < RangeEnd(n) => p \in Reported)
    BY <2>1, HoleFacts
  <2>3. /\ hs \in Seq([start : Nat, len : Nat \ {0}])
        /\ \A m \in 1 .. Len(hs) : BmemMax =< hs[m].start /\ EndOf(hs[m]) =< D
        /\ \A m \in 1 .. Len(hs) - 1 : EndOf(hs[m]) < hs[m + 1].start
        /\ \A p \in 0 .. NPages - 1 :
            InHole(hs, p) <=> BmemMax =< p * PageSize /\ p * PageSize < D /\ p \notin Reported
    BY DEF HolesBelow
  <2> HIDE DEF D
  <2>4. \A p \in 0 .. NPages - 1 :
          (BmemMax =< p * PageSize /\ p * PageSize < D /\ p \notin Reported)
          <=> (BmemMax =< p * PageSize /\ p * PageSize < Xm32Max /\ p \notin Reported)
    <3> TAKE p \in 0 .. NPages - 1
    <3>1. PICK x \in Nat : x = p * PageSize /\ x < Xm32Max BY Marks
    <3>2. D =< x => p \in Reported
      <4>1. x < RangeEnd(n) BY <1>0, <2>1, <2>2, <3>1
      <4> QED BY <2>2, <3>1, <4>1
    <3>3. ~(D =< x) => x < D BY <2>2
    <3> QED BY <3>1, <3>2, <3>3
  <2>5. \A m \in 1 .. Len(hs) : EndOf(hs[m]) =< Xm32Max
    <3> TAKE m \in 1 .. Len(hs)
    <3> DEFINE H == [start : Nat, len : Nat \ {0}]
    <3>1. hs \in Seq(H) /\ EndOf(hs[m]) =< D BY <2>3
    <3> HIDE DEF H
    <3>2. hs[m] \in H BY <3>1
    <3>3. EndOf(hs[m]) \in Nat BY <3>2 DEF EndOf, H
    <3> QED BY <1>0, <2>2, <3>1, <3>3
  <2> QED BY <2>3, <2>4, <2>5 DEF HolesBelow
<1> QED BY <1>1, <1>2

LEMMA HolesStep == ASSUME IInv, HoleInv, [NextAll]_allVars PROVE HoleInv'
<1> DEFINE Then == /\ DOMAIN todo = {"from", "to", "flags", "then"}
                   /\ todo.then \in {"idmap", "skip"}
<1>0. Then'
  <2>1. Then BY DEF HoleInv
  <2>2. CASE todo' = todo BY <2>1, <2>2
  <2>3. ASSUME NEW s, NEW e, NEW f, NEW then \in {"idmap", "skip"}, IdMap(s, e, f, then)
        PROVE  Then'
    BY <2>3 DEF IdMap
  <2>4. ASSUME NEW n, NEW kind, MapPages(n, kind) PROVE Then'
    <3>1. todo' = [todo EXCEPT !.from = todo.from + n] BY <2>4 DEF MapPages
    <3> QED BY <2>1, <3>1
  <2>5. CASE MapLarge \/ MapSmall BY <2>4, <2>5 DEF MapLarge, MapSmall
  <2>6. CASE MapBelowHoles BY <2>2, <2>3, <2>6 DEF MapBelowHoles
  <2>7. CASE MapBetweenHoles BY <2>2, <2>3, <2>7 DEF MapBetweenHoles
  <2>8. CASE SetAttr BY <2>2, <2>3, <2>8 DEF SetAttr
  <2>9. CASE AllocArray \/ FindHole \/ HolesFound \/ AllocPdpt \/ AllocPd \/ SkipDone
             \/ EnsurePt \/ PagingOn \/ MapDone \/ AllocLater
    <3>1. todo' = todo
      BY <2>9 DEF AllocArray, FindHole, HolesFound, AllocPdpt, AllocPd, SkipDone,
                  EnsurePt, PagingOn, MapDone, AllocLater, vaVars
    <3> QED BY <2>2, <3>1
  <2>10. CASE UNCHANGED vaVars BY <2>2, <2>10 DEF vaVars
  <2> QED BY <2>5, <2>6, <2>7, <2>8, <2>9, <2>10 DEF NextAll, VaInit, allVars
<1>1. CASE FindHole
  <2>1. /\ vpc = "holes" /\ Idle /\ vi =< num_mem_ranges /\ RangeEnd(vi) < Xm32Max
        /\ vi' = vi + 1 /\ vpc' = "holes" /\ UNCHANGED vars
        /\ unused_va_ranges' =
             IF HoleStart(vi) < HoleEnd(vi)
             THEN Append(unused_va_ranges, [start |-> HoleStart(vi),
                                            len |-> HoleEnd(vi) - HoleStart(vi)])
             ELSE unused_va_ranges
    BY <1>1 DEF FindHole
  <2>2. num_mem_ranges \in Nat \ {0} BY <2>1, EntryFacts
  <2>3. /\ vi \in 1 .. num_mem_ranges /\ Len(unused_va_ranges) =< vi - 1
        /\ HolesBelow(unused_va_ranges, HoleEnd(vi - 1), Reported)
    <3>1. CASE vi = 1 /\ unused_va_ranges = << >>
      <4>1. HolesBelow(<< >>, HoleEnd(0), Reported) BY <2>1, FirstHole
      <4>2. vi - 1 = 0 /\ Len(unused_va_ranges) = 0 BY <3>1
      <4> QED BY <2>2, <3>1, <4>1, <4>2
    <3>2. CASE ~(vi = 1 /\ unused_va_ranges = << >>) BY <2>1, <2>2, <3>2 DEF HoleInv
    <3> QED BY <3>1, <3>2
  <2>4. PICK n \in 1 .. num_mem_ranges : n = vi BY <2>3
  <2>5. PICK hs : hs = unused_va_ranges OBVIOUS
  <2>6. PICK ht : ht = unused_va_ranges' OBVIOUS
  <2>7. HolesBelow(ht, HoleEnd(n), Reported) /\ Len(ht) =< Len(hs) + 1
    <3>1. HolesBelow(hs, HoleEnd(n - 1), Reported) /\ RangeEnd(n) < Xm32Max
      BY <2>1, <2>3, <2>4, <2>5
    <3>2. ht = IF HoleStart(n) < HoleEnd(n)
               THEN Append(hs, [start |-> HoleStart(n), len |-> HoleEnd(n) - HoleStart(n)])
               ELSE hs
      BY <2>1, <2>4, <2>5, <2>6
    <3> QED BY <2>1, <3>1, <3>2, OneMoreHole
  <2>8. Len(ht) =< n /\ Len(hs) \in Nat
    <3>1. hs \in Seq([start : Nat, len : Nat \ {0}]) BY <2>3, <2>5 DEF HolesBelow
    <3>2. ht \in Seq([start : Nat, len : Nat \ {0}]) BY <2>7 DEF HolesBelow
    <3>3. Len(hs) \in Nat /\ Len(ht) \in Nat BY <3>1, <3>2
    <3> QED BY <2>3, <2>4, <2>5, <2>7, <3>3
  <2>9. /\ num_mem_ranges' = num_mem_ranges /\ mem_ranges' = mem_ranges
        /\ bparms' = bparms /\ pc' = pc
    BY <2>1 DEF vars, mapVars
  <2>10. Idle' /\ Reported' = Reported BY <2>1, <2>9 DEF Idle, Reported, PagesOf
  <2>11. vi' = n + 1 /\ vi' - 1 = n /\ vi' \in 2 .. num_mem_ranges' + 1
    BY <2>1, <2>2, <2>4, <2>9
  <2>12. HoleEnd(vi - 1)' = HoleEnd(n)
    <3>1. HoleEnd(n)' = HoleEnd(n) BY <2>9 DEF HoleEnd
    <3> QED BY <3>1, <2>11, <2>9 DEF HoleEnd
  <2>13. HolesBelow(unused_va_ranges, HoleEnd(vi - 1), Reported)'
    BY <2>6, <2>7, <2>10, <2>12 DEF HolesBelow
  <2>14. Len(unused_va_ranges') =< vi' - 1 BY <2>6, <2>8, <2>11
  <2> QED BY <1>0, <2>1, <2>10, <2>11, <2>13, <2>14 DEF HoleInv
<1>2. CASE HolesFound
  <2>1. /\ vpc = "holes" /\ Idle
        /\ vi > num_mem_ranges \/ RangeEnd(vi) >= Xm32Max
        /\ vpc' = "pdpt" /\ UNCHANGED vars /\ unused_va_ranges' = unused_va_ranges
    BY <1>2 DEF HolesFound, vaVars
  <2>2. /\ num_mem_ranges \in Nat \ {0} /\ max_mem_ranges \in Nat
        /\ num_mem_ranges =< max_mem_ranges
    BY <2>1, EntryFacts
  <2>3. /\ vi \in 1 .. num_mem_ranges + 1 /\ Len(unused_va_ranges) =< vi - 1
        /\ HolesBelow(unused_va_ranges, HoleEnd(vi - 1), Reported)
    <3>1. CASE vi = 1 /\ unused_va_ranges = << >>
      <4>1. HolesBelow(<< >>, HoleEnd(0), Reported) BY <2>1, FirstHole
      <4>2. vi - 1 = 0 /\ Len(unused_va_ranges) = 0 BY <3>1
      <4> QED BY <2>2, <3>1, <4>1, <4>2
    <3>2. CASE ~(vi = 1 /\ unused_va_ranges = << >>) BY <2>1, <2>2, <3>2 DEF HoleInv
    <3> QED BY <3>1, <3>2
  <2>4. PICK n \in 1 .. num_mem_ranges + 1 : n = vi BY <2>3
  <2>5. PICK hs : hs = unused_va_ranges OBVIOUS
  <2>6. HolesBelow(hs, Xm32Max, Reported)
    <3>1. /\ HolesBelow(hs, HoleEnd(n - 1), Reported)
          /\ n > num_mem_ranges \/ RangeEnd(n) >= Xm32Max
      BY <2>1, <2>3, <2>4, <2>5
    <3> QED BY <2>1, <3>1, LastHole
  <2>7. Len(hs) =< max_mem_ranges
    <3>1. hs \in Seq([start : Nat, len : Nat \ {0}]) BY <2>6 DEF HolesBelow
    <3>2. Len(hs) \in Nat BY <3>1
    <3> QED BY <2>2, <2>3, <2>4, <2>5, <3>2
  <2>8. /\ max_mem_ranges' = max_mem_ranges /\ bparms' = bparms /\ pc' = pc
    BY <2>1 DEF vars, mapVars
  <2>9. Idle' /\ Reported' = Reported BY <2>1, <2>8 DEF Idle, Reported, PagesOf
  <2>10. HolesBelow(unused_va_ranges, Xm32Max, Reported)'
    BY <2>1, <2>5, <2>6, <2>9 DEF HolesBelow
  <2> QED BY <1>0, <2>1, <2>5, <2>7, <2>8, <2>9, <2>10 DEF HoleInv
<1>3. CASE AllocArray
  <2>1. vpc = "array" /\ vpc' = "holes" /\ vi' = 1 /\ unused_va_ranges' = unused_va_ranges
    BY <1>3 DEF AllocArray
  <2> QED BY <1>0, <2>1 DEF HoleInv
<1>4. CASE (MapInit \/ Search) /\ UNCHANGED <<vpc, vaVars>>
  <2>1. /\ vpc' = vpc /\ vi' = vi /\ unused_va_ranges' = unused_va_ranges
    BY <1>4 DEF vaVars
  <2>2. ~Idle
    BY <1>4 DEF Idle, MapInit, Search, ChooseSpace, CopyRange, SortBegin, SortGap, SortPick,
                SortShift, SortPlace, SortNextGap, FindNarrow, FindWalk, ScanNext, ScanTake
  <2> QED BY <1>0, <2>1, <2>2 DEF HoleInv
<1>5. CASE UNCHANGED allVars
  <2>1. /\ vpc' = vpc /\ vi' = vi /\ unused_va_ranges' = unused_va_ranges
        /\ max_mem_ranges' = max_mem_ranges /\ bparms' = bparms /\ pc' = pc
        /\ num_mem_ranges' = num_mem_ranges /\ mem_ranges' = mem_ranges
    BY <1>5 DEF allVars, vaVars, vars, mapVars
  <2>2. Idle' = Idle /\ Reported' = Reported BY <2>1 DEF Idle, Reported, PagesOf
  <2>3. HoleEnd(vi - 1)' = HoleEnd(vi - 1) BY <2>1 DEF HoleEnd
  <2>4. /\ HolesBelow(unused_va_ranges, HoleEnd(vi - 1), Reported)'
           = HolesBelow(unused_va_ranges, HoleEnd(vi - 1), Reported)
        /\ HolesBelow(unused_va_ranges, Xm32Max, Reported)'
           = HolesBelow(unused_va_ranges, Xm32Max, Reported)
    BY <2>1, <2>2, <2>3 DEF HolesBelow
  <2> QED BY <1>0, <2>1, <2>2, <2>4 DEF HoleInv
<1>6. CASE AllocPdpt \/ AllocPd \/ MapBelowHoles \/ MapBetweenHoles \/ SetAttr \/ SkipDone
           \/ MapLarge \/ MapSmall \/ EnsurePt \/ PagingOn \/ AllocLater
  <2>1. vpc' \in {"pds", "map", "undefined", "attr", "idmap", "up"}
    BY <1>6 DEF AllocPdpt, AllocPd, MapBelowHoles, MapBetweenHoles, SetAttr, SkipDone,
                MapLarge, MapSmall, MapPages, EnsurePt, PagingOn, AllocLater, IdMap
  <2> QED BY <1>0, <2>1 DEF HoleInv
<1>7. CASE MapDone
  <2>1. vpc' = todo.then BY <1>7 DEF MapDone
  <2>2. todo.then \in {"idmap", "skip"} BY DEF HoleInv
  <2> QED BY <1>0, <2>1, <2>2 DEF HoleInv
<1> QED BY <1>1, <1>2, <1>3, <1>4, <1>5, <1>6, <1>7 DEF NextAll, VaInit

(***************************************************************************)
(* The holes that mem_va_map will give out are exactly the pages from      *)
(* 1 MiB to 4 GiB in which nothing was reported, in ascending order, for   *)
(* every memory map, in any order, and every size of page (mem.c:330-360). *)
(***************************************************************************)
THEOREM HolesCorrect == SpecAll => []HolesExact
<1>1. InitAll => HoleInv
  <2> SUFFICES ASSUME InitAll PROVE HoleInv OBVIOUS
  <2>1. vpc = "array" /\ unused_va_ranges = << >> /\ todo = NothingToDo BY DEF InitAll
  <2> QED BY <2>1 DEF HoleInv, NothingToDo
<1>2. IInv /\ HoleInv /\ [NextAll]_allVars => HoleInv' BY HolesStep
<1>3. HoleInv => HolesExact
  <2> SUFFICES ASSUME HoleInv, vpc = "pdpt" PROVE HolesExact BY DEF HolesExact
  <2> DEFINE hs == unused_va_ranges
  <2>1. Len(hs) =< max_mem_ranges /\ HolesBelow(hs, Xm32Max, Reported) BY DEF HoleInv
  <2>2. /\ \A n \in 1 .. Len(hs) - 1 : EndOf(hs[n]) < hs[n + 1].start
        /\ \A p \in 0 .. NPages - 1 :
            InHole(hs, p) <=> /\ BmemMax =< p * PageSize /\ p * PageSize < Xm32Max
                              /\ p \notin Reported
    BY <2>1 DEF HolesBelow
  <2>3. DOMAIN hs = 1 .. Len(hs)
    <3>1. hs \in Seq([start : Nat, len : Nat \ {0}]) BY <2>1 DEF HolesBelow
    <3> QED BY <3>1
  <2>4. \A p \in 0 .. NPages - 1 :
          (\E n \in DOMAIN hs : hs[n].start =< p * PageSize /\ p * PageSize < EndOf(hs[n]))
          <=> p * PageSize >= BmemMax /\ p \notin Reported
    <3> TAKE p \in 0 .. NPages - 1
    <3>1. p * PageSize \in Nat /\ p * PageSize < Xm32Max /\ BmemMax \in Nat
      BY Marks, MapAssumption
    <3>2. BmemMax =< p * PageSize <=> p * PageSize >= BmemMax BY <3>1
    <3>3. InHole(hs, p) <=> p * PageSize >= BmemMax /\ p \notin Reported
      BY <2>2, <3>1, <3>2
    <3> QED BY <2>3, <3>3 DEF InHole
  <2> QED BY <2>1, <2>2, <2>4 DEF HolesExact
<1> QED BY <1>1, <1>2, <1>3, InductiveAll, PTL DEF SpecAll

-----------------------------------------------------------------------------
(***************************************************************************)
(* The identity mapping that va_init() leaves.                             *)
(***************************************************************************)
Searching == {"find", "scan", "ready"}
AllApart == \A m, n \in 1 .. Len(bparms) : m # n => Disjoint(bparms[m], bparms[n])
BaseUniform ==
    \A m, n \in 1 .. Len(bparms) :
        bparms[m].start < BmemMax /\ bparms[n].start < BmemMax => bparms[m].attr = bparms[n].attr

\* An entry is a part of a range that was reported, with its attribute.
PartOf(r, bp) == \E a \in 1 .. Len(bp) : Within(r, bp[a]) /\ bp[a].attr = r.attr

\* What mem_alloc keeps of the array once it is sorted.
ArrayInv ==
    pc \in Searching =>
        /\ \A n \in LiveRanges : PartOf(mem_ranges[n], bparms)
        /\ AllApart => Ordered(mem_ranges, num_mem_ranges)

Pages == 0 .. NPages - 1
PageFlags == {"wb", "wt", "cd"}
Touches(r, p) == EndOf(r) > p * PageSize /\ r.start < (p + 1) * PageSize
AttrsOf(bp, p) == {bp[n].attr : n \in {m \in 1 .. Len(bp) : Touches(bp[m], p)}}
RightFlags(bp, p) == {PteFlags(a) : a \in AttrsOf(bp, p) \ {"wb"}}

\* The holes stay what they are while pages are mapped; they start and end at
\* borders of pages.
Aligned(hs) ==
    \A n \in 1 .. Len(hs) : \E a, b \in 0 .. NPages : hs[n].start = a * PageSize /\ EndOf(hs[n]) = b * PageSize
Mapping == {"map", "idmap", "attr", "skip", "up"}
KeptInv ==
    /\ vpc = "array" => unused_va_ranges = << >>
    /\ vpc # "array" => pc \notin Early
    /\ vpc \in {"holes", "pdpt", "pds"} \cup Mapping => Aligned(unused_va_ranges)
    /\ vpc \in {"pds"} \cup Mapping => HolesBelow(unused_va_ranges, Xm32Max, Reported)
    /\ vpc \in Mapping => unused_va_ranges # << >>

TodoInv ==
    /\ todo \in [from : Nat, to : 0 .. NPages, flags : PageFlags, then : {"idmap", "skip"}]
    /\ flags \in [Pages -> PageFlags \cup {"none"}]
    /\ vpc # "map" => todo.to =< todo.from

\* Below top, pages that are not in a hole are mapped; base memory that has one
\* attribute throughout has its flags.
MappedTo(hs, fl, bp, uniform, top) ==
    \A p \in Pages : p * PageSize < top /\ ~InHole(hs, p) =>
        /\ fl[p] # "none"
        /\ uniform => \A n \in 1 .. Len(bp) :
               bp[n].start < BmemMax /\ p * PageSize < BmemMax => fl[p] = PteFlags(bp[n].attr)

\* From the first hole up there is nothing but write-back.
PlainFrom(fl, bot) == \A p \in Pages : p * PageSize >= bot => fl[p] \in {"wb", "none"}

\* The loop that maps what lies between holes.
IdMapInv ==
    LET hs == unused_va_ranges
        uf == BaseUniform
    IN  /\ vpc \notin Mapping => \A p \in Pages : flags[p] = "none"
        /\ vpc = "idmap" => /\ vi \in 1 .. Len(hs) /\ PlainFrom(flags, hs[1].start)
                            /\ MappedTo(hs, flags, bparms, uf, EndOf(hs[vi]))
                            /\ hs[1].start =< hs[vi].start
        /\ vpc = "map" /\ todo.then = "idmap" =>
            /\ vi \in 1 .. Len(hs) /\ PlainFrom(flags, hs[1].start)
            /\ MappedTo(hs, flags, bparms, uf, todo.from * PageSize)
            /\ todo.from =< todo.to /\ todo.to * PageSize = hs[vi].start
            /\ hs[1].start =< hs[vi].start
            /\ vi = 1 /\ uf => \A n \in 1 .. Len(bparms) :
                bparms[n].start < BmemMax => todo.flags = PteFlags(bparms[n].attr)
            /\ vi > 1 => todo.flags = "wb" /\ todo.from * PageSize >= hs[1].start

\* In the loop over mem_ranges[]: each page that an entry passed has a part in
\* has its flags, or is about to be given them.
Setting == {"attr", "skip"}
InAttrLoop == vpc \in Setting \/ (vpc = "map" /\ todo.then = "skip")
Passed(m) == m < vi \/ (vpc # "attr" /\ mem_ranges[m].start =< start64)
Matters(p) == p * PageSize >= BmemMax \/ AllApart \/ BaseUniform
SetOrLeft(p) ==
    flags[p] \in RightFlags(bparms, p) \/ (todo.from =< p /\ p < todo.to)
EntryDone(r) ==
    r.attr # "wb" => \A p \in Pages : Touches(r, p) /\ Matters(p) => SetOrLeft(p)
PagesRight(hs, fl, td, bp, uniform) ==
    \A p \in Pages :
        /\ p * PageSize < EndOf(hs[Len(hs)]) /\ ~InHole(hs, p) => fl[p] # "none"
        /\ p * PageSize >= hs[1].start /\ AttrsOf(bp, p) \subseteq {"wb"}
             => fl[p] \in {"wb", "none"}
        /\ p * PageSize < BmemMax /\ uniform /\ AttrsOf(bp, p) \ {"wb"} # {}
             => fl[p] \in RightFlags(bp, p)
        /\ td.from =< p /\ p < td.to => td.flags \in RightFlags(bp, p)
LoopInv ==
    /\ vi \in 0 .. num_mem_ranges
    /\ PagesRight(unused_va_ranges, flags, todo, bparms, BaseUniform)
    /\ \A m \in LiveRanges : Passed(m) => EntryDone(mem_ranges[m])
AttrInv == start64 \in Nat /\ (InAttrLoop => LoopInv)

\* What is left in the end.
FinalPage(p) ==
    LET hs == unused_va_ranges IN
    /\ AttrsOf(bparms, p) = {"wb"} =>
        /\ p * PageSize < EndOf(hs[Len(hs)]) => flags[p] # "none"
        /\ p * PageSize >= hs[1].start => flags[p] \in {"wb", "none"}
    /\ AttrsOf(bparms, p) # {"wb"} =>
        /\ Matters(p) => flags[p] \in RightFlags(bparms, p)
        /\ p * PageSize < BmemMax => flags[p] # "none"
FinalInv == vpc = "up" => \A p \in Reported : FinalPage(p)

\* The map, and the entries once they are sorted.
LEMMA LiveFacts ==
    ASSUME IInv, pc \in {"sorted"} \cup Searching
    PROVE  /\ k - 1 = Len(bparms) /\ Len(bparms) \in Nat /\ StageOneMap(bparms)
           /\ \A a \in 1 .. Len(bparms) :
                /\ bparms[a] \in Ranges /\ Sound(bparms[a])
                /\ \A b \in 1 .. Len(bparms) : a # b => Apart(bparms[a], bparms[b])
           /\ num_mem_ranges \in Nat /\ max_mem_ranges \in Nat /\ num_mem_ranges =< max_mem_ranges
           /\ mem_ranges \in [0 .. max_mem_ranges - 1 -> Ranges]
           /\ \A n \in LiveRanges : mem_ranges[n] \in Ranges /\ Sound(mem_ranges[n])
           /\ InOrder(mem_ranges, num_mem_ranges) /\ Array = mem_ranges
           /\ chosen # 0
<1>1. StageOneMap(bparms) BY DEF IInv, TypeOK
<1>2. k = Len(bparms) + 1 /\ chosen # 0 BY DEF IInv, PlanInv, Searching
<1>3. Array = mem_ranges BY DEF Array, Searching
<1>4. /\ num_mem_ranges \in Nat /\ max_mem_ranges \in Nat /\ num_mem_ranges =< max_mem_ranges
      /\ mem_ranges \in [0 .. max_mem_ranges - 1 -> Ranges]
  BY DEF IInv, TypeOK
<1>5. \A n \in LiveRanges : mem_ranges[n] \in Ranges BY <1>4 DEF LiveRanges
<1>6. \A n \in LiveRanges : Sound(mem_ranges[n])
  BY <1>3 DEF IInv, DataInv, ShapeInv, Shape, LiveRanges
<1>7. InOrder(mem_ranges, num_mem_ranges) BY DEF IInv, OrderInv, Searching
<1>8. Len(bparms) \in Nat BY <1>1, MapApart
<1>9. k - 1 = Len(bparms) BY <1>2, <1>8
<1> QED BY <1>1, <1>2, <1>3, <1>4, <1>5, <1>6, <1>7, <1>8, <1>9, MapApart

\* mem_map_init and shellsort give each entry the attribute of its range.
LEMMA SortedParts ==
    ASSUME IInv, pc = "sorted", NEW n \in LiveRanges
    PROVE  PartOf(mem_ranges[n], bparms)
<1> DEFINE r == mem_ranges[n]
           S == Equals(mem_ranges, num_mem_ranges, r)
           O == OthersEqual(Len(bparms), r)
<1>1. /\ k - 1 = Len(bparms) /\ Len(bparms) \in Nat /\ StageOneMap(bparms)
      /\ num_mem_ranges \in Nat /\ Array = mem_ranges /\ r \in Ranges /\ chosen # 0
      /\ \A a \in 1 .. Len(bparms) : bparms[a] \in Ranges
  BY LiveFacts
<1>2. n \in S BY DEF Equals, LiveRanges
<1>3. Cardinality(S) = ExpectedOf(Len(bparms), r) BY <1>1 DEF IInv, CountInv
<1>4. Cardinality(S) # 0
  <2>1. IsFiniteSet(S) BY <1>1, CountsFinite
  <2> QED BY <1>2, <2>1, FS_EmptySet
<1>5. CASE O # {}
  <2>1. PICK m \in O : TRUE BY <1>5
  <2>2. m \in 1 .. Len(bparms) /\ bparms[m] = r BY <2>1 DEF OthersEqual
  <2>3. Within(r, r)
    <3>1. r.start \in Nat /\ EndOf(r) \in Nat BY <1>1, RangeType
    <3> QED BY <3>1 DEF Within
  <2> QED BY <2>2, <2>3 DEF PartOf
<1>6. CASE O = {}
  <2>1. Cardinality(O) = 0 BY <1>6, FS_EmptySet
  <2>2. r = Rest \/ r = MapArea BY <1>3, <1>4, <2>1 DEF ExpectedOf
  <2>3. /\ chosen \in 1 .. Len(bparms) /\ bparms[chosen] \in Ranges
        /\ Rest \in Ranges /\ MapArea \in Ranges
        /\ Rest.start = bparms[chosen].start /\ EndOf(Rest) = MapArea.start
        /\ EndOf(MapArea) = EndOf(bparms[chosen])
    BY <1>1, ChosenParts DEF IInv
  <2>4. Rest.attr = bparms[chosen].attr /\ MapArea.attr = bparms[chosen].attr
    BY <2>3 DEF Rest, MapArea, Ranges
  <2>5. /\ Rest.start \in Nat /\ EndOf(Rest) \in Nat /\ EndOf(Rest) >= Rest.start
        /\ MapArea.start \in Nat /\ EndOf(MapArea) \in Nat /\ EndOf(MapArea) >= MapArea.start
        /\ bparms[chosen].start \in Nat /\ EndOf(bparms[chosen]) \in Nat
    <3>1. ASSUME NEW s \in Ranges PROVE s.start \in Nat /\ EndOf(s) \in Nat /\ EndOf(s) >= s.start
      <4>1. s.start \in Nat /\ s.len \in Nat /\ EndOf(s) = s.start + s.len BY RangeType
      <4> QED BY <4>1
    <3> QED BY <2>3, <3>1
  <2>6. Within(Rest, bparms[chosen]) /\ Within(MapArea, bparms[chosen])
    BY <2>3, <2>5 DEF Within
  <2> QED BY <2>2, <2>3, <2>4, <2>6 DEF PartOf
<1> QED BY <1>5, <1>6

\* If no ranges overlap, then no entries do.
LEMMA EntriesApart ==
    ASSUME IInv, pc \in {"sorted"} \cup Searching, AllApart,
           NEW m \in LiveRanges, NEW n \in LiveRanges, m # n
    PROVE  Disjoint(mem_ranges[m], mem_ranges[n])
<1> SUFFICES ASSUME ~Disjoint(mem_ranges[m], mem_ranges[n]) PROVE FALSE OBVIOUS
<1>1. /\ k - 1 = Len(bparms) /\ Len(bparms) \in Nat /\ num_mem_ranges \in Nat /\ Array = mem_ranges
      /\ \A a \in 1 .. Len(bparms) : bparms[a] \in Ranges
      /\ \A a \in LiveRanges : mem_ranges[a] \in Ranges /\ Sound(mem_ranges[a])
  BY LiveFacts
<1>2. \A r \in Ranges : r.start \in Nat /\ EndOf(r) \in Nat /\ (Sound(r) => r.start < EndOf(r))
  <2> TAKE r \in Ranges
  <2>1. r.start \in Nat /\ r.len \in Nat /\ EndOf(r) = r.start + r.len BY RangeType
  <2>2. Sound(r) => r.len # 0 BY DEF Sound
  <2> QED BY <2>1, <2>2
<1>3. PICK b \in Nat : Covers(mem_ranges[m], b) /\ Covers(mem_ranges[n], b)
  <2>1. /\ mem_ranges[m].start \in Nat /\ mem_ranges[n].start \in Nat
        /\ EndOf(mem_ranges[m]) \in Nat /\ EndOf(mem_ranges[n]) \in Nat
        /\ mem_ranges[m].start < EndOf(mem_ranges[m]) /\ mem_ranges[n].start < EndOf(mem_ranges[n])
    BY <1>1, <1>2
  <2>2. mem_ranges[m].start < EndOf(mem_ranges[n]) /\ mem_ranges[n].start < EndOf(mem_ranges[m])
    BY <2>1 DEF Disjoint
  <2>3. CASE mem_ranges[m].start =< mem_ranges[n].start BY <2>1, <2>2, <2>3 DEF Covers
  <2>4. CASE mem_ranges[n].start =< mem_ranges[m].start BY <2>1, <2>2, <2>4 DEF Covers
  <2> QED BY <2>1, <2>3, <2>4
<1> DEFINE S == Holds(mem_ranges, num_mem_ranges, b)
           T == ReportedWith(Len(bparms), b)
<1>4. m \in S /\ n \in S BY <1>3 DEF Holds, LiveRanges
<1>5. Cardinality(S) = Cardinality(T) BY <1>1, <1>3 DEF IInv, DataInv, TileInv
<1>6. IsFiniteSet(S) /\ IsFiniteSet(T) BY <1>1, CountsFinite
<1>7. \A x, y \in T : x = y
  <2> SUFFICES ASSUME NEW x \in T, NEW y \in T, x # y PROVE FALSE OBVIOUS
  <2>1. x \in 1 .. Len(bparms) /\ y \in 1 .. Len(bparms) /\ Covers(bparms[x], b) /\ Covers(bparms[y], b)
    BY DEF ReportedWith
  <2>2. Disjoint(bparms[x], bparms[y]) BY <2>1 DEF AllApart
  <2>3. /\ bparms[x].start \in Nat /\ bparms[y].start \in Nat
        /\ EndOf(bparms[x]) \in Nat /\ EndOf(bparms[y]) \in Nat
    BY <1>1, <1>2, <2>1
  <2> QED BY <2>1, <2>2, <2>3 DEF Disjoint, Covers
<1> HIDE DEF S, T
<1>8. Cardinality(T) =< 1
  <2>1. CASE T = {} BY <2>1, FS_EmptySet
  <2>2. CASE T # {}
    <3>1. PICK x \in T : TRUE BY <2>2
    <3>2. T = {x} BY <1>7, <3>1
    <3>3. Cardinality({x}) = 1 BY FS_Singleton
    <3> QED BY <3>2, <3>3
  <2> QED BY <2>1, <2>2
<1>9. {m, n} \subseteq S /\ Cardinality({m, n}) = 2 /\ IsFiniteSet({m, n})
  <2>1. IsFiniteSet({m}) /\ Cardinality({m}) = 1 BY FS_Singleton
  <2>2. n \notin {m} /\ {m} \cup {n} = {m, n} OBVIOUS
  <2>3. IsFiniteSet({m} \cup {n}) /\ Cardinality({m} \cup {n}) = 1 + 1
    BY <2>1, <2>2, FS_AddElement
  <2> QED BY <1>4, <2>2, <2>3
<1>10. 2 =< Cardinality(S) BY <1>6, <1>9, FS_Subset
<1>11. Cardinality(T) \in Nat BY <1>6, FS_CardinalityType
<1> QED BY <1>5, <1>8, <1>10, <1>11

\* Each entry of B is a part of one of A at the same or a lower place.
Refined(A, N, B, N2) ==
    /\ N =< N2
    /\ \A m \in 0 .. N2 - 1 : \E o \in 0 .. N - 1 :
        o =< m /\ Within(B[m], A[o]) /\ B[m].attr = A[o].attr

LEMMA SameRefined ==
    ASSUME NEW N \in Nat, NEW A, \A m \in 0 .. N - 1 : A[m] \in Ranges,
           NEW B, \A m \in 0 .. N - 1 :
               B[m].start = A[m].start /\ EndOf(B[m]) = EndOf(A[m]) /\ B[m].attr = A[m].attr
    PROVE  Refined(A, N, B, N) /\ (Ordered(A, N) => Ordered(B, N))
<1>1. ASSUME NEW m \in 0 .. N - 1
      PROVE  \E o \in 0 .. N - 1 : o =< m /\ Within(B[m], A[o]) /\ B[m].attr = A[o].attr
  <2>1. A[m].start \in Nat /\ EndOf(A[m]) \in Nat BY RangeType
  <2>2. Within(B[m], A[m]) BY <2>1 DEF Within
  <2>3. m =< m OBVIOUS
  <2> QED BY <2>2, <2>3
<1>2. Ordered(A, N) => Ordered(B, N) BY DEF Ordered
<1> QED BY <1>1, <1>2 DEF Refined

LEMMA CutRefined ==
    ASSUME NEW N \in Nat, NEW x \in 0 .. N - 1, NEW at \in Nat, NEW A, NEW B,
           \A m \in 0 .. N - 1 : A[m] \in Ranges /\ Sound(A[m]),
           A[x].start < at, at < EndOf(A[x]), IsCut(A, N, B, x, at)
    PROVE  /\ Refined(A, N, B, N + 1)
           /\ /\ Ordered(A, N)
              /\ \A m, n \in 0 .. N - 1 : m # n => Disjoint(A[m], A[n])
              => Ordered(B, N + 1)
<1>1. ASSUME NEW m \in 0 .. N - 1
      PROVE  A[m].start \in Nat /\ EndOf(A[m]) \in Nat /\ A[m].start < EndOf(A[m])
  <2>1. A[m].start \in Nat /\ A[m].len \in Nat /\ EndOf(A[m]) = A[m].start + A[m].len BY RangeType
  <2>2. A[m].len # 0 BY DEF Sound
  <2> QED BY <2>1, <2>2
<1>2. /\ \A m \in 0 .. x - 1 : B[m] = A[m]
      /\ B[x].start = A[x].start /\ EndOf(B[x]) = at
      /\ B[x + 1].start = at /\ EndOf(B[x + 1]) = EndOf(A[x])
      /\ B[x].attr = A[x].attr /\ B[x + 1].attr = A[x].attr
      /\ \A m \in x + 2 .. N : B[m] = A[m - 1]
  BY DEF IsCut
<1>3. x \in Nat /\ x < N OBVIOUS
<1>4. ASSUME NEW m \in 0 .. N
      PROVE  \E o \in 0 .. N - 1 : o =< m /\ Within(B[m], A[o]) /\ B[m].attr = A[o].attr
  <2>1. CASE m < x
    <3>1. m \in 0 .. N - 1 /\ m =< m /\ B[m] = A[m] BY <1>2, <1>3, <2>1
    <3>2. Within(A[m], A[m]) BY <3>1, <1>1 DEF Within
    <3> QED BY <3>1, <3>2
  <2>2. CASE m = x
    <3>1. Within(B[x], A[x]) BY <1>1, <1>2 DEF Within
    <3>2. x =< m BY <2>2
    <3> QED BY <1>2, <2>2, <3>1, <3>2
  <2>3. CASE m = x + 1
    <3>1. Within(B[x + 1], A[x]) BY <1>1, <1>2 DEF Within
    <3>2. x =< m BY <2>3
    <3> QED BY <1>2, <2>3, <3>1, <3>2
  <2>4. CASE m > x + 1
    <3>1. m - 1 \in 0 .. N - 1 /\ m - 1 =< m /\ B[m] = A[m - 1] BY <1>2, <1>3, <2>4
    <3>2. Within(A[m - 1], A[m - 1]) BY <3>1, <1>1 DEF Within
    <3> QED BY <3>1, <3>2
  <2> QED BY <1>3, <2>1, <2>2, <2>3, <2>4
<1>5. Refined(A, N, B, N + 1)
  <2>1. N =< N + 1 /\ (N + 1) - 1 = N OBVIOUS
  <2> QED BY <1>4, <2>1 DEF Refined
<1>6. ASSUME Ordered(A, N), \A m, n \in 0 .. N - 1 : m # n => Disjoint(A[m], A[n])
      PROVE  Ordered(B, N + 1)
  <2>1. ASSUME NEW m \in 0 .. N - 1, NEW n \in 0 .. N - 1, m < n
        PROVE  EndOf(A[m]) =< A[n].start
    <3>1. A[m].start =< A[n].start BY <1>6, <2>1 DEF Ordered
    <3>2. Disjoint(A[m], A[n]) BY <1>6, <2>1
    <3> QED BY <1>1, <3>1, <3>2 DEF Disjoint
  <2>2. ASSUME NEW a \in 0 .. N, NEW b \in 0 .. N, a < b
        PROVE  B[a].start =< B[b].start
    <3>1. CASE b < x
      <4>1. a \in 0 .. N - 1 /\ b \in 0 .. N - 1 /\ B[a] = A[a] /\ B[b] = A[b] BY <1>2, <1>3, <2>2, <3>1
      <4> QED BY <1>6, <2>2, <4>1 DEF Ordered
    <3>2. CASE b = x
      <4>1. a \in 0 .. N - 1 /\ a < x /\ B[a] = A[a] BY <1>2, <1>3, <2>2, <3>2
      <4> QED BY <1>2, <1>6, <3>2, <4>1 DEF Ordered
    <3>3. CASE b = x + 1
      <4>1. CASE a = x BY <1>1, <1>2, <3>3, <4>1
      <4>2. CASE a < x
        <5>1. a \in 0 .. N - 1 /\ B[a] = A[a] BY <1>2, <1>3, <4>2
        <5>2. A[a].start =< A[x].start BY <1>6, <4>2, <5>1 DEF Ordered
        <5> QED BY <1>1, <1>2, <3>3, <5>1, <5>2
      <4> QED BY <1>3, <2>2, <3>3, <4>1, <4>2
    <3>4. CASE b > x + 1
      <4>1. b - 1 \in 0 .. N - 1 /\ x < b - 1 /\ B[b] = A[b - 1] BY <1>2, <1>3, <2>2, <3>4
      <4>2. EndOf(A[x]) =< A[b - 1].start BY <2>1, <4>1
      <4>3. CASE a < x
        <5>1. a \in 0 .. N - 1 /\ B[a] = A[a] /\ a < b - 1 BY <1>2, <1>3, <4>1, <4>3
        <5> QED BY <1>6, <4>1, <5>1 DEF Ordered
      <4>4. CASE a = x BY <1>1, <1>2, <4>1, <4>2, <4>4
      <4>5. CASE a = x + 1 BY <1>1, <1>2, <4>1, <4>2, <4>5
      <4>6. CASE a > x + 1
        <5>1. a - 1 \in 0 .. N - 1 /\ B[a] = A[a - 1] /\ a - 1 < b - 1 BY <1>2, <1>3, <2>2, <4>6
        <5> QED BY <1>6, <4>1, <5>1 DEF Ordered
      <4> QED BY <1>3, <4>3, <4>4, <4>5, <4>6
    <3> QED BY <1>3, <3>1, <3>2, <3>3, <3>4
  <2>3. (N + 1) - 1 = N OBVIOUS
  <2> QED BY <2>2, <2>3 DEF Ordered
<1> QED BY <1>5, <1>6

\* Taking a block: mem_alloc splits an entry, or none if it stops.
LEMMA Taken ==
    ASSUME IInv, ScanTake
    PROVE  /\ Refined(mem_ranges, num_mem_ranges, mem_ranges', num_mem_ranges')
           /\ /\ Ordered(mem_ranges, num_mem_ranges)
              /\ \A m, n \in LiveRanges : m # n => Disjoint(mem_ranges[m], mem_ranges[n])
              => Ordered(mem_ranges', num_mem_ranges')
           /\ num_mem_ranges' \in Nat
<1> DEFINE A == mem_ranges
           N == num_mem_ranges
           B == mem_ranges'
           r == mem_ranges[left]
           at == AllocStart(r)
<1>0. pc = "scan" /\ Fits(r) BY DEF ScanTake
<1>1. /\ N \in Nat /\ max_mem_ranges \in Nat /\ N =< max_mem_ranges
      /\ A \in [0 .. max_mem_ranges - 1 -> Ranges]
      /\ \A m \in 0 .. N - 1 : A[m] \in Ranges /\ Sound(A[m])
  BY <1>0, LiveFacts DEF Searching, LiveRanges
<1>2. left \in 0 .. N - 1 /\ req \in [size : Nat \ {0}, align : Nat \ {0}, max_addr : {0, BmemMax}]
  BY <1>0 DEF IInv, TypeOK, LiveRanges
<1>3. r \in Ranges /\ r.start \in Nat /\ EndOf(r) \in Nat BY <1>1, <1>2, RangeType
<1>4. EndOf(r) =< Xm32Max
  <2>1. EndOf(r) =< Limit BY <1>0, <1>2 DEF IInv, ScanInv
  <2>2. Limit =< Xm32Max /\ Limit \in Nat BY <1>2, MapAssumption DEF Limit
  <2> QED BY <1>3, <2>1, <2>2, MapAssumption
<1>5. at \in Nat /\ r.start =< at /\ at + req.size =< EndOf(r)
  BY <1>0, <1>2, <1>3, <1>4, BlockPlace
<1>6. at < EndOf(r)
  <2>1. req.size \in Nat /\ req.size > 0 BY <1>2
  <2> QED BY <1>3, <1>5, <2>1
<1>7. \/ mem_ranges' = mem_ranges /\ num_mem_ranges' = num_mem_ranges
      \/ ~(r.start # at /\ N >= max_mem_ranges) /\ SplitRange(left, at)
  BY DEF ScanTake
<1>8. CASE mem_ranges' = mem_ranges /\ num_mem_ranges' = num_mem_ranges
  BY <1>1, <1>8, SameRefined
<1>9. CASE /\ ~(r.start # at /\ N >= max_mem_ranges) /\ SplitRange(left, at)
           /\ r.start = at
  <2>1. B = [A EXCEPT ![left] = [r EXCEPT !.type = "RESERVED"]] /\ num_mem_ranges' = N
    BY <1>9 DEF SplitRange
  <2>2. left \in 0 .. max_mem_ranges - 1 BY <1>1, <1>2
  <2>3. B[left] = [r EXCEPT !.type = "RESERVED"] BY <1>1, <2>1, <2>2
  <2>4. B[left].start = r.start /\ B[left].len = r.len /\ B[left].attr = r.attr
    BY <1>3, <2>3 DEF Ranges
  <2>5. \A m \in 0 .. N - 1 : m # left => B[m] = A[m] BY <1>1, <2>1
  <2>6. EndOf(B[left]) = EndOf(A[left]) BY <2>4 DEF EndOf
  <2> HIDE DEF B
  <2>7. \A m \in 0 .. N - 1 : /\ B[m].start = A[m].start /\ EndOf(B[m]) = EndOf(A[m])
                              /\ B[m].attr = A[m].attr
    BY <2>4, <2>5, <2>6, Zenon
  <2>8. Refined(A, N, B, N) /\ (Ordered(A, N) => Ordered(B, N)) BY <1>1, <2>7, SameRefined
  <2> QED BY <1>1, <2>1, <2>8 DEF B
<1>10. CASE /\ ~(r.start # at /\ N >= max_mem_ranges) /\ SplitRange(left, at)
            /\ r.start # at
  <2>1. B = Cut(left, at) /\ num_mem_ranges' = N + 1 /\ N < max_mem_ranges
    BY <1>1, <1>10 DEF SplitRange
  <2>2. r.start < at BY <1>3, <1>5, <1>10
  <2>3. IsCut(A, N, B, left, at) BY <1>1, <1>2, <1>5, <1>6, <2>1, <2>2, CutIs
  <2> HIDE DEF B, at
  <2>4. /\ Refined(A, N, B, N + 1)
        /\ /\ Ordered(A, N)
           /\ \A m, n \in 0 .. N - 1 : m # n => Disjoint(A[m], A[n])
           => Ordered(B, N + 1)
    BY <1>1, <1>2, <1>5, <1>6, <2>2, <2>3, CutRefined
  <2> QED BY <1>1, <2>1, <2>4 DEF B, LiveRanges
<1> QED BY <1>7, <1>8, <1>9, <1>10

LEMMA PartOfPart ==
    ASSUME NEW bp, NEW r, NEW s, Within(r, s), r.attr = s.attr, PartOf(s, bp),
           r.start \in Nat, EndOf(r) \in Nat, s.start \in Nat, EndOf(s) \in Nat,
           \A a \in 1 .. Len(bp) : bp[a].start \in Nat /\ EndOf(bp[a]) \in Nat
    PROVE  PartOf(r, bp)
<1>1. PICK a \in 1 .. Len(bp) : Within(s, bp[a]) /\ bp[a].attr = s.attr BY DEF PartOf
<1>2. Within(r, bp[a]) BY <1>1 DEF Within
<1> QED BY <1>1, <1>2 DEF PartOf

LEMMA ArrayNow ==
    ASSUME IInv, ArrayInv, pc \in {"sorted"} \cup Searching
    PROVE  /\ \A n \in LiveRanges : PartOf(mem_ranges[n], bparms)
           /\ AllApart => Ordered(mem_ranges, num_mem_ranges)
<1>1. CASE pc = "sorted"
  BY <1>1, SortedParts DEF IInv, OrderInv
<1>2. CASE pc \in Searching BY <1>2 DEF ArrayInv
<1> QED BY <1>1, <1>2

\* Which steps change what: only mem_map_init and mem_alloc touch the array.
LEMMA Changes ==
    ASSUME [NextAll]_allVars
    PROVE  /\ bparms' = bparms
           /\ \/ MapInit /\ UNCHANGED <<vpc, vaVars>>
              \/ ScanTake /\ UNCHANGED <<vpc, vaVars>>
              \/ /\ mem_ranges' = mem_ranges /\ num_mem_ranges' = num_mem_ranges
                 /\ \/ pc' = pc
                    \/ pc \in {"sorted"} \cup Searching
                       /\ pc' \in Searching \cup {"halted", "underrun"}
<1>1. CASE MapInit /\ UNCHANGED <<vpc, vaVars>>
  <2>1. bparms' = bparms
    BY <1>1 DEF MapInit, ChooseSpace, CopyRange, SortBegin, SortGap, SortPick, SortShift,
                SortPlace, SortNextGap, mapVars
  <2> QED BY <1>1, <2>1
<1>2. CASE Search /\ UNCHANGED <<vpc, vaVars>>
  BY <1>2 DEF Search, FindNarrow, FindWalk, ScanNext, ScanTake, mapVars, Searching
<1>3. ASSUME NEW q, AllocBegin(q)
      PROVE  /\ bparms' = bparms /\ mem_ranges' = mem_ranges /\ num_mem_ranges' = num_mem_ranges
             /\ pc \in {"sorted"} \cup Searching /\ pc' \in Searching \cup {"halted", "underrun"}
  BY <1>3 DEF AllocBegin, mapVars, Searching
<1>4. CASE AllocArray \/ AllocPdpt \/ AllocPd \/ EnsurePt \/ AllocLater
  BY <1>3, <1>4 DEF AllocArray, AllocPdpt, AllocPd, EnsurePt, AllocLater
<1>5. ASSUME UNCHANGED vars
      PROVE  bparms' = bparms /\ mem_ranges' = mem_ranges /\ num_mem_ranges' = num_mem_ranges /\ pc' = pc
  BY <1>5 DEF vars, mapVars
<1>6. CASE FindHole \/ HolesFound \/ MapBelowHoles \/ MapBetweenHoles \/ SetAttr \/ SkipDone
           \/ MapLarge \/ MapSmall \/ MapDone \/ PagingOn \/ UNCHANGED allVars
  <2>1. UNCHANGED vars
    BY <1>6 DEF FindHole, HolesFound, MapBelowHoles, MapBetweenHoles, SetAttr, SkipDone,
                MapLarge, MapSmall, MapPages, MapDone, PagingOn, allVars
  <2> QED BY <1>5, <2>1
<1> QED BY <1>1, <1>2, <1>4, <1>6 DEF NextAll, VaInit

LEMMA TakenType ==
    ASSUME IInv, ScanTake
    PROVE  \A n \in 0 .. num_mem_ranges' - 1 : mem_ranges'[n] \in Ranges
<1>1. IInv' BY ScanTakeStep
<1>2. /\ mem_ranges' \in [0 .. max_mem_ranges' - 1 -> Ranges] /\ max_mem_ranges' \in Nat
      /\ num_mem_ranges' \in 0 .. max_mem_ranges'
  BY <1>1 DEF IInv, TypeOK
<1>3. \A N, M \in Nat : N \in 0 .. M => \A n \in 0 .. N - 1 : n \in 0 .. M - 1 OBVIOUS
<1>4. num_mem_ranges' \in Nat BY <1>2
<1>5. \A n \in 0 .. num_mem_ranges' - 1 : n \in 0 .. max_mem_ranges' - 1 BY <1>2, <1>3, <1>4, Zenon
<1> QED BY <1>2, <1>5, Zenon

LEMMA ArrayStep == ASSUME IInv, ArrayInv, [NextAll]_allVars PROVE ArrayInv'
<1>0. bparms' = bparms BY Changes
<1>1. AllApart' = AllApart BY <1>0 DEF AllApart
<1>2. CASE MapInit
  <2>1. pc' \notin Searching
    BY <1>2 DEF MapInit, ChooseSpace, CopyRange, SortBegin, SortGap, SortPick, SortShift,
                SortPlace, SortNextGap, Searching
  <2> QED BY <2>1 DEF ArrayInv
<1>3. CASE ScanTake
  <2>1. pc = "scan" /\ pc \in Searching BY <1>3 DEF ScanTake, Searching
  <2>2. /\ Refined(mem_ranges, num_mem_ranges, mem_ranges', num_mem_ranges')
        /\ /\ Ordered(mem_ranges, num_mem_ranges)
           /\ \A m, n \in LiveRanges : m # n => Disjoint(mem_ranges[m], mem_ranges[n])
           => Ordered(mem_ranges', num_mem_ranges')
        /\ num_mem_ranges' \in Nat
    BY <1>3, Taken
  <2>3. /\ \A n \in LiveRanges : PartOf(mem_ranges[n], bparms)
        /\ AllApart => Ordered(mem_ranges, num_mem_ranges)
    BY <2>1 DEF ArrayInv
  <2>4. AllApart => Ordered(mem_ranges', num_mem_ranges')
    BY <2>1, <2>2, <2>3, EntriesApart
  <2>5. /\ \A n \in LiveRanges : mem_ranges[n] \in Ranges
        /\ \A n \in 1 .. Len(bparms) : bparms[n] \in Ranges
    BY <2>1, LiveFacts
  <2>6. \A n \in 0 .. num_mem_ranges' - 1 : mem_ranges'[n] \in Ranges BY <1>3, TakenType
  <2>7. ASSUME NEW n \in 0 .. num_mem_ranges' - 1 PROVE PartOf(mem_ranges'[n], bparms)
    <3>1. PICK o \in 0 .. num_mem_ranges - 1 :
            Within(mem_ranges'[n], mem_ranges[o]) /\ mem_ranges'[n].attr = mem_ranges[o].attr
      BY <2>2 DEF Refined
    <3>2. PartOf(mem_ranges[o], bparms) /\ mem_ranges[o] \in Ranges /\ mem_ranges'[n] \in Ranges
      BY <2>3, <2>5, <2>6 DEF LiveRanges
    <3>3. /\ mem_ranges'[n].start \in Nat /\ EndOf(mem_ranges'[n]) \in Nat
          /\ mem_ranges[o].start \in Nat /\ EndOf(mem_ranges[o]) \in Nat
      BY <3>2, RangeType
    <3>4. \A a \in 1 .. Len(bparms) : bparms[a].start \in Nat /\ EndOf(bparms[a]) \in Nat
      BY <2>5, RangeType
    <3> QED BY <3>1, <3>2, <3>3, <3>4, PartOfPart
  <2> QED BY <1>0, <1>1, <2>4, <2>7 DEF ArrayInv, LiveRanges
<1>4. CASE /\ mem_ranges' = mem_ranges /\ num_mem_ranges' = num_mem_ranges
           /\ \/ pc' = pc
              \/ pc \in {"sorted"} \cup Searching /\ pc' \in Searching \cup {"halted", "underrun"}
  <2>1. CASE pc' \in Searching
    <3>1. pc \in {"sorted"} \cup Searching BY <1>4, <2>1
    <3>2. /\ \A n \in LiveRanges : PartOf(mem_ranges[n], bparms)
          /\ AllApart => Ordered(mem_ranges, num_mem_ranges)
      BY <3>1, ArrayNow
    <3>3. LiveRanges' = LiveRanges BY <1>4 DEF LiveRanges
    <3> QED BY <1>0, <1>1, <1>4, <3>2, <3>3 DEF ArrayInv
  <2>2. CASE pc' \notin Searching BY <2>2 DEF ArrayInv
  <2> QED BY <2>1, <2>2
<1> QED BY <1>2, <1>3, <1>4, Changes

\* Addresses of pages.
LEMMA PageAddress ==
    ASSUME NEW a \in Nat, NEW b \in Nat
    PROVE  /\ a * PageSize \in Nat /\ (a * PageSize) \div PageSize = a
           /\ a =< b <=> a * PageSize =< b * PageSize
           /\ a < b <=> a * PageSize < b * PageSize
           /\ (a + 1) * PageSize = a * PageSize + PageSize /\ PageSize \in Nat \ {0}
<1>0. PageSize \in Nat \ {0} BY VaInitAssumption
<1>1. 0 \in 0 .. PageSize - 1 BY <1>0
<1>2. (PageSize * a + 0) \div PageSize = a BY <1>0, <1>1, DivModUnique
<1>3. PageSize * a + 0 = a * PageSize /\ a * PageSize \in Nat BY <1>0
<1>4. /\ a =< b <=> a * PageSize =< b * PageSize
      /\ a < b <=> a * PageSize < b * PageSize
  BY <1>0, MulMonotone
<1>5. (a + 1) * PageSize = a * PageSize + PageSize BY <1>0
<1> QED BY <1>0, <1>2, <1>3, <1>4, <1>5

\* An address at a border of pages up to 4 GiB.
LEMMA PageBorder ==
    ASSUME NEW x \in Nat, x =< Xm32Max, NEW q \in Nat, x = q * PageSize
    PROVE  q \in 0 .. NPages
<1>1. NPages \in Nat /\ Xm32Max = NPages * PageSize BY Marks
<1>2. q =< NPages BY <1>1, PageAddress
<1> QED BY <1>1, <1>2

\* The holes, as va_init() computes their ends, start and end at borders.
LEMMA HoleBorders ==
    ASSUME IInv, Idle, NEW n \in 1 .. num_mem_ranges, HoleStart(n) < HoleEnd(n)
    PROVE  \E a, b \in 0 .. NPages : HoleStart(n) = a * PageSize /\ HoleEnd(n) = b * PageSize
<1>1. /\ HoleStart(n) \in Nat /\ HoleEnd(n) \in Nat /\ HoleEnd(n) =< Xm32Max /\ RangeEnd(n) \in Nat
  BY HoleFacts
<1>2. /\ num_mem_ranges \in Nat /\ BmemMax \in Nat /\ Xm32Max \in Nat
      /\ \A a \in LiveRanges : mem_ranges[a].start \in Nat /\ EndOf(mem_ranges[a]) \in Nat
  BY EntryFacts
<1>3. (\E q \in Nat : BmemMax = q * PageSize) /\ NPages \in Nat /\ Xm32Max = NPages * PageSize
  BY Marks
<1>4. PICK a \in Nat : HoleStart(n) = a * PageSize
  <2>1. CASE HoleStart(n) = BmemMax BY <1>3, <2>1
  <2>2. CASE HoleStart(n) = RangeEnd(n)
    <3>1. n - 1 \in LiveRanges BY <1>2 DEF LiveRanges
    <3> DEFINE c == EndOf(mem_ranges[n - 1]) + PageSize - 1
    <3>2. c \in Nat
      <4>1. EndOf(mem_ranges[n - 1]) \in Nat BY <1>2, <3>1
      <4> QED BY <4>1, VaInitAssumption
    <3>3. RangeEnd(n) = PageDown(c) BY DEF RangeEnd, PageUp
    <3> HIDE DEF c
    <3> QED BY <2>2, <3>2, <3>3, PageFacts
  <2> QED BY <2>1, <2>2 DEF HoleStart
<1>5. PICK b \in Nat : HoleEnd(n) = b * PageSize
  <2>1. CASE n = num_mem_ranges \/ PageDown(mem_ranges[n].start) > Xm32Max
    BY <1>3, <2>1 DEF HoleEnd
  <2>2. CASE ~(n = num_mem_ranges \/ PageDown(mem_ranges[n].start) > Xm32Max)
    <3>1. n \in LiveRanges BY <1>2, <2>2 DEF LiveRanges
    <3>2. HoleEnd(n) = PageDown(mem_ranges[n].start) BY <2>2 DEF HoleEnd
    <3> QED BY <1>2, <3>1, <3>2, PageFacts
  <2> QED BY <2>1, <2>2
<1>6. HoleStart(n) =< Xm32Max BY <1>1, <1>2
<1>7. a \in 0 .. NPages BY <1>1, <1>4, <1>6, PageBorder
<1>8. b \in 0 .. NPages BY <1>1, <1>5, PageBorder
<1> QED BY <1>4, <1>5, <1>7, <1>8

LEMMA KeptStep ==
    ASSUME IInv, HoleInv, KeptInv, [NextAll]_allVars PROVE KeptInv'
<1>0. bparms' = bparms BY Changes
<1>1. Reported' = Reported BY <1>0 DEF Reported, PagesOf
<1>2. (vpc # "array" => pc \notin Early)'
  <2>1. CASE pc' \in Early
    <3>1. (MapInit /\ vpc' = vpc) \/ pc' = pc
      BY <2>1, Changes DEF Early, Searching, ScanTake
    <3>2. CASE MapInit /\ vpc' = vpc
      <4>1. pc \in Early
        BY <3>2 DEF MapInit, ChooseSpace, CopyRange, SortBegin, SortGap, SortPick, SortShift,
                    SortPlace, SortNextGap, Early
      <4> QED BY <3>2, <4>1 DEF KeptInv
    <3>3. CASE pc' = pc
      <4>1. vpc = "array" BY <2>1, <3>3 DEF KeptInv
      <4>2. ~Idle BY <2>1, <3>3 DEF Idle, Early
      <4>3. vpc' = vpc
        BY <4>1, <4>2 DEF NextAll, VaInit, AllocArray, FindHole, HolesFound, AllocPdpt, AllocPd,
             MapBelowHoles, MapBetweenHoles, SetAttr, SkipDone, MapLarge, MapSmall, MapPages,
             EnsurePt, MapDone, PagingOn, AllocLater, allVars
      <4> QED BY <4>1, <4>3
    <3> QED BY <3>1, <3>2, <3>3
  <2>2. CASE pc' \notin Early BY <2>2
  <2> QED BY <2>1, <2>2
<1>3. ASSUME vpc' = vpc, unused_va_ranges' = unused_va_ranges PROVE KeptInv'
  <2>1. Aligned(unused_va_ranges)' = Aligned(unused_va_ranges) BY <1>3 DEF Aligned
  <2>2. HolesBelow(unused_va_ranges, Xm32Max, Reported)' = HolesBelow(unused_va_ranges, Xm32Max, Reported)
    BY <1>1, <1>3 DEF HolesBelow
  <2> QED BY <1>2, <1>3, <2>1, <2>2 DEF KeptInv
<1>4. ASSUME vpc' \in {"pds"} \cup Mapping, unused_va_ranges' = unused_va_ranges,
             Aligned(unused_va_ranges), HolesBelow(unused_va_ranges, Xm32Max, Reported),
             vpc' \in Mapping => unused_va_ranges # << >>
      PROVE  KeptInv'
  <2>1. Aligned(unused_va_ranges)' BY <1>4 DEF Aligned
  <2>2. HolesBelow(unused_va_ranges, Xm32Max, Reported)' BY <1>1, <1>4 DEF HolesBelow
  <2>3. vpc' # "array" BY <1>4 DEF Mapping
  <2> QED BY <1>2, <1>4, <2>1, <2>2, <2>3 DEF KeptInv
<1>5. CASE \/ (MapInit \/ Search) /\ UNCHANGED <<vpc, vaVars>>
           \/ AllocLater \/ UNCHANGED allVars \/ AllocPd \/ MapLarge \/ MapSmall \/ EnsurePt
           \/ Rests /\ UNCHANGED allVars
  BY <1>3, <1>5 DEF AllocLater, allVars, vaVars, AllocPd, MapLarge, MapSmall, MapPages, EnsurePt
<1>6. CASE AllocArray
  <2>1. vpc = "array" /\ vpc' = "holes" /\ unused_va_ranges' = unused_va_ranges BY <1>6 DEF AllocArray
  <2>2. unused_va_ranges' = << >> BY <2>1 DEF KeptInv
  <2>3. Aligned(unused_va_ranges)' BY <2>2 DEF Aligned
  <2> QED BY <1>2, <2>1, <2>3 DEF KeptInv, Mapping
<1>7. CASE FindHole
  <2>1. vpc = "holes" /\ vpc' = "holes" /\ Aligned(unused_va_ranges) BY <1>7 DEF FindHole, KeptInv
  <2>2. /\ Idle /\ vi =< num_mem_ranges
        /\ unused_va_ranges' =
             IF HoleStart(vi) < HoleEnd(vi)
             THEN Append(unused_va_ranges, [start |-> HoleStart(vi),
                                            len |-> HoleEnd(vi) - HoleStart(vi)])
             ELSE unused_va_ranges
    BY <1>7 DEF FindHole
  <2>3. CASE unused_va_ranges' = unused_va_ranges BY <1>3, <2>1, <2>3
  <2>4. CASE HoleStart(vi) < HoleEnd(vi)
    <3>1. num_mem_ranges \in Nat BY <2>2, EntryFacts
    <3>2. vi \in 1 .. num_mem_ranges BY <2>1, <2>2, <3>1 DEF HoleInv
    <3>3. PICK a, b \in 0 .. NPages : HoleStart(vi) = a * PageSize /\ HoleEnd(vi) = b * PageSize
      BY <2>2, <2>4, <3>2, HoleBorders
    <3>4. HoleStart(vi) \in Nat /\ HoleEnd(vi) \in Nat BY <2>2, <3>2, HoleFacts
    <3>5. unused_va_ranges \in Seq([start : Nat, len : Nat \ {0}])
      <4>1. unused_va_ranges = << >> \/ HolesBelow(unused_va_ranges, HoleEnd(vi - 1), Reported)
        BY <2>1 DEF HoleInv
      <4>2. << >> \in Seq([start : Nat, len : Nat \ {0}]) OBVIOUS
      <4> QED BY <4>1, <4>2 DEF HolesBelow
    <3> DEFINE hs == unused_va_ranges
               e == [start |-> HoleStart(vi), len |-> HoleEnd(vi) - HoleStart(vi)]
               ht == Append(hs, e)
    <3>6. e.start = HoleStart(vi) /\ EndOf(e) = HoleEnd(vi) /\ e \in [start : Nat, len : Nat \ {0}]
      <4>1. e.start = HoleStart(vi) /\ e.len = HoleEnd(vi) - HoleStart(vi) OBVIOUS
      <4>2. e.len \in Nat \ {0} BY <2>4, <3>4, <4>1
      <4> HIDE DEF e
      <4>3. EndOf(e) = HoleEnd(vi) BY <3>4, <4>1 DEF EndOf
      <4> QED BY <3>4, <4>1, <4>2, <4>3 DEF e
    <3> HIDE DEF e
    <3>7. /\ Len(ht) = Len(hs) + 1 /\ Len(hs) \in Nat
          /\ \A n \in 1 .. Len(hs) : ht[n] = hs[n]
          /\ ht[Len(hs) + 1] = e
      BY <3>5, <3>6
    <3> HIDE DEF ht
    <3>8. Aligned(ht)
      <4> SUFFICES ASSUME NEW n \in 1 .. Len(ht)
                   PROVE  \E x, y \in 0 .. NPages : ht[n].start = x * PageSize /\ EndOf(ht[n]) = y * PageSize
        BY DEF Aligned
      <4>1. CASE n \in 1 .. Len(hs) BY <2>1, <3>7, <4>1 DEF Aligned
      <4>2. CASE n = Len(hs) + 1 BY <3>3, <3>6, <3>7, <4>2
      <4> QED BY <3>7, <4>1, <4>2
    <3>9. unused_va_ranges' = ht BY <2>2, <2>4 DEF ht, e
    <3>10. Aligned(unused_va_ranges)' BY <3>8, <3>9 DEF Aligned
    <3> QED BY <1>2, <2>1, <3>10 DEF KeptInv, Mapping
  <2> QED BY <2>2, <2>3, <2>4
<1>8. CASE HolesFound
  <2>1. vpc = "holes" /\ vpc' = "pdpt" /\ unused_va_ranges' = unused_va_ranges
    BY <1>8 DEF HolesFound, vaVars
  <2>2. Aligned(unused_va_ranges)' BY <2>1 DEF KeptInv, Aligned
  <2> QED BY <1>2, <2>1, <2>2 DEF KeptInv, Mapping
<1>9. CASE AllocPdpt
  <2>1. vpc = "pdpt" /\ vpc' = "pds" /\ unused_va_ranges' = unused_va_ranges BY <1>9 DEF AllocPdpt
  <2>2. Aligned(unused_va_ranges) /\ HolesBelow(unused_va_ranges, Xm32Max, Reported)
    BY <2>1 DEF KeptInv, HoleInv
  <2>3. vpc' \notin Mapping BY <2>1 DEF Mapping
  <2> QED BY <1>4, <2>1, <2>2, <2>3
<1>10. CASE MapBelowHoles
  <2>1. /\ vpc = "pds" /\ unused_va_ranges' = unused_va_ranges
        /\ \/ vpc' = "undefined"
           \/ vpc' = "map" /\ unused_va_ranges # << >>
    BY <1>10 DEF MapBelowHoles, IdMap
  <2>2. CASE vpc' = "undefined" BY <1>2, <2>2 DEF KeptInv, Mapping
  <2>3. CASE vpc' = "map" /\ unused_va_ranges # << >> BY <1>4, <2>1, <2>3 DEF KeptInv, Mapping
  <2> QED BY <2>1, <2>2, <2>3
<1>11. CASE MapBetweenHoles \/ SetAttr \/ SkipDone \/ MapDone \/ PagingOn
  <2>1. vpc \in Mapping /\ vpc' \in Mapping /\ unused_va_ranges' = unused_va_ranges
    <3>1. todo.then \in Mapping BY DEF HoleInv, Mapping
    <3> QED BY <1>11, <3>1 DEF MapBetweenHoles, SetAttr, SkipDone, MapDone, PagingOn, IdMap, Mapping, vaVars
  <2> QED BY <1>4, <2>1 DEF KeptInv
<1> QED BY <1>5, <1>6, <1>7, <1>8, <1>9, <1>10, <1>11 DEF NextAll, VaInit

LEMMA FlagsOf ==
    ASSUME NEW a \in Attrs
    PROVE  PteFlags(a) \in PageFlags /\ (PteFlags(a) = "wb" <=> a = "wb")
<1>1. a = "wb" \/ a = "wt" \/ a = "uc" BY DEF Attrs
<1>2. CASE a = "wb"
  <2>1. PteFlags(a) = "wb" BY <1>2 DEF PteFlags
  <2> QED BY <1>2, <2>1 DEF PageFlags
<1>3. CASE a = "wt"
  <2>1. PteFlags(a) = "wt" BY <1>3 DEF PteFlags
  <2> QED BY <1>3, <2>1 DEF PageFlags
<1>4. CASE a = "uc"
  <2>1. PteFlags(a) = "cd" BY <1>4 DEF PteFlags
  <2> QED BY <1>4, <2>1 DEF PageFlags
<1> QED BY <1>1, <1>2, <1>3, <1>4

\* The pages that the loop over mem_ranges[] gives flags to for an entry are
\* those it has a part in, however it lies (mem.c:410-422).
LEMMA AttrPages ==
    ASSUME NEW r \in Ranges, r.start < Xm32Max
    PROVE  /\ PageDown(r.start) \div PageSize \in Nat
           /\ AttrEnd(r) \div PageSize \in 0 .. NPages
           /\ \A p \in Pages :
                /\ PageDown(r.start) \div PageSize =< p /\ p < AttrEnd(r) \div PageSize
                <=> Touches(r, p)
<1>0. /\ r.start \in Nat /\ EndOf(r) \in Nat /\ r.start =< EndOf(r) /\ Xm32Max \in Nat
  <2>1. r.start \in Nat /\ r.len \in Nat /\ EndOf(r) = r.start + r.len BY RangeType
  <2> QED BY <2>1, MapAssumption
<1>1. PICK x \in Nat : x = r.start BY <1>0
<1>2. PICK y \in Nat : y = EndOf(r) /\ x =< y BY <1>0, <1>1
<1>3. PICK e \in Nat : /\ e = (IF y >= Xm32Max THEN Xm32Max ELSE y) /\ x =< e /\ e =< Xm32Max
                       /\ e =< y
  BY <1>0, <1>1, <1>2
<1>4. PICK a \in Nat : PageDown(x) = a * PageSize BY PageFacts
<1>5. a * PageSize \in Nat /\ a * PageSize =< x BY <1>4, PageFacts
<1>6. PICK z \in Nat : z = a * PageSize /\ z =< e BY <1>3, <1>5
<1>7. e - z \in Nat BY <1>6
<1> DEFINE c == (e - z) + PageSize - 1
<1>8. c \in Nat BY <1>7, VaInitAssumption
<1>9. PageUp(e - z) = PageDown(c) BY DEF PageUp
<1> HIDE DEF c
<1>10. PICK b \in Nat : PageUp(e - z) = b * PageSize BY <1>8, <1>9, PageFacts
<1>11. AttrEnd(r) = PageDown(x) + PageUp(e - PageDown(x))
  BY <1>1, <1>2, <1>3 DEF AttrEnd
<1>12. AttrEnd(r) = (a + b) * PageSize
  <2>1. AttrEnd(r) = a * PageSize + b * PageSize BY <1>4, <1>6, <1>10, <1>11
  <2>2. (a + b) * PageSize = a * PageSize + b * PageSize BY VaInitAssumption
  <2> QED BY <2>1, <2>2
<1>13. PageDown(r.start) \div PageSize = a BY <1>1, <1>4, PageAddress
<1>14. AttrEnd(r) \div PageSize = a + b
  <2>1. a + b \in Nat OBVIOUS
  <2> QED BY <1>12, <2>1, PageAddress
<1>15. ASSUME NEW q \in Nat, a =< q
       PROVE  a + b =< q <=> e =< q * PageSize
  <2>1. q - a \in Nat BY <1>15
  <2>2. PICK d \in Nat : d = q - a BY <2>1
  <2>3. PageUp(e - z) =< d * PageSize <=> e - z =< d * PageSize BY <1>7, PageFacts
  <2>4. b =< d <=> b * PageSize =< d * PageSize BY PageAddress
  <2>5. q * PageSize = z + d * PageSize /\ d * PageSize \in Nat /\ q * PageSize \in Nat
    <3>1. q = a + d BY <2>2
    <3>2. (a + d) * PageSize = a * PageSize + d * PageSize BY VaInitAssumption
    <3>3. d * PageSize \in Nat BY PageAddress
    <3> QED BY <1>6, <3>1, <3>2, <3>3
  <2>6. PICK w \in Nat : w = d * PageSize BY <2>5
  <2>7. b =< d <=> e - z =< w BY <1>10, <2>3, <2>4, <2>6
  <2>8. e - z =< w <=> e =< z + w BY <1>6
  <2>9. b =< d <=> a + b =< q BY <2>2
  <2> QED BY <2>5, <2>6, <2>7, <2>8, <2>9
<1>16. NPages \in Nat /\ Xm32Max = NPages * PageSize BY Marks
<1>17. a + b \in 0 .. NPages
  <2>1. a * PageSize =< NPages * PageSize BY <1>0, <1>3, <1>6, <1>16
  <2>2. a =< NPages BY <1>16, <2>1, PageAddress
  <2>3. a + b =< NPages BY <1>3, <1>15, <1>16, <2>2
  <2> QED BY <1>16, <2>3
<1>18. ASSUME NEW p \in Pages
       PROVE  (a =< p /\ p < a + b) <=> Touches(r, p)
  <2>1. p \in Nat /\ p * PageSize \in Nat /\ p * PageSize < Xm32Max BY Marks DEF Pages
  <2>2. PICK w \in Nat : w = p * PageSize /\ w < Xm32Max BY <2>1
  <2>3. a =< p <=> x < (p + 1) * PageSize
    <3>1. PageDown(x) =< p * PageSize <=> x < (p + 1) * PageSize BY <2>1, PageFacts
    <3>2. a =< p <=> a * PageSize =< p * PageSize BY <2>1, PageAddress
    <3> QED BY <1>4, <3>1, <3>2
  <2>4. a =< p => (a + b =< p <=> e =< w) BY <1>15, <2>1, <2>2
  <2>5. e =< w <=> y =< w BY <1>0, <1>3, <2>2
  <2>6. y > w <=> ~(y =< w) BY <1>2, <2>2
  <2>7. p < a + b <=> ~(a + b =< p) BY <2>1
  <2>8. Touches(r, p) <=> y > w /\ x < (p + 1) * PageSize BY <1>1, <1>2, <2>2 DEF Touches
  <2> QED BY <2>3, <2>4, <2>5, <2>6, <2>7, <2>8
<1> QED BY <1>13, <1>14, <1>17, <1>18

\* A part of a range has a part in a page only if the range has.
LEMMA TouchPart ==
    ASSUME NEW r, NEW s, Within(r, s), NEW p \in Pages, Touches(r, p),
           r.start \in Nat, EndOf(r) \in Nat, s.start \in Nat, EndOf(s) \in Nat
    PROVE  Touches(s, p)
<1>1. p \in Nat BY Marks DEF Pages
<1>2. p * PageSize \in Nat /\ (p + 1) * PageSize \in Nat
  <2>1. p + 1 \in Nat BY <1>1
  <2> QED BY <1>1, <2>1, PageAddress
<1>3. PICK x \in Nat : x = p * PageSize BY <1>2
<1>4. PICK y \in Nat : y = (p + 1) * PageSize BY <1>2
<1> QED BY <1>3, <1>4 DEF Within, Touches

\* The pages of an entry: what it needs is among the flags its pages may have.
LEMMA EntryFlags ==
    ASSUME NEW bp, \A a \in 1 .. Len(bp) : bp[a] \in Ranges,
           NEW r \in Ranges, PartOf(r, bp), NEW p \in Pages, Touches(r, p)
    PROVE  /\ r.attr \in AttrsOf(bp, p)
           /\ r.attr # "wb" => PteFlags(r.attr) \in RightFlags(bp, p)
<1>1. PICK a \in 1 .. Len(bp) : Within(r, bp[a]) /\ bp[a].attr = r.attr BY DEF PartOf
<1>2. /\ r.start \in Nat /\ EndOf(r) \in Nat /\ bp[a].start \in Nat /\ EndOf(bp[a]) \in Nat
  BY <1>1, RangeType
<1>3. Touches(bp[a], p) BY <1>1, <1>2, TouchPart
<1>4. r.attr \in AttrsOf(bp, p) BY <1>1, <1>3 DEF AttrsOf
<1> QED BY <1>4 DEF RightFlags

\* The holes when mapping begins, in pages.
LEMMA HolesThere ==
    ASSUME KeptInv, vpc \in {"pds"} \cup Mapping
    PROVE  LET hs == unused_va_ranges IN
           /\ Len(hs) \in Nat /\ (hs # << >> => Len(hs) >= 1) /\ (vpc \in Mapping => Len(hs) >= 1)
           /\ \A n \in 1 .. Len(hs) :
                /\ hs[n].start \in Nat /\ EndOf(hs[n]) \in Nat /\ hs[n].start < EndOf(hs[n])
                /\ BmemMax =< hs[n].start /\ EndOf(hs[n]) =< Xm32Max
                /\ hs[n].start \div PageSize \in 0 .. NPages
                /\ EndOf(hs[n]) \div PageSize \in 0 .. NPages
                /\ (hs[n].start \div PageSize) * PageSize = hs[n].start
                /\ (EndOf(hs[n]) \div PageSize) * PageSize = EndOf(hs[n])
           /\ \A n \in 1 .. Len(hs) - 1 : EndOf(hs[n]) < hs[n + 1].start
           /\ \A p \in Pages : InHole(hs, p) <=> BmemMax =< p * PageSize /\ p \notin Reported
<1> DEFINE hs == unused_va_ranges
           H == [start : Nat, len : Nat \ {0}]
<1>1. HolesBelow(hs, Xm32Max, Reported) /\ Aligned(hs) /\ (vpc \in Mapping => hs # << >>)
  BY DEF KeptInv
<1>2. /\ hs \in Seq(H)
      /\ \A n \in 1 .. Len(hs) : BmemMax =< hs[n].start /\ EndOf(hs[n]) =< Xm32Max
      /\ \A n \in 1 .. Len(hs) - 1 : EndOf(hs[n]) < hs[n + 1].start
      /\ \A p \in Pages :
            InHole(hs, p) <=> BmemMax =< p * PageSize /\ p * PageSize < Xm32Max /\ p \notin Reported
  BY <1>1 DEF HolesBelow, Pages
<1> HIDE DEF H, hs
<1>3. Len(hs) \in Nat /\ (hs # << >> => Len(hs) >= 1) /\ \A n \in 1 .. Len(hs) : hs[n] \in H
  BY <1>2
<1>4. ASSUME NEW n \in 1 .. Len(hs)
      PROVE  /\ hs[n].start \in Nat /\ EndOf(hs[n]) \in Nat /\ hs[n].start < EndOf(hs[n])
             /\ hs[n].start \div PageSize \in 0 .. NPages
             /\ EndOf(hs[n]) \div PageSize \in 0 .. NPages
             /\ (hs[n].start \div PageSize) * PageSize = hs[n].start
             /\ (EndOf(hs[n]) \div PageSize) * PageSize = EndOf(hs[n])
  <2>1. hs[n].start \in Nat /\ hs[n].len \in Nat \ {0} BY <1>3 DEF H
  <2>2. hs[n].start \in Nat /\ EndOf(hs[n]) \in Nat /\ hs[n].start < EndOf(hs[n])
    BY <2>1 DEF EndOf
  <2>3. PICK a, b \in 0 .. NPages : hs[n].start = a * PageSize /\ EndOf(hs[n]) = b * PageSize
    BY <1>1 DEF Aligned
  <2>4. a \in Nat /\ b \in Nat BY Marks
  <2>5. (a * PageSize) \div PageSize = a /\ (b * PageSize) \div PageSize = b BY <2>4, PageAddress
  <2> QED BY <2>2, <2>3, <2>5
<1>5. \A p \in Pages : p * PageSize < Xm32Max BY Marks DEF Pages
<1> QED BY <1>1, <1>2, <1>3, <1>4, <1>5 DEF hs

\* An entry while nobody is inside mem_alloc.
LEMMA IdleEntry ==
    ASSUME IInv, ArrayInv, Idle, NEW n \in LiveRanges
    PROVE  /\ mem_ranges[n] \in Ranges /\ Sound(mem_ranges[n]) /\ PartOf(mem_ranges[n], bparms)
           /\ PteFlags(mem_ranges[n].attr) \in PageFlags
           /\ PteFlags(mem_ranges[n].attr) = "wb" <=> mem_ranges[n].attr = "wb"
<1>1. pc \in {"sorted"} \cup Searching BY DEF Idle, Searching
<1>2. mem_ranges[n] \in Ranges /\ Sound(mem_ranges[n]) BY <1>1, LiveFacts
<1>3. PartOf(mem_ranges[n], bparms) BY <1>1, ArrayNow
<1>4. mem_ranges[n].attr \in Attrs BY <1>2, RangeType
<1> QED BY <1>2, <1>3, <1>4, FlagsOf

LEMMA FirstLive == ASSUME IInv, Idle PROVE 0 \in LiveRanges /\ mem_ranges[0].start < BmemMax
<1>1. num_mem_ranges \in Nat \ {0} /\ mem_ranges[0].start < BmemMax BY EntryFacts
<1> QED BY <1>1 DEF LiveRanges

TodoType == [from : Nat, to : 0 .. NPages, flags : PageFlags, then : {"idmap", "skip"}]

\* do_va_map()'s loop stays within the range it was called for.
LEMMA MapStep ==
    ASSUME TodoInv, MapLarge \/ MapSmall
    PROVE  \E n \in Nat :
             /\ todo.from + n =< todo.to /\ n > 0 /\ vpc = "map" /\ Idle
             /\ flags' = [p \in Pages |-> IF p \in todo.from .. todo.from + n - 1
                                          THEN todo.flags ELSE flags[p]]
             /\ todo' = [todo EXCEPT !.from = todo.from + n]
             /\ UNCHANGED <<vars, vpc, vi, unused_va_ranges, start64>>
<1>1. todo.from \in Nat /\ todo.to \in Nat
  <2>1. todo.from \in Nat /\ todo.to \in 0 .. NPages BY DEF TodoInv
  <2> QED BY <2>1, Marks
<1>2. DOMAIN flags = Pages BY DEF TodoInv
<1>3. CASE MapLarge
  <2>1. LP \in Nat /\ LP > 0 BY VaInitAssumption
  <2>2. todo.to - todo.from >= LP /\ MapPages(LP, "large") /\ vpc = "map" /\ Idle
    BY <1>3 DEF MapLarge, Large
  <2>3. todo.from + LP =< todo.to BY <1>1, <2>1, <2>2
  <2> QED BY <1>2, <2>1, <2>2, <2>3 DEF MapPages
<1>4. CASE MapSmall
  <2>1. todo.from < todo.to /\ MapPages(1, "table") /\ vpc = "map" /\ Idle BY <1>4 DEF MapSmall
  <2>2. todo.from + 1 =< todo.to /\ 1 \in Nat /\ 1 > 0 BY <1>1, <2>1
  <2> QED BY <1>2, <2>1, <2>2 DEF MapPages
<1> QED BY <1>3, <1>4

LEMMA TodoStep ==
    ASSUME IInv, ArrayInv, KeptInv, TodoInv, IdMapInv, AttrInv, [NextAll]_allVars
    PROVE  TodoInv'
<1>0. todo \in TodoType /\ flags \in [Pages -> PageFlags \cup {"none"}] BY DEF TodoInv, TodoType
<1>1. ASSUME todo' = todo, flags' = flags, vpc' = vpc \/ vpc # "map" \/ todo.to =< todo.from
      PROVE  TodoInv'
  BY <1>1 DEF TodoInv
<1>2. ASSUME NEW s, NEW e, NEW f \in PageFlags, NEW then \in {"idmap", "skip"},
             IdMap(s, e, f, then), s \div PageSize \in Nat, e \div PageSize \in 0 .. NPages,
             flags' = flags
      PROVE  TodoInv'
  <2>1. vpc' = "map" /\ todo' \in TodoType BY <1>2 DEF IdMap, TodoType
  <2> QED BY <1>0, <1>2, <2>1 DEF TodoInv, TodoType
<1>3. CASE \/ (MapInit \/ Search) /\ UNCHANGED <<vpc, vaVars>>
           \/ AllocLater \/ UNCHANGED allVars \/ EnsurePt
           \/ Rests /\ UNCHANGED allVars
  BY <1>1, <1>3 DEF AllocLater, allVars, vaVars, EnsurePt
<1>4. CASE AllocArray \/ FindHole \/ HolesFound \/ AllocPdpt \/ AllocPd \/ SkipDone \/ PagingOn
  BY <1>1, <1>4 DEF AllocArray, FindHole, HolesFound, AllocPdpt, AllocPd, SkipDone, PagingOn, vaVars
<1>5. CASE MapDone
  <2>1. todo.from >= todo.to /\ todo' = todo /\ flags' = flags BY <1>5 DEF MapDone, vaVars
  <2>2. todo.from \in Nat /\ todo.to \in Nat
    <3>1. todo.from \in Nat /\ todo.to \in 0 .. NPages BY <1>0 DEF TodoType
    <3> QED BY <3>1, Marks
  <2>3. todo.to =< todo.from BY <2>1, <2>2
  <2> QED BY <1>1, <2>1, <2>3
<1>6. CASE MapLarge \/ MapSmall
  <2>1. PICK n \in Nat :
             /\ todo.from + n =< todo.to /\ vpc = "map"
             /\ flags' = [p \in Pages |-> IF p \in todo.from .. todo.from + n - 1
                                          THEN todo.flags ELSE flags[p]]
             /\ todo' = [todo EXCEPT !.from = todo.from + n]
             /\ UNCHANGED vpc
    BY <1>6, MapStep
  <2>2. todo.flags \in PageFlags /\ todo.from \in Nat BY <1>0 DEF TodoType
  <2>3. flags' \in [Pages -> PageFlags \cup {"none"}] BY <1>0, <2>1, <2>2
  <2>4. todo.from + n \in Nat BY <2>2
  <2>5. todo' \in TodoType BY <1>0, <2>1, <2>4 DEF TodoType
  <2> QED BY <2>1, <2>3, <2>5 DEF TodoInv, TodoType
<1>7. CASE MapBelowHoles
  <2>1. CASE vpc' = "undefined" /\ UNCHANGED <<vi, todo>>
    BY <1>1, <1>7, <2>1 DEF MapBelowHoles
  <2>2. CASE /\ unused_va_ranges # << >>
             /\ IdMap(0, unused_va_ranges[1].start, PteFlags(mem_ranges[0].attr), "idmap")
    <3>1. vpc = "pds" /\ Idle /\ flags' = flags BY <1>7 DEF MapBelowHoles
    <3>2. Len(unused_va_ranges) \in Nat /\ Len(unused_va_ranges) >= 1 BY <2>2, <3>1, HolesThere
    <3>3. 1 \in 1 .. Len(unused_va_ranges) BY <3>2
    <3>4. unused_va_ranges[1].start \div PageSize \in 0 .. NPages BY <3>1, <3>3, HolesThere
    <3>5. PteFlags(mem_ranges[0].attr) \in PageFlags BY <3>1, FirstLive, IdleEntry
    <3>6. 0 \div PageSize \in Nat
      <4>1. 0 * PageSize = 0 /\ (0 * PageSize) \div PageSize = 0 BY PageAddress, VaInitAssumption
      <4> QED BY <4>1
    <3> QED BY <1>2, <2>2, <3>1, <3>4, <3>5, <3>6
  <2> QED BY <1>7, <2>1, <2>2 DEF MapBelowHoles
<1>8. CASE MapBetweenHoles
  <2>1. CASE vi < Len(unused_va_ranges)
    <3>1. /\ vpc = "idmap" /\ flags' = flags
          /\ IdMap(EndOf(unused_va_ranges[vi]), unused_va_ranges[vi + 1].start, "wb", "idmap")
      BY <1>8, <2>1 DEF MapBetweenHoles
    <3>2. vpc \in Mapping BY <3>1 DEF Mapping
    <3>3. Len(unused_va_ranges) \in Nat BY <3>2, HolesThere
    <3>4. vi \in 1 .. Len(unused_va_ranges) BY <3>1 DEF IdMapInv
    <3>5. vi + 1 \in 1 .. Len(unused_va_ranges) BY <2>1, <3>3, <3>4
    <3>6. /\ unused_va_ranges[vi + 1].start \div PageSize \in 0 .. NPages
          /\ EndOf(unused_va_ranges[vi]) \div PageSize \in 0 .. NPages
      BY <3>2, <3>4, <3>5, HolesThere
    <3>7. EndOf(unused_va_ranges[vi]) \div PageSize \in Nat BY <3>6, Marks
    <3>8. "wb" \in PageFlags BY DEF PageFlags
    <3> QED BY <1>2, <3>1, <3>6, <3>7, <3>8
  <2>2. CASE ~(vi < Len(unused_va_ranges))
    <3>1. vpc = "idmap" /\ flags' = flags /\ todo' = todo BY <1>8, <2>2 DEF MapBetweenHoles
    <3> QED BY <1>1, <3>1
  <2> QED BY <2>1, <2>2
<1>9. CASE SetAttr
  <2> DEFINE r == mem_ranges[vi]
  <2>1. vpc = "attr" /\ Idle /\ vi < num_mem_ranges /\ flags' = flags BY <1>9 DEF SetAttr
  <2>2. CASE PteFlags(r.attr) = "wb" \/ r.start >= Xm32Max
    BY <1>1, <1>9, <2>1, <2>2 DEF SetAttr
  <2>3. CASE ~(PteFlags(r.attr) = "wb" \/ r.start >= Xm32Max)
    <3>1. IdMap(PageDown(r.start), AttrEnd(r), PteFlags(r.attr), "skip") BY <1>9, <2>3 DEF SetAttr
    <3>2. vi \in LiveRanges
      <4>1. num_mem_ranges \in Nat BY <2>1, EntryFacts
      <4>2. vi \in 0 .. num_mem_ranges BY <2>1 DEF AttrInv, InAttrLoop, Setting, LoopInv
      <4> QED BY <2>1, <4>1, <4>2 DEF LiveRanges
    <3>3. r \in Ranges /\ PteFlags(r.attr) \in PageFlags BY <2>1, <3>2, IdleEntry
    <3>4. r.start < Xm32Max
      <4>1. r.start \in Nat BY <3>3, RangeType
      <4> QED BY <2>3, <4>1, MapAssumption
    <3>5. PageDown(r.start) \div PageSize \in Nat /\ AttrEnd(r) \div PageSize \in 0 .. NPages
      BY <3>3, <3>4, AttrPages
    <3> QED BY <1>2, <2>1, <3>1, <3>3, <3>5
  <2> QED BY <2>2, <2>3
<1> QED BY <1>3, <1>4, <1>5, <1>6, <1>7, <1>8, <1>9 DEF NextAll, VaInit

\* Some more pages are given the flags fs.
LEMMA MappedMore ==
    ASSUME NEW hs, NEW fl, NEW fl2, NEW bp, NEW uf, NEW from \in Nat, NEW n \in Nat, NEW fs,
           MappedTo(hs, fl, bp, uf, from * PageSize), fs # "none",
           fl2 = [p \in Pages |-> IF p \in from .. from + n - 1 THEN fs ELSE fl[p]],
           uf /\ from * PageSize < BmemMax =>
               \A m \in 1 .. Len(bp) : bp[m].start < BmemMax => fs = PteFlags(bp[m].attr)
    PROVE  MappedTo(hs, fl2, bp, uf, (from + n) * PageSize)
<1> SUFFICES ASSUME NEW p \in Pages, p * PageSize < (from + n) * PageSize, ~InHole(hs, p)
             PROVE  /\ fl2[p] # "none"
                    /\ uf => \A m \in 1 .. Len(bp) :
                         bp[m].start < BmemMax /\ p * PageSize < BmemMax => fl2[p] = PteFlags(bp[m].attr)
  BY DEF MappedTo
<1>1. p \in Nat /\ from + n \in Nat BY Marks DEF Pages
<1>2. p < from + n BY <1>1, PageAddress
<1>3. CASE p < from
  <2>1. fl2[p] = fl[p] BY <1>1, <1>3
  <2>2. p * PageSize < from * PageSize BY <1>1, <1>3, PageAddress
  <2> QED BY <2>1, <2>2 DEF MappedTo
<1>4. CASE ~(p < from)
  <2>1. p \in from .. from + n - 1 BY <1>1, <1>2, <1>4
  <2>2. fl2[p] = fs BY <2>1
  <2>3. from =< p BY <1>1, <1>4
  <2>4. from * PageSize =< p * PageSize /\ from * PageSize \in Nat /\ p * PageSize \in Nat
    BY <1>1, <2>3, PageAddress
  <2>5. p * PageSize < BmemMax => from * PageSize < BmemMax BY <2>4, MapAssumption
  <2> QED BY <2>2, <2>5
<1> QED BY <1>3, <1>4

LEMMA IdMapStep ==
    ASSUME IInv, ArrayInv, KeptInv, TodoInv, IdMapInv, [NextAll]_allVars
    PROVE  IdMapInv'
<1> DEFINE hs == unused_va_ranges
<1>0. bparms' = bparms BY Changes
<1>1. BaseUniform' = BaseUniform BY <1>0 DEF BaseUniform
<1>2. /\ todo.from \in Nat /\ todo.to \in Nat /\ todo.flags \in PageFlags /\ todo.flags # "none"
      /\ DOMAIN todo = {"from", "to", "flags", "then"} /\ todo.then \in {"idmap", "skip"}
  <2>1. todo \in TodoType BY DEF TodoInv, TodoType
  <2>2. todo.from \in Nat /\ todo.to \in 0 .. NPages /\ todo.flags \in PageFlags BY <2>1 DEF TodoType
  <2> QED BY <2>1, <2>2, Marks DEF PageFlags, TodoType
<1>3. ASSUME UNCHANGED <<vpc, vi, unused_va_ranges, todo, flags>> PROVE IdMapInv'
  BY <1>0, <1>1, <1>3 DEF IdMapInv, MappedTo, PlainFrom, InHole
<1>4. ASSUME vpc' \in Mapping, vpc' # "idmap", ~(vpc' = "map" /\ todo'.then = "idmap") PROVE IdMapInv'
  BY <1>4 DEF IdMapInv
<1>5. ASSUME vpc' \notin Mapping, vpc \notin Mapping, flags' = flags PROVE IdMapInv'
  <2>1. \A p \in Pages : flags[p] = "none" BY <1>5 DEF IdMapInv
  <2> QED BY <1>5, <2>1 DEF IdMapInv, Mapping
<1>6. CASE \/ (MapInit \/ Search) /\ UNCHANGED <<vpc, vaVars>>
           \/ AllocLater \/ UNCHANGED allVars \/ EnsurePt
           \/ Rests /\ UNCHANGED allVars
  BY <1>3, <1>6 DEF AllocLater, allVars, vaVars, EnsurePt
<1>7. CASE AllocArray \/ FindHole \/ HolesFound \/ AllocPdpt \/ AllocPd
  BY <1>5, <1>7 DEF AllocArray, FindHole, HolesFound, AllocPdpt, AllocPd, vaVars, Mapping
<1>8. CASE SkipDone \/ PagingOn
  BY <1>4, <1>8 DEF SkipDone, PagingOn, Mapping
<1>9. CASE SetAttr
  <2>1. vpc = "attr" /\ (vpc' = "attr" \/ (vpc' = "map" /\ todo'.then = "skip"))
    BY <1>9 DEF SetAttr, IdMap
  <2> QED BY <1>4, <2>1 DEF Mapping
<1>10. CASE MapBelowHoles
  <2>1. vpc = "pds" /\ Idle /\ flags' = flags /\ unused_va_ranges' = unused_va_ranges
    BY <1>10 DEF MapBelowHoles
  <2>2. CASE vpc' = "undefined" BY <1>5, <2>1, <2>2 DEF Mapping
  <2>3. CASE /\ hs # << >> /\ vi' = 1
             /\ IdMap(0, hs[1].start, PteFlags(mem_ranges[0].attr), "idmap")
    <3>1. \A p \in Pages : flags[p] = "none" BY <2>1 DEF IdMapInv, Mapping
    <3>2. Len(hs) \in Nat /\ Len(hs) >= 1 BY <2>1, <2>3, HolesThere
    <3>3. 1 \in 1 .. Len(hs) BY <3>2
    <3>4. /\ hs[1].start \in Nat /\ hs[1].start \div PageSize \in 0 .. NPages
          /\ (hs[1].start \div PageSize) * PageSize = hs[1].start
      BY <2>1, <3>3, HolesThere
    <3>5. 0 \div PageSize = 0 /\ 0 * PageSize = 0
      <4>1. 0 * PageSize = 0 /\ (0 * PageSize) \div PageSize = 0 BY PageAddress, VaInitAssumption
      <4> QED BY <4>1
    <3>6. /\ vpc' = "map" /\ todo'.then = "idmap" /\ todo'.from = 0
          /\ todo'.to = hs[1].start \div PageSize /\ todo'.flags = PteFlags(mem_ranges[0].attr)
      BY <2>3, <3>5 DEF IdMap
    <3>7. PlainFrom(flags, hs[1].start) BY <3>1 DEF PlainFrom
    <3>8. MappedTo(hs, flags, bparms, BaseUniform, 0)
      <4>1. \A p \in Pages : ~(p * PageSize < 0)
        <5> TAKE p \in Pages
        <5>1. p * PageSize \in Nat BY Marks DEF Pages
        <5> QED BY <5>1
      <4> QED BY <4>1 DEF MappedTo
    <3>9. ASSUME BaseUniform, NEW n \in 1 .. Len(bparms), bparms[n].start < BmemMax
          PROVE  PteFlags(mem_ranges[0].attr) = PteFlags(bparms[n].attr)
      <4>1. 0 \in LiveRanges /\ mem_ranges[0].start < BmemMax BY <2>1, FirstLive
      <4>2. mem_ranges[0] \in Ranges /\ PartOf(mem_ranges[0], bparms) BY <2>1, <4>1, IdleEntry
      <4>3. PICK a \in 1 .. Len(bparms) : Within(mem_ranges[0], bparms[a]) /\ bparms[a].attr = mem_ranges[0].attr
        BY <4>2 DEF PartOf
      <4>4. bparms[a].start \in Nat /\ mem_ranges[0].start \in Nat
        <5>1. pc \in {"sorted"} \cup Searching BY <2>1 DEF Idle, Searching
        <5>2. bparms[a] \in Ranges BY <5>1, LiveFacts
        <5> QED BY <4>2, <5>2, RangeType
      <4>5. bparms[a].start < BmemMax BY <4>1, <4>3, <4>4, MapAssumption DEF Within
      <4> QED BY <3>9, <4>3, <4>5 DEF BaseUniform
    <3>10. 0 =< hs[1].start \div PageSize /\ ~(1 > 1) /\ hs[1].start =< hs[1].start
      <4>1. hs[1].start \div PageSize \in Nat BY <3>4, Marks
      <4> QED BY <3>4, <4>1
    <3>11. /\ vi' \in 1 .. Len(hs) /\ PlainFrom(flags', hs'[1].start)
           /\ MappedTo(hs', flags', bparms', BaseUniform', todo'.from * PageSize)
           /\ todo'.from =< todo'.to /\ todo'.to * PageSize = hs'[vi'].start
           /\ hs'[1].start =< hs'[vi'].start /\ ~(vi' > 1)
      BY <1>0, <1>1, <2>1, <2>3, <3>3, <3>4, <3>5, <3>6, <3>7, <3>8, <3>10
    <3>12. BaseUniform' => \A n \in 1 .. Len(bparms') :
             bparms'[n].start < BmemMax => todo'.flags = PteFlags(bparms'[n].attr)
      BY <1>0, <1>1, <3>6, <3>9
    <3> QED BY <2>1, <3>6, <3>11, <3>12 DEF IdMapInv, Mapping
  <2> QED BY <1>10, <2>2, <2>3 DEF MapBelowHoles
<1>11. CASE MapBetweenHoles
  <2>1. vpc = "idmap" /\ Idle /\ flags' = flags /\ unused_va_ranges' = unused_va_ranges
    BY <1>11 DEF MapBetweenHoles
  <2>2. CASE ~(vi < Len(hs))
    <3>1. vpc' = "attr" BY <1>11, <2>2 DEF MapBetweenHoles
    <3> QED BY <1>4, <3>1 DEF Mapping
  <2>3. CASE vi < Len(hs)
    <3>1. IdMap(EndOf(hs[vi]), hs[vi + 1].start, "wb", "idmap") /\ vi' = vi + 1
      BY <1>11, <2>3 DEF MapBetweenHoles
    <3>2. vpc \in Mapping BY <2>1 DEF Mapping
    <3>3. Len(hs) \in Nat BY <3>2, HolesThere
    <3>4. /\ vi \in 1 .. Len(hs) /\ PlainFrom(flags, hs[1].start)
          /\ MappedTo(hs, flags, bparms, BaseUniform, EndOf(hs[vi]))
          /\ hs[1].start =< hs[vi].start
      BY <2>1 DEF IdMapInv
    <3>5. vi + 1 \in 1 .. Len(hs) /\ vi \in 1 .. Len(hs) - 1 /\ 1 \in 1 .. Len(hs) BY <2>3, <3>3, <3>4
    <3>6. PICK E \in Nat : E = EndOf(hs[vi]) /\ hs[vi].start < E BY <3>2, <3>4, HolesThere
    <3>7. PICK S \in Nat : S = hs[vi + 1].start BY <3>2, <3>5, HolesThere
    <3>8. E < S BY <3>2, <3>5, <3>6, <3>7, HolesThere
    <3>9. hs[1].start \in Nat /\ hs[vi].start \in Nat BY <3>2, <3>4, <3>5, HolesThere
    <3>10. /\ E \div PageSize \in 0 .. NPages /\ (E \div PageSize) * PageSize = E
           /\ S \div PageSize \in 0 .. NPages /\ (S \div PageSize) * PageSize = S
      BY <3>2, <3>4, <3>5, <3>6, <3>7, HolesThere
    <3>11. PICK e \in Nat : e = E \div PageSize /\ e * PageSize = E BY <3>10, Marks
    <3>12. PICK s \in Nat : s = S \div PageSize /\ s * PageSize = S BY <3>10, Marks
    <3>13. e =< s
      <4>1. e * PageSize =< s * PageSize BY <3>8, <3>11, <3>12
      <4> QED BY <4>1, PageAddress
    <3>14. /\ vpc' = "map" /\ todo'.then = "idmap" /\ todo'.from = e /\ todo'.to = s
           /\ todo'.flags = "wb"
      BY <3>1, <3>6, <3>7, <3>11, <3>12 DEF IdMap
    <3>15. hs[1].start =< E /\ hs[1].start =< S /\ vi + 1 # 1 /\ E >= hs[1].start
      BY <3>4, <3>6, <3>8, <3>9
    <3>16. /\ vi' \in 1 .. Len(hs') /\ PlainFrom(flags', hs'[1].start)
           /\ MappedTo(hs', flags', bparms', BaseUniform', todo'.from * PageSize)
           /\ todo'.from =< todo'.to /\ todo'.to * PageSize = hs'[vi'].start
           /\ hs'[1].start =< hs'[vi'].start /\ vi' # 1
           /\ todo'.flags = "wb" /\ todo'.from * PageSize >= hs'[1].start
      BY <1>0, <1>1, <2>1, <3>1, <3>4, <3>5, <3>6, <3>7, <3>11, <3>12, <3>13, <3>14, <3>15
    <3> QED BY <3>14, <3>16 DEF IdMapInv, Mapping
  <2> QED BY <2>2, <2>3
<1>12. CASE MapLarge \/ MapSmall
  <2>1. PICK n \in Nat :
             /\ todo.from + n =< todo.to /\ n > 0 /\ vpc = "map" /\ Idle
             /\ flags' = [p \in Pages |-> IF p \in todo.from .. todo.from + n - 1
                                          THEN todo.flags ELSE flags[p]]
             /\ todo' = [todo EXCEPT !.from = todo.from + n]
             /\ UNCHANGED <<vars, vpc, vi, unused_va_ranges, start64>>
    BY <1>12, MapStep
  <2>2. /\ todo'.from = todo.from + n /\ todo'.to = todo.to /\ todo'.flags = todo.flags
        /\ todo'.then = todo.then /\ vpc' = "map"
    BY <1>2, <2>1
  <2>3. CASE todo.then # "idmap" BY <1>4, <2>2, <2>3 DEF Mapping
  <2>4. CASE todo.then = "idmap"
    <3>1. /\ vi \in 1 .. Len(hs) /\ PlainFrom(flags, hs[1].start)
          /\ MappedTo(hs, flags, bparms, BaseUniform, todo.from * PageSize)
          /\ todo.from =< todo.to /\ todo.to * PageSize = hs[vi].start
          /\ hs[1].start =< hs[vi].start
          /\ vi = 1 /\ BaseUniform => \A m \in 1 .. Len(bparms) :
               bparms[m].start < BmemMax => todo.flags = PteFlags(bparms[m].attr)
          /\ vi > 1 => todo.flags = "wb" /\ todo.from * PageSize >= hs[1].start
      BY <2>1, <2>4 DEF IdMapInv
    <3>2. vpc \in Mapping BY <2>1 DEF Mapping
    <3>3. Len(hs) \in Nat BY <3>2, HolesThere
    <3>4. 1 \in 1 .. Len(hs) /\ (vi = 1 \/ vi > 1) BY <3>1, <3>3
    <3>5. BmemMax =< hs[1].start /\ hs[1].start \in Nat BY <3>2, <3>4, HolesThere
    <3>6. PICK from \in Nat : from = todo.from BY <1>2
    <3>7. from * PageSize \in Nat BY <3>6, PageAddress
    <3>8. from * PageSize < BmemMax => vi = 1
      <4>1. vi > 1 => BmemMax =< from * PageSize BY <3>1, <3>5, <3>6, <3>7, MapAssumption
      <4> QED BY <3>4, <3>7, <4>1, MapAssumption
    <3>9. MappedTo(hs, flags', bparms, BaseUniform, (from + n) * PageSize)
      <4> DEFINE fs == todo.flags
                 fl == flags
                 fl2 == flags'
                 bp == bparms
                 uf == BaseUniform
                 hh == hs
      <4>1. fl2 = [p \in Pages |-> IF p \in from .. from + n - 1 THEN fs ELSE fl[p]] BY <2>1, <3>6
      <4>2. uf /\ from * PageSize < BmemMax =>
               \A m \in 1 .. Len(bp) : bp[m].start < BmemMax => fs = PteFlags(bp[m].attr)
        BY <3>1, <3>8
      <4>3. fs # "none" /\ MappedTo(hh, fl, bp, uf, from * PageSize) BY <1>2, <3>1, <3>6
      <4> HIDE DEF fs, fl, fl2, bp, uf, hh
      <4>4. MappedTo(hh, fl2, bp, uf, (from + n) * PageSize) BY <4>1, <4>2, <4>3, MappedMore
      <4> QED BY <4>4 DEF fl2, bp, uf, hh
    <3>10. PlainFrom(flags', hs[1].start)
      <4> SUFFICES ASSUME NEW p \in Pages, p * PageSize >= hs[1].start
                   PROVE  flags'[p] \in {"wb", "none"}
        BY DEF PlainFrom
      <4>1. p \in Nat /\ p * PageSize \in Nat BY Marks DEF Pages
      <4>2. CASE ~(p \in todo.from .. todo.from + n - 1)
        <5>1. flags'[p] = flags[p] BY <2>1, <4>2
        <5> QED BY <3>1, <5>1 DEF PlainFrom
      <4>3. CASE p \in todo.from .. todo.from + n - 1
        <5>1. flags'[p] = todo.flags BY <2>1, <4>3
        <5>2. p < todo.to BY <1>2, <2>1, <4>1, <4>3
        <5>3. p * PageSize < todo.to * PageSize BY <1>2, <4>1, <5>2, PageAddress
        <5>4. vi # 1 BY <3>1, <3>5, <4>1, <5>3
        <5> QED BY <3>1, <3>4, <5>1, <5>4
      <4> QED BY <4>2, <4>3
    <3>11. /\ todo'.from =< todo'.to /\ todo'.to * PageSize = hs[vi].start
           /\ todo'.from = from + n
      BY <2>1, <2>2, <3>1, <3>6
    <3>12. vi > 1 => todo'.flags = "wb" /\ (from + n) * PageSize >= hs[1].start
      <4>1. from =< from + n /\ from + n \in Nat OBVIOUS
      <4>2. from * PageSize =< (from + n) * PageSize /\ (from + n) * PageSize \in Nat
        BY <4>1, PageAddress
      <4> QED BY <2>2, <3>1, <3>5, <3>6, <3>7, <4>2
    <3>13. vi = 1 /\ BaseUniform => \A m \in 1 .. Len(bparms) :
             bparms[m].start < BmemMax => todo'.flags = PteFlags(bparms[m].attr)
      BY <2>2, <3>1
    <3>14. vi' = vi /\ unused_va_ranges' = unused_va_ranges BY <2>1
    <3>15. /\ vi' \in 1 .. Len(hs') /\ PlainFrom(flags', hs'[1].start)
           /\ MappedTo(hs', flags', bparms', BaseUniform', todo'.from * PageSize)
           /\ todo'.from =< todo'.to /\ todo'.to * PageSize = hs'[vi'].start
           /\ hs'[1].start =< hs'[vi'].start
      BY <1>0, <1>1, <3>1, <3>9, <3>10, <3>11, <3>14
    <3>16. /\ vi' > 1 => todo'.flags = "wb" /\ todo'.from * PageSize >= hs'[1].start
           /\ vi' = 1 /\ BaseUniform' => \A m \in 1 .. Len(bparms') :
             bparms'[m].start < BmemMax => todo'.flags = PteFlags(bparms'[m].attr)
      BY <1>0, <1>1, <3>11, <3>12, <3>13, <3>14
    <3> QED BY <2>2, <3>15, <3>16 DEF IdMapInv, Mapping
  <2> QED BY <2>3, <2>4
<1>13. CASE MapDone
  <2>1. /\ vpc = "map" /\ Idle /\ todo.from >= todo.to /\ vpc' = todo.then /\ todo' = todo
        /\ flags' = flags /\ vi' = vi /\ unused_va_ranges' = unused_va_ranges
    BY <1>13 DEF MapDone, vaVars
  <2>2. CASE todo.then = "skip" BY <1>4, <2>1, <2>2 DEF Mapping
  <2>3. CASE todo.then = "idmap"
    <3>1. /\ vi \in 1 .. Len(hs) /\ PlainFrom(flags, hs[1].start)
          /\ MappedTo(hs, flags, bparms, BaseUniform, todo.from * PageSize)
          /\ todo.from =< todo.to /\ todo.to * PageSize = hs[vi].start
          /\ hs[1].start =< hs[vi].start
      BY <2>1, <2>3 DEF IdMapInv
    <3>2. todo.from = todo.to BY <1>2, <2>1, <3>1
    <3>3. vpc \in Mapping BY <2>1 DEF Mapping
    <3>4. PICK S \in Nat : S = hs[vi].start BY <3>1, <3>3, HolesThere
    <3>5. PICK E \in Nat : E = EndOf(hs[vi]) BY <3>1, <3>3, HolesThere
    <3>6. MappedTo(hs, flags, bparms, BaseUniform, E)
      <4>1. ASSUME NEW p \in Pages, p * PageSize < E, ~InHole(hs, p) PROVE p * PageSize < S
        <5>1. p * PageSize \in Nat BY Marks DEF Pages
        <5>2. ~(S =< p * PageSize) BY <3>1, <3>4, <3>5, <4>1 DEF InHole
        <5> QED BY <5>1, <5>2
      <4>2. MappedTo(hs, flags, bparms, BaseUniform, S) BY <3>1, <3>2, <3>4
      <4> QED BY <4>1, <4>2 DEF MappedTo
    <3>7. /\ vi' \in 1 .. Len(hs') /\ PlainFrom(flags', hs'[1].start)
          /\ MappedTo(hs', flags', bparms', BaseUniform', EndOf(hs'[vi']))
          /\ hs'[1].start =< hs'[vi'].start
      BY <1>0, <1>1, <2>1, <3>1, <3>5, <3>6
    <3>8. vpc' = "idmap" BY <2>1, <2>3
    <3> QED BY <3>7, <3>8 DEF IdMapInv, Mapping
  <2> QED BY <1>2, <2>2, <2>3
<1> QED BY <1>6, <1>7, <1>8, <1>9, <1>10, <1>11, <1>12, <1>13 DEF NextAll, VaInit

\* The loop over mem_ranges[]: mem_alloc, for a page table, cuts an entry.
LEMMA TakeKeeps ==
    ASSUME IInv, AttrInv, InAttrLoop, ScanTake, UNCHANGED <<vpc, vaVars>>, bparms' = bparms
    PROVE  LoopInv'
<1>1. /\ Refined(mem_ranges, num_mem_ranges, mem_ranges', num_mem_ranges')
      /\ num_mem_ranges' \in Nat
  BY Taken
<1>2. \A m \in 0 .. num_mem_ranges' - 1 : mem_ranges'[m] \in Ranges BY TakenType
<1>3. pc = "scan" /\ pc \in Searching BY DEF ScanTake, Searching
<1>4. num_mem_ranges \in Nat /\ \A m \in LiveRanges : mem_ranges[m] \in Ranges BY <1>3, LiveFacts
<1>5. /\ vi \in 0 .. num_mem_ranges /\ start64 \in Nat
      /\ PagesRight(unused_va_ranges, flags, todo, bparms, BaseUniform)
      /\ \A m \in LiveRanges : Passed(m) => EntryDone(mem_ranges[m])
  BY DEF AttrInv, LoopInv
<1>6. /\ vi' = vi /\ unused_va_ranges' = unused_va_ranges /\ todo' = todo /\ vpc' = vpc
      /\ start64' = start64 /\ flags' = flags
  BY DEF vaVars
<1>7. vi' \in 0 .. num_mem_ranges'
  <2>1. num_mem_ranges =< num_mem_ranges' BY <1>1 DEF Refined
  <2> QED BY <1>1, <1>4, <1>5, <1>6, <2>1
<1>8. BaseUniform' = BaseUniform /\ AllApart' = AllApart BY DEF BaseUniform, AllApart
<1>9. PagesRight(unused_va_ranges, flags, todo, bparms, BaseUniform)' BY <1>5, <1>6, <1>8 DEF PagesRight
<1>10. ASSUME NEW m \in 0 .. num_mem_ranges' - 1,
              m < vi \/ (vpc # "attr" /\ mem_ranges'[m].start =< start64),
              mem_ranges'[m].attr # "wb", NEW p \in Pages, Touches(mem_ranges'[m], p), Matters(p)
       PROVE  SetOrLeft(p)
  <2>1. PICK o \in 0 .. num_mem_ranges - 1 :
          /\ o =< m /\ Within(mem_ranges'[m], mem_ranges[o])
          /\ mem_ranges'[m].attr = mem_ranges[o].attr
    BY <1>1 DEF Refined
  <2>2. o \in LiveRanges BY DEF LiveRanges
  <2>3. /\ mem_ranges'[m].start \in Nat /\ EndOf(mem_ranges'[m]) \in Nat
        /\ mem_ranges[o].start \in Nat /\ EndOf(mem_ranges[o]) \in Nat
    BY <1>2, <1>4, <2>2, RangeType
  <2>4. Touches(mem_ranges[o], p) BY <1>10, <2>1, <2>3, TouchPart
  <2>5. m < vi => o < vi
    <3>1. m \in Nat /\ o \in Nat /\ vi \in Nat BY <1>1, <1>4, <1>5
    <3> QED BY <2>1, <3>1
  <2>6. mem_ranges'[m].start =< start64 => mem_ranges[o].start =< start64
    BY <1>5, <2>1, <2>3 DEF Within
  <2>7. Passed(o) BY <1>10, <2>5, <2>6 DEF Passed
  <2>8. EntryDone(mem_ranges[o]) BY <1>5, <2>2, <2>7
  <2> QED BY <1>10, <2>1, <2>4, <2>8 DEF EntryDone
<1>11. \A p : (Matters(p)' <=> Matters(p)) /\ (SetOrLeft(p)' <=> SetOrLeft(p))
  BY <1>6, <1>8 DEF Matters, SetOrLeft
<1>12. (\A m \in LiveRanges : Passed(m) => EntryDone(mem_ranges[m]))'
  BY <1>6, <1>10, <1>11 DEF LiveRanges, Passed, EntryDone
<1> QED BY <1>7, <1>9, <1>12 DEF LoopInv

\* A page of base memory, and what has a part in it.
LEMMA BasePage ==
    ASSUME NEW p \in Pages
    PROVE  /\ p * PageSize \in Nat /\ (p + 1) * PageSize \in Nat
           /\ p * PageSize < (p + 1) * PageSize /\ (p + 1) * PageSize =< Xm32Max
           /\ p * PageSize < BmemMax => (p + 1) * PageSize =< BmemMax
           /\ \A r : r.start \in Nat /\ Touches(r, p) /\ p * PageSize < BmemMax => r.start < BmemMax
<1>1. p \in Nat /\ p < NPages /\ NPages \in Nat /\ Xm32Max = NPages * PageSize
  BY Marks DEF Pages
<1>2. p + 1 \in Nat /\ p + 1 =< NPages /\ p < p + 1 BY <1>1
<1>3. /\ p * PageSize \in Nat /\ (p + 1) * PageSize \in Nat
      /\ p * PageSize < (p + 1) * PageSize /\ (p + 1) * PageSize =< Xm32Max
  BY <1>1, <1>2, PageAddress
<1>4. PICK q \in Nat : BmemMax = q * PageSize BY Marks
<1>5. ASSUME p * PageSize < BmemMax PROVE (p + 1) * PageSize =< BmemMax
  <2>1. p < q BY <1>1, <1>4, <1>5, PageAddress
  <2>2. p + 1 =< q BY <1>1, <2>1
  <2> QED BY <1>2, <1>4, <2>2, PageAddress
<1>6. ASSUME NEW r, r.start \in Nat, Touches(r, p), p * PageSize < BmemMax
      PROVE  r.start < BmemMax
  <2>1. PICK y \in Nat : y = (p + 1) * PageSize BY <1>3
  <2>2. r.start < y /\ y =< BmemMax BY <1>5, <1>6, <2>1 DEF Touches
  <2> QED BY <1>6, <2>1, <2>2, MapAssumption
<1> QED BY <1>3, <1>5, <1>6

\* It begins when the last range between holes has been mapped.
LEMMA LoopBegins ==
    ASSUME IInv, KeptInv, TodoInv, IdMapInv, AttrInv, MapBetweenHoles,
           ~(vi < Len(unused_va_ranges)), bparms' = bparms
    PROVE  LoopInv'
<1> DEFINE hs == unused_va_ranges
           e == hs[Len(hs)]
<1>1. /\ vpc = "idmap" /\ Idle /\ vpc' = "attr" /\ vi' = 0 /\ todo' = todo /\ hs' = hs /\ flags' = flags
      /\ UNCHANGED vars
  BY DEF MapBetweenHoles
<1>2. num_mem_ranges' = num_mem_ranges /\ mem_ranges' = mem_ranges BY <1>1 DEF vars
<1>3. num_mem_ranges \in Nat BY <1>1, EntryFacts
<1>4. vpc \in Mapping BY <1>1 DEF Mapping
<1>5. Len(hs) \in Nat /\ Len(hs) >= 1 BY <1>4, HolesThere
<1>6. /\ vi \in 1 .. Len(hs) /\ PlainFrom(flags, hs[1].start)
      /\ MappedTo(hs, flags, bparms, BaseUniform, EndOf(hs[vi]))
  BY <1>1 DEF IdMapInv
<1>7. vi = Len(hs) BY <1>5, <1>6
<1>8. Len(hs) \in 1 .. Len(hs) BY <1>5
<1>9. /\ e.start \in Nat /\ EndOf(e) \in Nat /\ e.start < EndOf(e) /\ BmemMax =< e.start
      /\ \A p \in Pages : InHole(hs, p) => BmemMax =< p * PageSize
  BY <1>4, <1>8, HolesThere
<1>10. MappedTo(hs, flags, bparms, BaseUniform, EndOf(e)) BY <1>6, <1>7
<1>11. todo.to =< todo.from /\ todo.from \in Nat /\ todo.to \in Nat
  <2>1. todo.to =< todo.from /\ todo.from \in Nat /\ todo.to \in 0 .. NPages BY <1>1 DEF TodoInv
  <2> QED BY <2>1, Marks
<1>12. BaseUniform' = BaseUniform BY DEF BaseUniform
<1>13. ASSUME NEW p \in Pages, p * PageSize < BmemMax, BaseUniform, AttrsOf(bparms, p) \ {"wb"} # {}
       PROVE  flags[p] \in RightFlags(bparms, p)
  <2>1. PICK a \in AttrsOf(bparms, p) \ {"wb"} : TRUE BY <1>13
  <2>2. PICK n \in 1 .. Len(bparms) : Touches(bparms[n], p) /\ a = bparms[n].attr
    BY <2>1 DEF AttrsOf
  <2>3. bparms[n].start \in Nat
    <3>1. pc \in {"sorted"} \cup Searching BY <1>1 DEF Idle, Searching
    <3>2. bparms[n] \in Ranges BY <3>1, LiveFacts
    <3> QED BY <3>2, RangeType
  <2>4. bparms[n].start < BmemMax BY <1>13, <2>2, <2>3, BasePage
  <2>5. p * PageSize \in Nat BY BasePage
  <2>6. p * PageSize < EndOf(e) BY <1>9, <1>13, <2>5, MapAssumption
  <2>7. ~InHole(hs, p) BY <1>9, <1>13, <2>5, MapAssumption
  <2>8. flags[p] = PteFlags(bparms[n].attr) BY <1>10, <1>13, <2>4, <2>6, <2>7 DEF MappedTo
  <2> QED BY <2>1, <2>2, <2>8 DEF RightFlags
<1>14. PagesRight(hs, flags, todo, bparms, BaseUniform)
  <2>1. ASSUME NEW p \in Pages PROVE ~(todo.from =< p /\ p < todo.to)
    <3>1. p \in Nat BY Marks DEF Pages
    <3> QED BY <1>11, <3>1
  <2>2. \A p \in Pages : p * PageSize < EndOf(e) /\ ~InHole(hs, p) => flags[p] # "none"
    BY <1>10 DEF MappedTo
  <2>3. \A p \in Pages : p * PageSize >= hs[1].start => flags[p] \in {"wb", "none"}
    BY <1>6 DEF PlainFrom
  <2> QED BY <1>13, <2>1, <2>2, <2>3 DEF PagesRight
<1>15. \A m \in LiveRanges : ~Passed(m)'
  <2>1. \A m \in LiveRanges : ~(m < 0) BY <1>3 DEF LiveRanges
  <2> QED BY <1>1, <2>1 DEF Passed
<1>16. LiveRanges' = LiveRanges BY <1>2 DEF LiveRanges
<1>17. vi' \in 0 .. num_mem_ranges' BY <1>1, <1>2, <1>3
<1>18. PagesRight(hs, flags, todo, bparms, BaseUniform)' BY <1>1, <1>12, <1>14 DEF PagesRight
<1> QED BY <1>15, <1>16, <1>17, <1>18 DEF LoopInv

\* An entry that is passed over: write-back, or above 4 GiB.
LEMMA AttrPassesOver ==
    ASSUME IInv, ArrayInv, AttrInv, SetAttr, bparms' = bparms,
           \/ PteFlags(mem_ranges[vi].attr) = "wb"
           \/ mem_ranges[vi].start >= Xm32Max
    PROVE  LoopInv'
<1> DEFINE r == mem_ranges[vi]
<1>1. /\ vpc = "attr" /\ Idle /\ vi < num_mem_ranges /\ vi' = vi + 1 /\ UNCHANGED vars
      /\ UNCHANGED <<vpc, todo, start64, unused_va_ranges, flags>>
  BY DEF SetAttr
<1>2. num_mem_ranges' = num_mem_ranges /\ mem_ranges' = mem_ranges BY <1>1 DEF vars
<1>3. /\ vi \in 0 .. num_mem_ranges
      /\ PagesRight(unused_va_ranges, flags, todo, bparms, BaseUniform)
      /\ \A m \in LiveRanges : Passed(m) => EntryDone(mem_ranges[m])
  BY <1>1 DEF AttrInv, LoopInv, InAttrLoop, Setting
<1>4. num_mem_ranges \in Nat BY <1>1, EntryFacts
<1>5. vi \in LiveRanges /\ vi' \in 0 .. num_mem_ranges' BY <1>1, <1>2, <1>3, <1>4 DEF LiveRanges
<1>6. BaseUniform' = BaseUniform /\ AllApart' = AllApart BY DEF BaseUniform, AllApart
<1>7. PagesRight(unused_va_ranges, flags, todo, bparms, BaseUniform)' BY <1>1, <1>3, <1>6 DEF PagesRight
<1>8. EntryDone(r)
  <2>1. CASE PteFlags(r.attr) = "wb"
    <3>1. r.attr = "wb" BY <1>1, <1>5, <2>1, IdleEntry
    <3> QED BY <3>1 DEF EntryDone
  <2>2. CASE r.start >= Xm32Max
    <3>1. r.start \in Nat BY <1>1, <1>5, EntryFacts
    <3>2. ASSUME NEW p \in Pages PROVE ~Touches(r, p)
      <4>1. PICK y \in Nat : y = (p + 1) * PageSize /\ y =< Xm32Max BY BasePage
      <4>2. ~(r.start < y) BY <2>2, <3>1, <4>1, MapAssumption
      <4> QED BY <4>1, <4>2 DEF Touches
    <3> QED BY <3>2 DEF EntryDone
  <2> QED BY <2>1, <2>2
<1>9. ASSUME NEW m \in LiveRanges, m < vi + 1 PROVE EntryDone(mem_ranges[m])
  <2>1. m < vi \/ m = vi BY <1>3, <1>4, <1>9 DEF LiveRanges
  <2>2. CASE m < vi BY <1>3, <2>2 DEF Passed
  <2>3. CASE m = vi BY <1>8, <2>3
  <2> QED BY <2>1, <2>2, <2>3
<1>10. (\A m \in LiveRanges : Passed(m) => EntryDone(mem_ranges[m]))'
  <2>1. LiveRanges' = LiveRanges /\ \A m : Passed(m)' <=> m < vi + 1
    BY <1>1, <1>2 DEF LiveRanges, Passed
  <2>2. \A p : (Matters(p)' <=> Matters(p)) /\ (SetOrLeft(p)' <=> SetOrLeft(p))
    BY <1>1, <1>6 DEF Matters, SetOrLeft
  <2>3. \A m : EntryDone(mem_ranges[m])' <=> EntryDone(mem_ranges[m])
    BY <1>2, <2>2 DEF EntryDone
  <2> QED BY <1>9, <2>1, <2>3
<1> QED BY <1>5, <1>7, <1>10 DEF LoopInv

\* Two entries of the array of which the later one starts no higher: they are
\* in base memory, and not in one whose ranges do not overlap.
LEMMA LaterLower ==
    ASSUME IInv, ArrayInv, Idle, NEW a \in LiveRanges, NEW b \in LiveRanges, a < b,
           mem_ranges[b].start =< mem_ranges[a].start, NEW p \in Pages, Touches(mem_ranges[b], p)
    PROVE  p * PageSize < BmemMax /\ ~AllApart
<1>1. /\ mem_ranges[a].start \in Nat /\ EndOf(mem_ranges[a]) \in Nat
      /\ mem_ranges[b].start \in Nat /\ EndOf(mem_ranges[b]) \in Nat
      /\ mem_ranges[a].start < EndOf(mem_ranges[a]) /\ mem_ranges[b].start < EndOf(mem_ranges[b])
      /\ EndOf(mem_ranges[b]) =< BmemMax \/ mem_ranges[b].start >= BmemMax
      /\ mem_ranges[b].start >= BmemMax => EndOf(mem_ranges[a]) =< mem_ranges[b].start
      /\ BmemMax \in Nat /\ num_mem_ranges \in Nat
  BY EntryFacts
<1>2. EndOf(mem_ranges[b]) =< BmemMax BY <1>1
<1>3. p * PageSize < BmemMax
  <2>1. PICK x \in Nat : x = p * PageSize BY BasePage
  <2>2. EndOf(mem_ranges[b]) > x BY <2>1 DEF Touches
  <2> QED BY <1>1, <1>2, <2>1, <2>2
<1>4. ASSUME AllApart PROVE FALSE
  <2>1. pc \in {"sorted"} \cup Searching BY DEF Idle, Searching
  <2>2. Ordered(mem_ranges, num_mem_ranges) BY <1>4, <2>1, ArrayNow
  <2>3. mem_ranges[a].start =< mem_ranges[b].start BY <2>2 DEF Ordered, LiveRanges
  <2>4. a # b BY <1>1 DEF LiveRanges
  <2>5. Disjoint(mem_ranges[a], mem_ranges[b]) BY <1>4, <2>1, <2>4, EntriesApart
  <2> QED BY <1>1, <2>3, <2>5 DEF Disjoint
<1> QED BY <1>3, <1>4

\* An entry whose pages are to be given flags.
LEMMA AttrSets ==
    ASSUME IInv, ArrayInv, TodoInv, AttrInv, SetAttr, bparms' = bparms,
           ~(PteFlags(mem_ranges[vi].attr) = "wb" \/ mem_ranges[vi].start >= Xm32Max)
    PROVE  LoopInv'
<1> DEFINE r == mem_ranges[vi]
<1>1. /\ vpc = "attr" /\ Idle /\ vi < num_mem_ranges /\ vi' = vi /\ UNCHANGED vars
      /\ UNCHANGED <<unused_va_ranges, flags>>
      /\ start64' = r.start /\ IdMap(PageDown(r.start), AttrEnd(r), PteFlags(r.attr), "skip")
  BY DEF SetAttr
<1>2. num_mem_ranges' = num_mem_ranges /\ mem_ranges' = mem_ranges BY <1>1 DEF vars
<1>3. /\ vi \in 0 .. num_mem_ranges
      /\ PagesRight(unused_va_ranges, flags, todo, bparms, BaseUniform)
      /\ \A m \in LiveRanges : Passed(m) => EntryDone(mem_ranges[m])
  BY <1>1 DEF AttrInv, LoopInv, InAttrLoop, Setting
<1>4. num_mem_ranges \in Nat BY <1>1, EntryFacts
<1>5. vi \in LiveRanges BY <1>1, <1>3, <1>4 DEF LiveRanges
<1>6. BaseUniform' = BaseUniform /\ AllApart' = AllApart BY DEF BaseUniform, AllApart
<1>7. r \in Ranges /\ PartOf(r, bparms) /\ r.attr # "wb" BY <1>1, <1>5, IdleEntry
<1>8. r.start < Xm32Max
  <2>1. r.start \in Nat BY <1>7, RangeType
  <2> QED BY <2>1, MapAssumption
<1>9. /\ todo'.from = PageDown(r.start) \div PageSize /\ todo'.to = AttrEnd(r) \div PageSize
      /\ todo'.flags = PteFlags(r.attr) /\ vpc' = "map"
  BY <1>1 DEF IdMap
<1>10. \A p \in Pages : todo'.from =< p /\ p < todo'.to <=> Touches(r, p)
  BY <1>7, <1>8, <1>9, AttrPages
<1>11. \A a \in 1 .. Len(bparms) : bparms[a] \in Ranges
  <2>1. pc \in {"sorted"} \cup Searching BY <1>1 DEF Idle, Searching
  <2> QED BY <2>1, LiveFacts
<1>12. \A p \in Pages : Touches(r, p) => PteFlags(r.attr) \in RightFlags(bparms, p)
  BY <1>7, <1>11, EntryFlags
<1>13. PagesRight(unused_va_ranges, flags, todo', bparms, BaseUniform)
  <2>1. \A p \in Pages : todo'.from =< p /\ p < todo'.to => todo'.flags \in RightFlags(bparms, p)
    BY <1>9, <1>10, <1>12
  <2> QED BY <1>3, <2>1 DEF PagesRight
<1>14. ASSUME NEW m \in LiveRanges, m < vi \/ mem_ranges[m].start =< r.start,
              mem_ranges[m].attr # "wb", NEW p \in Pages, Touches(mem_ranges[m], p), Matters(p)
       PROVE  \/ flags[p] \in RightFlags(bparms, p)
              \/ todo'.from =< p /\ p < todo'.to
  <2>1. CASE m < vi
    <3>1. EntryDone(mem_ranges[m]) BY <1>3, <2>1 DEF Passed
    <3>2. SetOrLeft(p) BY <1>14, <3>1 DEF EntryDone
    <3>3. ~(todo.from =< p /\ p < todo.to)
      <4>1. todo.to =< todo.from /\ todo.from \in Nat /\ todo.to \in 0 .. NPages
        BY <1>1 DEF TodoInv
      <4>2. todo.to \in Nat /\ p \in Nat BY <4>1, Marks DEF Pages
      <4> QED BY <4>1, <4>2
    <3> QED BY <3>2, <3>3 DEF SetOrLeft
  <2>2. CASE m = vi BY <1>10, <1>14, <2>2
  <2>3. CASE vi < m /\ mem_ranges[m].start =< r.start
    <3>1. p * PageSize < BmemMax /\ ~AllApart
      BY <1>1, <1>5, <1>14, <2>3, LaterLower
    <3>2. BaseUniform
      <4>1. p * PageSize \in Nat BY BasePage
      <4>2. ~(p * PageSize >= BmemMax) BY <3>1, <4>1, MapAssumption
      <4> QED BY <1>14, <3>1, <4>2 DEF Matters
    <3>3. mem_ranges[m] \in Ranges /\ PartOf(mem_ranges[m], bparms) BY <1>1, IdleEntry
    <3>4. mem_ranges[m].attr \in AttrsOf(bparms, p) \ {"wb"} BY <1>11, <1>14, <3>3, EntryFlags
    <3> QED BY <1>3, <3>1, <3>2, <3>4 DEF PagesRight
  <2>4. m < vi \/ m = vi \/ vi < m BY <1>3, <1>4 DEF LiveRanges
  <2> QED BY <1>14, <2>1, <2>2, <2>3, <2>4
<1>15. (\A m \in LiveRanges : Passed(m) => EntryDone(mem_ranges[m]))'
  <2>1. LiveRanges' = LiveRanges BY <1>2 DEF LiveRanges
  <2>2. \A m : Passed(m)' => m < vi \/ mem_ranges[m].start =< r.start
    BY <1>1, <1>2, <1>9 DEF Passed
  <2>3. \A p : Matters(p)' <=> Matters(p) BY <1>6 DEF Matters
  <2>4. \A p : SetOrLeft(p)' <=> \/ flags[p] \in RightFlags(bparms, p)
                                 \/ todo'.from =< p /\ p < todo'.to
    BY <1>1 DEF SetOrLeft
  <2>5. ASSUME NEW m \in LiveRanges, Passed(m)' PROVE EntryDone(mem_ranges[m])'
    BY <1>2, <1>14, <2>2, <2>3, <2>4, <2>5 DEF EntryDone
  <2> QED BY <2>1, <2>5
<1>16. PagesRight(unused_va_ranges, flags, todo, bparms, BaseUniform)' BY <1>1, <1>6, <1>13 DEF PagesRight
<1>17. vi' \in 0 .. num_mem_ranges' BY <1>1, <1>2, <1>3
<1> QED BY <1>15, <1>16, <1>17 DEF LoopInv

\* do_va_map()'s loop gives pages of the entry their flags.
LEMMA FlagsSet ==
    ASSUME IInv, TodoInv, AttrInv, InAttrLoop, MapLarge \/ MapSmall, bparms' = bparms
    PROVE  LoopInv'
<1>1. PICK n \in Nat :
             /\ todo.from + n =< todo.to /\ n > 0 /\ vpc = "map" /\ Idle
             /\ flags' = [p \in Pages |-> IF p \in todo.from .. todo.from + n - 1
                                          THEN todo.flags ELSE flags[p]]
             /\ todo' = [todo EXCEPT !.from = todo.from + n]
             /\ UNCHANGED <<vars, vpc, vi, unused_va_ranges, start64>>
  BY MapStep
<1>2. num_mem_ranges' = num_mem_ranges /\ mem_ranges' = mem_ranges BY <1>1 DEF vars
<1>3. /\ vi \in 0 .. num_mem_ranges
      /\ PagesRight(unused_va_ranges, flags, todo, bparms, BaseUniform)
      /\ \A m \in LiveRanges : Passed(m) => EntryDone(mem_ranges[m])
  BY DEF AttrInv, LoopInv
<1>4. BaseUniform' = BaseUniform /\ AllApart' = AllApart BY DEF BaseUniform, AllApart
<1>5. /\ todo.from \in Nat /\ todo.to \in Nat /\ todo.flags # "none"
      /\ todo'.from = todo.from + n /\ todo'.to = todo.to /\ todo'.flags = todo.flags
  <2>1. todo \in TodoType BY DEF TodoInv, TodoType
  <2>2. todo.from \in Nat /\ todo.to \in 0 .. NPages /\ todo.flags \in PageFlags BY <2>1 DEF TodoType
  <2>3. todo'.from = todo.from + n /\ todo'.to = todo.to /\ todo'.flags = todo.flags
    BY <1>1, <2>1 DEF TodoType
  <2> QED BY <2>2, <2>3, Marks DEF PageFlags
<1>6. ASSUME NEW p \in Pages
      PROVE  /\ \/ flags'[p] = flags[p]
                \/ flags'[p] = todo.flags /\ todo.flags \in RightFlags(bparms, p)
             /\ todo.from =< p /\ p < todo.to =>
                  \/ flags'[p] \in RightFlags(bparms, p)
                  \/ todo'.from =< p /\ p < todo'.to
             /\ todo'.from =< p /\ p < todo'.to => todo'.flags \in RightFlags(bparms, p)
  <2>1. p \in Nat BY Marks DEF Pages
  <2>2. todo.from =< p /\ p < todo.to => todo.flags \in RightFlags(bparms, p) BY <1>3 DEF PagesRight
  <2>3. CASE p \in todo.from .. todo.from + n - 1
    <3>1. todo.from =< p /\ p < todo.to /\ ~(todo'.from =< p) BY <1>1, <1>5, <2>1, <2>3
    <3>2. flags'[p] = todo.flags BY <1>1, <2>3
    <3> QED BY <2>2, <3>1, <3>2
  <2>4. CASE ~(p \in todo.from .. todo.from + n - 1)
    <3>1. flags'[p] = flags[p] BY <1>1, <2>4
    <3>2. todo.from =< p => todo'.from =< p BY <1>1, <1>5, <2>1, <2>4
    <3>3. todo'.from =< p => todo.from =< p BY <1>1, <1>5, <2>1
    <3> QED BY <1>5, <2>2, <3>1, <3>2, <3>3
  <2> QED BY <2>3, <2>4
<1>7. \A p : AttrsOf(bparms, p) \subseteq {"wb"} => RightFlags(bparms, p) = {} BY DEF RightFlags
<1>8. PagesRight(unused_va_ranges, flags', todo', bparms, BaseUniform)
  <2> SUFFICES ASSUME NEW p \in Pages
               PROVE  LET hs == unused_va_ranges IN
                 /\ p * PageSize < EndOf(hs[Len(hs)]) /\ ~InHole(hs, p) => flags'[p] # "none"
                 /\ p * PageSize >= hs[1].start /\ AttrsOf(bparms, p) \subseteq {"wb"}
                      => flags'[p] \in {"wb", "none"}
                 /\ p * PageSize < BmemMax /\ BaseUniform /\ AttrsOf(bparms, p) \ {"wb"} # {}
                      => flags'[p] \in RightFlags(bparms, p)
                 /\ todo'.from =< p /\ p < todo'.to => todo'.flags \in RightFlags(bparms, p)
    BY DEF PagesRight
  <2> DEFINE hs == unused_va_ranges
  <2>1. /\ p * PageSize < EndOf(hs[Len(hs)]) /\ ~InHole(hs, p) => flags[p] # "none"
        /\ p * PageSize >= hs[1].start /\ AttrsOf(bparms, p) \subseteq {"wb"}
             => flags[p] \in {"wb", "none"}
        /\ p * PageSize < BmemMax /\ BaseUniform /\ AttrsOf(bparms, p) \ {"wb"} # {}
             => flags[p] \in RightFlags(bparms, p)
    BY <1>3 DEF PagesRight
  <2>2. CASE flags'[p] = flags[p] BY <1>6, <2>1, <2>2
  <2>3. CASE flags'[p] = todo.flags /\ todo.flags \in RightFlags(bparms, p)
    <3>1. ~(AttrsOf(bparms, p) \subseteq {"wb"}) BY <1>7, <2>3
    <3> QED BY <1>5, <1>6, <2>3, <3>1
  <2> QED BY <1>6, <2>2, <2>3
<1>9. ASSUME NEW m \in LiveRanges, Passed(m), mem_ranges[m].attr # "wb", NEW p \in Pages,
             Touches(mem_ranges[m], p), Matters(p)
      PROVE  \/ flags'[p] \in RightFlags(bparms, p)
             \/ todo'.from =< p /\ p < todo'.to
  <2>1. EntryDone(mem_ranges[m]) BY <1>3, <1>9
  <2>2. SetOrLeft(p) BY <1>9, <2>1 DEF EntryDone
  <2>3. flags[p] \in RightFlags(bparms, p) \/ (todo.from =< p /\ p < todo.to) BY <2>2 DEF SetOrLeft
  <2> QED BY <1>6, <2>3
<1>10. (\A m \in LiveRanges : Passed(m) => EntryDone(mem_ranges[m]))'
  <2>1. LiveRanges' = LiveRanges BY <1>2 DEF LiveRanges
  <2>2. \A m : Passed(m)' <=> Passed(m) BY <1>1, <1>2 DEF Passed
  <2>3. \A p : Matters(p)' <=> Matters(p) BY <1>4 DEF Matters
  <2>4. \A p : SetOrLeft(p)' <=> \/ flags'[p] \in RightFlags(bparms, p)
                                 \/ todo'.from =< p /\ p < todo'.to
    BY DEF SetOrLeft
  <2>5. ASSUME NEW m \in LiveRanges, Passed(m)' PROVE EntryDone(mem_ranges[m])'
    BY <1>2, <1>9, <2>2, <2>3, <2>4, <2>5 DEF EntryDone
  <2> QED BY <2>1, <2>5
<1>11. PagesRight(unused_va_ranges, flags, todo, bparms, BaseUniform)' BY <1>1, <1>4, <1>8 DEF PagesRight
<1>12. vi' \in 0 .. num_mem_ranges' BY <1>1, <1>2, <1>3
<1> QED BY <1>10, <1>11, <1>12 DEF LoopInv

\* The while loop after it finds the first entry that starts higher.
LEMMA NextHigher ==
    ASSUME IInv, AttrInv, SkipDone, vi \in 0 .. num_mem_ranges
    PROVE  /\ vi' \in vi .. num_mem_ranges
           /\ \A m \in vi .. vi' - 1 : mem_ranges[m].start =< start64
<1> DEFINE N == num_mem_ranges
           S == {n \in vi .. N : n = N \/ mem_ranges[n].start > start64}
           P(n) == /\ n = N \/ mem_ranges[n].start > start64
                   /\ \A m \in vi .. n - 1 : mem_ranges[m].start =< start64
<1>1. vpc = "skip" /\ Idle /\ vi' = CHOOSE n \in vi .. N : P(n) BY DEF SkipDone
<1>2. N \in Nat /\ vi \in Nat /\ vi =< N BY <1>1, EntryFacts
<1>3. \A m \in vi .. N - 1 : mem_ranges[m].start \in Nat
  <2>1. \A m \in vi .. N - 1 : m \in LiveRanges BY <1>2 DEF LiveRanges
  <2> QED BY <1>1, <2>1, EntryFacts
<1>4. start64 \in Nat BY DEF AttrInv
<1>5. S \subseteq Nat /\ N \in S BY <1>2
<1>6. PICK x \in S : \A y \in S : x =< y
  <2>1. S # {} BY <1>5
  <2> HIDE DEF S
  <2> QED BY <1>5, <2>1, LeastElement
<1>7. ASSUME NEW m \in vi .. x - 1 PROVE mem_ranges[m].start =< start64
  <2>1. x \in vi .. N BY <1>6
  <2>2. m \in vi .. N - 1 /\ m \in vi .. N /\ ~(x =< m) BY <1>2, <2>1
  <2>3. ~(mem_ranges[m].start > start64) BY <1>6, <2>2
  <2> QED BY <1>3, <1>4, <2>2, <2>3
<1>8. x \in vi .. N /\ P(x) BY <1>6, <1>7
<1> HIDE DEF P
<1>9. vi' \in vi .. N /\ P(vi') BY <1>1, <1>8
<1> QED BY <1>9 DEF P

LEMMA SkipKeeps ==
    ASSUME IInv, TodoInv, AttrInv, SkipDone, bparms' = bparms
    PROVE  LoopInv'
<1>1. /\ vpc = "skip" /\ vpc' = "attr" /\ Idle /\ UNCHANGED vars
      /\ UNCHANGED <<unused_va_ranges, todo, start64, flags>>
  BY DEF SkipDone
<1>2. num_mem_ranges' = num_mem_ranges /\ mem_ranges' = mem_ranges BY <1>1 DEF vars
<1>3. /\ vi \in 0 .. num_mem_ranges
      /\ PagesRight(unused_va_ranges, flags, todo, bparms, BaseUniform)
      /\ \A m \in LiveRanges : Passed(m) => EntryDone(mem_ranges[m])
  BY <1>1 DEF AttrInv, LoopInv, InAttrLoop, Setting
<1>4. num_mem_ranges \in Nat BY <1>1, EntryFacts
<1>5. BaseUniform' = BaseUniform /\ AllApart' = AllApart BY DEF BaseUniform, AllApart
<1>6. /\ vi' \in vi .. num_mem_ranges
      /\ \A m \in vi .. vi' - 1 : mem_ranges[m].start =< start64
  BY <1>3, NextHigher
<1>7. ASSUME NEW m \in LiveRanges, m < vi' PROVE EntryDone(mem_ranges[m])
  <2>1. PICK w \in Nat : w = vi' /\ m < w BY <1>3, <1>4, <1>6, <1>7
  <2>2. m < vi \/ m \in vi .. w - 1
    <3>1. m \in Nat /\ vi \in Nat BY <1>3, <1>4 DEF LiveRanges
    <3>2. \A a, b, c \in Nat : a < c => a < b \/ a \in b .. c - 1 OBVIOUS
    <3> QED BY <2>1, <3>1, <3>2
  <2>3. m < vi \/ mem_ranges[m].start =< start64 BY <1>6, <2>1, <2>2
  <2>4. Passed(m) BY <1>1, <2>3 DEF Passed
  <2> QED BY <1>3, <2>4
<1>8. (\A m \in LiveRanges : Passed(m) => EntryDone(mem_ranges[m]))'
  <2>1. LiveRanges' = LiveRanges /\ \A m : Passed(m)' <=> m < vi'
    BY <1>1, <1>2 DEF LiveRanges, Passed
  <2>2. \A p : (Matters(p)' <=> Matters(p)) /\ (SetOrLeft(p)' <=> SetOrLeft(p))
    BY <1>1, <1>5 DEF Matters, SetOrLeft
  <2>3. \A m : EntryDone(mem_ranges[m])' <=> EntryDone(mem_ranges[m])
    BY <1>2, <2>2 DEF EntryDone
  <2> QED BY <1>7, <2>1, <2>3
<1>9. PagesRight(unused_va_ranges, flags, todo, bparms, BaseUniform)' BY <1>1, <1>3, <1>5 DEF PagesRight
<1>10. vi' \in 0 .. num_mem_ranges' BY <1>2, <1>3, <1>4, <1>6
<1> QED BY <1>8, <1>9, <1>10 DEF LoopInv

LEMMA AttrStep ==
    ASSUME IInv, ArrayInv, KeptInv, TodoInv, IdMapInv, AttrInv, [NextAll]_allVars
    PROVE  AttrInv'
<1>0. bparms' = bparms BY Changes
<1>1. AllApart' = AllApart /\ BaseUniform' = BaseUniform BY <1>0 DEF AllApart, BaseUniform
<1>2. ASSUME start64' = start64, ~InAttrLoop' PROVE AttrInv' BY <1>2 DEF AttrInv
<1>3. ASSUME start64' = start64, LoopInv' PROVE AttrInv' BY <1>3 DEF AttrInv
<1>4. ASSUME UNCHANGED <<vpc, vi, unused_va_ranges, todo, start64, flags, mem_ranges, num_mem_ranges>>
      PROVE  AttrInv'
  <2>1. InAttrLoop' = InAttrLoop /\ LiveRanges' = LiveRanges BY <1>4 DEF InAttrLoop, LiveRanges
  <2>2. \A m : Passed(m)' <=> Passed(m) BY <1>4 DEF Passed
  <2>3. \A p : (Matters(p)' <=> Matters(p)) /\ (SetOrLeft(p)' <=> SetOrLeft(p))
    BY <1>0, <1>1, <1>4 DEF Matters, SetOrLeft
  <2>4. \A m : EntryDone(mem_ranges[m])' <=> EntryDone(mem_ranges[m]) BY <1>4, <2>3 DEF EntryDone
  <2>5. PagesRight(unused_va_ranges, flags, todo, bparms, BaseUniform)'
        <=> PagesRight(unused_va_ranges, flags, todo, bparms, BaseUniform)
    BY <1>0, <1>1, <1>4 DEF PagesRight
  <2>6. LoopInv => LoopInv' BY <1>4, <2>1, <2>2, <2>4, <2>5 DEF LoopInv
  <2> QED BY <1>4, <2>1, <2>6 DEF AttrInv
<1>5. CASE MapInit /\ UNCHANGED <<vpc, vaVars>>
  <2>1. pc \in Early
    BY <1>5 DEF MapInit, ChooseSpace, CopyRange, SortBegin, SortGap, SortPick, SortShift,
                SortPlace, SortNextGap, Early
  <2>2. vpc' = "array" /\ start64' = start64 BY <1>5, <2>1 DEF KeptInv, vaVars
  <2> QED BY <1>2, <2>2 DEF InAttrLoop, Setting
<1>6. CASE ScanTake /\ UNCHANGED <<vpc, vaVars>>
  <2>1. InAttrLoop' = InAttrLoop /\ start64' = start64 BY <1>6 DEF InAttrLoop, vaVars
  <2>2. CASE InAttrLoop
    <3>1. LoopInv' BY <1>0, <1>6, <2>2, TakeKeeps
    <3> QED BY <1>3, <2>1, <3>1
  <2>3. CASE ~InAttrLoop BY <1>2, <2>1, <2>3
  <2> QED BY <2>2, <2>3
<1>7. CASE (FindNarrow \/ FindWalk \/ ScanNext) /\ UNCHANGED <<vpc, vaVars>>
  BY <1>4, <1>7 DEF FindNarrow, FindWalk, ScanNext, vaVars
<1>8. CASE EnsurePt \/ UNCHANGED allVars \/ (Rests /\ UNCHANGED allVars) \/ AllocLater
  <2>1. CASE EnsurePt BY <1>4, <2>1 DEF EnsurePt, AllocBegin
  <2>2. CASE UNCHANGED allVars BY <1>4, <2>2 DEF allVars, vaVars, vars
  <2>3. CASE AllocLater
    <3>1. vpc' = "up" /\ start64' = start64 BY <2>3 DEF AllocLater, vaVars
    <3> QED BY <1>2, <3>1 DEF InAttrLoop, Setting
  <2> QED BY <1>8, <2>1, <2>2, <2>3
<1>9. CASE AllocArray \/ FindHole \/ HolesFound \/ AllocPdpt \/ AllocPd \/ PagingOn
  <2>1. vpc' \notin Setting \cup {"map"} /\ start64' = start64
    BY <1>9 DEF AllocArray, FindHole, HolesFound, AllocPdpt, AllocPd, PagingOn, vaVars, Setting
  <2> QED BY <1>2, <2>1 DEF InAttrLoop
<1>10. CASE MapBelowHoles
  <2>1. start64' = start64 /\ (vpc' = "undefined" \/ (vpc' = "map" /\ todo'.then = "idmap"))
    BY <1>10 DEF MapBelowHoles, IdMap
  <2> QED BY <1>2, <2>1 DEF InAttrLoop, Setting
<1>11. CASE MapBetweenHoles
  <2>1. start64' = start64 BY <1>11 DEF MapBetweenHoles
  <2>2. CASE vi < Len(unused_va_ranges)
    <3>1. vpc' = "map" /\ todo'.then = "idmap" BY <1>11, <2>2 DEF MapBetweenHoles, IdMap
    <3> QED BY <1>2, <2>1, <3>1 DEF InAttrLoop, Setting
  <2>3. CASE ~(vi < Len(unused_va_ranges))
    <3>1. LoopInv' BY <1>0, <1>11, <2>3, LoopBegins
    <3> QED BY <1>3, <2>1, <3>1
  <2> QED BY <2>2, <2>3
<1>12. CASE SetAttr
  <2>1. CASE PteFlags(mem_ranges[vi].attr) = "wb" \/ mem_ranges[vi].start >= Xm32Max
    <3>1. start64' = start64 BY <1>12, <2>1 DEF SetAttr
    <3>2. LoopInv' BY <1>0, <1>12, <2>1, AttrPassesOver
    <3> QED BY <1>3, <3>1, <3>2
  <2>2. CASE ~(PteFlags(mem_ranges[vi].attr) = "wb" \/ mem_ranges[vi].start >= Xm32Max)
    <3>1. LoopInv' BY <1>0, <1>12, <2>2, AttrSets
    <3>2. start64' = mem_ranges[vi].start /\ Idle /\ vi < num_mem_ranges /\ vpc = "attr"
      BY <1>12, <2>2 DEF SetAttr
    <3>3. vi \in 0 .. num_mem_ranges BY <3>2 DEF AttrInv, LoopInv, InAttrLoop, Setting
    <3>4. num_mem_ranges \in Nat BY <3>2, EntryFacts
    <3>5. vi \in LiveRanges BY <3>2, <3>3, <3>4 DEF LiveRanges
    <3>6. start64' \in Nat BY <3>2, <3>5, EntryFacts
    <3> QED BY <3>1, <3>6 DEF AttrInv
  <2> QED BY <2>1, <2>2
<1>13. CASE SkipDone
  <2>1. start64' = start64 BY <1>13 DEF SkipDone
  <2>2. LoopInv' BY <1>0, <1>13, SkipKeeps
  <2> QED BY <1>3, <2>1, <2>2
<1>14. CASE MapLarge \/ MapSmall
  <2>1. /\ vpc' = vpc /\ vpc = "map" /\ start64' = start64 /\ todo'.then = todo.then
    <3>1. todo \in TodoType BY DEF TodoInv, TodoType
    <3>2. PICK n \in Nat : /\ todo' = [todo EXCEPT !.from = todo.from + n] /\ vpc = "map"
                           /\ UNCHANGED <<vars, vpc, vi, unused_va_ranges, start64>>
      BY <1>14, MapStep
    <3>3. todo'.then = todo.then BY <3>1, <3>2 DEF TodoType
    <3> QED BY <3>2, <3>3
  <2>2. InAttrLoop' = InAttrLoop BY <2>1 DEF InAttrLoop
  <2>3. CASE InAttrLoop
    <3>1. LoopInv' BY <1>0, <1>14, <2>3, FlagsSet
    <3> QED BY <1>3, <2>1, <3>1
  <2>4. CASE ~InAttrLoop BY <1>2, <2>1, <2>2, <2>4
  <2> QED BY <2>3, <2>4
<1>15. CASE MapDone
  <2>1. /\ vpc = "map" /\ vpc' = todo.then /\ UNCHANGED vars
        /\ UNCHANGED <<vi, unused_va_ranges, todo, start64, flags>>
    BY <1>15 DEF MapDone, vaVars
  <2>2. todo.then \in {"idmap", "skip"} BY DEF TodoInv
  <2>3. CASE todo.then = "idmap" BY <1>2, <2>1, <2>3 DEF InAttrLoop, Setting
  <2>4. CASE todo.then = "skip"
    <3>1. LoopInv BY <2>1, <2>4 DEF AttrInv, InAttrLoop
    <3>2. num_mem_ranges' = num_mem_ranges /\ mem_ranges' = mem_ranges BY <2>1 DEF vars
    <3>3. LiveRanges' = LiveRanges /\ \A m : Passed(m)' <=> Passed(m)
      BY <2>1, <2>4, <3>2 DEF LiveRanges, Passed
    <3>4. \A p : (Matters(p)' <=> Matters(p)) /\ (SetOrLeft(p)' <=> SetOrLeft(p))
      BY <1>0, <1>1, <2>1 DEF Matters, SetOrLeft
    <3>5. \A m : EntryDone(mem_ranges[m])' <=> EntryDone(mem_ranges[m]) BY <3>2, <3>4 DEF EntryDone
    <3>6. PagesRight(unused_va_ranges, flags, todo, bparms, BaseUniform)'
          <=> PagesRight(unused_va_ranges, flags, todo, bparms, BaseUniform)
      BY <1>0, <1>1, <2>1 DEF PagesRight
    <3>7. LoopInv' BY <2>1, <3>1, <3>2, <3>3, <3>5, <3>6 DEF LoopInv
    <3> QED BY <1>3, <2>1, <3>7
  <2> QED BY <2>2, <2>3, <2>4
<1> QED BY <1>5, <1>6, <1>7, <1>8, <1>9, <1>10, <1>11, <1>12, <1>13, <1>14, <1>15
     DEF NextAll, VaInit, Search

\* A page with something in it that was reported as not to be cached has an
\* entry that says so, as far as base memory allows.
LEMMA EntryOfPage ==
    ASSUME IInv, ArrayInv, Idle, NEW p \in Pages, Matters(p),
           NEW n \in 1 .. Len(bparms), Touches(bparms[n], p)
    PROVE  \E m \in LiveRanges : Touches(mem_ranges[m], p) /\ mem_ranges[m].attr = bparms[n].attr
<1>1. /\ \A a \in 1 .. Len(bparms) :
            /\ bparms[a] \in Ranges /\ Sound(bparms[a])
            /\ \A b \in 1 .. Len(bparms) : a # b => Apart(bparms[a], bparms[b])
      /\ \A m \in LiveRanges : mem_ranges[m] \in Ranges /\ PartOf(mem_ranges[m], bparms)
  <2>1. pc \in {"sorted"} \cup Searching BY DEF Idle, Searching
  <2> QED BY <2>1, LiveFacts, ArrayNow
<1>2. ASSUME NEW a \in 1 .. Len(bparms)
      PROVE  /\ bparms[a].start \in Nat /\ EndOf(bparms[a]) \in Nat
             /\ bparms[a].start < EndOf(bparms[a])
             /\ bparms[a].start < BmemMax => EndOf(bparms[a]) =< BmemMax
  <2>1. bparms[a] \in Ranges /\ Sound(bparms[a]) BY <1>1
  <2>2. /\ bparms[a].start \in Nat /\ bparms[a].len \in Nat
        /\ EndOf(bparms[a]) = bparms[a].start + bparms[a].len
    BY <2>1, RangeType
  <2> QED BY <2>1, <2>2, MapAssumption DEF Sound
<1>3. PICK x \in Nat : x = p * PageSize BY BasePage
<1>4. PICK y \in Nat : y = (p + 1) * PageSize /\ x < y BY <1>3, BasePage
<1>5. EndOf(bparms[n]) > x /\ bparms[n].start < y BY <1>3, <1>4 DEF Touches
<1>6. PICK b \in Nat : x =< b /\ b < y /\ Covers(bparms[n], b)
  <2>1. /\ bparms[n].start \in Nat /\ EndOf(bparms[n]) \in Nat
        /\ bparms[n].start < EndOf(bparms[n])
    BY <1>2
  <2>2. CASE bparms[n].start =< x
    <3>1. x =< x /\ x < y /\ Covers(bparms[n], x) BY <1>4, <1>5, <2>1, <2>2 DEF Covers
    <3> QED BY <3>1
  <2>3. CASE bparms[n].start > x
    <3>1. x =< bparms[n].start /\ bparms[n].start < y /\ Covers(bparms[n], bparms[n].start)
      BY <1>5, <2>1, <2>3 DEF Covers
    <3> QED BY <2>1, <3>1
  <2> QED BY <2>1, <2>2, <2>3
<1>7. PICK m \in LiveRanges : Covers(mem_ranges[m], b) BY <1>6, BytesKept
<1>8. mem_ranges[m].start \in Nat /\ EndOf(mem_ranges[m]) \in Nat BY EntryFacts
<1>9. Touches(mem_ranges[m], p)
  <2>1. EndOf(mem_ranges[m]) > x /\ mem_ranges[m].start < y BY <1>4, <1>6, <1>7, <1>8 DEF Covers
  <2> QED BY <1>3, <1>4, <2>1 DEF Touches
<1>10. PICK c \in 1 .. Len(bparms) : /\ Within(mem_ranges[m], bparms[c])
                                     /\ bparms[c].attr = mem_ranges[m].attr
  BY <1>1 DEF PartOf
<1>11. /\ bparms[c].start \in Nat /\ EndOf(bparms[c]) \in Nat
       /\ bparms[c].start < BmemMax => EndOf(bparms[c]) =< BmemMax
       /\ bparms[n].start \in Nat /\ EndOf(bparms[n]) \in Nat
  BY <1>2
<1>12. Covers(bparms[c], b) BY <1>7, <1>8, <1>10, <1>11 DEF Covers, Within
<1>13. CASE c = n BY <1>9, <1>10, <1>13
<1>14. CASE c # n
  <2>1. ~Disjoint(bparms[c], bparms[n]) BY <1>6, <1>11, <1>12 DEF Covers, Disjoint
  <2>2. ~AllApart BY <1>14, <2>1 DEF AllApart
  <2>3. bparms[c].start < BmemMax /\ bparms[n].start < BmemMax
    BY <1>1, <1>14, <2>1 DEF Apart
  <2>4. ~(x >= BmemMax) BY <1>6, <1>11, <1>12, <2>3, MapAssumption DEF Covers
  <2>5. BaseUniform BY <1>3, <2>2, <2>4 DEF Matters
  <2>6. bparms[c].attr = bparms[n].attr BY <2>3, <2>5 DEF BaseUniform
  <2> QED BY <1>9, <1>10, <2>6
<1> QED BY <1>13, <1>14

\* The pages when the loop over mem_ranges[] is over.
LEMMA LoopEnds ==
    ASSUME IInv, ArrayInv, KeptInv, TodoInv, AttrInv, vpc = "attr", Idle, vi = num_mem_ranges,
           NEW p \in Reported
    PROVE  FinalPage(p)
<1> DEFINE hs == unused_va_ranges
           e == hs[Len(hs)]
<1>1. p \in Pages /\ \E n \in 1 .. Len(bparms) : Touches(bparms[n], p)
  <2>1. DOMAIN bparms = 1 .. Len(bparms) BY MapApart DEF IInv, TypeOK
  <2> QED BY <2>1 DEF Reported, PagesOf, Pages, Touches
<1>2. /\ PagesRight(hs, flags, todo, bparms, BaseUniform)
      /\ \A m \in LiveRanges : Passed(m) => EntryDone(mem_ranges[m])
  BY DEF AttrInv, LoopInv, InAttrLoop, Setting
<1>3. vpc \in Mapping BY DEF Mapping
<1>4. ~InHole(hs, p) BY <1>1, <1>3, HolesThere
<1>5. /\ p * PageSize < EndOf(e) => flags[p] # "none"
      /\ p * PageSize >= hs[1].start /\ AttrsOf(bparms, p) \subseteq {"wb"}
           => flags[p] \in {"wb", "none"}
  BY <1>1, <1>2, <1>4 DEF PagesRight
<1>6. ASSUME p * PageSize < BmemMax PROVE flags[p] # "none"
  <2>1. Len(hs) \in 1 .. Len(hs)
    <3>1. Len(hs) \in Nat /\ Len(hs) >= 1 BY <1>3, HolesThere
    <3> QED BY <3>1
  <2>2. e.start \in Nat /\ EndOf(e) \in Nat /\ e.start < EndOf(e) /\ BmemMax =< e.start
    BY <1>3, <2>1, HolesThere
  <2>3. p * PageSize \in Nat BY <1>1, BasePage
  <2>4. p * PageSize < EndOf(e) BY <1>6, <2>2, <2>3, MapAssumption
  <2> QED BY <1>5, <2>4
<1>7. ASSUME AttrsOf(bparms, p) # {"wb"}, Matters(p) PROVE flags[p] \in RightFlags(bparms, p)
  <2>1. AttrsOf(bparms, p) # {} BY <1>1 DEF AttrsOf
  <2>2. PICK a \in AttrsOf(bparms, p) : a # "wb" BY <1>7, <2>1
  <2>3. PICK n \in 1 .. Len(bparms) : Touches(bparms[n], p) /\ bparms[n].attr = a
    BY <2>2 DEF AttrsOf
  <2>4. PICK m \in LiveRanges : Touches(mem_ranges[m], p) /\ mem_ranges[m].attr = a
    BY <1>1, <1>7, <2>3, EntryOfPage
  <2>5. Passed(m)
    <3>1. num_mem_ranges \in Nat BY EntryFacts
    <3>2. m < num_mem_ranges BY <3>1 DEF LiveRanges
    <3> QED BY <3>2 DEF Passed
  <2>6. EntryDone(mem_ranges[m]) BY <1>2, <2>5
  <2>7. SetOrLeft(p) BY <1>1, <1>7, <2>2, <2>4, <2>6 DEF EntryDone
  <2>8. ~(todo.from =< p /\ p < todo.to)
    <3>1. todo.to =< todo.from /\ todo.from \in Nat /\ todo.to \in 0 .. NPages BY DEF TodoInv
    <3>2. todo.to \in Nat /\ p \in Nat BY <1>1, <3>1, Marks DEF Pages
    <3> QED BY <3>1, <3>2
  <2> QED BY <2>7, <2>8 DEF SetOrLeft
<1> QED BY <1>5, <1>6, <1>7 DEF FinalPage

LEMMA FinalStep ==
    ASSUME IInv, ArrayInv, KeptInv, TodoInv, AttrInv, FinalInv, [NextAll]_allVars
    PROVE  FinalInv'
<1>0. bparms' = bparms BY Changes
<1>1. Reported' = Reported BY <1>0 DEF Reported, PagesOf
<1>2. AllApart' = AllApart /\ BaseUniform' = BaseUniform BY <1>0 DEF AllApart, BaseUniform
<1>3. ASSUME UNCHANGED <<unused_va_ranges, flags>>, \A p \in Reported : FinalPage(p) PROVE FinalInv'
  <2>1. \A p : Matters(p)' <=> Matters(p) BY <1>2 DEF Matters
  <2>2. \A p : FinalPage(p)' <=> FinalPage(p) BY <1>0, <1>3, <2>1 DEF FinalPage
  <2> QED BY <1>1, <1>3, <2>2 DEF FinalInv
<1>4. ASSUME vpc' = vpc, UNCHANGED <<unused_va_ranges, flags>> PROVE FinalInv'
  <2>1. CASE vpc = "up" BY <1>3, <1>4, <2>1 DEF FinalInv
  <2>2. CASE vpc # "up" BY <1>4, <2>2 DEF FinalInv
  <2> QED BY <2>1, <2>2
<1>5. ASSUME vpc' # "up" PROVE FinalInv' BY <1>5 DEF FinalInv
<1>6. CASE PagingOn
  <2>1. /\ vpc = "attr" /\ Idle /\ vi = num_mem_ranges
        /\ UNCHANGED <<unused_va_ranges, flags>>
    BY <1>6 DEF PagingOn, vaVars
  <2>2. \A p \in Reported : FinalPage(p) BY <2>1, LoopEnds
  <2> QED BY <1>3, <2>1, <2>2
<1>7. CASE (MapInit \/ Search) /\ UNCHANGED <<vpc, vaVars>> BY <1>4, <1>7 DEF vaVars
<1>8. CASE AllocLater \/ UNCHANGED allVars \/ (Rests /\ UNCHANGED allVars)
  BY <1>4, <1>8 DEF AllocLater, allVars, vaVars
<1>9. CASE AllocArray \/ FindHole \/ HolesFound \/ AllocPdpt \/ AllocPd \/ MapBelowHoles
           \/ MapBetweenHoles \/ SetAttr \/ SkipDone \/ MapLarge \/ MapSmall \/ EnsurePt
  <2>1. vpc' # "up"
    BY <1>9 DEF AllocArray, FindHole, HolesFound, AllocPdpt, AllocPd, MapBelowHoles,
                MapBetweenHoles, SetAttr, SkipDone, MapLarge, MapSmall, MapPages, EnsurePt, IdMap
  <2> QED BY <1>5, <2>1
<1>10. CASE MapDone
  <2>1. vpc' = todo.then /\ todo.then \in {"idmap", "skip"} BY <1>10 DEF MapDone, TodoInv
  <2> QED BY <1>5, <2>1
<1> QED BY <1>6, <1>7, <1>8, <1>9, <1>10 DEF NextAll, VaInit

(***************************************************************************)
(* When paging goes on, what was reported is mapped to itself, and no page *)
(* with something in it that may not be cached is write-back, for every    *)
(* memory map that stage 1 may report, in any order, and however often     *)
(* mem_alloc splits the array that va_init walks (mem.c:371-425).          *)
(***************************************************************************)
THEOREM IdentityMapped == SpecAll => []IdMapped
<1> DEFINE Inv == HoleInv /\ ArrayInv /\ KeptInv /\ TodoInv /\ IdMapInv /\ AttrInv /\ FinalInv
<1>1. InitAll => Inv
  <2> SUFFICES ASSUME InitAll PROVE Inv OBVIOUS
  <2>1. /\ vpc = "array" /\ unused_va_ranges = << >> /\ todo = NothingToDo /\ start64 = 0
        /\ flags = [p \in Pages |-> "none"]
    BY DEF InitAll, Pages
  <2>2. pc = "size" BY DEF InitAll, Init
  <2>3. HoleInv BY <2>1 DEF HoleInv, NothingToDo
  <2>4. ArrayInv BY <2>2 DEF ArrayInv, Searching
  <2>5. KeptInv BY <2>1 DEF KeptInv, Mapping
  <2>6. TodoInv
    <3>1. 0 \in 0 .. NPages BY Marks
    <3>2. todo \in [from : Nat, to : 0 .. NPages, flags : PageFlags, then : {"idmap", "skip"}]
      BY <2>1, <3>1 DEF NothingToDo, PageFlags
    <3>3. todo.to =< todo.from BY <2>1 DEF NothingToDo
    <3>4. flags \in [Pages -> PageFlags \cup {"none"}] BY <2>1
    <3> QED BY <3>2, <3>3, <3>4 DEF TodoInv
  <2>7. IdMapInv BY <2>1 DEF IdMapInv
  <2>8. AttrInv BY <2>1 DEF AttrInv, InAttrLoop, Setting
  <2>9. FinalInv BY <2>1 DEF FinalInv
  <2> QED BY <2>3, <2>4, <2>5, <2>6, <2>7, <2>8, <2>9
<1>2. IInv /\ Inv /\ [NextAll]_allVars => Inv'
  BY HolesStep, ArrayStep, KeptStep, TodoStep, IdMapStep, AttrStep, FinalStep
<1>3. IInv /\ Inv => IdMapped
  <2> SUFFICES ASSUME IInv, FinalInv, vpc = "up" PROVE IdMapped BY DEF IdMapped
  <2>1. /\ DOMAIN bparms = 1 .. Len(bparms)
        /\ \A a, b \in 1 .. Len(bparms) : a # b => Apart(bparms[a], bparms[b])
    BY MapApart DEF IInv, TypeOK
  <2>2. BaseSimple => AllApart \/ BaseUniform
    <3> DEFINE base == {n \in DOMAIN bparms : bparms[n].start < BmemMax}
    <3>1. CASE \A m, n \in base : m # n => Disjoint(bparms[m], bparms[n])
      <4>1. \A m, n \in 1 .. Len(bparms) : m # n => Disjoint(bparms[m], bparms[n])
        BY <2>1, <3>1 DEF Apart
      <4> QED BY <4>1 DEF AllApart
    <3>2. CASE \A m, n \in base : bparms[m].attr = bparms[n].attr
      BY <2>1, <3>2 DEF BaseUniform
    <3> QED BY <3>1, <3>2 DEF BaseSimple
  <2>3. ASSUME NEW p \in Reported
        PROVE  {bparms[n].attr : n \in {n \in DOMAIN bparms : p \in PagesOf(bparms[n])}}
               = AttrsOf(bparms, p)
    <3>1. p \in Pages BY DEF Reported, PagesOf, Pages
    <3>2. \A n : p \in PagesOf(bparms[n]) <=> Touches(bparms[n], p)
      BY <3>1 DEF PagesOf, Touches, Pages
    <3>3. {n \in DOMAIN bparms : p \in PagesOf(bparms[n])}
          = {n \in 1 .. Len(bparms) : Touches(bparms[n], p)}
      BY <2>1, <3>2
    <3> QED BY <3>3 DEF AttrsOf
  <2>4. ASSUME NEW p \in Reported
        PROVE  LET hs == unused_va_ranges
                   attrs == {bparms[n].attr : n \in {n \in DOMAIN bparms : p \in PagesOf(bparms[n])}}
               IN  IF attrs = {"wb"}
                   THEN /\ p * PageSize < EndOf(hs[Len(hs)]) => flags[p] # "none"
                        /\ p * PageSize >= hs[1].start => flags[p] \in {"wb", "none"}
                   ELSE IF p * PageSize >= BmemMax \/ BaseSimple
                   THEN flags[p] \in {PteFlags(a) : a \in attrs \ {"wb"}}
                   ELSE flags[p] # "none"
    <3>1. FinalPage(p) BY DEF FinalInv
    <3>2. p \in Pages BY DEF Reported, PagesOf, Pages
    <3>3. p * PageSize >= BmemMax \/ p * PageSize < BmemMax
      <4>1. p * PageSize \in Nat BY <3>2, BasePage
      <4> QED BY <4>1, MapAssumption
    <3>4. p * PageSize >= BmemMax \/ BaseSimple => Matters(p) BY <2>2 DEF Matters
    <3> QED BY <2>3, <3>1, <3>3, <3>4 DEF FinalPage, RightFlags
  <2> QED BY <2>4 DEF IdMapped
<1> HIDE DEF Inv
<1> QED BY <1>1, <1>2, <1>3, InductiveAll, PTL DEF SpecAll
=============================================================================
