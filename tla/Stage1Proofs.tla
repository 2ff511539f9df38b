---------------------------- MODULE Stage1Proofs ----------------------------
(***************************************************************************)
(* Proofs about Stage1Main, for every memory map of the firmware, every    *)
(* file and every way its timer events change the map: stage 2 starts with *)
(* its segments in memory, none of their pages is reported as RAM, what is *)
(* reported is true, and free_stage2_mem undoes what it can.               *)
(***************************************************************************)
EXTENDS Stage1Main, NatFacts, TLAPS

PagesOfSeg(n) == SegPages(file.phdrs[n])

\* Segments that are loaded, and all that have pages.
Filled == {n \in 1 .. ph_idx - 1 : file.phdrs[n].load}
Placed == IF pc = "fill" THEN Filled \cup {ph_idx} ELSE Filled

Fit(f) == \A a \in DOMAIN f.phdrs :
            f.phdrs[a].paddr + f.phdrs[a].memsz =< Xm32Pages * PageSize

TypeInv ==
    /\ map \in [Pages -> Types]
    /\ key \in Nat /\ map_key \in 0 .. key
    /\ disk \in Disks /\ file \in Files /\ Fit(file)
    /\ ph_idx \in 1 .. Len(file.phdrs) + 1
    /\ mem = [a \in 0 .. AddrEnd - 1 |-> mem[a]]
    /\ trampoline \in Pages

BeforePcs == {"media", "trampoline", "open"}
LoadPcs == {"headers", "load", "fill"}
HandPcs == {"map", "wait", "exit", "run", "stage2"}
UndoPcs == {"undo", "undone"}

PcInv ==
    /\ pc \in BeforePcs \cup LoadPcs \cup HandPcs \cup UndoPcs \cup {"error"}
    /\ pc \in BeforePcs => file = NoFile
    /\ pc \in BeforePcs \cup {"headers"} => ph_idx = 1
    /\ pc \in HandPcs => ph_idx = Len(file.phdrs) + 1
    /\ pc = "fill" => /\ ph_idx =< Len(file.phdrs) /\ Phdr.load
                      /\ Phdr.filesz =< Phdr.memsz

\* Each segment has pages of its own; the trampoline has another one.
PlacedInv ==
    pc # "error" =>
        /\ held = UNION {PagesOfSeg(n) : n \in Placed}
        /\ \A m, n \in Placed : m # n => PagesOfSeg(m) \cap PagesOfSeg(n) = {}
        /\ \A n \in Placed : PagesOfSeg(n) # {}

KeptInv ==
    pc \notin UndoPcs \cup {"error"} =>
        /\ \A n \in Placed : \A p \in PagesOfSeg(n) : map[p] = SegType
        /\ pc \notin {"media", "trampoline"} => map[trampoline] = "LoaderData"

\* A byte of a segment.
Contents(h, o) == IF o < h.filesz THEN FileByte(h.off + o) ELSE 0

FilledInv ==
    pc \notin UndoPcs \cup {"error", "stage2"} =>
        \A n \in Filled : \A o \in 0 .. file.phdrs[n].memsz - 1 :
            mem[file.phdrs[n].paddr + o] = Contents(file.phdrs[n], o)

\* The report on the map as it is.
Reported(d) ==
    LET start == IF d.start < BmemPages THEN BmemMax ELSE d.start * PageSize
    IN  [start |-> start, len |-> (DescEnd(d) - start) % AddrEnd, type |-> E820(d.type)]
TrueReport == {Reported(d) : d \in {d \in Descs : ~InBaseMem(d)}}

ReportInv ==
    /\ pc \in {"wait", "exit"} /\ map_key = key => report = TrueReport
    /\ pc \in {"run", "stage2"} => report = TrueReport

UndoInv ==
    /\ pc \notin UndoPcs \cup {"error"} => undone = 0 /\ freed = {}
    /\ pc \in UndoPcs =>
        /\ undone \in 0 .. ph_idx - 1
        /\ pc = "undone" => undone = ph_idx - 1
        /\ Uniform =>
            /\ freed = UNION {PagesOfSeg(n) : n \in 1 .. undone}
            /\ \A n \in undone + 1 .. ph_idx - 1 : \A p \in PagesOfSeg(n) : map[p] = SegType

IInv == TypeInv /\ PcInv /\ PlacedInv /\ KeptInv /\ FilledInv /\ ReportInv /\ UndoInv /\ Loaded

-----------------------------------------------------------------------------
(***************************************************************************)
(* Pages and addresses.                                                    *)
(***************************************************************************)
LEMMA Sizes ==
    /\ PageSize \in Nat \ {0} /\ NPages \in Nat \ {0}
    /\ BmemPages \in 1 .. NPages /\ Xm32Pages \in BmemPages .. NPages
    /\ AddrEnd \in Nat \ {0} /\ Pages = 0 .. NPages - 1
BY Stage1Assumption DEF AddrEnd, Pages

\* The page of a byte that is o bytes after the start of page f.
LEMMA PageOfByte ==
    ASSUME NEW f \in Nat, NEW z \in Nat, NEW o \in 0 .. z - 1
    PROVE  (PageSize * f + o) \div PageSize \in f .. f + PagesFor(z) - 1
<1>1. PageSize \in Nat \ {0} BY Sizes
<1>2. o + PageSize * f = PageSize * f + o BY <1>1
<1>3. (o + PageSize * f) \div PageSize = (o \div PageSize) + f BY <1>1, DivModAdd
<1>4. o \div PageSize \in Nat BY <1>1, DivModDef
<1>5. (o + PageSize * 1) \div PageSize = (o \div PageSize) + 1 BY <1>1, DivModAdd
<1>6. (o + PageSize * 1) \div PageSize =< (z + PageSize - 1) \div PageSize
  <2>1. o + PageSize * 1 \in Int /\ z + PageSize - 1 \in Int
        /\ o + PageSize * 1 =< z + PageSize - 1
    BY <1>1
  <2> QED BY <1>1, <2>1, DivMonotone
<1>7. (z + PageSize - 1) \div PageSize \in Int
  <2>1. z + PageSize - 1 \in Int BY <1>1
  <2> QED BY <1>1, <2>1, DivModDef
<1> QED BY <1>2, <1>3, <1>4, <1>5, <1>6, <1>7 DEF PagesFor

\* A segment's pages are pages, and its bytes are in them.
LEMMA SegmentIn ==
    ASSUME NEW h \in Phdrs, h.paddr + h.memsz =< Xm32Pages * PageSize
    PROVE  /\ Slack(h) \in Nat /\ h.paddr - Slack(h) \in Nat
           /\ SegPages(h) \subseteq Pages
           /\ \A o \in 0 .. h.memsz + Slack(h) - 1 :
                /\ (h.paddr - Slack(h) + o) \div PageSize \in SegPages(h)
                /\ h.paddr - Slack(h) + o \in 0 .. AddrEnd - 1
<1> DEFINE f == h.paddr \div PageSize
           s == Slack(h)
           z == h.memsz + s
<1>1. PageSize \in Nat \ {0} /\ h.paddr \in Nat /\ h.memsz \in Nat BY Sizes DEF Phdrs
<1>2. f \in Nat /\ s \in 0 .. PageSize - 1 /\ h.paddr = PageSize * f + s
  <2>1. h.paddr \in Int BY <1>1
  <2>2. /\ h.paddr % PageSize \in 0 .. PageSize - 1
        /\ h.paddr = PageSize * (h.paddr \div PageSize) + (h.paddr % PageSize)
        /\ h.paddr \div PageSize \in Nat
    BY <1>1, <2>1, DivModDef
  <2> QED BY <2>2 DEF Slack
<1>3. SegPages(h) = f .. f + PagesFor(z) - 1 BY DEF SegPages
<1> HIDE DEF f, s
<1>4. z \in Nat BY <1>1, <1>2
<1>5. h.paddr - s = PageSize * f /\ PageSize * f \in Nat BY <1>1, <1>2
<1>6. f + PagesFor(z) =< Xm32Pages
  <2> DEFINE x == z + PageSize - 1
  <2>1. x \in Int BY <1>1, <1>4
  <2> HIDE DEF x
  <2>2. (x + PageSize * f) \div PageSize = (x \div PageSize) + f
    BY <1>1, <1>2, <2>1, DivModAdd
  <2>3. PageSize - 1 \in 0 .. PageSize - 1 /\ Xm32Pages \in Nat BY <1>1, Sizes
  <2>4. (PageSize * Xm32Pages + (PageSize - 1)) \div PageSize = Xm32Pages
    <3> DEFINE r == PageSize - 1
    <3>1. r \in 0 .. PageSize - 1 /\ Xm32Pages \in Int BY <2>3
    <3> HIDE DEF r
    <3>2. (PageSize * Xm32Pages + r) \div PageSize = Xm32Pages BY <1>1, <3>1, DivModUnique
    <3> QED BY <3>2 DEF r
  <2>5. PageSize * Xm32Pages = Xm32Pages * PageSize /\ PageSize * Xm32Pages \in Nat
    BY <1>1, <2>3
  <2>6. x + PageSize * f =< PageSize * Xm32Pages + (PageSize - 1)
    BY <1>1, <1>2, <1>4, <1>5, <2>5 DEF x
  <2>7. (x + PageSize * f) \div PageSize
            =< (PageSize * Xm32Pages + (PageSize - 1)) \div PageSize
    BY <1>1, <1>5, <2>1, <2>5, <2>6, DivMonotone
  <2>8. PagesFor(z) = x \div PageSize BY DEF PagesFor, x
  <2>9. x \div PageSize \in Int BY <1>1, <2>1, DivModDef
  <2> QED BY <1>2, <2>2, <2>4, <2>7, <2>8, <2>9
<1>7. SegPages(h) \subseteq Pages
  <2>1. PagesFor(z) \in Int
    <3>1. z + PageSize - 1 \in Int BY <1>1, <1>4
    <3> QED BY <1>1, <3>1, DivModDef DEF PagesFor
  <2>2. Xm32Pages \in Nat /\ Xm32Pages =< NPages /\ NPages \in Nat BY Sizes
  <2> QED BY <1>2, <1>3, <1>6, <2>1, <2>2 DEF Pages
<1>8. ASSUME NEW o \in 0 .. z - 1
      PROVE  /\ (h.paddr - s + o) \div PageSize \in SegPages(h)
             /\ h.paddr - s + o \in 0 .. AddrEnd - 1
  <2>1. (PageSize * f + o) \div PageSize \in f .. f + PagesFor(z) - 1
    BY <1>2, <1>4, PageOfByte
  <2>2. Xm32Pages * PageSize =< NPages * PageSize /\ NPages * PageSize \in Nat
        /\ Xm32Pages * PageSize \in Nat
    <3>1. Xm32Pages \in Int /\ NPages \in Int /\ Xm32Pages =< NPages BY Sizes
    <3> QED BY <1>1, <3>1, Sizes, MulMonotone
  <2>3. h.paddr - s + o \in Nat /\ h.paddr - s + o < Xm32Pages * PageSize
    BY <1>1, <1>2, <1>4, <1>5, <2>2
  <2>4. h.paddr - s + o \in 0 .. AddrEnd - 1
    BY <2>2, <2>3, Sizes DEF AddrEnd
  <2> QED BY <1>3, <1>5, <2>1, <2>4
<1> QED BY <1>1, <1>2, <1>5, <1>7, <1>8 DEF s

-----------------------------------------------------------------------------
(***************************************************************************)
(* The report.                                                             *)
(***************************************************************************)
LEMMA DescPages ==
    ASSUME NEW d \in Descs
    PROVE  /\ d.start \in 0 .. NPages - 1 /\ d.pages \in 1 .. NPages
           /\ d.start + d.pages =< NPages /\ d.type # "none"
           /\ \A q \in d.start .. d.start + d.pages - 1 : map[q] = d.type
<1>1. d \in [start : Pages, pages : 1 .. NPages, type : Types \ {"none"}] BY DEF Descs
<1>2. d.start + d.pages =< NPages BY DEF Descs
<1>3. \A q \in d.start .. d.start + d.pages - 1 : map[q] = d.type
  <2>1. NPages \in Nat \ {0} BY Sizes
  <2>2. d.start \in Int /\ d.pages \in Int BY <1>1, <2>1 DEF Pages
  <2>3. SUFFICES ASSUME NEW q \in d.start .. d.start + d.pages - 1 PROVE map[q] = d.type
    OBVIOUS
  <2> QED BY <2>2 DEF Descs
<1> QED BY <1>1, <1>2, <1>3 DEF Pages

\* Each page of the map is in a descriptor.
LEMMA DescFound ==
    ASSUME map \in [Pages -> Types], NEW p \in Pages, map[p] # "none"
    PROVE  \E d \in Descs : p \in d.start .. d.start + d.pages - 1
<1> DEFINE S == {s \in 0 .. p : \A q \in s .. p : map[q] = map[p]}
           T == {e \in 0 .. NPages : p < e /\ \A q \in p .. e - 1 : map[q] = map[p]}
<1>0. NPages \in Nat \ {0} /\ p \in Nat /\ p < NPages BY Sizes
<1>1. PICK s \in S : \A t \in S : s =< t
  <2>1. p \in S /\ S \subseteq Nat BY <1>0
  <2> QED BY <2>1, LeastElement
<1>2. PICK e \in T : \A t \in T : t =< e
  <2>1. p + 1 \in T /\ T \subseteq 0 .. NPages BY <1>0
  <2> QED BY <1>0, <2>1, GreatestElement
<1>3. s \in 0 .. p /\ \A q \in s .. p : map[q] = map[p] OBVIOUS
<1>4. e \in 0 .. NPages /\ p < e /\ \A q \in p .. e - 1 : map[q] = map[p] OBVIOUS
<1>5. s = 0 \/ map[s - 1] # map[p]
  <2>1. ASSUME s # 0, map[s - 1] = map[p] PROVE FALSE
    <3>1. s - 1 \in 0 .. p /\ s - 1 < s BY <1>0, <1>3, <2>1
    <3>2. ASSUME NEW q \in s - 1 .. p PROVE map[q] = map[p]
      <4>1. q = s - 1 \/ q \in s .. p BY <1>0, <1>3
      <4> QED BY <4>1, <1>3, <2>1
    <3>3. s - 1 \in S BY <3>1, <3>2
    <3> QED BY <1>1, <3>1, <3>3, <1>0, <1>3
  <2> QED BY <2>1
<1>6. e = NPages \/ map[e] # map[p]
  <2>1. ASSUME e # NPages, map[e] = map[p] PROVE FALSE
    <3>1. e + 1 \in 0 .. NPages /\ p < e + 1 BY <1>0, <1>4, <2>1
    <3>2. ASSUME NEW q \in p .. (e + 1) - 1 PROVE map[q] = map[p]
      <4>1. q = e \/ q \in p .. e - 1 BY <1>0, <1>4
      <4> QED BY <4>1, <1>4, <2>1
    <3>3. e + 1 \in T BY <3>1, <3>2
    <3> QED BY <1>2, <3>3, <1>0, <1>4
  <2> QED BY <2>1
<1> HIDE DEF S, T
<1> DEFINE d == [start |-> s, pages |-> e - s, type |-> map[p]]
<1>7. d \in [start : Pages, pages : 1 .. NPages, type : Types \ {"none"}]
  BY <1>0, <1>3, <1>4 DEF Pages
<1>8. d.start = s /\ d.pages = e - s /\ d.start + d.pages = e /\ d.type = map[p] BY <1>0, <1>3, <1>4
<1> HIDE DEF d
<1>9. ASSUME NEW q \in s .. e - 1 PROVE map[q] = map[p]
  <2>1. q \in s .. p \/ q \in p .. e - 1 BY <1>0, <1>3, <1>4
  <2> QED BY <2>1, <1>3, <1>4
<1>10. d \in Descs BY <1>4, <1>5, <1>6, <1>7, <1>8, <1>9 DEF Descs
<1>11. p \in d.start .. d.start + d.pages - 1
  <2>1. p \in s .. s + (e - s) - 1 BY <1>0, <1>3, <1>4
  <2> QED BY <2>1, <1>8
<1> QED BY <1>10, <1>11

\* In extended memory, what is reported of a descriptor are its pages.
LEMMA DescReported ==
    ASSUME NEW d \in Descs, ~InBaseMem(d),
           NEW p \in BmemPages .. NPages - 1, NEW a \in p * PageSize .. (p + 1) * PageSize - 1
    PROVE  Reported(d).start =< a /\ a < Reported(d).start + Reported(d).len
                <=> p \in d.start .. d.start + d.pages - 1
<1> DEFINE m == PageSize
           e == d.start + d.pages
           b == IF d.start < BmemPages THEN BmemPages ELSE d.start
           r == Reported(d)
<1>0. m \in Nat \ {0} /\ NPages \in Nat \ {0} /\ BmemPages \in 1 .. NPages BY Sizes
<1>1. /\ d.start \in 0 .. NPages - 1 /\ d.pages \in 1 .. NPages
      /\ e \in 1 .. NPages
  BY <1>0 DEF Descs, Pages
<1>2. b \in 1 .. NPages - 1 /\ p \in Nat BY <1>0, <1>1
<1> HIDE DEF m, e
<1>3. r.start = b * m BY DEF Reported, BmemMax, m
<1> HIDE DEF b
<1>4. a \in p * m .. (p + 1) * m - 1 BY DEF m
<1>5. /\ p * m \in Int /\ (p + 1) * m \in Int /\ b * m \in Int /\ e * m \in Int /\ NPages * m \in Int
      /\ 0 * m = 0
  BY <1>0, <1>1, <1>2
<1>6. DescEnd(d) = IF e = NPages THEN 0 ELSE e * m
  <2>1. DescEnd(d) = (e * m) % AddrEnd BY DEF DescEnd, e, m
  <2>2. AddrEnd = NPages * m /\ AddrEnd \in Nat \ {0} BY Sizes DEF AddrEnd, m
  <2>3. CASE e = NPages
    <3>1. AddrEnd * 1 + 0 = e * m /\ 0 \in 0 .. AddrEnd - 1 BY <2>2, <2>3
    <3>2. (AddrEnd * 1 + 0) % AddrEnd = 0 BY <2>2, <3>1, DivModUnique
    <3> QED BY <2>1, <2>3, <3>1, <3>2
  <2>4. CASE e # NPages
    <3>1. e < NPages /\ 0 =< e /\ e \in Int /\ NPages \in Int /\ 0 \in Int BY <1>0, <1>1, <2>4
    <3>2. e * m < NPages * m /\ 0 * m =< e * m BY <1>0, <3>1, MulMonotone
    <3>3. e * m \in 0 .. AddrEnd - 1 BY <1>5, <2>2, <3>2
    <3>4. (e * m) % AddrEnd = e * m BY <2>2, <3>3, ModSmall
    <3> QED BY <2>1, <2>4, <3>4
  <2> QED BY <2>3, <2>4
<1>7. e > b
  <2>1. e > d.start BY <1>0, <1>1 DEF e
  <2>2. e > BmemPages
    <3>1. CASE e = NPages BY <1>0, <3>1
    <3>2. CASE e # NPages /\ ~(e > BmemPages)
      <4>1. e =< BmemPages /\ e \in Int /\ BmemPages \in Int /\ 0 < e /\ 0 \in Int BY <1>0, <1>1, <3>2
      <4>2. e * m =< BmemPages * m /\ 0 * m < e * m BY <1>0, <4>1, MulMonotone
      <4>3. DescEnd(d) =< BmemMax /\ DescEnd(d) # 0 BY <1>5, <1>6, <3>2, <4>2 DEF BmemMax, m
      <4> QED BY <4>3 DEF InBaseMem
    <3> QED BY <3>1, <3>2
  <2> QED BY <2>1, <2>2 DEF b
<1>8. r.start + r.len = e * m
  <2>1. r.len = (DescEnd(d) - b * m) % AddrEnd BY <1>3 DEF Reported
  <2>2. AddrEnd = NPages * m /\ AddrEnd \in Nat \ {0} BY Sizes DEF AddrEnd, m
  <2>3. b \in Int /\ e \in Int /\ NPages \in Int /\ 0 \in Int /\ 0 < b /\ b < e /\ e =< NPages
    BY <1>0, <1>1, <1>2, <1>7
  <2>4. 0 * m < b * m /\ b * m < e * m /\ e * m =< NPages * m BY <1>0, <2>3, MulMonotone
  <2> DEFINE k == e * m - b * m
  <2>5. k \in 0 .. AddrEnd - 1 /\ b * m + k = e * m BY <1>5, <2>2, <2>4
  <2>6. (DescEnd(d) - b * m) % AddrEnd = k
    <3>1. CASE e = NPages
      <4>1. 0 - b * m = AddrEnd * (0 - 1) + k BY <1>5, <2>2, <3>1
      <4> HIDE DEF k
      <4>2. (AddrEnd * (0 - 1) + k) % AddrEnd = k BY <2>2, <2>5, DivModUnique
      <4> QED BY <1>6, <3>1, <4>1, <4>2
    <3>2. CASE e # NPages
      <4>1. DescEnd(d) - b * m = k BY <1>6, <3>2
      <4> HIDE DEF k
      <4> QED BY <2>2, <2>5, <4>1, ModSmall
    <3> QED BY <3>1, <3>2
  <2> QED BY <1>3, <2>1, <2>5, <2>6
<1>9. b * m =< a <=> b =< p
  <2>1. b \in Int /\ p \in Int /\ p + 1 \in Int BY <1>0, <1>2
  <2>2. (b =< p <=> b * m =< p * m) /\ (p + 1 =< b <=> (p + 1) * m =< b * m)
    BY <1>0, <2>1, MulMonotone
  <2> QED BY <1>4, <1>5, <2>1, <2>2
<1>10. a < e * m <=> p < e
  <2>1. e \in Int /\ p \in Int /\ p + 1 \in Int BY <1>0, <1>1
  <2>2. (e =< p <=> e * m =< p * m) /\ (p + 1 =< e <=> (p + 1) * m =< e * m)
    BY <1>0, <2>1, MulMonotone
  <2> QED BY <1>4, <1>5, <2>1, <2>2
<1>11. b =< p /\ p < e <=> p \in d.start .. e - 1
  BY <1>0, <1>1, <1>2 DEF b
<1>12. r.start =< a /\ a < r.start + r.len <=> p \in d.start .. e - 1
  BY <1>3, <1>8, <1>9, <1>10, <1>11
<1> QED BY <1>0, <1>1, <1>12 DEF e

LEMMA ReportIsTrue ==
    ASSUME map \in [Pages -> Types], report = TrueReport,
           NEW p \in BmemPages .. NPages - 1, NEW a \in p * PageSize .. (p + 1) * PageSize - 1
    PROVE  {r.type : r \in ReportedAt(a)} = IF map[p] = "none" THEN {} ELSE {E820(map[p])}
<1>0. p \in Pages BY Sizes DEF Pages
<1>1. ASSUME NEW r \in ReportedAt(a) PROVE map[p] # "none" /\ r.type = E820(map[p])
  <2>1. PICK d \in {d \in Descs : ~InBaseMem(d)} : r = Reported(d)
    BY DEF ReportedAt, TrueReport
  <2>2. p \in d.start .. d.start + d.pages - 1 BY <2>1, DescReported DEF ReportedAt
  <2>3. map[p] = d.type /\ d.type # "none" BY <2>2, DescPages
  <2> QED BY <2>1, <2>3 DEF Reported
<1>2. ASSUME map[p] # "none" PROVE \E r \in ReportedAt(a) : r.type = E820(map[p])
  <2>1. PICK d \in Descs : p \in d.start .. d.start + d.pages - 1 BY <1>0, <1>2, DescFound
  <2>2. map[p] = d.type BY <2>1, DescPages
  <2>3. ~InBaseMem(d)
    <3> DEFINE e == d.start + d.pages
    <3>1. e \in 1 .. NPages /\ p < e /\ BmemPages \in Nat /\ BmemPages < e
      BY <2>1, Sizes DEF Descs, Pages
    <3> HIDE DEF e
    <3>2. DescEnd(d) = (e * PageSize) % AddrEnd /\ AddrEnd = NPages * PageSize
      BY DEF DescEnd, AddrEnd, e
    <3>3. AddrEnd \in Nat \ {0} /\ NPages \in Nat /\ PageSize \in Nat \ {0} BY Sizes
    <3>4. CASE e = NPages
      <4>1. AddrEnd * 1 + 0 = e * PageSize /\ 0 \in 0 .. AddrEnd - 1 BY <3>2, <3>3, <3>4
      <4>2. (AddrEnd * 1 + 0) % AddrEnd = 0 BY <3>3, <4>1, DivModUnique
      <4> QED BY <3>2, <4>1, <4>2 DEF InBaseMem
    <3>5. CASE e # NPages
      <4>1. e \in Int /\ NPages \in Int /\ e < NPages /\ 0 \in Int /\ 0 =< e
            /\ BmemPages \in Int /\ BmemPages < e
        BY <3>1, <3>3, <3>5
      <4>2. e * PageSize < NPages * PageSize /\ 0 * PageSize =< e * PageSize
            /\ BmemPages * PageSize < e * PageSize
            /\ e * PageSize \in Int /\ BmemPages * PageSize \in Int
        BY <3>3, <4>1, MulMonotone
      <4>3. e * PageSize \in 0 .. AddrEnd - 1 BY <3>2, <3>3, <4>2
      <4>4. (e * PageSize) % AddrEnd = e * PageSize BY <3>3, <4>3, ModSmall
      <4> QED BY <3>2, <4>2, <4>4 DEF InBaseMem, BmemMax
    <3> QED BY <3>4, <3>5
  <2>4. Reported(d) \in TrueReport BY <2>3 DEF TrueReport
  <2>5. Reported(d) \in ReportedAt(a) BY <2>1, <2>3, <2>4, DescReported DEF ReportedAt
  <2>6. Reported(d).type = E820(map[p]) BY <2>2 DEF Reported
  <2> QED BY <2>5, <2>6
<1> QED BY <1>1, <1>2

\* Nothing is reported of base memory.
LEMMA ReportAbove ==
    ASSUME report = TrueReport, NEW a \in Int, a < BmemMax
    PROVE  ReportedAt(a) = {}
<1>1. ASSUME NEW r \in ReportedAt(a) PROVE FALSE
  <2>1. PICK d \in Descs : r = Reported(d) BY DEF ReportedAt, TrueReport
  <2>2. r.start =< a BY DEF ReportedAt
  <2>3. PageSize \in Nat \ {0} /\ BmemPages \in Int /\ d.start \in Int
    BY Sizes DEF Descs, Pages
  <2>4. BmemMax \in Int /\ BmemMax = BmemPages * PageSize BY <2>3 DEF BmemMax
  <2>5. r.start >= BmemMax
    <3>1. CASE d.start < BmemPages BY <2>1, <2>4, <3>1 DEF Reported
    <3>2. CASE ~(d.start < BmemPages)
      <4>1. BmemPages =< d.start BY <2>3, <3>2
      <4>2. BmemPages * PageSize =< d.start * PageSize BY <2>3, <4>1, MulMonotone
      <4>3. r.start = d.start * PageSize BY <2>1, <3>2 DEF Reported
      <4> QED BY <2>3, <2>4, <4>2, <4>3
    <3> QED BY <3>1, <3>2
  <2>6. r.start \in Int
    <3>1. r.start = BmemMax \/ r.start = d.start * PageSize BY <2>1 DEF Reported
    <3> QED BY <2>3, <2>4, <3>1
  <2> QED BY <2>2, <2>4, <2>5, <2>6
<1> QED BY <1>1

-----------------------------------------------------------------------------
(***************************************************************************)
(* The steps of stage 1, one invariant at a time.                          *)
(***************************************************************************)
LEMMA InitInv == Init => IInv
<1> SUFFICES ASSUME Init PROVE IInv OBVIOUS
<1>0. pc = "media" /\ ph_idx = 1 /\ file = NoFile /\ Filled = {} /\ Placed = {}
  BY DEF Init, Filled, Placed
<1>1. TypeInv
  <2>1. map \in [Pages -> Types] /\ disk \in Disks BY Stage1Assumption DEF Init
  <2>2. file \in Files /\ Fit(file) /\ Len(file.phdrs) = 0 BY <1>0 DEF NoFile, Files, Fit
  <2>3. trampoline \in Pages BY Sizes DEF Init
  <2> QED BY <1>0, <2>1, <2>2, <2>3 DEF TypeInv, Init
<1>2. PcInv BY <1>0 DEF PcInv, BeforePcs, HandPcs
<1>3. PlacedInv /\ KeptInv /\ FilledInv
  BY <1>0 DEF PlacedInv, KeptInv, FilledInv, Init
<1>4. ReportInv /\ UndoInv /\ Loaded
  BY <1>0 DEF ReportInv, UndoInv, Loaded, UndoPcs, Init
<1> QED BY <1>1, <1>2, <1>3, <1>4 DEF IInv

\* What each step does to the map, and its key: pages that are free or the
\* firmware's own change, or those that are freed.
LEMMA MapStep ==
    ASSUME TypeInv, [Next]_vars
    PROVE  /\ map' \in [Pages -> Types]
           /\ UNCHANGED <<map, key>> \/ key' = key + 1
           /\ ~FreeOne => \A p \in Pages : map[p] \notin {"Conventional", "BootServicesData"}
                             => map'[p] = map[p]
<1>1. CASE UNCHANGED <<map, key>> BY <1>1 DEF TypeInv
<1>2. ASSUME NEW ps, NEW type \in Types, Allocate(ps, type)
      PROVE  /\ map' \in [Pages -> Types] /\ key' = key + 1
             /\ \A p \in Pages : p \notin ps => map'[p] = map[p]
  BY <1>2 DEF Allocate, TypeInv
<1>3. "Conventional" \in Types /\ "LoaderData" \in Types /\ "BootServicesData" \in Types
      /\ "ACPINVS" \in Types /\ SegType \in Types
  BY DEF Types, SegType
<1>4. CASE AllocTrampoline
  <2>1. CASE \E p \in 0 .. Xm32Pages - 1 :
                map[p] = "Conventional" /\ Allocate({p}, "LoaderData")
    BY <1>2, <1>3, <2>1
  <2> QED BY <1>1, <1>4, <2>1 DEF AllocTrampoline
<1>5. CASE LoadSegment
  <2>1. CASE (\A p \in SegPages(Phdr) : map[p] = "Conventional")
             /\ Allocate(SegPages(Phdr), SegType)
    BY <1>2, <1>3, <2>1
  <2> QED BY <1>1, <1>5, <2>1 DEF LoadSegment
<1>6. CASE FreeOne
  <2>1. CASE Allocate(PagesToFree(file.phdrs[undone + 1]), "Conventional")
    BY <1>2, <1>3, <1>6, <2>1 DEF FreeOne
  <2> QED BY <1>1, <1>6, <2>1 DEF FreeOne
<1>7. CASE FirmwareEvent
  <2>1. PICK p \in Pages :
        \/ /\ map[p] = "Conventional"
           /\ \E type \in {"BootServicesData", "ACPINVS"} : Allocate({p}, type)
        \/ map[p] = "BootServicesData" /\ Allocate({p}, "Conventional")
    BY <1>7 DEF FirmwareEvent
  <2>2. PICK type \in Types : Allocate({p}, type) BY <1>3, <2>1
  <2> QED BY <1>2, <2>1, <2>2
<1> QED BY <1>1, <1>4, <1>5, <1>6, <1>7
        DEF Next, Main, FindBootMedia, OpenStage2, ReadHeaders, FreeDone, SkipSegment,
            FillSegment, LoadDone, ReportMap, Wait, ExitBootServices, RunStage2,
            FirmwareError, vars

LEMMA MinOfNames ==
    ASSUME NEW S, S \subseteq 1 .. 3, S # {}
    PROVE  Min(S) \in S
<1>1. S \subseteq Nat BY SMT
<1>2. \E x \in S : \A y \in S : x =< y BY <1>1, LeastElement
<1> QED BY <1>2 DEF Min

LEMMA TypeStep ==
    ASSUME TypeInv, PcInv, [Next]_vars
    PROVE  TypeInv'
<1>1. map' \in [Pages -> Types] BY MapStep
<1>2. key' \in Nat /\ map_key' \in 0 .. key'
  <2>1. key \in Nat /\ map_key \in 0 .. key BY DEF TypeInv
  <2>2. key' = key \/ key' = key + 1 BY MapStep
  <2>3. map_key' = map_key \/ (map_key' = key /\ key' = key)
    BY DEF Next, Main, FindBootMedia, AllocTrampoline, OpenStage2, ReadHeaders, LoadSegment,
           FreeOne, FreeDone, SkipSegment, FillSegment, LoadDone, ReportMap, Wait,
           ExitBootServices, RunStage2, FirmwareError, FirmwareEvent, handVars, vars
  <2> QED BY <2>1, <2>2, <2>3
<1>3. UNCHANGED disk
  BY DEF Next, Main, FindBootMedia, AllocTrampoline, OpenStage2, ReadHeaders, LoadSegment,
         FreeOne, FreeDone, SkipSegment, FillSegment, LoadDone, ReportMap, Wait,
         ExitBootServices, RunStage2, FirmwareError, FirmwareEvent, vars
<1>4. file' \in Files /\ Fit(file') /\ ph_idx' \in 1 .. Len(file'.phdrs) + 1
  <2>0. file \in Files /\ Fit(file) /\ ph_idx \in 1 .. Len(file.phdrs) + 1
        /\ Len(file.phdrs) \in Nat
    BY DEF TypeInv, Files
  <2>1. CASE UNCHANGED <<file, ph_idx>> BY <2>0, <2>1
  <2>2. CASE OpenStage2 /\ file' # file
    <3>1. PICK n \in 1 .. 3 : file' = disk[n]
      <4> DEFINE there == {n \in 1 .. 3 : disk[n] # NoFile}
      <4>1. there # {} /\ file' = disk[Min(there)] BY <2>2 DEF OpenStage2
      <4>2. Min(there) \in there BY <4>1, MinOfNames
      <4> QED BY <4>1, <4>2
    <3>2. file' \in Files /\ Fit(file') BY <3>1, Stage1Assumption DEF TypeInv, Fit
    <3>3. ph_idx' = 1 BY <2>2 DEF OpenStage2, PcInv, BeforePcs
    <3>4. Len(file'.phdrs) \in Nat BY <3>2 DEF Files
    <3> QED BY <3>2, <3>3, <3>4
  <2>3. CASE SkipSegment
    BY <2>0, <2>3 DEF SkipSegment
  <2>4. CASE FillSegment /\ ph_idx' # ph_idx
    <3>1. ph_idx' = ph_idx + 1 /\ file' = file /\ pc = "fill" BY <2>4 DEF FillSegment
    <3>2. ph_idx =< Len(file.phdrs) BY <3>1 DEF PcInv
    <3> QED BY <2>0, <3>1, <3>2
  <2>5. FillSegment => file' = file BY DEF FillSegment
  <2>6. OpenStage2 => ph_idx' = ph_idx BY DEF OpenStage2
  <2> QED BY <2>1, <2>2, <2>3, <2>4, <2>5, <2>6
    DEF Next, Main, FindBootMedia, AllocTrampoline, ReadHeaders, LoadSegment,
        FreeOne, FreeDone, LoadDone, ReportMap, Wait,
        ExitBootServices, RunStage2, FirmwareError, FirmwareEvent, loadVars, vars
<1>5. mem' = [a \in 0 .. AddrEnd - 1 |-> mem'[a]]
  <2>0. mem = [a \in 0 .. AddrEnd - 1 |-> mem[a]] /\ DOMAIN mem = 0 .. AddrEnd - 1 BY DEF TypeInv
  <2>1. CASE UNCHANGED mem BY <2>0, <2>1
  <2>2. CASE FillSegment
    <3>1. CASE UNCHANGED mem BY <2>0, <3>1
    <3> QED BY <2>0, <2>2, <3>1 DEF FillSegment
  <2>3. CASE RunStage2 BY <2>0, <2>3 DEF RunStage2
  <2> QED BY <2>1, <2>2, <2>3
    DEF Next, Main, FindBootMedia, AllocTrampoline, OpenStage2, ReadHeaders, LoadSegment,
        FreeOne, FreeDone, SkipSegment, LoadDone, ReportMap, Wait,
        ExitBootServices, FirmwareError, FirmwareEvent, loadVars, vars
<1>6. trampoline' \in Pages
  <2>1. CASE UNCHANGED trampoline BY <2>1 DEF TypeInv
  <2>2. CASE AllocTrampoline /\ ~UNCHANGED trampoline
    <3>1. trampoline' \in 0 .. Xm32Pages - 1 BY <2>2 DEF AllocTrampoline
    <3> QED BY <3>1, Sizes
  <2> QED BY <2>1, <2>2
    DEF Next, Main, FindBootMedia, OpenStage2, ReadHeaders, LoadSegment,
        FreeOne, FreeDone, SkipSegment, FillSegment, LoadDone, ReportMap, Wait,
        ExitBootServices, RunStage2, FirmwareError, FirmwareEvent, vars
<1> QED BY <1>1, <1>2, <1>3, <1>4, <1>5, <1>6 DEF TypeInv

LEMMA PcStep ==
    ASSUME TypeInv, PcInv, [Next]_vars
    PROVE  PcInv'
<1> USE DEF PcInv, BeforePcs, LoadPcs, HandPcs, UndoPcs
<1>0. ph_idx \in 1 .. Len(file.phdrs) + 1 /\ Len(file.phdrs) \in Nat BY DEF TypeInv, Files
<1>1. CASE UNCHANGED vars BY <1>1 DEF vars, loadVars, Phdr
<1>2. CASE FindBootMedia BY <1>2 DEF FindBootMedia, loadVars
<1>3. CASE AllocTrampoline BY <1>3 DEF AllocTrampoline, loadVars, Fail
<1>4. CASE OpenStage2 BY <1>4 DEF OpenStage2, Fail
<1>5. CASE ReadHeaders BY <1>5 DEF ReadHeaders, loadVars
<1>6. CASE LoadSegment BY <1>6 DEF LoadSegment, Phdr
<1>7. CASE FreeOne BY <1>7 DEF FreeOne
<1>8. CASE FreeDone BY <1>8 DEF FreeDone
<1>9. CASE SkipSegment BY <1>9 DEF SkipSegment
<1>10. CASE FillSegment BY <1>10 DEF FillSegment, Fail
<1>11. CASE LoadDone BY <1>0, <1>11 DEF LoadDone, loadVars
<1>12. CASE ReportMap BY <1>12 DEF ReportMap, loadVars
<1>13. CASE Wait BY <1>13 DEF Wait, loadVars
<1>14. CASE ExitBootServices BY <1>14 DEF ExitBootServices, loadVars
<1>15. CASE RunStage2 BY <1>15 DEF RunStage2
<1>16. CASE FirmwareError BY <1>16 DEF FirmwareError, Fail
<1>17. CASE FirmwareEvent BY <1>17 DEF FirmwareEvent, loadVars, Phdr
<1> QED BY <1>1, <1>2, <1>3, <1>4, <1>5, <1>6, <1>7, <1>8, <1>9, <1>10, <1>11, <1>12,
           <1>13, <1>14, <1>15, <1>16, <1>17 DEF Next, Main

\* How a step changes which segments have pages.
LEMMA PlacedChange ==
    ASSUME TypeInv, PcInv, [Next]_vars, pc' # "error"
    PROVE  \/ /\ UNCHANGED <<file, held>> /\ Placed' = Placed
              /\ ~(LoadSegment /\ pc' = "fill")
           \/ OpenStage2 /\ Placed = {} /\ Placed' = {} /\ UNCHANGED held
           \/ /\ LoadSegment /\ pc' = "fill" /\ UNCHANGED <<file, ph_idx>>
              /\ ph_idx \notin Placed /\ Placed' = Placed \cup {ph_idx}
<1> DEFINE G == /\ UNCHANGED <<file, held>> /\ Placed' = Placed
                /\ ~(LoadSegment /\ pc' = "fill")
<1>0. ph_idx \in Nat BY DEF TypeInv
<1>1. CASE /\ UNCHANGED <<file, ph_idx, held>> /\ ~LoadSegment
           /\ pc = "fill" <=> pc' = "fill"
  <2>1. G BY <1>1 DEF Placed, Filled
  <2> QED BY <2>1
<1>2. CASE OpenStage2
  <2>1. ph_idx = 1 /\ ph_idx' = 1 /\ pc = "open" /\ pc' = "headers" /\ UNCHANGED held
    BY <1>2 DEF OpenStage2, PcInv, BeforePcs, Fail
  <2> QED BY <1>2, <2>1 DEF Placed, Filled
<1>3. CASE LoadSegment
  <2>1. pc = "load" /\ pc' \in {"fill", "undo"} /\ UNCHANGED <<file, ph_idx>>
        /\ (pc' = "undo" => UNCHANGED held)
    BY <1>3 DEF LoadSegment
  <2>2. Filled' = Filled /\ ph_idx \notin Filled BY <1>0, <2>1 DEF Filled
  <2> QED BY <1>3, <2>1, <2>2 DEF Placed
<1>4. CASE SkipSegment
  <2>1. pc = "load" /\ pc' = "load" /\ UNCHANGED <<file, held>> /\ ph_idx' = ph_idx + 1
        /\ ~file.phdrs[ph_idx].load
    BY <1>4 DEF SkipSegment, Phdr
  <2>2. Filled' = Filled
    <3>1. \A n \in 1 .. (ph_idx + 1) - 1 : n = ph_idx \/ n \in 1 .. ph_idx - 1 BY <1>0
    <3>2. \A n \in 1 .. ph_idx - 1 : n \in 1 .. (ph_idx + 1) - 1 BY <1>0
    <3> QED BY <2>1, <3>1, <3>2 DEF Filled
  <2>3. ~LoadSegment BY <2>1 DEF LoadSegment, Phdr
  <2>4. G BY <2>1, <2>2, <2>3 DEF Placed
  <2> QED BY <2>4
<1>5. CASE FillSegment
  <2>1. pc = "fill" /\ pc' = "load" /\ UNCHANGED <<file, held>> /\ ph_idx' = ph_idx + 1
    BY <1>5 DEF FillSegment, Fail
  <2>2. file.phdrs[ph_idx].load BY <2>1 DEF PcInv, Phdr
  <2>3. Filled' = Filled \cup {ph_idx}
    <3>1. \A n : n \in 1 .. (ph_idx + 1) - 1 <=> n = ph_idx \/ n \in 1 .. ph_idx - 1
      <4>1. ph_idx >= 1 BY DEF TypeInv, Files
      <4> QED BY <1>0, <4>1
    <3> QED BY <2>1, <2>2, <3>1 DEF Filled
  <2>4. G BY <2>1, <2>3 DEF Placed, LoadSegment
  <2> QED BY <2>4
<1> QED BY <1>1, <1>2, <1>3, <1>4, <1>5
    DEF Next, Main, FindBootMedia, AllocTrampoline, ReadHeaders, FreeOne, FreeDone, LoadDone,
        ReportMap, Wait, ExitBootServices, RunStage2, FirmwareError, FirmwareEvent, loadVars,
        vars, Fail, LoadSegment

LEMMA PlacedStep ==
    ASSUME TypeInv, PcInv, PlacedInv, KeptInv, [Next]_vars
    PROVE  PlacedInv'
<1> SUFFICES ASSUME pc' # "error" PROVE PlacedInv' BY DEF PlacedInv
<1>0. pc # "error"
  BY DEF Next, Main, FindBootMedia, AllocTrampoline, OpenStage2, ReadHeaders, LoadSegment,
         FreeOne, FreeDone, SkipSegment, FillSegment, LoadDone, ReportMap, Wait,
         ExitBootServices, RunStage2, FirmwareError, FirmwareEvent, vars
<1>1. CASE UNCHANGED <<file, held>> /\ Placed' = Placed
  BY <1>0, <1>1 DEF PlacedInv, PagesOfSeg
<1>2. CASE Placed = {} /\ Placed' = {} /\ UNCHANGED held
  BY <1>0, <1>2 DEF PlacedInv
<1>3. CASE /\ LoadSegment /\ pc' = "fill" /\ UNCHANGED <<file, ph_idx>>
           /\ ph_idx \notin Placed /\ Placed' = Placed \cup {ph_idx}
  <2> DEFINE new == PagesOfSeg(ph_idx)
  <2>1. pc = "load" /\ new # {} /\ (\A p \in new : map[p] = "Conventional")
        /\ held' = held \cup new
    BY <1>3 DEF LoadSegment, Phdr, PagesOfSeg
  <2>2. \A n : PagesOfSeg(n)' = PagesOfSeg(n) BY <1>3 DEF PagesOfSeg
  <2> HIDE DEF new
  <2>3. \A n \in Placed : \A p \in PagesOfSeg(n) : map[p] = SegType
    BY <2>1 DEF KeptInv, UndoPcs
  <2>4. \A n \in Placed : PagesOfSeg(n) \cap new = {} BY <2>1, <2>3 DEF SegType
  <2>5. held' = UNION {PagesOfSeg(n) : n \in Placed \cup {ph_idx}}
    BY <1>0, <2>1 DEF PlacedInv, new
  <2>6. \A m, n \in Placed \cup {ph_idx} : m # n => PagesOfSeg(m) \cap PagesOfSeg(n) = {}
    BY <1>0, <2>4 DEF PlacedInv, new
  <2>7. \A n \in Placed \cup {ph_idx} : PagesOfSeg(n) # {}
    BY <1>0, <2>1 DEF PlacedInv, new
  <2> QED BY <1>3, <2>2, <2>5, <2>6, <2>7 DEF PlacedInv
<1> QED BY <1>1, <1>2, <1>3, PlacedChange

\* The pages of segments are pages.
LEMMA HeaderIn ==
    ASSUME TypeInv, NEW n \in 1 .. Len(file.phdrs)
    PROVE  /\ file.phdrs[n] \in Phdrs
           /\ file.phdrs[n].paddr + file.phdrs[n].memsz =< Xm32Pages * PageSize
           /\ PagesOfSeg(n) \subseteq Pages
<1>1. file.phdrs \in Seq(Phdrs) BY DEF TypeInv, Files
<1>2. n \in DOMAIN file.phdrs /\ file.phdrs[n] \in Phdrs BY <1>1
<1>3. file.phdrs[n].paddr + file.phdrs[n].memsz =< Xm32Pages * PageSize
  BY <1>2 DEF TypeInv, Fit
<1>4. SegPages(file.phdrs[n]) \subseteq Pages BY <1>2, <1>3, SegmentIn
<1> QED BY <1>2, <1>3, <1>4 DEF PagesOfSeg

LEMMA PlacedIn ==
    ASSUME TypeInv, PcInv, NEW n \in Placed
    PROVE  /\ n \in 1 .. Len(file.phdrs) /\ file.phdrs[n] \in Phdrs /\ file.phdrs[n].load
           /\ file.phdrs[n].paddr + file.phdrs[n].memsz =< Xm32Pages * PageSize
           /\ PagesOfSeg(n) \subseteq Pages
<1>1. ph_idx \in 1 .. Len(file.phdrs) + 1 /\ Len(file.phdrs) \in Nat BY DEF TypeInv, Files
<1>2. n \in 1 .. Len(file.phdrs) /\ file.phdrs[n].load
  <2>1. n \in 1 .. ph_idx - 1 \/ (pc = "fill" /\ n = ph_idx) BY DEF Placed, Filled
  <2>2. pc = "fill" => ph_idx =< Len(file.phdrs) /\ file.phdrs[ph_idx].load BY DEF PcInv, Phdr
  <2>3. n \in 1 .. ph_idx - 1 => n \in 1 .. Len(file.phdrs) BY <1>1
  <2>4. file.phdrs[n].load BY <2>2 DEF Placed, Filled
  <2> QED BY <1>1, <2>1, <2>2, <2>3, <2>4
<1> QED BY <1>2, HeaderIn

\* Whoever is undoing a load, or has failed, stays there.
LEMMA PcBack ==
    ASSUME [Next]_vars
    PROVE  /\ pc = "error" => pc' = "error"
           /\ pc \in UndoPcs => pc' \in UndoPcs
           /\ pc' \in BeforePcs => pc \in BeforePcs
           /\ pc = "stage2" => pc' = "stage2"
BY DEF Next, Main, FindBootMedia, AllocTrampoline, OpenStage2, ReadHeaders, LoadSegment,
       FreeOne, FreeDone, SkipSegment, FillSegment, LoadDone, ReportMap, Wait,
       ExitBootServices, RunStage2, FirmwareError, FirmwareEvent, vars, Fail,
       UndoPcs, BeforePcs

LEMMA KeptStep ==
    ASSUME TypeInv, PcInv, KeptInv, [Next]_vars
    PROVE  KeptInv'
<1> SUFFICES ASSUME pc' \notin UndoPcs \cup {"error"} PROVE KeptInv' BY DEF KeptInv, UndoPcs
<1>0. pc \notin UndoPcs \cup {"error"} /\ ~FreeOne /\ pc' # "error"
  BY PcBack DEF UndoPcs, FreeOne
<1>1. \A p \in Pages : map[p] \notin {"Conventional", "BootServicesData"} => map'[p] = map[p]
  BY <1>0, MapStep
<1>2. ASSUME NEW n \in Placed, NEW p \in PagesOfSeg(n) PROVE map'[p] = SegType
  <2>1. p \in Pages /\ map[p] = SegType BY <1>0, PlacedIn DEF KeptInv
  <2> QED BY <1>1, <2>1 DEF SegType
<1>3. (\A n \in Placed : \A p \in PagesOfSeg(n) : map[p] = SegType)'
  <2>1. CASE UNCHANGED <<file, held>> /\ Placed' = Placed
    BY <1>2, <2>1 DEF PagesOfSeg
  <2>2. CASE Placed' = {} BY <2>2
  <2>3. CASE /\ LoadSegment /\ pc' = "fill" /\ UNCHANGED <<file, ph_idx>>
             /\ ph_idx \notin Placed /\ Placed' = Placed \cup {ph_idx}
    <3>1. Allocate(PagesOfSeg(ph_idx), SegType) BY <2>3 DEF LoadSegment, Phdr, PagesOfSeg
    <3>2. ph_idx \in Placed' /\ PagesOfSeg(ph_idx)' = PagesOfSeg(ph_idx)
      BY <2>3 DEF PagesOfSeg
    <3>3. PagesOfSeg(ph_idx) \subseteq Pages
      <4>1. ph_idx \in 1 .. Len(file.phdrs) BY <2>3 DEF LoadSegment, TypeInv
      <4> QED BY <4>1, HeaderIn
    <3>4. \A p \in PagesOfSeg(ph_idx) : map'[p] = SegType BY <3>1, <3>3 DEF Allocate
    <3> QED BY <1>2, <2>3, <3>4 DEF PagesOfSeg
  <2> QED BY <1>0, <2>1, <2>2, <2>3, PlacedChange
<1>4. pc' \notin {"media", "trampoline"} => map'[trampoline'] = "LoaderData"
  <2>1. CASE AllocTrampoline /\ pc' = "open"
    <3>1. PICK p \in 0 .. Xm32Pages - 1 : Allocate({p}, "LoaderData") /\ trampoline' = p
      BY <2>1 DEF AllocTrampoline, Fail
    <3>2. p \in Pages BY Sizes
    <3> QED BY <3>1, <3>2 DEF Allocate
  <2>2. CASE UNCHANGED trampoline /\ pc \notin {"media", "trampoline"}
    <3>1. map[trampoline] = "LoaderData" /\ trampoline \in Pages
      BY <1>0, <2>2 DEF KeptInv, TypeInv
    <3> QED BY <1>1, <2>2, <3>1
  <2>3. CASE pc' \in {"media", "trampoline"} BY <2>3
  <2> QED BY <1>0, <2>1, <2>2, <2>3
    DEF Next, Main, FindBootMedia, AllocTrampoline, OpenStage2, ReadHeaders, LoadSegment,
        FreeOne, FreeDone, SkipSegment, FillSegment, LoadDone, ReportMap, Wait,
        ExitBootServices, RunStage2, FirmwareError, FirmwareEvent, vars, Fail
<1> QED BY <1>3, <1>4 DEF KeptInv

\* How a step changes which segments are loaded, and memory.
LEMMA FilledChange ==
    ASSUME TypeInv, PcInv, [Next]_vars, pc' # "error"
    PROVE  \/ UNCHANGED <<file, mem>> /\ Filled' = Filled
           \/ RunStage2 /\ UNCHANGED file /\ Filled' = Filled
           \/ pc' = "headers" /\ Filled' = {}
           \/ FillSegment /\ UNCHANGED file /\ Filled' = Filled \cup {ph_idx}
<1>0. ph_idx \in Nat /\ ph_idx >= 1 BY DEF TypeInv, Files
<1>1. CASE UNCHANGED <<file, ph_idx, mem>> BY <1>1 DEF Filled
<1>2. CASE OpenStage2
  <2>1. ph_idx' = 1 /\ pc' = "headers" BY <1>2 DEF OpenStage2, PcInv, BeforePcs, Fail
  <2> QED BY <2>1 DEF Filled
<1>3. CASE SkipSegment
  <2>1. UNCHANGED <<file, mem>> /\ ph_idx' = ph_idx + 1 /\ ~file.phdrs[ph_idx].load
    BY <1>3 DEF SkipSegment, Phdr
  <2>2. \A n : n \in 1 .. (ph_idx + 1) - 1 <=> n = ph_idx \/ n \in 1 .. ph_idx - 1 BY <1>0
  <2>3. Filled' = Filled BY <2>1, <2>2 DEF Filled
  <2> QED BY <2>1, <2>3
<1>4. CASE FillSegment
  <2>1. pc = "fill" /\ UNCHANGED file /\ ph_idx' = ph_idx + 1 BY <1>4 DEF FillSegment, Fail
  <2>2. file.phdrs[ph_idx].load BY <2>1 DEF PcInv, Phdr
  <2>3. \A n : n \in 1 .. (ph_idx + 1) - 1 <=> n = ph_idx \/ n \in 1 .. ph_idx - 1 BY <1>0
  <2>4. Filled' = Filled \cup {ph_idx} BY <2>1, <2>2, <2>3 DEF Filled
  <2> QED BY <1>4, <2>1, <2>4
<1>5. CASE RunStage2
  <2>1. UNCHANGED <<file, ph_idx>> BY <1>5 DEF RunStage2
  <2> QED BY <1>5, <2>1 DEF Filled
<1> QED BY <1>1, <1>2, <1>3, <1>4, <1>5
    DEF Next, Main, FindBootMedia, AllocTrampoline, ReadHeaders, LoadSegment, FreeOne, FreeDone,
        LoadDone, ReportMap, Wait, ExitBootServices, FirmwareError, FirmwareEvent, loadVars,
        vars, Fail

\* A byte of a segment: where it is, and the page.
LEMMA ByteIn ==
    ASSUME TypeInv, NEW n \in 1 .. Len(file.phdrs), NEW o \in 0 .. file.phdrs[n].memsz - 1
    PROVE  /\ file.phdrs[n].paddr + o \in 0 .. AddrEnd - 1
           /\ (file.phdrs[n].paddr + o) \div PageSize \in PagesOfSeg(n)
<1> DEFINE h == file.phdrs[n]
<1>1. h \in Phdrs /\ h.paddr + h.memsz =< Xm32Pages * PageSize BY HeaderIn
<1>2. h.paddr \in Nat /\ h.memsz \in Nat BY <1>1 DEF Phdrs
<1>3. Slack(h) \in Nat /\ h.paddr - Slack(h) \in Nat BY <1>1, SegmentIn
<1> DEFINE s == Slack(h)
<1> HIDE DEF h, s
<1>4. o \in 0 .. h.memsz - 1 BY DEF h
<1>5. s + o \in 0 .. h.memsz + s - 1 BY <1>2, <1>3, <1>4 DEF s
<1>6. /\ (h.paddr - s + (s + o)) \div PageSize \in SegPages(h)
      /\ h.paddr - s + (s + o) \in 0 .. AddrEnd - 1
  BY <1>1, <1>5, SegmentIn DEF s
<1>7. h.paddr - s + (s + o) = h.paddr + o BY <1>2, <1>3, <1>4 DEF s
<1> QED BY <1>6, <1>7 DEF h, PagesOfSeg

\* FillSegment writes the segment's bytes, and only to its pages.
LEMMA FillWrites ==
    ASSUME TypeInv, PcInv, FillSegment, pc' # "error"
    PROVE  /\ \A o \in 0 .. Phdr.memsz - 1 : mem'[Phdr.paddr + o] = Contents(Phdr, o)
           /\ \A a \in 0 .. AddrEnd - 1 : a \div PageSize \notin PagesOfSeg(ph_idx) => mem'[a] = mem[a]
<1> DEFINE h == Phdr
           s == Slack(h)
           base == h.paddr - s
           fsz == IF h.filesz = 0 THEN 0 ELSE h.filesz + s
           msz == h.memsz + s
           off == h.off - s
<1>0. ph_idx \in 1 .. Len(file.phdrs) /\ h.filesz =< h.memsz
  BY DEF TypeInv, PcInv, FillSegment
<1>1. h \in Phdrs /\ h.paddr + h.memsz =< Xm32Pages * PageSize BY <1>0, HeaderIn DEF Phdr
<1>2. h.paddr \in Nat /\ h.memsz \in Nat /\ h.filesz \in Nat /\ h.off \in Nat
  BY <1>1 DEF Phdrs
<1>3. /\ s \in Nat /\ base \in Nat
      /\ \A o \in 0 .. msz - 1 : (base + o) \div PageSize \in SegPages(h)
                                 /\ base + o \in 0 .. AddrEnd - 1
  <2> HIDE DEF h
  <2>1. /\ Slack(h) \in Nat /\ h.paddr - Slack(h) \in Nat
        /\ \A o \in 0 .. h.memsz + Slack(h) - 1 :
             /\ (h.paddr - Slack(h) + o) \div PageSize \in SegPages(h)
             /\ h.paddr - Slack(h) + o \in 0 .. AddrEnd - 1
    BY <1>1, SegmentIn
  <2>2. s \in Nat /\ base \in Nat BY <2>1
  <2>3. ASSUME NEW o \in 0 .. msz - 1
        PROVE  (base + o) \div PageSize \in SegPages(h) /\ base + o \in 0 .. AddrEnd - 1
    <3>1. o \in 0 .. h.memsz + Slack(h) - 1 BY <1>2, <2>1
    <3> QED BY <2>1, <3>1
  <2> QED BY <2>2, <2>3
<1>4. mem' = [a \in DOMAIN mem |->
                 CASE a \in base .. base + fsz - 1 -> FileByte(off + (a - base))
                   [] a \in base + fsz .. base + msz - 1 -> 0
                   [] OTHER -> mem[a]]
  BY Zenon DEF FillSegment, FileStart, Fail
<1>5. DOMAIN mem = 0 .. AddrEnd - 1 BY DEF TypeInv
<1>6. SegPages(h) = PagesOfSeg(ph_idx) BY DEF PagesOfSeg, Phdr
<1>7. AddrEnd \in Nat BY Sizes
<1> HIDE DEF h, s
<1>8. fsz =< msz /\ fsz \in Nat /\ msz \in Nat BY <1>0, <1>2, <1>3
<1>9. ASSUME NEW o \in 0 .. h.memsz - 1 PROVE mem'[h.paddr + o] = Contents(h, o)
  <2> DEFINE a == h.paddr + o
  <2>1. a = base + (s + o) /\ s + o \in 0 .. msz - 1 BY <1>2, <1>3
  <2>2. a \in DOMAIN mem BY <1>3, <1>5, <2>1
  <2>3. CASE o < h.filesz
    <3>0. fsz = h.filesz + s BY <1>2, <2>3
    <3>1. a \in base .. base + fsz - 1 /\ a \notin base + fsz .. base + msz - 1
      BY <1>2, <1>3, <2>3, <3>0
    <3>2. mem'[a] = FileByte(off + (a - base))
      <4> HIDE DEF a, base, fsz, msz, off
      <4>1. mem'[a] = CASE a \in base .. base + fsz - 1 -> FileByte(off + (a - base))
                        [] a \in base + fsz .. base + msz - 1 -> 0
                        [] OTHER -> mem[a]
        BY <1>4, <2>2, Zenon
      <4> QED BY <3>1, <4>1
    <3>3. off + (a - base) = h.off + o BY <1>2, <1>3
    <3> QED BY <2>3, <3>2, <3>3 DEF Contents
  <2>4. CASE ~(o < h.filesz)
    <3>1. a \notin base .. base + fsz - 1 /\ a \in base + fsz .. base + msz - 1
      BY <1>2, <1>3, <2>4
    <3>2. mem'[a] = 0 BY <1>4, <2>2, <3>1
    <3> QED BY <2>4, <3>2 DEF Contents
  <2> QED BY <2>3, <2>4
<1>10. ASSUME NEW a \in 0 .. AddrEnd - 1, a \div PageSize \notin PagesOfSeg(ph_idx)
       PROVE  mem'[a] = mem[a]
  <2>1. a \notin base .. base + msz - 1
    <3>1. ASSUME a \in base .. base + msz - 1 PROVE FALSE
      <4>1. a - base \in 0 .. msz - 1 /\ base + (a - base) = a BY <1>3, <1>7, <1>8, <3>1
      <4> QED BY <1>3, <1>6, <1>10, <4>1
    <3> QED BY <3>1
  <2>2. a \notin base .. base + fsz - 1 /\ a \notin base + fsz .. base + msz - 1
    BY <1>3, <1>7, <1>8, <2>1
  <2> QED BY <1>4, <1>5, <2>2
<1> QED BY <1>9, <1>10 DEF h

LEMMA FilledStep ==
    ASSUME TypeInv, PcInv, PlacedInv, FilledInv, [Next]_vars
    PROVE  FilledInv'
<1> SUFFICES ASSUME pc' \notin UndoPcs \cup {"error", "stage2"} PROVE FilledInv'
  BY DEF FilledInv, UndoPcs
<1>0. pc \notin UndoPcs \cup {"error", "stage2"} /\ pc # "error" /\ pc' # "error"
  BY PcBack DEF UndoPcs
<1>1. \A n \in Filled : \A o \in 0 .. file.phdrs[n].memsz - 1 :
        mem[file.phdrs[n].paddr + o] = Contents(file.phdrs[n], o)
  BY <1>0 DEF FilledInv
<1>2. CASE UNCHANGED <<file, mem>> /\ Filled' = Filled BY <1>1, <1>2 DEF FilledInv
<1>3. CASE RunStage2 BY <1>3 DEF RunStage2
<1>4. CASE Filled' = {} BY <1>4 DEF FilledInv
<1>5. CASE FillSegment /\ UNCHANGED file /\ Filled' = Filled \cup {ph_idx}
  <2>0. pc = "fill" BY <1>5 DEF FillSegment
  <2>1. Placed = Filled \cup {ph_idx} /\ ph_idx \notin Filled
    <3>1. ph_idx \in Nat BY DEF TypeInv
    <3> QED BY <2>0, <3>1 DEF Placed, Filled
  <2>2. /\ \A o \in 0 .. Phdr.memsz - 1 : mem'[Phdr.paddr + o] = Contents(Phdr, o)
        /\ \A a \in 0 .. AddrEnd - 1 : a \div PageSize \notin PagesOfSeg(ph_idx) => mem'[a] = mem[a]
    BY <1>0, <1>5, FillWrites
  <2>3. ASSUME NEW n \in Filled, NEW o \in 0 .. file.phdrs[n].memsz - 1
        PROVE  mem'[file.phdrs[n].paddr + o] = Contents(file.phdrs[n], o)
    <3>1. n \in 1 .. Len(file.phdrs) BY <2>1, PlacedIn
    <3>2. PagesOfSeg(n) \cap PagesOfSeg(ph_idx) = {} BY <1>0, <2>1 DEF PlacedInv
    <3> DEFINE a == file.phdrs[n].paddr + o
    <3>3. a \in 0 .. AddrEnd - 1 /\ a \div PageSize \in PagesOfSeg(n) BY <3>1, ByteIn
    <3> HIDE DEF a
    <3>4. mem'[a] = mem[a] BY <2>2, <3>2, <3>3
    <3> QED BY <1>1, <3>4 DEF a
  <2>4. ASSUME NEW n \in Filled', NEW o \in 0 .. file.phdrs[n].memsz - 1
        PROVE  mem'[file.phdrs[n].paddr + o] = Contents(file.phdrs[n], o)
    <3>1. CASE n = ph_idx BY <2>2, <3>1 DEF Phdr
    <3> QED BY <1>5, <2>3, <3>1
  <2> QED BY <1>5, <2>4 DEF FilledInv
<1> QED BY <1>0, <1>2, <1>3, <1>4, <1>5, FilledChange DEF RunStage2

LEMMA Stage2Stays ==
    ASSUME [Next]_vars, pc = "stage2"
    PROVE  UNCHANGED vars
BY DEF Next, Main, FindBootMedia, AllocTrampoline, OpenStage2, ReadHeaders, LoadSegment,
       FreeOne, FreeDone, SkipSegment, FillSegment, LoadDone, ReportMap, Wait,
       ExitBootServices, RunStage2, FirmwareError, FirmwareEvent

\* Once all is loaded, the loaded segments are all there are.
LEMMA AllFilled ==
    ASSUME TypeInv, PcInv, pc \in HandPcs
    PROVE  SegsOf(file) = Filled /\ Placed = Filled /\ DOMAIN file.phdrs = 1 .. Len(file.phdrs)
<1>1. ph_idx = Len(file.phdrs) + 1 /\ Len(file.phdrs) \in Nat /\ file.phdrs \in Seq(Phdrs)
  BY DEF PcInv, TypeInv, Files
<1>2. DOMAIN file.phdrs = 1 .. ph_idx - 1 /\ DOMAIN file.phdrs = 1 .. Len(file.phdrs) BY <1>1
<1> QED BY <1>2 DEF SegsOf, Filled, Placed, HandPcs

LEMMA LoadedStep ==
    ASSUME TypeInv, PcInv, KeptInv, FilledInv, Loaded, [Next]_vars
    PROVE  Loaded'
<1> SUFFICES ASSUME pc' = "stage2" PROVE Loaded' BY DEF Loaded
<1>1. CASE pc = "stage2"
  <2>1. UNCHANGED vars BY <1>1, Stage2Stays
  <2>2. UNCHANGED <<pc, file, mem, trampoline>> BY <2>1 DEF vars, loadVars
  <2> QED BY <2>2 DEF Loaded, SegsOf, Overwritten
<1>2. CASE RunStage2
  <2>1. pc = "run" /\ UNCHANGED <<file, trampoline>> BY <1>2 DEF RunStage2
  <2>2. SegsOf(file) = Filled /\ Placed = Filled BY <2>1, AllFilled DEF HandPcs
  <2>3. PageSize \in Nat \ {0} /\ trampoline \in Nat /\ AddrEnd \in Nat
    BY Sizes DEF TypeInv
  <2> DEFINE base == trampoline * PageSize
  <2>4. base \in Nat /\ (trampoline + 1) * PageSize = base + PageSize BY <2>3
  <2>5. mem' = [a \in 0 .. AddrEnd - 1 |->
                  IF a \in base .. base + PageSize \cup BdaWords THEN Anything
                  ELSE IF a < BdaEnd THEN 0 ELSE mem[a]]
    BY <1>2 DEF RunStage2, TypeInv, ClearEnd
  <2>6. ASSUME NEW n \in SegsOf(file), NEW i \in 0 .. file.phdrs[n].memsz - 1,
               file.phdrs[n].paddr + i \notin Overwritten
        PROVE  mem'[file.phdrs[n].paddr + i] = Contents(file.phdrs[n], i)
    <3> DEFINE a == file.phdrs[n].paddr + i
    <3>0. n \in Placed /\ n \in Filled /\ n \in 1 .. Len(file.phdrs) BY <2>2, PlacedIn
    <3>1. a \in 0 .. AddrEnd - 1 /\ a \div PageSize \in PagesOfSeg(n) BY <3>0, ByteIn
    <3>2. mem[a] = Contents(file.phdrs[n], i) BY <2>1, <3>0 DEF FilledInv, UndoPcs
    <3>3. map[a \div PageSize] = SegType /\ map[trampoline] = "LoaderData"
      BY <2>1, <3>0, <3>1 DEF KeptInv, UndoPcs
    <3> HIDE DEF a
    <3>4. ASSUME a \in base .. base + PageSize - 1 PROVE FALSE
      <4>1. a - base \in 0 .. PageSize - 1 /\ PageSize * trampoline + (a - base) = a
        BY <2>3, <2>4, <3>1, <3>4
      <4> DEFINE r == a - base
      <4> HIDE DEF r
      <4>2. r \in 0 .. PageSize - 1 /\ trampoline \in Int BY <2>3, <4>1 DEF r
      <4>3. (PageSize * trampoline + r) \div PageSize = trampoline
        BY <2>3, <4>2, DivModUnique
      <4>4. a \div PageSize = trampoline BY <4>1, <4>3 DEF r
      <4> QED BY <3>3, <4>4 DEF SegType
    <3>5. a # base + PageSize /\ ~(a < BdaEnd) /\ a \notin BdaWords
      <4>1. BdaEnd \in Nat /\ BdaWords \subseteq 0 .. BdaEnd - 1 BY <2>3, Stage1Assumption
      <4>2. a \notin Overwritten BY <2>6 DEF a
      <4> QED BY <2>3, <2>4, <3>1, <4>1, <4>2 DEF Overwritten
    <3> HIDE DEF base
    <3>6. a \notin base .. base + PageSize
      <4>1. a \in Int /\ base \in Int /\ PageSize \in Int BY <2>3, <2>4, <3>1
      <4> QED BY <3>4, <3>5, <4>1
    <3>7. a \notin base .. base + PageSize \cup BdaWords BY <3>5, <3>6
    <3>8. mem'[a] = mem[a]
      <4>1. mem'[a] = IF a \in base .. base + PageSize \cup BdaWords THEN Anything
                      ELSE IF a < BdaEnd THEN 0 ELSE mem[a]
        BY <2>5, <3>1
      <4> QED BY <3>5, <3>7, <4>1
    <3> QED BY <3>2, <3>8 DEF a
  <2> QED BY <2>1, <2>6 DEF Loaded, SegsOf, Contents, Overwritten
<1> QED BY <1>1, <1>2
    DEF Next, Main, FindBootMedia, AllocTrampoline, OpenStage2, ReadHeaders, LoadSegment,
        FreeOne, FreeDone, SkipSegment, FillSegment, LoadDone, ReportMap, Wait,
        ExitBootServices, FirmwareError, FirmwareEvent, vars, Fail

LEMMA ReportStep ==
    ASSUME TypeInv, ReportInv, [Next]_vars
    PROVE  ReportInv'
<1>0. key \in Nat /\ map_key \in 0 .. key BY DEF TypeInv
<1>1. TrueReport' = TrueReport \/ key' = key + 1
  <2>1. UNCHANGED map => Descs' = Descs BY DEF Descs
  <2> QED BY <2>1, MapStep DEF TrueReport
<1>2. CASE ReportMap
  <2>1. UNCHANGED map /\ pc' = "wait" BY <1>2 DEF ReportMap
  <2>2. report' = TrueReport BY <1>2 DEF ReportMap, TrueReport, Reported
  <2>3. Descs' = Descs BY <2>1 DEF Descs
  <2>4. TrueReport' = TrueReport BY <2>3 DEF TrueReport
  <2> QED BY <2>1, <2>2, <2>4 DEF ReportInv
<1>3. CASE pc \in {"wait", "exit"} /\ pc' \in {"wait", "exit"} /\ UNCHANGED <<map_key, report>>
           /\ key' = key + 1
  <2>1. map_key' # key' BY <1>0, <1>3
  <2> QED BY <1>3, <2>1 DEF ReportInv
<1>4. CASE pc \in {"wait", "exit"} /\ pc' \in {"wait", "exit"} /\ UNCHANGED <<map_key, report>>
           /\ UNCHANGED <<map, key>>
  BY <1>1, <1>0, <1>4 DEF ReportInv
<1>5. CASE ExitBootServices
  <2>1. UNCHANGED <<map, key, report>> /\ (pc' = "run" => map_key = key) /\ pc = "exit"
        /\ pc' \in {"run", "error"}
    BY <1>5 DEF ExitBootServices, KeyToExit, handVars
  <2> QED BY <1>0, <1>1, <2>1 DEF ReportInv
<1>6. CASE pc \in {"run", "stage2"} /\ UNCHANGED <<map, key, report>> /\ pc' = "stage2"
  BY <1>0, <1>1, <1>6 DEF ReportInv
<1>7. CASE pc \in {"run", "stage2"} /\ UNCHANGED <<map, key, report, pc>>
  BY <1>0, <1>1, <1>7 DEF ReportInv
<1>8. CASE pc' \notin {"wait", "exit", "run", "stage2"} BY <1>8 DEF ReportInv
<1>9. UNCHANGED <<map, key>> \/ key' = key + 1 BY MapStep
<1>10. CASE Wait
  <2>1. pc = "wait" /\ pc' \in {"wait", "exit"} /\ UNCHANGED <<map, key, map_key, report>>
    BY <1>10 DEF Wait
  <2> QED BY <1>4, <2>1
<1>11. CASE FirmwareEvent
  <2>1. UNCHANGED <<pc, map_key, report>> /\ pc \notin {"run", "stage2"}
    BY <1>11 DEF FirmwareEvent, handVars
  <2> QED BY <1>3, <1>4, <1>8, <1>9, <2>1
<1>12. CASE RunStage2 BY <1>6, <1>12 DEF RunStage2, handVars
<1>13. CASE UNCHANGED vars
  BY <1>4, <1>7, <1>8, <1>13 DEF vars, handVars
<1> QED BY <1>2, <1>5, <1>8, <1>10, <1>11, <1>12, <1>13
    DEF Next, Main, FindBootMedia, AllocTrampoline, OpenStage2, ReadHeaders, LoadSegment,
        FreeOne, FreeDone, SkipSegment, FillSegment, LoadDone, FirmwareError, Fail

\* If the headers are alike, those that are undone are all segments, and what
\* is freed for one are its pages.
LEMMA UniformPages ==
    ASSUME TypeInv, PcInv, Uniform, pc # "fill", NEW n \in 1 .. ph_idx - 1
    PROVE  n \in Placed /\ PagesToFree(file.phdrs[n]) = PagesOfSeg(n)
           /\ Slack(file.phdrs[n]) = 0
<1>1. n \in Placed BY DEF Uniform, Placed, Filled
<1> DEFINE h == file.phdrs[n]
<1>2. h \in Phdrs BY <1>1, PlacedIn
<1>3. h.memsz \in Nat BY <1>2 DEF Phdrs
<1>4. Slack(h) = 0 /\ PagesFor(h.memsz) = PagesFor(file.phdrs[1].memsz) BY DEF Uniform
<1>5. h.memsz + Slack(h) = h.memsz BY <1>3, <1>4
<1> QED BY <1>1, <1>4, <1>5 DEF PagesToFree, PagesOfSeg, SegPages

LEMMA UndoStep ==
    ASSUME TypeInv, PcInv, PlacedInv, KeptInv, UndoInv, [Next]_vars
    PROVE  UndoInv'
<1>0. ph_idx \in Nat /\ ph_idx >= 1 BY DEF TypeInv, Files
<1>1. CASE pc \notin UndoPcs /\ pc' \notin UndoPcs
  <2>1. pc' # "error" => pc # "error" BY PcBack
  <2>2. UNCHANGED undoVars
    BY <1>1 DEF Next, Main, FindBootMedia, AllocTrampoline, OpenStage2, ReadHeaders, LoadSegment,
           FreeOne, FreeDone, SkipSegment, FillSegment, LoadDone, ReportMap, Wait, UndoPcs,
           ExitBootServices, RunStage2, FirmwareError, FirmwareEvent, vars, loadVars, undoVars
  <2> QED BY <1>1, <2>1, <2>2 DEF UndoInv, undoVars
<1>2. CASE pc \notin UndoPcs /\ pc' \in UndoPcs
  <2>1. LoadSegment /\ pc' = "undo" /\ pc = "load"
    BY <1>2 DEF Next, Main, FindBootMedia, AllocTrampoline, OpenStage2, ReadHeaders, LoadSegment,
           FreeOne, FreeDone, SkipSegment, FillSegment, LoadDone, ReportMap, Wait, UndoPcs,
           ExitBootServices, RunStage2, FirmwareError, FirmwareEvent, vars, Fail
  <2>2. UNCHANGED <<map, file, ph_idx, undone, freed>> BY <2>1 DEF LoadSegment, undoVars
  <2>3. undone = 0 /\ freed = {} BY <1>2, <2>1 DEF UndoInv
  <2>4. UNION {PagesOfSeg(n) : n \in 1 .. 0} = {} OBVIOUS
  <2>5. ASSUME Uniform, NEW n \in 1 .. ph_idx - 1, NEW p \in PagesOfSeg(n) PROVE map[p] = SegType
    BY <2>1, <2>5, UniformPages DEF KeptInv, UndoPcs
  <2>6. Uniform' = Uniform /\ \A n : PagesOfSeg(n)' = PagesOfSeg(n)
    BY <2>2 DEF Uniform, PagesOfSeg
  <2>7. undone + 1 = 1 /\ undone \in 0 .. ph_idx - 1 BY <1>0, <2>3
  <2> QED BY <2>1, <2>2, <2>3, <2>4, <2>5, <2>6, <2>7 DEF UndoInv, UndoPcs
<1>3. ASSUME pc \in UndoPcs, pc' \in UndoPcs PROVE UndoInv'
  <2>0. UNCHANGED <<file, ph_idx>>
    BY <1>3 DEF Next, Main, FindBootMedia, AllocTrampoline, OpenStage2, ReadHeaders, LoadSegment,
           FreeOne, FreeDone, SkipSegment, FillSegment, LoadDone, ReportMap, Wait, UndoPcs,
           ExitBootServices, RunStage2, FirmwareError, FirmwareEvent, vars, loadVars
  <2>1. Uniform' = Uniform /\ \A n : PagesOfSeg(n)' = PagesOfSeg(n)
    BY <2>0 DEF Uniform, PagesOfSeg
  <2>2. /\ undone \in 0 .. ph_idx - 1
        /\ Uniform => /\ freed = UNION {PagesOfSeg(n) : n \in 1 .. undone}
                      /\ \A n \in undone + 1 .. ph_idx - 1 : \A p \in PagesOfSeg(n) : map[p] = SegType
    BY <1>3 DEF UndoInv
  <2>3. ASSUME Uniform, NEW n \in undone + 1 .. ph_idx - 1 PROVE PagesOfSeg(n) \subseteq Pages
    <3>1. n \in 1 .. ph_idx - 1 /\ pc # "fill" BY <1>0, <1>3, <2>2 DEF UndoPcs
    <3> QED BY <2>3, <3>1, UniformPages, PlacedIn
  <2>4. CASE ~FreeOne
    <3>1. UNCHANGED <<undone, freed>> /\ (pc' = "undone" => undone = ph_idx - 1)
      <4>1. UNCHANGED <<undone, freed>> /\ (pc' = "undone" => pc = "undone" \/ FreeDone)
        BY <1>3, <2>4
        DEF Next, Main, FindBootMedia, AllocTrampoline, OpenStage2, ReadHeaders, LoadSegment,
            FreeDone, SkipSegment, FillSegment, LoadDone, ReportMap, Wait, UndoPcs, Fail,
            ExitBootServices, RunStage2, FirmwareError, FirmwareEvent, vars, loadVars, undoVars
      <4>2. pc = "undone" => undone = ph_idx - 1 BY <1>3 DEF UndoInv
      <4>3. FreeDone => undone = ph_idx - 1 BY <1>0, <2>2 DEF FreeDone, HeadersToUndo
      <4> QED BY <4>1, <4>2, <4>3
    <3>2. ASSUME Uniform, NEW n \in undone + 1 .. ph_idx - 1, NEW p \in PagesOfSeg(n)
          PROVE  map'[p] = SegType
      <4>1. p \in Pages /\ map[p] = SegType BY <2>2, <2>3, <3>2
      <4> QED BY <2>4, <4>1, MapStep DEF SegType
    <3> QED BY <1>3, <2>0, <2>1, <2>2, <3>1, <3>2 DEF UndoInv, UndoPcs
  <2>5. CASE FreeOne
    <3>1. pc = "undo" /\ pc' = "undo" /\ undone < ph_idx - 1 /\ undone' = undone + 1
      BY <2>5 DEF FreeOne, HeadersToUndo
    <3>2. undone' \in 0 .. ph_idx - 1 /\ undone + 1 \in 1 .. ph_idx - 1
          /\ undone + 1 \in undone + 1 .. ph_idx - 1 BY <1>0, <2>2, <3>1
    <3>3. ASSUME Uniform
          PROVE  /\ freed' = UNION {PagesOfSeg(n) : n \in 1 .. undone'}
                 /\ \A n \in undone' + 1 .. ph_idx - 1 : \A p \in PagesOfSeg(n) : map'[p] = SegType
      <4> DEFINE h == file.phdrs[undone + 1]
                 new == PagesOfSeg(undone + 1)
      <4>1. undone + 1 \in Placed /\ PagesToFree(h) = new /\ Slack(h) = 0
        BY <3>1, <3>2, <3>3, UniformPages
      <4>2. new # {} /\ new \subseteq Pages /\ \A p \in new : map[p] = SegType
        BY <2>2, <2>3, <3>1, <3>2, <3>3, <4>1 DEF PlacedInv
      <4>3. Freeable(h) BY <4>1, <4>2 DEF Freeable, SegType
      <4>4. Allocate(new, "Conventional") /\ freed' = freed \cup new
        BY <2>5, <4>1, <4>3 DEF FreeOne
      <4>5. freed = UNION {PagesOfSeg(n) : n \in 1 .. undone} BY <2>2, <3>3
      <4>6. \A n : n \in 1 .. undone' <=> n \in 1 .. undone \/ n = undone + 1
        BY <1>0, <2>2, <3>1
      <4>7. freed' = UNION {PagesOfSeg(n) : n \in 1 .. undone'} BY <4>4, <4>5, <4>6
      <4>8. ASSUME NEW n \in undone' + 1 .. ph_idx - 1, NEW p \in PagesOfSeg(n)
            PROVE  map'[p] = SegType
        <5>1. n \in undone + 1 .. ph_idx - 1 /\ n \in 1 .. ph_idx - 1 /\ n # undone + 1
          BY <1>0, <2>2, <3>1
        <5>2. n \in Placed BY <3>1, <3>3, <5>1, UniformPages
        <5>3. p \notin new BY <3>1, <4>1, <5>1, <5>2 DEF PlacedInv
        <5>4. p \in Pages /\ map[p] = SegType BY <2>2, <2>3, <3>3, <5>1
        <5> QED BY <4>4, <5>3, <5>4 DEF Allocate
      <4> QED BY <4>7, <4>8
    <3> QED BY <2>0, <2>1, <3>1, <3>2, <3>3 DEF UndoInv, UndoPcs
  <2> QED BY <2>4, <2>5
<1>4. pc \in UndoPcs => pc' \in UndoPcs BY PcBack
<1> QED BY <1>1, <1>2, <1>3, <1>4

-----------------------------------------------------------------------------
LEMMA NextInv == IInv /\ [Next]_vars => IInv'
<1> SUFFICES ASSUME IInv, [Next]_vars PROVE IInv' OBVIOUS
<1> USE DEF IInv
<1>1. TypeInv' /\ PcInv' BY TypeStep, PcStep
<1>2. PlacedInv' BY PlacedStep
<1>3. KeptInv' BY KeptStep
<1>4. FilledInv' BY FilledStep
<1>5. ReportInv' BY ReportStep
<1>6. UndoInv' BY UndoStep
<1>7. Loaded' BY LoadedStep
<1> QED BY <1>1, <1>2, <1>3, <1>4, <1>5, <1>6, <1>7

LEMMA AlwaysInv == Spec => []IInv
BY InitInv, NextInv, PTL DEF Spec

\* load_stage2 (main.c:234-272) and run_stage2 (run-stage2.asm:33-94) start
\* stage 2 with each byte of each segment in its place, for every file of
\* headers that fit below 4 GiB, wherever the trampoline is and whatever the
\* firmware allocates meanwhile.  Bytes in the vector table, in the BIOS data
\* area or at the start of the page after the trampoline's are excepted
\* (Overwritten): run_stage2 writes there after the segments are loaded.
THEOREM SegmentsLoaded == Spec => []Loaded
<1>1. IInv => Loaded BY DEF IInv
<1> QED BY <1>1, AlwaysInv, PTL

\* What prepare_to_hand_over reports of memory above 1 MiB (main.c:454-497)
\* is true when stage 2 starts, for every map and every change that the
\* firmware's events make to it: the key that ExitBootServices is given
\* (main.c:502) is that of the map that was reported.
THEOREM ReportCorrect == Spec => []ReportTrue
<1>1. IInv => ReportTrue
  <2> SUFFICES ASSUME IInv, pc = "stage2" PROVE ReportTrue BY DEF ReportTrue
  <2>1. map \in [Pages -> Types] /\ report = TrueReport BY DEF IInv, TypeInv, ReportInv
  <2> QED BY <2>1, ReportIsTrue DEF ReportTrue
<1> QED BY <1>1, AlwaysInv, PTL

\* No byte of a segment is in memory that stage 2 is told is RAM, so that
\* its mem_alloc cannot give it away: a segment's pages keep the type they
\* were allocated with (main.c:261) until boot services end.
THEOREM SegmentsNotGivenAway == Spec => []NotGivenAway
<1>1. IInv => NotGivenAway
  <2> SUFFICES ASSUME IInv, pc = "stage2",
                      NEW n \in SegsOf(file), NEW i \in 0 .. file.phdrs[n].memsz - 1,
                      NEW r \in ReportedAt(file.phdrs[n].paddr + i)
               PROVE  r.type # "RAM"
    BY DEF NotGivenAway
  <2> DEFINE a == file.phdrs[n].paddr + i
             p == a \div PageSize
  <2>0. TypeInv /\ PcInv /\ map \in [Pages -> Types] /\ report = TrueReport
    BY DEF IInv, TypeInv, ReportInv
  <2>1. n \in Placed /\ n \in 1 .. Len(file.phdrs) BY <2>0, AllFilled, PlacedIn DEF HandPcs
  <2>2. a \in 0 .. AddrEnd - 1 /\ p \in PagesOfSeg(n) /\ p \in Pages
    BY <2>0, <2>1, ByteIn, PlacedIn
  <2>3. map[p] = SegType BY <2>1, <2>2 DEF IInv, KeptInv, UndoPcs
  <2>4. PageSize \in Nat \ {0} /\ AddrEnd \in Nat /\ BmemPages \in Nat /\ NPages \in Nat BY Sizes
  <2>5. r \in ReportedAt(a) OBVIOUS
  <2> HIDE DEF a
  <2>6. a \in Int BY <2>2, <2>4
  <2>7. PICK q \in Int : q = p /\ a \in q * PageSize .. (q + 1) * PageSize - 1
    <3>1. p \in Int /\ a % PageSize \in 0 .. PageSize - 1 /\ a = PageSize * p + (a % PageSize)
      BY <2>4, <2>6, DivModDef
    <3> HIDE DEF p
    <3>2. a \in p * PageSize .. (p + 1) * PageSize - 1 BY <2>4, <2>6, <3>1
    <3> QED BY <3>1, <3>2
  <2>8. CASE q >= BmemPages
    <3>1. q \in BmemPages .. NPages - 1 BY <2>2, <2>4, <2>7, <2>8 DEF Pages
    <3>2. {x.type : x \in ReportedAt(a)} = {E820(SegType)}
      <4>1. {x.type : x \in ReportedAt(a)} = IF map[q] = "none" THEN {} ELSE {E820(map[q])}
        BY <2>0, <2>7, <3>1, ReportIsTrue
      <4> QED BY <2>3, <2>7, <4>1 DEF SegType
    <3>3. r.type = E820(SegType) BY <2>5, <3>2
    <3> QED BY <3>3 DEF E820, SegType
  <2>9. CASE q < BmemPages
    <3>1. q + 1 \in Int /\ BmemPages \in Int /\ q + 1 =< BmemPages BY <2>4, <2>9
    <3>2. (q + 1) * PageSize =< BmemPages * PageSize /\ (q + 1) * PageSize \in Int
          /\ BmemPages * PageSize \in Int
      BY <2>4, <3>1, MulMonotone
    <3>3. a < BmemMax BY <2>6, <2>7, <3>2 DEF BmemMax
    <3> QED BY <2>0, <2>5, <2>6, <3>3, ReportAbove
  <2> QED BY <2>4, <2>8, <2>9
<1> QED BY <1>1, AlwaysInv, PTL

\* Where the headers before the bad one are segments of as many whole pages
\* as the first, free_stage2_mem (main.c:155-165) frees exactly what was
\* allocated, whatever the firmware's events do between its calls.
THEOREM UndoneExactly == Spec => []UndoExact
<1>1. IInv => UndoExact
  <2> SUFFICES ASSUME IInv, pc = "undone", Uniform PROVE freed = held BY DEF UndoExact
  <2>1. freed = UNION {PagesOfSeg(n) : n \in 1 .. ph_idx - 1} BY DEF IInv, UndoInv, UndoPcs
  <2>2. held = UNION {PagesOfSeg(n) : n \in Placed} BY DEF IInv, PlacedInv
  <2>3. Placed = 1 .. ph_idx - 1 BY DEF Placed, Filled, Uniform
  <2> QED BY <2>1, <2>2, <2>3
<1> QED BY <1>1, AlwaysInv, PTL
=============================================================================
