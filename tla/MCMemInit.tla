----------------------------- MODULE MCMemInit ------------------------------
(***************************************************************************)
(* MemInit on 48 pages of 2 bytes, in large pages of 8.  The 1 MiB mark is *)
(* at 6, the 4 GiB mark at 96.                                             *)
(***************************************************************************)
EXTENDS MemInit, SequencesExt

R(s, e, t, a) == [start |-> s, len |-> e - s, type |-> t, attr |-> a]
Ram(s, e) == R(s, e, "RAM", "wb")
Resv(s, e) == R(s, e, "RESERVED", "wb")

\* Overlapping base memory, ends within pages, RAM up to the 4 GiB mark.
UpTo4G == {Ram(0, 5), Resv(2, 6), Ram(7, 73), Resv(75, 80), Ram(87, 96)}
\* Two ranges of base memory with one start; ranges that may not be cached
\* below and above the RAM that page tables come from, sharing pages with it.
Uncached == {Ram(0, 4), Resv(0, 6), R(8, 11, "RESERVED", "wt"), Ram(13, 77),
             R(79, 91, "RESERVED", "uc")}
\* The memory that page tables come from may not be cached itself, and is
\* split while it is given its flags; memory across the 4 GiB mark.
SplitBelow == {R(0, 6, "RAM", "uc"), R(9, 21, "RAM", "uc"), R(21, 82, "RAM", "wt"),
               R(91, 100, "RESERVED", "uc")}
\* RAM from the 1 MiB mark up, and across the 4 GiB mark.
Across4G == {Ram(0, 4), Resv(4, 6), Ram(6, 80), Ram(90, 102)}
\* The array just fills the only range it fits in.
JustFits == {Ram(0, 4), Ram(5, 6), Ram(8, 21), R(61, 77, "RAM", "wt")}
\* So little memory that page tables come from base memory, which differs in
\* its attributes, once with an overlap and once without.
BaseOverlaps == {R(0, 4, "RAM", "uc"), R(1, 6, "RESERVED", "wt"), Ram(8, 45)}
BaseApart == {R(0, 4, "RAM", "uc"), R(4, 6, "RESERVED", "wt"), Ram(8, 45)}
\* In base memory, a range within one that starts lower: ends are not in order.
Nested == {Ram(0, 2), Resv(2, 6), Ram(3, 5), Ram(8, 60)}
\* Nowhere to put the array; and no hole.
NoRoom == {Ram(0, 5), Resv(6, 20), Ram(97, 130)}
NoHole == {Ram(0, 6), Ram(6, 80), Resv(80, 99)}
\* A longer map, in the order that makes shellsort work hardest.
Descending == <<Ram(97, 130), R(90, 92, "RESERVED", "uc"), Ram(18, 88), Resv(16, 18),
                Resv(14, 16), Ram(9, 12), R(7, 9, "RAM", "wt"), Resv(3, 6), Ram(0, 4)>>

\* Stage 1 may list a map in any order.
AnyOrder == SetToSeqs(SplitBelow)
OneOrder == {CHOOSE s \in SetToSeqs(m) : TRUE :
                m \in {UpTo4G, Across4G, Uncached, JustFits, BaseOverlaps, BaseApart, Nested,
                      NoRoom, NoHole}}
MCMaps == AnyOrder \cup OneOrder \cup {Descending}

MCRequests ==
    {[size |-> 2, align |-> 2, max_addr |-> 0],
     [size |-> 3, align |-> 1, max_addr |-> 0],
     [size |-> 1, align |-> 2, max_addr |-> BmemMax]}
=============================================================================
