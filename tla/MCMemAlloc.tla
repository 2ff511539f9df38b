----------------------------- MODULE MCMemAlloc -----------------------------
(***************************************************************************)
(* MemAlloc on memory maps of a few small ranges.  The 1 MiB mark is at 6  *)
(* and the 4 GiB mark at 32.  Stage 1 may list a map in any order.         *)
(***************************************************************************)
EXTENDS MemAlloc, SequencesExt

Ram(s, e) == [start |-> s, len |-> e - s, type |-> "RAM", attr |-> "wb"]
Resv(s, e) == [start |-> s, len |-> e - s, type |-> "RESERVED", attr |-> "wb"]

\* Overlapping base memory, and RAM up to the 4 GiB mark.
UpTo4G == {Ram(0, 5), Resv(2, 6), Ram(6, 9), Resv(12, 15), Ram(16, 32)}
\* RAM across the 4 GiB mark; two entries have the same start.
Across4G == {Ram(0, 4), Resv(0, 6), Ram(14, 24), Ram(28, 40)}
\* The array just fills the only range it fits in.
JustFits == {Ram(0, 4), Ram(5, 6), Ram(20, 27), Resv(30, 34)}
\* Nowhere to put the array.
NoRoom == {Ram(0, 5), Resv(6, 20), Ram(33, 60)}
\* A longer map, in the order that makes shellsort work hardest.
Descending == <<Ram(36, 44), Ram(20, 32), Resv(18, 20), Resv(14, 16), Ram(9, 12),
                Ram(7, 9), Resv(6, 7), Resv(3, 6), Ram(0, 4)>>

MCMaps == UNION {SetToSeqs(s) : s \in {UpTo4G, Across4G, JustFits, NoRoom}}
          \cup {Descending}

MCRequests ==
    {[size |-> 2, align |-> 4, max_addr |-> 0],
     [size |-> 3, align |-> 1, max_addr |-> 0],
     [size |-> 1, align |-> 2, max_addr |-> BmemMax]}
=============================================================================
