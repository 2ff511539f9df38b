------------------------------ MODULE MCVaMap -------------------------------
(***************************************************************************)
(* VaMap on 12 pages of 2 bytes, in large pages of 2.                      *)
(***************************************************************************)
EXTENDS VaMap

Hole(s, e) == [start |-> s, len |-> e - s]

\* Two holes, the second up to the end of the address space; and one alone.
MCLayouts == {<<Hole(3, 7), Hole(8, 12)>>, <<Hole(2, 9)>>}

\* One page; two pages because of the offset; and, twice, four pages that
\* are a whole large page or start in the middle of one.
MCRequests ==
    {[pa |-> 41, sz |-> 1, flags |-> "cd"],
     [pa |-> 21, sz |-> 2, flags |-> "wb"],
     [pa |-> 16, sz |-> 7, flags |-> "wt"],
     [pa |-> 50, sz |-> 8, flags |-> "wb"]}

\* One hole.  Two blocks divide it into three runs of pages at the most.
OneHole == {<<Hole(2, 9)>>}
=============================================================================
