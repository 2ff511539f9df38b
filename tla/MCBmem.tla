------------------------------- MODULE MCBmem -------------------------------
(***************************************************************************)
(* Bmem on a few small pages.  The requests are such that a block can be   *)
(* used up exactly, can be left with a useless remainder, and can be       *)
(* passed over because of its size or its alignment.                       *)
(***************************************************************************)
EXTENDS Bmem

MCRunReqs == {[size |-> 3, align |-> 1], [size |-> 8, align |-> 4]}
MCBootReqs == {[size |-> 3, align |-> 1]}
=============================================================================
