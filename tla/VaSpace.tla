------------------------------ MODULE VaSpace -------------------------------
(***************************************************************************)
(* What mem_va_map() and mem_va_unmap() promise their callers: a block of  *)
(* virtual pages that nobody else has, and that may be had again once it   *)
(* has been given back.                                                    *)
(***************************************************************************)
EXTENDS Integers

CONSTANT Spaces     \* the sets of virtual pages there may be to give out

VARIABLES
    free,           \* the pages nobody has
    blocks          \* the blocks given out, as [start, len]

PagesOf(b) == b.start .. (b.start + b.len) - 1

Init == free \in Spaces /\ blocks = {}

\* Which of the free runs a caller gets is not promised.
Acquire(b) ==
    /\ PagesOf(b) \subseteq free
    /\ free' = free \ PagesOf(b)
    /\ blocks' = blocks \cup {b}

Release(b) ==
    /\ b \in blocks
    /\ free' = free \cup PagesOf(b)
    /\ blocks' = blocks \ {b}

Next ==
    \/ \E first, last \in free :
        first =< last /\ Acquire([start |-> first, len |-> last - first + 1])
    \/ \E b \in blocks : Release(b)

Spec == Init /\ [][Next]_<<free, blocks>>
=============================================================================
