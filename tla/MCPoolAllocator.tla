---------------------------- MODULE MCPoolAllocator ----------------------------
(*****************************************************************************)
(* An instance of PoolAllocator for TLC: the static page and room for two    *)
(* batches of two pages, below and above it. A page has five records: they   *)
(* need all three words of two bits and leave a bit of the third over, as    *)
(* 167 records leave bits of 192.                                            *)
(*****************************************************************************)
EXTENDS PoolAllocator

CONSTANT MaxGaps    \* bound: free records before taken ones

PagesTwoBatches == {16, 32, 48, 64, 80}

\* How many pages the list has from p on.
PagesFrom(next) ==
    LET left[k \in 0..Cardinality(Pages)] ==
            [p \in Pages |-> IF k = 0 \/ next[p] = NULL THEN 0 ELSE 1 + left[k - 1][next[p]]]
    IN  left[Cardinality(Pages)]

\* Free records the list has before its last taken one, if the callers hold set.
Gaps(set) ==
    LET left == PagesFrom(next_pool_link)
        place(r) == (Cardinality(Pages) - left[PageOf(r)]) * PAGE_SIZE + (r % PAGE_SIZE)
        last == IF set = {} THEN 0 ELSE Max({place(r) : r \in set})
    IN  Cardinality({r \in Records \ set : PageOf(r) \in mapped /\ place(r) < last})

MCNext == Alloc \/ \E buf \in taken : Gaps(taken \ {buf}) <= MaxGaps /\ Free(buf)

MCSpec == Init /\ [][MCNext]_vars /\ WF_vars(phase # "unlocked" /\ Alloc)
=============================================================================
