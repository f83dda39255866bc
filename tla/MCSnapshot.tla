------------------------------ MODULE MCSnapshot ------------------------------
(*****************************************************************************)
(* Instances of Snapshot for TLC.                                            *)
(*****************************************************************************)
EXTENDS Snapshot, TLC

Symmetry == Permutations(Ptrs) \cup Permutations(Callstacks)

\* The pool hands out its lowest free record (memchk_allocator.c:80-110).
Lowest(S) == IF S = {} THEN {} ELSE {Min(S)}

\* The cases of the instance. With fewer than MaxAdds blocks: failures, and blocks
\* that differ in size or in callstack. With MaxAdds: no failure, and blocks that
\* are alike, so that copies are unlinked from the middle of a list.
Known == {r \in Recs : ptrOf[r] # NULL}
OneCallstack == \A r, q \in Known : allocator[r] = allocator[q]
OneSize == \A r \in Known : sizeOf[r] = Min(Sizes)

Cases ==
    /\ OneCallstack \/ OneSize
    /\ adds = MaxAdds => OneCallstack /\ OneSize /\ oom = 0

\* Operations that touch neither the pool nor the alloc table commute with every
\* step of a thread: the instance runs them before the threads go on.
Private == todo # <<>> /\ Head(todo).op \notin {"duplicate", "destroy", "offset"}

MCNext == (IF Private THEN Worker ELSE CleanStartNext) /\ Cases'

MCSpec == Init /\ [][MCNext]_vars
=============================================================================
