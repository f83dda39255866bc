--------------------------------- MODULE Pool ---------------------------------
(*****************************************************************************)
(* What a record pool (memchk_allocator.c) promises its callers: a record    *)
(* handed out is one nobody holds, failure changes nothing, and a record     *)
(* given back can be handed out again. BlockTracker takes and drops its      *)
(* records this way.                                                         *)
(*****************************************************************************)
CONSTANTS Records, NULL

VARIABLES taken,    \* records the callers hold
          ret       \* what the last allocation returned; NULL in a call and after a failure

Init == taken = {} /\ ret = NULL

Call == ret' = NULL /\ UNCHANGED taken

Get ==
    /\ ret = NULL
    /\ \E r \in Records \ taken :
        /\ taken' = taken \cup {r}
        /\ ret' = r

Put == \E r \in taken : taken' = taken \ {r} /\ ret' = NULL

Next == Call \/ Get \/ Put

Spec == Init /\ [][Next]_<<taken, ret>>
=============================================================================
