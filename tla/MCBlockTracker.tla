---------------------------- MODULE MCBlockTracker ----------------------------
(*****************************************************************************)
(* Instances of BlockTracker for TLC.                                        *)
(*****************************************************************************)
EXTENDS BlockTracker, TLC

\* Threads, buffers and records of one pool are interchangeable.
Symmetry ==
    Permutations(Threads) \cup Permutations(Bufs)
        \cup Permutations(ARecs) \cup Permutations(FRecs)

\* A program that frees only what some malloc has returned to it.
ReturnedOnly ==
    \A t \in Threads : pc[t] = "idle" /\ pc'[t] = "unreg" =>
        /\ usrptr'[t] \in heap
        /\ \A u \in Threads : pc[u] \in {"reg", "fill", "add", "count"} => usrptr[u] # usrptr'[t]

\* One that does not call realloc either, and stays inside its blocks.
PlainProgram ==
    /\ ReturnedOnly
    /\ \A t \in Threads : ~(pc[t] = "idle" /\ pc'[t] = "size")
    /\ \A b \in Bufs : mem'[b] # "dirty"

PlainSpec == Init /\ [][AppNext /\ PlainProgram]_vars
TidyCheckSpec == Init /\ [][Next /\ ReturnedOnly]_vars

\* For the liveness run, which cannot use symmetry: a program without bugs,
\* which frees or reallocs a block it has and nobody else is freeing; records
\* are numbers, and a pool hands out the lowest (memchk_allocator.c:129).
CleanProgram ==
    /\ \A t \in Threads :
        pc[t] = "idle" /\ pc'[t] \in {"unreg", "size"} =>
            /\ Found(AllocTable, usrptr'[t]) # {}
            /\ \A u \in Threads \ {t} : usrptr'[t] \notin {usrptr[u], resume[u]}
    /\ \A b \in Bufs : mem'[b] # "dirty"
    /\ \A r \in used' \ used : \A q \in Recs \ used : (q \in ARecs <=> r \in ARecs) => r <= q

CleanSpec == Init /\ [][Next /\ CleanProgram]_vars /\ Fairness
=============================================================================
