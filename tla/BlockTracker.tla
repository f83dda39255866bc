------------------------------ MODULE BlockTracker ------------------------------
(*****************************************************************************)
(* The tracker of heap blocks: the hooked malloc/free/realloc of             *)
(* memchk_hook.c and the bookkeeping they drive in memchk_manage_memblk.c,   *)
(* run by several threads of the program at once, and the buffer check       *)
(* (mc_check_all_memblk) that the worker thread runs beside them.            *)
(*                                                                           *)
(* Each label of pc is a place between two critical sections (a lock of the  *)
(* hash tables, of the record pools or of the counters) or between two       *)
(* accesses to the block's memory: there another thread may run.             *)
(*****************************************************************************)
EXTENDS Integers, FiniteSets, FiniteSetsExt

CONSTANTS
    Threads,    \* threads of the program
    Bufs,       \* buffers libc can hand out; usrptr = buf + red zone, so one name stands for both
    ARecs,      \* struct alloc_memblk records
    FRecs,      \* struct free_memblk records
    FifoSize,   \* FREE_FIFO_SIZE
    Sizes,      \* usrsize values the program asks for
    OomPools,   \* record pools whose mmap may fail: a subset of {"alloc", "free"}
    MaxOom,     \* bound: at most MaxOom of these failures in a behaviour
    Garbage,    \* what free's uninitialised buf_to_be_freed may hold (hook.c:61)
    NULL

ASSUME BlockTrackerAssumption ==
    /\ Threads # {}
    /\ ARecs \cap FRecs = {}
    /\ NULL \notin Bufs \cup ARecs \cup FRecs
    /\ FifoSize \in Nat \ {0}
    /\ Sizes \subseteq Nat
    /\ OomPools \subseteq {"alloc", "free"}
    /\ MaxOom \in Nat
    /\ Garbage # {} /\ Garbage \subseteq Bufs \cup {NULL}

Recs == ARecs \cup FRecs
Tables == {"alloc", "free"}
HISTO_BINS == 10
HISTO_MAGNIFICATION == 4

VARIABLES
    heap,               \* buffers obtained from libc and not given back
    mem,                \* what a buffer holds outside the bytes its owner may write
    used,               \* records taken from their pool
    linked,             \* records on a chain of the alloc table or of the free table
    ptrOf, sizeOf,      \* memblk.buf / memptr.ptr and memblk.usrsize of a record
    hash_next, head,    \* the chain: memptr.hash_next and the bucket (all pointers in one)
    free_memblk_array, free_fifo_idx,               \* the quarantine ring
    num_alloc_memblk, allocated_size, histogram,    \* the counters under __mtx
    managed,            \* __mtx (MANAGE) is held by the worker across its steps
    pc, usrptr, usrsize, arec, frec, resume,        \* locals of the threads
    wpc, cursor, wptr,  \* locals of mc_check_all_memblk
    oom                 \* failures so far

libc    == <<heap, mem>>
chains  == <<linked, hash_next, head>>
records == <<used, ptrOf, sizeOf>>
ring    == <<free_memblk_array, free_fifo_idx>>
stats   == <<num_alloc_memblk, allocated_size, histogram>>
locals  == <<pc, usrptr, usrsize, arec, frec, resume>>
worker  == <<managed, wpc, cursor, wptr>>
vars == <<libc, chains, records, ring, stats, locals, worker, oom>>

\* "foreign": libc's own bytes; "zoned": red zones in place; "filled": all
\* 0xcc; "dirty": the program wrote where it must not.
Contents == {"foreign", "zoned", "filled", "dirty"}

Labels == {"idle", "size", "more", "reg", "fill", "add", "count",
           "unreg", "lookup", "double", "illegal",
           "check", "frec", "poison", "quarantine", "drop", "retire",
           "recheck", "evict", "unload", "release"}

TypeOK ==
    /\ heap \subseteq Bufs /\ mem \in [Bufs -> Contents]
    /\ used \subseteq Recs /\ linked \subseteq Recs
    /\ ptrOf \in [Recs -> Bufs \cup {NULL}] /\ sizeOf \in [Recs -> Nat]
    /\ hash_next \in [Recs -> Recs \cup {NULL}]
    /\ head \in [Tables -> Recs \cup {NULL}]
    /\ free_memblk_array \in [0..(FifoSize - 1) -> FRecs \cup {NULL}]
    /\ free_fifo_idx \in 0..(FifoSize - 1)
    /\ num_alloc_memblk \in Int /\ allocated_size \in Int
    /\ histogram \in [0..(HISTO_BINS - 1) -> Int]
    /\ managed \in BOOLEAN
    /\ pc \in [Threads -> Labels]
    /\ usrptr \in [Threads -> Bufs \cup {NULL}]
    /\ usrsize \in [Threads -> Nat]
    /\ arec \in [Threads -> ARecs \cup {NULL}]
    /\ frec \in [Threads -> FRecs \cup {NULL}]
    /\ resume \in [Threads -> Bufs \cup {NULL}]
    /\ wpc \in {"idle", "compare", "repair", "advance", "free_table", "done"}
    /\ cursor \in Recs \cup {NULL}
    /\ wptr \in Bufs \cup {NULL}
    /\ oom \in Nat

Init ==
    /\ heap = {} /\ mem = [b \in Bufs |-> "foreign"]
    /\ used = {} /\ linked = {}
    /\ ptrOf = [r \in Recs |-> NULL] /\ sizeOf = [r \in Recs |-> 0]
    /\ hash_next = [r \in Recs |-> NULL]
    /\ head = [k \in Tables |-> NULL]
    /\ free_memblk_array = [i \in 0..(FifoSize - 1) |-> NULL]
    /\ free_fifo_idx = 0
    /\ num_alloc_memblk = 0 /\ allocated_size = 0
    /\ histogram = [i \in 0..(HISTO_BINS - 1) |-> 0]
    /\ managed = FALSE
    /\ pc = [t \in Threads |-> "idle"]
    /\ usrptr = [t \in Threads |-> NULL]
    /\ usrsize = [t \in Threads |-> 0]
    /\ arec = [t \in Threads |-> NULL]
    /\ frec = [t \in Threads |-> NULL]
    /\ resume = [t \in Threads |-> NULL]
    /\ wpc = "idle" /\ cursor = NULL /\ wptr = NULL
    /\ oom = 0

-----------------------------------------------------------------------------
(* Helpers *)

Goto(t, label) == pc' = [pc EXCEPT ![t] = label]

AllocTable == linked \cap ARecs
FreeTable == linked \cap FRecs
Found(table, p) == {r \in table : ptrOf[r] = p}

\* mc_add_ptr_hashtable: the record becomes the first of its chain.
Link(k, r) ==
    /\ linked' = linked \cup {r}
    /\ hash_next' = [hash_next EXCEPT ![r] = head[k]]
    /\ head' = [head EXCEPT ![k] = r]

Unlink_NoBridge(k, r) ==
    /\ linked' = linked \ {r}
    /\ head' = IF head[k] = r THEN [head EXCEPT ![k] = hash_next[r]] ELSE head
    /\ UNCHANGED hash_next

\* mc_remove_ptr_hashtable once the node is found: its predecessor is linked
\* past it; the node keeps its own hash_next.
Unlink(k, r) ==
    /\ linked' = linked \ {r}
    /\ hash_next' = [q \in Recs |-> IF q \in linked /\ hash_next[q] = r
                                    THEN hash_next[r] ELSE hash_next[q]]
    /\ head' = IF head[k] = r THEN [head EXCEPT ![k] = hash_next[r]] ELSE head

MANAGE_LOCK_Never == TRUE

\* The lock of the counters and the ring can be taken. Threads hold it within
\* one step, mc_check_all_memblk over all of its steps.
MANAGE_LOCK == ~managed

\* The bin of a size: the number of upper bounds 4, 16, .., 4^9 it exceeds.
Bin(size) ==
    Cardinality({i \in 1..(HISTO_BINS - 1) : size > HISTO_MAGNIFICATION ^ i})

Account_BinUp(size, inc) ==
    /\ num_alloc_memblk' = num_alloc_memblk + inc
    /\ allocated_size' = allocated_size + inc * size
    /\ histogram' = [i \in 0..(HISTO_BINS - 1) |->
                        IF i = Bin(size) THEN histogram[i] + 1 ELSE histogram[i]]

\* What a register (inc = 1) or an unregister (inc = -1) counts of the blocks
\* there are. num_alloc_cnt and num_free_cnt, which count the calls and which only
\* mc_get_alloc_cnt and mc_get_free_cnt read, that nothing calls, are left out.
Account(size, inc) ==
    /\ num_alloc_memblk' = num_alloc_memblk + inc
    /\ allocated_size' = allocated_size + inc * size
    /\ histogram' = [i \in 0..(HISTO_BINS - 1) |->
                        IF i = Bin(size) THEN histogram[i] + inc ELSE histogram[i]]

MmapFails(pool) == pool \in OomPools /\ oom < MaxOom /\ oom' = oom + 1

\* malloc returns: to the program, or into the realloc that called it, which
\* goes on to free the old block.
MallocReturns(t) ==
    /\ Goto(t, IF resume[t] = NULL THEN "idle" ELSE "unreg")
    /\ usrptr' = [usrptr EXCEPT ![t] = resume[t]]
    /\ resume' = [resume EXCEPT ![t] = NULL]
    /\ usrsize' = [usrsize EXCEPT ![t] = 0]
    /\ arec' = [arec EXCEPT ![t] = NULL]

FreeReturns(t) ==
    /\ Goto(t, "idle")
    /\ usrptr' = [usrptr EXCEPT ![t] = NULL]
    /\ frec' = [frec EXCEPT ![t] = NULL]

-----------------------------------------------------------------------------
(* malloc: memchk_hook.c 48-57, then mc_register_memblk *)

\* libc gives a buffer; also the malloc inside a realloc of the block p.
Obtain(t, size, p) ==
    \E b \in Bufs \ heap :
        /\ heap' = heap \cup {b}
        /\ Goto(t, "reg")
        /\ usrptr' = [usrptr EXCEPT ![t] = b]
        /\ usrsize' = [usrsize EXCEPT ![t] = size]
        /\ resume' = [resume EXCEPT ![t] = p]
        /\ UNCHANGED <<mem, chains, records, ring, stats, arec, frec, worker, oom>>

Malloc(t) == pc[t] = "idle" /\ \E size \in Sizes : Obtain(t, size, NULL)

\* mc_allocate_alloc_memblk and the fields of the record.
RegisterRecord(t) ==
    /\ pc[t] = "reg"
    /\ \E r \in ARecs \ used :
        /\ used' = used \cup {r}
        /\ ptrOf' = [ptrOf EXCEPT ![r] = usrptr[t]]
        /\ sizeOf' = [sizeOf EXCEPT ![r] = usrsize[t]]
        /\ arec' = [arec EXCEPT ![t] = r]
    /\ Goto(t, "fill")
    /\ UNCHANGED <<libc, chains, ring, stats, usrptr, usrsize, frec, resume, worker, oom>>

\* No record: malloc ignores the -1 and hands the block out untracked.
RegisterNoRecord(t) ==
    /\ pc[t] = "reg"
    /\ MmapFails("alloc")
    /\ MallocReturns(t)
    /\ UNCHANGED <<libc, chains, records, ring, stats, frec, worker>>

\* mc_set_allocated_buffer
RegisterFill(t) ==
    /\ pc[t] = "fill"
    /\ mem' = [mem EXCEPT ![usrptr[t]] = "zoned"]
    /\ Goto(t, "add")
    /\ UNCHANGED <<heap, chains, records, ring, stats, usrptr, usrsize, arec, frec, resume, worker, oom>>

RegisterAdd(t) ==
    /\ pc[t] = "add"
    /\ Link("alloc", arec[t])
    /\ Goto(t, "count")
    /\ UNCHANGED <<libc, records, ring, stats, usrptr, usrsize, arec, frec, resume, worker, oom>>

RegisterCount(t) ==
    /\ pc[t] = "count"
    /\ MANAGE_LOCK
    /\ Account(usrsize[t], 1)
    /\ MallocReturns(t)
    /\ UNCHANGED <<libc, chains, records, ring, frec, worker, oom>>

-----------------------------------------------------------------------------
(* realloc: memchk_hook.c 104-118. realloc(NULL, n) is malloc and            *)
(* realloc(p, 0) is free; the copy touches only bytes the program owns.      *)

Realloc(t) ==
    /\ pc[t] = "idle"
    /\ \E p \in Bufs, size \in Sizes :
        /\ usrptr' = [usrptr EXCEPT ![t] = p]
        /\ usrsize' = [usrsize EXCEPT ![t] = size]
    /\ Goto(t, "size")
    /\ UNCHANGED <<libc, chains, records, ring, stats, arec, frec, resume, worker, oom>>

\* mc_handle_realloc_memblk: a block not in the table makes realloc return NULL.
ReallocSize(t) ==
    /\ pc[t] = "size"
    /\ IF Found(AllocTable, usrptr[t]) # {}
       THEN Goto(t, "more") /\ UNCHANGED <<usrptr, usrsize, resume, arec>>
       ELSE MallocReturns(t)
    /\ UNCHANGED <<libc, chains, records, ring, stats, frec, worker, oom>>

ReallocMalloc(t) == pc[t] = "more" /\ Obtain(t, usrsize[t], usrptr[t])

ReallocNoMemory(t) ==
    /\ pc[t] = "more"
    /\ MallocReturns(t)
    /\ UNCHANGED <<libc, chains, records, ring, stats, frec, worker, oom>>

-----------------------------------------------------------------------------
(* free: memchk_hook.c 59-79, and mc_unregister_memblk. The program may free *)
(* any pointer: its own, a freed one, one another thread is freeing.         *)

Free(t) ==
    /\ pc[t] = "idle"
    /\ \E p \in Bufs : usrptr' = [usrptr EXCEPT ![t] = p]
    /\ Goto(t, "unreg")
    /\ UNCHANGED <<libc, chains, records, ring, stats, usrsize, arec, frec, resume, worker, oom>>

Unregister_Keep(t) ==
    /\ pc[t] = "unreg"
    /\ \E r \in Found(AllocTable, usrptr[t]) :
        /\ arec' = [arec EXCEPT ![t] = r]
        /\ usrsize' = [usrsize EXCEPT ![t] = sizeOf[r]]
    /\ Goto(t, "check")
    /\ UNCHANGED <<libc, chains, records, ring, stats, usrptr, frec, resume, worker, oom>>

\* The block leaves the alloc table in the critical section that finds it; of
\* two threads freeing it, one gets the record.
Unregister(t) ==
    /\ pc[t] = "unreg"
    /\ \E r \in Found(AllocTable, usrptr[t]) :
        /\ Unlink("alloc", r)
        /\ arec' = [arec EXCEPT ![t] = r]
        /\ usrsize' = [usrsize EXCEPT ![t] = sizeOf[r]]
    /\ Goto(t, "check")
    /\ UNCHANGED <<libc, records, ring, stats, usrptr, frec, resume, worker, oom>>

UnregisterUnknown(t) ==
    /\ pc[t] = "unreg"
    /\ Found(AllocTable, usrptr[t]) = {}
    /\ Goto(t, "lookup")
    /\ UNCHANGED <<libc, chains, records, ring, stats, usrptr, usrsize, arec, frec, resume, worker, oom>>

\* __handle_illegally_freed_buffer: the free record found, if any, is read
\* later, when the report is written, with no lock held.
FindFreed(t) ==
    /\ pc[t] = "lookup"
    /\ \/ \E f \in Found(FreeTable, usrptr[t]) :
            /\ frec' = [frec EXCEPT ![t] = f]
            /\ Goto(t, "double")
       \/ /\ Found(FreeTable, usrptr[t]) = {}
          /\ Goto(t, "illegal")
          /\ UNCHANGED frec
    /\ UNCHANGED <<libc, chains, records, ring, stats, usrptr, usrsize, arec, resume, worker, oom>>

\* "Double delete or free" with the stacks of frec[t], or "ILLEGAL delete or
\* free"; nothing is given back.
ReportBadFree(t) ==
    /\ pc[t] \in {"double", "illegal"}
    /\ FreeReturns(t)
    /\ UNCHANGED <<libc, chains, records, ring, stats, usrsize, arec, resume, worker, oom>>

\* mc_check_allocated_buffer: reports an over-run or under-run iff the block is
\* not "zoned", and leaves it as it is.
CheckFreed(t) ==
    /\ pc[t] = "check"
    /\ Goto(t, "frec")
    /\ UNCHANGED <<libc, chains, records, ring, stats, usrptr, usrsize, arec, frec, resume, worker, oom>>

\* mc_allocate_free_memblk and the copy of the block's record.
FreeRecord(t) ==
    /\ pc[t] = "frec"
    /\ \E f \in FRecs \ used :
        /\ used' = used \cup {f}
        /\ ptrOf' = [ptrOf EXCEPT ![f] = ptrOf[arec[t]]]
        /\ sizeOf' = [sizeOf EXCEPT ![f] = sizeOf[arec[t]]]
        /\ frec' = [frec EXCEPT ![t] = f]
    /\ Goto(t, "poison")
    /\ UNCHANGED <<libc, chains, ring, stats, usrptr, usrsize, arec, resume, worker, oom>>

FreeNoRecord_Leak(t) ==
    /\ pc[t] = "frec"
    /\ MmapFails("free")
    /\ arec' = [arec EXCEPT ![t] = NULL]
    /\ usrsize' = [usrsize EXCEPT ![t] = 0]
    /\ \E garbage \in Garbage : usrptr' = [usrptr EXCEPT ![t] = garbage]
    /\ Goto(t, "release")
    /\ UNCHANGED <<libc, chains, records, ring, stats, frec, resume, worker>>

\* No free record: the caller's buf_to_be_freed was never assigned, so free
\* passes on whatever its stack slot held.
FreeNoRecord(t) ==
    /\ pc[t] = "frec"
    /\ MmapFails("free")
    /\ used' = used \ {arec[t]}
    /\ arec' = [arec EXCEPT ![t] = NULL]
    /\ usrsize' = [usrsize EXCEPT ![t] = 0]
    /\ \E garbage \in Garbage : usrptr' = [usrptr EXCEPT ![t] = garbage]
    /\ Goto(t, "release")
    /\ UNCHANGED <<libc, chains, ptrOf, sizeOf, ring, stats, frec, resume, worker>>

Poison_Skip(t) ==
    /\ pc[t] = "poison"
    /\ Goto(t, "quarantine")
    /\ UNCHANGED <<libc, chains, records, ring, stats, usrptr, usrsize, arec, frec, resume, worker, oom>>

\* mc_set_freed_buffer
Poison(t) ==
    /\ pc[t] = "poison"
    /\ mem' = [mem EXCEPT ![ptrOf[frec[t]]] = "filled"]
    /\ Goto(t, "quarantine")
    /\ UNCHANGED <<heap, chains, records, ring, stats, usrptr, usrsize, arec, frec, resume, worker, oom>>

Quarantine(t) ==
    /\ pc[t] = "quarantine"
    /\ Link("free", frec[t])
    /\ Goto(t, "drop")
    /\ UNCHANGED <<libc, records, ring, stats, usrptr, usrsize, arec, frec, resume, worker, oom>>

\* mc_free_alloc_memblk
DropRecord(t) ==
    /\ pc[t] = "drop"
    /\ used' = used \ {arec[t]}
    /\ arec' = [arec EXCEPT ![t] = NULL]
    /\ Goto(t, "retire")
    /\ UNCHANGED <<libc, chains, ptrOf, sizeOf, ring, stats, usrptr, usrsize, frec, resume, worker, oom>>

Retire_NoWrap(t) ==
    /\ pc[t] = "retire"
    /\ MANAGE_LOCK
    /\ Account(usrsize[t], -1)
    /\ usrsize' = [usrsize EXCEPT ![t] = 0]
    /\ usrptr' = [usrptr EXCEPT ![t] = NULL]
    /\ free_memblk_array' = [free_memblk_array EXCEPT ![free_fifo_idx] = frec[t]]
    /\ free_fifo_idx' = free_fifo_idx + 1
    /\ LET old == free_memblk_array[free_fifo_idx]
       IN  /\ frec' = [frec EXCEPT ![t] = old]
           /\ Goto(t, IF old = NULL THEN "idle" ELSE "recheck")
    /\ UNCHANGED <<libc, chains, records, arec, resume, worker, oom>>

Retire_EvictNext(t) ==
    /\ pc[t] = "retire"
    /\ MANAGE_LOCK
    /\ Account(usrsize[t], -1)
    /\ usrsize' = [usrsize EXCEPT ![t] = 0]
    /\ usrptr' = [usrptr EXCEPT ![t] = NULL]
    /\ free_memblk_array' = [free_memblk_array EXCEPT ![free_fifo_idx] = frec[t]]
    /\ free_fifo_idx' = (free_fifo_idx + 1) % FifoSize
    /\ LET old == free_memblk_array[(free_fifo_idx + 1) % FifoSize]
       IN  /\ frec' = [frec EXCEPT ![t] = old]
           /\ Goto(t, IF old = NULL THEN "idle" ELSE "recheck")
    /\ UNCHANGED <<libc, chains, records, arec, resume, worker, oom>>

\* The critical section on the counters and the ring. From here usrptr[t] no
\* longer matters and frec[t] is old_free_memblk, the record the ring gave up.
Retire(t) ==
    /\ pc[t] = "retire"
    /\ MANAGE_LOCK
    /\ Account(usrsize[t], -1)
    /\ usrsize' = [usrsize EXCEPT ![t] = 0]
    /\ usrptr' = [usrptr EXCEPT ![t] = NULL]
    /\ free_memblk_array' = [free_memblk_array EXCEPT ![free_fifo_idx] = frec[t]]
    /\ free_fifo_idx' = (free_fifo_idx + 1) % FifoSize
    /\ LET old == free_memblk_array[free_fifo_idx]
       IN  /\ frec' = [frec EXCEPT ![t] = old]
           /\ Goto(t, IF old = NULL THEN "idle" ELSE "recheck")
    /\ UNCHANGED <<libc, chains, records, arec, resume, worker, oom>>

\* mc_check_freed_buffer: reports a write to freed memory iff the block is not
\* "filled".
RecheckFreed(t) ==
    /\ pc[t] = "recheck"
    /\ Goto(t, "evict")
    /\ UNCHANGED <<libc, chains, records, ring, stats, usrptr, usrsize, arec, frec, resume, worker, oom>>

Evict(t) ==
    /\ pc[t] = "evict"
    /\ \/ \E f \in Found(FreeTable, ptrOf[frec[t]]) : Unlink("free", f)
       \/ Found(FreeTable, ptrOf[frec[t]]) = {} /\ UNCHANGED chains
    /\ Goto(t, "unload")
    /\ UNCHANGED <<libc, records, ring, stats, usrptr, usrsize, arec, frec, resume, worker, oom>>

DropFreed_Leak(t) ==
    /\ pc[t] = "unload"
    /\ usrptr' = [usrptr EXCEPT ![t] = ptrOf[frec[t]]]
    /\ frec' = [frec EXCEPT ![t] = NULL]
    /\ Goto(t, "release")
    /\ UNCHANGED <<libc, chains, records, ring, stats, usrsize, arec, resume, worker, oom>>

\* *buf_to_be_freed = old_memblk->buf, and mc_free_free_memblk.
DropFreed(t) ==
    /\ pc[t] = "unload"
    /\ usrptr' = [usrptr EXCEPT ![t] = ptrOf[frec[t]]]
    /\ used' = used \ {frec[t]}
    /\ frec' = [frec EXCEPT ![t] = NULL]
    /\ Goto(t, "release")
    /\ UNCHANGED <<libc, chains, ptrOf, sizeOf, ring, stats, usrsize, arec, resume, worker, oom>>

Release_Forget(t) ==
    /\ pc[t] = "release"
    /\ FreeReturns(t)
    /\ UNCHANGED <<libc, chains, records, ring, stats, usrsize, arec, resume, worker, oom>>

\* mc_orig_free(buf_to_be_freed), if it is not NULL.
Release(t) ==
    /\ pc[t] = "release"
    /\ heap' = heap \ {usrptr[t]}
    /\ mem' = [b \in Bufs |-> IF b = usrptr[t] THEN "foreign" ELSE mem[b]]
    /\ FreeReturns(t)
    /\ UNCHANGED <<chains, records, ring, stats, usrsize, arec, resume, worker, oom>>

-----------------------------------------------------------------------------
(* The program's own bug: a write next to a block or into a freed one. *)

Scribble(b) ==
    /\ mem[b] \in {"zoned", "filled"}
    /\ mem' = [mem EXCEPT ![b] = "dirty"]
    /\ UNCHANGED <<heap, chains, records, ring, stats, locals, worker, oom>>

-----------------------------------------------------------------------------
(* mc_check_all_memblk, run by the worker thread under __mtx but without the *)
(* hash table lock: first the chain of the alloc table, then the free one.   *)

Expected(r) == IF r \in ARecs THEN "zoned" ELSE "filled"

\* The worker moves to record r and reads its fields, or is at the end of a
\* table and goes on to label `after`.
Arrive(r, after) ==
    /\ cursor' = r
    /\ wptr' = IF r = NULL THEN NULL ELSE ptrOf[r]
    /\ wpc' = IF r = NULL THEN after ELSE "compare"

CheckBegin ==
    /\ wpc = "idle"
    /\ MANAGE_LOCK
    /\ managed' = TRUE
    /\ Arrive(head["alloc"], "free_table")
    /\ UNCHANGED <<libc, chains, records, ring, stats, locals, oom>>

\* mc_check_allocated_buffer or mc_check_freed_buffer: a report iff the block
\* is not as the record's table wants it; then the block is set right again.
CheckCompare ==
    /\ wpc = "compare"
    /\ wpc' = IF mem[wptr] = Expected(cursor) THEN "advance" ELSE "repair"
    /\ UNCHANGED <<libc, chains, records, ring, stats, locals, managed, cursor, wptr, oom>>

\* mc_set_allocated_buffer or mc_set_freed_buffer, which read the record anew.
CheckRepair ==
    /\ wpc = "repair"
    /\ mem' = [mem EXCEPT ![ptrOf[cursor]] = Expected(cursor)]
    /\ wpc' = "advance"
    /\ UNCHANGED <<heap, chains, records, ring, stats, locals, managed, cursor, wptr, oom>>

CheckAdvance ==
    /\ wpc = "advance"
    /\ Arrive(hash_next[cursor], IF cursor \in ARecs THEN "free_table" ELSE "done")
    /\ UNCHANGED <<libc, chains, records, ring, stats, locals, managed, oom>>

CheckFreeTable ==
    /\ wpc = "free_table"
    /\ Arrive(head["free"], "done")
    /\ UNCHANGED <<libc, chains, records, ring, stats, locals, managed, oom>>

CheckEnd_KeepLock ==
    /\ wpc = "done"
    /\ wpc' = "idle"
    /\ UNCHANGED <<libc, chains, records, ring, stats, locals, managed, cursor, wptr, oom>>

CheckEnd ==
    /\ wpc = "done"
    /\ wpc' = "idle"
    /\ managed' = FALSE
    /\ UNCHANGED <<libc, chains, records, ring, stats, locals, cursor, wptr, oom>>

-----------------------------------------------------------------------------

\* What a thread does once it is inside a call.
Inside(t) ==
    \/ RegisterRecord(t) \/ RegisterNoRecord(t) \/ RegisterFill(t)
    \/ RegisterAdd(t) \/ RegisterCount(t)
    \/ ReallocSize(t) \/ ReallocMalloc(t) \/ ReallocNoMemory(t)
    \/ Unregister(t) \/ UnregisterUnknown(t) \/ FindFreed(t) \/ ReportBadFree(t)
    \/ CheckFreed(t) \/ FreeRecord(t) \/ FreeNoRecord(t) \/ Poison(t)
    \/ Quarantine(t) \/ DropRecord(t) \/ Retire(t)
    \/ RecheckFreed(t) \/ Evict(t) \/ DropFreed(t) \/ Release(t)

Calls(t) == Malloc(t) \/ Free(t) \/ Realloc(t)

CheckAll == CheckCompare \/ CheckRepair \/ CheckAdvance \/ CheckFreeTable \/ CheckEnd

AppNext == (\E t \in Threads : Calls(t) \/ Inside(t)) \/ (\E b \in Bufs : Scribble(b))
Next == AppNext \/ CheckBegin \/ CheckAll

\* The program alone, and the program with the worker beside it.
AppSpec == Init /\ [][AppNext]_vars
Spec == Init /\ [][Next]_vars

\* A thread inside a call keeps running; so does the worker inside a check.
\* Nobody has to start a call or a check.
Fairness ==
    /\ \A t \in Threads : WF_vars(Inside(t))
    /\ WF_vars(CheckAll)

-----------------------------------------------------------------------------
(* Properties *)

\* The block a thread has taken out of every table: it is being registered,
\* unregistered, or carried to libc.
Carried(t) ==
    IF pc[t] \in {"reg", "fill", "add", "check", "frec", "poison", "quarantine", "release"}
    THEN usrptr[t]
    ELSE IF pc[t] = "unload" THEN ptrOf[frec[t]] ELSE NULL

\* A buffer on its way to mc_orig_free (memchk_hook.c:78) is one libc gave and
\* has not got back, no table still has a record of it, and no other thread is
\* registering, freeing or returning it, whatever the program frees twice, in
\* whatever order the threads run.
ReleaseSafe ==
    \A t \in Threads : pc[t] = "release" /\ usrptr[t] # NULL =>
        /\ usrptr[t] \in heap
        /\ Found(linked, usrptr[t]) = {}
        /\ \A u \in Threads \ {t} : Carried(u) # usrptr[t]

\* The ring holds different records, each still in the free table with its
\* buffer not given back: what FREE_FIFO_SIZE later frees evict is there, and
\* a second free of it is recognised.
QuarantineIntact ==
    \A i \in 0..(FifoSize - 1) : free_memblk_array[i] # NULL =>
        /\ free_memblk_array[i] \in FreeTable
        /\ ptrOf[free_memblk_array[i]] \in heap
        /\ \A j \in 0..(FifoSize - 1) :
              free_memblk_array[j] = free_memblk_array[i] => i = j

\* A pool record is on a chain or in the hands of one thread, never both and
\* never neither: none leaks and none is put back twice, failures included.
RecordsAccounted ==
    LET ahands == {t \in Threads : arec[t] # NULL /\ pc[t] # "count"}
        fhands == {t \in Threads : pc[t] \in {"poison", "quarantine", "unload"}}
        held == {arec[t] : t \in ahands} \cup {frec[t] : t \in fhands}
    IN  /\ used = linked \cup held
        /\ linked \cap held = {}
        /\ Cardinality(held) = Cardinality(ahands) + Cardinality(fhands)

\* Number, size and histogram of the blocks (num_alloc_memblk, allocated_size,
\* the bins) are exact up to the calls under way: a block being registered
\* is in the table before it is counted, one being freed is counted until
\* Retire. With no call under way they describe the alloc table.
CountersAgree ==
    LET before == {t \in Threads : pc[t] = "count"}
        after == {t \in Threads : pc[t] \in {"check", "frec", "poison", "quarantine", "drop", "retire"}}
        SizesIn(T) == MapThenSumSet(LAMBDA t : usrsize[t], T)
        Binned(T, i) == Cardinality({t \in T : Bin(usrsize[t]) = i})
    IN  /\ num_alloc_memblk = Cardinality(AllocTable) - Cardinality(before) + Cardinality(after)
        /\ allocated_size = MapThenSumSet(LAMBDA r : sizeOf[r], AllocTable)
                            - SizesIn(before) + SizesIn(after)
        /\ \A i \in 0..(HISTO_BINS - 1) :
              histogram[i] = Cardinality({r \in AllocTable : Bin(sizeOf[r]) = i})
                             - Binned(before, i) + Binned(after, i)

\* Following hash_next from the bucket visits the records of the table, each
\* once, and ends: concurrent adds and removals never lose a node or close a
\* loop (mc_remove_ptr_hashtable would spin under the lock).
ChainAgrees ==
    \A k \in Tables :
        LET N == Cardinality(Recs)
            node[n \in 0..N] == IF n = 0 THEN head[k]
                                ELSE IF node[n - 1] = NULL THEN NULL
                                ELSE hash_next[node[n - 1]]
        IN  /\ node[N] = NULL
            /\ {node[n] : n \in 0..N} \ {NULL} = IF k = "alloc" THEN AllocTable ELSE FreeTable

\* A report of an over-run, an under-run or a write to freed memory is made
\* only of a block the program wrote out of bounds (memchk_buffer.c:39, 118).
NoFalseReport ==
    /\ \A t \in Threads :
        /\ pc[t] = "check" => mem[usrptr[t]] \in {"zoned", "dirty"}
        /\ pc[t] = "recheck" => mem[ptrOf[frec[t]]] \in {"filled", "dirty"}
    /\ wpc = "compare" => mem[wptr] \in {Expected(cursor), "dirty"}

\* The report of a double free shows the stacks of the block it is about
\* (memchk_manage_memblk.c:94-97).
DoubleReportOnItsBlock ==
    \A t \in Threads : pc[t] = "double" => ptrOf[frec[t]] = usrptr[t]

\* A check of all blocks ends, though it follows chains that threads change
\* under it: a thread that changed one waits for the check at its counters.
CheckFinishes == (wpc # "idle") ~> (wpc = "idle")

\* Once no more checks are asked for, every call of every thread returns.
CallsFinish ==
    <>[](wpc = "idle") => \A t \in Threads : (pc[t] # "idle") ~> (pc[t] = "idle")

-----------------------------------------------------------------------------
(* Refinement: the life of each buffer, read off the tables and the threads. *)

LifeOf(b) ==
    LET at == {pc[t] : t \in {u \in Threads : Carried(u) = b}}
    IN  CASE b \notin heap -> "libc"
          [] at \cap {"reg", "fill", "add"} # {} -> "new"
          [] Found(AllocTable, b) # {} -> "tracked"
          [] at \cap {"check", "frec", "poison", "quarantine"} # {} -> "closing"
          [] Found(FreeTable, b) # {} -> "quarantined"
          [] at \cap {"unload", "release"} # {} -> "leaving"
          [] OTHER -> "lost"

\* At most FifoSize records are in the ring and one in the hands of each
\* thread between its insertion and its eviction.
Life == INSTANCE BlockLife WITH
    life <- [b \in Bufs |-> LifeOf(b)],
    Capacity <- FifoSize + Cardinality(Threads)

LifeSpec == Life!Spec
=============================================================================
