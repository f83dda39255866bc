-------------------------- MODULE BlockTracker_proofs --------------------------
(*****************************************************************************)
(* Proofs about BlockTracker: its types, who owns each block and each        *)
(* record, what each block holds, what the tables and the counters say, and  *)
(* that it implements BlockLife, for any sets of threads, blocks, records    *)
(* and sizes, and any length of the ring.                                    *)
(*****************************************************************************)
EXTENDS BlockTracker, ChainsAndSums

-----------------------------------------------------------------------------
(* Type correctness needs to know which labels have a record in hand. *)

HasARec == {"fill", "add", "check", "frec", "poison", "quarantine", "drop"}
HasFRec == {"double", "poison", "quarantine", "drop", "retire", "recheck", "evict", "unload"}

LocalsOK ==
    /\ \A t \in Threads : pc[t] \in HasARec => arec[t] \in ARecs
    /\ \A t \in Threads : pc[t] \in HasFRec => frec[t] \in FRecs
    /\ wpc \in {"compare", "repair", "advance"} => cursor \in Recs

TInv == TypeOK /\ LocalsOK

\* The counters stay integers, whatever bin a size falls into.
LEMMA AccountTypes ==
    ASSUME TypeOK, NEW size \in Nat, NEW inc \in {1, -1}, Account(size, inc)
    PROVE  /\ num_alloc_memblk' \in Int /\ allocated_size' \in Int
           /\ histogram' \in [0..(HISTO_BINS - 1) -> Int]
  BY DEF TypeOK, Account

\* A step of malloc keeps the types (memchk_hook.c:32-57 and mc_register_memblk).
LEMMA RegisterTypes ==
    ASSUME NEW t \in Threads, TInv,
           Malloc(t) \/ RegisterRecord(t) \/ RegisterNoRecord(t) \/ RegisterFill(t)
               \/ RegisterAdd(t) \/ RegisterCount(t)
    PROVE  TInv'
<1> USE BlockTrackerAssumption DEF TInv, TypeOK, LocalsOK, Labels, HasARec, HasFRec, Recs, libc, chains,
        records, ring, stats, locals, worker, Goto, Tables
<1>1. CASE Malloc(t)
  BY <1>1 DEF Malloc, Obtain
<1>2. CASE RegisterRecord(t)
  <2>1. TypeOK'
    BY <1>2 DEF RegisterRecord
  <2>2. LocalsOK'
    BY <1>2 DEF RegisterRecord
  <2> QED
    BY <2>1, <2>2
<1>3. CASE RegisterNoRecord(t)
  BY <1>3 DEF RegisterNoRecord, MallocReturns, MmapFails
<1>4. CASE RegisterFill(t)
  <2>1. TypeOK'
    BY <1>4 DEF RegisterFill, Contents
  <2>2. LocalsOK'
    BY <1>4 DEF RegisterFill, Contents
  <2> QED
    BY <2>1, <2>2
<1>5. CASE RegisterAdd(t)
  BY <1>5 DEF RegisterAdd, Link
<1>6. CASE RegisterCount(t)
  <2>1. /\ num_alloc_memblk' \in Int /\ allocated_size' \in Int
        /\ histogram' \in [0..(HISTO_BINS - 1) -> Int]
    BY <1>6, AccountTypes DEF RegisterCount
  <2>2. TypeOK'
    BY <1>6, <2>1 DEF RegisterCount, MallocReturns
  <2>3. LocalsOK'
    BY <1>6 DEF RegisterCount, MallocReturns
  <2> QED
    BY <2>2, <2>3
<1> QED
  BY <1>1, <1>2, <1>3, <1>4, <1>5, <1>6

\* A step of realloc keeps the types (memchk_hook.c:81-119).
LEMMA ReallocTypes ==
    ASSUME NEW t \in Threads, TInv,
           Realloc(t) \/ ReallocSize(t) \/ ReallocMalloc(t) \/ ReallocNoMemory(t)
    PROVE  TInv'
<1> USE BlockTrackerAssumption DEF TInv, TypeOK, LocalsOK, Labels, HasARec, HasFRec, Recs, libc, chains,
        records, ring, stats, locals, worker, Goto, Tables
<1>1. CASE Realloc(t)
  <2>1. TypeOK'
    BY <1>1 DEF Realloc
  <2>2. LocalsOK'
    BY <1>1 DEF Realloc
  <2> QED
    BY <2>1, <2>2
<1>2. CASE ReallocSize(t)
  <2>1. /\ pc[t] = "size"
        /\ UNCHANGED <<libc, chains, records, ring, stats, frec, worker, oom>>
    BY <1>2 DEF ReallocSize
  <2>2. CASE Goto(t, "more") /\ UNCHANGED <<usrptr, usrsize, resume, arec>>
    <3>1. TypeOK'
      BY <2>1, <2>2
    <3>2. LocalsOK'
      BY <2>1, <2>2
    <3> QED
      BY <3>1, <3>2
  <2>3. CASE MallocReturns(t)
    <3>1. TypeOK'
      BY <2>1, <2>3 DEF MallocReturns
    <3>2. LocalsOK'
      BY <2>1, <2>3 DEF MallocReturns
    <3> QED
      BY <3>1, <3>2
  <2> QED
    BY <1>2, <2>2, <2>3 DEF ReallocSize
<1>3. CASE ReallocMalloc(t)
  <2>1. TypeOK'
    BY <1>3 DEF ReallocMalloc, Obtain
  <2>2. LocalsOK'
    BY <1>3 DEF ReallocMalloc, Obtain
  <2> QED
    BY <2>1, <2>2
<1>4. CASE ReallocNoMemory(t)
  <2>1. TypeOK'
    BY <1>4 DEF ReallocNoMemory, MallocReturns
  <2>2. LocalsOK'
    BY <1>4 DEF ReallocNoMemory, MallocReturns
  <2> QED
    BY <2>1, <2>2
<1> QED
  BY <1>1, <1>2, <1>3, <1>4

\* A step of free up to the reuse of the record keeps the types (mc_unregister_memblk).
LEMMA UnregisterTypes ==
    ASSUME NEW t \in Threads, TInv,
           Free(t) \/ Unregister(t) \/ UnregisterUnknown(t) \/ FindFreed(t) \/ ReportBadFree(t) \/ CheckFreed(t) \/ FreeRecord(t) \/ FreeNoRecord(t) \/ Poison(t)
    PROVE  TInv'
<1> USE BlockTrackerAssumption DEF TInv, TypeOK, LocalsOK, Labels, HasARec, HasFRec, Recs, libc, chains,
        records, ring, stats, locals, worker, Goto, Tables
<1>1. CASE Free(t)
  <2>1. TypeOK'
    BY <1>1 DEF Free
  <2>2. LocalsOK'
    BY <1>1 DEF Free
  <2> QED
    BY <2>1, <2>2
<1>2. CASE Unregister(t)
  <2>1. TypeOK'
    BY <1>2 DEF Unregister, Unlink, Found, AllocTable
  <2>2. LocalsOK'
    BY <1>2 DEF Unregister, Unlink, Found, AllocTable
  <2> QED
    BY <2>1, <2>2
<1>3. CASE UnregisterUnknown(t)
  <2>1. TypeOK'
    BY <1>3 DEF UnregisterUnknown
  <2>2. LocalsOK'
    BY <1>3 DEF UnregisterUnknown
  <2> QED
    BY <2>1, <2>2
<1>4. CASE FindFreed(t)
  <2>1. /\ pc[t] = "lookup"
        /\ UNCHANGED <<libc, chains, records, ring, stats, usrptr, usrsize, arec, resume, worker, oom>>
    BY <1>4 DEF FindFreed
  <2>2. CASE Goto(t, "illegal") /\ UNCHANGED frec
    <3>1. TypeOK'
      BY <2>1, <2>2
    <3>2. LocalsOK'
      BY <2>1, <2>2
    <3> QED
      BY <3>1, <3>2
  <2>3. CASE \E f \in FRecs : frec' = [frec EXCEPT ![t] = f] /\ Goto(t, "double")
    <3>1. TypeOK'
      BY <2>1, <2>3
    <3>2. LocalsOK'
      BY <2>1, <2>3
    <3> QED
      BY <3>1, <3>2
  <2> QED
    BY <1>4, <2>2, <2>3 DEF FindFreed, Found, FreeTable
<1>5. CASE ReportBadFree(t)
  <2>1. TypeOK'
    BY <1>5 DEF ReportBadFree, FreeReturns
  <2>2. LocalsOK'
    BY <1>5 DEF ReportBadFree, FreeReturns
  <2> QED
    BY <2>1, <2>2
<1>6. CASE CheckFreed(t)
  <2>1. TypeOK'
    BY <1>6 DEF CheckFreed
  <2>2. LocalsOK'
    BY <1>6 DEF CheckFreed
  <2> QED
    BY <2>1, <2>2
<1>7. CASE FreeRecord(t)
  <2>1. TypeOK'
    BY <1>7 DEF FreeRecord
  <2>2. LocalsOK'
    BY <1>7 DEF FreeRecord
  <2> QED
    BY <2>1, <2>2
<1>8. CASE FreeNoRecord(t)
  <2>1. TypeOK'
    BY <1>8 DEF FreeNoRecord, MmapFails
  <2>2. LocalsOK'
    BY <1>8 DEF FreeNoRecord, MmapFails
  <2> QED
    BY <2>1, <2>2
<1>9. CASE Poison(t)
  <2>1. TypeOK'
    BY <1>9 DEF Poison, Contents
  <2>2. LocalsOK'
    BY <1>9 DEF Poison, Contents
  <2> QED
    BY <2>1, <2>2
<1> QED
  BY <1>1, <1>2, <1>3, <1>4, <1>5, <1>6, <1>7, <1>8, <1>9

\* A step of free from the quarantine on keeps the types (mc_unregister_memblk).
LEMMA EvictTypes ==
    ASSUME NEW t \in Threads, TInv,
           Quarantine(t) \/ DropRecord(t) \/ RecheckFreed(t) \/ Evict(t) \/ DropFreed(t) \/ Release(t)
    PROVE  TInv'
<1> USE BlockTrackerAssumption DEF TInv, TypeOK, LocalsOK, Labels, HasARec, HasFRec, Recs, libc, chains,
        records, ring, stats, locals, worker, Goto, Tables
<1>1. CASE Quarantine(t)
  <2>1. TypeOK'
    BY <1>1 DEF Quarantine, Link
  <2>2. LocalsOK'
    BY <1>1 DEF Quarantine, Link
  <2> QED
    BY <2>1, <2>2
<1>2. CASE DropRecord(t)
  <2>1. TypeOK'
    BY <1>2 DEF DropRecord
  <2>2. LocalsOK'
    BY <1>2 DEF DropRecord
  <2> QED
    BY <2>1, <2>2
<1>3. CASE RecheckFreed(t)
  <2>1. TypeOK'
    BY <1>3 DEF RecheckFreed
  <2>2. LocalsOK'
    BY <1>3 DEF RecheckFreed
  <2> QED
    BY <2>1, <2>2
<1>4. CASE Evict(t)
  <2>1. /\ pc[t] = "evict"
        /\ UNCHANGED <<libc, records, ring, stats, usrptr, usrsize, arec, frec, resume, worker, oom>>
    BY <1>4 DEF Evict
  <2>2. CASE UNCHANGED chains /\ Goto(t, "unload")
    <3>1. TypeOK'
      BY <2>1, <2>2
    <3>2. LocalsOK'
      BY <2>1, <2>2
    <3> QED
      BY <3>1, <3>2
  <2>3. CASE \E f \in FRecs : Unlink("free", f) /\ Goto(t, "unload")
    <3>1. TypeOK'
      BY <2>1, <2>3 DEF Unlink
    <3>2. LocalsOK'
      BY <2>1, <2>3 DEF Unlink
    <3> QED
      BY <3>1, <3>2
  <2> QED
    BY <1>4, <2>2, <2>3 DEF Evict, Found, FreeTable
<1>5. CASE DropFreed(t)
  <2>1. TypeOK'
    BY <1>5 DEF DropFreed
  <2>2. LocalsOK'
    BY <1>5 DEF DropFreed
  <2> QED
    BY <2>1, <2>2
<1>6. CASE Release(t)
  <2>1. TypeOK'
    BY <1>6 DEF Release, FreeReturns, Contents
  <2>2. LocalsOK'
    BY <1>6 DEF Release, FreeReturns, Contents
  <2> QED
    BY <2>1, <2>2
<1> QED
  BY <1>1, <1>2, <1>3, <1>4, <1>5, <1>6

\* A step of the buffer check keeps the types (mc_check_all_memblk).
LEMMA CheckTypes ==
    ASSUME TInv,
           CheckBegin \/ CheckCompare \/ CheckRepair \/ CheckAdvance \/ CheckFreeTable \/ CheckEnd
    PROVE  TInv'
<1> USE BlockTrackerAssumption DEF TInv, TypeOK, LocalsOK, Labels, HasARec, HasFRec, Recs, libc, chains,
        records, ring, stats, locals, worker, Goto, Tables
<1>1. CASE CheckBegin
  <2>1. TypeOK'
    BY <1>1 DEF CheckBegin, Arrive
  <2>2. LocalsOK'
    BY <1>1 DEF CheckBegin, Arrive
  <2> QED
    BY <2>1, <2>2
<1>2. CASE CheckCompare
  <2>1. TypeOK'
    BY <1>2 DEF CheckCompare
  <2>2. LocalsOK'
    BY <1>2 DEF CheckCompare
  <2> QED
    BY <2>1, <2>2
<1>3. CASE CheckRepair
  <2>1. TypeOK'
    BY <1>3 DEF CheckRepair, Expected, Contents
  <2>2. LocalsOK'
    BY <1>3 DEF CheckRepair, Expected, Contents
  <2> QED
    BY <2>1, <2>2
<1>4. CASE CheckAdvance
  <2>1. TypeOK'
    BY <1>4 DEF CheckAdvance, Arrive
  <2>2. LocalsOK'
    BY <1>4 DEF CheckAdvance, Arrive
  <2> QED
    BY <2>1, <2>2
<1>5. CASE CheckFreeTable
  <2>1. TypeOK'
    BY <1>5 DEF CheckFreeTable, Arrive
  <2>2. LocalsOK'
    BY <1>5 DEF CheckFreeTable, Arrive
  <2> QED
    BY <2>1, <2>2
<1>6. CASE CheckEnd
  <2>1. TypeOK'
    BY <1>6 DEF CheckEnd
  <2>2. LocalsOK'
    BY <1>6 DEF CheckEnd
  <2> QED
    BY <2>1, <2>2
<1> QED
  BY <1>1, <1>2, <1>3, <1>4, <1>5, <1>6

\* The critical section of the counters and the ring keeps the types; the ring
\* index wraps at FREE_FIFO_SIZE (memchk_manage_memblk.c:193-204).
LEMMA RetireTypes ==
    ASSUME NEW t \in Threads, TInv, Retire(t)
    PROVE  TInv'
<1> USE BlockTrackerAssumption DEF TInv
<1>1. (free_fifo_idx + 1) % FifoSize \in 0..(FifoSize - 1)
  BY DEF TypeOK
<1>2. usrsize[t] \in Nat
  BY DEF TypeOK
<1>3. /\ num_alloc_memblk' \in Int /\ allocated_size' \in Int
      /\ histogram' \in [0..(HISTO_BINS - 1) -> Int]
  BY <1>2, AccountTypes DEF Retire
<1>4. /\ free_memblk_array' \in [0..(FifoSize - 1) -> FRecs \cup {NULL}]
      /\ free_fifo_idx' \in 0..(FifoSize - 1)
      /\ frec' \in [Threads -> FRecs \cup {NULL}]
      /\ pc'[t] \in HasFRec => frec'[t] \in FRecs
  BY <1>1 DEF Retire, TypeOK, Labels, Goto, HasFRec
<1>5. TypeOK'
  BY <1>3, <1>4 DEF Retire, TypeOK, Labels, Goto, libc, chains, records, worker
<1>6. LocalsOK'
  BY <1>4 DEF Retire, TypeOK, LocalsOK, Goto, HasARec, HasFRec, worker
<1> QED
  BY <1>5, <1>6

\* Every step of the program and of the worker keeps the types.
LEMMA TypeStep == TInv /\ [Next]_vars => TInv'
<1> SUFFICES ASSUME TInv, [Next]_vars PROVE TInv'
  OBVIOUS
<1>1. ASSUME NEW t \in Threads, Calls(t) \/ Inside(t) PROVE TInv'
  BY <1>1, RegisterTypes, ReallocTypes, UnregisterTypes, EvictTypes, RetireTypes DEF Calls, Inside
<1>2. ASSUME NEW b \in Bufs, Scribble(b) PROVE TInv'
  BY <1>2 DEF Scribble, TInv, TypeOK, LocalsOK, Contents, chains, records, ring, stats, locals, worker
<1>3. CASE CheckBegin \/ CheckAll
  BY <1>3, CheckTypes DEF CheckAll
<1>4. CASE UNCHANGED vars
  BY <1>4 DEF vars, TInv, TypeOK, LocalsOK, libc, chains, records, ring, stats, locals, worker
<1> QED
  BY <1>1, <1>2, <1>3, <1>4 DEF Next, AppNext

LEMMA TypeInit == Init => TInv
<1> SUFFICES ASSUME Init PROVE TInv
  OBVIOUS
<1>1. TypeOK
  <2>1. /\ free_fifo_idx \in 0..(FifoSize - 1)
        /\ free_memblk_array \in [0..(FifoSize - 1) -> FRecs \cup {NULL}]
        /\ histogram \in [0..(HISTO_BINS - 1) -> Int]
    BY BlockTrackerAssumption DEF Init
  <2>2. /\ heap \subseteq Bufs /\ mem \in [Bufs -> Contents]
        /\ used \subseteq Recs /\ linked \subseteq Recs
        /\ ptrOf \in [Recs -> Bufs \cup {NULL}] /\ sizeOf \in [Recs -> Nat]
        /\ hash_next \in [Recs -> Recs \cup {NULL}]
        /\ head \in [Tables -> Recs \cup {NULL}]
    BY DEF Init, Contents
  <2>3. /\ usrptr \in [Threads -> Bufs \cup {NULL}] /\ usrsize \in [Threads -> Nat]
        /\ arec \in [Threads -> ARecs \cup {NULL}] /\ frec \in [Threads -> FRecs \cup {NULL}]
        /\ resume \in [Threads -> Bufs \cup {NULL}]
        /\ cursor \in Recs \cup {NULL} /\ wptr \in Bufs \cup {NULL}
        /\ num_alloc_memblk \in Int /\ allocated_size \in Int /\ oom \in Nat
    BY DEF Init
  <2>4. pc = [t \in Threads |-> "idle"] /\ wpc = "idle" /\ managed = FALSE
    BY DEF Init
  <2> QED
    BY <2>1, <2>2, <2>3, <2>4 DEF TypeOK, Labels
<1>2. LocalsOK
  BY DEF Init, LocalsOK, HasARec, HasFRec
<1> QED
  BY <1>1, <1>2 DEF TInv

\* TypeOK holds in every state of the tracker with its worker
\* (memchk_manage_memblk.c, memchk_hook.c).
THEOREM TypeCorrect == Spec => []TypeOK
<1>1. TInv => TypeOK
  BY DEF TInv
<1> QED
  BY TypeInit, TypeStep, <1>1, PTL DEF Spec

-----------------------------------------------------------------------------
(* Who owns a block. ReleaseSafe is not inductive: what a thread brings to   *)
(* libc depends on the record it evicted, on the ring that record came from, *)
(* on the tables and on the records in the hands of the other threads. Own   *)
(* says all of it: every block has one owner, and so has every record.       *)

HoldsBlock == {"reg", "fill", "add", "check", "frec", "poison", "quarantine"}
HoldsFRec == {"poison", "quarantine", "drop", "retire", "recheck", "evict", "unload"}

\* A table has one record per block, of a block obtained from libc.
LinkedOK ==
    /\ linked \subseteq used
    /\ \A r \in linked : ptrOf[r] \in heap
    /\ \A r, s \in linked : ptrOf[r] = ptrOf[s] => r = s

\* A block some thread carries is in no table and carried by no other.
CarriedOK ==
    /\ \A t \in Threads : pc[t] \in HoldsBlock => usrptr[t] # NULL
    /\ \A t \in Threads : Carried(t) # NULL =>
        /\ Carried(t) \in heap
        /\ \A r \in linked : ptrOf[r] # Carried(t)
        /\ \A u \in Threads : Carried(u) = Carried(t) => u = t

\* The allocation record in a thread's hands is of the block it carries.
ARecOK ==
    \A t \in Threads : pc[t] \in HasARec =>
        /\ arec[t] \in used /\ arec[t] \notin linked
        /\ pc[t] # "drop" => ptrOf[arec[t]] = usrptr[t]
        /\ \A u \in Threads : pc[u] \in HasARec /\ arec[u] = arec[t] => u = t

\* The free record in a thread's hands: its own on the way into the ring, the
\* evicted one on the way out.
FRecOK ==
    \A t \in Threads : pc[t] \in HoldsFRec =>
        /\ frec[t] \in used
        /\ pc[t] \in {"drop", "retire", "recheck", "evict"} => frec[t] \in linked
        /\ pc[t] \in {"poison", "quarantine", "unload"} => frec[t] \notin linked
        /\ pc[t] \in {"poison", "quarantine"} => ptrOf[frec[t]] = usrptr[t]
        /\ pc[t] = "unload" => ptrOf[frec[t]] # NULL
        /\ \A u \in Threads : pc[u] \in HoldsFRec /\ frec[u] = frec[t] => u = t
        /\ \A i \in 0..(FifoSize - 1) : free_memblk_array[i] # frec[t]

RingOK ==
    \A i \in 0..(FifoSize - 1) : free_memblk_array[i] # NULL =>
        /\ free_memblk_array[i] \in linked
        /\ \A j \in 0..(FifoSize - 1) : free_memblk_array[j] = free_memblk_array[i] => i = j

Own == LinkedOK /\ CarriedOK /\ ARecOK /\ FRecOK /\ RingOK

\* The slot of buf_to_be_freed, when free never assigned it, holds NULL: with
\* anything else in it no property of the release survives (memchk_hook.c:61).
SlotIsNull == "free" \in OomPools => Garbage = {NULL}

\* The types Own depends on.
Core ==
    /\ heap \subseteq Bufs /\ used \subseteq Recs /\ linked \subseteq Recs
    /\ ptrOf \in [Recs -> Bufs \cup {NULL}]
    /\ free_memblk_array \in [0..(FifoSize - 1) -> FRecs \cup {NULL}]
    /\ free_fifo_idx \in 0..(FifoSize - 1)
    /\ pc \in [Threads -> Labels]
    /\ usrptr \in [Threads -> Bufs \cup {NULL}]
    /\ arec \in [Threads -> ARecs \cup {NULL}]
    /\ frec \in [Threads -> FRecs \cup {NULL}]
    /\ \A t \in Threads : pc[t] \in HasARec => arec[t] \in ARecs
    /\ \A t \in Threads : pc[t] \in HasFRec => frec[t] \in FRecs
    /\ ARecs \cap FRecs = {}
    /\ NULL \notin Bufs \cup ARecs \cup FRecs

LEMMA CoreTypes == TInv => Core
<1> SUFFICES ASSUME TInv PROVE Core
  OBVIOUS
<1>1. pc \in [Threads -> Labels]
  BY DEF TInv, TypeOK
<1> QED
  BY <1>1, BlockTrackerAssumption DEF TInv, TypeOK, LocalsOK, Core

\* A step of malloc keeps the ownership of blocks and records.
LEMMA MallocOwn ==
    ASSUME NEW t \in Threads, Core, Own, SlotIsNull,
           Malloc(t) \/ RegisterRecord(t) \/ RegisterNoRecord(t) \/ RegisterFill(t) \/ RegisterAdd(t) \/ RegisterCount(t)
    PROVE  Own'
<1> USE DEF Core, Own, LinkedOK, CarriedOK, ARecOK, FRecOK, RingOK, Carried, HoldsBlock, HoldsFRec,
        HasARec, HasFRec, Recs, libc, chains, records, ring, stats, locals, worker, Goto
<1>1. CASE Malloc(t)
  <2>1. LinkedOK'
    BY <1>1 DEF Malloc, Obtain
  <2>2. CarriedOK'
    BY <1>1 DEF Malloc, Obtain
  <2>3. ARecOK'
    BY <1>1 DEF Malloc, Obtain
  <2>4. FRecOK'
    BY <1>1 DEF Malloc, Obtain
  <2>5. RingOK'
    BY <1>1 DEF Malloc, Obtain
  <2> QED
    BY <2>1, <2>2, <2>3, <2>4, <2>5
<1>2. CASE RegisterRecord(t)
  <2>1. LinkedOK'
    BY <1>2 DEF RegisterRecord
  <2>2. CarriedOK'
    BY <1>2 DEF RegisterRecord
  <2>3. ARecOK'
    BY <1>2 DEF RegisterRecord
  <2>4. FRecOK'
    BY <1>2 DEF RegisterRecord
  <2>5. RingOK'
    BY <1>2 DEF RegisterRecord
  <2> QED
    BY <2>1, <2>2, <2>3, <2>4, <2>5
<1>3. CASE RegisterNoRecord(t)
  <2>1. LinkedOK'
    BY <1>3 DEF RegisterNoRecord, MallocReturns
  <2>2. CarriedOK'
    BY <1>3 DEF RegisterNoRecord, MallocReturns
  <2>3. ARecOK'
    BY <1>3 DEF RegisterNoRecord, MallocReturns
  <2>4. FRecOK'
    BY <1>3 DEF RegisterNoRecord, MallocReturns
  <2>5. RingOK'
    BY <1>3 DEF RegisterNoRecord, MallocReturns
  <2> QED
    BY <2>1, <2>2, <2>3, <2>4, <2>5
<1>4. CASE RegisterFill(t)
  <2>1. LinkedOK'
    BY <1>4 DEF RegisterFill
  <2>2. CarriedOK'
    BY <1>4 DEF RegisterFill
  <2>3. ARecOK'
    BY <1>4 DEF RegisterFill
  <2>4. FRecOK'
    BY <1>4 DEF RegisterFill
  <2>5. RingOK'
    BY <1>4 DEF RegisterFill
  <2> QED
    BY <2>1, <2>2, <2>3, <2>4, <2>5
<1>5. CASE RegisterAdd(t)
  <2>1. LinkedOK'
    BY <1>5 DEF RegisterAdd, Link
  <2>2. CarriedOK'
    BY <1>5 DEF RegisterAdd, Link
  <2>3. ARecOK'
    BY <1>5 DEF RegisterAdd, Link
  <2>4. FRecOK'
    BY <1>5 DEF RegisterAdd, Link
  <2>5. RingOK'
    BY <1>5 DEF RegisterAdd, Link
  <2> QED
    BY <2>1, <2>2, <2>3, <2>4, <2>5
<1>6. CASE RegisterCount(t)
  <2>1. LinkedOK'
    BY <1>6 DEF RegisterCount, MallocReturns
  <2>2. CarriedOK'
    BY <1>6 DEF RegisterCount, MallocReturns
  <2>3. ARecOK'
    BY <1>6 DEF RegisterCount, MallocReturns
  <2>4. FRecOK'
    BY <1>6 DEF RegisterCount, MallocReturns
  <2>5. RingOK'
    BY <1>6 DEF RegisterCount, MallocReturns
  <2> QED
    BY <2>1, <2>2, <2>3, <2>4, <2>5
<1> QED
  BY <1>1, <1>2, <1>3, <1>4, <1>5, <1>6

\* A step of realloc keeps the ownership of blocks and records.
LEMMA ReallocOwn ==
    ASSUME NEW t \in Threads, Core, Own, SlotIsNull,
           Realloc(t) \/ ReallocSize(t) \/ ReallocMalloc(t) \/ ReallocNoMemory(t)
    PROVE  Own'
<1> USE DEF Core, Own, LinkedOK, CarriedOK, ARecOK, FRecOK, RingOK, Carried, HoldsBlock, HoldsFRec,
        HasARec, HasFRec, Recs, libc, chains, records, ring, stats, locals, worker, Goto
<1>1. CASE Realloc(t)
  <2>1. LinkedOK'
    BY <1>1 DEF Realloc
  <2>2. CarriedOK'
    BY <1>1 DEF Realloc
  <2>3. ARecOK'
    BY <1>1 DEF Realloc
  <2>4. FRecOK'
    BY <1>1 DEF Realloc
  <2>5. RingOK'
    BY <1>1 DEF Realloc
  <2> QED
    BY <2>1, <2>2, <2>3, <2>4, <2>5
<1>2. CASE ReallocSize(t)
  <2>1. LinkedOK'
    BY <1>2 DEF ReallocSize, MallocReturns
  <2>2. CarriedOK'
    BY <1>2 DEF ReallocSize, MallocReturns
  <2>3. ARecOK'
    BY <1>2 DEF ReallocSize, MallocReturns
  <2>4. FRecOK'
    BY <1>2 DEF ReallocSize, MallocReturns
  <2>5. RingOK'
    BY <1>2 DEF ReallocSize, MallocReturns
  <2> QED
    BY <2>1, <2>2, <2>3, <2>4, <2>5
<1>3. CASE ReallocMalloc(t)
  <2>1. LinkedOK'
    BY <1>3 DEF ReallocMalloc, Obtain
  <2>2. CarriedOK'
    BY <1>3 DEF ReallocMalloc, Obtain
  <2>3. ARecOK'
    BY <1>3 DEF ReallocMalloc, Obtain
  <2>4. FRecOK'
    BY <1>3 DEF ReallocMalloc, Obtain
  <2>5. RingOK'
    BY <1>3 DEF ReallocMalloc, Obtain
  <2> QED
    BY <2>1, <2>2, <2>3, <2>4, <2>5
<1>4. CASE ReallocNoMemory(t)
  <2>1. LinkedOK'
    BY <1>4 DEF ReallocNoMemory, MallocReturns
  <2>2. CarriedOK'
    BY <1>4 DEF ReallocNoMemory, MallocReturns
  <2>3. ARecOK'
    BY <1>4 DEF ReallocNoMemory, MallocReturns
  <2>4. FRecOK'
    BY <1>4 DEF ReallocNoMemory, MallocReturns
  <2>5. RingOK'
    BY <1>4 DEF ReallocNoMemory, MallocReturns
  <2> QED
    BY <2>1, <2>2, <2>3, <2>4, <2>5
<1> QED
  BY <1>1, <1>2, <1>3, <1>4

\* A step of free up to the reuse of the record keeps the ownership of blocks and records.
LEMMA FreeOwn ==
    ASSUME NEW t \in Threads, Core, Own, SlotIsNull,
           Free(t) \/ Unregister(t) \/ UnregisterUnknown(t) \/ FindFreed(t) \/ ReportBadFree(t) \/ CheckFreed(t) \/ FreeRecord(t) \/ FreeNoRecord(t) \/ Poison(t)
    PROVE  Own'
<1> USE DEF Core, Own, LinkedOK, CarriedOK, ARecOK, FRecOK, RingOK, Carried, HoldsBlock, HoldsFRec,
        HasARec, HasFRec, Recs, libc, chains, records, ring, stats, locals, worker, Goto
<1>1. CASE Free(t)
  <2>1. LinkedOK'
    BY <1>1 DEF Free
  <2>2. CarriedOK'
    BY <1>1 DEF Free
  <2>3. ARecOK'
    BY <1>1 DEF Free
  <2>4. FRecOK'
    BY <1>1 DEF Free
  <2>5. RingOK'
    BY <1>1 DEF Free
  <2> QED
    BY <2>1, <2>2, <2>3, <2>4, <2>5
<1>2. CASE Unregister(t)
  <2>1. LinkedOK'
    BY <1>2 DEF Unregister, Unlink, Found, AllocTable
  <2>2. CarriedOK'
    BY <1>2 DEF Unregister, Unlink, Found, AllocTable
  <2>3. ARecOK'
    BY <1>2 DEF Unregister, Unlink, Found, AllocTable
  <2>4. FRecOK'
    BY <1>2 DEF Unregister, Unlink, Found, AllocTable
  <2>5. RingOK'
    BY <1>2 DEF Unregister, Unlink, Found, AllocTable
  <2> QED
    BY <2>1, <2>2, <2>3, <2>4, <2>5
<1>3. CASE UnregisterUnknown(t)
  <2>1. LinkedOK'
    BY <1>3 DEF UnregisterUnknown
  <2>2. CarriedOK'
    BY <1>3 DEF UnregisterUnknown
  <2>3. ARecOK'
    BY <1>3 DEF UnregisterUnknown
  <2>4. FRecOK'
    BY <1>3 DEF UnregisterUnknown
  <2>5. RingOK'
    BY <1>3 DEF UnregisterUnknown
  <2> QED
    BY <2>1, <2>2, <2>3, <2>4, <2>5
<1>4. CASE FindFreed(t)
  <2>1. LinkedOK'
    BY <1>4 DEF FindFreed
  <2>2. CarriedOK'
    BY <1>4 DEF FindFreed
  <2>3. ARecOK'
    BY <1>4 DEF FindFreed
  <2>4. FRecOK'
    BY <1>4 DEF FindFreed
  <2>5. RingOK'
    BY <1>4 DEF FindFreed
  <2> QED
    BY <2>1, <2>2, <2>3, <2>4, <2>5
<1>5. CASE ReportBadFree(t)
  <2>1. LinkedOK'
    BY <1>5 DEF ReportBadFree, FreeReturns
  <2>2. CarriedOK'
    BY <1>5 DEF ReportBadFree, FreeReturns
  <2>3. ARecOK'
    BY <1>5 DEF ReportBadFree, FreeReturns
  <2>4. FRecOK'
    BY <1>5 DEF ReportBadFree, FreeReturns
  <2>5. RingOK'
    BY <1>5 DEF ReportBadFree, FreeReturns
  <2> QED
    BY <2>1, <2>2, <2>3, <2>4, <2>5
<1>6. CASE CheckFreed(t)
  <2>1. LinkedOK'
    BY <1>6 DEF CheckFreed
  <2>2. CarriedOK'
    BY <1>6 DEF CheckFreed
  <2>3. ARecOK'
    BY <1>6 DEF CheckFreed
  <2>4. FRecOK'
    BY <1>6 DEF CheckFreed
  <2>5. RingOK'
    BY <1>6 DEF CheckFreed
  <2> QED
    BY <2>1, <2>2, <2>3, <2>4, <2>5
<1>7. CASE FreeRecord(t)
  <2>1. LinkedOK'
    BY <1>7 DEF FreeRecord
  <2>2. CarriedOK'
    BY <1>7 DEF FreeRecord
  <2>3. ARecOK'
    BY <1>7 DEF FreeRecord
  <2>4. FRecOK'
    BY <1>7 DEF FreeRecord
  <2>5. RingOK'
    BY <1>7 DEF FreeRecord
  <2> QED
    BY <2>1, <2>2, <2>3, <2>4, <2>5
<1>8. CASE FreeNoRecord(t)
  <2>0. usrptr' = [usrptr EXCEPT ![t] = NULL]
    <3>1. Garbage = {NULL}
      BY <1>8 DEF FreeNoRecord, MmapFails, SlotIsNull
    <3> QED
      BY <1>8, <3>1 DEF FreeNoRecord
  <2>1. LinkedOK'
    BY <1>8 DEF FreeNoRecord
  <2>2. CarriedOK'
    BY <1>8, <2>0 DEF FreeNoRecord
  <2>3. ARecOK'
    BY <1>8 DEF FreeNoRecord
  <2>4. FRecOK'
    BY <1>8 DEF FreeNoRecord
  <2>5. RingOK'
    BY <1>8 DEF FreeNoRecord
  <2> QED
    BY <2>1, <2>2, <2>3, <2>4, <2>5
<1>9. CASE Poison(t)
  <2>1. LinkedOK'
    BY <1>9 DEF Poison
  <2>2. CarriedOK'
    BY <1>9 DEF Poison
  <2>3. ARecOK'
    BY <1>9 DEF Poison
  <2>4. FRecOK'
    BY <1>9 DEF Poison
  <2>5. RingOK'
    BY <1>9 DEF Poison
  <2> QED
    BY <2>1, <2>2, <2>3, <2>4, <2>5
<1> QED
  BY <1>1, <1>2, <1>3, <1>4, <1>5, <1>6, <1>7, <1>8, <1>9

\* A step of free from the quarantine on keeps the ownership of blocks and records.
LEMMA EvictOwn ==
    ASSUME NEW t \in Threads, Core, Own, SlotIsNull,
           Quarantine(t) \/ DropRecord(t) \/ Retire(t) \/ RecheckFreed(t) \/ Evict(t) \/ DropFreed(t) \/ Release(t)
    PROVE  Own'
<1> USE DEF Core, Own, LinkedOK, CarriedOK, ARecOK, FRecOK, RingOK, Carried, HoldsBlock, HoldsFRec,
        HasARec, HasFRec, Recs, libc, chains, records, ring, stats, locals, worker, Goto
<1>1. CASE Quarantine(t)
  <2>1. LinkedOK'
    BY <1>1 DEF Quarantine, Link
  <2>2. CarriedOK'
    BY <1>1 DEF Quarantine, Link
  <2>3. ARecOK'
    BY <1>1 DEF Quarantine, Link
  <2>4. FRecOK'
    BY <1>1 DEF Quarantine, Link
  <2>5. RingOK'
    BY <1>1 DEF Quarantine, Link
  <2> QED
    BY <2>1, <2>2, <2>3, <2>4, <2>5
<1>2. CASE DropRecord(t)
  <2>1. LinkedOK'
    BY <1>2 DEF DropRecord
  <2>2. CarriedOK'
    BY <1>2 DEF DropRecord
  <2>3. ARecOK'
    BY <1>2 DEF DropRecord
  <2>4. FRecOK'
    BY <1>2 DEF DropRecord
  <2>5. RingOK'
    BY <1>2 DEF DropRecord
  <2> QED
    BY <2>1, <2>2, <2>3, <2>4, <2>5
<1>3. CASE Retire(t)
  <2>1. LinkedOK'
    BY <1>3 DEF Retire
  <2>2. CarriedOK'
    BY <1>3 DEF Retire
  <2>3. ARecOK'
    BY <1>3 DEF Retire
  <2>4. FRecOK'
    BY <1>3 DEF Retire
  <2>5. RingOK'
    BY <1>3 DEF Retire
  <2> QED
    BY <2>1, <2>2, <2>3, <2>4, <2>5
<1>4. CASE RecheckFreed(t)
  <2>1. LinkedOK'
    BY <1>4 DEF RecheckFreed
  <2>2. CarriedOK'
    BY <1>4 DEF RecheckFreed
  <2>3. ARecOK'
    BY <1>4 DEF RecheckFreed
  <2>4. FRecOK'
    BY <1>4 DEF RecheckFreed
  <2>5. RingOK'
    BY <1>4 DEF RecheckFreed
  <2> QED
    BY <2>1, <2>2, <2>3, <2>4, <2>5
<1>5. CASE Evict(t)
  <2>1. LinkedOK'
    BY <1>5 DEF Evict, Unlink, Found, FreeTable
  <2>2. CarriedOK'
    BY <1>5 DEF Evict, Unlink, Found, FreeTable
  <2>3. ARecOK'
    BY <1>5 DEF Evict, Unlink, Found, FreeTable
  <2>4. FRecOK'
    BY <1>5 DEF Evict, Unlink, Found, FreeTable
  <2>5. RingOK'
    BY <1>5 DEF Evict, Unlink, Found, FreeTable
  <2> QED
    BY <2>1, <2>2, <2>3, <2>4, <2>5
<1>6. CASE DropFreed(t)
  <2>1. LinkedOK'
    BY <1>6 DEF DropFreed
  <2>2. CarriedOK'
    BY <1>6 DEF DropFreed
  <2>3. ARecOK'
    BY <1>6 DEF DropFreed
  <2>4. FRecOK'
    BY <1>6 DEF DropFreed
  <2>5. RingOK'
    BY <1>6 DEF DropFreed
  <2> QED
    BY <2>1, <2>2, <2>3, <2>4, <2>5
<1>7. CASE Release(t)
  <2>1. LinkedOK'
    BY <1>7 DEF Release, FreeReturns
  <2>2. CarriedOK'
    BY <1>7 DEF Release, FreeReturns
  <2>3. ARecOK'
    BY <1>7 DEF Release, FreeReturns
  <2>4. FRecOK'
    BY <1>7 DEF Release, FreeReturns
  <2>5. RingOK'
    BY <1>7 DEF Release, FreeReturns
  <2> QED
    BY <2>1, <2>2, <2>3, <2>4, <2>5
<1> QED
  BY <1>1, <1>2, <1>3, <1>4, <1>5, <1>6, <1>7

\* Every step of the program and of the worker keeps Own. The worker writes
\* only memory and its own variables, none of which Own is about.
LEMMA OwnStep == TInv /\ Own /\ SlotIsNull /\ [Next]_vars => Own'
<1> SUFFICES ASSUME TInv, Own, SlotIsNull, [Next]_vars PROVE Own'
  OBVIOUS
<1>1. ASSUME NEW t \in Threads, Calls(t) \/ Inside(t) PROVE Own'
  BY <1>1, CoreTypes, MallocOwn, ReallocOwn, FreeOwn, EvictOwn DEF Calls, Inside
<1>2. ASSUME UNCHANGED <<heap, chains, records, ring, locals>> PROVE Own'
  BY <1>2 DEF Own, LinkedOK, CarriedOK, ARecOK, FRecOK, RingOK, Carried, chains, records, ring, locals
<1>3. ASSUME NEW b \in Bufs, Scribble(b) PROVE Own'
  BY <1>2, <1>3 DEF Scribble
<1>4. CASE CheckBegin \/ CheckAll
  BY <1>2, <1>4 DEF CheckBegin, CheckAll, CheckCompare, CheckRepair, CheckAdvance, CheckFreeTable, CheckEnd, libc
<1>5. CASE UNCHANGED vars
  BY <1>2, <1>5 DEF vars, libc
<1> QED
  BY <1>1, <1>3, <1>4, <1>5 DEF Next, AppNext

LEMMA OwnInit == Init => Own
<1> SUFFICES ASSUME Init PROVE Own
  OBVIOUS
<1>1. /\ linked = {} /\ pc = [t \in Threads |-> "idle"]
      /\ free_memblk_array = [i \in 0..(FifoSize - 1) |-> NULL]
  BY DEF Init
<1>2. \A t \in Threads : Carried(t) = NULL
  BY <1>1 DEF Carried
<1> QED
  BY <1>1, <1>2 DEF Own, LinkedOK, CarriedOK, ARecOK, FRecOK, RingOK, HasARec, HoldsBlock, HoldsFRec

\* ReleaseSafe in every state, for any number of threads and blocks: what
\* free_memblk passes to libc (memchk_hook.c:77-78) is owned by nobody else.
\* SlotIsNull is needed: see FreeNoRecord.
THEOREM ReleaseIsSafe == ASSUME SlotIsNull PROVE Spec => []ReleaseSafe
<1>1. TInv /\ Own => ReleaseSafe
  <2> SUFFICES ASSUME TInv, Own, NEW t \in Threads, pc[t] = "release", usrptr[t] # NULL
               PROVE  /\ usrptr[t] \in heap
                      /\ Found(linked, usrptr[t]) = {}
                      /\ \A u \in Threads \ {t} : Carried(u) # usrptr[t]
    BY DEF ReleaseSafe
  <2>1. Carried(t) = usrptr[t]
    BY DEF Carried
  <2> QED
    BY <2>1 DEF Own, CarriedOK, Found
<1> QED
  BY TypeInit, TypeStep, OwnInit, OwnStep, <1>1, PTL DEF Spec

\* QuarantineIntact in every state: what the ring holds is in the free table,
\* with its buffer not given back, once each (memchk_manage_memblk.c:168-175).
THEOREM QuarantineStaysIntact == ASSUME SlotIsNull PROVE Spec => []QuarantineIntact
<1>1. TInv /\ Own => QuarantineIntact
  BY CoreTypes DEF Core, Own, LinkedOK, RingOK, QuarantineIntact, FreeTable
<1> QED
  BY TypeInit, TypeStep, OwnInit, OwnStep, <1>1, PTL DEF Spec

-----------------------------------------------------------------------------
(* What a block holds follows from who owns it, as long as the worker does   *)
(* not run: the checks of free report no block the program did not spoil.    *)

\* A block in a table bears the marks of that table, unless the program spoilt
\* them; so does the block of a thread between marking it and the table.
Marked ==
    /\ mem \in [Bufs -> Contents]
    /\ \A r \in linked : mem[ptrOf[r]] \in {Expected(r), "dirty"}
    /\ \A t \in Threads : pc[t] \in {"add", "check"} => mem[usrptr[t]] \in {"zoned", "dirty"}
    /\ \A t \in Threads : pc[t] = "quarantine" => mem[usrptr[t]] \in {"filled", "dirty"}

\* A step of malloc keeps the marks: the red zones are written before the block is in the table.
LEMMA MallocMarks ==
    ASSUME NEW t \in Threads, Core, Own, Marked,
           Malloc(t) \/ RegisterRecord(t) \/ RegisterNoRecord(t) \/ RegisterFill(t) \/ RegisterAdd(t) \/ RegisterCount(t)
    PROVE  Marked'
<1> USE DEF Core, Own, LinkedOK, CarriedOK, ARecOK, FRecOK, Carried, HoldsBlock, HoldsFRec, HasARec,
        HasFRec, Recs, Labels, Marked, Contents, Expected, libc, chains, records, ring, locals, Goto
<1>1. CASE Malloc(t)
  BY <1>1 DEF Malloc, Obtain
<1>2. CASE RegisterRecord(t)
  BY <1>2 DEF RegisterRecord
<1>3. CASE RegisterNoRecord(t)
  BY <1>3 DEF RegisterNoRecord, MallocReturns
<1>4. CASE RegisterFill(t)
  BY <1>4 DEF RegisterFill
<1>5. CASE RegisterAdd(t)
  BY <1>5 DEF RegisterAdd, Link
<1>6. CASE RegisterCount(t)
  BY <1>6 DEF RegisterCount, MallocReturns
<1> QED
  BY <1>1, <1>2, <1>3, <1>4, <1>5, <1>6

\* A step of realloc keeps the marks; its own block it has not registered yet.
LEMMA ReallocMarks ==
    ASSUME NEW t \in Threads, Core, Own, Marked,
           Realloc(t) \/ ReallocSize(t) \/ ReallocMalloc(t) \/ ReallocNoMemory(t)
    PROVE  Marked'
<1> USE DEF Core, Own, LinkedOK, CarriedOK, ARecOK, FRecOK, Carried, HoldsBlock, HoldsFRec, HasARec,
        HasFRec, Recs, Labels, Marked, Contents, Expected, libc, chains, records, ring, locals, Goto
<1>1. CASE Realloc(t)
  BY <1>1 DEF Realloc
<1>2. CASE ReallocSize(t)
  BY <1>2 DEF ReallocSize, MallocReturns
<1>3. CASE ReallocMalloc(t)
  BY <1>3 DEF ReallocMalloc, Obtain
<1>4. CASE ReallocNoMemory(t)
  BY <1>4 DEF ReallocNoMemory, MallocReturns
<1> QED
  BY <1>1, <1>2, <1>3, <1>4

\* A step of free up to the poisoning keeps the marks: the block has left the alloc table before it is filled.
LEMMA FreeMarks ==
    ASSUME NEW t \in Threads, Core, Own, Marked,
           Free(t) \/ Unregister(t) \/ UnregisterUnknown(t) \/ FindFreed(t) \/ ReportBadFree(t) \/ CheckFreed(t) \/ FreeRecord(t) \/ FreeNoRecord(t) \/ Poison(t)
    PROVE  Marked'
<1> USE DEF Core, Own, LinkedOK, CarriedOK, ARecOK, FRecOK, Carried, HoldsBlock, HoldsFRec, HasARec,
        HasFRec, Recs, Labels, Marked, Contents, Expected, libc, chains, records, ring, locals, Goto
<1>1. CASE Free(t)
  BY <1>1 DEF Free
<1>2. CASE Unregister(t)
  BY <1>2 DEF Unregister, Unlink, Found, AllocTable
<1>3. CASE UnregisterUnknown(t)
  BY <1>3 DEF UnregisterUnknown
<1>4. CASE FindFreed(t)
  BY <1>4 DEF FindFreed
<1>5. CASE ReportBadFree(t)
  BY <1>5 DEF ReportBadFree, FreeReturns
<1>6. CASE CheckFreed(t)
  BY <1>6 DEF CheckFreed
<1>7. CASE FreeRecord(t)
  BY <1>7 DEF FreeRecord
<1>8. CASE FreeNoRecord(t)
  BY <1>8 DEF FreeNoRecord
<1>9. CASE Poison(t)
  BY <1>9 DEF Poison
<1> QED
  BY <1>1, <1>2, <1>3, <1>4, <1>5, <1>6, <1>7, <1>8, <1>9

\* A step of free from the quarantine on keeps the marks: only a block no table has goes back to libc.
LEMMA EvictMarks ==
    ASSUME NEW t \in Threads, Core, Own, Marked,
           Quarantine(t) \/ DropRecord(t) \/ Retire(t) \/ RecheckFreed(t) \/ Evict(t) \/ DropFreed(t) \/ Release(t)
    PROVE  Marked'
<1> USE DEF Core, Own, LinkedOK, CarriedOK, ARecOK, FRecOK, Carried, HoldsBlock, HoldsFRec, HasARec,
        HasFRec, Recs, Labels, Marked, Contents, Expected, libc, chains, records, ring, locals, Goto
<1>1. CASE Quarantine(t)
  BY <1>1 DEF Quarantine, Link
<1>2. CASE DropRecord(t)
  BY <1>2 DEF DropRecord
<1>3. CASE Retire(t)
  BY <1>3 DEF Retire
<1>4. CASE RecheckFreed(t)
  BY <1>4 DEF RecheckFreed
<1>5. CASE Evict(t)
  BY <1>5 DEF Evict, Unlink
<1>6. CASE DropFreed(t)
  BY <1>6 DEF DropFreed
<1>7. CASE Release(t)
  BY <1>7 DEF Release, FreeReturns
<1> QED
  BY <1>1, <1>2, <1>3, <1>4, <1>5, <1>6, <1>7

\* Every step of the program keeps the marks.
LEMMA MarkedStep == TInv /\ Own /\ Marked /\ [AppNext]_vars => Marked'
<1> SUFFICES ASSUME TInv, Own, Marked, [AppNext]_vars PROVE Marked'
  OBVIOUS
<1>1. ASSUME NEW t \in Threads, Calls(t) \/ Inside(t) PROVE Marked'
  BY <1>1, CoreTypes, MallocMarks, ReallocMarks, FreeMarks, EvictMarks DEF Calls, Inside
<1>2. ASSUME NEW b \in Bufs, Scribble(b) PROVE Marked'
  BY <1>2 DEF Scribble, Marked, Contents, Expected, chains, records, locals
<1>3. CASE UNCHANGED vars
  BY <1>3 DEF vars, Marked, Expected, libc, chains, records, locals
<1> QED
  BY <1>1, <1>2, <1>3 DEF AppNext

\* NoFalseReport of the program alone, for any number of threads and blocks:
\* what free reports at its two checks (memchk_manage_memblk.c:165, 211) the
\* program wrote. With the worker it is false: see CheckRepair.
THEOREM NoReportIsFalse == ASSUME SlotIsNull PROVE AppSpec => []NoFalseReport
<1> DEFINE Inv == TInv /\ Own /\ Marked /\ wpc = "idle"
<1>1. Init => Inv
  <2> SUFFICES ASSUME Init PROVE Marked /\ wpc = "idle"
    BY TypeInit, OwnInit
  <2> QED
    BY DEF Init, Marked, Contents
<1>2. Inv /\ [AppNext]_vars => Inv'
  <2> SUFFICES ASSUME Inv, [AppNext]_vars PROVE Inv'
    OBVIOUS
  <2>1. [Next]_vars
    BY DEF Next
  <2>2. TInv' /\ Own' /\ Marked'
    BY <2>1, TypeStep, OwnStep, MarkedStep
  <2>3. wpc' = "idle"
    <3>1. UNCHANGED worker
      BY DEF AppNext, Calls, Inside, vars, Malloc, Obtain, RegisterRecord, RegisterNoRecord,
          RegisterFill, RegisterAdd, RegisterCount, Realloc, ReallocSize, ReallocMalloc,
          ReallocNoMemory, Free, Unregister, UnregisterUnknown, FindFreed, ReportBadFree,
          CheckFreed, FreeRecord, FreeNoRecord, Poison, Quarantine, DropRecord, Retire,
          RecheckFreed, Evict, DropFreed, Release, Scribble
    <3> QED
      BY <3>1 DEF worker
  <2> QED
    BY <2>2, <2>3
<1>3. Inv => NoFalseReport
  <2> SUFFICES ASSUME Inv, NEW t \in Threads, pc[t] = "recheck"
               PROVE  mem[ptrOf[frec[t]]] \in {"filled", "dirty"}
    BY DEF NoFalseReport, Marked
  <2>1. frec[t] \in linked /\ frec[t] \in FRecs /\ frec[t] \notin ARecs
    BY CoreTypes DEF Core, HasFRec, Own, FRecOK, HoldsFRec
  <2> QED
    BY <2>1 DEF Marked, Expected
<1> QED
  BY <1>1, <1>2, <1>3, PTL DEF AppSpec

-----------------------------------------------------------------------------
(* Where the records are. Own says that a record has at most one place; with *)
(* Held, that it has one as long as it is taken from its pool.               *)

\* A record that is on no chain is in the hands of a thread.
Held ==
    /\ \A t \in Threads : arec[t] # NULL <=> pc[t] \in HasARec \cup {"count"}
    /\ \A r \in used \ linked :
        \/ \E t \in Threads : pc[t] \in HasARec /\ arec[t] = r
        \/ \E t \in Threads : pc[t] \in {"poison", "quarantine", "unload"} /\ frec[t] = r

\* A step of malloc loses no record.
LEMMA MallocHeld ==
    ASSUME NEW t \in Threads, Core, Own, Held,
           Malloc(t) \/ RegisterRecord(t) \/ RegisterNoRecord(t) \/ RegisterFill(t) \/ RegisterAdd(t) \/ RegisterCount(t)
    PROVE  Held'
<1> USE DEF Core, Own, LinkedOK, ARecOK, FRecOK, HoldsFRec, HasARec, HasFRec, Recs, Labels, Held,
        libc, chains, records, ring, locals, Goto
<1>1. CASE Malloc(t)
  BY <1>1 DEF Malloc, Obtain
<1>2. CASE RegisterRecord(t)
  BY <1>2 DEF RegisterRecord
<1>3. CASE RegisterNoRecord(t)
  BY <1>3 DEF RegisterNoRecord, MallocReturns
<1>4. CASE RegisterFill(t)
  BY <1>4 DEF RegisterFill
<1>5. CASE RegisterAdd(t)
  BY <1>5 DEF RegisterAdd, Link
<1>6. CASE RegisterCount(t)
  BY <1>6 DEF RegisterCount, MallocReturns
<1> QED
  BY <1>1, <1>2, <1>3, <1>4, <1>5, <1>6

\* A step of realloc loses no record.
LEMMA ReallocHeld ==
    ASSUME NEW t \in Threads, Core, Own, Held,
           Realloc(t) \/ ReallocSize(t) \/ ReallocMalloc(t) \/ ReallocNoMemory(t)
    PROVE  Held'
<1> USE DEF Core, Own, LinkedOK, ARecOK, FRecOK, HoldsFRec, HasARec, HasFRec, Recs, Labels, Held,
        libc, chains, records, ring, locals, Goto
<1>1. CASE Realloc(t)
  BY <1>1 DEF Realloc
<1>2. CASE ReallocSize(t)
  BY <1>2 DEF ReallocSize, MallocReturns
<1>3. CASE ReallocMalloc(t)
  BY <1>3 DEF ReallocMalloc, Obtain
<1>4. CASE ReallocNoMemory(t)
  BY <1>4 DEF ReallocNoMemory, MallocReturns
<1> QED
  BY <1>1, <1>2, <1>3, <1>4

\* A step of free up to the poisoning loses no record; without a free record, the other one goes back to its pool.
LEMMA FreeHeld ==
    ASSUME NEW t \in Threads, Core, Own, Held,
           Free(t) \/ Unregister(t) \/ UnregisterUnknown(t) \/ FindFreed(t) \/ ReportBadFree(t) \/ CheckFreed(t) \/ FreeRecord(t) \/ FreeNoRecord(t) \/ Poison(t)
    PROVE  Held'
<1> USE DEF Core, Own, LinkedOK, ARecOK, FRecOK, HoldsFRec, HasARec, HasFRec, Recs, Labels, Held,
        libc, chains, records, ring, locals, Goto
<1>1. CASE Free(t)
  BY <1>1 DEF Free
<1>2. CASE Unregister(t)
  BY <1>2 DEF Unregister, Unlink, Found, AllocTable
<1>3. CASE UnregisterUnknown(t)
  BY <1>3 DEF UnregisterUnknown
<1>4. CASE FindFreed(t)
  BY <1>4 DEF FindFreed, Found, FreeTable
<1>5. CASE ReportBadFree(t)
  BY <1>5 DEF ReportBadFree, FreeReturns
<1>6. CASE CheckFreed(t)
  BY <1>6 DEF CheckFreed
<1>7. CASE FreeRecord(t)
  BY <1>7 DEF FreeRecord
<1>8. CASE FreeNoRecord(t)
  BY <1>8 DEF FreeNoRecord
<1>9. CASE Poison(t)
  BY <1>9 DEF Poison
<1> QED
  BY <1>1, <1>2, <1>3, <1>4, <1>5, <1>6, <1>7, <1>8, <1>9

\* A step of free from the quarantine on loses no record: what leaves the free table is the record the ring gave up.
LEMMA EvictHeld ==
    ASSUME NEW t \in Threads, Core, Own, Held,
           Quarantine(t) \/ DropRecord(t) \/ Retire(t) \/ RecheckFreed(t) \/ Evict(t) \/ DropFreed(t) \/ Release(t)
    PROVE  Held'
<1> USE DEF Core, Own, LinkedOK, ARecOK, FRecOK, HoldsFRec, HasARec, HasFRec, Recs, Labels, Held,
        libc, chains, records, ring, locals, Goto
<1>1. CASE Quarantine(t)
  BY <1>1 DEF Quarantine, Link
<1>2. CASE DropRecord(t)
  BY <1>2 DEF DropRecord
<1>3. CASE Retire(t)
  BY <1>3 DEF Retire
<1>4. CASE RecheckFreed(t)
  BY <1>4 DEF RecheckFreed
<1>5. CASE Evict(t)
  BY <1>5 DEF Evict, Unlink, Found, FreeTable
<1>6. CASE DropFreed(t)
  BY <1>6 DEF DropFreed
<1>7. CASE Release(t)
  BY <1>7 DEF Release, FreeReturns
<1> QED
  BY <1>1, <1>2, <1>3, <1>4, <1>5, <1>6, <1>7

\* Every step of the program and of the worker keeps Held.
LEMMA HeldStep == TInv /\ Own /\ Held /\ [Next]_vars => Held'
<1> SUFFICES ASSUME TInv, Own, Held, [Next]_vars PROVE Held'
  OBVIOUS
<1>1. ASSUME NEW t \in Threads, Calls(t) \/ Inside(t) PROVE Held'
  BY <1>1, CoreTypes, MallocHeld, ReallocHeld, FreeHeld, EvictHeld DEF Calls, Inside
<1>2. ASSUME UNCHANGED <<chains, records, locals>> PROVE Held'
  BY <1>2 DEF Held, chains, records, locals
<1>3. ASSUME NEW b \in Bufs, Scribble(b) PROVE Held'
  BY <1>2, <1>3 DEF Scribble
<1>4. CASE CheckBegin \/ CheckAll
  BY <1>2, <1>4 DEF CheckBegin, CheckAll, CheckCompare, CheckRepair, CheckAdvance, CheckFreeTable, CheckEnd
<1>5. CASE UNCHANGED vars
  BY <1>2, <1>5 DEF vars
<1> QED
  BY <1>1, <1>3, <1>4, <1>5 DEF Next, AppNext

\* A function that takes no value twice on S has as many values there as S
\* has elements.
LEMMA ValuesOf ==
    ASSUME NEW S, IsFiniteSet(S), NEW f, \A x, y \in S : f[x] = f[y] => x = y
    PROVE  /\ IsFiniteSet({f[x] : x \in S})
           /\ Cardinality({f[x] : x \in S}) = Cardinality(S)
<1> DEFINE T == {f[x] : x \in S}
           g == [x \in S |-> f[x]]
<1>1. g \in Bijection(S, T)
  BY DEF Bijection, Injection, Surjection, IsInjective
<1>2. ExistsBijection(S, T)
  BY <1>1 DEF ExistsBijection
<1> QED
  BY <1>2, FS_Bijection

\* RecordsAccounted in every state, for any number of threads, blocks and
\* records, failures included: a record taken from its pool is on one chain or
\* in the hands of one thread (memchk_manage_memblk.c:103-219).
THEOREM NoRecordLost == ASSUME SlotIsNull, IsFiniteSet(Threads) PROVE Spec => []RecordsAccounted
<1>1. Init => Held
  BY DEF Init, Held, HasARec
<1>2. TInv /\ Own /\ Held => RecordsAccounted
  <2> SUFFICES ASSUME TInv, Own, Held PROVE RecordsAccounted
    OBVIOUS
  <2> DEFINE ahands == {t \in Threads : arec[t] # NULL /\ pc[t] # "count"}
             fhands == {t \in Threads : pc[t] \in {"poison", "quarantine", "unload"}}
             A == {arec[t] : t \in ahands}
             F == {frec[t] : t \in fhands}
  <2>1. Core
    BY CoreTypes
  <2>2. ahands = {t \in Threads : pc[t] \in HasARec}
    BY DEF Held, HasARec
  <2>3. /\ A \subseteq ARecs \cap used /\ A \cap linked = {}
        /\ \A t, u \in ahands : arec[t] = arec[u] => t = u
    BY <2>1, <2>2 DEF Core, Own, ARecOK
  <2>4. /\ F \subseteq FRecs \cap used /\ F \cap linked = {}
        /\ \A t, u \in fhands : frec[t] = frec[u] => t = u
    BY <2>1 DEF Core, Own, FRecOK, HoldsFRec, HasFRec
  <2>5. used \subseteq linked \cup A \cup F
    BY <2>2 DEF Held
  <2>6. used = linked \cup A \cup F
    BY <2>3, <2>4, <2>5 DEF Own, LinkedOK
  <2>7. Cardinality(A \cup F) = Cardinality(ahands) + Cardinality(fhands)
    <3>1. IsFiniteSet(ahands) /\ IsFiniteSet(fhands)
      BY FS_Subset
    <3>2. IsFiniteSet(A) /\ Cardinality(A) = Cardinality(ahands)
      <4> HIDE DEF ahands
      <4> QED
        BY <2>3, <3>1, ValuesOf
    <3>3. IsFiniteSet(F) /\ Cardinality(F) = Cardinality(fhands)
      <4> HIDE DEF fhands
      <4> QED
        BY <2>4, <3>1, ValuesOf
    <3>4. A \cap F = {}
      BY <2>1, <2>3, <2>4 DEF Core
    <3> HIDE DEF A, F, ahands, fhands
    <3>5. Cardinality(A \cup F) = Cardinality(A) + Cardinality(F) - Cardinality(A \cap F)
      BY <3>2, <3>3, FS_Union
    <3>6. /\ Cardinality(A \cap F) = 0
          /\ Cardinality(A) \in Nat /\ Cardinality(F) \in Nat
      BY <3>2, <3>3, <3>4, FS_EmptySet, FS_CardinalityType
    <3> QED
      BY <3>2, <3>3, <3>5, <3>6
  <2> QED
    BY <2>3, <2>4, <2>6, <2>7 DEF RecordsAccounted
<1> QED
  BY TypeInit, TypeStep, OwnInit, OwnStep, HeldStep, <1>1, <1>2, PTL DEF Spec

-----------------------------------------------------------------------------
(* The chains of the two hash tables. What a walk along hash_next visits     *)
(* follows from the order of each chain, which an insertion extends at the   *)
(* front and a removal shortens, whichever record it takes.                  *)

ChainsOK ==
    /\ IsChain(head["alloc"], hash_next, AllocTable, NULL)
    /\ IsChain(head["free"], hash_next, FreeTable, NULL)

\* mc_add_ptr_hashtable extends the chain of its table and leaves the other one.
LEMMA LinkChains ==
    ASSUME TInv, ChainsOK, NEW k \in Tables,
           NEW r \in (IF k = "alloc" THEN ARecs ELSE FRecs), r \notin linked, Link(k, r)
    PROVE  ChainsOK'
<1>1. /\ hash_next \in [Recs -> Recs \cup {NULL}] /\ head \in [Tables -> Recs \cup {NULL}]
      /\ linked \subseteq Recs /\ ARecs \cap FRecs = {} /\ Recs = ARecs \cup FRecs
      /\ k \in {"alloc", "free"} /\ Tables = {"alloc", "free"}
  BY BlockTrackerAssumption DEF TInv, TypeOK, Recs, Tables
<1>2. /\ hash_next'[r] = head[k] /\ head'[k] = r /\ linked' = linked \cup {r}
      /\ \A x \in linked : hash_next'[x] = hash_next[x]
      /\ \A j \in Tables \ {k} : head'[j] = head[j]
  BY <1>1 DEF Link
<1>3. CASE k = "alloc"
  <2>1. AllocTable' = AllocTable \cup {r} /\ r \notin AllocTable /\ FreeTable' = FreeTable
    BY <1>1, <1>2, <1>3 DEF AllocTable, FreeTable
  <2>2. IsChain(r, hash_next', AllocTable \cup {r}, NULL)
    <3>1. \A x \in AllocTable : hash_next'[x] = hash_next[x]
      BY <1>2 DEF AllocTable
    <3> QED  BY <1>2, <1>3, <2>1, <3>1, ChainPrepend DEF ChainsOK
  <2>3. IsChain(head["free"], hash_next', FreeTable, NULL)
    <3>1. \A x \in FreeTable : hash_next'[x] = hash_next[x]
      BY <1>2 DEF FreeTable
    <3> QED  BY <3>1, ChainSame DEF ChainsOK
  <2>4. head'["alloc"] = r /\ head'["free"] = head["free"]
    BY <1>1, <1>2, <1>3
  <2> QED  BY <2>1, <2>2, <2>3, <2>4, Zenon DEF ChainsOK
<1>4. CASE k = "free"
  <2>1. FreeTable' = FreeTable \cup {r} /\ r \notin FreeTable /\ AllocTable' = AllocTable
    BY <1>1, <1>2, <1>4 DEF AllocTable, FreeTable
  <2>2. IsChain(r, hash_next', FreeTable \cup {r}, NULL)
    <3>1. \A x \in FreeTable : hash_next'[x] = hash_next[x]
      BY <1>2 DEF FreeTable
    <3> QED  BY <1>2, <1>4, <2>1, <3>1, ChainPrepend DEF ChainsOK
  <2>3. IsChain(head["alloc"], hash_next', AllocTable, NULL)
    <3>1. \A x \in AllocTable : hash_next'[x] = hash_next[x]
      BY <1>2 DEF AllocTable
    <3> QED  BY <3>1, ChainSame DEF ChainsOK
  <2>4. head'["free"] = r /\ head'["alloc"] = head["alloc"]
    BY <1>1, <1>2, <1>4
  <2> QED  BY <2>1, <2>2, <2>3, <2>4, Zenon DEF ChainsOK
<1> QED  BY <1>1, <1>3, <1>4

\* mc_remove_ptr_hashtable takes one record out of the chain of its table.
LEMMA UnlinkChains ==
    ASSUME TInv, ChainsOK, NEW k \in Tables,
           NEW r \in (IF k = "alloc" THEN AllocTable ELSE FreeTable), Unlink(k, r)
    PROVE  ChainsOK'
<1>1. /\ head \in [Tables -> Recs \cup {NULL}] /\ linked \subseteq Recs
      /\ ARecs \cap FRecs = {} /\ Recs = ARecs \cup FRecs /\ NULL \notin Recs
      /\ k \in {"alloc", "free"} /\ Tables = {"alloc", "free"}
  BY BlockTrackerAssumption DEF TInv, TypeOK, Recs, Tables
<1>2. /\ linked' = linked \ {r}
      /\ \A x \in linked : hash_next'[x] = IF hash_next[x] = r THEN hash_next[r] ELSE hash_next[x]
      /\ head'[k] = IF head[k] = r THEN hash_next[r] ELSE head[k]
      /\ \A j \in Tables \ {k} : head'[j] = head[j]
  BY <1>1 DEF Unlink
<1>3. /\ NULL \notin AllocTable /\ NULL \notin FreeTable /\ AllocTable \cap FreeTable = {}
      /\ AllocTable \subseteq linked /\ FreeTable \subseteq linked
  BY <1>1 DEF AllocTable, FreeTable
<1>4. /\ \A x \in AllocTable : hash_next[x] \in AllocTable \cup {NULL}
      /\ \A x \in FreeTable : hash_next[x] \in FreeTable \cup {NULL}
  BY ChainLinks DEF ChainsOK
<1>5. CASE k = "alloc"
  <2>1. r \in AllocTable /\ AllocTable' = AllocTable \ {r} /\ FreeTable' = FreeTable
    BY <1>1, <1>2, <1>5 DEF AllocTable, FreeTable
  <2>2. IsChain(head'["alloc"], hash_next', AllocTable \ {r}, NULL)
    <3>1. \A x \in AllocTable \ {r} : hash_next'[x] = IF hash_next[x] = r THEN hash_next[r] ELSE hash_next[x]
      BY <1>2, <1>3
    <3>2. head'["alloc"] = IF head["alloc"] = r THEN hash_next[r] ELSE head["alloc"]
      BY <1>2, <1>5
    <3> QED  BY <1>3, <2>1, <3>1, <3>2, ChainRemove DEF ChainsOK
  <2>3. IsChain(head["free"], hash_next', FreeTable, NULL)
    <3>1. \A x \in FreeTable : hash_next'[x] = hash_next[x]
      BY <1>2, <1>3, <1>4, <2>1
    <3> QED  BY <3>1, ChainSame DEF ChainsOK
  <2>4. head'["free"] = head["free"]
    BY <1>1, <1>2, <1>5
  <2> QED  BY <2>1, <2>2, <2>3, <2>4, Zenon DEF ChainsOK
<1>6. CASE k = "free"
  <2>1. r \in FreeTable /\ FreeTable' = FreeTable \ {r} /\ AllocTable' = AllocTable
    BY <1>1, <1>2, <1>6 DEF AllocTable, FreeTable
  <2>2. IsChain(head'["free"], hash_next', FreeTable \ {r}, NULL)
    <3>1. \A x \in FreeTable \ {r} : hash_next'[x] = IF hash_next[x] = r THEN hash_next[r] ELSE hash_next[x]
      BY <1>2, <1>3
    <3>2. head'["free"] = IF head["free"] = r THEN hash_next[r] ELSE head["free"]
      BY <1>2, <1>6
    <3> QED  BY <1>3, <2>1, <3>1, <3>2, ChainRemove DEF ChainsOK
  <2>3. IsChain(head["alloc"], hash_next', AllocTable, NULL)
    <3>1. \A x \in AllocTable : hash_next'[x] = hash_next[x]
      BY <1>2, <1>3, <1>4, <2>1
    <3> QED  BY <3>1, ChainSame DEF ChainsOK
  <2>4. head'["alloc"] = head["alloc"]
    BY <1>1, <1>2, <1>6
  <2> QED  BY <2>1, <2>2, <2>3, <2>4, Zenon DEF ChainsOK
<1> QED  BY <1>1, <1>5, <1>6

\* Every step of the program and of the worker keeps the chains.
LEMMA ChainsStep == TInv /\ Own /\ ChainsOK /\ [Next]_vars => ChainsOK'
<1> SUFFICES ASSUME TInv, Own, ChainsOK, [Next]_vars PROVE ChainsOK'
  OBVIOUS
<1>1. ASSUME UNCHANGED chains PROVE ChainsOK'
  BY <1>1 DEF chains, ChainsOK, AllocTable, FreeTable
<1>2. ASSUME NEW t \in Threads, RegisterAdd(t) PROVE ChainsOK'
  <2>1. arec[t] \in ARecs /\ arec[t] \notin linked /\ "alloc" \in Tables
    BY <1>2, CoreTypes DEF RegisterAdd, Core, Own, ARecOK, HasARec, Tables
  <2> QED  BY <1>2, <2>1, LinkChains DEF RegisterAdd
<1>3. ASSUME NEW t \in Threads, Quarantine(t) PROVE ChainsOK'
  <2>1. frec[t] \in FRecs /\ frec[t] \notin linked /\ "free" \in Tables
    BY <1>3, CoreTypes DEF Quarantine, Core, Own, FRecOK, HasFRec, HoldsFRec, Tables
  <2> QED  BY <1>3, <2>1, LinkChains DEF Quarantine
<1>4. ASSUME NEW t \in Threads, Unregister(t) PROVE ChainsOK'
  <2>1. PICK r \in AllocTable : Unlink("alloc", r)
    BY <1>4 DEF Unregister, Found
  <2> QED  BY <2>1, UnlinkChains DEF Tables
<1>5. ASSUME NEW t \in Threads, Evict(t) PROVE ChainsOK'
  <2>1. CASE \E f \in FreeTable : Unlink("free", f)
    BY <2>1, UnlinkChains DEF Tables
  <2> QED  BY <1>1, <1>5, <2>1 DEF Evict, Found
<1>6. ASSUME NEW t \in Threads, Calls(t) \/ Inside(t) PROVE ChainsOK'
  <2>1. CASE RegisterAdd(t) \/ Quarantine(t) \/ Unregister(t) \/ Evict(t)
    BY <1>2, <1>3, <1>4, <1>5, <2>1
  <2>2. CASE ~ (RegisterAdd(t) \/ Quarantine(t) \/ Unregister(t) \/ Evict(t))
    <3>1. UNCHANGED chains
      BY <1>6, <2>2 DEF Calls, Inside, Malloc, Obtain, RegisterRecord, RegisterNoRecord, RegisterFill,
          RegisterCount, Realloc, ReallocSize, ReallocMalloc, ReallocNoMemory, Free,
          UnregisterUnknown, FindFreed, ReportBadFree, CheckFreed, FreeRecord, FreeNoRecord,
          Poison, DropRecord, Retire, RecheckFreed, DropFreed, Release
    <3> QED  BY <1>1, <3>1
  <2> QED  BY <2>1, <2>2
<1>7. ASSUME NEW b \in Bufs, Scribble(b) PROVE ChainsOK'
  BY <1>1, <1>7 DEF Scribble
<1>8. CASE CheckBegin \/ CheckAll
  BY <1>1, <1>8 DEF CheckBegin, CheckAll, CheckCompare, CheckRepair, CheckAdvance, CheckFreeTable, CheckEnd
<1>9. CASE UNCHANGED vars
  BY <1>1, <1>9 DEF vars
<1> QED
  BY <1>6, <1>7, <1>8, <1>9 DEF Next, AppNext

\* ChainAgrees in every state, for any number of threads, blocks and records:
\* a walk from the bucket visits every record of its table once and ends
\* (memchk_hashtable.c:36-118).
THEOREM ChainsStayWhole ==
    ASSUME SlotIsNull, IsFiniteSet(Recs) PROVE Spec => []ChainAgrees
<1>1. Init => ChainsOK
  <2> SUFFICES ASSUME Init PROVE ChainsOK
    OBVIOUS
  <2>1. AllocTable = {} /\ FreeTable = {} /\ head["alloc"] = NULL /\ head["free"] = NULL
    BY DEF Init, AllocTable, FreeTable, Tables
  <2> QED  BY <2>1, ChainEmpty DEF ChainsOK
<1>2. TInv /\ ChainsOK => ChainAgrees
  <2> SUFFICES ASSUME TInv, ChainsOK, NEW k \in Tables
               PROVE  LET N == Cardinality(Recs)
                          node[n \in 0..N] == IF n = 0 THEN head[k]
                                              ELSE IF node[n - 1] = NULL THEN NULL
                                              ELSE hash_next[node[n - 1]]
                      IN  /\ node[N] = NULL
                          /\ {node[n] : n \in 0..N} \ {NULL} = IF k = "alloc" THEN AllocTable ELSE FreeTable
    BY Zenon DEF ChainAgrees
  <2> DEFINE N == Cardinality(Recs)
             node[n \in 0..N] == IF n = 0 THEN head[k]
                                 ELSE IF node[n - 1] = NULL THEN NULL
                                 ELSE hash_next[node[n - 1]]
             S == IF k = "alloc" THEN AllocTable ELSE FreeTable
  <2>1. IsChain(head[k], hash_next, S, NULL) /\ NULL \notin S /\ S \subseteq Recs
    BY BlockTrackerAssumption DEF ChainsOK, TInv, TypeOK, AllocTable, FreeTable, Tables, Recs
  <2>2. \E f : IsWalk(f, head[k], hash_next, NULL, N)
    <3> HIDE DEF S
    <3> QED  BY <2>1, WalkExists
  <2>3. IsWalk(node, head[k], hash_next, NULL, N)
    BY <2>2, Zenon DEF IsWalk
  <2>4. node[N] = NULL /\ {node[n] : n \in 0..N} \ {NULL} = S
    <3> HIDE DEF node, S
    <3> QED  BY <2>1, <2>3, ChainWalk
  <2> QED  BY <2>4, Zenon
<1> QED
  BY TypeInit, TypeStep, OwnInit, OwnStep, ChainsStep, <1>1, <1>2, PTL DEF Spec

-----------------------------------------------------------------------------
(* The counters. Each is a sum of weights of sizes: 1 for the number of      *)
(* blocks, the size for allocated_size, 1 or 0 for a bin of the histogram.   *)
(* A block is added to the table before it is counted and taken out before   *)
(* it is uncounted, so the threads between the two are added or subtracted.  *)

Before == {t \in Threads : pc[t] = "count"}
After == {t \in Threads : pc[t] \in {"check", "frec", "poison", "quarantine", "drop", "retire"}}

One == [size \in Nat |-> 1]
Size == [size \in Nat |-> size]
InBin(i) == [size \in Nat |-> IF Bin(size) = i THEN 1 ELSE 0]

\* What the counter with weights W is, by the table and the calls under way.
Due(W) == Weigh(W, sizeOf, AllocTable) - Weigh(W, usrsize, Before) + Weigh(W, usrsize, After)

Recorded == \A t \in Threads : pc[t] \in {"fill", "add"} => sizeOf[arec[t]] = usrsize[t]

CountedOK ==
    /\ num_alloc_memblk = Due(One)
    /\ allocated_size = Due(Size)
    /\ \A i \in 0..(HISTO_BINS - 1) : histogram[i] = Due(InBin(i))

\* A record on its way into the table has the size the thread will count.
LEMMA RecordedStep == TInv /\ Own /\ Recorded /\ [Next]_vars => Recorded'
<1> SUFFICES ASSUME TInv, Own, Recorded, [Next]_vars PROVE Recorded'
  OBVIOUS
<1> USE DEF Goto, Recs, HasARec, HasFRec, libc, chains, records, ring, locals
<1>1. Core
  BY CoreTypes
<1>2. /\ sizeOf \in [Recs -> Nat] /\ usrsize \in [Threads -> Nat]
      /\ pc \in [Threads -> Labels] /\ arec \in [Threads -> ARecs \cup {NULL}]
      /\ \A t \in Threads : pc[t] \in {"fill", "add"} =>
            /\ arec[t] \in ARecs /\ arec[t] \in used /\ arec[t] \notin FRecs
  BY <1>1 DEF TInv, TypeOK, Core, Own, ARecOK
<1>3. ASSUME NEW t \in Threads, Malloc(t) \/ ReallocMalloc(t) \/ RegisterNoRecord(t) PROVE Recorded'
  BY <1>2, <1>3 DEF Malloc, ReallocMalloc, Obtain, RegisterNoRecord, MallocReturns, Recorded
<1>4. ASSUME NEW t \in Threads, RegisterRecord(t) PROVE Recorded'
  BY <1>2, <1>4 DEF RegisterRecord, Recorded
<1>5. ASSUME NEW t \in Threads, RegisterFill(t) \/ RegisterAdd(t) PROVE Recorded'
  BY <1>2, <1>5 DEF RegisterFill, RegisterAdd, Recorded
<1>6. ASSUME NEW t \in Threads, RegisterCount(t) \/ ReallocNoMemory(t) PROVE Recorded'
  BY <1>2, <1>6 DEF RegisterCount, ReallocNoMemory, MallocReturns, Recorded
<1>7. ASSUME NEW t \in Threads, Realloc(t) PROVE Recorded'
  BY <1>2, <1>7 DEF Realloc, Recorded
<1>8. ASSUME NEW t \in Threads, ReallocSize(t) PROVE Recorded'
  BY <1>2, <1>8 DEF ReallocSize, MallocReturns, Recorded
<1>9. ASSUME NEW t \in Threads, Free(t) \/ UnregisterUnknown(t) \/ FindFreed(t) \/ CheckFreed(t)
      PROVE  Recorded'
  BY <1>2, <1>9 DEF Free, UnregisterUnknown, FindFreed, CheckFreed, Recorded
<1>10. ASSUME NEW t \in Threads, Unregister(t) PROVE Recorded'
  BY <1>2, <1>10 DEF Unregister, Recorded
<1>11. ASSUME NEW t \in Threads, ReportBadFree(t) \/ Release(t) PROVE Recorded'
  BY <1>2, <1>11 DEF ReportBadFree, Release, FreeReturns, Recorded
<1>12. ASSUME NEW t \in Threads, FreeRecord(t) PROVE Recorded'
  BY <1>2, <1>12 DEF FreeRecord, Recorded
<1>13. ASSUME NEW t \in Threads, FreeNoRecord(t) PROVE Recorded'
  BY <1>2, <1>13 DEF FreeNoRecord, Recorded
<1>14. ASSUME NEW t \in Threads, Poison(t) \/ Quarantine(t) \/ DropRecord(t) PROVE Recorded'
  BY <1>2, <1>14 DEF Poison, Quarantine, DropRecord, Recorded
<1>15. ASSUME NEW t \in Threads, Retire(t) PROVE Recorded'
  BY <1>2, <1>15 DEF Retire, Recorded
<1>16. ASSUME NEW t \in Threads, RecheckFreed(t) \/ Evict(t) \/ DropFreed(t) PROVE Recorded'
  BY <1>2, <1>16 DEF RecheckFreed, Evict, DropFreed, Recorded
<1>17. ASSUME UNCHANGED <<records, locals>> PROVE Recorded'
  BY <1>17 DEF Recorded
<1>18. ASSUME NEW b \in Bufs, Scribble(b) PROVE Recorded'
  BY <1>17, <1>18 DEF Scribble
<1>19. CASE CheckBegin \/ CheckAll
  BY <1>17, <1>19 DEF CheckBegin, CheckAll, CheckCompare, CheckRepair, CheckAdvance, CheckFreeTable, CheckEnd
<1>20. CASE UNCHANGED vars
  BY <1>17, <1>20 DEF vars
<1>21. ASSUME NEW t \in Threads, Calls(t) \/ Inside(t) PROVE Recorded'
  BY <1>3, <1>4, <1>5, <1>6, <1>7, <1>8, <1>9, <1>10, <1>11, <1>12, <1>13, <1>14, <1>15, <1>16, <1>21
     DEF Calls, Inside
<1> QED
  BY <1>18, <1>19, <1>20, <1>21 DEF Next, AppNext

-----------------------------------------------------------------------------
(* The steps that matter to the counters are of five kinds.                  *)

\* A record enters the table, the thread has yet to count it.
Enters(t, r) ==
    /\ r \in Recs /\ r \notin AllocTable /\ AllocTable' = AllocTable \cup {r}
    /\ t \notin Before /\ Before' = Before \cup {t} /\ After' = After
    /\ sizeOf' = sizeOf /\ usrsize' = usrsize /\ sizeOf[r] = usrsize[t]

\* A thread counts or uncounts, once, the size it has kept.
Counts(t) ==
    /\ AllocTable' = AllocTable /\ sizeOf' = sizeOf
    /\ t \in Before /\ Before' = Before \ {t} /\ After' = After /\ t \notin After
    /\ \A u \in Threads \ {t} : usrsize'[u] = usrsize[u]

Uncounts(t) ==
    /\ AllocTable' = AllocTable /\ sizeOf' = sizeOf
    /\ t \in After /\ After' = After \ {t} /\ Before' = Before /\ t \notin Before
    /\ \A u \in Threads \ {t} : usrsize'[u] = usrsize[u]

\* A record leaves the table, the thread has yet to uncount it.
Leaves(t, r) ==
    /\ r \in AllocTable /\ AllocTable' = AllocTable \ {r} /\ sizeOf' = sizeOf
    /\ t \notin After /\ After' = After \cup {t} /\ Before' = Before /\ t \notin Before
    /\ usrsize'[t] = sizeOf[r]
    /\ \A u \in Threads \ {t} : usrsize'[u] = usrsize[u]

\* Nothing the counters are about changes.
Rests ==
    /\ AllocTable' = AllocTable /\ Before' = Before /\ After' = After
    /\ \A r \in AllocTable : sizeOf'[r] = sizeOf[r]
    /\ \A u \in Before \cup After : usrsize'[u] = usrsize[u]

\* What each kind does to what a counter should be.
LEMMA DueMoves ==
    ASSUME TInv, TInv', IsFiniteSet(Threads), IsFiniteSet(Recs), NEW W \in [Nat -> Int],
           NEW t \in Threads
    PROVE  /\ Due(W) \in Int
           /\ \A r : Enters(t, r) => Due(W)' = Due(W)
           /\ Counts(t) => Due(W)' = Due(W) + W[usrsize[t]]
           /\ Uncounts(t) => Due(W)' = Due(W) - W[usrsize[t]]
           /\ \A r : Leaves(t, r) => Due(W)' = Due(W)
           /\ Rests => Due(W)' = Due(W)
<1>1. /\ IsFiniteSet(AllocTable) /\ IsFiniteSet(Before) /\ IsFiniteSet(After)
      /\ AllocTable \subseteq Recs /\ Before \subseteq Threads /\ After \subseteq Threads
  <2>1. AllocTable \subseteq Recs /\ Before \subseteq Threads /\ After \subseteq Threads
    BY DEF AllocTable, Before, After, Recs
  <2> QED  BY <2>1, FS_Subset
<1>2. /\ \A r \in Recs : sizeOf[r] \in Nat /\ sizeOf'[r] \in Nat
      /\ \A u \in Threads : usrsize[u] \in Nat /\ usrsize'[u] \in Nat
      /\ usrsize[t] \in Nat /\ usrsize'[t] \in Nat
  BY DEF TInv, TypeOK
<1>31. IsFiniteSet(AllocTable) /\ Sized(sizeOf, AllocTable)
  BY <1>1, <1>2 DEF Sized
<1>32. IsFiniteSet(Before) /\ Sized(usrsize, Before)
  BY <1>1, <1>2 DEF Sized
<1>33. IsFiniteSet(After) /\ Sized(usrsize, After)
  BY <1>1, <1>2 DEF Sized
<1> DEFINE A == Weigh(W, sizeOf, AllocTable)
           B == Weigh(W, usrsize, Before)
           C == Weigh(W, usrsize, After)
<1>4. A \in Int /\ B \in Int /\ C \in Int
  BY <1>31, <1>32, <1>33, WeighType
<1>5. /\ Due(W) = A - B + C
      /\ Due(W)' = Weigh(W, sizeOf', AllocTable') - Weigh(W, usrsize', Before') + Weigh(W, usrsize', After')
  BY DEF Due
<1>6. W[usrsize[t]] \in Int
  BY <1>2
<1> HIDE DEF A, B, C
<1>7. Due(W) \in Int
  BY <1>4, <1>5
<1>8. ASSUME NEW r, Enters(t, r) PROVE Due(W)' = Due(W)
  <2>1. Weigh(W, sizeOf, AllocTable \cup {r}) = A + W[sizeOf[r]]
    <3>1. Gains(W, sizeOf, sizeOf, AllocTable, r)
      BY <1>1, <1>2, <1>8, <1>31 DEF Enters, Agree, Gains
    <3> QED  BY <3>1, WeighAdd DEF A
  <2>2. Weigh(W, usrsize, Before \cup {t}) = B + W[usrsize[t]]
    <3>1. Gains(W, usrsize, usrsize, Before, t)
      BY <1>1, <1>2, <1>8, <1>32 DEF Enters, Agree, Gains
    <3> QED  BY <3>1, WeighAdd DEF B
  <2>3. /\ Weigh(W, sizeOf', AllocTable') = A + W[usrsize[t]]
        /\ Weigh(W, usrsize', Before') = B + W[usrsize[t]]
        /\ Weigh(W, usrsize', After') = C
    BY <1>8, <2>1, <2>2, Zenon DEF Enters, C
  <2> QED  BY <1>4, <1>5, <1>6, <2>3
<1>9. ASSUME Counts(t) PROVE Due(W)' = Due(W) + W[usrsize[t]]
  <2>1. Weigh(W, usrsize', Before \ {t}) = B - W[usrsize[t]]
    <3>1. Loses(W, usrsize, usrsize', Before, t)
      BY <1>1, <1>2, <1>9, <1>32 DEF Counts, Agree, Loses
    <3> QED  BY <3>1, WeighRemove DEF B
  <2>2. Weigh(W, usrsize', After) = C
    <3>1. Agree(usrsize, usrsize', After)
      BY <1>1, <1>9 DEF Counts, Agree
    <3> QED  BY <3>1, WeighSame DEF C
  <2>3. /\ Weigh(W, sizeOf', AllocTable') = A
        /\ Weigh(W, usrsize', Before') = B - W[usrsize[t]]
        /\ Weigh(W, usrsize', After') = C
    BY <1>9, <2>1, <2>2, Zenon DEF Counts, A
  <2> QED  BY <1>4, <1>5, <1>6, <2>3
<1>10. ASSUME Uncounts(t) PROVE Due(W)' = Due(W) - W[usrsize[t]]
  <2>1. Weigh(W, usrsize', After \ {t}) = C - W[usrsize[t]]
    <3>1. Loses(W, usrsize, usrsize', After, t)
      BY <1>1, <1>2, <1>10, <1>33 DEF Uncounts, Agree, Loses
    <3> QED  BY <3>1, WeighRemove DEF C
  <2>2. Weigh(W, usrsize', Before) = B
    <3>1. Agree(usrsize, usrsize', Before)
      BY <1>1, <1>10 DEF Uncounts, Agree
    <3> QED  BY <3>1, WeighSame DEF B
  <2>3. /\ Weigh(W, sizeOf', AllocTable') = A
        /\ Weigh(W, usrsize', Before') = B
        /\ Weigh(W, usrsize', After') = C - W[usrsize[t]]
    BY <1>10, <2>1, <2>2, Zenon DEF Uncounts, A
  <2> QED  BY <1>4, <1>5, <1>6, <2>3
<1>11. ASSUME NEW r, Leaves(t, r) PROVE Due(W)' = Due(W)
  <2>1. Weigh(W, sizeOf, AllocTable \ {r}) = A - W[sizeOf[r]]
    <3>1. Loses(W, sizeOf, sizeOf, AllocTable, r)
      BY <1>1, <1>2, <1>11, <1>31 DEF Leaves, Agree, Loses
    <3> QED  BY <3>1, WeighRemove DEF A
  <2>2. Weigh(W, usrsize', After \cup {t}) = C + W[usrsize'[t]]
    <3>1. Gains(W, usrsize, usrsize', After, t)
      BY <1>1, <1>2, <1>11, <1>33 DEF Leaves, Agree, Gains
    <3> QED  BY <3>1, WeighAdd DEF C
  <2>3. Weigh(W, usrsize', Before) = B
    <3>1. Agree(usrsize, usrsize', Before)
      BY <1>1, <1>11 DEF Leaves, Agree
    <3> QED  BY <3>1, WeighSame DEF B
  <2>4. /\ Weigh(W, sizeOf', AllocTable') = A - W[usrsize'[t]]
        /\ Weigh(W, usrsize', Before') = B
        /\ Weigh(W, usrsize', After') = C + W[usrsize'[t]]
    BY <1>11, <2>1, <2>2, <2>3, Zenon DEF Leaves
  <2>5. W[usrsize'[t]] \in Int
    BY <1>2
  <2> QED  BY <1>4, <1>5, <2>4, <2>5
<1>12. ASSUME Rests PROVE Due(W)' = Due(W)
  <2>1. /\ Weigh(W, sizeOf', AllocTable) = A
        /\ Weigh(W, usrsize', Before) = B
        /\ Weigh(W, usrsize', After) = C
    <3>1. Agree(sizeOf, sizeOf', AllocTable) /\ Agree(usrsize, usrsize', Before) /\ Agree(usrsize, usrsize', After)
      BY <1>12 DEF Rests, Agree
    <3> QED  BY <3>1, WeighSame DEF A, B, C
  <2>2. /\ Weigh(W, sizeOf', AllocTable') = A
        /\ Weigh(W, usrsize', Before') = B
        /\ Weigh(W, usrsize', After') = C
    BY <1>12, <2>1, Zenon DEF Rests
  <2> QED  BY <1>5, <2>2
<1> QED  BY <1>7, <1>8, <1>9, <1>10, <1>11, <1>12

\* A step of malloc or realloc is of one of these kinds (mc_register_memblk).
LEMMA MallocKinds ==
    ASSUME TInv, Own, Recorded, NEW t \in Threads,
           \/ Malloc(t) \/ RegisterRecord(t) \/ RegisterNoRecord(t) \/ RegisterFill(t) \/ RegisterAdd(t)
           \/ RegisterCount(t) \/ Realloc(t) \/ ReallocSize(t) \/ ReallocMalloc(t) \/ ReallocNoMemory(t)
    PROVE  \/ Rests /\ UNCHANGED stats
           \/ (\E r : Enters(t, r)) /\ UNCHANGED stats
           \/ Counts(t) /\ Account(usrsize[t], 1)
<1> USE DEF Before, After, AllocTable, Goto, libc, chains, records, ring, locals
<1>1. /\ sizeOf \in [Recs -> Nat] /\ usrsize \in [Threads -> Nat] /\ linked \subseteq used
      /\ pc \in [Threads -> Labels] /\ ARecs \subseteq Recs /\ AllocTable \subseteq Recs
  BY DEF TInv, TypeOK, Own, LinkedOK, Recs
<1>2. CASE Malloc(t) \/ ReallocMalloc(t)
  BY <1>1, <1>2 DEF Malloc, ReallocMalloc, Obtain, Rests
<1>3. CASE RegisterRecord(t)
  BY <1>1, <1>3 DEF RegisterRecord, Rests
<1>4. CASE RegisterNoRecord(t) \/ ReallocNoMemory(t)
  BY <1>1, <1>4 DEF RegisterNoRecord, ReallocNoMemory, MallocReturns, Rests
<1>5. CASE RegisterFill(t)
  BY <1>1, <1>5 DEF RegisterFill, Rests
<1>6. CASE RegisterAdd(t)
  <2>0. PICK r \in ARecs : r = arec[t]
    BY <1>6, CoreTypes DEF RegisterAdd, Core, HasARec
  <2>1. r \in Recs /\ r \notin linked /\ sizeOf[r] = usrsize[t]
    BY <1>6, <2>0 DEF RegisterAdd, Own, ARecOK, HasARec, Recorded, Recs
  <2>2. AllocTable' = AllocTable \cup {r} /\ r \notin AllocTable
    BY <1>6, <2>0, <2>1 DEF RegisterAdd, Link
  <2>3. t \notin Before /\ Before' = Before \cup {t} /\ After' = After
    BY <1>1, <1>6 DEF RegisterAdd
  <2>4. sizeOf' = sizeOf /\ usrsize' = usrsize /\ UNCHANGED stats
    BY <1>6 DEF RegisterAdd
  <2>5. Enters(t, r)
    BY <2>1, <2>2, <2>3, <2>4 DEF Enters
  <2> QED  BY <2>4, <2>5
<1>7. CASE RegisterCount(t)
  <2>1. t \in Before /\ Before' = Before \ {t} /\ After' = After /\ t \notin After
    <3>1. pc[t] = "count" /\ pc' = [pc EXCEPT ![t] = IF resume[t] = NULL THEN "idle" ELSE "unreg"]
      BY <1>7 DEF RegisterCount, MallocReturns
    <3> QED  BY <1>1, <3>1
  <2>2. AllocTable' = AllocTable /\ sizeOf' = sizeOf /\ \A u \in Threads \ {t} : usrsize'[u] = usrsize[u]
    BY <1>1, <1>7 DEF RegisterCount, MallocReturns
  <2> QED  BY <1>7, <2>1, <2>2 DEF Counts, RegisterCount
<1>8. CASE Realloc(t)
  BY <1>1, <1>8 DEF Realloc, Rests
<1>9. CASE ReallocSize(t)
  BY <1>1, <1>9 DEF ReallocSize, MallocReturns, Rests
<1> QED  BY <1>2, <1>3, <1>4, <1>5, <1>6, <1>7, <1>8, <1>9

\* A step of free is, as long as there is a free record (mc_unregister_memblk).
LEMMA FreeKinds ==
    ASSUME TInv, Own, NEW t \in Threads,
           \/ Free(t) \/ Unregister(t) \/ UnregisterUnknown(t) \/ FindFreed(t) \/ ReportBadFree(t)
           \/ CheckFreed(t) \/ FreeRecord(t) \/ Poison(t) \/ Quarantine(t) \/ DropRecord(t) \/ Retire(t)
           \/ RecheckFreed(t) \/ Evict(t) \/ DropFreed(t) \/ Release(t)
    PROVE  \/ Rests /\ UNCHANGED stats
           \/ (\E r : Leaves(t, r)) /\ UNCHANGED stats
           \/ Uncounts(t) /\ Account(usrsize[t], -1)
<1> USE DEF Before, After, AllocTable, Goto, libc, chains, records, ring, locals
<1>1. /\ sizeOf \in [Recs -> Nat] /\ usrsize \in [Threads -> Nat] /\ linked \subseteq used
      /\ pc \in [Threads -> Labels] /\ ARecs \cap FRecs = {} /\ AllocTable \subseteq Recs
  BY BlockTrackerAssumption DEF TInv, TypeOK, Own, LinkedOK, Recs
<1>2. CASE Free(t) \/ UnregisterUnknown(t) \/ FindFreed(t) \/ CheckFreed(t)
  BY <1>1, <1>2 DEF Free, UnregisterUnknown, FindFreed, CheckFreed, Rests
<1>3. CASE Unregister(t)
  <2>1. PICK r \in AllocTable : Unlink("alloc", r) /\ usrsize' = [usrsize EXCEPT ![t] = sizeOf[r]]
    BY <1>3 DEF Unregister, Found
  <2>2. AllocTable' = AllocTable \ {r}
    BY <2>1 DEF Unlink
  <2>3. t \notin After /\ After' = After \cup {t} /\ Before' = Before /\ t \notin Before
    <3>1. pc[t] = "unreg" /\ pc' = [pc EXCEPT ![t] = "check"]
      BY <1>3 DEF Unregister
    <3> QED  BY <1>1, <3>1
  <2>4. sizeOf' = sizeOf /\ UNCHANGED stats
    BY <1>3 DEF Unregister
  <2>5. usrsize'[t] = sizeOf[r] /\ \A u \in Threads \ {t} : usrsize'[u] = usrsize[u]
    BY <1>1, <2>1
  <2>6. Leaves(t, r)
    BY <2>1, <2>2, <2>3, <2>4, <2>5 DEF Leaves
  <2> QED  BY <2>4, <2>6
<1>4. CASE ReportBadFree(t) \/ Release(t)
  BY <1>1, <1>4 DEF ReportBadFree, Release, FreeReturns, Rests
<1>5. CASE FreeRecord(t)
  BY <1>1, <1>5 DEF FreeRecord, Rests
<1>6. CASE Poison(t) \/ DropRecord(t)
  BY <1>1, <1>6 DEF Poison, DropRecord, Rests
<1>7. CASE Quarantine(t)
  <2>1. frec[t] \in FRecs
    BY <1>7, CoreTypes DEF Quarantine, Core, HasFRec
  <2>2. AllocTable' = AllocTable
    BY <1>1, <1>7, <2>1 DEF Quarantine, Link
  <2> QED  BY <1>1, <1>7, <2>2 DEF Quarantine, Rests
<1>8. CASE Retire(t)
  <2>1. t \in After /\ After' = After \ {t} /\ Before' = Before /\ t \notin Before
    <3>1. pc[t] = "retire" /\ pc'[t] \in {"idle", "recheck"} /\ \A u \in Threads \ {t} : pc'[u] = pc[u]
      BY <1>1, <1>8 DEF Retire
    <3> QED  BY <1>1, <3>1
  <2>2. AllocTable' = AllocTable /\ sizeOf' = sizeOf /\ \A u \in Threads \ {t} : usrsize'[u] = usrsize[u]
    BY <1>1, <1>8 DEF Retire
  <2> QED  BY <1>8, <2>1, <2>2 DEF Uncounts, Retire
<1>9. CASE RecheckFreed(t) \/ DropFreed(t)
  BY <1>1, <1>9 DEF RecheckFreed, DropFreed, Rests
<1>10. CASE Evict(t)
  <2>1. AllocTable' = AllocTable
    BY <1>1, <1>10 DEF Evict, Unlink, Found, FreeTable
  <2> QED  BY <1>1, <1>10, <2>1 DEF Evict, Rests
<1> QED  BY <1>2, <1>3, <1>4, <1>5, <1>6, <1>7, <1>8, <1>9, <1>10

\* One update of the counters is one update of each weight.
LEMMA AccountWeights ==
    ASSUME TInv, NEW size \in Nat, NEW inc \in {1, -1}, Account(size, inc)
    PROVE  /\ num_alloc_memblk' = num_alloc_memblk + inc * One[size]
           /\ allocated_size' = allocated_size + inc * Size[size]
           /\ \A i \in 0..(HISTO_BINS - 1) : histogram'[i] = histogram[i] + inc * InBin(i)[size]
<1>1. histogram \in [0..(HISTO_BINS - 1) -> Int]
  BY DEF TInv, TypeOK
<1>2. num_alloc_memblk' = num_alloc_memblk + inc * One[size]
  BY DEF Account, One
<1>3. allocated_size' = allocated_size + inc * Size[size]
  BY DEF Account, Size
<1>4. ASSUME NEW i \in 0..(HISTO_BINS - 1)
      PROVE  histogram'[i] = histogram[i] + inc * InBin(i)[size]
  <2>1. histogram'[i] = IF i = Bin(size) THEN histogram[i] + inc ELSE histogram[i]
    BY DEF Account
  <2>2. InBin(i)[size] = IF Bin(size) = i THEN 1 ELSE 0
    BY DEF InBin
  <2> QED  BY <1>1, <2>1, <2>2
<1> QED  BY <1>2, <1>3, <1>4

\* Every step of the program and of the worker keeps the counters exact,
\* as long as the pool of free records has one to give.
LEMMA CountedStep ==
    ASSUME IsFiniteSet(Threads), IsFiniteSet(Recs), "free" \notin OomPools
    PROVE  TInv /\ Own /\ Recorded /\ CountedOK /\ [Next]_vars => CountedOK'
<1> SUFFICES ASSUME TInv, Own, Recorded, CountedOK, [Next]_vars PROVE CountedOK'
  OBVIOUS
<1>1. TInv'
  BY TypeStep
<1>2. /\ One \in [Nat -> Int] /\ Size \in [Nat -> Int]
      /\ \A i \in 0..(HISTO_BINS - 1) : InBin(i) \in [Nat -> Int]
  BY DEF One, Size, InBin
<1>3. ASSUME UNCHANGED stats, NEW t \in Threads, Rests \/ (\E r : Enters(t, r) \/ Leaves(t, r))
      PROVE  CountedOK'
  <2>1. \A W \in [Nat -> Int] : Due(W)' = Due(W)
    BY <1>1, <1>3, DueMoves
  <2>2. Due(One)' = Due(One) /\ Due(Size)' = Due(Size)
    BY <1>2, <2>1
  <2>3. \A i \in 0..(HISTO_BINS - 1) : Due(InBin(i))' = Due(InBin(i))
    BY <1>2, <2>1
  <2> QED  BY <1>3, <2>2, <2>3 DEF CountedOK, stats
<1>4. ASSUME NEW t \in Threads, NEW inc \in {1, -1}, Account(usrsize[t], inc),
             \A W \in [Nat -> Int] : Due(W)' = Due(W) + inc * W[usrsize[t]]
      PROVE  CountedOK'
  <2>1. usrsize[t] \in Nat
    BY DEF TInv, TypeOK
  <2>2. /\ num_alloc_memblk' = num_alloc_memblk + inc * One[usrsize[t]]
        /\ allocated_size' = allocated_size + inc * Size[usrsize[t]]
        /\ \A i \in 0..(HISTO_BINS - 1) : histogram'[i] = histogram[i] + inc * InBin(i)[usrsize[t]]
    BY <1>4, <2>1, AccountWeights
  <2>3. /\ Due(One)' = Due(One) + inc * One[usrsize[t]]
        /\ Due(Size)' = Due(Size) + inc * Size[usrsize[t]]
        /\ \A i \in 0..(HISTO_BINS - 1) : Due(InBin(i))' = Due(InBin(i)) + inc * InBin(i)[usrsize[t]]
    BY <1>2, <1>4
  <2> QED  BY <2>2, <2>3 DEF CountedOK
<1>5. ASSUME NEW t \in Threads, Counts(t), Account(usrsize[t], 1) PROVE CountedOK'
  <2>1. ASSUME NEW W \in [Nat -> Int] PROVE Due(W)' = Due(W) + 1 * W[usrsize[t]]
    <3>1. Due(W)' = Due(W) + W[usrsize[t]] /\ Due(W) \in Int
      BY <1>1, <1>5, DueMoves
    <3>2. W[usrsize[t]] \in Int
      BY DEF TInv, TypeOK
    <3> QED  BY <3>1, <3>2
  <2> QED  BY <1>4, <1>5, <2>1
<1>6. ASSUME NEW t \in Threads, Uncounts(t), Account(usrsize[t], -1) PROVE CountedOK'
  <2>1. ASSUME NEW W \in [Nat -> Int] PROVE Due(W)' = Due(W) + (-1) * W[usrsize[t]]
    <3>1. Due(W)' = Due(W) - W[usrsize[t]] /\ Due(W) \in Int
      BY <1>1, <1>6, DueMoves
    <3>2. W[usrsize[t]] \in Int
      BY DEF TInv, TypeOK
    <3> QED  BY <3>1, <3>2
  <2> QED  BY <1>4, <1>6, <2>1
<1>7. ASSUME NEW t \in Threads, Calls(t) \/ Inside(t) PROVE CountedOK'
  <2>1. ~ FreeNoRecord(t)
    BY DEF FreeNoRecord, MmapFails
  <2>2. CASE \/ Malloc(t) \/ RegisterRecord(t) \/ RegisterNoRecord(t) \/ RegisterFill(t) \/ RegisterAdd(t)
             \/ RegisterCount(t) \/ Realloc(t) \/ ReallocSize(t) \/ ReallocMalloc(t) \/ ReallocNoMemory(t)
    BY <1>3, <1>5, <2>2, MallocKinds
  <2>3. CASE \/ Free(t) \/ Unregister(t) \/ UnregisterUnknown(t) \/ FindFreed(t) \/ ReportBadFree(t)
             \/ CheckFreed(t) \/ FreeRecord(t) \/ Poison(t) \/ Quarantine(t) \/ DropRecord(t) \/ Retire(t)
             \/ RecheckFreed(t) \/ Evict(t) \/ DropFreed(t) \/ Release(t)
    BY <1>3, <1>6, <2>3, FreeKinds
  <2> QED  BY <1>7, <2>1, <2>2, <2>3 DEF Calls, Inside
<1>8. ASSUME UNCHANGED <<chains, records, locals, stats>> PROVE CountedOK'
  <2>1. PICK t \in Threads : TRUE
    BY BlockTrackerAssumption
  <2>2. Rests /\ UNCHANGED stats
    BY <1>8 DEF Rests, AllocTable, Before, After, chains, records, locals
  <2> QED  BY <1>3, <2>1, <2>2
<1>9. ASSUME NEW b \in Bufs, Scribble(b) PROVE CountedOK'
  BY <1>8, <1>9 DEF Scribble
<1>10. CASE CheckBegin \/ CheckAll
  BY <1>8, <1>10 DEF CheckBegin, CheckAll, CheckCompare, CheckRepair, CheckAdvance, CheckFreeTable, CheckEnd
<1>11. CASE UNCHANGED vars
  BY <1>8, <1>11 DEF vars
<1> QED
  BY <1>7, <1>9, <1>10, <1>11 DEF Next, AppNext

Binned(size, S, i) == Cardinality({x \in S : Bin(size[x]) = i})

\* The weights, on a finite set, are what the property counts and sums.
LEMMA Weights ==
    ASSUME NEW S, IsFiniteSet(S), NEW size, Sized(size, S)
    PROVE  /\ Weigh(One, size, S) = Cardinality(S)
           /\ Weigh(Size, size, S) = Sum(size, S)
           /\ \A i : Weigh(InBin(i), size, S) = Binned(size, S, i)
<1>1. \A x \in S : size[x] \in Nat
  BY DEF Sized
<1>2. Weigh(One, size, S) = Cardinality(S)
  <2> DEFINE w == [x \in S |-> One[size[x]]]
  <2>1. \A x \in S : w[x] = IF x \in S THEN 1 ELSE 0
    BY <1>1 DEF One
  <2> HIDE DEF w
  <2>2. Sum(w, S) = Cardinality(S \cap S)
    BY <2>1, SumCounts
  <2>3. S \cap S = S
    OBVIOUS
  <2> QED  BY <2>2, <2>3, Zenon DEF Weigh, w
<1>3. Weigh(Size, size, S) = Sum(size, S)
  <2> DEFINE w == [x \in S |-> Size[size[x]]]
  <2>1. \A x \in S : w[x] = size[x]
    BY <1>1 DEF Size
  <2>2. \A x \in S : size[x] \in Int
    BY <1>1
  <2>3. \A x \in S : size[x] = w[x]
    BY <2>1
  <2> HIDE DEF w
  <2>4. Sum(w, S) = Sum(size, S)
    BY <2>2, <2>3, SumSame
  <2> QED  BY <2>4, Zenon DEF Weigh, w
<1>4. ASSUME NEW i PROVE Weigh(InBin(i), size, S) = Binned(size, S, i)
  <2> DEFINE w == [x \in S |-> InBin(i)[size[x]]]
             P == {x \in S : Bin(size[x]) = i}
  <2>1. \A x \in S : w[x] = IF x \in P THEN 1 ELSE 0
    BY <1>1 DEF InBin
  <2>2. S \cap P = P
    OBVIOUS
  <2> HIDE DEF w, P
  <2>3. Sum(w, S) = Cardinality(S \cap P)
    BY <2>1, SumCounts
  <2>4. Weigh(InBin(i), size, S) = Cardinality(P)
    BY <2>2, <2>3, Zenon DEF Weigh, w
  <2> QED  BY <2>4 DEF P, Binned
<1> QED  BY <1>2, <1>3, <1>4

\* CountersAgree in every state, for any number of threads, blocks and records:
\* num_alloc_memblk, allocated_size and the histogram are exact up to the calls
\* under way, as long as no free fails for want of a record; one that does
\* leaves its block counted (memchk_manage_memblk.c:125-142, 170-204).
THEOREM CountersStayExact ==
    ASSUME IsFiniteSet(Threads), IsFiniteSet(Recs), "free" \notin OomPools
    PROVE  Spec => []CountersAgree
<1>1. SlotIsNull
  BY DEF SlotIsNull
<1>2. Init => Recorded /\ CountedOK
  <2> SUFFICES ASSUME Init PROVE Recorded /\ CountedOK
    OBVIOUS
  <2>1. Recorded
    BY DEF Init, Recorded
  <2>2. AllocTable = {} /\ Before = {} /\ After = {}
    BY DEF Init, AllocTable, Before, After
  <2>3. \A W, size : Weigh(W, size, {}) = 0
    BY SumEmpty DEF Weigh
  <2>4. \A W : Due(W) = 0
    BY <2>2, <2>3 DEF Due
  <2> QED  BY <2>1, <2>4 DEF Init, CountedOK
<1>3. TInv /\ CountedOK => CountersAgree
  <2> SUFFICES ASSUME TInv, CountedOK PROVE CountersAgree
    OBVIOUS
  <2>1. /\ AllocTable \subseteq Recs /\ Before \subseteq Threads /\ After \subseteq Threads
        /\ sizeOf \in [Recs -> Nat] /\ usrsize \in [Threads -> Nat]
    BY DEF AllocTable, Before, After, Recs, TInv, TypeOK
  <2>2. IsFiniteSet(AllocTable) /\ IsFiniteSet(Before) /\ IsFiniteSet(After)
    BY <2>1, FS_Subset
  <2>3. Sized(sizeOf, AllocTable) /\ Sized(usrsize, Before) /\ Sized(usrsize, After)
    BY <2>1 DEF Sized
  <2>4. num_alloc_memblk = Cardinality(AllocTable) - Cardinality(Before) + Cardinality(After)
    BY <2>2, <2>3, Weights DEF CountedOK, Due
  <2>5. allocated_size = Sum(sizeOf, AllocTable) - Sum(usrsize, Before) + Sum(usrsize, After)
    BY <2>2, <2>3, Weights DEF CountedOK, Due
  <2>6. ASSUME NEW i \in 0..(HISTO_BINS - 1)
        PROVE  histogram[i] = Binned(sizeOf, AllocTable, i) - Binned(usrsize, Before, i)
                              + Binned(usrsize, After, i)
    <3>1. /\ Weigh(InBin(i), sizeOf, AllocTable) = Binned(sizeOf, AllocTable, i)
          /\ Weigh(InBin(i), usrsize, Before) = Binned(usrsize, Before, i)
          /\ Weigh(InBin(i), usrsize, After) = Binned(usrsize, After, i)
      BY <2>2, <2>3, Weights
    <3> QED  BY <3>1 DEF CountedOK, Due
  <2> QED  BY <2>4, <2>5, <2>6, Zenon DEF CountersAgree, Before, After, Sum, Binned
<1> QED
  BY TypeInit, TypeStep, OwnInit, OwnStep, RecordedStep, CountedStep, <1>1, <1>2, <1>3, PTL DEF Spec

-----------------------------------------------------------------------------
(* BlockTracker implements BlockLife, for any sets of threads, blocks and    *)
(* records and any length of the ring. What BlockLife says of a block is     *)
(* read off where the block is: with a thread, in the alloc table or in the  *)
(* free table. Own says it is in one of these places.                        *)

Lives == [b \in Bufs |-> LifeOf(b)]

New(b) == \E t \in Threads : pc[t] \in {"reg", "fill", "add"} /\ usrptr[t] = b
InAlloc(b) == \E r \in linked \cap ARecs : ptrOf[r] = b
Closing(b) == \E t \in Threads : pc[t] \in {"check", "frec", "poison", "quarantine"} /\ usrptr[t] = b
InFree(b) == \E r \in linked \cap FRecs : ptrOf[r] = b
Leaving(b) == \E t \in Threads : \/ pc[t] = "unload" /\ ptrOf[frec[t]] = b
                                 \/ pc[t] = "release" /\ usrptr[t] = b

\* With nobody, and not given back.
Nowhere(b) ==
    b \in heap /\ ~New(b) /\ ~InAlloc(b) /\ ~Closing(b) /\ ~InFree(b) /\ ~Leaving(b)

\* A step leaves block b where it is.
Stays(b) ==
    /\ (b \in heap)' <=> b \in heap
    /\ New(b)' <=> New(b)
    /\ InAlloc(b)' <=> InAlloc(b)
    /\ Closing(b)' <=> Closing(b)
    /\ InFree(b)' <=> InFree(b)
    /\ Leaving(b)' <=> Leaving(b)

\* A block is in one place at most, and libc has none of those.
OnePlace(b) ==
    /\ New(b) \/ InAlloc(b) \/ Closing(b) \/ InFree(b) \/ Leaving(b) => b \in heap
    /\ New(b) => ~InAlloc(b) /\ ~Closing(b) /\ ~InFree(b) /\ ~Leaving(b)
    /\ InAlloc(b) => ~Closing(b) /\ ~InFree(b) /\ ~Leaving(b)
    /\ Closing(b) => ~InFree(b) /\ ~Leaving(b)
    /\ InFree(b) => ~Leaving(b)

LEMMA OwnOnePlace == Core /\ Own => \A b \in Bufs : OnePlace(b)
<1> SUFFICES ASSUME Core, Own, NEW b \in Bufs PROVE OnePlace(b)
  OBVIOUS
<1>0. b # NULL
  BY DEF Core
<1>1. \A t \in Threads : /\ pc[t] \in HoldsBlock \cup {"release"} => Carried(t) = usrptr[t]
                         /\ pc[t] = "unload" => Carried(t) = ptrOf[frec[t]]
  BY DEF Carried, HoldsBlock
<1>2. \A t \in Threads : Carried(t) = b =>
        /\ b \in heap
        /\ \A r \in linked : ptrOf[r] # b
        /\ \A u \in Threads : Carried(u) = b => u = t
  BY <1>0 DEF Own, CarriedOK
<1>3. /\ New(b) => \E t \in Threads : pc[t] \in {"reg", "fill", "add"} /\ Carried(t) = b
      /\ Closing(b) => \E t \in Threads : pc[t] \in {"check", "frec", "poison", "quarantine"} /\ Carried(t) = b
      /\ Leaving(b) => \E t \in Threads : pc[t] \in {"unload", "release"} /\ Carried(t) = b
  BY <1>1 DEF New, Closing, Leaving, HoldsBlock
<1>4. /\ InAlloc(b) \/ InFree(b) => b \in heap
      /\ ~(InAlloc(b) /\ InFree(b))
  BY DEF InAlloc, InFree, Core, Own, LinkedOK
<1>5. InAlloc(b) \/ InFree(b) => \E r \in linked : ptrOf[r] = b
  BY DEF InAlloc, InFree
<1> QED
  BY <1>2, <1>3, <1>4, <1>5 DEF OnePlace

\* LifeOf, place by place.
LEMMA LifeByPlace ==
    Core /\ Own => \A b \in Bufs :
        /\ b \notin heap => LifeOf(b) = "libc"
        /\ New(b) => LifeOf(b) = "new"
        /\ InAlloc(b) => LifeOf(b) = "tracked"
        /\ Closing(b) => LifeOf(b) = "closing"
        /\ InFree(b) => LifeOf(b) = "quarantined"
        /\ Leaving(b) => LifeOf(b) = "leaving"
        /\ Nowhere(b)
             => LifeOf(b) = "lost"
<1> SUFFICES ASSUME Core, Own, NEW b \in Bufs
             PROVE  /\ b \notin heap => LifeOf(b) = "libc"
                    /\ New(b) => LifeOf(b) = "new"
                    /\ InAlloc(b) => LifeOf(b) = "tracked"
                    /\ Closing(b) => LifeOf(b) = "closing"
                    /\ InFree(b) => LifeOf(b) = "quarantined"
                    /\ Leaving(b) => LifeOf(b) = "leaving"
                    /\ Nowhere(b)
                         => LifeOf(b) = "lost"
  OBVIOUS
<1> DEFINE at == {pc[t] : t \in {u \in Threads : Carried(u) = b}}
<1>0. b # NULL
  BY DEF Core
<1>1. at \cap {"reg", "fill", "add"} # {} <=> New(b)
  BY <1>0 DEF New, Carried
<1>2. at \cap {"check", "frec", "poison", "quarantine"} # {} <=> Closing(b)
  BY <1>0 DEF Closing, Carried
<1>3. at \cap {"unload", "release"} # {} <=> Leaving(b)
  BY <1>0 DEF Leaving, Carried
<1>4. Found(AllocTable, b) # {} <=> InAlloc(b)
  BY DEF Found, AllocTable, InAlloc
<1>5. Found(FreeTable, b) # {} <=> InFree(b)
  BY DEF Found, FreeTable, InFree
<1>6. LifeOf(b) = CASE b \notin heap -> "libc"
                    [] New(b) -> "new"
                    [] InAlloc(b) -> "tracked"
                    [] Closing(b) -> "closing"
                    [] InFree(b) -> "quarantined"
                    [] Leaving(b) -> "leaving"
                    [] OTHER -> "lost"
  <2> HIDE DEF at
  <2> QED
    BY <1>1, <1>2, <1>3, <1>4, <1>5 DEF LifeOf, at
<1>7. OnePlace(b)
  BY OwnOnePlace
<1> QED
  BY <1>6, <1>7 DEF OnePlace, Nowhere

\* The same after a step.
LEMMA LifeByPlaceNext ==
    (Core /\ Own)' => \A b \in Bufs :
        /\ (b \notin heap)' => LifeOf(b)' = "libc"
        /\ New(b)' => LifeOf(b)' = "new"
        /\ InAlloc(b)' => LifeOf(b)' = "tracked"
        /\ Closing(b)' => LifeOf(b)' = "closing"
        /\ InFree(b)' => LifeOf(b)' = "quarantined"
        /\ Leaving(b)' => LifeOf(b)' = "leaving"
        /\ Nowhere(b)'
             => LifeOf(b)' = "lost"
<1> DEFINE P == Core /\ Own => \A b \in Bufs :
        /\ b \notin heap => LifeOf(b) = "libc"
        /\ New(b) => LifeOf(b) = "new"
        /\ InAlloc(b) => LifeOf(b) = "tracked"
        /\ Closing(b) => LifeOf(b) = "closing"
        /\ InFree(b) => LifeOf(b) = "quarantined"
        /\ Leaving(b) => LifeOf(b) = "leaving"
        /\ Nowhere(b)
             => LifeOf(b) = "lost"
<1>1. P
  BY LifeByPlace
<1>2. P'
  <2> HIDE DEF P
  <2> QED
    BY <1>1, PTL
<1> QED
  BY <1>2

LEMMA OnePlaceNext == (Core /\ Own)' => \A b \in Bufs : OnePlace(b)'
<1> DEFINE P == Core /\ Own => \A b \in Bufs : OnePlace(b)
<1>1. P
  BY OwnOnePlace
<1>2. P'
  <2> HIDE DEF P
  <2> QED
    BY <1>1, PTL
<1> QED
  BY <1>2

\* A block that stays where it is keeps its life.
LEMMA StaysSame ==
    ASSUME Core, Own, (Core /\ Own)', NEW b \in Bufs, Stays(b)
    PROVE  LifeOf(b)' = LifeOf(b)
<1>1. CASE New(b)
  BY <1>1, LifeByPlace, LifeByPlaceNext DEF Stays
<1>2. CASE InAlloc(b)
  BY <1>2, LifeByPlace, LifeByPlaceNext DEF Stays
<1>3. CASE Closing(b)
  BY <1>3, LifeByPlace, LifeByPlaceNext DEF Stays
<1>4. CASE InFree(b)
  BY <1>4, LifeByPlace, LifeByPlaceNext DEF Stays
<1>5. CASE Leaving(b)
  BY <1>5, LifeByPlace, LifeByPlaceNext DEF Stays
<1>6. CASE b \notin heap
  BY <1>6, LifeByPlace, LifeByPlaceNext DEF Stays
<1>7. CASE Nowhere(b)
  BY <1>7, LifeByPlace, LifeByPlaceNext DEF Stays, Nowhere
<1> QED
  BY <1>1, <1>2, <1>3, <1>4, <1>5, <1>6, <1>7 DEF Nowhere

\* If every block but c stays, and c changes from one life to another, that
\* is a move of BlockLife.
LEMMA OneMoves ==
    ASSUME Core, Own, (Core /\ Own)', NEW c \in Bufs, \A b \in Bufs \ {c} : Stays(b)
    PROVE  Lives' = [Lives EXCEPT ![c] = LifeOf(c)'] /\ Lives[c] = LifeOf(c)
<1>1. \A b \in Bufs \ {c} : LifeOf(b)' = LifeOf(b)
  BY StaysSame
<1> QED
  BY <1>1 DEF Lives

LEMMA NoneMoves ==
    ASSUME Core, Own, (Core /\ Own)', \A b \in Bufs : Stays(b)
    PROVE  Lives' = Lives
<1>1. \A b \in Bufs : LifeOf(b)' = LifeOf(b)
  BY StaysSame
<1> QED
  BY <1>1 DEF Lives

-----------------------------------------------------------------------------
(* The steps that move no block. *)

\* Inside malloc and realloc, and at the start of a call, most steps move no block.
LEMMA CallsStay ==
    ASSUME NEW t \in Threads, Core, Own,
           RegisterRecord(t) \/ RegisterFill(t) \/ RegisterCount(t) \/ Realloc(t) \/ ReallocSize(t) \/ ReallocNoMemory(t) \/ Free(t)
    PROVE  \A b \in Bufs : Stays(b)
<1> USE DEF Core, Own, LinkedOK, ARecOK, FRecOK, HoldsFRec, HasARec, HasFRec, Recs, Labels, Stays,
        New, InAlloc, Closing, InFree, Leaving, Nowhere, libc, chains, records, ring, locals, Goto
<1>1. CASE RegisterRecord(t)
  BY <1>1 DEF RegisterRecord
<1>2. CASE RegisterFill(t)
  BY <1>2 DEF RegisterFill
<1>3. CASE RegisterCount(t)
  BY <1>3 DEF RegisterCount, MallocReturns
<1>4. CASE Realloc(t)
  BY <1>4 DEF Realloc
<1>5. CASE ReallocSize(t)
  BY <1>5 DEF ReallocSize, MallocReturns
<1>6. CASE ReallocNoMemory(t)
  BY <1>6 DEF ReallocNoMemory, MallocReturns
<1>7. CASE Free(t)
  BY <1>7 DEF Free
<1> QED
  BY <1>1, <1>2, <1>3, <1>4, <1>5, <1>6, <1>7

\* Inside free, most steps move no block; the record of a block may change hands.
LEMMA FreesStay ==
    ASSUME NEW t \in Threads, Core, Own,
           UnregisterUnknown(t) \/ FindFreed(t) \/ ReportBadFree(t) \/ CheckFreed(t) \/ FreeRecord(t) \/ Poison(t) \/ DropRecord(t) \/ Retire(t) \/ RecheckFreed(t) \/ DropFreed(t)
    PROVE  \A b \in Bufs : Stays(b)
<1> USE DEF Core, Own, LinkedOK, ARecOK, FRecOK, HoldsFRec, HasARec, HasFRec, Recs, Labels, Stays,
        New, InAlloc, Closing, InFree, Leaving, Nowhere, libc, chains, records, ring, locals, Goto
<1>1. CASE UnregisterUnknown(t)
  BY <1>1 DEF UnregisterUnknown
<1>2. CASE FindFreed(t)
  BY <1>2 DEF FindFreed
<1>3. CASE ReportBadFree(t)
  BY <1>3 DEF ReportBadFree, FreeReturns
<1>4. CASE CheckFreed(t)
  BY <1>4 DEF CheckFreed
<1>5. CASE FreeRecord(t)
  BY <1>5 DEF FreeRecord
<1>6. CASE Poison(t)
  BY <1>6 DEF Poison
<1>7. CASE DropRecord(t)
  BY <1>7 DEF DropRecord
<1>8. CASE Retire(t)
  BY <1>8 DEF Retire
<1>9. CASE RecheckFreed(t)
  BY <1>9 DEF RecheckFreed
<1>10. CASE DropFreed(t)
  BY <1>10 DEF DropFreed
<1> QED
  BY <1>1, <1>2, <1>3, <1>4, <1>5, <1>6, <1>7, <1>8, <1>9, <1>10
-----------------------------------------------------------------------------
(* The steps that move one block. *)

\* libc hands a block out, to malloc or to the malloc inside a realloc.
LEMMA ObtainMoves ==
    ASSUME NEW t \in Threads, Core, Own, Malloc(t) \/ ReallocMalloc(t)
    PROVE  \E c \in Bufs : (\A b \in Bufs \ {c} : Stays(b)) /\ c \notin heap /\ New(c)'
<1> USE DEF Core, Own, LinkedOK, CarriedOK, Carried, HoldsBlock, ARecOK, FRecOK, HoldsFRec, HasARec, HasFRec,
        Recs, Labels, Stays, New, InAlloc, Closing, InFree, Leaving, Nowhere, libc, chains, records, ring, locals, Goto
<1>1. PICK c \in Bufs \ heap :
        /\ heap' = heap \cup {c}
        /\ pc' = [pc EXCEPT ![t] = "reg"]
        /\ usrptr' = [usrptr EXCEPT ![t] = c]
        /\ UNCHANGED <<mem, chains, records, ring, stats, arec, frec, worker, oom>>
  BY DEF Malloc, ReallocMalloc, Obtain, Goto
<1>2. pc[t] \in {"idle", "more"}
  BY DEF Malloc, ReallocMalloc
<1>3. \A b \in Bufs \ {c} : Stays(b)
  BY <1>1, <1>2
<1>4. New(c)'
  BY <1>1
<1> QED
  BY <1>1, <1>3, <1>4

\* Without a record, malloc hands the block out untracked.
LEMMA LoseNewMoves ==
    ASSUME NEW t \in Threads, Core, Own, RegisterNoRecord(t)
    PROVE  \E c \in Bufs : (\A b \in Bufs \ {c} : Stays(b)) /\ New(c) /\ Nowhere(c)'
<1> USE DEF Core, Own, LinkedOK, CarriedOK, Carried, HoldsBlock, ARecOK, FRecOK, HoldsFRec, HasARec, HasFRec,
        Recs, Labels, Stays, New, InAlloc, Closing, InFree, Leaving, Nowhere, libc, chains, records, ring, locals, Goto
<1>1. PICK c \in Bufs : c = usrptr[t]
  BY DEF RegisterNoRecord
<1>2. \A b \in Bufs \ {c} : Stays(b)
  BY <1>1 DEF RegisterNoRecord, MallocReturns
<1>3. New(c)
  BY <1>1 DEF RegisterNoRecord
<1>4. Nowhere(c)'
  BY <1>1 DEF RegisterNoRecord, MallocReturns
<1> QED
  BY <1>1, <1>2, <1>3, <1>4

\* The block enters the alloc table.
LEMMA TrackMoves ==
    ASSUME NEW t \in Threads, Core, Own, RegisterAdd(t)
    PROVE  \E c \in Bufs : (\A b \in Bufs \ {c} : Stays(b)) /\ New(c) /\ InAlloc(c)'
<1> USE DEF Core, Own, LinkedOK, CarriedOK, Carried, HoldsBlock, ARecOK, FRecOK, HoldsFRec, HasARec, HasFRec,
        Recs, Labels, Stays, New, InAlloc, Closing, InFree, Leaving, Nowhere, libc, chains, records, ring, locals, Goto
<1>1. PICK c \in Bufs : c = usrptr[t]
  BY DEF RegisterAdd
<1>2. \A b \in Bufs \ {c} : Stays(b)
  BY <1>1 DEF RegisterAdd, Link
<1>3. New(c)
  BY <1>1 DEF RegisterAdd
<1>4. InAlloc(c)'
  BY <1>1 DEF RegisterAdd, Link
<1> QED
  BY <1>1, <1>2, <1>3, <1>4

\* The block leaves the alloc table, to the thread that frees it.
LEMMA CloseMoves ==
    ASSUME NEW t \in Threads, Core, Own, Unregister(t)
    PROVE  \E c \in Bufs : (\A b \in Bufs \ {c} : Stays(b)) /\ InAlloc(c) /\ Closing(c)'
<1> USE DEF Core, Own, LinkedOK, CarriedOK, Carried, HoldsBlock, ARecOK, FRecOK, HoldsFRec, HasARec, HasFRec,
        Recs, Labels, Stays, New, InAlloc, Closing, InFree, Leaving, Nowhere, libc, chains, records, ring, locals, Goto
<1>1. PICK c \in Bufs : c = usrptr[t]
  BY DEF Unregister, Unlink, Found, AllocTable
<1>2. \A b \in Bufs \ {c} : Stays(b)
  BY <1>1 DEF Unregister, Unlink, Found, AllocTable
<1>3. InAlloc(c)
  BY <1>1 DEF Unregister, Unlink, Found, AllocTable
<1>4. Closing(c)'
  BY <1>1 DEF Unregister, Unlink, Found, AllocTable
<1> QED
  BY <1>1, <1>2, <1>3, <1>4

\* Without a free record, nobody has the block any more.
LEMMA LoseClosingMoves ==
    ASSUME NEW t \in Threads, Core, Own, FreeNoRecord(t), SlotIsNull
    PROVE  \E c \in Bufs : (\A b \in Bufs \ {c} : Stays(b)) /\ Closing(c) /\ Nowhere(c)'
<1> USE DEF Core, Own, LinkedOK, CarriedOK, Carried, HoldsBlock, ARecOK, FRecOK, HoldsFRec, HasARec, HasFRec,
        Recs, Labels, Stays, New, InAlloc, Closing, InFree, Leaving, Nowhere, libc, chains, records, ring, locals, Goto
<1>1. PICK c \in Bufs : c = usrptr[t]
  BY DEF FreeNoRecord
<1>0. usrptr' = [usrptr EXCEPT ![t] = NULL]
  <2>1. Garbage = {NULL}
    BY DEF FreeNoRecord, MmapFails, SlotIsNull
  <2> QED
    BY <2>1 DEF FreeNoRecord
<1>2. \A b \in Bufs \ {c} : Stays(b)
  BY <1>1, <1>0 DEF FreeNoRecord
<1>3. Closing(c)
  BY <1>1 DEF FreeNoRecord
<1>4. Nowhere(c)'
  BY <1>1, <1>0 DEF FreeNoRecord
<1> QED
  BY <1>1, <1>2, <1>3, <1>4

\* The block enters the free table.
LEMMA HoldMoves ==
    ASSUME NEW t \in Threads, Core, Own, Quarantine(t)
    PROVE  \E c \in Bufs : (\A b \in Bufs \ {c} : Stays(b)) /\ Closing(c) /\ InFree(c)'
<1> USE DEF Core, Own, LinkedOK, CarriedOK, Carried, HoldsBlock, ARecOK, FRecOK, HoldsFRec, HasARec, HasFRec,
        Recs, Labels, Stays, New, InAlloc, Closing, InFree, Leaving, Nowhere, libc, chains, records, ring, locals, Goto
<1>1. PICK c \in Bufs : c = usrptr[t]
  BY DEF Quarantine
<1>2. \A b \in Bufs \ {c} : Stays(b)
  BY <1>1 DEF Quarantine, Link
<1>3. Closing(c)
  BY <1>1 DEF Quarantine
<1>4. InFree(c)'
  BY <1>1 DEF Quarantine, Link
<1> QED
  BY <1>1, <1>2, <1>3, <1>4

\* The record the ring gave up, and no other, leaves the free table.
LEMMA ExpelMoves ==
    ASSUME NEW t \in Threads, Core, Own, Evict(t)
    PROVE  \E c \in Bufs : (\A b \in Bufs \ {c} : Stays(b)) /\ InFree(c) /\ Leaving(c)'
<1> USE DEF Core, Own, LinkedOK, CarriedOK, Carried, HoldsBlock, ARecOK, FRecOK, HoldsFRec, HasARec, HasFRec,
        Recs, Labels, Stays, New, InAlloc, Closing, InFree, Leaving, Nowhere, libc, chains, records, ring, locals, Goto
<1>1. PICK c \in Bufs : c = ptrOf[frec[t]]
  BY DEF Evict, Unlink, Found, FreeTable
<1>2. \A b \in Bufs \ {c} : Stays(b)
  BY <1>1 DEF Evict, Unlink, Found, FreeTable
<1>3. InFree(c)
  BY <1>1 DEF Evict, Unlink, Found, FreeTable
<1>4. Leaving(c)'
  BY <1>1 DEF Evict, Unlink, Found, FreeTable
<1> QED
  BY <1>1, <1>2, <1>3, <1>4

\* The block goes back to libc; a NULL goes nowhere.
LEMMA ReturnMoves ==
    ASSUME NEW t \in Threads, Core, Own, Release(t)
    PROVE  \/ \A b \in Bufs : Stays(b)
           \/ \E c \in Bufs : (\A b \in Bufs \ {c} : Stays(b)) /\ Leaving(c) /\ (c \notin heap)'
<1> USE DEF Core, Own, LinkedOK, CarriedOK, Carried, HoldsBlock, ARecOK, FRecOK, HoldsFRec, HasARec, HasFRec,
        Recs, Labels, Stays, New, InAlloc, Closing, InFree, Leaving, Nowhere, libc, chains, records, ring, locals, Goto
<1>1. CASE usrptr[t] = NULL
  BY <1>1 DEF Release, FreeReturns
<1>2. CASE usrptr[t] # NULL
  <2>1. PICK c \in Bufs : c = usrptr[t]
    BY <1>2
  <2>2. \A b \in Bufs \ {c} : Stays(b)
    BY <2>1 DEF Release, FreeReturns
  <2>3. Leaving(c)
    BY <2>1 DEF Release
  <2>4. (c \notin heap)'
    BY <2>1 DEF Release
  <2> QED
    BY <2>2, <2>3, <2>4
<1> QED
  BY <1>1, <1>2
-----------------------------------------------------------------------------
(* How many blocks can be in quarantine: the free table has the records of   *)
(* the ring, and those a thread holds between its insertion and its eviction.*)

RingOrHands ==
    \A r \in linked \cap FRecs :
        \/ \E i \in 0..(FifoSize - 1) : free_memblk_array[i] = r
        \/ \E t \in Threads : pc[t] \in {"drop", "retire", "recheck", "evict"} /\ frec[t] = r

\* Every step keeps RingOrHands: Retire takes the oldest record out of the ring
\* into the hands of the thread that puts its own in.
LEMMA RingOrHandsStep == TInv /\ Own /\ RingOrHands /\ [Next]_vars => RingOrHands'
<1> SUFFICES ASSUME TInv, Own, RingOrHands, [Next]_vars PROVE RingOrHands'
  OBVIOUS
<1>1. Core
  BY CoreTypes
<1>2. ASSUME NEW t \in Threads, Malloc(t) \/ RegisterRecord(t) \/ RegisterNoRecord(t) \/ RegisterFill(t)
                 \/ RegisterCount(t) \/ Realloc(t) \/ ReallocSize(t) \/ ReallocMalloc(t) \/ ReallocNoMemory(t)
      PROVE  RingOrHands'
  <2>1. /\ UNCHANGED <<chains, ring, frec>>
        /\ pc[t] \notin {"drop", "retire", "recheck", "evict"}
        /\ \A u \in Threads \ {t} : pc'[u] = pc[u]
    BY <1>1, <1>2 DEF Core, Malloc, Obtain, RegisterRecord, RegisterNoRecord, RegisterFill, RegisterCount,
        Realloc, ReallocSize, ReallocMalloc, ReallocNoMemory, MallocReturns, Goto
  <2> QED
    BY <2>1 DEF RingOrHands, chains, ring
<1>3. ASSUME NEW t \in Threads, RegisterAdd(t) \/ Quarantine(t) PROVE RingOrHands'
  <2>1. CASE RegisterAdd(t)
    BY <1>1, <2>1 DEF RegisterAdd, Link, Core, HasARec, RingOrHands, Goto, ring
  <2>2. CASE Quarantine(t)
    BY <1>1, <2>2 DEF Quarantine, Link, Core, HasFRec, RingOrHands, Goto, ring
  <2> QED
    BY <1>3, <2>1, <2>2
<1>4. ASSUME NEW t \in Threads, Free(t) \/ UnregisterUnknown(t) \/ FindFreed(t) \/ ReportBadFree(t)
                 \/ CheckFreed(t) \/ FreeRecord(t) \/ FreeNoRecord(t) \/ Poison(t) \/ DropFreed(t) \/ Release(t)
      PROVE  RingOrHands'
  <2>1. /\ UNCHANGED <<chains, ring>>
        /\ pc[t] \notin {"drop", "retire", "recheck", "evict"}
        /\ \A u \in Threads \ {t} : pc'[u] = pc[u] /\ frec'[u] = frec[u]
    BY <1>1, <1>4 DEF Core, Free, UnregisterUnknown, FindFreed, ReportBadFree, CheckFreed, FreeRecord,
        FreeNoRecord, Poison, DropFreed, Release, FreeReturns, Goto
  <2> QED
    BY <2>1 DEF RingOrHands, chains, ring
<1>5. ASSUME NEW t \in Threads, Unregister(t) PROVE RingOrHands'
  BY <1>1, <1>5 DEF Unregister, Unlink, Core, RingOrHands, Goto, ring
<1>6. ASSUME NEW t \in Threads, DropRecord(t) \/ RecheckFreed(t) PROVE RingOrHands'
  BY <1>1, <1>6 DEF DropRecord, RecheckFreed, Core, RingOrHands, Goto, ring, chains
<1>7. ASSUME NEW t \in Threads, Retire(t) PROVE RingOrHands'
  BY <1>1, <1>7 DEF Retire, Core, HasFRec, RingOrHands, Goto, chains
<1>8. ASSUME NEW t \in Threads, Evict(t) PROVE RingOrHands'
  BY <1>1, <1>8 DEF Evict, Unlink, Found, FreeTable, Core, HasFRec, Own, LinkedOK, FRecOK, HoldsFRec,
      RingOrHands, Goto, ring
<1>9. ASSUME UNCHANGED <<chains, ring, locals>> PROVE RingOrHands'
  BY <1>9 DEF RingOrHands, chains, ring, locals
<1>10. ASSUME NEW b \in Bufs, Scribble(b) PROVE RingOrHands'
  BY <1>9, <1>10 DEF Scribble
<1>11. CASE CheckBegin \/ CheckAll
  BY <1>9, <1>11 DEF CheckBegin, CheckAll, CheckCompare, CheckRepair, CheckAdvance, CheckFreeTable, CheckEnd
<1>12. CASE UNCHANGED vars
  BY <1>9, <1>12 DEF vars
<1> QED
  BY <1>2, <1>3, <1>4, <1>5, <1>6, <1>7, <1>8, <1>10, <1>11, <1>12 DEF Next, AppNext, Calls, Inside

\* The values of a function on a finite set are no more than its arguments.
LEMMA ValuesBound ==
    ASSUME NEW S, IsFiniteSet(S), NEW f
    PROVE  /\ IsFiniteSet({f[x] : x \in S})
           /\ Cardinality({f[x] : x \in S}) <= Cardinality(S)
<1> DEFINE T == {f[x] : x \in S}
           g == [x \in S |-> f[x]]
<1>1. g \in Surjection(S, T)
  BY DEF Surjection
<1> QED
  BY <1>1, FS_Surjection

\* A thread about to add a block to the free table finds room in the quarantine
\* of BlockLife: none of the records there is in its hands.
LEMMA RoomInQuarantine ==
    ASSUME Core, Own, RingOrHands, IsFiniteSet(Threads), NEW t \in Threads, pc[t] = "quarantine"
    PROVE  Cardinality({b \in Bufs : Lives[b] = "quarantined"}) < FifoSize + Cardinality(Threads)
<1> DEFINE slots == 0..(FifoSize - 1)
           others == Threads \ {t}
           inRing == {free_memblk_array[i] : i \in slots}
           inHands == {frec[u] : u \in others}
           blocks == {ptrOf[r] : r \in inRing \cup inHands}
           held == {b \in Bufs : Lives[b] = "quarantined"}
<1>1. held \subseteq blocks
  <2> SUFFICES ASSUME NEW b \in Bufs, LifeOf(b) = "quarantined" PROVE b \in blocks
    BY DEF Lives
  <2>1. InFree(b)
    BY LifeByPlace DEF Nowhere
  <2>2. PICK r \in linked \cap FRecs : ptrOf[r] = b
    BY <2>1 DEF InFree
  <2>3. r \in inRing \/ r \in inHands
    BY <2>2 DEF RingOrHands
  <2> QED
    BY <2>2, <2>3
<1>2. IsFiniteSet(slots) /\ Cardinality(slots) = FifoSize
  BY BlockTrackerAssumption, FS_Interval
<1>3. IsFiniteSet(others) /\ Cardinality(others) = Cardinality(Threads) - 1
  BY FS_RemoveElement
<1>4. IsFiniteSet(inRing) /\ Cardinality(inRing) <= FifoSize
  <2> HIDE DEF slots
  <2> QED
    BY <1>2, ValuesBound
<1>5. IsFiniteSet(inHands) /\ Cardinality(inHands) <= Cardinality(Threads) - 1
  <2> HIDE DEF others
  <2> QED
    BY <1>3, ValuesBound
<1> HIDE DEF inRing, inHands, slots, others
<1>6. /\ IsFiniteSet(inRing \cup inHands)
      /\ Cardinality(inRing \cup inHands)
            = Cardinality(inRing) + Cardinality(inHands) - Cardinality(inRing \cap inHands)
  BY <1>4, <1>5, FS_Union
<1>7. Cardinality(inRing \cap inHands) \in Nat
  BY <1>4, FS_Intersection, FS_CardinalityType
<1>8. /\ IsFiniteSet(blocks)
      /\ Cardinality(blocks) <= Cardinality(inRing \cup inHands)
  <2> DEFINE both == inRing \cup inHands
  <2>1. IsFiniteSet(both)
    BY <1>6
  <2> HIDE DEF both
  <2>2. /\ IsFiniteSet({ptrOf[r] : r \in both})
        /\ Cardinality({ptrOf[r] : r \in both}) <= Cardinality(both)
    BY <2>1, ValuesBound
  <2> QED
    BY <2>2 DEF both
<1> HIDE DEF blocks, held
<1>9. Cardinality(held) <= Cardinality(blocks)
  BY <1>1, <1>8, FS_Subset
<1>10. /\ Cardinality(held) \in Nat /\ Cardinality(blocks) \in Nat /\ Cardinality(Threads) \in Nat
       /\ Cardinality(inRing) \in Nat /\ Cardinality(inHands) \in Nat
       /\ Cardinality(inRing \cup inHands) \in Nat
  BY <1>1, <1>4, <1>5, <1>6, <1>8, FS_Subset, FS_CardinalityType
<1>11. Cardinality(held) < FifoSize + Cardinality(Threads)
  BY <1>4, <1>5, <1>6, <1>7, <1>8, <1>9, <1>10, BlockTrackerAssumption
<1> QED
  BY <1>11 DEF held

-----------------------------------------------------------------------------

\* Every step of the program and of the worker is a step of BlockLife, or none.
LEMMA LifeStep ==
    ASSUME TInv, Own, RingOrHands, SlotIsNull, IsFiniteSet(Threads), TInv', Own', [Next]_vars
    PROVE  Life!Next \/ Lives' = Lives
<1>1. Core /\ Own /\ (Core /\ Own)'
  <2>1. (TInv => Core)'
    BY CoreTypes, PTL
  <2> QED
    BY <2>1, CoreTypes
<1>2. ASSUME \A b \in Bufs : Stays(b) PROVE Lives' = Lives
  BY <1>1, <1>2, NoneMoves
<1>3. ASSUME NEW c \in Bufs, NEW from, NEW to, \A b \in Bufs \ {c} : Stays(b),
             LifeOf(c) = from, LifeOf(c)' = to
      PROVE  Life!Move(c, from, to)
  BY <1>1, <1>3, OneMoves DEF Life!Move, Lives
<1>4. ASSUME NEW t \in Threads, Malloc(t) \/ ReallocMalloc(t) PROVE Life!Next
  <2>1. PICK c \in Bufs : (\A b \in Bufs \ {c} : Stays(b)) /\ c \notin heap /\ New(c)'
    BY <1>1, <1>4, ObtainMoves
  <2> QED
    BY <1>1, <1>3, <2>1, LifeByPlace, LifeByPlaceNext DEF Life!Next, Life!Obtain
<1>5. ASSUME NEW t \in Threads, RegisterNoRecord(t) PROVE Life!Next
  <2>1. PICK c \in Bufs : (\A b \in Bufs \ {c} : Stays(b)) /\ New(c) /\ Nowhere(c)'
    BY <1>1, <1>5, LoseNewMoves
  <2> QED
    BY <1>1, <1>3, <2>1, LifeByPlace, LifeByPlaceNext DEF Life!Next, Life!Lose
<1>6. ASSUME NEW t \in Threads, RegisterAdd(t) PROVE Life!Next
  <2>1. PICK c \in Bufs : (\A b \in Bufs \ {c} : Stays(b)) /\ New(c) /\ InAlloc(c)'
    BY <1>1, <1>6, TrackMoves
  <2> QED
    BY <1>1, <1>3, <2>1, LifeByPlace, LifeByPlaceNext DEF Life!Next, Life!Track
<1>7. ASSUME NEW t \in Threads, Unregister(t) PROVE Life!Next
  <2>1. PICK c \in Bufs : (\A b \in Bufs \ {c} : Stays(b)) /\ InAlloc(c) /\ Closing(c)'
    BY <1>1, <1>7, CloseMoves
  <2> QED
    BY <1>1, <1>3, <2>1, LifeByPlace, LifeByPlaceNext DEF Life!Next, Life!Close
<1>8. ASSUME NEW t \in Threads, FreeNoRecord(t) PROVE Life!Next
  <2>1. PICK c \in Bufs : (\A b \in Bufs \ {c} : Stays(b)) /\ Closing(c) /\ Nowhere(c)'
    BY <1>1, <1>8, LoseClosingMoves
  <2> QED
    BY <1>1, <1>3, <2>1, LifeByPlace, LifeByPlaceNext DEF Life!Next, Life!Lose
<1>9. ASSUME NEW t \in Threads, Quarantine(t) PROVE Life!Next
  <2>1. PICK c \in Bufs : (\A b \in Bufs \ {c} : Stays(b)) /\ Closing(c) /\ InFree(c)'
    BY <1>1, <1>9, HoldMoves
  <2>2. Life!Move(c, "closing", "quarantined")
    BY <1>1, <1>3, <2>1, LifeByPlace, LifeByPlaceNext
  <2>3. Cardinality({b \in Bufs : Lives[b] = "quarantined"}) < FifoSize + Cardinality(Threads)
    BY <1>1, <1>9, RoomInQuarantine DEF Quarantine
  <2> QED
    BY <2>2, <2>3 DEF Life!Next, Life!Hold, Life!Quarantined, Lives, Life!Cardinality, Cardinality
<1>10. ASSUME NEW t \in Threads, Evict(t) PROVE Life!Next
  <2>1. PICK c \in Bufs : (\A b \in Bufs \ {c} : Stays(b)) /\ InFree(c) /\ Leaving(c)'
    BY <1>1, <1>10, ExpelMoves
  <2> QED
    BY <1>1, <1>3, <2>1, LifeByPlace, LifeByPlaceNext DEF Life!Next, Life!Expel
<1>11. ASSUME NEW t \in Threads, Release(t) PROVE Life!Next \/ Lives' = Lives
  <2>1. ASSUME NEW c \in Bufs, \A b \in Bufs \ {c} : Stays(b), Leaving(c), (c \notin heap)' PROVE Life!Next
    BY <1>1, <1>3, <2>1, LifeByPlace, LifeByPlaceNext DEF Life!Next, Life!Return
  <2> QED
    BY <1>1, <1>2, <1>11, <2>1, ReturnMoves
<1>12. ASSUME NEW t \in Threads, Calls(t) \/ Inside(t) PROVE Life!Next \/ Lives' = Lives
  BY <1>1, <1>2, <1>4, <1>5, <1>6, <1>7, <1>8, <1>9, <1>10, <1>11, <1>12, CallsStay, FreesStay DEF Calls, Inside
<1>13. ASSUME UNCHANGED <<heap, chains, records, locals>> PROVE Lives' = Lives
  <2>1. \A b \in Bufs : Stays(b)
    BY <1>13 DEF Stays, New, InAlloc, Closing, InFree, Leaving, chains, records, locals
  <2> QED
    BY <1>2, <2>1
<1>14. ASSUME NEW b \in Bufs, Scribble(b) PROVE Lives' = Lives
  BY <1>13, <1>14 DEF Scribble
<1>15. CASE CheckBegin \/ CheckAll
  BY <1>13, <1>15 DEF CheckBegin, CheckAll, CheckCompare, CheckRepair, CheckAdvance, CheckFreeTable, CheckEnd, libc
<1>16. CASE UNCHANGED vars
  BY <1>13, <1>16 DEF vars, libc
<1> QED
  BY <1>12, <1>14, <1>15, <1>16 DEF Next, AppNext

\* LifeSpec for any number of threads, blocks and records, failures included:
\* a block is tracked until one free of it, held in quarantine, given back to
\* libc once and never handled otherwise (memchk_manage_memblk.c:103-219,
\* memchk_hook.c:48-79).
THEOREM TrackerImplementsLife == ASSUME SlotIsNull, IsFiniteSet(Threads) PROVE Spec => LifeSpec
<1>1. Init => RingOrHands /\ Life!Init
  <2> SUFFICES ASSUME Init PROVE RingOrHands /\ Life!Init
    OBVIOUS
  <2>1. \A b \in Bufs : LifeOf(b) = "libc"
    BY TypeInit, CoreTypes, OwnInit, LifeByPlace DEF Init
  <2>2. RingOrHands
    BY DEF Init, RingOrHands
  <2> QED
    BY <2>1, <2>2 DEF Life!Init
<1>2. TInv /\ Own /\ RingOrHands /\ TInv' /\ Own' /\ [Next]_vars => [Life!Next]_[b \in Bufs |-> LifeOf(b)]
  BY LifeStep DEF Lives
<1> QED
  BY TypeInit, TypeStep, OwnInit, OwnStep, RingOrHandsStep, <1>1, <1>2, PTL DEF Spec, LifeSpec, Life!Spec
=============================================================================
