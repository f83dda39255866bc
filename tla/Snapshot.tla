------------------------------- MODULE Snapshot -------------------------------
(*****************************************************************************)
(* The commands that work on copies of the alloc table: the listings, the    *)
(* snapshot and the comparison with it (memchk_snapshot.c, the entry points  *)
(* at the end of memchk_manage_memblk.c, and the lists of blocks of one      *)
(* callstack in memchk_callstack.c).                                         *)
(*                                                                           *)
(* The worker copies a table under the lock of the hash tables, pairs the    *)
(* blocks of two copies without it, prints what is left and gives the copies *)
(* back. Threads of the program meanwhile take records from the same pool,   *)
(* put them on the alloc table, and remove and free them.                    *)
(*****************************************************************************)
EXTENDS Integers, FiniteSets, FiniteSetsExt, Functions, Sequences

CONSTANTS
    Threads,    \* threads of the program
    Recs,       \* struct alloc_memblk records of the pool
    Ptrs,       \* user pointers
    Sizes,      \* usrsize values
    Callstacks, \* entries of mc_callstack_hashtable
    MaxAdds,    \* bound: blocks the program allocates in a behaviour
    MaxOom,     \* bound: at most MaxOom calls of mmap fail in a behaviour
    NULL,
    Choice(_)   \* the records of a set of free ones that the pool may hand out

ASSUME SnapshotAssumption ==
    /\ IsFiniteSet(Recs)
    /\ NULL \notin Recs \cup Ptrs \cup Callstacks
    /\ Sizes \subseteq Nat
    /\ MaxAdds \in Nat /\ MaxOom \in Nat
    /\ \A S \in SUBSET Recs : Choice(S) \subseteq S

\* The table of the program's blocks, its copy, the snapshot and its copy.
Tables == {"alloc", "copy", "snapshot", "snapshot_copy"}
Copies == {"copy", "snapshot_copy"}
Source == [copy |-> "alloc", snapshot |-> "alloc", snapshot_copy |-> "snapshot"]

\* LINK_CURRENT and LINK_SNAPSHOT, named by the table whose blocks they link.
LINK == [copy |-> "LINK_CURRENT", snapshot_copy |-> "LINK_SNAPSHOT"]
Links == {"LINK_CURRENT", "LINK_SNAPSHOT"}

VARIABLES
    used,                           \* records taken from the pool
    ptrOf, sizeOf, allocator,       \* memptr.ptr, usrsize and allocator of a record
    hash_next, head,                \* the chain of a table (all pointers in one bucket)
    same_callstack_group_prev, same_callstack_group_next, \* of a record
    group,                          \* same_callstack_group_next[LINK_MAX] of a callstack
    ptr_mtx,                        \* __ptr_mtx is held by the worker across its steps
    apc, arec,                      \* locals of the threads
    todo,                           \* operations the worker's command still has to do
    at, cursor, lagging,            \* the worker's place, its walk, what it frees an iteration late
    num_remainings,                 \* of the current copy and of the snapshot's
    maps_uses,                      \* file maps the worker holds
    adds, oom,                      \* blocks allocated and failures so far
    moment, whole                   \* ghosts: what a copy must hold; the snapshot did not fail

pool    == <<used, ptrOf, sizeOf, allocator>>
chains  == <<hash_next, head>>
groups  == <<same_callstack_group_prev, same_callstack_group_next, group>>
threads == <<apc, arec, adds>>
walk    == <<cursor, lagging, num_remainings>>
ghosts  == <<moment, whole>>
vars == <<pool, chains, groups, ptr_mtx, threads, todo, at, walk, maps_uses, oom, ghosts>>

-----------------------------------------------------------------------------
(* Chains *)

\* The records reached from a head, in order; cut where a chain would close.
Path(start, next) ==
    LET p[n \in 0..Cardinality(Recs)] ==
            [r \in Recs \cup {NULL} |->
                IF r = NULL \/ n = 0 THEN <<>> ELSE <<r>> \o p[n - 1][next[r]]]
    IN  p[Cardinality(Recs)][start]

Reached(start, next) == Range(Path(start, next))

\* The first record of S on the way, or NULL.
FirstOf(start, next, S) ==
    LET path == Path(start, next)
        hits == {i \in DOMAIN path : path[i] \in S}
    IN  IF hits = {} THEN NULL ELSE path[Min(hits)]

Members(k) == Reached(head[k], hash_next)
Group(c, l) == Reached(group[c][l], same_callstack_group_next)

\* mc_find_ptr_hashtable.
Find(k, p) == FirstOf(head[k], hash_next, {r \in Recs : ptrOf[r] = p})

\* What a table says of the program's blocks.
Block(r) == [ptr |-> ptrOf[r], size |-> sizeOf[r], allocator |-> allocator[r]]
Blocks(S) == {Block(r) : r \in S}

-----------------------------------------------------------------------------
(* What each command does, in order *)

Do(op, k) == [op |-> op, on |-> k]

\* The end of a comparison, which a failure inside it does not skip.
Cleanup == <<Do("destroy", "copy"), Do("destroy", "snapshot_copy")>>

Compare(print) ==
    <<Do("duplicate", "copy"), Do("duplicate", "snapshot_copy"),
      Do("link", "copy"), Do("link", "snapshot_copy"), Do("offset", "copy"),
      Do("init_maps", "copy")>> \o print \o
    <<Do("term_maps", "copy"), Do("reset", "copy"), Do("reset", "snapshot_copy")>>
      \o Cleanup

\* mc_create_snapshot: the earlier snapshot goes first.
Create_KeepOld == <<Do("duplicate", "snapshot")>>

Create == <<Do("destroy", "snapshot"), Do("duplicate", "snapshot")>>

Script == [
    list |->
        <<Do("duplicate", "copy"), Do("init_maps", "copy"), Do("print", "copy"),
          Do("term_maps", "copy"), Do("destroy", "copy")>>,
    list_per_callstack |->
        <<Do("duplicate", "copy"), Do("link", "copy"), Do("init_maps", "copy"),
          Do("print", "copy"), Do("term_maps", "copy"), Do("reset", "copy"),
          Do("destroy", "copy")>>,
    create |-> Create,
    destroy |-> <<Do("destroy", "snapshot")>>,
    compare |-> Compare(<<Do("print", "copy"), Do("print", "snapshot_copy")>>),
    compare_per_callstack |-> Compare(<<Do("print_callstacks", "copy")>>)]

Commands == DOMAIN Script
Ops == {"duplicate", "destroy", "link", "offset", "print", "print_callstacks",
        "init_maps", "term_maps", "reset"}
Steps == [op : Ops, on : Tables]

On(op) == todo # <<>> /\ Head(todo).op = op
Table == Head(todo).on

\* The counts are locals of the comparison: gone when it returns.
NoRemainings == [k \in Copies |-> 0]

-----------------------------------------------------------------------------

TypeOK ==
    /\ used \subseteq Recs
    /\ ptrOf \in [Recs -> Ptrs \cup {NULL}]
    /\ sizeOf \in [Recs -> Nat]
    /\ allocator \in [Recs -> Callstacks \cup {NULL}]
    /\ hash_next \in [Recs -> Recs \cup {NULL}]
    /\ head \in [Tables -> Recs \cup {NULL}]
    /\ same_callstack_group_prev \in [Recs -> Recs \cup {NULL}]
    /\ same_callstack_group_next \in [Recs -> Recs \cup {NULL}]
    /\ group \in [Callstacks -> [Links -> Recs \cup {NULL}]]
    /\ ptr_mtx \in BOOLEAN
    /\ apc \in [Threads -> {"idle", "add", "put"}]
    /\ arec \in [Threads -> Recs \cup {NULL}]
    /\ todo \in Seq(Steps)
    /\ at \in {"start", "walk", "free", "pair", "advance"}
    /\ cursor \in Recs \cup {NULL}
    /\ lagging \subseteq Recs
    /\ num_remainings \in [Copies -> Nat]
    /\ maps_uses \in Nat
    /\ adds \in 0..MaxAdds /\ oom \in 0..MaxOom
    /\ \A k \in {"copy", "snapshot"} :
        moment[k] \subseteq [ptr : Ptrs, size : Sizes, allocator : Callstacks]
    /\ whole \in BOOLEAN

Init ==
    /\ used = {}
    /\ ptrOf = [r \in Recs |-> NULL] /\ sizeOf = [r \in Recs |-> 0]
    /\ allocator = [r \in Recs |-> NULL]
    /\ hash_next = [r \in Recs |-> NULL] /\ head = [k \in Tables |-> NULL]
    /\ same_callstack_group_prev = [r \in Recs |-> NULL]
    /\ same_callstack_group_next = [r \in Recs |-> NULL]
    /\ group = [c \in Callstacks |-> [l \in Links |-> NULL]]
    /\ ptr_mtx = FALSE
    /\ apc = [t \in Threads |-> "idle"] /\ arec = [t \in Threads |-> NULL]
    /\ todo = <<>> /\ at = "start" /\ cursor = NULL /\ lagging = {}
    /\ num_remainings = NoRemainings
    /\ maps_uses = 0
    /\ adds = 0 /\ oom = 0
    /\ moment = [k \in {"copy", "snapshot"} |-> {}]
    /\ whole = TRUE

-----------------------------------------------------------------------------
(* The pool and the tables *)

\* mc_allocate_alloc_memblk.
Allocate(r) == r \in Choice(Recs \ used) /\ used' = used \cup {r}

\* What the caller makes of the record.
Fill(r, b) ==
    /\ ptrOf' = [ptrOf EXCEPT ![r] = b.ptr]
    /\ sizeOf' = [sizeOf EXCEPT ![r] = b.size]
    /\ allocator' = [allocator EXCEPT ![r] = b.allocator]

\* mc_free_alloc_memblk. The pool leaves the record as it is; the model clears
\* it, so that a reader of a freed record (WalkOnOwnRecords, GroupsAgree) finds
\* nothing in it.
Release(S) ==
    LET Clear(f, none) == [r \in Recs |-> IF r \in S THEN none ELSE f[r]]
    IN  /\ used' = used \ S
        /\ ptrOf' = Clear(ptrOf, NULL)
        /\ sizeOf' = Clear(sizeOf, 0)
        /\ allocator' = Clear(allocator, NULL)
        /\ hash_next' = Clear(hash_next, NULL)
        /\ same_callstack_group_prev' = Clear(same_callstack_group_prev, NULL)
        /\ same_callstack_group_next' = Clear(same_callstack_group_next, NULL)

\* mc_add_ptr_hashtable.
Add(k, r) ==
    /\ hash_next' = [hash_next EXCEPT ![r] = head[k]]
    /\ head' = [head EXCEPT ![k] = r]

\* mc_remove_ptr_hashtable of the records gone[k], at most one of each table:
\* the predecessor is linked past the node, which keeps its own hash_next.
Remove(gone) ==
    LET found == {k \in DOMAIN gone : gone[k] # NULL}
        before == {q \in UNION {Members(k) : k \in found} :
                     \E k \in found : hash_next[q] = gone[k]}
    IN  /\ head' = [k \in Tables |-> IF k \in found /\ head[k] = gone[k]
                                     THEN hash_next[gone[k]] ELSE head[k]]
        /\ hash_next' = [q \in Recs |->
                IF q \in before THEN hash_next[hash_next[q]] ELSE hash_next[q]]

-----------------------------------------------------------------------------
(* Threads of the program: mc_register_memblk and mc_unregister_memblk, as   *)
(* far as they touch the alloc table and the pool                            *)

AppAllocate(t) ==
    /\ apc[t] = "idle"
    /\ adds < MaxAdds /\ adds' = adds + 1
    /\ \E r \in Recs : Allocate(r) /\ arec' = [arec EXCEPT ![t] = r]
    /\ apc' = [apc EXCEPT ![t] = "add"]
    /\ UNCHANGED <<ptrOf, sizeOf, allocator, chains, groups, ptr_mtx, todo, at, walk, maps_uses, oom, ghosts>>

\* The pointer is one that libc has handed out and no record of the table has:
\* a pointer comes back only after its record has left the table.
AppAdd(t) ==
    /\ apc[t] = "add" /\ ~ptr_mtx
    /\ \E p \in Ptrs \ {ptrOf[r] : r \in Members("alloc")}, z \in Sizes, c \in Callstacks :
        Fill(arec[t], [ptr |-> p, size |-> z, allocator |-> c])
    /\ Add("alloc", arec[t])
    /\ apc' = [apc EXCEPT ![t] = "idle"]
    /\ arec' = [arec EXCEPT ![t] = NULL]
    /\ UNCHANGED <<used, groups, adds, ptr_mtx, todo, at, walk, maps_uses, oom, ghosts>>

AppRemove(t) ==
    /\ apc[t] = "idle" /\ ~ptr_mtx
    /\ \E r \in Members("alloc") :
        /\ Remove([k \in {"alloc"} |-> r])
        /\ arec' = [arec EXCEPT ![t] = r]
    /\ apc' = [apc EXCEPT ![t] = "put"]
    /\ UNCHANGED <<pool, groups, adds, ptr_mtx, todo, at, walk, maps_uses, oom, ghosts>>

AppFree(t) ==
    /\ apc[t] = "put"
    /\ Release({arec[t]})
    /\ apc' = [apc EXCEPT ![t] = "idle"]
    /\ arec' = [arec EXCEPT ![t] = NULL]
    /\ UNCHANGED <<head, group, adds, ptr_mtx, todo, at, walk, maps_uses, oom, ghosts>>

App(t) == AppAllocate(t) \/ AppAdd(t) \/ AppRemove(t) \/ AppFree(t)

-----------------------------------------------------------------------------
(* The worker *)

Begin(c) ==
    /\ todo = <<>>
    /\ todo' = Script[c]
    /\ UNCHANGED <<pool, chains, groups, ptr_mtx, threads, at, walk, maps_uses, oom, ghosts>>

NextOp == todo' = Tail(todo) /\ at' = "start"

\* mc_duplicate_all_alloc_memblk takes the lock and comes to the first record.
DuplicateLock ==
    /\ On("duplicate") /\ at = "start"
    /\ ptr_mtx' = TRUE
    /\ cursor' = head[Source[Table]]
    /\ at' = "walk"
    /\ moment' = [k \in DOMAIN moment |-> IF k = Table THEN Blocks(Members("alloc")) ELSE moment[k]]
    /\ whole' = (whole /\ Table # "snapshot")
    /\ UNCHANGED <<pool, chains, groups, threads, todo, lagging, num_remainings, maps_uses, oom>>

DuplicateRecord ==
    /\ On("duplicate") /\ at = "walk" /\ cursor # NULL
    /\ \E r \in Recs :
        /\ Allocate(r)
        /\ Fill(r, Block(cursor))
        /\ Add(Table, r)
        /\ same_callstack_group_prev' = [same_callstack_group_prev EXCEPT ![r] = NULL]
        /\ same_callstack_group_next' = [same_callstack_group_next EXCEPT ![r] = NULL]
    /\ cursor' = hash_next[cursor]
    /\ UNCHANGED <<group, ptr_mtx, threads, todo, at, lagging, num_remainings, maps_uses, oom, ghosts>>

\* No record: the command returns at once and leaves what it has copied.
DuplicateFails ==
    /\ On("duplicate") /\ at = "walk" /\ cursor # NULL
    /\ oom < MaxOom /\ oom' = oom + 1
    /\ ptr_mtx' = FALSE
    /\ todo' = <<>> /\ at' = "start" /\ cursor' = NULL
    /\ moment' = [moment EXCEPT !["copy"] = {}]
    /\ UNCHANGED <<pool, chains, groups, threads, lagging, num_remainings, maps_uses, whole>>

DuplicateEnd ==
    /\ On("duplicate") /\ at = "walk" /\ cursor = NULL
    /\ ptr_mtx' = FALSE
    /\ NextOp
    /\ whole' = (whole \/ Table = "snapshot")
    /\ UNCHANGED <<pool, chains, groups, threads, walk, maps_uses, oom, moment>>

\* mc_destroy_all_alloc_memblk frees each record when it is at the next.
DestroyLock ==
    /\ On("destroy") /\ at = "start"
    /\ ptr_mtx' = TRUE
    /\ cursor' = head[Table]
    /\ at' = "walk"
    /\ whole' = (whole /\ Table # "snapshot")
    /\ UNCHANGED <<pool, chains, groups, threads, todo, lagging, num_remainings, maps_uses, oom, moment>>

DestroyRecord ==
    /\ On("destroy") /\ at = "walk" /\ cursor # NULL
    /\ Release(lagging)
    /\ lagging' = {cursor}
    /\ cursor' = hash_next[cursor]
    /\ UNCHANGED <<head, group, ptr_mtx, threads, todo, at, num_remainings, maps_uses, oom, ghosts>>

DestroyEnd_KeepLast ==
    /\ On("destroy") /\ at = "walk" /\ cursor = NULL
    /\ head' = [head EXCEPT ![Table] = NULL]
    /\ lagging' = {}
    /\ ptr_mtx' = FALSE
    /\ NextOp
    /\ moment' = [k \in DOMAIN moment |-> IF k = Table THEN {} ELSE moment[k]]
    /\ UNCHANGED <<pool, hash_next, groups, threads, cursor, num_remainings, maps_uses, oom, whole>>

DestroyEnd ==
    /\ On("destroy") /\ at = "walk" /\ cursor = NULL
    /\ Release(lagging)
    /\ head' = [head EXCEPT ![Table] = NULL]
    /\ lagging' = {}
    /\ ptr_mtx' = FALSE
    /\ NextOp
    /\ moment' = [k \in DOMAIN moment |-> IF k = Table THEN {} ELSE moment[k]]
    /\ whole' = (whole \/ Table = "snapshot")
    /\ UNCHANGED <<group, threads, cursor, num_remainings, maps_uses, oom>>

\* mc_link_same_callstack_group: every copied record becomes the first of the
\* list of its callstack.
LinkBegin ==
    /\ On("link") /\ at = "start"
    /\ cursor' = head[Table]
    /\ at' = "walk"
    /\ UNCHANGED <<pool, chains, groups, ptr_mtx, threads, todo, lagging, num_remainings, maps_uses, oom, ghosts>>

LinkRecord ==
    /\ On("link") /\ at = "walk" /\ cursor # NULL
    /\ LET c == allocator[cursor]
           first == group[c][LINK[Table]]
       IN  /\ same_callstack_group_next' = [same_callstack_group_next EXCEPT ![cursor] = first]
           /\ same_callstack_group_prev' = [q \in Recs |->
                CASE q = cursor -> NULL
                  [] q = first  -> cursor
                  [] OTHER      -> same_callstack_group_prev[q]]
           /\ group' = [group EXCEPT ![c][LINK[Table]] = cursor]
    /\ cursor' = hash_next[cursor]
    /\ UNCHANGED <<pool, chains, ptr_mtx, threads, todo, at, lagging, num_remainings, maps_uses, oom, ghosts>>

LinkEnd ==
    /\ On("link") /\ at = "walk" /\ cursor = NULL
    /\ NextOp
    /\ UNCHANGED <<pool, chains, groups, ptr_mtx, threads, walk, maps_uses, oom, ghosts>>

\* __unlink_memblk_from_callstack of record r of the current copy and record s
\* of the snapshot's.
Unlink_NoPrev(r, s) ==
    LET prev == same_callstack_group_prev
        next == same_callstack_group_next
    IN  /\ group' = [c \in Callstacks |-> [
                LINK_CURRENT  |-> IF prev[r] = NULL /\ allocator[r] = c
                                  THEN next[r] ELSE group[c]["LINK_CURRENT"],
                LINK_SNAPSHOT |-> IF prev[s] = NULL /\ allocator[s] = c
                                  THEN next[s] ELSE group[c]["LINK_SNAPSHOT"]]]
        /\ same_callstack_group_next' = [q \in Recs |->
                CASE q = prev[r] -> next[r] [] q = prev[s] -> next[s] [] OTHER -> next[q]]
        /\ UNCHANGED same_callstack_group_prev

Unlink(r, s) ==
    LET prev == same_callstack_group_prev
        next == same_callstack_group_next
    IN  /\ group' = [c \in Callstacks |-> [
                LINK_CURRENT  |-> IF prev[r] = NULL /\ allocator[r] = c
                                  THEN next[r] ELSE group[c]["LINK_CURRENT"],
                LINK_SNAPSHOT |-> IF prev[s] = NULL /\ allocator[s] = c
                                  THEN next[s] ELSE group[c]["LINK_SNAPSHOT"]]]
        /\ same_callstack_group_next' = [q \in Recs |->
                CASE q = prev[r] -> next[r] [] q = prev[s] -> next[s] [] OTHER -> next[q]]
        /\ same_callstack_group_prev' = [q \in Recs |->
                CASE q = next[r] -> prev[r] [] q = next[s] -> prev[s] [] OTHER -> prev[q]]

\* __find_snapshot_alloc_memptr_for_current_memptr: the block at the same
\* address if it is the same, else the first as large of the same callstack.
Match_SizeOnly(r) ==
    LET same  == Find("snapshot_copy", ptrOf[r])
        alike == {s \in Recs : sizeOf[s] = sizeOf[r]}
    IN  IF same \in alike THEN same
        ELSE FirstOf(group[allocator[r]]["LINK_SNAPSHOT"], same_callstack_group_next, alike)

Match(r) ==
    LET same  == Find("snapshot_copy", ptrOf[r])
        alike == {s \in Recs : sizeOf[s] = sizeOf[r]}
    IN  IF same \in alike /\ allocator[same] = allocator[r]
        THEN same
        ELSE FirstOf(group[allocator[r]]["LINK_SNAPSHOT"], same_callstack_group_next, alike)

\* offset_snapshot_against_current_alloc_memblk counts both copies, then walks
\* the current one; without the lock of the tables.
OffsetBegin_NoCount ==
    /\ On("offset") /\ at = "start"
    /\ num_remainings' = [NoRemainings EXCEPT !["copy"] = Cardinality(Members("copy"))]
    /\ cursor' = head["copy"]
    /\ at' = "free"
    /\ UNCHANGED <<pool, chains, groups, ptr_mtx, threads, todo, lagging, maps_uses, oom, ghosts>>

OffsetBegin ==
    /\ On("offset") /\ at = "start"
    /\ num_remainings' = [k \in Copies |-> Cardinality(Members(k))]
    /\ cursor' = head["copy"]
    /\ at' = "free"
    /\ UNCHANGED <<pool, chains, groups, ptr_mtx, threads, todo, lagging, maps_uses, oom, ghosts>>

\* The pair of the iteration before goes back to the pool.
OffsetFree ==
    /\ On("offset") /\ at = "free" /\ cursor # NULL
    /\ Release(lagging)
    /\ lagging' = {}
    /\ at' = "pair"
    /\ UNCHANGED <<head, group, ptr_mtx, threads, todo, cursor, num_remainings, maps_uses, oom, ghosts>>

OffsetPair_FreeAtOnce ==
    /\ On("offset") /\ at = "pair" /\ Match(cursor) # NULL
    /\ LET gone == [copy |-> Find("copy", ptrOf[cursor]),
                    snapshot_copy |-> Find("snapshot_copy", ptrOf[Match(cursor)])]
       IN  Remove(gone)
    /\ Unlink(cursor, Match(cursor))
    /\ num_remainings' = [k \in Copies |-> num_remainings[k] - 1]
    /\ used' = used \ {cursor, Match(cursor)}
    /\ at' = "advance"
    /\ UNCHANGED <<ptrOf, sizeOf, allocator, lagging, ptr_mtx, threads, todo, cursor, maps_uses, oom, ghosts>>

OffsetPair ==
    /\ On("offset") /\ at = "pair" /\ Match(cursor) # NULL
    /\ LET gone == [copy |-> Find("copy", ptrOf[cursor]),
                    snapshot_copy |-> Find("snapshot_copy", ptrOf[Match(cursor)])]
       IN  Remove(gone)
    /\ Unlink(cursor, Match(cursor))
    /\ num_remainings' = [k \in Copies |-> num_remainings[k] - 1]
    /\ lagging' = {cursor, Match(cursor)}
    /\ at' = "advance"
    /\ UNCHANGED <<pool, ptr_mtx, threads, todo, cursor, maps_uses, oom, ghosts>>

OffsetAlone ==
    /\ On("offset") /\ at = "pair" /\ Match(cursor) = NULL
    /\ at' = "advance"
    /\ UNCHANGED <<pool, chains, groups, ptr_mtx, threads, todo, walk, maps_uses, oom, ghosts>>

OffsetAdvance ==
    /\ On("offset") /\ at = "advance"
    /\ cursor' = hash_next[cursor]
    /\ at' = "free"
    /\ UNCHANGED <<pool, chains, groups, ptr_mtx, threads, todo, lagging, num_remainings, maps_uses, oom, ghosts>>

PerCallstack == \E i \in DOMAIN todo : todo[i].op = "print_callstacks"

\* Per callstack, a comparison without remaining blocks returns at once.
OffsetEnd ==
    /\ On("offset") /\ at = "free" /\ cursor = NULL
    /\ Release(lagging)
    /\ lagging' = {}
    /\ at' = "start"
    /\ IF PerCallstack /\ num_remainings["copy"] + num_remainings["snapshot_copy"] = 0
       THEN todo' = Cleanup /\ num_remainings' = NoRemainings
       ELSE todo' = Tail(todo) /\ UNCHANGED num_remainings
    /\ UNCHANGED <<head, group, ptr_mtx, threads, cursor, maps_uses, oom, ghosts>>

\* __print_all_memblk_on_hashtable and __print_all_memblk_per_callstack read
\* chains and lists; what a missing sort buffer does is to print nothing.
ListBlocks ==
    /\ On("print")
    /\ NextOp
    /\ UNCHANGED <<pool, chains, groups, ptr_mtx, threads, walk, maps_uses, oom, ghosts>>

\* The groups of mc_compare_snapshot_and_current_alloc_memblk_per_callstack.
ListCallstacks ==
    /\ On("print_callstacks")
    /\ NextOp
    /\ UNCHANGED <<pool, chains, groups, ptr_mtx, threads, walk, maps_uses, oom, ghosts>>

\* Without a sort buffer it returns with the file maps and the links.
ListCallstacksFails ==
    /\ On("print_callstacks")
    /\ oom < MaxOom /\ oom' = oom + 1
    /\ todo' = Cleanup /\ at' = "start"
    /\ num_remainings' = NoRemainings
    /\ UNCHANGED <<pool, chains, groups, ptr_mtx, threads, cursor, lagging, maps_uses, ghosts>>

InitMaps ==
    /\ On("init_maps")
    /\ maps_uses' = maps_uses + 1
    /\ NextOp
    /\ UNCHANGED <<pool, chains, groups, ptr_mtx, threads, walk, oom, ghosts>>

TermMaps ==
    /\ On("term_maps")
    /\ maps_uses' = maps_uses - 1
    /\ NextOp
    /\ UNCHANGED <<pool, chains, groups, ptr_mtx, threads, walk, oom, ghosts>>

\* mc_reset_same_callstack_group.
Reset_Current ==
    /\ On("reset")
    /\ group' = [c \in Callstacks |-> [group[c] EXCEPT !["LINK_CURRENT"] = NULL]]
    /\ NextOp
    /\ num_remainings' = NoRemainings
    /\ UNCHANGED <<pool, chains, same_callstack_group_prev, same_callstack_group_next, ptr_mtx,
                   threads, cursor, lagging, maps_uses, oom, ghosts>>

Reset ==
    /\ On("reset")
    /\ group' = [c \in Callstacks |-> [group[c] EXCEPT ![LINK[Table]] = NULL]]
    /\ NextOp
    /\ num_remainings' = NoRemainings
    /\ UNCHANGED <<pool, chains, same_callstack_group_prev, same_callstack_group_next, ptr_mtx,
                   threads, cursor, lagging, maps_uses, oom, ghosts>>

Worker ==
    \/ DuplicateLock \/ DuplicateRecord \/ DuplicateFails \/ DuplicateEnd
    \/ DestroyLock \/ DestroyRecord \/ DestroyEnd
    \/ LinkBegin \/ LinkRecord \/ LinkEnd
    \/ OffsetBegin \/ OffsetFree \/ OffsetPair \/ OffsetAlone \/ OffsetAdvance \/ OffsetEnd
    \/ ListBlocks \/ ListCallstacks \/ ListCallstacksFails
    \/ InitMaps \/ TermMaps \/ Reset

Next ==
    \/ \E t \in Threads : App(t)
    \/ \E c \in Commands : Begin(c)
    \/ Worker

Spec == Init /\ [][Next]_vars

-----------------------------------------------------------------------------
(* Properties *)

\* A command that links or pairs blocks begins with no copy and no link left
\* behind. A failure leaves them (memchk_manage_memblk.c:470, memchk_snapshot.c:222)
\* and the code does not look. Under Spec, which has no such condition, the
\* properties below do not hold of the commands that follow.
CleanStart(c) ==
    c \notin {"list", "create", "destroy"} =>
        /\ \A k \in Copies : head[k] = NULL
        /\ \A d \in Callstacks, l \in Links : group[d][l] = NULL

CleanStartNext ==
    Next /\ (todo = <<>> => \A c \in Commands : todo' = Script[c] => CleanStart(c))

CleanStartSpec == Init /\ [][CleanStartNext]_vars

\* The records that table k answers for: while it is destroyed, those not
\* freed yet.
Owned(k) == IF On("destroy") /\ Table = k /\ at = "walk"
            THEN Reached(cursor, hash_next) ELSE Members(k)

Held == {arec[t] : t \in {u \in Threads : apc[u] # "idle"}}

\* Every record taken from the pool is in one place: one table, one thread on
\* its way to or from the alloc table, or the pair that the worker frees an
\* iteration late. So no copy is freed twice and none is lost, whatever the threads
\* do with the records that come back. A copy or a listing that fails loses none:
\* what it leaves stays in its table. That is as long as no command links or pairs
\* what a failure left behind, which is CleanStartSpec.
RecordsAccounted ==
    /\ used = (UNION {Owned(k) : k \in Tables}) \cup Held \cup lagging
    /\ Cardinality(used) =
         MapThenSumSet(LAMBDA k : Cardinality(Owned(k)), Tables)
           + Cardinality({t \in Threads : apc[t] # "idle"}) + Cardinality(lagging)

\* The walks of the worker stay on records of its own table although they go
\* over nodes they have just removed, and although the threads reuse at once
\* what it frees (hash_next of a freed record may lead into the alloc table).
WalkOnOwnRecords ==
    cursor # NULL =>
        cursor \in used /\
        CASE On("duplicate") -> cursor \in Members(Source[Table])
          [] On("offset")    -> cursor \in Members("copy") \cup lagging
          [] OTHER           -> cursor \in Owned(Table)

\* While blocks are paired, the list of a callstack has exactly the copies
\* with that callstack still in the table, linked in both directions.
GroupsAgree ==
    On("offset") \/ On("print_callstacks") =>
        \A c \in Callstacks, k \in Copies :
            LET list == Path(group[c][LINK[k]], same_callstack_group_next)
            IN  /\ Group(c, LINK[k]) = {r \in Members(k) : allocator[r] = c}
                /\ \A i \in DOMAIN list :
                     same_callstack_group_prev[list[i]] = IF i = 1 THEN NULL ELSE list[i - 1]

Alike(blocks, b) == {x \in blocks : x.size = b.size /\ x.allocator = b.allocator}
Rest(k, b) == {r \in Members(k) : sizeOf[r] = b.size /\ allocator[r] = b.allocator}

\* What a comparison prints is the difference of what was allocated when the
\* command copied the table and what the snapshot holds: of blocks of one size
\* and callstack as many remain as there are more, on one side only; and the
\* totals printed are those of the blocks (README.md:8, "Display memory
\* increase/decrease between snapshot creation and current time").
PairingExact ==
    /\ On("offset") /\ at # "start" =>
        \A k \in Copies : num_remainings[k] = Cardinality(Members(k))
    /\ On("offset") /\ at = "free" /\ cursor = NULL =>
        \A z \in Sizes, c \in Callstacks :
            LET b == [size |-> z, allocator |-> c]
                more == Cardinality(Rest("copy", b))
                less == Cardinality(Rest("snapshot_copy", b))
            IN  /\ more - less = Cardinality(Alike(moment["copy"], b))
                                   - Cardinality(Rest("snapshot", b))
                /\ more = 0 \/ less = 0

\* A snapshot whose creation did not fail holds the blocks of one moment, when
\* nothing was half way into the table, and no later command changes it.
SnapshotIsMoment == whole => Blocks(Members("snapshot")) = moment["snapshot"]

\* A command that met no failure leaves no copy, no link and no use of the
\* file maps behind.
NothingLeft ==
    todo = <<>> /\ oom = 0 =>
        /\ \A k \in Copies : head[k] = NULL
        /\ \A c \in Callstacks, l \in Links : group[c][l] = NULL
        /\ maps_uses = 0 /\ ~ptr_mtx
=============================================================================
