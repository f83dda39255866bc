------------------------------ MODULE PageRegions ------------------------------
(*****************************************************************************)
(* The command "virtual memory usage" of memchk_virtmem.c. The worker        *)
(* registers every block of a copy of the alloc table in a sorted list of    *)
(* page regions, merging regions that touch, then adds the regions up, also  *)
(* per mapped area of the process, and gives them back to their pool.        *)
(*                                                                           *)
(* __register_block starts its search at a region it remembers from an       *)
(* earlier insertion, pageregion_cand; nothing forgets the candidate when a  *)
(* merge frees it. Each iteration of a loop is a step. A freed region keeps  *)
(* its fields, as mc_allocator_free does not touch the record.               *)
(*****************************************************************************)
EXTENDS Integers, Sequences, FiniteSets, FiniteSetsExt

CONSTANTS
    PAGE_SIZE,
    Blocks,     \* <<buf, bufsize>> of the blocks a table may hold
    Areas,      \* vmarea_array as read: <<start, end>> of the private mappings, ascending
    Regions,    \* the records of the pool, as numbers; 0 is &pageregion_head
    MaxOom,     \* bound: allocations of a region that fail in a command
    NULL

ASSUME PageRegionsAssumption ==
    /\ PAGE_SIZE \in Nat \ {0}
    /\ Blocks \subseteq Nat \X (Nat \ {0})
    /\ \A i \in 1..(Len(Areas) - 1) : Areas[i][2] <= Areas[i + 1][1]
    /\ Regions \subseteq Nat \ {0}
    /\ MaxOom \in Nat
    /\ NULL \notin Nat

ListHead == 0
Nodes == Regions \cup {ListHead}

VARIABLES
    start, end, next,           \* struct pageregion
    used,                       \* regions taken from their pool
    pageregion_cand, prev_pageregion_cand,
    pc,                         \* where the command is
    blk,                        \* start and end of the block being registered
    region, prev, ahead, new_end,   \* pageregion, prev_pageregion, next_pageregion, new_end
    usage, total,               \* vmarea_array[i].usage, and the result
    seen, counted,              \* blocks registered so far; pages of those that got a region
    oom                         \* failures in this command

list == <<start, end, next, used, pageregion_cand, prev_pageregion_cand>>
cursor == <<region, prev, ahead, new_end>>
sums == <<usage, total>>
input == <<seen, counted, oom>>
vars == <<list, pc, blk, cursor, sums, input>>

AreaSize(i) == Areas[i][2] - Areas[i][1]

TypeOK ==
    /\ start \in [Nodes -> Nat] /\ end \in [Nodes -> Nat]
    /\ next \in [Nodes -> Regions \cup {NULL}]
    /\ used \subseteq Regions
    /\ pageregion_cand \in Regions \cup {NULL} /\ prev_pageregion_cand \in Nodes \cup {NULL}
    /\ pc \in {"idle", "ready", "walk", "merge", "count", "free"}
    /\ blk \in Nat \X Nat
    /\ region \in Nodes \cup {NULL} /\ prev \in Nodes \cup {NULL} /\ ahead \in Regions \cup {NULL}
    /\ new_end \in Nat
    /\ \A i \in DOMAIN Areas : usage[i] \in 0..AreaSize(i)
    /\ total \in Nat
    /\ seen \subseteq Blocks /\ counted \subseteq Nat /\ oom \in 0..MaxOom

Init ==
    /\ start = [r \in Nodes |-> 0] /\ end = [r \in Nodes |-> 0]
    /\ next = [r \in Nodes |-> NULL]
    /\ used = {}
    /\ pageregion_cand = NULL /\ prev_pageregion_cand = NULL
    /\ pc = "idle" /\ blk = <<0, 0>>
    /\ region = NULL /\ prev = NULL /\ ahead = NULL /\ new_end = 0
    /\ usage = [i \in DOMAIN Areas |-> 0] /\ total = 0
    /\ seen = {} /\ counted = {} /\ oom = 0

-----------------------------------------------------------------------------
(* Helpers *)

RoundDown(a) == a - (a % PAGE_SIZE)
RoundUp(a) == RoundDown(a + PAGE_SIZE - 1)

\* The pages of [from, to).
PagesIn(from, to) == {p \in from..(to - 1) : p % PAGE_SIZE = 0}

Apart(b, c) == b[1] + b[2] <= c[1] \/ c[1] + c[2] <= b[1]

\* A call of __register_block returns, with its locals gone.
Registered(pages) ==
    /\ pc' = "ready"
    /\ counted' = counted \cup pages
    /\ blk' = <<0, 0>>
    /\ region' = NULL /\ prev' = NULL /\ ahead' = NULL /\ new_end' = 0

\* __allocate_pageregion: the pool gives its lowest free record.
NewRegion == Min(Regions \ used)

\* NewRegion holds [s, e) and goes between p and n.
Insert_Swapped(p, s, e, n) ==
    /\ used' = used \cup {NewRegion}
    /\ start' = [start EXCEPT ![NewRegion] = s]
    /\ end' = [end EXCEPT ![NewRegion] = e]
    /\ next' = [next EXCEPT ![p] = NewRegion, ![NewRegion] = NewRegion]

Insert(p, s, e, n) ==
    /\ used' = used \cup {NewRegion}
    /\ start' = [start EXCEPT ![NewRegion] = s]
    /\ end' = [end EXCEPT ![NewRegion] = e]
    /\ next' = [next EXCEPT ![p] = NewRegion, ![NewRegion] = n]

-----------------------------------------------------------------------------
(* mc_get_virtual_memory_usage up to __register_block *)

\* A new command begins with an empty list of regions.
Begin ==
    /\ pc = "idle"
    /\ pc' = "ready"
    /\ next' = [next EXCEPT ![ListHead] = NULL]
    /\ seen' = {} /\ counted' = {} /\ oom' = 0
    /\ UNCHANGED <<start, end, used, pageregion_cand, prev_pageregion_cand, blk, cursor, sums>>

\* The next block of the table, in any order: the chains are hashed.
Block(b) ==
    /\ pc = "ready"
    /\ \A c \in seen : Apart(b, c)
    /\ seen' = seen \cup {b}

From(b) == RoundDown(b[1])
To(b) == RoundUp(b[1] + b[2])

RegisterFirst(b) ==
    /\ Block(b)
    /\ next[ListHead] = NULL
    /\ Insert(ListHead, From(b), To(b), NULL)
    /\ pageregion_cand' = NewRegion
    /\ prev_pageregion_cand' = ListHead
    /\ Registered(PagesIn(From(b), To(b)))
    /\ UNCHANGED <<sums, oom>>

\* __allocate_pageregion fails on the first block; the -1 is ignored.
RegisterFirstFails(b) ==
    /\ Block(b)
    /\ next[ListHead] = NULL
    /\ oom < MaxOom /\ oom' = oom + 1
    /\ UNCHANGED <<list, pc, blk, cursor, sums, counted>>

RegisterStart(b) ==
    /\ Block(b)
    /\ next[ListHead] # NULL
    /\ blk' = <<From(b), To(b)>>
    /\ IF end[pageregion_cand] < From(b)
       THEN region' = pageregion_cand /\ prev' = prev_pageregion_cand
       ELSE region' = next[ListHead] /\ prev' = ListHead
    /\ pc' = "walk"
    /\ UNCHANGED <<list, ahead, new_end, sums, counted, oom>>

-----------------------------------------------------------------------------
(* The loops of __register_block *)

BlockPages == PagesIn(blk[1], blk[2])

Walk ==
    /\ pc = "walk"
    /\ region # NULL
    /\ end[region] < blk[1]
    /\ prev' = region
    /\ region' = next[region]
    /\ UNCHANGED <<list, pc, blk, ahead, new_end, sums, input>>

InsertBefore ==
    /\ pc = "walk"
    /\ region # NULL
    /\ blk[2] < start[region]
    /\ Insert(prev, blk[1], blk[2], region)
    /\ pageregion_cand' = NewRegion
    /\ prev_pageregion_cand' = prev
    /\ Registered(BlockPages)
    /\ UNCHANGED <<sums, seen, oom>>

InsertLast ==
    /\ pc = "walk"
    /\ region = NULL
    /\ Insert(prev, blk[1], blk[2], NULL)
    /\ Registered(BlockPages)
    /\ UNCHANGED <<pageregion_cand, prev_pageregion_cand, sums, seen, oom>>

\* __allocate_pageregion fails in InsertBefore or InsertLast.
InsertFails ==
    /\ pc = "walk"
    /\ IF region = NULL THEN TRUE ELSE blk[2] < start[region]
    /\ oom < MaxOom /\ oom' = oom + 1
    /\ Registered({})
    /\ UNCHANGED <<list, sums, seen>>

MergeBegin ==
    /\ pc = "walk"
    /\ region # NULL
    /\ start[region] <= blk[2] /\ blk[1] <= end[region]
    /\ ahead' = next[region]
    /\ new_end' = end[region]
    /\ pc' = "merge"
    /\ UNCHANGED <<list, blk, region, prev, sums, input>>

Swallow_Leak ==
    /\ pc = "merge"
    /\ ahead # NULL
    /\ start[ahead] <= blk[2]
    /\ new_end' = end[ahead]
    /\ ahead' = next[ahead]
    /\ UNCHANGED <<list, pc, blk, region, prev, sums, input>>

\* The region ahead touches the block: it is freed into the merged one.
Swallow ==
    /\ pc = "merge"
    /\ ahead # NULL
    /\ start[ahead] <= blk[2]
    /\ new_end' = end[ahead]
    /\ ahead' = next[ahead]
    /\ used' = used \ {ahead}
    /\ UNCHANGED <<start, end, next, pageregion_cand, prev_pageregion_cand, pc, blk, region, prev, sums, input>>

MergeEnd_BlockEnd ==
    /\ pc = "merge"
    /\ IF ahead = NULL THEN TRUE ELSE start[ahead] > blk[2]
    /\ start' = [start EXCEPT ![region] = Min({@, blk[1]})]
    /\ end' = [end EXCEPT ![region] = blk[2]]
    /\ next' = [next EXCEPT ![region] = ahead]
    /\ Registered(BlockPages)
    /\ UNCHANGED <<used, pageregion_cand, prev_pageregion_cand, sums, seen, oom>>

MergeEnd ==
    /\ pc = "merge"
    /\ IF ahead = NULL THEN TRUE ELSE start[ahead] > blk[2]
    /\ start' = [start EXCEPT ![region] = Min({@, blk[1]})]
    /\ end' = [end EXCEPT ![region] = Max({new_end, blk[2]})]
    /\ next' = [next EXCEPT ![region] = ahead]
    /\ Registered(BlockPages)
    /\ UNCHANGED <<used, pageregion_cand, prev_pageregion_cand, sums, seen, oom>>

-----------------------------------------------------------------------------
(* __count_virtual_memory_size and __free_all_pageregions *)

\* The usages of a new vmarea_array, and a count that has not begun.
NothingCounted == usage' = [i \in DOMAIN Areas |-> 0] /\ total' = 0

\* All blocks are registered: the mapped areas are read, of which the model keeps
\* that their usages begin at 0, and the count begins.
CountBegin ==
    /\ pc = "ready"
    /\ pc' = "count"
    /\ region' = next[ListHead]
    /\ NothingCounted
    /\ UNCHANGED <<list, blk, prev, ahead, new_end, input>>

\* One area in the loop of __register_pageregion; left is the part of the
\* region not yet given to an area.
Give_Whole(acc, i) ==
    LET from == acc.left[1]
        to == acc.left[2]
    IN  IF from = to \/ Areas[i][1] > from \/ Areas[i][2] <= from THEN acc
        ELSE [usage |-> [acc.usage EXCEPT ![i] = @ + Areas[i][2] - from], left |-> <<to, to>>]

Give_Beyond(acc, i) ==
    LET from == acc.left[1]
        to == acc.left[2]
    IN  IF from = to \/ Areas[i][1] > from \/ Areas[i][2] <= from THEN acc
        ELSE [usage |-> [acc.usage EXCEPT ![i] = @ + to - from], left |-> <<to, to>>]

Give(acc, i) ==
    LET from == acc.left[1]
        to == acc.left[2]
    IN  IF from = to \/ Areas[i][1] > from \/ Areas[i][2] <= from THEN acc
        ELSE LET upto == Min({to, Areas[i][2]})
             IN  [usage |-> [acc.usage EXCEPT ![i] = @ + upto - from], left |-> <<upto, to>>]

\* The areas in turn take their part of the region.
Charged(r) ==
    LET given[i \in 0..Len(Areas)] ==
            IF i = 0 THEN [usage |-> usage, left |-> <<start[r], end[r]>>]
            ELSE Give(given[i - 1], i)
    IN  given[Len(Areas)].usage

Count ==
    /\ pc = "count"
    /\ region # NULL
    /\ usage' = Charged(region)
    /\ total' = total + end[region] - start[region]
    /\ region' = next[region]
    /\ UNCHANGED <<list, pc, blk, prev, ahead, new_end, input>>

CountEnd ==
    /\ pc = "count"
    /\ region = NULL
    /\ pc' = "free"
    /\ region' = next[ListHead]
    /\ UNCHANGED <<list, blk, prev, ahead, new_end, sums, input>>

FreeRegion ==
    /\ pc = "free"
    /\ region # NULL
    /\ used' = used \ {region}
    /\ region' = next[region]
    /\ UNCHANGED <<start, end, next, pageregion_cand, prev_pageregion_cand, pc, blk, prev, ahead, new_end, sums, input>>

\* The list is empty, vmarea_array is given back and the result returned.
FreeEnd ==
    /\ pc = "free"
    /\ region = NULL
    /\ next' = [next EXCEPT ![ListHead] = NULL]
    /\ pc' = "idle"
    /\ NothingCounted
    /\ UNCHANGED <<start, end, used, pageregion_cand, prev_pageregion_cand, blk, cursor, input>>

-----------------------------------------------------------------------------

Inside ==
    \/ Walk \/ InsertBefore \/ InsertLast \/ InsertFails \/ MergeBegin \/ Swallow \/ MergeEnd
    \/ Count \/ CountEnd \/ FreeRegion \/ FreeEnd

Register == \E b \in Blocks : RegisterFirst(b) \/ RegisterFirstFails(b) \/ RegisterStart(b)

Next == Begin \/ Register \/ CountBegin \/ Inside

Spec == Init /\ [][Next]_vars

\* The worker keeps running.
Fairness == WF_vars(Inside)

\* No merge frees the region that __register_block remembers.
CandidateKept == used \ used' # {} /\ pc = "merge" => pageregion_cand \notin used \ used'

\* The command as long as that holds: what happens otherwise is UsageExact's.
KeptSpec == Init /\ [][Next /\ CandidateKept]_vars /\ Fairness

-----------------------------------------------------------------------------
(* Properties *)

\* The regions from r on, in the order of the list, cut off where it loops.
Following(r) ==
    LET N == Cardinality(Regions)
        node[n \in 0..N] == IF n = 0 THEN r
                            ELSE IF node[n - 1] = NULL THEN NULL
                            ELSE next[node[n - 1]]
    IN  [i \in 1..Cardinality({n \in 0..N : node[n] # NULL}) |-> node[i - 1]]

\* Between two blocks the list is sorted, its regions do not touch, and they
\* have the pages of the registered blocks and no other.
RegionsExact ==
    pc = "ready" =>
        LET seq == Following(next[ListHead])
            pages(i) == PagesIn(start[seq[i]], end[seq[i]])
        IN  /\ \A i \in 1..(Len(seq) - 1) : end[seq[i]] < start[seq[i + 1]]
            /\ counted = UNION {pages(i) : i \in 1..Len(seq)}
            /\ used = {seq[i] : i \in 1..Len(seq)}

\* The usage reported is the size of the pages that hold blocks, each page
\* once (README.md:35, "Display virtual memory usage for all memory blocks").
UsageExact == pc = "free" => total = PAGE_SIZE * Cardinality(counted)

\* Each mapped area is charged with its own pages that hold blocks, though a
\* region may run across areas.
AreaUsageExact ==
    pc = "free" => \A i \in DOMAIN Areas :
        usage[i] = PAGE_SIZE * Cardinality(counted \cap PagesIn(Areas[i][1], Areas[i][2]))

\* After the command every region is back in its pool.
RegionsReturned == pc = "idle" => used = {}

\* The walks along the list end: a call of __register_block returns, and so
\* does the command.
CommandEnds ==
    /\ pc = "walk" ~> pc = "ready"
    /\ pc = "count" ~> pc = "idle"
=============================================================================
