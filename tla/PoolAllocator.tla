----------------------------- MODULE PoolAllocator -----------------------------
(*****************************************************************************)
(* One record pool of memchk_allocator.c: pages of records with a bitmap     *)
(* each, in a list that starts at a static page and grows by a batch of      *)
(* mapped pages at a time. memchk_alloc_blk.c makes four such pools; they    *)
(* share only their lock.                                                    *)
(*                                                                           *)
(* mc_allocator_alloc takes several steps because its walk along the list is *)
(* a loop; it holds ALLOC_LOCK over them, so no other call is in between.    *)
(* Addresses are numbers and a page is named by its address.                 *)
(*****************************************************************************)
EXTENDS Integers, FiniteSets, FiniteSetsExt

CONSTANTS
    PAGE_SIZE,
    HeaderSize,     \* sizeof(struct memblk_pool_header), aligned
    memblk_size,    \* sizeof a record, aligned
    WordBits,       \* bits in a word of the bitmap: 64
    MMAP_BATCH_PAGE_NUM,
    Top,            \* the static page
    Pages,          \* bound: Top and the pages mmap can return
    NULL

num_memblk_in_pool == (PAGE_SIZE - HeaderSize) \div memblk_size

\* With 3 * WordBits records to a page, get_lowest_bit would find 127 in a
\* full page: ffsl of an empty third word is 0. The largest pool has 167 of 192.
ASSUME PoolAssumption ==
    /\ PAGE_SIZE \in Nat \ {0} /\ HeaderSize \in Nat /\ memblk_size \in Nat \ {0}
    /\ HeaderSize + memblk_size <= PAGE_SIZE
    /\ WordBits \in Nat \ {0} /\ num_memblk_in_pool < 3 * WordBits
    /\ MMAP_BATCH_PAGE_NUM \in Nat \ {0}
    /\ Pages \subseteq {p \in Nat : p % PAGE_SIZE = 0}
    /\ Top \in Pages
    /\ NULL \notin Nat

Slots == 0..(num_memblk_in_pool - 1)

VARIABLES
    mapped,                 \* pages with an initialised header
    bitmap, num_free, next_pool_link,   \* their headers
    next_available_pool,    \* of the header of Top
    phase, header, prev,    \* mc_allocator_alloc under ALLOC_LOCK: where it is, its locals
    ret,                    \* its result, until the next call
    taken                   \* records the callers hold

headers == <<mapped, bitmap, num_free, next_pool_link>>
vars == <<headers, next_available_pool, phase, header, prev, ret, taken>>

get_bufaddr(p, index) == p + HeaderSize + memblk_size * index
PageOf(buf) == buf - (buf % PAGE_SIZE)
get_index(buf) == (buf - PageOf(buf) - HeaderSize) \div memblk_size

Records == {get_bufaddr(p, i) : p \in Pages, i \in Slots}

TypeOK ==
    /\ mapped \subseteq Pages
    /\ bitmap \in [Pages -> [0..2 -> SUBSET (0..(WordBits - 1))]]
    /\ num_free \in [Pages -> Nat]
    /\ next_pool_link \in [Pages -> Pages \cup {NULL}]
    /\ next_available_pool \in mapped
    /\ phase \in {"unlocked", "first", "walk"}
    /\ header \in mapped \cup {NULL}
    /\ prev \in mapped \cup {NULL}
    /\ ret \in Records \cup {NULL}
    /\ taken \subseteq Records

AllOnes == [w \in 0..2 |-> 0..(WordBits - 1)]

\* mc_allocator_init; the headers of pages not mapped yet do not exist.
Init ==
    /\ mapped = {Top}
    /\ bitmap = [p \in Pages |-> AllOnes]
    /\ num_free = [p \in Pages |-> num_memblk_in_pool]
    /\ next_pool_link = [p \in Pages |-> NULL]
    /\ next_available_pool = Top
    /\ phase = "unlocked" /\ header = NULL /\ prev = NULL
    /\ ret = NULL /\ taken = {}

-----------------------------------------------------------------------------
(* The bitmap of a page: three words, bit set for a free record *)

set_bitmap(p, index) ==
    bitmap' = IF index < WordBits
              THEN [bitmap EXCEPT ![p][0] = @ \cup {index}]
              ELSE IF index < 2 * WordBits
              THEN [bitmap EXCEPT ![p][1] = @ \cup {index - WordBits}]
              ELSE [bitmap EXCEPT ![p][2] = @ \cup {index - 2 * WordBits}]

\* As if the third word were cleared like the second.
ClearBitmap_TwoWords(p, index) ==
    bitmap' = IF index < WordBits
              THEN [bitmap EXCEPT ![p][0] = @ \ {index}]
              ELSE [bitmap EXCEPT ![p][1] = @ \ {index - WordBits}]

clear_bitmap(p, index) ==
    bitmap' = IF index < WordBits
              THEN [bitmap EXCEPT ![p][0] = @ \ {index}]
              ELSE IF index < 2 * WordBits
              THEN [bitmap EXCEPT ![p][1] = @ \ {index - WordBits}]
              ELSE [bitmap EXCEPT ![p][2] = @ \ {index - 2 * WordBits}]

\* __builtin_ffsl: 1 + the lowest bit set, 0 if there is none.
ffsl(word) == IF word = {} THEN 0 ELSE Min(word) + 1

LowestBit_OffByOne(p) ==
    LET inPage(n) == IF n < num_memblk_in_pool THEN n - 1 ELSE -1
    IN  IF bitmap[p][0] # {} THEN inPage(ffsl(bitmap[p][0]))
        ELSE IF num_memblk_in_pool <= WordBits THEN -1
        ELSE IF bitmap[p][1] # {} THEN inPage(ffsl(bitmap[p][1]) + WordBits)
        ELSE IF num_memblk_in_pool <= 2 * WordBits THEN -1
        ELSE inPage(ffsl(bitmap[p][2]) + 2 * WordBits)

\* Bits past num_memblk_in_pool are set and never cleared; a hit there is none.
get_lowest_bit(p) ==
    LET inPage(n) == IF n <= num_memblk_in_pool THEN n - 1 ELSE -1
    IN  IF bitmap[p][0] # {} THEN inPage(ffsl(bitmap[p][0]))
        ELSE IF num_memblk_in_pool <= WordBits THEN -1
        ELSE IF bitmap[p][1] # {} THEN inPage(ffsl(bitmap[p][1]) + WordBits)
        ELSE IF num_memblk_in_pool <= 2 * WordBits THEN -1
        ELSE inPage(ffsl(bitmap[p][2]) + 2 * WordBits)

-----------------------------------------------------------------------------
(* mc_allocator_alloc *)

\* ALLOC_LOCK; the search starts at next_available_pool.
AllocBegin ==
    /\ phase = "unlocked"
    /\ phase' = "first"
    /\ header' = next_available_pool
    /\ prev' = NULL /\ ret' = NULL
    /\ UNCHANGED <<headers, next_available_pool, taken>>

\* Take the lowest free record of page p, return it and unlock.
Take(p) ==
    LET index == get_lowest_bit(p)
    IN  /\ ret' = get_bufaddr(p, index)
        /\ taken' = taken \cup {get_bufaddr(p, index)}
        /\ clear_bitmap(p, index)
        /\ num_free' = [num_free EXCEPT ![p] = @ - 1]
        /\ phase' = "unlocked" /\ header' = NULL /\ prev' = NULL
        /\ UNCHANGED <<mapped, next_pool_link>>

AllocFirst ==
    /\ phase = "first"
    /\ get_lowest_bit(header) # -1
    /\ Take(header)
    /\ UNCHANGED next_available_pool

AllocFull ==
    /\ phase = "first"
    /\ get_lowest_bit(header) = -1
    /\ phase' = "walk"
    /\ UNCHANGED <<headers, next_available_pool, header, prev, ret, taken>>

AllocWalk ==
    /\ phase = "walk"
    /\ header # NULL
    /\ num_free[header] = 0
    /\ prev' = header
    /\ header' = next_pool_link[header]
    /\ UNCHANGED <<headers, next_available_pool, phase, ret, taken>>

AllocFound ==
    /\ phase = "walk"
    /\ header # NULL
    /\ num_free[header] # 0
    /\ next_available_pool' = header
    /\ Take(header)

\* mmap fails: unlock and return NULL.
AllocFails ==
    /\ phase = "walk"
    /\ header = NULL
    /\ phase' = "unlocked" /\ prev' = NULL
    /\ UNCHANGED <<headers, next_available_pool, header, ret, taken>>

BatchAt(base) == {base + PAGE_SIZE * i : i \in 0..(MMAP_BATCH_PAGE_NUM - 1)}

AllocMap_LinkFirst(base) ==
    /\ phase = "walk"
    /\ header = NULL
    /\ BatchAt(base) \subseteq Pages \ mapped
    /\ mapped' = mapped \cup BatchAt(base)
    /\ next_pool_link' = [next_pool_link EXCEPT ![prev] = base]
    /\ bitmap' = [p \in Pages |-> IF p \in BatchAt(base) THEN AllOnes ELSE bitmap[p]]
    /\ num_free' = [p \in Pages |-> IF p \in BatchAt(base) THEN num_memblk_in_pool ELSE num_free[p]]
    /\ next_available_pool' = base + PAGE_SIZE * (MMAP_BATCH_PAGE_NUM - 1)
    /\ header' = base
    /\ UNCHANGED <<phase, prev, ret, taken>>

\* As if the last new page were linked to Top.
AllocMap_Ring(base) ==
    /\ phase = "walk"
    /\ header = NULL
    /\ BatchAt(base) \subseteq Pages \ mapped
    /\ mapped' = mapped \cup BatchAt(base)
    /\ next_pool_link' = [p \in Pages |->
            IF p = prev THEN base
            ELSE IF p \notin BatchAt(base) THEN next_pool_link[p]
            ELSE IF p + PAGE_SIZE \in BatchAt(base) THEN p + PAGE_SIZE
            ELSE Top]
    /\ bitmap' = [p \in Pages |-> IF p \in BatchAt(base) THEN AllOnes ELSE bitmap[p]]
    /\ num_free' = [p \in Pages |-> IF p \in BatchAt(base) THEN num_memblk_in_pool ELSE num_free[p]]
    /\ next_available_pool' = base + PAGE_SIZE * (MMAP_BATCH_PAGE_NUM - 1)
    /\ header' = base
    /\ UNCHANGED <<phase, prev, ret, taken>>

\* mmap gives MMAP_BATCH_PAGE_NUM pages in a row; __init_header links each
\* after the one before it, the first after prev, the last page of the list,
\* and makes each next_available_pool in turn.
AllocMap(base) ==
    /\ phase = "walk"
    /\ header = NULL
    /\ BatchAt(base) \subseteq Pages \ mapped
    /\ mapped' = mapped \cup BatchAt(base)
    /\ next_pool_link' = [p \in Pages |->
            IF p = prev THEN base
            ELSE IF p \notin BatchAt(base) THEN next_pool_link[p]
            ELSE IF p + PAGE_SIZE \in BatchAt(base) THEN p + PAGE_SIZE
            ELSE next_pool_link[prev]]
    /\ bitmap' = [p \in Pages |-> IF p \in BatchAt(base) THEN AllOnes ELSE bitmap[p]]
    /\ num_free' = [p \in Pages |-> IF p \in BatchAt(base) THEN num_memblk_in_pool ELSE num_free[p]]
    /\ next_available_pool' = base + PAGE_SIZE * (MMAP_BATCH_PAGE_NUM - 1)
    /\ header' = base
    /\ UNCHANGED <<phase, prev, ret, taken>>

-----------------------------------------------------------------------------
(* mc_allocator_free, of a record some caller holds *)

Free_NoCount(buf) ==
    /\ phase = "unlocked"
    /\ taken' = taken \ {buf} /\ ret' = NULL
    /\ set_bitmap(PageOf(buf), get_index(buf))
    /\ UNCHANGED <<mapped, num_free, next_pool_link, next_available_pool, phase, header, prev>>

\* The page with the most free records of the two becomes next_available_pool.
Free(buf) ==
    /\ phase = "unlocked"
    /\ taken' = taken \ {buf} /\ ret' = NULL
    /\ set_bitmap(PageOf(buf), get_index(buf))
    /\ num_free' = [num_free EXCEPT ![PageOf(buf)] = @ + 1]
    /\ next_available_pool' =
            IF num_free'[PageOf(buf)] > num_free'[next_available_pool]
            THEN PageOf(buf) ELSE next_available_pool
    /\ UNCHANGED <<mapped, next_pool_link, phase, header, prev>>

Alloc ==
    \/ AllocBegin \/ AllocFirst \/ AllocFull \/ AllocWalk \/ AllocFound \/ AllocFails
    \/ \E base \in Pages : AllocMap(base)

Next == Alloc \/ \E buf \in taken : Free(buf)

Spec == Init /\ [][Next]_vars

\* The thread that holds ALLOC_LOCK runs.
FairSpec == Spec /\ WF_vars(phase # "unlocked" /\ Alloc)

-----------------------------------------------------------------------------
(* Properties *)

\* The bitmap, num_free and the records the callers hold say the same of every
\* page, and get_lowest_bit returns its lowest free record, or -1 if it is
\* full: else the walk would stop at a page without room, and index -1 write
\* over its header (memchk_allocator.c:153-160).
PagesAgree ==
    \A p \in mapped :
        LET free == {i \in Slots : get_bufaddr(p, i) \notin taken}
        IN  /\ num_free[p] = Cardinality(free)
            /\ get_lowest_bit(p) = IF free = {} THEN -1 ELSE Min(free)

\* The list from Top has every mapped page once and ends in NULL, so the walk
\* ends, misses no page after next_available_pool and leaves prev at the last
\* page, to which the new ones are linked.
ListWhole ==
    LET N == Cardinality(Pages)
        node[n \in 0..N] == IF n = 0 THEN Top
                            ELSE IF node[n - 1] = NULL THEN NULL
                            ELSE next_pool_link[node[n - 1]]
    IN  /\ node[N] = NULL
        /\ {node[n] : n \in 0..N} \ {NULL} = mapped
        /\ phase = "walk" /\ header = NULL => prev # NULL /\ next_pool_link[prev] = NULL

\* An allocation right after a free finds a record without a walk: of the freed
\* page and next_available_pool, the one with more room is searched
\* (memchk_allocator.c:183).
FreedIsNext ==
    [][\A buf \in taken \ taken' :
        num_free'[next_available_pool'] >= num_free'[PageOf(buf)]]_vars

\* Every allocation returns, with a record or with NULL.
AllocReturns == (phase # "unlocked") ~> (phase = "unlocked")

\* The pool keeps the promise of Pool: no record is handed out twice, and none
\* is taken by a call that fails.
Promise == INSTANCE Pool

PoolSpec == Promise!Spec
=============================================================================
