---------------------------- MODULE PageRegions_proofs ----------------------------
(*****************************************************************************)
(* Proofs about PageRegions, for any page size, blocks and mapped areas: as  *)
(* long as no merge frees the region that __register_block remembers, the    *)
(* list of regions is exact, the usage counted from it is that of the pages  *)
(* that hold blocks, in all and for each area, and every region comes back   *)
(* to its pool.                                                              *)
(*****************************************************************************)
EXTENDS PageRegions, ChainsAndSums

\* The pool grows as it has to; a region to a block is enough.
RegionForEach ==
    IsFiniteSet(Blocks) /\ IsFiniteSet(Regions) /\ Cardinality(Blocks) <= Cardinality(Regions)

-----------------------------------------------------------------------------
(* The invariant. During a merge the list is the one it is going to be: the  *)
(* merged region has swallowed those up to new_end and is followed by ahead. *)

Link == IF pc = "merge" THEN [next EXCEPT ![region] = ahead] ELSE next
End == IF pc = "merge" THEN [end EXCEPT ![region] = new_end] ELSE end

Types ==
    /\ start \in [Nodes -> Nat] /\ end \in [Nodes -> Nat]
    /\ next \in [Nodes -> Regions \cup {NULL}]
    /\ used \in SUBSET Regions
    /\ pageregion_cand \in Regions \cup {NULL} /\ prev_pageregion_cand \in Nodes \cup {NULL}
    /\ pc \in {"idle", "ready", "walk", "merge", "count", "free"}
    /\ blk \in Nat \X Nat
    /\ region \in Nodes \cup {NULL} /\ prev \in Nodes \cup {NULL} /\ ahead \in Regions \cup {NULL}
    /\ new_end \in Nat
    /\ seen \in SUBSET Blocks /\ counted \in SUBSET Nat

\* The list leads from its head through the regions in use; what is left of it
\* at the end begins at region.
Listed ==
    /\ pc # "free" => IsChain(ListHead, Link, used \cup {ListHead}, NULL)
    /\ pc = "free" => IsChain(region, next, used, NULL)
    /\ pc = "idle" => used = {}

\* The regions are in ascending order, with a gap between any two.
Ascending(E, L) ==
    \A r \in used : start[r] <= E[r] /\ (L[r] # NULL => E[r] < start[L[r]])

Pages(E) == UNION {PagesIn(start[r], E[r]) : r \in used}

ListInUse == pc \in {"ready", "walk", "merge", "count"}

\* They have the pages counted and, when they merge over the block being
\* registered, none but those and the block's.
Exact ==
    ListInUse =>
        /\ Ascending(End, Link)
        /\ IF pc = "merge" THEN counted \cup BlockPages = Pages(End) \cup BlockPages
                           ELSE counted = Pages(End)

Candidate ==
    /\ pc = "ready" /\ used # {} => pageregion_cand \in used
    /\ pc \in {"walk", "merge"} => pageregion_cand \in used

\* The predecessor is right, unless the walk has only begun, at the candidate,
\* which it is going to pass.
AfterPrev ==
    /\ prev \in used \cup {ListHead}
    /\ region = next[prev]
    /\ prev \in used => end[prev] < blk[1]

Walking ==
    /\ pc \in {"walk", "merge"} => blk[1] <= blk[2]
    /\ pc = "walk" => AfterPrev \/ (region \in used /\ end[region] < blk[1])
    /\ pc = "merge" =>
        /\ AfterPrev
        /\ region \in used
        /\ start[region] <= blk[2] /\ blk[1] <= end[region] /\ end[region] <= new_end

\* There is a region left for the block being registered.
Room ==
    /\ Cardinality(used) <= Cardinality(seen)
    /\ pc = "walk" => Cardinality(used) < Cardinality(seen)

ListInv == Types /\ Listed /\ Exact /\ Candidate /\ Walking /\ Room

-----------------------------------------------------------------------------
(* Arithmetic *)

LEMMA Rounding ==
    ASSUME NEW b \in Nat \X (Nat \ {0})
    PROVE  From(b) \in Nat /\ To(b) \in Nat /\ From(b) <= To(b)
<1>1. PAGE_SIZE \in Nat \ {0}
  BY PageRegionsAssumption
<1>2. ASSUME NEW a \in Nat
      PROVE  (a % PAGE_SIZE) \in 0..(PAGE_SIZE - 1) /\ (a % PAGE_SIZE) <= a
  BY <1>1, SMTT(30)
<1>3. ASSUME NEW a \in Nat
      PROVE  RoundDown(a) \in Nat /\ RoundDown(a) <= a /\ a - PAGE_SIZE + 1 <= RoundDown(a)
  <2> DEFINE m == (a % PAGE_SIZE)
  <2>1. m \in 0..(PAGE_SIZE - 1) /\ m <= a
    BY <1>2
  <2>2. RoundDown(a) = a - m
    BY DEF RoundDown
  <2> HIDE DEF m
  <2> QED  BY <1>1, <2>1, <2>2
<1>4. b[1] \in Nat /\ b[2] \in Nat
  OBVIOUS
<1>5. RoundDown(b[1]) \in Nat /\ RoundDown(b[1]) <= b[1]
  BY <1>3, <1>4
<1> DEFINE top == b[1] + b[2] + PAGE_SIZE - 1
<1>6. top \in Nat /\ top - PAGE_SIZE + 1 = b[1] + b[2]
  BY <1>1, <1>4
<1>7. RoundDown(top) \in Nat /\ top - PAGE_SIZE + 1 <= RoundDown(top)
  BY <1>3, <1>6
<1>8. To(b) = RoundDown(top) /\ From(b) = RoundDown(b[1])
  BY DEF To, From, RoundUp
<1> HIDE DEF top
<1> QED  BY <1>4, <1>5, <1>6, <1>7, <1>8

LEMMA MinOfTwo ==
    ASSUME NEW a \in Int, NEW b \in Int
    PROVE  Min({a, b}) = IF a <= b THEN a ELSE b
<1> DEFINE m == IF a <= b THEN a ELSE b
<1>1. m \in {a, b} /\ \A y \in {a, b} : m <= y
  OBVIOUS
<1>2. ASSUME NEW x \in {a, b}, \A y \in {a, b} : x <= y PROVE x = m
  BY <1>2
<1> HIDE DEF m
<1>3. (CHOOSE x \in {a, b} : \A y \in {a, b} : x <= y) = m
  BY <1>1, <1>2, Zenon
<1>4. Min({a, b}) = CHOOSE x \in {a, b} : \A y \in {a, b} : x <= y
  BY Zenon DEF Min
<1> QED  BY <1>3, <1>4 DEF m

LEMMA MaxOfTwo ==
    ASSUME NEW a \in Int, NEW b \in Int
    PROVE  Max({a, b}) = IF a >= b THEN a ELSE b
<1> DEFINE m == IF a >= b THEN a ELSE b
<1>1. m \in {a, b} /\ \A y \in {a, b} : m >= y
  OBVIOUS
<1>2. ASSUME NEW x \in {a, b}, \A y \in {a, b} : x >= y PROVE x = m
  BY <1>2
<1> HIDE DEF m
<1>3. (CHOOSE x \in {a, b} : \A y \in {a, b} : x >= y) = m
  BY <1>1, <1>2, Zenon
<1>4. Max({a, b}) = CHOOSE x \in {a, b} : \A y \in {a, b} : x >= y
  BY Zenon DEF Max
<1> QED  BY <1>3, <1>4 DEF m

\* The pool has a free region and gives the lowest.
LEMMA NewRegionIsFree ==
    ASSUME IsFiniteSet(Regions), used \in SUBSET Regions, Cardinality(used) < Cardinality(Regions)
    PROVE  NewRegion \in Regions /\ NewRegion \notin used
<1>1. Regions \ used # {}
  <2> SUFFICES ASSUME Regions \ used = {} PROVE FALSE
    OBVIOUS
  <2>1. used = Regions
    OBVIOUS
  <2>2. Cardinality(Regions) \in Nat
    BY FS_CardinalityType
  <2> QED  BY <2>1, <2>2
<1>2. Regions \ used \in SUBSET Nat
  BY PageRegionsAssumption
<1>3. PICK k \in Regions \ used : \A j \in Regions \ used : k <= j
  BY <1>1, <1>2, Least
<1>4. NewRegion = CHOOSE x \in Regions \ used : \A y \in Regions \ used : x <= y
  BY Zenon DEF NewRegion, Min
<1>5. (CHOOSE x \in Regions \ used : \A y \in Regions \ used : x <= y) \in Regions \ used
  BY <1>3, Zenon
<1> QED  BY <1>4, <1>5

\* Two stretches of pages that meet.
LEMMA PagesMeet ==
    ASSUME NEW a \in Nat, NEW b \in Nat, NEW c \in Nat, NEW d \in Nat, a <= b, c <= d,
           c <= b, a <= d
    PROVE  PagesIn(a, b) \cup PagesIn(c, d) =
               PagesIn(IF a <= c THEN a ELSE c, IF b >= d THEN b ELSE d)
  BY DEF PagesIn

LEMMA PagesType == ASSUME NEW a \in Nat, NEW b \in Nat PROVE PagesIn(a, b) \subseteq Nat
  BY DEF PagesIn

-----------------------------------------------------------------------------
(* The list *)

LEMMA NodeTypes ==
    /\ ListHead \in Nat /\ ListHead \notin Regions
    /\ NULL \notin Nodes /\ NULL \notin Regions /\ NULL # ListHead
    /\ Nodes \subseteq Nat
<1>1. Regions \subseteq Nat \ {0} /\ NULL \notin Nat
  BY PageRegionsAssumption
<1>2. ListHead \in Nat /\ ListHead \notin Regions /\ Nodes \subseteq Nat
  BY <1>1 DEF Nodes, ListHead
<1> QED  BY <1>1, <1>2 DEF Nodes

\* What follows a region in use, or the head, is in use.
LEMMA Follows ==
    ASSUME used \in SUBSET Regions, NEW L \in [Nodes -> Regions \cup {NULL}],
           IsChain(ListHead, L, used \cup {ListHead}, NULL)
    PROVE  /\ \A x \in used \cup {ListHead} : L[x] \in used \cup {NULL}
           /\ L[ListHead] = NULL => used = {}
<1> DEFINE S == used \cup {ListHead}
<1>1. NULL \notin S /\ ListHead \notin used /\ S \subseteq Nodes /\ ListHead \in S
  BY NodeTypes DEF Nodes
<1>2. IsChain(ListHead, L, S, NULL)
  OBVIOUS
<1> HIDE DEF S
<1>3. \A x \in S : L[x] \in S \cup {NULL}
  BY <1>2, ChainLinks
<1>4. \A x \in S : L[x] \in Regions \cup {NULL}
  BY <1>1
<1>5. \A x \in S : L[x] \in used \cup {NULL}
  BY <1>3, <1>4, NodeTypes DEF S
<1>6. ASSUME L[ListHead] = NULL PROVE used = {}
  <2>1. \A x \in S \ {ListHead} : L[x] = IF L[x] = ListHead THEN L[ListHead] ELSE L[x]
    BY <1>4, NodeTypes
  <2>2. IsChain(NULL, L, S \ {ListHead}, NULL)
    BY <1>1, <1>2, <1>6, <2>1, ChainRemove
  <2>3. S \ {ListHead} = {}
    BY <1>1, <2>2, ChainOfNull
  <2> QED  BY <1>1, <2>3 DEF S
<1> QED  BY <1>5, <1>6 DEF S

\* The list without its head.
LEMMA WithoutHead ==
    ASSUME used \in SUBSET Regions, next \in [Nodes -> Regions \cup {NULL}],
           IsChain(ListHead, next, used \cup {ListHead}, NULL)
    PROVE  IsChain(next[ListHead], next, used, NULL)
<1> DEFINE S == used \cup {ListHead}
<1>1. IsChain(ListHead, next, S, NULL)
  OBVIOUS
<1>2. NULL \notin S /\ ListHead \in S /\ S \ {ListHead} = used
  BY NodeTypes
<1>3. \A x \in S \ {ListHead} : next[x] # ListHead
  BY NodeTypes DEF Nodes
<1> HIDE DEF S
<1>4. \A x \in S \ {ListHead} : next[x] = IF next[x] = ListHead THEN next[ListHead] ELSE next[x]
  BY <1>3
<1>5. IsChain(next[ListHead], next, S \ {ListHead}, NULL)
  BY <1>1, <1>2, <1>4, ChainRemove
<1> QED  BY <1>2, <1>5

\* A region is put after p, where it fits.
LEMMA InsertAfter ==
    ASSUME Types, IsChain(ListHead, next, used \cup {ListHead}, NULL), Ascending(end, next),
           NEW p \in used \cup {ListHead}, NEW s \in Nat, NEW e \in Nat, s <= e,
           p \in used => end[p] < s,
           next[p] # NULL => e < start[next[p]],
           NewRegion \in Regions, NewRegion \notin used,
           Insert(p, s, e, next[p])
    PROVE  /\ start' \in [Nodes -> Nat] /\ end' \in [Nodes -> Nat]
           /\ next' \in [Nodes -> Regions \cup {NULL}]
           /\ used' = used \cup {NewRegion} /\ used' \in SUBSET Regions
           /\ IsChain(ListHead, next', used' \cup {ListHead}, NULL)
           /\ \A r \in used' : start'[r] <= end'[r] /\ (next'[r] # NULL => end'[r] < start'[next'[r]])
           /\ Pages(end)' = Pages(end) \cup PagesIn(s, e)
<1> DEFINE r == NewRegion
<1>1. /\ start \in [Nodes -> Nat] /\ end \in [Nodes -> Nat]
      /\ next \in [Nodes -> Regions \cup {NULL}] /\ used \in SUBSET Regions
  BY DEF Types
<1>2. /\ used' = used \cup {r}
      /\ start' = [start EXCEPT ![r] = s]
      /\ end' = [end EXCEPT ![r] = e]
      /\ next' = [next EXCEPT ![p] = r, ![r] = next[p]]
  BY DEF Insert
<1> HIDE DEF r
<1>3. r \in Regions /\ r \notin used /\ r # p /\ r # ListHead /\ r # NULL /\ r \in Nodes /\ p \in Nodes
  BY <1>1, NodeTypes DEF r, Nodes
<1>4. \A x \in used \cup {ListHead} : next[x] \in used \cup {NULL}
  BY <1>1, Follows
<1>5. /\ start' \in [Nodes -> Nat] /\ end' \in [Nodes -> Nat]
      /\ next' \in [Nodes -> Regions \cup {NULL}]
      /\ used' \in SUBSET Regions
  BY <1>1, <1>2, <1>3
<1>6. /\ next'[p] = r /\ next'[r] = next[p]
      /\ \A x \in (used \cup {ListHead}) \ {p} : next'[x] = next[x]
  BY <1>1, <1>2, <1>3, NodeTypes DEF Nodes
<1>7. /\ start'[r] = s /\ end'[r] = e
      /\ \A x \in used : start'[x] = start[x] /\ end'[x] = end[x]
  BY <1>1, <1>2, <1>3 DEF Nodes
<1>8. IsChain(ListHead, next', used' \cup {ListHead}, NULL)
  <2>1. NULL \notin used \cup {ListHead} /\ r \notin used \cup {ListHead}
    BY <1>1, <1>3, NodeTypes DEF Nodes
  <2>2. IsChain(ListHead, next', (used \cup {ListHead}) \cup {r}, NULL)
    BY <1>3, <1>6, <2>1, ChainInsert
  <2>3. (used \cup {ListHead}) \cup {r} = used' \cup {ListHead}
    BY <1>2
  <2> QED  BY <2>2, <2>3
<1>9. ASSUME NEW x \in used'
      PROVE  start'[x] <= end'[x] /\ (next'[x] # NULL => end'[x] < start'[next'[x]])
  <2>1. CASE x = r
    <3>1. start'[x] = s /\ end'[x] = e /\ next'[x] = next[p]
      BY <1>6, <1>7, <2>1
    <3>2. next[p] # NULL => next[p] \in used /\ start'[next[p]] = start[next[p]]
      BY <1>4, <1>7
    <3> QED  BY <3>1, <3>2
  <2>2. CASE x # r /\ x = p
    <3>1. start'[x] = start[x] /\ end'[x] = end[x] /\ next'[x] = r /\ x \in used
      BY <1>2, <1>6, <1>7, <2>2
    <3>2. start[x] <= end[x] /\ end[x] < s /\ start'[r] = s
      BY <1>7, <2>2, <3>1 DEF Ascending
    <3> QED  BY <3>1, <3>2
  <2>3. CASE x # r /\ x # p
    <3>1. start'[x] = start[x] /\ end'[x] = end[x] /\ next'[x] = next[x] /\ x \in used
      BY <1>2, <1>6, <1>7, <2>3
    <3>2. start[x] <= end[x] /\ (next[x] # NULL => end[x] < start[next[x]])
      BY <3>1 DEF Ascending
    <3>3. next[x] # NULL => next[x] \in used /\ start'[next[x]] = start[next[x]]
      BY <1>4, <1>7, <3>1
    <3> QED  BY <3>1, <3>2, <3>3
  <2> QED  BY <2>1, <2>2, <2>3
<1>10. Pages(end)' = Pages(end) \cup PagesIn(s, e)
  <2>1. Pages(end)' = UNION {PagesIn(start'[x], end'[x]) : x \in used \cup {r}}
    BY <1>2 DEF Pages, PagesIn
  <2>2. \A x \in used : PagesIn(start'[x], end'[x]) = PagesIn(start[x], end[x])
    BY <1>7
  <2>3. PagesIn(start'[r], end'[r]) = PagesIn(s, e)
    BY <1>7
  <2> QED  BY <2>1, <2>2, <2>3 DEF Pages
<1> QED  BY <1>2, <1>5, <1>8, <1>9, <1>10 DEF r

-----------------------------------------------------------------------------
(* Init and the steps *)

LEMMA InitList == Init => ListInv
<1> SUFFICES ASSUME Init PROVE ListInv
  OBVIOUS
<1>1. /\ start = [r \in Nodes |-> 0] /\ end = [r \in Nodes |-> 0]
      /\ next = [r \in Nodes |-> NULL]
      /\ used = {} /\ pageregion_cand = NULL /\ prev_pageregion_cand = NULL
      /\ pc = "idle" /\ blk = <<0, 0>>
      /\ region = NULL /\ prev = NULL /\ ahead = NULL /\ new_end = 0
      /\ seen = {} /\ counted = {}
  BY DEF Init
<1>2. Types
  BY <1>1 DEF Types
<1>3. Listed
  <2>1. next[ListHead] = NULL
    BY <1>1 DEF Nodes
  <2>2. IsChain(NULL, next, {}, NULL)
    BY ChainEmpty
  <2>3. IsChain(ListHead, next, {} \cup {ListHead}, NULL)
    BY <2>1, <2>2, ChainPrepend
  <2> QED  BY <1>1, <2>3 DEF Listed, Link
<1>4. Exact /\ Candidate /\ Walking
  BY <1>1 DEF Exact, ListInUse, Candidate, Walking
<1>5. Room
  BY <1>1, FS_EmptySet DEF Room
<1> QED  BY <1>2, <1>3, <1>4, <1>5 DEF ListInv

\* What the invariant says outside a merge and outside the release.
LEMMA PlainList ==
    ASSUME ListInv, pc \notin {"merge", "free"}
    PROVE  /\ IsChain(ListHead, next, used \cup {ListHead}, NULL)
           /\ pc \in {"ready", "walk", "count"} => Ascending(end, next) /\ counted = Pages(end)
           /\ \A x \in used \cup {ListHead} : next[x] \in used \cup {NULL}
           /\ next[ListHead] = NULL => used = {}
<1>1. IsChain(ListHead, next, used \cup {ListHead}, NULL)
  BY DEF ListInv, Listed, Link
<1>2. pc \in {"ready", "walk", "count"} => Ascending(end, next) /\ counted = Pages(end)
  BY DEF ListInv, Exact, ListInUse, Link, End
<1>3. used \in SUBSET Regions /\ next \in [Nodes -> Regions \cup {NULL}]
  BY DEF ListInv, Types
<1>4. \A x \in used \cup {ListHead} : next[x] \in used \cup {NULL}
  BY <1>1, <1>3, Follows
<1>5. next[ListHead] = NULL => used = {}
  BY <1>1, <1>3, Follows
<1> QED  BY <1>1, <1>2, <1>4, <1>5

\* To be between two blocks again, the list has to be right again.
LEMMA Ready ==
    ASSUME Types', pc' = "ready",
           IsChain(ListHead, next', used' \cup {ListHead}, NULL),
           \A r \in used' : start'[r] <= end'[r] /\ (next'[r] # NULL => end'[r] < start'[next'[r]]),
           counted' = Pages(end)',
           used' # {} => pageregion_cand' \in used',
           Cardinality(used') <= Cardinality(seen')
    PROVE  ListInv'
<1>1. Listed'
  BY DEF Listed, Link
<1>2. Exact'
  BY DEF Exact, ListInUse, Ascending, Link, End
<1>3. Candidate' /\ Walking' /\ Room'
  BY DEF Candidate, Walking, Room
<1> QED  BY <1>1, <1>2, <1>3 DEF ListInv

\* A block registered as a region of its own.
LEMMA InsertStep ==
    ASSUME RegionForEach, ListInv, pc \in {"ready", "walk"},
           NEW p \in used \cup {ListHead}, NEW s \in Nat, NEW e \in Nat, s <= e,
           p \in used => end[p] < s,
           next[p] # NULL => e < start[next[p]],
           Insert(p, s, e, next[p]), Registered(PagesIn(s, e)),
           pageregion_cand' \in used', prev_pageregion_cand' \in Nodes \cup {NULL},
           seen' \in SUBSET Blocks, Cardinality(used) < Cardinality(seen')
    PROVE  ListInv'
<1>1. /\ Types
      /\ IsChain(ListHead, next, used \cup {ListHead}, NULL)
      /\ Ascending(end, next) /\ counted = Pages(end)
  BY PlainList DEF ListInv
<1>2. IsFiniteSet(used) /\ used \in SUBSET Regions /\ counted \in SUBSET Nat
  BY <1>1, FS_Subset DEF RegionForEach, Types
<1>3. Cardinality(seen') <= Cardinality(Blocks) /\ IsFiniteSet(seen')
  BY FS_Subset DEF RegionForEach
<1>4. /\ Cardinality(used) \in Nat /\ Cardinality(seen') \in Nat
      /\ Cardinality(Blocks) \in Nat /\ Cardinality(Regions) \in Nat
  BY <1>2, <1>3, FS_CardinalityType DEF RegionForEach
<1>5. IsFiniteSet(Regions) /\ Cardinality(used) < Cardinality(Regions)
  BY <1>3, <1>4 DEF RegionForEach
<1>6. NewRegion \in Regions /\ NewRegion \notin used
  BY <1>2, <1>5, NewRegionIsFree
<1>7. /\ start' \in [Nodes -> Nat] /\ end' \in [Nodes -> Nat]
      /\ next' \in [Nodes -> Regions \cup {NULL}]
      /\ used' = used \cup {NewRegion} /\ used' \in SUBSET Regions
      /\ IsChain(ListHead, next', used' \cup {ListHead}, NULL)
      /\ \A r \in used' : start'[r] <= end'[r] /\ (next'[r] # NULL => end'[r] < start'[next'[r]])
      /\ Pages(end)' = Pages(end) \cup PagesIn(s, e)
  BY <1>1, <1>6, InsertAfter
<1>8. /\ pc' = "ready" /\ blk' = <<0, 0>> /\ counted' = counted \cup PagesIn(s, e)
      /\ region' = NULL /\ prev' = NULL /\ ahead' = NULL /\ new_end' = 0
  BY DEF Registered
<1>9. PagesIn(s, e) \subseteq Nat
  BY PagesType
<1>10. Types'
  BY <1>2, <1>7, <1>8, <1>9 DEF Types
<1>11. Cardinality(used') <= Cardinality(seen')
  <2>1. Cardinality(used') = Cardinality(used) + 1
    BY <1>2, <1>6, <1>7, FS_AddElement
  <2> QED  BY <1>4, <2>1
<1> QED  BY <1>1, <1>7, <1>8, <1>10, <1>11, Ready

\* One more block is seen.
LEMMA BlockSeen ==
    ASSUME RegionForEach, seen \in SUBSET Blocks, NEW b \in Blocks, Block(b)
    PROVE  /\ seen' \in SUBSET Blocks
           /\ Cardinality(seen) \in Nat /\ Cardinality(seen') = Cardinality(seen) + 1
           /\ From(b) \in Nat /\ To(b) \in Nat /\ From(b) <= To(b)
<1>1. b \in Nat \X (Nat \ {0})
  BY PageRegionsAssumption
<1>2. b \notin seen
  <2>1. ~Apart(b, b)
    BY <1>1 DEF Apart
  <2> QED  BY <2>1 DEF Block
<1>3. IsFiniteSet(seen)
  BY FS_Subset DEF RegionForEach
<1>4. seen' = seen \cup {b}
  BY DEF Block
<1>5. Cardinality(seen) \in Nat /\ Cardinality(seen') = Cardinality(seen) + 1
  BY <1>2, <1>3, <1>4, FS_AddElement, FS_CardinalityType
<1>6. From(b) \in Nat /\ To(b) \in Nat /\ From(b) <= To(b)
  BY <1>1, Rounding
<1> QED  BY <1>4, <1>5, <1>6

LEMMA BeginStep == ListInv /\ Begin => ListInv'
<1> SUFFICES ASSUME ListInv, Begin PROVE ListInv'
  OBVIOUS
<1>1. Types /\ pc = "idle" /\ used = {}
  BY DEF ListInv, Listed, Begin
<1>2. /\ pc' = "ready" /\ next' = [next EXCEPT ![ListHead] = NULL]
      /\ seen' = {} /\ counted' = {}
      /\ UNCHANGED <<start, end, used, pageregion_cand, prev_pageregion_cand, blk>>
      /\ UNCHANGED <<region, prev, ahead, new_end>>
  BY DEF Begin, cursor
<1>3. Types'
  BY <1>1, <1>2 DEF Types
<1>4. IsChain(ListHead, next', used' \cup {ListHead}, NULL)
  <2>1. next'[ListHead] = NULL
    BY <1>1, <1>2 DEF Types, Nodes
  <2>2. IsChain(NULL, next', {}, NULL)
    BY ChainEmpty
  <2>3. IsChain(ListHead, next', {} \cup {ListHead}, NULL)
    BY <2>1, <2>2, ChainPrepend
  <2> QED  BY <1>1, <1>2, <2>3
<1>5. Pages(end)' = {}
  BY <1>1, <1>2 DEF Pages
<1>6. used' = {} /\ Cardinality(used') <= Cardinality(seen')
  BY <1>1, <1>2, FS_EmptySet
<1> QED  BY <1>2, <1>3, <1>4, <1>5, <1>6, Ready

LEMMA RegisterStep == RegionForEach /\ ListInv /\ Register => ListInv'
<1> SUFFICES ASSUME RegionForEach, ListInv, NEW b \in Blocks,
                    RegisterFirst(b) \/ RegisterFirstFails(b) \/ RegisterStart(b)
             PROVE  ListInv'
  BY DEF Register
<1>1. Types /\ Candidate /\ Room /\ Block(b) /\ pc = "ready" /\ seen \in SUBSET Blocks
  BY DEF ListInv, Types, RegisterFirst, RegisterFirstFails, RegisterStart, Block
<1>2. /\ IsChain(ListHead, next, used \cup {ListHead}, NULL)
      /\ Ascending(end, next) /\ counted = Pages(end)
      /\ \A x \in used \cup {ListHead} : next[x] \in used \cup {NULL}
      /\ next[ListHead] = NULL => used = {}
  BY <1>1, PlainList
<1>3. /\ seen' \in SUBSET Blocks
      /\ Cardinality(seen) \in Nat /\ Cardinality(seen') = Cardinality(seen) + 1
      /\ From(b) \in Nat /\ To(b) \in Nat /\ From(b) <= To(b)
  BY <1>1, BlockSeen
<1>4. Cardinality(used) \in Nat /\ Cardinality(used) <= Cardinality(seen)
  BY <1>1, FS_Subset, FS_CardinalityType DEF RegionForEach, Room, Types
<1>5. Cardinality(used) < Cardinality(seen')
  BY <1>3, <1>4
<1>6. CASE RegisterFirst(b)
  <2>1. /\ next[ListHead] = NULL /\ used = {}
        /\ Insert(ListHead, From(b), To(b), next[ListHead])
        /\ Registered(PagesIn(From(b), To(b)))
        /\ pageregion_cand' = NewRegion /\ prev_pageregion_cand' = ListHead
    BY <1>2, <1>6 DEF RegisterFirst
  <2>2. pageregion_cand' \in used' /\ prev_pageregion_cand' \in Nodes \cup {NULL}
    BY <2>1 DEF Insert, Nodes
  <2>3. ListHead \in used \cup {ListHead} /\ ListHead \notin used
    BY <2>1
  <2> QED  BY <1>1, <1>3, <1>5, <2>1, <2>2, <2>3, InsertStep
<1>7. CASE RegisterFirstFails(b)
  <2>1. /\ UNCHANGED <<start, end, next, used, pageregion_cand, prev_pageregion_cand, pc, blk>>
        /\ UNCHANGED <<region, prev, ahead, new_end, counted>>
    BY <1>7 DEF RegisterFirstFails, list, cursor
  <2>2. Types'
    BY <1>1, <1>3, <2>1 DEF Types
  <2>3. Pages(end)' = Pages(end)
    BY <2>1 DEF Pages, PagesIn
  <2>4. \A r \in used' : start'[r] <= end'[r] /\ (next'[r] # NULL => end'[r] < start'[next'[r]])
    BY <1>2, <2>1 DEF Ascending
  <2>5. used' # {} => pageregion_cand' \in used'
    BY <1>1, <2>1 DEF Candidate
  <2>6. Cardinality(used') <= Cardinality(seen')
    BY <1>3, <1>4, <2>1
  <2>7. IsChain(ListHead, next', used' \cup {ListHead}, NULL) /\ pc' = "ready" /\ counted' = Pages(end)'
    BY <1>1, <1>2, <2>1, <2>3
  <2> QED  BY <2>2, <2>4, <2>5, <2>6, <2>7, Ready
<1>8. CASE RegisterStart(b)
  <2>1. /\ UNCHANGED <<start, end, next, used, pageregion_cand, prev_pageregion_cand>>
        /\ UNCHANGED <<ahead, new_end, counted>>
        /\ pc' = "walk" /\ blk' = <<From(b), To(b)>>
        /\ next[ListHead] # NULL
        /\ IF end[pageregion_cand] < From(b)
           THEN region' = pageregion_cand /\ prev' = prev_pageregion_cand
           ELSE region' = next[ListHead] /\ prev' = ListHead
    BY <1>8 DEF RegisterStart, list
  <2>2. next[ListHead] \in used /\ pageregion_cand \in used
    BY <1>1, <1>2, <2>1 DEF Candidate
  <2>3. used \in SUBSET Regions /\ prev_pageregion_cand \in Nodes \cup {NULL}
    BY <1>1 DEF Types
  <2>4. region' \in Nodes \cup {NULL} /\ prev' \in Nodes \cup {NULL}
    BY <2>1, <2>2, <2>3 DEF Nodes
  <2>5. Types'
    BY <1>1, <1>3, <2>1, <2>4 DEF Types
  <2>6. Listed'
    BY <1>2, <2>1 DEF Listed, Link
  <2>9. Exact'
    BY <1>2, <2>1 DEF Exact, ListInUse, Link, End, Ascending, Pages, PagesIn
  <2>10. Candidate'
    BY <2>1, <2>2 DEF Candidate
  <2>11. AfterPrev' \/ (region' \in used' /\ end'[region'] < blk'[1])
    BY <2>1, <2>2, NodeTypes, <2>3 DEF AfterPrev
  <2>12. Walking'
    BY <1>3, <2>1, <2>11 DEF Walking
  <2>13. Room'
    BY <1>3, <1>4, <2>1 DEF Room
  <2> QED  BY <2>5, <2>6, <2>9, <2>10, <2>12, <2>13 DEF ListInv
<1> QED  BY <1>6, <1>7, <1>8

LEMMA WalkStep ==
    RegionForEach /\ ListInv /\ (Walk \/ InsertBefore \/ InsertLast \/ InsertFails) => ListInv'
<1> SUFFICES ASSUME RegionForEach, ListInv, Walk \/ InsertBefore \/ InsertLast \/ InsertFails
             PROVE  ListInv'
  OBVIOUS
<1>1. Types /\ Candidate /\ Room /\ Walking /\ pc = "walk"
  BY DEF ListInv, Walk, InsertBefore, InsertLast, InsertFails
<1>2. /\ IsChain(ListHead, next, used \cup {ListHead}, NULL)
      /\ Ascending(end, next) /\ counted = Pages(end)
      /\ \A x \in used \cup {ListHead} : next[x] \in used \cup {NULL}
  BY <1>1, PlainList
<1>3. /\ used \in SUBSET Regions /\ seen \in SUBSET Blocks
      /\ start \in [Nodes -> Nat] /\ end \in [Nodes -> Nat]
      /\ blk[1] \in Nat /\ blk[2] \in Nat /\ blk[1] <= blk[2]
      /\ NULL \notin used
  BY <1>1, NodeTypes DEF Types, Walking
<1>4. /\ pageregion_cand \in used
      /\ AfterPrev \/ (region \in used /\ end[region] < blk[1])
      /\ Cardinality(used) < Cardinality(seen)
  BY <1>1 DEF Candidate, Walking, Room
<1>5. AfterPrev => region \in used \cup {NULL}
  BY <1>2 DEF AfterPrev
<1>6. CASE Walk
  <2>1. /\ UNCHANGED <<start, end, next, used, pageregion_cand, prev_pageregion_cand>>
        /\ UNCHANGED <<pc, blk, ahead, new_end, seen, counted>>
        /\ region # NULL /\ end[region] < blk[1]
        /\ prev' = region /\ region' = next[region]
    BY <1>6 DEF Walk, list, input
  <2>2. region \in used
    BY <1>4, <1>5, <2>1
  <2>3. next[region] \in used \cup {NULL} /\ region \in Nodes /\ used \subseteq Nodes
    BY <1>2, <1>3, <2>2 DEF Nodes
  <2>4. Types'
    BY <1>1, <2>1, <2>3 DEF Types
  <2>5. Listed'
    BY <1>1, <1>2, <2>1 DEF Listed, Link
  <2>6. Exact'
    BY <1>1, <1>2, <2>1 DEF Exact, ListInUse, Link, End, Ascending, Pages, PagesIn
  <2>7. Candidate' /\ Room'
    BY <1>1, <2>1 DEF Candidate, Room
  <2>8. AfterPrev'
    BY <2>1, <2>2 DEF AfterPrev
  <2>9. Walking'
    BY <1>1, <1>3, <2>1, <2>8 DEF Walking
  <2> QED  BY <2>4, <2>5, <2>6, <2>7, <2>9 DEF ListInv
<1>7. CASE InsertBefore
  <2>1. /\ region # NULL /\ blk[2] < start[region]
        /\ Insert(prev, blk[1], blk[2], region)
        /\ pageregion_cand' = NewRegion /\ prev_pageregion_cand' = prev
        /\ Registered(BlockPages) /\ seen' = seen
    BY <1>7 DEF InsertBefore
  <2>2. region \in used /\ region \in Nodes
    BY <1>3, <1>4, <1>5, <2>1 DEF Nodes
  <2>3. start[region] <= end[region] /\ start[region] \in Nat /\ end[region] \in Nat
    BY <1>2, <1>3, <2>2 DEF Ascending
  <2>4. AfterPrev
    BY <1>3, <1>4, <2>1, <2>3
  <2>5. /\ prev \in used \cup {ListHead} /\ next[prev] = region
        /\ prev \in used => end[prev] < blk[1]
    BY <2>4 DEF AfterPrev
  <2>6. pageregion_cand' \in used' /\ prev_pageregion_cand' \in Nodes \cup {NULL}
    BY <1>3, <2>1, <2>5 DEF Insert, Nodes
  <2>7. /\ Insert(prev, blk[1], blk[2], next[prev])
        /\ Registered(PagesIn(blk[1], blk[2]))
        /\ next[prev] # NULL => blk[2] < start[next[prev]]
        /\ seen' \in SUBSET Blocks /\ Cardinality(used) < Cardinality(seen')
    BY <1>3, <1>4, <2>1, <2>5 DEF BlockPages
  <2> QED  BY <1>1, <1>3, <2>5, <2>6, <2>7, InsertStep
<1>8. CASE InsertLast
  <2>1. /\ region = NULL
        /\ Insert(prev, blk[1], blk[2], NULL)
        /\ pageregion_cand' = pageregion_cand /\ prev_pageregion_cand' = prev_pageregion_cand
        /\ Registered(BlockPages) /\ seen' = seen
    BY <1>8 DEF InsertLast
  <2>2. AfterPrev
    BY <1>3, <1>4, <2>1
  <2>3. /\ prev \in used \cup {ListHead} /\ next[prev] = NULL
        /\ prev \in used => end[prev] < blk[1]
    BY <2>1, <2>2 DEF AfterPrev
  <2>4. pageregion_cand' \in used' /\ prev_pageregion_cand' \in Nodes \cup {NULL}
    BY <1>1, <1>4, <2>1 DEF Insert, Types
  <2>5. /\ Insert(prev, blk[1], blk[2], next[prev])
        /\ Registered(PagesIn(blk[1], blk[2]))
        /\ next[prev] # NULL => blk[2] < start[next[prev]]
        /\ seen' \in SUBSET Blocks /\ Cardinality(used) < Cardinality(seen')
    BY <1>3, <1>4, <2>1, <2>3 DEF BlockPages
  <2> QED  BY <1>1, <1>3, <2>3, <2>4, <2>5, InsertStep
<1>9. CASE InsertFails
  <2>1. /\ UNCHANGED <<start, end, next, used, pageregion_cand, prev_pageregion_cand>>
        /\ seen' = seen /\ pc' = "ready" /\ counted' = counted \cup {} /\ blk' = <<0, 0>>
        /\ region' = NULL /\ prev' = NULL /\ ahead' = NULL /\ new_end' = 0
    BY <1>9 DEF InsertFails, Registered, list
  <2>2. Types'
    BY <1>1, <2>1 DEF Types
  <2>3. Pages(end)' = Pages(end) /\ counted' = counted
    BY <2>1 DEF Pages, PagesIn
  <2>4. \A r \in used' : start'[r] <= end'[r] /\ (next'[r] # NULL => end'[r] < start'[next'[r]])
    BY <1>2, <2>1 DEF Ascending
  <2>5. used' # {} => pageregion_cand' \in used'
    BY <1>4, <2>1
  <2>6. Cardinality(used') <= Cardinality(seen')
    BY <1>1, <2>1 DEF Room
  <2>7. IsChain(ListHead, next', used' \cup {ListHead}, NULL) /\ pc' = "ready" /\ counted' = Pages(end)'
    BY <1>2, <2>1, <2>3
  <2> QED  BY <2>2, <2>4, <2>5, <2>6, <2>7, Ready
<1> QED  BY <1>6, <1>7, <1>8, <1>9

-----------------------------------------------------------------------------
(* Merging *)

LEMMA MergeBegins == ListInv /\ MergeBegin => ListInv'
<1> SUFFICES ASSUME ListInv, MergeBegin PROVE ListInv'
  OBVIOUS
<1>1. Types /\ Candidate /\ Room /\ Walking /\ pc = "walk"
  BY DEF ListInv, MergeBegin
<1>2. /\ IsChain(ListHead, next, used \cup {ListHead}, NULL)
      /\ Ascending(end, next) /\ counted = Pages(end)
      /\ \A x \in used \cup {ListHead} : next[x] \in used \cup {NULL}
  BY <1>1, PlainList
<1>3. /\ used \in SUBSET Regions /\ NULL \notin used
      /\ start \in [Nodes -> Nat] /\ end \in [Nodes -> Nat]
      /\ next \in [Nodes -> Regions \cup {NULL}]
      /\ blk[1] \in Nat /\ blk[2] \in Nat /\ blk[1] <= blk[2]
  BY <1>1, NodeTypes DEF Types, Walking
<1>4. /\ UNCHANGED <<start, end, next, used, pageregion_cand, prev_pageregion_cand>>
      /\ UNCHANGED <<blk, region, prev, seen, counted>>
      /\ region # NULL
      /\ start[region] <= blk[2] /\ blk[1] <= end[region]
      /\ ahead' = next[region] /\ new_end' = end[region] /\ pc' = "merge"
  BY DEF MergeBegin, list, input
<1>5. AfterPrev \/ (region \in used /\ end[region] < blk[1])
  BY <1>1 DEF Walking
<1>6. AfterPrev => region \in used
  BY <1>2, <1>4 DEF AfterPrev
<1>7. region \in used /\ region \in Nodes /\ next[region] \in Regions \cup {NULL} /\ end[region] \in Nat
  BY <1>3, <1>5, <1>6 DEF Nodes
<1>8. AfterPrev
  BY <1>4, <1>5, <1>7, <1>3
<1>9. Types'
  BY <1>1, <1>4, <1>7 DEF Types
<1>10. Link' = next /\ End' = end
  BY <1>3, <1>4, <1>7 DEF Link, End
<1>11. Listed'
  BY <1>2, <1>4, <1>10 DEF Listed
<1>12. Ascending(End, Link)'
  BY <1>2, <1>4, <1>10 DEF Ascending
<1>13. Pages(End)' = Pages(end)
  BY <1>4, <1>10 DEF Pages, PagesIn
<1>14. Exact'
  BY <1>2, <1>4, <1>12, <1>13 DEF Exact, ListInUse
<1>15. Candidate' /\ Room'
  BY <1>1, <1>4 DEF Candidate, Room
<1>16. AfterPrev'
  BY <1>4, <1>8 DEF AfterPrev
<1>17. Walking'
  BY <1>1, <1>3, <1>4, <1>7, <1>16 DEF Walking
<1> QED  BY <1>9, <1>11, <1>14, <1>15, <1>17 DEF ListInv

\* The list in the middle of a merge.
LEMMA Merging ==
    ASSUME ListInv, pc = "merge"
    PROVE  /\ Types /\ Candidate /\ Room /\ AfterPrev
           /\ used \in SUBSET Regions /\ used \subseteq Nodes /\ NULL \notin used
           /\ start \in [Nodes -> Nat] /\ end \in [Nodes -> Nat] /\ new_end \in Nat
           /\ blk[1] \in Nat /\ blk[2] \in Nat /\ blk[1] <= blk[2]
           /\ start[region] <= blk[2] /\ blk[1] <= end[region] /\ end[region] <= new_end
           /\ region \in used
           /\ Link \in [Nodes -> Regions \cup {NULL}] /\ Link[region] = ahead
           /\ \A x \in Nodes \ {region} : Link[x] = next[x]
           /\ End \in [Nodes -> Nat] /\ End[region] = new_end
           /\ \A x \in Nodes \ {region} : End[x] = end[x]
           /\ IsChain(ListHead, Link, used \cup {ListHead}, NULL)
           /\ \A x \in used \cup {ListHead} : Link[x] \in used \cup {NULL}
           /\ Ascending(End, Link)
           /\ counted \cup BlockPages = Pages(End) \cup BlockPages
<1>1. Types /\ Candidate /\ Room /\ Walking
  BY DEF ListInv
<1>2. /\ used \in SUBSET Regions /\ used \subseteq Nodes /\ NULL \notin used
      /\ start \in [Nodes -> Nat] /\ end \in [Nodes -> Nat] /\ new_end \in Nat
      /\ next \in [Nodes -> Regions \cup {NULL}] /\ ahead \in Regions \cup {NULL}
      /\ blk[1] \in Nat /\ blk[2] \in Nat
  BY <1>1, NodeTypes DEF Types, Nodes
<1>3. /\ AfterPrev /\ blk[1] <= blk[2] /\ region \in used
      /\ start[region] <= blk[2] /\ blk[1] <= end[region] /\ end[region] <= new_end
  BY <1>1 DEF Walking
<1>4. /\ Link = [next EXCEPT ![region] = ahead]
      /\ End = [end EXCEPT ![region] = new_end]
  BY DEF Link, End
<1>5. /\ Link \in [Nodes -> Regions \cup {NULL}] /\ Link[region] = ahead
      /\ \A x \in Nodes \ {region} : Link[x] = next[x]
  BY <1>2, <1>3, <1>4
<1>6. /\ End \in [Nodes -> Nat] /\ End[region] = new_end
      /\ \A x \in Nodes \ {region} : End[x] = end[x]
  BY <1>2, <1>3, <1>4
<1>7. IsChain(ListHead, Link, used \cup {ListHead}, NULL)
  BY DEF ListInv, Listed
<1>8. \A x \in used \cup {ListHead} : Link[x] \in used \cup {NULL}
  BY <1>2, <1>5, <1>7, Follows
<1>9. Ascending(End, Link) /\ counted \cup BlockPages = Pages(End) \cup BlockPages
  BY DEF ListInv, Exact, ListInUse
<1> QED  BY <1>1, <1>2, <1>3, <1>5, <1>6, <1>7, <1>8, <1>9

LEMMA SwallowStep == RegionForEach /\ ListInv /\ Swallow /\ CandidateKept => ListInv'
<1> SUFFICES ASSUME RegionForEach, ListInv, Swallow, CandidateKept PROVE ListInv'
  OBVIOUS
<1>0. /\ pc = "merge" /\ ahead # NULL /\ start[ahead] <= blk[2]
      /\ new_end' = end[ahead] /\ ahead' = next[ahead] /\ used' = used \ {ahead}
      /\ UNCHANGED <<start, end, next, pageregion_cand, prev_pageregion_cand, pc, blk>>
      /\ UNCHANGED <<region, prev, seen, counted>>
  BY DEF Swallow, input
<1>1. /\ Types /\ Candidate /\ Room /\ AfterPrev
      /\ used \in SUBSET Regions /\ used \subseteq Nodes /\ NULL \notin used
      /\ start \in [Nodes -> Nat] /\ end \in [Nodes -> Nat] /\ new_end \in Nat
      /\ blk[1] \in Nat /\ blk[2] \in Nat /\ blk[1] <= blk[2]
      /\ start[region] <= blk[2] /\ blk[1] <= end[region] /\ end[region] <= new_end
      /\ region \in used
  BY <1>0, Merging
<1>2. /\ Link \in [Nodes -> Regions \cup {NULL}] /\ Link[region] = ahead
      /\ \A x \in Nodes \ {region} : Link[x] = next[x]
      /\ End \in [Nodes -> Nat] /\ End[region] = new_end
      /\ \A x \in Nodes \ {region} : End[x] = end[x]
  BY <1>0, Merging
<1>3. /\ IsChain(ListHead, Link, used \cup {ListHead}, NULL)
      /\ \A x \in used \cup {ListHead} : Link[x] \in used \cup {NULL}
      /\ Ascending(End, Link)
      /\ counted \cup BlockPages = Pages(End) \cup BlockPages
  BY <1>0, Merging
<1>4. ahead \in used /\ ahead \in Nodes /\ ahead # ListHead
  BY <1>0, <1>1, <1>2, <1>3, NodeTypes
<1>5. /\ start[region] <= new_end /\ new_end < start[ahead]
      /\ start[ahead] <= End[ahead]
      /\ Link[ahead] # NULL => End[ahead] < start[Link[ahead]]
  BY <1>0, <1>1, <1>2, <1>3, <1>4 DEF Ascending
<1>6. start[region] \in Nat /\ start[ahead] \in Nat /\ region \in Nodes
  BY <1>1, <1>4
<1>7. ahead # region
  BY <1>1, <1>5, <1>6
<1>8. Link[ahead] = next[ahead] /\ End[ahead] = end[ahead] /\ end[ahead] \in Nat
      /\ next[ahead] \in Regions \cup {NULL}
  BY <1>1, <1>2, <1>4, <1>7
<1>9. ahead # pageregion_cand
  <2>1. used \ used' = {ahead}
    BY <1>0, <1>4
  <2> QED  BY <1>0, <2>1 DEF CandidateKept
<1>10. Types'
  <2>1. used' \in SUBSET Regions /\ ahead' \in Regions \cup {NULL} /\ new_end' \in Nat
    BY <1>0, <1>1, <1>8
  <2> QED  BY <1>0, <1>1, <2>1 DEF Types
<1>11. /\ Link'[region] = Link[ahead] /\ End'[region] = end[ahead]
       /\ \A x \in Nodes \ {region} : Link'[x] = Link[x] /\ End'[x] = End[x]
  <2>1. Link' = [next EXCEPT ![region] = next[ahead]] /\ End' = [end EXCEPT ![region] = end[ahead]]
    BY <1>0 DEF Link, End
  <2>2. next \in [Nodes -> Regions \cup {NULL}]
    BY <1>1 DEF Types
  <2> QED  BY <1>1, <1>2, <1>6, <1>8, <2>1, <2>2
<1>12. Listed'
  <2> DEFINE S == used \cup {ListHead}
  <2>1. /\ NULL \notin S /\ ahead \in S /\ region \in S /\ S \subseteq Nodes
    BY <1>1, <1>4, NodeTypes DEF Nodes
  <2>2. IsChain(ListHead, Link, S, NULL)
    BY <1>3
  <2>3. S \ {ahead} = used' \cup {ListHead}
    BY <1>0, <1>4
  <2> HIDE DEF S
  <2>4. \A y \in S : Link[y] = Link[region] => y = region
    BY <1>2, <2>1, <2>2, ChainInjective
  <2>5. ASSUME NEW x \in S \ {ahead}
        PROVE  Link'[x] = IF Link[x] = ahead THEN Link[ahead] ELSE Link[x]
    <3>1. CASE x = region
      BY <1>2, <1>11, <3>1
    <3>2. CASE x # region
      BY <1>2, <1>11, <2>1, <2>4, <3>2
    <3> QED  BY <3>1, <3>2
  <2>6. IsChain(ListHead, Link', S \ {ahead}, NULL)
    BY <1>4, <2>1, <2>2, <2>5, ChainRemove
  <2> QED  BY <1>0, <2>3, <2>6 DEF Listed
<1>13. Ascending(End, Link)'
  <2>1. ASSUME NEW r \in used'
        PROVE  start'[r] <= End'[r] /\ (Link'[r] # NULL => End'[r] < start'[Link'[r]])
    <3>1. r \in used /\ r \in Nodes /\ start' = start
      BY <1>0, <1>1
    <3>2. CASE r = region
      <4>1. start[region] <= end[ahead]
        BY <1>1, <1>5, <1>6, <1>8
      <4> QED  BY <1>5, <1>8, <1>11, <3>1, <3>2, <4>1
    <3>3. CASE r # region
      <4>1. start[r] <= End[r] /\ (Link[r] # NULL => End[r] < start[Link[r]])
        BY <1>3, <3>1 DEF Ascending
      <4> QED  BY <1>11, <3>1, <3>3, <4>1
    <3> QED  BY <3>2, <3>3
  <2> QED  BY <2>1 DEF Ascending
<1>14. (counted \cup BlockPages = Pages(End) \cup BlockPages)'
  <2> DEFINE Others == UNION {PagesIn(start[r], End[r]) : r \in used \ {region, ahead}}
  <2>1. Pages(End) = Others \cup PagesIn(start[region], new_end) \cup PagesIn(start[ahead], end[ahead])
    <3>1. used = (used \ {region, ahead}) \cup {region} \cup {ahead}
      BY <1>1, <1>4
    <3>2. Pages(End) = Others \cup PagesIn(start[region], End[region]) \cup PagesIn(start[ahead], End[ahead])
      BY <3>1 DEF Pages
    <3> QED  BY <1>2, <1>8, <3>2
  <2>2. Pages(End)' = Others \cup PagesIn(start[region], end[ahead])
    <3>1. used' = (used \ {region, ahead}) \cup {region}
      BY <1>0, <1>1, <1>7
    <3>2. Pages(End)' = UNION {PagesIn(start[r], End'[r]) : r \in (used \ {region, ahead}) \cup {region}}
      BY <1>0, <3>1 DEF Pages, PagesIn
    <3>3. \A r \in used \ {region, ahead} : PagesIn(start[r], End'[r]) = PagesIn(start[r], End[r])
      BY <1>1, <1>11
    <3>4. PagesIn(start[region], End'[region]) = PagesIn(start[region], end[ahead])
      BY <1>11
    <3> QED  BY <3>2, <3>3, <3>4
  <2>3. PagesIn(start[region], new_end) \cup PagesIn(start[ahead], end[ahead]) \cup PagesIn(blk[1], blk[2])
          = PagesIn(start[region], end[ahead]) \cup PagesIn(blk[1], blk[2])
    <3>1. start[ahead] <= end[ahead] /\ blk[1] <= new_end
      <4>1. end[region] \in Nat
        BY <1>1, <1>6
      <4> QED  BY <1>1, <1>5, <1>8, <4>1
    <3>2. /\ start[region] \in Nat /\ new_end \in Nat /\ start[ahead] \in Nat /\ end[ahead] \in Nat
          /\ blk[1] \in Nat /\ blk[2] \in Nat
          /\ start[region] <= new_end /\ new_end < start[ahead] /\ start[ahead] <= blk[2]
      BY <1>0, <1>1, <1>5, <1>6, <1>8
    <3> QED  BY <3>1, <3>2 DEF PagesIn
  <2>4. BlockPages = PagesIn(blk[1], blk[2]) /\ BlockPages' = PagesIn(blk[1], blk[2])
    BY <1>0 DEF BlockPages, PagesIn
  <2> HIDE DEF Others
  <2>5. Pages(End)' \cup PagesIn(blk[1], blk[2]) = Pages(End) \cup PagesIn(blk[1], blk[2])
    BY <2>1, <2>2, <2>3
  <2> QED  BY <1>0, <1>3, <2>4, <2>5
<1>15. Exact'
  BY <1>0, <1>13, <1>14 DEF Exact, ListInUse
<1>16. Candidate'
  BY <1>0, <1>1, <1>9 DEF Candidate
<1>17. AfterPrev'
  <2>1. ASSUME prev = ahead PROVE FALSE
    <3>1. Link[ahead] = region
      BY <1>1, <1>8, <2>1 DEF AfterPrev
    <3>2. End[ahead] < start[region]
      BY <1>1, <1>5, <3>1
    <3> QED  BY <1>1, <1>5, <1>6, <1>8, <3>2
  <2> QED  BY <1>0, <1>1, <2>1 DEF AfterPrev
<1>18. Walking'
  <2>1. end[region] <= end[ahead]
    BY <1>1, <1>5, <1>6, <1>8
  <2> QED  BY <1>0, <1>1, <1>7, <1>17, <2>1 DEF Walking
<1>19. Room'
  <2>1. IsFiniteSet(used) /\ IsFiniteSet(seen)
    BY <1>1, FS_Subset DEF RegionForEach, Types
  <2>2. Cardinality(used') <= Cardinality(used) /\ Cardinality(used') \in Nat /\ Cardinality(used) \in Nat
    BY <1>0, <2>1, FS_Subset, FS_CardinalityType
  <2>3. Cardinality(seen) \in Nat
    BY <2>1, FS_CardinalityType
  <2> QED  BY <1>0, <1>1, <2>2, <2>3 DEF Room
<1> QED  BY <1>10, <1>12, <1>15, <1>16, <1>18, <1>19 DEF ListInv

LEMMA MergeEnds == ListInv /\ MergeEnd => ListInv'
<1> SUFFICES ASSUME ListInv, MergeEnd PROVE ListInv'
  OBVIOUS
<1>0. /\ pc = "merge" /\ (ahead # NULL => start[ahead] > blk[2])
      /\ start' = [start EXCEPT ![region] = Min({start[region], blk[1]})]
      /\ end' = [end EXCEPT ![region] = Max({new_end, blk[2]})]
      /\ next' = [next EXCEPT ![region] = ahead]
      /\ UNCHANGED <<used, pageregion_cand, prev_pageregion_cand, seen>>
      /\ pc' = "ready" /\ counted' = counted \cup BlockPages /\ blk' = <<0, 0>>
      /\ region' = NULL /\ prev' = NULL /\ ahead' = NULL /\ new_end' = 0
  BY DEF MergeEnd, Registered
<1>1. /\ Types /\ Candidate /\ Room /\ AfterPrev
      /\ used \in SUBSET Regions /\ used \subseteq Nodes /\ NULL \notin used
      /\ start \in [Nodes -> Nat] /\ end \in [Nodes -> Nat] /\ new_end \in Nat
      /\ blk[1] \in Nat /\ blk[2] \in Nat /\ blk[1] <= blk[2]
      /\ start[region] <= blk[2] /\ blk[1] <= end[region] /\ end[region] <= new_end
      /\ region \in used
  BY <1>0, Merging
<1>2. /\ Link \in [Nodes -> Regions \cup {NULL}] /\ Link[region] = ahead
      /\ \A x \in Nodes \ {region} : Link[x] = next[x]
      /\ End \in [Nodes -> Nat] /\ End[region] = new_end
      /\ \A x \in Nodes \ {region} : End[x] = end[x]
  BY <1>0, Merging
<1>3. /\ IsChain(ListHead, Link, used \cup {ListHead}, NULL)
      /\ \A x \in used \cup {ListHead} : Link[x] \in used \cup {NULL}
      /\ Ascending(End, Link)
      /\ counted \cup BlockPages = Pages(End) \cup BlockPages
  BY <1>0, Merging
<1>4. region \in Nodes /\ start[region] \in Nat /\ end[region] \in Nat
  BY <1>1
<1> DEFINE lo == IF start[region] <= blk[1] THEN start[region] ELSE blk[1]
           hi == IF new_end >= blk[2] THEN new_end ELSE blk[2]
<1>5. /\ lo \in Nat /\ hi \in Nat /\ lo <= hi /\ new_end <= hi /\ lo <= blk[1]
      /\ lo = start[region] \/ lo = blk[1]
      /\ hi = new_end \/ hi = blk[2]
  BY <1>1, <1>4
<1>6. /\ start' = [start EXCEPT ![region] = lo] /\ end' = [end EXCEPT ![region] = hi]
      /\ next' = Link
  <2>1. Min({start[region], blk[1]}) = lo
    BY <1>1, <1>4, MinOfTwo
  <2>2. Max({new_end, blk[2]}) = hi
    BY <1>1, <1>4, MaxOfTwo
  <2>3. next' = Link
    BY <1>0 DEF Link
  <2> QED  BY <1>0, <2>1, <2>2, <2>3
<1>7. PagesIn(start[region], new_end) \cup PagesIn(blk[1], blk[2]) = PagesIn(lo, hi)
  <2>1. start[region] <= new_end /\ blk[1] <= new_end
    BY <1>1, <1>2, <1>3, <1>4 DEF Ascending
  <2> QED  BY <1>1, <1>4, <2>1, PagesMeet
<1> HIDE DEF lo, hi
<1>8. /\ start' \in [Nodes -> Nat] /\ end' \in [Nodes -> Nat]
      /\ next' \in [Nodes -> Regions \cup {NULL}]
      /\ start'[region] = lo /\ end'[region] = hi
      /\ \A x \in Nodes \ {region} : start'[x] = start[x] /\ end'[x] = end[x]
  BY <1>1, <1>2, <1>4, <1>5, <1>6
<1>9. BlockPages = PagesIn(blk[1], blk[2]) /\ BlockPages \subseteq Nat
  BY <1>1, PagesType DEF BlockPages
<1>10. Types'
  BY <1>0, <1>1, <1>8, <1>9 DEF Types
<1>11. IsChain(ListHead, next', used' \cup {ListHead}, NULL)
  BY <1>0, <1>3, <1>6
<1>12. ASSUME NEW r \in used', Link[r] = region PROVE r \in used /\ end[r] < blk[1]
  <2>1. prev # region
    BY <1>1, <1>4, NodeTypes DEF AfterPrev
  <2>2. /\ prev \in Nodes /\ Link[prev] = region /\ prev \in used \cup {ListHead}
        /\ r \in used \cup {ListHead} /\ region \in used \cup {ListHead} /\ r \in used
    BY <1>0, <1>1, <1>2, <2>1 DEF AfterPrev, Nodes
  <2>3. NULL \notin used \cup {ListHead}
    BY <1>1, NodeTypes
  <2>4. r = prev
    BY <1>3, <1>12, <2>2, <2>3, ChainInjective
  <2> QED  BY <1>1, <2>2, <2>4 DEF AfterPrev
<1>13. ASSUME NEW r \in used'
       PROVE  start'[r] <= end'[r] /\ (next'[r] # NULL => end'[r] < start'[next'[r]])
  <2>1. r \in used /\ r \in Nodes
    BY <1>0, <1>1
  <2>2. start[r] <= End[r] /\ (Link[r] # NULL => End[r] < start[Link[r]])
    BY <1>3, <2>1 DEF Ascending
  <2>3. Link[r] # NULL => Link[r] \in used /\ Link[r] \in Nodes /\ start[Link[r]] \in Nat
    BY <1>1, <1>3, <2>1
  <2>4. CASE r = region
    <3>1. ahead # NULL => ahead # region
      BY <1>1, <1>2, <1>4, <2>2, <2>4
    <3>2. ahead # NULL => hi < start[ahead] /\ start'[ahead] = start[ahead]
      BY <1>0, <1>1, <1>2, <1>5, <1>8, <2>2, <2>3, <2>4, <3>1
    <3> QED  BY <1>2, <1>5, <1>6, <1>8, <2>4, <3>2
  <2>5. CASE r # region /\ Link[r] = region
    <3>1. end[r] < blk[1] /\ End[r] = end[r] /\ end[r] < start[region]
      BY <1>2, <1>3, <1>12, <2>1, <2>2, <2>5, <1>1
    <3>2. end[r] < lo
      BY <1>5, <3>1
    <3> QED  BY <1>6, <1>8, <2>1, <2>2, <2>5, <3>1, <3>2
  <2>6. CASE r # region /\ Link[r] # region
    BY <1>2, <1>6, <1>8, <2>1, <2>2, <2>3, <2>6
  <2> QED  BY <2>4, <2>5, <2>6
<1>14. counted' = Pages(end)'
  <2> DEFINE Others == UNION {PagesIn(start[r], end[r]) : r \in used \ {region}}
  <2>1. used = (used \ {region}) \cup {region}
    BY <1>1
  <2>2. Pages(End) = Others \cup PagesIn(start[region], new_end)
    <3>1. Pages(End) = UNION {PagesIn(start[r], End[r]) : r \in (used \ {region}) \cup {region}}
      BY <2>1 DEF Pages
    <3>2. \A r \in used \ {region} : PagesIn(start[r], End[r]) = PagesIn(start[r], end[r])
      BY <1>1, <1>2
    <3> QED  BY <1>2, <3>1, <3>2
  <2>3. Pages(end)' = Others \cup PagesIn(lo, hi)
    <3>1. Pages(end)' = UNION {PagesIn(start'[r], end'[r]) : r \in (used \ {region}) \cup {region}}
      BY <1>0, <2>1 DEF Pages, PagesIn
    <3>2. \A r \in used \ {region} : PagesIn(start'[r], end'[r]) = PagesIn(start[r], end[r])
      BY <1>1, <1>8
    <3>3. PagesIn(start'[region], end'[region]) = PagesIn(lo, hi)
      BY <1>8
    <3> QED  BY <3>1, <3>2, <3>3
  <2> HIDE DEF Others
  <2> QED  BY <1>0, <1>3, <1>7, <1>9, <2>2, <2>3
<1>15. used' # {} => pageregion_cand' \in used'
  BY <1>0, <1>1 DEF Candidate
<1>16. Cardinality(used') <= Cardinality(seen')
  BY <1>0, <1>1 DEF Room
<1> QED  BY <1>0, <1>10, <1>11, <1>13, <1>14, <1>15, <1>16, Ready

-----------------------------------------------------------------------------
(* Counting and giving back *)

LEMMA EndSteps ==
    RegionForEach /\ ListInv /\ (CountBegin \/ Count \/ CountEnd \/ FreeRegion \/ FreeEnd)
        => ListInv'
<1> SUFFICES ASSUME RegionForEach, ListInv,
                    CountBegin \/ Count \/ CountEnd \/ FreeRegion \/ FreeEnd
             PROVE  ListInv'
  OBVIOUS
<1>1. /\ Types /\ Listed
      /\ used \in SUBSET Regions /\ next \in [Nodes -> Regions \cup {NULL}]
      /\ region \in Nodes \cup {NULL} /\ ListHead \in Nodes
      /\ ListHead \notin used /\ NULL \notin used
  BY NodeTypes DEF ListInv, Types, Nodes
<1>2. Candidate' /\ Walking' /\ pc' \in {"count", "free", "idle"}
  BY DEF CountBegin, Count, CountEnd, FreeRegion, FreeEnd, Candidate, Walking
<1>3. Cardinality(used) <= Cardinality(seen)
  BY DEF ListInv, Room
<1>4. CASE CountBegin
  <2>1. /\ UNCHANGED <<start, end, next, used, pageregion_cand, prev_pageregion_cand>>
        /\ UNCHANGED <<blk, prev, ahead, new_end, seen, counted>>
        /\ pc = "ready" /\ pc' = "count" /\ region' = next[ListHead]
    BY <1>4 DEF CountBegin, list, input
  <2>2. region' \in Nodes \cup {NULL}
    BY <1>1, <2>1 DEF Nodes
  <2>3. Types'
    BY <1>1, <2>1, <2>2 DEF Types
  <2>4. Listed' /\ Room'
    BY <1>1, <1>3, <2>1 DEF Listed, Link, Room
  <2>5. Exact'
    <3>1. Ascending(end, next) /\ counted = Pages(end)
      BY <2>1, PlainList
    <3> QED  BY <2>1, <3>1 DEF Exact, ListInUse, Link, End, Ascending, Pages, PagesIn
  <2> QED  BY <1>2, <2>3, <2>4, <2>5 DEF ListInv
<1>5. CASE Count
  <2>1. /\ UNCHANGED <<start, end, next, used, pageregion_cand, prev_pageregion_cand>>
        /\ UNCHANGED <<pc, blk, prev, ahead, new_end, seen, counted>>
        /\ pc = "count" /\ region # NULL /\ region' = next[region]
    BY <1>5 DEF Count, list, input
  <2>2. region' \in Nodes \cup {NULL}
    BY <1>1, <2>1 DEF Nodes
  <2>3. Types'
    BY <1>1, <2>1, <2>2 DEF Types
  <2>4. Listed' /\ Room'
    BY <1>1, <1>3, <2>1 DEF Listed, Link, Room
  <2>5. Exact'
    <3>1. Ascending(end, next) /\ counted = Pages(end)
      BY <2>1, PlainList
    <3> QED  BY <2>1, <3>1 DEF Exact, ListInUse, Link, End, Ascending, Pages, PagesIn
  <2> QED  BY <1>2, <2>3, <2>4, <2>5 DEF ListInv
<1>6. CASE CountEnd
  <2>1. /\ UNCHANGED <<start, end, next, used, pageregion_cand, prev_pageregion_cand>>
        /\ UNCHANGED <<blk, prev, ahead, new_end, seen, counted>>
        /\ pc = "count" /\ pc' = "free" /\ region' = next[ListHead]
    BY <1>6 DEF CountEnd, list, input
  <2>2. region' \in Nodes \cup {NULL}
    BY <1>1, <2>1 DEF Nodes
  <2>3. Types'
    BY <1>1, <2>1, <2>2 DEF Types
  <2>4. IsChain(next[ListHead], next, used, NULL)
    <3>1. IsChain(ListHead, next, used \cup {ListHead}, NULL)
      BY <1>1, <2>1 DEF Listed, Link
    <3> QED  BY <1>1, <3>1, WithoutHead
  <2>5. Listed' /\ Room'
    BY <1>3, <2>1, <2>4 DEF Listed, Room
  <2>9. Exact'
    BY <2>1 DEF Exact, ListInUse
  <2> QED  BY <1>2, <2>3, <2>5, <2>9 DEF ListInv
<1>7. CASE FreeRegion
  <2>1. /\ UNCHANGED <<start, end, next, pageregion_cand, prev_pageregion_cand>>
        /\ UNCHANGED <<pc, blk, prev, ahead, new_end, seen, counted>>
        /\ pc = "free" /\ region # NULL
        /\ used' = used \ {region} /\ region' = next[region]
    BY <1>7 DEF FreeRegion, input
  <2>2. region' \in Nodes \cup {NULL}
    BY <1>1, <2>1 DEF Nodes
  <2>3. Types'
    BY <1>1, <2>1, <2>2 DEF Types
  <2>4. IsChain(region, next, used, NULL)
    BY <1>1, <2>1 DEF Listed
  <2>5. region \in used
    BY <2>1, <2>4, ChainLinks
  <2>6. IsChain(next[region], next, used \ {region}, NULL)
    <3>1. ASSUME NEW x \in used \ {region} PROVE next[x] # region
      <4> SUFFICES ASSUME next[x] = region PROVE FALSE
        OBVIOUS
      <4>1. next[x] \in used /\ x \in used
        BY <2>5
      <4>2. next[x] # region
        BY <1>1, <2>4, <4>1, ChainInjective
      <4> QED  BY <4>2
    <3>2. \A x \in used \ {region} : next[x] = IF next[x] = region THEN next[region] ELSE next[x]
      BY <3>1
    <3> QED  BY <1>1, <2>4, <2>5, <3>2, ChainRemove
  <2>7. Listed'
    BY <2>1, <2>6 DEF Listed
  <2>8. Room'
    <3>1. IsFiniteSet(used) /\ IsFiniteSet(seen)
      BY <1>1, FS_Subset DEF RegionForEach, Types
    <3>2. Cardinality(used') <= Cardinality(used) /\ Cardinality(used') \in Nat /\ Cardinality(used) \in Nat
      BY <2>1, <3>1, FS_Subset, FS_CardinalityType
    <3>3. Cardinality(seen) \in Nat
      BY <3>1, FS_CardinalityType
    <3> QED  BY <1>3, <2>1, <3>2, <3>3 DEF Room
  <2>9. Exact'
    BY <2>1 DEF Exact, ListInUse
  <2> QED  BY <1>2, <2>3, <2>7, <2>8, <2>9 DEF ListInv
<1>8. CASE FreeEnd
  <2>1. /\ UNCHANGED <<start, end, used, pageregion_cand, prev_pageregion_cand>>
        /\ UNCHANGED <<blk, region, prev, ahead, new_end, seen, counted>>
        /\ pc = "free" /\ pc' = "idle" /\ region = NULL
        /\ next' = [next EXCEPT ![ListHead] = NULL]
    BY <1>8 DEF FreeEnd, cursor, input
  <2>2. Types'
    BY <1>1, <2>1 DEF Types
  <2>3. used = {}
    <3>1. IsChain(NULL, next, used, NULL)
      BY <1>1, <2>1 DEF Listed
    <3> QED  BY <1>1, <3>1, ChainOfNull
  <2>4. next'[ListHead] = NULL
    BY <1>1, <2>1
  <2>5. IsChain(NULL, next', {}, NULL)
    BY ChainEmpty
  <2>6. IsChain(ListHead, next', {} \cup {ListHead}, NULL)
    BY <2>4, <2>5, ChainPrepend
  <2>7. Listed' /\ Room'
    BY <1>3, <2>1, <2>3, <2>6 DEF Listed, Link, Room
  <2>9. Exact'
    BY <2>1 DEF Exact, ListInUse
  <2> QED  BY <1>2, <2>2, <2>7, <2>9 DEF ListInv
<1> QED  BY <1>4, <1>5, <1>6, <1>7, <1>8

LEMMA ListStep == RegionForEach /\ ListInv /\ [Next /\ CandidateKept]_vars => ListInv'
<1> SUFFICES ASSUME RegionForEach, ListInv, [Next /\ CandidateKept]_vars PROVE ListInv'
  OBVIOUS
<1>1. CASE Begin
  BY <1>1, BeginStep
<1>2. CASE Register
  BY <1>2, RegisterStep
<1>3. CASE Walk \/ InsertBefore \/ InsertLast \/ InsertFails
  BY <1>3, WalkStep
<1>4. CASE MergeBegin
  BY <1>4, MergeBegins
<1>5. CASE Swallow /\ CandidateKept
  BY <1>5, SwallowStep
<1>6. CASE MergeEnd
  BY <1>6, MergeEnds
<1>7. CASE CountBegin \/ Count \/ CountEnd \/ FreeRegion \/ FreeEnd
  BY <1>7, EndSteps
<1>8. CASE UNCHANGED vars
  <2>1. /\ UNCHANGED <<start, end, next, used, pageregion_cand, prev_pageregion_cand>>
        /\ UNCHANGED <<pc, blk, region, prev, ahead, new_end, seen, counted>>
    BY <1>8 DEF vars, list, cursor, input
  <2>2. Types' /\ Candidate' /\ Room'
    BY <2>1 DEF ListInv, Types, Candidate, Room
  <2>3. Link' = Link /\ End' = End /\ Pages(End)' = Pages(End) /\ Pages(end)' = Pages(end)
        /\ BlockPages' = BlockPages
    BY <2>1 DEF Link, End, Pages, PagesIn, BlockPages
  <2>4. Ascending(End, Link) => Ascending(End, Link)'
    BY <2>1, <2>3 DEF Ascending
  <2>5. Listed'
    BY <2>1, <2>3 DEF ListInv, Listed
  <2>6. Exact'
    BY <2>1, <2>3, <2>4 DEF ListInv, Exact, ListInUse
  <2>7. Walking'
    BY <2>1 DEF ListInv, Walking, AfterPrev
  <2> QED  BY <2>2, <2>5, <2>6, <2>7 DEF ListInv
<1> QED  BY <1>1, <1>2, <1>3, <1>4, <1>5, <1>6, <1>7, <1>8 DEF Next, Inside

\* The invariant of the list, for every behaviour in which no merge frees the
\* remembered region.
LEMMA ListHolds == RegionForEach => (KeptSpec => []ListInv)
<1> SUFFICES ASSUME RegionForEach PROVE KeptSpec => []ListInv
  OBVIOUS
<1>1. Init => ListInv
  BY InitList
<1>2. ListInv /\ [Next /\ CandidateKept]_vars => ListInv'
  BY ListStep
<1> QED  BY <1>1, <1>2, PTL DEF KeptSpec

-----------------------------------------------------------------------------
(* The properties *)

\* Following(next[ListHead]) is the list.
LEMMA FollowingIsList ==
    ASSUME IsFiniteSet(Regions), used \in SUBSET Regions,
           NEW n \in Nat, NEW s \in [1..n -> used],
           Ordered(next[ListHead], next, used, NULL, n, s)
    PROVE  Following(next[ListHead]) = s
<1> DEFINE N == Cardinality(Regions)
           node[k \in 0..N] == IF k = 0 THEN next[ListHead]
                               ELSE IF node[k - 1] = NULL THEN NULL
                               ELSE next[node[k - 1]]
           walk == [k \in 0..N |-> IF k < n THEN s[k + 1] ELSE NULL]
<1>1. NULL \notin used
  BY NodeTypes
<1>2. IsChain(next[ListHead], next, used, NULL)
  BY DEF IsChain
<1>3. \E f : IsWalk(f, next[ListHead], next, NULL, N)
  BY <1>1, <1>2, WalkExists
<1>4. IsWalk(node, next[ListHead], next, NULL, N)
  BY <1>3, Zenon DEF IsWalk
<1> HIDE DEF node
<1>5. N \in Nat /\ n <= N /\ Along(node, n, s, NULL, N)
  BY <1>1, <1>4, ChainNodes
<1> HIDE DEF N
<1>6. \A k \in 0..N : node[k] = IF k < n THEN s[k + 1] ELSE NULL
  BY <1>5 DEF Along
<1>7. {k \in 0..N : node[k] # NULL} = 0..(n - 1)
  <2>1. ASSUME NEW k \in 0..N PROVE node[k] # NULL <=> k < n
    <3>1. k < n => k + 1 \in 1..n /\ s[k + 1] \in used
      BY <1>5
    <3> QED  BY <1>1, <1>6, <3>1
  <2>2. \A k \in 0..(n - 1) : k \in 0..N /\ k < n
    BY <1>5
  <2>3. \A k \in 0..N : k < n => k \in 0..(n - 1)
    BY <1>5
  <2> QED  BY <2>1, <2>2, <2>3
<1>8. Cardinality(0..(n - 1)) = n
  <2>1. Cardinality(0..(n - 1)) = IF 0 > n - 1 THEN 0 ELSE (n - 1) - 0 + 1
    BY FS_Interval
  <2> QED  BY <2>1
<1>9. \A i \in 1..n : node[i - 1] = s[i]
  <2>1. \A i \in 1..n : i - 1 \in 0..N /\ i - 1 < n /\ (i - 1) + 1 = i
    BY <1>5
  <2> QED  BY <1>6, <2>1
<1>10. [i \in 1..n |-> node[i - 1]] = s
  BY <1>9
<1>11. Following(next[ListHead]) = [i \in 1..Cardinality({k \in 0..N : node[k] # NULL}) |-> node[i - 1]]
  BY Zenon DEF Following, node, N
<1> QED  BY <1>7, <1>8, <1>10, <1>11

LEMMA ExactList == IsFiniteSet(Regions) /\ ListInv => RegionsExact
<1> SUFFICES ASSUME IsFiniteSet(Regions), ListInv, pc = "ready" PROVE RegionsExact
  BY DEF RegionsExact
<1>1. used \in SUBSET Regions /\ next \in [Nodes -> Regions \cup {NULL}]
  BY DEF ListInv, Types
<1>2. /\ IsChain(ListHead, next, used \cup {ListHead}, NULL)
      /\ Ascending(end, next) /\ counted = Pages(end)
  BY PlainList
<1>3. IsChain(next[ListHead], next, used, NULL)
  BY <1>1, <1>2, WithoutHead
<1>4. PICK n \in Nat : \E s \in [1..n -> used] : Ordered(next[ListHead], next, used, NULL, n, s)
  BY <1>3 DEF IsChain
<1>5. PICK s \in [1..n -> used] : Ordered(next[ListHead], next, used, NULL, n, s)
  BY <1>4
<1>6. Following(next[ListHead]) = s
  BY <1>1, <1>5, FollowingIsList
<1>7. Len(s) = n
  OBVIOUS
<1>8. /\ \A x \in used : \E i \in 1..n : s[i] = x
      /\ \A i \in 1..n : next[s[i]] = IF i = n THEN NULL ELSE s[i + 1]
      /\ NULL \notin used
  BY <1>1, <1>5, NodeTypes DEF Ordered
<1>9. ASSUME NEW i \in 1..(n - 1) PROVE end[s[i]] < start[s[i + 1]]
  <2>1. i \in 1..n /\ i + 1 \in 1..n /\ i # n
    OBVIOUS
  <2>2. s[i] \in used /\ next[s[i]] = s[i + 1] /\ s[i + 1] # NULL
    BY <1>8, <2>1
  <2> QED  BY <1>2, <2>2 DEF Ascending
<1>10. used = {s[i] : i \in 1..n}
  BY <1>8
<1>11. counted = UNION {PagesIn(start[s[i]], end[s[i]]) : i \in 1..n}
  BY <1>2, <1>10 DEF Pages
<1> QED  BY <1>6, <1>7, <1>9, <1>10, <1>11 DEF RegionsExact

\* As long as no merge frees the region that __register_block remembers, the
\* list is, between two blocks, in ascending order without regions that touch,
\* holds the pages of the registered blocks and no other, and no region is
\* lost: the search from the remembered region, the insertion before a region
\* or at the end, and the merge over any number of regions all keep it so.
THEOREM ListStaysExact == RegionForEach => (KeptSpec => []RegionsExact)
<1> SUFFICES ASSUME RegionForEach PROVE KeptSpec => []RegionsExact
  OBVIOUS
<1>1. KeptSpec => []ListInv
  BY ListHolds
<1>2. ListInv => RegionsExact
  BY ExactList DEF RegionForEach
<1> QED  BY <1>1, <1>2, PTL

\* After the command __free_all_pageregions has given back every region that
\* __register_block took and no merge has freed.
THEOREM EveryRegionReturned == RegionForEach => (KeptSpec => []RegionsReturned)
<1> SUFFICES ASSUME RegionForEach PROVE KeptSpec => []RegionsReturned
  OBVIOUS
<1>1. KeptSpec => []ListInv
  BY ListHolds
<1>2. ListInv => RegionsReturned
  BY DEF ListInv, Listed, RegionsReturned
<1> QED  BY <1>1, <1>2, PTL

-----------------------------------------------------------------------------
(* The usage. Regions begin and end with a page, so that a region is as      *)
(* large as the pages in it.                                                 *)

OnPage(a) == (a % PAGE_SIZE) = 0

\* The private mappings are whole pages, and the blocks are in them.
AreaPages == UNION {PagesIn(Areas[i][1], Areas[i][2]) : i \in DOMAIN Areas}

BlocksInAreas ==
    /\ Areas \in Seq(Nat \X Nat)
    /\ \A i \in DOMAIN Areas :
        Areas[i][1] <= Areas[i][2] /\ OnPage(Areas[i][1]) /\ OnPage(Areas[i][2])
    /\ \A b \in Blocks : PagesIn(From(b), To(b)) \subseteq AreaPages

LEMMA PageNumbers ==
    /\ PAGE_SIZE \in Nat \ {0}
    /\ \A a \in Nat : OnPage(a) => \E k \in Nat : a = PAGE_SIZE * k
    /\ \A k \in Nat : OnPage(PAGE_SIZE * k) /\ PAGE_SIZE * k \in Nat
    /\ \A j, k \in Nat : PAGE_SIZE * j < PAGE_SIZE * k => j < k
    /\ \A j, k \in Nat : j < k => PAGE_SIZE * j < PAGE_SIZE * k
<1>1. PAGE_SIZE \in Nat \ {0}
  BY PageRegionsAssumption
<1>2. ASSUME NEW a \in Nat, OnPage(a) PROVE \E k \in Nat : a = PAGE_SIZE * k
  <2>1. a = PAGE_SIZE * (a \div PAGE_SIZE) + (a % PAGE_SIZE)
    BY <1>1, SMTT(30)
  <2>2. (a \div PAGE_SIZE) \in Nat
    BY <1>1, SMTT(30)
  <2>3. a = PAGE_SIZE * (a \div PAGE_SIZE)
    BY <1>1, <1>2, <2>1, <2>2, SMTT(30) DEF OnPage
  <2> QED  BY <2>2, <2>3
<1>3. ASSUME NEW k \in Nat PROVE OnPage(PAGE_SIZE * k) /\ PAGE_SIZE * k \in Nat
  BY <1>1, SMTT(30) DEF OnPage
<1>4. ASSUME NEW j \in Nat, NEW k \in Nat, PAGE_SIZE * j < PAGE_SIZE * k PROVE j < k
  BY <1>1, <1>4, SMTT(30)
<1>5. ASSUME NEW j \in Nat, NEW k \in Nat, j < k PROVE PAGE_SIZE * j < PAGE_SIZE * k
  BY <1>1, <1>5, SMTT(30)
<1> QED  BY <1>1, <1>2, <1>3, <1>4, <1>5

\* A stretch of whole pages is as long as its pages together.
LEMMA PageCount ==
    ASSUME NEW a \in Nat, NEW b \in Nat, a <= b, OnPage(a), OnPage(b)
    PROVE  /\ IsFiniteSet(PagesIn(a, b))
           /\ PAGE_SIZE * Cardinality(PagesIn(a, b)) = b - a
<1>1. PICK i \in Nat : a = PAGE_SIZE * i
  BY PageNumbers
<1>2. PICK j \in Nat : b = PAGE_SIZE * j
  BY PageNumbers
<1>3. i <= j
  BY <1>1, <1>2, PageNumbers
<1> DEFINE f == [k \in i..(j - 1) |-> PAGE_SIZE * k]
<1>4. ASSUME NEW k \in i..(j - 1) PROVE f[k] = PAGE_SIZE * k /\ f[k] \in PagesIn(a, b)
  <2>1. k \in Nat /\ k < j /\ ~(k < i)
    OBVIOUS
  <2>2. PAGE_SIZE * k \in Nat /\ OnPage(PAGE_SIZE * k) /\ PAGE_SIZE * k < b /\ ~(PAGE_SIZE * k < a)
    BY <1>1, <1>2, <2>1, PageNumbers
  <2> QED  BY <2>2 DEF PagesIn, OnPage
<1>5. ASSUME NEW x \in i..(j - 1), NEW y \in i..(j - 1), f[x] = f[y] PROVE x = y
  <2>1. x \in Nat /\ y \in Nat /\ PAGE_SIZE * x = PAGE_SIZE * y
    BY <1>4, <1>5
  <2>2. PAGE_SIZE * x \in Nat
    BY <2>1, PageNumbers
  <2>3. ~(x < y) /\ ~(y < x)
    BY <2>1, <2>2, PageNumbers
  <2> QED  BY <2>1, <2>3
<1>6. ASSUME NEW p \in PagesIn(a, b) PROVE \E k \in i..(j - 1) : f[k] = p
  <2>1. p \in Nat /\ OnPage(p) /\ a <= p /\ p < b
    BY DEF PagesIn, OnPage
  <2>2. PICK k \in Nat : p = PAGE_SIZE * k
    BY <2>1, PageNumbers
  <2>3. k < j /\ i <= k
    BY <1>1, <1>2, <2>1, <2>2, PageNumbers
  <2>4. k \in i..(j - 1)
    BY <2>3
  <2> QED  BY <1>4, <2>2, <2>4
<1> HIDE DEF f
<1>7. f \in [i..(j - 1) -> PagesIn(a, b)]
  <2>1. f = [k \in i..(j - 1) |-> f[k]]
    BY DEF f
  <2> QED  BY <1>4, <2>1
<1>8. f \in Bijection(i..(j - 1), PagesIn(a, b))
  BY <1>5, <1>6, <1>7 DEF Bijection, Injection, Surjection, IsInjective
<1>9. IsFiniteSet(i..(j - 1)) /\ Cardinality(i..(j - 1)) = j - i
  <2>1. /\ IsFiniteSet(i..(j - 1))
        /\ Cardinality(i..(j - 1)) = IF i > j - 1 THEN 0 ELSE (j - 1) - i + 1
    BY FS_Interval
  <2> QED  BY <1>3, <2>1
<1>10. IsFiniteSet(PagesIn(a, b)) /\ Cardinality(PagesIn(a, b)) = j - i
  BY <1>8, <1>9, FS_Bijection DEF ExistsBijection
<1>11. PAGE_SIZE * (j - i) = PAGE_SIZE * j - PAGE_SIZE * i
  BY PageNumbers, SMTT(30)
<1> QED  BY <1>1, <1>2, <1>10, <1>11

-----------------------------------------------------------------------------
(* What __register_pageregion charges to the areas for one region *)

LEMMA AreaTypes ==
    ASSUME BlocksInAreas
    PROVE  /\ DOMAIN Areas = 1..Len(Areas) /\ Len(Areas) \in Nat
           /\ \A i \in DOMAIN Areas :
                /\ Areas[i][1] \in Nat /\ Areas[i][2] \in Nat /\ Areas[i][1] <= Areas[i][2]
                /\ OnPage(Areas[i][1]) /\ OnPage(Areas[i][2])
  BY DEF BlocksInAreas

LEMMA AreasAscend ==
    ASSUME BlocksInAreas, NEW i \in DOMAIN Areas, NEW j \in DOMAIN Areas, i < j
    PROVE  Areas[i][2] <= Areas[j][1]
<1>1. /\ DOMAIN Areas = 1..Len(Areas) /\ Len(Areas) \in Nat
      /\ \A k \in DOMAIN Areas :
            Areas[k][1] \in Nat /\ Areas[k][2] \in Nat /\ Areas[k][1] <= Areas[k][2]
  BY AreaTypes
<1>2. \A k \in 1..(Len(Areas) - 1) : Areas[k][2] <= Areas[k + 1][1]
  BY PageRegionsAssumption
<1> DEFINE T == {k \in Nat : i < k /\ k \in DOMAIN Areas /\ ~(Areas[i][2] <= Areas[k][1])}
<1> SUFFICES ASSUME T # {} PROVE FALSE
  BY <1>1
<1>3. PICK k \in T : \A m \in T : k <= m
  <2>1. T \in SUBSET Nat
    OBVIOUS
  <2> HIDE DEF T
  <2> QED  BY <2>1, Least
<1>4. k \in Nat /\ i < k /\ k \in 1..Len(Areas) /\ ~(Areas[i][2] <= Areas[k][1])
  BY <1>1
<1>5. k - 1 \notin T /\ k - 1 \in 1..(Len(Areas) - 1) /\ (k - 1) + 1 = k
  BY <1>1, <1>3, <1>4
<1>6. Areas[k - 1][2] <= Areas[k][1]
  BY <1>2, <1>5
<1>7. CASE k - 1 = i
  BY <1>4, <1>6, <1>7
<1>8. CASE k - 1 # i
  <2>1. i < k - 1 /\ k - 1 \in DOMAIN Areas /\ k - 1 \in Nat
    BY <1>1, <1>4, <1>5, <1>8
  <2>2. Areas[i][2] <= Areas[k - 1][1]
    BY <1>5, <2>1
  <2>3. /\ Areas[i][2] \in Nat /\ Areas[k][1] \in Nat
        /\ Areas[k - 1][1] \in Nat /\ Areas[k - 1][2] \in Nat /\ Areas[k - 1][1] <= Areas[k - 1][2]
    BY <1>1, <1>4, <2>1
  <2>4. Areas[i][2] <= Areas[k][1]
    BY <1>6, <2>2, <2>3
  <2> QED  BY <1>4, <2>4
<1> QED  BY <1>7, <1>8

\* The areas from 1 to n have had their turn.
IsGiven(given, base, n) ==
    given = [i \in 0..n |-> IF i = 0 THEN base ELSE Give(given[i - 1], i)]

LEMMA GivenExists ==
    ASSUME NEW base, NEW n \in Nat
    PROVE  \E given : IsGiven(given, base, n)
<1> DEFINE T == {m \in Nat : \E given : IsGiven(given, base, m)}
<1>1. 0 \in T
  <2> DEFINE g == [i \in 0..0 |-> base]
  <2>1. \A i \in 0..0 : i = 0
    OBVIOUS
  <2>2. g = [i \in 0..0 |-> IF i = 0 THEN base ELSE Give(g[i - 1], i)]
    BY <2>1
  <2>3. IsGiven(g, base, 0)
    BY <2>2 DEF IsGiven
  <2> QED  BY <2>3
<1>2. ASSUME NEW m \in T PROVE m + 1 \in T
  <2>1. PICK h : IsGiven(h, base, m)
    OBVIOUS
  <2>2. m \in Nat
    OBVIOUS
  <2> DEFINE g == [i \in 0..(m + 1) |-> IF i <= m THEN h[i] ELSE Give(h[m], m + 1)]
             G == [i \in 0..(m + 1) |-> IF i = 0 THEN base ELSE Give(g[i - 1], i)]
  <2>3. \A i \in 0..m : h[i] = IF i = 0 THEN base ELSE Give(h[i - 1], i)
    BY <2>1 DEF IsGiven
  <2>4. ASSUME NEW i \in 0..(m + 1) PROVE g[i] = IF i = 0 THEN base ELSE Give(g[i - 1], i)
    <3>1. CASE i <= m
      <4>1. i \in 0..m /\ g[i] = h[i]
        BY <2>2, <3>1
      <4>2. i # 0 => g[i - 1] = h[i - 1]
        BY <2>2, <3>1
      <4> HIDE DEF g
      <4> QED  BY <2>3, <4>1, <4>2
    <3>2. CASE ~(i <= m)
      <4>1. i = m + 1 /\ i # 0 /\ i - 1 = m /\ g[i] = Give(h[m], m + 1) /\ g[i - 1] = h[m]
        BY <2>2, <3>2
      <4> HIDE DEF g
      <4> QED  BY <4>1
    <3> QED  BY <3>1, <3>2
  <2>5. g = [i \in 0..(m + 1) |-> g[i]]
    OBVIOUS
  <2> HIDE DEF g
  <2>6. \A i \in 0..(m + 1) : g[i] = G[i]
    BY <2>4
  <2>7. g = G
    BY <2>5, <2>6
  <2>8. IsGiven(g, base, m + 1)
    BY <2>7 DEF IsGiven, G
  <2>9. m + 1 \in Nat
    BY <2>2
  <2> QED  BY <2>8, <2>9
<1>3. T \in SUBSET Nat
  OBVIOUS
<1> HIDE DEF T
<1>4. T = Nat
  BY <1>1, <1>2, <1>3, NatByStep
<1> QED  BY <1>4 DEF T

\* What of [x, y) lies in area i, and what of it the area is charged with.
Share(i, x, y) == PAGE_SIZE * Cardinality(PagesIn(x, y) \cap PagesIn(Areas[i][1], Areas[i][2]))

LEMMA ShareIs ==
    ASSUME BlocksInAreas, NEW i \in DOMAIN Areas,
           NEW x \in Nat, NEW y \in Nat, OnPage(x), OnPage(y)
    PROVE  /\ y <= x \/ y <= Areas[i][1] \/ Areas[i][2] <= x => Share(i, x, y) = 0
           /\ \A l \in Nat, m \in Nat :
                /\ l = IF x <= Areas[i][1] THEN Areas[i][1] ELSE x
                /\ m = IF y <= Areas[i][2] THEN y ELSE Areas[i][2]
                /\ l <= m
                => Share(i, x, y) = m - l
<1> DEFINE a == Areas[i][1]
           b == Areas[i][2]
           both == PagesIn(x, y) \cap PagesIn(a, b)
<1>1. a \in Nat /\ b \in Nat /\ a <= b /\ OnPage(a) /\ OnPage(b)
  BY AreaTypes
<1>2. Share(i, x, y) = PAGE_SIZE * Cardinality(both)
  BY Zenon DEF Share
<1> HIDE DEF a, b
<1>3. ASSUME y <= x \/ y <= a \/ b <= x PROVE Share(i, x, y) = 0
  <2>1. both = {}
    BY <1>1, <1>3 DEF PagesIn
  <2>2. Cardinality(both) = 0
    BY <2>1, FS_EmptySet
  <2> HIDE DEF both
  <2> QED  BY <1>2, <2>2, PageNumbers
<1>4. ASSUME NEW l \in Nat, NEW m \in Nat, l = (IF x <= a THEN a ELSE x),
             m = (IF y <= b THEN y ELSE b), l <= m
      PROVE  Share(i, x, y) = m - l
  <2>1. OnPage(l) /\ OnPage(m)
    BY <1>1, <1>4, Zenon
  <2>2. both = PagesIn(l, m)
    BY <1>1, <1>4 DEF PagesIn
  <2>3. PAGE_SIZE * Cardinality(PagesIn(l, m)) = m - l
    BY <1>4, <2>1, PageCount
  <2> HIDE DEF both
  <2> QED  BY <1>2, <2>2, <2>3
<1> QED  BY <1>3, <1>4 DEF a, b

\* The first k areas have been charged with their shares of [s, e), and what
\* is left of it, from l on, lies behind them and begins no later than others.
ChargedTo(acc, u, s, e, k) ==
    \E l \in Nat :
        /\ s <= l /\ l <= e /\ OnPage(l) /\ acc.left = <<l, e>>
        /\ acc.usage \in [DOMAIN Areas -> Nat]
        /\ \A i \in DOMAIN Areas : acc.usage[i] = IF i <= k THEN u[i] + Share(i, s, e) ELSE u[i]
        /\ l < e => \A i \in DOMAIN Areas : i <= k => Areas[i][2] <= l
        /\ s < l => \A i \in DOMAIN Areas : i > k => l <= Areas[i][1]

LEMMA GiveNext ==
    ASSUME BlocksInAreas, NEW u \in [DOMAIN Areas -> Nat],
           NEW s \in Nat, NEW e \in Nat, s <= e, OnPage(s), OnPage(e),
           PagesIn(s, e) \subseteq AreaPages,
           NEW k \in Nat, k < Len(Areas), NEW acc, ChargedTo(acc, u, s, e, k)
    PROVE  ChargedTo(Give(acc, k + 1), u, s, e, k + 1)
<1> DEFINE n == k + 1
           a == Areas[n][1]
           b == Areas[n][2]
<1>1. PICK l \in Nat :
        /\ s <= l /\ l <= e /\ OnPage(l) /\ acc.left = <<l, e>>
        /\ acc.usage \in [DOMAIN Areas -> Nat]
        /\ \A i \in DOMAIN Areas : acc.usage[i] = IF i <= k THEN u[i] + Share(i, s, e) ELSE u[i]
        /\ l < e => \A i \in DOMAIN Areas : i <= k => Areas[i][2] <= l
        /\ s < l => \A i \in DOMAIN Areas : i > k => l <= Areas[i][1]
  BY DEF ChargedTo
<1>2. DOMAIN Areas = 1..Len(Areas) /\ Len(Areas) \in Nat
  BY AreaTypes
<1>3. n \in DOMAIN Areas /\ n \in Nat /\ n > k
  BY <1>2
<1>4. \A i \in DOMAIN Areas : i \in Nat /\ (i <= n <=> (i <= k \/ i = n)) /\ (i > k <=> (i > n \/ i = n))
  BY <1>2
<1>5. a \in Nat /\ b \in Nat /\ a <= b /\ OnPage(a) /\ OnPage(b)
  BY <1>3, AreaTypes
<1>6. /\ \A i \in DOMAIN Areas : i < n => Areas[i][2] <= a
      /\ \A i \in DOMAIN Areas : n < i => b <= Areas[i][1]
  BY <1>3, AreasAscend
<1>7. s < l => l <= a
  BY <1>1, <1>3
<1>8. Give(acc, n) = IF l = e \/ a > l \/ b <= l THEN acc
                     ELSE [usage |-> [acc.usage EXCEPT ![n] = @ + Min({e, b}) - l],
                           left |-> <<Min({e, b}), e>>]
  BY <1>1 DEF Give
<1>9. acc.usage[n] = u[n] /\ u[n] \in Nat
  BY <1>1, <1>3
<1>10. /\ e <= s \/ e <= a \/ b <= s => Share(n, s, e) = 0
       /\ \A x \in Nat, y \in Nat :
            /\ x = IF s <= a THEN a ELSE s
            /\ y = IF e <= b THEN e ELSE b
            /\ x <= y
            => Share(n, s, e) = y - x
  BY <1>3, ShareIs
<1> HIDE DEF n, a, b
<1>11. CASE l = e \/ a > l \/ b <= l
  <2>1. Give(acc, n) = acc
    BY <1>8, <1>11
  <2>2. l < e => b <= l
    <3>1. SUFFICES ASSUME l < e, a > l PROVE FALSE
      BY <1>1, <1>5, <1>11
    <3>2. l \in PagesIn(s, e)
      BY <1>1, <3>1 DEF PagesIn, OnPage
    <3>3. PICK j \in DOMAIN Areas : l \in PagesIn(Areas[j][1], Areas[j][2])
      BY <3>2 DEF AreaPages
    <3>4. Areas[j][1] \in Nat /\ Areas[j][2] \in Nat
      BY AreaTypes
    <3>5. Areas[j][1] <= l /\ l < Areas[j][2]
      BY <3>3, <3>4 DEF PagesIn
    <3>6. ~(j <= k)
      BY <1>1, <3>1, <3>4, <3>5
    <3>7. j # n
      BY <1>5, <3>1, <3>5 DEF a
    <3>8. n < j
      BY <1>2, <1>3, <1>4, <3>6, <3>7
    <3>9. b <= Areas[j][1]
      BY <1>6, <3>8
    <3> QED  BY <1>5, <3>1, <3>4, <3>5, <3>9
  <2>3. Share(n, s, e) = 0
    <3>1. e <= s \/ e <= a \/ b <= s \/ (b <= l /\ l <= a)
      BY <1>1, <1>5, <1>7, <2>2
    <3>2. ASSUME b <= l /\ l <= a, ~(e <= s), ~(e <= a), ~(b <= s) PROVE Share(n, s, e) = 0
      <4>1. a = b /\ s <= a /\ ~(e <= b)
        BY <1>1, <1>5, <3>2
      <4>2. Share(n, s, e) = b - a
        BY <1>5, <1>10, <4>1
      <4> QED  BY <1>5, <4>1, <4>2
    <3> QED  BY <1>10, <3>1, <3>2
  <2>4. \A i \in DOMAIN Areas : acc.usage[i] = IF i <= n THEN u[i] + Share(i, s, e) ELSE u[i]
    <3>1. acc.usage[n] = u[n] + Share(n, s, e)
      BY <1>9, <2>3
    <3> QED  BY <1>1, <1>4, <3>1
  <2>5. l < e => \A i \in DOMAIN Areas : i <= n => Areas[i][2] <= l
    BY <1>1, <1>4, <2>2 DEF b
  <2>6. s < l => \A i \in DOMAIN Areas : i > n => l <= Areas[i][1]
    BY <1>1, <1>4
  <2> QED  BY <1>1, <2>1, <2>4, <2>5, <2>6 DEF ChargedTo, n
<1>12. CASE ~(l = e \/ a > l \/ b <= l)
  <2> DEFINE m == Min({e, b})
             w == [acc.usage EXCEPT ![n] = @ + m - l]
  <2>1. m = (IF e <= b THEN e ELSE b)
    BY <1>5, MinOfTwo
  <2> HIDE DEF m
  <2>2. m \in Nat /\ l < m /\ m <= e /\ m <= b /\ OnPage(m)
    BY <1>1, <1>5, <1>12, <2>1
  <2>3. Give(acc, n) = [usage |-> w, left |-> <<m, e>>]
    BY <1>8, <1>12 DEF m
  <2>4. Share(n, s, e) = m - l
    <3>1. l = IF s <= a THEN a ELSE s
      BY <1>1, <1>5, <1>7, <1>12
    <3>2. l <= m
      BY <2>2
    <3> QED  BY <1>10, <2>1, <2>2, <3>1, <3>2
  <2>5. w[n] = u[n] + (m - l) /\ w[n] \in Nat
    BY <1>1, <1>3, <1>9, <2>2
  <2>6. \A i \in DOMAIN Areas : i # n => w[i] = acc.usage[i]
    BY <1>1
  <2>7. w \in [DOMAIN Areas -> Nat]
    <3>1. u[n] + m - l \in Nat
      BY <1>9, <2>2
    <3> QED  BY <1>1, <1>3, <1>9, <3>1
  <2> HIDE DEF w
  <2>8. \A i \in DOMAIN Areas : w[i] = IF i <= n THEN u[i] + Share(i, s, e) ELSE u[i]
    <3>1. w[n] = u[n] + Share(n, s, e)
      BY <2>4, <2>5
    <3>2. \A i \in DOMAIN Areas : i # n => w[i] = IF i <= k THEN u[i] + Share(i, s, e) ELSE u[i]
      BY <1>1, <2>6
    <3> QED  BY <1>4, <3>1, <3>2
  <2>9. m < e => \A i \in DOMAIN Areas : i <= n => Areas[i][2] <= m
    <3>1. SUFFICES ASSUME m < e, NEW i \in DOMAIN Areas, i <= n PROVE Areas[i][2] <= m
      OBVIOUS
    <3>2. m = b /\ l < e /\ Areas[i][2] \in Nat
      BY <1>1, <1>5, <2>1, <2>2, <3>1, AreaTypes
    <3>3. CASE i = n
      BY <1>5, <3>2, <3>3 DEF b
    <3>4. CASE i <= k
      <4>1. Areas[i][2] <= l
        BY <1>1, <3>2, <3>4
      <4> QED  BY <2>2, <3>2, <4>1
    <3> QED  BY <1>4, <3>1, <3>3, <3>4
  <2>10. \A i \in DOMAIN Areas : i > n => m <= Areas[i][1]
    <3>1. SUFFICES ASSUME NEW i \in DOMAIN Areas, i > n PROVE m <= Areas[i][1]
      OBVIOUS
    <3>2. b <= Areas[i][1] /\ Areas[i][1] \in Nat
      BY <1>3, <1>4, <1>6, <3>1, AreaTypes
    <3> QED  BY <1>5, <2>2, <3>2
  <2>11. s <= m
    BY <1>1, <2>2
  <2> DEFINE after == [usage |-> w, left |-> <<m, e>>]
  <2>12. after.usage = w /\ after.left = <<m, e>>
    OBVIOUS
  <2> HIDE DEF after
  <2>13. ChargedTo(after, u, s, e, n)
    BY <2>2, <2>7, <2>8, <2>9, <2>10, <2>11, <2>12 DEF ChargedTo
  <2> QED  BY <2>3, <2>13 DEF after, n
<1> QED  BY <1>11, <1>12

\* A region of whole pages, all in areas, is charged to them page by page.
LEMMA ChargeIs ==
    ASSUME BlocksInAreas, NEW r, start[r] \in Nat, end[r] \in Nat, start[r] <= end[r],
           OnPage(start[r]), OnPage(end[r]), PagesIn(start[r], end[r]) \subseteq AreaPages,
           usage \in [DOMAIN Areas -> Nat]
    PROVE  /\ Charged(r) \in [DOMAIN Areas -> Nat]
           /\ \A i \in DOMAIN Areas : Charged(r)[i] = usage[i] + Share(i, start[r], end[r])
<1> DEFINE s == start[r]
           e == end[r]
           base == [usage |-> usage, left |-> <<s, e>>]
           n == Len(Areas)
           given[i \in 0..n] == IF i = 0 THEN base ELSE Give(given[i - 1], i)
<1>1. DOMAIN Areas = 1..n /\ n \in Nat
  BY AreaTypes
<1>2. \E f : IsGiven(f, base, n)
  <2> HIDE DEF base, n
  <2> QED  BY <1>1, GivenExists
<1>3. IsGiven(given, base, n)
  BY <1>2, Zenon DEF IsGiven
<1>4. Charged(r) = given[n].usage
  BY Zenon DEF Charged, given, base, n, s, e
<1> HIDE DEF given
<1>5. \A i \in 0..n : given[i] = IF i = 0 THEN base ELSE Give(given[i - 1], i)
  <2> HIDE DEF base, n
  <2> QED  BY <1>3 DEF IsGiven
<1>6. base.usage = usage /\ base.left = <<s, e>>
  OBVIOUS
<1>7. /\ s \in Nat /\ e \in Nat /\ s <= e /\ OnPage(s) /\ OnPage(e)
      /\ PagesIn(s, e) \subseteq AreaPages
  OBVIOUS
<1> HIDE DEF base, n, s, e
<1> DEFINE T == {k \in Nat : k <= n => ChargedTo(given[k], usage, s, e, k)}
<1>8. 0 \in T
  <2>1. given[0] = base
    BY <1>1, <1>5
  <2>2. \A i \in DOMAIN Areas : base.usage[i] = IF i <= 0 THEN usage[i] + Share(i, s, e) ELSE usage[i]
    BY <1>1, <1>6
  <2>3. \A i \in DOMAIN Areas : ~(i <= 0)
    BY <1>1
  <2>4. ChargedTo(base, usage, s, e, 0)
    BY <1>6, <1>7, <2>2, <2>3 DEF ChargedTo
  <2> QED  BY <2>1, <2>4
<1>9. ASSUME NEW k \in T PROVE k + 1 \in T
  <2>1. k \in Nat /\ k + 1 \in Nat
    OBVIOUS
  <2>2. SUFFICES ASSUME k + 1 <= n PROVE ChargedTo(given[k + 1], usage, s, e, k + 1)
    BY <2>1
  <2>3. k < n /\ ChargedTo(given[k], usage, s, e, k)
    BY <1>1, <2>1, <2>2
  <2>4. given[k + 1] = Give(given[k], k + 1)
    <3>1. k + 1 \in 0..n /\ k + 1 # 0 /\ (k + 1) - 1 = k
      BY <1>1, <2>1, <2>2
    <3> QED  BY <1>5, <3>1
  <2>5. ChargedTo(Give(given[k], k + 1), usage, s, e, k + 1)
    <3> HIDE DEF T
    <3> QED  BY <1>7, <2>1, <2>3, GiveNext DEF n
  <2> QED  BY <2>4, <2>5
<1>10. T = Nat
  <2>1. T \in SUBSET Nat
    OBVIOUS
  <2> HIDE DEF T
  <2> QED  BY <1>8, <1>9, <2>1, NatByStep
<1>11. ChargedTo(given[n], usage, s, e, n)
  BY <1>1, <1>10
<1>12. /\ given[n].usage \in [DOMAIN Areas -> Nat]
       /\ \A i \in DOMAIN Areas : given[n].usage[i] = IF i <= n THEN usage[i] + Share(i, s, e) ELSE usage[i]
  BY <1>11 DEF ChargedTo
<1>13. \A i \in DOMAIN Areas : i <= n
  BY <1>1
<1> QED  BY <1>4, <1>12, <1>13 DEF s, e

-----------------------------------------------------------------------------
(* The invariant of the usage: regions and the block being registered are    *)
(* whole pages of the areas, and the sums are those of the regions counted.  *)

PagesOf(D) == UNION {PagesIn(start[r], end[r]) : r \in D}

SumsAre(t, u, C) ==
    /\ t = PAGE_SIZE * Cardinality(C)
    /\ \A i \in DOMAIN Areas :
        u[i] = PAGE_SIZE * Cardinality(C \cap PagesIn(Areas[i][1], Areas[i][2]))

Sums(C) == SumsAre(total, usage, C)

SumTypes == usage \in [DOMAIN Areas -> Nat] /\ total \in Nat /\ oom \in 0..MaxOom

Aligned ==
    /\ ListInUse => \A r \in used : OnPage(start[r]) /\ OnPage(end[r])
    /\ pc \in {"walk", "merge"} => OnPage(blk[1]) /\ OnPage(blk[2])
    /\ pc = "merge" => OnPage(new_end)

Mapped ==
    /\ ListInUse => counted \subseteq AreaPages
    /\ pc \in {"walk", "merge"} => BlockPages \subseteq AreaPages

\* The regions counted are those before region in the list.
Counting ==
    \E D \in SUBSET used :
        /\ IsChain(region, next, used \ D, NULL)
        /\ region # NULL => \A r \in D : end[r] < start[region]
        /\ Sums(PagesOf(D))

Summed ==
    /\ pc \in {"idle", "ready", "walk", "merge"} => Sums({})
    /\ pc = "count" => Counting
    /\ pc = "free" => Sums(counted)

UsageInv == SumTypes /\ Aligned /\ Mapped /\ Summed

\* Nothing is counted in fresh usages.
LEMMA NoPages ==
    /\ (usage = [i \in DOMAIN Areas |-> 0] /\ total = 0) => Sums({})
    /\ NothingCounted => SumsAre(total', usage', {})
<1>1. \A A : Cardinality({} \cap A) = 0
  BY FS_EmptySet
<1>2. PAGE_SIZE * 0 = 0
  BY PageNumbers
<1>3. Cardinality({}) = 0
  BY FS_EmptySet
<1>4. (usage = [i \in DOMAIN Areas |-> 0] /\ total = 0) => Sums({})
  BY <1>1, <1>2, <1>3 DEF Sums, SumsAre
<1>5. NothingCounted => SumsAre(total', usage', {})
  BY <1>1, <1>2, <1>3 DEF NothingCounted, SumsAre
<1> QED  BY <1>4, <1>5

LEMMA PagesAdd ==
    ASSUME NEW P, NEW Q, IsFiniteSet(P), IsFiniteSet(Q), P \cap Q = {}
    PROVE  /\ PAGE_SIZE * Cardinality(P \cup Q) = PAGE_SIZE * Cardinality(P) + PAGE_SIZE * Cardinality(Q)
           /\ PAGE_SIZE * Cardinality(P) \in Nat /\ PAGE_SIZE * Cardinality(Q) \in Nat
<1>1. Cardinality(P) \in Nat /\ Cardinality(Q) \in Nat
  BY FS_CardinalityType
<1>2. Cardinality(P \cap Q) = 0
  BY FS_EmptySet
<1>3. Cardinality(P \cup Q) = Cardinality(P) + Cardinality(Q) - Cardinality(P \cap Q)
  BY FS_Union, Zenon
<1>4. Cardinality(P \cup Q) = Cardinality(P) + Cardinality(Q)
  BY <1>1, <1>2, <1>3
<1>5. \A j, k \in Nat : PAGE_SIZE * (j + k) = PAGE_SIZE * j + PAGE_SIZE * k
  BY PageNumbers, SMTT(30)
<1> QED  BY <1>1, <1>4, <1>5, PageNumbers

\* The sums with the pages of one more region.
LEMMA SumsAdd ==
    ASSUME BlocksInAreas, NEW P, IsFiniteSet(P), Sums(P),
           NEW s \in Nat, NEW e \in Nat, s <= e, OnPage(s), OnPage(e), P \cap PagesIn(s, e) = {},
           total' = total + e - s,
           \A i \in DOMAIN Areas : usage'[i] = usage[i] + Share(i, s, e)
    PROVE  SumsAre(total', usage', P \cup PagesIn(s, e))
<1> DEFINE Q == PagesIn(s, e)
<1>1. IsFiniteSet(Q) /\ PAGE_SIZE * Cardinality(Q) = e - s
  BY PageCount
<1> HIDE DEF Q
<1>2. P \cap Q = {}
  BY DEF Q
<1>3. /\ PAGE_SIZE * Cardinality(P \cup Q) = PAGE_SIZE * Cardinality(P) + PAGE_SIZE * Cardinality(Q)
      /\ PAGE_SIZE * Cardinality(P) \in Nat
  BY <1>1, <1>2, PagesAdd
<1>4. total = PAGE_SIZE * Cardinality(P)
  BY DEF Sums, SumsAre
<1>5. total' = PAGE_SIZE * Cardinality(P \cup Q)
  BY <1>1, <1>3, <1>4
<1>6. ASSUME NEW i \in DOMAIN Areas
      PROVE  usage'[i] = PAGE_SIZE * Cardinality((P \cup Q) \cap PagesIn(Areas[i][1], Areas[i][2]))
  <2> DEFINE A == PagesIn(Areas[i][1], Areas[i][2])
  <2>1. usage[i] = PAGE_SIZE * Cardinality(P \cap A) /\ usage'[i] = usage[i] + Share(i, s, e)
    BY DEF Sums, SumsAre
  <2>2. Share(i, s, e) = PAGE_SIZE * Cardinality(Q \cap A)
    BY Zenon DEF Share, Q
  <2> HIDE DEF A
  <2>3. (P \cap A) \cap (Q \cap A) = {} /\ (P \cup Q) \cap A = (P \cap A) \cup (Q \cap A)
    BY <1>2
  <2>4. IsFiniteSet(P \cap A) /\ IsFiniteSet(Q \cap A)
    <3>1. P \cap A \in SUBSET P /\ Q \cap A \in SUBSET Q
      OBVIOUS
    <3> QED  BY <1>1, <3>1, FS_Subset
  <2>5. PAGE_SIZE * Cardinality((P \cap A) \cup (Q \cap A)) =
            PAGE_SIZE * Cardinality(P \cap A) + PAGE_SIZE * Cardinality(Q \cap A)
    BY <2>3, <2>4, PagesAdd
  <2>6. usage'[i] = PAGE_SIZE * Cardinality((P \cup Q) \cap A)
    BY <2>1, <2>2, <2>3, <2>5, Zenon
  <2> QED  BY <2>6 DEF A
<1>7. SumsAre(total', usage', P \cup Q)
  BY <1>5, <1>6 DEF SumsAre
<1> QED  BY <1>7 DEF Q

LEMMA RoundedOnPage == \A a \in Nat : OnPage(RoundDown(a))
<1> SUFFICES ASSUME NEW a \in Nat PROVE OnPage(RoundDown(a))
  OBVIOUS
<1>1. PAGE_SIZE \in Nat \ {0}
  BY PageNumbers
<1>2. a = PAGE_SIZE * (a \div PAGE_SIZE) + (a % PAGE_SIZE) /\ (a \div PAGE_SIZE) \in Nat
  BY <1>1, SMTT(30)
<1> DEFINE k == (a \div PAGE_SIZE)
           m == (a % PAGE_SIZE)
<1>3. m \in Int
  BY <1>1
<1>4. OnPage(PAGE_SIZE * k) /\ PAGE_SIZE * k \in Nat
  BY <1>2, PageNumbers
<1>5. a = PAGE_SIZE * k + m
  BY <1>2
<1>6. RoundDown(a) = a - m
  BY DEF RoundDown
<1> HIDE DEF k, m
<1>7. RoundDown(a) = PAGE_SIZE * k
  <2> DEFINE z == PAGE_SIZE * k
  <2>1. z \in Nat /\ a = z + m
    BY <1>4, <1>5
  <2> HIDE DEF z
  <2>2. RoundDown(a) = z
    BY <1>3, <1>6, <2>1
  <2> QED  BY <2>2 DEF z
<1> QED  BY <1>4, <1>7

\* A block of the table is rounded to whole pages, which are in areas.
LEMMA BlockMapped ==
    ASSUME BlocksInAreas, NEW b \in Blocks
    PROVE  OnPage(From(b)) /\ OnPage(To(b)) /\ PagesIn(From(b), To(b)) \subseteq AreaPages
<1>1. b \in Nat \X (Nat \ {0}) /\ PAGE_SIZE \in Nat \ {0}
  BY PageRegionsAssumption
<1>2. b[1] \in Nat /\ b[1] + b[2] + PAGE_SIZE - 1 \in Nat
  BY <1>1
<1>3. OnPage(RoundDown(b[1])) /\ OnPage(RoundDown(b[1] + b[2] + PAGE_SIZE - 1))
  BY <1>2, RoundedOnPage
<1>4. OnPage(From(b)) /\ OnPage(To(b))
  BY <1>3 DEF From, To, RoundUp
<1> QED  BY <1>4 DEF BlocksInAreas

\* Inserting a region of whole pages keeps the regions in whole pages.
LEMMA InsertAligned ==
    ASSUME start \in [Nodes -> Nat], end \in [Nodes -> Nat], used' \in SUBSET Regions,
           \A r \in used : OnPage(start[r]) /\ OnPage(end[r]),
           NEW p, NEW s, NEW e, NEW n, OnPage(s), OnPage(e), Insert(p, s, e, n)
    PROVE  \A r \in used' : OnPage(start'[r]) /\ OnPage(end'[r])
<1>1. /\ used' = used \cup {NewRegion}
      /\ start' = [start EXCEPT ![NewRegion] = s]
      /\ end' = [end EXCEPT ![NewRegion] = e]
  BY DEF Insert
<1>2. used' \subseteq Nodes
  BY DEF Nodes
<1>3. ASSUME NEW r \in used' PROVE OnPage(start'[r]) /\ OnPage(end'[r])
  <2>1. CASE r = NewRegion
    <3>1. start'[r] = s /\ end'[r] = e
      BY <1>1, <1>2, <2>1
    <3> QED  BY <3>1
  <2>2. CASE r # NewRegion
    <3>1. start'[r] = start[r] /\ end'[r] = end[r] /\ r \in used
      BY <1>1, <1>2, <2>2
    <3> QED  BY <3>1
  <2> QED  BY <2>1, <2>2
<1> QED  BY <1>3

\* Between two blocks again, with nothing added to the sums.
LEMMA UsageReady ==
    ASSUME SumTypes', pc' = "ready",
           \A r \in used' : OnPage(start'[r]) /\ OnPage(end'[r]),
           counted' \subseteq AreaPages,
           SumsAre(total', usage', {})
    PROVE  UsageInv'
<1>1. Aligned'
  BY DEF Aligned
<1>2. Mapped'
  <2>1. AreaPages' = AreaPages
    BY DEF AreaPages, PagesIn
  <2> QED  BY <2>1 DEF Mapped
<1>3. Summed'
  BY DEF Summed, Sums
<1> QED  BY <1>1, <1>2, <1>3 DEF UsageInv

LEMMA UsageInit == Init => UsageInv
<1> SUFFICES ASSUME Init PROVE UsageInv
  OBVIOUS
<1>1. /\ pc = "idle" /\ usage = [i \in DOMAIN Areas |-> 0] /\ total = 0 /\ oom = 0 /\ counted = {}
  BY DEF Init
<1>2. SumTypes
  BY <1>1, PageRegionsAssumption DEF SumTypes
<1>3. Aligned /\ Mapped
  BY <1>1 DEF Aligned, Mapped, ListInUse
<1>4. Summed
  BY <1>1, NoPages DEF Summed
<1> QED  BY <1>2, <1>3, <1>4 DEF UsageInv

LEMMA UsageBegin == ListInv /\ UsageInv /\ Begin => UsageInv'
<1> SUFFICES ASSUME ListInv, UsageInv, Begin PROVE UsageInv'
  OBVIOUS
<1>1. used' = {}
  BY DEF ListInv, Listed, Begin
<1>2. /\ pc = "idle" /\ pc' = "ready" /\ oom' = 0 /\ counted' = {}
      /\ UNCHANGED <<usage, total>>
  BY DEF Begin, sums
<1>3. SumTypes'
  BY <1>2, PageRegionsAssumption DEF UsageInv, SumTypes
<1>4. SumsAre(total', usage', {})
  BY <1>2 DEF UsageInv, Summed, Sums
<1> QED  BY <1>1, <1>2, <1>3, <1>4, UsageReady

LEMMA UsageRegister ==
    ListInv /\ ListInv' /\ BlocksInAreas /\ UsageInv /\ Register => UsageInv'
<1> SUFFICES ASSUME ListInv, ListInv', BlocksInAreas, UsageInv, NEW b \in Blocks,
                    RegisterFirst(b) \/ RegisterFirstFails(b) \/ RegisterStart(b)
             PROVE  UsageInv'
  BY DEF Register
<1>1. pc = "ready"
  BY DEF RegisterFirst, RegisterFirstFails, RegisterStart, Block
<1>2. OnPage(From(b)) /\ OnPage(To(b)) /\ PagesIn(From(b), To(b)) \subseteq AreaPages
  BY BlockMapped
<1>3. /\ SumTypes /\ counted \subseteq AreaPages /\ SumsAre(total, usage, {})
      /\ \A r \in used : OnPage(start[r]) /\ OnPage(end[r])
  BY <1>1 DEF UsageInv, Aligned, Mapped, Summed, Sums, ListInUse
<1>4. start \in [Nodes -> Nat] /\ end \in [Nodes -> Nat] /\ used' \in SUBSET Regions
  BY DEF ListInv, Types
<1>5. CASE RegisterFirst(b)
  <2>1. /\ Insert(ListHead, From(b), To(b), NULL) /\ Registered(PagesIn(From(b), To(b)))
        /\ UNCHANGED <<usage, total, oom>>
    BY <1>5 DEF RegisterFirst, sums
  <2>2. pc' = "ready" /\ counted' = counted \cup PagesIn(From(b), To(b))
    BY <2>1 DEF Registered
  <2>3. \A r \in used' : OnPage(start'[r]) /\ OnPage(end'[r])
    BY <1>2, <1>3, <1>4, <2>1, InsertAligned
  <2>4. SumTypes' /\ SumsAre(total', usage', {}) /\ counted' \subseteq AreaPages
    BY <1>2, <1>3, <2>1, <2>2 DEF SumTypes
  <2> QED  BY <2>2, <2>3, <2>4, UsageReady
<1>6. CASE RegisterFirstFails(b)
  <2>1. /\ oom < MaxOom /\ oom' = oom + 1
        /\ UNCHANGED <<start, end, used, pc, usage, total, counted>>
    BY <1>6 DEF RegisterFirstFails, list, sums
  <2>2. SumTypes'
    BY <1>3, <2>1, PageRegionsAssumption DEF SumTypes
  <2>3. SumsAre(total', usage', {}) /\ counted' \subseteq AreaPages
    BY <1>3, <2>1
  <2> QED  BY <1>1, <1>3, <2>1, <2>2, <2>3, UsageReady
<1>7. CASE RegisterStart(b)
  <2>1. /\ pc' = "walk" /\ blk' = <<From(b), To(b)>>
        /\ UNCHANGED <<start, end, used, usage, total, counted, oom>>
    BY <1>7 DEF RegisterStart, list, sums
  <2>2. SumTypes'
    BY <1>3, <2>1 DEF SumTypes
  <2>3. Aligned'
    BY <1>2, <1>3, <2>1 DEF Aligned
  <2>4. Mapped'
    <3>1. AreaPages' = AreaPages /\ BlockPages' = PagesIn(From(b), To(b))
      BY <2>1 DEF AreaPages, BlockPages, PagesIn
    <3> QED  BY <1>2, <1>3, <2>1, <3>1 DEF Mapped
  <2>5. Summed'
    BY <1>3, <2>1 DEF Summed, Sums
  <2> QED  BY <2>2, <2>3, <2>4, <2>5 DEF UsageInv
<1> QED  BY <1>5, <1>6, <1>7

LEMMA UsageWalk ==
    ListInv /\ ListInv' /\ UsageInv
        /\ (Walk \/ InsertBefore \/ InsertLast \/ InsertFails \/ MergeBegin) => UsageInv'
<1> SUFFICES ASSUME ListInv, ListInv', UsageInv,
                    Walk \/ InsertBefore \/ InsertLast \/ InsertFails \/ MergeBegin
             PROVE  UsageInv'
  OBVIOUS
<1>1. pc = "walk"
  BY DEF Walk, InsertBefore, InsertLast, InsertFails, MergeBegin
<1>2. /\ SumTypes /\ counted \subseteq AreaPages /\ SumsAre(total, usage, {})
      /\ OnPage(blk[1]) /\ OnPage(blk[2]) /\ BlockPages \subseteq AreaPages
      /\ \A r \in used : OnPage(start[r]) /\ OnPage(end[r])
  BY <1>1 DEF UsageInv, Aligned, Mapped, Summed, Sums, ListInUse
<1>3. start \in [Nodes -> Nat] /\ end \in [Nodes -> Nat] /\ used' \in SUBSET Regions
  BY DEF ListInv, Types
<1>4. AreaPages' = AreaPages
  BY DEF AreaPages, PagesIn
<1>5. ASSUME UNCHANGED <<start, end, used, blk, usage, total, counted, oom>>,
             pc' \in {"walk", "merge"}, pc' = "merge" => OnPage(new_end')
      PROVE  UsageInv'
  <2>1. SumTypes'
    BY <1>2, <1>5 DEF SumTypes
  <2>2. Aligned'
    BY <1>2, <1>5 DEF Aligned
  <2>3. Mapped'
    <3>1. BlockPages' = BlockPages
      BY <1>5 DEF BlockPages, PagesIn
    <3> QED  BY <1>2, <1>4, <1>5, <3>1 DEF Mapped
  <2>4. Summed'
    BY <1>2, <1>5 DEF Summed, Sums
  <2> QED  BY <2>1, <2>2, <2>3, <2>4 DEF UsageInv
<1>6. CASE Walk
  <2>1. UNCHANGED <<start, end, used, pc, blk, usage, total, counted, oom>>
    BY <1>6 DEF Walk, list, sums, input
  <2> QED  BY <1>1, <1>5, <2>1
<1>7. CASE MergeBegin
  <2>1. /\ UNCHANGED <<start, end, used, blk, usage, total, counted, oom>>
        /\ pc' = "merge" /\ new_end' = end[region]
    BY <1>7 DEF MergeBegin, list, sums, input
  <2>2. region \in used
    <3>1. region' \in used' /\ region' = region
      BY <1>7, <2>1 DEF MergeBegin, ListInv, Walking
    <3> QED  BY <2>1, <3>1
  <2>3. OnPage(new_end')
    BY <1>2, <2>1, <2>2
  <2> QED  BY <1>5, <2>1, <2>3
<1>8. CASE InsertBefore \/ InsertLast
  <2>1. /\ \E n : Insert(prev, blk[1], blk[2], n)
        /\ Registered(BlockPages) /\ UNCHANGED <<usage, total, oom>>
    BY <1>8 DEF InsertBefore, InsertLast, sums
  <2>2. pc' = "ready" /\ counted' = counted \cup BlockPages
    BY <2>1 DEF Registered
  <2>3. \A r \in used' : OnPage(start'[r]) /\ OnPage(end'[r])
    BY <1>2, <1>3, <2>1, InsertAligned
  <2>4. SumTypes' /\ SumsAre(total', usage', {}) /\ counted' \subseteq AreaPages
    BY <1>2, <2>1, <2>2 DEF SumTypes
  <2> QED  BY <2>2, <2>3, <2>4, UsageReady
<1>9. CASE InsertFails
  <2>1. /\ oom < MaxOom /\ oom' = oom + 1 /\ Registered({})
        /\ UNCHANGED <<start, end, used, usage, total>>
    BY <1>9 DEF InsertFails, list, sums
  <2>2. pc' = "ready" /\ counted' = counted \cup {}
    BY <2>1 DEF Registered
  <2>3. SumTypes'
    BY <1>2, <2>1, PageRegionsAssumption DEF SumTypes
  <2>4. SumsAre(total', usage', {}) /\ counted' \subseteq AreaPages
    BY <1>2, <2>1, <2>2
  <2> QED  BY <1>2, <2>1, <2>2, <2>3, <2>4, UsageReady
<1> QED  BY <1>6, <1>7, <1>8, <1>9

LEMMA UsageMerge ==
    ListInv /\ ListInv' /\ UsageInv /\ (Swallow \/ MergeEnd) => UsageInv'
<1> SUFFICES ASSUME ListInv, ListInv', UsageInv, Swallow \/ MergeEnd PROVE UsageInv'
  OBVIOUS
<1>1. pc = "merge"
  BY DEF Swallow, MergeEnd
<1>2. /\ SumTypes /\ counted \subseteq AreaPages /\ SumsAre(total, usage, {})
      /\ OnPage(blk[1]) /\ OnPage(blk[2]) /\ OnPage(new_end) /\ BlockPages \subseteq AreaPages
      /\ \A r \in used : OnPage(start[r]) /\ OnPage(end[r])
  BY <1>1 DEF UsageInv, Aligned, Mapped, Summed, Sums, ListInUse
<1>3. /\ start \in [Nodes -> Nat] /\ end \in [Nodes -> Nat] /\ new_end \in Nat
      /\ blk[1] \in Nat /\ blk[2] \in Nat /\ used \subseteq Nodes /\ region \in used
      /\ Link[region] = ahead
      /\ \A x \in used \cup {ListHead} : Link[x] \in used \cup {NULL}
  BY <1>1, Merging
<1>4. CASE Swallow
  <2>1. /\ ahead # NULL /\ new_end' = end[ahead] /\ used' = used \ {ahead}
        /\ UNCHANGED <<start, end, pc, blk, usage, total, counted, oom>>
    BY <1>4 DEF Swallow, sums, input
  <2>2. ahead \in used
    BY <1>3, <2>1
  <2>3. SumTypes'
    BY <1>2, <2>1 DEF SumTypes
  <2>4. Aligned'
    BY <1>2, <2>1, <2>2 DEF Aligned
  <2>5. Mapped'
    <3>1. BlockPages' = BlockPages /\ AreaPages' = AreaPages
      BY <2>1 DEF BlockPages, AreaPages, PagesIn
    <3> QED  BY <1>2, <2>1, <3>1 DEF Mapped
  <2>6. Summed'
    BY <1>1, <1>2, <2>1 DEF Summed, Sums
  <2> QED  BY <2>3, <2>4, <2>5, <2>6 DEF UsageInv
<1>5. CASE MergeEnd
  <2>1. /\ start' = [start EXCEPT ![region] = Min({@, blk[1]})]
        /\ end' = [end EXCEPT ![region] = Max({new_end, blk[2]})]
        /\ Registered(BlockPages) /\ UNCHANGED <<used, usage, total, oom>>
    BY <1>5 DEF MergeEnd, sums
  <2>2. pc' = "ready" /\ counted' = counted \cup BlockPages
    BY <2>1 DEF Registered
  <2>3. OnPage(Min({start[region], blk[1]}))
    <3>1. start[region] \in Nat /\ OnPage(start[region])
      BY <1>2, <1>3
    <3>2. Min({start[region], blk[1]}) = IF start[region] <= blk[1] THEN start[region] ELSE blk[1]
      BY <1>3, <3>1, MinOfTwo
    <3> QED  BY <1>2, <3>1, <3>2, Zenon
  <2>4. OnPage(Max({new_end, blk[2]}))
    <3>1. Max({new_end, blk[2]}) = IF new_end >= blk[2] THEN new_end ELSE blk[2]
      BY <1>3, MaxOfTwo
    <3> QED  BY <1>2, <3>1, Zenon
  <2>5. ASSUME NEW r \in used' PROVE OnPage(start'[r]) /\ OnPage(end'[r])
    <3>1. CASE r = region
      <4>1. start'[r] = Min({start[region], blk[1]}) /\ end'[r] = Max({new_end, blk[2]})
        BY <1>3, <2>1, <3>1
      <4> QED  BY <2>3, <2>4, <4>1, Zenon
    <3>2. CASE r # region
      <4>1. start'[r] = start[r] /\ end'[r] = end[r] /\ r \in used
        BY <1>3, <2>1, <3>2
      <4> QED  BY <1>2, <4>1
    <3> QED  BY <3>1, <3>2
  <2>6. SumTypes' /\ SumsAre(total', usage', {}) /\ counted' \subseteq AreaPages
    BY <1>2, <2>1, <2>2 DEF SumTypes
  <2> QED  BY <2>2, <2>5, <2>6, UsageReady
<1> QED  BY <1>4, <1>5

\* The count begins with no region counted, and the whole list ahead.
LEMMA UsageCountBegins == ListInv /\ UsageInv /\ CountBegin => UsageInv'
<1> SUFFICES ASSUME ListInv, UsageInv, CountBegin PROVE UsageInv'
  OBVIOUS
<1>1. /\ pc = "ready" /\ pc' = "count" /\ region' = next[ListHead]
      /\ NothingCounted /\ UNCHANGED <<start, end, next, used, blk, counted, oom>>
  BY DEF CountBegin, list, input
<1>2. /\ used \in SUBSET Regions /\ next \in [Nodes -> Regions \cup {NULL}]
      /\ IsChain(ListHead, next, used \cup {ListHead}, NULL)
  BY <1>1, PlainList DEF ListInv, Types
<1>3. IsChain(next[ListHead], next, used, NULL)
  BY <1>2, WithoutHead
<1>4. SumTypes' /\ Aligned'
  BY <1>1 DEF UsageInv, SumTypes, Aligned, ListInUse, NothingCounted
<1>5. Mapped'
  <2>1. AreaPages' = AreaPages
    BY DEF AreaPages, PagesIn
  <2> QED  BY <1>1, <2>1 DEF UsageInv, Mapped, ListInUse
<1>6. Counting'
  <2>1. used' \ {} = used /\ PagesOf({})' = {}
    BY <1>1 DEF PagesOf
  <2>2. IsChain(region', next', used' \ {}, NULL)
    BY <1>1, <1>3, <2>1
  <2>3. SumsAre(total', usage', {})
    BY <1>1, NoPages
  <2>4. Sums(PagesOf({}))'
    BY <2>1, <2>3 DEF Sums
  <2> QED  BY <2>2, <2>4 DEF Counting
<1>7. Summed'
  BY <1>1, <1>6 DEF Summed
<1> QED  BY <1>4, <1>5, <1>7 DEF UsageInv

\* The region counted is none of those before, and shares no page with them.
LEMMA UsageCounts == ListInv /\ BlocksInAreas /\ UsageInv /\ Count => UsageInv'
<1> SUFFICES ASSUME ListInv, BlocksInAreas, UsageInv, Count PROVE UsageInv'
  OBVIOUS
<1>1. /\ pc = "count" /\ region # NULL /\ region' = next[region]
      /\ usage' = Charged(region) /\ total' = total + end[region] - start[region]
      /\ UNCHANGED <<start, end, next, used, pc, blk, counted, oom>>
  BY DEF Count, list, input
<1>2. /\ used \in SUBSET Regions /\ start \in [Nodes -> Nat] /\ end \in [Nodes -> Nat]
      /\ Ascending(end, next) /\ counted = Pages(end)
      /\ \A x \in used \cup {ListHead} : next[x] \in used \cup {NULL}
  BY <1>1, PlainList DEF ListInv, Types
<1>3. /\ SumTypes /\ counted \subseteq AreaPages /\ Counting
      /\ \A r \in used : OnPage(start[r]) /\ OnPage(end[r])
  BY <1>1 DEF UsageInv, Aligned, Mapped, Summed, ListInUse
<1>4. PICK D \in SUBSET used :
        /\ IsChain(region, next, used \ D, NULL)
        /\ region # NULL => \A r \in D : end[r] < start[region]
        /\ Sums(PagesOf(D))
  BY <1>3 DEF Counting
<1> DEFINE r == region
           s == start[r]
           e == end[r]
           S == used \ D
<1>5. NULL \notin S /\ r \in S
  <2>1. NULL \notin S
    BY <1>2, NodeTypes
  <2>2. IsChain(r, next, S, NULL)
    BY <1>4
  <2> HIDE DEF S, r
  <2>3. r \in S \cup {NULL}
    BY <2>2, ChainLinks
  <2> QED  BY <1>1, <2>1, <2>3 DEF r
<1>6. r \in used /\ r \in Nodes /\ r \notin D /\ s \in Nat /\ e \in Nat
  BY <1>2, <1>5 DEF Nodes
<1>7. s <= e /\ OnPage(s) /\ OnPage(e) /\ (next[r] # NULL => e < start[next[r]])
  BY <1>2, <1>3, <1>6 DEF Ascending
<1>8. PagesIn(s, e) \subseteq AreaPages
  BY <1>2, <1>3, <1>6 DEF Pages
<1>9. IsFiniteSet(PagesOf(D)) /\ PagesOf(D) \cap PagesIn(s, e) = {}
  <2>1. ASSUME NEW p \in PagesOf(D) PROVE p \in 0..s /\ p < s
    <3>1. PICK x \in D : p \in PagesIn(start[x], end[x])
      BY DEF PagesOf
    <3>2. start[x] \in Nat /\ end[x] \in Nat /\ end[x] < s
      BY <1>1, <1>2, <1>4 DEF Nodes
    <3> QED  BY <1>6, <3>1, <3>2 DEF PagesIn
  <2>2. IsFiniteSet(0..s)
    BY <1>6, FS_Interval
  <2>3. PagesOf(D) \in SUBSET (0..s)
    BY <2>1
  <2>4. IsFiniteSet(PagesOf(D))
    BY <2>2, <2>3, FS_Subset
  <2>5. \A p \in PagesIn(s, e) : s <= p /\ p \in Nat
    BY <1>6 DEF PagesIn
  <2> QED  BY <1>6, <2>1, <2>4, <2>5
<1>10. /\ Charged(r) \in [DOMAIN Areas -> Nat]
       /\ \A i \in DOMAIN Areas : Charged(r)[i] = usage[i] + Share(i, s, e)
  <2>1. usage \in [DOMAIN Areas -> Nat]
    BY <1>3 DEF SumTypes
  <2> QED  BY <1>6, <1>7, <1>8, <2>1, ChargeIs
<1>11. SumTypes'
  <2>1. total' \in Nat
    BY <1>1, <1>3, <1>6, <1>7 DEF SumTypes
  <2> QED  BY <1>1, <1>3, <1>10, <2>1 DEF SumTypes
<1>12. Aligned'
  BY <1>1, <1>3 DEF Aligned
<1>13. Mapped'
  <2>1. AreaPages' = AreaPages
    BY DEF AreaPages, PagesIn
  <2> QED  BY <1>1, <1>3, <2>1 DEF Mapped
<1>14. Counting'
  <2>0. PICK E : E = D \cup {r}
    OBVIOUS
  <2>1. E \in SUBSET used' /\ used' \ E = S \ {r}
    BY <1>1, <1>6, <2>0
  <2>2. IsChain(next[r], next, S \ {r}, NULL)
    <3>1. IsChain(r, next, S, NULL)
      BY <1>4
    <3> HIDE DEF S, r
    <3>2. \A x \in S : next[x] # r
      BY <1>5, <3>1, ChainInjective
    <3>3. \A x \in S \ {r} : next[x] = IF next[x] = r THEN next[r] ELSE next[x]
      BY <3>2
    <3>4. next[r] = IF r = r THEN next[r] ELSE r
      OBVIOUS
    <3> QED  BY <1>5, <3>1, <3>3, <3>4, ChainRemove
  <2>3. IsChain(region', next', used' \ E, NULL)
    BY <1>1, <2>1, <2>2
  <2>4. ASSUME region' # NULL, NEW x \in E PROVE end'[x] < start'[region']
    <3>1. next[r] \in used /\ e < start[next[r]] /\ start[next[r]] \in Nat
      BY <1>1, <1>2, <1>6, <1>7, <2>4 DEF Nodes
    <3>2. region' = next[r] /\ start' = start /\ end' = end
      BY <1>1
    <3>3. CASE x = r
      BY <3>1, <3>2, <3>3
    <3>4. CASE x \in D
      <4>1. end[x] < s /\ end[x] \in Nat
        BY <1>1, <1>2, <1>4, <3>4 DEF Nodes
      <4> QED  BY <1>6, <1>7, <3>1, <3>2, <4>1
    <3> QED  BY <2>0, <3>3, <3>4
  <2>5. PagesOf(E)' = PagesOf(D) \cup PagesIn(s, e)
    <3>1. PagesOf(E)' = UNION {PagesIn(start[x], end[x]) : x \in E}
      BY <1>1 DEF PagesOf, PagesIn
    <3> QED  BY <2>0, <3>1 DEF PagesOf
  <2>6. SumsAre(total', usage', PagesOf(D) \cup PagesIn(s, e))
    <3>1. Sums(PagesOf(D))
      BY <1>4
    <3>2. total' = total + e - s /\ \A i \in DOMAIN Areas : usage'[i] = usage[i] + Share(i, s, e)
      BY <1>1, <1>10
    <3> HIDE DEF s, e
    <3> QED  BY <1>6, <1>7, <1>9, <3>1, <3>2, SumsAdd
  <2>7. Sums(PagesOf(E))'
    BY <2>5, <2>6 DEF Sums
  <2> QED  BY <2>1, <2>3, <2>4, <2>7 DEF Counting
<1>15. Summed'
  BY <1>1, <1>14 DEF Summed
<1> QED  BY <1>11, <1>12, <1>13, <1>15 DEF UsageInv

\* At the end of the list all regions are counted, and what follows is about
\* the regions only.
LEMMA UsageEnds ==
    ListInv /\ UsageInv /\ (CountEnd \/ FreeRegion) => UsageInv'
<1> SUFFICES ASSUME ListInv, UsageInv, CountEnd \/ FreeRegion PROVE UsageInv'
  OBVIOUS
<1>1. pc' = "free" /\ UNCHANGED <<usage, total, counted, oom>>
  BY DEF CountEnd, FreeRegion, sums, input
<1>2. Sums(counted)
  <2>1. CASE pc = "free"
    BY <2>1 DEF UsageInv, Summed
  <2>2. CASE pc # "free"
    <3>1. pc = "count" /\ region = NULL
      BY <2>2 DEF CountEnd, FreeRegion
    <3>2. PICK D \in SUBSET used : IsChain(region, next, used \ D, NULL) /\ Sums(PagesOf(D))
      BY <3>1 DEF UsageInv, Summed, Counting
    <3>3. NULL \notin used \ D
      BY NodeTypes DEF ListInv, Types
    <3>4. IsChain(NULL, next, used \ D, NULL)
      BY <3>1, <3>2
    <3>5. used \ D = {}
      BY <3>3, <3>4, ChainOfNull
    <3>6. D = used /\ counted = Pages(end)
      BY <3>1, <3>5, PlainList
    <3>7. PagesOf(used) = counted
      BY <3>6 DEF PagesOf, Pages
    <3> QED  BY <3>2, <3>6, <3>7
  <2> QED  BY <2>1, <2>2
<1>3. SumTypes' /\ Aligned' /\ Mapped'
  BY <1>1 DEF UsageInv, SumTypes, Aligned, Mapped, ListInUse
<1>4. Summed'
  BY <1>1, <1>2 DEF Summed, Sums
<1> QED  BY <1>3, <1>4 DEF UsageInv

\* The usages go with their array.
LEMMA UsageGone == UsageInv /\ FreeEnd => UsageInv'
<1> SUFFICES ASSUME UsageInv, FreeEnd PROVE UsageInv'
  OBVIOUS
<1>1. pc' = "idle" /\ NothingCounted /\ UNCHANGED <<counted, oom>>
  BY DEF FreeEnd, input
<1>2. SumTypes' /\ Aligned' /\ Mapped'
  BY <1>1 DEF UsageInv, SumTypes, Aligned, Mapped, ListInUse, NothingCounted
<1>3. Summed'
  BY <1>1, NoPages DEF Summed, Sums
<1> QED  BY <1>2, <1>3 DEF UsageInv

LEMMA UsageStep ==
    RegionForEach /\ BlocksInAreas /\ ListInv /\ UsageInv /\ [Next /\ CandidateKept]_vars
        => UsageInv'
<1> SUFFICES ASSUME RegionForEach, BlocksInAreas, ListInv, UsageInv,
                    [Next /\ CandidateKept]_vars
             PROVE  UsageInv'
  OBVIOUS
<1>0. ListInv'
  BY ListStep
<1>1. CASE Begin
  BY <1>1, UsageBegin
<1>2. CASE Register
  BY <1>0, <1>2, UsageRegister
<1>3. CASE Walk \/ InsertBefore \/ InsertLast \/ InsertFails \/ MergeBegin
  BY <1>0, <1>3, UsageWalk
<1>4. CASE Swallow \/ MergeEnd
  BY <1>0, <1>4, UsageMerge
<1>5. CASE CountBegin
  BY <1>5, UsageCountBegins
<1>6. CASE Count
  BY <1>6, UsageCounts
<1>7. CASE CountEnd \/ FreeRegion
  BY <1>7, UsageEnds
<1>8. CASE FreeEnd
  BY <1>8, UsageGone
<1>9. CASE UNCHANGED vars
  <2>1. UNCHANGED <<start, end, next, used, pc, blk, region, new_end, usage, total, counted, oom>>
    BY <1>9 DEF vars, list, cursor, sums, input
  <2>2. SumTypes' /\ Aligned'
    BY <2>1 DEF UsageInv, SumTypes, Aligned, ListInUse
  <2>3. Mapped'
    <3>1. BlockPages' = BlockPages /\ AreaPages' = AreaPages
      BY <2>1 DEF BlockPages, AreaPages, PagesIn
    <3> QED  BY <2>1, <3>1 DEF UsageInv, Mapped, ListInUse
  <2>4. Counting => Counting'
    BY <2>1 DEF Counting, Sums, PagesOf, PagesIn
  <2>5. Summed'
    BY <2>1, <2>4 DEF UsageInv, Summed, Sums
  <2> QED  BY <2>2, <2>3, <2>5 DEF UsageInv
<1> QED  BY <1>1, <1>2, <1>3, <1>4, <1>5, <1>6, <1>7, <1>8, <1>9 DEF Next, Inside

LEMMA UsageHolds == RegionForEach /\ BlocksInAreas => (KeptSpec => [](ListInv /\ UsageInv))
<1> SUFFICES ASSUME RegionForEach, BlocksInAreas PROVE KeptSpec => [](ListInv /\ UsageInv)
  OBVIOUS
<1>1. Init => ListInv /\ UsageInv
  BY InitList, UsageInit
<1>2. ListInv /\ UsageInv /\ [Next /\ CandidateKept]_vars => ListInv' /\ UsageInv'
  BY ListStep, UsageStep
<1> QED  BY <1>1, <1>2, PTL DEF KeptSpec

\* Each mapped area is charged with just its pages that hold blocks, each of
\* them once, however the regions lie across areas.
THEOREM AreasChargedExactly ==
    RegionForEach /\ BlocksInAreas => (KeptSpec => []AreaUsageExact)
<1> SUFFICES ASSUME RegionForEach, BlocksInAreas PROVE KeptSpec => []AreaUsageExact
  OBVIOUS
<1>1. KeptSpec => [](ListInv /\ UsageInv)
  BY UsageHolds
<1>2. ListInv /\ UsageInv => AreaUsageExact
  BY DEF UsageInv, Summed, Sums, SumsAre, AreaUsageExact
<1> QED  BY <1>1, <1>2, PTL

\* The usage that mc_get_virtual_memory_usage reports is the size of the pages
\* that hold registered blocks, unless a merge has freed the remembered region.
THEOREM UsageExactWhenKept ==
    RegionForEach /\ BlocksInAreas => (KeptSpec => []UsageExact)
<1> SUFFICES ASSUME RegionForEach, BlocksInAreas PROVE KeptSpec => []UsageExact
  OBVIOUS
<1>1. KeptSpec => [](ListInv /\ UsageInv)
  BY UsageHolds
<1>2. ListInv /\ UsageInv => UsageExact
  BY DEF UsageInv, Summed, Sums, SumsAre, UsageExact
<1> QED  BY <1>1, <1>2, PTL

\* An area is charged with no more than its size.
LEMMA ChargedWithin ==
    ASSUME BlocksInAreas, ListInv, UsageInv, NEW i \in DOMAIN Areas
    PROVE  usage[i] \in 0..AreaSize(i)
<1> DEFINE A == PagesIn(Areas[i][1], Areas[i][2])
<1>1. PICK C : usage[i] = PAGE_SIZE * Cardinality(C \cap A)
  <2>1. ASSUME NEW C, Sums(C) PROVE usage[i] = PAGE_SIZE * Cardinality(C \cap A)
    BY <2>1 DEF Sums, SumsAre
  <2>2. \E C : Sums(C)
    BY DEF UsageInv, Summed, Counting, ListInv, Types
  <2> QED  BY <2>1, <2>2
<1>2. IsFiniteSet(A) /\ PAGE_SIZE * Cardinality(A) = AreaSize(i)
  BY AreaTypes, PageCount DEF AreaSize
<1> HIDE DEF A
<1>3. C \cap A \in SUBSET A
  OBVIOUS
<1>4. IsFiniteSet(C \cap A) /\ Cardinality(C \cap A) <= Cardinality(A)
  BY <1>2, <1>3, FS_Subset
<1>5. Cardinality(C \cap A) \in Nat /\ Cardinality(A) \in Nat
  BY <1>2, <1>4, FS_CardinalityType
<1>6. \A j, k \in Nat : j <= k => PAGE_SIZE * j <= PAGE_SIZE * k /\ PAGE_SIZE * j \in Nat /\ PAGE_SIZE * k \in Nat
  BY PageNumbers, SMTT(30)
<1>7. PAGE_SIZE * Cardinality(C \cap A) <= PAGE_SIZE * Cardinality(A)
      /\ PAGE_SIZE * Cardinality(C \cap A) \in Nat /\ PAGE_SIZE * Cardinality(A) \in Nat
  BY <1>4, <1>5, <1>6
<1>8. usage[i] \in Nat /\ AreaSize(i) \in Nat /\ usage[i] <= AreaSize(i)
  BY <1>1, <1>2, <1>7
<1> QED  BY <1>8

\* Every variable of the command stays in its type, the usage of an area
\* within its size.
THEOREM TypeCorrect == RegionForEach /\ BlocksInAreas => (KeptSpec => []TypeOK)
<1> SUFFICES ASSUME RegionForEach, BlocksInAreas PROVE KeptSpec => []TypeOK
  OBVIOUS
<1>1. KeptSpec => [](ListInv /\ UsageInv)
  BY UsageHolds
<1>2. ASSUME ListInv, UsageInv PROVE TypeOK
  <2>1. \A i \in DOMAIN Areas : usage[i] \in 0..AreaSize(i)
    BY <1>2, ChargedWithin
  <2>2. total \in Nat /\ oom \in 0..MaxOom
    BY <1>2 DEF UsageInv, SumTypes
  <2>3. Types
    BY <1>2 DEF ListInv
  <2> QED  BY <2>1, <2>2, <2>3 DEF Types, TypeOK
<1> QED  BY <1>1, <1>2, PTL
===================================================================================
