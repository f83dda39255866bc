------------------------- MODULE PoolAllocator_proofs -------------------------
(*****************************************************************************)
(* Proofs about PoolAllocator, for any page, record and word size with       *)
(* num_memblk_in_pool < 3 * WordBits, any batch and any set of pages.        *)
(*****************************************************************************)
EXTENDS PoolAllocator, ChainsAndSums

-----------------------------------------------------------------------------
(* Addresses: a record's page and index can be computed back from it. *)

\* num_memblk_in_pool records fit behind the header (memchk_allocator.c:26).
LEMMA Capacity ==
    /\ num_memblk_in_pool \in Nat \ {0}
    /\ \A i \in Slots : /\ memblk_size * i \in Nat
                        /\ HeaderSize + memblk_size * i + memblk_size <= PAGE_SIZE
<1>1. DEFINE room == PAGE_SIZE - HeaderSize
<1>2. room \in Nat /\ memblk_size \in Nat \ {0} /\ memblk_size <= room
  BY PoolAssumption
<1>3. /\ room \div memblk_size \in Nat \ {0}
      /\ memblk_size * (room \div memblk_size) <= room
  BY <1>2, SMTT(30)
<1>4. ASSUME NEW i \in Slots
      PROVE  memblk_size * i \in Nat /\ memblk_size * i + memblk_size <= room
  <2>1. i \in Nat /\ i + 1 <= num_memblk_in_pool
    BY <1>3 DEF Slots, num_memblk_in_pool
  <2>2. memblk_size * (i + 1) <= memblk_size * num_memblk_in_pool
    BY <2>1, <1>2, <1>3, SMTT(30) DEF num_memblk_in_pool
  <2>3. memblk_size * (i + 1) = memblk_size * i + memblk_size /\ memblk_size * i \in Nat
    BY <2>1, <1>2, SMTT(30)
  <2> QED
    BY <2>2, <2>3, <1>2, <1>3, SMTT(30) DEF num_memblk_in_pool
<1> QED
  BY <1>2, <1>3, <1>4, PoolAssumption DEF num_memblk_in_pool

\* Masking a record's address gives its page, and __get_index its index
\* (memchk_allocator.c:52, 172).
LEMMA RoundTrip ==
    ASSUME NEW p \in Pages, NEW i \in Slots
    PROVE  /\ PageOf(get_bufaddr(p, i)) = p
           /\ get_index(get_bufaddr(p, i)) = i
<1>1. /\ p \in Nat /\ p % PAGE_SIZE = 0 /\ PAGE_SIZE \in Nat \ {0} /\ HeaderSize \in Nat
      /\ memblk_size \in Nat \ {0}
  BY PoolAssumption
<1>2. i \in Nat /\ memblk_size * i \in Nat /\ HeaderSize + memblk_size * i < PAGE_SIZE
  BY Capacity, <1>1 DEF Slots
<1>3. (p + HeaderSize + memblk_size * i) % PAGE_SIZE = HeaderSize + memblk_size * i
  <2>1. ASSUME NEW m \in Nat, m = HeaderSize + memblk_size * i
        PROVE  (p + m) % PAGE_SIZE = m
    BY <1>1, <1>2, <2>1, SMTT(60)
  <2> QED
    BY <2>1, <1>1, <1>2
<1>4. PageOf(get_bufaddr(p, i)) = p
  BY <1>1, <1>2, <1>3 DEF PageOf, get_bufaddr
<1>5. (memblk_size * i) \div memblk_size = i
  BY <1>1, <1>2, SMTT(60)
<1>6. get_bufaddr(p, i) - p - HeaderSize = memblk_size * i
  BY <1>1, <1>2 DEF get_bufaddr
<1> QED
  BY <1>4, <1>5, <1>6 DEF get_index

\* No two records share an address.
LEMMA Distinct ==
    ASSUME NEW p \in Pages, NEW i \in Slots, NEW q \in Pages, NEW j \in Slots,
           get_bufaddr(p, i) = get_bufaddr(q, j)
    PROVE  p = q /\ i = j
  BY RoundTrip

\* A record's page and slot, and its address from them.
LEMMA OfRecord ==
    ASSUME NEW buf \in Records
    PROVE  /\ PageOf(buf) \in Pages /\ get_index(buf) \in Slots
           /\ buf = get_bufaddr(PageOf(buf), get_index(buf))
<1>1. PICK p \in Pages, i \in Slots : buf = get_bufaddr(p, i)
  BY DEF Records
<1> QED
  BY <1>1, RoundTrip

-----------------------------------------------------------------------------
(* The bitmap: bit index of page p, whichever of the three words it is in. *)

IsSet(p, index) ==
    IF index < WordBits THEN index \in bitmap[p][0]
    ELSE IF index < 2 * WordBits THEN index - WordBits \in bitmap[p][1]
    ELSE index - 2 * WordBits \in bitmap[p][2]

BitmapType == bitmap \in [Pages -> [0..2 -> SUBSET (0..(WordBits - 1))]]

LEMMA SetBit ==
    ASSUME BitmapType, NEW p \in Pages, NEW i \in Slots, set_bitmap(p, i)
    PROVE  /\ BitmapType'
           /\ \A q \in Pages, j \in 0..(3 * WordBits - 1) :
                IsSet(q, j)' <=> IsSet(q, j) \/ (q = p /\ j = i)
<1>1. WordBits \in Nat \ {0} /\ i \in Nat /\ i < 3 * WordBits
  BY PoolAssumption, Capacity DEF Slots
<1>2. CASE i < WordBits
  <2>1. bitmap' = [bitmap EXCEPT ![p][0] = @ \cup {i}]
    BY <1>2 DEF set_bitmap
  <2> QED
    BY <1>1, <1>2, <2>1 DEF BitmapType, IsSet
<1>3. CASE ~(i < WordBits) /\ i < 2 * WordBits
  <2>1. bitmap' = [bitmap EXCEPT ![p][1] = @ \cup {i - WordBits}]
    BY <1>3 DEF set_bitmap
  <2> QED
    BY <1>1, <1>3, <2>1 DEF BitmapType, IsSet
<1>4. CASE ~(i < 2 * WordBits)
  <2>1. bitmap' = [bitmap EXCEPT ![p][2] = @ \cup {i - 2 * WordBits}]
    BY <1>1, <1>4 DEF set_bitmap
  <2> QED
    BY <1>1, <1>4, <2>1 DEF BitmapType, IsSet
<1> QED
  BY <1>2, <1>3, <1>4

LEMMA ClearBit ==
    ASSUME BitmapType, NEW p \in Pages, NEW i \in Slots, clear_bitmap(p, i)
    PROVE  /\ BitmapType'
           /\ \A q \in Pages, j \in 0..(3 * WordBits - 1) :
                IsSet(q, j)' <=> IsSet(q, j) /\ ~(q = p /\ j = i)
<1>1. WordBits \in Nat \ {0} /\ i \in Nat /\ i < 3 * WordBits
  BY PoolAssumption, Capacity DEF Slots
<1>2. CASE i < WordBits
  <2>1. bitmap' = [bitmap EXCEPT ![p][0] = @ \ {i}]
    BY <1>2 DEF clear_bitmap
  <2> QED
    BY <1>1, <1>2, <2>1 DEF BitmapType, IsSet
<1>3. CASE ~(i < WordBits) /\ i < 2 * WordBits
  <2>1. bitmap' = [bitmap EXCEPT ![p][1] = @ \ {i - WordBits}]
    BY <1>3 DEF clear_bitmap
  <2> QED
    BY <1>1, <1>3, <2>1 DEF BitmapType, IsSet
<1>4. CASE ~(i < 2 * WordBits)
  <2>1. bitmap' = [bitmap EXCEPT ![p][2] = @ \ {i - 2 * WordBits}]
    BY <1>1, <1>4 DEF clear_bitmap
  <2> QED
    BY <1>1, <1>4, <2>1 DEF BitmapType, IsSet
<1> QED
  BY <1>2, <1>3, <1>4

\* A non-empty set of naturals has a least member.
LEMMA MinOfWord ==
    ASSUME NEW word, word # {}, word \subseteq 0..(WordBits - 1)
    PROVE  /\ Min(word) \in word
           /\ \A j \in word : Min(word) <= j
<1> DEFINE Below == {ss \in Nat \X Nat : ss[1] < ss[2]}
<1>1. IsWellFoundedOn(Below, Nat)
  <2>1. OpToRel(<, Nat) = Below
    BY Zenon DEF OpToRel
  <2> QED
    BY <2>1, NatLessThanWellFounded, Zenon
<1>2. word \subseteq Nat
  BY PoolAssumption
<1>3. PICK m \in word : \A j \in word : ~ (<<j, m>> \in Below)
  <2> HIDE DEF Below
  <2> QED
    BY <1>1, <1>2, WFMin
<1>4. ASSUME NEW j \in word PROVE m <= j
  <2>1. j \in Nat /\ m \in Nat
    BY <1>2
  <2>2. j < m => <<j, m>> \in Below
    BY <2>1
  <2>3. <<j, m>> \notin Below
    BY <1>3
  <2> HIDE DEF Below
  <2> QED
    BY <2>1, <2>2, <2>3
<1> QED
  BY <1>3, <1>4 DEF Min

\* The spare bits past the last record are set (memchk_allocator.c:28-30).
SpareSet(p) == \A i \in num_memblk_in_pool..(3 * WordBits - 1) : IsSet(p, i)

LEMMA FfslOfWord ==
    ASSUME NEW word, word \subseteq 0..(WordBits - 1)
    PROVE  /\ word = {} => ffsl(word) = 0
           /\ word # {} => /\ ffsl(word) - 1 \in word
                           /\ ffsl(word) \in 1..WordBits
                           /\ \A j \in word : ffsl(word) - 1 <= j
<1>1. CASE word # {}
  <2>1. Min(word) \in word /\ \A j \in word : Min(word) <= j
    BY <1>1, MinOfWord
  <2>2. Min(word) \in 0..(WordBits - 1) /\ WordBits \in Nat
    BY <2>1, PoolAssumption
  <2>3. ffsl(word) = Min(word) + 1
    BY <1>1 DEF ffsl
  <2>4. ffsl(word) - 1 = Min(word) /\ ffsl(word) \in 1..WordBits
    BY <2>2, <2>3
  <2> QED
    BY <1>1, <2>1, <2>4
<1> QED
  BY <1>1 DEF ffsl

\* __get_lowest_bit returns the lowest record whose bit is set, -1 if none is:
\* it never reports a spare bit, and never misses a word.
LEMMA LowestBit ==
    ASSUME BitmapType, NEW p \in Pages, SpareSet(p)
    PROVE  \/ /\ get_lowest_bit(p) = -1
              /\ \A i \in Slots : ~IsSet(p, i)
           \/ /\ get_lowest_bit(p) \in Slots
              /\ IsSet(p, get_lowest_bit(p))
              /\ \A i \in Slots : IsSet(p, i) => get_lowest_bit(p) <= i
<1> DEFINE N == num_memblk_in_pool
           W == WordBits
           b0 == bitmap[p][0]
           b1 == bitmap[p][1]
           b2 == bitmap[p][2]
<1>1. /\ W \in Nat \ {0} /\ N \in Nat \ {0} /\ N < 3 * W
      /\ Slots = 0..(N - 1)
  BY PoolAssumption, Capacity DEF Slots
<1>2. /\ b0 \subseteq 0..(W - 1) /\ b1 \subseteq 0..(W - 1) /\ b2 \subseteq 0..(W - 1)
  BY DEF BitmapType
<1>3. /\ \A i \in Slots : IsSet(p, i) <=>
            IF i < W THEN i \in b0 ELSE IF i < 2 * W THEN i - W \in b1 ELSE i - 2 * W \in b2
      /\ \A i \in N..(3 * W - 1) :
            IF i < W THEN i \in b0 ELSE IF i < 2 * W THEN i - W \in b1 ELSE i - 2 * W \in b2
  BY DEF IsSet, SpareSet
<1>4. CASE b0 # {}
  <2>1. ffsl(b0) - 1 \in b0 /\ ffsl(b0) \in 1..W /\ \A j \in b0 : ffsl(b0) - 1 <= j
    BY <1>2, <1>4, FfslOfWord
  <2>2. get_lowest_bit(p) = (IF ffsl(b0) <= N THEN ffsl(b0) - 1 ELSE -1)
    BY <1>1, <1>4, <2>1 DEF get_lowest_bit
  <2> HIDE DEF N, W, b0, b1, b2
  <2> QED
    BY <1>1, <1>2, <1>3, <2>2, <1>4, <2>1
<1>5. CASE b0 = {} /\ N <= W
  <2>1. get_lowest_bit(p) = -1
    BY <1>5 DEF get_lowest_bit
  <2> HIDE DEF N, W, b0, b1, b2
  <2> QED
    BY <1>1, <1>2, <1>3, <2>1, <1>5
<1>6. CASE b0 = {} /\ ~(N <= W) /\ b1 # {}
  <2>1. ffsl(b1) - 1 \in b1 /\ ffsl(b1) \in 1..W /\ \A j \in b1 : ffsl(b1) - 1 <= j
    BY <1>2, <1>6, FfslOfWord
  <2>2. get_lowest_bit(p) = (IF ffsl(b1) + W <= N THEN ffsl(b1) + W - 1 ELSE -1)
    BY <1>1, <1>6, <2>1 DEF get_lowest_bit
  <2> HIDE DEF N, W, b0, b1, b2
  <2> QED
    BY <1>1, <1>2, <1>3, <2>2, <1>6, <2>1
<1>7. CASE b0 = {} /\ ~(N <= W) /\ b1 = {} /\ N <= 2 * W
  <2>1. get_lowest_bit(p) = -1
    BY <1>7 DEF get_lowest_bit
  <2> HIDE DEF N, W, b0, b1, b2
  <2> QED
    BY <1>1, <1>2, <1>3, <2>1, <1>7
<1>8. CASE b0 = {} /\ ~(N <= W) /\ b1 = {} /\ ~(N <= 2 * W)
  <2>1. 3 * W - 1 - 2 * W \in b2
    <3> HIDE DEF N, W, b0, b1, b2
    <3> QED
      BY <1>1, <1>3, <1>8
  <2>2. ffsl(b2) - 1 \in b2 /\ ffsl(b2) \in 1..W /\ \A j \in b2 : ffsl(b2) - 1 <= j
    BY <1>2, <2>1, FfslOfWord
  <2>3. get_lowest_bit(p) = (IF ffsl(b2) + 2 * W <= N THEN ffsl(b2) + 2 * W - 1 ELSE -1)
    BY <1>1, <1>8, <2>2 DEF get_lowest_bit
  <2> HIDE DEF N, W, b0, b1, b2
  <2>4. CASE ffsl(b2) + 2 * W <= N
    <3>1. get_lowest_bit(p) = ffsl(b2) + 2 * W - 1
      BY <2>3, <2>4
    <3>2. ffsl(b2) + 2 * W - 1 \in Slots
      BY <1>1, <1>3, <2>2, <2>4
    <3>3. IsSet(p, ffsl(b2) + 2 * W - 1)
      BY <1>1, <1>3, <2>2, <3>2
    <3>4. \A i \in Slots : IsSet(p, i) => ffsl(b2) + 2 * W - 1 <= i
      BY <1>1, <1>3, <1>8, <2>2
    <3> QED  BY <3>1, <3>2, <3>3, <3>4
  <2>5. CASE ~(ffsl(b2) + 2 * W <= N)
    <3>1. get_lowest_bit(p) = -1
      BY <2>3, <2>5
    <3>2. \A i \in Slots : ~IsSet(p, i)
      BY <1>1, <1>3, <1>8, <2>2, <2>5
    <3> QED  BY <3>1, <3>2
  <2> QED  BY <2>4, <2>5
<1> HIDE DEF N, W, b0, b1, b2
<1> QED
  BY <1>4, <1>5, <1>6, <1>7, <1>8

-----------------------------------------------------------------------------
(* The invariant. PagesAgree is not inductive without the spare bits, and    *)
(* the walk needs the list to stay inside the mapped pages.                  *)

FreeSlots(p) == {i \in Slots : get_bufaddr(p, i) \notin taken}

BitsOK == \A p \in mapped :
    /\ SpareSet(p)
    /\ \A i \in Slots : IsSet(p, i) <=> get_bufaddr(p, i) \notin taken

CountsOK == \A p \in mapped : num_free[p] = Cardinality(FreeSlots(p))

TakenOK == \A buf \in taken : PageOf(buf) \in mapped

WalkOK ==
    /\ \A p \in mapped : next_pool_link[p] \in mapped \cup {NULL}
    /\ phase = "first" => header # NULL
    /\ phase = "walk" => header # NULL \/ prev # NULL
    /\ phase # "unlocked" => ret = NULL

PInv == TypeOK /\ BitsOK /\ CountsOK /\ TakenOK /\ WalkOK

LEMMA FreeSlotsFinite ==
    ASSUME NEW p
    PROVE  IsFiniteSet(FreeSlots(p)) /\ Cardinality(FreeSlots(p)) \in Nat
<1>1. IsFiniteSet(Slots)
  BY Capacity, FS_Interval DEF Slots
<1>2. FreeSlots(p) \subseteq Slots
  BY DEF FreeSlots
<1> QED
  BY <1>1, <1>2, FS_Subset, FS_CardinalityType

\* What __get_lowest_bit finds is free; it finds nothing only in a full page.
LEMMA LowestIsFree ==
    ASSUME PInv, NEW p \in mapped
    PROVE  /\ get_lowest_bit(p) = -1 => FreeSlots(p) = {}
           /\ get_lowest_bit(p) # -1 =>
                /\ get_lowest_bit(p) \in FreeSlots(p)
                /\ \A i \in FreeSlots(p) : get_lowest_bit(p) <= i
           /\ get_lowest_bit(p) = -1 <=> num_free[p] = 0
<1>1. p \in Pages /\ BitmapType /\ SpareSet(p)
  BY DEF PInv, TypeOK, BitsOK, BitmapType
<1>2. \A i \in Slots : IsSet(p, i) <=> i \in FreeSlots(p)
  BY DEF PInv, BitsOK, FreeSlots
<1>3. -1 \notin Slots /\ FreeSlots(p) \subseteq Slots
  BY Capacity DEF Slots, FreeSlots
<1>4. \/ get_lowest_bit(p) = -1 /\ FreeSlots(p) = {}
      \/ /\ get_lowest_bit(p) \in FreeSlots(p)
         /\ \A i \in FreeSlots(p) : get_lowest_bit(p) <= i
  BY <1>1, <1>2, <1>3, LowestBit
<1>5. num_free[p] = 0 <=> FreeSlots(p) = {}
  BY FreeSlotsFinite, FS_EmptySet DEF PInv, CountsOK
<1> QED
  BY <1>3, <1>4, <1>5

\* Taking the lowest free record of a page with room: nobody held it, and the
\* page's bitmap and count still agree with what the callers hold.
LEMMA TakeKeeps ==
    ASSUME PInv, NEW p \in mapped, get_lowest_bit(p) # -1, Take(p)
    PROVE  /\ ret' \in Records \ taken /\ taken' = taken \cup {ret'}
           /\ BitmapType' /\ num_free' \in [Pages -> Nat]
           /\ BitsOK' /\ CountsOK' /\ TakenOK'
<1> DEFINE index == get_lowest_bit(p)
           buf == get_bufaddr(p, index)
<1>1. /\ index \in Slots /\ buf \notin taken /\ p \in Pages
      /\ index \in FreeSlots(p)
  BY LowestIsFree DEF FreeSlots, PInv, TypeOK
<1>2. /\ ret' = buf /\ taken' = taken \cup {buf} /\ clear_bitmap(p, index)
      /\ num_free' = [num_free EXCEPT ![p] = @ - 1] /\ mapped' = mapped
  BY DEF Take
<1> HIDE DEF index
<1>3. buf \in Records /\ PageOf(buf) = p
  BY <1>1, RoundTrip DEF Records
<1>4. BitmapType
  BY DEF PInv, TypeOK, BitmapType
<1>5. /\ BitmapType'
      /\ \A q \in Pages, j \in 0..(3 * WordBits - 1) :
            IsSet(q, j)' <=> IsSet(q, j) /\ ~(q = p /\ j = index)
  BY <1>1, <1>2, <1>4, ClearBit
<1>6. \A q \in Pages, i \in Slots : get_bufaddr(q, i) \in taken' <=>
            get_bufaddr(q, i) \in taken \/ (q = p /\ i = index)
  BY <1>1, <1>2, Distinct
<1>7. Slots \subseteq 0..(3 * WordBits - 1) /\ mapped \subseteq Pages
  BY Capacity, PoolAssumption DEF Slots, PInv, TypeOK
<1>8. BitsOK'
  <2> SUFFICES ASSUME NEW q \in mapped
               PROVE  /\ SpareSet(q)'
                      /\ \A i \in Slots : IsSet(q, i)' <=> get_bufaddr(q, i) \notin taken'
    BY <1>2 DEF BitsOK
  <2>1. \A i \in Slots : IsSet(q, i)' <=> get_bufaddr(q, i) \notin taken'
    BY <1>5, <1>6, <1>7 DEF PInv, BitsOK
  <2>2. \A i \in num_memblk_in_pool..(3 * WordBits - 1) :
            i \in 0..(3 * WordBits - 1) /\ i # index
    BY <1>1, Capacity DEF Slots
  <2>3. SpareSet(q)'
    BY <1>5, <1>7, <2>2 DEF PInv, BitsOK, SpareSet
  <2> QED
    BY <2>1, <2>3
<1>9. ASSUME NEW q \in mapped
      PROVE  /\ q # p => FreeSlots(q)' = FreeSlots(q)
             /\ q = p => FreeSlots(q)' = FreeSlots(q) \ {index}
  BY <1>6, <1>7 DEF FreeSlots
<1>10. Cardinality(FreeSlots(p) \ {index}) = Cardinality(FreeSlots(p)) - 1
  BY <1>1, FreeSlotsFinite, FS_RemoveElement
<1>11. num_free[p] \in Nat \ {0}
  BY <1>1, <1>10, FreeSlotsFinite, LowestIsFree DEF PInv, TypeOK, index
<1>12. num_free' \in [Pages -> Nat]
  <2>1. num_free[p] - 1 \in Nat
    BY <1>11
  <2> QED
    BY <1>1, <1>2, <2>1 DEF PInv, TypeOK
<1>13. CountsOK'
  BY <1>1, <1>2, <1>7, <1>9, <1>10 DEF PInv, TypeOK, CountsOK
<1>14. TakenOK'
  BY <1>2, <1>3 DEF PInv, TakenOK
<1> QED
  BY <1>1, <1>2, <1>3, <1>5, <1>8, <1>12, <1>13, <1>14

\* A record given back is free again, in its own page only.
LEMMA FreeKeeps ==
    ASSUME PInv, NEW buf \in taken, Free(buf)
    PROVE  /\ BitmapType' /\ num_free' \in [Pages -> Nat]
           /\ BitsOK' /\ CountsOK' /\ TakenOK'
           /\ next_available_pool' \in mapped
<1> DEFINE p == PageOf(buf)
           index == get_index(buf)
<1>1. /\ p \in Pages /\ index \in Slots /\ buf = get_bufaddr(p, index)
      /\ p \in mapped
  BY OfRecord DEF PInv, TypeOK, TakenOK
<1>2. /\ taken' = taken \ {buf} /\ set_bitmap(p, index)
      /\ num_free' = [num_free EXCEPT ![p] = @ + 1] /\ mapped' = mapped
      /\ next_available_pool' \in {p, next_available_pool}
  BY DEF Free
<1> HIDE DEF p, index
<1>4. BitmapType
  BY DEF PInv, TypeOK, BitmapType
<1>5. /\ BitmapType'
      /\ \A q \in Pages, j \in 0..(3 * WordBits - 1) :
            IsSet(q, j)' <=> IsSet(q, j) \/ (q = p /\ j = index)
  BY <1>1, <1>2, <1>4, SetBit
<1>6. \A q \in Pages, i \in Slots : get_bufaddr(q, i) \in taken' <=>
            get_bufaddr(q, i) \in taken /\ ~(q = p /\ i = index)
  BY <1>1, <1>2, Distinct
<1>7. Slots \subseteq 0..(3 * WordBits - 1) /\ mapped \subseteq Pages
  BY Capacity, PoolAssumption DEF Slots, PInv, TypeOK
<1>8. BitsOK'
  <2> SUFFICES ASSUME NEW q \in mapped
               PROVE  /\ SpareSet(q)'
                      /\ \A i \in Slots : IsSet(q, i)' <=> get_bufaddr(q, i) \notin taken'
    BY <1>2 DEF BitsOK
  <2>1. \A i \in Slots : IsSet(q, i)' <=> get_bufaddr(q, i) \notin taken'
    BY <1>5, <1>6, <1>7 DEF PInv, BitsOK
  <2>2. \A i \in num_memblk_in_pool..(3 * WordBits - 1) : i \in 0..(3 * WordBits - 1)
    BY Capacity
  <2>3. SpareSet(q)'
    BY <1>5, <1>7, <2>2 DEF PInv, BitsOK, SpareSet
  <2> QED
    BY <2>1, <2>3
<1>9. ASSUME NEW q \in mapped
      PROVE  /\ q # p => FreeSlots(q)' = FreeSlots(q)
             /\ q = p => FreeSlots(q)' = FreeSlots(q) \cup {index}
  BY <1>1, <1>6, <1>7 DEF FreeSlots
<1>10. Cardinality(FreeSlots(p) \cup {index}) = Cardinality(FreeSlots(p)) + 1
  <2>1. index \notin FreeSlots(p)
    BY <1>1 DEF FreeSlots
  <2> QED
    BY <2>1, FreeSlotsFinite, FS_AddElement
<1>11. num_free' \in [Pages -> Nat]
  BY <1>1, <1>2 DEF PInv, TypeOK
<1>12. CountsOK'
  BY <1>1, <1>2, <1>7, <1>9, <1>10 DEF PInv, TypeOK, CountsOK
<1>13. TakenOK' /\ next_available_pool' \in mapped
  BY <1>1, <1>2 DEF PInv, TypeOK, TakenOK
<1> QED
  BY <1>5, <1>8, <1>11, <1>12, <1>13

LEMMA SlotsCount == IsFiniteSet(Slots) /\ Cardinality(Slots) = num_memblk_in_pool
  BY Capacity, FS_Interval DEF Slots

\* A page without callers' records, with a fresh header, agrees.
LEMMA FreshPage ==
    ASSUME NEW p \in Pages, bitmap[p] = AllOnes,
           \A i \in Slots : get_bufaddr(p, i) \notin taken
    PROVE  /\ \A i \in 0..(3 * WordBits - 1) : IsSet(p, i)
           /\ Cardinality(FreeSlots(p)) = num_memblk_in_pool
<1>1. \A i \in 0..(3 * WordBits - 1) : IsSet(p, i)
  BY PoolAssumption DEF IsSet, AllOnes
<1>2. FreeSlots(p) = Slots
  BY DEF FreeSlots
<1> QED
  BY <1>1, <1>2, SlotsCount

LEMMA SlotsInWords ==
    /\ Slots \subseteq 0..(3 * WordBits - 1)
    /\ num_memblk_in_pool..(3 * WordBits - 1) \subseteq 0..(3 * WordBits - 1)
  BY Capacity, PoolAssumption DEF Slots

\* The batch of new pages: none of their records is held yet.
LEMMA MapKeeps ==
    ASSUME PInv, NEW base \in Pages, AllocMap(base)
    PROVE  PInv'
<1> DEFINE batch == BatchAt(base)
<1>1. /\ phase = "walk" /\ header = NULL /\ batch \subseteq Pages \ mapped
      /\ mapped' = mapped \cup batch
      /\ bitmap' = [p \in Pages |-> IF p \in batch THEN AllOnes ELSE bitmap[p]]
      /\ num_free' = [p \in Pages |-> IF p \in batch THEN num_memblk_in_pool ELSE num_free[p]]
      /\ header' = base /\ phase' = phase /\ prev' = prev /\ ret' = ret /\ taken' = taken
  BY DEF AllocMap
<1>2. next_pool_link' = [p \in Pages |->
            IF p = prev THEN base
            ELSE IF p \notin batch THEN next_pool_link[p]
            ELSE IF p + PAGE_SIZE \in batch THEN p + PAGE_SIZE
            ELSE next_pool_link[prev]]
  BY DEF AllocMap
<1>3. base \in batch /\ next_available_pool' \in batch
  <2>1. /\ 0 \in 0..(MMAP_BATCH_PAGE_NUM - 1)
        /\ MMAP_BATCH_PAGE_NUM - 1 \in 0..(MMAP_BATCH_PAGE_NUM - 1)
        /\ base + PAGE_SIZE * 0 = base
    BY PoolAssumption
  <2> QED
    BY <2>1 DEF BatchAt, AllocMap
<1>4. prev \in mapped
  BY <1>1 DEF PInv, TypeOK, WalkOK
<1>5. AllOnes \in [0..2 -> SUBSET (0..(WordBits - 1))] /\ num_memblk_in_pool \in Nat
  BY Capacity DEF AllOnes
<1> HIDE DEF batch
<1>6. \A p \in mapped' : next_pool_link'[p] \in mapped' \cup {NULL}
  BY <1>1, <1>2, <1>3, <1>4 DEF PInv, TypeOK, WalkOK
<1>7. next_pool_link' \in [Pages -> Pages \cup {NULL}]
  BY <1>1, <1>2, <1>3, <1>4 DEF PInv, TypeOK
<1>8. TypeOK'
  BY <1>1, <1>3, <1>5, <1>7 DEF PInv, TypeOK
<1>9. WalkOK'
  BY <1>1, <1>3, <1>6, PoolAssumption DEF PInv, TypeOK, WalkOK
<1>10. ASSUME NEW p \in batch
       PROVE  /\ \A i \in 0..(3 * WordBits - 1) : IsSet(p, i)'
              /\ \A i \in Slots : get_bufaddr(p, i) \notin taken'
              /\ num_free'[p] = Cardinality(FreeSlots(p)')
  <2>1. p \in Pages /\ p \notin mapped
    BY <1>1
  <2>2. \A i \in Slots : get_bufaddr(p, i) \notin taken'
    BY <1>1, <2>1, RoundTrip DEF PInv, TakenOK
  <2>3. FreeSlots(p)' = Slots
    BY <2>2 DEF FreeSlots
  <2>4. \A i \in 0..(3 * WordBits - 1) : IsSet(p, i)'
    <3>1. bitmap'[p] = AllOnes
      BY <1>1, <2>1
    <3>2. \A w \in 0..2 : bitmap'[p][w] = 0..(WordBits - 1)
      BY <3>1 DEF AllOnes
    <3> QED
      BY <3>2, PoolAssumption DEF IsSet
  <2> QED
    BY <1>1, <2>1, <2>2, <2>3, <2>4, SlotsCount
<1>11. ASSUME NEW p \in mapped
       PROVE  /\ \A i : IsSet(p, i)' <=> IsSet(p, i)
              /\ FreeSlots(p)' = FreeSlots(p) /\ num_free'[p] = num_free[p]
  BY <1>1 DEF IsSet, FreeSlots, PInv, TypeOK
<1>12. BitsOK'
  BY <1>1, <1>10, <1>11, SlotsInWords DEF PInv, BitsOK, SpareSet
<1>13. CountsOK'
  BY <1>1, <1>10, <1>11 DEF PInv, CountsOK
<1>14. TakenOK'
  BY <1>1 DEF PInv, TakenOK
<1> QED
  BY <1>8, <1>9, <1>12, <1>13, <1>14 DEF PInv

\* The steps that only move the cursor of the walk.
LEMMA WalkKeeps ==
    ASSUME PInv, AllocBegin \/ AllocFull \/ AllocWalk \/ AllocFails \/ UNCHANGED vars
    PROVE  PInv'
<1>1. UNCHANGED <<headers, next_available_pool, taken>>
  BY DEF AllocBegin, AllocFull, AllocWalk, AllocFails, vars
<1>2. BitsOK' /\ CountsOK' /\ TakenOK'
  BY <1>1 DEF PInv, BitsOK, CountsOK, TakenOK, SpareSet, IsSet, FreeSlots, headers
<1>3. TypeOK' /\ WalkOK'
  BY PoolAssumption DEF AllocBegin, AllocFull, AllocWalk, AllocFails, vars, PInv, TypeOK, WalkOK, headers
<1> QED
  BY <1>2, <1>3 DEF PInv

\* AllocFirst and AllocFound hand out a record of a page that has one.
LEMMA HandOut ==
    ASSUME PInv, AllocFirst \/ AllocFound
    PROVE  header \in mapped /\ get_lowest_bit(header) # -1 /\ Take(header)
<1>1. header \in mapped
  BY DEF AllocFirst, AllocFound, PInv, TypeOK, WalkOK
<1> QED
  BY <1>1, LowestIsFree DEF AllocFirst, AllocFound

LEMMA PoolStep == PInv /\ [Next]_vars => PInv'
<1> SUFFICES ASSUME PInv, [Next]_vars PROVE PInv'
  OBVIOUS
<1>1. CASE AllocFirst \/ AllocFound
  <2>1. /\ ret' \in Records \ taken /\ taken' = taken \cup {ret'}
        /\ BitmapType' /\ num_free' \in [Pages -> Nat]
        /\ BitsOK' /\ CountsOK' /\ TakenOK'
    BY <1>1, HandOut, TakeKeeps
  <2>2. /\ mapped' = mapped /\ next_pool_link' = next_pool_link
        /\ phase' = "unlocked" /\ header' = NULL /\ prev' = NULL
        /\ next_available_pool' \in mapped
    BY <1>1, HandOut DEF AllocFirst, AllocFound, Take, PInv, TypeOK
  <2>3. TypeOK' /\ WalkOK'
    BY <2>1, <2>2 DEF PInv, TypeOK, WalkOK, BitmapType
  <2> QED
    BY <2>1, <2>3 DEF PInv
<1>2. ASSUME NEW buf \in taken, Free(buf) PROVE PInv'
  <2>1. /\ BitmapType' /\ num_free' \in [Pages -> Nat]
        /\ BitsOK' /\ CountsOK' /\ TakenOK'
        /\ next_available_pool' \in mapped
    BY <1>2, FreeKeeps
  <2>2. /\ mapped' = mapped /\ next_pool_link' = next_pool_link
        /\ taken' = taken \ {buf} /\ ret' = NULL
        /\ UNCHANGED <<phase, header, prev>>
    BY <1>2 DEF Free
  <2>3. TypeOK' /\ WalkOK'
    BY <2>1, <2>2 DEF PInv, TypeOK, WalkOK, BitmapType
  <2> QED
    BY <2>1, <2>3 DEF PInv
<1> QED
  BY <1>1, <1>2, MapKeeps, WalkKeeps DEF Next, Alloc

LEMMA PoolInit == Init => PInv
<1> SUFFICES ASSUME Init PROVE PInv
  OBVIOUS
<1>1. TypeOK
  BY PoolAssumption, Capacity DEF Init, TypeOK, AllOnes
<1>2. /\ mapped = {Top} /\ bitmap[Top] = AllOnes /\ taken = {}
      /\ num_free[Top] = num_memblk_in_pool /\ Top \in Pages
      /\ next_pool_link[Top] = NULL
  BY PoolAssumption DEF Init
<1>3. BitsOK /\ CountsOK
  BY <1>2, FreshPage, SlotsInWords DEF BitsOK, CountsOK, SpareSet
<1>4. TakenOK /\ WalkOK
  BY <1>2 DEF Init, TakenOK, WalkOK
<1> QED
  BY <1>1, <1>3, <1>4 DEF PInv

\* PagesAgree in every state of a pool: what __get_lowest_bit finds
\* (memchk_allocator.c:80-110) and num_free counts is what the callers left.
THEOREM PagesAlwaysAgree == Spec => []PagesAgree
<1>1. PInv => PagesAgree
  <2> SUFFICES ASSUME PInv, NEW p \in mapped
               PROVE  /\ num_free[p] = Cardinality(FreeSlots(p))
                      /\ get_lowest_bit(p) = IF FreeSlots(p) = {} THEN -1 ELSE Min(FreeSlots(p))
    BY DEF PagesAgree, FreeSlots
  <2>1. num_free[p] = Cardinality(FreeSlots(p))
    BY DEF PInv, CountsOK
  <2>2. CASE FreeSlots(p) = {}
    BY <2>1, <2>2, LowestIsFree
  <2>3. CASE FreeSlots(p) # {}
    <3>1. /\ get_lowest_bit(p) \in FreeSlots(p)
          /\ \A i \in FreeSlots(p) : get_lowest_bit(p) <= i
      BY <2>1, <2>3, LowestIsFree, FreeSlotsFinite, FS_EmptySet
    <3>2. FreeSlots(p) \subseteq Int
      BY Capacity DEF FreeSlots, Slots
    <3>3. \A m \in FreeSlots(p) :
              (\A i \in FreeSlots(p) : m <= i) => m = get_lowest_bit(p)
      BY <3>1, <3>2
    <3>4. Min(FreeSlots(p)) = get_lowest_bit(p)
      BY <3>1, <3>3 DEF Min
    <3> QED
      BY <2>1, <2>3, <3>4
  <2> QED
    BY <2>1, <2>2, <2>3
<1> QED
  BY PoolInit, PoolStep, <1>1, PTL DEF Spec

\* TypeOK of the pool, for any pages and records (memchk_allocator.c:10-189).
THEOREM TypeCorrect == Spec => []TypeOK
<1>1. PInv => TypeOK
  BY DEF PInv
<1> QED
  BY PoolInit, PoolStep, <1>1, PTL DEF Spec

\* A pool implements Pool (memchk_allocator.c:119-189): a record handed out is
\* one no caller holds, and a failing call takes none.
THEOREM PoolImplementsPromise == Spec => PoolSpec
<1>1. Init => Promise!Init
  BY DEF Init, Promise!Init
<1>2. PInv /\ [Next]_vars => [Promise!Next]_<<taken, ret>>
  <2> SUFFICES ASSUME PInv, [Next]_vars
               PROVE  Promise!Next \/ UNCHANGED <<taken, ret>>
    OBVIOUS
  <2>1. CASE AllocFirst \/ AllocFound
    <3>1. ret' \in Records \ taken /\ taken' = taken \cup {ret'}
      BY <2>1, HandOut, TakeKeeps
    <3>2. ret = NULL
      BY <2>1 DEF AllocFirst, AllocFound, PInv, WalkOK
    <3> QED
      BY <3>1, <3>2 DEF Promise!Next, Promise!Get
  <2>2. ASSUME NEW buf \in taken, Free(buf) PROVE Promise!Next
    BY <2>2 DEF Free, Promise!Next, Promise!Put
  <2>3. CASE AllocBegin
    BY <2>3 DEF AllocBegin, Promise!Next, Promise!Call
  <2>4. CASE AllocFull \/ AllocWalk \/ AllocFails \/ (\E base \in Pages : AllocMap(base)) \/ UNCHANGED vars
    BY <2>4 DEF AllocFull, AllocWalk, AllocFails, AllocMap, vars
  <2> QED
    BY <2>1, <2>2, <2>3, <2>4 DEF Next, Alloc
<1> QED
  BY PoolInit, PoolStep, <1>1, <1>2, PTL DEF Spec, PoolSpec, Promise!Spec

\* FreedIsNext of every free: the freed page is never left with more room than
\* the page the next allocation searches first (memchk_allocator.c:183-184).
THEOREM FreedIsAlwaysNext == Spec => FreedIsNext
<1> DEFINE Kept == \A buf \in taken \ taken' :
                num_free'[next_available_pool'] >= num_free'[PageOf(buf)]
<1>1. PInv /\ [Next]_vars => [Kept]_vars
  <2> SUFFICES ASSUME PInv, [Next]_vars, NEW buf \in taken \ taken'
               PROVE  num_free'[next_available_pool'] >= num_free'[PageOf(buf)]
    OBVIOUS
  <2>1. ~(UNCHANGED vars) /\ ~(AllocBegin \/ AllocFull \/ AllocWalk \/ AllocFails)
    BY DEF vars, AllocBegin, AllocFull, AllocWalk, AllocFails
  <2>2. ~(\E base \in Pages : AllocMap(base))
    BY DEF AllocMap
  <2>3. ~(AllocFirst \/ AllocFound)
    BY HandOut, TakeKeeps
  <2>4. PICK other \in taken : Free(other)
    BY <2>1, <2>2, <2>3 DEF Next, Alloc
  <2>5. other = buf
    BY <2>4 DEF Free
  <2>6. num_free' \in [Pages -> Nat] /\ next_available_pool \in Pages /\ PageOf(buf) \in Pages
    BY <2>4, <2>5, FreeKeeps, OfRecord DEF PInv, TypeOK
  <2>7. /\ num_free'[PageOf(buf)] > num_free'[next_available_pool] => next_available_pool' = PageOf(buf)
        /\ ~(num_free'[PageOf(buf)] > num_free'[next_available_pool]) => next_available_pool' = next_available_pool
    BY <2>4, <2>5 DEF Free
  <2>8. num_free'[PageOf(buf)] \in Nat /\ num_free'[next_available_pool] \in Nat
    BY <2>6
  <2> QED
    BY <2>7, <2>8
<1> QED
  BY PoolInit, PoolStep, <1>1, PTL DEF Spec, FreedIsNext

-----------------------------------------------------------------------------
(* The list of pages. *)

ListOK ==
    /\ IsChain(Top, next_pool_link, mapped, NULL)
    /\ phase = "walk" /\ header = NULL => next_pool_link[prev] = NULL

\* The pages of a batch are apart.
LEMMA BatchApart ==
    ASSUME NEW i \in Int, NEW j \in Int, PAGE_SIZE * i = PAGE_SIZE * j
    PROVE  i = j
  BY PoolAssumption, SMTT(30)

\* The new pages are linked in order of address, after the last page
\* (memchk_allocator.c:64-83).
LEMMA MapLinks ==
    ASSUME PInv, ListOK, NEW base \in Pages, AllocMap(base)
    PROVE  IsChain(Top, next_pool_link', mapped', NULL)
<1> DEFINE m == MMAP_BATCH_PAGE_NUM
           b == [i \in 1..m |-> base + PAGE_SIZE * (i - 1)]
           B == BatchAt(base)
<1>1. /\ m \in Nat \ {0} /\ base \in Int /\ PAGE_SIZE \in Int
      /\ NULL \notin Pages /\ \A i \in Int : PAGE_SIZE * i \in Int
  <2>1. m \in Nat \ {0} /\ PAGE_SIZE \in Int /\ Pages \subseteq Nat /\ NULL \notin Nat
    BY PoolAssumption
  <2>2. ASSUME NEW i \in Int PROVE PAGE_SIZE * i \in Int
    BY <2>1
  <2>3. base \in Nat /\ NULL \notin Pages
    BY <2>1, Zenon
  <2>4. base \in Int
    BY <2>3
  <2> QED  BY <2>1, <2>2, <2>3, <2>4, Zenon
<1>2. /\ phase = "walk" /\ header = NULL /\ B \subseteq Pages \ mapped /\ mapped' = mapped \cup B
      /\ next_pool_link' = [p \in Pages |->
            IF p = prev THEN base
            ELSE IF p \notin B THEN next_pool_link[p]
            ELSE IF p + PAGE_SIZE \in B THEN p + PAGE_SIZE
            ELSE next_pool_link[prev]]
  BY DEF AllocMap
<1>3. prev \in mapped /\ next_pool_link[prev] = NULL /\ mapped \subseteq Pages
  BY <1>2 DEF PInv, TypeOK, WalkOK, ListOK
<1>4. B = {base + PAGE_SIZE * i : i \in 0..(m - 1)}
  BY DEF BatchAt
<1>5. \A i \in 1..m : i - 1 \in 0..(m - 1) /\ b[i] = base + PAGE_SIZE * (i - 1)
  BY <1>1
<1>6. b \in [1..m -> B]
  BY <1>4, <1>5
<1>7. ASSUME NEW x \in B PROVE \E i \in 1..m : b[i] = x
  <2>1. PICK i \in 0..(m - 1) : x = base + PAGE_SIZE * i
    BY <1>4
  <2>2. i + 1 \in 1..m /\ (i + 1) - 1 = i
    BY <1>1
  <2> QED  BY <1>5, <2>1, <2>2
<1>8. ASSUME NEW i \in Int, NEW j \in Int, base + PAGE_SIZE * i = base + PAGE_SIZE * j
      PROVE  i = j
  <2>1. PAGE_SIZE * i = PAGE_SIZE * j
    BY <1>1, <1>8
  <2> QED  BY <2>1, BatchApart
<1>9. ASSUME NEW i \in 1..m, NEW j \in 1..m, b[i] = b[j] PROVE i = j
  <2>1. i - 1 = j - 1
    BY <1>5, <1>8, <1>9
  <2> QED  BY <2>1
<1>10. ASSUME NEW i \in 1..m
       PROVE  /\ i # m => b[i] + PAGE_SIZE = b[i + 1] /\ b[i + 1] \in B
              /\ i = m => b[i] + PAGE_SIZE \notin B
  <2>1. b[i] + PAGE_SIZE = base + PAGE_SIZE * i
    <3>1. PAGE_SIZE * i = PAGE_SIZE * (i - 1) + PAGE_SIZE
      BY <1>1, SMTT(30)
    <3> QED  BY <1>1, <1>5, <3>1
  <2>2. CASE i # m
    <3>1. i + 1 \in 1..m /\ (i + 1) - 1 = i
      BY <1>1, <2>2
    <3>2. b[i + 1] = base + PAGE_SIZE * i
      BY <1>5, <3>1
    <3> QED  BY <1>6, <2>1, <2>2, <3>1, <3>2
  <2>3. CASE i = m
    <3> SUFFICES ASSUME b[i] + PAGE_SIZE \in B PROVE FALSE
      BY <2>3
    <3>1. PICK j \in 0..(m - 1) : b[i] + PAGE_SIZE = base + PAGE_SIZE * j
      BY <1>4
    <3>2. i = j
      BY <1>1, <1>8, <2>1, <3>1
    <3> QED  BY <1>1, <2>3, <3>2
  <2> QED  BY <2>2, <2>3
<1>11. b[1] = base
  BY <1>1, <1>5
<1> HIDE DEF b, B
<1>12. \A x \in mapped : next_pool_link'[x] = IF x = prev THEN b[1] ELSE next_pool_link[x]
  BY <1>2, <1>3, <1>11
<1>13. ASSUME NEW i \in 1..m
       PROVE  next_pool_link'[b[i]] = IF i = m THEN NULL ELSE b[i + 1]
  <2>1. b[i] \in B /\ b[i] \in Pages /\ b[i] # prev
    BY <1>2, <1>3, <1>6
  <2>2. next_pool_link'[b[i]] = IF b[i] + PAGE_SIZE \in B THEN b[i] + PAGE_SIZE ELSE NULL
    BY <1>2, <1>3, <2>1
  <2> QED  BY <1>10, <2>2
<1>14. NULL \notin mapped /\ NULL \notin B /\ B \cap mapped = {}
  BY <1>1, <1>2, <1>3
<1>15. IsChain(Top, next_pool_link, mapped, NULL)
  BY DEF ListOK
<1>16. IsChain(Top, next_pool_link', mapped \cup B, NULL)
  <2>1. m \in Nat \ {0} /\ prev \in mapped /\ next_pool_link[prev] = NULL
    BY <1>1, <1>3
  <2> HIDE DEF m
  <2>2. \A x \in B : \E i \in 1..m : b[i] = x
    BY <1>7
  <2>3. \A i, j \in 1..m : b[i] = b[j] => i = j
    BY <1>9
  <2>4. \A i \in 1..m : next_pool_link'[b[i]] = IF i = m THEN NULL ELSE b[i + 1]
    BY <1>13
  <2> QED  BY <2>1, <1>6, <2>2, <2>3, <1>12, <2>4, <1>14, <1>15, ChainAppend
<1> QED  BY <1>2, <1>16

LEMMA ListInit == Init => ListOK
<1> SUFFICES ASSUME Init PROVE ListOK
  OBVIOUS
<1>1. mapped = {Top} /\ next_pool_link[Top] = NULL /\ phase = "unlocked"
  BY PoolAssumption DEF Init
<1>2. IsChain(Top, next_pool_link, {} \cup {Top}, NULL)
  BY <1>1, ChainEmpty, ChainPrepend
<1> QED  BY <1>1, <1>2 DEF ListOK

LEMMA ListStep == PInv /\ ListOK /\ [Next]_vars => ListOK'
<1> SUFFICES ASSUME PInv, ListOK, [Next]_vars PROVE ListOK'
  OBVIOUS
<1>1. ASSUME NEW base \in Pages, AllocMap(base) PROVE ListOK'
  <2>1. header' # NULL
    BY <1>1, PoolAssumption DEF AllocMap
  <2> QED  BY <1>1, <2>1, MapLinks DEF ListOK
<1>2. CASE AllocFirst \/ AllocFound
  BY <1>2, HandOut DEF Take, ListOK
<1>3. CASE AllocWalk
  BY <1>3 DEF AllocWalk, headers, ListOK
<1>4. CASE AllocFull
  BY <1>4 DEF AllocFull, headers, ListOK, PInv, WalkOK
<1>5. CASE AllocBegin \/ AllocFails
  BY <1>5 DEF AllocBegin, AllocFails, headers, ListOK
<1>6. ASSUME NEW buf \in taken, Free(buf) PROVE ListOK'
  BY <1>6 DEF Free, ListOK
<1>7. CASE UNCHANGED vars
  BY <1>7 DEF vars, headers, ListOK
<1> QED  BY <1>1, <1>2, <1>3, <1>4, <1>5, <1>6, <1>7 DEF Next, Alloc

\* For any number of pages, every mapped page is in the list from Top, once, and
\* a walk that has reached its end has the last page in prev
\* (memchk_allocator.c:64-83, 134-151).
THEOREM ListIsWhole == IsFiniteSet(Pages) => (Spec => []ListWhole)
<1> SUFFICES ASSUME IsFiniteSet(Pages) PROVE Spec => []ListWhole
  OBVIOUS
<1>1. PInv /\ ListOK => ListWhole
  <2> SUFFICES ASSUME PInv, ListOK PROVE ListWhole
    OBVIOUS
  <2> DEFINE N == Cardinality(Pages)
             node[n \in 0..N] == IF n = 0 THEN Top
                                 ELSE IF node[n - 1] = NULL THEN NULL
                                 ELSE next_pool_link[node[n - 1]]
  <2>1. IsChain(Top, next_pool_link, mapped, NULL) /\ NULL \notin mapped /\ mapped \subseteq Pages
    BY PoolAssumption DEF ListOK, PInv, TypeOK
  <2>2. \E f : IsWalk(f, Top, next_pool_link, NULL, N)
    BY <2>1, WalkExists
  <2>3. IsWalk(node, Top, next_pool_link, NULL, N)
    BY <2>2, Zenon DEF IsWalk
  <2>4. node[N] = NULL /\ {node[n] : n \in 0..N} \ {NULL} = mapped
    <3> HIDE DEF node
    <3> QED  BY <2>1, <2>3, ChainWalk
  <2>5. phase = "walk" /\ header = NULL => prev # NULL /\ next_pool_link[prev] = NULL
    BY DEF PInv, WalkOK, ListOK
  <2> QED  BY <2>4, <2>5, Zenon DEF ListWhole
<1> QED
  BY PoolInit, PoolStep, ListInit, ListStep, <1>1, PTL DEF Spec
=============================================================================
