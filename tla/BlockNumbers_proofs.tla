-------------------------- MODULE BlockNumbers_proofs --------------------------
(*****************************************************************************)
(* What the arithmetic of BlockNumbers gives for every size, address,        *)
(* alignment and width, and where it stops giving it.                        *)
(*****************************************************************************)
EXTENDS BlockNumbers, ChainsAndSums

\* A number below the modulus is its own remainder.
LEMMA SmallMod ==
    ASSUME NEW m \in Nat \ {0}, NEW n \in 0..(m - 1)
    PROVE  n % m = n
PROOF BY SMTT(30)

\* One that has passed the modulus once comes back to the start.
LEMMA WrappedMod ==
    ASSUME NEW m \in Nat \ {0}, NEW n \in m..(2 * m - 1)
    PROVE  n % m = n - m
PROOF BY SMTT(30)

LEMMA ModRange ==
    ASSUME NEW m \in Nat \ {0}, NEW n \in Int
    PROVE  n % m \in 0..(m - 1)
PROOF BY SMTT(30)

\* What rounding down leaves is a multiple, and less than one step is lost.
LEMMA RoundDownExact ==
    ASSUME NEW al \in Nat \ {0}, NEW n \in Nat
    PROVE  /\ RoundDown(n, al) \in Nat
           /\ RoundDown(n, al) % al = 0
           /\ RoundDown(n, al) <= n
           /\ n < RoundDown(n, al) + al
PROOF
<1>1. n % al \in 0..(al - 1) /\ n = al * (n \div al) + (n % al) /\ n \div al \in Nat
  BY SMTT(30)
<1>2. RoundDown(n, al) = al * (n \div al)
  BY <1>1 DEF RoundDown
<1>3. (al * (n \div al)) % al = 0
  <2> DEFINE q == n \div al
  <2> DEFINE p == (al * q) \div al
  <2> DEFINE r == (al * q) % al
  <2>1. q \in Int /\ al * q \in Int
    BY <1>1
  <2>2. r \in 0..(al - 1) /\ p \in Int /\ al * q = al * p + r
    BY <2>1, SMTT(30)
  <2>3. r = al * (q - p)
    BY <2>1, <2>2, SMTT(30)
  <2> HIDE DEF q, p, r
  <2>4. CASE q - p >= 1
    <3>1. al * (q - p) >= al
      BY <2>1, <2>2, <2>4, SMTT(30)
    <3> QED BY <3>1, <2>2, <2>3
  <2>5. CASE q - p <= -1
    <3>1. al * (q - p) <= -al
      BY <2>1, <2>2, <2>5, SMTT(30)
    <3> QED BY <3>1, <2>2, <2>3
  <2>6. CASE q - p = 0
    <3>1. r = 0
      BY <2>1, <2>2, <2>3, <2>6
    <3> QED BY <3>1 DEF r, q
  <2> QED BY <2>1, <2>2, <2>4, <2>5, <2>6
<1>4. al * (n \div al) \in Nat
  BY <1>1
<1> QED BY <1>1, <1>2, <1>3, <1>4

-----------------------------------------------------------------------------
(* The red zones *)

\* A block from malloc, of a size that does not wrap, has a whole red zone at
\* either side, inside the buffer libc gave for it (memchk_hook.c:35, 54).
THEOREM PlainBlockFits ==
    ASSUME NEW buf \in Nat, NEW size \in Word,
           size + 2 * REDZONE_SIZE < WordSize,
           buf + malloc_bufsize(size) < WordSize
    PROVE  /\ leading_redzone_size(buf, buf + REDZONE_SIZE) = REDZONE_SIZE
           /\ trailing_redzone_size(buf, malloc_bufsize(size), buf + REDZONE_SIZE, size)
                  = REDZONE_SIZE
PROOF
<1>1. REDZONE_SIZE \in Nat /\ WordSize \in Nat \ {0} /\ REDZONE_SIZE < WordSize /\ size \in Nat
  BY NumbersAssumption DEF Word
<1>2. malloc_bufsize(size) = size + 2 * REDZONE_SIZE
  <2>1. size + 2 * REDZONE_SIZE \in 0..(WordSize - 1)
    BY <1>1
  <2> QED BY <2>1, <1>1, SmallMod DEF malloc_bufsize
<1>3. leading_redzone_size(buf, buf + REDZONE_SIZE) = REDZONE_SIZE
  <2>1. (buf + REDZONE_SIZE) - buf = REDZONE_SIZE /\ REDZONE_SIZE \in 0..(WordSize - 1)
    BY <1>1
  <2> QED BY <2>1, <1>1, SmallMod DEF leading_redzone_size
<1>4. (size + 2 * REDZONE_SIZE) - REDZONE_SIZE - size = REDZONE_SIZE
  BY <1>1
<1>5. REDZONE_SIZE % WordSize = REDZONE_SIZE
  <2>1. REDZONE_SIZE \in 0..(WordSize - 1)
    BY <1>1
  <2> QED BY <2>1, <1>1, SmallMod
<1> QED BY <1>2, <1>3, <1>4, <1>5 DEF trailing_redzone_size

\* A block from the aligned calls starts at a multiple of its alignment, with
\* at least a whole red zone at either side inside its buffer, whatever address
\* libc chose: the alignment - 1 extra bytes are exactly enough
\* (memchk_hook.c:149-170).
THEOREM AlignedBlockFits ==
    ASSUME NEW buf \in Nat, NEW size \in Word, NEW al \in Nat \ {0},
           size + 2 * REDZONE_SIZE + al - 1 < WordSize,
           buf + aligned_bufsize(al, size) < WordSize,
           NEW usrptr, usrptr = aligned_usrptr(buf, al)
    PROVE  /\ usrptr % al = 0
           /\ leading_redzone_size(buf, usrptr) \in REDZONE_SIZE..(REDZONE_SIZE + al - 1)
           /\ trailing_redzone_size(buf, aligned_bufsize(al, size), usrptr, size)
                  \in REDZONE_SIZE..(REDZONE_SIZE + al - 1)
PROOF
<1>1. REDZONE_SIZE \in Nat /\ WordSize \in Nat \ {0} /\ size \in Nat
  BY NumbersAssumption DEF Word
<1> DEFINE bufsize == size + 2 * REDZONE_SIZE + al - 1
<1> DEFINE start == buf + REDZONE_SIZE
<1>2. aligned_bufsize(al, size) = bufsize /\ bufsize \in 0..(WordSize - 1)
  <2>1. bufsize \in 0..(WordSize - 1)
    BY <1>1
  <2> QED BY <2>1, <1>1, SmallMod DEF aligned_bufsize
<1>3. aligned_usrptr(buf, al) = RoundDown(start + al - 1, al)
  <2>1. start + al - 1 \in 0..(WordSize - 1) /\ start \in 0..(WordSize - 1)
    BY <1>1, <1>2
  <2> QED BY <2>1, <1>1, SmallMod DEF aligned_usrptr, align_addr
<1>4. start + al - 1 \in Nat
  BY <1>1
<1> HIDE DEF start
<1>5. /\ usrptr \in Nat /\ usrptr % al = 0
      /\ usrptr <= start + al - 1 /\ start + al - 1 < usrptr + al
  BY <1>3, <1>4, RoundDownExact
<1>6. usrptr - buf \in REDZONE_SIZE..(REDZONE_SIZE + al - 1)
  BY <1>1, <1>5 DEF start
<1>7. leading_redzone_size(buf, usrptr) = usrptr - buf
  <2>1. usrptr - buf \in 0..(WordSize - 1)
    BY <1>1, <1>2, <1>6
  <2> QED BY <2>1, <1>1, SmallMod DEF leading_redzone_size
<1>8. bufsize - (usrptr - buf) - size \in REDZONE_SIZE..(REDZONE_SIZE + al - 1)
  BY <1>1, <1>5, <1>6
<1>9. (bufsize - (usrptr - buf) - size) % WordSize = bufsize - (usrptr - buf) - size
  <2>1. bufsize - (usrptr - buf) - size \in 0..(WordSize - 1)
    BY <1>1, <1>2, <1>6, <1>8
  <2> QED BY <2>1, <1>1, SmallMod
<1>10. trailing_redzone_size(buf, aligned_bufsize(al, size), usrptr, size)
         = bufsize - (usrptr - buf) - size
  BY <1>2, <1>7, <1>9 DEF trailing_redzone_size
<1> QED BY <1>5, <1>6, <1>7, <1>8, <1>10

\* A size so near the maximum that bufsize wraps is handed a buffer shorter
\* than the block asked for: nothing checks the sum (memchk_hook.c:35, 161).
THEOREM WrappedBufferIsShort ==
    ASSUME NEW size \in Word, NEW al \in Nat \ {0},
           2 * REDZONE_SIZE + al - 1 < WordSize,
           size + 2 * REDZONE_SIZE + al - 1 >= WordSize
    PROVE  /\ aligned_bufsize(al, size) < size
           /\ al = 1 => malloc_bufsize(size) < size
PROOF
<1>1. REDZONE_SIZE \in Nat /\ WordSize \in Nat \ {0} /\ size \in 0..(WordSize - 1)
  BY NumbersAssumption DEF Word
<1> DEFINE sum == size + 2 * REDZONE_SIZE + al - 1
<1>2. sum \in WordSize..(2 * WordSize - 1)
  BY <1>1
<1>3. sum % WordSize = sum - WordSize
  BY <1>1, <1>2, WrappedMod
<1>4. sum - WordSize < size
  BY <1>1
<1>5. al = 1 => sum = size + 2 * REDZONE_SIZE
  BY <1>1
<1> QED BY <1>3, <1>4, <1>5 DEF aligned_bufsize, malloc_bufsize

\* pvalloc asks for the smallest number of whole pages that holds the size
\* (memchk_hook.c:210).
THEOREM PvallocRoundsUp ==
    ASSUME NEW size \in Word, size + PAGE_SIZE - 1 < WordSize
    PROVE  /\ pvalloc_size(size) % PAGE_SIZE = 0
           /\ pvalloc_size(size) \in size..(size + PAGE_SIZE - 1)
PROOF
<1>1. PAGE_SIZE \in Nat \ {0} /\ WordSize \in Nat \ {0} /\ size \in Nat
  BY NumbersAssumption DEF Word
<1>2. size + PAGE_SIZE - 1 \in Nat /\ size + PAGE_SIZE - 1 \in 0..(WordSize - 1)
  BY <1>1
<1>3. pvalloc_size(size) = RoundDown(size + PAGE_SIZE - 1, PAGE_SIZE)
  BY <1>1, <1>2, SmallMod DEF pvalloc_size
<1>4. /\ RoundDown(size + PAGE_SIZE - 1, PAGE_SIZE) \in Nat
      /\ RoundDown(size + PAGE_SIZE - 1, PAGE_SIZE) % PAGE_SIZE = 0
      /\ RoundDown(size + PAGE_SIZE - 1, PAGE_SIZE) <= size + PAGE_SIZE - 1
      /\ size + PAGE_SIZE - 1 < RoundDown(size + PAGE_SIZE - 1, PAGE_SIZE) + PAGE_SIZE
  BY <1>1, <1>2, RoundDownExact
<1> QED BY <1>1, <1>3, <1>4

-----------------------------------------------------------------------------
(* The order of the listings *)

\* Below half the int range a cast to int keeps a number.
LEMMA IntKeeps ==
    ASSUME NEW n \in (-IntHalf)..(IntHalf - 1)
    PROVE  Int32(n) = n
PROOF
<1>1. IntHalf \in Nat \ {0}
  BY NumbersAssumption
<1>2. n + IntHalf \in 0..(2 * IntHalf - 1) /\ 2 * IntHalf \in Nat \ {0}
  BY <1>1
<1>3. (n + IntHalf) % (2 * IntHalf) = n + IntHalf
  BY <1>2, SmallMod
<1> QED BY <1>1, <1>3 DEF Int32

\* Above it the cast comes out negative.
LEMMA IntWraps ==
    ASSUME NEW n \in IntHalf..(2 * IntHalf - 1)
    PROVE  Int32(n) = n - 2 * IntHalf
PROOF
<1>1. IntHalf \in Nat \ {0}
  BY NumbersAssumption
<1> DEFINE m == 2 * IntHalf
<1> DEFINE k == n + IntHalf
<1>2. m \in Nat \ {0} /\ k \in m..(2 * m - 1)
  BY <1>1
<1>3. k % m = k - m
  <2> HIDE DEF m, k
  <2> QED BY <1>2, WrappedMod
<1> QED BY <1>1, <1>3 DEF Int32

\* Among blocks below 2 GiB the comparison is the difference of the sizes: qsort
\* is given a total preorder and lists the largest first (memchk_sort.c:19-29).
THEOREM ListingIsOrdered ==
    ASSUME NEW a \in 0..(IntHalf - 1), NEW b \in 0..(IntHalf - 1)
    PROVE  compare_by_alloc_memblk(a, b) = b - a
PROOF
<1>1. IntHalf \in Nat \ {0}
  BY NumbersAssumption
<1>2. Int32(a) = a /\ Int32(b) = b
  <2>1. a \in (-IntHalf)..(IntHalf - 1) /\ b \in (-IntHalf)..(IntHalf - 1)
    BY <1>1
  <2> QED BY <2>1, IntKeeps
<1>3. b - a \in (-IntHalf)..(IntHalf - 1)
  BY <1>1
<1> QED BY <1>2, <1>3, IntKeeps DEF compare_by_alloc_memblk

\* Above 2 GiB it is not: a block at least 2 GiB larger than a small one is put
\* after it, although the subtraction itself does not overflow
\* (memchk_sort.c:27).
THEOREM ListingMisplacesLarge ==
    ASSUME NEW a \in 0..(IntHalf - 1), NEW b \in IntHalf..(2 * IntHalf - 1),
           b - a >= IntHalf
    PROVE  compare_by_alloc_memblk(a, b) < 0
PROOF
<1>1. IntHalf \in Nat \ {0}
  BY NumbersAssumption
<1>2. Int32(a) = a /\ Int32(b) = b - 2 * IntHalf
  <2>1. a \in (-IntHalf)..(IntHalf - 1)
    BY <1>1
  <2> QED BY <2>1, IntKeeps, IntWraps
<1>3. (b - 2 * IntHalf) - a \in (-IntHalf)..(IntHalf - 1) /\ (b - 2 * IntHalf) - a < 0
  BY <1>1
<1> QED BY <1>2, <1>3, IntKeeps DEF compare_by_alloc_memblk

-----------------------------------------------------------------------------
(* The bins of the histogram *)

Bins == 0..(HISTO_BINS - 1)

IsUpper(g, n) ==
    g = [i \in 0..n |-> IF i = 0 THEN HISTO_MAGNIFICATION ELSE g[i - 1] * HISTO_MAGNIFICATION]

\* The loop has an upper bound for every bin it comes to.
LEMMA UpperExists == ASSUME NEW n \in Nat PROVE \E g : IsUpper(g, n)
PROOF
<1> DEFINE M == HISTO_MAGNIFICATION
           Next(g, i) == IF i = 0 THEN M ELSE g[i - 1] * M
           T == {m \in Nat : \E g : IsUpper(g, m)}
<1>0. ASSUME NEW g, NEW m, g = [i \in 0..m |-> Next(g, i)] PROVE IsUpper(g, m)
  BY <1>0, Zenon DEF IsUpper
<1>1. 0 \in T
  <2> DEFINE g == [i \in 0..0 |-> M]
  <2>1. \A i \in 0..0 : i = 0
    OBVIOUS
  <2>2. \A i \in 0..0 : M = Next(g, i)
    BY <2>1
  <2>3. g = [i \in 0..0 |-> Next(g, i)]
    <3> DEFINE h == g
    <3> HIDE DEF Next, h
    <3> QED  BY <2>2
  <2> HIDE DEF g, Next
  <2>4. IsUpper(g, 0)
    BY <1>0, <2>3
  <2> QED  BY <2>4
<1>2. ASSUME NEW m \in T PROVE m + 1 \in T
  <2>1. PICK h : IsUpper(h, m)
    OBVIOUS
  <2>2. m \in Nat /\ m + 1 \in Nat
    OBVIOUS
  <2>3. h = [i \in 0..m |-> Next(h, i)]
    BY <2>1, Zenon DEF IsUpper
  <2>4. \A i \in 0..m : h[i] = Next(h, i)
    <3> HIDE DEF Next
    <3> QED  BY <2>3
  <2> DEFINE g == [i \in 0..(m + 1) |-> IF i <= m THEN h[i] ELSE h[m] * M]
             G == [i \in 0..(m + 1) |-> Next(g, i)]
  <2>5. ASSUME NEW i \in 0..(m + 1) PROVE g[i] = Next(g, i)
    <3>1. CASE i = 0
      <4>1. i \in 0..m /\ g[i] = h[i]
        BY <2>2, <3>1
      <4> HIDE DEF g
      <4> QED  BY <2>4, <3>1, <4>1
    <3>2. CASE i # 0 /\ i <= m
      <4>1. i \in 0..m /\ g[i] = h[i] /\ g[i - 1] = h[i - 1]
        BY <2>2, <3>2
      <4> HIDE DEF g
      <4> QED  BY <2>4, <3>2, <4>1
    <3>3. CASE ~(i <= m)
      <4>1. i = m + 1 /\ i - 1 = m /\ i # 0 /\ g[i] = h[m] * M /\ g[i - 1] = h[m]
        BY <2>2, <3>3
      <4> HIDE DEF g
      <4> QED  BY <4>1
    <3> QED  BY <3>1, <3>2, <3>3
  <2>6. g = [i \in 0..(m + 1) |-> g[i]]
    OBVIOUS
  <2> HIDE DEF g, Next
  <2>7. \A i \in 0..(m + 1) : g[i] = G[i]
    BY <2>5
  <2>8. g = G
    BY <2>6, <2>7
  <2>9. IsUpper(g, m + 1)
    BY <1>0, <2>8 DEF G
  <2> QED  BY <2>2, <2>9
<1>3. T \in SUBSET Nat
  OBVIOUS
<1> HIDE DEF T
<1>4. T = Nat
  BY <1>1, <1>2, <1>3, NatByStep
<1> QED  BY <1>4 DEF T

LEMMA UpperIs ==
    \A i \in Bins : upper[i] = IF i = 0 THEN HISTO_MAGNIFICATION ELSE upper[i - 1] * HISTO_MAGNIFICATION
PROOF
<1>1. HISTO_BINS - 1 \in Nat
  BY NumbersAssumption
<1>2. \E g : IsUpper(g, HISTO_BINS - 1)
  BY <1>1, UpperExists
<1>3. IsUpper(upper, HISTO_BINS - 1)
  BY <1>2, Zenon DEF IsUpper, upper
<1> DEFINE Next(i) == IF i = 0 THEN HISTO_MAGNIFICATION ELSE upper[i - 1] * HISTO_MAGNIFICATION
<1>4. upper = [i \in Bins |-> Next(i)]
  BY <1>3, Zenon DEF IsUpper, Bins
<1>5. \A i \in Bins : upper[i] = Next(i)
  <2> HIDE DEF Next
  <2> QED  BY <1>4
<1> QED  BY <1>5

\* A later bin ends higher.
LEMMA UpperGrows ==
    /\ \A i \in Bins : upper[i] \in Nat /\ upper[i] >= 1
    /\ \A i, j \in Bins : i <= j => upper[i] <= upper[j]
PROOF
<1> DEFINE M == HISTO_MAGNIFICATION
<1>0. M \in Nat /\ M >= 2 /\ HISTO_BINS \in Nat /\ HISTO_BINS >= 1
  BY NumbersAssumption
<1>1. ASSUME NEW x \in Nat, x >= 1 PROVE x * M \in Nat /\ x * M >= x /\ x * M >= 1
  <2>1. \A a, b \in Nat : a >= 1 /\ b >= 1 => a * b \in Nat /\ a * b >= a
    BY SMTT(30)
  <2>2. x * M \in Nat /\ x * M >= x
    BY <1>0, <1>1, <2>1
  <2> QED  BY <1>1, <2>2
<1> DEFINE Grown(n) == upper[n] \in Nat /\ upper[n] >= 1 /\ \A i \in 0..n : upper[i] \in Nat /\ upper[i] <= upper[n]
           T == {n \in Nat : n \in Bins => Grown(n)}
<1>2. 0 \in T
  <2>1. 0 \in Bins /\ upper[0] = M
    BY <1>0, UpperIs DEF Bins
  <2>2. \A i \in 0..0 : i = 0
    OBVIOUS
  <2> QED  BY <1>0, <2>1, <2>2
<1>3. ASSUME NEW n \in T PROVE n + 1 \in T
  <2>0. n \in Nat
    OBVIOUS
  <2> SUFFICES ASSUME n + 1 \in Bins PROVE Grown(n + 1)
    OBVIOUS
  <2>1. n \in Bins /\ n + 1 # 0 /\ (n + 1) - 1 = n
    BY <1>0, <2>0 DEF Bins
  <2>2. Grown(n)
    BY <2>1
  <2>3. upper[n + 1] = upper[n] * M
    BY <2>1, UpperIs
  <2>4. upper[n + 1] \in Nat /\ upper[n + 1] >= upper[n] /\ upper[n + 1] >= 1
    BY <1>1, <2>2, <2>3
  <2>5. ASSUME NEW i \in 0..(n + 1) PROVE upper[i] \in Nat /\ upper[i] <= upper[n + 1]
    <3>1. CASE i = n + 1
      BY <2>4, <3>1
    <3>2. CASE i # n + 1
      <4>1. i \in 0..n
        BY <2>0, <3>2
      <4>2. upper[i] \in Nat /\ upper[i] <= upper[n] /\ upper[n] \in Nat
        BY <2>2, <4>1
      <4> QED  BY <2>4, <4>2
    <3> QED  BY <3>1, <3>2
  <2> QED  BY <2>4, <2>5
<1>4. T \in SUBSET Nat
  OBVIOUS
<1> HIDE DEF T
<1>5. T = Nat
  BY <1>2, <1>3, <1>4, NatByStep
<1>6. \A n \in Bins : Grown(n)
  BY <1>0, <1>5 DEF T, Bins
<1> QED  BY <1>6 DEF Bins

\* Every block that is not empty is counted in exactly the bin whose label, as
\* mc_print_histogram_alloc_memblk prints it, names its size: the loop of
\* __update_histogram stops there, and what is larger than all bounds goes to
\* the last bin.
THEOREM BlockInItsBin ==
    \A usrsize \in Nat, i \in Bins :
        (i = histogram_bin(usrsize) /\ usrsize > 0) <=> Labelled(usrsize, i)
PROOF
<1> SUFFICES ASSUME NEW usrsize \in Nat, NEW i \in Bins
             PROVE  (i = histogram_bin(usrsize) /\ usrsize > 0) <=> Labelled(usrsize, i)
  OBVIOUS
<1> DEFINE last == HISTO_BINS - 1
           holding == {j \in 0..(HISTO_BINS - 1) : usrsize <= upper[j]}
           b == histogram_bin(usrsize)
<1>1. last \in Nat /\ i \in Nat /\ i <= last /\ last \in Bins /\ Bins = 0..last
  BY NumbersAssumption DEF Bins
<1>2. /\ \A j \in Bins : upper[j] \in Nat /\ upper[j] >= 1
      /\ \A j, k \in Bins : j <= k => upper[j] <= upper[k]
  BY UpperGrows
<1>3. b = IF holding = {} THEN last ELSE Min(holding)
  BY DEF histogram_bin
<1>4. b \in Bins /\ (b # last => usrsize <= upper[b]) /\ \A j \in Bins : j < b => upper[j] < usrsize
  <2>1. CASE holding = {}
    <3>1. \A j \in Bins : ~(usrsize <= upper[j])
      BY <1>1, <2>1
    <3>2. b = last /\ \A j \in Bins : upper[j] < usrsize
      BY <1>2, <1>3, <2>1, <3>1
    <3> QED  BY <1>1, <3>2
  <2>2. CASE holding # {}
    <3>1. holding \in SUBSET Nat
      BY <1>1
    <3>2. PICK k \in holding : \A j \in holding : k <= j
      <4> HIDE DEF holding
      <4> QED  BY <2>2, <3>1, Least
    <3>3. LET m == CHOOSE x \in holding : \A y \in holding : x <= y
          IN  m \in holding /\ \A y \in holding : m <= y
      <4> HIDE DEF holding
      <4> QED  BY <3>2, Zenon
    <3>4. b \in holding /\ \A y \in holding : b <= y
      <4> HIDE DEF holding, b
      <4> QED  BY <1>3, <2>2, <3>3, Zenon DEF Min
    <3>5. b \in Bins /\ usrsize <= upper[b]
      <4> HIDE DEF b
      <4> QED  BY <1>1, <3>4
    <3>6. ASSUME NEW j \in Bins, j < b PROVE upper[j] < usrsize
      <4>1. j \notin holding
        <5> SUFFICES ASSUME j \in holding PROVE FALSE
          OBVIOUS
        <5>1. b <= j /\ b \in Nat /\ j \in Nat
          <6> HIDE DEF b, holding
          <6> QED  BY <1>1, <3>4, <3>5
        <5> HIDE DEF b
        <5> QED  BY <3>6, <5>1
      <4>2. ~(usrsize <= upper[j])
        BY <1>1, <4>1
      <4> QED  BY <1>2, <4>2
    <3> QED  BY <3>5, <3>6
  <2> QED  BY <2>1, <2>2
<1> HIDE DEF b, holding
<1>5. b \in Nat /\ b <= last /\ i - 1 \in Int
  BY <1>1, <1>4
<1>6. ASSUME i = b, usrsize > 0 PROVE Labelled(usrsize, i)
  <2>1. i < last => usrsize <= upper[i]
    BY <1>4, <1>5, <1>6
  <2>2. i # 0 => upper[i - 1] < usrsize /\ upper[i - 1] \in Nat
    <3>1. i # 0 => i - 1 \in Bins /\ i - 1 < b
      BY <1>1, <1>6
    <3> QED  BY <1>2, <1>4, <3>1
  <2>3. usrsize >= IF i = 0 THEN 1 ELSE upper[i - 1] + 1
    BY <1>6, <2>2
  <2> QED  BY <2>1, <2>3 DEF Labelled
<1>7. ASSUME Labelled(usrsize, i) PROVE i = b /\ usrsize > 0
  <2>1. usrsize >= (IF i = 0 THEN 1 ELSE upper[i - 1] + 1) /\ (i < last => usrsize <= upper[i])
    BY <1>7 DEF Labelled
  <2>2. usrsize > 0
    <3>1. i # 0 => i - 1 \in Bins
      BY <1>1
    <3>2. i # 0 => upper[i - 1] \in Nat
      BY <1>2, <3>1
    <3> QED  BY <2>1, <3>2
  <2>3. ~(i < b)
    <3> SUFFICES ASSUME i < b PROVE FALSE
      OBVIOUS
    <3>1. upper[i] < usrsize /\ i < last /\ upper[i] \in Nat
      BY <1>1, <1>2, <1>4, <1>5
    <3> QED  BY <2>1, <3>1
  <2>4. ~(b < i)
    <3> SUFFICES ASSUME b < i PROVE FALSE
      OBVIOUS
    <3>1. i # 0 /\ i - 1 \in Bins /\ b <= i - 1 /\ b # last
      BY <1>1, <1>5
    <3>2. usrsize <= upper[b] /\ upper[b] <= upper[i - 1]
      BY <1>2, <1>4, <3>1
    <3>3. upper[b] \in Nat /\ upper[i - 1] \in Nat
      BY <1>2, <1>4, <3>1
    <3> QED  BY <2>1, <3>1, <3>2, <3>3
  <2> QED  BY <1>1, <1>5, <2>2, <2>3, <2>4
<1> QED  BY <1>6, <1>7 DEF b
=============================================================================
