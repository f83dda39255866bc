----------------------------- MODULE ChainsAndSums -----------------------------
(*****************************************************************************)
(* What the proofs about the tracker need to know of its data. Chains of     *)
(* records linked by a field, as the hash tables of memchk_hashtable.c and   *)
(* the page lists of memchk_allocator.c keep them: what adding and removing  *)
(* an element does to a chain, and where following it leads. Sums over       *)
(* finite sets, as the counters of memchk_manage_memblk.c keep them: what    *)
(* one more or one fewer element does to a sum. Nothing here depends on the  *)
(* order in which a walk or a sum takes the elements.                        *)
(*****************************************************************************)
EXTENDS Integers, FiniteSets, FiniteSetsExt, FiniteSetTheorems, WellFoundedInduction, TLAPS

\* The n elements of S, in the order in which link leads from first to null.
Ordered(first, link, S, null, n, s) ==
    /\ s \in [1..n -> S]
    /\ \A x \in S : \E i \in 1..n : s[i] = x
    /\ \A i, j \in 1..n : s[i] = s[j] => i = j
    /\ first = IF n = 0 THEN null ELSE s[1]
    /\ \A i \in 1..n : link[s[i]] = IF i = n THEN null ELSE s[i + 1]

\* link leads from first through every element of S once, then to null.
IsChain(first, link, S, null) ==
    \E n \in Nat : \E s \in [1..n -> S] : Ordered(first, link, S, null, n, s)

LEMMA ChainEmpty == ASSUME NEW link, NEW null PROVE IsChain(null, link, {}, null)
<1>1. [i \in 1..0 |-> null] \in [1..0 -> {}]
  OBVIOUS
<1>2. Ordered(null, link, {}, null, 0, [i \in 1..0 |-> null])
  BY <1>1 DEF Ordered
<1> QED  BY <1>1, <1>2 DEF IsChain

\* Only the links of its elements matter.
LEMMA ChainSame ==
    ASSUME NEW first, NEW link, NEW S, NEW null, IsChain(first, link, S, null),
           NEW link2, \A x \in S : link2[x] = link[x]
    PROVE  IsChain(first, link2, S, null)
<1>0. PICK n \in Nat : \E s \in [1..n -> S] : Ordered(first, link, S, null, n, s)
  BY DEF IsChain
<1>1. PICK s \in [1..n -> S] : Ordered(first, link, S, null, n, s)
  BY <1>0
<1>2. \A i \in 1..n : link2[s[i]] = link[s[i]]
  OBVIOUS
<1>3. Ordered(first, link2, S, null, n, s)
  BY <1>1, <1>2 DEF Ordered
<1> QED  BY <1>3 DEF IsChain

\* A chain does not leave its set but at the end.
LEMMA ChainLinks ==
    ASSUME NEW first, NEW link, NEW S, NEW null, IsChain(first, link, S, null)
    PROVE  first \in S \cup {null} /\ \A x \in S : link[x] \in S \cup {null}
<1>0. PICK n \in Nat : \E s \in [1..n -> S] : Ordered(first, link, S, null, n, s)
  BY DEF IsChain
<1>1. PICK s \in [1..n -> S] : Ordered(first, link, S, null, n, s)
  BY <1>0
<1>2. first \in S \cup {null}
  BY <1>1 DEF Ordered
<1>3. ASSUME NEW x \in S PROVE link[x] \in S \cup {null}
  <2>1. PICK i \in 1..n : s[i] = x
    BY <1>1 DEF Ordered
  <2>2. link[s[i]] = IF i = n THEN null ELSE s[i + 1]
    BY <1>1 DEF Ordered
  <2> QED  BY <2>1, <2>2
<1> QED  BY <1>2, <1>3

\* mc_add_ptr_hashtable: a new first element (memchk_hashtable.c:46-60).
LEMMA ChainPrepend ==
    ASSUME NEW first, NEW link, NEW S, NEW null, IsChain(first, link, S, null),
           NEW r, r \notin S, NEW link2, link2[r] = first,
           \A x \in S : link2[x] = link[x]
    PROVE  IsChain(r, link2, S \cup {r}, null)
<1>0. PICK n \in Nat : \E s \in [1..n -> S] : Ordered(first, link, S, null, n, s)
  BY DEF IsChain
<1>1. PICK s \in [1..n -> S] : Ordered(first, link, S, null, n, s)
  BY <1>0
<1> DEFINE s2 == [i \in 1..(n + 1) |-> IF i = 1 THEN r ELSE s[i - 1]]
<1>2. \A i \in 2..(n + 1) : i - 1 \in 1..n /\ s[i - 1] \in S
  OBVIOUS
<1>3. /\ s2[1] = r /\ 1 \in 1..(n + 1)
      /\ \A i \in 2..(n + 1) : s2[i] = s[i - 1] /\ i \in 1..(n + 1)
  OBVIOUS
<1>4. s2 \in [1..(n + 1) -> S \cup {r}]
  BY <1>2
<1>5. \A i \in 1..(n + 1) : i = 1 \/ i \in 2..(n + 1)
  OBVIOUS
<1> HIDE DEF s2
<1>6. \A x \in S \cup {r} : \E i \in 1..(n + 1) : s2[i] = x
  <2>1. ASSUME NEW x \in S PROVE \E i \in 1..(n + 1) : s2[i] = x
    <3>1. PICK i \in 1..n : s[i] = x
      BY <1>1 DEF Ordered
    <3>2. i + 1 \in 2..(n + 1) /\ (i + 1) - 1 = i
      OBVIOUS
    <3> QED  BY <1>3, <3>1, <3>2
  <2> QED  BY <1>3, <2>1
<1>7. ASSUME NEW i \in 1..(n + 1), NEW j \in 1..(n + 1), s2[i] = s2[j] PROVE i = j
  <2>1. CASE i = 1 \/ j = 1
    BY <1>2, <1>3, <1>5, <1>7, <2>1
  <2>2. CASE i # 1 /\ j # 1
    <3>1. i - 1 \in 1..n /\ j - 1 \in 1..n /\ s[i - 1] = s[j - 1]
      BY <1>2, <1>3, <1>5, <1>7, <2>2
    <3>2. i - 1 = j - 1
      BY <1>1, <3>1 DEF Ordered
    <3> QED  BY <3>2
  <2> QED  BY <2>1, <2>2
<1>8. ASSUME NEW i \in 1..(n + 1)
      PROVE  link2[s2[i]] = IF i = n + 1 THEN null ELSE s2[i + 1]
  <2>1. CASE i = 1
    <3>1. link2[s2[i]] = IF n = 0 THEN null ELSE s[1]
      BY <1>1, <1>3, <2>1 DEF Ordered
    <3>2. n # 0 => s2[2] = s[1]
      BY <1>3
    <3> QED  BY <2>1, <3>1, <3>2
  <2>2. CASE i # 1
    <3>1. i - 1 \in 1..n /\ s2[i] = s[i - 1] /\ s[i - 1] \in S
      BY <1>2, <1>3, <1>5, <2>2
    <3>2. link2[s2[i]] = IF i - 1 = n THEN null ELSE s[(i - 1) + 1]
      BY <1>1, <3>1 DEF Ordered
    <3>3. i # n + 1 => s2[i + 1] = s[(i - 1) + 1]
      BY <1>3, <3>1
    <3> QED  BY <3>1, <3>2, <3>3
  <2> QED  BY <2>1, <2>2
<1>9. Ordered(r, link2, S \cup {r}, null, n + 1, s2)
  BY <1>3, <1>4, <1>6, <1>7, <1>8 DEF Ordered
<1> QED  BY <1>4, <1>9 DEF IsChain

\* mc_remove_ptr_hashtable: the predecessor is linked past the element
\* (memchk_hashtable.c:62-90).
LEMMA ChainRemove ==
    ASSUME NEW first, NEW link, NEW S, NEW null, IsChain(first, link, S, null), null \notin S,
           NEW r \in S, NEW link2, NEW first2,
           first2 = IF first = r THEN link[r] ELSE first,
           \A x \in S \ {r} : link2[x] = IF link[x] = r THEN link[r] ELSE link[x]
    PROVE  IsChain(first2, link2, S \ {r}, null)
<1>0. PICK n \in Nat : \E s \in [1..n -> S] : Ordered(first, link, S, null, n, s)
  BY DEF IsChain
<1>1. PICK s \in [1..n -> S] : Ordered(first, link, S, null, n, s)
  BY <1>0
<1>2. PICK k \in 1..n : s[k] = r
  BY <1>1 DEF Ordered
<1>3. /\ \A i, j \in 1..n : s[i] = s[j] => i = j
      /\ \A i \in 1..n : link[s[i]] = IF i = n THEN null ELSE s[i + 1]
      /\ first = s[1]
  BY <1>1 DEF Ordered
<1> DEFINE at(i) == IF i < k THEN i ELSE i + 1
           s2 == [i \in 1..(n - 1) |-> s[at(i)]]
<1>4. n - 1 \in Nat
  OBVIOUS
<1>5. ASSUME NEW i \in 1..(n - 1) PROVE at(i) \in 1..n /\ at(i) # k /\ s2[i] = s[at(i)]
  OBVIOUS
<1>6. \A i, j \in 1..(n - 1) : at(i) = at(j) => i = j
  OBVIOUS
<1>7. ASSUME NEW j \in 1..n, j # k PROVE \E i \in 1..(n - 1) : at(i) = j
  <2>1. CASE j < k
    BY <2>1
  <2>2. CASE ~(j < k)
    <3>1. j - 1 \in 1..(n - 1) /\ at(j - 1) = j
      BY <1>7, <2>2
    <3> QED  BY <3>1
  <2> QED  BY <2>1, <2>2
<1>8. ASSUME NEW i \in 1..(n - 1)
      PROVE  /\ i = n - 1 => at(i) = n \/ (at(i) + 1 = k /\ k = n)
             /\ i # n - 1 => i + 1 \in 1..(n - 1) /\
                    (at(i + 1) = at(i) + 1 \/ (at(i) + 1 = k /\ k # n /\ at(i + 1) = k + 1))
  BY <1>4
<1>9. ASSUME NEW i \in 1..(n - 1) PROVE at(i) + 1 = k <=> i + 1 = k
  OBVIOUS
<1>10. n - 1 # 0 => at(1) = IF k = 1 THEN 2 ELSE 1
  OBVIOUS
<1>11. \A i \in 1..(n - 1) : at(i) \in 1..n /\ at(i) # k /\ s2[i] = s[at(i)] /\ s[at(i)] \in S \ {r}
  BY <1>2, <1>3, <1>5
<1>12. s2 \in [1..(n - 1) -> S \ {r}]
  BY <1>11
<1> HIDE DEF s2, at
<1>13. \A x \in S \ {r} : \E i \in 1..(n - 1) : s2[i] = x
  <2> TAKE x \in S \ {r}
  <2>1. PICK j \in 1..n : s[j] = x
    BY <1>1 DEF Ordered
  <2>2. PICK i \in 1..(n - 1) : at(i) = j
    BY <1>2, <1>7, <2>1
  <2> QED  BY <1>5, <2>1, <2>2
<1>14. \A i, j \in 1..(n - 1) : s2[i] = s2[j] => i = j
  BY <1>3, <1>5, <1>6
<1>15. first2 = IF n - 1 = 0 THEN null ELSE s2[1]
  <2>1. first = r <=> k = 1
    BY <1>2, <1>3
  <2>2. CASE n = 1
    BY <1>2, <1>3, <2>1, <2>2
  <2>3. CASE n # 1
    <3>1. s2[1] = s[at(1)] /\ at(1) = IF k = 1 THEN 2 ELSE 1
      BY <1>5, <1>10, <2>3
    <3>2. k = 1 => link[r] = s[2]
      BY <1>2, <1>3, <2>3
    <3> QED  BY <1>2, <1>3, <2>1, <2>3, <3>1, <3>2
  <2> QED  BY <2>2, <2>3
<1>16. ASSUME NEW i \in 1..(n - 1)
       PROVE  link2[s2[i]] = IF i = n - 1 THEN null ELSE s2[i + 1]
  <2>1. /\ at(i) \in 1..n /\ at(i) # k /\ s2[i] = s[at(i)] /\ s2[i] \in S \ {r}
    BY <1>11
  <2>2. link[s2[i]] = IF at(i) = n THEN null ELSE s[at(i) + 1]
    BY <1>3, <2>1
  <2>3. link[s2[i]] = r <=> at(i) + 1 = k
    <3>1. CASE at(i) = n
      BY <2>2, <3>1
    <3>2. CASE at(i) # n
      BY <1>2, <1>3, <2>1, <2>2, <3>2
    <3> QED  BY <3>1, <3>2
  <2>4. link[r] = IF k = n THEN null ELSE s[k + 1]
    BY <1>2, <1>3
  <2>5. CASE i = n - 1
    <3>1. at(i) = n \/ (at(i) + 1 = k /\ k = n)
      BY <1>8, <2>5
    <3> QED  BY <2>1, <2>2, <2>3, <2>4, <2>5, <3>1
  <2>6. CASE i # n - 1
    <3>1. i + 1 \in 1..(n - 1)
      BY <1>8, <2>6
    <3>2. s2[i + 1] = s[at(i + 1)]
      BY <1>11, <3>1
    <3>3. CASE at(i) + 1 = k
      <4>1. k # n /\ at(i + 1) = k + 1
        BY <1>8, <1>11, <2>6, <3>1, <3>3
      <4> QED  BY <2>1, <2>3, <2>4, <2>6, <3>2, <3>3, <4>1
    <3>4. CASE at(i) + 1 # k
      <4>1. at(i + 1) = at(i) + 1
        BY <1>8, <2>6, <3>4
      <4>2. at(i) # n
        BY <1>11, <3>1, <4>1
      <4> QED  BY <2>1, <2>2, <2>3, <2>6, <3>2, <3>4, <4>1, <4>2
    <3> QED  BY <3>3, <3>4
  <2> QED  BY <2>5, <2>6
<1>17. Ordered(first2, link2, S \ {r}, null, n - 1, s2)
  BY <1>12, <1>13, <1>14, <1>15, <1>16 DEF Ordered
<1> QED  BY <1>4, <1>12, <1>17 DEF IsChain

\* A chain that begins with null has no element.
LEMMA ChainOfNull ==
    ASSUME NEW link, NEW S, NEW null, IsChain(null, link, S, null), null \notin S
    PROVE  S = {}
<1>0. PICK n \in Nat : \E s \in [1..n -> S] : Ordered(null, link, S, null, n, s)
  BY DEF IsChain
<1>1. PICK s \in [1..n -> S] : Ordered(null, link, S, null, n, s)
  BY <1>0
<1>2. n # 0 => s[1] \in S /\ s[1] = null
  BY <1>1 DEF Ordered
<1>3. 1..n = {}
  BY <1>2
<1> QED  BY <1>1, <1>3 DEF Ordered

\* No element follows two others, and the first follows none.
LEMMA ChainInjective ==
    ASSUME NEW first, NEW link, NEW S, NEW null, IsChain(first, link, S, null), null \notin S,
           NEW x \in S, link[x] \in S
    PROVE  link[x] # first /\ \A y \in S : link[y] = link[x] => y = x
<1>0. PICK n \in Nat : \E s \in [1..n -> S] : Ordered(first, link, S, null, n, s)
  BY DEF IsChain
<1>1. PICK s \in [1..n -> S] : Ordered(first, link, S, null, n, s)
  BY <1>0
<1>2. /\ \A i, j \in 1..n : s[i] = s[j] => i = j
      /\ \A i \in 1..n : link[s[i]] = IF i = n THEN null ELSE s[i + 1]
      /\ first = IF n = 0 THEN null ELSE s[1]
  BY <1>1 DEF Ordered
<1>3. PICK i \in 1..n : s[i] = x
  BY <1>1 DEF Ordered
<1>4. i # n /\ i + 1 \in 1..n /\ link[x] = s[i + 1]
  BY <1>2, <1>3
<1>5. link[x] # first
  <2>1. n # 0 /\ first = s[1] /\ 1 \in 1..n
    BY <1>2
  <2>2. i + 1 # 1
    OBVIOUS
  <2> QED  BY <1>2, <1>4, <2>1, <2>2
<1>6. ASSUME NEW y \in S, link[y] = link[x] PROVE y = x
  <2>1. PICK j \in 1..n : s[j] = y
    BY <1>1 DEF Ordered
  <2>2. j # n /\ j + 1 \in 1..n /\ link[y] = s[j + 1]
    BY <1>2, <1>4, <1>6, <2>1
  <2>3. j + 1 = i + 1
    BY <1>2, <1>4, <1>6, <2>2
  <2>4. j = i
    BY <2>3
  <2> QED  BY <1>3, <2>1, <2>4
<1> QED  BY <1>5, <1>6

\* A new element after an old one.
LEMMA ChainInsert ==
    ASSUME NEW first, NEW link, NEW S, NEW null, IsChain(first, link, S, null), null \notin S,
           NEW p \in S, NEW r, r \notin S, r # null,
           NEW link2, link2[p] = r, link2[r] = link[p],
           \A x \in S \ {p} : link2[x] = link[x]
    PROVE  IsChain(first, link2, S \cup {r}, null)
<1>0. PICK n \in Nat : \E s \in [1..n -> S] : Ordered(first, link, S, null, n, s)
  BY DEF IsChain
<1>1. PICK s \in [1..n -> S] : Ordered(first, link, S, null, n, s)
  BY <1>0
<1>2. /\ \A x \in S : \E i \in 1..n : s[i] = x
      /\ \A i, j \in 1..n : s[i] = s[j] => i = j
      /\ \A i \in 1..n : link[s[i]] = IF i = n THEN null ELSE s[i + 1]
      /\ first = IF n = 0 THEN null ELSE s[1]
  BY <1>1 DEF Ordered
<1>3. PICK k \in 1..n : s[k] = p
  BY <1>2
<1> DEFINE s2 == [i \in 1..(n + 1) |-> IF i <= k THEN s[i] ELSE IF i = k + 1 THEN r ELSE s[i - 1]]
<1>4. \A i \in 1..n : s[i] \in S
  OBVIOUS
<1>5. ASSUME NEW i \in 1..(n + 1)
      PROVE  /\ i <= k => i \in 1..n /\ s2[i] = s[i]
             /\ i = k + 1 => s2[i] = r
             /\ i > k + 1 => i - 1 \in 1..n /\ i - 1 # k /\ s2[i] = s[i - 1]
  OBVIOUS
<1>6. ASSUME NEW i \in 1..(n + 1) PROVE i <= k \/ i = k + 1 \/ i > k + 1
  OBVIOUS
<1>7. s2 \in [1..(n + 1) -> S \cup {r}]
  BY <1>4, <1>5, <1>6
<1> HIDE DEF s2
<1>8. ASSUME NEW x \in S \cup {r} PROVE \E i \in 1..(n + 1) : s2[i] = x
  <2>1. CASE x = r
    <3>1. k + 1 \in 1..(n + 1)
      OBVIOUS
    <3> QED  BY <1>5, <2>1, <3>1
  <2>2. CASE x \in S
    <3>1. PICK i \in 1..n : s[i] = x
      BY <1>2, <2>2
    <3>2. CASE i <= k
      <4>1. i \in 1..(n + 1)
        OBVIOUS
      <4> QED  BY <1>5, <3>1, <3>2, <4>1
    <3>3. CASE ~(i <= k)
      <4>1. i + 1 \in 1..(n + 1) /\ i + 1 > k + 1 /\ (i + 1) - 1 = i
        BY <3>3
      <4> QED  BY <1>5, <3>1, <4>1
    <3> QED  BY <3>2, <3>3
  <2> QED  BY <2>1, <2>2
<1>9. ASSUME NEW i \in 1..(n + 1), NEW j \in 1..(n + 1), s2[i] = s2[j] PROVE i = j
  <2>1. i = k + 1 <=> s2[i] = r
    BY <1>4, <1>5, <1>6
  <2>2. j = k + 1 <=> s2[j] = r
    BY <1>4, <1>5, <1>6
  <2>3. CASE i = k + 1 \/ j = k + 1
    BY <1>9, <2>1, <2>2, <2>3
  <2>4. CASE i <= k /\ j <= k
    BY <1>2, <1>5, <1>9, <2>4
  <2>5. CASE i <= k /\ j > k + 1
    <3>1. i = j - 1
      BY <1>2, <1>5, <1>9, <2>5
    <3> QED  BY <2>5, <3>1
  <2>6. CASE i > k + 1 /\ j <= k
    <3>1. i - 1 = j
      BY <1>2, <1>5, <1>9, <2>6
    <3> QED  BY <2>6, <3>1
  <2>7. CASE i > k + 1 /\ j > k + 1
    <3>1. i - 1 = j - 1
      BY <1>2, <1>5, <1>9, <2>7
    <3> QED  BY <3>1
  <2> QED  BY <1>6, <2>3, <2>4, <2>5, <2>6, <2>7
<1>10. ASSUME NEW i \in 1..(n + 1)
       PROVE  link2[s2[i]] = IF i = n + 1 THEN null ELSE s2[i + 1]
  <2>1. CASE i < k
    <3>1. i \in 1..n /\ i # n /\ s2[i] = s[i] /\ s[i] \in S
      BY <1>4, <1>5, <2>1
    <3>2. s[i] # p
      BY <1>2, <1>3, <2>1, <3>1
    <3>3. i # n + 1 /\ i + 1 \in 1..(n + 1) /\ i + 1 <= k
      BY <2>1
    <3>4. s2[i + 1] = s[i + 1]
      BY <1>5, <3>3
    <3>5. link2[s[i]] = s[i + 1]
      BY <1>2, <3>1, <3>2
    <3> QED  BY <3>1, <3>3, <3>4, <3>5
  <2>2. CASE i = k
    <3>1. i # n + 1 /\ i + 1 \in 1..(n + 1) /\ i + 1 = k + 1 /\ i <= k
      BY <2>2
    <3>2. s2[i] = s[i] /\ s2[i + 1] = r
      BY <1>5, <3>1
    <3> QED  BY <1>3, <2>2, <3>1, <3>2
  <2>3. CASE i = k + 1
    <3>1. s2[i] = r /\ link2[r] = IF k = n THEN null ELSE s[k + 1]
      BY <1>2, <1>3, <1>5, <2>3
    <3>2. CASE k = n
      BY <2>3, <3>1, <3>2
    <3>3. CASE k # n
      <4>1. i # n + 1 /\ i + 1 \in 1..(n + 1) /\ i + 1 > k + 1 /\ (i + 1) - 1 = k + 1
        BY <2>3, <3>3
      <4>2. s2[i + 1] = s[k + 1]
        BY <1>5, <4>1
      <4> QED  BY <3>1, <3>3, <4>1, <4>2
    <3> QED  BY <3>2, <3>3
  <2>4. CASE i > k + 1
    <3>1. i - 1 \in 1..n /\ i - 1 # k /\ s2[i] = s[i - 1] /\ s[i - 1] \in S
      BY <1>4, <1>5, <2>4
    <3>2. s[i - 1] # p
      BY <1>2, <1>3, <3>1
    <3>3. link2[s[i - 1]] = IF i - 1 = n THEN null ELSE s[(i - 1) + 1]
      BY <1>2, <3>1, <3>2
    <3>4. CASE i = n + 1
      BY <3>1, <3>3, <3>4
    <3>5. CASE i # n + 1
      <4>1. i + 1 \in 1..(n + 1) /\ i + 1 > k + 1 /\ (i + 1) - 1 = (i - 1) + 1 /\ i - 1 # n
        BY <2>4, <3>5
      <4>2. s2[i + 1] = s[(i + 1) - 1]
        BY <1>5, <4>1
      <4> QED  BY <3>1, <3>3, <3>5, <4>1, <4>2
    <3> QED  BY <3>4, <3>5
  <2>5. i < k \/ i = k \/ i = k + 1 \/ i > k + 1
    OBVIOUS
  <2> QED  BY <2>1, <2>2, <2>3, <2>4, <2>5
<1>11. first = s2[1] /\ n + 1 # 0
  <2>1. n # 0 /\ first = s[1] /\ 1 \in 1..(n + 1) /\ 1 <= k
    BY <1>2
  <2> QED  BY <1>5, <2>1
<1>12. n + 1 \in Nat
  OBVIOUS
<1>13. Ordered(first, link2, S \cup {r}, null, n + 1, s2)
  BY <1>7, <1>8, <1>9, <1>10, <1>11 DEF Ordered
<1> QED  BY <1>7, <1>12, <1>13 DEF IsChain

\* A batch of elements after the last (memchk_allocator.c:64-83).
LEMMA ChainAppend ==
    ASSUME NEW first, NEW link, NEW S, NEW null, IsChain(first, link, S, null), null \notin S,
           NEW last \in S, link[last] = null,
           NEW m \in Nat \ {0}, NEW B, NEW b \in [1..m -> B], null \notin B, B \cap S = {},
           \A x \in B : \E i \in 1..m : b[i] = x,
           \A i, j \in 1..m : b[i] = b[j] => i = j,
           NEW link2,
           \A x \in S : link2[x] = IF x = last THEN b[1] ELSE link[x],
           \A i \in 1..m : link2[b[i]] = IF i = m THEN null ELSE b[i + 1]
    PROVE  IsChain(first, link2, S \cup B, null)
<1>0. PICK n \in Nat : \E s \in [1..n -> S] : Ordered(first, link, S, null, n, s)
  BY DEF IsChain
<1>1. PICK s \in [1..n -> S] : Ordered(first, link, S, null, n, s)
  BY <1>0
<1>2. /\ \A i, j \in 1..n : s[i] = s[j] => i = j
      /\ \A i \in 1..n : link[s[i]] = IF i = n THEN null ELSE s[i + 1]
      /\ first = IF n = 0 THEN null ELSE s[1]
      /\ \A x \in S : \E i \in 1..n : s[i] = x
  BY <1>1 DEF Ordered
<1>3. n # 0 /\ s[n] = last
  <2>1. PICK k \in 1..n : s[k] = last
    BY <1>2
  <2>2. k # n => s[k + 1] \in S /\ s[k + 1] = null
    BY <1>2, <2>1
  <2>3. k = n
    BY <2>2
  <2> QED  BY <2>1, <2>3
<1> DEFINE s2 == [i \in 1..(n + m) |-> IF i <= n THEN s[i] ELSE b[i - n]]
<1>4. \A i \in 1..(n + m) : \/ i \in 1..n
                            \/ i \notin 1..n /\ i - n \in 1..m
  OBVIOUS
<1>5. \A i \in 1..n : i \in 1..(n + m) /\ s2[i] = s[i] /\ s[i] \in S
  OBVIOUS
<1>6. \A i \in 1..m : i + n \in 1..(n + m) /\ s2[i + n] = b[i] /\ b[i] \in B
  OBVIOUS
<1>7. \A i \in 1..(n + m) : i \notin 1..n => s2[i] = b[i - n] /\ b[i - n] \in B
  BY <1>4
<1>8. s2 \in [1..(n + m) -> S \cup B]
  <2>1. ASSUME NEW i \in 1..(n + m)
        PROVE  (IF i <= n THEN s[i] ELSE b[i - n]) \in S \cup B
    BY <1>4
  <2> QED  BY <2>1
<1> HIDE DEF s2
<1>9. \A x \in S \cup B : \E i \in 1..(n + m) : s2[i] = x
  <2>1. ASSUME NEW x \in S PROVE \E i \in 1..(n + m) : s2[i] = x
    <3>1. PICK i \in 1..n : s[i] = x
      BY <1>2
    <3> QED  BY <1>5, <3>1
  <2>2. ASSUME NEW x \in B PROVE \E i \in 1..(n + m) : s2[i] = x
    <3>1. PICK i \in 1..m : b[i] = x
      OBVIOUS
    <3> QED  BY <1>6, <3>1
  <2> QED  BY <2>1, <2>2
<1>10. ASSUME NEW i \in 1..(n + m), NEW j \in 1..(n + m), s2[i] = s2[j] PROVE i = j
  <2>1. CASE i \in 1..n /\ j \in 1..n
    BY <1>2, <1>5, <1>10, <2>1
  <2>2. CASE i \notin 1..n /\ j \notin 1..n
    <3>1. i - n \in 1..m /\ j - n \in 1..m /\ b[i - n] = b[j - n]
      BY <1>4, <1>7, <1>10, <2>2
    <3>2. i - n = j - n
      BY <3>1
    <3> QED  BY <3>2
  <2>3. CASE (i \in 1..n) # (j \in 1..n)
    BY <1>5, <1>7, <1>10, <2>3
  <2> QED  BY <2>1, <2>2, <2>3
<1>11. first = IF n + m = 0 THEN null ELSE s2[1]
  <2>1. 1 \in 1..n /\ n + m # 0
    BY <1>3
  <2> QED  BY <1>2, <1>3, <1>5, <2>1
<1>12. ASSUME NEW i \in 1..(n + m)
       PROVE  link2[s2[i]] = IF i = n + m THEN null ELSE s2[i + 1]
  <2>1. CASE i \in 1..n /\ i # n
    <3>1. i + 1 \in 1..n /\ i # n + m
      BY <2>1
    <3>2. s[i] # last
      BY <1>2, <1>3, <2>1
    <3> QED  BY <1>2, <1>5, <2>1, <3>1, <3>2
  <2>2. CASE i = n
    <3>1. s2[n] = last /\ n # n + m /\ link2[last] = b[1]
      BY <1>3, <1>5
    <3>2. s2[1 + n] = b[1] /\ 1 + n = n + 1
      BY <1>6
    <3> QED  BY <2>2, <3>1, <3>2
  <2>3. CASE i \notin 1..n
    <3> DEFINE j == i - n
    <3>1. j \in 1..m /\ s2[i] = b[j] /\ (j = m <=> i = n + m)
      BY <1>4, <1>7, <2>3
    <3>2. j # m => j + 1 \in 1..m /\ i + 1 = (j + 1) + n
      BY <3>1
    <3> HIDE DEF j
    <3>3. j # m => s2[i + 1] = b[j + 1]
      BY <1>6, <3>2
    <3> QED  BY <3>1, <3>3
  <2> QED  BY <2>1, <2>2, <2>3
<1>13. Ordered(first, link2, S \cup B, null, n + m, s2)
  BY <1>8, <1>9, <1>10, <1>11, <1>12 DEF Ordered
<1>14. n + m \in Nat
  OBVIOUS
<1> QED  BY <1>8, <1>13, <1>14 DEF IsChain

-----------------------------------------------------------------------------
(* Where following the links leads. *)

\* The places a walk of N steps visits.
IsWalk(node, first, link, null, N) ==
    node = [n \in 0..N |-> IF n = 0 THEN first
                           ELSE IF node[n - 1] = null THEN null
                           ELSE link[node[n - 1]]]

\* A chain of elements of a finite set D has at most as many.
LEMMA ChainLength ==
    ASSUME NEW D, IsFiniteSet(D), NEW S \in SUBSET D, NEW n \in Nat, NEW s \in [1..n -> S],
           \A i, j \in 1..n : s[i] = s[j] => i = j
    PROVE  n <= Cardinality(D)
<1>1. s \in Injection(1..n, D)
  BY DEF Injection, IsInjective
<1>2. IsFiniteSet(1..n) /\ Cardinality(1..n) = n
  BY FS_Interval
<1> QED  BY <1>1, <1>2, FS_Injection

\* A walk along a chain visits its elements, each once, and ends at null.
LEMMA WalkExists ==
    ASSUME NEW first, NEW link, NEW S, NEW null, IsChain(first, link, S, null), null \notin S,
           NEW D, IsFiniteSet(D), S \subseteq D
    PROVE  \E node : IsWalk(node, first, link, null, Cardinality(D))
<1>0. PICK n \in Nat : \E s \in [1..n -> S] : Ordered(first, link, S, null, n, s)
  BY DEF IsChain
<1>1. PICK s \in [1..n -> S] : Ordered(first, link, S, null, n, s)
  BY <1>0
<1>2. Cardinality(D) \in Nat
  BY FS_CardinalityType
<1> DEFINE N == Cardinality(D)
           at(k) == IF k < n THEN s[k + 1] ELSE null
           node == [k \in 0..N |-> at(k)]
<1>3. ASSUME NEW k \in 0..N
      PROVE  node[k] = IF k = 0 THEN first
                       ELSE IF node[k - 1] = null THEN null ELSE link[node[k - 1]]
  <2>1. CASE k = 0
    BY <1>1, <2>1 DEF Ordered
  <2>2. CASE k # 0
    <3>1. k - 1 \in 0..N /\ node[k - 1] = at(k - 1) /\ node[k] = at(k)
      BY <1>2, <2>2
    <3>2. CASE k - 1 < n
      <4>1. k \in 1..n /\ at(k - 1) = s[k] /\ s[k] \in S
        BY <1>2, <2>2, <3>2
      <4>2. link[s[k]] = at(k)
        BY <1>1, <4>1 DEF Ordered
      <4> QED  BY <2>2, <3>1, <4>1, <4>2
    <3>3. CASE ~(k - 1 < n)
      <4>1. at(k - 1) = null /\ at(k) = null
        BY <1>2, <2>2, <3>3
      <4> QED  BY <2>2, <3>1, <4>1
    <3> QED  BY <3>2, <3>3
  <2> QED  BY <2>1, <2>2
<1>4. IsWalk(node, first, link, null, N)
  <2> DEFINE G == [k \in 0..N |-> IF k = 0 THEN first
                                  ELSE IF node[k - 1] = null THEN null ELSE link[node[k - 1]]]
  <2>1. \A k \in 0..N : node[k] = G[k]
    BY <1>3
  <2>2. node = [k \in 0..N |-> node[k]] /\ G = [k \in 0..N |-> G[k]]
    OBVIOUS
  <2> HIDE DEF node, N, G
  <2>3. node = G
    BY <2>1, <2>2
  <2> QED  BY <2>3 DEF IsWalk, G
<1> HIDE DEF node, N
<1> QED  BY <1>4 DEF N

\* The least of a set of numbers.
LEMMA Least ==
    ASSUME NEW T \in SUBSET Nat, T # {}
    PROVE  \E k \in T : \A j \in T : k <= j
<1> DEFINE Below == {ss \in Nat \X Nat : ss[1] < ss[2]}
<1>1. IsWellFoundedOn(Below, Nat)
  <2>1. OpToRel(<, Nat) = Below
    BY Zenon DEF OpToRel
  <2> QED  BY <2>1, NatLessThanWellFounded, Zenon
<1>2. ASSUME NEW j \in T, NEW k \in T, <<j, k>> \notin Below PROVE k <= j
  BY <1>2
<1>3. T \subseteq Nat
  OBVIOUS
<1> HIDE DEF Below
<1>4. PICK k \in T : \A j \in T : ~ (<<j, k>> \in Below)
  BY <1>1, <1>3, WFMin
<1>5. \A j \in T : k <= j
  BY <1>2, <1>4
<1> QED  BY <1>5

\* Place k of a walk along the n elements of s, which stays at null.
Along(node, n, s, null, N) == \A k \in 0..N : node[k] = IF k < n THEN s[k + 1] ELSE null

\* A walk along a chain visits its elements in order.
LEMMA ChainNodes ==
    ASSUME NEW first, NEW link, NEW S, NEW null, null \notin S,
           NEW n \in Nat, NEW s \in [1..n -> S], Ordered(first, link, S, null, n, s),
           NEW D, IsFiniteSet(D), S \subseteq D,
           NEW node, IsWalk(node, first, link, null, Cardinality(D))
    PROVE  /\ Cardinality(D) \in Nat /\ n <= Cardinality(D)
           /\ Along(node, n, s, null, Cardinality(D))
<1>1. /\ \A i, j \in 1..n : s[i] = s[j] => i = j
      /\ \A i \in 1..n : link[s[i]] = IF i = n THEN null ELSE s[i + 1]
      /\ first = IF n = 0 THEN null ELSE s[1]
  BY DEF Ordered
<1> DEFINE N == Cardinality(D)
<1>2. N \in Nat /\ n <= N
  BY <1>1, ChainLength, FS_CardinalityType
<1>3. \A k \in 0..N : node[k] = IF k = 0 THEN first
                                ELSE IF node[k - 1] = null THEN null ELSE link[node[k - 1]]
  BY DEF IsWalk
<1> HIDE DEF N
<1> DEFINE at(k) == IF k < n THEN s[k + 1] ELSE null
           T == {k \in 0..N : node[k] # at(k)}
<1>4. T = {}
  <2> SUFFICES ASSUME T # {} PROVE FALSE
    OBVIOUS
  <2>1. PICK k \in T : \A j \in T : k <= j
    <3>1. T \in SUBSET Nat
      BY <1>2
    <3> HIDE DEF T
    <3> QED  BY <3>1, Least
  <2>2. k \in 0..N /\ node[k] # at(k)
    OBVIOUS
  <2>3. CASE k = 0
    BY <1>1, <1>3, <2>2, <2>3
  <2>4. CASE k # 0
    <3>1. k - 1 \in 0..N /\ k - 1 \notin T
      BY <1>2, <2>1, <2>2, <2>4
    <3>2. node[k - 1] = at(k - 1)
      BY <3>1
    <3>3. node[k] = IF at(k - 1) = null THEN null ELSE link[at(k - 1)]
      BY <1>3, <2>2, <2>4, <3>2
    <3>4. CASE k - 1 < n
      <4>1. k \in 1..n /\ at(k - 1) = s[k] /\ s[k] \in S
        BY <1>2, <2>2, <2>4, <3>4
      <4>2. link[s[k]] = at(k)
        BY <1>1, <4>1
      <4> QED  BY <2>2, <3>3, <4>1, <4>2
    <3>5. CASE ~(k - 1 < n)
      <4>1. at(k - 1) = null /\ at(k) = null
        BY <1>2, <2>2, <2>4, <3>5
      <4> QED  BY <2>2, <3>3, <4>1
    <3> QED  BY <3>4, <3>5
  <2> QED  BY <2>3, <2>4
<1>5. \A k \in 0..N : node[k] = IF k < n THEN s[k + 1] ELSE null
  BY <1>4
<1> QED  BY <1>2, <1>5 DEF N, Along

\* So it visits each element once, and ends.
LEMMA ChainWalk ==
    ASSUME NEW first, NEW link, NEW S, NEW null, IsChain(first, link, S, null), null \notin S,
           NEW D, IsFiniteSet(D), S \subseteq D,
           NEW node, IsWalk(node, first, link, null, Cardinality(D))
    PROVE  /\ node[Cardinality(D)] = null
           /\ {node[n] : n \in 0..Cardinality(D)} \ {null} = S
<1>0. PICK n \in Nat : \E s \in [1..n -> S] : Ordered(first, link, S, null, n, s)
  BY DEF IsChain
<1>1. PICK s \in [1..n -> S] : Ordered(first, link, S, null, n, s)
  BY <1>0
<1>2. /\ Cardinality(D) \in Nat /\ n <= Cardinality(D)
      /\ Along(node, n, s, null, Cardinality(D))
  BY <1>1, ChainNodes
<1> DEFINE N == Cardinality(D)
<1>3. N \in Nat /\ n <= N
  BY <1>2
<1>5. \A k \in 0..N : node[k] = IF k < n THEN s[k + 1] ELSE null
  BY <1>2 DEF Along
<1> HIDE DEF N
<1>6. \A k \in 0..N : k < n => s[k + 1] \in S
  OBVIOUS
<1>7. node[N] = null
  BY <1>3, <1>5
<1>8. ASSUME NEW x \in S PROVE \E k \in 0..N : node[k] = x
  <2>1. PICK i \in 1..n : s[i] = x
    BY <1>1 DEF Ordered
  <2>2. i - 1 \in 0..N /\ i - 1 < n /\ (i - 1) + 1 = i
    BY <1>3
  <2> QED  BY <1>5, <2>1, <2>2
<1>9. \A k \in 0..N : node[k] \in S \cup {null}
  BY <1>5, <1>6
<1>10. {node[k] : k \in 0..N} \ {null} = S
  BY <1>8, <1>9
<1> QED  BY <1>7, <1>10 DEF N

-----------------------------------------------------------------------------
(* Sums over finite sets. MapThenSumSet adds in the order in which CHOOSE    *)
(* takes the elements; what is needed of a sum is that the order does not    *)
(* matter.                                                                   *)

\* Induction over the naturals, for a set instead of a predicate.
LEMMA NatByStep ==
    ASSUME NEW T \in SUBSET Nat, 0 \in T, \A n \in T : n + 1 \in T
    PROVE  T = Nat
<1> SUFFICES ASSUME Nat \ T # {} PROVE FALSE
  OBVIOUS
<1>1. Nat \ T \in SUBSET Nat
  OBVIOUS
<1>2. PICK k \in Nat \ T : \A j \in Nat \ T : k <= j
  BY <1>1, Least
<1>3. k - 1 \in Nat /\ k - 1 \notin Nat \ T
  BY <1>2
<1> QED  BY <1>3

\* The sum of what the function w gives on S.
Sum(w, S) == MapThenSumSet(LAMBDA x : w[x], S)

\* What MapThenSumSet computes for a set s, from its values on smaller sets.
Pick(s) == CHOOSE x \in s : TRUE
Body(total, w, s) == IF s = {} THEN 0 ELSE w[Pick(s)] + total[s \ {Pick(s)}]

IsTotal(total, w, S) == total = [s \in SUBSET S |-> Body(total, w, s)]

LEMMA PickIn == ASSUME NEW s, s # {} PROVE Pick(s) \in s
  BY DEF Pick

\* g is a total for the sets of at most n elements.
TotalUpTo(g, n, w, S) == \A s \in SUBSET S : Cardinality(s) <= n => g[s] = Body(g, w, s)

\* Some total exists: it is built for the sets of at most n elements, n by n.
LEMMA TotalExists ==
    ASSUME NEW S, IsFiniteSet(S), NEW w, \A x \in S : w[x] \in Int
    PROVE  \E g : IsTotal(g, w, S)
<1> DEFINE T == {n \in Nat : \E g \in [SUBSET S -> Int] : TotalUpTo(g, n, w, S)}
<1>1. \A s \in SUBSET S : IsFiniteSet(s) /\ Cardinality(s) \in Nat /\ Cardinality(s) <= Cardinality(S)
  BY FS_Subset, FS_CardinalityType
<1>2. \A s \in SUBSET S : Cardinality(s) = 0 <=> s = {}
  BY <1>1, FS_EmptySet
<1>3. 0 \in T
  <2> DEFINE g == [s \in SUBSET S |-> 0]
  <2>1. g \in [SUBSET S -> Int] /\ \A s \in SUBSET S : Cardinality(s) <= 0 => s = {}
    BY <1>1, <1>2
  <2>2. TotalUpTo(g, 0, w, S)
    BY <2>1 DEF TotalUpTo, Body
  <2> QED  BY <2>1, <2>2
<1>4. ASSUME NEW n \in T PROVE n + 1 \in T
  <2>1. PICK g \in [SUBSET S -> Int] : TotalUpTo(g, n, w, S)
    OBVIOUS
  <2>0. n \in Nat
    OBVIOUS
  <2> DEFINE h == [s \in SUBSET S |-> IF Cardinality(s) <= n THEN g[s] ELSE Body(g, w, s)]
  <2>3. ASSUME NEW s \in SUBSET S PROVE Body(g, w, s) \in Int
    <3>1. s # {} => /\ w[Pick(s)] \in Int
                    /\ g[s \ {Pick(s)}] \in Int
      BY PickIn
    <3> QED  BY <3>1 DEF Body
  <2>4. h \in [SUBSET S -> Int]
    BY <2>3
  <2>5. ASSUME NEW s \in SUBSET S, Cardinality(s) <= n + 1
        PROVE  h[s] = Body(h, w, s)
    <3>1. CASE s = {}
      <4>1. Cardinality(s) <= n
        BY <1>2, <2>0, <3>1
      <4>2. g[s] = Body(g, w, s)
        BY <2>1, <4>1 DEF TotalUpTo
      <4> QED  BY <3>1, <4>1, <4>2 DEF Body
    <3>2. CASE s # {}
      <4> DEFINE x == Pick(s)
      <4>1. x \in s /\ s \ {x} \in SUBSET S
        BY <3>2, PickIn
      <4>2. Cardinality(s \ {x}) = Cardinality(s) - 1
        BY <1>1, <4>1, FS_RemoveElement
      <4>3. Cardinality(s \ {x}) <= n
        BY <1>1, <2>0, <2>5, <4>2
      <4>4. h[s \ {x}] = g[s \ {x}]
        BY <4>1, <4>3
      <4>5. Body(h, w, s) = Body(g, w, s)
        BY <3>2, <4>4, Zenon DEF Body
      <4>6. h[s] = Body(g, w, s)
        <5>1. Cardinality(s) <= n => g[s] = Body(g, w, s)
          BY <2>1 DEF TotalUpTo
        <5> QED  BY <5>1, Zenon
      <4> QED  BY <4>5, <4>6
    <3> QED  BY <3>1, <3>2
  <2>6. TotalUpTo(h, n + 1, w, S)
    BY <2>5, Zenon DEF TotalUpTo
  <2>7. n + 1 \in Nat
    BY <2>0
  <2> HIDE DEF h
  <2> QED  BY <2>4, <2>6, <2>7
<1>5. T = Nat
  <2> HIDE DEF T
  <2>1. T \in SUBSET Nat
    BY DEF T
  <2> QED  BY <1>3, <1>4, <2>1, NatByStep
<1>6. PICK g \in [SUBSET S -> Int] : TotalUpTo(g, Cardinality(S), w, S)
  <2>1. Cardinality(S) \in T
    BY <1>1, <1>5
  <2> QED  BY <2>1
<1>7. \A s \in SUBSET S : g[s] = Body(g, w, s)
  BY <1>1, <1>6 DEF TotalUpTo
<1>8. g = [s \in SUBSET S |-> g[s]]
  OBVIOUS
<1>9. IsTotal(g, w, S)
  BY <1>7, <1>8, Zenon DEF IsTotal
<1> QED  BY <1>9

\* Sum is the value at S of every total of S: there is one only.
LEMMA TotalsAgree ==
    ASSUME NEW S, IsFiniteSet(S), NEW w, NEW v, \A x \in S : w[x] = v[x],
           NEW R, S \subseteq R,
           NEW g, IsTotal(g, w, S), NEW h, IsTotal(h, v, R)
    PROVE  \A s \in SUBSET S : g[s] = h[s]
<1> DEFINE T == {n \in Nat : \A s \in SUBSET S : Cardinality(s) = n => g[s] = h[s]}
<1>1. \A s \in SUBSET S : IsFiniteSet(s) /\ Cardinality(s) \in Nat
  BY FS_Subset, FS_CardinalityType
<1>2. /\ \A s \in SUBSET S : g[s] = Body(g, w, s)
      /\ \A s \in SUBSET S : h[s] = Body(h, v, s)
  BY DEF IsTotal
<1>3. 0 \in T
  <2>1. \A s \in SUBSET S : Cardinality(s) = 0 => s = {}
    BY <1>1, FS_EmptySet
  <2>2. \A s \in SUBSET S : s = {} => g[s] = h[s]
    BY <1>2 DEF Body
  <2> QED  BY <2>1, <2>2
<1>4. ASSUME NEW n \in T PROVE n + 1 \in T
  <2>1. ASSUME NEW s \in SUBSET S, Cardinality(s) = n + 1 PROVE g[s] = h[s]
    <3> DEFINE x == Pick(s)
    <3>1. s # {}
      <4>1. n + 1 # 0
        BY <1>4
      <4> QED  BY <2>1, <4>1, FS_EmptySet
    <3>2. x \in s /\ s \ {x} \in SUBSET S
      BY <3>1, PickIn
    <3>3. Cardinality(s \ {x}) = n
      <4>1. Cardinality(s \ {x}) = Cardinality(s) - 1 /\ n \in Nat
        BY <1>1, <1>4, <3>2, FS_RemoveElement
      <4> QED  BY <2>1, <4>1
    <3>4. g[s \ {x}] = h[s \ {x}] /\ w[x] = v[x]
      BY <3>2, <3>3
    <3>5. Body(g, w, s) = Body(h, v, s)
      BY <3>4, Zenon DEF Body
    <3> QED  BY <1>2, <3>5
  <2> QED  BY <2>1
<1>5. T = Nat
  <2> HIDE DEF T
  <2>1. T \in SUBSET Nat
    BY DEF T
  <2> QED  BY <1>3, <1>4, <2>1, NatByStep
<1> QED
  BY <1>1, <1>5

IntTotal(g, w, S) == IsFiniteSet(S) /\ (\A x \in S : w[x] \in Int) /\ IsTotal(g, w, S)

\* The elements of a set can be added in any order.
AnyOrder(g, w, S) ==
    /\ g[{}] = 0
    /\ \A s \in SUBSET S : g[s] \in Int
    /\ \A s \in SUBSET S : \A y \in s : g[s] = w[y] + g[s \ {y}]

LEMMA TotalAny ==
    ASSUME NEW g, NEW w, NEW S, IntTotal(g, w, S)
    PROVE  AnyOrder(g, w, S)
<1> DEFINE Good(s) == g[s] \in Int /\ \A y \in s : g[s] = w[y] + g[s \ {y}]
           T == {n \in Nat : \A s \in SUBSET S : Cardinality(s) <= n => Good(s)}
<1>0. \A x \in S : w[x] \in Int
  BY DEF IntTotal
<1>1. \A s \in SUBSET S : IsFiniteSet(s) /\ Cardinality(s) \in Nat
  BY FS_Subset, FS_CardinalityType DEF IntTotal
<1>2. \A s \in SUBSET S : g[s] = Body(g, w, s)
  BY DEF IntTotal, IsTotal
<1>3. g[{}] = 0
  BY <1>2 DEF Body
<1>4. 0 \in T
  <2>1. \A s \in SUBSET S : Cardinality(s) <= 0 => s = {}
    <3>1. \A s \in SUBSET S : Cardinality(s) = 0 => s = {}
      BY <1>1, FS_EmptySet
    <3> QED  BY <1>1, <3>1
  <2>2. Good({})
    BY <1>3
  <2>3. \A s \in SUBSET S : Cardinality(s) <= 0 => Good(s)
    BY <2>1, <2>2, Zenon
  <2> QED  BY <2>3
<1>5. ASSUME NEW n \in T PROVE n + 1 \in T
  <2>1. ASSUME NEW s \in SUBSET S, Cardinality(s) = n + 1 PROVE Good(s)
    <3> DEFINE x == Pick(s)
    <3>1. s # {}
      <4>1. n + 1 # 0
        BY <1>5
      <4> QED  BY <2>1, <4>1, FS_EmptySet
    <3>2. x \in s /\ x \in S
      BY <3>1, PickIn
    <3>3. ASSUME NEW y \in s
          PROVE  s \ {y} \in SUBSET S /\ Good(s \ {y}) /\ w[y] \in Int
      <4>1. Cardinality(s \ {y}) = Cardinality(s) - 1 /\ n \in Nat
        BY <1>1, <1>5, FS_RemoveElement
      <4>2. Cardinality(s \ {y}) = n
        BY <2>1, <4>1
      <4>3. s \ {y} \in SUBSET S /\ Cardinality(s \ {y}) <= n /\ w[y] \in Int
        BY <1>0, <4>1, <4>2
      <4>4. Good(s \ {y})
        BY <1>5, <4>3
      <4> HIDE DEF Good
      <4> QED  BY <4>3, <4>4
    <3>4. g[s] = w[x] + g[s \ {x}]
      BY <1>2, <3>1, Zenon DEF Body
    <3>5. g[s] \in Int
      <4>1. g[s \ {x}] \in Int /\ w[x] \in Int
        BY <1>0, <3>2, <3>3
      <4> QED  BY <3>4, <4>1
    <3>6. ASSUME NEW y \in s PROVE g[s] = w[y] + g[s \ {y}]
      <4>1. CASE y = x
        BY <3>4, <4>1
      <4>2. CASE y # x
        <5>1. y \in s \ {x} /\ x \in s \ {y} /\ (s \ {x}) \ {y} = (s \ {y}) \ {x}
          BY <3>2, <4>2
        <5>2. g[s \ {x}] = w[y] + g[(s \ {x}) \ {y}]
          BY <3>2, <3>3, <5>1
        <5>3. g[s \ {y}] = w[x] + g[(s \ {y}) \ {x}]
          BY <3>3, <5>1
        <5>4. g[(s \ {y}) \ {x}] \in Int
          <6>1. Cardinality((s \ {y}) \ {x}) \in Nat /\ (s \ {y}) \ {x} \in SUBSET S
            BY <1>1
          <6>2. Cardinality((s \ {y}) \ {x}) <= Cardinality(s \ {y})
            BY <1>1, FS_Subset
          <6>3. Cardinality(s \ {y}) = Cardinality(s) - 1 /\ n \in Nat
            BY <1>1, <1>5, FS_RemoveElement
          <6>4. Cardinality((s \ {y}) \ {x}) <= n
            BY <1>1, <2>1, <6>1, <6>2, <6>3
          <6> QED  BY <1>5, <6>1, <6>4
        <5>5. w[x] \in Int /\ w[y] \in Int
          BY <1>0, <3>2
        <5>6. g[(s \ {x}) \ {y}] = g[(s \ {y}) \ {x}]
          BY <5>1, Zenon
        <5> HIDE DEF x
        <5> QED  BY <3>4, <5>2, <5>3, <5>4, <5>5, <5>6
      <4> QED  BY <4>1, <4>2
    <3> QED  BY <3>5, <3>6
  <2>2. n \in Nat
    OBVIOUS
  <2>3. ASSUME NEW s \in SUBSET S, Cardinality(s) <= n + 1 PROVE Good(s)
    <3>1. Cardinality(s) = n + 1 \/ Cardinality(s) <= n
      BY <1>1, <2>2, <2>3
    <3> QED  BY <1>5, <2>1, <3>1
  <2> QED  BY <2>2, <2>3
<1>6. T = Nat
  <2> HIDE DEF T
  <2>1. T \in SUBSET Nat
    BY DEF T
  <2> QED  BY <1>4, <1>5, <2>1, NatByStep
<1>7. \A s \in SUBSET S : Good(s)
  BY <1>1, <1>6
<1> QED
  BY <1>3, <1>7 DEF AnyOrder

LEMMA SumIs ==
    ASSUME NEW S, IsFiniteSet(S), NEW w, \A x \in S : w[x] \in Int
    PROVE  \E g : IntTotal(g, w, S) /\ Sum(w, S) = g[S]
<1> DEFINE iter[s \in SUBSET S] ==
        IF s = {} THEN 0 ELSE LET x == CHOOSE x \in s : TRUE IN w[x] + iter[s \ {x}]
<1>1. Sum(w, S) = iter[S]
  BY Zenon DEF Sum, MapThenSumSet, MapThenFoldSet
<1>2. \E g : IsTotal(g, w, S)
  BY TotalExists
<1>3. IsTotal(iter, w, S)
  BY <1>2, Zenon DEF IsTotal, Body, Pick
<1> HIDE DEF iter
<1>4. IntTotal(iter, w, S)
  BY <1>3 DEF IntTotal
<1> QED  BY <1>1, <1>4

LEMMA SumEmpty == ASSUME NEW w PROVE Sum(w, {}) = 0
<1>1. IsFiniteSet({}) /\ \A x \in {} : w[x] \in Int
  BY FS_EmptySet
<1>2. PICK g : IntTotal(g, w, {}) /\ Sum(w, {}) = g[{}]
  BY <1>1, SumIs
<1> QED  BY <1>2, TotalAny DEF AnyOrder

LEMMA SumType ==
    ASSUME NEW S, IsFiniteSet(S), NEW w, \A x \in S : w[x] \in Int
    PROVE  Sum(w, S) \in Int
<1>1. PICK g : IntTotal(g, w, S) /\ Sum(w, S) = g[S]
  BY SumIs
<1>2. S \in SUBSET S /\ \A s \in SUBSET S : g[s] \in Int
  BY <1>1, TotalAny DEF AnyOrder
<1> QED  BY <1>1, <1>2

\* A sum depends on w at the elements of the set only.
LEMMA SumSame ==
    ASSUME NEW S, IsFiniteSet(S), NEW w, \A x \in S : w[x] \in Int,
           NEW v, \A x \in S : w[x] = v[x]
    PROVE  Sum(v, S) = Sum(w, S)
<1>1. PICK g : IntTotal(g, w, S) /\ Sum(w, S) = g[S]
  BY SumIs
<1>2. \A x \in S : v[x] \in Int
  OBVIOUS
<1>3. PICK h : IntTotal(h, v, S) /\ Sum(v, S) = h[S]
  BY <1>2, SumIs
<1>4. IsTotal(g, w, S) /\ IsTotal(h, v, S) /\ S \subseteq S /\ S \in SUBSET S
  BY <1>1, <1>3 DEF IntTotal
<1>5. \A s \in SUBSET S : g[s] = h[s]
  BY <1>4, TotalsAgree
<1> QED  BY <1>1, <1>3, <1>4, <1>5

\* One more element, of the value that v gives it, and one fewer.
SumGains(w, v, S, r) ==
    /\ IsFiniteSet(S) /\ r \notin S /\ v[r] \in Int
    /\ \A x \in S : w[x] \in Int
    /\ \A x \in S : w[x] = v[x]

SumLoses(w, v, S, r) ==
    /\ IsFiniteSet(S) /\ r \in S
    /\ \A x \in S : w[x] \in Int
    /\ \A x \in S \ {r} : w[x] = v[x]

LEMMA SumAdd ==
    ASSUME NEW w, NEW v, NEW S, NEW r, SumGains(w, v, S, r)
    PROVE  Sum(v, S \cup {r}) = Sum(w, S) + v[r]
<1> DEFINE R == S \cup {r}
<1>1. IsFiniteSet(S) /\ r \notin S /\ v[r] \in Int /\ \A x \in S : w[x] \in Int
  BY DEF SumGains
<1>2. PICK g : IntTotal(g, w, S) /\ Sum(w, S) = g[S]
  BY <1>1, SumIs
<1>3. IsFiniteSet(R) /\ \A x \in R : v[x] \in Int
  BY FS_AddElement DEF SumGains
<1>4. r \in R /\ S \subseteq R /\ S \in SUBSET S /\ R \in SUBSET R
  OBVIOUS
<1>5. R \ {r} = S
  BY <1>1
<1> HIDE DEF R
<1>6. PICK h : IntTotal(h, v, R) /\ Sum(v, R) = h[R]
  BY <1>3, SumIs
<1>7. g[S] = h[S]
  <2>1. IsTotal(g, w, S) /\ IsTotal(h, v, R) /\ \A x \in S : w[x] = v[x]
    BY <1>2, <1>6 DEF IntTotal, SumGains
  <2>2. \A s \in SUBSET S : g[s] = h[s]
    BY <1>1, <1>4, <2>1, TotalsAgree
  <2> QED  BY <1>4, <2>2
<1>8. h[R] = v[r] + h[R \ {r}]
  <2>1. \A s \in SUBSET R : \A y \in s : h[s] = v[y] + h[s \ {y}]
    <3>1. AnyOrder(h, v, R)
      BY <1>6, TotalAny
    <3> QED  BY <3>1 DEF AnyOrder
  <2> QED  BY <1>4, <2>1
<1>9. g[S] \in Int
  <2>1. \A s \in SUBSET S : g[s] \in Int
    BY <1>2, TotalAny DEF AnyOrder
  <2> QED  BY <1>4, <2>1
<1>10. h[R] = v[r] + g[S]
  BY <1>5, <1>7, <1>8, Zenon
<1>11. h[R] = g[S] + v[r]
  BY <1>1, <1>9, <1>10
<1>12. Sum(v, R) = Sum(w, S) + v[r]
  BY <1>2, <1>6, <1>11, Zenon
<1> QED  BY <1>12 DEF R

LEMMA SumRemove ==
    ASSUME NEW w, NEW v, NEW S, NEW r, SumLoses(w, v, S, r)
    PROVE  Sum(v, S \ {r}) = Sum(w, S) - w[r]
<1> DEFINE R == S \ {r}
<1>1. IsFiniteSet(R) /\ r \notin R /\ w[r] \in Int
  BY FS_RemoveElement DEF SumLoses
<1>2. /\ \A x \in R : v[x] \in Int
      /\ \A x \in R : v[x] = w[x]
  BY DEF SumLoses
<1>3. R \cup {r} = S
  BY DEF SumLoses
<1> HIDE DEF R
<1>4. SumGains(v, w, R, r)
  BY <1>1, <1>2 DEF SumGains
<1>5. Sum(w, R \cup {r}) = Sum(v, R) + w[r]
  BY <1>4, SumAdd
<1>6. Sum(w, S) = Sum(v, R) + w[r]
  BY <1>3, <1>5, Zenon
<1>7. Sum(v, R) \in Int
  BY <1>1, <1>2, SumType
<1>8. Sum(v, R) = Sum(w, S) - w[r]
  BY <1>1, <1>6, <1>7
<1> QED  BY <1>8 DEF R

\* A sum of zeros and ones counts.
LEMMA SumCounts ==
    ASSUME NEW S, IsFiniteSet(S), NEW P, NEW w, \A x \in S : w[x] = IF x \in P THEN 1 ELSE 0
    PROVE  Sum(w, S) = Cardinality(S \cap P)
<1> DEFINE T == {n \in Nat : \A s \in SUBSET S : Cardinality(s) = n => Sum(w, s) = Cardinality(s \cap P)}
<1>1. \A s \in SUBSET S : IsFiniteSet(s) /\ Cardinality(s) \in Nat
  BY FS_Subset, FS_CardinalityType
<1>2. 0 \in T
  <2>1. \A s \in SUBSET S : Cardinality(s) = 0 => s = {}
    BY <1>1, FS_EmptySet
  <2>2. Sum(w, {}) = Cardinality({} \cap P)
    <3>1. {} \cap P = {} /\ Cardinality({}) = 0
      BY FS_EmptySet
    <3> QED  BY <3>1, SumEmpty
  <2> QED  BY <2>1, <2>2
<1>3. ASSUME NEW n \in T PROVE n + 1 \in T
  <2>1. n \in Nat
    OBVIOUS
  <2>2. ASSUME NEW s \in SUBSET S, Cardinality(s) = n + 1 PROVE Sum(w, s) = Cardinality(s \cap P)
    <3>1. s # {}
      <4>1. n + 1 # 0
        BY <2>1
      <4> QED  BY <2>2, <4>1, FS_EmptySet
    <3>2. PICK x \in s : TRUE
      BY <3>1
    <3> DEFINE r == s \ {x}
    <3>3. IsFiniteSet(r) /\ Cardinality(r) = n /\ r \in SUBSET S /\ x \notin r
      <4>1. IsFiniteSet(r) /\ Cardinality(r) = Cardinality(s) - 1
        BY <1>1, FS_RemoveElement
      <4> QED  BY <2>1, <2>2, <4>1
    <3>4. Sum(w, r) = Cardinality(r \cap P)
      BY <3>3
    <3>5. Sum(w, s) = Sum(w, r) + w[x]
      <4>1. w[x] \in Int /\ \A y \in r : w[y] \in Int
        OBVIOUS
      <4>2. Sum(w, r \cup {x}) = Sum(w, r) + w[x]
        <5> HIDE DEF r, T
        <5>1. SumGains(w, w, r, x)
          BY <3>3, <4>1 DEF SumGains
        <5> QED  BY <5>1, SumAdd
      <4>3. s = r \cup {x}
        OBVIOUS
      <4> HIDE DEF r
      <4> QED  BY <4>2, <4>3, Zenon
    <3>6. IsFiniteSet(r \cap P) /\ Cardinality(r \cap P) \in Nat
      <4>1. r \cap P \in SUBSET S
        OBVIOUS
      <4> QED  BY <1>1, <4>1
    <3>7. CASE x \in P
      <4>1. s \cap P = (r \cap P) \cup {x} /\ x \notin r \cap P
        BY <3>7
      <4>2. Cardinality(s \cap P) = Cardinality(r \cap P) + 1
        BY <3>6, <4>1, FS_AddElement
      <4>3. w[x] = 1
        BY <3>7
      <4> HIDE DEF r
      <4>4. Sum(w, s) = Cardinality(r \cap P) + 1
        BY <3>4, <3>5, <4>3, Zenon
      <4> QED  BY <4>2, <4>4, Zenon
    <3>8. CASE x \notin P
      <4>1. s \cap P = r \cap P /\ w[x] = 0
        BY <3>8
      <4>2. Cardinality(s \cap P) = Cardinality(r \cap P)
        BY <4>1, Zenon
      <4> HIDE DEF r
      <4> QED  BY <3>4, <3>5, <3>6, <4>1, <4>2
    <3> QED  BY <3>7, <3>8
  <2>3. n + 1 \in Nat
    BY <2>1
  <2> QED  BY <2>2, <2>3
<1>4. T = Nat
  <2> HIDE DEF T
  <2>1. T \in SUBSET Nat
    BY DEF T
  <2> QED  BY <1>2, <1>3, <2>1, NatByStep
<1>5. S \in SUBSET S /\ Cardinality(S) \in T
  BY <1>1, <1>4
<1> QED  BY <1>5

-----------------------------------------------------------------------------
(* A sum of what W makes of the sizes of the elements of S: with the weights *)
(* 1, the size itself, or 1 for the sizes of a bin, each of the counters.    *)

Weigh(W, size, S) == Sum([x \in S |-> W[size[x]]], S)

\* size is a natural number on S; sizes a and b agree on S.
Sized(size, S) == \A x \in S : size[x] \in Nat
Agree(a, b, S) == \A x \in S : b[x] = a[x]

LEMMA WeighType ==
    ASSUME NEW S, IsFiniteSet(S), NEW W \in [Nat -> Int], NEW a, Sized(a, S)
    PROVE  Weigh(W, a, S) \in Int
<1> DEFINE f == [x \in S |-> W[a[x]]]
<1>1. \A x \in S : f[x] \in Int
  BY DEF Sized
<1> HIDE DEF f
<1>2. Sum(f, S) \in Int
  BY <1>1, SumType
<1> QED  BY <1>2 DEF Weigh, f

LEMMA WeighSame ==
    ASSUME NEW S, NEW W, NEW a, NEW b, Agree(a, b, S)
    PROVE  Weigh(W, b, S) = Weigh(W, a, S)
<1>1. [x \in S |-> W[b[x]]] = [x \in S |-> W[a[x]]]
  BY DEF Agree
<1> QED  BY <1>1, Zenon DEF Weigh

\* S loses r, or S gains r, while sizes a become b and nothing else changes.
Loses(W, a, b, S, r) ==
    /\ IsFiniteSet(S) /\ W \in [Nat -> Int] /\ r \in S
    /\ Sized(a, S) /\ Agree(a, b, S \ {r})

Gains(W, a, b, S, r) ==
    /\ IsFiniteSet(S) /\ W \in [Nat -> Int] /\ r \notin S
    /\ Sized(a, S) /\ Agree(a, b, S) /\ b[r] \in Nat

LEMMA WeighRemove ==
    ASSUME NEW W, NEW a, NEW b, NEW S, NEW r, Loses(W, a, b, S, r)
    PROVE  Weigh(W, b, S \ {r}) = Weigh(W, a, S) - W[a[r]]
<1> DEFINE f == [x \in S |-> W[a[x]]]
           g == [x \in S \ {r} |-> W[b[x]]]
<1>1. \A x \in S : f[x] \in Int
  BY DEF Loses, Sized
<1>2. \A x \in S \ {r} : f[x] = g[x]
  BY DEF Loses, Agree
<1>3. f[r] = W[a[r]] /\ IsFiniteSet(S) /\ r \in S
  BY DEF Loses
<1> HIDE DEF f, g
<1>4. Sum(g, S \ {r}) = Sum(f, S) - f[r]
  <2>1. SumLoses(f, g, S, r)
    BY <1>1, <1>2, <1>3 DEF SumLoses
  <2> QED  BY <2>1, SumRemove
<1>5. Weigh(W, b, S \ {r}) = Sum(g, S \ {r}) /\ Weigh(W, a, S) = Sum(f, S)
  BY Zenon DEF Weigh, f, g
<1>6. Weigh(W, b, S \ {r}) = Weigh(W, a, S) - f[r]
  BY <1>4, <1>5, Zenon
<1> QED  BY <1>3, <1>6, Zenon

LEMMA WeighAdd ==
    ASSUME NEW W, NEW a, NEW b, NEW S, NEW r, Gains(W, a, b, S, r)
    PROVE  Weigh(W, b, S \cup {r}) = Weigh(W, a, S) + W[b[r]]
<1> DEFINE R == S \cup {r}
<1>1. IsFiniteSet(R) /\ W \in [Nat -> Int] /\ r \in R
  BY FS_AddElement DEF Gains
<1>2. Sized(b, R) /\ b[r] \in Nat
  BY DEF Gains, Sized, Agree
<1>3. Agree(b, a, R \ {r})
  BY DEF Gains, Agree
<1>4. R \ {r} = S
  BY DEF Gains
<1> HIDE DEF R
<1>5. Weigh(W, a, R \ {r}) = Weigh(W, b, R) - W[b[r]]
  <2>1. Loses(W, b, a, R, r)
    BY <1>1, <1>2, <1>3 DEF Loses
  <2> QED  BY <2>1, WeighRemove
<1>6. Weigh(W, b, R) \in Int /\ W[b[r]] \in Int
  BY <1>1, <1>2, WeighType
<1>7. Weigh(W, a, S) = Weigh(W, b, R) - W[b[r]]
  BY <1>4, <1>5, Zenon
<1> QED  BY <1>6, <1>7 DEF R
=============================================================================
