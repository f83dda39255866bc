---------------------------- MODULE Snapshot_proofs ----------------------------
(*****************************************************************************)
(* Proofs about Snapshot.                                                    *)
(*****************************************************************************)
EXTENDS Snapshot, ChainsAndSums

LEMMA RecsNotNull == NULL \notin Recs /\ IsFiniteSet(Recs) /\ Cardinality(Recs) \in Nat
  BY SnapshotAssumption, FS_CardinalityType

-----------------------------------------------------------------------------
(* Path and Reached give the elements of a chain. *)

IsPaths(p, next, N) ==
    p = [n \in 0..N |-> [r \in Recs \cup {NULL} |->
            IF r = NULL \/ n = 0 THEN <<>> ELSE <<r>> \o p[n - 1][next[r]]]]

LEMMA PathsExist ==
    ASSUME NEW next, NEW N \in Nat
    PROVE  \E p : IsPaths(p, next, N)
<1> DEFINE Step(q, m) == [r \in Recs \cup {NULL} |->
                            IF r = NULL \/ m = 0 THEN <<>> ELSE <<r>> \o q[next[r]]]
           T == {m \in Nat : \E p : IsPaths(p, next, m)}
<1>0. ASSUME NEW p, NEW m, p = [n \in 0..m |-> Step(p[n - 1], n)]
      PROVE  IsPaths(p, next, m)
  BY <1>0, Zenon DEF IsPaths
<1>1. 0 \in T
  <2> DEFINE g == [n \in 0..0 |-> [r \in Recs \cup {NULL} |-> <<>>]]
  <2>1. \A n \in 0..0 : n = 0
    OBVIOUS
  <2>2. \A q : Step(q, 0) = [r \in Recs \cup {NULL} |-> <<>>]
    OBVIOUS
  <2>3. \A n \in 0..0 : [r \in Recs \cup {NULL} |-> <<>>] = Step(g[n - 1], n)
    <3> HIDE DEF g, Step
    <3> QED  BY <2>1, <2>2
  <2>4. g = [n \in 0..0 |-> Step(g[n - 1], n)]
    <3> DEFINE h == g
    <3> HIDE DEF Step, h
    <3> QED  BY <2>3
  <2> HIDE DEF g, Step
  <2>5. IsPaths(g, next, 0)
    BY <1>0, <2>4
  <2> QED  BY <2>5
<1>2. ASSUME NEW m \in T PROVE m + 1 \in T
  <2>1. PICK h : IsPaths(h, next, m)
    OBVIOUS
  <2>2. m \in Nat /\ m + 1 \in Nat
    OBVIOUS
  <2>3. h = [n \in 0..m |-> Step(h[n - 1], n)]
    BY <2>1, Zenon DEF IsPaths
  <2> HIDE DEF Step
  <2> DEFINE g == [n \in 0..(m + 1) |-> IF n <= m THEN h[n] ELSE Step(h[m], m + 1)]
             G == [n \in 0..(m + 1) |-> Step(g[n - 1], n)]
  <2>4. \A n \in 0..m : h[n] = Step(h[n - 1], n)
    BY <2>3
  <2>5. ASSUME NEW n \in 0..(m + 1) PROVE g[n] = Step(g[n - 1], n)
    <3>1. CASE n <= m /\ n # 0
      <4>1. n \in 0..m /\ n - 1 \in 0..(m + 1) /\ n - 1 <= m
        BY <2>2, <3>1
      <4>2. g[n] = h[n] /\ g[n - 1] = h[n - 1]
        BY <4>1
      <4> HIDE DEF g
      <4> QED  BY <2>4, <4>1, <4>2
    <3>2. CASE n = 0
      <4>1. n \in 0..m /\ g[n] = h[n]
        BY <2>2, <3>2
      <4>2. \A q, r : Step(q, 0) = Step(r, 0)
        BY DEF Step
      <4> HIDE DEF g
      <4> QED  BY <2>4, <3>2, <4>1, <4>2
    <3>3. CASE ~(n <= m)
      <4>1. n = m + 1 /\ n - 1 = m /\ g[n] = Step(h[m], m + 1) /\ g[n - 1] = h[m]
        BY <2>2, <3>3
      <4> HIDE DEF g
      <4> QED  BY <4>1
    <3> QED  BY <3>1, <3>2, <3>3
  <2>6. g = [n \in 0..(m + 1) |-> g[n]]
    OBVIOUS
  <2> HIDE DEF g
  <2>7. \A n \in 0..(m + 1) : g[n] = G[n]
    BY <2>5
  <2>8. g = G
    BY <2>6, <2>7
  <2>9. IsPaths(g, next, m + 1)
    BY <1>0, <2>8 DEF G
  <2> QED  BY <2>2, <2>9
<1>3. T \in SUBSET Nat
  OBVIOUS
<1> HIDE DEF T
<1>4. T = Nat
  BY <1>1, <1>2, <1>3, NatByStep
<1> QED  BY <1>4 DEF T

LEMMA PathIs ==
    ASSUME NEW first \in Recs \cup {NULL}, NEW next, NEW S \in SUBSET Recs, NEW n \in Nat,
           NEW s \in [1..n -> S], Ordered(first, next, S, NULL, n, s)
    PROVE  Path(first, next) = s
<1> DEFINE N == Cardinality(Recs)
           p[k \in 0..N] ==
            [r \in Recs \cup {NULL} |->
                IF r = NULL \/ k = 0 THEN <<>> ELSE <<r>> \o p[k - 1][next[r]]]
<1>1. NULL \notin Recs /\ IsFiniteSet(Recs) /\ N \in Nat
  BY RecsNotNull
<1>2. \E q : IsPaths(q, next, N)
  BY <1>1, PathsExist
<1>3. IsPaths(p, next, N)
  BY <1>2, Zenon DEF IsPaths
<1>4. Path(first, next) = p[N][first]
  BY Zenon DEF Path, p, N
<1> HIDE DEF p
<1>5. ASSUME NEW k \in 0..N, NEW r \in Recs \cup {NULL}
      PROVE  p[k][r] = IF r = NULL \/ k = 0 THEN <<>> ELSE <<r>> \o p[k - 1][next[r]]
  <2> DEFINE Step(q, m) == [x \in Recs \cup {NULL} |->
                              IF x = NULL \/ m = 0 THEN <<>> ELSE <<x>> \o q[next[x]]]
  <2>1. p = [m \in 0..N |-> Step(p[m - 1], m)]
    BY <1>3, Zenon DEF IsPaths
  <2>2. Step(p[k - 1], k)[r] = IF r = NULL \/ k = 0 THEN <<>> ELSE <<r>> \o p[k - 1][next[r]]
    BY Zenon
  <2> HIDE DEF Step
  <2>3. p[k] = Step(p[k - 1], k)
    BY <2>1
  <2> QED  BY <2>2, <2>3, Zenon
<1>6. n <= N
  <2>1. \A i, j \in 1..n : s[i] = s[j] => i = j
    BY DEF Ordered
  <2> QED  BY <1>1, <2>1, ChainLength
<1> HIDE DEF N
<1> DEFINE From(j) == IF j = n + 1 THEN NULL ELSE s[j]
           Part(j) == [i \in 1..(n + 1 - j) |-> s[i + j - 1]]
           T == {k \in Nat : \A j \in 1..(n + 1) : n + 1 - j <= k /\ k <= N => p[k][From(j)] = Part(j)}
<1>7. ASSUME NEW k \in 0..N PROVE p[k][From(n + 1)] = Part(n + 1)
  <2>1. From(n + 1) = NULL /\ p[k][NULL] = <<>>
    BY <1>5
  <2>2. Part(n + 1) = <<>>
    OBVIOUS
  <2> HIDE DEF From, Part
  <2> QED  BY <2>1, <2>2
<1>8. 0 \in T
  <2>1. \A j \in 1..(n + 1) : n + 1 - j <= 0 => j = n + 1
    OBVIOUS
  <2>2. 0 \in 0..N
    BY <1>1
  <2> HIDE DEF From, Part
  <2> QED  BY <1>7, <2>1, <2>2
<1>9. ASSUME NEW k \in T PROVE k + 1 \in T
  <2>1. k \in Nat /\ k + 1 \in Nat /\ (k + 1) - 1 = k
    OBVIOUS
  <2>2. ASSUME NEW j \in 1..(n + 1), n + 1 - j <= k + 1, k + 1 <= N
        PROVE  p[k + 1][From(j)] = Part(j)
    <3>1. k \in 0..N /\ k + 1 \in 0..N /\ k + 1 # 0
      BY <1>1, <2>1, <2>2
    <3>2. CASE j = n + 1
      <4> HIDE DEF From, Part
      <4> QED  BY <1>7, <3>1, <3>2
    <3>3. CASE j # n + 1
      <4>1. j \in 1..n /\ j + 1 \in 1..(n + 1) /\ n + 1 - (j + 1) <= k
        BY <2>1, <2>2, <3>3
      <4>2. From(j) = s[j] /\ s[j] \in Recs /\ s[j] # NULL
        BY <1>1, <3>3, <4>1
      <4>3. next[s[j]] = From(j + 1)
        <5>1. next[s[j]] = IF j = n THEN NULL ELSE s[j + 1]
          BY <4>1 DEF Ordered
        <5> QED  BY <4>1, <5>1
      <4>4. p[k][From(j + 1)] = Part(j + 1)
        <5>1. k <= N
          BY <1>1, <3>1
        <5> HIDE DEF From, Part
        <5> QED  BY <2>1, <4>1, <5>1
      <4>5. p[k + 1][s[j]] = <<s[j]>> \o p[k][next[s[j]]]
        <5>1. s[j] \in Recs \cup {NULL} /\ ~(s[j] = NULL \/ k + 1 = 0)
          BY <3>1, <4>2
        <5>2. p[k + 1][s[j]] = <<s[j]>> \o p[(k + 1) - 1][next[s[j]]]
          BY <1>5, <3>1, <5>1, Zenon
        <5> QED  BY <2>1, <5>2, Zenon
      <4>6. <<s[j]>> \o Part(j + 1) = Part(j)
        <5> DEFINE m == n - j
                   f == [i \in 1..m |-> s[i + j]]
        <5>1. m \in Nat /\ f \in [1..m -> Recs]
          BY <4>1
        <5>2. Part(j + 1) = f
          BY <4>1
        <5> HIDE DEF f, m
        <5>3. <<s[j]>> \o f = [i \in 1..(m + 1) |-> IF i = 1 THEN s[j] ELSE f[i - 1]]
          BY <4>2, <5>1
        <5>4. \A i \in 1..(m + 1) : (IF i = 1 THEN s[j] ELSE f[i - 1]) = s[i + j - 1]
          BY <4>1, <5>1 DEF f, m
        <5>5. Part(j) = [i \in 1..(m + 1) |-> s[i + j - 1]]
          BY <4>1 DEF m
        <5>6. [i \in 1..(m + 1) |-> IF i = 1 THEN s[j] ELSE f[i - 1]] = [i \in 1..(m + 1) |-> s[i + j - 1]]
          BY <5>4
        <5> HIDE DEF Part
        <5> QED  BY <5>2, <5>3, <5>5, <5>6
      <4> HIDE DEF From, Part
      <4> QED  BY <4>2, <4>3, <4>4, <4>5, <4>6
    <3> QED  BY <3>2, <3>3
  <2> HIDE DEF From, Part
  <2> QED  BY <2>1, <2>2
<1>10. T = Nat
  <2>1. T \in SUBSET Nat
    OBVIOUS
  <2> HIDE DEF T
  <2> QED  BY <1>8, <1>9, <2>1, NatByStep
<1>11. p[N][From(1)] = Part(1)
  <2>1. N \in T /\ 1 \in 1..(n + 1) /\ n + 1 - 1 <= N
    BY <1>1, <1>6, <1>10
  <2> HIDE DEF From, Part
  <2> QED  BY <1>1, <2>1
<1>12. From(1) = first
  BY DEF Ordered
<1>13. Part(1) = s
  BY DEF Ordered
<1> HIDE DEF From, Part
<1> QED  BY <1>4, <1>11, <1>12, <1>13

\* What is reached along a chain is its elements.
LEMMA ReachedIs ==
    ASSUME NEW first \in Recs \cup {NULL}, NEW next, NEW S \in SUBSET Recs,
           IsChain(first, next, S, NULL)
    PROVE  Reached(first, next) = S
<1>1. PICK n \in Nat : \E s \in [1..n -> S] : Ordered(first, next, S, NULL, n, s)
  BY DEF IsChain
<1>2. PICK s \in [1..n -> S] : Ordered(first, next, S, NULL, n, s)
  BY <1>1
<1>3. Path(first, next) = s
  BY <1>2, PathIs
<1>4. Range(s) = S
  BY <1>2 DEF Range, Ordered
<1> QED  BY <1>3, <1>4 DEF Reached

\* The first element of a set on a chain is on both; NULL if they share none.
LEMMA FirstOfIs ==
    ASSUME NEW first \in Recs \cup {NULL}, NEW next, NEW S \in SUBSET Recs,
           IsChain(first, next, S, NULL), NEW H
    PROVE  IF S \cap H = {} THEN FirstOf(first, next, H) = NULL
                            ELSE FirstOf(first, next, H) \in S \cap H
<1>1. PICK n \in Nat : \E s \in [1..n -> S] : Ordered(first, next, S, NULL, n, s)
  BY DEF IsChain
<1>2. PICK s \in [1..n -> S] : Ordered(first, next, S, NULL, n, s)
  BY <1>1
<1>3. Path(first, next) = s
  BY <1>2, PathIs
<1> DEFINE hits == {i \in DOMAIN s : s[i] \in H}
<1>4. FirstOf(first, next, H) = IF hits = {} THEN NULL ELSE s[Min(hits)]
  BY <1>3, Zenon DEF FirstOf
<1>5. DOMAIN s = 1..n /\ \A x \in S : \E i \in 1..n : s[i] = x
  BY <1>2 DEF Ordered
<1>6. CASE hits = {}
  <2>1. S \cap H = {}
    BY <1>5, <1>6
  <2> QED  BY <1>4, <1>6, <2>1
<1>7. CASE hits # {}
  <2>1. hits \in SUBSET Nat
    OBVIOUS
  <2> HIDE DEF hits
  <2>2. PICK k \in hits : \A j \in hits : k <= j
    BY <1>7, <2>1, Least
  <2>3. (CHOOSE x \in hits : \A y \in hits : x <= y) \in hits
    BY <2>2, Zenon
  <2>4. Min(hits) \in hits
    BY <2>3, Zenon DEF Min
  <2>5. s[Min(hits)] \in S \cap H
    BY <1>5, <2>4 DEF hits
  <2> QED  BY <1>4, <1>7, <2>5
<1> QED  BY <1>6, <1>7

-----------------------------------------------------------------------------
(* The operations of a command *)

Left == Range(todo)

\* The steps of the commands, and the order in which every command takes them.
Known == [op : {"duplicate", "destroy"}, on : {"copy", "snapshot", "snapshot_copy"}]
           \cup [op : {"link", "reset", "print"}, on : Copies]
           \cup [op : {"offset", "print_callstacks", "init_maps", "term_maps"}, on : {"copy"}]

OpRank == [duplicate |-> 2, link |-> 4, offset |-> 6, init_maps |-> 8, print |-> 10,
           print_callstacks |-> 12, term_maps |-> 14, reset |-> 16, destroy |-> 18]
Rank(s) == IF s = Do("duplicate", "snapshot") THEN 20
           ELSE OpRank[s.op] + (IF s.on = "snapshot_copy" THEN 1 ELSE 0)

InOrder(s) == \A i, j \in DOMAIN s : i < j => Rank(s[i]) < Rank(s[j])

\* What is begun is ended: the links are reset, the copies given back, the file
\* maps released; and no table is copied once there are links.
Complete(L) ==
    /\ \A k \in Copies :
        /\ Do("link", k) \in L => Do("reset", k) \in L
        /\ Do("offset", "copy") \in L => Do("reset", k) \in L
        /\ Do("print_callstacks", "copy") \in L => Do("reset", k) \in L
        /\ Do("duplicate", k) \in L => Do("destroy", k) \in L
        /\ \A j \in Copies :
            Do("duplicate", j) \in L /\ Do("reset", k) \in L => Do("link", k) \in L
    /\ Do("offset", "copy") \in L => Do("init_maps", "copy") \in L
    /\ Do("init_maps", "copy") \in L => Do("term_maps", "copy") \in L

Plan(s) == s \in Seq(Known) /\ InOrder(s) /\ Complete(Range(s))

LEMMA KnownSteps ==
    /\ Known \subseteq Steps
    /\ \A s \in Known : s = Do(s.op, s.on) /\ Rank(s) \in Nat
  BY DEF Known, Steps, Ops, Tables, Copies, Do, Rank, OpRank

LEMMA Ranks ==
    /\ Rank(Do("duplicate", "copy")) = 2 /\ Rank(Do("duplicate", "snapshot_copy")) = 3
    /\ Rank(Do("link", "copy")) = 4 /\ Rank(Do("link", "snapshot_copy")) = 5
    /\ Rank(Do("offset", "copy")) = 6 /\ Rank(Do("init_maps", "copy")) = 8
    /\ Rank(Do("print", "copy")) = 10 /\ Rank(Do("print", "snapshot_copy")) = 11
    /\ Rank(Do("print_callstacks", "copy")) = 12 /\ Rank(Do("term_maps", "copy")) = 14
    /\ Rank(Do("reset", "copy")) = 16 /\ Rank(Do("reset", "snapshot_copy")) = 17
    /\ Rank(Do("destroy", "copy")) = 18 /\ Rank(Do("destroy", "snapshot_copy")) = 19
    /\ Rank(Do("destroy", "snapshot")) = 18 /\ Rank(Do("duplicate", "snapshot")) = 20
  BY DEF Rank, OpRank, Do

LEMMA RangeEmpty == Range(<<>>) = {}
  BY DEF Range

\* What is left of a plan after its first step.
LEMMA PlanTail ==
    ASSUME NEW s, Plan(s), s # <<>>
    PROVE  /\ Head(s) \in Known /\ Head(s) \in Range(s) /\ Plan(Tail(s))
           /\ Range(Tail(s)) = Range(s) \ {Head(s)}
           /\ \A x \in Range(s) : x \in Known /\ (x = Head(s) \/ Rank(Head(s)) < Rank(x))
<1>1. s \in Seq(Known) /\ InOrder(s) /\ Complete(Range(s))
  BY DEF Plan
<1> DEFINE n == Len(s)
<1>2. n \in Nat /\ n >= 1 /\ DOMAIN s = 1..n /\ \A i \in 1..n : s[i] \in Known
  BY <1>1
<1>3. Head(s) = s[1] /\ Tail(s) \in Seq(Known) /\ Len(Tail(s)) = n - 1
  BY <1>1, <1>2
<1>4. \A i \in 1..(n - 1) : Tail(s)[i] = s[i + 1]
  BY <1>1, <1>2
<1>5. DOMAIN Tail(s) = 1..(n - 1)
  BY <1>3
<1> HIDE DEF n
<1>6. \A i \in 1..n : i # 1 => Rank(s[1]) < Rank(s[i])
  BY <1>1, <1>2 DEF InOrder
<1>7. ASSUME NEW x \in Range(s) PROVE x \in Known /\ (x = s[1] \/ Rank(s[1]) < Rank(x))
  <2>1. PICK i \in 1..n : x = s[i]
    BY <1>2 DEF Range
  <2> QED  BY <1>2, <1>6, <2>1
<1>8. Range(Tail(s)) = Range(s) \ {s[1]}
  <2>1. ASSUME NEW x \in Range(Tail(s)) PROVE x \in Range(s) /\ x # s[1]
    <3>1. PICK i \in 1..(n - 1) : x = Tail(s)[i]
      BY <1>5 DEF Range
    <3>2. i + 1 \in 1..n /\ i + 1 # 1 /\ x = s[i + 1]
      BY <1>2, <1>4, <3>1
    <3>3. Rank(s[1]) < Rank(x) /\ Rank(s[1]) \in Nat
      BY <1>2, <1>6, <3>2, KnownSteps
    <3>4. x # s[1]
      BY <3>3
    <3> QED  BY <1>2, <3>2, <3>4 DEF Range
  <2>2. ASSUME NEW x \in Range(s), x # s[1] PROVE x \in Range(Tail(s))
    <3>1. PICK i \in 1..n : x = s[i]
      BY <1>2 DEF Range
    <3>2. i - 1 \in 1..(n - 1) /\ (i - 1) + 1 = i
      BY <1>2, <2>2, <3>1
    <3> QED  BY <1>4, <1>5, <3>1, <3>2 DEF Range
  <2> QED  BY <2>1, <2>2
<1>9. InOrder(Tail(s))
  <2> SUFFICES ASSUME NEW i \in 1..(n - 1), NEW j \in 1..(n - 1), i < j
               PROVE  Rank(Tail(s)[i]) < Rank(Tail(s)[j])
    BY <1>5 DEF InOrder
  <2>1. i + 1 \in 1..n /\ j + 1 \in 1..n /\ i + 1 < j + 1
    BY <1>2
  <2> QED  BY <1>1, <1>2, <1>4, <2>1 DEF InOrder
<1>10. Complete(Range(Tail(s)))
  <2> DEFINE L == Range(s)  M == Range(Tail(s))  h == s[1]
  <2>1. Complete(L) /\ M = L \ {h}
    BY <1>1, <1>8
  <2>2. \A x \in M : Rank(h) < Rank(x) /\ Rank(h) \in Nat
    BY <1>2, <1>7, <1>8, KnownSteps
  <2> HIDE DEF L, M, h
  <2>3. ASSUME NEW x \in M, NEW y \in L, Rank(x) < Rank(y), Rank(x) \in Nat, Rank(y) \in Nat
        PROVE  y \in M
    <3>1. Rank(h) < Rank(y) /\ Rank(h) \in Nat
      BY <2>2, <2>3
    <3> QED  BY <2>1, <3>1
  <2>4. Copies = {"copy", "snapshot_copy"}
    BY DEF Copies
  <2>5. Do("offset", "copy") \in M => Do("init_maps", "copy") \in M
    BY <2>1, <2>3, Ranks DEF Complete
  <2>6. Do("init_maps", "copy") \in M => Do("term_maps", "copy") \in M
    BY <2>1, <2>3, Ranks DEF Complete
  <2>7. ASSUME NEW k \in Copies, Do("link", k) \in M PROVE Do("reset", k) \in M
    BY <2>1, <2>3, <2>4, <2>7, Ranks DEF Complete
  <2>8. ASSUME NEW k \in Copies, Do("offset", "copy") \in M PROVE Do("reset", k) \in M
    BY <2>1, <2>3, <2>4, <2>8, Ranks DEF Complete
  <2>9. ASSUME NEW k \in Copies, Do("print_callstacks", "copy") \in M PROVE Do("reset", k) \in M
    BY <2>1, <2>3, <2>4, <2>9, Ranks DEF Complete
  <2>10. ASSUME NEW k \in Copies, Do("duplicate", k) \in M PROVE Do("destroy", k) \in M
    BY <2>1, <2>3, <2>4, <2>10, Ranks DEF Complete
  <2>11. ASSUME NEW j \in Copies, NEW k \in Copies, Do("duplicate", j) \in M, Do("reset", k) \in M
         PROVE  Do("link", k) \in M
    BY <2>1, <2>3, <2>4, <2>11, Ranks DEF Complete
  <2> HIDE DEF Complete
  <2>12. Complete(M)
    BY <2>5, <2>6, <2>7, <2>8, <2>9, <2>10, <2>11 DEF Complete
  <2> QED  BY <2>12 DEF M
<1>11. Plan(Tail(s))
  BY <1>3, <1>9, <1>10 DEF Plan
<1>12. s[1] \in Range(s) /\ s[1] \in Known
  BY <1>2 DEF Range
<1> QED  BY <1>3, <1>7, <1>8, <1>11, <1>12, Zenon

\* Two steps are the same when their operation and table are.
LEMMA DoIs ==
    \A o, p, j, k : Do(o, j) = Do(p, k) <=> o = p /\ j = k
<1> SUFFICES ASSUME NEW o, NEW p, NEW j, NEW k PROVE Do(o, j) = Do(p, k) <=> o = p /\ j = k
  OBVIOUS
<1>1. Do(o, j).op = o /\ Do(o, j).on = j /\ Do(p, k).op = p /\ Do(p, k).on = k
  BY DEF Do
<1> QED  BY <1>1

\* Which steps a command has.
CompareSteps ==
    {Do("duplicate", "copy"), Do("duplicate", "snapshot_copy"), Do("link", "copy"),
     Do("link", "snapshot_copy"), Do("offset", "copy"), Do("init_maps", "copy"),
     Do("term_maps", "copy"), Do("reset", "copy"), Do("reset", "snapshot_copy"),
     Do("destroy", "copy"), Do("destroy", "snapshot_copy")}

ScriptSteps == [
    list |-> {Do("duplicate", "copy"), Do("init_maps", "copy"), Do("print", "copy"),
              Do("term_maps", "copy"), Do("destroy", "copy")},
    list_per_callstack |->
        {Do("duplicate", "copy"), Do("link", "copy"), Do("init_maps", "copy"),
         Do("print", "copy"), Do("term_maps", "copy"), Do("reset", "copy"), Do("destroy", "copy")},
    create |-> {Do("destroy", "snapshot"), Do("duplicate", "snapshot")},
    destroy |-> {Do("destroy", "snapshot")},
    compare |-> CompareSteps \cup {Do("print", "copy"), Do("print", "snapshot_copy")},
    compare_per_callstack |-> CompareSteps \cup {Do("print_callstacks", "copy")}]

\* Steps in order, of ranks between two bounds.
Part(s, L, lo, hi) ==
    s \in Seq(Known) /\ InOrder(s) /\ Range(s) = L /\ \A x \in L : lo <= Rank(x) /\ Rank(x) <= hi

LEMMA PartOne ==
    ASSUME NEW a \in Known
    PROVE  Part(<<a>>, {a}, Rank(a), Rank(a))
<1>1. Rank(a) \in Nat
  BY KnownSteps
<1>2. <<a>> \in Seq(Known) /\ DOMAIN <<a>> = {1} /\ <<a>>[1] = a
  OBVIOUS
<1>3. InOrder(<<a>>)
  BY <1>2 DEF InOrder
<1>4. Range(<<a>>) = {a}
  BY <1>2 DEF Range
<1> QED  BY <1>1, <1>2, <1>3, <1>4 DEF Part

LEMMA PartsJoin ==
    ASSUME NEW s, NEW t, NEW L, NEW M, NEW lo \in Nat, NEW mid \in Nat, NEW top \in Nat, NEW hi \in Nat,
           Part(s, L, lo, mid), Part(t, M, top, hi), mid < top, lo <= mid, top <= hi
    PROVE  Part(s \o t, L \cup M, lo, hi)
<1>1. s \in Seq(Known) /\ t \in Seq(Known) /\ s \o t \in Seq(Known)
  BY DEF Part
<1> DEFINE m == Len(s)  n == Len(t)
<1>2. m \in Nat /\ n \in Nat /\ Len(s \o t) = m + n
  BY <1>1
<1>3. DOMAIN s = 1..m /\ DOMAIN t = 1..n /\ DOMAIN (s \o t) = 1..(m + n)
  BY <1>1, <1>2
<1>4. \A i \in 1..(m + n) : (s \o t)[i] = IF i <= m THEN s[i] ELSE t[i - m]
  BY <1>1, <1>2
<1>5. \A i \in 1..m : s[i] \in L /\ s[i] \in Known
  BY <1>1, <1>3 DEF Part, Range
<1>6. \A i \in 1..n : t[i] \in M /\ t[i] \in Known
  BY <1>1, <1>3 DEF Part, Range
<1> HIDE DEF m, n
<1>7. \A x \in L \cup M : x \in Known /\ Rank(x) \in Nat
  <2>1. \A x \in L : \E i \in 1..m : x = s[i]
    BY <1>3 DEF Part, Range
  <2>2. \A x \in M : \E i \in 1..n : x = t[i]
    BY <1>3 DEF Part, Range
  <2> QED  BY <1>5, <1>6, <2>1, <2>2, KnownSteps
<1>8. \A x \in L : lo <= Rank(x) /\ Rank(x) <= mid
  BY DEF Part
<1>9. \A x \in M : top <= Rank(x) /\ Rank(x) <= hi
  BY DEF Part
<1>10. InOrder(s \o t)
  <2> SUFFICES ASSUME NEW i \in 1..(m + n), NEW j \in 1..(m + n), i < j
               PROVE  Rank((s \o t)[i]) < Rank((s \o t)[j])
    BY <1>3 DEF InOrder
  <2>1. CASE j <= m
    <3>1. i \in 1..m /\ j \in 1..m /\ (s \o t)[i] = s[i] /\ (s \o t)[j] = s[j]
      BY <1>2, <1>4, <2>1
    <3> QED  BY <1>3, <3>1 DEF Part, InOrder
  <2>2. CASE i > m
    <3>1. i - m \in 1..n /\ j - m \in 1..n /\ i - m < j - m /\ (s \o t)[i] = t[i - m] /\ (s \o t)[j] = t[j - m]
      BY <1>2, <1>4, <2>2
    <3> QED  BY <1>3, <3>1 DEF Part, InOrder
  <2>3. CASE i <= m /\ j > m
    <3>1. i \in 1..m /\ j - m \in 1..n /\ (s \o t)[i] = s[i] /\ (s \o t)[j] = t[j - m]
      BY <1>2, <1>4, <2>3
    <3>2. s[i] \in L /\ t[j - m] \in M
      BY <1>5, <1>6, <3>1
    <3>3. Rank(s[i]) \in Nat /\ Rank(t[j - m]) \in Nat /\ Rank(s[i]) <= mid /\ top <= Rank(t[j - m])
      BY <1>7, <1>8, <1>9, <3>2
    <3>4. Rank(s[i]) < Rank(t[j - m])
      BY <3>3
    <3> QED  BY <3>1, <3>4
  <2> QED  BY <1>2, <2>1, <2>2, <2>3
<1>11. Range(s \o t) = L \cup M
  <2>1. ASSUME NEW x \in Range(s \o t) PROVE x \in L \cup M
    <3>1. PICK i \in 1..(m + n) : x = (s \o t)[i]
      BY <1>3 DEF Range
    <3>2. i <= m => i \in 1..m
      BY <1>2
    <3>3. ~(i <= m) => i - m \in 1..n
      BY <1>2
    <3> QED  BY <1>4, <1>5, <1>6, <3>1, <3>2, <3>3
  <2>2. ASSUME NEW x \in L PROVE x \in Range(s \o t)
    <3>1. PICK i \in 1..m : x = s[i]
      BY <1>3 DEF Part, Range
    <3>2. i \in 1..(m + n) /\ i <= m
      BY <1>2
    <3> QED  BY <1>3, <1>4, <3>1, <3>2 DEF Range
  <2>3. ASSUME NEW x \in M PROVE x \in Range(s \o t)
    <3>1. PICK i \in 1..n : x = t[i]
      BY <1>3 DEF Part, Range
    <3>2. i + m \in 1..(m + n) /\ ~(i + m <= m) /\ (i + m) - m = i
      BY <1>2
    <3> QED  BY <1>3, <1>4, <3>1, <3>2 DEF Range
  <2> QED  BY <2>1, <2>2, <2>3
<1>12. \A x \in L \cup M : lo <= Rank(x) /\ Rank(x) <= hi
  BY <1>7, <1>8, <1>9
<1> QED  BY <1>1, <1>10, <1>11, <1>12 DEF Part

LEMMA PartTwo ==
    ASSUME NEW a \in Known, NEW b \in Known,
           Rank(a) < Rank(b)
    PROVE  Part(<<a, b>>, {a, b}, Rank(a), Rank(b))
<1> DEFINE s == <<a, b>>
<1>1. Rank(a) \in Nat /\ Rank(b) \in Nat
  BY KnownSteps
<1>2. s \in Seq(Known) /\ DOMAIN s = 1..2
  OBVIOUS
<1>3. s[1] = a /\ s[2] = b
  OBVIOUS
<1>4. \A i \in 1..2 : i = 1 \/ i = 2
  OBVIOUS
<1> HIDE DEF s
<1>5. Rank(a) < Rank(b)
  BY <1>1
<1>6. InOrder(s)
  <2> SUFFICES ASSUME NEW i \in 1..2, NEW j \in 1..2, i < j PROVE Rank(s[i]) < Rank(s[j])
    BY <1>2 DEF InOrder
  <2> QED  BY <1>3, <1>4, <1>5
<1>7. Range(s) = {a, b}
  <2>1. Range(s) = {s[i] : i \in 1..2}
    BY <1>2 DEF Range
  <2>2. 1 \in 1..2 /\ 2 \in 1..2
    OBVIOUS
  <2> QED  BY <1>3, <1>4, <2>1, <2>2
<1>8. \A x \in {a, b} : Rank(a) <= Rank(x) /\ Rank(x) <= Rank(b)
  BY <1>1, <1>5
<1> QED  BY <1>2, <1>6, <1>7, <1>8 DEF Part, s

LEMMA PartThree ==
    ASSUME NEW a \in Known, NEW b \in Known, NEW c \in Known,
           Rank(a) < Rank(b), Rank(b) < Rank(c)
    PROVE  Part(<<a, b, c>>, {a, b, c}, Rank(a), Rank(c))
<1> DEFINE s == <<a, b, c>>
<1>1. Rank(a) \in Nat /\ Rank(b) \in Nat /\ Rank(c) \in Nat
  BY KnownSteps
<1>2. s \in Seq(Known) /\ DOMAIN s = 1..3
  OBVIOUS
<1>3. s[1] = a /\ s[2] = b /\ s[3] = c
  OBVIOUS
<1>4. \A i \in 1..3 : i = 1 \/ i = 2 \/ i = 3
  OBVIOUS
<1> HIDE DEF s
<1>5. Rank(a) < Rank(b) /\ Rank(a) < Rank(c) /\ Rank(b) < Rank(c)
  BY <1>1
<1>6. InOrder(s)
  <2> SUFFICES ASSUME NEW i \in 1..3, NEW j \in 1..3, i < j PROVE Rank(s[i]) < Rank(s[j])
    BY <1>2 DEF InOrder
  <2> QED  BY <1>3, <1>4, <1>5
<1>7. Range(s) = {a, b, c}
  <2>1. Range(s) = {s[i] : i \in 1..3}
    BY <1>2 DEF Range
  <2>2. 1 \in 1..3 /\ 2 \in 1..3 /\ 3 \in 1..3
    OBVIOUS
  <2> QED  BY <1>3, <1>4, <2>1, <2>2
<1>8. \A x \in {a, b, c} : Rank(a) <= Rank(x) /\ Rank(x) <= Rank(c)
  BY <1>1, <1>5
<1> QED  BY <1>2, <1>6, <1>7, <1>8 DEF Part, s

LEMMA PartFive ==
    ASSUME NEW a \in Known, NEW b \in Known, NEW c \in Known, NEW d \in Known, NEW e \in Known,
           Rank(a) < Rank(b), Rank(b) < Rank(c), Rank(c) < Rank(d), Rank(d) < Rank(e)
    PROVE  Part(<<a, b, c, d, e>>, {a, b, c, d, e}, Rank(a), Rank(e))
<1> DEFINE s == <<a, b, c, d, e>>
<1>1. Rank(a) \in Nat /\ Rank(b) \in Nat /\ Rank(c) \in Nat /\ Rank(d) \in Nat /\ Rank(e) \in Nat
  BY KnownSteps
<1>2. s \in Seq(Known) /\ DOMAIN s = 1..5
  OBVIOUS
<1>3. s[1] = a /\ s[2] = b /\ s[3] = c /\ s[4] = d /\ s[5] = e
  OBVIOUS
<1>4. \A i \in 1..5 : i = 1 \/ i = 2 \/ i = 3 \/ i = 4 \/ i = 5
  OBVIOUS
<1> HIDE DEF s
<1>5. /\ Rank(a) < Rank(b) /\ Rank(a) < Rank(c) /\ Rank(a) < Rank(d) /\ Rank(a) < Rank(e)
      /\ Rank(b) < Rank(c) /\ Rank(b) < Rank(d) /\ Rank(b) < Rank(e) /\ Rank(c) < Rank(d)
      /\ Rank(c) < Rank(e) /\ Rank(d) < Rank(e)
  BY <1>1
<1>6. InOrder(s)
  <2> SUFFICES ASSUME NEW i \in 1..5, NEW j \in 1..5, i < j PROVE Rank(s[i]) < Rank(s[j])
    BY <1>2 DEF InOrder
  <2> QED  BY <1>3, <1>4, <1>5
<1>7. Range(s) = {a, b, c, d, e}
  <2>1. Range(s) = {s[i] : i \in 1..5}
    BY <1>2 DEF Range
  <2>2. 1 \in 1..5 /\ 2 \in 1..5 /\ 3 \in 1..5 /\ 4 \in 1..5 /\ 5 \in 1..5
    OBVIOUS
  <2> QED  BY <1>3, <1>4, <2>1, <2>2
<1>8. \A x \in {a, b, c, d, e} : Rank(a) <= Rank(x) /\ Rank(x) <= Rank(e)
  BY <1>1, <1>5
<1> QED  BY <1>2, <1>6, <1>7, <1>8 DEF Part, s

LEMMA PartSix ==
    ASSUME NEW a \in Known, NEW b \in Known, NEW c \in Known, NEW d \in Known, NEW e \in Known, NEW f \in Known,
           Rank(a) < Rank(b), Rank(b) < Rank(c), Rank(c) < Rank(d), Rank(d) < Rank(e), Rank(e) < Rank(f)
    PROVE  Part(<<a, b, c, d, e, f>>, {a, b, c, d, e, f}, Rank(a), Rank(f))
<1> DEFINE s == <<a, b, c, d, e, f>>
<1>1. Rank(a) \in Nat /\ Rank(b) \in Nat /\ Rank(c) \in Nat /\ Rank(d) \in Nat /\ Rank(e) \in Nat /\ Rank(f) \in Nat
  BY KnownSteps
<1>2. s \in Seq(Known) /\ DOMAIN s = 1..6
  OBVIOUS
<1>3. s[1] = a /\ s[2] = b /\ s[3] = c /\ s[4] = d /\ s[5] = e /\ s[6] = f
  OBVIOUS
<1>4. \A i \in 1..6 : i = 1 \/ i = 2 \/ i = 3 \/ i = 4 \/ i = 5 \/ i = 6
  OBVIOUS
<1> HIDE DEF s
<1>5. /\ Rank(a) < Rank(b) /\ Rank(a) < Rank(c) /\ Rank(a) < Rank(d) /\ Rank(a) < Rank(e)
      /\ Rank(a) < Rank(f) /\ Rank(b) < Rank(c) /\ Rank(b) < Rank(d) /\ Rank(b) < Rank(e)
      /\ Rank(b) < Rank(f) /\ Rank(c) < Rank(d) /\ Rank(c) < Rank(e) /\ Rank(c) < Rank(f)
      /\ Rank(d) < Rank(e) /\ Rank(d) < Rank(f) /\ Rank(e) < Rank(f)
  BY <1>1
<1>6. InOrder(s)
  <2> SUFFICES ASSUME NEW i \in 1..6, NEW j \in 1..6, i < j PROVE Rank(s[i]) < Rank(s[j])
    BY <1>2 DEF InOrder
  <2> QED  BY <1>3, <1>4, <1>5
<1>7. Range(s) = {a, b, c, d, e, f}
  <2>1. Range(s) = {s[i] : i \in 1..6}
    BY <1>2 DEF Range
  <2>2. 1 \in 1..6 /\ 2 \in 1..6 /\ 3 \in 1..6 /\ 4 \in 1..6 /\ 5 \in 1..6 /\ 6 \in 1..6
    OBVIOUS
  <2> QED  BY <1>3, <1>4, <2>1, <2>2
<1>8. \A x \in {a, b, c, d, e, f} : Rank(a) <= Rank(x) /\ Rank(x) <= Rank(f)
  BY <1>1, <1>5
<1> QED  BY <1>2, <1>6, <1>7, <1>8 DEF Part, s

LEMMA PartSeven ==
    ASSUME NEW a \in Known, NEW b \in Known, NEW c \in Known, NEW d \in Known, NEW e \in Known, NEW f \in Known, NEW g \in Known,
           Rank(a) < Rank(b), Rank(b) < Rank(c), Rank(c) < Rank(d), Rank(d) < Rank(e), Rank(e) < Rank(f), Rank(f) < Rank(g)
    PROVE  Part(<<a, b, c, d, e, f, g>>, {a, b, c, d, e, f, g}, Rank(a), Rank(g))
<1> DEFINE s == <<a, b, c, d, e, f, g>>
<1>1. Rank(a) \in Nat /\ Rank(b) \in Nat /\ Rank(c) \in Nat /\ Rank(d) \in Nat /\ Rank(e) \in Nat /\ Rank(f) \in Nat /\ Rank(g) \in Nat
  BY KnownSteps
<1>2. s \in Seq(Known) /\ DOMAIN s = 1..7
  OBVIOUS
<1>3. s[1] = a /\ s[2] = b /\ s[3] = c /\ s[4] = d /\ s[5] = e /\ s[6] = f /\ s[7] = g
  OBVIOUS
<1>4. \A i \in 1..7 : i = 1 \/ i = 2 \/ i = 3 \/ i = 4 \/ i = 5 \/ i = 6 \/ i = 7
  OBVIOUS
<1> HIDE DEF s
<1>5. /\ Rank(a) < Rank(b) /\ Rank(a) < Rank(c) /\ Rank(a) < Rank(d) /\ Rank(a) < Rank(e)
      /\ Rank(a) < Rank(f) /\ Rank(a) < Rank(g) /\ Rank(b) < Rank(c) /\ Rank(b) < Rank(d)
      /\ Rank(b) < Rank(e) /\ Rank(b) < Rank(f) /\ Rank(b) < Rank(g) /\ Rank(c) < Rank(d)
      /\ Rank(c) < Rank(e) /\ Rank(c) < Rank(f) /\ Rank(c) < Rank(g) /\ Rank(d) < Rank(e)
      /\ Rank(d) < Rank(f) /\ Rank(d) < Rank(g) /\ Rank(e) < Rank(f) /\ Rank(e) < Rank(g)
      /\ Rank(f) < Rank(g)
  BY <1>1
<1>6. InOrder(s)
  <2> SUFFICES ASSUME NEW i \in 1..7, NEW j \in 1..7, i < j PROVE Rank(s[i]) < Rank(s[j])
    BY <1>2 DEF InOrder
  <2> QED  BY <1>3, <1>4, <1>5
<1>7. Range(s) = {a, b, c, d, e, f, g}
  <2>1. Range(s) = {s[i] : i \in 1..7}
    BY <1>2 DEF Range
  <2>2. 1 \in 1..7 /\ 2 \in 1..7 /\ 3 \in 1..7 /\ 4 \in 1..7 /\ 5 \in 1..7 /\ 6 \in 1..7 /\ 7 \in 1..7
    OBVIOUS
  <2> QED  BY <1>3, <1>4, <2>1, <2>2
<1>8. \A x \in {a, b, c, d, e, f, g} : Rank(a) <= Rank(x) /\ Rank(x) <= Rank(g)
  BY <1>1, <1>5
<1> QED  BY <1>2, <1>6, <1>7, <1>8 DEF Part, s

LEMMA AllKnown ==
    /\ \A k \in {"copy", "snapshot", "snapshot_copy"} :
        Do("duplicate", k) \in Known /\ Do("destroy", k) \in Known
    /\ \A k \in Copies : Do("link", k) \in Known /\ Do("reset", k) \in Known /\ Do("print", k) \in Known
    /\ \A p \in {"offset", "print_callstacks", "init_maps", "term_maps"} : Do(p, "copy") \in Known
  BY DEF Known, Do

LEMMA StepsAreKnown ==
    /\ Do("duplicate", "copy") \in Known /\ Do("duplicate", "snapshot_copy") \in Known
    /\ Do("duplicate", "snapshot") \in Known /\ Do("destroy", "snapshot") \in Known
    /\ Do("destroy", "copy") \in Known /\ Do("destroy", "snapshot_copy") \in Known
    /\ Do("link", "copy") \in Known /\ Do("link", "snapshot_copy") \in Known
    /\ Do("reset", "copy") \in Known /\ Do("reset", "snapshot_copy") \in Known
    /\ Do("print", "copy") \in Known /\ Do("print", "snapshot_copy") \in Known
    /\ Do("offset", "copy") \in Known /\ Do("print_callstacks", "copy") \in Known
    /\ Do("init_maps", "copy") \in Known /\ Do("term_maps", "copy") \in Known
  BY AllKnown DEF Copies

LEMMA CopiesAre == Copies = {"copy", "snapshot_copy"}
  BY DEF Copies

\* The parts of the comparisons.
Opening ==
    <<Do("duplicate", "copy"), Do("duplicate", "snapshot_copy"),
      Do("link", "copy"), Do("link", "snapshot_copy"), Do("offset", "copy"),
      Do("init_maps", "copy")>>
Closing == <<Do("term_maps", "copy"), Do("reset", "copy"), Do("reset", "snapshot_copy")>>

LEMMA ListPart ==
    Part(Script.list,
         {Do("duplicate", "copy"), Do("init_maps", "copy"), Do("print", "copy"),
          Do("term_maps", "copy"), Do("destroy", "copy")}, 2, 18)
<1> DEFINE a == Do("duplicate", "copy")
           b == Do("init_maps", "copy")
           c == Do("print", "copy")
           d == Do("term_maps", "copy")
           e == Do("destroy", "copy")
<1>1. /\ a \in Known /\ Rank(a) = 2
      /\ b \in Known /\ Rank(b) = 8
      /\ c \in Known /\ Rank(c) = 10
      /\ d \in Known /\ Rank(d) = 14
      /\ e \in Known /\ Rank(e) = 18
  BY StepsAreKnown, Ranks
<1> HIDE DEF a, b, c, d, e
<1>2. Part(<<a, b, c, d, e>>, {a, b, c, d, e}, Rank(a), Rank(e))
  <2>1. Rank(a) < Rank(b) /\ Rank(b) < Rank(c) /\ Rank(c) < Rank(d) /\ Rank(d) < Rank(e)
    BY <1>1
  <2> QED  BY <1>1, <2>1, PartFive
<1> QED  BY <1>1, <1>2 DEF a, b, c, d, e, Script

LEMMA ListPerCallstackPart ==
    Part(Script.list_per_callstack,
         {Do("duplicate", "copy"), Do("link", "copy"), Do("init_maps", "copy"),
          Do("print", "copy"), Do("term_maps", "copy"), Do("reset", "copy"),
          Do("destroy", "copy")}, 2, 18)
<1> DEFINE a == Do("duplicate", "copy")
           b == Do("link", "copy")
           c == Do("init_maps", "copy")
           d == Do("print", "copy")
           e == Do("term_maps", "copy")
           f == Do("reset", "copy")
           g == Do("destroy", "copy")
<1>1. /\ a \in Known /\ Rank(a) = 2
      /\ b \in Known /\ Rank(b) = 4
      /\ c \in Known /\ Rank(c) = 8
      /\ d \in Known /\ Rank(d) = 10
      /\ e \in Known /\ Rank(e) = 14
      /\ f \in Known /\ Rank(f) = 16
      /\ g \in Known /\ Rank(g) = 18
  BY StepsAreKnown, Ranks
<1> HIDE DEF a, b, c, d, e, f, g
<1>2. Part(<<a, b, c, d, e, f, g>>, {a, b, c, d, e, f, g}, Rank(a), Rank(g))
  <2>1. Rank(a) < Rank(b) /\ Rank(b) < Rank(c) /\ Rank(c) < Rank(d) /\ Rank(d) < Rank(e) /\ Rank(e) < Rank(f) /\ Rank(f) < Rank(g)
    BY <1>1
  <2> QED  BY <1>1, <2>1, PartSeven
<1> QED  BY <1>1, <1>2 DEF a, b, c, d, e, f, g, Script

LEMMA CreatePart ==
    Part(Script.create,
         {Do("destroy", "snapshot"), Do("duplicate", "snapshot")}, 18, 20)
<1> DEFINE a == Do("destroy", "snapshot")
           b == Do("duplicate", "snapshot")
<1>1. /\ a \in Known /\ Rank(a) = 18
      /\ b \in Known /\ Rank(b) = 20
  BY StepsAreKnown, Ranks
<1> HIDE DEF a, b
<1>2. Part(<<a, b>>, {a, b}, Rank(a), Rank(b))
  <2>1. Rank(a) < Rank(b)
    BY <1>1
  <2> QED  BY <1>1, <2>1, PartTwo
<1> QED  BY <1>1, <1>2 DEF a, b, Script, Create

LEMMA DestroyPart ==
    Part(Script.destroy,
         {Do("destroy", "snapshot")}, 18, 18)
<1> DEFINE a == Do("destroy", "snapshot")
<1>1. /\ a \in Known /\ Rank(a) = 18
  BY StepsAreKnown, Ranks
<1> HIDE DEF a
<1>2. Part(<<a>>, {a}, Rank(a), Rank(a))
  BY <1>1, PartOne
<1> QED  BY <1>1, <1>2 DEF a, Script

LEMMA OpeningPart ==
    Part(Opening,
         {Do("duplicate", "copy"), Do("duplicate", "snapshot_copy"), Do("link", "copy"),
          Do("link", "snapshot_copy"), Do("offset", "copy"), Do("init_maps", "copy")}, 2, 8)
<1> DEFINE a == Do("duplicate", "copy")
           b == Do("duplicate", "snapshot_copy")
           c == Do("link", "copy")
           d == Do("link", "snapshot_copy")
           e == Do("offset", "copy")
           f == Do("init_maps", "copy")
<1>1. /\ a \in Known /\ Rank(a) = 2
      /\ b \in Known /\ Rank(b) = 3
      /\ c \in Known /\ Rank(c) = 4
      /\ d \in Known /\ Rank(d) = 5
      /\ e \in Known /\ Rank(e) = 6
      /\ f \in Known /\ Rank(f) = 8
  BY StepsAreKnown, Ranks
<1> HIDE DEF a, b, c, d, e, f
<1>2. Part(<<a, b, c, d, e, f>>, {a, b, c, d, e, f}, Rank(a), Rank(f))
  <2>1. Rank(a) < Rank(b) /\ Rank(b) < Rank(c) /\ Rank(c) < Rank(d) /\ Rank(d) < Rank(e) /\ Rank(e) < Rank(f)
    BY <1>1
  <2> QED  BY <1>1, <2>1, PartSix
<1> QED  BY <1>1, <1>2 DEF a, b, c, d, e, f, Opening

LEMMA ClosingPart ==
    Part(Closing,
         {Do("term_maps", "copy"), Do("reset", "copy"), Do("reset", "snapshot_copy")}, 14, 17)
<1> DEFINE a == Do("term_maps", "copy")
           b == Do("reset", "copy")
           c == Do("reset", "snapshot_copy")
<1>1. /\ a \in Known /\ Rank(a) = 14
      /\ b \in Known /\ Rank(b) = 16
      /\ c \in Known /\ Rank(c) = 17
  BY StepsAreKnown, Ranks
<1> HIDE DEF a, b, c
<1>2. Part(<<a, b, c>>, {a, b, c}, Rank(a), Rank(c))
  <2>1. Rank(a) < Rank(b) /\ Rank(b) < Rank(c)
    BY <1>1
  <2> QED  BY <1>1, <2>1, PartThree
<1> QED  BY <1>1, <1>2 DEF a, b, c, Closing

LEMMA CleanupPart ==
    Part(Cleanup,
         {Do("destroy", "copy"), Do("destroy", "snapshot_copy")}, 18, 19)
<1> DEFINE a == Do("destroy", "copy")
           b == Do("destroy", "snapshot_copy")
<1>1. /\ a \in Known /\ Rank(a) = 18
      /\ b \in Known /\ Rank(b) = 19
  BY StepsAreKnown, Ranks
<1> HIDE DEF a, b
<1>2. Part(<<a, b>>, {a, b}, Rank(a), Rank(b))
  <2>1. Rank(a) < Rank(b)
    BY <1>1
  <2> QED  BY <1>1, <2>1, PartTwo
<1> QED  BY <1>1, <1>2 DEF a, b, Cleanup

LEMMA PrintPart ==
    Part(<<Do("print", "copy"), Do("print", "snapshot_copy")>>,
         {Do("print", "copy"), Do("print", "snapshot_copy")}, 10, 11)
<1> DEFINE a == Do("print", "copy")
           b == Do("print", "snapshot_copy")
<1>1. /\ a \in Known /\ Rank(a) = 10
      /\ b \in Known /\ Rank(b) = 11
  BY StepsAreKnown, Ranks
<1> HIDE DEF a, b
<1>2. Part(<<a, b>>, {a, b}, Rank(a), Rank(b))
  <2>1. Rank(a) < Rank(b)
    BY <1>1
  <2> QED  BY <1>1, <2>1, PartTwo
<1> QED  BY <1>1, <1>2 DEF a, b

LEMMA PrintCallstacksPart ==
    Part(<<Do("print_callstacks", "copy")>>,
         {Do("print_callstacks", "copy")}, 12, 12)
<1> DEFINE a == Do("print_callstacks", "copy")
<1>1. /\ a \in Known /\ Rank(a) = 12
  BY StepsAreKnown, Ranks
<1> HIDE DEF a
<1>2. Part(<<a>>, {a}, Rank(a), Rank(a))
  BY <1>1, PartOne
<1> QED  BY <1>1, <1>2 DEF a

LEMMA ComparePart ==
    ASSUME NEW print, NEW P, NEW lo \in Nat, NEW hi \in Nat, Part(print, P, lo, hi),
           8 < lo, lo <= hi, hi < 14
    PROVE  Part(Compare(print), CompareSteps \cup P, 2, 19)
<1> DEFINE A == {Do("duplicate", "copy"), Do("duplicate", "snapshot_copy"), Do("link", "copy"),
                 Do("link", "snapshot_copy"), Do("offset", "copy"), Do("init_maps", "copy")}
           C == {Do("term_maps", "copy"), Do("reset", "copy"), Do("reset", "snapshot_copy")}
           D == {Do("destroy", "copy"), Do("destroy", "snapshot_copy")}
<1>1. Part(Opening, A, 2, 8) /\ Part(Closing, C, 14, 17) /\ Part(Cleanup, D, 18, 19)
  BY OpeningPart, ClosingPart, CleanupPart
<1>2. Compare(print) = ((Opening \o print) \o Closing) \o Cleanup
  BY DEF Compare, Opening, Closing
<1>3. ((A \cup P) \cup C) \cup D = CompareSteps \cup P
  BY DEF CompareSteps
<1> HIDE DEF A, C, D
<1>4. Part(Opening \o print, A \cup P, 2, hi)
  BY <1>1, PartsJoin
<1>5. Part((Opening \o print) \o Closing, (A \cup P) \cup C, 2, 17)
  BY <1>1, <1>4, PartsJoin
<1>6. Part(((Opening \o print) \o Closing) \o Cleanup, ((A \cup P) \cup C) \cup D, 2, 19)
  BY <1>1, <1>5, PartsJoin
<1> QED  BY <1>2, <1>3, <1>6

\* Every command is a plan, and so is the end of a comparison.
LEMMA EveryPlan ==
    /\ \A c \in Commands : Plan(Script[c]) /\ Range(Script[c]) = ScriptSteps[c]
    /\ Plan(Cleanup) /\ Range(Cleanup) = {Do("destroy", "copy"), Do("destroy", "snapshot_copy")}
<1>0. Commands = {"list", "list_per_callstack", "create", "destroy", "compare", "compare_per_callstack"}
  BY DEF Commands, Script
<1>1. ASSUME NEW s, NEW L, NEW lo, NEW hi, Part(s, L, lo, hi), Complete(L)
      PROVE  Plan(s) /\ Range(s) = L
  BY <1>1 DEF Part, Plan
<1>2. Plan(Cleanup) /\ Range(Cleanup) = {Do("destroy", "copy"), Do("destroy", "snapshot_copy")}
  <2> DEFINE L == {Do("destroy", "copy"), Do("destroy", "snapshot_copy")}
  <2>1. Complete(L)
    BY DoIs, CopiesAre DEF Complete
  <2>2. Part(Cleanup, L, 18, 19)
    BY CleanupPart
  <2> HIDE DEF L
  <2>3. Plan(Cleanup) /\ Range(Cleanup) = L
    BY <1>1, <2>1, <2>2
  <2> QED  BY <2>3 DEF L
<1>3. Plan(Script["list"]) /\ Range(Script["list"]) = ScriptSteps["list"]
  <2>1. Complete(ScriptSteps["list"])
    BY DoIs, CopiesAre DEF Complete, ScriptSteps
  <2>2. Part(Script["list"], ScriptSteps["list"], 2, 18)
    BY ListPart DEF ScriptSteps
  <2> QED  BY <1>1, <2>1, <2>2
<1>4. Plan(Script["list_per_callstack"]) /\ Range(Script["list_per_callstack"]) = ScriptSteps["list_per_callstack"]
  <2>1. Complete(ScriptSteps["list_per_callstack"])
    BY DoIs, CopiesAre DEF Complete, ScriptSteps
  <2>2. Part(Script["list_per_callstack"], ScriptSteps["list_per_callstack"], 2, 18)
    BY ListPerCallstackPart DEF ScriptSteps
  <2> QED  BY <1>1, <2>1, <2>2
<1>5. Plan(Script["create"]) /\ Range(Script["create"]) = ScriptSteps["create"]
  <2>1. Complete(ScriptSteps["create"])
    BY DoIs, CopiesAre DEF Complete, ScriptSteps
  <2>2. Part(Script["create"], ScriptSteps["create"], 18, 20)
    BY CreatePart DEF ScriptSteps
  <2> QED  BY <1>1, <2>1, <2>2
<1>6. Plan(Script["destroy"]) /\ Range(Script["destroy"]) = ScriptSteps["destroy"]
  <2>1. Complete(ScriptSteps["destroy"])
    BY DoIs, CopiesAre DEF Complete, ScriptSteps
  <2>2. Part(Script["destroy"], ScriptSteps["destroy"], 18, 18)
    BY DestroyPart DEF ScriptSteps
  <2> QED  BY <1>1, <2>1, <2>2
<1>7. Plan(Script["compare"]) /\ Range(Script["compare"]) = ScriptSteps["compare"]
  <2>1. Complete(ScriptSteps["compare"])
    BY DoIs, CopiesAre DEF Complete, ScriptSteps, CompareSteps
  <2>2. Part(Script["compare"], ScriptSteps["compare"], 2, 19)
    <3> DEFINE print == <<Do("print", "copy"), Do("print", "snapshot_copy")>>
               P == {Do("print", "copy"), Do("print", "snapshot_copy")}
    <3>1. Part(print, P, 10, 11)
      BY PrintPart
    <3>2. Script["compare"] = Compare(print) /\ ScriptSteps["compare"] = CompareSteps \cup P
      BY DEF Script, ScriptSteps
    <3> HIDE DEF print, P
    <3> QED  BY <3>1, <3>2, ComparePart
  <2> QED  BY <1>1, <2>1, <2>2
<1>8. Plan(Script["compare_per_callstack"]) /\ Range(Script["compare_per_callstack"]) = ScriptSteps["compare_per_callstack"]
  <2>1. Complete(ScriptSteps["compare_per_callstack"])
    BY DoIs, CopiesAre DEF Complete, ScriptSteps, CompareSteps
  <2>2. Part(Script["compare_per_callstack"], ScriptSteps["compare_per_callstack"], 2, 19)
    <3> DEFINE print == <<Do("print_callstacks", "copy")>>
               P == {Do("print_callstacks", "copy")}
    <3>1. Part(print, P, 12, 12)
      BY PrintCallstacksPart
    <3>2. /\ Script["compare_per_callstack"] = Compare(print)
          /\ ScriptSteps["compare_per_callstack"] = CompareSteps \cup P
      BY DEF Script, ScriptSteps
    <3> HIDE DEF print, P
    <3> QED  BY <3>1, <3>2, ComparePart
  <2> QED  BY <1>1, <2>1, <2>2
<1> QED  BY <1>0, <1>2, <1>3, <1>4, <1>5, <1>6, <1>7, <1>8

-----------------------------------------------------------------------------
(* The inductive invariant *)

\* Where the records of a table begin.
First(k) == IF On("destroy") /\ Table = k /\ at = "walk" THEN cursor ELSE head[k]

\* The records that the walk of the worker still has before it.
Ahead == Reached(cursor, hash_next)

BlockSet == [ptr : Ptrs, size : Sizes, allocator : Callstacks]

Types ==
    /\ used \subseteq Recs
    /\ ptrOf \in [Recs -> Ptrs \cup {NULL}]
    /\ sizeOf \in [Recs -> Nat]
    /\ allocator \in [Recs -> Callstacks \cup {NULL}]
    /\ hash_next \in [Recs -> Recs \cup {NULL}]
    /\ head \in [Tables -> Recs \cup {NULL}]
    /\ same_callstack_group_prev \in [Recs -> Recs \cup {NULL}]
    /\ same_callstack_group_next \in [Recs -> Recs \cup {NULL}]
    /\ group \in [Callstacks -> [Links -> Recs \cup {NULL}]]
    /\ ptr_mtx \in BOOLEAN
    /\ apc \in [Threads -> {"idle", "add", "put"}]
    /\ arec \in [Threads -> Recs \cup {NULL}]
    /\ at \in {"start", "walk", "free", "pair", "advance"}
    /\ cursor \in Recs \cup {NULL}
    /\ lagging \subseteq Recs
    /\ adds \in 0..MaxAdds /\ oom \in 0..MaxOom
    /\ whole \in BOOLEAN

\* Where the worker is tells what it has in hand.
Places ==
    /\ Plan(todo)
    /\ at = "start" => cursor = NULL /\ lagging = {} /\ ~ptr_mtx
    /\ at = "walk" =>
        /\ On("duplicate") \/ On("destroy") \/ On("link")
        /\ ptr_mtx <=> ~On("link")
        /\ ~On("destroy") => lagging = {}
    /\ at \in {"free", "pair", "advance"} => On("offset") /\ ~ptr_mtx
    /\ at = "pair" => lagging = {} /\ cursor # NULL
    /\ at = "advance" => cursor # NULL

\* Every table is a chain of records; no record is in two places.
Chains == \A k \in Tables : Owned(k) \subseteq Recs /\ IsChain(First(k), hash_next, Owned(k), NULL)

Busy == {t \in Threads : apc[t] # "idle"}

Apart ==
    /\ \A j, k \in Tables : j # k => Owned(j) \cap Owned(k) = {}
    /\ \A k \in Tables : Owned(k) \cap (Held \cup lagging) = {}
    /\ Held \cap lagging = {}
    /\ \A t \in Busy : arec[t] \in Recs
    /\ \A t, u \in Busy : arec[t] = arec[u] => t = u

Accounted == used = (UNION {Owned(k) : k \in Tables}) \cup Held \cup lagging

\* A record of a table describes a block.
Filled == \A k \in Tables : \A r \in Owned(k) : Block(r) \in BlockSet

\* What a walk has before it is in its table.
Walks ==
    /\ On("duplicate") /\ at = "walk" =>
        IsChain(cursor, hash_next, Ahead, NULL) /\ Ahead \subseteq Owned(Source[Table])
    /\ On("link") /\ at = "walk" =>
        IsChain(cursor, hash_next, Ahead, NULL) /\ Ahead \subseteq Owned(Table)
    /\ at \in {"free", "pair"} => cursor \in Owned("copy") \cup {NULL}
    /\ at = "advance" =>
        \/ cursor \in Owned("copy")
        \/ cursor \in lagging /\ hash_next[cursor] \in Owned("copy") \cup {NULL}

\* No two blocks of the program have one address; so do their copies, once the
\* tables to compare have been copied into empty ones.
FreshCopy(k) == IF k = "snapshot" THEN Do("destroy", "snapshot") \notin Left
                                  ELSE Do("offset", "copy") \in Left
Distinct(k) == \A r, q \in Owned(k) : ptrOf[r] = ptrOf[q] => r = q

Unique ==
    /\ Distinct("alloc") /\ Distinct("snapshot")
    /\ Do("offset", "copy") \in Left => \A k \in Copies : Distinct(k)
    /\ \A k \in Copies \cup {"snapshot"} :
        Do("duplicate", k) \in Left /\ FreshCopy(k) =>
            IF On("duplicate") /\ Table = k /\ at = "walk"
            THEN \A q \in Owned(k), r \in Ahead : ptrOf[q] # ptrOf[r]
            ELSE head[k] = NULL

\* The lists of the blocks of a callstack, in both directions.
Doubly(first, next, prev, S) ==
    /\ IsChain(first, next, S, NULL)
    /\ \A r \in S : IF r = first THEN prev[r] = NULL ELSE prev[r] \in S /\ next[prev[r]] = r

\* The records of a copy that have been linked.
Listed(k) ==
    IF Do("link", k) \notin Left THEN Owned(k)
    ELSE IF On("link") /\ Table = k /\ at = "walk" THEN Owned(k) \ Ahead
    ELSE {}

Lists ==
    \A k \in Copies : Do("reset", k) \in Left =>
        \A c \in Callstacks :
            Doubly(group[c][LINK[k]], same_callstack_group_next, same_callstack_group_prev,
                   {r \in Listed(k) : allocator[r] = c})

Records == Chains /\ Apart /\ Accounted /\ Filled
Shape == Places /\ Records /\ Walks /\ Unique /\ Lists
IInv == Types /\ Shape

-----------------------------------------------------------------------------
(* Chains, walks and lists *)

LEMMA TableNames ==
    /\ Tables = {"alloc", "copy", "snapshot", "snapshot_copy"} /\ Copies = {"copy", "snapshot_copy"}
    /\ Links = {"LINK_CURRENT", "LINK_SNAPSHOT"}
    /\ LINK["copy"] = "LINK_CURRENT" /\ LINK["snapshot_copy"] = "LINK_SNAPSHOT"
    /\ Source["copy"] = "alloc" /\ Source["snapshot"] = "alloc" /\ Source["snapshot_copy"] = "snapshot"
  BY DEF Tables, Copies, Links, LINK, Source

LEMMA ChainTail ==
    ASSUME NEW first, NEW link, NEW S, NEW null, IsChain(first, link, S, null), null \notin S, first # null
    PROVE  first \in S /\ IsChain(link[first], link, S \ {first}, null)
<1>1. first \in S /\ \A x \in S : link[x] \in S \cup {null}
  BY ChainLinks
<1>2. \A x \in S \ {first} : link[x] # first
  <2>1. ASSUME NEW x \in S, link[x] = first PROVE FALSE
    <3>1. link[x] \in S
      BY <1>1, <2>1
    <3>2. link[x] # first
      BY <3>1, ChainInjective
    <3> QED  BY <2>1, <3>2
  <2> QED  BY <2>1
<1>3. \A x \in S \ {first} : link[x] = IF link[x] = first THEN link[first] ELSE link[x]
  BY <1>2
<1>4. link[first] = IF first = first THEN link[first] ELSE first
  OBVIOUS
<1> QED  BY <1>1, <1>3, <1>4, ChainRemove

LEMMA FirstOwned == \A k \in Tables : Owned(k) = Reached(First(k), hash_next)
  BY DEF Owned, First, Members

LEMMA FirstTyped == ASSUME Types, NEW k \in Tables PROVE First(k) \in Recs \cup {NULL}
  BY DEF Types, First

LEMMA OwnedIs ==
    ASSUME NEW k \in Tables, NEW S \in SUBSET Recs, First(k)' \in Recs \cup {NULL},
           IsChain(First(k)', hash_next', S, NULL)
    PROVE  /\ Owned(k)' = S /\ Owned(k)' \subseteq Recs
           /\ IsChain(First(k)', hash_next', Owned(k)', NULL)
<1>1. Owned(k)' = Reached(First(k)', hash_next')
  BY DEF Owned, First, Members
<1>2. Reached(First(k)', hash_next') = S
  BY ReachedIs
<1> QED  BY <1>1, <1>2

LEMMA OwnedKept ==
    ASSUME Types, Chains, NEW k \in Tables, First(k)' = First(k),
           \A x \in Owned(k) : hash_next'[x] = hash_next[x]
    PROVE  /\ Owned(k)' = Owned(k) /\ Owned(k)' \subseteq Recs
           /\ IsChain(First(k)', hash_next', Owned(k)', NULL)
<1>1. Owned(k) \in SUBSET Recs /\ IsChain(First(k), hash_next, Owned(k), NULL)
  BY DEF Chains
<1>2. IsChain(First(k), hash_next', Owned(k), NULL)
  BY <1>1, ChainSame
<1>3. First(k)' \in Recs \cup {NULL}
  BY FirstTyped
<1> QED  BY <1>1, <1>2, <1>3, OwnedIs

\* What is ahead of a walk.
LEMMA AheadIs ==
    ASSUME NEW S \in SUBSET Recs, cursor' \in Recs \cup {NULL}, IsChain(cursor', hash_next', S, NULL)
    PROVE  Ahead' = S /\ IsChain(cursor', hash_next', Ahead', NULL)
<1>1. Reached(cursor', hash_next') = S
  BY ReachedIs
<1> QED  BY <1>1 DEF Ahead

LEMMA AheadKept ==
    ASSUME cursor \in Recs \cup {NULL}, Ahead \subseteq Recs, IsChain(cursor, hash_next, Ahead, NULL),
           cursor' = cursor, \A x \in Ahead : hash_next'[x] = hash_next[x]
    PROVE  Ahead' = Ahead /\ IsChain(cursor', hash_next', Ahead', NULL)
<1>1. Ahead \in SUBSET Recs /\ IsChain(cursor', hash_next', Ahead, NULL)
  BY ChainSame
<1> QED  BY <1>1, AheadIs

\* A table that is not being given back is what its head leads to.
LEMMA FirstIsHead ==
    ASSUME NEW k \in Tables, ~(On("destroy") /\ at = "walk" /\ Table = k)
    PROVE  First(k) = head[k] /\ Owned(k) = Members(k)
  BY DEF First, Owned

LEMMA EmptyTable ==
    ASSUME Chains, NEW k \in Tables, First(k) = NULL
    PROVE  Owned(k) = {}
<1>1. IsChain(NULL, hash_next, Owned(k), NULL) /\ NULL \notin Owned(k)
  BY RecsNotNull DEF Chains
<1> QED  BY <1>1, ChainOfNull

\* Lists in both directions.
LEMMA DoublyEmpty == ASSUME NEW next, NEW prev PROVE Doubly(NULL, next, prev, {})
  BY ChainEmpty DEF Doubly

LEMMA DoublySame ==
    ASSUME NEW first, NEW next, NEW prev, NEW S, Doubly(first, next, prev, S),
           NEW next2, NEW prev2, \A r \in S : next2[r] = next[r] /\ prev2[r] = prev[r]
    PROVE  Doubly(first, next2, prev2, S)
<1>1. IsChain(first, next2, S, NULL)
  BY ChainSame DEF Doubly
<1> QED  BY <1>1 DEF Doubly

\* A record before the first.
LEMMA DoublyPrepend ==
    ASSUME NEW first, NEW next, NEW prev, NEW S, NULL \notin S, Doubly(first, next, prev, S),
           NEW r, r \notin S, NEW next2, NEW prev2,
           next2[r] = first, prev2[r] = NULL,
           \A q \in S : next2[q] = next[q] /\ prev2[q] = IF q = first THEN r ELSE prev[q]
    PROVE  Doubly(r, next2, prev2, S \cup {r})
<1>1. IsChain(r, next2, S \cup {r}, NULL)
  BY ChainPrepend DEF Doubly
<1>2. ASSUME NEW q \in S PROVE prev2[q] \in S \cup {r} /\ next2[prev2[q]] = q
  <2>1. CASE q = first
    BY <2>1
  <2>2. CASE q # first
    <3>1. prev2[q] = prev[q] /\ prev[q] \in S /\ next[prev[q]] = q
      BY <2>2 DEF Doubly
    <3> QED  BY <3>1
  <2> QED  BY <2>1, <2>2
<1> QED  BY <1>1, <1>2 DEF Doubly

\* __unlink_memblk_from_callstack on a list.
Unlinked(first, next, prev, S, r, first2, next2, prev2) ==
    /\ first2 = IF prev[r] = NULL THEN next[r] ELSE first
    /\ \A q \in S : next2[q] = IF q = prev[r] THEN next[r] ELSE next[q]
    /\ \A q \in S : prev2[q] = IF q = next[r] THEN prev[r] ELSE prev[q]

LEMMA DoublyRemove ==
    ASSUME NEW first, NEW next, NEW prev, NEW S, NULL \notin S, Doubly(first, next, prev, S),
           NEW r \in S, NEW first2, NEW next2, NEW prev2,
           Unlinked(first, next, prev, S, r, first2, next2, prev2)
    PROVE  Doubly(first2, next2, prev2, S \ {r})
<1>a. /\ first2 = IF prev[r] = NULL THEN next[r] ELSE first
      /\ \A q \in S : next2[q] = IF q = prev[r] THEN next[r] ELSE next[q]
      /\ \A q \in S : prev2[q] = IF q = next[r] THEN prev[r] ELSE prev[q]
  BY DEF Unlinked
<1>0. IsChain(first, next, S, NULL)
  BY DEF Doubly
<1>1. first \in S \cup {NULL} /\ \A q \in S : next[q] \in S \cup {NULL}
  BY <1>0, ChainLinks
<1>2. \A x, q \in S : next[x] = next[q] /\ next[x] \in S => x = q
  BY <1>0, ChainInjective
<1>3. \A x \in S : next[x] \in S => next[x] # first
  BY <1>0, ChainInjective
<1>4. prev[r] = NULL <=> r = first
  BY DEF Doubly
<1>5. first2 = IF first = r THEN next[r] ELSE first
  BY <1>4, <1>a
<1>6. \A q \in S : (q = prev[r]) <=> (next[q] = r)
  <2>1. ASSUME NEW q \in S, q = prev[r] PROVE next[q] = r
    BY <2>1 DEF Doubly
  <2>2. ASSUME NEW q \in S, next[q] = r PROVE q = prev[r]
    <3>1. r # first
      BY <1>3, <2>2
    <3>2. prev[r] \in S /\ next[prev[r]] = r
      BY <3>1 DEF Doubly
    <3> QED  BY <1>2, <2>2, <3>2
  <2> QED  BY <2>1, <2>2
<1>7. \A q \in S \ {r} : next2[q] = IF next[q] = r THEN next[r] ELSE next[q]
  BY <1>6, <1>a
<1>8. IsChain(first2, next2, S \ {r}, NULL)
  BY <1>0, <1>5, <1>7, ChainRemove
<1>9. ASSUME NEW q \in S \ {r}
      PROVE  IF q = first2 THEN prev2[q] = NULL ELSE prev2[q] \in S \ {r} /\ next2[prev2[q]] = q
  <2>0. q # NULL
    OBVIOUS
  <2>1. CASE q = next[r] /\ r = first
    BY <1>4, <1>5, <1>a, <2>1
  <2>2. CASE q = next[r] /\ r # first
    <3>1. prev2[q] = prev[r] /\ prev[r] \in S /\ next[prev[r]] = r
      BY <1>a, <2>2 DEF Doubly
    <3>2. next2[prev[r]] = next[r]
      BY <1>a, <3>1
    <3>3. prev[r] # r
      <4>1. ASSUME prev[r] = r PROVE FALSE
        <5>1. next[r] = r
          BY <3>1, <4>1
        <5> QED  BY <2>2, <5>1
      <4> QED  BY <4>1
    <3>4. q # first2
      BY <1>3, <1>5, <2>2
    <3> QED  BY <2>2, <3>1, <3>2, <3>3, <3>4
  <2>3. CASE q # next[r]
    <3>1. prev2[q] = prev[q]
      BY <1>a, <2>3
    <3>2. CASE q = first
      <4>1. first2 = first
        BY <1>5, <3>2
      <4> QED  BY <3>1, <3>2, <4>1 DEF Doubly
    <3>3. CASE q # first
      <4>1. prev[q] \in S /\ next[prev[q]] = q
        BY <3>3 DEF Doubly
      <4>2. prev[q] # r
        BY <2>3, <4>1
      <4>3. next2[prev[q]] = q
        <5>1. prev[q] # prev[r]
          <6>1. ASSUME prev[q] = prev[r] PROVE FALSE
            <7>1. next[prev[q]] = r
              BY <1>6, <4>1, <6>1
            <7> QED  BY <4>1, <7>1
          <6> QED  BY <6>1
        <5> QED  BY <1>a, <4>1, <5>1
      <4>4. q # first2
        BY <1>5, <2>3, <3>3
      <4> QED  BY <3>1, <4>1, <4>2, <4>3, <4>4
    <3> QED  BY <3>2, <3>3
  <2> QED  BY <2>1, <2>2, <2>3
<1> QED  BY <1>8, <1>9 DEF Doubly

-----------------------------------------------------------------------------
(* What the pool and the tables do *)

\* The fields of the records of S are kept; of every record but those of S.
KeptOn(S) ==
    \A r \in S :
        /\ ptrOf'[r] = ptrOf[r] /\ sizeOf'[r] = sizeOf[r] /\ allocator'[r] = allocator[r]
        /\ hash_next'[r] = hash_next[r]
        /\ same_callstack_group_prev'[r] = same_callstack_group_prev[r]
        /\ same_callstack_group_next'[r] = same_callstack_group_next[r]
KeptBut(S) == KeptOn(Recs \ S)

\* The records of S go on to describe their blocks; table k stays as it is.
SameBlocks(S) == \A r \in S : Block(r)' = Block(r)
SameTable(k) == Owned(k)' = Owned(k) /\ SameBlocks(Owned(k))

FieldTypes ==
    /\ ptrOf \in [Recs -> Ptrs \cup {NULL}]
    /\ sizeOf \in [Recs -> Nat]
    /\ allocator \in [Recs -> Callstacks \cup {NULL}]
    /\ hash_next \in [Recs -> Recs \cup {NULL}]
    /\ same_callstack_group_prev \in [Recs -> Recs \cup {NULL}]
    /\ same_callstack_group_next \in [Recs -> Recs \cup {NULL}]

LEMMA ReleaseKeeps ==
    ASSUME Types, NEW S \in SUBSET Recs, Release(S)
    PROVE  used' = used \ S /\ KeptBut(S) /\ FieldTypes'
<1>1. used' = used \ S
  BY DEF Release
<1>2. KeptBut(S)
  BY DEF Release, KeptBut, KeptOn
<1>3. FieldTypes'
  BY DEF Release, FieldTypes, Types
<1> QED  BY <1>1, <1>2, <1>3

LEMMA AllocateFree ==
    ASSUME Types, NEW r \in Recs, Allocate(r)
    PROVE  r \notin used /\ used' = used \cup {r}
  BY SnapshotAssumption DEF Allocate, Types

\* The records of gone leave the tables.
Gone(gone, found) ==
    /\ DOMAIN gone \subseteq Tables
    /\ found = {k \in DOMAIN gone : gone[k] # NULL}
    /\ \A k \in found : gone[k] \in Owned(k) /\ First(k) = head[k]

LEMMA RemoveKeeps ==
    ASSUME Types, Chains, Apart, NEW gone, NEW found, Gone(gone, found), Remove(gone)
    PROVE  /\ \A k \in Tables : head'[k] = IF k \in found /\ head[k] = gone[k]
                                           THEN hash_next[gone[k]] ELSE head[k]
           /\ \A k \in found : \A x \in Owned(k) :
                hash_next'[x] = IF hash_next[x] = gone[k] THEN hash_next[gone[k]] ELSE hash_next[x]
           /\ \A x \in Recs : (\A k \in found : x \notin Owned(k)) => hash_next'[x] = hash_next[x]
           /\ hash_next' \in [Recs -> Recs \cup {NULL}] /\ head' \in [Tables -> Recs \cup {NULL}]
<1> DEFINE before == {q \in UNION {Members(k) : k \in found} : \E k \in found : hash_next[q] = gone[k]}
<1>1. found = {k \in DOMAIN gone : gone[k] # NULL}
  BY DEF Gone
<1>2. /\ head' = [k \in Tables |-> IF k \in found /\ head[k] = gone[k]
                                    THEN hash_next[gone[k]] ELSE head[k]]
      /\ hash_next' = [q \in Recs |->
            IF q \in before THEN hash_next[hash_next[q]] ELSE hash_next[q]]
  BY <1>1 DEF Remove
<1>3. \A k \in found : k \in Tables /\ gone[k] \in Owned(k) /\ Members(k) = Owned(k) /\ gone[k] # NULL
  <2>1. ASSUME NEW k \in found PROVE k \in Tables /\ First(k) = head[k]
    BY DEF Gone
  <2>2. \A k \in found : Owned(k) = Members(k)
    BY <2>1, FirstOwned DEF Members
  <2> QED  BY <1>1, <2>1, <2>2 DEF Gone
<1>4. \A k \in Tables : Owned(k) \subseteq Recs /\ \A x \in Owned(k) : hash_next[x] \in Owned(k) \cup {NULL}
  <2>1. ASSUME NEW k \in Tables
        PROVE  Owned(k) \subseteq Recs /\ \A x \in Owned(k) : hash_next[x] \in Owned(k) \cup {NULL}
    <3>1. Owned(k) \subseteq Recs /\ IsChain(First(k), hash_next, Owned(k), NULL)
      BY DEF Chains
    <3> QED  BY <3>1, ChainLinks
  <2> QED  BY <2>1
<1>5. before = {q \in UNION {Owned(k) : k \in found} : \E k \in found : hash_next[q] = gone[k]}
  BY <1>3
<1> HIDE DEF before
<1>6. ASSUME NEW k \in found, NEW x \in Owned(k)
      PROVE  (x \in before) <=> (hash_next[x] = gone[k])
  <2>1. ASSUME NEW j \in found, hash_next[x] = gone[j] PROVE j = k
    <3>1. hash_next[x] \in Owned(k) /\ hash_next[x] \in Owned(j) /\ j \in Tables /\ k \in Tables
      BY <1>3, <1>4, <2>1
    <3> QED  BY <3>1 DEF Apart
  <2> QED  BY <1>5, <2>1
<1>7. ASSUME NEW k \in found, NEW x \in Owned(k)
      PROVE  hash_next'[x] = IF hash_next[x] = gone[k] THEN hash_next[gone[k]] ELSE hash_next[x]
  <2>1. x \in Recs
    BY <1>3, <1>4
  <2> QED  BY <1>2, <1>6, <2>1
<1>8. ASSUME NEW x \in Recs, \A k \in found : x \notin Owned(k) PROVE hash_next'[x] = hash_next[x]
  <2>1. x \notin before
    BY <1>5, <1>8
  <2> QED  BY <1>2, <2>1
<1>9. hash_next' \in [Recs -> Recs \cup {NULL}]
  <2>1. ASSUME NEW x \in Recs, x \in before PROVE hash_next[hash_next[x]] \in Recs \cup {NULL}
    <3>1. hash_next[x] \in Recs
      BY <1>3, <1>4, <1>5, <2>1
    <3> QED  BY <3>1 DEF Types
  <2>2. \A x \in Recs : hash_next[x] \in Recs \cup {NULL}
    BY DEF Types
  <2> QED  BY <1>2, <2>1, <2>2
<1>10. head' \in [Tables -> Recs \cup {NULL}]
  <2>1. ASSUME NEW k \in found PROVE hash_next[gone[k]] \in Recs \cup {NULL}
    BY <1>3, <1>4 DEF Types
  <2>2. \A k \in Tables : head[k] \in Recs \cup {NULL}
    BY DEF Types
  <2> QED  BY <1>2, <2>1, <2>2
<1> QED  BY <1>2, <1>7, <1>8, <1>9, <1>10

LEMMA RemoveOwned ==
    ASSUME Types, Chains, Apart, NEW gone, NEW found, Gone(gone, found), Remove(gone),
           \A k \in Tables : First(k) = head[k] /\ First(k)' = head'[k]
    PROVE  \A k \in Tables :
            /\ Owned(k)' = IF k \in found THEN Owned(k) \ {gone[k]} ELSE Owned(k)
            /\ Owned(k)' \subseteq Recs /\ IsChain(First(k)', hash_next', Owned(k)', NULL)
<1>1. \A k \in Tables : head'[k] = IF k \in found /\ head[k] = gone[k] THEN hash_next[gone[k]] ELSE head[k]
  BY RemoveKeeps
<1>2. \A k \in found : \A x \in Owned(k) :
        hash_next'[x] = IF hash_next[x] = gone[k] THEN hash_next[gone[k]] ELSE hash_next[x]
  BY RemoveKeeps
<1>3. \A x \in Recs : (\A k \in found : x \notin Owned(k)) => hash_next'[x] = hash_next[x]
  BY RemoveKeeps
<1>4. head' \in [Tables -> Recs \cup {NULL}]
  BY RemoveKeeps
<1>5. found \subseteq Tables /\ \A k \in found : gone[k] \in Owned(k)
  BY DEF Gone
<1>6. \A k \in Tables : Owned(k) \in SUBSET Recs /\ IsChain(First(k), hash_next, Owned(k), NULL)
  BY DEF Chains
<1>7. ASSUME NEW k \in found
      PROVE  /\ Owned(k)' = Owned(k) \ {gone[k]}
             /\ Owned(k)' \subseteq Recs /\ IsChain(First(k)', hash_next', Owned(k)', NULL)
  <2>1. k \in Tables /\ gone[k] \in Owned(k) /\ NULL \notin Owned(k)
    BY <1>5, <1>6, RecsNotNull
  <2>2. IsChain(head[k], hash_next, Owned(k), NULL)
    BY <1>6, <2>1
  <2>3. head'[k] = IF head[k] = gone[k] THEN hash_next[gone[k]] ELSE head[k]
    BY <1>1, <2>1
  <2>4. \A x \in Owned(k) \ {gone[k]} :
            hash_next'[x] = IF hash_next[x] = gone[k] THEN hash_next[gone[k]] ELSE hash_next[x]
    BY <1>2
  <2>5. IsChain(head'[k], hash_next', Owned(k) \ {gone[k]}, NULL)
    BY <2>1, <2>2, <2>3, <2>4, ChainRemove
  <2>6. First(k)' = head'[k] /\ First(k)' \in Recs \cup {NULL} /\ Owned(k) \ {gone[k]} \in SUBSET Recs
    BY <1>4, <1>6, <2>1
  <2> QED  BY <2>1, <2>5, <2>6, OwnedIs
<1>8. ASSUME NEW k \in Tables, k \notin found
      PROVE  /\ Owned(k)' = Owned(k)
             /\ Owned(k)' \subseteq Recs /\ IsChain(First(k)', hash_next', Owned(k)', NULL)
  <2>1. First(k)' = First(k)
    BY <1>1, <1>8
  <2>2. ASSUME NEW x \in Owned(k) PROVE hash_next'[x] = hash_next[x]
    <3>1. x \in Recs /\ \A j \in found : x \notin Owned(j)
      BY <1>5, <1>6, <1>8 DEF Apart
    <3> QED  BY <1>3, <3>1
  <2> QED  BY <2>1, <2>2, OwnedKept
<1> QED  BY <1>7, <1>8

-----------------------------------------------------------------------------
(* The step of the command that the worker is at *)

LEMMA AtHead ==
    ASSUME Plan(todo), todo # <<>>
    PROVE  /\ Head(todo) \in Known /\ Head(todo) \in Left /\ Head(todo) = Do(Head(todo).op, Table)
           /\ \A x \in Left : x \in Known /\ (x = Head(todo) \/ Rank(Head(todo)) < Rank(x))
           /\ Plan(Tail(todo)) /\ Range(Tail(todo)) = Left \ {Head(todo)}
<1>1. /\ Head(todo) \in Known /\ Head(todo) \in Range(todo) /\ Plan(Tail(todo))
      /\ Range(Tail(todo)) = Range(todo) \ {Head(todo)}
      /\ \A x \in Range(todo) : x \in Known /\ (x = Head(todo) \/ Rank(Head(todo)) < Rank(x))
  BY PlanTail
<1>2. Head(todo) = Do(Head(todo).op, Table)
  BY <1>1, KnownSteps DEF Table
<1> QED  BY <1>1, <1>2 DEF Left

LEMMA OnIs ==
    ASSUME Plan(todo), NEW op, On(op)
    PROVE  /\ todo # <<>> /\ Head(todo) = Do(op, Table) /\ Do(op, Table) \in Known /\ Do(op, Table) \in Left
           /\ \A p : On(p) => p = op
           /\ \A x \in Left : x = Do(op, Table) \/ Rank(Do(op, Table)) < Rank(x)
<1>1. todo # <<>> /\ Head(todo).op = op
  BY DEF On
<1>2. Head(todo) = Do(op, Table)
  BY <1>1, AtHead
<1>3. \A p : On(p) => p = op
  BY <1>1 DEF On
<1> QED  BY <1>1, <1>2, <1>3, AtHead

\* The tables each operation is for, and what is then over.
LEMMA DoKnown ==
    /\ \A k : Do("duplicate", k) \in Known => k \in {"copy", "snapshot", "snapshot_copy"}
    /\ \A k : Do("destroy", k) \in Known => k \in {"copy", "snapshot", "snapshot_copy"}
    /\ \A k : Do("link", k) \in Known => k \in Copies
    /\ \A k : Do("reset", k) \in Known => k \in Copies
    /\ \A k : Do("offset", k) \in Known => k = "copy"
    /\ \A k : Do("print_callstacks", k) \in Known => k = "copy"
    /\ \A k : Do("init_maps", k) \in Known => k = "copy"
    /\ \A k : Do("term_maps", k) \in Known => k = "copy"
  BY DEF Known, Do

LEMMA OnDuplicate ==
    ASSUME Plan(todo), On("duplicate")
    PROVE  /\ Table \in {"copy", "snapshot", "snapshot_copy"} /\ Source[Table] \in Tables \ {Table}
           /\ Table = "snapshot" => Do("destroy", "snapshot") \notin Left
           /\ Table = "snapshot" => Do("offset", "copy") \notin Left
           /\ \A k \in Copies : Do("reset", k) \in Left => Do("link", k) \in Left
           /\ ~On("destroy") /\ ~On("link") /\ ~On("offset")
<1>0. Table \in {"copy", "snapshot", "snapshot_copy"}
  BY OnIs, DoKnown
<1>1. Source[Table] \in Tables \ {Table}
  BY <1>0, TableNames
<1>2. ~On("destroy") /\ ~On("link") /\ ~On("offset")
  BY OnIs
<1>3. ASSUME Table = "snapshot"
      PROVE  /\ Do("destroy", "snapshot") \notin Left /\ Do("offset", "copy") \notin Left
             /\ \A k \in Copies : Do("reset", k) \notin Left
  <2>1. \A x \in Left : x = Do("duplicate", "snapshot") \/ 20 < Rank(x)
    BY <1>3, OnIs, Ranks
  <2> QED  BY <2>1, Ranks, TableNames, DoIs
<1>4. ASSUME NEW k \in Copies, Do("reset", k) \in Left PROVE Do("link", k) \in Left
  <2>1. Table \in Copies
    BY <1>0, <1>3, <1>4, TableNames
  <2> QED  BY <1>4, <2>1, OnIs DEF Plan, Complete, Left
<1> QED  BY <1>0, <1>1, <1>2, <1>3, <1>4

LEMMA OnDestroy ==
    ASSUME Plan(todo), On("destroy")
    PROVE  /\ Table \in {"copy", "snapshot", "snapshot_copy"}
           /\ Do("offset", "copy") \notin Left
           /\ \A k \in Copies : Do("reset", k) \notin Left /\ Do("link", k) \notin Left
                                /\ Do("duplicate", k) \notin Left
           /\ ~On("duplicate") /\ ~On("link") /\ ~On("offset")
<1>0. Table \in {"copy", "snapshot", "snapshot_copy"}
  BY OnIs, DoKnown
<1>1. ~On("duplicate") /\ ~On("link") /\ ~On("offset")
  BY OnIs
<1>2. \A x \in Left : x = Do("destroy", Table) \/ 18 < Rank(x)
  <2>1. Rank(Do("destroy", Table)) \in {18, 19}
    BY <1>0, Ranks
  <2>2. ASSUME NEW x \in Left, x # Do("destroy", Table) PROVE 18 < Rank(x)
    <3>1. Rank(Do("destroy", Table)) < Rank(x) /\ Rank(x) \in Nat
      BY <2>2, OnIs, AtHead, KnownSteps
    <3> QED  BY <2>1, <3>1
  <2> QED  BY <2>2
<1>3. Do("offset", "copy") \notin Left
  BY <1>2, Ranks, DoIs
<1>4. ASSUME NEW k \in Copies
      PROVE  Do("reset", k) \notin Left /\ Do("link", k) \notin Left /\ Do("duplicate", k) \notin Left
  BY <1>2, Ranks, DoIs, TableNames
<1> QED  BY <1>0, <1>1, <1>3, <1>4

LEMMA OnLink ==
    ASSUME Plan(todo), On("link")
    PROVE  /\ Table \in Copies
           /\ \A k \in Copies : Do("duplicate", k) \notin Left
           /\ ~On("duplicate") /\ ~On("destroy") /\ ~On("offset")
<1>0. Table \in Copies
  BY OnIs, DoKnown
<1>1. ~On("duplicate") /\ ~On("destroy") /\ ~On("offset")
  BY OnIs
<1>2. \A x \in Left : x = Do("link", Table) \/ 4 < Rank(x)
  <2>1. Rank(Do("link", Table)) \in {4, 5}
    BY <1>0, Ranks, TableNames
  <2>2. ASSUME NEW x \in Left, x # Do("link", Table) PROVE 4 < Rank(x)
    <3>1. Rank(Do("link", Table)) < Rank(x) /\ Rank(x) \in Nat
      BY <2>2, OnIs, AtHead, KnownSteps
    <3> QED  BY <2>1, <3>1
  <2> QED  BY <2>2
<1>3. ASSUME NEW k \in Copies PROVE Do("duplicate", k) \notin Left
  BY <1>2, Ranks, DoIs, TableNames
<1> QED  BY <1>0, <1>1, <1>3

LEMMA OnOffset ==
    ASSUME Plan(todo), On("offset")
    PROVE  /\ Table = "copy" /\ Do("offset", "copy") \in Left
           /\ \A k \in Copies : /\ Do("duplicate", k) \notin Left /\ Do("link", k) \notin Left
                                /\ Do("reset", k) \in Left
           /\ Do("init_maps", "copy") \in Left
           /\ ~On("duplicate") /\ ~On("destroy") /\ ~On("link")
<1>0. Table = "copy" /\ Do("offset", "copy") \in Left
  BY OnIs, DoKnown
<1>1. ~On("duplicate") /\ ~On("destroy") /\ ~On("link")
  BY OnIs
<1>2. \A x \in Left : x = Do("offset", "copy") \/ 6 < Rank(x)
  BY <1>0, OnIs, Ranks
<1>3. ASSUME NEW k \in Copies PROVE Do("duplicate", k) \notin Left /\ Do("link", k) \notin Left
  BY <1>2, Ranks, DoIs, TableNames
<1>4. Do("init_maps", "copy") \in Left /\ \A k \in Copies : Do("reset", k) \in Left
  BY <1>0 DEF Plan, Complete, Left
<1> QED  BY <1>0, <1>1, <1>3, <1>4

LEMMA NextOpIs ==
    ASSUME Plan(todo), todo # <<>>, todo' = Tail(todo)
    PROVE  Plan(todo') /\ Left' = Left \ {Head(todo)} /\ Head(todo) \in Left
  BY AtHead DEF Left

\* The end of a comparison.
LEMMA CleanupIs ==
    ASSUME todo' = Cleanup
    PROVE  /\ Plan(todo') /\ Left' = {Do("destroy", "copy"), Do("destroy", "snapshot_copy")}
           /\ Do("offset", "copy") \notin Left' /\ Do("duplicate", "snapshot") \notin Left'
           /\ \A k \in Copies : Do("duplicate", k) \notin Left' /\ Do("link", k) \notin Left'
                                /\ Do("reset", k) \notin Left'
<1>1. Plan(todo') /\ Left' = {Do("destroy", "copy"), Do("destroy", "snapshot_copy")}
  BY EveryPlan DEF Left
<1> QED  BY <1>1, DoIs

\* A step that moves no record.
LEMMA Steady ==
    ASSUME IInv, UNCHANGED <<pool, chains, apc, arec, lagging>>,
           \A k \in Tables : First(k)' = First(k)
    PROVE  Records' /\ \A k \in Tables : Owned(k)' = Owned(k)
<1>1. Types /\ Chains /\ Apart /\ Accounted /\ Filled
  BY DEF IInv, Shape, Records
<1>2. \A k \in Tables : /\ Owned(k)' = Owned(k) /\ Owned(k)' \subseteq Recs
                        /\ IsChain(First(k)', hash_next', Owned(k)', NULL)
  <2>1. ASSUME NEW k \in Tables
        PROVE  /\ Owned(k)' = Owned(k) /\ Owned(k)' \subseteq Recs
               /\ IsChain(First(k)', hash_next', Owned(k)', NULL)
    <3>1. \A x \in Owned(k) : hash_next'[x] = hash_next[x]
      BY DEF chains
    <3> QED  BY <1>1, <3>1, OwnedKept
  <2> QED  BY <2>1
<1>3. Chains'
  BY <1>2 DEF Chains
<1>4. Held' = Held /\ Busy' = Busy /\ lagging' = lagging
  BY DEF Held, Busy
<1>5. Apart'
  BY <1>1, <1>2, <1>4 DEF Apart
<1>6. Accounted'
  BY <1>1, <1>2, <1>4 DEF Accounted, pool
<1>7. Filled'
  BY <1>1, <1>2 DEF Filled, Block, pool
<1> QED  BY <1>2, <1>3, <1>5, <1>6, <1>7 DEF Records

-----------------------------------------------------------------------------
(* Steps of the worker that move no record *)

LEMMA IInvParts ==
    ASSUME IInv
    PROVE  /\ Types /\ Places /\ Plan(todo) /\ Chains /\ Apart /\ Accounted /\ Filled
           /\ Walks /\ Unique /\ Lists
  BY DEF IInv, Shape, Records, Places

\* An operation ends.
LEMMA NextOpQuiet ==
    ASSUME IInv, todo # <<>>, NextOp, UNCHANGED <<pool, chains, apc, arec, lagging, cursor>>,
           ~On("destroy"), cursor = NULL, lagging = {}, ~ptr_mtx'
    PROVE  /\ Places' /\ Records' /\ Walks' /\ Unique' /\ Left' = Left \ {Head(todo)}
           /\ Head(todo) \in Left
           /\ \A k \in Tables : Owned(k)' = Owned(k)
<1>1. Plan(todo') /\ Left' = Left \ {Head(todo)} /\ Head(todo) \in Left
  BY IInvParts, NextOpIs DEF NextOp
<1>2. at' = "start" /\ cursor' = NULL /\ lagging' = {}
  BY DEF NextOp
<1>3. Places'
  BY <1>1, <1>2 DEF Places
<1>4. \A k \in Tables : First(k)' = First(k)
  BY <1>2 DEF First, chains
<1>5. Records' /\ \A k \in Tables : Owned(k)' = Owned(k)
  BY <1>4, Steady
<1>6. Walks'
  BY <1>2 DEF Walks
<1>7. Unique'
  <2>0. Unique /\ \A k \in Copies \cup {"snapshot"} : k \in Tables
    BY IInvParts, TableNames
  <2>1. ASSUME NEW k \in Tables, Distinct(k) PROVE Distinct(k)'
    BY <1>5, <2>1 DEF Distinct, pool
  <2>2. Distinct("alloc")' /\ Distinct("snapshot")'
    BY <2>0, <2>1, TableNames DEF Unique
  <2>3. ASSUME Do("offset", "copy") \in Left' PROVE \A k \in Copies : Distinct(k)'
    BY <1>1, <2>0, <2>1, <2>3 DEF Unique
  <2>4. ASSUME NEW k \in Copies \cup {"snapshot"}, Do("duplicate", k) \in Left', FreshCopy(k)'
        PROVE  head'[k] = NULL
    <3>1. Do("duplicate", k) \in Left /\ Do("duplicate", k) # Head(todo)
      BY <1>1, <2>4
    <3>2. FreshCopy(k)
      <4>1. Head(todo) # Do("destroy", "snapshot")
        BY DEF On, Do
      <4> QED  BY <1>1, <2>4, <4>1 DEF FreshCopy
    <3>3. ~(On("duplicate") /\ Table = k)
      BY <3>1, IInvParts, OnIs
    <3>4. head[k] = NULL
      BY <2>0, <3>1, <3>2, <3>3 DEF Unique
    <3> QED  BY <3>4 DEF chains
  <2>5. ASSUME NEW k \in Copies \cup {"snapshot"}, Do("duplicate", k) \in Left', FreshCopy(k)'
        PROVE  IF On("duplicate")' /\ Table' = k /\ at' = "walk"
               THEN (\A q \in Owned(k), r \in Ahead : ptrOf[q] # ptrOf[r])'
               ELSE head'[k] = NULL
    BY <1>2, <2>4, <2>5
  <2> QED  BY <2>2, <2>3, <2>5 DEF Unique
<1> QED  BY <1>1, <1>3, <1>5, <1>6, <1>7

LEMMA NextOpLists ==
    ASSUME IInv, todo # <<>>, NextOp, UNCHANGED <<pool, chains, groups, apc, arec, lagging, cursor>>,
           ~On("destroy"), cursor = NULL, lagging = {}, ~ptr_mtx', On("link") => at = "walk"
    PROVE  Shape'
<1>0. /\ Places' /\ Records' /\ Walks' /\ Unique' /\ Left' = Left \ {Head(todo)}
      /\ Head(todo) \in Left /\ \A k \in Tables : Owned(k)' = Owned(k)
  BY NextOpQuiet
<1>1. ASSUME NEW k \in Copies PROVE Listed(k)' = Listed(k)
  <2>0. k \in Tables /\ at' = "start"
    BY TableNames DEF NextOp
  <2>1. CASE Do("link", k) \notin Left
    BY <1>0, <2>0, <2>1 DEF Listed
  <2>2. CASE Do("link", k) \in Left /\ Head(todo) # Do("link", k)
    <3>1. ~(On("link") /\ Table = k)
      BY <2>2, IInvParts, OnIs
    <3> QED  BY <1>0, <2>0, <2>2, <3>1 DEF Listed
  <2>3. CASE Head(todo) = Do("link", k)
    <3>1. On("link") /\ Table = k /\ at = "walk"
      BY <2>3 DEF On, Table, Do
    <3>2. IsChain(NULL, hash_next, Ahead, NULL) /\ Ahead \subseteq Recs
      BY <3>1, <2>0, IInvParts DEF Walks, Chains
    <3>3. NULL \notin Ahead
      BY <3>2, RecsNotNull
    <3>4. Ahead = {}
      BY <3>2, <3>3, ChainOfNull
    <3>5. Listed(k) = Owned(k)
      BY <1>0, <2>3, <3>1, <3>4 DEF Listed
    <3>6. Listed(k)' = Owned(k)'
      BY <1>0, <2>3 DEF Listed
    <3> QED  BY <1>0, <2>0, <3>5, <3>6
  <2> QED  BY <2>1, <2>2, <2>3
<1>2. Lists'
  <2>1. ASSUME NEW k \in Copies, Do("reset", k) \in Left', NEW c \in Callstacks
        PROVE  Doubly(group'[c][LINK[k]], same_callstack_group_next', same_callstack_group_prev',
                      {r \in Listed(k)' : allocator'[r] = c})
    <3>1. Do("reset", k) \in Left
      BY <1>0, <2>1
    <3>2. Doubly(group[c][LINK[k]], same_callstack_group_next, same_callstack_group_prev,
                 {r \in Listed(k) : allocator[r] = c})
      BY <3>1, IInvParts DEF Lists
    <3>3. /\ group' = group /\ same_callstack_group_next' = same_callstack_group_next
          /\ same_callstack_group_prev' = same_callstack_group_prev /\ allocator' = allocator
      BY DEF groups, pool
    <3> QED  BY <1>1, <3>2, <3>3
  <2> QED  BY <2>1 DEF Lists
<1> QED  BY <1>0, <1>2 DEF Shape

\* At the start of an operation, or at the end of a walk, nothing is in hand.
LEMMA InHand ==
    ASSUME IInv, todo # <<>>
    PROVE  /\ ~On("duplicate") /\ ~On("destroy") /\ ~On("link") /\ ~On("offset") => at = "start"
           /\ at = "start" => cursor = NULL /\ lagging = {} /\ ~ptr_mtx
           /\ at = "walk" /\ ~On("destroy") => lagging = {}
<1>1. Types /\ Places
  BY IInvParts
<1>2. ~On("duplicate") /\ ~On("destroy") /\ ~On("link") /\ ~On("offset") => at = "start"
  <2>1. at \in {"start", "walk", "free", "pair", "advance"}
    BY <1>1 DEF Types
  <2> QED  BY <1>1, <2>1 DEF Places
<1>3. at = "start" => cursor = NULL /\ lagging = {} /\ ~ptr_mtx
  BY <1>1 DEF Places
<1>4. at = "walk" /\ ~On("destroy") => lagging = {}
  BY <1>1 DEF Places
<1> QED  BY <1>2, <1>3, <1>4

LEMMA OnlyOn ==
    ASSUME NEW op, On(op)
    PROVE  todo # <<>> /\ \A p : On(p) => p = op
  BY DEF On

LEMMA DuplicateEndKeeps == ASSUME IInv, DuplicateEnd PROVE Shape'
<1>1. On("duplicate") /\ at = "walk" /\ cursor = NULL /\ ~ptr_mtx' /\ NextOp
  BY DEF DuplicateEnd
<1>2. UNCHANGED <<pool, chains, groups, apc, arec, lagging, cursor>>
  BY DEF DuplicateEnd, threads, walk
<1>3. todo # <<>> /\ ~On("destroy") /\ ~On("link")
  BY <1>1, OnlyOn
<1>4. lagging = {}
  BY <1>1, <1>3, InHand
<1> QED  BY <1>1, <1>2, <1>3, <1>4, NextOpLists

LEMMA LinkEndKeeps == ASSUME IInv, LinkEnd PROVE Shape'
<1>1. On("link") /\ at = "walk" /\ cursor = NULL /\ NextOp
  BY DEF LinkEnd
<1>2. UNCHANGED <<pool, chains, groups, apc, arec, lagging, cursor, ptr_mtx>>
  BY DEF LinkEnd, threads, walk
<1>3. todo # <<>> /\ ~On("destroy")
  BY <1>1, OnlyOn
<1>4. lagging = {} /\ ~ptr_mtx
  BY <1>1, <1>3, InHand, IInvParts DEF Places
<1> QED  BY <1>1, <1>2, <1>3, <1>4, NextOpLists

LEMMA PlainEnds ==
    ASSUME IInv, NEW op, On(op), op \notin {"duplicate", "destroy", "link", "offset"}, NextOp,
           UNCHANGED <<pool, chains, groups, apc, arec, lagging, cursor, ptr_mtx>>
    PROVE  Shape'
<1>1. todo # <<>> /\ ~On("duplicate") /\ ~On("destroy") /\ ~On("link") /\ ~On("offset")
  BY OnlyOn
<1>2. cursor = NULL /\ lagging = {} /\ ~ptr_mtx
  BY <1>1, InHand
<1> QED  BY <1>1, <1>2, NextOpLists

LEMMA PlainKeeps ==
    ASSUME IInv, ListBlocks \/ ListCallstacks \/ InitMaps \/ TermMaps
    PROVE  Shape'
<1>1. CASE ListBlocks
  BY <1>1, PlainEnds DEF ListBlocks, threads, walk
<1>2. CASE ListCallstacks
  BY <1>2, PlainEnds DEF ListCallstacks, threads, walk
<1>3. CASE InitMaps
  BY <1>3, PlainEnds DEF InitMaps, threads, walk
<1>4. CASE TermMaps
  BY <1>4, PlainEnds DEF TermMaps, threads, walk
<1> QED  BY <1>1, <1>2, <1>3, <1>4

LEMMA ResetKeeps == ASSUME IInv, Reset PROVE Shape'
<1>1. On("reset") /\ NextOp
  BY DEF Reset
<1>2. todo # <<>> /\ ~On("duplicate") /\ ~On("destroy") /\ ~On("link") /\ ~On("offset")
  BY <1>1, OnlyOn
<1>3. cursor = NULL /\ lagging = {} /\ ~ptr_mtx
  BY <1>2, InHand
<1>4. UNCHANGED <<pool, chains, apc, arec, lagging, cursor, ptr_mtx>>
  BY DEF Reset, threads
<1>5. /\ Places' /\ Records' /\ Walks' /\ Unique' /\ Left' = Left \ {Head(todo)}
      /\ Head(todo) \in Left /\ \A k \in Tables : Owned(k)' = Owned(k)
  BY <1>1, <1>2, <1>3, <1>4, NextOpQuiet
<1>6. Head(todo) = Do("reset", Table) /\ Table \in Copies
  BY <1>1, OnIs, DoKnown, IInvParts
<1>7. ASSUME NEW k \in Copies, Do("reset", k) \in Left', NEW c \in Callstacks
      PROVE  Doubly(group'[c][LINK[k]], same_callstack_group_next', same_callstack_group_prev',
                    {r \in Listed(k)' : allocator'[r] = c})
  <2>1. Do("reset", k) \in Left /\ k # Table
    BY <1>5, <1>6, <1>7
  <2>2. LINK[k] # LINK[Table] /\ LINK[k] \in Links
    BY <1>6, <2>1, TableNames
  <2>3. group'[c][LINK[k]] = group[c][LINK[k]]
    <3>1. group[c] \in [Links -> Recs \cup {NULL}]
      BY IInvParts DEF Types
    <3>2. group'[c] = [group[c] EXCEPT ![LINK[Table]] = NULL]
      BY DEF Reset
    <3> QED  BY <2>2, <3>1, <3>2
  <2>4. Doubly(group[c][LINK[k]], same_callstack_group_next, same_callstack_group_prev,
               {r \in Listed(k) : allocator[r] = c})
    BY <2>1, IInvParts DEF Lists
  <2>5. Listed(k)' = Listed(k)
    <3>1. Do("link", k) \in Left' <=> Do("link", k) \in Left
      BY <1>5, <1>6, DoIs
    <3>2. at' # "walk" /\ ~On("link") /\ k \in Tables
      BY <1>1, <1>2, TableNames DEF NextOp
    <3> QED  BY <1>5, <3>1, <3>2 DEF Listed
  <2>6. /\ same_callstack_group_next' = same_callstack_group_next
        /\ same_callstack_group_prev' = same_callstack_group_prev /\ allocator' = allocator
    BY DEF Reset, pool
  <2> QED  BY <2>3, <2>4, <2>5, <2>6
<1>8. Lists'
  BY <1>7 DEF Lists
<1> QED  BY <1>5, <1>8 DEF Shape

\* A command that is over, or goes to its end.
LEMMA Jump ==
    ASSUME at' = "start", cursor' = NULL, lagging' = {}, ~ptr_mtx', Plan(todo'),
           Do("offset", "copy") \notin Left', Do("duplicate", "snapshot") \notin Left',
           \A k \in Copies : Do("duplicate", k) \notin Left' /\ Do("reset", k) \notin Left',
           Records', Distinct("alloc")', Distinct("snapshot")'
    PROVE  Shape'
<1>1. Places'
  BY DEF Places
<1>2. Walks'
  BY DEF Walks
<1>3. Unique'
  BY DEF Unique
<1>4. Lists'
  BY DEF Lists
<1> QED  BY <1>1, <1>2, <1>3, <1>4 DEF Shape

LEMMA NoSteps ==
    ASSUME todo' = <<>>
    PROVE  Plan(todo') /\ Left' = {}
<1>1. <<>> \in Seq(Known) /\ DOMAIN <<>> = {}
  OBVIOUS
<1>2. InOrder(<<>>)
  BY <1>1 DEF InOrder
<1>3. Complete({})
  BY DEF Complete
<1> QED  BY <1>1, <1>2, <1>3, RangeEmpty DEF Plan, Left

LEMMA DistinctKept ==
    ASSUME NEW k \in Tables, Distinct(k), Owned(k)' = Owned(k), UNCHANGED pool
    PROVE  Distinct(k)'
  BY DEF Distinct, pool

LEMMA DuplicateFailsKeeps == ASSUME IInv, DuplicateFails PROVE Shape'
<1>1. /\ On("duplicate") /\ at = "walk" /\ ~ptr_mtx' /\ todo' = <<>> /\ at' = "start" /\ cursor' = NULL
      /\ UNCHANGED <<pool, chains, apc, arec, lagging>>
  BY DEF DuplicateFails, threads
<1>2. lagging' = {} /\ ~On("destroy")
  BY <1>1, OnlyOn, InHand
<1>3. Plan(todo') /\ Left' = {}
  BY <1>1, NoSteps
<1>4. \A k \in Tables : First(k)' = First(k)
  BY <1>1, <1>2 DEF First, chains
<1>5. Records' /\ \A k \in Tables : Owned(k)' = Owned(k)
  BY <1>1, <1>4, Steady
<1>6. Distinct("alloc")' /\ Distinct("snapshot")'
  BY <1>1, <1>5, IInvParts, DistinctKept, TableNames DEF Unique
<1> QED  BY <1>1, <1>2, <1>3, <1>5, <1>6, Jump

LEMMA ListCallstacksFailsKeeps == ASSUME IInv, ListCallstacksFails PROVE Shape'
<1>1. /\ On("print_callstacks") /\ todo' = Cleanup /\ at' = "start"
      /\ UNCHANGED <<pool, chains, apc, arec, lagging, cursor, ptr_mtx>>
  BY DEF ListCallstacksFails, threads
<1>2. todo # <<>> /\ ~On("duplicate") /\ ~On("destroy") /\ ~On("link") /\ ~On("offset")
  BY <1>1, OnlyOn
<1>3. cursor' = NULL /\ lagging' = {} /\ ~ptr_mtx'
  BY <1>1, <1>2, InHand
<1>4. \A k \in Tables : First(k)' = First(k)
  BY <1>1, <1>2 DEF First, chains
<1>5. Records' /\ \A k \in Tables : Owned(k)' = Owned(k)
  BY <1>1, <1>4, Steady
<1>6. Distinct("alloc")' /\ Distinct("snapshot")'
  BY <1>1, <1>5, IInvParts, DistinctKept, TableNames DEF Unique
<1> QED  BY <1>1, <1>3, <1>5, <1>6, Jump, CleanupIs

\* Which commands link, compare and copy to the snapshot.
LEMMA ScriptFacts ==
    ASSUME NEW c \in Commands
    PROVE  /\ Do("offset", "copy") \in ScriptSteps[c] => c \notin {"list", "create", "destroy"}
           /\ Do("duplicate", "snapshot") \in ScriptSteps[c] => Do("destroy", "snapshot") \in ScriptSteps[c]
           /\ \A k \in Copies : Do("reset", k) \in ScriptSteps[c] =>
                c \notin {"list", "create", "destroy"} /\ Do("link", k) \in ScriptSteps[c]
<1>1. Commands = {"list", "list_per_callstack", "create", "destroy", "compare", "compare_per_callstack"}
  BY DEF Commands, Script
<1>2. CASE c = "list"
  BY <1>2, DoIs, TableNames DEF ScriptSteps
<1>3. CASE c = "list_per_callstack"
  BY <1>3, DoIs, TableNames DEF ScriptSteps
<1>4. CASE c = "create"
  BY <1>4, DoIs, TableNames DEF ScriptSteps
<1>5. CASE c = "destroy"
  BY <1>5, DoIs, TableNames DEF ScriptSteps
<1>6. CASE c = "compare"
  BY <1>6, DoIs, TableNames DEF ScriptSteps, CompareSteps
<1>7. CASE c = "compare_per_callstack"
  BY <1>7, DoIs, TableNames DEF ScriptSteps, CompareSteps
<1> QED  BY <1>1, <1>2, <1>3, <1>4, <1>5, <1>6, <1>7

LEMMA BeginKeeps ==
    ASSUME IInv, NEW c \in Commands, Begin(c), CleanStart(c)
    PROVE  Shape'
<1>1. todo = <<>> /\ todo' = Script[c] /\ UNCHANGED <<pool, chains, groups, apc, arec, lagging, cursor, ptr_mtx, at>>
  BY DEF Begin, threads, walk
<1>2. at = "start" /\ cursor = NULL /\ lagging = {} /\ ~ptr_mtx
  <2>1. \A op : ~On(op)
    BY <1>1 DEF On
  <2>2. at \in {"start", "walk", "free", "pair", "advance"}
    BY IInvParts DEF Types
  <2> QED  BY <2>1, <2>2, IInvParts DEF Places
<1>3. Plan(todo') /\ Left' = ScriptSteps[c]
  BY <1>1, EveryPlan DEF Left
<1>4. \A k \in Tables : First(k)' = First(k) /\ First(k) = head[k]
  BY <1>1, <1>2 DEF First, chains
<1>5. Records' /\ \A k \in Tables : Owned(k)' = Owned(k)
  BY <1>1, <1>4, Steady
<1>6. ASSUME c \notin {"list", "create", "destroy"}
      PROVE  /\ \A k \in Copies : head[k] = NULL /\ Owned(k) = {}
             /\ \A d \in Callstacks, l \in Links : group[d][l] = NULL
  <2>1. /\ \A k \in Copies : head[k] = NULL
        /\ \A d \in Callstacks, l \in Links : group[d][l] = NULL
    BY <1>6 DEF CleanStart
  <2>2. \A k \in Copies : k \in Tables /\ First(k) = NULL
    BY <1>4, <2>1, TableNames
  <2> QED  BY <2>1, <2>2, EmptyTable, IInvParts
<1>7. Places'
  BY <1>1, <1>2, <1>3 DEF Places
<1>8. Walks'
  BY <1>1, <1>2 DEF Walks
<1>9. Unique'
  <2>1. Distinct("alloc")' /\ Distinct("snapshot")'
    BY <1>1, <1>5, IInvParts, DistinctKept, TableNames DEF Unique
  <2>2. ASSUME Do("offset", "copy") \in Left'
        PROVE  \A k \in Copies : Distinct(k)' /\ head'[k] = NULL
    <3>1. \A k \in Copies : head[k] = NULL /\ Owned(k) = {} /\ k \in Tables
      BY <1>3, <1>6, <2>2, ScriptFacts, TableNames
    <3>2. \A k \in Copies : Owned(k)' = {}
      BY <1>5, <3>1
    <3> QED  BY <1>1, <3>1, <3>2 DEF Distinct, chains
  <2>3. Do("duplicate", "snapshot") \in Left' => ~FreshCopy("snapshot")'
    BY <1>3, ScriptFacts DEF FreshCopy
  <2>4. \A k \in Copies : FreshCopy(k)' => Do("offset", "copy") \in Left'
    BY TableNames DEF FreshCopy
  <2>5. at' # "walk"
    BY <1>1, <1>2
  <2> QED  BY <2>1, <2>2, <2>3, <2>4, <2>5 DEF Unique
<1>10. Lists'
  <2>1. ASSUME NEW k \in Copies, Do("reset", k) \in Left', NEW d \in Callstacks
        PROVE  Doubly(group'[d][LINK[k]], same_callstack_group_next', same_callstack_group_prev',
                      {r \in Listed(k)' : allocator'[r] = d})
    <3>1. c \notin {"list", "create", "destroy"} /\ Do("link", k) \in Left'
      BY <1>3, <2>1, ScriptFacts
    <3>2. LINK[k] \in Links
      BY TableNames
    <3>3. group'[d][LINK[k]] = NULL
      BY <1>1, <1>6, <3>1, <3>2 DEF groups
    <3>4. Listed(k)' = {}
      BY <1>1, <1>2, <3>1 DEF Listed
    <3> QED  BY <3>3, <3>4, DoublyEmpty
  <2> QED  BY <2>1 DEF Lists
<1> QED  BY <1>5, <1>7, <1>8, <1>9, <1>10 DEF Shape

\* Steps within an operation that keep the lists as they are.
LEMMA ListsKept ==
    ASSUME IInv, UNCHANGED <<todo, groups, allocator>>,
           \A k \in Copies : Do("reset", k) \in Left => Listed(k)' = Listed(k)
    PROVE  Lists'
<1>1. ASSUME NEW k \in Copies, Do("reset", k) \in Left', NEW c \in Callstacks
      PROVE  Doubly(group'[c][LINK[k]], same_callstack_group_next', same_callstack_group_prev',
                    {r \in Listed(k)' : allocator'[r] = c})
  <2>1. Do("reset", k) \in Left
    BY <1>1 DEF Left
  <2>2. Doubly(group[c][LINK[k]], same_callstack_group_next, same_callstack_group_prev,
               {r \in Listed(k) : allocator[r] = c})
    BY <2>1, IInvParts DEF Lists
  <2>3. /\ group' = group /\ same_callstack_group_next' = same_callstack_group_next
        /\ same_callstack_group_prev' = same_callstack_group_prev /\ allocator' = allocator
    BY DEF groups
  <2> QED  BY <2>1, <2>2, <2>3
<1> QED  BY <1>1 DEF Lists

LEMMA DuplicateLockKeeps ==
    ASSUME IInv, DuplicateLock
    PROVE  Shape' /\ Ahead' = Owned(Source[Table])
<1>1. /\ On("duplicate") /\ at = "start" /\ ptr_mtx' /\ cursor' = head[Source[Table]] /\ at' = "walk"
      /\ UNCHANGED <<pool, chains, groups, apc, arec, lagging, todo>>
  BY DEF DuplicateLock, threads
<1>2. /\ Table \in {"copy", "snapshot", "snapshot_copy"} /\ Source[Table] \in Tables \ {Table}
      /\ ~On("destroy") /\ ~On("link") /\ ~On("offset")
  BY <1>1, OnDuplicate, IInvParts
<1>3. On("duplicate")' /\ ~On("destroy")' /\ ~On("link")' /\ ~On("offset")' /\ Table' = Table /\ Left' = Left
  BY <1>1, <1>2 DEF On, Table, Left
<1>4. lagging = {}
  BY <1>1, IInvParts DEF Places
<1>5. Places'
  BY <1>1, <1>3, <1>4, IInvParts DEF Places
<1>6. \A k \in Tables : First(k)' = First(k) /\ First(k) = head[k]
  BY <1>1, <1>2, <1>3 DEF First, chains
<1>7. Records' /\ \A k \in Tables : Owned(k)' = Owned(k)
  BY <1>1, <1>6, Steady
<1>8. Walks' /\ Ahead' = Owned(Source[Table])
  <2> DEFINE S == Owned(Source[Table])
  <2>1. S \in SUBSET Recs /\ IsChain(head[Source[Table]], hash_next, S, NULL)
    BY <1>2, <1>6, IInvParts DEF Chains
  <2>2. cursor' \in Recs \cup {NULL}
    BY <1>1, <1>2, IInvParts DEF Types
  <2>3. IsChain(cursor', hash_next', S, NULL)
    BY <1>1, <2>1 DEF chains
  <2>4. Ahead' = S /\ IsChain(cursor', hash_next', Ahead', NULL)
    BY <2>1, <2>2, <2>3, AheadIs
  <2>5. Source[Table'] = Source[Table] /\ Owned(Source[Table])' = S
    BY <1>2, <1>3, <1>7
  <2>6. Ahead' \subseteq Owned(Source[Table])'
    BY <2>4, <2>5
  <2> QED  BY <1>1, <1>3, <2>4, <2>6 DEF Walks
<1>9. Unique'
  <2>0. Copies \cup {"snapshot"} \subseteq Tables
    BY TableNames
  <2>1. Distinct("alloc")' /\ Distinct("snapshot")'
    BY <1>1, <1>7, IInvParts, DistinctKept, TableNames DEF Unique
  <2>2. Do("offset", "copy") \in Left' => \A k \in Copies : Distinct(k)'
    BY <1>1, <1>3, <1>7, <2>0, IInvParts, DistinctKept DEF Unique
  <2>3. ASSUME NEW k \in Copies \cup {"snapshot"}, Do("duplicate", k) \in Left', FreshCopy(k)'
        PROVE  head[k] = NULL /\ head'[k] = NULL /\ Owned(k)' = {}
    <3>1. Do("duplicate", k) \in Left /\ FreshCopy(k)
      BY <1>3, <2>3 DEF FreshCopy
    <3>2. head[k] = NULL
      BY <1>1, <3>1, IInvParts DEF Unique
    <3>3. Owned(k) = {}
      BY <1>6, <2>0, <3>2, EmptyTable, IInvParts
    <3> QED  BY <1>1, <1>7, <2>0, <3>2, <3>3 DEF chains
  <2> QED  BY <2>1, <2>2, <2>3 DEF Unique
<1>10. \A k \in Copies : Listed(k)' = Listed(k)
  <2>1. \A k \in Copies : k \in Tables
    BY TableNames
  <2> QED  BY <1>1, <1>2, <1>3, <1>7, <2>1 DEF Listed
<1>11. Lists'
  BY <1>1, <1>10, ListsKept DEF pool
<1> QED  BY <1>5, <1>7, <1>8, <1>9, <1>11 DEF Shape

LEMMA UniqueKept ==
    ASSUME IInv, UNCHANGED <<todo, pool, head>>, ~On("duplicate"), \A k \in Tables : Owned(k)' = Owned(k)
    PROVE  Unique'
<1>1. Left' = Left /\ ~On("duplicate")'
  BY DEF Left, On
<1>2. \A k \in Tables : Distinct(k) => Distinct(k)'
  BY DistinctKept
<1>3. Copies \cup {"snapshot"} \subseteq Tables /\ "alloc" \in Tables /\ "snapshot" \in Tables
  BY TableNames
<1>4. Distinct("alloc")' /\ Distinct("snapshot")'
  BY <1>2, <1>3, IInvParts DEF Unique
<1>5. Do("offset", "copy") \in Left' => \A k \in Copies : Distinct(k)'
  BY <1>1, <1>2, <1>3, IInvParts DEF Unique
<1>6. ASSUME NEW k \in Copies \cup {"snapshot"}, Do("duplicate", k) \in Left', FreshCopy(k)'
      PROVE  head'[k] = NULL
  <2>1. Do("duplicate", k) \in Left /\ FreshCopy(k)
    BY <1>1, <1>6 DEF FreshCopy
  <2> QED  BY <2>1, IInvParts DEF Unique
<1> QED  BY <1>1, <1>4, <1>5, <1>6 DEF Unique

LEMMA DestroyLockKeeps == ASSUME IInv, DestroyLock PROVE Shape'
<1>1. /\ On("destroy") /\ at = "start" /\ ptr_mtx' /\ cursor' = head[Table] /\ at' = "walk"
      /\ UNCHANGED <<pool, chains, groups, apc, arec, lagging, todo>>
  BY DEF DestroyLock, threads
<1>2. ~On("duplicate") /\ ~On("link") /\ ~On("offset") /\ \A k \in Copies : Do("reset", k) \notin Left
  BY <1>1, OnDestroy, IInvParts
<1>3. On("destroy")' /\ ~On("duplicate")' /\ ~On("link")' /\ ~On("offset")' /\ Table' = Table /\ Left' = Left
  BY <1>1, <1>2 DEF On, Table, Left
<1>4. Places'
  BY <1>1, <1>3, IInvParts DEF Places
<1>5. \A k \in Tables : First(k)' = First(k)
  BY <1>1, <1>3 DEF First, chains
<1>6. Records' /\ \A k \in Tables : Owned(k)' = Owned(k)
  BY <1>1, <1>5, Steady
<1>7. Walks'
  BY <1>1, <1>3 DEF Walks
<1>8. Unique'
  BY <1>1, <1>2, <1>6, UniqueKept DEF chains
<1>9. Lists'
  BY <1>2, <1>3 DEF Lists
<1> QED  BY <1>4, <1>6, <1>7, <1>8, <1>9 DEF Shape

LEMMA LinkBeginKeeps == ASSUME IInv, LinkBegin PROVE Shape'
<1>1. /\ On("link") /\ at = "start" /\ cursor' = head[Table] /\ at' = "walk"
      /\ UNCHANGED <<pool, chains, groups, apc, arec, lagging, todo, ptr_mtx>>
  BY DEF LinkBegin, threads
<1>2. ~On("duplicate") /\ ~On("destroy") /\ ~On("offset") /\ Table \in Copies /\ Table \in Tables
  BY <1>1, OnLink, IInvParts, TableNames
<1>3. On("link")' /\ ~On("duplicate")' /\ ~On("destroy")' /\ ~On("offset")' /\ Table' = Table /\ Left' = Left
  BY <1>1, <1>2 DEF On, Table, Left
<1>4. Places'
  BY <1>1, <1>3, IInvParts DEF Places
<1>5. \A k \in Tables : First(k)' = First(k) /\ First(k) = head[k]
  BY <1>1, <1>2, <1>3 DEF First, chains
<1>6. Records' /\ \A k \in Tables : Owned(k)' = Owned(k)
  BY <1>1, <1>5, Steady
<1>7. Ahead' = Owned(Table) /\ IsChain(cursor', hash_next', Ahead', NULL)
  <2>1. Owned(Table) \in SUBSET Recs /\ IsChain(head[Table], hash_next, Owned(Table), NULL)
    BY <1>2, <1>5, IInvParts DEF Chains
  <2>2. cursor' \in Recs \cup {NULL}
    BY <1>1, <1>2, IInvParts DEF Types
  <2>3. IsChain(cursor', hash_next', Owned(Table), NULL)
    BY <1>1, <2>1 DEF chains
  <2> QED  BY <2>1, <2>2, <2>3, AheadIs
<1>8. Walks'
  <2>1. Owned(Table') = Owned(Table) /\ Owned(Table)' = Owned(Table)
    BY <1>2, <1>3, <1>6
  <2>2. Ahead' \subseteq Owned(Table)'
    BY <1>7, <2>1
  <2> QED  BY <1>1, <1>3, <1>7, <2>2 DEF Walks
<1>9. Unique'
  BY <1>1, <1>2, <1>6, UniqueKept DEF chains
<1>10. \A k \in Copies : Listed(k)' = Listed(k)
  <2>1. ASSUME NEW k \in Copies PROVE Listed(k)' = Listed(k)
    <3>0. k \in Tables
      BY TableNames
    <3>1. CASE Do("link", k) \notin Left
      BY <1>3, <1>6, <3>0, <3>1 DEF Listed
    <3>2. CASE Do("link", k) \in Left /\ Table # k
      BY <1>3, <3>2 DEF Listed
    <3>3. CASE Do("link", k) \in Left /\ Table = k
      <4>1. Owned(k)' \ Ahead' = {}
        BY <1>6, <1>7, <3>0, <3>3
      <4>2. Listed(k) = {}
        BY <1>1, <3>3 DEF Listed
      <4>3. Listed(k)' = Owned(k)' \ Ahead'
        BY <1>1, <1>3, <3>3 DEF Listed
      <4> QED  BY <4>1, <4>2, <4>3
    <3> QED  BY <3>1, <3>2, <3>3
  <2> QED  BY <2>1
<1>11. Lists'
  BY <1>1, <1>10, ListsKept DEF pool
<1> QED  BY <1>4, <1>6, <1>8, <1>9, <1>11 DEF Shape

\* The steps of the offset that move no record.
OffsetMoves == OffsetBegin \/ OffsetAlone \/ OffsetAdvance

LEMMA OffsetMovesKeep == ASSUME IInv, OffsetMoves PROVE Shape'
<1>1. On("offset") /\ UNCHANGED <<pool, chains, groups, apc, arec, lagging, todo, ptr_mtx>>
  BY DEF OffsetMoves, OffsetBegin, OffsetAlone, OffsetAdvance, threads, walk
<1>2. ~On("duplicate") /\ ~On("destroy") /\ ~On("link") /\ Table = "copy"
  BY <1>1, OnOffset, IInvParts
<1>3. On("offset")' /\ ~On("duplicate")' /\ ~On("destroy")' /\ ~On("link")' /\ Table' = Table /\ Left' = Left
  BY <1>1, <1>2 DEF On, Table, Left
<1>4. \A k \in Tables : First(k)' = First(k) /\ First(k) = head[k]
  BY <1>1, <1>2, <1>3 DEF First, chains
<1>5. Records' /\ \A k \in Tables : Owned(k)' = Owned(k)
  BY <1>1, <1>4, Steady
<1>6. "copy" \in Tables /\ Owned("copy") \subseteq Recs /\ IsChain(head["copy"], hash_next, Owned("copy"), NULL)
  BY <1>4, TableNames, IInvParts DEF Chains
<1>7. head["copy"] \in Owned("copy") \cup {NULL} /\ \A x \in Owned("copy") : hash_next[x] \in Owned("copy") \cup {NULL}
  BY <1>6, ChainLinks
<1>8. Unique'
  BY <1>1, <1>2, <1>5, UniqueKept DEF chains
<1>9. Lists'
  <2>1. \A k \in Copies : Listed(k)' = Listed(k)
    <3>1. \A k \in Copies : k \in Tables /\ Do("link", k) \notin Left
      BY <1>1, OnOffset, IInvParts, TableNames
    <3> QED  BY <1>3, <1>5, <3>1 DEF Listed
  <2> QED  BY <1>1, <2>1, ListsKept DEF pool
<1>10. CASE OffsetBegin
  <2>1. at = "start" /\ at' = "free" /\ cursor' = head["copy"]
    BY <1>10 DEF OffsetBegin
  <2>2. Places'
    BY <1>1, <1>3, <2>1, IInvParts DEF Places
  <2>3. Walks'
    BY <1>5, <1>6, <1>7, <2>1 DEF Walks
  <2> QED  BY <1>5, <1>8, <1>9, <2>2, <2>3 DEF Shape
<1>11. CASE OffsetAlone
  <2>1. at = "pair" /\ at' = "advance" /\ cursor' = cursor
    BY <1>11 DEF OffsetAlone, walk
  <2>2. Places'
    BY <1>1, <1>3, <2>1, IInvParts DEF Places
  <2>3. cursor \in Owned("copy")
    BY <2>1, IInvParts DEF Walks, Places
  <2>4. Walks'
    BY <1>5, <1>6, <2>1, <2>3 DEF Walks
  <2> QED  BY <1>5, <1>8, <1>9, <2>2, <2>4 DEF Shape
<1>12. CASE OffsetAdvance
  <2>1. at = "advance" /\ at' = "free" /\ cursor' = hash_next[cursor]
    BY <1>12 DEF OffsetAdvance
  <2>2. Places'
    BY <1>1, <1>3, <2>1, IInvParts DEF Places
  <2>3. hash_next[cursor] \in Owned("copy") \cup {NULL}
    BY <1>7, <2>1, IInvParts DEF Walks
  <2>4. Walks'
    BY <1>5, <1>6, <2>1, <2>3 DEF Walks
  <2> QED  BY <1>5, <1>8, <1>9, <2>2, <2>4 DEF Shape
<1> QED  BY <1>10, <1>11, <1>12 DEF OffsetMoves

-----------------------------------------------------------------------------
(* Threads of the program *)

LEMMA HeldIs == Held = {arec[t] : t \in Busy}
  BY DEF Held, Busy

\* A step of a thread leaves the tables of the worker alone; the alloc table
\* too, while the worker holds the lock.
Aside ==
    /\ UNCHANGED <<todo, at, cursor, lagging, ptr_mtx, group>>
    /\ \A k \in Tables : k # "alloc" \/ ptr_mtx =>
        Owned(k)' = Owned(k) /\ head'[k] = head[k] /\ KeptOn(Owned(k))
    /\ KeptOn(lagging)

LEMMA AsideKeeps ==
    ASSUME IInv, Aside, Records', Distinct("alloc")'
    PROVE  Shape' /\ (On("duplicate") /\ at = "walk" => Ahead' = Ahead /\ SameBlocks(Ahead))
<1>1. /\ UNCHANGED <<todo, at, cursor, lagging, ptr_mtx, group>>
      /\ Left' = Left /\ Table' = Table /\ \A op : On(op)' = On(op)
  BY DEF Aside, Left, Table, On
<1>2. \A k \in Tables : k # "alloc" \/ ptr_mtx =>
        Owned(k)' = Owned(k) /\ head'[k] = head[k] /\ KeptOn(Owned(k))
  BY DEF Aside
<1>3. /\ "alloc" \in Tables /\ Copies \cup {"snapshot"} \subseteq Tables
      /\ "alloc" \notin Copies \cup {"snapshot"} /\ "copy" \in Copies
  BY TableNames
<1>4. \A k \in Copies \cup {"snapshot"} : Owned(k)' = Owned(k) /\ head'[k] = head[k] /\ KeptOn(Owned(k))
  BY <1>2, <1>3
<1>5. ASSUME at = "walk", On("duplicate")
      PROVE  /\ IsChain(cursor, hash_next, Ahead, NULL) /\ Ahead \subseteq Owned(Source[Table])
             /\ Owned(Source[Table])' = Owned(Source[Table]) /\ Source[Table] \in Tables
             /\ KeptOn(Owned(Source[Table]))
  <2>1. PICK S \in Tables : S = Source[Table]
    BY <1>5, OnDuplicate, IInvParts
  <2>2. ptr_mtx
    BY <1>5, OnDuplicate, IInvParts DEF Places
  <2>3. Owned(S)' = Owned(S) /\ KeptOn(Owned(S))
    BY <1>2, <2>2
  <2>4. Owned(Source[Table])' = Owned(S)'
    BY <1>1, <2>1
  <2> QED  BY <1>5, <2>1, <2>3, <2>4, IInvParts DEF Walks
<1>6. ASSUME at = "walk", On("link")
      PROVE  /\ IsChain(cursor, hash_next, Ahead, NULL) /\ Ahead \subseteq Owned(Table)
             /\ Owned(Table)' = Owned(Table) /\ Table \in Tables
             /\ KeptOn(Owned(Table))
  <2>1. PICK T \in Copies : T = Table
    BY <1>6, OnLink, IInvParts
  <2>3. Owned(T)' = Owned(T) /\ KeptOn(Owned(T))
    BY <1>4
  <2>4. Owned(Table)' = Owned(T)'
    BY <1>1, <2>1
  <2> QED  BY <1>3, <1>6, <2>1, <2>3, <2>4, IInvParts DEF Walks
<1>7. ASSUME at = "walk", On("duplicate") \/ On("link")
      PROVE  Ahead' = Ahead /\ IsChain(cursor', hash_next', Ahead', NULL) /\ KeptOn(Ahead)
  <2>1. PICK S \in Tables : IsChain(cursor, hash_next, Ahead, NULL) /\ Ahead \subseteq Owned(S) /\ KeptOn(Owned(S))
    BY <1>5, <1>6, <1>7
  <2>2. Ahead \subseteq Recs /\ cursor \in Recs \cup {NULL} /\ cursor' = cursor
    BY <1>1, <2>1, IInvParts DEF Chains, Types
  <2>3. KeptOn(Ahead)
    BY <2>1 DEF KeptOn
  <2>4. \A x \in Ahead : hash_next'[x] = hash_next[x]
    BY <2>3 DEF KeptOn
  <2> QED  BY <2>1, <2>2, <2>3, <2>4, AheadKept
<1>8. Places'
  <2>1. Places
    BY IInvParts
  <2> QED  BY <1>1, <2>1 DEF Places
<1>9. Walks'
  <2>1. On("duplicate")' /\ at' = "walk" =>
            IsChain(cursor', hash_next', Ahead', NULL) /\ Ahead' \subseteq Owned(Source[Table])'
    <3>1. ASSUME at = "walk", On("duplicate")
          PROVE  IsChain(cursor', hash_next', Ahead', NULL) /\ Ahead' \subseteq Owned(Source[Table])'
      BY <1>5, <1>7, <3>1
    <3> QED  BY <1>1, <3>1
  <2>2. On("link")' /\ at' = "walk" =>
            IsChain(cursor', hash_next', Ahead', NULL) /\ Ahead' \subseteq Owned(Table)'
    <3>1. ASSUME at = "walk", On("link")
          PROVE  IsChain(cursor', hash_next', Ahead', NULL) /\ Ahead' \subseteq Owned(Table)'
      BY <1>6, <1>7, <3>1
    <3> QED  BY <1>1, <3>1
  <2>3. at' \in {"free", "pair"} => cursor' \in Owned("copy")' \cup {NULL}
    BY <1>1, <1>3, <1>4, IInvParts DEF Walks
  <2>4. at' = "advance" =>
            \/ cursor' \in Owned("copy")'
            \/ cursor' \in lagging' /\ hash_next'[cursor'] \in Owned("copy")' \cup {NULL}
    <3>1. \A x \in lagging : hash_next'[x] = hash_next[x]
      BY DEF Aside, KeptOn
    <3> QED  BY <1>1, <1>3, <1>4, <3>1, IInvParts DEF Walks
  <2> QED  BY <2>1, <2>2, <2>3, <2>4 DEF Walks
<1>10. Unique'
  <2>1. \A k \in Copies \cup {"snapshot"} : Distinct(k) => Distinct(k)'
    BY <1>4 DEF Distinct, KeptOn
  <2>2. Distinct("snapshot")'
    BY <2>1, IInvParts DEF Unique
  <2>3. Do("offset", "copy") \in Left' => \A k \in Copies : Distinct(k)'
    BY <1>1, <2>1, IInvParts DEF Unique
  <2>4. ASSUME NEW k \in Copies \cup {"snapshot"}, Do("duplicate", k) \in Left', FreshCopy(k)'
        PROVE  IF On("duplicate")' /\ Table' = k /\ at' = "walk"
               THEN \A q \in Owned(k)', x \in Ahead' : ptrOf'[q] # ptrOf'[x]
               ELSE head'[k] = NULL
    <3>1. Do("duplicate", k) \in Left /\ FreshCopy(k)
      BY <1>1, <2>4 DEF FreshCopy
    <3>2. CASE On("duplicate") /\ Table = k /\ at = "walk"
      <4>1. \A q \in Owned(k), x \in Ahead : ptrOf[q] # ptrOf[x]
        BY <3>1, <3>2, IInvParts DEF Unique
      <4>2. Ahead' = Ahead /\ \A x \in Ahead : ptrOf'[x] = ptrOf[x]
        BY <1>7, <3>2 DEF KeptOn
      <4>3. Owned(k)' = Owned(k) /\ \A q \in Owned(k) : ptrOf'[q] = ptrOf[q]
        BY <1>4 DEF KeptOn
      <4> QED  BY <1>1, <3>2, <4>1, <4>2, <4>3
    <3>3. CASE ~(On("duplicate") /\ Table = k /\ at = "walk")
      <4>1. head[k] = NULL
        BY <3>1, <3>3, IInvParts DEF Unique
      <4> QED  BY <1>1, <1>4, <3>3, <4>1
    <3> QED  BY <3>2, <3>3
  <2> QED  BY <2>2, <2>3, <2>4 DEF Unique
<1>11. Lists'
  <2>1. ASSUME NEW k \in Copies PROVE Listed(k)' = Listed(k)
    <3>1. Owned(k)' = Owned(k)
      BY <1>4
    <3>2. CASE On("link") /\ at = "walk"
      BY <1>1, <1>7, <3>1, <3>2 DEF Listed
    <3>3. CASE ~(On("link") /\ at = "walk")
      BY <1>1, <3>1, <3>3 DEF Listed
    <3> QED  BY <3>2, <3>3
  <2>2. ASSUME NEW k \in Copies, Do("reset", k) \in Left', NEW c \in Callstacks
        PROVE  Doubly(group'[c][LINK[k]], same_callstack_group_next', same_callstack_group_prev',
                      {r \in Listed(k)' : allocator'[r] = c})
    <3>1. Do("reset", k) \in Left /\ group' = group
      BY <1>1, <2>2
    <3>2. Doubly(group[c][LINK[k]], same_callstack_group_next, same_callstack_group_prev,
                 {r \in Listed(k) : allocator[r] = c})
      BY <3>1, IInvParts DEF Lists
    <3>3. Listed(k) \subseteq Owned(k)
      BY DEF Listed
    <3>4. \A r \in Listed(k) : /\ allocator'[r] = allocator[r]
                               /\ same_callstack_group_next'[r] = same_callstack_group_next[r]
                               /\ same_callstack_group_prev'[r] = same_callstack_group_prev[r]
      BY <1>4, <3>3 DEF KeptOn
    <3>5. {r \in Listed(k)' : allocator'[r] = c} = {r \in Listed(k) : allocator[r] = c}
      BY <2>1, <3>4
    <3>6. Doubly(group[c][LINK[k]], same_callstack_group_next', same_callstack_group_prev',
                 {r \in Listed(k) : allocator[r] = c})
      BY <3>2, <3>4, DoublySame
    <3> QED  BY <3>1, <3>5, <3>6
  <2> QED  BY <2>2 DEF Lists
<1>12. On("duplicate") /\ at = "walk" => Ahead' = Ahead /\ SameBlocks(Ahead)
  BY <1>7 DEF KeptOn, SameBlocks, Block
<1> QED  BY <1>8, <1>9, <1>10, <1>11, <1>12 DEF Shape

LEMMA SameFirst ==
    ASSUME UNCHANGED <<todo, at, cursor>>, NEW k \in Tables, head'[k] = head[k]
    PROVE  First(k)' = First(k)
  BY DEF First, On, Table

\* The records in use, one by one.
LEMMA InUse ==
    ASSUME Accounted
    PROVE  \A x : x \in used <=> x \in Held \/ x \in lagging \/ \E k \in Tables : x \in Owned(k)
<1> DEFINE U == UNION {Owned(k) : k \in Tables}
<1>1. used = U \cup Held \cup lagging
  BY DEF Accounted
<1>2. \A x : x \in U <=> \E k \in Tables : x \in Owned(k)
  OBVIOUS
<1> QED  BY <1>1, <1>2

LEMMA InUseNext ==
    ASSUME \A x : x \in used' <=> x \in Held' \/ x \in lagging' \/ \E k \in Tables : x \in Owned(k)'
    PROVE  Accounted'
<1> DEFINE U == UNION {Owned(k)' : k \in Tables}
<1>1. \A x : x \in U <=> \E k \in Tables : x \in Owned(k)'
  OBVIOUS
<1>2. used' = U \cup Held' \cup lagging'
  BY <1>1
<1> QED  BY <1>2 DEF Accounted

\* What a thread has in hand.
LEMMA HeldGains ==
    ASSUME Types, NEW t \in Threads, apc[t] = "idle", NEW pc \in {"add", "put"}, NEW r,
           apc' = [apc EXCEPT ![t] = pc], arec' = [arec EXCEPT ![t] = r]
    PROVE  /\ Busy' = Busy \cup {t} /\ Held' = Held \cup {r} /\ t \notin Busy /\ arec'[t] = r
           /\ \A u \in Busy : arec'[u] = arec[u]
<1>1. apc'[t] = pc /\ arec'[t] = r /\ \A u \in Threads \ {t} : apc'[u] = apc[u] /\ arec'[u] = arec[u]
  BY DEF Types
<1>2. Busy' = Busy \cup {t} /\ t \notin Busy
  BY <1>1 DEF Busy
<1>3. \A u \in Busy : arec'[u] = arec[u]
  BY <1>1, <1>2 DEF Busy
<1>4. Held' = {arec'[u] : u \in Busy'} /\ Held = {arec[u] : u \in Busy}
  BY DEF Held, Busy
<1>5. \A x : x \in Held' <=> x = r \/ x \in Held
  BY <1>1, <1>2, <1>3, <1>4
<1> QED  BY <1>1, <1>2, <1>3, <1>5

LEMMA HeldLoses ==
    ASSUME Types, Apart, NEW t \in Busy, apc' = [apc EXCEPT ![t] = "idle"], arec' = [arec EXCEPT ![t] = NULL]
    PROVE  /\ Busy' = Busy \ {t} /\ Held' = Held \ {arec[t]} /\ arec[t] \in Held /\ arec[t] \in Recs
           /\ \A u \in Busy' : arec'[u] = arec[u]
<1>0. t \in Threads
  BY DEF Busy
<1>1. apc'[t] = "idle" /\ \A u \in Threads \ {t} : apc'[u] = apc[u] /\ arec'[u] = arec[u]
  BY <1>0 DEF Types
<1>2. Busy' = Busy \ {t}
  BY <1>1 DEF Busy
<1>3. \A u \in Busy' : arec'[u] = arec[u] /\ u \in Busy
  BY <1>1, <1>2 DEF Busy
<1>4. Held' = {arec'[u] : u \in Busy'} /\ Held = {arec[u] : u \in Busy}
  BY DEF Held, Busy
<1>5. \A u \in Busy : arec[u] = arec[t] => u = t
  BY DEF Apart
<1>6. \A x : x \in Held' <=> x # arec[t] /\ x \in Held
  BY <1>2, <1>3, <1>4, <1>5
<1>7. arec[t] \in Recs /\ arec[t] \in Held
  BY <1>4 DEF Apart
<1> QED  BY <1>2, <1>3, <1>6, <1>7

LEMMA AppAllocateKeeps == ASSUME IInv, NEW t \in Threads, AppAllocate(t) PROVE Shape' /\ Aside
<1>1. /\ apc[t] = "idle" /\ apc' = [apc EXCEPT ![t] = "add"]
      /\ UNCHANGED <<ptrOf, sizeOf, allocator, chains, groups, ptr_mtx, todo, at, cursor, lagging>>
  BY DEF AppAllocate, walk
<1>2. PICK r \in Recs : Allocate(r) /\ arec' = [arec EXCEPT ![t] = r]
  BY DEF AppAllocate
<1>3. r \notin used /\ used' = used \cup {r}
  BY <1>2, AllocateFree, IInvParts
<1>4. /\ Busy' = Busy \cup {t} /\ Held' = Held \cup {r} /\ t \notin Busy /\ arec'[t] = r
      /\ \A u \in Busy : arec'[u] = arec[u]
  BY <1>1, <1>2, HeldGains, IInvParts
<1>5. r \notin Held /\ r \notin lagging /\ \A k \in Tables : r \notin Owned(k)
  BY <1>3, InUse, IInvParts
<1>6. \A k \in Tables : head'[k] = head[k] /\ First(k)' = First(k)
  BY <1>1, SameFirst DEF chains
<1>7. \A k \in Tables : Owned(k)' = Owned(k) /\ Owned(k)' \subseteq Recs
                        /\ IsChain(First(k)', hash_next', Owned(k)', NULL)
  <2>1. ASSUME NEW k \in Tables
        PROVE  Owned(k)' = Owned(k) /\ Owned(k)' \subseteq Recs
               /\ IsChain(First(k)', hash_next', Owned(k)', NULL)
    <3>1. \A x \in Owned(k) : hash_next'[x] = hash_next[x]
      BY <1>1 DEF chains
    <3> QED  BY <1>6, <3>1, OwnedKept, IInvParts
  <2> QED  BY <2>1
<1>8. Chains'
  BY <1>7 DEF Chains
<1>9. Apart'
  <2>1. \A j, k \in Tables : j # k => Owned(j)' \cap Owned(k)' = {}
    BY <1>7, IInvParts DEF Apart
  <2>2. \A k \in Tables : Owned(k)' \cap (Held' \cup lagging') = {}
    BY <1>1, <1>4, <1>5, <1>7, IInvParts DEF Apart
  <2>3. Held' \cap lagging' = {}
    BY <1>1, <1>4, <1>5, IInvParts DEF Apart
  <2>4. \A u \in Busy' : arec'[u] \in Recs
    BY <1>4, IInvParts DEF Apart
  <2>5. \A u \in Busy : arec'[u] # r
    BY <1>4, <1>5, HeldIs
  <2>6. \A u, v \in Busy' : arec'[u] = arec'[v] => u = v
    BY <1>4, <2>5, IInvParts DEF Apart
  <2> QED  BY <2>1, <2>2, <2>3, <2>4, <2>6 DEF Apart
<1>10. Accounted'
  <2>1. \A x : x \in used' <=> x \in Held' \/ x \in lagging' \/ \E k \in Tables : x \in Owned(k)'
    BY <1>1, <1>3, <1>4, <1>7, InUse, IInvParts
  <2> QED  BY <2>1, InUseNext
<1>11. Filled'
  BY <1>1, <1>7, IInvParts DEF Filled, Block, BlockSet
<1>12. Records'
  BY <1>8, <1>9, <1>10, <1>11 DEF Records
<1>13. Aside
  <2>1. \A S : KeptOn(S)
    BY <1>1 DEF KeptOn, chains, groups
  <2> QED  BY <1>1, <1>6, <1>7, <2>1 DEF Aside, groups
<1>14. Distinct("alloc")'
  BY <1>1, <1>7, TableNames, IInvParts DEF Unique, Distinct
<1> QED  BY <1>12, <1>13, <1>14, AsideKeeps

\* Without the lock, the alloc table is what its head leads to.
LEMMA AllocFirst ==
    ASSUME IInv
    PROVE  First("alloc") = head["alloc"] /\ Members("alloc") = Owned("alloc") /\ "alloc" \in Tables
<1>1. "alloc" \in Tables
  BY TableNames
<1>2. ~(On("destroy") /\ at = "walk" /\ Table = "alloc")
  BY OnDestroy, IInvParts
<1> QED  BY <1>1, <1>2, FirstIsHead

LEMMA AppAddKeeps == ASSUME IInv, NEW t \in Threads, AppAdd(t) PROVE Shape' /\ Aside
<1> DEFINE r == arec[t]
<1>1. /\ apc[t] = "add" /\ ~ptr_mtx
      /\ apc' = [apc EXCEPT ![t] = "idle"] /\ arec' = [arec EXCEPT ![t] = NULL]
      /\ Add("alloc", r)
      /\ UNCHANGED <<used, groups, ptr_mtx, todo, at, cursor, lagging>>
  BY DEF AppAdd, walk
<1>2. PICK p \in Ptrs \ {ptrOf[q] : q \in Members("alloc")}, z \in Sizes, c \in Callstacks :
        Fill(r, [ptr |-> p, size |-> z, allocator |-> c])
  BY DEF AppAdd
<1>3. t \in Busy
  BY <1>1 DEF Busy
<1>4. /\ Busy' = Busy \ {t} /\ Held' = Held \ {r} /\ r \in Held /\ r \in Recs
      /\ \A u \in Busy' : arec'[u] = arec[u]
  BY <1>1, <1>3, HeldLoses, IInvParts
<1>5. r \notin lagging /\ \A k \in Tables : r \notin Owned(k)
  BY <1>4, IInvParts DEF Apart
<1>6. First("alloc") = head["alloc"] /\ Members("alloc") = Owned("alloc") /\ "alloc" \in Tables
  BY AllocFirst
<1> HIDE DEF r
<1>7. /\ ptrOf'[r] = p /\ sizeOf'[r] = z /\ allocator'[r] = c
      /\ \A x \in Recs \ {r} : ptrOf'[x] = ptrOf[x] /\ sizeOf'[x] = sizeOf[x] /\ allocator'[x] = allocator[x]
  BY <1>2, <1>4, IInvParts DEF Fill, Types
<1>8. /\ hash_next'[r] = head["alloc"] /\ head'["alloc"] = r
      /\ \A x \in Recs \ {r} : hash_next'[x] = hash_next[x]
      /\ \A k \in Tables : k # "alloc" => head'[k] = head[k]
  BY <1>1, <1>4, <1>6, IInvParts DEF Add, Types
<1>9. KeptBut({r})
  BY <1>1, <1>7, <1>8 DEF KeptBut, KeptOn, groups
<1>10. KeptOn(lagging) /\ \A k \in Tables : Owned(k) \subseteq Recs /\ KeptOn(Owned(k))
  BY <1>5, <1>9, IInvParts DEF Chains, Types, KeptBut, KeptOn
<1>11. First("alloc")' = head'["alloc"]
  <2>1. ~(On("destroy")' /\ at' = "walk" /\ Table' = "alloc")
    <3>1. ~(On("destroy") /\ at = "walk" /\ Table = "alloc")
      BY OnDestroy, IInvParts
    <3> QED  BY <1>1, <3>1 DEF On, Table
  <2> QED  BY <2>1 DEF First
<1>12. ASSUME NEW k \in Tables, k # "alloc"
       PROVE  /\ Owned(k)' = Owned(k) /\ Owned(k)' \subseteq Recs
              /\ IsChain(First(k)', hash_next', Owned(k)', NULL)
  <2>1. First(k)' = First(k)
    BY <1>1, <1>8, <1>12, SameFirst
  <2>2. \A x \in Owned(k) : hash_next'[x] = hash_next[x]
    BY <1>10 DEF KeptOn
  <2> QED  BY <2>1, <2>2, OwnedKept, IInvParts
<1>13. /\ Owned("alloc")' = Owned("alloc") \cup {r} /\ Owned("alloc")' \subseteq Recs
       /\ IsChain(First("alloc")', hash_next', Owned("alloc")', NULL)
  <2>1. IsChain(head["alloc"], hash_next, Owned("alloc"), NULL) /\ r \notin Owned("alloc")
    BY <1>5, <1>6, IInvParts DEF Chains
  <2>2. \A x \in Owned("alloc") : hash_next'[x] = hash_next[x]
    BY <1>6, <1>10 DEF KeptOn
  <2>3. IsChain(r, hash_next', Owned("alloc") \cup {r}, NULL)
    BY <1>8, <2>1, <2>2, ChainPrepend
  <2>4. First("alloc")' = r /\ Owned("alloc") \cup {r} \in SUBSET Recs
    BY <1>4, <1>6, <1>8, <1>10, <1>11
  <2>5. IsChain(First("alloc")', hash_next', Owned("alloc") \cup {r}, NULL) /\ First("alloc")' \in Recs \cup {NULL}
    BY <1>4, <2>3, <2>4
  <2> QED  BY <1>6, <2>4, <2>5, OwnedIs
<1>14. Chains'
  BY <1>12, <1>13 DEF Chains
<1>15. Apart'
  <2>1. \A j, k \in Tables : j # k => Owned(j)' \cap Owned(k)' = {}
    BY <1>5, <1>12, <1>13, IInvParts DEF Apart
  <2>2. \A k \in Tables : Owned(k)' \cap (Held' \cup lagging') = {}
    BY <1>1, <1>4, <1>5, <1>12, <1>13, IInvParts DEF Apart
  <2>3. Held' \cap lagging' = {} /\ \A u \in Busy' : arec'[u] \in Recs
    BY <1>1, <1>4, IInvParts DEF Apart
  <2>4. \A u, v \in Busy' : arec'[u] = arec'[v] => u = v
    BY <1>4, IInvParts DEF Apart
  <2> QED  BY <2>1, <2>2, <2>3, <2>4 DEF Apart
<1>16. Accounted'
  <2>1. \A x : x \in used' <=> x \in Held' \/ x \in lagging' \/ \E k \in Tables : x \in Owned(k)'
    BY <1>1, <1>4, <1>6, <1>12, <1>13, InUse, IInvParts
  <2> QED  BY <2>1, InUseNext
<1>17. Filled'
  <2>1. ASSUME NEW k \in Tables, NEW x \in Owned(k)' PROVE Block(x)' \in BlockSet
    <3>1. CASE x = r
      BY <1>2, <1>7, <3>1 DEF Block, BlockSet
    <3>2. CASE x # r
      <4>1. x \in Owned(k)
        BY <1>12, <1>13, <3>2
      <4>2. Block(x)' = Block(x)
        BY <1>10, <4>1 DEF Block, KeptOn
      <4> QED  BY <4>1, <4>2, IInvParts DEF Filled
    <3> QED  BY <3>1, <3>2
  <2> QED  BY <2>1 DEF Filled, BlockSet
<1>18. Records'
  BY <1>14, <1>15, <1>16, <1>17 DEF Records
<1>19. Aside
  BY <1>1, <1>8, <1>10, <1>12 DEF Aside, groups
<1>20. Distinct("alloc")'
  <2>1. \A q \in Owned("alloc") : ptrOf'[q] = ptrOf[q] /\ ptrOf[q] # p
    BY <1>2, <1>6, <1>10 DEF KeptOn
  <2>2. \A q, x \in Owned("alloc") : ptrOf[q] = ptrOf[x] => q = x
    BY IInvParts DEF Unique, Distinct
  <2>3. \A q, x \in Owned("alloc") \cup {r} : ptrOf'[q] = ptrOf'[x] => q = x
    BY <1>7, <2>1, <2>2
  <2> QED  BY <1>13, <2>3 DEF Distinct
<1> QED  BY <1>18, <1>19, <1>20, AsideKeeps

LEMMA AppRemoveKeeps == ASSUME IInv, NEW t \in Threads, AppRemove(t) PROVE Shape' /\ Aside
<1>1. /\ apc[t] = "idle" /\ ~ptr_mtx /\ apc' = [apc EXCEPT ![t] = "put"]
      /\ UNCHANGED <<pool, groups, ptr_mtx, todo, at, cursor, lagging>>
  BY DEF AppRemove, walk
<1>2. PICK r \in Members("alloc") :
        Remove([k \in {"alloc"} |-> r]) /\ arec' = [arec EXCEPT ![t] = r]
  BY DEF AppRemove
<1>3. First("alloc") = head["alloc"] /\ Members("alloc") = Owned("alloc") /\ "alloc" \in Tables
  BY AllocFirst
<1>4. r \in Owned("alloc") /\ r \in Recs /\ r # NULL
  BY <1>2, <1>3, RecsNotNull, IInvParts DEF Chains
<1> DEFINE gone == [k \in {"alloc"} |-> r]
<1>5. DOMAIN gone = {"alloc"} /\ gone["alloc"] = r
  OBVIOUS
<1>6. Remove(gone)
  BY <1>2
<1> HIDE DEF gone
<1>7. Gone(gone, {"alloc"})
  BY <1>3, <1>4, <1>5 DEF Gone
<1>8. /\ \A k \in Tables : head'[k] = IF k \in {"alloc"} /\ head[k] = gone[k]
                                      THEN hash_next[gone[k]] ELSE head[k]
      /\ \A x \in Recs : (\A k \in {"alloc"} : x \notin Owned(k)) => hash_next'[x] = hash_next[x]
  BY <1>6, <1>7, RemoveKeeps, IInvParts
<1>9. /\ \A k \in Tables : k # "alloc" => head'[k] = head[k]
      /\ \A x \in Recs : x \notin Owned("alloc") => hash_next'[x] = hash_next[x]
  BY <1>8
<1>10. \A S \in SUBSET Recs : S \cap Owned("alloc") = {} => KeptOn(S)
  BY <1>1, <1>9 DEF KeptOn, pool, groups
<1>11. KeptOn(lagging) /\ \A k \in Tables : k # "alloc" => KeptOn(Owned(k))
  <2>1. lagging \in SUBSET Recs /\ lagging \cap Owned("alloc") = {}
    BY <1>3, IInvParts DEF Types, Apart
  <2>2. \A k \in Tables : k # "alloc" => Owned(k) \in SUBSET Recs /\ Owned(k) \cap Owned("alloc") = {}
    BY <1>3, IInvParts DEF Chains, Apart
  <2> QED  BY <1>10, <2>1, <2>2
<1>12. First("alloc")' = head'["alloc"]
  <2>1. ~(On("destroy")' /\ at' = "walk" /\ Table' = "alloc")
    <3>1. ~(On("destroy") /\ at = "walk" /\ Table = "alloc")
      BY OnDestroy, IInvParts
    <3> QED  BY <1>1, <3>1 DEF On, Table
  <2> QED  BY <2>1 DEF First
<1>13. ASSUME NEW k \in Tables, k # "alloc"
       PROVE  /\ Owned(k)' = Owned(k) /\ Owned(k)' \subseteq Recs
              /\ IsChain(First(k)', hash_next', Owned(k)', NULL)
  <2>1. First(k)' = First(k)
    BY <1>1, <1>9, <1>13, SameFirst
  <2>2. \A x \in Owned(k) : hash_next'[x] = hash_next[x]
    BY <1>11, <1>13 DEF KeptOn
  <2> QED  BY <2>1, <2>2, OwnedKept, IInvParts
<1>14. /\ Owned("alloc")' = Owned("alloc") \ {r} /\ Owned("alloc")' \subseteq Recs
       /\ IsChain(First("alloc")', hash_next', Owned("alloc")', NULL)
  <2>1. IsChain(head["alloc"], hash_next, Owned("alloc"), NULL) /\ Owned("alloc") \subseteq Recs
        /\ NULL \notin Owned("alloc")
    BY <1>3, RecsNotNull, IInvParts DEF Chains
  <2>2. head'["alloc"] = IF head["alloc"] = r THEN hash_next[r] ELSE head["alloc"]
    BY <1>3, <1>5, <1>8
  <2>3. \A x \in Owned("alloc") :
            hash_next'[x] = IF hash_next[x] = r THEN hash_next[r] ELSE hash_next[x]
    <3>1. \A k \in {"alloc"} : \A x \in Owned(k) :
            hash_next'[x] = IF hash_next[x] = gone[k] THEN hash_next[gone[k]] ELSE hash_next[x]
      BY <1>6, <1>7, RemoveKeeps, IInvParts
    <3> QED  BY <1>5, <3>1
  <2>4. IsChain(head'["alloc"], hash_next', Owned("alloc") \ {r}, NULL)
    <3>1. \A x \in Owned("alloc") \ {r} :
            hash_next'[x] = IF hash_next[x] = r THEN hash_next[r] ELSE hash_next[x]
      BY <2>3
    <3> QED  BY <1>4, <2>1, <2>2, <3>1, ChainRemove
  <2>5. head'["alloc"] \in Recs \cup {NULL} /\ Owned("alloc") \ {r} \in SUBSET Recs
    <3>1. head' \in [Tables -> Recs \cup {NULL}]
      BY <1>6, <1>7, RemoveKeeps, IInvParts
    <3> QED  BY <1>3, <2>1, <3>1
  <2> QED  BY <1>3, <1>12, <2>4, <2>5, OwnedIs
<1>15. Chains'
  BY <1>13, <1>14 DEF Chains
<1>16. /\ Busy' = Busy \cup {t} /\ Held' = Held \cup {r} /\ t \notin Busy /\ arec'[t] = r
       /\ \A u \in Busy : arec'[u] = arec[u]
  BY <1>1, <1>2, HeldGains, IInvParts
<1>17. r \notin Held /\ r \notin lagging /\ \A k \in Tables : k # "alloc" => r \notin Owned(k)
  BY <1>3, <1>4, IInvParts DEF Apart
<1>18. Apart'
  <2>1. \A j, k \in Tables : j # k => Owned(j)' \cap Owned(k)' = {}
    BY <1>13, <1>14, IInvParts DEF Apart
  <2>2. \A k \in Tables : Owned(k)' \cap (Held' \cup lagging') = {}
    BY <1>1, <1>13, <1>14, <1>16, <1>17, IInvParts DEF Apart
  <2>3. Held' \cap lagging' = {}
    BY <1>1, <1>16, <1>17, IInvParts DEF Apart
  <2>4. \A u \in Busy' : arec'[u] \in Recs
    BY <1>4, <1>16, IInvParts DEF Apart
  <2>5. \A u \in Busy : arec'[u] # r
    BY <1>16, <1>17, HeldIs
  <2>6. \A u, v \in Busy' : arec'[u] = arec'[v] => u = v
    BY <1>16, <2>5, IInvParts DEF Apart
  <2> QED  BY <2>1, <2>2, <2>3, <2>4, <2>6 DEF Apart
<1>19. Accounted'
  <2>1. \A x : x \in used' <=> x \in Held' \/ x \in lagging' \/ \E k \in Tables : x \in Owned(k)'
    BY <1>1, <1>3, <1>4, <1>13, <1>14, <1>16, InUse, IInvParts DEF pool
  <2> QED  BY <2>1, InUseNext
<1>20. Filled'
  <2>1. \A k \in Tables : Owned(k)' \subseteq Owned(k)
    BY <1>13, <1>14
  <2> QED  BY <1>1, <2>1, IInvParts DEF Filled, Block, BlockSet, pool
<1>21. Records'
  BY <1>15, <1>18, <1>19, <1>20 DEF Records
<1>22. Aside
  BY <1>1, <1>9, <1>11, <1>13 DEF Aside, groups
<1>23. Distinct("alloc")'
  BY <1>1, <1>14, IInvParts DEF Unique, Distinct, pool
<1> QED  BY <1>21, <1>22, <1>23, AsideKeeps

LEMMA AppFreeKeeps == ASSUME IInv, NEW t \in Threads, AppFree(t) PROVE Shape' /\ Aside
<1> DEFINE r == arec[t]
<1>1. /\ apc[t] = "put" /\ Release({r})
      /\ apc' = [apc EXCEPT ![t] = "idle"] /\ arec' = [arec EXCEPT ![t] = NULL]
      /\ UNCHANGED <<head, group, ptr_mtx, todo, at, cursor, lagging>>
  BY DEF AppFree, walk
<1>2. t \in Busy
  BY <1>1 DEF Busy
<1>3. /\ Busy' = Busy \ {t} /\ Held' = Held \ {r} /\ r \in Held /\ r \in Recs
      /\ \A u \in Busy' : arec'[u] = arec[u]
  BY <1>1, <1>2, HeldLoses, IInvParts
<1> HIDE DEF r
<1>4. r \notin lagging /\ \A k \in Tables : r \notin Owned(k)
  BY <1>3, IInvParts DEF Apart
<1>5. used' = used \ {r} /\ KeptBut({r})
  <2>1. {r} \in SUBSET Recs
    BY <1>3
  <2> QED  BY <1>1, <2>1, ReleaseKeeps, IInvParts
<1>6. KeptOn(lagging) /\ \A k \in Tables : Owned(k) \subseteq Recs /\ KeptOn(Owned(k))
  BY <1>4, <1>5, IInvParts DEF Chains, Types, KeptBut, KeptOn
<1>7. \A k \in Tables : /\ Owned(k)' = Owned(k) /\ Owned(k)' \subseteq Recs
                        /\ IsChain(First(k)', hash_next', Owned(k)', NULL)
  <2>1. ASSUME NEW k \in Tables
        PROVE  /\ Owned(k)' = Owned(k) /\ Owned(k)' \subseteq Recs
               /\ IsChain(First(k)', hash_next', Owned(k)', NULL)
    <3>1. First(k)' = First(k)
      BY <1>1, SameFirst
    <3>2. \A x \in Owned(k) : hash_next'[x] = hash_next[x]
      BY <1>6 DEF KeptOn
    <3> QED  BY <3>1, <3>2, OwnedKept, IInvParts
  <2> QED  BY <2>1
<1>8. Chains'
  BY <1>7 DEF Chains
<1>9. Apart'
  <2>1. \A j, k \in Tables : j # k => Owned(j)' \cap Owned(k)' = {}
    BY <1>7, IInvParts DEF Apart
  <2>2. \A k \in Tables : Owned(k)' \cap (Held' \cup lagging') = {}
    BY <1>1, <1>3, <1>7, IInvParts DEF Apart
  <2>3. Held' \cap lagging' = {} /\ \A u \in Busy' : arec'[u] \in Recs
    BY <1>1, <1>3, IInvParts DEF Apart
  <2>4. \A u, v \in Busy' : arec'[u] = arec'[v] => u = v
    BY <1>3, IInvParts DEF Apart
  <2> QED  BY <2>1, <2>2, <2>3, <2>4 DEF Apart
<1>10. Accounted'
  <2>1. \A x : x \in used' <=> x \in Held' \/ x \in lagging' \/ \E k \in Tables : x \in Owned(k)'
    BY <1>1, <1>3, <1>4, <1>5, <1>7, InUse, IInvParts
  <2> QED  BY <2>1, InUseNext
<1>11. Filled'
  BY <1>6, <1>7, IInvParts DEF Filled, Block, BlockSet, KeptOn
<1>12. Records'
  BY <1>8, <1>9, <1>10, <1>11 DEF Records
<1>13. Aside
  BY <1>1, <1>6, <1>7 DEF Aside
<1>14. Distinct("alloc")'
  BY <1>6, <1>7, TableNames, IInvParts DEF Unique, Distinct, KeptOn
<1> QED  BY <1>12, <1>13, <1>14, AsideKeeps

-----------------------------------------------------------------------------
(* Copying, giving back and linking a record *)

\* Record r of table T is a copy of the block at the cursor.
GetsCopy(T, r) ==
    /\ r \notin Owned(T) /\ Owned(T)' = Owned(T) \cup {r} /\ SameBlocks(Owned(T))
    /\ cursor \in Ahead /\ Ahead' = Ahead \ {cursor} /\ Block(r)' = Block(cursor)
    /\ \A k \in Tables \ {T} : SameTable(k)

LEMMA DuplicateRecordKeeps ==
    ASSUME IInv, DuplicateRecord
    PROVE  Shape' /\ \E T \in Tables, r \in Recs : T = Table /\ GetsCopy(T, r)
<1>1. /\ On("duplicate") /\ at = "walk" /\ cursor # NULL /\ cursor' = hash_next[cursor]
      /\ UNCHANGED <<group, ptr_mtx, apc, arec, todo, at, lagging>>
  BY DEF DuplicateRecord, threads
<1>2. PICK r \in Recs :
        /\ Allocate(r) /\ Fill(r, Block(cursor)) /\ Add(Table, r)
        /\ same_callstack_group_prev' = [same_callstack_group_prev EXCEPT ![r] = NULL]
        /\ same_callstack_group_next' = [same_callstack_group_next EXCEPT ![r] = NULL]
  BY DEF DuplicateRecord
<1>3. /\ Table \in {"copy", "snapshot", "snapshot_copy"} /\ Source[Table] \in Tables \ {Table}
      /\ Table = "snapshot" => Do("destroy", "snapshot") \notin Left
      /\ Table = "snapshot" => Do("offset", "copy") \notin Left
      /\ \A k \in Copies : Do("reset", k) \in Left => Do("link", k) \in Left
      /\ ~On("destroy") /\ ~On("link") /\ ~On("offset")
  BY <1>1, OnDuplicate, IInvParts
<1>4. PICK T \in Tables : T = Table
  BY <1>3, TableNames
<1>5. PICK S \in Tables : S = Source[Table]
  BY <1>3
<1>6. T # S /\ T # "alloc" /\ S \in {"alloc", "snapshot"}
  BY <1>3, <1>4, <1>5, TableNames
<1>7. On("duplicate")' /\ ~On("destroy")' /\ ~On("link")' /\ ~On("offset")' /\ Table' = T /\ Left' = Left
  BY <1>1, <1>3, <1>4 DEF On, Table, Left
<1>8. r \notin used /\ used' = used \cup {r}
  BY <1>2, AllocateFree, IInvParts
<1>9. r \notin Held /\ r \notin lagging /\ \A k \in Tables : r \notin Owned(k)
  BY <1>8, InUse, IInvParts
<1>10. IsChain(cursor, hash_next, Ahead, NULL) /\ Ahead \subseteq Owned(S) /\ Ahead \subseteq Recs /\ NULL \notin Ahead
  <2>1. IsChain(cursor, hash_next, Ahead, NULL) /\ Ahead \subseteq Owned(S)
    BY <1>1, <1>5, IInvParts DEF Walks
  <2>2. Owned(S) \subseteq Recs
    BY IInvParts DEF Chains
  <2> QED  BY <2>1, <2>2, RecsNotNull
<1>11. cursor \in Ahead /\ IsChain(hash_next[cursor], hash_next, Ahead \ {cursor}, NULL)
  BY <1>1, <1>10, ChainTail
<1>12. cursor \in Owned(S) /\ cursor \in Recs /\ cursor # r /\ r \notin Ahead
  BY <1>9, <1>10, <1>11
<1>13. /\ ptrOf'[r] = ptrOf[cursor] /\ sizeOf'[r] = sizeOf[cursor] /\ allocator'[r] = allocator[cursor]
       /\ \A x \in Recs \ {r} : ptrOf'[x] = ptrOf[x] /\ sizeOf'[x] = sizeOf[x] /\ allocator'[x] = allocator[x]
  BY <1>2, IInvParts DEF Fill, Types, Block
<1>14. /\ hash_next'[r] = head[T] /\ head'[T] = r
       /\ \A x \in Recs \ {r} : hash_next'[x] = hash_next[x]
       /\ \A k \in Tables : k # T => head'[k] = head[k]
  BY <1>2, <1>4, IInvParts DEF Add, Types
<1>15. \A x \in Recs \ {r} : /\ same_callstack_group_next'[x] = same_callstack_group_next[x]
                             /\ same_callstack_group_prev'[x] = same_callstack_group_prev[x]
  BY <1>2, IInvParts DEF Types
<1>16. KeptBut({r})
  BY <1>13, <1>14, <1>15 DEF KeptBut, KeptOn
<1>17. \A k \in Tables : Owned(k) \subseteq Recs /\ KeptOn(Owned(k))
  BY <1>9, <1>16, IInvParts DEF Chains, KeptBut, KeptOn
<1>18. \A k \in Tables : First(k) = head[k] /\ First(k)' = head'[k]
  BY <1>3, <1>7 DEF First
<1>19. ASSUME NEW k \in Tables, k # T
       PROVE  /\ Owned(k)' = Owned(k) /\ Owned(k)' \subseteq Recs
              /\ IsChain(First(k)', hash_next', Owned(k)', NULL)
  <2>1. First(k)' = First(k) /\ \A x \in Owned(k) : hash_next'[x] = hash_next[x]
    BY <1>14, <1>17, <1>18, <1>19 DEF KeptOn
  <2> QED  BY <2>1, OwnedKept, IInvParts
<1>20. /\ Owned(T)' = Owned(T) \cup {r} /\ Owned(T)' \subseteq Recs
       /\ IsChain(First(T)', hash_next', Owned(T)', NULL)
  <2>1. IsChain(head[T], hash_next, Owned(T), NULL) /\ r \notin Owned(T)
    BY <1>9, <1>18, IInvParts DEF Chains
  <2>2. \A x \in Owned(T) : hash_next'[x] = hash_next[x]
    BY <1>17 DEF KeptOn
  <2>3. IsChain(r, hash_next', Owned(T) \cup {r}, NULL)
    BY <1>14, <2>1, <2>2, ChainPrepend
  <2>4. First(T)' = r /\ r \in Recs \cup {NULL} /\ Owned(T) \cup {r} \in SUBSET Recs
    BY <1>14, <1>17, <1>18
  <2>5. IsChain(First(T)', hash_next', Owned(T) \cup {r}, NULL) /\ First(T)' \in Recs \cup {NULL}
    BY <2>3, <2>4
  <2> QED  BY <2>4, <2>5, OwnedIs
<1>21. Chains'
  BY <1>19, <1>20 DEF Chains
<1>22. Held' = Held /\ Busy' = Busy /\ lagging' = lagging
  BY <1>1 DEF Held, Busy
<1>23. Apart'
  <2>1. \A j, k \in Tables : j # k => Owned(j)' \cap Owned(k)' = {}
    BY <1>9, <1>19, <1>20, IInvParts DEF Apart
  <2>2. \A k \in Tables : Owned(k)' \cap (Held' \cup lagging') = {}
    BY <1>9, <1>19, <1>20, <1>22, IInvParts DEF Apart
  <2>3. Held' \cap lagging' = {} /\ \A u \in Busy' : arec'[u] \in Recs
    BY <1>1, <1>22, IInvParts DEF Apart
  <2>4. \A u, v \in Busy' : arec'[u] = arec'[v] => u = v
    BY <1>1, <1>22, IInvParts DEF Apart
  <2> QED  BY <2>1, <2>2, <2>3, <2>4 DEF Apart
<1>24. Accounted'
  <2>1. \A x : x \in used' <=> x \in Held' \/ x \in lagging' \/ \E k \in Tables : x \in Owned(k)'
    BY <1>8, <1>19, <1>20, <1>22, InUse, IInvParts
  <2> QED  BY <2>1, InUseNext
<1>25. Filled'
  <2>1. ASSUME NEW k \in Tables, NEW x \in Owned(k)' PROVE Block(x)' \in BlockSet
    <3>1. CASE x = r
      <4>1. Block(x)' = Block(cursor)
        BY <1>13, <3>1 DEF Block
      <4> QED  BY <1>12, <4>1, IInvParts DEF Filled
    <3>2. CASE x # r
      <4>1. x \in Owned(k)
        BY <1>19, <1>20, <3>2
      <4>2. Block(x)' = Block(x)
        BY <1>17, <4>1 DEF Block, KeptOn
      <4> QED  BY <4>1, <4>2, IInvParts DEF Filled
    <3> QED  BY <3>1, <3>2
  <2> QED  BY <2>1 DEF Filled, BlockSet
<1>26. Records'
  BY <1>21, <1>23, <1>24, <1>25 DEF Records
<1>27. Places'
  BY <1>1, <1>3, <1>7, IInvParts DEF Places
<1>28. Ahead' = Ahead \ {cursor} /\ IsChain(cursor', hash_next', Ahead', NULL)
  <2>1. \A x \in Ahead \ {cursor} : hash_next'[x] = hash_next[x]
    BY <1>10, <1>12, <1>14
  <2>2. IsChain(hash_next[cursor], hash_next', Ahead \ {cursor}, NULL)
    BY <1>11, <2>1, ChainSame
  <2>3. cursor' \in Recs \cup {NULL} /\ Ahead \ {cursor} \in SUBSET Recs
    BY <1>1, <1>10, <1>12, IInvParts DEF Types
  <2>4. IsChain(cursor', hash_next', Ahead \ {cursor}, NULL)
    BY <1>1, <2>2
  <2> QED  BY <2>3, <2>4, AheadIs
<1>29. Walks'
  <2>1. Source[Table'] = S /\ Owned(S)' = Owned(S)
    BY <1>4, <1>5, <1>6, <1>7, <1>19
  <2>2. Ahead' \subseteq Owned(Source[Table])'
    BY <1>10, <1>28, <2>1
  <2> QED  BY <1>1, <1>7, <1>28, <2>2 DEF Walks
<1>30. Unique'
  <2>0. Copies \cup {"snapshot"} \subseteq Tables /\ "alloc" \in Tables
    BY TableNames
  <2>1. ASSUME NEW k \in Tables, k # T, Distinct(k) PROVE Distinct(k)'
    BY <1>17, <1>19, <2>1 DEF Distinct, KeptOn
  <2>2. ASSUME FreshCopy(T) PROVE \A q \in Owned(T), x \in Ahead : ptrOf[q] # ptrOf[x]
    <3>1. T \in Copies \cup {"snapshot"} /\ Do("duplicate", T) \in Left
      BY <1>1, <1>3, <1>4, TableNames, OnIs, IInvParts
    <3> QED  BY <1>1, <1>4, <2>2, <3>1, IInvParts DEF Unique
  <2>3. ASSUME FreshCopy(T), Distinct(T) PROVE Distinct(T)'
    <3>1. \A q \in Owned(T) : ptrOf'[q] = ptrOf[q] /\ ptrOf[q] # ptrOf'[r]
      BY <1>11, <1>13, <1>17, <2>2, <2>3 DEF KeptOn
    <3> QED  BY <1>20, <2>3, <3>1 DEF Distinct
  <2>4. Distinct("alloc")' /\ Distinct("snapshot")'
    <3>1. Distinct("alloc") /\ Distinct("snapshot")
      BY IInvParts DEF Unique
    <3>2. T = "snapshot" => FreshCopy(T)
      BY <1>3, <1>4 DEF FreshCopy
    <3> QED  BY <1>6, <2>0, <2>1, <2>3, <3>1, <3>2
  <2>5. ASSUME Do("offset", "copy") \in Left', NEW k \in Copies PROVE Distinct(k)'
    <3>1. Distinct(k) /\ k \in Tables /\ FreshCopy(k)
      BY <1>7, <2>0, <2>5, TableNames, IInvParts DEF Unique, FreshCopy
    <3> QED  BY <2>1, <2>3, <3>1
  <2>6. ASSUME NEW k \in Copies \cup {"snapshot"}, Do("duplicate", k) \in Left', FreshCopy(k)', k # T
        PROVE  head'[k] = NULL
    <3>1. Do("duplicate", k) \in Left /\ FreshCopy(k) /\ k \in Tables
      BY <1>7, <2>0, <2>6 DEF FreshCopy
    <3> QED  BY <1>4, <1>14, <2>6, <3>1, IInvParts DEF Unique
  <2>7. ASSUME FreshCopy(T)'
        PROVE  \A q \in Owned(T)', x \in Ahead' : ptrOf'[q] # ptrOf'[x]
    <3>1. FreshCopy(T)
      BY <1>7, <2>7 DEF FreshCopy
    <3>2. \A x \in Ahead : ptrOf'[x] = ptrOf[x] /\ x \in Owned(S)
      BY <1>10, <1>17 DEF KeptOn
    <3>3. \A q \in Owned(T) : ptrOf'[q] = ptrOf[q]
      BY <1>17 DEF KeptOn
    <3>4. Distinct(S)
      BY <1>6, IInvParts DEF Unique
    <3>5. \A x \in Ahead' : ptrOf'[r] # ptrOf'[x]
      BY <1>12, <1>13, <1>28, <3>2, <3>4 DEF Distinct
    <3> QED  BY <1>20, <1>28, <2>2, <3>1, <3>2, <3>3, <3>5
  <2>8. ASSUME NEW k \in Copies \cup {"snapshot"}, Do("duplicate", k) \in Left', FreshCopy(k)'
        PROVE  IF On("duplicate")' /\ Table' = k /\ at' = "walk"
               THEN \A q \in Owned(k)', x \in Ahead' : ptrOf'[q] # ptrOf'[x]
               ELSE head'[k] = NULL
    BY <1>1, <1>7, <2>6, <2>7, <2>8
  <2> QED  BY <2>4, <2>5, <2>8 DEF Unique
<1>31. Lists'
  <2>1. ASSUME NEW k \in Copies, Do("reset", k) \in Left', NEW c \in Callstacks
        PROVE  Doubly(group'[c][LINK[k]], same_callstack_group_next', same_callstack_group_prev',
                      {x \in Listed(k)' : allocator'[x] = c})
    <3>1. Do("reset", k) \in Left /\ Do("link", k) \in Left
      BY <1>3, <1>7, <2>1
    <3>2. Listed(k) = {} /\ Listed(k)' = {}
      BY <1>3, <1>7, <3>1 DEF Listed
    <3>3. Doubly(group[c][LINK[k]], same_callstack_group_next, same_callstack_group_prev,
                 {x \in Listed(k) : allocator[x] = c})
      BY <3>1, IInvParts DEF Lists
    <3>4. Doubly(group[c][LINK[k]], same_callstack_group_next, same_callstack_group_prev, {})
      BY <3>2, <3>3
    <3>5. Doubly(group[c][LINK[k]], same_callstack_group_next', same_callstack_group_prev', {})
      BY <3>4, DoublySame
    <3> QED  BY <1>1, <3>2, <3>5
  <2> QED  BY <2>1 DEF Lists
<1>32. GetsCopy(T, r)
  <2>1. \A k \in Tables : SameBlocks(Owned(k))
    BY <1>17 DEF SameBlocks, Block, KeptOn
  <2>2. \A k \in Tables \ {T} : SameTable(k)
    BY <1>19, <2>1 DEF SameTable
  <2>3. Block(r)' = Block(cursor)
    BY <1>13 DEF Block
  <2> QED  BY <1>9, <1>11, <1>20, <1>28, <2>1, <2>2, <2>3 DEF GetsCopy
<1> QED  BY <1>4, <1>26, <1>27, <1>29, <1>30, <1>31, <1>32 DEF Shape

\* Table T is rid of the record at the cursor.
GivesBack(T) ==
    /\ cursor \in Owned(T) /\ Owned(T)' = Owned(T) \ {cursor} /\ SameBlocks(Owned(T))
    /\ \A k \in Tables \ {T} : SameTable(k)

LEMMA DestroyRecordKeeps ==
    ASSUME IInv, DestroyRecord
    PROVE  Shape' /\ \E T \in Tables : T = Table /\ GivesBack(T)
<1>1. /\ On("destroy") /\ at = "walk" /\ cursor # NULL /\ cursor' = hash_next[cursor]
      /\ Release(lagging) /\ lagging' = {cursor}
      /\ UNCHANGED <<head, group, ptr_mtx, apc, arec, todo, at>>
  BY DEF DestroyRecord, threads
<1>2. /\ ~On("duplicate") /\ ~On("link") /\ ~On("offset") /\ \A k \in Copies : Do("reset", k) \notin Left
      /\ Table \in Tables
  BY <1>1, OnDestroy, IInvParts, TableNames
<1>3. PICK T \in Tables : T = Table
  BY <1>2
<1>4. On("destroy")' /\ ~On("duplicate")' /\ ~On("link")' /\ ~On("offset")' /\ Table' = T /\ Left' = Left
  BY <1>1, <1>2, <1>3 DEF On, Table, Left
<1>5. lagging \in SUBSET Recs
  BY IInvParts DEF Types
<1>6. used' = used \ lagging /\ KeptBut(lagging)
  BY <1>1, <1>5, ReleaseKeeps, IInvParts
<1>7. \A k \in Tables : Owned(k) \subseteq Recs /\ KeptOn(Owned(k))
  BY <1>6, IInvParts DEF Chains, Apart, KeptBut, KeptOn
<1>8. First(T) = cursor /\ First(T)' = cursor' /\ \A k \in Tables : k # T => First(k)' = First(k)
  BY <1>1, <1>3, <1>4 DEF First
<1>9. IsChain(cursor, hash_next, Owned(T), NULL) /\ NULL \notin Owned(T)
  BY <1>7, <1>8, RecsNotNull, IInvParts DEF Chains
<1>10. cursor \in Owned(T) /\ IsChain(hash_next[cursor], hash_next, Owned(T) \ {cursor}, NULL)
  BY <1>1, <1>9, ChainTail
<1>11. /\ Owned(T)' = Owned(T) \ {cursor} /\ Owned(T)' \subseteq Recs
       /\ IsChain(First(T)', hash_next', Owned(T)', NULL)
  <2>1. \A x \in Owned(T) \ {cursor} : hash_next'[x] = hash_next[x]
    BY <1>7 DEF KeptOn
  <2>2. IsChain(hash_next[cursor], hash_next', Owned(T) \ {cursor}, NULL)
    BY <1>10, <2>1, ChainSame
  <2>3. First(T)' = hash_next[cursor] /\ First(T)' \in Recs \cup {NULL} /\ Owned(T) \ {cursor} \in SUBSET Recs
    BY <1>1, <1>7, <1>8, <1>10, IInvParts DEF Types
  <2>4. IsChain(First(T)', hash_next', Owned(T) \ {cursor}, NULL)
    BY <2>2, <2>3
  <2> QED  BY <2>3, <2>4, OwnedIs
<1>12. ASSUME NEW k \in Tables, k # T
       PROVE  /\ Owned(k)' = Owned(k) /\ Owned(k)' \subseteq Recs
              /\ IsChain(First(k)', hash_next', Owned(k)', NULL)
  <2>1. First(k)' = First(k) /\ \A x \in Owned(k) : hash_next'[x] = hash_next[x]
    BY <1>7, <1>8, <1>12 DEF KeptOn
  <2> QED  BY <2>1, OwnedKept, IInvParts
<1>13. Chains'
  BY <1>11, <1>12 DEF Chains
<1>14. Held' = Held /\ Busy' = Busy
  BY <1>1 DEF Held, Busy
<1>15. Apart'
  <2>1. \A j, k \in Tables : j # k => Owned(j)' \cap Owned(k)' = {}
    BY <1>11, <1>12, IInvParts DEF Apart
  <2>2. \A k \in Tables : cursor \notin Owned(k)'
    BY <1>10, <1>11, <1>12, IInvParts DEF Apart
  <2>3. \A k \in Tables : Owned(k)' \cap (Held' \cup lagging') = {}
    BY <1>1, <1>11, <1>12, <1>14, <2>2, IInvParts DEF Apart
  <2>4. Held' \cap lagging' = {}
    BY <1>1, <1>10, <1>14, IInvParts DEF Apart
  <2>5. \A u \in Busy' : arec'[u] \in Recs
    BY <1>1, <1>14, IInvParts DEF Apart
  <2>6. \A u, v \in Busy' : arec'[u] = arec'[v] => u = v
    BY <1>1, <1>14, IInvParts DEF Apart
  <2> QED  BY <2>1, <2>3, <2>4, <2>5, <2>6 DEF Apart
<1>16. Accounted'
  <2>1. \A x : x \in lagging => x \notin Held /\ \A k \in Tables : x \notin Owned(k)
    BY IInvParts DEF Apart
  <2>2. \A x : x \in used' <=> x \in Held' \/ x \in lagging' \/ \E k \in Tables : x \in Owned(k)'
    BY <1>1, <1>6, <1>10, <1>11, <1>12, <1>14, <2>1, InUse, IInvParts
  <2> QED  BY <2>2, InUseNext
<1>17. \A k \in Tables : Owned(k)' \subseteq Owned(k)
  BY <1>11, <1>12
<1>18. Filled'
  BY <1>7, <1>17, IInvParts DEF Filled, Block, KeptOn
<1>19. Records'
  BY <1>13, <1>15, <1>16, <1>18 DEF Records
<1>20. Places'
  <2>1. Plan(todo') /\ at' = "walk"
    BY <1>1, IInvParts
  <2>2. ptr_mtx' <=> ~On("link")'
    BY <1>1, <1>2, <1>4, IInvParts DEF Places
  <2> QED  BY <1>4, <2>1, <2>2 DEF Places
<1>21. Walks'
  BY <1>1, <1>4 DEF Walks
<1>22. Unique'
  <2>1. \A k \in Tables : Distinct(k) => Distinct(k)'
    BY <1>7, <1>17 DEF Distinct, KeptOn
  <2>2. Copies \cup {"snapshot"} \subseteq Tables /\ "alloc" \in Tables
    BY TableNames
  <2>3. Distinct("alloc")' /\ Distinct("snapshot")'
    BY <2>1, <2>2, IInvParts DEF Unique
  <2>4. Do("offset", "copy") \in Left' => \A k \in Copies : Distinct(k)'
    BY <1>4, <2>1, <2>2, IInvParts DEF Unique
  <2>5. ASSUME NEW k \in Copies \cup {"snapshot"}, Do("duplicate", k) \in Left', FreshCopy(k)'
        PROVE  head'[k] = NULL
    <3>1. Do("duplicate", k) \in Left /\ FreshCopy(k)
      BY <1>4, <2>5 DEF FreshCopy
    <3> QED  BY <1>1, <1>2, <3>1, IInvParts DEF Unique
  <2> QED  BY <1>4, <2>3, <2>4, <2>5 DEF Unique
<1>23. Lists'
  BY <1>2, <1>4 DEF Lists
<1>24. GivesBack(T)
  <2>1. \A k \in Tables : SameBlocks(Owned(k))
    BY <1>7 DEF SameBlocks, Block, KeptOn
  <2>2. \A k \in Tables \ {T} : SameTable(k)
    BY <1>12, <2>1 DEF SameTable
  <2> QED  BY <1>10, <1>11, <2>1, <2>2 DEF GivesBack
<1> QED  BY <1>3, <1>19, <1>20, <1>21, <1>22, <1>23, <1>24 DEF Shape

\* The worker frees what it has kept for an iteration.
LEMMA ReleaseRecords ==
    ASSUME IInv, Release(lagging), lagging' = {}, UNCHANGED <<apc, arec>>,
           \A k \in Tables : First(k)' = First(k)
    PROVE  /\ Records'
           /\ \A k \in Tables : Owned(k)' = Owned(k) /\ KeptOn(Owned(k)) /\ (Distinct(k) => Distinct(k)')
<1>1. lagging \in SUBSET Recs
  BY IInvParts DEF Types
<1>2. used' = used \ lagging /\ KeptBut(lagging)
  BY <1>1, ReleaseKeeps, IInvParts
<1>3. \A k \in Tables : Owned(k) \subseteq Recs /\ KeptOn(Owned(k))
  BY <1>2, IInvParts DEF Chains, Apart, KeptBut, KeptOn
<1>4. \A k \in Tables : /\ Owned(k)' = Owned(k) /\ Owned(k)' \subseteq Recs
                        /\ IsChain(First(k)', hash_next', Owned(k)', NULL)
  <2>1. ASSUME NEW k \in Tables
        PROVE  /\ Owned(k)' = Owned(k) /\ Owned(k)' \subseteq Recs
               /\ IsChain(First(k)', hash_next', Owned(k)', NULL)
    <3>1. \A x \in Owned(k) : hash_next'[x] = hash_next[x]
      BY <1>3 DEF KeptOn
    <3> QED  BY <3>1, OwnedKept, IInvParts
  <2> QED  BY <2>1
<1>5. Chains'
  BY <1>4 DEF Chains
<1>6. Held' = Held /\ Busy' = Busy
  BY DEF Held, Busy
<1>7. Apart'
  <2>1. \A j, k \in Tables : j # k => Owned(j)' \cap Owned(k)' = {}
    BY <1>4, IInvParts DEF Apart
  <2>2. \A k \in Tables : Owned(k)' \cap (Held' \cup lagging') = {}
    BY <1>4, <1>6, IInvParts DEF Apart
  <2>3. Held' \cap lagging' = {} /\ \A u \in Busy' : arec'[u] \in Recs
    BY <1>6, IInvParts DEF Apart
  <2>4. \A u, v \in Busy' : arec'[u] = arec'[v] => u = v
    BY <1>6, IInvParts DEF Apart
  <2> QED  BY <2>1, <2>2, <2>3, <2>4 DEF Apart
<1>8. Accounted'
  <2>1. \A x : x \in lagging => x \notin Held /\ \A k \in Tables : x \notin Owned(k)
    BY IInvParts DEF Apart
  <2>2. \A x : x \in used' <=> x \in Held' \/ x \in lagging' \/ \E k \in Tables : x \in Owned(k)'
    BY <1>2, <1>4, <1>6, <2>1, InUse, IInvParts
  <2> QED  BY <2>2, InUseNext
<1>9. Filled'
  BY <1>3, <1>4, IInvParts DEF Filled, Block, KeptOn
<1>10. \A k \in Tables : Distinct(k) => Distinct(k)'
  BY <1>3, <1>4 DEF Distinct, KeptOn
<1> QED  BY <1>3, <1>4, <1>5, <1>7, <1>8, <1>9, <1>10 DEF Records

LEMMA DestroyEndKeeps == ASSUME IInv, DestroyEnd PROVE Shape'
<1>1. /\ On("destroy") /\ at = "walk" /\ cursor = NULL /\ Release(lagging) /\ lagging' = {}
      /\ head' = [head EXCEPT ![Table] = NULL] /\ ~ptr_mtx' /\ todo' = Tail(todo) /\ at' = "start"
      /\ UNCHANGED <<group, apc, arec, cursor>>
  BY DEF DestroyEnd, NextOp, threads
<1>2. /\ ~On("duplicate") /\ ~On("link") /\ ~On("offset") /\ Do("offset", "copy") \notin Left
      /\ \A k \in Copies : Do("reset", k) \notin Left /\ Do("duplicate", k) \notin Left
      /\ Table \in Tables
  BY <1>1, OnDestroy, IInvParts, TableNames
<1>3. PICK T \in Tables : T = Table
  BY <1>2
<1>4. Plan(todo') /\ Left' = Left \ {Do("destroy", T)}
  <2>1. Head(todo) = Do("destroy", T) /\ todo # <<>>
    BY <1>1, <1>3, OnIs, IInvParts
  <2>2. Plan(todo') /\ Left' = Left \ {Head(todo)}
    BY <1>1, <2>1, NextOpIs, IInvParts
  <2> QED  BY <2>1, <2>2
<1>5. /\ First(T) = NULL /\ First(T)' = NULL /\ head'[T] = NULL
      /\ \A k \in Tables : k # T => First(k)' = First(k) /\ head'[k] = head[k]
  BY <1>1, <1>3, IInvParts DEF First, Types
<1>6. \A k \in Tables : First(k)' = First(k)
  BY <1>5
<1>7. /\ Records' /\ \A k \in Tables : Distinct(k) => Distinct(k)'
  BY <1>1, <1>6, ReleaseRecords
<1>8. Places'
  BY <1>1, <1>4 DEF Places
<1>9. Walks'
  BY <1>1 DEF Walks
<1>10. Unique'
  <2>1. \A k \in Tables : Distinct(k) => Distinct(k)'
    BY <1>7
  <2>2. Copies \cup {"snapshot"} \subseteq Tables /\ "alloc" \in Tables
    BY TableNames
  <2>3. Distinct("alloc")' /\ Distinct("snapshot")'
    BY <2>1, <2>2, IInvParts DEF Unique
  <2>4. Do("offset", "copy") \notin Left'
    BY <1>2, <1>4
  <2>5. \A k \in Copies : Do("duplicate", k) \notin Left'
    BY <1>2, <1>4
  <2>6. ASSUME Do("duplicate", "snapshot") \in Left', FreshCopy("snapshot")' PROVE head'["snapshot"] = NULL
    <3>1. CASE T = "snapshot"
      BY <1>5, <3>1
    <3>2. CASE T # "snapshot"
      <4>1. Do("destroy", "snapshot") \notin Left /\ Do("duplicate", "snapshot") \in Left
        BY <1>4, <2>6, <3>2, DoIs DEF FreshCopy
      <4>2. head["snapshot"] = NULL
        BY <1>2, <4>1, IInvParts DEF Unique, FreshCopy
      <4> QED  BY <1>5, <2>2, <3>2, <4>2
    <3> QED  BY <3>1, <3>2
  <2> QED  BY <1>1, <2>3, <2>4, <2>5, <2>6 DEF Unique
<1>11. Lists'
  BY <1>2, <1>4 DEF Lists
<1> QED  BY <1>7, <1>8, <1>9, <1>10, <1>11 DEF Shape

LEMMA LinkRecordKeeps == ASSUME IInv, LinkRecord PROVE Shape'
<1> DEFINE c == allocator[cursor]
           first == group[c][LINK[Table]]
<1>1. /\ On("link") /\ at = "walk" /\ cursor # NULL /\ cursor' = hash_next[cursor]
      /\ UNCHANGED <<pool, chains, ptr_mtx, apc, arec, todo, at, lagging>>
  BY DEF LinkRecord, threads
<1>2. /\ same_callstack_group_next' = [same_callstack_group_next EXCEPT ![cursor] = first]
      /\ same_callstack_group_prev' = [q \in Recs |->
            CASE q = cursor -> NULL [] q = first -> cursor [] OTHER -> same_callstack_group_prev[q]]
      /\ group' = [group EXCEPT ![c][LINK[Table]] = cursor]
  BY DEF LinkRecord
<1>3. /\ ~On("duplicate") /\ ~On("destroy") /\ ~On("offset") /\ Table \in Copies /\ Table \in Tables
      /\ Do("link", Table) \in Left /\ Do("reset", Table) \in Left
  <2>1. Do("link", Table) \in Left /\ Table \in Copies
    BY <1>1, OnIs, OnLink, IInvParts
  <2>2. Do("reset", Table) \in Left
    BY <2>1, IInvParts DEF Plan, Complete, Left
  <2> QED  BY <1>1, <2>1, <2>2, OnLink, TableNames, IInvParts
<1>4. PICK T \in Copies : T = Table
  BY <1>3
<1>5. T \in Tables /\ LINK[T] \in Links /\ \A k \in Copies : k # T => LINK[k] # LINK[T]
  BY TableNames
<1>6. /\ On("link")' /\ ~On("duplicate")' /\ ~On("destroy")' /\ ~On("offset")' /\ Table' = T
      /\ Left' = Left
  BY <1>1, <1>3, <1>4 DEF On, Table, Left
<1>7. \A k \in Tables : First(k)' = First(k)
  BY <1>1, <1>3, <1>6 DEF First, chains
<1>8. Records' /\ \A k \in Tables : Owned(k)' = Owned(k)
  BY <1>1, <1>7, Steady
<1>9. \A k \in Tables : Owned(k) \subseteq Recs
  BY IInvParts DEF Chains
<1>10. IsChain(cursor, hash_next, Ahead, NULL) /\ Ahead \subseteq Owned(T) /\ NULL \notin Ahead
  <2>1. IsChain(cursor, hash_next, Ahead, NULL) /\ Ahead \subseteq Owned(T)
    BY <1>1, <1>4, IInvParts DEF Walks
  <2> QED  BY <1>5, <1>9, <2>1, RecsNotNull
<1>11. cursor \in Ahead /\ IsChain(hash_next[cursor], hash_next, Ahead \ {cursor}, NULL)
  BY <1>1, <1>10, ChainTail
<1>12. cursor \in Owned(T) /\ cursor \in Recs
  BY <1>5, <1>9, <1>10, <1>11
<1>13. Ahead' = Ahead \ {cursor} /\ IsChain(cursor', hash_next', Ahead', NULL)
  <2>1. IsChain(cursor', hash_next', Ahead \ {cursor}, NULL)
    BY <1>1, <1>11 DEF chains
  <2>2. cursor' \in Recs \cup {NULL} /\ Ahead \ {cursor} \in SUBSET Recs
    BY <1>1, <1>5, <1>9, <1>10, <1>12, IInvParts DEF Types
  <2> QED  BY <2>1, <2>2, AheadIs
<1>14. Places'
  <2>1. Plan(todo') /\ at' = "walk" /\ lagging' = {}
    BY <1>1, <1>3, InHand, OnlyOn, IInvParts
  <2>2. ptr_mtx' <=> ~On("link")'
    BY <1>1, <1>6, IInvParts DEF Places
  <2> QED  BY <1>6, <2>1, <2>2 DEF Places
<1>15. Walks'
  <2>1. Owned(T)' = Owned(T) /\ Ahead' \subseteq Owned(T)
    BY <1>5, <1>8, <1>10, <1>13
  <2>2. Ahead' \subseteq Owned(Table)'
    BY <1>6, <2>1
  <2> QED  BY <1>1, <1>6, <1>13, <2>2 DEF Walks
<1>16. Unique'
  BY <1>1, <1>3, <1>8, UniqueKept DEF chains
<1>17. c \in Callstacks
  <2>1. Block(cursor) \in BlockSet
    BY <1>5, <1>12, IInvParts DEF Filled
  <2> QED  BY <2>1 DEF Block, BlockSet
<1> DEFINE S(d, k) == {r \in Listed(k) : allocator[r] = d}
<1>18. /\ Listed(T) = Owned(T) \ Ahead /\ Listed(T)' = Listed(T) \cup {cursor} /\ cursor \notin Listed(T)
       /\ \A k \in Copies : k # T => Listed(k)' = Listed(k)
       /\ \A k \in Copies : Listed(k) \subseteq Owned(k)
  <2>1. Listed(T) = Owned(T) \ Ahead
    BY <1>1, <1>3, <1>4 DEF Listed
  <2>2. Listed(T)' = Owned(T) \ (Ahead \ {cursor})
    <3>1. Listed(T)' = Owned(T)' \ Ahead'
      BY <1>1, <1>3, <1>4, <1>6 DEF Listed
    <3> QED  BY <1>5, <1>8, <1>13, <3>1
  <2>3. \A k \in Copies : k # T => Listed(k)' = Listed(k)
    <3>1. \A k \in Copies : k \in Tables
      BY TableNames
    <3> QED  BY <1>4, <1>6, <1>8, <3>1 DEF Listed
  <2>4. \A k \in Copies : Listed(k) \subseteq Owned(k)
    BY DEF Listed
  <2> QED  BY <1>11, <1>12, <2>1, <2>2, <2>3, <2>4
<1>19. \A k \in Copies, d \in Callstacks : Do("reset", k) \in Left =>
        Doubly(group[d][LINK[k]], same_callstack_group_next, same_callstack_group_prev, S(d, k))
  BY IInvParts DEF Lists
<1>20. first \in S(c, T) \cup {NULL} /\ first = group[c][LINK[T]]
  <2>1. first = group[c][LINK[T]]
    BY <1>4
  <2> HIDE DEF S, c, first
  <2>2. Doubly(group[c][LINK[T]], same_callstack_group_next, same_callstack_group_prev, S(c, T))
    BY <1>3, <1>4, <1>17, <1>19
  <2>3. IsChain(group[c][LINK[T]], same_callstack_group_next, S(c, T), NULL)
    BY <2>2 DEF Doubly
  <2>4. group[c][LINK[T]] \in S(c, T) \cup {NULL}
    BY <2>3, ChainLinks
  <2> QED  BY <2>1, <2>4
<1>21. first = group[c][LINK[T]]
  BY <1>20
<1> HIDE DEF first
<1>22. /\ same_callstack_group_next'[cursor] = first /\ same_callstack_group_prev'[cursor] = NULL
       /\ \A q \in Recs \ {cursor} :
            /\ same_callstack_group_next'[q] = same_callstack_group_next[q]
            /\ same_callstack_group_prev'[q] = IF q = first THEN cursor ELSE same_callstack_group_prev[q]
  <2>1. /\ same_callstack_group_next \in [Recs -> Recs \cup {NULL}]
        /\ same_callstack_group_prev \in [Recs -> Recs \cup {NULL}]
    BY IInvParts DEF Types
  <2>2. /\ same_callstack_group_next' = [same_callstack_group_next EXCEPT ![cursor] = first]
        /\ same_callstack_group_prev' = [q \in Recs |->
              CASE q = cursor -> NULL [] q = first -> cursor [] OTHER -> same_callstack_group_prev[q]]
    BY <1>2
  <2>0. cursor # first
    BY <1>1, <1>18, <1>20
  <2>3. same_callstack_group_next'[cursor] = first /\ same_callstack_group_prev'[cursor] = NULL
    BY <1>12, <2>0, <2>1, <2>2
  <2>4. \A q \in Recs \ {cursor} : same_callstack_group_next'[q] = same_callstack_group_next[q]
    BY <1>12, <2>1, <2>2
  <2>5. \A q \in Recs \ {cursor} :
            same_callstack_group_prev'[q] = IF q = first THEN cursor ELSE same_callstack_group_prev[q]
    BY <1>12, <2>1, <2>2
  <2> QED  BY <2>3, <2>4, <2>5
<1>23. /\ group'[c][LINK[T]] = cursor
       /\ \A d \in Callstacks, k \in Copies : d # c \/ k # T => group'[d][LINK[k]] = group[d][LINK[k]]
  <2>1. group \in [Callstacks -> [Links -> Recs \cup {NULL}]]
    BY IInvParts DEF Types
  <2>2. \A k \in Copies : LINK[k] \in Links
    BY TableNames
  <2>3. group' = [group EXCEPT ![c][LINK[T]] = cursor]
    BY <1>2, <1>4
  <2> HIDE DEF c
  <2>4. group'[c] = [group[c] EXCEPT ![LINK[T]] = cursor] /\ \A d \in Callstacks : d # c => group'[d] = group[d]
    BY <1>17, <2>1, <2>3
  <2>5. group[c] \in [Links -> Recs \cup {NULL}]
    BY <1>17, <2>1
  <2> QED  BY <1>5, <1>17, <2>2, <2>4, <2>5
<1> HIDE DEF c
<1>24. allocator' = allocator
  BY <1>1 DEF pool
<1>25. ASSUME NEW k \in Copies, Do("reset", k) \in Left', NEW d \in Callstacks
       PROVE  Doubly(group'[d][LINK[k]], same_callstack_group_next', same_callstack_group_prev',
                     {r \in Listed(k)' : allocator'[r] = d})
  <2>0. /\ Doubly(group[d][LINK[k]], same_callstack_group_next, same_callstack_group_prev, S(d, k))
        /\ k \in Tables /\ S(d, k) \subseteq Owned(k) /\ S(d, k) \subseteq Recs
    BY <1>6, <1>9, <1>18, <1>19, <1>25, TableNames
  <2>1. CASE k = T /\ d = c
    <3>1. {r \in Listed(k)' : allocator'[r] = d} = S(d, k) \cup {cursor}
      BY <1>18, <1>24, <2>1 DEF c
    <3>2. cursor \notin S(d, k) /\ NULL \notin S(d, k)
      BY <1>18, <2>0, <2>1, RecsNotNull
    <3>3. \A q \in S(d, k) :
            /\ same_callstack_group_next'[q] = same_callstack_group_next[q]
            /\ same_callstack_group_prev'[q] = IF q = first THEN cursor ELSE same_callstack_group_prev[q]
      BY <1>22, <2>0, <3>2
    <3>4. Doubly(first, same_callstack_group_next, same_callstack_group_prev, S(d, k))
      BY <1>21, <2>0, <2>1
    <3> HIDE DEF S
    <3>5. Doubly(cursor, same_callstack_group_next', same_callstack_group_prev', S(d, k) \cup {cursor})
      BY <1>22, <3>2, <3>3, <3>4, DoublyPrepend
    <3> QED  BY <1>23, <2>1, <3>1, <3>5
  <2>2. CASE ~(k = T /\ d = c)
    <3>1. cursor \notin S(d, k) /\ first \notin S(d, k)
      <4>1. CASE k # T
        <5>1. Owned(k) \cap Owned(T) = {} /\ S(c, T) \subseteq Owned(T)
          BY <1>5, <1>18, <2>0, <4>1, IInvParts DEF Apart
        <5> QED  BY <1>12, <1>20, <2>0, <5>1, RecsNotNull
      <4>2. CASE k = T /\ d # c
        <5>1. cursor \notin S(d, k)
          BY <1>18, <4>2
        <5>2. first # NULL => allocator[first] = c
          BY <1>20
        <5> QED  BY <2>0, <4>2, <5>1, <5>2, RecsNotNull
      <4> QED  BY <2>2, <4>1, <4>2
    <3>2. {r \in Listed(k)' : allocator'[r] = d} = S(d, k)
      <4>1. CASE k # T
        BY <1>18, <1>24, <4>1
      <4>2. CASE k = T /\ d # c
        <5>1. allocator[cursor] # d
          BY <4>2 DEF c
        <5> QED  BY <1>18, <1>24, <4>2, <5>1
      <4> QED  BY <2>2, <4>1, <4>2
    <3>3. \A q \in S(d, k) :
            /\ same_callstack_group_next'[q] = same_callstack_group_next[q]
            /\ same_callstack_group_prev'[q] = same_callstack_group_prev[q]
      BY <1>22, <2>0, <3>1
    <3> HIDE DEF S
    <3>4. Doubly(group[d][LINK[k]], same_callstack_group_next', same_callstack_group_prev', S(d, k))
      BY <2>0, <3>3, DoublySame
    <3> QED  BY <1>23, <2>2, <3>2, <3>4
  <2> QED  BY <2>1, <2>2
<1>26. Lists'
  BY <1>25 DEF Lists
<1> QED  BY <1>8, <1>14, <1>15, <1>16, <1>26 DEF Shape

-----------------------------------------------------------------------------
(* The offset *)

\* Every copy is complete, linked and to be reset: what the offset finds.
LEMMA OffsetFinds ==
    ASSUME IInv, On("offset")
    PROVE  /\ \A k \in Tables : First(k) = head[k]
           /\ \A k \in Copies : /\ k \in Tables /\ Do("reset", k) \in Left /\ Listed(k) = Owned(k)
                                /\ Distinct(k)
<1>1. ~On("destroy") /\ Do("offset", "copy") \in Left
      /\ \A k \in Copies : Do("link", k) \notin Left /\ Do("reset", k) \in Left
  BY OnOffset, IInvParts
<1>2. \A k \in Copies : k \in Tables
  BY TableNames
<1>3. \A k \in Copies : Distinct(k)
  BY <1>1, IInvParts DEF Unique
<1> QED  BY <1>1, <1>2, <1>3 DEF First, Listed

\* Steps that free what was kept, and no step of the command is left that was not.
LEMMA ReleasedLists ==
    ASSUME IInv, group' = group,
           \A k \in Copies : Do("reset", k) \in Left' =>
                Do("reset", k) \in Left /\ Listed(k)' = Listed(k) /\ KeptOn(Listed(k))
    PROVE  Lists'
<1>1. ASSUME NEW k \in Copies, Do("reset", k) \in Left', NEW c \in Callstacks
      PROVE  Doubly(group'[c][LINK[k]], same_callstack_group_next', same_callstack_group_prev',
                    {r \in Listed(k)' : allocator'[r] = c})
  <2>1. Do("reset", k) \in Left /\ Listed(k)' = Listed(k) /\ KeptOn(Listed(k))
    BY <1>1
  <2>2. Doubly(group[c][LINK[k]], same_callstack_group_next, same_callstack_group_prev,
               {r \in Listed(k) : allocator[r] = c})
    BY <2>1, IInvParts DEF Lists
  <2>3. \A r \in Listed(k) : /\ allocator'[r] = allocator[r]
                             /\ same_callstack_group_next'[r] = same_callstack_group_next[r]
                             /\ same_callstack_group_prev'[r] = same_callstack_group_prev[r]
    BY <2>1 DEF KeptOn
  <2>4. {r \in Listed(k)' : allocator'[r] = c} = {r \in Listed(k) : allocator[r] = c}
    BY <2>1, <2>3
  <2>5. Doubly(group[c][LINK[k]], same_callstack_group_next', same_callstack_group_prev',
               {r \in Listed(k) : allocator[r] = c})
    BY <2>2, <2>3, DoublySame
  <2> QED  BY <2>4, <2>5
<1> QED  BY <1>1 DEF Lists

LEMMA ReleasedUnique ==
    ASSUME IInv, head' = head, ~On("duplicate"), at' # "walk", Left' \subseteq Left,
           Do("destroy", "snapshot") \in Left => Do("destroy", "snapshot") \in Left',
           \A k \in Tables : Distinct(k) => Distinct(k)'
    PROVE  Unique'
<1>1. Copies \cup {"snapshot"} \subseteq Tables /\ "alloc" \in Tables
  BY TableNames
<1>2. Distinct("alloc")' /\ Distinct("snapshot")'
  BY <1>1, IInvParts DEF Unique
<1>3. Do("offset", "copy") \in Left' => \A k \in Copies : Distinct(k)'
  BY <1>1, IInvParts DEF Unique
<1>4. ASSUME NEW k \in Copies \cup {"snapshot"}, Do("duplicate", k) \in Left', FreshCopy(k)'
      PROVE  head'[k] = NULL
  <2>1. Do("duplicate", k) \in Left /\ FreshCopy(k)
    BY <1>4 DEF FreshCopy
  <2> QED  BY <2>1, IInvParts DEF Unique
<1> QED  BY <1>2, <1>3, <1>4 DEF Unique

LEMMA OffsetFreeKeeps == ASSUME IInv, OffsetFree PROVE Shape'
<1>1. /\ On("offset") /\ at = "free" /\ cursor # NULL /\ Release(lagging) /\ lagging' = {} /\ at' = "pair"
      /\ UNCHANGED <<head, group, ptr_mtx, apc, arec, todo, cursor>>
  BY DEF OffsetFree, threads
<1>2. ~On("duplicate") /\ ~On("destroy") /\ ~On("link")
  BY <1>1, OnOffset, IInvParts
<1>3. On("offset")' /\ ~On("duplicate")' /\ ~On("destroy")' /\ ~On("link")' /\ Left' = Left
  BY <1>1, <1>2 DEF On, Left
<1>4. \A k \in Tables : First(k)' = First(k)
  BY <1>1, <1>2, <1>3 DEF First
<1>5. Records' /\ \A k \in Tables : Owned(k)' = Owned(k) /\ KeptOn(Owned(k)) /\ (Distinct(k) => Distinct(k)')
  BY <1>1, <1>4, ReleaseRecords
<1>6. Places'
  <2>1. Plan(todo') /\ ~ptr_mtx'
    BY <1>1, IInvParts DEF Places
  <2> QED  BY <1>1, <1>3, <2>1 DEF Places
<1>7. Walks'
  <2>1. cursor \in Owned("copy") \cup {NULL} /\ "copy" \in Tables
    BY <1>1, TableNames, IInvParts DEF Walks
  <2> QED  BY <1>1, <1>5, <2>1 DEF Walks
<1>8. Unique'
  BY <1>1, <1>2, <1>3, <1>5, ReleasedUnique
<1>9. Lists'
  <2>1. \A k \in Copies : Listed(k) = Owned(k) /\ Listed(k)' = Owned(k)' /\ k \in Tables
    <3>1. \A k \in Copies : Do("link", k) \notin Left
      BY <1>1, OnOffset, IInvParts
    <3>2. \A k \in Copies : Listed(k)' = Owned(k)'
      BY <1>3, <3>1 DEF Listed
    <3> QED  BY <1>1, <3>2, OffsetFinds
  <2> QED  BY <1>1, <1>3, <1>5, <2>1, ReleasedLists
<1> QED  BY <1>5, <1>6, <1>7, <1>8, <1>9 DEF Shape

LEMMA OffsetEndKeeps == ASSUME IInv, OffsetEnd PROVE Shape'
<1>1. /\ On("offset") /\ at = "free" /\ cursor = NULL /\ Release(lagging) /\ lagging' = {} /\ at' = "start"
      /\ todo' = Cleanup \/ todo' = Tail(todo)
      /\ UNCHANGED <<head, group, ptr_mtx, apc, arec, cursor>>
  BY DEF OffsetEnd, threads
<1>2. todo # <<>> /\ Head(todo) = Do("offset", "copy") /\ ~On("duplicate") /\ ~On("destroy") /\ ~On("link")
  <2>1. Table = "copy" /\ ~On("duplicate") /\ ~On("destroy") /\ ~On("link")
    BY <1>1, OnOffset, IInvParts
  <2> QED  BY <1>1, <2>1, OnIs, IInvParts
<1>3. \A k \in Tables : First(k)' = First(k)
  BY <1>1, <1>2 DEF First
<1>4. Records' /\ \A k \in Tables : Owned(k)' = Owned(k) /\ KeptOn(Owned(k)) /\ (Distinct(k) => Distinct(k)')
  BY <1>1, <1>3, ReleaseRecords
<1>5. ~ptr_mtx'
  BY <1>1, IInvParts DEF Places
<1>6. CASE todo' = Cleanup
  <2>1. Distinct("alloc")' /\ Distinct("snapshot")'
    BY <1>4, TableNames, IInvParts DEF Unique
  <2> QED  BY <1>1, <1>4, <1>5, <1>6, <2>1, CleanupIs, Jump
<1>7. CASE todo' = Tail(todo)
  <2>1. Plan(todo') /\ Left' = Left \ {Do("offset", "copy")}
    BY <1>2, <1>7, NextOpIs, IInvParts
  <2>2. Places'
    BY <1>1, <1>5, <2>1 DEF Places
  <2>3. Walks'
    BY <1>1 DEF Walks
  <2>4. Unique'
    <3>1. Do("destroy", "snapshot") # Do("offset", "copy")
      BY DoIs
    <3> QED  BY <1>1, <1>2, <1>4, <2>1, <3>1, ReleasedUnique
  <2>5. Lists'
    <3>1. \A k \in Copies : Listed(k) = Owned(k) /\ k \in Tables /\ Do("reset", k) \in Left
      BY <1>1, OffsetFinds
    <3>2. \A k \in Copies : Listed(k)' = Owned(k)'
      <4>1. \A k \in Copies : Do("link", k) \notin Left'
        BY <1>1, <2>1, OnOffset, IInvParts
      <4> QED  BY <4>1 DEF Listed
    <3> QED  BY <1>1, <1>4, <3>1, <3>2, ReleasedLists
  <2> QED  BY <1>4, <2>2, <2>3, <2>4, <2>5 DEF Shape
<1> QED  BY <1>1, <1>6, <1>7

-----------------------------------------------------------------------------
(* A pair leaves both copies *)

LEMMA ChainNoLoop ==
    ASSUME NEW first, NEW link, NEW S, NEW null, IsChain(first, link, S, null), null \notin S, NEW x \in S
    PROVE  link[x] # x
<1>0. PICK n \in Nat : \E s \in [1..n -> S] : Ordered(first, link, S, null, n, s)
  BY DEF IsChain
<1>1. PICK s \in [1..n -> S] : Ordered(first, link, S, null, n, s)
  BY <1>0
<1>2. /\ \A i, j \in 1..n : s[i] = s[j] => i = j
      /\ \A i \in 1..n : link[s[i]] = IF i = n THEN null ELSE s[i + 1]
  BY <1>1 DEF Ordered
<1>3. PICK i \in 1..n : s[i] = x
  BY <1>1 DEF Ordered
<1>4. CASE i = n
  BY <1>2, <1>3, <1>4
<1>5. CASE i # n
  <2>1. i + 1 \in 1..n /\ link[x] = s[i + 1] /\ i + 1 # i
    BY <1>2, <1>3, <1>5
  <2> QED  BY <1>2, <1>3, <2>1
<1> QED  BY <1>4, <1>5

\* The neighbours in a list.
LEMMA DoublyNear ==
    ASSUME NEW first, NEW next, NEW prev, NEW S, Doubly(first, next, prev, S), NEW x \in S
    PROVE  next[x] \in S \cup {NULL} /\ prev[x] \in S \cup {NULL}
<1>1. IsChain(first, next, S, NULL)
  BY DEF Doubly
<1>2. next[x] \in S \cup {NULL}
  BY <1>1, ChainLinks
<1> QED  BY <1>2 DEF Doubly

\* mc_find_ptr_hashtable in a copy that is compared.
LEMMA FindIs ==
    ASSUME IInv, On("offset"), NEW k \in Copies
    PROVE  /\ \A p : Find(k, p) \in Owned(k) \cup {NULL}
           /\ \A q \in Owned(k) : Find(k, ptrOf[q]) = q
<1>1. k \in Tables /\ First(k) = head[k] /\ Distinct(k)
  BY OffsetFinds
<1>2. /\ head[k] \in Recs \cup {NULL} /\ Owned(k) \in SUBSET Recs
      /\ IsChain(head[k], hash_next, Owned(k), NULL)
  BY <1>1, FirstTyped, IInvParts DEF Chains
<1>3. ASSUME NEW p
      PROVE  /\ Find(k, p) \in Owned(k) \cup {NULL}
             /\ \A q \in Owned(k) : ptrOf[q] = p => Find(k, p) \in Owned(k) /\ ptrOf[Find(k, p)] = p
  <2> DEFINE H == {r \in Recs : ptrOf[r] = p}
  <2>1. IF Owned(k) \cap H = {} THEN FirstOf(head[k], hash_next, H) = NULL
                                ELSE FirstOf(head[k], hash_next, H) \in Owned(k) \cap H
    BY <1>2, FirstOfIs
  <2>2. Find(k, p) = FirstOf(head[k], hash_next, H)
    BY DEF Find
  <2>3. Find(k, p) \in Owned(k) \cup {NULL}
    BY <2>1, <2>2
  <2>4. ASSUME NEW q \in Owned(k), ptrOf[q] = p PROVE Find(k, p) \in Owned(k) /\ ptrOf[Find(k, p)] = p
    <3>1. q \in Owned(k) \cap H
      BY <1>2, <2>4
    <3>2. Find(k, p) \in Owned(k) \cap H
      BY <2>1, <2>2, <3>1
    <3> QED  BY <3>2
  <2> QED  BY <2>3, <2>4
<1>4. ASSUME NEW q \in Owned(k) PROVE Find(k, ptrOf[q]) = q
  <2>1. Find(k, ptrOf[q]) \in Owned(k) /\ ptrOf[Find(k, ptrOf[q])] = ptrOf[q]
    BY <1>3
  <2> QED  BY <1>1, <2>1 DEF Distinct
<1> QED  BY <1>3, <1>4

\* __find_snapshot_alloc_memptr_for_current_memptr finds a block of the copy of
\* the snapshot which is alike, if there is one.
LEMMA MatchIs ==
    ASSUME IInv, On("offset"), NEW r \in Owned("copy")
    PROVE  /\ Match(r) # NULL =>
                /\ Match(r) \in Owned("snapshot_copy")
                /\ sizeOf[Match(r)] = sizeOf[r] /\ allocator[Match(r)] = allocator[r]
           /\ Match(r) = NULL =>
                \A s \in Owned("snapshot_copy") : ~(sizeOf[s] = sizeOf[r] /\ allocator[s] = allocator[r])
<1> DEFINE same  == Find("snapshot_copy", ptrOf[r])
           alike == {s \in Recs : sizeOf[s] = sizeOf[r]}
           c     == allocator[r]
           first == group[c]["LINK_SNAPSHOT"]
           S     == {s \in Owned("snapshot_copy") : allocator[s] = c}
<1>1. same \in Owned("snapshot_copy") \cup {NULL}
  BY FindIs, TableNames
<1>2. /\ "snapshot_copy" \in Copies /\ "snapshot_copy" \in Tables /\ "copy" \in Tables
      /\ Do("reset", "snapshot_copy") \in Left /\ Listed("snapshot_copy") = Owned("snapshot_copy")
      /\ LINK["snapshot_copy"] = "LINK_SNAPSHOT" /\ "LINK_SNAPSHOT" \in Links
  BY OffsetFinds, TableNames
<1>3. c \in Callstacks
  <2>1. Block(r) \in BlockSet
    BY <1>2, IInvParts DEF Filled
  <2> QED  BY <2>1 DEF Block, BlockSet
<1>4. Owned("snapshot_copy") \subseteq Recs
  BY <1>2, IInvParts DEF Chains
<1>5. Doubly(first, same_callstack_group_next, same_callstack_group_prev, S)
  BY <1>2, <1>3, IInvParts DEF Lists
<1>6. IsChain(first, same_callstack_group_next, S, NULL)
  BY <1>5 DEF Doubly
<1>7. first \in Recs \cup {NULL} /\ S \in SUBSET Recs
  BY <1>2, <1>3, <1>4, IInvParts DEF Types
<1>8. IF S \cap alike = {} THEN FirstOf(first, same_callstack_group_next, alike) = NULL
                           ELSE FirstOf(first, same_callstack_group_next, alike) \in S \cap alike
  <2> HIDE DEF first, S, alike
  <2> QED  BY <1>6, <1>7, FirstOfIs
<1>9. Match(r) = IF same \in alike /\ allocator[same] = c THEN same
                 ELSE FirstOf(first, same_callstack_group_next, alike)
  BY DEF Match
<1>10. NULL \notin alike
  BY RecsNotNull
<1>11. CASE same \in alike /\ allocator[same] = c
  <2>1. Match(r) = same /\ same # NULL
    BY <1>9, <1>10, <1>11
  <2> QED  BY <1>1, <1>11, <2>1
<1>12. CASE ~(same \in alike /\ allocator[same] = c)
  <2>1. Match(r) = FirstOf(first, same_callstack_group_next, alike)
    BY <1>9, <1>12
  <2>2. CASE S \cap alike = {}
    <3>1. Match(r) = NULL
      BY <1>8, <2>1, <2>2
    <3>2. ASSUME NEW s \in Owned("snapshot_copy"), sizeOf[s] = sizeOf[r], allocator[s] = c PROVE FALSE
      <4>1. s \in S /\ s \in alike
        BY <1>4, <3>2
      <4> QED  BY <2>2, <4>1
    <3> QED  BY <3>1, <3>2
  <2>3. CASE S \cap alike # {}
    <3>1. Match(r) \in S /\ Match(r) \in alike
      BY <1>8, <2>1, <2>3
    <3>2. Match(r) # NULL
      BY <1>10, <3>1
    <3> QED  BY <3>1, <3>2
  <2> QED  BY <2>2, <2>3
<1> QED  BY <1>11, <1>12

\* __unlink_memblk_from_callstack of a record of each copy, seen from one copy:
\* the record of the other is in no list of this one.
PairOf(k, x, y, r, s) ==
    (k = "copy" => x = r /\ y = s) /\ (k = "snapshot_copy" => x = s /\ y = r)

LEMMA UnlinkIs ==
    ASSUME Types, NEW r, NEW s, Unlink(r, s), NEW k \in Copies, NEW x, NEW y, PairOf(k, x, y, r, s)
    PROVE  /\ \A c \in Callstacks : group'[c][LINK[k]] =
                IF same_callstack_group_prev[x] = NULL /\ allocator[x] = c
                THEN same_callstack_group_next[x] ELSE group[c][LINK[k]]
           /\ \A q \in Recs : q # same_callstack_group_prev[y] =>
                same_callstack_group_next'[q] = IF q = same_callstack_group_prev[x]
                    THEN same_callstack_group_next[x] ELSE same_callstack_group_next[q]
           /\ \A q \in Recs : q # same_callstack_group_next[y] =>
                same_callstack_group_prev'[q] = IF q = same_callstack_group_next[x]
                    THEN same_callstack_group_prev[x] ELSE same_callstack_group_prev[q]
<1> DEFINE prev == same_callstack_group_prev
           next == same_callstack_group_next
<1>1. /\ group' = [c \in Callstacks |-> [
            LINK_CURRENT  |-> IF prev[r] = NULL /\ allocator[r] = c
                              THEN next[r] ELSE group[c]["LINK_CURRENT"],
            LINK_SNAPSHOT |-> IF prev[s] = NULL /\ allocator[s] = c
                              THEN next[s] ELSE group[c]["LINK_SNAPSHOT"]]]
      /\ next' = [q \in Recs |->
            CASE q = prev[r] -> next[r] [] q = prev[s] -> next[s] [] OTHER -> next[q]]
      /\ prev' = [q \in Recs |->
            CASE q = next[r] -> prev[r] [] q = next[s] -> prev[s] [] OTHER -> prev[q]]
  BY DEF Unlink
<1>2. /\ k \in {"copy", "snapshot_copy"}
      /\ LINK["copy"] = "LINK_CURRENT" /\ LINK["snapshot_copy"] = "LINK_SNAPSHOT"
  BY TableNames
<1>a. (k = "copy" => x = r /\ y = s) /\ (k = "snapshot_copy" => x = s /\ y = r)
  BY DEF PairOf
<1>3. ASSUME NEW c \in Callstacks
      PROVE  group'[c][LINK[k]] = IF prev[x] = NULL /\ allocator[x] = c THEN next[x] ELSE group[c][LINK[k]]
  <2>1. CASE k = "copy"
    BY <1>1, <1>2, <1>a, <2>1
  <2>2. CASE k = "snapshot_copy"
    BY <1>1, <1>2, <1>a, <2>2
  <2> QED  BY <1>2, <2>1, <2>2
<1>4. ASSUME NEW q \in Recs, q # prev[y]
      PROVE  next'[q] = IF q = prev[x] THEN next[x] ELSE next[q]
  <2>1. CASE k = "copy"
    BY <1>1, <1>4, <1>a, <2>1
  <2>2. CASE k = "snapshot_copy"
    BY <1>1, <1>4, <1>a, <2>2
  <2> QED  BY <1>2, <2>1, <2>2
<1>5. ASSUME NEW q \in Recs, q # next[y]
      PROVE  prev'[q] = IF q = next[x] THEN prev[x] ELSE prev[q]
  <2>1. CASE k = "copy"
    BY <1>1, <1>5, <1>a, <2>1
  <2>2. CASE k = "snapshot_copy"
    BY <1>1, <1>5, <1>a, <2>2
  <2> QED  BY <1>2, <2>1, <2>2
<1> QED  BY <1>3, <1>4, <1>5

\* The record at the cursor leaves its copy, and m the other.
Paired(m) ==
    /\ cursor \in Owned("copy") /\ m \in Owned("snapshot_copy")
    /\ Owned("copy")' = Owned("copy") \ {cursor} /\ Owned("snapshot_copy")' = Owned("snapshot_copy") \ {m}
    /\ \A k \in Tables \ Copies : Owned(k)' = Owned(k)
    /\ \A x \in Owned("copy") :
        hash_next'[x] = IF hash_next[x] = cursor THEN hash_next[cursor] ELSE hash_next[x]

LEMMA OffsetPairKeeps == ASSUME IInv, OffsetPair PROVE Shape' /\ Paired(Match(cursor))
<1> DEFINE r == cursor
           m == Match(cursor)
           gone == [copy |-> Find("copy", ptrOf[cursor]),
                    snapshot_copy |-> Find("snapshot_copy", ptrOf[Match(cursor)])]
<1>1. /\ On("offset") /\ at = "pair" /\ m # NULL /\ at' = "advance"
      /\ Remove(gone) /\ Unlink(r, m) /\ lagging' = {r, m}
      /\ UNCHANGED <<pool, ptr_mtx, apc, arec, todo, cursor>>
  BY DEF OffsetPair, threads
<1>2. ~On("duplicate") /\ ~On("destroy") /\ ~On("link")
  BY <1>1, OnOffset, IInvParts
<1>3. On("offset")' /\ ~On("duplicate")' /\ ~On("destroy")' /\ ~On("link")' /\ Left' = Left
  BY <1>1, <1>2 DEF On, Left
<1>4. /\ "copy" \in Copies /\ "snapshot_copy" \in Copies /\ Copies = {"copy", "snapshot_copy"}
      /\ "copy" \in Tables /\ "snapshot_copy" \in Tables
  BY TableNames
<1>5. r \in Owned("copy") /\ r # NULL /\ lagging = {}
  BY <1>1, IInvParts DEF Walks, Places
<1>6. m \in Owned("snapshot_copy")
  BY <1>1, <1>5, MatchIs
<1>7. gone["copy"] = r /\ gone["snapshot_copy"] = m /\ DOMAIN gone = Copies
  BY <1>1, <1>4, <1>5, <1>6, FindIs
<1> HIDE DEF gone, m
<1>8. \A k \in Copies : k \in Tables /\ gone[k] \in Owned(k) /\ gone[k] # NULL /\ gone[k] \in Recs
  <2>1. \A k \in Tables : Owned(k) \subseteq Recs
    BY IInvParts DEF Chains
  <2> QED  BY <1>4, <1>5, <1>6, <1>7, <2>1, RecsNotNull
<1>9. Gone(gone, Copies)
  <2>1. \A k \in Copies : First(k) = head[k]
    BY <1>1, <1>4, OffsetFinds
  <2>2. Copies = {k \in DOMAIN gone : gone[k] # NULL}
    BY <1>7, <1>8
  <2> QED  BY <1>7, <1>8, <2>1, <2>2 DEF Gone
<1>10. \A k \in Tables : First(k) = head[k] /\ First(k)' = head'[k]
  BY <1>2, <1>3 DEF First
<1>11. \A k \in Tables :
        /\ Owned(k)' = IF k \in Copies THEN Owned(k) \ {gone[k]} ELSE Owned(k)
        /\ Owned(k)' \subseteq Recs /\ IsChain(First(k)', hash_next', Owned(k)', NULL)
  BY <1>1, <1>9, <1>10, RemoveOwned, IInvParts
<1>12. Chains'
  BY <1>11 DEF Chains
<1>13. Held' = Held /\ Busy' = Busy
  BY <1>1 DEF Held, Busy
<1>14. \A x : x \in lagging' <=> \E k \in Copies : x = gone[k]
  BY <1>1, <1>4, <1>7
<1>15. Apart'
  <2>1. \A j, k \in Tables : j # k => Owned(j)' \cap Owned(k)' = {}
    BY <1>11, IInvParts DEF Apart
  <2>2. ASSUME NEW k \in Tables, NEW j \in Copies PROVE gone[j] \notin Owned(k)'
    <3>1. CASE k = j
      BY <1>11, <3>1
    <3>2. CASE k # j
      BY <1>8, <1>11, <3>2, IInvParts DEF Apart
    <3> QED  BY <3>1, <3>2
  <2>3. \A k \in Tables : Owned(k)' \cap (Held' \cup lagging') = {}
    <3>1. \A k \in Tables : Owned(k)' \cap lagging' = {}
      BY <1>14, <2>2
    <3>2. \A k \in Tables : Owned(k)' \cap Held' = {}
      BY <1>11, <1>13, IInvParts DEF Apart
    <3> QED  BY <3>1, <3>2
  <2>4. Held' \cap lagging' = {}
    BY <1>8, <1>13, <1>14, IInvParts DEF Apart
  <2>5. \A u \in Busy' : arec'[u] \in Recs
    BY <1>1, <1>13, IInvParts DEF Apart
  <2>6. \A u, v \in Busy' : arec'[u] = arec'[v] => u = v
    BY <1>1, <1>13, IInvParts DEF Apart
  <2> QED  BY <2>1, <2>3, <2>4, <2>5, <2>6 DEF Apart
<1>16. Accounted'
  <2>1. ASSUME NEW x
        PROVE  (x \in lagging' \/ \E k \in Tables : x \in Owned(k)') <=> \E k \in Tables : x \in Owned(k)
    <3>1. ASSUME x \in lagging' PROVE \E k \in Tables : x \in Owned(k)
      BY <1>8, <1>14, <3>1
    <3>2. ASSUME NEW k \in Tables, x \in Owned(k)' PROVE x \in Owned(k)
      BY <1>11, <3>2
    <3>3. ASSUME NEW k \in Tables, x \in Owned(k) PROVE x \in lagging' \/ x \in Owned(k)'
      BY <1>11, <1>14, <3>3
    <3> QED  BY <3>1, <3>2, <3>3
  <2>2. \A x : x \in used' <=> x \in Held' \/ x \in lagging' \/ \E k \in Tables : x \in Owned(k)'
    BY <1>1, <1>5, <1>13, <2>1, InUse, IInvParts DEF pool
  <2> QED  BY <2>2, InUseNext
<1>17. \A k \in Tables : Owned(k)' \subseteq Owned(k)
  BY <1>11
<1>18. Filled'
  BY <1>1, <1>17, IInvParts DEF Filled, Block, BlockSet, pool
<1>19. Records'
  BY <1>12, <1>15, <1>16, <1>18 DEF Records
<1>20. Places'
  <2>1. Plan(todo') /\ ~ptr_mtx' /\ cursor' # NULL
    BY <1>1, <1>5, IInvParts DEF Places
  <2> QED  BY <1>1, <1>3, <2>1 DEF Places
<1>21. Walks'
  <2>1. IsChain(First("copy"), hash_next, Owned("copy"), NULL) /\ NULL \notin Owned("copy")
    BY <1>4, RecsNotNull, IInvParts DEF Chains
  <2>2. hash_next[r] # r /\ hash_next[r] \in Owned("copy") \cup {NULL}
    BY <1>5, <2>1, ChainNoLoop, ChainLinks
  <2>3. \A k \in Copies : \A x \in Owned(k) :
            hash_next'[x] = IF hash_next[x] = gone[k] THEN hash_next[gone[k]] ELSE hash_next[x]
    BY <1>1, <1>9, RemoveKeeps, IInvParts
  <2>4. hash_next'[r] = hash_next[r]
    BY <1>4, <1>5, <1>7, <2>2, <2>3
  <2>5. hash_next'[cursor'] \in Owned("copy")' \cup {NULL} /\ cursor' \in lagging'
    BY <1>1, <1>4, <1>7, <1>11, <2>2, <2>4
  <2> QED  BY <1>1, <1>3, <2>5 DEF Walks
<1>22. Unique'
  <2>1. \A k \in Tables : Distinct(k) => Distinct(k)'
    BY <1>1, <1>17 DEF Distinct, pool
  <2>2. Copies \cup {"snapshot"} \subseteq Tables /\ "alloc" \in Tables
    BY TableNames
  <2>3. Distinct("alloc")' /\ Distinct("snapshot")'
    BY <2>1, <2>2, IInvParts DEF Unique
  <2>4. \A k \in Copies : Distinct(k)'
    BY <1>1, <2>1, <2>2, OffsetFinds
  <2>5. \A k \in Copies : Do("duplicate", k) \notin Left'
    BY <1>1, <1>3, OnOffset, IInvParts
  <2>6. ASSUME Do("duplicate", "snapshot") \in Left', FreshCopy("snapshot")' PROVE head'["snapshot"] = NULL
    <3>1. head["snapshot"] = NULL
      BY <1>2, <1>3, <2>6, IInvParts DEF Unique, FreshCopy
    <3>2. "snapshot" \notin Copies /\ "snapshot" \in Tables
      BY TableNames
    <3>3. \A k \in Tables : head'[k] = IF k \in Copies /\ head[k] = gone[k]
                                       THEN hash_next[gone[k]] ELSE head[k]
      BY <1>1, <1>9, RemoveKeeps, IInvParts
    <3> QED  BY <3>1, <3>2, <3>3
  <2> QED  BY <1>3, <2>3, <2>4, <2>5, <2>6 DEF Unique
<1>23. allocator' = allocator
  BY <1>1 DEF pool
<1> DEFINE S(d, k) == {q \in Owned(k) : allocator[q] = d}
<1>24. \A k \in Copies, d \in Callstacks :
        Doubly(group[d][LINK[k]], same_callstack_group_next, same_callstack_group_prev, S(d, k))
  <2>1. \A k \in Copies : Do("reset", k) \in Left /\ Listed(k) = Owned(k)
    BY <1>1, OffsetFinds
  <2> QED  BY <2>1, IInvParts DEF Lists
<1>25. ASSUME NEW k \in Copies
       PROVE  /\ allocator[gone[k]] \in Callstacks /\ gone[k] \in S(allocator[gone[k]], k)
              /\ same_callstack_group_next[gone[k]] \in S(allocator[gone[k]], k) \cup {NULL}
              /\ same_callstack_group_prev[gone[k]] \in S(allocator[gone[k]], k) \cup {NULL}
  <2>1. Block(gone[k]) \in BlockSet
    BY <1>8, IInvParts DEF Filled
  <2>2. allocator[gone[k]] \in Callstacks
    BY <2>1 DEF Block, BlockSet
  <2>3. gone[k] \in S(allocator[gone[k]], k)
    BY <1>8
  <2> HIDE DEF S
  <2>4. Doubly(group[allocator[gone[k]]][LINK[k]], same_callstack_group_next, same_callstack_group_prev,
               S(allocator[gone[k]], k))
    BY <1>24, <2>2
  <2> QED  BY <2>2, <2>3, <2>4, DoublyNear
<1>26. ASSUME NEW k \in Copies, NEW d \in Callstacks
       PROVE  Doubly(group'[d][LINK[k]], same_callstack_group_next', same_callstack_group_prev',
                     {q \in Listed(k)' : allocator'[q] = d})
  <2>1. PICK j \in Copies : j # k
    BY <1>4
  <2>2. /\ k = "copy" => gone[k] = r /\ gone[j] = m
        /\ k = "snapshot_copy" => gone[k] = m /\ gone[j] = r
    BY <1>4, <1>7, <2>1
  <2>3. /\ group'[d][LINK[k]] =
            IF same_callstack_group_prev[gone[k]] = NULL /\ allocator[gone[k]] = d
            THEN same_callstack_group_next[gone[k]] ELSE group[d][LINK[k]]
        /\ \A q \in Recs : q # same_callstack_group_prev[gone[j]] =>
            same_callstack_group_next'[q] = IF q = same_callstack_group_prev[gone[k]]
                THEN same_callstack_group_next[gone[k]] ELSE same_callstack_group_next[q]
        /\ \A q \in Recs : q # same_callstack_group_next[gone[j]] =>
            same_callstack_group_prev'[q] = IF q = same_callstack_group_next[gone[k]]
                THEN same_callstack_group_prev[gone[k]] ELSE same_callstack_group_prev[q]
    <3>1. Types /\ Unlink(r, m)
      BY <1>1, IInvParts
    <3> DEFINE x == gone[k]
               y == gone[j]
    <3>2. PairOf(k, x, y, r, m)
      BY <2>2 DEF PairOf
    <3> HIDE DEF x, y, r
    <3>4. /\ \A c \in Callstacks : group'[c][LINK[k]] =
                IF same_callstack_group_prev[x] = NULL /\ allocator[x] = c
                THEN same_callstack_group_next[x] ELSE group[c][LINK[k]]
          /\ \A q \in Recs : q # same_callstack_group_prev[y] =>
                same_callstack_group_next'[q] = IF q = same_callstack_group_prev[x]
                    THEN same_callstack_group_next[x] ELSE same_callstack_group_next[q]
          /\ \A q \in Recs : q # same_callstack_group_next[y] =>
                same_callstack_group_prev'[q] = IF q = same_callstack_group_next[x]
                    THEN same_callstack_group_prev[x] ELSE same_callstack_group_prev[q]
      BY <3>1, <3>2, UnlinkIs
    <3> QED  BY <3>4 DEF x, y
  <2>4. Owned(k) \subseteq Recs /\ Owned(k) \cap Owned(j) = {} /\ NULL \notin Owned(k)
    BY <1>8, <2>1, RecsNotNull, IInvParts DEF Chains, Apart
  <2>5. \A q \in Owned(k) : q # same_callstack_group_prev[gone[j]] /\ q # same_callstack_group_next[gone[j]]
    <3>1. /\ same_callstack_group_next[gone[j]] \in Owned(j) \cup {NULL}
          /\ same_callstack_group_prev[gone[j]] \in Owned(j) \cup {NULL}
      BY <1>25
    <3> QED  BY <2>4, <3>1
  <2>6. \A q \in Owned(k) :
          /\ same_callstack_group_next'[q] = IF q = same_callstack_group_prev[gone[k]]
                THEN same_callstack_group_next[gone[k]] ELSE same_callstack_group_next[q]
          /\ same_callstack_group_prev'[q] = IF q = same_callstack_group_next[gone[k]]
                THEN same_callstack_group_prev[gone[k]] ELSE same_callstack_group_prev[q]
    BY <2>3, <2>4, <2>5
  <2>7. Listed(k)' = Owned(k) \ {gone[k]}
    <3>1. Do("link", k) \notin Left'
      BY <1>1, <1>3, OnOffset, IInvParts
    <3>2. Listed(k)' = Owned(k)'
      BY <3>1 DEF Listed
    <3> QED  BY <1>8, <1>11, <3>2
  <2>8. /\ Doubly(group[d][LINK[k]], same_callstack_group_next, same_callstack_group_prev, S(d, k))
        /\ S(d, k) \subseteq Owned(k) /\ NULL \notin S(d, k)
    BY <1>24, <2>4
  <2>9. CASE allocator[gone[k]] = d
    <3>1. {q \in Listed(k)' : allocator'[q] = d} = S(d, k) \ {gone[k]}
      BY <1>23, <2>7
    <3>2. group'[d][LINK[k]] = IF same_callstack_group_prev[gone[k]] = NULL
                               THEN same_callstack_group_next[gone[k]] ELSE group[d][LINK[k]]
      BY <2>3, <2>9
    <3>3. gone[k] \in S(d, k)
      BY <1>8, <2>9
    <3> HIDE DEF S
    <3>4. /\ \A q \in S(d, k) : same_callstack_group_next'[q] =
                IF q = same_callstack_group_prev[gone[k]]
                THEN same_callstack_group_next[gone[k]] ELSE same_callstack_group_next[q]
          /\ \A q \in S(d, k) : same_callstack_group_prev'[q] =
                IF q = same_callstack_group_next[gone[k]]
                THEN same_callstack_group_prev[gone[k]] ELSE same_callstack_group_prev[q]
      BY <2>6, <2>8
    <3> DEFINE T == S(d, k)
               x == gone[k]
               first == group[d][LINK[k]]
               first2 == group'[d][LINK[k]]
    <3>5. /\ Doubly(first, same_callstack_group_next, same_callstack_group_prev, T)
          /\ x \in T /\ NULL \notin T
          /\ Unlinked(first, same_callstack_group_next, same_callstack_group_prev, T, x,
                      first2, same_callstack_group_next', same_callstack_group_prev')
      BY <2>8, <3>2, <3>3, <3>4 DEF Unlinked
    <3> HIDE DEF T, x, first, first2
    <3>6. Doubly(first2, same_callstack_group_next', same_callstack_group_prev', T \ {x})
      BY <3>5, DoublyRemove
    <3>7. Doubly(group'[d][LINK[k]], same_callstack_group_next', same_callstack_group_prev',
                 S(d, k) \ {gone[k]})
      BY <3>6 DEF T, x, first2
    <3> QED  BY <3>1, <3>7
  <2>10. CASE allocator[gone[k]] # d
    <3>1. {q \in Listed(k)' : allocator'[q] = d} = S(d, k)
      BY <1>23, <2>7, <2>10
    <3>2. group'[d][LINK[k]] = group[d][LINK[k]]
      BY <2>3, <2>10
    <3>3. \A q \in S(d, k) : q # same_callstack_group_prev[gone[k]] /\ q # same_callstack_group_next[gone[k]]
      BY <1>25, <2>8, <2>10
    <3>4. \A q \in S(d, k) :
            /\ same_callstack_group_next'[q] = same_callstack_group_next[q]
            /\ same_callstack_group_prev'[q] = same_callstack_group_prev[q]
      BY <2>6, <2>8, <3>3
    <3> HIDE DEF S
    <3>5. Doubly(group[d][LINK[k]], same_callstack_group_next', same_callstack_group_prev', S(d, k))
      BY <2>8, <3>4, DoublySame
    <3> QED  BY <3>1, <3>2, <3>5
  <2> QED  BY <2>9, <2>10
<1>27. Lists'
  BY <1>26 DEF Lists
<1>28. Paired(Match(cursor))
  <2>1. \A x \in Owned("copy") :
            hash_next'[x] = IF hash_next[x] = r THEN hash_next[r] ELSE hash_next[x]
    BY <1>1, <1>4, <1>7, <1>9, RemoveKeeps, IInvParts
  <2>2. Paired(m)
    BY <1>4, <1>5, <1>6, <1>7, <1>11, <2>1 DEF Paired
  <2> QED  BY <2>2 DEF m
<1> QED  BY <1>19, <1>20, <1>21, <1>22, <1>27, <1>28 DEF Shape

-----------------------------------------------------------------------------
(* Types *)

\* The parts of Types: the records and tables, the threads, the worker.
TableTypes == FieldTypes /\ used \subseteq Recs /\ head \in [Tables -> Recs \cup {NULL}]
ThreadTypes ==
    /\ apc \in [Threads -> {"idle", "add", "put"}]
    /\ arec \in [Threads -> Recs \cup {NULL}]
    /\ adds \in 0..MaxAdds
WorkerTypes ==
    /\ ptr_mtx \in BOOLEAN /\ whole \in BOOLEAN
    /\ at \in {"start", "walk", "free", "pair", "advance"}
    /\ cursor \in Recs \cup {NULL}
    /\ lagging \subseteq Recs
    /\ oom \in 0..MaxOom
GroupType == group \in [Callstacks -> [Links -> Recs \cup {NULL}]]

LEMMA TypeParts == Types <=> TableTypes /\ ThreadTypes /\ WorkerTypes /\ GroupType
  BY DEF Types, TableTypes, FieldTypes, ThreadTypes, WorkerTypes, GroupType

LEMMA TypeKept ==
    ASSUME Types
    PROVE  /\ UNCHANGED <<pool, chains, same_callstack_group_prev, same_callstack_group_next>> => TableTypes'
           /\ UNCHANGED threads => ThreadTypes'
           /\ UNCHANGED <<ptr_mtx, whole, at, cursor, lagging, oom>> => WorkerTypes'
           /\ UNCHANGED group => GroupType'
<1>1. TableTypes /\ ThreadTypes /\ WorkerTypes /\ GroupType
  BY TypeParts
<1>2. UNCHANGED <<pool, chains, same_callstack_group_prev, same_callstack_group_next>> => TableTypes'
  BY <1>1 DEF TableTypes, FieldTypes, pool, chains
<1>3. UNCHANGED threads => ThreadTypes'
  BY <1>1 DEF ThreadTypes, threads
<1>4. UNCHANGED <<ptr_mtx, whole, at, cursor, lagging, oom>> => WorkerTypes'
  BY <1>1 DEF WorkerTypes
<1>5. UNCHANGED group => GroupType'
  BY <1>1 DEF GroupType
<1> QED  BY <1>2, <1>3, <1>4, <1>5

LEMMA TypesNext ==
    ASSUME TableTypes', ThreadTypes', WorkerTypes', GroupType'
    PROVE  Types'
  BY DEF Types, TableTypes, FieldTypes, ThreadTypes, WorkerTypes, GroupType

\* Release leaves the tables typed.
LEMMA ReleaseTypes ==
    ASSUME Types, NEW S \in SUBSET Recs, Release(S), head' \in [Tables -> Recs \cup {NULL}]
    PROVE  TableTypes'
<1>1. used' = used \ S /\ FieldTypes'
  BY ReleaseKeeps
<1> QED  BY <1>1 DEF TableTypes, Types

LEMMA AppTypes == ASSUME IInv, NEW t \in Threads, App(t) PROVE Types'
<1>0. Types
  BY IInvParts
<1>1. /\ UNCHANGED <<group, ptr_mtx, at, cursor, lagging, oom, whole>>
  BY DEF App, AppAllocate, AppAdd, AppRemove, AppFree, walk, ghosts, groups
<1>2. WorkerTypes' /\ GroupType'
  BY <1>0, <1>1, TypeKept
<1>3. CASE AppAllocate(t)
  <2>1. PICK r \in Recs : Allocate(r) /\ arec' = [arec EXCEPT ![t] = r]
    BY <1>3 DEF AppAllocate
  <2>2. /\ adds < MaxAdds /\ adds' = adds + 1 /\ apc' = [apc EXCEPT ![t] = "add"]
        /\ UNCHANGED <<ptrOf, sizeOf, allocator, chains, groups>>
    BY <1>3 DEF AppAllocate
  <2>3. TableTypes'
    BY <1>0, <2>1, <2>2, AllocateFree DEF Types, TableTypes, FieldTypes, chains, groups
  <2>4. adds' \in 0..MaxAdds
    BY <1>0, <2>2, SnapshotAssumption DEF Types
  <2>5. ThreadTypes'
    BY <1>0, <2>1, <2>2, <2>4 DEF Types, ThreadTypes
  <2> QED  BY <1>2, <2>3, <2>5, TypesNext
<1>4. CASE AppAdd(t)
  <2> DEFINE r == arec[t]
  <2>1. PICK p \in Ptrs \ {ptrOf[q] : q \in Members("alloc")}, z \in Sizes, c \in Callstacks :
            Fill(r, [ptr |-> p, size |-> z, allocator |-> c])
    BY <1>4 DEF AppAdd
  <2>2. /\ apc[t] = "add" /\ apc' = [apc EXCEPT ![t] = "idle"] /\ arec' = [arec EXCEPT ![t] = NULL]
        /\ Add("alloc", r) /\ UNCHANGED <<used, groups, adds>>
    BY <1>4 DEF AppAdd
  <2>3. r \in Recs
    BY <2>2, IInvParts DEF Apart, Busy
  <2>4. z \in Nat /\ "alloc" \in Tables
    BY SnapshotAssumption, TableNames
  <2> HIDE DEF r
  <2>5. /\ ptrOf' \in [Recs -> Ptrs \cup {NULL}] /\ sizeOf' \in [Recs -> Nat]
        /\ allocator' \in [Recs -> Callstacks \cup {NULL}]
    BY <1>0, <2>1, <2>4 DEF Types, Fill
  <2>6. hash_next' \in [Recs -> Recs \cup {NULL}] /\ head' \in [Tables -> Recs \cup {NULL}]
    BY <1>0, <2>2, <2>3, <2>4 DEF Types, Add
  <2>7. TableTypes'
    BY <1>0, <2>2, <2>5, <2>6 DEF Types, TableTypes, FieldTypes, groups
  <2>8. ThreadTypes'
    BY <1>0, <2>2 DEF Types, ThreadTypes
  <2> QED  BY <1>2, <2>7, <2>8, TypesNext
<1>5. CASE AppRemove(t)
  <2>1. PICK r \in Members("alloc") :
            Remove([k \in {"alloc"} |-> r]) /\ arec' = [arec EXCEPT ![t] = r]
    BY <1>5 DEF AppRemove
  <2>2. apc' = [apc EXCEPT ![t] = "put"] /\ UNCHANGED <<pool, groups, adds>>
    BY <1>5 DEF AppRemove
  <2>3. r \in Owned("alloc") /\ r \in Recs /\ r # NULL /\ "alloc" \in Tables /\ First("alloc") = head["alloc"]
    BY <2>1, AllocFirst, RecsNotNull, IInvParts DEF Chains
  <2> DEFINE gone == [k \in {"alloc"} |-> r]
  <2>4. DOMAIN gone = {"alloc"} /\ gone["alloc"] = r
    OBVIOUS
  <2>5. Remove(gone)
    BY <2>1
  <2> HIDE DEF gone
  <2>6. Gone(gone, {"alloc"})
    BY <2>3, <2>4 DEF Gone
  <2>7. hash_next' \in [Recs -> Recs \cup {NULL}] /\ head' \in [Tables -> Recs \cup {NULL}]
    BY <2>5, <2>6, RemoveKeeps, IInvParts
  <2>8. TableTypes'
    BY <1>0, <2>2, <2>7 DEF Types, TableTypes, FieldTypes, groups, pool
  <2>9. ThreadTypes'
    BY <1>0, <2>1, <2>2, <2>3 DEF Types, ThreadTypes
  <2> QED  BY <1>2, <2>8, <2>9, TypesNext
<1>6. CASE AppFree(t)
  <2>1. /\ apc[t] = "put" /\ Release({arec[t]}) /\ apc' = [apc EXCEPT ![t] = "idle"]
        /\ arec' = [arec EXCEPT ![t] = NULL] /\ UNCHANGED <<head, adds>>
    BY <1>6 DEF AppFree
  <2>2. {arec[t]} \in SUBSET Recs
    BY <2>1, IInvParts DEF Apart, Busy
  <2>3. head' \in [Tables -> Recs \cup {NULL}]
    BY <1>0, <2>1 DEF Types
  <2>4. TableTypes'
    BY <1>0, <2>1, <2>2, <2>3, ReleaseTypes
  <2>5. ThreadTypes'
    BY <1>0, <2>1 DEF Types, ThreadTypes
  <2> QED  BY <1>2, <2>4, <2>5, TypesNext
<1> QED  BY <1>3, <1>4, <1>5, <1>6 DEF App

\* The table of an operation, and the record of a walk.
LEMMA WorkerHas ==
    ASSUME IInv
    PROVE  /\ todo # <<>> => Table \in Tables
           /\ On("duplicate") => Source[Table] \in Tables
           /\ On("link") \/ On("reset") => Table \in Copies /\ LINK[Table] \in Links
           /\ On("link") /\ at = "walk" /\ cursor # NULL => allocator[cursor] \in Callstacks
<1>1. ASSUME todo # <<>> PROVE Table \in Tables
  <2>1. Head(todo) \in Known
    BY <1>1, AtHead, IInvParts
  <2>2. Head(todo).on \in Tables
    BY <2>1, TableNames DEF Known
  <2> QED  BY <2>2 DEF Table
<1>2. On("duplicate") => Source[Table] \in Tables
  BY OnDuplicate, IInvParts
<1>3. On("link") \/ On("reset") => Table \in Copies /\ LINK[Table] \in Links
  BY OnIs, DoKnown, TableNames, IInvParts
<1>4. ASSUME On("link"), at = "walk", cursor # NULL PROVE allocator[cursor] \in Callstacks
  <2>1. PICK T \in Copies : T = Table
    BY <1>3, <1>4
  <2>2. IsChain(cursor, hash_next, Ahead, NULL) /\ Ahead \subseteq Owned(T) /\ T \in Tables
    BY <1>4, <2>1, TableNames, IInvParts DEF Walks
  <2>3. cursor \in Owned(T)
    BY <1>4, <2>2, ChainLinks
  <2>4. Block(cursor) \in BlockSet
    BY <2>2, <2>3, IInvParts DEF Filled
  <2> QED  BY <2>4 DEF Block, BlockSet
<1> QED  BY <1>1, <1>2, <1>3, <1>4

\* Steps of the worker that change nothing but where it is.
Moves ==
    \/ DuplicateLock \/ DuplicateFails \/ DuplicateEnd \/ DestroyLock \/ LinkBegin \/ LinkEnd
    \/ OffsetBegin \/ OffsetAlone \/ OffsetAdvance \/ ListBlocks \/ ListCallstacks \/ ListCallstacksFails
    \/ InitMaps \/ TermMaps \/ \E c \in Commands : Begin(c)

LEMMA MovesTypes == ASSUME IInv, Moves PROVE Types'
<1>0. Types /\ WorkerTypes /\ head \in [Tables -> Recs \cup {NULL}] /\ hash_next \in [Recs -> Recs \cup {NULL}]
  BY IInvParts, TypeParts DEF Types
<1>1. UNCHANGED <<pool, chains, groups, threads>>
  BY DEF Moves, DuplicateLock, DuplicateFails, DuplicateEnd, DestroyLock, LinkBegin, LinkEnd,
         OffsetBegin, OffsetAlone, OffsetAdvance, ListBlocks, ListCallstacks, ListCallstacksFails,
         InitMaps, TermMaps, Begin
<1>2. TableTypes' /\ ThreadTypes' /\ GroupType'
  BY <1>0, <1>1, TypeKept DEF groups
<1>3. CASE DuplicateLock
  <2>1. cursor' = head[Source[Table]] /\ Source[Table] \in Tables /\ ptr_mtx' = TRUE /\ at' = "walk"
        /\ whole' \in BOOLEAN /\ UNCHANGED <<lagging, oom>>
    BY <1>3, WorkerHas DEF DuplicateLock
  <2> QED  BY <1>0, <1>2, <2>1, TypesNext DEF WorkerTypes
<1>4. CASE DuplicateFails
  <2>1. oom' \in 0..MaxOom
    BY <1>0, <1>4, SnapshotAssumption DEF DuplicateFails, WorkerTypes
  <2>2. cursor' = NULL /\ ptr_mtx' = FALSE /\ at' = "start" /\ UNCHANGED <<lagging, whole>>
    BY <1>4 DEF DuplicateFails
  <2> QED  BY <1>0, <1>2, <2>1, <2>2, TypesNext DEF WorkerTypes
<1>5. CASE DuplicateEnd
  <2>1. ptr_mtx' = FALSE /\ at' = "start" /\ whole' \in BOOLEAN /\ UNCHANGED <<cursor, lagging, oom>>
    BY <1>5 DEF DuplicateEnd, NextOp, walk
  <2> QED  BY <1>0, <1>2, <2>1, TypesNext DEF WorkerTypes
<1>6. CASE DestroyLock
  <2>1. cursor' = head[Table] /\ Table \in Tables /\ ptr_mtx' = TRUE /\ at' = "walk"
        /\ whole' \in BOOLEAN /\ UNCHANGED <<lagging, oom>>
    BY <1>6, WorkerHas DEF DestroyLock, On
  <2> QED  BY <1>0, <1>2, <2>1, TypesNext DEF WorkerTypes
<1>7. CASE LinkBegin
  <2>1. cursor' = head[Table] /\ Table \in Tables /\ at' = "walk"
        /\ UNCHANGED <<ptr_mtx, lagging, oom, whole>>
    BY <1>7, WorkerHas DEF LinkBegin, ghosts, On
  <2> QED  BY <1>0, <1>2, <2>1, TypesNext DEF WorkerTypes
<1>8. CASE OffsetBegin
  <2>1. cursor' = head["copy"] /\ at' = "free" /\ UNCHANGED <<ptr_mtx, lagging, oom, whole>>
    BY <1>8 DEF OffsetBegin, ghosts
  <2> QED  BY <1>0, <1>2, <2>1, TypesNext, TableNames DEF WorkerTypes
<1>9. CASE OffsetAlone
  <2>1. at' = "advance" /\ UNCHANGED <<ptr_mtx, cursor, lagging, oom, whole>>
    BY <1>9 DEF OffsetAlone, walk, ghosts
  <2> QED  BY <1>0, <1>2, <2>1, TypesNext DEF WorkerTypes
<1>10. CASE OffsetAdvance
  <2>1. cursor' = hash_next[cursor] /\ at' = "free" /\ UNCHANGED <<ptr_mtx, lagging, oom, whole>>
    BY <1>10 DEF OffsetAdvance, ghosts
  <2>2. cursor \in Recs
    BY <1>0, <1>10, IInvParts DEF OffsetAdvance, Places, WorkerTypes
  <2> QED  BY <1>0, <1>2, <2>1, <2>2, TypesNext DEF WorkerTypes
<1>11. CASE ListCallstacksFails
  <2>1. oom' \in 0..MaxOom
    BY <1>0, <1>11, SnapshotAssumption DEF ListCallstacksFails, WorkerTypes
  <2>2. at' = "start" /\ UNCHANGED <<ptr_mtx, cursor, lagging, whole>>
    BY <1>11 DEF ListCallstacksFails, ghosts
  <2> QED  BY <1>0, <1>2, <2>1, <2>2, TypesNext DEF WorkerTypes
<1>12. CASE LinkEnd \/ ListBlocks \/ ListCallstacks \/ InitMaps \/ TermMaps
  <2>1. at' = "start" /\ UNCHANGED <<ptr_mtx, cursor, lagging, oom, whole>>
    BY <1>12 DEF LinkEnd, ListBlocks, ListCallstacks, InitMaps, TermMaps, NextOp, walk, ghosts
  <2> QED  BY <1>0, <1>2, <2>1, TypesNext DEF WorkerTypes
<1>13. CASE \E c \in Commands : Begin(c)
  <2>1. UNCHANGED <<ptr_mtx, at, cursor, lagging, oom, whole>>
    BY <1>13 DEF Begin, walk, ghosts
  <2> QED  BY <1>0, <1>2, <2>1, TypesNext, TypeKept
<1> QED  BY <1>3, <1>4, <1>5, <1>6, <1>7, <1>8, <1>9, <1>10, <1>11, <1>12, <1>13 DEF Moves

LEMMA ChangesTypes ==
    ASSUME IInv, DuplicateRecord \/ DestroyRecord \/ DestroyEnd \/ LinkRecord \/ Reset
    PROVE  Types'
<1>0. Types /\ WorkerTypes /\ head \in [Tables -> Recs \cup {NULL}] /\ hash_next \in [Recs -> Recs \cup {NULL}]
      /\ lagging \in SUBSET Recs /\ group \in [Callstacks -> [Links -> Recs \cup {NULL}]]
  BY IInvParts, TypeParts DEF Types
<1>1. ThreadTypes'
  <2>1. UNCHANGED threads
    BY DEF DuplicateRecord, DestroyRecord, DestroyEnd, LinkRecord, Reset
  <2> QED  BY <1>0, <2>1, TypeKept
<1>2. ASSUME cursor # NULL PROVE cursor \in Recs /\ hash_next[cursor] \in Recs \cup {NULL}
  BY <1>0, <1>2 DEF WorkerTypes
<1>3. CASE DuplicateRecord
  <2>1. PICK r \in Recs :
            /\ Allocate(r) /\ Fill(r, Block(cursor)) /\ Add(Table, r)
            /\ same_callstack_group_prev' = [same_callstack_group_prev EXCEPT ![r] = NULL]
            /\ same_callstack_group_next' = [same_callstack_group_next EXCEPT ![r] = NULL]
    BY <1>3 DEF DuplicateRecord
  <2>2. /\ cursor # NULL /\ cursor' = hash_next[cursor]
        /\ UNCHANGED <<group, ptr_mtx, at, lagging, oom, whole>>
    BY <1>3 DEF DuplicateRecord, ghosts
  <2>3. Table \in Tables
    BY <1>3, WorkerHas DEF DuplicateRecord, On
  <2>4. used' \subseteq Recs
    BY <1>0, <2>1, AllocateFree DEF Types
  <2>5. /\ ptrOf' \in [Recs -> Ptrs \cup {NULL}] /\ sizeOf' \in [Recs -> Nat]
        /\ allocator' \in [Recs -> Callstacks \cup {NULL}]
    BY <1>0, <1>2, <2>1, <2>2 DEF Types, Fill, Block
  <2>6. hash_next' \in [Recs -> Recs \cup {NULL}] /\ head' \in [Tables -> Recs \cup {NULL}]
    BY <1>0, <2>1, <2>3 DEF Add
  <2>7. /\ same_callstack_group_prev' \in [Recs -> Recs \cup {NULL}]
        /\ same_callstack_group_next' \in [Recs -> Recs \cup {NULL}]
    BY <1>0, <2>1 DEF Types
  <2>8. TableTypes'
    BY <2>4, <2>5, <2>6, <2>7 DEF TableTypes, FieldTypes
  <2>9. WorkerTypes'
    BY <1>0, <1>2, <2>2 DEF WorkerTypes
  <2> QED  BY <1>0, <1>1, <2>2, <2>8, <2>9, TypesNext, TypeKept
<1>4. CASE DestroyRecord
  <2>1. /\ cursor # NULL /\ cursor' = hash_next[cursor] /\ Release(lagging) /\ lagging' = {cursor}
        /\ UNCHANGED <<head, group, ptr_mtx, at, oom, whole>>
    BY <1>4 DEF DestroyRecord, ghosts
  <2>2. TableTypes'
    BY <1>0, <2>1, ReleaseTypes
  <2>3. WorkerTypes'
    BY <1>0, <1>2, <2>1 DEF WorkerTypes
  <2> QED  BY <1>0, <1>1, <2>1, <2>2, <2>3, TypesNext, TypeKept
<1>5. CASE DestroyEnd
  <2>1. /\ Release(lagging) /\ lagging' = {} /\ head' = [head EXCEPT ![Table] = NULL] /\ ptr_mtx' = FALSE
        /\ at' = "start" /\ whole' \in BOOLEAN /\ UNCHANGED <<group, cursor, oom>>
    BY <1>5 DEF DestroyEnd, NextOp
  <2>2. TableTypes'
    BY <1>0, <2>1, ReleaseTypes
  <2>3. WorkerTypes'
    BY <1>0, <2>1 DEF WorkerTypes
  <2> QED  BY <1>0, <1>1, <2>1, <2>2, <2>3, TypesNext, TypeKept
<1>6. CASE LinkRecord
  <2> DEFINE c == allocator[cursor]
             first == group[c][LINK[Table]]
  <2>1. /\ cursor # NULL /\ cursor' = hash_next[cursor] /\ On("link") /\ at = "walk"
        /\ same_callstack_group_next' = [same_callstack_group_next EXCEPT ![cursor] = first]
        /\ same_callstack_group_prev' = [q \in Recs |->
              CASE q = cursor -> NULL [] q = first -> cursor [] OTHER -> same_callstack_group_prev[q]]
        /\ group' = [group EXCEPT ![c][LINK[Table]] = cursor]
        /\ UNCHANGED <<pool, chains, ptr_mtx, at, lagging, oom, whole>>
    BY <1>6 DEF LinkRecord, ghosts
  <2>2. c \in Callstacks /\ LINK[Table] \in Links
    BY <2>1, WorkerHas
  <2> HIDE DEF c
  <2>3. first \in Recs \cup {NULL}
    BY <1>0, <2>2
  <2>4. GroupType'
    <3>1. group[c] \in [Links -> Recs \cup {NULL}]
      BY <1>0, <2>2
    <3>2. [group[c] EXCEPT ![LINK[Table]] = cursor] \in [Links -> Recs \cup {NULL}]
      BY <1>2, <2>1, <3>1
    <3>3. group' = [group EXCEPT ![c] = [group[c] EXCEPT ![LINK[Table]] = cursor]]
      BY <2>1
    <3> QED  BY <1>0, <3>2, <3>3 DEF GroupType
  <2> HIDE DEF first
  <2>5. same_callstack_group_next' \in [Recs -> Recs \cup {NULL}]
    BY <1>0, <1>2, <2>1, <2>3 DEF Types
  <2>6. same_callstack_group_prev' \in [Recs -> Recs \cup {NULL}]
    BY <1>0, <1>2, <2>1 DEF Types
  <2>7. TableTypes'
    BY <1>0, <2>1, <2>5, <2>6 DEF Types, TableTypes, FieldTypes, pool, chains
  <2>8. WorkerTypes'
    BY <1>0, <1>2, <2>1 DEF WorkerTypes
  <2> QED  BY <1>1, <2>4, <2>7, <2>8, TypesNext
<1>7. CASE Reset
  <2>1. /\ group' = [c \in Callstacks |-> [group[c] EXCEPT ![LINK[Table]] = NULL]]
        /\ at' = "start" /\ On("reset")
        /\ UNCHANGED <<pool, chains, same_callstack_group_prev, same_callstack_group_next, ptr_mtx,
                       cursor, lagging, oom, whole>>
    BY <1>7 DEF Reset, NextOp, ghosts
  <2>2. LINK[Table] \in Links
    BY <2>1, WorkerHas
  <2>3. GroupType'
    BY <1>0, <2>1, <2>2 DEF GroupType
  <2>4. WorkerTypes'
    BY <1>0, <2>1 DEF WorkerTypes
  <2> QED  BY <1>0, <1>1, <2>1, <2>3, <2>4, TypesNext, TypeKept
<1> QED  BY <1>3, <1>4, <1>5, <1>6, <1>7

LEMMA OffsetTypes == ASSUME IInv, OffsetFree \/ OffsetPair \/ OffsetEnd PROVE Types'
<1>0. Types /\ WorkerTypes /\ head \in [Tables -> Recs \cup {NULL}] /\ lagging \in SUBSET Recs
  BY IInvParts, TypeParts DEF Types
<1>1. ThreadTypes'
  <2>1. UNCHANGED threads
    BY DEF OffsetFree, OffsetPair, OffsetEnd
  <2> QED  BY <1>0, <2>1, TypeKept
<1>2. CASE OffsetFree \/ OffsetEnd
  <2>1. /\ Release(lagging) /\ lagging' = {} /\ at' \in {"pair", "start"}
        /\ UNCHANGED <<head, group, ptr_mtx, cursor, oom, whole>>
    BY <1>2 DEF OffsetFree, OffsetEnd, ghosts
  <2>2. TableTypes'
    BY <1>0, <2>1, ReleaseTypes
  <2>3. WorkerTypes'
    BY <1>0, <2>1 DEF WorkerTypes
  <2> QED  BY <1>0, <1>1, <2>1, <2>2, <2>3, TypesNext, TypeKept
<1>3. CASE OffsetPair
  <2> DEFINE r == cursor
             m == Match(cursor)
             gone == [copy |-> Find("copy", ptrOf[cursor]),
                      snapshot_copy |-> Find("snapshot_copy", ptrOf[Match(cursor)])]
  <2>1. /\ On("offset") /\ at = "pair" /\ m # NULL /\ at' = "advance"
        /\ Remove(gone) /\ Unlink(r, m) /\ lagging' = {r, m}
        /\ UNCHANGED <<pool, ptr_mtx, cursor, oom, whole>>
    BY <1>3 DEF OffsetPair, ghosts
  <2>2. /\ "copy" \in Copies /\ "snapshot_copy" \in Copies /\ Copies = {"copy", "snapshot_copy"}
        /\ "copy" \in Tables /\ "snapshot_copy" \in Tables
    BY TableNames
  <2>3. r \in Owned("copy")
    BY <2>1, IInvParts DEF Walks, Places
  <2>4. m \in Owned("snapshot_copy")
    BY <2>1, <2>3, MatchIs
  <2>5. gone["copy"] = r /\ gone["snapshot_copy"] = m /\ DOMAIN gone = Copies
    BY <2>1, <2>2, <2>3, <2>4, FindIs
  <2>6. r \in Recs /\ m \in Recs
    BY <2>2, <2>3, <2>4, IInvParts DEF Chains
  <2> HIDE DEF gone, m, r
  <2>7. Gone(gone, Copies)
    <3>1. \A k \in Copies : First(k) = head[k] /\ k \in Tables
      BY <2>1, <2>2, OffsetFinds
    <3>2. Copies = {k \in DOMAIN gone : gone[k] # NULL}
      BY <2>2, <2>5, <2>6, RecsNotNull
    <3> QED  BY <2>2, <2>3, <2>4, <2>5, <3>1, <3>2 DEF Gone
  <2>8. hash_next' \in [Recs -> Recs \cup {NULL}] /\ head' \in [Tables -> Recs \cup {NULL}]
    BY <2>1, <2>7, RemoveKeeps, IInvParts
  <2> DEFINE prev == same_callstack_group_prev
             next == same_callstack_group_next
  <2>9. prev \in [Recs -> Recs \cup {NULL}] /\ next \in [Recs -> Recs \cup {NULL}]
    BY <1>0 DEF Types
  <2>10. /\ group' = [c \in Callstacks |-> [
               LINK_CURRENT  |-> IF prev[r] = NULL /\ allocator[r] = c
                                 THEN next[r] ELSE group[c]["LINK_CURRENT"],
               LINK_SNAPSHOT |-> IF prev[m] = NULL /\ allocator[m] = c
                                 THEN next[m] ELSE group[c]["LINK_SNAPSHOT"]]]
         /\ next' = [q \in Recs |->
               CASE q = prev[r] -> next[r] [] q = prev[m] -> next[m] [] OTHER -> next[q]]
         /\ prev' = [q \in Recs |->
               CASE q = next[r] -> prev[r] [] q = next[m] -> prev[m] [] OTHER -> prev[q]]
    BY <2>1 DEF Unlink
  <2>11. next' \in [Recs -> Recs \cup {NULL}]
    BY <2>6, <2>9, <2>10
  <2>12. prev' \in [Recs -> Recs \cup {NULL}]
    BY <2>6, <2>9, <2>10
  <2>13. TableTypes'
    BY <1>0, <2>1, <2>8, <2>11, <2>12 DEF Types, TableTypes, FieldTypes, pool
  <2>14. GroupType'
    <3>1. \A c \in Callstacks : \A l \in {"LINK_CURRENT", "LINK_SNAPSHOT"} : group[c][l] \in Recs \cup {NULL}
      BY TableNames, IInvParts DEF Types
    <3>2. \A c \in Callstacks : group'[c] \in [{"LINK_CURRENT", "LINK_SNAPSHOT"} -> Recs \cup {NULL}]
      BY <2>6, <2>9, <2>10, <3>1
    <3>3. group' = [c \in Callstacks |-> group'[c]]
      BY <2>10
    <3> QED  BY <3>2, <3>3, TableNames DEF GroupType
  <2>15. WorkerTypes'
    BY <1>0, <2>1, <2>6 DEF WorkerTypes
  <2> QED  BY <1>1, <2>13, <2>14, <2>15, TypesNext
<1> QED  BY <1>2, <1>3

-----------------------------------------------------------------------------
(* The invariant holds *)

LEMMA InitHolds == Init => IInv
<1> SUFFICES ASSUME Init PROVE IInv
  OBVIOUS
<1>1. Types
  <2>1. TableTypes
    BY DEF Init, TableTypes, FieldTypes
  <2>2. ThreadTypes
    <3>1. adds \in 0..MaxAdds
      BY SnapshotAssumption DEF Init
    <3> QED  BY <3>1 DEF Init, ThreadTypes
  <2>3. WorkerTypes
    <3>1. oom \in 0..MaxOom
      BY SnapshotAssumption DEF Init
    <3> QED  BY <3>1 DEF Init, WorkerTypes
  <2>4. GroupType
    BY DEF Init, GroupType
  <2> QED  BY <2>1, <2>2, <2>3, <2>4, TypeParts
<1>2. Plan(todo) /\ Left = {}
  <2>1. <<>> \in Seq(Known) /\ DOMAIN <<>> = {} /\ todo = <<>>
    BY DEF Init
  <2>2. InOrder(<<>>)
    BY <2>1 DEF InOrder
  <2>3. Complete({})
    BY DEF Complete
  <2> QED  BY <2>1, <2>2, <2>3, RangeEmpty DEF Plan, Left
<1>3. at = "start" /\ cursor = NULL /\ lagging = {} /\ ~ptr_mtx /\ used = {}
  BY DEF Init
<1>4. \A k \in Tables : Owned(k) = {} /\ First(k) = NULL
  <2>1. ASSUME NEW k \in Tables PROVE Owned(k) = {} /\ First(k) = NULL
    <3>1. First(k) = NULL
      BY DEF Init, First
    <3>2. IsChain(NULL, hash_next, {}, NULL)
      BY ChainEmpty
    <3>3. Reached(NULL, hash_next) = {}
      <4>1. NULL \in Recs \cup {NULL} /\ {} \in SUBSET Recs
        OBVIOUS
      <4> QED  BY <3>2, <4>1, ReachedIs
    <3> QED  BY <3>1, <3>3, FirstOwned
  <2> QED  BY <2>1
<1>5. Chains
  BY <1>4, ChainEmpty DEF Chains
<1>6. Busy = {} /\ Held = {}
  BY DEF Init, Busy, Held
<1>7. Apart
  BY <1>4, <1>6 DEF Apart
<1>8. Accounted
  <2>1. (UNION {Owned(k) : k \in Tables}) = {}
    BY <1>4
  <2> QED  BY <1>3, <1>6, <2>1 DEF Accounted
<1>9. Filled
  BY <1>4 DEF Filled
<1>10. Places
  BY <1>2, <1>3 DEF Places
<1>11. Walks
  BY <1>3 DEF Walks
<1>12. Unique
  BY <1>2, <1>4, TableNames DEF Unique, Distinct
<1>13. Lists
  BY <1>2 DEF Lists
<1> QED  BY <1>1, <1>5, <1>7, <1>8, <1>9, <1>10, <1>11, <1>12, <1>13 DEF IInv, Shape, Records

LEMMA StutterKeeps == ASSUME IInv, UNCHANGED vars PROVE IInv'
<1>1. UNCHANGED <<pool, chains, groups, ptr_mtx, threads, todo, at, walk, maps_uses, oom, ghosts>>
  BY DEF vars
<1>2. Types'
  <2>1. Types /\ UNCHANGED <<ptr_mtx, whole, at, cursor, lagging, oom>>
    BY <1>1, IInvParts DEF walk, ghosts
  <2>2. UNCHANGED threads /\ UNCHANGED group
    BY <1>1 DEF groups
  <2>3. UNCHANGED <<pool, chains, same_callstack_group_prev, same_callstack_group_next>>
    BY <1>1 DEF groups
  <2> QED  BY <2>1, <2>2, <2>3, TypeKept, TypesNext
<1>3. UNCHANGED <<pool, chains, groups, ptr_mtx, apc, arec, todo, at, cursor, lagging>>
  BY <1>1 DEF threads, walk
<1>4. \A k \in Tables : First(k)' = First(k) /\ head'[k] = head[k]
  BY <1>3 DEF First, chains, On, Table
<1>5. Records' /\ \A k \in Tables : Owned(k)' = Owned(k)
  BY <1>3, <1>4, Steady
<1>6. \A S : KeptOn(S)
  BY <1>3 DEF KeptOn, pool, chains, groups
<1>7. Aside
  BY <1>3, <1>4, <1>5, <1>6 DEF Aside, groups
<1>8. Distinct("alloc")'
  BY <1>3, <1>5, TableNames, IInvParts, DistinctKept DEF Unique
<1>9. Shape'
  BY <1>5, <1>7, <1>8, AsideKeeps
<1> QED  BY <1>2, <1>9 DEF IInv

LEMMA AppKeeps == ASSUME IInv, NEW t \in Threads, App(t) PROVE IInv'
<1>1. Types'
  BY AppTypes
<1>2. Shape'
  BY AppAllocateKeeps, AppAddKeeps, AppRemoveKeeps, AppFreeKeeps DEF App
<1> QED  BY <1>1, <1>2 DEF IInv

LEMMA WorkerKeeps == ASSUME IInv, Worker PROVE IInv'
<1>1. Types'
  BY MovesTypes, ChangesTypes, OffsetTypes DEF Worker, Moves
<1>2. ASSUME DuplicateLock \/ DuplicateRecord \/ DuplicateFails \/ DuplicateEnd PROVE Shape'
  BY <1>2, DuplicateLockKeeps, DuplicateRecordKeeps, DuplicateFailsKeeps, DuplicateEndKeeps
<1>3. ASSUME DestroyLock \/ DestroyRecord \/ DestroyEnd PROVE Shape'
  BY <1>3, DestroyLockKeeps, DestroyRecordKeeps, DestroyEndKeeps
<1>4. ASSUME LinkBegin \/ LinkRecord \/ LinkEnd PROVE Shape'
  BY <1>4, LinkBeginKeeps, LinkRecordKeeps, LinkEndKeeps
<1>5. ASSUME OffsetBegin \/ OffsetFree \/ OffsetPair \/ OffsetAlone \/ OffsetAdvance \/ OffsetEnd PROVE Shape'
  BY <1>5, OffsetMovesKeep, OffsetFreeKeeps, OffsetPairKeeps, OffsetEndKeeps DEF OffsetMoves
<1>6. ASSUME ListBlocks \/ ListCallstacks \/ ListCallstacksFails \/ InitMaps \/ TermMaps \/ Reset PROVE Shape'
  BY <1>6, PlainKeeps, ListCallstacksFailsKeeps, ResetKeeps
<1>7. Shape'
  BY <1>2, <1>3, <1>4, <1>5, <1>6 DEF Worker, IInv
<1> QED  BY <1>1, <1>7 DEF IInv

LEMMA NextKeeps == IInv /\ [CleanStartNext]_vars => IInv'
<1> SUFFICES ASSUME IInv, [CleanStartNext]_vars PROVE IInv'
  OBVIOUS
<1>1. CASE UNCHANGED vars
  BY <1>1, StutterKeeps
<1>2. CASE CleanStartNext
  <2>1. Next /\ (todo = <<>> => \A c \in Commands : todo' = Script[c] => CleanStart(c))
    BY <1>2 DEF CleanStartNext
  <2>2. CASE \E t \in Threads : App(t)
    BY <2>2, AppKeeps
  <2>3. ASSUME NEW c \in Commands, Begin(c) PROVE IInv'
    <3>1. CleanStart(c)
      BY <2>1, <2>3 DEF Begin
    <3>2. Shape'
      BY <2>3, <3>1, BeginKeeps
    <3>3. Types'
      BY <2>3, MovesTypes DEF Moves
    <3> QED  BY <3>2, <3>3 DEF IInv
  <2>4. CASE Worker
    BY <2>4, WorkerKeeps
  <2> QED  BY <2>1, <2>2, <2>3, <2>4 DEF Next
<1> QED  BY <1>1, <1>2

LEMMA InvariantHolds == CleanStartSpec => []IInv
<1> QED  BY InitHolds, NextKeeps, PTL DEF CleanStartSpec

-----------------------------------------------------------------------------
(* What the invariant says of the walks and of the lists *)

LEMMA InUsed == ASSUME IInv PROVE \A k \in Tables : Owned(k) \subseteq used
<1>1. used = (UNION {Owned(k) : k \in Tables}) \cup Held \cup lagging
  BY IInvParts DEF Accounted
<1> QED  BY <1>1

\* The first record of a chain is one of its records.
LEMMA FirstIn ==
    ASSUME NEW next, NEW S, cursor # NULL, IsChain(cursor, next, S, NULL)
    PROVE  cursor \in S
  BY ChainLinks

LEMMA InvariantWalks == IInv => WalkOnOwnRecords
<1> SUFFICES ASSUME IInv, cursor # NULL
             PROVE  cursor \in used /\
                    CASE On("duplicate") -> cursor \in Members(Source[Table])
                      [] On("offset")    -> cursor \in Members("copy") \cup lagging
                      [] OTHER           -> cursor \in Owned(Table)
  BY DEF WalkOnOwnRecords
<1>1. /\ Plan(todo) /\ at # "start" /\ at \in {"start", "walk", "free", "pair", "advance"}
      /\ at = "walk" => On("duplicate") \/ On("destroy") \/ On("link")
      /\ at \in {"free", "pair", "advance"} => On("offset")
  BY IInvParts DEF Places, Types
<1>2. lagging \subseteq used /\ \A k \in Tables : Owned(k) \subseteq used
  BY InUsed, IInvParts DEF Accounted
<1>3. CASE On("duplicate")
  <2>1. Source[Table] \in Tables /\ ~On("destroy") /\ ~On("link") /\ ~On("offset")
    BY <1>1, <1>3, OnDuplicate
  <2>2. at = "walk"
    BY <1>1, <2>1
  <2>3. IsChain(cursor, hash_next, Ahead, NULL) /\ Ahead \subseteq Owned(Source[Table])
    BY <1>3, <2>2, IInvParts DEF Walks
  <2>4. cursor \in Owned(Source[Table])
    BY <2>3, FirstIn
  <2>5. Owned(Source[Table]) = Members(Source[Table])
    BY <2>1, FirstIsHead
  <2>6. cursor \in used
    BY <1>2, <2>1, <2>4
  <2> QED  BY <1>3, <2>1, <2>4, <2>5, <2>6
<1>4. CASE On("offset")
  <2>1. ~On("duplicate") /\ ~On("destroy") /\ ~On("link")
    BY <1>1, <1>4, OnOffset
  <2>2. at \in {"free", "pair", "advance"}
    BY <1>1, <2>1
  <2>3. cursor \in Owned("copy") \cup lagging
    BY <2>2, IInvParts DEF Walks
  <2>4. "copy" \in Tables
    BY TableNames
  <2>5. Owned("copy") = Members("copy")
    BY <2>1, <2>4, FirstIsHead
  <2>6. cursor \in used
    BY <1>2, <2>3, <2>4
  <2> QED  BY <1>4, <2>1, <2>3, <2>5, <2>6
<1>5. CASE ~On("duplicate") /\ ~On("offset")
  <2>1. at = "walk" /\ (On("destroy") \/ On("link"))
    BY <1>1, <1>5
  <2>2. CASE On("destroy")
    <3>1. Table \in Tables
      BY <1>1, <2>2, OnDestroy, TableNames
    <3>2. First(Table) = cursor
      BY <2>1, <2>2 DEF First
    <3>3. IsChain(cursor, hash_next, Owned(Table), NULL)
      <4>1. IsChain(First(Table), hash_next, Owned(Table), NULL)
        BY <3>1, IInvParts DEF Chains
      <4> QED  BY <3>2, <4>1
    <3>4. cursor \in Owned(Table)
      BY <3>3, FirstIn
    <3> QED  BY <1>2, <1>5, <3>1, <3>4
  <2>3. CASE On("link")
    <3>1. Table \in Tables
      BY <1>1, <2>3, OnLink, TableNames
    <3>2. IsChain(cursor, hash_next, Ahead, NULL) /\ Ahead \subseteq Owned(Table)
      BY <2>1, <2>3, IInvParts DEF Walks
    <3>3. cursor \in Owned(Table)
      BY <3>2, FirstIn
    <3> QED  BY <1>2, <1>5, <3>1, <3>3
  <2> QED  BY <2>1, <2>2, <2>3
<1> QED  BY <1>3, <1>4, <1>5

\* A list in both directions, read from its first record.
LEMMA DoublyPath ==
    ASSUME NEW first \in Recs \cup {NULL}, NEW next, NEW prev, NEW S \in SUBSET Recs,
           Doubly(first, next, prev, S)
    PROVE  /\ Reached(first, next) = S
           /\ \A i \in DOMAIN Path(first, next) :
                prev[Path(first, next)[i]] = IF i = 1 THEN NULL ELSE Path(first, next)[i - 1]
<1>0. IsChain(first, next, S, NULL)
  BY DEF Doubly
<1>1. PICK n \in Nat : \E s \in [1..n -> S] : Ordered(first, next, S, NULL, n, s)
  BY <1>0 DEF IsChain
<1>2. PICK s \in [1..n -> S] : Ordered(first, next, S, NULL, n, s)
  BY <1>1
<1>3. Path(first, next) = s
  BY <1>2, PathIs
<1>4. /\ \A x \in S : \E i \in 1..n : s[i] = x
      /\ \A i, j \in 1..n : s[i] = s[j] => i = j
      /\ first = IF n = 0 THEN NULL ELSE s[1]
      /\ \A i \in 1..n : next[s[i]] = IF i = n THEN NULL ELSE s[i + 1]
  BY <1>2 DEF Ordered
<1>5. ASSUME NEW i \in 1..n PROVE prev[s[i]] = IF i = 1 THEN NULL ELSE s[i - 1]
  <2>1. n # 0 /\ first = s[1] /\ 1 \in 1..n /\ s[i] \in S
    BY <1>4
  <2>2. CASE i = 1
    BY <2>1, <2>2 DEF Doubly
  <2>3. CASE i # 1
    <3>1. s[i] # first
      BY <1>4, <2>1, <2>3
    <3>2. prev[s[i]] \in S /\ next[prev[s[i]]] = s[i]
      BY <2>1, <3>1 DEF Doubly
    <3>3. PICK j \in 1..n : s[j] = prev[s[i]]
      BY <1>4, <3>2
    <3>4. j # n /\ j + 1 \in 1..n /\ s[j + 1] = s[i]
      BY <1>4, <2>1, <3>2, <3>3, RecsNotNull
    <3>5. j + 1 = i
      BY <1>4, <3>4
    <3>6. j = i - 1
      BY <3>5
    <3> QED  BY <2>3, <3>3, <3>6
  <2> QED  BY <2>2, <2>3
<1>6. DOMAIN s = 1..n
  OBVIOUS
<1> QED  BY <1>0, <1>3, <1>5, <1>6, ReachedIs

\* While blocks are paired or groups printed, every copy is linked.
LEMMA OnGroups ==
    ASSUME Plan(todo), On("offset") \/ On("print_callstacks")
    PROVE  /\ \A k \in Copies : Do("link", k) \notin Left /\ Do("reset", k) \in Left
           /\ ~On("destroy")
<1>1. CASE On("offset")
  BY <1>1, OnOffset
<1>2. CASE On("print_callstacks")
  <2>1. Do("print_callstacks", "copy") \in Left /\ ~On("destroy") /\ Table = "copy"
    BY <1>2, OnIs, DoKnown
  <2>2. \A x \in Left : x = Do("print_callstacks", "copy") \/ 12 < Rank(x)
    BY <1>2, <2>1, OnIs, Ranks
  <2>3. ASSUME NEW k \in Copies PROVE Do("link", k) \notin Left
    BY <2>2, Ranks, DoIs, TableNames
  <2>4. \A k \in Copies : Do("reset", k) \in Left
    BY <2>1 DEF Plan, Complete, Left
  <2> QED  BY <2>1, <2>3, <2>4
<1> QED  BY <1>1, <1>2

LEMMA InvariantGroups == IInv => GroupsAgree
<1> SUFFICES ASSUME IInv, On("offset") \/ On("print_callstacks"), NEW c \in Callstacks, NEW k \in Copies
             PROVE  LET list == Path(group[c][LINK[k]], same_callstack_group_next)
                    IN  /\ Group(c, LINK[k]) = {r \in Members(k) : allocator[r] = c}
                        /\ \A i \in DOMAIN list :
                             same_callstack_group_prev[list[i]] = IF i = 1 THEN NULL ELSE list[i - 1]
  BY DEF GroupsAgree
<1> DEFINE S == {r \in Members(k) : allocator[r] = c}
           first == group[c][LINK[k]]
<1>1. Plan(todo)
  BY IInvParts DEF Places
<1>2. Do("link", k) \notin Left /\ Do("reset", k) \in Left /\ ~On("destroy") /\ k \in Tables
  BY <1>1, OnGroups, TableNames
<1>3. Listed(k) = Members(k) /\ Members(k) \subseteq Recs
  <2>1. Owned(k) = Members(k) /\ Owned(k) \subseteq Recs
    BY <1>2, FirstIsHead, IInvParts DEF Chains
  <2> QED  BY <1>2, <2>1 DEF Listed
<1>4. Doubly(first, same_callstack_group_next, same_callstack_group_prev, S)
  <2>1. Doubly(first, same_callstack_group_next, same_callstack_group_prev,
               {r \in Listed(k) : allocator[r] = c})
    BY <1>2, IInvParts DEF Lists
  <2> QED  BY <1>3, <2>1
<1>5. first \in Recs \cup {NULL} /\ S \in SUBSET Recs
  <2>1. LINK[k] \in Links
    BY TableNames
  <2>2. group \in [Callstacks -> [Links -> Recs \cup {NULL}]]
    BY IInvParts DEF Types
  <2> QED  BY <1>3, <2>1, <2>2
<1> HIDE DEF S, first
<1>6. /\ Reached(first, same_callstack_group_next) = S
      /\ \A i \in DOMAIN Path(first, same_callstack_group_next) :
           same_callstack_group_prev[Path(first, same_callstack_group_next)[i]] =
             IF i = 1 THEN NULL ELSE Path(first, same_callstack_group_next)[i - 1]
  BY <1>4, <1>5, DoublyPath
<1> QED  BY <1>6 DEF Group, S, first

-----------------------------------------------------------------------------
(* How many records there are *)

\* Records in disjoint sets.
LEMMA ApartSum ==
    ASSUME NEW A, NEW B, IsFiniteSet(A), IsFiniteSet(B), A \cap B = {}
    PROVE  /\ IsFiniteSet(A \cup B)
           /\ Cardinality(A \cup B) = Cardinality(A) + Cardinality(B)
           /\ Cardinality(A) \in Nat /\ Cardinality(B) \in Nat /\ Cardinality(A \cup B) \in Nat
<1>1. IsFiniteSet(A \cup B) /\ IsFiniteSet(A \cap B)
  BY FS_Union, FS_EmptySet
<1>2. Cardinality(A \cup B) = Cardinality(A) + Cardinality(B) - Cardinality(A \cap B)
  BY FS_Union
<1>3. Cardinality(A \cap B) = 0
  BY FS_EmptySet
<1>4. Cardinality(A) \in Nat /\ Cardinality(B) \in Nat /\ Cardinality(A \cup B) \in Nat
  BY <1>1, FS_CardinalityType
<1> QED  BY <1>1, <1>2, <1>3, <1>4

\* The sum over the tables.
LEMMA TableSum ==
    ASSUME NEW f, f = [k \in Tables |-> Cardinality(Owned(k))], \A k \in Tables : f[k] \in Nat
    PROVE  MapThenSumSet(LAMBDA k : Cardinality(Owned(k)), Tables)
             = f["alloc"] + f["copy"] + f["snapshot"] + f["snapshot_copy"]
<1> DEFINE iter[s \in SUBSET Tables] ==
        IF s = {} THEN 0 ELSE LET x == CHOOSE x \in s : TRUE IN Cardinality(Owned(x)) + iter[s \ {x}]
<1>1. MapThenSumSet(LAMBDA k : Cardinality(Owned(k)), Tables) = iter[Tables]
  BY Zenon DEF MapThenSumSet, MapThenFoldSet
<1>2. IsFiniteSet(Tables) /\ \A k \in Tables : f[k] \in Int
  <2>1. IsFiniteSet({"alloc"}) /\ IsFiniteSet({"copy"}) /\ IsFiniteSet({"snapshot"}) /\ IsFiniteSet({"snapshot_copy"})
    BY FS_Singleton
  <2>2. IsFiniteSet(({"alloc"} \cup {"copy"}) \cup ({"snapshot"} \cup {"snapshot_copy"}))
    BY <2>1, FS_Union
  <2>3. Tables = ({"alloc"} \cup {"copy"}) \cup ({"snapshot"} \cup {"snapshot_copy"})
    BY TableNames
  <2> QED  BY <2>2, <2>3
<1>3. PICK g : IsTotal(g, f, Tables)
  BY <1>2, TotalExists
<1>4. \A s \in SUBSET Tables : s # {} => f[Pick(s)] = Cardinality(Owned(Pick(s)))
  BY PickIn
<1> DEFINE Term(h, s) == IF s = {} THEN 0 ELSE Cardinality(Owned(Pick(s))) + h[s \ {Pick(s)}]
<1>5. \A s \in SUBSET Tables : \A h : Body(h, f, s) = Term(h, s)
  BY <1>4 DEF Body
<1>6. \A h : [s \in SUBSET Tables |-> Body(h, f, s)] = [s \in SUBSET Tables |-> Term(h, s)]
  <2> HIDE DEF Term
  <2> QED  BY <1>5
<1>7. g = [s \in SUBSET Tables |-> Term(g, s)]
  BY <1>3, <1>6 DEF IsTotal
<1>8. iter = [s \in SUBSET Tables |-> Term(iter, s)]
  BY <1>7, Zenon DEF Pick
<1> HIDE DEF iter, Term
<1>9. IntTotal(iter, f, Tables)
  BY <1>2, <1>6, <1>8 DEF IntTotal, IsTotal
<1>10. AnyOrder(iter, f, Tables)
  BY <1>9, TotalAny
<1> DEFINE A == {"alloc"}  B == {"alloc", "copy"}  C == {"alloc", "copy", "snapshot"}
<1>11. /\ A \in SUBSET Tables /\ B \in SUBSET Tables /\ C \in SUBSET Tables /\ Tables \in SUBSET Tables
       /\ "alloc" \in A /\ "copy" \in B /\ "snapshot" \in C /\ "snapshot_copy" \in Tables
       /\ A \ {"alloc"} = {} /\ B \ {"copy"} = A /\ C \ {"snapshot"} = B
       /\ Tables \ {"snapshot_copy"} = C
  BY TableNames
<1> HIDE DEF A, B, C
<1>12. iter[{}] = 0 /\ iter[A] = f["alloc"] + iter[{}]
  BY <1>10, <1>11 DEF AnyOrder
<1>13. iter[B] = f["copy"] + iter[A]
  BY <1>10, <1>11 DEF AnyOrder
<1>14. iter[C] = f["snapshot"] + iter[B]
  BY <1>10, <1>11 DEF AnyOrder
<1>15. iter[Tables] = f["snapshot_copy"] + iter[C]
  BY <1>10, <1>11 DEF AnyOrder
<1>16. f["alloc"] \in Nat /\ f["copy"] \in Nat /\ f["snapshot"] \in Nat /\ f["snapshot_copy"] \in Nat
  BY TableNames
<1> QED  BY <1>1, <1>12, <1>13, <1>14, <1>15, <1>16

\* Each busy thread has a record of its own.
LEMMA HeldCount ==
    ASSUME IInv
    PROVE  IsFiniteSet(Held) /\ Cardinality(Held) = Cardinality(Busy)
<1>1. (\A t \in Busy : arec[t] \in Recs) /\ (\A t, u \in Busy : arec[t] = arec[u] => t = u)
  BY IInvParts DEF Apart
<1>2. Held \subseteq Recs
  BY <1>1, HeldIs
<1>3. IsFiniteSet(Held)
  BY <1>2, RecsNotNull, FS_Subset
<1> DEFINE h == [t \in Busy |-> arec[t]]
<1>4. h \in [Busy -> Held]
  BY HeldIs
<1>5. \A t, u \in Busy : h[t] = h[u] => t = u
  BY <1>1
<1>6. \A x \in Held : \E t \in Busy : h[t] = x
  BY HeldIs
<1> HIDE DEF h
<1>7. h \in Bijection(Busy, Held)
  BY <1>4, <1>5, <1>6 DEF Bijection, Injection, Surjection, IsInjective
<1>8. IsFiniteSet(Busy)
  <2>1. h \in Injection(Busy, Held)
    BY <1>4, <1>5 DEF Injection, IsInjective
  <2> QED  BY <1>3, <2>1, FS_Injection
<1>9. ExistsBijection(Busy, Held)
  BY <1>7 DEF ExistsBijection
<1>10. Cardinality(Held) = Cardinality(Busy)
  BY <1>8, <1>9, FS_Bijection
<1> QED  BY <1>3, <1>10

LEMMA InvariantRecords == IInv => RecordsAccounted
<1> SUFFICES ASSUME IInv PROVE RecordsAccounted
  OBVIOUS
<1> DEFINE f == [k \in Tables |-> Cardinality(Owned(k))]
           A == Owned("alloc")
           B == Owned("copy")
           C == Owned("snapshot")
           D == Owned("snapshot_copy")
<1>1. used = (UNION {Owned(k) : k \in Tables}) \cup Held \cup lagging
  BY IInvParts DEF Accounted
<1>2. (UNION {Owned(k) : k \in Tables}) = (A \cup B) \cup (C \cup D)
  BY TableNames
<1>3. \A k \in Tables : IsFiniteSet(Owned(k)) /\ Cardinality(Owned(k)) \in Nat
  <2>1. \A k \in Tables : Owned(k) \subseteq Recs
    BY IInvParts DEF Chains
  <2> QED  BY <2>1, RecsNotNull, FS_Subset, FS_CardinalityType
<1>4. /\ "alloc" \in Tables /\ "copy" \in Tables /\ "snapshot" \in Tables /\ "snapshot_copy" \in Tables
  BY TableNames
<1>5. IsFiniteSet(A) /\ IsFiniteSet(B) /\ IsFiniteSet(C) /\ IsFiniteSet(D)
  BY <1>3, <1>4
<1>6. /\ A \cap B = {} /\ C \cap D = {} /\ A \cap C = {} /\ A \cap D = {} /\ B \cap C = {} /\ B \cap D = {}
  <2>1. \A j, k \in Tables : j # k => Owned(j) \cap Owned(k) = {}
    BY IInvParts DEF Apart
  <2> QED  BY <1>4, <2>1
<1>7. \A k \in Tables : Owned(k) \cap (Held \cup lagging) = {}
  BY IInvParts DEF Apart
<1>8. Held \cap lagging = {} /\ IsFiniteSet(Held) /\ Cardinality(Held) = Cardinality(Busy)
  BY HeldCount, IInvParts DEF Apart
<1>9. IsFiniteSet(lagging)
  <2>1. lagging \subseteq Recs
    BY IInvParts DEF Types
  <2> QED  BY <2>1, RecsNotNull, FS_Subset
<1>10. /\ f["alloc"] = Cardinality(A) /\ f["copy"] = Cardinality(B)
       /\ f["snapshot"] = Cardinality(C) /\ f["snapshot_copy"] = Cardinality(D)
       /\ \A k \in Tables : f[k] \in Nat
  BY <1>3, <1>4
<1>11. A \cap (Held \cup lagging) = {} /\ B \cap (Held \cup lagging) = {}
       /\ C \cap (Held \cup lagging) = {} /\ D \cap (Held \cup lagging) = {}
  BY <1>4, <1>7
<1>12. MapThenSumSet(LAMBDA k : Cardinality(Owned(k)), Tables)
         = f["alloc"] + f["copy"] + f["snapshot"] + f["snapshot_copy"]
  BY <1>10, TableSum
<1> HIDE DEF f, A, B, C, D
<1>13. /\ IsFiniteSet(A \cup B) /\ Cardinality(A \cup B) = Cardinality(A) + Cardinality(B)
       /\ Cardinality(A) \in Nat /\ Cardinality(B) \in Nat
  BY <1>5, <1>6, ApartSum
<1>14. /\ IsFiniteSet(C \cup D) /\ Cardinality(C \cup D) = Cardinality(C) + Cardinality(D)
       /\ Cardinality(C) \in Nat /\ Cardinality(D) \in Nat
  BY <1>5, <1>6, ApartSum
<1>15. /\ IsFiniteSet((A \cup B) \cup (C \cup D))
       /\ Cardinality((A \cup B) \cup (C \cup D)) = Cardinality(A \cup B) + Cardinality(C \cup D)
  <2>1. (A \cup B) \cap (C \cup D) = {}
    BY <1>6
  <2> QED  BY <1>13, <1>14, <2>1, ApartSum
<1>16. /\ IsFiniteSet(Held \cup lagging)
       /\ Cardinality(Held \cup lagging) = Cardinality(Held) + Cardinality(lagging)
       /\ Cardinality(Held) \in Nat /\ Cardinality(lagging) \in Nat
  BY <1>8, <1>9, ApartSum
<1>17. Cardinality(used) = Cardinality((A \cup B) \cup (C \cup D)) + Cardinality(Held \cup lagging)
  <2>1. ((A \cup B) \cup (C \cup D)) \cap (Held \cup lagging) = {}
    BY <1>11
  <2>2. used = ((A \cup B) \cup (C \cup D)) \cup (Held \cup lagging)
    BY <1>1, <1>2
  <2> QED  BY <1>15, <1>16, <2>1, <2>2, ApartSum
<1>18. Cardinality(used) = f["alloc"] + f["copy"] + f["snapshot"] + f["snapshot_copy"]
                             + Cardinality(Busy) + Cardinality(lagging)
  BY <1>8, <1>10, <1>13, <1>14, <1>15, <1>16, <1>17
<1>19. Cardinality(used) = MapThenSumSet(LAMBDA k : Cardinality(Owned(k)), Tables)
                             + Cardinality(Busy) + Cardinality(lagging)
  BY <1>12, <1>18, Zenon
<1> QED  BY <1>1, <1>19, Zenon DEF RecordsAccounted, Busy
-----------------------------------------------------------------------------
(* What a step does to the tables: most leave all as they are *)

\* No table is being given back.
Away == ~(On("destroy") /\ at = "walk")

LEMMA AwayFirst ==
    ASSUME Away, Away', head' = head, NEW k \in Tables
    PROVE  First(k)' = First(k)
  BY DEF Away, First

LEMMA TableStays ==
    ASSUME IInv, UNCHANGED <<pool, chains>>, NEW k \in Tables, First(k)' = First(k)
    PROVE  SameTable(k)
<1>1. \A x \in Owned(k) : hash_next'[x] = hash_next[x]
  BY DEF chains
<1>2. Owned(k)' = Owned(k)
  BY <1>1, OwnedKept, IInvParts
<1>3. SameBlocks(Owned(k))
  BY DEF SameBlocks, Block, pool
<1> QED  BY <1>2, <1>3 DEF SameTable

LEMMA TablesStay ==
    ASSUME IInv, UNCHANGED <<pool, chains>>, Away, Away'
    PROVE  \A k \in Tables : SameTable(k)
<1>1. head' = head
  BY DEF chains
<1> QED  BY <1>1, AwayFirst, TableStays

Rests ==
    \/ ListBlocks \/ ListCallstacks \/ ListCallstacksFails \/ InitMaps \/ TermMaps \/ Reset
    \/ DuplicateFails \/ DuplicateEnd \/ LinkEnd \/ OffsetBegin \/ OffsetAlone \/ OffsetAdvance
    \/ DuplicateLock \/ LinkBegin \/ LinkRecord \/ \E c \in Commands : Begin(c)

LEMMA RestsTables == ASSUME IInv, Rests PROVE \A k \in Tables : SameTable(k)
<1>1. CASE ListBlocks \/ ListCallstacks \/ InitMaps \/ TermMaps \/ Reset \/ DuplicateEnd \/ LinkEnd
  <2>1. UNCHANGED <<pool, chains>> /\ at' = "start" /\ ~On("destroy")
    BY <1>1, OnlyOn DEF ListBlocks, ListCallstacks, InitMaps, TermMaps, Reset, DuplicateEnd, LinkEnd, NextOp
  <2> QED  BY <2>1, TablesStay DEF Away
<1>2. CASE ListCallstacksFails \/ DuplicateFails
  <2>1. UNCHANGED <<pool, chains>> /\ at' = "start" /\ ~On("destroy")
    BY <1>2, OnlyOn DEF ListCallstacksFails, DuplicateFails
  <2> QED  BY <2>1, TablesStay DEF Away
<1>3. CASE OffsetBegin \/ OffsetAlone \/ OffsetAdvance
  <2>1. UNCHANGED <<pool, chains>> /\ at' # "walk" /\ ~On("destroy")
    BY <1>3, OnlyOn DEF OffsetBegin, OffsetAlone, OffsetAdvance
  <2> QED  BY <2>1, TablesStay DEF Away
<1>4. CASE DuplicateLock \/ LinkBegin \/ LinkRecord
  <2>1. UNCHANGED <<pool, chains, todo>> /\ ~On("destroy")
    BY <1>4, OnlyOn DEF DuplicateLock, LinkBegin, LinkRecord
  <2>2. ~On("destroy")'
    BY <2>1 DEF On
  <2> QED  BY <2>1, <2>2, TablesStay DEF Away
<1>5. ASSUME NEW c \in Commands, Begin(c) PROVE \A k \in Tables : SameTable(k)
  <2>1. UNCHANGED <<pool, chains, at>> /\ todo = <<>>
    BY <1>5 DEF Begin
  <2>2. \A op : ~On(op)
    BY <2>1 DEF On
  <2>3. at # "walk"
    BY <2>2, IInvParts DEF Places
  <2> QED  BY <2>1, <2>3, TablesStay DEF Away
<1> QED  BY <1>1, <1>2, <1>3, <1>4, <1>5 DEF Rests

LEMMA DestroyLockTables == ASSUME IInv, DestroyLock PROVE \A k \in Tables : SameTable(k)
<1>1. /\ On("destroy") /\ at = "start" /\ cursor' = head[Table] /\ at' = "walk"
      /\ UNCHANGED <<pool, chains, todo>>
  BY DEF DestroyLock
<1>2. On("destroy")' /\ Table' = Table
  BY <1>1 DEF On, Table
<1>3. \A k \in Tables : First(k)' = First(k)
  BY <1>1, <1>2 DEF First, chains
<1> QED  BY <1>1, <1>3, TableStays

\* What has been kept for an iteration goes: it is in no table.
LEMMA KeptTables ==
    ASSUME IInv, OffsetFree \/ OffsetEnd \/ DestroyEnd
    PROVE  /\ \A k \in Tables : SameTable(k)
           /\ DestroyEnd => \E T \in Tables : T = Table /\ Owned(T)' = {}
<1>1. CASE OffsetFree \/ OffsetEnd
  <2>1. /\ On("offset") /\ at' # "walk" /\ Release(lagging) /\ lagging' = {}
        /\ UNCHANGED <<apc, arec, head>>
    BY <1>1 DEF OffsetFree, OffsetEnd, threads
  <2>2. ~On("destroy") /\ ~DestroyEnd
    BY <2>1, OnlyOn DEF DestroyEnd
  <2>3. \A k \in Tables : First(k)' = First(k)
    BY <2>1, <2>2, AwayFirst DEF Away
  <2>4. \A k \in Tables : Owned(k)' = Owned(k) /\ KeptOn(Owned(k))
    BY <2>1, <2>3, ReleaseRecords
  <2> QED  BY <2>2, <2>4 DEF SameTable, SameBlocks, KeptOn, Block
<1>2. CASE DestroyEnd
  <2>1. /\ On("destroy") /\ at = "walk" /\ cursor = NULL /\ Release(lagging) /\ lagging' = {}
        /\ head' = [head EXCEPT ![Table] = NULL] /\ at' = "start" /\ UNCHANGED <<apc, arec>>
    BY <1>2 DEF DestroyEnd, NextOp, threads
  <2>2. Table \in Tables
    BY <2>1, OnDestroy, IInvParts, TableNames
  <2>3. PICK T \in Tables : T = Table
    BY <2>2
  <2>4. First(T) = NULL /\ \A k \in Tables : First(k)' = First(k)
    BY <2>1, <2>3, IInvParts DEF First, Types
  <2>5. \A k \in Tables : Owned(k)' = Owned(k) /\ KeptOn(Owned(k))
    BY <2>1, <2>4, ReleaseRecords
  <2>6. Owned(T)' = {}
    BY <2>4, <2>5, EmptyTable, IInvParts
  <2> QED  BY <2>3, <2>5, <2>6 DEF SameTable, SameBlocks, KeptOn, Block
<1> QED  BY <1>1, <1>2

\* The steps of the worker that leave every table as it is.
Calm == Rests \/ DestroyLock \/ OffsetFree \/ OffsetEnd \/ DestroyEnd

LEMMA CalmTables == ASSUME IInv, Calm PROVE \A k \in Tables : SameTable(k)
  BY RestsTables, DestroyLockTables, KeptTables DEF Calm

LEMMA AppAside ==
    ASSUME IInv, NEW t \in Threads, App(t)
    PROVE  /\ Aside
           /\ \A k \in Tables : k # "alloc" \/ ptr_mtx => SameTable(k)
           /\ On("duplicate") /\ at = "walk" => Ahead' = Ahead /\ SameBlocks(Ahead)
           /\ UNCHANGED <<num_remainings, maps_uses, oom, ghosts>>
<1>1. Aside
  BY AppAllocateKeeps, AppAddKeeps, AppRemoveKeeps, AppFreeKeeps DEF App
<1>2. \A k \in Tables : k # "alloc" \/ ptr_mtx => SameTable(k)
  BY <1>1 DEF Aside, SameTable, SameBlocks, Block, KeptOn
<1>3. UNCHANGED <<num_remainings, maps_uses, oom, ghosts>>
  BY DEF App, AppAllocate, AppAdd, AppRemove, AppFree, walk
<1>4. Records' /\ Distinct("alloc")'
  BY AppKeeps DEF IInv, Shape, Unique
<1>5. On("duplicate") /\ at = "walk" => Ahead' = Ahead /\ SameBlocks(Ahead)
  BY <1>1, <1>4, AsideKeeps
<1> QED  BY <1>1, <1>2, <1>3, <1>5

LEMMA Cases ==
    ASSUME IInv, [CleanStartNext]_vars
    PROVE  \/ \E t \in Threads : App(t)
           \/ Calm \/ DuplicateRecord \/ DestroyRecord \/ OffsetPair
           \/ UNCHANGED vars
  BY DEF CleanStartNext, Next, Worker, Calm, Rests

LEMMA StutterTables == ASSUME UNCHANGED vars PROVE \A k \in Tables : SameTable(k)
<1>1. \A k \in Tables : Owned(k)' = Owned(k)
  BY DEF vars, chains, walk, Owned, On, Table, Members
<1>2. \A k \in Tables : SameBlocks(Owned(k))
  BY DEF vars, pool, SameBlocks, Block
<1> QED  BY <1>1, <1>2 DEF SameTable

-----------------------------------------------------------------------------
(* The counts of the comparison *)

Pairing == {"free", "pair", "advance"}

Counted ==
    /\ num_remainings \in [Copies -> Nat]
    /\ at \in Pairing => \A k \in Copies : num_remainings[k] = Cardinality(Owned(k))

LEMMA OwnedFinite ==
    ASSUME IInv, NEW k \in Tables
    PROVE  IsFiniteSet(Owned(k)) /\ Cardinality(Owned(k)) \in Nat
<1>1. Owned(k) \subseteq Recs /\ IsFiniteSet(Recs)
  BY RecsNotNull, IInvParts DEF Chains
<1>2. IsFiniteSet(Owned(k))
  BY <1>1, FS_Subset
<1> QED  BY <1>2, FS_CardinalityType

\* Steps that leave the counts and either stay in the pairing or are outside it.
LEMMA CountsStay ==
    ASSUME Counted, num_remainings' = num_remainings, \A k \in Copies : Owned(k)' = Owned(k),
           at' \in Pairing => at \in Pairing
    PROVE  Counted'
<1>1. num_remainings' \in [Copies -> Nat]
  BY DEF Counted
<1>2. at' \in Pairing => \A k \in Copies : num_remainings'[k] = Cardinality(Owned(k)')
  BY DEF Counted
<1> QED  BY <1>1, <1>2 DEF Counted, Pairing

LEMMA CountsOff ==
    ASSUME num_remainings' \in [Copies -> Nat], at' \notin Pairing
    PROVE  Counted'
  BY DEF Counted, Pairing

LEMMA CalmCounts == ASSUME IInv, Counted, Calm PROVE Counted'
<1>1. \A k \in Copies : k \in Tables /\ Owned(k)' = Owned(k)
  BY CalmTables, TableNames DEF SameTable
<1>2. NoRemainings \in [Copies -> Nat] /\ num_remainings \in [Copies -> Nat]
  BY DEF NoRemainings, Counted
<1>3. CASE Reset \/ ListCallstacksFails \/ OffsetEnd
  <2>1. at' = "start" /\ (num_remainings' = NoRemainings \/ num_remainings' = num_remainings)
    BY <1>3 DEF Reset, ListCallstacksFails, OffsetEnd, NextOp
  <2> QED  BY <1>2, <2>1, CountsOff DEF Pairing
<1>4. CASE OffsetBegin
  <2>1. num_remainings' = [k \in Copies |-> Cardinality(Members(k))] /\ ~On("destroy")
    BY <1>4, OnlyOn DEF OffsetBegin
  <2>2. \A k \in Copies : Members(k) = Owned(k) /\ Cardinality(Owned(k)) \in Nat
    BY <1>1, <2>1, FirstIsHead, OwnedFinite
  <2>3. num_remainings' \in [Copies -> Nat] /\ \A k \in Copies : num_remainings'[k] = Cardinality(Owned(k)')
    BY <1>1, <2>1, <2>2
  <2> QED  BY <2>3 DEF Counted
<1>5. CASE OffsetFree \/ OffsetAlone \/ OffsetAdvance
  <2>1. num_remainings' = num_remainings /\ at \in Pairing
    BY <1>5 DEF OffsetFree, OffsetAlone, OffsetAdvance, Pairing, walk
  <2> QED  BY <1>1, <2>1, CountsStay
<1>6. CASE \/ ListBlocks \/ ListCallstacks \/ InitMaps \/ TermMaps \/ DuplicateFails \/ DuplicateEnd \/ LinkEnd
           \/ DuplicateLock \/ LinkBegin \/ DestroyLock \/ DestroyEnd
  <2>1. num_remainings' = num_remainings /\ at' \in {"start", "walk"}
    BY <1>6 DEF ListBlocks, ListCallstacks, InitMaps, TermMaps, DuplicateFails, DuplicateEnd, LinkEnd,
                DuplicateLock, LinkBegin, DestroyLock, DestroyEnd, NextOp, walk
  <2> QED  BY <1>2, <2>1, CountsOff DEF Pairing
<1>7. CASE LinkRecord
  <2>1. num_remainings' = num_remainings /\ at' = "walk"
    BY <1>7 DEF LinkRecord
  <2> QED  BY <1>2, <2>1, CountsOff DEF Pairing
<1>8. ASSUME NEW c \in Commands, Begin(c) PROVE Counted'
  <2>1. num_remainings' = num_remainings /\ at' = at
    BY <1>8 DEF Begin, walk
  <2> QED  BY <1>1, <2>1, CountsStay
<1> QED  BY <1>3, <1>4, <1>5, <1>6, <1>7, <1>8 DEF Calm, Rests

LEMMA PairCounts == ASSUME IInv, Counted, OffsetPair PROVE Counted'
<1>1. /\ at \in Pairing /\ num_remainings' = [k \in Copies |-> num_remainings[k] - 1]
      /\ Paired(Match(cursor))
  BY OffsetPairKeeps DEF OffsetPair, Pairing
<1>2. PICK m : m = Match(cursor)
  OBVIOUS
<1>3. /\ cursor \in Owned("copy") /\ m \in Owned("snapshot_copy")
      /\ Owned("copy")' = Owned("copy") \ {cursor} /\ Owned("snapshot_copy")' = Owned("snapshot_copy") \ {m}
  BY <1>1, <1>2 DEF Paired
<1>4. ASSUME NEW k \in Copies
      PROVE  num_remainings[k] - 1 = Cardinality(Owned(k)') /\ num_remainings[k] - 1 \in Nat
  <2>1. PICK x \in Owned(k) : Owned(k)' = Owned(k) \ {x}
    BY <1>3, CopiesAre
  <2>2. k \in Tables /\ IsFiniteSet(Owned(k)) /\ Cardinality(Owned(k)) \in Nat
    BY OwnedFinite, TableNames
  <2>3. /\ IsFiniteSet(Owned(k) \ {x}) /\ Cardinality(Owned(k) \ {x}) = Cardinality(Owned(k)) - 1
        /\ Cardinality(Owned(k) \ {x}) \in Nat
    BY <2>1, <2>2, FS_RemoveElement, FS_CardinalityType
  <2> QED  BY <1>1, <2>1, <2>3 DEF Counted
<1>5. num_remainings' \in [Copies -> Nat] /\ \A k \in Copies : num_remainings'[k] = Cardinality(Owned(k)')
  BY <1>1, <1>4
<1> QED  BY <1>5 DEF Counted

LEMMA CountedNext == IInv /\ Counted /\ [CleanStartNext]_vars => Counted'
<1> SUFFICES ASSUME IInv, Counted, [CleanStartNext]_vars PROVE Counted'
  OBVIOUS
<1>1. \A k \in Copies : k \in Tables /\ k # "alloc"
  BY TableNames
<1>2. ASSUME NEW t \in Threads, App(t) PROVE Counted'
  <2>1. at' = at /\ num_remainings' = num_remainings /\ \A k \in Copies : Owned(k)' = Owned(k)
    BY <1>1, <1>2, AppAside DEF Aside, SameTable
  <2> QED  BY <2>1, CountsStay
<1>3. CASE DuplicateRecord \/ DestroyRecord
  <2>1. at = "walk" /\ at' = "walk" /\ num_remainings' = num_remainings
    BY <1>3 DEF DuplicateRecord, DestroyRecord
  <2> QED  BY <2>1, CountsOff DEF Counted, Pairing
<1>4. CASE UNCHANGED vars
  <2>1. at' = at /\ num_remainings' = num_remainings /\ \A k \in Copies : Owned(k)' = Owned(k)
    BY <1>1, <1>4, StutterTables DEF SameTable, vars, walk
  <2> QED  BY <2>1, CountsStay
<1> QED  BY <1>2, <1>3, <1>4, CalmCounts, PairCounts, Cases

LEMMA CountedInit == Init => Counted
  BY DEF Init, Counted, NoRemainings, Pairing

LEMMA CountedHolds == CleanStartSpec => []Counted
<1> QED  BY InvariantHolds, CountedInit, CountedNext, PTL DEF CleanStartSpec

-----------------------------------------------------------------------------
(* What a command that met no failure leaves behind *)

LEMMA OpEnds ==
    ASSUME IInv, NEW op, On(op), todo' = Tail(todo)
    PROVE  Left' = Left \ {Do(op, Table)} /\ Do(op, Table) \in Left
<1>1. todo # <<>> /\ Head(todo) = Do(op, Table) /\ Do(op, Table) \in Left
  BY OnIs, IInvParts
<1> QED  BY <1>1, NextOpIs, IInvParts

LEMMA NothingToDo ==
    ASSUME IInv, todo = <<>>
    PROVE  Left = {} /\ at = "start" /\ \A op : ~On(op)
<1>1. \A op : ~On(op)
  BY DEF On
<1>2. at \in {"start", "walk", "free", "pair", "advance"}
  BY IInvParts DEF Types
<1> QED  BY <1>1, <1>2, RangeEmpty, IInvParts DEF Places, Left

\* How a step changes what is left to do.
Goes(op) == On(op) /\ todo' = Tail(todo)
Fails == oom' = oom + 1 /\ (todo' = <<>> \/ todo' = Cleanup)
Leaves == OffsetEnd /\ On("offset") /\ todo' = Cleanup /\ oom' = oom
Plain == {"duplicate", "destroy", "link", "offset", "print", "print_callstacks", "reset"}

LEMMA Progress ==
    ASSUME IInv, [CleanStartNext]_vars
    PROVE  \/ UNCHANGED <<todo, maps_uses, oom>>
           \/ (\E op \in Plain : Goes(op)) /\ UNCHANGED <<maps_uses, oom>>
           \/ InitMaps \/ TermMaps
           \/ (Fails \/ Leaves) /\ maps_uses' = maps_uses
           \/ \E c \in Commands : Begin(c)
<1>1. ASSUME NEW t \in Threads, App(t) PROVE UNCHANGED <<todo, maps_uses, oom>>
  BY <1>1, AppAside DEF Aside
<1>2. ASSUME DuplicateEnd \/ DestroyEnd \/ LinkEnd \/ ListBlocks \/ ListCallstacks \/ Reset
      PROVE  (\E op \in Plain : Goes(op)) /\ UNCHANGED <<maps_uses, oom>>
  BY <1>2 DEF DuplicateEnd, DestroyEnd, LinkEnd, ListBlocks, ListCallstacks, Reset, NextOp, Goes, Plain
<1>3. ASSUME DuplicateFails \/ ListCallstacksFails PROVE Fails /\ maps_uses' = maps_uses
  BY <1>3 DEF DuplicateFails, ListCallstacksFails, Fails
<1>4. ASSUME OffsetEnd
      PROVE  \/ (\E op \in Plain : Goes(op)) /\ UNCHANGED <<maps_uses, oom>>
             \/ Leaves /\ maps_uses' = maps_uses
  <2>1. On("offset") /\ UNCHANGED <<maps_uses, oom>> /\ (todo' = Cleanup \/ todo' = Tail(todo))
    BY <1>4 DEF OffsetEnd
  <2> QED  BY <1>4, <2>1 DEF Leaves, Goes, Plain
<1>5. ASSUME \/ DuplicateLock \/ DuplicateRecord \/ DestroyLock \/ DestroyRecord \/ LinkBegin \/ LinkRecord
             \/ OffsetBegin \/ OffsetFree \/ OffsetPair \/ OffsetAlone \/ OffsetAdvance
      PROVE  UNCHANGED <<todo, maps_uses, oom>>
  BY <1>5 DEF DuplicateLock, DuplicateRecord, DestroyLock, DestroyRecord, LinkBegin, LinkRecord,
              OffsetBegin, OffsetFree, OffsetPair, OffsetAlone, OffsetAdvance
<1>6. UNCHANGED vars => UNCHANGED <<todo, maps_uses, oom>>
  BY DEF vars
<1> QED  BY <1>1, <1>2, <1>3, <1>4, <1>5, <1>6, Cases DEF Calm, Rests

\* The file maps are held from init_maps to term_maps.
MapsOpen == Do("term_maps", "copy") \in Left /\ Do("init_maps", "copy") \notin Left

MapsKept ==
    /\ maps_uses \in Nat
    /\ MapsOpen => maps_uses >= 1
    /\ oom = 0 => maps_uses = IF MapsOpen THEN 1 ELSE 0

LEMMA InitMapsOpens == ASSUME IInv, InitMaps PROVE ~MapsOpen /\ MapsOpen'
<1>1. On("init_maps") /\ todo' = Tail(todo)
  BY DEF InitMaps, NextOp
<1>2. Table = "copy" /\ Do("init_maps", "copy") \in Left
  BY <1>1, OnIs, DoKnown, IInvParts
<1>3. Do("term_maps", "copy") \in Left
  BY <1>2, IInvParts DEF Plan, Complete, Left
<1>4. Left' = Left \ {Do("init_maps", "copy")}
  BY <1>1, <1>2, OpEnds
<1> QED  BY <1>2, <1>3, <1>4, DoIs DEF MapsOpen

LEMMA TermMapsCloses == ASSUME IInv, TermMaps PROVE MapsOpen /\ ~MapsOpen'
<1>1. On("term_maps") /\ todo' = Tail(todo)
  BY DEF TermMaps, NextOp
<1>2. Table = "copy" /\ Do("term_maps", "copy") \in Left
  BY <1>1, OnIs, DoKnown, IInvParts
<1>3. Do("init_maps", "copy") \notin Left
  <2>1. \A x \in Left : x = Do("term_maps", "copy") \/ 14 < Rank(x)
    BY <1>1, <1>2, OnIs, Ranks, IInvParts
  <2> QED  BY <2>1, Ranks, DoIs
<1>4. Left' = Left \ {Do("term_maps", "copy")}
  BY <1>1, <1>2, OpEnds
<1> QED  BY <1>2, <1>3, <1>4 DEF MapsOpen

LEMMA BeginMaps == ASSUME IInv, NEW c \in Commands, Begin(c) PROVE ~MapsOpen /\ ~MapsOpen'
<1>1. todo = <<>> /\ todo' = Script[c]
  BY DEF Begin
<1>2. Left' = ScriptSteps[c]
  BY <1>1, EveryPlan DEF Left
<1>3. Do("term_maps", "copy") \in ScriptSteps[c] => Do("init_maps", "copy") \in ScriptSteps[c]
  <2>1. Commands = {"list", "list_per_callstack", "create", "destroy", "compare", "compare_per_callstack"}
    BY DEF Commands, Script
  <2>2. CASE c \in {"list", "list_per_callstack", "compare", "compare_per_callstack"}
    BY <2>2 DEF ScriptSteps, CompareSteps
  <2>3. CASE c \in {"create", "destroy"}
    BY <2>3, DoIs DEF ScriptSteps
  <2> QED  BY <2>1, <2>2, <2>3
<1> QED  BY <1>1, <1>2, <1>3, NothingToDo DEF MapsOpen

LEMMA MapsKeptNext == IInv /\ MapsKept /\ [CleanStartNext]_vars => MapsKept'
<1> SUFFICES ASSUME IInv, MapsKept, [CleanStartNext]_vars PROVE MapsKept'
  OBVIOUS
<1>0. maps_uses \in Nat /\ oom \in Nat
  <2>1. oom \in 0..MaxOom /\ MaxOom \in Nat
    BY SnapshotAssumption, IInvParts DEF Types
  <2> QED  BY <2>1 DEF MapsKept
<1>1. ASSUME MapsOpen' <=> MapsOpen, UNCHANGED <<maps_uses, oom>> PROVE MapsKept'
  BY <1>1 DEF MapsKept
<1>2. CASE UNCHANGED <<todo, maps_uses, oom>>
  <2>1. MapsOpen' <=> MapsOpen
    BY <1>2 DEF MapsOpen, Left
  <2> QED  BY <1>1, <1>2, <2>1
<1>3. ASSUME NEW op \in Plain, Goes(op), UNCHANGED <<maps_uses, oom>> PROVE MapsKept'
  <2>1. Left' = Left \ {Do(op, Table)}
    BY <1>3, OpEnds DEF Goes
  <2>2. op # "term_maps" /\ op # "init_maps"
    BY DEF Plain
  <2>3. MapsOpen' <=> MapsOpen
    BY <2>1, <2>2, DoIs DEF MapsOpen
  <2> QED  BY <1>1, <1>3, <2>3
<1>4. CASE InitMaps
  <2>1. maps_uses' = maps_uses + 1 /\ oom' = oom /\ ~MapsOpen /\ MapsOpen'
    BY <1>4, InitMapsOpens DEF InitMaps
  <2> QED  BY <1>0, <2>1 DEF MapsKept
<1>5. CASE TermMaps
  <2>1. maps_uses' = maps_uses - 1 /\ oom' = oom /\ MapsOpen /\ ~MapsOpen'
    BY <1>5, TermMapsCloses DEF TermMaps
  <2> QED  BY <1>0, <2>1 DEF MapsKept
<1>6. CASE Fails /\ maps_uses' = maps_uses
  <2>1. oom' # 0
    BY <1>0, <1>6 DEF Fails
  <2>2. ~MapsOpen'
    <3>1. CASE todo' = <<>>
      BY <3>1, NoSteps DEF MapsOpen
    <3>2. CASE todo' = Cleanup
      BY <3>2, CleanupIs, DoIs DEF MapsOpen
    <3> QED  BY <1>6, <3>1, <3>2 DEF Fails
  <2> QED  BY <1>0, <1>6, <2>1, <2>2 DEF MapsKept
<1>7. CASE Leaves /\ maps_uses' = maps_uses
  <2>1. Do("init_maps", "copy") \in Left
    BY <1>7, OnOffset, IInvParts DEF Leaves
  <2>2. Do("term_maps", "copy") \notin Left'
    BY <1>7, CleanupIs, DoIs DEF Leaves
  <2>3. ~MapsOpen /\ ~MapsOpen'
    BY <2>1, <2>2 DEF MapsOpen
  <2>4. UNCHANGED <<maps_uses, oom>>
    BY <1>7 DEF Leaves
  <2> QED  BY <1>1, <2>3, <2>4
<1>8. ASSUME NEW c \in Commands, Begin(c) PROVE MapsKept'
  <2>1. UNCHANGED <<maps_uses, oom>>
    BY <1>8 DEF Begin
  <2>2. ~MapsOpen /\ ~MapsOpen'
    BY <1>8, BeginMaps
  <2> QED  BY <1>1, <2>1, <2>2
<1> QED  BY <1>2, <1>3, <1>4, <1>5, <1>6, <1>7, <1>8, Progress

LEMMA MapsKeptInit == Init => MapsKept
<1> SUFFICES ASSUME Init PROVE MapsKept
  OBVIOUS
<1>1. maps_uses = 0 /\ Left = {}
  BY RangeEmpty DEF Init, Left
<1> QED  BY <1>1 DEF MapsKept, MapsOpen

LEMMA MapsKeptHolds == CleanStartSpec => []MapsKept
<1> QED  BY InvariantHolds, MapsKeptInit, MapsKeptNext, PTL DEF CleanStartSpec

\* Once a copy has been given back it is empty, and so is a list once it is reset.
Empty(k) == Owned(k) = {}
NoLists(k) == \A c \in Callstacks : group[c][LINK[k]] = NULL

Ended ==
    oom = 0 => \A k \in Copies :
        /\ Do("destroy", k) \notin Left => Empty(k)
        /\ Do("reset", k) \notin Left => NoLists(k)

LEMMA FailsEnded == ASSUME IInv, Fails PROVE Ended'
<1>1. oom \in 0..MaxOom /\ MaxOom \in Nat
  BY SnapshotAssumption, IInvParts DEF Types
<1>2. oom' # 0
  BY <1>1 DEF Fails
<1> QED  BY <1>2 DEF Ended

\* A step that leaves the copies and the lists, and ends no destroy and no reset.
LEMMA EndedStays ==
    ASSUME Ended, oom' = oom, group' = group, \A k \in Copies : Owned(k)' = Owned(k),
           \A k \in Copies : /\ Do("destroy", k) \in Left => Do("destroy", k) \in Left'
                             /\ Do("reset", k) \in Left => Do("reset", k) \in Left'
    PROVE  Ended'
<1> SUFFICES ASSUME oom' = 0, NEW k \in Copies
             PROVE  /\ Do("destroy", k) \notin Left' => Empty(k)'
                    /\ Do("reset", k) \notin Left' => NoLists(k)'
  BY DEF Ended
<1>1. Do("destroy", k) \notin Left' => Empty(k)
  BY DEF Ended
<1>2. Do("reset", k) \notin Left' => NoLists(k)
  BY DEF Ended
<1> QED  BY <1>1, <1>2 DEF Empty, NoLists

\* The operations that neither give a copy back nor reset its lists.
Others == {"duplicate", "link", "offset", "print", "print_callstacks", "init_maps", "term_maps"}

LEMMA EndedGoes ==
    ASSUME IInv, Ended, NEW op \in Others, Goes(op), oom' = oom, group' = group,
           \A k \in Copies : Owned(k)' = Owned(k)
    PROVE  Ended'
<1>1. Left' = Left \ {Do(op, Table)} /\ op # "destroy" /\ op # "reset"
  BY OpEnds DEF Goes, Others
<1>2. \A k \in Copies : /\ Do("destroy", k) \in Left => Do("destroy", k) \in Left'
                        /\ Do("reset", k) \in Left => Do("reset", k) \in Left'
  BY <1>1, DoIs
<1> QED  BY <1>2, EndedStays

LEMMA SameLeft ==
    ASSUME todo' = todo
    PROVE  Left' = Left /\ Table' = Table /\ \A op : On(op)' = On(op)
  BY DEF Left, Table, On

LEMMA DestroyEndEnded == ASSUME IInv, Ended, DestroyEnd PROVE Ended'
<1>1. On("destroy") /\ todo' = Tail(todo) /\ oom' = oom /\ group' = group
  BY DEF DestroyEnd, NextOp
<1>2. /\ \A k \in Tables : Owned(k)' = Owned(k)
      /\ \E T \in Tables : T = Table /\ Owned(T)' = {}
  BY KeptTables DEF SameTable
<1>3. PICK T \in Tables : T = Table /\ Owned(T)' = {}
  BY <1>2
<1>4. Left' = Left \ {Do("destroy", T)}
  BY <1>1, <1>3, OpEnds
<1> SUFFICES ASSUME oom' = 0, NEW k \in Copies
             PROVE  /\ Do("destroy", k) \notin Left' => Empty(k)'
                    /\ Do("reset", k) \notin Left' => NoLists(k)'
  BY DEF Ended
<1>5. ASSUME Do("destroy", k) \notin Left' PROVE Owned(k)' = {}
  <2>1. CASE k = T
    BY <1>3, <2>1
  <2>2. CASE k # T
    <3>1. Do("destroy", k) \notin Left
      BY <1>4, <1>5, <2>2, DoIs
    <3> QED  BY <1>1, <1>2, <3>1, TableNames DEF Ended, Empty
  <2> QED  BY <2>1, <2>2
<1>6. ASSUME Do("reset", k) \notin Left' PROVE NoLists(k)'
  <2>1. Do("reset", k) \notin Left
    BY <1>4, <1>6, DoIs
  <2>2. NoLists(k)
    BY <1>1, <2>1 DEF Ended
  <2> QED  BY <1>1, <2>2 DEF NoLists
<1> QED  BY <1>5, <1>6 DEF Empty

LEMMA ResetEnded == ASSUME IInv, Ended, Reset PROVE Ended'
<1>1. On("reset") /\ todo' = Tail(todo) /\ oom' = oom
  BY DEF Reset, NextOp
<1>2. \A k \in Tables : Owned(k)' = Owned(k)
  BY RestsTables DEF SameTable, Rests
<1>3. Table \in Copies
  BY <1>1, OnIs, DoKnown, IInvParts
<1>4. PICK T \in Copies : T = Table
  BY <1>3
<1>5. Left' = Left \ {Do("reset", T)}
  BY <1>1, <1>4, OpEnds
<1>6. ASSUME NEW c \in Callstacks, NEW k \in Copies
      PROVE  group'[c][LINK[k]] = IF k = T THEN NULL ELSE group[c][LINK[k]]
  <2>1. group'[c] = [group[c] EXCEPT ![LINK[T]] = NULL]
    BY <1>4 DEF Reset
  <2>2. group[c] \in [Links -> Recs \cup {NULL}]
    BY IInvParts DEF Types
  <2>3. LINK[k] \in Links /\ LINK[T] \in Links /\ (k # T => LINK[k] # LINK[T])
    BY TableNames
  <2> QED  BY <2>1, <2>2, <2>3
<1> SUFFICES ASSUME oom' = 0, NEW k \in Copies
             PROVE  /\ Do("destroy", k) \notin Left' => Empty(k)'
                    /\ Do("reset", k) \notin Left' => NoLists(k)'
  BY DEF Ended
<1>7. ASSUME Do("destroy", k) \notin Left' PROVE Owned(k)' = {}
  <2>1. Do("destroy", k) \notin Left /\ k \in Tables
    BY <1>5, <1>7, DoIs, TableNames
  <2> QED  BY <1>1, <1>2, <2>1 DEF Ended, Empty
<1>8. ASSUME Do("reset", k) \notin Left', NEW c \in Callstacks PROVE group'[c][LINK[k]] = NULL
  <2>1. k # T => Do("reset", k) \notin Left
    BY <1>5, <1>8, DoIs
  <2>2. k # T => group[c][LINK[k]] = NULL
    BY <1>1, <2>1 DEF Ended, NoLists
  <2> QED  BY <1>6, <2>2
<1> QED  BY <1>7, <1>8 DEF Empty, NoLists

\* A comparison that has paired all blocks leaves the links at once: there are
\* none.
LEMMA LeavesEnded ==
    ASSUME IInv, Counted, Ended, Leaves,
           PerCallstack /\ num_remainings["copy"] + num_remainings["snapshot_copy"] = 0
    PROVE  Ended'
<1>1. On("offset") /\ at \in Pairing /\ todo' = Cleanup /\ group' = group
  BY DEF Leaves, OffsetEnd, Pairing
<1>2. ASSUME NEW k \in Copies, NEW c \in Callstacks PROVE group[c][LINK[k]] = NULL
  <2>1. "copy" \in Copies /\ "snapshot_copy" \in Copies /\ Copies = {"copy", "snapshot_copy"} /\ k \in Tables
    BY TableNames
  <2>2. num_remainings["copy"] \in Nat /\ num_remainings["snapshot_copy"] \in Nat
    BY <2>1 DEF Counted
  <2>3. num_remainings["copy"] = 0 /\ num_remainings["snapshot_copy"] = 0
    BY <2>2
  <2>4. Cardinality(Owned(k)) = 0
    BY <1>1, <2>1, <2>3 DEF Counted
  <2>5. Owned(k) = {}
    BY <2>1, <2>4, OwnedFinite, FS_EmptySet
  <2>6. Do("reset", k) \in Left /\ Listed(k) = {}
    BY <1>1, <2>5, OffsetFinds
  <2>7. Doubly(group[c][LINK[k]], same_callstack_group_next, same_callstack_group_prev,
               {r \in Listed(k) : allocator[r] = c})
    BY <2>6, IInvParts DEF Lists
  <2>8. IsChain(group[c][LINK[k]], same_callstack_group_next, {}, NULL)
    BY <2>6, <2>7 DEF Doubly
  <2> QED  BY <2>8, ChainLinks
<1>3. \A k \in Copies : Do("destroy", k) \in Left'
  BY <1>1, CleanupIs, TableNames
<1>4. \A k \in Copies : NoLists(k)'
  BY <1>1, <1>2 DEF NoLists
<1> QED  BY <1>3, <1>4 DEF Ended

LEMMA LinkRecordEnded == ASSUME IInv, Ended, LinkRecord PROVE Ended'
<1>1. On("link") /\ todo' = todo /\ oom' = oom
  BY DEF LinkRecord
<1>2. \A k \in Tables : Owned(k)' = Owned(k)
  BY RestsTables DEF SameTable, Rests
<1>3. Table \in Copies /\ Do("link", Table) \in Left
  BY <1>1, OnIs, OnLink, IInvParts
<1>4. PICK T \in Copies : T = Table /\ Do("reset", T) \in Left
  BY <1>3, IInvParts DEF Plan, Complete, Left
<1>5. Left' = Left
  BY <1>1, SameLeft
<1>6. PICK c0 : group' = [group EXCEPT ![c0][LINK[T]] = cursor]
  BY <1>4 DEF LinkRecord
<1>7. ASSUME NEW c \in Callstacks, NEW k \in Copies, k # T
      PROVE  group'[c][LINK[k]] = group[c][LINK[k]]
  <2>1. group \in [Callstacks -> [Links -> Recs \cup {NULL}]]
    BY IInvParts DEF Types
  <2>2. LINK[k] \in Links /\ LINK[T] \in Links /\ LINK[k] # LINK[T]
    BY <1>7, TableNames
  <2> QED  BY <1>6, <2>1, <2>2
<1> SUFFICES ASSUME oom' = 0, NEW k \in Copies
             PROVE  /\ Do("destroy", k) \notin Left' => Empty(k)'
                    /\ Do("reset", k) \notin Left' => NoLists(k)'
  BY DEF Ended
<1>8. ASSUME Do("destroy", k) \notin Left' PROVE Owned(k)' = {}
  BY <1>1, <1>2, <1>5, <1>8, TableNames DEF Ended, Empty
<1>9. ASSUME Do("reset", k) \notin Left', NEW c \in Callstacks PROVE group'[c][LINK[k]] = NULL
  <2>1. k # T /\ group[c][LINK[k]] = NULL
    BY <1>1, <1>4, <1>5, <1>9 DEF Ended, NoLists
  <2> QED  BY <1>7, <2>1
<1> QED  BY <1>8, <1>9 DEF Empty, NoLists

LEMMA DuplicateRecordEnded == ASSUME IInv, Ended, DuplicateRecord PROVE Ended'
<1>1. On("duplicate") /\ todo' = todo /\ oom' = oom /\ group' = group
  BY DEF DuplicateRecord
<1>2. PICK T \in Tables, r \in Recs : T = Table /\ GetsCopy(T, r)
  BY DuplicateRecordKeeps
<1>3. Left' = Left /\ Do("duplicate", T) \in Left
  BY <1>1, <1>2, SameLeft, OnIs, IInvParts
<1> SUFFICES ASSUME oom' = 0, NEW k \in Copies
             PROVE  /\ Do("destroy", k) \notin Left' => Empty(k)'
                    /\ Do("reset", k) \notin Left' => NoLists(k)'
  BY DEF Ended
<1>4. ASSUME Do("destroy", k) \notin Left' PROVE Owned(k)' = {}
  <2>1. k # T
    BY <1>3, <1>4, IInvParts DEF Plan, Complete, Left
  <2>2. Owned(k)' = Owned(k)
    BY <1>2, <2>1, TableNames DEF GetsCopy, SameTable
  <2> QED  BY <1>1, <1>3, <1>4, <2>2 DEF Ended, Empty
<1>5. ASSUME Do("reset", k) \notin Left' PROVE NoLists(k)'
  <2>1. NoLists(k)
    BY <1>1, <1>3, <1>5 DEF Ended
  <2> QED  BY <1>1, <2>1 DEF NoLists
<1> QED  BY <1>4, <1>5 DEF Empty

LEMMA DestroyRecordEnded == ASSUME IInv, Ended, DestroyRecord PROVE Ended'
<1>1. On("destroy") /\ todo' = todo /\ oom' = oom /\ group' = group
  BY DEF DestroyRecord
<1>2. PICK T \in Tables : T = Table /\ GivesBack(T)
  BY DestroyRecordKeeps
<1>3. Left' = Left
  BY <1>1, SameLeft
<1> SUFFICES ASSUME oom' = 0, NEW k \in Copies
             PROVE  /\ Do("destroy", k) \notin Left' => Empty(k)'
                    /\ Do("reset", k) \notin Left' => NoLists(k)'
  BY DEF Ended
<1>4. ASSUME Do("destroy", k) \notin Left' PROVE Owned(k)' = {}
  <2>1. Owned(k) = {} /\ Owned(k)' \subseteq Owned(k)
    BY <1>1, <1>2, <1>3, <1>4, TableNames DEF Ended, Empty, GivesBack, SameTable
  <2> QED  BY <2>1
<1>5. ASSUME Do("reset", k) \notin Left' PROVE NoLists(k)'
  <2>1. NoLists(k)
    BY <1>1, <1>3, <1>5 DEF Ended
  <2> QED  BY <1>1, <2>1 DEF NoLists
<1> QED  BY <1>4, <1>5 DEF Empty

LEMMA PairEnded == ASSUME IInv, Ended, OffsetPair PROVE Ended'
<1>1. On("offset") /\ todo' = todo /\ oom' = oom
  BY DEF OffsetPair
<1>2. PICK m : Paired(m)
  BY OffsetPairKeeps
<1>3. Left' = Left /\ \A k \in Copies : Do("reset", k) \in Left
  BY <1>1, SameLeft, OnOffset, IInvParts
<1> SUFFICES ASSUME oom' = 0, NEW k \in Copies, Do("destroy", k) \notin Left' PROVE Owned(k)' = {}
  BY <1>3 DEF Ended, Empty
<1>4. Owned(k) = {} /\ Owned(k)' \subseteq Owned(k)
  BY <1>1, <1>2, <1>3, CopiesAre DEF Ended, Empty, Paired
<1> QED  BY <1>4

LEMMA CalmEnded == ASSUME IInv, Counted, Ended, Calm PROVE Ended'
<1>1. \A k \in Copies : Owned(k)' = Owned(k)
  BY CalmTables, TableNames DEF SameTable
<1>2. CASE ListBlocks \/ ListCallstacks \/ InitMaps \/ TermMaps \/ DuplicateEnd \/ LinkEnd
  <2>1. PICK op \in Others : Goes(op)
    BY <1>2 DEF ListBlocks, ListCallstacks, InitMaps, TermMaps, DuplicateEnd, LinkEnd, NextOp, Goes, Others
  <2>2. oom' = oom /\ group' = group
    BY <1>2 DEF ListBlocks, ListCallstacks, InitMaps, TermMaps, DuplicateEnd, LinkEnd, groups
  <2> QED  BY <1>1, <2>1, <2>2, EndedGoes
<1>3. CASE ListCallstacksFails \/ DuplicateFails
  <2>1. Fails
    BY <1>3 DEF ListCallstacksFails, DuplicateFails, Fails
  <2> QED  BY <2>1, FailsEnded
<1>4. CASE OffsetEnd
  <2>1. On("offset") /\ oom' = oom /\ group' = group
    BY <1>4 DEF OffsetEnd
  <2>2. CASE PerCallstack /\ num_remainings["copy"] + num_remainings["snapshot_copy"] = 0
    <3>1. Leaves
      BY <1>4, <2>1, <2>2 DEF OffsetEnd, Leaves
    <3> QED  BY <2>2, <3>1, LeavesEnded
  <2>3. CASE ~(PerCallstack /\ num_remainings["copy"] + num_remainings["snapshot_copy"] = 0)
    <3>1. todo' = Tail(todo)
      BY <1>4, <2>3 DEF OffsetEnd
    <3> QED  BY <1>1, <2>1, <3>1, EndedGoes DEF Goes, Others
  <2> QED  BY <2>2, <2>3
<1>5. CASE DuplicateLock \/ DestroyLock \/ LinkBegin \/ OffsetBegin \/ OffsetFree \/ OffsetAlone \/ OffsetAdvance
  <2>1. todo' = todo /\ oom' = oom /\ group' = group
    BY <1>5 DEF DuplicateLock, DestroyLock, LinkBegin, OffsetBegin, OffsetFree, OffsetAlone,
                OffsetAdvance, groups
  <2> QED  BY <1>1, <2>1, SameLeft, EndedStays
<1>6. ASSUME NEW c \in Commands, Begin(c) PROVE Ended'
  <2>1. todo = <<>> /\ oom' = oom /\ group' = group
    BY <1>6 DEF Begin, groups
  <2>2. Left = {}
    BY <2>1, NothingToDo
  <2> QED  BY <1>1, <2>1, <2>2, EndedStays
<1> QED  BY <1>2, <1>3, <1>4, <1>5, <1>6, LinkRecordEnded, ResetEnded, DestroyEndEnded DEF Calm, Rests

LEMMA EndedNext == IInv /\ Counted /\ Ended /\ [CleanStartNext]_vars => Ended'
<1> SUFFICES ASSUME IInv, Counted, Ended, [CleanStartNext]_vars PROVE Ended'
  OBVIOUS
<1>1. \A k \in Copies : k \in Tables /\ k # "alloc"
  BY TableNames
<1>2. ASSUME NEW t \in Threads, App(t) PROVE Ended'
  <2>1. todo' = todo /\ group' = group /\ oom' = oom /\ \A k \in Copies : Owned(k)' = Owned(k)
    BY <1>1, <1>2, AppAside DEF Aside, SameTable
  <2> QED  BY <2>1, SameLeft, EndedStays
<1>3. CASE UNCHANGED vars
  <2>1. todo' = todo /\ group' = group /\ oom' = oom /\ \A k \in Copies : Owned(k)' = Owned(k)
    BY <1>1, <1>3, StutterTables DEF SameTable, vars, groups
  <2> QED  BY <2>1, SameLeft, EndedStays
<1> QED  BY <1>2, <1>3, CalmEnded, DuplicateRecordEnded, DestroyRecordEnded, PairEnded, Cases

LEMMA EndedInit == Init => Ended
<1> SUFFICES ASSUME Init PROVE Ended
  OBVIOUS
<1>1. IInv
  BY InitHolds
<1>2. ASSUME NEW k \in Copies PROVE Owned(k) = {} /\ NoLists(k)
  <2>1. k \in Tables /\ LINK[k] \in Links
    BY <1>2, TableNames
  <2>2. First(k) = NULL
    BY <2>1 DEF Init, First
  <2>3. NoLists(k)
    BY <2>1 DEF Init, NoLists
  <2> QED  BY <1>1, <2>1, <2>2, <2>3, EmptyTable, IInvParts
<1> QED  BY <1>2 DEF Ended, Empty

LEMMA EndedHolds == CleanStartSpec => []Ended
<1> QED  BY InvariantHolds, CountedHolds, EndedInit, EndedNext, PTL DEF CleanStartSpec

LEMMA InvariantLeft == IInv /\ MapsKept /\ Ended => NothingLeft
<1> SUFFICES ASSUME IInv, MapsKept, Ended, todo = <<>>, oom = 0
             PROVE  /\ \A k \in Copies : head[k] = NULL
                    /\ \A c \in Callstacks, l \in Links : group[c][l] = NULL
                    /\ maps_uses = 0 /\ ~ptr_mtx
  BY DEF NothingLeft
<1>1. Left = {} /\ at = "start" /\ \A op : ~On(op)
  BY NothingToDo
<1>2. ASSUME NEW k \in Copies PROVE head[k] = NULL
  <2>1. k \in Tables /\ First(k) = head[k] /\ Owned(k) = {}
    BY <1>1, <1>2, TableNames DEF First, Ended, Empty
  <2>2. IsChain(head[k], hash_next, {}, NULL)
    BY <2>1, IInvParts DEF Chains
  <2> QED  BY <2>2, ChainLinks
<1>3. ASSUME NEW c \in Callstacks, NEW l \in Links PROVE group[c][l] = NULL
  <2>1. PICK k \in Copies : LINK[k] = l
    BY TableNames
  <2> QED  BY <1>1, <2>1 DEF Ended, NoLists
<1>4. maps_uses = 0 /\ ~ptr_mtx
  <2>1. ~MapsOpen
    BY <1>1 DEF MapsOpen
  <2> QED  BY <1>1, <2>1, IInvParts DEF MapsKept, Places
<1> QED  BY <1>2, <1>3, <1>4

-----------------------------------------------------------------------------
(* What the copies hold *)

\* What copy k has to hold: the alloc table when it was locked; the snapshot.
Whence(k) == IF k = "snapshot_copy" THEN Blocks(Owned("snapshot")) ELSE moment[k]

Over(op, k) == On(op) /\ Table = k /\ at = "walk"
Three == {"copy", "snapshot", "snapshot_copy"}

\* A copy that began empty has what the walk has passed.
InCopy == \A k \in Three :
    Over("duplicate", k) /\ FreshCopy(k) => Blocks(Owned(k)) \cup Blocks(Ahead) = Whence(k)

\* The copies to be compared are complete until the pairing begins.
AsCopied ==
    Do("offset", "copy") \in Left /\ at \notin Pairing =>
        \A k \in Copies : Do("duplicate", k) \notin Left => Blocks(Owned(k)) = Whence(k)

\* The snapshot is complete, unless a command is at it or has failed.
Whole ==
    /\ whole => Blocks(Owned("snapshot")) = moment["snapshot"]
    /\ Over("duplicate", "snapshot") \/ Over("destroy", "snapshot") => ~whole

MomentType == moment \in [{"copy", "snapshot"} -> SUBSET BlockSet]

Moments == MomentType /\ InCopy /\ AsCopied /\ Whole

LEMMA ThreeTables == Three \subseteq Tables /\ Copies \subseteq Three /\ "snapshot" \in Three /\ "alloc" \notin Three
  BY TableNames DEF Three

LEMMA BlocksSame ==
    ASSUME NEW k \in Tables, SameTable(k)
    PROVE  Blocks(Owned(k))' = Blocks(Owned(k))
  BY DEF SameTable, SameBlocks, Blocks

LEMMA WhenceSame ==
    ASSUME SameTable("snapshot"), NEW k \in Three, k # "snapshot_copy" => moment'[k] = moment[k]
    PROVE  Whence(k)' = Whence(k)
<1>1. Blocks(Owned("snapshot"))' = Blocks(Owned("snapshot"))
  BY BlocksSame, TableNames
<1> QED  BY <1>1 DEF Whence

\* The walks over a copy or the snapshot that go on are where they were.
WalksStay ==
    /\ \A k \in Three : Over("duplicate", k)' =>
        Over("duplicate", k) /\ Left' = Left /\ Ahead' = Ahead /\ SameBlocks(Ahead)
    /\ Over("destroy", "snapshot")' => Over("destroy", "snapshot")

\* A comparison that has still to pair had still to.
PlansStay ==
    Do("offset", "copy") \in Left' /\ at' \notin Pairing =>
        \A k \in Copies : Do("duplicate", k) \notin Left' =>
            Do("offset", "copy") \in Left /\ at \notin Pairing /\ Do("duplicate", k) \notin Left

LEMMA InCopyStays ==
    ASSUME InCopy, WalksStay, \A k \in Three : SameTable(k), moment' = moment
    PROVE  InCopy'
<1> SUFFICES ASSUME NEW k \in Three, Over("duplicate", k)', FreshCopy(k)'
             PROVE  Blocks(Owned(k))' \cup Blocks(Ahead)' = Whence(k)'
  BY DEF InCopy
<1>1. Over("duplicate", k) /\ Left' = Left /\ Ahead' = Ahead /\ SameBlocks(Ahead)
  BY DEF WalksStay
<1>2. FreshCopy(k)
  BY <1>1 DEF FreshCopy
<1>3. Blocks(Ahead)' = Blocks(Ahead)
  BY <1>1 DEF SameBlocks, Blocks
<1>4. Blocks(Owned(k))' = Blocks(Owned(k)) /\ Whence(k)' = Whence(k)
  BY BlocksSame, WhenceSame, ThreeTables
<1> QED  BY <1>1, <1>2, <1>3, <1>4 DEF InCopy

LEMMA AsCopiedStays ==
    ASSUME AsCopied, PlansStay, \A k \in Three : SameTable(k),
           Do("offset", "copy") \in Left' => moment' = moment
    PROVE  AsCopied'
<1> SUFFICES ASSUME Do("offset", "copy") \in Left', at' \notin Pairing,
                    NEW k \in Copies, Do("duplicate", k) \notin Left'
             PROVE  Blocks(Owned(k))' = Whence(k)'
  BY DEF AsCopied, Pairing
<1>1. Blocks(Owned(k)) = Whence(k)
  BY DEF AsCopied, PlansStay
<1>2. Blocks(Owned(k))' = Blocks(Owned(k)) /\ Whence(k)' = Whence(k)
  BY BlocksSame, WhenceSame, ThreeTables
<1> QED  BY <1>1, <1>2

LEMMA WholeStays ==
    ASSUME Whole, WalksStay, SameTable("snapshot"), whole' = whole, moment'["snapshot"] = moment["snapshot"]
    PROVE  Whole'
<1>1. Blocks(Owned("snapshot"))' = Blocks(Owned("snapshot"))
  BY BlocksSame, TableNames
<1>2. Over("duplicate", "snapshot")' \/ Over("destroy", "snapshot")' => ~whole'
  BY ThreeTables DEF WalksStay, Whole
<1> QED  BY <1>1, <1>2 DEF Whole

LEMMA MomentsStay ==
    ASSUME Moments, WalksStay, PlansStay, \A k \in Three : SameTable(k), UNCHANGED ghosts
    PROVE  Moments'
<1>1. moment' = moment /\ whole' = whole
  BY DEF ghosts
<1>2. MomentType'
  BY <1>1 DEF Moments, MomentType, BlockSet
<1>3. SameTable("snapshot")
  BY ThreeTables
<1>4. InCopy'
  BY <1>1, InCopyStays DEF Moments
<1>5. AsCopied'
  BY <1>1, AsCopiedStays DEF Moments
<1>6. Whole'
  BY <1>1, <1>3, WholeStays DEF Moments
<1> QED  BY <1>2, <1>4, <1>5, <1>6 DEF Moments

LEMMA PairingOn == ASSUME IInv, at \in Pairing PROVE On("offset")
  BY IInvParts DEF Places, Pairing

\* Outside a copy, and outside the return of the snapshot.
LEMMA NoWalks ==
    ASSUME at' # "walk" \/ (~On("duplicate")' /\ ~On("destroy")')
    PROVE  WalksStay /\ \A k \in Three : ~Over("duplicate", k)' /\ ~Over("destroy", k)'
  BY DEF WalksStay, Over, Three

LEMMA AppMoments == ASSUME IInv, Moments, NEW t \in Threads, App(t) PROVE Moments'
<1>1. /\ UNCHANGED <<todo, at, ghosts>>
      /\ On("duplicate") /\ at = "walk" => Ahead' = Ahead /\ SameBlocks(Ahead)
      /\ \A k \in Tables : k # "alloc" => SameTable(k)
  BY AppAside DEF Aside
<1>2. Left' = Left /\ Table' = Table /\ \A op : On(op)' = On(op)
  BY <1>1, SameLeft
<1>3. WalksStay
  BY <1>1, <1>2 DEF WalksStay, Over
<1>4. PlansStay
  BY <1>1, <1>2 DEF PlansStay
<1>5. \A k \in Three : SameTable(k)
  BY <1>1, ThreeTables
<1> QED  BY <1>1, <1>3, <1>4, <1>5, MomentsStay

LEMMA StutterMoments == ASSUME IInv, Moments, UNCHANGED vars PROVE Moments'
<1>1. UNCHANGED <<todo, at, ghosts, cursor, hash_next, pool>>
  BY DEF vars, chains, walk
<1>2. Left' = Left /\ Table' = Table /\ \A op : On(op)' = On(op)
  BY <1>1, SameLeft
<1>3. Ahead' = Ahead /\ SameBlocks(Ahead)
  BY <1>1 DEF Ahead, SameBlocks, Block, pool
<1>4. WalksStay
  BY <1>1, <1>2, <1>3 DEF WalksStay, Over
<1>5. PlansStay
  BY <1>1, <1>2 DEF PlansStay
<1>6. \A k \in Three : SameTable(k)
  BY StutterTables, ThreeTables
<1> QED  BY <1>1, <1>4, <1>5, <1>6, MomentsStay

\* Steps that are not about what the copies hold.
Carries ==
    \/ ListBlocks \/ ListCallstacks \/ ListCallstacksFails \/ InitMaps \/ TermMaps \/ Reset
    \/ LinkBegin \/ LinkRecord \/ LinkEnd
    \/ OffsetBegin \/ OffsetFree \/ OffsetAlone \/ OffsetAdvance \/ OffsetEnd
    \/ \E c \in Commands : Begin(c)

LEMMA CarriesPlans == ASSUME IInv, Carries PROVE PlansStay
<1>1. CASE ListBlocks \/ ListCallstacks \/ InitMaps \/ TermMaps \/ Reset \/ LinkEnd
  <2>1. PICK op \in {"print", "print_callstacks", "init_maps", "term_maps", "reset", "link"} :
            On(op) /\ todo' = Tail(todo)
    BY <1>1 DEF ListBlocks, ListCallstacks, InitMaps, TermMaps, Reset, LinkEnd, NextOp
  <2>2. op # "offset" /\ op # "duplicate"
    OBVIOUS
  <2>3. Left' = Left \ {Do(op, Table)}
    BY <2>1, OpEnds
  <2>4. at \notin Pairing
    BY <2>1, <2>2, PairingOn, OnlyOn
  <2>5. \A k : Do("duplicate", k) \in Left => Do("duplicate", k) \in Left'
    BY <2>2, <2>3, DoIs
  <2> QED  BY <2>3, <2>4, <2>5 DEF PlansStay
<1>2. CASE LinkBegin \/ LinkRecord
  <2>1. On("link") /\ todo' = todo
    BY <1>2 DEF LinkBegin, LinkRecord
  <2>2. Left' = Left /\ at \notin Pairing
    BY <2>1, SameLeft, PairingOn, OnlyOn
  <2> QED  BY <2>2 DEF PlansStay
<1>3. CASE OffsetBegin \/ OffsetFree \/ OffsetAlone \/ OffsetAdvance
  <2>1. at' \in {"free", "pair", "advance"}
    BY <1>3 DEF OffsetBegin, OffsetFree, OffsetAlone, OffsetAdvance
  <2> QED  BY <2>1 DEF PlansStay, Pairing
<1>4. CASE OffsetEnd
  <2>1. On("offset") /\ (todo' = Cleanup \/ todo' = Tail(todo))
    BY <1>4 DEF OffsetEnd
  <2>2. Table = "copy"
    BY <2>1, OnOffset, IInvParts
  <2>3. Do("offset", "copy") \notin Left'
    <3>1. CASE todo' = Cleanup
      BY <3>1, CleanupIs
    <3>2. CASE todo' = Tail(todo)
      BY <2>1, <2>2, <3>2, OpEnds
    <3> QED  BY <2>1, <3>1, <3>2
  <2> QED  BY <2>3 DEF PlansStay
<1>5. CASE ListCallstacksFails
  <2>1. todo' = Cleanup
    BY <1>5 DEF ListCallstacksFails
  <2> QED  BY <2>1, CleanupIs DEF PlansStay
<1>6. ASSUME NEW c \in Commands, Begin(c) PROVE PlansStay
  <2>1. Left' = ScriptSteps[c]
    BY <1>6, EveryPlan DEF Begin, Left
  <2>2. Do("offset", "copy") \in ScriptSteps[c] => \A k \in Copies : Do("duplicate", k) \in ScriptSteps[c]
    <3>1. Commands = {"list", "list_per_callstack", "create", "destroy", "compare", "compare_per_callstack"}
      BY DEF Commands, Script
    <3>2. CASE c \in {"compare", "compare_per_callstack"}
      BY <3>2, TableNames DEF ScriptSteps, CompareSteps
    <3>3. CASE c \in {"list", "list_per_callstack", "create", "destroy"}
      BY <3>3, DoIs DEF ScriptSteps
    <3> QED  BY <3>1, <3>2, <3>3
  <2> QED  BY <2>1, <2>2 DEF PlansStay
<1> QED  BY <1>1, <1>2, <1>3, <1>4, <1>5, <1>6 DEF Carries

LEMMA CarriesMoments == ASSUME IInv, Moments, Carries PROVE Moments'
<1>1. Calm
  BY DEF Carries, Calm, Rests
<1>2. \A k \in Three : SameTable(k)
  BY <1>1, CalmTables, ThreeTables
<1>3. UNCHANGED ghosts
  BY DEF Carries, ListBlocks, ListCallstacks, ListCallstacksFails, InitMaps, TermMaps, Reset,
         LinkBegin, LinkRecord, LinkEnd, OffsetBegin, OffsetFree, OffsetAlone, OffsetAdvance, OffsetEnd, Begin
<1>4. at' # "walk" \/ (~On("duplicate")' /\ ~On("destroy")')
  <2>1. CASE LinkBegin \/ LinkRecord
    <3>1. On("link") /\ todo' = todo
      BY <2>1 DEF LinkBegin, LinkRecord
    <3> QED  BY <3>1, SameLeft, OnlyOn
  <2>2. ASSUME NEW c \in Commands, Begin(c) PROVE at' # "walk"
    <3>1. todo = <<>> /\ at' = at
      BY <2>2 DEF Begin
    <3> QED  BY <3>1, NothingToDo
  <2>3. CASE ListBlocks \/ ListCallstacks \/ ListCallstacksFails \/ InitMaps \/ TermMaps \/ Reset \/ LinkEnd
    BY <2>3 DEF ListBlocks, ListCallstacks, ListCallstacksFails, InitMaps, TermMaps, Reset, LinkEnd, NextOp
  <2>4. CASE OffsetBegin \/ OffsetFree \/ OffsetAlone \/ OffsetAdvance \/ OffsetEnd
    BY <2>4 DEF OffsetBegin, OffsetFree, OffsetAlone, OffsetAdvance, OffsetEnd
  <2> QED  BY <2>1, <2>2, <2>3, <2>4 DEF Carries
<1>5. WalksStay
  BY <1>4, NoWalks
<1>6. PlansStay
  BY CarriesPlans
<1> QED  BY <1>2, <1>3, <1>5, <1>6, MomentsStay

\* The last record of a copy is passed.
LEMMA NothingAhead ==
    ASSUME IInv, On("duplicate"), at = "walk", cursor = NULL
    PROVE  Ahead = {}
<1>1. IsChain(NULL, hash_next, Ahead, NULL) /\ Ahead \subseteq Owned(Source[Table])
  BY IInvParts DEF Walks
<1>2. Source[Table] \in Tables
  BY OnDuplicate, IInvParts
<1>3. NULL \notin Ahead
  BY <1>1, <1>2, RecsNotNull, IInvParts DEF Chains
<1> QED  BY <1>1, <1>3, ChainOfNull

LEMMA DuplicateFailsMoments == ASSUME IInv, Moments, DuplicateFails PROVE Moments'
<1>1. todo' = <<>> /\ at' = "start" /\ whole' = whole /\ moment' = [moment EXCEPT !["copy"] = {}]
  BY DEF DuplicateFails
<1>2. Left' = {} /\ WalksStay /\ \A k \in Three : ~Over("duplicate", k)'
  BY <1>1, NoSteps, NoWalks
<1>3. SameTable("snapshot")
  BY RestsTables, ThreeTables DEF Rests
<1>4. moment \in [{"copy", "snapshot"} -> SUBSET BlockSet]
  BY DEF Moments, MomentType
<1>5. MomentType'
  BY <1>1, <1>4 DEF MomentType, BlockSet
<1>6. moment'["snapshot"] = moment["snapshot"]
  BY <1>1, <1>4
<1>7. Whole'
  BY <1>1, <1>2, <1>3, <1>6, WholeStays DEF Moments
<1> QED  BY <1>2, <1>5, <1>7 DEF Moments, InCopy, AsCopied

LEMMA DuplicateEndMoments == ASSUME IInv, Moments, DuplicateEnd PROVE Moments'
<1>1. /\ On("duplicate") /\ at = "walk" /\ cursor = NULL /\ todo' = Tail(todo) /\ at' = "start"
      /\ moment' = moment /\ whole' = (whole \/ Table = "snapshot")
  BY DEF DuplicateEnd, NextOp
<1>2. /\ Table \in Three /\ (Table = "snapshot" => Do("destroy", "snapshot") \notin Left)
      /\ Table = "snapshot" => Do("offset", "copy") \notin Left
  BY <1>1, OnDuplicate, IInvParts DEF Three
<1>3. PICK T \in Three : T = Table
  BY <1>2
<1>4. Left' = Left \ {Do("duplicate", T)}
  BY <1>1, <1>3, OpEnds
<1>5. WalksStay /\ \A k \in Three : ~Over("duplicate", k)' /\ ~Over("destroy", k)'
  BY <1>1, NoWalks
<1>6. \A k \in Three : SameTable(k)
  BY RestsTables, ThreeTables DEF Rests
<1>7. FreshCopy(T) => Blocks(Owned(T)) = Whence(T)
  <2>1. Blocks(Ahead) = {}
    BY <1>1, NothingAhead DEF Blocks
  <2>2. Over("duplicate", T)
    BY <1>1, <1>3 DEF Over
  <2> QED  BY <2>1, <2>2 DEF Moments, InCopy
<1>8. \A k \in Three : Blocks(Owned(k))' = Blocks(Owned(k)) /\ Whence(k)' = Whence(k)
  BY <1>1, <1>6, BlocksSame, WhenceSame, ThreeTables
<1>9. MomentType'
  BY <1>1 DEF Moments, MomentType, BlockSet
<1>10. AsCopied'
  <2> SUFFICES ASSUME Do("offset", "copy") \in Left', NEW k \in Copies, Do("duplicate", k) \notin Left'
               PROVE  Blocks(Owned(k)) = Whence(k)
    BY <1>8, ThreeTables DEF AsCopied, Pairing
  <2>1. Do("offset", "copy") \in Left /\ at \notin Pairing
    BY <1>1, <1>4 DEF Pairing
  <2>2. CASE k = T
    <3>1. FreshCopy(T)
      BY <2>1, <2>2, ThreeTables, CopiesAre DEF FreshCopy
    <3> QED  BY <1>7, <2>2, <3>1
  <2>3. CASE k # T
    <3>1. Do("duplicate", k) \notin Left
      BY <1>4, <2>3, DoIs
    <3> QED  BY <2>1, <3>1 DEF Moments, AsCopied
  <2> QED  BY <2>2, <2>3
<1>11. Whole'
  <2>1. CASE T = "snapshot"
    <3>1. FreshCopy(T)
      BY <1>2, <1>3, <2>1 DEF FreshCopy
    <3>2. Blocks(Owned("snapshot")) = moment["snapshot"]
      BY <1>7, <2>1, <3>1 DEF Whence
    <3>3. Blocks(Owned("snapshot"))' = Blocks(Owned("snapshot"))
      BY <1>8, ThreeTables
    <3> QED  BY <1>1, <1>5, <3>2, <3>3, ThreeTables DEF Whole
  <2>2. CASE T # "snapshot"
    <3>1. whole' = whole
      BY <1>1, <1>3, <2>2, IInvParts DEF Types
    <3> QED  BY <1>1, <1>5, <1>6, <3>1, WholeStays, ThreeTables DEF Moments
  <2> QED  BY <2>1, <2>2
<1> QED  BY <1>5, <1>9, <1>10, <1>11 DEF Moments, InCopy

LEMMA DuplicateLockMoments == ASSUME IInv, Moments, DuplicateLock PROVE Moments'
<1>1. /\ On("duplicate") /\ at = "start" /\ todo' = todo /\ at' = "walk"
      /\ moment' = [k \in DOMAIN moment |-> IF k = Table THEN Blocks(Members("alloc")) ELSE moment[k]]
      /\ whole' = (whole /\ Table # "snapshot")
  BY DEF DuplicateLock
<1>2. /\ Table \in Three /\ (Table = "snapshot" => Do("offset", "copy") \notin Left)
      /\ Source[Table] \in Tables /\ ~On("destroy") /\ Do("duplicate", Table) \in Left
  BY <1>1, OnDuplicate, OnIs, IInvParts DEF Three
<1>3. PICK T \in Three : T = Table
  BY <1>2
<1>4. Left' = Left /\ Table' = T /\ On("duplicate")' /\ ~On("destroy")'
  BY <1>1, <1>2, <1>3, SameLeft
<1>5. \A k \in Tables : SameTable(k)
  BY RestsTables DEF Rests
<1>6. \A k \in Tables : Blocks(Owned(k))' = Blocks(Owned(k))
  BY <1>5, BlocksSame
<1>7. Members("alloc") = Owned("alloc")
  BY <1>2, FirstIsHead, TableNames
<1>8. moment \in [{"copy", "snapshot"} -> SUBSET BlockSet]
  BY DEF Moments, MomentType
<1>9. Blocks(Owned("alloc")) \subseteq BlockSet
  BY IInvParts, TableNames DEF Filled, Blocks
<1>10. MomentType'
  BY <1>1, <1>7, <1>8, <1>9 DEF MomentType, BlockSet
<1>11. /\ \A k \in {"copy", "snapshot"} : k # T => moment'[k] = moment[k]
       /\ T # "snapshot_copy" => moment'[T] = Blocks(Owned("alloc"))
  BY <1>1, <1>3, <1>7, <1>8 DEF Three
<1>12. PICK S \in Tables : S = Source[T] /\ Ahead' = Owned(S)
  BY <1>2, <1>3, DuplicateLockKeeps
<1>13. S = IF T = "snapshot_copy" THEN "snapshot" ELSE "alloc"
  BY <1>12, TableNames DEF Three
<1>14. Blocks(Ahead)' = Blocks(Owned(S))
  BY <1>5, <1>12 DEF Blocks, SameTable, SameBlocks
<1>15. Whence(T)' = Blocks(Owned(S))
  <2>1. CASE T = "snapshot_copy"
    <3>1. Whence(T)' = Blocks(Owned("snapshot"))'
      BY <2>1 DEF Whence
    <3> QED  BY <1>6, <1>13, <2>1, <3>1, ThreeTables
  <2>2. CASE T # "snapshot_copy"
    BY <1>11, <1>13, <2>2 DEF Whence
  <2> QED  BY <2>1, <2>2
<1>16. InCopy'
  <2> SUFFICES ASSUME NEW k \in Three, Over("duplicate", k)', FreshCopy(k)'
               PROVE  Blocks(Owned(k))' \cup Blocks(Ahead)' = Whence(k)'
    BY DEF InCopy
  <2>1. k = T /\ k \in Tables /\ k \in Copies \cup {"snapshot"}
    BY <1>4, ThreeTables, CopiesAre DEF Over, Three
  <2>2. FreshCopy(k)
    BY <1>4 DEF FreshCopy
  <2>3. First(k) = NULL
    BY <1>1, <1>2, <1>3, <2>1, <2>2, FirstIsHead, IInvParts DEF Unique
  <2>4. Owned(k) = {}
    BY <2>1, <2>3, EmptyTable, IInvParts
  <2>5. Blocks(Owned(k))' = {}
    BY <1>6, <2>1, <2>4 DEF Blocks
  <2> QED  BY <1>14, <1>15, <2>1, <2>5
<1>17. AsCopied'
  <2> SUFFICES ASSUME Do("offset", "copy") \in Left, NEW k \in Copies, Do("duplicate", k) \notin Left
               PROVE  Blocks(Owned(k))' = Whence(k)'
    BY <1>4 DEF AsCopied, Pairing
  <2>1. Blocks(Owned(k)) = Whence(k)
    BY <1>1 DEF Moments, AsCopied, Pairing
  <2>2. k # T /\ k \in Three /\ k \in Tables
    BY <1>2, <1>3, ThreeTables
  <2>3. k # "snapshot_copy" => moment'[k] = moment[k]
    BY <1>11, <2>2, CopiesAre
  <2>4. Whence(k)' = Whence(k)
    BY <1>5, <2>2, <2>3, WhenceSame, ThreeTables
  <2> QED  BY <1>6, <2>1, <2>2, <2>4
<1>18. Whole'
  <2>1. CASE T = "snapshot"
    BY <1>1, <1>3, <2>1 DEF Whole
  <2>2. CASE T # "snapshot"
    <3>1. moment'["snapshot"] = moment["snapshot"] /\ (whole' => whole)
      BY <1>1, <1>11, <2>2
    <3>2. ~Over("duplicate", "snapshot")' /\ ~Over("destroy", "snapshot")'
      BY <1>4, <2>2 DEF Over
    <3> QED  BY <1>6, <3>1, <3>2, ThreeTables DEF Moments, Whole
  <2> QED  BY <2>1, <2>2
<1> QED  BY <1>10, <1>16, <1>17, <1>18 DEF Moments

LEMMA DuplicateRecordMoments == ASSUME IInv, Moments, DuplicateRecord PROVE Moments'
<1>1. On("duplicate") /\ at = "walk" /\ todo' = todo /\ at' = at /\ moment' = moment /\ whole' = whole
  BY DEF DuplicateRecord, ghosts
<1>2. PICK T \in Tables, r \in Recs : T = Table /\ GetsCopy(T, r)
  BY DuplicateRecordKeeps
<1>3. /\ T \in Three /\ Source[T] \in Tables \ {T} /\ (T = "snapshot" => Do("offset", "copy") \notin Left)
      /\ ~On("destroy") /\ Do("duplicate", T) \in Left
  BY <1>1, <1>2, OnDuplicate, OnIs, IInvParts DEF Three
<1>4. Left' = Left /\ Table' = T /\ On("duplicate")' /\ ~On("destroy")'
  BY <1>1, <1>2, <1>3, SameLeft
<1>5. \A k \in Tables \ {T} : SameTable(k) /\ Blocks(Owned(k))' = Blocks(Owned(k))
  BY <1>2, BlocksSame DEF GetsCopy
<1>6. PICK S \in Tables \ {T} : S = Source[T]
  BY <1>3
<1>7. Ahead \subseteq Owned(S)
  BY <1>1, <1>2, <1>6, IInvParts DEF Walks
<1>8. SameBlocks(Ahead)
  BY <1>5, <1>6, <1>7 DEF SameTable, SameBlocks
<1>9. /\ Blocks(Owned(T))' = Blocks(Owned(T)) \cup {Block(cursor)}
      /\ Blocks(Ahead)' = {Block(x) : x \in Ahead \ {cursor}} /\ cursor \in Ahead
  <2>1. /\ Owned(T)' = Owned(T) \cup {r} /\ SameBlocks(Owned(T)) /\ Block(r)' = Block(cursor)
        /\ Ahead' = Ahead \ {cursor} /\ cursor \in Ahead
    BY <1>2 DEF GetsCopy
  <2>2. Blocks(Owned(T))' = Blocks(Owned(T)) \cup {Block(cursor)}
    BY <2>1 DEF Blocks, SameBlocks
  <2>3. Blocks(Ahead)' = {Block(x) : x \in Ahead \ {cursor}}
    BY <1>8, <2>1 DEF Blocks, SameBlocks
  <2> QED  BY <2>1, <2>2, <2>3
<1>10. Blocks(Owned(T))' \cup Blocks(Ahead)' = Blocks(Owned(T)) \cup Blocks(Ahead)
  <2>1. Blocks(Ahead) = {Block(x) : x \in Ahead \ {cursor}} \cup {Block(cursor)}
    BY <1>9 DEF Blocks
  <2> QED  BY <1>9, <2>1
<1>11. MomentType'
  BY <1>1 DEF Moments, MomentType, BlockSet
<1>12. InCopy'
  <2> SUFFICES ASSUME NEW k \in Three, Over("duplicate", k)', FreshCopy(k)'
               PROVE  Blocks(Owned(k))' \cup Blocks(Ahead)' = Whence(k)'
    BY DEF InCopy
  <2>1. k = T /\ FreshCopy(T) /\ Over("duplicate", T)
    BY <1>1, <1>2, <1>4 DEF Over, FreshCopy
  <2>2. Whence(T)' = Whence(T)
    <3>1. CASE T = "snapshot_copy"
      <4>1. "snapshot" \in Tables \ {T}
        BY <3>1, TableNames
      <4> QED  BY <1>5, <3>1, <4>1 DEF Whence
    <3>2. CASE T # "snapshot_copy"
      BY <1>1, <3>2 DEF Whence
    <3> QED  BY <3>1, <3>2
  <2> QED  BY <1>3, <1>10, <2>1, <2>2 DEF Moments, InCopy
<1>13. AsCopied'
  <2> SUFFICES ASSUME Do("offset", "copy") \in Left, NEW k \in Copies, Do("duplicate", k) \notin Left
               PROVE  Blocks(Owned(k))' = Whence(k)'
    BY <1>4 DEF AsCopied
  <2>1. Blocks(Owned(k)) = Whence(k)
    BY <1>1 DEF Moments, AsCopied, Pairing
  <2>2. k # T /\ "snapshot" # T /\ k \in Three /\ k \in Tables /\ "snapshot" \in Tables
    BY <1>3, ThreeTables
  <2>3. Whence(k)' = Whence(k)
    BY <1>1, <1>5, <2>2, WhenceSame
  <2> QED  BY <1>5, <2>1, <2>2, <2>3
<1>14. Whole'
  <2>1. CASE T = "snapshot"
    <3>1. ~whole
      BY <1>1, <1>2, <2>1 DEF Moments, Whole, Over
    <3> QED  BY <1>1, <3>1 DEF Whole
  <2>2. CASE T # "snapshot"
    <3>1. ~Over("duplicate", "snapshot")' /\ ~Over("destroy", "snapshot")'
      BY <1>4, <2>2 DEF Over
    <3>2. Blocks(Owned("snapshot"))' = Blocks(Owned("snapshot"))
      BY <1>5, <2>2, TableNames
    <3> QED  BY <1>1, <3>1, <3>2 DEF Moments, Whole
  <2> QED  BY <2>1, <2>2
<1> QED  BY <1>11, <1>12, <1>13, <1>14 DEF Moments

\* While something is given back, nothing is copied or waits to be paired.
LEMMA NoCopies ==
    ASSUME IInv, On("destroy"), todo' = todo \/ (todo' = Tail(todo) /\ at' = "start")
    PROVE  InCopy' /\ AsCopied'
<1>1. Do("offset", "copy") \notin Left /\ ~On("duplicate")
  BY OnDestroy, IInvParts
<1>2. Do("offset", "copy") \notin Left' /\ \A k \in Three : ~Over("duplicate", k)'
  <2>1. CASE todo' = todo
    BY <1>1, <2>1, SameLeft DEF Over
  <2>2. CASE todo' = Tail(todo) /\ at' = "start"
    <3>1. Left' = Left \ {Do("destroy", Table)}
      BY <2>2, OpEnds
    <3> QED  BY <1>1, <2>2, <3>1 DEF Over
  <2> QED  BY <2>1, <2>2
<1> QED  BY <1>2 DEF InCopy, AsCopied

LEMMA DestroyLockMoments == ASSUME IInv, Moments, DestroyLock PROVE Moments'
<1>1. /\ On("destroy") /\ at = "start" /\ todo' = todo /\ at' = "walk" /\ moment' = moment
      /\ whole' = (whole /\ Table # "snapshot")
  BY DEF DestroyLock
<1>2. MomentType'
  BY <1>1 DEF Moments, MomentType, BlockSet
<1>3. InCopy' /\ AsCopied'
  BY <1>1, NoCopies
<1>4. Blocks(Owned("snapshot"))' = Blocks(Owned("snapshot"))
  BY DestroyLockTables, BlocksSame, TableNames
<1>5. Table' = Table
  BY <1>1, SameLeft
<1>6. Whole'
  BY <1>1, <1>4, <1>5 DEF Moments, Whole, Over
<1> QED  BY <1>2, <1>3, <1>6 DEF Moments

LEMMA DestroyRecordMoments == ASSUME IInv, Moments, DestroyRecord PROVE Moments'
<1>1. /\ On("destroy") /\ at = "walk" /\ todo' = todo /\ at' = at /\ moment' = moment /\ whole' = whole
  BY DEF DestroyRecord, ghosts
<1>2. MomentType'
  BY <1>1 DEF Moments, MomentType, BlockSet
<1>3. InCopy' /\ AsCopied'
  BY <1>1, NoCopies
<1>4. PICK T \in Tables : T = Table /\ GivesBack(T)
  BY DestroyRecordKeeps
<1>5. Table' = T /\ \A op : On(op)' = On(op)
  BY <1>1, <1>4, SameLeft
<1>6. CASE T = "snapshot"
  <2>1. ~whole
    BY <1>1, <1>4, <1>6 DEF Moments, Whole, Over
  <2>2. Whole'
    BY <1>1, <2>1 DEF Whole
  <2> QED  BY <1>2, <1>3, <2>2 DEF Moments
<1>7. CASE T # "snapshot"
  <2>1. Blocks(Owned("snapshot"))' = Blocks(Owned("snapshot"))
    BY <1>4, <1>7, BlocksSame, TableNames DEF GivesBack
  <2>2. Whole'
    BY <1>1, <1>5, <1>7, <2>1 DEF Moments, Whole, Over
  <2> QED  BY <1>2, <1>3, <2>2 DEF Moments
<1> QED  BY <1>6, <1>7

LEMMA DestroyEndMoments == ASSUME IInv, Moments, DestroyEnd PROVE Moments'
<1>1. /\ On("destroy") /\ todo' = Tail(todo) /\ at' = "start"
      /\ moment' = [k \in DOMAIN moment |-> IF k = Table THEN {} ELSE moment[k]]
      /\ whole' = (whole \/ Table = "snapshot")
  BY DEF DestroyEnd, NextOp
<1>2. moment \in [{"copy", "snapshot"} -> SUBSET BlockSet]
  BY DEF Moments, MomentType
<1>3. MomentType'
  BY <1>1, <1>2 DEF MomentType, BlockSet
<1>4. InCopy' /\ AsCopied'
  BY <1>1, NoCopies
<1>5. ~Over("duplicate", "snapshot")' /\ ~Over("destroy", "snapshot")'
  BY <1>1 DEF Over
<1>6. PICK T \in Tables : T = Table /\ Owned(T)' = {}
  BY KeptTables
<1>7. CASE T = "snapshot"
  <2>1. Blocks(Owned("snapshot"))' = {} /\ moment'["snapshot"] = {}
    BY <1>1, <1>2, <1>6, <1>7 DEF Blocks
  <2>2. Whole'
    BY <1>5, <2>1 DEF Whole
  <2> QED  BY <1>3, <1>4, <2>2 DEF Moments
<1>8. CASE T # "snapshot"
  <2>1. Blocks(Owned("snapshot"))' = Blocks(Owned("snapshot")) /\ moment'["snapshot"] = moment["snapshot"]
    BY <1>1, <1>2, <1>6, <1>8, KeptTables, BlocksSame, TableNames
  <2>2. Whole'
    BY <1>1, <1>5, <1>6, <1>8, <2>1, IInvParts DEF Moments, Whole, Types
  <2> QED  BY <1>3, <1>4, <2>2 DEF Moments
<1> QED  BY <1>7, <1>8

LEMMA PairTables == ASSUME IInv, OffsetPair PROVE SameTable("snapshot") /\ SameTable("alloc")
<1>1. PICK m : Paired(m)
  BY OffsetPairKeeps
<1>2. UNCHANGED pool
  BY DEF OffsetPair
<1> QED  BY <1>1, <1>2, TableNames DEF Paired, SameTable, SameBlocks, Block, pool

LEMMA PairMoments == ASSUME IInv, Moments, OffsetPair PROVE Moments'
<1>1. at' = "advance" /\ moment' = moment /\ whole' = whole
  BY DEF OffsetPair, ghosts
<1>2. MomentType'
  BY <1>1 DEF Moments, MomentType, BlockSet
<1>3. WalksStay /\ \A k \in Three : ~Over("duplicate", k)'
  BY <1>1, NoWalks
<1>4. Whole'
  BY <1>1, <1>3, PairTables, WholeStays DEF Moments
<1>5. InCopy' /\ AsCopied'
  BY <1>1, <1>3 DEF InCopy, AsCopied, Pairing
<1> QED  BY <1>2, <1>4, <1>5 DEF Moments

LEMMA MomentsNext == IInv /\ Moments /\ [CleanStartNext]_vars => Moments'
<1> SUFFICES ASSUME IInv, Moments, [CleanStartNext]_vars PROVE Moments'
  OBVIOUS
<1>1. Calm => Carries \/ DuplicateFails \/ DuplicateEnd \/ DuplicateLock \/ DestroyLock \/ DestroyEnd
  BY DEF Calm, Rests, Carries
<1>2. ASSUME Calm PROVE Moments'
  BY <1>1, <1>2, CarriesMoments, DuplicateFailsMoments, DuplicateEndMoments, DuplicateLockMoments,
     DestroyLockMoments, DestroyEndMoments
<1> QED  BY <1>2, AppMoments, StutterMoments, DuplicateRecordMoments, DestroyRecordMoments, PairMoments, Cases

LEMMA MomentsInit == Init => Moments
<1> SUFFICES ASSUME Init PROVE Moments
  OBVIOUS
<1>1. todo = <<>> /\ whole /\ moment = [k \in {"copy", "snapshot"} |-> {}] /\ IInv
  BY InitHolds DEF Init
<1>2. Left = {} /\ \A op : ~On(op)
  BY <1>1, NothingToDo
<1>3. Owned("snapshot") = {}
  <2>1. "snapshot" \in Tables /\ First("snapshot") = NULL
    BY TableNames DEF Init, First
  <2> QED  BY <1>1, <2>1, EmptyTable, IInvParts
<1>4. MomentType
  BY <1>1 DEF MomentType
<1>5. InCopy /\ AsCopied
  BY <1>2 DEF InCopy, AsCopied, Over
<1>6. Whole
  BY <1>1, <1>2, <1>3 DEF Whole, Over, Blocks
<1> QED  BY <1>4, <1>5, <1>6 DEF Moments

LEMMA MomentsHold == CleanStartSpec => []Moments
<1> QED  BY InvariantHolds, MomentsInit, MomentsNext, PTL DEF CleanStartSpec

LEMMA InvariantMoment == IInv /\ Moments => SnapshotIsMoment
<1> SUFFICES ASSUME IInv, Moments, whole PROVE Blocks(Members("snapshot")) = moment["snapshot"]
  BY DEF SnapshotIsMoment
<1>1. ~Over("destroy", "snapshot") /\ Blocks(Owned("snapshot")) = moment["snapshot"]
  BY DEF Moments, Whole
<1>2. Members("snapshot") = Owned("snapshot")
  BY <1>1, FirstIsHead, TableNames DEF Over
<1> QED  BY <1>1, <1>2

LEMMA InvariantTypes == IInv /\ Counted /\ MapsKept /\ Moments => TypeOK
<1> SUFFICES ASSUME IInv, Counted, MapsKept, Moments PROVE TypeOK
  OBVIOUS
<1>1. Types
  BY IInvParts
<1>2. todo \in Seq(Steps)
  <2>1. todo \in Seq(Known) /\ Known \subseteq Steps
    BY KnownSteps, IInvParts DEF Plan
  <2> QED  BY <2>1
<1>3. num_remainings \in [Copies -> Nat] /\ maps_uses \in Nat
  BY DEF Counted, MapsKept
<1>4. \A k \in {"copy", "snapshot"} : moment[k] \subseteq [ptr : Ptrs, size : Sizes, allocator : Callstacks]
  BY DEF Moments, MomentType, BlockSet
<1> QED  BY <1>1, <1>2, <1>3, <1>4 DEF Types, TypeOK


-----------------------------------------------------------------------------
(* What the pairing leaves *)

Kind(k, b) == {r \in Owned(k) : sizeOf[r] = b.size /\ allocator[r] = b.allocator}
AreAlike(r, s) == sizeOf[s] = sizeOf[r] /\ allocator[s] = allocator[r]

\* Of every kind of block the copies differ as what they were copied from.
Balanced ==
    at \in Pairing => \A b :
        Cardinality(Kind("copy", b)) - Cardinality(Kind("snapshot_copy", b)) =
            Cardinality(Alike(moment["copy"], b)) - Cardinality(Kind("snapshot", b))

\* The records that the pairing has still to come to.
To == IF at = "advance" THEN hash_next[cursor] ELSE cursor
Yet == Reached(To, hash_next)

\* A record that the pairing has passed has no like in the snapshot's copy.
Passed ==
    at \in Pairing =>
        /\ IsChain(To, hash_next, Yet, NULL) /\ Yet \subseteq Owned("copy")
        /\ \A r \in Owned("copy") \ Yet, s \in Owned("snapshot_copy") : ~AreAlike(r, s)

\* The steps that come to the pairing, or stay in it.
LEMMA PairingCases ==
    ASSUME IInv, [CleanStartNext]_vars, at' \in Pairing
    PROVE  \/ at \in Pairing /\ (UNCHANGED vars \/ \E t \in Threads : App(t))
           \/ OffsetBegin \/ OffsetFree \/ OffsetAlone \/ OffsetAdvance \/ OffsetPair
<1>1. ASSUME NEW t \in Threads, App(t) PROVE at' = at
  BY <1>1, AppAside DEF Aside
<1>2. CASE DuplicateRecord \/ DestroyRecord \/ LinkRecord
  BY <1>2 DEF DuplicateRecord, DestroyRecord, LinkRecord, Pairing
<1>3. CASE DuplicateLock \/ LinkBegin \/ DestroyLock
  BY <1>3 DEF DuplicateLock, LinkBegin, DestroyLock, Pairing
<1>4. CASE ListBlocks \/ ListCallstacks \/ InitMaps \/ TermMaps \/ Reset \/ DuplicateEnd \/ LinkEnd \/ DestroyEnd
  BY <1>4 DEF ListBlocks, ListCallstacks, InitMaps, TermMaps, Reset, DuplicateEnd, LinkEnd, DestroyEnd,
              NextOp, Pairing
<1>5. CASE ListCallstacksFails \/ DuplicateFails \/ OffsetEnd
  BY <1>5 DEF ListCallstacksFails, DuplicateFails, OffsetEnd, Pairing
<1>6. ASSUME NEW c \in Commands, Begin(c) PROVE FALSE
  <2>1. todo = <<>> /\ at' = at
    BY <1>6 DEF Begin
  <2> QED  BY <2>1, NothingToDo DEF Pairing
<1>7. CASE UNCHANGED vars
  BY <1>7 DEF vars
<1> QED  BY <1>1, <1>2, <1>3, <1>4, <1>5, <1>6, <1>7, Cases DEF Calm, Rests

LEMMA PairingPlace ==
    ASSUME IInv, at \in Pairing
    PROVE  /\ On("offset") /\ cursor \in Owned("copy") \cup lagging \cup {NULL}
           /\ \A k \in Tables : First(k) = head[k] /\ Owned(k) = Members(k)
           /\ at # "free" => cursor # NULL
<1>1. On("offset") /\ (at # "free" => cursor # NULL)
  BY IInvParts DEF Places, Pairing
<1>2. cursor \in Owned("copy") \cup lagging \cup {NULL}
  BY IInvParts DEF Walks, Pairing
<1>3. ~On("destroy")
  BY <1>1, OnlyOn
<1> QED  BY <1>1, <1>2, <1>3, FirstIsHead

LEMMA KindFinite ==
    ASSUME IInv, NEW k \in Tables, NEW b
    PROVE  IsFiniteSet(Kind(k, b)) /\ Cardinality(Kind(k, b)) \in Nat
<1>1. Kind(k, b) \subseteq Owned(k)
  BY DEF Kind
<1>2. IsFiniteSet(Kind(k, b))
  BY <1>1, OwnedFinite, FS_Subset
<1> QED  BY <1>2, FS_CardinalityType

\* Records at different addresses are as many as the blocks they describe.
LEMMA KindCounted ==
    ASSUME IInv, NEW k \in Tables, Distinct(k), NEW b
    PROVE  Cardinality(Kind(k, b)) = Cardinality(Alike(Blocks(Owned(k)), b))
<1> DEFINE S == Kind(k, b)
           T == Alike(Blocks(Owned(k)), b)
           f == [r \in S |-> Block(r)]
<1>1. \A r : Block(r).ptr = ptrOf[r] /\ Block(r).size = sizeOf[r] /\ Block(r).allocator = allocator[r]
  BY DEF Block
<1>2. \A r \in S : Block(r) \in T
  BY <1>1 DEF Kind, Alike, Blocks
<1>3. \A x \in T : \E r \in S : Block(r) = x
  BY <1>1 DEF Kind, Alike, Blocks
<1>4. \A r, q \in S : Block(r) = Block(q) => r = q
  <2>1. S \subseteq Owned(k)
    BY DEF Kind
  <2>2. \A r, q \in S : Block(r) = Block(q) => ptrOf[r] = ptrOf[q]
    BY <1>1
  <2> QED  BY <2>1, <2>2 DEF Distinct
<1> HIDE DEF S, T
<1>5. f \in Bijection(S, T)
  <2>1. f \in [S -> T]
    BY <1>2
  <2>2. \A r, q \in S : f[r] = f[q] => r = q
    BY <1>4
  <2>3. \A x \in T : \E r \in S : f[r] = x
    BY <1>3
  <2> QED  BY <2>1, <2>2, <2>3 DEF Bijection, Injection, Surjection, IsInjective
<1>6. IsFiniteSet(S)
  BY KindFinite DEF S
<1>7. Cardinality(T) = Cardinality(S)
  BY <1>5, <1>6, FS_Bijection DEF ExistsBijection
<1> QED  BY <1>7 DEF S, T

LEMMA KindSame ==
    ASSUME NEW k \in Tables, SameTable(k), NEW b
    PROVE  Kind(k, b)' = Kind(k, b)
<1>1. \A r \in Owned(k) : sizeOf'[r] = sizeOf[r] /\ allocator'[r] = allocator[r]
  BY DEF SameTable, SameBlocks, Block
<1> QED  BY <1>1 DEF SameTable, Kind

LEMMA BalanceStays ==
    ASSUME IInv, Balanced, at \in Pairing, \A k \in Three : SameTable(k), moment' = moment
    PROVE  Balanced'
<1> SUFFICES ASSUME NEW b
             PROVE  Cardinality(Kind("copy", b)') - Cardinality(Kind("snapshot_copy", b)') =
                      Cardinality(Alike(moment'["copy"], b)) - Cardinality(Kind("snapshot", b)')
  BY DEF Balanced, Alike
<1>1. \A k \in Three : Kind(k, b)' = Kind(k, b)
  BY KindSame, ThreeTables
<1>2. "copy" \in Three /\ "snapshot_copy" \in Three /\ "snapshot" \in Three
  BY DEF Three
<1>3. Cardinality(Kind("copy", b)) - Cardinality(Kind("snapshot_copy", b)) =
        Cardinality(Alike(moment["copy"], b)) - Cardinality(Kind("snapshot", b))
  BY DEF Balanced
<1> QED  BY <1>1, <1>2, <1>3

LEMMA BeginBalanced == ASSUME IInv, Moments, OffsetBegin PROVE Balanced'
<1>1. On("offset") /\ at = "start" /\ moment' = moment
  BY DEF OffsetBegin, ghosts
<1>2. Do("offset", "copy") \in Left /\ \A k \in Copies : Do("duplicate", k) \notin Left
  BY <1>1, OnOffset, IInvParts
<1>3. /\ Blocks(Owned("copy")) = moment["copy"]
      /\ Blocks(Owned("snapshot_copy")) = Blocks(Owned("snapshot"))
  <2>1. \A k \in Copies : Blocks(Owned(k)) = Whence(k)
    BY <1>1, <1>2 DEF Moments, AsCopied, Pairing
  <2> QED  BY <2>1, CopiesAre DEF Whence
<1>4. Distinct("copy") /\ Distinct("snapshot_copy") /\ Distinct("snapshot")
  BY <1>1, OffsetFinds, CopiesAre, IInvParts DEF Unique
<1>5. \A k \in Three : k \in Tables /\ SameTable(k)
  BY RestsTables, ThreeTables DEF Rests
<1>6. "copy" \in Three /\ "snapshot_copy" \in Three /\ "snapshot" \in Three
  BY DEF Three
<1> SUFFICES ASSUME NEW b
             PROVE  Cardinality(Kind("copy", b)') - Cardinality(Kind("snapshot_copy", b)') =
                      Cardinality(Alike(moment'["copy"], b)) - Cardinality(Kind("snapshot", b)')
  BY DEF Balanced, Alike
<1>7. \A k \in Three : Kind(k, b)' = Kind(k, b)
  BY <1>5, KindSame
<1>8. /\ Cardinality(Kind("copy", b)) = Cardinality(Alike(moment["copy"], b))
      /\ Cardinality(Kind("snapshot_copy", b)) = Cardinality(Kind("snapshot", b))
  <2>1. \A k \in Three : Distinct(k) => Cardinality(Kind(k, b)) = Cardinality(Alike(Blocks(Owned(k)), b))
    BY <1>5, KindCounted
  <2> QED  BY <1>3, <1>4, <1>6, <2>1
<1>9. Cardinality(Kind("copy", b)) \in Nat /\ Cardinality(Kind("snapshot_copy", b)) \in Nat
  BY <1>5, <1>6, KindFinite
<1> QED  BY <1>1, <1>6, <1>7, <1>8, <1>9

\* A pair is two blocks of one kind, one of each copy.
LEMMA PairBalanced == ASSUME IInv, Balanced, OffsetPair PROVE Balanced'
<1>1. /\ On("offset") /\ at = "pair" /\ moment' = moment /\ sizeOf' = sizeOf /\ allocator' = allocator
      /\ Match(cursor) # NULL /\ Paired(Match(cursor))
  BY OffsetPairKeeps DEF OffsetPair, pool, ghosts
<1>2. PICK m : m = Match(cursor)
  OBVIOUS
<1>3. /\ cursor \in Owned("copy") /\ m \in Owned("snapshot_copy")
      /\ Owned("copy")' = Owned("copy") \ {cursor} /\ Owned("snapshot_copy")' = Owned("snapshot_copy") \ {m}
      /\ Owned("snapshot")' = Owned("snapshot")
  BY <1>1, <1>2, TableNames DEF Paired
<1>4. sizeOf[m] = sizeOf[cursor] /\ allocator[m] = allocator[cursor]
  BY <1>1, <1>2, <1>3, MatchIs
<1> SUFFICES ASSUME NEW b
             PROVE  Cardinality(Kind("copy", b)') - Cardinality(Kind("snapshot_copy", b)') =
                      Cardinality(Alike(moment'["copy"], b)) - Cardinality(Kind("snapshot", b)')
  BY DEF Balanced, Alike
<1>5. Cardinality(Kind("copy", b)) - Cardinality(Kind("snapshot_copy", b)) =
        Cardinality(Alike(moment["copy"], b)) - Cardinality(Kind("snapshot", b))
  BY <1>1 DEF Balanced, Pairing
<1>6. /\ Kind("copy", b)' = Kind("copy", b) \ {cursor}
      /\ Kind("snapshot_copy", b)' = Kind("snapshot_copy", b) \ {m}
      /\ Kind("snapshot", b)' = Kind("snapshot", b)
  BY <1>1, <1>3 DEF Kind
<1>7. cursor \in Kind("copy", b) <=> m \in Kind("snapshot_copy", b)
  BY <1>3, <1>4 DEF Kind
<1>8. /\ IsFiniteSet(Kind("copy", b)) /\ Cardinality(Kind("copy", b)) \in Nat
      /\ IsFiniteSet(Kind("snapshot_copy", b)) /\ Cardinality(Kind("snapshot_copy", b)) \in Nat
      /\ Cardinality(Kind("snapshot", b)) \in Nat
  BY KindFinite, TableNames
<1>9. CASE cursor \in Kind("copy", b)
  <2>1. /\ Cardinality(Kind("copy", b) \ {cursor}) = Cardinality(Kind("copy", b)) - 1
        /\ Cardinality(Kind("snapshot_copy", b) \ {m}) = Cardinality(Kind("snapshot_copy", b)) - 1
    BY <1>7, <1>8, <1>9, FS_RemoveElement
  <2>2. /\ Cardinality(Kind("copy", b)') = Cardinality(Kind("copy", b)) - 1
        /\ Cardinality(Kind("snapshot_copy", b)') = Cardinality(Kind("snapshot_copy", b)) - 1
    BY <1>6, <2>1
  <2>3. \A x, y \in Nat : (x - 1) - (y - 1) = x - y
    OBVIOUS
  <2>4. Cardinality(Kind("copy", b)') - Cardinality(Kind("snapshot_copy", b)') =
            Cardinality(Kind("copy", b)) - Cardinality(Kind("snapshot_copy", b))
    BY <1>8, <2>2, <2>3
  <2> QED  BY <1>1, <1>5, <1>6, <2>4
<1>10. CASE cursor \notin Kind("copy", b)
  <2>1. Kind("copy", b) \ {cursor} = Kind("copy", b) /\ Kind("snapshot_copy", b) \ {m} = Kind("snapshot_copy", b)
    BY <1>7, <1>10
  <2> QED  BY <1>1, <1>5, <1>6, <2>1
<1> QED  BY <1>9, <1>10

LEMMA BalancedNext == IInv /\ Moments /\ Balanced /\ [CleanStartNext]_vars => Balanced'
<1> SUFFICES ASSUME IInv, Moments, Balanced, [CleanStartNext]_vars, at' \in Pairing PROVE Balanced'
  BY DEF Balanced, Pairing
<1>1. ASSUME NEW t \in Threads, App(t), at \in Pairing PROVE Balanced'
  <2>1. moment' = moment /\ \A k \in Three : SameTable(k)
    BY <1>1, AppAside, ThreeTables DEF ghosts
  <2> QED  BY <1>1, <2>1, BalanceStays
<1>2. CASE UNCHANGED vars /\ at \in Pairing
  <2>1. moment' = moment /\ \A k \in Three : SameTable(k)
    BY <1>2, StutterTables, ThreeTables DEF vars, ghosts
  <2> QED  BY <1>2, <2>1, BalanceStays
<1>3. CASE OffsetFree \/ OffsetAlone \/ OffsetAdvance
  <2>1. at \in Pairing /\ moment' = moment
    BY <1>3 DEF OffsetFree, OffsetAlone, OffsetAdvance, Pairing, ghosts
  <2>2. \A k \in Three : SameTable(k)
    BY <1>3, CalmTables, ThreeTables DEF Calm, Rests
  <2> QED  BY <2>1, <2>2, BalanceStays
<1> QED  BY <1>1, <1>2, <1>3, BeginBalanced, PairBalanced, PairingCases

\* The pairing goes on, with the records of S still to come.
LEMMA YetIs ==
    ASSUME NEW S \in SUBSET Recs, IsChain(To', hash_next', S, NULL)
    PROVE  Yet' = S /\ IsChain(To', hash_next', Yet', NULL)
<1>1. To' \in Recs \cup {NULL}
  BY ChainLinks
<1>2. Reached(To', hash_next') = S
  BY <1>1, ReachedIs
<1> QED  BY <1>2 DEF Yet

LEMMA PassedStays ==
    ASSUME IInv, Passed, at \in Pairing, To' = To, SameTable("copy"), SameTable("snapshot_copy"),
           \A x \in Owned("copy") : hash_next'[x] = hash_next[x]
    PROVE  Passed'
<1>1. /\ IsChain(To, hash_next, Yet, NULL) /\ Yet \subseteq Owned("copy")
      /\ \A r \in Owned("copy") \ Yet, s \in Owned("snapshot_copy") : ~AreAlike(r, s)
  BY DEF Passed
<1>2. Owned("copy") \subseteq Recs
  BY TableNames, IInvParts DEF Chains
<1>3. IsChain(To', hash_next', Yet, NULL)
  BY <1>1, ChainSame
<1>4. Yet' = Yet /\ IsChain(To', hash_next', Yet', NULL)
  BY <1>1, <1>2, <1>3, YetIs
<1>5. Owned("copy")' = Owned("copy") /\ Owned("snapshot_copy")' = Owned("snapshot_copy")
  BY DEF SameTable
<1>6. \A r \in Owned("copy"), s \in Owned("snapshot_copy") : AreAlike(r, s)' <=> AreAlike(r, s)
  BY DEF SameTable, SameBlocks, Block, AreAlike
<1> QED  BY <1>1, <1>4, <1>5, <1>6 DEF Passed

LEMMA AppPassed == ASSUME IInv, Passed, at \in Pairing, NEW t \in Threads, App(t) PROVE Passed'
<1>1. /\ at' = at /\ cursor' = cursor /\ KeptOn(lagging)
      /\ \A k \in Tables : k # "alloc" => SameTable(k) /\ KeptOn(Owned(k))
  BY AppAside DEF Aside
<1>2. KeptOn(Owned("copy")) /\ SameTable("copy") /\ SameTable("snapshot_copy")
  BY <1>1, TableNames
<1>3. To' = To
  <2>1. at = "advance" => cursor \in Owned("copy") \cup lagging
    BY PairingPlace
  <2> QED  BY <1>1, <1>2, <2>1 DEF To, KeptOn
<1> QED  BY <1>2, <1>3, PassedStays DEF KeptOn

LEMMA FreePassed == ASSUME IInv, Passed, OffsetFree PROVE Passed'
<1>1. /\ On("offset") /\ at = "free" /\ at' = "pair" /\ cursor' = cursor
      /\ Release(lagging) /\ lagging' = {} /\ UNCHANGED <<apc, arec, head>>
  BY DEF OffsetFree, threads
<1>2. \A k \in Tables : First(k)' = First(k)
  BY <1>1, OnlyOn, AwayFirst DEF Away
<1>3. \A k \in Tables : KeptOn(Owned(k)) /\ SameTable(k)
  BY <1>1, <1>2, ReleaseRecords, KeptTables
<1>4. KeptOn(Owned("copy")) /\ SameTable("copy") /\ SameTable("snapshot_copy")
  BY <1>3, TableNames
<1>5. To' = To /\ at \in Pairing
  BY <1>1 DEF To, Pairing
<1> QED  BY <1>4, <1>5, PassedStays DEF KeptOn

LEMMA BeginPassed == ASSUME IInv, OffsetBegin PROVE Passed'
<1>1. On("offset") /\ at' = "free" /\ cursor' = head["copy"] /\ UNCHANGED <<pool, chains>>
  BY DEF OffsetBegin
<1>2. /\ "copy" \in Tables /\ Owned("copy") \in SUBSET Recs
      /\ IsChain(head["copy"], hash_next, Owned("copy"), NULL)
  BY <1>1, OffsetFinds, TableNames, IInvParts DEF Chains
<1>3. Owned("copy")' = Owned("copy")
  BY <1>2, RestsTables DEF Rests, SameTable
<1>4. To' = head["copy"] /\ hash_next' = hash_next
  BY <1>1 DEF To, chains
<1>5. Yet' = Owned("copy") /\ IsChain(To', hash_next', Yet', NULL)
  BY <1>2, <1>4, YetIs
<1> QED  BY <1>3, <1>5 DEF Passed

LEMMA AlonePassed == ASSUME IInv, Passed, OffsetAlone PROVE Passed'
<1>1. /\ On("offset") /\ at = "pair" /\ at' = "advance" /\ Match(cursor) = NULL
      /\ UNCHANGED <<pool, chains, cursor>>
  BY DEF OffsetAlone, walk
<1>2. /\ IsChain(cursor, hash_next, Yet, NULL) /\ Yet \subseteq Owned("copy")
      /\ \A r \in Owned("copy") \ Yet, s \in Owned("snapshot_copy") : ~AreAlike(r, s)
  BY <1>1 DEF Passed, To, Pairing
<1>3. Owned("copy") \subseteq Recs /\ NULL \notin Owned("copy")
  BY TableNames, RecsNotNull, IInvParts DEF Chains
<1>4. cursor # NULL
  BY <1>1, PairingPlace DEF Pairing
<1>5. cursor \in Yet /\ IsChain(hash_next[cursor], hash_next, Yet \ {cursor}, NULL)
  BY <1>2, <1>3, <1>4, ChainTail
<1>6. To' = hash_next[cursor] /\ hash_next' = hash_next
  BY <1>1 DEF To, chains
<1>7. Yet' = Yet \ {cursor} /\ IsChain(To', hash_next', Yet', NULL)
  <2>1. Yet \ {cursor} \in SUBSET Recs
    BY <1>2, <1>3
  <2> QED  BY <1>5, <1>6, <2>1, YetIs
<1>8. \A s \in Owned("snapshot_copy") : ~AreAlike(cursor, s)
  BY <1>1, <1>2, <1>5, MatchIs DEF AreAlike
<1>9. \A r \in Owned("copy") \ Yet', s \in Owned("snapshot_copy") : ~AreAlike(r, s)
  BY <1>2, <1>7, <1>8
<1>10. Owned("copy")' = Owned("copy") /\ Owned("snapshot_copy")' = Owned("snapshot_copy")
  BY RestsTables, TableNames DEF Rests, SameTable
<1>11. \A r, s : AreAlike(r, s)' <=> AreAlike(r, s)
  BY <1>1 DEF AreAlike, pool
<1> QED  BY <1>2, <1>7, <1>9, <1>10, <1>11 DEF Passed

LEMMA PairPassed == ASSUME IInv, Passed, OffsetPair PROVE Passed'
<1>1. /\ On("offset") /\ at = "pair" /\ at' = "advance" /\ cursor' = cursor /\ pool' = pool
      /\ Paired(Match(cursor))
  BY OffsetPairKeeps DEF OffsetPair, pool
<1>2. PICK m : m = Match(cursor)
  OBVIOUS
<1>3. /\ cursor \in Owned("copy")
      /\ Owned("copy")' = Owned("copy") \ {cursor} /\ Owned("snapshot_copy")' = Owned("snapshot_copy") \ {m}
      /\ \A x \in Owned("copy") :
            hash_next'[x] = IF hash_next[x] = cursor THEN hash_next[cursor] ELSE hash_next[x]
  BY <1>1, <1>2 DEF Paired
<1>4. /\ IsChain(cursor, hash_next, Yet, NULL) /\ Yet \subseteq Owned("copy")
      /\ \A r \in Owned("copy") \ Yet, s \in Owned("snapshot_copy") : ~AreAlike(r, s)
  BY <1>1 DEF Passed, To, Pairing
<1>5. Owned("copy") \subseteq Recs /\ NULL \notin Owned("copy")
  BY TableNames, RecsNotNull, IInvParts DEF Chains
<1>6. cursor \in Yet /\ IsChain(hash_next[cursor], hash_next, Yet \ {cursor}, NULL)
  <2>1. NULL \notin Yet /\ cursor # NULL
    BY <1>3, <1>4, <1>5
  <2> QED  BY <1>4, <2>1, ChainTail
<1>7. \A x \in Yet : hash_next[x] # cursor
  <2> SUFFICES ASSUME NEW x \in Yet, hash_next[x] = cursor PROVE FALSE
    OBVIOUS
  <2>1. hash_next[x] \in Yet /\ NULL \notin Yet
    BY <1>4, <1>5, <1>6
  <2>2. hash_next[x] # cursor
    BY <1>4, <2>1, ChainInjective
  <2> QED  BY <2>2
<1>8. \A x \in Yet : hash_next'[x] = hash_next[x]
  BY <1>3, <1>4, <1>7
<1>9. To' = hash_next[cursor]
  BY <1>1, <1>6, <1>8 DEF To
<1>10. Yet' = Yet \ {cursor} /\ IsChain(To', hash_next', Yet', NULL)
  <2>1. Yet \ {cursor} \in SUBSET Recs
    BY <1>4, <1>5
  <2>2. IsChain(To', hash_next', Yet \ {cursor}, NULL)
    BY <1>6, <1>8, <1>9, ChainSame
  <2> QED  BY <2>1, <2>2, YetIs
<1>11. \A r \in Owned("copy")' \ Yet', s \in Owned("snapshot_copy")' : ~AreAlike(r, s)
  BY <1>3, <1>4, <1>10
<1>12. \A r, s : AreAlike(r, s)' <=> AreAlike(r, s)
  BY <1>1 DEF AreAlike, pool
<1> QED  BY <1>3, <1>4, <1>10, <1>11, <1>12 DEF Passed

LEMMA PassedNext == IInv /\ Passed /\ [CleanStartNext]_vars => Passed'
<1> SUFFICES ASSUME IInv, Passed, [CleanStartNext]_vars, at' \in Pairing PROVE Passed'
  BY DEF Passed, Pairing
<1>1. CASE OffsetAdvance
  <2>1. /\ at = "advance" /\ at' = "free" /\ cursor' = hash_next[cursor] /\ UNCHANGED chains
    BY <1>1 DEF OffsetAdvance
  <2>2. To' = To /\ at \in Pairing /\ hash_next' = hash_next
    BY <2>1 DEF To, Pairing, chains
  <2>3. SameTable("copy") /\ SameTable("snapshot_copy")
    BY <1>1, RestsTables, TableNames DEF Rests
  <2> QED  BY <2>2, <2>3, PassedStays
<1>2. CASE UNCHANGED vars /\ at \in Pairing
  <2>1. To' = To /\ hash_next' = hash_next
    BY <1>2 DEF To, vars, walk, chains
  <2>2. SameTable("copy") /\ SameTable("snapshot_copy")
    BY <1>2, StutterTables, TableNames
  <2> QED  BY <1>2, <2>1, <2>2, PassedStays
<1> QED  BY <1>1, <1>2, AppPassed, FreePassed, BeginPassed, AlonePassed, PairPassed, PairingCases

LEMMA PairingInit == Init => Balanced /\ Passed
  BY DEF Init, Balanced, Passed, Pairing

LEMMA PairingHolds == CleanStartSpec => [](Balanced /\ Passed)
<1>1. IInv /\ Moments /\ Balanced /\ Passed /\ [CleanStartNext]_vars => (Balanced /\ Passed)'
  BY BalancedNext, PassedNext
<1> QED  BY <1>1, InvariantHolds, MomentsHold, PairingInit, PTL DEF CleanStartSpec

LEMMA InvariantPairing == IInv /\ Counted /\ Balanced /\ Passed => PairingExact
<1> SUFFICES ASSUME IInv, Counted, Balanced, Passed PROVE PairingExact
  OBVIOUS
<1>1. ASSUME On("offset"), at # "start" PROVE at \in Pairing
  <2>1. at # "walk"
    BY <1>1, OnlyOn, IInvParts DEF Places
  <2> QED  BY <1>1, <2>1, IInvParts DEF Types, Pairing
<1>2. ASSUME On("offset"), at # "start", NEW k \in Copies PROVE num_remainings[k] = Cardinality(Members(k))
  <2>1. at \in Pairing /\ Members(k) = Owned(k)
    BY <1>1, <1>2, PairingPlace, TableNames
  <2> QED  BY <2>1 DEF Counted
<1>3. ASSUME On("offset"), at = "free", cursor = NULL, NEW z \in Sizes, NEW c \in Callstacks
      PROVE  LET b == [size |-> z, allocator |-> c]
                 more == Cardinality(Rest("copy", b))
                 less == Cardinality(Rest("snapshot_copy", b))
             IN  /\ more - less = Cardinality(Alike(moment["copy"], b)) - Cardinality(Rest("snapshot", b))
                 /\ more = 0 \/ less = 0
  <2> DEFINE b == [size |-> z, allocator |-> c]
  <2>1. at \in Pairing
    BY <1>3 DEF Pairing
  <2>2. \A k \in Tables : Rest(k, b) = Kind(k, b)
    BY <2>1, PairingPlace DEF Rest, Kind
  <2>3. Cardinality(Kind("copy", b)) - Cardinality(Kind("snapshot_copy", b)) =
          Cardinality(Alike(moment["copy"], b)) - Cardinality(Kind("snapshot", b))
    BY <2>1 DEF Balanced
  <2>4. Yet = {}
    <3>1. IsChain(NULL, hash_next, Yet, NULL) /\ Yet \subseteq Owned("copy")
      BY <1>3, <2>1 DEF Passed, To
    <3>2. NULL \notin Yet
      BY <3>1, TableNames, RecsNotNull, IInvParts DEF Chains
    <3> QED  BY <3>1, <3>2, ChainOfNull
  <2>5. Kind("copy", b) = {} \/ Kind("snapshot_copy", b) = {}
    <3> SUFFICES ASSUME NEW r \in Kind("copy", b), NEW s \in Kind("snapshot_copy", b) PROVE FALSE
      OBVIOUS
    <3>1. r \in Owned("copy") /\ s \in Owned("snapshot_copy") /\ AreAlike(r, s)
      BY DEF Kind, AreAlike
    <3> QED  BY <2>1, <2>4, <3>1 DEF Passed
  <2>6. Cardinality(Kind("copy", b)) = 0 \/ Cardinality(Kind("snapshot_copy", b)) = 0
    BY <2>5, FS_EmptySet
  <2> HIDE DEF b
  <2>7. /\ Cardinality(Rest("copy", b)) - Cardinality(Rest("snapshot_copy", b)) =
             Cardinality(Alike(moment["copy"], b)) - Cardinality(Rest("snapshot", b))
        /\ Cardinality(Rest("copy", b)) = 0 \/ Cardinality(Rest("snapshot_copy", b)) = 0
    BY <2>2, <2>3, <2>6, TableNames
  <2> QED  BY <2>7 DEF b
<1> QED  BY <1>2, <1>3 DEF PairingExact

-----------------------------------------------------------------------------
(* The theorems *)

\* Every record taken from the pool is in one place, counted once, whatever the
\* threads of the program do meanwhile and although destroying and pairing free a
\* record one iteration late. What mc_duplicate_all_alloc_memblk copied before it
\* failed is in its table too, also while later commands list, copy and destroy;
\* it is not said of a command that links or pairs blocks with such a copy left.
THEOREM RecordsStayAccounted == CleanStartSpec => []RecordsAccounted
<1> QED  BY InvariantHolds, InvariantRecords, PTL

\* The walks that copy, link, pair and destroy a table stay on records of that
\* table which are in use: also where the pairing goes on from a node that
\* mc_remove_ptr_hashtable has just unlinked, and where the threads take at
\* once what mc_free_alloc_memblk gives back.
THEOREM WalksStayHome == CleanStartSpec => []WalkOnOwnRecords
<1> QED  BY InvariantHolds, InvariantWalks, PTL

\* While mc_compare_snapshot pairs blocks, and while groups are printed, the
\* list of each callstack has exactly the copies with that callstack still in
\* the table, linked in both directions: __unlink_memblk_from_callstack and
\* mc_remove_ptr_hashtable do not drift apart.
THEOREM GroupsStayInStep == CleanStartSpec => []GroupsAgree
<1> QED  BY InvariantHolds, InvariantGroups, PTL

\* A command that met no failure gives back all it took: both copies, the
\* lists of the callstacks, the file maps and the lock of the tables. The
\* comparison per callstack that finds no block left leaves its lists to an
\* early return: they are empty, since its counts are the sizes of the copies.
THEOREM NothingIsLeft == CleanStartSpec => []NothingLeft
<1> QED  BY InvariantHolds, MapsKeptHolds, EndedHolds, InvariantLeft, PTL

\* A snapshot whose creation did not fail holds exactly the blocks that were
\* in the alloc table when mc_duplicate_all_alloc_memblk took the lock,
\* whatever the threads do during the walk and whatever commands follow.
THEOREM SnapshotIsOneMoment == CleanStartSpec => []SnapshotIsMoment
<1> QED  BY InvariantHolds, MomentsHold, InvariantMoment, PTL

\* Every variable keeps to its type: so no count of the pairing and no use of
\* the file maps falls below zero, and no link leads out of the pool.
THEOREM TypeCorrect == CleanStartSpec => []TypeOK
<1> QED  BY InvariantHolds, CountedHolds, MapsKeptHolds, MomentsHold, InvariantTypes, PTL

\* What a comparison prints is the difference between the alloc table as the
\* command copied it and the snapshot: of the blocks of one size and callstack
\* as many are left as there are more, on one side only; and the totals
\* num_remainings are the numbers of blocks left. So
\* __find_snapshot_alloc_memptr_for_current_memptr misses no like block, and a
\* node freed one iteration late loses the walk no block.
THEOREM ComparisonExact == CleanStartSpec => []PairingExact
<1> QED  BY InvariantHolds, CountedHolds, PairingHolds, InvariantPairing, PTL
=============================================================================
