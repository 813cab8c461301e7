--------------------------- MODULE SessionProofs ---------------------------
(***************************************************************************)
(* What the operators of TestSession on whole sequences of records return, *)
(* for sequences of any length.                                            *)
(***************************************************************************)
EXTENDS TestSession, BasicFacts

-----------------------------------------------------------------------------
(* Sorting and filtering.                                                  *)

\* Places have different ranks, in the order of their keys.
LEMMA RanksApart ==
    ASSUME NEW S \in SUBSET Int, IsFiniteSet(S), NEW key, \A i \in S : key[i] \in Int
    PROVE  /\ \A i \in S : Cardinality(UpTo(S, key, i)) \in 1 .. Cardinality(S)
           /\ \A i, j \in S :
                (i # j /\ (key[i] < key[j] \/ (key[i] = key[j] /\ i <= j))) =>
                  Cardinality(UpTo(S, key, i)) < Cardinality(UpTo(S, key, j))
           /\ Cardinality(S) \in Nat
<1>1. ASSUME NEW i \in S
      PROVE  /\ IsFiniteSet(UpTo(S, key, i)) /\ Cardinality(UpTo(S, key, i)) \in Nat
             /\ UpTo(S, key, i) \subseteq S /\ i \in UpTo(S, key, i)
             /\ Cardinality(UpTo(S, key, i)) <= Cardinality(S)
  <2>1. UpTo(S, key, i) \subseteq S /\ i \in UpTo(S, key, i)
    BY DEF UpTo
  <2> QED BY <2>1, FS_Subset, FS_CardinalityType
<1>2. Cardinality(S) \in Nat
  BY FS_CardinalityType
<1>3. ASSUME NEW i \in S PROVE Cardinality(UpTo(S, key, i)) # 0
  BY <1>1, FS_EmptySet
<1>4. ASSUME NEW i \in S, NEW j \in S, i # j,
             key[i] < key[j] \/ (key[i] = key[j] /\ i <= j)
      PROVE  Cardinality(UpTo(S, key, i)) < Cardinality(UpTo(S, key, j))
  <2>0. i \in Int /\ j \in Int /\ key[i] \in Int /\ key[j] \in Int
    OBVIOUS
  <2>a. ASSUME NEW k \in UpTo(S, key, i) PROVE k \in UpTo(S, key, j)
    <3>1. k \in S /\ (key[k] < key[i] \/ (key[k] = key[i] /\ k <= i))
      BY DEF UpTo
    <3>2. k \in Int /\ key[k] \in Int
      BY <3>1
    <3>3. key[k] < key[j] \/ (key[k] = key[j] /\ k <= j)
      BY <1>4, <2>0, <3>1, <3>2
    <3> QED BY <3>1, <3>3 DEF UpTo
  <2>b. j \notin UpTo(S, key, i)
    BY <1>4, <2>0 DEF UpTo
  <2>1. UpTo(S, key, i) \subseteq UpTo(S, key, j) /\ j \notin UpTo(S, key, i)
    BY <2>a, <2>b
  <2>2. UpTo(S, key, i) # UpTo(S, key, j)
    BY <1>1, <2>1
  <2>3. /\ Cardinality(UpTo(S, key, i)) <= Cardinality(UpTo(S, key, j))
        /\ Cardinality(UpTo(S, key, i)) = Cardinality(UpTo(S, key, j)) =>
             UpTo(S, key, i) = UpTo(S, key, j)
    BY <1>1, <2>1, FS_Subset
  <2> QED BY <1>1, <2>2, <2>3
<1> QED BY <1>1, <1>2, <1>3, <1>4

\* Every rank is that of one place.
LEMMA RanksTaken ==
    ASSUME NEW S \in SUBSET Int, IsFiniteSet(S), NEW key, \A i \in S : key[i] \in Int,
           NEW n \in 1 .. Cardinality(S)
    PROVE  \E i \in S : Cardinality(UpTo(S, key, i)) = n
<1> DEFINE T == 1 .. Cardinality(S)
           r == [i \in S |-> Cardinality(UpTo(S, key, i))]
           R == {r[i] : i \in S}
<1>1. /\ \A i \in S : r[i] \in T
      /\ Cardinality(S) \in Nat
  BY RanksApart
<1>2. ASSUME NEW i \in S, NEW j \in S, i # j PROVE r[i] # r[j]
  <2>1. i \in Int /\ j \in Int /\ key[i] \in Int /\ key[j] \in Int
    OBVIOUS
  <2>2. \/ key[i] < key[j] \/ (key[i] = key[j] /\ i <= j)
        \/ key[j] < key[i] \/ (key[j] = key[i] /\ j <= i)
    BY <2>1
  <2>3. r[i] \in Int /\ r[j] \in Int /\ (r[i] < r[j] \/ r[j] < r[i])
    BY <1>1, <1>2, <2>2, RanksApart
  <2> QED BY <2>3
<1> HIDE DEF r
<1>3. R \subseteq T
  BY <1>1
<1>4. IsFiniteSet(T) /\ Cardinality(T) = Cardinality(S)
  BY <1>1, FS_Interval
<1>5. r \in Bijection(S, R)
  <2>1. r \in [S -> R]
    BY DEF r
  <2> QED BY <1>2, <2>1 DEF Bijection, Injection, Surjection, IsInjective
<1>6. Cardinality(R) = Cardinality(S) /\ IsFiniteSet(R)
  <2> HIDE DEF R
  <2> QED BY <1>5, FS_Bijection DEF ExistsBijection
<1>7. R = T
  BY <1>3, <1>4, <1>6, FS_Subset
<1>8. PICK i \in S : r[i] = n
  BY <1>7
<1> QED BY <1>8 DEF r

\* Arranged takes the places in the order of their keys, each of them once, and the
\* same of every sequence.
LEMMA ArrangedProperties ==
    ASSUME NEW S \in SUBSET Int, IsFiniteSet(S), NEW key, \A i \in S : key[i] \in Int
    PROVE  \E p \in [1 .. Cardinality(S) -> S] :
             /\ p \in Bijection(1 .. Cardinality(S), S)
             /\ \A seq : Arranged(seq, S, key) =
                            [n \in 1 .. Cardinality(S) |-> seq[p[n]]]
             /\ \A m, n \in 1 .. Cardinality(S) : m < n =>
                  \/ key[p[m]] < key[p[n]]
                  \/ key[p[m]] = key[p[n]] /\ p[m] < p[n]
<1> DEFINE T == 1 .. Cardinality(S)
           rank(i) == Cardinality(UpTo(S, key, i))
           p == [n \in T |-> CHOOSE i \in S : rank(i) = n]
<1>1. ASSUME NEW n \in T PROVE p[n] \in S /\ rank(p[n]) = n
  <2>1. \E i \in S : rank(i) = n
    BY RanksTaken
  <2> HIDE DEF rank
  <2> QED BY <2>1
<1>2. ASSUME NEW seq PROVE Arranged(seq, S, key) = [n \in T |-> seq[p[n]]]
  BY DEF Arranged
<1>3. ASSUME NEW i \in S
      PROVE  rank(i) \in T /\ p[rank(i)] = i
  <2>1. rank(i) \in T /\ Cardinality(S) \in Nat
    BY RanksApart
  <2> DEFINE j == p[rank(i)]
  <2>2. j \in S /\ rank(j) = rank(i)
    BY <1>1, <2>1
  <2> HIDE DEF j, p
  <2>3. SUFFICES ASSUME i # j PROVE FALSE
    BY <2>1 DEF j
  <2>4. \/ key[i] < key[j] \/ (key[i] = key[j] /\ i <= j)
        \/ key[j] < key[i] \/ (key[j] = key[i] /\ j <= i)
    BY <2>2
  <2>5. rank(i) < rank(j) \/ rank(j) < rank(i)
    BY <2>2, <2>3, <2>4, RanksApart
  <2> QED BY <2>1, <2>2, <2>5
<1>4. p \in [T -> S]
  BY <1>1
<1> HIDE DEF p
<1>5. p \in Bijection(T, S)
  <2>1. \A m, n \in T : p[m] = p[n] => m = n
    BY <1>1
  <2>2. \A i \in S : \E n \in T : p[n] = i
    BY <1>3
  <2> QED BY <1>4, <2>1, <2>2 DEF Bijection, Injection, Surjection, IsInjective
<1>6. ASSUME NEW m \in T, NEW n \in T, m < n
      PROVE  \/ key[p[m]] < key[p[n]]
             \/ key[p[m]] = key[p[n]] /\ p[m] < p[n]
  <2> DEFINE i == p[m]
             j == p[n]
  <2>1. i \in S /\ j \in S /\ rank(i) = m /\ rank(j) = n
    BY <1>1
  <2> HIDE DEF i, j
  <2>2. i # j /\ i \in Int /\ j \in Int /\ key[i] \in Int /\ key[j] \in Int
    BY <1>6, <2>1
  <2>3. ~ (key[j] < key[i] \/ (key[j] = key[i] /\ j <= i))
    <3>1. ~ (rank(j) < rank(i))
      BY <1>6, <2>1
    <3> QED BY <2>1, <2>2, <3>1, RanksApart
  <2>4. key[i] < key[j] \/ (key[i] = key[j] /\ i < j)
    BY <2>2, <2>3
  <2> QED BY <2>4 DEF i, j
<1> QED BY <1>2, <1>4, <1>5, <1>6

\* Records that are numbered in the order of sending are in order.
LEMMA OrderedRecords ==
    ASSUME NEW S, NEW x \in Seq(S),
           \A k \in 1 .. Len(x) : x[k].sender_seq = k - 1
    PROVE  Ordered(x) = x
<1> DEFINE n == Len(x)
           D == 1 .. n
           key == [k \in D |-> x[k].sender_seq]
<1>1. n \in Nat /\ DOMAIN x = D /\ x = [k \in D |-> x[k]]
  BY LenProperties
<1>2. Cardinality(D) = n
  <2>1. 1 \in Int /\ n \in Int /\ (1 > n => n = 0)
    BY <1>1
  <2> HIDE DEF n
  <2> QED BY <2>1, FS_Interval
<1>3. ASSUME NEW i \in D PROVE Cardinality(UpTo(D, key, i)) = i
  <2>1. UpTo(D, key, i) = 1 .. i
    BY <1>1 DEF UpTo
  <2> QED BY <1>1, <2>1, FS_Interval
<1>4. Ordered(x) = [m \in 1 .. Cardinality(D) |->
                      x[CHOOSE i \in D : Cardinality(UpTo(D, key, i)) = m]]
  BY <1>1 DEF Ordered, Arranged
<1>5. ASSUME NEW m \in D PROVE (CHOOSE i \in D : Cardinality(UpTo(D, key, i)) = m) = m
  BY <1>3
<1>6. Ordered(x) = [m \in D |-> x[m]]
  BY <1>2, <1>4, <1>5
<1> QED BY <1>1, <1>6

-----------------------------------------------------------------------------
(* The loop over the records.                                              *)

LossStart == [forward |-> 0, last |-> None]

\* The loop does what its definition says.
LEMMA LossLoopUnfolds ==
    ASSUME NEW x, Len(x) \in Nat
    PROVE  /\ LossLoop(x)[0] = LossStart
           /\ Len(x) >= 1 => LossLoop(x)[1] = LossStart
           /\ \A k \in 2 .. Len(x) :
                LossLoop(x)[k] = CountForward(LossLoop(x)[k - 1], x[k])
<1> DEFINE Is(f, n) ==
             f = [k \in 0 .. n |-> IF k <= 1 THEN LossStart
                                   ELSE CountForward(f[k - 1], x[k])]
           T == {n \in Nat : \E f : Is(f, n)}
<1>1. 0 \in T
  <2>1. Is([k \in 0 .. 0 |-> LossStart], 0)
    OBVIOUS
  <2> QED BY <2>1
<1>2. ASSUME NEW n \in T PROVE n + 1 \in T
  <2>1. n \in Nat
    OBVIOUS
  <2>2. PICK f : Is(f, n)
    OBVIOUS
  <2> DEFINE g == [k \in 0 .. n + 1 |->
                     IF k <= 1 THEN LossStart ELSE CountForward(f[k - 1], x[k])]
  <2>3. \A k \in 0 .. n : g[k] = f[k]
    BY <2>1, <2>2
  <2>4. \A k \in 0 .. n + 1 : k <= 1 \/ k - 1 \in 0 .. n
    BY <2>1
  <2>5. Is(g, n + 1)
    BY <2>1, <2>3, <2>4
  <2> HIDE DEF Is, g
  <2> QED BY <2>1, <2>5
<1>3. T = Nat
  <2> HIDE DEF T
  <2>1. T \in SUBSET Nat
    BY DEF T
  <2> QED BY <1>1, <1>2, <2>1, Induction
<1>4. \E f : Is(f, Len(x))
  BY <1>3
<1>5. LossLoop(x) = CHOOSE f : Is(f, Len(x))
  BY DEF LossLoop, LossStart
<1> HIDE DEF Is
<1>6. Is(LossLoop(x), Len(x))
  BY <1>4, <1>5
<1> DEFINE f == LossLoop(x)
<1>7. f = [k \in 0 .. Len(x) |-> IF k <= 1 THEN LossStart
                                 ELSE CountForward(f[k - 1], x[k])]
  BY <1>6 DEF Is
<1> HIDE DEF f
<1>8. \A k \in 0 .. Len(x) :
        f[k] = IF k <= 1 THEN LossStart ELSE CountForward(f[k - 1], x[k])
  BY <1>7
<1> QED BY <1>8 DEF f
-----------------------------------------------------------------------------
(* The loss on the way out.                                                *)

\* The places up to k whose packet is not in a set.
Missing(A, k) == {j \in 1 .. k : j - 1 \notin A}

\* The packets after the one at place m and up to the one at place k, that are in
\* the set.
Between(A, m, k) == {a \in A : m - 1 < a /\ a <= k - 1}

\* There are finitely many missing places, no fewer with more places.
LEMMA MissingType ==
    ASSUME NEW A, NEW k \in Nat
    PROVE  /\ IsFiniteSet(Missing(A, k)) /\ Cardinality(Missing(A, k)) \in Nat
           /\ \A m \in 1 .. k : Cardinality(Missing(A, m)) <= Cardinality(Missing(A, k))
<1>1. IsFiniteSet(Missing(A, k))
  <2>1. IsFiniteSet(1 .. k)
    BY FS_Interval
  <2> QED BY <2>1, FS_Subset DEF Missing
<1>2. ASSUME NEW m \in 1 .. k PROVE Missing(A, m) \subseteq Missing(A, k)
  BY DEF Missing
<1> QED BY <1>1, <1>2, FS_Subset, FS_CardinalityType

\* The places between two are those of a packet in the set and the missing ones.
LEMMA MissingBetween ==
    ASSUME NEW A \in SUBSET Nat, NEW k \in Nat, NEW m \in 1 .. k
    PROVE  /\ Cardinality(Missing(A, k)) =
                Cardinality(Missing(A, m)) + (k - m) - Cardinality(Between(A, m, k))
           /\ Cardinality(Between(A, m, k)) \in Nat
<1> DEFINE G == m + 1 .. k
           H == {j \in G : j - 1 \in A}
           L == {j \in G : j - 1 \notin A}
           B == Between(A, m, k)
           f == [j \in H |-> j - 1]
<1>1. IsFiniteSet(G) /\ Cardinality(G) = k - m
  <2>1. m + 1 \in Int /\ k \in Int /\ (m + 1 > k => k - m = 0)
    OBVIOUS
  <2> QED BY <2>1, FS_Interval
<1>2. H \subseteq G /\ L \subseteq G /\ H \cap L = {} /\ H \cup L = G
  OBVIOUS
<1>3. /\ IsFiniteSet(H) /\ IsFiniteSet(L)
      /\ Cardinality(H) \in Nat /\ Cardinality(L) \in Nat
  <2> HIDE DEF G, H, L
  <2> QED BY <1>1, <1>2, FS_Subset, FS_CardinalityType
<1>4. Cardinality(G) = Cardinality(H) + Cardinality(L)
  <2> HIDE DEF G, H, L
  <2> QED BY <1>2, <1>3, DisjointUnion
<1>5. Cardinality(B) = Cardinality(H)
  <2>1. f \in Injection(H, B)
    BY DEF Injection, IsInjective, Between
  <2>2. ASSUME NEW a \in B PROVE \E j \in H : f[j] = a
    <3>1. a \in Nat /\ a \in A /\ a + 1 \in G
      BY DEF Between
    <3>2. a + 1 \in H /\ (a + 1) - 1 = a
      BY <3>1
    <3> QED BY <3>2
  <2>3. f \in Surjection(H, B)
    BY <2>1, <2>2 DEF Surjection, Injection
  <2> HIDE DEF f, H, B
  <2>4. ExistsBijection(H, B)
    BY <2>1, <2>3 DEF ExistsBijection, Bijection
  <2> QED BY <1>3, <2>4, FS_Bijection
<1>6. Missing(A, k) = Missing(A, m) \cup L /\ Missing(A, m) \cap L = {}
  BY DEF Missing
<1>7. /\ IsFiniteSet(Missing(A, m)) /\ Cardinality(Missing(A, m)) \in Nat
  BY MissingType
<1>8. Cardinality(Missing(A, k)) = Cardinality(Missing(A, m)) + Cardinality(L)
  <2> HIDE DEF L
  <2> QED BY <1>3, <1>6, <1>7, DisjointUnion
<1> HIDE DEF G, H, L, B
<1>9. Cardinality(Between(A, m, k)) = Cardinality(H)
  BY <1>5 DEF B
<1> QED BY <1>1, <1>3, <1>4, <1>7, <1>8, <1>9

\* The loop never counts more than the packets missing from a set that holds the
\* answered ones, if the reflector's numbers of two answered packets are as far
\* apart as there are packets of the set between them.
LEMMA ForwardBound ==
    ASSUME NEW x, NEW n \in Nat, Len(x) = n, NEW A \in SUBSET Nat,
           \A k \in 1 .. n : x[k].sender_seq = k - 1,
           \A k \in 1 .. n : ~Lost(x[k]) => x[k].reflector_seq \in Nat,
           \A j, k \in 1 .. n : (j < k /\ ~Lost(x[j]) /\ ~Lost(x[k])) =>
              Cardinality(Between(A, j, k)) <= x[k].reflector_seq - x[j].reflector_seq
    PROVE  /\ LossLoop(x)[n].forward \in Nat
           /\ LossLoop(x)[n].forward <= Cardinality(Missing(A, n))
<1> DEFINE f == LossLoop(x)
           Bound(k) == /\ f[k].forward \in Nat
                       /\ \/ f[k] = LossStart
                          \/ \E m \in 1 .. k :
                               /\ ~Lost(x[m]) /\ f[k].last = x[m]
                               /\ f[k].forward <= Cardinality(Missing(A, m))
           T == {k \in Nat : k <= n => Bound(k)}
<1>1. /\ f[0] = LossStart
      /\ n >= 1 => f[1] = LossStart
      /\ \A k \in 2 .. n : f[k] = CountForward(f[k - 1], x[k])
  BY LossLoopUnfolds
<1> HIDE DEF f
<1>2. LossStart.forward = 0
  BY DEF LossStart
<1>3. 0 \in T
  BY <1>1, <1>2
<1>4. ASSUME NEW i \in T PROVE i + 1 \in T
  <2>0. i \in Nat
    OBVIOUS
  <2> SUFFICES ASSUME i + 1 <= n PROVE Bound(i + 1)
    BY <2>0
  <2>1. Bound(i)
    BY <2>0
  <2>2. CASE i = 0
    BY <1>1, <1>2, <2>0, <2>2
  <2>3. CASE i # 0
    <3> DEFINE k == i + 1
               r == x[k]
    <3>0. k \in 2 .. n /\ k \in 1 .. n /\ k \in Nat /\ k - 1 = i /\ i \in 1 .. k
      BY <2>0, <2>3
    <3>1. f[k] = CountForward(f[i], r)
      BY <1>1, <3>0
    <3>2. CASE Lost(r)
      <4>1. f[k] = f[i]
        BY <3>1, <3>2 DEF CountForward
      <4> QED BY <2>0, <2>1, <4>1
    <3>3. CASE ~Lost(r) /\ f[i].last = None
      <4>1. Max({0, 0}) = 0
        BY MaxOfTwo
      <4>2. /\ f[k].last = r
            /\ f[k].forward = f[i].forward
        BY <2>1, <3>1, <3>3, <4>1 DEF CountForward
      <4>3. f[i].forward <= Cardinality(Missing(A, k))
        <5>1. Cardinality(Missing(A, k)) \in Nat
          BY <3>0, MissingType
        <5>2. CASE f[i] = LossStart
          BY <1>2, <5>1, <5>2
        <5>3. CASE f[i] # LossStart
          <6>1. PICK m \in 1 .. i : f[i].forward <= Cardinality(Missing(A, m))
            BY <2>1, <5>3
          <6>2. m \in 1 .. k /\ m \in Nat
            BY <2>0, <6>1
          <6>3. /\ Cardinality(Missing(A, m)) \in Nat
                /\ Cardinality(Missing(A, m)) <= Cardinality(Missing(A, k))
            BY <3>0, <6>2, MissingType
          <6> QED BY <2>1, <5>1, <6>1, <6>3
        <5> QED BY <5>2, <5>3
      <4>4. k \in 1 .. k
        BY <3>0
      <4> HIDE DEF k
      <4>5. Bound(k)
        BY <2>1, <3>3, <4>2, <4>3, <4>4
      <4> QED BY <4>5 DEF k
    <3>4. CASE ~Lost(r) /\ f[i].last # None
      <4>1. f[i] # LossStart
        BY <3>4 DEF LossStart
      <4>2. PICK m \in 1 .. i : /\ ~Lost(x[m]) /\ f[i].last = x[m]
                                /\ f[i].forward <= Cardinality(Missing(A, m))
        BY <2>1, <4>1
      <4>3. m \in 1 .. k /\ m \in 1 .. n /\ m < k /\ m \in Nat
        BY <2>0, <3>0
      <4> DEFINE c == Cardinality(Between(A, m, k))
                 u == Cardinality(Missing(A, m))
                 v == Cardinality(Missing(A, k))
                 d == (r.sender_seq - x[m].sender_seq)
                        - (r.reflector_seq - x[m].reflector_seq)
      <4>4. v = u + (k - m) - c /\ c \in Nat
        BY <3>0, <4>3, MissingBetween
      <4>5. u \in Nat /\ v \in Nat
        BY <3>0, <4>3, MissingType
      <4>6. r.sender_seq = k - 1 /\ x[m].sender_seq = m - 1
        BY <3>0, <4>3
      <4>7. /\ r.reflector_seq \in Nat /\ x[m].reflector_seq \in Nat
            /\ c <= r.reflector_seq - x[m].reflector_seq
        BY <3>0, <3>4, <4>2, <4>3
      <4>8. d \in Int /\ d <= v - u /\ u <= v
        <5>1. u <= v
          BY <3>0, <4>3, MissingType
        <5> HIDE DEF k, c, u, v
        <5> QED BY <3>0, <4>3, <4>4, <4>5, <4>6, <4>7, <5>1
      <4>9. Max({d, 0}) = IF d >= 0 THEN d ELSE 0
        <5> HIDE DEF d
        <5> QED BY <4>8, MaxOfTwo
      <4>10. f[k].last = r /\ f[k].forward = f[i].forward + Max({d, 0})
        BY <3>1, <3>4, <4>2 DEF CountForward
      <4>11. f[k].forward \in Nat /\ f[k].forward <= v
        <5>1. f[i].forward \in Nat /\ f[i].forward <= u
          BY <2>1, <4>2
        <5> HIDE DEF d, u, v
        <5>2. Max({d, 0}) \in Nat /\ Max({d, 0}) <= v - u
          BY <4>5, <4>8, <4>9
        <5> DEFINE new == f[k].forward
                   old == f[i].forward
                   add == Max({d, 0})
        <5>3. new = old + add
          BY <4>10
        <5>4. /\ old \in Nat /\ old <= u /\ add \in Nat /\ add <= v - u
              /\ u \in Nat /\ v \in Nat
          BY <4>5, <5>1, <5>2
        <5> HIDE DEF new, old, add, Bound, T
        <5>5. new \in Nat /\ new <= v
          BY <5>3, <5>4
        <5> QED BY <5>5 DEF new
      <4>12. k \in 1 .. k
        BY <3>0
      <4> HIDE DEF k
      <4>13. Bound(k)
        BY <3>4, <4>10, <4>11, <4>12
      <4> QED BY <4>13 DEF k
    <3> QED BY <3>2, <3>3, <3>4
  <2> QED BY <2>2, <2>3
<1>5. T = Nat
  <2> HIDE DEF T
  <2>1. T \in SUBSET Nat
    BY DEF T
  <2> QED BY <1>3, <1>4, <2>1, Induction
<1>6. Bound(n)
  BY <1>5
<1>7. Cardinality(Missing(A, n)) \in Nat
  BY MissingType
<1>8. ASSUME NEW m \in 1 .. n PROVE Cardinality(Missing(A, m)) \in Nat
                             /\ Cardinality(Missing(A, m)) <= Cardinality(Missing(A, n))
  BY MissingType
<1> QED BY <1>2, <1>6, <1>7, <1>8 DEF f

\* The loop counts up, whatever the reflector's numbers are.
LEMMA ForwardType ==
    ASSUME NEW x, NEW n \in Nat, Len(x) = n,
           \A k \in 1 .. n : x[k].sender_seq \in Nat,
           \A k \in 1 .. n : ~Lost(x[k]) => x[k].reflector_seq \in Nat
    PROVE  LossLoop(x)[n].forward \in Nat
<1> DEFINE f == LossLoop(x)
           Typed(k) == /\ f[k].forward \in Nat
                       /\ \/ f[k].last = None
                          \/ \E m \in 1 .. n : ~Lost(x[m]) /\ f[k].last = x[m]
           T == {k \in Nat : k <= n => Typed(k)}
<1>1. /\ f[0] = LossStart
      /\ n >= 1 => f[1] = LossStart
      /\ \A k \in 2 .. n : f[k] = CountForward(f[k - 1], x[k])
  BY LossLoopUnfolds
<1> HIDE DEF f
<1>2. LossStart.forward = 0 /\ LossStart.last = None
  BY DEF LossStart
<1>3. 0 \in T
  BY <1>1, <1>2
<1>4. ASSUME NEW i \in T PROVE i + 1 \in T
  <2>0. i \in Nat
    OBVIOUS
  <2> SUFFICES ASSUME i + 1 <= n PROVE Typed(i + 1)
    BY <2>0
  <2>1. Typed(i)
    BY <2>0
  <2>2. CASE i = 0
    BY <1>1, <1>2, <2>0, <2>2
  <2>3. CASE i # 0
    <3> DEFINE k == i + 1
               r == x[k]
    <3>0. k \in 2 .. n /\ k \in 1 .. n /\ k - 1 = i
      BY <2>0, <2>3
    <3>1. f[k] = CountForward(f[i], r)
      BY <1>1, <3>0
    <3>2. CASE Lost(r)
      <4>1. f[k] = f[i]
        BY <3>1, <3>2 DEF CountForward
      <4> QED BY <2>1, <4>1
    <3>3. CASE ~Lost(r)
      <4> DEFINE d == IF f[i].last = None THEN 0
                      ELSE (r.sender_seq - f[i].last.sender_seq)
                             - (r.reflector_seq - f[i].last.reflector_seq)
      <4>1. d \in Int
        <5>1. r.sender_seq \in Nat /\ r.reflector_seq \in Nat
          BY <3>0, <3>3
        <5>2. CASE f[i].last # None
          <6>1. PICK m \in 1 .. n : ~Lost(x[m]) /\ f[i].last = x[m]
            BY <2>1, <5>2
          <6>2. x[m].sender_seq \in Nat /\ x[m].reflector_seq \in Nat
            BY <6>1
          <6> QED BY <5>1, <6>1, <6>2
        <5> QED BY <5>2
      <4>2. f[k].last = r /\ f[k].forward = f[i].forward + Max({d, 0})
        BY <3>1, <3>3 DEF CountForward
      <4> HIDE DEF d
      <4>3. Max({d, 0}) \in Nat
        BY <4>1, MaxOfTwo
      <4>4. f[k].forward \in Nat
        BY <2>1, <4>2, <4>3
      <4> QED BY <3>0, <3>3, <4>2, <4>4
    <3> QED BY <3>2, <3>3
  <2> QED BY <2>2, <2>3
<1>5. T = Nat
  <2> HIDE DEF T
  <2>1. T \in SUBSET Nat
    BY DEF T
  <2> QED BY <1>3, <1>4, <2>1, Induction
<1>6. Typed(n)
  BY <1>5
<1> QED BY <1>6 DEF f
=============================================================================
