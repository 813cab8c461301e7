----------------------------- MODULE BasicFacts -----------------------------
(***************************************************************************)
(* Facts about the operators on numbers and sequences that the models use, *)
(* for the proofs.                                                         *)
(***************************************************************************)
EXTENDS Integers, SequencesExt, SequenceTheorems, FiniteSetTheorems, TLAPS

\* A quotient is the number that the division leaves between two multiples.
LEMMA Quotient ==
    ASSUME NEW a \in Int, NEW b \in Nat \ {0}, NEW q \in Int,
           b * q <= a, a < b * q + b
    PROVE  a \div b = q
  OBVIOUS

\* The multiples of the divisor between which a number lies.
LEMMA QuotientBounds ==
    ASSUME NEW a \in Nat, NEW b \in Nat \ {0}
    PROVE  /\ a \div b \in Nat
           /\ b * (a \div b) <= a /\ a < b * (a \div b) + b
  OBVIOUS

\* The remainder does not see a multiple of the divisor.
LEMMA Remainder ==
    ASSUME NEW a \in Int, NEW b \in Nat \ {0}, NEW q \in Int, NEW r \in 0 .. b - 1,
           a = b * q + r
    PROVE  a % b = r
  OBVIOUS

\* Quotient and remainder make up the number again.
LEMMA Division ==
    ASSUME NEW a \in Int, NEW b \in Nat \ {0}
    PROVE  /\ a \div b \in Int /\ a % b \in 0 .. b - 1
           /\ a = b * (a \div b) + (a % b)
  OBVIOUS

\* The solver needs to be told that products stay natural numbers.
LEMMA Product == ASSUME NEW a \in Nat, NEW b \in Nat PROVE a * b \in Nat
  OBVIOUS

\* A number that is counted on modulo w.
LEMMA SuccessorRemainder ==
    ASSUME NEW n \in Nat, NEW w \in Nat \ {0}
    PROVE  ((n % w) + 1) % w = (n + 1) % w
<1> DEFINE p == n \div w
           q == (n + 1) \div w
           x == n % w
           y == (n + 1) % w
<1>1. p \in Int /\ x \in 0 .. w - 1 /\ n = w * p + x
  BY Division
<1>2. q \in Int /\ y \in 0 .. w - 1 /\ n + 1 = w * q + y
  BY Division
<1> HIDE DEF p, q, x, y
<1>3. w * (q - p) = w * q - w * p /\ w * p \in Int /\ w * q \in Int /\ q - p \in Int
  BY <1>1, <1>2
<1>4. x + 1 = w * (q - p) + y
  BY <1>1, <1>2, <1>3
<1>5. (x + 1) % w = y
  BY <1>1, <1>2, <1>3, <1>4, Remainder
<1> QED BY <1>5 DEF x, y

\* The smaller of two numbers.
LEMMA MinOfTwo ==
    ASSUME NEW a \in Int, NEW b \in Int
    PROVE  Min({a, b}) = IF a <= b THEN a ELSE b
  BY DEF Min

\* The larger of two numbers.
LEMMA MaxOfTwo ==
    ASSUME NEW a \in Int, NEW b \in Int
    PROVE  Max({a, b}) = IF a >= b THEN a ELSE b
  BY DEF Max

\* Induction on natural numbers, for a set in place of a predicate: the least
\* number outside the set has a predecessor inside.
LEMMA Induction ==
    ASSUME NEW T \in SUBSET Nat, 0 \in T, \A n \in T : n + 1 \in T
    PROVE  T = Nat
<1> DEFINE R == {ss \in Nat \X Nat : ss[1] < ss[2]}
           D == Nat \ T
<1> SUFFICES ASSUME D # {} PROVE FALSE
  OBVIOUS
<1>1. IsWellFoundedOn(R, Nat)
  BY NatLessThanWellFounded DEF OpToRel
<1>2. D \subseteq Nat
  OBVIOUS
<1>3. \A a, b \in Nat : a < b => <<a, b>> \in R
  OBVIOUS
<1> HIDE DEF R, D
<1>4. PICK x \in D : \A y \in D : ~ (<<y, x>> \in R)
  BY <1>1, <1>2, WFMin
<1>5. x \in Nat /\ x \notin T /\ x # 0
  BY DEF D
<1>6. x - 1 \in Nat /\ x - 1 < x /\ (x - 1) + 1 = x
  BY <1>5
<1>7. x - 1 \notin T
  BY <1>5, <1>6
<1> QED BY <1>3, <1>4, <1>5, <1>6, <1>7 DEF D

\* A set of natural numbers that is not empty has a minimum.
LEMMA MinProperties ==
    ASSUME NEW S \in SUBSET Nat, S # {}
    PROVE  Min(S) \in S /\ \A x \in S : Min(S) <= x
<1> DEFINE T == {n \in Nat : \A x \in S : n <= x}
<1>1. PICK m \in T : m + 1 \notin T
  <2>1. 0 \in T
    OBVIOUS
  <2>2. PICK x : x \in S
    OBVIOUS
  <2>3. x + 1 \in Nat /\ x + 1 \notin T
    BY <2>2
  <2>4. T \in SUBSET Nat
    OBVIOUS
  <2> HIDE DEF T
  <2>5. SUFFICES ASSUME \A n \in T : n + 1 \in T PROVE FALSE
    OBVIOUS
  <2> QED BY <2>1, <2>3, <2>4, <2>5, Induction
<1>2. PICK y \in S : ~ (m + 1 <= y)
  BY <1>1
<1>3. y = m /\ \A x \in S : m <= x
  BY <1>1, <1>2
<1> QED BY <1>3 DEF Min

\* RemoveAt takes one element out and closes the gap.
LEMMA RemoveAtProperties ==
    ASSUME NEW S, NEW q \in Seq(S), NEW i \in 1 .. Len(q)
    PROVE  /\ RemoveAt(q, i) \in Seq(S)
           /\ Len(RemoveAt(q, i)) = Len(q) - 1
           /\ \A j \in 1 .. Len(q) - 1 :
                RemoveAt(q, i)[j] = IF j < i THEN q[j] ELSE q[j + 1]
<1> DEFINE a == SubSeq(q, 1, i - 1)
           b == SubSeq(q, i + 1, Len(q))
<1>1. i \in 1 .. Len(q) /\ Len(q) \in Nat
  BY LenProperties
<1>2. a \in Seq(S) /\ Len(a) = i - 1 /\ \A j \in 1 .. i - 1 : a[j] = q[j]
  BY <1>1, SubSeqProperties, ElementOfSeq
<1>3. b \in Seq(S) /\ Len(b) = Len(q) - i /\ \A j \in 1 .. Len(q) - i : b[j] = q[i + j]
  BY <1>1, SubSeqProperties, ElementOfSeq
<1> HIDE DEF a, b
<1>4. /\ a \o b \in Seq(S) /\ Len(a \o b) = Len(a) + Len(b)
      /\ \A j \in 1 .. Len(a) + Len(b) :
           (a \o b)[j] = IF j <= Len(a) THEN a[j] ELSE b[j - Len(a)]
  BY <1>2, <1>3, ConcatProperties
<1>5. RemoveAt(q, i) = a \o b
  BY DEF RemoveAt, a, b
<1>6. Len(a) + Len(b) = Len(q) - 1
  BY <1>1, <1>2, <1>3
<1>7. ASSUME NEW j \in 1 .. Len(q) - 1
      PROVE  (a \o b)[j] = IF j < i THEN q[j] ELSE q[j + 1]
  <2>1. CASE j < i
    BY <1>1, <1>2, <1>4, <1>6, <2>1
  <2>2. CASE ~ (j < i)
    <3>1. (a \o b)[j] = b[j - (i - 1)]
      BY <1>1, <1>2, <1>4, <1>6, <2>2
    <3>2. j - (i - 1) \in 1 .. Len(q) - i /\ i + (j - (i - 1)) = j + 1
      BY <1>1, <2>2
    <3>3. b[j - (i - 1)] = q[i + (j - (i - 1))]
      BY <1>3, <3>2
    <3> QED BY <1>1, <2>2, <3>1, <3>2, <3>3
  <2> QED BY <2>1, <2>2
<1> QED
  BY <1>4, <1>5, <1>6, <1>7

\* InsertAt puts one element in before the others.
LEMMA InsertAtProperties ==
    ASSUME NEW S, NEW q \in Seq(S), NEW i \in 1 .. Len(q), NEW e \in S
    PROVE  /\ InsertAt(q, i, e) \in Seq(S)
           /\ Len(InsertAt(q, i, e)) = Len(q) + 1
           /\ \A j \in 1 .. i - 1 : InsertAt(q, i, e)[j] = q[j]
           /\ InsertAt(q, i, e)[i] = e
           /\ \A j \in i + 1 .. Len(q) + 1 : InsertAt(q, i, e)[j] = q[j - 1]
<1> DEFINE a == SubSeq(q, 1, i - 1)
           b == SubSeq(q, i, Len(q))
           m == a \o <<e>>
<1>1. i \in 1 .. Len(q) /\ Len(q) \in Nat
  BY LenProperties
<1>2. a \in Seq(S) /\ Len(a) = i - 1 /\ \A j \in 1 .. i - 1 : a[j] = q[j]
  BY <1>1, SubSeqProperties, ElementOfSeq
<1>3. /\ b \in Seq(S) /\ Len(b) = Len(q) - i + 1
      /\ \A j \in 1 .. Len(q) - i + 1 : b[j] = q[i + j - 1]
  BY <1>1, SubSeqProperties, ElementOfSeq
<1>4. <<e>> \in Seq(S) /\ Len(<<e>>) = 1 /\ <<e>>[1] = e
  OBVIOUS
<1> HIDE DEF a, b
<1>5. /\ m \in Seq(S) /\ Len(m) = i
      /\ \A j \in 1 .. i : m[j] = IF j < i THEN q[j] ELSE e
  BY <1>1, <1>2, <1>4, ConcatProperties
<1> HIDE DEF m
<1>6. /\ m \o b \in Seq(S) /\ Len(m \o b) = Len(q) + 1
      /\ \A j \in 1 .. Len(q) + 1 :
           (m \o b)[j] = IF j <= i THEN m[j] ELSE b[j - i]
  <2>1. /\ m \o b \in Seq(S) /\ Len(m \o b) = Len(m) + Len(b)
        /\ \A j \in 1 .. Len(m) + Len(b) :
             (m \o b)[j] = IF j <= Len(m) THEN m[j] ELSE b[j - Len(m)]
    BY <1>3, <1>5, ConcatProperties
  <2>2. Len(m) = i /\ Len(m) + Len(b) = Len(q) + 1
    BY <1>1, <1>3, <1>5
  <2> QED BY <2>1, <2>2
<1>7. InsertAt(q, i, e) = m \o b
  BY DEF InsertAt, a, b, m
<1>8. ASSUME NEW j \in 1 .. Len(q) + 1
      PROVE  (m \o b)[j] = IF j < i THEN q[j] ELSE IF j = i THEN e ELSE q[j - 1]
  <2>1. CASE j <= i
    BY <1>1, <1>5, <1>6, <2>1
  <2>2. CASE ~ (j <= i)
    <3>1. /\ j - i \in 1 .. Len(q) - i + 1 /\ i + (j - i) - 1 = j - 1
          /\ ~ (j < i) /\ j # i
      BY <1>1, <2>2
    <3>2. (m \o b)[j] = b[j - i]
      BY <1>6, <2>2
    <3>3. b[j - i] = q[i + (j - i) - 1]
      BY <1>3, <3>1
    <3> QED BY <3>1, <3>2, <3>3
  <2> QED BY <2>1, <2>2
<1>9. 1 .. i - 1 \subseteq 1 .. Len(q) + 1 /\ i + 1 .. Len(q) + 1 \subseteq 1 .. Len(q) + 1
  BY <1>1
<1> QED
  BY <1>1, <1>6, <1>7, <1>8, <1>9

\* What is left after RemoveAt was there before.
LEMMA RemovedElements ==
    ASSUME NEW S, NEW q \in Seq(S), NEW i \in 1 .. Len(q)
    PROVE  \A k \in 1 .. Len(RemoveAt(q, i)) :
             \E j \in 1 .. Len(q) : RemoveAt(q, i)[k] = q[j]
<1> DEFINE r == RemoveAt(q, i)
<1>1. /\ Len(r) = Len(q) - 1 /\ Len(q) \in Nat
      /\ \A j \in 1 .. Len(q) - 1 : r[j] = IF j < i THEN q[j] ELSE q[j + 1]
  BY RemoveAtProperties, LenProperties
<1> HIDE DEF r
<1>2. ASSUME NEW k \in 1 .. Len(r) PROVE \E j \in 1 .. Len(q) : r[k] = q[j]
  <2>1. CASE k < i
    BY <1>1, <2>1
  <2>2. CASE ~ (k < i)
    <3>1. k + 1 \in 1 .. Len(q) /\ r[k] = q[k + 1]
      BY <1>1, <2>2
    <3> QED BY <3>1
  <2> QED BY <2>1, <2>2
<1> QED BY <1>2 DEF r

\* A sequence in which one element is there once more has no other elements.
LEMMA CopyProperties ==
    ASSUME NEW S, NEW q \in Seq(S), NEW i \in 1 .. Len(q)
    PROVE  LET r == InsertAt(q, i, q[i]) IN
           /\ r \in Seq(S) /\ Len(r) = Len(q) + 1
           /\ \A k \in 1 .. Len(r) : \E j \in 1 .. Len(q) : r[k] = q[j]
<1> DEFINE e == q[i]
           r == InsertAt(q, i, e)
<1>1. e \in S /\ Len(q) \in Nat
  BY ElementOfSeq, LenProperties
<1> HIDE DEF e
<1>2. /\ r \in Seq(S) /\ Len(r) = Len(q) + 1
      /\ \A j \in 1 .. i - 1 : r[j] = q[j]
      /\ r[i] = e
      /\ \A j \in i + 1 .. Len(q) + 1 : r[j] = q[j - 1]
  BY <1>1, InsertAtProperties
<1> HIDE DEF r
<1>3. ASSUME NEW k \in 1 .. Len(r) PROVE \E j \in 1 .. Len(q) : r[k] = q[j]
  <2>1. CASE k \in 1 .. i - 1
    BY <1>1, <1>2, <2>1
  <2>2. CASE k = i
    BY <1>1, <1>2, <2>2 DEF e
  <2>3. CASE k \in i + 1 .. Len(q) + 1
    <3>1. k - 1 \in 1 .. Len(q) /\ r[k] = q[k - 1]
      BY <1>1, <1>2, <2>3
    <3> QED BY <3>1
  <2>4. \/ k \in 1 .. i - 1 \/ k = i \/ k \in i + 1 .. Len(q) + 1
    BY <1>1, <1>2
  <2> QED BY <2>1, <2>2, <2>3, <2>4
<1> QED BY <1>2, <1>3 DEF e, r

\* A function on an interval that begins with one is a sequence.
LEMMA FunctionIsSeq ==
    ASSUME NEW S, NEW n \in Nat, NEW f \in [1..n -> S]
    PROVE  f \in Seq(S) /\ Len(f) = n
  OBVIOUS

\* Sets that have nothing in common count together.
LEMMA DisjointUnion ==
    ASSUME NEW S, IsFiniteSet(S), NEW T, IsFiniteSet(T), S \cap T = {}
    PROVE  /\ IsFiniteSet(S \cup T)
           /\ Cardinality(S \cup T) = Cardinality(S) + Cardinality(T)
<1>1. Cardinality(S) \in Nat /\ Cardinality(T) \in Nat /\ Cardinality(S \cap T) = 0
  BY FS_CardinalityType, FS_EmptySet
<1>2. /\ IsFiniteSet(S \cup T)
      /\ Cardinality(S \cup T) = Cardinality(S) + Cardinality(T) - Cardinality(S \cap T)
  BY FS_Union
<1> QED BY <1>1, <1>2
=============================================================================
