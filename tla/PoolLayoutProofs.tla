-------------------------- MODULE PoolLayoutProofs --------------------------
(***************************************************************************)
(* Facts about the arithmetic of PoolLayout, for operands of every size:   *)
(* modular sums are exact, the permutation steps are coprime to the count, *)
(* and a walk by a coprime step meets nothing twice.  Then facts about the *)
(* operators of BlockLines, for bytes of every length: the offsets just    *)
(* past the line feeds of a block, the texts between them, and the lines   *)
(* of the file that these are.                                             *)
(***************************************************************************)
EXTENDS BlockLines, WellFoundedInduction, FiniteSetTheorems, SequenceTheorems, TLAPS

-----------------------------------------------------------------------------
(* Division. *)

\* What / and % of Go mean for operands that are not negative.
LEMMA DivisionFacts ==
    ASSUME NEW a \in Int, NEW n \in Nat \ {0}
    PROVE  /\ a \div n \in Int
           /\ a % n \in 0 .. n - 1
           /\ a = n * (a \div n) + (a % n)
  BY SMT

\* A number below the modulus is its own remainder.
LEMMA SmallRemainder ==
    ASSUME NEW a \in Nat, NEW n \in Nat, a < n
    PROVE  a % n = a
  BY SMT

\* Quotient and remainder are the only numbers that divide a by n.
LEMMA RemainderUnique ==
    ASSUME NEW a \in Int, NEW n \in Nat \ {0}, NEW q \in Int, NEW r \in 0 .. n - 1,
           a = n * q + r
    PROVE  a % n = r
  BY SMT

\* Adding a multiple of n leaves the remainder alone.
LEMMA MultipleRemainder ==
    ASSUME NEW a \in Int, NEW q \in Int, NEW n \in Nat \ {0}
    PROVE  (n * q + a) % n = a % n
  <1> DEFINE p == a \div n
             r == a % n
  <1>1. p \in Int /\ r \in 0 .. n - 1 /\ a = n * p + r
    BY DivisionFacts
  <1> HIDE DEF p, r
  <1>2. n * q + a = n * (q + p) + r /\ n * q + a \in Int /\ q + p \in Int
    BY <1>1, SMT
  <1>3. (n * q + a) % n = r
    BY <1>1, <1>2, RemainderUnique
  <1> QED
    BY <1>3 DEF r

\* Remainders may be taken before or after adding.
LEMMA SumRemainder ==
    ASSUME NEW a \in Int, NEW b \in Int, NEW n \in Nat \ {0}
    PROVE  ((a % n) + (b % n)) % n = (a + b) % n
  <1> DEFINE p == a \div n
             r == a % n
             q == b \div n
             s == b % n
  <1>1. p \in Int /\ r \in 0 .. n - 1 /\ a = n * p + r
    BY DivisionFacts
  <1>2. q \in Int /\ s \in 0 .. n - 1 /\ b = n * q + s
    BY DivisionFacts
  <1> HIDE DEF p, r, q, s
  <1>3. a + b = n * (p + q) + (r + s) /\ p + q \in Int /\ r + s \in Int
    BY <1>1, <1>2, SMT
  <1>4. (n * (p + q) + (r + s)) % n = (r + s) % n
    BY <1>3, MultipleRemainder
  <1> QED
    BY <1>3, <1>4 DEF r, s

\* Equal remainders differ by a multiple of n.
LEMMA EqualRemainders ==
    ASSUME NEW a \in Int, NEW b \in Int, NEW n \in Nat \ {0}, (a + b) % n = a % n
    PROVE  b % n = 0
  <1> DEFINE p == a \div n
             r == a % n
             q == (a + b) \div n
  <1>1. p \in Int /\ r \in 0 .. n - 1 /\ a = n * p + r
    BY DivisionFacts
  <1>2. q \in Int /\ a + b = n * q + r
    BY DivisionFacts
  <1> HIDE DEF p, r, q
  <1>3. b = n * (q - p) + 0 /\ q - p \in Int /\ 0 \in 0 .. n - 1
    BY <1>1, <1>2, SMT
  <1> QED
    BY <1>3, RemainderUnique

-----------------------------------------------------------------------------
(* addModulo. *)

\* addModulo returns the sum modulo modulus for every word-sized modulus: no
\* intermediate value leaves the range of a word.
THEOREM AddModuloExact ==
    ASSUME NEW modulus \in Nat \ {0}, modulus < WordSize,
           NEW left \in 0 .. modulus - 1, NEW right \in 0 .. modulus
    PROVE  AddModulo(left, right, modulus) = (left + right) % modulus
  <1> USE WordAssumption
  <1>1. CASE modulus = 1
    <2>1. (left + right) % 1 = 0
      BY <1>1, SMT
    <2> QED
      BY <1>1, <2>1 DEF AddModulo
  <1>2. CASE modulus > 1
    <2>1. modulus - right \in Nat /\ modulus - right < WordSize
      BY SMT
    <2>2. Word(modulus - right) = modulus - right
      BY <2>1, SmallRemainder DEF Word
    <2>3. CASE left >= modulus - right
      <3>1. left - (modulus - right) \in Nat /\ left - (modulus - right) < modulus
        BY <2>1, <2>3, SMT
      <3>2. Word(left - (modulus - right)) = left - (modulus - right)
        BY <3>1, SmallRemainder DEF Word
      <3>3. left + right = modulus * 1 + (left - (modulus - right))
        BY SMT
      <3>4. (left + right) % modulus = left - (modulus - right)
        BY <3>1, <3>3, RemainderUnique
      <3> QED
        BY <1>2, <2>2, <2>3, <3>2, <3>4 DEF AddModulo
    <2>4. CASE ~ (left >= modulus - right)
      <3>1. left + right \in Nat /\ left + right < modulus /\ left + right < WordSize
        BY <2>1, <2>4, SMT
      <3>2. Word(left + right) = left + right
        BY <3>1, SmallRemainder DEF Word
      <3>3. (left + right) % modulus = left + right
        BY <3>1, SmallRemainder
      <3> QED
        BY <1>2, <2>2, <2>4, <3>2, <3>3 DEF AddModulo
    <2> QED
      BY <2>3, <2>4
  <1> QED
    BY <1>1, <1>2, SMT

-----------------------------------------------------------------------------
(* Walks by a coprime step. *)

\* A nonempty set of numbers has a least one.
LEMMA LeastElement ==
    ASSUME NEW T \in SUBSET Nat, T # {}
    PROVE  \E m \in T : \A x \in T : m <= x
  <1>1. PICK m \in T : \A x \in T : ~ (<<x, m>> \in OpToRel(<, Nat))
    BY WFMin, NatLessThanWellFounded, Zenon
  <1>2. \A x \in T : ~ (x < m)
    BY <1>1, Zenon DEF OpToRel
  <1> QED
    BY <1>2, SMT

\* Some number of a set has a given rank in it: ranks grow by at most one from
\* one number to the next.
LEMMA RankIsMet ==
    ASSUME NEW m \in Nat, NEW S \in SUBSET (0 .. m), NEW k \in 1 .. Cardinality(S)
    PROVE  \E i \in S : Cardinality({ j \in S : j <= i }) = k
  <1> DEFINE upTo(n) == { j \in S : j <= n }
             reached == { n \in Nat : Cardinality(upTo(n)) >= k }
  <1>0. \A x \in S : x \in Nat /\ x <= m
    BY SMT
  <1>1. IsFiniteSet(S) /\ Cardinality(S) \in Nat
    <2>1. IsFiniteSet(0 .. m)
      BY FS_Interval, SMT
    <2>2. IsFiniteSet(S)
      BY <2>1, FS_Subset
    <2> QED
      BY <2>2, FS_CardinalityType
  <1>2. \A n : IsFiniteSet(upTo(n)) /\ Cardinality(upTo(n)) \in Nat
    <2>1. \A n : upTo(n) \subseteq S
      OBVIOUS
    <2> QED
      BY <1>1, <2>1, FS_Subset, FS_CardinalityType
  <1>3. reached \in SUBSET Nat /\ reached # {}
    <2>1. upTo(m) = S
      BY <1>0
    <2>2. Cardinality(upTo(m)) >= k
      BY <1>1, <2>1, SMT
    <2>3. m \in reached
      BY <2>2
    <2> QED
      BY <2>3
  <1>4. PICK n \in reached : \A x \in reached : n <= x
    <2> HIDE DEF reached
    <2> QED
      BY <1>3, LeastElement
  <1>5. n \in Nat /\ Cardinality(upTo(n)) >= k
    BY <1>4
  <1>6. Cardinality(upTo(n - 1)) < k
    <2>1. CASE n = 0
      <3>0. \A x \in S : ~ (x <= n - 1)
        BY <1>0, <2>1, SMT
      <3>1. upTo(n - 1) = {}
        BY <3>0
      <3>2. Cardinality(upTo(n - 1)) = 0
        BY <3>1, FS_EmptySet
      <3> QED
        BY <1>1, <3>2, SMT
    <2>2. CASE n # 0
      <3>1. n - 1 \in Nat /\ ~ (n <= n - 1)
        BY <1>5, <2>2, SMT
      <3>2. n - 1 \notin reached
        BY <1>4, <3>1
      <3>3. ~ (Cardinality(upTo(n - 1)) >= k)
        BY <3>1, <3>2
      <3>4. Cardinality(upTo(n - 1)) \in Nat
        BY <1>2
      <3> HIDE DEF upTo
      <3> QED
        BY <1>1, <3>3, <3>4, SMT
    <2> QED
      BY <2>1, <2>2
  <1>7. n \in S
    <2> SUFFICES ASSUME n \notin S
                 PROVE  FALSE
      OBVIOUS
    <2>1. \A x \in S : x <= n <=> x <= n - 1
      BY <1>0, <1>5, SMT
    <2>3. upTo(n) = upTo(n - 1)
      BY <2>1
    <2>2. Cardinality(upTo(n - 1)) \in Nat
      BY <1>2
    <2> HIDE DEF upTo
    <2> QED
      BY <1>1, <1>5, <1>6, <2>3, <2>2, SMT
  <1>8. Cardinality(upTo(n)) = Cardinality(upTo(n - 1)) + 1
    <2>3. \A x \in S : x <= n <=> x <= n - 1 \/ x = n
      BY <1>0, <1>5, SMT
    <2>4. ~ (n <= n - 1)
      BY <1>5, SMT
    <2>1. upTo(n) = upTo(n - 1) \cup {n} /\ n \notin upTo(n - 1)
      BY <1>7, <2>3, <2>4
    <2>2. IsFiniteSet(upTo(n - 1))
      BY <1>2
    <2> HIDE DEF upTo
    <2> QED
      BY <2>1, <2>2, FS_AddElement
  <1>9. Cardinality(upTo(n)) = k
    <2>1. Cardinality(upTo(n - 1)) \in Nat
      BY <1>2
    <2> HIDE DEF upTo
    <2> QED
      BY <1>1, <1>5, <1>6, <1>8, <2>1, SMT
  <1> QED
    BY <1>7, <1>9

\* A greater number of a set has a higher rank in it.
LEMMA RanksAscend ==
    ASSUME NEW m \in Nat, NEW S \in SUBSET (0 .. m), NEW i \in S, NEW k \in S, i < k
    PROVE  Cardinality({ j \in S : j <= i }) < Cardinality({ j \in S : j <= k })
  <1> DEFINE low  == { j \in S : j <= i }
             high == { j \in S : j <= k }
  <1>1. \A x \in S : x \in Int
    BY SMT
  <1>2. k \notin low /\ low \cup {k} \subseteq high
    <2>1. ~ (k <= i) /\ k <= k /\ \A x \in S : x <= i => x <= k
      BY <1>1, SMT
    <2> QED
      BY <2>1
  <1>3. IsFiniteSet(S) /\ IsFiniteSet(low) /\ IsFiniteSet(high)
    <2>1. IsFiniteSet(0 .. m)
      BY FS_Interval, SMT
    <2>2. low \subseteq 0 .. m /\ high \subseteq 0 .. m
      OBVIOUS
    <2> HIDE DEF low, high
    <2> QED
      BY <2>1, <2>2, FS_Subset
  <1> HIDE DEF low, high
  <1>4. /\ IsFiniteSet(low \cup {k})
        /\ Cardinality(low \cup {k}) = Cardinality(low) + 1
    BY <1>2, <1>3, FS_AddElement
  <1>5. Cardinality(low \cup {k}) <= Cardinality(high)
    BY <1>2, <1>3, FS_Subset
  <1>6. Cardinality(low) \in Nat /\ Cardinality(high) \in Nat
    BY <1>3, FS_CardinalityType
  <1>7. Cardinality(low) < Cardinality(high)
    BY <1>4, <1>5, <1>6, SMT
  <1> QED
    BY <1>7 DEF low, high

\* The least number of a set has rank 1, and no other has.
LEMMA FirstRank ==
    ASSUME NEW m \in Nat, NEW S \in SUBSET (0 .. m), NEW i \in S, \A x \in S : i <= x
    PROVE  /\ Cardinality({ j \in S : j <= i }) = 1
           /\ \A k \in S : Cardinality({ j \in S : j <= k }) = 1 => k = i
  <1>1. \A x \in S : x \in Int
    BY SMT
  <1>2. { j \in S : j <= i } = {i}
    <2>1. \A x \in S : x <= i <=> x = i
      BY <1>1, SMT
    <2> QED
      BY <2>1
  <1>3. Cardinality({ j \in S : j <= i }) = 1
    BY <1>2, FS_Singleton
  <1>4. ASSUME NEW k \in S, Cardinality({ j \in S : j <= k }) = 1
        PROVE  k = i
    <2> SUFFICES ASSUME i < k PROVE FALSE
      BY <1>1, SMT
    <2>1. Cardinality({ j \in S : j <= i }) < Cardinality({ j \in S : j <= k })
      BY RanksAscend
    <2> QED
      BY <1>3, <1>4, <2>1, SMT
  <1> QED
    BY <1>3, <1>4

\* The multiples of a coprime step come back to 0 modulo count only after
\* count steps: the least number m of steps that does divides count, so
\* count / m divides the step as well, and must be 1.
LEMMA CoprimeMultiples ==
    ASSUME NEW count \in Nat \ {0, 1}, NEW step \in Nat, Coprime(step, count),
           NEW d \in 1 .. count - 1
    PROVE  (step * d) % count # 0
  <1> SUFFICES ASSUME (step * d) % count = 0
               PROVE  FALSE
    OBVIOUS
  <1> DEFINE T == { m \in 1 .. count : \E t \in Int : step * m = count * t }
  <1>1. \A x \in Int : x \in 1 .. count /\ (step * x) % count = 0 => x \in T
    <2> SUFFICES ASSUME NEW x \in 1 .. count, (step * x) % count = 0
                 PROVE  x \in T
      OBVIOUS
    <2>1. step * x \in Int
      BY SMT
    <2>2. /\ (step * x) \div count \in Int
          /\ step * x = count * ((step * x) \div count) + ((step * x) % count)
      BY <2>1, DivisionFacts
    <2>3. step * x = count * ((step * x) \div count)
      BY <2>2, SMT
    <2> QED
      BY <2>2, <2>3
  <1>2. d \in T
    BY <1>1
  <1>3. count \in T
    <2>1. step * count = count * step /\ step \in Int /\ count \in 1 .. count
      BY SMT
    <2> QED
      BY <2>1
  <1>4. PICK m \in T : \A x \in T : m <= x
    <2>0. 1 .. count \subseteq Nat
      BY SMT
    <2>1. T \in SUBSET Nat
      BY <2>0, Zenon
    <2> HIDE DEF T
    <2>2. T # {}
      BY <1>2
    <2> QED
      BY <2>1, <2>2, LeastElement
  <1>5. PICK t \in Int : step * m = count * t
    BY <1>4
  <1>6. m \in 1 .. count - 1
    BY <1>2, <1>4, SMT
  <1> DEFINE q == count \div m
             r == count % m
  <1>7. q \in Int /\ r \in 0 .. m - 1 /\ count = m * q + r
    BY <1>6, DivisionFacts
  <1>8. r = 0
    <2> HIDE DEF q, r, T
    <2> SUFFICES ASSUME r # 0
                 PROVE  FALSE
      OBVIOUS
    <2>1. step * r = count * (step - t * q) /\ step - t * q \in Int
      <3>1. step * r = step * (count - m * q)
        <4>1. r = count - m * q
          BY <1>6, <1>7, SMT
        <4> QED
          BY <4>1
      <3>2. step * (count - m * q) = step * count - (step * m) * q
        BY <1>6, <1>7, SMT
      <3>3. step * count - (count * t) * q = count * (step - t * q)
        BY <1>5, <1>7, SMT
      <3>4. step - t * q \in Int
        BY <1>5, <1>7, SMT
      <3> QED
        BY <3>1, <3>2, <3>3, <3>4, <1>5
    <2>2. r \in 1 .. count /\ r < m
      BY <1>6, <1>7, SMT
    <2>3. r \in T
      BY <2>1, <2>2 DEF T
    <2> QED
      BY <1>4, <1>6, <1>7, <2>2, <2>3, SMT
  <1>9. count = m * q /\ q \in 2 .. count
    <2> HIDE DEF q, r, T
    <2>1. count = m * q
      BY <1>6, <1>7, <1>8, SMT
    <2>2. q > 1
      BY <1>6, <1>7, <2>1, SMT
    <2>3. q <= count
      BY <1>6, <1>7, <2>1, <2>2, SMT
    <2> QED
      BY <1>7, <2>1, <2>2, <2>3, SMT
  <1>10. step = q * t
    <2> HIDE DEF q, r, T
    <2>1. m * step = m * (q * t)
      BY <1>5, <1>6, <1>9, SMT
    <2> QED
      BY <1>5, <1>6, <1>7, <2>1, SMT
  <1>11. step % q = 0 /\ count % q = 0
    <2> HIDE DEF q, r, T
    <2>1. step = q * t + 0 /\ count = q * m + 0 /\ m \in Int /\ 0 \in 0 .. q - 1
      BY <1>5, <1>6, <1>9, <1>10, SMT
    <2> QED
      BY <1>5, <1>9, <2>1, RemainderUnique
  <1> QED
    BY <1>9, <1>11 DEF Coprime

\* Two positions of a walk of count steps are at different indexes.
THEOREM WalkIsInjective ==
    ASSUME NEW count \in Nat \ {0, 1}, NEW step \in Nat, Coprime(step, count),
           NEW first \in Nat, NEW i \in 0 .. count - 1, NEW j \in 0 .. count - 1,
           (first + step * i) % count = (first + step * j) % count
    PROVE  i = j
  <1>1. ASSUME NEW a \in 0 .. count - 1, NEW b \in 0 .. count - 1, a < b,
               (first + step * a) % count = (first + step * b) % count
        PROVE  FALSE
    <2>1. /\ first + step * a \in Int
          /\ step * (b - a) \in Int
          /\ first + step * b = (first + step * a) + step * (b - a)
          /\ b - a \in 1 .. count - 1
      BY <1>1, SMT
    <2>2. (step * (b - a)) % count = 0
      BY <1>1, <2>1, EqualRemainders
    <2> QED
      BY <2>1, <2>2, CoprimeMultiples
  <1> QED
    BY <1>1, SMT

-----------------------------------------------------------------------------
(* permutationParams. *)

\* Words are what mix64 takes and returns.
LEMMA MixIsWord ==
    ASSUME NEW a \in Words, NEW b \in Words
    PROVE  Mix(a, b) \in Words /\ Mix(a, b) \in Nat
  BY MixAssumption, WordAssumption, SMT DEF Words

\* Every step that permutationParams tries lies in 1 .. count - 1.
LEMMA TriedStepInRange ==
    ASSUME NEW count \in Nat \ {0, 1}, NEW seed \in Words, NEW d \in Nat
    PROVE  TriedStep(seed, count, d) \in 1 .. count - 1
  <1> DEFINE h == Mix(seed, 0) % (count - 1)
  <1>1. Mix(seed, 0) \in Nat /\ count - 1 \in Nat \ {0}
    <2>1. 0 \in Words
      BY WordAssumption, SMT DEF Words
    <2> QED
      BY <2>1, MixIsWord, SMT
  <1>2. h \in 0 .. count - 2
    <2>1. h \in 0 .. (count - 1) - 1
      BY <1>1, DivisionFacts
    <2> QED
      BY <2>1, SMT
  <1> HIDE DEF h
  <1>3. (h + d) % (count - 1) \in 0 .. (count - 1) - 1
    BY <1>1, <1>2, DivisionFacts, SMT
  <1>4. ((h + d) % (count - 1)) + 1 \in 1 .. count - 1
    BY <1>3, SMT
  <1> QED
    BY <1>4 DEF TriedStep, h

\* The search of permutationParams ends: 1 is among the steps it tries, and is
\* coprime to every count.
LEMMA SomeStepIsCoprime ==
    ASSUME NEW count \in Nat \ {0, 1}, NEW seed \in Words
    PROVE  \E d \in 0 .. count - 2 : Coprime(TriedStep(seed, count, d), count)
  <1> DEFINE h == Mix(seed, 0) % (count - 1)
             d == IF h = 0 THEN 0 ELSE count - 1 - h
  <1>1. Mix(seed, 0) \in Nat /\ count - 1 \in Nat \ {0}
    <2>1. 0 \in Words
      BY WordAssumption, SMT DEF Words
    <2> QED
      BY <2>1, MixIsWord, SMT
  <1>2. h \in 0 .. (count - 1) - 1
    BY <1>1, DivisionFacts
  <1>3. TriedStep(seed, count, d) = ((h + d) % (count - 1)) + 1
    BY DEF TriedStep
  <1> HIDE DEF h
  <1>4. d \in 0 .. count - 2
    BY <1>2, SMT
  <1>5. (h + d) % (count - 1) = 0
    <2>1. \E q \in Int : h + d = (count - 1) * q + 0
      <3>1. CASE h = 0
        <4>1. h + d = (count - 1) * 0 + 0
          BY <1>1, <3>1, SMT
        <4> QED
          BY <4>1
      <3>2. CASE h # 0
        <4>1. h + d = (count - 1) * 1 + 0
          BY <1>1, <1>2, <3>2, SMT
        <4> QED
          BY <4>1
      <3> QED
        BY <3>1, <3>2
    <2>2. h + d \in Int /\ 0 \in 0 .. (count - 1) - 1
      BY <1>1, <1>2, <1>4, SMT
    <2> QED
      BY <1>1, <2>1, <2>2, RemainderUnique
  <1>6. TriedStep(seed, count, d) = 1
    BY <1>3, <1>5, SMT
  <1>7. Coprime(1, count)
    <2> SUFFICES ASSUME NEW e \in 2 .. count
                 PROVE  1 % e # 0
      BY DEF Coprime
    <2>1. 1 % e = 1
      BY SmallRemainder, SMT
    <2> QED
      BY <2>1
  <1> QED
    BY <1>4, <1>6, <1>7

\* The step that permutationParams returns is coprime to the count.
THEOREM PermutationStepIsCoprime ==
    ASSUME NEW count \in Nat \ {0, 1}, NEW seed \in Words
    PROVE  /\ PermutationStep(count, seed) \in 1 .. count - 1
           /\ Coprime(PermutationStep(count, seed), count)
  <1> DEFINE T == { d \in 0 .. count - 2 : Coprime(TriedStep(seed, count, d), count) }
  <1>1. T \in SUBSET Nat /\ T # {}
    <2>1. T # {}
      BY SomeStepIsCoprime
    <2>2. 0 .. count - 2 \subseteq Nat
      BY SMT
    <2> QED
      BY <2>1, <2>2, Zenon
  <1>2. PICK d \in T : \A e \in T : d <= e
    <2> HIDE DEF T
    <2> QED
      BY <1>1, LeastElement
  <1>3. d \in 0 .. count - 2 /\ Coprime(TriedStep(seed, count, d), count)
    BY <1>2
  <1>4. \A e \in 0 .. d - 1 : ~ Coprime(TriedStep(seed, count, e), count)
    <2> SUFFICES ASSUME NEW e \in 0 .. d - 1, Coprime(TriedStep(seed, count, e), count)
                 PROVE  FALSE
      OBVIOUS
    <2>1. e \in 0 .. count - 2 /\ ~ (d <= e)
      BY <1>3, SMT
    <2>2. e \in T
      BY <2>1
    <2> QED
      BY <1>2, <2>1, <2>2
  <1>5. IsPermutationStep(seed, count, TriedStep(seed, count, d))
    BY <1>3, <1>4 DEF IsPermutationStep
  <1>6. TriedStep(seed, count, d) \in 1 .. count - 1
    BY <1>3, TriedStepInRange, SMT
  <1>7. /\ PermutationStep(count, seed) \in 1 .. count - 1
        /\ IsPermutationStep(seed, count, PermutationStep(count, seed))
    <2>1. ~ (count <= 1)
      BY SMT
    <2>2. \E step \in 1 .. count - 1 : IsPermutationStep(seed, count, step)
      BY <1>5, <1>6
    <2> QED
      BY <2>1, <2>2, Zenon DEF PermutationStep
  <1> QED
    BY <1>7 DEF IsPermutationStep

\* The first index that permutationParams returns is one of the count.
LEMMA PermutationFirstInRange ==
    ASSUME NEW count \in Nat \ {0}, NEW seed \in Words
    PROVE  PermutationFirst(count, seed) \in 0 .. count - 1
  <1>1. Mix(seed, MixIncrement) \in Int
    BY MixAssumption, MixIsWord, SMT
  <1>2. Mix(seed, MixIncrement) % count \in 0 .. count - 1
    BY <1>1, DivisionFacts
  <1> QED
    BY <1>2, SMT DEF PermutationFirst

\* A permuted order (of the lines of a block, or of regions) has the same
\* index at no two positions.
THEOREM PermutationIsInjective ==
    ASSUME NEW count \in Nat \ {0, 1}, NEW seed \in Words,
           NEW i \in 0 .. count - 1, NEW j \in 0 .. count - 1,
           (PermutationFirst(count, seed) + PermutationStep(count, seed) * i) % count
               = (PermutationFirst(count, seed) + PermutationStep(count, seed) * j) % count
    PROVE  i = j
  <1>1. PermutationFirst(count, seed) \in Nat
    BY PermutationFirstInRange, SMT
  <1>2. PermutationStep(count, seed) \in Nat
    BY PermutationStepIsCoprime, SMT
  <1> QED
    BY <1>1, <1>2, PermutationStepIsCoprime, WalkIsInjective

-----------------------------------------------------------------------------
(* The layout of an opened pool. *)

\* Products keep their order.
LEMMA ProductOrder ==
    ASSUME NEW a \in Nat, NEW b \in Nat, NEW n \in Nat, a <= b
    PROVE  n * a <= n * b /\ n * a \in Nat /\ n * b \in Nat
  BY SMT

\* ceilingQuotient returns the number of pieces of this size that cover a
\* length: every piece but the last is full and the last is not empty.
LEMMA CeilingQuotientCovers ==
    ASSUME NEW value \in Nat, NEW divisor \in Nat \ {0}
    PROVE  /\ CeilingQuotient(value, divisor) \in 0 .. value
           /\ value # 0 => CeilingQuotient(value, divisor) # 0
           /\ \A k \in 0 .. CeilingQuotient(value, divisor) - 1 : k * divisor < value
           /\ value <= CeilingQuotient(value, divisor) * divisor
  <1>1. CASE value = 0
    <2>1. CeilingQuotient(value, divisor) = 0
      BY <1>1 DEF CeilingQuotient
    <2> QED
      BY <1>1, <2>1, SMT
  <1>2. CASE value # 0
    <2> DEFINE q == (value - 1) \div divisor
               r == (value - 1) % divisor
    <2>0. value - 1 \in Int
      BY SMT
    <2>1. q \in Int /\ r \in 0 .. divisor - 1 /\ value - 1 = divisor * q + r
      BY <2>0, DivisionFacts
    <2>2. CeilingQuotient(value, divisor) = q + 1
      BY <1>2 DEF CeilingQuotient
    <2> HIDE DEF q, r
    <2>3. q >= 0
      BY <1>2, <2>1, SMT
    <2>4. q <= value - 1
      BY <1>2, <2>1, <2>3, SMT
    <2>5. ASSUME NEW k \in 0 .. q
          PROVE  k * divisor < value
      <3>1. divisor * k <= divisor * q
        BY <2>1, <2>3, ProductOrder, SMT
      <3> QED
        BY <2>1, <2>3, <3>1, SMT
    <2>6. value <= (q + 1) * divisor
      BY <2>1, <2>3, SMT
    <2> QED
      BY <1>2, <2>1, <2>2, <2>3, <2>4, <2>5, <2>6, SMT
  <1> QED
    BY <1>1, <1>2

\* Blocks and regions of an opened pool.
LEMMA LayoutFacts ==
    ASSUME NEW o \in ValidOptions
    PROVE  /\ BlocksPerRegion(o) \in Nat \ {0}
           /\ BlocksPerRegion(o) < WordSize
           /\ BlockCount(o) \in Nat
           /\ BlockCount(o) < WordSize
           /\ RegionCount(o) \in 0 .. BlockCount(o)
           /\ RegionsForShard(o) \in Nat
  <1>1. /\ o.fileSize \in Words
        /\ o.blockBytes \in Words \ {0}
        /\ o.regionBytes \in Words \ {0}
        /\ o.blockBytes <= o.regionBytes
        /\ o.shardCount \in Words \ {0}
        /\ o.shardIndex \in Words
    BY DEF ValidOptions
  <1>2. BlocksPerRegion(o) \in Nat \ {0} /\ BlocksPerRegion(o) < WordSize
    <2> DEFINE q == o.regionBytes \div o.blockBytes
               r == o.regionBytes % o.blockBytes
    <2>0. o.regionBytes \in Int /\ o.blockBytes \in Nat \ {0}
      BY <1>1, WordAssumption, SMT DEF Words
    <2>1. /\ q \in Int
          /\ r \in 0 .. o.blockBytes - 1
          /\ o.regionBytes = o.blockBytes * q + r
      BY <2>0, DivisionFacts
    <2> HIDE DEF q, r
    <2>2. q >= 1
      BY <1>1, <2>1, WordAssumption, SMT DEF Words
    <2>3. q <= o.regionBytes
      BY <1>1, <2>1, <2>2, WordAssumption, SMT DEF Words
    <2>4. q \in Nat \ {0} /\ q < WordSize
      BY <1>1, <2>1, <2>2, <2>3, WordAssumption, SMT DEF Words
    <2> QED
      BY <2>4 DEF q, BlocksPerRegion
  <1>3. BlockCount(o) \in 0 .. o.fileSize
    <2>1. o.fileSize \in Nat /\ o.blockBytes \in Nat \ {0}
      BY <1>1, WordAssumption, SMT DEF Words
    <2> QED
      BY <2>1, CeilingQuotientCovers DEF BlockCount
  <1>4. BlockCount(o) \in Nat /\ BlockCount(o) < WordSize
    BY <1>1, <1>3, WordAssumption, SMT DEF Words
  <1>5. RegionCount(o) \in 0 .. BlockCount(o)
    BY <1>2, <1>4, CeilingQuotientCovers DEF RegionCount
  <1>6. RegionsForShard(o) \in Nat
    <2> DEFINE total == RegionCount(o)
               q == (total - 1 - o.shardIndex) \div o.shardCount
    <2>1. total \in Nat /\ o.shardIndex \in Nat /\ o.shardCount \in Nat \ {0}
      BY <1>1, <1>4, <1>5, WordAssumption, SMT DEF Words
    <2>2. CASE o.shardIndex >= total
      BY <2>2 DEF RegionsForShard, ShardItemCount
    <2>3. CASE ~ (o.shardIndex >= total)
      <3>1. total - 1 - o.shardIndex \in Nat /\ total - 1 - o.shardIndex \in Int
        BY <2>1, <2>3, SMT
      <3>2. /\ q \in Int
            /\ (total - 1 - o.shardIndex) % o.shardCount \in 0 .. o.shardCount - 1
            /\ total - 1 - o.shardIndex
                  = o.shardCount * q + ((total - 1 - o.shardIndex) % o.shardCount)
        BY <2>1, <3>1, DivisionFacts
      <3> HIDE DEF total, q
      <3>3. q >= 0
        BY <2>1, <3>1, <3>2, SMT
      <3>4. q + 1 \in Nat
        BY <3>2, <3>3, SMT
      <3> QED
        BY <2>3, <3>4 DEF RegionsForShard, ShardItemCount, total, q
    <2> QED
      BY <2>2, <2>3
  <1> QED
    BY <1>2, <1>4, <1>5, <1>6

\* The sizes that Open accepts.
LEMMA OpenedSizes ==
    ASSUME NEW o \in ValidOptions
    PROVE  /\ o.blockBytes \in Nat \ {0}
           /\ o.fileSize \in Nat
           /\ o.maxLineBytes \in Nat \ {0}
           /\ BlockCount(o) \in Nat
           /\ \A k \in 0 .. BlockCount(o) - 1 : k * o.blockBytes < o.fileSize
           /\ o.fileSize <= BlockCount(o) * o.blockBytes
  <1>1. /\ o.blockBytes \in Words \ {0}
        /\ o.fileSize \in Words
        /\ o.maxLineBytes \in Words \ {0}
    BY DEF ValidOptions
  <1>2. /\ o.blockBytes \in Nat \ {0}
        /\ o.fileSize \in Nat
        /\ o.maxLineBytes \in Nat \ {0}
    BY <1>1, WordAssumption, SMT DEF Words
  <1>3. BlockCount(o) \in Nat
    BY LayoutFacts
  <1> QED
    BY <1>2, <1>3, CeilingQuotientCovers DEF BlockCount

\* A region of the file holds at least one block, and lies in the file.
LEMMA RegionLiesInFile ==
    ASSUME NEW o \in ValidOptions, NEW region \in 0 .. RegionCount(o) - 1
    PROVE  /\ RegionBase(o, region) \in Nat
           /\ RegionLength(o, region) \in 1 .. BlocksPerRegion(o)
           /\ RegionBase(o, region) + RegionLength(o, region) <= BlockCount(o)
  <1> DEFINE size == BlocksPerRegion(o)
             base == region * size
  <1>1. size \in Nat \ {0} /\ BlockCount(o) \in Nat
    BY LayoutFacts
  <1>2. base < BlockCount(o)
    BY <1>1, CeilingQuotientCovers DEF RegionCount
  <1>3. RegionCount(o) \in Nat
    BY LayoutFacts, SMT
  <1>4. base \in Nat
    BY <1>1, <1>3, SMT
  <1> QED
    BY <1>1, <1>2, <1>4, SMT DEF RegionBase, RegionLength, Lesser

\* Regions do not overlap.
LEMMA RegionsAreDisjoint ==
    ASSUME NEW o \in ValidOptions,
           NEW r \in 0 .. RegionCount(o) - 1, NEW s \in 0 .. RegionCount(o) - 1, r # s
    PROVE  RegionBlocksOf(o, r) \cap RegionBlocksOf(o, s) = {}
  <1>1. ASSUME NEW a \in 0 .. RegionCount(o) - 1, NEW b \in 0 .. RegionCount(o) - 1, a < b
        PROVE  RegionBase(o, a) + RegionLength(o, a) <= RegionBase(o, b)
    <2>1. BlocksPerRegion(o) \in Nat /\ RegionCount(o) \in Nat
      BY LayoutFacts, SMT
    <2>2. BlocksPerRegion(o) * (a + 1) <= BlocksPerRegion(o) * b
      BY <1>1, <2>1, ProductOrder, SMT
    <2>3. RegionBase(o, a) + BlocksPerRegion(o) <= RegionBase(o, b)
      BY <2>1, <2>2, SMT DEF RegionBase
    <2>4. RegionLength(o, a) <= BlocksPerRegion(o)
      BY RegionLiesInFile, SMT
    <2> QED
      BY <2>1, <2>3, <2>4, RegionLiesInFile, SMT
  <1>2. /\ RegionBase(o, r) \in Nat /\ RegionLength(o, r) \in Nat
        /\ RegionBase(o, s) \in Nat /\ RegionLength(o, s) \in Nat
    BY RegionLiesInFile, LayoutFacts, SMT
  <1>3. CASE r < s
    BY <1>1, <1>2, <1>3, SMT DEF RegionBlocksOf
  <1>4. CASE s < r
    BY <1>1, <1>2, <1>4, SMT DEF RegionBlocksOf
  <1> QED
    BY <1>3, <1>4, SMT

\* Every cycle has a seed that is a word.
LEMMA CycleSeedIsWord ==
    ASSUME NEW o \in ValidOptions, NEW cycle \in Nat
    PROVE  CycleSeed(o, cycle) \in Words
  <1>1. o.seed \in Words /\ MixIncrement \in Words
    BY MixAssumption DEF ValidOptions
  <1>2. o.seed + cycle * MixIncrement \in Int /\ WordSize \in Nat \ {0} /\ 0 \in Words
    BY <1>1, WordAssumption, SMT DEF Words
  <1>3. Word(o.seed + cycle * MixIncrement) \in Words
    BY <1>2, DivisionFacts DEF Word, Words
  <1> QED
    BY <1>2, <1>3, MixIsWord DEF CycleSeed

\* A region's walk begins at one of its blocks.
LEMMA RotationInRegion ==
    ASSUME NEW o \in ValidOptions, NEW cycle \in Nat,
           NEW region \in 0 .. RegionCount(o) - 1
    PROVE  Rotation(o, cycle, region) \in 0 .. RegionLength(o, region) - 1
  <1>1. RegionLength(o, region) \in Nat \ {0}
    BY RegionLiesInFile, LayoutFacts, SMT
  <1>2. region \in Words
    BY LayoutFacts, WordAssumption, SMT DEF Words
  <1>3. Mix(CycleSeed(o, cycle), region) \in Int
    <2>1. Mix(CycleSeed(o, cycle), region) \in Nat
      BY <1>2, CycleSeedIsWord, MixIsWord
    <2> QED
      BY <2>1, SMT
  <1>4. Mix(CycleSeed(o, cycle), region) % RegionLength(o, region)
            \in 0 .. RegionLength(o, region) - 1
    BY <1>1, <1>3, DivisionFacts
  <1> QED
    BY <1>1, <1>4, SMT DEF Rotation

\* Walking a region from a rotation on meets different blocks.
LEMMA RotatedBlocksDiffer ==
    ASSUME NEW length \in Nat \ {0}, length < WordSize,
           NEW rotation \in 0 .. length - 1,
           NEW i \in 0 .. length - 1, NEW j \in 0 .. length - 1,
           AddModulo(rotation, i, length) = AddModulo(rotation, j, length)
    PROVE  i = j
  <1>1. ASSUME NEW a \in 0 .. length - 1
        PROVE  \/ /\ rotation + a < length
                  /\ AddModulo(rotation, a, length) = rotation + a
               \/ /\ rotation + a >= length
                  /\ AddModulo(rotation, a, length) = rotation + a - length
    <2>1. AddModulo(rotation, a, length) = (rotation + a) % length
      BY AddModuloExact, SMT
    <2>2. CASE rotation + a < length
      BY <2>1, <2>2, SmallRemainder, SMT
    <2>3. CASE rotation + a >= length
      <3>1. rotation + a = length * 1 + (rotation + a - length)
        BY SMT
      <3>2. rotation + a - length \in 0 .. length - 1 /\ rotation + a \in Int
        BY <2>3, SMT
      <3>3. (rotation + a) % length = rotation + a - length
        BY <3>1, <3>2, RemainderUnique
      <3> QED
        BY <2>1, <2>3, <3>3
    <2> QED
      BY <2>2, <2>3, SMT
  <1> QED
    BY <1>1, SMT

\* The whole walk of a region meets each of its blocks.
LEMMA RotatedBlocksAreAll ==
    ASSUME NEW length \in Nat \ {0}, length < WordSize,
           NEW rotation \in 0 .. length - 1
    PROVE  { AddModulo(rotation, j, length) : j \in 0 .. length - 1 } = 0 .. length - 1
  <1>1. \A j \in 0 .. length - 1 : AddModulo(rotation, j, length) \in 0 .. length - 1
    <2> TAKE j \in 0 .. length - 1
    <2>1. AddModulo(rotation, j, length) = (rotation + j) % length
      BY AddModuloExact, SMT
    <2>2. rotation + j \in Int
      BY SMT
    <2> QED
      BY <2>1, <2>2, DivisionFacts
  <1>2. ASSUME NEW x \in 0 .. length - 1
        PROVE  \E j \in 0 .. length - 1 : AddModulo(rotation, j, length) = x
    <2>1. CASE x >= rotation
      <3>1. x - rotation \in 0 .. length - 1 /\ rotation + (x - rotation) = x
        BY <2>1, SMT
      <3>2. x - rotation \in 0 .. length
        BY <3>1, SMT
      <3>3. AddModulo(rotation, x - rotation, length) = x % length
        BY <3>1, <3>2, AddModuloExact
      <3>4. x % length = x
        BY SmallRemainder, SMT
      <3> QED
        BY <3>1, <3>3, <3>4
    <2>2. CASE x < rotation
      <3> DEFINE j == x + length - rotation
      <3>1. j \in 0 .. length - 1 /\ j \in 0 .. length /\ rotation + j = length * 1 + x
        BY <2>2, SMT
      <3>2. AddModulo(rotation, j, length) = (rotation + j) % length
        BY <3>1, AddModuloExact
      <3>3. (rotation + j) % length = x
        <4>1. rotation + j \in Int
          BY <3>1, SMT
        <4> QED
          BY <3>1, <4>1, RemainderUnique
      <3> QED
        BY <3>1, <3>2, <3>3
    <2> QED
      BY <2>1, <2>2, SMT
  <1> QED
    BY <1>1, <1>2

-----------------------------------------------------------------------------
(* The regions of a shard. *)

\* The k-th region of a shard has a position below the number of regions.
LEMMA ShardPositionInRange ==
    ASSUME NEW o \in ValidOptions, NEW k \in 0 .. RegionsForShard(o) - 1
    PROVE  /\ o.shardIndex + o.shardCount * k \in 0 .. RegionCount(o) - 1
           /\ k \in 0 .. RegionCount(o) - 1
           /\ o.shardIndex \in Nat
           /\ o.shardCount \in Nat \ {0}
           /\ k \in Nat
           /\ RegionCount(o) \in Nat \ {0}
  <1> DEFINE total == RegionCount(o)
             rest  == total - 1 - o.shardIndex
             q     == rest \div o.shardCount
  <1>1. /\ o.shardIndex \in Nat /\ o.shardCount \in Nat \ {0}
        /\ total \in Nat /\ k \in Nat
    <2>1. o.shardCount \in Words \ {0} /\ o.shardIndex \in Words
      BY DEF ValidOptions
    <2>2. RegionCount(o) \in Nat /\ RegionsForShard(o) \in Nat
      BY LayoutFacts, SMT
    <2> QED
      BY <2>1, <2>2, WordAssumption, SMT DEF Words
  <1>2. o.shardIndex < total
    <2> SUFFICES ASSUME o.shardIndex >= total
                 PROVE  FALSE
      BY <1>1, SMT
    <2>1. RegionsForShard(o) = 0
      BY DEF RegionsForShard, ShardItemCount
    <2> QED
      BY <2>1, SMT
  <1>3. RegionsForShard(o) = q + 1
    BY <1>1, <1>2, SMT DEF RegionsForShard, ShardItemCount
  <1>4. rest \in Int
    BY <1>1, SMT
  <1>5. q \in Int /\ rest % o.shardCount \in 0 .. o.shardCount - 1
            /\ rest = o.shardCount * q + (rest % o.shardCount)
    BY <1>1, <1>4, DivisionFacts
  <1> HIDE DEF q
  <1>6. k <= q /\ q \in Nat
    BY <1>1, <1>3, <1>5, SMT
  <1>7. o.shardCount * k <= o.shardCount * q /\ o.shardCount * k \in Nat
    BY <1>1, <1>6, ProductOrder
  <1>8. o.shardCount * k <= rest
    BY <1>1, <1>4, <1>5, <1>6, <1>7, SMT
  <1>9. k <= o.shardCount * k
    BY <1>1, SMT
  <1> QED
    BY <1>1, <1>2, <1>7, <1>8, <1>9, SMT

\* A shuffled pool of two regions or more permutes them.
LEMMA ShuffledRegions ==
    ASSUME NEW o \in ValidOptions, NEW cycle \in Nat,
           RegionCount(o) > 1, o.mode # "ModeSequential"
    PROVE  /\ RegionCount(o) \in Nat \ {0, 1}
           /\ CycleSeed(o, cycle) \in Words
           /\ RegionStep(o, cycle) = PermutationStep(RegionCount(o), CycleSeed(o, cycle))
           /\ RegionStep(o, cycle) \in Nat
           /\ PermutationFirst(RegionCount(o), CycleSeed(o, cycle)) \in 0 .. RegionCount(o) - 1
           /\ RegionCount(o) < WordSize
  <1>1. RegionCount(o) \in Nat \ {0, 1} /\ RegionCount(o) < WordSize
    BY LayoutFacts, WordAssumption, SMT
  <1>2. CycleSeed(o, cycle) \in Words
    BY CycleSeedIsWord
  <1>3. RegionStep(o, cycle) = PermutationStep(RegionCount(o), CycleSeed(o, cycle))
    BY <1>1 DEF RegionStep
  <1>4. PermutationStep(RegionCount(o), CycleSeed(o, cycle)) \in 1 .. RegionCount(o) - 1
    BY <1>1, <1>2, PermutationStepIsCoprime
  <1>5. PermutationFirst(RegionCount(o), CycleSeed(o, cycle)) \in 0 .. RegionCount(o) - 1
    BY <1>1, <1>2, PermutationFirstInRange, SMT
  <1> QED
    BY <1>1, <1>2, <1>3, <1>4, <1>5, SMT

\* The regions of a shard are regions of the file.
LEMMA ShardRegionInRange ==
    ASSUME NEW o \in ValidOptions, NEW cycle \in Nat,
           NEW k \in 0 .. RegionsForShard(o) - 1
    PROVE  ShardRegion(o, cycle, k) \in 0 .. RegionCount(o) - 1
  <1>1. CASE RegionCount(o) <= 1 \/ o.mode = "ModeSequential"
    BY <1>1, ShardPositionInRange DEF ShardRegion
  <1>2. CASE ~ (RegionCount(o) <= 1 \/ o.mode = "ModeSequential")
    <2>1. RegionCount(o) > 1
      BY <1>2, ShardPositionInRange, SMT
    <2> DEFINE first == PermutationFirst(RegionCount(o), CycleSeed(o, cycle))
               step == RegionStep(o, cycle)
               position == o.shardIndex + o.shardCount * k
    <2>2. first \in Nat /\ step \in Nat
      BY <1>2, <2>1, ShuffledRegions, SMT
    <2>3. position \in Nat
      BY ShardPositionInRange, SMT
    <2>4. first + step * position \in Int
      BY <2>2, <2>3, SMT
    <2>5. (first + step * position) % RegionCount(o) \in 0 .. RegionCount(o) - 1
      BY <2>4, ShardPositionInRange, DivisionFacts
    <2> QED
      BY <1>2, <2>5 DEF ShardRegion
  <1> QED
    BY <1>1, <1>2

\* The regions of a shard differ from each other.
THEOREM ShardRegionsDiffer ==
    ASSUME NEW o \in ValidOptions, NEW cycle \in Nat,
           NEW i \in 0 .. RegionsForShard(o) - 1, NEW j \in 0 .. RegionsForShard(o) - 1,
           ShardRegion(o, cycle, i) = ShardRegion(o, cycle, j)
    PROVE  i = j
  <1>1. CASE RegionCount(o) <= 1 \/ o.mode = "ModeSequential"
    BY <1>1 DEF ShardRegion
  <1>2. CASE ~ (RegionCount(o) <= 1 \/ o.mode = "ModeSequential")
    <2> DEFINE a == o.shardIndex + o.shardCount * i
               b == o.shardIndex + o.shardCount * j
    <2>1. RegionCount(o) > 1
      BY <1>2, ShardPositionInRange, SMT
    <2>2. a \in 0 .. RegionCount(o) - 1 /\ b \in 0 .. RegionCount(o) - 1
      BY ShardPositionInRange
    <2>3. a = b
      <3> HIDE DEF a, b
      <3>1. (PermutationFirst(RegionCount(o), CycleSeed(o, cycle)) + RegionStep(o, cycle) * a)
                % RegionCount(o)
              = (PermutationFirst(RegionCount(o), CycleSeed(o, cycle)) + RegionStep(o, cycle) * b)
                % RegionCount(o)
        BY <1>2 DEF ShardRegion, a, b
      <3> QED
        BY <1>2, <2>1, <2>2, <3>1, ShuffledRegions, PermutationIsInjective
    <2>4. /\ o.shardIndex \in Nat /\ o.shardCount \in Nat \ {0}
          /\ i \in Nat /\ j \in Nat
      BY ShardPositionInRange
    <2>5. o.shardCount * i = o.shardCount * j
      BY <2>3, <2>4, SMT
    <2> QED
      BY <2>4, <2>5, SMT
  <1> QED
    BY <1>1, <1>2

-----------------------------------------------------------------------------
(* From one region of a shard to the next. *)

\* A sum modulo modulus is below modulus, for a modulus of 0 or 1 as well.
LEMMA AddModuloInRange ==
    ASSUME NEW modulus \in Nat, modulus < WordSize,
           NEW left \in 0 .. Greater(0, modulus - 1), NEW right \in 0 .. modulus
    PROVE  AddModulo(left, right, modulus) \in 0 .. Greater(0, modulus - 1)
  <1>1. CASE modulus <= 1
    BY <1>1, SMT DEF AddModulo, Greater
  <1>2. CASE modulus > 1
    <2>1. left \in 0 .. modulus - 1 /\ left + right \in Int /\ modulus \in Nat \ {0}
      BY <1>2, SMT DEF Greater
    <2>2. AddModulo(left, right, modulus) = (left + right) % modulus
      BY <2>1, AddModuloExact
    <2>3. (left + right) % modulus \in 0 .. modulus - 1
      BY <2>1, DivisionFacts
    <2> QED
      BY <1>2, <2>2, <2>3, SMT DEF Greater
  <1> QED
    BY <1>1, <1>2, SMT

\* A product modulo modulus is below modulus.
LEMMA ProductModuloInRange ==
    ASSUME NEW modulus \in Nat \ {0}, NEW left \in Nat, NEW right \in Nat
    PROVE  ProductModulo(left, right, modulus) \in 0 .. modulus - 1
  <1>1. left * right \in Int
    BY SMT
  <1>2. (left * right) % modulus \in 0 .. modulus - 1
    BY <1>1, DivisionFacts
  <1> QED
    BY <1>2, SMT DEF ProductModulo

\* regionAdvance is at most the number of regions, as addModulo requires.
LEMMA RegionAdvanceInRange ==
    ASSUME NEW o \in ValidOptions, NEW cycle \in Nat
    PROVE  RegionAdvance(o, cycle) \in 0 .. RegionCount(o)
  <1>1. RegionCount(o) \in Nat
    BY LayoutFacts, SMT
  <1>2. CASE RegionCount(o) = 0
    BY <1>1, <1>2, SMT DEF RegionAdvance
  <1>3. CASE RegionCount(o) # 0 /\ o.mode = "ModeSequential"
    BY <1>1, <1>3, SMT DEF RegionAdvance
  <1>4. CASE RegionCount(o) = 1 /\ o.mode # "ModeSequential"
    BY <1>1, <1>4, SMT DEF RegionAdvance, ProductModulo
  <1>5. CASE RegionCount(o) > 1 /\ o.mode # "ModeSequential"
    <2>1. RegionAdvance(o, cycle) = ProductModulo(RegionStep(o, cycle), o.shardCount, RegionCount(o))
      BY <1>1, <1>5, SMT DEF RegionAdvance
    <2>2. o.shardCount \in Nat
      <3>1. o.shardCount \in Words
        BY DEF ValidOptions
      <3> QED
        BY <3>1, WordAssumption, SMT DEF Words
    <2>3. RegionStep(o, cycle) \in Nat
      BY <1>5, ShuffledRegions
    <2>4. RegionCount(o) \in Nat \ {0}
      BY <1>1, <1>5, SMT
    <2>5. RegionAdvance(o, cycle) \in 0 .. RegionCount(o) - 1
      BY <2>1, <2>2, <2>3, <2>4, ProductModuloInRange
    <2> QED
      BY <1>1, <2>5, SMT
  <1> QED
    BY <1>1, <1>2, <1>3, <1>4, <1>5, SMT

\* The region a cycle begins with is a region of the file, if there is one.
LEMMA FirstRegionInRange ==
    ASSUME NEW o \in ValidOptions, NEW cycle \in Nat
    PROVE  FirstRegion(o, cycle) \in 0 .. Greater(0, RegionCount(o) - 1)
  <1>1. RegionCount(o) \in Nat /\ RegionCount(o) < WordSize
    BY LayoutFacts, WordAssumption, SMT
  <1>2. CASE RegionCount(o) = 0 \/ o.mode = "ModeSequential"
    BY <1>1, <1>2, SMT DEF FirstRegion, Greater
  <1>3. CASE RegionCount(o) = 1 /\ o.mode # "ModeSequential"
    BY <1>1, <1>3, SMT DEF FirstRegion, AddModulo, Greater
  <1>4. CASE RegionCount(o) > 1 /\ o.mode # "ModeSequential"
    <2> DEFINE first == PermutationFirst(RegionCount(o), CycleSeed(o, cycle))
               offset == ProductModulo(RegionStep(o, cycle), o.shardIndex, RegionCount(o))
    <2>1. FirstRegion(o, cycle) = AddModulo(first, offset, RegionCount(o))
      BY <1>4, SMT DEF FirstRegion
    <2>2. o.shardIndex \in Nat
      <3>1. o.shardIndex \in Words
        BY DEF ValidOptions
      <3> QED
        BY <3>1, WordAssumption, SMT DEF Words
    <2>3. first \in 0 .. RegionCount(o) - 1 /\ RegionStep(o, cycle) \in Nat
      BY <1>4, ShuffledRegions
    <2>4. RegionCount(o) \in Nat \ {0}
      BY <1>1, <1>4, SMT
    <2>5. offset \in 0 .. RegionCount(o) - 1
      BY <2>2, <2>3, <2>4, ProductModuloInRange
    <2> HIDE DEF first, offset
    <2>6. offset \in 0 .. RegionCount(o) /\ first \in 0 .. Greater(0, RegionCount(o) - 1)
      BY <1>1, <1>4, <2>3, <2>5, SMT DEF Greater
    <2> QED
      BY <1>1, <2>1, <2>6, AddModuloInRange
  <1> QED
    BY <1>1, <1>2, <1>3, <1>4, SMT

\* A cycle begins with the first region of the shard.
LEMMA FirstShardRegion ==
    ASSUME NEW o \in ValidOptions, NEW cycle \in Nat, RegionsForShard(o) > 0
    PROVE  FirstRegion(o, cycle) = ShardRegion(o, cycle, 0)
  <1>1. 0 \in 0 .. RegionsForShard(o) - 1
    BY LayoutFacts, SMT
  <1>2. RegionCount(o) \in Nat \ {0} /\ o.shardIndex \in Nat /\ o.shardCount \in Nat
    BY <1>1, ShardPositionInRange, SMT
  <1>3. CASE o.mode = "ModeSequential"
    BY <1>3 DEF FirstRegion, ShardRegion
  <1>4. CASE RegionCount(o) = 1 /\ o.mode # "ModeSequential"
    BY <1>4, SMT DEF FirstRegion, ShardRegion, AddModulo
  <1>5. CASE RegionCount(o) > 1 /\ o.mode # "ModeSequential"
    <2> DEFINE count == RegionCount(o)
               first == PermutationFirst(count, CycleSeed(o, cycle))
               step == RegionStep(o, cycle)
               offset == step * o.shardIndex
    <2>1. first \in 0 .. count - 1 /\ step \in Nat /\ count < WordSize /\ count \in Nat \ {0}
      BY <1>2, <1>5, ShuffledRegions
    <2>2. FirstRegion(o, cycle) = AddModulo(first, offset % count, count)
      <3>1. RegionCount(o) # 0 /\ ~ (RegionCount(o) <= 1)
        BY <1>2, <1>5, SMT
      <3> QED
        BY <1>5, <3>1 DEF FirstRegion, ProductModulo
    <2>3. ShardRegion(o, cycle, 0) = (first + offset) % count
      <3>1. o.shardIndex + o.shardCount * 0 = o.shardIndex
        BY <1>2, SMT
      <3>2. ~ (RegionCount(o) <= 1 \/ o.mode = "ModeSequential")
        BY <1>2, <1>5, SMT
      <3> QED
        BY <3>1, <3>2 DEF ShardRegion
    <2>4. offset \in Int
      BY <1>2, <2>1, SMT
    <2> HIDE DEF first, step, offset, count
    <2>5. offset % count \in 0 .. count - 1
      BY <2>1, <2>4, DivisionFacts
    <2>6. offset % count \in 0 .. count /\ first \in Nat /\ first \in Int /\ first < count
      BY <2>1, <2>5, SMT
    <2>7. AddModulo(first, offset % count, count) = (first + (offset % count)) % count
      BY <2>1, <2>6, AddModuloExact
    <2>8. first % count = first
      BY <2>1, <2>6, SmallRemainder
    <2>9. ((first % count) + (offset % count)) % count = (first + offset) % count
      BY <2>1, <2>4, <2>6, SumRemainder
    <2> QED
      BY <2>2, <2>3, <2>7, <2>8, <2>9
  <1> QED
    BY <1>2, <1>3, <1>4, <1>5, SMT

\* Going one position further in a shard adds the same amount everywhere.
LEMMA NextPosition ==
    ASSUME NEW f \in Nat, NEW s \in Nat, NEW i \in Nat, NEW n \in Nat, NEW k \in Nat
    PROVE  /\ f + s * (i + n * k) \in Int
           /\ f + s * (i + n * (k + 1)) \in Int
           /\ s * n \in Int
           /\ f + s * (i + n * (k + 1)) = (f + s * (i + n * k)) + s * n
  <1>1. n * (k + 1) = n * k + n /\ n * k \in Nat
    BY SMT
  <1> DEFINE position == i + n * k
  <1>2. position \in Nat /\ i + n * (k + 1) = position + n
    BY <1>1, SMT
  <1> HIDE DEF position
  <1>3. s * (position + n) = s * position + s * n /\ s * position \in Nat /\ s * n \in Nat
    BY <1>2, SMT
  <1> QED
    BY <1>2, <1>3, SMT DEF position

\* regionAdvance leads from each region of the shard to the next.
LEMMA NextShardRegion ==
    ASSUME NEW o \in ValidOptions, NEW cycle \in Nat,
           NEW k \in Nat, k + 1 < RegionsForShard(o)
    PROVE  AddModulo(ShardRegion(o, cycle, k), RegionAdvance(o, cycle), RegionCount(o))
             = ShardRegion(o, cycle, k + 1)
  <1>1. k \in 0 .. RegionsForShard(o) - 1 /\ k + 1 \in 0 .. RegionsForShard(o) - 1
    BY LayoutFacts, SMT
  <1>2. /\ RegionCount(o) \in Nat \ {0, 1}
        /\ o.shardIndex \in Nat /\ o.shardCount \in Nat
        /\ k + 1 \in 0 .. RegionCount(o) - 1
    BY <1>1, ShardPositionInRange, SMT
  <1>3. RegionCount(o) < WordSize
    BY LayoutFacts, WordAssumption, SMT
  <1>4. CASE o.mode = "ModeSequential"
    <2>1. /\ ShardRegion(o, cycle, k) = k
          /\ ShardRegion(o, cycle, k + 1) = k + 1
          /\ RegionAdvance(o, cycle) = 1
      BY <1>2, <1>4, SMT DEF ShardRegion, RegionAdvance
    <2>2. k \in 0 .. RegionCount(o) - 1 /\ 1 \in 0 .. RegionCount(o) /\ RegionCount(o) \in Nat \ {0}
      BY <1>2, SMT
    <2>3. AddModulo(k, 1, RegionCount(o)) = (k + 1) % RegionCount(o)
      BY <1>3, <2>2, AddModuloExact
    <2>4. (k + 1) % RegionCount(o) = k + 1
      BY <1>2, SmallRemainder, SMT
    <2> QED
      BY <2>1, <2>3, <2>4
  <1>5. CASE o.mode # "ModeSequential"
    <2> DEFINE count == RegionCount(o)
               first == PermutationFirst(count, CycleSeed(o, cycle))
               step == RegionStep(o, cycle)
               here == first + step * (o.shardIndex + o.shardCount * k)
               there == first + step * (o.shardIndex + o.shardCount * (k + 1))
               advance == step * o.shardCount
    <2>1. /\ ShardRegion(o, cycle, k) = here % count
          /\ ShardRegion(o, cycle, k + 1) = there % count
      BY <1>2, <1>5, SMT DEF ShardRegion
    <2>2. RegionAdvance(o, cycle) = advance % count
      BY <1>2, <1>5, SMT DEF RegionAdvance, ProductModulo
    <2>3. first \in Nat /\ step \in Nat /\ count \in Nat \ {0} /\ count < WordSize
      BY <1>2, <1>3, <1>5, ShuffledRegions, SMT
    <2>4. here \in Int /\ there \in Int /\ advance \in Int /\ there = here + advance
      <3> HIDE DEF first, step
      <3>1. first \in Nat /\ step \in Nat /\ k \in Nat
        BY <2>3
      <3>2. o.shardIndex \in Nat /\ o.shardCount \in Nat
        BY <1>2
      <3> HIDE DEF here, there, advance
      <3>3. \A i, n \in Nat :
              /\ first + step * (i + n * k) \in Int
              /\ first + step * (i + n * (k + 1)) \in Int
              /\ step * n \in Int
              /\ first + step * (i + n * (k + 1)) = (first + step * (i + n * k)) + step * n
        BY <3>1, NextPosition
      <3> QED
        BY <3>2, <3>3 DEF here, there, advance
    <2> HIDE DEF first, step, count, here, there, advance
    <2>5. here % count \in 0 .. count - 1 /\ advance % count \in 0 .. count - 1
      BY <2>3, <2>4, DivisionFacts
    <2>6. advance % count \in 0 .. count
      BY <2>3, <2>5, SMT
    <2>7. AddModulo(here % count, advance % count, count) = ((here % count) + (advance % count)) % count
      BY <2>3, <2>5, <2>6, AddModuloExact
    <2>8. ((here % count) + (advance % count)) % count = (here + advance) % count
      BY <2>3, <2>4, SumRemainder
    <2> QED
      BY <2>1, <2>2, <2>4, <2>7, <2>8 DEF count
  <1> QED
    BY <1>4, <1>5

-----------------------------------------------------------------------------
(* Positions and blocks.                                                   *)

\* Where the block behind this one starts.
LEMMA BlockProduct ==
    ASSUME NEW size \in Nat, NEW b \in Nat
    PROVE  b * size \in Nat /\ (b + 1) * size = b * size + size
  BY SMT

\* A position in a later block lies behind the whole block.
LEMMA LaterBlockIsBehind ==
    ASSUME NEW size \in Nat \ {0}, NEW b \in Nat, NEW position \in Int,
           b + 1 <= position \div size
    PROVE  position >= b * size + size
  <1> DEFINE q == position \div size
             r == position % size
  <1>1. q \in Int /\ r \in 0 .. size - 1 /\ position = size * q + r
    BY DivisionFacts
  <1> HIDE DEF q, r
  <1>2. q \in Nat /\ b + 1 <= q
    BY <1>1, SMT DEF q
  <1>3. size * (b + 1) <= size * q /\ size * (b + 1) \in Nat /\ size * q \in Nat
    BY <1>2, ProductOrder, SMT
  <1>4. size * (b + 1) = b * size + size
    BY SMT
  <1> DEFINE low == size * (b + 1)
             high == size * q
  <1>5. low \in Nat /\ high \in Nat /\ low <= high /\ position = high + r /\ low = b * size + size
    BY <1>1, <1>3, <1>4
  <1> HIDE DEF low, high
  <1>6. position >= low
    BY <1>1, <1>5, SMT
  <1> QED
    BY <1>5, <1>6

\* A position in an earlier block comes earlier.
LEMMA EarlierBlockIsEarlier ==
    ASSUME NEW size \in Nat \ {0}, NEW position \in Nat, NEW next \in Nat,
           position \div size < next \div size
    PROVE  position < next
  <1> DEFINE q == position \div size
             r == position % size
             p == next \div size
             s == next % size
  <1>1. q \in Int /\ r \in 0 .. size - 1 /\ position = size * q + r
    BY DivisionFacts
  <1>2. p \in Int /\ s \in 0 .. size - 1 /\ next = size * p + s
    BY DivisionFacts
  <1>3. q \in Nat /\ p \in Nat /\ q + 1 \in Nat /\ q + 1 <= p
    BY SMT
  <1> HIDE DEF q, r, p, s
  <1>4. size * (q + 1) <= size * p /\ size * q \in Nat /\ size * p \in Nat
    BY <1>3, ProductOrder, SMT
  <1>5. size * (q + 1) = size * q + size
    BY <1>3, SMT
  <1> DEFINE low == size * q
             high == size * p
  <1>6. low \in Nat /\ high \in Nat /\ low + size <= high /\ position = low + r /\ next = high + s
    BY <1>1, <1>2, <1>4, <1>5
  <1> HIDE DEF low, high
  <1> QED
    BY <1>1, <1>2, <1>6, SMT

-----------------------------------------------------------------------------
(* Line feeds. *)

\* lineindex.Ends returns the offsets just past the line feeds, ascending,
\* every one of them.
LEMMA LineEndsAreExact ==
    ASSUME NEW bytes, NEW from \in Nat, NEW to \in Nat
    PROVE  LET ends == LineEnds(bytes, from, to)
           IN  /\ ends \in Seq(Nat)
               /\ \A k \in 1 .. Len(ends) : ends[k] - 1 \in LineFeeds(bytes, from, to)
               /\ \A i, j \in 1 .. Len(ends) : i < j => ends[i] < ends[j]
               /\ \A f \in LineFeeds(bytes, from, to) : \E k \in 1 .. Len(ends) : ends[k] = f + 1
  <1> DEFINE feeds == LineFeeds(bytes, from, to)
             rank(i) == Cardinality({ j \in feeds : j <= i })
             at(k) == CHOOSE i \in feeds : rank(i) = k
             ends == LineEnds(bytes, from, to)
  <1>1. feeds \in SUBSET (0 .. to)
    BY SMT DEF LineFeeds
  <1>2. IsFiniteSet(feeds) /\ Cardinality(feeds) \in Nat
    <2>1. IsFiniteSet(0 .. to)
      BY FS_Interval, SMT
    <2> HIDE DEF feeds
    <2> QED
      BY <1>1, <2>1, FS_Subset, FS_CardinalityType
  <1>3. ends = [k \in 1 .. Cardinality(feeds) |-> 1 + at(k)]
    BY DEF LineEnds
  <1>4. \A x \in feeds : x \in Nat
    <2> HIDE DEF feeds
    <2> QED
      BY <1>1, SMT
  <1> HIDE DEF feeds
  <1>5. \A k \in 1 .. Cardinality(feeds) : at(k) \in feeds /\ rank(at(k)) = k
    <2> TAKE k \in 1 .. Cardinality(feeds)
    <2>1. \E i \in feeds : rank(i) = k
      BY <1>1, RankIsMet
    <2> HIDE DEF rank
    <2> QED
      BY <2>1
  <1>6. \A i \in feeds : rank(i) \in 1 .. Cardinality(feeds)
    <2> TAKE i \in feeds
    <2> DEFINE low == { j \in feeds : j <= i }
    <2>1. i \in low /\ low \subseteq feeds
      BY <1>4, SMT
    <2> HIDE DEF low
    <2>2. IsFiniteSet(low) /\ Cardinality(low) <= Cardinality(feeds)
      BY <1>2, <2>1, FS_Subset
    <2>3. Cardinality(low) \in Nat /\ Cardinality(low) # 0
      BY <2>1, <2>2, FS_CardinalityType, FS_EmptySet
    <2> QED
      BY <1>2, <2>2, <2>3, SMT DEF low
  <1>7. \A i, k \in feeds : i < k => rank(i) < rank(k)
    BY <1>1, RanksAscend
  <1>8. \A i \in feeds : rank(i) \in Nat
    BY <1>6, <1>2, SMT
  <1> HIDE DEF rank
  <1>9. \A k \in 1 .. Cardinality(feeds) : at(k) \in Nat
    BY <1>4, <1>5
  <1>10. ends \in Seq(Nat) /\ Len(ends) = Cardinality(feeds)
    <2> HIDE DEF at, ends
    <2>1. \A k \in 1 .. Cardinality(feeds) : 1 + at(k) \in Nat
      BY <1>9, SMT
    <2> QED
      BY <1>2, <1>3, <2>1
  <1>11. \A k \in 1 .. Len(ends) : ends[k] = 1 + at(k)
    BY <1>3, <1>10
  <1>12. \A i \in feeds : at(rank(i)) = i
    <2> TAKE i \in feeds
    <2>1. at(rank(i)) \in feeds /\ rank(at(rank(i))) = rank(i)
      BY <1>5, <1>6
    <2> DEFINE j == at(rank(i))
    <2>2. j \in Nat /\ i \in Nat
      BY <1>4, <2>1
    <2>3. ~ (i < j) /\ ~ (j < i)
      <3> HIDE DEF at
      <3> QED
        BY <1>7, <1>8, <2>1, SMT
    <2> HIDE DEF j
    <2> QED
      BY <2>2, <2>3, SMT DEF j
  <1> HIDE DEF at, ends
  <1>13. \A k \in 1 .. Len(ends) : ends[k] - 1 \in feeds
    <2> TAKE k \in 1 .. Len(ends)
    <2>1. ends[k] - 1 = at(k)
      BY <1>9, <1>10, <1>11, SMT
    <2> QED
      BY <1>5, <1>10, <2>1
  <1>14. \A i, j \in 1 .. Len(ends) : i < j => ends[i] < ends[j]
    <2> TAKE i, j \in 1 .. Len(ends)
    <2> HAVE i < j
    <2>1. /\ at(i) \in feeds /\ rank(at(i)) = i /\ at(i) \in Nat
          /\ at(j) \in feeds /\ rank(at(j)) = j /\ at(j) \in Nat
      BY <1>5, <1>9, <1>10
    <2>2. ~ (at(j) < at(i)) /\ at(i) # at(j)
      BY <1>7, <2>1, SMT
    <2> QED
      BY <1>11, <2>1, <2>2, SMT
  <1>15. \A f \in feeds : \E k \in 1 .. Len(ends) : ends[k] = f + 1
    <2> TAKE f \in feeds
    <2>1. rank(f) \in 1 .. Len(ends) /\ at(rank(f)) = f
      BY <1>6, <1>10, <1>12
    <2>2. ends[rank(f)] = f + 1
      BY <1>4, <1>11, <2>1, SMT
    <2> QED
      BY <2>1, <2>2
  <1> QED
    BY <1>10, <1>13, <1>14, <1>15 DEF feeds, ends

\* The least of some line feeds.
LEMMA LeastFeed ==
    ASSUME NEW bytes, NEW from \in Nat, NEW to \in Nat, LineFeeds(bytes, from, to) # {}
    PROVE  /\ Min(LineFeeds(bytes, from, to)) \in from .. to - 1
           /\ At(bytes, Min(LineFeeds(bytes, from, to))) = LF
           /\ \A k \in from .. Min(LineFeeds(bytes, from, to)) - 1 : At(bytes, k) # LF
  <1> DEFINE feeds == LineFeeds(bytes, from, to)
  <1>1. \A x \in feeds : x \in from .. to - 1 /\ At(bytes, x) = LF
    BY DEF LineFeeds
  <1>2. \A k \in from .. to - 1 : At(bytes, k) = LF => k \in feeds
    BY DEF LineFeeds
  <1>3. feeds \in SUBSET Nat /\ feeds # {}
    <2>1. from .. to - 1 \subseteq Nat
      BY SMT
    <2> HIDE DEF feeds
    <2> QED
      BY <1>1, <2>1 DEF feeds
  <1> HIDE DEF feeds
  <1>4. \E x \in feeds : \A y \in feeds : x <= y
    BY <1>3, LeastElement
  <1>5. Min(feeds) \in feeds /\ \A y \in feeds : Min(feeds) <= y
    BY <1>4 DEF Min
  <1>6. Min(feeds) \in from .. to - 1 /\ At(bytes, Min(feeds)) = LF
    BY <1>1, <1>5
  <1>7. \A k \in from .. Min(feeds) - 1 : At(bytes, k) # LF
    <2> TAKE k \in from .. Min(feeds) - 1
    <2>1. k \in from .. to - 1 /\ ~ (Min(feeds) <= k)
      BY <1>6, SMT
    <2> QED
      BY <1>2, <1>5, <2>1
  <1> QED
    BY <1>6, <1>7 DEF feeds

\* Part of a block.
LEMMA SliceOfBytes ==
    ASSUME NEW bytes \in Seq(Byte), NEW from \in Nat, NEW to \in Nat, to <= Len(bytes)
    PROVE  /\ Slice(bytes, from, to) \in Seq(Byte)
           /\ Len(Slice(bytes, from, to)) = IF from <= to THEN to - from ELSE 0
           /\ \A k \in 1 .. to - from : Slice(bytes, from, to)[k] = bytes[from + k]
  <1> HIDE DEF Byte
  <1>1. from + 1 \in Int /\ to \in Int
    BY SMT
  <1>2. \A i \in from + 1 .. to : bytes[i] \in Byte
    <2> TAKE i \in from + 1 .. to
    <2>1. i \in 1 .. Len(bytes)
      BY SMT
    <2> QED
      BY <2>1
  <1>3. /\ SubSeq(bytes, from + 1, to) \in Seq(Byte)
        /\ Len(SubSeq(bytes, from + 1, to)) =
             IF from + 1 <= to THEN to - (from + 1) + 1 ELSE 0
        /\ \A k \in 1 .. to - (from + 1) + 1 :
             SubSeq(bytes, from + 1, to)[k] = bytes[from + 1 + k - 1]
    BY <1>1, <1>2, SubSeqProperties
  <1> DEFINE part == SubSeq(bytes, from + 1, to)
  <1>4. part = Slice(bytes, from, to)
    BY DEF Slice
  <1> HIDE DEF part
  <1>5. Len(part) = IF from <= to THEN to - from ELSE 0
    BY <1>3, SMT DEF part
  <1>6. ASSUME NEW k \in 1 .. to - from
        PROVE  part[k] = bytes[from + k]
    <2>1. k \in 1 .. to - (from + 1) + 1 /\ from + 1 + k - 1 = from + k
      BY SMT
    <2> QED
      BY <1>3, <2>1 DEF part
  <1> QED
    BY <1>3, <1>4, <1>5, <1>6 DEF part

\* Its length.
LEMMA PartOfBytes ==
    ASSUME NEW bytes \in Seq(Byte), NEW from \in Nat, NEW to \in Nat,
           from <= to, to <= Len(bytes)
    PROVE  /\ Slice(bytes, from, to) \in Seq(Byte)
           /\ Len(Slice(bytes, from, to)) = to - from
  <1>1. /\ Slice(bytes, from, to) \in Seq(Byte)
        /\ Len(Slice(bytes, from, to)) = IF from <= to THEN to - from ELSE 0
    BY SliceOfBytes
  <1> QED
    BY <1>1

\* A prefix agrees with what it is a prefix of.
LEMMA PrefixAgrees ==
    ASSUME NEW bytes \in Seq(Byte), NEW more \in Seq(Byte), IsPrefix(bytes, more)
    PROVE  \A k \in 1 .. Len(bytes) : k <= Len(more) /\ bytes[k] = more[k]
  <1> DEFINE size == Len(bytes)
  <1> HIDE DEF Byte
  <1>1. size \in Nat /\ size <= Len(more) /\ Len(more) \in Nat
    BY DEF IsPrefix
  <1>2. SubSeq(bytes, 1, size) = SubSeq(more, 1, size)
    BY DEF IsPrefix
  <1>3. \A i \in 1 .. size : i \in 1 .. Len(more)
    BY <1>1, SMT
  <1> HIDE DEF size
  <1>4. \A i \in 1 .. size : bytes[i] \in Byte /\ more[i] \in Byte
    BY <1>3 DEF size
  <1>5. ASSUME NEW k \in 1 .. size
        PROVE  bytes[k] = more[k]
    <2>1. k \in 1 .. size - 1 + 1 /\ 1 + k - 1 = k /\ 1 \in Int /\ size \in Int
      BY <1>1, SMT
    <2>2. \A i \in 1 .. size - 1 + 1 : SubSeq(bytes, 1, size)[i] = bytes[1 + i - 1]
      BY <1>4, <2>1, SubSeqProperties
    <2>3. \A i \in 1 .. size - 1 + 1 : SubSeq(more, 1, size)[i] = more[1 + i - 1]
      BY <1>4, <2>1, SubSeqProperties
    <2> QED
      BY <1>2, <2>1, <2>2, <2>3
  <1>6. \A k \in 1 .. size : k <= Len(more)
    BY <1>3, SMT
  <1> QED
    BY <1>5, <1>6 DEF size

-----------------------------------------------------------------------------
(* Offsets that cut a block into lines.                                    *)

\* Offsets that are just past line feeds, ascending, and past every line feed
\* up to the last of them.
CutsLines(bytes, ends) ==
    /\ ends \in Seq(Nat)
    /\ Len(ends) >= 1
    /\ ends[Len(ends)] <= Len(bytes)
    /\ \A i \in 1 .. Len(ends) : ends[i] >= 1 /\ At(bytes, ends[i] - 1) = LF
    /\ \A i, j \in 1 .. Len(ends) : i < j => ends[i] < ends[j]
    /\ \A k \in 0 .. ends[Len(ends)] - 1 :
         At(bytes, k) = LF => \E i \in 1 .. Len(ends) : ends[i] = k + 1

\* There is no line feed in this part of a block.
Feedless(bytes, from, to) == \A k \in from .. to - 1 : At(bytes, k) # LF

\* The hint holds when one of these lines ends with CR LF.
HintCovers(bytes, ends, hint) ==
    \A i \in 2 .. Len(ends) : At(bytes, ends[i] - 2) = CR => hint = TRUE

\* Where a block's first line starts: behind its first line feed.
LEMMA FirstLineIsFirst ==
    ASSUME NEW bytes, NEW end \in Nat \ {0}
    PROVE  LET first == FirstLineStart(bytes, end)
           IN  /\ first = NoLine => Feedless(bytes, 0, end - 1)
               /\ first # NoLine => /\ first \in 1 .. end - 1
                                    /\ At(bytes, first - 1) = LF
                                    /\ Feedless(bytes, 0, first - 1)
  <1> DEFINE feeds == LineFeeds(bytes, 0, end)
             first == FirstLineStart(bytes, end)
  <1>1. CASE feeds = {}
    <2>1. first = NoLine
      BY <1>1, SMT DEF FirstLineStart, NoLine
    <2>2. \A k \in 0 .. (end - 1) - 1 : At(bytes, k) # LF
      BY <1>1, SMT DEF LineFeeds
    <2>3. Feedless(bytes, 0, end - 1)
      BY <2>2 DEF Feedless
    <2> QED
      BY <2>1, <2>3
  <1>2. CASE feeds # {}
    <2> DEFINE m == Min(feeds)
    <2>1. m \in 0 .. end - 1 /\ At(bytes, m) = LF /\ \A k \in 0 .. m - 1 : At(bytes, k) # LF
      BY <1>2, LeastFeed
    <2>2. first = IF m + 1 >= end THEN NoLine ELSE m + 1
      BY <1>2 DEF FirstLineStart
    <2> HIDE DEF m, first, feeds
    <2>3. CASE m + 1 >= end
      <3>1. m = end - 1
        BY <2>1, <2>3, SMT
      <3> QED
        BY <2>1, <2>2, <2>3, <3>1 DEF Feedless, first
    <2>4. CASE ~ (m + 1 >= end)
      <3>1. first = m + 1 /\ first \in 1 .. end - 1 /\ first - 1 = m /\ first # 0
        BY <2>1, <2>2, <2>4, SMT
      <3> QED
        BY <2>1, <3>1 DEF Feedless, NoLine, first
    <2> QED
      BY <2>3, <2>4
  <1> QED
    BY <1>1, <1>2

\* The offsets that indexBlockLocked finds cut the block into lines, up to the
\* last line feed that the block owns; the hint it gets covers them.
LEMMA IndexCutsLines ==
    ASSUME NEW bytes \in Seq(Byte), NEW end \in Nat \ {0}, end <= Len(bytes),
           FirstLineStart(bytes, end) # NoLine
    PROVE  LET first == FirstLineStart(bytes, end)
               ends  == <<first>> \o LineEnds(bytes, first, end)
           IN  /\ CutsLines(bytes, ends)
               /\ ends[1] = first
               /\ ends[Len(ends)] <= end
               /\ Feedless(bytes, ends[Len(ends)], end)
               /\ \A hint \in ReturnHints(bytes, Head(ends), end) : HintCovers(bytes, ends, hint)
  <1> DEFINE first == FirstLineStart(bytes, end)
             found == LineEnds(bytes, first, end)
             ends  == <<first>> \o found
             n     == Len(found)
  <1>1. first \in 1 .. end - 1 /\ At(bytes, first - 1) = LF /\ Feedless(bytes, 0, first - 1)
    BY FirstLineIsFirst
  <1>2. first \in Nat /\ first >= 1 /\ first < end
    BY <1>1, SMT
  <1> HIDE DEF first
  <1>3. /\ found \in Seq(Nat)
        /\ \A k \in 1 .. n : found[k] - 1 \in LineFeeds(bytes, first, end)
        /\ \A i, j \in 1 .. n : i < j => found[i] < found[j]
        /\ \A f \in LineFeeds(bytes, first, end) : \E k \in 1 .. n : found[k] = f + 1
    BY <1>2, LineEndsAreExact
  <1>4. \A k \in 1 .. n : found[k] \in Nat /\ found[k] > first /\ found[k] <= end
                          /\ At(bytes, found[k] - 1) = LF
    <2> TAKE k \in 1 .. n
    <2>1. found[k] \in Nat
      BY <1>3
    <2>2. found[k] - 1 \in first .. end - 1 /\ At(bytes, found[k] - 1) = LF
      BY <1>3 DEF LineFeeds
    <2> QED
      BY <1>2, <2>1, <2>2, SMT
  <1>5. \A f \in first .. end - 1 : At(bytes, f) = LF => \E k \in 1 .. n : found[k] = f + 1
    BY <1>3 DEF LineFeeds
  <1> HIDE DEF found
  <1>6. n \in Nat
    BY <1>3
  <1>7. /\ ends \in Seq(Nat)
        /\ Len(ends) = n + 1
        /\ ends[1] = first
        /\ \A k \in 1 .. n : ends[k + 1] = found[k]
    BY <1>2, <1>3, SMT
  <1> HIDE DEF ends, n
  <1>8. \A i \in 1 .. Len(ends) : ends[i] = first \/ (i - 1 \in 1 .. n /\ ends[i] = found[i - 1])
    <2> TAKE i \in 1 .. Len(ends)
    <2>1. i = 1 \/ (i - 1 \in 1 .. n /\ (i - 1) + 1 = i)
      BY <1>6, <1>7, SMT
    <2> QED
      BY <1>7, <2>1
  <1>9. \A i \in 1 .. Len(ends) : ends[i] \in Nat /\ ends[i] >= 1 /\ ends[i] <= end
                                  /\ At(bytes, ends[i] - 1) = LF
    <2> TAKE i \in 1 .. Len(ends)
    <2>1. CASE ends[i] = first
      BY <1>1, <1>2, <2>1, SMT
    <2>2. CASE i - 1 \in 1 .. n /\ ends[i] = found[i - 1]
      BY <1>2, <1>4, <2>2, SMT
    <2> QED
      BY <1>8, <2>1, <2>2
  <1>10. \A i, j \in 1 .. Len(ends) : i < j => ends[i] < ends[j]
    <2> TAKE i, j \in 1 .. Len(ends)
    <2> HAVE i < j
    <2>1. j - 1 \in 1 .. n /\ (j - 1) + 1 = j
      BY <1>6, <1>7, SMT
    <2>2. ends[j] = found[j - 1]
      BY <1>7, <2>1
    <2>3. CASE i = 1
      BY <1>4, <1>7, <2>1, <2>2, <2>3, SMT
    <2>4. CASE i # 1
      <3>1. i - 1 \in 1 .. n /\ (i - 1) + 1 = i /\ i - 1 < j - 1
        BY <1>6, <1>7, <2>4, SMT
      <3>2. ends[i] = found[i - 1]
        BY <1>7, <3>1
      <3> QED
        BY <1>3, <2>1, <2>2, <3>1, <3>2 DEF n
    <2> QED
      BY <2>3, <2>4
  <1>11. \A f \in 0 .. end - 1 : At(bytes, f) = LF => \E i \in 1 .. Len(ends) : ends[i] = f + 1
    <2> SUFFICES ASSUME NEW f \in 0 .. end - 1, At(bytes, f) = LF
                 PROVE  \E i \in 1 .. Len(ends) : ends[i] = f + 1
      OBVIOUS
    <2>1. CASE f \in first .. end - 1
      <3>1. PICK k \in 1 .. n : found[k] = f + 1
        BY <1>5, <2>1
      <3>2. k + 1 \in 1 .. Len(ends) /\ ends[k + 1] = f + 1
        BY <1>6, <1>7, <3>1, SMT
      <3> QED
        BY <3>2
    <2>2. CASE f = first - 1
      <3>1. 1 \in 1 .. Len(ends) /\ first = f + 1
        BY <1>2, <1>6, <1>7, <2>2, SMT
      <3> QED
        BY <1>7, <3>1
    <2>3. CASE f \notin first .. end - 1 /\ f # first - 1
      <3>1. f \in 0 .. (first - 1) - 1
        BY <1>2, <2>3, SMT
      <3> QED
        BY <1>1, <3>1 DEF Feedless
    <2> QED
      BY <2>1, <2>2, <2>3
  <1> DEFINE last == ends[Len(ends)]
  <1>12. Len(ends) \in 1 .. Len(ends) /\ Len(ends) \in Nat
    BY <1>6, <1>7, SMT
  <1>13. last \in Nat /\ last <= end
    BY <1>9, <1>12
  <1>14. Feedless(bytes, last, end)
    <2> SUFFICES ASSUME NEW f \in last .. end - 1, At(bytes, f) = LF
                 PROVE  FALSE
      BY DEF Feedless
    <2>1. f \in 0 .. end - 1 /\ f >= last /\ f \in Int
      BY <1>13, SMT
    <2>2. PICK i \in 1 .. Len(ends) : ends[i] = f + 1
      BY <1>11, <2>1
    <2>3. i = Len(ends) \/ ends[i] < last
      BY <1>10, <1>12, SMT
    <2> HIDE DEF last
    <2> QED
      BY <1>13, <2>1, <2>2, <2>3, SMT DEF last
  <1>15. CutsLines(bytes, ends)
    <2>1. \A k \in 0 .. last - 1 : k \in 0 .. end - 1
      BY <1>13, SMT
    <2>2. last <= Len(bytes)
      <3>1. Len(bytes) \in Nat
        OBVIOUS
      <3> HIDE DEF last
      <3> QED
        BY <1>13, <3>1, SMT
    <2>3. Len(ends) >= 1
      BY <1>12, SMT
    <2> QED
      BY <1>7, <1>9, <1>10, <1>11, <2>1, <2>2, <2>3 DEF CutsLines
  <1>16. ASSUME NEW hint \in ReturnHints(bytes, Head(ends), end)
         PROVE  HintCovers(bytes, ends, hint)
    <2> SUFFICES ASSUME NEW i \in 2 .. Len(ends), At(bytes, ends[i] - 2) = CR
                 PROVE  hint = TRUE
      BY DEF HintCovers
    <2>1. Head(ends) = first
      BY <1>7, <1>12
    <2>2. i \in 1 .. Len(ends) /\ i - 1 \in 1 .. n /\ (i - 1) + 1 = i
      BY <1>6, <1>7, SMT
    <2>3. ends[i] = found[i - 1]
      BY <1>7, <2>2
    <2>4. ends[i] - 1 \in LineFeeds(bytes, first, end)
      BY <1>3, <2>2, <2>3 DEF n
    <2>5. (ends[i] - 1) - 1 = ends[i] - 2
      BY <1>9, <2>2, SMT
    <2> QED
      BY <2>1, <2>4, <2>5 DEF ReturnHints
  <1> QED
    BY <1>7, <1>13, <1>14, <1>15, <1>16 DEF ends, first, found

\* Only the bytes up to the last offset matter.
LEMMA CutsOtherBytes ==
    ASSUME NEW bytes, NEW ends, CutsLines(bytes, ends),
           NEW other, ends[Len(ends)] <= Len(other),
           \A k \in 1 .. ends[Len(ends)] : other[k] = bytes[k]
    PROVE  /\ CutsLines(other, ends)
           /\ \A hint : HintCovers(bytes, ends, hint) => HintCovers(other, ends, hint)
  <1> DEFINE last == ends[Len(ends)]
  <1>1. Len(ends) \in Nat /\ Len(ends) >= 1 /\ \A i \in 1 .. Len(ends) : ends[i] \in Nat /\ ends[i] >= 1
    BY DEF CutsLines
  <1>2. \A i, j \in 1 .. Len(ends) : i < j => ends[i] < ends[j]
    BY DEF CutsLines
  <1>3. Len(ends) \in 1 .. Len(ends)
    BY <1>1, SMT
  <1>4. last \in Nat
    BY <1>1, <1>3
  <1>5. \A i \in 1 .. Len(ends) : ends[i] <= last
    BY <1>1, <1>2, <1>3, SMT
  <1> HIDE DEF last
  <1>6. \A k \in 0 .. last - 1 : At(other, k) = At(bytes, k)
    <2> TAKE k \in 0 .. last - 1
    <2>1. k + 1 \in 1 .. last
      BY <1>4, SMT
    <2> QED
      BY <2>1 DEF At, last
  <1>7. \A i \in 1 .. Len(ends) : At(other, ends[i] - 1) = At(bytes, ends[i] - 1)
    <2> TAKE i \in 1 .. Len(ends)
    <2>1. ends[i] - 1 \in 0 .. last - 1
      BY <1>1, <1>4, <1>5, SMT
    <2> QED
      BY <1>6, <2>1
  <1>8. CutsLines(other, ends)
    BY <1>6, <1>7 DEF CutsLines, last
  <1>9. \A i \in 2 .. Len(ends) : At(other, ends[i] - 2) = At(bytes, ends[i] - 2)
    <2> TAKE i \in 2 .. Len(ends)
    <2>1. 1 \in 1 .. Len(ends) /\ i \in 1 .. Len(ends) /\ 1 < i
      BY <1>1, SMT
    <2>2. ends[1] < ends[i]
      BY <1>2, <2>1
    <2>3. ends[i] - 2 \in 0 .. last - 1
      BY <1>1, <1>4, <1>5, <2>1, <2>2, SMT
    <2> QED
      BY <1>6, <2>3
  <1> QED
    BY <1>8, <1>9 DEF HintCovers

\* One line more.
LEMMA OneMoreLine ==
    ASSUME NEW bytes, NEW ends, CutsLines(bytes, ends),
           NEW next \in Nat, ends[Len(ends)] < next, next <= Len(bytes),
           At(bytes, next - 1) = LF, Feedless(bytes, ends[Len(ends)], next - 1)
    PROVE  LET all == Append(ends, next)
           IN  /\ CutsLines(bytes, all)
               /\ Len(all) = Len(ends) + 1
               /\ all[Len(all)] = next
               /\ \A i \in 1 .. Len(ends) : all[i] = ends[i]
               /\ \A hint, more \in BOOLEAN :
                    (HintCovers(bytes, ends, hint) /\ (At(bytes, next - 2) = CR => more)) =>
                        HintCovers(bytes, all, hint \/ more)
  <1> DEFINE all == Append(ends, next)
             last == ends[Len(ends)]
             n == Len(ends)
  <1>1. /\ ends \in Seq(Nat) /\ n \in Nat /\ n >= 1
        /\ \A i \in 1 .. n : ends[i] \in Nat /\ ends[i] >= 1 /\ At(bytes, ends[i] - 1) = LF
        /\ \A i, j \in 1 .. n : i < j => ends[i] < ends[j]
        /\ \A k \in 0 .. last - 1 : At(bytes, k) = LF => \E i \in 1 .. n : ends[i] = k + 1
    BY DEF CutsLines
  <1>2. n \in 1 .. n /\ last \in Nat
    BY <1>1, SMT
  <1>3. \A i \in 1 .. n : ends[i] <= last
    <2> TAKE i \in 1 .. n
    <2>1. i = n \/ i < n
      BY <1>1, SMT
    <2>2. i < n => ends[i] < last
      BY <1>1, <1>2
    <2>3. i = n => ends[i] = last
      OBVIOUS
    <2>4. ends[i] \in Nat
      BY <1>1
    <2> HIDE DEF n, last
    <2> QED
      BY <1>2, <2>1, <2>2, <2>3, <2>4, SMT
  <1>4. /\ all \in Seq(Nat)
        /\ Len(all) = n + 1
        /\ all[n + 1] = next
        /\ \A i \in 1 .. n : all[i] = ends[i]
    BY <1>1, AppendProperties
  <1> HIDE DEF all, n, last
  <1>5. \A i \in 1 .. n + 1 : i \in 1 .. n \/ i = n + 1
    BY <1>1, SMT
  <1>6. \A i \in 1 .. n + 1 : all[i] >= 1 /\ At(bytes, all[i] - 1) = LF
    <2> TAKE i \in 1 .. n + 1
    <2>1. CASE i \in 1 .. n
      BY <1>1, <1>4, <2>1
    <2>2. CASE i = n + 1
      BY <1>2, <1>4, <2>2, SMT DEF last, n
    <2> QED
      BY <1>5, <2>1, <2>2
  <1>7. \A i, j \in 1 .. n + 1 : i < j => all[i] < all[j]
    <2> TAKE i, j \in 1 .. n + 1
    <2> HAVE i < j
    <2>1. i \in 1 .. n
      BY <1>1, SMT
    <2>2. all[i] = ends[i] /\ ends[i] <= last /\ ends[i] \in Nat
      BY <1>1, <1>3, <1>4, <2>1
    <2>3. CASE j \in 1 .. n
      BY <1>1, <1>4, <2>1, <2>3
    <2>4. CASE j = n + 1
      BY <1>2, <1>4, <2>2, <2>4, SMT DEF last, n
    <2> QED
      BY <1>5, <2>3, <2>4
  <1>8. \A k \in 0 .. next - 1 : At(bytes, k) = LF => \E i \in 1 .. n + 1 : all[i] = k + 1
    <2> SUFFICES ASSUME NEW k \in 0 .. next - 1, At(bytes, k) = LF
                 PROVE  \E i \in 1 .. n + 1 : all[i] = k + 1
      OBVIOUS
    <2>1. CASE k \in 0 .. last - 1
      <3>1. PICK i \in 1 .. n : ends[i] = k + 1
        BY <1>1, <2>1
      <3>2. i \in 1 .. n + 1 /\ all[i] = k + 1
        BY <1>1, <1>4, <3>1, SMT
      <3> QED
        BY <3>2
    <2>2. CASE k = next - 1
      <3>1. n + 1 \in 1 .. n + 1 /\ all[n + 1] = k + 1
        BY <1>1, <1>4, <2>2, SMT
      <3> QED
        BY <3>1
    <2>3. CASE k \notin 0 .. last - 1 /\ k # next - 1
      <3>1. k \in last .. (next - 1) - 1
        BY <1>2, <2>3, SMT
      <3> QED
        BY <3>1 DEF Feedless, last, n
    <2> QED
      BY <2>1, <2>2, <2>3
  <1>9. CutsLines(bytes, all)
    <2>1. n + 1 >= 1
      BY <1>1, SMT
    <2> QED
      BY <1>4, <1>6, <1>7, <1>8, <2>1 DEF CutsLines
  <1>10. ASSUME NEW hint \in BOOLEAN, NEW more \in BOOLEAN, HintCovers(bytes, ends, hint),
                At(bytes, next - 2) = CR => more
         PROVE  HintCovers(bytes, all, hint \/ more)
    <2> SUFFICES ASSUME NEW i \in 2 .. n + 1, At(bytes, all[i] - 2) = CR
                 PROVE  (hint \/ more) = TRUE
      BY <1>4 DEF HintCovers
    <2>1. i \in 2 .. n \/ i = n + 1
      BY <1>1, SMT
    <2>2. i \in 2 .. n => i \in 1 .. n
      BY SMT
    <2>3. CASE i \in 2 .. n
      BY <1>4, <1>10, <2>2, <2>3 DEF HintCovers, n
    <2>4. CASE i = n + 1
      BY <1>4, <1>10, <2>4
    <2> QED
      BY <2>1, <2>3, <2>4
  <1> QED
    BY <1>4, <1>9, <1>10 DEF all, n

-----------------------------------------------------------------------------
(* Texts of lines.                                                         *)

\* Where the text of a line ends that ends with the line feed before to.
TextEnd(bytes, to) == IF At(bytes, to - 2) = CR THEN to - 2 ELSE to - 1

\* One slice is another without its last byte.
LEMMA FrontOfSlice ==
    ASSUME NEW bytes \in Seq(Byte), NEW from \in Nat, NEW to \in Nat,
           from < to, to <= Len(bytes)
    PROVE  /\ Front(Slice(bytes, from, to)) = Slice(bytes, from, to - 1)
           /\ Last(Slice(bytes, from, to)) = At(bytes, to - 1)
           /\ Slice(bytes, from, to) # <<>>
  <1> DEFINE line == Slice(bytes, from, to)
             less == Slice(bytes, from, to - 1)
  <1> HIDE DEF Byte
  <1>1. to - 1 \in Nat /\ to - 1 <= Len(bytes) /\ from <= to - 1 /\ from <= to
    BY SMT
  <1>2. /\ line \in Seq(Byte)
        /\ Len(line) = to - from
        /\ \A k \in 1 .. to - from : line[k] = bytes[from + k]
    BY <1>1, SliceOfBytes
  <1>3. /\ less \in Seq(Byte)
        /\ Len(less) = (to - 1) - from
        /\ \A k \in 1 .. (to - 1) - from : less[k] = bytes[from + k]
    BY <1>1, SliceOfBytes
  <1> HIDE DEF line, less
  <1>4. Len(line) - 1 = Len(less) /\ Len(line) \in 1 .. to - from /\ Len(line) \in Nat /\ Len(line) # 0
    BY <1>1, <1>2, <1>3, SMT
  <1>5. /\ SubSeq(line, 1, Len(line) - 1) \in Seq(Byte)
        /\ Len(SubSeq(line, 1, Len(line) - 1)) = Len(less)
        /\ \A k \in 1 .. Len(less) : SubSeq(line, 1, Len(line) - 1)[k] = line[k]
    <2>1. \A i \in 1 .. Len(line) - 1 : line[i] \in Byte
      <3> TAKE i \in 1 .. Len(line) - 1
      <3>1. i \in 1 .. Len(line)
        BY <1>4, SMT
      <3> QED
        BY <1>2, <3>1
    <2> DEFINE m == Len(line) - 1
               part == SubSeq(line, 1, m)
    <2>2. m \in Int
      BY <1>4, SMT
    <2> HIDE DEF m
    <2>3. /\ part \in Seq(Byte)
          /\ Len(part) = IF 1 <= m THEN m - 1 + 1 ELSE 0
          /\ \A i \in 1 .. m - 1 + 1 : part[i] = line[1 + i - 1]
      BY <2>1, <2>2, SubSeqProperties DEF m
    <2>4. m = Len(less) /\ Len(less) \in Nat
      BY <1>3, <1>4 DEF m
    <2> HIDE DEF part
    <2>5. Len(part) = Len(less)
      BY <2>3, <2>4, SMT
    <2>6. ASSUME NEW k \in 1 .. Len(less)
          PROVE  part[k] = line[k]
      <3>1. k \in 1 .. m - 1 + 1 /\ 1 + k - 1 = k
        BY <2>4, SMT
      <3> QED
        BY <2>3, <3>1
    <2> QED
      BY <2>3, <2>5, <2>6 DEF part, m
  <1>6. SubSeq(line, 1, Len(line) - 1) = less
    <2> DEFINE part == SubSeq(line, 1, Len(line) - 1)
    <2>1. \A k \in 1 .. Len(less) : k \in 1 .. to - from /\ k \in 1 .. (to - 1) - from
      BY <1>2, <1>3, <1>4, SMT
    <2>2. \A k \in 1 .. Len(part) : part[k] = less[k]
      BY <1>2, <1>3, <1>5, <2>1
    <2> HIDE DEF part
    <2> QED
      BY <1>3, <1>5, <2>2, SeqEqual DEF part
  <1>7. Last(line) = bytes[to]
    <2>1. from + (to - from) = to
      BY SMT
    <2> QED
      BY <1>2, <1>4, <2>1 DEF Last
  <1>8. At(bytes, to - 1) = bytes[to]
    <2>1. (to - 1) + 1 = to
      BY SMT
    <2> QED
      BY <2>1 DEF At
  <1>9. line # <<>>
    <2> SUFFICES ASSUME line = <<>>
                 PROVE  FALSE
      OBVIOUS
    <2>1. Len(line) = 0
      OBVIOUS
    <2> QED
      BY <1>4, <2>1
  <1> QED
    BY <1>6, <1>7, <1>8, <1>9 DEF line, less, Front

\* The text of a line is cut off in the same place whether the line is taken
\* alone or from a batch, given the hint.
LEMMA TextOfLine ==
    ASSUME NEW bytes \in Seq(Byte), NEW from \in Nat \ {0}, NEW to \in Nat,
           from < to, to <= Len(bytes), At(bytes, from - 1) = LF,
           NEW hint \in BOOLEAN, At(bytes, to - 2) = CR => hint
    PROVE  /\ TextEnd(bytes, to) \in from .. to - 1
           /\ Trimmed(Slice(bytes, from, to), hint) = Slice(bytes, from, TextEnd(bytes, to))
           /\ BatchTrimmed(bytes, from, to) = Slice(bytes, from, TextEnd(bytes, to))
  <1> DEFINE line == Slice(bytes, from, to)
             less == Slice(bytes, from, to - 1)
  <1> HIDE DEF Byte
  <1>1. from \in Nat /\ to - 1 \in Nat /\ to - 1 <= Len(bytes) /\ from <= to - 1
    BY SMT
  <1>2. Front(line) = less
    BY <1>1, FrontOfSlice
  <1>3. BatchTrimmed(bytes, from, to) = Slice(bytes, from, TextEnd(bytes, to))
    BY DEF BatchTrimmed, TextEnd
  <1>4. CASE from = to - 1
    <2>1. from - 1 = to - 2
      BY <1>4, SMT
    <2>2. TextEnd(bytes, to) = to - 1
      BY <2>1 DEF TextEnd, LF, CR
    <2>3. less = <<>>
      <3>1. (from + 1) \in Int /\ to - 1 \in Int /\ to - 1 < from + 1
        BY <1>4, SMT
      <3> QED
        BY <3>1, SubSeqEmpty DEF Slice
    <2>4. Trimmed(line, hint) = less
      BY <1>2, <2>3 DEF Trimmed
    <2> QED
      BY <1>1, <1>3, <1>4, <2>2, <2>4
  <1>5. CASE from # to - 1
    <2>1. from < to - 1 /\ (to - 1) - 1 = to - 2 /\ to - 2 \in from .. to - 1 /\ to - 1 \in from .. to - 1
      BY <1>1, <1>5, SMT
    <2>2. /\ Front(less) = Slice(bytes, from, to - 2)
          /\ Last(less) = At(bytes, to - 2)
          /\ less # <<>>
      <3>1. /\ Front(less) = Slice(bytes, from, (to - 1) - 1)
            /\ Last(less) = At(bytes, (to - 1) - 1)
            /\ less # <<>>
        BY <1>1, <2>1, FrontOfSlice
      <3> QED
        BY <2>1, <3>1
    <2>3. CASE At(bytes, to - 2) = CR
      <3>1. TextEnd(bytes, to) = to - 2
        BY <2>3 DEF TextEnd
      <3>2. Trimmed(line, hint) = Slice(bytes, from, to - 2)
        BY <1>2, <2>2, <2>3 DEF Trimmed
      <3> QED
        BY <1>3, <2>1, <3>1, <3>2
    <2>4. CASE At(bytes, to - 2) # CR
      <3>1. TextEnd(bytes, to) = to - 1
        BY <2>4 DEF TextEnd
      <3>2. Trimmed(line, hint) = less
        BY <1>2, <2>2, <2>4 DEF Trimmed
      <3> QED
        BY <1>3, <2>1, <3>1, <3>2
    <2> QED
      BY <2>3, <2>4
  <1> QED
    BY <1>4, <1>5

\* exceedsLineLimit measures the text, of a line with its line feed and of one
\* that has none.
LEMMA LimitMeasuresText ==
    ASSUME NEW bytes \in Seq(Byte), NEW from \in Nat \ {0}, NEW to \in Nat,
           from <= to, to <= Len(bytes), At(bytes, from - 1) = LF, NEW limit \in Nat
    PROVE  /\ (from < to /\ At(bytes, to - 1) = LF) =>
                (ExceedsLineLimit(Slice(bytes, from, to), limit)
                   <=> TextEnd(bytes, to) - from > limit)
           /\ (from < to /\ At(bytes, to - 1) # LF) =>
                (ExceedsLineLimit(Slice(bytes, from, to), limit) <=> to - from > limit)
           /\ from = to => ~ ExceedsLineLimit(Slice(bytes, from, to), limit)
  <1> DEFINE line == Slice(bytes, from, to)
  <1> HIDE DEF Byte
  <1>1. from \in Nat
    BY SMT
  <1>2. Len(line) = to - from /\ \A k \in 1 .. to - from : line[k] = bytes[from + k]
    <2>1. /\ Len(line) = (IF from <= to THEN to - from ELSE 0)
          /\ \A k \in 1 .. to - from : line[k] = bytes[from + k]
      BY <1>1, SliceOfBytes
    <2> QED
      BY <2>1
  <1> HIDE DEF line
  <1>3. ASSUME from < to
        PROVE  Last(line) = At(bytes, to - 1)
    BY <1>1, <1>3, FrontOfSlice DEF line
  <1>4. CASE from = to
    BY <1>2, <1>4, SMT DEF ExceedsLineLimit, line
  <1>5. CASE from < to /\ At(bytes, to - 1) # LF
    BY <1>2, <1>3, <1>5, SMT DEF ExceedsLineLimit, line
  <1>6. CASE from < to /\ At(bytes, to - 1) = LF
    <2>1. Last(line) = LF
      BY <1>3, <1>6
    <2>2. CASE to - from = 1
      <3>1. from - 1 = to - 2
        BY <2>2, SMT
      <3>2. TextEnd(bytes, to) = to - 1
        BY <3>1 DEF TextEnd, LF, CR
      <3>3. ~ (TextEnd(bytes, to) - from > limit) /\ ~ (Len(line) - 1 > limit)
        BY <1>2, <2>2, <3>2, SMT
      <3> QED
        BY <1>6, <2>1, <3>3 DEF ExceedsLineLimit, line
    <2>3. CASE to - from # 1
      <3>1. to - from - 1 \in 1 .. to - from /\ from + (to - from - 1) = (to - 2) + 1
        BY <1>6, <2>3, SMT
      <3>2. line[Len(line) - 1] = At(bytes, to - 2)
        BY <1>2, <3>1 DEF At
      <3> DEFINE last == At(bytes, to - 2)
                 text == TextEnd(bytes, to)
      <3>3. text = IF last = CR THEN to - 2 ELSE to - 1
        BY DEF TextEnd
      <3>4. ExceedsLineLimit(line, limit) <=>
              /\ to - from > limit
              /\ to - from - 1 > limit
              /\ to - from - 2 > limit \/ last # CR
        BY <1>2, <2>1, <3>2 DEF ExceedsLineLimit
      <3> HIDE DEF last, text
      <3>5. ExceedsLineLimit(line, limit) <=> text - from > limit
        <4>1. CASE last = CR
          BY <3>3, <3>4, <4>1, SMT
        <4>2. CASE last # CR
          BY <3>3, <3>4, <4>2, SMT
        <4> QED
          BY <4>1, <4>2
      <3> QED
        BY <1>6, <3>5 DEF line, text
    <2> QED
      BY <2>2, <2>3
  <1> QED
    BY <1>4, <1>5, <1>6, SMT

-----------------------------------------------------------------------------
(* Lines of the file.                                                      *)

\* Bytes of a block that agree with the file give the same text.
LEMMA SameSlice ==
    ASSUME NEW bytes \in Seq(Byte), NEW file \in Seq(Byte), NEW offset \in Int,
           NEW from \in Nat, NEW to \in Nat, from <= to,
           to <= Len(bytes), 0 <= offset + from, offset + to <= Len(file),
           \A k \in from .. to - 1 : At(bytes, k) = At(file, offset + k)
    PROVE  Slice(bytes, from, to) = Slice(file, offset + from, offset + to)
  <1> DEFINE part == Slice(bytes, from, to)
             same == Slice(file, offset + from, offset + to)
  <1> HIDE DEF Byte
  <1>1. /\ part \in Seq(Byte)
        /\ Len(part) = to - from
        /\ \A k \in 1 .. to - from : part[k] = bytes[from + k]
    BY SliceOfBytes
  <1>2. offset + from \in Nat /\ offset + to \in Nat /\ offset + from <= offset + to
        /\ (offset + to) - (offset + from) = to - from
    BY SMT
  <1>3. /\ same \in Seq(Byte)
        /\ Len(same) = to - from
        /\ \A k \in 1 .. to - from : same[k] = file[(offset + from) + k]
    <2> DEFINE low  == offset + from
               high == offset + to
    <2>1. low \in Nat /\ high \in Nat /\ low <= high /\ high <= Len(file) /\ high - low = to - from
      BY <1>2
    <2> HIDE DEF low, high
    <2>2. /\ Slice(file, low, high) \in Seq(Byte)
          /\ Len(Slice(file, low, high)) = (IF low <= high THEN high - low ELSE 0)
          /\ \A k \in 1 .. high - low : Slice(file, low, high)[k] = file[low + k]
      BY <2>1, SliceOfBytes
    <2> QED
      BY <2>1, <2>2 DEF low, high
  <1> HIDE DEF part, same
  <1>4. \A k \in 1 .. Len(part) : part[k] = same[k]
    <2> TAKE k \in 1 .. Len(part)
    <2>1. k \in 1 .. to - from
      BY <1>1
    <2>2. from + k - 1 \in from .. to - 1
          /\ (from + k - 1) + 1 = from + k
          /\ (offset + (from + k - 1)) + 1 = (offset + from) + k
      BY <2>1, SMT
    <2>3. bytes[from + k] = file[(offset + from) + k]
      BY <2>2 DEF At
    <2> QED
      BY <1>1, <1>3, <2>1, <2>3
  <1> QED
    BY <1>1, <1>3, <1>4, SeqEqual DEF part, same

\* The text of a line of the file that ends with this line feed, and of one
\* that ends with the file.
LEMMA TextInFile ==
    ASSUME NEW file \in Seq(Byte), NEW start \in Nat
    PROVE  /\ \A feed \in start .. Len(file) - 1 :
                (At(file, feed) = LF /\ Feedless(file, start, feed)) =>
                    LineText(file, start) =
                        Slice(file, start, IF start < feed /\ At(file, feed - 1) = CR
                                           THEN feed - 1 ELSE feed)
           /\ Feedless(file, start, Len(file)) => LineText(file, start) = Slice(file, start, Len(file))
  <1> DEFINE feeds == LineFeeds(file, start, Len(file))
             line  == Slice(file, start, Min(feeds))
  <1> HIDE DEF Byte
  <1>1. Len(file) \in Nat
    OBVIOUS
  <1>2. ASSUME NEW feed \in start .. Len(file) - 1, At(file, feed) = LF, Feedless(file, start, feed)
        PROVE  LineText(file, start) =
                  Slice(file, start, IF start < feed /\ At(file, feed - 1) = CR THEN feed - 1 ELSE feed)
    <2>1. feed \in feeds
      BY <1>2 DEF LineFeeds
    <2>2. /\ Min(feeds) \in start .. Len(file) - 1
          /\ At(file, Min(feeds)) = LF
          /\ \A k \in start .. Min(feeds) - 1 : At(file, k) # LF
      BY <1>1, <2>1, LeastFeed
    <2>3. Min(feeds) = feed
      <3> DEFINE m == Min(feeds)
      <3> HIDE DEF m
      <3>1. ~ (m < feed)
        <4> SUFFICES ASSUME m < feed
                     PROVE  FALSE
          OBVIOUS
        <4>1. m \in start .. feed - 1
          BY <2>2, SMT DEF m
        <4> QED
          BY <1>2, <2>2, <4>1 DEF Feedless, m
      <3>2. ~ (feed < m)
        <4> SUFFICES ASSUME feed < m
                     PROVE  FALSE
          OBVIOUS
        <4>1. feed \in start .. m - 1
          BY <2>2, SMT DEF m
        <4> QED
          BY <1>2, <2>2, <4>1 DEF m
      <3> QED
        BY <2>2, <3>1, <3>2, SMT DEF m
    <2>4. LineText(file, start) =
            LET text == Slice(file, start, feed)
            IN  IF text # <<>> /\ Last(text) = CR THEN Front(text) ELSE text
      BY <2>1, <2>3 DEF LineText
    <2> HIDE DEF feeds
    <2>5. feed \in Nat /\ start <= feed /\ feed <= Len(file)
      BY <1>1, SMT
    <2>6. CASE start < feed
      <3>1. /\ Front(Slice(file, start, feed)) = Slice(file, start, feed - 1)
            /\ Last(Slice(file, start, feed)) = At(file, feed - 1)
            /\ Slice(file, start, feed) # <<>>
        BY <2>5, <2>6, FrontOfSlice
      <3> QED
        BY <2>4, <2>6, <3>1
    <2>7. CASE start = feed
      <3>1. start + 1 \in Int /\ feed \in Int /\ feed < start + 1
        BY <2>5, <2>7, SMT
      <3>2. Slice(file, start, feed) = <<>>
        BY <3>1, SubSeqEmpty DEF Slice
      <3>3. ~ (start < feed)
        BY <2>7, SMT
      <3> QED
        BY <2>4, <3>2, <3>3
    <2> QED
      BY <2>5, <2>6, <2>7, SMT
  <1>3. ASSUME Feedless(file, start, Len(file))
        PROVE  LineText(file, start) = Slice(file, start, Len(file))
    <2>1. feeds = {}
      BY <1>3 DEF Feedless, LineFeeds
    <2> QED
      BY <2>1 DEF LineText
  <1> QED
    BY <1>2, <1>3

\* A block holds these bytes of the file, and a line feed before its first byte.
HoldsFile(bytes, file, offset) ==
    \A k \in 0 .. Len(bytes) - 1 :
        offset + k < Len(file) =>
            At(bytes, k) = IF offset + k < 0 THEN LF ELSE At(file, offset + k)

\* When the file ends before this offset, what fills the gap is a terminator.
Terminated(bytes, file, offset, to) ==
    offset + to > Len(file) =>
        IF At(bytes, (Len(file) - offset) - 1) = CR
        THEN to = (Len(file) - offset) + 2 /\ At(bytes, Len(file) - offset) = CR
        ELSE to = (Len(file) - offset) + 1

\* A whole line in a block is a line of the file, and its text is that line's.
LEMMA LineInFile ==
    ASSUME NEW bytes \in Seq(Byte), NEW file \in Seq(Byte), NEW offset \in Int, -1 <= offset,
           NEW from \in Nat \ {0}, NEW to \in Nat, from < to, to <= Len(bytes),
           offset + from < Len(file),
           At(bytes, from - 1) = LF, At(bytes, to - 1) = LF, Feedless(bytes, from, to - 1),
           HoldsFile(bytes, file, offset), Terminated(bytes, file, offset, to)
    PROVE  /\ offset + from \in LineStarts(file)
           /\ LineText(file, offset + from) = Slice(bytes, from, TextEnd(bytes, to))
           /\ TextEnd(bytes, to) \in from .. to - 1
  <1> DEFINE start == offset + from
             size  == Len(file)
             text  == TextEnd(bytes, to)
  <1> HIDE DEF Byte
  <1>1. size \in Nat /\ Len(bytes) \in Nat /\ from \in Nat /\ start \in Nat /\ start < size
    BY SMT
  <1>2. text = IF At(bytes, to - 2) = CR THEN to - 2 ELSE to - 1
    BY DEF TextEnd
  <1>3. \A k \in 0 .. Len(bytes) - 1 : (0 <= offset + k /\ offset + k < size) =>
            At(bytes, k) = At(file, offset + k)
    BY SMT DEF HoldsFile
  <1>4. start \in LineStarts(file)
    <2>1. start = 0 \/ At(file, start - 1) = LF
      <3>1. CASE start # 0
        <4>1. from - 1 \in 0 .. Len(bytes) - 1 /\ offset + (from - 1) = start - 1
              /\ 0 <= start - 1 /\ start - 1 < size
          BY <1>1, <3>1, SMT
        <4> QED
          BY <1>3, <4>1
      <3> QED
        BY <3>1
    <2>2. start \in 0 .. size - 1
      BY <1>1, SMT
    <2> QED
      BY <2>1, <2>2 DEF LineStarts
  <1>5. text \in from .. to - 1
    <2>1. CASE from = to - 1
      <3>1. from - 1 = to - 2
        BY <2>1, SMT
      <3>2. At(bytes, to - 2) # CR
        BY <3>1 DEF LF, CR
      <3>3. text = to - 1
        BY <1>2, <3>2
      <3> HIDE DEF text
      <3> QED
        BY <2>1, <3>3, SMT
    <2>2. CASE from # to - 1
      <3>1. to - 2 \in from .. to - 1 /\ to - 1 \in from .. to - 1
        BY <1>1, <2>2, SMT
      <3> QED
        BY <1>2, <3>1
    <2> QED
      BY <2>1, <2>2
  <1> DEFINE end == offset + text
  <1>6. \A k \in from .. text - 1 : k \in 0 .. Len(bytes) - 1 /\ 0 <= offset + k
    <2> HIDE DEF text
    <2> QED
      BY <1>1, <1>5, SMT
  <1>7. ASSUME offset + text <= size
        PROVE  Slice(bytes, from, text) = Slice(file, start, end)
    <2>1. text \in Nat /\ from <= text /\ text <= Len(bytes)
      <3> HIDE DEF text
      <3> QED
        BY <1>1, <1>5, SMT
    <2>2. \A k \in from .. text - 1 : At(bytes, k) = At(file, offset + k)
      <3> TAKE k \in from .. text - 1
      <3>1. offset + k < size
        <4> HIDE DEF text
        <4> QED
          BY <1>7, <2>1, SMT
      <3> QED
        BY <1>3, <1>6, <3>1
    <2> HIDE DEF text
    <2> QED
      BY <1>1, <1>7, <2>1, <2>2, SameSlice
  <1>8. CASE offset + to <= size
    <2> DEFINE feed == offset + (to - 1)
    <2>1. /\ feed \in start .. size - 1
          /\ feed - 1 = offset + (to - 2)
          /\ to - 1 \in 0 .. Len(bytes) - 1
          /\ feed \in Nat
      BY <1>1, <1>8, SMT
    <2>2. At(file, feed) = LF
      <3>1. 0 <= feed /\ feed < size
        BY <1>1, <2>1, SMT
      <3> QED
        BY <1>3, <2>1, <3>1
    <2>3. Feedless(file, start, feed)
      <3> SUFFICES ASSUME NEW k \in start .. feed - 1
                   PROVE  At(file, k) # LF
        BY DEF Feedless
      <3>1. /\ k - offset \in from .. (to - 1) - 1
            /\ k - offset \in 0 .. Len(bytes) - 1
            /\ offset + (k - offset) = k
            /\ 0 <= k /\ k < size
        BY <1>1, <2>1, SMT
      <3> QED
        BY <1>3, <3>1 DEF Feedless
    <2>4. LineText(file, start) =
             Slice(file, start, IF start < feed /\ At(file, feed - 1) = CR THEN feed - 1 ELSE feed)
      <3> HIDE DEF feed, start
      <3> QED
        BY <1>1, <2>1, <2>2, <2>3, TextInFile
    <2>5. (start < feed /\ At(file, feed - 1) = CR) <=> At(bytes, to - 2) = CR
      <3>1. CASE start < feed
        <4>1. to - 2 \in 0 .. Len(bytes) - 1 /\ 0 <= feed - 1 /\ feed - 1 < size
          BY <1>1, <2>1, <3>1, SMT
        <4> QED
          BY <1>3, <2>1, <3>1, <4>1
      <3>2. CASE ~ (start < feed)
        <4>1. from - 1 = to - 2
          BY <2>1, <3>2, SMT
        <4> QED
          BY <3>2, <4>1 DEF LF, CR
      <3> QED
        BY <3>1, <3>2
    <2>6. end = IF At(bytes, to - 2) = CR THEN feed - 1 ELSE feed
      BY <1>2, <2>1
    <2>7. offset + text <= size
      <3> HIDE DEF text
      <3> QED
        BY <1>5, <1>8, SMT
    <2>8. LineText(file, start) = Slice(file, start, end)
      BY <2>4, <2>5, <2>6
    <2> QED
      BY <1>4, <1>5, <1>7, <2>7, <2>8
  <1>9. CASE ~ (offset + to <= size)
    <2> DEFINE tail == size - offset
    <2>1. tail \in Nat /\ from < tail /\ tail <= to - 1 /\ offset + tail = size /\ offset + to > size
      BY <1>1, <1>9, SMT
    <2>2. IF At(bytes, tail - 1) = CR
          THEN to = tail + 2 /\ At(bytes, tail) = CR
          ELSE to = tail + 1
      BY <2>1 DEF Terminated
    <2>3. text = tail
      <3>1. CASE At(bytes, tail - 1) = CR
        <4>1. to - 2 = tail /\ At(bytes, tail) = CR
          BY <2>1, <2>2, <3>1, SMT
        <4> QED
          BY <1>2, <4>1
      <3>2. CASE At(bytes, tail - 1) # CR
        <4>1. to - 2 = tail - 1 /\ to - 1 = tail
          BY <2>1, <2>2, <3>2, SMT
        <4> QED
          BY <1>2, <3>2, <4>1
      <3> QED
        BY <3>1, <3>2
    <2>4. Feedless(file, start, size)
      <3> SUFFICES ASSUME NEW k \in start .. size - 1
                   PROVE  At(file, k) # LF
        BY DEF Feedless
      <3>1. /\ k - offset \in from .. (to - 1) - 1
            /\ k - offset \in 0 .. Len(bytes) - 1
            /\ offset + (k - offset) = k
            /\ 0 <= k /\ k < size
        BY <1>1, <2>1, SMT
      <3> QED
        BY <1>3, <3>1 DEF Feedless
    <2>5. LineText(file, start) = Slice(file, start, size)
      <3> HIDE DEF start
      <3> QED
        BY <1>1, <2>4, TextInFile
    <2>6. end = size /\ offset + text <= size
      BY <2>1, <2>3
    <2> QED
      BY <1>4, <1>5, <1>7, <2>5, <2>6
  <1> QED
    BY <1>8, <1>9

\* A line whose end was not found yet is at least as long as the part of it
\* that is known, but for the CR that may end it.
LEMMA OpenLineInFile ==
    ASSUME NEW bytes \in Seq(Byte), NEW file \in Seq(Byte), NEW offset \in Int, -1 <= offset,
           NEW from \in Nat \ {0}, from <= Len(bytes),
           offset + from < Len(file), offset + Len(bytes) <= Len(file),
           At(bytes, from - 1) = LF, Feedless(bytes, from, Len(bytes)),
           HoldsFile(bytes, file, offset)
    PROVE  /\ offset + from \in LineStarts(file)
           /\ LineText(file, offset + from) \in Seq(Byte)
           /\ Len(LineText(file, offset + from)) >= Len(bytes) - from - 1
           /\ offset + Len(bytes) = Len(file) =>
                 Len(LineText(file, offset + from)) = Len(bytes) - from
  <1> DEFINE start == offset + from
             size  == Len(file)
             known == Len(bytes)
             feeds == LineFeeds(file, start, size)
  <1> HIDE DEF Byte
  <1>1. size \in Nat /\ known \in Nat /\ from \in Nat /\ start \in Nat /\ start < size
    BY SMT
  <1>2. \A k \in 0 .. known - 1 : (0 <= offset + k /\ offset + k < size) =>
            At(bytes, k) = At(file, offset + k)
    BY SMT DEF HoldsFile
  <1>3. start \in LineStarts(file)
    <2>1. start = 0 \/ At(file, start - 1) = LF
      <3>1. CASE start # 0
        <4>1. from - 1 \in 0 .. known - 1 /\ offset + (from - 1) = start - 1
              /\ 0 <= start - 1 /\ start - 1 < size
          BY <1>1, <3>1, SMT
        <4> QED
          BY <1>2, <4>1
      <3> QED
        BY <3>1
    <2>2. start \in 0 .. size - 1
      BY <1>1, SMT
    <2> QED
      BY <2>1, <2>2 DEF LineStarts
  <1>4. \A k \in start .. (offset + known) - 1 : At(file, k) # LF
    <2> TAKE k \in start .. (offset + known) - 1
    <2>1. /\ k - offset \in from .. known - 1
          /\ k - offset \in 0 .. known - 1
          /\ offset + (k - offset) = k
          /\ 0 <= k /\ k < size
      BY <1>1, SMT
    <2> QED
      BY <1>2, <2>1 DEF Feedless
  <1>5. CASE feeds = {}
    <2>1. Feedless(file, start, size)
      BY <1>5 DEF Feedless, LineFeeds
    <2>2. LineText(file, start) = Slice(file, start, size)
      <3> HIDE DEF start
      <3> QED
        BY <1>1, <2>1, TextInFile
    <2>3. Slice(file, start, size) \in Seq(Byte) /\ Len(Slice(file, start, size)) = size - start
      <3>1. start <= size /\ size <= Len(file)
        BY <1>1, SMT
      <3> HIDE DEF start
      <3> QED
        BY <1>1, <3>1, PartOfBytes
    <2> QED
      BY <1>1, <1>3, <2>2, <2>3, SMT
  <1>6. CASE feeds # {}
    <2> DEFINE feed == Min(feeds)
               end  == IF start < feed /\ At(file, feed - 1) = CR THEN feed - 1 ELSE feed
    <2>1. /\ feed \in start .. size - 1
          /\ At(file, feed) = LF
          /\ \A k \in start .. feed - 1 : At(file, k) # LF
      <3> HIDE DEF start
      <3> QED
        BY <1>1, <1>6, LeastFeed
    <2> HIDE DEF feed
    <2>2. feed \notin start .. (offset + known) - 1
      BY <1>4, <2>1
    <2>3. feed >= offset + known /\ feed \in Nat /\ start <= feed /\ feed < size
      BY <1>1, <2>1, <2>2, SMT
    <2>4. LineText(file, start) = Slice(file, start, end)
      <3> HIDE DEF start
      <3> QED
        BY <1>1, <2>1, TextInFile DEF Feedless
    <2>5. end \in Nat /\ start <= end /\ end <= size /\ end >= (offset + known) - 1
      <3>1. CASE start < feed
        BY <1>1, <2>3, <3>1, SMT
      <3>2. CASE ~ (start < feed)
        BY <1>1, <2>3, <3>2, SMT
      <3> QED
        BY <3>1, <3>2
    <2> HIDE DEF end
    <2>6. Slice(file, start, end) \in Seq(Byte) /\ Len(Slice(file, start, end)) = end - start
      <3> HIDE DEF start
      <3> QED
        BY <1>1, <2>5, PartOfBytes
    <2>7. ~ (offset + known = size)
      BY <1>1, <2>3, SMT
    <2> QED
      BY <1>1, <1>3, <2>4, <2>5, <2>6, <2>7, SMT
  <1> QED
    BY <1>5, <1>6

\* The last line of a file with the terminator that it lacks.
LEMMA TerminatorEndsLine ==
    ASSUME NEW bytes \in Seq(Byte), NEW from \in Nat, from < Len(bytes),
           Feedless(bytes, from, Len(bytes))
    PROVE  LET all == bytes \o Terminator(bytes)
           IN  /\ all \in Seq(Byte)
               /\ Len(all) = IF Last(bytes) = CR THEN Len(bytes) + 2 ELSE Len(bytes) + 1
               /\ \A k \in 1 .. Len(bytes) : all[k] = bytes[k]
               /\ At(all, Len(all) - 1) = LF
               /\ Feedless(all, from, Len(all) - 1)
               /\ TextEnd(all, Len(all)) = Len(bytes)
               /\ At(all, Len(all) - 2) = CR => Last(bytes) = CR
               /\ At(all, Len(bytes) - 1) = Last(bytes)
               /\ Last(bytes) = CR => At(all, Len(bytes)) = CR
  <1> DEFINE n   == Len(bytes)
             end == Terminator(bytes)
             all == bytes \o end
  <1>1. n \in Nat /\ n >= 1 /\ from < n
    BY SMT
  <1>2. \A k \in from .. n - 1 : bytes[k + 1] # LF
    BY DEF Feedless, At
  <1>3. Last(bytes) = bytes[n]
    BY DEF Last
  <1> USE DEF Byte
  <1>4. CASE Last(bytes) = CR
    <2>1. end = <<CR, LF>>
      BY <1>4 DEF Terminator
    <2> HIDE DEF end
    <2>2. end \in Seq(Byte) /\ Len(end) = 2 /\ end[1] = CR /\ end[2] = LF
      BY <2>1
    <2>3. /\ all \in Seq(Byte) /\ Len(all) = n + 2
          /\ \A k \in 1 .. n : all[k] = bytes[k]
          /\ all[n + 1] = CR /\ all[n + 2] = LF
      <3> HIDE DEF Byte
      <3>0. /\ bytes \o end \in Seq(Byte)
            /\ Len(bytes \o end) = Len(bytes) + Len(end)
            /\ \A k \in 1 .. Len(bytes) + Len(end) :
                 (bytes \o end)[k] = IF k <= Len(bytes) THEN bytes[k] ELSE end[k - Len(bytes)]
        BY <2>2, ConcatProperties
      <3>1. all \in Seq(Byte) /\ Len(all) = n + 2
        BY <2>2, <3>0
      <3>2. \A k \in 1 .. n + 2 : all[k] = IF k <= n THEN bytes[k] ELSE end[k - n]
        BY <2>2, <3>0
      <3>3. \A k \in 1 .. n : all[k] = bytes[k]
        BY <1>1, <3>2, SMT
      <3>4. (n + 1) - n = 1 /\ (n + 2) - n = 2 /\ n + 1 \in 1 .. n + 2 /\ n + 2 \in 1 .. n + 2
            /\ ~ (n + 1 <= n) /\ ~ (n + 2 <= n)
        BY <1>1, SMT
      <3>5. all[n + 1] = end[1] /\ all[n + 2] = end[2]
        BY <3>2, <3>4
      <3> QED
        BY <2>2, <3>1, <3>3, <3>5
    <2> HIDE DEF all, n, Byte
    <2>4. At(all, Len(all) - 1) = LF /\ At(all, Len(all) - 2) = CR /\ At(all, n) = CR
          /\ At(all, n - 1) = bytes[n]
      <3>1. (Len(all) - 1) + 1 = n + 2 /\ (Len(all) - 2) + 1 = n + 1 /\ (n - 1) + 1 = n /\ n \in 1 .. n
        BY <1>1, <2>3, SMT
      <3> QED
        BY <2>3, <3>1 DEF At
    <2>5. Feedless(all, from, Len(all) - 1)
      <3> SUFFICES ASSUME NEW k \in from .. (Len(all) - 1) - 1
                   PROVE  all[k + 1] # LF
        BY DEF Feedless, At
      <3>1. k = n \/ (k \in from .. n - 1 /\ k + 1 \in 1 .. n)
        BY <1>1, <2>3, SMT
      <3> QED
        BY <1>2, <2>3, <3>1 DEF CR, LF
    <2>6. TextEnd(all, Len(all)) = n
      BY <1>1, <2>3, <2>4, SMT DEF TextEnd
    <2> QED
      BY <1>3, <1>4, <2>3, <2>4, <2>5, <2>6 DEF all, n, end
  <1>5. CASE Last(bytes) # CR
    <2>1. end = <<LF>>
      BY <1>5 DEF Terminator
    <2> HIDE DEF end
    <2>2. end \in Seq(Byte) /\ Len(end) = 1 /\ end[1] = LF
      BY <2>1
    <2>3. /\ all \in Seq(Byte) /\ Len(all) = n + 1
          /\ \A k \in 1 .. n : all[k] = bytes[k]
          /\ all[n + 1] = LF
      <3> HIDE DEF Byte
      <3>0. /\ bytes \o end \in Seq(Byte)
            /\ Len(bytes \o end) = Len(bytes) + Len(end)
            /\ \A k \in 1 .. Len(bytes) + Len(end) :
                 (bytes \o end)[k] = IF k <= Len(bytes) THEN bytes[k] ELSE end[k - Len(bytes)]
        BY <2>2, ConcatProperties
      <3>1. all \in Seq(Byte) /\ Len(all) = n + 1
        BY <2>2, <3>0
      <3>2. \A k \in 1 .. n + 1 : all[k] = IF k <= n THEN bytes[k] ELSE end[k - n]
        BY <2>2, <3>0
      <3>3. \A k \in 1 .. n : all[k] = bytes[k]
        BY <1>1, <3>2, SMT
      <3>4. (n + 1) - n = 1 /\ n + 1 \in 1 .. n + 1 /\ ~ (n + 1 <= n)
        BY <1>1, SMT
      <3>5. all[n + 1] = end[1]
        BY <3>2, <3>4
      <3> QED
        BY <2>2, <3>1, <3>3, <3>5
    <2> HIDE DEF all, n, Byte
    <2>4. At(all, Len(all) - 1) = LF /\ At(all, Len(all) - 2) = bytes[n]
          /\ At(all, n - 1) = bytes[n]
      <3>1. (Len(all) - 1) + 1 = n + 1 /\ (Len(all) - 2) + 1 = n /\ (n - 1) + 1 = n /\ n \in 1 .. n
        BY <1>1, <2>3, SMT
      <3> QED
        BY <2>3, <3>1 DEF At
    <2>5. Feedless(all, from, Len(all) - 1)
      <3> SUFFICES ASSUME NEW k \in from .. (Len(all) - 1) - 1
                   PROVE  all[k + 1] # LF
        BY DEF Feedless, At
      <3>1. k \in from .. n - 1 /\ k + 1 \in 1 .. n
        BY <1>1, <2>3, SMT
      <3> QED
        BY <1>2, <2>3, <3>1
    <2>6. TextEnd(all, Len(all)) = n
      <3>1. TextEnd(all, Len(all)) = Len(all) - 1
        BY <1>3, <1>5, <2>4 DEF TextEnd
      <3> QED
        BY <1>1, <2>3, <3>1, SMT
    <2> QED
      BY <1>3, <1>5, <2>3, <2>4, <2>5, <2>6 DEF all, n, end
  <1> QED
    BY <1>4, <1>5

\* The same for what the block holds of the file.
LEMMA TerminatorFillsFile ==
    ASSUME NEW bytes \in Seq(Byte), NEW file \in Seq(Byte), NEW offset \in Int,
           offset + Len(bytes) = Len(file), bytes # <<>>,
           NEW all \in Seq(Byte),
           Len(all) = IF Last(bytes) = CR THEN Len(bytes) + 2 ELSE Len(bytes) + 1,
           \A k \in 1 .. Len(bytes) : all[k] = bytes[k],
           At(all, Len(bytes) - 1) = Last(bytes),
           Last(bytes) = CR => At(all, Len(bytes)) = CR
    PROVE  /\ Terminated(all, file, offset, Len(all))
           /\ HoldsFile(bytes, file, offset) => HoldsFile(all, file, offset)
  <1> HIDE DEF Byte
  <1>1. Len(bytes) \in Nat /\ Len(file) \in Nat /\ Len(file) - offset = Len(bytes)
        /\ (Len(file) - offset) - 1 = Len(bytes) - 1
    BY SMT
  <1>2. Terminated(all, file, offset, Len(all))
    BY <1>1 DEF Terminated
  <1>3. ASSUME HoldsFile(bytes, file, offset)
        PROVE  HoldsFile(all, file, offset)
    <2> SUFFICES ASSUME NEW k \in 0 .. Len(all) - 1, offset + k < Len(file)
                 PROVE  At(all, k) = IF offset + k < 0 THEN LF ELSE At(file, offset + k)
      BY DEF HoldsFile
    <2>1. k \in 0 .. Len(bytes) - 1 /\ k + 1 \in 1 .. Len(bytes)
      BY <1>1, SMT
    <2>2. At(all, k) = At(bytes, k)
      BY <2>1 DEF At
    <2> QED
      BY <1>3, <2>1, <2>2 DEF HoldsFile
  <1> QED
    BY <1>2, <1>3

-----------------------------------------------------------------------------
(* The loops of multiplyModulo and greatestCommonDivisor.                   *)

\* A number is twice its half, and one more when it is odd.
LEMMA HalfFacts ==
    ASSUME NEW n \in Nat \ {0}
    PROVE  /\ n \div 2 \in Nat /\ n \div 2 < n
           /\ n % 2 \in {0, 1}
           /\ n = 2 * (n \div 2) + (n % 2)
  <1>1. n \div 2 \in Int /\ n % 2 \in 0 .. 1 /\ n = 2 * (n \div 2) + (n % 2)
    BY DivisionFacts
  <1> QED
    BY <1>1, SMT

\* A remainder may be taken of a factor first.
LEMMA FactorRemainder ==
    ASSUME NEW a \in Nat, NEW b \in Nat, NEW n \in Nat \ {0}
    PROVE  ((a % n) * b) % n = (a * b) % n
  <1>1. a \div n \in Int /\ a % n \in 0 .. n - 1 /\ a = n * (a \div n) + (a % n)
    BY DivisionFacts
  <1> DEFINE q == a \div n
             r == a % n
  <1> HIDE DEF q, r
  <1>2. q \in Int /\ r \in Int /\ a = n * q + r
    BY <1>1, SMT DEF q, r
  <1>3. a * b = n * (q * b) + r * b /\ q * b \in Int /\ r * b \in Int
    BY <1>2, SMT
  <1>4. (n * (q * b) + r * b) % n = (r * b) % n
    BY <1>3, MultipleRemainder
  <1> QED
    BY <1>3, <1>4 DEF r

\* One round of multiplyModulo: what is left to add is what was, and the
\* doubled operand is only needed when something is left of the other.
LEMMA MultiplyRound ==
    ASSUME NEW modulus \in Nat \ {0, 1}, modulus < WordSize,
           NEW product \in 0 .. modulus - 1, NEW double \in 0 .. modulus - 1,
           NEW rest \in Nat \ {0}
    PROVE  LET added   == IF rest % 2 = 1 THEN AddModulo(product, double, modulus) ELSE product
               doubled == IF rest \div 2 # 0 THEN AddModulo(double, double, modulus) ELSE double
           IN  /\ added \in 0 .. modulus - 1
               /\ doubled \in 0 .. modulus - 1
               /\ (added + doubled * (rest \div 2)) % modulus = (product + double * rest) % modulus
  <1> DEFINE added   == IF rest % 2 = 1 THEN AddModulo(product, double, modulus) ELSE product
             doubled == IF rest \div 2 # 0 THEN AddModulo(double, double, modulus) ELSE double
             half    == rest \div 2
             odd     == rest % 2
  <1>1. half \in Nat /\ odd \in {0, 1} /\ rest = 2 * half + odd
    BY HalfFacts
  <1>2. product \in Nat /\ double \in Nat /\ modulus \in Nat \ {0}
        /\ product + double \in Nat /\ double + double \in Nat
    BY SMT
  <1>3. /\ AddModulo(product, double, modulus) = (product + double) % modulus
        /\ AddModulo(double, double, modulus) = (double + double) % modulus
    BY AddModuloExact
  <1>4. /\ product % modulus = product
        /\ double % modulus = double
    BY <1>2, SmallRemainder
  <1>5. added = (product + odd * double) % modulus
    <2>1. CASE odd = 1
      <3>1. product + odd * double = product + double
        BY <1>2, <2>1, SMT
      <3> QED
        BY <2>1, <3>1, <1>3
    <2>2. CASE odd = 0
      <3>1. product + odd * double = product
        BY <1>2, <2>2, SMT
      <3> QED
        BY <2>2, <3>1, <1>4
    <2> QED
      BY <1>1, <2>1, <2>2
  <1>6. doubled \in 0 .. modulus - 1 /\ (doubled * half) % modulus = ((double + double) * half) % modulus
    <2>1. CASE half = 0
      <3>1. doubled = double
        BY <2>1
      <3>2. doubled * half = 0 /\ (double + double) * half = 0
        BY <1>2, <2>1, <3>1, SMT
      <3> QED
        BY <3>1, <3>2
    <2>2. CASE half # 0
      <3>1. doubled = (double + double) % modulus
        BY <2>2, <1>3
      <3> HIDE DEF doubled, half
      <3>2. (double + double) % modulus \in 0 .. modulus - 1
        <4>1. double + double \in Int
          BY <1>2, SMT
        <4> QED
          BY <4>1, <1>2, DivisionFacts
      <3>3. (((double + double) % modulus) * half) % modulus = ((double + double) * half) % modulus
        BY <1>1, <1>2, FactorRemainder
      <3> QED
        BY <3>1, <3>2, <3>3
    <2> QED
      BY <2>1, <2>2
  <1> HIDE DEF half, odd
  <1>7. product + odd * double \in Nat /\ odd \in Nat
    BY <1>1, <1>2, SMT
  <1>8. added \in 0 .. modulus - 1
    <2> DEFINE sum == product + odd * double
    <2> HIDE DEF sum, added
    <2>1. sum \in Int /\ added = sum % modulus
      BY <1>5, <1>7, SMT DEF sum
    <2> QED
      BY <2>1, <1>2, DivisionFacts
  <1> DEFINE moved == doubled * half
             same  == (double + double) * half
             first == product + odd * double
  <1>9. moved \in Nat /\ same \in Nat /\ first \in Nat /\ first + same = product + double * rest
    <2> HIDE DEF doubled
    <2>1. doubled \in Nat
      BY <1>6, SMT
    <2>2. moved \in Nat /\ same \in Nat
      BY <2>1, <1>1, <1>2, SMT
    <2>3. double * rest = double * (2 * half) + double * odd
      BY <1>1, <1>2, <1>7, SMT
    <2>4. double * (2 * half) = same /\ double * odd = odd * double
      BY <1>1, <1>2, <1>7, SMT
    <2> QED
      BY <2>2, <2>3, <2>4, <1>1, <1>2, <1>7, SMT
  <1> HIDE DEF added, doubled, moved, same, first
  <1>10. added = first % modulus /\ moved % modulus = same % modulus /\ added % modulus = added
    BY <1>5, <1>6, <1>8, <1>2, SmallRemainder DEF first, moved, same
  <1>11. (added + moved) % modulus = (first + same) % modulus
    <2>1. added \in Int /\ moved \in Int /\ first \in Int /\ same \in Int
      BY <1>8, <1>9, SMT
    <2>2. ((added % modulus) + (moved % modulus)) % modulus = (added + moved) % modulus
      BY <2>1, <1>2, SumRemainder
    <2>3. ((first % modulus) + (same % modulus)) % modulus = (first + same) % modulus
      BY <2>1, <1>2, SumRemainder
    <2> QED
      BY <2>2, <2>3, <1>10
  <1> QED
    BY <1>6, <1>8, <1>9, <1>11 DEF added, doubled, half, moved
\* The loop's variables, what a round makes of them, and what it works towards.
LoopVariables(modulus) ==
    [product : 0 .. modulus - 1, left : 0 .. modulus - 1, right : Nat]

NextRound(v, modulus) ==
    [product |-> IF v.right % 2 = 1 THEN AddModulo(v.product, v.left, modulus) ELSE v.product,
     left |-> IF v.right \div 2 # 0 THEN AddModulo(v.left, v.left, modulus) ELSE v.left,
     right |-> v.right \div 2]

Due(v, modulus) == (v.product + v.left * v.right) % modulus

LEMMA RoundKeepsDue ==
    ASSUME NEW modulus \in Nat \ {0, 1}, modulus < WordSize,
           NEW v \in LoopVariables(modulus), v.right # 0
    PROVE  /\ NextRound(v, modulus) \in LoopVariables(modulus)
           /\ NextRound(v, modulus).right < v.right
           /\ Due(NextRound(v, modulus), modulus) = Due(v, modulus)
  <1> DEFINE product == v.product
             double  == v.left
             rest    == v.right
             added   == IF rest % 2 = 1 THEN AddModulo(product, double, modulus) ELSE product
             doubled == IF rest \div 2 # 0 THEN AddModulo(double, double, modulus) ELSE double
             half    == rest \div 2
             w       == NextRound(v, modulus)
  <1>1. product \in 0 .. modulus - 1 /\ double \in 0 .. modulus - 1 /\ rest \in Nat \ {0}
    BY DEF LoopVariables
  <1>2. w.product = added /\ w.left = doubled /\ w.right = half
        /\ w = [product |-> added, left |-> doubled, right |-> half]
    BY DEF NextRound
  <1>3. Due(v, modulus) = (product + double * rest) % modulus
    BY DEF Due
  <1>4. Due(w, modulus) = (w.product + w.left * w.right) % modulus
    BY DEF Due
  <1> HIDE DEF product, double, rest, w
  <1>5. half \in Nat /\ half < rest
    BY <1>1, HalfFacts
  <1>6. /\ added \in 0 .. modulus - 1
        /\ doubled \in 0 .. modulus - 1
        /\ (added + doubled * half) % modulus = (product + double * rest) % modulus
    BY <1>1, MultiplyRound
  <1> HIDE DEF added, doubled, half
  <1>7. w \in LoopVariables(modulus)
    BY <1>2, <1>5, <1>6 DEF LoopVariables
  <1> QED
    BY <1>2, <1>3, <1>4, <1>5, <1>6, <1>7 DEF w, rest

LEMMA NothingLeftIsDue ==
    ASSUME NEW modulus \in Nat \ {0, 1}, NEW v \in LoopVariables(modulus), v.right = 0
    PROVE  v.product = Due(v, modulus)
  <1>1. v.product \in 0 .. modulus - 1 /\ v.left \in Int
    BY DEF LoopVariables
  <1>2. v.product \in Nat /\ v.product < modulus /\ v.product + v.left * 0 = v.product
    BY <1>1, SMT
  <1>3. v.product % modulus = v.product
    BY <1>2, SmallRemainder
  <1> QED
    BY <1>2, <1>3 DEF Due

\* multiplyModulo returns the product modulo the modulus for all operands: it
\* ends, and no word on the way has to hold the product.
THEOREM MultiplyModuloExact ==
    ASSUME NEW modulus \in Nat, modulus < WordSize, NEW left \in Nat, NEW right \in Nat
    PROVE  MultiplyModulo(left, right, modulus) = ProductModulo(left, right, modulus)
  <1>1. CASE modulus <= 1
    BY <1>1 DEF MultiplyModulo, ProductModulo
  <1>2. CASE modulus > 1
    <2> DEFINE Loop(f) == f = [v \in LoopVariables(modulus) |->
                                 IF v.right = 0 THEN v.product ELSE f[NextRound(v, modulus)]]
               Multiply == CHOOSE f : Loop(f)
               exact == [v \in LoopVariables(modulus) |-> Due(v, modulus)]
               start == [product |-> 0, left |-> left % modulus, right |-> right]
    <2>1. modulus \in Nat \ {0, 1} /\ modulus \in Nat \ {0}
      BY <1>2, SMT
    <2>2. MultiplyModulo(left, right, modulus) = Multiply[start]
      <3>1. ~ (modulus <= 1)
        BY <1>2, SMT
      <3> QED
        BY <3>1, Zenon DEF MultiplyModulo, LoopVariables, NextRound
    <2>3. Loop(exact)
      <3>1. \A v \in LoopVariables(modulus) :
                Due(v, modulus) = IF v.right = 0 THEN v.product ELSE exact[NextRound(v, modulus)]
        <4> TAKE v \in LoopVariables(modulus)
        <4>1. CASE v.right = 0
          BY <4>1, <2>1, NothingLeftIsDue
        <4>2. CASE v.right # 0
          <5>1. /\ NextRound(v, modulus) \in LoopVariables(modulus)
                /\ Due(NextRound(v, modulus), modulus) = Due(v, modulus)
            BY <4>2, <2>1, RoundKeepsDue
          <5> QED
            BY <4>2, <5>1, Zenon
        <4> QED
          BY <4>1, <4>2
      <3> QED
        BY <3>1, Zenon
    <2>4. Loop(Multiply)
      <3> HIDE DEF Loop
      <3> QED
        BY <2>3, Zenon
    <2>5. \A v \in LoopVariables(modulus) :
              Multiply[v] = IF v.right = 0 THEN v.product ELSE Multiply[NextRound(v, modulus)]
      <3> HIDE DEF Multiply
      <3> QED
        BY <2>4, Zenon
    <2> HIDE DEF Loop, Multiply
    <2> DEFINE wrong == { n \in Nat : \E v \in LoopVariables(modulus) :
                              v.right = n /\ Multiply[v] # Due(v, modulus) }
    <2>6. wrong = {}
      <3> SUFFICES ASSUME wrong # {}
                   PROVE  FALSE
        OBVIOUS
      <3>1. wrong \in SUBSET Nat
        OBVIOUS
      <3> HIDE DEF wrong
      <3>2. PICK n \in wrong : \A x \in wrong : n <= x
        BY <3>1, LeastElement
      <3>3. PICK v \in LoopVariables(modulus) : v.right = n /\ Multiply[v] # Due(v, modulus)
        BY <3>2 DEF wrong
      <3>4. v.right # 0
        BY <3>3, <2>1, <2>5, NothingLeftIsDue
      <3> DEFINE w == NextRound(v, modulus)
      <3>5. w \in LoopVariables(modulus) /\ w.right < v.right /\ Due(w, modulus) = Due(v, modulus)
        BY <3>4, <2>1, RoundKeepsDue
      <3>6. Multiply[v] = Multiply[w]
        BY <3>4, <2>5
      <3> HIDE DEF w
      <3>7. w.right \in Nat /\ v.right \in Nat
        BY <3>5 DEF LoopVariables
      <3>8. w.right \notin wrong
        BY <3>2, <3>3, <3>5, <3>7, SMT
      <3>9. Multiply[w] = Due(w, modulus)
        BY <3>5, <3>7, <3>8 DEF wrong
      <3> QED
        BY <3>3, <3>5, <3>6, <3>9
    <2>7. left % modulus \in 0 .. modulus - 1
      <3>1. left \in Int
        BY SMT
      <3> QED
        BY <2>1, <3>1, DivisionFacts
    <2> DEFINE l == left % modulus
    <2>8. start \in LoopVariables(modulus) /\ l \in Nat /\ start.right \in Nat
      <3> HIDE DEF l
      <3>1. l \in 0 .. modulus - 1
        BY <2>7 DEF l
      <3>2. l \in Nat /\ 0 \in 0 .. modulus - 1
        BY <2>1, <3>1, SMT
      <3> QED
        BY <3>1, <3>2 DEF LoopVariables, l
    <2>9. Multiply[start] = Due(start, modulus)
      <3> HIDE DEF start
      <3> QED
        BY <2>6, <2>8
    <2>10. Due(start, modulus) = (0 + l * right) % modulus
      BY DEF Due
    <2>11. (l * right) % modulus = (left * right) % modulus
      BY <2>1, FactorRemainder
    <2> HIDE DEF l, start, Multiply
    <2>12. 0 + l * right = l * right
      BY <2>8, SMT
    <2>13. MultiplyModulo(left, right, modulus) = (left * right) % modulus
      BY <2>2, <2>9, <2>10, <2>11, <2>12
    <2>14. ~ (modulus <= 1)
      BY <1>2, SMT
    <2> QED
      BY <2>13, <2>14, Zenon DEF ProductModulo
  <1> QED
    BY <1>1, <1>2, SMT

\* The common divisors of two numbers.
CommonDivisors(a, b) == { d \in Nat \ {0} : a % d = 0 /\ b % d = 0 }

\* d is the greatest of them; 0 when every number is one.
IsGreatestDivisor(d, a, b) ==
    IF a = 0 /\ b = 0 THEN d = 0
    ELSE d \in CommonDivisors(a, b) /\ \A e \in CommonDivisors(a, b) : e <= d

\* A divisor does not exceed what it divides, and divides the remainder left by
\* another number that it divides as it divides the number itself.
LEMMA DivisorFacts ==
    ASSUME NEW d \in Nat \ {0}, NEW a \in Nat
    PROVE  /\ a # 0 /\ a % d = 0 => d <= a
           /\ d % d = 0 /\ 0 % d = 0
           /\ \A b \in Nat \ {0} : b % d = 0 => ((a % b) % d = 0 <=> a % d = 0)
  <1>1. a # 0 /\ a % d = 0 => d <= a
    <2>1. a < d => a % d = a
      BY SmallRemainder
    <2> QED
      BY <2>1, SMT
  <1>2. d % d = 0 /\ 0 % d = 0
    <2>1. d = d * 1 + 0 /\ 0 = d * 0 + 0 /\ d \in Int /\ 0 \in 0 .. d - 1
      BY SMT
    <2> QED
      BY <2>1, RemainderUnique
  <1>3. ASSUME NEW b \in Nat \ {0}, b % d = 0
        PROVE  (a % b) % d = 0 <=> a % d = 0
    <2> DEFINE q == a \div b
               r == a % b
               m == b \div d
    <2>1. q \in Int /\ r \in 0 .. b - 1 /\ a = b * q + r
      BY DivisionFacts
    <2>2. m \in Int /\ b = d * m + (b % d)
      BY DivisionFacts
    <2> HIDE DEF q, r, m
    <2>3. r \in Int /\ m * q \in Int
      BY <2>1, <2>2, SMT
    <2>4. b = d * m
      BY <1>3, <2>2, SMT
    <2>5. a = d * (m * q) + r
      <3>1. (d * m) * q = d * (m * q)
        BY <2>1, <2>2, SMT
      <3> QED
        BY <2>1, <2>4, <3>1
    <2>6. (d * (m * q) + r) % d = r % d
      BY <2>3, MultipleRemainder
    <2>7. a % d = r % d
      BY <2>5, <2>6
    <2> QED
      BY <2>7 DEF r
  <1> QED
    BY <1>1, <1>2, <1>3

\* There is a greatest common divisor, and only one.
LEMMA GreatestDivisorExists ==
    ASSUME NEW a \in Nat, NEW b \in Nat
    PROVE  /\ \E d \in Nat : IsGreatestDivisor(d, a, b)
           /\ \A d, e : IsGreatestDivisor(d, a, b) /\ IsGreatestDivisor(e, a, b) => d = e
  <1>1. CASE a = 0 /\ b = 0
    BY <1>1 DEF IsGreatestDivisor
  <1>2. CASE ~ (a = 0 /\ b = 0)
    <2> DEFINE above == { n \in Nat : \A e \in CommonDivisors(a, b) : e <= n }
    <2>1. a + b \in above
      <3>1. \A e \in CommonDivisors(a, b) : e \in Nat \ {0} /\ a % e = 0 /\ b % e = 0
        BY DEF CommonDivisors
      <3>2. \A e \in CommonDivisors(a, b) : e <= a + b
        <4> TAKE e \in CommonDivisors(a, b)
        <4>1. (a # 0 => e <= a) /\ (b # 0 => e <= b) /\ e \in Nat
          BY <3>1, DivisorFacts
        <4> QED
          BY <4>1, <1>2, SMT
      <3> QED
        BY <3>2
    <2>2. above \in SUBSET Nat /\ above # {}
      BY <2>1
    <2>3. PICK n \in above : \A x \in above : n <= x
      BY <2>2, LeastElement
    <2>4. 1 \in CommonDivisors(a, b)
      <3>1. a % 1 = 0 /\ b % 1 = 0
        BY SMT
      <3> QED
        BY <3>1 DEF CommonDivisors
    <2>5. n \in CommonDivisors(a, b)
      <3> SUFFICES ASSUME n \notin CommonDivisors(a, b)
                   PROVE  FALSE
        OBVIOUS
      <3>1. \A e \in CommonDivisors(a, b) : e \in Nat /\ e <= n
        BY DEF CommonDivisors
      <3>2. n >= 1 /\ n \in Nat
        BY <2>4
      <3>3. n - 1 \in Nat /\ \A e \in CommonDivisors(a, b) : e <= n - 1
        BY <3>1, <3>2, SMT
      <3>4. n - 1 \in above
        BY <3>3
      <3> HIDE DEF above
      <3>5. n <= n - 1
        BY <2>3, <3>4
      <3> QED
        BY <3>2, <3>5, SMT
    <2>6. n \in Nat /\ IsGreatestDivisor(n, a, b)
      BY <1>2, <2>5 DEF IsGreatestDivisor
    <2>7. \A d, e : IsGreatestDivisor(d, a, b) /\ IsGreatestDivisor(e, a, b) => d = e
      <3>1. \A d : IsGreatestDivisor(d, a, b) =>
                d \in Nat /\ d \in CommonDivisors(a, b) /\ \A e \in CommonDivisors(a, b) : e <= d
        BY <1>2 DEF IsGreatestDivisor, CommonDivisors
      <3> QED
        BY <3>1, SMT
    <2> QED
      BY <2>6, <2>7
  <1> QED
    BY <1>1, <1>2

\* One round of Euclid's algorithm keeps it.
LEMMA EuclidRound ==
    ASSUME NEW a \in Nat, NEW b \in Nat \ {0}
    PROVE  /\ a % b \in Nat /\ a % b < b
           /\ \A d : IsGreatestDivisor(d, b, a % b) <=> IsGreatestDivisor(d, a, b)
  <1>1. a % b \in Nat /\ a % b < b
    <2>1. a % b \in 0 .. b - 1
      <3>1. a \in Int
        BY SMT
      <3> QED
        BY <3>1, DivisionFacts
    <2> DEFINE r == a % b
    <2>2. r \in 0 .. b - 1
      BY <2>1
    <2> HIDE DEF r
    <2>3. r \in Nat /\ r < b
      BY <2>2, SMT
    <2> QED
      BY <2>3 DEF r
  <1>2. CommonDivisors(b, a % b) = CommonDivisors(a, b)
    <2>1. \A d \in Nat \ {0} : b % d = 0 => ((a % b) % d = 0 <=> a % d = 0)
      BY DivisorFacts
    <2> QED
      BY <2>1, Zenon DEF CommonDivisors
  <1>3. ~ (b = 0 /\ a % b = 0) /\ ~ (a = 0 /\ b = 0)
    OBVIOUS
  <1> QED
    BY <1>1, <1>2, <1>3, Zenon DEF IsGreatestDivisor

\* greatestCommonDivisor returns the greatest common divisor.
THEOREM EuclidIsExact ==
    ASSUME NEW left \in Nat, NEW right \in Nat
    PROVE  IsGreatestDivisor(GreatestCommonDivisor(left, right), left, right)
  <1> DEFINE Variables == [left : Nat, right : Nat]
             Loop(f) == f = [v \in Variables |->
                                IF v.right = 0 THEN v.left
                                ELSE f[[left |-> v.right, right |-> v.left % v.right]]]
             Euclid == CHOOSE f : Loop(f)
             Greatest(a, b) == CHOOSE d \in Nat : IsGreatestDivisor(d, a, b)
             exact == [v \in Variables |-> Greatest(v.left, v.right)]
             start == [left |-> left, right |-> right]
             Round(v) == [left |-> v.right, right |-> v.left % v.right]
  <1>1. GreatestCommonDivisor(left, right) = Euclid[start]
    BY Zenon DEF GreatestCommonDivisor
  <1>2. \A a, b \in Nat : Greatest(a, b) \in Nat /\ IsGreatestDivisor(Greatest(a, b), a, b)
    BY GreatestDivisorExists, Zenon
  <1>3. \A a, b \in Nat : \A d : IsGreatestDivisor(d, a, b) => d = Greatest(a, b)
    <2> HIDE DEF Greatest
    <2> QED
      BY <1>2, GreatestDivisorExists
  <1> HIDE DEF Greatest
  <1>4. \A a \in Nat : Greatest(a, 0) = a
    <2> TAKE a \in Nat
    <2>1. IsGreatestDivisor(a, a, 0)
      <3>1. CASE a = 0
        BY <3>1 DEF IsGreatestDivisor
      <3>2. CASE a # 0
        <4>1. a % a = 0 /\ 0 % a = 0
          BY <3>2, DivisorFacts
        <4>2. \A e \in CommonDivisors(a, 0) : e <= a
          BY <3>2, DivisorFacts DEF CommonDivisors
        <4> QED
          BY <3>2, <4>1, <4>2 DEF IsGreatestDivisor, CommonDivisors
      <3> QED
        BY <3>1, <3>2
    <2> QED
      BY <1>3, <2>1
  <1>5. \A v \in Variables : v.right # 0 =>
            /\ Round(v) \in Variables
            /\ Round(v).right < v.right
            /\ Greatest(Round(v).left, Round(v).right) = Greatest(v.left, v.right)
    <2> TAKE v \in Variables
    <2> HAVE v.right # 0
    <2>1. v.left \in Nat /\ v.right \in Nat \ {0}
      OBVIOUS
    <2> DEFINE a == v.left
               b == v.right
    <2>2. a \in Nat /\ b \in Nat \ {0}
      BY <2>1
    <2> HIDE DEF a, b
    <2>3. /\ a % b \in Nat /\ a % b < b
          /\ \A d : IsGreatestDivisor(d, b, a % b) <=> IsGreatestDivisor(d, a, b)
      BY <2>2, EuclidRound
    <2>4. Greatest(b, a % b) = Greatest(a, b)
      BY <1>2, <1>3, <2>2, <2>3
    <2>5. Round(v) = [left |-> b, right |-> a % b]
      BY DEF a, b
    <2>6. Round(v).left = b /\ Round(v).right = a % b /\ Round(v) \in Variables
      BY <2>2, <2>3, <2>5
    <2> QED
      BY <2>3, <2>4, <2>6 DEF a, b
  <1>6. Loop(exact)
    <2>1. \A v \in Variables :
              Greatest(v.left, v.right) = IF v.right = 0 THEN v.left ELSE exact[Round(v)]
      <3> TAKE v \in Variables
      <3>1. CASE v.right = 0
        <4>1. v.left \in Nat
          OBVIOUS
        <4> QED
          BY <3>1, <4>1, <1>4
      <3>2. CASE v.right # 0
        <4>1. /\ Round(v) \in Variables
              /\ Greatest(Round(v).left, Round(v).right) = Greatest(v.left, v.right)
          BY <3>2, <1>5
        <4> HIDE DEF Round
        <4> QED
          BY <3>2, <4>1, Zenon
      <3> QED
        BY <3>1, <3>2
    <2> QED
      BY <2>1, Zenon
  <1>7. Loop(Euclid)
    <2> HIDE DEF Loop
    <2> QED
      BY <1>6, Zenon
  <1>8. \A v \in Variables : Euclid[v] = IF v.right = 0 THEN v.left ELSE Euclid[Round(v)]
    <2> HIDE DEF Euclid
    <2> QED
      BY <1>7, Zenon
  <1> HIDE DEF Loop, Euclid, Round
  <1> DEFINE wrong == { n \in Nat : \E v \in Variables :
                            v.right = n /\ Euclid[v] # Greatest(v.left, v.right) }
  <1>9. wrong = {}
    <2> SUFFICES ASSUME wrong # {}
                 PROVE  FALSE
      OBVIOUS
    <2>1. wrong \in SUBSET Nat
      OBVIOUS
    <2> HIDE DEF wrong
    <2>2. PICK n \in wrong : \A x \in wrong : n <= x
      BY <2>1, LeastElement
    <2>3. PICK v \in Variables : v.right = n /\ Euclid[v] # Greatest(v.left, v.right)
      BY <2>2 DEF wrong
    <2>4. v.right # 0
      <3>1. v.left \in Nat
        OBVIOUS
      <3> QED
        BY <3>1, <2>3, <1>4, <1>8
    <2> DEFINE w == Round(v)
    <2>5. w \in Variables /\ w.right < v.right /\ Greatest(w.left, w.right) = Greatest(v.left, v.right)
      BY <2>4, <1>5
    <2>6. Euclid[v] = Euclid[w]
      BY <2>4, <1>8
    <2> HIDE DEF w
    <2>7. w.right \in Nat /\ v.right \in Nat
      BY <2>5
    <2>8. w.right \notin wrong
      BY <2>2, <2>3, <2>5, <2>7, SMT
    <2>9. Euclid[w] = Greatest(w.left, w.right)
      BY <2>5, <2>7, <2>8 DEF wrong
    <2> QED
      BY <2>3, <2>5, <2>6, <2>9
  <1>10. Euclid[start] = Greatest(start.left, start.right)
    <2>1. start \in Variables /\ start.right \in Nat
      OBVIOUS
    <2> HIDE DEF start
    <2> QED
      BY <1>9, <2>1
  <1> QED
    BY <1>1, <1>2, <1>10

\* What permutationParams asks of a step, "greatestCommonDivisor(...) == 1",
\* holds exactly when the step and the count have no divisor in common.
THEOREM EuclidTellsCoprime ==
    ASSUME NEW a \in Nat, NEW b \in Nat \ {0}
    PROVE  GreatestCommonDivisor(a, b) = 1 <=> Coprime(a, b)
  <1> DEFINE g == GreatestCommonDivisor(a, b)
  <1>1. g \in CommonDivisors(a, b) /\ \A e \in CommonDivisors(a, b) : e <= g
    BY EuclidIsExact DEF IsGreatestDivisor
  <1> HIDE DEF g
  <1>2. g \in Nat \ {0} /\ a % g = 0 /\ b % g = 0
    BY <1>1 DEF CommonDivisors
  <1>3. g <= b
    BY <1>2, DivisorFacts
  <1>4. ASSUME g = 1
        PROVE  Coprime(a, b)
    <2> SUFFICES ASSUME NEW d \in 2 .. b, a % d = 0, b % d = 0
                 PROVE  FALSE
      BY DEF Coprime
    <2>1. d \in Nat \ {0} /\ d > 1
      BY SMT
    <2>2. d \in CommonDivisors(a, b)
      BY <2>1 DEF CommonDivisors
    <2>3. d <= 1
      BY <1>1, <1>4, <2>2
    <2> QED
      BY <2>1, <2>3, SMT
  <1>5. ASSUME Coprime(a, b)
        PROVE  g = 1
    <2>1. g \notin 2 .. b
      BY <1>2, <1>5 DEF Coprime
    <2> QED
      BY <1>2, <1>3, <2>1, SMT
  <1> QED
    BY <1>4, <1>5 DEF g

=============================================================================
