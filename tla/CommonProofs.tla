---------------------------- MODULE CommonProofs ----------------------------
(***************************************************************************)
(* What several proofs need: induction and folds; powers of two and        *)
(* logarithms; the mux degrees of a call.                                  *)
(***************************************************************************)
EXTENDS Array, FiniteSets, FiniteSetTheorems, WellFoundedInduction, TLAPS

-----------------------------------------------------------------------------
(***************************************************************************)
(* Induction.  The induction theorems of the library have an operator as a *)
(* parameter; here a set of numbers, or of sets, takes its place.          *)
(***************************************************************************)
\* Induction over the natural numbers, without an operator: a set of naturals that
\* is not empty has a least element.
LEMMA LeastNatural ==
  ASSUME NEW T, T \subseteq Nat, T # {}
  PROVE  \E x \in T : \A y \in T : x <= y
<1>1. PICK x \in T : \A y \in T : ~ (<<y, x>> \in OpToRel(<, Nat))
  BY NatLessThanWellFounded, WFMin
<1>2. ASSUME NEW y \in T PROVE x <= y
  <2>1. x \in Nat /\ y \in Nat
    OBVIOUS
  <2>2. y < x => <<y, x>> \in OpToRel(<, Nat)
    BY <2>1 DEF OpToRel
  <2>3. ~ (y < x)
    BY <1>1, <2>2
  <2> QED
    BY <2>1, <2>3
<1> QED
  BY <1>2

\* What holds of 0 and is handed on to the next number holds of all of them.
LEMMA NaturalInduction ==
  ASSUME NEW R, 0 \in R, \A n \in Nat : n \in R => n + 1 \in R
  PROVE  Nat \subseteq R
<1>1. SUFFICES ASSUME Nat \ R # {} PROVE FALSE
  OBVIOUS
<1>2. PICK x \in Nat \ R : \A y \in Nat \ R : x <= y
  BY <1>1, LeastNatural
<1>3. x # 0 /\ x - 1 \in Nat
  BY <1>2
<1>4. x - 1 \in R
  BY <1>2, <1>3
<1> QED
  BY <1>2, <1>3, <1>4

\* The element of a set that a fold takes next.
Pick(s) == CHOOSE x \in s : TRUE

LEMMA PickIsIn ==
  ASSUME NEW s, s # {} PROVE Pick(s) \in s
BY DEF Pick

\* What holds of the empty set, and of a set if it holds without its next element.
LEMMA FoldInduction ==
  ASSUME NEW S, IsFiniteSet(S), NEW R, {} \in R,
         \A s \in SUBSET S : s # {} /\ s \ {Pick(s)} \in R => s \in R
  PROVE  \A s \in SUBSET S : s \in R
<1> DEFINE Small == {n \in Nat : \A s \in SUBSET S : Cardinality(s) = n => s \in R}
<1>1. ASSUME NEW s \in SUBSET S PROVE IsFiniteSet(s) /\ Cardinality(s) \in Nat
  BY FS_Subset, FS_CardinalityType
<1>2. 0 \in Small
  BY <1>1, FS_EmptySet
<1>3. ASSUME NEW n \in Nat, n \in Small PROVE n + 1 \in Small
  <2>1. SUFFICES ASSUME NEW s \in SUBSET S, Cardinality(s) = n + 1 PROVE s \in R
    OBVIOUS
  <2>2. s # {}
    BY <1>1, <2>1, FS_EmptySet
  <2>3. Pick(s) \in s /\ s \ {Pick(s)} \in SUBSET S
    BY <2>2, PickIsIn
  <2>4. Cardinality(s \ {Pick(s)}) = n
    BY <1>1, <2>1, <2>3, FS_RemoveElement
  <2> QED
    BY <1>3, <2>2, <2>3, <2>4
<1>4. Nat \subseteq Small
  <2> HIDE DEF Small
  <2> QED
    BY <1>2, <1>3, NaturalInduction
<1> QED
  BY <1>1, <1>4

\* A function that folds S, as MapThenFoldSet does: an element after the other, in
\* the order of Pick.
FoldsTo(it, S, base, step) ==
  it = [s \in SUBSET S |-> IF s = {} THEN base ELSE step[<<s, it[s \ {Pick(s)}]>>]]

\* There is such a function, for every base and step in a set V of values.
LEMMA FoldExists ==
  ASSUME NEW S, IsFiniteSet(S), NEW V, NEW base \in V, NEW step \in [(SUBSET S) \X V -> V]
  PROVE  \E it \in [SUBSET S -> V] : FoldsTo(it, S, base, step)
<1> DEFINE Upto(n) == {s \in SUBSET S : Cardinality(s) <= n}
           IsFold(it, n) == /\ it \in [SUBSET S -> V]
                            /\ \A s \in Upto(n) : it[s] = IF s = {} THEN base
                                      ELSE step[<<s, it[s \ {Pick(s)}]>>]
           Defined == {n \in Nat : \E it : IsFold(it, n)}
<1>1. ASSUME NEW s \in SUBSET S PROVE IsFiniteSet(s) /\ Cardinality(s) \in Nat
  BY FS_Subset, FS_CardinalityType
<1>2. 0 \in Defined
  <2>1. ASSUME NEW s \in Upto(0) PROVE s = {}
    BY <1>1, FS_EmptySet
  <2>2. IsFold([s \in SUBSET S |-> base], 0)
    BY <2>1
  <2> QED
    BY <2>2
<1>3. ASSUME NEW n \in Nat, n \in Defined PROVE n + 1 \in Defined
  <2>1. PICK it : IsFold(it, n)
    BY <1>3
  <2> DEFINE next == [s \in SUBSET S |->
                        IF s = {} THEN base
                        ELSE step[<<s, it[s \ {Pick(s)}]>>]]
  <2>2. next \in [SUBSET S -> V]
    <3>1. ASSUME NEW s \in SUBSET S PROVE it[s \ {Pick(s)}] \in V
      BY <2>1
    <3> QED
      BY <3>1
  <2>3. ASSUME NEW s \in Upto(n) PROVE next[s] = it[s]
    BY <2>1
  <2>4. ASSUME NEW s \in Upto(n + 1), s # {} PROVE s \ {Pick(s)} \in Upto(n)
    <3>1. Pick(s) \in s
      BY <2>4, PickIsIn
    <3>2. Cardinality(s \ {Pick(s)}) = Cardinality(s) - 1
      BY <1>1, <3>1, FS_RemoveElement
    <3> QED
      BY <1>1, <3>2
  <2>5. ASSUME NEW s \in Upto(n + 1)
        PROVE  next[s] = IF s = {} THEN base ELSE step[<<s, next[s \ {Pick(s)}]>>]
    <3>1. s # {} => next[s \ {Pick(s)}] = it[s \ {Pick(s)}]
      BY <2>3, <2>4
    <3> QED
      BY <3>1
  <2>6. IsFold(next, n + 1)
    BY <2>2, <2>5
  <2>7. \E g : IsFold(g, n + 1)
    BY <2>6
  <2> HIDE DEF IsFold
  <2> QED
    BY <2>7
<1>4. Cardinality(S) \in Defined
  <2>1. Nat \subseteq Defined
    <3> HIDE DEF Defined
    <3> QED
      BY <1>2, <1>3, NaturalInduction
  <2> QED
    BY <2>1, FS_CardinalityType
<1>5. PICK it : IsFold(it, Cardinality(S))
  BY <1>4
<1>6. ASSUME NEW s \in SUBSET S PROVE s \in Upto(Cardinality(S))
  BY FS_Subset
<1>7. FoldsTo(it, S, base, step)
  BY <1>5, <1>6 DEF FoldsTo
<1> QED
  BY <1>5, <1>7

-----------------------------------------------------------------------------
(***************************************************************************)
(* Powers of two and logarithms.  The provers do not know that a power is  *)
(* a repeated product; the exponents here are bounded (MaxLog in Bits, and *)
(* MaxPower for products), so that the provers can evaluate the cases.     *)
(***************************************************************************)
MaxPower == 31

\* Products and quotients of powers of two.
LEMMA MultiplyCases ==
  ~ \E a \in 0 .. 31 : \E b \in 0 .. 31 : a + b <= 31 /\ 2 ^ a * 2 ^ b # 2 ^ (a + b)
BY SMT

LEMMA PowersMultiply ==
  ASSUME NEW a \in Nat, NEW b \in Nat, a + b <= MaxPower
  PROVE  2 ^ a * 2 ^ b = 2 ^ (a + b)
<1>1. a \in 0 .. 31 /\ b \in 0 .. 31 /\ a + b <= 31
  BY DEF MaxPower
<1> QED
  BY <1>1, MultiplyCases, Zenon

LEMMA DivideCases ==
  ~ \E a \in 0 .. 31 : \E b \in 0 .. 31 : b <= a /\ 2 ^ a \div 2 ^ b # 2 ^ (a - b)
BY SMT

LEMMA PowersDivide ==
  ASSUME NEW a \in Nat, NEW b \in Nat, b <= a, a <= MaxPower
  PROVE  2 ^ a \div 2 ^ b = 2 ^ (a - b)
<1>1. a \in 0 .. 31 /\ b \in 0 .. 31
  BY DEF MaxPower
<1> QED
  BY <1>1, DivideCases, Zenon

LEMMA PositiveCases == ~ \E a \in 0 .. 31 : 2 ^ a \notin Nat \ {0}
BY SMT

LEMMA PowerIsPositive ==
  ASSUME NEW a \in Nat, a <= MaxPower
  PROVE  2 ^ a \in Nat \ {0}
<1>1. a \in 0 .. 31
  BY DEF MaxPower
<1> QED
  BY <1>1, PositiveCases, Zenon

LEMMA HalfCases == ~ \E a \in 0 .. 30 : 2 ^ (a + 1) # 2 * 2 ^ a
BY SMT

LEMMA TwiceAsMuch ==
  ASSUME NEW a \in Nat, a < MaxPower
  PROVE  2 ^ (a + 1) = 2 * 2 ^ a
<1>1. a \in 0 .. 30
  BY DEF MaxPower
<1> QED
  BY <1>1, HalfCases, Zenon

\* A power of two grows with its exponent.
LEMMA OrderCases ==
  ~ \E a \in 0 .. 30 : \E b \in 0 .. 30 : 2 ^ a <= 2 ^ b /\ ~ (a <= b)
BY SMT

LEMMA PowersInOrder ==
  ASSUME NEW a \in 0 .. MaxLog, NEW b \in 0 .. MaxLog, 2 ^ a <= 2 ^ b
  PROVE  a <= b
BY OrderCases, Zenon DEF MaxLog

LEMMA BoundCases == ~ \E a \in 0 .. 30 : ~ (2 ^ a <= 2 ^ 30)
BY SMT

LEMMA PowersBounded ==
  ASSUME NEW a \in 0 .. MaxLog PROVE 2 ^ a \in 1 .. 2 ^ MaxLog
<1>1. 2 ^ a <= 2 ^ MaxLog
  BY BoundCases, Zenon DEF MaxLog
<1> QED
  BY <1>1, PowerIsPositive DEF MaxLog, MaxPower

LEMMA ProductCases ==
  ~ \E a \in 0 .. 30 : \E b \in 0 .. 30 : 2 ^ a * 2 ^ b <= 2 ^ 30 /\ ~ (a + b <= 30)
BY SMT

\* The exponents of a bounded product have a bounded sum.
LEMMA BoundedProduct ==
  ASSUME NEW a \in 0 .. MaxLog, NEW b \in 0 .. MaxLog, 2 ^ a * 2 ^ b <= 2 ^ MaxLog
  PROVE  a + b <= MaxLog
BY ProductCases, Zenon DEF MaxLog

LEMMA PowerOfTwo ==
  ASSUME NEW n, IsPow2(n)
  PROVE  \E k \in 0 .. MaxLog : n = 2 ^ k
BY DEF IsPow2

-----------------------------------------------------------------------------
\* (int)(log2(n) + 0.1) of a power of two is its exponent, and every number up to
\* 2 ^ MaxLog has such a logarithm.
LEMMA LogCases == ~ \E a \in 0 .. 30 : Log2(2 ^ a, 1) # a
BY SMT DEF Log2, MaxLog

LEMMA LogOfPower ==
  ASSUME NEW a \in 0 .. MaxLog
  PROVE  Log2(2 ^ a, 1) = a
BY LogCases, Zenon DEF MaxLog

\* k is the truncated logarithm of n.
IsLog(n, k) == 2 ^ k * 10000 <= n * 10718 /\ n * 10718 < 2 ^ (k + 1) * 10000

LEMMA LogIsLog ==
  ASSUME NEW n \in 1 .. 2 ^ MaxLog
  PROVE  Log2(n, 1) \in 0 .. MaxLog /\ IsLog(n, Log2(n, 1))
<1>1. n \in 1 .. 2 ^ 30 /\ n * 10718 >= 10000
  BY DEF MaxLog
<1>2. Log2(n, 1) = CHOOSE k \in 0 .. 30 : IsLog(n, k)
  BY <1>1 DEF Log2, MaxLog, IsLog
<1>3. \E k \in 0 .. 30 : IsLog(n, k)
  BY <1>1 DEF IsLog
<1> QED
  BY <1>2, <1>3, Zenon DEF MaxLog

LEMMA LogExists ==
  ASSUME NEW n \in 1 .. 2 ^ MaxLog
  PROVE  Log2(n, 1) \in 0 .. MaxLog
BY LogIsLog

\* There is only one.
LEMMA OneLog ==
  ASSUME NEW n \in 1 .. 2 ^ MaxLog, NEW k \in 0 .. MaxLog, IsLog(n, k)
  PROVE  Log2(n, 1) = k
<1>1. PICK m \in 0 .. MaxLog : m = Log2(n, 1) /\ IsLog(n, m)
  BY LogIsLog
<1>2. ASSUME NEW i \in 0 .. MaxLog, NEW j \in 0 .. MaxLog, IsLog(n, i), IsLog(n, j), i < j
      PROVE  FALSE
  <2>1. 2 ^ (i + 1) <= 2 ^ j
    <3>1. i + 1 \in 0 .. 30 /\ j \in 0 .. 30 /\ i + 1 <= j
      BY <1>2 DEF MaxLog
    <3>2. ~ \E a \in 0 .. 30 : \E d \in 0 .. 30 : a <= d /\ ~ (2 ^ a <= 2 ^ d)
      BY SMT
    <3> QED
      BY <3>1, <3>2, Zenon
  <2>2. PICK x, y : x = 2 ^ (i + 1) /\ y = 2 ^ j
    OBVIOUS
  <2>3. x \in Nat /\ y \in Nat /\ n \in Nat
    BY <1>2, <2>2, PowerIsPositive DEF MaxLog, MaxPower
  <2>4. y * 10000 <= n * 10718 /\ n * 10718 < x * 10000
    BY <1>2, <2>2 DEF IsLog
  <2> QED
    BY <2>1, <2>2, <2>3, <2>4
<1>3. m = k
  BY <1>1, <1>2
<1> QED
  BY <1>1, <1>3

\* The logarithm of a quotient without rest is that of the result.
LEMMA LogOfQuotient ==
  ASSUME NEW n \in 1 .. 2 ^ MaxLog, NEW d \in Nat \ {0}
  PROVE  Log2(d * n, d) = Log2(n, 1)
<1>1. PICK e : e = d * n
  OBVIOUS
<1>2. n \in Nat \ {0} /\ e \in Nat
  BY <1>1 DEF MaxLog
<1>3. ASSUME NEW x \in Nat, NEW y \in Nat
      PROVE  /\ x * (d * 10000) <= e * 10718 <=> x * 10000 <= n * 10718
             /\ e * 10718 < y * (d * 10000) <=> n * 10718 < y * 10000
  <2>1. PICK p, q, r : p = x * 10000 /\ q = n * 10718 /\ r = y * 10000
    OBVIOUS
  <2>2. p \in Nat /\ q \in Nat /\ r \in Nat
    BY <1>2, <2>1
  <2>3. /\ x * (d * 10000) = d * p /\ e * 10718 = d * q /\ y * (d * 10000) = d * r
    BY <1>1, <1>2, <2>1
  <2>4. \A a, b \in Nat : d * a <= d * b <=> a <= b
    OBVIOUS
  <2>5. d * p <= d * q <=> p <= q
    BY <2>2, <2>4
  <2>6. d * r <= d * q <=> r <= q
    BY <2>2, <2>4
  <2>7. d * p \in Nat /\ d * q \in Nat /\ d * r \in Nat
    BY <2>2
  <2>8. d * q < d * r <=> ~ (d * r <= d * q)
    BY <2>7
  <2>9. q < r <=> ~ (r <= q)
    BY <2>2
  <2> QED
    BY <2>1, <2>3, <2>5, <2>6, <2>8, <2>9
<1>4. ASSUME NEW k \in 0 .. MaxLog
      PROVE  /\ 2 ^ k * (d * 10000) <= e * 10718 <=> 2 ^ k * (1 * 10000) <= n * 10718
             /\ e * 10718 < 2 ^ (k + 1) * (d * 10000)
                  <=> n * 10718 < 2 ^ (k + 1) * (1 * 10000)
  <2>1. 2 ^ k \in Nat /\ 2 ^ (k + 1) \in Nat
    BY PowerIsPositive DEF MaxLog, MaxPower
  <2> QED
    BY <1>3, <2>1
<1>5. e * 10718 >= d * 10000 /\ n * 10718 >= 1 * 10000
  <2>1. d * 1 <= d * n
    BY <1>2
  <2> QED
    BY <1>1, <1>2, <2>1
<1>6. Log2(e, d) = CHOOSE k \in 0 .. MaxLog :
        2 ^ k * (d * 10000) <= e * 10718 /\ e * 10718 < 2 ^ (k + 1) * (d * 10000)
  BY <1>5 DEF Log2
<1>7. Log2(n, 1) = CHOOSE k \in 0 .. MaxLog :
        2 ^ k * (1 * 10000) <= n * 10718 /\ n * 10718 < 2 ^ (k + 1) * (1 * 10000)
  BY <1>5 DEF Log2
<1>8. Log2(e, d) = Log2(n, 1)
  <2> DEFINE P(k) == 2 ^ k * (d * 10000) <= e * 10718
                     /\ e * 10718 < 2 ^ (k + 1) * (d * 10000)
             Q(k) == 2 ^ k * (1 * 10000) <= n * 10718
                     /\ n * 10718 < 2 ^ (k + 1) * (1 * 10000)
  <2>1. \A k \in 0 .. MaxLog : P(k) <=> Q(k)
    BY <1>4
  <2>2. Log2(e, d) = (CHOOSE k \in 0 .. MaxLog : P(k)) /\ Log2(n, 1) = CHOOSE k \in 0 .. MaxLog : Q(k)
    BY <1>6, <1>7
  <2> HIDE DEF P, Q
  <2>3. (CHOOSE k \in 0 .. MaxLog : P(k)) = CHOOSE k \in 0 .. MaxLog : Q(k)
    BY <2>1, Zenon
  <2> QED
    BY <2>2, <2>3
<1> QED
  BY <1>1, <1>8

\* That of a product with a power of two is the sum.
LEMMA LogOfProduct ==
  ASSUME NEW n \in Nat \ {0}, NEW a \in 0 .. MaxLog, n * 2 ^ a <= 2 ^ MaxLog
  PROVE  Log2(n * 2 ^ a, 1) = Log2(n, 1) + a
<1>1. PICK p : p = 2 ^ a
  OBVIOUS
<1>2. p \in Nat \ {0} /\ n * p \in Nat \ {0} /\ n <= n * p
  BY <1>1, PowerIsPositive DEF MaxLog, MaxPower
<1>3. n \in 1 .. 2 ^ MaxLog /\ n * p \in 1 .. 2 ^ MaxLog
  BY <1>1, <1>2 DEF MaxLog
<1>4. PICK k \in 0 .. MaxLog : k = Log2(n, 1) /\ IsLog(n, k)
  BY <1>3, LogIsLog
<1>5. PICK x, y : x = 2 ^ k /\ y = 2 ^ (k + 1)
  OBVIOUS
<1>6. x \in Nat \ {0} /\ y \in Nat \ {0} /\ y = 2 * x
  BY <1>5, PowerIsPositive, TwiceAsMuch DEF MaxLog, MaxPower
<1>7. x * 10000 <= n * 10718 /\ n * 10718 < y * 10000
  BY <1>4, <1>5 DEF IsLog
<1>8. (x * p) * 10000 <= (n * p) * 10718 /\ (n * p) * 10718 < (y * p) * 10000
  <2>1. \A s, t \in Nat : s < t => s * p < t * p
    BY <1>2
  <2>2. \A s, t \in Nat : s <= t => s * p <= t * p
    BY <1>2
  <2>3. (x * 10000) * p <= (n * 10718) * p /\ (n * 10718) * p < (y * 10000) * p
    BY <1>6, <1>7, <2>1, <2>2
  <2> QED
    BY <1>2, <1>6, <2>3
<1>9. k + a <= MaxLog
  <2>1. x * p < 2 ^ 31
    <3>1. x * p \in Nat /\ n * p \in Nat /\ n * p <= 2 ^ 30
      BY <1>2, <1>3, <1>6 DEF MaxLog
    <3>2. \A s, t \in Nat : s * 10000 <= t * 10718 /\ t <= 2 ^ 30 => s < 2 ^ 31
      OBVIOUS
    <3> QED
      BY <1>8, <3>1, <3>2
  <2>2. ~ \E i \in 0 .. 30 : \E j \in 0 .. 30 : 2 ^ i * 2 ^ j < 2 ^ 31 /\ ~ (i + j <= 30)
    BY SMT
  <2>3. k \in 0 .. 30 /\ a \in 0 .. 30
    BY DEF MaxLog
  <2> QED
    BY <1>1, <1>5, <2>1, <2>2, <2>3, Zenon DEF MaxLog
<1>10. x * p = 2 ^ (k + a) /\ y * p = 2 ^ ((k + a) + 1)
  <2>1. x * p = 2 ^ (k + a)
    BY <1>1, <1>5, <1>9, PowersMultiply DEF MaxLog, MaxPower
  <2>2. 2 ^ ((k + a) + 1) = 2 * 2 ^ (k + a)
    BY <1>9, TwiceAsMuch DEF MaxLog, MaxPower
  <2>3. y * p = 2 * (x * p)
    BY <1>2, <1>6
  <2> QED
    BY <2>1, <2>2, <2>3
<1>11. IsLog(n * p, k + a)
  BY <1>8, <1>10 DEF IsLog
<1>12. k + a \in 0 .. MaxLog
  BY <1>9 DEF MaxLog
<1> QED
  BY <1>1, <1>3, <1>4, <1>11, <1>12, OneLog

LEMMA FloorCases == ~ \E a \in 0 .. 30 : FloorLog2(2 ^ a) # a
BY SMT DEF FloorLog2, MaxLog

LEMMA FloorLogOfPower ==
  ASSUME NEW a \in 0 .. MaxLog
  PROVE  FloorLog2(2 ^ a) = a
BY FloorCases, Zenon DEF MaxLog

\* Quotients.
LEMMA ExactQuotient ==
  ASSUME NEW p \in Nat, NEW m \in Nat \ {0} PROVE (p * m) \div m = p
OBVIOUS

\* Halving a quotient by a power of two.
LEMMA QuotientOfQuotient ==
  ASSUME NEW n \in Nat, NEW m \in Nat \ {0}
  PROVE  (n \div m) \div 2 = n \div (2 * m)
<1>1. PICK p : p = (n \div m) \div 2
  OBVIOUS
<1>2. PICK q : q = n \div m
  OBVIOUS
<1>3. PICK r : r = n % m
  OBVIOUS
<1>4. q \in Nat /\ r \in 0 .. m - 1 /\ n = m * q + r
  BY <1>2, <1>3
<1>5. p \in Nat /\ (q = 2 * p \/ q = 2 * p + 1)
  <2>1. p = q \div 2
    BY <1>1, <1>2
  <2>2. q \in Nat
    BY <1>4
  <2> QED
    BY <2>1, <2>2
<1>6. PICK t : t = 2 * m
  OBVIOUS
<1>7. PICK u : u = (IF q = 2 * p THEN r ELSE m + r)
  OBVIOUS
<1>8. u \in 0 .. t - 1 /\ t \in Nat \ {0}
  BY <1>4, <1>6, <1>7
<1>9. n = t * p + u
  <2>1. CASE q = 2 * p
    BY <1>4, <1>5, <1>6, <1>7, <2>1
  <2>2. CASE q = 2 * p + 1
    <3>1. m * q = m * (2 * p) + m
      BY <1>4, <1>5, <2>2
    <3>2. m * (2 * p) = t * p
      BY <1>5, <1>6
    <3> QED
      BY <1>4, <1>5, <1>6, <1>7, <2>2, <3>1, <3>2
  <2> QED
    BY <1>5, <2>1, <2>2
<1>10. n \div t = p
  BY <1>5, <1>8, <1>9
<1> QED
  BY <1>1, <1>6, <1>10

LEMMA HalfOfQuotient ==
  ASSUME NEW n \in Nat, NEW k \in Nat, k < MaxPower
  PROVE  (n \div 2 ^ k) \div 2 = n \div 2 ^ (k + 1)
<1>1. 2 ^ k \in Nat \ {0} /\ 2 ^ (k + 1) = 2 * 2 ^ k
  BY TwiceAsMuch, PowerIsPositive DEF MaxPower
<1> QED
  BY <1>1, QuotientOfQuotient

-----------------------------------------------------------------------------
\* The mux degrees of a regular call are powers of two, also those that a mat gets.

\* Mux degrees with these exponents, of at most 2 ^ MaxLog together.
Exponents(degrees, a, b, c) ==
  /\ a \in Nat /\ b \in Nat /\ c \in Nat /\ a + b + c <= 30
  /\ degrees = <<2 ^ a, 2 ^ b, 2 ^ c>>

LEMMA DegreeIsPower ==
  ASSUME NEW a \in Nat, NEW b \in Nat, NEW c \in Nat, a + b + c <= 30
  PROVE  Degree(<<2 ^ a, 2 ^ b, 2 ^ c>>) = 2 ^ (a + b + c)
<1> USE DEF MaxPower
<1>1. 2 ^ a * 2 ^ b = 2 ^ (a + b)
  BY PowersMultiply
<1>2. 2 ^ (a + b) * 2 ^ c = 2 ^ (a + b + c)
  BY PowersMultiply
<1> QED
  BY <1>1, <1>2 DEF Degree

LEMMA ProductGrows ==
  ASSUME NEW m \in Nat, NEW n \in Nat \ {0} PROVE m <= m * n /\ m * n \in Nat
OBVIOUS

\* The exponents of the mux degrees, the ways and the rows of a set.
LEMMA CallExponents ==
  ASSUME NEW call, NEW numWay, IsPow2(numWay), IsPow2(call.numRowPerSet),
         call.numRowPerSet <= numWay, \A i \in 1 .. 3 : IsPow2(Mux(call)[i]),
         Degree(Mux(call)) * numWay <= 2 ^ MaxLog
  PROVE  \E a, b, c, w, s \in Nat :
           /\ a + b + c + w <= 30 /\ s <= w
           /\ Mux(call) = <<2 ^ a, 2 ^ b, 2 ^ c>>
           /\ numWay = 2 ^ w /\ call.numRowPerSet = 2 ^ s
<1> USE DEF MaxLog, MaxPower
<1> DEFINE mx == Mux(call)
<1>1. /\ IsPow2(numWay) /\ IsPow2(call.numRowPerSet)
      /\ call.numRowPerSet <= numWay
      /\ IsPow2(mx[1]) /\ IsPow2(mx[2]) /\ IsPow2(mx[3])
      /\ Degree(mx) * numWay <= 2 ^ 30
  OBVIOUS
<1>2. PICK a \in 0 .. 30 : mx[1] = 2 ^ a
  BY <1>1, PowerOfTwo, Zenon
<1>3. PICK b \in 0 .. 30 : mx[2] = 2 ^ b
  BY <1>1, PowerOfTwo, Zenon
<1>4. PICK c \in 0 .. 30 : mx[3] = 2 ^ c
  BY <1>1, PowerOfTwo, Zenon
<1>5. PICK w \in 0 .. 30 : numWay = 2 ^ w
  BY <1>1, PowerOfTwo, Zenon
<1>6. PICK s \in 0 .. 30 : call.numRowPerSet = 2 ^ s
  BY <1>1, PowerOfTwo, Zenon
<1>7. s <= w
  BY <1>1, <1>5, <1>6, PowersInOrder, Zenon
<1>8. mx = <<2 ^ a, 2 ^ b, 2 ^ c>>
  <2>1. mx = <<mx[1], mx[2], mx[3]>>
    BY DEF Mux
  <2> QED
    BY <2>1, <1>2, <1>3, <1>4, Zenon
<1>9. PICK x, y, z, v : x = 2 ^ a /\ y = 2 ^ b /\ z = 2 ^ c /\ v = 2 ^ w
  OBVIOUS
<1>10. x \in Nat \ {0} /\ y \in Nat \ {0} /\ z \in Nat \ {0} /\ v \in Nat \ {0}
  BY <1>9, PowerIsPositive
<1>11. x * y * z * v <= 2 ^ 30
  BY <1>1, <1>2, <1>3, <1>4, <1>5, <1>9 DEF Degree
<1>12. x * y \in Nat \ {0} /\ x * y * z \in Nat \ {0}
  BY <1>10
<1>13. x * y <= x * y * z /\ x * y * z <= x * y * z * v
  BY <1>10, <1>12, ProductGrows
<1>14. a + b <= 30 /\ x * y = 2 ^ (a + b)
  <2>1. x * y <= 2 ^ 30
    BY <1>10, <1>11, <1>12, <1>13
  <2>2. a + b <= 30
    BY <2>1, <1>9, BoundedProduct
  <2> QED
    BY <2>2, <1>9, PowersMultiply
<1>15. a + b + c <= 30 /\ x * y * z = 2 ^ (a + b + c)
  <2>1. x * y * z <= 2 ^ 30
    BY <1>10, <1>11, <1>12, <1>13
  <2>2. a + b \in 0 .. 30 /\ 2 ^ (a + b) * 2 ^ c <= 2 ^ 30
    BY <2>1, <1>14, <1>9
  <2>3. a + b + c <= 30
    BY <2>2, BoundedProduct
  <2>4. 2 ^ (a + b) * 2 ^ c = 2 ^ (a + b + c)
    BY <2>3, PowersMultiply
  <2> QED
    BY <2>3, <2>4, <1>9, <1>14
<1>16. a + b + c + w <= 30
  <2>1. a + b + c \in 0 .. 30 /\ 2 ^ (a + b + c) * 2 ^ w <= 2 ^ 30
    BY <1>9, <1>11, <1>15
  <2> QED
    BY <2>1, BoundedProduct
<1> QED
  BY <1>5, <1>6, <1>7, <1>8, <1>16

\* The mux degrees with the ways that share a row are powers of two as well.
LEMMA MuxExponents ==
  ASSUME NEW call, NEW numWay, IsPow2(numWay), IsPow2(call.numRowPerSet),
         call.numRowPerSet <= numWay, \A i \in 1 .. 3 : IsPow2(Mux(call)[i]),
         Degree(Mux(call)) * numWay <= 2 ^ MaxLog
  PROVE  \E a, b, c \in Nat : Exponents(MuxForWays(call, numWay), a, b, c)
<1> USE DEF MaxLog, MaxPower
<1> DEFINE perRow == numWay \div call.numRowPerSet
           isDram == call.cellType \in {"DRAM", "eDRAM"}
           lev2 == 2 ^ (Log2(perRow, 1) \div (IF isDram THEN 2 ELSE 3))
           mx == Mux(call)
<1>1. PICK a, b, c, w, s \in Nat :
         /\ a + b + c + w <= 30 /\ s <= w
         /\ mx = <<2 ^ a, 2 ^ b, 2 ^ c>>
         /\ numWay = 2 ^ w /\ call.numRowPerSet = 2 ^ s
  BY CallExponents
<1>2. PICK p : p = w - s
  OBVIOUS
<1>3. p \in 0 .. 30 /\ a + b + c + p <= 30
  BY <1>1, <1>2
<1>4. perRow = 2 ^ p
  BY <1>1, <1>2, PowersDivide
<1>5. Log2(perRow, 1) = p
  BY <1>3, <1>4, LogOfPower
<1>6. mx[1] = 2 ^ a /\ mx[2] = 2 ^ b /\ mx[3] = 2 ^ c
  BY <1>1
<1>7. MuxForWays(call, numWay)
        = IF perRow <= 1 THEN mx
          ELSE IF isDram THEN <<mx[1], mx[2] * (perRow \div lev2), mx[3] * lev2>>
               ELSE <<mx[1] * (perRow \div (lev2 * lev2)), mx[2] * lev2, mx[3] * lev2>>
  BY DEF MuxForWays
<1>8. CASE perRow <= 1
  BY <1>1, <1>7, <1>8 DEF Exponents
<1>9. CASE ~ (perRow <= 1) /\ isDram
  <2>1. PICK q : q = p \div 2
    OBVIOUS
  <2>2. q \in Nat /\ q <= p
    BY <1>3, <2>1
  <2>3. lev2 = 2 ^ q
    BY <1>5, <1>9, <2>1
  <2>4. perRow \div lev2 = 2 ^ (p - q)
    BY <1>3, <1>4, <2>2, <2>3, PowersDivide
  <2>5. 2 ^ b * 2 ^ (p - q) = 2 ^ (b + (p - q)) /\ 2 ^ c * 2 ^ q = 2 ^ (c + q)
    BY <1>3, <2>2, PowersMultiply
  <2>6. MuxForWays(call, numWay) = <<2 ^ a, 2 ^ (b + (p - q)), 2 ^ (c + q)>>
    BY <1>6, <1>7, <1>9, <2>3, <2>4, <2>5
  <2> QED
    BY <1>3, <2>2, <2>6 DEF Exponents
<1>10. CASE ~ (perRow <= 1) /\ ~isDram
  <2>1. PICK q : q = p \div 3
    OBVIOUS
  <2>2. q \in Nat /\ q + q <= p
    BY <1>3, <2>1
  <2>3. lev2 = 2 ^ q
    BY <1>5, <1>10, <2>1
  <2>4. lev2 * lev2 = 2 ^ (q + q)
    BY <1>3, <2>2, <2>3, PowersMultiply
  <2>5. perRow \div (lev2 * lev2) = 2 ^ (p - (q + q))
    BY <1>3, <1>4, <2>2, <2>4, PowersDivide
  <2>6. /\ 2 ^ a * 2 ^ (p - (q + q)) = 2 ^ (a + (p - (q + q)))
        /\ 2 ^ b * 2 ^ q = 2 ^ (b + q) /\ 2 ^ c * 2 ^ q = 2 ^ (c + q)
    BY <1>3, <2>2, PowersMultiply
  <2>7. MuxForWays(call, numWay) = <<2 ^ (a + (p - (q + q))), 2 ^ (b + q), 2 ^ (c + q)>>
    BY <1>6, <1>7, <1>10, <2>3, <2>5, <2>6
  <2> QED
    BY <1>3, <2>2, <2>7 DEF Exponents
<1> QED
  BY <1>8, <1>9, <1>10
=============================================================================
