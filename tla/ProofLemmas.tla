---------------------------- MODULE ProofLemmas ----------------------------
(***************************************************************************)
(* Lemmas about numbers, finite sets and sequences that the proofs of more *)
(* than one module use.                                                    *)
(***************************************************************************)
EXTENDS Integers, Sequences, FiniteSets, BitHack, SequenceTheorems,
        FunctionTheorems, FiniteSetTheorems, WellFoundedInduction, TLAPS

LEMMA LeastNumber ==
  ASSUME NEW T, T \subseteq Nat, T # {}
  PROVE  \E n \in T : \A m \in T : n <= m
<1>1. \E n \in T : \A m \in T : ~ (<<m, n>> \in OpToRel(<, Nat))
  BY WFMin, NatLessThanWellFounded
<1>2. \A m, n \in Nat : ~ (<<m, n>> \in OpToRel(<, Nat)) => n <= m
  BY DEF OpToRel
<1> QED
  BY <1>1, <1>2

\* What holds at 0 and is kept from each to the next holds at n.
LEMMA UpTo ==
  ASSUME NEW n \in Nat, NEW T, 0 \in T, \A i \in 1 .. n : i - 1 \in T => i \in T
  PROVE  n \in T
<1> DEFINE U == {i \in 0 .. n : i \notin T}
<1> SUFFICES ASSUME n \in U PROVE FALSE
  OBVIOUS
<1>1. PICK m \in U : \A k \in U : m <= k
  <2>1. U \subseteq Nat /\ U # {}
    OBVIOUS
  <2> QED
    BY <2>1, LeastNumber
<1>2. m # 0 /\ m \in 1 .. n
  BY <1>1
<1>3. m - 1 \notin U
  BY <1>1, <1>2
<1> QED
  BY <1>1, <1>2, <1>3

\* f goes from a first value by a step from each to the next.
Goes(f, n, S, first, step) ==
    /\ f \in [0 .. n -> S]
    /\ f[0] = first /\ \A i \in 1 .. n : f[i] = step[i][f[i - 1]]

LEMMA FunctionByStep ==
  ASSUME NEW n \in Nat, NEW S, NEW first \in S, NEW step \in [1 .. n -> [S -> S]]
  PROVE  \E f : Goes(f, n, S, first, step)
<1> DEFINE T == {m \in 0 .. n : \A f : ~ Goes(f, m, S, first, step)}
<1> SUFFICES ASSUME n \in T PROVE FALSE
  OBVIOUS
<1>1. PICK m \in T : \A k \in T : m <= k
  <2>1. T \subseteq Nat /\ T # {}
    OBVIOUS
  <2> QED
    BY <2>1, LeastNumber
<1>2. CASE m = 0
  <2>1. Goes([i \in 0 .. 0 |-> first], 0, S, first, step)
    BY DEF Goes
  <2> QED
    BY <1>1, <1>2, <2>1
<1>3. CASE m # 0
  <2> DEFINE k == m - 1
  <2>1. m \in 1 .. n /\ k \in 0 .. n /\ k = m - 1 /\ ~ (m <= k)
    BY <1>1, <1>3
  <2> HIDE DEF k
  <2>2. PICK f : Goes(f, k, S, first, step)
    BY <1>1, <2>1
  <2> DEFINE x == step[m][f[k]]
             g == [i \in 0 .. m |-> IF i = m THEN x ELSE f[i]]
  <2>3. f \in [0 .. k -> S] /\ f[0] = first /\ \A i \in 1 .. k : f[i] = step[i][f[i - 1]]
    BY <2>2 DEF Goes
  <2>4. f[k] \in S /\ x \in S
    BY <2>1, <2>3
  <2>5. g \in [0 .. m -> S] /\ g[0] = first /\ g[m] = x
        /\ \A i \in 0 .. k : g[i] = f[i]
    BY <2>1, <2>3, <2>4
  <2>6. ASSUME NEW i \in 1 .. m PROVE g[i] = step[i][g[i - 1]]
    <3>1. CASE i = m
      BY <2>1, <2>5, <3>1
    <3>2. CASE i # m
      <4>1. i \in 1 .. k /\ i - 1 \in 0 .. k /\ i \in 0 .. k
        BY <2>1, <3>2
      <4> QED
        BY <2>3, <2>5, <4>1
    <3> QED
      BY <3>1, <3>2
  <2> HIDE DEF g
  <2>7. Goes(g, m, S, first, step)
    BY <2>5, <2>6 DEF Goes
  <2> QED
    BY <1>1, <2>7
<1> QED
  BY <1>2, <1>3

LEMMA CardinalityUpTo ==
  ASSUME NEW n \in Nat
  PROVE  IsFiniteSet(1 .. n) /\ Cardinality(1 .. n) = n
<1>1. IsFiniteSet(1 .. n) /\ Cardinality(1 .. n) = IF 1 > n THEN 0 ELSE n - 1 + 1
  BY FS_Interval
<1> QED
  BY <1>1

LEMMA FunctionIsSeq ==
  ASSUME NEW S, NEW n \in Nat, NEW f \in [1 .. n -> S]
  PROVE  f \in Seq(S) /\ Len(f) = n
<1>1. f \in Seq(S)
  BY SeqDef
<1>2. DOMAIN f = 1 .. Len(f) /\ DOMAIN f = 1 .. n /\ Len(f) \in Nat
  BY <1>1, LenProperties
<1> QED
  BY <1>1, <1>2

\* As many values as arguments, when none is there twice.
LEMMA InjectiveCount ==
  ASSUME NEW n \in Nat, NEW S, NEW f \in [1 .. n -> S],
         \A i, j \in 1 .. n : f[i] = f[j] => i = j,
         \A x \in S : \E i \in 1 .. n : f[i] = x
  PROVE  IsFiniteSet(S) /\ Cardinality(S) = n
<1>1. f \in Injection(1 .. n, S)
  BY DEF Injection, IsInjective
<1>2. f \in Surjection(1 .. n, S)
  BY DEF Surjection
<1>3. IsFiniteSet(1 .. n) /\ Cardinality(1 .. n) = n
  BY CardinalityUpTo
<1> QED
  BY <1>1, <1>2, <1>3, FS_Surjection

-----------------------------------------------------------------------------
(* Arithmetic, products and quotients of variables each in a step of its own *)

LEMMA Divide ==
  ASSUME NEW a \in Nat, NEW m \in Nat \ {0}
  PROVE  a \div m \in Nat /\ a % m \in 0 .. m - 1 /\ a = m * (a \div m) + (a % m)
OBVIOUS

LEMMA Smaller ==
  ASSUME NEW m \in Nat \ {0}, NEW k \in Nat
  PROVE  m * k >= k /\ m * k \in Nat
OBVIOUS

LEMMA Monotone ==
  ASSUME NEW m \in Nat, NEW k \in Nat, NEW q \in Nat, k <= q
  PROVE  m * k <= m * q
OBVIOUS

LEMMA DivideOnly ==
  ASSUME NEW m \in Nat \ {0}, NEW q \in Int, NEW r \in 0 .. m - 1
  PROVE  (m * q + r) \div m = q /\ (m * q + r) % m = r
<1> DEFINE a == m * q + r
           p == a \div m
           s == a % m
<1>1. m * q \in Int
  OBVIOUS
<1>2. a \in Int /\ p \in Int /\ s \in 0 .. m - 1 /\ a = m * p + s
  BY <1>1
<1>3. a = m * q + r
  OBVIOUS
<1> HIDE DEF a, p, s
<1>4. m * (q - p) = s - r
  BY <1>2, <1>3
<1>5. q - p \in Int /\ (q - p >= 1 => m * (q - p) >= m) /\ (q - p <= -1 => m * (q - p) <= -m)
  BY <1>2
<1>6. q = p
  BY <1>2, <1>4, <1>5
<1> QED
  BY <1>2, <1>3, <1>6 DEF a, p, s

LEMMA MultipleOf ==
  ASSUME NEW d \in Nat \ {0}, NEW n \in Nat
  PROVE  n % d = 0 <=> \E q \in Nat : n = d * q
<1>1. ASSUME NEW q \in Nat, n = d * q PROVE n % d = 0
  <2>1. (d * q + 0) % d = 0
    BY DivideOnly
  <2>2. d * q + 0 = n
    BY <1>1
  <2> QED
    BY <2>1, <2>2
<1>2. ASSUME n % d = 0 PROVE \E q \in Nat : n = d * q
  <2> DEFINE q == n \div d
  <2>1. q \in Nat /\ n = d * q + (n % d)
    BY Divide
  <2> HIDE DEF q
  <2>2. d * q \in Nat
    BY <2>1
  <2> QED
    BY <1>2, <2>1, <2>2
<1> QED
  BY <1>1, <1>2

LEMMA DividesThrough ==
  ASSUME NEW e \in Nat \ {0}, NEW d \in Nat \ {0}, NEW n \in Nat, d % e = 0, n % d = 0
  PROVE  n % e = 0
<1>1. PICK p \in Nat : d = e * p
  BY MultipleOf
<1>2. PICK q \in Nat : n = d * q
  BY MultipleOf
<1>3. n = e * (p * q) /\ p * q \in Nat
  BY <1>1, <1>2
<1> QED
  BY <1>3, MultipleOf

LEMMA SquareLess ==
  ASSUME NEW a \in Nat, NEW b \in Nat
  PROVE  /\ a * a \in Nat /\ b * b \in Nat
         /\ a < b <=> a * a < b * b
         /\ a <= b <=> a * a <= b * b
<1>1. ASSUME NEW x \in Nat, NEW y \in Nat, x < y PROVE x * x < y * y
  <2>1. PICK z \in Nat : y = x + z /\ z > 0
    BY <1>1, y - x \in Nat
  <2>2. y * y = x * x + 2 * (x * z) + z * z
    BY <2>1
  <2>3. x * x \in Nat /\ x * z \in Nat /\ z * z \in Nat /\ z * z > 0
    BY <2>1
  <2> QED
    BY <2>2, <2>3
<1>2. a * a \in Nat /\ b * b \in Nat
  OBVIOUS
<1>3. a < b => a * a < b * b
  BY <1>1
<1>4. b < a => b * b < a * a
  BY <1>1
<1> QED
  BY <1>2, <1>3, <1>4

LEMMA MinOfTwo ==
  ASSUME NEW a \in Int, NEW b \in Int
  PROVE  Min({a, b}) = IF a <= b THEN a ELSE b
BY DEF Min

LEMMA MaxOfTwo ==
  ASSUME NEW a \in Int, NEW b \in Int
  PROVE  Max({a, b}) = IF a >= b THEN a ELSE b
BY DEF Max

-----------------------------------------------------------------------------
(* bit_hack.h *)

\* Twice a power of two is one.
LEMMA DoublePow2 ==
  ASSUME NEW p \in Nat \ {0}, IsPow2(p)
  PROVE  IsPow2(2 * p)
<1> SUFFICES ASSUME NEW d \in 1 .. 2 * p, NEW q \in 1 .. 2 * p,
                    2 * p = d * q, d # 1, d % 2 # 0
             PROVE  FALSE
  BY DEF IsPow2
<1>1. PICK a \in Nat : d = 2 * a + 1
  <2>1. d \div 2 \in Nat /\ d = 2 * (d \div 2) + 1
    OBVIOUS
  <2> QED
    BY <2>1
<1> DEFINE r == p - a * q
<1>2. p = d * r
  <2>1. 2 * p = 2 * (a * q) + q
    BY <1>1
  <2> DEFINE x == a * q
  <2>2. x \in Nat /\ q = 2 * (p - x)
    BY <2>1
  <2>3. d * (p - x) = 2 * (a * (p - x)) + (p - x)
    BY <1>1, <2>2
  <2>4. 2 * (a * (p - x)) = a * q
    BY <2>2
  <2> QED
    BY <2>3, <2>4, <2>2
<1>3. r \in Int
  OBVIOUS
<1> HIDE DEF r
<1>4. r >= 1
  BY <1>2, <1>3
<1>5. d <= p /\ r <= p
  BY <1>2, <1>3, <1>4
<1> QED
  BY <1>2, <1>3, <1>4, <1>5 DEF IsPow2

\* From n to 2n - 1 there is a power of two: twice the one there is for half
\* of n, or that one itself.
LEMMA Pow2Exists ==
  ASSUME NEW n \in Nat \ {0}
  PROVE  \E p \in n .. 2 * n - 1 : IsPow2(p)
<1> DEFINE P(k) == \E p \in k .. 2 * k - 1 : IsPow2(p)
           T == {k \in Nat \ {0} : ~ P(k)}
<1> SUFFICES ASSUME n \in T PROVE FALSE
  OBVIOUS
<1>1. PICK k \in T : \A m \in T : k <= m
  BY LeastNumber, T \subseteq Nat, T # {}
<1>2. k # 1
  <2>1. IsPow2(1)
    BY DEF IsPow2
  <2> QED
    BY <2>1, 1 \in 1 .. 2 * 1 - 1
<1> DEFINE m == (k + 1) \div 2
<1>3. m \in Nat \ {0} /\ m < k /\ (k = 2 * m \/ k = 2 * m - 1)
  BY <1>2
<1>4. PICK p \in m .. 2 * m - 1 : IsPow2(p)
  BY <1>1, <1>3
<1>5. IsPow2(2 * p)
  BY <1>3, <1>4, DoublePow2
<1> HIDE DEF m
<1>6. 2 * p \in k .. 2 * k - 1 \/ p \in k .. 2 * k - 1
  BY <1>3
<1> QED
  BY <1>4, <1>5, <1>6

\* next_pow2() gives a room that is large enough.
LEMMA NextPow2Above ==
  ASSUME NEW n \in Nat
  PROVE  next_pow2(n) \in Nat /\ next_pow2(n) >= n
<1>1. CASE n = 0
  BY <1>1 DEF next_pow2
<1>2. CASE n # 0
  <2>1. \E p \in n .. 2 * n - 1 : IsPow2(p)
    BY <1>2, Pow2Exists
  <2>2. next_pow2(n) \in n .. 2 * n - 1
    BY <1>2, <2>1 DEF next_pow2
  <2> QED
    BY <2>2
<1> QED
  BY <1>1, <1>2
=============================================================================
