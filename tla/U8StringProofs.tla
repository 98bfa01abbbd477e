--------------------------- MODULE U8StringProofs --------------------------
(***************************************************************************)
(* Proofs about U8String, for every set of strings, of texts and of bounds *)
(* and every choice of lengths of characters: how a cache is lost, and     *)
(* what the operations on characters do to the characters. And about       *)
(* TextItems, for every list of items and quotes and escapes of one byte:  *)
(* split() undoes join().                                                  *)
(***************************************************************************)
EXTENDS U8String, TextItems, ProofLemmas

(* The walk through the characters of a string *)

\* Where update_() stops.
Stop(b, y) == y = Len(b) \/ b[y + 1] = Nul \/ validate_u8char(b, y) = 0

LEMMA Chars2 ==
  /\ Bytes \subseteq Nat
  /\ \A n \in Bytes : n \notin {Nul, Ascii, Cont} => n >= 2 /\ n <= 6
BY U8StringAssumption DEF Bytes, Nul, Ascii, Cont

\* What starts at y is a character within the string, or none.
LEMMA CharWithin ==
  ASSUME NEW b \in Seq(Bytes), NEW y \in 0 .. Len(b) - 1
  PROVE  /\ validate_u8char(b, y) \in Nat /\ y + validate_u8char(b, y) <= Len(b)
         /\ \A i \in 2 .. validate_u8char(b, y) : b[y + i] = Cont
<1>1. Len(b) \in Nat /\ DOMAIN b = 1 .. Len(b) /\ y + 1 \in 1 .. Len(b) /\ b[y + 1] \in Bytes
  BY LenProperties
<1>2. b[y + 1] \in Nat
  BY <1>1, Chars2
<1>3. CASE b[y + 1] \in {Nul, Ascii}
  <2>1. validate_u8char(b, y) = 1
    BY <1>3 DEF validate_u8char, Nul, Ascii, Cont
  <2> QED
    BY <1>1, <2>1
<1>4. CASE b[y + 1] = Cont
  <2>1. validate_u8char(b, y) = 0
    BY <1>4 DEF validate_u8char, Nul, Ascii, Cont
  <2> QED
    BY <1>1, <2>1
<1>5. CASE b[y + 1] \notin {Nul, Ascii, Cont}
  <2> DEFINE n == b[y + 1]
             whole == \A i \in 1 .. n - 1 : y + 1 + i \in DOMAIN b /\ b[y + 1 + i] = Cont
  <2>1. validate_u8char(b, y) = IF whole THEN n ELSE 0
    BY <1>5 DEF validate_u8char
  <2>2. n >= 2 /\ n \in Nat
    BY <1>1, <1>2, <1>5, Chars2
  <2> HIDE DEF n
  <2>3. ASSUME whole PROVE y + n <= Len(b) /\ \A i \in 2 .. n : b[y + i] = Cont
    <3>1. n - 1 \in 1 .. n - 1
      BY <2>2
    <3>2. y + 1 + (n - 1) \in 1 .. Len(b)
      BY <1>1, <2>3, <3>1
    <3>3. ASSUME NEW i \in 2 .. n PROVE b[y + i] = Cont
      <4>1. i - 1 \in 1 .. n - 1 /\ y + 1 + (i - 1) = y + i
        BY <2>2
      <4> QED
        BY <2>3, <4>1
    <3> QED
      BY <1>1, <2>2, <3>2, <3>3
  <2> HIDE DEF whole
  <2>4. CASE whole
    BY <1>1, <2>1, <2>2, <2>3, <2>4
  <2>5. CASE ~whole
    BY <1>1, <2>1, <2>5
  <2> QED
    BY <2>4, <2>5
<1> QED
  BY <1>3, <1>4, <1>5

\* from of Walk(), for the starts from m on
WalkedFrom(b, m, from) ==
    /\ from \in [0 .. Len(b) -> Seq(Nat)]
    /\ \A y \in m .. Len(b) :
           from[y] = IF Stop(b, y) THEN <<y>> ELSE <<y>> \o from[y + validate_u8char(b, y)]

LEMMA WalkedFromAll ==
  ASSUME NEW b \in Seq(Bytes)
  PROVE  \E from : WalkedFrom(b, 0, from)
<1> DEFINE N == Len(b)
           T == {i \in 0 .. N : \E from : WalkedFrom(b, N - i, from)}
<1>1. N \in Nat
  OBVIOUS
<1>2. 0 \in T
  <2> DEFINE f == [y \in 0 .. N |-> <<y>>]
  <2>1. f \in [0 .. N -> Seq(Nat)]
    OBVIOUS
  <2>2. WalkedFrom(b, N, f)
    BY <1>1, <2>1 DEF WalkedFrom, Stop
  <2> QED
    BY <1>1, <2>2
<1>3. ASSUME NEW i \in 1 .. N, i - 1 \in T PROVE i \in T
  <2> DEFINE m == N - i
             v == validate_u8char(b, m)
  <2>1. m \in 0 .. N - 1 /\ N - (i - 1) = m + 1 /\ i \in 0 .. N
    BY <1>1
  <2>2. PICK from : WalkedFrom(b, m + 1, from)
    BY <1>3, <2>1
  <2>3. v \in Nat /\ m + v <= N /\ (v = 0 => Stop(b, m))
    BY <2>1, CharWithin DEF Stop
  <2> DEFINE first == IF Stop(b, m) THEN <<m>> ELSE <<m>> \o from[m + v]
             g == [from EXCEPT ![m] = first]
  <2>4. from \in [0 .. N -> Seq(Nat)]
    BY <2>2 DEF WalkedFrom
  <2>5. first \in Seq(Nat)
    <3>1. m + v \in 0 .. N
      BY <2>1, <2>3
    <3>2. from[m + v] \in Seq(Nat) /\ <<m>> \in Seq(Nat)
      BY <2>1, <2>4, <3>1
    <3> QED
      BY <3>2
  <2> HIDE DEF first
  <2>6. g \in [0 .. N -> Seq(Nat)] /\ g[m] = first /\ \A y \in m + 1 .. N : g[y] = from[y]
    BY <2>1, <2>4, <2>5
  <2>7. ASSUME NEW y \in m .. N
        PROVE  g[y] = IF Stop(b, y) THEN <<y>> ELSE <<y>> \o g[y + validate_u8char(b, y)]
    <3>1. CASE y = m
      <4>1. ~Stop(b, m) => m + v \in m + 1 .. N
        BY <2>1, <2>3
      <4>2. ~Stop(b, m) => g[m + v] = from[m + v]
        BY <2>6, <4>1
      <4> QED
        BY <2>6, <3>1, <4>2 DEF first
    <3>2. CASE y # m
      <4> DEFINE u == validate_u8char(b, y)
      <4>1. y \in m + 1 .. N
        BY <2>1, <3>2
      <4>2. g[y] = IF Stop(b, y) THEN <<y>> ELSE <<y>> \o from[y + u]
        BY <2>2, <2>6, <4>1 DEF WalkedFrom
      <4>3. ~Stop(b, y) => u \in Nat /\ y + u \in m + 1 .. N
        <5>1. ~Stop(b, y) => y \in 0 .. N - 1
          BY <1>1, <2>1, <4>1 DEF Stop
        <5>2. ~Stop(b, y) => u \in Nat /\ y + u <= N
          BY <5>1, CharWithin
        <5> QED
          BY <2>1, <4>1, <5>2
      <4> QED
        BY <2>6, <4>2, <4>3
    <3> QED
      BY <3>1, <3>2
  <2> HIDE DEF g
  <2>8. WalkedFrom(b, m, g)
    BY <2>6, <2>7 DEF WalkedFrom
  <2> QED
    BY <2>1, <2>8
<1> HIDE DEF T
<1>4. N \in T
  BY <1>1, <1>2, <1>3, UpTo
<1> QED
  BY <1>1, <1>4 DEF T

\* The walk from y is w: from each character to the next, to where it stops.
Path(b, y, w) ==
    /\ w \in Seq(Nat) /\ Len(w) >= 1 /\ w[1] = y
    /\ \A k \in 1 .. Len(w) : w[k] \in 0 .. Len(b)
    /\ \A k \in 1 .. Len(w) - 1 : ~Stop(b, w[k]) /\ w[k + 1] = w[k] + validate_u8char(b, w[k])
    /\ Stop(b, w[Len(w)])

LEMMA PathOne ==
  ASSUME NEW b \in Seq(Bytes), NEW y \in 0 .. Len(b), Stop(b, y)
  PROVE  Path(b, y, <<y>>)
BY DEF Path

LEMMA PathMore ==
  ASSUME NEW b \in Seq(Bytes), NEW y \in 0 .. Len(b), ~Stop(b, y),
         NEW w, Path(b, y + validate_u8char(b, y), w)
  PROVE  Path(b, y, <<y>> \o w)
<1> DEFINE x == <<y>> \o w
           v == validate_u8char(b, y)
<1>1. w \in Seq(Nat) /\ Len(w) \in Nat /\ Len(w) >= 1 /\ y \in Nat
  BY DEF Path
<1>2. /\ x \in Seq(Nat) /\ Len(x) = Len(w) + 1 /\ x[1] = y
      /\ \A k \in 1 .. Len(w) : x[k + 1] = w[k]
  BY <1>1
<1> HIDE DEF x
<1>3. \A k \in 2 .. Len(w) + 1 : k - 1 \in 1 .. Len(w) /\ x[k] = w[k - 1]
  <2>1. ASSUME NEW k \in 2 .. Len(w) + 1 PROVE k - 1 \in 1 .. Len(w) /\ x[k] = w[k - 1]
    <3>1. k - 1 \in 1 .. Len(w) /\ (k - 1) + 1 = k
      BY <1>1
    <3> QED
      BY <1>2, <3>1
  <2> QED
    BY <2>1
<1>4. ASSUME NEW k \in 1 .. Len(x) PROVE x[k] \in 0 .. Len(b)
  BY <1>1, <1>2, <1>3, SMTT(30) DEF Path
<1>5. ASSUME NEW k \in 1 .. Len(x) - 1
      PROVE  ~Stop(b, x[k]) /\ x[k + 1] = x[k] + validate_u8char(b, x[k])
  <2>1. CASE k = 1
    <3>1. x[k] = y /\ x[k + 1] = w[1] /\ w[1] = y + v
      BY <1>1, <1>2, <2>1 DEF Path
    <3> QED
      BY <3>1
  <2>2. CASE k # 1
    <3> DEFINE h == k - 1
    <3>1. h \in 1 .. Len(w) - 1 /\ k = h + 1 /\ h \in 1 .. Len(w) /\ h + 1 \in 1 .. Len(w)
      BY <1>1, <1>2, <2>2
    <3> HIDE DEF h
    <3>2. x[k] = w[h] /\ x[k + 1] = w[h + 1]
      <4>1. k = h + 1 /\ k + 1 \in 2 .. Len(w) + 1 /\ (k + 1) - 1 = h + 1
        BY <1>1, <3>1
      <4> QED
        BY <1>2, <1>3, <3>1, <4>1
    <3> QED
      BY <3>1, <3>2 DEF Path
  <2> QED
    BY <2>1, <2>2
<1>6. Stop(b, x[Len(x)])
  <2>1. x[Len(x)] = w[Len(w)]
    BY <1>1, <1>2, SMTT(30)
  <2> QED
    BY <2>1 DEF Path
<1> QED
  BY <1>1, <1>2, <1>4, <1>5, <1>6 DEF Path, x

LEMMA WalkIsPath ==
  ASSUME NEW b \in Seq(Bytes)
  PROVE  Path(b, 0, Walk(b))
<1> DEFINE N == Len(b)
           Rec(g) == [y \in 0 .. N |-> IF Stop(b, y) THEN <<y>> ELSE <<y>> \o g[y + validate_u8char(b, y)]]
           from == CHOOSE g : g = Rec(g)
<1>1. N \in Nat
  OBVIOUS
<1>2. \E g : g = Rec(g)
  <2>1. PICK g : WalkedFrom(b, 0, g)
    BY WalkedFromAll
  <2>2. g = Rec(g)
    BY <2>1 DEF WalkedFrom
  <2> QED
    BY <2>2
<1>3. Walk(b) = from[0]
  BY DEF Walk, Stop
<1> HIDE DEF Rec
<1>4. from = Rec(from)
  BY <1>2
<1> HIDE DEF from
<1>5. \A y \in 0 .. N : from[y] = IF Stop(b, y) THEN <<y>> ELSE <<y>> \o from[y + validate_u8char(b, y)]
  BY <1>4 DEF Rec
<1> DEFINE T == {i \in 0 .. N : \A y \in N - i .. N : Path(b, y, from[y])}
<1>6. 0 \in T
  <2>1. Stop(b, N) /\ N \in 0 .. N
    BY <1>1 DEF Stop
  <2>2. from[N] = <<N>>
    BY <1>5, <2>1
  <2>3. Path(b, N, from[N])
    BY <2>1, <2>2, PathOne
  <2> QED
    BY <1>1, <2>3
<1>7. ASSUME NEW i \in 1 .. N, i - 1 \in T PROVE i \in T
  <2> DEFINE m == N - i
  <2>1. m \in 0 .. N - 1 /\ N - (i - 1) = m + 1 /\ i \in 0 .. N /\ m \in 0 .. N
    BY <1>1
  <2>2. \A y \in m + 1 .. N : Path(b, y, from[y])
    BY <1>7, <2>1
  <2> HIDE DEF m
  <2>3. Path(b, m, from[m])
    <3>1. CASE Stop(b, m)
      BY <1>5, <2>1, <3>1, PathOne
    <3>2. CASE ~Stop(b, m)
      <4> DEFINE v == validate_u8char(b, m)
      <4>1. v \in Nat /\ m + v <= N /\ v # 0
        BY <2>1, <3>2, CharWithin DEF Stop
      <4>2. m + v \in m + 1 .. N
        BY <1>1, <2>1, <4>1
      <4>3. Path(b, m + v, from[m + v])
        BY <2>2, <4>2
      <4>4. Path(b, m, <<m>> \o from[m + v])
        BY <2>1, <3>2, <4>3, PathMore
      <4> QED
        BY <1>5, <2>1, <3>2, <4>4
    <3> QED
      BY <3>1, <3>2
  <2>4. ASSUME NEW y \in m .. N PROVE Path(b, y, from[y])
    <3>1. y = m \/ y \in m + 1 .. N
      BY <1>1, <2>1
    <3> QED
      BY <2>2, <2>3, <3>1
  <2> QED
    BY <2>1, <2>4 DEF m
<1> HIDE DEF T
<1>8. N \in T
  BY <1>1, <1>6, <1>7, UpTo
<1>9. Path(b, 0, from[0])
  BY <1>1, <1>8 DEF T
<1> QED
  BY <1>3, <1>9

LEMMA PathUnique ==
  ASSUME NEW b \in Seq(Bytes), NEW y, NEW w, NEW v, Path(b, y, w), Path(b, y, v)
  PROVE  w = v
<1> DEFINE n == IF Len(w) <= Len(v) THEN Len(w) ELSE Len(v)
           T == {k \in 0 .. n - 1 : w[k + 1] = v[k + 1]}
<1>1. /\ w \in Seq(Nat) /\ v \in Seq(Nat) /\ Len(w) \in Nat /\ Len(v) \in Nat
      /\ n \in Nat /\ n >= 1 /\ n <= Len(w) /\ n <= Len(v) /\ (n = Len(w) \/ n = Len(v))
      /\ w[1] = v[1]
  BY DEF Path
<1> HIDE DEF n
<1>2. 0 \in T
  BY <1>1
<1>3. ASSUME NEW m \in 0 .. n - 1 PROVE m \in T
  <2>1. ASSUME NEW k \in 1 .. m, k - 1 \in T PROVE k \in T
    <3>1. k \in 1 .. Len(w) - 1 /\ k \in 1 .. Len(v) - 1 /\ k \in 0 .. n - 1 /\ (k - 1) + 1 = k
      BY <1>1
    <3>2. w[k] = v[k]
      BY <2>1, <3>1
    <3>3. w[k + 1] = v[k + 1]
      BY <3>1, <3>2 DEF Path
    <3> QED
      BY <3>1, <3>3
  <2> HIDE DEF T
  <2> QED
    BY <1>2, <2>1, UpTo
<1>4. ASSUME NEW k \in 1 .. n PROVE w[k] = v[k]
  <2>1. k - 1 \in 0 .. n - 1 /\ (k - 1) + 1 = k
    BY <1>1
  <2>2. k - 1 \in T
    BY <1>3, <2>1
  <2> QED
    BY <2>1, <2>2
<1>5. Len(w) = Len(v)
  <2>1. w[n] = v[n]
    BY <1>1, <1>4
  <2>2. n # Len(w) => n \in 1 .. Len(w) - 1
    BY <1>1
  <2>3. n # Len(v) => n \in 1 .. Len(v) - 1
    BY <1>1
  <2> QED
    BY <1>1, <2>1, <2>2, <2>3 DEF Path
<1> QED
  BY <1>1, <1>4, <1>5, SeqEqual

LEMMA WalkType ==
  ASSUME NEW b \in Seq(Bytes)
  PROVE  /\ Walk(b) \in Seq(Nat) /\ Len(Walk(b)) \in Nat \ {0} /\ Walk(b)[1] = 0
         /\ Last(Walk(b)) \in 0 .. Len(b)
<1>1. Path(b, 0, Walk(b))
  BY WalkIsPath
<1>2. Walk(b) \in Seq(Nat) /\ Len(Walk(b)) \in Nat /\ Len(Walk(b)) >= 1
  BY <1>1 DEF Path
<1>3. Len(Walk(b)) \in 1 .. Len(Walk(b))
  BY <1>2
<1> QED
  BY <1>1, <1>2, <1>3 DEF Path, Last

-----------------------------------------------------------------------------
(* The cache *)

LEMMA RepeatedType ==
  ASSUME NEW w \in Seq(Nat), Len(w) >= 1, NEW k \in 1 .. 3
  PROVE  Repeated(w, k) \in Seq(Nat) /\ Len(Repeated(w, k)) = k * Len(w)
<1> DEFINE n == Len(w)
<1>1. n \in Nat \ {0} /\ k \in Nat
  BY LenProperties
<1>2. k * n \in Nat
  BY <1>1
<1>3. ASSUME NEW i \in 1 .. k * n PROVE w[((i - 1) % n) + 1] \in Nat
  <2>1. i - 1 \in Nat
    BY <1>2
  <2>2. (i - 1) % n \in 0 .. n - 1
    BY <1>1, <2>1, Divide
  <2>3. ((i - 1) % n) + 1 \in 1 .. n
    BY <1>1, <2>2
  <2> QED
    BY <2>3, LenProperties
<1>4. Repeated(w, k) \in [1 .. k * n -> Nat]
  BY <1>3 DEF Repeated
<1> QED
  BY <1>2, <1>4, FunctionIsSeq

LEMMA RepeatedOnce ==
  ASSUME NEW w \in Seq(Nat), Len(w) >= 1
  PROVE  Repeated(w, 1) = w
<1> DEFINE n == Len(w)
<1>1. n \in Nat \ {0}
  BY LenProperties
<1>2. Repeated(w, 1) \in Seq(Nat) /\ Len(Repeated(w, 1)) = n
  <2>1. 1 * n = n
    BY <1>1
  <2> QED
    BY <2>1, RepeatedType
<1>3. ASSUME NEW i \in 1 .. n PROVE Repeated(w, 1)[i] = w[i]
  <2> DEFINE r == i - 1
  <2>1. r \in 0 .. n - 1 /\ r + 1 = i /\ 1 * n = n
    BY <1>1
  <2>2. Repeated(w, 1)[i] = w[(r % n) + 1]
    BY <2>1 DEF Repeated
  <2> HIDE DEF r, n
  <2>3. (n * 0 + r) % n = r
    BY <1>1, <2>1, DivideOnly
  <2>4. n * 0 + r = r
    BY <1>1, <2>1
  <2> QED
    BY <2>1, <2>2, <2>3, <2>4
<1> QED
  BY <1>2, <1>3, SeqEqual

TInv ==
    /\ str \in [Strings -> Seq(Bytes) \cup {Gone}]
    /\ changed \in [Strings -> BOOLEAN]
    /\ index \in [Strings -> Seq(Nat)]
    /\ held \in SUBSET Strings /\ \A s \in held : Alive(s)

LEMMA AliveType ==
  ASSUME TInv, NEW s \in Strings, Alive(s)
  PROVE  str[s] \in Seq(Bytes) /\ Size(s) \in Nat
<1>1. str[s] \in Seq(Bytes)
  BY DEF TInv, Alive
<1> QED
  BY <1>1, LenProperties DEF Size

LEMMA AliveIff ==
  ASSUME TInv, NEW s \in Strings
  PROVE  Alive(s) <=> str[s] \in Seq(Bytes)
BY U8StringAssumption DEF TInv, Alive

LEMMA LensGrow ==
  ASSUME NEW i \in Seq(Nat), NEW w \in Seq(Nat), Len(w) >= 1, NEW k \in 1 .. 3
  PROVE  /\ i \o Repeated(w, k) \in Seq(Nat)
         /\ Len(i) \in Nat /\ Len(w) \in Nat /\ k * Len(w) \in Nat
         /\ Len(i \o Repeated(w, k)) = Len(i) + k * Len(w)
<1>1. Repeated(w, k) \in Seq(Nat) /\ Len(Repeated(w, k)) = k * Len(w)
  BY RepeatedType
<1>2. Len(i) \in Nat /\ Len(w) \in Nat /\ Len(Repeated(w, k)) \in Nat
  BY <1>1, LenProperties
<1> DEFINE r == Repeated(w, k)
<1>3. r \in Seq(Nat) /\ Len(r) \in Nat /\ Len(r) = k * Len(w)
  BY <1>1, <1>2
<1> HIDE DEF r
<1>4. i \o r \in Seq(Nat) /\ Len(i \o r) = Len(i) + Len(r)
  BY <1>3, ConcatProperties
<1> QED
  BY <1>2, <1>3, <1>4 DEF r

LEMMA UpdatedType ==
  ASSUME TInv, NEW s \in Strings, Alive(s)
  PROVE  /\ \A k \in 1 .. 3 : Updated(s, k) \in Seq(Nat) /\ Len(Updated(s, k)) \in Nat
         /\ Len(Updated(s, 1)) <= Len(Updated(s, 2))
         /\ Len(Updated(s, 2)) <= Len(Updated(s, 3))
<1> DEFINE w == Walk(str[s])
           i == index[s]
<1>1. i \in Seq(Nat) /\ Len(i) \in Nat
  BY LenProperties DEF TInv
<1>2. w \in Seq(Nat) /\ Len(w) >= 1
  BY AliveType, WalkType
<1>3. CASE ~changed[s]
  <2>1. Updated(s, 1) = i /\ Updated(s, 2) = i /\ Updated(s, 3) = i
    BY <1>3 DEF Updated
  <2> HIDE DEF i
  <2>2. \A k \in 1 .. 3 : Updated(s, k) = i
    BY <2>1
  <2> QED
    BY <1>1, <2>1, <2>2
<1>4. CASE changed[s]
  <2>1. \A k \in 1 .. 3 : Updated(s, k) = i \o Repeated(w, IF WellFormed(str[s]) THEN 1 ELSE k)
    BY <1>4 DEF Updated
  <2> HIDE DEF i, w
  <2>2. \A k \in 1 .. 3 : /\ i \o Repeated(w, k) \in Seq(Nat)
                           /\ Len(w) \in Nat /\ k * Len(w) \in Nat
                           /\ Len(i \o Repeated(w, k)) = Len(i) + k * Len(w)
    BY <1>1, <1>2, LensGrow
  <2>3. CASE WellFormed(str[s])
    <3>1. \A k \in 1 .. 3 : Updated(s, k) = i \o Repeated(w, 1)
      BY <2>1, <2>3
    <3>2. i \o Repeated(w, 1) \in Seq(Nat) /\ Len(i \o Repeated(w, 1)) \in Nat
      <4>1. 1 \in 1 .. 3
        OBVIOUS
      <4> QED
        BY <2>2, <4>1, LenProperties
    <3> DEFINE r == i \o Repeated(w, 1)
    <3>3. r \in Seq(Nat) /\ Len(r) \in Nat /\ \A k \in 1 .. 3 : Updated(s, k) = r
      BY <3>1, <3>2
    <3> HIDE DEF r
    <3>4. Updated(s, 1) = r /\ Updated(s, 2) = r /\ Updated(s, 3) = r
      BY <3>3
    <3> QED
      BY <3>3, <3>4
  <2>4. CASE ~WellFormed(str[s])
    <3>1. \A k \in 1 .. 3 : Updated(s, k) = i \o Repeated(w, k)
      BY <2>1, <2>4
    <3>2. /\ Len(Updated(s, 1)) = Len(i) + 1 * Len(w) /\ Len(Updated(s, 2)) = Len(i) + 2 * Len(w)
          /\ Len(Updated(s, 3)) = Len(i) + 3 * Len(w) /\ Len(w) \in Nat
      <4>1. 1 \in 1 .. 3 /\ 2 \in 1 .. 3 /\ 3 \in 1 .. 3
        OBVIOUS
      <4> QED
        BY <2>2, <3>1, <4>1
    <3>3. \A k \in 1 .. 3 : Updated(s, k) \in Seq(Nat)
      BY <2>2, <3>1
    <3>4. \A k \in 1 .. 3 : Len(Updated(s, k)) \in Nat
      BY <3>3, LenProperties
    <3> QED
      BY <1>1, <3>2, <3>3, <3>4
  <2> QED
    BY <2>3, <2>4
<1> QED
  BY <1>3, <1>4

\* A right cache of a well-formed string is its walk, however often it is set up.
LEMMA UpdatedRight ==
  ASSUME TInv, NEW s \in Strings, Alive(s), Right(s), WellFormed(str[s]), NEW k
  PROVE  Updated(s, k) = Walk(str[s])
<1>1. Walk(str[s]) \in Seq(Nat) /\ Len(Walk(str[s])) \in Nat \ {0}
  BY AliveType, WalkType
<1>2. CASE ~changed[s]
  BY <1>2 DEF Updated, Right
<1>3. CASE changed[s]
  <2>1. index[s] = <<>> /\ Repeated(Walk(str[s]), 1) = Walk(str[s])
    BY <1>1, <1>3, RepeatedOnce DEF Right
  <2>2. Updated(s, k) = <<>> \o Walk(str[s])
    BY <1>3, <2>1 DEF Updated
  <2> QED
    BY <1>1, <2>2, ConcatEmptySeq
<1> QED
  BY <1>2, <1>3

-----------------------------------------------------------------------------
(* What the operations on bytes give is bytes. *)

LEMMA LowerIs ==
  ASSUME NEW m \in Int, NEW n \in Int
  PROVE  /\ Lower(m, n) \in Int /\ Lower(m, n) <= m /\ (n >= 0 => Lower(m, n) <= n)
         /\ (m <= n => Lower(m, n) = m) /\ (n >= 0 /\ n <= m => Lower(m, n) = n)
         /\ (m >= 0 => Lower(m, n) \in Nat)
BY DEF Lower

LEMMA SubSeqBytes ==
  ASSUME NEW b \in Seq(Bytes), NEW m \in Nat \ {0}, NEW n \in Int, n <= Len(b)
  PROVE  SubSeq(b, m, n) \in Seq(Bytes)
<1>1. \A i \in m .. n : b[i] \in Bytes
  BY LenProperties
<1> QED
  BY <1>1, SubSeqProperties

LEMMA CStrType ==
  ASSUME NEW b \in Seq(Bytes)
  PROVE  c_str(b) \in Seq(Bytes) /\ Len(c_str(b)) <= Len(b) /\ Len(c_str(b)) \in Nat
<1> DEFINE nuls == {i \in DOMAIN b : b[i] = Nul}
<1>1. Len(b) \in Nat /\ DOMAIN b = 1 .. Len(b)
  BY LenProperties
<1>2. CASE nuls = {}
  BY <1>1, <1>2 DEF c_str
<1>3. CASE nuls # {}
  <2>1. \E m \in nuls : \A k \in nuls : m <= k
    <3>1. nuls \subseteq Nat
      BY <1>1
    <3> QED
      BY <1>3, <3>1, LeastNumber
  <2>2. Min(nuls) \in nuls
    BY <2>1 DEF Min
  <2> DEFINE m == Min(nuls) - 1
  <2>3. m \in Nat /\ m <= Len(b)
    BY <1>1, <2>2
  <2>4. c_str(b) = SubSeq(b, 1, m)
    BY <1>3 DEF c_str
  <2> HIDE DEF m
  <2>5. SubSeq(b, 1, m) \in Seq(Bytes)
    BY <2>3, SubSeqBytes
  <2>6. Len(SubSeq(b, 1, m)) = m
    BY <2>3
  <2> QED
    BY <2>3, <2>4, <2>5, <2>6
<1> QED
  BY <1>2, <1>3

LEMMA SubstrType ==
  ASSUME NEW b \in Seq(Bytes), NEW pos \in Nat, NEW n \in Nat, NEW x \in Bytes
  PROVE  substr(b, pos, n, x) \in Seq(Bytes)
<1> DEFINE e == Lower(Len(c_str(b)), pos + n)
           m == Lower(n, e - pos)
<1>1. e \in Int
  BY CStrType, LowerIs
<1> HIDE DEF e
<1>2. m \in Nat
  <2>1. n \in Int /\ n >= 0 /\ e - pos \in Int
    BY <1>1
  <2> QED
    BY <2>1, LowerIs
<1>3. substr(b, pos, n, x) = [i \in 1 .. m |-> IF pos + i <= Len(b) THEN b[pos + i] ELSE x]
  BY DEF substr, e
<1> HIDE DEF m
<1>4. ASSUME NEW i \in 1 .. m, pos + i <= Len(b) PROVE b[pos + i] \in Bytes
  <2>1. pos + i \in 1 .. Len(b)
    BY <1>2, <1>4, LenProperties
  <2> QED
    BY <2>1, LenProperties
<1>5. [i \in 1 .. m |-> IF pos + i <= Len(b) THEN b[pos + i] ELSE x] \in [1 .. m -> Bytes]
  BY <1>4
<1> QED
  BY <1>2, <1>3, <1>5, FunctionIsSeq

LEMMA TailOfType ==
  ASSUME NEW b \in Seq(Bytes), NEW pos \in Nat, pos <= Len(b), NEW n \in Nat
  PROVE  tail_of(b, pos, n) \in Seq(Bytes)
<1> DEFINE c == c_str(SubSeq(b, pos + 1, Len(b)))
           m == Lower(n, Len(c))
<1>1. SubSeq(b, pos + 1, Len(b)) \in Seq(Bytes)
  BY SubSeqBytes, LenProperties
<1>2. c \in Seq(Bytes) /\ Len(c) \in Nat
  BY <1>1, CStrType
<1> HIDE DEF c
<1>3. m \in Int /\ m <= Len(c)
  <2>1. n \in Int /\ n >= 0 /\ Len(c) \in Int /\ Len(c) >= 0
    BY <1>2
  <2>2. Lower(n, Len(c)) \in Int /\ Lower(n, Len(c)) <= n /\ Lower(n, Len(c)) <= Len(c)
    BY <2>1, LowerIs
  <2> QED
    BY <2>2
<1> HIDE DEF m
<1>4. SubSeq(c, 1, m) \in Seq(Bytes)
  BY <1>2, <1>3, SubSeqBytes
<1> QED
  BY <1>4 DEF tail_of, c, m

LEMMA InsertType ==
  ASSUME NEW b \in Seq(Bytes), NEW c \in Seq(Bytes), NEW pos \in Nat, pos <= Len(b)
  PROVE  Insert(b, pos, c) \in Seq(Bytes)
<1>1. SubSeq(b, 1, pos) \in Seq(Bytes) /\ SubSeq(b, pos + 1, Len(b)) \in Seq(Bytes)
  BY SubSeqBytes, LenProperties
<1> QED
  BY <1>1, ConcatProperties DEF Insert

LEMMA ErasedType ==
  ASSUME NEW b \in Seq(Bytes), NEW pos \in Nat, pos <= Len(b), NEW n \in Nat
  PROVE  Erased(b, pos, n) \in Seq(Bytes) /\ pos <= Len(Erased(b, pos, n))
<1> DEFINE m == Lower(n, Len(b) - pos)
<1>1. Len(b) \in Nat
  BY LenProperties
<1>2. m \in Nat
  <2>1. n \in Int /\ n >= 0 /\ Len(b) - pos \in Int
    BY <1>1
  <2> QED
    BY <2>1, LowerIs
<1> HIDE DEF m
<1>3. SubSeq(b, 1, pos) \in Seq(Bytes) /\ SubSeq(b, pos + m + 1, Len(b)) \in Seq(Bytes)
  <2>1. pos + m + 1 \in Nat \ {0}
    BY <1>2
  <2> QED
    BY <1>1, <2>1, SubSeqBytes
<1>4. Len(SubSeq(b, 1, pos)) = pos
  BY <1>1
<1>5. Len(SubSeq(b, pos + m + 1, Len(b))) \in Nat
  BY <1>3, LenProperties
<1>6. Erased(b, pos, n) = SubSeq(b, 1, pos) \o SubSeq(b, pos + m + 1, Len(b))
  BY DEF Erased, m
<1> QED
  BY <1>3, <1>4, <1>5, <1>6, ConcatProperties

LEMMA ReplacedType ==
  ASSUME NEW b \in Seq(Bytes), NEW c \in Seq(Bytes), NEW pos \in Nat, pos <= Len(b), NEW n \in Nat
  PROVE  Replaced(b, pos, n, c) \in Seq(Bytes)
BY ErasedType, InsertType DEF Replaced

-----------------------------------------------------------------------------
(* What the steps leave of the caches *)

\* The ways IndexLostOnlyBy names.
Lost(s) ==
    \/ ~Alive(s) /\ str'[s] = <<>>
    \/ Clear(s) \/ AssignThrows(s) \/ \E t \in Strings : Move(t, s)
    \/ \E i \in 1 .. MaxLen, x \in Bytes : WriteThrough(s, i, x)
    \/ Alive(s) /\ str'[s] = str[s] /\ ~WellFormed(str[s])

Kept == TInv' /\ \A s \in Strings : Right(s) /\ ~Right(s)' => Lost(s)

\* The cache of s stays with its bytes, is emptied, or is filled.
Stays(s) == str'[s] = str[s] /\ index'[s] = index[s] /\ changed'[s] = changed[s]
Empties(s) == changed'[s] = TRUE /\ index'[s] = <<>>
Fills(s) == /\ Alive(s) /\ WellFormed(str[s]) /\ str'[s] = str[s]
            /\ changed'[s] = FALSE /\ index'[s] = Walk(str[s])

LEMMA KeptBy ==
  ASSUME TInv, TInv',
         \A s \in Strings : Right(s) => Stays(s) \/ Empties(s) \/ Fills(s) \/ Lost(s)
  PROVE  Kept
<1> SUFFICES ASSUME NEW s \in Strings, Right(s), ~Lost(s) PROVE Right(s)'
  BY DEF Kept
<1>1. CASE Stays(s)
  BY <1>1 DEF Stays, Right, Size
<1>2. CASE Empties(s)
  BY <1>2 DEF Empties, Right
<1>3. CASE Fills(s)
  <2>1. str'[s] = str[s] /\ changed'[s] = FALSE /\ index'[s] = Walk(str[s])
        /\ Last(Walk(str[s])) = Len(str[s])
    BY <1>3 DEF Fills, WellFormed
  <2>2. Walk(str[s]) # <<>>
    <3>1. Len(Walk(str[s])) # 0
      BY <1>3, AliveType, WalkType DEF Fills
    <3> QED
      BY <3>1
  <2> QED
    BY <2>1, <2>2 DEF Right, Size
<1> QED
  BY <1>1, <1>2, <1>3

LEMMA OnChangeGives ==
  ASSUME TInv, NEW S \in SUBSET Strings, OnChange(S)
  PROVE  /\ index' \in [Strings -> Seq(Nat)] /\ changed' \in [Strings -> BOOLEAN]
         /\ held' = held \ S
         /\ \A u \in S : Empties(u)
         /\ \A u \in Strings \ S : index'[u] = index[u] /\ changed'[u] = changed[u]
<1>1. /\ index' = [s \in Strings |-> IF s \in S THEN <<>> ELSE index[s]]
      /\ changed' = [s \in Strings |-> s \in S \/ changed[s]]
      /\ held' = held \ S
  BY DEF OnChange
<1>2. <<>> \in Seq(Nat) /\ \A s \in Strings : index[s] \in Seq(Nat) /\ changed[s] \in BOOLEAN
  BY DEF TInv
<1> QED
  BY <1>1, <1>2 DEF Empties

LEMMA ChangeKept ==
  ASSUME TInv, NEW s \in Strings, NEW b \in Seq(Bytes), Change(s, b)
  PROVE  Kept
<1>1. str' = [str EXCEPT ![s] = b] /\ OnChange({s})
  BY DEF Change
<1>2. /\ index' \in [Strings -> Seq(Nat)] /\ changed' \in [Strings -> BOOLEAN]
      /\ held' = held \ {s} /\ Empties(s)
      /\ \A u \in Strings \ {s} : index'[u] = index[u] /\ changed'[u] = changed[u]
  BY <1>1, OnChangeGives
<1>3. /\ str' \in [Strings -> Seq(Bytes) \cup {Gone}]
      /\ \A u \in Strings \ {s} : str'[u] = str[u]
  BY <1>1 DEF TInv
<1>4. TInv'
  BY <1>2, <1>3 DEF TInv, Alive
<1>5. \A u \in Strings : Stays(u) \/ Empties(u)
  BY <1>2, <1>3 DEF Stays
<1> QED
  BY <1>4, <1>5, KeptBy

LEMMA ConstructEmptyKept ==
  ASSUME TInv, NEW s \in Strings, ConstructEmpty(s)
  PROVE  Kept
<1>1. PICK any \in BOOLEAN : changed' = [changed EXCEPT ![s] = any]
  BY DEF ConstructEmpty
<1>2. /\ ~Alive(s) /\ str' = [str EXCEPT ![s] = <<>>] /\ index' = [index EXCEPT ![s] = <<>>]
      /\ held' = held
  BY DEF ConstructEmpty
<1>3. s \notin held /\ <<>> \in Seq(Bytes) /\ <<>> \in Seq(Nat)
  BY <1>2 DEF TInv
<1>4. TInv'
  BY <1>1, <1>2, <1>3 DEF TInv, Alive
<1>5. Lost(s)
  BY <1>2 DEF Lost, TInv
<1>6. \A u \in Strings \ {s} : Stays(u)
  BY <1>1, <1>2 DEF TInv, Stays
<1> QED
  BY <1>4, <1>5, <1>6, KeptBy

LEMMA MoveKept ==
  ASSUME TInv, NEW s \in Strings, NEW t \in Strings, Move(s, t)
  PROVE  Kept
<1>1. /\ Alive(t) /\ s # t
      /\ str' = [str EXCEPT ![s] = str[t], ![t] = <<>>]
      /\ index' = [index EXCEPT ![s] = <<>>]
      /\ changed' = [changed EXCEPT ![s] = TRUE]
      /\ held' = held \ {s, t}
  BY DEF Move
<1>2. <<>> \in Seq(Bytes) /\ <<>> \in Seq(Nat)
  OBVIOUS
<1>3. str' \in [Strings -> Seq(Bytes) \cup {Gone}] /\ \A u \in Strings \ {s, t} : str'[u] = str[u]
  BY <1>1, <1>2 DEF TInv
<1>4. TInv'
  BY <1>1, <1>2, <1>3 DEF TInv, Alive
<1>5. Empties(s) /\ Lost(t)
  BY <1>1 DEF TInv, Empties, Lost
<1>6. \A u \in Strings \ {s, t} : Stays(u)
  BY <1>1, <1>3 DEF TInv, Stays
<1> QED
  BY <1>4, <1>5, <1>6, KeptBy

LEMMA DestroyKept ==
  ASSUME TInv, NEW s \in Strings, Destroy(s)
  PROVE  Kept
<1>1. str' = [str EXCEPT ![s] = Gone] /\ OnChange({s})
  BY DEF Destroy
<1>2. /\ index' \in [Strings -> Seq(Nat)] /\ changed' \in [Strings -> BOOLEAN]
      /\ held' = held \ {s} /\ Empties(s)
      /\ \A u \in Strings \ {s} : index'[u] = index[u] /\ changed'[u] = changed[u]
  BY <1>1, OnChangeGives
<1>3. /\ str' \in [Strings -> Seq(Bytes) \cup {Gone}]
      /\ \A u \in Strings \ {s} : str'[u] = str[u]
  BY <1>1 DEF TInv
<1>4. TInv'
  BY <1>2, <1>3 DEF TInv, Alive
<1>5. \A u \in Strings : Stays(u) \/ Empties(u)
  BY <1>2, <1>3 DEF Stays
<1> QED
  BY <1>4, <1>5, KeptBy

LEMMA SwapKept ==
  ASSUME TInv, NEW s \in Strings, NEW t \in Strings, Swap(s, t)
  PROVE  Kept
<1>1. /\ Alive(s) /\ Alive(t) /\ s # t
      /\ str' = [str EXCEPT ![s] = str[t], ![t] = str[s]] /\ OnChange({s, t})
  BY DEF Swap
<1>2. /\ index' \in [Strings -> Seq(Nat)] /\ changed' \in [Strings -> BOOLEAN]
      /\ held' = held \ {s, t} /\ Empties(s) /\ Empties(t)
      /\ \A u \in Strings \ {s, t} : index'[u] = index[u] /\ changed'[u] = changed[u]
  BY <1>1, OnChangeGives
<1>3. /\ str' \in [Strings -> Seq(Bytes) \cup {Gone}]
      /\ \A u \in Strings \ {s, t} : str'[u] = str[u]
  BY <1>1 DEF TInv
<1>4. TInv'
  BY <1>2, <1>3 DEF TInv, Alive
<1>5. \A u \in Strings : Stays(u) \/ Empties(u)
  BY <1>2, <1>3 DEF Stays
<1> QED
  BY <1>4, <1>5, KeptBy

LEMMA TakeRefKept ==
  ASSUME TInv, NEW s \in Strings, TakeRef(s)
  PROVE  Kept
<1>1. /\ Alive(s)
      /\ index' = [index EXCEPT ![s] = <<>>]
      /\ changed' = [changed EXCEPT ![s] = TRUE]
      /\ held' = held \cup {s} /\ str' = str
  BY DEF TakeRef
<1>2. TInv'
  <2>1. <<>> \in Seq(Nat)
    OBVIOUS
  <2> QED
    BY <1>1, <2>1 DEF TInv, Alive
<1>3. Empties(s) /\ \A u \in Strings \ {s} : Stays(u)
  BY <1>1 DEF TInv, Empties, Stays
<1> QED
  BY <1>2, <1>3, KeptBy

LEMMA U8AtKept ==
  ASSUME TInv, NEW s \in Strings, U8At(s)
  PROVE  Kept
<1>1. /\ Alive(s)
      /\ index' = [index EXCEPT ![s] = Walk(str[s])]
      /\ changed' = [changed EXCEPT ![s] = ~WellFormed(str[s])]
      /\ held' = held \cup {s} /\ str' = str
  BY DEF U8At
<1>2. TInv'
  <2>1. Walk(str[s]) \in Seq(Nat)
    BY <1>1, AliveType, WalkType
  <2> QED
    BY <1>1, <2>1 DEF TInv, Alive
<1>3. CASE WellFormed(str[s])
  <2>1. Fills(s) /\ \A u \in Strings \ {s} : Stays(u)
    BY <1>1, <1>3 DEF TInv, Fills, Stays
  <2> QED
    BY <1>2, <2>1, KeptBy
<1>4. CASE ~WellFormed(str[s])
  <2>1. Lost(s) /\ \A u \in Strings \ {s} : Stays(u)
    BY <1>1, <1>4 DEF TInv, Lost, Stays
  <2> QED
    BY <1>2, <2>1, KeptBy
<1> QED
  BY <1>3, <1>4

LEMMA WriteThroughKept ==
  ASSUME TInv, NEW s \in Strings, NEW i \in Positions, NEW x \in Bytes, WriteThrough(s, i, x)
  PROVE  Kept
<1>1. /\ s \in held /\ i \in DOMAIN str[s]
      /\ str' = [str EXCEPT ![s][i] = x]
      /\ changed' = changed /\ index' = index /\ held' = held
  BY DEF WriteThrough
<1>2. Alive(s) /\ str[s] \in Seq(Bytes)
  BY <1>1, AliveType DEF TInv
<1>3. i \in 1 .. MaxLen
  <2>1. i \in 1 .. Len(str[s]) /\ Len(str[s]) \in Nat
    BY <1>1, <1>2, LenProperties
  <2> QED
    BY <2>1, U8StringAssumption DEF Positions
<1>4. [str[s] EXCEPT ![i] = x] \in Seq(Bytes)
  BY <1>1, <1>2, ExceptSeq
<1>5. str' = [str EXCEPT ![s] = [str[s] EXCEPT ![i] = x]]
  BY <1>1
<1> DEFINE b == [str[s] EXCEPT ![i] = x]
<1> HIDE DEF b
<1>6. str' = [str EXCEPT ![s] = b] /\ b \in Seq(Bytes)
  BY <1>4, <1>5 DEF b
<1>7. str' \in [Strings -> Seq(Bytes) \cup {Gone}] /\ str'[s] = b
      /\ \A u \in Strings \ {s} : str'[u] = str[u]
  BY <1>6 DEF TInv
<1>8. b # Gone
  BY <1>6, U8StringAssumption
<1>9. TInv'
  BY <1>1, <1>7, <1>8 DEF TInv, Alive
<1>10. Lost(s)
  BY <1>3 DEF Lost
<1>11. \A u \in Strings \ {s} : Stays(u)
  BY <1>1, <1>7 DEF Stays
<1> QED
  BY <1>9, <1>10, <1>11, KeptBy

LEMMA ClearKept ==
  ASSUME TInv, NEW s \in Strings, Clear(s) \/ AssignThrows(s)
  PROVE  Kept
<1>1. /\ Alive(s) /\ str' = [str EXCEPT ![s] = <<>>] /\ held' = held \ {s}
      /\ changed' = changed /\ index' = index
  BY DEF Clear, AssignThrows
<1>2. TInv'
  <2>1. <<>> \in Seq(Bytes)
    OBVIOUS
  <2> QED
    BY <1>1, <2>1 DEF TInv, Alive
<1>3. Lost(s) /\ \A u \in Strings \ {s} : Stays(u)
  BY <1>1 DEF TInv, Lost, Stays
<1> QED
  BY <1>2, <1>3, KeptBy

LEMMA CachesOnlyKept ==
  ASSUME TInv, NEW s \in Strings, NEW t \in Strings, Alive(s), Alive(t),
         NEW k \in 1 .. 3, NEW m \in 1 .. 3, CachesOnly(s, k, t, m)
  PROVE  Kept
<1>1. /\ index' = [index EXCEPT ![s] = Updated(s, k), ![t] = Updated(t, m)]
      /\ changed' = [u \in Strings |-> changed[u] /\ (u \in {s, t} => ~WellFormed(str[u]))]
      /\ str' = str /\ held' = held
  BY DEF CachesOnly
<1>2. Updated(s, k) \in Seq(Nat) /\ Updated(t, m) \in Seq(Nat)
  BY UpdatedType
<1>3. /\ index' \in [Strings -> Seq(Nat)]
      /\ index'[t] = Updated(t, m) /\ (s # t => index'[s] = Updated(s, k))
      /\ \A u \in Strings \ {s, t} : index'[u] = index[u]
  BY <1>1, <1>2 DEF TInv
<1>4. TInv'
  BY <1>1, <1>3 DEF TInv, Alive
<1>5. \A u \in Strings \ {s, t} : Stays(u)
  BY <1>1, <1>3 DEF TInv, Stays
<1>6. ASSUME NEW u \in {s, t}, Right(u) PROVE Fills(u) \/ Lost(u)
  <2>1. CASE WellFormed(str[u])
    <3>1. Updated(u, k) = Walk(str[u]) /\ Updated(u, m) = Walk(str[u])
      BY <1>6, <2>1, UpdatedRight
    <3>2. index'[u] = Walk(str[u])
      BY <1>3, <3>1
    <3>3. changed'[u] = FALSE
      BY <1>1, <2>1
    <3> QED
      BY <1>1, <2>1, <3>2, <3>3 DEF Fills
  <2>2. CASE ~WellFormed(str[u])
    BY <1>1, <2>2 DEF Lost
  <2> QED
    BY <2>1, <2>2
<1> QED
  BY <1>4, <1>5, <1>6, KeptBy

LEMMA ChangeFromKept ==
  ASSUME TInv, NEW s \in Strings, NEW t \in Strings, Alive(t), NEW b \in Seq(Bytes),
         ChangeFrom(s, t, b)
  PROVE  Kept
<1>1. /\ str' = [str EXCEPT ![s] = b]
      /\ index' = [index EXCEPT ![t] = Updated(t, 3), ![s] = <<>>]
      /\ changed' = [changed EXCEPT ![t] = @ /\ ~WellFormed(str[t]), ![s] = TRUE]
      /\ held' = held \ {s}
  BY DEF ChangeFrom
<1>2. Updated(t, 3) \in Seq(Nat) /\ <<>> \in Seq(Nat)
  BY UpdatedType
<1>3. /\ index' \in [Strings -> Seq(Nat)]
      /\ index'[s] = <<>> /\ (s # t => index'[t] = Updated(t, 3))
      /\ \A u \in Strings \ {s, t} : index'[u] = index[u]
  BY <1>1, <1>2 DEF TInv
<1>4. /\ changed' \in [Strings -> BOOLEAN]
      /\ changed'[s] = TRUE /\ (s # t => changed'[t] = (changed[t] /\ ~WellFormed(str[t])))
      /\ \A u \in Strings \ {s, t} : changed'[u] = changed[u]
  BY <1>1 DEF TInv
<1>5. str' \in [Strings -> Seq(Bytes) \cup {Gone}] /\ \A u \in Strings \ {s} : str'[u] = str[u]
  BY <1>1 DEF TInv
<1>6. TInv'
  BY <1>1, <1>3, <1>4, <1>5 DEF TInv, Alive
<1>7. Empties(s) /\ \A u \in Strings \ {s, t} : Stays(u)
  BY <1>3, <1>4, <1>5 DEF Empties, Stays
<1>8. ASSUME s # t, Right(t) PROVE Fills(t) \/ Lost(t)
  <2>1. CASE WellFormed(str[t])
    <3>1. Updated(t, 3) = Walk(str[t])
      BY <1>8, <2>1, UpdatedRight
    <3> QED
      BY <1>3, <1>4, <1>5, <1>8, <2>1, <3>1 DEF Fills
  <2>2. CASE ~WellFormed(str[t])
    BY <1>5, <1>8, <2>2 DEF Lost
  <2> QED
    BY <2>1, <2>2
<1> QED
  BY <1>6, <1>7, <1>8, KeptBy

-----------------------------------------------------------------------------
(* The operations that work with the cache *)

\* Two places of the cache that there are.
Placed(j, y) == y \in Nat /\ y + 1 <= Len(j.at)

LEMMA CacheType ==
  ASSUME TInv, NEW t \in Strings, Alive(t), NEW j, j = Cache(t)
  PROVE  /\ j.at \in Seq(Nat) /\ Len(j.at) \in Nat
         /\ j.size[1] \in Int /\ j.size[2] \in Int
         /\ j.size[1] <= j.size[2] /\ j.size[2] + 1 <= Len(j.at)
<1>1. /\ Updated(t, 3) \in Seq(Nat) /\ Len(Updated(t, 3)) \in Nat
      /\ Len(Updated(t, 1)) \in Nat /\ Len(Updated(t, 2)) \in Nat
      /\ Len(Updated(t, 1)) <= Len(Updated(t, 2)) /\ Len(Updated(t, 2)) <= Len(Updated(t, 3))
  <2>1. 1 \in 1 .. 3 /\ 2 \in 1 .. 3 /\ 3 \in 1 .. 3
    OBVIOUS
  <2> QED
    BY <2>1, UpdatedType
<1>2. /\ j.at = Updated(t, 3) /\ j.size[1] = Len(Updated(t, 1)) - 1
      /\ j.size[2] = Len(Updated(t, 2)) - 1
  BY DEF Cache
<1> QED
  BY <1>1, <1>2

LEMMA PartType ==
  ASSUME TInv, NEW t \in Strings, Alive(t), NEW j, j = Cache(t),
         NEW y \in Nat, ~Past(j, y), NEW c \in Nat
  PROVE  /\ j.at[y + 1] \in Nat /\ Count(j, y, c) \in Nat
         /\ j.at[y + Count(j, y, c) + 1] \in Nat
         /\ Part(j, y, c) \in Nat
<1>1. /\ j.at \in Seq(Nat) /\ Len(j.at) \in Nat /\ j.size[2] \in Int
      /\ y <= j.size[2] /\ j.size[2] + 1 <= Len(j.at)
  BY CacheType DEF Past
<1> DEFINE n == Count(j, y, c)
<1>2. n \in Nat /\ n <= j.size[2] - y
  <2> DEFINE m == j.size[2] - y
  <2>1. c \in Int /\ m \in Int /\ c >= 0 /\ m >= 0
    BY <1>1
  <2>2. n = Lower(c, m)
    BY DEF Count
  <2> HIDE DEF m, n
  <2>3. Lower(c, m) \in Nat /\ Lower(c, m) <= m
    BY <2>1, LowerIs
  <2> QED
    BY <2>2, <2>3 DEF m
<1> HIDE DEF n
<1>3. y + 1 \in 1 .. Len(j.at) /\ y + n + 1 \in 1 .. Len(j.at)
  BY <1>1, <1>2, SMTT(30)
<1>4. j.at[y + 1] \in Nat /\ j.at[y + n + 1] \in Nat
  BY <1>1, <1>3, LenProperties
<1>5. Part(j, y, c) = LET d == j.at[y + n + 1] - j.at[y + 1] IN IF d < 0 THEN npos ELSE d
  BY DEF Part, u8_distance, n
<1>6. Part(j, y, c) \in Nat
  <2>1. npos \in Nat
    BY U8StringAssumption DEF npos
  <2> QED
    BY <1>4, <1>5, <2>1
<1> QED
  BY <1>2, <1>4, <1>6 DEF n

LEMMA Constants ==
  /\ MaxLen \in Nat /\ Counts \subseteq Nat /\ Positions \subseteq Nat
  /\ Texts \subseteq Seq(Bytes) /\ Nul \in Bytes
<1>1. Seq(Bytes \ {Nul}) \subseteq Seq(Bytes)
  BY SeqMonotonic
<1> QED
  BY <1>1, U8StringAssumption DEF Counts, Positions, Bytes

LEMMA PlacesType == \A i : Places(i) \subseteq Nat
BY DEF Places

LEMMA ReadType ==
  \A b, j, y, c : Read(b, j, y, c) \subseteq Bytes
BY Constants DEF Read

LEMMA U8AppendKept ==
  ASSUME TInv, NEW s \in Strings, Alive(s), NEW t \in Strings, Alive(t),
         NEW j, j = Cache(t), NEW y \in Nat, NEW c \in Nat, U8Append(s, t, j, y, c)
  PROVE  Kept
<1>1. CASE \E k \in 1 .. 3 : CachesOnly(t, k, t, k)
  BY <1>1, CachesOnlyKept
<1>2. CASE ~Past(j, y) /\ ~(j.at[y + 1] > Size(t)) /\ ChangeFrom(s, t, Appended(str[s], str[t], j, y, c))
  <2>1. j.at[y + 1] \in Nat /\ Part(j, y, c) \in Nat
    BY <1>2, PartType
  <2>2. str[s] \in Seq(Bytes) /\ str[t] \in Seq(Bytes) /\ j.at[y + 1] <= Len(str[t])
    BY <1>2, <2>1, AliveType DEF Size
  <2>3. tail_of(str[t], j.at[y + 1], Part(j, y, c)) \in Seq(Bytes)
    BY <2>1, <2>2, TailOfType
  <2>4. Appended(str[s], str[t], j, y, c) \in Seq(Bytes)
    BY <2>2, <2>3, ConcatProperties DEF Appended
  <2> QED
    BY <1>2, <2>4, ChangeFromKept
<1> QED
  BY <1>1, <1>2 DEF U8Append

LEMMA U8InsertKept ==
  ASSUME TInv, NEW s \in Strings, Alive(s), NEW t \in Strings, Alive(t),
         NEW i, i = Cache(s), NEW q \in Nat,
         NEW j, j = Cache(t), NEW y \in Nat, NEW c \in Nat, U8Insert(s, i, q, t, j, y, c)
  PROVE  Kept
<1>1. str[s] \in Seq(Bytes) /\ str[t] \in Seq(Bytes)
  BY AliveType
<1>2. CASE \E k, m \in 1 .. 3 : CachesOnly(s, k, t, m) \/ CachesOnly(t, k, t, m)
  BY <1>2, CachesOnlyKept
<1>3. CASE ChangeFrom(s, t, str[s])
  BY <1>1, <1>3, ChangeFromKept
<1>4. CASE /\ ~Past(j, y) /\ ~Past(i, q) /\ ~(i.at[q + 1] > Size(s))
           /\ \E x \in Read(str[t], j, y, c) :
                  ChangeFrom(s, t, Inserted(str[s], i, q, str[t], j, y, c, x))
  <2>1. j.at[y + 1] \in Nat /\ Part(j, y, c) \in Nat /\ i.at[q + 1] \in Nat
    BY <1>4, PartType
  <2>2. i.at[q + 1] <= Len(str[s])
    BY <1>1, <1>4, <2>1, AliveType DEF Size
  <2>3. PICK x \in Bytes : ChangeFrom(s, t, Inserted(str[s], i, q, str[t], j, y, c, x))
    BY <1>4, ReadType
  <2>4. substr(str[t], j.at[y + 1], Part(j, y, c), x) \in Seq(Bytes)
    BY <1>1, <2>1, SubstrType
  <2>5. Inserted(str[s], i, q, str[t], j, y, c, x) \in Seq(Bytes)
    BY <1>1, <2>1, <2>2, <2>4, InsertType DEF Inserted
  <2> QED
    BY <2>3, <2>5, ChangeFromKept
<1> QED
  BY <1>2, <1>3, <1>4 DEF U8Insert

LEMMA U8EraseKept ==
  ASSUME TInv, NEW s \in Strings, Alive(s), NEW i, i = Cache(s), NEW y \in Nat, NEW c \in Nat,
         U8Erase(s, i, y, c)
  PROVE  Kept
<1>1. CASE \E k \in 1 .. 3 : CachesOnly(s, k, s, k)
  BY <1>1, CachesOnlyKept
<1>2. CASE ~Past(i, y) /\ ~(i.at[y + 1] > Size(s)) /\ Change(s, Cut(str[s], i, y, c))
  <2>1. i.at[y + 1] \in Nat /\ Part(i, y, c) \in Nat
    BY <1>2, PartType
  <2>2. str[s] \in Seq(Bytes) /\ i.at[y + 1] <= Len(str[s])
    BY <1>2, <2>1, AliveType DEF Size
  <2>3. Cut(str[s], i, y, c) \in Seq(Bytes)
    BY <2>1, <2>2, ErasedType DEF Cut
  <2> QED
    BY <1>2, <2>3, ChangeKept
<1> QED
  BY <1>1, <1>2 DEF U8Erase

LEMMA U8ReplaceKept ==
  ASSUME TInv, NEW s \in Strings, Alive(s), NEW t \in Strings, Alive(t),
         NEW i, i = Cache(s), NEW q \in Nat, NEW d \in Nat,
         NEW j, j = Cache(t), NEW y \in Nat, NEW c \in Nat, U8Replace(s, i, q, d, t, j, y, c)
  PROVE  Kept
<1>1. str[s] \in Seq(Bytes) /\ str[t] \in Seq(Bytes)
  BY AliveType
<1>2. CASE \E k, m \in 1 .. 3 : CachesOnly(s, k, t, m) \/ CachesOnly(s, k, s, m)
  BY <1>2, CachesOnlyKept
<1>3. CASE /\ ~Past(j, y) /\ ~Past(i, q) /\ ~(i.at[q + 1] > Size(s))
           /\ ChangeFrom(s, t, Exchanged(str[s], i, q, d, str[t], j, y, c))
  <2> DEFINE e == Lower(Len(str[t]), j.at[y + 1] + Part(j, y, c))
  <2>1. j.at[y + 1] \in Nat /\ Part(j, y, c) \in Nat /\ i.at[q + 1] \in Nat /\ Part(i, q, d) \in Nat
    BY <1>3, PartType
  <2>2. i.at[q + 1] <= Len(str[s]) /\ Len(str[t]) \in Nat
    BY <1>1, <1>3, <2>1, AliveType DEF Size
  <2>3. e \in Int /\ e <= Len(str[t])
    <3>1. j.at[y + 1] + Part(j, y, c) \in Int /\ Len(str[t]) \in Int
      BY <2>1, <2>2, SMTT(30)
    <3> QED
      BY <3>1, LowerIs
  <2>4. SubSeq(str[t], j.at[y + 1] + 1, e) \in Seq(Bytes)
    <3>1. j.at[y + 1] + 1 \in Nat \ {0}
      BY <2>1
    <3> HIDE DEF e
    <3> QED
      BY <1>1, <2>3, <3>1, SubSeqBytes
  <2>5. Exchanged(str[s], i, q, d, str[t], j, y, c) \in Seq(Bytes)
    BY <1>1, <2>1, <2>2, <2>4, ReplacedType DEF Exchanged
  <2> QED
    BY <1>3, <2>5, ChangeFromKept
<1> QED
  BY <1>2, <1>3 DEF U8Replace

LEMMA U8SubstrKept ==
  ASSUME TInv, NEW r \in Strings, NEW s \in Strings, Alive(s),
         NEW i, i = Cache(s), NEW y \in Nat, NEW c \in Nat, U8Substr(r, s, i, y, c)
  PROVE  Kept
<1>1. str[s] \in Seq(Bytes) /\ ~Alive(r)
  BY AliveType DEF U8Substr
<1>2. CASE Past(i, y)
  <2>1. CachesOnly(s, 1, s, 1)
    BY <1>2 DEF U8Substr
  <2> QED
    BY <2>1, CachesOnlyKept
<1>3. CASE ~Past(i, y) /\ TooLong(str[s], i, y, c)
  <2>1. CachesOnly(s, 3, s, 3)
    BY <1>3 DEF U8Substr
  <2> QED
    BY <2>1, CachesOnlyKept
<1>4. CASE ~Past(i, y) /\ ~TooLong(str[s], i, y, c) /\ Part(i, y, c) = 0
  <2>1. PICK any \in BOOLEAN :
            changed' = [changed EXCEPT ![r] = any, ![s] = @ /\ ~WellFormed(str[s])]
    BY <1>4 DEF U8Substr
  <2>2. /\ str' = [str EXCEPT ![r] = <<>>]
        /\ index' = [index EXCEPT ![r] = <<>>, ![s] = Updated(s, 3)]
        /\ held' = held
    BY <1>4 DEF U8Substr, Cache
  <2>3. r # s /\ r \notin held /\ Updated(s, 3) \in Seq(Nat) /\ <<>> \in Seq(Bytes) /\ <<>> \in Seq(Nat)
    BY <1>1, UpdatedType DEF TInv
  <2>4. /\ index' \in [Strings -> Seq(Nat)] /\ index'[s] = Updated(s, 3)
        /\ \A u \in Strings \ {r, s} : index'[u] = index[u]
    BY <2>2, <2>3 DEF TInv
  <2>5. /\ changed' \in [Strings -> BOOLEAN] /\ changed'[s] = (changed[s] /\ ~WellFormed(str[s]))
        /\ \A u \in Strings \ {r, s} : changed'[u] = changed[u]
    BY <2>1, <2>3 DEF TInv
  <2>6. /\ str' \in [Strings -> Seq(Bytes) \cup {Gone}] /\ str'[r] = <<>>
        /\ \A u \in Strings \ {r} : str'[u] = str[u]
    BY <2>2, <2>3 DEF TInv
  <2>7. TInv'
    BY <2>2, <2>3, <2>4, <2>5, <2>6 DEF TInv, Alive
  <2>8. Lost(r) /\ \A u \in Strings \ {r, s} : Stays(u)
    BY <1>1, <2>4, <2>5, <2>6 DEF Lost, Stays
  <2>9. ASSUME Right(s) PROVE Fills(s) \/ Lost(s)
    <3>1. CASE WellFormed(str[s])
      <4>1. Updated(s, 3) = Walk(str[s])
        BY <2>9, <3>1, UpdatedRight
      <4> QED
        BY <2>3, <2>4, <2>5, <2>6, <3>1, <4>1 DEF Fills
    <3>2. CASE ~WellFormed(str[s])
      BY <2>3, <2>6, <3>2 DEF Lost
    <3> QED
      BY <3>1, <3>2
  <2> QED
    BY <2>7, <2>8, <2>9, KeptBy
<1>5. CASE ~Past(i, y) /\ ~TooLong(str[s], i, y, c) /\ Part(i, y, c) # 0
  <2>1. PICK x \in Bytes : ChangeFrom(r, s, substr(str[s], i.at[y + 1], Part(i, y, c), x))
    BY <1>5, ReadType DEF U8Substr
  <2>2. i.at[y + 1] \in Nat /\ Part(i, y, c) \in Nat
    BY <1>5, PartType
  <2>3. substr(str[s], i.at[y + 1], Part(i, y, c), x) \in Seq(Bytes)
    BY <1>1, <2>2, SubstrType
  <2> QED
    BY <2>1, <2>3, ChangeFromKept
<1> QED
  BY <1>2, <1>3, <1>4, <1>5

LEMMA U8StepKept ==
  ASSUME TInv, NEW s \in Strings, U8Step(s)
  PROVE  Kept
<1>1. PICK t \in Strings : Alive(t) /\ \E j \in {Cache(t)} : \E y \in Places(j), c \in Counts :
        /\ j.at # <<>>
        /\ \/ s = t /\ U8Erase(s, j, y, c)
           \/ U8Substr(s, t, j, y, c)
           \/ Alive(s) /\ U8Append(s, t, j, y, c)
           \/ /\ Alive(s)
              /\ c = MaxLen
              /\ \E i \in {Cache(s)} : \E q \in Places(i) :
                     /\ i.at # <<>>
                     /\ \/ U8Insert(s, i, q, t, j, y, c)
                        \/ U8Replace(s, i, q, 1, t, j, y, c)
  BY DEF U8Step
<1> DEFINE j == Cache(t)
<1>2. PICK y \in Nat, c \in Nat :
           \/ s = t /\ U8Erase(s, j, y, c)
           \/ U8Substr(s, t, j, y, c)
           \/ Alive(s) /\ U8Append(s, t, j, y, c)
           \/ Alive(s) /\ \E i \in {Cache(s)} : \E q \in Nat :
                  U8Insert(s, i, q, t, j, y, c) \/ U8Replace(s, i, q, 1, t, j, y, c)
  BY <1>1, PlacesType, Constants
<1>3. j = Cache(t) /\ Alive(t)
  BY <1>1
<1> HIDE DEF j
<1>4. CASE s = t /\ U8Erase(s, j, y, c)
  BY <1>3, <1>4, U8EraseKept
<1>5. CASE U8Substr(s, t, j, y, c)
  BY <1>3, <1>5, U8SubstrKept
<1>6. CASE Alive(s) /\ U8Append(s, t, j, y, c)
  BY <1>3, <1>6, U8AppendKept
<1>7. ASSUME Alive(s), NEW i, i = Cache(s), NEW q \in Nat,
             U8Insert(s, i, q, t, j, y, c) \/ U8Replace(s, i, q, 1, t, j, y, c)
      PROVE  Kept
  <2>1. CASE U8Insert(s, i, q, t, j, y, c)
    BY <1>3, <1>7, <2>1, U8InsertKept
  <2>2. CASE U8Replace(s, i, q, 1, t, j, y, c)
    BY <1>3, <1>7, <2>2, U8ReplaceKept
  <2> QED
    BY <1>7, <2>1, <2>2
<1> QED
  BY <1>2, <1>4, <1>5, <1>6, <1>7

LEMMA ResizedType ==
  ASSUME NEW b \in Seq(Bytes), NEW n \in Nat
  PROVE  [i \in 1 .. n |-> IF i <= Len(b) THEN b[i] ELSE Nul] \in Seq(Bytes)
<1>1. ASSUME NEW i \in 1 .. n, i <= Len(b) PROVE b[i] \in Bytes
  BY <1>1, LenProperties
<1>2. [i \in 1 .. n |-> IF i <= Len(b) THEN b[i] ELSE Nul] \in [1 .. n -> Bytes]
  BY <1>1, Constants
<1> QED
  BY <1>2, FunctionIsSeq

LEMMA FormatKept ==
  ASSUME TInv, NEW s \in Strings, NEW b \in Seq(Bytes), Format(s, MaxLen, b)
  PROVE  Kept
<1> DEFINE e == Lower(Len(b), MaxLen - 1)
           printed == SubSeq(b, 1, e)
<1>1. /\ Alive(s)
      /\ \/ Change(s, IF printed = <<>> THEN str[s] ELSE printed)
         \/ Change(s, str[s] \o printed)
  BY DEF Format
<1>2. str[s] \in Seq(Bytes)
  BY <1>1, AliveType
<1>3. e \in Int /\ e <= Len(b)
  <2>1. MaxLen - 1 \in Int /\ Len(b) \in Int
    BY Constants, LenProperties
  <2> QED
    BY <2>1, LowerIs
<1> HIDE DEF e
<1>4. printed \in Seq(Bytes)
  BY <1>3, SubSeqBytes
<1> HIDE DEF printed
<1>5. str[s] \o printed \in Seq(Bytes)
  BY <1>2, <1>4, ConcatProperties
<1> QED
  BY <1>1, <1>2, <1>4, <1>5, ChangeKept

LEMMA TextStepKept ==
  ASSUME TInv, NEW s \in Strings, NEW b \in Seq(Bytes),
         \/ Construct(s, b) \/ Assign(s, b) \/ AppendBytes(s, b)
         \/ \E t \in Strings : Alive(t) /\ Plus(s, t, b)
         \/ \E i \in Positions : InsertBytes(s, i, b)
         \/ \E i \in Positions, n \in Counts : ReplaceBytes(s, i, n, b)
  PROVE  Kept
<1>1. c_str(b) \in Seq(Bytes)
  BY CStrType
<1>2. CASE Construct(s, b) \/ Assign(s, b)
  BY <1>2, ChangeKept DEF Construct, Assign
<1>3. CASE AppendBytes(s, b)
  <2>1. Alive(s) /\ Change(s, str[s] \o c_str(b))
    BY <1>3 DEF AppendBytes
  <2>2. str[s] \o c_str(b) \in Seq(Bytes)
    BY <1>1, <2>1, AliveType, ConcatProperties
  <2> QED
    BY <2>1, <2>2, ChangeKept
<1>4. ASSUME NEW t \in Strings, Alive(t), Plus(s, t, b) PROVE Kept
  <2>1. Change(s, str[t] \o c_str(b))
    BY <1>4 DEF Plus, Construct
  <2>2. str[t] \o c_str(b) \in Seq(Bytes)
    BY <1>1, <1>4, AliveType, ConcatProperties
  <2> QED
    BY <2>1, <2>2, ChangeKept
<1>5. ASSUME NEW i \in Positions, InsertBytes(s, i, b) PROVE Kept
  <2>1. Alive(s) /\ Change(s, IF i > Size(s) THEN str[s] ELSE Insert(str[s], i, b))
    BY <1>5 DEF InsertBytes
  <2>2. str[s] \in Seq(Bytes) /\ Size(s) = Len(str[s]) /\ Size(s) \in Nat /\ i \in Nat
    BY <2>1, AliveType, Constants DEF Size
  <2>3. i <= Len(str[s]) => Insert(str[s], i, b) \in Seq(Bytes)
    BY <2>2, InsertType
  <2> QED
    BY <2>1, <2>2, <2>3, ChangeKept
<1>6. ASSUME NEW i \in Positions, NEW n \in Counts, ReplaceBytes(s, i, n, b) PROVE Kept
  <2>1. Alive(s) /\ i < Size(s) /\ Change(s, Replaced(str[s], i, n, c_str(b)))
    BY <1>6 DEF ReplaceBytes
  <2>2. str[s] \in Seq(Bytes) /\ i <= Len(str[s]) /\ i \in Nat /\ n \in Nat
    BY <2>1, AliveType, Constants DEF Size
  <2>3. Replaced(str[s], i, n, c_str(b)) \in Seq(Bytes)
    BY <1>1, <2>2, ReplacedType
  <2> QED
    BY <2>1, <2>3, ChangeKept
<1> QED
  BY <1>2, <1>3, <1>4, <1>5, <1>6

LEMMA StepKept ==
  ASSUME TInv, NEW s \in Strings, Step(s)
  PROVE  Kept
<1>1. ASSUME NEW b \in Texts,
             \/ Construct(s, b) \/ Assign(s, b) \/ AppendBytes(s, b)
             \/ Format(s, MaxLen, b)
             \/ \E t \in Strings : Alive(t) /\ Plus(s, t, b)
             \/ \E i \in Positions : InsertBytes(s, i, b)
             \/ \E i \in Positions, n \in Counts : ReplaceBytes(s, i, n, b)
      PROVE  Kept
  <2>1. b \in Seq(Bytes)
    BY Constants
  <2> QED
    BY <1>1, <2>1, TextStepKept, FormatKept
<1>2. CASE ConstructEmpty(s) \/ Destroy(s) \/ TakeRef(s) \/ U8At(s) \/ Clear(s) \/ AssignThrows(s)
  BY <1>2, ConstructEmptyKept, DestroyKept, TakeRefKept, U8AtKept, ClearKept
<1>3. CASE Look(s)
  BY <1>3, CachesOnlyKept DEF Look
<1>4. ASSUME NEW i \in Positions, NEW x \in Bytes, WriteThrough(s, i, x) PROVE Kept
  BY <1>4, WriteThroughKept
<1>5. ASSUME NEW n \in Positions, Resize(s, n) PROVE Kept
  <2>1. Alive(s) /\ Change(s, [i \in 1 .. n |-> IF i <= Len(str[s]) THEN str[s][i] ELSE Nul])
    BY <1>5 DEF Resize, Size
  <2>2. [i \in 1 .. n |-> IF i <= Len(str[s]) THEN str[s][i] ELSE Nul] \in Seq(Bytes)
    BY <2>1, AliveType, Constants, ResizedType
  <2> QED
    BY <2>1, <2>2, ChangeKept
<1>6. ASSUME NEW i \in Positions, NEW n \in Counts, EraseBytes(s, i, n) PROVE Kept
  <2>1. Alive(s) /\ i <= Size(s) /\ Change(s, Erased(str[s], i, n))
    BY <1>6 DEF EraseBytes
  <2>2. str[s] \in Seq(Bytes) /\ i <= Len(str[s]) /\ i \in Nat /\ n \in Nat
    BY <2>1, AliveType, Constants DEF Size
  <2> QED
    BY <2>1, <2>2, ErasedType, ChangeKept
<1>7. ASSUME NEW t \in Strings, Alive(t), Construct(s, str[t]) \/ Assign(s, str[t]) PROVE Kept
  BY <1>7, AliveType, ChangeKept DEF Construct, Assign
<1>8. ASSUME NEW t \in Strings, Move(s, t) \/ Swap(s, t) PROVE Kept
  BY <1>8, MoveKept, SwapKept
<1> QED
  BY <1>1, <1>2, <1>3, <1>4, <1>5, <1>6, <1>7, <1>8 DEF Step

LEMMA NextKept == TInv /\ [Next]_vars => Kept
<1> SUFFICES ASSUME TInv, [Next]_vars PROVE Kept
  OBVIOUS
<1>1. CASE UNCHANGED vars
  <2>1. TInv' /\ \A s \in Strings : Stays(s)
    BY <1>1 DEF vars, TInv, Alive, Stays
  <2> QED
    BY <2>1, KeptBy
<1>2. ASSUME NEW s \in Strings, Step(s) \/ U8Step(s) PROVE Kept
  BY <1>2, StepKept, U8StepKept
<1> QED
  BY <1>1, <1>2 DEF Next

LEMMA TInvFirst == Init => TInv
BY DEF Init, TInv, Alive

LEMMA TInvHolds == Spec => []TInv
<1>1. TInv /\ [Next]_vars => TInv'
  BY NextKept DEF Kept
<1> QED
  BY TInvFirst, <1>1, PTL DEF Spec

\* Whatever the program does with its strings, and whatever has become of the
\* caches by then, none of the operations makes a right cache wrong but those
\* IndexLostOnlyBy names.
THEOREM IndexLostOnlyByHolds == Spec => IndexLostOnlyBy
<1>1. TInv /\ [Next]_vars =>
        [\A s \in Strings :
            Right(s) /\ ~Right(s)' =>
                \/ ~Alive(s) /\ str'[s] = <<>>
                \/ Clear(s) \/ AssignThrows(s) \/ \E t \in Strings : Move(t, s)
                \/ \E i \in 1 .. MaxLen, x \in Bytes : WriteThrough(s, i, x)
                \/ Alive(s) /\ str'[s] = str[s] /\ ~WellFormed(str[s])]_vars
  BY NextKept DEF Kept, Lost
<1> QED
  BY TInvHolds, <1>1, PTL DEF Spec, IndexLostOnlyBy

-----------------------------------------------------------------------------
(* The characters of well-formed strings *)

\* A character goes from x to y.
Char(b, x, y) == ~Stop(b, x) /\ y = x + validate_u8char(b, x)

\* w marks where the characters of b start and the last one ends.
Marks(b, w) ==
    /\ w \in Seq(Nat) /\ Len(w) >= 1 /\ w[1] = 0 /\ w[Len(w)] = Len(b)
    /\ \A k \in 1 .. Len(w) : w[k] \in 0 .. Len(b)
    /\ \A k \in 1 .. Len(w) - 1 : Char(b, w[k], w[k + 1])

LEMMA MarksAreWalk ==
  ASSUME NEW b \in Seq(Bytes), NEW w
  PROVE  Marks(b, w) <=> WellFormed(b) /\ w = Walk(b)
<1>1. ASSUME Marks(b, w) PROVE WellFormed(b) /\ w = Walk(b)
  <2>1. Path(b, 0, w)
    BY <1>1 DEF Marks, Path, Char, Stop
  <2>2. w = Walk(b)
    BY <2>1, WalkIsPath, PathUnique
  <2> QED
    BY <1>1, <2>2 DEF Marks, WellFormed, Last
<1>2. ASSUME WellFormed(b), w = Walk(b) PROVE Marks(b, w)
  <2>1. Path(b, 0, w)
    BY <1>2, WalkIsPath
  <2>2. w[Len(w)] = Len(b)
    BY <1>2 DEF WellFormed, Last
  <2> QED
    BY <2>1, <2>2 DEF Marks, Path, Char
<1> QED
  BY <1>1, <1>2

LEMMA CharGrows ==
  ASSUME NEW b \in Seq(Bytes), NEW x \in 0 .. Len(b), NEW y, Char(b, x, y)
  PROVE  y \in Nat /\ x < y /\ y <= Len(b)
<1>1. x \in 0 .. Len(b) - 1 /\ validate_u8char(b, x) # 0 /\ y = x + validate_u8char(b, x)
  BY DEF Char, Stop
<1>2. validate_u8char(b, x) \in Nat /\ x + validate_u8char(b, x) <= Len(b)
  BY <1>1, CharWithin
<1> QED
  BY <1>1, <1>2

LEMMA MarksGrow ==
  ASSUME NEW b \in Seq(Bytes), NEW w, Marks(b, w), NEW i \in 1 .. Len(w), NEW j \in 1 .. Len(w), i <= j
  PROVE  w[i] <= w[j]
<1> DEFINE T == {k \in 0 .. j - i : w[i] <= w[i + k]}
<1>1. Len(w) \in Nat /\ \A k \in 1 .. Len(w) : w[k] \in 0 .. Len(b) /\ w[k] \in Nat
  BY DEF Marks
<1>2. j - i \in Nat /\ i + 0 = i /\ i + (j - i) = j
  OBVIOUS
<1>3. 0 \in T
  BY <1>1, <1>2
<1>4. ASSUME NEW k \in 1 .. j - i, k - 1 \in T PROVE k \in T
  <2> DEFINE h == i + (k - 1)
  <2>1. h \in 1 .. Len(w) - 1 /\ h \in 1 .. Len(w) /\ i + k = h + 1 /\ k \in 0 .. j - i /\ h + 1 \in 1 .. Len(w)
    BY <1>1
  <2>2. w[i] <= w[h]
    BY <1>4
  <2> HIDE DEF h
  <2>3. Char(b, w[h], w[h + 1])
    BY <2>1 DEF Marks
  <2>4. w[h] < w[h + 1]
    BY <1>1, <2>1, <2>3, CharGrows
  <2>5. w[i] \in Nat /\ w[h] \in Nat /\ w[h + 1] \in Nat
    BY <1>1, <2>1
  <2>6. w[i] <= w[h + 1]
    BY <2>2, <2>4, <2>5
  <2> QED
    BY <2>1, <2>6
<1> HIDE DEF T
<1>5. j - i \in T
  BY <1>2, <1>3, <1>4, UpTo
<1> QED
  BY <1>2, <1>5 DEF T

\* Each byte is in a character, and none of these has a Nul.
LEMMA MarksNoNul ==
  ASSUME NEW b \in Seq(Bytes), NEW w, Marks(b, w), NEW i \in 1 .. Len(b)
  PROVE  b[i] # Nul
<1> DEFINE T == {k \in 1 .. Len(w) : w[k] >= i}
<1>1. /\ Len(w) \in Nat /\ Len(w) \in 1 .. Len(w) /\ w[Len(w)] = Len(b) /\ w[1] = 0
      /\ \A k \in 1 .. Len(w) : w[k] \in 0 .. Len(b) /\ w[k] \in Nat
  BY DEF Marks
<1>2. PICK k \in T : \A h \in T : k <= h
  <2>1. T \subseteq Nat /\ Len(w) \in T
    BY <1>1
  <2> HIDE DEF T
  <2> QED
    BY <2>1, LeastNumber
<1> DEFINE h == k - 1
<1>3. h \in 1 .. Len(w) - 1 /\ h \in 1 .. Len(w) /\ h + 1 = k /\ w[h] < i /\ i <= w[h + 1]
  <2>1. k # 1
    BY <1>1, <1>2
  <2>2. h \in 1 .. Len(w) - 1 /\ h \in 1 .. Len(w) /\ h + 1 = k /\ h \notin T
    BY <1>2, <2>1
  <2> QED
    BY <1>1, <1>2, <2>2
<1> HIDE DEF h
<1> DEFINE x == w[h]
<1>4. x \in Nat /\ x < i /\ i <= x + validate_u8char(b, x) /\ ~Stop(b, x) /\ x \in 0 .. Len(b) - 1
  <2>1. Char(b, w[h], w[h + 1])
    BY <1>3 DEF Marks
  <2> QED
    BY <1>1, <1>3, <2>1 DEF Char, Stop
<1> HIDE DEF x
<1>5. validate_u8char(b, x) \in Nat /\ \A d \in 2 .. validate_u8char(b, x) : b[x + d] = Cont
  BY <1>4, CharWithin
<1>6. CASE i = x + 1
  BY <1>4, <1>6 DEF Stop
<1>7. CASE i # x + 1
  <2>1. i - x \in 2 .. validate_u8char(b, x) /\ x + (i - x) = i
    BY <1>4, <1>5, <1>7
  <2>2. b[i] = Cont
    BY <1>5, <2>1
  <2> QED
    BY <2>2 DEF Cont, Nul
<1> QED
  BY <1>6, <1>7

LEMMA CStrSame ==
  ASSUME NEW b \in Seq(Bytes), NEW w, Marks(b, w)
  PROVE  c_str(b) = b
<1>1. {i \in DOMAIN b : b[i] = Nul} = {}
  BY MarksNoNul, LenProperties
<1> QED
  BY <1>1 DEF c_str

\* s are the bytes of b from o on.
Window(s, b, o) ==
    /\ s \in Seq(Bytes) /\ b \in Seq(Bytes) /\ o \in Nat /\ o + Len(s) <= Len(b)
    /\ \A i \in 1 .. Len(s) : s[i] = b[o + i]

\* n bytes from y on are a character.
IsChar(b, y, n) ==
    \/ n = 1 /\ b[y + 1] \in {Nul, Ascii}
    \/ /\ n = b[y + 1] /\ n \notin {Nul, Ascii, Cont}
       /\ \A i \in 2 .. n : y + i <= Len(b) /\ b[y + i] = Cont

LEMMA CharIs ==
  ASSUME NEW b \in Seq(Bytes), NEW y \in 0 .. Len(b) - 1, NEW n \in Nat \ {0}
  PROVE  validate_u8char(b, y) = n <=> IsChar(b, y, n)
<1>1. Len(b) \in Nat /\ DOMAIN b = 1 .. Len(b) /\ y + 1 \in 1 .. Len(b) /\ b[y + 1] \in Bytes
  BY LenProperties
<1>2. b[y + 1] \in Nat
  BY <1>1, Chars2
<1>3. CASE b[y + 1] \in {Nul, Ascii}
  BY <1>3 DEF validate_u8char, Nul, Ascii, Cont, IsChar
<1>4. CASE b[y + 1] = Cont
  BY <1>4 DEF validate_u8char, Nul, Ascii, Cont, IsChar
<1>5. CASE b[y + 1] \notin {Nul, Ascii, Cont}
  <2> DEFINE m == b[y + 1]
             whole == \A i \in 1 .. m - 1 : y + 1 + i \in DOMAIN b /\ b[y + 1 + i] = Cont
             all == \A i \in 2 .. m : y + i <= Len(b) /\ b[y + i] = Cont
  <2>1. validate_u8char(b, y) = IF whole THEN m ELSE 0
    BY <1>5 DEF validate_u8char
  <2>2. m >= 2 /\ m \in Nat
    BY <1>1, <1>2, <1>5, Chars2
  <2> HIDE DEF m
  <2>3. ASSUME whole PROVE all
    <3>1. ASSUME NEW i \in 2 .. m PROVE y + i <= Len(b) /\ b[y + i] = Cont
      <4>1. i - 1 \in 1 .. m - 1 /\ y + 1 + (i - 1) = y + i
        BY <2>2
      <4>2. y + i \in DOMAIN b /\ b[y + i] = Cont
        BY <2>3, <4>1
      <4> QED
        BY <1>1, <4>2
    <3> QED
      BY <3>1
  <2>4. ASSUME all PROVE whole
    <3>1. ASSUME NEW i \in 1 .. m - 1 PROVE y + 1 + i \in DOMAIN b /\ b[y + 1 + i] = Cont
      <4>1. i + 1 \in 2 .. m /\ y + (i + 1) = y + 1 + i /\ y + 1 + i \in Nat /\ y + 1 + i >= 1
        BY <2>2
      <4>2. y + 1 + i <= Len(b) /\ b[y + 1 + i] = Cont
        BY <2>4, <4>1
      <4> QED
        BY <1>1, <4>1, <4>2
    <3> QED
      BY <3>1
  <2>5. n = m => (all <=> \A i \in 2 .. n : y + i <= Len(b) /\ b[y + i] = Cont)
    OBVIOUS
  <2>6. whole <=> all
    BY <2>3, <2>4
  <2> HIDE DEF whole, all
  <2>7. validate_u8char(b, y) = n <=> n = m /\ all
    BY <2>1, <2>2, <2>6
  <2> QED
    BY <1>5, <2>5, <2>7 DEF m, IsChar
<1> QED
  BY <1>3, <1>4, <1>5

LEMMA CharMoved ==
  ASSUME NEW s, NEW b, NEW o, Window(s, b, o),
         NEW x \in Nat, NEW y \in Nat, x < y, y <= Len(s)
  PROVE  Char(s, x, y) <=> Char(b, o + x, o + y)
<1> DEFINE n == y - x
           z == o + x
<1>1. /\ s \in Seq(Bytes) /\ b \in Seq(Bytes) /\ o \in Nat /\ o + Len(s) <= Len(b)
      /\ \A i \in 1 .. Len(s) : s[i] = b[o + i]
      /\ Len(s) \in Nat /\ Len(b) \in Nat
  BY LenProperties DEF Window
<1>2. n \in Nat \ {0} /\ x + n = y /\ o + y = z + n /\ z \in 0 .. Len(b) - 1 /\ x \in 0 .. Len(s) - 1
  <2>1. o \in Nat /\ o + Len(s) <= Len(b) /\ Len(s) \in Nat /\ Len(b) \in Nat
    BY <1>1
  <2> DEFINE l == Len(s)
             m == Len(b)
  <2>2. o \in Nat /\ o + l <= m /\ l \in Nat /\ m \in Nat /\ y <= l
    BY <2>1
  <2> HIDE DEF l, m
  <2>3. n \in Nat \ {0} /\ x + n = y /\ o + y = z + n /\ z \in 0 .. m - 1 /\ x \in 0 .. l - 1
    BY <2>2
  <2> QED
    BY <2>3 DEF l, m
<1>3. \A i \in 1 .. n : x + i <= Len(s) /\ z + i <= Len(b) /\ s[x + i] = b[z + i]
  <2>1. ASSUME NEW i \in 1 .. n PROVE x + i <= Len(s) /\ z + i <= Len(b) /\ s[x + i] = b[z + i]
    <3>1. x + i \in 1 .. Len(s) /\ o + (x + i) = z + i
      BY <1>1
    <3>2. s[x + i] = b[z + i]
      BY <1>1, <3>1
    <3> QED
      BY <1>1, <3>1, <3>2
  <2> QED
    BY <2>1
<1>4. Char(s, x, y) <=> s[x + 1] # Nul /\ validate_u8char(s, x) = n
  <2>1. validate_u8char(s, x) \in Nat
    BY <1>1, <1>2, CharWithin
  <2> HIDE DEF n
  <2> QED
    BY <1>2, <2>1 DEF Char, Stop
<1>5. Char(b, z, o + y) <=> b[z + 1] # Nul /\ validate_u8char(b, z) = n
  <2>1. validate_u8char(b, z) \in Nat
    BY <1>1, <1>2, CharWithin
  <2> HIDE DEF n, z
  <2> QED
    BY <1>2, <2>1 DEF Char, Stop
<1>6. s[x + 1] = b[z + 1]
  <2>1. 1 \in 1 .. n
    BY <1>2
  <2> QED
    BY <1>3, <2>1
<1>7. (\A i \in 2 .. n : x + i <= Len(s) /\ s[x + i] = Cont)
      <=> (\A i \in 2 .. n : z + i <= Len(b) /\ b[z + i] = Cont)
  <2>1. \A i \in 2 .. n : i \in 1 .. n
    BY <1>2
  <2> HIDE DEF n, z
  <2> QED
    BY <1>3, <2>1
<1>8. validate_u8char(s, x) = n <=> validate_u8char(b, z) = n
  <2>1. s \in Seq(Bytes) /\ b \in Seq(Bytes)
    BY <1>1
  <2> HIDE DEF n, z
  <2>2. validate_u8char(s, x) = n <=> IsChar(s, x, n)
    BY <1>2, <2>1, CharIs
  <2>3. validate_u8char(b, z) = n <=> IsChar(b, z, n)
    BY <1>2, <2>1, CharIs
  <2>4. IsChar(s, x, n) <=> IsChar(b, z, n)
    BY <1>6, <1>7 DEF IsChar
  <2> QED
    BY <2>2, <2>3, <2>4
<1> QED
  BY <1>4, <1>5, <1>6, <1>8

\* The bytes after the m-th, up to the n-th.
From(b, m, n) == SubSeq(b, m + 1, n)

LEMMA WindowFrom ==
  ASSUME NEW s, NEW b, NEW o, Window(s, b, o),
         NEW x \in Nat, NEW y \in Nat, x <= y, y <= Len(s)
  PROVE  From(s, x, y) = From(b, o + x, o + y)
<1>1. /\ s \in Seq(Bytes) /\ b \in Seq(Bytes) /\ o \in Nat /\ o + Len(s) <= Len(b)
      /\ \A i \in 1 .. Len(s) : s[i] = b[o + i]
      /\ Len(s) \in Nat /\ Len(b) \in Nat
  BY LenProperties DEF Window
<1> DEFINE c == SubSeq(s, x + 1, y)
           d == SubSeq(b, o + x + 1, o + y)
<1>2. /\ c \in Seq(Bytes) /\ Len(c) = y - x
      /\ \A i \in 1 .. y - x : c[i] = s[x + i]
  BY <1>1
<1>3. /\ d \in Seq(Bytes) /\ Len(d) = y - x
      /\ \A i \in 1 .. y - x : d[i] = b[o + x + i]
  BY <1>1
<1> HIDE DEF c, d
<1>4. ASSUME NEW i \in 1 .. y - x PROVE c[i] = d[i]
  <2>1. x + i \in 1 .. Len(s) /\ o + (x + i) = o + x + i
    BY <1>1
  <2> QED
    BY <1>1, <1>2, <1>3, <2>1
<1>5. c = d
  BY <1>2, <1>3, <1>4, SeqEqual
<1> QED
  BY <1>5 DEF c, d, From

-----------------------------------------------------------------------------
(* Parts of sequences *)

LEMMA Slice ==
  ASSUME NEW S, NEW s \in Seq(S), NEW m \in Nat, NEW n \in Nat, m <= n, n <= Len(s)
  PROVE  /\ SubSeq(s, m + 1, n) \in Seq(S) /\ Len(SubSeq(s, m + 1, n)) = n - m
         /\ \A i \in 1 .. n - m : SubSeq(s, m + 1, n)[i] = s[m + i]
<1> DEFINE l == Len(s)
<1>1. l \in Nat /\ \A i \in 1 .. l : s[i] \in S
  BY LenProperties
<1>2. n <= l
  OBVIOUS
<1> HIDE DEF l
<1>3. \A i \in m + 1 .. n : s[i] \in S
  BY <1>1, <1>2
<1>4. /\ SubSeq(s, m + 1, n) \in Seq(S)
      /\ Len(SubSeq(s, m + 1, n)) = IF m + 1 <= n THEN n - (m + 1) + 1 ELSE 0
      /\ \A i \in 1 .. n - (m + 1) + 1 : SubSeq(s, m + 1, n)[i] = s[m + 1 + i - 1]
  BY <1>3, SubSeqProperties
<1>5. (IF m + 1 <= n THEN n - (m + 1) + 1 ELSE 0) = n - m /\ n - (m + 1) + 1 = n - m
  OBVIOUS
<1>6. \A i \in 1 .. n - m : m + 1 + i - 1 = m + i
  OBVIOUS
<1> QED
  BY <1>4, <1>5, <1>6

\* A part of a part.
LEMMA FromOfFrom ==
  ASSUME NEW S, NEW s \in Seq(S), NEW m \in Nat, NEW n \in Nat, m <= n, n <= Len(s),
         NEW k \in 0 .. n - m
  PROVE  From(From(s, m, n), 0, k) = From(s, m, m + k)
<1> DEFINE t == SubSeq(s, m + 1, n)
           u == SubSeq(t, 0 + 1, k)
           v == SubSeq(s, m + 1, m + k)
<1>1. Len(s) \in Nat /\ k \in Nat /\ m + k \in Nat /\ m <= m + k /\ m + k <= n /\ k <= n - m /\ m + k - m = k
  BY LenProperties
<1>2. t \in Seq(S) /\ Len(t) = n - m /\ \A i \in 1 .. n - m : t[i] = s[m + i]
  BY Slice
<1>3. m + k <= Len(s)
  BY <1>1
<1>4. v \in Seq(S) /\ Len(v) = m + k - m /\ \A i \in 1 .. m + k - m : v[i] = s[m + i]
  BY <1>1, <1>3, Slice
<1> HIDE DEF t, v
<1>5. u \in Seq(S) /\ Len(u) = k - 0 /\ \A i \in 1 .. k - 0 : u[i] = t[0 + i]
  BY <1>1, <1>2, Slice
<1> HIDE DEF u
<1>6. Len(u) = k /\ Len(v) = k /\ \A i \in 1 .. k : u[i] = t[i] /\ v[i] = s[m + i] /\ i \in 1 .. n - m
  BY <1>1, <1>4, <1>5
<1>7. u = v
  BY <1>2, <1>4, <1>5, <1>6, SeqEqual
<1> QED
  BY <1>7 DEF t, u, v, From

\* What stands before and after a place, and between them what is inserted.
LEMMA InsertBetween ==
  ASSUME NEW S, NEW a \in Seq(S), NEW c \in Seq(S), NEW s
  PROVE  Insert(a \o c, Len(a), s) = a \o s \o c
<1> DEFINE b == a \o c
           n == Len(a)
           l == Len(b)
           u == SubSeq(b, 0 + 1, n)
           v == SubSeq(b, n + 1, l)
<1>1. n \in Nat /\ Len(c) \in Nat /\ b \in Seq(S) /\ l = n + Len(c)
  BY LenProperties, ConcatProperties
<1>2. \A i \in 1 .. n + Len(c) : b[i] = IF i <= n THEN a[i] ELSE c[i - n]
  BY ConcatProperties
<1>3. l \in Nat /\ n <= l /\ l - n = Len(c) /\ l <= Len(b)
  BY <1>1
<1> HIDE DEF b, l
<1>4. u \in Seq(S) /\ Len(u) = n - 0 /\ \A i \in 1 .. n - 0 : u[i] = b[0 + i]
  <2>1. n <= Len(b) /\ 0 \in Nat /\ 0 <= n
    BY <1>1, <1>3 DEF l
  <2> HIDE DEF n
  <2> QED
    BY <1>1, <2>1, Slice
<1>5. v \in Seq(S) /\ Len(v) = l - n /\ \A i \in 1 .. l - n : v[i] = b[n + i]
  <2>1. n \in Nat /\ l \in Nat /\ n <= l /\ l <= Len(b)
    BY <1>1, <1>3 DEF l
  <2> HIDE DEF n
  <2> QED
    BY <1>1, <2>1, Slice
<1> HIDE DEF u, v
<1>6. u = a
  <2>1. Len(u) = Len(a) /\ \A i \in 1 .. Len(u) : u[i] = a[i]
    <3>1. ASSUME NEW i \in 1 .. n PROVE u[i] = a[i]
      <4>1. i \in 1 .. n - 0 /\ 0 + i = i /\ i \in 1 .. n + Len(c) /\ i <= n
        BY <1>1
      <4> QED
        BY <1>2, <1>4, <4>1
    <3> QED
      BY <1>1, <1>4, <3>1
  <2> QED
    BY <1>4, <2>1, SeqEqual
<1>7. v = c
  <2>1. ASSUME NEW i \in 1 .. Len(c) PROVE v[i] = c[i]
    <3>1. i \in 1 .. l - n /\ n + i \in 1 .. n + Len(c) /\ ~(n + i <= n) /\ n + i - n = i
      BY <1>1, <1>3
    <3> QED
      BY <1>2, <1>5, <3>1
  <2> QED
    BY <1>3, <1>5, <2>1, SeqEqual
<1>8. Insert(b, n, s) = u \o s \o v
  BY DEF Insert, u, v, l
<1> QED
  BY <1>6, <1>7, <1>8 DEF b

LEMMA SliceWindow ==
  ASSUME NEW b \in Seq(Bytes), NEW m \in Nat, NEW n \in Nat, m <= n, n <= Len(b)
  PROVE  Window(SubSeq(b, m + 1, n), b, m) /\ Len(SubSeq(b, m + 1, n)) = n - m
<1> DEFINE s == SubSeq(b, m + 1, n)
<1>1. s \in Seq(Bytes) /\ Len(s) = n - m /\ \A i \in 1 .. n - m : s[i] = b[m + i]
  BY Slice
<1> HIDE DEF s
<1>2. m + Len(s) <= Len(b)
  BY <1>1, LenProperties
<1>3. Window(s, b, m)
  BY <1>1, <1>2 DEF Window
<1> QED
  BY <1>1, <1>3 DEF s

LEMMA ConcatWindows ==
  ASSUME NEW a \in Seq(Bytes), NEW b \in Seq(Bytes)
  PROVE  /\ Window(a, a \o b, 0) /\ Window(b, a \o b, Len(a))
         /\ Len(a \o b) = Len(a) + Len(b) /\ a \o b \in Seq(Bytes)
<1> DEFINE c == a \o b
<1>1. /\ c \in Seq(Bytes) /\ Len(c) = Len(a) + Len(b)
      /\ \A i \in 1 .. Len(a) + Len(b) : c[i] = IF i <= Len(a) THEN a[i] ELSE b[i - Len(a)]
  BY ConcatProperties
<1>2. Len(a) \in Nat /\ Len(b) \in Nat
  BY LenProperties
<1> HIDE DEF c
<1>3. \A i \in 1 .. Len(a) : i \in 1 .. Len(a) + Len(b) /\ i <= Len(a) /\ 0 + i = i
  BY <1>2
<1>4. \A i \in 1 .. Len(b) : Len(a) + i \in 1 .. Len(a) + Len(b) /\ ~(Len(a) + i <= Len(a)) /\ Len(a) + i - Len(a) = i
  BY <1>2
<1>5. Window(a, c, 0)
  BY <1>1, <1>2, <1>3 DEF Window
<1>6. Window(b, c, Len(a))
  BY <1>1, <1>2, <1>4 DEF Window
<1> QED
  BY <1>1, <1>5, <1>6 DEF c

-----------------------------------------------------------------------------
(* Parts of well-formed strings that start and end at marks *)

LEMMA CharsAre ==
  ASSUME NEW b \in Seq(Bytes), NEW w, Marks(b, w)
  PROVE  /\ WellFormed(b) /\ Walk(b) = w
         /\ Chars(b) \in Seq(Seq(Bytes)) /\ Len(Chars(b)) = Len(w) - 1
         /\ \A k \in 1 .. Len(w) - 1 : Chars(b)[k] = SubSeq(b, w[k] + 1, w[k + 1])
<1> DEFINE n == Len(w) - 1
           f == [k \in 1 .. n |-> SubSeq(b, w[k] + 1, w[k + 1])]
<1>1. WellFormed(b) /\ w = Walk(b)
  BY MarksAreWalk
<1>2. n \in Nat /\ Len(w) \in Nat
  BY DEF Marks
<1>3. ASSUME NEW k \in 1 .. n PROVE SubSeq(b, w[k] + 1, w[k + 1]) \in Seq(Bytes)
  <2>1. k \in 1 .. Len(w) /\ k + 1 \in 1 .. Len(w) /\ k <= k + 1
    BY <1>2
  <2>2. w[k] \in Nat /\ w[k + 1] \in Nat /\ w[k + 1] <= Len(b)
    BY <2>1, LenProperties DEF Marks
  <2>3. w[k] <= w[k + 1]
    BY <2>1, MarksGrow
  <2> QED
    BY <2>2, <2>3, Slice
<1>4. f \in [1 .. n -> Seq(Bytes)]
  BY <1>3
<1>5. f \in Seq(Seq(Bytes)) /\ Len(f) = n
  <2> HIDE DEF f
  <2> QED
    BY <1>2, <1>4, FunctionIsSeq
<1>6. Chars(b) = f
  BY <1>1 DEF Chars
<1> QED
  BY <1>1, <1>5, <1>6

LEMMA SliceMarks ==
  ASSUME NEW b \in Seq(Bytes), NEW w, Marks(b, w),
         NEW i \in 1 .. Len(w), NEW j \in 1 .. Len(w), i <= j
  PROVE  \E v : /\ Window(SubSeq(b, w[i] + 1, w[j]), b, w[i])
                /\ Len(SubSeq(b, w[i] + 1, w[j])) = w[j] - w[i]
                /\ Marks(SubSeq(b, w[i] + 1, w[j]), v) /\ Len(v) = j - i + 1
                /\ \A k \in 1 .. j - i + 1 : v[k] = w[i + k - 1] - w[i]
<1> DEFINE n == j - i + 1
           o == w[i]
           s == SubSeq(b, w[i] + 1, w[j])
           v == [k \in 1 .. n |-> w[i + k - 1] - w[i]]
<1>1. n \in Nat /\ n >= 1 /\ i \in Nat /\ j \in Nat /\ Len(w) \in Nat
  BY DEF Marks
<1>2. o \in Nat /\ w[j] \in Nat /\ w[j] <= Len(b) /\ o <= w[j]
  <2>1. Len(b) \in Nat /\ w[i] \in 0 .. Len(b) /\ w[j] \in 0 .. Len(b)
    BY LenProperties DEF Marks
  <2>2. w[i] <= w[j]
    BY MarksGrow
  <2> QED
    BY <2>1, <2>2
<1>3. Window(s, b, o) /\ Len(s) = w[j] - o
  BY <1>2, SliceWindow
<1> HIDE DEF s
<1>4. ASSUME NEW k \in 1 .. n
      PROVE  /\ i + k - 1 \in 1 .. Len(w) /\ w[i + k - 1] \in Nat
             /\ v[k] = w[i + k - 1] - o /\ v[k] \in 0 .. Len(s) /\ o + v[k] = w[i + k - 1]
  <2> DEFINE h == i + k - 1
  <2>1. h \in 1 .. Len(w) /\ i <= h /\ h <= j
    BY <1>1
  <2>2. v[k] = w[h] - o
    OBVIOUS
  <2> HIDE DEF h
  <2>3. w[h] \in Nat
    BY <2>1, LenProperties DEF Marks
  <2>4. o <= w[h] /\ w[h] <= w[j]
    BY <2>1, MarksGrow
  <2> DEFINE l == Len(s)
             x == v[k]
  <2>5. l = w[j] - o /\ x = w[h] - o
    BY <1>3, <2>2
  <2> HIDE DEF o, l, x
  <2>6. x \in 0 .. l /\ o + x = w[h]
    BY <1>2, <2>3, <2>4, <2>5, SMTT(30)
  <2> QED
    BY <2>1, <2>2, <2>3, <2>6 DEF h, l, x
<1> HIDE DEF v
<1>5. v \in Seq(Nat) /\ Len(v) = n
  <2>1. ASSUME NEW k \in 1 .. n PROVE v[k] \in Nat
    <3>1. v[k] \in 0 .. Len(s) /\ Len(s) \in Nat
      BY <1>3, <1>4, LenProperties DEF Window
    <3> QED
      BY <3>1
  <2>2. v = [k \in 1 .. n |-> v[k]]
    BY DEF v
  <2> HIDE DEF n
  <2>3. v \in [1 .. n -> Nat]
    BY <2>1, <2>2
  <2> QED
    BY <1>1, <2>3, FunctionIsSeq
<1>6. v[1] = 0 /\ v[n] = Len(s)
  <2>1. 1 \in 1 .. n /\ n \in 1 .. n /\ i + 1 - 1 = i /\ i + n - 1 = j
    BY <1>1
  <2>2. v[1] = w[i] - o /\ v[n] = w[j] - o
    BY <1>4, <2>1
  <2> QED
    BY <1>2, <1>3, <2>2
<1>7. ASSUME NEW k \in 1 .. n - 1 PROVE Char(s, v[k], v[k + 1])
  <2> DEFINE h == i + k - 1
             x == v[k]
             y == v[k + 1]
  <2>1. k \in 1 .. n /\ k + 1 \in 1 .. n /\ i + (k + 1) - 1 = h + 1 /\ h \in 1 .. Len(w) - 1 /\ h \in 1 .. Len(w)
    BY <1>1
  <2>2. o + x = w[h] /\ o + y = w[h + 1] /\ x \in 0 .. Len(s) /\ y \in 0 .. Len(s)
    BY <1>4, <2>1
  <2> HIDE DEF h, x, y
  <2>3. Char(b, w[h], w[h + 1])
    BY <2>1 DEF Marks
  <2>4. w[h] \in 0 .. Len(b)
    BY <2>1 DEF Marks
  <2>5. w[h] < w[h + 1]
    BY <2>3, <2>4, CharGrows
  <2>6. x \in Nat /\ y \in Nat /\ y <= Len(s)
    <3>1. Len(s) \in Nat
      BY <1>3, LenProperties DEF Window
    <3> QED
      BY <2>2, <3>1
  <2>7. x < y
    BY <1>2, <2>2, <2>5, <2>6
  <2>8. Char(s, x, y) <=> Char(b, o + x, o + y)
    <3> HIDE DEF o
    <3> QED
      BY <1>3, <2>6, <2>7, CharMoved
  <2>9. Char(b, o + x, o + y)
    BY <2>2, <2>3
  <2> QED
    BY <2>8, <2>9 DEF x, y
<1>8. Len(v) >= 1 /\ v[Len(v)] = Len(s) /\ \A k \in 1 .. Len(v) : v[k] \in 0 .. Len(s)
  BY <1>1, <1>4, <1>5, <1>6
<1>9. Marks(s, v)
  BY <1>5, <1>6, <1>7, <1>8 DEF Marks
<1>10. \A k \in 1 .. n : v[k] = w[i + k - 1] - w[i]
  BY <1>4
<1>11. /\ Window(s, b, w[i]) /\ Len(s) = w[j] - w[i] /\ Marks(s, v) /\ Len(v) = n
       /\ \A k \in 1 .. n : v[k] = w[i + k - 1] - w[i]
  BY <1>3, <1>5, <1>9, <1>10
<1> QED
  BY <1>11 DEF s

LEMMA SliceChars ==
  ASSUME NEW b \in Seq(Bytes), NEW w, Marks(b, w),
         NEW i \in 1 .. Len(w), NEW j \in 1 .. Len(w), i <= j
  PROVE  /\ From(b, w[i], w[j]) \in Seq(Bytes)
         /\ Len(From(b, w[i], w[j])) = w[j] - w[i]
         /\ WellFormed(From(b, w[i], w[j]))
         /\ Chars(From(b, w[i], w[j])) = From(Chars(b), i - 1, j - 1)
<1> DEFINE n == j - i
           s == SubSeq(b, w[i] + 1, w[j])
           o == w[i]
           m == i - 1
           c == Chars(s)
           d == SubSeq(Chars(b), m + 1, j - 1)
<1>1. n \in Nat /\ i \in Nat /\ j \in Nat /\ m \in Nat /\ Len(w) \in Nat /\ j - 1 \in Nat
      /\ m <= j - 1 /\ j - 1 <= Len(w) - 1 /\ j - 1 - m = n /\ m + 1 = i
  BY DEF Marks
<1>2. PICK v : /\ Window(s, b, w[i]) /\ Len(s) = w[j] - w[i] /\ Marks(s, v) /\ Len(v) = j - i + 1
               /\ \A k \in 1 .. j - i + 1 : v[k] = w[i + k - 1] - w[i]
  <2>1. \E v : /\ Window(SubSeq(b, w[i] + 1, w[j]), b, w[i])
               /\ Len(SubSeq(b, w[i] + 1, w[j])) = w[j] - w[i]
               /\ Marks(SubSeq(b, w[i] + 1, w[j]), v) /\ Len(v) = j - i + 1
               /\ \A k \in 1 .. j - i + 1 : v[k] = w[i + k - 1] - w[i]
    BY SliceMarks, Zenon
  <2> QED
    BY <2>1, Zenon
<1> HIDE DEF s
<1>3. Window(s, b, o)
  BY <1>2
<1>4. Len(v) = n + 1 /\ \A k \in 1 .. n + 1 : v[k] = w[m + k] - o
  <2>1. n + 1 = j - i + 1 /\ \A k \in 1 .. n + 1 : i + k - 1 = m + k
    BY <1>1
  <2> QED
    BY <1>2, <2>1
<1>5. s \in Seq(Bytes)
  BY <1>2 DEF Window
<1>6. /\ WellFormed(s) /\ c \in Seq(Seq(Bytes)) /\ Len(c) = n
      /\ \A k \in 1 .. n : c[k] = SubSeq(s, v[k] + 1, v[k + 1])
  <2>1. Len(v) - 1 = n
    BY <1>1, <1>4
  <2>2. Marks(s, v)
    BY <1>2
  <2>3. /\ WellFormed(s) /\ Chars(s) \in Seq(Seq(Bytes)) /\ Len(Chars(s)) = Len(v) - 1
        /\ \A k \in 1 .. Len(v) - 1 : Chars(s)[k] = SubSeq(s, v[k] + 1, v[k + 1])
    BY <1>5, <2>2, CharsAre
  <2> QED
    BY <2>1, <2>3
<1>7. /\ Chars(b) \in Seq(Seq(Bytes)) /\ Len(Chars(b)) = Len(w) - 1
      /\ \A k \in 1 .. Len(w) - 1 : Chars(b)[k] = SubSeq(b, w[k] + 1, w[k + 1])
  BY CharsAre
<1>8. d \in Seq(Seq(Bytes)) /\ Len(d) = n /\ \A k \in 1 .. n : d[k] = Chars(b)[m + k]
  <2>1. j - 1 <= Len(Chars(b))
    BY <1>1, <1>7
  <2>2. /\ d \in Seq(Seq(Bytes)) /\ Len(d) = j - 1 - m
        /\ \A k \in 1 .. j - 1 - m : d[k] = Chars(b)[m + k]
    <3> HIDE DEF m
    <3> QED
      BY <1>1, <1>7, <2>1, Slice
  <2> QED
    BY <1>1, <2>2
<1> HIDE DEF c, d
<1>9. ASSUME NEW k \in 1 .. n PROVE c[k] = d[k]
  <2> DEFINE x == v[k]
             y == v[k + 1]
             h == m + k
  <2>1. k \in 1 .. n + 1 /\ k + 1 \in 1 .. n + 1 /\ h \in 1 .. Len(w) - 1 /\ h \in 1 .. Len(w)
        /\ h + 1 \in 1 .. Len(w) /\ m + (k + 1) = h + 1 /\ h <= h + 1 /\ Len(v) = n + 1
    BY <1>1, <1>4
  <2>2. x = w[h] - o /\ y = w[h + 1] - o /\ x \in 0 .. Len(s) /\ y \in 0 .. Len(s)
    <3>1. x = w[m + k] - o /\ y = w[m + (k + 1)] - o
      BY <1>4, <2>1
    <3>2. x \in 0 .. Len(s) /\ y \in 0 .. Len(s)
      BY <1>2, <2>1 DEF Marks
    <3> QED
      BY <2>1, <3>1, <3>2
  <2> HIDE DEF x, y, h
  <2>3. w[h] \in Nat /\ w[h + 1] \in Nat /\ o \in Nat /\ w[h] <= w[h + 1]
    BY <2>1, MarksGrow, LenProperties DEF Marks
  <2> HIDE DEF o
  <2>4. x \in Nat /\ y \in Nat /\ x <= y /\ y <= Len(s) /\ o + x = w[h] /\ o + y = w[h + 1]
    <3>1. Len(s) \in Nat
      BY <1>5, LenProperties
    <3>2. x \in Nat /\ y \in Nat /\ y <= Len(s)
      BY <2>2, <3>1
    <3>3. x = w[h] - o /\ y = w[h + 1] - o
      BY <2>2
    <3> DEFINE f == w[h]
               g == w[h + 1]
    <3>4. x = f - o /\ y = g - o /\ f \in Nat /\ g \in Nat /\ o \in Nat /\ f <= g
      BY <2>3, <3>3
    <3> HIDE DEF f, g
    <3>5. x <= y /\ o + x = f /\ o + y = g
      BY <3>2, <3>4
    <3> QED
      BY <3>2, <3>5 DEF f, g
  <2>5. From(s, x, y) = From(b, o + x, o + y)
    <3>1. x \in Nat /\ y \in Nat /\ x <= y /\ y <= Len(s)
      BY <2>4
    <3> QED
      BY <1>3, <3>1, WindowFrom
  <2>6. From(s, x, y) = From(b, w[h], w[h + 1])
    BY <2>4, <2>5
  <2>7. c[k] = From(s, x, y)
    BY <1>6 DEF x, y, From
  <2>8. d[k] = From(b, w[h], w[h + 1])
    BY <1>7, <1>8, <2>1 DEF h, From
  <2> QED
    BY <2>6, <2>7, <2>8
<1>10. c = d
  BY <1>6, <1>8, <1>9, SeqEqual
<1>11. s \in Seq(Bytes) /\ Len(s) = w[j] - w[i] /\ WellFormed(s) /\ Chars(s) = d
  BY <1>2, <1>5, <1>6, <1>10 DEF c
<1>12. From(Chars(b), i - 1, j - 1) = d /\ From(b, w[i], w[j]) = s
  BY DEF d, s, From
<1> QED
  BY <1>11, <1>12

-----------------------------------------------------------------------------
(* Well-formed strings one after the other *)

\* v are the marks of a and b one after the other, u and w those of each.
Joined(a, b, u, w, v) ==
    /\ Marks(a \o b, v) /\ Len(v) = Len(u) + Len(w) - 1
    /\ \A k \in 1 .. Len(u) : v[k] = u[k]
    /\ \A k \in 1 .. Len(w) : v[Len(u) - 1 + k] = Len(a) + w[k]

LEMMA ConcatMarks ==
  ASSUME NEW a \in Seq(Bytes), NEW b \in Seq(Bytes), NEW u, NEW w, Marks(a, u), Marks(b, w)
  PROVE  \E v : Joined(a, b, u, w, v)
<1> DEFINE c == a \o b
           o == Len(a)
           l == Len(b)
           d == Len(c)
           m == Len(u)
           n == Len(w)
           v == [k \in 1 .. m + n - 1 |-> IF k <= m THEN u[k] ELSE o + w[k - m + 1]]
<1>1. /\ m \in Nat /\ m >= 1 /\ u[1] = 0 /\ u[m] = o /\ o \in Nat
      /\ \A k \in 1 .. m : u[k] \in 0 .. o
  BY LenProperties DEF Marks
<1>2. /\ n \in Nat /\ n >= 1 /\ w[1] = 0 /\ w[n] = l /\ l \in Nat
      /\ \A k \in 1 .. n : w[k] \in 0 .. l
  BY LenProperties DEF Marks
<1>3. Window(a, c, 0) /\ Window(b, c, o) /\ d = o + l /\ c \in Seq(Bytes)
  BY ConcatWindows
<1>4. /\ \A k \in 1 .. m - 1 : Char(a, u[k], u[k + 1])
      /\ \A k \in 1 .. n - 1 : Char(b, w[k], w[k + 1])
  BY DEF Marks
<1>5. o = Len(a) /\ l = Len(b) /\ d = Len(c) /\ Len(u) = m /\ Len(w) = n
  OBVIOUS
<1> HIDE DEF c, o, l, d, m, n
<1>6. \A k \in 1 .. m : k \in 1 .. m + n - 1 /\ v[k] = u[k] /\ v[k] \in 0 .. d
  <2>1. ASSUME NEW k \in 1 .. m PROVE k \in 1 .. m + n - 1 /\ v[k] = u[k] /\ v[k] \in 0 .. d
    <3>1. k \in 1 .. m + n - 1 /\ v[k] = u[k]
      BY <1>1, <1>2
    <3> HIDE DEF v
    <3>2. u[k] \in 0 .. o
      BY <1>1
    <3> QED
      BY <1>1, <1>2, <1>3, <3>1, <3>2
  <2> QED
    BY <2>1
<1>7. \A k \in 1 .. n : m - 1 + k \in 1 .. m + n - 1 /\ v[m - 1 + k] = o + w[k] /\ v[m - 1 + k] \in 0 .. d
  <2>1. ASSUME NEW k \in 1 .. n
        PROVE  m - 1 + k \in 1 .. m + n - 1 /\ v[m - 1 + k] = o + w[k] /\ v[m - 1 + k] \in 0 .. d
    <3> DEFINE h == m - 1 + k
    <3>1. h \in 1 .. m + n - 1 /\ h - m + 1 = k /\ (h <= m <=> k = 1) /\ (k = 1 => h = m)
      BY <1>1, <1>2
    <3>2. v[h] = IF h <= m THEN u[h] ELSE o + w[h - m + 1]
      BY <3>1
    <3> HIDE DEF v, h
    <3>3. w[k] \in 0 .. l
      BY <1>2
    <3>4. v[h] = o + w[k]
      <4>1. CASE k = 1
        BY <1>1, <1>2, <3>1, <3>2, <4>1
      <4>2. CASE k # 1
        BY <3>1, <3>2, <4>2
      <4> QED
        BY <4>1, <4>2
    <3>5. v[h] \in 0 .. d
      BY <1>1, <1>2, <1>3, <3>3, <3>4, SMTT(30)
    <3> QED
      BY <3>1, <3>4, <3>5, Zenon DEF h
  <2> QED
    BY <2>1, Zenon
<1>8. \A k \in 1 .. m + n - 1 : k \in 1 .. m \/ \E h \in 1 .. n : k = m - 1 + h
  <2>1. ASSUME NEW k \in 1 .. m + n - 1, k \notin 1 .. m PROVE \E h \in 1 .. n : k = m - 1 + h
    <3>1. k - m + 1 \in 1 .. n /\ k = m - 1 + (k - m + 1)
      BY <1>1, <1>2, <2>1
    <3> QED
      BY <3>1
  <2> QED
    BY <2>1
<1>9. v \in Seq(Nat) /\ Len(v) = m + n - 1
  <2>1. d \in Nat
    BY <1>1, <1>2, <1>3
  <2>2. v = [k \in 1 .. m + n - 1 |-> v[k]]
    OBVIOUS
  <2> HIDE DEF v
  <2>3. \A k \in 1 .. m + n - 1 : v[k] \in 0 .. d
    BY <1>6, <1>7, <1>8
  <2>4. \A k \in 1 .. m + n - 1 : v[k] \in Nat
    BY <2>1, <2>3
  <2>5. v \in [1 .. m + n - 1 -> Nat]
    BY <2>2, <2>4
  <2>6. m + n - 1 \in Nat
    BY <1>1, <1>2
  <2> QED
    BY <2>5, <2>6, FunctionIsSeq
<1> HIDE DEF v
<1>10. ASSUME NEW k \in 1 .. m + n - 2 PROVE Char(c, v[k], v[k + 1])
  <2>1. CASE k <= m - 1
    <3>1. k \in 1 .. m - 1 /\ k \in 1 .. m /\ k + 1 \in 1 .. m
      BY <1>1, <2>1
    <3> DEFINE x == u[k]
               y == u[k + 1]
    <3>2. Char(a, x, y) /\ x \in 0 .. o /\ v[k] = x /\ v[k + 1] = y
      BY <1>1, <1>4, <1>6, <3>1
    <3> HIDE DEF x, y
    <3>3. y \in Nat /\ x < y /\ y <= Len(a)
      BY <1>5, <3>2, CharGrows
    <3>4. x \in Nat /\ 0 + x = x /\ 0 + y = y
      BY <1>1, <3>2, <3>3
    <3>5. Char(a, x, y) <=> Char(c, 0 + x, 0 + y)
      BY <1>3, <3>3, <3>4, CharMoved
    <3> QED
      BY <3>2, <3>4, <3>5
  <2>2. CASE ~(k <= m - 1)
    <3> DEFINE h == k - m + 1
    <3>1. h \in 1 .. n - 1 /\ h \in 1 .. n /\ h + 1 \in 1 .. n /\ m - 1 + h = k /\ m - 1 + (h + 1) = k + 1
      BY <1>1, <1>2, <2>2
    <3> HIDE DEF h
    <3> DEFINE x == w[h]
               y == w[h + 1]
    <3>2. Char(b, x, y) /\ x \in 0 .. l /\ v[m - 1 + h] = o + x /\ v[m - 1 + (h + 1)] = o + y
      BY <1>2, <1>4, <1>7, <3>1
    <3> HIDE DEF x, y
    <3>3. y \in Nat /\ x < y /\ y <= Len(b)
      BY <1>5, <3>2, CharGrows
    <3>4. x \in Nat
      BY <1>2, <3>2
    <3>5. Char(b, x, y) <=> Char(c, o + x, o + y)
      BY <1>3, <3>3, <3>4, CharMoved
    <3> QED
      BY <3>1, <3>2, <3>5
  <2> QED
    BY <2>1, <2>2
<1>11. v[1] = 0 /\ v[m + n - 1] = d
  <2>1. 1 \in 1 .. m /\ n \in 1 .. n /\ m - 1 + n = m + n - 1
    BY <1>1, <1>2
  <2>2. v[1] = u[1] /\ v[m - 1 + n] = o + w[n]
    BY <1>6, <1>7, <2>1
  <2> QED
    BY <1>1, <1>2, <1>3, <2>1, <2>2
<1>12. \A k \in 1 .. m + n - 1 : v[k] \in 0 .. d
  BY <1>6, <1>7, <1>8
<1>13. Marks(c, v)
  <2>1. m + n - 1 >= 1 /\ m + n - 1 - 1 = m + n - 2
    BY <1>1, <1>2
  <2> QED
    BY <1>9, <1>10, <1>11, <1>12, <1>5, <2>1, SMTT(30) DEF Marks
<1>14. /\ Marks(c, v) /\ Len(v) = m + n - 1
       /\ \A k \in 1 .. m : v[k] = u[k]
       /\ \A k \in 1 .. n : v[m - 1 + k] = o + w[k]
  BY <1>6, <1>7, <1>9, <1>13
<1> QED
  BY <1>14 DEF c, o, m, n, Joined

LEMMA ConcatMarkedChars ==
  ASSUME NEW a \in Seq(Bytes), NEW b \in Seq(Bytes), NEW u, NEW w, Marks(a, u), Marks(b, w)
  PROVE  a \o b \in Seq(Bytes) /\ WellFormed(a \o b) /\ Chars(a \o b) = Chars(a) \o Chars(b)
<1> DEFINE c == a \o b
           m == Len(u) - 1
           n == Len(w) - 1
           o == Len(a)
           x == Chars(a)
           y == Chars(b)
           z == Chars(c)
<1>1. Marks(a, u) /\ Marks(b, w)
  OBVIOUS
<1>2. /\ x \in Seq(Seq(Bytes)) /\ Len(x) = m
      /\ \A k \in 1 .. m : x[k] = From(a, u[k], u[k + 1])
  BY <1>1, CharsAre DEF From
<1>3. /\ y \in Seq(Seq(Bytes)) /\ Len(y) = n
      /\ \A k \in 1 .. n : y[k] = From(b, w[k], w[k + 1])
  BY <1>1, CharsAre DEF From
<1>4. Window(a, c, 0) /\ Window(b, c, o) /\ Len(c) = o + Len(b) /\ c \in Seq(Bytes)
  BY ConcatWindows
<1>5. PICK v : Joined(a, b, u, w, v)
  BY ConcatMarks
<1>6. /\ Marks(c, v) /\ Len(v) = Len(u) + Len(w) - 1
      /\ \A k \in 1 .. Len(u) : v[k] = u[k]
      /\ \A k \in 1 .. Len(w) : v[Len(u) - 1 + k] = o + w[k]
  BY <1>5 DEF Joined
<1>7. m \in Nat /\ n \in Nat /\ Len(u) = m + 1 /\ Len(w) = n + 1 /\ o \in Nat
  <2>1. Len(u) \in Nat /\ Len(u) >= 1 /\ Len(w) \in Nat /\ Len(w) >= 1
    BY <1>1 DEF Marks
  <2>2. o \in Nat
    BY LenProperties
  <2> QED
    BY <2>1, <2>2
<1>8. /\ Len(v) - 1 = m + n
      /\ \A k \in 1 .. m + 1 : v[k] = u[k]
      /\ \A k \in 1 .. n + 1 : v[m + k] = o + w[k]
  BY <1>6, <1>7
<1>9. /\ WellFormed(c) /\ z \in Seq(Seq(Bytes)) /\ Len(z) = m + n
      /\ \A k \in 1 .. m + n : z[k] = From(c, v[k], v[k + 1])
  <2>1. Marks(c, v)
    BY <1>6
  <2> HIDE DEF c, m, n
  <2>2. /\ WellFormed(c) /\ Chars(c) \in Seq(Seq(Bytes)) /\ Len(Chars(c)) = Len(v) - 1
        /\ \A k \in 1 .. Len(v) - 1 : Chars(c)[k] = From(c, v[k], v[k + 1])
    BY <1>4, <2>1, CharsAre DEF From
  <2> QED
    BY <1>8, <2>2
<1>10. \A k \in 1 .. m + 1 : u[k] \in 0 .. Len(a)
  BY <1>1, <1>7 DEF Marks
<1>11. \A k \in 1 .. n + 1 : w[k] \in 0 .. Len(b)
  BY <1>1, <1>7 DEF Marks
<1>12. x \o y \in Seq(Seq(Bytes)) /\ Len(x \o y) = m + n
       /\ \A k \in 1 .. m + n : (x \o y)[k] = IF k <= m THEN x[k] ELSE y[k - m]
  <2> HIDE DEF x, y, m, n
  <2> QED
    BY <1>2, <1>3, ConcatProperties
<1> HIDE DEF c, x, y, z, m, n, o
<1>13. ASSUME NEW k \in 1 .. m + n PROVE z[k] = (x \o y)[k]
  <2>1. CASE k <= m
    <3> DEFINE g == u[k]
               q == u[k + 1]
    <3>1. k \in 1 .. m /\ k \in 1 .. m + 1 /\ k + 1 \in 1 .. m + 1
      BY <1>7, <2>1
    <3>2. g \in 0 .. Len(a) /\ q \in 0 .. Len(a) /\ v[k] = g /\ v[k + 1] = q /\ x[k] = From(a, g, q)
      BY <1>2, <1>8, <1>10, <3>1
    <3>3. g <= q
      <4>1. k \in 1 .. Len(u) /\ k + 1 \in 1 .. Len(u) /\ k <= k + 1
        BY <1>7, <3>1
      <4> QED
        BY <1>1, <4>1, MarksGrow
    <3> HIDE DEF g, q
    <3>4. g \in Nat /\ q \in Nat /\ q <= Len(a) /\ 0 + g = g /\ 0 + q = q
      BY <3>2, LenProperties
    <3>5. From(a, g, q) = From(c, 0 + g, 0 + q)
      BY <1>4, <3>3, <3>4, WindowFrom
    <3> QED
      BY <1>9, <1>12, <2>1, <3>2, <3>4, <3>5
  <2>2. CASE ~(k <= m)
    <3> DEFINE h == k - m
    <3>1. h \in 1 .. n /\ h \in 1 .. n + 1 /\ h + 1 \in 1 .. n + 1 /\ m + h = k /\ m + (h + 1) = k + 1
      BY <1>7, <2>2
    <3>2. (x \o y)[k] = y[h]
      BY <1>12, <2>2
    <3> HIDE DEF h
    <3> DEFINE g == w[h]
               q == w[h + 1]
    <3>3. g \in 0 .. Len(b) /\ q \in 0 .. Len(b) /\ v[m + h] = o + g /\ v[m + (h + 1)] = o + q /\ y[h] = From(b, g, q)
      BY <1>3, <1>8, <1>11, <3>1
    <3>4. g <= q
      <4>1. h \in 1 .. Len(w) /\ h + 1 \in 1 .. Len(w) /\ h <= h + 1
        BY <1>7, <3>1
      <4> QED
        BY <1>1, <4>1, MarksGrow
    <3> HIDE DEF g, q
    <3>5. g \in Nat /\ q \in Nat /\ q <= Len(b)
      BY <3>3, LenProperties
    <3>6. From(b, g, q) = From(c, o + g, o + q)
      BY <1>4, <3>4, <3>5, WindowFrom
    <3>7. z[k] = From(c, v[k], v[k + 1])
      BY <1>9
    <3> QED
      BY <3>2, <3>1, <3>3, <3>6, <3>7
  <2> QED
    BY <2>1, <2>2
<1>14. z = x \o y
  <2> DEFINE t == x \o y
  <2>1. t \in Seq(Seq(Bytes)) /\ Len(t) = m + n /\ \A k \in 1 .. Len(z) : z[k] = t[k]
    BY <1>9, <1>12, <1>13
  <2> HIDE DEF t
  <2>2. z = t
    BY <1>9, <2>1, SeqEqual
  <2> QED
    BY <2>2 DEF t
<1> QED
  BY <1>4, <1>9, <1>14 DEF c, x, y, z

LEMMA ConcatChars ==
  ASSUME NEW a \in Seq(Bytes), NEW b \in Seq(Bytes), WellFormed(a), WellFormed(b)
  PROVE  a \o b \in Seq(Bytes) /\ WellFormed(a \o b) /\ Chars(a \o b) = Chars(a) \o Chars(b)
BY MarksAreWalk, ConcatMarkedChars

-----------------------------------------------------------------------------
(* The operations on characters *)

\* j is the cache of b, which is well formed and has the marks w.
Cached(b, w, j) ==
    /\ b \in Seq(Bytes) /\ Marks(b, w)
    /\ j.at = w /\ j.size[1] = Len(w) - 1 /\ j.size[2] = Len(w) - 1

\* The character after the c characters from g on, as far as there are any.
End(w, g, c) == Lower(Len(w) - 1, g + c)

LEMMA EndIs ==
  ASSUME NEW n \in Nat, NEW g \in 0 .. n, NEW c \in Nat
  PROVE  /\ Lower(n, g + c) \in g .. n /\ g + Lower(c, n - g) = Lower(n, g + c)
         /\ Lower(c, n - g) = Lower(n, g + c) - g
BY DEF Lower

LEMMA MarkType ==
  ASSUME NEW b \in Seq(Bytes), NEW w, Marks(b, w), NEW g \in 0 .. Len(w) - 1
  PROVE  w[g + 1] \in Nat /\ w[g + 1] <= Len(b) /\ Len(w) - 1 \in Nat /\ g \in Nat
<1>1. Len(w) \in Nat /\ Len(b) \in Nat
  BY LenProperties DEF Marks
<1>2. g + 1 \in 1 .. Len(w)
  BY <1>1
<1>3. w[g + 1] \in 0 .. Len(b)
  BY <1>2 DEF Marks
<1> QED
  BY <1>1, <1>2, <1>3

\* The bytes of a part are those between its marks.
BetweenMarks(b, w, j, g, c) ==
    /\ End(w, g, c) \in g .. Len(w) - 1
    /\ j.at[g + 1] = w[g + 1]
    /\ Part(j, g, c) = w[End(w, g, c) + 1] - w[g + 1]
    /\ w[g + 1] \in Nat /\ w[End(w, g, c) + 1] \in Nat
    /\ w[g + 1] <= w[End(w, g, c) + 1] /\ w[End(w, g, c) + 1] <= Len(b)

LEMMA PartIs ==
  ASSUME NEW b, NEW w, NEW j, Cached(b, w, j), NEW g \in 0 .. Len(w) - 1, NEW c \in Nat
  PROVE  BetweenMarks(b, w, j, g, c)
<1> DEFINE n == Len(w) - 1
           e == End(w, g, c)
           x == w[g + 1]
           y == w[e + 1]
<1>1. b \in Seq(Bytes) /\ Marks(b, w) /\ j.at = w /\ j.size[2] = n
  BY DEF Cached
<1>2. n \in Nat /\ g \in 0 .. n /\ Len(w) = n + 1
  BY <1>1 DEF Marks
<1>3. e \in g .. n /\ g + Count(j, g, c) = e
  <2>1. e = Lower(n, g + c) /\ Count(j, g, c) = Lower(c, n - g)
    BY <1>1 DEF End, Count
  <2> HIDE DEF n, e
  <2> QED
    BY <1>2, <2>1, EndIs
<1> HIDE DEF e
<1>4. x \in Nat /\ y \in Nat /\ y <= Len(b)
  <2>1. e \in 0 .. Len(w) - 1
    BY <1>2, <1>3
  <2> QED
    BY <1>1, <2>1, MarkType
<1>5. x <= y
  <2>1. g + 1 \in 1 .. Len(w) /\ e + 1 \in 1 .. Len(w) /\ g + 1 <= e + 1
    BY <1>2, <1>3
  <2> QED
    BY <1>1, <2>1, MarksGrow
<1>6. Part(j, g, c) = LET d == y - x IN IF d < 0 THEN npos ELSE d
  BY <1>1, <1>3 DEF Part, u8_distance
<1>7. Part(j, g, c) = y - x
  <2> HIDE DEF x, y
  <2> QED
    BY <1>4, <1>5, <1>6
<1> QED
  BY <1>1, <1>3, <1>4, <1>5, <1>7 DEF e, BetweenMarks

LEMMA PieceChars ==
  ASSUME NEW b \in Seq(Bytes), NEW w, Marks(b, w),
         NEW g \in 0 .. Len(w) - 1, NEW e \in g .. Len(w) - 1
  PROVE  /\ From(b, w[g + 1], w[e + 1]) \in Seq(Bytes)
         /\ Len(From(b, w[g + 1], w[e + 1])) = w[e + 1] - w[g + 1]
         /\ WellFormed(From(b, w[g + 1], w[e + 1]))
         /\ Chars(From(b, w[g + 1], w[e + 1])) = From(Chars(b), g, e)
<1> DEFINE h == g + 1
           k == e + 1
<1>1. h \in 1 .. Len(w) /\ k \in 1 .. Len(w) /\ h <= k /\ h - 1 = g /\ k - 1 = e
  BY DEF Marks
<1> HIDE DEF h, k
<1>2. /\ From(b, w[h], w[k]) \in Seq(Bytes)
      /\ Len(From(b, w[h], w[k])) = w[k] - w[h]
      /\ WellFormed(From(b, w[h], w[k]))
      /\ Chars(From(b, w[h], w[k])) = From(Chars(b), h - 1, k - 1)
  BY <1>1, SliceChars
<1> QED
  BY <1>1, <1>2 DEF h, k

\* The three ways to take a part give these bytes.
LEMMA PartTaken ==
  ASSUME NEW b \in Seq(Bytes), NEW w, Marks(b, w),
         NEW g \in 0 .. Len(w) - 1, NEW x \in Nat, NEW y \in Nat, x = w[g + 1], x <= y, y <= Len(b)
  PROVE  /\ tail_of(b, x, y - x) = From(b, x, y)
         /\ substr(b, x, y - x, Nul) = From(b, x, y)
         /\ SubSeq(b, x + 1, Lower(Len(b), x + (y - x))) = From(b, x, y)
<1> DEFINE l == Len(b)
           n == y - x
           s == From(b, x, l)
           t == From(b, x, y)
<1>1. l \in Nat /\ n \in Nat /\ x <= l /\ x + n = y /\ l - x \in Nat /\ n <= l - x /\ n \in 0 .. l - x
  <2>1. l \in Nat /\ y <= l
    BY LenProperties
  <2> HIDE DEF l
  <2> QED
    BY <2>1
<1>2. /\ t \in Seq(Bytes) /\ Len(t) = n
      /\ \A i \in 1 .. n : t[i] = b[x + i]
  BY Slice DEF From
<1>3. s \in Seq(Bytes) /\ Len(s) = l - x /\ c_str(s) = s
  <2> DEFINE m == Len(w) - 1
  <2>1. g \in 0 .. m /\ m \in Nat /\ m \in g .. m /\ w[m + 1] = l
    BY DEF Marks
  <2>2. /\ s \in Seq(Bytes) /\ Len(s) = l - x /\ WellFormed(s)
    <3> HIDE DEF s, l
    <3>1. From(b, w[g + 1], w[m + 1]) = s
      BY <2>1 DEF s
    <3> QED
      BY <2>1, <3>1, PieceChars
  <2>3. Marks(s, Walk(s))
    BY <2>2, MarksAreWalk
  <2> QED
    BY <2>2, <2>3, CStrSame
<1>4. tail_of(b, x, n) = t
  <2>1. tail_of(b, x, n) = SubSeq(c_str(s), 1, Lower(n, Len(c_str(s))))
    BY DEF tail_of, From
  <2>2. Lower(n, l - x) = n
    <3> HIDE DEF n, l
    <3> QED
      BY <1>1 DEF Lower
  <2>3. SubSeq(s, 1, n) = t
    <3>1. From(From(b, x, l), 0, n) = From(b, x, x + n)
      <4>1. l <= Len(b)
        BY <1>1
      <4> HIDE DEF n, l
      <4> QED
        BY <1>1, <4>1, FromOfFrom
    <3>2. From(s, 0, n) = SubSeq(s, 1, n)
      BY DEF From
    <3> HIDE DEF n, l
    <3> QED
      BY <1>1, <3>1, <3>2
  <2> HIDE DEF s, t, n, l
  <2> QED
    BY <1>3, <2>1, <2>2, <2>3
<1>5. substr(b, x, n, Nul) = t
  <2>1. c_str(b) = b
    BY CStrSame
  <2>2. Lower(n, Lower(l, x + n) - x) = n
    <3> HIDE DEF n, l
    <3> QED
      BY <1>1 DEF Lower
  <2>3. substr(b, x, n, Nul) = [i \in 1 .. n |-> IF x + i <= l THEN b[x + i] ELSE Nul]
    <3> HIDE DEF n
    <3> QED
      BY <2>1, <2>2 DEF substr
  <2>4. \A i \in 1 .. n : x + i <= l
    <3> HIDE DEF n, l
    <3> QED
      BY <1>1, SMTT(30)
  <2>5. t = [i \in 1 .. n |-> b[x + i]]
    <3>1. DOMAIN t = 1 .. n
      BY <1>2, LenProperties
    <3>2. t = [i \in 1 .. n |-> t[i]]
      <4>1. t \in [1 .. Len(t) -> Bytes]
        BY <1>2, LenProperties
      <4> HIDE DEF t, n
      <4> QED
        BY <1>2, <4>1
    <3> HIDE DEF t, n
    <3> QED
      BY <1>2, <3>2
  <2> HIDE DEF t, n, l
  <2> QED
    BY <2>3, <2>4, <2>5
<1>6. SubSeq(b, x + 1, Lower(l, x + n)) = t
  <2>1. Lower(l, x + n) = y
    <3>1. y <= l
      BY <1>1
    <3> HIDE DEF n, l
    <3> QED
      BY <1>1, <3>1 DEF Lower
  <2> QED
    BY <2>1 DEF From
<1> QED
  BY <1>4, <1>5, <1>6

LEMMA InsertFrom ==
  ASSUME NEW b, NEW g, NEW s
  PROVE  Insert(b, g, s) = From(b, 0, g) \o s \o From(b, g, Len(b))
BY DEF Insert, From

LEMMA ErasedFrom ==
  ASSUME NEW b, NEW g, NEW n
  PROVE  Erased(b, g, n) = From(b, 0, g) \o From(b, g + Lower(n, Len(b) - g), Len(b))
BY DEF Erased, From

LEMMA ReplacedFrom ==
  ASSUME NEW S, NEW b \in Seq(S), NEW g \in Nat, NEW n, NEW s,
         g + Lower(n, Len(b) - g) \in g .. Len(b)
  PROVE  Replaced(b, g, n, s) = From(b, 0, g) \o s \o From(b, g + Lower(n, Len(b) - g), Len(b))
<1> DEFINE l == Len(b)
           e == g + Lower(n, Len(b) - g)
           a == From(b, 0, g)
           c == From(b, e, l)
<1>1. e \in g .. l
  OBVIOUS
<1>2. Erased(b, g, n) = a \o c
  BY ErasedFrom
<1> HIDE DEF e
<1>3. e \in Nat /\ e <= l /\ l \in Nat /\ g <= l /\ l <= Len(b) /\ 0 \in Nat /\ 0 <= g
  <2>1. l \in Nat
    BY LenProperties
  <2> HIDE DEF l
  <2>2. e \in Nat /\ e <= l /\ g <= l
    BY <1>1, <2>1
  <2> QED
    BY <2>1, <2>2 DEF l
<1>4. a \in Seq(S) /\ Len(a) = g
  <2>1. a \in Seq(S) /\ Len(a) = g - 0
    <3> HIDE DEF l
    <3>1. g <= Len(b)
      BY <1>3 DEF l
    <3> QED
      BY <1>3, <3>1, Slice DEF From
  <2> QED
    BY <2>1
<1>5. c \in Seq(S)
  <2> HIDE DEF l
  <2> QED
    BY <1>3, Slice DEF From
<1> HIDE DEF a, c, l
<1>6. Insert(a \o c, g, s) = a \o s \o c
  BY <1>4, <1>5, InsertBetween
<1>7. Replaced(b, g, n, s) = a \o s \o c
  BY <1>2, <1>6 DEF Replaced
<1> QED
  BY <1>7 DEF a, c, l, e

\* What is before a character, and what is from one on.
LEMMA EndsChars ==
  ASSUME NEW b \in Seq(Bytes), NEW w, Marks(b, w), NEW g \in 0 .. Len(w) - 1
  PROVE  /\ From(b, 0, w[g + 1]) \in Seq(Bytes) /\ WellFormed(From(b, 0, w[g + 1]))
         /\ Chars(From(b, 0, w[g + 1])) = From(Chars(b), 0, g)
         /\ From(b, w[g + 1], Len(b)) \in Seq(Bytes) /\ WellFormed(From(b, w[g + 1], Len(b)))
         /\ Chars(From(b, w[g + 1], Len(b))) = From(Chars(b), g, Len(Chars(b)))
<1> DEFINE n == Len(w) - 1
<1>1. n \in Nat /\ g \in Nat /\ g \in 0 .. n /\ n \in g .. n /\ 0 \in 0 .. n /\ g \in 0 .. n /\ n \in 0 .. n
  BY DEF Marks
<1>2. w[0 + 1] = 0 /\ w[n + 1] = Len(b)
  BY DEF Marks
<1>3. Len(Chars(b)) = n
  BY CharsAre
<1> HIDE DEF n
<1>4. \A i \in 0 .. n : \A j \in i .. n :
          /\ From(b, w[i + 1], w[j + 1]) \in Seq(Bytes) /\ WellFormed(From(b, w[i + 1], w[j + 1]))
          /\ Chars(From(b, w[i + 1], w[j + 1])) = From(Chars(b), i, j)
  BY PieceChars DEF n
<1>5. /\ From(b, w[0 + 1], w[g + 1]) \in Seq(Bytes) /\ WellFormed(From(b, w[0 + 1], w[g + 1]))
      /\ Chars(From(b, w[0 + 1], w[g + 1])) = From(Chars(b), 0, g)
  BY <1>1, <1>4
<1>6. /\ From(b, w[g + 1], w[n + 1]) \in Seq(Bytes) /\ WellFormed(From(b, w[g + 1], w[n + 1]))
      /\ Chars(From(b, w[g + 1], w[n + 1])) = From(Chars(b), g, n)
  BY <1>1, <1>4
<1> QED
  BY <1>2, <1>3, <1>5, <1>6

\* Before, s, after: strings and their characters.
LEMMA BetweenChars ==
  ASSUME NEW a \in Seq(Bytes), NEW s \in Seq(Bytes), NEW c \in Seq(Bytes),
         WellFormed(a), WellFormed(s), WellFormed(c)
  PROVE  Chars(a \o s \o c) = Chars(a) \o Chars(s) \o Chars(c)
<1> DEFINE t == a \o s
<1>1. t \in Seq(Bytes) /\ WellFormed(t) /\ Chars(t) = Chars(a) \o Chars(s)
  BY ConcatChars
<1> HIDE DEF t
<1>2. Chars(t \o c) = Chars(t) \o Chars(c)
  BY <1>1, ConcatChars
<1> QED
  BY <1>1, <1>2 DEF t

LEMMA InsertChars ==
  ASSUME NEW a \in Seq(Bytes), NEW u, Marks(a, u), NEW q \in 0 .. Len(u) - 1,
         NEW s \in Seq(Bytes), WellFormed(s)
  PROVE  Chars(Insert(a, u[q + 1], s)) = Insert(Chars(a), q, Chars(s))
<1> DEFINE b == From(a, 0, u[q + 1])
           c == From(a, u[q + 1], Len(a))
<1>1. /\ b \in Seq(Bytes) /\ WellFormed(b) /\ Chars(b) = From(Chars(a), 0, q)
      /\ c \in Seq(Bytes) /\ WellFormed(c) /\ Chars(c) = From(Chars(a), q, Len(Chars(a)))
  BY EndsChars
<1>2. Insert(a, u[q + 1], s) = b \o s \o c
  BY InsertFrom
<1> HIDE DEF b, c
<1>3. Chars(b \o s \o c) = Chars(b) \o Chars(s) \o Chars(c)
  BY <1>1, BetweenChars
<1>4. Insert(Chars(a), q, Chars(s)) = From(Chars(a), 0, q) \o Chars(s) \o From(Chars(a), q, Len(Chars(a)))
  BY InsertFrom
<1> QED
  BY <1>1, <1>2, <1>3, <1>4

\* d characters from q on, in bytes and in characters.
LEMMA CharsLeft ==
  ASSUME NEW a, NEW u, NEW i, Cached(a, u, i), NEW q \in 0 .. Len(u) - 1, NEW d \in Nat
  PROVE  /\ u[q + 1] + Lower(Part(i, q, d), Len(a) - u[q + 1]) = u[End(u, q, d) + 1]
         /\ q + Lower(d, Len(Chars(a)) - q) = End(u, q, d)
         /\ End(u, q, d) \in q .. Len(u) - 1 /\ End(u, q, d) \in Nat /\ Len(Chars(a)) = Len(u) - 1
         /\ Chars(a) \in Seq(Seq(Bytes))
<1>1. BetweenMarks(a, u, i, q, d)
  BY PartIs
<1>2. /\ End(u, q, d) \in q .. Len(u) - 1
      /\ Part(i, q, d) = u[End(u, q, d) + 1] - u[q + 1]
      /\ u[q + 1] \in Nat /\ u[End(u, q, d) + 1] \in Nat
      /\ u[q + 1] <= u[End(u, q, d) + 1] /\ u[End(u, q, d) + 1] <= Len(a)
  BY <1>1 DEF BetweenMarks
<1> DEFINE e == End(u, q, d)
           x == u[q + 1]
           y == u[e + 1]
           l == Len(a)
           n == Len(u) - 1
           m == Part(i, q, d)
<1>3. e \in q .. n /\ m = y - x /\ x \in Nat /\ y \in Nat /\ x <= y /\ y <= l
  BY <1>2, Zenon
<1>4. a \in Seq(Bytes) /\ l \in Nat /\ Chars(a) \in Seq(Seq(Bytes)) /\ Len(Chars(a)) = n /\ n \in Nat
  <2>1. a \in Seq(Bytes) /\ Marks(a, u)
    BY DEF Cached
  <2> QED
    BY <2>1, CharsAre, LenProperties DEF Marks
<1>5. e = Lower(n, q + d)
  BY DEF End
<1>6. q \in 0 .. n /\ u[q + 1] = x /\ u[e + 1] = y
  OBVIOUS
<1> HIDE DEF e, x, y, l, n, m
<1>7. x + Lower(m, l - x) = y
  BY <1>3, <1>4 DEF Lower
<1>8. q + Lower(d, n - q) = e /\ e \in Nat
  <2>1. Lower(n, q + d) \in q .. n /\ q + Lower(d, n - q) = Lower(n, q + d)
    BY <1>4, <1>6, EndIs
  <2> QED
    BY <1>5, <1>6, <2>1
<1> QED
  BY <1>3, <1>4, <1>7, <1>8 DEF e, x, y, l, n, m

LEMMA CutChars ==
  ASSUME NEW b, NEW w, NEW j, Cached(b, w, j), NEW g \in 0 .. Len(w) - 1, NEW c \in Nat
  PROVE  Chars(Cut(b, j, g, c)) = Erased(Chars(b), g, c)
<1> DEFINE e == End(w, g, c)
           x == From(b, 0, w[g + 1])
           y == From(b, w[e + 1], Len(b))
<1>1. b \in Seq(Bytes) /\ Marks(b, w) /\ j.at[g + 1] = w[g + 1]
  BY DEF Cached
<1>2. /\ w[g + 1] + Lower(Part(j, g, c), Len(b) - w[g + 1]) = w[e + 1]
      /\ g + Lower(c, Len(Chars(b)) - g) = e
      /\ e \in g .. Len(w) - 1 /\ g \in Nat /\ Len(w) \in Nat
  <2>1. Len(w) \in Nat
    BY <1>1 DEF Marks
  <2>2. g \in Nat
    BY <2>1
  <2>3. /\ w[g + 1] + Lower(Part(j, g, c), Len(b) - w[g + 1]) = w[e + 1]
        /\ g + Lower(c, Len(Chars(b)) - g) = e /\ e \in g .. Len(w) - 1
    BY CharsLeft
  <2> QED
    BY <2>1, <2>2, <2>3
<1>3. Cut(b, j, g, c) = x \o y
  BY <1>1, <1>2, ErasedFrom DEF Cut
<1>4. Erased(Chars(b), g, c) = From(Chars(b), 0, g) \o From(Chars(b), e, Len(Chars(b)))
  BY <1>2, ErasedFrom
<1>5. x \in Seq(Bytes) /\ WellFormed(x) /\ Chars(x) = From(Chars(b), 0, g)
  BY <1>1, EndsChars
<1>6. y \in Seq(Bytes) /\ WellFormed(y) /\ Chars(y) = From(Chars(b), e, Len(Chars(b)))
  <2>1. e \in 0 .. Len(w) - 1
    BY <1>2
  <2> HIDE DEF e
  <2> QED
    BY <1>1, <2>1, EndsChars
<1> HIDE DEF x, y
<1>7. Chars(x \o y) = Chars(x) \o Chars(y)
  BY <1>5, <1>6, ConcatChars
<1> QED
  BY <1>3, <1>4, <1>5, <1>6, <1>7

LEMMA ReplacedChars ==
  ASSUME NEW a, NEW u, NEW i, Cached(a, u, i), NEW q \in 0 .. Len(u) - 1, NEW d \in Nat,
         NEW s \in Seq(Bytes), WellFormed(s)
  PROVE  Chars(Replaced(a, i.at[q + 1], Part(i, q, d), s)) = Replaced(Chars(a), q, d, Chars(s))
<1> DEFINE e == End(u, q, d)
           b == From(a, 0, u[q + 1])
           c == From(a, u[e + 1], Len(a))
           n == Part(i, q, d)
           y == Chars(a)
           g == u[q + 1]
           z == u[e + 1]
<1>1. a \in Seq(Bytes) /\ Marks(a, u) /\ i.at[q + 1] = u[q + 1]
  BY DEF Cached
<1>2. /\ g + Lower(n, Len(a) - g) = z
      /\ q + Lower(d, Len(y) - q) = e
      /\ e \in q .. Len(u) - 1 /\ e \in Nat /\ q \in Nat /\ Len(u) \in Nat /\ Len(y) = Len(u) - 1
      /\ y \in Seq(Seq(Bytes))
  <2>1. Len(u) \in Nat
    BY <1>1 DEF Marks
  <2>2. q \in Nat
    BY <2>1
  <2>3. /\ u[q + 1] + Lower(Part(i, q, d), Len(a) - u[q + 1]) = u[e + 1]
        /\ q + Lower(d, Len(y) - q) = e /\ e \in q .. Len(u) - 1 /\ e \in Nat
        /\ Len(y) = Len(u) - 1 /\ y \in Seq(Seq(Bytes))
    <3>1. /\ u[q + 1] + Lower(Part(i, q, d), Len(a) - u[q + 1]) = u[End(u, q, d) + 1]
          /\ q + Lower(d, Len(Chars(a)) - q) = End(u, q, d)
          /\ End(u, q, d) \in q .. Len(u) - 1 /\ End(u, q, d) \in Nat /\ Len(Chars(a)) = Len(u) - 1
          /\ Chars(a) \in Seq(Seq(Bytes))
      BY CharsLeft
    <3> QED
      BY <3>1, Zenon
  <2> QED
    BY <2>1, <2>2, <2>3
<1>3. g \in Nat /\ z \in Nat /\ g <= z /\ z <= Len(a)
  BY PartIs DEF BetweenMarks
<1>4. Replaced(a, g, n, s) = b \o s \o c
  <2> HIDE DEF g, n, z
  <2>1. z \in g .. Len(a)
    BY <1>1, <1>3, LenProperties
  <2>2. Replaced(a, g, n, s) = From(a, 0, g) \o s \o From(a, g + Lower(n, Len(a) - g), Len(a))
    BY <1>1, <1>2, <1>3, <2>1, ReplacedFrom
  <2>3. Replaced(a, g, n, s) = From(a, 0, g) \o s \o From(a, z, Len(a))
    BY <1>2, <2>2
  <2> QED
    BY <2>3 DEF g, z
<1>5. Replaced(y, q, d, Chars(s)) = From(y, 0, q) \o Chars(s) \o From(y, e, Len(y))
  <2> HIDE DEF e, y
  <2>1. e \in q .. Len(y)
    BY <1>2
  <2>2. Replaced(y, q, d, Chars(s)) = From(y, 0, q) \o Chars(s) \o From(y, q + Lower(d, Len(y) - q), Len(y))
    BY <1>2, <2>1, ReplacedFrom
  <2> QED
    BY <1>2, <2>2
<1>6. b \in Seq(Bytes) /\ WellFormed(b) /\ Chars(b) = From(y, 0, q)
  BY <1>1, EndsChars
<1>7. c \in Seq(Bytes) /\ WellFormed(c) /\ Chars(c) = From(y, e, Len(y))
  <2>1. e \in 0 .. Len(u) - 1
    BY <1>2
  <2> HIDE DEF e
  <2> QED
    BY <1>1, <2>1, EndsChars
<1> HIDE DEF b, c, y, e
<1>8. Chars(b \o s \o c) = Chars(b) \o Chars(s) \o Chars(c)
  BY <1>6, <1>7, BetweenChars
<1>9. Chars(Replaced(a, g, n, s)) = Replaced(y, q, d, Chars(s))
  <2> HIDE DEF g, n
  <2> QED
    BY <1>4, <1>5, <1>6, <1>7, <1>8
<1> QED
  BY <1>1, <1>9 DEF y

-----------------------------------------------------------------------------
(* The u8_ operations are those of sequences of characters *)

LEMMA IteratorIs ==
  ASSUME NEW b \in Seq(Bytes), NEW w, Marks(b, w), NEW n \in 0 .. Len(w) - 1
  PROVE  u8_iterator(b, n) = w[n + 1]
<1> DEFINE Rec(g) == [k \in 0 .. n |-> IF k = 0 THEN 0 ELSE g[k - 1] + validate_u8char(b, g[k - 1])]
           at == CHOOSE g : g = Rec(g)
           f == [k \in 0 .. n |-> w[k + 1]]
<1>1. Len(w) \in Nat /\ n \in Nat /\ w[1] = 0
  BY DEF Marks
<1>2. \A k \in 1 .. n : w[k + 1] = w[k] + validate_u8char(b, w[k])
  <2>1. ASSUME NEW k \in 1 .. n PROVE w[k + 1] = w[k] + validate_u8char(b, w[k])
    <3>1. k \in 1 .. Len(w) - 1
      BY <1>1
    <3> QED
      BY <3>1 DEF Marks, Char
  <2> QED
    BY <2>1
<1>3. f = Rec(f)
  <2>1. ASSUME NEW k \in 0 .. n PROVE f[k] = Rec(f)[k]
    <3>1. CASE k = 0
      BY <1>1, <3>1
    <3>2. CASE k # 0
      <4>1. k \in 1 .. n /\ k - 1 \in 0 .. n /\ k - 1 + 1 = k
        BY <3>2
      <4>2. f[k] = w[k + 1] /\ f[k - 1] = w[k]
        BY <4>1
      <4> HIDE DEF f
      <4>3. Rec(f)[k] = f[k - 1] + validate_u8char(b, f[k - 1])
        BY <3>2
      <4> QED
        BY <1>2, <4>1, <4>2, <4>3
    <3> QED
      BY <3>1, <3>2
  <2>2. DOMAIN f = 0 .. n /\ DOMAIN Rec(f) = 0 .. n
    OBVIOUS
  <2>3. f = [k \in 0 .. n |-> f[k]] /\ Rec(f) = [k \in 0 .. n |-> Rec(f)[k]]
    OBVIOUS
  <2> HIDE DEF f, Rec
  <2> QED
    BY <2>1, <2>3
<1> HIDE DEF f
<1>4. at = Rec(at)
  <2> HIDE DEF Rec
  <2> QED
    BY <1>3
<1> HIDE DEF at
<1>5. \A k \in 0 .. n : at[k] = IF k = 0 THEN 0 ELSE at[k - 1] + validate_u8char(b, at[k - 1])
  BY <1>4
<1> DEFINE T == {k \in 0 .. n : at[k] = w[k + 1]}
<1>6. 0 \in T
  BY <1>1, <1>5
<1>7. ASSUME NEW k \in 1 .. n, k - 1 \in T PROVE k \in T
  <2>1. k \in 0 .. n /\ k # 0 /\ k - 1 + 1 = k
    BY <1>1
  <2>2. at[k - 1] = w[k]
    BY <1>7, <2>1
  <2>3. at[k] = at[k - 1] + validate_u8char(b, at[k - 1])
    BY <1>5, <2>1
  <2>4. at[k] = w[k + 1]
    BY <1>2, <2>2, <2>3
  <2> QED
    BY <2>1, <2>4
<1> HIDE DEF T
<1>8. n \in T
  BY <1>1, <1>6, <1>7, UpTo
<1>9. u8_iterator(b, n) = at[n]
  BY DEF u8_iterator, at, Rec
<1> QED
  BY <1>8, <1>9 DEF T

LEMMA CachedIs ==
  ASSUME TInv, NEW s \in Strings, Alive(s), Right(s), WellFormed(str[s])
  PROVE  Cached(str[s], Walk(str[s]), Cache(s))
<1>1. str[s] \in Seq(Bytes)
  BY AliveType
<1>2. Marks(str[s], Walk(str[s]))
  BY <1>1, MarksAreWalk
<1>3. Updated(s, 1) = Walk(str[s]) /\ Updated(s, 2) = Walk(str[s]) /\ Updated(s, 3) = Walk(str[s])
  BY UpdatedRight
<1> QED
  BY <1>1, <1>2, <1>3 DEF Cached, Cache

\* What ByCharacter says of c characters from g on and one place.
AsCharacters(a, i, b, j, g, c, part) ==
    /\ Chars(Appended(a, b, j, g, c)) = Chars(a) \o part
    /\ u8_iterator(b, g) = j.at[g + 1]
    /\ Chars(Cut(b, j, g, c)) = Erased(Chars(b), g, c)
    /\ Chars(substr(b, j.at[g + 1], Part(j, g, c), Nul)) = part
    /\ \A q \in 0 .. Len(Chars(a)) :
         /\ Chars(Inserted(a, i, q, b, j, g, c, Nul)) = Insert(Chars(a), q, part)
         /\ \A d \in 0 .. Len(Chars(a)) + 1 :
                Chars(Exchanged(a, i, q, d, b, j, g, c)) =
                    IF part = <<>> THEN Chars(a) ELSE Replaced(Chars(a), q, d, part)

\* No character is taken exactly when the part is empty.
LEMMA PartEmpty ==
  ASSUME NEW b, NEW w, NEW j, Cached(b, w, j), NEW g \in 0 .. Len(w) - 1, NEW c \in Nat
  PROVE  Count(j, g, c) = 0 <=> From(Chars(b), g, End(w, g, c)) = <<>>
<1> DEFINE n == Len(w) - 1
           e == End(w, g, c)
           y == Chars(b)
<1>1. b \in Seq(Bytes) /\ Marks(b, w) /\ j.size[2] = n
  BY DEF Cached
<1>2. n \in Nat /\ g \in 0 .. n /\ g \in Nat
  BY <1>1 DEF Marks
<1>3. e \in g .. n /\ Count(j, g, c) = e - g
  <2>1. e = Lower(n, g + c) /\ Count(j, g, c) = Lower(c, n - g)
    BY <1>1 DEF End, Count
  <2> HIDE DEF n, e
  <2> QED
    BY <1>2, <2>1, EndIs
<1>4. y \in Seq(Seq(Bytes)) /\ Len(y) = n
  BY <1>1, CharsAre
<1> HIDE DEF n, e, y
<1>5. SubSeq(y, g + 1, e) \in Seq(Seq(Bytes)) /\ Len(SubSeq(y, g + 1, e)) = e - g
  <2>1. e \in Nat /\ g <= e /\ e <= Len(y)
    BY <1>2, <1>3, <1>4
  <2> QED
    BY <1>2, <1>4, <2>1, Slice
<1>6. SubSeq(y, g + 1, e) = <<>> <=> e - g = 0
  BY <1>5, EmptySeq
<1> QED
  BY <1>3, <1>6 DEF From, e, y

LEMMA OnCharacters ==
  ASSUME NEW a, NEW u, NEW i, Cached(a, u, i), NEW b, NEW w, NEW j, Cached(b, w, j),
         NEW g \in 0 .. Len(w) - 1, NEW c \in Nat, NEW part, part = From(Chars(b), g, End(w, g, c))
  PROVE  AsCharacters(a, i, b, j, g, c, part)
<1> DEFINE e == End(w, g, c)
           x == w[g + 1]
           y == w[e + 1]
           s == From(b, x, y)
<1>1. a \in Seq(Bytes) /\ Marks(a, u) /\ b \in Seq(Bytes) /\ Marks(b, w)
  BY DEF Cached
<1>2. /\ e \in g .. Len(w) - 1 /\ j.at[g + 1] = x /\ Part(j, g, c) = y - x
      /\ x \in Nat /\ y \in Nat /\ x <= y /\ y <= Len(b)
  <2>1. /\ End(w, g, c) \in g .. Len(w) - 1
        /\ j.at[g + 1] = w[g + 1]
        /\ Part(j, g, c) = w[End(w, g, c) + 1] - w[g + 1]
        /\ w[g + 1] \in Nat /\ w[End(w, g, c) + 1] \in Nat
        /\ w[g + 1] <= w[End(w, g, c) + 1] /\ w[End(w, g, c) + 1] <= Len(b)
    BY PartIs DEF BetweenMarks
  <2> QED
    BY <2>1, Zenon
<1>3. s \in Seq(Bytes) /\ WellFormed(s) /\ Chars(s) = part
  <2> HIDE DEF e
  <2>1. /\ From(b, w[g + 1], w[e + 1]) \in Seq(Bytes)
        /\ WellFormed(From(b, w[g + 1], w[e + 1]))
        /\ Chars(From(b, w[g + 1], w[e + 1])) = From(Chars(b), g, e)
    BY <1>1, <1>2, PieceChars
  <2> QED
    BY <2>1 DEF e
<1>4. /\ tail_of(b, x, y - x) = s
      /\ substr(b, x, y - x, Nul) = s
      /\ SubSeq(b, x + 1, Lower(Len(b), x + (y - x))) = s
  <2>1. x = w[g + 1] /\ s = From(b, x, y)
    OBVIOUS
  <2>2. g \in 0 .. Len(w) - 1
    BY <1>2
  <2> HIDE DEF x, y, s, e
  <2>3. /\ tail_of(b, x, y - x) = From(b, x, y)
        /\ substr(b, x, y - x, Nul) = From(b, x, y)
        /\ SubSeq(b, x + 1, Lower(Len(b), x + (y - x))) = From(b, x, y)
    <3>1. b \in Seq(Bytes) /\ Marks(b, w) /\ x \in Nat /\ y \in Nat /\ x <= y /\ y <= Len(b)
      BY <1>1, <1>2
    <3> QED
      BY <2>1, <2>2, <3>1, PartTaken
  <2> QED
    BY <2>1, <2>3
<1> HIDE DEF e, x, y, s
<1>5. Chars(Appended(a, b, j, g, c)) = Chars(a) \o part
  <2>1. WellFormed(a)
    BY <1>1, MarksAreWalk
  <2>2. Appended(a, b, j, g, c) = a \o s
    BY <1>2, <1>4 DEF Appended
  <2> QED
    BY <1>1, <1>3, <2>1, <2>2, ConcatChars
<1>6. u8_iterator(b, g) = j.at[g + 1]
  BY <1>1, IteratorIs DEF Cached
<1>7. Chars(Cut(b, j, g, c)) = Erased(Chars(b), g, c)
  BY CutChars
<1>8. Chars(substr(b, j.at[g + 1], Part(j, g, c), Nul)) = part
  BY <1>2, <1>3, <1>4
<1>9. ASSUME NEW q \in 0 .. Len(u) - 1
      PROVE  Chars(Inserted(a, i, q, b, j, g, c, Nul)) = Insert(Chars(a), q, part)
  <2>1. Inserted(a, i, q, b, j, g, c, Nul) = Insert(a, u[q + 1], s)
    BY <1>2, <1>4 DEF Inserted, Cached
  <2>2. Chars(Insert(a, u[q + 1], s)) = Insert(Chars(a), q, Chars(s))
    BY <1>1, <1>3, InsertChars
  <2> QED
    BY <1>3, <2>1, <2>2
<1>10. ASSUME NEW q \in 0 .. Len(u) - 1, NEW d \in Nat
       PROVE  Chars(Exchanged(a, i, q, d, b, j, g, c)) =
                  IF part = <<>> THEN Chars(a) ELSE Replaced(Chars(a), q, d, part)
  <2>1. Count(j, g, c) = 0 <=> part = <<>>
    BY PartEmpty
  <2>2. CASE part = <<>>
    BY <2>1, <2>2 DEF Exchanged
  <2>3. CASE part # <<>>
    <3>1. Exchanged(a, i, q, d, b, j, g, c) = Replaced(a, i.at[q + 1], Part(i, q, d), s)
      BY <1>2, <1>4, <2>1, <2>3 DEF Exchanged
    <3>2. Chars(Replaced(a, i.at[q + 1], Part(i, q, d), s)) = Replaced(Chars(a), q, d, Chars(s))
      BY <1>3, ReplacedChars
    <3> QED
      BY <1>3, <2>3, <3>1, <3>2
  <2> QED
    BY <2>2, <2>3
<1>11. Len(Chars(a)) = Len(u) - 1 /\ Len(u) \in Nat
  <2>1. Len(Chars(a)) = Len(u) - 1
    BY <1>1, CharsAre
  <2>2. Len(u) \in Nat
    BY <1>1 DEF Marks
  <2> QED
    BY <2>1, <2>2
<1>12. (\A q \in 0 .. Len(Chars(a)) : q \in 0 .. Len(u) - 1) /\ \A d \in 0 .. Len(Chars(a)) + 1 : d \in Nat
  BY <1>11
<1> QED
  BY <1>5, <1>6, <1>7, <1>8, <1>9, <1>10, <1>12 DEF AsCharacters

LEMMA CharactersKept == TInv => ByCharacter
<1> DEFINE Good == {v \in Strings : Alive(v) /\ Right(v) /\ WellFormed(str[v])}
<1> SUFFICES ASSUME TInv, NEW s \in Good, NEW t \in Good,
                    NEW a \in {str[s]}, NEW b \in {str[t]}, NEW i \in {Cache(s)}, NEW j \in {Cache(t)},
                    NEW x \in {Chars(str[s])}, NEW y \in {Chars(str[t])},
                    NEW g \in 0 .. Len(y), NEW c \in 0 .. Len(y) + 1,
                    NEW part \in {SubSeq(y, g + 1, Lower(Len(y), g + c))}
             PROVE  /\ Chars(Appended(a, b, j, g, c)) = x \o part
                    /\ u8_iterator(b, g) = j.at[g + 1]
                    /\ Chars(Cut(b, j, g, c)) = Erased(y, g, c)
                    /\ Chars(substr(b, j.at[g + 1], Part(j, g, c), Nul)) = part
                    /\ \A q \in 0 .. Len(x) :
                        /\ Chars(Inserted(a, i, q, b, j, g, c, Nul)) = Insert(x, q, part)
                        /\ \A d \in 0 .. Len(x) + 1 :
                            Chars(Exchanged(a, i, q, d, b, j, g, c)) =
                                IF part = <<>> THEN x ELSE Replaced(x, q, d, part)
  BY DEF ByCharacter
<1> DEFINE u == Walk(a)
           w == Walk(b)
<1>1. a = str[s] /\ b = str[t] /\ i = Cache(s) /\ j = Cache(t) /\ x = Chars(a) /\ y = Chars(b)
      /\ part = SubSeq(y, g + 1, Lower(Len(y), g + c))
  OBVIOUS
<1>2. Cached(a, u, i) /\ Cached(b, w, j)
  BY <1>1, CachedIs
<1> HIDE DEF u, w
<1>3. Len(y) = Len(w) - 1 /\ Len(w) - 1 \in Nat
  <2>1. b \in Seq(Bytes) /\ Marks(b, w)
    BY <1>2 DEF Cached
  <2>2. Len(Chars(b)) = Len(w) - 1
    BY <2>1, CharsAre
  <2>3. Len(w) \in Nat /\ Len(w) >= 1
    BY <2>1 DEF Marks
  <2> QED
    BY <1>1, <2>2, <2>3
<1>4. part = From(Chars(b), g, End(w, g, c))
  <2>1. part = From(y, g, Lower(Len(y), g + c))
    BY <1>1 DEF From
  <2> QED
    BY <1>1, <1>3, <2>1 DEF End
<1>5. g \in 0 .. Len(w) - 1 /\ c \in Nat
  BY <1>3
<1>6. AsCharacters(a, i, b, j, g, c, part)
  BY <1>2, <1>4, <1>5, OnCharacters
<1> QED
  BY <1>1, <1>6 DEF AsCharacters

\* The u8_ operations, as they find the string and its cache in any reachable
\* state (u8string.h, u8string.cpp: update_(), u8_distance(), tail and part
\* taken by position), do to the characters of well-formed strings with right
\* caches what the operations of the same name do to a sequence; u8_replace()
\* with no characters to put leaves them as they are.
THEOREM ByCharacterHolds == Spec => []ByCharacter
BY TInvHolds, CharactersKept, PTL

-----------------------------------------------------------------------------
(* TextItems *)

qbyte == Quote[1]
ebyte == escape[1]

ItemsTypes ==
    /\ items \in Items /\ separator \in Separators /\ escape \in Escapes
    /\ joined \in 0 .. Len(items) /\ p \in Nat /\ ihead \in Nat
    /\ in_quote \in BOOLEAN /\ finished \in BOOLEAN

OneByte == qbyte \in Byte /\ ebyte \in Byte /\ Quote = <<qbyte>> /\ escape = <<ebyte>>

LEMMA OneByteIs ==
  ASSUME ItemsTypes, OneByteEach
  PROVE  OneByte
<1>1. Quote \in Seq(Byte) /\ escape \in Seq(Byte) /\ Len(Quote) = 1 /\ Len(escape) = 1
  BY TextItemsAssumption DEF ItemsTypes, OneByteEach
<1> QED
  BY <1>1 DEF OneByte, qbyte, ebyte

LEMMA HereOne ==
  ASSUME NEW b \in Seq(Byte), NEW i \in Nat, NEW x
  PROVE  Here(b, i, <<x>>) <=> i < Len(b) /\ b[i + 1] = x
<1>1. Len(<<x>>) = 1 /\ Len(b) \in Nat
  OBVIOUS
<1>2. CASE i < Len(b)
  <2> DEFINE t == SubSeq(b, i + 1, i + 1)
  <2>1. t \in Seq(Byte) /\ Len(t) = 1 /\ t[1] = b[i + 1]
    <3> DEFINE m == i + 1
    <3>1. m \in Int /\ m - m + 1 = 1 /\ m + 1 - 1 = m /\ \A l \in m .. m : b[l] \in Byte
      BY <1>1, <1>2
    <3> HIDE DEF m
    <3>2. /\ SubSeq(b, m, m) \in Seq(Byte)
          /\ Len(SubSeq(b, m, m)) = (IF m <= m THEN m - m + 1 ELSE 0)
          /\ \A l \in 1 .. m - m + 1 : SubSeq(b, m, m)[l] = b[m + l - 1]
      BY <3>1, SubSeqProperties
    <3> QED
      BY <3>1, <3>2 DEF m
  <2>2. Here(b, i, <<x>>) <=> i + 1 <= Len(b) /\ t = <<x>>
    BY <1>1 DEF Here
  <2> HIDE DEF t
  <2>3. t = <<x>> <=> b[i + 1] = x
    BY <2>1
  <2> QED
    BY <1>1, <1>2, <2>2, <2>3
<1>3. CASE ~(i < Len(b))
  BY <1>1, <1>3 DEF Here
<1> QED
  BY <1>2, <1>3

LEMMA HereTwo ==
  ASSUME NEW b \in Seq(Byte), NEW i \in Nat, NEW x, NEW y
  PROVE  Here(b, i, <<x, y>>) <=> i + 2 <= Len(b) /\ b[i + 1] = x /\ b[i + 2] = y
<1>1. Len(<<x, y>>) = 2 /\ Len(b) \in Nat
  OBVIOUS
<1>2. CASE i + 2 <= Len(b)
  <2> DEFINE t == SubSeq(b, i + 1, i + 2)
  <2>1. t \in Seq(Byte) /\ Len(t) = 2 /\ t[1] = b[i + 1] /\ t[2] = b[i + 2]
    <3> DEFINE m == i + 1
               k == i + 2
    <3>1. m \in Int /\ k \in Int /\ k - m + 1 = 2 /\ m <= k /\ \A l \in m .. k : b[l] \in Byte
      BY <1>1, <1>2
    <3>2. m + 1 - 1 = m /\ m + 2 - 1 = k
      BY <3>1
    <3> HIDE DEF m, k
    <3>3. /\ SubSeq(b, m, k) \in Seq(Byte)
          /\ Len(SubSeq(b, m, k)) = (IF m <= k THEN k - m + 1 ELSE 0)
          /\ \A l \in 1 .. k - m + 1 : SubSeq(b, m, k)[l] = b[m + l - 1]
      BY <3>1, SubSeqProperties
    <3>4. SubSeq(b, m, k)[1] = b[m] /\ SubSeq(b, m, k)[2] = b[k]
      BY <3>1, <3>2, <3>3
    <3> QED
      BY <3>1, <3>3, <3>4 DEF m, k
  <2>2. Here(b, i, <<x, y>>) <=> i + 2 <= Len(b) /\ t = <<x, y>>
    BY <1>1 DEF Here
  <2> HIDE DEF t
  <2>3. t = <<x, y>> <=> b[i + 1] = x /\ b[i + 2] = y
    BY <2>1
  <2> QED
    BY <1>1, <1>2, <2>2, <2>3
<1>3. CASE ~(i + 2 <= Len(b))
  BY <1>1, <1>3 DEF Here
<1> QED
  BY <1>2, <1>3

LEMMA TwoBytes == ASSUME NEW x, NEW y PROVE <<x>> \o <<y>> = <<x, y>>
<1> DEFINE s == <<x>>
           t == <<y>>
           S == {x, y}
<1>1. s \in Seq(S) /\ t \in Seq(S) /\ Len(s) = 1 /\ Len(t) = 1 /\ s[1] = x /\ t[1] = y
  OBVIOUS
<1> HIDE DEF s, t, S
<1>2. /\ s \o t \in Seq(S) /\ Len(s \o t) = Len(s) + Len(t)
      /\ \A i \in 1 .. Len(s) + Len(t) : (s \o t)[i] = IF i <= Len(s) THEN s[i] ELSE t[i - Len(s)]
  BY <1>1, ConcatProperties
<1>3. Len(s \o t) = 2 /\ (s \o t)[1] = x /\ (s \o t)[2] = y
  BY <1>1, <1>2
<1>4. s \o t = <<x, y>>
  <2> DEFINE u == s \o t
  <2>1. u \in Seq(S) /\ Len(u) = 2 /\ u[1] = x /\ u[2] = y
    BY <1>2, <1>3
  <2> HIDE DEF u
  <2>2. u = <<x, y>>
    BY <2>1
  <2> QED
    BY <2>2 DEF u
<1> QED
  BY <1>4 DEF s, t

\* What quote() makes of a byte
Code(x) == IF x = qbyte THEN <<ebyte, qbyte>> ELSE <<x>>

LEMMA Codes ==
  ASSUME OneByte, NEW x \in Byte, NEW t \in Seq(Byte)
  PROVE  /\ escape \o Quote = <<ebyte, qbyte>>
         /\ Code(x) \in Seq(Byte) /\ Len(Code(x)) = IF x = qbyte THEN 2 ELSE 1
         /\ Code(x) \o t \in Seq(Byte) /\ Len(Code(x) \o t) = Len(Code(x)) + Len(t)
         /\ IF x = qbyte THEN (Code(x) \o t)[1] = ebyte /\ (Code(x) \o t)[2] = qbyte ELSE (Code(x) \o t)[1] = x
         /\ \A i \in 1 .. Len(t) : (Code(x) \o t)[Len(Code(x)) + i] = t[i]
<1>1. escape \o Quote = <<ebyte, qbyte>>
  BY TwoBytes DEF OneByte
<1>2. Code(x) \in Seq(Byte) /\ Len(Code(x)) = (IF x = qbyte THEN 2 ELSE 1)
      /\ IF x = qbyte THEN Code(x)[1] = ebyte /\ Code(x)[2] = qbyte ELSE Code(x)[1] = x
  BY DEF OneByte, Code
<1> DEFINE s == Code(x)
<1> HIDE DEF s
<1>6. s \in Seq(Byte) /\ Len(s) \in Nat /\ Len(t) \in Nat
  BY <1>2 DEF s
<1>3. /\ s \o t \in Seq(Byte) /\ Len(s \o t) = Len(s) + Len(t) /\ Len(s) \in Nat /\ Len(t) \in Nat
      /\ \A i \in 1 .. Len(s) + Len(t) : (s \o t)[i] = IF i <= Len(s) THEN s[i] ELSE t[i - Len(s)]
  BY <1>6, ConcatProperties
<1>4. ASSUME NEW i \in 1 .. Len(t) PROVE (s \o t)[Len(s) + i] = t[i]
  <2>1. Len(s) + i \in 1 .. Len(s) + Len(t) /\ ~ (Len(s) + i <= Len(s)) /\ (Len(s) + i) - Len(s) = i
    BY <1>3
  <2> QED
    BY <1>3, <2>1
<1>5. IF x = qbyte THEN (s \o t)[1] = ebyte /\ (s \o t)[2] = qbyte ELSE (s \o t)[1] = x
  BY <1>2, <1>3 DEF s
<1> QED
  BY <1>1, <1>2, <1>3, <1>4, <1>5 DEF s

\* The end of a quoted text from each byte on
QFrom(b) ==
    CHOOSE from : from = [i \in 0 .. Len(b) |->
        IF i = Len(b) THEN Quote
        ELSE IF Here(b, i, Quote) THEN escape \o Quote \o from[i + Len(Quote)]
        ELSE <<b[i + 1]>> \o from[i + 1]]

LEMMA QFromIs ==
  ASSUME OneByte, NEW b \in Seq(Byte)
  PROVE  /\ \A i \in 0 .. Len(b) : QFrom(b)[i] \in Seq(Byte)
         /\ QFrom(b)[Len(b)] = <<qbyte>>
         /\ \A i \in 1 .. Len(b) : QFrom(b)[i - 1] = Code(b[i]) \o QFrom(b)[i]
         /\ quote(b) = <<qbyte>> \o QFrom(b)[0]
<1> DEFINE n == Len(b)
           D == 0 .. n
           S == Seq(Byte)
           step == [m \in 1 .. n |-> [x \in S |-> Code(b[n - m + 1]) \o x]]
           Rec(f) == [i \in D |->
                         IF i = n THEN Quote
                         ELSE IF Here(b, i, Quote) THEN escape \o Quote \o f[i + Len(Quote)]
                         ELSE <<b[i + 1]>> \o f[i + 1]]
           F == QFrom(b)
<1>1. n \in Nat /\ \A i \in 1 .. n : b[i] \in Byte
  OBVIOUS
<1>2. <<qbyte>> \in S /\ Len(Quote) = 1
  BY DEF OneByte
<1>3. F = CHOOSE f : f = Rec(f)
  BY DEF QFrom
<1>4. quote(b) = Quote \o F[0]
  BY DEF quote, QFrom
<1> HIDE DEF F, n
<1>5. \A m \in 1 .. n : n - m + 1 \in 1 .. n
  BY <1>1
<1>6. \A m \in 1 .. n, x \in S : step[m][x] = Code(b[n - m + 1]) \o x /\ step[m][x] \in S
  BY <1>1, <1>5, Codes
<1>7. step \in [1 .. n -> [S -> S]]
  <2>1. \A m \in 1 .. n, x \in S : Code(b[n - m + 1]) \o x \in S
    BY <1>1, <1>5, Codes
  <2> QED
    BY <2>1
<1> HIDE DEF step
<1>8. PICK g : g \in [D -> S] /\ g[0] = <<qbyte>> /\ \A m \in 1 .. n : g[m] = step[m][g[m - 1]]
  <2> HIDE DEF S
  <2>1. \E g : Goes(g, n, S, <<qbyte>>, step)
    BY <1>1, <1>2, <1>7, FunctionByStep
  <2> QED
    BY <2>1 DEF Goes
<1> DEFINE f == [i \in D |-> g[n - i]]
<1>9. \A i \in D : n - i \in D /\ f[i] = g[n - i] /\ f[i] \in S
  BY <1>1, <1>8
<1>10. f[n] = Quote
  <2>1. n \in D /\ n - n = 0
    BY <1>1
  <2> QED
    BY <1>8, <1>9, <2>1 DEF OneByte
<1>11. ASSUME NEW i \in D, i # n
       PROVE  f[i] = Code(b[i + 1]) \o f[i + 1] /\ i + 1 \in D /\ i + 1 \in 1 .. n /\ i \in Nat
  <2> DEFINE m == n - i
  <2>1. /\ m \in 1 .. n /\ n - m + 1 = i + 1 /\ m - 1 = n - (i + 1) /\ i + 1 \in D /\ m - 1 \in D
        /\ i + 1 \in 1 .. n /\ i \in Nat
    BY <1>1, <1>11
  <2>2. f[i] = g[m] /\ f[i + 1] = g[m - 1] /\ g[m - 1] \in S
    BY <1>8, <1>9, <2>1
  <2>3. g[m] = step[m][g[m - 1]]
    BY <1>8, <2>1
  <2> HIDE DEF f, m
  <2>4. g[m] = Code(b[i + 1]) \o g[m - 1]
    BY <1>6, <2>1, <2>2, <2>3
  <2> QED
    BY <2>1, <2>2, <2>4
<1> HIDE DEF f
<1>12. ASSUME NEW h, NEW i \in D, i # n, i + 1 \in 1 .. n
       PROVE  Rec(h)[i] = Code(b[i + 1]) \o h[i + 1]
  <2>1. Here(b, i, Quote) <=> b[i + 1] = qbyte
    <3>1. i \in Nat /\ i < Len(b)
      BY <1>1, <1>12 DEF n
    <3> QED
      BY <3>1, HereOne DEF OneByte
  <2>2. Rec(h)[i] = IF b[i + 1] = qbyte THEN escape \o Quote \o h[i + 1] ELSE <<b[i + 1]>> \o h[i + 1]
    BY <1>2, <1>12, <2>1
  <2>3. escape \o Quote = <<ebyte, qbyte>>
    BY TwoBytes DEF OneByte
  <2> QED
    BY <2>2, <2>3 DEF Code
<1>13. f = Rec(f)
  <2>1. ASSUME NEW i \in D PROVE f[i] = Rec(f)[i]
    <3>1. CASE i = n
      BY <1>10, <3>1
    <3>2. CASE i # n
      BY <1>11, <1>12, <3>2
    <3> QED
      BY <3>1, <3>2
  <2> HIDE DEF Rec
  <2>2. f = [i \in D |-> f[i]] /\ Rec(f) = [i \in D |-> Rec(f)[i]]
    BY DEF f, Rec
  <2> QED
    BY <2>1, <2>2
<1> HIDE DEF Rec
<1>14. F = Rec(F)
  BY <1>3, <1>13
<1>15. F[n] = <<qbyte>>
  <2>1. n \in D
    BY <1>1
  <2>2. Rec(F)[n] = Quote
    BY <2>1 DEF Rec
  <2> QED
    BY <1>14, <2>2 DEF OneByte
<1>16. ASSUME NEW i \in 1 .. n PROVE F[i - 1] = Code(b[i]) \o F[i]
  <2> DEFINE h == i - 1
  <2>1. h \in D /\ h # n /\ h + 1 \in 1 .. n /\ h + 1 = i
    BY <1>1
  <2> HIDE DEF h
  <2>2. F[h] = Code(b[h + 1]) \o F[h + 1]
    BY <1>12, <1>14, <2>1
  <2> QED
    BY <2>1, <2>2 DEF h
<1>17. ASSUME NEW i \in D PROVE F[i] \in S
  <2> DEFINE T == {m \in D : F[n - m] \in S}
  <2>1. 0 \in T
    <3>1. n - 0 = n /\ 0 \in D
      BY <1>1
    <3> QED
      BY <1>2, <1>15, <3>1
  <2>2. ASSUME NEW m \in 1 .. n, m - 1 \in T PROVE m \in T
    <3> DEFINE k == n - m + 1
    <3>1. k \in 1 .. n /\ k - 1 = n - m /\ k = n - (m - 1) /\ m \in D
      BY <1>1
    <3>2. F[k] \in S
      BY <2>2, <3>1
    <3> HIDE DEF k
    <3>3. F[k - 1] = Code(b[k]) \o F[k] /\ b[k] \in Byte
      BY <1>1, <1>16, <3>1
    <3>4. F[k - 1] \in S
      BY <3>2, <3>3, Codes
    <3> QED
      BY <3>1, <3>4
  <2> HIDE DEF T
  <2> DEFINE m == n - i
  <2>3. m \in 0 .. n /\ n - m = i
    BY <1>1
  <2> HIDE DEF m
  <2>4. \A j \in 1 .. m : j - 1 \in T => j \in T
    BY <1>1, <2>2, <2>3
  <2>5. m \in T
    BY <1>1, <2>1, <2>3, <2>4, UpTo
  <2> QED
    BY <2>3, <2>5 DEF T
<1> QED
  BY <1>1, <1>4, <1>15, <1>16, <1>17 DEF OneByte, F, n

\* Where the code of the byte after the j-th begins, the opening quote aside
Offsets(b) == [j \in 0 .. Len(b) |-> Len(QFrom(b)[0]) - Len(QFrom(b)[j])]

\* A text written from place s of a line on, in quotes: o says where its bytes are
WrittenAt(text, s, b, o) ==
    /\ o \in [0 .. Len(b) -> Nat] /\ o[0] = 0
    /\ \A j \in 0 .. Len(b) : o[j] <= o[Len(b)]
    /\ \A j \in 1 .. Len(b) :
          IF b[j] = qbyte
          THEN o[j] = o[j - 1] + 2 /\ text[s + o[j - 1] + 2] = ebyte /\ text[s + o[j - 1] + 3] = qbyte
          ELSE o[j] = o[j - 1] + 1 /\ text[s + o[j - 1] + 2] = b[j]
    /\ text[s + 1] = qbyte /\ text[s + o[Len(b)] + 2] = qbyte

LEMMA QuotedAs ==
  ASSUME OneByte, NEW b \in Seq(Byte)
  PROVE  /\ quote(b) \in Seq(Byte) /\ Len(quote(b)) = Offsets(b)[Len(b)] + 2
         /\ WrittenAt(quote(b), 0, b, Offsets(b))
<1> DEFINE n == Len(b)
           F == QFrom(b)
           o == Offsets(b)
           c == quote(b)
           L(j) == Len(F[j])
           N == L(0)
<1>1. n \in Nat /\ (\A i \in 1 .. n : b[i] \in Byte) /\ \A j \in 0 .. n : o[j] = N - L(j)
  BY DEF Offsets
<1>2. /\ \A i \in 0 .. n : F[i] \in Seq(Byte)
      /\ F[n] = <<qbyte>>
      /\ \A i \in 1 .. n : F[i - 1] = Code(b[i]) \o F[i]
      /\ c = <<qbyte>> \o F[0]
  BY QFromIs
<1>3. o = [j \in 0 .. n |-> o[j]]
  BY DEF Offsets
<1> HIDE DEF F, o, c, n
<1>6. \A j \in 0 .. n : L(j) \in Nat
  BY <1>2
<1>5. L(n) = 1 /\ F[n][1] = qbyte
  BY <1>2
<1> DEFINE len(i) == IF b[i] = qbyte THEN 2 ELSE 1
<1>4. ASSUME NEW i \in 1 .. n
      PROVE  /\ L(i) \in Nat /\ L(i - 1) = L(i) + len(i)
             /\ IF b[i] = qbyte THEN F[i - 1][1] = ebyte /\ F[i - 1][2] = qbyte ELSE F[i - 1][1] = b[i]
             /\ \A x \in 1 .. L(i) : F[i - 1][len(i) + x] = F[i][x]
  <2> DEFINE t == F[i]
             a == b[i]
  <2>1. i \in 0 .. n /\ a \in Byte
    BY <1>1
  <2>2. t \in Seq(Byte) /\ F[i - 1] = Code(a) \o t /\ Len(t) \in Nat
    <3>1. F[i] \in Seq(Byte)
      BY <1>2, <2>1
    <3>2. F[i - 1] = Code(b[i]) \o F[i]
      BY <1>2
    <3> HIDE DEF L
    <3> QED
      BY <3>1, <3>2
  <2>8. L(i - 1) = Len(Code(a) \o t) /\ L(i) = Len(t)
    BY <2>2
  <2> HIDE DEF t, a, L
  <2>3. /\ Len(Code(a)) = IF a = qbyte THEN 2 ELSE 1
        /\ Len(Code(a) \o t) = Len(Code(a)) + Len(t)
        /\ IF a = qbyte THEN (Code(a) \o t)[1] = ebyte /\ (Code(a) \o t)[2] = qbyte ELSE (Code(a) \o t)[1] = a
        /\ \A x \in 1 .. Len(t) : (Code(a) \o t)[Len(Code(a)) + x] = t[x]
    BY <2>1, <2>2, Codes
  <2>4. Len(Code(a)) = len(i)
    BY <2>3 DEF a
  <2>9. len(i) \in Nat /\ L(i) \in Nat
    BY <2>2, <2>8
  <2>5. L(i - 1) = L(i) + len(i) /\ L(i) \in Nat
    <3>1. L(i - 1) = Len(Code(a)) + Len(t)
      BY <2>3, <2>8
    <3> HIDE DEF len
    <3>2. L(i - 1) = len(i) + L(i)
      BY <2>4, <2>8, <3>1
    <3> QED
      BY <2>9, <3>2
  <2>6. \A x \in 1 .. L(i) : F[i - 1][len(i) + x] = t[x]
    BY <2>2, <2>3, <2>4, <2>8
  <2>7. IF a = qbyte THEN F[i - 1][1] = ebyte /\ F[i - 1][2] = qbyte ELSE F[i - 1][1] = a
    BY <2>2, <2>3
  <2> HIDE DEF len
  <2> QED
    BY <2>2, <2>5, <2>6, <2>7 DEF t, a
<1> HIDE DEF L
\* Each remainder is the end of the first.
<1> DEFINE Ends(j) == L(j) >= 1 /\ L(j) <= N /\ \A x \in 1 .. L(j) : F[0][o[j] + x] = F[j][x]
<1>7. ASSUME NEW i \in 1 .. n
      PROVE  o[i] = o[i - 1] + len(i) /\ i \in 0 .. n /\ i - 1 \in 0 .. n
  BY <1>1, <1>4, <1>6
<1>8. ASSUME NEW j \in 0 .. n PROVE L(j) >= 1
  <2>1. CASE j = n
    BY <1>5, <2>1
  <2>2. CASE j # n
    <3> DEFINE i == j + 1
    <3>1. i \in 1 .. n /\ i - 1 = j
      BY <1>1, <2>2
    <3> HIDE DEF i
    <3>2. L(i) \in Nat /\ L(i - 1) = L(i) + len(i)
      BY <1>4, <3>1
    <3> QED
      BY <3>1, <3>2
  <2> QED
    BY <2>1, <2>2
<1>9. ASSUME NEW j \in 0 .. n PROVE Ends(j)
  <2> DEFINE T == {i \in 0 .. n : Ends(i)}
  <2>1. 0 \in T
    <3>1. 0 \in 0 .. n /\ L(0) >= 1 /\ N = L(0) /\ N \in Nat /\ o[0] = N - L(0)
      BY <1>1, <1>6, <1>8
    <3>2. o[0] = 0
      BY <3>1
    <3>3. \A x \in 1 .. L(0) : o[0] + x = x
      BY <3>2
    <3> QED
      BY <3>1, <3>3
  <2>2. ASSUME NEW i \in 1 .. n, i - 1 \in T PROVE i \in T
    <3>1. /\ L(i) \in Nat /\ L(i - 1) = L(i) + len(i) /\ o[i] = o[i - 1] + len(i)
          /\ i \in 0 .. n /\ i - 1 \in 0 .. n
          /\ \A x \in 1 .. L(i) : F[i - 1][len(i) + x] = F[i][x]
      BY <1>4, <1>7
    <3>2. L(i - 1) <= N /\ \A x \in 1 .. L(i - 1) : F[0][o[i - 1] + x] = F[i - 1][x]
      BY <2>2
    <3>3. L(i) >= 1 /\ L(i) <= N
      <4> DEFINE l == L(i)
      <4>1. l \in Nat /\ len(i) \in Nat /\ N \in Nat /\ l + len(i) <= N
        BY <1>6, <1>1, <3>1, <3>2
      <4>2. l >= 1
        BY <1>8, <3>1
      <4> HIDE DEF l
      <4>3. l <= N
        BY <4>1
      <4> QED
        BY <4>2, <4>3 DEF l
    <3>4. ASSUME NEW x \in 1 .. L(i) PROVE F[0][o[i] + x] = F[i][x]
      <4> DEFINE y == len(i) + x
      <4>1. o[i - 1] \in Int
        BY <1>1, <1>6, <3>1
      <4>2. y \in 1 .. L(i - 1) /\ o[i - 1] + y = o[i] + x
        <5> DEFINE l == L(i)
                   m == L(i - 1)
                   k == o[i - 1]
                   h == o[i]
                   d == len(i)
        <5>1. l \in Nat /\ d \in Nat /\ m = l + d /\ h = k + d /\ k \in Int /\ x \in 1 .. l /\ y = d + x
          BY <3>1, <4>1
        <5> HIDE DEF l, m, k, h, d, y
        <5>2. y \in 1 .. m /\ k + y = h + x
          BY <5>1
        <5> QED
          BY <5>2 DEF m, k, h
      <4>3. F[i - 1][y] = F[i][x]
        BY <3>1
      <4> HIDE DEF y, len
      <4>4. F[0][o[i - 1] + y] = F[i - 1][y]
        BY <3>2, <4>2
      <4> QED
        BY <4>2, <4>3, <4>4
    <3> QED
      BY <3>1, <3>3, <3>4
  <2> HIDE DEF T
  <2>3. \A i \in 1 .. j : i - 1 \in T => i \in T
    BY <1>1, <2>2
  <2>4. j \in Nat
    BY <1>1
  <2>5. j \in T
    BY <2>1, <2>3, <2>4, UpTo
  <2> QED
    BY <2>5 DEF T
<1>10. 0 \in 0 .. n /\ n \in 0 .. n /\ N \in Nat
  BY <1>1, <1>6
<1>11. \A j \in 0 .. n : o[j] \in Nat /\ o[j] <= N - 1 /\ o[n] = N - 1
  BY <1>1, <1>5, <1>6, <1>9, <1>10
<1>12. o[0] = 0
  BY <1>1, <1>10
\* The quoted text is an opening quote and the first remainder.
<1>13. c \in Seq(Byte) /\ Len(c) = N + 1 /\ c[1] = qbyte /\ \A x \in 1 .. N : c[x + 1] = F[0][x]
  <2> DEFINE s == <<qbyte>>
             t == F[0]
  <2>1. s \in Seq(Byte) /\ Len(s) = 1 /\ s[1] = qbyte /\ t \in Seq(Byte) /\ Len(t) = N
    BY <1>2, <1>10 DEF OneByte, L
  <2>2. c = s \o t
    BY <1>2
  <2> HIDE DEF s, t
  <2>3. /\ s \o t \in Seq(Byte) /\ Len(s \o t) = Len(s) + Len(t)
        /\ \A i \in 1 .. Len(s) + Len(t) : (s \o t)[i] = IF i <= Len(s) THEN s[i] ELSE t[i - Len(s)]
    BY <2>1, ConcatProperties
  <2>4. ASSUME NEW x \in 1 .. N PROVE c[x + 1] = t[x]
    <3>1. x + 1 \in 1 .. Len(s) + Len(t) /\ ~ (x + 1 <= Len(s)) /\ (x + 1) - Len(s) = x
      BY <1>10, <2>1
    <3> QED
      BY <2>2, <2>3, <3>1
  <2>5. Len(c) = N + 1 /\ c[1] = qbyte
    BY <1>10, <2>1, <2>2, <2>3
  <2> QED
    BY <2>2, <2>3, <2>4, <2>5 DEF t
<1>14. ASSUME NEW j \in 0 .. n, NEW x \in 1 .. L(j) PROVE c[0 + o[j] + x + 1] = F[j][x]
  <2> DEFINE y == o[j] + x
  <2>1. F[0][y] = F[j][x]
    BY <1>9
  <2>2. y \in 1 .. N /\ y + 1 = 0 + o[j] + x + 1
    BY <1>1, <1>6, <1>9, <1>10, <1>11
  <2> HIDE DEF y
  <2> QED
    BY <1>13, <2>1, <2>2
<1>15. ASSUME NEW j \in 1 .. n
       PROVE  IF b[j] = qbyte
              THEN o[j] = o[j - 1] + 2 /\ c[0 + o[j - 1] + 2] = ebyte /\ c[0 + o[j - 1] + 3] = qbyte
              ELSE o[j] = o[j - 1] + 1 /\ c[0 + o[j - 1] + 2] = b[j]
  <2> DEFINE h == j - 1
  <2>1. h \in 0 .. n /\ o[h] \in Nat /\ o[j] = o[h] + len(j)
    BY <1>7, <1>11
  <2>2. /\ L(h) = L(j) + len(j) /\ L(j) >= 1 /\ L(j) \in Nat
        /\ IF b[j] = qbyte THEN F[h][1] = ebyte /\ F[h][2] = qbyte ELSE F[h][1] = b[j]
    BY <1>4, <1>7, <1>8
  <2>3. 1 \in 1 .. L(h) /\ 2 \in 1 .. L(h)
    BY <2>2
  <2> HIDE DEF h
  <2>4. c[0 + o[h] + 1 + 1] = F[h][1] /\ c[0 + o[h] + 2 + 1] = F[h][2]
    BY <1>14, <2>1, <2>3
  <2>5. 0 + o[h] + 1 + 1 = 0 + o[h] + 2 /\ 0 + o[h] + 2 + 1 = 0 + o[h] + 3
    BY <2>1
  <2>6. IF b[j] = qbyte
        THEN o[j] = o[h] + 2 /\ c[0 + o[h] + 2] = ebyte /\ c[0 + o[h] + 3] = qbyte
        ELSE o[j] = o[h] + 1 /\ c[0 + o[h] + 2] = b[j]
    BY <2>1, <2>2, <2>4, <2>5
  <2> QED
    BY <2>6 DEF h
<1>16. c[0 + 1] = qbyte /\ c[0 + o[n] + 2] = qbyte
  <2>1. c[0 + o[n] + 1 + 1] = F[n][1]
    <3>1. 1 \in 1 .. L(n)
      BY <1>5
    <3> QED
      BY <1>10, <1>14, <3>1
  <2>2. 0 + o[n] + 1 + 1 = 0 + o[n] + 2
    BY <1>10, <1>11
  <2>3. c[0 + 1] = qbyte
    BY <1>13
  <2> QED
    BY <1>5, <2>1, <2>2, <2>3
<1>17. o \in [0 .. n -> Nat] /\ \A j \in 0 .. n : o[j] <= o[n]
  <2>1. \A j \in 0 .. n : o[j] \in Nat
    BY <1>11
  <2>2. o \in [0 .. n -> Nat]
    BY <1>3, <2>1
  <2>3. \A j \in 0 .. n : o[j] <= o[n]
    BY <1>11
  <2> QED
    BY <2>2, <2>3
<1>18. Len(c) = o[n] + 2
  BY <1>10, <1>11, <1>13
<1> QED
  BY <1>12, <1>13, <1>15, <1>16, <1>17, <1>18 DEF WrittenAt, F, o, c, n

LEMMA SliceIs ==
  ASSUME NEW c \in Seq(Byte), NEW text, NEW s \in Nat, \A i \in 1 .. Len(c) : text[s + i] = c[i]
  PROVE  SubSeq(text, s + 1, s + Len(c)) = c
<1> DEFINE m == s + 1
           k == s + Len(c)
           n == Len(c)
<1>1. n \in Nat /\ m \in Int /\ k \in Int /\ k - m + 1 = n /\ (m <= k <=> n >= 1) /\ m = s + 1 /\ k = s + n
  OBVIOUS
<1>2. \A i \in 1 .. n : c[i] \in Byte /\ text[s + i] = c[i]
  OBVIOUS
<1> HIDE DEF m, k, n
<1>3. \A i \in m .. k : text[i] \in Byte
  <2> SUFFICES ASSUME NEW i \in m .. k PROVE text[i] \in Byte
    OBVIOUS
  <2>1. i - s \in 1 .. n /\ s + (i - s) = i
    BY <1>1
  <2> QED
    BY <1>2, <2>1
<1> DEFINE u == SubSeq(text, m, k)
<1>8. m \in Int /\ k \in Int
  BY <1>1
<1>4. /\ SubSeq(text, m, k) \in Seq(Byte) /\ Len(SubSeq(text, m, k)) = (IF m <= k THEN k - m + 1 ELSE 0)
      /\ \A i \in 1 .. k - m + 1 : SubSeq(text, m, k)[i] = text[m + i - 1]
  BY <1>3, <1>8, SubSeqProperties
<1>9. u \in Seq(Byte) /\ Len(u) = (IF m <= k THEN k - m + 1 ELSE 0)
      /\ \A i \in 1 .. k - m + 1 : u[i] = text[m + i - 1]
  BY <1>4
<1> HIDE DEF u
<1>5. Len(u) = n
  BY <1>1, <1>9
<1>6. ASSUME NEW i \in 1 .. n PROVE u[i] = c[i]
  <2>1. m + i - 1 = s + i /\ i \in 1 .. k - m + 1
    BY <1>1
  <2> QED
    BY <1>2, <1>9, <2>1
<1>7. u = c
  BY <1>9, <1>5, <1>6, SeqEqual DEF n
<1> QED
  BY <1>7 DEF u, m, k, n

LEMMA Trimmed ==
  ASSUME NEW c \in Seq(Byte), Len(c) >= 1, c[1] \notin Spaces, c[Len(c)] \notin Spaces
  PROVE  trim_spaces(c) = c
<1> DEFINE n == Len(c)
           text == {i \in DOMAIN c : c[i] \notin Spaces}
<1>1. n \in Nat /\ DOMAIN c = 1 .. n
  OBVIOUS
<1>2. 1 \in text /\ n \in text /\ text \subseteq 1 .. n
  BY <1>1
<1>3. trim_spaces(c) = IF text = {} THEN c ELSE SubSeq(c, Min(text), Max(text))
  BY DEF trim_spaces
<1> HIDE DEF text, n
<1>4. Min(text) = 1
  <2>1. \A i \in text : 1 <= i
    BY <1>1, <1>2
  <2>2. \A x \in text : (\A i \in text : x <= i) => x = 1
    BY <1>1, <1>2
  <2> QED
    BY <1>2, <2>1, <2>2 DEF Min
<1>5. Max(text) = n
  <2>1. \A i \in text : n >= i
    BY <1>1, <1>2
  <2>2. \A x \in text : (\A i \in text : x >= i) => x = n
    BY <1>1, <1>2
  <2> QED
    BY <1>2, <2>1, <2>2 DEF Max
<1>6. SubSeq(c, 0 + 1, 0 + Len(c)) = c
  <2>1. \A i \in 1 .. Len(c) : c[0 + i] = c[i]
    OBVIOUS
  <2>2. 0 \in Nat
    OBVIOUS
  <2> QED
    BY <2>1, <2>2, SliceIs
<1> QED
  BY <1>1, <1>2, <1>3, <1>4, <1>5, <1>6 DEF n

\* What unquote() has still to copy at each byte
UFrom(c) ==
    LET end == Len(c) - Len(Quote)
        quoted == escape \o Quote
    IN CHOOSE from : from = [i \in Nat |->
           IF i + Len(quoted) > end THEN SubSeq(c, i + 1, end)
           ELSE IF Here(c, i, quoted) THEN Quote \o from[i + Len(quoted)]
           ELSE <<c[i + 1]>> \o from[i + 1]]

LEMMA UFromIs ==
  ASSUME OneByte, NEW c \in Seq(Byte), NEW end \in Nat, Len(c) = end + 1
  PROVE  \A i \in 0 .. end :
            UFrom(c)[i] = IF i + 2 > end THEN SubSeq(c, i + 1, end)
                          ELSE IF c[i + 1] = ebyte /\ c[i + 2] = qbyte THEN <<qbyte>> \o UFrom(c)[i + 2]
                          ELSE <<c[i + 1]>> \o UFrom(c)[i + 1]
<1> DEFINE rest(i) == SubSeq(c, i + 1, end)
           one(i, x, y) == IF i + 2 > end THEN rest(i)
                           ELSE IF c[i + 1] = ebyte /\ c[i + 2] = qbyte THEN <<qbyte>> \o y
                           ELSE <<c[i + 1]>> \o x
           Rec(f) == [i \in Nat |-> one(i, f[i + 1], f[i + 2])]
           F == UFrom(c)
<1>1. F = CHOOSE f : f = Rec(f)
  <2>1. Len(c) - Len(Quote) = end /\ escape \o Quote = <<ebyte, qbyte>> /\ Len(<<ebyte, qbyte>>) = 2 /\ Quote = <<qbyte>>
    BY TwoBytes DEF OneByte
  <2>2. F = CHOOSE f : f = [i \in Nat |->
             IF i + 2 > end THEN SubSeq(c, i + 1, end)
             ELSE IF Here(c, i, <<ebyte, qbyte>>) THEN <<qbyte>> \o f[i + 2]
             ELSE <<c[i + 1]>> \o f[i + 1]]
    BY <2>1 DEF UFrom
  <2>3. ASSUME NEW i \in Nat, ~ (i + 2 > end)
        PROVE  Here(c, i, <<ebyte, qbyte>>) <=> c[i + 1] = ebyte /\ c[i + 2] = qbyte
    <3>1. i + 2 <= Len(c)
      BY <2>3
    <3> QED
      BY <3>1, HereTwo
  <2>4. ASSUME NEW f
        PROVE  Rec(f) = [i \in Nat |->
             IF i + 2 > end THEN SubSeq(c, i + 1, end)
             ELSE IF Here(c, i, <<ebyte, qbyte>>) THEN <<qbyte>> \o f[i + 2]
             ELSE <<c[i + 1]>> \o f[i + 1]]
    BY <2>3, Zenon
  <2> QED
    BY <2>2, <2>4
<1> HIDE DEF F
<1> DEFINE S == Seq(Byte)
           P == S \X S
           step == [m \in 1 .. end |-> [x \in P |-> <<one(end - m, x[1], x[2]), x[1]>>]]
<1>2. \A i \in Nat : rest(i) \in S
  <2> SUFFICES ASSUME NEW i \in Nat PROVE rest(i) \in S
    OBVIOUS
  <2>1. i + 1 \in Int /\ \A j \in i + 1 .. end : c[j] \in Byte
    OBVIOUS
  <2> DEFINE m == i + 1
  <2> HIDE DEF m
  <2>2. m \in Int /\ end \in Int /\ \A j \in m .. end : c[j] \in Byte
    BY <2>1 DEF m
  <2>3. SubSeq(c, m, end) \in Seq(Byte)
    BY <2>2, SubSeqProperties
  <2> QED
    BY <2>3 DEF m
<1>3. \A x \in S, a \in Byte : <<a>> \o x \in S
  <2> SUFFICES ASSUME NEW x \in S, NEW a \in Byte PROVE <<a>> \o x \in S
    OBVIOUS
  <2>1. <<a>> \in Seq(Byte)
    OBVIOUS
  <2> QED
    BY <2>1, ConcatProperties
<1>4. \A i \in 0 .. end, x \in S, y \in S : one(i, x, y) \in S
  <2> SUFFICES ASSUME NEW i \in 0 .. end, NEW x \in S, NEW y \in S PROVE one(i, x, y) \in S
    OBVIOUS
  <2>1. ~ (i + 2 > end) => c[i + 1] \in Byte
    OBVIOUS
  <2>2. i \in Nat
    OBVIOUS
  <2> HIDE DEF rest, S
  <2> QED
    BY <1>2, <1>3, <2>1, <2>2 DEF OneByte
<1> HIDE DEF S, one, rest
<1>5. \A m \in 1 .. end, x \in P :
        step[m][x] = <<one(end - m, x[1], x[2]), x[1]>> /\ step[m][x] \in P
  <2> SUFFICES ASSUME NEW m \in 1 .. end, NEW x \in P
               PROVE  step[m][x] = <<one(end - m, x[1], x[2]), x[1]>> /\ step[m][x] \in P
    OBVIOUS
  <2>1. end - m \in 0 .. end /\ x[1] \in S /\ x[2] \in S
    OBVIOUS
  <2>2. one(end - m, x[1], x[2]) \in S
    BY <1>4, <2>1
  <2> QED
    BY <2>1, <2>2
<1>6. step \in [1 .. end -> [P -> P]]
  <2>1. \A m \in 1 .. end, x \in P : <<one(end - m, x[1], x[2]), x[1]>> \in P
    BY <1>5
  <2> QED
    BY <2>1
<1> DEFINE first == <<rest(end), rest(end + 1)>>
<1>7. first \in P
  BY <1>2
<1> HIDE DEF step, first
<1>8. PICK g : g \in [0 .. end -> P] /\ g[0] = first /\ \A m \in 1 .. end : g[m] = step[m][g[m - 1]]
  <2> HIDE DEF P
  <2>1. \E g : Goes(g, end, P, first, step)
    BY <1>6, <1>7, FunctionByStep
  <2> QED
    BY <2>1 DEF Goes
<1> DEFINE f == [i \in Nat |-> IF i <= end THEN g[end - i][1] ELSE rest(i)]
<1>9. \A i \in Nat : f[i] = IF i <= end THEN g[end - i][1] ELSE rest(i)
  OBVIOUS
<1> HIDE DEF f
<1>10. ASSUME NEW m \in 1 .. end
       PROVE  g[m] = <<one(end - m, g[m - 1][1], g[m - 1][2]), g[m - 1][1]>> /\ g[m - 1] \in P /\ g[m] \in P
  <2>1. m - 1 \in 0 .. end /\ m \in 0 .. end
    OBVIOUS
  <2> HIDE DEF P
  <2> QED
    BY <1>5, <1>8, <2>1
\* The second of each pair is the value two bytes on.
<1>11. ASSUME NEW m \in 0 .. end PROVE g[m][2] = f[end - m + 1]
  <2>1. CASE m = 0
    <3>1. g[0][2] = rest(end + 1)
      BY <1>8 DEF first
    <3>2. end - m + 1 = end + 1 /\ end + 1 \in Nat /\ ~ (end + 1 <= end)
      BY <2>1
    <3> QED
      BY <1>9, <2>1, <3>1, <3>2
  <2>2. CASE m # 0
    <3>1. m \in 1 .. end /\ end - m + 1 \in Nat /\ end - m + 1 <= end /\ end - (end - m + 1) = m - 1
      BY <2>2
    <3>2. g[m][2] = g[m - 1][1]
      BY <1>10, <3>1
    <3> QED
      BY <1>9, <3>1, <3>2
  <2> QED
    BY <2>1, <2>2
<1>12. ASSUME NEW i \in Nat PROVE f[i] = Rec(f)[i]
  <2>1. CASE i >= end
    <3>1. f[i] = rest(i)
      <4>1. CASE i = end
        <5>1. i <= end /\ end - i = 0
          BY <4>1
        <5>2. g[0][1] = rest(end)
          BY <1>8 DEF first
        <5> QED
          BY <1>9, <4>1, <5>1, <5>2
      <4>2. CASE i # end
        <5>1. ~ (i <= end)
          BY <2>1, <4>2
        <5> QED
          BY <1>9, <5>1
      <4> QED
        BY <4>1, <4>2
    <3>2. i + 2 > end
      BY <2>1
    <3>3. Rec(f)[i] = rest(i)
      BY <3>2 DEF one
    <3> QED
      BY <3>1, <3>3
  <2>2. CASE i < end
    <3> DEFINE m == end - i
    <3>1. m \in 1 .. end /\ end - m = i /\ m - 1 \in 0 .. end /\ i <= end
          /\ end - (m - 1) + 1 = i + 2 /\ end - (i + 1) = m - 1 /\ i + 1 <= end /\ i + 1 \in Nat
      BY <2>2
    <3>2. f[i] = g[m][1]
      BY <1>9, <3>1
    <3> HIDE DEF m
    <3>3. g[m][1] = one(end - m, g[m - 1][1], g[m - 1][2])
      <4> DEFINE z == one(end - m, g[m - 1][1], g[m - 1][2])
                 y == g[m - 1][1]
      <4>1. g[m] = <<z, y>>
        BY <1>10, <3>1
      <4> HIDE DEF z, y
      <4>2. g[m][1] = z
        BY <4>1
      <4> QED
        BY <4>2 DEF z
    <3>4. g[m - 1][1] = f[i + 1]
      BY <1>9, <3>1
    <3>5. g[m - 1][2] = f[i + 2]
      BY <1>11, <3>1
    <3>6. Rec(f)[i] = one(i, f[i + 1], f[i + 2])
      OBVIOUS
    <3> QED
      BY <3>1, <3>2, <3>3, <3>4, <3>5, <3>6
  <2> QED
    BY <2>1, <2>2
<1>13. f = Rec(f)
  <2>1. f = [i \in Nat |-> f[i]] /\ Rec(f) = [i \in Nat |-> Rec(f)[i]]
    BY DEF f
  <2> HIDE DEF Rec
  <2> QED
    BY <1>12, <2>1
<1> HIDE DEF Rec
<1>14. F = Rec(F)
  BY <1>1, <1>13
<1>15. ASSUME NEW i \in 0 .. end PROVE F[i] = one(i, F[i + 1], F[i + 2])
  <2>1. i \in Nat
    OBVIOUS
  <2>2. Rec(F)[i] = one(i, F[i + 1], F[i + 2])
    BY <2>1 DEF Rec
  <2> QED
    BY <1>14, <2>2
<1> QED
  BY <1>15 DEF F, one, rest

\* The bytes of b after the j-th
RestOf(t, b, j) ==
    t \in Seq(Byte) /\ Len(t) = Len(b) - j /\ \A i \in 1 .. Len(b) - j : t[i] = b[j + i]

LEMMA OneMore ==
  ASSUME NEW b \in Seq(Byte), NEW j \in 1 .. Len(b), NEW t, RestOf(t, b, j)
  PROVE  RestOf(<<b[j]>> \o t, b, j - 1)
<1> DEFINE a == b[j]
           s == <<a>>
           n == Len(b)
<1>1. /\ s \in Seq(Byte) /\ Len(s) = 1 /\ s[1] = a /\ t \in Seq(Byte) /\ Len(t) = n - j
      /\ n \in Nat /\ j \in 1 .. n
  BY DEF RestOf
<1>2. \A i \in 1 .. n - j : t[i] = b[j + i]
  BY DEF RestOf
<1>6. b[j] = a
  OBVIOUS
<1> HIDE DEF a, s, n
<1>3. /\ s \o t \in Seq(Byte) /\ Len(s \o t) = Len(s) + Len(t)
      /\ \A i \in 1 .. Len(s) + Len(t) : (s \o t)[i] = IF i <= Len(s) THEN s[i] ELSE t[i - Len(s)]
  BY <1>1, ConcatProperties
<1> DEFINE u == s \o t
<1>4. u \in Seq(Byte) /\ Len(u) = n - (j - 1)
      /\ \A i \in 1 .. n - (j - 1) : u[i] = IF i <= 1 THEN a ELSE t[i - 1]
  BY <1>1, <1>3
<1> HIDE DEF u
<1>5. ASSUME NEW i \in 1 .. n - (j - 1) PROVE u[i] = b[(j - 1) + i]
  <2>1. CASE i = 1
    <3>1. (j - 1) + i = j
      BY <1>1, <2>1
    <3> QED
      BY <1>4, <1>6, <2>1, <3>1
  <2>2. CASE i # 1
    <3> DEFINE h == i - 1
    <3>1. h \in 1 .. n - j /\ ~ (i <= 1) /\ (j - 1) + i = j + h
      BY <1>1, <2>2
    <3>2. u[i] = t[h]
      BY <1>4, <3>1
    <3> HIDE DEF h
    <3> QED
      BY <1>2, <3>1, <3>2
  <2> QED
    BY <2>1, <2>2
<1>7. RestOf(u, b, j - 1)
  BY <1>4, <1>5 DEF RestOf, n
<1> QED
  BY <1>7 DEF u, s, a

LEMMA Unquoted ==
  ASSUME OneByte, NEW b \in Seq(Byte)
  PROVE  unquote(quote(b)) = b
<1> DEFINE n == Len(b)
           c == quote(b)
           o == Offsets(b)
           end == o[n] + 1
           U == UFrom(c)
<1>1. n \in Nat /\ (\A j \in 1 .. n : b[j] \in Byte) /\ 0 \in 0 .. n /\ n \in 0 .. n
  OBVIOUS
<1>2. c \in Seq(Byte) /\ Len(c) = o[n] + 2 /\ WrittenAt(c, 0, b, o)
  BY QuotedAs
<1>3. o \in [0 .. n -> Nat] /\ o[0] = 0 /\ \A j \in 0 .. n : o[j] <= o[n]
  BY <1>2 DEF WrittenAt
<1>4. /\ \A j \in 1 .. n :
            IF b[j] = qbyte
            THEN o[j] = o[j - 1] + 2 /\ c[0 + o[j - 1] + 2] = ebyte /\ c[0 + o[j - 1] + 3] = qbyte
            ELSE o[j] = o[j - 1] + 1 /\ c[0 + o[j - 1] + 2] = b[j]
      /\ c[0 + 1] = qbyte /\ c[0 + o[n] + 2] = qbyte
  BY <1>2 DEF WrittenAt
<1>5. o[n] \in Nat
  BY <1>1, <1>3
<1> HIDE DEF n, c, o
<1>6. end \in Nat /\ Len(c) = end + 1 /\ end = o[n] + 1
  BY <1>2, <1>5
<1> HIDE DEF end
<1>7. \A i \in 0 .. end :
         U[i] = IF i + 2 > end THEN SubSeq(c, i + 1, end)
                ELSE IF c[i + 1] = ebyte /\ c[i + 2] = qbyte THEN <<qbyte>> \o U[i + 2]
                ELSE <<c[i + 1]>> \o U[i + 1]
  BY <1>2, <1>6, UFromIs
\* c is in quotes, and more than one.
<1>8. unquote(c) = U[1]
  <2>1. Len(c) - Len(Quote) = end /\ Len(Quote) = 1 /\ Quote = <<qbyte>>
    BY <1>6 DEF OneByte
  <2>2. Here(c, 0, Quote)
    <3>1. 0 \in Nat /\ 0 < Len(c) /\ c[0 + 1] = qbyte
      BY <1>4, <1>6
    <3> QED
      BY <1>2, <2>1, <3>1, HereOne
  <2>3. Here(c, end, Quote)
    <3>1. end < Len(c) /\ c[end + 1] = qbyte
      <4>1. end + 1 = 0 + o[n] + 2
        BY <1>5, <1>6
      <4> QED
        BY <1>4, <1>6, <4>1
    <3> QED
      BY <1>2, <1>6, <2>1, <3>1, HereOne
  <2>4. c # Quote /\ ~ (end < 0)
    <3>1. Len(c) > Len(Quote)
      BY <1>5, <1>6, <2>1
    <3>2. Len(c) \in Nat
      BY <1>2
    <3>3. c # Quote
      <4> SUFFICES ASSUME c = Quote PROVE FALSE
        OBVIOUS
      <4>1. Len(c) = 1
        BY <2>1
      <4> QED
        BY <2>1, <3>1, <4>1
    <3> QED
      BY <1>6, <3>3
  <2>5. unquote(c) = IF c = Quote \/ ~Here(c, 0, Quote) \/ Len(c) - Len(Quote) < 0 \/ ~Here(c, Len(c) - Len(Quote), Quote)
                     THEN c ELSE U[Len(Quote)]
    BY DEF unquote, UFrom
  <2> HIDE DEF U
  <2> QED
    BY <2>1, <2>2, <2>3, <2>4, <2>5
<1> HIDE DEF U
<1>9. RestOf(U[1 + o[n]], b, n)
  <2> DEFINE t == SubSeq(c, end + 1, end)
  <2>1. U[1 + o[n]] = t
    <3>1. 1 + o[n] = end /\ end \in 0 .. end /\ end + 2 > end
      BY <1>5, <1>6
    <3> QED
      BY <1>7, <3>1
  <2>2. t = <<>>
    <3>1. end + 1 \in Int /\ end \in Int /\ end < end + 1
      BY <1>6
    <3> QED
      BY <3>1, SubSeqEmpty
  <2>3. RestOf(<<>>, b, n)
    BY <1>1 DEF RestOf, n
  <2> QED
    BY <2>1, <2>2, <2>3
<1>10. ASSUME NEW j \in 1 .. n, RestOf(U[1 + o[j]], b, j)
       PROVE  RestOf(U[1 + o[j - 1]], b, j - 1)
  <2> DEFINE h == j - 1
             i == 1 + o[h]
             t == U[1 + o[j]]
  <2>1. h \in 0 .. n /\ o[h] \in Nat /\ j \in 0 .. n /\ o[j] \in Nat /\ o[j] <= o[n]
    BY <1>1, <1>3
  <2>2. IF b[j] = qbyte
        THEN o[j] = o[h] + 2 /\ c[0 + o[h] + 2] = ebyte /\ c[0 + o[h] + 3] = qbyte
        ELSE o[j] = o[h] + 1 /\ c[0 + o[h] + 2] = b[j]
    BY <1>4
  <2>3. i \in Nat /\ 0 + o[h] + 2 = i + 1 /\ 0 + o[h] + 3 = i + 2
    BY <2>1
  <2>4. RestOf(<<b[j]>> \o t, b, h)
    BY <1>10, OneMore DEF n
  <2>5. t \in Seq(Byte) /\ Len(t) = n - j
    BY <1>10 DEF RestOf, n
  <2>6. j = n => t = <<>>
    <3>1. j = n => Len(t) = 0
      BY <1>1, <2>5
    <3> QED
      BY <2>5, <3>1
  <2>7. U[1 + o[h]] = U[i] /\ i = 1 + o[h]
    OBVIOUS
  <2>10. end = o[n] + 1 /\ o[n] \in Nat
    BY <1>5, <1>6
  <2> HIDE DEF h, i
  <2>8. CASE b[j] = qbyte
    <3>1. i \in 0 .. end /\ ~ (i + 2 > end) /\ i + 2 = 1 + o[j] /\ c[i + 1] = ebyte /\ c[i + 2] = qbyte
      <4>1. o[j] = o[h] + 2
        BY <2>2, <2>8
      <4>2. i \in 0 .. end /\ ~ (i + 2 > end) /\ i + 2 = 1 + o[j]
        <5> DEFINE x == o[h]
                   y == o[j]
                   z == o[n]
        <5>1. x \in Nat /\ y \in Nat /\ z \in Nat /\ y = x + 2 /\ y <= z /\ i = 1 + x /\ end = z + 1
          BY <2>1, <2>7, <2>10, <4>1
        <5> HIDE DEF x, y, z
        <5>2. i \in 0 .. end /\ ~ (i + 2 > end) /\ i + 2 = 1 + y
          BY <5>1
        <5> QED
          BY <5>2 DEF y
      <4>3. c[i + 1] = ebyte /\ c[i + 2] = qbyte
        BY <2>2, <2>3, <2>8
      <4> QED
        BY <4>2, <4>3
    <3>2. U[i] = <<qbyte>> \o t
      BY <1>7, <3>1
    <3> QED
      BY <2>4, <2>7, <2>8, <3>2 DEF h
  <2>9. CASE b[j] # qbyte
    <3>1. i \in 0 .. end /\ i + 1 = 1 + o[j] /\ c[i + 1] = b[j]
      <4>1. o[j] = o[h] + 1
        BY <2>2, <2>9
      <4>2. i \in 0 .. end /\ i + 1 = 1 + o[j]
        <5> DEFINE x == o[h]
                   y == o[j]
                   z == o[n]
        <5>1. x \in Nat /\ y \in Nat /\ z \in Nat /\ y = x + 1 /\ y <= z /\ i = 1 + x /\ end = z + 1
          BY <2>1, <2>7, <2>10, <4>1
        <5> HIDE DEF x, y, z
        <5>2. i \in 0 .. end /\ i + 1 = 1 + y
          BY <5>1
        <5> QED
          BY <5>2 DEF y
      <4>3. c[i + 1] = b[j]
        BY <2>2, <2>3, <2>9
      <4> QED
        BY <4>2, <4>3
    <3>2. CASE i + 2 > end
      <4>1. j = n
        <5> SUFFICES ASSUME j # n PROVE FALSE
          OBVIOUS
        <5> DEFINE y == j + 1
        <5>1. y \in 1 .. n /\ y - 1 = j /\ y \in 0 .. n
          BY <1>1
        <5> HIDE DEF y
        <5>2. o[y] >= o[j] + 1 /\ o[y] <= o[n] /\ o[y] \in Nat
          BY <1>3, <1>4, <2>1, <5>1
        <5> DEFINE x == o[j]
                   z == o[n]
                   w == o[y]
        <5>3. x \in Nat /\ z \in Nat /\ w \in Nat /\ w >= x + 1 /\ w <= z /\ i = x /\ end = z + 1
          <6>1. i + 1 = 1 + o[j] /\ i \in Nat /\ o[j] \in Nat
            BY <2>1, <2>3, <3>1
          <6>2. i = o[j]
            BY <6>1
          <6> QED
            BY <1>5, <1>6, <2>1, <5>2, <6>2
        <5> HIDE DEF x, z, w
        <5> QED
          BY <3>2, <5>3
      <4>2. i + 1 = end
        BY <1>5, <1>6, <3>1, <4>1
      <4>3. U[i] = SubSeq(c, i + 1, end)
        BY <1>7, <3>1, <3>2
      <4>4. SubSeq(c, i + 1, end) = <<b[j]>>
        <5> DEFINE s == <<b[j]>>
        <5>1. s \in Seq(Byte) /\ Len(s) = 1 /\ s[1] = b[j]
          BY <1>1
        <5>2. \A x \in 1 .. Len(s) : c[i + x] = s[x]
          BY <3>1, <5>1
        <5> HIDE DEF s
        <5>3. SubSeq(c, i + 1, i + Len(s)) = s
          BY <2>3, <5>1, <5>2, SliceIs
        <5> QED
          BY <4>2, <5>1, <5>3 DEF s
      <4>5. <<b[j]>> \o t = <<b[j]>>
        <5>1. <<b[j]>> \in Seq(Byte)
          BY <1>1
        <5> QED
          BY <2>6, <4>1, <5>1, ConcatEmptySeq
      <4> QED
        BY <2>4, <2>7, <4>3, <4>4, <4>5 DEF h
    <3>3. CASE ~ (i + 2 > end)
      <4>1. j # n
        BY <1>5, <1>6, <3>1, <3>3
      <4>2. ~ (c[i + 1] = ebyte /\ c[i + 2] = qbyte)
        <5> DEFINE y == j + 1
        <5>1. y \in 1 .. n /\ y - 1 = j
          BY <1>1, <4>1
        <5> HIDE DEF y
        <5>2. c[0 + o[j] + 2] = IF b[y] = qbyte THEN ebyte ELSE b[y]
          BY <1>4, <5>1
        <5>3. 0 + o[j] + 2 = i + 2
          BY <2>1, <2>3, <3>1
        <5> QED
          BY <2>9, <3>1, <5>2, <5>3
      <4>3. U[i] = <<c[i + 1]>> \o U[i + 1]
        BY <1>7, <3>1, <3>3, <4>2
      <4> QED
        BY <2>4, <2>7, <3>1, <4>3 DEF h
    <3> QED
      BY <3>2, <3>3
  <2> QED
    BY <2>8, <2>9
<1>11. RestOf(U[1 + o[0]], b, 0)
  <2> DEFINE T == {m \in 0 .. n : RestOf(U[1 + o[n - m]], b, n - m)}
  <2>1. 0 \in T
    <3>1. n - 0 = n /\ 0 \in 0 .. n
      BY <1>1
    <3> QED
      BY <1>9, <3>1
  <2>2. ASSUME NEW m \in 1 .. n, m - 1 \in T PROVE m \in T
    <3> DEFINE j == n - (m - 1)
    <3>1. j \in 1 .. n /\ j - 1 = n - m /\ m \in 0 .. n
      BY <1>1
    <3>2. RestOf(U[1 + o[j]], b, j)
      BY <2>2
    <3> HIDE DEF j
    <3>3. RestOf(U[1 + o[j - 1]], b, j - 1)
      BY <1>10, <3>1, <3>2
    <3> QED
      BY <3>1, <3>3
  <2> HIDE DEF T
  <2>3. n \in T
    BY <1>1, <2>1, <2>2, UpTo
  <2>4. n - n = 0
    BY <1>1
  <2> QED
    BY <2>3, <2>4 DEF T
<1>12. RestOf(U[1], b, 0)
  BY <1>3, <1>11
<1>13. U[1] = b
  <2> DEFINE u == U[1]
  <2>1. u \in Seq(Byte) /\ Len(u) = n - 0 /\ \A i \in 1 .. n - 0 : u[i] = b[0 + i]
    BY <1>12 DEF RestOf, n
  <2> HIDE DEF u
  <2>2. Len(u) = Len(b)
    BY <1>1, <2>1 DEF n
  <2>3. \A i \in 1 .. Len(u) : u[i] = b[i]
    BY <1>1, <2>1
  <2>4. u = b
    BY <2>1, <2>2, <2>3, SeqEqual
  <2> QED
    BY <2>4 DEF u
<1> QED
  BY <1>8, <1>13 DEF c

\* Where split() can be in an item that begins at s: past it, between quotes,
\* or, when quotes escape quotes, still at the opening one as it reads it
PlaceIn(b, o, s, x, in) ==
    \/ ~in /\ x = s + o[Len(b)] + 2
    \/ \E j \in 0 .. Len(b) :
          \/ in /\ x = s + 1 + o[j]
          \/ ~in /\ x = s + o[j] /\ (j = 0 \/ (b[j] = qbyte /\ ebyte = qbyte))

\* An item in the line, and what comes after it
LineHas(b, o, s, last) ==
    /\ line \in Seq(Byte) /\ b \in Seq(Byte) /\ s \in Nat
    /\ WrittenAt(line, s, b, o)
    /\ IF last THEN Len(line) = s + o[Len(b)] + 2
       ELSE /\ s + o[Len(b)] + 3 <= Len(line) /\ line[s + o[Len(b)] + 3] = separator[1]
            /\ ebyte = qbyte \/ Len(b) = 0 \/ b[Len(b)] # ebyte

LEMMA Separates ==
  ASSUME ItemsTypes, OneByteEach
  PROVE  separator = <<separator[1]>> /\ separator[1] \in Byte /\ separator[1] # qbyte
<1>1. separator \in Seq(Byte) /\ Len(separator) = 1
  BY TextItemsAssumption DEF ItemsTypes, OneByteEach
<1>2. separator = <<separator[1]>> /\ separator[1] \in Byte
  BY <1>1
<1>3. OneByte
  BY OneByteIs
<1>4. separator # Quote /\ Quote = <<qbyte>>
  BY <1>3 DEF OneByte, OneByteEach
<1>5. separator[1] # qbyte
  BY <1>2, <1>4
<1> QED
  BY <1>2, <1>5

LEMMA InItem ==
  ASSUME ItemsTypes, OneByteEach, NEW b, NEW o, NEW s, NEW last \in BOOLEAN,
         LineHas(b, o, s, last), PlaceIn(b, o, s, p, in_quote)
  PROVE  /\ SplitEscaped \/ SplitByte => PlaceIn(b, o, s, p', in_quote')
         /\ SplitSeparator => ~last /\ p = s + o[Len(b)] + 2
         /\ SplitEnd => last /\ p = s + o[Len(b)] + 2
<1> DEFINE n == Len(b)
           N == Len(line)
           sep == separator[1]
           here == line[p + 1]
           next == line[p + 2]
<1>1. /\ line \in Seq(Byte) /\ s \in Nat /\ n \in Nat /\ N \in Nat /\ p \in Nat
      /\ in_quote \in BOOLEAN
  BY DEF ItemsTypes, LineHas
<1>2. /\ o \in [0 .. n -> Nat] /\ o[0] = 0
      /\ \A j \in 0 .. n : o[j] <= o[n]
      /\ \A j \in 1 .. n :
            IF b[j] = qbyte
            THEN o[j] = o[j - 1] + 2 /\ line[s + o[j - 1] + 2] = ebyte /\ line[s + o[j - 1] + 3] = qbyte
            ELSE o[j] = o[j - 1] + 1 /\ line[s + o[j - 1] + 2] = b[j]
      /\ line[s + 1] = qbyte /\ line[s + o[n] + 2] = qbyte
  BY DEF LineHas, WrittenAt
<1>3. IF last THEN N = s + o[n] + 2
      ELSE /\ s + o[n] + 3 <= N /\ line[s + o[n] + 3] = sep
           /\ ebyte = qbyte \/ n = 0 \/ b[n] # ebyte
  BY DEF LineHas
<1>4. sep # qbyte /\ separator = <<sep>> /\ Len(Quote) = 1 /\ Len(escape) = 1 /\ Quote = <<qbyte>>
      /\ escape \o Quote = <<ebyte, qbyte>>
  <2>1. OneByte
    BY OneByteIs
  <2> QED
    BY <2>1, Separates, TwoBytes DEF OneByte
<1>5. /\ AtSeparator <=> ~in_quote /\ p < N /\ here = sep
      /\ AtEscaped <=> p + 2 < N /\ here = ebyte /\ next = qbyte
      /\ Here(line, p, Quote) <=> p < N /\ here = qbyte
  <2>1. Here(line, p, separator) <=> p < N /\ here = sep
    BY <1>1, <1>4, HereOne
  <2>2. Here(line, p, Quote) <=> p < N /\ here = qbyte
    BY <1>1, <1>4, HereOne
  <2>3. Here(line, p, escape \o Quote) <=> p + 2 <= N /\ here = ebyte /\ next = qbyte
    <3>1. Here(line, p, <<ebyte, qbyte>>) <=> p + 2 <= N /\ here = ebyte /\ next = qbyte
      BY <1>1, HereTwo
    <3> HIDE DEF here, next, N
    <3> QED
      BY <1>4, <3>1
  <2>4. AtEscaped <=> Here(line, p, escape \o Quote) /\ p + 1 + 1 < N
    BY <1>4 DEF AtEscaped
  <2>5. AtSeparator <=> ~in_quote /\ Here(line, p, separator)
    BY DEF AtSeparator
  <2> HIDE DEF here, next, sep, N
  <2>6. p + 1 + 1 < N <=> p + 2 < N
    BY <1>1
  <2>7. p + 2 < N => p + 2 <= N
    BY <1>1
  <2> QED
    BY <2>1, <2>2, <2>3, <2>4, <2>5, <2>6, <2>7
<1>6. /\ SplitEscaped => p < N /\ ~AtSeparator /\ AtEscaped /\ p' = p + 2 /\ in_quote' = in_quote
      /\ SplitByte => /\ p < N /\ ~AtSeparator /\ ~AtEscaped /\ p' = p + 1
                      /\ in_quote' = (in_quote # Here(line, p, Quote))
      /\ SplitSeparator => p < N /\ AtSeparator
      /\ SplitEnd => p >= N
  <2>1. SplitEscaped => p' = p + 1 + 1
    BY <1>4 DEF SplitEscaped
  <2>2. p + 1 + 1 = p + 2
    BY <1>1
  <2> QED
    BY <2>1, <2>2 DEF SplitEscaped, SplitByte, SplitSeparator, SplitEnd
<1> HIDE DEF n, N, sep, here, next
<1>13. 0 \in 0 .. n /\ n \in 0 .. n
  BY <1>1
<1>7. o[n] \in Nat /\ \A j \in 0 .. n : o[j] \in Nat
  BY <1>2, <1>13
<1>14. s + o[n] + 2 <= N
  BY <1>1, <1>3, <1>7
\* The code of the next byte, at o[j] + 2
<1>8. ASSUME NEW j \in 0 .. n, j # n
      PROVE  /\ j + 1 \in 1 .. n /\ j + 1 \in 0 .. n
             /\ IF b[j + 1] = qbyte
                THEN o[j + 1] = o[j] + 2 /\ line[s + o[j] + 2] = ebyte /\ line[s + o[j] + 3] = qbyte
                ELSE o[j + 1] = o[j] + 1 /\ line[s + o[j] + 2] = b[j + 1]
  <2> DEFINE y == j + 1
  <2>1. y \in 1 .. n /\ y - 1 = j /\ y \in 0 .. n
    BY <1>1, <1>8
  <2> HIDE DEF y
  <2>2. IF b[y] = qbyte
        THEN o[y] = o[j] + 2 /\ line[s + o[j] + 2] = ebyte /\ line[s + o[j] + 3] = qbyte
        ELSE o[y] = o[j] + 1 /\ line[s + o[j] + 2] = b[y]
    BY <1>2, <2>1
  <2> QED
    BY <2>1, <2>2 DEF y
<1>9. CASE ~in_quote /\ p = s + o[n] + 2
  <2>1. CASE last
    <3>1. p = N
      BY <1>3, <1>9, <2>1
    <3>2. ~ (p < N)
      BY <1>1, <3>1
    <3>3. p = s + o[Len(b)] + 2
      BY <1>9 DEF n
    <3> QED
      BY <1>6, <2>1, <3>2, <3>3
  <2>2. CASE ~last
    <3>1. p < N /\ p + 1 = s + o[n] + 3
      BY <1>1, <1>3, <1>7, <1>9, <2>2
    <3>2. here = sep
      BY <1>3, <2>2, <3>1 DEF here
    <3>3. AtSeparator /\ ~ (p >= N)
      BY <1>1, <1>5, <1>9, <3>1, <3>2
    <3>4. p = s + o[Len(b)] + 2
      BY <1>9 DEF n
    <3> QED
      BY <1>6, <2>2, <3>3, <3>4
  <2> QED
    BY <2>1, <2>2
<1>10. ASSUME NEW j \in 0 .. n, in_quote, p = s + 1 + o[j]
       PROVE  /\ SplitEscaped \/ SplitByte => PlaceIn(b, o, s, p', in_quote')
              /\ ~SplitSeparator /\ ~SplitEnd
  <2>8. o[j] \in Nat /\ o[j] <= o[n]
    BY <1>2, <1>7
  <2>1. o[j] \in Nat /\ o[j] <= o[n] /\ p + 1 = s + o[j] + 2 /\ p + 2 = s + o[j] + 3
    <3> DEFINE x == o[j]
    <3>1. x \in Nat /\ x <= o[n] /\ p = s + 1 + x
      BY <1>10, <2>8
    <3> HIDE DEF x
    <3>2. p + 1 = s + x + 2 /\ p + 2 = s + x + 3
      BY <1>1, <3>1
    <3> QED
      BY <2>8, <3>2 DEF x
  <2>2. p < N /\ ~ (p >= N)
    <3> DEFINE x == o[j]
               z == o[n]
    <3>1. x \in Nat /\ z \in Nat /\ x <= z /\ p = s + 1 + x /\ s + z + 2 <= N
      BY <1>7, <1>10, <1>14, <2>8
    <3> HIDE DEF x, z
    <3> QED
      BY <1>1, <3>1
  <2>3. ~AtSeparator
    BY <1>5, <1>10
  <2>4. here = line[s + o[j] + 2] /\ next = line[s + o[j] + 3]
    BY <2>1 DEF here, next
  <2>5. CASE j = n
    <3>1. here = qbyte
      BY <1>2, <2>4, <2>5
    <3>2. ~AtEscaped
      <4>1. CASE last
        <5>1. ~ (p + 2 < N)
          BY <1>1, <1>3, <1>7, <1>10, <2>5, <4>1
        <5> QED
          BY <1>5, <5>1
      <4>2. CASE ~last
        <5>1. next = sep
          BY <1>3, <2>4, <2>5, <4>2
        <5> QED
          BY <1>4, <1>5, <5>1
      <4> QED
        BY <4>1, <4>2
    <3>3. p + 1 = s + o[n] + 2
      BY <2>1, <2>5
    <3>4. SplitByte => ~in_quote' /\ p' = s + o[n] + 2
      BY <1>5, <1>6, <1>10, <2>2, <3>1, <3>3
    <3>5. SplitByte => PlaceIn(b, o, s, p', in_quote')
      BY <3>4 DEF PlaceIn, n
    <3> QED
      BY <1>6, <2>2, <2>3, <3>2, <3>5
  <2>6. CASE j # n /\ b[j + 1] = qbyte
    <3>1. j + 1 \in 0 .. n /\ o[j + 1] = o[j] + 2 /\ here = ebyte /\ next = qbyte
      BY <1>8, <2>4, <2>6
    <3> DEFINE y == j + 1
    <3> HIDE DEF y
    <3>2. y \in 0 .. n /\ o[y] = o[j] + 2
      BY <3>1 DEF y
    <3>3. o[y] \in Nat /\ o[y] <= o[n]
      BY <1>2, <1>7, <3>2
    <3>4. p + 2 < N /\ p + 2 = s + 1 + o[y]
      <4>1. p + 2 = s + 1 + o[y]
        BY <1>1, <1>10, <2>8, <3>2
      <4>2. p + 2 < N
        BY <1>1, <1>7, <1>14, <3>3, <4>1
      <4> QED
        BY <4>1, <4>2
    <3>5. AtEscaped
      BY <1>5, <3>1, <3>4
    <3>6. SplitEscaped => in_quote' /\ p' = s + 1 + o[y]
      BY <1>6, <1>10, <3>4
    <3>7. SplitEscaped => PlaceIn(b, o, s, p', in_quote')
      BY <3>2, <3>6 DEF PlaceIn, n
    <3> QED
      BY <1>6, <2>2, <2>3, <3>5, <3>7
  <2>7. CASE j # n /\ b[j + 1] # qbyte
    <3> DEFINE y == j + 1
    <3>1. y \in 0 .. n /\ o[y] = o[j] + 1 /\ here = b[y] /\ y \in 1 .. n /\ b[y] # qbyte /\ y = j + 1
      BY <1>8, <2>4, <2>7
    <3> HIDE DEF y
    <3>2. o[y] \in Nat /\ o[y] <= o[n]
      BY <1>2, <1>7, <3>1
    <3>3. ~AtEscaped
      <4> SUFFICES ASSUME p + 2 < N, b[y] = ebyte, next = qbyte PROVE FALSE
        BY <1>5, <3>1
      <4>1. next = line[s + o[y] + 2]
        <5>1. s + o[j] + 3 = s + o[y] + 2
          BY <1>1, <2>1, <3>1
        <5> QED
          BY <2>4, <5>1
      <4>2. CASE y = n
        <5>1. CASE last
          <6>1. p + 2 = N
            <7>1. N = s + o[y] + 2
              BY <1>3, <4>2, <5>1
            <7> DEFINE x == o[j]
                       z == o[y]
            <7>2. x \in Nat /\ z = x + 1 /\ p = s + 1 + x /\ N = s + z + 2
              BY <1>10, <2>8, <3>1, <7>1
            <7> HIDE DEF x, z
            <7> QED
              BY <1>1, <7>2
          <6> QED
            BY <1>1, <6>1
        <5>2. CASE ~last
          <6>1. n # 0
            BY <1>1, <3>1
          <6> QED
            BY <1>3, <3>1, <4>2, <5>2, <6>1
        <5> QED
          BY <5>1, <5>2
      <4>3. CASE y # n
        <5>1. line[s + o[y] + 2] = IF b[y + 1] = qbyte THEN ebyte ELSE b[y + 1]
          BY <1>8, <3>1, <4>3
        <5> QED
          BY <3>1, <4>1, <5>1
      <4> QED
        BY <4>2, <4>3
    <3>4. p + 1 = s + 1 + o[y]
      BY <1>1, <1>10, <2>1, <3>1
    <3>5. SplitByte => in_quote' /\ p' = s + 1 + o[y]
      BY <1>5, <1>6, <1>10, <3>1, <3>4
    <3>6. SplitByte => PlaceIn(b, o, s, p', in_quote')
      BY <3>1, <3>5 DEF PlaceIn, n
    <3> QED
      BY <1>6, <2>2, <2>3, <3>3, <3>6
  <2> QED
    BY <2>5, <2>6, <2>7
<1>11. ASSUME NEW j \in 0 .. n, ~in_quote, p = s + o[j], j = 0 \/ (b[j] = qbyte /\ ebyte = qbyte)
       PROVE  /\ SplitEscaped \/ SplitByte => PlaceIn(b, o, s, p', in_quote')
              /\ ~SplitSeparator /\ ~SplitEnd
  <2>8. o[j] \in Nat /\ o[j] <= o[n]
    BY <1>2, <1>7
  <2>1. o[j] \in Nat /\ o[j] <= o[n] /\ p + 1 = s + o[j] + 1 /\ p + 2 = s + o[j] + 2
    <3> DEFINE x == o[j]
    <3>1. x \in Nat /\ x <= o[n] /\ p = s + x
      BY <1>11, <2>8
    <3> HIDE DEF x
    <3>2. p + 1 = s + x + 1 /\ p + 2 = s + x + 2
      BY <1>1, <3>1
    <3> QED
      BY <2>8, <3>2 DEF x
  <2>2. p < N /\ ~ (p >= N)
    <3> DEFINE x == o[j]
               z == o[n]
    <3>1. x \in Nat /\ z \in Nat /\ x <= z /\ p = s + x /\ s + z + 2 <= N
      BY <1>7, <1>11, <1>14, <2>8
    <3> HIDE DEF x, z
    <3> QED
      BY <1>1, <3>1
  <2>3. here = qbyte
    <3>1. CASE j = 0
      <4>1. p + 1 = s + 1
        BY <1>1, <1>2, <1>11, <3>1
      <4> QED
        BY <1>2, <4>1 DEF here
    <3>2. CASE j # 0
      <4> DEFINE y == j - 1
      <4>1. j \in 1 .. n /\ y \in 0 .. n
        BY <1>1, <3>2
      <4>2. o[j] = o[y] + 2 /\ line[s + o[y] + 3] = qbyte /\ o[y] \in Nat
        BY <1>2, <1>7, <1>11, <3>2, <4>1
      <4> HIDE DEF y
      <4>3. p + 1 = s + o[y] + 3
        BY <1>1, <2>1, <4>2
      <4> QED
        BY <4>2, <4>3 DEF here
    <3> QED
      BY <3>1, <3>2
  <2>4. ~AtSeparator
    BY <1>4, <1>5, <2>3
  <2>5. next = line[s + o[j] + 2]
    BY <2>1 DEF next
  <2>6. SplitByte => PlaceIn(b, o, s, p', in_quote')
    <3>1. p + 1 = s + 1 + o[j]
      BY <1>1, <2>1
    <3>2. SplitByte => in_quote' /\ p' = s + 1 + o[j]
      BY <1>5, <1>6, <1>11, <2>2, <2>3, <3>1
    <3> QED
      BY <3>2 DEF PlaceIn, n
  <2>7. SplitEscaped => PlaceIn(b, o, s, p', in_quote')
    <3> SUFFICES ASSUME SplitEscaped PROVE PlaceIn(b, o, s, p', in_quote')
      OBVIOUS
    <3>1. ebyte = qbyte /\ next = qbyte /\ p' = s + o[j] + 2 /\ ~in_quote'
      BY <1>5, <1>6, <1>11, <2>1, <2>3
    <3>2. CASE j = n
      BY <3>1, <3>2 DEF PlaceIn, n
    <3>3. CASE j # n
      <4> DEFINE y == j + 1
      <4>1. y \in 0 .. n /\ y \in 1 .. n /\ b[y] = qbyte /\ o[y] = o[j] + 2
        BY <1>8, <2>5, <3>1, <3>3
      <4> HIDE DEF y
      <4>2. p' = s + o[y]
        BY <1>1, <2>1, <3>1, <4>1
      <4> QED
        BY <3>1, <4>1, <4>2 DEF PlaceIn, n
    <3> QED
      BY <3>2, <3>3
  <2> QED
    BY <1>6, <2>2, <2>4, <2>6, <2>7
<1>12. \/ ~in_quote /\ p = s + o[n] + 2
       \/ \E j \in 0 .. n : \/ in_quote /\ p = s + 1 + o[j]
                            \/ ~in_quote /\ p = s + o[j] /\ (j = 0 \/ (b[j] = qbyte /\ ebyte = qbyte))
  BY DEF PlaceIn, n
<1> QED
  BY <1>9, <1>10, <1>11, <1>12

\* No item but the last ends in an escape that its closing quote would follow.
Fit == /\ OneByteEach
       /\ ~ (escape # Quote /\ \E i \in 1 .. Len(items) - 1 : IsSuffix(escape, items[i]))

CopiedAt(text, s, c) ==
    s \in Nat /\ s + Len(c) <= Len(text) /\ \A i \in 1 .. Len(c) : text[s + i] = c[i]

Quotes == [k \in 1 .. Len(items) |-> quote(items[k])]
Offs == [k \in 1 .. Len(items) |-> Offsets(items[k])]

\* The items join() has put into the line, the k-th at st[k]
Laid(st) ==
    /\ line \in Seq(Byte)
    /\ st \in [1 .. joined -> Nat] /\ (joined # 0 => st[1] = 0)
    /\ \A k \in 1 .. joined : CopiedAt(line, st[k], Quotes[k])
    /\ \A k \in 2 .. joined :
          st[k] = st[k - 1] + Len(Quotes[k - 1]) + 1 /\ line[st[k]] = separator[1]
    /\ joined # 0 => Len(line) = st[joined] + Len(Quotes[joined])

\* split() has given the items before the k-th and is in that one.
ReadingItem(st, k) ==
    /\ ret \in Seq(Seq(Byte)) /\ Len(ret) = k - 1 /\ \A i \in 1 .. k - 1 : ret[i] = items[i]
    /\ ihead = st[k]
    /\ PlaceIn(items[k], Offs[k], st[k], p, in_quote)

Reading(st) ==
    /\ joined < Len(items) => p = 0 /\ ihead = 0 /\ ret = <<>> /\ ~in_quote /\ ~finished
    /\ finished => joined = Len(items) /\ ret = items
    /\ joined = Len(items) /\ ~finished => \E k \in 1 .. Len(items) : ReadingItem(st, k)

ItemsInv == ItemsTypes /\ (Fit => \E st : Laid(st) /\ Reading(st))

LEMMA ItemsAre ==
  ASSUME ItemsTypes
  PROVE  /\ Len(items) \in Nat \ {0} /\ items \in Seq(Seq(Byte))
         /\ \A k \in 1 .. Len(items) : items[k] \in Seq(Byte)
<1>1. items \in Seq(Seq(Byte)) /\ items # <<>>
  BY TextItemsAssumption DEF ItemsTypes
<1>2. Len(items) \in Nat /\ Len(items) # 0
  BY <1>1
<1>3. \A k \in 1 .. Len(items) : items[k] \in Seq(Byte)
  BY <1>1, ElementOfSeq
<1> QED
  BY <1>1, <1>2, <1>3

LEMMA EndsInEscape ==
  ASSUME OneByte, NEW b \in Seq(Byte), Len(b) # 0, b[Len(b)] = ebyte
  PROVE  IsSuffix(escape, b)
<1> DEFINE n == Len(b)
           s == Reverse(escape)
           t == Reverse(b)
<1>1. n \in Nat /\ n >= 1 /\ Len(escape) = 1 /\ escape[1] = ebyte /\ b[n] = ebyte
  BY DEF OneByte
<1>2. (1 - 1) + 1 = 1 /\ (n - 1) + 1 = n /\ 1 \in 1 .. 1 /\ 1 \in 1 .. n
  BY <1>1
<1>3. s = [i \in 1 .. 1 |-> escape[(1 - i) + 1]] /\ t = [i \in 1 .. n |-> b[(n - i) + 1]]
  BY <1>1 DEF Reverse
<1> HIDE DEF s, t
<1>4. s[1] = ebyte /\ t[1] = ebyte /\ Len(s) = 1 /\ Len(t) = n
  <2>1. s[1] = escape[1]
    BY <1>2, <1>3
  <2>2. t[1] = b[n]
    BY <1>2, <1>3
  <2>3. \A i \in 1 .. n : (n - i) + 1 \in 1 .. n
    BY <1>1
  <2>4. \A i \in 1 .. n : b[(n - i) + 1] \in Byte
    BY <2>3
  <2>5. t \in [1 .. n -> Byte]
    BY <1>3, <2>4
  <2>6. \A i \in 1 .. 1 : escape[(1 - i) + 1] \in Byte
    BY <1>1 DEF OneByte
  <2>7. s \in [1 .. 1 -> Byte]
    BY <1>3, <2>6
  <2> HIDE DEF n
  <2>8. Len(s) = 1
    BY <2>7, FunctionIsSeq
  <2>9. Len(t) = n
    BY <1>1, <2>5, FunctionIsSeq
  <2> QED
    BY <1>1, <2>1, <2>2, <2>8, <2>9
<1>5. \A u : u[1] = ebyte => SubSeq(u, 1, 1) = <<ebyte>>
  <2> SUFFICES ASSUME NEW u, u[1] = ebyte PROVE SubSeq(u, 1, 1) = <<ebyte>>
    OBVIOUS
  <2> DEFINE c == <<ebyte>>
  <2>1. c \in Seq(Byte) /\ Len(c) = 1 /\ c[1] = ebyte
    BY DEF OneByte
  <2> HIDE DEF c
  <2>2. 0 \in Nat /\ \A i \in 1 .. Len(c) : u[0 + i] = c[i]
    BY <2>1
  <2>3. SubSeq(u, 0 + 1, 0 + Len(c)) = c
    BY <2>1, <2>2, SliceIs
  <2>4. 0 + 1 = 1 /\ 0 + Len(c) = 1
    BY <2>1
  <2> QED
    BY <2>3, <2>4 DEF c
<1>6. IsPrefix(s, t)
  <2>1. SubSeq(s, 1, 1) = SubSeq(t, 1, 1)
    BY <1>4, <1>5
  <2> QED
    BY <1>1, <1>4, <2>1 DEF IsPrefix
<1> QED
  BY <1>6 DEF IsSuffix, s, t

LEMMA QuotedItem ==
  ASSUME ItemsTypes, OneByteEach, NEW k \in 1 .. Len(items)
  PROVE  LET c == quote(items[k]) IN
         /\ c \in Seq(Byte) /\ Len(c) \in Nat /\ Len(c) >= 2
         /\ Len(c) = Offsets(items[k])[Len(items[k])] + 2
         /\ c[1] = qbyte /\ c[Len(c)] = qbyte
         /\ WrittenAt(c, 0, items[k], Offsets(items[k]))
<1> DEFINE b == items[k]
           c == quote(b)
           o == Offsets(b)
           n == Len(b)
<1>1. b \in Seq(Byte)
  BY ItemsAre
<1>2. OneByte
  BY OneByteIs
<1> HIDE DEF b
<1>3. c \in Seq(Byte) /\ Len(c) = o[n] + 2 /\ WrittenAt(c, 0, b, o)
  BY <1>1, <1>2, QuotedAs
<1>4. n \in 0 .. n
  BY <1>1
<1> HIDE DEF c, o, n
<1>5. o \in [0 .. n -> Nat] /\ c[0 + 1] = qbyte /\ c[0 + o[n] + 2] = qbyte
  BY <1>3 DEF WrittenAt, n
<1>6. o[n] \in Nat
  BY <1>4, <1>5
<1>7. 0 + 1 = 1 /\ 0 + o[n] + 2 = Len(c) /\ Len(c) \in Nat /\ Len(c) >= 2
  BY <1>3, <1>6
<1>8. c[1] = qbyte /\ c[Len(c)] = qbyte
  BY <1>5, <1>7
<1> QED
  BY <1>3, <1>7, <1>8 DEF b, c, o, n

LEMMA ItemPlaced ==
  ASSUME ItemsTypes, Fit, NEW st, Laid(st), joined = Len(items), NEW k \in 1 .. Len(items)
  PROVE  LET o == Offs[k] IN
         /\ LineHas(items[k], o, st[k], k = Len(items))
         /\ Item(st[k], st[k] + o[Len(items[k])] + 2) = items[k]
         /\ st[k] < Len(line)
         /\ k < Len(items) => st[k + 1] = st[k] + o[Len(items[k])] + 3
<1> DEFINE b == items[k]
           c == quote(b)
           o == Offsets(b)
           n == Len(b)
           s == st[k]
           K == Len(items)
<1>1. b \in Seq(Byte) /\ K \in Nat \ {0} /\ n \in Nat /\ k \in 1 .. K /\ joined = K
  BY ItemsAre
<1>2. OneByteEach /\ OneByte /\ (escape # Quote => \A i \in 1 .. K - 1 : ~IsSuffix(escape, items[i]))
  BY OneByteIs DEF Fit
<1>3. /\ c \in Seq(Byte) /\ Len(c) = o[n] + 2 /\ WrittenAt(c, 0, b, o) /\ Len(c) \in Nat /\ Len(c) >= 2
      /\ c[1] = qbyte /\ c[Len(c)] = qbyte
  BY <1>2, QuotedItem
<1>18. \A y \in 1 .. K : Quotes[y] = quote(items[y]) /\ Offs[y] = Offsets(items[y])
  BY DEF Quotes, Offs
<1>19. Quotes[k] = c /\ Offs[k] = o
  BY <1>18
<1>4. CopiedAt(line, s, c) /\ line \in Seq(Byte)
  BY <1>1, <1>19 DEF Laid
<1>5. k = K => Len(line) = s + Len(c)
  BY <1>1, <1>19 DEF Laid
<1>6. k < K => CopiedAt(line, st[k + 1], quote(items[k + 1])) /\ st[k + 1] = s + Len(c) + 1
               /\ line[st[k + 1]] = separator[1] /\ Len(quote(items[k + 1])) \in Nat
  <2> SUFFICES ASSUME k < K
               PROVE  CopiedAt(line, st[k + 1], quote(items[k + 1])) /\ st[k + 1] = s + Len(c) + 1
                      /\ line[st[k + 1]] = separator[1] /\ Len(quote(items[k + 1])) \in Nat
    OBVIOUS
  <2> DEFINE y == k + 1
  <2>1. y \in 1 .. K /\ y \in 2 .. K /\ y - 1 = k
    BY <1>1
  <2> HIDE DEF y
  <2>2. CopiedAt(line, st[y], quote(items[y]))
        /\ st[y] = st[y - 1] + Len(c) + 1 /\ line[st[y]] = separator[1]
    BY <1>1, <1>18, <1>19, <2>1 DEF Laid
  <2>3. Len(quote(items[y])) \in Nat
    BY <1>2, <2>1, QuotedItem
  <2> QED
    BY <2>1, <2>2, <2>3 DEF y
<1>7. b = items[k]
  OBVIOUS
<1> HIDE DEF b, c, o, n, s, K
<1>8. s \in Nat /\ s + Len(c) <= Len(line) /\ \A i \in 1 .. Len(c) : line[s + i] = c[i]
  BY <1>4 DEF CopiedAt
<1>9. /\ o \in [0 .. n -> Nat] /\ o[0] = 0
      /\ \A j \in 0 .. n : o[j] <= o[n]
      /\ \A j \in 1 .. n :
            IF b[j] = qbyte
            THEN o[j] = o[j - 1] + 2 /\ c[0 + o[j - 1] + 2] = ebyte /\ c[0 + o[j - 1] + 3] = qbyte
            ELSE o[j] = o[j - 1] + 1 /\ c[0 + o[j - 1] + 2] = b[j]
      /\ c[0 + 1] = qbyte /\ c[0 + o[n] + 2] = qbyte
  BY <1>3 DEF WrittenAt, n
<1>10. \A j \in 0 .. n : o[j] \in Nat
  BY <1>9
\* What c has, the line has from s on.
<1>11. WrittenAt(line, s, b, o)
  <2>1. ASSUME NEW j \in 1 .. n
        PROVE  IF b[j] = qbyte
               THEN o[j] = o[j - 1] + 2 /\ line[s + o[j - 1] + 2] = ebyte /\ line[s + o[j - 1] + 3] = qbyte
               ELSE o[j] = o[j - 1] + 1 /\ line[s + o[j - 1] + 2] = b[j]
    <3> DEFINE h == j - 1
    <3>1. h \in 0 .. n /\ j \in 0 .. n
      BY <1>1
    <3>2. o[h] \in Nat /\ o[j] \in Nat /\ o[j] <= o[n]
      BY <1>9, <1>10, <3>1
    <3>3. IF b[j] = qbyte
          THEN o[j] = o[h] + 2 /\ c[0 + o[h] + 2] = ebyte /\ c[0 + o[h] + 3] = qbyte
          ELSE o[j] = o[h] + 1 /\ c[0 + o[h] + 2] = b[j]
      BY <1>9
    <3> HIDE DEF h
    <3>4. o[j] >= o[h] + 1
      BY <3>2, <3>3
    <3>6. o[n] \in Nat
      BY <1>1, <1>10
    <3> DEFINE u == o[h]
               v == o[j]
               z == o[n]
               l == Len(c)
    <3>11. u \in Nat /\ v \in Nat /\ z \in Nat /\ v >= u + 1 /\ v <= z /\ l = z + 2 /\ s \in Nat
           /\ (b[j] = qbyte => v = u + 2)
      BY <1>3, <1>8, <3>2, <3>3, <3>4, <3>6
    <3> HIDE DEF u, v, z, l
    <3>12. 0 + u + 2 = u + 2 /\ 0 + u + 3 = u + 3 /\ s + (u + 2) = s + u + 2 /\ s + (u + 3) = s + u + 3
      BY <3>11
    <3>13. u + 2 \in 1 .. l /\ (b[j] = qbyte => u + 3 \in 1 .. l)
      BY <3>11
    <3>5. 0 + o[h] + 2 = o[h] + 2 /\ 0 + o[h] + 3 = o[h] + 3
          /\ s + (o[h] + 2) = s + o[h] + 2 /\ s + (o[h] + 3) = s + o[h] + 3
      BY <3>12 DEF u
    <3>7. o[h] + 2 \in 1 .. Len(c)
      BY <3>13 DEF u, l
    <3>8. b[j] = qbyte => o[h] + 3 \in 1 .. Len(c)
      BY <3>13 DEF u, l
    <3>9. line[s + o[h] + 2] = c[o[h] + 2] /\ (b[j] = qbyte => line[s + o[h] + 3] = c[o[h] + 3])
      <4> DEFINE x == o[h] + 2
                 y == o[h] + 3
      <4>1. s + x = s + o[h] + 2 /\ s + y = s + o[h] + 3
        BY <3>5
      <4>2. x \in 1 .. Len(c) /\ (b[j] = qbyte => y \in 1 .. Len(c))
        BY <3>7, <3>8
      <4> HIDE DEF x, y
      <4>3. line[s + x] = c[x] /\ (b[j] = qbyte => line[s + y] = c[y])
        BY <1>8, <4>2
      <4> QED
        BY <4>1, <4>3 DEF x, y
    <3>10. IF b[j] = qbyte
           THEN o[j] = o[h] + 2 /\ line[s + o[h] + 2] = ebyte /\ line[s + o[h] + 3] = qbyte
           ELSE o[j] = o[h] + 1 /\ line[s + o[h] + 2] = b[j]
      BY <3>3, <3>5, <3>9
    <3> QED
      BY <3>10 DEF h
  <2>2. line[s + 1] = qbyte /\ line[s + o[n] + 2] = qbyte
    <3>1. 1 \in 1 .. Len(c) /\ Len(c) \in 1 .. Len(c)
      BY <1>3
    <3>2. line[s + 1] = qbyte /\ line[s + Len(c)] = qbyte
      BY <1>3, <1>8, <3>1
    <3>3. o[n] \in Nat
      BY <1>1, <1>10
    <3>4. s + Len(c) = s + o[n] + 2
      BY <1>3, <1>8, <3>3
    <3> QED
      BY <3>2, <3>4
  <2> QED
    BY <1>9, <2>1, <2>2 DEF WrittenAt, n
<1>12. o[n] \in Nat
  BY <1>1, <1>10
<1>13. s + Len(c) = s + o[n] + 2 /\ s + Len(c) + 1 = s + o[n] + 3
  BY <1>3, <1>8, <1>12
<1>14. LineHas(b, o, s, k = K)
  <2>1. CASE k = K
    BY <1>1, <1>4, <1>5, <1>8, <1>11, <1>13, <2>1 DEF LineHas, n
  <2>2. CASE k # K
    <3>1. k < K /\ k \in 1 .. K - 1
      BY <1>1, <2>2
    <3>2. st[k + 1] = s + o[n] + 3 /\ line[s + o[n] + 3] = separator[1]
      BY <1>6, <1>13, <3>1
    <3>3. s + o[n] + 3 <= Len(line)
      <4> DEFINE x == st[k + 1]
                 l == Len(quote(items[k + 1]))
      <4>1. x + l <= Len(line) /\ l \in Nat /\ x = s + o[n] + 3 /\ x \in Nat
        BY <1>6, <3>1, <3>2 DEF CopiedAt
      <4>2. Len(line) \in Nat
        BY <1>4
      <4> HIDE DEF x, l
      <4> QED
        BY <4>1, <4>2
    <3>4. ebyte = qbyte \/ n = 0 \/ b[n] # ebyte
      <4> SUFFICES ASSUME ebyte # qbyte, n # 0, b[n] = ebyte PROVE FALSE
        OBVIOUS
      <4>1. escape # Quote
        BY <1>2 DEF OneByte
      <4>2. IsSuffix(escape, b)
        BY <1>1, <1>2, EndsInEscape DEF n
      <4> QED
        BY <1>2, <1>7, <3>1, <4>1, <4>2
    <3> QED
      BY <1>1, <1>4, <1>8, <1>11, <2>2, <3>2, <3>3, <3>4 DEF LineHas, n
  <2> QED
    BY <2>1, <2>2
<1>15. Item(s, s + o[n] + 2) = b
  <2>1. SubSeq(line, s + 1, s + Len(c)) = c
    BY <1>3, <1>8, SliceIs
  <2>2. trim_spaces(c) = c
    <3>1. qbyte \notin Spaces
      BY <1>2 DEF OneByteEach, qbyte
    <3>2. Len(c) >= 1
      BY <1>3
    <3> QED
      BY <1>3, <3>1, <3>2, Trimmed
  <2>3. unquote(c) = b
    BY <1>1, <1>2, Unquoted DEF c
  <2> QED
    BY <1>13, <2>1, <2>2, <2>3 DEF Item
<1>16. s < Len(line)
  <2>1. Len(line) \in Nat
    BY <1>4
  <2> QED
    BY <1>3, <1>8, <2>1
<1>17. k < K => st[k + 1] = s + o[n] + 3
  BY <1>6, <1>13
<1> QED
  BY <1>14, <1>15, <1>16, <1>17, <1>19 DEF b, n, s, K

LEMMA ArgumentsStay ==
  ASSUME UNCHANGED <<items, separator, escape>>
  PROVE  Quotes' = Quotes /\ Offs' = Offs /\ ebyte' = ebyte /\ (Fit' <=> Fit)
<1>1. Quotes' = Quotes
  BY DEF Quotes, quote, Here
<1>2. Offs' = Offs
  BY DEF Offs, Offsets, QFrom, Here
<1> QED
  BY <1>1, <1>2 DEF ebyte, Fit, OneByteEach

LEMMA ItemsTypesKept ==
  ASSUME ItemsTypes, [TNext]_tvars
  PROVE  ItemsTypes' /\ UNCHANGED <<items, separator, escape>>
<1>1. UNCHANGED <<items, separator, escape>>
  BY DEF TNext, tvars, JoinItem, SplitSeparator, SplitEscaped, SplitByte, SplitEnd
<1>2. Len(escape) \in Nat /\ Len(Quote) \in Nat /\ Len(items) \in Nat
  BY ItemsAre, TextItemsAssumption DEF ItemsTypes
<1>3. joined' \in 0 .. Len(items)
  <2>1. CASE JoinItem
    BY <1>2, <2>1 DEF ItemsTypes, JoinItem
  <2>2. CASE ~JoinItem
    <3>1. joined' = joined
      BY <2>2 DEF TNext, tvars, SplitSeparator, SplitEscaped, SplitByte, SplitEnd
    <3> QED
      BY <3>1 DEF ItemsTypes
  <2> QED
    BY <2>1, <2>2
<1>4. p' \in Nat
  <2>1. p' = p \/ p' = p + 1 \/ p' = p + Len(escape) + Len(Quote)
    BY DEF TNext, tvars, JoinItem, SplitSeparator, SplitEscaped, SplitByte, SplitEnd
  <2> QED
    BY <1>2, <2>1 DEF ItemsTypes
<1>5. ihead' \in Nat
  <2>1. ihead' = ihead \/ ihead' = p + 1
    BY DEF TNext, tvars, JoinItem, SplitSeparator, SplitEscaped, SplitByte, SplitEnd
  <2> QED
    BY <2>1 DEF ItemsTypes
<1>6. in_quote' \in BOOLEAN /\ finished' \in BOOLEAN
  BY DEF ItemsTypes, TNext, tvars, JoinItem, SplitSeparator, SplitEscaped, SplitByte, SplitEnd
<1> QED
  BY <1>1, <1>3, <1>4, <1>5, <1>6 DEF ItemsTypes

\* Concatenation, from the places of the bytes
LEMMA Behind ==
  ASSUME NEW a \in Seq(Byte), NEW c \in Seq(Byte)
  PROVE  /\ a \o c \in Seq(Byte) /\ Len(a \o c) = Len(a) + Len(c) /\ Len(a) \in Nat /\ Len(c) \in Nat
         /\ \A i \in 1 .. Len(a) : (a \o c)[i] = a[i]
         /\ \A i \in 1 .. Len(c) : (a \o c)[Len(a) + i] = c[i]
<1> DEFINE m == Len(a)
           n == Len(c)
           u == a \o c
<1>1. /\ u \in Seq(Byte) /\ Len(u) = m + n
      /\ \A i \in 1 .. m + n : u[i] = IF i <= m THEN a[i] ELSE c[i - m]
  BY ConcatProperties
<1>2. m \in Nat /\ n \in Nat
  OBVIOUS
<1> HIDE DEF m, n, u
<1>3. \A i \in 1 .. m : u[i] = a[i]
  BY <1>1, <1>2
<1>4. ASSUME NEW i \in 1 .. n PROVE u[m + i] = c[i]
  <2> DEFINE x == m + i
  <2>1. x \in 1 .. m + n /\ ~ (x <= m) /\ x - m = i
    BY <1>2
  <2> HIDE DEF x
  <2>2. u[x] = c[i]
    BY <1>1, <2>1
  <2> QED
    BY <2>2 DEF x
<1> QED
  BY <1>1, <1>2, <1>3, <1>4 DEF m, n, u

LEMMA Joins ==
  ASSUME ItemsTypes, Fit, NEW st, Laid(st), Reading(st), JoinItem
  PROVE  \E su : Laid(su)' /\ Reading(su)'
<1> DEFINE k == joined + 1
           K == Len(items)
           b == items[k]
           c == Quotes[k]
           a == IF joined = 0 THEN <<>> ELSE line \o separator
           s == Len(a)
           L(i) == Len(Quotes[i])
<1>1. /\ K \in Nat \ {0} /\ joined \in Nat /\ k \in 1 .. K /\ k = joined + 1 /\ joined < K
  BY ItemsAre DEF ItemsTypes, JoinItem
<1>2. OneByteEach /\ separator \in Seq(Byte) /\ Len(separator) = 1
  <2>1. OneByteEach /\ Len(separator) = 1
    BY DEF Fit, OneByteEach
  <2>2. separator \in Seq(Byte)
    BY TextItemsAssumption DEF ItemsTypes
  <2> QED
    BY <2>1, <2>2
<1>3. /\ joined' = k /\ line' = a \o quote(b)
      /\ UNCHANGED <<items, separator, escape, p, ihead, in_quote, ret, finished>>
  BY DEF JoinItem
<1>4. Quotes' = Quotes /\ Offs' = Offs /\ ebyte' = ebyte
  BY <1>3, ArgumentsStay
<1>5. \A i \in 1 .. K : Quotes[i] = quote(items[i])
  BY DEF Quotes
<1>6. ASSUME NEW i \in 1 .. K PROVE Quotes[i] \in Seq(Byte) /\ L(i) \in Nat /\ L(i) >= 2
  BY <1>2, <1>5, QuotedItem
<1>7. c \in Seq(Byte) /\ line' = a \o c /\ L(k) = Len(c)
  BY <1>1, <1>3, <1>5, <1>6
<1>8. /\ line \in Seq(Byte)
      /\ st \in [1 .. joined -> Nat] /\ (joined # 0 => st[1] = 0)
      /\ \A i \in 1 .. joined : CopiedAt(line, st[i], Quotes[i])
      /\ \A i \in 2 .. joined : st[i] = st[i - 1] + L(i - 1) + 1 /\ line[st[i]] = separator[1]
      /\ joined # 0 => Len(line) = st[joined] + L(joined)
  BY DEF Laid
<1>9. a \in Seq(Byte) /\ s \in Nat /\ (joined = 0 => s = 0)
      /\ (joined # 0 => /\ s = Len(line) + 1 /\ a[s] = separator[1]
                        /\ \A i \in 1 .. Len(line) : a[i] = line[i])
  <2>1. CASE joined = 0
    BY <2>1
  <2>2. CASE joined # 0
    <3> DEFINE t == line \o separator
    <3>1. /\ t \in Seq(Byte) /\ Len(t) = Len(line) + 1 /\ Len(line) \in Nat
          /\ \A i \in 1 .. Len(line) : t[i] = line[i]
          /\ t[Len(line) + 1] = separator[1]
      <4>1. /\ line \o separator \in Seq(Byte) /\ Len(line \o separator) = Len(line) + Len(separator)
            /\ Len(line) \in Nat
            /\ \A i \in 1 .. Len(line) : (line \o separator)[i] = line[i]
            /\ \A i \in 1 .. Len(separator) : (line \o separator)[Len(line) + i] = separator[i]
        BY <1>2, <1>8, Behind
      <4>2. 1 \in 1 .. Len(separator)
        BY <1>2
      <4> QED
        BY <1>2, <4>1, <4>2
    <3>2. a = t
      BY <2>2
    <3> HIDE DEF t, a
    <3> QED
      BY <2>2, <3>1, <3>2
  <2> QED
    BY <2>1, <2>2
<1> HIDE DEF c, a, s, L, b, K, k
<1>10. /\ line' \in Seq(Byte) /\ Len(line') = s + L(k) /\ L(k) \in Nat
       /\ \A i \in 1 .. s : line'[i] = a[i]
       /\ \A i \in 1 .. L(k) : line'[s + i] = c[i]
  BY <1>7, <1>9, Behind DEF s
<1>18. PICK su : su = [i \in 1 .. k |-> IF i = k THEN s ELSE st[i]]
  OBVIOUS
<1>11. /\ su \in [1 .. k -> Nat] /\ su[k] = s /\ \A i \in 1 .. joined : su[i] = st[i] /\ i \in 1 .. k /\ i \in 1 .. K
  <2>1. \A i \in 1 .. k : (IF i = k THEN s ELSE st[i]) \in Nat
    BY <1>1, <1>8, <1>9
  <2>2. \A i \in 1 .. joined : i # k /\ i \in 1 .. k /\ i \in 1 .. K
    BY <1>1
  <2> QED
    BY <1>1, <1>18, <2>1, <2>2
<1>12. ASSUME NEW i \in 1 .. k PROVE CopiedAt(line', su[i], Quotes[i])
  <2>1. CASE i = k
    <3>1. CopiedAt(line', s, c)
      <4>1. s \in Nat /\ s + Len(c) <= Len(line')
        BY <1>7, <1>9, <1>10
      <4>2. \A y \in 1 .. Len(c) : line'[s + y] = c[y]
        BY <1>7, <1>10
      <4> QED
        BY <4>1, <4>2 DEF CopiedAt
    <3> QED
      BY <1>11, <2>1, <3>1 DEF c
  <2>2. CASE i # k
    <3> DEFINE x == st[i]
               t == Quotes[i]
    <3>1. i \in 1 .. joined /\ joined # 0
      BY <1>1, <2>2
    <3>2. x \in Nat /\ x + Len(t) <= Len(line) /\ \A y \in 1 .. Len(t) : line[x + y] = t[y]
      BY <1>8, <3>1 DEF CopiedAt
    <3>3. Len(t) \in Nat /\ su[i] = x /\ Len(line) \in Nat
      BY <1>6, <1>8, <1>11, <3>1
    <3>5. t = Quotes[i]
      OBVIOUS
    <3> HIDE DEF x, t
    <3>4. x + Len(t) <= Len(line')
      BY <1>9, <1>10, <3>1, <3>2, <3>3
    <3>6. ASSUME NEW y \in 1 .. Len(t) PROVE line'[x + y] = t[y]
      <4> DEFINE z == x + y
      <4>1. z \in 1 .. Len(line) /\ z \in 1 .. s
        BY <1>9, <3>1, <3>2, <3>3
      <4>2. line[z] = t[y]
        BY <3>2
      <4> HIDE DEF z
      <4>3. line'[z] = t[y]
        BY <1>9, <1>10, <3>1, <4>1, <4>2
      <4> QED
        BY <4>3 DEF z
    <3>7. CopiedAt(line', x, t)
      BY <3>2, <3>4, <3>6 DEF CopiedAt
    <3> QED
      BY <3>3, <3>5, <3>7
  <2> QED
    BY <2>1, <2>2
<1>13. ASSUME NEW i \in 2 .. k
       PROVE  su[i] = su[i - 1] + L(i - 1) + 1 /\ line'[su[i]] = separator[1]
  <2> DEFINE h == i - 1
  <2>1. h \in 1 .. joined /\ joined # 0 /\ (i = k => h = joined)
    BY <1>1
  <2>2. su[h] = st[h] /\ h \in 1 .. K
    BY <1>11, <2>1
  <2>3. st[h] \in Nat /\ L(h) \in Nat /\ Len(line) \in Nat
    BY <1>6, <1>8, <2>1, <2>2
  <2>4. CASE i = k
    <3>1. su[i] = s /\ h = joined
      BY <1>11, <2>1, <2>4
    <3> HIDE DEF h
    <3>2. s = st[h] + L(h) + 1
      BY <1>8, <1>9, <2>1, <2>3, <3>1
    <3>3. s \in 1 .. s
      BY <2>3, <3>2
    <3>4. line'[s] = separator[1]
      BY <1>9, <1>10, <2>1, <3>3
    <3> QED
      BY <2>2, <3>1, <3>2, <3>4 DEF h
  <2>5. CASE i # k
    <3>1. i \in 2 .. joined /\ i \in 1 .. joined
      BY <1>1, <2>5
    <3>2. st[i] = st[h] + L(h) + 1 /\ line[st[i]] = separator[1]
      BY <1>8, <3>1
    <3> HIDE DEF h
    <3>3. su[i] = st[i] /\ st[i] \in Nat /\ st[i] <= Len(line)
      <4> DEFINE x == st[i]
                 l == L(i)
      <4>1. x \in Nat /\ x + l <= Len(line)
        BY <1>8, <3>1 DEF CopiedAt, L
      <4>2. l \in Nat
        BY <1>6, <1>11, <3>1
      <4>3. su[i] = x
        BY <1>11, <3>1
      <4> HIDE DEF x, l
      <4>4. x <= Len(line)
        BY <2>3, <4>1, <4>2
      <4> QED
        BY <4>1, <4>3, <4>4 DEF x
    <3>4. st[i] \in 1 .. Len(line) /\ st[i] \in 1 .. s
      BY <1>9, <2>1, <2>3, <3>2, <3>3
    <3>5. line'[st[i]] = separator[1]
      BY <1>9, <1>10, <2>1, <3>2, <3>4
    <3> QED
      BY <2>2, <3>2, <3>3, <3>5 DEF h
  <2> QED
    BY <2>4, <2>5
<1>14. su[1] = 0
  <2>1. CASE joined = 0
    <3>1. k = 1
      BY <1>1, <2>1
    <3> QED
      BY <1>9, <1>11, <2>1, <3>1
  <2>2. CASE joined # 0
    <3>1. 1 \in 1 .. joined
      BY <1>1, <2>2
    <3> QED
      BY <1>8, <1>11, <2>2, <3>1
  <2> QED
    BY <2>1, <2>2
<1>15. Laid(su)'
  <2>1. joined' = k /\ Quotes' = Quotes /\ separator' = separator /\ joined' # 0
    BY <1>1, <1>3, <1>4
  <2>2. \A i \in 1 .. joined' : CopiedAt(line', su[i], Quotes'[i])
    BY <1>12, <2>1
  <2>3. \A i \in 2 .. joined' :
           su[i] = su[i - 1] + Len(Quotes'[i - 1]) + 1 /\ line'[su[i]] = separator'[1]
    BY <1>13, <2>1 DEF L
  <2>4. Len(line') = su[joined'] + Len(Quotes'[joined'])
    BY <1>10, <1>11, <2>1 DEF L
  <2>5. line' \in Seq(Byte) /\ su \in [1 .. joined' -> Nat] /\ su[1] = 0
    BY <1>10, <1>11, <1>14, <2>1
  <2> QED
    BY <2>2, <2>3, <2>4, <2>5 DEF Laid, CopiedAt
\* split() has not begun.
<1>16. p = 0 /\ ihead = 0 /\ ret = <<>> /\ ~in_quote /\ ~finished
  BY <1>1 DEF Reading, K
<1>17. Reading(su)'
  <2>1. ASSUME k = K PROVE ReadingItem(su, 1)'
    <3>1. 1 \in 1 .. K
      BY <1>1
    <3> DEFINE d == items[1]
               o == Offs[1]
    <3>2. o = Offsets(d) /\ WrittenAt(quote(d), 0, d, Offsets(d))
      BY <1>2, <3>1, QuotedItem DEF Offs, K
    <3>3. d \in Seq(Byte)
      BY <3>1, ItemsAre DEF K
    <3> HIDE DEF d, o
    <3>4. o[0] = 0 /\ 0 \in 0 .. Len(d)
      BY <3>2, <3>3 DEF WrittenAt
    <3>5. Offs[1][0] = 0 /\ 0 \in 0 .. Len(items[1])
      BY <3>4 DEF d, o
    <3>6. 0 \in 0 .. Len(items'[1]) /\ ~in_quote' /\ p' = su[1] + Offs'[1][0]
      BY <1>3, <1>4, <1>14, <1>16, <3>5
    <3>7. PlaceIn(items[1], Offs[1], su[1], p, in_quote)'
      BY <3>6 DEF PlaceIn
    <3>8. Len(<<>>) = 1 - 1 /\ <<>> \in Seq(Seq(Byte)) /\ 1 .. 1 - 1 = {}
      OBVIOUS
    <3> QED
      BY <1>3, <1>14, <1>16, <3>7, <3>8 DEF ReadingItem
  <2>2. 1 \in 1 .. K
    BY <1>1
  <2> QED
    BY <1>3, <1>16, <2>1, <2>2 DEF Reading, K
<1> QED
  BY <1>15, <1>17

LEMMA Splits ==
  ASSUME ItemsTypes, Fit, NEW st, Laid(st), Reading(st),
         SplitSeparator \/ SplitEscaped \/ SplitByte \/ SplitEnd
  PROVE  Laid(st)' /\ Reading(st)'
<1> DEFINE K == Len(items)
<1>1. /\ K \in Nat \ {0} /\ joined = K /\ ~finished
      /\ UNCHANGED <<items, separator, escape, line, joined>>
  BY ItemsAre DEF SplitSeparator, SplitEscaped, SplitByte, SplitEnd, Splitting
<1>2. Quotes' = Quotes /\ Offs' = Offs /\ ebyte' = ebyte /\ OneByteEach
  BY <1>1, ArgumentsStay DEF Fit
<1>3. Laid(st)'
  BY <1>1, <1>2 DEF Laid, CopiedAt
<1>4. PICK k \in 1 .. K : ReadingItem(st, k)
  BY <1>1 DEF Reading
<1> DEFINE b == items[k]
           o == Offs[k]
           s == st[k]
           n == Len(b)
           here == s + o[n] + 2
<1>5. /\ LineHas(b, o, s, k = K) /\ Item(s, here) = b /\ s < Len(line)
      /\ k < K => st[k + 1] = s + o[n] + 3
  BY <1>1, ItemPlaced
<1>6. /\ ret \in Seq(Seq(Byte)) /\ Len(ret) = k - 1 /\ \A i \in 1 .. k - 1 : ret[i] = items[i]
      /\ ihead = s /\ PlaceIn(b, o, s, p, in_quote)
  BY <1>4 DEF ReadingItem
<1>7. /\ SplitEscaped \/ SplitByte => PlaceIn(b, o, s, p', in_quote')
      /\ SplitSeparator => ~(k = K) /\ p = here
      /\ SplitEnd => k = K /\ p = here
  <2> DEFINE last == (k = K)
  <2>1. last \in BOOLEAN
    OBVIOUS
  <2> HIDE DEF last, o, s, b
  <2>2. LineHas(b, o, s, last) /\ PlaceIn(b, o, s, p, in_quote)
    BY <1>5, <1>6 DEF last, o, s, b
  <2>3. /\ SplitEscaped \/ SplitByte => PlaceIn(b, o, s, p', in_quote')
        /\ SplitSeparator => ~last /\ p = here
        /\ SplitEnd => last /\ p = here
    BY <1>2, <2>1, <2>2, InItem
  <2> QED
    BY <2>3 DEF last
<1>8. ~ (joined' < Len(items')) /\ k \in 1 .. Len(items')
  BY <1>1
\* The item, appended to those before it
<1>9. LET u == Append(ret, b) IN
      u \in Seq(Seq(Byte)) /\ Len(u) = k /\ \A i \in 1 .. k : u[i] = items[i]
  <2> DEFINE u == Append(ret, b)
  <2>1. b \in Seq(Byte) /\ b = items[k]
    BY ItemsAre DEF K
  <2> HIDE DEF b
  <2>2. /\ u \in Seq(Seq(Byte)) /\ Len(u) = Len(ret) + 1
        /\ \A i \in 1 .. Len(ret) : u[i] = ret[i]
        /\ u[Len(ret) + 1] = b
    BY <1>6, <2>1, AppendProperties
  <2> HIDE DEF u
  <2>3. Len(ret) + 1 = k
    BY <1>1, <1>6
  <2>4. ASSUME NEW i \in 1 .. k PROVE u[i] = items[i]
    <3>1. CASE i = k
      BY <2>1, <2>2, <2>3, <3>1
    <3>2. CASE i # k
      <4>1. i \in 1 .. k - 1 /\ i \in 1 .. Len(ret)
        BY <1>1, <1>6, <3>2
      <4> QED
        BY <1>6, <2>2, <4>1
    <3> QED
      BY <3>1, <3>2
  <2> QED
    BY <2>2, <2>3, <2>4 DEF u
<1> HIDE DEF o, s, n, here, b, K
<1>10. CASE SplitEscaped \/ SplitByte
  <2>1. UNCHANGED <<ihead, ret, finished>>
    BY <1>10 DEF SplitEscaped, SplitByte
  <2>2. PlaceIn(items'[k], Offs'[k], st[k], p', in_quote')
    BY <1>1, <1>2, <1>7, <1>10 DEF b, o, s
  <2>3. ReadingItem(st, k)'
    <3>1. PlaceIn(items[k], Offs[k], st[k], p, in_quote)'
      BY <1>2, <2>2 DEF PlaceIn
    <3> QED
      BY <1>1, <1>6, <2>1, <3>1 DEF ReadingItem, s
  <2> QED
    BY <1>1, <1>3, <1>8, <2>1, <2>3 DEF Reading
<1>11. CASE SplitSeparator
  <2> DEFINE y == k + 1
  <2>1. k # K /\ p = here
    BY <1>7, <1>11
  <2>2. y \in 1 .. K /\ y - 1 = k /\ k < K
    BY <1>1, <2>1
  <2>3. ret' = Append(ret, b) /\ p' = p + 1 /\ ihead' = p + 1 /\ in_quote' = in_quote /\ finished' = finished
    BY <1>5, <1>6, <1>11, <2>1 DEF SplitSeparator
  <2>4. ~in_quote
    BY <1>11 DEF SplitSeparator, AtSeparator
  <2>5. st[y] = s + o[n] + 3
    BY <1>5, <2>2
  <2> HIDE DEF y
  <2>6. p + 1 = st[y]
    <3>1. p \in Nat /\ s \in Nat
      BY <1>5 DEF ItemsTypes, LineHas
    <3>2. o[n] \in Nat
      <4>1. n \in 0 .. n /\ o \in [0 .. n -> Nat]
        BY <1>5 DEF LineHas, WrittenAt, n
      <4> QED
        BY <4>1
    <3> QED
      BY <2>1, <2>5, <3>1, <3>2 DEF here
  <2>7. PlaceIn(items[y], Offs[y], st[y], p, in_quote)'
    <3> DEFINE d == items[y]
               f == Offs[y]
    <3>1. f = Offsets(d) /\ WrittenAt(quote(d), 0, d, Offsets(d))
      BY <1>2, <2>2, QuotedItem DEF Offs, K
    <3>2. d \in Seq(Byte)
      BY <2>2, ItemsAre DEF K
    <3> HIDE DEF d, f
    <3>3. f[0] = 0 /\ 0 \in 0 .. Len(d)
      BY <3>1, <3>2 DEF WrittenAt
    <3>4. st[y] \in Nat
      BY <1>1, <2>2 DEF Laid
    <3>5. p' = st[y] + f[0]
      BY <2>3, <2>6, <3>3, <3>4
    <3>6. 0 \in 0 .. Len(items'[y]) /\ ~in_quote' /\ p' = st[y] + Offs'[y][0]
      BY <1>1, <1>2, <2>3, <2>4, <3>3, <3>5 DEF d, f
    <3> QED
      BY <3>6 DEF PlaceIn
  <2>8. ReadingItem(st, y)'
    <3>1. y - 1 = k
      BY <2>2
    <3>2. ret' \in Seq(Seq(Byte)) /\ Len(ret') = y - 1 /\ \A i \in 1 .. y - 1 : ret'[i] = items'[i]
      BY <1>1, <1>9, <2>3, <3>1
    <3>3. ihead' = st[y]
      BY <2>3, <2>6
    <3> QED
      BY <2>7, <3>2, <3>3 DEF ReadingItem
  <2>9. y \in 1 .. Len(items') /\ ~finished'
    BY <1>1, <2>2, <2>3 DEF K
  <2> QED
    BY <1>3, <1>8, <2>8, <2>9 DEF Reading
<1>12. CASE SplitEnd
  <2>1. k = K /\ p = here /\ ihead < Len(line)
    BY <1>5, <1>6, <1>7, <1>12
  <2>2. here = Len(line)
    BY <1>5, <2>1 DEF LineHas, here, n
  <2>3. ret' = Append(ret, b) /\ finished'
    <3>1. ret' = Append(ret, Item(ihead, Len(line))) /\ finished'
      BY <1>12, <2>1 DEF SplitEnd
    <3> QED
      BY <1>5, <1>6, <2>2, <3>1
  <2>4. ret' = items
    <3> DEFINE u == Append(ret, b)
    <3>1. u \in Seq(Seq(Byte)) /\ Len(u) = K /\ \A i \in 1 .. K : u[i] = items[i]
      BY <1>9, <2>1
    <3>2. items \in Seq(Seq(Byte)) /\ Len(items) = K
      BY ItemsAre DEF K
    <3> HIDE DEF u
    <3>3. u = items
      BY <3>1, <3>2, SeqEqual
    <3> QED
      BY <2>3, <3>3 DEF u
  <2> QED
    BY <1>1, <1>3, <1>8, <2>3, <2>4 DEF Reading, K
<1> QED
  BY <1>10, <1>11, <1>12

\* What join() makes of a list of items, split() makes the same list of again,
\* whatever the items hold and however many they are.
THEOREM RoundTripHolds == TSpec => []RoundTrip
<1>1. TInit => ItemsInv
  <2> SUFFICES ASSUME TInit PROVE ItemsInv
    OBVIOUS
  <2>1. Len(items) \in Nat \ {0}
    <3>1. items \in Seq(Seq(Byte)) /\ items # <<>>
      BY TextItemsAssumption DEF TInit
    <3> QED
      BY <3>1
  <2>2. ItemsTypes
    <3>1. joined \in 0 .. Len(items) /\ p \in Nat /\ ihead \in Nat
      BY <2>1 DEF TInit
    <3> QED
      BY <3>1 DEF TInit, ItemsTypes
  <2> DEFINE st == [k \in 1 .. 0 |-> 0]
  <2>3. Laid(st)
    <3>1. line = <<>> /\ joined = 0 /\ 1 .. 0 = {} /\ 2 .. 0 = {} /\ line \in Seq(Byte)
      BY DEF TInit
    <3>2. st \in [1 .. joined -> Nat]
      BY <3>1
    <3> HIDE DEF st
    <3> QED
      BY <3>1, <3>2 DEF Laid
  <2>4. Reading(st)
    BY <2>1 DEF TInit, Reading
  <2> QED
    BY <2>2, <2>3, <2>4 DEF ItemsInv
<1>2. ItemsInv /\ [TNext]_tvars => ItemsInv'
  <2> SUFFICES ASSUME ItemsInv, [TNext]_tvars PROVE ItemsInv'
    OBVIOUS
  <2>1. ItemsTypes /\ ItemsTypes' /\ UNCHANGED <<items, separator, escape>>
    BY ItemsTypesKept DEF ItemsInv
  <2>2. Quotes' = Quotes /\ Offs' = Offs /\ ebyte' = ebyte /\ (Fit' <=> Fit)
    BY <2>1, ArgumentsStay
  <2> SUFFICES ASSUME Fit PROVE \E st : Laid(st)' /\ Reading(st)'
    BY <2>1, <2>2 DEF ItemsInv
  <2>3. PICK st : Laid(st) /\ Reading(st)
    BY DEF ItemsInv
  <2>4. CASE JoinItem
    BY <2>1, <2>3, <2>4, Joins
  <2>5. CASE SplitSeparator \/ SplitEscaped \/ SplitByte \/ SplitEnd
    BY <2>1, <2>3, <2>5, Splits
  <2>6. CASE UNCHANGED tvars
    <3>1. Laid(st)'
      BY <2>2, <2>3, <2>6 DEF tvars, Laid, CopiedAt
    <3>2. Reading(st)'
      <4>1. ASSUME NEW k PROVE ReadingItem(st, k)' <=> ReadingItem(st, k)
        BY <2>2, <2>6 DEF tvars, ReadingItem, PlaceIn
      <4> QED
        BY <2>3, <2>6, <4>1 DEF tvars, Reading
    <3> QED
      BY <3>1, <3>2
  <2> QED
    BY <2>4, <2>5, <2>6 DEF TNext
<1>3. ItemsInv => RoundTrip
  BY DEF ItemsInv, Fit, RoundTrip, Reading
<1> QED
  BY <1>1, <1>2, <1>3, PTL DEF TSpec
=============================================================================
