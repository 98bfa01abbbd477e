-------------------------- MODULE ChunkArrayProofs -------------------------
(***************************************************************************)
(* Proofs about ChunkArray: the sizes agree with the chunks, and that the  *)
(* elements are in chunks cannot be seen.                                  *)
(***************************************************************************)
EXTENDS ChunkArray, ProofLemmas

LEMMA SizeType ==
  /\ ChunkSize \in Nat \ {0} /\ MaxChunks \in Nat
  /\ Default \in Values
BY ChunkArrayAssumption DEF ChunkArrayAssumption

\* The chunks for a size have room for it.
LEMMA CoverEnough ==
  ASSUME NEW n \in Nat
  PROVE  chunks_cover_(n) \in Nat \ {0} /\ n <= chunks_cover_(n) * ChunkSize
<1>1. CASE n = 0
  BY <1>1, SizeType DEF chunks_cover_
<1>2. CASE n # 0
  <2> DEFINE q == (n - 1) \div ChunkSize
             m == ChunkSize
  <2>1. n - 1 \in Nat /\ m \in Nat \ {0}
    BY <1>2, SizeType
  <2>2. q \in Nat /\ (n - 1) % m \in 0 .. m - 1 /\ n - 1 = m * q + ((n - 1) % m)
    BY <2>1, Divide
  <2>3. chunks_cover_(n) = q + 1
    BY <1>2 DEF chunks_cover_, chunk_index_
  <2> HIDE DEF q, m
  <2>4. (q + 1) * m = m * q + m
    BY <2>1, <2>2
  <2>5. m * q \in Nat
    BY <2>1, <2>2
  <2>6. n <= (q + 1) * m
    BY <2>1, <2>2, <2>4, <2>5
  <2> QED
    BY <2>2, <2>3, <2>6 DEF m
<1> QED
  BY <1>1, <1>2

Headers == Seq(Seq(Values))

LEMMA FullChunk ==
  /\ Full \in Seq(Values) /\ Len(Full) = ChunkSize
  /\ \A i \in 1 .. ChunkSize : Full[i] = Default
<1>1. Full \in [1 .. ChunkSize -> Values]
  BY SizeType DEF Full
<1> QED
  BY <1>1, SizeType, FunctionIsSeq DEF Full

LEMMA ResizedChunks ==
  ASSUME NEW s \in Headers, NEW n \in Nat
  PROVE  /\ Resized(s, n) \in Headers /\ Len(Resized(s, n)) = n
         /\ \A c \in 1 .. n : Resized(s, n)[c] = IF c <= Len(s) THEN s[c] ELSE Full
<1> DEFINE t == Resized(s, n)
           S == Seq(Values)
<1>1. t = [c \in 1 .. n |-> IF c <= Len(s) THEN s[c] ELSE Full]
  BY DEF Resized
<1>2. s \in Seq(S) /\ Full \in S
  BY FullChunk DEF Headers
<1> HIDE DEF t, S
<1>3. t \in [1 .. n -> S]
  BY <1>1, <1>2, LenProperties, ElementOfSeq
<1>4. t \in Seq(S) /\ Len(t) = n
  BY <1>3, FunctionIsSeq
<1> QED
  BY <1>1, <1>4 DEF t, S, Headers

\* What operator[](idx) = v leaves of the chunks s.
StoredAs(s, idx, v, t) ==
    LET ci == idx \div ChunkSize + 1
        si == (idx % ChunkSize) + 1
        old == IF ci <= Len(s) THEN s[ci] ELSE <<>>
    IN /\ t \in Headers /\ Len(t) = IF Len(s) >= ci THEN Len(s) ELSE ci
       /\ \A c \in 1 .. Len(t) : c # ci => t[c] = IF c <= Len(s) THEN s[c] ELSE <<>>
       /\ Len(t[ci]) = IF Len(old) >= si THEN Len(old) ELSE si
       /\ \A i \in 1 .. Len(t[ci]) : t[ci][i] = IF i = si THEN v
                                                ELSE IF i <= Len(old) THEN old[i] ELSE Default

LEMMA StoredChunks ==
  ASSUME NEW s \in Headers, NEW idx \in Nat, NEW v \in Values
  PROVE  StoredAs(s, idx, v, Stored(s, idx, v))
<1> DEFINE S == Seq(Values)
           ci == idx \div ChunkSize + 1
           si == (idx % ChunkSize) + 1
           n == Max({Len(s), ci})
           grown == [c \in 1 .. n |-> IF c <= Len(s) THEN s[c] ELSE <<>>]
           old == grown[ci]
           m == Max({Len(old), si})
           chunk == [i \in 1 .. m |-> IF i = si THEN v
                                      ELSE IF i <= Len(old) THEN old[i] ELSE Default]
           t == [grown EXCEPT ![ci] = chunk]
<1>1. t = Stored(s, idx, v)
  BY DEF Stored, chunk_index_, sub_index_
<1>2. ci \in Nat \ {0} /\ si \in Nat \ {0}
  BY SizeType, Divide
<1> HIDE DEF ci, si
<1>3. s \in Seq(S) /\ <<>> \in S /\ Len(s) \in Nat
  BY LenProperties DEF Headers
<1>4. n = (IF Len(s) >= ci THEN Len(s) ELSE ci) /\ n \in Nat /\ ci \in 1 .. n
  <2>1. n = IF Len(s) >= ci THEN Len(s) ELSE ci
    BY <1>2, <1>3, MaxOfTwo
  <2> QED
    BY <1>2, <1>3, <2>1
<1> HIDE DEF n
<1>5. grown \in [1 .. n -> S]
  <2> HIDE DEF S
  <2> QED
    BY <1>3, LenProperties, ElementOfSeq
<1>6. old \in S /\ old = (IF ci <= Len(s) THEN s[ci] ELSE <<>>)
  <2> HIDE DEF S
  <2> QED
    BY <1>4, <1>5
<1> HIDE DEF grown
<1> HIDE DEF old
<1>7. Len(old) \in Nat /\ \A i \in 1 .. Len(old) : old[i] \in Values
  BY <1>6, LenProperties, ElementOfSeq
<1>8. m = (IF Len(old) >= si THEN Len(old) ELSE si) /\ m \in Nat
  <2>1. m = IF Len(old) >= si THEN Len(old) ELSE si
    BY <1>2, <1>7, MaxOfTwo
  <2> QED
    BY <1>2, <1>7, <2>1
<1> HIDE DEF m
<1>9. chunk \in [1 .. m -> Values]
  BY <1>7, SizeType
<1>10. chunk \in S /\ Len(chunk) = m
  BY <1>8, <1>9, FunctionIsSeq
<1>11. \A i \in 1 .. m : chunk[i] = IF i = si THEN v
                                    ELSE IF i <= Len(old) THEN old[i] ELSE Default
  OBVIOUS
<1> HIDE DEF chunk, S
<1>12. t \in [1 .. n -> S] /\ t[ci] = chunk /\ \A c \in 1 .. n : c # ci => t[c] = grown[c]
  BY <1>4, <1>5, <1>10
<1> HIDE DEF t
<1>13. t \in Seq(S) /\ Len(t) = n
  BY <1>4, <1>12, FunctionIsSeq
<1>14. \A c \in 1 .. n : grown[c] = IF c <= Len(s) THEN s[c] ELSE <<>>
  BY DEF grown
<1>15. StoredAs(s, idx, v, t)
  BY <1>4, <1>6, <1>8, <1>10, <1>11, <1>12, <1>13, <1>14 DEF StoredAs, ci, si, S, Headers
<1> QED
  BY <1>1, <1>15

-----------------------------------------------------------------------------
(* Elements and chunks *)

\* The chunk of an element and its place there.
LEMMA PlaceOf ==
  ASSUME NEW j \in Nat
  PROVE  /\ j \div ChunkSize \in Nat /\ j % ChunkSize \in 0 .. ChunkSize - 1
         /\ \A n \in Nat : j < n * ChunkSize => j \div ChunkSize + 1 <= n
         /\ \A i \in Nat : i \div ChunkSize = j \div ChunkSize
                           /\ i % ChunkSize = j % ChunkSize => i = j
<1> DEFINE m == ChunkSize
           q == j \div m
<1>1. m \in Nat \ {0}
  BY SizeType
<1>2. q \in Nat /\ j % m \in 0 .. m - 1 /\ j = m * q + (j % m)
  BY <1>1, Divide
<1>3. ASSUME NEW n \in Nat, j < n * m PROVE q + 1 <= n
  <2> SUFFICES ASSUME n <= q PROVE FALSE
    BY <1>2
  <2> HIDE DEF q
  <2>1. m * n <= m * q /\ m * n \in Nat /\ m * q \in Nat /\ n * m = m * n
    BY <1>1, <1>2, Monotone, Smaller
  <2> QED
    BY <1>2, <1>3, <2>1
<1>4. ASSUME NEW i \in Nat, i \div m = q, i % m = j % m PROVE i = j
  <2>1. i = m * (i \div m) + (i % m)
    BY <1>1, Divide
  <2> QED
    BY <1>2, <1>4, <2>1
<1> QED
  BY <1>2, <1>3, <1>4

LEMMA ElementIsValue ==
  ASSUME NEW s \in Headers, NEW i \in Nat \ {0}
  PROVE  Element(s, i) \in Values
<1> DEFINE c == (i - 1) \div ChunkSize + 1
           k == ((i - 1) % ChunkSize) + 1
           S == Seq(Values)
<1>1. c \in Nat \ {0} /\ k \in Nat \ {0}
  <2>1. i - 1 \in Nat
    OBVIOUS
  <2> HIDE DEF S
  <2> QED
    BY <2>1, PlaceOf, SizeType
<1>2. Element(s, i) = IF c <= Len(s) /\ k <= Len(s[c]) THEN s[c][k] ELSE Default
  BY DEF Element
<1> HIDE DEF c, k
<1>3. s \in Seq(S)
  BY DEF Headers
<1>4. c <= Len(s) => s[c] \in S
  <2> HIDE DEF S
  <2> QED
    BY <1>1, <1>3, LenProperties, ElementOfSeq
<1>5. c <= Len(s) /\ k <= Len(s[c]) => s[c][k] \in Values
  BY <1>1, <1>4, LenProperties, ElementOfSeq
<1> QED
  BY <1>2, <1>5, SizeType

LEMMA ElementStored ==
  ASSUME NEW s \in Headers, NEW idx \in Nat, NEW v \in Values, NEW i \in Nat \ {0}
  PROVE  Element(Stored(s, idx, v), i) = IF i = idx + 1 THEN v ELSE Element(s, i)
<1> DEFINE t == Stored(s, idx, v)
           c == (i - 1) \div ChunkSize + 1
           k == ((i - 1) % ChunkSize) + 1
           ci == idx \div ChunkSize + 1
           si == (idx % ChunkSize) + 1
           old == IF ci <= Len(s) THEN s[ci] ELSE <<>>
<1>1. StoredAs(s, idx, v, t)
  BY StoredChunks
<1>2. /\ c \in Nat \ {0} /\ k \in Nat \ {0} /\ ci \in Nat \ {0} /\ si \in Nat \ {0}
      /\ c = ci /\ k = si <=> i = idx + 1
  <2> DEFINE j == i - 1
  <2>1. j \in Nat /\ (j = idx <=> i = idx + 1)
    OBVIOUS
  <2> HIDE DEF j
  <2>2. j \div ChunkSize \in Nat /\ j % ChunkSize \in 0 .. ChunkSize - 1
    BY <2>1, PlaceOf
  <2>3. idx \div ChunkSize \in Nat /\ idx % ChunkSize \in 0 .. ChunkSize - 1
    BY PlaceOf
  <2>4. j \div ChunkSize = idx \div ChunkSize /\ j % ChunkSize = idx % ChunkSize => j = idx
    BY <2>1, PlaceOf
  <2>5. /\ j \div ChunkSize + 1 \in Nat \ {0} /\ (j % ChunkSize) + 1 \in Nat \ {0}
        /\ ci \in Nat \ {0} /\ si \in Nat \ {0}
    BY <2>2, <2>3, SizeType
  <2>6. j \div ChunkSize + 1 = ci /\ (j % ChunkSize) + 1 = si <=> j = idx
    BY <2>2, <2>3, <2>4
  <2> QED
    BY <2>1, <2>5, <2>6 DEF j
<1>3. /\ Element(s, i) = IF c <= Len(s) /\ k <= Len(s[c]) THEN s[c][k] ELSE Default
      /\ Element(t, i) = IF c <= Len(t) /\ k <= Len(t[c]) THEN t[c][k] ELSE Default
  BY DEF Element
<1>4. /\ Len(t) = IF Len(s) >= ci THEN Len(s) ELSE ci
      /\ \A x \in 1 .. Len(t) : x # ci => t[x] = IF x <= Len(s) THEN s[x] ELSE <<>>
      /\ Len(t[ci]) = IF Len(old) >= si THEN Len(old) ELSE si
      /\ \A x \in 1 .. Len(t[ci]) : t[ci][x] = IF x = si THEN v
                                               ELSE IF x <= Len(old) THEN old[x] ELSE Default
  BY <1>1 DEF StoredAs
<1>5. Len(s) \in Nat
  BY LenProperties DEF Headers
<1> HIDE DEF t, c, k, ci, si
<1>6. old \in Seq(Values)
  <2> DEFINE S == Seq(Values)
  <2>1. s \in Seq(S) /\ <<>> \in S
    BY DEF Headers
  <2> HIDE DEF S
  <2>2. old \in S
    BY <1>2, <1>5, <2>1, ElementOfSeq
  <2> QED
    BY <2>2 DEF S
<1>7. Len(old) \in Nat /\ (ci > Len(s) => Len(old) = 0)
  BY <1>2, <1>5, <1>6, LenProperties
<1>8. CASE c = ci
  <2>1. Len(t) >= ci /\ old = IF ci <= Len(s) THEN s[ci] ELSE <<>>
    BY <1>2, <1>4, <1>5
  <2>2. Element(s, i) = IF k <= Len(old) THEN old[k] ELSE Default
    BY <1>2, <1>3, <1>5, <1>7, <1>8
  <2> HIDE DEF old
  <2>3. CASE k = si
    <3>1. k \in 1 .. Len(t[ci])
      BY <1>2, <1>4, <1>7, <2>3
    <3>2. t[c][k] = v
      BY <1>4, <1>8, <2>3, <3>1
    <3> QED
      BY <1>2, <1>3, <1>8, <2>1, <2>3, <3>1, <3>2 DEF t
  <2>4. CASE k # si
    BY <1>2, <1>3, <1>4, <1>7, <1>8, <2>1, <2>2, <2>4 DEF t
  <2> QED
    BY <2>3, <2>4
<1>9. CASE c # ci
  <2>1. CASE c <= Len(s)
    <3>1. c \in 1 .. Len(t) /\ t[c] = s[c]
      BY <1>2, <1>4, <1>5, <1>9, <2>1
    <3> QED
      BY <1>2, <1>3, <1>9, <2>1, <3>1 DEF t
  <2>2. CASE ~ (c <= Len(s))
    <3>1. c \in 1 .. Len(t) => t[c] = <<>> /\ Len(t[c]) = 0
      BY <1>4, <1>9, <2>2
    <3>2. Element(t, i) = Default
      BY <1>2, <1>3, <1>4, <1>5, <3>1
    <3> QED
      BY <1>2, <1>3, <1>9, <2>2, <3>2 DEF t
  <2> QED
    BY <2>1, <2>2
<1> QED
  BY <1>8, <1>9 DEF t

LEMMA ElementResized ==
  ASSUME NEW s \in Headers, NEW n \in Nat, NEW i \in Nat \ {0}, i <= n * ChunkSize
  PROVE  Element(Resized(s, n), i) = Element(s, i)
<1> DEFINE t == Resized(s, n)
           c == (i - 1) \div ChunkSize + 1
           k == ((i - 1) % ChunkSize) + 1
<1>1. c \in 1 .. n /\ k \in 1 .. ChunkSize
  <2> DEFINE nm == n * ChunkSize
  <2>1. i - 1 \in Nat /\ nm \in Nat
    BY SizeType
  <2>2. i - 1 < nm
    BY <2>1
  <2> HIDE DEF nm
  <2>3. \A x \in Nat : i - 1 < x * ChunkSize => (i - 1) \div ChunkSize + 1 <= x
    BY <2>1, PlaceOf
  <2>4. c <= n
    BY <2>2, <2>3 DEF nm
  <2> QED
    BY <2>1, <2>4, PlaceOf, SizeType
<1>2. /\ Element(s, i) = IF c <= Len(s) /\ k <= Len(s[c]) THEN s[c][k] ELSE Default
      /\ Element(t, i) = IF c <= Len(t) /\ k <= Len(t[c]) THEN t[c][k] ELSE Default
  BY DEF Element
<1>3. Len(t) = n /\ \A x \in 1 .. n : t[x] = IF x <= Len(s) THEN s[x] ELSE Full
  BY ResizedChunks
<1>4. Len(s) \in Nat
  BY LenProperties DEF Headers
<1> HIDE DEF t, c, k
<1>5. CASE c <= Len(s)
  BY <1>1, <1>2, <1>3, <1>5 DEF t
<1>6. CASE ~ (c <= Len(s))
  <2>1. t[c] = Full
    BY <1>1, <1>3, <1>6
  <2> QED
    BY <1>1, <1>2, <1>3, <1>6, <2>1, FullChunk DEF t
<1> QED
  BY <1>5, <1>6

LEMMA ElementAppended ==
  ASSUME NEW s \in Headers, NEW i \in Nat \ {0}
  PROVE  Element(Append(s, Full), i) = Element(s, i)
<1> DEFINE t == Append(s, Full)
           c == (i - 1) \div ChunkSize + 1
           k == ((i - 1) % ChunkSize) + 1
<1>1. c \in Nat \ {0} /\ k \in 1 .. ChunkSize
  <2>1. i - 1 \in Nat
    OBVIOUS
  <2> QED
    BY <2>1, PlaceOf, SizeType
<1>2. /\ Element(s, i) = IF c <= Len(s) /\ k <= Len(s[c]) THEN s[c][k] ELSE Default
      /\ Element(t, i) = IF c <= Len(t) /\ k <= Len(t[c]) THEN t[c][k] ELSE Default
  BY DEF Element
<1>3. Len(t) = Len(s) + 1 /\ t[Len(s) + 1] = Full /\ \A x \in 1 .. Len(s) : t[x] = s[x]
  BY FullChunk, AppendProperties DEF Headers
<1>4. Len(s) \in Nat
  BY LenProperties DEF Headers
<1> HIDE DEF t, c, k
<1>5. CASE c <= Len(s)
  BY <1>1, <1>2, <1>3, <1>4, <1>5 DEF t
<1>6. CASE c = Len(s) + 1
  BY <1>1, <1>2, <1>3, <1>4, <1>6, FullChunk DEF t
<1>7. CASE c > Len(s) + 1
  BY <1>1, <1>2, <1>3, <1>4, <1>7 DEF t
<1> QED
  BY <1>1, <1>4, <1>5, <1>6, <1>7

-----------------------------------------------------------------------------
(* Whole chunks *)

AllFull(s) == \A c \in 1 .. Len(s) : Len(s[c]) = ChunkSize

LEMMA ResizedFull ==
  ASSUME NEW s \in Headers, NEW n \in Nat, AllFull(s)
  PROVE  AllFull(Resized(s, n))
<1>1. Len(s) \in Nat
  BY LenProperties DEF Headers
<1> DEFINE t == Resized(s, n)
<1>2. Len(t) = n /\ \A c \in 1 .. n : t[c] = IF c <= Len(s) THEN s[c] ELSE Full
  BY ResizedChunks
<1> HIDE DEF t
<1>3. \A c \in 1 .. Len(t) : Len(t[c]) = ChunkSize
  BY <1>1, <1>2, FullChunk DEF AllFull
<1> QED
  BY <1>3 DEF AllFull, t

LEMMA AppendedFull ==
  ASSUME NEW s \in Headers
  PROVE  /\ Append(s, Full) \in Headers /\ Len(Append(s, Full)) = Len(s) + 1
         /\ AllFull(s) => AllFull(Append(s, Full))
<1> DEFINE t == Append(s, Full)
<1>1. t \in Headers /\ Len(t) = Len(s) + 1 /\ t[Len(s) + 1] = Full
      /\ \A x \in 1 .. Len(s) : t[x] = s[x]
  BY FullChunk, AppendProperties DEF Headers
<1>2. Len(s) \in Nat
  BY LenProperties DEF Headers
<1> HIDE DEF t
<1>3. AllFull(s) => AllFull(t)
  <2> SUFFICES ASSUME AllFull(s), NEW c \in 1 .. Len(t) PROVE Len(t[c]) = ChunkSize
    BY DEF AllFull
  <2>1. c \in 1 .. Len(s) \/ c = Len(s) + 1
    BY <1>1, <1>2
  <2> QED
    BY <1>1, <2>1, FullChunk DEF AllFull
<1> QED
  BY <1>1, <1>3 DEF t

\* An assignment below the capacity needs no chunk and leaves them whole.
LEMMA StoredFull ==
  ASSUME NEW s \in Headers, NEW idx \in Nat, NEW v \in Values
  PROVE  /\ Stored(s, idx, v) \in Headers /\ Len(Stored(s, idx, v)) >= Len(s)
         /\ AllFull(s) /\ idx < Len(s) * ChunkSize => AllFull(Stored(s, idx, v))
<1> DEFINE t == Stored(s, idx, v)
           ci == idx \div ChunkSize + 1
           si == (idx % ChunkSize) + 1
           old == IF ci <= Len(s) THEN s[ci] ELSE <<>>
<1>1. StoredAs(s, idx, v, t)
  BY StoredChunks
<1>2. /\ t \in Headers /\ Len(t) = IF Len(s) >= ci THEN Len(s) ELSE ci
      /\ \A x \in 1 .. Len(t) : x # ci => t[x] = IF x <= Len(s) THEN s[x] ELSE <<>>
      /\ Len(t[ci]) = IF Len(old) >= si THEN Len(old) ELSE si
  BY <1>1 DEF StoredAs
<1>3. ci \in Nat \ {0} /\ si \in 1 .. ChunkSize /\ Len(s) \in Nat
  <2>1. Len(s) \in Nat
    BY LenProperties DEF Headers
  <2>2. idx \div ChunkSize \in Nat /\ idx % ChunkSize \in 0 .. ChunkSize - 1
    BY PlaceOf
  <2> QED
    BY <2>1, <2>2, SizeType
<1>4. idx < Len(s) * ChunkSize => ci <= Len(s)
  BY <1>3, PlaceOf
<1> HIDE DEF t, ci, si
<1>5. ASSUME AllFull(s), idx < Len(s) * ChunkSize PROVE AllFull(t)
  <2>1. Len(t) = Len(s) /\ ci \in 1 .. Len(s) /\ old = s[ci]
    BY <1>2, <1>3, <1>4, <1>5
  <2>2. Len(t[ci]) = ChunkSize
    BY <1>2, <1>3, <1>5, <2>1, SizeType DEF AllFull
  <2> QED
    BY <1>2, <1>5, <2>1, <2>2 DEF AllFull
<1> QED
  BY <1>2, <1>3, <1>5 DEF t

-----------------------------------------------------------------------------
(* The inductive invariant *)

CTypes ==
    /\ header \in [Handles -> Headers \cup {Dead, Null}]
    /\ room \in [Handles -> Nat]
    /\ total \in [Handles -> Nat]
    /\ strayed \in [Handles -> BOOLEAN]

CInv == CTypes /\ ChunksFull

\* The elements below the size n of the chunks s.
Shown(s, n) == [i \in 1 .. n |-> Element(s, i)]

OthersStay(h) == \A g \in Handles \ {h} : Elements(g)' = Elements(g)

LEMMA HeadersLive ==
  ASSUME NEW s \in Headers
  PROVE  s \notin {Dead, Null} /\ Len(s) \in Nat
BY ChunkArrayAssumption, LenProperties DEF ChunkArrayAssumption, Headers

LEMMA ShownSequence ==
  ASSUME NEW s \in Headers, NEW n \in Nat
  PROVE  /\ Shown(s, n) \in Seq(Values) /\ Len(Shown(s, n)) = n
         /\ Shown(s, n) \notin {Dead, Null}
<1>1. Shown(s, n) \in [1 .. n -> Values]
  BY ElementIsValue DEF Shown
<1>2. Shown(s, n) \in Seq(Values) /\ Len(Shown(s, n)) = n
  BY <1>1, FunctionIsSeq
<1> QED
  BY <1>2, ChunkArrayAssumption DEF ChunkArrayAssumption

LEMMA LiveHandle ==
  ASSUME CInv, NEW h \in Handles, CAlive(h)
  PROVE  /\ header[h] \in Headers /\ total[h] \in Nat /\ room[h] \in Nat
         /\ Len(header[h]) \in Nat /\ chunks(h) = Len(header[h])
         /\ total[h] <= Len(header[h]) * ChunkSize
         /\ ~ strayed[h] => AllFull(header[h])
         /\ Elements(h) = Shown(header[h], total[h])
<1>1. header[h] \in Headers /\ total[h] \in Nat /\ room[h] \in Nat
  BY DEF CInv, CTypes, CAlive
<1>2. Len(header[h]) \in Nat
  BY <1>1, HeadersLive
<1>3. total[h] <= Len(header[h]) * ChunkSize /\ (~ strayed[h] => AllFull(header[h]))
  BY DEF CInv, ChunksFull, capacity, chunks, AllFull
<1> QED
  BY <1>1, <1>2, <1>3 DEF chunks, Elements, Shown

\* A step that gives h the chunks s and the size n.
LEMMA SetHolds ==
  ASSUME CInv, NEW h \in Handles, NEW s \in Headers, NEW n \in Nat, NEW x \in BOOLEAN,
         Set(h, s, n), strayed' = [strayed EXCEPT ![h] = x],
         n <= Len(s) * ChunkSize, ~ x => AllFull(s)
  PROVE  CInv' /\ Elements(h)' = Shown(s, n) /\ OthersStay(h)
<1> DEFINE r == IF Len(s) > room[h] THEN next_pow2(Len(s)) ELSE room[h]
<1>1. /\ header' = [header EXCEPT ![h] = s] /\ room' = [room EXCEPT ![h] = r]
      /\ total' = [total EXCEPT ![h] = n]
  BY DEF Set, CInv, CTypes
<1>2. Len(s) \in Nat /\ s \notin {Dead, Null}
  BY HeadersLive
<1>3. r \in Nat /\ Len(s) <= r
  <2>1. room[h] \in Nat
    BY DEF CInv, CTypes
  <2> QED
    BY <1>2, <2>1, NextPow2Above, SMTT(30)
<1> HIDE DEF r
<1>4. CTypes'
  <2>1. header' \in [Handles -> Headers \cup {Dead, Null}]
    BY <1>1 DEF CInv, CTypes
  <2>2. strayed' \in [Handles -> BOOLEAN]
    BY DEF CInv, CTypes
  <2>3. room' \in [Handles -> Nat] /\ total' \in [Handles -> Nat]
    BY <1>1, <1>3 DEF CInv, CTypes
  <2> QED
    BY <2>1, <2>2, <2>3 DEF CTypes
<1>5. /\ header'[h] = s /\ room'[h] = r /\ total'[h] = n /\ strayed'[h] = x
      /\ \A g \in Handles \ {h} : /\ header'[g] = header[g] /\ room'[g] = room[g]
                                  /\ total'[g] = total[g] /\ strayed'[g] = strayed[g]
  BY <1>1 DEF CInv, CTypes
<1>6. ChunksFull'
  <2> SUFFICES ASSUME NEW g \in Handles, CAlive(g)'
               PROVE  /\ total'[g] <= capacity(g)' /\ chunks(g)' <= room'[g]
                      /\ ~ strayed'[g] => \A c \in 1 .. chunks(g)' : Len(header'[g][c]) = ChunkSize
    BY DEF ChunksFull
  <2>1. CASE g = h
    BY <1>3, <1>5, <2>1 DEF capacity, chunks, AllFull
  <2>2. CASE g # h
    <3>1. CAlive(g)
      BY <1>5, <2>2 DEF CAlive
    <3>2. /\ total[g] <= capacity(g) /\ chunks(g) <= room[g]
          /\ ~ strayed[g] => \A c \in 1 .. chunks(g) : Len(header[g][c]) = ChunkSize
      BY <3>1 DEF CInv, ChunksFull
    <3>3. header'[g] = header[g] /\ room'[g] = room[g] /\ total'[g] = total[g]
          /\ strayed'[g] = strayed[g]
      BY <1>5, <2>2
    <3> QED
      BY <3>2, <3>3 DEF capacity, chunks
  <2> QED
    BY <2>1, <2>2
<1>7. Elements(h)' = Shown(s, n)
  BY <1>2, <1>5 DEF Elements, CAlive, Shown
<1>8. OthersStay(h)
  BY <1>5 DEF OthersStay, Elements, CAlive
<1> QED
  BY <1>4, <1>6, <1>7, <1>8 DEF CInv

-----------------------------------------------------------------------------
(* What a step is for the sequences the handles stand for *)

CVal == [h \in Handles |-> Elements(h)]

Good(h) == CInv' /\ (Whole!Next \/ CVal' = CVal)

LEMMA OneChanges ==
  ASSUME NEW h \in Handles, NEW s, NEW t, CInv', s = Elements(h), t = Elements(h)',
         OthersStay(h),
         Whole!New(s, t) \/ Whole!Destroy(s, t) \/ Whole!Write(s, t) \/ Whole!SizeChange(s, t)
  PROVE  Good(h)
<1>1. Whole!Next
  BY DEF OthersStay, Whole!Next
<1> QED
  BY <1>1 DEF Good

LEMMA PrefixOf ==
  ASSUME NEW S, NEW s \in Seq(S), NEW t \in Seq(S), Len(s) <= Len(t),
         \A i \in 1 .. Len(s) : s[i] = t[i]
  PROVE  Whole!IsPrefix(s, t)
<1> DEFINE n == Len(s)
           x == SubSeq(s, 1, n)
           y == SubSeq(t, 1, n)
<1>1. n \in Nat /\ Len(t) \in Nat /\ (\A i \in 1 .. n : s[i] \in S)
      /\ (\A i \in 1 .. n : t[i] \in S)
  BY LenProperties, ElementOfSeq
<1>2. x \in Seq(S) /\ Len(x) = n /\ \A i \in 1 .. n : x[i] = s[i]
  BY <1>1, SubSeqProperties
<1>3. y \in Seq(S) /\ Len(y) = n /\ \A i \in 1 .. n : y[i] = t[i]
  BY <1>1, SubSeqProperties
<1> HIDE DEF n, x, y
<1>4. x = y
  <2>1. \A i \in 1 .. n : x[i] = y[i]
    BY <1>2, <1>3 DEF n
  <2> QED
    BY <1>2, <1>3, <2>1, SeqEqual
<1> QED
  BY <1>4 DEF Whole!IsPrefix, x, y, n

\* The elements below both sizes stay.
LEMMA SizeChanged ==
  ASSUME NEW s \in Headers, NEW n \in Nat, NEW t \in Headers, NEW m \in Nat,
         \A i \in Nat \ {0} : i <= n /\ i <= m => Element(t, i) = Element(s, i)
  PROVE  Whole!SizeChange(Shown(s, n), Shown(t, m))
<1> DEFINE u == Shown(s, n)
           w == Shown(t, m)
<1>1. u \in Seq(Values) /\ Len(u) = n /\ w \in Seq(Values) /\ Len(w) = m
      /\ Whole!Alive(u) /\ Whole!Alive(w)
  BY ShownSequence DEF Whole!Alive
<1>2. /\ \A i \in 1 .. n : u[i] = Element(s, i)
      /\ \A i \in 1 .. m : w[i] = Element(t, i)
  BY DEF Shown
<1> HIDE DEF u, w
<1>3. \A i \in Nat \ {0} : i <= n /\ i <= m => u[i] = w[i]
  BY <1>2
<1>4. CASE n <= m
  <2>1. \A i \in 1 .. Len(u) : u[i] = w[i]
    BY <1>1, <1>3, <1>4
  <2>2. Whole!IsPrefix(u, w)
    BY <1>1, <1>4, <2>1, PrefixOf
  <2> QED
    BY <1>1, <2>2 DEF Whole!SizeChange, u, w
<1>5. CASE m < n
  <2>1. \A i \in 1 .. Len(w) : w[i] = u[i]
    BY <1>1, <1>3, <1>5
  <2>2. Whole!IsPrefix(w, u)
    BY <1>1, <1>5, <2>1, PrefixOf
  <2> QED
    BY <1>1, <2>2 DEF Whole!SizeChange, u, w
<1> QED
  BY <1>4, <1>5

\* A change of the chunks of a live handle that keeps the elements below both
\* sizes.
LEMMA SizeGood ==
  ASSUME CInv, NEW h \in Handles, CAlive(h), NEW t \in Headers, NEW m \in Nat,
         Set(h, t, m), strayed' = strayed,
         m <= Len(t) * ChunkSize, AllFull(header[h]) => AllFull(t),
         \A i \in Nat \ {0} : i <= total[h] /\ i <= m => Element(t, i) = Element(header[h], i)
  PROVE  Good(h)
<1> DEFINE s == header[h]
           n == total[h]
           x == strayed[h]
<1>1. s \in Headers /\ n \in Nat /\ Elements(h) = Shown(s, n) /\ (~ x => AllFull(s))
  BY LiveHandle
<1>2. x \in BOOLEAN /\ strayed' = [strayed EXCEPT ![h] = x]
  BY DEF CInv, CTypes
<1>3. ~ x => AllFull(t)
  BY <1>1
<1>4. CInv' /\ Elements(h)' = Shown(t, m) /\ OthersStay(h)
  <2> HIDE DEF x
  <2> QED
    BY <1>2, <1>3, SetHolds
<1>5. Whole!SizeChange(Shown(s, n), Shown(t, m))
  <2> HIDE DEF s, n
  <2>1. \A i \in Nat \ {0} : i <= n /\ i <= m => Element(t, i) = Element(s, i)
    BY DEF s, n
  <2> QED
    BY <1>1, <2>1, SizeChanged
<1> QED
  BY <1>1, <1>4, <1>5, OneChanges

-----------------------------------------------------------------------------
(* Constructors, assignment, destructor *)

LEMMA NewGood ==
  ASSUME CInv, NEW h \in Handles, NEW n \in Nat, CNew(h, n)
  PROVE  Good(h)
<1> DEFINE c == chunks_cover_(n)
           s == Resized(<<>>, c)
           t == Shown(s, n)
<1>1. c \in Nat \ {0} /\ n <= c * ChunkSize
  BY CoverEnough
<1>2. header[h] = Dead /\ Set(h, s, n) /\ strayed' = [strayed EXCEPT ![h] = FALSE]
  BY DEF CNew
<1> HIDE DEF c
<1>3. <<>> \in Headers /\ AllFull(<<>>)
  BY DEF Headers, AllFull
<1>4. s \in Headers /\ Len(s) = c /\ AllFull(s)
  BY <1>1, <1>3, ResizedChunks, ResizedFull
<1>5. \A i \in 1 .. n : Element(s, i) = Default
  <2> TAKE i \in 1 .. n
  <2> DEFINE m == c * ChunkSize
  <2>1. m \in Nat /\ n <= m
    BY <1>1, SizeType
  <2> HIDE DEF m
  <2>2. i \in Nat \ {0} /\ i <= m
    BY <2>1
  <2>3. Element(s, i) = Element(<<>>, i)
    BY <1>1, <1>3, <2>2, ElementResized DEF m
  <2>4. i - 1 \in Nat
    OBVIOUS
  <2>5. (i - 1) \div ChunkSize + 1 > 0
    BY <2>4, PlaceOf
  <2> DEFINE place == (i - 1) \div ChunkSize + 1
  <2>6. Element(<<>>, i) = Default
    <3>1. ~ (place <= Len(<<>>))
      <4>1. Len(<<>>) = 0 /\ place \in Nat
        BY <2>4, PlaceOf
      <4> QED
        BY <2>5, <4>1
    <3> QED
      BY <3>1 DEF Element
  <2> QED
    BY <2>3, <2>6
<1> HIDE DEF s
<1>6. CInv' /\ Elements(h)' = t /\ OthersStay(h)
  BY <1>1, <1>2, <1>4, SetHolds
<1>7. Elements(h) = Dead
  BY <1>2 DEF Elements, CAlive
<1>8. Len(t) = n /\ Whole!Alive(t)
  BY <1>4, ShownSequence DEF Whole!Alive
<1>9. t = [i \in 1 .. n |-> Default]
  BY <1>5 DEF Shown
<1> HIDE DEF t
<1>10. Whole!New(Dead, t)
  BY <1>8, <1>9 DEF Whole!New
<1> QED
  BY <1>6, <1>7, <1>10, OneChanges

\* A handle becomes what another is.
LEMMA CopyFields ==
  ASSUME CInv, NEW h \in Handles, NEW g \in Handles, CCopyFields(h, g), h # g,
         NEW hd, hd \in {header[g], Null},
         header' = [header EXCEPT ![h] = header[g], ![g] = hd]
  PROVE  /\ CInv' /\ Elements(h)' = Elements(g)
         /\ \A f \in Handles \ {h, g} : Elements(f)' = Elements(f)
         /\ Elements(g)' = IF hd = Null THEN Null ELSE Elements(g)
<1>1. /\ header'[h] = header[g] /\ room'[h] = room[g] /\ total'[h] = total[g]
      /\ strayed'[h] = strayed[g] /\ header'[g] = hd
      /\ room'[g] = room[g] /\ total'[g] = total[g] /\ strayed'[g] = strayed[g]
      /\ \A f \in Handles \ {h, g} : /\ header'[f] = header[f] /\ room'[f] = room[f]
                                     /\ total'[f] = total[f] /\ strayed'[f] = strayed[f]
  BY DEF CCopyFields, CInv, CTypes
<1>2. CTypes'
  <2>1. hd \in Headers \cup {Dead, Null} /\ header[g] \in Headers \cup {Dead, Null}
    BY DEF CInv, CTypes
  <2>2. header' \in [Handles -> Headers \cup {Dead, Null}]
    BY <2>1 DEF CInv, CTypes
  <2>3. strayed' \in [Handles -> BOOLEAN]
    BY DEF CInv, CTypes, CCopyFields
  <2>4. room' \in [Handles -> Nat] /\ total' \in [Handles -> Nat]
    BY DEF CInv, CTypes, CCopyFields
  <2> QED
    BY <2>2, <2>3, <2>4 DEF CTypes
<1>3. ASSUME NEW f \in Handles, CAlive(f)'
      PROVE  \E e \in Handles : /\ CAlive(e) /\ header'[f] = header[e] /\ room'[f] = room[e]
                                /\ total'[f] = total[e] /\ strayed'[f] = strayed[e]
  <2>1. CASE f = h
    BY <1>1, <1>3, <2>1 DEF CAlive
  <2>2. CASE f = g
    BY <1>1, <1>3, <2>2 DEF CAlive
  <2>3. CASE f # h /\ f # g
    BY <1>1, <1>3, <2>3 DEF CAlive
  <2> QED
    BY <2>1, <2>2, <2>3
<1>4. ChunksFull'
  <2> SUFFICES ASSUME NEW f \in Handles, CAlive(f)'
               PROVE  /\ total'[f] <= capacity(f)' /\ chunks(f)' <= room'[f]
                      /\ ~ strayed'[f] => \A c \in 1 .. chunks(f)' : Len(header'[f][c]) = ChunkSize
    BY DEF ChunksFull
  <2>1. PICK e \in Handles : /\ CAlive(e) /\ header'[f] = header[e] /\ room'[f] = room[e]
                             /\ total'[f] = total[e] /\ strayed'[f] = strayed[e]
    BY <1>3
  <2>2. /\ total[e] <= capacity(e) /\ chunks(e) <= room[e]
        /\ ~ strayed[e] => \A c \in 1 .. chunks(e) : Len(header[e][c]) = ChunkSize
    BY <2>1 DEF CInv, ChunksFull
  <2> QED
    BY <2>1, <2>2 DEF capacity, chunks
<1>5. /\ Elements(h)' = Elements(g)
      /\ \A f \in Handles \ {h, g} : Elements(f)' = Elements(f)
      /\ Elements(g)' = IF hd = Null THEN Null ELSE Elements(g)
  <2>1. ASSUME NEW f \in Handles, NEW e \in Handles,
               header'[f] = header[e], total'[f] = total[e]
        PROVE  Elements(f)' = Elements(e)
    <3> DEFINE value(s, n) == IF s \notin {Dead, Null} THEN Shown(s, n) ELSE s
    <3>1. Elements(f)' = value(header'[f], total'[f])
      BY DEF Elements, CAlive, Shown
    <3>2. Elements(e) = value(header[e], total[e])
      BY DEF Elements, CAlive, Shown
    <3> QED
      BY <2>1, <3>1, <3>2
  <2>2. hd = Null => Elements(g)' = Null
    BY <1>1 DEF Elements, CAlive
  <2>3. hd # Null => Elements(g)' = Elements(g)
    BY <1>1, <2>1
  <2> QED
    BY <1>1, <2>1, <2>2, <2>3
<1> QED
  BY <1>2, <1>4, <1>5 DEF CInv

LEMMA NotDead ==
  ASSUME CInv, NEW g \in Handles, header[g] # Dead
  PROVE  Elements(g) # Dead
<1>1. CASE CAlive(g)
  BY <1>1, LiveHandle, ShownSequence
<1>2. CASE ~ CAlive(g)
  BY <1>2 DEF Elements
<1> QED
  BY <1>1, <1>2

LEMMA CopyGood ==
  ASSUME CInv, NEW h \in Handles, NEW g \in Handles, CCopyCtor(h, g) \/ CAssign(h, g)
  PROVE  Good(h)
<1>1. CCopyFields(h, g) /\ h # g /\ header[g] # Dead /\ header' = [header EXCEPT ![h] = header[g]]
  BY DEF CCopyCtor, CAssign, CAlive
<1> DEFINE hd == header[g]
<1>2. hd \in {header[g], Null} /\ header' = [header EXCEPT ![h] = header[g], ![g] = hd]
  BY <1>1 DEF CInv, CTypes
<1> HIDE DEF hd
<1>3. /\ CInv' /\ Elements(h)' = Elements(g)
      /\ \A f \in Handles \ {h, g} : Elements(f)' = Elements(f)
      /\ Elements(g)' = IF hd = Null THEN Null ELSE Elements(g)
  BY <1>1, <1>2, CopyFields
<1>4. Elements(g)' = Elements(g)
  BY <1>3 DEF hd, Elements, CAlive
<1>5. CVal' = [CVal EXCEPT ![h] = CVal[g]] /\ CVal[g] # Dead
  BY <1>1, <1>3, <1>4, NotDead DEF CVal
<1>6. Whole!Copy(h, g)
  BY <1>5 DEF Whole!Copy, CVal
<1> QED
  BY <1>3, <1>6 DEF Good, Whole!Next

LEMMA MoveGood ==
  ASSUME CInv, NEW h \in Handles, NEW g \in Handles, CMoveCtor(h, g)
  PROVE  Good(h)
<1>1. CCopyFields(h, g) /\ h # g /\ header[h] = Dead /\ header[g] # Dead
      /\ header' = [header EXCEPT ![h] = header[g], ![g] = Null]
  BY DEF CMoveCtor
<1>2. /\ CInv' /\ Elements(h)' = Elements(g)
      /\ \A f \in Handles \ {h, g} : Elements(f)' = Elements(f)
      /\ Elements(g)' = Null
  BY <1>1, CopyFields, Null \in {header[g], Null}
<1>3. Elements(h) = Dead
  BY <1>1 DEF Elements, CAlive
<1>4. CVal' = [CVal EXCEPT ![h] = CVal[g], ![g] = Null] /\ CVal[g] # Dead /\ CVal[h] = Dead
  BY <1>1, <1>2, <1>3, NotDead DEF CVal
<1>5. Whole!Move(h, g)
  BY <1>4 DEF Whole!Move, CVal
<1> QED
  BY <1>2, <1>5 DEF Good, Whole!Next

LEMMA DestroyGood ==
  ASSUME CInv, NEW h \in Handles, CDestroy(h)
  PROVE  Good(h)
<1>1. /\ header[h] # Dead /\ header' = [header EXCEPT ![h] = Dead]
      /\ room' = [room EXCEPT ![h] = 0] /\ total' = [total EXCEPT ![h] = 0]
      /\ strayed' = [strayed EXCEPT ![h] = FALSE]
  BY DEF CDestroy
<1>2. CTypes'
  BY <1>1 DEF CInv, CTypes
<1>3. ChunksFull'
  <2> SUFFICES ASSUME NEW g \in Handles, CAlive(g)'
               PROVE  /\ total'[g] <= capacity(g)' /\ chunks(g)' <= room'[g]
                      /\ ~ strayed'[g] => \A c \in 1 .. chunks(g)' : Len(header'[g][c]) = ChunkSize
    BY DEF ChunksFull
  <2>1. g # h
    BY <1>1 DEF CAlive, CInv, CTypes
  <2>2. header'[g] = header[g] /\ room'[g] = room[g] /\ total'[g] = total[g]
        /\ strayed'[g] = strayed[g]
    BY <1>1, <2>1 DEF CInv, CTypes
  <2>3. CAlive(g)
    BY <2>2 DEF CAlive
  <2>4. /\ total[g] <= capacity(g) /\ chunks(g) <= room[g]
        /\ ~ strayed[g] => \A c \in 1 .. chunks(g) : Len(header[g][c]) = ChunkSize
    BY <2>3 DEF CInv, ChunksFull
  <2> QED
    BY <2>2, <2>4 DEF capacity, chunks
<1>4. Elements(h)' = Dead /\ OthersStay(h)
  BY <1>1 DEF Elements, CAlive, OthersStay, CInv, CTypes
<1>5. Whole!Destroy(Elements(h), Dead)
  BY <1>1, NotDead DEF Whole!Destroy
<1> QED
  BY <1>2, <1>3, <1>4, <1>5, OneChanges DEF CInv

-----------------------------------------------------------------------------
(* Size *)

\* Chunks are added or go at the end, and the size is within them.
LEMMA ResizedGood ==
  ASSUME CInv, NEW h \in Handles, CAlive(h), NEW n \in Nat, NEW m \in Nat,
         Set(h, Resized(header[h], n), m), strayed' = strayed, m <= n * ChunkSize
  PROVE  Good(h)
<1> DEFINE s == header[h]
           t == Resized(s, n)
<1>1. s \in Headers
  BY LiveHandle
<1>2. t \in Headers /\ Len(t) = n /\ (AllFull(s) => AllFull(t))
  BY <1>1, ResizedChunks, ResizedFull
<1>3. \A i \in Nat \ {0} : i <= total[h] /\ i <= m => Element(t, i) = Element(s, i)
  <2> TAKE i \in Nat \ {0}
  <2> HAVE i <= total[h] /\ i <= m
  <2> DEFINE x == n * ChunkSize
  <2>1. x \in Nat /\ m <= x
    BY SizeType
  <2> HIDE DEF x
  <2>2. i <= x
    BY <2>1
  <2> QED
    BY <1>1, <2>2, ElementResized DEF x
<1> HIDE DEF t
<1> QED
  BY <1>2, <1>3, SizeGood DEF t

LEMMA ChunkResizeGood ==
  ASSUME CInv, NEW h \in Handles, NEW n \in Nat, chunk_resize(h, n)
  PROVE  Good(h)
<1> DEFINE l == Len(header[h])
           cover == chunks_cover_(total[h])
           m == IF n < l /\ n < cover THEN n * ChunkSize ELSE total[h]
<1>1. CAlive(h) /\ Set(h, Resized(header[h], n), m) /\ strayed' = strayed
  BY DEF chunk_resize, chunks
<1>2. total[h] \in Nat /\ l \in Nat /\ total[h] <= l * ChunkSize
  BY <1>1, LiveHandle
<1>3. cover \in Nat \ {0} /\ total[h] <= cover * ChunkSize
  BY <1>2, CoverEnough
<1> HIDE DEF l, cover
<1>4. \A k \in Nat : k <= n => k * ChunkSize <= n * ChunkSize
  BY SizeType
<1> DEFINE nC == n * ChunkSize
           lC == l * ChunkSize
           cC == cover * ChunkSize
<1>5. nC \in Nat /\ lC \in Nat /\ cC \in Nat
  BY <1>2, <1>3, SizeType
<1>6. (l <= n => lC <= nC) /\ (cover <= n => cC <= nC)
  BY <1>2, <1>3, <1>4
<1>7. total[h] <= lC /\ total[h] <= cC /\ m = IF n < l /\ n < cover THEN nC ELSE total[h]
  BY <1>2, <1>3
<1> HIDE DEF nC, lC, cC, m
<1>8. m \in Nat /\ m <= nC
  BY <1>2, <1>3, <1>5, <1>6, <1>7
<1> QED
  BY <1>1, <1>8, ResizedGood DEF nC

\* The header is left as it is when it has the chunks.
LEMMA ReservedGood ==
  ASSUME CInv, NEW h \in Handles, CAlive(h), NEW n \in Nat, NEW m \in Nat,
         Set(h, Reserved(h, n), m), strayed' = strayed, m <= n \/ m <= total[h]
  PROVE  Good(h)
<1> DEFINE s == header[h]
           l == Len(s)
           c == chunks_cover_(n)
           lC == l * ChunkSize
           cC == c * ChunkSize
<1>1. s \in Headers /\ total[h] \in Nat /\ l \in Nat /\ total[h] <= lC /\ chunks(h) = l
  BY LiveHandle
<1>2. c \in Nat /\ n <= cC
  BY CoverEnough
<1>3. Reserved(h, n) = IF c > l THEN Resized(s, c) ELSE s
  BY <1>1 DEF Reserved
<1> HIDE DEF l, c
<1>4. lC \in Nat /\ cC \in Nat
  BY <1>1, <1>2, SizeType
<1>5. (c > l => lC <= cC) /\ (c <= l => cC <= lC)
  <2>1. lC = ChunkSize * l /\ cC = ChunkSize * c
    BY <1>1, <1>2, SizeType
  <2> HIDE DEF lC, cC
  <2> QED
    BY <1>1, <1>2, <2>1, SizeType, Monotone
<1> HIDE DEF lC, cC
<1>6. CASE c > l
  <2>1. m <= cC
    BY <1>1, <1>2, <1>4, <1>5, <1>6
  <2> QED
    BY <1>2, <1>3, <1>6, <2>1, ResizedGood DEF cC
<1>7. CASE ~ (c > l)
  <2>1. m <= lC
    BY <1>1, <1>2, <1>4, <1>5, <1>7
  <2> HIDE DEF s
  <2>2. Set(h, s, m) /\ m <= Len(s) * ChunkSize
    BY <1>3, <1>7, <2>1 DEF lC, l
  <2> QED
    BY <1>1, <2>2, SizeGood DEF s
<1> QED
  BY <1>6, <1>7

LEMMA reserveGood ==
  ASSUME CInv, NEW h \in Handles, NEW n \in Nat, reserve(h, n)
  PROVE  Good(h)
<1>1. CAlive(h) /\ Set(h, Reserved(h, n), total[h]) /\ strayed' = strayed
  BY DEF reserve
<1>2. total[h] \in Nat
  BY <1>1, LiveHandle
<1> QED
  BY <1>1, <1>2, ReservedGood

LEMMA resizeGood ==
  ASSUME CInv, NEW h \in Handles, NEW n \in Nat, resize(h, n)
  PROVE  Good(h)
<1>1. CAlive(h) /\ Set(h, Reserved(h, n), n) /\ strayed' = strayed
  BY DEF resize
<1> QED
  BY <1>1, ReservedGood

-----------------------------------------------------------------------------
(* Elements *)

LEMMA StutterGood ==
  ASSUME CInv, UNCHANGED <<header, room, total, strayed>>
  PROVE  CInv' /\ CVal' = CVal
<1>1. CTypes' /\ ChunksFull'
  BY DEF CInv, CTypes, ChunksFull, CAlive, capacity, chunks
<1>2. CVal' = CVal
  BY DEF CVal, Elements, CAlive
<1> QED
  BY <1>1, <1>2 DEF CInv

LEMMA AssignGood ==
  ASSUME CInv, NEW h \in Handles, NEW idx \in Nat, NEW v \in Values, Assign(h, idx, v)
  PROVE  Good(h)
<1> DEFINE s == header[h]
           n == total[h]
           t == Stored(s, idx, v)
           lC == Len(s) * ChunkSize
           x == strayed[h] \/ idx >= lC
<1>1. CAlive(h) /\ Set(h, t, n) /\ strayed' = [strayed EXCEPT ![h] = x]
  BY DEF Assign, capacity, chunks, CInv, CTypes
<1>2. s \in Headers /\ n \in Nat /\ Elements(h) = Shown(s, n) /\ (~ strayed[h] => AllFull(s))
      /\ Len(s) \in Nat /\ n <= lC
  BY <1>1, LiveHandle
<1>3. t \in Headers /\ Len(t) >= Len(s) /\ (AllFull(s) /\ idx < lC => AllFull(t))
  BY <1>2, StoredFull
<1>4. x \in BOOLEAN /\ lC \in Nat
  BY <1>2, SizeType
<1>5. ~ x => AllFull(t)
  <2> HIDE DEF lC, t, s
  <2> QED
    BY <1>2, <1>3, <1>4
<1>6. n <= Len(t) * ChunkSize
  <2> DEFINE tC == Len(t) * ChunkSize
  <2>1. Len(t) \in Nat
    BY <1>3, HeadersLive
  <2>2. lC = ChunkSize * Len(s) /\ tC = ChunkSize * Len(t)
    <3> HIDE DEF s, t
    <3> QED
      BY <1>2, <2>1, SizeType
  <2> HIDE DEF lC, tC, t, s, n
  <2>3. tC \in Nat /\ lC <= tC
    BY <1>2, <1>3, <2>1, <2>2, SizeType, Monotone, Smaller
  <2>4. n <= tC
    BY <1>2, <1>4, <2>3
  <2> QED
    BY <2>4 DEF tC
<1> HIDE DEF x
<1>7. \A i \in Nat \ {0} : Element(t, i) = IF i = idx + 1 THEN v ELSE Element(s, i)
  BY <1>2, ElementStored
<1> HIDE DEF t
<1>8. CInv' /\ Elements(h)' = Shown(t, n) /\ OthersStay(h)
  BY <1>1, <1>2, <1>3, <1>4, <1>5, <1>6, SetHolds
<1>9. CASE idx < n
  <2>1. Shown(t, n) = [Shown(s, n) EXCEPT ![idx + 1] = v]
    <3> HIDE DEF s, n
    <3> QED
      BY <1>2, <1>7 DEF Shown
  <2>2. idx + 1 \in DOMAIN Shown(s, n) /\ Whole!Alive(Shown(s, n))
    <3> HIDE DEF s, n
    <3> QED
      BY <1>2, <1>9, ShownSequence DEF Whole!Alive, Shown
  <2>3. Whole!Write(Shown(s, n), Shown(t, n))
    BY <2>1, <2>2 DEF Whole!Write
  <2> QED
    BY <1>2, <1>8, <2>3, OneChanges
<1>10. CASE ~ (idx < n)
  <2>1. Whole!SizeChange(Shown(s, n), Shown(t, n))
    <3> HIDE DEF s, n
    <3>1. \A i \in Nat \ {0} : i <= n /\ i <= n => Element(t, i) = Element(s, i)
      BY <1>2, <1>7, <1>10
    <3> QED
      BY <1>2, <1>3, <3>1, SizeChanged
  <2> QED
    BY <1>2, <1>8, <2>1, OneChanges
<1> QED
  BY <1>9, <1>10

LEMMA AppendChunkGood ==
  ASSUME CInv, NEW h \in Handles, append_chunk(h)
  PROVE  Good(h)
<1> DEFINE s == header[h]
           t == Append(s, Full)
<1>1. CAlive(h) /\ strayed' = strayed
  BY DEF append_chunk
<1>2. s \in Headers /\ total[h] \in Nat /\ Len(s) \in Nat /\ total[h] <= Len(s) * ChunkSize
  BY <1>1, LiveHandle
<1>3. CASE chunks(h) + 1 <= room[h]
  <2>1. UNCHANGED <<header, room, total, strayed>>
    BY <1>3 DEF append_chunk
  <2> QED
    BY <2>1, StutterGood DEF Good
<1>4. CASE ~ (chunks(h) + 1 <= room[h])
  <2>1. Set(h, t, total[h])
    BY <1>4 DEF append_chunk
  <2>2. t \in Headers /\ Len(t) = Len(s) + 1 /\ (AllFull(s) => AllFull(t))
    BY <1>2, AppendedFull
  <2>3. \A i \in Nat \ {0} : Element(t, i) = Element(s, i)
    BY <1>2, ElementAppended
  <2> HIDE DEF t, s
  <2>4. total[h] <= Len(t) * ChunkSize
    <3>1. (Len(s) + 1) * ChunkSize = Len(s) * ChunkSize + ChunkSize /\ Len(s) * ChunkSize \in Nat
      BY <1>2, SizeType
    <3> QED
      BY <1>2, <2>2, <3>1, SizeType
  <2> QED
    BY <1>1, <1>2, <2>1, <2>2, <2>3, <2>4, SizeGood DEF s
<1> QED
  BY <1>3, <1>4

\* The element after the last one is stored in the chunks s, which hold what
\* those of h do and have room for it.
LEMMA PushGood ==
  ASSUME CInv, NEW h \in Handles, CAlive(h), NEW s \in Headers, NEW v \in Values,
         Set(h, Stored(s, total[h], v), total[h] + 1), strayed' = strayed,
         total[h] < Len(s) * ChunkSize, AllFull(header[h]) => AllFull(s),
         \A i \in Nat \ {0} : Element(s, i) = Element(header[h], i)
  PROVE  Good(h)
<1> DEFINE n == total[h]
           t == Stored(s, n, v)
           lC == Len(s) * ChunkSize
           tC == Len(t) * ChunkSize
<1>1. n \in Nat
  BY LiveHandle
<1>2. t \in Headers /\ Len(t) >= Len(s) /\ (AllFull(s) => AllFull(t))
  BY <1>1, StoredFull
<1>3. \A i \in Nat \ {0} : Element(t, i) = IF i = n + 1 THEN v ELSE Element(s, i)
  BY <1>1, ElementStored
<1>4. Len(s) \in Nat /\ Len(t) \in Nat
  BY <1>2, HeadersLive
<1> HIDE DEF t
<1>5. n + 1 <= Len(t) * ChunkSize
  <2>1. lC = ChunkSize * Len(s) /\ tC = ChunkSize * Len(t)
    BY <1>4, SizeType
  <2>2. n < lC
    OBVIOUS
  <2> HIDE DEF lC, tC
  <2>3. tC \in Nat /\ lC \in Nat /\ lC <= tC
    BY <1>2, <1>4, <2>1, SizeType, Monotone, Smaller
  <2>4. n + 1 <= tC
    BY <1>1, <2>2, <2>3
  <2> QED
    BY <2>4 DEF tC
<1>6. \A i \in Nat \ {0} : i <= n /\ i <= n + 1 => Element(t, i) = Element(header[h], i)
  BY <1>1, <1>3
<1>7. n + 1 \in Nat /\ Set(h, t, n + 1)
  BY <1>1 DEF t
<1>8. AllFull(header[h]) => AllFull(t)
  BY <1>2
<1> QED
  BY <1>2, <1>5, <1>6, <1>7, <1>8, SizeGood

LEMMA PushBackGood ==
  ASSUME CInv, NEW h \in Handles, NEW v \in Values, push_back(h, v)
  PROVE  Good(h)
<1> DEFINE s == header[h]
           n == total[h]
           lC == Len(s) * ChunkSize
           s2 == Append(s, Full)
<1>1. CAlive(h) /\ strayed' = strayed
  BY DEF push_back
<1>2. s \in Headers /\ n \in Nat /\ Len(s) \in Nat /\ n <= lC /\ capacity(h) = lC
  BY <1>1, LiveHandle DEF capacity
<1>3. CASE n < lC
  <2>1. Set(h, Stored(s, n, v), n + 1)
    BY <1>2, <1>3 DEF push_back
  <2> QED
    BY <1>1, <1>2, <1>3, <2>1, PushGood
<1>4. CASE ~ (n < lC) /\ chunks(h) + 1 <= room[h]
  <2>1. UNCHANGED <<header, room, total, strayed>>
    BY <1>2, <1>4 DEF push_back
  <2> QED
    BY <2>1, StutterGood DEF Good
<1>5. CASE ~ (n < lC) /\ ~ (chunks(h) + 1 <= room[h])
  <2>1. Set(h, Stored(s2, n, v), n + 1)
    BY <1>2, <1>5 DEF push_back
  <2>2. s2 \in Headers /\ Len(s2) = Len(s) + 1 /\ (AllFull(s) => AllFull(s2))
    BY <1>2, AppendedFull
  <2>3. \A i \in Nat \ {0} : Element(s2, i) = Element(s, i)
    BY <1>2, ElementAppended
  <2> HIDE DEF s2
  <2>4. n < Len(s2) * ChunkSize
    <3>1. (Len(s) + 1) * ChunkSize = lC + ChunkSize /\ lC \in Nat
      BY <1>2, SizeType
    <3> QED
      BY <1>2, <2>2, <3>1, SizeType
  <2> QED
    BY <1>1, <2>1, <2>2, <2>3, <2>4, PushGood
<1> QED
  BY <1>3, <1>4, <1>5

-----------------------------------------------------------------------------
(* Every step *)

LEMMA StepGood ==
  ASSUME CInv, NEW h \in Handles, CStep(h)
  PROVE  Good(h)
<1>0. ASSUME NEW n \in 0 .. MaxChunks * ChunkSize
      PROVE  n \in Nat
  OBVIOUS
<1>1. ASSUME NEW n \in 0 .. MaxChunks * ChunkSize, CNew(h, n) PROVE Good(h)
  BY <1>0, <1>1, NewGood
<1>2. ASSUME NEW n \in 0 .. MaxChunks * ChunkSize, reserve(h, n) PROVE Good(h)
  BY <1>0, <1>2, reserveGood
<1>3. ASSUME NEW n \in 0 .. MaxChunks * ChunkSize, resize(h, n) PROVE Good(h)
  BY <1>0, <1>3, resizeGood
<1>4. ASSUME NEW g \in Handles, CCopyCtor(h, g) \/ CAssign(h, g) PROVE Good(h)
  BY <1>4, CopyGood
<1>5. ASSUME NEW g \in Handles, CMoveCtor(h, g) PROVE Good(h)
  BY <1>5, MoveGood
<1>6. ASSUME NEW n \in 0 .. MaxChunks, chunk_resize(h, n) PROVE Good(h)
  <2>1. n \in Nat
    OBVIOUS
  <2> QED
    BY <1>6, <2>1, ChunkResizeGood
<1>7. ASSUME NEW idx \in 0 .. MaxChunks * ChunkSize - 1, NEW v \in Values, Assign(h, idx, v)
      PROVE  Good(h)
  <2>1. idx \in Nat
    OBVIOUS
  <2> QED
    BY <1>7, <2>1, AssignGood
<1>8. ASSUME NEW v \in Values, push_back(h, v) PROVE Good(h)
  BY <1>8, PushBackGood
<1>9. ASSUME CDestroy(h) PROVE Good(h)
  BY <1>9, DestroyGood
<1>10. ASSUME shrink_to_fit(h) PROVE Good(h)
  <2>1. CAlive(h) /\ chunk_resize(h, chunks_cover_(total[h]))
    BY <1>10 DEF shrink_to_fit
  <2>2. chunks_cover_(total[h]) \in Nat
    BY <2>1, LiveHandle, CoverEnough
  <2> QED
    BY <2>1, <2>2, ChunkResizeGood
<1>11. ASSUME append_chunk(h) PROVE Good(h)
  BY <1>11, AppendChunkGood
<1> QED
  BY <1>1, <1>2, <1>3, <1>4, <1>5, <1>6, <1>7, <1>8, <1>9, <1>10, <1>11 DEF CStep

LEMMA InitCInv ==
  ASSUME CInit
  PROVE  CInv
BY DEF CInit, CInv, CTypes, ChunksFull, CAlive

\* The invariant holds in every state, for every chunk size.
THEOREM CInvHolds == CSpec => []CInv
<1>1. CInit => CInv
  BY InitCInv
<1>2. CInv /\ [CNext]_cvars => CInv'
  BY StepGood, StutterGood DEF CNext, Good, cvars
<1> QED
  BY <1>1, <1>2, PTL DEF CSpec

\* The size is within the chunks and the chunks within the header's room, and
\* they are whole unless an index past them was assigned to: through every
\* growing, shrinking, copy and move, operator[] const finds its element.
THEOREM ChunksFullHolds == CSpec => []ChunksFull
<1>1. CInv => ChunksFull
  BY DEF CInv
<1> QED
  BY <1>1, CInvHolds, PTL

\* An array of chunks is a sequence: every step is one that a program with a
\* plain sequence in each handle takes.
THEOREM ImplementsChunkValuesHolds == CSpec => ImplementsChunkValues
<1>1. CInit => Whole!Init
  BY DEF CInit, Whole!Init, Elements, CAlive
<1>2. CInv /\ [CNext]_cvars => [Whole!Next]_CVal
  BY StepGood, StutterGood DEF CNext, Good, cvars
<1> QED
  BY <1>1, <1>2, CInvHolds, PTL DEF CSpec, ImplementsChunkValues, Whole!Spec, CVal
=============================================================================
