---------------------------- MODULE SimlogProofs ----------------------------
(***************************************************************************)
(* Proofs about Simlog, for every set of threads and streams, any sizes    *)
(* of the buffer and any number of lines and resets.                       *)
(***************************************************************************)
EXTENDS Simlog, ProofLemmas

Entry == [line : Nat, stream : Streams]

Types ==
    /\ enable \in BOOLEAN /\ size \in Sizes
    /\ stream_type \in Streams /\ ostream \in Streams
    /\ buff \in Seq(Nat) /\ pending \in Seq(Nat)
    /\ out \in Seq(Entry) /\ accepted \in Seq(Entry)
    /\ pc \in [Threads -> {"free", "reset_flush", "reset_ostream", "reset_buff"}]
    /\ alive \in BOOLEAN /\ quiet \in BOOLEAN
    /\ safe \in Nat /\ safe <= Len(accepted)

(* The lines alone, without the streams: those of Held, in its order. *)

LinesOf(entries) == [i \in 1 .. Len(entries) |-> entries[i].line]
HeldLines == (LinesOf(out) \o pending) \o buff

\* The lines are some of 1 .. n, each once.
Distinct(lines, n) ==
    /\ \A i \in 1 .. Len(lines) : lines[i] \in 1 .. n
    /\ \A i, j \in 1 .. Len(lines) : lines[i] = lines[j] => i = j

OnceInv == Distinct(HeldLines, Len(accepted))

(* A program that keeps the others from writing during a reset. *)

OneResets == \A t, u \in Threads : pc[t] # "free" /\ pc[u] # "free" => t = u

FlushedBefore ==
    \A t \in Threads : pc[t] \in {"reset_ostream", "reset_buff"} => buff = <<>> /\ pending = <<>>

NoBuffNoLines == ~enable /\ buff # <<>> => \E t \in Threads : pc[t] = "reset_flush"

QuietInv == quiet => OneResets /\ FlushedBefore /\ NoBuffNoLines

IInv == Types /\ BuffBounded /\ OnceInv /\ QuietInv /\ StreamsThenBuffer /\ CrashLosesTail

-----------------------------------------------------------------------------
(* Sequences of lines and of entries *)

Marked(lines, st) == [i \in DOMAIN lines |-> [line |-> lines[i], stream |-> st]]

\* Lines on a stream are entries, and their lines are those lines again.
LEMMA MarkedLemma ==
  ASSUME NEW st \in Streams, NEW s \in Seq(Nat)
  PROVE  /\ Marked(s, st) \in Seq(Entry)
         /\ Len(Marked(s, st)) = Len(s)
         /\ LinesOf(Marked(s, st)) = s
<1> DEFINE m == Marked(s, st)
<1>1. Len(s) \in Nat /\ s \in [1 .. Len(s) -> Nat] /\ DOMAIN s = 1 .. Len(s)
  BY LenProperties
<1>2. m \in [1 .. Len(s) -> Entry]
  BY <1>1 DEF Marked, Entry
<1>3. m \in Seq(Entry) /\ Len(m) = Len(s)
  BY <1>1, <1>2, FunctionIsSeq
<1>4. \A i \in 1 .. Len(s) : m[i].line = s[i]
  BY <1>1 DEF Marked
<1>5. LinesOf(m) = [i \in 1 .. Len(s) |-> s[i]]
  BY <1>3, <1>4 DEF LinesOf
<1>6. LinesOf(m) = s
  BY <1>1, <1>5
<1> QED
  BY <1>3, <1>6

LEMMA MarkedConcat ==
  ASSUME NEW st \in Streams, NEW s \in Seq(Nat), NEW t \in Seq(Nat)
  PROVE  Marked(s \o t, st) = Marked(s, st) \o Marked(t, st)
<1> DEFINE a == Marked(s \o t, st)
           b == Marked(s, st) \o Marked(t, st)
<1>1. /\ s \o t \in Seq(Nat) /\ Len(s \o t) = Len(s) + Len(t)
      /\ \A i \in 1 .. Len(s) + Len(t) :
             (s \o t)[i] = IF i <= Len(s) THEN s[i] ELSE t[i - Len(s)]
  BY ConcatProperties
<1>2. a \in Seq(Entry) /\ Len(a) = Len(s) + Len(t)
  BY <1>1, MarkedLemma
<1>3. /\ Marked(s, st) \in Seq(Entry) /\ Len(Marked(s, st)) = Len(s)
      /\ Marked(t, st) \in Seq(Entry) /\ Len(Marked(t, st)) = Len(t)
  BY MarkedLemma
<1>4. /\ b \in Seq(Entry) /\ Len(b) = Len(s) + Len(t)
      /\ \A i \in 1 .. Len(s) + Len(t) :
             b[i] = IF i <= Len(s) THEN Marked(s, st)[i] ELSE Marked(t, st)[i - Len(s)]
  <2> DEFINE x == Marked(s, st)
             y == Marked(t, st)
  <2>1. x \in Seq(Entry) /\ y \in Seq(Entry) /\ Len(x) = Len(s) /\ Len(y) = Len(t)
    BY <1>3
  <2> HIDE DEF x, y
  <2>2. /\ x \o y \in Seq(Entry) /\ Len(x \o y) = Len(x) + Len(y)
        /\ \A i \in 1 .. Len(x) + Len(y) :
               (x \o y)[i] = IF i <= Len(x) THEN x[i] ELSE y[i - Len(x)]
    BY <2>1, ConcatProperties
  <2> QED
    BY <2>1, <2>2 DEF x, y
<1>5. Len(s) \in Nat /\ Len(t) \in Nat /\ DOMAIN s = 1 .. Len(s) /\ DOMAIN t = 1 .. Len(t)
      /\ DOMAIN (s \o t) = 1 .. Len(s) + Len(t)
  BY <1>1, LenProperties
<1>6. ASSUME NEW i \in 1 .. Len(s) + Len(t)
      PROVE  a[i] = b[i]
  <2>1. a[i] = [line |-> (s \o t)[i], stream |-> st]
    BY <1>5 DEF Marked
  <2>2. CASE i <= Len(s)
    <3>1. i \in DOMAIN s
      BY <2>2, <1>5
    <3> QED
      BY <2>1, <2>2, <3>1, <1>1, <1>4 DEF Marked
  <2>3. CASE ~(i <= Len(s))
    <3>1. i - Len(s) \in DOMAIN t
      BY <2>3, <1>5
    <3> QED
      BY <2>1, <2>3, <3>1, <1>1, <1>4 DEF Marked
  <2> QED
    BY <2>2, <2>3
<1> HIDE DEF a, b
<1>7. a = b
  BY <1>2, <1>4, <1>6, SeqEqual
<1> QED
  BY <1>7 DEF a, b

LEMMA LinesOfLemma ==
  ASSUME NEW s \in Seq(Entry)
  PROVE  LinesOf(s) \in Seq(Nat) /\ Len(LinesOf(s)) = Len(s)
<1>1. Len(s) \in Nat /\ s \in [1 .. Len(s) -> Entry]
  BY LenProperties
<1>2. LinesOf(s) \in [1 .. Len(s) -> Nat]
  BY <1>1 DEF LinesOf, Entry
<1> QED
  BY <1>1, <1>2, FunctionIsSeq

LEMMA LinesOfConcat ==
  ASSUME NEW s \in Seq(Entry), NEW t \in Seq(Entry)
  PROVE  LinesOf(s \o t) = LinesOf(s) \o LinesOf(t)
<1> DEFINE a == LinesOf(s \o t)
           b == LinesOf(s) \o LinesOf(t)
<1>1. /\ s \o t \in Seq(Entry) /\ Len(s \o t) = Len(s) + Len(t)
      /\ \A i \in 1 .. Len(s) + Len(t) :
             (s \o t)[i] = IF i <= Len(s) THEN s[i] ELSE t[i - Len(s)]
  BY ConcatProperties
<1>2. a \in Seq(Nat) /\ Len(a) = Len(s) + Len(t)
  BY <1>1, LinesOfLemma
<1>3. /\ LinesOf(s) \in Seq(Nat) /\ Len(LinesOf(s)) = Len(s)
      /\ LinesOf(t) \in Seq(Nat) /\ Len(LinesOf(t)) = Len(t)
  BY LinesOfLemma
<1>4. /\ b \in Seq(Nat) /\ Len(b) = Len(s) + Len(t)
      /\ \A i \in 1 .. Len(s) + Len(t) :
             b[i] = IF i <= Len(s) THEN LinesOf(s)[i] ELSE LinesOf(t)[i - Len(s)]
  <2> DEFINE x == LinesOf(s)
             y == LinesOf(t)
  <2>1. x \in Seq(Nat) /\ y \in Seq(Nat) /\ Len(x) = Len(s) /\ Len(y) = Len(t)
    BY <1>3
  <2> HIDE DEF x, y
  <2>2. /\ x \o y \in Seq(Nat) /\ Len(x \o y) = Len(x) + Len(y)
        /\ \A i \in 1 .. Len(x) + Len(y) :
               (x \o y)[i] = IF i <= Len(x) THEN x[i] ELSE y[i - Len(x)]
    BY <2>1, ConcatProperties
  <2> QED
    BY <2>1, <2>2 DEF x, y
<1>5. Len(s) \in Nat /\ Len(t) \in Nat
  BY LenProperties
<1>6. ASSUME NEW i \in 1 .. Len(s) + Len(t)
      PROVE  a[i] = b[i]
  BY <1>1, <1>4, <1>5 DEF LinesOf
<1> HIDE DEF a, b
<1>7. a = b
  BY <1>2, <1>4, <1>6, SeqEqual
<1> QED
  BY <1>7 DEF a, b

\* What the streams passed on and hold, with the lines behind it, is what they
\* passed on before with the lines one after the other.
LEMMA HeldLemma ==
  ASSUME NEW st \in Streams, NEW o \in Seq(Entry), NEW p \in Seq(Nat), NEW b \in Seq(Nat)
  PROVE  /\ (o \o Marked(p, st)) \o Marked(b, st) \in Seq(Entry)
         /\ Len((o \o Marked(p, st)) \o Marked(b, st)) = Len(o) + Len(p) + Len(b)
         /\ o \o Marked(p \o b, st) = (o \o Marked(p, st)) \o Marked(b, st)
         /\ o \o Marked(p, st) \in Seq(Entry)
         /\ LinesOf((o \o Marked(p, st)) \o Marked(b, st)) = (LinesOf(o) \o p) \o b
         /\ LinesOf(o \o Marked(p, st)) = LinesOf(o) \o p
<1> DEFINE x == Marked(p, st)
           y == Marked(b, st)
<1>1. /\ x \in Seq(Entry) /\ Len(x) = Len(p) /\ LinesOf(x) = p
      /\ y \in Seq(Entry) /\ Len(y) = Len(b) /\ LinesOf(y) = b
      /\ Marked(p \o b, st) = x \o y
  BY MarkedLemma, MarkedConcat
<1> HIDE DEF x, y
<1>2. /\ o \o x \in Seq(Entry) /\ Len(o \o x) = Len(o) + Len(x)
      /\ LinesOf(o \o x) = LinesOf(o) \o LinesOf(x)
  BY <1>1, ConcatProperties, LinesOfConcat
<1>3. /\ (o \o x) \o y \in Seq(Entry) /\ Len((o \o x) \o y) = Len(o \o x) + Len(y)
      /\ LinesOf((o \o x) \o y) = LinesOf(o \o x) \o LinesOf(y)
  BY <1>1, <1>2, ConcatProperties, LinesOfConcat
<1>4. o \o (x \o y) = (o \o x) \o y
  <2>1. x \in Seq(Entry) /\ y \in Seq(Entry)
    BY <1>1
  <2> DEFINE E == Entry
  <2>2. x \in Seq(E) /\ y \in Seq(E) /\ o \in Seq(E)
    BY <2>1
  <2> HIDE DEF E
  <2> QED
    BY <2>2, ConcatAssociative, SMTT(30)
<1> QED
  BY <1>1, <1>2, <1>3, <1>4 DEF x, y

LEMMA OneLine ==
  ASSUME NEW n \in Nat, NEW s \in Seq(Nat), NEW st \in Streams
  PROVE  /\ <<n>> \in Seq(Nat) /\ <<>> \in Seq(Nat)
         /\ Append(s, n) = s \o <<n>>
         /\ Append(s, n) \in Seq(Nat) /\ Len(Append(s, n)) = Len(s) + 1
         /\ s \o <<>> = s
         /\ Marked(<<n>>, st) = <<[line |-> n, stream |-> st]>>
         /\ Marked(<<>>, st) = <<>>
<1>1. Marked(<<n>>, st) = <<[line |-> n, stream |-> st]>>
  BY DEF Marked
<1>2. Marked(<<>>, st) = <<>>
  BY DEF Marked
<1> QED
  BY <1>1, <1>2, AppendIsConcat, AppendProperties, ConcatEmptySeq, EmptySeq

-----------------------------------------------------------------------------
(* Lines that are there once *)

LEMMA DistinctMore ==
  ASSUME NEW s \in Seq(Nat), NEW n \in Nat, Distinct(s, n)
  PROVE  Distinct(s \o <<n + 1>>, n + 1)
<1>1. <<n + 1>> \in Seq(Nat) /\ Len(<<n + 1>>) = 1
  OBVIOUS
<1>2. /\ Len(s) \in Nat /\ Len(s \o <<n + 1>>) = Len(s) + 1
      /\ \A i \in 1 .. Len(s) + 1 :
             (s \o <<n + 1>>)[i] = IF i <= Len(s) THEN s[i] ELSE n + 1
  BY <1>1, ConcatProperties, LenProperties
<1> QED
  BY <1>2 DEF Distinct

LEMMA DistinctAmong ==
  ASSUME NEW s \in Seq(Nat), NEW t \in Seq(Nat), NEW n \in Nat, Distinct(s \o t, n)
  PROVE  /\ Distinct((s \o <<n + 1>>) \o t, n + 1)
         /\ Distinct(s, n)
<1> DEFINE x == s \o <<n + 1>>
<1>1. /\ Len(s) \in Nat /\ Len(t) \in Nat
      /\ Len(s \o t) = Len(s) + Len(t)
      /\ \A i \in 1 .. Len(s) + Len(t) :
             (s \o t)[i] = IF i <= Len(s) THEN s[i] ELSE t[i - Len(s)]
  BY ConcatProperties, LenProperties
<1>2. /\ x \in Seq(Nat) /\ Len(x) = Len(s) + 1
      /\ \A i \in 1 .. Len(s) + 1 : x[i] = IF i <= Len(s) THEN s[i] ELSE n + 1
  <2>1. <<n + 1>> \in Seq(Nat) /\ Len(<<n + 1>>) = 1
    OBVIOUS
  <2> QED
    BY <1>1, <2>1, ConcatProperties
<1> HIDE DEF x
<1>3. /\ Len(x \o t) = Len(s) + 1 + Len(t)
      /\ \A i \in 1 .. Len(s) + 1 + Len(t) :
             (x \o t)[i] = IF i <= Len(s) + 1 THEN x[i] ELSE t[i - (Len(s) + 1)]
  <2>1. /\ Len(x \o t) = Len(x) + Len(t)
        /\ \A i \in 1 .. Len(x) + Len(t) :
               (x \o t)[i] = IF i <= Len(x) THEN x[i] ELSE t[i - Len(x)]
    BY <1>2, ConcatProperties
  <2> QED
    BY <1>1, <1>2, <2>1
<1>4. /\ \A i \in 1 .. Len(s) : s[i] \in 1 .. n
      /\ \A i \in 1 .. Len(t) : t[i] \in 1 .. n
      /\ \A i, j \in 1 .. Len(s) : s[i] = s[j] => i = j
      /\ \A i, j \in 1 .. Len(t) : t[i] = t[j] => i = j
      /\ \A i \in 1 .. Len(s), j \in 1 .. Len(t) : s[i] # t[j]
  <2>1. \A i \in 1 .. Len(s) : i \in 1 .. Len(s) + Len(t) /\ (s \o t)[i] = s[i]
    BY <1>1
  <2>2. \A i \in 1 .. Len(t) : /\ i + Len(s) \in 1 .. Len(s) + Len(t)
                               /\ (s \o t)[i + Len(s)] = t[i]
    BY <1>1
  <2>3. /\ \A i \in 1 .. Len(s) + Len(t) : (s \o t)[i] \in 1 .. n
        /\ \A i, j \in 1 .. Len(s) + Len(t) : (s \o t)[i] = (s \o t)[j] => i = j
    BY <1>1 DEF Distinct
  <2>4. \A i \in 1 .. Len(s) : s[i] \in 1 .. n
    BY <2>1, <2>3
  <2>5. \A i \in 1 .. Len(t) : t[i] \in 1 .. n
    BY <2>2, <2>3
  <2>6. \A i, j \in 1 .. Len(s) : s[i] = s[j] => i = j
    BY <2>1, <2>3
  <2>7. \A i, j \in 1 .. Len(t) : t[i] = t[j] => i = j
    <3> SUFFICES ASSUME NEW i \in 1 .. Len(t), NEW j \in 1 .. Len(t), t[i] = t[j]
                 PROVE  i = j
      OBVIOUS
    <3>1. i + Len(s) = j + Len(s)
      BY <2>2, <2>3
    <3> QED
      BY <1>1, <3>1
  <2>8. \A i \in 1 .. Len(s), j \in 1 .. Len(t) : s[i] # t[j]
    <3> SUFFICES ASSUME NEW i \in 1 .. Len(s), NEW j \in 1 .. Len(t), s[i] = t[j]
                 PROVE  i = j + Len(s)
      BY <1>1, SMTT(30)
    <3> QED
      BY <2>1, <2>2, <2>3
  <2> QED
    BY <2>4, <2>5, <2>6, <2>7, <2>8
<1>5. Distinct(s, n)
  BY <1>4 DEF Distinct
<1>6. \A i \in 1 .. Len(s) + 1 + Len(t) :
         (x \o t)[i] = IF i <= Len(s) THEN s[i] ELSE IF i = Len(s) + 1 THEN n + 1 ELSE t[i - (Len(s) + 1)]
  BY <1>1, <1>2, <1>3
<1>7. Distinct(x \o t, n + 1)
  <2> DEFINE y == x \o t
  <2>0. /\ Len(y) = Len(s) + 1 + Len(t)
        /\ \A k \in 1 .. Len(s) + 1 + Len(t) :
             \/ k \in 1 .. Len(s) /\ y[k] = s[k]
             \/ k = Len(s) + 1 /\ y[k] = n + 1
             \/ k - (Len(s) + 1) \in 1 .. Len(t) /\ y[k] = t[k - (Len(s) + 1)]
    BY <1>1, <1>3, <1>6
  <2> HIDE DEF y
  <2>1. \A i \in 1 .. Len(y) : y[i] \in 1 .. n + 1
    <3> SUFFICES ASSUME NEW k \in 1 .. Len(s) + 1 + Len(t)
                 PROVE  y[k] \in 1 .. n + 1
      BY <2>0
    <3> QED
      BY <1>4, <2>0, SMTT(30)
  <2>2. \A i, j \in 1 .. Len(y) : y[i] = y[j] => i = j
    <3> SUFFICES ASSUME NEW i \in 1 .. Len(s) + 1 + Len(t), NEW j \in 1 .. Len(s) + 1 + Len(t),
                        y[i] = y[j]
                 PROVE  i = j
      BY <2>0
    <3>1. \A m \in 1 .. n : m # n + 1
      OBVIOUS
    <3>2. \/ i \in 1 .. Len(s) /\ y[i] = s[i] /\ s[i] # n + 1
          \/ i = Len(s) + 1 /\ y[i] = n + 1
          \/ /\ i - (Len(s) + 1) \in 1 .. Len(t)
             /\ y[i] = t[i - (Len(s) + 1)] /\ t[i - (Len(s) + 1)] # n + 1
      BY <1>4, <2>0, <3>1
    <3>3. \/ j \in 1 .. Len(s) /\ y[j] = s[j] /\ s[j] # n + 1
          \/ j = Len(s) + 1 /\ y[j] = n + 1
          \/ /\ j - (Len(s) + 1) \in 1 .. Len(t)
             /\ y[j] = t[j - (Len(s) + 1)] /\ t[j - (Len(s) + 1)] # n + 1
      BY <1>4, <2>0, <3>1
    <3>4. i - (Len(s) + 1) = j - (Len(s) + 1) => i = j
      BY <1>1
    <3> QED
      BY <1>4, <3>2, <3>3, <3>4
  <2> QED
    BY <2>1, <2>2 DEF Distinct, y
<1> QED
  BY <1>5, <1>7 DEF x

LEMMA PrefixLemma ==
  ASSUME NEW s \in Seq(Entry), NEW u \in Seq(Entry), NEW t \in Seq(Entry), IsPrefix(s, u)
  PROVE  IsPrefix(s, u \o t)
<1>1. /\ Len(s) \in Nat /\ Len(u) \in Nat /\ Len(t) \in Nat
      /\ Len(u \o t) = Len(u) + Len(t)
      /\ Len(s) <= Len(u) /\ SubSeq(s, 1, Len(s)) = SubSeq(u, 1, Len(s))
  BY ConcatProperties, LenProperties DEF IsPrefix
<1>2. CASE Len(s) = 0
  BY <1>1, <1>2, SubSeqEmpty DEF IsPrefix
<1>3. CASE Len(s) # 0
  <2>1. SubSeq(u \o t, 1, Len(s)) = SubSeq(u, 1, Len(s))
    BY <1>1, <1>3, SubSeqOfConcat1
  <2> QED
    BY <1>1, <2>1 DEF IsPrefix
<1> QED
  BY <1>2, <1>3

LEMMA PrefixOfConcat ==
  ASSUME NEW s \in Seq(Entry), NEW t \in Seq(Entry)
  PROVE  IsPrefix(s, s) /\ IsPrefix(s, s \o t)
<1>1. IsPrefix(s, s)
  BY LenProperties DEF IsPrefix
<1> QED
  BY <1>1, PrefixLemma

-----------------------------------------------------------------------------
(* The steps *)

LEMMA HeldIs ==
  /\ \A s : On(s) = Marked(s, ostream)
  /\ Held = (out \o Marked(pending, ostream)) \o Marked(buff, ostream)
  /\ Held' = (out' \o Marked(pending', ostream')) \o Marked(buff', ostream')
  /\ HeldLines' = (LinesOf(out') \o pending') \o buff'
<1>1. Held' = (out' \o On(pending)') \o On(buff)'
  BY DEF Held
<1>2. On(pending)' = Marked(pending', ostream') /\ On(buff)' = Marked(buff', ostream')
  BY DEF On, Marked
<1>3. HeldLines' = (LinesOf(out') \o pending') \o buff'
  BY DEF HeldLines, LinesOf
<1> QED
  BY <1>1, <1>2, <1>3 DEF Held, On, Marked

\* Nothing waiting: what the streams passed on is all there is.
LEMMA NothingHeld ==
  ASSUME out' \in Seq(Entry), ostream' \in Streams, pending' = <<>>, buff' = <<>>
  PROVE  Held' = out' /\ HeldLines' = LinesOf(out')
<1>1. Marked(<<>>, ostream') = <<>>
  BY DEF Marked
<1>2. LinesOf(out') \in Seq(Nat)
  BY LinesOfLemma
<1> QED
  BY <1>1, <1>2, HeldIs, ConcatEmptySeq

\* flush() of what is in the buffer
LEMMA PassOnBuff ==
  ASSUME Types, PassOn(buff), accepted' = accepted, ostream' = ostream
  PROVE  /\ out' \in Seq(Entry) /\ buff' = <<>> /\ pending' = <<>>
         /\ out' = Held /\ Held' = Held /\ HeldLines' = HeldLines
         /\ safe' = Len(accepted)
<1>1. out' = out \o Marked(pending \o buff, ostream) /\ buff' = <<>> /\ pending' = <<>>
      /\ safe' = Len(accepted)
  BY HeldIs DEF PassOn
<1>2. out' = Held /\ out' \in Seq(Entry) /\ LinesOf(out') = HeldLines
  <2>1. /\ (out \o Marked(pending, ostream)) \o Marked(buff, ostream) \in Seq(Entry)
        /\ out \o Marked(pending \o buff, ostream)
             = (out \o Marked(pending, ostream)) \o Marked(buff, ostream)
        /\ LinesOf((out \o Marked(pending, ostream)) \o Marked(buff, ostream))
             = (LinesOf(out) \o pending) \o buff
    <3>1. /\ ostream \in Streams /\ out \in Seq(Entry)
          /\ pending \in Seq(Nat) /\ buff \in Seq(Nat)
      BY DEF Types
    <3> QED
      BY <3>1, HeldLemma, ZenonT(60)
  <2>2. Held = (out \o Marked(pending, ostream)) \o Marked(buff, ostream)
    BY HeldIs
  <2> QED
    BY <1>1, <2>1, <2>2 DEF HeldLines
<1>3. Held' = out' /\ HeldLines' = LinesOf(out')
  BY <1>1, <1>2, NothingHeld DEF Types
<1> QED
  BY <1>1, <1>2, <1>3

LEMMA AcceptLemma ==
  ASSUME Types, Accept
  PROVE  /\ accepted' = accepted \o <<[line |-> NewLine, stream |-> ostream]>>
         /\ accepted' = Append(accepted, [line |-> NewLine, stream |-> ostream])
         /\ accepted' \in Seq(Entry) /\ Len(accepted') = Len(accepted) + 1
         /\ NewLine = Len(accepted) + 1 /\ NewLine \in Nat /\ Len(accepted) \in Nat
         /\ Marked(<<NewLine>>, ostream) = <<[line |-> NewLine, stream |-> ostream]>>
         /\ Marked(<<NewLine>>, ostream) \in Seq(Entry)
<1>1. Len(accepted) \in Nat /\ NewLine = Len(accepted) + 1
  BY LenProperties DEF Types, NewLine
<1>2. [line |-> NewLine, stream |-> ostream] \in Entry
  BY <1>1 DEF Types, Entry
<1>3. Marked(<<NewLine>>, ostream) = <<[line |-> NewLine, stream |-> ostream]>>
  BY DEF Marked
<1>4. accepted' = Append(accepted, [line |-> NewLine, stream |-> ostream])
  BY DEF Accept
<1> DEFINE e == [line |-> NewLine, stream |-> ostream]
<1>5. e \in Entry /\ accepted' = Append(accepted, e)
  BY <1>2, <1>4
<1> HIDE DEF e
<1>6. <<e>> \in Seq(Entry) /\ accepted \in Seq(Entry)
  BY <1>5 DEF Types
<1>7. /\ accepted' = accepted \o <<e>>
      /\ accepted' \in Seq(Entry) /\ Len(accepted') = Len(accepted) + 1
  BY <1>5, <1>6, AppendProperties, AppendIsConcat
<1>8. /\ accepted' = accepted \o <<[line |-> NewLine, stream |-> ostream]>>
      /\ <<[line |-> NewLine, stream |-> ostream]>> \in Seq(Entry)
  BY <1>6, <1>7 DEF e
<1>9. Marked(<<NewLine>>, ostream) \in Seq(Entry)
  BY <1>3, <1>8, Zenon
<1>10. NewLine \in Nat
  BY <1>1
<1> QED
  BY <1>1, <1>3, <1>4, <1>7, <1>8, <1>9, <1>10, Zenon

\* Each action's lemma assumes what Free or At say of it: that the logger is
\* alive, so that Held is all there is if nobody writes during resets.

LEMMA BuffEmpty ==
  ASSUME size' \in Sizes, buff' = <<>>
  PROVE  BuffBounded'
<1>1. size' \in Nat /\ Len(buff') = 0
  BY SimlogAssumption, EmptySeq
<1> QED
  BY <1>1 DEF BuffBounded

LEMMA FlushInv == ASSUME IInv, NEW t \in Threads, Flush(t) PROVE IInv'
<1>1. Types /\ BuffBounded /\ OnceInv /\ QuietInv /\ StreamsThenBuffer /\ CrashLosesTail
  BY DEF IInv
<1>2. /\ out' \in Seq(Entry) /\ buff' = <<>> /\ pending' = <<>>
      /\ out' = Held /\ Held' = Held /\ HeldLines' = HeldLines
      /\ safe' = Len(accepted)
  BY <1>1, PassOnBuff DEF Flush
<1>3. /\ accepted' = accepted /\ ostream' = ostream /\ pc' = pc /\ alive' = alive
      /\ enable' = enable /\ size' = size /\ stream_type' = stream_type /\ quiet' = quiet /\ alive
  BY DEF Flush, Free, config
<1>4. Types'
  BY <1>1, <1>2, <1>3, LenProperties, EmptySeq DEF Types
<1>5. BuffBounded'
  BY <1>1, <1>2, <1>3, BuffEmpty DEF Types
<1>6. OnceInv'
  BY <1>1, <1>2, <1>3 DEF OnceInv
<1>7. QuietInv'
  BY <1>1, <1>2, <1>3 DEF QuietInv, OneResets, FlushedBefore, NoBuffNoLines
<1>8. StreamsThenBuffer'
  BY <1>1, <1>2, <1>3 DEF StreamsThenBuffer
<1>9. CrashLosesTail'
  BY <1>1, <1>2, <1>3, PrefixOfConcat DEF CrashLosesTail, StreamsThenBuffer, Types
<1> QED
  BY <1>4, <1>5, <1>6, <1>7, <1>8, <1>9 DEF IInv

LEMMA ResetFlushInv == ASSUME IInv, NEW t \in Threads, ResetFlush(t) PROVE IInv'
<1>1. Types /\ BuffBounded /\ OnceInv /\ QuietInv /\ StreamsThenBuffer /\ CrashLosesTail
  BY DEF IInv
<1>2. /\ out' \in Seq(Entry) /\ buff' = <<>> /\ pending' = <<>>
      /\ out' = Held /\ Held' = Held /\ HeldLines' = HeldLines
      /\ safe' = Len(accepted)
  BY <1>1, PassOnBuff DEF ResetFlush
<1>3. /\ accepted' = accepted /\ ostream' = ostream /\ alive' = alive
      /\ pc[t] = "reset_flush" /\ pc' = [pc EXCEPT ![t] = "reset_ostream"]
      /\ enable' = enable /\ size' = size /\ stream_type' = stream_type /\ quiet' = quiet /\ alive
  BY DEF ResetFlush, At, config
<1>4. Types'
  BY <1>1, <1>2, <1>3, LenProperties, EmptySeq DEF Types
<1>5. BuffBounded'
  BY <1>1, <1>2, <1>3, BuffEmpty DEF Types
<1>6. OnceInv'
  BY <1>1, <1>2, <1>3 DEF OnceInv
<1>7. QuietInv'
  BY <1>1, <1>2, <1>3 DEF QuietInv, OneResets, FlushedBefore, NoBuffNoLines, Types
<1>8. StreamsThenBuffer'
  BY <1>1, <1>2, <1>3 DEF StreamsThenBuffer
<1>9. CrashLosesTail'
  BY <1>1, <1>2, <1>3, PrefixOfConcat DEF CrashLosesTail, StreamsThenBuffer, Types
<1> QED
  BY <1>4, <1>5, <1>6, <1>7, <1>8, <1>9 DEF IInv

LEMMA ExitInv == ASSUME IInv, Exit PROVE IInv'
<1>1. Types /\ BuffBounded /\ OnceInv /\ QuietInv /\ StreamsThenBuffer /\ CrashLosesTail
  BY DEF IInv
<1>2. /\ out' \in Seq(Entry) /\ buff' = <<>> /\ pending' = <<>>
      /\ out' = Held /\ Held' = Held /\ HeldLines' = HeldLines
      /\ safe' = Len(accepted)
  BY <1>1, PassOnBuff DEF Exit
<1>3. /\ accepted' = accepted /\ ostream' = ostream /\ pc' = pc /\ alive' = FALSE
      /\ enable' = enable /\ size' = size /\ stream_type' = stream_type /\ quiet' = quiet /\ alive
  BY SimlogAssumption DEF Exit, Free, config
<1>4. Types'
  <2>1. Len(accepted) \in Nat /\ <<>> \in Seq(Nat)
    BY <1>1, LenProperties, EmptySeq DEF Types
  <2>2. alive' \in BOOLEAN
    BY <1>3, Zenon
  <2> QED
    BY <1>1, <1>2, <1>3, <2>1, <2>2 DEF Types
<1>5. BuffBounded'
  BY <1>1, <1>2, <1>3, BuffEmpty DEF Types
<1>6. OnceInv'
  BY <1>1, <1>2, <1>3 DEF OnceInv
<1>7. QuietInv'
  BY <1>1, <1>2, <1>3 DEF QuietInv, OneResets, FlushedBefore, NoBuffNoLines
<1>8. StreamsThenBuffer'
  BY <1>3 DEF StreamsThenBuffer
<1>9. CrashLosesTail'
  BY <1>1, <1>2, <1>3, PrefixOfConcat DEF CrashLosesTail, StreamsThenBuffer, Types
<1> QED
  BY <1>4, <1>5, <1>6, <1>7, <1>8, <1>9 DEF IInv

LEMMA Associative ==
  ASSUME NEW S
  PROVE  \A s, t, u \in Seq(S) : (s \o t) \o u = s \o (t \o u)
BY ConcatAssociative

\* One sequence of four, whatever the order in which they were put together.
Four(S, o, x, y, z) ==
    /\ ((o \o x) \o y) \o z \in Seq(S)
    /\ ((o \o x) \o y) \o z = (o \o x) \o (y \o z)
    /\ ((o \o x) \o y) \o z = o \o (x \o (y \o z))
    /\ ((o \o x) \o y) \o z = o \o ((x \o y) \o z)
    /\ (o \o x) \o y = o \o (x \o y)
    /\ (o \o x) \o z = o \o (x \o z)

LEMMA ConcatFour ==
  ASSUME NEW S, NEW o \in Seq(S), NEW x \in Seq(S), NEW y \in Seq(S), NEW z \in Seq(S)
  PROVE  Four(S, o, x, y, z)
<1>1. \A s, t \in Seq(S) : s \o t \in Seq(S)
  BY ConcatProperties
<1>2. o \o x \in Seq(S)
  BY <1>1
<1>3. y \o z \in Seq(S)
  BY <1>1
<1>4. (o \o x) \o y \in Seq(S)
  BY <1>1, <1>2
<1>5. ((o \o x) \o y) \o z \in Seq(S)
  BY <1>1, <1>4
<1>6. (o \o x) \o y = o \o (x \o y)
  BY Associative
<1>7. (o \o x) \o z = o \o (x \o z)
  BY Associative, SMTT(30)
<1>8. ((o \o x) \o y) \o z = (o \o x) \o (y \o z)
  BY <1>2, Associative
<1>9. (o \o x) \o (y \o z) = o \o (x \o (y \o z))
  <2> DEFINE w == y \o z
  <2>1. w \in Seq(S)
    BY <1>3
  <2> HIDE DEF w
  <2>2. (o \o x) \o w = o \o (x \o w)
    BY <2>1, Associative
  <2> QED
    BY <2>2 DEF w
<1>10. (x \o y) \o z = x \o (y \o z)
  BY Associative, SMTT(30)
<1>11. ((o \o x) \o y) \o z = o \o (x \o (y \o z))
  BY <1>8, <1>9
<1>12. ((o \o x) \o y) \o z = o \o ((x \o y) \o z)
  BY <1>10, <1>11
<1> QED
  BY <1>5, <1>6, <1>7, <1>8, <1>11, <1>12 DEF Four

\* A line more in the buffer, behind it in the stream, or ahead of it.
More(st, o, p, b, n) ==
    LET h == (o \o Marked(p, st)) \o Marked(b, st)
        l == (LinesOf(o) \o p) \o b
    IN /\ h \o Marked(<<n>>, st) \in Seq(Entry)
       /\ LinesOf(h \o Marked(<<n>>, st)) = l \o <<n>>
       /\ o \o Marked(p \o Append(b, n), st) = h \o Marked(<<n>>, st)
       /\ (o \o Marked(p, st)) \o Marked(Append(b, n), st) = h \o Marked(<<n>>, st)
       /\ o \o Marked(Append(p \o b, n), st) = h \o Marked(<<n>>, st)
       /\ (LinesOf(o) \o p) \o Append(b, n) = l \o <<n>>
       /\ LinesOf(o) \o Append(p \o b, n) = l \o <<n>>
       /\ o \o Marked(Append(p, n), st) \in Seq(Entry)
       /\ LinesOf(o \o Marked(Append(p, n), st)) = (LinesOf(o) \o p) \o <<n>>
       /\ l \in Seq(Nat) /\ LinesOf(o) \o p \in Seq(Nat)

LEMMA MoreLemma ==
  ASSUME NEW st \in Streams, NEW o \in Seq(Entry), NEW p \in Seq(Nat), NEW b \in Seq(Nat),
         NEW n \in Nat
  PROVE  More(st, o, p, b, n)
<1> DEFINE x == Marked(p, st)
           y == Marked(b, st)
           z == Marked(<<n>>, st)
           q == LinesOf(o)
           one == <<n>>
<1>1. /\ x \in Seq(Entry) /\ y \in Seq(Entry) /\ z \in Seq(Entry)
      /\ LinesOf(x) = p /\ LinesOf(y) = b /\ LinesOf(z) = one
      /\ one \in Seq(Nat) /\ q \in Seq(Nat)
      /\ Append(b, n) = b \o one /\ Append(p, n) = p \o one
  BY MarkedLemma, OneLine, LinesOfLemma
<1>2. /\ p \o b \in Seq(Nat) /\ b \o one \in Seq(Nat) /\ p \o one \in Seq(Nat)
      /\ q \o p \in Seq(Nat)
      /\ o \o x \in Seq(Entry) /\ x \o y \in Seq(Entry) /\ y \o z \in Seq(Entry)
      /\ x \o z \in Seq(Entry)
  BY <1>1, ConcatProperties
<1>3. /\ Append(p \o b, n) = (p \o b) \o one
      /\ (o \o x) \o y \in Seq(Entry) /\ (q \o p) \o b \in Seq(Nat)
      /\ o \o (x \o z) \in Seq(Entry)
  BY <1>1, <1>2, ConcatProperties, OneLine
<1>4. /\ Marked(p \o b, st) = x \o y /\ Marked(b \o one, st) = y \o z
      /\ Marked(p \o one, st) = x \o z
      /\ Marked(p \o (b \o one), st) = x \o Marked(b \o one, st)
      /\ Marked((p \o b) \o one, st) = Marked(p \o b, st) \o z
  BY <1>1, <1>2, MarkedConcat, ZenonT(60)
<1> HIDE DEF x, y, z, q, one
<1>5. /\ ((o \o x) \o y) \o z \in Seq(Entry)
      /\ ((o \o x) \o y) \o z = (o \o x) \o (y \o z)
      /\ ((o \o x) \o y) \o z = o \o (x \o (y \o z))
      /\ ((o \o x) \o y) \o z = o \o ((x \o y) \o z)
      /\ (o \o x) \o y = o \o (x \o y)
      /\ (o \o x) \o z = o \o (x \o z)
  <2>1. o \in Seq(Entry) /\ x \in Seq(Entry) /\ y \in Seq(Entry) /\ z \in Seq(Entry)
    BY <1>1
  <2>2. Four(Entry, o, x, y, z)
    BY <2>1, ConcatFour
  <2> QED
    BY <2>2 DEF Four
<1>6. /\ ((q \o p) \o b) \o one = (q \o p) \o (b \o one)
      /\ ((q \o p) \o b) \o one = q \o ((p \o b) \o one)
      /\ (q \o p) \o one = q \o (p \o one)
  <2>1. q \in Seq(Nat) /\ p \in Seq(Nat) /\ b \in Seq(Nat) /\ one \in Seq(Nat)
    BY <1>1
  <2>2. Four(Nat, q, p, b, one)
    BY <2>1, ConcatFour
  <2> QED
    BY <2>2 DEF Four
<1>7. /\ LinesOf(((o \o x) \o y) \o z) = LinesOf((o \o x) \o y) \o one
      /\ LinesOf((o \o x) \o y) = LinesOf(o \o x) \o b
      /\ LinesOf(o \o x) = q \o p
      /\ LinesOf(o \o (x \o z)) = q \o LinesOf(x \o z)
      /\ LinesOf(x \o z) = p \o one
  BY <1>1, <1>2, <1>3, LinesOfConcat DEF q
<1> QED
  BY <1>1, <1>2, <1>3, <1>4, <1>5, <1>6, <1>7 DEF More, x, y, z, q, one

\* A line taken, and put behind everything there is.
LEMMA BehindLemma ==
  ASSUME IInv, Accept, quiet' = quiet,
         Held' = Held \o Marked(<<NewLine>>, ostream),
         quiet => alive,
         \/ out' = out /\ safe' = safe
         \/ out' = Held' /\ safe' = Len(accepted')
  PROVE  StreamsThenBuffer' /\ CrashLosesTail'
<1> DEFINE e == <<[line |-> NewLine, stream |-> ostream]>>
<1>1. Types /\ StreamsThenBuffer /\ CrashLosesTail
  BY DEF IInv
<1>2. /\ accepted' = accepted \o e /\ accepted' \in Seq(Entry)
      /\ Len(accepted') = Len(accepted) + 1 /\ Len(accepted) \in Nat
      /\ Marked(<<NewLine>>, ostream) = e /\ e \in Seq(Entry)
  BY <1>1, AcceptLemma
<1>3. out \in Seq(Entry) /\ accepted \in Seq(Entry) /\ safe \in Nat
  BY <1>1 DEF Types
<1> HIDE DEF e
<1>4. quiet => Held' = accepted'
  BY <1>1, <1>2 DEF StreamsThenBuffer
<1>5. StreamsThenBuffer'
  BY <1>4 DEF StreamsThenBuffer
<1>6. CASE out' = out /\ safe' = safe
  <2>1. quiet => IsPrefix(out, accepted \o e)
    BY <1>1, <1>2, <1>3, PrefixLemma DEF CrashLosesTail
  <2>2. out' = out /\ safe' = safe /\ quiet' = quiet
    BY <1>6
  <2>3. quiet => Len(out) >= safe
    BY <1>1 DEF CrashLosesTail
  <2>4. CrashLosesTail'
    BY <1>2, <2>1, <2>2, <2>3 DEF CrashLosesTail
  <2> QED
    BY <1>5, <2>4
<1>7. CASE out' = Held' /\ safe' = Len(accepted')
  <2>1. IsPrefix(accepted', accepted')
    BY <1>2, PrefixOfConcat
  <2>2. quiet => out' = accepted'
    BY <1>4, <1>7
  <2>3. Len(accepted') \in Nat /\ safe' = Len(accepted')
    BY <1>2, <1>7
  <2>4. quiet => IsPrefix(out', accepted') /\ Len(out') >= safe'
    BY <2>1, <2>2, <2>3
  <2>5. CrashLosesTail'
    BY <2>4 DEF CrashLosesTail
  <2> QED
    BY <1>5, <2>5
<1> QED
  BY <1>6, <1>7

LEMMA OnceMore ==
  ASSUME IInv, Accept, HeldLines' = HeldLines \o <<NewLine>>
  PROVE  OnceInv'
<1>1. Types /\ OnceInv
  BY DEF IInv
<1>2. Len(accepted') = Len(accepted) + 1 /\ Len(accepted) \in Nat /\ NewLine = Len(accepted) + 1
  BY <1>1, AcceptLemma
<1>3. HeldLines \in Seq(Nat)
  <2>1. LinesOf(out) \in Seq(Nat) /\ pending \in Seq(Nat) /\ buff \in Seq(Nat)
    BY <1>1, LinesOfLemma DEF Types
  <2>2. LinesOf(out) \o pending \in Seq(Nat)
    BY <2>1, ConcatProperties
  <2> QED
    BY <2>1, <2>2, ConcatProperties DEF HeldLines
<1>4. Distinct(HeldLines \o <<Len(accepted) + 1>>, Len(accepted) + 1)
  BY <1>1, <1>2, <1>3, DistinctMore DEF OnceInv
<1>5. Distinct(HeldLines', Len(accepted'))
  BY <1>2, <1>4
<1>6. OnceInv' = Distinct(HeldLines', Len(accepted'))
  BY DEF OnceInv, Distinct
<1> QED
  BY <1>5, <1>6

\* What MoreLemma says of a line taken now.
LEMMA MoreNow ==
  ASSUME Types, Accept
  PROVE  /\ Held \o Marked(<<NewLine>>, ostream) \in Seq(Entry)
         /\ LinesOf(Held \o Marked(<<NewLine>>, ostream)) = HeldLines \o <<NewLine>>
         /\ out \o Marked(pending \o Append(buff, NewLine), ostream)
              = Held \o Marked(<<NewLine>>, ostream)
         /\ (out \o Marked(pending, ostream)) \o Marked(Append(buff, NewLine), ostream)
              = Held \o Marked(<<NewLine>>, ostream)
         /\ out \o Marked(Append(pending \o buff, NewLine), ostream)
              = Held \o Marked(<<NewLine>>, ostream)
         /\ (LinesOf(out) \o pending) \o Append(buff, NewLine) = HeldLines \o <<NewLine>>
         /\ LinesOf(out) \o Append(pending \o buff, NewLine) = HeldLines \o <<NewLine>>
         /\ out \o Marked(Append(pending, NewLine), ostream) \in Seq(Entry)
         /\ LinesOf(out \o Marked(Append(pending, NewLine), ostream))
              = (LinesOf(out) \o pending) \o <<NewLine>>
         /\ HeldLines \in Seq(Nat) /\ LinesOf(out) \o pending \in Seq(Nat)
<1>1. /\ ostream \in Streams /\ out \in Seq(Entry)
      /\ pending \in Seq(Nat) /\ buff \in Seq(Nat)
  BY DEF Types
<1>2. NewLine \in Nat
  BY AcceptLemma
<1>3. /\ Held = (out \o Marked(pending, ostream)) \o Marked(buff, ostream)
      /\ HeldLines = (LinesOf(out) \o pending) \o buff
  BY HeldIs DEF HeldLines
<1>4. More(ostream, out, pending, buff, NewLine)
  BY <1>1, <1>2, MoreLemma
<1> QED
  BY <1>3, <1>4 DEF More

LEMMA WriteBuffInv == ASSUME IInv, NEW t \in Threads, WriteBuff(t) PROVE IInv'
<1> DEFINE more == Append(buff, NewLine)
           one == Marked(<<NewLine>>, ostream)
<1>1. Types /\ BuffBounded /\ OnceInv /\ QuietInv /\ StreamsThenBuffer /\ CrashLosesTail
  BY DEF IInv
<1>2. /\ ostream' = ostream /\ pc' = pc /\ alive' = alive /\ alive /\ enable
      /\ enable' = enable /\ size' = size /\ stream_type' = stream_type /\ quiet' = quiet
      /\ quiet => \A u \in Threads : pc[u] = "free"
      /\ Accept
      /\ IF Len(more) > size
         THEN PassOn(more)
         ELSE buff' = more /\ UNCHANGED <<pending, out, safe>>
  BY DEF WriteBuff, Free, config
<1>3. /\ accepted' \in Seq(Entry) /\ Len(accepted') = Len(accepted) + 1
      /\ Len(accepted) \in Nat /\ NewLine \in Nat
  BY <1>1, <1>2, AcceptLemma
<1>4. more \in Seq(Nat) /\ Len(more) \in Nat
  <2>1. buff \in Seq(Nat)
    BY <1>1 DEF Types
  <2> QED
    BY <1>3, <2>1, AppendProperties, LenProperties
<1>5. /\ out' \in Seq(Entry) /\ pending' \in Seq(Nat) /\ buff' \in Seq(Nat)
      /\ BuffBounded'
      /\ safe' \in Nat /\ safe' <= Len(accepted')
      /\ Held' = Held \o one /\ HeldLines' = HeldLines \o <<NewLine>>
      /\ \/ out' = out /\ safe' = safe
         \/ out' = Held' /\ safe' = Len(accepted')
  <2>1. CASE Len(more) > size
    <3>1. /\ out' = out \o Marked(pending \o more, ostream)
          /\ buff' = <<>> /\ pending' = <<>> /\ safe' = Len(accepted')
      BY <1>2, <2>1, HeldIs DEF PassOn
    <3>2. /\ out' = Held \o one /\ out' \in Seq(Entry)
          /\ LinesOf(out') = HeldLines \o <<NewLine>>
      BY <1>1, <1>2, <3>1, MoreNow
    <3>3. Held' = out' /\ HeldLines' = LinesOf(out')
      BY <1>1, <1>2, <3>1, <3>2, NothingHeld DEF Types
    <3>4. BuffBounded' /\ buff' \in Seq(Nat) /\ pending' \in Seq(Nat)
      BY <1>1, <1>2, <3>1, BuffEmpty, EmptySeq DEF Types
    <3>5. safe' \in Nat /\ safe' <= Len(accepted')
      BY <1>3, <3>1
    <3> QED
      BY <3>1, <3>2, <3>3, <3>4, <3>5
  <2>2. CASE ~(Len(more) > size)
    <3>1. buff' = more /\ pending' = pending /\ out' = out /\ safe' = safe
      BY <1>2, <2>2
    <3>2. /\ Held' = (out \o Marked(pending, ostream)) \o Marked(more, ostream)
          /\ HeldLines' = (LinesOf(out) \o pending) \o more
      BY <1>2, <3>1, HeldIs
    <3>3. Held' = Held \o one /\ HeldLines' = HeldLines \o <<NewLine>>
      BY <1>1, <1>2, <3>2, MoreNow
    <3>4. BuffBounded'
      BY <1>1, <1>2, <1>4, <2>2, <3>1, SimlogAssumption DEF BuffBounded, Types
    <3>5. /\ out \in Seq(Entry) /\ pending \in Seq(Nat)
          /\ safe \in Nat /\ safe <= Len(accepted)
      BY <1>1 DEF Types
    <3>6. safe' \in Nat /\ safe' <= Len(accepted')
      BY <1>3, <3>1, <3>5
    <3> QED
      BY <1>4, <3>1, <3>3, <3>4, <3>5, <3>6
  <2> QED
    BY <2>1, <2>2
<1>6. Types'
  BY <1>1, <1>2, <1>3, <1>5 DEF Types
<1>7. OnceInv'
  BY <1>2, <1>5, OnceMore
<1>8. StreamsThenBuffer' /\ CrashLosesTail'
  BY <1>2, <1>5, BehindLemma
<1>9. QuietInv'
  BY <1>2 DEF QuietInv, OneResets, FlushedBefore, NoBuffNoLines
<1> QED
  BY <1>5, <1>6, <1>7, <1>8, <1>9 DEF IInv

LEMMA PutInv == ASSUME IInv, NEW t \in Threads, Put(t) PROVE IInv'
<1> DEFINE more == Append(pending \o buff, NewLine)
           one == Marked(<<NewLine>>, ostream)
<1>1. Types /\ BuffBounded /\ OnceInv /\ QuietInv /\ StreamsThenBuffer /\ CrashLosesTail
  BY DEF IInv
<1>2. /\ ostream' = ostream /\ pc' = pc /\ alive' = alive /\ alive
      /\ enable' = enable /\ size' = size /\ stream_type' = stream_type /\ quiet' = quiet
      /\ quiet => \A u \in Threads : pc[u] = "free"
      /\ Accept
      /\ pending' = more /\ buff' = <<>> /\ out' = out /\ safe' = safe
  BY DEF Put, Free, config
<1>3. /\ accepted' \in Seq(Entry) /\ Len(accepted') = Len(accepted) + 1
      /\ Len(accepted) \in Nat /\ NewLine \in Nat
  BY <1>1, <1>2, AcceptLemma
<1>4. more \in Seq(Nat)
  <2>1. pending \in Seq(Nat) /\ buff \in Seq(Nat)
    BY <1>1 DEF Types
  <2>2. pending \o buff \in Seq(Nat)
    BY <2>1, ConcatProperties
  <2> QED
    BY <1>3, <2>2, AppendProperties
<1>5. Held' = Held \o one /\ HeldLines' = HeldLines \o <<NewLine>>
  <2>1. /\ Held' = (out \o Marked(more, ostream)) \o Marked(<<>>, ostream)
        /\ HeldLines' = (LinesOf(out) \o more) \o <<>>
    BY <1>2, HeldIs
  <2>2. Marked(<<>>, ostream) = <<>>
    BY DEF Marked
  <2>3. /\ out \o Marked(more, ostream) = Held \o one
        /\ Held \o one \in Seq(Entry)
        /\ LinesOf(out) \o more = HeldLines \o <<NewLine>>
    BY <1>1, <1>2, MoreNow
  <2>4. HeldLines \o <<NewLine>> \in Seq(Nat)
    <3>1. HeldLines \in Seq(Nat) /\ <<NewLine>> \in Seq(Nat)
      BY <1>1, <1>2, <1>3, MoreNow
    <3> QED
      BY <3>1, ConcatProperties
  <2>5. (Held \o one) \o <<>> = Held \o one
    BY <2>3, ConcatEmptySeq
  <2>6. (HeldLines \o <<NewLine>>) \o <<>> = HeldLines \o <<NewLine>>
    BY <2>4, ConcatEmptySeq
  <2> QED
    BY <2>1, <2>2, <2>3, <2>5, <2>6
<1>6. Types'
  <2>1. buff' \in Seq(Nat)
    BY <1>2, EmptySeq
  <2> QED
    BY <1>1, <1>2, <1>3, <1>4, <2>1 DEF Types
<1>7. OnceInv'
  BY <1>2, <1>5, OnceMore
<1>8. StreamsThenBuffer' /\ CrashLosesTail'
  BY <1>2, <1>5, BehindLemma
<1>9. QuietInv'
  BY <1>2 DEF QuietInv, OneResets, FlushedBefore, NoBuffNoLines
<1>10. BuffBounded'
  BY <1>1, <1>2, BuffEmpty DEF Types
<1> QED
  BY <1>6, <1>7, <1>8, <1>9, <1>10 DEF IInv

\* Without a buffer a line overtakes those that are in buff_ from before. If
\* nobody writes during a reset there are none.
LEMMA WriteDirectInv == ASSUME IInv, NEW t \in Threads, WriteDirect(t) PROVE IInv'
<1> DEFINE more == Append(pending, NewLine)
           one == Marked(<<NewLine>>, ostream)
<1>1. Types /\ BuffBounded /\ OnceInv /\ QuietInv /\ StreamsThenBuffer /\ CrashLosesTail
  BY DEF IInv
<1>2. /\ ostream' = ostream /\ pc' = pc /\ alive' = alive /\ alive /\ ~enable
      /\ enable' = enable /\ size' = size /\ stream_type' = stream_type /\ quiet' = quiet
      /\ quiet => \A u \in Threads : pc[u] = "free"
      /\ Accept
      /\ out' = out \o Marked(more, ostream) /\ pending' = <<>> /\ buff' = buff
      /\ safe' = IF buff = <<>> THEN Len(accepted') ELSE safe
  BY HeldIs DEF WriteDirect, Free, config
<1>3. /\ accepted' \in Seq(Entry) /\ Len(accepted') = Len(accepted) + 1
      /\ Len(accepted) \in Nat /\ NewLine \in Nat /\ NewLine = Len(accepted) + 1
  BY <1>1, <1>2, AcceptLemma
<1>4. /\ out' \in Seq(Entry)
      /\ LinesOf(out') = (LinesOf(out) \o pending) \o <<NewLine>>
      /\ LinesOf(out) \o pending \in Seq(Nat)
  BY <1>1, <1>2, MoreNow
<1>5. Types'
  <2>1. pending' \in Seq(Nat)
    BY <1>2, EmptySeq
  <2>2. safe \in Nat /\ safe <= Len(accepted)
    BY <1>1 DEF Types
  <2>3. safe' \in Nat /\ safe' <= Len(accepted')
    BY <1>2, <1>3, <2>2
  <2> QED
    BY <1>1, <1>2, <1>3, <1>4, <2>1, <2>3 DEF Types
<1>6. OnceInv'
  <2> DEFINE s == LinesOf(out) \o pending
  <2>1. s \in Seq(Nat) /\ buff \in Seq(Nat)
    BY <1>1, <1>4 DEF Types
  <2>2. Distinct(s \o buff, Len(accepted))
    BY <1>1 DEF OnceInv, HeldLines
  <2>3. HeldLines' = (s \o <<Len(accepted) + 1>>) \o buff
    <3>1. HeldLines' = (LinesOf(out') \o <<>>) \o buff
      BY <1>2, HeldIs
    <3>2. LinesOf(out') \in Seq(Nat)
      BY <1>4, LinesOfLemma
    <3>3. LinesOf(out') \o <<>> = LinesOf(out')
      BY <3>2, ConcatEmptySeq
    <3> QED
      BY <1>3, <1>4, <3>1, <3>3
  <2> HIDE DEF s
  <2>4. Distinct((s \o <<Len(accepted) + 1>>) \o buff, Len(accepted) + 1)
    BY <1>3, <2>1, <2>2, DistinctAmong
  <2>5. Distinct(HeldLines', Len(accepted'))
    BY <1>3, <2>3, <2>4
  <2>6. OnceInv' = Distinct(HeldLines', Len(accepted'))
    BY DEF OnceInv, Distinct
  <2> QED
    BY <2>5, <2>6
<1>7. ASSUME quiet PROVE StreamsThenBuffer' /\ CrashLosesTail'
  <2>1. buff = <<>>
    BY <1>1, <1>2, <1>7 DEF QuietInv, NoBuffNoLines
  <2>2. out' = Held \o one
    <3>1. pending \in Seq(Nat)
      BY <1>1 DEF Types
    <3>2. Append(pending \o buff, NewLine) = more
      BY <2>1, <3>1, ConcatEmptySeq
    <3>3. out \o Marked(Append(pending \o buff, NewLine), ostream) = Held \o one
      BY <1>1, <1>2, MoreNow
    <3> QED
      BY <1>2, <3>2, <3>3
  <2>3. buff' = <<>> /\ pending' = <<>> /\ safe' = Len(accepted')
    BY <1>2, <2>1
  <2>4. Held' = out'
    BY <1>1, <1>2, <1>4, <2>3, NothingHeld DEF Types
  <2>5. StreamsThenBuffer' /\ CrashLosesTail'
    BY <1>2, <2>2, <2>3, <2>4, BehindLemma
  <2> QED
    BY <2>5
<1>8. ASSUME ~quiet PROVE StreamsThenBuffer' /\ CrashLosesTail'
  BY <1>2, <1>8 DEF StreamsThenBuffer, CrashLosesTail
<1>9. QuietInv'
  BY <1>1, <1>2 DEF QuietInv, OneResets, FlushedBefore, NoBuffNoLines
<1>10. BuffBounded'
  BY <1>1, <1>2 DEF BuffBounded
<1> QED
  BY <1>5, <1>6, <1>7, <1>8, <1>9, <1>10 DEF IInv

LEMMA ConfigureInv == ASSUME IInv, NEW t \in Threads, Configure(t) PROVE IInv'
<1>1. Types /\ BuffBounded /\ OnceInv /\ QuietInv /\ StreamsThenBuffer /\ CrashLosesTail
  BY DEF IInv
<1>2. /\ ostream' = ostream /\ out' = out /\ pending' = pending /\ buff' = buff
      /\ alive' = alive /\ quiet' = quiet /\ accepted' = accepted /\ safe' = safe
      /\ enable' \in BOOLEAN /\ size' \in Sizes /\ stream_type' \in Streams
      /\ pc[t] = "free" /\ pc' = [pc EXCEPT ![t] = "reset_flush"]
      /\ quiet => \A u \in Threads : pc[u] = "free"
  BY DEF Configure, Free
<1>3. Types'
  BY <1>1, <1>2 DEF Types
<1>4. Held' = Held /\ HeldLines' = HeldLines
  BY <1>2, HeldIs DEF HeldLines
<1>5. OnceInv' /\ StreamsThenBuffer' /\ CrashLosesTail'
  BY <1>1, <1>2, <1>4 DEF OnceInv, StreamsThenBuffer, CrashLosesTail
<1>7. BuffBounded'
  BY <1>1, <1>2 DEF BuffBounded, Types
<1>6. QuietInv'
  <2>1. pc \in [Threads -> {"free", "reset_flush", "reset_ostream", "reset_buff"}]
    BY <1>1 DEF Types
  <2> QED
    BY <1>1, <1>2, <2>1 DEF QuietInv, OneResets, FlushedBefore, NoBuffNoLines
<1> QED
  BY <1>3, <1>5, <1>6, <1>7 DEF IInv

\* The stream of before passes on what it holds; if nobody writes during a
\* reset it holds nothing.
LEMMA ResetOstreamInv == ASSUME IInv, NEW t \in Threads, ResetOstream(t) PROVE IInv'
<1>1. Types /\ BuffBounded /\ OnceInv /\ QuietInv /\ StreamsThenBuffer /\ CrashLosesTail
  BY DEF IInv
<1>2. /\ out' = out \o Marked(pending, ostream) /\ pending' = <<>> /\ buff' = buff
      /\ ostream' = stream_type
      /\ alive' = alive /\ quiet' = quiet /\ accepted' = accepted /\ safe' = safe
      /\ enable' = enable /\ size' = size /\ stream_type' = stream_type
      /\ pc[t] = "reset_ostream" /\ pc' = [pc EXCEPT ![t] = "reset_buff"]
  BY HeldIs DEF ResetOstream, At, config
<1>3. /\ ostream \in Streams /\ stream_type \in Streams /\ out \in Seq(Entry)
      /\ pending \in Seq(Nat) /\ buff \in Seq(Nat)
      /\ pc \in [Threads -> {"free", "reset_flush", "reset_ostream", "reset_buff"}]
  BY <1>1 DEF Types
<1>4. out' \in Seq(Entry) /\ LinesOf(out') = LinesOf(out) \o pending
  BY <1>2, <1>3, HeldLemma
<1>5. Types'
  <2>1. pending' \in Seq(Nat)
    BY <1>2, EmptySeq
  <2> QED
    BY <1>1, <1>2, <1>4, <2>1 DEF Types
<1>6. HeldLines' = HeldLines
  <2>1. HeldLines' = (LinesOf(out') \o <<>>) \o buff
    BY <1>2, HeldIs
  <2>2. LinesOf(out') \o <<>> = LinesOf(out')
    <3>1. LinesOf(out') \in Seq(Nat)
      BY <1>4, LinesOfLemma
    <3> QED
      BY <3>1, ConcatEmptySeq
  <2> QED
    BY <1>4, <2>1, <2>2 DEF HeldLines
<1>7. OnceInv'
  BY <1>1, <1>2, <1>6 DEF OnceInv
<1>8. ASSUME quiet PROVE StreamsThenBuffer' /\ CrashLosesTail'
  <2>1. buff = <<>> /\ pending = <<>>
    BY <1>1, <1>2, <1>8 DEF QuietInv, FlushedBefore
  <2>2. Marked(pending, ostream) = <<>> /\ Marked(buff, ostream) = <<>>
    BY <2>1 DEF Marked
  <2>3. out \o <<>> = out
    BY <1>3, ConcatEmptySeq
  <2>4. out' = out /\ Held = out
    BY <1>2, <2>2, <2>3, HeldIs
  <2>5. Held' = out'
    BY <1>2, <1>3, <1>4, <2>1, NothingHeld
  <2>6. StreamsThenBuffer' /\ CrashLosesTail'
    BY <1>1, <1>2, <2>4, <2>5 DEF StreamsThenBuffer, CrashLosesTail
  <2> QED
    BY <2>6
<1>9. ASSUME ~quiet PROVE StreamsThenBuffer' /\ CrashLosesTail'
  BY <1>2, <1>9 DEF StreamsThenBuffer, CrashLosesTail
<1>10. QuietInv'
  BY <1>1, <1>2, <1>3 DEF QuietInv, OneResets, FlushedBefore, NoBuffNoLines
<1>11. BuffBounded'
  BY <1>1, <1>2, <1>3 DEF BuffBounded
<1> QED
  BY <1>5, <1>7, <1>8, <1>9, <1>10, <1>11 DEF IInv

\* What is in buff_ is thrown away; if nobody writes during a reset there is
\* nothing in it.
LEMMA ResetBuffInv == ASSUME IInv, NEW t \in Threads, ResetBuff(t) PROVE IInv'
<1>1. Types /\ BuffBounded /\ OnceInv /\ QuietInv /\ StreamsThenBuffer /\ CrashLosesTail
  BY DEF IInv
<1>2. /\ out' = out /\ pending' = pending /\ ostream' = ostream
      /\ buff' = <<>> \/ (~enable /\ buff' = buff)
      /\ alive' = alive /\ quiet' = quiet /\ accepted' = accepted /\ safe' = safe
      /\ enable' = enable /\ size' = size /\ stream_type' = stream_type
      /\ pc[t] = "reset_buff" /\ pc' = [pc EXCEPT ![t] = "free"]
  BY DEF ResetBuff, At, config
<1>3. /\ out \in Seq(Entry) /\ pending \in Seq(Nat) /\ buff \in Seq(Nat)
      /\ pc \in [Threads -> {"free", "reset_flush", "reset_ostream", "reset_buff"}]
      /\ Len(accepted) \in Nat
  BY <1>1, LenProperties DEF Types
<1>4. Types'
  <2>1. buff' \in Seq(Nat)
    BY <1>2, <1>3, EmptySeq
  <2> QED
    BY <1>1, <1>2, <2>1 DEF Types
<1>5. OnceInv'
  <2> DEFINE s == LinesOf(out) \o pending
  <2>1. HeldLines' = s \o buff' /\ HeldLines = s \o buff
    BY <1>2, HeldIs DEF HeldLines
  <2>2. s \in Seq(Nat)
    <3>1. LinesOf(out) \in Seq(Nat)
      BY <1>3, LinesOfLemma
    <3> QED
      BY <1>3, <3>1, ConcatProperties
  <2>3. Distinct(s \o buff, Len(accepted))
    BY <1>1, <2>1 DEF OnceInv
  <2> HIDE DEF s
  <2>4. Distinct(s, Len(accepted)) /\ s \o <<>> = s
    BY <1>3, <2>2, <2>3, DistinctAmong, ConcatEmptySeq
  <2>5. Distinct(HeldLines', Len(accepted'))
    BY <1>2, <2>1, <2>3, <2>4
  <2>6. OnceInv' = Distinct(HeldLines', Len(accepted'))
    BY DEF OnceInv, Distinct
  <2> QED
    BY <2>5, <2>6
<1>6. ASSUME quiet PROVE StreamsThenBuffer' /\ CrashLosesTail' /\ QuietInv'
  <2>1. buff = <<>> /\ pending = <<>>
    BY <1>1, <1>2, <1>6 DEF QuietInv, FlushedBefore
  <2>2. buff' = buff
    BY <1>2, <2>1
  <2>3. Held' = Held
    BY <1>2, <2>2, HeldIs
  <2>4. StreamsThenBuffer' /\ CrashLosesTail'
    BY <1>1, <1>2, <2>3 DEF StreamsThenBuffer, CrashLosesTail
  <2>5. QuietInv'
    BY <1>1, <1>2, <1>3, <2>1, <2>2 DEF QuietInv, OneResets, FlushedBefore, NoBuffNoLines
  <2> QED
    BY <2>4, <2>5
<1>7. ASSUME ~quiet PROVE StreamsThenBuffer' /\ CrashLosesTail' /\ QuietInv'
  BY <1>2, <1>7 DEF StreamsThenBuffer, CrashLosesTail, QuietInv
<1>8. BuffBounded'
  <2>1. CASE buff' = <<>>
    BY <1>1, <1>2, <2>1, BuffEmpty DEF Types
  <2>2. CASE buff' = buff
    BY <1>1, <1>2, <1>3, <2>2 DEF BuffBounded
  <2> QED
    BY <1>2, <2>1, <2>2
<1> QED
  BY <1>4, <1>5, <1>6, <1>7, <1>8 DEF IInv

LEMMA CrashInv == ASSUME IInv, Crash PROVE IInv'
<1>1. Types /\ BuffBounded /\ OnceInv /\ QuietInv /\ StreamsThenBuffer /\ CrashLosesTail
  BY DEF IInv
<1>2. /\ out' = out /\ pending' = <<>> /\ buff' = <<>> /\ ostream' = ostream
      /\ alive' = FALSE /\ quiet' = quiet /\ accepted' = accepted /\ safe' = safe
      /\ enable' = enable /\ size' = size /\ stream_type' = stream_type /\ pc' = pc
  BY DEF Crash, config
<1>3. /\ out \in Seq(Entry) /\ pending \in Seq(Nat) /\ buff \in Seq(Nat)
      /\ ostream \in Streams /\ Len(accepted) \in Nat
  BY <1>1, LenProperties DEF Types
<1>4. Types'
  <2>1. <<>> \in Seq(Nat)
    BY EmptySeq
  <2>2. alive' \in BOOLEAN
    BY <1>2, Zenon
  <2> QED
    BY <1>1, <1>2, <2>1, <2>2 DEF Types
<1>5. OnceInv'
  <2> DEFINE s == LinesOf(out) \o pending
  <2>1. LinesOf(out) \in Seq(Nat)
    BY <1>3, LinesOfLemma
  <2>2. s \in Seq(Nat)
    BY <1>3, <2>1, ConcatProperties
  <2>3. Distinct(s \o buff, Len(accepted))
    BY <1>1 DEF OnceInv, HeldLines
  <2>4. Distinct(s, Len(accepted))
    <3> HIDE DEF s
    <3> QED
      BY <1>3, <2>2, <2>3, DistinctAmong
  <2>5. Distinct(LinesOf(out), Len(accepted))
    BY <1>3, <2>1, <2>4, DistinctAmong
  <2>6. HeldLines' = LinesOf(out)
    BY <1>2, <1>3, NothingHeld
  <2>7. OnceInv' = Distinct(HeldLines', Len(accepted'))
    BY DEF OnceInv, Distinct
  <2> QED
    BY <1>2, <2>5, <2>6, <2>7
<1>6. StreamsThenBuffer'
  BY <1>2 DEF StreamsThenBuffer
<1>7. CrashLosesTail'
  BY <1>1, <1>2 DEF CrashLosesTail
<1>8. QuietInv'
  BY <1>1, <1>2 DEF QuietInv, OneResets, FlushedBefore, NoBuffNoLines
<1>9. BuffBounded'
  BY <1>1, <1>2, BuffEmpty DEF Types
<1> QED
  BY <1>4, <1>5, <1>6, <1>7, <1>8, <1>9 DEF IInv

LEMMA InitIInv == Init => IInv
<1> SUFFICES ASSUME Init PROVE IInv
  OBVIOUS
<1>1. /\ enable = TRUE /\ size \in Sizes /\ stream_type \in Streams /\ ostream = stream_type
      /\ buff = <<>> /\ pending = <<>> /\ out = <<>> /\ accepted = <<>>
      /\ pc = [u \in Threads |-> "free"] /\ alive = TRUE /\ quiet \in BOOLEAN /\ safe = 0
  BY DEF Init
<1>2. <<>> \in Seq(Nat) /\ <<>> \in Seq(Entry) /\ Len(<<>>) = 0
  BY EmptySeq
<1>3. Types
  <2>1. enable \in BOOLEAN /\ alive \in BOOLEAN
    BY <1>1, Zenon
  <2> QED
    BY <1>1, <1>2, <2>1 DEF Types
<1>4. Held = <<>> /\ HeldLines = <<>>
  <2>1. On(<<>>) = <<>> /\ LinesOf(<<>>) = <<>>
    BY <1>2 DEF On, LinesOf
  <2>2. <<>> \o <<>> = <<>>
    OBVIOUS
  <2>3. Held = (out \o On(pending)) \o On(buff)
    BY DEF Held
  <2> QED
    BY <1>1, <2>1, <2>2, <2>3 DEF HeldLines
<1>5. BuffBounded
  BY <1>1, <1>2, SimlogAssumption DEF BuffBounded
<1>6. OnceInv
  BY <1>2, <1>4 DEF OnceInv, Distinct
<1>7. QuietInv
  BY <1>1 DEF QuietInv, OneResets, FlushedBefore, NoBuffNoLines
<1>8. StreamsThenBuffer
  BY <1>1, <1>4 DEF StreamsThenBuffer
<1>9. CrashLosesTail
  <2>1. IsPrefix(out, accepted)
    BY <1>1, <1>2, PrefixOfConcat
  <2>2. Len(out) >= safe
    BY <1>1, <1>2
  <2> QED
    BY <2>1, <2>2 DEF CrashLosesTail
<1> QED
  BY <1>3, <1>5, <1>6, <1>7, <1>8, <1>9 DEF IInv

LEMMA StepIInv == IInv /\ [Next]_vars => IInv'
<1> SUFFICES ASSUME IInv, [Next]_vars PROVE IInv'
  OBVIOUS
<1>1. ASSUME NEW t \in Threads, Flush(t) PROVE IInv'
  BY <1>1, FlushInv
<1>2. ASSUME NEW t \in Threads, WriteBuff(t) PROVE IInv'
  BY <1>2, WriteBuffInv
<1>3. ASSUME NEW t \in Threads, WriteDirect(t) PROVE IInv'
  BY <1>3, WriteDirectInv
<1>4. ASSUME NEW t \in Threads, Put(t) PROVE IInv'
  BY <1>4, PutInv
<1>5. ASSUME NEW t \in Threads, Configure(t) PROVE IInv'
  BY <1>5, ConfigureInv
<1>6. ASSUME NEW t \in Threads, ResetFlush(t) PROVE IInv'
  BY <1>6, ResetFlushInv
<1>7. ASSUME NEW t \in Threads, ResetOstream(t) PROVE IInv'
  BY <1>7, ResetOstreamInv
<1>8. ASSUME NEW t \in Threads, ResetBuff(t) PROVE IInv'
  BY <1>8, ResetBuffInv
<1>9. ASSUME UNCHANGED vars PROVE IInv'
  <2>1. /\ enable' = enable /\ size' = size /\ stream_type' = stream_type /\ ostream' = ostream
        /\ buff' = buff /\ pending' = pending /\ out' = out /\ pc' = pc /\ alive' = alive
        /\ quiet' = quiet /\ accepted' = accepted /\ safe' = safe
    BY <1>9 DEF vars
  <2>2. Held' = Held /\ HeldLines' = HeldLines
    BY <2>1, HeldIs DEF HeldLines
  <2>3. Types' /\ BuffBounded' /\ OnceInv'
    BY <2>1, <2>2 DEF IInv, Types, BuffBounded, OnceInv
  <2>4. QuietInv' /\ StreamsThenBuffer' /\ CrashLosesTail'
    BY <2>1, <2>2
       DEF IInv, QuietInv, OneResets, FlushedBefore, NoBuffNoLines, StreamsThenBuffer, CrashLosesTail
  <2> QED
    BY <2>3, <2>4 DEF IInv
<1>10. CASE Crash
  BY <1>10, CrashInv
<1>11. CASE Exit
  BY <1>11, ExitInv
<1> QED
  BY <1>1, <1>2, <1>3, <1>4, <1>5, <1>6, <1>7, <1>8, <1>9, <1>10, <1>11 DEF Next

LEMMA IInvariant == Spec => []IInv
BY InitIInv, StepIInv, PTL DEF Spec

-----------------------------------------------------------------------------
(* What holds of every run of the logger *)

\* A sequence without repetitions has as many members as it is long.
LEMMA DistinctCount ==
  ASSUME NEW s \in Seq(Nat), NEW n \in Nat, Distinct(s, n)
  PROVE  LET members == {s[i] : i \in 1 .. Len(s)}
         IN  members \subseteq 1 .. n /\ Cardinality(members) = Len(s)
<1> DEFINE members == {s[i] : i \in 1 .. Len(s)}
<1>1. Len(s) \in Nat /\ s \in [1 .. Len(s) -> Nat]
  BY LenProperties
<1>2. s \in [1 .. Len(s) -> members]
  BY <1>1
<1>3. /\ \A i, j \in 1 .. Len(s) : s[i] = s[j] => i = j
      /\ \A x \in members : \E i \in 1 .. Len(s) : s[i] = x
  BY DEF Distinct
<1>4. Cardinality(members) = Len(s)
  <2> HIDE DEF members
  <2> QED
    BY <1>1, <1>2, <1>3, InjectiveCount
<1>5. members \subseteq 1 .. n
  BY DEF Distinct
<1> QED
  BY <1>4, <1>5

\* Whoever resets the logger while others write, no line is twice in what the
\* streams and the buffer hold, and each was taken before.
LEMMA OnceImpliesLinesOnce == Types /\ OnceInv => LinesOnce
<1> SUFFICES ASSUME Types, OnceInv PROVE LinesOnce
  OBVIOUS
<1>1. /\ ostream \in Streams /\ out \in Seq(Entry)
      /\ pending \in Seq(Nat) /\ buff \in Seq(Nat) /\ Len(accepted) \in Nat
  BY LenProperties DEF Types
<1>2. Held \in Seq(Entry) /\ LinesOf(Held) = HeldLines
  BY <1>1, HeldLemma, HeldIs DEF HeldLines
<1>3. HeldLines \in Seq(Nat) /\ Len(HeldLines) = Len(Held)
  BY <1>2, LinesOfLemma
<1>4. DOMAIN Held = 1 .. Len(Held)
  BY <1>2, LenProperties
<1>5. \A i \in 1 .. Len(Held) : Held[i].line = HeldLines[i]
  BY <1>2 DEF LinesOf
<1>6. {Held[i].line : i \in DOMAIN Held} = {HeldLines[i] : i \in 1 .. Len(HeldLines)}
  BY <1>3, <1>4, <1>5
<1>7. /\ {HeldLines[i] : i \in 1 .. Len(HeldLines)} \subseteq 1 .. Len(accepted)
      /\ Cardinality({HeldLines[i] : i \in 1 .. Len(HeldLines)}) = Len(HeldLines)
  BY <1>1, <1>3, DistinctCount DEF OnceInv
<1> QED
  BY <1>3, <1>6, <1>7 DEF LinesOnce

\* However many threads reset the logger while others write, write(), flush(),
\* operator<< and the steps of reset() pass no line on twice and none that was
\* not written.
THEOREM LinesOnceHolds == Spec => []LinesOnce
<1>1. IInv => LinesOnce
  BY OnceImpliesLinesOnce DEF IInv
<1> QED
  BY IInvariant, <1>1, PTL

\* If nobody writes between configure() and the end of reset(), all the lines
\* written are, in their order and each on the stream that was in use, in what
\* the streams passed on, what they hold, and buff_.
THEOREM StreamsThenBufferHolds == Spec => []StreamsThenBuffer
<1>1. IInv => StreamsThenBuffer
  BY DEF IInv
<1> QED
  BY IInvariant, <1>1, PTL

\* Then whenever the program dies, the streams passed on a prefix of what was
\* written, with at least all that was written before the last flush().
THEOREM CrashLosesTailHolds == Spec => []CrashLosesTail
<1>1. IInv => CrashLosesTail
  BY DEF IInv
<1> QED
  BY IInvariant, <1>1, PTL

\* Whatever threads write and configure, buff_ holds more than config.buff.size
\* only until the flush() of a reset() that is still to come, and never more than
\* a size it once had.
THEOREM BuffBoundedHolds == Spec => []BuffBounded
<1>1. IInv => BuffBounded
  BY DEF IInv
<1> QED
  BY IInvariant, <1>1, PTL
=============================================================================
