--------------------------- MODULE UtilityProofs ---------------------------
(***************************************************************************)
(* Proofs about Service, for every set of subscribers, wherever these lie, *)
(* about Permutations, for every tuple of cardinals, about BitVector, for  *)
(* words of any width, and about Simconf, for every set of files and       *)
(* whatever they contain: which files are marked, what is reported, and    *)
(* which options stay.                                                     *)
(***************************************************************************)
EXTENDS Service, IndexCounter, BitVector, Simconf, ProofLemmas

(* Service *)

STypes ==
    /\ life \in [Subs -> {"new", "owned", "held", "expired"}]
    /\ entries \subseteq Subs /\ silent \subseteq Subs /\ todo \subseteq entries
    /\ running \in Subs \cup {NoSub}
    /\ sent \in Nat /\ times \in [Subs -> Nat]

Called == {s \in Subs : times[s] = 1}

\* notify() is in its loop while a callback runs, and has nothing left to visit
\* outside of it. What it runs is alive, and nothing else lives by it alone.
LoopInv ==
    /\ running # NoSub => notifying /\ Locked(running)
    /\ ~notifying => todo = {}
    /\ \A s \in Subs : life[s] = "held" => running = s
    /\ \A s \in entries : life[s] # "new"

\* Unless a callback registered: each is called at most once, and those not yet
\* visited not at all; of those behind the loop the ones that could be called
\* were; the calls are counted when they return.
VisitInv ==
    ~disturbed =>
        /\ \A s \in Subs : times[s] <= 1
        /\ \A s \in todo : times[s] = 0
        /\ running # NoSub => times[running] = 1
        /\ notifying => \A s \in entries \ silent :
               life[s] = "owned" /\ s \notin todo => times[s] = 1
        /\ IsFiniteSet(Called)
        /\ Cardinality(Called) = IF running = NoSub THEN sent ELSE sent + 1

SInv == STypes /\ LoopInv /\ VisitInv

LEMMA SInvDelivers == SInv => NotifyDelivers
BY DEF SInv, STypes, LoopInv, VisitInv, NotifyDelivers, Called

LEMMA SInitInv == SInit => SInv
<1> SUFFICES ASSUME SInit PROVE SInv
  OBVIOUS
<1>1. /\ life = [s \in Subs |-> "new"] /\ entries = {} /\ silent = {}
      /\ notifying = FALSE /\ todo = {} /\ running = NoSub /\ sent = 0
      /\ times = [s \in Subs |-> 0]
  BY DEF SInit
<1>2. Called = {}
  BY <1>1 DEF Called
<1>3. VisitInv
  BY <1>1, <1>2, FS_EmptySet DEF VisitInv
<1>4. STypes /\ LoopInv
  BY <1>1 DEF STypes, LoopInv
<1> QED
  BY <1>3, <1>4 DEF SInv

LEMMA CreateInv == ASSUME SInv, NEW s \in Subs, Create(s) PROVE SInv'
<1>1. /\ life[s] = "new" /\ life' = [life EXCEPT ![s] = "owned"]
      /\ entries' = entries /\ silent' = silent /\ notifying' = notifying /\ todo' = todo
      /\ running' = running /\ sent' = sent /\ times' = times /\ disturbed' = disturbed
  BY DEF Create, loop
<1>2. Called' = Called
  BY <1>1 DEF Called
<1>3. STypes' /\ LoopInv'
  BY <1>1 DEF SInv, STypes, LoopInv, Locked
<1>4. VisitInv'
  BY <1>1, <1>2 DEF SInv, STypes, LoopInv, VisitInv
<1> QED
  BY <1>3, <1>4 DEF SInv

LEMMA ReleaseInv == ASSUME SInv, NEW s \in Subs, Release(s) PROVE SInv'
<1>1. /\ life[s] = "owned"
      /\ life' = [life EXCEPT ![s] = IF running = s THEN "held" ELSE "expired"]
      /\ entries' = entries /\ silent' = silent /\ notifying' = notifying /\ todo' = todo
      /\ running' = running /\ sent' = sent /\ times' = times /\ disturbed' = disturbed
  BY DEF Release, loop
<1>2. Called' = Called
  BY <1>1 DEF Called
<1>3. STypes' /\ LoopInv'
  BY <1>1 DEF SInv, STypes, LoopInv, Locked
<1>4. VisitInv'
  BY <1>1, <1>2 DEF SInv, STypes, LoopInv, VisitInv
<1> QED
  BY <1>3, <1>4 DEF SInv

LEMMA RegInv == ASSUME SInv, NEW s \in Subs, NEW empty, Reg(s, empty) PROVE SInv'
<1>1. /\ Locked(s) /\ entries' = entries \cup {s}
      /\ silent' \subseteq silent \cup {s}
      /\ disturbed' = (disturbed \/ notifying)
      /\ \/ notifying /\ todo' \in SUBSET entries'
         \/ todo' = todo
      /\ life' = life /\ notifying' = notifying
      /\ running' = running /\ sent' = sent /\ times' = times
  BY DEF Reg
<1>2. Called' = Called
  BY <1>1 DEF Called
<1>3. STypes' /\ LoopInv'
  BY <1>1 DEF SInv, STypes, LoopInv, Locked
<1>4. VisitInv'
  <2> SUFFICES ASSUME ~disturbed' PROVE VisitInv'
    BY DEF VisitInv
  <2>1. ~disturbed /\ ~notifying /\ ~notifying'
    BY <1>1
  <2>2. todo = {} /\ todo' = {} /\ running = NoSub
    BY <1>1, <2>1 DEF SInv, LoopInv
  <2> QED
    BY <1>1, <1>2, <2>1, <2>2 DEF SInv, VisitInv
<1> QED
  BY <1>3, <1>4 DEF SInv

\* Unreg() and purge() take entries away.
LEMMA FewerInv ==
  ASSUME SInv, NEW gone, entries' = entries \ gone, silent' = silent \ gone, todo' = todo \ gone,
         UNCHANGED <<life, notifying, running, sent, times, disturbed>>
  PROVE  SInv'
<1>1. /\ life' = life /\ notifying' = notifying /\ running' = running
      /\ sent' = sent /\ times' = times /\ disturbed' = disturbed
  OBVIOUS
<1>2. Called' = Called
  BY <1>1 DEF Called
<1>3. STypes' /\ LoopInv'
  BY <1>1 DEF SInv, STypes, LoopInv, Locked
<1>4. VisitInv'
  BY <1>1, <1>2 DEF SInv, STypes, LoopInv, VisitInv
<1> QED
  BY <1>3, <1>4 DEF SInv

LEMMA NotifyStartInv == ASSUME SInv, NotifyStart PROVE SInv'
<1>1. /\ ~notifying /\ notifying' = TRUE /\ todo' = entries /\ sent' = 0
      /\ times' = [s \in Subs |-> 0]
      /\ life' = life /\ entries' = entries /\ silent' = silent /\ running' = running
  BY DEF NotifyStart
<1>2. Called' = {}
  BY <1>1 DEF Called
<1>3. running = NoSub
  BY <1>1 DEF SInv, LoopInv
<1>4. STypes' /\ LoopInv'
  BY <1>1, <1>3 DEF SInv, STypes, LoopInv, Locked
<1>5. VisitInv'
  BY <1>1, <1>2, <1>3, FS_EmptySet DEF SInv, STypes, VisitInv
<1> QED
  BY <1>4, <1>5 DEF SInv

LEMMA NotifyCallInv == ASSUME SInv, NEW s \in Subs, NotifyCall(s) PROVE SInv'
<1>1. /\ notifying /\ running = NoSub /\ s \in todo /\ Locked(s)
      /\ todo' = todo \ {s} /\ running' = s
      /\ times' = [times EXCEPT ![s] = @ + 1]
      /\ life' = life /\ entries' = entries /\ silent' = silent
      /\ notifying' = notifying /\ sent' = sent /\ disturbed' = disturbed
  BY DEF NotifyCall
<1>2. STypes' /\ LoopInv'
  <2>1. STypes'
    BY <1>1 DEF SInv, STypes
  <2>2. notifying'
    BY <1>1, Zenon
  <2>3. /\ life'[running'] \in {"owned", "held"}
        /\ \A t \in Subs : life'[t] = "held" => running' = t
        /\ \A t \in entries' : life'[t] # "new"
    BY <1>1, ServiceAssumption DEF SInv, LoopInv, Locked
  <2>4. LoopInv'
    BY <2>2, <2>3 DEF LoopInv, Locked
  <2> QED
    BY <2>1, <2>4
<1>3. ASSUME ~disturbed PROVE VisitInv'
  <2>1. /\ times[s] = 0 /\ times \in [Subs -> Nat] /\ IsFiniteSet(Called)
        /\ Cardinality(Called) = sent
    BY <1>1, <1>3 DEF SInv, STypes, VisitInv
  <2>2. Called' = Called \cup {s} /\ s \notin Called
    BY <1>1, <2>1 DEF Called
  <2>3. IsFiniteSet(Called') /\ Cardinality(Called') = sent + 1
    BY <2>1, <2>2, FS_AddElement
  <2>4. running' # NoSub
    BY <1>1, ServiceAssumption
  <2>5. /\ \A t \in Subs : times'[t] <= 1
        /\ \A t \in todo' : times'[t] = 0
        /\ times'[running'] = 1
    BY <1>1, <1>3, <2>1 DEF SInv, STypes, VisitInv
  <2>6. \A t \in entries' \ silent' : life'[t] = "owned" /\ t \notin todo' => times'[t] = 1
    BY <1>1, <1>3, <2>1 DEF SInv, STypes, VisitInv
  <2> QED
    BY <1>1, <2>3, <2>4, <2>5, <2>6 DEF VisitInv
<1>4. VisitInv'
  BY <1>1, <1>3 DEF VisitInv
<1> QED
  BY <1>2, <1>4 DEF SInv

LEMMA NotifySkipInv == ASSUME SInv, NEW s \in Subs, NotifySkip(s) PROVE SInv'
<1>1. /\ notifying /\ running = NoSub /\ s \in todo /\ (~Locked(s) \/ s \in silent)
      /\ todo' = todo \ {s}
      /\ life' = life /\ entries' = entries /\ silent' = silent /\ notifying' = notifying
      /\ running' = running /\ sent' = sent /\ times' = times /\ disturbed' = disturbed
  BY DEF NotifySkip
<1>2. Called' = Called
  BY <1>1 DEF Called
<1>3. STypes' /\ LoopInv'
  BY <1>1 DEF SInv, STypes, LoopInv, Locked
<1>4. VisitInv'
  BY <1>1, <1>2 DEF SInv, STypes, VisitInv, Locked
<1> QED
  BY <1>3, <1>4 DEF SInv

LEMMA NotifyReturnInv == ASSUME SInv, NotifyReturn PROVE SInv'
<1>1. /\ running # NoSub /\ running' = NoSub /\ sent' = sent + 1
      /\ life' = [life EXCEPT ![running] = IF @ = "held" THEN "expired" ELSE @]
      /\ entries' = entries /\ silent' = silent /\ notifying' = notifying
      /\ todo' = todo /\ times' = times /\ disturbed' = disturbed
  BY DEF NotifyReturn
<1>2. Called' = Called
  BY <1>1 DEF Called
<1>3. running \in Subs
  BY <1>1 DEF SInv, STypes
<1>4. STypes' /\ LoopInv'
  BY <1>1, <1>3 DEF SInv, STypes, LoopInv, Locked
<1>5. VisitInv'
  BY <1>1, <1>2, <1>3 DEF SInv, STypes, VisitInv
<1> QED
  BY <1>4, <1>5 DEF SInv

LEMMA NotifyEndInv == ASSUME SInv, NotifyEnd PROVE SInv'
<1>1. /\ running = NoSub /\ todo = {} /\ notifying' = FALSE
      /\ life' = life /\ entries' = entries /\ silent' = silent /\ todo' = todo
      /\ running' = running /\ sent' = sent /\ times' = times /\ disturbed' = disturbed
  BY DEF NotifyEnd
<1>2. Called' = Called
  BY <1>1 DEF Called
<1>3. STypes' /\ LoopInv'
  <2>1. STypes'
    BY <1>1 DEF SInv, STypes
  <2>2. /\ running' = NoSub /\ todo' = {}
        /\ \A s \in Subs : life'[s] = "held" => running' = s
        /\ \A s \in entries' : life'[s] # "new"
    BY <1>1 DEF SInv, LoopInv
  <2>3. LoopInv'
    BY <2>2 DEF LoopInv
  <2> QED
    BY <2>1, <2>3
<1>4. VisitInv'
  BY <1>1, <1>2 DEF SInv, VisitInv
<1> QED
  BY <1>3, <1>4 DEF SInv

LEMMA SStepInv == SInv /\ [SNext]_svars => SInv'
<1> SUFFICES ASSUME SInv, [SNext]_svars PROVE SInv'
  OBVIOUS
<1>1. ASSUME NEW s \in Subs, Create(s) PROVE SInv'
  BY <1>1, CreateInv
<1>2. ASSUME NEW s \in Subs, Release(s) PROVE SInv'
  BY <1>2, ReleaseInv
<1>3. ASSUME NEW s \in Subs, Unreg(s) PROVE SInv'
  BY <1>3, FewerInv DEF Unreg
<1>4. ASSUME NEW s \in Subs, NEW empty \in BOOLEAN, Reg(s, empty) PROVE SInv'
  BY <1>4, RegInv
<1>5. CASE Purge
  BY <1>5, FewerInv DEF Purge
<1>6. ASSUME NEW s \in Subs, NotifyCall(s) PROVE SInv'
  BY <1>6, NotifyCallInv
<1>7. ASSUME NEW s \in Subs, NotifySkip(s) PROVE SInv'
  BY <1>7, NotifySkipInv
<1>8. CASE NotifyStart
  BY <1>8, NotifyStartInv
<1>9. CASE NotifyReturn
  BY <1>9, NotifyReturnInv
<1>10. CASE NotifyEnd
  BY <1>10, NotifyEndInv
<1>11. CASE UNCHANGED svars
  <2>1. /\ entries' = entries \ {} /\ silent' = silent \ {} /\ todo' = todo \ {}
        /\ UNCHANGED <<life, notifying, running, sent, times, disturbed>>
    BY <1>11 DEF svars
  <2> QED
    BY <2>1, FewerInv
<1> QED
  BY <1>1, <1>2, <1>3, <1>4, <1>5, <1>6, <1>7, <1>8, <1>9, <1>10, <1>11 DEF SNext

LEMMA SInvariant == SSpec => []SInv
BY SInitInv, SStepInv, PTL DEF SSpec

\* notify() runs a callback only while its subscriber is alive; unless one
\* registers meanwhile it calls none twice and, when it returns, has called all
\* that were registered with a callback and are still owned, and its result is
\* how many it called.
THEOREM NotifyDeliversHolds == SSpec => []NotifyDelivers
BY SInvariant, SInvDelivers, PTL

LEMMA ExpiredStayStep ==
  SInv /\ [SNext]_svars => [\A s \in entries : life[s] = "expired" => s \in entries']_svars
<1> SUFFICES ASSUME SInv, SNext, NEW s \in entries, life[s] = "expired"
             PROVE  s \in entries'
  BY DEF svars
<1>1. s \in Subs /\ ~Locked(s) /\ HashNow(s) = 0 /\ Address[s] # 0
  BY ServiceAssumption DEF SInv, STypes, Locked, HashNow
<1>2. ASSUME NEW t \in Subs, Unreg(t) PROVE s \in entries'
  BY <1>1, <1>2 DEF Unreg
<1>3. ASSUME Purge PROVE s \in entries'
  BY <1>1, <1>3 DEF Purge, InBucket
<1> QED
  BY <1>2, <1>3
     DEF SNext, Create, Release, Reg, NotifyCall, NotifySkip, NotifyStart, NotifyReturn, NotifyEnd

\* unreg() and purge() erase no entry of a subscriber that has expired: its
\* weak pointer no longer hashes to where its entry is. The entry stays for the
\* life of the Service.
THEOREM ExpiredStayHolds == SSpec => ExpiredStay
BY SInvariant, ExpiredStayStep, PTL DEF SSpec, ExpiredStay

-----------------------------------------------------------------------------
(* Permutations *)

CTypes == cardinals_ \in Seq(Nat \ {0})

LEMMA Ranks ==
  ASSUME CTypes
  PROVE  rank \in Nat /\ Digits = 1 .. rank /\ \A i \in 1 .. rank : cardinals_[i] \in Nat \ {0}
BY DEF CTypes, rank, Digits

LEMMA Weights ==
  ASSUME CTypes
  PROVE  /\ Weight \in [0 .. rank -> Nat \ {0}]
         /\ Weight[0] = 1
         /\ \A i \in 1 .. rank : Weight[i] = Weight[i - 1] * cardinals_[i]
<1> DEFINE S == Nat \ {0}
           D == 0 .. rank
           step == [i \in 1 .. rank |-> [x \in S |-> x * cardinals_[i]]]
           Rec(g) == [i \in D |-> IF i = 0 THEN 1 ELSE g[i - 1] * cardinals_[i]]
<1>1. rank \in Nat /\ \A i \in 1 .. rank : cardinals_[i] \in S
  BY Ranks
<1>2. \A i \in 1 .. rank, x \in S : step[i][x] = x * cardinals_[i] /\ step[i][x] \in S
  BY <1>1
<1> HIDE DEF step
<1>3. PICK f : f \in [D -> S] /\ f[0] = 1 /\ \A i \in 1 .. rank : f[i] = step[i][f[i - 1]]
  <2>1. rank \in Nat /\ 1 \in S /\ step \in [1 .. rank -> [S -> S]]
    BY <1>1, <1>2 DEF step
  <2> HIDE DEF S
  <2>2. \E f : Goes(f, rank, S, 1, step)
    BY <2>1, FunctionByStep
  <2> QED
    BY <2>2 DEF Goes
<1>4. f = Rec(f)
  <2>1. ASSUME NEW i \in D PROVE f[i] = Rec(f)[i]
    <3>1. CASE i = 0
      BY <1>3, <3>1
    <3>2. CASE i # 0
      <4>1. i \in 1 .. rank /\ i - 1 \in D
        BY <1>1, <3>2
      <4> QED
        BY <1>2, <1>3, <3>2, <4>1
    <3> QED
      BY <3>1, <3>2
  <2> QED
    BY <1>3, <2>1
<1>5. Weight = CHOOSE g : g = Rec(g)
  BY DEF Weight
<1> HIDE DEF Rec
<1>6. Weight = Rec(Weight)
  BY <1>4, <1>5
<1>7. /\ DOMAIN Weight = D /\ Weight[0] = 1
      /\ \A i \in 1 .. rank : Weight[i] = Weight[i - 1] * cardinals_[i]
  <2>1. Weight = [i \in D |-> IF i = 0 THEN 1 ELSE Weight[i - 1] * cardinals_[i]]
    BY <1>6 DEF Rec
  <2> HIDE DEF D
  <2>2. DOMAIN Weight = D /\ \A i \in D : Weight[i] = IF i = 0 THEN 1 ELSE Weight[i - 1] * cardinals_[i]
    BY <2>1
  <2> QED
    BY <1>1, <2>2 DEF D
<1>8. ASSUME NEW k \in D PROVE Weight[k] \in S
  <2> DEFINE T == {i \in D : Weight[i] \in S}
  <2>1. 0 \in T
    BY <1>1, <1>7
  <2>2. ASSUME NEW i \in 1 .. k, i - 1 \in T PROVE i \in T
    <3>1. i \in 1 .. rank /\ i \in D
      BY <1>1
    <3>2. Weight[i - 1] \in S /\ cardinals_[i] \in S
      BY <1>1, <2>2, <3>1
    <3>3. Weight[i - 1] * cardinals_[i] \in S
      BY <3>2
    <3> QED
      BY <1>7, <3>1, <3>3
  <2> HIDE DEF T
  <2>3. k \in T
    BY <2>1, <2>2, UpTo
  <2> QED
    BY <2>3 DEF T
<1>9. Weight = [i \in D |-> Weight[i]]
  BY <1>6 DEF Rec
<1> QED
  BY <1>7, <1>8, <1>9

\* The partial sums of Number(v)
Sum(v) == CHOOSE pos : pos = [i \in 0 .. rank |-> IF i = 0 THEN 0 ELSE pos[i - 1] + v[i] * Weight[i - 1]]

LEMMA Sums ==
  ASSUME CTypes, NEW v \in [Digits -> Nat]
  PROVE  /\ Number(v) = Sum(v)[rank]
         /\ \A i \in 0 .. rank : Sum(v)[i] \in Nat
         /\ Sum(v)[0] = 0
         /\ \A i \in 1 .. rank : Sum(v)[i] = Sum(v)[i - 1] + v[i] * Weight[i - 1]
<1> DEFINE D == 0 .. rank
           step == [i \in 1 .. rank |-> [x \in Nat |-> x + v[i] * Weight[i - 1]]]
           Rec(g) == [i \in D |-> IF i = 0 THEN 0 ELSE g[i - 1] + v[i] * Weight[i - 1]]
<1>1. rank \in Nat /\ \A i \in 1 .. rank : v[i] \in Nat /\ Weight[i - 1] \in Nat /\ i - 1 \in D
  BY Ranks, Weights, SMTT(30)
<1>2. \A i \in 1 .. rank, x \in Nat : step[i][x] = x + v[i] * Weight[i - 1] /\ step[i][x] \in Nat
  <2>1. ASSUME NEW i \in 1 .. rank, NEW x \in Nat
        PROVE  step[i][x] = x + v[i] * Weight[i - 1] /\ step[i][x] \in Nat
    <3>1. v[i] * Weight[i - 1] \in Nat
      BY <1>1
    <3> QED
      BY <3>1
  <2> QED
    BY <2>1
<1> HIDE DEF step
<1>3. PICK f : f \in [D -> Nat] /\ f[0] = 0 /\ \A i \in 1 .. rank : f[i] = step[i][f[i - 1]]
  <2>1. step \in [1 .. rank -> [Nat -> Nat]]
    BY <1>1, <1>2 DEF step
  <2>2. \E f : Goes(f, rank, Nat, 0, step)
    BY <1>1, <2>1, FunctionByStep
  <2> QED
    BY <2>2 DEF Goes
<1>4. f = Rec(f)
  <2>1. ASSUME NEW i \in D PROVE f[i] = Rec(f)[i]
    <3>1. CASE i = 0
      BY <1>3, <3>1
    <3>2. CASE i # 0
      <4>1. i \in 1 .. rank /\ i - 1 \in D
        BY <1>1, <3>2
      <4> QED
        BY <1>2, <1>3, <3>2, <4>1
    <3> QED
      BY <3>1, <3>2
  <2> QED
    BY <1>3, <2>1
<1> DEFINE g == Sum(v)
<1>5. g = CHOOSE pos : pos = Rec(pos)
  BY DEF Sum
<1>6. Number(v) = g[rank]
  BY DEF Number, Sum
<1> HIDE DEF Rec, g
<1>7. g = Rec(g)
  BY <1>4, <1>5
<1>8. \A i \in D : g[i] = IF i = 0 THEN 0 ELSE g[i - 1] + v[i] * Weight[i - 1]
  BY <1>7 DEF Rec
<1>9. g[0] = 0 /\ \A i \in 1 .. rank : g[i] = g[i - 1] + v[i] * Weight[i - 1]
  BY <1>1, <1>8
<1>10. ASSUME NEW k \in D PROVE g[k] \in Nat
  <2> DEFINE T == {i \in D : g[i] \in Nat}
  <2>1. 0 \in T
    BY <1>1, <1>9
  <2>2. ASSUME NEW i \in 1 .. k, i - 1 \in T PROVE i \in T
    <3>1. i \in 1 .. rank /\ i \in D
      BY <1>1
    <3>2. g[i - 1] \in Nat /\ v[i] \in Nat /\ Weight[i - 1] \in Nat
      BY <1>1, <2>2, <3>1
    <3>3. v[i] * Weight[i - 1] \in Nat
      BY <3>2
    <3>4. g[i] \in Nat
      BY <1>9, <3>1, <3>2, <3>3
    <3> QED
      BY <3>1, <3>4
  <2> HIDE DEF T
  <2>3. k \in T
    BY <2>1, <2>2, UpTo
  <2> QED
    BY <2>3 DEF T
<1> QED
  BY <1>6, <1>9, <1>10 DEF g

\* The first i digits are below the number of tuples they make.
LEMMA SumBelow ==
  ASSUME CTypes, NEW v \in [Digits -> Nat], valid_indices(v), NEW k \in 0 .. rank
  PROVE  Sum(v)[k] < Weight[k]
<1> DEFINE T == {i \in 0 .. rank : Sum(v)[i] < Weight[i]}
<1>1. rank \in Nat /\ Weight[0] = 1 /\ Sum(v)[0] = 0
  BY Ranks, Weights, Sums
<1>2. 0 \in T
  BY <1>1
<1>3. ASSUME NEW i \in 1 .. k, i - 1 \in T PROVE i \in T
  <2> DEFINE h == i - 1
             w == Weight[h]
             c == cardinals_[i]
             x == v[i]
             s == Sum(v)[h]
  <2>1. i \in 1 .. rank /\ h \in 0 .. rank /\ i \in 0 .. rank
    BY <1>1
  <2>2. w \in Nat /\ c \in Nat /\ x \in Nat /\ s \in Nat /\ s < w /\ x < c
    BY <1>3, <2>1, Ranks, Weights, Sums DEF valid_indices
  <2>3. Weight[i] = w * c /\ Sum(v)[i] = s + x * w
    BY <2>1, Weights, Sums
  <2> HIDE DEF w, c, x, s
  <2>4. (x + 1) * w <= c * w /\ c * w = w * c /\ (x + 1) * w = x * w + w
    <3>1. w * (x + 1) <= w * c
      BY <2>2, Monotone
    <3> QED
      BY <2>2, <3>1
  <2>5. x * w \in Nat /\ w * c \in Nat
    BY <2>2
  <2>6. s + x * w < w * c
    BY <2>2, <2>4, <2>5
  <2> QED
    BY <2>1, <2>3, <2>6
<1> HIDE DEF T
<1>4. k \in T
  BY <1>2, <1>3, UpTo
<1> QED
  BY <1>4 DEF T

\* What the digits after the i-th add is a multiple of what a step of the next counts.
LEMMA SumAbove ==
  ASSUME CTypes, NEW v \in [Digits -> Nat], NEW k \in 0 .. rank
  PROVE  \E q \in Nat : Sum(v)[rank] = Sum(v)[k] + Weight[k] * q
<1> DEFINE Above(j) == \E q, r \in Nat : Sum(v)[j] = Sum(v)[k] + Weight[k] * q /\ Weight[j] = Weight[k] * r
           T == {i \in 0 .. rank - k : Above(k + i)}
           s == Sum(v)[k]
           w == Weight[k]
<1>1. rank \in Nat /\ s \in Nat /\ w \in Nat /\ k \in Nat
  BY Ranks, Weights, Sums
<1>2. 0 \in T
  <2>1. s = s + w * 0 /\ w = w * 1
    BY <1>1
  <2>2. k + 0 = k
    BY <1>1
  <2> QED
    BY <1>1, <2>1, <2>2
<1>3. ASSUME NEW i \in 1 .. rank - k, i - 1 \in T PROVE i \in T
  <2> DEFINE j == k + i
             h == k + (i - 1)
             x == v[j]
             c == cardinals_[j]
  <2>1. j \in 1 .. rank /\ h = j - 1 /\ i \in 0 .. rank - k
    BY <1>1
  <2>2. PICK q, r \in Nat : Sum(v)[h] = s + w * q /\ Weight[h] = w * r
    BY <1>3
  <2>3. Sum(v)[j] = Sum(v)[h] + x * Weight[h] /\ Weight[j] = Weight[h] * c
    BY <2>1, Sums, Weights
  <2>4. x \in Nat /\ c \in Nat
    BY <2>1, Ranks DEF Digits
  <2> HIDE DEF s, w, x, c, h, j
  <2>5. Sum(v)[j] = s + w * (q + x * r) /\ Weight[j] = w * (r * c)
    BY <1>1, <2>2, <2>3, <2>4
  <2>6. q + x * r \in Nat /\ r * c \in Nat
    BY <2>2, <2>4
  <2>7. Above(j)
    BY <2>5, <2>6 DEF s, w
  <2> QED
    BY <2>1, <2>7 DEF j
<1> HIDE DEF T
<1>4. rank - k \in T
  BY <1>1, <1>2, <1>3, UpTo
<1>5. Above(k + (rank - k))
  BY <1>4 DEF T
<1> QED
  BY <1>1, <1>5

\* seekp() of what tellp() says leads back.
LEMMA DigitsOfNumber ==
  ASSUME CTypes, NEW v \in [Digits -> Nat], valid_indices(v)
  PROVE  At(Number(v)) = v
<1>1. ASSUME NEW i \in Digits PROVE (Number(v) \div Weight[i - 1]) % cardinals_[i] = v[i]
  <2> DEFINE h == i - 1
             w == Weight[h]
             c == cardinals_[i]
             x == v[i]
             s == Sum(v)[h]
  <2>1. i \in 1 .. rank /\ h \in 0 .. rank /\ i \in 0 .. rank
    BY Ranks
  <2>2. w \in Nat \ {0} /\ c \in Nat \ {0} /\ x \in Nat /\ s \in Nat /\ s < w /\ x < c
    BY <2>1, Ranks, Weights, Sums, SumBelow DEF valid_indices
  <2>3. Weight[i] = w * c /\ Sum(v)[i] = s + x * w /\ Number(v) = Sum(v)[rank]
    BY <2>1, Weights, Sums
  <2>4. PICK q \in Nat : Sum(v)[rank] = Sum(v)[i] + Weight[i] * q
    BY <2>1, SumAbove
  <2> HIDE DEF w, c, x, s
  <2> DEFINE y == c * q + x
  <2>5. y \in Nat
    BY <2>2
  <2>6. Number(v) = w * y + s
    BY <2>2, <2>3, <2>4
  <2>7. y % c = x
    BY <2>2, DivideOnly
  <2> HIDE DEF y
  <2>8. (w * y + s) \div w = y
    BY <2>2, <2>5, DivideOnly
  <2> QED
    BY <2>6, <2>7, <2>8 DEF w, c, x
<1>2. At(Number(v)) = [i \in Digits |-> v[i]]
  BY <1>1 DEF At
<1> QED
  BY <1>2

\* tellp() after seekp(p)
LEMMA NumberOfDigits ==
  ASSUME CTypes, NEW p \in Nat
  PROVE  /\ At(p) \in [Digits -> Nat] /\ valid_indices(At(p))
         /\ Number(At(p)) = p % size
<1> DEFINE v == At(p)
<1>1. ASSUME NEW i \in Digits
      PROVE  v[i] = (p \div Weight[i - 1]) % cardinals_[i] /\ v[i] \in Nat /\ v[i] < cardinals_[i]
  <2> DEFINE w == Weight[i - 1]
             c == cardinals_[i]
             a == p \div w
  <2>1. i \in 1 .. rank /\ i - 1 \in 0 .. rank
    BY Ranks
  <2>2. w \in Nat \ {0} /\ c \in Nat \ {0}
    BY <2>1, Ranks, Weights
  <2> HIDE DEF w, c
  <2>3. a \in Nat
    BY <2>2, Divide
  <2>4. a % c \in 0 .. c - 1
    BY <2>2, <2>3, Divide
  <2>5. v[i] = a % c
    BY DEF At, w, c
  <2> QED
    BY <2>2, <2>4, <2>5 DEF c, w
<1>2. v \in [Digits -> Nat]
  <2>1. v = [i \in Digits |-> v[i]]
    BY DEF At
  <2> QED
    BY <1>1, <2>1
<1>3. valid_indices(v)
  BY <1>1 DEF valid_indices
<1> HIDE DEF v
<1> DEFINE T == {i \in 0 .. rank : Sum(v)[i] = p % Weight[i]}
<1>4. rank \in Nat /\ Sum(v)[0] = 0 /\ Weight[0] = 1 /\ p % 1 = 0
  BY <1>2, Ranks, Weights, Sums
<1>5. 0 \in T
  BY <1>4
<1>6. ASSUME NEW i \in 1 .. rank, i - 1 \in T PROVE i \in T
  <2> DEFINE h == i - 1
             w == Weight[h]
             c == cardinals_[i]
             a == p \div w
             b == p % w
             e == a \div c
             d == a % c
  <2>1. i \in Digits /\ h \in 0 .. rank /\ i \in 0 .. rank
    BY <1>4, Ranks
  <2>2. w \in Nat \ {0} /\ c \in Nat \ {0} /\ Weight[i] = w * c
    BY <2>1, Ranks, Weights
  <2>3. Sum(v)[i] = Sum(v)[h] + v[i] * w /\ v[i] = d /\ Sum(v)[h] = b
    BY <1>1, <1>2, <1>6, <2>1, Sums
  <2> HIDE DEF w, c
  <2>4. a \in Nat /\ b \in 0 .. w - 1 /\ p = w * a + b
    BY <2>2, Divide
  <2> HIDE DEF a, b
  <2>5. e \in Nat /\ d \in 0 .. c - 1 /\ a = c * e + d
    BY <2>2, <2>4, Divide
  <2> HIDE DEF d, e
  <2> DEFINE m == w * c
             r == w * d + b
  <2>6. m \in Nat \ {0}
    BY <2>2
  <2>7. r \in 0 .. m - 1
    <3>1. w * (d + 1) <= w * c
      BY <2>2, <2>5, Monotone
    <3>2. w * (d + 1) = w * d + w /\ w * d \in Nat
      BY <2>2, <2>5
    <3> QED
      BY <2>2, <2>4, <2>6, <3>1, <3>2
  <2>8. p = m * e + r
    BY <2>2, <2>4, <2>5
  <2> HIDE DEF m, r
  <2>9. (m * e + r) % m = r
    BY <2>5, <2>6, <2>7, DivideOnly
  <2>10. Sum(v)[i] = r
    BY <2>2, <2>3, <2>4, <2>5 DEF r
  <2> QED
    BY <2>1, <2>2, <2>8, <2>9, <2>10 DEF m
<1> HIDE DEF T
<1>7. rank \in T
  BY <1>4, <1>5, <1>6, UpTo
<1>8. Number(v) = p % size
  BY <1>2, <1>7, Sums DEF T, size
<1> QED
  BY <1>2, <1>3, <1>8 DEF v

\* v and w differ by a carry to digit s (past the last when all are carried over).
Carried(v, w, s) ==
    /\ s \in 1 .. rank + 1
    /\ \A i \in Digits : i < s => v[i] = cardinals_[i] - 1 /\ w[i] = 0
    /\ \A i \in Digits : i = s => w[i] = v[i] + 1
    /\ \A i \in Digits : i > s => w[i] = v[i]

LEMMA NumberCarried ==
  ASSUME CTypes, NEW v \in [Digits -> Nat], NEW w \in [Digits -> Nat], NEW s, Carried(v, w, s)
  PROVE  IF s <= rank THEN Number(w) = Number(v) + 1 ELSE Number(v) = size - 1 /\ Number(w) = 0
<1> DEFINE Is(i) == IF i < s THEN Sum(v)[i] = Weight[i] - 1 /\ Sum(w)[i] = 0
                    ELSE Sum(w)[i] = Sum(v)[i] + 1
           T == {i \in 0 .. rank : Is(i)}
<1>1. rank \in Nat /\ s \in 1 .. rank + 1 /\ Digits = 1 .. rank
  BY Ranks DEF Carried
<1>2. 0 \in T
  <2>1. Sum(v)[0] = 0 /\ Sum(w)[0] = 0 /\ Weight[0] = 1
    BY Sums, Weights
  <2> QED
    BY <1>1, <2>1
<1>3. ASSUME NEW i \in 1 .. rank, i - 1 \in T PROVE i \in T
  <2> DEFINE h == i - 1
             a == Weight[h]
             c == cardinals_[i]
             x == v[i]
             y == w[i]
  <2>1. i \in Digits /\ h \in 0 .. rank /\ i \in 0 .. rank /\ i = h + 1
    BY <1>1
  <2>2. a \in Nat \ {0} /\ c \in Nat \ {0} /\ Weight[i] = a * c /\ x \in Nat /\ y \in Nat
    BY <2>1, Ranks, Weights
  <2>3. /\ Sum(v)[i] = Sum(v)[h] + x * a /\ Sum(w)[i] = Sum(w)[h] + y * a
        /\ Sum(v)[h] \in Nat /\ Sum(w)[h] \in Nat
    BY <2>1, Sums
  <2>4. /\ i < s => x = c - 1 /\ y = 0
        /\ i = s => y = x + 1
        /\ i > s => y = x
    BY <2>1 DEF Carried
  <2>5. Is(h)
    BY <1>3
  <2> HIDE DEF a, c, x, y, h
  <2>6. CASE i < s
    <3>1. (c - 1) * a = a * c - a /\ 0 * a = 0
      BY <2>2
    <3>2. Sum(v)[h] = a - 1 /\ Sum(w)[h] = 0
      BY <1>1, <2>1, <2>5, <2>6 DEF a
    <3>3. Sum(v)[i] = a * c - 1 /\ Sum(w)[i] = 0
      BY <2>2, <2>3, <2>4, <2>6, <3>1, <3>2
    <3> QED
      BY <2>1, <2>2, <2>6, <3>3
  <2>7. CASE i = s
    <3>1. (x + 1) * a = x * a + a /\ x * a \in Nat
      BY <2>2
    <3>2. Sum(v)[h] = a - 1 /\ Sum(w)[h] = 0
      BY <1>1, <2>1, <2>5, <2>7 DEF a
    <3>3. Sum(w)[i] = Sum(v)[i] + 1
      BY <2>2, <2>3, <2>4, <2>7, <3>1, <3>2
    <3> QED
      BY <2>1, <2>7, <3>3
  <2>8. CASE i > s
    <3>1. x * a \in Nat
      BY <2>2
    <3>2. Sum(w)[h] = Sum(v)[h] + 1
      BY <1>1, <2>1, <2>5, <2>8
    <3>3. Sum(w)[i] = Sum(v)[i] + 1
      BY <2>2, <2>3, <2>4, <2>8, <3>1, <3>2
    <3> QED
      BY <1>1, <2>1, <2>8, <3>3
  <2> QED
    BY <1>1, <2>1, <2>6, <2>7, <2>8
<1> HIDE DEF T
<1>4. rank \in T
  BY <1>1, <1>2, <1>3, UpTo
<1>5. Number(v) = Sum(v)[rank] /\ Number(w) = Sum(w)[rank]
  BY Sums
<1> QED
  BY <1>1, <1>4, <1>5 DEF T, size

-----------------------------------------------------------------------------
IInv ==
    /\ CTypes
    /\ indices_ \in [Digits -> Nat]
    /\ told = -1 \/ (valid_indices(indices_) /\ Number(indices_) = told)

\* One digit more or less, modulo the size
LEMMA OneOn ==
  ASSUME NEW n \in Nat \ {0}, NEW a \in 0 .. n - 1
  PROVE  /\ (a + 1) % n = IF a = n - 1 THEN 0 ELSE a + 1
         /\ (a - 1) % n = IF a = 0 THEN n - 1 ELSE a - 1
<1>1. (n * 1 + 0) % n = 0 /\ (n * (-1) + (n - 1)) % n = n - 1
  BY DivideOnly
<1>2. ASSUME NEW b \in 0 .. n - 1 PROVE b % n = b
  <2>1. (n * 0 + b) % n = b
    BY DivideOnly
  <2>2. n * 0 + b = b
    OBVIOUS
  <2> QED
    BY <2>1, <2>2
<1>3. n * 1 + 0 = n /\ n * (-1) + (n - 1) = -1
  OBVIOUS
<1>4. CASE a = n - 1
  BY <1>1, <1>2, <1>3, <1>4
<1>5. CASE a # n - 1
  BY <1>1, <1>2, <1>3, <1>5
<1> QED
  BY <1>4, <1>5

LEMMA CardinalsStay ==
  ASSUME UNCHANGED cardinals_
  PROVE  /\ CTypes' <=> CTypes
         /\ rank' = rank /\ Digits' = Digits
         /\ Number(indices_)' = Number(indices_')
         /\ valid_indices(indices_)' <=> valid_indices(indices_')
<1>1. rank' = rank /\ Digits' = Digits
  BY DEF rank, Digits
<1>2. Weight' = Weight
  BY <1>1 DEF Weight
<1>3. Number(indices_)' = Number(indices_')
  BY <1>1, <1>2 DEF Number
<1>4. valid_indices(indices_)' <=> valid_indices(indices_')
  BY <1>1 DEF valid_indices
<1> QED
  BY <1>1, <1>3, <1>4 DEF CTypes

LEMMA IInitInv == IInit => IInv
<1> SUFFICES ASSUME IInit PROVE IInv
  OBVIOUS
<1>1. CTypes /\ indices_ = [i \in DOMAIN cardinals_ |-> 0] /\ told = 0
  BY CardinalsAssumption DEF IInit, CTypes
<1>2. DOMAIN cardinals_ = Digits
  BY <1>1 DEF CTypes, Digits, rank
<1>3. /\ indices_ \in [Digits -> Nat] /\ \A i \in Digits : indices_[i] = 0
  BY <1>1, <1>2
<1>4. valid_indices(indices_)
  BY <1>1, <1>3, Ranks DEF valid_indices
<1>5. Number(indices_) = 0
  <2> DEFINE T == {i \in 0 .. rank : Sum(indices_)[i] = 0}
  <2>1. rank \in Nat /\ 0 \in T
    BY <1>1, <1>3, Ranks, Sums
  <2>2. ASSUME NEW i \in 1 .. rank, i - 1 \in T PROVE i \in T
    <3>1. i \in Digits /\ i - 1 \in 0 .. rank /\ i \in 0 .. rank
      BY <2>1, <1>1, Ranks
    <3>2. Weight[i - 1] \in Nat /\ indices_[i] = 0 /\ 0 * Weight[i - 1] = 0
      BY <1>1, <1>3, <3>1, Weights
    <3>3. Sum(indices_)[i] = 0 + 0 * Weight[i - 1]
      BY <1>1, <1>3, <2>2, <3>1, <3>2, Sums
    <3> QED
      BY <3>1, <3>2, <3>3
  <2> HIDE DEF T
  <2>3. rank \in T
    BY <2>1, <2>2, UpTo
  <2> QED
    BY <1>1, <1>3, <2>3, Sums DEF T
<1> QED
  BY <1>1, <1>3, <1>4, <1>5 DEF IInv

LEMMA SizeIsNat == ASSUME CTypes PROVE size \in Nat \ {0}
BY Ranks, Weights DEF size

LEMMA NumberRange ==
  ASSUME CTypes, NEW v \in [Digits -> Nat], valid_indices(v)
  PROVE  Number(v) \in 0 .. size - 1
<1>1. rank \in 0 .. rank
  BY Ranks
<1>2. Sum(v)[rank] \in Nat /\ Sum(v)[rank] < Weight[rank] /\ Weight[rank] \in Nat
  BY <1>1, Sums, SumBelow, Weights
<1> QED
  BY <1>2, Sums DEF size

\* The first digit that next() or prev() need not carry over
LEMMA FirstRoom ==
  ASSUME CTypes, NEW room \in SUBSET Digits,
         NEW stop, stop = IF room = {} THEN rank + 1 ELSE Min(room)
  PROVE  /\ stop \in 1 .. rank + 1
         /\ \A i \in Digits : i < stop => i \notin room
         /\ stop <= rank <=> stop \in room
<1>1. rank \in Nat /\ Digits = 1 .. rank
  BY Ranks
<1>2. CASE room = {}
  BY <1>1, <1>2
<1>3. CASE room # {}
  <2>1. \E m \in room : \A k \in room : m <= k
    <3>1. room \subseteq Nat
      BY <1>1
    <3> QED
      BY <1>3, <3>1, LeastNumber
  <2>2. Min(room) \in room /\ \A k \in room : Min(room) <= k
    BY <2>1 DEF Min
  <2> QED
    BY <1>1, <1>3, <2>2
<1> QED
  BY <1>2, <1>3

\* next() carries to its stop.
LEMMA NextCarries ==
  ASSUME IInv, next, told # -1
  PROVE  /\ indices_' \in [Digits -> Nat] /\ valid_indices(indices_')
         /\ Number(indices_') = told'
<1> DEFINE room == {i \in Digits : indices_[i] < cardinals_[i] - 1}
           stop == IF room = {} THEN rank + 1 ELSE Min(room)
           v == indices_
           w == indices_'
<1>1. /\ CTypes /\ v \in [Digits -> Nat] /\ valid_indices(v) /\ Number(v) = told
      /\ told' = (told + 1) % size
      /\ w = [i \in Digits |-> CASE i < stop -> 0
                                 [] i = stop -> v[i] + 1
                                 [] OTHER -> v[i]]
  BY DEF IInv, next
<1>2. /\ stop \in 1 .. rank + 1
      /\ \A i \in Digits : i < stop => i \notin room
      /\ stop <= rank <=> stop \in room
  BY <1>1, FirstRoom
<1>3. rank \in Nat /\ Digits = 1 .. rank
      /\ \A i \in Digits : cardinals_[i] \in Nat \ {0} /\ v[i] \in Nat /\ v[i] < cardinals_[i]
  BY <1>1, Ranks DEF valid_indices
<1> HIDE DEF stop
<1>4. ASSUME NEW i \in Digits
      PROVE  /\ i < stop => v[i] = cardinals_[i] - 1
             /\ i = stop => v[i] < cardinals_[i] - 1
  <2>1. i < stop => ~ (v[i] < cardinals_[i] - 1)
    BY <1>2
  <2>2. i = stop => v[i] < cardinals_[i] - 1
    BY <1>2, <1>3
  <2> QED
    BY <1>3, <2>1, <2>2
<1>5. \A i \in Digits : w[i] = IF i < stop THEN 0 ELSE IF i = stop THEN v[i] + 1 ELSE v[i]
  BY <1>1, <1>2, <1>3
<1>6. w \in [Digits -> Nat]
  BY <1>1, <1>3
<1>7. valid_indices(w)
  BY <1>3, <1>4, <1>5 DEF valid_indices
<1>8. Carried(v, w, stop)
  BY <1>2, <1>3, <1>4, <1>5 DEF Carried
<1> HIDE DEF v, w
<1>9. IF stop <= rank THEN Number(w) = Number(v) + 1 ELSE Number(v) = size - 1 /\ Number(w) = 0
  BY <1>1, <1>6, <1>8, NumberCarried
<1>10. Number(v) \in 0 .. size - 1 /\ Number(w) \in 0 .. size - 1 /\ size \in Nat \ {0}
  BY <1>1, <1>6, <1>7, NumberRange, SizeIsNat
<1>11. (Number(v) + 1) % size = IF Number(v) = size - 1 THEN 0 ELSE Number(v) + 1
  BY <1>10, OneOn
<1>12. Number(w) = told'
  BY <1>1, <1>9, <1>10, <1>11
<1> QED
  BY <1>6, <1>7, <1>12 DEF w

\* prev() undoes a carry to its stop.
LEMMA PrevCarries ==
  ASSUME IInv, prev, told # -1
  PROVE  /\ indices_' \in [Digits -> Nat] /\ valid_indices(indices_')
         /\ Number(indices_') = told'
<1> DEFINE room == {i \in Digits : indices_[i] > 0}
           stop == IF room = {} THEN rank + 1 ELSE Min(room)
           v == indices_
           w == indices_'
<1>1. /\ CTypes /\ v \in [Digits -> Nat] /\ valid_indices(v) /\ Number(v) = told
      /\ told' = (told - 1) % size
      /\ w = [i \in Digits |-> CASE i < stop -> cardinals_[i] - 1
                                 [] i = stop -> v[i] - 1
                                 [] OTHER -> v[i]]
  BY DEF IInv, prev
<1>2. /\ stop \in 1 .. rank + 1
      /\ \A i \in Digits : i < stop => i \notin room
      /\ stop <= rank <=> stop \in room
  BY <1>1, FirstRoom
<1>3. rank \in Nat /\ Digits = 1 .. rank
      /\ \A i \in Digits : cardinals_[i] \in Nat \ {0} /\ v[i] \in Nat /\ v[i] < cardinals_[i]
  BY <1>1, Ranks DEF valid_indices
<1> HIDE DEF stop
<1>4. \A i \in Digits : /\ i < stop => v[i] = 0
                        /\ i = stop => v[i] > 0
  BY <1>2, <1>3
<1>5. \A i \in Digits : w[i] = IF i < stop THEN cardinals_[i] - 1 ELSE IF i = stop THEN v[i] - 1 ELSE v[i]
  BY <1>1, <1>2, <1>3
<1>6. w \in [Digits -> Nat]
  <2>1. \A i \in Digits : w[i] \in Nat
    BY <1>3, <1>4, <1>5
  <2>2. w = [i \in Digits |-> w[i]]
    BY <1>1
  <2> QED
    BY <2>1, <2>2
<1>7. valid_indices(w)
  BY <1>3, <1>4, <1>5 DEF valid_indices
<1>8. Carried(w, v, stop)
  BY <1>2, <1>3, <1>4, <1>5 DEF Carried
<1> HIDE DEF v, w
<1>9. IF stop <= rank THEN Number(v) = Number(w) + 1 ELSE Number(w) = size - 1 /\ Number(v) = 0
  BY <1>1, <1>6, <1>8, NumberCarried
<1>10. Number(v) \in 0 .. size - 1 /\ Number(w) \in 0 .. size - 1 /\ size \in Nat \ {0}
  BY <1>1, <1>6, <1>7, NumberRange, SizeIsNat
<1>11. (Number(v) - 1) % size = IF Number(v) = 0 THEN size - 1 ELSE Number(v) - 1
  BY <1>10, OneOn
<1>12. Number(w) = told'
  BY <1>1, <1>9, <1>10, <1>11
<1> QED
  BY <1>6, <1>7, <1>12 DEF w

\* Indices that are not valid stay numbers.
LEMMA StillIndices ==
  ASSUME IInv, next \/ prev
  PROVE  indices_' \in [Digits -> Nat]
<1>1. /\ indices_ \in [Digits -> Nat]
      /\ \A i \in Digits : cardinals_[i] \in Nat \ {0}
  BY Ranks DEF IInv
<1>2. CASE next
  BY <1>1, <1>2 DEF next
<1>3. CASE prev
  <2> DEFINE room == {i \in Digits : indices_[i] > 0}
             stop == IF room = {} THEN rank + 1 ELSE Min(room)
  <2>1. indices_' = [i \in Digits |-> CASE i < stop -> cardinals_[i] - 1
                                        [] i = stop -> indices_[i] - 1
                                        [] OTHER -> indices_[i]]
    BY <1>3 DEF prev
  <2>2. stop \in 1 .. rank + 1 /\ (stop <= rank <=> stop \in room) /\ rank \in Nat /\ Digits = 1 .. rank
    BY FirstRoom, Ranks DEF IInv
  <2>3. \A i \in Digits : i = stop => indices_[i] > 0
    BY <2>2
  <2> HIDE DEF stop
  <2>4. \A i \in Digits : indices_'[i] \in Nat
    BY <1>1, <2>1, <2>3
  <2> QED
    BY <2>1, <2>4
<1> QED
  BY <1>2, <1>3

LEMMA IStepInv == IInv /\ [INext]_ivars => IInv'
<1> SUFFICES ASSUME IInv, [INext]_ivars PROVE IInv'
  OBVIOUS
<1>1. UNCHANGED cardinals_
  BY DEF INext, seekp_indices, seekp, next, prev, ivars
<1>2. SUFFICES /\ indices_' \in [Digits -> Nat]
               /\ told' = -1 \/ (valid_indices(indices_') /\ Number(indices_') = told')
  BY <1>1, CardinalsStay DEF IInv
<1>3. ASSUME NEW v \in [Digits -> 0 .. size], seekp_indices(v)
      PROVE  /\ indices_' \in [Digits -> Nat]
             /\ told' = -1 \/ (valid_indices(indices_') /\ Number(indices_') = told')
  <2>1. indices_' = v /\ told' = IF valid_indices(v) THEN Number(v) ELSE -1
    BY <1>3 DEF seekp_indices
  <2>2. size \in Nat
    BY SizeIsNat DEF IInv
  <2> QED
    BY <2>1, <2>2
<1>4. ASSUME NEW p \in 0 .. size, seekp(p)
      PROVE  /\ indices_' \in [Digits -> Nat]
             /\ told' = -1 \/ (valid_indices(indices_') /\ Number(indices_') = told')
  <2>1. indices_' = At(p) /\ told' = p % size
    BY <1>4 DEF seekp
  <2>2. p \in Nat
    BY SizeIsNat DEF IInv
  <2> QED
    BY <2>1, <2>2, NumberOfDigits DEF IInv
<1>5. CASE next
  <2>1. told = -1 => told' = -1
    BY <1>5 DEF next
  <2> QED
    BY <1>5, <2>1, NextCarries, StillIndices
<1>6. CASE prev
  <2>1. told = -1 => told' = -1
    BY <1>6 DEF prev
  <2> QED
    BY <1>6, <2>1, PrevCarries, StillIndices
<1>7. CASE UNCHANGED ivars
  BY <1>7 DEF ivars, IInv
<1> QED
  BY <1>3, <1>4, <1>5, <1>6, <1>7 DEF INext

\* Whatever the cardinals, and from wherever seekp() has put the counter,
\* next() and prev() go round all tuples in the order of tellp(), carrying over
\* as many digits as needed and over either end, and seekp() of what tellp()
\* says leads back.
THEOREM CountsInOrderHolds == ISpec => []CountsInOrder
<1>1. IInv => CountsInOrder
  BY DigitsOfNumber DEF IInv, CountsInOrder, tellp
<1> QED
  BY IInitInv, IStepInv, <1>1, PTL DEF ISpec

-----------------------------------------------------------------------------
(* BitVector *)

\* The position of bit i of word w
Pos(w, i) == (w - 1) * W + i - 1

LEMMA Positions ==
  ASSUME NEW w \in Nat \ {0}, NEW i \in 1 .. W
  PROVE  Pos(w, i) \in Nat /\ word(Pos(w, i)) = w /\ place(Pos(w, i)) = i
<1> DEFINE q == w - 1
           r == i - 1
<1>1. W \in Nat \ {0} /\ q \in Nat /\ r \in 0 .. W - 1 /\ w = q + 1 /\ i = r + 1
  BY BitVectorAssumption
<1> HIDE DEF q, r
<1>2. Pos(w, i) = W * q + r /\ W * q \in Nat
  BY <1>1 DEF Pos
<1>3. (W * q + r) \div W = q /\ (W * q + r) % W = r
  BY <1>1, DivideOnly
<1> QED
  BY <1>1, <1>2, <1>3 DEF word, place

LEMMA PositionOf ==
  ASSUME NEW p \in Nat
  PROVE  word(p) \in Nat \ {0} /\ place(p) \in 1 .. W /\ Pos(word(p), place(p)) = p
<1> DEFINE q == p \div W
           r == p % W
<1>1. W \in Nat \ {0}
  BY BitVectorAssumption
<1>2. q \in Nat /\ r \in 0 .. W - 1 /\ p = W * q + r
  BY <1>1, Divide
<1>3. word(p) = q + 1 /\ place(p) = r + 1
  BY DEF word, place
<1> HIDE DEF q, r
<1>4. Pos(q + 1, r + 1) = p
  BY <1>1, <1>2 DEF Pos
<1> QED
  BY <1>1, <1>2, <1>3, <1>4

\* Positions are ordered by word, then by place.
LEMMA PosOrder ==
  ASSUME NEW v \in Nat \ {0}, NEW w \in Nat \ {0}, NEW i \in 1 .. W, NEW j \in 1 .. W
  PROVE  Pos(v, i) < Pos(w, j) <=> v < w \/ (v = w /\ i < j)
<1>1. W \in Nat \ {0}
  BY BitVectorAssumption
<1>2. ASSUME NEW x \in Nat \ {0}, NEW y \in Nat \ {0}, NEW k \in 1 .. W, NEW l \in 1 .. W, x < y
      PROVE  Pos(x, k) < Pos(y, l)
  <2>1. W * x <= W * (y - 1)
    BY <1>1, <1>2, Monotone
  <2>2. W * x = (x - 1) * W + W /\ W * (y - 1) = (y - 1) * W
    BY <1>1
  <2>3. (x - 1) * W \in Nat /\ (y - 1) * W \in Nat
    BY <1>1
  <2> QED
    BY <1>1, <2>1, <2>2, <2>3 DEF Pos
<1>3. CASE v = w
  <2>1. (v - 1) * W \in Nat
    BY <1>1
  <2> QED
    BY <1>1, <1>3, <2>1 DEF Pos
<1>4. CASE v < w
  BY <1>2, <1>4
<1>5. CASE v > w
  <2>1. Pos(w, j) < Pos(v, i)
    BY <1>2, <1>5
  <2>2. Pos(w, j) \in Nat /\ Pos(v, i) \in Nat
    BY Positions
  <2> QED
    BY <1>5, <2>1, <2>2
<1> QED
  BY <1>3, <1>4, <1>5

\* n bits fill all words but the last, and of the last all or n % W.
InLast(n) == IF n % W = 0 THEN W ELSE n % W

LEMMA WordSize ==
  ASSUME NEW n \in Nat
  PROVE  /\ word_size_(n) \in Nat
         /\ n = 0 => word_size_(n) = 0
         /\ n > 0 => /\ word_size_(n) > 0 /\ InLast(n) \in 1 .. W
                     /\ n = Pos(word_size_(n), InLast(n)) + 1
<1> DEFINE q == n \div W
           r == n % W
<1>1. W \in Nat \ {0}
  BY BitVectorAssumption
<1>2. q \in Nat /\ r \in 0 .. W - 1 /\ n = W * q + r
  BY <1>1, Divide
<1>3. word_size_(n) = (n + W - 1) \div W /\ InLast(n) = IF r = 0 THEN W ELSE r
  BY DEF word_size_, InLast
<1> HIDE DEF q, r
<1>4. CASE r = 0
  <2>1. W - 1 \in 0 .. W - 1 /\ n + W - 1 = W * q + (W - 1)
    BY <1>1, <1>2, <1>4
  <2>2. (W * q + (W - 1)) \div W = q
    BY <1>1, <1>2, <2>1, DivideOnly
  <2>3. word_size_(n) = q /\ InLast(n) = W
    BY <1>3, <1>4, <2>1, <2>2
  <2>4. CASE q = 0
    <3>1. n = 0
      BY <1>1, <1>2, <1>4, <2>4
    <3> QED
      BY <2>3, <2>4, <3>1
  <2>5. CASE q # 0
    <3>1. W * q >= q /\ W * q = (q - 1) * W + W
      BY <1>1, <1>2
    <3>2. n > 0 /\ (q - 1) * W \in Nat
      BY <1>1, <1>2, <1>4, <2>5, <3>1
    <3> QED
      BY <1>1, <1>2, <1>4, <2>3, <2>5, <3>1, <3>2 DEF Pos
  <2> QED
    BY <2>4, <2>5
<1>5. CASE r # 0
  <2>1. r - 1 \in 0 .. W - 1 /\ n + W - 1 = W * (q + 1) + (r - 1)
    BY <1>1, <1>2, <1>5
  <2>2. (W * (q + 1) + (r - 1)) \div W = q + 1
    BY <1>1, <1>2, <2>1, DivideOnly
  <2>3. word_size_(n) = q + 1 /\ InLast(n) = r
    BY <1>3, <1>5, <2>1, <2>2
  <2>4. W * q = q * W /\ q * W \in Nat
    BY <1>1, <1>2
  <2>5. Pos(q + 1, r) = n - 1
    BY <1>1, <1>2, <2>4 DEF Pos
  <2>6. n \in Nat \ {0}
    BY <1>2, <1>5, <2>4
  <2> QED
    BY <1>1, <1>2, <1>5, <2>3, <2>5, <2>6
<1> QED
  BY <1>4, <1>5

-----------------------------------------------------------------------------
LEMMA MinOf ==
  ASSUME NEW S, S \subseteq Nat, S # {}
  PROVE  Min(S) \in S /\ \A x \in S : Min(S) <= x
<1>1. \E m \in S : \A x \in S : m <= x
  BY LeastNumber
<1> QED
  BY <1>1 DEF Min

LEMMA MaxOf ==
  ASSUME NEW n \in Nat, NEW S, S \subseteq 0 .. n, S # {}
  PROVE  Max(S) \in S /\ \A x \in S : Max(S) >= x
<1> DEFINE T == {k \in 0 .. n : n - k \in S}
<1>1. \A x \in S : x \in 0 .. n /\ n - x \in T
  OBVIOUS
<1>2. T \subseteq Nat /\ T # {}
  <2>1. PICK x \in S : TRUE
    OBVIOUS
  <2>2. n - x \in T
    BY <1>1
  <2>3. T \subseteq Nat
    OBVIOUS
  <2> HIDE DEF T
  <2> QED
    BY <2>2, <2>3
<1>3. PICK k \in T : \A j \in T : k <= j
  BY <1>2, LeastNumber
<1>4. \A x \in S : n - k >= x
  BY <1>1, <1>3
<1>5. n - k \in S
  BY <1>3
<1> QED
  BY <1>4, <1>5 DEF Max

BVTypes ==
    /\ size_ \in Nat
    /\ bv_ \in [1 .. word_size_(size_) -> Word]
    /\ clean \in BOOLEAN

\* The positions of all ones, of those in the tail too
AllOnes == {p \in Nat : word(p) \in DOMAIN bv_ /\ bit(p) = 1}

LEMMA Words ==
  ASSUME BVTypes
  PROVE  /\ word_size_(size_) \in Nat /\ DOMAIN bv_ = 1 .. word_size_(size_)
         /\ \A w \in DOMAIN bv_ : w \in Nat \ {0} /\ Ones(bv_[w]) = {i \in 1 .. W : bv_[w][i] = 1}
<1>1. word_size_(size_) \in Nat
  BY WordSize DEF BVTypes
<1>2. \A w \in DOMAIN bv_ : DOMAIN bv_[w] = 1 .. W
  BY DEF BVTypes, Word
<1>3. \A w \in DOMAIN bv_ : Ones(bv_[w]) = {i \in 1 .. W : bv_[w][i] = 1}
  BY <1>2 DEF Ones
<1> QED
  BY <1>1, <1>3 DEF BVTypes

LEMMA OneAt ==
  ASSUME BVTypes, NEW w \in DOMAIN bv_, NEW i \in 1 .. W
  PROVE  Pos(w, i) \in AllOnes <=> i \in Ones(bv_[w])
<1>1. w \in Nat \ {0} /\ Ones(bv_[w]) = {j \in 1 .. W : bv_[w][j] = 1}
  BY Words
<1>2. Pos(w, i) \in Nat /\ word(Pos(w, i)) = w /\ place(Pos(w, i)) = i
  BY <1>1, Positions
<1> QED
  BY <1>1, <1>2 DEF AllOnes, bit

LEMMA OneIn ==
  ASSUME BVTypes, NEW p \in AllOnes
  PROVE  /\ p \in Nat /\ word(p) \in DOMAIN bv_ /\ word(p) \in WithOnes
         /\ place(p) \in 1 .. W /\ place(p) \in Ones(bv_[word(p)])
         /\ p = Pos(word(p), place(p))
<1>1. p \in Nat /\ word(p) \in DOMAIN bv_ /\ bv_[word(p)][place(p)] = 1
  BY DEF AllOnes, bit
<1>2. place(p) \in 1 .. W /\ p = Pos(word(p), place(p))
  BY <1>1, PositionOf
<1>3. place(p) \in Ones(bv_[word(p)])
  BY <1>1, <1>2, Words
<1> QED
  BY <1>1, <1>2, <1>3 DEF WithOnes

\* The first of S after p
NextIn(S, p, r) ==
    IF \A q \in S : q <= p THEN r = NotFound
    ELSE r \in S /\ r > p /\ \A q \in S : q > p => r <= q

LEMMA FirstOfWord ==
  ASSUME BVTypes, NEW w \in WithOnes
  PROVE  \E i \in 1 .. W : /\ (w - 1) * W + first_bit1(bv_[w]) = Pos(w, i)
                           /\ i \in Ones(bv_[w]) /\ \A j \in Ones(bv_[w]) : i <= j
<1> DEFINE S == Ones(bv_[w])
           i == Min(S)
<1>1. w \in DOMAIN bv_ /\ S # {} /\ S \subseteq 1 .. W
  BY Words DEF WithOnes
<1>2. W \in Nat \ {0} /\ w \in Nat \ {0}
  BY <1>1, Words, BitVectorAssumption
<1>3. i \in S /\ \A j \in S : i <= j
  <2>1. S \subseteq Nat
    BY <1>1, <1>2
  <2> HIDE DEF S
  <2> QED
    BY <1>1, <2>1, MinOf
<1>4. first_bit1(bv_[w]) = i - 1
  BY <1>1 DEF first_bit1
<1> HIDE DEF S, i
<1>5. i \in 1 .. W
  BY <1>1, <1>3
<1>6. (w - 1) * W \in Nat
  BY <1>2
<1>7. (w - 1) * W + first_bit1(bv_[w]) = Pos(w, i)
  BY <1>4, <1>5, <1>6 DEF Pos
<1> QED
  BY <1>3, <1>5, <1>7 DEF S

LEMMA FirstFound == ASSUME BVTypes PROVE NextIn(AllOnes, -1, first_bit1_)
<1>1. CASE WithOnes = {}
  <2>1. first_bit1_ = NotFound
    BY <1>1 DEF first_bit1_
  <2>2. \A q \in AllOnes : FALSE
    BY <1>1, OneIn
  <2> QED
    BY <2>1, <2>2 DEF NextIn
<1>2. CASE WithOnes # {}
  <2> DEFINE w == Min(WithOnes)
  <2>1. WithOnes \subseteq DOMAIN bv_ /\ WithOnes \subseteq Nat
    BY Words DEF WithOnes
  <2>2. w \in WithOnes /\ \A x \in WithOnes : w <= x
    BY <1>2, <2>1, MinOf
  <2>3. first_bit1_ = (w - 1) * W + first_bit1(bv_[w])
    BY <1>2 DEF first_bit1_
  <2> HIDE DEF w
  <2>4. PICK i \in 1 .. W : /\ first_bit1_ = Pos(w, i)
                            /\ i \in Ones(bv_[w]) /\ \A j \in Ones(bv_[w]) : i <= j
    BY <2>2, <2>3, FirstOfWord
  <2>5. w \in DOMAIN bv_ /\ w \in Nat \ {0}
    BY <2>1, <2>2, Words
  <2>6. Pos(w, i) \in AllOnes /\ Pos(w, i) \in Nat
    BY <2>4, <2>5, OneAt, Positions
  <2>7. ASSUME NEW q \in AllOnes PROVE Pos(w, i) <= q
    <3>1. /\ q \in Nat /\ word(q) \in WithOnes /\ word(q) \in Nat \ {0} /\ place(q) \in 1 .. W
          /\ place(q) \in Ones(bv_[word(q)]) /\ q = Pos(word(q), place(q))
      BY OneIn, Words
    <3>2. w <= word(q) /\ (word(q) = w => i <= place(q))
      BY <2>2, <2>4, <3>1
    <3>3. ~ (Pos(word(q), place(q)) < Pos(w, i))
      BY <2>5, <3>1, <3>2, PosOrder
    <3> QED
      BY <2>6, <3>1, <3>3
  <2> QED
    BY <2>4, <2>6, <2>7 DEF NextIn
<1> QED
  BY <1>1, <1>2

LEMMA LastFound ==
  ASSUME BVTypes, AllOnes # {}
  PROVE  last_bit1_ \in AllOnes /\ \A q \in AllOnes : q <= last_bit1_
<1> DEFINE w == Max(WithOnes)
<1>1. WithOnes \subseteq 1 .. word_size_(size_) /\ word_size_(size_) \in Nat /\ WithOnes # {}
  BY Words, OneIn DEF WithOnes
<1>2. w \in WithOnes /\ \A x \in WithOnes : w >= x
  <2>1. WithOnes \subseteq 0 .. word_size_(size_)
    BY <1>1
  <2> QED
    BY <1>1, <2>1, MaxOf
<1>3. last_bit1_ = (w - 1) * W + last_bit1(bv_[w])
  BY <1>1 DEF last_bit1_
<1> HIDE DEF w
<1> DEFINE S == Ones(bv_[w])
           i == Max(S)
<1>4. w \in DOMAIN bv_ /\ S # {} /\ S \subseteq 1 .. W /\ w \in Nat \ {0} /\ W \in Nat \ {0}
  BY <1>2, Words, BitVectorAssumption DEF WithOnes
<1>5. i \in S /\ \A j \in S : i >= j
  <2>1. S \subseteq 0 .. W /\ W \in Nat
    BY <1>4
  <2> HIDE DEF S
  <2> QED
    BY <1>4, <2>1, MaxOf
<1>6. last_bit1(bv_[w]) = i - 1
  BY <1>4 DEF last_bit1
<1> HIDE DEF i
<1>7. i \in 1 .. W /\ (w - 1) * W \in Nat
  BY <1>4, <1>5
<1>8. last_bit1_ = Pos(w, i)
  BY <1>3, <1>6, <1>7 DEF Pos
<1>9. Pos(w, i) \in AllOnes /\ Pos(w, i) \in Nat
  BY <1>4, <1>5, <1>7, OneAt, Positions
<1>10. ASSUME NEW q \in AllOnes PROVE q <= Pos(w, i)
  <2>1. /\ q \in Nat /\ word(q) \in WithOnes /\ word(q) \in Nat \ {0} /\ place(q) \in 1 .. W
        /\ place(q) \in Ones(bv_[word(q)]) /\ q = Pos(word(q), place(q))
    BY OneIn, Words
  <2>2. w >= word(q) /\ (word(q) = w => i >= place(q))
    BY <1>2, <1>5, <2>1
  <2>3. ~ (Pos(w, i) < Pos(word(q), place(q)))
    BY <1>4, <1>7, <2>1, <2>2, PosOrder
  <2> QED
    BY <1>9, <2>1, <2>3
<1> QED
  BY <1>8, <1>9, <1>10

LEMMA NextFound ==
  ASSUME BVTypes, NEW p \in Nat, word(p) \in DOMAIN bv_
  PROVE  NextIn(AllOnes, p, next_bit1(p))
<1> DEFINE v == word(p)
           k == place(p)
           S == Ones(bv_[v])
           here == {i \in S : i - 1 > k - 1}
           later == {w \in WithOnes : w > v}
<1>1. /\ v \in DOMAIN bv_ /\ v \in Nat \ {0} /\ k \in 1 .. W /\ p = Pos(v, k)
      /\ W \in Nat \ {0} /\ S \subseteq 1 .. W
  BY PositionOf, Words, BitVectorAssumption
<1>2. first_bit1_from(bv_[v], k - 1) = IF here = {} THEN NotFound ELSE Min(here) - 1
  BY DEF first_bit1_from
<1>3. next_bit1(p) = IF first_bit1_from(bv_[v], k - 1) # NotFound
                       THEN (v - 1) * W + first_bit1_from(bv_[v], k - 1)
                     ELSE IF later = {} THEN NotFound
                     ELSE (Min(later) - 1) * W + first_bit1(bv_[Min(later)])
  BY DEF next_bit1
<1> HIDE DEF v, k, S
<1>4. ASSUME NEW q \in AllOnes, q > p
      PROVE  /\ q \in Nat /\ word(q) \in WithOnes /\ word(q) \in Nat \ {0} /\ place(q) \in 1 .. W
             /\ place(q) \in Ones(bv_[word(q)]) /\ q = Pos(word(q), place(q))
             /\ word(q) \in later \/ (word(q) = v /\ place(q) \in here)
  <2>1. /\ q \in Nat /\ word(q) \in WithOnes /\ word(q) \in Nat \ {0} /\ place(q) \in 1 .. W
        /\ place(q) \in Ones(bv_[word(q)]) /\ q = Pos(word(q), place(q))
    BY OneIn, Words
  <2>2. v < word(q) \/ (v = word(q) /\ k < place(q))
    BY <1>1, <1>4, <2>1, PosOrder
  <2> QED
    BY <1>1, <2>1, <2>2 DEF S
<1>5. CASE here # {}
  <2> DEFINE i == Min(here)
  <2>1. here \subseteq Nat /\ here \subseteq S /\ \A j \in here : j > k
    <3>1. \A j \in S : j \in Nat
      BY <1>1
    <3>2. \A j \in S : j - 1 > k - 1 => j > k
      BY <1>1, <3>1
    <3> QED
      BY <3>1, <3>2
  <2>2. i \in here /\ \A j \in here : i <= j
    <3> HIDE DEF here
    <3> QED
      BY <1>5, <2>1, MinOf
  <2>3. i \in 1 .. W /\ i > k /\ i \in Ones(bv_[v])
    BY <1>1, <2>1, <2>2 DEF S
  <2>4. first_bit1_from(bv_[v], k - 1) = i - 1
    BY <1>2, <1>5
  <2> HIDE DEF i, here
  <2>5. (v - 1) * W \in Nat /\ i - 1 # NotFound
    BY <1>1, <2>3 DEF NotFound
  <2>6. next_bit1(p) = Pos(v, i)
    BY <1>3, <2>3, <2>4, <2>5 DEF Pos
  <2>7. Pos(v, i) \in AllOnes /\ Pos(v, i) \in Nat /\ Pos(v, i) > p
    <3>1. Pos(v, k) < Pos(v, i)
      BY <1>1, <2>3, PosOrder
    <3>2. Pos(v, i) \in AllOnes /\ Pos(v, i) \in Nat
      BY <1>1, <2>3, OneAt, Positions
    <3> QED
      BY <1>1, <3>1, <3>2
  <2>8. ASSUME NEW q \in AllOnes, q > p PROVE Pos(v, i) <= q
    <3>1. /\ q \in Nat /\ word(q) \in Nat \ {0} /\ place(q) \in 1 .. W /\ q = Pos(word(q), place(q))
          /\ word(q) > v \/ (word(q) = v /\ place(q) \in here)
      BY <1>4, <2>8
    <3>2. word(q) > v \/ (word(q) = v /\ i <= place(q))
      BY <2>2, <3>1
    <3>3. ~ (Pos(word(q), place(q)) < Pos(v, i))
      BY <1>1, <2>3, <3>1, <3>2, PosOrder
    <3> QED
      BY <2>7, <3>1, <3>3
  <2>9. ~ \A q \in AllOnes : q <= p
    BY <2>7
  <2> QED
    BY <2>6, <2>7, <2>8, <2>9 DEF NextIn
<1>6. CASE here = {} /\ later = {}
  <2>1. next_bit1(p) = NotFound
    BY <1>2, <1>3, <1>6
  <2>2. \A q \in AllOnes : q <= p
    <3>1. \A q \in AllOnes : q \in Nat
      BY OneIn
    <3>2. \A q \in AllOnes : ~ (q > p)
      BY <1>4, <1>6
    <3> QED
      BY <3>1, <3>2
  <2> QED
    BY <2>1, <2>2 DEF NextIn
<1>7. CASE here = {} /\ later # {}
  <2> DEFINE w == Min(later)
  <2>1. later \subseteq DOMAIN bv_ /\ later \subseteq Nat /\ later \subseteq WithOnes
    BY Words DEF WithOnes
  <2>2. w \in later /\ \A x \in later : w <= x
    <3> HIDE DEF later
    <3> QED
      BY <1>7, <2>1, MinOf
  <2>3. next_bit1(p) = (w - 1) * W + first_bit1(bv_[w])
    BY <1>2, <1>3, <1>7
  <2>4. w \in DOMAIN bv_ /\ w \in Nat \ {0} /\ w > v /\ w \in WithOnes
    BY <2>1, <2>2, Words
  <2> HIDE DEF w
  <2>5. PICK i \in 1 .. W : /\ next_bit1(p) = Pos(w, i)
                            /\ i \in Ones(bv_[w]) /\ \A j \in Ones(bv_[w]) : i <= j
    BY <2>3, <2>4, FirstOfWord
  <2>6. Pos(w, i) \in AllOnes /\ Pos(w, i) \in Nat /\ Pos(w, i) > p
    <3>1. Pos(v, k) < Pos(w, i)
      BY <1>1, <2>4, PosOrder
    <3>2. Pos(w, i) \in AllOnes /\ Pos(w, i) \in Nat
      BY <2>4, <2>5, OneAt, Positions
    <3> QED
      BY <1>1, <3>1, <3>2
  <2>7. ASSUME NEW q \in AllOnes, q > p PROVE Pos(w, i) <= q
    <3>1. /\ q \in Nat /\ word(q) \in Nat \ {0} /\ place(q) \in 1 .. W /\ q = Pos(word(q), place(q))
          /\ place(q) \in Ones(bv_[word(q)]) /\ word(q) \in later
      BY <1>4, <1>7, <2>7
    <3>2. w <= word(q) /\ (word(q) = w => i <= place(q))
      BY <2>2, <2>5, <3>1
    <3>3. ~ (Pos(word(q), place(q)) < Pos(w, i))
      BY <2>4, <3>1, <3>2, PosOrder
    <3> QED
      BY <2>6, <3>1, <3>3
  <2>8. ~ \A q \in AllOnes : q <= p
    BY <2>6
  <2> QED
    BY <2>5, <2>6, <2>7, <2>8 DEF NextIn
<1> QED
  BY <1>5, <1>6, <1>7

-----------------------------------------------------------------------------
\* Going from each found to the next
Searched(S, K, at) ==
    /\ at \in [0 .. K -> Int] /\ NextIn(S, -1, at[0])
    /\ \A n \in 1 .. K : IF at[n - 1] = NotFound THEN at[n] = NotFound
                          ELSE NextIn(S, at[n - 1], at[n])

\* goes through all of them, in order.
Enumerates(S, k, at) ==
    /\ \A n \in 0 .. k - 1 : at[n] \in S
    /\ \A q \in S : \E n \in 0 .. k - 1 : at[n] = q
    /\ \A i, j \in 0 .. k - 1 : i < j => at[i] < at[j]

LEMMA SearchedAll ==
  ASSUME NEW K \in Nat, NEW S, S \subseteq 0 .. K - 1, NEW at, Searched(S, K, at)
  PROVE  \E k \in 0 .. K : /\ Enumerates(S, k, at)
                           /\ \A n \in 0 .. K : at[n] = NotFound <=> n >= k
<1>1. /\ NextIn(S, -1, at[0])
      /\ \A n \in 1 .. K : IF at[n - 1] = NotFound THEN at[n] = NotFound
                           ELSE NextIn(S, at[n - 1], at[n])
      /\ \A n \in 0 .. K : at[n] \in Int
  BY DEF Searched
<1>2. \A q \in S : q \in Nat /\ q < K /\ q > -1
  OBVIOUS
<1>3. ASSUME NEW n \in 0 .. K PROVE at[n] = NotFound \/ (at[n] \in S /\ at[n] >= n)
  <2> DEFINE T == {i \in 0 .. K : at[i] = NotFound \/ (at[i] \in S /\ at[i] >= i)}
  <2>1. 0 \in T
    BY <1>1, <1>2 DEF NextIn
  <2>2. ASSUME NEW i \in 1 .. n, i - 1 \in T PROVE i \in T
    <3>1. i \in 1 .. K /\ i \in 0 .. K
      OBVIOUS
    <3>2. CASE at[i - 1] = NotFound
      BY <1>1, <3>1, <3>2
    <3>3. CASE at[i - 1] # NotFound
      <4>1. NextIn(S, at[i - 1], at[i])
        BY <1>1, <3>1, <3>3
      <4>2. at[i - 1] \in Nat /\ at[i - 1] >= i - 1
        BY <1>2, <2>2, <3>3
      <4>3. at[i] = NotFound \/ (at[i] \in S /\ at[i] > at[i - 1])
        BY <4>1 DEF NextIn
      <4>4. at[i] \in S => at[i] \in Nat
        BY <1>2
      <4>5. at[i] = NotFound \/ (at[i] \in S /\ at[i] >= i)
        <5> HIDE DEF T
        <5> QED
          BY <3>1, <4>2, <4>3, <4>4
      <4> QED
        BY <3>1, <4>5
    <3> QED
      BY <3>2, <3>3
  <2> HIDE DEF T
  <2>3. n \in T
    BY <2>1, <2>2, UpTo
  <2> QED
    BY <2>3 DEF T
<1> DEFINE Ends == {n \in 0 .. K : at[n] = NotFound}
<1>4. K \in Ends
  <2>1. at[K] = NotFound \/ (at[K] \in S /\ at[K] >= K)
    BY <1>3
  <2>2. at[K] \in S => at[K] \in Nat /\ at[K] < K
    BY <1>2
  <2> QED
    BY <2>1, <2>2
<1>5. PICK k \in Ends : \A n \in Ends : k <= n
  <2>1. Ends \subseteq Nat
    OBVIOUS
  <2> HIDE DEF Ends
  <2> QED
    BY <1>4, <2>1, LeastNumber
<1>6. k \in 0 .. K /\ at[k] = NotFound /\ \A n \in 0 .. k - 1 : at[n] # NotFound
  BY <1>5
<1>7. ASSUME NEW n \in 0 .. K, n >= k PROVE at[n] = NotFound
  <2> DEFINE T == {i \in 0 .. n - k : at[k + i] = NotFound}
             m == n - k
  <2>1. m \in Nat /\ 0 \in T
    BY <1>6, <1>7
  <2>2. ASSUME NEW i \in 1 .. m, i - 1 \in T PROVE i \in T
    <3>1. k + i \in 1 .. K /\ (k + i) - 1 = k + (i - 1)
      BY <1>6
    <3>2. at[(k + i) - 1] = NotFound
      BY <2>2, <3>1
    <3>3. at[k + i] = NotFound
      BY <1>1, <3>1, <3>2
    <3> QED
      BY <3>3
  <2> HIDE DEF T, m
  <2>3. m \in T
    BY <2>1, <2>2, UpTo
  <2>4. at[k + (n - k)] = NotFound
    BY <2>3 DEF T, m
  <2>5. k + (n - k) = n
    BY <1>6
  <2> QED
    BY <2>4, <2>5
<1>8. \A n \in 0 .. k - 1 : at[n] \in S /\ at[n] \in Nat
  <2>1. \A n \in 0 .. k - 1 : at[n] \in S
    BY <1>3, <1>6
  <2> QED
    BY <1>2, <2>1
<1>9. ASSUME NEW i \in 1 .. k - 1
      PROVE  at[i] > at[i - 1] /\ \A q \in S : q > at[i - 1] => at[i] <= q
  <2>1. i \in 1 .. K /\ i - 1 \in 0 .. k - 1 /\ i \in 0 .. k - 1
    BY <1>6
  <2>2. at[i - 1] # NotFound /\ at[i] # NotFound
    BY <1>6, <2>1
  <2>3. NextIn(S, at[i - 1], at[i])
    BY <1>1, <2>1, <2>2
  <2> QED
    BY <2>2, <2>3 DEF NextIn
<1>10. ASSUME NEW j \in 0 .. k - 1 PROVE \A i \in 0 .. k - 1 : i < j => at[i] < at[j]
  <2> DEFINE T == {n \in 0 .. k - 1 : \A i \in 0 .. k - 1 : i < n => at[i] < at[n]}
  <2>1. 0 \in T
    BY <1>6
  <2>2. ASSUME NEW n \in 1 .. j, n - 1 \in T PROVE n \in T
    <3>1. n \in 1 .. k - 1 /\ n \in 0 .. k - 1 /\ n - 1 \in 0 .. k - 1
      BY <1>6
    <3>2. at[n] > at[n - 1] /\ at[n] \in Int /\ at[n - 1] \in Int
      BY <1>8, <1>9, <3>1
    <3>3. ASSUME NEW i \in 0 .. k - 1, i < n PROVE at[i] < at[n]
      <4>1. at[i] \in Int
        BY <1>8
      <4>2. i < n - 1 => at[i] < at[n - 1]
        BY <2>2
      <4>3. i < n - 1 \/ i = n - 1
        BY <3>1, <3>3
      <4> QED
        BY <3>2, <4>1, <4>2, <4>3
    <3> QED
      BY <3>1, <3>3
  <2> HIDE DEF T
  <2>3. j \in T
    BY <2>1, <2>2, UpTo
  <2> QED
    BY <2>3 DEF T
<1>11. ASSUME NEW j \in 0 .. k - 1
       PROVE  \A q \in S : q <= at[j] => \E n \in 0 .. k - 1 : at[n] = q
  <2> DEFINE T == {n \in 0 .. k - 1 : \A q \in S : q <= at[n] => \E m \in 0 .. k - 1 : at[m] = q}
  <2>1. 0 \in T
    <3>1. 0 \in 0 .. k - 1 /\ at[0] \in S
      BY <1>6, <1>8
    <3>2. \A q \in S : at[0] <= q
      BY <1>1, <1>2, <3>1 DEF NextIn, NotFound
    <3>3. ASSUME NEW q \in S, q <= at[0] PROVE at[0] = q
      <4>1. at[0] <= q /\ q \in Nat /\ at[0] \in Nat
        BY <1>2, <1>8, <3>1, <3>2
      <4> QED
        BY <3>3, <4>1
    <3> QED
      BY <3>1, <3>3
  <2>2. ASSUME NEW n \in 1 .. j, n - 1 \in T PROVE n \in T
    <3>1. n \in 1 .. k - 1 /\ n \in 0 .. k - 1 /\ n - 1 \in 0 .. k - 1
      BY <1>6
    <3>2. ASSUME NEW q \in S, q <= at[n] PROVE \E m \in 0 .. k - 1 : at[m] = q
      <4>1. q \in Nat /\ at[n] \in Nat /\ at[n - 1] \in Nat
        BY <1>2, <1>8, <3>1
      <4>2. CASE q > at[n - 1]
        <5>1. at[n] <= q
          BY <1>9, <3>1, <4>2
        <5>2. at[n] = q
          BY <3>2, <4>1, <5>1
        <5> QED
          BY <3>1, <5>2
      <4>3. CASE q <= at[n - 1]
        BY <2>2, <4>3
      <4> QED
        BY <4>1, <4>2, <4>3
    <3> QED
      BY <3>1, <3>2
  <2> HIDE DEF T
  <2>3. j \in T
    BY <2>1, <2>2, UpTo
  <2> QED
    BY <2>3 DEF T
<1>12. ASSUME NEW q \in S PROVE \E n \in 0 .. k - 1 : at[n] = q
  <2>1. CASE k = 0
    <3>1. NextIn(S, -1, NotFound)
      BY <1>1, <1>6, <2>1
    <3>2. NotFound \notin S
      BY <1>2 DEF NotFound
    <3>3. \A x \in S : x <= -1
      BY <3>1, <3>2 DEF NextIn
    <3> QED
      BY <1>2, <3>3
  <2>2. CASE k # 0
    <3>1. k \in 1 .. K /\ k - 1 \in 0 .. k - 1
      BY <1>6, <2>2
    <3>2. at[k - 1] # NotFound /\ at[k] = NotFound
      BY <1>6, <3>1
    <3>3. NextIn(S, at[k - 1], NotFound)
      BY <1>1, <3>1, <3>2
    <3>4. NotFound \notin S
      BY <1>2 DEF NotFound
    <3>5. q <= at[k - 1]
      BY <3>3, <3>4 DEF NextIn
    <3> QED
      BY <1>11, <3>1, <3>5
  <2> QED
    BY <2>1, <2>2
<1>13. Enumerates(S, k, at)
  BY <1>8, <1>10, <1>12 DEF Enumerates
<1>14. \A n \in 0 .. K : at[n] = NotFound <=> n >= k
  <2>1. \A n \in 0 .. K : n >= k \/ n \in 0 .. k - 1
    BY <1>6
  <2>2. \A n \in 0 .. k - 1 : ~ (n >= k)
    BY <1>6
  <2> QED
    BY <1>6, <1>7, <2>1, <2>2
<1> QED
  BY <1>6, <1>13, <1>14

-----------------------------------------------------------------------------
SizeBounded == size_ <= MaxBits \/ size_ = W

BVInv ==
    /\ BVTypes /\ SizeBounded
    /\ clean => \A p \in AllOnes : p < size_

LEMMA OnesInside ==
  ASSUME BVTypes, SizeBounded
  PROVE  AllOnes \subseteq 0 .. MaxBits + W - 1
<1> SUFFICES ASSUME NEW p \in AllOnes PROVE p \in 0 .. MaxBits + W - 1
  OBVIOUS
<1> DEFINE s == word_size_(size_)
           v == word(p)
           k == place(p)
           l == InLast(size_)
<1>1. /\ W \in Nat \ {0} /\ MaxBits \in Nat /\ size_ \in Nat
      /\ p \in Nat /\ v \in 1 .. s /\ s \in Nat /\ k \in 1 .. W /\ p = Pos(v, k)
  BY OneIn, Words, BitVectorAssumption DEF BVTypes
<1>2. size_ = 0 => s = 0
  BY <1>1, WordSize
<1>3. size_ > 0 => l \in 1 .. W /\ size_ = Pos(s, l) + 1
  BY <1>1, WordSize
<1>4. size_ = W => l = W
  <2>1. (W * 1 + 0) % W = 0 /\ W * 1 + 0 = W
    BY <1>1, DivideOnly
  <2> QED
    BY <2>1 DEF InLast
<1> HIDE DEF s, v, k, l
<1>5. size_ > 0 /\ s \in Nat \ {0} /\ v \in Nat \ {0}
  BY <1>1, <1>2
<1>6. ~ (Pos(s, W) < Pos(v, k))
  BY <1>1, <1>5, PosOrder
<1>7. Pos(s, W) = Pos(s, l) + (W - l)
  <2>1. (s - 1) * W \in Nat
    BY <1>1, <1>5
  <2> QED
    BY <1>1, <1>3, <1>5, <2>1 DEF Pos
<1>8. Pos(s, l) = size_ - 1 /\ l \in 1 .. W
  <2>1. l \in 1 .. W /\ size_ = Pos(s, l) + 1
    BY <1>3, <1>5
  <2>2. Pos(s, l) \in Nat
    BY <1>5, <2>1, Positions
  <2> QED
    BY <2>1, <2>2
<1>9. p <= size_ - 1 + (W - l)
  BY <1>1, <1>6, <1>7, <1>8
<1> QED
  BY <1>1, <1>4, <1>8, <1>9 DEF SizeBounded

\* What get_indices1() goes through
SearchAt ==
    CHOOSE at : at = [n \in 0 .. MaxBits + W |->
        CASE n = 0 -> first_bit1_
          [] n > 0 /\ at[n - 1] = NotFound -> NotFound
          [] OTHER -> next_bit1(at[n - 1])]

LEMMA SearchAtGoes ==
  ASSUME BVTypes, SizeBounded
  PROVE  Searched(AllOnes, MaxBits + W, SearchAt)
<1> DEFINE K == MaxBits + W
           S == AllOnes \cup {NotFound}
           D == 0 .. K
           step == [i \in 1 .. K |-> [x \in S |-> IF x = NotFound THEN NotFound ELSE next_bit1(x)]]
           Rec(g) == [n \in D |-> CASE n = 0 -> first_bit1_
                                    [] n > 0 /\ g[n - 1] = NotFound -> NotFound
                                    [] OTHER -> next_bit1(g[n - 1])]
           at == SearchAt
<1>1. K \in Nat
  BY BitVectorAssumption
<1>2. first_bit1_ \in S /\ NextIn(AllOnes, -1, first_bit1_)
  BY FirstFound DEF NextIn
<1>3. ASSUME NEW p \in AllOnes PROVE next_bit1(p) \in S /\ NextIn(AllOnes, p, next_bit1(p))
  BY OneIn, NextFound DEF NextIn
<1>4. S \subseteq Int
  BY DEF AllOnes, NotFound
<1>5. at = CHOOSE g : g = Rec(g)
  BY DEF SearchAt
<1>6. \A i \in 1 .. K, x \in S :
          step[i][x] = (IF x = NotFound THEN NotFound ELSE next_bit1(x)) /\ step[i][x] \in S
  BY <1>3
<1>7. step \in [1 .. K -> [S -> S]]
  BY <1>3
<1> HIDE DEF step, K, at
<1>8. PICK f : f \in [D -> S] /\ f[0] = first_bit1_ /\ \A i \in 1 .. K : f[i] = step[i][f[i - 1]]
  <2> HIDE DEF S
  <2>1. \E f : Goes(f, K, S, first_bit1_, step)
    BY <1>1, <1>2, <1>7, FunctionByStep
  <2> QED
    BY <2>1 DEF Goes
<1>9. f = Rec(f)
  <2>1. ASSUME NEW i \in D PROVE f[i] = Rec(f)[i]
    <3>1. CASE i = 0
      BY <1>8, <3>1
    <3>2. CASE i # 0
      <4>1. i \in 1 .. K /\ i - 1 \in D /\ i > 0
        BY <1>1, <3>2
      <4>2. f[i] = IF f[i - 1] = NotFound THEN NotFound ELSE next_bit1(f[i - 1])
        BY <1>6, <1>8, <4>1
      <4> QED
        BY <3>2, <4>1, <4>2
    <3> QED
      BY <3>1, <3>2
  <2> QED
    BY <1>8, <2>1
<1> HIDE DEF Rec
<1>10. at = Rec(at)
  BY <1>5, <1>9
<1>11. /\ at = [n \in D |-> at[n]] /\ at[0] = first_bit1_
       /\ \A n \in 1 .. K : at[n] = IF at[n - 1] = NotFound THEN NotFound ELSE next_bit1(at[n - 1])
  <2>1. at = [n \in D |-> CASE n = 0 -> first_bit1_
                            [] n > 0 /\ at[n - 1] = NotFound -> NotFound
                            [] OTHER -> next_bit1(at[n - 1])]
    BY <1>10 DEF Rec
  <2>2. \A n \in D : at[n] = CASE n = 0 -> first_bit1_
                              [] n > 0 /\ at[n - 1] = NotFound -> NotFound
                              [] OTHER -> next_bit1(at[n - 1])
    BY <2>1
  <2>3. at = [n \in D |-> at[n]]
    BY <2>1, <2>2
  <2>4. at[0] = first_bit1_
    <3>1. 0 \in D
      BY <1>1
    <3> QED
      BY <2>2, <3>1
  <2>5. ASSUME NEW n \in 1 .. K
        PROVE  at[n] = IF at[n - 1] = NotFound THEN NotFound ELSE next_bit1(at[n - 1])
    <3>1. n \in D /\ n # 0 /\ n > 0
      BY <1>1
    <3> QED
      BY <2>2, <3>1
  <2> QED
    BY <2>3, <2>4, <2>5
<1>12. ASSUME NEW n \in D PROVE at[n] \in S
  <2> DEFINE T == {i \in D : at[i] \in S}
  <2>1. 0 \in T
    BY <1>1, <1>2, <1>11
  <2>2. ASSUME NEW i \in 1 .. n, i - 1 \in T PROVE i \in T
    <3>1. i \in 1 .. K /\ i \in D
      BY <1>1
    <3>2. at[i - 1] \in S
      BY <2>2
    <3>3. at[i] \in S
      BY <1>3, <1>11, <3>1, <3>2
    <3> QED
      BY <3>1, <3>3
  <2> HIDE DEF T
  <2>3. n \in T
    BY <1>1, <2>1, <2>2, UpTo
  <2> QED
    BY <2>3 DEF T
<1>13. at \in [0 .. K -> Int]
  BY <1>4, <1>11, <1>12
<1>14. ASSUME NEW n \in 1 .. K
       PROVE  IF at[n - 1] = NotFound THEN at[n] = NotFound ELSE NextIn(AllOnes, at[n - 1], at[n])
  <2>1. at[n - 1] \in S
    BY <1>1, <1>12
  <2> QED
    BY <1>3, <1>11, <2>1
<1>15. NextIn(AllOnes, -1, at[0])
  BY <1>2, <1>11
<1> QED
  BY <1>13, <1>14, <1>15 DEF Searched, K, at

\* get_indices1() lists all ones in order.
LEMMA IndicesListed ==
  ASSUME BVTypes, SizeBounded, AllOnes # {}
  PROVE  \E k \in Nat : /\ get_indices1 \in [1 .. k -> AllOnes]
                        /\ \A q \in AllOnes : \E i \in 1 .. k : get_indices1[i] = q
                        /\ \A i, j \in 1 .. k : i < j => get_indices1[i] < get_indices1[j]
<1> DEFINE K == MaxBits + W
           S == AllOnes
           at == SearchAt
           found == {n \in DOMAIN at : at[n] \in 0 .. last_bit1_}
<1>1. K \in Nat /\ S \subseteq 0 .. K - 1 /\ Searched(S, K, at)
  BY OnesInside, SearchAtGoes, BitVectorAssumption
<1>2. DOMAIN at = 0 .. K
  BY <1>1 DEF Searched
<1>3. \A q \in S : q \in 0 .. last_bit1_ /\ q # NotFound
  BY LastFound DEF AllOnes, NotFound
<1>4. get_indices1 = [n \in 1 .. Cardinality(found) |-> at[n - 1]]
  BY DEF get_indices1, SearchAt
<1> HIDE DEF K, S, at
<1>5. PICK k \in 0 .. K : /\ Enumerates(S, k, at)
                          /\ \A n \in 0 .. K : at[n] = NotFound <=> n >= k
  BY <1>1, SearchedAll
<1>6. found = 0 .. k - 1
  <2>1. ASSUME NEW n \in 0 .. K, n < k PROVE at[n] \in 0 .. last_bit1_
    <3>1. n \in 0 .. k - 1
      BY <1>1, <2>1
    <3>2. at[n] \in S
      BY <1>5, <3>1 DEF Enumerates
    <3> QED
      BY <1>3, <3>2
  <2>2. ASSUME NEW n \in 0 .. K, n >= k PROVE at[n] \notin 0 .. last_bit1_
    BY <1>5, <2>2 DEF NotFound
  <2>3. \A n : n \in 0 .. k - 1 <=> n \in 0 .. K /\ n < k
    BY <1>1, <1>5
  <2>4. \A n \in 0 .. K : n < k \/ n >= k
    BY <1>1, <1>5
  <2> QED
    BY <1>2, <2>1, <2>2, <2>3, <2>4
<1>7. Cardinality(found) = k
  <2> DEFINE h == k - 1
  <2>1. h \in Int /\ k = h + 1 /\ k \in Nat
    BY <1>1, <1>5
  <2> HIDE DEF h, found
  <2>2. Cardinality(0 .. h) = IF 0 > h THEN 0 ELSE h - 0 + 1
    BY <2>1, FS_Interval
  <2>3. Cardinality(0 .. h) = k
    BY <2>1, <2>2
  <2> QED
    BY <1>6, <2>3 DEF h
<1> DEFINE c == get_indices1
<1>8. c = [n \in 1 .. k |-> at[n - 1]]
  BY <1>4, <1>7
<1> HIDE DEF c, found
<1>9. \A n \in 1 .. k : n - 1 \in 0 .. k - 1 /\ c[n] = at[n - 1]
  BY <1>1, <1>5, <1>8
<1>10. c \in [1 .. k -> S]
  BY <1>5, <1>8, <1>9 DEF Enumerates
<1>11. ASSUME NEW q \in S PROVE \E i \in 1 .. k : c[i] = q
  <2>1. PICK n \in 0 .. k - 1 : at[n] = q
    BY <1>5 DEF Enumerates
  <2>2. n + 1 \in 1 .. k /\ (n + 1) - 1 = n
    BY <1>1, <1>5
  <2> QED
    BY <1>9, <2>1, <2>2
<1>12. ASSUME NEW i \in 1 .. k, NEW j \in 1 .. k, i < j PROVE c[i] < c[j]
  <2>1. i - 1 < j - 1
    BY <1>1, <1>5, <1>12
  <2> QED
    BY <1>5, <1>9, <2>1 DEF Enumerates
<1> QED
  BY <1>1, <1>5, <1>10, <1>11, <1>12 DEF c, S

-----------------------------------------------------------------------------
\* The ones before position n
Below(n) == {p \in AllOnes : p < n}

LEMMA BelowFinite ==
  ASSUME NEW n \in Nat
  PROVE  IsFiniteSet(Below(n)) /\ Cardinality(Below(n)) \in Nat
<1>1. Below(n) \in SUBSET Nat /\ \A p \in Below(n) : p <= n
  BY DEF Below, AllOnes
<1>2. IsFiniteSet(Below(n))
  BY <1>1, FS_BoundedSetOfNaturals
<1> QED
  BY <1>2, FS_CardinalityType

\* As many positions as ones in a part of a word
LEMMA WordCounted ==
  ASSUME BVTypes, NEW w \in DOMAIN bv_, NEW m \in 1 .. W
  PROVE  LET T == {i \in Ones(bv_[w]) : i <= m} IN
         /\ Cardinality(T) \in Nat
         /\ Cardinality(Below(Pos(w, m) + 1)) = Cardinality(Below(Pos(w, 1))) + Cardinality(T)
<1> DEFINE T == {i \in Ones(bv_[w]) : i <= m}
           A == Below(Pos(w, 1))
           B == Below(Pos(w, m) + 1)
           f == [i \in T |-> Pos(w, i)]
           C == {Pos(w, i) : i \in T}
<1>1. w \in Nat \ {0} /\ W \in Nat \ {0} /\ T \subseteq 1 .. W /\ 1 \in 1 .. W
  BY Words, BitVectorAssumption
<1>2. \A i \in 1 .. W : Pos(w, i) \in Nat
  BY <1>1, Positions
<1>3. IsFiniteSet(T) /\ Cardinality(T) \in Nat
  <2>1. IsFiniteSet(1 .. W)
    BY <1>1, FS_Interval
  <2> HIDE DEF T
  <2>2. IsFiniteSet(T)
    BY <1>1, <2>1, FS_Subset
  <2> QED
    BY <2>2, FS_CardinalityType
<1>4. IsFiniteSet(C) /\ Cardinality(C) = Cardinality(T)
  <2>1. ASSUME NEW i \in T, NEW j \in T, f[i] = f[j] PROVE i = j
    <3>1. i \in 1 .. W /\ j \in 1 .. W /\ Pos(w, i) = Pos(w, j)
      BY <1>1, <2>1
    <3>2. place(Pos(w, i)) = i /\ place(Pos(w, j)) = j
      BY <1>1, <3>1, Positions
    <3> QED
      BY <3>1, <3>2
  <2>2. f \in Surjection(T, C)
    BY DEF Surjection
  <2>3. f \in Injection(T, C)
    BY <2>1 DEF Injection, IsInjective
  <2> HIDE DEF T, C, f
  <2> QED
    BY <1>3, <2>2, <2>3, FS_Surjection
<1>5. A \cap C = {}
  <2>1. ASSUME NEW i \in T PROVE ~ (Pos(w, i) < Pos(w, 1))
    <3>1. i \in 1 .. W /\ ~ (i < 1)
      BY <1>1
    <3>2. ~ (w < w)
      BY <1>1
    <3> QED
      BY <1>1, <3>1, <3>2, PosOrder
  <2> QED
    BY <2>1 DEF Below
<1>6. B = A \cup C
  <2>1. ASSUME NEW p \in B PROVE p \in A \cup C
    <3>1. p \in AllOnes /\ p < Pos(w, m) + 1
      BY DEF Below
    <3>2. /\ p \in Nat /\ word(p) \in Nat \ {0} /\ place(p) \in 1 .. W
          /\ place(p) \in Ones(bv_[word(p)]) /\ p = Pos(word(p), place(p))
      BY <3>1, OneIn, Words
    <3>3. ~ (Pos(w, m) < Pos(word(p), place(p)))
      BY <1>2, <3>1, <3>2
    <3>4. word(p) < w \/ (word(p) = w /\ place(p) <= m)
      BY <1>1, <3>2, <3>3, PosOrder
    <3>5. CASE word(p) < w
      <4>1. Pos(word(p), place(p)) < Pos(w, 1)
        BY <1>1, <3>2, <3>5, PosOrder
      <4> QED
        BY <3>1, <3>2, <4>1 DEF Below
    <3>6. CASE word(p) = w /\ place(p) <= m
      BY <3>2, <3>6
    <3> QED
      BY <3>4, <3>5, <3>6
  <2>2. ASSUME NEW p \in A PROVE p \in B
    <3>1. p \in AllOnes /\ p \in Nat /\ p < Pos(w, 1)
      BY DEF Below, AllOnes
    <3>2. ~ (Pos(w, m) < Pos(w, 1))
      BY <1>1, PosOrder
    <3>3. p < Pos(w, m) + 1
      BY <1>1, <1>2, <3>1, <3>2
    <3> QED
      BY <3>1, <3>3 DEF Below
  <2>3. ASSUME NEW i \in T PROVE Pos(w, i) \in B
    <3>1. i \in 1 .. W /\ i \in Ones(bv_[w]) /\ i <= m
      BY <1>1
    <3>2. Pos(w, i) \in AllOnes
      BY <3>1, OneAt
    <3>3. ~ (Pos(w, m) < Pos(w, i))
      BY <1>1, <3>1, PosOrder
    <3>4. Pos(w, i) < Pos(w, m) + 1
      BY <1>2, <3>1, <3>3
    <3> QED
      BY <3>2, <3>4 DEF Below
  <2> QED
    BY <2>1, <2>2, <2>3
<1>7. IsFiniteSet(A) /\ Cardinality(A) \in Nat
  BY <1>1, <1>2, BelowFinite
<1>8. Cardinality(B) = Cardinality(A) + Cardinality(T)
  <2> HIDE DEF A, B, C, T, f
  <2>1. Cardinality(A \cup C) = Cardinality(A) + Cardinality(C) - Cardinality(A \cap C)
    BY <1>4, <1>7, FS_Union
  <2>2. Cardinality(A \cap C) = 0
    BY <1>5, FS_EmptySet
  <2> QED
    BY <1>3, <1>4, <1>6, <1>7, <2>1, <2>2
<1> QED
  BY <1>3, <1>8

\* The loop over the words of popcnt() that are asked for as a whole
Res(lword) ==
    CHOOSE res : res = [w \in 0 .. lword - 1 |->
        IF w = 0 THEN 0 ELSE res[w - 1] + Cardinality(Ones(bv_[w]))]

LEMMA WholeWords ==
  ASSUME BVTypes, NEW lword \in DOMAIN bv_
  PROVE  Res(lword)[lword - 1] = Cardinality(Below(Pos(lword, 1)))
<1> DEFINE l == lword - 1
           D == 0 .. l
           f == [w \in D |-> Cardinality(Below(Pos(w + 1, 1)))]
           Rec(g) == [w \in D |-> IF w = 0 THEN 0 ELSE g[w - 1] + Cardinality(Ones(bv_[w]))]
           res == Res(lword)
<1>1. /\ lword \in Nat \ {0} /\ W \in Nat \ {0} /\ l \in Nat /\ l + 1 = lword
      /\ \A w \in 1 .. l : w \in DOMAIN bv_ /\ w \in Nat \ {0}
  BY Words, BitVectorAssumption
<1>2. res = CHOOSE g : g = Rec(g)
  BY DEF Res
<1> HIDE DEF l
<1>3. f[0] = 0
  <2>1. Pos(0 + 1, 1) = 0
    BY <1>1 DEF Pos
  <2>2. Below(0) = {}
    BY DEF Below, AllOnes
  <2>3. 0 \in D
    BY <1>1
  <2> QED
    BY <2>1, <2>2, <2>3, FS_EmptySet
<1>4. ASSUME NEW w \in 1 .. l PROVE f[w] = f[w - 1] + Cardinality(Ones(bv_[w]))
  <2>1. w \in DOMAIN bv_ /\ w \in Nat \ {0} /\ W \in 1 .. W /\ w \in D /\ w - 1 \in D
    BY <1>1
  <2>2. {i \in Ones(bv_[w]) : i <= W} = Ones(bv_[w])
    BY <1>1, <2>1, Words
  <2>3. Cardinality(Below(Pos(w, W) + 1)) = Cardinality(Below(Pos(w, 1))) + Cardinality(Ones(bv_[w]))
    BY <2>1, <2>2, WordCounted
  <2>4. Pos(w, W) + 1 = Pos(w + 1, 1) /\ (w - 1) + 1 = w
    <3>1. (w - 1) * W \in Nat /\ w * W = (w - 1) * W + W /\ (w + 1) - 1 = w
      BY <1>1, <2>1
    <3> QED
      BY <1>1, <2>1, <3>1 DEF Pos
  <2> QED
    BY <2>1, <2>3, <2>4
<1>5. f = Rec(f)
  <2>1. ASSUME NEW w \in D PROVE f[w] = Rec(f)[w]
    <3>1. CASE w = 0
      BY <1>3, <3>1
    <3>2. CASE w # 0
      <4>1. w \in 1 .. l
        BY <1>1, <3>2
      <4> HIDE DEF f
      <4> QED
        BY <1>4, <3>2, <4>1
    <3> QED
      BY <3>1, <3>2
  <2>2. f = [w \in D |-> f[w]]
    OBVIOUS
  <2> HIDE DEF f
  <2> QED
    BY <2>1, <2>2
<1> HIDE DEF f, Rec, res
<1>6. res = Rec(res)
  BY <1>2, <1>5
<1>7. res[0] = 0 /\ \A w \in 1 .. l : res[w] = res[w - 1] + Cardinality(Ones(bv_[w]))
  <2>1. \A w \in D : res[w] = IF w = 0 THEN 0 ELSE res[w - 1] + Cardinality(Ones(bv_[w]))
    BY <1>6 DEF Rec
  <2>2. 0 \in D /\ \A w \in 1 .. l : w \in D /\ w # 0
    BY <1>1
  <2> QED
    BY <2>1, <2>2
<1> DEFINE T == {w \in D : res[w] = f[w]}
<1>8. 0 \in T
  BY <1>1, <1>3, <1>7
<1>9. ASSUME NEW w \in 1 .. l, w - 1 \in T PROVE w \in T
  <2>1. w \in D
    BY <1>1
  <2> QED
    BY <1>4, <1>7, <1>9, <2>1
<1> HIDE DEF T
<1>10. l \in T
  BY <1>1, <1>8, <1>9, UpTo
<1>11. res[l] = Cardinality(Below(Pos(l + 1, 1)))
  BY <1>1, <1>10 DEF T, f
<1> QED
  BY <1>1, <1>11 DEF res, l

\* popcnt() counts the ones below a size.
LEMMA Counted ==
  ASSUME BVTypes, NEW n \in 1 .. size_
  PROVE  popcnt_(n) = Cardinality(Below(n))
<1> DEFINE lword == word_size_(n)
           m == InLast(n)
           word_ == bv_[lword]
<1>1. n \in Nat /\ n > 0 /\ size_ \in Nat /\ size_ > 0 /\ W \in Nat \ {0}
  BY BitVectorAssumption DEF BVTypes
<1>2. lword \in Nat /\ lword > 0 /\ m \in 1 .. W /\ n = Pos(lword, m) + 1
  BY <1>1, WordSize
<1>3. lword \in DOMAIN bv_
  <2> DEFINE s == word_size_(size_)
             k == InLast(size_)
  <2>1. s \in Nat /\ s > 0 /\ k \in 1 .. W /\ size_ = Pos(s, k) + 1
    BY <1>1, WordSize
  <2>2. DOMAIN bv_ = 1 .. s
    BY Words
  <2> HIDE DEF s, k, lword, m
  <2>3. Pos(s, k) \in Nat /\ Pos(lword, m) \in Nat
    BY <1>2, <2>1, Positions
  <2>4. ~ (Pos(s, k) < Pos(lword, m))
    BY <1>1, <1>2, <2>1, <2>3
  <2>5. lword <= s
    BY <1>2, <2>1, <2>4, PosOrder
  <2> QED
    BY <1>2, <2>2, <2>5
<1>4. popcnt_(n) = Res(lword)[lword - 1] + popcnt(word_, n % W)
  BY DEF popcnt_, Res
<1>5. popcnt(word_, n % W) = Cardinality({i \in Ones(word_) : i <= m})
  <2>1. Len(word_) = W
    BY <1>1, <1>3, LenProperties DEF BVTypes, Word
  <2> QED
    BY <2>1 DEF popcnt, InLast
<1> HIDE DEF lword, m
<1>6. Cardinality(Below(Pos(lword, m) + 1))
          = Cardinality(Below(Pos(lword, 1))) + Cardinality({i \in Ones(word_) : i <= m})
  BY <1>2, <1>3, WordCounted
<1>7. Res(lword)[lword - 1] = Cardinality(Below(Pos(lword, 1)))
  BY <1>3, WholeWords
<1> QED
  BY <1>2, <1>4, <1>5, <1>6, <1>7

-----------------------------------------------------------------------------
\* A position is below the size, or in the last word and past the size there.
LEMMA BelowSize ==
  ASSUME NEW n \in Nat, NEW p \in Nat
  PROVE  /\ p < n => word(p) \in 1 .. word_size_(n)
         /\ word(p) \in 1 .. word_size_(n) =>
                p < n \/ (word(p) = word_size_(n) /\ place(p) > InLast(n))
<1> DEFINE s == word_size_(n)
           l == InLast(n)
           v == word(p)
           k == place(p)
<1>1. CASE n = 0
  BY <1>1, WordSize
<1>2. CASE n > 0
  <2>1. s \in Nat \ {0} /\ l \in 1 .. W /\ n = Pos(s, l) + 1
    BY <1>2, WordSize
  <2>2. v \in Nat \ {0} /\ k \in 1 .. W /\ Pos(v, k) = p
    BY PositionOf
  <2> HIDE DEF s, l, v, k
  <2>3. Pos(s, l) \in Nat
    BY <2>1, Positions
  <2>4. p < n <=> ~ (Pos(s, l) < Pos(v, k))
    BY <2>1, <2>2, <2>3
  <2>5. Pos(s, l) < Pos(v, k) <=> s < v \/ (s = v /\ l < k)
    BY <2>1, <2>2, PosOrder
  <2>6. p < n <=> ~ (s < v \/ (s = v /\ l < k))
    BY <2>4, <2>5
  <2>7. k \in Int /\ l \in Int
    BY <2>1, <2>2, BitVectorAssumption
  <2> QED
    BY <2>1, <2>2, <2>6, <2>7 DEF s, l, v, k
<1> QED
  BY <1>1, <1>2

OnesOf(words) == {p \in Nat : word(p) \in DOMAIN words /\ words[word(p)][place(p)] = 1}

LEMMA AllOnesOf == AllOnes = OnesOf(bv_) /\ AllOnes' = OnesOf(bv_')
BY DEF AllOnes, OnesOf, bit, word, place

LEMMA TailReset ==
  ASSUME NEW n \in Nat, NEW m \in Nat, NEW words \in [1 .. m -> Word]
  PROVE  /\ reset_tail_(words, n) \in [1 .. m -> Word]
         /\ m = word_size_(n) => \A p \in OnesOf(reset_tail_(words, n)) : p < n
<1> DEFINE b == reset_tail_(words, n)
           Cleared(w) == [i \in 1 .. W |-> IF i <= n % W THEN words[w][i] ELSE 0]
<1>1. Len(words) = m /\ DOMAIN words = 1 .. m
  BY LenProperties
<1>2. b = [w \in 1 .. m |-> IF w # m \/ n % W = 0 THEN words[w] ELSE Cleared(w)]
  BY <1>1 DEF reset_tail_
<1>3. \A w \in 1 .. m : Cleared(w) \in Word
  BY DEF Word
<1>4. b \in [1 .. m -> Word]
  <2> HIDE DEF b, Cleared
  <2> QED
    BY <1>2, <1>3
<1>5. ASSUME m = word_size_(n), NEW p \in OnesOf(b) PROVE p < n
  <2>1. p \in Nat /\ word(p) \in 1 .. m /\ b[word(p)][place(p)] = 1 /\ place(p) \in 1 .. W
    BY <1>2, PositionOf DEF OnesOf
  <2>2. SUFFICES ASSUME word(p) = m, place(p) > InLast(n) PROVE FALSE
    BY <1>5, <2>1, BelowSize
  <2>3. CASE n % W = 0
    BY <2>1, <2>2, <2>3, BitVectorAssumption DEF InLast
  <2>4. CASE n % W # 0
    <3>1. b[word(p)] = Cleared(word(p)) /\ InLast(n) = n % W
      BY <1>2, <2>1, <2>2, <2>4 DEF InLast
    <3>2. n % W \in Nat
      BY BitVectorAssumption, Divide
    <3>3. ~ (place(p) <= n % W)
      BY <2>1, <2>2, <3>1, <3>2, BitVectorAssumption
    <3> QED
      BY <2>1, <3>1, <3>3
  <2> QED
    BY <2>3, <2>4
<1> QED
  BY <1>4, <1>5

LEMMA BInitInv == BInit => BVInv
<1> SUFFICES ASSUME BInit PROVE BVInv
  OBVIOUS
<1>1. size_ = 0 /\ bv_ = <<>> /\ clean = TRUE /\ word_size_(0) = 0 /\ MaxBits \in Nat
  BY WordSize, BitVectorAssumption DEF BInit
<1>2. bv_ \in [1 .. word_size_(size_) -> Word] /\ DOMAIN bv_ = {}
  BY <1>1
<1>3. AllOnes = {}
  BY <1>2 DEF AllOnes
<1> QED
  BY <1>1, <1>2, <1>3 DEF BVInv, BVTypes, SizeBounded

LEMMA ResizeInv ==
  ASSUME BVInv, NEW n \in 0 .. MaxBits, Resize(n)
  PROVE  BVInv'
<1>1. n \in Nat /\ size_ \in Nat /\ MaxBits \in Nat /\ n <= MaxBits
  BY BitVectorAssumption DEF BVInv, BVTypes
<1>2. PICK words \in [1 .. word_size_(n) -> Word] :
          /\ bv_' = IF n < size_ THEN reset_tail_(words, size_) ELSE words
          /\ size_' = n /\ clean' = (n % W = 0)
  BY DEF Resize
<1>3. word_size_(n) \in Nat
  BY <1>1, WordSize
<1>4. bv_' \in [1 .. word_size_(n) -> Word]
  BY <1>1, <1>2, <1>3, TailReset
<1>5. BVTypes'
  BY <1>1, <1>2, <1>4 DEF BVTypes, word_size_
<1>6. SizeBounded'
  BY <1>1, <1>2 DEF SizeBounded
<1>7. ASSUME n % W = 0, NEW p \in OnesOf(bv_') PROVE p < n
  <2>1. p \in Nat /\ word(p) \in 1 .. word_size_(n) /\ place(p) \in 1 .. W
    BY <1>4, PositionOf DEF OnesOf
  <2>2. ~ (place(p) > InLast(n))
    BY <1>7, <2>1, BitVectorAssumption DEF InLast
  <2> QED
    BY <1>1, <2>1, <2>2, BelowSize
<1> QED
  BY <1>2, <1>5, <1>6, <1>7, AllOnesOf DEF BVInv

LEMMA EachWordInv ==
  ASSUME BVInv, NEW g \in [{0, 1} -> {0, 1}], EachWord(g)
  PROVE  BVInv'
<1> DEFINE s == word_size_(size_)
           words == [w \in DOMAIN bv_ |-> [i \in 1 .. W |-> g[bv_[w][i]]]]
<1>1. size_ \in Nat /\ s \in Nat /\ DOMAIN bv_ = 1 .. s /\ bv_ \in [1 .. s -> Word]
  BY Words DEF BVInv, BVTypes
<1>2. bv_' = reset_tail_(words, size_) /\ size_' = size_ /\ clean' = TRUE
  BY DEF EachWord
<1>3. words \in [1 .. s -> Word]
  BY <1>1 DEF Word
<1> HIDE DEF words
<1>4. bv_' \in [1 .. s -> Word] /\ \A p \in OnesOf(bv_') : p < size_
  BY <1>1, <1>2, <1>3, TailReset
<1>5. BVTypes' /\ SizeBounded'
  BY <1>1, <1>2, <1>4 DEF BVInv, BVTypes, SizeBounded, word_size_
<1> QED
  BY <1>2, <1>4, <1>5, AllOnesOf DEF BVInv

LEMMA BitInv ==
  ASSUME BVInv, NEW g \in [{0, 1} -> {0, 1}], NEW pos \in Nat, Bit(pos, g)
  PROVE  BVInv'
<1> DEFINE s == word_size_(size_)
           v == word(pos)
           k == place(pos)
           old == bv_[v][k]
           b == bv_'
<1>1. size_ \in Nat /\ s \in Nat /\ DOMAIN bv_ = 1 .. s /\ bv_ \in [1 .. s -> Word]
  BY Words DEF BVInv, BVTypes
<1>2. /\ pos < size_ /\ size_' = size_ /\ clean' = clean
      /\ b = [bv_ EXCEPT ![v] = [bv_[v] EXCEPT ![k] = g[old]]]
  BY DEF Bit
<1>3. v \in 1 .. s /\ k \in 1 .. W
  BY <1>1, <1>2, BelowSize, PositionOf
<1> DEFINE new == [bv_[v] EXCEPT ![k] = g[old]]
<1>4. bv_[v] \in [1 .. W -> {0, 1}] /\ old \in {0, 1}
  BY <1>1, <1>3 DEF Word
<1>5. new \in Word /\ \A i \in 1 .. W : i # k => new[i] = bv_[v][i]
  BY <1>3, <1>4 DEF Word
<1>6. b = [bv_ EXCEPT ![v] = new]
  BY <1>2
<1> HIDE DEF new, old, b, s, v, k
<1>7. /\ b \in [1 .. s -> Word] /\ b[v] = new
      /\ \A w \in 1 .. s : w # v => b[w] = bv_[w]
  BY <1>1, <1>3, <1>5, <1>6
<1>8. ASSUME NEW p \in OnesOf(b), p # pos PROVE p \in AllOnes
  <2>1. p \in Nat /\ word(p) \in 1 .. s /\ b[word(p)][place(p)] = 1 /\ place(p) \in 1 .. W
    BY <1>7, PositionOf DEF OnesOf
  <2>2. word(p) # v \/ place(p) # k
    BY <1>8, <2>1, PositionOf DEF v, k
  <2>3. bv_[word(p)][place(p)] = 1
    BY <1>5, <1>7, <2>1, <2>2
  <2> QED
    BY <1>1, <2>1, <2>3 DEF AllOnes, bit
<1>9. BVTypes' /\ SizeBounded'
  BY <1>1, <1>2, <1>7 DEF BVInv, BVTypes, SizeBounded, word_size_, s, b
<1>10. clean' => \A p \in AllOnes' : p < size_'
  BY <1>2, <1>8, AllOnesOf DEF BVInv, b
<1> QED
  BY <1>9, <1>10 DEF BVInv

LEMMA FromWordInv == ASSUME BVInv, FromWord PROVE BVInv'
<1>1. W \in Nat \ {0} /\ size_' = W /\ clean' = TRUE /\ bv_' \in [1 .. 1 -> Word]
  BY BitVectorAssumption DEF FromWord
<1>2. word_size_(W) = 1 /\ W % W = 0
  <2>1. W - 1 \in 0 .. W - 1 /\ W * 1 + 0 = W /\ W * 1 + (W - 1) = W + W - 1
    BY <1>1
  <2> DEFINE r == W - 1
  <2>2. (W * 1 + r) \div W = 1 /\ (W * 1 + 0) % W = 0
    <3>1. r \in 0 .. W - 1 /\ 0 \in 0 .. W - 1
      BY <1>1
    <3> HIDE DEF r
    <3> QED
      BY <1>1, <3>1, DivideOnly
  <2> QED
    BY <2>1, <2>2 DEF word_size_
<1>3. BVTypes' /\ SizeBounded'
  BY <1>1, <1>2 DEF BVTypes, SizeBounded, word_size_
<1>4. ASSUME NEW p \in OnesOf(bv_') PROVE p < W
  <2>1. p \in Nat /\ word(p) \in 1 .. 1 /\ place(p) \in 1 .. W
    BY <1>1, PositionOf DEF OnesOf
  <2>2. InLast(W) = W /\ ~ (place(p) > W)
    BY <1>1, <1>2, <2>1 DEF InLast
  <2> QED
    BY <1>1, <1>2, <2>1, <2>2, BelowSize
<1> QED
  BY <1>1, <1>3, <1>4, AllOnesOf DEF BVInv

LEMMA BStepInv == BVInv /\ [BNext]_bvars => BVInv'
<1> SUFFICES ASSUME BVInv, [BNext]_bvars PROVE BVInv'
  OBVIOUS
<1>1. ASSUME NEW n \in 0 .. MaxBits, Resize(n) PROVE BVInv'
  BY <1>1, ResizeInv
<1>2. ASSUME NEW f \in {<<1, 1>>, <<0, 0>>, <<1, 0>>}
      PROVE  [b \in {0, 1} |-> f[b + 1]] \in [{0, 1} -> {0, 1}]
  <2>1. f[0 + 1] \in {0, 1} /\ f[1 + 1] \in {0, 1}
    OBVIOUS
  <2> QED
    BY <2>1
<1>3. ASSUME NEW g \in [{0, 1} -> {0, 1}], EachWord(g) PROVE BVInv'
  BY <1>3, EachWordInv
<1>4. ASSUME NEW g \in [{0, 1} -> {0, 1}], NEW pos \in 0 .. MaxBits - 1, Bit(pos, g) PROVE BVInv'
  BY <1>4, BitInv
<1>5. CASE FromWord
  BY <1>5, FromWordInv
<1>6. CASE UNCHANGED bvars
  BY <1>6 DEF bvars, BVInv, BVTypes, SizeBounded, AllOnes, word_size_, bit, word, place
<1> QED
  BY <1>1, <1>2, <1>3, <1>4, <1>5, <1>6 DEF BNext

LEMMA BVInvFinds == BVInv => OnesFound
<1> SUFFICES ASSUME BVInv PROVE OnesFound
  OBVIOUS
<1> DEFINE ones == {pos \in 0 .. size_ - 1 : test(pos)}
           c == get_indices1
<1>1. BVTypes /\ SizeBounded /\ size_ \in Nat /\ DOMAIN bv_ = 1 .. word_size_(size_)
  BY DEF BVInv, BVTypes
<1>2. ASSUME NEW pos \in 0 .. size_ - 1
      PROVE  pos \in Nat /\ pos < size_ /\ word(pos) \in DOMAIN bv_
  BY <1>1, BelowSize
<1>3. \A n \in 1 .. size_ : {pos \in ones : pos < n} = Below(n)
  <2> SUFFICES ASSUME NEW n \in 1 .. size_, NEW pos
               PROVE  pos \in ones /\ pos < n <=> pos \in Below(n)
    OBVIOUS
  <2>1. ASSUME pos \in ones, pos < n PROVE pos \in Below(n)
    BY <1>2, <2>1 DEF test, Below, AllOnes
  <2>2. ASSUME pos \in Below(n) PROVE pos \in ones /\ pos < n
    <3>1. pos \in Nat /\ pos < n /\ bit(pos) = 1
      BY <2>2 DEF Below, AllOnes
    <3>2. pos < size_ /\ pos \in 0 .. size_ - 1
      BY <1>1, <3>1
    <3> QED
      BY <3>1, <3>2 DEF test
  <2> QED
    BY <2>1, <2>2
<1>4. \A n \in 1 .. size_ : popcnt_(n) = Cardinality({pos \in ones : pos < n})
  BY <1>1, <1>3, Counted
<1>5. ASSUME clean, ones # {}
      PROVE  /\ {c[i] : i \in DOMAIN c} = ones
             /\ \A i, j \in DOMAIN c : i < j => c[i] < c[j]
             /\ Len(c) = popcnt_(size_)
             /\ \A pos \in 0 .. size_ - 1 :
                    next_bit1(pos) = LET later == {q \in ones : q > pos} IN
                                     IF later = {} THEN NotFound ELSE Min(later)
  <2>1. size_ \in 1 .. size_ /\ \A q \in ones : q \in Nat /\ q < size_
    BY <1>1, <1>2, <1>5
  <2>2. ones = Below(size_)
    BY <1>3, <2>1
  <2>3. ones = AllOnes
    BY <1>5, <2>2 DEF BVInv, Below
  <2>4. \A q \in AllOnes : q \in Nat
    BY DEF AllOnes
  <2>5. popcnt_(size_) = Cardinality(AllOnes)
    BY <1>1, <2>1, <2>2, <2>3, Counted
  <2> HIDE DEF ones, c
  <2>6. PICK k \in Nat : /\ c \in [1 .. k -> AllOnes]
                         /\ \A q \in AllOnes : \E i \in 1 .. k : c[i] = q
                         /\ \A i, j \in 1 .. k : i < j => c[i] < c[j]
    BY <1>1, <1>5, <2>3, IndicesListed DEF c
  <2>7. Len(c) = k
    BY <2>6, FunctionIsSeq
  <2>8. ASSUME NEW i \in 1 .. k, NEW j \in 1 .. k, c[i] = c[j] PROVE i = j
    <3>1. c[i] \in Nat /\ c[j] \in Nat
      BY <2>4, <2>6
    <3>2. ~ (i < j) /\ ~ (j < i)
      BY <2>6, <2>8, <3>1
    <3> QED
      BY <3>2
  <2>9. Cardinality(AllOnes) = k
    BY <2>6, <2>8, InjectiveCount
  <2>10. ASSUME NEW pos \in 0 .. size_ - 1
         PROVE  next_bit1(pos) = IF {q \in ones : q > pos} = {} THEN NotFound
                                 ELSE Min({q \in ones : q > pos})
    <3> DEFINE later == {q \in ones : q > pos}
               r == next_bit1(pos)
    <3>1. NextIn(AllOnes, pos, r) /\ pos \in Nat
      BY <1>1, <1>2, NextFound
    <3> HIDE DEF r
    <3>2. CASE later = {}
      <4>1. \A q \in AllOnes : q <= pos
        BY <2>3, <2>4, <3>1, <3>2
      <4> QED
        BY <3>1, <3>2, <4>1 DEF NextIn, r
    <3>3. CASE later # {}
      <4>1. ~ \A q \in AllOnes : q <= pos
        BY <2>3, <2>4, <3>1, <3>3
      <4>2. r \in later /\ \A q \in later : r <= q
        BY <2>3, <3>1, <4>1 DEF NextIn
      <4>3. later \subseteq Nat
        BY <2>3, <2>4
      <4> HIDE DEF later
      <4>4. Min(later) \in later /\ \A q \in later : Min(later) <= q
        BY <3>3, <4>3, MinOf
      <4>5. r = Min(later)
        <5>1. r \in Nat /\ Min(later) \in Nat /\ r <= Min(later) /\ Min(later) <= r
          BY <4>2, <4>3, <4>4
        <5> QED
          BY <5>1
      <4> QED
        BY <3>3, <4>5 DEF later, r
    <3> QED
      BY <3>2, <3>3
  <2>11. {c[i] : i \in DOMAIN c} = ones
    BY <2>3, <2>6
  <2> QED
    BY <2>5, <2>6, <2>7, <2>9, <2>10, <2>11
<1> QED
  BY <1>4, <1>5 DEF OnesFound

\* However many bits a word has and whatever was set, cleared, flipped and
\* resized: the ones below any size are counted right, and the searches find
\* the ones that test() sees and no other, in order, unless there is a tail
\* that was not cleared since the last resize().
THEOREM OnesFoundHolds == BSpec => []OnesFound
BY BInitInv, BStepInv, BVInvFinds, PTL DEF BSpec

-----------------------------------------------------------------------------
(* Simconf *)

Calls == [file : Names, line : Nat \ {0}]

ConfTypes ==
    /\ files \in Contents
    /\ calls \in Seq(Calls)
    /\ ret \in Int
    /\ \A i \in 1 .. Len(calls) : calls[i].file \in DOMAIN files

\* No file is being parsed twice at a time.
Once == \A i, j \in 1 .. Len(calls) : calls[i].file = calls[j].file => i = j

\* The marks are those of the calls, but for what an exception left.
Marked ==
    /\ \A i \in 1 .. Len(calls) : calls[i].file \in _fname_set_
    /\ ~thrown => \A f \in _fname_set_ : \E i \in 1 .. Len(calls) : calls[i].file = f

\* While its lines are read, the name in _fname_ is that of the innermost call.
Named == calls # <<>> /\ ret = Running => _fname_ = Call.file

Reported == failed => ret < 0

CInv == ConfTypes /\ Once /\ Marked /\ Named /\ Reported

LEMMA LastCall ==
  ASSUME ConfTypes, calls # <<>>
  PROVE  /\ Len(calls) \in Nat \ {0} /\ Call = calls[Len(calls)]
         /\ Call \in Calls /\ Call.file \in DOMAIN files /\ Call.line \in Nat \ {0}
<1>1. Len(calls) \in Nat \ {0} /\ Call = calls[Len(calls)]
  BY LenProperties, EmptySeq DEF ConfTypes, Call, Last
<1>2. calls[Len(calls)] \in Calls
  BY <1>1, ElementOfSeq DEF ConfTypes
<1> QED
  BY <1>1, <1>2 DEF ConfTypes, Calls

LEMMA LineRead ==
  ASSUME ConfTypes, AtLine
  PROVE  Line \in FileLines /\ calls # <<>> /\ ret = Running
<1>1. Call.file \in DOMAIN files /\ Call.line \in Nat \ {0} /\ Call.line <= Len(Lines)
      /\ calls # <<>> /\ ret = Running
  BY LastCall DEF AtLine
<1>2. Lines \in Seq(FileLines)
  BY <1>1, SimconfAssumption DEF ConfTypes, Lines
<1>3. Call.line \in 1 .. Len(Lines)
  BY <1>1, <1>2, LenProperties
<1> QED
  BY <1>1, <1>2, <1>3, ElementOfSeq DEF Line

LEMMA FrontCalls ==
  ASSUME ConfTypes, calls # <<>>
  PROVE  /\ Front(calls) \in Seq(Calls) /\ Len(Front(calls)) = Len(calls) - 1
         /\ \A i \in 1 .. Len(calls) - 1 : Front(calls)[i] = calls[i]
<1> DEFINE n == Len(calls)
           s == SubSeq(calls, 1, n - 1)
<1>1. n \in Nat \ {0}
  BY LastCall
<1>2. \A i \in 1 .. n - 1 : calls[i] \in Calls
  BY <1>1, ElementOfSeq DEF ConfTypes
<1>3. Front(calls) = s
  BY DEF Front
<1> HIDE DEF n
<1>4. s \in Seq(Calls) /\ Len(s) = n - 1 /\ \A i \in 1 .. n - 1 : s[i] = calls[i]
  BY <1>1, <1>2, SubSeqProperties
<1> HIDE DEF s
<1> QED
  BY <1>3, <1>4 DEF n

LEMMA NextCalls ==
  ASSUME ConfTypes, calls # <<>>
  PROVE  /\ NextLine \in Seq(Calls) /\ Len(NextLine) = Len(calls)
         /\ \A i \in 1 .. Len(calls) : NextLine[i].file = calls[i].file
<1> DEFINE n == Len(calls)
           e == [calls[n] EXCEPT !.line = @ + 1]
<1>1. n \in Nat \ {0} /\ calls[n] \in Calls
  BY LastCall
<1>2. NextLine = [calls EXCEPT ![n] = e]
  BY <1>1 DEF NextLine, ConfTypes
<1>3. e \in Calls /\ e.file = calls[n].file
  BY <1>1 DEF Calls
<1> HIDE DEF e, n
<1>4. NextLine \in Seq(Calls) /\ Len(NextLine) = Len(calls)
  BY <1>1, <1>2, <1>3 DEF ConfTypes, n
<1>5. \A i \in 1 .. Len(calls) : NextLine[i].file = calls[i].file
  <2> TAKE i \in 1 .. Len(calls)
  <2>1. CASE i = n
    BY <1>2, <1>3, <2>1, LenProperties DEF ConfTypes
  <2>2. CASE i # n
    BY <1>2, <2>2, LenProperties DEF ConfTypes
  <2> QED
    BY <2>1, <2>2
<1> QED
  BY <1>4, <1>5

-----------------------------------------------------------------------------
(* Entering a call, reading on, and leaving it *)

LEMMA EnterKeeps ==
  ASSUME CInv, NEW f \in Names, Enter(f), files' = files, ~ (failed /\ calls # <<>>)
  PROVE  CInv'
<1>1. /\ files \in Contents /\ calls \in Seq(Calls) /\ ret \in Int /\ Len(calls) \in Nat
      /\ \A i \in 1 .. Len(calls) : calls[i].file \in DOMAIN files
  BY LenProperties DEF CInv, ConfTypes
<1>2. _fname_' = f /\ failed' = (f \in _fname_set_ \/ f \notin DOMAIN files)
  BY DEF Enter
<1>3. CASE f \in _fname_set_
  <2>1. calls' = <<>> /\ ret' = Threw /\ thrown' = TRUE
    BY <1>3 DEF Enter
  <2>2. <<>> \in Seq(Calls) /\ Len(<<>>) = 0 /\ Threw \in Int /\ Threw < 0
    BY DEF Threw
  <2> QED
    BY <1>1, <2>1, <2>2 DEF CInv, ConfTypes, Once, Marked, Named, Reported
<1>4. CASE f \notin _fname_set_ /\ f \notin DOMAIN files
  <2>1. ret' = -1 /\ _fname_set_' = _fname_set_ /\ calls' = calls /\ thrown' = thrown
    BY <1>4 DEF Enter
  <2> QED
    BY <1>1, <2>1 DEF CInv, ConfTypes, Once, Marked, Named, Reported, Running
<1>5. CASE f \notin _fname_set_ /\ f \in DOMAIN files
  <2> DEFINE c == [file |-> f, line |-> 1]
             t == Append(calls, c)
             n == Len(calls)
  <2>1. _fname_set_' = _fname_set_ \cup {f} /\ calls' = t /\ ret' = Running /\ thrown' = thrown
    BY <1>5 DEF Enter
  <2>2. c \in Calls /\ c.file = f
    BY DEF Calls
  <2>3. failed' = FALSE
    BY <1>2, <1>5
  <2> HIDE DEF c
  <2>4. t \in Seq(Calls) /\ Len(t) = n + 1 /\ t[n + 1] = c /\ t # <<>>
        /\ \A i \in 1 .. n : t[i] = calls[i]
    BY <1>1, <2>2, AppendProperties
  <2> HIDE DEF t, n
  <2>5. n \in Nat /\ \A i \in 1 .. n + 1 : i \in 1 .. n \/ i = n + 1
    BY <1>1 DEF n
  <2>6. /\ \A i \in 1 .. n : t[i].file = calls[i].file /\ calls[i].file # f
        /\ t[n + 1].file = f
    BY <1>5, <2>2, <2>4 DEF CInv, Marked, n
  <2>7. ConfTypes'
    <3>1. \A i \in 1 .. n + 1 : t[i].file \in DOMAIN files
      BY <1>1, <1>5, <2>5, <2>6 DEF n
    <3> QED
      BY <1>1, <2>1, <2>4, <3>1 DEF ConfTypes, Running
  <2>8. Once'
    <3>1. \A i, j \in 1 .. n : calls[i].file = calls[j].file => i = j
      BY DEF CInv, Once, n
    <3>2. \A i, j \in 1 .. n + 1 : t[i].file = t[j].file => i = j
      BY <2>5, <2>6, <3>1
    <3> QED
      BY <2>1, <2>4, <3>2 DEF Once
  <2>9. Marked'
    <3>1. \A i \in 1 .. n + 1 : t[i].file \in _fname_set_ \cup {f}
      BY <2>5, <2>6 DEF CInv, Marked, n
    <3>2. ASSUME ~ thrown, NEW g \in _fname_set_ \cup {f}
          PROVE  \E i \in 1 .. n + 1 : t[i].file = g
      <4>1. CASE g = f
        BY <2>5, <2>6, <4>1
      <4>2. CASE g \in _fname_set_
        <5>1. PICK i \in 1 .. n : calls[i].file = g
          BY <3>2, <4>2 DEF CInv, Marked, n
        <5> QED
          BY <2>5, <2>6, <5>1
      <4> QED
        BY <4>1, <4>2
    <3> QED
      BY <2>1, <2>4, <3>1, <3>2 DEF Marked
  <2>10. Named'
    <3>1. Call' = t[n + 1]
      BY <2>1, <2>4 DEF Call, Last
    <3> QED
      BY <1>2, <2>6, <3>1 DEF Named
  <2>11. Reported'
    BY <2>3 DEF Reported
  <2> QED
    BY <2>7, <2>8, <2>9, <2>10, <2>11 DEF CInv
<1> QED
  BY <1>3, <1>4, <1>5

\* The call that is left takes its own mark with it.
LEMMA LeaveKeeps ==
  ASSUME CInv, calls # <<>>, NEW code \in Int, code # Running, Leave(code),
         _fname_' = Call.file, files' = files, thrown' = thrown, failed' => code < 0
  PROVE  CInv'
<1> DEFINE n == Len(calls)
           t == Front(calls)
           f == Call.file
<1>1. n \in Nat \ {0} /\ Call = calls[n]
  BY LastCall DEF CInv
<1>2. t \in Seq(Calls) /\ Len(t) = n - 1 /\ \A i \in 1 .. n - 1 : t[i] = calls[i]
  BY FrontCalls DEF CInv
<1>3. _fname_set_' = _fname_set_ \ {f} /\ calls' = t /\ ret' = code
  BY DEF Leave
<1>4. \A i \in 1 .. n : calls[i].file = f <=> i = n
  BY <1>1 DEF CInv, Once
<1> HIDE DEF t, f
<1>5. ConfTypes'
  <2>1. \A i \in 1 .. n : calls[i].file \in DOMAIN files
    BY DEF CInv, ConfTypes
  <2>2. \A i \in 1 .. n - 1 : t[i].file \in DOMAIN files
    BY <1>1, <1>2, <2>1
  <2> QED
    BY <1>2, <1>3, <2>2 DEF CInv, ConfTypes
<1>6. Once'
  <2>1. \A i, j \in 1 .. n : calls[i].file = calls[j].file => i = j
    BY DEF CInv, Once
  <2> HIDE DEF n
  <2>2. \A i, j \in 1 .. n - 1 : t[i].file = t[j].file => i = j
    BY <1>1, <1>2, <2>1
  <2> QED
    BY <1>2, <1>3, <2>2 DEF Once
<1>7. Marked'
  <2>1. \A i \in 1 .. n : calls[i].file \in _fname_set_
    BY DEF CInv, Marked
  <2>2. ~thrown => \A g \in _fname_set_ : \E i \in 1 .. n : calls[i].file = g
    BY DEF CInv, Marked
  <2> HIDE DEF n
  <2>3. \A i \in 1 .. n - 1 : t[i].file \in _fname_set_ \ {f}
    BY <1>1, <1>2, <1>4, <2>1
  <2>4. ASSUME ~thrown, NEW g \in _fname_set_ \ {f}
        PROVE  \E i \in 1 .. n - 1 : t[i].file = g
    <3>1. PICK i \in 1 .. n : calls[i].file = g
      BY <2>2, <2>4
    <3>2. i \in 1 .. n - 1
      BY <1>1, <1>4, <3>1
    <3> QED
      BY <1>2, <3>1, <3>2
  <2> QED
    BY <1>2, <1>3, <2>3, <2>4 DEF Marked
<1> QED
  BY <1>3, <1>5, <1>6, <1>7 DEF CInv, Named, Reported

LEMMA ReadOnKeeps ==
  ASSUME CInv, calls # <<>>, calls' = NextLine, ret' = Running, _fname_' = Call.file,
         _fname_set_' = _fname_set_, files' = files, thrown' = thrown, ~ failed'
  PROVE  CInv'
<1> DEFINE n == Len(calls)
           t == NextLine
<1>1. n \in Nat \ {0} /\ Call = calls[n]
  BY LastCall DEF CInv
<1>2. t \in Seq(Calls) /\ Len(t) = n /\ \A i \in 1 .. n : t[i].file = calls[i].file
  BY NextCalls DEF CInv
<1>3. calls' = t
  OBVIOUS
<1> HIDE DEF t
<1>4. ConfTypes' /\ Once' /\ Marked'
  BY <1>2, <1>3 DEF CInv, ConfTypes, Once, Marked, Running
<1>5. Call'.file = Call.file
  <2>1. Call' = t[n]
    BY <1>2, <1>3 DEF Call, Last
  <2> QED
    BY <1>1, <1>2, <2>1
<1> QED
  BY <1>4, <1>5 DEF CInv, Named, Reported

LEMMA FailKeeps ==
  ASSUME CInv, AtLine, NEW code \in Int, code < 0, Fail(code), files' = files, thrown' = thrown
  PROVE  CInv'
<1>1. calls # <<>> /\ ret = Running
  BY DEF AtLine
<1>2. _fname_' = Call.file /\ Leave(code)
  BY <1>1 DEF Fail, CInv, Named
<1> QED
  BY <1>1, <1>2, LeaveKeeps DEF Running

\* A line that is done: the next one.
LEMMA DoneKeeps ==
  ASSUME CInv, AtLine, calls' = NextLine,
         UNCHANGED <<_fname_, _fname_set_, ret, failed, files, thrown>>
  PROVE  CInv'
<1>1. calls # <<>> /\ ret = Running
  BY DEF AtLine
<1>2. ~ failed /\ _fname_ = Call.file
  BY <1>1 DEF CInv, Reported, Named, Running
<1> QED
  BY <1>1, <1>2, ReadOnKeeps

LEMMA StepKeeps ==
  ASSUME CInv, CNext
  PROVE  CInv'
<1>1. ASSUME NEW f \in Names, parse(f) PROVE CInv'
  <2>1. Enter(f) /\ files' = files /\ calls = <<>>
    BY <1>1 DEF parse
  <2> QED
    BY <2>1, EnterKeeps
<1>2. ASSUME EndOfFile PROVE CInv'
  <2>1. calls # <<>> /\ ret = Running /\ Leave(0) /\ _fname_' = _fname_
        /\ files' = files /\ thrown' = thrown /\ failed' = failed
    BY <1>2 DEF EndOfFile, history
  <2>2. _fname_' = Call.file /\ ~ failed'
    BY <2>1 DEF CInv, Named, Reported, Running
  <2> QED
    BY <2>1, <2>2, LeaveKeeps DEF Running
<1>3. ASSUME Skip PROVE CInv'
  BY <1>3, DoneKeeps DEF Skip, history
<1>4. ASSUME Include PROVE CInv'
  <2>1. AtLine /\ Line.is = "include" /\ Enter(Line.file) /\ files' = files
    BY <1>4 DEF Include
  <2>2. Line \in FileLines /\ ret = Running
    BY <2>1, LineRead DEF CInv
  <2>3. Line.file \in Names
    BY <2>1, <2>2 DEF FileLines
  <2>4. ~ failed
    BY <2>2 DEF CInv, Reported, Running
  <2> QED
    BY <2>1, <2>3, <2>4, EnterKeeps
<1>5. ASSUME Included PROVE CInv'
  <2>1. calls # <<>> /\ ret # Running /\ _fname_' = Call.file
        /\ files' = files /\ thrown' = thrown /\ failed' = failed
    BY <1>5 DEF Included, history
  <2>2. CASE ret < 0
    BY <1>5, <2>1, <2>2, LeaveKeeps DEF Included, Running
  <2>3. CASE ~ (ret < 0)
    <3>1. ~ failed'
      BY <2>1, <2>3 DEF CInv, Reported
    <3> QED
      BY <1>5, <2>1, <2>3, <3>1, ReadOnKeeps DEF Included
  <2> QED
    BY <2>2, <2>3
<1>6. ASSUME Section PROVE CInv'
  <2>1. AtLine /\ files' = files /\ thrown' = thrown
    BY <1>6 DEF Section, history
  <2>2. \/ Fail(-6) \/ Fail(-5)
        \/ calls' = NextLine /\ UNCHANGED <<_fname_, _fname_set_, ret, failed>>
    BY <1>6 DEF Section
  <2>3. /\ Fail(-6) => CInv'
        /\ Fail(-5) => CInv'
    BY <2>1, FailKeeps
  <2>4. calls' = NextLine /\ UNCHANGED <<_fname_, _fname_set_, ret, failed>> => CInv'
    BY <2>1, DoneKeeps
  <2> QED
    BY <2>2, <2>3, <2>4
<1>7. ASSUME Bad PROVE CInv'
  <2>1. AtLine /\ Line.is = "bad" /\ Fail(Line.code) /\ files' = files /\ thrown' = thrown
    BY <1>7 DEF Bad, history
  <2>2. Line \in FileLines
    BY <2>1, LineRead DEF CInv
  <2>3. Line \in [is : {"bad"}, code : {-2, -4, -6}]
    BY <2>1, <2>2 DEF FileLines
  <2>4. Line.code \in {-2, -4, -6}
    BY <2>3
  <2>5. Line.code \in Int /\ Line.code < 0
    BY <2>4
  <2> QED
    BY <2>1, <2>5, FailKeeps
<1>8. ASSUME Option PROVE CInv'
  <2>1. AtLine /\ files' = files /\ thrown' = thrown
    BY <1>8 DEF Option, history
  <2>2. \/ Fail(-7) \/ Fail(-8)
        \/ calls' = NextLine /\ UNCHANGED <<_fname_, _fname_set_, ret, failed>>
    BY <1>8 DEF Option
  <2>3. /\ Fail(-7) => CInv'
        /\ Fail(-8) => CInv'
    BY <2>1, FailKeeps
  <2>4. calls' = NextLine /\ UNCHANGED <<_fname_, _fname_set_, ret, failed>> => CInv'
    BY <2>1, DoneKeeps
  <2> QED
    BY <2>2, <2>3, <2>4
<1> QED
  BY <1>1, <1>2, <1>3, <1>4, <1>5, <1>6, <1>7, <1>8 DEF CNext

LEMMA StutterKeeps ==
  ASSUME CInv, UNCHANGED cvars
  PROVE  CInv'
BY DEF CInv, ConfTypes, Once, Marked, Named, Reported, Call, cvars

LEMMA InitKeeps ==
  ASSUME CInit
  PROVE  CInv
<1>1. <<>> \in Seq(Calls) /\ Len(<<>>) = 0
  OBVIOUS
<1>2. files \in Contents /\ calls = <<>> /\ ret = 0 /\ _fname_set_ = {} /\ failed = FALSE
  BY DEF CInit
<1>3. 1 .. Len(calls) = {}
  BY <1>1, <1>2
<1>4. ConfTypes
  BY <1>1, <1>2, <1>3 DEF ConfTypes
<1>5. Once /\ Marked
  BY <1>2, <1>3 DEF Once, Marked
<1>6. Named /\ Reported
  BY <1>2 DEF Named, Reported
<1> QED
  BY <1>4, <1>5, <1>6 DEF CInv

\* The invariant holds in every state, whatever is on disk and however often
\* the object parses.
THEOREM CInvHolds == CSpec => []CInv
<1>1. CInit => CInv
  BY InitKeeps
<1>2. CInv /\ [CNext]_cvars => CInv'
  BY StepKeeps, StutterKeeps
<1> QED
  BY <1>1, <1>2, PTL DEF CSpec

\* No file is parsed within itself, and unless an exception was thrown no file
\* is marked but those being parsed: the guard of each call erases its own
\* name although it names it through a member that nested calls change.
THEOREM FilesMarkedHolds == CSpec => []FilesMarked
<1>1. ASSUME CInv PROVE FilesMarked
  <2> DEFINE open == {calls[i].file : i \in DOMAIN calls}
             n == Len(calls)
             f == [i \in 1 .. n |-> calls[i].file]
  <2>1. n \in Nat /\ DOMAIN calls = 1 .. n
    BY <1>1, LenProperties DEF CInv, ConfTypes
  <2>2. f \in [1 .. n -> open]
    BY <2>1
  <2>3. \A i, j \in 1 .. n : f[i] = f[j] => i = j
    BY <1>1 DEF CInv, Once
  <2>4. \A x \in open : \E i \in 1 .. n : f[i] = x
    BY <2>1
  <2>5. /\ \A x \in open : x \in _fname_set_
        /\ ~thrown => \A x \in _fname_set_ : x \in open
    BY <1>1, <2>1 DEF CInv, Marked
  <2> HIDE DEF f, open
  <2>6. Cardinality(open) = n
    BY <2>1, <2>2, <2>3, <2>4, InjectiveCount
  <2> QED
    BY <2>5, <2>6 DEF FilesMarked, open
<1> QED
  BY <1>1, CInvHolds, PTL

\* An error in any line of any file, at whatever depth, is returned to the
\* program.
THEOREM FailureReportedHolds == CSpec => []FailureReported
<1>1. CInv => FailureReported
  BY DEF CInv, Reported, FailureReported
<1> QED
  BY <1>1, CInvHolds, PTL

-----------------------------------------------------------------------------
(* Options *)

\* What OptionsStay says of a step.
Kept ==
    \A sec \in DOMAIN _sec_map_ : \A opt \in DOMAIN _sec_map_[sec] :
        \/ /\ sec \in DOMAIN _sec_map_' /\ opt \in DOMAIN _sec_map_'[sec]
           /\ _sec_map_'[sec][opt] = _sec_map_[sec][opt]
        \/ sec = Global /\ AtLine /\ Line = [is |-> "section", sec |-> Global]

LEMMA SectionKept ==
  ASSUME ConfTypes, Section
  PROVE  Kept
<1>1. AtLine /\ Line.is = "section"
  BY DEF Section
<1>2. Line \in FileLines
  BY <1>1, LineRead
<1>3. Line \in [is : {"section"}, sec : STRING]
  BY <1>1, <1>2 DEF FileLines
<1>4. Line = [is |-> "section", sec |-> Line.sec]
  BY <1>3
<1> DEFINE new == Line.sec
<1>5. \/ _sec_map_' = _sec_map_
      \/ (new \notin DOMAIN _sec_map_ \/ new = Global \/ new = Nameless)
         /\ new # Nameless /\ _sec_map_' = Put(_sec_map_, new, <<>>)
  BY DEF Section
<1>6. CASE _sec_map_' = _sec_map_
  BY <1>6 DEF Kept
<1>7. CASE (new \notin DOMAIN _sec_map_ \/ new = Global) /\ _sec_map_' = Put(_sec_map_, new, <<>>)
  <2> SUFFICES ASSUME NEW sec \in DOMAIN _sec_map_, NEW opt \in DOMAIN _sec_map_[sec],
                      ~ (sec = Global /\ AtLine /\ Line = [is |-> "section", sec |-> Global])
               PROVE  /\ sec \in DOMAIN _sec_map_' /\ opt \in DOMAIN _sec_map_'[sec]
                      /\ _sec_map_'[sec][opt] = _sec_map_[sec][opt]
    BY DEF Kept
  <2>1. sec # new
    BY <1>1, <1>4, <1>7
  <2> HIDE DEF new
  <2>2. sec \in DOMAIN _sec_map_' /\ _sec_map_'[sec] = _sec_map_[sec]
    BY <1>7, <2>1 DEF Put
  <2> QED
    BY <2>2
<1> QED
  BY <1>5, <1>6, <1>7

LEMMA OptionKept ==
  ASSUME Option
  PROVE  Kept
<1> DEFINE old == OptionsOf(_sec_name_)
           o == Line.opt
<1>1. CASE _sec_map_' = _sec_map_
  BY <1>1 DEF Kept
<1>2. CASE _sec_map_' = Put(_sec_map_, _sec_name_, old)
  <2> SUFFICES ASSUME NEW sec \in DOMAIN _sec_map_
               PROVE  sec \in DOMAIN _sec_map_' /\ _sec_map_'[sec] = _sec_map_[sec]
    BY DEF Kept
  <2> QED
    BY <1>2 DEF Put, OptionsOf
<1>3. ASSUME o \notin DOMAIN old, NEW x,
             _sec_map_' = Put(_sec_map_, _sec_name_, Put(old, o, x))
      PROVE  Kept
  <2> SUFFICES ASSUME NEW sec \in DOMAIN _sec_map_, NEW opt \in DOMAIN _sec_map_[sec]
               PROVE  /\ sec \in DOMAIN _sec_map_' /\ opt \in DOMAIN _sec_map_'[sec]
                      /\ _sec_map_'[sec][opt] = _sec_map_[sec][opt]
    BY DEF Kept
  <2> DEFINE new == Put(old, o, x)
  <2>1. DOMAIN new = DOMAIN old \cup {o} /\ \A k \in DOMAIN old : k # o => new[k] = old[k]
    BY DEF Put
  <2>2. _sec_map_' = Put(_sec_map_, _sec_name_, new)
    BY <1>3
  <2> HIDE DEF new, o
  <2>3. sec \in DOMAIN _sec_map_' /\ _sec_map_'[sec] = IF sec = _sec_name_ THEN new ELSE _sec_map_[sec]
    BY <2>2 DEF Put
  <2>4. sec = _sec_name_ => old = _sec_map_[sec]
    BY DEF OptionsOf
  <2> HIDE DEF old
  <2> QED
    BY <1>3, <2>1, <2>3, <2>4
<1> QED
  BY <1>1, <1>2, <1>3 DEF Option

\* What was read stays as it was: no include, error, exception or later file
\* changes or removes an option, but a [global] line those of that section.
THEOREM OptionsStayHolds == CSpec => OptionsStay
<1>1. CInv /\ [CNext]_cvars => [Kept]_cvars
  <2> SUFFICES ASSUME CInv, CNext PROVE Kept
    OBVIOUS
  <2>1. ASSUME _sec_map_' = _sec_map_ PROVE Kept
    BY <2>1 DEF Kept
  <2>2. ASSUME NEW f \in Names, parse(f) PROVE Kept
    BY <2>1, <2>2 DEF parse, conf
  <2>3. ASSUME EndOfFile \/ Skip \/ Include \/ Included \/ Bad PROVE Kept
    BY <2>1, <2>3 DEF EndOfFile, Skip, Include, Included, Bad, conf
  <2> QED
    BY <2>2, <2>3, SectionKept, OptionKept DEF CNext, CInv
<1> QED
  BY <1>1, CInvHolds, PTL DEF CSpec, OptionsStay, Kept
=============================================================================
