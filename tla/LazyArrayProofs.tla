-------------------------- MODULE LazyArrayProofs --------------------------
(***************************************************************************)
(* Proofs about LazyArray: the reference counts, and that sharing of the   *)
(* blocks cannot be seen.                                                  *)
(***************************************************************************)
EXTENDS LazyArray, ProofLemmas

(* A count and the handles it counts *)

Counted(n, U) == IF n = Free THEN U = {} ELSE IsFiniteSet(U) /\ n = Cardinality(U)

LEMMA CountedNone == Counted(Free, {}) /\ Counted(0, {})
BY FS_EmptySet DEF Counted, Free

LEMMA CountedOne ==
  ASSUME NEW h
  PROVE  Counted(1, {h})
<1>1. IsFiniteSet({h}) /\ Cardinality({h}) = 1
  BY FS_Singleton
<1>2. 1 # Free
  BY DEF Free
<1> QED
  BY <1>1, <1>2 DEF Counted

LEMMA CountedAdd ==
  ASSUME NEW n \in Nat, NEW U, NEW h, h \notin U, Counted(n, U)
  PROVE  Counted(n + 1, U \cup {h})
BY FS_AddElement DEF Counted, Free

LEMMA CountedRemove ==
  ASSUME NEW n \in Nat \cup {Free}, NEW U, NEW h \in U, Counted(n, U)
  PROVE  n \in Nat \ {0} /\ Counted(n - 1, U \ {h})
<1>1. n # Free /\ IsFiniteSet(U) /\ n = Cardinality(U)
  BY DEF Counted
<1>2. IsFiniteSet(U \ {h}) /\ Cardinality(U \ {h}) = n - 1
  BY <1>1, FS_RemoveElement
<1>3. Cardinality(U \ {h}) \in Nat
  BY <1>2, FS_CardinalityType
<1> QED
  BY <1>1, <1>2, <1>3 DEF Counted, Free

\* The last one goes: nobody is left, and a deleted block may stand for it.
LEMMA CountedLast ==
  ASSUME NEW U, NEW h \in U, Counted(1, U)
  PROVE  U = {h} /\ Counted(Free, U \ {h})
<1>1. IsFiniteSet(U \ {h}) /\ Cardinality(U \ {h}) = 0
  BY FS_RemoveElement DEF Counted, Free
<1>2. U \ {h} = {}
  BY <1>1, FS_EmptySet
<1> QED
  BY <1>2 DEF Counted

LEMMA CountedSwap ==
  ASSUME NEW n \in Nat \cup {Free}, NEW U, NEW g \in U, NEW h, h \notin U, Counted(n, U)
  PROVE  Counted(n, (U \ {g}) \cup {h})
<1>1. n \in Nat \ {0} /\ Counted(n - 1, U \ {g})
  BY CountedRemove
<1>2. Counted(n - 1 + 1, (U \ {g}) \cup {h})
  BY <1>1, CountedAdd
<1> QED
  BY <1>1, <1>2

-----------------------------------------------------------------------------
(* The inductive invariant *)

BlockOK(b) ==
    /\ Counted(ref[b], Users(b))
    /\ ref[b] = Free => data[b] = <<>>

LAInv == TypeOK /\ \A b \in BlockIds : BlockOK(b)

\* What every step keeps: no block is left with a count of nought.
NoLeak == \A b \in BlockIds : ref'[b] = 0 => ref[b] = 0

\* A step that gives h the contents s and shows in no other handle.
OthersStay(h) == \A g \in Handles \ {h} : ValueOf(g)' = ValueOf(g)
Becomes(h, s) == LAInv' /\ NoLeak /\ Alive(h)' /\ ValueOf(h)' = s /\ OthersStay(h)

LEMMA FreshIsFree ==
  ASSUME FreeBlocks # {}
  PROVE  Fresh \in BlockIds /\ ref[Fresh] = Free
<1>1. FreeBlocks \subseteq Nat
  BY DEF FreeBlocks, BlockIds
<1>2. \E b \in FreeBlocks : \A c \in FreeBlocks : b <= c
  BY <1>1, LeastNumber
<1> QED
  BY <1>2 DEF Fresh, FreeBlocks

LEMMA Pointed ==
  ASSUME LAInv, NEW h \in Handles, Alive(h)
  PROVE  /\ rep[h] \in BlockIds /\ ref[rep[h]] \in Nat \ {0}
         /\ h \in Users(rep[h]) /\ Counted(ref[rep[h]], Users(rep[h]))
<1>1. rep[h] \in BlockIds /\ h \in Users(rep[h])
  BY DEF Alive, Users
<1>2. Counted(ref[rep[h]], Users(rep[h])) /\ ref[rep[h]] \in Nat \cup {Free}
  BY <1>1 DEF LAInv, BlockOK, TypeOK
<1> QED
  BY <1>1, <1>2, CountedRemove

\* A handle alone on its block: no other handle points there.
LEMMA Alone ==
  ASSUME LAInv, NEW h \in Handles, Alive(h), ref[rep[h]] = 1
  PROVE  Users(rep[h]) = {h} /\ Counted(Free, Users(rep[h]) \ {h})
BY Pointed, CountedLast

\* The handles of a block after h was pointed to x.
LEMMA Repointed ==
  ASSUME rep \in [Handles -> BlockIds \cup {Dead, Null}], NEW h \in Handles, NEW x,
         rep' = [rep EXCEPT ![h] = x], NEW b
  PROVE  Users(b)' = IF b = x THEN Users(b) \cup {h} ELSE Users(b) \ {h}
BY DEF Users

\* "new impl_t" for h, whose block was old.
LEMMA ReplaceBecomes ==
  ASSUME LAInv, LazyArrayAssumption, NEW h \in Handles, Alive(h),
         NEW c \in Nat, NEW s \in Seq(Values \cup {Raw}), Len(s) <= c,
         Replace(h, rep[h], c, s)
  PROVE  Becomes(h, s)
<1> DEFINE b == Fresh
           old == rep[h]
<1>1. b \in BlockIds /\ ref[b] = Free
  BY FreshIsFree DEF Replace
<1>2. rep' = [rep EXCEPT ![h] = b]
  BY DEF Replace
<1>3. old \in BlockIds /\ ref[old] \in Nat \ {0} /\ h \in Users(old)
      /\ Counted(ref[old], Users(old))
  BY Pointed
<1>4. b # old
  BY <1>1, <1>3 DEF Free
<1>5. Users(b) = {}
  BY <1>1 DEF LAInv, BlockOK, Counted
<1> DEFINE last == ref[old] = 1
<1>6. /\ ref' = [ref EXCEPT ![b] = 1, ![old] = IF last THEN Free ELSE ref[old] - 1]
      /\ cap' = IF last THEN [cap EXCEPT ![b] = c, ![old] = 0] ELSE [cap EXCEPT ![b] = c]
      /\ data' = IF last THEN [data EXCEPT ![b] = s, ![old] = <<>>]
                 ELSE [data EXCEPT ![b] = s]
  BY <1>1, <1>3, <1>4 DEF Replace, LAInv, TypeOK
<1> HIDE DEF b
<1>7. TypeOK'
  <2>1. rep' \in [Handles -> BlockIds \cup {Dead, Null}]
    BY <1>1, <1>2 DEF LAInv, TypeOK
  <2>2. cap' \in [BlockIds -> Nat]
    BY <1>1, <1>3, <1>6 DEF LAInv, TypeOK
  <2>3. data' \in [BlockIds -> Seq(Values \cup {Raw})]
    <3>1. <<>> \in Seq(Values \cup {Raw})
      OBVIOUS
    <3> QED
      BY <1>1, <1>3, <1>6, <3>1 DEF LAInv, TypeOK
  <2>4. ref' \in [BlockIds -> Nat \cup {Free}]
    <3>1. (IF last THEN Free ELSE ref[old] - 1) \in Nat \cup {Free}
      BY <1>3
    <3> QED
      BY <1>1, <1>3, <1>6, <3>1 DEF LAInv, TypeOK
  <2>5. \A x \in BlockIds : Size(x)' <= cap'[x]
    BY <1>1, <1>3, <1>4, <1>6 DEF LAInv, TypeOK, Size
  <2> QED
    BY <2>1, <2>2, <2>3, <2>4, <2>5 DEF TypeOK
<1>8. ASSUME NEW x \in BlockIds PROVE BlockOK(x)'
  <2>1. Users(x)' = IF x = b THEN Users(x) \cup {h} ELSE Users(x) \ {h}
    BY <1>2, Repointed DEF LAInv, TypeOK
  <2>2. CASE x = b
    <3>1. Counted(1, {h})
      BY CountedOne
    <3>4. 1 # Free
      BY DEF Free
    <3>2. Users(x)' = {h} /\ ref'[x] = 1
      BY <2>1, <2>2, <1>1, <1>4, <1>5, <1>6 DEF LAInv, TypeOK
    <3> QED
      BY <3>1, <3>2, <3>4 DEF BlockOK
  <2>3. CASE x = old
    <3>1. Counted(ref'[old], Users(old) \ {h})
      BY <1>3, <1>4, <1>6, CountedRemove, Alone DEF LAInv, TypeOK
    <3>2. ref'[old] = Free => data'[old] = <<>>
      BY <1>1, <1>3, <1>4, <1>6 DEF LAInv, TypeOK, Free
    <3> QED
      BY <1>4, <2>1, <2>3, <3>1, <3>2 DEF BlockOK
  <2>4. CASE x # b /\ x # old
    <3>1. h \notin Users(x)
      BY <2>4 DEF Users
    <3>2. Users(x)' = Users(x)
      BY <2>1, <2>4, <3>1
    <3>3. ref'[x] = ref[x] /\ data'[x] = data[x]
      BY <2>4, <1>6 DEF LAInv, TypeOK
    <3> QED
      BY <3>2, <3>3 DEF BlockOK, LAInv
  <2> QED
    BY <2>2, <2>3, <2>4
<1>9. NoLeak
  BY <1>1, <1>3, <1>4, <1>6 DEF NoLeak, LAInv, TypeOK, Free
<1>10. Alive(h)' /\ ValueOf(h)' = s
  BY <1>1, <1>2, <1>3, <1>4, <1>6 DEF Alive, ValueOf, LAInv, TypeOK
<1>11. OthersStay(h)
  <2> SUFFICES ASSUME NEW g \in Handles \ {h} PROVE ValueOf(g)' = ValueOf(g)
    BY DEF OthersStay
  <2>1. rep'[g] = rep[g]
    BY <1>2 DEF LAInv, TypeOK
  <2>2. ASSUME rep[g] \in BlockIds PROVE data'[rep[g]] = data[rep[g]]
    <3>1. rep[g] # b
      BY <1>5 DEF Users
    <3>2. last => rep[g] # old
      BY Alone DEF Users
    <3> QED
      BY <2>2, <3>1, <3>2, <1>1, <1>6 DEF LAInv, TypeOK
  <2> QED
    BY <2>1, <2>2 DEF ValueOf, Alive
<1> QED
  BY <1>7, <1>8, <1>9, <1>10, <1>11 DEF Becomes, LAInv

\* A change of the elements in the handle's own block, detached first.
LEMMA UpdateBecomes ==
  ASSUME LAInv, LazyArrayAssumption, NEW h \in Handles, Alive(h),
         NEW s \in Seq(Values \cup {Raw}), Len(s) <= cap[rep[h]], Update(h, s)
  PROVE  Becomes(h, s)
<1> DEFINE b == rep[h]
<1>1. b \in BlockIds /\ ref[b] \in Nat \ {0} /\ cap[b] \in Nat
  BY Pointed DEF LAInv, TypeOK
<1>2. CASE ref[b] # 1
  BY <1>1, <1>2, ReplaceBecomes DEF Update
<1>3. CASE ref[b] = 1
  <2>1. data' = [data EXCEPT ![b] = s] /\ rep' = rep /\ cap' = cap /\ ref' = ref
    BY <1>3 DEF Update
  <2>2. TypeOK'
    BY <1>1, <2>1 DEF LAInv, TypeOK, Size
  <2>3. ASSUME NEW x \in BlockIds PROVE BlockOK(x)'
    BY <1>1, <2>1 DEF LAInv, BlockOK, Users, Free, TypeOK
  <2>4. NoLeak
    BY <2>1 DEF NoLeak
  <2>5. Alive(h)' /\ ValueOf(h)' = s
    BY <1>1, <2>1 DEF Alive, ValueOf, LAInv, TypeOK
  <2>6. OthersStay(h)
    <3>1. \A g \in Handles \ {h} : rep[g] # b
      BY <1>3, Alone DEF Users
    <3> QED
      BY <1>1, <2>1, <3>1 DEF OthersStay, ValueOf, Alive, LAInv, TypeOK
  <2> QED
    BY <2>2, <2>3, <2>4, <2>5, <2>6 DEF Becomes, LAInv
<1> QED
  BY <1>2, <1>3

\* A change in a block with room for n.
LEMMA RoomBecomes ==
  ASSUME LAInv, LazyArrayAssumption, NEW h \in Handles, Alive(h), NEW n \in Nat,
         NEW s \in Seq(Values \cup {Raw}), Len(s) <= n, UpdateRoom(h, n, s)
  PROVE  Becomes(h, s)
<1>1. Len(s) \in Nat /\ cap[rep[h]] \in Nat
  BY Pointed, LenProperties DEF LAInv, TypeOK
<1>2. CASE n > cap[rep[h]]
  <2>1. next_pow2(n) \in Nat /\ Len(s) <= next_pow2(n)
    BY <1>1, NextPow2Above
  <2> QED
    BY <1>2, <2>1, ReplaceBecomes DEF UpdateRoom
<1>3. CASE ~ (n > cap[rep[h]])
  BY <1>1, <1>3, UpdateBecomes DEF UpdateRoom
<1> QED
  BY <1>2, <1>3

-----------------------------------------------------------------------------
(* Constructors, assignment, destructor *)

\* What dropping the reference h has to the block old leaves of the blocks.
Dropped(h, old) ==
    /\ cap' \in [BlockIds -> Nat]
    /\ data' \in [BlockIds -> Seq(Values \cup {Raw})]
    /\ ref' \in [BlockIds -> Nat \cup {Free}]
    /\ \A x \in BlockIds : Size(x)' <= cap'[x]
    /\ \A x \in BlockIds \ {old} : ref'[x] = ref[x] /\ data'[x] = data[x]
    /\ Counted(ref'[old], Users(old) \ {h}) /\ ref'[old] # 0
    /\ ref'[old] = Free => data'[old] = <<>>
    /\ data'[old] = data[old] \/ Users(old) = {h}

LEMMA DropDropped ==
  ASSUME LAInv, NEW h \in Handles, Alive(h), Drop(rep[h])
  PROVE  Dropped(h, rep[h])
<1> DEFINE old == rep[h]
<1>1. old \in BlockIds /\ ref[old] \in Nat \ {0} /\ h \in Users(old)
      /\ Counted(ref[old], Users(old))
  BY Pointed
<1>2. CASE ref[old] = 1
  <2>1. /\ ref' = [ref EXCEPT ![old] = Free]
        /\ cap' = [cap EXCEPT ![old] = 0]
        /\ data' = [data EXCEPT ![old] = <<>>]
    BY <1>2 DEF Drop
  <2>2. Users(old) = {h} /\ Counted(Free, Users(old) \ {h})
    BY <1>2, Alone
  <2>3. <<>> \in Seq(Values \cup {Raw}) /\ Len(<<>>) = 0
    OBVIOUS
  <2> QED
    BY <1>1, <2>1, <2>2, <2>3 DEF Dropped, LAInv, TypeOK, Size, Free
<1>3. CASE ref[old] # 1
  <2>1. ref' = [ref EXCEPT ![old] = ref[old] - 1] /\ cap' = cap /\ data' = data
    BY <1>1, <1>3 DEF Drop, LAInv, TypeOK
  <2>2. Counted(ref[old] - 1, Users(old) \ {h})
    BY <1>1, CountedRemove
  <2>3. ref[old] - 1 \in Nat \ {0}
    BY <1>1, <1>3
  <2> QED
    BY <1>1, <2>1, <2>2, <2>3 DEF Dropped, LAInv, TypeOK, Size, Free
<1> QED
  BY <1>2, <1>3

\* A step that leaves h with the value s, whatever it is, and shows in no
\* other handle.
Holds(h, s) == LAInv' /\ NoLeak /\ ValueOf(h)' = s /\ OthersStay(h)

LEMMA NewHolds ==
  ASSUME LAInv, LazyArrayAssumption, NEW h \in Handles, NEW n \in Nat, New(h, n)
  PROVE  ValueOf(h) = Dead /\ Holds(h, <<>>)
<1> DEFINE b == Fresh
<1>1. b \in BlockIds /\ ref[b] = Free
  BY FreshIsFree DEF New
<1>2. rep[h] = Dead /\ rep' = [rep EXCEPT ![h] = b] /\ ref' = [ref EXCEPT ![b] = 1]
      /\ cap' = [cap EXCEPT ![b] = next_pow2(n)] /\ data' = data
  BY DEF New
<1>3. Users(b) = {} /\ data[b] = <<>>
  BY <1>1 DEF LAInv, BlockOK, Counted
<1>4. Dead \notin BlockIds
  BY DEF LazyArrayAssumption, BlockIds
<1> HIDE DEF b
<1>5. next_pow2(n) \in Nat
  BY NextPow2Above
<1>6. TypeOK'
  <2>1. Len(<<>>) = 0
    OBVIOUS
  <2> QED
    BY <1>1, <1>2, <1>3, <1>5, <2>1 DEF LAInv, TypeOK, Size
<1>7. ASSUME NEW x \in BlockIds PROVE BlockOK(x)'
  <2>1. Users(x)' = IF x = b THEN Users(x) \cup {h} ELSE Users(x) \ {h}
    BY <1>2, Repointed DEF LAInv, TypeOK
  <2>2. CASE x = b
    <3>1. Counted(1, {h})
      BY CountedOne
    <3>4. 1 # Free
      BY DEF Free
    <3>2. Users(x)' = {h} /\ ref'[x] = 1
      BY <1>1, <1>2, <1>3, <2>1, <2>2 DEF LAInv, TypeOK
    <3> QED
      BY <3>1, <3>2, <3>4 DEF BlockOK
  <2>3. CASE x # b
    <3>1. h \notin Users(x)
      BY <1>2, <1>4 DEF Users
    <3>2. Users(x)' = Users(x) /\ ref'[x] = ref[x] /\ data'[x] = data[x]
      BY <1>2, <2>1, <2>3, <3>1 DEF LAInv, TypeOK
    <3> QED
      BY <3>2 DEF BlockOK, LAInv
  <2> QED
    BY <2>2, <2>3
<1>8. NoLeak
  BY <1>1, <1>2 DEF NoLeak, LAInv, TypeOK
<1>9. ValueOf(h) = Dead /\ ValueOf(h)' = <<>>
  BY <1>1, <1>2, <1>3, <1>4 DEF ValueOf, Alive, LAInv, TypeOK
<1>10. OthersStay(h)
  BY <1>2 DEF OthersStay, ValueOf, Alive, LAInv, TypeOK
<1> QED
  BY <1>6, <1>7, <1>8, <1>9, <1>10 DEF Holds, LAInv

LEMMA DestroyHolds ==
  ASSUME LAInv, LazyArrayAssumption, NEW h \in Handles, Destroy(h)
  PROVE  ValueOf(h) # Dead /\ Holds(h, Dead)
<1>1. rep[h] # Dead /\ rep' = [rep EXCEPT ![h] = Dead]
  BY DEF Destroy
<1>2. Dead \notin BlockIds /\ Dead \notin Seq(Values \cup {Raw})
  BY DEF LazyArrayAssumption, BlockIds
<1>3. ValueOf(h) # Dead /\ ValueOf(h)' = Dead
  BY <1>1, <1>2 DEF ValueOf, Alive, LAInv, TypeOK
<1>4. rep' \in [Handles -> BlockIds \cup {Dead, Null}]
  BY <1>1 DEF LAInv, TypeOK
<1>5. \A x \in BlockIds : Users(x)' = Users(x) \ {h}
  BY <1>1, <1>2, Repointed DEF LAInv, TypeOK
<1>6. CASE ~ Alive(h)
  <2>1. UNCHANGED <<cap, data, ref>>
    BY <1>6 DEF Destroy
  <2>2. \A x \in BlockIds : h \notin Users(x)
    BY <1>6 DEF Users, Alive
  <2>3. \A x \in BlockIds : Users(x)' = Users(x)
    BY <1>5, <2>2
  <2>4. LAInv'
    BY <1>4, <2>1, <2>3 DEF LAInv, BlockOK, TypeOK, Size
  <2>5. NoLeak /\ OthersStay(h)
    BY <1>1, <2>1 DEF NoLeak, OthersStay, ValueOf, Alive, LAInv, TypeOK
  <2> QED
    BY <1>3, <2>4, <2>5 DEF Holds
<1>7. CASE Alive(h)
  <2>1. Dropped(h, rep[h]) /\ rep[h] \in BlockIds
    BY <1>7, DropDropped, Pointed DEF Destroy
  <2>2. ASSUME NEW x \in BlockIds PROVE BlockOK(x)'
    <3>1. CASE x = rep[h]
      BY <1>5, <2>1, <3>1 DEF Dropped, BlockOK
    <3>2. CASE x # rep[h]
      <4>1. Users(x)' = Users(x)
        BY <1>5, <3>2 DEF Users
      <4>2. ref'[x] = ref[x] /\ data'[x] = data[x]
        BY <2>1, <3>2 DEF Dropped
      <4> QED
        BY <4>1, <4>2 DEF BlockOK, LAInv
    <3> QED
      BY <3>1, <3>2
  <2>3. TypeOK'
    BY <1>4, <2>1 DEF Dropped, TypeOK
  <2>4. NoLeak
    BY <2>1 DEF NoLeak, Dropped
  <2>5. OthersStay(h)
    BY <1>1, <2>1 DEF OthersStay, ValueOf, Alive, LAInv, TypeOK, Dropped, Users
  <2> QED
    BY <1>3, <2>2, <2>3, <2>4, <2>5 DEF Holds, LAInv
<1> QED
  BY <1>6, <1>7

LEMMA CopyCtorHolds ==
  ASSUME LAInv, LazyArrayAssumption, NEW h \in Handles, NEW g \in Handles, CopyCtor(h, g)
  PROVE  ValueOf(g) # Dead /\ Holds(h, ValueOf(g))
<1>1. rep[h] = Dead /\ rep[g] # Dead /\ rep' = [rep EXCEPT ![h] = rep[g]]
      /\ cap' = cap /\ data' = data
  BY DEF CopyCtor
<1>2. Dead \notin BlockIds /\ Dead \notin Seq(Values \cup {Raw})
  BY DEF LazyArrayAssumption, BlockIds
<1>3. ValueOf(g) # Dead /\ ValueOf(h)' = ValueOf(g) /\ OthersStay(h)
  BY <1>1, <1>2 DEF ValueOf, Alive, OthersStay, LAInv, TypeOK
<1>4. rep' \in [Handles -> BlockIds \cup {Dead, Null}]
  BY <1>1 DEF LAInv, TypeOK
<1>5. \A x \in BlockIds : h \notin Users(x)
  BY <1>1, <1>2 DEF Users
<1>6. \A x \in BlockIds : Users(x)' = IF x = rep[g] THEN Users(x) \cup {h} ELSE Users(x)
  <2> TAKE x \in BlockIds
  <2>1. Users(x)' = IF x = rep[g] THEN Users(x) \cup {h} ELSE Users(x) \ {h}
    BY <1>1, Repointed DEF LAInv, TypeOK
  <2> QED
    BY <1>5, <2>1
<1>7. CASE ~ Alive(g)
  <2>1. ref' = ref
    BY <1>7 DEF CopyCtor
  <2>2. \A x \in BlockIds : Users(x)' = Users(x)
    BY <1>6, <1>7 DEF Alive
  <2>3. LAInv'
    BY <1>1, <1>4, <2>1, <2>2 DEF LAInv, BlockOK, TypeOK, Size
  <2> QED
    BY <1>3, <2>1, <2>3 DEF Holds, NoLeak
<1>8. CASE Alive(g)
  <2> DEFINE b == rep[g]
  <2>1. b \in BlockIds /\ ref[b] \in Nat \ {0} /\ Counted(ref[b], Users(b))
    BY <1>8, Pointed
  <2>2. ref' = [ref EXCEPT ![b] = ref[b] + 1]
    BY <1>8, <2>1 DEF CopyCtor, LAInv, TypeOK
  <2>3. Counted(ref[b] + 1, Users(b) \cup {h})
    BY <1>5, <2>1, CountedAdd
  <2> HIDE DEF b
  <2>4. \A x \in BlockIds : BlockOK(x)'
    <3> TAKE x \in BlockIds
    <3>1. CASE x = b
      <4>1. Users(x)' = Users(b) \cup {h} /\ ref'[x] = ref[b] + 1 /\ ref[b] + 1 # Free
        BY <1>6, <2>1, <2>2, <3>1 DEF LAInv, TypeOK, Free, b
      <4> QED
        BY <2>3, <3>1, <4>1 DEF BlockOK
    <3>2. CASE x # b
      <4>1. Users(x)' = Users(x) /\ ref'[x] = ref[x] /\ data'[x] = data[x]
        BY <1>1, <1>6, <2>1, <2>2, <3>2 DEF LAInv, TypeOK, b
      <4> QED
        BY <4>1 DEF BlockOK, LAInv
    <3> QED
      BY <3>1, <3>2
  <2>5. TypeOK'
    BY <1>1, <1>4, <2>1, <2>2 DEF LAInv, TypeOK, Size
  <2>6. NoLeak
    BY <2>1, <2>2 DEF NoLeak, LAInv, TypeOK
  <2> QED
    BY <1>3, <2>4, <2>5, <2>6 DEF Holds, LAInv
<1> QED
  BY <1>7, <1>8

LEMMA CopyAssignHolds ==
  ASSUME LAInv, LazyArrayAssumption, NEW h \in Handles, NEW g \in Handles, CopyAssign(h, g)
  PROVE  ValueOf(g) # Dead /\ Holds(h, ValueOf(g))
<1> DEFINE b == rep[g]
           old == rep[h]
           last == old \in BlockIds /\ ref[old] = 1
<1>1. old # Dead /\ Alive(g) /\ b # old /\ rep' = [rep EXCEPT ![h] = b]
  BY DEF CopyAssign
<1>2. b \in BlockIds /\ ref[b] \in Nat \ {0} /\ Counted(ref[b], Users(b))
  BY <1>1, Pointed
<1>3. old \in BlockIds => /\ ref[old] \in Nat \ {0} /\ h \in Users(old)
                          /\ Counted(ref[old], Users(old))
  BY Pointed DEF Alive
<1>4. last => Users(old) = {h} /\ Counted(Free, Users(old) \ {h})
  BY Alone DEF Alive
<1>5. /\ ref'[b] = ref[b] + 1
      /\ old \in BlockIds => ref'[old] = IF last THEN Free ELSE ref[old] - 1
      /\ \A x \in BlockIds \ {b, old} : ref'[x] = ref[x]
      /\ \A x \in BlockIds : x # old \/ ~ last => data'[x] = data[x]
      /\ last => data'[old] = <<>>
  <2>1. CASE last
    <3>1. /\ ref' = [ref EXCEPT ![old] = Free, ![b] = ref[b] + 1]
          /\ data' = [data EXCEPT ![old] = <<>>]
      BY <1>1, <1>2, <2>1 DEF CopyAssign, LAInv, TypeOK
    <3> QED
      BY <1>1, <1>2, <2>1, <3>1 DEF LAInv, TypeOK
  <2>2. CASE ~ last
    <3>1. /\ ref' = [x \in BlockIds |-> IF x = old THEN ref[x] - 1
                                        ELSE IF x = b THEN ref[x] + 1 ELSE ref[x]]
          /\ data' = data
      BY <2>2 DEF CopyAssign
    <3> QED
      BY <1>1, <1>2, <2>2, <3>1 DEF LAInv, TypeOK
  <2> QED
    BY <2>1, <2>2
<1>6. TypeOK'
  <2>1. rep' \in [Handles -> BlockIds \cup {Dead, Null}]
    BY <1>1 DEF LAInv, TypeOK
  <2>2. <<>> \in Seq(Values \cup {Raw}) /\ Len(<<>>) = 0
    OBVIOUS
  <2>3. CASE last
    <3>1. /\ ref' = [ref EXCEPT ![old] = Free, ![b] = ref[b] + 1]
          /\ cap' = [cap EXCEPT ![old] = 0]
          /\ data' = [data EXCEPT ![old] = <<>>]
      BY <1>1, <1>2, <2>3 DEF CopyAssign, LAInv, TypeOK
    <3>2. ref' \in [BlockIds -> Nat \cup {Free}] /\ cap' \in [BlockIds -> Nat]
      <4>1. ref[b] + 1 \in Nat /\ ref \in [BlockIds -> Nat \cup {Free}] /\ cap \in [BlockIds -> Nat]
        BY <1>2 DEF LAInv, TypeOK
      <4> QED
        BY <3>1, <4>1
    <3>3. data' \in [BlockIds -> Seq(Values \cup {Raw})]
      BY <2>2, <3>1 DEF LAInv, TypeOK
    <3>4. \A x \in BlockIds : Size(x)' <= cap'[x]
      BY <2>2, <2>3, <3>1 DEF LAInv, TypeOK, Size
    <3> QED
      BY <2>1, <3>2, <3>3, <3>4 DEF TypeOK
  <2>4. CASE ~ last
    <3>1. /\ ref' = [x \in BlockIds |-> IF x = old THEN ref[x] - 1
                                        ELSE IF x = b THEN ref[x] + 1 ELSE ref[x]]
          /\ UNCHANGED <<cap, data>>
      BY <2>4 DEF CopyAssign
    <3>2. ref' \in [BlockIds -> Nat \cup {Free}]
      BY <1>2, <1>3, <3>1 DEF LAInv, TypeOK
    <3> QED
      BY <2>1, <3>1, <3>2 DEF LAInv, TypeOK, Size
  <2> QED
    BY <2>3, <2>4
<1>7. ASSUME NEW x \in BlockIds PROVE BlockOK(x)'
  <2>1. Users(x)' = IF x = b THEN Users(x) \cup {h} ELSE Users(x) \ {h}
    BY <1>1, Repointed DEF LAInv, TypeOK
  <2>2. CASE x = b
    <3>1. h \notin Users(x)
      BY <1>1, <2>2 DEF Users
    <3>2. Counted(ref[x] + 1, Users(x) \cup {h})
      BY <1>2, <2>2, <3>1, CountedAdd
    <3>3. ref'[x] = ref[x] + 1 /\ ref'[x] # Free
      BY <1>2, <1>5, <2>2 DEF Free
    <3> QED
      BY <2>1, <2>2, <3>2, <3>3 DEF BlockOK
  <2>3. CASE x = old
    <3>1. Users(x)' = Users(x) \ {h}
      BY <1>1, <2>1, <2>3
    <3>2. CASE last
      BY <1>4, <1>5, <2>3, <3>1, <3>2 DEF BlockOK
    <3>3. CASE ~ last
      <4>1. Counted(ref[x] - 1, Users(x) \ {h})
        BY <1>3, <2>3, CountedRemove
      <4>2. ref'[x] = ref[x] - 1 /\ ref'[x] # Free
        BY <1>3, <1>5, <2>3, <3>3 DEF Free
      <4> QED
        BY <3>1, <4>1, <4>2 DEF BlockOK
    <3> QED
      BY <3>2, <3>3
  <2>4. CASE x # b /\ x # old
    <3>1. Users(x)' = Users(x)
      BY <2>1, <2>4 DEF Users
    <3>2. ref'[x] = ref[x] /\ data'[x] = data[x]
      BY <1>5, <2>4
    <3> QED
      BY <3>1, <3>2 DEF BlockOK, LAInv
  <2> QED
    BY <2>2, <2>3, <2>4
<1>8. NoLeak
  <2> SUFFICES ASSUME NEW x \in BlockIds, ref'[x] = 0 PROVE ref[x] = 0
    BY DEF NoLeak
  <2>1. x # b
    BY <1>2, <1>5
  <2>2. x # old
    BY <1>3, <1>5 DEF Free
  <2> QED
    BY <1>5, <2>1, <2>2
<1>9. Dead \notin Seq(Values \cup {Raw})
  BY DEF LazyArrayAssumption
<1>10. rep'[h] = b /\ \A y \in Handles \ {h} : rep'[y] = rep[y]
  BY <1>1 DEF LAInv, TypeOK
<1>11. ValueOf(g) # Dead /\ ValueOf(h)' = ValueOf(g)
  BY <1>1, <1>2, <1>5, <1>9, <1>10 DEF ValueOf, Alive, LAInv, TypeOK
<1>12. OthersStay(h)
  <2> SUFFICES ASSUME NEW y \in Handles \ {h} PROVE ValueOf(y)' = ValueOf(y)
    BY DEF OthersStay
  <2>1. last => rep[y] # old
    BY <1>4 DEF Users
  <2> QED
    BY <1>5, <1>10, <2>1 DEF ValueOf, Alive
<1> QED
  BY <1>6, <1>7, <1>8, <1>11, <1>12 DEF Holds, LAInv

\* A step that gives h the value of g and leaves g without one.
Moved(h, g) ==
    /\ LAInv'
    /\ h # g => NoLeak /\ ValueOf(h)' = ValueOf(g)
    /\ ValueOf(g)' = Null
    /\ \A y \in Handles \ {h, g} : ValueOf(y)' = ValueOf(y)

LEMMA MoveCtorMoves ==
  ASSUME LAInv, LazyArrayAssumption, NEW h \in Handles, NEW g \in Handles, MoveCtor(h, g)
  PROVE  ValueOf(g) # Dead /\ Moved(h, g)
<1>1. rep[h] = Dead /\ rep[g] # Dead /\ rep' = [rep EXCEPT ![h] = rep[g], ![g] = Null]
      /\ cap' = cap /\ data' = data /\ ref' = ref
  BY DEF MoveCtor
<1>2. {Dead, Null} \cap BlockIds = {} /\ Dead \notin Seq(Values \cup {Raw})
  BY DEF LazyArrayAssumption, BlockIds
<1>3. TypeOK'
  BY <1>1 DEF LAInv, TypeOK, Size
<1>4. ASSUME NEW x \in BlockIds PROVE BlockOK(x)'
  <2>1. h \notin Users(x)
    BY <1>1, <1>2 DEF Users
  <2>2. CASE x = rep[g]
    <3>1. g \in Users(x)
      BY <2>2 DEF Users
    <3>2. Users(x)' = (Users(x) \ {g}) \cup {h}
      BY <1>1, <1>2, <2>2 DEF Users, LAInv, TypeOK
    <3>3. Counted(ref[x], Users(x)) /\ ref[x] \in Nat \cup {Free}
      BY DEF LAInv, BlockOK, TypeOK
    <3>4. Counted(ref[x], (Users(x) \ {g}) \cup {h})
      BY <2>1, <3>1, <3>3, CountedSwap
    <3> QED
      BY <1>1, <3>2, <3>4 DEF BlockOK, LAInv
  <2>3. CASE x # rep[g]
    <3>1. Users(x)' = Users(x)
      BY <1>1, <1>2, <2>1, <2>3 DEF Users, LAInv, TypeOK
    <3> QED
      BY <1>1, <3>1 DEF BlockOK, LAInv
  <2> QED
    BY <2>2, <2>3
<1>5. rep'[g] = Null /\ rep'[h] = rep[g] /\ \A y \in Handles \ {h, g} : rep'[y] = rep[y]
  BY <1>1 DEF LAInv, TypeOK
<1>6. /\ ValueOf(g) # Dead /\ ValueOf(g)' = Null /\ ValueOf(h)' = ValueOf(g)
      /\ \A y \in Handles \ {h, g} : ValueOf(y)' = ValueOf(y)
  BY <1>1, <1>2, <1>5 DEF ValueOf, Alive, LAInv, TypeOK
<1> QED
  BY <1>1, <1>3, <1>4, <1>6 DEF Moved, LAInv, NoLeak

LEMMA MoveAssignMoves ==
  ASSUME LAInv, LazyArrayAssumption, NEW h \in Handles, NEW g \in Handles, MoveAssign(h, g)
  PROVE  ValueOf(g) # Dead /\ Moved(h, g)
<1> DEFINE old == rep[h]
<1>1. old # Dead /\ rep[g] # Dead /\ rep[g] # old
      /\ rep' = [rep EXCEPT ![h] = rep[g], ![g] = Null]
  BY DEF MoveAssign
<1>2. {Dead, Null} \cap BlockIds = {} /\ Dead \notin Seq(Values \cup {Raw})
  BY DEF LazyArrayAssumption, BlockIds
<1>3. IF Alive(h) THEN Dropped(h, old) ELSE UNCHANGED <<cap, data, ref>>
  BY DropDropped DEF MoveAssign
<1>4. TypeOK'
  <2>1. rep' \in [Handles -> BlockIds \cup {Dead, Null}]
    BY <1>1 DEF LAInv, TypeOK
  <2>2. CASE Alive(h)
    BY <1>3, <2>1, <2>2 DEF Dropped, TypeOK
  <2>3. CASE ~ Alive(h)
    BY <1>3, <2>1, <2>3 DEF LAInv, TypeOK, Size
  <2> QED
    BY <2>2, <2>3
<1>5. rep'[g] = Null /\ rep'[h] = rep[g] /\ \A y \in Handles \ {h, g} : rep'[y] = rep[y]
  BY <1>1 DEF LAInv, TypeOK
<1>6. \A x \in BlockIds : x # old => ref'[x] = ref[x] /\ data'[x] = data[x]
  BY <1>3 DEF Dropped
<1>7. ASSUME NEW x \in BlockIds PROVE BlockOK(x)'
  <2>1. CASE x = old
    <3>1. Users(x)' = Users(x) \ {h}
      BY <1>1, <1>2, <1>5, <2>1 DEF Users
    <3>2. Dropped(h, x)
      BY <1>3, <2>1 DEF Alive
    <3> QED
      BY <3>1, <3>2 DEF Dropped, BlockOK
  <2>2. CASE x = rep[g]
    <3>1. g \in Users(x) /\ h \notin Users(x)
      BY <1>1, <2>2 DEF Users
    <3>2. Users(x)' = (Users(x) \ {g}) \cup {h}
      BY <1>1, <1>2, <1>5, <2>2 DEF Users
    <3>3. Counted(ref[x], Users(x)) /\ ref[x] \in Nat \cup {Free}
      BY DEF LAInv, BlockOK, TypeOK
    <3>4. Counted(ref[x], (Users(x) \ {g}) \cup {h})
      BY <3>1, <3>3, CountedSwap
    <3>5. ref'[x] = ref[x] /\ data'[x] = data[x]
      BY <1>1, <1>6, <2>2
    <3> QED
      BY <3>2, <3>4, <3>5 DEF BlockOK, LAInv
  <2>3. CASE x # old /\ x # rep[g]
    <3>1. Users(x)' = Users(x)
      BY <1>2, <1>5, <2>3 DEF Users
    <3> QED
      BY <1>6, <2>3, <3>1 DEF BlockOK, LAInv
  <2> QED
    BY <2>1, <2>2, <2>3
<1>8. NoLeak
  BY <1>3 DEF NoLeak, Dropped
<1>9. /\ ValueOf(g) # Dead /\ ValueOf(g)' = Null /\ ValueOf(h)' = ValueOf(g)
  BY <1>1, <1>2, <1>5, <1>6 DEF ValueOf, Alive, LAInv, TypeOK
<1>10. ASSUME NEW y \in Handles \ {h, g} PROVE ValueOf(y)' = ValueOf(y)
  <2>1. rep[y] \in BlockIds => data'[rep[y]] = data[rep[y]]
    <3>1. CASE Alive(h)
      BY <1>3, <1>6, <3>1 DEF Dropped, Users
    <3>2. CASE ~ Alive(h)
      BY <1>3, <3>2
    <3> QED
      BY <3>1, <3>2
  <2> QED
    BY <1>5, <2>1 DEF ValueOf, Alive
<1> QED
  BY <1>4, <1>7, <1>8, <1>9, <1>10 DEF Moved, LAInv

LEMMA MoveAssignSameMoves ==
  ASSUME LAInv, LazyArrayAssumption, NEW h \in Handles, NEW g \in Handles,
         MoveAssignSame(h, g)
  PROVE  ValueOf(g) # Dead /\ Moved(h, g)
<1> DEFINE b == rep[h]
<1>1. b # Dead /\ rep[g] = b /\ rep' = [rep EXCEPT ![g] = Null] /\ cap' = cap /\ data' = data
  BY DEF MoveAssignSame
<1>2. {Dead, Null} \cap BlockIds = {} /\ Dead \notin Seq(Values \cup {Raw})
  BY DEF LazyArrayAssumption, BlockIds
<1>3. rep' \in [Handles -> BlockIds \cup {Dead, Null}]
  BY <1>1 DEF LAInv, TypeOK
<1>4. rep'[g] = Null /\ \A y \in Handles \ {g} : rep'[y] = rep[y]
  BY <1>1 DEF LAInv, TypeOK
<1>5. /\ ValueOf(g) # Dead /\ ValueOf(g)' = Null
      /\ \A y \in Handles \ {g} : ValueOf(y)' = ValueOf(y)
      /\ h # g => ValueOf(h)' = ValueOf(g)
  BY <1>1, <1>2, <1>4 DEF ValueOf, Alive, LAInv, TypeOK
<1>6. \A x \in BlockIds : Users(x)' = Users(x) \ {g}
  BY <1>2, <1>4 DEF Users
<1>7. CASE ~ Alive(h)
  <2>1. ref' = ref
    BY <1>7 DEF MoveAssignSame
  <2>2. \A x \in BlockIds : Users(x)' = Users(x)
    BY <1>1, <1>6, <1>7 DEF Users, Alive
  <2>3. LAInv'
    BY <1>1, <1>3, <2>1, <2>2 DEF LAInv, BlockOK, TypeOK, Size
  <2> QED
    BY <1>5, <2>1, <2>3 DEF Moved, NoLeak
<1>8. CASE Alive(h)
  <2>1. b \in BlockIds /\ ref[b] \in Nat \ {0} /\ Counted(ref[b], Users(b))
    BY <1>8, Pointed
  <2>2. ref' = [ref EXCEPT ![b] = ref[b] - 1]
    BY <1>8, <2>1 DEF MoveAssignSame, LAInv, TypeOK
  <2>3. g \in Users(b) /\ h \in Users(b)
    BY <1>1 DEF Users
  <2>4. Counted(ref[b] - 1, Users(b) \ {g})
    BY <2>1, <2>3, CountedRemove
  <2>5. TypeOK'
    BY <1>1, <1>3, <2>1, <2>2 DEF LAInv, TypeOK, Size
  <2>6. ASSUME NEW x \in BlockIds PROVE BlockOK(x)'
    <3>1. CASE x = b
      <4>1. ref'[x] = ref[x] - 1 /\ ref'[x] # Free
        BY <2>1, <2>2, <3>1 DEF LAInv, TypeOK, Free
      <4>2. Users(x)' = Users(x) \ {g}
        BY <1>6
      <4> QED
        BY <2>4, <3>1, <4>1, <4>2 DEF BlockOK
    <3>2. CASE x # b
      <4>1. Users(x)' = Users(x)
        BY <1>1, <1>6, <3>2 DEF Users
      <4>2. ref'[x] = ref[x] /\ data'[x] = data[x]
        BY <1>1, <2>2, <3>2 DEF LAInv, TypeOK
      <4> QED
        BY <4>1, <4>2 DEF BlockOK, LAInv
    <3> QED
      BY <3>1, <3>2
  <2>7. h # g => NoLeak
    <3> SUFFICES ASSUME h # g, ref'[b] = 0 PROVE FALSE
      BY <2>1, <2>2 DEF NoLeak, LAInv, TypeOK
    <3>1. ref[b] = 1
      BY <2>1, <2>2 DEF LAInv, TypeOK
    <3> QED
      BY <1>8, <2>3, <3>1, Alone, ZenonT(60)
  <2> QED
    BY <1>5, <2>5, <2>6, <2>7 DEF Moved, LAInv
<1> QED
  BY <1>7, <1>8

-----------------------------------------------------------------------------
(* The operations: each gives its handle the contents it should, in a block *)
(* that is the handle's own. *)

Elements == Values \cup {Raw}

LEMMA Contents ==
  ASSUME LAInv, NEW h \in Handles, Alive(h)
  PROVE  /\ data[rep[h]] \in Seq(Elements) /\ ValueOf(h) = data[rep[h]]
         /\ Len(data[rep[h]]) <= cap[rep[h]] /\ cap[rep[h]] \in Nat
BY Pointed DEF LAInv, TypeOK, Size, ValueOf, Elements

LEMMA DetachBecomes ==
  ASSUME LAInv, LazyArrayAssumption, NEW h \in Handles, Detach(h)
  PROVE  Alive(h) /\ Becomes(h, ValueOf(h))
BY Contents, UpdateBecomes DEF Detach, Elements

LEMMA WriteBecomes ==
  ASSUME LAInv, LazyArrayAssumption, NEW h \in Handles, NEW i \in 1 .. MaxSize, NEW v \in Values,
         Write(h, i, v)
  PROVE  /\ Alive(h) /\ i \in DOMAIN ValueOf(h)
         /\ Becomes(h, [ValueOf(h) EXCEPT ![i] = v])
<1> DEFINE s == data[rep[h]]
           t == [s EXCEPT ![i] = v]
<1>1. Alive(h) /\ s \in Seq(Elements) /\ ValueOf(h) = s /\ Len(s) <= cap[rep[h]]
  BY Contents DEF Write
<1>2. i \in 1 .. Len(s) /\ Update(h, t)
  BY DEF Write, Size
<1> HIDE DEF s
<1>3. t \in Seq(Elements) /\ Len(t) = Len(s) /\ i \in DOMAIN s
  BY <1>1, <1>2 DEF Elements
<1> HIDE DEF t
<1>4. Becomes(h, t)
  BY <1>1, <1>2, <1>3, UpdateBecomes DEF Elements
<1> QED
  BY <1>1, <1>3, <1>4 DEF t

LEMMA ReserveBecomes ==
  ASSUME LAInv, LazyArrayAssumption, NEW h \in Handles, NEW n \in Nat, Reserve(h, n)
  PROVE  Alive(h) /\ Becomes(h, ValueOf(h))
<1> DEFINE s == data[rep[h]]
<1>1. Alive(h) /\ s \in Seq(Elements) /\ ValueOf(h) = s /\ Len(s) <= cap[rep[h]]
      /\ cap[rep[h]] \in Nat /\ Len(s) \in Nat
  BY Contents, LenProperties DEF Reserve
<1>2. n > cap[rep[h]] /\ Replace(h, rep[h], next_pow2(n), s)
  BY DEF Reserve
<1>3. next_pow2(n) \in Nat /\ next_pow2(n) >= n
  BY NextPow2Above
<1> HIDE DEF s
<1>4. Len(s) <= next_pow2(n)
  BY <1>1, <1>2, <1>3
<1> QED
  BY <1>1, <1>2, <1>3, <1>4, ReplaceBecomes DEF Elements

LEMMA ShrinkBecomes ==
  ASSUME LAInv, LazyArrayAssumption, NEW h \in Handles, ShrinkToFit(h)
  PROVE  Alive(h) /\ Becomes(h, ValueOf(h))
<1> DEFINE s == data[rep[h]]
<1>1. Alive(h) /\ s \in Seq(Elements) /\ ValueOf(h) = s /\ Len(s) \in Nat
  BY Contents, LenProperties DEF ShrinkToFit
<1>2. Replace(h, rep[h], Len(s), s)
  BY DEF ShrinkToFit, Size
<1> HIDE DEF s
<1> QED
  BY <1>1, <1>2, ReplaceBecomes, SMTT(30) DEF Elements

LEMMA TurnBecomes ==
  ASSUME LAInv, LazyArrayAssumption, NEW h \in Handles, Turn(h)
  PROVE  Alive(h) /\ Becomes(h, Reverse(ValueOf(h)))
<1> DEFINE s == data[rep[h]]
           t == Reverse(s)
<1>1. Alive(h) /\ s \in Seq(Elements) /\ ValueOf(h) = s /\ Len(s) <= cap[rep[h]]
  BY Contents DEF Turn
<1>2. Update(h, t)
  BY DEF Turn
<1> HIDE DEF s
<1>3. t \in [1 .. Len(s) -> Elements] /\ Len(s) \in Nat
  BY <1>1, LenProperties, ElementOfSeq DEF Reverse
<1> HIDE DEF t
<1>4. t \in Seq(Elements) /\ Len(t) = Len(s)
  BY <1>3, FunctionIsSeq
<1> QED
  BY <1>1, <1>2, <1>4, UpdateBecomes DEF Elements, t

\* What resize(n) makes of s: elements go at the end, or some of Default are added.
Resized(s, n) == [i \in 1 .. n |-> IF i <= Len(s) THEN s[i] ELSE Default]

LEMMA ResizeBecomes ==
  ASSUME LAInv, LazyArrayAssumption, NEW h \in Handles, NEW n \in Nat, Resize(h, n)
  PROVE  /\ Alive(h) /\ Becomes(h, Resized(ValueOf(h), n))
         /\ Resized(ValueOf(h), n) \in Seq(Elements) /\ Len(Resized(ValueOf(h), n)) = n
<1> DEFINE s == data[rep[h]]
           t == Resized(s, n)
<1>1. Alive(h) /\ s \in Seq(Elements) /\ ValueOf(h) = s
  BY Contents DEF Resize
<1>2. UpdateRoom(h, n, t)
  BY DEF Resize, Resized
<1> HIDE DEF s
<1>3. t \in [1 .. n -> Elements]
  BY <1>1, LenProperties, ElementOfSeq DEF Resized, Elements, LazyArrayAssumption
<1> HIDE DEF t
<1>4. t \in Seq(Elements) /\ Len(t) = n
  BY <1>3, FunctionIsSeq
<1>5. Becomes(h, t)
  <2>1. t \in Seq(Values \cup {Raw}) /\ Len(t) <= n
    BY <1>4 DEF Elements
  <2> QED
    BY <1>1, <1>2, <2>1, RoomBecomes
<1> QED
  BY <1>1, <1>4, <1>5 DEF t

\* s without the m elements from position p.
Cut(s, p, m) == SubSeq(s, 1, p - 1) \o SubSeq(s, p + m, Len(s))

LEMMA EraseBecomes ==
  ASSUME LAInv, LazyArrayAssumption, NEW h \in Handles,
         NEW p \in Nat \ {0}, NEW n \in Nat, Erase(h, p, n)
  PROVE  /\ Alive(h)
         /\ \E m \in Nat \ {0} : /\ p + m <= Len(ValueOf(h)) + 1
                                 /\ Becomes(h, Cut(ValueOf(h), p, m))
<1> DEFINE s == data[rep[h]]
           m == IF n > Len(s) - p + 1 THEN Len(s) - p + 1 ELSE n
           t == Cut(s, p, m)
           x == SubSeq(s, 1, p - 1)
           y == SubSeq(s, p + m, Len(s))
<1>1. Alive(h) /\ s \in Seq(Elements) /\ ValueOf(h) = s /\ Len(s) <= cap[rep[h]]
      /\ cap[rep[h]] \in Nat
  BY Contents DEF Erase
<1>2. p <= Len(s) /\ n > 0 /\ Update(h, t)
  BY DEF Erase, Cut
<1> HIDE DEF s
<1>3. Len(s) \in Nat
  BY <1>1, LenProperties
<1>4. m \in Nat \ {0} /\ p + m <= Len(s) + 1
  BY <1>2, <1>3
<1>5. t = x \o y
  BY DEF Cut
<1> HIDE DEF m
<1>6. x \in Seq(Elements) /\ Len(x) = p - 1
  BY <1>1, <1>2, <1>3, SubSeqProperties
<1>7. y \in Seq(Elements) /\ Len(y) = Len(s) - (p + m) + 1
  BY <1>1, <1>2, <1>3, <1>4, SubSeqProperties
<1> HIDE DEF t, x, y
<1>8. t \in Seq(Elements) /\ Len(t) = Len(x) + Len(y)
  BY <1>5, <1>6, <1>7, ConcatProperties, ZenonT(60)
<1>9. Len(t) <= cap[rep[h]]
  BY <1>1, <1>3, <1>4, <1>6, <1>7, <1>8, SMTT(30)
<1>10. Becomes(h, t)
  BY <1>1, <1>2, <1>8, <1>9, UpdateBecomes DEF Elements
<1> QED
  BY <1>1, <1>4, <1>10 DEF t

\* What insert_at() makes of s: v at position p, what was there and after it
\* one further, x in the slots of a gap.
Inserted(s, p, v, x) ==
    LET n == (IF p - 1 > Len(s) THEN p - 1 ELSE Len(s)) + 1 IN
    [i \in 1 .. n |-> CASE i = p -> v
                        [] i < p /\ i <= Len(s) -> s[i]
                        [] i < p /\ i > Len(s) -> x
                        [] i > p -> s[i - 1]]

LEMMA InsertedContents ==
  ASSUME NEW s \in Seq(Elements), NEW p \in Nat \ {0}, NEW v \in Elements, NEW x \in Elements
  PROVE  /\ Inserted(s, p, v, x) \in Seq(Elements)
         /\ Len(Inserted(s, p, v, x)) = (IF p - 1 > Len(s) THEN p - 1 ELSE Len(s)) + 1
<1> DEFINE n == (IF p - 1 > Len(s) THEN p - 1 ELSE Len(s)) + 1
           t == Inserted(s, p, v, x)
<1>1. Len(s) \in Nat /\ \A i \in 1 .. Len(s) : s[i] \in Elements
  BY LenProperties, ElementOfSeq
<1>2. n \in Nat /\ n >= p /\ n <= (IF p > Len(s) THEN p ELSE Len(s) + 1)
  BY <1>1
<1>3. t = [i \in 1 .. n |-> CASE i = p -> v
                              [] i < p /\ i <= Len(s) -> s[i]
                              [] i < p /\ i > Len(s) -> x
                              [] i > p -> s[i - 1]]
  BY DEF Inserted
<1> HIDE DEF n, t
<1>4. ASSUME NEW i \in 1 .. n
      PROVE  (CASE i = p -> v
                [] i < p /\ i <= Len(s) -> s[i]
                [] i < p /\ i > Len(s) -> x
                [] i > p -> s[i - 1]) \in Elements
  BY <1>1, <1>2
<1>5. t \in [1 .. n -> Elements]
  BY <1>3, <1>4
<1>6. t \in Seq(Elements) /\ Len(t) = n
  BY <1>2, <1>5, FunctionIsSeq
<1> QED
  BY <1>6 DEF n, t

LEMMA InsertBecomes ==
  ASSUME LAInv, LazyArrayAssumption, NEW h \in Handles, NEW p \in Nat \ {0}, NEW v \in Values,
         InsertAtPos(h, p, v)
  PROVE  /\ Alive(h)
         /\ \E x \in Elements : Becomes(h, Inserted(ValueOf(h), p, v, x))
<1> DEFINE b == rep[h]
           s == data[b]
           n == (IF p - 1 > Len(s) THEN p - 1 ELSE Len(s)) + 1
           alone == ref[b] = 1 \/ n > cap[b]
           x == IF alone /\ s # <<>> THEN Default ELSE Raw
           t == Inserted(s, p, v, x)
<1>1. Alive(h) /\ s \in Seq(Elements) /\ ValueOf(h) = s /\ cap[b] \in Nat
  BY Contents DEF InsertAtPos
<1>2. IF n > cap[b] THEN Replace(h, b, next_pow2(n), t)
      ELSE IF ref[b] = 1 THEN Update(h, t)
      ELSE Replace(h, b, n, t)
  BY DEF InsertAtPos, Inserted
<1>3. x \in Elements /\ v \in Elements
  BY DEF Elements, LazyArrayAssumption
<1> HIDE DEF s, x
<1>4. t \in Seq(Elements) /\ Len(t) = n
  BY <1>1, <1>3, InsertedContents, ZenonT(60)
<1>5. n \in Nat
  BY <1>1, LenProperties
<1> HIDE DEF t, n
<1>6. CASE n > cap[b]
  <2>1. next_pow2(n) \in Nat /\ Len(t) <= next_pow2(n)
    BY <1>4, <1>5, NextPow2Above
  <2>2. Becomes(h, t)
    BY <1>1, <1>2, <1>4, <1>6, <2>1, ReplaceBecomes DEF Elements
  <2> QED
    BY <1>1, <1>3, <2>2 DEF t
<1>7. CASE ~ (n > cap[b])
  <2>1. Len(t) <= n /\ Len(t) <= cap[b]
    BY <1>1, <1>4, <1>5, <1>7
  <2>2. CASE ref[b] = 1
    <3>1. Becomes(h, t)
      BY <1>1, <1>2, <1>4, <1>7, <2>1, <2>2, UpdateBecomes DEF Elements
    <3> QED
      BY <1>1, <1>3, <3>1 DEF t
  <2>3. CASE ref[b] # 1
    <3>1. Becomes(h, t)
      BY <1>1, <1>2, <1>4, <1>5, <1>7, <2>1, <2>3, ReplaceBecomes DEF Elements
    <3> QED
      BY <1>1, <1>3, <3>1 DEF t
  <2> QED
    BY <2>2, <2>3
<1> QED
  BY <1>6, <1>7

LEMMA AppendBecomes ==
  ASSUME LAInv, LazyArrayAssumption, NEW h \in Handles, AppendSlot(h)
  PROVE  /\ Alive(h)
         /\ \/ Becomes(h, Append(ValueOf(h), Raw))
            \/ \E x \in Elements :
                   Becomes(h, Inserted(ValueOf(h), Len(ValueOf(h)) + 1, Default, x))
<1> DEFINE b == rep[h]
           s == data[b]
           t == Append(s, Raw)
<1>1. Alive(h) /\ s \in Seq(Elements) /\ ValueOf(h) = s /\ cap[b] \in Nat
  BY Contents DEF AppendSlot
<1>2. IF Len(s) + 1 <= cap[b] THEN Update(h, t) ELSE InsertAtPos(h, Len(s) + 1, Default)
  BY DEF AppendSlot, Size
<1> HIDE DEF s
<1>3. Len(s) \in Nat
  BY <1>1, LenProperties
<1>4. CASE Len(s) + 1 <= cap[b]
  <2>1. t \in Seq(Elements) /\ Len(t) = Len(s) + 1
    BY <1>1, AppendProperties DEF Elements
  <2> HIDE DEF t
  <2>2. Len(t) <= cap[b]
    BY <1>4, <2>1
  <2>3. Becomes(h, t)
    BY <1>1, <1>2, <1>4, <2>1, <2>2, UpdateBecomes DEF Elements
  <2> QED
    BY <1>1, <2>3 DEF t
<1>5. CASE ~ (Len(s) + 1 <= cap[b])
  <2>1. Default \in Values /\ Len(s) + 1 \in Nat \ {0}
    BY <1>3 DEF LazyArrayAssumption
  <2>2. \E x \in Elements : Becomes(h, Inserted(ValueOf(h), Len(s) + 1, Default, x))
    BY <1>2, <1>5, <2>1, InsertBecomes
  <2> QED
    BY <1>1, <2>2
<1> QED
  BY <1>4, <1>5

-----------------------------------------------------------------------------
(* What a step is for the values the handles stand for *)

\* Contents are no marks of a handle without a block.
LEMMA ContentsLive ==
  ASSUME LazyArrayAssumption, NEW s \in Seq(Elements)
  PROVE  Arrays!Alive(s)
BY DEF LazyArrayAssumption, Elements, Arrays!Alive

LEMMA LiveValue ==
  ASSUME LAInv, LazyArrayAssumption, NEW h \in Handles, Alive(h)
  PROVE  ValueOf(h) \in Seq(Elements) /\ Arrays!Alive(ValueOf(h))
<1>1. ValueOf(h) \in Seq(Elements)
  BY Contents
<1> QED
  BY <1>1, ContentsLive

LEMMA OneValueChanges ==
  ASSUME NEW h \in Handles, NEW s, NEW t,
         s = ValueOf(h), t = ValueOf(h)', OthersStay(h),
         \/ Arrays!New(s, t) \/ Arrays!Destroy(s, t) \/ Arrays!Turn(s, t)
         \/ Arrays!Write(s, t) \/ Arrays!Resize(s, t) \/ Arrays!Insert(s, t)
         \/ Arrays!Append1(s, t) \/ Arrays!Erase(s, t)
  PROVE  Arrays!Next
BY DEF OthersStay, Arrays!Next

LEMMA NoValueChanges ==
  ASSUME NEW h \in Handles, Becomes(h, ValueOf(h))
  PROVE  [h_1 \in Handles |-> ValueOf(h_1)]' = [h_1 \in Handles |-> ValueOf(h_1)]
BY DEF Becomes, OthersStay

LEMMA TurnIsTurn ==
  ASSUME NEW s
  PROVE  Reverse(s) = Arrays!Reverse(s)
BY DEF Reverse, Arrays!Reverse

\* Within the elements or at their end, what insert_at() makes is the
\* sequence with v put in.
LEMMA InsertedWithin ==
  ASSUME NEW s \in Seq(Elements), NEW p \in 1 .. Len(s) + 1, NEW v \in Elements, NEW x \in Elements
  PROVE  Inserted(s, p, v, x) = SubSeq(s, 1, p - 1) \o <<v>> \o SubSeq(s, p, Len(s))
<1> DEFINE a == SubSeq(s, 1, p - 1)
           c == SubSeq(s, p, Len(s))
           m == <<v>>
           t == Inserted(s, p, v, x)
           u == (a \o m) \o c
<1>1. Len(s) \in Nat /\ p \in Nat \ {0} /\ \A i \in 1 .. Len(s) : s[i] \in Elements
  BY LenProperties, ElementOfSeq
<1>2. t \in Seq(Elements) /\ Len(t) = Len(s) + 1
  BY <1>1, InsertedContents
<1>3. \A i \in 1 .. Len(s) + 1 : t[i] = IF i = p THEN v ELSE IF i < p THEN s[i] ELSE s[i - 1]
  BY <1>1 DEF Inserted
<1>4. a \in Seq(Elements) /\ Len(a) = p - 1 /\ \A i \in 1 .. p - 1 : a[i] = s[i]
  BY <1>1, SubSeqProperties
<1>5. c \in Seq(Elements) /\ Len(c) = Len(s) - p + 1
      /\ \A i \in 1 .. Len(s) - p + 1 : c[i] = s[p + i - 1]
  BY <1>1, SubSeqProperties
<1>6. m \in Seq(Elements) /\ Len(m) = 1 /\ m[1] = v
  OBVIOUS
<1> HIDE DEF a, c, m, t
<1> DEFINE am == a \o m
<1>7. am \in Seq(Elements) /\ Len(am) = p
      /\ \A i \in 1 .. p : am[i] = IF i <= p - 1 THEN a[i] ELSE m[i - (p - 1)]
  <2>1. am \in Seq(Elements) /\ Len(am) = Len(a) + Len(m)
        /\ \A i \in 1 .. Len(a) + Len(m) : am[i] = IF i <= Len(a) THEN a[i] ELSE m[i - Len(a)]
    BY <1>4, <1>6, ConcatProperties
  <2> HIDE DEF am
  <2>2. Len(a) + Len(m) = p
    BY <1>1, <1>4, <1>6
  <2> QED
    BY <1>4, <2>1, <2>2
<1>8. u = am \o c
  OBVIOUS
<1> HIDE DEF am, u
<1>9. u \in Seq(Elements) /\ Len(u) = Len(s) + 1
      /\ \A i \in 1 .. Len(s) + 1 : u[i] = IF i <= p THEN am[i] ELSE c[i - p]
  <2>1. am \o c \in Seq(Elements) /\ Len(am \o c) = Len(am) + Len(c)
        /\ \A i \in 1 .. Len(am) + Len(c) :
               (am \o c)[i] = IF i <= Len(am) THEN am[i] ELSE c[i - Len(am)]
    BY <1>5, <1>7, ConcatProperties
  <2>2. Len(am) + Len(c) = Len(s) + 1
    BY <1>1, <1>5, <1>7
  <2> QED
    BY <1>7, <1>8, <2>1, <2>2
<1>10. ASSUME NEW i \in 1 .. Len(s) + 1 PROVE t[i] = u[i]
  <2>1. CASE i < p
    BY <1>1, <1>3, <1>4, <1>7, <1>9, <2>1, SMTT(30)
  <2>2. CASE i = p
    <3>1. am[p] = v
      BY <1>1, <1>6, <1>7
    <3> QED
      BY <1>1, <1>3, <1>9, <2>2, <3>1
  <2>3. CASE i > p
    <3>1. i - p \in 1 .. Len(s) - p + 1 /\ p + (i - p) - 1 = i - 1
      BY <1>1, <2>3
    <3>2. c[i - p] = s[i - 1]
      BY <1>5, <3>1
    <3> QED
      BY <1>1, <1>3, <1>9, <2>3, <3>2
  <2> QED
    BY <1>1, <2>1, <2>2, <2>3
<1> QED
  BY <1>2, <1>9, <1>10, SeqEqual DEF t, u, a, c, m

LEMMA InsertIsInsert ==
  ASSUME LazyArrayAssumption, NEW s \in Seq(Elements), NEW p \in Nat \ {0}, NEW v \in Values,
         NEW x \in Elements
  PROVE  Arrays!Insert(s, Inserted(s, p, v, x))
<1> DEFINE t == Inserted(s, p, v, x)
<1>1. v \in Elements /\ Len(s) \in Nat /\ \A i \in 1 .. Len(s) : s[i] \in Elements
  BY LenProperties, ElementOfSeq DEF Elements
<1>2. t \in Seq(Elements) /\ Len(t) = (IF p - 1 > Len(s) THEN p - 1 ELSE Len(s)) + 1
  BY <1>1, InsertedContents
<1>3. Arrays!Alive(s) /\ Arrays!Alive(t)
  BY <1>2, ContentsLive
<1>4. CASE p <= Len(s) + 1
  <2>1. p \in 1 .. Len(s) + 1 /\ Len(t) = Len(s) + 1
    BY <1>1, <1>2, <1>4
  <2>2. t = Arrays!InsertAt(s, p, v)
    BY <1>1, <2>1, InsertedWithin DEF Arrays!InsertAt
  <2> HIDE DEF t
  <2> QED
    <3>1. Arrays!Insert(s, t)
      BY <1>3, <2>1, <2>2 DEF Arrays!Insert
    <3> QED
      BY <3>1 DEF t
<1>5. CASE ~ (p <= Len(s) + 1)
  <2>1. Len(t) = p /\ p > Len(s) + 1 /\ p \in Nat
    BY <1>1, <1>2, <1>5
  <2>2. t[p] = v /\ \A i \in 1 .. Len(s) : t[i] = s[i]
    BY <1>1, <2>1 DEF Inserted
  <2> HIDE DEF t
  <2>3. \A i \in 1 .. Len(s) : t[i] \in Elements
    BY <1>1, <2>2
  <2> DEFINE z == SubSeq(t, 1, Len(s))
  <2>4. z \in Seq(Elements) /\ Len(z) = Len(s) /\ \A i \in 1 .. Len(s) : z[i] = t[i]
    BY <1>1, <2>3, SubSeqProperties
  <2> HIDE DEF z
  <2>5. z = s
    BY <2>2, <2>4, SeqEqual
  <2> QED
    <3>1. t[Len(t)] \in Values
      BY <2>1, <2>2
    <3>2. SubSeq(t, 1, Len(s)) = s /\ Len(t) > Len(s) + 1
      BY <2>1, <2>5 DEF z
    <3>3. Arrays!Insert(s, t)
      BY <1>3, <3>1, <3>2 DEF Arrays!Insert
    <3> QED
      BY <3>3 DEF t
<1> QED
  BY <1>4, <1>5

LEMMA CutIsErase ==
  ASSUME LazyArrayAssumption, NEW s \in Seq(Elements), NEW p \in Nat \ {0}, NEW m \in Nat \ {0},
         p + m <= Len(s) + 1
  PROVE  Arrays!Erase(s, Cut(s, p, m))
<1> DEFINE j == p + m - 1
<1>1. Len(s) \in Nat /\ DOMAIN s = 1 .. Len(s) /\ Arrays!Alive(s)
  BY LenProperties, ContentsLive
<1>2. p \in DOMAIN s /\ j \in DOMAIN s /\ p <= j /\ j + 1 = p + m
  BY <1>1
<1>3. Cut(s, p, m) = SubSeq(s, 1, p - 1) \o SubSeq(s, j + 1, Len(s))
  BY <1>2 DEF Cut
<1> HIDE DEF j
<1> QED
  BY <1>1, <1>2, <1>3 DEF Arrays!Erase

-----------------------------------------------------------------------------
(* Every step *)

AVal == [h \in Handles |-> ValueOf(h)]

\* A step keeps the invariant, leaks nothing but by a move of a handle to
\* itself, and is a step of the values or changes none.
Good(h) == /\ LAInv'
           /\ NoLeak \/ MoveAssignSame(h, h)
           /\ Arrays!Next \/ AVal' = AVal

LEMMA BecomesGood ==
  ASSUME NEW h \in Handles, NEW s, NEW t, s = ValueOf(h), Becomes(h, t),
         \/ t = s \/ Arrays!Turn(s, t) \/ Arrays!Write(s, t) \/ Arrays!Resize(s, t)
         \/ Arrays!Insert(s, t) \/ Arrays!Append1(s, t) \/ Arrays!Erase(s, t)
  PROVE  Good(h)
<1>1. LAInv' /\ NoLeak /\ ValueOf(h)' = t /\ OthersStay(h)
  BY DEF Becomes
<1>2. CASE t = s
  <2>1. AVal' = AVal
    BY <1>2, NoValueChanges DEF AVal
  <2> QED
    BY <1>1, <2>1 DEF Good
<1>3. CASE t # s
  BY <1>1, <1>3, OneValueChanges DEF Good
<1> QED
  BY <1>2, <1>3

LEMMA HoldsGood ==
  ASSUME NEW h \in Handles, NEW s, NEW t, s = ValueOf(h), Holds(h, t),
         Arrays!New(s, t) \/ Arrays!Destroy(s, t)
  PROVE  Good(h)
BY OneValueChanges DEF Holds, Good

LEMMA CopyGood ==
  ASSUME NEW h \in Handles, NEW g \in Handles, ValueOf(g) # Dead, Holds(h, ValueOf(g))
  PROVE  Good(h)
<1>1. AVal' = [AVal EXCEPT ![h] = AVal[g]] /\ AVal[g] # Dead
  BY DEF AVal, Holds, OthersStay
<1>2. Arrays!Copy(h, g)
  BY <1>1 DEF Arrays!Copy, AVal
<1> QED
  BY <1>2 DEF Good, Arrays!Next, Holds

LEMMA MoveGood ==
  ASSUME NEW h \in Handles, NEW g \in Handles, ValueOf(g) # Dead, Moved(h, g),
         h = g => MoveAssignSame(h, h)
  PROVE  Good(h)
<1>1. AVal' = [AVal EXCEPT ![h] = AVal[g], ![g] = Null] /\ AVal[g] # Dead
  BY DEF AVal, Moved
<1>2. Arrays!Move(h, g)
  BY <1>1 DEF Arrays!Move, AVal
<1> QED
  BY <1>2 DEF Good, Arrays!Next, Moved

LEMMA StepGood ==
  ASSUME LAInv, LazyArrayAssumption, NEW h \in Handles, Step(h)
  PROVE  Good(h)
<1>0. MaxSize \in Nat
  BY DEF LazyArrayAssumption
<1>1. ASSUME NEW n \in 0 .. MaxSize, New(h, n) PROVE Good(h)
  <2>1. n \in Nat
    BY <1>0
  <2>2. Arrays!New(ValueOf(h), <<>>) /\ Holds(h, <<>>)
    BY <1>1, <2>1, NewHolds DEF Arrays!New
  <2> QED
    BY <2>2, HoldsGood
<1>2. ASSUME NEW n \in 0 .. MaxSize, Reserve(h, n) PROVE Good(h)
  <2>1. n \in Nat
    BY <1>0
  <2> QED
    BY <1>2, <2>1, ReserveBecomes, BecomesGood
<1>3. ASSUME NEW n \in 0 .. MaxSize, Resize(h, n) PROVE Good(h)
  <2> DEFINE s == ValueOf(h)
             t == Resized(s, n)
  <2>1. n \in Nat
    BY <1>0
  <2>2. Alive(h) /\ Becomes(h, t) /\ t \in Seq(Elements) /\ Len(t) = n
    BY <1>3, <2>1, ResizeBecomes
  <2>3. Arrays!Alive(s) /\ Arrays!Alive(t)
    BY <2>2, LiveValue, ContentsLive
  <2>4. Arrays!Resize(s, t)
    <3>1. t = [i \in 1 .. n |-> IF i <= Len(s) THEN s[i] ELSE Default]
      BY DEF Resized
    <3> HIDE DEF s, t
    <3> QED
      BY <2>2, <2>3, <3>1 DEF Arrays!Resize
  <2> QED
    BY <2>2, <2>4, BecomesGood
<1>4. ASSUME NEW g \in Handles, CopyCtor(h, g) PROVE Good(h)
  BY <1>4, CopyCtorHolds, CopyGood
<1>5. ASSUME NEW g \in Handles, MoveCtor(h, g) PROVE Good(h)
  <2>1. h # g
    BY <1>5 DEF MoveCtor
  <2> QED
    BY <1>5, <2>1, MoveCtorMoves, MoveGood
<1>6. ASSUME NEW g \in Handles, CopyAssign(h, g) PROVE Good(h)
  BY <1>6, CopyAssignHolds, CopyGood
<1>7. ASSUME NEW g \in Handles, MoveAssignSame(h, g) PROVE Good(h)
  BY <1>7, MoveAssignSameMoves, MoveGood
<1>8. ASSUME NEW g \in Handles, MoveAssign(h, g) PROVE Good(h)
  <2>1. h # g
    BY <1>8 DEF MoveAssign
  <2> QED
    BY <1>8, <2>1, MoveAssignMoves, MoveGood
<1>9. ASSUME Destroy(h) PROVE Good(h)
  <2>1. Arrays!Destroy(ValueOf(h), Dead) /\ Holds(h, Dead)
    BY <1>9, DestroyHolds DEF Arrays!Destroy
  <2> QED
    BY <2>1, HoldsGood
<1>10. ASSUME Detach(h) PROVE Good(h)
  BY <1>10, DetachBecomes, BecomesGood
<1>11. ASSUME ShrinkToFit(h) PROVE Good(h)
  BY <1>11, ShrinkBecomes, BecomesGood
<1>12. ASSUME AppendSlot(h) PROVE Good(h)
  <2> DEFINE s == ValueOf(h)
  <2>1. /\ Alive(h)
        /\ \/ Becomes(h, Append(s, Raw))
           \/ \E x \in Elements : Becomes(h, Inserted(s, Len(s) + 1, Default, x))
    BY <1>12, AppendBecomes
  <2>2. s \in Seq(Elements) /\ Arrays!Alive(s) /\ Len(s) + 1 \in Nat \ {0}
    BY <2>1, LiveValue, LenProperties, SMTT(30)
  <2>3. ASSUME Becomes(h, Append(s, Raw)) PROVE Good(h)
    <3>1. Arrays!Append1(s, Append(s, Raw))
      BY <2>2 DEF Arrays!Append1, Arrays!Content
    <3> QED
      BY <2>3, <3>1, BecomesGood
  <2>4. ASSUME NEW x \in Elements, Becomes(h, Inserted(s, Len(s) + 1, Default, x))
        PROVE  Good(h)
    <3>1. Default \in Values
      BY DEF LazyArrayAssumption
    <3>2. Arrays!Insert(s, Inserted(s, Len(s) + 1, Default, x))
      BY <2>2, <3>1, InsertIsInsert
    <3> QED
      BY <2>4, <3>2, BecomesGood
  <2> QED
    BY <2>1, <2>3, <2>4
<1>13. ASSUME Turn(h) PROVE Good(h)
  <2> DEFINE s == ValueOf(h)
  <2>1. Alive(h) /\ Becomes(h, Reverse(s))
    BY <1>13, TurnBecomes
  <2>2. Arrays!Turn(s, Reverse(s))
    BY <2>1, LiveValue, TurnIsTurn DEF Arrays!Turn
  <2> QED
    BY <2>1, <2>2, BecomesGood
<1>14. ASSUME NEW i \in 1 .. MaxSize, NEW v \in Values, Write(h, i, v) PROVE Good(h)
  <2> DEFINE s == ValueOf(h)
             t == [s EXCEPT ![i] = v]
  <2>1. Alive(h) /\ i \in DOMAIN s /\ Becomes(h, t)
    BY <1>14, WriteBecomes
  <2>2. Arrays!Write(s, t)
    BY <2>1, LiveValue DEF Arrays!Write
  <2> QED
    BY <2>1, <2>2, BecomesGood
<1>15. ASSUME NEW p \in 1 .. MaxSize, NEW v \in Values, InsertAtPos(h, p, v) PROVE Good(h)
  <2> DEFINE s == ValueOf(h)
  <2>1. p \in Nat \ {0}
    BY <1>0
  <2>2. Alive(h)
    BY <1>15 DEF InsertAtPos
  <2>3. PICK x \in Elements : Becomes(h, Inserted(s, p, v, x))
    BY <1>15, <2>1, InsertBecomes
  <2>4. Arrays!Insert(s, Inserted(s, p, v, x))
    BY <2>1, <2>2, LiveValue, InsertIsInsert
  <2> QED
    BY <2>3, <2>4, BecomesGood
<1>16. ASSUME NEW p \in 1 .. MaxSize, NEW n \in 1 .. MaxSize, Erase(h, p, n) PROVE Good(h)
  <2> DEFINE s == ValueOf(h)
  <2>1. p \in Nat \ {0} /\ n \in Nat
    BY <1>0
  <2>2. Alive(h)
    BY <1>16 DEF Erase
  <2>3. PICK m \in Nat \ {0} : p + m <= Len(s) + 1 /\ Becomes(h, Cut(s, p, m))
    BY <1>16, <2>1, EraseBecomes
  <2>4. Arrays!Erase(s, Cut(s, p, m))
    BY <2>1, <2>2, <2>3, LiveValue, CutIsErase
  <2> QED
    BY <2>3, <2>4, BecomesGood
<1> QED
  BY <1>1, <1>2, <1>3, <1>4, <1>5, <1>6, <1>7, <1>8, <1>9, <1>10, <1>11, <1>12, <1>13,
     <1>14, <1>15, <1>16 DEF Step

LEMMA InitLAInv ==
  ASSUME LazyArrayAssumption, Init
  PROVE  LAInv
<1>1. {Dead, Null} \cap BlockIds = {} /\ Len(<<>>) = 0 /\ <<>> \in Seq(Values \cup {Raw})
  BY DEF LazyArrayAssumption, BlockIds
<1>2. TypeOK
  BY <1>1 DEF Init, TypeOK, Size
<1>3. \A b \in BlockIds : Users(b) = {} /\ ref[b] = Free /\ data[b] = <<>>
  BY <1>1 DEF Init, Users
<1> QED
  BY <1>2, <1>3, CountedNone DEF LAInv, BlockOK

LEMMA StutterLAInv ==
  ASSUME LAInv, UNCHANGED vars
  PROVE  LAInv' /\ AVal' = AVal /\ NoLeak
BY DEF LAInv, TypeOK, BlockOK, Users, Size, AVal, ValueOf, Alive, NoLeak, vars

\* The invariant holds in every state, for any handles, values and bounds.
THEOREM LAInvHolds == Spec => []LAInv
<1>1. Init => LAInv
  BY InitLAInv, LazyArrayAssumption
<1>2. LAInv /\ [Next]_vars => LAInv'
  BY StepGood, StutterLAInv, LazyArrayAssumption DEF Next, Good
<1> QED
  BY <1>1, <1>2, PTL DEF Spec

\* Each block's count is the number of the handles that point to it, and none
\* points to a deleted block: what detach() and the destructor rely on when
\* they compare the count with 1.
THEOREM RefsCountedHolds == Spec => []RefsCounted
<1>1. LAInv => RefsCounted
  BY DEF LAInv, BlockOK, RefsCounted, Counted, Live
<1> QED
  BY <1>1, LAInvHolds, PTL

\* No step of the class leaves an allocated block without a handle but
\* operator=(LazyArray&&) of a handle to itself.
THEOREM OnlySelfMoveLeaksHolds == Spec => OnlySelfMoveLeaks
<1> DEFINE A == \A b \in BlockIds :
          Users(b) # {} /\ (\A h \in Handles : rep'[h] # b) =>
              ref'[b] = Free \/ \E h \in Handles : MoveAssignSame(h, h)
<1>1. LAInv /\ [Next]_vars => [A]_vars
  <2> SUFFICES ASSUME LAInv, Next, NEW b \in BlockIds, Users(b) # {},
                      \A h \in Handles : rep'[h] # b, ref'[b] # Free,
                      \A h \in Handles : ~ MoveAssignSame(h, h)
               PROVE  FALSE
    OBVIOUS
  <2>1. LAInv' /\ NoLeak
    BY StepGood, LazyArrayAssumption DEF Next, Good
  <2>2. Users(b)' = {}
    BY DEF Users
  <2>3. ref'[b] = Cardinality({})
    BY <2>1, <2>2 DEF LAInv, BlockOK, Counted
  <2>4. ref[b] = 0
    BY <2>1, <2>3, FS_EmptySet DEF NoLeak
  <2>5. IsFiniteSet(Users(b)) /\ Cardinality(Users(b)) = 0
    BY <2>4 DEF LAInv, BlockOK, Counted, Free
  <2> QED
    BY <2>5, FS_EmptySet
<1> QED
  BY <1>1, LAInvHolds, PTL DEF Spec, OnlySelfMoveLeaks

\* The arrays are values: every step, through all the sharing, copying and
\* moving of blocks, is one a program with a sequence in each handle takes.
THEOREM ImplementsValuesHolds == Spec => ImplementsValues
<1>1. Init => Arrays!Init
  <2>1. Dead \notin BlockIds
    BY LazyArrayAssumption DEF LazyArrayAssumption, BlockIds
  <2> QED
    BY <2>1 DEF Init, Arrays!Init, ValueOf, Alive
<1>2. LAInv /\ [Next]_vars => [Arrays!Next]_AVal
  BY StepGood, StutterLAInv, LazyArrayAssumption DEF Next, Good
<1> QED
  BY <1>1, <1>2, LAInvHolds, PTL DEF Spec, ImplementsValues, Arrays!Spec, AVal
=============================================================================
