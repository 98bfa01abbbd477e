-------------------------- MODULE HashTableProofs --------------------------
(***************************************************************************)
(* Proofs about hash_table.h and the sizes it asks for: HashTable, for     *)
(* every set of objects, every hasher and every strategy whose tables      *)
(* grow; Hash_container_, for every set of values; and next_prime(), for   *)
(* every number.                                                           *)
(***************************************************************************)
EXTENDS HashTable, HashContainer, Primes, ProofLemmas

LEMMA StrategyType ==
  ASSUME NEW l \in DOMAIN Strategy
  PROVE  /\ Strategy[l].table_size \in Nat \ {0} /\ Strategy[l].bucket_size \in Nat \ {0}
         /\ l \in 1 .. Len(Strategy) /\ Len(Strategy) \in Nat
<1>1. Strategy \in Seq([table_size : Nat \ {0}, bucket_size : Nat \ {0}])
  BY HashTableAssumption
<1>2. Strategy[l] \in [table_size : Nat \ {0}, bucket_size : Nat \ {0}]
  <2> DEFINE S == [table_size : Nat \ {0}, bucket_size : Nat \ {0}]
  <2>1. Strategy \in Seq(S)
    BY <1>1
  <2> HIDE DEF S
  <2>2. Strategy[l] \in S
    BY <2>1, LenProperties
  <2> QED
    BY <2>2 DEF S
<1> QED
  BY <1>1, <1>2, LenProperties

(* The arithmetic of a bucket *)

\* The slots of a bucket are a table's, as large as the strategy asks for or
\* the smaller one that is still in use.
LEMMA BucketInside ==
  ASSUME NEW hc \in Nat, NEW l \in DOMAIN Strategy,
         NEW m \in 1 .. Strategy[l].table_size,
         NEW k \in 1 .. Strategy[l].bucket_size
  PROVE  Bucket(hc, m, l)[k] \in 0 .. Strategy[l].table_size - 1
<1> DEFINE T == Strategy[l].table_size
           start == hc % T
           a == start + k - 1
           q == a \div m
<1>1. T \in Nat \ {0} /\ Strategy[l].bucket_size \in Nat
  BY StrategyType
<1>2. start \in 0 .. T - 1
  <2> HIDE DEF T
  <2> QED
    BY <1>1, Divide
<1>3. m \in Nat \ {0} /\ m <= T /\ k \in Nat \ {0}
  BY <1>1
<1>4. a \in Nat
  BY <1>2, <1>3
<1>5. Bucket(hc, m, l)[k] = start + (k - 1 - m * Min({k, q}))
  <2> DEFINE slot(j) == start + (j - 1 - m * Min({j, (start + j - 1) \div m}))
  <2>1. Bucket(hc, m, l) = [j \in 1 .. Strategy[l].bucket_size |-> slot(j)]
    BY DEF Bucket
  <2> HIDE DEF slot
  <2>2. Bucket(hc, m, l)[k] = slot(k)
    BY <2>1
  <2> QED
    BY <2>2 DEF slot
<1> HIDE DEF T, start
<1>6. q \in Nat /\ a % m \in 0 .. m - 1 /\ a = m * q + (a % m)
  <2> HIDE DEF a
  <2> QED
    BY <1>3, <1>4, Divide
<1>7. a = start + k - 1
  OBVIOUS
<1> HIDE DEF a, q
<1>8. CASE k <= q
  <2>1. Min({k, q}) = k
    BY <1>3, <1>6, <1>8, MinOfTwo
  <2>2. m * k \in Nat /\ m * k >= k /\ m * k <= m * q /\ m * q \in Nat
    BY <1>3, <1>6, <1>8, Smaller, Monotone
  <2> DEFINE mk == m * k
             mq == m * q
  <2>3. Bucket(hc, m, l)[k] = start + (k - 1 - mk)
    BY <1>5, <2>1
  <2>4. a = mq + (a % m) /\ mk \in Nat /\ mk >= k /\ mk <= mq /\ mq \in Nat
    BY <1>6, <2>2
  <2> HIDE DEF mk, mq
  <2>5. start + (k - 1 - mk) \in 0 .. T - 1
    BY <1>1, <1>2, <1>3, <1>4, <1>6, <1>7, <2>4
  <2> QED
    BY <1>1, <2>3, <2>5 DEF T
<1>9. CASE ~(k <= q)
  <2>1. Min({k, q}) = q
    BY <1>3, <1>6, <1>9, MinOfTwo
  <2>2. m * q \in Nat
    BY <1>3, <1>6, Smaller
  <2> DEFINE mq == m * q
  <2>3. Bucket(hc, m, l)[k] = start + (k - 1 - mq)
    BY <1>5, <2>1
  <2>4. a = mq + (a % m) /\ mq \in Nat
    BY <1>6, <2>2
  <2> HIDE DEF mq
  <2>5. start + (k - 1 - mq) = a % m
    BY <1>2, <1>3, <1>4, <1>6, <1>7, <2>4
  <2> QED
    BY <1>1, <1>3, <1>6, <2>3, <2>5 DEF T
<1> QED
  BY <1>8, <1>9

LEMMA BucketDomain ==
  ASSUME NEW hc, NEW m, NEW l \in DOMAIN Strategy
  PROVE  /\ DOMAIN Bucket(hc, m, l) = 1 .. Strategy[l].bucket_size
         /\ Strategy[l].bucket_size \in Nat
BY StrategyType DEF Bucket

-----------------------------------------------------------------------------
(* The first slot of a bucket that is not taken *)

\* Slot p is in the bucket, behind none but slots in use by others.
InPlace(bucket, p, slots) ==
    \E k \in DOMAIN bucket : /\ bucket[k] = p
                             /\ \A j \in 1 .. k - 1 : bucket[j] \in slots \ {p}

LEMMA FirstInPlace ==
  ASSUME NEW bucket, NEW taken, NEW p \in FirstOf(bucket, taken)
  PROVE  p \notin taken /\ InPlace(bucket, p, taken)
BY DEF FirstOf, InPlace

LEMMA InPlaceMore ==
  ASSUME NEW bucket, NEW p, NEW some, NEW more, some \subseteq more, InPlace(bucket, p, some)
  PROVE  InPlace(bucket, p, more)
BY DEF InPlace

LEMMA FirstUnique ==
  ASSUME NEW bucket, NEW n \in Nat, DOMAIN bucket = 1 .. n, NEW taken,
         NEW p \in FirstOf(bucket, taken), NEW q \in FirstOf(bucket, taken)
  PROVE  p = q
<1>1. PICK k \in 1 .. n : /\ bucket[k] = p /\ bucket[k] \notin taken
                          /\ \A j \in 1 .. k - 1 : bucket[j] \in taken
  BY DEF FirstOf
<1>2. PICK l \in 1 .. n : /\ bucket[l] = q /\ bucket[l] \notin taken
                          /\ \A j \in 1 .. l - 1 : bucket[j] \in taken
  BY DEF FirstOf
<1>3. ~(k < l) /\ ~(l < k)
  BY <1>1, <1>2
<1> QED
  BY <1>1, <1>2, <1>3

LEMMA FirstExists ==
  ASSUME NEW bucket, NEW n \in Nat, DOMAIN bucket = 1 .. n, NEW taken,
         NEW k \in 1 .. n, bucket[k] \notin taken
  PROVE  \E l \in 1 .. n : /\ bucket[l] \in FirstOf(bucket, taken) /\ l <= k
                           /\ bucket[l] \notin taken
<1> DEFINE free == {j \in 1 .. n : bucket[j] \notin taken}
<1>1. free \subseteq Nat /\ k \in free
  OBVIOUS
<1>2. PICK l \in free : \A m \in free : l <= m
  <2> HIDE DEF free
  <2> QED
    BY <1>1, LeastNumber
<1>3. \A j \in 1 .. l - 1 : bucket[j] \in taken
  BY <1>2
<1>4. bucket[l] \in FirstOf(bucket, taken)
  BY <1>2, <1>3 DEF FirstOf
<1> QED
  BY <1>1, <1>2, <1>4

-----------------------------------------------------------------------------
(* The inductive invariant *)

\* The slots asked for now, and the bucket of the i-th object in a table of
\* that size.
Wanted == Strategy[level].table_size
BucketOf(i) == Bucket(hash(obj_array[i]), Wanted, level)

\* obj2node_ and the table mirror each other.
Mirror ==
    /\ Len(obj2node) = Len(obj_array)
    /\ DOMAIN node = Range(obj2node)
    /\ \A i \in 1 .. Len(obj_array) :
           node[obj2node[i]] = [hash_code |-> hash(obj_array[i]), obj_idx |-> i - 1]

\* Only a failed rehash() leaves a table that is smaller than asked for.
Current == ~failed /\ pc # "insert_node" => size = Wanted
Inside == ~failed => DOMAIN node \subseteq 0 .. size - 1

\* In a table of the size asked for each object is in its place; in the next
\* one, those that were placed.
Reachable ==
    size = Wanted =>
        \A i \in 1 .. Len(obj_array) : InPlace(BucketOf(i), obj2node[i], DOMAIN node)

Placing ==
    pc = "insert_node" =>
        /\ Len(placed) <= Len(obj_array)
        /\ IsInjective(placed)
        /\ \A i \in 1 .. Len(placed) : InPlace(BucketOf(i), placed[i], Range(placed))

HasObject == pc = "insert_obj" => obj \in Objects

HTInv == /\ TypeOK /\ Mirror /\ Current /\ Inside /\ Reachable /\ Placing /\ HasObject
         /\ UniqueUnlessRehashFailed

LEMMA HashType == \A o \in Objects : hash(o) \in Nat \ {0}
BY HashTableAssumption DEF hash

LEMMA SizeType ==
  ASSUME TypeOK
  PROVE  /\ Wanted \in Nat \ {0} /\ size \in 1 .. Wanted
         /\ level \in 1 .. Len(Strategy) /\ level \in DOMAIN Strategy
         /\ DOMAIN Strategy = 1 .. Len(Strategy) /\ Len(Strategy) \in Nat
<1>1. level \in DOMAIN Strategy /\ DOMAIN Strategy = 1 .. Len(Strategy) /\ Len(Strategy) \in Nat
  BY HashTableAssumption, LenProperties DEF TypeOK
<1>2. PICK l \in 1 .. level : size = Strategy[l].table_size
  BY DEF TypeOK
<1>3. l \in DOMAIN Strategy /\ (l = level \/ l < level)
  BY <1>1
<1>4. Strategy[l].table_size \in Nat \ {0} /\ Strategy[level].table_size \in Nat \ {0}
  BY <1>1, <1>3, StrategyType
<1>5. Strategy[l].table_size <= Strategy[level].table_size
  BY <1>1, <1>3, <1>4, HashTableAssumption, SMTT(30)
<1> QED
  BY <1>1, <1>2, <1>4, <1>5 DEF Wanted

LEMMA UsedIs == TypeOK => Used = DOMAIN node
<1> SUFFICES ASSUME TypeOK PROVE Used = DOMAIN node
  OBVIOUS
<1>1. \A p \in DOMAIN node : node[p].hash_code # 0
  BY DEF TypeOK
<1> QED
  BY <1>1 DEF Used

LEMMA ProbeType ==
  ASSUME TypeOK, NEW o \in Objects, NEW p \in Probe(o)
  PROVE  p \in 0 .. Wanted - 1 /\ p \in Nat
<1>1. /\ level \in DOMAIN Strategy /\ size \in 1 .. Strategy[level].table_size
      /\ Wanted = Strategy[level].table_size /\ Wanted \in Nat \ {0} /\ hash(o) \in Nat
  BY SizeType, HashType DEF Wanted
<1>2. PICK k \in DOMAIN Bucket(hash(o), size, level) : p = Bucket(hash(o), size, level)[k]
  BY DEF Probe, FirstOf
<1>3. k \in 1 .. Strategy[level].bucket_size
  BY <1>1, <1>2, BucketDomain
<1>4. p \in 0 .. Strategy[level].table_size - 1
  BY <1>1, <1>2, <1>3, BucketInside
<1> QED
  BY <1>1, <1>4

\* An object in its place is found by a probe for it.
LEMMA FoundInPlace ==
  ASSUME TypeOK, Mirror, Reachable, size = Wanted, NEW i \in 1 .. Len(obj_array)
  PROVE  \E p \in Probe(obj_array[i]) : p \in DOMAIN node /\ p \notin OthersSlots(obj_array[i])
<1> DEFINE o == obj_array[i]
           b == Bucket(hash(o), size, level)
           p == obj2node[i]
<1>1. level \in DOMAIN Strategy
  BY SizeType
<1>2. PICK n \in Nat : DOMAIN b = 1 .. n
  BY <1>1, BucketDomain
<1>3. i \in 1 .. Len(obj2node) /\ DOMAIN obj2node = 1 .. Len(obj2node)
  BY LenProperties DEF TypeOK, Mirror
<1>4. p \in DOMAIN node /\ node[p] = [hash_code |-> hash(o), obj_idx |-> i - 1]
  BY <1>3 DEF Mirror, Range
<1>5. p \notin OthersSlots(o)
  <2>1. node[p].hash_code = hash(o) /\ node[p].obj_idx = i - 1 /\ i - 1 + 1 = i
    BY <1>4
  <2> QED
    BY <2>1 DEF OthersSlots
<1>6. InPlace(b, p, DOMAIN node)
  BY DEF Reachable, BucketOf, Wanted
<1> HIDE DEF b, p, o
<1>7. PICK k \in 1 .. n : b[k] = p /\ \A j \in 1 .. k - 1 : b[j] \in DOMAIN node
  BY <1>2, <1>6 DEF InPlace
<1>8. PICK l \in 1 .. n : /\ b[l] \in FirstOf(b, OthersSlots(o)) /\ l <= k
                          /\ b[l] \notin OthersSlots(o)
  BY <1>2, <1>5, <1>7, FirstExists
<1>9. b[l] \in DOMAIN node
  <2>1. l = k \/ l \in 1 .. k - 1
    BY <1>2, <1>7, <1>8
  <2> QED
    BY <1>4, <1>7, <2>1
<1>10. FirstOf(b, OthersSlots(o)) = Probe(o)
  BY DEF Probe, b
<1> QED
  BY <1>8, <1>9, <1>10 DEF o

\* A used slot that is not others' is the object's.
LEMMA NotOthers ==
  ASSUME TypeOK, Mirror, NEW o, NEW p \in DOMAIN node, p \notin OthersSlots(o)
  PROVE  node[p].obj_idx \in Objs /\ obj_array[node[p].obj_idx + 1] = o
<1>1. node[p].obj_idx \in Objs /\ p \in Used
  BY UsedIs DEF TypeOK
<1> QED
  BY <1>1 DEF OthersSlots

LEMMA ProbeUnique ==
  ASSUME TypeOK, NEW o, NEW p \in Probe(o), NEW q \in Probe(o)
  PROVE  p = q
<1>1. level \in DOMAIN Strategy
  BY SizeType
<1> QED
  BY <1>1, BucketDomain, FirstUnique DEF Probe

-----------------------------------------------------------------------------
(* The steps *)

LEMMA HTInitInv == Init => HTInv
<1> SUFFICES ASSUME Init PROVE HTInv
  OBVIOUS
<1>1. /\ level = 1 /\ size = Strategy[1].table_size /\ node = <<>>
      /\ obj_array = <<>> /\ obj2node = <<>> /\ placed = <<>>
      /\ pc = "idle" /\ obj = NoObject /\ ret = End /\ failed = FALSE
  BY DEF Init
<1>2. 1 \in DOMAIN Strategy /\ 1 \in 1 .. level
  BY <1>1, HashTableAssumption, LenProperties
<1>3. DOMAIN node = {} /\ Range(obj2node) = {} /\ Len(<<>>) = 0
  BY <1>1 DEF Range
<1>4. failed \in BOOLEAN
  BY <1>1, Zenon
<1>5. size \in {Strategy[l].table_size : l \in 1 .. level}
  BY <1>1, <1>2
<1>6. TypeOK
  BY <1>1, <1>2, <1>3, <1>4, <1>5, EmptySeq DEF TypeOK
<1>7. Mirror /\ Reachable
  BY <1>1, <1>3 DEF Mirror, Reachable
<1>8. Current /\ Inside /\ Placing /\ HasObject
  BY <1>1, <1>3 DEF Current, Wanted, Inside, Placing, HasObject
<1>9. UniqueUnlessRehashFailed
  BY <1>1 DEF UniqueUnlessRehashFailed, IsInjective
<1> QED
  BY <1>6, <1>7, <1>8, <1>9 DEF HTInv

LEMMA InsertInv == ASSUME HTInv, NEW o \in Objects, Insert(o) PROVE HTInv'
<1>1. /\ pc = "idle" /\ pc' = "insert_obj" /\ obj' = o /\ ret' = End
      /\ level' = level /\ size' = size /\ node' = node /\ obj_array' = obj_array
      /\ obj2node' = obj2node /\ placed' = placed /\ failed' = failed
  BY DEF Insert
<1>2. TypeOK'
  BY <1>1 DEF HTInv, TypeOK, Objs
<1>3. Mirror' /\ Inside'
  BY <1>1 DEF HTInv, Mirror, Inside
<1>4. Current' /\ Placing' /\ HasObject'
  BY <1>1 DEF HTInv, Current, Wanted, Placing, HasObject
<1>5. Reachable'
  BY <1>1 DEF HTInv, Reachable, Wanted, BucketOf, InPlace
<1>6. UniqueUnlessRehashFailed'
  BY <1>1 DEF HTInv, UniqueUnlessRehashFailed
<1> QED
  BY <1>2, <1>3, <1>4, <1>5, <1>6 DEF HTInv

LEMMA InsertExistingInv == ASSUME HTInv, InsertExisting PROVE HTInv'
<1>1. PICK pos \in Probe(obj) : ret' = pos
  BY DEF InsertExisting, Return
<1>2. /\ pc = "insert_obj" /\ pc' = "idle" /\ obj' = NoObject
      /\ level' = level /\ size' = size /\ node' = node /\ obj_array' = obj_array
      /\ obj2node' = obj2node /\ placed' = placed /\ failed' = failed
  BY DEF InsertExisting, Return
<1>3. pos \in Nat
  BY <1>2, ProbeType DEF HTInv, HasObject
<1>4. TypeOK'
  BY <1>1, <1>2, <1>3 DEF HTInv, TypeOK, Objs
<1>5. Mirror' /\ Inside'
  BY <1>2 DEF HTInv, Mirror, Inside
<1>6. Current' /\ Placing' /\ HasObject'
  BY <1>2 DEF HTInv, Current, Wanted, Placing, HasObject
<1>7. Reachable'
  BY <1>2 DEF HTInv, Reachable, Wanted, BucketOf, InPlace
<1>8. UniqueUnlessRehashFailed'
  BY <1>2 DEF HTInv, UniqueUnlessRehashFailed
<1> QED
  BY <1>4, <1>5, <1>6, <1>7, <1>8 DEF HTInv

LEMMA InsertFullInv == ASSUME HTInv, InsertFull PROVE HTInv'
<1>1. /\ pc = "insert_obj" /\ pc' = "rehash" /\ obj' = obj /\ ret' = ret
      /\ level' = level /\ size' = size /\ node' = node /\ obj_array' = obj_array
      /\ obj2node' = obj2node /\ placed' = placed /\ failed' = failed
  BY DEF InsertFull
<1>2. TypeOK'
  BY <1>1 DEF HTInv, TypeOK, Objs
<1>3. Mirror' /\ Inside'
  BY <1>1 DEF HTInv, Mirror, Inside
<1>4. Current' /\ Placing' /\ HasObject'
  BY <1>1 DEF HTInv, Current, Wanted, Placing, HasObject
<1>5. Reachable'
  BY <1>1 DEF HTInv, Reachable, Wanted, BucketOf, InPlace
<1>6. UniqueUnlessRehashFailed'
  BY <1>1 DEF HTInv, UniqueUnlessRehashFailed
<1> QED
  BY <1>2, <1>3, <1>4, <1>5, <1>6 DEF HTInv

\* The new object's slot is none of the others', and the probe for an object
\* that was there would have led to it.
LEMMA InsertNewInv == ASSUME HTInv, InsertNew PROVE HTInv'
<1> DEFINE n == Len(obj_array)
<1>1. /\ TypeOK /\ Mirror /\ Current /\ Inside /\ Reachable /\ Placing /\ HasObject
      /\ UniqueUnlessRehashFailed
  BY DEF HTInv
<1>2. PICK pos \in Probe(obj) :
         /\ pos \notin Used
         /\ obj_array' = Append(obj_array, obj) /\ obj2node' = Append(obj2node, pos)
         /\ node' = [q \in DOMAIN node \cup {pos} |->
                        IF q = pos THEN [hash_code |-> hash(obj), obj_idx |-> Len(obj_array)]
                        ELSE node[q]]
  BY DEF InsertNew, Store
<1>3. /\ pc = "insert_obj" /\ pc' = "idle" /\ ret' = Len(obj_array) /\ obj' = NoObject
      /\ level' = level /\ size' = size /\ placed' = placed /\ failed' = failed
  BY DEF InsertNew, Return
<1>4. /\ obj \in Objects /\ pos \in 0 .. Wanted - 1 /\ pos \in Nat /\ pos \notin DOMAIN node
      /\ hash(obj) \in Nat \ {0} /\ Wanted \in Nat /\ Wanted' = Wanted
  <2>1. obj \in Objects
    BY <1>1, <1>3 DEF HasObject
  <2> QED
    BY <1>1, <1>2, <1>3, <2>1, ProbeType, UsedIs, HashType, SizeType DEF Wanted
<1>5. /\ n \in Nat /\ obj_array' \in Seq(Objects) /\ Len(obj_array') = n + 1
      /\ \A i \in 1 .. n : obj_array'[i] = obj_array[i]
      /\ obj_array'[n + 1] = obj
      /\ DOMAIN obj_array = 1 .. n /\ DOMAIN obj_array' = 1 .. n + 1
  <2>1. obj_array \in Seq(Objects)
    BY <1>1 DEF TypeOK
  <2> QED
    BY <1>2, <1>4, <2>1, AppendProperties, LenProperties
<1>6. /\ Len(obj2node) = n /\ obj2node' \in Seq(Nat) /\ Len(obj2node') = n + 1
      /\ \A i \in 1 .. n : obj2node'[i] = obj2node[i]
      /\ obj2node'[n + 1] = pos
      /\ DOMAIN obj2node = 1 .. n /\ DOMAIN obj2node' = 1 .. n + 1
  <2>1. obj2node \in Seq(Nat) /\ Len(obj2node) = n
    BY <1>1 DEF TypeOK, Mirror
  <2> QED
    BY <1>2, <1>4, <2>1, AppendProperties, LenProperties
<1>7. /\ DOMAIN node' = DOMAIN node \cup {pos}
      /\ node'[pos] = [hash_code |-> hash(obj), obj_idx |-> n]
      /\ \A p \in DOMAIN node : node'[p] = node[p]
  BY <1>2, <1>4
<1> HIDE DEF n
<1>8. TypeOK'
  <2>1. \A p \in DOMAIN node' : /\ p \in 0 .. Strategy[level'].table_size - 1
                               /\ node'[p] \in [hash_code : Nat \ {0}, obj_idx : Objs']
    <3> SUFFICES ASSUME NEW p \in DOMAIN node'
                 PROVE  /\ p \in 0 .. Strategy[level'].table_size - 1
                        /\ node'[p] \in [hash_code : Nat \ {0}, obj_idx : Objs']
      OBVIOUS
    <3>1. Objs' = 0 .. n /\ Objs = 0 .. n - 1
      BY <1>5 DEF Objs, n
    <3>2. CASE p = pos
      BY <1>3, <1>4, <1>5, <1>7, <3>1, <3>2 DEF Wanted
    <3>3. CASE p \in DOMAIN node
      <4>1. /\ p \in 0 .. Strategy[level].table_size - 1
            /\ node[p] \in [hash_code : Nat \ {0}, obj_idx : Objs]
        BY <1>1, <3>3 DEF TypeOK
      <4>2. Objs \subseteq Objs'
        BY <1>5, <3>1
      <4> QED
        BY <1>3, <1>7, <3>3, <4>1, <4>2
    <3> QED
      BY <1>7, <3>2, <3>3
  <2>2. ret' \in Nat
    BY <1>3, <1>5 DEF n
  <2> QED
    BY <1>1, <1>3, <1>5, <1>6, <2>1, <2>2 DEF TypeOK
<1>9. Mirror'
  <2>1. DOMAIN node' = Range(obj2node')
    <3>1. Range(obj2node') = Range(obj2node) \cup {pos}
      BY <1>5, <1>6 DEF Range
    <3> QED
      BY <1>1, <1>7, <3>1 DEF Mirror
  <2>2. ASSUME NEW i \in 1 .. n + 1
        PROVE  node'[obj2node'[i]] = [hash_code |-> hash(obj_array'[i]), obj_idx |-> i - 1]
    <3>1. CASE i = n + 1
      BY <1>5, <1>6, <1>7, <3>1
    <3>2. CASE i \in 1 .. n
      <4>1. obj2node[i] \in DOMAIN node
        BY <1>1, <1>6, <3>2 DEF Mirror, Range
      <4>2. node[obj2node[i]] = [hash_code |-> hash(obj_array[i]), obj_idx |-> i - 1]
        BY <1>1, <3>2 DEF Mirror, n
      <4> QED
        BY <1>5, <1>6, <1>7, <3>2, <4>1, <4>2
    <3> QED
      BY <1>5, <3>1, <3>2
  <2> QED
    BY <1>5, <1>6, <2>1, <2>2 DEF Mirror
<1>10. Current' /\ Placing' /\ HasObject'
  BY <1>1, <1>3, <1>4 DEF Current, Placing, HasObject
<1>11. Inside'
  <2> SUFFICES ASSUME ~failed PROVE pos \in 0 .. size - 1
    BY <1>1, <1>3, <1>7 DEF Inside
  <2>1. size = Wanted
    BY <1>1, <1>3 DEF Current
  <2> QED
    BY <1>4, <2>1
<1>12. Reachable'
  <2> SUFFICES ASSUME size = Wanted, NEW i \in 1 .. n + 1
               PROVE  InPlace(BucketOf(i)', obj2node'[i], DOMAIN node')
    BY <1>3, <1>4, <1>5 DEF Reachable
  <2>1. CASE i \in 1 .. n
    <3>1. InPlace(BucketOf(i), obj2node[i], DOMAIN node)
      BY <1>1, <2>1 DEF Reachable, n
    <3>2. BucketOf(i)' = BucketOf(i)
      BY <1>3, <1>4, <1>5, <2>1 DEF BucketOf
    <3> QED
      BY <1>6, <1>7, <2>1, <3>1, <3>2, InPlaceMore
  <2>2. CASE i = n + 1
    <3>1. pos \in FirstOf(Bucket(hash(obj), Wanted, level), OthersSlots(obj))
      BY <1>2 DEF Probe
    <3>2. BucketOf(i)' = Bucket(hash(obj), Wanted, level)
      BY <1>3, <1>4, <1>5, <2>2 DEF BucketOf
    <3>3. InPlace(BucketOf(i)', pos, OthersSlots(obj))
      BY <3>1, <3>2, FirstInPlace
    <3>4. OthersSlots(obj) \subseteq DOMAIN node'
      BY <1>1, <1>7, UsedIs DEF OthersSlots
    <3> QED
      BY <1>6, <2>2, <3>3, <3>4, InPlaceMore
  <2> QED
    BY <1>5, <2>1, <2>2
<1>13. UniqueUnlessRehashFailed'
  <2> SUFFICES ASSUME ~failed PROVE IsInjective(obj_array')
    BY <1>3 DEF UniqueUnlessRehashFailed
  <2>1. size = Wanted
    BY <1>1, <1>3 DEF Current
  <2>2. \A i \in 1 .. n : obj_array[i] # obj
    <3> SUFFICES ASSUME NEW i \in 1 .. n, obj_array[i] = obj PROVE FALSE
      OBVIOUS
    <3>1. PICK p \in Probe(obj) : p \in DOMAIN node
      BY <1>1, <2>1, FoundInPlace DEF n
    <3>2. p = pos
      BY <1>1, ProbeUnique
    <3> QED
      BY <1>4, <3>1, <3>2
  <2>3. IsInjective(obj_array)
    BY <1>1 DEF UniqueUnlessRehashFailed
  <2>4. ASSUME NEW i \in 1 .. n + 1, NEW j \in 1 .. n + 1, obj_array'[i] = obj_array'[j]
        PROVE  i = j
    <3>1. (i \in 1 .. n \/ i = n + 1) /\ (j \in 1 .. n \/ j = n + 1)
      BY <1>5
    <3> QED
      BY <1>5, <2>2, <2>3, <2>4, <3>1 DEF IsInjective
  <2> QED
    BY <1>5, <2>4 DEF IsInjective
<1> QED
  BY <1>8, <1>9, <1>10, <1>11, <1>12, <1>13 DEF HTInv

\* The strategy is a step ahead: the table is smaller than asked for, until the
\* new one is taken.
LEMMA RehashInv == ASSUME HTInv, Rehash PROVE HTInv'
<1>1. /\ TypeOK /\ Mirror /\ Inside /\ UniqueUnlessRehashFailed
  BY DEF HTInv
<1>2. /\ level < Len(Strategy) /\ level' = level + 1
      /\ placed' = <<>> /\ pc' = "insert_node"
      /\ size' = size /\ node' = node /\ obj_array' = obj_array /\ obj2node' = obj2node
      /\ obj' = obj /\ ret' = ret /\ failed' = failed
  BY DEF Rehash
<1>3. /\ level \in DOMAIN Strategy /\ level' \in DOMAIN Strategy /\ level < level'
      /\ level \in Nat /\ Wanted \in Nat \ {0} /\ size \in 1 .. Wanted
  BY <1>1, <1>2, SizeType
<1>4. Wanted' = Strategy[level'].table_size /\ Wanted < Wanted' /\ Wanted' \in Nat \ {0}
  BY <1>3, HashTableAssumption, StrategyType DEF Wanted
<1>5. TypeOK'
  <2>1. size' \in {Strategy[l].table_size : l \in 1 .. level'}
    <3>1. PICK l \in 1 .. level : size = Strategy[l].table_size
      BY <1>1 DEF TypeOK
    <3>2. l \in 1 .. level'
      BY <1>2, <1>3
    <3> QED
      BY <1>2, <3>1, <3>2
  <2>2. \A p \in DOMAIN node' : p \in 0 .. Strategy[level'].table_size - 1
    BY <1>1, <1>2, <1>3, <1>4, SMTT(30) DEF TypeOK, Wanted
  <2>3. placed' \in Seq(0 .. Strategy[level'].table_size - 1)
    BY <1>2, EmptySeq
  <2> QED
    BY <1>1, <1>2, <1>3, <2>1, <2>2, <2>3 DEF TypeOK, Objs
<1>6. Mirror' /\ Inside' /\ UniqueUnlessRehashFailed'
  BY <1>1, <1>2 DEF Mirror, Inside, UniqueUnlessRehashFailed
<1>7. Current' /\ HasObject'
  BY <1>2 DEF Current, HasObject
<1>8. Reachable'
  <2>1. size' # Wanted'
    BY <1>2, <1>3, <1>4
  <2> QED
    BY <2>1 DEF Reachable
<1>9. Placing'
  <2>1. Len(placed') = 0 /\ DOMAIN placed' = {} /\ Len(obj_array') \in Nat
    BY <1>1, <1>2, LenProperties DEF TypeOK
  <2>2. Len(placed') <= Len(obj_array') /\ IsInjective(placed') /\ 1 .. Len(placed') = {}
    BY <2>1 DEF IsInjective
  <2> QED
    BY <2>2 DEF Placing
<1> QED
  BY <1>5, <1>6, <1>7, <1>8, <1>9 DEF HTInv

LEMMA InsertNodeInv == ASSUME HTInv, InsertNode PROVE HTInv'
<1> DEFINE n == Len(placed)
<1>1. /\ TypeOK /\ Mirror /\ Inside /\ Reachable /\ Placing /\ UniqueUnlessRehashFailed
  BY DEF HTInv
<1>2. PICK p \in FirstOf(NewBucket, Range(placed)) : placed' = Append(placed, p)
  BY DEF InsertNode
<1>3. /\ pc = "insert_node" /\ Len(placed) < Len(obj_array)
      /\ level' = level /\ size' = size /\ node' = node /\ obj_array' = obj_array
      /\ obj2node' = obj2node /\ pc' = pc /\ obj' = obj /\ ret' = ret /\ failed' = failed
  BY DEF InsertNode
<1>4. /\ placed \in Seq(0 .. Wanted - 1) /\ n \in Nat /\ DOMAIN placed = 1 .. n
      /\ Len(obj_array) \in Nat /\ DOMAIN obj_array = 1 .. Len(obj_array)
      /\ obj_array \in Seq(Objects)
  BY <1>1, LenProperties DEF TypeOK, Wanted
<1>5. n + 1 \in 1 .. Len(obj_array)
  BY <1>3, <1>4
<1>6. NewBucket = BucketOf(n + 1)
  <2>1. node[obj2node[n + 1]].hash_code = hash(obj_array[n + 1])
    <3>1. node[obj2node[n + 1]]
            = [hash_code |-> hash(obj_array[n + 1]), obj_idx |-> (n + 1) - 1]
      BY <1>1, <1>5 DEF Mirror
    <3> QED
      BY <3>1
  <2> QED
    BY <2>1 DEF NewBucket, BucketOf, Wanted
<1>7. p \notin Range(placed) /\ InPlace(BucketOf(n + 1), p, Range(placed))
  BY <1>2, <1>6, FirstInPlace
<1>8. p \in 0 .. Wanted - 1
  <2>1. level \in DOMAIN Strategy /\ Wanted \in Nat \ {0} /\ Wanted = Strategy[level].table_size
    BY <1>1, SizeType DEF Wanted
  <2>2. hash(obj_array[n + 1]) \in Nat
    BY <1>4, <1>5, HashType
  <2>3. PICK k \in 1 .. Strategy[level].bucket_size :
           p = Bucket(hash(obj_array[n + 1]), Wanted, level)[k]
    BY <1>7, <2>1, BucketDomain DEF InPlace, BucketOf
  <2> QED
    BY <2>1, <2>2, <2>3, BucketInside
<1>9. /\ placed' \in Seq(0 .. Wanted - 1) /\ Len(placed') = n + 1
      /\ \A i \in 1 .. n : placed'[i] = placed[i]
      /\ placed'[n + 1] = p /\ DOMAIN placed' = 1 .. n + 1
  <2> DEFINE S == 0 .. Wanted - 1
  <2>1. placed \in Seq(S) /\ p \in S
    BY <1>4, <1>8
  <2> HIDE DEF S
  <2>2. /\ placed' \in Seq(S) /\ Len(placed') = n + 1
        /\ \A i \in 1 .. n : placed'[i] = placed[i]
        /\ placed'[n + 1] = p /\ DOMAIN placed' = 1 .. n + 1
    BY <1>2, <2>1, AppendProperties, LenProperties
  <2> QED
    BY <2>2 DEF S
<1>10. Range(placed') = Range(placed) \cup {p}
  BY <1>4, <1>9 DEF Range
<1> HIDE DEF n
<1>11. TypeOK'
  BY <1>1, <1>3, <1>9 DEF TypeOK, Objs, Wanted
<1>12. Mirror' /\ Inside' /\ UniqueUnlessRehashFailed'
  BY <1>1, <1>3 DEF Mirror, Inside, UniqueUnlessRehashFailed
<1>13. Current' /\ HasObject'
  BY <1>3 DEF Current, HasObject
<1>14. Reachable'
  BY <1>1, <1>3 DEF Reachable, Wanted, BucketOf, InPlace
<1>15. Placing'
  <2>1. Len(placed') <= Len(obj_array')
    BY <1>3, <1>4, <1>9 DEF n
  <2>2. IsInjective(placed')
    <3>1. \A i \in 1 .. n : placed[i] # p
      BY <1>4, <1>7 DEF Range
    <3>2. \A i, j \in 1 .. n : placed[i] = placed[j] => i = j
      BY <1>1, <1>3, <1>4 DEF Placing, IsInjective
    <3>3. \A i \in 1 .. n + 1 : i \in 1 .. n \/ i = n + 1
      BY <1>4
    <3> QED
      BY <1>9, <3>1, <3>2, <3>3 DEF IsInjective
  <2>3. ASSUME NEW i \in 1 .. n + 1
        PROVE  InPlace(BucketOf(i)', placed'[i], Range(placed'))
    <3>1. BucketOf(i)' = BucketOf(i)
      BY <1>3 DEF BucketOf, Wanted
    <3>2. CASE i = n + 1
      BY <1>7, <1>9, <1>10, <3>1, <3>2, InPlaceMore
    <3>3. CASE i \in 1 .. n
      <4>1. InPlace(BucketOf(i), placed[i], Range(placed))
        BY <1>1, <1>3, <3>3 DEF Placing, n
      <4> QED
        BY <1>9, <1>10, <3>1, <3>3, <4>1, InPlaceMore
    <3> QED
      BY <1>4, <3>2, <3>3
  <2> QED
    BY <1>9, <2>1, <2>2, <2>3 DEF Placing
<1> QED
  BY <1>11, <1>12, <1>13, <1>14, <1>15 DEF HTInv

LEMMA RehashDoneLemma ==
  ASSUME TypeOK, RehashDone, obj' = obj
  PROVE  /\ placed' = <<>> /\ pc' \in {"idle", "insert_obj"}
         /\ pc' = "insert_obj" => obj' \in Objects
BY DEF TypeOK, RehashDone

LEMMA RehashFailsInv == ASSUME HTInv, RehashFails PROVE HTInv'
<1>1. /\ TypeOK /\ Mirror /\ Reachable
  BY DEF HTInv
<1>2. /\ failed' = TRUE
      /\ level' = level /\ size' = size /\ node' = node /\ obj_array' = obj_array
      /\ obj2node' = obj2node /\ obj' = obj /\ ret' = ret
  BY DEF RehashFails
<1>3. /\ placed' = <<>> /\ pc' \in {"idle", "insert_obj"}
      /\ pc' = "insert_obj" => obj' \in Objects
  BY <1>1, <1>2, RehashDoneLemma DEF RehashFails
<1>4. TypeOK'
  <2>1. placed' \in Seq(0 .. Strategy[level'].table_size - 1)
    BY <1>3, EmptySeq
  <2>2. failed' \in BOOLEAN
    BY <1>2, Zenon
  <2> QED
    BY <1>1, <1>2, <1>3, <2>1, <2>2 DEF TypeOK, Objs
<1>5. Mirror' /\ Inside' /\ UniqueUnlessRehashFailed'
  BY <1>1, <1>2 DEF Mirror, Inside, UniqueUnlessRehashFailed
<1>6. Current' /\ HasObject' /\ Placing'
  BY <1>2, <1>3 DEF Current, HasObject, Placing
<1>7. Reachable'
  BY <1>1, <1>2 DEF Reachable, Wanted, BucketOf, InPlace
<1> QED
  BY <1>4, <1>5, <1>6, <1>7 DEF HTInv

LEMMA TakeNewTableInv == ASSUME HTInv, TakeNewTable PROVE HTInv'
<1> DEFINE n == Len(obj_array)
<1>1. /\ TypeOK /\ Mirror /\ Placing /\ UniqueUnlessRehashFailed
  BY DEF HTInv
<1>2. /\ pc = "insert_node" /\ Len(placed) = Len(obj_array)
      /\ size' = Wanted /\ obj2node' = placed
      /\ node' = [p \in Range(placed) |->
                     node[obj2node[CHOOSE i \in DOMAIN placed : placed[i] = p]]]
      /\ level' = level /\ obj_array' = obj_array /\ obj' = obj /\ ret' = ret
      /\ failed' = failed
  BY DEF TakeNewTable, Wanted
<1>3. /\ placed' = <<>> /\ pc' \in {"idle", "insert_obj"}
      /\ pc' = "insert_obj" => obj' \in Objects
  BY <1>1, <1>2, RehashDoneLemma DEF TakeNewTable
<1>4. /\ placed \in Seq(0 .. Wanted - 1) /\ n \in Nat /\ DOMAIN placed = 1 .. n
      /\ Wanted \in Nat \ {0} /\ Wanted' = Wanted
      /\ level \in 1 .. level /\ Wanted = Strategy[level].table_size
      /\ obj_array \in Seq(Objects) /\ DOMAIN obj_array = 1 .. n
  BY <1>1, <1>2, LenProperties, SizeType DEF TypeOK, Wanted
<1>5. \A i \in 1 .. n : placed[i] \in 0 .. Wanted - 1
  <2> DEFINE S == 0 .. Wanted - 1
  <2>1. placed \in Seq(S)
    BY <1>4
  <2> HIDE DEF S
  <2>2. \A i \in 1 .. n : placed[i] \in S
    BY <1>4, <2>1
  <2> QED
    BY <2>2 DEF S
<1>6. IsInjective(placed)
  BY <1>1, <1>2 DEF Placing
<1>7. ASSUME NEW i \in 1 .. n
      PROVE  node'[placed[i]] = [hash_code |-> hash(obj_array[i]), obj_idx |-> i - 1]
  <2> DEFINE j == CHOOSE k \in DOMAIN placed : placed[k] = placed[i]
  <2>1. j \in DOMAIN placed /\ placed[j] = placed[i]
    BY <1>4
  <2>2. j = i
    BY <1>4, <1>6, <2>1 DEF IsInjective
  <2>3. placed[i] \in Range(placed)
    BY <1>4 DEF Range
  <2>4. node'[placed[i]] = node[obj2node[j]]
    BY <1>2, <2>3
  <2> QED
    BY <1>1, <2>2, <2>4 DEF Mirror
<1>8. DOMAIN node' = Range(placed)
  BY <1>2
<1>9. \A p \in DOMAIN node' : \E i \in 1 .. n : p = placed[i]
  BY <1>4, <1>8 DEF Range
<1>10. TypeOK'
  <2>1. \A p \in DOMAIN node' : /\ p \in 0 .. Strategy[level'].table_size - 1
                               /\ node'[p] \in [hash_code : Nat \ {0}, obj_idx : Objs']
    <3> SUFFICES ASSUME NEW i \in 1 .. n
                 PROVE  /\ placed[i] \in 0 .. Strategy[level'].table_size - 1
                        /\ node'[placed[i]] \in [hash_code : Nat \ {0}, obj_idx : Objs']
      BY <1>9
    <3>1. hash(obj_array[i]) \in Nat \ {0}
      BY <1>4, HashType
    <3>2. i - 1 \in Objs'
      BY <1>2, <1>4 DEF Objs
    <3>3. node'[placed[i]] = [hash_code |-> hash(obj_array[i]), obj_idx |-> i - 1]
      BY <1>7
    <3>4. node'[placed[i]] \in [hash_code : Nat \ {0}, obj_idx : Objs']
      BY <3>1, <3>2, <3>3
    <3>5. Strategy[level'].table_size = Wanted
      BY <1>2, <1>4
    <3> QED
      BY <1>5, <3>4, <3>5
  <2>2. obj2node' \in Seq(Nat)
    <3>1. placed \in [1 .. n -> Nat]
      BY <1>4, <1>5, LenProperties
    <3> QED
      BY <1>2, <1>4, <3>1, SeqDef
  <2>3. placed' \in Seq(0 .. Strategy[level'].table_size - 1)
    BY <1>3, EmptySeq
  <2>4. size' \in {Strategy[l].table_size : l \in 1 .. level'}
    BY <1>2, <1>4
  <2> QED
    BY <1>1, <1>2, <1>3, <2>1, <2>2, <2>3, <2>4 DEF TypeOK, Objs
<1>11. Mirror'
  BY <1>2, <1>7, <1>8 DEF Mirror
<1>12. Inside'
  BY <1>2, <1>5, <1>9 DEF Inside
<1>13. Current' /\ HasObject' /\ Placing'
  BY <1>2, <1>3, <1>4 DEF Current, HasObject, Placing
<1>14. Reachable'
  <2> SUFFICES ASSUME NEW i \in 1 .. n
               PROVE  InPlace(BucketOf(i)', obj2node'[i], DOMAIN node')
    BY <1>2 DEF Reachable
  <2>1. InPlace(BucketOf(i), placed[i], Range(placed))
    BY <1>1, <1>2 DEF Placing
  <2>2. BucketOf(i)' = BucketOf(i)
    BY <1>2, <1>4 DEF BucketOf
  <2> QED
    BY <1>2, <1>8, <2>1, <2>2
<1>15. UniqueUnlessRehashFailed'
  BY <1>1, <1>2 DEF UniqueUnlessRehashFailed
<1> QED
  BY <1>10, <1>11, <1>12, <1>13, <1>14, <1>15 DEF HTInv

LEMMA HTStepInv == HTInv /\ [Next]_vars => HTInv'
<1> SUFFICES ASSUME HTInv, [Next]_vars PROVE HTInv'
  OBVIOUS
<1>1. ASSUME NEW o \in Objects, Insert(o) PROVE HTInv'
  BY <1>1, InsertInv
<1>2. CASE InsertNew
  BY <1>2, InsertNewInv
<1>3. CASE InsertExisting
  BY <1>3, InsertExistingInv
<1>4. CASE InsertFull
  BY <1>4, InsertFullInv
<1>5. CASE Rehash
  BY <1>5, RehashInv
<1>6. CASE InsertNode
  BY <1>6, InsertNodeInv
<1>7. CASE RehashFails
  BY <1>7, RehashFailsInv
<1>8. CASE TakeNewTable
  BY <1>8, TakeNewTableInv
<1>9. CASE UNCHANGED vars
  <2>1. /\ level' = level /\ size' = size /\ node' = node /\ obj_array' = obj_array
        /\ obj2node' = obj2node /\ placed' = placed /\ pc' = pc /\ obj' = obj
        /\ ret' = ret /\ failed' = failed
    BY <1>9 DEF vars
  <2>2. TypeOK'
    BY <2>1 DEF HTInv, TypeOK, Objs
  <2>3. Mirror' /\ Inside'
    BY <2>1 DEF HTInv, Mirror, Inside
  <2>4. Current' /\ HasObject'
    BY <2>1 DEF HTInv, Current, Wanted, HasObject
  <2>5. Reachable'
    BY <2>1 DEF HTInv, Reachable, Wanted, BucketOf, InPlace
  <2>6. Placing'
    BY <2>1 DEF HTInv, Placing, Wanted, BucketOf, InPlace
  <2>7. UniqueUnlessRehashFailed'
    BY <2>1 DEF HTInv, UniqueUnlessRehashFailed
  <2> QED
    BY <2>2, <2>3, <2>4, <2>5, <2>6, <2>7 DEF HTInv
<1> QED
  BY <1>1, <1>2, <1>3, <1>4, <1>5, <1>6, <1>7, <1>8, <1>9 DEF Next

LEMMA HTInvariant == Spec => []HTInv
BY HTInitInv, HTStepInv, PTL DEF Spec

-----------------------------------------------------------------------------
(* What holds of every run of the table *)

\* The types, and no probe leaves the table the strategy asks for, although the
\* wrap of a bucket subtracts at most as often as it has slots.
THEOREM TypesHold == Spec => []TypeOK
<1>1. HTInv => TypeOK
  BY DEF HTInv
<1> QED
  BY HTInvariant, <1>1, PTL

LEMMA InvConsistent == HTInv => TableConsistent
<1> SUFFICES ASSUME HTInv PROVE TableConsistent
  OBVIOUS
<1>1. TypeOK /\ Mirror /\ Inside
  BY DEF HTInv
<1> DEFINE n == Len(obj_array)
<1>2. /\ n \in Nat /\ Len(obj2node) = n /\ DOMAIN obj2node = 1 .. n
      /\ DOMAIN node = Range(obj2node)
  BY <1>1, LenProperties DEF TypeOK, Mirror
<1>3. \A i \in 1 .. n : /\ obj2node[i] \in DOMAIN node
                        /\ node[obj2node[i]] = [hash_code |-> hash(obj_array[i]), obj_idx |-> i - 1]
  BY <1>1, <1>2 DEF Mirror, Range
<1>4. Cardinality(DOMAIN node) = n
  <2>1. obj2node \in [1 .. n -> DOMAIN node]
    BY <1>1, <1>2, <1>3, LenProperties DEF TypeOK
  <2>2. \A i, j \in 1 .. n : obj2node[i] = obj2node[j] => i = j
    <3> SUFFICES ASSUME NEW i \in 1 .. n, NEW j \in 1 .. n, obj2node[i] = obj2node[j]
                 PROVE  i = j
      OBVIOUS
    <3>1. /\ node[obj2node[i]] = [hash_code |-> hash(obj_array[i]), obj_idx |-> i - 1]
          /\ node[obj2node[i]] = [hash_code |-> hash(obj_array[j]), obj_idx |-> j - 1]
      BY <1>3
    <3>2. i - 1 = j - 1
      BY <3>1
    <3> QED
      BY <3>2
  <2>3. \A p \in DOMAIN node : \E i \in 1 .. n : obj2node[i] = p
    BY <1>2 DEF Range
  <2> HIDE DEF n
  <2> QED
    BY <1>2, <2>1, <2>2, <2>3, InjectiveCount, SMTT(30)
<1>5. \A i \in Objs : /\ obj2node[i + 1] \in DOMAIN node
                      /\ node[obj2node[i + 1]]
                           = [hash_code |-> hash(obj_array[i + 1]), obj_idx |-> i]
  <2> SUFFICES ASSUME NEW i \in Objs
               PROVE  /\ obj2node[i + 1] \in DOMAIN node
                      /\ node[obj2node[i + 1]]
                           = [hash_code |-> hash(obj_array[i + 1]), obj_idx |-> i]
    OBVIOUS
  <2>1. i + 1 \in 1 .. n /\ (i + 1) - 1 = i
    BY <1>2 DEF Objs
  <2> QED
    BY <1>3, <2>1
<1>6. failed \/ DOMAIN node \subseteq 0 .. size - 1
  BY <1>1 DEF Inside
<1> QED
  BY <1>2, <1>4, <1>5, <1>6 DEF TableConsistent

\* Through every insert() and every rehash(), also one that fails half-way, the
\* nodes of the table and obj2node_ point to each other, one node for each
\* object, with the object's hash code and index.
THEOREM TableConsistentHolds == Spec => []TableConsistent
BY HTInvariant, InvConsistent, PTL

\* Until a rehash() fails, insert() stores no object twice, whatever collides.
THEOREM UniqueHolds == Spec => []UniqueUnlessRehashFailed
<1>1. HTInv => UniqueUnlessRehashFailed
  BY DEF HTInv
<1> QED
  BY HTInvariant, <1>1, PTL

LEMMA InvFound == HTInv => FoundUnlessStale
<1> SUFFICES ASSUME HTInv, size = Wanted, NEW o \in Objects
             PROVE  IF o \in Range(obj_array)
                    THEN find(o) \in Objs /\ obj_array[find(o) + 1] = o
                    ELSE find(o) = End
  BY DEF FoundUnlessStale, Wanted
<1>1. TypeOK /\ Mirror /\ Reachable
  BY DEF HTInv
<1>2. Used = DOMAIN node
  BY <1>1, UsedIs
<1>3. \A p \in Probe(o) : p \notin OthersSlots(o)
  BY FirstInPlace DEF Probe
<1>4. CASE o \in Range(obj_array)
  <2>1. PICK i \in 1 .. Len(obj_array) : obj_array[i] = o
    BY <1>1, <1>4, LenProperties DEF TypeOK, Range
  <2>2. PICK p \in Probe(o) : p \in DOMAIN node
    BY <1>1, <2>1, FoundInPlace
  <2>3. (CHOOSE q \in Probe(o) : TRUE) = p
    BY <1>1, <2>2, ProbeUnique
  <2>4. find(o) = node[p].obj_idx
    BY <1>2, <2>2, <2>3 DEF find
  <2> QED
    BY <1>1, <1>3, <1>4, <2>2, <2>4, NotOthers
<1>5. CASE o \notin Range(obj_array)
  <2>1. \A p \in Probe(o) : p \notin Used
    <3> SUFFICES ASSUME NEW p \in Probe(o), p \in DOMAIN node PROVE FALSE
      BY <1>2
    <3>1. node[p].obj_idx \in Objs /\ obj_array[node[p].obj_idx + 1] = o
      BY <1>1, <1>3, NotOthers
    <3>2. /\ DOMAIN obj_array = 1 .. Len(obj_array) /\ Len(obj_array) \in Nat
      BY <1>1, LenProperties DEF TypeOK
    <3>3. node[p].obj_idx + 1 \in DOMAIN obj_array
      BY <3>1, <3>2 DEF Objs
    <3> QED
      BY <1>5, <3>1, <3>3 DEF Range
  <2> QED
    BY <1>5, <2>1 DEF find
<1> QED
  BY <1>4, <1>5

\* Between two calls find() finds what insert() stored and nothing else,
\* unless a failed rehash() has left a table smaller than the strategy has it.
THEOREM FoundHolds == Spec => []FoundUnlessStale
BY HTInvariant, InvFound, PTL

-----------------------------------------------------------------------------
(* Hash_container_ *)

HTypes ==
    /\ container \in Seq(Type)
    /\ hashtable \in [Known -> Nat]
    /\ Known \subseteq Type

HInv == HTypes /\ IndexRight

LEMMA HInitInv == HInit => HInv
<1> SUFFICES ASSUME HInit PROVE HInv
  OBVIOUS
<1>1. container = <<>> /\ hashtable = <<>>
  BY DEF HInit
<1>2. Known = {}
  BY <1>1 DEF Known
<1>3. hashtable \in [Known -> Nat]
  BY <1>1, <1>2
<1> QED
  BY <1>1, <1>2, <1>3 DEF HInv, HTypes, IndexRight

LEMMA PushBackInv == ASSUME HInv, NEW v \in Type, push_back(v) PROVE HInv'
<1>1. HTypes /\ IndexRight
  BY DEF HInv
<1>2. /\ v \notin Known /\ container' = Append(container, v)
      /\ hashtable' = [w \in Known \cup {v} |-> IF w = v THEN Size ELSE hashtable[w]]
      /\ alone' = alone
  BY DEF push_back
<1>3. /\ container' \in Seq(Type) /\ Size \in Nat /\ Size' = Size + 1
      /\ container'[Size + 1] = v
      /\ \A i \in 1 .. Size : container'[i] = container[i]
  BY <1>1, <1>2, AppendProperties, LenProperties DEF HTypes, Size
<1>4. Known' = Known \cup {v}
  BY <1>2 DEF Known
<1>5. \A w \in Known : hashtable[w] \in Nat
  BY <1>1 DEF HTypes
<1>6. HTypes'
  BY <1>1, <1>2, <1>3, <1>4, <1>5 DEF HTypes
<1>7. ASSUME ~alone, NEW w \in Known'
      PROVE  hashtable'[w] < Size' /\ container'[hashtable'[w] + 1] = w
  <2>1. CASE w = v
    <3>1. hashtable'[w] = Size
      BY <1>2, <2>1
    <3> QED
      BY <1>3, <2>1, <3>1
  <2>2. CASE w # v
    <3>1. w \in Known /\ hashtable'[w] = hashtable[w]
      BY <1>2, <1>4, <2>2
    <3>2. hashtable[w] < Size /\ container[hashtable[w] + 1] = w
      BY <1>1, <1>7, <3>1 DEF IndexRight
    <3> QED
      BY <1>3, <1>5, <3>1, <3>2
  <2> QED
    BY <2>1, <2>2
<1>8. IndexRight'
  BY <1>2, <1>7 DEF IndexRight
<1> QED
  BY <1>6, <1>8 DEF HInv

LEMMA EraseInv == ASSUME HInv, NEW v \in Type, erase(v) PROVE HInv'
<1>1. HTypes /\ IndexRight
  BY DEF HInv
<1>2. /\ hashtable' = [w \in Known \ {v} |-> hashtable[w]]
      /\ container' = container /\ alone' = alone
  BY DEF erase, Restrict, Known
<1>3. Known' = Known \ {v} /\ Size' = Size
  BY <1>2 DEF Known, Size
<1>4. HTypes'
  BY <1>1, <1>2, <1>3 DEF HTypes
<1>5. IndexRight'
  BY <1>1, <1>2, <1>3 DEF IndexRight
<1> QED
  BY <1>4, <1>5 DEF HInv

LEMMA HStepInv == HInv /\ [HNext]_hvars => HInv'
<1> SUFFICES ASSUME HInv, [HNext]_hvars PROVE HInv'
  OBVIOUS
<1>1. ASSUME NEW v \in Type, push_back(v) PROVE HInv'
  BY <1>1, PushBackInv
<1>2. ASSUME NEW v \in Type, erase(v) PROVE HInv'
  BY <1>2, EraseInv
<1>3. ASSUME hashtable' = <<>>, container' \in Seq(Type) PROVE HInv'
  <2>1. Known' = {}
    BY <1>3 DEF Known
  <2> QED
    BY <1>3, <2>1 DEF HInv, HTypes, IndexRight
<1>4. CASE clear_hash
  BY <1>3, <1>4 DEF clear_hash, HInv, HTypes
<1>5. CASE clear_container
  <2>1. container' = <<>> /\ hashtable' = hashtable /\ alone'
    BY <1>5 DEF clear_container
  <2>2. Known' = Known
    BY <2>1 DEF Known
  <2> QED
    BY <2>1, <2>2 DEF HInv, HTypes, IndexRight
<1>6. CASE clear
  BY <1>3, <1>6 DEF clear
<1>7. CASE UNCHANGED hvars
  <2>1. container' = container /\ hashtable' = hashtable /\ alone' = alone
    BY <1>7 DEF hvars
  <2>2. Known' = Known /\ Size' = Size
    BY <2>1 DEF Known, Size
  <2> QED
    BY <2>1, <2>2 DEF HInv, HTypes, IndexRight
<1> QED
  BY <1>1, <1>2, <1>4, <1>5, <1>6, <1>7 DEF HNext

\* Whatever is inserted, erased and inserted again, find() gives for a value
\* the index at which push_back() or insert() stored it, as long as the vector
\* is not cleared by itself.
THEOREM IndexRightHolds == HSpec => []IndexRight
<1>1. HInv => IndexRight
  BY DEF HInv
<1> QED
  BY HInitInv, HStepInv, <1>1, PTL DEF HSpec

-----------------------------------------------------------------------------
(* The tables of is_prime() and next_prime() *)

\* None of 2, 3, 5 and 7 divides n.
Whole(n) == n % 2 # 0 /\ n % 3 # 0 /\ n % 5 # 0 /\ n % 7 # 0

LEMMA IndicesAreWhole ==
  \A k \in 1 .. 48 : /\ indices[k] \in 1 .. 209 /\ indices[k] \in Nat
                     /\ Whole(indices[k])
BY SMTT(60) DEF indices, Whole

LEMMA IndicesAreAll ==
  ASSUME NEW r \in 0 .. 209, Whole(r)
  PROVE  \E k \in 1 .. 48 : r = indices[k]
BY SMTT(60) DEF indices, Whole

LEMMA IndicesIncrease ==
  \A i, k \in 1 .. 48 : i < k => indices[i] < indices[k]
BY SMTT(60) DEF indices

LEMMA SmallPrimesAreAll ==
  ASSUME NEW d \in 2 .. 211, \A e \in {2, 3, 5, 7, 11, 13} : d # e => d % e # 0
  PROVE  \E j \in 2 .. 48 : d = small_primes[j]
BY SMTT(60) DEF small_primes

LEMMA SmallPrimesArePrime ==
  ASSUME NEW j \in 2 .. 48, NEW d \in 2 .. 14, d * d <= small_primes[j]
  PROVE  small_primes[j] % d # 0
BY SMTT(60) DEF small_primes

LEMMA SmallPrimesIncrease ==
  \A i, j \in 1 .. 48 : i < j => small_primes[i] < small_primes[j]
BY SMTT(60) DEF small_primes

LEMMA SmallPrimesRange ==
  \A j \in 1 .. 48 : /\ small_primes[j] \in 0 .. 211 /\ small_primes[j] \in Nat
                     /\ j >= 2 => small_primes[j] >= 2
BY SMTT(60) DEF small_primes

LEMMA Tables ==
    /\ DOMAIN small_primes = 1 .. 48 /\ Len(small_primes) = 48
    /\ small_primes[1] = 0 /\ small_primes[48] = 211
    /\ DOMAIN indices = 1 .. 48 /\ Len(indices) = 48
    /\ indices[1] = 1 /\ indices[48] = 209
    /\ DOMAIN Increments = 1 .. 48
BY DEF small_primes, indices, Increments

\* One turn of the wheel goes through the numbers that 2, 3, 5 and 7 do not
\* divide: the increments lead from each of the indices to the next.
LEMMA TurnsAreIndices ==
  ASSUME NEW k \in 1 .. 48
  PROVE  Turns[k] = indices[k] - 1
<1> DEFINE D == DOMAIN Increments
           f == [i \in D |-> indices[i] - 1]
           Rec(g) == [i \in D |-> IF i = 1 THEN 0 ELSE g[i - 1] + Increments[i - 1]]
<1>1. f = Rec(f)
  <2>1. \A i \in 2 .. 48 : indices[i] = indices[i - 1] + Increments[i - 1]
    BY SMTT(60) DEF indices, Increments
  <2>2. \A i \in 1 .. 48 : indices[i] \in Int
    BY SMTT(60) DEF indices
  <2>3. ASSUME NEW i \in 1 .. 48 PROVE f[i] = Rec(f)[i]
    <3>1. CASE i = 1
      BY <3>1, Tables
    <3>2. CASE i # 1
      <4>1. i \in 2 .. 48 /\ i - 1 \in 1 .. 48
        BY <3>2
      <4>2. f[i] = indices[i] - 1 /\ f[i - 1] = indices[i - 1] - 1
        BY <4>1, Tables
      <4>3. Increments[i - 1] \in Int
        BY <4>1, SMTT(60) DEF Increments
      <4> QED
        BY <2>1, <2>2, <4>1, <4>2, <4>3, Tables
    <3> QED
      BY <3>1, <3>2
  <2> QED
    BY <2>3, Tables
<1>2. Turns = CHOOSE g : g = Rec(g)
  BY DEF Turns
<1> HIDE DEF Rec, f
<1>3. Turns = Rec(Turns)
  BY <1>1, <1>2
<1>4. \A i \in 1 .. 48 : Turns[i] = IF i = 1 THEN 0 ELSE Turns[i - 1] + Increments[i - 1]
  BY <1>3, Tables DEF Rec
<1> DEFINE T == {i \in 1 .. 48 : Turns[i] # indices[i] - 1}
<1> SUFFICES ASSUME k \in T PROVE FALSE
  OBVIOUS
<1>5. PICK i \in T : \A m \in T : i <= m
  <2>1. T \subseteq Nat /\ T # {}
    OBVIOUS
  <2> QED
    BY <2>1, LeastNumber
<1>6. i # 1
  BY <1>4, <1>5, Tables
<1>7. i \in 2 .. 48 /\ i - 1 \in 1 .. 48 /\ i - 1 \notin T
  BY <1>5, <1>6
<1>8. indices[i] = indices[i - 1] + Increments[i - 1]
  BY <1>7, SMTT(60) DEF indices, Increments
<1>9. indices[i - 1] \in Int /\ Increments[i - 1] \in Int
  BY <1>7, SMTT(60) DEF indices, Increments
<1> QED
  BY <1>4, <1>5, <1>6, <1>7, <1>8, <1>9

-----------------------------------------------------------------------------
(* Divisors *)

\* Trying the divisors up to the root is enough, and only those are tried.
Divisible(n) == \E d \in Nat : d >= 2 /\ d * d <= n /\ n % d = 0

LEMMA PrimeMeans ==
  ASSUME NEW n \in Nat, n > 1
  PROVE  Prime(n) <=> ~ Divisible(n)
<1> DEFINE T == {r \in Nat : r * r > n}
<1>1. n + 1 \in T
  <2>1. (n + 1) * (n + 1) = n * n + 2 * n + 1 /\ n * n \in Nat
    OBVIOUS
  <2> QED
    BY <2>1
<1>2. PICK u \in T : \A m \in T : u <= m
  <2>1. T \subseteq Nat /\ T # {}
    BY <1>1
  <2> QED
    BY <2>1, LeastNumber
<1>3. u # 0 /\ u # 1
  BY <1>2
<1> DEFINE s == u - 1
<1>4. s \in Nat /\ s >= 1 /\ s * s <= n /\ (s + 1) * (s + 1) > n
  <2>1. s \in Nat /\ s >= 1 /\ s \notin T /\ s + 1 = u
    BY <1>2, <1>3
  <2> HIDE DEF s
  <2>2. s * s \in Nat /\ ~ (s * s > n)
    BY <2>1
  <2> QED
    BY <1>2, <2>1, <2>2
<1> HIDE DEF s
<1> DEFINE root == CHOOSE r \in 1 .. n : r * r <= n /\ (r + 1) * (r + 1) > n
<1>5. s \in 1 .. n
  <2>1. s <= s * s
    BY <1>4
  <2> QED
    BY <1>4, <2>1
<1>6. root \in 1 .. n /\ root * root <= n /\ (root + 1) * (root + 1) > n
  BY <1>4, <1>5
<1>7. Prime(n) <=> \A d \in 2 .. root : n % d # 0
  BY DEF Prime
<1> HIDE DEF root
<1>8. ASSUME NEW d \in Nat PROVE d <= root <=> d * d <= n
  <2>1. CASE d <= root
    <3>1. d * d <= root * root /\ root * root \in Nat /\ d * d \in Nat
      BY <1>6, <2>1, SquareLess
    <3> QED
      BY <1>6, <2>1, <3>1
  <2>2. CASE ~ (d <= root)
    <3>1. root + 1 \in Nat /\ root + 1 <= d
      BY <1>6, <2>2
    <3>2. (root + 1) * (root + 1) <= d * d /\ (root + 1) * (root + 1) \in Nat /\ d * d \in Nat
      BY <3>1, SquareLess
    <3> QED
      BY <1>6, <2>2, <3>2
  <2> QED
    BY <2>1, <2>2
<1>9. \A d : d \in 2 .. root <=> d \in Nat /\ d >= 2 /\ d * d <= n
  BY <1>6, <1>8
<1> QED
  BY <1>7, <1>9 DEF Divisible

LEMMA LeastDivisor ==
  ASSUME NEW n \in Nat, Divisible(n)
  PROVE  \E c \in Nat : /\ c >= 2 /\ c * c <= n /\ n % c = 0
                        /\ \A e \in Nat : e >= 2 /\ e < c => c % e # 0
<1> DEFINE T == {d \in Nat : d >= 2 /\ d * d <= n /\ n % d = 0}
<1>1. PICK c \in T : \A m \in T : c <= m
  <2>1. T \subseteq Nat /\ T # {}
    BY DEF Divisible
  <2> QED
    BY <2>1, LeastNumber
<1>2. ASSUME NEW e \in Nat, e >= 2, e < c, c % e = 0 PROVE FALSE
  <2>1. n % e = 0
    <3>1. e \in Nat \ {0} /\ c \in Nat \ {0} /\ n % c = 0
      BY <1>1, <1>2
    <3> QED
      BY <1>2, <3>1, DividesThrough
  <2>2. e * e <= c * c /\ e * e \in Nat /\ c * c \in Nat
    BY <1>1, <1>2, SquareLess
  <2>3. e \in T
    BY <1>1, <1>2, <2>1, <2>2
  <2>4. c <= e
    BY <1>1, <2>3
  <2> QED
    BY <1>1, <1>2, <2>4
<1> QED
  BY <1>1, <1>2

\* A least divisor is a small prime or on the wheel.
LEMMA LeastDivisorTried ==
  ASSUME NEW n \in Nat, NEW c \in Nat, c >= 2, c * c <= n,
         \A e \in Nat : e >= 2 /\ e < c => c % e # 0
  PROVE  (\E j \in 2 .. 47 : c = small_primes[j]) \/ c \in Wheel(n)
<1>1. CASE c < 211
  <2>1. \A e \in {2, 3, 5, 7, 11, 13} : c # e => c % e # 0
    BY <1>1
  <2>2. PICK j \in 2 .. 48 : c = small_primes[j]
    <3>1. c \in 2 .. 211
      BY <1>1
    <3> QED
      BY <2>1, <3>1, SmallPrimesAreAll
  <2>3. j # 48
    BY <1>1, <2>2, Tables
  <2>4. j \in 2 .. 47
    BY <2>3
  <2> QED
    BY <2>2, <2>4
<1>2. CASE c >= 211
  <2>1. Whole(c)
    BY <1>2 DEF Whole
  <2> DEFINE m == c \div 210
             r == c % 210
  <2>2. m \in Nat /\ r \in 0 .. 209 /\ c = 210 * m + r
    OBVIOUS
  <2> HIDE DEF m, r
  <2>3. Whole(r)
    BY <2>1, <2>2 DEF Whole
  <2>4. PICK k \in 1 .. 48 : r = indices[k]
    BY <2>2, <2>3, IndicesAreAll
  <2>5. Turns[k] = r - 1
    BY <2>4, TurnsAreIndices
  <2>6. m >= 1
    BY <1>2, <2>2
  <2> DEFINE t == m - 1
  <2>7. t \in Nat /\ c = 211 + 210 * t + Turns[k]
    BY <2>2, <2>5, <2>6
  <2>8. t <= n \div 44100
    <3>1. 210 * m <= c /\ 210 * m \in Nat
      BY <2>2
    <3>2. (210 * m) * (210 * m) <= c * c /\ c * c \in Nat
      BY <3>1, SquareLess
    <3>3. (210 * m) * (210 * m) = 44100 * (m * m)
      BY <2>2
    <3>4. m * m >= m /\ m * m \in Nat
      BY <2>2, <2>6
    <3>5. 44100 * m <= n
      BY <2>2, <3>2, <3>3, <3>4
    <3> QED
      BY <2>2, <3>5
  <2>9. t \in 0 .. n \div (L * L) /\ k \in DOMAIN Increments /\ L = 210
    BY <2>7, <2>8, Tables DEF L
  <2>10. c \in {211 + L * tt + Turns[kk] : tt \in 0 .. n \div (L * L), kk \in DOMAIN Increments}
    BY <2>7, <2>9
  <2> QED
    BY <2>10 DEF Wheel
<1> QED
  BY <1>1, <1>2

LEMMA WheelRange ==
  ASSUME NEW n \in Nat, NEW d \in Wheel(n)
  PROVE  d \in Nat /\ d >= 211
<1>1. PICK t \in 0 .. n \div (L * L), k \in DOMAIN Increments : d = 211 + L * t + Turns[k]
  BY DEF Wheel
<1>2. t \in Nat
  BY <1>1
<1>3. k \in 1 .. 48
  BY Tables
<1>4. Turns[k] = indices[k] - 1 /\ indices[k] \in 1 .. 209
  BY <1>3, TurnsAreIndices, IndicesAreWhole
<1> QED
  BY <1>1, <1>2, <1>4 DEF L

\* What divides by some of the small primes and by the wheel is right of the
\* numbers that the others do not divide.
LEMMA DividedMeans ==
  ASSUME NEW n \in Nat, NEW J \in SUBSET (4 .. 48),
         \A j \in 2 .. 47 : j \in J \/ n % small_primes[j] # 0
  PROVE  Divided(n, {small_primes[j] : j \in J} \cup Wheel(n)) <=> Divisible(n)
<1> DEFINE D == {small_primes[j] : j \in J} \cup Wheel(n)
<1>1. ASSUME Divided(n, D) PROVE Divisible(n)
  <2>1. PICK d \in D : d * d <= n /\ n % d = 0
    BY <1>1 DEF Divided
  <2>2. d \in Nat /\ d >= 2
    <3>1. CASE d \in Wheel(n)
      BY <3>1, WheelRange
    <3>2. CASE d \notin Wheel(n)
      <4>1. PICK j \in J : d = small_primes[j]
        BY <2>1, <3>2
      <4>2. j \in 4 .. 48
        OBVIOUS
      <4>3. j \in 1 .. 48 /\ j >= 2
        BY <4>2
      <4> QED
        BY <4>1, <4>3, SmallPrimesRange
    <3> QED
      BY <3>1, <3>2
  <2> QED
    BY <2>1, <2>2 DEF Divisible
<1>2. ASSUME Divisible(n) PROVE Divided(n, D)
  <2>1. PICK c \in Nat : /\ c >= 2 /\ c * c <= n /\ n % c = 0
                         /\ \A e \in Nat : e >= 2 /\ e < c => c % e # 0
    BY <1>2, LeastDivisor
  <2>2. c \in D
    BY <2>1, LeastDivisorTried
  <2> QED
    BY <2>1, <2>2 DEF Divided
<1> QED
  BY <1>1, <1>2

\* is_prime() of a number that 2 and 3 do not divide
LEMMA IsPrimeRight ==
  ASSUME NEW n \in Nat, n > 1, n % 2 # 0, n % 3 # 0
  PROVE  is_prime(n) <=> Prime(n)
<1> DEFINE J == 4 .. 48
<1>1. ASSUME NEW j \in 2 .. 47 PROVE j \in J \/ n % small_primes[j] # 0
  <2>1. small_primes[2] = 2 /\ small_primes[3] = 3
    BY DEF small_primes
  <2> QED
    BY <2>1
<1>2. Divided(n, {small_primes[j] : j \in J} \cup Wheel(n)) <=> Divisible(n)
  BY <1>1, DividedMeans
<1>3. is_prime(n) <=> ~ Divided(n, {small_primes[j] : j \in J} \cup Wheel(n))
  BY Tables DEF is_prime
<1> QED
  BY <1>2, <1>3, PrimeMeans

\* What next_prime() tries of a number on the wheel
LEMMA CandidateRight ==
  ASSUME candidate \in Nat, candidate > 211, Whole(candidate)
  PROVE  CandidateDivided <=> ~ Prime(candidate)
<1> DEFINE n == candidate
           J == 6 .. 47
<1>1. ASSUME NEW j \in 2 .. 47 PROVE j \in J \/ n % small_primes[j] # 0
  <2>1. small_primes[2] = 2 /\ small_primes[3] = 3 /\ small_primes[4] = 5 /\ small_primes[5] = 7
    BY DEF small_primes
  <2> QED
    BY <2>1 DEF Whole
<1>2. n \in Nat /\ n > 1
  OBVIOUS
<1>3. CandidateDivided <=> Divided(n, {small_primes[j] : j \in J} \cup Wheel(n))
  BY Tables DEF CandidateDivided
<1>5. J \in SUBSET (4 .. 48)
  OBVIOUS
<1> HIDE DEF n, J
<1>4. Divided(n, {small_primes[j] : j \in J} \cup Wheel(n)) <=> Divisible(n)
  BY <1>1, <1>2, <1>5, DividedMeans
<1> QED
  BY <1>2, <1>3, <1>4, PrimeMeans DEF n

LEMMA NotWholeNotPrime ==
  ASSUME NEW n \in Nat, n > 49, ~ Whole(n)
  PROVE  ~ Prime(n)
<1>1. PICK d \in {2, 3, 5, 7} : n % d = 0
  BY DEF Whole
<1>2. d \in Nat /\ d >= 2 /\ d * d <= n
  BY <1>1
<1>3. Divisible(n)
  BY <1>1, <1>2 DEF Divisible
<1>4. n > 1
  OBVIOUS
<1> QED
  BY <1>3, <1>4, PrimeMeans

-----------------------------------------------------------------------------
(* Small numbers *)

LEMMA SmallPrimesRight ==
  ASSUME NEW n \in 2 .. 211
  PROVE  Prime(n) <=> \E j \in 2 .. 48 : n = small_primes[j]
<1>1. ASSUME NEW j \in 2 .. 48, n = small_primes[j] PROVE Prime(n)
  <2>1. ASSUME NEW d \in Nat, d >= 2, d * d <= n, n % d = 0 PROVE FALSE
    <3>1. ~ (d >= 15)
      <4>1. d >= 15 => 15 * 15 <= d * d /\ d * d \in Nat
        BY SquareLess
      <4> QED
        BY <2>1, <4>1
    <3>2. d \in 2 .. 14
      BY <2>1, <3>1
    <3> QED
      BY <1>1, <2>1, <3>2, SmallPrimesArePrime
  <2> QED
    BY <2>1, PrimeMeans DEF Divisible
<1>2. ASSUME Prime(n) PROVE \E j \in 2 .. 48 : n = small_primes[j]
  <2>1. ~ Divisible(n)
    BY <1>2, PrimeMeans
  <2>2. ASSUME NEW e \in {2, 3, 5, 7, 11, 13}, n # e, n % e = 0 PROVE FALSE
    <3>1. CASE e * e <= n
      BY <2>1, <2>2, <3>1 DEF Divisible
    <3>2. CASE ~ (e * e <= n)
      <4> DEFINE q == n \div e
      <4>1. q \in Nat /\ n = e * q
        BY <2>2
      <4> HIDE DEF q
      <4>2. q < e
        BY <3>2, <4>1
      <4>3. q >= 2
        BY <2>2, <4>1
      <4>4. q * q <= n
        BY <4>1, <4>2, <4>3
      <4>5. n = q * e
        BY <4>1
      <4>6. n % q = 0
        BY <4>1, <4>3, <4>5, MultipleOf
      <4> QED
        BY <2>1, <4>1, <4>3, <4>4, <4>6 DEF Divisible
    <3> QED
      BY <3>1, <3>2
  <2> QED
    BY <2>2, SmallPrimesAreAll
<1> QED
  BY <1>1, <1>2

\* The first entry of an increasing table that is not below n
LEMMA LowerBound ==
  ASSUME NEW table, NEW n \in Nat, DOMAIN table = 1 .. 48,
         \A j \in 1 .. 48 : table[j] \in Nat, n <= table[48]
  PROVE  /\ lower_bound(table, n) \in 1 .. 48
         /\ table[lower_bound(table, n)] >= n
         /\ \A j \in 1 .. 48 : j < lower_bound(table, n) => table[j] < n
<1> DEFINE T == {j \in DOMAIN table : table[j] >= n}
<1>1. PICK i \in T : \A j \in T : i <= j
  <2>1. 48 \in T
    OBVIOUS
  <2>2. T \subseteq Nat /\ T # {}
    BY <2>1
  <2> QED
    BY <2>2, LeastNumber
<1>2. lower_bound(table, n) \in T /\ \A j \in T : lower_bound(table, n) <= j
  BY <1>1 DEF lower_bound, Min
<1> HIDE DEF T
<1>3. \A j : j \in T <=> j \in 1 .. 48 /\ table[j] >= n
  BY DEF T
<1> QED
  BY <1>2, <1>3

-----------------------------------------------------------------------------
(* next_prime() *)

\* Where the search is, every prime it was asked for is still ahead.
Reached == IF answer # -1 THEN answer ELSE IF in > 0 THEN candidate ELSE asked

PInv ==
    /\ asked \in Nat /\ asked \in Asked
    /\ k0 \in Nat /\ in \in 0 .. 48
    /\ answer = -1 /\ in > 0 => asked > 211 /\ candidate >= asked
    /\ answer # -1 => /\ answer \in Nat /\ answer >= asked
                      /\ Prime(answer) \/ (asked = 0 /\ answer = 0)
    /\ asked > 0 => \A n \in asked .. Reached - 1 : ~ Prime(n)

LEMMA CandidateWhole ==
  ASSUME k0 \in Nat, in \in 1 .. 48
  PROVE  candidate \in Nat /\ Whole(candidate)
<1>1. indices[in] \in 1 .. 209 /\ Whole(indices[in])
  BY IndicesAreWhole
<1>2. candidate = 210 * k0 + indices[in]
  BY DEF candidate, L
<1> QED
  BY <1>1, <1>2 DEF Whole

\* Between an index and the next no number is whole, nor between the last and
\* the first of the next turn.
LEMMA NothingBetween ==
  ASSUME NEW k \in Nat, NEW i \in 1 .. 48, NEW n \in Nat,
         n > 210 * k + indices[i],
         n < IF i = 48 THEN 210 * (k + 1) + indices[1] ELSE 210 * k + indices[i + 1]
  PROVE  ~ Whole(n)
<1> SUFFICES ASSUME Whole(n) PROVE FALSE
  OBVIOUS
<1>1. indices[i] \in 1 .. 209 /\ indices[1] = 1 /\ indices[48] = 209
  BY IndicesAreWhole, Tables
<1>2. CASE i = 48
  BY <1>1, <1>2 DEF Whole
<1>3. CASE i # 48
  <2> DEFINE r == n - 210 * k
  <2> DEFINE h == i + 1
  <2>1. h \in 1 .. 48 /\ h = i + 1 /\ n < 210 * k + indices[h]
    BY <1>3
  <2> HIDE DEF h
  <2>2. indices[h] \in 1 .. 209
    BY <2>1, IndicesAreWhole
  <2>3. r \in 0 .. 209 /\ indices[i] < r /\ r < indices[h] /\ n = 210 * k + r
    BY <1>1, <2>1, <2>2
  <2> HIDE DEF r
  <2>4. Whole(r)
    BY <2>3 DEF Whole
  <2>5. PICK j \in 1 .. 48 : r = indices[j]
    BY <2>3, <2>4, IndicesAreAll
  <2>6. j < i => indices[j] < indices[i]
    BY IndicesIncrease
  <2>7. h < j => indices[h] < indices[j]
    BY <2>1, IndicesIncrease
  <2>8. j < i \/ j = i \/ j = h \/ h < j
    BY <2>1
  <2> QED
    BY <1>1, <2>2, <2>3, <2>5, <2>6, <2>7, <2>8, SMTT(30)
<1> QED
  BY <1>2, <1>3

LEMMA PInitInv == PInit => PInv
BY PrimesAssumption DEF PInit, PInv, Reached

LEMMA SmallInv == ASSUME PInv, Small PROVE PInv'
<1> DEFINE j == lower_bound(small_primes, asked)
<1>1. asked \in Nat /\ asked <= 211 /\ answer' = small_primes[j]
      /\ asked' = asked /\ k0' = k0 /\ in' = in /\ in = 0
  BY Tables DEF PInv, Small
<1>2. \A i \in 1 .. 48 : small_primes[i] \in Nat
  BY SmallPrimesRange
<1>3. /\ j \in 1 .. 48 /\ small_primes[j] >= asked
      /\ \A i \in 1 .. 48 : i < j => small_primes[i] < asked
  BY <1>1, <1>2, Tables, LowerBound
<1> HIDE DEF j
<1>4. small_primes[j] \in 0 .. 211 /\ (j >= 2 => small_primes[j] >= 2)
  BY <1>3, SmallPrimesRange
<1>5. Prime(answer') \/ (asked' = 0 /\ answer' = 0)
  <2>1. CASE j = 1
    BY <1>1, <1>3, <2>1, Tables
  <2>2. CASE j # 1
    <3>1. j \in 2 .. 48 /\ small_primes[j] \in 2 .. 211
      BY <1>3, <1>4, <2>2
    <3> QED
      BY <1>1, <3>1, SmallPrimesRight
  <2> QED
    BY <2>1, <2>2
<1>6. ASSUME asked > 0, NEW n \in asked .. small_primes[j] - 1 PROVE ~ Prime(n)
  <2>1. CASE n = 1
    BY <2>1 DEF Prime
  <2>2. CASE n # 1
    <3>1. n \in 2 .. 211
      BY <1>1, <1>4, <1>6, <2>2
    <3>2. ASSUME NEW i \in 2 .. 48, n = small_primes[i] PROVE FALSE
      <4>1. i \in 1 .. 48
        OBVIOUS
      <4>2. ~ (i < j)
        BY <1>1, <1>3, <1>6, <3>2, <4>1
      <4>3. i # j
        BY <1>1, <1>4, <1>6, <3>2
      <4>4. j < i /\ j \in 1 .. 48
        BY <1>3, <4>1, <4>2, <4>3
      <4>5. small_primes[j] < small_primes[i]
        BY <4>1, <4>4, SmallPrimesIncrease
      <4> QED
        BY <1>1, <1>4, <1>6, <3>2, <4>5
    <3> QED
      BY <3>1, <3>2, SmallPrimesRight
  <2> QED
    BY <2>1, <2>2
<1>7. Reached' = small_primes[j]
  BY <1>1, <1>4 DEF Reached
<1> QED
  BY <1>1, <1>3, <1>4, <1>5, <1>6, <1>7 DEF PInv

LEMMA FirstInv == ASSUME PInv, First PROVE PInv'
<1> DEFINE m == asked \div L
           r == asked % L
           i == lower_bound(indices, r)
<1>1. /\ asked \in Nat /\ asked > 211 /\ answer = -1
      /\ k0' = m /\ in' = i /\ asked' = asked /\ answer' = answer
  BY Tables DEF PInv, First
<1>2. m \in Nat /\ r \in 0 .. 209 /\ asked = 210 * m + r
  BY <1>1 DEF L
<1>3. \A n \in 1 .. 48 : indices[n] \in Nat
  BY IndicesAreWhole
<1> HIDE DEF m, r
<1>4. /\ i \in 1 .. 48 /\ indices[i] >= r
      /\ \A n \in 1 .. 48 : n < i => indices[n] < r
  BY <1>2, <1>3, Tables, LowerBound
<1> HIDE DEF i
<1>5. candidate' = 210 * m + indices[i] /\ indices[i] \in 1 .. 209
  BY <1>1, <1>4, IndicesAreWhole DEF candidate, L
<1>6. ASSUME NEW n \in asked .. candidate' - 1 PROVE ~ Prime(n)
  <2>1. n \in Nat /\ n > 211 /\ n >= 210 * m + r /\ n < 210 * m + indices[i]
    BY <1>1, <1>2, <1>5
  <2>2. ASSUME Whole(n) PROVE FALSE
    <3> DEFINE q == n - 210 * m
    <3>1. q \in 0 .. 209 /\ q >= r /\ q < indices[i] /\ n = 210 * m + q
      BY <1>2, <1>5, <2>1
    <3> HIDE DEF q
    <3>2. Whole(q)
      BY <1>2, <2>2, <3>1 DEF Whole
    <3>3. PICK j \in 1 .. 48 : q = indices[j]
      BY <3>1, <3>2, IndicesAreAll
    <3>4. ~ (j < i) /\ j # i
      BY <1>2, <1>4, <1>5, <3>1, <3>3
    <3>5. i < j /\ i \in 1 .. 48
      BY <1>4, <3>4
    <3>6. indices[i] < indices[j]
      BY <3>5, IndicesIncrease
    <3> QED
      BY <1>5, <3>1, <3>3, <3>6
  <2> QED
    BY <2>1, <2>2, NotWholeNotPrime
<1>7. Reached' = candidate' /\ candidate' >= asked
  BY <1>1, <1>2, <1>4, <1>5 DEF Reached
<1> QED
  BY <1>1, <1>2, <1>4, <1>6, <1>7 DEF PInv

LEMMA FoundInv == ASSUME PInv, Found PROVE PInv'
<1>1. /\ asked \in Nat /\ asked > 211 /\ answer = -1 /\ k0 \in Nat /\ in \in 1 .. 48
      /\ answer' = candidate /\ k0' = k0 /\ in' = in /\ asked' = asked /\ ~ CandidateDivided
      /\ candidate >= asked /\ Reached = candidate
      /\ \A n \in asked .. candidate - 1 : ~ Prime(n)
  BY DEF PInv, Found, Reached
<1>2. candidate \in Nat /\ Whole(candidate)
  BY <1>1, CandidateWhole
<1>3. Prime(candidate)
  BY <1>1, <1>2, CandidateRight
<1>4. candidate >= asked
  BY <1>1
<1>5. Reached' = candidate
  BY <1>1, <1>2 DEF Reached
<1> QED
  BY <1>1, <1>2, <1>3, <1>4, <1>5 DEF PInv

LEMMA NextCandidateInv == ASSUME PInv, NextCandidate PROVE PInv'
<1>1. /\ asked \in Nat /\ asked > 211 /\ answer = -1 /\ k0 \in Nat /\ in \in 1 .. 48
      /\ IF in = 48 THEN k0' = k0 + 1 /\ in' = 1 ELSE k0' = k0 /\ in' = in + 1
      /\ answer' = answer /\ asked' = asked /\ CandidateDivided
      /\ candidate >= asked /\ Reached = candidate
      /\ \A n \in asked .. candidate - 1 : ~ Prime(n)
  BY Tables DEF PInv, NextCandidate, Reached
<1>2. candidate \in Nat /\ Whole(candidate) /\ candidate = 210 * k0 + indices[in]
  BY <1>1, CandidateWhole DEF candidate, L
<1>3. ~ Prime(candidate)
  BY <1>1, <1>2, CandidateRight
<1>4. k0' \in Nat /\ in' \in 1 .. 48
  BY <1>1
<1>5. candidate' = IF in = 48 THEN 210 * (k0 + 1) + indices[1] ELSE 210 * k0 + indices[in + 1]
  BY <1>1 DEF candidate, L
<1>6. candidate' \in Nat /\ candidate' > candidate
  <2>1. indices[in] \in 1 .. 209 /\ indices[1] = 1
    BY <1>1, IndicesAreWhole, Tables
  <2>2. CASE in = 48
    BY <1>1, <1>2, <1>5, <2>1, <2>2
  <2>3. CASE in # 48
    <3> DEFINE h == in + 1
    <3>1. h \in 1 .. 48 /\ in < h /\ candidate' = 210 * k0 + indices[h]
      BY <1>1, <1>5, <2>3
    <3> HIDE DEF h
    <3>2. indices[h] \in 1 .. 209 /\ indices[in] < indices[h]
      BY <1>1, <3>1, IndicesAreWhole, IndicesIncrease
    <3>3. /\ k0 \in Nat /\ indices[h] \in Nat /\ indices[in] \in Nat
          /\ indices[in] < indices[h]
      BY <1>1, <2>1, <3>2
    <3> QED
      BY <1>2, <3>1, <3>3
  <2> QED
    BY <2>2, <2>3
<1> DEFINE next == candidate'
<1>7. next \in Nat /\ next > candidate
  BY <1>6
<1> HIDE DEF next
<1>8. ASSUME NEW n \in asked .. next - 1 PROVE ~ Prime(n)
  <2>1. n \in Nat /\ n > 211 /\ n < next
    BY <1>1, <1>7
  <2>2. CASE n <= candidate
    BY <1>1, <1>2, <1>3, <2>1, <2>2
  <2>3. CASE n > candidate
    <3>1. ~ Whole(n)
      BY <1>1, <1>2, <1>5, <2>1, <2>3, NothingBetween DEF next
    <3> QED
      BY <2>1, <3>1, NotWholeNotPrime
  <2> QED
    BY <1>2, <2>1, <2>2, <2>3
<1>9. Reached' = candidate'
  BY <1>1, <1>4 DEF Reached
<1>10. candidate' >= asked
  <2>1. candidate' \in Nat /\ candidate' > candidate
    BY <1>6
  <2> QED
    BY <1>1, <1>2, <2>1
<1> QED
  BY <1>1, <1>4, <1>8, <1>9, <1>10 DEF PInv, next

LEMMA PStepInv == PInv /\ [PNext]_pvars => PInv'
<1> SUFFICES ASSUME PInv, [PNext]_pvars PROVE PInv'
  OBVIOUS
<1>1. CASE UNCHANGED pvars
  BY <1>1 DEF PInv, Reached, candidate, pvars
<1> QED
  BY <1>1, SmallInv, FirstInv, FoundInv, NextCandidateInv DEF PNext

\* Whatever number next_prime() is asked for, it returns the smallest prime that
\* is not below it (0 for 0), and is_prime() is right of every number that 2
\* and 3 do not divide: the tables and the increments of the wheel leave out no
\* divisor and no candidate.
THEOREM NextPrimeIsNextHolds == PSpec => []NextPrimeIsNext
<1>1. PInv => NextPrimeIsNext
  <2> SUFFICES ASSUME PInv PROVE NextPrimeIsNext
    OBVIOUS
  <2>1. asked > 3 /\ asked % 2 # 0 /\ asked % 3 # 0 => (is_prime(asked) <=> Prime(asked))
    BY IsPrimeRight DEF PInv
  <2> QED
    BY <2>1 DEF PInv, NextPrimeIsNext, Reached
<1> QED
  BY PInitInv, PStepInv, <1>1, PTL DEF PSpec
=============================================================================
