----------------------------- MODULE HashTable -----------------------------
(***************************************************************************)
(* Hash_table_ (hash_table.h): objects are kept in the order of insertion, *)
(* and an open-addressing table of nodes, each a hash code and the index   *)
(* of an object, finds them. A node is looked for in the few slots of a    *)
(* bucket; a full bucket makes insert() rehash into a larger table.        *)
(*                                                                         *)
(* Indices into obj_array_ count from 0 as in the code. mutex_ is held for *)
(* a whole insert(), so its steps are those of one thread; erase() tests   *)
(* its iterator and changes nothing, and is left out.                      *)
(***************************************************************************)
EXTENDS Integers, Sequences, FiniteSets, FiniteSetsExt, Functions

CONSTANTS Objects,
          Code,         \* what the hasher gives for each object
          Strategy,     \* the table and bucket sizes next() steps through
          OwnRehash,    \* bound on the steps taken by the program's rehash()
          NoObject      \* obj before the first insert()

ASSUME HashTableAssumption ==
    /\ Code \in [Objects -> Nat]
    /\ Strategy \in Seq([table_size : Nat \ {0}, bucket_size : Nat \ {0}])
    /\ \A k, l \in DOMAIN Strategy :       \* as next() has it
           k < l => Strategy[k].table_size < Strategy[l].table_size
    /\ OwnRehash \in 1 .. Len(Strategy)

VARIABLES level,        \* how often strategy_.next() was called, and one
          size,         \* table_.size()
          node,         \* of the slots in use: the nodes of table_
          obj_array, obj2node,
          placed,       \* rehash(): new_obj2node, as far as it is filled
          pc, obj,      \* the step of the running call; insert()'s argument
          ret,          \* the index in the iterator insert() returned
          failed        \* history: has a rehash() failed?

vars == <<level, size, node, obj_array, obj2node, placed, pc, obj, ret, failed>>

End == -1               \* the iterator end()

\* r_ times 1.3 at each step, thrice that for the bucket; the table more than
\* doubles, up to a prime.
next_prime(n) ==
    CHOOSE p \in n .. 2 * n :
        /\ p > 1 /\ \A d \in 2 .. p - 1 : p % d # 0
        /\ \A q \in n .. p - 1 : \E d \in 2 .. q - 1 : q % d = 0
Default_rehash_strategy(n) ==
    LET table_size[k \in 1 .. n] == IF k = 1 THEN 3 ELSE next_prime(2 * table_size[k - 1] + 1)
    IN [k \in 1 .. n |-> [table_size |-> table_size[k],
                          bucket_size |-> (3 * 13 ^ (k - 1)) \div 10 ^ (k - 1)]]

\* Mutant: the hash code of an empty slot is taken as it comes.
hashAsIs(o) == Code[o]

\* An empty slot is one whose hash code is 0, so no object may have that.
hash(o) == IF Code[o] = 0 THEN 2989 ELSE Code[o]

\* Mutant: a probe that runs on over the end of the table.
BucketUnwrapped(hc, m, l) ==
    [k \in 1 .. Strategy[l].bucket_size |-> (hc % Strategy[l].table_size) + k - 1]

\* The slots a hash code may use, in order, in a table of size m at step l of
\* the strategy. A position past the end is brought back by one subtraction
\* of m at each step, k of them at the k-th slot: too few when the strategy
\* is two steps ahead of the table.
Bucket(hc, m, l) ==
    LET start == hc % Strategy[l].table_size IN
    [k \in 1 .. Strategy[l].bucket_size |->
        start + k - 1 - m * Min({k, (start + k - 1) \div m})]

\* The first slot of a bucket that is not among the slots taken, if any.
FirstOf(bucket, taken) ==
    {bucket[k] : k \in {k \in DOMAIN bucket :
                           /\ bucket[k] \notin taken
                           /\ \A j \in 1 .. k - 1 : bucket[j] \in taken}}

\* A slot in which no node was stored reads as hash code 0, also beyond the
\* table's size: ChunkArray clears its memory and grows it on access.
Used == {p \in DOMAIN node : node[p].hash_code # 0}
OthersSlots(o) == {p \in Used : \/ node[p].hash_code # hash(o)
                                \/ obj_array[node[p].obj_idx + 1] # o}

\* The first slot of o's bucket that is empty or holds o, if any.
Probe(o) == FirstOf(Bucket(hash(o), size, level), OthersSlots(o))

\* find(o) is end() or an iterator with this index.
find(o) == IF \E p \in Probe(o) : p \in Used
           THEN node[CHOOSE p \in Probe(o) : TRUE].obj_idx
           ELSE End

Init == /\ level = 1 /\ size = Strategy[1].table_size
        /\ node = <<>>
        /\ obj_array = <<>> /\ obj2node = <<>> /\ placed = <<>>
        /\ pc = "idle" /\ obj = NoObject /\ ret = End
        /\ failed = FALSE

-----------------------------------------------------------------------------
(* insert() *)

Insert(o) ==
    /\ pc = "idle"
    /\ pc' = "insert_obj" /\ obj' = o /\ ret' = End
    /\ UNCHANGED <<level, size, node, obj_array, obj2node, placed, failed>>

\* insert() returns an iterator with index i.
Return(i) == pc' = "idle" /\ ret' = i /\ obj' = NoObject

\* push_back() of the object, and its node into slot p.
Store(p) ==
    /\ obj_array' = Append(obj_array, obj)
    /\ obj2node' = Append(obj2node, p)
    /\ node' = [q \in DOMAIN node \cup {p} |->
                   IF q = p THEN [hash_code |-> hash(obj), obj_idx |-> Len(obj_array)]
                   ELSE node[q]]

\* Mutant: a slot that holds the object is passed over.
InsertNewAgain ==
    /\ pc = "insert_obj"
    /\ \E pos \in FirstOf(Bucket(hash(obj), size, level), Used) : Store(pos)
    /\ Return(Len(obj_array))
    /\ UNCHANGED <<level, size, placed, failed>>

\* insert_obj_() with an empty slot in the bucket.
InsertNew ==
    /\ pc = "insert_obj"
    /\ \E pos \in Probe(obj) : pos \notin Used /\ Store(pos)
    /\ Return(Len(obj_array))
    /\ UNCHANGED <<level, size, placed, failed>>

\* insert_obj_() with the object in the bucket: the iterator is made of the
\* slot, not of the object's index.
InsertExisting ==
    /\ pc = "insert_obj"
    /\ \E pos \in Probe(obj) : pos \in Used /\ Return(pos)
    /\ UNCHANGED <<level, size, node, obj_array, obj2node, placed, failed>>

\* insert_obj_() with a full bucket: insert() rehashes, however often it takes.
InsertFull ==
    /\ pc = "insert_obj"
    /\ Probe(obj) = {}
    /\ pc' = "rehash"
    /\ UNCHANGED <<level, size, node, obj_array, obj2node, placed, obj, ret, failed>>

-----------------------------------------------------------------------------
(* rehash(), from insert() or called by the program *)

\* Mutant: the strategy stays where it is.
RehashSame ==
    /\ pc = "rehash"
    /\ placed' = <<>>
    /\ pc' = "insert_node"
    /\ UNCHANGED <<level, size, node, obj_array, obj2node, obj, ret, failed>>

\* The strategy goes one step further, whatever comes of the new table.
Rehash ==
    /\ pc = "rehash" \/ (pc = "idle" /\ level < OwnRehash)
    /\ level < Len(Strategy)
    /\ level' = level + 1
    /\ placed' = <<>>
    /\ pc' = "insert_node"
    /\ UNCHANGED <<size, node, obj_array, obj2node, obj, ret, failed>>

\* insert_node_() of the next object's node: its bucket in the new table.
NewBucket == Bucket(node[obj2node[Len(placed) + 1]].hash_code,
                    Strategy[level].table_size, level)

InsertNode ==
    /\ pc = "insert_node" /\ Len(placed) < Len(obj_array)
    /\ \E p \in FirstOf(NewBucket, Range(placed)) : placed' = Append(placed, p)
    /\ UNCHANGED <<level, size, node, obj_array, obj2node, pc, obj, ret, failed>>

\* rehash() is over; insert() tries its object again.
RehashDone == placed' = <<>> /\ pc' = IF obj = NoObject THEN "idle" ELSE "insert_obj"

\* Mutant: a full bucket is overlooked, and what was placed taken over.
RehashFailsHalf ==
    /\ pc = "insert_node" /\ Len(placed) < Len(obj_array)
    /\ Range(NewBucket) \subseteq Range(placed)
    /\ size' = Strategy[level].table_size
    /\ node' = [p \in Range(placed) |->
                   node[obj2node[CHOOSE i \in DOMAIN placed : placed[i] = p]]]
    /\ failed' = TRUE
    /\ RehashDone
    /\ UNCHANGED <<level, obj2node, obj_array, obj, ret>>

\* A full bucket in the new table: the old one stays.
RehashFails ==
    /\ pc = "insert_node" /\ Len(placed) < Len(obj_array)
    /\ Range(NewBucket) \subseteq Range(placed)
    /\ failed' = TRUE
    /\ RehashDone
    /\ UNCHANGED <<level, size, node, obj_array, obj2node, obj, ret>>

\* Mutant: the slots of the objects are not taken over.
TakeNewTableOnly ==
    /\ pc = "insert_node" /\ Len(placed) = Len(obj_array)
    /\ size' = Strategy[level].table_size
    /\ node' = [p \in Range(placed) |->
                   node[obj2node[CHOOSE i \in DOMAIN placed : placed[i] = p]]]
    /\ RehashDone
    /\ UNCHANGED <<level, obj_array, obj2node, obj, ret, failed>>

\* Every node has its slot in the new table, which becomes the table.
TakeNewTable ==
    /\ pc = "insert_node" /\ Len(placed) = Len(obj_array)
    /\ size' = Strategy[level].table_size
    /\ obj2node' = placed
    /\ node' = [p \in Range(placed) |->
                   node[obj2node[CHOOSE i \in DOMAIN placed : placed[i] = p]]]
    /\ RehashDone
    /\ UNCHANGED <<level, obj_array, obj, ret, failed>>

Next == \/ \E o \in Objects : Insert(o)
        \/ InsertNew \/ InsertExisting \/ InsertFull
        \/ Rehash \/ InsertNode \/ RehashFails \/ TakeNewTable

\* insert() is a plain loop: a call that was made goes on.
Fairness == WF_vars(pc # "idle" /\ Next)

Spec == Init /\ [][Next]_vars /\ Fairness
-----------------------------------------------------------------------------
(* Properties *)

Objs == 0 .. Len(obj_array) - 1

\* The types; no probe leaves the table the strategy asks for.
TypeOK ==
    /\ level \in DOMAIN Strategy
    /\ size \in {Strategy[l].table_size : l \in 1 .. level}
    /\ \A p \in DOMAIN node :
          /\ p \in 0 .. Strategy[level].table_size - 1
          /\ node[p] \in [hash_code : Nat \ {0}, obj_idx : Objs]
    /\ obj_array \in Seq(Objects) /\ obj2node \in Seq(Nat)
    /\ placed \in Seq(0 .. Strategy[level].table_size - 1)
    /\ pc \in {"idle", "insert_obj", "rehash", "insert_node"}
    /\ obj \in Objects \cup {NoObject}
    /\ ret \in Nat \cup {End}
    /\ failed \in BOOLEAN

\* rehash() reads each node at obj2node_ and find() each object at a node's
\* index: the two tables mirror each other, whatever rehash() failed before.
\* As long as none did, every node lies inside the table.
TableConsistent ==
    /\ Len(obj2node) = Len(obj_array)
    /\ Cardinality(DOMAIN node) = Len(obj_array)
    /\ \A i \in Objs : LET p == obj2node[i + 1] IN
          /\ p \in DOMAIN node
          /\ node[p] = [hash_code |-> hash(obj_array[i + 1]), obj_idx |-> i]
    /\ failed \/ DOMAIN node \subseteq 0 .. size - 1

\* Between two calls, whenever the table is the one its strategy asks for,
\* find() finds every object that was inserted, objects with equal hash codes
\* too, and others not at all. From a failed rehash() to the next good one it
\* need not.
FoundUnlessStale ==
    pc = "idle" /\ size = Strategy[level].table_size =>
        \A o \in Objects :
            IF o \in Range(obj_array)
            THEN find(o) \in Objs /\ obj_array[find(o) + 1] = o
            ELSE find(o) = End

\* As long as no rehash() has failed, no object is in the array twice.
UniqueUnlessRehashFailed == failed \/ IsInjective(obj_array)

\* No object is in the array twice: "obj array must contain unique value!",
\* the assertion of insert_node_().
UniqueObjects == IsInjective(obj_array)

\* insert() returns an iterator to the object: "<iter of obj_array, inserted>".
InsertReturnsObject ==
    [][InsertNew \/ InsertExisting =>
          ret' < Len(obj_array') /\ obj_array'[ret' + 1] = obj]_vars

\* insert() returns: its loop has no bound of its own (tries stays 0), and
\* ends only because each rehash() widens the buckets.
InsertEnds == pc # "idle" ~> pc = "idle"
=============================================================================
