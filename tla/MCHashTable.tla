---------------------------- MODULE MCHashTable ----------------------------
(* HashTable for TLC: an object is what the hasher gives for it. *)
EXTENDS HashTable

\* The first five steps of the strategy, written out.
Steps == <<[table_size |-> 3, bucket_size |-> 3], [table_size |-> 7, bucket_size |-> 3],
           [table_size |-> 17, bucket_size |-> 5], [table_size |-> 37, bucket_size |-> 6],
           [table_size |-> 79, bucket_size |-> 8]>>
ASSUME StepsAssumption == Steps = Default_rehash_strategy(5)

\* Codes that collide in the tables of 3, 7 and 17 slots, so that a rehash
\* fails; a hash of 0 is taken for 2989, so two objects share a code.
Codes == {0, 2989, 14, 31, 48, 65}
CodeOf == [o \in Codes |-> o]
=============================================================================
