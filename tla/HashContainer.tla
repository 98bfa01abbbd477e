--------------------------- MODULE HashContainer ---------------------------
(***************************************************************************)
(* Hash_container_ (hash_table.h): a vector of values and a hash table of  *)
(* the index of each. A caller keeps the indices it is given. erase()      *)
(* forgets a value in the hash table and leaves its place in the vector.   *)
(***************************************************************************)
EXTENDS Integers, Sequences, Functions

CONSTANTS Type,         \* the values
          MaxLen        \* bound on the length of the vector

VARIABLES container, hashtable,
          alone         \* history: was clear_container() called by itself?

hvars == <<container, hashtable, alone>>

Size == Len(container)
Known == DOMAIN hashtable

HInit == container = <<>> /\ hashtable = <<>> /\ alone = FALSE

\* Mutant: the index is that of the place after the value.
push_back_past(v) ==
    /\ v \notin Known
    /\ Size < MaxLen
    /\ container' = Append(container, v)
    /\ hashtable' = [w \in Known \cup {v} |-> IF w = v THEN Size + 1 ELSE hashtable[w]]
    /\ UNCHANGED alone

\* push_back() and insert() of a value that is not known; of one that is they
\* return its index.
push_back(v) ==
    /\ v \notin Known
    /\ Size < MaxLen
    /\ container' = Append(container, v)
    /\ hashtable' = [w \in Known \cup {v} |-> IF w = v THEN Size ELSE hashtable[w]]
    /\ UNCHANGED alone

erase(v) ==
    /\ v \in Known
    /\ hashtable' = Restrict(hashtable, Known \ {v})
    /\ UNCHANGED <<container, alone>>

clear_hash == hashtable' = <<>> /\ alone' = FALSE /\ UNCHANGED container

\* The indices stay as they are and lead nowhere, or to other values later.
clear_container == container' = <<>> /\ alone' = TRUE /\ UNCHANGED hashtable

clear == container' = <<>> /\ hashtable' = <<>> /\ alone' = FALSE

HNext == \/ \E v \in Type : push_back(v) \/ erase(v)
         \/ clear_hash \/ clear_container \/ clear

HSpec == HInit /\ [][HNext]_hvars
-----------------------------------------------------------------------------
(* Properties *)

\* find() gives the index of the value: each known value is at its index,
\* whatever was erased, cleared and stored again before, unless the vector
\* was cleared without the hash table.
IndexRight ==
    alone \/ \A v \in Known : hashtable[v] < Size /\ container[hashtable[v] + 1] = v
=============================================================================
