----------------------------- MODULE LazyArray -----------------------------
(***************************************************************************)
(* LazyArray (array.h): a handle points to a reference-counted block; a    *)
(* copy shares the block, and an operation that changes it first makes     *)
(* sure the block is the handle's alone.                                   *)
(*                                                                         *)
(* A block's elements are the slots below its size; a slot no constructor  *)
(* has run on holds Raw. The slots from the size to the capacity are raw   *)
(* memory in every state and are left out.                                 *)
(***************************************************************************)
EXTENDS Integers, Sequences, FiniteSets, SequencesExt, BitHack

CONSTANTS Handles,      \* the LazyArray objects of the program
          Values,       \* what an element may hold
          Default,      \* what StorageType() holds
          Raw,          \* memory without an object
          Dead, Null,   \* no object; a moved-from object, rep == nullptr
          MaxSize,      \* bound on the sizes an operation asks for
          NBlocks,      \* bound on the blocks allocated at a time
          MaxLeaks      \* bound on the blocks among them that have leaked

ASSUME LazyArrayAssumption ==
    /\ Default \in Values /\ Raw \notin Values
    /\ Dead # Null
    /\ MaxSize \in Nat /\ NBlocks \in Nat /\ MaxLeaks \in Nat
    /\ {Dead, Null} \cap (1 .. NBlocks) = {}
    /\ {Dead, Null} \cap Seq(Values \cup {Raw}) = {}     \* not contents

VARIABLES rep,          \* the block of each handle
          cap, data, ref    \* of each block: Ref_array_traits_

vars == <<rep, cap, data, ref>>

BlockIds == 1 .. NBlocks
Size(b) == Len(data[b])
Alive(h) == rep[h] \in BlockIds

\* A block is free when it was never allocated or was deleted.
Free == -1
FreeBlocks == {b \in BlockIds : ref[b] = Free}
Fresh == CHOOSE b \in FreeBlocks : \A c \in FreeBlocks : b <= c

\* The blocks an array lost when it was moved to itself stay allocated.
Leaked == {b \in BlockIds : ref[b] = 0}


Init == /\ rep = [h \in Handles |-> Dead]
        /\ cap = [b \in BlockIds |-> 0]
        /\ data = [b \in BlockIds |-> <<>>]
        /\ ref = [b \in BlockIds |-> Free]

-----------------------------------------------------------------------------
(* Blocks *)

\* "new impl_t(c)" filled with s, for a handle whose block was old: with
\* others left on it the old block loses one reference, else it is deleted.
Replace(h, old, c, s) ==
    LET b == Fresh IN
    /\ FreeBlocks # {}
    /\ rep' = [rep EXCEPT ![h] = b]
    /\ IF ref[old] = 1
       THEN /\ ref' = [ref EXCEPT ![b] = 1, ![old] = Free]
            /\ cap' = [cap EXCEPT ![b] = c, ![old] = 0]
            /\ data' = [data EXCEPT ![b] = s, ![old] = <<>>]
       ELSE /\ ref' = [ref EXCEPT ![b] = 1, ![old] = @ - 1]
            /\ cap' = [cap EXCEPT ![b] = c]
            /\ data' = [data EXCEPT ![b] = s]

\* Mutant: the block is written although other handles share it.
UpdateInPlace(h, s) ==
    /\ data' = [data EXCEPT ![rep[h]] = s]
    /\ UNCHANGED <<rep, cap, ref>>

\* The elements of h become s in its own block, which is detached first: a
\* shared block is copied with its capacity.
Update(h, s) ==
    LET b == rep[h] IN
    IF ref[b] = 1
    THEN data' = [data EXCEPT ![b] = s] /\ UNCHANGED <<rep, cap, ref>>
    ELSE Replace(h, b, cap[b], s)

\* "if (rep && --rep->ref == 0) delete rep", for the block of one handle.
Drop(b) ==
    IF ref[b] = 1
    THEN /\ ref' = [ref EXCEPT ![b] = Free]
         /\ cap' = [cap EXCEPT ![b] = 0]
         /\ data' = [data EXCEPT ![b] = <<>>]
    ELSE ref' = [ref EXCEPT ![b] = @ - 1] /\ UNCHANGED <<cap, data>>

-----------------------------------------------------------------------------
(* Constructors, assignment, destructor *)

\* LazyArray() and LazyArray(sz): an empty array with room for next_pow2(sz).
New(h, n) ==
    /\ rep[h] = Dead
    /\ FreeBlocks # {}
    /\ rep' = [rep EXCEPT ![h] = Fresh]
    /\ ref' = [ref EXCEPT ![Fresh] = 1]
    /\ cap' = [cap EXCEPT ![Fresh] = next_pow2(n)]
    /\ data' = data

\* Mutant: the reference is not counted.
CopyCtorUncounted(h, g) ==
    /\ rep[h] = Dead /\ rep[g] # Dead
    /\ rep' = [rep EXCEPT ![h] = rep[g]]
    /\ UNCHANGED <<cap, data, ref>>

\* LazyArray(const LazyArray&): a moved-from source gives a moved-from copy.
CopyCtor(h, g) ==
    /\ rep[h] = Dead /\ rep[g] # Dead
    /\ rep' = [rep EXCEPT ![h] = rep[g]]
    /\ ref' = IF Alive(g) THEN [ref EXCEPT ![rep[g]] = @ + 1] ELSE ref
    /\ UNCHANGED <<cap, data>>

\* LazyArray(LazyArray&&)
MoveCtor(h, g) ==
    /\ rep[h] = Dead /\ rep[g] # Dead
    /\ rep' = [rep EXCEPT ![h] = rep[g], ![g] = Null]
    /\ UNCHANGED <<cap, data, ref>>

\* operator=(const LazyArray&). The source must not be moved-from: the code
\* dereferences its rep.
CopyAssign(h, g) ==
    /\ rep[h] # Dead /\ Alive(g)
    /\ rep[g] # rep[h]
    /\ rep' = [rep EXCEPT ![h] = rep[g]]
    /\ LET old == rep[h] IN
       IF old \in BlockIds /\ ref[old] = 1
       THEN /\ ref' = [ref EXCEPT ![old] = Free, ![rep[g]] = @ + 1]
            /\ cap' = [cap EXCEPT ![old] = 0]
            /\ data' = [data EXCEPT ![old] = <<>>]
       ELSE /\ ref' = [b \in BlockIds |-> IF b = old THEN ref[b] - 1
                                          ELSE IF b = rep[g] THEN ref[b] + 1 ELSE ref[b]]
            /\ UNCHANGED <<cap, data>>

\* Mutant: the reference of the source is forgotten.
MoveAssignSameCounted(h, g) ==
    /\ rep[h] # Dead /\ rep[g] = rep[h] /\ h # g
    /\ rep' = [rep EXCEPT ![g] = Null]
    /\ UNCHANGED <<cap, data, ref>>

\* operator=(LazyArray&&), two handles of one block or one handle twice: the
\* reference of the source is dropped, without a test for the last one.
MoveAssignSame(h, g) ==
    /\ rep[h] # Dead /\ rep[g] = rep[h]
    /\ Alive(h) /\ ref[rep[h]] = 1 => Cardinality(Leaked) < MaxLeaks
    /\ ref' = IF Alive(h) THEN [ref EXCEPT ![rep[h]] = @ - 1] ELSE ref
    /\ rep' = [rep EXCEPT ![g] = Null]
    /\ UNCHANGED <<cap, data>>

\* operator=(LazyArray&&) otherwise
MoveAssign(h, g) ==
    /\ rep[h] # Dead /\ rep[g] # Dead /\ rep[g] # rep[h]
    /\ rep' = [rep EXCEPT ![h] = rep[g], ![g] = Null]
    /\ IF Alive(h) THEN Drop(rep[h]) ELSE UNCHANGED <<cap, data, ref>>

Destroy(h) ==
    /\ rep[h] # Dead
    /\ rep' = [rep EXCEPT ![h] = Dead]
    /\ IF Alive(h) THEN Drop(rep[h]) ELSE UNCHANGED <<cap, data, ref>>

-----------------------------------------------------------------------------
(* Operations. Each needs a handle with a block: rep is not tested. *)

\* begin(), end(), data(), last(): the block is detached and a pointer into
\* it returned.
Detach(h) == Alive(h) /\ Update(h, data[rep[h]])

\* operator[](i) = v, and at(i) = v below the size.
Write(h, i, v) ==
    /\ Alive(h)
    /\ i \in 1 .. Size(rep[h])
    /\ Update(h, [data[rep[h]] EXCEPT ![i] = v])

Reserve(h, n) ==
    LET b == rep[h] IN
    /\ Alive(h)
    /\ n > cap[b]
    /\ Replace(h, b, next_pow2(n), data[b])

\* Mutant: one slot more than the capacity is taken for room.
UpdateRoomOffByOne(h, n, s) ==
    IF n > cap[rep[h]] + 1 THEN Replace(h, rep[h], next_pow2(n), s) ELSE Update(h, s)

\* The elements s of h in a block with room for n: the block it has, which
\* is detached, or a larger one, reserved.
UpdateRoom(h, n, s) ==
    IF n > cap[rep[h]] THEN Replace(h, rep[h], next_pow2(n), s) ELSE Update(h, s)

\* resize(n); also what at(n - 1) does beyond the size.
Resize(h, n) ==
    LET s == data[rep[h]] IN
    /\ Alive(h)
    /\ n # Len(s)
    /\ UpdateRoom(h, n, [i \in 1 .. n |-> IF i <= Len(s) THEN s[i] ELSE Default])

\* insert_at(pos, v), pos = p - 1: also push_back (at the size) and insert
\* (up to the size). In a block of the handle's own that has elements every
\* new slot is constructed before v is assigned to slot p; in a block
\* without elements, or in the copy of a shared one, none is: v is assigned to
\* raw memory, and the slots of a gap stay raw.
InsertAtPos(h, p, v) ==
    LET b == rep[h]
        s == data[b]
        n == (IF p - 1 > Len(s) THEN p - 1 ELSE Len(s)) + 1
        alone == ref[b] = 1 \/ n > cap[b]
        gap == IF alone /\ s # <<>> THEN Default ELSE Raw
        t == [i \in 1 .. n |-> CASE i = p -> v
                                 [] i < p /\ i <= Len(s) -> s[i]
                                 [] i < p /\ i > Len(s) -> gap
                                 [] i > p -> s[i - 1]]
    IN /\ Alive(h)
       /\ n <= MaxSize
       /\ IF n > cap[b] THEN Replace(h, b, next_pow2(n), t)
          ELSE IF ref[b] = 1 THEN Update(h, t)
          ELSE Replace(h, b, n, t)

\* erase(pos, n), pos = p - 1: n is cut to what is there; clear() is
\* erase(0, size).
Erase(h, p, n) ==
    LET s == data[rep[h]]
        m == IF n > Len(s) - p + 1 THEN Len(s) - p + 1 ELSE n
    IN /\ Alive(h)
       /\ p <= Len(s) /\ n > 0
       /\ Update(h, SubSeq(s, 1, p - 1) \o SubSeq(s, p + m, Len(s)))

ShrinkToFit(h) ==
    LET b == rep[h] IN
    /\ Alive(h)
    /\ Size(b) # cap[b]
    /\ Replace(h, b, Size(b), data[b])

\* append(): with room for one more element the size grows over a slot that
\* is left as it is; else an element is inserted at the end.
AppendSlot(h) ==
    LET b == rep[h] IN
    /\ Alive(h)
    /\ Size(b) < MaxSize
    /\ IF Size(b) + 1 <= cap[b]
       THEN Update(h, Append(data[b], Raw))
       ELSE InsertAtPos(h, Size(b) + 1, Default)

\* Mutant: a shared block is turned over in place.
TurnShared(h) == Alive(h) /\ UpdateInPlace(h, Reverse(data[rep[h]]))

\* reverse()
Turn(h) == Alive(h) /\ Update(h, Reverse(data[rep[h]]))

Step(h) ==
    \/ \E n \in 0 .. MaxSize : New(h, n) \/ Reserve(h, n) \/ Resize(h, n)
    \/ \E g \in Handles : \/ CopyCtor(h, g) \/ MoveCtor(h, g) \/ CopyAssign(h, g)
                          \/ MoveAssignSame(h, g) \/ MoveAssign(h, g)
    \/ Destroy(h) \/ Detach(h) \/ ShrinkToFit(h) \/ AppendSlot(h) \/ Turn(h)
    \/ \E i \in 1 .. MaxSize, v \in Values : Write(h, i, v) \/ InsertAtPos(h, i, v)
    \/ \E i \in 1 .. MaxSize, n \in 1 .. MaxSize : Erase(h, i, n)

Next == \E h \in Handles : Step(h)

Spec == Init /\ [][Next]_vars
-----------------------------------------------------------------------------
(* Properties *)

Live(b) == ref[b] # Free
Users(b) == {h \in Handles : rep[h] = b}

\* The types; no block holds more elements than it has room for.
TypeOK ==
    /\ rep \in [Handles -> BlockIds \cup {Dead, Null}]
    /\ cap \in [BlockIds -> Nat]
    /\ data \in [BlockIds -> Seq(Values \cup {Raw})]
    /\ ref \in [BlockIds -> Nat \cup {Free}]
    /\ \A b \in BlockIds : Size(b) <= cap[b]

\* A block's count is the number of handles that point to it, and no handle
\* points to a deleted block: through every copy, move and detaching change
\* no block is deleted early or written while another handle reads it.
RefsCounted ==
    \A b \in BlockIds : IF Live(b) THEN ref[b] = Cardinality(Users(b)) ELSE Users(b) = {}

\* A block goes with its last handle: no step leaves an allocated block
\* without a handle, but moving the last one to itself, where
\* operator=(LazyArray&&) does not test for it.
OnlySelfMoveLeaks ==
    [][\A b \in BlockIds :
          Users(b) # {} /\ (\A h \in Handles : rep'[h] # b) =>
              ref'[b] = Free \/ \E h \in Handles : MoveAssignSame(h, h)]_vars

\* What append() returns is an object, which the caller assigns to. The code
\* grows the size over a slot no constructor has run on when there is room.
AppendGivesObject ==
    [][\A h \in Handles :
           AppendSlot(h) => LET s == data'[rep'[h]] IN s[Len(s)] # Raw]_vars

\* Sharing cannot be seen: every handle is a value of its own.
ValueOf(h) == IF Alive(h) THEN data[rep[h]] ELSE rep[h]
Arrays == INSTANCE ArrayValues WITH val <- [h \in Handles |-> ValueOf(h)]
ImplementsValues == Arrays!Spec
=============================================================================
