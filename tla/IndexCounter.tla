---------------------------- MODULE IndexCounter ----------------------------
(***************************************************************************)
(* Permutations (utility.h): a tuple of indices, each below its cardinal,  *)
(* as a counter whose first index is the lowest digit. Copies share        *)
(* nothing; the move operations, after which both objects free the same    *)
(* indices, are left out.                                                  *)
(***************************************************************************)
EXTENDS Integers, Sequences, FiniteSetsExt

CONSTANT Cardinals      \* the tuples of cardinals to construct with

ASSUME CardinalsAssumption == Cardinals \subseteq Seq(Nat \ {0})

VARIABLES cardinals_, indices_,
          told          \* history: where the calls since the last seekp(p) have
                        \* brought it; -1 while the indices are not valid

ivars == <<cardinals_, indices_, told>>

rank == Len(cardinals_)
Digits == 1 .. rank

\* How many tuples the first i digits make, which is what a step of the next
\* one counts: acc in tellp().
Weight[i \in 0 .. rank] == IF i = 0 THEN 1 ELSE Weight[i - 1] * cardinals_[i]
size == Weight[rank]

IInit == /\ cardinals_ \in Cardinals
         /\ indices_ = [i \in DOMAIN cardinals_ |-> 0]
         /\ told = 0

Number(v) == LET pos[i \in 0 .. rank] == IF i = 0 THEN 0 ELSE pos[i - 1] + v[i] * Weight[i - 1]
             IN pos[rank]
tellp == Number(indices_)

valid_indices(v) == \A i \in Digits : v[i] < cardinals_[i]

\* Indices that are not valid are stored before seekp() throws.
seekp_indices(v) ==
    /\ indices_' = v
    /\ told' = IF valid_indices(v) THEN Number(v) ELSE -1
    /\ UNCHANGED cardinals_

At(p) == [i \in Digits |-> (p \div Weight[i - 1]) % cardinals_[i]]

seekp(p) ==
    /\ indices_' = At(p)
    /\ told' = p % size
    /\ UNCHANGED cardinals_

\* Mutant: next() leaves the digits it carries over as they are.
next_carry ==
    LET carried == {i \in Digits : indices_[i] < cardinals_[i] - 1}
        stop == IF carried = {} THEN rank + 1 ELSE Min(carried)
    IN /\ indices_' = [i \in Digits |-> IF i = stop THEN indices_[i] + 1 ELSE indices_[i]]
       /\ told' = IF told = -1 THEN -1 ELSE (told + 1) % size
       /\ UNCHANGED cardinals_

\* The digits before the first that is not at its end start again.
next ==
    LET room == {i \in Digits : indices_[i] < cardinals_[i] - 1}
        stop == IF room = {} THEN rank + 1 ELSE Min(room)
    IN /\ indices_' = [i \in Digits |-> CASE i < stop -> 0
                                         [] i = stop -> indices_[i] + 1
                                         [] OTHER -> indices_[i]]
       /\ told' = IF told = -1 THEN -1 ELSE (told + 1) % size
       /\ UNCHANGED cardinals_

prev ==
    LET room == {i \in Digits : indices_[i] > 0}
        stop == IF room = {} THEN rank + 1 ELSE Min(room)
    IN /\ indices_' = [i \in Digits |-> CASE i < stop -> cardinals_[i] - 1
                                         [] i = stop -> indices_[i] - 1
                                         [] OTHER -> indices_[i]]
       /\ told' = IF told = -1 THEN -1 ELSE (told - 1) % size
       /\ UNCHANGED cardinals_

\* One past its cardinal for an index; one past the size for a place.
INext == \/ \E v \in [Digits -> 0 .. size] :
               (\A i \in Digits : v[i] <= cardinals_[i]) /\ seekp_indices(v)
         \/ \E p \in 0 .. size : seekp(p)
         \/ next \/ prev

ISpec == IInit /\ [][INext]_ivars
-----------------------------------------------------------------------------
(* Properties *)

\* next() and prev() go round all tuples in the order in which tellp() numbers
\* them, over either end, from wherever seekp() has put the counter, and
\* seekp() of what tellp() says leads back, as long as no seekp() has thrown;
\* from then on the indices it stored may stay invalid.
CountsInOrder ==
    told # -1 => /\ valid_indices(indices_)
                 /\ tellp = told
                 /\ At(tellp) = indices_
=============================================================================
