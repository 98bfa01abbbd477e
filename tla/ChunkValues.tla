---------------------------- MODULE ChunkValues ----------------------------
(***************************************************************************)
(* What ChunkArray promises: each handle is a sequence of its own. Its     *)
(* first elements survive every change of size; those a growing size       *)
(* uncovers may hold anything.                                             *)
(***************************************************************************)
EXTENDS Integers, Sequences, SequencesExt

CONSTANTS Handles, Values, Default, Dead, Null

VARIABLE val            \* the sequence each handle stands for, Dead or Null

Alive(s) == s \notin {Dead, Null}

Init == val = [h \in Handles |-> Dead]

(* What an operation makes of a handle's value: s before, t after. *)

New(s, t) == s = Dead /\ Alive(t) /\ t = [i \in 1 .. Len(t) |-> Default]
Destroy(s, t) == s # Dead /\ t = Dead
Write(s, t) == Alive(s) /\ \E i \in DOMAIN s, v \in Values : t = [s EXCEPT ![i] = v]

\* The elements below the smaller of the two sizes stay.
SizeChange(s, t) == Alive(s) /\ Alive(t) /\ (IsPrefix(s, t) \/ IsPrefix(t, s))

\* h becomes equal to g; the source of a move is left without a value.
Copy(h, g) == val[g] # Dead /\ val' = [val EXCEPT ![h] = val[g]]
Move(h, g) == val[h] = Dead /\ val[g] # Dead /\ val' = [val EXCEPT ![h] = val[g], ![g] = Null]

Next == \E h \in Handles :
    \/ /\ \A g \in Handles \ {h} : val'[g] = val[g]
       /\ \E s \in {val[h]}, t \in {val'[h]} :
              New(s, t) \/ Destroy(s, t) \/ Write(s, t) \/ SizeChange(s, t)
    \/ \E g \in Handles : Copy(h, g) \/ Move(h, g)

Spec == Init /\ [][Next]_val
=============================================================================
