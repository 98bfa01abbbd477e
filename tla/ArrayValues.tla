---------------------------- MODULE ArrayValues ----------------------------
(***************************************************************************)
(* What the arrays of array.h promise: each handle is a value of its own.  *)
(* An operation on one handle reads at most one other and changes no value *)
(* but its own (and, for a move, its source's); sharing of blocks between  *)
(* the handles cannot be seen. Elements an operation is not given a value  *)
(* for are whatever it left in their slots, Raw included.                  *)
(***************************************************************************)
EXTENDS Integers, Sequences, SequencesExt

CONSTANTS Handles, Values, Default, Raw, Dead, Null

VARIABLE val            \* the sequence each handle stands for, Dead or Null

Content == Values \cup {Raw}
Alive(s) == s \notin {Dead, Null}

Init == val = [h \in Handles |-> Dead]

(* What an operation makes of a handle's value: s before, t after. *)

New(s, t) == s = Dead /\ t = <<>>
Destroy(s, t) == s # Dead /\ t = Dead
Turn(s, t) == Alive(s) /\ t = Reverse(s)

Write(s, t) == Alive(s) /\ \E i \in DOMAIN s, v \in Values : t = [s EXCEPT ![i] = v]

\* Elements go at the end, or some of Default are added.
Resize(s, t) ==
    /\ Alive(s) /\ Alive(t)
    /\ t = [i \in 1 .. Len(t) |-> IF i <= Len(s) THEN s[i] ELSE Default]

\* v goes before what was at position p; a gap is filled with anything.
Insert(s, t) ==
    /\ Alive(s) /\ Alive(t)
    /\ \/ Len(t) = Len(s) + 1
          /\ \E p \in 1 .. Len(s) + 1, v \in Values : t = InsertAt(s, p, v)
       \/ Len(t) > Len(s) + 1
          /\ SubSeq(t, 1, Len(s)) = s /\ t[Len(t)] \in Values

Append1(s, t) == Alive(s) /\ \E x \in Content : t = Append(s, x)

\* The elements i .. j go.
Erase(s, t) ==
    /\ Alive(s)
    /\ \E i, j \in DOMAIN s :
           i <= j /\ t = SubSeq(s, 1, i - 1) \o SubSeq(s, j + 1, Len(s))

\* h becomes equal to g; the source of a move is left without a value.
Copy(h, g) == val[g] # Dead /\ val' = [val EXCEPT ![h] = val[g]]
Move(h, g) == val[g] # Dead /\ val' = [val EXCEPT ![h] = val[g], ![g] = Null]

Next == \E h \in Handles :
    \/ /\ \A g \in Handles \ {h} : val'[g] = val[g]
       /\ \E s \in {val[h]}, t \in {val'[h]} :
              \/ New(s, t) \/ Destroy(s, t) \/ Turn(s, t) \/ Write(s, t) \/ Resize(s, t)
              \/ Insert(s, t) \/ Append1(s, t) \/ Erase(s, t)
    \/ \E g \in Handles : Copy(h, g) \/ Move(h, g)

Spec == Init /\ [][Next]_val
=============================================================================
