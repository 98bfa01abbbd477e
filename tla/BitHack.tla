------------------------------ MODULE BitHack ------------------------------
(***************************************************************************)
(* bit_hack.h: the helpers on machine words. A word is a sequence of W     *)
(* bits, the most significant first, so that a position of the code (from  *)
(* the most significant bit, from 0) is an index less one.                 *)
(***************************************************************************)
EXTENDS Integers, Sequences, FiniteSetsExt

NotFound == -1          \* size_t(-1)

\* A power of two is a number of which every divisor but 1 is even.
IsPow2(p) == \A d, q \in 1 .. p : p = d * q => d = 1 \/ d % 2 = 0

\* The smallest power of two that is not below n; 0 for 0.
next_pow2(n) == IF n = 0 THEN 0 ELSE CHOOSE p \in n .. 2 * n - 1 : IsPow2(p)

Ones(word) == {i \in DOMAIN word : word[i] = 1}

\* The number of ones among the first pos bits; of all, when pos is past the
\* word, and for pos = 0 too where the shift by the whole width changes nothing.
popcnt(word, pos) ==
    LET n == IF pos = 0 THEN Len(word) ELSE pos IN
    Cardinality({i \in Ones(word) : i <= n})

first_bit1(word) == IF Ones(word) = {} THEN NotFound ELSE Min(Ones(word)) - 1
last_bit1(word)  == IF Ones(word) = {} THEN NotFound ELSE Max(Ones(word)) - 1

\* The first one after position pos.
first_bit1_from(word, pos) ==
    LET later == {i \in Ones(word) : i - 1 > pos} IN
    IF later = {} THEN NotFound ELSE Min(later) - 1
=============================================================================
