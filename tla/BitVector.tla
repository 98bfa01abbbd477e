----------------------------- MODULE BitVector -----------------------------
(***************************************************************************)
(* BitVector (BitVector.h): a number of bits in an array of words, the     *)
(* first bit the most significant of the first word. The bits of the last  *)
(* word beyond the size are its tail, which every search goes through.     *)
(* Words have W bits here (64 or 32 in the code, which is the same twice). *)
(*                                                                         *)
(* Setting or asking for bits in all words works on the last word, and is  *)
(* undefined while there is none.                                          *)
(***************************************************************************)
EXTENDS BitHack

CONSTANTS W,            \* the bits of a word
          MaxBits       \* bound on the size

ASSUME BitVectorAssumption == W \in Nat \ {0} /\ MaxBits \in Nat

VARIABLES size_, bv_,
          clean         \* history: no tail, or all bits were set after the size

bvars == <<size_, bv_, clean>>

Word == [1 .. W -> {0, 1}]

word_size_(bitsize) == (bitsize + W - 1) \div W

BInit == size_ = 0 /\ bv_ = <<>> /\ clean = TRUE

\* The words with the tail of the last one cleared by a size of n bits; a
\* shift by the whole width changes nothing.
reset_tail_(words, n) ==
    [w \in DOMAIN words |->
        IF w # Len(words) \/ n % W = 0 THEN words[w]
        ELSE [i \in 1 .. W |-> IF i <= n % W THEN words[w][i] ELSE 0]]

\* Position pos is in word and at place (both from 1).
word(pos) == pos \div W + 1
place(pos) == (pos % W) + 1
bit(pos) == bv_[word(pos)][place(pos)]

test(pos) == pos < size_ /\ bit(pos) = 1

-----------------------------------------------------------------------------
(* Changing the bits *)

\* Mutant: the tail is not cleared.
EachWordTail(f) ==
    /\ bv_ # <<>>
    /\ bv_' = [w \in DOMAIN bv_ |-> [i \in 1 .. W |-> f[bv_[w][i]]]]
    /\ clean' = TRUE
    /\ UNCHANGED size_

\* set(), flip() (and reset(), with no tail to clear) of every bit
EachWord(f) ==
    /\ bv_ # <<>>
    /\ bv_' = reset_tail_([w \in DOMAIN bv_ |-> [i \in 1 .. W |-> f[bv_[w][i]]]], size_)
    /\ clean' = TRUE
    /\ UNCHANGED size_

\* set(pos), reset(pos) and flip(pos): the rest of the words stays.
Bit(pos, f) ==
    /\ pos < size_
    /\ bv_' = [bv_ EXCEPT ![word(pos)][place(pos)] = f[@]]
    /\ UNCHANGED <<size_, clean>>

\* A word the array gets is one it had before it shrank, or anything. The tail
\* is cleared by the size as it was (undefined where no word is left). This is
\* also the first half of BitVector(sz, set_), EachWord the second.
Resize(n) ==
    \E words \in [1 .. word_size_(n) -> Word] :
        /\ \A w \in DOMAIN words : w \in DOMAIN bv_ => words[w] = bv_[w]
        /\ n < size_ => word_size_(n) > 0
        /\ bv_' = IF n < size_ THEN reset_tail_(words, size_) ELSE words
        /\ size_' = n
        /\ clean' = (n % W = 0)

\* BitVector(v): one word as it is
FromWord == bv_' \in [1 .. 1 -> Word] /\ size_' = W /\ clean' = TRUE

-----------------------------------------------------------------------------
(* Asking for them *)

popcnt_(n) ==
    LET lword == word_size_(n)
        res[w \in 0 .. lword - 1] ==
            IF w = 0 THEN 0 ELSE res[w - 1] + Cardinality(Ones(bv_[w]))
    IN res[lword - 1] + popcnt(bv_[lword], n % W)

WithOnes == {w \in DOMAIN bv_ : Ones(bv_[w]) # {}}

first_bit1_ == IF WithOnes = {} THEN NotFound
               ELSE LET w == Min(WithOnes) IN (w - 1) * W + first_bit1(bv_[w])
last_bit1_ == IF WithOnes = {} THEN NotFound
              ELSE LET w == Max(WithOnes) IN (w - 1) * W + last_bit1(bv_[w])

next_bit1(pos) ==
    LET here == first_bit1_from(bv_[word(pos)], place(pos) - 1)
        later == {w \in WithOnes : w > word(pos)}
    IN IF here # NotFound THEN (word(pos) - 1) * W + here
       ELSE IF later = {} THEN NotFound
       ELSE (Min(later) - 1) * W + first_bit1(bv_[Min(later)])

\* The indices of the ones, from the first to the last; meant for a vector
\* with a one in it (the code writes beyond an empty list otherwise).
get_indices1 ==
    LET at[n \in 0 .. MaxBits + W] ==
            CASE n = 0 -> first_bit1_
              [] n > 0 /\ at[n - 1] = NotFound -> NotFound
              [] OTHER -> next_bit1(at[n - 1])
        found == {n \in DOMAIN at : at[n] \in 0 .. last_bit1_}
    IN [n \in 1 .. Cardinality(found) |-> at[n - 1]]

-----------------------------------------------------------------------------
BNext == \/ \E n \in 0 .. MaxBits : Resize(n)
         \/ \E f \in {<<1, 1>>, <<0, 0>>, <<1, 0>>} :
                LET g == [b \in {0, 1} |-> f[b + 1]] IN
                \/ EachWord(g)
                \/ \E pos \in 0 .. MaxBits - 1 : Bit(pos, g)
         \/ FromWord

BSpec == BInit /\ [][BNext]_bvars
-----------------------------------------------------------------------------
(* Properties *)

\* However the vector came to its size, the ones among its first n bits are
\* counted right, and the searches that go through its ones from the first to
\* the last, or from any position to the next, find those that test() sees and no
\* other, unless there is a tail and no set(), reset() or flip() of all bits
\* since the last resize(), which leaves ones there that count as found.
OnesFound ==
    LET ones == {pos \in 0 .. size_ - 1 : test(pos)}
        c == get_indices1
    IN
    /\ \A n \in 1 .. size_ : popcnt_(n) = Cardinality({pos \in ones : pos < n})
    /\ clean /\ ones # {} =>
           /\ {c[i] : i \in DOMAIN c} = ones
           /\ \A i, j \in DOMAIN c : i < j => c[i] < c[j]
           /\ Len(c) = popcnt_(size_)
           /\ \A pos \in 0 .. size_ - 1 :
                  next_bit1(pos) = LET later == {q \in ones : q > pos} IN
                                   IF later = {} THEN NotFound ELSE Min(later)
=============================================================================
