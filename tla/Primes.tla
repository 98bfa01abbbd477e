------------------------------- MODULE Primes -------------------------------
(***************************************************************************)
(* is_prime() and next_prime() (utility.cpp). Numbers are divided by the   *)
(* small primes and then by the numbers a wheel of 210 goes through, which *)
(* leaves out the multiples of 2, 3, 5 and 7, until the square of the      *)
(* divisor is above the number. next_prime(), which the hash table takes   *)
(* its sizes from, looks at the numbers of the wheel one after the other.  *)
(* Numbers have no largest: where a size_t would wrap is not modelled.     *)
(***************************************************************************)
EXTENDS Integers, Sequences, FiniteSetsExt

CONSTANT Asked          \* the numbers next_prime() is called with

ASSUME PrimesAssumption == Asked \subseteq Nat

VARIABLES asked, k0, in,        \* the candidate is L * k0 + indices[in]
          answer                \* what it has returned; -1 before

pvars == <<asked, k0, in, answer>>

L == 210

\* An index of the tables below is the code's, from 0, and one.
small_primes ==
    <<0, 2, 3, 5, 7, 11, 13, 17, 19, 23, 29, 31, 37, 41, 43, 47, 53, 59,
      61, 67, 71, 73, 79, 83, 89, 97, 101, 103, 107, 109, 113, 127, 131,
      137, 139, 149, 151, 157, 163, 167, 173, 179, 181, 191, 193, 197,
      199, 211>>

indices ==
    <<1, 11, 13, 17, 19, 23, 29, 31, 37, 41, 43, 47, 53, 59, 61, 67, 71,
      73, 79, 83, 89, 97, 101, 103, 107, 109, 113, 121, 127, 131, 137,
      139, 143, 149, 151, 157, 163, 167, 169, 173, 179, 181, 187, 191,
      193, 197, 199, 209>>

\* What the divisor grows by, from 211 to 211 + L, and again.
Increments ==
    <<10, 2, 4, 2, 4, 6, 2, 6, 4, 2, 4, 6, 6, 2, 6, 4, 2, 6, 4, 6, 8, 4,
      2, 4, 2, 4, 8, 6, 4, 6, 2, 4, 6, 2, 6, 6, 4, 2, 4, 6, 2, 6, 4, 2, 4,
      2, 10, 2>>

\* Where the wheel is after each step of a turn.
Turns[k \in DOMAIN Increments] == IF k = 1 THEN 0 ELSE Turns[k - 1] + Increments[k - 1]
Wheel(n) == {i \in {211 + L * t + Turns[k] : t \in 0 .. n \div (L * L), k \in DOMAIN Increments} :
                i * i <= n}

\* A divisor was met before one whose square is above n.
Divided(n, divisors) == \E d \in divisors : d * d <= n /\ n % d = 0

\* The small primes are tried from 5 on.
is_prime(n) == ~Divided(n, {small_primes[j] : j \in 4 .. Len(small_primes)} \cup Wheel(n))

-----------------------------------------------------------------------------
(* next_prime() *)

PInit == asked \in Asked /\ k0 = 0 /\ in = 0 /\ answer = -1

lower_bound(table, n) == Min({j \in DOMAIN table : table[j] >= n})

candidate == L * k0 + indices[in]

Small ==
    /\ answer = -1 /\ in = 0
    /\ asked <= small_primes[Len(small_primes)]
    /\ answer' = small_primes[lower_bound(small_primes, asked)]
    /\ UNCHANGED <<asked, k0, in>>

First ==
    /\ answer = -1 /\ in = 0
    /\ asked > small_primes[Len(small_primes)]
    /\ k0' = asked \div L
    /\ in' = lower_bound(indices, asked % L)
    /\ UNCHANGED <<asked, answer>>

\* Mutant: the small primes are tried from 13 on.
CandidateDividedFrom13 ==
    Divided(candidate, {small_primes[j] : j \in 7 .. Len(small_primes) - 1} \cup Wheel(candidate))

\* The small primes are tried from 11 on, without 211.
CandidateDivided ==
    Divided(candidate, {small_primes[j] : j \in 6 .. Len(small_primes) - 1} \cup Wheel(candidate))

Found ==
    /\ answer = -1 /\ in > 0 /\ ~CandidateDivided
    /\ answer' = candidate
    /\ UNCHANGED <<asked, k0, in>>

NextCandidate ==
    /\ answer = -1 /\ in > 0 /\ CandidateDivided
    /\ IF in = Len(indices) THEN k0' = k0 + 1 /\ in' = 1 ELSE k0' = k0 /\ in' = in + 1
    /\ UNCHANGED <<asked, answer>>

PNext == Small \/ First \/ Found \/ NextCandidate

PSpec == PInit /\ [][PNext]_pvars
-----------------------------------------------------------------------------
(* Properties *)

Prime(n) == n > 1 /\ LET root == CHOOSE r \in 1 .. n : r * r <= n /\ (r + 1) * (r + 1) > n
                     IN \A d \in 2 .. root : n % d # 0

\* next_prime() goes over no prime number and returns none but a prime (0 for
\* 0), so that it is the next one; and is_prime() is right of every number that
\* 2 and 3, which it does not try, do not divide.
NextPrimeIsNext ==
    /\ answer # -1 => answer >= asked /\ (Prime(answer) \/ (asked = 0 /\ answer = 0))
    /\ asked > 0 =>
           LET reached == IF answer # -1 THEN answer ELSE IF in > 0 THEN candidate ELSE asked
           IN \A n \in asked .. reached - 1 : ~Prime(n)
    /\ asked > 3 /\ asked % 2 # 0 /\ asked % 3 # 0 => (is_prime(asked) <=> Prime(asked))
=============================================================================
