---------------------------- MODULE MCUtilities ----------------------------
(***************************************************************************)
(* The classes of the library that keep to themselves, for TLC: one of     *)
(* them is chosen and runs, the others stay in an initial state.           *)
(***************************************************************************)
EXTENDS HashContainer, TextItems, Service, BitVector, IndexCounter, Primes, JsonReader

VARIABLE kind           \* the class that runs

vars == <<kind, hvars, tvars, svars, bvars, ivars, pvars, jvars>>

Symmetry == Permutations(Type)

-----------------------------------------------------------------------------
(* TextItems: a quote, an escape, two bytes of separators and spaces, a word *)

It == {"q", "e", "s", "w", "x"}
MCItems == {<<a>> : a \in UNION {[1 .. n -> It] : n \in 0 .. 3}}
           \cup UNION {{<<a, b>> : a \in UNION {[1 .. n -> It] : n \in 0 .. 2}} :
                          b \in UNION {[1 .. n -> It] : n \in 0 .. 2}}
MCSeparators == {<<"s">>, <<"s", "s">>}
MCEscapes == {<<"q">>, <<"e">>}
MCQuote == <<"q">>

(* Service: the second and the third subscriber hash to the same value. *)
MCAddress == 1 :> 2 @@ 2 :> 1 @@ 3 :> 1

MCCardinals == {<<2, 3>>, <<3, 1, 2>>, <<1>>}

(* Primes: small ones, the end of a turn, and around the squares of 211, 217,
   223 and 421. *)
MCAsked == 0 .. 230 \cup 620 .. 630 \cup 44515 .. 44560 \cup 47040 .. 47060 \cup 49720 .. 49740 \cup 177230 .. 177250

-----------------------------------------------------------------------------
(* JsonReader: documents written of values of up to four parts, of up to   *)
(* three with a comment or of two with two, and those of up to seven tokens. *)

Paths == {<<>>, <<0>>, <<1>>, <<0, 0>>, <<0, 1>>, <<1, 0>>}
Shapes == {D \in SUBSET Paths : /\ <<>> \in D /\ Cardinality(D) <= 4
                                /\ \A path \in D \ {<<>>} : Front(path) \in D}
Trees == UNION {{t \in [D -> {"null", "number", "array", "object"}] :
                    \A path \in D \ {<<>>} :
                        \/ t[Front(path)] = "object"
                        \/ t[Front(path)] = "array" /\ (Last(path) = 0 \/ Append(Front(path), 0) \in D)} :
                D \in Shapes}
Places(t) == ({"before", "same line"} \X DOMAIN t) \cup {<<"after", <<>>>>}
Notes(t) ==
    {<<>>} \cup (IF Cardinality(DOMAIN t) > 3 THEN {} ELSE {n :> <<"c1">> : n \in Places(t)})
    \cup IF Cardinality(DOMAIN t) > 2 THEN {}
         ELSE {[n \in N |-> IF n[1] = "same line" THEN <<"c2">> ELSE <<"c1", "c2">>] :
                  N \in kSubset(2, Places(t))}
MCSources == UNION {
    {[text |-> FastWriter(t, b), tree |-> t, comments |-> <<>>, wide |-> FALSE,
      by |-> IF b THEN "dropped" ELSE "fast"] : b \in BOOLEAN}
    \cup UNION {
        {[text |-> StyledWriter(t, c, w), tree |-> t, comments |-> c, wide |-> w, by |-> "styled"],
         [text |-> StyledStreamWriter(t, c, w), tree |-> t, comments |-> c, wide |-> w, by |-> "stream"]} :
        c \in Notes(t), w \in BOOLEAN} :
    t \in Trees}
MCFeatures == {all, strictMode, [all EXCEPT !.dropped = TRUE, !.numericKeys = TRUE]}
MCTokens == {"{", "}", "[", "]", ",", ":", "number", "s0", "s1", "bad", "bad string", "c1"}
MCSkipped == {"}", "]", "c1"}

-----------------------------------------------------------------------------
Init ==
    /\ kind \in {"container", "items", "service", "bits", "counter", "primes", "json"}
    /\ HInit /\ SInit /\ BInit
    /\ IF kind = "items" THEN TInit
       ELSE items = <<<<>>>> /\ separator = <<"s">> /\ escape = <<"e">> /\ TInit
    /\ IF kind = "counter" THEN IInit ELSE cardinals_ = <<1>> /\ IInit
    /\ IF kind = "primes" THEN PInit ELSE asked = 0 /\ PInit
    /\ IF kind = "json" THEN JInit ELSE features_ = all /\ Made /\ Start

Turn(k) == kind = k /\ UNCHANGED kind

Next ==
    \/ Turn("container") /\ HNext /\ UNCHANGED <<tvars, svars, bvars, ivars, pvars, jvars>>
    \/ Turn("items") /\ TNext /\ UNCHANGED <<hvars, svars, bvars, ivars, pvars, jvars>>
    \/ Turn("service") /\ SNext /\ UNCHANGED <<hvars, tvars, bvars, ivars, pvars, jvars>>
    \/ Turn("bits") /\ BNext /\ UNCHANGED <<hvars, tvars, svars, ivars, pvars, jvars>>
    \/ Turn("counter") /\ INext /\ UNCHANGED <<hvars, tvars, svars, bvars, pvars, jvars>>
    \/ Turn("primes") /\ PNext /\ UNCHANGED <<hvars, tvars, svars, bvars, ivars, jvars>>
    \/ Turn("json") /\ JNext /\ UNCHANGED <<hvars, tvars, svars, bvars, ivars, pvars>>

Spec == Init /\ [][Next]_vars
=============================================================================
