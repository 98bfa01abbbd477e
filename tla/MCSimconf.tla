----------------------------- MODULE MCSimconf -----------------------------
(***************************************************************************)
(* Simconf for TLC: two files of two lines each that may include each      *)
(* other, themselves and files that are not there; and a chain of three    *)
(* files whose last may lead back.                                         *)
(***************************************************************************)
EXTENDS Simconf

Includes == {[is |-> "include", file |-> f] : f \in {"a", "b", "c", "none"}}
Settings == {[is |-> "section", sec |-> s] : s \in {Global, "s", Nameless}}
    \cup {[is |-> "option", opt |-> o, value |-> [var |-> "", text |-> o]] : o \in {"p", "q"}}
    \cup {[is |-> "option", opt |-> "p", value |-> [var |-> "q"]]}
Others == {[is |-> "skip"], [is |-> "bad", code |-> -6]}
AllLines == Includes \cup Settings \cup Others

MCNames == {"a", "b", "c", "none"}

Pairs == [{"a", "b"} -> [1 .. 2 -> AllLines]]
ChainOf(x, y, z) == LET to(f) == [is |-> "include", file |-> f] IN
    [a |-> <<to("b"), x>>, b |-> <<x, y, to("c")>>, c |-> <<z, y>>]
Chains == {ChainOf(x, y, z) : x, y \in Settings \cup Includes, z \in AllLines}

MCContents == Pairs \cup Chains
=============================================================================
