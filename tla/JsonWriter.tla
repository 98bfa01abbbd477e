----------------------------- MODULE JsonWriter -----------------------------
(***************************************************************************)
(* The writers of jsoncpp.cpp. A Json::Value is a function from the paths  *)
(* of its values to what each is: a scalar, "array" or "object". The last  *)
(* number of a path is the index of an element or stands for the name of a *)
(* member, 0 for the empty one. Comments are a function from <<placement,  *)
(* path>>. A document is a sequence of tokens with the ends of its lines,  *)
(* those only that may come between a value and a comment.                 *)
(***************************************************************************)
EXTENDS Integers, Sequences, SequencesExt, FiniteSetsExt, Functions

Comments == {"c1", "c2"}
Strings == {"s0", "s1"}
Scalars == {"null", "number"} \cup Strings

NameToken(p) == <<"s0", "s1">>[Last(p) + 1]
Open(k)  == IF k = "array" THEN "[" ELSE "{"
Close(k) == IF k = "array" THEN "]" ELSE "}"

\* Members come in the order of their names.
Children(t, p) == SetToSortSeq({q \in DOMAIN t : q # <<>> /\ Front(q) = p},
                               LAMBDA a, b : Last(a) < Last(b))

Named(t, q) == IF t[Front(q)] = "object" THEN <<NameToken(q), ":">> ELSE <<>>

\* The parts, with commas between them.
Listed(parts) == FlattenSeq([i \in DOMAIN parts |->
                     (IF i = 1 THEN <<>> ELSE <<",">>) \o parts[i]])

\* FastWriter: one line; nulls may be left out.
FastWriter(t, dropNullPlaceholders) ==
    LET doc[p \in DOMAIN t] ==
            LET kids == Children(t, p) IN
            CASE t[p] = "null" /\ dropNullPlaceholders -> <<>>
              [] t[p] \in {"array", "object"} ->
                    <<Open(t[p])>>
                    \o Listed([i \in DOMAIN kids |-> Named(t, kids[i]) \o doc[kids[i]]])
                    \o <<Close(t[p])>>
              [] OTHER -> <<t[p]>>
    IN doc[<<>>]

\* An array of scalars and empty values that is not wide goes on one line, and
\* the comments of its elements nowhere.
OneLine(t, wide, p) ==
    /\ t[p] = "array" /\ ~wide
    /\ \A q \in DOMAIN t : Len(q) > Len(p) + 1 => ~IsPrefix(p, q)

note(c, place, p) == IF <<place, p>> \in DOMAIN c THEN c[<<place, p>>] ELSE <<>>

CommentAfterValue(c, p) ==
    note(c, "same line", p)
    \o IF note(c, "after", p) = <<>> THEN <<>> ELSE <<"\n">> \o note(c, "after", p) \o <<"\n">>

\* A comment has lines of its own; a stream's line is not broken before it.
CommentBeforeValue(c, p, stream) ==
    IF note(c, "before", p) = <<>> THEN <<>>
    ELSE (IF stream THEN <<>> ELSE <<"\n">>) \o note(c, "before", p) \o <<"\n">>

\* What the two writers do alike
Styled(t, c, wide, stream) ==
    LET doc[p \in DOMAIN t] ==
            LET kids == Children(t, p)
                line(i) == CommentBeforeValue(c, kids[i], stream) \o <<"\n">> \o Named(t, kids[i]) \o doc[kids[i]]
                    \o (IF i = Len(kids) THEN <<>> ELSE <<",">>) \o CommentAfterValue(c, kids[i])
            IN CASE t[p] \in Scalars -> <<t[p]>>
                 [] t[p] \notin Scalars /\ (kids = <<>> \/ OneLine(t, wide, p)) ->
                       <<Open(t[p])>> \o Listed([i \in DOMAIN kids |-> doc[kids[i]]])
                       \o <<Close(t[p])>>
                 [] OTHER -> <<"\n", Open(t[p])>> \o FlattenSeq([i \in DOMAIN kids |-> line(i)])
                             \o <<"\n", Close(t[p])>>
    IN CommentBeforeValue(c, <<>>, stream) \o doc[<<>>] \o CommentAfterValue(c, <<>>) \o <<"\n">>

StyledWriter(t, c, wide) == Styled(t, c, wide, FALSE)
StyledStreamWriter(t, c, wide) == Styled(t, c, wide, TRUE)
=============================================================================
