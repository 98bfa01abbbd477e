----------------------------- MODULE JsonReader -----------------------------
(***************************************************************************)
(* Json::Reader (jsoncpp.cpp): parse() of a document, which is made up     *)
(* token by token as it is read, or written by one of the writers. The     *)
(* calls of readValue(), readArray() and readObject() in progress are      *)
(* those for nodes_, the path to the current value; jpc is where the       *)
(* innermost is. After an error each of them goes on to its closing        *)
(* bracket before it fails.                                                *)
(***************************************************************************)
EXTENDS JsonWriter, TLC

CONSTANTS Sources,      \* written documents: [text, tree, comments, by, wide]
          MadeUp,       \* the source of a document that is made up
          Features,     \* the features to read such a document with
          Tokens,       \* the tokens it is made of
          Skipped,      \* those of them tried after an error, and after the end
          MaxTokens     \* bound on its tokens

VARIABLES source, features_, text, current_,
          nodes_, tree, name, jpc, successful, errors_,
          lastValue_, lastValueEnd_, commentsBefore_, comments,
          lenient       \* history: something that is not JSON was let pass

jvars == <<source, features_, text, current_, nodes_, tree, name, jpc, successful, errors_,
           lastValue_, lastValueEnd_, commentsBefore_, comments, lenient>>
arguments == <<source, features_>>
commenting == <<lastValue_, lastValueEnd_, commentsBefore_, comments>>

all == [allowComments |-> TRUE, strictRoot |-> FALSE, dropped |-> FALSE, numericKeys |-> FALSE]
strictMode == [all EXCEPT !.allowComments = FALSE, !.strictRoot = TRUE]

NoValue == <<-1>>

\* A document that is made up, or one that was written and is read with the
\* feature it needs.
Made == source = MadeUp /\ text = <<>> /\ features_ \in Features
Written == /\ source \in Sources
           /\ text = source.text \o <<"end">>
           /\ features_ = [all EXCEPT !.dropped = (source.by = "dropped")]

Start ==
    /\ current_ = 0
    /\ nodes_ = <<<<>>>> /\ tree = (<<>> :> "null") /\ name = 0
    /\ jpc = "value" /\ successful = FALSE /\ errors_ = 0
    /\ lastValue_ = NoValue /\ lastValueEnd_ = 0
    /\ commentsBefore_ = <<>> /\ comments = <<>>
    /\ lenient = FALSE

JInit == (Made \/ Written) /\ Start

-----------------------------------------------------------------------------
(* Tokens *)

\* "bad" is no token, "bad string" and "bad number" fail to decode.
Undecodable == {"bad string", "bad number"}

skipSpaces == Min({i \in current_ .. Len(text) : i = Len(text) \/ text[i + 1] # "\n"})

NextTokens ==
    CASE skipSpaces < Len(text) -> {text[skipSpaces + 1]}
      [] skipSpaces = Len(text) /\ (Len(text) >= MaxTokens \/ (text # <<>> /\ Last(text) = "end")) ->
            {"end"}
      [] OTHER -> {"end"} \cup (IF jpc \in {"recover", "root"} THEN Skipped ELSE Tokens)

\* t is the next token, and is left there.
Peek(t) ==
    /\ text' = IF skipSpaces < Len(text) \/ (text # <<>> /\ Last(text) = "end") THEN text
               ELSE Append(text, t)
    /\ current_' = skipSpaces

readToken(t) ==
    /\ text' = IF skipSpaces < Len(text) \/ (text # <<>> /\ Last(text) = "end") THEN text
               ELSE Append(text, t)
    /\ current_' = Min({skipSpaces + 1, Len(text')})

\* Mutant: the lines in between are not looked at.
OnLineAnywhere == lastValue_ # NoValue

\* The next token is on the line on which the last value ended.
OnLineOfLastValue ==
    /\ lastValue_ # NoValue
    /\ \A i \in lastValueEnd_ + 1 .. skipSpaces : text[i] # "\n"

\* A comment there goes to that value and takes the place of an earlier one;
\* any other waits for the next value.
addComment(t) ==
    /\ comments' = IF features_.allowComments /\ OnLineOfLastValue
                   THEN (<<"same line", lastValue_>> :> <<t>>) @@ comments ELSE comments
    /\ commentsBefore_' = IF features_.allowComments /\ ~OnLineOfLastValue
                          THEN Append(commentsBefore_, t) ELSE commentsBefore_
    /\ UNCHANGED <<lastValue_, lastValueEnd_>>

\* A comment after a member is taken for the comma until the next token.
SkipComment ==
    /\ jpc \in {"name", "comma", "late", "recover"} \/ (jpc \in {"value", "root"} /\ features_.allowComments)
    /\ \E t \in NextTokens \cap Comments : readToken(t) /\ addComment(t)
    /\ jpc' = IF jpc = "comma" /\ tree[Last(nodes_)] = "object" THEN "late" ELSE jpc
    /\ UNCHANGED <<arguments, nodes_, tree, name, successful, errors_, lenient>>

-----------------------------------------------------------------------------
(* Values *)

currentValue == Last(nodes_)
Within(p) == {q \in DOMAIN tree : p # q /\ IsPrefix(p, q)}

\* The comments that were waiting are those before the current value.
Placed == IF commentsBefore_ = <<>> THEN comments
          ELSE (<<"before", currentValue>> :> commentsBefore_) @@ comments

\* The current value becomes a k, without what was in it.
Become(k) ==
    /\ tree' = [q \in DOMAIN tree \ Within(currentValue) |-> IF q = currentValue THEN k ELSE tree[q]]
    /\ comments' = Restrict(Placed, {n \in DOMAIN Placed : n[2] \notin Within(currentValue)})
    /\ commentsBefore_' = <<>>

\* readValue() returns to the call for the value around it; whole, unless it
\* met something that is no value.
Return(ok, whole) ==
    /\ IF whole /\ features_.allowComments
       THEN lastValue_' = currentValue /\ lastValueEnd_' = current_'
       ELSE UNCHANGED <<lastValue_, lastValueEnd_>>
    /\ IF Len(nodes_) = 1
       THEN jpc' = "root" /\ successful' = ok /\ UNCHANGED <<nodes_, name>>
       ELSE /\ nodes_' = Front(nodes_)
            /\ name' = Last(currentValue)
            /\ jpc' = IF ok THEN "comma" ELSE "recover"
            /\ UNCHANGED successful

ReadScalar ==
    /\ jpc = "value"
    /\ \E t \in NextTokens \cap Scalars : readToken(t) /\ Become(t) /\ Return(TRUE, TRUE)
    /\ UNCHANGED <<arguments, errors_, lenient>>

\* With allowDroppedNullPlaceholders_ a comma where a value should be is null.
ReadDropped ==
    /\ jpc = "value" /\ features_.dropped
    /\ \E t \in NextTokens \cap {","} : Peek(t) /\ Become("null") /\ Return(TRUE, TRUE)
    /\ UNCHANGED <<arguments, errors_, lenient>>

ReadBegin ==
    /\ jpc = "value"
    /\ \E t \in NextTokens, k \in {"array", "object"} :
           /\ t = Open(k)
           /\ readToken(t) /\ Become(k)
           /\ jpc' = IF k = "array" THEN "first" ELSE "name"
    /\ name' = 0
    /\ UNCHANGED <<arguments, nodes_, successful, errors_, lastValue_, lastValueEnd_, lenient>>

ReadNoValue ==
    /\ jpc = "value"
    /\ \E t \in NextTokens :
           /\ t \notin Scalars \cup {"[", "{"}
           /\ ~(features_.dropped /\ t = ",") /\ ~(features_.allowComments /\ t \in Comments)
           /\ readToken(t)
           /\ Return(FALSE, t \in Undecodable)
    /\ errors_' = errors_ + 1
    /\ comments' = Placed /\ commentsBefore_' = <<>>
    /\ UNCHANGED <<arguments, tree, lenient>>

\* The value at path p, which is there from now on, is read next.
ReadInner(p) ==
    /\ nodes_' = Append(nodes_, p)
    /\ tree' = tree @@ (p :> "null")
    /\ jpc' = "value"

Fail == /\ errors_' = errors_ + 1 /\ jpc' = "recover"
        /\ UNCHANGED <<arguments, nodes_, tree, name, successful, lenient>>

-----------------------------------------------------------------------------
(* readArray() *)

NextElement == ReadInner(Append(currentValue, Len(Children(tree, currentValue))))

\* Only a bracket right after the other makes an empty array.
FirstElement ==
    /\ jpc = "first"
    /\ \E t \in NextTokens :
           \/ t = "]" /\ readToken(t) /\ Return(TRUE, TRUE) /\ UNCHANGED <<commentsBefore_, comments, tree>>
           \/ t # "]" /\ Peek(t) /\ NextElement /\ UNCHANGED <<commenting, name, successful>>
    /\ UNCHANGED <<arguments, errors_, lenient>>

AfterElement ==
    /\ jpc = "comma" /\ tree[currentValue] = "array"
    /\ \E t \in NextTokens \ Comments :
        /\ readToken(t)
        /\ \/ /\ t = "," /\ NextElement
              /\ UNCHANGED <<arguments, commenting, name, successful, errors_, lenient>>
           \/ /\ t = "]" /\ Return(TRUE, TRUE)
              /\ UNCHANGED <<arguments, commentsBefore_, comments, tree, errors_, lenient>>
           \/ t \notin {",", "]"} /\ Fail /\ UNCHANGED commenting

-----------------------------------------------------------------------------
(* readObject() *)

IsName(t) == t \in Strings \/ (t = "number" /\ features_.numericKeys)

\* Mutant: an object may end after any comma.
EndsObjectAnywhere(t) == t = "}"

\* An object ends where a name should be when no name was read, or an empty one.
EndsObject(t) == t = "}" /\ name = 0

MemberName ==
    /\ jpc = "name"
    /\ \E t \in NextTokens \ Comments :
        /\ readToken(t)
        /\ \/ /\ EndsObject(t) /\ Return(TRUE, TRUE)
              /\ lenient' = (lenient \/ (name = 0 /\ Children(tree, currentValue) # <<>>))
              /\ UNCHANGED <<arguments, commentsBefore_, comments, tree, errors_>>
           \/ /\ IsName(t)
              /\ name' = CASE t = "s0" -> 0 [] t = "s1" -> 1 [] OTHER -> 2
              /\ jpc' = "colon"
              /\ UNCHANGED <<arguments, commenting, nodes_, tree, successful, errors_, lenient>>
           \/ ~EndsObject(t) /\ ~IsName(t) /\ Fail /\ UNCHANGED commenting

MemberColon ==
    /\ jpc = "colon"
    /\ \E t \in NextTokens :
        /\ readToken(t)
        /\ \/ /\ t = ":" /\ ReadInner(Append(currentValue, name))
              /\ UNCHANGED <<arguments, commenting, name, successful, errors_, lenient>>
           \/ t \in Comments /\ Fail /\ addComment(t)
           \/ t \notin {":"} \cup Comments /\ Fail /\ UNCHANGED commenting

\* After a comment any token but the bracket passes for the comma.
AfterMember ==
    /\ jpc = "late" \/ (jpc = "comma" /\ tree[currentValue] = "object")
    /\ \E t \in NextTokens \ Comments :
        /\ readToken(t)
        /\ \/ /\ t = "}" /\ Return(TRUE, TRUE)
              /\ UNCHANGED <<arguments, commentsBefore_, comments, tree, errors_, lenient>>
           \/ /\ t = "," \/ (jpc = "late" /\ t # "}")
              /\ jpc' = "name"
              /\ lenient' = (lenient \/ t # ",")
              /\ UNCHANGED <<arguments, commenting, nodes_, tree, name, successful, errors_>>
           \/ jpc = "comma" /\ t \notin {",", "}"} /\ Fail /\ UNCHANGED commenting

-----------------------------------------------------------------------------
\* recoverFromError(): brackets of other values in between are not counted.
Recover ==
    /\ jpc = "recover"
    /\ \E t \in NextTokens \ Comments :
        /\ readToken(t)
        /\ IF t \in {Close(tree[currentValue]), "end"} THEN Return(FALSE, TRUE)
           ELSE UNCHANGED <<nodes_, name, jpc, successful, lastValue_, lastValueEnd_>>
    /\ UNCHANGED <<arguments, tree, errors_, commentsBefore_, comments, lenient>>

\* parse() looks at one token after the value and ends.
EndOfParse ==
    /\ jpc = "root"
    /\ \E t \in NextTokens : ~(t \in Comments /\ features_.allowComments) /\ readToken(t)
    /\ comments' = IF commentsBefore_ = <<>> THEN comments
                   ELSE (<<"after", <<>>>> :> commentsBefore_) @@ comments
    /\ LET refused == features_.strictRoot /\ tree[<<>>] \notin {"array", "object"} IN
       /\ successful' = (successful /\ ~refused)
       /\ errors_' = IF refused THEN errors_ + 1 ELSE errors_
    /\ jpc' = "ended"
    /\ UNCHANGED <<arguments, nodes_, tree, name, lastValue_, lastValueEnd_, commentsBefore_, lenient>>

JNext == \/ SkipComment \/ ReadScalar \/ ReadDropped \/ ReadBegin \/ ReadNoValue
         \/ FirstElement \/ AfterElement \/ MemberName \/ MemberColon \/ AfterMember
         \/ Recover \/ EndOfParse

JSpec == JInit /\ [][JNext]_jvars
-----------------------------------------------------------------------------
(* Properties *)

\* Is a prefix of w a value by the grammar of JSON, with the features f? A value
\* that may be left out is followed by a comma.
Grammatical(w, f) ==
    LET is[what \in {"value", "elements", "members"}, i \in 1 .. Len(w) + 1, j \in 0 .. Len(w)] ==
            CASE what = "value" ->
                    \/ i = j /\ w[i] \in Scalars
                    \/ i > j /\ i = j + 1 /\ f.dropped /\ i <= Len(w) /\ w[i] = ","
                    \/ i < j /\ w[i] = "[" /\ w[j] = "]" /\ (j = i + 1 \/ is["elements", i + 1, j - 1])
                    \/ i < j /\ w[i] = "{" /\ w[j] = "}" /\ (j = i + 1 \/ is["members", i + 1, j - 1])
              [] what = "elements" ->
                    \/ is["value", i, j]
                    \/ \E k \in i .. j : w[k] = "," /\ is["value", i, k - 1] /\ is["elements", k + 1, j]
              [] what = "members" ->
                    /\ i < j /\ w[i + 1] = ":"
                    /\ w[i] \in Strings \/ (w[i] = "number" /\ f.numericKeys)
                    /\ \/ is["value", i + 2, j]
                       \/ \E k \in i + 2 .. j : w[k] = "," /\ is["value", i + 2, k - 1] /\ is["members", k + 1, j]
    IN /\ \E j \in 0 .. Len(w) : is["value", 1, j]
       /\ f.strictRoot => w[1] \in {"[", "{"}

\* parse() succeeds, and then without an error, exactly when the document starts
\* with a value by the grammar, with two exceptions either way: a comma before
\* the bracket is let pass after a member with the empty name, and any token
\* for a comma after a comment; and documents with comments may fail (before a
\* colon, in an empty array). The value that gets the comments on its line is
\* always there, whatever errors and equal names came before.
ReaderAccepts ==
    /\ lastValue_ = NoValue \/ lastValue_ \in DOMAIN tree
    /\ jpc = "ended" =>
        LET w == SelectSeq(text, LAMBDA t : t \notin Comments \cup {"\n", "end"}) IN
        /\ successful <=> errors_ = 0
        /\ successful /\ ~lenient => Grammatical(w, features_)
        /\ Grammatical(w, features_) /\ ToSet(text) \cap Comments = {} => successful

\* What a writer has written is read as the value it was, with the comments on
\* the values they were on, when it was StyledWriter (StyledStreamWriter puts a
\* comment before a value on the line of the value before), but for the
\* elements of an array on one line; and when FastWriter has left out nulls,
\* only if each is followed by another element.
WrittenIsRead ==
    jpc = "ended" /\ source # MadeUp =>
        LET t == source.tree
            told == {n \in DOMAIN source.comments :
                         n[2] = <<>> \/ ~OneLine(t, source.wide, Front(n[2]))}
            followed(p) == /\ p # <<>> /\ t[Front(p)] = "array"
                           /\ Append(Front(p), Last(p) + 1) \in DOMAIN t
        IN /\ source.by = "dropped" \/ (successful /\ tree = t)
           /\ source.by = "dropped" /\ (\A p \in DOMAIN t : t[p] = "null" => followed(p)) =>
                  successful /\ tree = t
           /\ source.by = "styled" => comments = Restrict(source.comments, told)
=============================================================================
