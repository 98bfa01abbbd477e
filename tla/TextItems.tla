----------------------------- MODULE TextItems -----------------------------
(***************************************************************************)
(* Lists of items as one line of text, and back (u8string.cpp): join()     *)
(* quotes each item and puts the separator between them; split() with      *)
(* raw_item = false takes the line apart at the separators that are not in *)
(* quotes, trims and unquotes each part.                                   *)
(***************************************************************************)
EXTENDS Integers, Sequences, SequencesExt, FiniteSetsExt

CONSTANTS Byte,             \* the bytes of a text
          Items,            \* the lists of items the caller joins
          Separators, Escapes,
          Quote,            \* a text, as the separators and escapes
          Spaces            \* the bytes trim_spaces() removes

ASSUME TextItemsAssumption ==
    /\ Items \subseteq Seq(Seq(Byte)) \ {<<>>}
    /\ Separators \subseteq Seq(Byte) \ {<<>>} /\ Escapes \subseteq Seq(Byte)
    /\ Quote \in Seq(Byte) \ {<<>>}

VARIABLES items, separator, escape,     \* the arguments
          line,                         \* what join() has put together
          joined,                       \* the items it has quoted
          p, ihead, in_quote, ret,      \* split()'s variables
          finished

tvars == <<items, separator, escape, line, joined, p, ihead, in_quote, ret, finished>>

TInit == /\ items \in Items /\ separator \in Separators /\ escape \in Escapes
         /\ line = <<>> /\ joined = 0
         /\ p = 0 /\ ihead = 0 /\ in_quote = FALSE /\ ret = <<>>
         /\ finished = FALSE

\* equal_to(i, x.size(), x), with room for x at i
Here(b, i, x) == i + Len(x) <= Len(b) /\ SubSeq(b, i + 1, i + Len(x)) = x

quote(b) ==
    LET from[i \in 0 .. Len(b)] ==
            IF i = Len(b) THEN Quote
            ELSE IF Here(b, i, Quote) THEN escape \o Quote \o from[i + Len(Quote)]
            ELSE <<b[i + 1]>> \o from[i + 1]
    IN Quote \o from[0]

\* Text that is not between quotes stays; a lone quote is not between quotes.
unquote(b) ==
    LET end == Len(b) - Len(Quote)
        quoted == escape \o Quote
        from[i \in Nat] ==
            IF i + Len(quoted) > end THEN SubSeq(b, i + 1, end)
            ELSE IF Here(b, i, quoted) THEN Quote \o from[i + Len(quoted)]
            ELSE <<b[i + 1]>> \o from[i + 1]
    IN IF b = Quote \/ ~Here(b, 0, Quote) \/ end < 0 \/ ~Here(b, end, Quote) THEN b
       ELSE from[Len(Quote)]

\* A text of spaces only is left as it is.
trim_spaces(b) ==
    LET text == {i \in DOMAIN b : b[i] \notin Spaces} IN
    IF text = {} THEN b ELSE SubSeq(b, Min(text), Max(text))

-----------------------------------------------------------------------------
(* join(), an item at a time *)

JoinItem ==
    /\ joined < Len(items)
    /\ joined' = joined + 1
    /\ line' = (IF joined = 0 THEN <<>> ELSE line \o separator) \o quote(items[joined + 1])
    /\ UNCHANGED <<items, separator, escape, p, ihead, in_quote, ret, finished>>

-----------------------------------------------------------------------------
(* split(), one round of its loop at a time *)

Splitting == joined = Len(items) /\ ~finished
Item(i, j) == unquote(trim_spaces(SubSeq(line, i + 1, j)))
AtSeparator == ~in_quote /\ Here(line, p, separator)
\* An escape and a quote after it, unless it is the line's last.
AtEscaped == Here(line, p, escape \o Quote) /\ p + Len(escape) + Len(Quote) < Len(line)

\* The next item starts one byte on, however long the separator is.
SplitSeparator ==
    /\ Splitting /\ p < Len(line) /\ AtSeparator
    /\ ret' = Append(ret, Item(ihead, p))
    /\ p' = p + 1 /\ ihead' = p + 1
    /\ UNCHANGED <<items, separator, escape, line, joined, in_quote, finished>>

\* Mutant: the byte after an escaped quote is skipped with it.
SplitEscapedFar ==
    /\ Splitting /\ p < Len(line) /\ ~AtSeparator /\ AtEscaped
    /\ p' = p + Len(escape) + Len(Quote) + 1
    /\ UNCHANGED <<items, separator, escape, line, joined, ihead, in_quote, ret, finished>>

SplitEscaped ==
    /\ Splitting /\ p < Len(line) /\ ~AtSeparator /\ AtEscaped
    /\ p' = p + Len(escape) + Len(Quote)
    /\ UNCHANGED <<items, separator, escape, line, joined, ihead, in_quote, ret, finished>>

SplitByte ==
    /\ Splitting /\ p < Len(line) /\ ~AtSeparator /\ ~AtEscaped
    /\ in_quote' = (in_quote # Here(line, p, Quote))
    /\ p' = p + 1
    /\ UNCHANGED <<items, separator, escape, line, joined, ihead, ret, finished>>

SplitEnd ==
    /\ Splitting /\ p >= Len(line)
    /\ ret' = CASE ihead < Len(line) -> Append(ret, Item(ihead, Len(line)))
                [] ihead = Len(line) -> Append(ret, <<>>)
                [] OTHER -> ret
    /\ finished' = TRUE
    /\ UNCHANGED <<items, separator, escape, line, joined, p, ihead, in_quote>>

TNext == JoinItem \/ SplitSeparator \/ SplitEscaped \/ SplitByte \/ SplitEnd

TSpec == TInit /\ [][TNext]_tvars
-----------------------------------------------------------------------------
(* Properties *)

\* As in the library's own calls: a separator, a quote and an escape of one
\* byte each, the quote unlike the separator and no space. (The code goes one
\* byte on after any separator, and longer quotes can overlap.)
OneByteEach ==
    /\ Len(separator) = 1 /\ Len(Quote) = 1 /\ Len(escape) = 1
    /\ separator # Quote /\ Quote[1] \notin Spaces

\* What was joined is what split() gives back, whatever separators, quotes,
\* escapes and spaces the items contain, when no item but the last ends in an
\* escape other than the quote (the quote that closes it would be taken for an
\* escaped one).
RoundTrip ==
    finished /\ OneByteEach =>
        \/ ret = items
        \/ escape # Quote /\ \E i \in 1 .. Len(items) - 1 : IsSuffix(escape, items[i])
=============================================================================
