----------------------------- MODULE U8String ------------------------------
(***************************************************************************)
(* u8string (u8string.h, u8string.cpp): a byte string with a cache of the  *)
(* positions its UTF-8 characters start at. A change of the string calls   *)
(* on_change_(), which empties the cache; the u8_ operations fill it again *)
(* (update_()) and translate character positions with it.                  *)
(*                                                                         *)
(* A byte is its class: Nul, Ascii, n > 1 for the first of n bytes of a    *)
(* character, Cont for the others. Of the characters of three bytes some   *)
(* are no code points and depend on the second byte; they are left out.    *)
(* Validation of texts is compiled out (_ZKS_U8STRING_NOVALIDATION), the   *)
(* cache is compiled in.                                                   *)
(***************************************************************************)
EXTENDS Integers, Sequences, SequencesExt, FiniteSetsExt

CONSTANTS Strings,      \* the u8string objects of the program
          Leads,        \* the lengths of characters of several bytes
          Texts,        \* the C strings the caller passes, without Nul
          Gone,         \* no object
          MaxLen,       \* bound on the bytes of a string
          MaxIll,       \* bound on the bytes of an ill-formed one, at most MaxLen
          MaxIndex,     \* bound on the entries of a cache
          MaxWrong      \* bound on the strings with a wrong one at a time

Nul == 0
Ascii == 1
Cont == 9
Bytes == {Nul, Ascii, Cont} \cup Leads

ASSUME U8StringAssumption ==
    /\ Leads \subseteq {2, 4, 5, 6}
    /\ Texts \subseteq Seq(Bytes \ {Nul})
    /\ Gone \notin Seq(Bytes)
    /\ MaxLen \in Nat /\ MaxIll \in 0 .. MaxLen
    /\ MaxIndex \in Nat /\ MaxWrong \in Nat

VARIABLES str, changed, index,      \* str_, changed_, index_
          held          \* the strings with a writable reference or iterator out

vars == <<str, changed, index, held>>

Alive(s) == str[s] # Gone
Size(s) == Len(str[s])

Init == /\ str = [s \in Strings |-> Gone]
        /\ changed = [s \in Strings |-> TRUE]
        /\ index = [s \in Strings |-> <<>>]
        /\ held = {}

-----------------------------------------------------------------------------
(* Bytes and characters *)

\* The bytes before the first Nul: what a reader of c_str() sees.
c_str(b) == LET nuls == {i \in DOMAIN b : b[i] = Nul} IN
            IF nuls = {} THEN b ELSE SubSeq(b, 1, Min(nuls) - 1)

\* The length of the character at p, 0 when no whole one is there.
validate_u8char(b, p) ==
    CASE b[p + 1] \in {Nul, Ascii} -> 1
      [] b[p + 1] = Cont -> 0
      [] OTHER -> IF \A i \in 1 .. b[p + 1] - 1 : p + 1 + i \in DOMAIN b /\ b[p + 1 + i] = Cont
                  THEN b[p + 1] ELSE 0

\* The start of each character up to Nul or an invalid one, and the end.
Walk(b) ==
    LET from[p \in 0 .. Len(b)] ==
            IF p = Len(b) \/ b[p + 1] = Nul \/ validate_u8char(b, p) = 0 THEN <<p>>
            ELSE <<p>> \o from[p + validate_u8char(b, p)]
    IN from[0]

\* Where the character iterator is that was incremented n times.
u8_iterator(b, n) ==
    LET at[k \in 0 .. n] == IF k = 0 THEN 0 ELSE at[k - 1] + validate_u8char(b, at[k - 1])
    IN at[n]

WellFormed(b) == Last(Walk(b)) = Len(b)

\* min with npos for what a size below zero wraps to
Lower(m, n) == IF n < 0 \/ m < n THEN m ELSE n

\* substr(pos, n), by assign(data(), pos, n): cut at a Nul; a start past it
\* wraps the count and copies n bytes from there, past the string's end too,
\* where x stands for what is read.
substr(b, pos, n, x) ==
    LET m == Lower(n, Lower(Len(c_str(b)), pos + n) - pos) IN
    [i \in 1 .. m |-> IF pos + i <= Len(b) THEN b[pos + i] ELSE x]

\* append(data() + pos, n)
tail_of(b, pos, n) == LET c == c_str(SubSeq(b, pos + 1, Len(b))) IN
                      SubSeq(c, 1, Lower(n, Len(c)))

Insert(b, pos, c) == SubSeq(b, 1, pos) \o c \o SubSeq(b, pos + 1, Len(b))
Erased(b, pos, n) == SubSeq(b, 1, pos) \o SubSeq(b, pos + Lower(n, Len(b) - pos) + 1, Len(b))
Replaced(b, pos, n, c) == Insert(Erased(b, pos, n), pos, c)

-----------------------------------------------------------------------------
(* The cache *)

\* k times w, one after the other.
Repeated(w, k) == [i \in 1 .. k * Len(w) |-> w[((i - 1) % Len(w)) + 1]]

\* The cache after update_() was called k times: it is filled once when the
\* string is well formed, else every call appends what it could read. An
\* operation on one string twice counts its calls as on two.
Updated(s, k) ==
    IF ~changed[s] THEN index[s]
    ELSE index[s] \o Repeated(Walk(str[s]), IF WellFormed(str[s]) THEN 1 ELSE k)

\* The cache as an operation sees it: its entries, and the size after one and
\* after two calls of update_().
Cache(s) == [at |-> Updated(s, 3),
             size |-> [k \in 1 .. 2 |-> Len(Updated(s, k)) - 1]]

\* The strings of S are changed by a call: on_change_() for each.
OnChange(S) ==
    /\ index' = [s \in Strings |-> IF s \in S THEN <<>> ELSE index[s]]
    /\ changed' = [s \in Strings |-> s \in S \/ changed[s]]
    /\ held' = held \ S

Small(b) == Len(b) <= MaxIll \/ (Len(b) <= MaxLen /\ WellFormed(b))

\* s becomes b, and its cache is emptied.
Change(s, b) ==
    /\ Small(b)
    /\ str' = [str EXCEPT ![s] = b]
    /\ OnChange({s})

\* s becomes b from parts of t, on which update_() was called three times.
ChangeFrom(s, t, b) ==
    /\ Small(b) /\ Len(Updated(t, 3)) <= MaxIndex
    /\ str' = [str EXCEPT ![s] = b]
    /\ index' = [index EXCEPT ![t] = Updated(t, 3), ![s] = <<>>]
    /\ changed' = [changed EXCEPT ![t] = @ /\ ~WellFormed(str[t]), ![s] = TRUE]
    /\ held' = held \ {s}

-----------------------------------------------------------------------------
(* Construction, assignment, destruction *)

\* The constructors from a text, a string or characters.
Construct(s, b) == ~Alive(s) /\ Change(s, b)

\* The constructors from no characters: assign() with a count of 0 returns
\* before on_change_(), an empty range appends nothing, and changed_ has
\* whatever was in the memory.
ConstructEmpty(s) ==
    /\ ~Alive(s)
    /\ str' = [str EXCEPT ![s] = <<>>]
    /\ index' = [index EXCEPT ![s] = <<>>]
    /\ \E any \in BOOLEAN : changed' = [changed EXCEPT ![s] = any]
    /\ UNCHANGED held

\* operator+: a copy of t to which b is appended.
Plus(s, t, b) == Construct(s, str[t] \o c_str(b))

\* operator= and assign() from a text, a string or characters.
Assign(s, b) == Alive(s) /\ Change(s, b)

\* assign() from wide characters, the first of which has no UTF-8: it throws
\* after str_.clear() and before on_change_(). At a later one it throws after
\* append() of those before it, which is Assign of these.
AssignThrows(s) ==
    /\ Alive(s)
    /\ str' = [str EXCEPT ![s] = <<>>]
    /\ held' = held \ {s}
    /\ UNCHANGED <<changed, index>>

\* u8string(u8string&&), operator=(u8string&&): the bytes of t go to s, and
\* only the cache of s is emptied.
Move(s, t) ==
    /\ Alive(t) /\ s # t
    /\ str' = [str EXCEPT ![s] = str[t], ![t] = <<>>]
    /\ index' = [index EXCEPT ![s] = <<>>]
    /\ changed' = [changed EXCEPT ![s] = TRUE]
    /\ held' = held \ {s, t}

Destroy(s) ==
    /\ Alive(s)
    /\ str' = [str EXCEPT ![s] = Gone]
    /\ OnChange({s})

-----------------------------------------------------------------------------
(* Access *)

\* begin(), end(), rbegin(), at(), operator[], front(), back(), u8_begin(): the
\* cache is emptied before the caller gets what it may write through.
TakeRef(s) ==
    /\ Alive(s)
    /\ index' = [index EXCEPT ![s] = <<>>]
    /\ changed' = [changed EXCEPT ![s] = TRUE]
    /\ held' = held \cup {s}
    /\ str' = str

\* u8_at(n): emptied, and filled again to find the character.
U8At(s) ==
    LET w == Walk(str[s]) IN
    /\ Alive(s)
    /\ Len(w) <= MaxIndex
    /\ index' = [index EXCEPT ![s] = w]
    /\ changed' = [changed EXCEPT ![s] = ~WellFormed(str[s])]
    /\ held' = held \cup {s}
    /\ str' = str

\* The caller writes a byte through what it was given.
WriteThrough(s, i, x) ==
    /\ s \in held
    /\ i \in DOMAIN str[s]
    /\ str' = [str EXCEPT ![s][i] = x]
    /\ Small(str'[s])
    /\ UNCHANGED <<changed, index, held>>

-----------------------------------------------------------------------------
(* Changes by byte position *)

Clear(s) ==
    /\ Alive(s)
    /\ str' = [str EXCEPT ![s] = <<>>]
    /\ held' = held \ {s}
    /\ UNCHANGED <<changed, index>>

Resize(s, n) ==
    /\ Alive(s)
    /\ Change(s, [i \in 1 .. n |-> IF i <= Size(s) THEN str[s][i] ELSE Nul])

\* append(), operator+=, push_back(): what is appended ends at its Nul.
AppendBytes(s, b) == Alive(s) /\ Change(s, str[s] \o c_str(b))

\* format(), and append() of a format: at most max - 1 bytes are printed, and
\* when there are none only the cache is emptied.
Format(s, max, b) ==
    LET printed == SubSeq(b, 1, Lower(Len(b), max - 1)) IN
    /\ Alive(s)
    /\ \/ Change(s, IF printed = <<>> THEN str[s] ELSE printed)
       \/ Change(s, str[s] \o printed)

\* insert() of a string: the cache is emptied first; past the end it throws.
InsertBytes(s, pos, b) ==
    /\ Alive(s)
    /\ Change(s, IF pos > Size(s) THEN str[s] ELSE Insert(str[s], pos, b))

\* Mutant: the cache is kept.
EraseBytesKeep(s, pos, n) ==
    /\ Alive(s) /\ pos <= Size(s)
    /\ str' = [str EXCEPT ![s] = Erased(@, pos, n)]
    /\ UNCHANGED <<changed, index, held>>

\* erase(), pop_back(); past the end it throws before anything is changed.
EraseBytes(s, pos, n) ==
    /\ Alive(s) /\ pos <= Size(s)
    /\ Change(s, Erased(str[s], pos, n))

ReplaceBytes(s, pos, n, b) ==
    /\ Alive(s) /\ pos < Size(s)
    /\ Change(s, Replaced(str[s], pos, n, c_str(b)))

Swap(s, t) ==
    /\ Alive(s) /\ Alive(t) /\ s # t
    /\ str' = [str EXCEPT ![s] = str[t], ![t] = str[s]]
    /\ OnChange({s, t})

-----------------------------------------------------------------------------
(* Changes by character position, i and j being the caches of s and t. A    *)
(* cache without entries (one never set up) is read at its null pointer: no  *)
(* step is taken then.                                                       *)

\* The bytes between two characters.
DistanceInCharacters(i, p, q) == q - p      \* Mutant: the cache is not used.

\* Unsigned: between entries of a wrong cache that decrease, what a size below
\* zero wraps to, which is more than any length.
npos == MaxLen + 1
u8_distance(i, p, q) == LET d == i.at[q + 1] - i.at[p + 1] IN IF d < 0 THEN npos ELSE d

\* Characters p .. p + c - 1, as far as there are any: how many, how many bytes.
Count(i, p, c) == Lower(c, i.size[2] - p)
Part(i, p, c) == u8_distance(i, p, p + Count(i, p, c))
Past(i, p) == p > i.size[1]

\* What the operations make of the bytes a of s and b of t.
Appended(a, b, j, p, c) == a \o tail_of(b, j.at[p + 1], Part(j, p, c))
Inserted(a, i, q, b, j, p, c, x) ==
    Insert(a, i.at[q + 1], substr(b, j.at[p + 1], Part(j, p, c), x))
Cut(a, i, p, c) == Erased(a, i.at[p + 1], Part(i, p, c))
Exchanged(a, i, q, d, b, j, p, c) ==
    IF Count(j, p, c) = 0 THEN a
    ELSE Replaced(a, i.at[q + 1], Part(i, q, d),
                  SubSeq(b, j.at[p + 1] + 1, Lower(Len(b), j.at[p + 1] + Part(j, p, c))))

\* substr() throws for its length: a start past what c_str() shows keeps a
\* wrapped count, which resize() does not take.
TooLong(b, j, p, c) == Part(j, p, c) = npos /\ j.at[p + 1] > Len(c_str(b))

\* What a byte read from b may be: with a wrong cache the part may end past b.
Read(b, j, p, c) == IF j.at[p + 1] + Part(j, p, c) > Len(b) THEN Bytes ELSE {Nul}

\* The call throws, for a position past the characters or, with a wrong cache,
\* past the bytes, or it has nothing to do: only the caches of s, after k calls
\* of update_(), and of t, after m, have changed.
CachesOnly(s, k, t, m) ==
    /\ Len(Updated(s, k)) <= MaxIndex /\ Len(Updated(t, m)) <= MaxIndex
    /\ index' = [index EXCEPT ![s] = Updated(s, k), ![t] = Updated(t, m)]
    /\ changed' = [u \in Strings |-> changed[u] /\ (u \in {s, t} => ~WellFormed(str[u]))]
    /\ UNCHANGED <<str, held>>

\* u8_size(), u8_index(), u8_front(), u8_back(): const, but update_().
Look(s) == Alive(s) /\ CachesOnly(s, 1, s, 1)

U8Append(s, t, j, p, c) ==
    IF Past(j, p) THEN CachesOnly(t, 1, t, 1)
    ELSE IF Count(j, p, c) = 0 THEN CachesOnly(t, 2, t, 2)
    ELSE IF j.at[p + 1] > Size(t) THEN CachesOnly(t, 3, t, 3)
    ELSE ChangeFrom(s, t, Appended(str[s], str[t], j, p, c))

\* insert() takes substr() of t first, and empties the cache of s before it
\* finds the place to be too far.
U8Insert(s, i, q, t, j, p, c) ==
    IF Past(j, p) THEN CachesOnly(t, 1, t, 1)
    ELSE IF Past(i, q) THEN CachesOnly(s, 1, t, 1)
    ELSE IF Count(j, p, c) = 0 THEN CachesOnly(s, 1, t, 2)
    ELSE IF TooLong(str[t], j, p, c) THEN CachesOnly(s, 2, t, 3)
    ELSE IF i.at[q + 1] > Size(s) THEN ChangeFrom(s, t, str[s])
    ELSE \E x \in Read(str[t], j, p, c) :
             ChangeFrom(s, t, Inserted(str[s], i, q, str[t], j, p, c, x))

U8Erase(s, i, p, c) ==
    IF Past(i, p) THEN CachesOnly(s, 1, s, 1)
    ELSE IF Count(i, p, c) = 0 THEN CachesOnly(s, 2, s, 2)
    ELSE IF i.at[p + 1] > Size(s) THEN CachesOnly(s, 3, s, 3)
    ELSE Change(s, Cut(str[s], i, p, c))

\* With no characters to put in their place, nothing is removed either.
U8Replace(s, i, q, d, t, j, p, c) ==
    IF Past(i, q) THEN CachesOnly(s, 1, s, 1)
    ELSE IF Past(j, p) THEN CachesOnly(s, 2, t, 1)
    ELSE IF Count(j, p, c) = 0 THEN CachesOnly(s, 2, t, 2)
    ELSE IF i.at[q + 1] > Size(s) \/ j.at[p + 1] > Size(t) THEN CachesOnly(s, 3, t, 3)
    ELSE ChangeFrom(s, t, Exchanged(str[s], i, q, d, str[t], j, p, c))

\* The result is a new string; one of no bytes is left as ConstructEmpty is.
U8Substr(r, s, i, p, c) ==
    /\ ~Alive(r)
    /\ IF Past(i, p) THEN CachesOnly(s, 1, s, 1)
       ELSE IF TooLong(str[s], i, p, c) THEN CachesOnly(s, 3, s, 3)
       ELSE IF Part(i, p, c) = 0
       THEN /\ Len(i.at) <= MaxIndex
            /\ str' = [str EXCEPT ![r] = <<>>]
            /\ index' = [index EXCEPT ![r] = <<>>, ![s] = i.at]
            /\ \E any \in BOOLEAN :
                   changed' = [changed EXCEPT ![r] = any, ![s] = @ /\ ~WellFormed(str[s])]
            /\ UNCHANGED held
       ELSE \E x \in Read(str[s], i, p, c) :
                ChangeFrom(r, s, substr(str[s], i.at[p + 1], Part(i, p, c), x))

-----------------------------------------------------------------------------
Positions == 0 .. MaxLen
Counts == {1, MaxLen}           \* MaxLen for npos, and for all there is

Step(s) ==
    \/ \E b \in Texts : \/ Construct(s, b) \/ Assign(s, b) \/ AppendBytes(s, b)
                        \/ Format(s, MaxLen, b)
                        \/ \E t \in Strings : Alive(t) /\ Plus(s, t, b)
                        \/ \E i \in Positions : InsertBytes(s, i, b)
                        \/ \E i \in Positions, n \in Counts : ReplaceBytes(s, i, n, b)
    \/ ConstructEmpty(s) \/ Destroy(s) \/ TakeRef(s) \/ U8At(s) \/ Look(s) \/ Clear(s)
    \/ AssignThrows(s)
    \/ \E i \in Positions, x \in Bytes : WriteThrough(s, i, x)
    \/ \E n \in Positions : Resize(s, n)
    \/ \E i \in Positions, n \in Counts : EraseBytes(s, i, n)
    \/ \E t \in Strings : \/ Alive(t) /\ (Construct(s, str[t]) \/ Assign(s, str[t]))
                          \/ Move(s, t) \/ Swap(s, t)

\* Positions of characters with cache i, and the first past them.
Places(i) == 0 .. Lower(MaxLen, i.size[1] + 1)

U8Step(s) ==
    \E t \in {u \in Strings : Alive(u)} : \E j \in {Cache(t)} : \E p \in Places(j), c \in Counts :
        /\ j.at # <<>>
        /\ \/ s = t /\ U8Erase(s, j, p, c)
           \/ U8Substr(s, t, j, p, c)
           \/ Alive(s) /\ U8Append(s, t, j, p, c)
           \/ /\ Alive(s)
              /\ c = MaxLen
              /\ \E i \in {Cache(s)} : \E q \in Places(i) :
                     /\ i.at # <<>>
                     /\ \/ U8Insert(s, i, q, t, j, p, c)
                        \/ U8Replace(s, i, q, 1, t, j, p, c)

\* The cache is empty and to be filled, or is that of the string.
Right(s) == IF changed[s] THEN index[s] = <<>>
            ELSE index[s] # <<>> /\ Last(index[s]) = Size(s) /\ index[s] = Walk(str[s])

Next == /\ \E s \in Strings : Step(s) \/ U8Step(s)
        /\ Cardinality({s \in Strings : ~Right(s)}') <= MaxWrong

Spec == Init /\ [][Next]_vars
-----------------------------------------------------------------------------
(* Properties *)

\* A right cache becomes wrong in no other way than these: clear(), a move from
\* the string and an assign() that throws at the first wide character leave it
\* as it was; a write through a reference or iterator
\* that was taken before the cache was filled again; update_() of an ill-formed
\* string, which keeps what it could read. A new string starts with a right
\* cache, unless it was constructed from no characters.
IndexLostOnlyBy ==
    [][\A s \in Strings :
        Right(s) /\ ~Right(s)' =>
            \/ ~Alive(s) /\ str'[s] = <<>>
            \/ Clear(s) \/ AssignThrows(s) \/ \E t \in Strings : Move(t, s)
            \/ \E i \in 1 .. MaxLen, x \in Bytes : WriteThrough(s, i, x)
            \/ Alive(s) /\ str'[s] = str[s] /\ ~WellFormed(str[s])]_vars

\* The characters of a well-formed string.
Chars(b) == LET w == Walk(b) IN [i \in 1 .. Len(w) - 1 |-> SubSeq(b, w[i] + 1, w[i + 1])]

\* On well-formed strings with right caches the u8_ operations are the
\* operations of the same name on sequences of characters, except that
\* u8_replace() with no characters to put removes none either: none splits a
\* character, positions and counts are those of characters, and an iterator that
\* is incremented goes through them.
ByCharacter ==
    \A s, t \in {u \in Strings : Alive(u) /\ Right(u) /\ WellFormed(str[u])} :
    \A a \in {str[s]}, b \in {str[t]}, i \in {Cache(s)}, j \in {Cache(t)},
       x \in {Chars(str[s])}, y \in {Chars(str[t])} :
        \A p \in 0 .. Len(y), c \in 0 .. Len(y) + 1 : \A part \in {SubSeq(y, p + 1, Lower(Len(y), p + c))} :
            /\ Chars(Appended(a, b, j, p, c)) = x \o part
            /\ u8_iterator(b, p) = j.at[p + 1]
            /\ Chars(Cut(b, j, p, c)) = Erased(y, p, c)
            /\ Chars(substr(b, j.at[p + 1], Part(j, p, c), Nul)) = part
            /\ \A q \in 0 .. Len(x) :
                /\ Chars(Inserted(a, i, q, b, j, p, c, Nul)) = Insert(x, q, part)
                /\ \A d \in 0 .. Len(x) + 1 :
                    Chars(Exchanged(a, i, q, d, b, j, p, c)) =
                        IF part = <<>> THEN x ELSE Replaced(x, q, d, part)
=============================================================================
