---------------------------- MODULE ChunkArray -----------------------------
(***************************************************************************)
(* ChunkArray (array.h): an array of elements kept in chunks of ChunkSize, *)
(* each a LazyArray, which a header, a LazyArray too, holds in order.      *)
(* LazyArrays are values (LazyArray.tla shows it), so the header is the    *)
(* sequence of the chunks' contents; its capacity is kept beside it, for   *)
(* append() depends on it.                                                 *)
(*                                                                         *)
(* strayed[h] remembers that operator[] of h was used at an index past the *)
(* chunks it has; crashed, that append_chunk() ran on raw memory.          *)
(***************************************************************************)
EXTENDS Integers, Sequences, SequencesExt, BitHack

CONSTANTS Handles, Values, Default, Dead, Null,
          ChunkSize,        \* m_chunk_size_
          MaxChunks,        \* bound on the chunks an operation asks for
          NChunks           \* bound on the chunks of all the arrays together

ASSUME ChunkArrayAssumption ==
    /\ Default \in Values /\ Dead # Null
    /\ ChunkSize \in Nat \ {0} /\ MaxChunks \in Nat /\ NChunks \in Nat
    /\ {Dead, Null} \cap (Seq(Values) \cup Seq(Seq(Values))) = {}      \* not contents

VARIABLES header,       \* m_header_ of each handle, Dead or Null (moved-from)
          room,         \* its capacity
          total,        \* m_size_
          strayed, crashed

cvars == <<header, room, total, strayed, crashed>>

CAlive(h) == header[h] \notin {Dead, Null}
Full == [i \in 1 .. ChunkSize |-> Default]

chunk_index_(idx) == idx \div ChunkSize
sub_index_(idx) == idx % ChunkSize

\* Mutant: no chunk for a size one past a whole number of chunks.
chunks_cover_short(size) == IF size = 0 THEN 1 ELSE chunk_index_(size - 1)

chunks_cover_(size) == IF size = 0 THEN 1 ELSE chunk_index_(size - 1) + 1

chunks(h) == Len(header[h])
capacity(h) == chunks(h) * ChunkSize

CInit == /\ header = [h \in Handles |-> Dead]
         /\ room = [h \in Handles |-> 0]
         /\ total = [h \in Handles |-> 0]
         /\ strayed = [h \in Handles |-> FALSE]
         /\ crashed = FALSE

\* Handle h gets the chunks s and the size n; a longer header than it has
\* room for is reserved anew.
Set(h, s, n) ==
    /\ header' = [header EXCEPT ![h] = s]
    /\ room' = [room EXCEPT ![h] = IF Len(s) > @ THEN next_pow2(Len(s)) ELSE @]
    /\ total' = [total EXCEPT ![h] = n]

\* The header with n chunks, the new ones given all their elements.
Resized(s, n) == [c \in 1 .. n |-> IF c <= Len(s) THEN s[c] ELSE Full]

-----------------------------------------------------------------------------
(* Constructors, assignment, destructor *)

\* ChunkArray(), ChunkArray(n): resize(n) of an empty header.
CNew(h, n) ==
    /\ header[h] = Dead
    /\ chunks_cover_(n) <= MaxChunks
    /\ Set(h, Resized(<<>>, chunks_cover_(n)), n)
    /\ strayed' = [strayed EXCEPT ![h] = FALSE]
    /\ UNCHANGED crashed

CCopyFields(h, g) ==
    /\ room' = [room EXCEPT ![h] = room[g]]
    /\ total' = [total EXCEPT ![h] = total[g]]
    /\ strayed' = [strayed EXCEPT ![h] = strayed[g]]
    /\ UNCHANGED crashed

CCopyCtor(h, g) ==
    /\ header[h] = Dead /\ header[g] # Dead
    /\ header' = [header EXCEPT ![h] = header[g]]
    /\ CCopyFields(h, g)

\* The size of the source stays, with no header under it.
CMoveCtor(h, g) ==
    /\ header[h] = Dead /\ header[g] # Dead
    /\ header' = [header EXCEPT ![h] = header[g], ![g] = Null]
    /\ CCopyFields(h, g)

\* operator=, for an rvalue too: no move assignment is declared. The header
\* of the source is dereferenced.
CAssign(h, g) ==
    /\ header[h] # Dead /\ CAlive(g) /\ h # g
    /\ header' = [header EXCEPT ![h] = header[g]]
    /\ CCopyFields(h, g)

CDestroy(h) ==
    /\ header[h] # Dead
    /\ header' = [header EXCEPT ![h] = Dead]
    /\ room' = [room EXCEPT ![h] = 0]
    /\ total' = [total EXCEPT ![h] = 0]
    /\ strayed' = [strayed EXCEPT ![h] = FALSE]
    /\ UNCHANGED crashed

-----------------------------------------------------------------------------
(* Size *)

\* Mutant: the size stays when the chunks below it go.
chunk_resize_keep(h, n) ==
    /\ CAlive(h) /\ n # chunks(h)
    /\ Set(h, Resized(header[h], n), total[h])
    /\ UNCHANGED <<strayed, crashed>>

\* Chunks that go take the size with them.
chunk_resize(h, n) ==
    /\ CAlive(h) /\ n # chunks(h)
    /\ Set(h, Resized(header[h], n),
           IF n < chunks(h) /\ n < chunks_cover_(total[h]) THEN n * ChunkSize ELSE total[h])
    /\ UNCHANGED <<strayed, crashed>>

\* reserve(n) and, with the size set to n, resize(n): the chunks never get
\* fewer, and keep their elements.
Reserved(h, n) ==
    LET c == chunks_cover_(n) IN
    IF c > chunks(h) THEN Resized(header[h], c) ELSE header[h]

reserve(h, n) ==
    /\ CAlive(h)
    /\ chunks_cover_(n) \in chunks(h) + 1 .. MaxChunks
    /\ Set(h, Reserved(h, n), total[h])
    /\ UNCHANGED <<strayed, crashed>>

resize(h, n) ==
    /\ CAlive(h)
    /\ chunks_cover_(n) <= MaxChunks
    /\ Set(h, Reserved(h, n), n)
    /\ UNCHANGED <<strayed, crashed>>

shrink_to_fit(h) == CAlive(h) /\ chunk_resize(h, chunks_cover_(total[h]))

-----------------------------------------------------------------------------
(* Elements *)

\* operator[](idx) = v on the chunks s: header and chunk grow as at() does,
\* the header with chunks of no elements.
Stored(s, idx, v) ==
    LET ci == chunk_index_(idx) + 1
        si == sub_index_(idx) + 1
        grown == [c \in 1 .. Max({Len(s), ci}) |-> IF c <= Len(s) THEN s[c] ELSE <<>>]
        chunk == [i \in 1 .. Max({Len(grown[ci]), si}) |->
                      IF i = si THEN v
                      ELSE IF i <= Len(grown[ci]) THEN grown[ci][i] ELSE Default]
    IN [grown EXCEPT ![ci] = chunk]

\* operator[](idx) = v; at(idx) and last() for an index below the size.
Assign(h, idx, v) ==
    /\ CAlive(h)
    /\ Set(h, Stored(header[h], idx, v), total[h])
    /\ strayed' = [strayed EXCEPT ![h] = @ \/ idx >= capacity(h)]
    /\ UNCHANGED crashed

\* append_chunk(): append() of a header with room returns a slot no chunk was
\* constructed in, and resize() follows the pointer it holds.
append_chunk(h) ==
    /\ CAlive(h)
    /\ chunks(h) < MaxChunks
    /\ IF chunks(h) + 1 <= room[h]
       THEN crashed' = TRUE /\ UNCHANGED <<header, room, total>>
       ELSE Set(h, Append(header[h], Full), total[h]) /\ UNCHANGED crashed
    /\ UNCHANGED strayed

push_back(h, v) ==
    /\ CAlive(h)
    /\ IF total[h] < capacity(h)
       THEN Set(h, Stored(header[h], total[h], v), total[h] + 1) /\ UNCHANGED crashed
       ELSE /\ chunks(h) < MaxChunks
            /\ IF chunks(h) + 1 <= room[h]
               THEN crashed' = TRUE /\ UNCHANGED <<header, room, total>>
               ELSE /\ Set(h, Stored(Append(header[h], Full), total[h], v), total[h] + 1)
                    /\ UNCHANGED crashed
    /\ UNCHANGED strayed

CStep(h) ==
    \/ \E n \in 0 .. MaxChunks * ChunkSize : CNew(h, n) \/ reserve(h, n) \/ resize(h, n)
    \/ \E g \in Handles : CCopyCtor(h, g) \/ CMoveCtor(h, g) \/ CAssign(h, g)
    \/ \E n \in 0 .. MaxChunks : chunk_resize(h, n)
    \/ \E idx \in 0 .. MaxChunks * ChunkSize - 1, v \in Values : Assign(h, idx, v)
    \/ \E v \in Values : push_back(h, v)
    \/ CDestroy(h) \/ shrink_to_fit(h) \/ append_chunk(h)

\* The chunks of the arrays there are.
Chunks == UNION {{h} \X (1 .. chunks(h)) : h \in {g \in Handles : CAlive(g)}}

CNext == /\ ~crashed
         /\ \E h \in Handles : CStep(h)
         /\ Cardinality(Chunks') <= NChunks

CSpec == CInit /\ [][CNext]_cvars
-----------------------------------------------------------------------------
(* Properties *)

\* The sizes agree with the chunks: the size is within the capacity, and
\* unless an index past the chunks was assigned to, every chunk has all its
\* elements, so that operator[] const, which does not grow it, finds each
\* element below the size.
ChunksFull ==
    \A h \in Handles : CAlive(h) =>
        /\ total[h] <= capacity(h)
        /\ chunks(h) <= room[h]
        /\ ~strayed[h] => \A c \in 1 .. chunks(h) : Len(header[h][c]) = ChunkSize

\* Chunking cannot be seen: a handle is the sequence of the elements below
\* its size, an element a chunk does not have yet being Default.
Element(s, i) ==
    LET c == (i - 1) \div ChunkSize + 1
        k == ((i - 1) % ChunkSize) + 1
    IN IF c <= Len(s) /\ k <= Len(s[c]) THEN s[c][k] ELSE Default
Elements(h) ==
    IF CAlive(h) THEN [i \in 1 .. total[h] |-> Element(header[h], i)] ELSE header[h]
Whole == INSTANCE ChunkValues WITH val <- [h \in Handles |-> Elements(h)]
ImplementsChunkValues == Whole!Spec
=============================================================================
