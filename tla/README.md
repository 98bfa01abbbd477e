# libzks in TLA+

libzks is a C++14 utility library: containers, hashing, logging, configuration
files, a service/callback registry, a task distributor and a string class, used
through the headers in `src/`. This directory holds TLA+ modules translated
from the sources, TLC runs over small instances, and TLAPS proofs for every
value of the constants. `PROJECT.json` maps every definition to the lines it
models.

## The system

| component | source | state | operations | what is hard |
|---|---|---|---|---|
| Distributor | `distributor.h` | futures, task iterator, results of one call | `for_each` (two overloads), `distribute` | workers on threads of their own, a polling loop with timeouts, exceptions of workers and of `std::async` |
| LazyArray | `array.h` | a reference-counted block (size, capacity, elements), one handle per array | copy, move, detach, resize, append, insert, erase, reverse | copy on write: who shares which block, which slots hold constructed elements |
| ChunkArray | `array.h` | total size, header of shared chunks | push_back, resize, append_chunk, at | slots between the size and the capacity |
| Hash_table_ | `hash_table.h` | object array, slot of each object, table of nodes, growth strategy | insert, find, rehash | the three must agree after a failed rehash; only some methods lock |
| Hash_container_ | `hash_table.h` | vector and map from value to index | push_back, erase, the three clears, find | the map and the vector must agree |
| simlog | `simlog.h/.cpp` | line buffer, stream, mutex, configuration | write, flush, configure, reset, `<<`, move, destructor | threads, a reset that is only partly locked, three ways to the stream |
| Service, Subscriber | `service.h/.cpp` | map from weak references to callbacks | reg, unreg, notify, purge, subscribe | keys whose hash changes when they expire, callbacks that call back |
| simconf | `simconf.h/.cpp` | sections, current section, the set of files being read | parse, has_option, section, option (and option_num, _char, _vec, _set), data | includes, errors half way |
| u8string | `u8string.h/.cpp` | bytes and a cache of character positions | every string operation, join, split | a cache that may be wrong |
| BitVector, bit_hack | `BitVector.h`, `bit_hack.h/.cpp` | words of bits and a size | set, flip, resize, searches | the last word, shifts by the whole width |
| Permutations, primes | `utility.h/.cpp` | mixed-radix counter | next, prev, seekp, tellp, is_prime, next_prime | wrap-around, a wheel of increments |
| jsoncpp | `jsoncpp.cpp`, `json.h` | a stack of values, waiting comments, errors | parse, write | recovery from errors, where a comment belongs |
| StopWatch | `stopwatch.h` | time points and labels | start, tick, reset | |

`hash`, `random`, `mmap` and `iterator` are thin wrappers without control of
their own.

The components use one another only as values: `Hash_table_` holds its objects
and its table in ChunkArray, which holds its chunks in LazyArray; its growth
strategy takes sizes from `next_prime`; the logger and the configuration use
u8string, and `split()` reads what a configuration lists. None of them starts a
thread but the distributor; the logger and the hash table have a mutex and
expect callers on several.

What makes each one correct:

- **Distributor**: every task handed to one worker, never more workers than
  threads, no idle thread while a task waits, the call ends, and no worker
  outlives it, whoever throws.
- **LazyArray**: the handles cannot tell that they share blocks; a block lives
  as long as a handle points to it and no longer; what is read was constructed.
- **Hash_table_**: what was inserted is found, once, at the index returned.
- **Hash_container_**: an index handed out stays right.
- **simlog**: every line once, in order, on the right stream; a crash costs only
  the lines since the last flush; a reset costs none.
- **ChunkArray**: chunks cannot be seen, and the size is within them.
- **Service**: every live subscriber is called once by a notification, and none
  that is gone. **simconf**: a file is never read within itself, an error is
  reported, what was read stays. **u8string**: the cache is that of the bytes,
  and no operation splits a character. **BitVector**: searches find the bits
  that `test()` sees. **Permutations**: each tuple once. **Primes**: none is gone
  over. **jsoncpp**: what is accepted is JSON, and what was written is read.

## Modules

| module | models | EXTENDS / INSTANCE |
|---|---|---|
| `TaskPool` | what a call of `for_each`/`distribute` promises | |
| `Distributor` | the call, step by step | refines `TaskPool` |
| `ArrayValues` | what arrays promise: each handle is a value | |
| `LazyArray` | handles, blocks, copy on write | refines `ArrayValues` |
| `BitHack` | of `bit_hack`, what the next two use | |
| `ChunkValues` | what chunked arrays promise | |
| `ChunkArray` | headers of chunks | refines `ChunkValues`, uses `BitHack` |
| `HashTable` | `Hash_table_`, with `Default_rehash_strategy_` | |
| `HashContainer` | `Hash_container_` | |
| `Simlog` | the logger and its threads | |
| `Simconf` | nested calls of `parse()` | |
| `U8String` | bytes and the cache of character positions | |
| `TextItems` | `join()`, `split()`, `quote()`, `unquote()` | |
| `Service` | registration, expiry, `notify()` and its callbacks | |
| `BitVector` | words of bits, their searches | uses `BitHack` |
| `IndexCounter` | `Permutations` | |
| `Primes` | `is_prime()` and `next_prime()` | |
| `JsonWriter` | `FastWriter`, `StyledWriter`, `StyledStreamWriter` as operators | |
| `JsonReader` | `Reader::parse()` | uses `JsonWriter` |
| `ProofLemmas` | lemmas about numbers, sets, sequences and `BitHack` that proofs share | the library's theorems |
| `DistributorProofs`, `LazyArrayProofs`, `ChunkArrayProofs`, `SimlogProofs` | theorems about the module of that name | that module |
| `HashTableProofs` | theorems about `HashTable`, `HashContainer` and `Primes` | these |
| `U8StringProofs` | theorems about `U8String` and `TextItems` | both |
| `UtilityProofs` | theorems about `Service`, `IndexCounter`, `BitVector` and `Simconf` | these |
| `MCUtilities` | one of seven classes at a time | `HashContainer` to `JsonReader` |
| `MC…` | the other instances TLC checks | |

### Distributor

State: `futures` (the task behind each, 0 once `get()` took its result),
`task_iter`, `ret_vec`, `finish_all` and the loop variable `cur` are the locals
of `for_each`; `pc` is where the calling thread is; `status` is each worker.
`Launch`/`Launched` are the first loop, `SkipInvalid`, `BeginWait`,
`WaitTimeout`, `Collect`, `Refill`, `EndPass` the polling loop, `Deliver` the
return through `distribute`, `Unwind` an exception on its way out, where the
destructors of the futures wait. `Worker` is the caller's function on its
thread, which may throw (`MayThrow`) or never end (`MayHang`); `AsyncMayThrow`
lets `std::async` fail.
`TaskPool` forgets loops, futures and order: tasks start, end, and the call
returns or throws.

### LazyArray

State: `rep` of each handle (a block, `Dead` before construction and after
destruction, `Null` after a move), and of each block the `cap`, `data` and
`ref` of `Ref_array_traits_`. A slot in which nothing was constructed holds
`Raw`. Each constructor, assignment and method is an action; methods on a
moved-from array are undefined in the code and not taken. `Replace`, `Update`
and `Drop` are the three ways a block changes. `ArrayValues` keeps one sequence
per handle; where the code leaves slots unconstructed it lets them be anything.
References that a caller keeps from `operator[]` are not modelled.

### ChunkArray

The chunks are LazyArrays, which `ImplementsValues` shows to be values, so a
header is the sequence of its chunks' contents, with its capacity beside it:
`append_chunk()` depends on it, for `append()` of a header with room returns raw
memory (`crashed`). `strayed` remembers an assignment past the chunks, which
makes chunks that are not full. `ChunkValues` keeps a sequence per handle, of
which a change of size keeps the beginning and may uncover anything.

### HashTable

State: `obj_array`, `obj2node`, `node` (the used slots of the table), `size` of
the table and `level`, the step of the strategy, which may be ahead of the
table. One insertion is a chain of steps (`Insert`, then `InsertNew`,
`InsertExisting` or `InsertFull`, then `Rehash`, one `InsertNode` per object,
`RehashFails` or `TakeNewTable`, and again); it holds the mutex, so the steps
are those of one thread, but the invariants are checked between them too.
`Bucket` keeps the code's arithmetic: a position beyond the end is brought back
by subtracting the size, not by the remainder. The hasher is the constant
`Code`; `next_prime` is modelled by its result.

### HashContainer

State: the vector `container` and the map `hashtable`; `alone` records that
`clear_container()` was called without `clear_hash()`, after which indices lead
nowhere.

### Simlog

State: the part of the configuration in use (`enable` and `size` of the buffer,
`stream_type`; `configure()` changes them at once, under the lines that are in
the buffer), the stream, the buffer, what was given to the stream but not
flushed (`pending`), what the streams passed on (`out`), and where each thread
is between `configure()` and the end of `reset()`. `reset()` holds the mutex
for its `flush()` only; `ResetOstream` and `ResetBuff` are steps of their own.
They are taken between the steps of other threads: within one they race for the
same objects, which is undefined. `accepted` and `safe` are history variables,
and `quiet`, chosen at the start, says whether the program keeps the other
threads from writing during a reset.

### Simconf

`calls` is the stack of calls of `parse()`, each with its file and line;
`_fname_`, `_fname_set_`, `_sec_name_`, `_sec_map_` are the members. A line is
what is left of it without spaces and comments, so the lexing is in the choice
of lines. `Enter` and `Leave` hold the guard object, which erases the name that
`_fname_` has by then; `Included` is the return to an including file.

### U8String

`str`, `changed` and `index` are `str_`, `changed_` and `index_` of each string;
a byte is its class. `held` are the strings a writable reference or iterator is
out for, through which the caller may write at any time (`WriteThrough`). Every
operation is an action that keeps, empties or fills the cache as the code does
and works with whatever the cache says, wrong or not. A call that throws half way
is one too: `AssignThrows` is the wide-character `assign()`, which clears the
bytes, throws, and has not emptied the cache. `Leads` are the lengths of
characters of several bytes; three is not one of them, for whether three bytes
are a character depends on more than the class of the first.

### Service

`life` of a subscriber goes from "new" to "owned" to "expired", by way of
"held" while only `notify()` has it. `entries` are the keys of the map, found by
the hash they have now (`InBucket`). `notify()` is a loop over `todo` with the
callback as an interval in which the program takes its actions; a `Reg` in
between may change what the loop still visits. `Create` and `Release` are the
program's. A callback that throws and one that calls `notify()` again are left
out.

### TextItems, BitVector, IndexCounter, Primes

`JoinItem` and the `Split…` actions are rounds of the two loops. `EachWord`,
`Bit` and `Resize` are the changes of a bit vector for any function on bits; the
searches are operators. `seekp`, `next` and `prev` are the counter's; its
numbers are unbounded, for that the product of the cardinals fits a `size_t` is
left to the caller. The prime search has the code's tables, a wheel of 210 and its
increments, and steps from candidate to candidate. Its numbers are unbounded too:
what it does for numbers so large that the next candidate, or a divisor on the
wheel, is above the largest `size_t` is not modelled.

### JsonReader

The tree of values read so far, the stack of values being read (`nodes_`, paths
into the tree), the comments waiting and placed, and `jpc`, where the innermost
`readValue()`, `readArray()` or `readObject()` is. A token is one step; what a
number or a string looks like inside is whether it decodes. A document is made
up as it is read, any token next, or is what one of the writers made of a value
(`JsonWriter`). `Recover` reads on to a closing bracket, or to the end, in each
value an error leaves.

## Runs

| run | instance | properties | what it shows |
|---|---|---|---|
| `distributor` | 0–4 tasks, -1–3 threads, task 1 may hang, 2 and 3 and `std::async` may throw | `TypeOK`, `AtMostThreads`, `EveryTaskAccounted`, `EveryFutureBusy`, `NoWorkerOutlives`, `SerialKeepsOrder`, `CallEnds`, `StuckTakesOneThread`, `ImplementsTaskPool` | the bookkeeping, termination, what a stuck worker costs, and the promise of `TaskPool` |
| `lazyarray` | 3 handles, 3 blocks, 2 values, sizes up to 2 | `RefsCounted`, `OnlySelfMoveLeaks`, `ImplementsValues` | the counts, that only a self-move leaks, and that sharing cannot be seen |
| `lazyarray_append` | 2 handles, sizes up to 2 | `AppendGivesObject` | violated: see below |
| `chunkarray` | 2 handles with 3 chunks of 2 | `ImplementsChunkValues`, `ChunksFull` | chunks cannot be seen |
| `hashtable` | 6 colliding codes, two of them equal, any order, repeats, `rehash()` called too | `TableConsistent`, `FoundUnlessStale`, `UniqueUnlessRehashFailed`, `InsertEnds` | the tables agree through rehashes that succeed and that fail; every insertion ends |
| `hashtable_unique`, `hashtable_returns` | as `hashtable` | `UniqueObjects`, `InsertReturnsObject` | violated: see below |
| `simlog` | 2 threads, 2 streams, buffer of 1 or 3, 5 lines, 2 resets | `StreamsThenBuffer`, `CrashLosesTail`, `BuffBounded`, `LinesOnce` | order, stream, crash, and what resets may not do |
| `simlog_loss` | 3 lines, 1 reset | `NothingLost` | violated: see below |
| `simconf` | pairs of files of 2 lines, chains of 3 files, 2 calls | `FilesMarked`, `FailureReported`, `OptionsStay` | no file is read within itself, errors reach the caller, options stay |
| `u8string` | 2 strings of up to 3 bytes | `IndexLostOnlyBy`, `ByCharacter` | how a cache becomes wrong, and what a right one gives |
| `utilities` | the classes of `MCUtilities`, one at a time | `IndexRight`, `RoundTrip`, `NotifyDelivers`, `ExpiredStay`, `OnesFound`, `CountsInOrder`, `NextPrimeIsNext`, `ReaderAccepts`, `WrittenIsRead` | one question of each |

### Bounds

- Distributor: three threads and four tasks are the least for which a future is
  refilled while two others are in any state; 0 and -1 threads and 0 tasks are
  the degenerate calls. The proofs remove the bound.
- LazyArray: three handles are two that share and one that comes or goes. An
  operation needs at most one block more than the handles hold: three blocks
  are enough for any operation but the replacement of one of three blocks that
  are all in use, each by a handle of its own, which is like that of one of two.
  One block may leak (`MaxLeaks`), which leaves two. Sizes up to 2 have every
  relation of size to capacity: 0, 1 and 2 are the capacities, and an array of
  capacity 2 has a spare slot when it holds one element. The proofs remove
  these bounds.
- HashTable: the codes were chosen so that in the tables of 3, 7 and 17 slots
  buckets overflow and rehash fails for a later object; five steps of the
  strategy are never used up, or an `insert()` would stop in a deadlock, which
  is checked. `OwnRehash` lets the program call
  `rehash()` itself up to that step.
- ChunkArray: chunks of two elements have a first and a last; two per array
  reserve a header with and without room.
- HashContainer: a vector twice as long as the values keeps every value's old
  place beside its new one.
- Simlog: of the sizes 1 and 3, the larger lets lines collect, and `configure()`
  can lower it to the smaller while up to three are in the buffer; two resets can
  overlap when two threads call `configure()`. Five lines fill and refill the
  larger buffer with one left over.
- Simconf: two files of two lines can include each other in either order, with
  a setting before or after; a chain of three puts an open file between. A
  second call starts from what the first has left.
- U8String: three bytes hold a character of one byte and one of two in either
  order; `MaxIll` 2 has the ill-formed strings of one byte, and those of two, of
  which `update_()` called twice makes a cache that decreases: then
  `u8_distance()`, which subtracts unsigned numbers, gives a count beyond any
  length (`npos` in the model), and calls that use it throw. `MaxWrong` is one wrong cache at a time beside a right one.
- TextItems: one item of up to three bytes, or two of up to two, over a quote,
  an escape, a separator, a space and another byte.
- Service: three subscribers, two of which share a bucket.
- BitVector: words of three bits and up to seven bits: one word, two, a third
  with one bit, and every number of bits in the last.
- Primes: all numbers up to 230, the end of a turn of the wheel, and the
  neighbourhoods of the squares of the first numbers the wheel divides by.
- JsonReader: seven tokens nest two values with a comment and an error in one;
  written values have four parts, nested two deep, and up to two comments.

Deadlock is not checked where a call or program ends, or where the bound on
blocks or lines stops it.

### Fairness

- Distributor: `WF_vars(Main)` — the calling thread is scheduled, and `wait_for`
  returns after its timeout; `WF_vars(WorkerOf(t))` for every task but those in
  `MayHang` — a worker function comes to an end, which the caller has to see to.
  In `for_each` there is no wait for a resource other than the futures, so
  nothing stronger is needed. `CallEnds` is about calls
  whose tasks all end.
- HashTable: `WF_vars(pc # "idle" /\ Next)` — a call that was made goes on
  (`insert()` is a loop on one thread).
  Nothing is assumed about new calls.
- The other modules state safety only.

## Proofs

For every value of the constants that satisfies the module's assumption:

| property | theorem | in |
|---|---|---|
| `TypeOK`, `EveryTaskAccounted`, `EveryFutureBusy`, `NoWorkerOutlives`, `AtMostThreads`, `SerialKeepsOrder` | `TypeCorrect`, `TasksAccounted`, `FuturesBusy`, `NoneOutlives`, `ThreadBound`, `SerialInOrder` | `DistributorProofs` |
| `ImplementsTaskPool` | `Refinement` | `DistributorProofs` |
| `RefsCounted`, `OnlySelfMoveLeaks`, `ImplementsValues` | `RefsCountedHolds`, `OnlySelfMoveLeaksHolds`, `ImplementsValuesHolds` | `LazyArrayProofs` |
| `ChunksFull`, `ImplementsChunkValues` | `ChunksFullHolds`, `ImplementsChunkValuesHolds` | `ChunkArrayProofs` |
| `TypeOK`, `TableConsistent`, `UniqueUnlessRehashFailed`, `FoundUnlessStale` | `TypesHold`, `TableConsistentHolds`, `UniqueHolds`, `FoundHolds` | `HashTableProofs` |
| `LinesOnce`, `StreamsThenBuffer`, `CrashLosesTail`, `BuffBounded` | `LinesOnceHolds`, `StreamsThenBufferHolds`, `CrashLosesTailHolds`, `BuffBoundedHolds` | `SimlogProofs` |
| `FilesMarked`, `FailureReported`, `OptionsStay` | `FilesMarkedHolds`, `FailureReportedHolds`, `OptionsStayHolds` | `UtilityProofs` |
| `IndexRight`, `NextPrimeIsNext` | `IndexRightHolds`, `NextPrimeIsNextHolds` | `HashTableProofs` |
| `NotifyDelivers`, `ExpiredStay` | `NotifyDeliversHolds`, `ExpiredStayHolds` | `UtilityProofs` |
| `CountsInOrder`, `OnesFound` | `CountsInOrderHolds`, `OnesFoundHolds` | `UtilityProofs` |
| `IndexLostOnlyBy`, `ByCharacter` | `IndexLostOnlyByHolds`, `ByCharacterHolds` | `U8StringProofs` |
| `RoundTrip` | `RoundTripHolds` | `U8StringProofs` |

Hardly any of these is inductive as it stands. Each proof module defines the
invariant that is, and has a lemma for each action that it is kept. Where the
code computes something by a loop that the model has as a recursive function,
a lemma first says what the function gives at one argument from what it gives
at the next; from there the proofs go by the lemma `UpTo` of `ProofLemmas`, that
a set of numbers with 0 in it and with every next one has them all.

**Distributor.** `IInv` adds `LoopInv`, what the calling thread knows at each
place of the two loops: at `launch` nothing was collected; at `wait` the current
future is valid and the pass is not the last; at `refill` it is the only one
that may be invalid while tasks remain; a pass that has met no valid future has
seen only invalid ones (`SeenInvalid`); so on return (`AtReturn`) all are
invalid and, with a thread at all, every task was started. `ThreadBound` maps
each running task to its future, an injection into at most `threads` places.
`SerialInOrder` needs in addition that the task behind the one future is the
next after the results there are (`Serial`). For the refinement each step is one
of `TaskPool` or a stutter: `Launch` and `Refill` are `Start`, where the free
thread is shown by the same injection; `Deliver` is `Return`, where `AtReturn`
gives that `ret_vec` enumerates the tasks; `Unwind` is `Throw`.

**LazyArray.** `LAInv` says that the count of each block is the cardinality of
the set of its handles, and that a deleted block has none. What matters of a
step is which handle it gives which contents and that no other handle's contents
change (`Becomes`). It is shown once for each way a block changes (`Replace`,
`Update`, `UpdateRoom`, `Drop`): a handle alone on its block may write to it,
because nobody else's contents are there; one that shares takes a new block
first. From these every action follows, for the counts and for the refinement
of `ArrayValues` at once. A new block must be there to take (`FreeBlocks`), as in
the actions' guards.

**ChunkArray.** `CInv` is the types with `ChunksFull`. The lemmas on `div` and
`%` say which element of which chunk a position is, and that a header resized,
appended to or written keeps the elements at other positions; the rooms come
from `NextPow2Above`: there is a power of two from `n` to `2n - 1`, twice the
one for half of `n`.

**HashTable.** `HTInv` says that node and object lead to each other (`Mirror`),
that the table is the one the strategy asks for unless a `rehash()` is on its way
or has failed (`Current`), that the nodes lie in it (`Inside`), that in such a
table each object's node is in its bucket behind slots that are all taken
(`Reachable`: what makes `find()` find it, and keeps `insert()` from storing it
again), and the same of the slots a rehash has placed (`Placing`).
`BucketInside` shows that the wrap by subtraction stays in the table of the
strategy's current step, whichever of its steps the table itself is at. The
strategy's table sizes have to increase, as those of
`Default_rehash_strategy_` do.

**Simlog.** `IInv` of `SimlogProofs` says of every program that the lines passed
on, pending and in the buffer are distinct (`OnceInv`), which no overlap of
`reset()` with other steps can break, for each step moves lines from the
buffer to what is pending to the streams. For a quiet program it adds that one thread
resets at a time, that the steps after its `flush()` meet nothing to lose
(`FlushedBefore`), and that a disabled buffer is empty but before that `flush()`.
`BuffBounded` is of every program again: the buffer is over its size only while
the `flush()` of the reset is to come after the `configure()` that lowered it,
for that `flush()` empties it whoever calls it.

**Simconf.** `CInv`: the marked names are those of the calls, at most one call
for each, but for what an exception left (`Marked`, `Once`); while a call reads
its lines, `_fname_` is its own name (`Named`), which is why erasing by `_fname_`
erases the right mark; and a call that failed returns an error (`Reported`).

**HashContainer, Service.** `IndexRight` is inductive with the types. `SInv` adds to
`NotifyDelivers` what holds inside the loop of `notify()`: those it has still to
visit were not called, those behind it were, and the counted calls are those that
returned (`VisitInv`); only what runs is kept alive by the loop alone (`LoopInv`).

**Primes.** `PInv` says that every prime asked for is still ahead of where the
search is (`Reached`). A step to the next candidate goes over no number that
shares no factor with 210: the entries of `indices` and of the increments are
checked one by one, and that they repeat is arithmetic. A candidate that the
small primes and the wheel do not divide is prime, because its least divisor is
itself prime, so it is one of the small primes or a place of the wheel no larger
than the root, and the search has tried it. `is_prime()` tries the same
divisors.

**IndexCounter.** `IInv` says that the digits stand for the number `tellp()` is
due to give (`told`). The lemmas tie the weights and partial sums of the digits to
division: what `seekp()` computes by `div` and `%` are the digits of the number.
`next()` and `prev()` are one carry (`Carried`), up to the first digit with room,
or past the last, where the counter turns over.

**BitVector.** `BVInv` adds to the types that no ones are past the size as long as
`clean` says so. Bits are ordered by word and place in it; each search is shown
to give the next one in that order (`NextIn`), within a word by `first_bit1` and
`last_bit1` and across words by the first word with ones; the list of indices
is then every one in order, and the counts are added up word by word.

**U8String.** `TInv` is the types, and that a writable reference is to a string
there is. For `IndexLostOnlyBy` each operation is shown to leave a cache with its
bytes, to empty it, to fill it, or to lose it in one of the ways the property
names (`Kept`), from whatever state: wrong caches included. For `ByCharacter`, a
walk through a string is unique (`Path`), so a right cache of a well-formed
string has the marks where its characters start (`Marks`), and filling it again
changes nothing. Bytes between two marks are a well-formed string whose
characters are those between, and two well-formed strings one after the other
have the characters of both; the u8_ operations put such parts together.

**TextItems.** `ItemsInv` says that there are places `st` in the line at which
`join()` has put the quoted items (`Laid`), and that `split()`, reading the k-th, has
given those before it back and is at a place it can be in that item (`PlaceIn`):
past it, between the quotes at the beginning of the code of some byte, or, where
the quote is its own escape, still at the opening quote. That `unquote()` undoes
`quote()` is shown from the end of the text backwards. The theorem is for all
lists of items and all separators, quotes and escapes of one byte, which is also
what the property is about (`OneByteEach`): the code steps over one byte of any
separator.

The assumptions on constants that only proofs need: contents of an array are
not taken for the marks `Dead` and `Null`; the strategy's sizes increase; a line
on disk is one of `FileLines`; the texts that are joined are sequences over one
set `Byte`; cardinals are positive, for a tuple with none in some place has no
first. TLC evaluates all of them on every run.

Only model-checked:

- liveness (`CallEnds`, `StuckTakesOneThread`, `InsertEnds`) needs fairness and
  `ENABLED`, which the prover does not handle;
- `ReaderAccepts` and `WrittenIsRead` compare with the grammar and with the
  writers, functions recursive over trees; what such a definition gives for every
  input needs the library's induction theorems, which take an operator as a
  parameter and are of no use to the installed provers.

## Findings

- `append()` of LazyArray with room returns a slot in which nothing was
  constructed (`array.h:350`); the unit test assigns to it. Run
  `lazyarray_append`: an array with room for one, then `append()`.
- `rehash()` of Hash_table_ advances the strategy before it can fail
  (`hash_table.h:114`). After a failure the probes start elsewhere in the old
  table, and an object that is there is inserted again, against the assertion
  at `hash_table.h:212`. Run `hashtable_unique`.
- `insert()` of an object that is there returns an iterator made of its slot,
  not of its index (`hash_table.h:185`). Run `hashtable_returns`.
- `reset()` of the logger clears the buffer outside the mutex
  (`simlog.h:173`), so `thread_safe` notwithstanding a line written meanwhile is
  lost. Run `simlog_loss`. That it is never passed on twice holds
  (`LinesOnce`).
- `operator=(LazyArray&&)` of an array to itself leaks its block
  (`array.h:101`); no document says otherwise, so it is stated as the one
  exception of `OnlySelfMoveLeaks`.

What the other modules state with an exception, because the code is so:

- `purge()` finds expired subscribers and erases none (`ExpiredStay`), and
  `subscribe()` always throws: the class inherits `enable_shared_from_this` in
  private (`service.cpp:75`).
- After an include cycle a file stays marked as being read, and the next call
  of `parse()` may refuse it (`FilesMarked`, `simconf.h:54`).
- The cache of a u8string is wrong after `clear()`, for the source of a move,
  after a write through an old reference, after `update_()` of ill-formed text,
  and after an `assign()` of wide characters that throws at the first of them,
  when the bytes are cleared already (`IndexLostOnlyBy`, `u8string.h:672`).
- `u8_replace()` by no characters removes none of those it was to replace
  (`ByCharacter`, `u8string.cpp:632`).
- A bit vector that shrank keeps ones past its size until all its bits are
  changed at once, and searches find them (`OnesFound`).
- `is_prime()` tries neither 2 nor 3 and takes 4, 6, 8 and 9 for primes
  (`NextPrimeIsNext` asks it about other numbers).
- `split()` goes on one byte after the start of a separator, however long it
  is, and takes the quote that closes an item ending in the escape for an
  escaped one (`RoundTrip`).
- The JSON reader lets a comma pass after a member with the empty name, and any
  token for a comma after a comment (`ReaderAccepts`). Comments of the elements of
  an array that fits on one line are not written, `StyledStreamWriter` writes a
  comment on the line of the value before, which it then is read for
  (`WrittenIsRead`).
- `push_back()` of a ChunkArray whose header has room follows a pointer nobody
  set. `crashed` ends the behaviour there, and no property of ChunkArray forbids
  it: its cause is the `append()` of the first finding, which
  `AppendGivesObject` is about. Nor does a property forbid that `insert_at()` of
  LazyArray assigns to such a slot; the model marks the slot `Raw`.

## Not modelled

- `StopWatch`: a list of times, with nothing to get wrong between two calls.
- `hash`, MurmurHash3, `random`, `mmap`, `iterator`, `configure.h`: data without
  control, or wrappers of the system.
- A second logger (the move constructor, which flushes before it locks), and the
  parsing of the logger's options.
- Of u8string the comparisons, searches and conversions; of simconf the
  conversions of option values; of `utility.cpp` addresses and formatting; the
  move operations of Permutations, which free an array twice; of jsoncpp all of
  `Value` that parsing and writing do not use, and the digits of numbers and
  escapes of strings.
- References a caller keeps from `operator[]` of a LazyArray.
- Unlocked reads of `Hash_table_` (`find`) against a locked `insert` and races
  inside `reset()`: undefined behaviour without a set of outcomes to choose from.
- Wording and layout of log lines, and what the elements, keys and results are.

## Plan

Every safety property of the passing runs but the two about JSON is a theorem.
What could be added: the searches, comparisons and conversions of u8string,
`Value` of jsoncpp beyond what parsing and writing use, a second logger.
