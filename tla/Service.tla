------------------------------ MODULE Service ------------------------------
(***************************************************************************)
(* Service and Subscriber (service.h, service.cpp): a map from weak        *)
(* pointers to subscribers to their callbacks, and notify(), which calls   *)
(* them in the order of the map. Callbacks are the user's: while one runs  *)
(* it may register, unregister and let go of subscribers. It neither       *)
(* throws nor calls notify() itself.                                       *)
(*                                                                         *)
(* Subscriber::subscribe() and unsubscribe() change nothing: they throw    *)
(* std::bad_weak_ptr, for the class inherits enable_shared_from_this in    *)
(* private. The map is libstdc++'s, whose nodes keep their hash codes.     *)
(***************************************************************************)
EXTENDS Integers, FiniteSets

CONSTANTS Subs,         \* the subscribers there will ever be
          NoSub,        \* no subscriber
          Address,      \* where each lies: what a pointer to it hashes to
          MaxCalls      \* bound on the calls of one subscriber by one notify()

ASSUME ServiceAssumption ==
    /\ NoSub \notin Subs
    /\ Address \in [Subs -> Nat \ {0}]
    /\ MaxCalls \in Nat

VARIABLES life,         \* "new", "owned", "held" by notify() alone, "expired"
          entries,      \* the keys of subscriptions_
          silent,       \* those among them with an empty callback
          notifying, todo, running, sent,   \* notify(): what is left of its loop
          times,        \* how often each was called by it
          disturbed,    \* reg() was called meanwhile
          broken        \* what it runs or iterates over is gone

svars == <<life, entries, silent, notifying, todo, running, sent, times, disturbed, broken>>
loop == <<notifying, todo, running, sent, times, disturbed, broken>>

Locked(s) == life[s] \in {"owned", "held"}

\* The hash of a pointer now; an expired one hashes as null. An entry is found
\* by the hash it was inserted with.
HashNow(s) == IF Locked(s) THEN Address[s] ELSE 0
InBucket(s) == s \in entries /\ HashNow(s) = Address[s]

SInit == /\ life = [s \in Subs |-> "new"]
         /\ entries = {} /\ silent = {}
         /\ notifying = FALSE /\ todo = {} /\ running = NoSub /\ sent = 0
         /\ times = [s \in Subs |-> 0]
         /\ disturbed = FALSE /\ broken = FALSE

-----------------------------------------------------------------------------
(* The program, outside of notify() or in a callback *)

Create(s) ==
    /\ life[s] = "new"
    /\ life' = [life EXCEPT ![s] = "owned"]
    /\ UNCHANGED <<entries, silent, loop>>

\* The last owner lets go; notify() still has the subscriber it is calling.
Release(s) ==
    /\ life[s] = "owned"
    /\ life' = [life EXCEPT ![s] = IF running = s THEN "held" ELSE "expired"]
    /\ UNCHANGED <<entries, silent, loop>>

\* A new entry may move the others to other buckets, and the loop goes on over
\* them in the new order: what it still visits may be anything. The callback
\* of an entry that is there is replaced, also if it is the one that runs.
Reg(s, empty) ==
    /\ Locked(s)
    /\ entries' = entries \cup {s}
    /\ silent' = IF empty THEN silent \cup {s} ELSE silent \ {s}
    /\ disturbed' = (disturbed \/ notifying)
    /\ IF notifying /\ s \notin entries
       THEN todo' \in SUBSET (entries' \ {running})
       ELSE todo' = todo
    /\ broken' = (broken \/ running = s)
    /\ UNCHANGED <<life, notifying, running, sent, times>>

Unreg(s) ==
    /\ Locked(s) /\ InBucket(s)
    /\ entries' = entries \ {s}
    /\ silent' = silent \ {s}
    /\ todo' = todo \ {s}
    /\ broken' = (broken \/ running = s)
    /\ UNCHANGED <<life, notifying, running, sent, times, disturbed>>

\* Mutant: the entries found to have expired go, however they hash now.
PurgeByOwner ==
    LET tbd == {s \in entries : ~Locked(s)} IN
    /\ tbd # {}
    /\ entries' = entries \ tbd
    /\ silent' = silent \ tbd
    /\ todo' = todo \ tbd
    /\ UNCHANGED <<life, notifying, running, sent, times, disturbed, broken>>

Purge ==
    LET tbd == {s \in entries : ~Locked(s)}
        erased == {s \in tbd : InBucket(s)}
    IN /\ entries' = entries \ erased
       /\ silent' = silent \ erased
       /\ todo' = todo \ erased
       /\ UNCHANGED <<life, notifying, running, sent, times, disturbed, broken>>

-----------------------------------------------------------------------------
(* notify() *)

NotifyStart ==
    /\ ~notifying
    /\ notifying' = TRUE
    /\ todo' = entries
    /\ sent' = 0
    /\ times' = [s \in Subs |-> 0]
    /\ disturbed' = FALSE
    /\ UNCHANGED <<life, entries, silent, running, broken>>

\* Mutant: the weak pointer is not locked.
NotifyCallUnlocked(s) ==
    /\ notifying /\ running = NoSub
    /\ s \in todo /\ s \notin silent /\ times[s] < MaxCalls
    /\ todo' = todo \ {s}
    /\ running' = s
    /\ times' = [times EXCEPT ![s] = @ + 1]
    /\ UNCHANGED <<life, entries, silent, notifying, sent, disturbed, broken>>

NotifyCall(s) ==
    /\ notifying /\ running = NoSub
    /\ s \in todo /\ Locked(s) /\ s \notin silent /\ times[s] < MaxCalls
    /\ todo' = todo \ {s}
    /\ running' = s
    /\ times' = [times EXCEPT ![s] = @ + 1]
    /\ UNCHANGED <<life, entries, silent, notifying, sent, disturbed, broken>>

NotifySkip(s) ==
    /\ notifying /\ running = NoSub
    /\ s \in todo /\ (~Locked(s) \/ s \in silent)
    /\ todo' = todo \ {s}
    /\ UNCHANGED <<life, entries, silent, notifying, running, sent, times, disturbed, broken>>

\* The callback returns, and with it the subscriber is let go.
NotifyReturn ==
    /\ running # NoSub
    /\ running' = NoSub
    /\ sent' = sent + 1
    /\ life' = [life EXCEPT ![running] = IF @ = "held" THEN "expired" ELSE @]
    /\ UNCHANGED <<entries, silent, notifying, todo, times, disturbed, broken>>

NotifyEnd ==
    /\ notifying /\ running = NoSub /\ todo = {}
    /\ notifying' = FALSE
    /\ UNCHANGED <<life, entries, silent, todo, running, sent, times, disturbed, broken>>

\* Nothing is defined once a callback that was erased or replaced returns.
SNext ==
    /\ broken => running # NoSub
    /\ \/ /\ notifying => running # NoSub
          /\ \/ \E s \in Subs : Create(s) \/ Release(s) \/ Unreg(s)
             \/ \E s \in Subs, empty \in BOOLEAN : Reg(s, empty)
             \/ Purge
       \/ \E s \in Subs : NotifyCall(s) \/ NotifySkip(s)
       \/ NotifyStart \/ NotifyReturn \/ NotifyEnd

SSpec == SInit /\ [][SNext]_svars
-----------------------------------------------------------------------------
(* Properties *)

\* The entry of an expired subscriber stays for good: purge() finds it, but
\* erase() looks in the bucket of a null pointer, which it was never in.
ExpiredStay == [][\A s \in entries : life[s] = "expired" => s \in entries']_svars

\* A callback runs only while its subscriber is alive, also when the callback
\* lets go of it. Unless a callback registers, which may have the loop visit
\* entries again or miss them, notify() calls no subscriber twice, and when it
\* returns it has called each one registered with a callback and still owned,
\* and says how many it called.
NotifyDelivers ==
    /\ running # NoSub => Locked(running)
    /\ ~disturbed => \A s \in Subs : times[s] <= 1
    /\ notifying /\ todo = {} /\ running = NoSub /\ ~disturbed /\ ~broken =>
           /\ \A s \in entries \ silent : life[s] = "owned" => times[s] = 1
           /\ sent = Cardinality({s \in Subs : times[s] = 1})
=============================================================================
