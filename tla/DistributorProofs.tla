------------------------- MODULE DistributorProofs -------------------------
(***************************************************************************)
(* Proofs about Distributor, for every length of the task range, every     *)
(* thread count and every set of throwing tasks.                           *)
(***************************************************************************)
EXTENDS Distributor, SequenceTheorems, FunctionTheorems, FiniteSetTheorems, TLAPS

(* What the calling thread knows at each place of the two loops. *)

AtLaunch == pc = "launch" =>
    /\ cur = 1 /\ finish_all = TRUE /\ ret_vec = <<>>
    /\ \A s \in DOMAIN futures : futures[s] # Invalid

AtWait == pc = "wait" =>
    /\ cur \in DOMAIN futures /\ futures[cur] # Invalid
    /\ finish_all = FALSE

AtRefill == pc = "refill" =>
    /\ cur \in DOMAIN futures /\ futures[cur] = Invalid
    /\ finish_all = FALSE

FuturesFull == pc \in {"scan", "wait", "refill"} /\ task_iter <= tasks /\ threads > 0 =>
    /\ Len(futures) = threads
    /\ \A s \in DOMAIN futures :
         futures[s] # Invalid \/ (pc = "refill" /\ s = cur)

SeenInvalid == pc = "scan" /\ finish_all =>
    \A s \in DOMAIN futures : s < cur => futures[s] = Invalid

AtReturn == pc \in {"returning", "returned"} =>
    /\ \A s \in DOMAIN futures : futures[s] = Invalid
    /\ threads > 0 => task_iter = tasks + 1

AtThrow == pc = "threw" => Running = {}

AtUnwind == pc \in {"unwind", "threw"} =>
    AsyncMayThrow \/ \E t \in 1 .. tasks : status[t] = "failed"

NothingLaunched == threads <= 0 => task_iter = 1

CollectedDone == \A k \in DOMAIN ret_vec : status[ret_vec[k]] = "done"

FuturesStarted == \A s \in DOMAIN futures : futures[s] < task_iter

LoopInv == /\ AtLaunch /\ AtWait /\ AtRefill /\ FuturesFull
           /\ SeenInvalid /\ AtReturn /\ AtThrow /\ AtUnwind /\ CollectedDone /\ FuturesStarted
           /\ NothingLaunched

IInv == TypeOK /\ EveryTaskAccounted /\ LoopInv

-----------------------------------------------------------------------------
\* The sequences a step may put in the place of futures and ret_vec.
LEMMA AppendLemma ==
  ASSUME NEW S, NEW seq \in Seq(S), NEW e \in S
  PROVE  /\ Append(seq, e) \in Seq(S)
         /\ Len(Append(seq, e)) = Len(seq) + 1
         /\ DOMAIN Append(seq, e) = 1 .. Len(seq) + 1
         /\ DOMAIN seq = 1 .. Len(seq)
         /\ Len(seq) \in Nat
         /\ \A i \in 1 .. Len(seq) : Append(seq, e)[i] = seq[i]
         /\ Append(seq, e)[Len(seq) + 1] = e
BY AppendProperties, LenProperties

LEMMA ReplaceLemma ==
  ASSUME NEW S, NEW seq \in Seq(S), NEW i \in 1 .. Len(seq), NEW e \in S
  PROVE  /\ [seq EXCEPT ![i] = e] \in Seq(S)
         /\ Len([seq EXCEPT ![i] = e]) = Len(seq)
         /\ DOMAIN [seq EXCEPT ![i] = e] = 1 .. Len(seq)
         /\ DOMAIN seq = 1 .. Len(seq)
         /\ Len(seq) \in Nat
         /\ \A j \in 1 .. Len(seq) : [seq EXCEPT ![i] = e][j] = IF j = i THEN e ELSE seq[j]
BY ExceptSeq, LenProperties

\* What the provers need to know of the types.
LEMMA Basics ==
  ASSUME TypeOK
  PROVE  /\ tasks \in Nat /\ threads \in Int /\ task_iter \in Nat /\ cur \in Nat
         /\ Len(futures) \in Nat
         /\ DOMAIN futures = 1 .. Len(futures)
         /\ \A s \in 1 .. Len(futures) : futures[s] \in 0 .. tasks
         /\ Len(ret_vec) \in Nat
         /\ DOMAIN ret_vec = 1 .. Len(ret_vec)
         /\ \A k \in 1 .. Len(ret_vec) : ret_vec[k] \in 1 .. tasks
<1>1. tasks \in Nat /\ threads \in Int
      BY DistributorAssumption DEF TypeOK
<1>2. /\ Len(futures) \in Nat
      /\ DOMAIN futures = 1 .. Len(futures)
      /\ Len(ret_vec) \in Nat
      /\ DOMAIN ret_vec = 1 .. Len(ret_vec)
      BY LenProperties DEF TypeOK
<1>3. task_iter \in Nat /\ cur \in Nat
      BY <1>1, <1>2 DEF TypeOK
<1>4. \A s \in 1 .. Len(futures) : futures[s] \in 0 .. tasks
      BY ElementOfSeq DEF TypeOK
<1>5. \A k \in 1 .. Len(ret_vec) : ret_vec[k] \in 1 .. tasks
      BY ElementOfSeq DEF TypeOK
<1> QED BY <1>1, <1>2, <1>3, <1>4, <1>5

LEMMA InitInv == Init => IInv
<1> SUFFICES ASSUME Init PROVE IInv
    OBVIOUS
<1>1. TypeOK
      BY DistributorAssumption, EmptySeq DEF Init, TypeOK, OldOut
<1>2. EveryTaskAccounted
      BY DEF Init, EveryTaskAccounted, LaunchedInOrder, NoTaskLost, OneFutureEach,
             ResultsOnce, IsInjective
<1>3. LoopInv
      BY DEF Init, LoopInv, AtLaunch, AtWait, AtRefill, FuturesFull, SeenInvalid,
             AtReturn, AtThrow, AtUnwind, CollectedDone, FuturesStarted, NothingLaunched
<1> QED BY <1>1, <1>2, <1>3 DEF IInv

LEMMA LaunchInv == IInv /\ Launch => IInv'
<1> SUFFICES ASSUME IInv, Launch PROVE IInv'
    OBVIOUS
<1> USE DEF IInv, callArgs
<1>1. CASE StartWorker /\ futures' = Append(futures, task_iter) /\ UNCHANGED <<pc, cur>>
  <2>1. /\ task_iter \in 1 .. tasks
        /\ Len(futures) < threads
        /\ pc = "launch" /\ pc' = "launch" /\ cur' = cur
        /\ status' = [status EXCEPT ![task_iter] = "running"]
        /\ task_iter' = task_iter + 1
        /\ UNCHANGED <<tasks, threads, wanted, finish_all, ret_vec, out>>
        BY <1>1 DEF Launch, StartWorker, TypeOK
  <2>2. /\ futures' \in Seq(0 .. tasks)
        /\ Len(futures) \in Nat
        /\ Len(futures') = Len(futures) + 1
        /\ DOMAIN futures = 1 .. Len(futures)
        /\ DOMAIN futures' = 1 .. Len(futures) + 1
        /\ \A i \in DOMAIN futures : futures'[i] = futures[i]
        /\ futures'[Len(futures) + 1] = task_iter
        BY <1>1, <2>1, AppendLemma DEF TypeOK
  <2>a. \A i \in DOMAIN futures : futures[i] \in 0 .. tasks
        BY <2>2, ElementOfSeq DEF TypeOK
  <2>3. TypeOK'
        BY <2>1, <2>2, DistributorAssumption DEF TypeOK
  <2>4. LaunchedInOrder'
        BY <2>1, <2>2 DEF TypeOK, EveryTaskAccounted, LaunchedInOrder
  <2>5. NoTaskLost'
    <3>1. \A t \in 1 .. tasks : InFuture(t) => InFuture(t)'
          BY <2>1, <2>2 DEF InFuture
    <3>2. \E s \in DOMAIN futures' : futures'[s] = task_iter
          BY <2>1, <2>2
    <3>3. \A t \in 1 .. tasks : Collected(t) => Collected(t)'
          BY <2>1 DEF Collected
    <3>4. \A t \in 1 .. tasks : t # task_iter => status'[t] = status[t]
          BY <2>1 DEF TypeOK
    <3> QED BY <2>1, <3>1, <3>2, <3>3, <3>4 DEF EveryTaskAccounted, NoTaskLost, InFuture
  <2>6. OneFutureEach'
        BY <2>1, <2>2, <2>a DEF EveryTaskAccounted, OneFutureEach, LoopInv, FuturesStarted
  <2>7. ResultsOnce'
        BY <2>1, <2>2 DEF EveryTaskAccounted, ResultsOnce, IsInjective, LoopInv, AtLaunch
  <2>8. /\ AtLaunch' /\ AtWait' /\ AtRefill' /\ FuturesFull' /\ SeenInvalid' /\ AtReturn' /\ AtThrow' /\ AtUnwind'
        /\ NothingLaunched'
        BY <2>1, <2>2, Basics, SMTT(30) DEF LoopInv, NothingLaunched, AtLaunch, AtWait, AtRefill, FuturesFull, SeenInvalid,
             AtReturn, AtThrow, AtUnwind, Invalid
  <2>9. CollectedDone'
        BY <2>1 DEF LoopInv, AtLaunch, CollectedDone
  <2>10. FuturesStarted'
        BY <2>1, <2>2, <2>a DEF LoopInv, FuturesStarted
  <2> QED BY <2>3, <2>4, <2>5, <2>6, <2>7, <2>8, <2>9, <2>10 DEF EveryTaskAccounted, LoopInv
<1>2. CASE AsyncThrows
  <2>1. /\ pc' = "unwind" /\ pc = "launch" /\ AsyncMayThrow
        /\ UNCHANGED <<tasks, threads, wanted, task_iter, futures, cur, finish_all, ret_vec,
                       status, out>>
        BY <1>2 DEF Launch, AsyncThrows
  <2>2. TypeOK'
        BY <2>1 DEF TypeOK
  <2>3. EveryTaskAccounted'
        BY <2>1 DEF EveryTaskAccounted, LaunchedInOrder, NoTaskLost, OneFutureEach,
             ResultsOnce, InFuture, Collected
  <2>4. LoopInv'
        BY <2>1 DEF TypeOK, LoopInv, AtLaunch, AtWait, AtRefill, FuturesFull, SeenInvalid,
             AtReturn, AtThrow, AtUnwind, CollectedDone, FuturesStarted, NothingLaunched
  <2> QED BY <2>2, <2>3, <2>4
<1> QED BY <1>1, <1>2 DEF Launch

\* Most steps of the calling thread leave the tasks, the futures and the
\* results alone and only move between the places of the loops.
LEMMA MoveAccounted ==
  ASSUME EveryTaskAccounted,
         UNCHANGED <<tasks, threads, wanted, task_iter, futures, ret_vec, status>>,
         pc \in {"unwind", "threw"} => pc' \in {"unwind", "threw"}
  PROVE  EveryTaskAccounted'
BY DEF EveryTaskAccounted, LaunchedInOrder, NoTaskLost, OneFutureEach, ResultsOnce,
       InFuture, Collected

LEMMA LaunchedInv == IInv /\ Launched => IInv'
<1> SUFFICES ASSUME IInv, Launched PROVE IInv'
    OBVIOUS
<1> USE DEF IInv, callArgs, Launched
<1>1. TypeOK'
      BY DEF TypeOK
<1>2. EveryTaskAccounted'
      BY MoveAccounted
<1>3. FuturesFull'
      BY Basics DEF TypeOK, LoopInv, AtLaunch, FuturesFull
<1>4. SeenInvalid'
      BY Basics DEF TypeOK, LoopInv, AtLaunch, SeenInvalid
<1> QED BY <1>1, <1>2, <1>3, <1>4 DEF LoopInv, AtLaunch, AtWait, AtRefill, AtReturn, AtThrow,
             AtUnwind, CollectedDone, FuturesStarted, NothingLaunched

LEMMA SkipInvalidInv == IInv /\ SkipInvalid => IInv'
<1> SUFFICES ASSUME IInv, SkipInvalid PROVE IInv'
    OBVIOUS
<1> USE DEF IInv, callArgs, SkipInvalid
<1>1. TypeOK'
      BY Basics DEF TypeOK
<1>2. EveryTaskAccounted'
      BY MoveAccounted
<1>3. SeenInvalid'
      BY Basics, SMTT(30) DEF TypeOK, LoopInv, SeenInvalid
<1> QED BY <1>1, <1>2, <1>3 DEF LoopInv, AtLaunch, AtWait, AtRefill, FuturesFull, AtReturn,
             AtThrow, AtUnwind, CollectedDone, FuturesStarted, NothingLaunched

LEMMA BeginWaitInv == IInv /\ BeginWait => IInv'
<1> SUFFICES ASSUME IInv, BeginWait PROVE IInv'
    OBVIOUS
<1> USE DEF IInv, callArgs, BeginWait
<1>1. TypeOK'
      BY DEF TypeOK
<1>2. EveryTaskAccounted'
      BY MoveAccounted
<1>3. AtWait'
      BY Basics DEF TypeOK, AtWait
<1> QED BY <1>1, <1>2, <1>3 DEF LoopInv, AtLaunch, AtRefill, FuturesFull, SeenInvalid,
             AtReturn, AtThrow, AtUnwind, CollectedDone, FuturesStarted, NothingLaunched

LEMMA WaitTimeoutInv == IInv /\ WaitTimeout => IInv'
<1> SUFFICES ASSUME IInv, WaitTimeout PROVE IInv'
    OBVIOUS
<1> USE DEF IInv, callArgs, WaitTimeout
<1>1. TypeOK'
      BY Basics DEF TypeOK, LoopInv, AtWait
<1>2. EveryTaskAccounted'
      BY MoveAccounted
<1> QED BY <1>1, <1>2 DEF LoopInv, AtLaunch, AtWait, AtRefill, FuturesFull, SeenInvalid,
             AtReturn, AtThrow, AtUnwind, CollectedDone, FuturesStarted, NothingLaunched

LEMMA EndPassInv == IInv /\ EndPass => IInv'
<1> SUFFICES ASSUME IInv, EndPass PROVE IInv'
    OBVIOUS
<1> USE DEF IInv, callArgs
<1>1. /\ pc = "scan" /\ cur > Len(futures)
      /\ UNCHANGED <<tasks, threads, wanted, task_iter, futures, ret_vec, status, out>>
      BY DEF EndPass
<1>2. CASE finish_all = FALSE
  <2>1. cur' = 1 /\ finish_all' = TRUE /\ pc' = pc
        BY <1>2 DEF EndPass
  <2>2. TypeOK'
        BY <1>1, <2>1, Basics DEF TypeOK
  <2>3. EveryTaskAccounted'
        BY <1>1, <2>1, MoveAccounted
  <2>4. SeenInvalid'
        BY <1>1, <2>1, Basics DEF SeenInvalid
  <2> QED BY <1>1, <2>1, <2>2, <2>3, <2>4 DEF LoopInv, AtLaunch, AtWait, AtRefill, FuturesFull,
             AtReturn, AtThrow, AtUnwind, CollectedDone, FuturesStarted, NothingLaunched
<1>3. CASE finish_all = TRUE
  <2>1. cur' = cur /\ finish_all' = finish_all /\ pc' = "returning"
        BY <1>3 DEF EndPass
  <2>2. TypeOK'
        BY <1>1, <2>1 DEF TypeOK
  <2>3. EveryTaskAccounted'
        BY <1>1, <2>1, MoveAccounted
  <2>4. \A s \in DOMAIN futures : futures[s] = Invalid
        BY <1>1, <1>3, Basics DEF LoopInv, SeenInvalid
  <2>5. threads > 0 => task_iter = tasks + 1
    <3>1. SUFFICES ASSUME threads > 0, task_iter <= tasks PROVE FALSE
          BY Basics DEF TypeOK
    <3>2. Len(futures) = threads /\ \A s \in DOMAIN futures : futures[s] # Invalid
          BY <1>1, <3>1 DEF LoopInv, FuturesFull
    <3>3. 1 \in DOMAIN futures
          BY <3>1, <3>2, Basics
    <3> QED BY <2>4, <3>2, <3>3
  <2>6. AtReturn'
        BY <1>1, <2>1, <2>4, <2>5 DEF AtReturn
  <2> QED BY <1>1, <2>1, <2>2, <2>3, <2>6 DEF LoopInv, AtLaunch, AtWait, AtRefill, FuturesFull,
             SeenInvalid, AtThrow, AtUnwind, CollectedDone, FuturesStarted, NothingLaunched
<1> QED BY <1>2, <1>3 DEF TypeOK

LEMMA DeliverInv == IInv /\ Deliver => IInv'
<1> SUFFICES ASSUME IInv, Deliver PROVE IInv'
    OBVIOUS
<1> USE DEF IInv, callArgs, Deliver
<1>1. TypeOK'
  <2>1. ret_vec \in Seq(0 .. tasks)
    <3>1. 1 .. tasks \subseteq 0 .. tasks /\ ret_vec \in Seq(1 .. tasks)
          BY Basics DEF TypeOK
    <3> QED BY <3>1, SeqMonotonic
  <2>2. out' \in {ret_vec, out}
        OBVIOUS
  <2> QED BY <2>1, <2>2 DEF TypeOK
<1>2. EveryTaskAccounted'
      BY MoveAccounted
<1> QED BY <1>1, <1>2 DEF LoopInv, AtLaunch, AtWait, AtRefill, FuturesFull, SeenInvalid,
             AtReturn, AtThrow, AtUnwind, CollectedDone, FuturesStarted, NothingLaunched

LEMMA UnwindInv == IInv /\ Unwind => IInv'
<1> SUFFICES ASSUME IInv, Unwind PROVE IInv'
    OBVIOUS
<1> USE DEF IInv, callArgs, Unwind
<1>1. TypeOK'
      BY DEF TypeOK
<1>2. EveryTaskAccounted'
      BY MoveAccounted
<1>3. AtThrow'
      BY DEF AtThrow, Running, EveryTaskAccounted, NoTaskLost, InFuture, TypeOK, Invalid
<1> QED BY <1>1, <1>2, <1>3 DEF LoopInv, AtLaunch, AtWait, AtRefill, FuturesFull, SeenInvalid,
             AtReturn, AtUnwind, CollectedDone, FuturesStarted, NothingLaunched

LEMMA CollectInv == IInv /\ Collect => IInv'
<1> SUFFICES ASSUME IInv, Collect PROVE IInv'
    OBVIOUS
<1> USE DEF IInv, callArgs
<1> DEFINE task == futures[cur]
<1>1. /\ pc = "wait" /\ cur \in 1 .. Len(futures)
      /\ task \in 1 .. tasks
      /\ finish_all = FALSE
      BY Basics DEF Collect, LoopInv, AtWait, Invalid
<1>2. /\ UNCHANGED <<tasks, threads, wanted, task_iter, cur, finish_all, status, out>>
      /\ futures' = [futures EXCEPT ![cur] = Invalid]
      BY DEF Collect
<1>3. /\ futures' \in Seq(0 .. tasks)
      /\ Len(futures') = Len(futures)
      /\ Len(futures) \in Nat
      /\ DOMAIN futures = 1 .. Len(futures)
      /\ DOMAIN futures' = 1 .. Len(futures)
      /\ \A s \in 1 .. Len(futures) : futures'[s] = IF s = cur THEN 0 ELSE futures[s]
      BY <1>1, <1>2, Basics, ReplaceLemma, 0 \in 0 .. tasks, SMTT(30) DEF TypeOK, Invalid
<1>4. LaunchedInOrder' /\ OneFutureEach'
      BY <1>2, <1>3 DEF EveryTaskAccounted, LaunchedInOrder, OneFutureEach, Invalid
\* The future that was emptied held the task alone.
<1>5. \A t \in 1 .. tasks : InFuture(t)' <=> InFuture(t) /\ t # task
  <2> TAKE t \in 1 .. tasks
  <2>1. InFuture(t)' <=> \E s \in 1 .. Len(futures) : s # cur /\ futures[s] = t
        BY <1>2, <1>3, t \in 1 .. tasks DEF InFuture
  <2> QED BY <1>1, <1>3, <2>1 DEF InFuture, EveryTaskAccounted, OneFutureEach, Invalid
<1>6. AtLaunch' /\ AtWait' /\ SeenInvalid' /\ AtReturn' /\ AtThrow'
      BY <1>1 DEF Collect, AtLaunch, AtWait, SeenInvalid, AtReturn, AtThrow
<1>7. AtRefill'
      BY <1>1, <1>2, <1>3 DEF AtRefill, Invalid
<1>8. FuturesFull'
      BY <1>1, <1>2, <1>3 DEF Collect, LoopInv, FuturesFull, Invalid
<1>9. FuturesStarted' /\ NothingLaunched'
      BY <1>1, <1>2, <1>3, Basics DEF LoopInv, FuturesStarted, NothingLaunched, TypeOK
<1>10. CASE status[task] = "done"
  <2>1. pc' = "refill" /\ ret_vec' = Append(ret_vec, task)
        BY <1>10 DEF Collect
  <2>2. /\ ret_vec' \in Seq(1 .. tasks)
        /\ Len(ret_vec) \in Nat
        /\ DOMAIN ret_vec = 1 .. Len(ret_vec)
        /\ DOMAIN ret_vec' = 1 .. Len(ret_vec) + 1
        /\ \A k \in 1 .. Len(ret_vec) : ret_vec'[k] = ret_vec[k]
        /\ ret_vec'[Len(ret_vec) + 1] = task
        BY <1>1, <2>1, AppendLemma DEF TypeOK
  <2>3. TypeOK'
        BY <1>1, <1>2, <1>3, <2>1, <2>2 DEF TypeOK
  <2>4. \A t \in 1 .. tasks : Collected(t)' <=> Collected(t) \/ t = task
        BY <2>2 DEF Collected
  <2>5. NoTaskLost'
        BY <1>1, <1>2, <1>5, <1>10, <2>4 DEF EveryTaskAccounted, NoTaskLost
  <2>6. \A k \in 1 .. Len(ret_vec) : ret_vec[k] \in 1 .. tasks /\ ret_vec[k] # task
        BY <1>1, <1>3, <2>2, Basics DEF EveryTaskAccounted, ResultsOnce, InFuture
  <2>7. ResultsOnce'
    <3>1. IsInjective(ret_vec)'
          BY <2>2, <2>6 DEF EveryTaskAccounted, ResultsOnce, IsInjective
    <3>2. \A k \in 1 .. Len(ret_vec) : \A s \in DOMAIN futures' : futures'[s] # ret_vec[k]
          BY <1>3, <2>2, <2>6 DEF EveryTaskAccounted, ResultsOnce, InFuture
    <3>3. \A s \in DOMAIN futures' : futures'[s] # task
          BY <1>1, <1>3 DEF EveryTaskAccounted, OneFutureEach, Invalid
    <3>4. \A k \in DOMAIN ret_vec' : \A s \in DOMAIN futures' : futures'[s] # ret_vec'[k]
          BY <2>2, <3>2, <3>3
    <3> QED BY <3>1, <3>4 DEF ResultsOnce, InFuture
  <2>8. CollectedDone'
        BY <1>2, <1>10, <2>2 DEF LoopInv, CollectedDone
  <2> QED BY <1>4, <1>6, <1>7, <1>8, <1>9, <2>1, <2>3, <2>5, <2>7, <2>8
          DEF EveryTaskAccounted, LoopInv, AtUnwind
<1>11. CASE status[task] = "failed"
  <2>1. pc' = "unwind" /\ ret_vec' = ret_vec
        BY <1>11 DEF Collect
  <2>2. TypeOK'
        BY <1>1, <1>2, <1>3, <2>1 DEF TypeOK
  <2>3. NoTaskLost'
        BY <1>1, <1>2, <1>5, <1>11, <2>1 DEF EveryTaskAccounted, NoTaskLost, Collected
  <2>4. ResultsOnce'
    <3>1. \A k \in DOMAIN ret_vec : \A s \in DOMAIN futures' : futures'[s] # ret_vec[k]
          BY <1>3, Basics DEF EveryTaskAccounted, ResultsOnce, InFuture
    <3> QED BY <2>1, <3>1 DEF EveryTaskAccounted, ResultsOnce, InFuture
  <2>5. CollectedDone'
        BY <1>2, <2>1 DEF LoopInv, CollectedDone
  <2>6. AtUnwind'
        BY <1>1, <1>2, <1>11 DEF AtUnwind
  <2> QED BY <1>4, <1>6, <1>7, <1>8, <1>9, <2>2, <2>3, <2>4, <2>5, <2>6
          DEF EveryTaskAccounted, LoopInv
<1> QED BY <1>10, <1>11 DEF Collect

LEMMA RefillInv == IInv /\ Refill => IInv'
<1> SUFFICES ASSUME IInv, Refill PROVE IInv'
    OBVIOUS
<1> USE DEF IInv, callArgs
<1>1. /\ pc = "refill" /\ cur \in 1 .. Len(futures)
      /\ futures[cur] = Invalid
      /\ finish_all = FALSE
      /\ UNCHANGED <<tasks, threads, wanted, finish_all, ret_vec, out>>
      BY Basics DEF Refill, LoopInv, AtRefill
<1>2. CASE /\ task_iter <= tasks /\ StartWorker
           /\ futures' = [futures EXCEPT ![cur] = task_iter]
           /\ pc' = "scan" /\ cur' = cur + 1
  <2>1. /\ task_iter \in 1 .. tasks
        /\ status' = [status EXCEPT ![task_iter] = "running"]
        /\ task_iter' = task_iter + 1
        /\ pc' = "scan" /\ cur' = cur + 1
        BY <1>2 DEF StartWorker, TypeOK
  <2>2. /\ futures' \in Seq(0 .. tasks)
        /\ Len(futures') = Len(futures)
        /\ Len(futures) \in Nat
        /\ DOMAIN futures = 1 .. Len(futures)
        /\ DOMAIN futures' = 1 .. Len(futures)
        /\ \A s \in 1 .. Len(futures) : futures'[s] = IF s = cur THEN task_iter ELSE futures[s]
        BY <1>1, <1>2, <2>1, Basics, ReplaceLemma, task_iter \in 0 .. tasks DEF TypeOK
  <2>3. TypeOK'
        BY <1>1, <2>1, <2>2, Basics DEF TypeOK
  <2>4. LaunchedInOrder'
        BY <1>1, <2>1, Basics DEF TypeOK, EveryTaskAccounted, LaunchedInOrder
  <2>5. OneFutureEach'
        BY <1>1, <2>1, <2>2, Basics, SMTT(30) DEF EveryTaskAccounted, OneFutureEach, Invalid,
             LoopInv, FuturesStarted
  <2>6. NoTaskLost'
    <3>1. \A t \in 1 .. tasks : InFuture(t) => InFuture(t)'
          BY <1>1, <2>2 DEF InFuture, Invalid
    <3>2. \E s \in DOMAIN futures' : futures'[s] = task_iter
          BY <1>1, <2>2
    <3>3. \A t \in 1 .. tasks : Collected(t) => Collected(t)'
          BY <1>1 DEF Collected
    <3>4. \A t \in 1 .. tasks : t # task_iter => status'[t] = status[t]
          BY <2>1 DEF TypeOK
    <3> QED BY <1>1, <2>1, <3>1, <3>2, <3>3, <3>4 DEF EveryTaskAccounted, NoTaskLost, InFuture
  <2>7. \A k \in 1 .. Len(ret_vec) :
          ret_vec[k] \in 1 .. tasks /\ status[ret_vec[k]] = "done" /\ ret_vec[k] # task_iter
    <3>1. \A k \in 1 .. Len(ret_vec) :
            ret_vec[k] \in 1 .. tasks /\ status[ret_vec[k]] = "done"
          BY Basics DEF LoopInv, CollectedDone
    <3>2. status[task_iter] = "idle"
          BY <2>1 DEF EveryTaskAccounted, LaunchedInOrder
    <3> QED BY <3>1, <3>2
  <2>8. ResultsOnce'
    <3>1. \A k \in DOMAIN ret_vec : \A s \in DOMAIN futures' : futures'[s] # ret_vec[k]
          BY <2>2, <2>7, Basics DEF EveryTaskAccounted, ResultsOnce, InFuture
    <3> QED BY <1>1, <3>1 DEF EveryTaskAccounted, ResultsOnce, InFuture
  <2>9. CollectedDone'
        BY <1>1, <2>1, <2>7, Basics DEF CollectedDone, TypeOK
  <2>10. FuturesStarted'
        BY <2>1, <2>2, Basics DEF LoopInv, FuturesStarted
  <2>12. NothingLaunched'
    <3>1. Len(futures) > 0 /\ Len(futures) <= threads /\ threads \in Int
          BY <1>1, <2>2, Basics DEF TypeOK
    <3> QED BY <1>1, <2>2, <3>1 DEF NothingLaunched
  <2>11. FuturesFull'
        BY <1>1, <2>1, <2>2, Basics DEF LoopInv, FuturesFull, Invalid
  <2> QED BY <1>1, <2>1, <2>3, <2>4, <2>5, <2>6, <2>8, <2>9, <2>10, <2>11, <2>12
          DEF EveryTaskAccounted, LoopInv, AtLaunch, AtWait, AtRefill, SeenInvalid, AtReturn, AtThrow,
              AtUnwind
<1>3. CASE AsyncThrows
  <2>1. pc' = "unwind" /\ AsyncMayThrow /\ UNCHANGED <<task_iter, futures, cur, status>>
        BY <1>3 DEF AsyncThrows
  <2>2. TypeOK'
        BY <1>1, <2>1 DEF TypeOK
  <2>3. EveryTaskAccounted'
        BY <1>1, <2>1, MoveAccounted
  <2> QED BY <1>1, <2>1, <2>2, <2>3 DEF LoopInv, AtLaunch, AtWait, AtRefill, FuturesFull,
             SeenInvalid, AtReturn, AtThrow, AtUnwind, CollectedDone, FuturesStarted, NothingLaunched
<1>4. CASE task_iter > tasks /\ pc' = "scan" /\ cur' = cur + 1
           /\ UNCHANGED <<task_iter, futures, status>>
  <2>1. TypeOK'
        BY <1>1, <1>4, Basics DEF TypeOK
  <2>2. EveryTaskAccounted'
        BY <1>1, <1>4, MoveAccounted
  <2> QED BY <1>1, <1>4, <2>1, <2>2, Basics DEF LoopInv, AtLaunch, AtWait, AtRefill, FuturesFull,
             SeenInvalid, AtReturn, AtThrow, AtUnwind, CollectedDone, FuturesStarted, NothingLaunched
<1> QED BY <1>2, <1>3, <1>4 DEF Refill

LEMMA WorkerInv == IInv /\ (\E t \in 1 .. tasks : Worker(t)) => IInv'
<1> SUFFICES ASSUME IInv, NEW t \in 1 .. tasks, Worker(t) PROVE IInv'
    OBVIOUS
<1> USE DEF IInv, callArgs
<1>1. /\ status[t] = "running"
      /\ UNCHANGED <<tasks, threads, wanted, pc, task_iter, futures, cur, finish_all, ret_vec, out>>
      BY DEF Worker
<1>2. /\ status' \in [1 .. tasks -> {"idle", "running", "done", "failed"}]
      /\ status'[t] \in {"done", "failed"}
      /\ \A u \in 1 .. tasks : u # t => status'[u] = status[u]
      BY DEF Worker, TypeOK
<1>3. TypeOK'
      BY <1>1, <1>2 DEF TypeOK
<1>4. LaunchedInOrder' /\ OneFutureEach' /\ ResultsOnce'
      BY <1>1, <1>2 DEF EveryTaskAccounted, LaunchedInOrder, OneFutureEach, ResultsOnce, InFuture
<1>5. InFuture(t)
      BY <1>1 DEF EveryTaskAccounted, NoTaskLost
<1>6. NoTaskLost'
      BY <1>1, <1>2, <1>5 DEF EveryTaskAccounted, NoTaskLost, InFuture, Collected
<1>7. AtThrow'
      BY <1>1 DEF LoopInv, AtThrow, Running
<1>8. CollectedDone'
      BY <1>1, <1>2, <1>5, Basics DEF EveryTaskAccounted, ResultsOnce, LoopInv, CollectedDone
<1>9. AtUnwind'
      BY <1>1, <1>2 DEF LoopInv, AtUnwind
<1> QED BY <1>1, <1>3, <1>4, <1>6, <1>7, <1>8, <1>9
        DEF EveryTaskAccounted, LoopInv, AtLaunch, AtWait, AtRefill, FuturesFull,
            SeenInvalid, AtReturn, FuturesStarted, NothingLaunched

LEMMA StutterInv == IInv /\ UNCHANGED vars => IInv'
BY DEF IInv, vars, callArgs, TypeOK, EveryTaskAccounted, LaunchedInOrder, NoTaskLost,
       OneFutureEach, ResultsOnce, InFuture, Collected, LoopInv, AtLaunch, AtWait, AtRefill,
       FuturesFull, SeenInvalid, AtReturn, AtThrow, AtUnwind, Running, CollectedDone, FuturesStarted, NothingLaunched

\* The inductive invariant holds in every state of every call.
THEOREM Invariance == Spec => []IInv
<1>1. Init => IInv
      BY InitInv
<1>2. IInv /\ [Next]_vars => IInv'
      BY LaunchInv, LaunchedInv, SkipInvalidInv, BeginWaitInv, WaitTimeoutInv, CollectInv,
         RefillInv, EndPassInv, DeliverInv, UnwindInv, WorkerInv, StutterInv DEF Next, Main
<1> QED BY <1>1, <1>2, PTL DEF Spec

-----------------------------------------------------------------------------
(* What follows from the inductive invariant *)

\* The types hold in every state (TypeOK of Distributor).
THEOREM TypeCorrect == Spec => []TypeOK
<1>1. IInv => TypeOK
      BY DEF IInv
<1> QED BY <1>1, Invariance, PTL

\* No task is lost, repeated or handed out of order, for any range, thread
\* count and set of throwing workers.
THEOREM TasksAccounted == Spec => []EveryTaskAccounted
<1>1. IInv => EveryTaskAccounted
      BY DEF IInv
<1> QED BY <1>1, Invariance, PTL

\* The polling loop keeps every thread busy while tasks wait.
THEOREM FuturesBusy == Spec => []EveryFutureBusy
<1>1. IInv => EveryFutureBusy
      BY DEF IInv, LoopInv, FuturesFull, EveryFutureBusy
<1> QED BY <1>1, Invariance, PTL

\* No worker outlives the call.
THEOREM NoneOutlives == Spec => []NoWorkerOutlives
<1>1. ASSUME IInv PROVE NoWorkerOutlives
  <2>1. CASE pc = "threw"
        BY <1>1, <2>1 DEF IInv, LoopInv, AtThrow, NoWorkerOutlives
  <2>2. CASE pc = "returned"
        BY <1>1, <2>2, Basics DEF IInv, LoopInv, AtReturn, NoWorkerOutlives, Running,
             EveryTaskAccounted, NoTaskLost, InFuture, Invalid
  <2> QED BY <2>1, <2>2 DEF NoWorkerOutlives, Ended
<1> QED BY <1>1, Invariance, PTL

\* The running workers are no more than any set of futures that holds them.
LEMMA RunningBound ==
  ASSUME TypeOK, NoTaskLost, NEW S \in SUBSET (1 .. Len(futures)),
         \A s \in (1 .. Len(futures)) \ S : futures[s] = Invalid
  PROVE  /\ IsFiniteSet(S) /\ Cardinality(Running) <= Cardinality(S)
         /\ Cardinality(Running) \in Nat /\ Cardinality(S) \in Nat
<1> DEFINE S1 == {s \in S : futures[s] \in Running}
           f == [s \in S1 |-> futures[s]]
<1>1. IsFiniteSet(S) /\ IsFiniteSet(S1) /\ Cardinality(S1) <= Cardinality(S)
  <2>1. IsFiniteSet(1 .. Len(futures))
        BY Basics, FS_Interval
  <2>2. IsFiniteSet(S)
        BY <2>1, FS_Subset
  <2> QED BY <2>2, FS_Subset
<1>2. \A t \in Running : \E s \in S1 : f[s] = t
  <2> SUFFICES ASSUME NEW t \in Running PROVE \E s \in S1 : f[s] = t
      OBVIOUS
  <2>1. t \in 1 .. tasks /\ InFuture(t)
        BY DEF NoTaskLost, Running
  <2>2. PICK s \in 1 .. Len(futures) : futures[s] = t
        BY <2>1, Basics DEF InFuture
  <2>3. t # Invalid
        BY <2>1, Basics DEF Invalid
  <2>4. s \in S1
        BY <2>2, <2>3
  <2> QED BY <2>2, <2>4
<1>3. f \in Surjection(S1, Running)
  <2>1. f \in [S1 -> Running]
        OBVIOUS
  <2> QED BY <1>2, <2>1 DEF Surjection
<1>4. IsFiniteSet(Running) /\ Cardinality(Running) <= Cardinality(S1)
      BY <1>1, <1>3, FS_Surjection
<1> QED BY <1>1, <1>4, FS_CardinalityType

\* Never more than "threads" workers at a time, whatever "threads" is.
THEOREM ThreadBound == Spec => []AtMostThreads
<1>1. ASSUME IInv PROVE AtMostThreads
  <2>1. Cardinality(Running) <= Cardinality(1 .. Len(futures)) /\ Cardinality(Running) \in Nat
        BY <1>1, RunningBound DEF IInv, EveryTaskAccounted
  <2>2. Cardinality(1 .. Len(futures)) = Len(futures)
    <3>1. Len(futures) \in Nat
          BY <1>1, Basics DEF IInv
    <3>2. Cardinality(1 .. Len(futures)) = IF 1 > Len(futures) THEN 0 ELSE Len(futures) - 1 + 1
          BY <3>1, FS_Interval
    <3> QED BY <3>1, <3>2
  <2>3. Len(futures) \in Nat /\ threads \in Int /\ (Len(futures) > 0 => Len(futures) <= threads)
        BY <1>1, Basics DEF IInv, TypeOK
  <2> QED BY <2>1, <2>2, <2>3 DEF AtMostThreads
<1> QED BY <1>1, Invariance, PTL

-----------------------------------------------------------------------------
(* One thread *)

\* With one thread there is one future at most; the task behind it, or the one
\* that the refill is about to put there, comes next after the results there are.
Serial ==
    threads = 1 =>
        /\ \A k \in DOMAIN ret_vec : ret_vec[k] = k
        /\ \A s \in DOMAIN futures : futures[s] # Invalid =>
               futures[s] = Len(ret_vec) + 1 /\ task_iter = Len(ret_vec) + 2
        /\ pc = "launch" /\ futures = <<>> => task_iter = 1
        /\ pc = "refill" => task_iter = Len(ret_vec) + 1

LEMMA SerialInit == Init => Serial
BY DEF Init, Serial

LEMMA SerialStep ==
  ASSUME IInv, Serial, [Next]_vars
  PROVE  Serial'
<1> SUFFICES ASSUME threads' = 1 PROVE Serial'
    BY DEF Serial
<1>1. UNCHANGED callArgs
      BY DEF Next, Main, Launch, Launched, SkipInvalid, BeginWait, WaitTimeout, Collect, Refill,
             EndPass, Deliver, Unwind, Worker, vars
<1>2. threads = 1 /\ TypeOK
      BY <1>1 DEF callArgs, IInv
<1>3. /\ Len(futures) \in 0 .. 1 /\ DOMAIN futures = 1 .. Len(futures)
      /\ Len(ret_vec) \in Nat /\ DOMAIN ret_vec = 1 .. Len(ret_vec)
      /\ task_iter \in Nat /\ futures \in Seq(0 .. tasks) /\ ret_vec \in Seq(1 .. tasks)
      /\ tasks \in Nat
  <2>1. /\ Len(futures) \in Nat /\ (Len(futures) > 0 => Len(futures) <= 1)
        BY <1>2, Basics DEF TypeOK
  <2>2. Len(futures) \in 0 .. 1
    <3> DEFINE length == Len(futures)
    <3>1. length \in Nat /\ (length > 0 => length <= 1)
          BY <2>1
    <3> HIDE DEF length
    <3>2. length \in 0 .. 1
          BY <3>1
    <3> QED BY <3>2 DEF length
  <2>3. task_iter \in Nat /\ tasks \in Nat /\ Len(ret_vec) \in Nat
        BY <1>2, Basics
  <2>4. DOMAIN futures = 1 .. Len(futures) /\ DOMAIN ret_vec = 1 .. Len(ret_vec)
        BY <1>2, Basics
  <2>5. futures \in Seq(0 .. tasks) /\ ret_vec \in Seq(1 .. tasks)
        BY <1>2 DEF TypeOK
  <2> QED BY <2>2, <2>3, <2>4, <2>5
<1> DEFINE length == Len(futures)
<1>10. length \in 0 .. 1
      BY <1>3
<1>11. ASSUME cur \in 1 .. length PROVE cur = 1 /\ length = 1
  <2> HIDE DEF length
  <2> QED BY <1>10, <1>11
<1>4. CASE Launch
  <2>1. CASE AsyncThrows
        BY <1>2, <1>4, <2>1 DEF Launch, AsyncThrows, Serial
  <2>2. CASE StartWorker /\ futures' = Append(futures, task_iter) /\ UNCHANGED <<pc, cur>>
    <3>1. /\ Len(futures) = 0 /\ futures = <<>> /\ pc = "launch" /\ ret_vec' = ret_vec
          /\ task_iter \in 0 .. tasks
          BY <1>2, <1>3, <1>4, EmptySeq DEF Launch
    <3>2. ret_vec = <<>>
          BY <3>1 DEF IInv, LoopInv, AtLaunch
    <3>3. task_iter = 1 /\ task_iter' = 2
          BY <1>2, <2>2, <3>1 DEF Serial, StartWorker
    <3>4. /\ DOMAIN futures' = 1 .. 1 /\ futures'[1] = 1 /\ Len(futures') = 1
          BY <1>3, <2>2, <3>1, <3>3, AppendLemma
    <3>5. futures' # <<>>
          BY <3>4
    <3>6. pc' = "launch"
          BY <2>2, <3>1
    <3> QED BY <3>1, <3>2, <3>3, <3>4, <3>5, <3>6 DEF Serial
  <2> QED BY <1>4, <2>1, <2>2 DEF Launch
<1>5. CASE Collect
  <2> DEFINE n == Len(ret_vec)
  <2>1. /\ cur \in 1 .. Len(futures) /\ futures[cur] # Invalid
        /\ UNCHANGED task_iter
        /\ futures' = [futures EXCEPT ![cur] = Invalid]
        BY <1>3, <1>5 DEF Collect, IInv, LoopInv, AtWait
  <2>2. futures[cur] = n + 1 /\ task_iter = n + 2
        BY <1>2, <1>3, <2>1 DEF Serial
  <2>3. cur = 1 /\ DOMAIN futures' = 1 .. 1 /\ futures'[1] = Invalid
    <3>1. cur = 1 /\ Len(futures) = 1
          BY <1>11, <2>1
    <3> QED BY <1>3, <2>1, <3>1, ReplaceLemma DEF Invalid
  <2>4. CASE ret_vec' = Append(ret_vec, futures[cur]) /\ pc' = "refill"
    <3>1. futures[cur] \in 1 .. tasks
          BY <1>3, <2>1, Basics, <1>2 DEF Invalid
    <3>2. /\ Len(ret_vec') = n + 1 /\ DOMAIN ret_vec' = 1 .. n + 1
          /\ \A k \in 1 .. n : ret_vec'[k] = ret_vec[k]
          /\ ret_vec'[n + 1] = futures[cur]
          BY <1>3, <2>4, <3>1, AppendLemma
    <3>3. \A k \in 1 .. n + 1 : ret_vec'[k] = k
      <4>1. \A k \in 1 .. n : ret_vec'[k] = k
            BY <1>2, <1>3, <3>2 DEF Serial
      <4> QED BY <1>3, <2>2, <3>2, <4>1
    <3>4. task_iter' = Len(ret_vec') + 1
          BY <1>3, <2>1, <2>2, <3>2
    <3> QED BY <2>3, <2>4, <3>2, <3>3, <3>4 DEF Serial
  <2>5. CASE ret_vec' = ret_vec /\ pc' = "unwind"
        BY <1>2, <2>3, <2>5 DEF Serial
  <2> QED BY <1>5, <2>4, <2>5 DEF Collect
<1>6. CASE Refill
  <2>1. /\ cur \in 1 .. Len(futures) /\ pc = "refill" /\ ret_vec' = ret_vec
        BY <1>3, <1>6 DEF Refill, IInv, LoopInv, AtRefill
  <2>2. task_iter = Len(ret_vec) + 1
        BY <1>2, <2>1 DEF Serial
  <2>7. futures[cur] = Invalid
        BY <2>1 DEF IInv, LoopInv, AtRefill
  <2>3. futures[cur] = Invalid /\ cur = 1 /\ Len(futures) = 1
        BY <1>11, <2>1, <2>7
  <2>4. CASE AsyncThrows
        BY <1>2, <2>1, <2>4 DEF AsyncThrows, Serial
  <2>5. CASE task_iter <= tasks /\ StartWorker /\ futures' = [futures EXCEPT ![cur] = task_iter] /\ pc' = "scan"
    <3>1. DOMAIN futures' = 1 .. 1 /\ futures'[1] = task_iter
          BY <1>3, <2>3, <2>5, ReplaceLemma
    <3>2. task_iter' = Len(ret_vec') + 2 /\ futures'[1] = Len(ret_vec') + 1
          BY <1>3, <2>1, <2>2, <2>5, <3>1 DEF StartWorker
    <3>3. \A k \in DOMAIN ret_vec' : ret_vec'[k] = k
          BY <1>2, <2>1 DEF Serial
    <3> QED BY <2>5, <3>1, <3>2, <3>3 DEF Serial
  <2>6. CASE pc' = "scan" /\ UNCHANGED <<task_iter, futures, status>>
        BY <1>2, <2>1, <2>6 DEF Serial
  <2> QED BY <1>6, <2>4, <2>5, <2>6 DEF Refill
<1>7. CASE /\ UNCHANGED <<task_iter, futures, ret_vec>>
           /\ pc' \notin {"launch", "refill"} \/ UNCHANGED pc
      BY <1>2, <1>7 DEF Serial
<1>8. CASE Launched \/ SkipInvalid \/ BeginWait \/ WaitTimeout \/ EndPass
      BY <1>7, <1>8 DEF Launched, SkipInvalid, BeginWait, WaitTimeout, EndPass
<1>9. CASE Deliver \/ Unwind \/ (\E t \in 1 .. tasks : Worker(t)) \/ UNCHANGED vars
      BY <1>7, <1>9 DEF Deliver, Unwind, Worker, vars
<1> QED BY <1>4, <1>5, <1>6, <1>8, <1>9 DEF Next, Main

\* With one thread the results come in the order of the tasks, whatever the
\* length of the range and whichever workers throw (the polling loop of
\* for_each with one future).
THEOREM SerialInOrder == Spec => []SerialKeepsOrder
<1>1. Serial => SerialKeepsOrder
      BY DEF Serial, SerialKeepsOrder
<1>2. IInv /\ Serial /\ [Next]_vars => Serial'
      BY SerialStep
<1> QED BY <1>1, <1>2, SerialInit, Invariance, PTL DEF Spec

-----------------------------------------------------------------------------
(* The loop implements TaskPool *)

\* Starting a worker for a task is a step of the abstract pool: a thread is
\* free, because the futures in use are fewer than the threads.
LEMMA StartRefines ==
  ASSUME IInv, StartWorker, task_iter <= tasks,
         Cardinality(Running) < threads,
         Outcome = "pending", Outcome' = "pending",
         UNCHANGED <<tasks, threads, wanted, out>>
  PROVE  Pool!Next
<1>1. task_iter \in 1 .. tasks
      BY DEF IInv, TypeOK
<1>2. status[task_iter] = "idle"
      BY <1>1 DEF IInv, EveryTaskAccounted, LaunchedInOrder
<1>3. Pool!Start(task_iter)
      BY <1>2 DEF Pool!Start, Pool!Cardinality, Cardinality, Pool!IsFiniteSet, IsFiniteSet, Pool!Running, Pool!callArgs, Running, StartWorker
<1> QED BY <1>1, <1>3 DEF Pool!Next

LEMMA LaunchRefines == IInv /\ Launch => [Pool!Next]_(Pool!vars)
<1> SUFFICES ASSUME IInv, Launch PROVE [Pool!Next]_(Pool!vars)
    OBVIOUS
<1>1. /\ pc = "launch" /\ Len(futures) < threads /\ task_iter <= tasks
      /\ UNCHANGED <<tasks, threads, wanted, out>>
      BY DEF Launch, callArgs
<1>2. CASE StartWorker /\ pc' = pc
  <2>1. Cardinality(Running) <= Cardinality(1 .. Len(futures)) /\ Cardinality(Running) \in Nat
        BY RunningBound DEF IInv, EveryTaskAccounted
  <2>2. Len(futures) \in Nat /\ threads \in Int
        BY Basics DEF IInv
  <2>3. Cardinality(1 .. Len(futures)) = IF 1 > Len(futures) THEN 0 ELSE Len(futures) - 1 + 1
        BY <2>2, FS_Interval
  <2>4. Cardinality(Running) < threads
        BY <1>1, <2>1, <2>2, <2>3
  <2> QED BY <1>1, <1>2, <2>4, StartRefines DEF Outcome, Ended
<1>3. CASE AsyncThrows
      BY <1>1, <1>3 DEF AsyncThrows, Pool!vars, Outcome, Ended
<1> QED BY <1>2, <1>3 DEF Launch

LEMMA RefillRefines == IInv /\ Refill => [Pool!Next]_(Pool!vars)
<1> SUFFICES ASSUME IInv, Refill PROVE [Pool!Next]_(Pool!vars)
    OBVIOUS
<1>1. /\ pc = "refill" /\ UNCHANGED <<tasks, threads, wanted, out>>
      BY DEF Refill, callArgs
<1>2. CASE StartWorker /\ task_iter <= tasks /\ pc' = "scan"
  <2>1. /\ Len(futures) \in Nat /\ threads \in Int
        /\ cur \in 1 .. Len(futures) /\ futures[cur] = Invalid
        /\ Len(futures) <= threads
        BY <1>1, Basics DEF IInv, TypeOK, LoopInv, AtRefill
  <2> DEFINE S == (1 .. Len(futures)) \ {cur}
  <2>2. Cardinality(Running) <= Cardinality(S) /\ Cardinality(Running) \in Nat
    <3>1. \A s \in (1 .. Len(futures)) \ S : futures[s] = Invalid
          BY <2>1
    <3> QED BY <3>1, RunningBound DEF IInv, EveryTaskAccounted
  <2>3. IsFiniteSet(1 .. Len(futures)) /\ Cardinality(1 .. Len(futures)) = Len(futures)
    <3>1. /\ IsFiniteSet(1 .. Len(futures))
          /\ Cardinality(1 .. Len(futures)) = IF 1 > Len(futures) THEN 0 ELSE Len(futures) - 1 + 1
          BY <2>1, FS_Interval
    <3> QED BY <2>1, <3>1
  <2>4. Cardinality(S) = Len(futures) - 1
        BY <2>1, <2>3, FS_RemoveElement, ZenonT(60)
  <2>5. Cardinality(Running) < threads
        BY <2>1, <2>2, <2>4
  <2> QED BY <1>1, <1>2, <2>5, StartRefines DEF Outcome, Ended
<1>3. CASE AsyncThrows
      BY <1>1, <1>3 DEF AsyncThrows, Pool!vars, Outcome, Ended
<1>4. CASE pc' = "scan" /\ status' = status
      BY <1>1, <1>4 DEF Pool!vars, Outcome, Ended
<1> QED BY <1>2, <1>3, <1>4 DEF Refill

\* When the call returns, what ret_vec holds is every result exactly once.
LEMMA DeliverRefines == IInv /\ Deliver => [Pool!Next]_(Pool!vars)
<1> SUFFICES ASSUME IInv, Deliver PROVE Pool!Return
    BY DEF Pool!Next
<1>1. /\ pc = "returning" /\ pc' = "returned"
      /\ out' = IF wanted THEN ret_vec ELSE out
      /\ UNCHANGED <<tasks, threads, wanted, status>>
      BY DEF Deliver, callArgs
<1>2. /\ tasks \in Nat /\ threads \in Int /\ Len(futures) \in Nat
      /\ Len(ret_vec) \in Nat
      /\ DOMAIN futures = 1 .. Len(futures)
      /\ DOMAIN ret_vec = 1 .. Len(ret_vec)
      /\ ret_vec \in [1 .. Len(ret_vec) -> 1 .. tasks]
      BY Basics, LenProperties DEF IInv, TypeOK
<1>3. \A t \in 1 .. tasks : ~ InFuture(t)
      BY <1>1, <1>2 DEF IInv, LoopInv, AtReturn, InFuture, Invalid
<1>4. \A t \in 1 .. tasks : status[t] = "idle" \/ (status[t] = "done" /\ Collected(t))
      BY <1>1, <1>3 DEF IInv, EveryTaskAccounted, NoTaskLost
<1>5. CASE threads > 0
  <2>1. \A t \in 1 .. tasks : status[t] = "done" /\ Collected(t)
        BY <1>1, <1>2, <1>4, <1>5 DEF IInv, LoopInv, AtReturn, EveryTaskAccounted, LaunchedInOrder
  <2>2. ret_vec \in Bijection(1 .. Len(ret_vec), 1 .. tasks)
        BY <1>2, <2>1 DEF Bijection, Injection, Surjection, Collected, IInv,
           EveryTaskAccounted, ResultsOnce
  <2>3. Len(ret_vec) = tasks
    <3>1. ExistsBijection(1 .. Len(ret_vec), 1 .. tasks)
          BY <2>2 DEF ExistsBijection
    <3>2. ExistsBijection(1 .. tasks, 1 .. tasks)
          BY Fun_ExistsBijReflexive
    <3> QED BY <1>2, <3>1, <3>2, Fun_NatBijSame
  <2>4. Pool!Enumerates(ret_vec, tasks)
        BY <2>2, <2>3 DEF Pool!Enumerates, Bijection, Injection, Surjection, IsInjective,
           Pool!Bijection, Pool!Injection, Pool!Surjection, Pool!IsInjective
  <2> QED BY <1>1, <1>5, <2>1, <2>4 DEF Pool!Return, Pool!callArgs, Outcome, Ended
<1>6. CASE ~ threads > 0
  <2>1. Len(futures) = 0
        BY <1>2, <1>6 DEF IInv, TypeOK
  <2>2. task_iter = 1
        BY <1>2, <1>6 DEF IInv, LoopInv, NothingLaunched
  <2>3. \A t \in 1 .. tasks : status[t] = "idle"
        BY <1>2, <2>2 DEF IInv, EveryTaskAccounted, LaunchedInOrder
  <2>4. Len(ret_vec) = 0
        BY <1>2, <2>3 DEF IInv, LoopInv, CollectedDone
  <2>5. ret_vec = <<>>
        BY <2>4, EmptySeq DEF IInv, TypeOK
  <2> QED BY <1>1, <1>6, <2>3, <2>5 DEF Pool!Return, Pool!callArgs, Outcome, Ended
<1> QED BY <1>5, <1>6

LEMMA UnwindRefines == IInv /\ Unwind => [Pool!Next]_(Pool!vars)
<1> SUFFICES ASSUME IInv, Unwind PROVE Pool!Throw
    BY DEF Pool!Next
<1>1. IInv'
      BY UnwindInv
<1>2. /\ pc = "unwind" /\ pc' = "threw"
      /\ UNCHANGED <<tasks, threads, wanted, status, out>>
      BY DEF Unwind, callArgs
<1>3. Running = {}
      BY <1>1, <1>2 DEF IInv, LoopInv, AtThrow, Running
<1> QED BY <1>2, <1>3 DEF IInv, LoopInv, AtUnwind, Pool!Throw, Pool!Running, Pool!callArgs,
           Running, Outcome, Ended

LEMMA WorkerRefines == IInv /\ (\E t \in 1 .. tasks : Worker(t)) => [Pool!Next]_(Pool!vars)
<1> SUFFICES ASSUME IInv, NEW t \in 1 .. tasks, Worker(t) PROVE Pool!End(t)
    BY DEF Pool!Next
<1> QED BY DEF Worker, callArgs, Pool!End, Pool!callArgs, Outcome, Ended

LEMMA MoveRefines ==
  Launched \/ SkipInvalid \/ BeginWait \/ WaitTimeout \/ Collect \/ EndPass
    => UNCHANGED Pool!vars
BY DEF Launched, SkipInvalid, BeginWait, WaitTimeout, Collect, EndPass, callArgs, Pool!vars,
       Outcome, Ended

\* Whatever the range, the thread count and the workers that throw, a call
\* of for_each is a call of the abstract pool.
THEOREM Refinement == Spec => ImplementsTaskPool
<1>1. Init => Pool!Init
      BY DEF Init, Pool!Init, OldOut, Pool!OldOut, Outcome, Ended
<1>2. IInv /\ [Next]_vars => [Pool!Next]_(Pool!vars)
  <2> SUFFICES ASSUME IInv, [Next]_vars PROVE [Pool!Next]_(Pool!vars)
      OBVIOUS
  <2>1. CASE UNCHANGED vars
        BY <2>1 DEF vars, callArgs, Pool!vars, Outcome, Ended
  <2> QED BY <2>1, LaunchRefines, RefillRefines, DeliverRefines, UnwindRefines, WorkerRefines,
             MoveRefines DEF Next, Main
<1> QED BY <1>1, <1>2, Invariance, PTL DEF Spec, Pool!Spec, ImplementsTaskPool

=============================================================================
