---------------------------- MODULE Distributor ----------------------------
(***************************************************************************)
(* One call of zks::for_each, as distribute makes it (distributor.h): the  *)
(* calling thread starts one std::async worker per task, at most "threads" *)
(* at a time, and polls the futures round and round until none is valid.   *)
(*                                                                         *)
(* A task stands for its position in the range and for the result of its   *)
(* worker. The void overloads are the calls with wanted = FALSE: the loop  *)
(* is the same, and the results they do not have are never looked at.      *)
(***************************************************************************)
EXTENDS Integers, Sequences, FiniteSets, Functions

CONSTANTS TaskCounts,       \* the lengths of the task range a caller may pass
          ThreadCounts,     \* the values of the argument "threads"
          MayThrow,         \* the tasks whose worker may throw
          MayHang,          \* the tasks whose worker may never come to an end
          AsyncMayThrow     \* may std::async fail to create a thread?

ASSUME DistributorAssumption ==
    /\ TaskCounts \subseteq Nat
    /\ ThreadCounts \subseteq Int
    /\ AsyncMayThrow \in BOOLEAN

VARIABLES tasks, threads, wanted,   \* the arguments of the call
          pc,           \* where the calling thread is
          task_iter,    \* the next task of the range
          futures,      \* the task behind each future, or Invalid
          cur,          \* the future the polling pass is at
          finish_all,   \* has this pass met no valid future yet?
          ret_vec,      \* the results collected so far
          status,       \* the state of the worker of each task
          out           \* what the caller's vector holds

callArgs == <<tasks, threads, wanted>>
vars == <<callArgs, pc, task_iter, futures, cur, finish_all, ret_vec, status, out>>

Invalid == 0            \* a future whose result was taken: valid() is false
OldOut == <<0>>         \* what the caller's vector held before the call
TaskIds == UNION {1 .. n : n \in TaskCounts}

Init == /\ tasks \in TaskCounts
        /\ threads \in ThreadCounts
        /\ wanted \in BOOLEAN
        /\ pc = "launch"
        /\ task_iter = 1
        /\ futures = <<>>
        /\ cur = 1
        /\ finish_all = TRUE
        /\ ret_vec = <<>>
        /\ status = [t \in 1 .. tasks |-> "idle"]
        /\ out = OldOut

-----------------------------------------------------------------------------
(* The calling thread *)

\* std::async(std::launch::async, worker, *task_iter), then ++task_iter.
StartWorker == /\ status' = [status EXCEPT ![task_iter] = "running"]
               /\ task_iter' = task_iter + 1

\* std::async throws system_error: the stack of for_each is unwound.
AsyncThrows == /\ AsyncMayThrow
               /\ pc' = "unwind"
               /\ UNCHANGED <<task_iter, futures, cur, status>>

\* Mutant: the thread count is not looked at.
LaunchUnbounded ==
    /\ pc = "launch"
    /\ task_iter <= tasks
    /\ \/ /\ StartWorker
          /\ futures' = Append(futures, task_iter)
          /\ UNCHANGED <<pc, cur>>
       \/ AsyncThrows
    /\ UNCHANGED <<callArgs, finish_all, ret_vec, out>>

\* An iteration of the first loop: Len(futures) is its counter i.
Launch ==
    /\ pc = "launch"
    /\ Len(futures) < threads /\ task_iter <= tasks
    /\ \/ /\ StartWorker
          /\ futures' = Append(futures, task_iter)
          /\ UNCHANGED <<pc, cur>>
       \/ AsyncThrows
    /\ UNCHANGED <<callArgs, finish_all, ret_vec, out>>

\* Mutant: one worker short of the thread count.
LaunchOneShort ==
    /\ pc = "launch"
    /\ Len(futures) + 1 >= threads \/ task_iter > tasks
    /\ pc' = "scan"
    /\ UNCHANGED <<callArgs, task_iter, futures, cur, finish_all, ret_vec, status, out>>

\* The first loop ends, the polling loop begins its first pass.
Launched ==
    /\ pc = "launch"
    /\ Len(futures) >= threads \/ task_iter > tasks
    /\ pc' = "scan"
    /\ UNCHANGED <<callArgs, task_iter, futures, cur, finish_all, ret_vec, status, out>>

\* "if (!future.valid()) continue"
SkipInvalid ==
    /\ pc = "scan"
    /\ cur <= Len(futures) /\ futures[cur] = Invalid
    /\ cur' = cur + 1
    /\ UNCHANGED <<callArgs, pc, task_iter, futures, finish_all, ret_vec, status, out>>

\* A valid future: the pass is not the last one; wait_for is entered.
BeginWait ==
    /\ pc = "scan"
    /\ cur <= Len(futures) /\ futures[cur] # Invalid
    /\ finish_all' = FALSE
    /\ pc' = "wait"
    /\ UNCHANGED <<callArgs, task_iter, futures, cur, ret_vec, status, out>>

\* Mutant: wait() in the place of wait_for().
WaitForever ==
    /\ pc = "wait" /\ FALSE
    /\ UNCHANGED vars

\* wait_for returns future_status::timeout. The worker may end right after.
WaitTimeout ==
    /\ pc = "wait"
    /\ status[futures[cur]] = "running"
    /\ pc' = "scan"
    /\ cur' = cur + 1
    /\ UNCHANGED <<callArgs, task_iter, futures, finish_all, ret_vec, status, out>>

\* Mutant: the future is still valid after its result was taken.
CollectWithoutReset ==
    /\ pc = "wait"
    /\ status[futures[cur]] = "done"
    /\ futures' = futures
    /\ ret_vec' = Append(ret_vec, futures[cur])
    /\ pc' = "refill"
    /\ UNCHANGED <<callArgs, task_iter, cur, finish_all, status, out>>

\* Mutant: the newest result first.
CollectAtFront ==
    /\ pc = "wait"
    /\ status[futures[cur]] = "done"
    /\ futures' = [futures EXCEPT ![cur] = Invalid]
    /\ ret_vec' = <<futures[cur]>> \o ret_vec
    /\ pc' = "refill"
    /\ UNCHANGED <<callArgs, task_iter, cur, finish_all, status, out>>

\* wait_for returns future_status::ready and get() takes what the worker
\* left: the result is pushed, or the exception thrown again. Either way the
\* future is no longer valid.
Collect ==
    /\ pc = "wait"
    /\ futures' = [futures EXCEPT ![cur] = Invalid]
    /\ \/ /\ status[futures[cur]] = "done"
          /\ ret_vec' = Append(ret_vec, futures[cur])
          /\ pc' = "refill"
       \/ /\ status[futures[cur]] = "failed"
          /\ pc' = "unwind"
          /\ UNCHANGED ret_vec
    /\ UNCHANGED <<callArgs, task_iter, cur, finish_all, status, out>>

\* Mutant: push_back where the code assigns to the future.
RefillAppends ==
    /\ pc = "refill"
    /\ task_iter <= tasks
    /\ StartWorker
    /\ futures' = Append(futures, task_iter)
    /\ pc' = "scan"
    /\ cur' = cur + 1
    /\ UNCHANGED <<callArgs, finish_all, ret_vec, out>>

\* "if (task_iter != end)": the future is given the next task, or stays invalid.
Refill ==
    /\ pc = "refill"
    /\ \/ /\ task_iter <= tasks
          /\ \/ /\ StartWorker
                /\ futures' = [futures EXCEPT ![cur] = task_iter]
                /\ pc' = "scan"
                /\ cur' = cur + 1
             \/ AsyncThrows
       \/ /\ task_iter > tasks
          /\ pc' = "scan"
          /\ cur' = cur + 1
          /\ UNCHANGED <<task_iter, futures, status>>
    /\ UNCHANGED <<callArgs, finish_all, ret_vec, out>>

\* Mutant: finish_all is set once, before the polling loop.
EndPassKeepsFlag ==
    /\ pc = "scan"
    /\ cur > Len(futures)
    /\ IF finish_all THEN pc' = "returning" /\ UNCHANGED cur
                     ELSE cur' = 1 /\ UNCHANGED pc
    /\ UNCHANGED <<callArgs, task_iter, futures, finish_all, ret_vec, status, out>>

\* The pass reached the end of "futures": leave the loop, or start over.
EndPass ==
    /\ pc = "scan"
    /\ cur > Len(futures)
    /\ IF finish_all
       THEN /\ pc' = "returning"
            /\ UNCHANGED <<cur, finish_all>>
       ELSE /\ cur' = 1
            /\ finish_all' = TRUE
            /\ UNCHANGED pc
    /\ UNCHANGED <<callArgs, task_iter, futures, ret_vec, status, out>>

\* Mutant: the results are added to what the vector held.
DeliverAppending ==
    /\ pc = "returning"
    /\ out' = IF wanted THEN out \o ret_vec ELSE out
    /\ pc' = "returned"
    /\ UNCHANGED <<callArgs, task_iter, futures, cur, finish_all, ret_vec, status>>

\* for_each returns; distribute moves the vector to *ret_vec if it has one.
Deliver ==
    /\ pc = "returning"
    /\ out' = IF wanted THEN ret_vec ELSE out
    /\ pc' = "returned"
    /\ UNCHANGED <<callArgs, task_iter, futures, cur, finish_all, ret_vec, status>>

\* Mutant: the destructors do not wait, as for a std::thread's future.
UnwindAtOnce ==
    /\ pc = "unwind"
    /\ pc' = "threw"
    /\ UNCHANGED <<callArgs, task_iter, futures, cur, finish_all, ret_vec, status, out>>

\* An exception leaves for_each: the destructor of each future std::async
\* made waits for its worker, and the results collected so far are lost.
Unwind ==
    /\ pc = "unwind"
    /\ \A s \in DOMAIN futures : futures[s] # Invalid => status[futures[s]] # "running"
    /\ pc' = "threw"
    /\ UNCHANGED <<callArgs, task_iter, futures, cur, finish_all, ret_vec, status, out>>

Main == \/ Launch \/ Launched \/ SkipInvalid \/ BeginWait \/ WaitTimeout
        \/ Collect \/ Refill \/ EndPass \/ Deliver \/ Unwind

-----------------------------------------------------------------------------
(* The workers *)

\* worker(*task_iter) returns or throws; the shared state becomes ready.
Worker(t) ==
    /\ status[t] = "running"
    /\ \/ status' = [status EXCEPT ![t] = "done"]
       \/ /\ t \in MayThrow
          /\ status' = [status EXCEPT ![t] = "failed"]
    /\ UNCHANGED <<callArgs, pc, task_iter, futures, cur, finish_all, ret_vec, out>>

Ended == pc \in {"returned", "threw"}

Next == Main \/ \E t \in 1 .. tasks : Worker(t)

Spec == Init /\ [][Next]_vars

WorkerOf(t) == t \in 1 .. tasks /\ Worker(t)

\* The calling thread is scheduled and wait_for times out: weak fairness of
\* Main. Every worker function but those in MayHang comes to an end: weak
\* fairness of the workers.
FairSpec == /\ Spec
            /\ WF_vars(Main)
            /\ \A t \in TaskIds \ MayHang : WF_vars(WorkerOf(t))

-----------------------------------------------------------------------------
(* Properties *)

InFuture(t) == \E s \in DOMAIN futures : futures[s] = t
Collected(t) == \E k \in DOMAIN ret_vec : ret_vec[k] = t
Running == {t \in 1 .. tasks : status[t] = "running"}

\* The types, with the bounds the two loops keep: no more futures than
\* threads, no step past the end of the range or of the futures.
TypeOK ==
    /\ tasks \in TaskCounts /\ threads \in ThreadCounts /\ wanted \in BOOLEAN
    /\ pc \in {"launch", "scan", "wait", "refill", "returning", "returned",
              "unwind", "threw"}
    /\ task_iter \in 1 .. tasks + 1
    /\ futures \in Seq(0 .. tasks)
    /\ Len(futures) > 0 => Len(futures) <= threads
    /\ cur \in 1 .. Len(futures) + 1
    /\ finish_all \in BOOLEAN
    /\ ret_vec \in Seq(1 .. tasks)
    /\ status \in [1 .. tasks -> {"idle", "running", "done", "failed"}]
    /\ out \in Seq(0 .. tasks)

\* At no time do more than "threads" workers run: launching, polling and
\* refilling between them never lose count of a worker still running.
AtMostThreads == Cardinality(Running) <= IF threads > 0 THEN threads ELSE 0

LaunchedInOrder == \A t \in 1 .. tasks : status[t] = "idle" <=> t >= task_iter

NoTaskLost ==
    \A t \in 1 .. tasks : status[t] # "idle" =>
        \/ InFuture(t)
        \/ status[t] = "done" /\ Collected(t)
        \/ status[t] = "failed" /\ pc \in {"unwind", "threw"}

OneFutureEach ==
    \A s1, s2 \in DOMAIN futures :
        futures[s1] = futures[s2] /\ futures[s1] # Invalid => s1 = s2

ResultsOnce ==
    /\ IsInjective(ret_vec)
    /\ \A k \in DOMAIN ret_vec : ~ InFuture(ret_vec[k])

\* The tasks are handed out in order, and a task handed to a worker is behind
\* exactly one future, or its result is in ret_vec exactly once, or its
\* exception was taken and the call unwinds: no reuse of a future loses or
\* repeats a task.
EveryTaskAccounted == LaunchedInOrder /\ NoTaskLost /\ OneFutureEach /\ ResultsOnce

\* While a task waits, no thread is left idle by the polling loop: each of
\* the "threads" futures has a task outside the refill of one of them.
EveryFutureBusy ==
    pc \in {"scan", "wait"} /\ task_iter <= tasks /\ threads > 0 =>
        /\ Len(futures) = threads
        /\ \A s \in DOMAIN futures : futures[s] # Invalid

\* Whichever way the call ends, no worker uses its data (the tasks, the
\* worker object) any more.
NoWorkerOutlives == Ended => Running = {}

\* With one thread the results come in the order of the tasks; with more
\* they come in the order the polling meets them.
SerialKeepsOrder ==
    threads = 1 => \A k \in DOMAIN ret_vec : ret_vec[k] = k

\* The call ends, if every worker does.
CallEnds == (\A t \in MayHang : []<>(t \notin Running)) => <>Ended

\* The wait on one future is bounded, so a worker that never ends takes one
\* thread and no more: with a thread to spare, every other task is run and
\* its result collected, unless an exception ends the call (the wait_for of
\* the polling loop, and the refill).
StuckTakesOneThread ==
    \A t \in TaskIds \ MayHang :
        t <= tasks /\ threads > Cardinality(MayHang)
            => <>(Collected(t) \/ pc \in {"unwind", "threw"})

\* The loop keeps the promise of TaskPool.
Outcome == IF Ended THEN pc ELSE "pending"
Pool == INSTANCE TaskPool WITH outcome <- Outcome
ImplementsTaskPool == Pool!Spec
=============================================================================
