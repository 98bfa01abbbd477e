------------------------------ MODULE TaskPool ------------------------------
(***************************************************************************)
(* What a call of for_each / distribute (distributor.h) promises its       *)
(* caller, whatever the loop inside does: every task is handed to a worker *)
(* thread at most once, no more than "threads" workers run at a time, and  *)
(* the call ends either normally, every task done and every result         *)
(* delivered exactly once, or with an exception, the caller's vector       *)
(* untouched; in both cases no worker outlives the call.                   *)
(***************************************************************************)
EXTENDS Integers, FiniteSets, Functions

CONSTANTS TaskCounts,       \* the lengths of the task range a caller may pass
          ThreadCounts,     \* the values of the argument "threads"
          MayThrow,         \* the tasks whose worker may throw
          AsyncMayThrow     \* may std::async fail to create a thread?

VARIABLES tasks,     \* the number of tasks of this call
          threads,   \* its argument "threads"
          wanted,    \* did the caller pass a vector for the results?
          status,    \* the state of the worker of each task
          out,       \* what the caller's vector holds
          outcome    \* how the call ended

callArgs == <<tasks, threads, wanted>>

\* What the vector holds before the call: one entry that is no result of it.
OldOut == <<0>>

Running == {t \in 1 .. tasks : status[t] = "running"}

\* The results in some order, each exactly once.
Enumerates(r, n) == r \in Bijection(1 .. n, 1 .. n)

Init == /\ tasks \in TaskCounts
        /\ threads \in ThreadCounts
        /\ wanted \in BOOLEAN
        /\ status = [t \in 1 .. tasks |-> "idle"]
        /\ out = OldOut
        /\ outcome = "pending"

\* A worker thread is created for a task while one of the threads is free.
Start(t) == /\ outcome = "pending"
            /\ status[t] = "idle"
            /\ Cardinality(Running) < threads
            /\ status' = [status EXCEPT ![t] = "running"]
            /\ UNCHANGED <<callArgs, out, outcome>>

\* A worker ends, with its result or by an exception.
End(t) == /\ status[t] = "running"
          /\ \/ status' = [status EXCEPT ![t] = "done"]
             \/ /\ t \in MayThrow
                /\ status' = [status EXCEPT ![t] = "failed"]
          /\ UNCHANGED <<callArgs, out, outcome>>

\* The call returns. With no threads nothing was done and nothing is reported.
Return == /\ outcome = "pending"
          /\ \A t \in 1 .. tasks : status[t] = IF threads > 0 THEN "done" ELSE "idle"
          /\ outcome' = "returned"
          /\ IF wanted THEN IF threads > 0 THEN Enumerates(out', tasks) ELSE out' = <<>>
                       ELSE out' = out
          /\ UNCHANGED <<callArgs, status>>

\* The call throws: a worker threw, or no thread could be created.
Throw == /\ outcome = "pending"
         /\ AsyncMayThrow \/ \E t \in 1 .. tasks : status[t] = "failed"
         /\ Running = {}
         /\ outcome' = "threw"
         /\ UNCHANGED <<callArgs, status, out>>

Next == \/ \E t \in 1 .. tasks : Start(t) \/ End(t)
        \/ Return
        \/ Throw

vars == <<tasks, threads, wanted, status, out, outcome>>

Spec == Init /\ [][Next]_vars
=============================================================================
