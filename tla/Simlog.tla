------------------------------- MODULE Simlog -------------------------------
(***************************************************************************)
(* simlog (simlog.h, simlog.cpp): threads write lines to one logger, which *)
(* collects them in buff_ and passes them to a stream. write(), flush()    *)
(* and operator<< hold the mutex for all they do after the test of the     *)
(* level, so each is one step. reset() holds it for its flush() only.      *)
(*                                                                         *)
(* A line is a number and one unit of buff_; one above the verbosity       *)
(* changes nothing and is left out, as is what a line looks like. The      *)
(* unlocked steps of reset() are taken between the steps of other threads, *)
(* never within one, where they would race for the same objects.           *)
(***************************************************************************)
EXTENDS Integers, Sequences, FiniteSets, SequencesExt

CONSTANTS Threads,
          Streams,      \* what config.stream_type may stand for
          Sizes,        \* what config.buff.size may be, in lines
          MaxLines, MaxResets   \* bounds on the lines and the calls of configure()

ASSUME SimlogAssumption ==
    /\ Threads # {} /\ Streams # {}
    /\ Sizes # {} /\ Sizes \subseteq Nat
    /\ MaxLines \in Nat /\ MaxResets \in Nat

VARIABLES enable, size, stream_type,    \* of config
          ostream,      \* the stream in use
          buff,         \* buff_: lines
          pending,      \* what ostream was given since it was last flushed
          out,          \* what the streams have passed on, with the stream
          pc,           \* of each thread: its step of configure() and reset()
          resets, alive,
          quiet,        \* does nobody write from configure() to the end of reset()?
          accepted,     \* history: the lines taken, with the stream in use
          safe          \* history: how many there were at the last flush()

vars == <<enable, size, stream_type, ostream, buff, pending, out, pc, resets, alive, quiet, accepted, safe>>

config == <<enable, size, stream_type, quiet>>

On(lines) == [i \in DOMAIN lines |-> [line |-> lines[i], stream |-> ostream]]

Init == /\ enable = TRUE /\ size \in Sizes /\ stream_type \in Streams
        /\ ostream = stream_type
        /\ buff = <<>> /\ pending = <<>> /\ out = <<>>
        /\ pc = [t \in Threads |-> "free"]
        /\ resets = 0 /\ alive = TRUE /\ quiet \in BOOLEAN
        /\ accepted = <<>> /\ safe = 0

\* May t write? If quiet, only while nobody is about to reset the logger.
Free(t) == /\ alive /\ pc[t] = "free"
           /\ quiet => \A u \in Threads : pc[u] = "free"

NewLine == Len(accepted) + 1
Accept == /\ NewLine <= MaxLines
          /\ accepted' = Append(accepted, [line |-> NewLine, stream |-> ostream])

\* Mutant: what the stream was given before stays where it is.
PassOnBuffOnly(lines) ==
    /\ out' = out \o On(lines)
    /\ buff' = <<>>
    /\ UNCHANGED pending
    /\ safe' = Len(accepted')

\* flush(), with lines in buff_: all goes to the stream, which passes it on.
PassOn(lines) ==
    /\ out' = out \o On(pending \o lines)
    /\ buff' = <<>> /\ pending' = <<>>
    /\ safe' = Len(accepted')

-----------------------------------------------------------------------------
(* Threads *)

\* Mutant: the buffer is passed on, and keeps its lines.
FlushKeeping(t) ==
    /\ Free(t)
    /\ out' = out \o On(pending \o buff)
    /\ pending' = <<>>
    /\ safe' = Len(accepted)
    /\ UNCHANGED <<config, ostream, buff, pc, resets, alive, accepted>>

Flush(t) ==
    /\ Free(t)
    /\ accepted' = accepted
    /\ PassOn(buff)
    /\ UNCHANGED <<config, ostream, pc, resets, alive>>

\* Mutant: the size of the buffer is not looked at.
WriteBuffAnySize(t) ==
    /\ Free(t) /\ enable
    /\ Accept
    /\ buff' = Append(buff, NewLine)
    /\ UNCHANGED <<config, ostream, pending, out, pc, resets, alive, safe>>

\* write() into the buffer, which is flushed when it is over its size.
WriteBuff(t) ==
    /\ Free(t) /\ enable
    /\ Accept
    /\ LET lines == Append(buff, NewLine) IN
       IF Len(lines) > size
       THEN PassOn(lines)
       ELSE buff' = lines /\ UNCHANGED <<pending, out, safe>>
    /\ UNCHANGED <<config, ostream, pc, resets, alive>>

\* write() without a buffer: to the stream and on. Lines that are in buff_
\* from before stay there.
WriteDirect(t) ==
    /\ Free(t) /\ ~enable
    /\ Accept
    /\ out' = out \o On(Append(pending, NewLine))
    /\ pending' = <<>>
    /\ safe' = IF buff = <<>> THEN Len(accepted') ELSE safe
    /\ UNCHANGED <<config, ostream, buff, pc, resets, alive>>

\* Mutant: the buffer is not emptied first.
PutAhead(t) ==
    /\ Free(t)
    /\ Accept
    /\ pending' = Append(pending, NewLine)
    /\ UNCHANGED <<config, ostream, buff, out, pc, resets, alive, safe>>

\* operator<<: what is in the buffer goes to the stream first, and neither is
\* passed on.
Put(t) ==
    /\ Free(t)
    /\ Accept
    /\ pending' = Append(pending \o buff, NewLine)
    /\ buff' = <<>>
    /\ UNCHANGED <<config, ostream, out, pc, resets, alive, safe>>

\* configure(): the options apply at once, except for the stream, to the lines
\* that are in buff_ from before too.
Configure(t) ==
    /\ Free(t)
    /\ resets < MaxResets
    /\ resets' = resets + 1
    /\ enable' \in BOOLEAN /\ size' \in Sizes
    /\ stream_type' \in Streams
    /\ pc' = [pc EXCEPT ![t] = "reset_flush"]
    /\ UNCHANGED <<ostream, buff, pending, out, alive, quiet, accepted, safe>>

-----------------------------------------------------------------------------
(* reset(), after configure() *)

At(t, here, next) == alive /\ pc[t] = here /\ pc' = [pc EXCEPT ![t] = next]

ResetFlush(t) ==
    /\ At(t, "reset_flush", "reset_ostream")
    /\ accepted' = accepted
    /\ PassOn(buff)
    /\ UNCHANGED <<config, ostream, resets, alive>>

\* reset_ostream_(): the stream of before is destroyed, and passes on what
\* was given to it, as a file does.
ResetOstream(t) ==
    /\ At(t, "reset_ostream", "reset_buff")
    /\ out' = out \o On(pending)
    /\ pending' = <<>>
    /\ ostream' = stream_type
    /\ UNCHANGED <<config, buff, resets, alive, accepted, safe>>

\* reset_buff_(): buff_ is cleared, if it is enabled.
ResetBuff(t) ==
    /\ At(t, "reset_buff", "free")
    /\ buff' = IF enable THEN <<>> ELSE buff
    /\ UNCHANGED <<config, ostream, pending, out, resets, alive, accepted, safe>>

\* The program dies: what was not passed on is gone.
Crash ==
    /\ alive
    /\ alive' = FALSE
    /\ buff' = <<>> /\ pending' = <<>>
    /\ UNCHANGED <<config, ostream, out, pc, resets, accepted, safe>>

\* The program ends and nobody is writing: ~simlog() flushes.
Exit ==
    /\ \A t \in Threads : Free(t)
    /\ alive' = FALSE
    /\ accepted' = accepted
    /\ PassOn(buff)
    /\ UNCHANGED <<config, ostream, pc, resets>>

Next == \/ \E t \in Threads :
              \/ Flush(t) \/ WriteBuff(t) \/ WriteDirect(t) \/ Put(t)
              \/ Configure(t) \/ ResetFlush(t) \/ ResetOstream(t) \/ ResetBuff(t)
        \/ Crash \/ Exit

Spec == Init /\ [][Next]_vars
-----------------------------------------------------------------------------
(* Properties *)

Held == out \o On(pending) \o On(buff)

\* While the program runs and nobody writes during a reset: what the streams
\* passed on, what they still hold and what is in the buffer are, in this
\* order, all the lines taken, each once and on the stream in use when it was
\* taken, whatever way it took.
StreamsThenBuffer == alive /\ quiet => Held = accepted

\* Then a crash loses nothing taken before the last flush(), and of the rest only
\* the end: what the streams passed on is a prefix of what was taken.
CrashLosesTail == quiet => IsPrefix(out, accepted) /\ Len(out) >= safe

\* The buffer holds more than its size only from a configure() that made it
\* smaller to the flush() of the reset() that follows, whatever other threads
\* write or configure meanwhile; and never more than some size it was given.
BuffBounded ==
    /\ Len(buff) <= size \/ \E t \in Threads : pc[t] = "reset_flush"
    /\ \E n \in Sizes : Len(buff) <= n

\* Whoever resets the logger while others write: no line is passed on twice
\* and none that was not taken.
LinesOnce ==
    LET lines == {Held[i].line : i \in DOMAIN Held}
    IN lines \subseteq 1 .. Len(accepted) /\ Cardinality(lines) = Len(Held)

\* With "thread_safe = 1", as the configuration has it, a line taken while
\* another thread resets the logger is not lost.
NothingLost == alive => 1 .. Len(accepted) = {Held[i].line : i \in DOMAIN Held}
=============================================================================
