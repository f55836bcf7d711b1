----------------------------- MODULE CmdRunner -----------------------------
(***************************************************************************)
(* run_command of src/redcon/cmd/runner.py: one subprocess, a reader       *)
(* thread per pipe, the queue they share, and the main loop that enforces  *)
(* the deadline and the byte cap.                                          *)
(*                                                                         *)
(* A command is what it would write if nobody stopped it, and its habits:  *)
(* does it end by itself, does it ignore SIGTERM, does SIGKILL fail on it, *)
(* does it close its pipes and run on, has it a child of its own that      *)
(* inherits them.  A chunk is a sequence of bytes, the end mark of a       *)
(* reader (name, None) the empty one.                                      *)
(***************************************************************************)
EXTENDS Integers, Sequences, FiniteSetsExt

CONSTANTS
    Cap,        \* max(1, max_output_bytes)
    Chunk,      \* _READ_CHUNK_BYTES: what one read1 returns at most
    PipeSize,   \* what the system buffers in a pipe before the writer blocks
    Bytes,      \* what a command writes is made of
    Commands    \* the commands a caller may run

Streams == {"stdout", "stderr"}

Idle ==
    [output |-> [s \in Streams |-> <<>>], starts |-> TRUE, ends |-> TRUE,
     stubborn |-> FALSE, unkillable |-> FALSE, detaches |-> FALSE,
     forks |-> FALSE]

IsCommand(c) ==
    /\ DOMAIN c = DOMAIN Idle
    /\ c.output \in [Streams -> Seq(Bytes)]

ASSUME RunnerConstants ==
    /\ Cap \in Nat \ {0}
    /\ Chunk \in Nat \ {0}
    /\ PipeSize \in Nat \ {0}
    /\ \A c \in Commands : IsCommand(c)

VARIABLES
    cmd,        \* the command of the call
    child,      \* the subprocess: none, alive or exited
    signal,     \* what was sent to it: none, TERM or KILL
    ends,       \* ends[s]: who holds the write end of pipe s
    written,    \* written[s]: bytes written to pipe s so far
    taken,      \* taken[s]: bytes a reader took out of it
    pump,       \* pump[s]: the reader thread of s: loop, reading or done
    queue,      \* chunk_queue: pairs of stream and chunk
    main,       \* run_command: idle, loop, term, kill, close, reap or done
    active,     \* readers whose end mark has not been received
    open,       \* pipes the main thread has not closed
    buf,        \* stdout_buf and stderr_buf
    truncated,  \* truncated_stdout and truncated_stderr
    late,       \* the deadline has passed
    outcome     \* how the loop, and then the call, ended

childVars == <<cmd, child, signal, ends, written>>
pumpVars == <<taken, pump, queue>>
mainVars == <<main, active, open, buf, truncated, outcome>>
runnerVars == <<childVars, pumpVars, mainVars, late>>

RunnerTypeOK ==
    /\ IsCommand(cmd)
    /\ child \in {"none", "alive", "exited"}
    /\ signal \in {"none", "TERM", "KILL"}
    /\ ends \in [Streams -> SUBSET {"child", "grandchild"}]
    /\ written \in [Streams -> Nat]
    /\ taken \in [Streams -> Nat]
    /\ buf \in [Streams -> Seq(Bytes)]
    /\ queue \in Seq(Streams \X Seq(Bytes))
    /\ \A s \in Streams :
         /\ written[s] \in 0..Len(cmd.output[s])
         /\ taken[s] \in 0..written[s]
         /\ written[s] - taken[s] <= PipeSize
         /\ Len(buf[s]) <= Cap
    /\ pump \in [Streams -> {"loop", "reading", "done"}]
    /\ main \in {"idle", "loop", "term", "kill", "close", "done"}
    /\ active \in 0..2
    /\ open \subseteq Streams
    /\ truncated \in [Streams -> BOOLEAN]
    /\ late \in BOOLEAN
    /\ outcome \in {"none", "eof", "cap", "deadline", "returned", "capped",
                    "timeout", "reap_timeout", "refused"}

Quiet ==
    /\ cmd = Idle
    /\ child = "none"
    /\ signal = "none"
    /\ ends = [s \in Streams |-> {}]
    /\ written = [s \in Streams |-> 0]
    /\ taken = [s \in Streams |-> 0]
    /\ pump = [s \in Streams |-> "done"]
    /\ queue = <<>>
    /\ main = "idle"
    /\ active = 0
    /\ open = {}
    /\ buf = [s \in Streams |-> <<>>]
    /\ truncated = [s \in Streams |-> FALSE]
    /\ late = FALSE
    /\ outcome = "none"

----------------------------------------------------------------------------
(* The subprocess and the world                                            *)

(* Popen and the start of the reader threads.                              *)
Spawn(c) ==
    /\ main = "idle"
    /\ c.starts
    /\ cmd' = c
    /\ child' = "alive"
    /\ ends' = [s \in Streams |->
                  {"child"} \cup (IF c.forks THEN {"grandchild"} ELSE {})]
    /\ pump' = [s \in Streams |-> "loop"]
    /\ main' = "loop"
    /\ active' = 2
    /\ open' = Streams
    /\ UNCHANGED <<signal, written, taken, queue, buf, truncated, late, outcome>>

(* The binary is not allowed or not found, or the directory is missing.    *)
Refuse(c) ==
    /\ main = "idle"
    /\ ~c.starts
    /\ cmd' = c
    /\ main' = "done"
    /\ outcome' = "refused"
    /\ UNCHANGED <<child, signal, ends, written, pumpVars, active, open, buf,
                   truncated, late>>

(* A holder of the write end writes a byte; a full pipe blocks it.         *)
ChildWrite(s) ==
    /\ ends[s] # {}
    /\ s \in open
    /\ written[s] < Len(cmd.output[s])
    /\ written[s] - taken[s] < PipeSize
    /\ written' = [written EXCEPT ![s] = @ + 1]
    /\ UNCHANGED <<cmd, child, signal, ends, pumpVars, mainVars, late>>

AllWritten ==
    \A s \in Streams : s \in open => written[s] = Len(cmd.output[s])

ChildGone ==
    /\ child' = "exited"
    /\ ends' = [s \in Streams |-> ends[s] \ {"child"}]
    /\ UNCHANGED <<cmd, signal, written, pumpVars, mainVars, late>>

ChildExit ==
    /\ child = "alive"
    /\ cmd.ends
    /\ AllWritten \/ cmd.forks
    /\ ChildGone

ChildKilled ==
    /\ child = "alive"
    /\ \/ signal # "none" /\ ~cmd.stubborn
       \/ signal = "KILL"
    /\ ~cmd.unkillable
    /\ ChildGone

(* A command that goes to the background, closing its pipes.               *)
ChildDetach ==
    /\ child = "alive"
    /\ cmd.detaches
    /\ AllWritten
    /\ \E s \in Streams : "child" \in ends[s]
    /\ ends' = [s \in Streams |-> ends[s] \ {"child"}]
    /\ UNCHANGED <<cmd, child, signal, written, pumpVars, mainVars, late>>

(* A process the command left behind lets go of the pipes it inherited.    *)
GrandchildExit ==
    /\ \E s \in Streams : "grandchild" \in ends[s]
    /\ ends' = [s \in Streams |-> ends[s] \ {"grandchild"}]
    /\ UNCHANGED <<cmd, child, signal, written, pumpVars, mainVars, late>>

DeadlinePasses ==
    /\ main = "loop"
    /\ ~late
    /\ late' = TRUE
    /\ UNCHANGED <<childVars, pumpVars, mainVars>>

----------------------------------------------------------------------------
(* _pump_stream                                                            *)

EndMark == <<>>

(* read1 is entered, holding the lock of the buffered stream until it      *)
(* returns; on a closed stream it raises and the thread ends.              *)
PumpRead(s) ==
    /\ pump[s] = "loop"
    /\ IF s \in open
         THEN /\ pump' = [pump EXCEPT ![s] = "reading"]
              /\ UNCHANGED queue
         ELSE /\ pump' = [pump EXCEPT ![s] = "done"]
              /\ queue' = Append(queue, <<s, EndMark>>)
    /\ UNCHANGED <<taken, childVars, mainVars, late>>

(* read1 returns what is there; the chunk goes to the queue.               *)
PumpChunk(s) ==
    LET size == Min({Chunk, written[s] - taken[s]})
    IN  /\ pump[s] = "reading"
        /\ size > 0
        /\ taken' = [taken EXCEPT ![s] = @ + size]
        /\ queue' = Append(queue,
                      <<s, SubSeq(cmd.output[s], taken[s] + 1, taken[s] + size)>>)
        /\ pump' = [pump EXCEPT ![s] = "loop"]
        /\ UNCHANGED <<childVars, mainVars, late>>

(* read1 returns nothing when the pipe is empty and no one can write to it.*)
PumpEnd(s) ==
    /\ pump[s] = "reading"
    /\ taken[s] = written[s]
    /\ ends[s] = {}
    /\ pump' = [pump EXCEPT ![s] = "done"]
    /\ queue' = Append(queue, <<s, EndMark>>)
    /\ UNCHANGED <<taken, childVars, mainVars, late>>

----------------------------------------------------------------------------
(* run_command                                                             *)

(* Mutants of AppendCapped: there is no cap on what is kept; nothing is    *)
(* kept of a chunk that does not fit.                                      *)
AppendUncapped(old, chunk, full) ==
    [buf |-> old \o chunk, truncated |-> full \/ Len(old) + Len(chunk) > Cap,
     capped |-> ~full /\ Len(old) + Len(chunk) > Cap]

AppendAllOrNothing(old, chunk, full) ==
    IF full \/ Len(old) + Len(chunk) > Cap
      THEN [buf |-> old, truncated |-> TRUE, capped |-> ~full]
      ELSE [buf |-> old \o chunk, truncated |-> FALSE, capped |-> FALSE]

(* _append_capped: a prefix of the chunk, and whether that cut it.         *)
AppendCapped(old, chunk, full) ==
    LET room == Cap - Len(old)
    IN  IF full
          THEN [buf |-> old, truncated |-> TRUE, capped |-> FALSE]
          ELSE [buf |-> old \o SubSeq(chunk, 1, Min({room, Len(chunk)})),
                truncated |-> Len(chunk) > room,
                capped |-> Len(chunk) > room]

(* Mutant of ReceiveEnd: the first end mark ends the loop.                 *)
ReceiveFirstEnd ==
    /\ main = "loop"
    /\ ~late
    /\ queue # <<>>
    /\ Head(queue)[2] = EndMark
    /\ queue' = Tail(queue)
    /\ active' = active - 1
    /\ main' = "close"
    /\ outcome' = "eof"
    /\ UNCHANGED <<open, buf, truncated, childVars, taken, pump, late>>

(* The loop receives an end mark, and ends with the last one.              *)
ReceiveEnd ==
    /\ main = "loop"
    /\ ~late
    /\ queue # <<>>
    /\ Head(queue)[2] = EndMark
    /\ queue' = Tail(queue)
    /\ active' = active - 1
    /\ main' = IF active = 1 THEN "close" ELSE "loop"
    /\ outcome' = IF active = 1 THEN "eof" ELSE outcome
    /\ UNCHANGED <<open, buf, truncated, childVars, taken, pump, late>>

(* The loop receives a chunk; when that hits the cap the subprocess is     *)
(* terminated and what is still in the queue is dropped.                   *)
ReceiveChunk ==
    /\ main = "loop"
    /\ ~late
    /\ queue # <<>>
    /\ Head(queue)[2] # EndMark
    /\ LET s == Head(queue)[1]
           new == AppendCapped(buf[s], Head(queue)[2], truncated[s])
       IN  /\ buf' = [buf EXCEPT ![s] = new.buf]
           /\ truncated' = [truncated EXCEPT ![s] = new.truncated]
           /\ main' = IF new.capped THEN "term" ELSE "loop"
           /\ outcome' = IF new.capped THEN "cap" ELSE outcome
           /\ signal' = IF new.capped THEN "TERM" ELSE signal
    /\ queue' = Tail(queue)
    /\ UNCHANGED <<active, open, cmd, child, ends, written, taken, pump, late>>

(* The loop finds the deadline passed, before it looks into the queue.     *)
TimeOut ==
    /\ main = "loop"
    /\ late
    /\ main' = "term"
    /\ outcome' = "deadline"
    /\ signal' = "TERM"
    /\ UNCHANGED <<active, open, buf, truncated, cmd, child, ends, written,
                   pumpVars, late>>

(* Mutant of TermGraceExpires: SIGTERM is all it gets.                     *)
TermGraceGivesUp ==
    /\ main = "term"
    /\ child = "alive"
    /\ main' = "close"
    /\ UNCHANGED <<active, open, buf, truncated, outcome, childVars, pumpVars,
                   late>>

(* _terminate: SIGTERM was sent; after the grace period comes SIGKILL, and *)
(* after another one the process is given up.                              *)
TermGraceExpires ==
    /\ main = "term"
    /\ child = "alive"
    /\ main' = "kill"
    /\ signal' = "KILL"
    /\ UNCHANGED <<active, open, buf, truncated, outcome, cmd, child, ends,
                   written, pumpVars, late>>

TerminateDone ==
    /\ main \in {"term", "kill"}
    /\ child = "exited" \/ (main = "kill" /\ cmd.unkillable)
    /\ main' = "close"
    /\ UNCHANGED <<active, open, buf, truncated, outcome, childVars, pumpVars,
                   late>>

(* _close_streams, stdout first: close waits for the lock that a reader    *)
(* holds while it is inside read1.                                         *)
CloseStream(s) ==
    /\ main = "close"
    /\ s \in open
    /\ s = "stderr" => "stdout" \notin open
    /\ pump[s] # "reading"
    /\ open' = open \ {s}
    /\ UNCHANGED <<main, active, buf, truncated, outcome, childVars, pumpVars,
                   late>>

(* CommandTimeout is raised once the finally clause is through.            *)
RaiseTimeout ==
    /\ main = "close"
    /\ open = {}
    /\ outcome = "deadline"
    /\ main' = "done"
    /\ outcome' = "timeout"
    /\ UNCHANGED <<active, open, buf, truncated, childVars, pumpVars, late>>

(* The result is returned when the subprocess ends within the last grace   *)
(* period; otherwise wait raises TimeoutExpired.                           *)
Reap ==
    /\ main = "close"
    /\ open = {}
    /\ outcome \in {"eof", "cap"}
    /\ child = "exited"
    /\ main' = "done"
    /\ outcome' = IF outcome = "cap" THEN "capped" ELSE "returned"
    /\ UNCHANGED <<active, open, buf, truncated, childVars, pumpVars, late>>

ReapGraceExpires ==
    /\ main = "close"
    /\ open = {}
    /\ outcome \in {"eof", "cap"}
    /\ child = "alive"
    /\ main' = "done"
    /\ outcome' = "reap_timeout"
    /\ UNCHANGED <<active, open, buf, truncated, childVars, pumpVars, late>>

----------------------------------------------------------------------------
(* The call                                                                *)

ChildStep ==
    \/ \E s \in Streams : ChildWrite(s)
    \/ ChildExit
    \/ ChildKilled
    \/ ChildDetach

PumpStep(s) == PumpRead(s) \/ PumpChunk(s) \/ PumpEnd(s)

MainStep ==
    \/ ReceiveEnd
    \/ ReceiveChunk
    \/ TimeOut
    \/ TermGraceExpires
    \/ TerminateDone
    \/ \E s \in Streams : CloseStream(s)
    \/ RaiseTimeout
    \/ Reap
    \/ ReapGraceExpires

RunnerStep ==
    \/ ChildStep
    \/ GrandchildExit
    \/ DeadlinePasses
    \/ \E s \in Streams : PumpStep(s)
    \/ MainStep

(* Threads are scheduled, time passes, and a signal that can end a process *)
(* does.  Nothing makes a command write, end or let go of its pipes.       *)
RunnerFairness ==
    /\ \A s \in Streams : WF_runnerVars(PumpStep(s))
    /\ WF_runnerVars(MainStep)
    /\ WF_runnerVars(ChildKilled)
    /\ WF_runnerVars(DeadlinePasses)

RunnerNext ==
    \/ \E c \in Commands : Spawn(c) \/ Refuse(c)
    \/ RunnerStep

RunnerSpec == Quiet /\ [][RunnerNext]_runnerVars /\ RunnerFairness

----------------------------------------------------------------------------
(* Properties                                                              *)

Returned == main = "done" /\ outcome \in {"returned", "capped"}

(* What the result holds of a stream is the start of what the command      *)
(* wrote there, in its order, whatever two readers and the cap do to it;   *)
(* and when no cap was hit nothing that was written is missing.            *)
ResultFaithful ==
    /\ \A s \in Streams : buf[s] = SubSeq(cmd.output[s], 1, Len(buf[s]))
    /\ main = "done" /\ outcome = "returned" =>
         \A s \in Streams : Len(buf[s]) = written[s] /\ ends[s] = {}

(* The truncation flags of a result tell the truth: a flagged stream was   *)
(* cut at the cap, and a result without any flag lost nothing.             *)
FlagsHonest ==
    Returned =>
      /\ \A s \in Streams :
           truncated[s] => Len(buf[s]) = Cap /\ written[s] > Cap
      /\ (\E s \in Streams : Len(buf[s]) < taken[s]) =>
           \E s \in Streams : truncated[s]

(* A call does not leave its subprocess running, unless SIGKILL failed on  *)
(* it, or it closed its pipes and went on (the wait for it then raises).   *)
NothingLeftRunning ==
    main = "done" /\ child = "alive" =>
      cmd.unkillable \/ (cmd.detaches /\ outcome = "reap_timeout")

(* A call ends, whatever its command does; the one thing that can hold it  *)
(* for good is the close of a pipe that a reader waits on and a process    *)
(* beyond the reach of _terminate keeps open.                              *)
CallEnds ==
    \/ []<>(main \in {"idle", "done"})
    \/ <>[](/\ main = "close"
            /\ \E s \in open : /\ pump[s] = "reading"
                               /\ cmd.unkillable \/ "grandchild" \in ends[s])

(* "Runs on its own thread so the main loop can enforce the deadline":     *)
(* once the deadline has passed, the call ends.                            *)
DeadlineEnforced == late ~> main = "done"
=============================================================================
