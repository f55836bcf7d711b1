--------------------------- MODULE CmdRunnerProofs --------------------------
(***************************************************************************)
(* run_command, proved for every command, every cap and every number of    *)
(* bytes: the inductive invariant RunnerInv and what follows from it.      *)
(*                                                                         *)
(* RunnerInv says where the bytes of a subprocess are.  A byte that was    *)
(* written is in the pipe, then with a reader thread, then in a chunk of   *)
(* the queue, then in the buffer, in this order; the end mark of a stream  *)
(* comes after its last chunk.  Only so is what the loop has appended when *)
(* it received both end marks the whole output, and what it has appended   *)
(* when the cap or the deadline stops it a prefix.                         *)
(***************************************************************************)
EXTENDS CmdRunner, SequenceTheorems, SumTheorems

----------------------------------------------------------------------------
(* The chunks in the queue                                                 *)

(* The chunks of s in q are its output from the byte after from up to to,  *)
(* one after the other.                                                    *)
Places(pos, q, s, out, from, to) ==
    /\ pos \in [0..Len(q) -> 0..to]
    /\ pos[0] = from
    /\ pos[Len(q)] = to
    /\ \A i \in 1..Len(q) :
         IF q[i][1] = s
           THEN /\ pos[i - 1] <= pos[i]
                /\ q[i][2] = SubSeq(out, pos[i - 1] + 1, pos[i])
           ELSE pos[i] = pos[i - 1]

(* The chunks of s in q are its output from the byte after from up to to.  *)
Continues(q, s, out, from, to) == \E pos : Places(pos, q, s, out, from, to)

(* What a reader puts into the queue before its end mark.                  *)
Chunks == Streams \X Seq(Bytes)

(* Nothing is in an empty queue.                                           *)
LEMMA NothingContinues ==
    ASSUME NEW s, NEW out, NEW n \in Nat
    PROVE  /\ Continues(<<>>, s, out, n, n)
           /\ \A from \in Nat : Continues(<<>>, s, out, from, n) => from = n
<1>1. Places([i \in {0} |-> n], <<>>, s, out, n, n)
  BY DEF Places
<1>. QED BY <1>1 DEF Continues, Places

(* A reader that appends what comes next keeps the order, of its stream    *)
(* and of the other.                                                       *)
LEMMA AppendContinues ==
    ASSUME NEW s \in Streams, NEW q \in Seq(Chunks), NEW out, NEW from \in Nat, NEW to \in Nat,
           Continues(q, s, out, from, to), NEW t \in Streams, NEW chunk \in Seq(Bytes),
           NEW size \in Nat,
           IF t = s THEN chunk = SubSeq(out, to + 1, to + size) ELSE size = 0
    PROVE  Continues(Append(q, <<t, chunk>>), s, out, from, to + size)
<1>1. PICK pos : Places(pos, q, s, out, from, to)
  BY DEF Continues
<1> DEFINE n == Len(q)
           new == Append(q, <<t, chunk>>)
           next == [i \in 0..(n + 1) |-> IF i = n + 1 THEN to + size ELSE pos[i]]
<1>2. /\ n \in Nat
      /\ Len(new) = n + 1
      /\ \A i \in 1..n : new[i] = q[i]
      /\ new[n + 1] = <<t, chunk>>
  BY DEF Chunks
<1>3. /\ pos \in [0..n -> 0..to]
      /\ pos[0] = from
      /\ pos[n] = to
  BY <1>1 DEF Places
<1>4. next \in [0..(n + 1) -> 0..(to + size)] /\ next[0] = from /\ next[n + 1] = to + size
  BY <1>2, <1>3
<1>5. ASSUME NEW i \in 1..(n + 1)
      PROVE  IF new[i][1] = s
               THEN /\ next[i - 1] <= next[i]
                    /\ new[i][2] = SubSeq(out, next[i - 1] + 1, next[i])
               ELSE next[i] = next[i - 1]
  <2>1. CASE i \in 1..n
    <3>1. next[i] = pos[i] /\ next[i - 1] = pos[i - 1] /\ new[i] = q[i]
      BY <1>2, <2>1
    <3>. QED BY <1>1, <2>1, <3>1 DEF Places
  <2>2. CASE i = n + 1
    <3>1. next[i] = to + size /\ next[i - 1] = to
      BY <1>2, <1>3, <2>2
    <3>2. new[i] = <<t, chunk>>
      BY <1>2, <2>2
    <3> HIDE DEF next, new, n
    <3>. QED BY SMTT(30), <3>1, <3>2
  <2>3. i \in 1..n \/ i = n + 1
    BY <1>2
  <2>. QED BY Zenon, <2>1, <2>2, <2>3
<1>6. Places(next, new, s, out, from, to + size)
  <2> HIDE DEF next, new, n
  <2> QED BY <1>2, <1>4, <1>5 DEF Places
<1>. QED BY <1>6 DEF Continues

(* What the loop takes out of the queue is what comes next in its stream.  *)
LEMMA TailContinues ==
    ASSUME NEW s \in Streams, NEW q \in Seq(Chunks), q # <<>>, NEW out,
           NEW from \in Nat, NEW to \in Nat, Continues(q, s, out, from, to)
    PROVE  IF Head(q)[1] = s
             THEN \E mid \in from..to :
                    /\ Head(q)[2] = SubSeq(out, from + 1, mid)
                    /\ Continues(Tail(q), s, out, mid, to)
             ELSE Continues(Tail(q), s, out, from, to)
<1>1. PICK pos : Places(pos, q, s, out, from, to)
  BY DEF Continues
<1> DEFINE n == Len(q)
           new == Tail(q)
           next == [i \in 0..(n - 1) |-> pos[i + 1]]
<1>2. /\ n \in Nat \ {0}
      /\ Len(new) = n - 1
      /\ \A i \in 1..(n - 1) : new[i] = q[i + 1]
      /\ Head(q) = q[1]
  BY DEF Chunks
<1>3. /\ pos \in [0..n -> 0..to]
      /\ pos[0] = from
      /\ pos[n] = to
  BY <1>1 DEF Places
<1>4. IF q[1][1] = s
        THEN /\ pos[0] <= pos[1]
             /\ q[1][2] = SubSeq(out, pos[0] + 1, pos[1])
        ELSE pos[1] = pos[0]
  <2>1. 1 \in 1..Len(q) /\ 1 - 1 = 0
    BY <1>2
  <2>2. \A i \in 1..Len(q) : i = 1 => i - 1 = 0
    BY <1>2
  <2>. QED BY <1>1, <2>1, <2>2 DEF Places
<1>5. /\ next[0] = pos[1]
      /\ next[n - 1] = to
      /\ pos[1] \in 0..to
  BY <1>2, <1>3
<1>7. ASSUME NEW i \in 1..(n - 1)
      PROVE  IF new[i][1] = s
               THEN /\ next[i - 1] <= next[i]
                    /\ new[i][2] = SubSeq(out, next[i - 1] + 1, next[i])
               ELSE next[i] = next[i - 1]
  <2>1. next[i] = pos[i + 1] /\ next[i - 1] = pos[i] /\ new[i] = q[i + 1] /\ i + 1 \in 1..n
    BY <1>2
  <2>. QED BY SMTT(30), <1>1, <2>1 DEF Places
<1>8. next \in [0..(n - 1) -> 0..to]
  BY <1>2, <1>3
<1>9. Places(next, new, s, out, pos[1], to)
  <2> HIDE DEF next, new, n
  <2> QED BY <1>2, <1>5, <1>7, <1>8 DEF Places
<1>10. Continues(new, s, out, pos[1], to)
  <2> HIDE DEF next, new, n
  <2> QED BY <1>9 DEF Continues
<1>11. CASE q[1][1] = s
  <2>1. pos[1] \in from..to /\ Head(q)[2] = SubSeq(out, from + 1, pos[1]) /\ Head(q)[1] = s
    BY <1>2, <1>3, <1>4, <1>5, <1>11
  <2>. QED BY Zenon, <1>10, <2>1
<1>12. CASE q[1][1] # s
  <2>1. pos[1] = from /\ Head(q)[1] # s
    BY <1>2, <1>3, <1>4, <1>12
  <2>. QED BY Zenon, <1>10, <2>1
<1>. QED BY <1>11, <1>12

----------------------------------------------------------------------------
(* run_command: the inductive invariant                                    *)

(* A reader whose end mark the loop has not received.                      *)
Waiting(s) ==
    \/ pump[s] # "done"
    \/ \E i \in DOMAIN queue : queue[i] = <<s, EndMark>>

(* While the loop runs, the queue of each stream goes on where the buffer  *)
(* ends, and its end mark comes last.                                      *)
StreamInLoop(s) ==
    /\ truncated[s] = FALSE
    /\ Continues(queue, s, cmd.output[s], Len(buf[s]), taken[s])
    /\ pump[s] = "done" => taken[s] = written[s] /\ ends[s] = {}
    /\ \A i \in DOMAIN queue :
         queue[i] = <<s, EndMark>> =>
           /\ pump[s] = "done"
           /\ \A j \in DOMAIN queue : queue[j][1] = s => j <= i
    /\ ~Waiting(s) => \A i \in DOMAIN queue : queue[i][1] # s

(* The counter of the loop is the number of end marks it waits for.        *)
InLoop ==
    main = "loop" =>
      /\ open = Streams
      /\ \A s \in Streams : StreamInLoop(s)
      /\ active = (IF Waiting("stdout") THEN 1 ELSE 0)
                    + (IF Waiting("stderr") THEN 1 ELSE 0)

(* What is kept is a prefix, cut only at the cap; at the end of the        *)
(* streams it is everything.                                               *)
Captures ==
    /\ \A s \in Streams :
         /\ buf[s] = SubSeq(cmd.output[s], 1, Len(buf[s]))
         /\ truncated[s] => Len(buf[s]) = Cap /\ written[s] > Cap
    /\ outcome \in {"cap", "capped"} => \E s \in Streams : truncated[s]
    /\ outcome \in {"eof", "returned"} =>
         \A s \in Streams : /\ Len(buf[s]) = taken[s]
                            /\ written[s] = taken[s]
                            /\ ends[s] = {}

(* Two kinds of faulty command, under a name of their own.                 *)
Unkillable == cmd.unkillable
Detaches == cmd.detaches

(* Where the call stands, and why its subprocess may still be alive there. *)
Stages ==
    /\ main \in {"idle", "loop"} => outcome = "none"
    /\ main \in {"term", "kill"} => outcome \in {"cap", "deadline"}
    /\ main = "close" => outcome \in {"eof", "cap", "deadline"}
    /\ child = "alive" =>
         /\ Detaches \/ \A s \in Streams : "child" \in ends[s]
         /\ main = "close" => Unkillable \/ (Detaches /\ outcome = "eof")
         /\ main = "done" => Unkillable \/ (Detaches /\ outcome = "reap_timeout")

(* The inductive invariant of run_command.                                 *)
RunnerInv ==
    /\ RunnerTypeOK
    /\ main = "idle" => Quiet
    /\ InLoop
    /\ Captures
    /\ Stages

(* The smaller of two numbers.                                             *)
LEMMA MinOfTwo ==
    ASSUME NEW a \in Int, NEW b \in Int
    PROVE  Min({a, b}) = IF a <= b THEN a ELSE b
<1> DEFINE m == IF a <= b THEN a ELSE b
<1>1. m \in {a, b} /\ \A y \in {a, b} : m <= y
  OBVIOUS
<1>2. \A x \in {a, b} : (\A y \in {a, b} : x <= y) => x = m
  OBVIOUS
<1>. QED BY <1>1, <1>2 DEF Min

(* A prefix goes on with the bytes that follow it.                         *)
LEMMA PrefixGrows ==
    ASSUME NEW out \in Seq(Bytes), NEW old \in Seq(Bytes), old = SubSeq(out, 1, Len(old)),
           NEW to \in Len(old)..Len(out), NEW k \in 0..(to - Len(old)),
           NEW chunk, chunk = SubSeq(out, Len(old) + 1, to),
           NEW new, new = old \o SubSeq(chunk, 1, k)
    PROVE  /\ Len(chunk) = to - Len(old)
           /\ new \in Seq(Bytes)
           /\ Len(new) = Len(old) + k
           /\ new = SubSeq(out, 1, Len(new))
<1> DEFINE n == Len(old)
           part == SubSeq(chunk, 1, k)
<1>1. n \in Nat /\ to \in Nat /\ Len(out) \in Nat /\ n <= to /\ to <= Len(out)
  BY SMTT(30)
<1>2. /\ chunk \in Seq(Bytes)
      /\ Len(chunk) = to - n
      /\ \A i \in 1..(to - n) : chunk[i] = out[n + i]
  <2>1. n + 1 \in Int /\ to \in Int /\ \A i \in (n + 1)..to : out[i] \in Bytes
    BY <1>1
  <2>2. /\ chunk \in Seq(Bytes)
        /\ Len(chunk) = IF n + 1 <= to THEN to - (n + 1) + 1 ELSE 0
        /\ \A i \in 1..(to - (n + 1) + 1) : chunk[i] = out[(n + 1) + i - 1]
    <3> DEFINE m == n + 1
    <3>1. m \in Int /\ to \in Int /\ chunk = SubSeq(out, m, to) /\ \A i \in m..to : out[i] \in Bytes
      BY <2>1
    <3> HIDE DEF m
    <3>2. /\ SubSeq(out, m, to) \in Seq(Bytes)
          /\ Len(SubSeq(out, m, to)) = IF m <= to THEN to - m + 1 ELSE 0
          /\ \A i \in 1..(to - m + 1) : SubSeq(out, m, to)[i] = out[m + i - 1]
      BY <3>1, SubSeqProperties
    <3>. QED BY Zenon, <3>1, <3>2 DEF m
  <2>3. ASSUME NEW i \in 1..(to - n) PROVE chunk[i] = out[n + i]
    <3>1. i \in 1..(to - (n + 1) + 1) /\ (n + 1) + i - 1 = n + i
      BY <1>1
    <3>. QED BY Zenon, <2>2, <3>1
  <2>4. Len(chunk) = to - n
    <3> DEFINE size == Len(chunk)
    <3>1. size = IF n + 1 <= to THEN to - (n + 1) + 1 ELSE 0
      BY Zenon, <2>2
    <3> HIDE DEF n, size
    <3>2. size = to - n
      BY <1>1, <3>1
    <3>. QED BY Zenon, <3>2 DEF size
  <2>. QED BY Zenon, <2>2, <2>3, <2>4
<1>3. /\ part \in Seq(Bytes)
      /\ Len(part) = k
      /\ \A i \in 1..k : part[i] = chunk[i]
  <2>1. k \in 0..(to - n)
    OBVIOUS
  <2>2. chunk \in Seq(Bytes) /\ k \in Nat /\ k <= Len(chunk)
    <3> HIDE DEF n
    <3>. QED BY ONLY <1>1, <1>2, <2>1
  <2>. QED BY ONLY <2>2
<1>4. /\ new \in Seq(Bytes)
      /\ Len(new) = n + k
      /\ \A i \in 1..n : new[i] = old[i]
      /\ \A i \in 1..k : new[n + i] = part[i]
  <2> HIDE DEF part
  <2>0. /\ new \in Seq(Bytes)
        /\ Len(new) = Len(old) + Len(part)
        /\ \A i \in 1..(Len(old) + Len(part)) :
             new[i] = IF i <= Len(old) THEN old[i] ELSE part[i - Len(old)]
    BY <1>3, ConcatProperties
  <2>1. /\ new \in Seq(Bytes)
        /\ Len(new) = n + k
        /\ \A i \in 1..n : new[i] = old[i]
    <3>. QED BY <1>1, <1>3, <2>0
  <2>2. ASSUME NEW i \in 1..k PROVE new[n + i] = part[i]
    <3>1. n + i \in 1..(Len(old) + Len(part)) /\ ~(n + i <= Len(old)) /\ (n + i) - Len(old) = i
      BY <1>1, <1>3
    <3>2. new[n + i] = part[(n + i) - Len(old)]
      BY <1>3, <3>1, ConcatProperties
    <3>. QED BY <3>1, <3>2
  <2>. QED BY <2>1, <2>2
<1>5. /\ SubSeq(out, 1, n + k) \in Seq(Bytes)
      /\ Len(SubSeq(out, 1, n + k)) = n + k
      /\ \A i \in 1..(n + k) : SubSeq(out, 1, n + k)[i] = out[i]
  BY <1>1
<1>6. \A i \in 1..n : old[i] = out[i]
  BY <1>1
<1>7. ASSUME NEW i \in 1..(n + k) PROVE new[i] = out[i]
  <2>1. CASE i \in 1..n
    BY SMTT(30), <1>4, <1>6, <2>1
  <2>2. CASE i \notin 1..n
    <3>1. i - n \in 1..k /\ n + (i - n) = i /\ i - n \in 1..(to - n)
      BY <1>1, <2>2
    <3> HIDE DEF part
    <3>. QED BY ZenonT(30), <1>2, <1>3, <1>4, <3>1
  <2>. QED BY <2>1, <2>2
<1>8. new = SubSeq(out, 1, n + k)
  <2> QED BY <1>1, <1>4, <1>5, <1>7, SeqEqual
<1>. QED BY Zenon, <1>2, <1>4, <1>8

(* Writing stops where no one holds the pipe.                              *)
PipesDrain ==
    \A s \in Streams :
      /\ written[s] \in Nat /\ written'[s] \in Nat
      /\ written[s] <= written'[s]
      /\ ends[s] = {} => ends'[s] = {} /\ written'[s] = written[s]

(* What the world does leaves the queue and the loop as they are.          *)
LEMMA LoopStable ==
    ASSUME InLoop, PipesDrain, main' = "loop" => main = "loop",
           UNCHANGED <<cmd, pump, queue, taken, open, buf, truncated, active>>
    PROVE  InLoop'
<1> SUFFICES ASSUME main' = "loop" PROVE InLoop'
  BY DEF InLoop
<1>1. \A s \in Streams : Waiting(s)' <=> Waiting(s)
  BY DEF Waiting
<1>2. ASSUME NEW s \in Streams, StreamInLoop(s) PROVE StreamInLoop(s)'
  BY <1>1, <1>2 DEF StreamInLoop, PipesDrain
<1>3. "stdout" \in Streams /\ "stderr" \in Streams
  BY DEF Streams
<1>. QED BY <1>1, <1>2, <1>3 DEF InLoop

(* Captures holds on while the buffers stay and no new outcome is reached. *)
LEMMA CapturesStable ==
    ASSUME Captures, PipesDrain, Cap \in Nat,
           UNCHANGED <<cmd, taken, buf, truncated>>,
           outcome' \in {"cap", "capped"} => outcome \in {"cap", "capped"},
           outcome' \in {"eof", "returned"} => outcome \in {"eof", "returned"}
    PROVE  Captures'
<1>1. \A s \in Streams : truncated'[s] => Len(buf'[s]) = Cap /\ written'[s] > Cap
  BY DEF Captures, PipesDrain
<1>. QED BY <1>1 DEF Captures, PipesDrain

(* The steps of the subprocess and of its descendants, and of time.        *)
RunnerWorld ==
    \/ ChildStep
    \/ GrandchildExit
    \/ DeadlinePasses

(* They write to pipes that are open, and touch nothing of the call.       *)
LEMMA WorldDrains ==
    ASSUME RunnerTypeOK, RunnerWorld
    PROVE  /\ PipesDrain
           /\ RunnerTypeOK'
           /\ UNCHANGED <<cmd, signal, taken, pump, queue, mainVars>>
<1> USE DEF RunnerTypeOK
<1>1. ASSUME NEW s \in Streams, ChildWrite(s)
      PROVE  /\ PipesDrain
             /\ RunnerTypeOK'
             /\ UNCHANGED <<cmd, signal, taken, pump, queue, mainVars>>
  <2>1. /\ written' = [written EXCEPT ![s] = written[s] + 1]
        /\ written[s] < Len(cmd.output[s])
        /\ written[s] - taken[s] < PipeSize
        /\ ends[s] # {}
        /\ UNCHANGED <<cmd, child, signal, ends, taken, pump, queue, mainVars, late>>
    BY <1>1 DEF ChildWrite, pumpVars
  <2>2. \A t \in Streams : written'[t] = IF t = s THEN written[t] + 1 ELSE written[t]
    BY <2>1
  <2>3. written' \in [Streams -> Nat]
    BY <2>1
  <2>4. PipesDrain
    BY <2>1, <2>2, <2>3 DEF PipesDrain
  <2>5. PipeSize \in Nat /\ \A t \in Streams : Len(cmd.output[t]) \in Nat
    BY RunnerConstants DEF IsCommand
  <2>6. \A t \in Streams : /\ written'[t] \in 0..Len(cmd.output[t])
                           /\ taken[t] \in 0..written'[t]
                           /\ written'[t] - taken[t] <= PipeSize
    <3>1. ASSUME NEW t \in Streams
          PROVE  /\ written'[t] \in 0..Len(cmd.output[t])
                 /\ taken[t] \in 0..written'[t]
                 /\ written'[t] - taken[t] <= PipeSize
      <4>1. CASE t = s
        BY <2>1, <2>2, <2>5, <4>1
      <4>2. CASE t # s
        BY <2>2, <4>2
      <4>. QED BY <4>1, <4>2
    <3>. QED BY <3>1
  <2>7. RunnerTypeOK'
    BY <2>1, <2>3, <2>6 DEF mainVars
  <2>. QED BY <2>1, <2>4, <2>7
<1>2. ASSUME /\ ends' \in [Streams -> SUBSET {"child", "grandchild"}]
             /\ \A s \in Streams : ends'[s] \subseteq ends[s]
             /\ child' \in {child, "exited"}
             /\ late' \in BOOLEAN
             /\ UNCHANGED <<cmd, signal, written, taken, pump, queue, mainVars>>
      PROVE  /\ PipesDrain
             /\ RunnerTypeOK'
             /\ UNCHANGED <<cmd, signal, taken, pump, queue, mainVars>>
  BY <1>2 DEF PipesDrain, mainVars
<1>3. CASE ChildGone
  BY <1>2, <1>3 DEF ChildGone, pumpVars
<1>4. CASE ChildDetach
  BY <1>2, <1>4 DEF ChildDetach, pumpVars
<1>5. CASE GrandchildExit
  BY <1>2, <1>5 DEF GrandchildExit, pumpVars
<1>6. CASE DeadlinePasses
  BY <1>2, <1>6 DEF DeadlinePasses, pumpVars, childVars
<1>. QED
  BY Zenon, <1>1, <1>3, <1>4, <1>5, <1>6 DEF RunnerWorld, ChildStep, ChildExit, ChildKilled

(* They leave the call where it stands; a process may only end.            *)
LEMMA WorldStages ==
    ASSUME RunnerTypeOK, Stages, RunnerWorld
    PROVE  Stages'
<1>1. UNCHANGED <<cmd, main, outcome>>
  BY WorldDrains DEF mainVars
<1>2. child' = "alive" => child = "alive"
  BY DEF RunnerWorld, ChildStep, ChildExit, ChildKilled, ChildWrite, ChildGone, ChildDetach,
         GrandchildExit, DeadlinePasses, childVars
<1>3. ASSUME child' = "alive"
      PROVE  Detaches' \/ \A s \in Streams : "child" \in ends'[s]
  <2>1. CASE ChildDetach
    BY <2>1 DEF ChildDetach, Detaches
  <2>2. CASE ~ChildDetach
    <3>1. \A s \in Streams : "child" \in ends[s] => "child" \in ends'[s]
      BY <1>3, <2>2 DEF RunnerTypeOK, RunnerWorld, ChildStep, ChildExit, ChildKilled, ChildWrite,
             ChildGone, GrandchildExit, DeadlinePasses, childVars
    <3>. QED BY <1>1, <1>2, <1>3, <3>1 DEF Stages, Detaches
  <2>. QED BY <2>1, <2>2
<1>4. Unkillable' = Unkillable /\ Detaches' = Detaches
  BY <1>1 DEF Unkillable, Detaches
<1>. QED BY <1>1, <1>2, <1>3, <1>4 DEF Stages

(* Where no call runs, the world has nothing to do.                        *)
LEMMA QuietWorld ==
    ASSUME Quiet PROVE ~RunnerStep
<1>1. /\ child = "none"
      /\ main = "idle"
      /\ \A s \in Streams : ends[s] = {} /\ pump[s] = "done"
  BY DEF Quiet
<1>. QED
  BY <1>1 DEF RunnerStep, ChildStep, ChildWrite, ChildExit, ChildKilled, ChildDetach,
     GrandchildExit, DeadlinePasses, PumpStep, PumpRead, PumpChunk, PumpEnd, MainStep,
     ReceiveEnd, ReceiveChunk, TimeOut, TermGraceExpires, TerminateDone, CloseStream,
     RaiseTimeout, Reap, ReapGraceExpires

(* They keep the invariant.                                                *)
LEMMA WorldInv ==
    ASSUME RunnerInv, RunnerWorld
    PROVE  RunnerInv'
<1>1. PipesDrain /\ RunnerTypeOK' /\ UNCHANGED <<cmd, signal, taken, pump, queue, mainVars>>
  BY WorldDrains DEF RunnerInv
<1>2. InLoop'
  BY <1>1, LoopStable DEF RunnerInv, mainVars
<1>3. Captures'
  BY <1>1, CapturesStable, RunnerConstants DEF RunnerInv, mainVars
<1>4. main' # "idle"
  <2>1. ~Quiet
    BY QuietWorld DEF RunnerWorld, RunnerStep
  <2>. QED BY <1>1, <2>1 DEF RunnerInv, mainVars
<1>. QED BY <1>1, <1>2, <1>3, <1>4, WorldStages DEF RunnerInv

(* What a queue is made of when an entry joins it.                         *)
LEMMA Joined ==
    ASSUME NEW q \in Seq(Chunks), NEW entry \in Chunks
    PROVE  /\ Append(q, entry) \in Seq(Chunks)
           /\ Len(q) \in Nat
           /\ DOMAIN q = 1..Len(q)
           /\ DOMAIN Append(q, entry) = 1..(Len(q) + 1)
           /\ \A i \in 1..Len(q) : Append(q, entry)[i] = q[i]
           /\ Append(q, entry)[Len(q) + 1] = entry
<1> HIDE DEF Chunks
<1>. QED OBVIOUS

(* A reader puts a chunk into the queue, or goes back to its pipe.         *)
LEMMA PumpTypes ==
    ASSUME RunnerTypeOK, NEW s \in Streams, PumpStep(s)
    PROVE  /\ RunnerTypeOK'
           /\ UNCHANGED <<childVars, mainVars, late>>
           /\ pump[s] # "done"
           /\ pump' = [pump EXCEPT ![s] = pump'[s]]
           /\ \/ /\ s \in open /\ UNCHANGED <<queue, taken>>
                 /\ pump'[s] = "reading"
              \/ /\ s \notin open \/ (taken[s] = written[s] /\ ends[s] = {})
                 /\ queue' = Append(queue, <<s, EndMark>>)
                 /\ taken' = taken
                 /\ pump'[s] = "done"
              \/ \E size \in Nat \ {0} :
                   /\ taken[s] + size <= written[s]
                   /\ taken' = [taken EXCEPT ![s] = taken[s] + size]
                   /\ pump'[s] = "loop"
                   /\ SubSeq(cmd.output[s], taken[s] + 1, taken[s] + size) \in Seq(Bytes) \ {EndMark}
                   /\ queue' = Append(queue,
                        <<s, SubSeq(cmd.output[s], taken[s] + 1, taken[s] + size)>>)
<1>0. /\ pump \in [Streams -> {"loop", "reading", "done"}]
      /\ queue \in Seq(Chunks)
      /\ taken \in [Streams -> Nat]
      /\ written \in [Streams -> Nat]
      /\ \A t \in Streams : /\ cmd.output[t] \in Seq(Bytes)
                            /\ Len(cmd.output[t]) \in Nat
                            /\ written[t] <= Len(cmd.output[t])
                            /\ taken[t] <= written[t]
                            /\ written[t] - taken[t] <= PipeSize
      /\ EndMark \in Seq(Bytes)
      /\ <<s, EndMark>> \in Chunks
  <2>1. /\ pump \in [Streams -> {"loop", "reading", "done"}]
        /\ queue \in Seq(Chunks)
        /\ taken \in [Streams -> Nat]
        /\ written \in [Streams -> Nat]
        /\ cmd.output \in [Streams -> Seq(Bytes)]
    BY DEF RunnerTypeOK, IsCommand, Chunks
  <2>2. EndMark \in Seq(Bytes) /\ <<s, EndMark>> \in Chunks
    <3>1. EndMark \in Seq(Bytes)
      BY DEF EndMark
    <3> HIDE DEF EndMark
    <3>. QED BY <3>1 DEF Chunks
  <2>3. ASSUME NEW t \in Streams
        PROVE  /\ cmd.output[t] \in Seq(Bytes)
               /\ Len(cmd.output[t]) \in Nat
               /\ written[t] <= Len(cmd.output[t])
               /\ taken[t] <= written[t]
               /\ written[t] - taken[t] <= PipeSize
    <3>1. cmd.output[t] \in Seq(Bytes)
      BY <2>1
    <3>2. /\ written[t] \in 0..Len(cmd.output[t])
          /\ taken[t] \in 0..written[t]
          /\ written[t] - taken[t] <= PipeSize
      BY DEF RunnerTypeOK
    <3>. QED BY <3>1, <3>2
  <2>. QED BY <2>1, <2>2, <2>3
<1>1. CASE PumpRead(s)
  <2>1. /\ UNCHANGED <<childVars, mainVars, late, taken>>
        /\ pump[s] = "loop"
        /\ \/ s \in open /\ pump' = [pump EXCEPT ![s] = "reading"] /\ queue' = queue
           \/ /\ s \notin open
              /\ pump' = [pump EXCEPT ![s] = "done"]
              /\ queue' = Append(queue, <<s, EndMark>>)
    BY <1>1 DEF PumpRead
  <2>2. pump' \in [Streams -> {"loop", "reading", "done"}] /\ queue' \in Seq(Chunks)
    <3>1. Append(queue, <<s, EndMark>>) \in Seq(Chunks)
      BY <1>0, Joined
    <3>2. queue' \in Seq(Chunks)
      BY <1>0, <2>1, <3>1
    <3>. QED BY <1>0, <2>1, <3>2
  <2>3. RunnerTypeOK'
    BY <2>1, <2>2 DEF RunnerTypeOK, Chunks, childVars, mainVars
  <2>. QED BY <1>0, <2>1, <2>3
<1>2. CASE PumpEnd(s)
  <2>1. /\ UNCHANGED <<childVars, mainVars, late, taken>>
        /\ pump[s] = "reading"
        /\ taken[s] = written[s] /\ ends[s] = {}
        /\ pump' = [pump EXCEPT ![s] = "done"]
        /\ queue' = Append(queue, <<s, EndMark>>)
    BY <1>2 DEF PumpEnd
  <2>2. pump' \in [Streams -> {"loop", "reading", "done"}] /\ queue' \in Seq(Chunks)
    BY <1>0, <2>1, Joined
  <2>3. RunnerTypeOK'
    BY <2>1, <2>2 DEF RunnerTypeOK, Chunks, childVars, mainVars
  <2>. QED BY <1>0, <2>1, <2>3
<1>3. CASE PumpChunk(s)
  <2> DEFINE size == Min({Chunk, written[s] - taken[s]})
             chunk == SubSeq(cmd.output[s], taken[s] + 1, taken[s] + size)
  <2>1. /\ UNCHANGED <<childVars, mainVars, late>>
        /\ pump[s] = "reading"
        /\ size > 0
        /\ pump' = [pump EXCEPT ![s] = "loop"]
        /\ taken' = [taken EXCEPT ![s] = taken[s] + size]
        /\ queue' = Append(queue, <<s, chunk>>)
    BY <1>3 DEF PumpChunk
  <2>2. size \in Nat \ {0} /\ taken[s] + size <= written[s]
    <3>1. size = IF Chunk <= written[s] - taken[s] THEN Chunk ELSE written[s] - taken[s]
      <4> DEFINE left == written[s] - taken[s]
      <4>1. left \in Int /\ Chunk \in Int
        BY <1>0, RunnerConstants
      <4> HIDE DEF left
      <4>2. Min({Chunk, left}) = IF Chunk <= left THEN Chunk ELSE left
        BY <4>1, MinOfTwo
      <4>. QED BY <4>2 DEF left
    <3> HIDE DEF size
    <3>2. size \in Int /\ size <= written[s] - taken[s]
      BY <1>0, <3>1, RunnerConstants
    <3>. QED BY <1>0, <2>1, <3>2
  <2> HIDE DEF size
  <2>3. chunk \in Seq(Bytes) /\ Len(chunk) = size
    <3>1. /\ taken[s] + 1 \in Int /\ taken[s] + size \in Int
          /\ \A i \in (taken[s] + 1)..(taken[s] + size) : cmd.output[s][i] \in Bytes
      BY SMTT(30), <1>0, <2>2
    <3>2. /\ chunk \in Seq(Bytes)
          /\ Len(chunk) = IF taken[s] + 1 <= taken[s] + size
                            THEN (taken[s] + size) - (taken[s] + 1) + 1 ELSE 0
      <4> DEFINE m == taken[s] + 1
                 n == taken[s] + size
      <4> HIDE DEF m, n
      <4>. QED BY <3>1, SubSeqProperties DEF m, n
    <3> HIDE DEF chunk
    <3>3. \A k \in Nat : k + 1 <= k + size /\ (k + size) - (k + 1) + 1 = size
      BY <2>2
    <3>4. taken[s] \in Nat
      BY <1>0
    <3>. QED BY Zenon, <3>2, <3>3, <3>4
  <2>4. chunk # EndMark /\ <<s, chunk>> \in Chunks
    BY <2>2, <2>3 DEF EndMark, Chunks
  <2> HIDE DEF chunk
  <2>5. /\ pump' \in [Streams -> {"loop", "reading", "done"}]
        /\ queue' \in Seq(Chunks)
        /\ taken' \in [Streams -> Nat]
        /\ \A t \in Streams : /\ taken'[t] \in 0..written[t]
                              /\ written[t] - taken'[t] <= PipeSize
    <3>1. queue' \in Seq(Chunks)
      BY <1>0, <2>1, <2>4, Joined
    <3>2. \A t \in Streams : taken'[t] = IF t = s THEN taken[s] + size ELSE taken[t]
      BY <1>0, <2>1
    <3>3. PipeSize \in Nat
      BY RunnerConstants
    <3>. QED BY <1>0, <2>1, <2>2, <3>1, <3>2, <3>3
  <2>6. RunnerTypeOK'
    BY SMTT(30), <2>1, <2>5 DEF RunnerTypeOK, Chunks, childVars, mainVars
  <2>. QED BY <1>0, <2>1, <2>2, <2>3, <2>4, <2>6 DEF chunk
<1>. QED BY <1>1, <1>2, <1>3 DEF PumpStep

(* A reader keeps the queue in order.                                      *)
LEMMA PumpLoop ==
    ASSUME RunnerTypeOK, InLoop, NEW s \in Streams, PumpStep(s), main = "loop"
    PROVE  InLoop'
<1>0. /\ UNCHANGED <<cmd, child, signal, ends, written, mainVars>>
      /\ pump[s] # "done"
      /\ \A t \in Streams \ {s} : pump'[t] = pump[t]
      /\ queue \in Seq(Chunks)
      /\ pump \in [Streams -> {"loop", "reading", "done"}]
      /\ taken \in [Streams -> Nat]
      /\ open = Streams
      /\ \A t \in Streams : StreamInLoop(t)
      /\ EndMark \in Seq(Bytes)
  <2>1. /\ UNCHANGED <<cmd, child, signal, ends, written, mainVars>>
        /\ pump[s] # "done"
        /\ pump' = [pump EXCEPT ![s] = pump'[s]]
    BY PumpTypes DEF childVars
  <2>2. /\ queue \in Seq(Chunks)
        /\ pump \in [Streams -> {"loop", "reading", "done"}]
        /\ taken \in [Streams -> Nat]
    BY DEF RunnerTypeOK, Chunks
  <2>3. open = Streams /\ \A t \in Streams : StreamInLoop(t)
    BY DEF InLoop
  <2>4. EndMark \in Seq(Bytes)
    BY DEF EndMark
  <2>. QED BY <2>1, <2>2, <2>3, <2>4
<1>1. \A t \in Streams : Len(buf[t]) \in Nat
  BY DEF RunnerTypeOK
<1>2. SUFFICES /\ \A t \in Streams : StreamInLoop(t)'
               /\ \A t \in Streams : Waiting(t)' <=> Waiting(t)
  <2>1. "stdout" \in Streams /\ "stderr" \in Streams
    BY DEF Streams
  <2>. QED BY <1>0, <2>1 DEF InLoop, mainVars
<1>3. CASE UNCHANGED <<queue, taken>> /\ pump'[s] # "done"
  <2>1. \A t \in Streams : Waiting(t)' <=> Waiting(t)
    BY <1>0, <1>3 DEF Waiting
  <2>2. ASSUME NEW t \in Streams PROVE StreamInLoop(t)'
    <3>1. pump'[t] = "done" <=> pump[t] = "done"
      BY <1>0, <1>3
    <3>2. StreamInLoop(t)
      BY <1>0
    <3>. QED BY <1>0, <1>3, <2>1, <3>1, <3>2 DEF StreamInLoop, mainVars
  <2>. QED BY <2>1, <2>2
<1>4. ASSUME NEW chunk \in Seq(Bytes), NEW size \in Nat,
             queue' = Append(queue, <<s, chunk>>),
             taken' = [taken EXCEPT ![s] = taken[s] + size],
             chunk = SubSeq(cmd.output[s], taken[s] + 1, taken[s] + size),
             chunk = EndMark <=> pump'[s] = "done",
             pump'[s] = "done" => size = 0 /\ taken[s] = written[s] /\ ends[s] = {}
      PROVE  /\ \A t \in Streams : StreamInLoop(t)'
             /\ \A t \in Streams : Waiting(t)' <=> Waiting(t)
  <2> DEFINE n == Len(queue)
  <2>0. <<s, chunk>> \in Chunks
    BY DEF Chunks
  <2>1. /\ n \in Nat
        /\ DOMAIN queue = 1..n
        /\ DOMAIN queue' = 1..(n + 1)
        /\ \A i \in 1..n : queue'[i] = queue[i]
        /\ queue'[n + 1] = <<s, chunk>>
    BY ZenonT(30), <1>0, <1>4, <2>0, Joined
  <2> HIDE DEF n
  <2>2. \A i \in 1..(n + 1) : i \in 1..n \/ i = n + 1
    BY <2>1
  <2>3. \A i \in 1..n : i \in 1..(n + 1) /\ i <= n + 1
    BY <2>1
  <2>4. n + 1 \in 1..(n + 1) /\ n + 1 <= n + 1
    BY <2>1
  <2>5. ASSUME NEW t \in Streams
        PROVE  (\E i \in DOMAIN queue' : queue'[i] = <<t, EndMark>>)
                 <=> \/ \E i \in DOMAIN queue : queue[i] = <<t, EndMark>>
                     \/ t = s /\ chunk = EndMark
    BY <2>1, <2>2, <2>3, <2>4
  <2>6. \A t \in Streams : Waiting(t)' <=> Waiting(t)
    BY <1>0, <1>4, <2>5 DEF Waiting
  <2>7. ASSUME NEW t \in Streams PROVE StreamInLoop(t)'
    <3>1. /\ truncated[t] = FALSE
          /\ Continues(queue, t, cmd.output[t], Len(buf[t]), taken[t])
          /\ pump[t] = "done" => taken[t] = written[t] /\ ends[t] = {}
          /\ \A i \in DOMAIN queue :
               queue[i] = <<t, EndMark>> =>
                 /\ pump[t] = "done"
                 /\ \A j \in DOMAIN queue : queue[j][1] = t => j <= i
          /\ ~Waiting(t) => \A i \in DOMAIN queue : queue[i][1] # t
      BY <1>0 DEF StreamInLoop
    <3>2. taken'[t] = IF t = s THEN taken[t] + size ELSE taken[t]
      BY <1>0, <1>4
    <3>3. Continues(queue', t, cmd.output[t], Len(buf[t]), taken'[t])
      <4>1. CASE t = s
        BY <1>0, <1>1, <1>4, <3>1, <3>2, <4>1, AppendContinues
      <4>2. CASE t # s
        <5>1. taken[t] \in Nat /\ taken[t] + 0 = taken[t]
          BY <1>0
        <5>2. Continues(Append(queue, <<s, chunk>>), t, cmd.output[t], Len(buf[t]), taken[t] + 0)
          BY <1>0, <1>1, <3>1, <4>2, <5>1, AppendContinues
        <5>. QED BY <1>4, <3>2, <4>2, <5>1, <5>2
      <4>. QED BY <4>1, <4>2
    <3>4. pump'[t] = "done" => taken'[t] = written'[t] /\ ends'[t] = {}
      <4>1. CASE t = s
        <5>1. pump'[t] = "done" => taken'[t] = taken[t] + 0 /\ taken[t] + 0 = taken[t]
          BY <1>0, <1>4, <3>2, <4>1
        <5>. QED BY <1>0, <1>4, <4>1, <5>1
      <4>2. CASE t # s
        BY <1>0, <3>1, <3>2, <4>2
      <4>. QED BY <4>1, <4>2
    <3>5. ASSUME NEW i \in DOMAIN queue', queue'[i] = <<t, EndMark>>
          PROVE  /\ pump'[t] = "done"
                 /\ \A j \in DOMAIN queue' : queue'[j][1] = t => j <= i
      <4>1. CASE i \in 1..n
        <5>1. queue[i] = <<t, EndMark>> /\ i \in DOMAIN queue
          BY <2>1, <3>5, <4>1
        <5>2. pump[t] = "done" /\ t # s
          BY <1>0, <3>1, <5>1
        <5>3. queue'[n + 1][1] # t
          BY <2>1, <5>2
        <5>4. ASSUME NEW j \in DOMAIN queue', queue'[j][1] = t PROVE j <= i
          <6>1. j \in 1..n /\ queue[j][1] = t
            BY <2>1, <2>2, <5>3, <5>4
          <6>. QED BY <2>1, <3>1, <5>1, <6>1
        <5>. QED BY <1>0, <5>2, <5>4
      <4>2. CASE i = n + 1
        <5>1. t = s /\ chunk = EndMark
          BY <2>1, <3>5, <4>2
        <5>2. \A j \in DOMAIN queue' : j <= i
          BY <2>1, <2>2, <2>3, <2>4, <4>2
        <5>. QED BY <1>4, <5>1, <5>2
      <4>. QED BY <2>1, <2>2, <4>1, <4>2
    <3>6. ASSUME ~Waiting(t)', NEW i \in DOMAIN queue' PROVE queue'[i][1] # t
      <4>1. ~Waiting(t) /\ t # s
        BY <1>0, <2>6, <3>6 DEF Waiting
      <4>. QED BY <2>1, <2>2, <3>1, <4>1
    <3>. QED BY <1>0, <3>1, <3>3, <3>4, <3>5, <3>6 DEF StreamInLoop, mainVars
  <2>. QED BY <2>6, <2>7
<1>5. CASE /\ taken[s] = written[s] /\ ends[s] = {}
           /\ queue' = Append(queue, <<s, EndMark>>)
           /\ taken' = taken
           /\ pump'[s] = "done"
  <2>1. 0 \in Nat /\ taken' = [taken EXCEPT ![s] = taken[s] + 0]
    BY <1>0, <1>5
  <2>2. EndMark = SubSeq(cmd.output[s], taken[s] + 1, taken[s] + 0)
    <3>1. /\ taken[s] + 1 \in Int /\ taken[s] + 0 \in Int
          /\ taken[s] + 0 < taken[s] + 1
      BY <1>0
    <3>. QED BY <3>1, SubSeqEmpty DEF EndMark
  <2>. QED BY <1>0, <1>4, <1>5, <2>1, <2>2
<1>6. ASSUME NEW size \in Nat \ {0},
             taken' = [taken EXCEPT ![s] = taken[s] + size],
             pump'[s] = "loop",
             SubSeq(cmd.output[s], taken[s] + 1, taken[s] + size) \in Seq(Bytes) \ {EndMark},
             queue' = Append(queue, <<s, SubSeq(cmd.output[s], taken[s] + 1, taken[s] + size)>>)
      PROVE  /\ \A t \in Streams : StreamInLoop(t)'
             /\ \A t \in Streams : Waiting(t)' <=> Waiting(t)
  BY <1>4, <1>6
<1>. QED BY <1>0, <1>3, <1>5, <1>6, PumpTypes

(* A step of a reader thread keeps the invariant.                          *)
LEMMA PumpInv ==
    ASSUME RunnerInv, NEW s \in Streams, PumpStep(s)
    PROVE  RunnerInv'
<1>1. /\ RunnerTypeOK'
      /\ UNCHANGED <<childVars, mainVars, late>>
      /\ pump[s] # "done"
  BY PumpTypes DEF RunnerInv
<1>2. InLoop'
  BY <1>1, PumpLoop DEF RunnerInv, InLoop, mainVars
<1>3. Captures'
  <2>1. written \in [Streams -> Nat] /\ taken \in [Streams -> Nat]
    BY DEF RunnerInv, RunnerTypeOK
  <2>2. CASE taken' = taken
    BY <1>1, <2>2 DEF RunnerInv, Captures, childVars, mainVars
  <2>3. CASE taken' # taken
    <3>1. taken[s] # written[s]
      BY <2>1, <2>3, PumpTypes DEF RunnerInv
    <3>. QED BY <1>1, <3>1 DEF RunnerInv, Captures, childVars, mainVars
  <2>. QED BY <2>2, <2>3
<1>4. Stages'
  BY <1>1 DEF RunnerInv, Stages, Unkillable, Detaches, childVars, mainVars
<1>5. main' # "idle"
  BY <1>1 DEF RunnerInv, Quiet, mainVars
<1>. QED BY <1>1, <1>2, <1>3, <1>4, <1>5 DEF RunnerInv

(* The loop takes the first entry of the queue; the rest stays in order.   *)
LEMMA Left ==
    ASSUME NEW q \in Seq(Chunks), q # <<>>
    PROVE  /\ Tail(q) \in Seq(Chunks)
           /\ Head(q) = q[1]
           /\ q[1] \in Chunks
           /\ Len(q) \in Nat \ {0}
           /\ DOMAIN q = 1..Len(q)
           /\ DOMAIN Tail(q) = 1..(Len(q) - 1)
           /\ 1 \in DOMAIN q
           /\ \A i \in DOMAIN Tail(q) : i + 1 \in DOMAIN q /\ Tail(q)[i] = q[i + 1]
           /\ \A i \in DOMAIN q : i # 1 => i - 1 \in DOMAIN Tail(q) /\ Tail(q)[i - 1] = q[i]
<1> HIDE DEF Chunks
<1>. QED OBVIOUS

(* What both kinds of receipt have in common.                              *)
LEMMA Received ==
    ASSUME RunnerTypeOK, InLoop, main = "loop", queue # <<>>, queue' = Tail(queue),
           UNCHANGED <<cmd, taken, pump, ends, written>>,
           NEW t \in Streams
    PROVE  /\ pump'[t] = "done" => taken'[t] = written'[t] /\ ends'[t] = {}
           /\ \A i \in DOMAIN queue' :
                queue'[i] = <<t, EndMark>> =>
                  /\ pump'[t] = "done"
                  /\ \A j \in DOMAIN queue' : queue'[j][1] = t => j <= i
           /\ (Waiting(t)' /\ Head(queue) = <<t, EndMark>>) => FALSE
           /\ Head(queue) # <<t, EndMark>> => (Waiting(t)' <=> Waiting(t))
           /\ ~Waiting(t)' => \A i \in DOMAIN queue' : queue'[i][1] # t
<1>0. /\ queue \in Seq(Chunks)
      /\ pump[t] = "done" => taken[t] = written[t] /\ ends[t] = {}
      /\ \A i \in DOMAIN queue :
           queue[i] = <<t, EndMark>> =>
             /\ pump[t] = "done"
             /\ \A j \in DOMAIN queue : queue[j][1] = t => j <= i
      /\ ~Waiting(t) => \A i \in DOMAIN queue : queue[i][1] # t
  BY DEF RunnerTypeOK, InLoop, StreamInLoop, Chunks
<1>1. /\ Head(queue) = queue[1]
      /\ Len(queue) \in Nat \ {0}
      /\ DOMAIN queue = 1..Len(queue)
      /\ DOMAIN queue' = 1..(Len(queue) - 1)
      /\ 1 \in DOMAIN queue
      /\ \A i \in DOMAIN queue' : i + 1 \in DOMAIN queue /\ queue'[i] = queue[i + 1]
      /\ \A i \in DOMAIN queue : i # 1 => i - 1 \in DOMAIN queue' /\ queue'[i - 1] = queue[i]
  BY <1>0, Left
<1>2. \A i \in DOMAIN queue' : i \in Nat \ {0} /\ i + 1 # 1
  BY <1>1
<1>3. ASSUME NEW i \in DOMAIN queue', queue'[i] = <<t, EndMark>>
      PROVE  /\ pump[t] = "done"
             /\ \A j \in DOMAIN queue' : queue'[j][1] = t => j <= i
  <2>1. queue[i + 1] = <<t, EndMark>> /\ i + 1 \in DOMAIN queue
    BY <1>1, <1>3
  <2>2. ASSUME NEW j \in DOMAIN queue', queue'[j][1] = t PROVE j <= i
    <3>1. queue[j + 1][1] = t /\ j + 1 \in DOMAIN queue
      BY <1>1, <2>2
    <3>2. j + 1 <= i + 1
      BY <1>0, <2>1, <3>1
    <3>. QED BY <1>2, <3>2
  <2>. QED BY <1>0, <2>1, <2>2
<1>4. ASSUME Head(queue) = <<t, EndMark>>
      PROVE  pump[t] = "done" /\ \A i \in DOMAIN queue' : queue'[i][1] # t
  <2>1. queue[1] = <<t, EndMark>>
    BY <1>1, <1>4
  <2>2. ASSUME NEW i \in DOMAIN queue', queue'[i][1] = t PROVE FALSE
    <3>1. queue[i + 1][1] = t /\ i + 1 \in DOMAIN queue
      BY <1>1, <2>2
    <3>2. i + 1 <= 1
      BY <1>0, <1>1, <2>1, <3>1
    <3>. QED BY <1>2, <3>2
  <2>. QED BY <1>0, <1>1, <2>1, <2>2
<1>5. Head(queue) = <<t, EndMark>> => ~Waiting(t)'
  BY <1>4 DEF Waiting
<1>6. ASSUME Head(queue) # <<t, EndMark>> PROVE Waiting(t)' <=> Waiting(t)
  <2>1. (\E i \in DOMAIN queue : queue[i] = <<t, EndMark>>)
          <=> \E i \in DOMAIN queue' : queue'[i] = <<t, EndMark>>
    BY ZenonT(30), <1>1, <1>6
  <2>. QED BY <2>1 DEF Waiting
<1>7. ASSUME ~Waiting(t)', NEW i \in DOMAIN queue' PROVE queue'[i][1] # t
  BY <1>0, <1>1, <1>4, <1>6, <1>7
<1>. QED BY <1>0, <1>3, <1>5, <1>6, <1>7

(* The loop receives an end mark.                                          *)
LEMMA EndReceived ==
    ASSUME RunnerTypeOK, InLoop, ReceiveEnd
    PROVE  /\ \A t \in Streams : StreamInLoop(t)'
           /\ active \in {1, 2}
           /\ active' = (IF Waiting("stdout")' THEN 1 ELSE 0)
                          + (IF Waiting("stderr")' THEN 1 ELSE 0)
<1>0. /\ main = "loop" /\ queue # <<>> /\ Head(queue)[2] = EndMark
      /\ queue' = Tail(queue) /\ active' = active - 1
      /\ UNCHANGED <<cmd, taken, pump, ends, written, buf, truncated>>
  BY DEF ReceiveEnd, childVars
<1>1. queue \in Seq(Chunks)
  BY DEF RunnerTypeOK, Chunks
<1>2. PICK s \in Streams : /\ Head(queue) = <<s, EndMark>>
                           /\ queue[1] = <<s, EndMark>>
                           /\ 1 \in DOMAIN queue
  <2>1. Head(queue) = queue[1] /\ queue[1] \in Chunks /\ 1 \in DOMAIN queue
    BY <1>0, <1>1, Left
  <2>. QED BY <1>0, <2>1 DEF Chunks
<1>3. Waiting(s) /\ ~Waiting(s)'
  <2>1. ~Waiting(s)'
    BY <1>0, <1>2, Received
  <2>2. Waiting(s)
    BY <1>2 DEF Waiting
  <2>. QED BY <2>1, <2>2
<1>4. \A t \in Streams : t # s => (Waiting(t)' <=> Waiting(t))
  <2>1. \A t \in Streams : t # s => Head(queue) # <<t, EndMark>>
    BY <1>2
  <2>. QED BY <1>0, <2>1, Received
<1>5. \A t \in Streams : /\ taken[t] \in Nat /\ Len(buf[t]) \in Nat
                         /\ cmd.output[t] \in Seq(Bytes)
                         /\ taken[t] <= Len(cmd.output[t])
  <2>1. ASSUME NEW t \in Streams
        PROVE  /\ taken[t] \in Nat /\ Len(buf[t]) \in Nat
               /\ cmd.output[t] \in Seq(Bytes)
               /\ taken[t] <= Len(cmd.output[t])
    <3>1. written[t] \in 0..Len(cmd.output[t]) /\ taken[t] \in 0..written[t]
      BY DEF RunnerTypeOK
    <3>2. cmd.output[t] \in Seq(Bytes) /\ taken[t] \in Nat /\ buf[t] \in Seq(Bytes)
      BY DEF RunnerTypeOK, IsCommand
    <3>. QED BY <3>1, <3>2
  <2>. QED BY <2>1
<1>6. ASSUME NEW t \in Streams PROVE StreamInLoop(t)'
  <2>1. truncated[t] = FALSE /\ Continues(queue, t, cmd.output[t], Len(buf[t]), taken[t])
    BY <1>0 DEF InLoop, StreamInLoop
  <2>2. Continues(queue', t, cmd.output[t], Len(buf[t]), taken[t])
    <3>1. CASE t # s
      <4>1. Head(queue)[1] # t
        BY <1>2, <3>1
      <4>. QED BY <1>0, <1>1, <1>5, <2>1, <4>1, TailContinues
    <3>2. CASE t = s
      <4>1. Head(queue)[1] = t /\ Head(queue)[2] = EndMark
        BY <1>2, <3>2
      <4>2. PICK mid \in Len(buf[t])..taken[t] :
                   /\ EndMark = SubSeq(cmd.output[t], Len(buf[t]) + 1, mid)
                   /\ Continues(queue', t, cmd.output[t], mid, taken[t])
        <5>1. /\ queue \in Seq(Chunks) /\ queue # <<>> /\ queue' = Tail(queue)
              /\ Len(buf[t]) \in Nat /\ taken[t] \in Nat
          BY <1>0, <1>1, <1>5
        <5>. QED BY ONLY t \in Streams, <2>1, <4>1, <5>1, TailContinues
      <4>3. mid = Len(buf[t])
        <5> DEFINE n == Len(buf[t])
                   out == cmd.output[t]
                   size == Len(out)
        <5>1. n \in Nat /\ mid \in Int /\ n <= mid /\ mid <= size /\ size \in Nat
          BY <1>5, <4>2
        <5>2. Len(EndMark) = 0
          BY DEF EndMark
        <5>3. EndMark = SubSeq(out, n + 1, mid) /\ \A i \in 1..size : out[i] \in Bytes
          BY <1>5, <4>2
        <5> HIDE DEF n, out, size, EndMark
        <5>4. \A i \in (n + 1)..mid : out[i] \in Bytes
          BY <5>1, <5>3
        <5>5. Len(EndMark) = IF n + 1 <= mid THEN mid - (n + 1) + 1 ELSE 0
          <6> DEFINE m == n + 1
          <6>1. m \in Int
            BY <5>1
          <6> HIDE DEF m
          <6>. QED BY <5>1, <5>3, <5>4, <6>1, SubSeqProperties DEF m
        <5>6. mid = n
          BY <5>1, <5>2, <5>5
        <5>. QED BY <5>6 DEF n
      <4>. QED BY <4>2, <4>3
    <3>. QED BY <3>1, <3>2
  <2>3. /\ pump'[t] = "done" => taken'[t] = written'[t] /\ ends'[t] = {}
        /\ \A i \in DOMAIN queue' :
             queue'[i] = <<t, EndMark>> =>
               /\ pump'[t] = "done"
               /\ \A j \in DOMAIN queue' : queue'[j][1] = t => j <= i
        /\ ~Waiting(t)' => \A i \in DOMAIN queue' : queue'[i][1] # t
    BY <1>0, Received
  <2>. QED BY <1>0, <2>1, <2>2, <2>3 DEF StreamInLoop
<1>7. active = (IF Waiting("stdout") THEN 1 ELSE 0) + (IF Waiting("stderr") THEN 1 ELSE 0)
  BY <1>0 DEF InLoop
<1>8. s = "stdout" \/ s = "stderr"
  BY DEF Streams
<1>9. active \in {1, 2} /\ active' = (IF Waiting("stdout")' THEN 1 ELSE 0)
                                       + (IF Waiting("stderr")' THEN 1 ELSE 0)
  <2>1. "stdout" \in Streams /\ "stderr" \in Streams /\ "stdout" # "stderr"
    BY DEF Streams
  <2>2. CASE s = "stdout"
    <3>1. Waiting("stdout") /\ ~Waiting("stdout")' /\ (Waiting("stderr")' <=> Waiting("stderr"))
      BY <1>3, <1>4, <2>1, <2>2
    <3>. QED BY <1>0, <1>7, <3>1
  <2>3. CASE s = "stderr"
    <3>1. Waiting("stderr") /\ ~Waiting("stderr")' /\ (Waiting("stdout")' <=> Waiting("stdout"))
      BY <1>3, <1>4, <2>1, <2>3
    <3>. QED BY <1>0, <1>7, <3>1
  <2>. QED BY <1>8, <2>2, <2>3
<1>. QED BY <1>6, <1>9

(* The loop receives a chunk: the buffer grows by what comes next, and is  *)
(* cut at the cap.                                                         *)
LEMMA ChunkReceived ==
    ASSUME RunnerInv, ReceiveChunk
    PROVE  /\ buf' \in [Streams -> Seq(Bytes)]
           /\ truncated' \in [Streams -> BOOLEAN]
           /\ \A t \in Streams : /\ Len(buf'[t]) <= Cap
                                 /\ buf'[t] = SubSeq(cmd.output[t], 1, Len(buf'[t]))
                                 /\ truncated'[t] => Len(buf'[t]) = Cap /\ written[t] > Cap
           /\ queue' \in Seq(Chunks)
           /\ UNCHANGED <<cmd, child, ends, written, taken, pump, active, open, late>>
           /\ \/ /\ main' = "loop" /\ UNCHANGED <<outcome, signal>>
                 /\ \A t \in Streams : StreamInLoop(t)'
                 /\ \A t \in Streams : Waiting(t)' <=> Waiting(t)
              \/ /\ main' = "term" /\ outcome' = "cap" /\ signal' = "TERM"
                 /\ \E t \in Streams : truncated'[t]
<1>0. /\ main = "loop" /\ queue # <<>> /\ Head(queue)[2] # EndMark
      /\ queue' = Tail(queue)
      /\ UNCHANGED <<active, open, cmd, child, ends, written, taken, pump, late>>
  BY DEF ReceiveChunk
<1>1. /\ queue \in Seq(Chunks)
      /\ buf \in [Streams -> Seq(Bytes)]
      /\ truncated \in [Streams -> BOOLEAN]
      /\ \A t \in Streams : StreamInLoop(t)
      /\ Cap \in Nat
  BY <1>0, RunnerConstants DEF RunnerInv, RunnerTypeOK, InLoop, Chunks
<1>2. PICK s \in Streams, chunk \in Seq(Bytes) : Head(queue) = <<s, chunk>>
  <2>1. Head(queue) \in Chunks
    BY <1>0, <1>1, Left
  <2>. QED BY <2>1 DEF Chunks
<1>3. PICK new : new = AppendCapped(buf[s], chunk, truncated[s])
  OBVIOUS
<1>4. /\ buf' = [buf EXCEPT ![s] = new.buf]
      /\ truncated' = [truncated EXCEPT ![s] = new.truncated]
      /\ main' = IF new.capped THEN "term" ELSE "loop"
      /\ outcome' = IF new.capped THEN "cap" ELSE outcome
      /\ signal' = IF new.capped THEN "TERM" ELSE signal
  <2>1. Head(queue)[1] = s /\ Head(queue)[2] = chunk
    BY <1>2
  <2>2. new = AppendCapped(buf[Head(queue)[1]], Head(queue)[2], truncated[Head(queue)[1]])
    BY <1>3, <2>1
  <2>. QED BY Zenon, <2>1, <2>2 DEF ReceiveChunk
<1>5. PICK old, out : old = buf[s] /\ out = cmd.output[s]
  OBVIOUS
<1>6. /\ old \in Seq(Bytes) /\ Len(old) \in Nat /\ Len(old) <= Cap
      /\ old = SubSeq(out, 1, Len(old))
      /\ out \in Seq(Bytes) /\ Len(out) \in Nat
      /\ taken[s] \in Nat /\ taken[s] <= written[s]
      /\ written[s] \in Nat /\ written[s] <= Len(out)
      /\ truncated[s] = FALSE
  <2>1. /\ written[s] \in 0..Len(cmd.output[s]) /\ taken[s] \in 0..written[s]
        /\ Len(buf[s]) <= Cap
    BY DEF RunnerInv, RunnerTypeOK
  <2>2. cmd.output[s] \in Seq(Bytes) /\ taken[s] \in Nat /\ written[s] \in Nat
    BY DEF RunnerInv, RunnerTypeOK, IsCommand
  <2>3. old = SubSeq(out, 1, Len(old))
    BY <1>5 DEF RunnerInv, Captures
  <2>4. truncated[s] = FALSE
    BY <1>1 DEF StreamInLoop
  <2>. QED BY <1>1, <1>5, <2>1, <2>2, <2>3, <2>4
<1>7. PICK mid \in Len(old)..taken[s] :
             /\ chunk = SubSeq(out, Len(old) + 1, mid)
             /\ Continues(queue', s, out, mid, taken[s])
  <2>1. Continues(queue, s, out, Len(old), taken[s])
    BY <1>1, <1>5 DEF StreamInLoop
  <2>2. Head(queue)[1] = s /\ Head(queue)[2] = chunk
    BY <1>2
  <2>. QED BY <1>0, <1>1, <1>6, <2>1, <2>2, TailContinues
<1>8. /\ mid \in Nat /\ mid \in Len(old)..Len(out) /\ mid <= taken[s]
      /\ Len(chunk) = mid - Len(old) /\ Len(chunk) \in Nat
  <2>1. mid \in Nat /\ mid \in Len(old)..Len(out) /\ mid <= taken[s]
    BY <1>6, <1>7
  <2>2. mid - Len(old) \in 0..(mid - Len(old))
    BY <1>6, <2>1
  <2>3. Len(chunk) = mid - Len(old)
    BY <1>6, <1>7, <2>1, <2>2, PrefixGrows
  <2>. QED BY <1>6, <2>1, <2>3
<1>9. PICK room, k : room = Cap - Len(old) /\ k = IF room <= Len(chunk) THEN room ELSE Len(chunk)
  OBVIOUS
<1>10. /\ room \in Nat /\ k \in Nat /\ k \in 0..(mid - Len(old))
       /\ Min({room, Len(chunk)}) = k
  <2>1. room \in Nat
    BY <1>1, <1>6, <1>9
  <2>. QED BY <1>8, <1>9, <2>1, MinOfTwo
<1>11. PICK grown : grown = old \o SubSeq(chunk, 1, k)
  OBVIOUS
<1>12. /\ new.buf = grown
       /\ new.truncated = (Len(chunk) > room)
       /\ new.capped = (Len(chunk) > room)
  BY <1>3, <1>5, <1>6, <1>9, <1>10, <1>11 DEF AppendCapped
<1>13. /\ grown \in Seq(Bytes)
       /\ Len(grown) = Len(old) + k
       /\ grown = SubSeq(out, 1, Len(grown))
  <2>1. /\ out \in Seq(Bytes) /\ old \in Seq(Bytes) /\ old = SubSeq(out, 1, Len(old))
        /\ mid \in Len(old)..Len(out) /\ k \in 0..(mid - Len(old))
        /\ chunk = SubSeq(out, Len(old) + 1, mid)
    BY Zenon, <1>6, <1>7, <1>8, <1>10
  <2>. QED BY <1>11, <2>1, PrefixGrows
<1>14. /\ buf' \in [Streams -> Seq(Bytes)]
       /\ truncated' \in [Streams -> BOOLEAN]
       /\ buf'[s] = grown
       /\ truncated'[s] = (Len(chunk) > room)
       /\ \A t \in Streams \ {s} : buf'[t] = buf[t] /\ truncated'[t] = truncated[t]
  BY <1>1, <1>4, <1>12, <1>13
<1>15. Len(chunk) > room => Len(grown) = Cap /\ written[s] > Cap
  BY <1>1, <1>6, <1>8, <1>9, <1>13
<1>16. ~(Len(chunk) > room) => Len(grown) = mid
  BY <1>1, <1>6, <1>8, <1>9, <1>10, <1>13
<1>17. \A t \in Streams : /\ Len(buf'[t]) <= Cap
                          /\ buf'[t] = SubSeq(cmd.output[t], 1, Len(buf'[t]))
                          /\ truncated'[t] => Len(buf'[t]) = Cap /\ written[t] > Cap
  <2>1. Len(grown) <= Cap
    BY <1>1, <1>6, <1>8, <1>9, <1>13
  <2>2. \A t \in Streams : /\ Len(buf[t]) <= Cap
                           /\ buf[t] = SubSeq(cmd.output[t], 1, Len(buf[t]))
                           /\ truncated[t] => Len(buf[t]) = Cap /\ written[t] > Cap
    BY DEF RunnerInv, RunnerTypeOK, Captures
  <2>. QED BY <1>5, <1>13, <1>14, <1>15, <2>1, <2>2
<1>18. queue' \in Seq(Chunks)
  BY <1>0, <1>1, Left
<1>19. CASE Len(chunk) > room
  <2>1. main' = "term" /\ outcome' = "cap" /\ signal' = "TERM"
    BY <1>4, <1>12, <1>19
  <2>2. truncated'[s]
    BY <1>14, <1>19
  <2>. QED BY <1>0, <1>14, <1>17, <1>18, <2>1, <2>2
<1>20. CASE ~(Len(chunk) > room)
  <2>1. main' = "loop" /\ UNCHANGED <<outcome, signal>>
    BY <1>4, <1>12, <1>20
  <2>2. \A t \in Streams : Head(queue) # <<t, EndMark>>
    BY <1>0
  <2>3. \A t \in Streams : Waiting(t)' <=> Waiting(t)
    BY <1>0, <2>2, Received DEF RunnerInv
  <2>4. ASSUME NEW t \in Streams PROVE StreamInLoop(t)'
    <3>1. truncated'[t] = FALSE
      BY <1>1, <1>14, <1>20 DEF StreamInLoop
    <3>2. Continues(queue', t, cmd.output[t], Len(buf'[t]), taken[t])
      <4>1. CASE t = s
        BY <1>5, <1>7, <1>14, <1>16, <1>20, <4>1
      <4>2. CASE t # s
        <5>1. Head(queue)[1] # t
          BY <1>2, <4>2
        <5>2. Continues(queue, t, cmd.output[t], Len(buf[t]), taken[t])
          BY <1>1 DEF StreamInLoop
        <5>3. Len(buf[t]) \in Nat /\ taken[t] \in Nat
          BY DEF RunnerInv, RunnerTypeOK
        <5>4. Continues(queue', t, cmd.output[t], Len(buf[t]), taken[t])
          BY <1>0, <1>1, <5>1, <5>2, <5>3, TailContinues
        <5>. QED BY <1>14, <4>2, <5>4
      <4>. QED BY <4>1, <4>2
    <3>3. /\ pump'[t] = "done" => taken'[t] = written'[t] /\ ends'[t] = {}
          /\ \A i \in DOMAIN queue' :
               queue'[i] = <<t, EndMark>> =>
                 /\ pump'[t] = "done"
                 /\ \A j \in DOMAIN queue' : queue'[j][1] = t => j <= i
          /\ ~Waiting(t)' => \A i \in DOMAIN queue' : queue'[i][1] # t
      BY <1>0, Received DEF RunnerInv
    <3>. QED BY <1>0, <3>1, <3>2, <3>3 DEF StreamInLoop
  <2>. QED BY <1>0, <1>14, <1>17, <1>18, <2>1, <2>3, <2>4
<1>. QED BY <1>19, <1>20

(* Every step of the main thread keeps the invariant.                      *)
LEMMA ReceiveEndInv ==
    ASSUME RunnerInv, ReceiveEnd
    PROVE  RunnerInv'
<1>0. /\ main = "loop" /\ queue # <<>> /\ active' = active - 1
      /\ queue' = Tail(queue)
      /\ UNCHANGED <<cmd, child, signal, taken, pump, ends, written, open, buf, truncated, late>>
      /\ IF active = 1 THEN main' = "close" /\ outcome' = "eof"
                       ELSE main' = "loop" /\ outcome' = outcome
  BY DEF ReceiveEnd, childVars
<1>1. /\ \A t \in Streams : StreamInLoop(t)'
      /\ active \in {1, 2}
      /\ active' = (IF Waiting("stdout")' THEN 1 ELSE 0)
                     + (IF Waiting("stderr")' THEN 1 ELSE 0)
  BY EndReceived DEF RunnerInv
<1>2. RunnerTypeOK'
  <2>1. queue' \in Seq(Chunks) /\ active' \in 0..2
    BY <1>0, <1>1, Left DEF RunnerInv, RunnerTypeOK, Chunks
  <2>2. main' \in {"loop", "close"} /\ outcome' \in {outcome, "eof"}
    BY <1>0
  <2>. QED BY <1>0, <2>1, <2>2 DEF RunnerInv, RunnerTypeOK, Chunks
<1>3. main' # "idle"
  BY <1>0
<1>4. InLoop'
  BY <1>0, <1>1 DEF RunnerInv, InLoop
<1>5. CASE active = 1
  <2>1. /\ ~Waiting("stdout")' /\ ~Waiting("stderr")'
        /\ main' = "close" /\ outcome' = "eof"
    BY <1>0, <1>1, <1>5
  <2>2. \A t \in Streams : ~Waiting(t)'
    BY <2>1 DEF Streams
  <2>3. queue' = <<>>
    <3>1. queue' \in Seq(Chunks)
      BY <1>2 DEF RunnerTypeOK, Chunks
    <3>2. ASSUME NEW i \in DOMAIN queue' PROVE FALSE
      <4>1. queue'[i] \in Chunks
        BY <3>1
      <4>2. queue'[i][1] \in Streams
        BY <4>1 DEF Chunks
      <4>. QED BY <1>1, <2>2, <4>2 DEF StreamInLoop
    <3>3. Len(queue') \in Nat /\ DOMAIN queue' = 1..Len(queue')
      BY <3>1
    <3>4. Len(queue') = 0
      BY <3>2, <3>3
    <3>. QED BY <3>1, <3>4
  <2>4. ASSUME NEW t \in Streams
        PROVE  Len(buf'[t]) = taken'[t] /\ written'[t] = taken'[t] /\ ends'[t] = {}
    <3>1. pump'[t] = "done"
      BY <2>2 DEF Waiting
    <3>2. Continues(<<>>, t, cmd'.output[t], Len(buf'[t]), taken'[t])
      BY <1>1, <2>3 DEF StreamInLoop
    <3>3. Len(buf'[t]) \in Nat /\ taken'[t] \in Nat
      BY <1>2 DEF RunnerTypeOK
    <3>. QED BY <1>1, <3>1, <3>2, <3>3, NothingContinues DEF StreamInLoop
  <2>5. Captures'
    BY <1>0, <2>1, <2>4 DEF RunnerInv, Captures
  <2>6. Stages'
    <3>1. "stdout" \in Streams /\ ends'["stdout"] = {}
      BY <2>4 DEF Streams
    <3>2. child' = "alive" => Detaches'
      BY <1>0, <3>1 DEF RunnerInv, Stages, Detaches
    <3>. QED BY <1>0, <2>1, <3>2 DEF Stages
  <2>. QED BY <1>2, <1>3, <1>4, <2>5, <2>6 DEF RunnerInv
<1>6. CASE active # 1
  <2>1. Captures'
    BY <1>0, <1>6 DEF RunnerInv, Captures
  <2>2. Stages'
    BY <1>0, <1>6 DEF RunnerInv, Stages, Detaches, Unkillable
  <2>. QED BY <1>2, <1>3, <1>4, <2>1, <2>2 DEF RunnerInv
<1>. QED BY <1>5, <1>6

(* So does the receipt of a chunk.                                         *)
LEMMA ReceiveChunkInv ==
    ASSUME RunnerInv, ReceiveChunk
    PROVE  RunnerInv'
<1>1. /\ buf' \in [Streams -> Seq(Bytes)]
      /\ truncated' \in [Streams -> BOOLEAN]
      /\ \A t \in Streams : /\ Len(buf'[t]) <= Cap
                            /\ buf'[t] = SubSeq(cmd.output[t], 1, Len(buf'[t]))
                            /\ truncated'[t] => Len(buf'[t]) = Cap /\ written[t] > Cap
      /\ queue' \in Seq(Chunks)
      /\ UNCHANGED <<cmd, child, ends, written, taken, pump, active, open, late>>
  BY ChunkReceived
<1>2. main = "loop" /\ outcome = "none"
  BY DEF RunnerInv, Stages, ReceiveChunk
<1>3. CASE /\ main' = "loop" /\ UNCHANGED <<outcome, signal>>
           /\ \A t \in Streams : StreamInLoop(t)'
           /\ \A t \in Streams : Waiting(t)' <=> Waiting(t)
  <2>1. RunnerTypeOK'
    BY <1>1, <1>3 DEF RunnerInv, RunnerTypeOK, Chunks
  <2>2. InLoop'
    <3>1. "stdout" \in Streams /\ "stderr" \in Streams
      BY DEF Streams
    <3>. QED BY <1>1, <1>2, <1>3, <3>1 DEF RunnerInv, InLoop
  <2>3. Captures'
    BY <1>1, <1>2, <1>3 DEF Captures
  <2>4. Stages'
    BY <1>1, <1>2, <1>3 DEF RunnerInv, Stages, Detaches, Unkillable
  <2>. QED BY <1>3, <2>1, <2>2, <2>3, <2>4 DEF RunnerInv
<1>4. CASE /\ main' = "term" /\ outcome' = "cap" /\ signal' = "TERM"
           /\ \E t \in Streams : truncated'[t]
  <2>1. RunnerTypeOK'
    BY <1>1, <1>4 DEF RunnerInv, RunnerTypeOK, Chunks
  <2>2. InLoop'
    BY <1>4 DEF InLoop
  <2>3. Captures'
    BY <1>1, <1>4 DEF Captures
  <2>4. Stages'
    BY <1>1, <1>2, <1>4 DEF RunnerInv, Stages, Detaches, Unkillable
  <2>. QED BY <1>4, <2>1, <2>2, <2>3, <2>4 DEF RunnerInv
<1>. QED BY <1>3, <1>4, ChunkReceived

(* After the loop the queue is left alone; the call goes through its last  *)
(* stages.                                                                 *)
Ending ==
    \/ TimeOut
    \/ TermGraceExpires
    \/ TerminateDone
    \/ \E s \in Streams : CloseStream(s)
    \/ RaiseTimeout
    \/ Reap
    \/ ReapGraceExpires

(* What the steps after the loop do: they signal, wait and close.          *)
LEMMA EndingKeeps ==
    ASSUME RunnerInv, Ending
    PROVE  /\ UNCHANGED <<cmd, child, ends, written, taken, pump, queue, active, buf,
                          truncated, late>>
           /\ open' \in {open} \cup {open \ {s} : s \in Streams}
           /\ signal' \in {signal, "TERM", "KILL"}
           /\ \/ /\ main = "loop" /\ main' = "term" /\ outcome' = "deadline"
              \/ /\ main = "term" /\ main' = "kill" /\ outcome' = outcome
              \/ /\ main \in {"term", "kill"} /\ main' = "close" /\ outcome' = outcome
                 /\ child = "alive" => Unkillable
              \/ /\ main = "close" /\ main' = main /\ outcome' = outcome
              \/ /\ main = "close" /\ main' = "done"
                 /\ outcome = "deadline" /\ outcome' = "timeout"
              \/ /\ main = "close" /\ main' = "done" /\ child # "alive"
                 /\ outcome = "cap" /\ outcome' = "capped"
              \/ /\ main = "close" /\ main' = "done" /\ child # "alive"
                 /\ outcome = "eof" /\ outcome' = "returned"
              \/ /\ main = "close" /\ main' = "done"
                 /\ outcome \in {"eof", "cap"} /\ outcome' = "reap_timeout"
<1>1. CASE TimeOut
  BY <1>1 DEF TimeOut, pumpVars
<1>2. CASE TermGraceExpires
  BY <1>2 DEF TermGraceExpires, pumpVars
<1>3. CASE TerminateDone
  BY <1>3 DEF TerminateDone, pumpVars, childVars, Unkillable
<1>4. ASSUME NEW s \in Streams, CloseStream(s) PROVE TRUE
  OBVIOUS
<1>5. CASE \E s \in Streams : CloseStream(s)
  BY <1>5 DEF CloseStream, pumpVars, childVars
<1>6. CASE RaiseTimeout
  BY <1>6 DEF RaiseTimeout, pumpVars, childVars
<1>7. CASE Reap
  BY <1>7 DEF Reap, pumpVars, childVars
<1>8. CASE ReapGraceExpires
  BY <1>8 DEF ReapGraceExpires, pumpVars, childVars
<1>. QED BY <1>1, <1>2, <1>3, <1>5, <1>6, <1>7, <1>8 DEF Ending

(* They keep the invariant.                                                *)
LEMMA EndingInv ==
    ASSUME RunnerInv, Ending
    PROVE  RunnerInv'
<1>1. /\ UNCHANGED <<cmd, child, ends, written, taken, pump, queue, active, buf,
                     truncated, late>>
      /\ open' \in {open} \cup {open \ {s} : s \in Streams}
      /\ signal' \in {signal, "TERM", "KILL"}
      /\ main' \in {"term", "kill", "close", "done"}
  BY EndingKeeps
<1>2. RunnerTypeOK'
  <2>1. open' \subseteq Streams
    BY <1>1 DEF RunnerInv, RunnerTypeOK
  <2>2. outcome' \in {outcome, "deadline", "timeout", "capped", "returned", "reap_timeout"}
    BY EndingKeeps
  <2>. QED BY <1>1, <2>1, <2>2 DEF RunnerInv, RunnerTypeOK
<1>3. Captures'
  <2>1. PipesDrain
    BY <1>1 DEF PipesDrain, RunnerInv, RunnerTypeOK
  <2>2. /\ outcome' \in {"cap", "capped"} => outcome \in {"cap", "capped"}
        /\ outcome' \in {"eof", "returned"} => outcome \in {"eof", "returned"}
    BY EndingKeeps
  <2>. QED BY <1>1, <2>1, <2>2, CapturesStable, RunnerConstants DEF RunnerInv
<1>4. Stages'
  BY <1>1, EndingKeeps DEF RunnerInv, Stages, Detaches, Unkillable
<1>. QED BY <1>1, <1>2, <1>3, <1>4 DEF RunnerInv, InLoop

(* Every step of a run keeps the invariant.                                *)
LEMMA RunnerStepInv ==
    ASSUME RunnerInv, RunnerStep
    PROVE  RunnerInv'
<1>1. RunnerWorld \/ (\E s \in Streams : PumpStep(s)) \/ ReceiveEnd \/ ReceiveChunk \/ Ending
  BY Zenon DEF RunnerStep, RunnerWorld, MainStep, Ending
<1>. QED BY <1>1, WorldInv, PumpInv, ReceiveEndInv, ReceiveChunkInv, EndingInv

(* A call is made in a quiet process.                                      *)
LEMMA QuietInv ==
    ASSUME Quiet PROVE RunnerInv
<1>1. IsCommand(Idle)
  <2>1. [s \in Streams |-> <<>>] \in [Streams -> Seq(Bytes)]
    OBVIOUS
  <2>. QED BY <2>1 DEF IsCommand, Idle
<1>2. /\ cmd = Idle /\ queue = <<>>
      /\ \A s \in Streams : /\ buf[s] = <<>> /\ Len(buf[s]) = 0
                            /\ written[s] = 0 /\ taken[s] = 0 /\ truncated[s] = FALSE
                            /\ cmd.output[s] = <<>> /\ Len(cmd.output[s]) = 0
                            /\ SubSeq(cmd.output[s], 1, 0) = <<>>
  BY DEF Quiet, Idle
<1>3. RunnerTypeOK
  <2>1. queue \in Seq(Streams \X Seq(Bytes))
    BY <1>2
  <2>2. /\ written \in [Streams -> Nat] /\ taken \in [Streams -> Nat]
        /\ buf \in [Streams -> Seq(Bytes)]
    BY DEF Quiet
  <2>3. /\ ends \in [Streams -> SUBSET {"child", "grandchild"}]
        /\ pump \in [Streams -> {"loop", "reading", "done"}]
        /\ truncated \in [Streams -> BOOLEAN]
        /\ child = "none" /\ signal = "none" /\ main = "idle" /\ active = 0
        /\ open = {} /\ late = FALSE /\ outcome = "none"
    BY DEF Quiet
  <2>4. \A s \in Streams : /\ written[s] \in 0..Len(cmd.output[s])
                           /\ taken[s] \in 0..written[s]
                           /\ written[s] - taken[s] <= PipeSize
                           /\ Len(buf[s]) <= Cap
    BY <1>2, RunnerConstants
  <2>6. /\ child \in {"none", "alive", "exited"}
        /\ signal \in {"none", "TERM", "KILL"}
        /\ main \in {"idle", "loop", "term", "kill", "close", "done"}
        /\ active \in 0..2 /\ open \subseteq Streams /\ late \in BOOLEAN
        /\ outcome \in {"none", "eof", "cap", "deadline", "returned", "capped", "timeout",
                        "reap_timeout", "refused"}
    <3>1. active \in 0..2 /\ open \subseteq Streams
      BY <2>3
    <3>. QED BY Zenon, <2>3, <3>1
  <2>7. IsCommand(cmd)
    BY <1>1, <1>2
  <2>. QED BY Zenon, <2>1, <2>2, <2>3, <2>4, <2>6, <2>7 DEF RunnerTypeOK
<1>4. InLoop /\ Captures /\ Stages
  BY <1>2 DEF Quiet, InLoop, Captures, Stages
<1>. QED BY <1>3, <1>4 DEF RunnerInv

(* A subprocess that starts has written nothing.                           *)
LEMMA SpawnInv ==
    ASSUME RunnerInv, NEW c, IsCommand(c), Spawn(c)
    PROVE  RunnerInv'
<1>1. Quiet
  BY DEF RunnerInv, Spawn
<1>2. /\ cmd' = c
      /\ child' = "alive"
      /\ ends' = [s \in Streams |-> {"child"} \cup (IF c.forks THEN {"grandchild"} ELSE {})]
      /\ pump' = [s \in Streams |-> "loop"]
      /\ main' = "loop"
      /\ active' = 2
      /\ open' = Streams
      /\ signal' = "none" /\ queue' = <<>> /\ late' = FALSE /\ outcome' = "none"
      /\ written' = [s \in Streams |-> 0] /\ taken' = [s \in Streams |-> 0]
      /\ buf' = [s \in Streams |-> <<>>] /\ truncated' = [s \in Streams |-> FALSE]
  BY <1>1 DEF Spawn, Quiet
<1>3. \A s \in Streams : /\ buf'[s] = <<>> /\ Len(buf'[s]) = 0
                         /\ written'[s] = 0 /\ taken'[s] = 0
                         /\ truncated'[s] = FALSE /\ pump'[s] = "loop"
                         /\ "child" \in ends'[s]
                         /\ c.output[s] \in Seq(Bytes) /\ Len(c.output[s]) \in Nat
                         /\ SubSeq(c.output[s], 1, 0) = <<>>
  BY <1>2 DEF IsCommand
<1>4. RunnerTypeOK'
  <2>1. queue' \in Seq(Streams \X Seq(Bytes))
    BY <1>2
  <2>2. /\ written' \in [Streams -> Nat] /\ taken' \in [Streams -> Nat]
        /\ buf' \in [Streams -> Seq(Bytes)]
        /\ ends' \in [Streams -> SUBSET {"child", "grandchild"}]
    BY <1>2
  <2>3. \A s \in Streams : /\ written'[s] \in 0..Len(cmd'.output[s])
                           /\ taken'[s] \in 0..written'[s]
                           /\ written'[s] - taken'[s] <= PipeSize
                           /\ Len(buf'[s]) <= Cap
    BY <1>2, <1>3, RunnerConstants
  <2>4. IsCommand(cmd')
    BY <1>2
  <2>5. /\ pump' \in [Streams -> {"loop", "reading", "done"}]
        /\ truncated' \in [Streams -> BOOLEAN]
        /\ child' = "alive" /\ signal' = "none" /\ main' = "loop" /\ active' = 2
        /\ open' = Streams /\ late' = FALSE /\ outcome' = "none"
    BY <1>2
  <2>6. /\ child' \in {"none", "alive", "exited"}
        /\ signal' \in {"none", "TERM", "KILL"}
        /\ main' \in {"idle", "loop", "term", "kill", "close", "done"}
        /\ active' \in 0..2 /\ open' \subseteq Streams /\ late' \in BOOLEAN
        /\ outcome' \in {"none", "eof", "cap", "deadline", "returned", "capped", "timeout",
                        "reap_timeout", "refused"}
    <3>1. active' \in 0..2 /\ open' \subseteq Streams
      BY <2>5
    <3>. QED BY Zenon, <2>5, <3>1
  <2>7. IsCommand(cmd')
    BY <1>1, <1>2
  <2>. QED BY Zenon, <2>1, <2>2, <2>3, <2>4, <2>5, <2>6, <2>7 DEF RunnerTypeOK
<1>5. InLoop'
  <2>1. \A s \in Streams : Waiting(s)'
    BY <1>3 DEF Waiting
  <2>2. \A s \in Streams : StreamInLoop(s)'
    BY <1>2, <1>3, <2>1, NothingContinues DEF StreamInLoop
  <2>3. "stdout" \in Streams /\ "stderr" \in Streams
    BY DEF Streams
  <2>. QED BY <1>2, <2>1, <2>2, <2>3 DEF InLoop
<1>6. Captures' /\ Stages'
  BY <1>2, <1>3 DEF Captures, Stages
<1>. QED BY <1>2, <1>4, <1>5, <1>6 DEF RunnerInv

(* A command that is refused starts no subprocess.                         *)
LEMMA RefuseInv ==
    ASSUME RunnerInv, NEW c, IsCommand(c), Refuse(c)
    PROVE  RunnerInv'
<1>1. Quiet
  BY DEF RunnerInv, Refuse
<1>2. /\ cmd' = c /\ main' = "done" /\ outcome' = "refused"
      /\ UNCHANGED <<child, signal, ends, written, taken, pump, queue, active, open, buf,
                     truncated, late>>
  BY DEF Refuse, pumpVars
<1>3. \A s \in Streams : /\ buf'[s] = <<>> /\ Len(buf'[s]) = 0
                         /\ written'[s] = 0 /\ taken'[s] = 0 /\ truncated'[s] = FALSE
                         /\ c.output[s] \in Seq(Bytes) /\ Len(c.output[s]) \in Nat
                         /\ SubSeq(c.output[s], 1, 0) = <<>>
  BY <1>1, <1>2 DEF IsCommand, Quiet
<1>4. RunnerTypeOK'
  <2>1. \A s \in Streams : /\ written'[s] \in 0..Len(cmd'.output[s])
                           /\ taken'[s] \in 0..written'[s]
                           /\ written'[s] - taken'[s] <= PipeSize
                           /\ Len(buf'[s]) <= Cap
    BY <1>2, <1>3, RunnerConstants
  <2>2. IsCommand(cmd')
    BY <1>2
  <2>. QED BY <1>2, <2>1, <2>2 DEF RunnerInv, RunnerTypeOK, IsCommand
<1>5. Captures'
  BY <1>2, <1>3 DEF Captures
<1>6. Stages'
  BY <1>1, <1>2 DEF Stages, Quiet
<1>. QED BY <1>2, <1>4, <1>5, <1>6 DEF RunnerInv, InLoop

(* Nothing happens to the runner while others take steps.                  *)
LEMMA RunnerRests ==
    ASSUME RunnerInv, UNCHANGED runnerVars
    PROVE  RunnerInv'
<1>1. UNCHANGED <<cmd, child, signal, ends, written, taken, pump, queue, main, active, open,
                  buf, truncated, outcome, late>>
  BY Zenon DEF runnerVars, childVars, pumpVars, mainVars
<1>2. RunnerTypeOK'
  BY <1>1 DEF RunnerInv, RunnerTypeOK
<1>3. Quiet' <=> Quiet
  BY <1>1 DEF Quiet
<1>4. InLoop'
  <2>1. PipesDrain
    BY <1>1 DEF PipesDrain, RunnerInv, RunnerTypeOK
  <2>. QED BY <1>1, <2>1, LoopStable DEF RunnerInv
<1>5. Captures' /\ Stages'
  BY <1>1 DEF RunnerInv, Captures, Stages, Unkillable, Detaches
<1>. QED BY <1>1, <1>2, <1>3, <1>4, <1>5 DEF RunnerInv

(* What the runner promises follows from the invariant.                    *)
LEMMA RunnerPromises ==
    ASSUME RunnerInv
    PROVE  ResultFaithful /\ FlagsHonest /\ NothingLeftRunning
<1>1. ResultFaithful
  BY DEF RunnerInv, Captures, ResultFaithful
<1>2. FlagsHonest
  <2>1. ASSUME outcome = "returned", NEW s \in Streams PROVE ~(Len(buf[s]) < taken[s])
    <3>1. Len(buf[s]) = taken[s] /\ taken[s] \in Nat
      BY <2>1 DEF RunnerInv, Captures, RunnerTypeOK
    <3>. QED BY <3>1
  <2>. QED BY <2>1 DEF RunnerInv, Captures, FlagsHonest, Returned
<1>3. NothingLeftRunning
  BY DEF RunnerInv, Stages, NothingLeftRunning, Unkillable, Detaches
<1>. QED BY <1>1, <1>2, <1>3

(* run_command by itself, whatever commands it is given: the result is a   *)
(* prefix of what was written, the flags are true, and no subprocess that  *)
(* a signal can end is left behind.                                        *)
THEOREM RunsAreFaithful ==
    RunnerSpec => [](ResultFaithful /\ FlagsHonest /\ NothingLeftRunning)
<1>1. RunnerInv /\ [RunnerNext]_runnerVars => RunnerInv'
  <2> SUFFICES ASSUME RunnerInv, [RunnerNext]_runnerVars PROVE RunnerInv'
    OBVIOUS
  <2>1. CASE RunnerStep
    BY <2>1, RunnerStepInv
  <2>2. ASSUME NEW c \in Commands, Spawn(c) \/ Refuse(c) PROVE RunnerInv'
    <3>1. IsCommand(c)
      BY RunnerConstants
    <3>. QED BY <2>2, <3>1, SpawnInv, RefuseInv
  <2>3. CASE UNCHANGED runnerVars
    BY <2>3, RunnerRests
  <2>. QED BY <2>1, <2>2, <2>3 DEF RunnerNext
<1>. QED BY <1>1, QuietInv, RunnerPromises, PTL DEF RunnerSpec

============================================================================
