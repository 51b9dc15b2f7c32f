------------------------------ MODULE AsyncLogging ----------------------------
(***************************************************************************)
(* The log of the daemon: every thread appends its lines to a buffer in    *)
(* memory, a thread of its own collects the buffers and writes them to a   *)
(* file that is rolled by size and by day.                                 *)
(*                                                                         *)
(* A line is its number in the order of the appends and its length.        *)
(***************************************************************************)
EXTENDS Integers, Sequences, SequencesExt, FiniteSets

CONSTANTS
  Pieces,        \* what one << after the other adds to a line: [len, number]
  MaxNumericSize,  \* kMaxNumericSize: room a number asks for
  SmallBuffer,   \* kSmallBuffer: a line while it is formatted
  LargeBuffer,   \* kLargeBuffer: a buffer of lines
  MaxBuffers,    \* buffers the thread writes without leaving any out (25)
  RollSize, CheckEveryN, FlushInterval, RollPerSeconds,  \* of LogFile
  MaxLines, MaxTime                                      \* bounds

AsyncLoggingConstants ==
  /\ Pieces \subseteq Seq([len : Nat, number : BOOLEAN])
  /\ \A s \in Pieces : \A k \in DOMAIN s : s[k].number => s[k].len < MaxNumericSize
  /\ {SmallBuffer, LargeBuffer, MaxBuffers, RollPerSeconds, MaxNumericSize} \subseteq Nat \ {0}
  /\ SmallBuffer <= LargeBuffer
  /\ MaxBuffers >= 2
  /\ {RollSize, CheckEveryN, FlushInterval, MaxLines, MaxTime} \subseteq Nat

VARIABLES
  main,          \* "new", "starting", "running", "stopping", "exited"
  running,       \* running_
  pc,            \* of threadFunc()
  currentBuffer, nextBuffer,            \* nextBuffer: there is one
  buffers,
  newBuffer1, newBuffer2,               \* there is one, and it is empty
  buffersToWrite, i,
  appended,      \* lines appended so far
  out,           \* what the files hold, one after the other
  file,          \* [written, count, startOfPeriod, lastRoll, lastFlush, flushed]
  now

pool == <<currentBuffer, nextBuffer, buffers, newBuffer1, newBuffer2, buffersToWrite>>
vars == <<main, running, pc, pool, i, appended, out, file, now>>

Notice == [id |-> 0, len |-> 1]
Line == [id : 1..MaxLines, len : 0..SmallBuffer-1]

Length(buffer) == FoldSeq(LAMBDA l, n : l.len + n, 0, buffer)

\* FixedBuffer::append(): what does not fit is left out without a word.
Avail(buffer) == LargeBuffer - Length(buffer)
BufferAppend(buffer, l) == IF Avail(buffer) > l.len THEN Append(buffer, l) ELSE buffer

\* A text is left out if it does not fit, a number if the longest might not.
Fits(p, avail) == IF p.number THEN avail >= MaxNumericSize ELSE avail > p.len

\* A line grows by the pieces that still fit its own buffer; ~Logger() hands it over.
Logger(pieces) ==
  FoldLeft(LAMBDA n, p : IF Fits(p, SmallBuffer - n) THEN n + p.len ELSE n, 0, pieces)

------------------------------------------------------------------------------
(* LogFile                                                                 *)

Period(t) == (t \div RollPerSeconds) * RollPerSeconds

\* A second has one file: within it the roll is skipped.
RollFile(f) ==
  IF now > f.lastRoll
  THEN [f EXCEPT !.written = 0, !.lastRoll = now, !.lastFlush = now,
                 !.startOfPeriod = Period(now), !.flushed = TRUE]
  ELSE f

AppendUnlocked(f, len) ==
  LET g == [f EXCEPT !.written = @ + len, !.flushed = FALSE]
      counted == [g EXCEPT !.count = @ + 1]
      checked == [g EXCEPT !.count = 0]
  IN IF g.written > RollSize THEN RollFile(g)
     ELSE IF counted.count < CheckEveryN THEN counted
     ELSE IF Period(now) # g.startOfPeriod THEN RollFile(checked)
     ELSE IF now - g.lastFlush > FlushInterval
     THEN [checked EXCEPT !.lastFlush = now, !.flushed = TRUE]
     ELSE checked

OutputAppend(lines) ==
  /\ out' = out \o lines
  /\ file' = AppendUnlocked(file, Length(lines))

Flush == file' = [file EXCEPT !.flushed = TRUE]

------------------------------------------------------------------------------
(* The callers                                                             *)

Start ==
  /\ main = "new"
  /\ main' = "starting" /\ running' = TRUE /\ pc' = "begin"
  /\ UNCHANGED <<pool, i, appended, out, file, now>>

\* latch_.wait(), and main() makes asyncOutput() the output of every thread.
Started ==
  /\ main = "starting" /\ pc # "begin"
  /\ main' = "running"
  /\ UNCHANGED <<running, pc, pool, i, appended, out, file, now>>

AppendLine(l) ==
  IF Avail(currentBuffer) > l.len
  THEN /\ currentBuffer' = BufferAppend(currentBuffer, l)
       /\ UNCHANGED <<nextBuffer, buffers>>
  ELSE /\ buffers' = Append(buffers, currentBuffer)
       /\ nextBuffer' = FALSE
       /\ currentBuffer' = BufferAppend(<<>>, l)

Log ==
  /\ main \in {"running", "stopping"} /\ appended < MaxLines
  /\ appended' = appended + 1
  /\ \E p \in Pieces : AppendLine([id |-> appended', len |-> Logger(p)])
  /\ UNCHANGED <<main, running, pc, newBuffer1, newBuffer2, buffersToWrite, i, out, file, now>>

\* ~AsyncLogging() when main() returns.
Stop ==
  /\ main = "running"
  /\ main' = "stopping" /\ running' = FALSE
  /\ UNCHANGED <<pc, pool, i, appended, out, file, now>>

Join ==
  /\ main = "stopping" /\ pc = "end"
  /\ main' = "exited"
  /\ UNCHANGED <<running, pc, pool, i, appended, out, file, now>>

------------------------------------------------------------------------------
(* threadFunc()                                                            *)

CountDown ==
  /\ pc = "begin" /\ pc' = "top"
  /\ file' = RollFile(file)
  /\ UNCHANGED <<main, running, pool, i, appended, out, now>>

\* Mutant: the current buffer before those that were full.
CollectCurrentFirst ==
  /\ currentBuffer' = <<>> /\ newBuffer1' = FALSE
  /\ buffersToWrite' = <<currentBuffer>> \o buffers /\ buffers' = <<>>
  /\ nextBuffer' = TRUE
  /\ newBuffer2' = (newBuffer2 /\ nextBuffer)
  /\ pc' = "drop"

\* What happens under the lock once the wait is over.
Collect ==
  /\ currentBuffer' = <<>> /\ newBuffer1' = FALSE
  /\ buffersToWrite' = Append(buffers, currentBuffer) /\ buffers' = <<>>
  /\ nextBuffer' = TRUE
  /\ newBuffer2' = (newBuffer2 /\ nextBuffer)
  /\ pc' = "drop"

Top ==
  /\ pc = "top" /\ running
  /\ \/ buffers = <<>> /\ pc' = "wait" /\ UNCHANGED pool
     \/ buffers # <<>> /\ Collect
  /\ UNCHANGED <<main, running, i, appended, out, file, now>>

\* The wait ends with a notification or after flushInterval_.
Waited ==
  /\ pc = "wait" /\ Collect
  /\ UNCHANGED <<main, running, i, appended, out, file, now>>

\* Mutant: one buffer is kept, where two may have to be given back.
DropToOne ==
  /\ pc = "drop" /\ pc' = "write" /\ i' = 1
  /\ IF Len(buffersToWrite) > MaxBuffers
     THEN /\ OutputAppend(<<Notice>>)
          /\ buffersToWrite' = SubSeq(buffersToWrite, 1, 1)
     ELSE UNCHANGED <<out, file, buffersToWrite>>
  /\ UNCHANGED <<main, running, currentBuffer, nextBuffer, buffers, newBuffer1, newBuffer2,
                 appended, now>>

Drop ==
  /\ pc = "drop" /\ pc' = "write" /\ i' = 1
  /\ IF Len(buffersToWrite) > MaxBuffers
     THEN /\ OutputAppend(<<Notice>>)
          /\ buffersToWrite' = SubSeq(buffersToWrite, 1, 2)
     ELSE UNCHANGED <<out, file, buffersToWrite>>
  /\ UNCHANGED <<main, running, currentBuffer, nextBuffer, buffers, newBuffer1, newBuffer2,
                 appended, now>>

WriteBuffer ==
  /\ pc = "write" /\ i <= Len(buffersToWrite)
  /\ OutputAppend(buffersToWrite[i])
  /\ i' = i + 1
  /\ UNCHANGED <<main, running, pc, pool, appended, now>>

\* Of what was written two buffers are kept at most, and taken from the end.
GiveBack ==
  /\ pc = "write" /\ i > Len(buffersToWrite)
  /\ LET kept == IF Len(buffersToWrite) > 2 THEN 2 ELSE Len(buffersToWrite)
         left == IF newBuffer1 THEN kept ELSE kept - 1
     IN /\ newBuffer1' = (newBuffer1 \/ kept > 0)
        /\ newBuffer2' = (newBuffer2 \/ left > 0)
  /\ buffersToWrite' = <<>> /\ i' = 0
  /\ pc' = "top"
  /\ UNCHANGED <<main, running, currentBuffer, nextBuffer, buffers, appended, out, now>>

\* Mutant: the file is left to its flush interval.
RefillNoFlush == GiveBack /\ UNCHANGED file

Refill == GiveBack /\ Flush

Quit ==
  /\ pc = "top" /\ ~running
  /\ pc' = "end" /\ Flush
  /\ UNCHANGED <<main, running, pool, i, appended, out, now>>

LoggingThread ==
  CountDown \/ Top \/ Waited \/ Drop \/ WriteBuffer \/ Refill \/ Quit

Tick ==
  /\ now < MaxTime /\ now' = now + 1
  /\ UNCHANGED <<main, running, pc, pool, i, appended, out, file>>

------------------------------------------------------------------------------
Init ==
  /\ main = "new" /\ running = FALSE /\ pc = "new"
  /\ currentBuffer = <<>> /\ nextBuffer = TRUE /\ buffers = <<>>
  /\ newBuffer1 = TRUE /\ newBuffer2 = TRUE
  /\ buffersToWrite = <<>> /\ i = 0 /\ appended = 0 /\ out = <<>> /\ now = 1
  /\ file = [written |-> 0, count |-> 0, startOfPeriod |-> 0, lastRoll |-> 0,
             lastFlush |-> 0, flushed |-> TRUE]

Next == Start \/ Started \/ Log \/ Stop \/ Join \/ LoggingThread \/ Tick

Spec == Init /\ [][Next]_vars

------------------------------------------------------------------------------
(* Properties                                                              *)

\* assert(newBuffer1 && newBuffer1->length() == 0), assert(newBuffer2 && ...) and
\* assert(buffersToWrite.empty()) at the head of the loop, assert(!buffersToWrite.empty())
\* where buffers are taken back: none of them fails.
AssertionsHold ==
  /\ pc \in {"top", "wait"} => newBuffer1 /\ newBuffer2 /\ buffersToWrite = <<>>
  /\ pc = "drop" => buffersToWrite # <<>>
  /\ pc = "write" =>
       Len(buffersToWrite) >= (IF newBuffer1 THEN 0 ELSE 1) + (IF newBuffer2 THEN 0 ELSE 1)

Unwritten ==
  IF i = 0 THEN buffersToWrite ELSE SubSeq(buffersToWrite, i, Len(buffersToWrite))

\* The log implements LineLog: whatever thread appends, whenever the file is rolled,
\* lines reach the files in order, once, and those left out are announced.
Pending == FlattenSeq(Unwritten) \o FlattenSeq(buffers) \o currentBuffer
LL == INSTANCE LineLog WITH pending <- Pending, written <- out
KeepsLines == LL!LineLogSpec

\* While the daemon runs each line is on the disk in the end, or left out and announced:
\* append() relies on the thread to come back within flushInterval_ and to flush.
OnDisk(k) == file.flushed /\ \A n \in 1..Len(Pending) : Pending[n].id # k
LineReachesDisk == \A k \in 1..MaxLines : (running /\ appended >= k) ~> (OnDisk(k) \/ ~running)
==============================================================================
