--------------------------- MODULE ServicesProofs -----------------------------
(***************************************************************************)
(* The log, the commands of the UDP server, the dictionary, the            *)
(* configuration file and the orders in hexadecimal digits.                *)
(*                                                                         *)
(* The assertions of AsyncLogging.cpp never fail, whatever the sizes of    *)
(* the buffers, the lines and the number of buffers written at once (two   *)
(* at least).                                                              *)
(*                                                                         *)
(* The assertion that there is a buffer to take back is about the buffers  *)
(* to write; what makes it true is about those of the callers: nextBuffer  *)
(* is only missing while a full buffer waits.                              *)
(*                                                                         *)
(* The log implements LineLog. What is still to be written is the buffers  *)
(* laid end to end, and a step keeps the line at its head, or takes it     *)
(* off, or leaves out a stretch of it: flattening is defined by recursion  *)
(* over the number of buffers and the length of a line by a fold over its  *)
(* pieces, and what they do is shown by induction over that number, from   *)
(* a least counterexample.                                                 *)
(*                                                                         *)
(* The commands of the UDP server: a reply is to its request, what a       *)
(* sysset read back stays in force, and netset leaves one gateway.  No     *)
(* command but sysset writes to zhjs.conf, whatever fails.                 *)
(*                                                                         *)
(* The dictionary of the configuration file is a map, and finds a hole     *)
(* whenever it needs one.                                                  *)
(*                                                                         *)
(* The parser is a fold over the lines of a file; its states one after the *)
(* other show that the table has of each entry what the last line that     *)
(* makes it says.  So a reader gets that, a file that was saved reads as   *)
(* the table it was saved from, and a file that is rewritten by GLib reads *)
(* as before but for the settings that were written.                       *)
(*                                                                         *)
(* An order is cut into words by a fold over its characters, and read by   *)
(* a loop that takes one character or two at a time.  What relates them is *)
(* where the loop is when it has the bytes of the words cut so far, and    *)
(* that it takes no more steps than there are characters, since the two of *)
(* a byte take one step.  The dump of an answer is read by the same loop.  *)
(***************************************************************************)
EXTENDS AsyncLogging, UdpCommands, Configuration, HexOrders, SequenceTheorems,
        FiniteSetTheorems, WellFoundedInduction, TLAPS

\* The lines callers hand over.
LoggedLines == {[id |-> n, len |-> Logger(p)] : n \in 1..MaxLines, p \in Pieces}
Logged == Seq(LoggedLines)

PoolTypes ==
  /\ currentBuffer \in Logged /\ buffers \in Seq(Logged) /\ buffersToWrite \in Seq(Logged)
  /\ nextBuffer \in BOOLEAN /\ newBuffer1 \in BOOLEAN /\ newBuffer2 \in BOOLEAN
  /\ pc \in {"new", "begin", "top", "wait", "drop", "write", "end"}
  /\ appended \in 0..MaxLines

\* Nobody takes nextBuffer but to leave a full buffer.
NextTaken == nextBuffer \/ buffers # <<>>

Missing(newBuffer) == IF newBuffer THEN 0 ELSE 1

\* Between Collect and GiveBack as many buffers are in buffersToWrite as are missing.
Owed ==
  /\ pc \in {"new", "begin", "top", "wait"} => newBuffer1 /\ newBuffer2 /\ buffersToWrite = <<>>
  /\ pc \in {"drop", "write"} => Len(buffersToWrite) >= Missing(newBuffer1) + Missing(newBuffer2)
  /\ pc = "drop" => Len(buffersToWrite) >= 1

BufferInv == PoolTypes /\ NextTaken /\ Owed

NotStarted == main = "new" => pc = "new"

IInv == BufferInv /\ NotStarted

------------------------------------------------------------------------------

\* What append() makes of a buffer.
LEMMA AppendedLogged ==
  ASSUME NEW buffer \in Logged, NEW l \in LoggedLines
  PROVE  BufferAppend(buffer, l) \in Logged
BY DEF BufferAppend, Logged

LEMMA InitInv == ASSUME AsyncLoggingConstants, Init PROVE IInv
<1>1. PoolTypes
  BY DEF Init, PoolTypes, Logged, AsyncLoggingConstants
<1>2. NextTaken
  BY DEF Init, NextTaken
<1>3. Owed
  BY DEF Init, Owed
<1>4. NotStarted
  BY DEF Init, NotStarted
<1> QED BY <1>1, <1>2, <1>3, <1>4 DEF IInv, BufferInv

\* A caller appends: a buffer that is full is put to the others.
LEMMA LogStep == ASSUME AsyncLoggingConstants, BufferInv, Log PROVE BufferInv'
<1> USE DEF BufferInv, PoolTypes
<1>1. PICK p \in Pieces : AppendLine([id |-> appended', len |-> Logger(p)])
  BY DEF Log
<1> DEFINE l == [id |-> appended', len |-> Logger(p)]
<1>2. appended' = appended + 1 /\ appended' \in 1..MaxLines
  BY DEF Log, AsyncLoggingConstants
<1>3. l \in LoggedLines
  BY <1>2 DEF LoggedLines
<1>4. <<>> \in Logged
  BY DEF Logged
<1>5. currentBuffer' \in Logged /\ buffers' \in Seq(Logged) /\ nextBuffer' \in BOOLEAN /\ NextTaken'
  <2>1. CASE Avail(currentBuffer) > l.len
    <3>1. currentBuffer' = BufferAppend(currentBuffer, l) /\ buffers' = buffers /\ nextBuffer' = nextBuffer
      BY <1>1, <2>1 DEF AppendLine
    <3> QED BY <3>1, <1>3, AppendedLogged DEF NextTaken
  <2>2. CASE ~(Avail(currentBuffer) > l.len)
    <3>1. buffers' = Append(buffers, currentBuffer) /\ nextBuffer' = FALSE
          /\ currentBuffer' = BufferAppend(<<>>, l)
      BY <1>1, <2>2 DEF AppendLine
    <3>2. buffers' # <<>> /\ buffers' \in Seq(Logged)
      BY <3>1
    <3>3. currentBuffer' \in Logged
      BY <3>1, <1>3, <1>4, AppendedLogged
    <3>4. nextBuffer' \in BOOLEAN
      BY <3>1
    <3> QED BY <3>2, <3>3, <3>4 DEF NextTaken
  <2> QED BY <2>1, <2>2
<1>6. PoolTypes'
  BY <1>2, <1>5 DEF Log
<1>7. Owed'
  BY DEF Log, Owed, Missing
<1> QED BY <1>5, <1>6, <1>7

\* The buffers change hands; what is missing now is in buffersToWrite.
LEMMA CollectStep ==
  ASSUME BufferInv, pc \in {"top", "wait"}, Collect, UNCHANGED appended
  PROVE  BufferInv'
<1> USE DEF BufferInv, PoolTypes
<1>1. newBuffer1 /\ newBuffer2 /\ buffersToWrite = <<>>
  BY DEF Owed
<1>2. buffersToWrite' = Append(buffers, currentBuffer) /\ Len(buffersToWrite') = Len(buffers) + 1
  BY DEF Collect
<1>3. newBuffer1' = FALSE /\ newBuffer2' = nextBuffer
  BY <1>1, Zenon DEF Collect
<1>4. ~nextBuffer => Len(buffers) >= 1
  BY DEF NextTaken
<1>5. pc' = "drop" /\ nextBuffer' = TRUE /\ buffers' = <<>> /\ currentBuffer' = <<>>
  BY DEF Collect
<1>6. PoolTypes'
  <2>1. buffersToWrite' \in Seq(Logged) /\ buffers' \in Seq(Logged) /\ currentBuffer' \in Logged
    BY <1>2, <1>5 DEF Logged
  <2>2. newBuffer1' \in BOOLEAN /\ newBuffer2' \in BOOLEAN /\ nextBuffer' \in BOOLEAN
    BY <1>3, <1>5
  <2> QED BY <2>1, <2>2, <1>5
<1>7. Missing(newBuffer1') + Missing(newBuffer2') <= Len(buffersToWrite')
  <2>1. CASE nextBuffer
    BY <1>2, <1>3, <2>1 DEF Missing
  <2>2. CASE ~nextBuffer
    BY <1>2, <1>3, <1>4, <2>2 DEF Missing
  <2> QED BY <2>1, <2>2
<1>8. Owed'
  BY <1>2, <1>5, <1>7 DEF Owed
<1>9. NextTaken'
  BY <1>5 DEF NextTaken
<1> QED BY <1>6, <1>8, <1>9

\* Two buffers are left, and no more can be missing.
LEMMA DropStep == ASSUME AsyncLoggingConstants, BufferInv, Drop PROVE BufferInv'
<1> USE DEF BufferInv, PoolTypes
<1>1. /\ pc = "drop" /\ pc' = "write"
      /\ UNCHANGED <<currentBuffer, nextBuffer, buffers, newBuffer1, newBuffer2, appended>>
  BY DEF Drop
<1>2. MaxBuffers \in Nat /\ MaxBuffers >= 2
  BY DEF AsyncLoggingConstants
<1>3. /\ buffersToWrite' \in Seq(Logged)
      /\ Len(buffersToWrite') >= Missing(newBuffer1) + Missing(newBuffer2)
  <2>1. CASE Len(buffersToWrite) > MaxBuffers
    <3>1. buffersToWrite' = SubSeq(buffersToWrite, 1, 2)
      BY <2>1 DEF Drop
    <3>2. buffersToWrite' \in Seq(Logged) /\ Len(buffersToWrite') = 2
      BY <1>2, <2>1, <3>1
    <3> QED BY <3>2 DEF Missing
  <2>2. CASE ~(Len(buffersToWrite) > MaxBuffers)
    <3>1. buffersToWrite' = buffersToWrite
      BY <2>2 DEF Drop
    <3> QED BY <1>1, <3>1 DEF Owed
  <2> QED BY <2>1, <2>2
<1>4. Owed'
  BY <1>1, <1>3 DEF Owed, Missing
<1>5. NextTaken'
  BY <1>1 DEF NextTaken
<1> QED BY <1>1, <1>3, <1>4, <1>5

\* Both buffers are there again when the thread comes back to the head of its loop.
LEMMA RefillStep == ASSUME BufferInv, Refill PROVE BufferInv'
<1> USE DEF BufferInv, PoolTypes
<1> DEFINE stay == IF Len(buffersToWrite) > 2 THEN 2 ELSE Len(buffersToWrite)
           back == IF newBuffer1 THEN stay ELSE stay - 1
<1>1. /\ pc = "write" /\ pc' = "top" /\ buffersToWrite' = <<>>
      /\ newBuffer1' = (newBuffer1 \/ stay > 0) /\ newBuffer2' = (newBuffer2 \/ back > 0)
      /\ UNCHANGED <<currentBuffer, nextBuffer, buffers, appended>>
  BY DEF Refill, GiveBack
<1>2. Len(buffersToWrite) >= Missing(newBuffer1) + Missing(newBuffer2)
  BY <1>1 DEF Owed
<1>3. newBuffer1' = TRUE
  <2>1. ~newBuffer1 => stay > 0
    BY <1>2 DEF Missing
  <2> QED BY <1>1, <2>1, Zenon
<1>4. newBuffer2' = TRUE
  <2>1. ~newBuffer2 => back > 0
    <3>1. CASE newBuffer1
      BY <1>2, <3>1 DEF Missing
    <3>2. CASE ~newBuffer1
      BY <1>2, <3>2 DEF Missing
    <3> QED BY <3>1, <3>2
  <2> QED BY <1>1, <2>1, Zenon
<1>5. PoolTypes'
  BY <1>1, <1>3, <1>4
<1>6. Owed'
  BY <1>1, <1>3, <1>4 DEF Owed
<1>7. NextTaken'
  BY <1>1 DEF NextTaken
<1> QED BY <1>5, <1>6, <1>7

\* Steps that move no buffer.
LEMMA OtherStep ==
  ASSUME BufferInv, UNCHANGED <<pool, appended>>,
         \/ pc' = pc \/ pc' = "end"
         \/ pc \in {"new", "begin", "top", "wait"} /\ pc' \in {"begin", "top", "wait"}
  PROVE  BufferInv'
<1> USE DEF BufferInv, PoolTypes, pool
<1>1. PoolTypes'
  OBVIOUS
<1>2. NextTaken'
  BY DEF NextTaken
<1>3. Owed'
  BY DEF Owed, Missing
<1> QED BY <1>1, <1>2, <1>3

LEMMA NextBufferInv == ASSUME AsyncLoggingConstants, IInv, [Next]_vars PROVE BufferInv'
<1> USE DEF IInv
<1>1. CASE Start
  BY <1>1, OtherStep DEF Start, NotStarted
<1>2. CASE Started \/ Stop \/ Join \/ Tick
  BY <1>2, OtherStep DEF Started, Stop, Join, Tick
<1>3. CASE Log
  BY <1>3, LogStep
<1>4. CASE CountDown
  BY <1>4, OtherStep DEF CountDown
<1>5. CASE Top
  <2>1. CASE pc' = "wait" /\ UNCHANGED pool
    BY <1>5, <2>1, OtherStep DEF Top
  <2>2. CASE Collect
    BY <1>5, <2>2, CollectStep DEF Top
  <2> QED BY <1>5, <2>1, <2>2 DEF Top
<1>6. CASE Waited
  BY <1>6, CollectStep DEF Waited
<1>7. CASE Drop
  BY <1>7, DropStep
<1>8. CASE WriteBuffer
  BY <1>8, OtherStep DEF WriteBuffer
<1>9. CASE Refill
  BY <1>9, RefillStep
<1>10. CASE Quit
  BY <1>10, OtherStep DEF Quit
<1>11. CASE UNCHANGED vars
  BY <1>11, OtherStep DEF vars
<1> QED
  BY <1>1, <1>2, <1>3, <1>4, <1>5, <1>6, <1>7, <1>8, <1>9, <1>10, <1>11 DEF Next, LoggingThread

\* Only Start begins, and nobody comes back from it.
LEMMA NextNotStarted == ASSUME NotStarted, [Next]_vars PROVE NotStarted'
<1> USE DEF NotStarted
<1>1. CASE Start \/ Started \/ Log \/ Stop \/ Join \/ Tick
  BY <1>1 DEF Start, Started, Log, Stop, Join, Tick
<1>2. CASE LoggingThread
  <2>1. CASE CountDown \/ Top \/ Waited \/ Quit
    BY <2>1 DEF CountDown, Top, Waited, Quit
  <2>2. CASE Drop \/ WriteBuffer \/ Refill
    BY <2>2 DEF Drop, WriteBuffer, Refill, GiveBack
  <2> QED BY <1>2, <2>1, <2>2 DEF LoggingThread
<1>3. CASE UNCHANGED vars
  BY <1>3 DEF vars
<1> QED BY <1>1, <1>2, <1>3 DEF Next

LEMMA InvAsserts == ASSUME IInv PROVE AssertionsHold
<1>1. pc \in {"top", "wait"} => newBuffer1 /\ newBuffer2 /\ buffersToWrite = <<>>
  BY DEF IInv, BufferInv, Owed
<1>2. pc = "drop" => buffersToWrite # <<>>
  BY DEF IInv, BufferInv, Owed, PoolTypes
<1>3. pc = "write" =>
        Len(buffersToWrite) >= (IF newBuffer1 THEN 0 ELSE 1) + (IF newBuffer2 THEN 0 ELSE 1)
  BY DEF IInv, BufferInv, Owed, Missing
<1> QED BY <1>1, <1>2, <1>3 DEF AssertionsHold

\* The assertions of AsyncLogging::threadFunc() hold, whoever logs, however much, and
\* whether or not the thread keeps up: it never runs out of buffers to give back.
THEOREM AssertionsAlwaysHold ==
  ASSUME AsyncLoggingConstants
  PROVE  Spec => []AssertionsHold
<1>1. Init => IInv
  BY InitInv
<1>2. IInv /\ [Next]_vars => IInv'
  BY NextBufferInv, NextNotStarted DEF IInv
<1>3. IInv => AssertionsHold
  BY InvAsserts
<1> QED BY <1>1, <1>2, <1>3, PTL DEF Spec

------------------------------------------------------------------------------
(* Induction over numbers, by a least counterexample                         *)

Less == OpToRel(<, Nat)

LEMMA LessWellFounded == IsWellFoundedOn(Less, Nat)
  BY NatLessThanWellFounded DEF Less

LEMMA LessIs == Less = {p \in Nat \X Nat : p[1] < p[2]}
  BY DEF Less, OpToRel

LEMMA Least ==
  ASSUME NEW T \in SUBSET Nat, T # {}
  PROVE  \E n \in T : \A m \in T : n <= m
<1>1. PICK n \in T : \A m \in T : <<m, n>> \notin Less
  BY LessWellFounded, WFMin
<1>2. ASSUME NEW m \in T PROVE n <= m
  <2>1. ~(m < n)
    BY <1>1, LessIs
  <2>2. QED
    BY <2>1
<1>3. QED
  BY <1>2

\* A set of numbers with 0 and the successor of each of its members has them all.
LEMMA Induction ==
  ASSUME NEW T, 0 \in T, \A n \in Nat : n \in T => n + 1 \in T
  PROVE  Nat \subseteq T
<1> SUFFICES ASSUME Nat \ T # {} PROVE FALSE
  OBVIOUS
<1>1. PICK n \in Nat \ T : \A m \in Nat \ T : n <= m
  BY Least
<1>2. n # 0 /\ n - 1 \in Nat
  BY <1>1
<1>3. n - 1 \in T
  BY <1>1, <1>2
<1>4. (n - 1) + 1 \in T
  BY <1>2, <1>3
<1>5. QED
  BY <1>4

------------------------------------------------------------------------------
(* Flattening buffers                                                        *)

\* f[k] holds the contents of the first k of n buffers.
Flattens(f, seqs, n) ==
  f = [k \in 1..n |-> IF k = 1 THEN seqs[k] ELSE f[k - 1] \o seqs[k]]

LEMMA FlattenIs ==
  ASSUME NEW seqs
  PROVE  FlattenSeq(seqs) = IF Len(seqs) = 0 THEN seqs
                            ELSE (CHOOSE f : Flattens(f, seqs, Len(seqs)))[Len(seqs)]
  BY Zenon DEF FlattenSeq, Flattens

LEMMA FlattensExists ==
  ASSUME NEW seqs
  PROVE  \A n \in Nat : \E f : Flattens(f, seqs, n)
<1> DEFINE T == {n \in Nat : \E f : Flattens(f, seqs, n)}
<1>1. 0 \in T
  <2>1. Flattens([k \in {} |-> <<>>], seqs, 0)
    BY DEF Flattens
  <2>2. QED
    BY <2>1
<1>2. ASSUME NEW n \in Nat, n \in T PROVE n + 1 \in T
  <2>1. PICK f : Flattens(f, seqs, n)
    BY <1>2
  <2> DEFINE value == IF n = 0 THEN seqs[1] ELSE f[n] \o seqs[n + 1]
             g == [k \in 1..(n + 1) |-> IF k = n + 1 THEN value ELSE f[k]]
  <2>2. ASSUME NEW k \in 1..(n + 1)
        PROVE  g[k] = IF k = 1 THEN seqs[k] ELSE g[k - 1] \o seqs[k]
    <3>1. CASE k = n + 1
      BY <3>1
    <3>2. CASE k # n + 1
      <4>1. k \in 1..n /\ (k # 1 => k - 1 \in 1..n)
        BY <3>2
      <4>2. f[k] = IF k = 1 THEN seqs[k] ELSE f[k - 1] \o seqs[k]
        BY <2>1, <4>1, Zenon DEF Flattens
      <4>3. g[k] = f[k] /\ (k # 1 => g[k - 1] = f[k - 1])
        BY <4>1
      <4>4. QED
        BY <4>2, <4>3
    <3>3. QED
      BY <3>1, <3>2
  <2>3. Flattens(g, seqs, n + 1)
    BY <2>2, Zenon DEF Flattens
  <2>4. QED
    BY <2>3
<1> HIDE DEF T
<1>3. Nat \subseteq T
  BY <1>1, <1>2, Induction
<1>4. QED
  BY <1>3 DEF T

\* What the k-th entry is; there is only one such function.
LEMMA FlattensAt ==
  ASSUME NEW seqs, NEW n \in Nat, NEW f, Flattens(f, seqs, n), NEW k \in 1..n
  PROVE  f[k] = IF k = 1 THEN seqs[k] ELSE f[k - 1] \o seqs[k]
  BY Zenon DEF Flattens

\* Two sequences with the same beginning flatten to the same there.
LEMMA FlattensSame ==
  ASSUME NEW s, NEW t, NEW m \in Nat, NEW n \in Nat, NEW f, NEW g,
         Flattens(f, s, m), Flattens(g, t, n),
         m <= n, \A k \in 1..m : s[k] = t[k]
  PROVE  \A k \in 1..m : f[k] = g[k]
<1> DEFINE T == {k \in Nat : k \in 1..m => f[k] = g[k]}
<1>1. 0 \in T
  OBVIOUS
<1>2. ASSUME NEW k \in Nat, k \in T PROVE k + 1 \in T
  <2> SUFFICES ASSUME k + 1 \in 1..m PROVE f[k + 1] = g[k + 1]
    OBVIOUS
  <2>1. k + 1 \in 1..m /\ k + 1 \in 1..n /\ s[k + 1] = t[k + 1]
    OBVIOUS
  <2>2. /\ f[k + 1] = IF k + 1 = 1 THEN s[k + 1] ELSE f[(k + 1) - 1] \o s[k + 1]
        /\ g[k + 1] = IF k + 1 = 1 THEN t[k + 1] ELSE g[(k + 1) - 1] \o t[k + 1]
    BY <2>1, FlattensAt
  <2>3. (k + 1) - 1 = k /\ (k + 1 # 1 => f[k] = g[k])
    BY <1>2
  <2>4. QED
    BY <2>1, <2>2, <2>3
<1> HIDE DEF T
<1>3. Nat \subseteq T
  BY <1>1, <1>2, Induction
<1>4. QED
  BY <1>3 DEF T

\* The entries of a flattening function are sequences.
LEMMA FlattensType ==
  ASSUME NEW S, NEW s \in Seq(Seq(S)), NEW f, Flattens(f, s, Len(s))
  PROVE  \A k \in 1..Len(s) : f[k] \in Seq(S)
<1> DEFINE T == {k \in Nat : k \in 1..Len(s) => f[k] \in Seq(S)}
<1>1. 0 \in T
  OBVIOUS
<1>2. ASSUME NEW k \in Nat, k \in T PROVE k + 1 \in T
  <2> SUFFICES ASSUME k + 1 \in 1..Len(s) PROVE f[k + 1] \in Seq(S)
    OBVIOUS
  <2>1. s[k + 1] \in Seq(S)
    OBVIOUS
  <2>2. f[k + 1] = IF k + 1 = 1 THEN s[k + 1] ELSE f[(k + 1) - 1] \o s[k + 1]
    BY FlattensAt
  <2>3. (k + 1) - 1 = k /\ (k + 1 # 1 => f[k] \in Seq(S))
    BY <1>2
  <2>4. QED
    BY <2>1, <2>2, <2>3
<1> HIDE DEF T
<1>3. Nat \subseteq T
  BY <1>1, <1>2, Induction
<1>4. QED
  BY <1>3 DEF T

\* FlattenSeq by such a function.
LEMMA FlattenBy ==
  ASSUME NEW S, NEW s \in Seq(Seq(S)), s # <<>>
  PROVE  \E f : Flattens(f, s, Len(s)) /\ FlattenSeq(s) = f[Len(s)]
<1>1. Len(s) \in Nat /\ Len(s) # 0
  OBVIOUS
<1>2. \E f : Flattens(f, s, Len(s))
  BY <1>1, FlattensExists
<1>3. Flattens(CHOOSE f : Flattens(f, s, Len(s)), s, Len(s))
  BY <1>2
<1>4. QED
  BY <1>1, <1>3, FlattenIs

LEMMA FlattenEmpty == FlattenSeq(<<>>) = <<>>
  BY FlattenIs

LEMMA FlattenType ==
  ASSUME NEW S, NEW s \in Seq(Seq(S))
  PROVE  FlattenSeq(s) \in Seq(S)
<1>1. CASE s = <<>>
  <2>1. FlattenSeq(s) = <<>>
    BY <1>1, FlattenEmpty
  <2>2. QED
    BY <2>1
<1>2. CASE s # <<>>
  <2>1. PICK f : Flattens(f, s, Len(s)) /\ FlattenSeq(s) = f[Len(s)]
    BY <1>2, FlattenBy
  <2>2. Len(s) \in 1..Len(s)
    BY <1>2
  <2>3. QED
    BY <2>1, <2>2, FlattensType
<1>3. QED
  BY <1>1, <1>2

\* One more buffer.
LEMMA FlattenAppend ==
  ASSUME NEW S, NEW s \in Seq(Seq(S)), NEW x \in Seq(S)
  PROVE  FlattenSeq(Append(s, x)) = FlattenSeq(s) \o x
<1> DEFINE t == Append(s, x)
<1>1. /\ t \in Seq(Seq(S)) /\ t # <<>> /\ Len(t) = Len(s) + 1 /\ Len(s) \in Nat
      /\ t[Len(t)] = x /\ \A k \in 1..Len(s) : t[k] = s[k]
  <2>1. ASSUME NEW B, s \in Seq(B), x \in B
        PROVE  /\ t \in Seq(B) /\ t # <<>> /\ Len(t) = Len(s) + 1 /\ Len(s) \in Nat
               /\ t[Len(t)] = x /\ \A k \in 1..Len(s) : t[k] = s[k]
    BY <2>1
  <2>2. QED
    BY <2>1
<1> HIDE DEF t
<1>2. PICK g : Flattens(g, t, Len(t)) /\ FlattenSeq(t) = g[Len(t)]
  BY <1>1, FlattenBy
<1>3. Len(t) \in Nat /\ Len(t) \in 1..Len(t)
  BY <1>1
<1>4. g[Len(t)] = IF Len(t) = 1 THEN x ELSE g[Len(t) - 1] \o x
  BY <1>1, <1>2, <1>3, FlattensAt
<1>5. CASE s = <<>>
  <2>1. FlattenSeq(s) = <<>> /\ Len(t) = 1
    BY <1>1, <1>5, FlattenEmpty
  <2>2. QED
    BY <1>2, <1>4, <2>1 DEF t
<1>6. CASE s # <<>>
  <2>1. PICK f : Flattens(f, s, Len(s)) /\ FlattenSeq(s) = f[Len(s)]
    BY <1>6, FlattenBy
  <2>2. Len(s) \in 1..Len(s) /\ Len(s) <= Len(t)
    BY <1>1, <1>6
  <2>3. \A k \in 1..Len(s) : f[k] = g[k]
    <3>1. ASSUME NEW m \in Nat, NEW n \in Nat, m = Len(s), n = Len(t)
          PROVE  \A k \in 1..m : f[k] = g[k]
      <4>1. Flattens(f, s, m) /\ Flattens(g, t, n)
        BY <1>2, <2>1, <3>1
      <4>2. m <= n /\ \A k \in 1..m : s[k] = t[k]
        BY <1>1, <3>1
      <4>3. QED
        BY <4>1, <4>2, FlattensSame
    <3>2. QED
      BY <1>1, <1>3, <3>1
  <2>4. Len(t) - 1 = Len(s) /\ Len(t) # 1
    BY <1>1, <2>2
  <2>5. QED
    BY <1>2, <1>4, <2>1, <2>2, <2>3, <2>4 DEF t
<1>7. QED
  BY <1>5, <1>6

\* The contents of buffers, and of more of them.
LEMMA FlattenConcat ==
  ASSUME NEW S, NEW s \in Seq(Seq(S)), NEW t \in Seq(Seq(S))
  PROVE  FlattenSeq(s \o t) = FlattenSeq(s) \o FlattenSeq(t)
<1> DEFINE T == {n \in Nat : \A u \in Seq(Seq(S)) :
                   Len(u) = n => FlattenSeq(s \o u) = FlattenSeq(s) \o FlattenSeq(u)}
<1>1. 0 \in T
  <2> SUFFICES ASSUME NEW u \in Seq(Seq(S)), Len(u) = 0
               PROVE  FlattenSeq(s \o u) = FlattenSeq(s) \o FlattenSeq(u)
    OBVIOUS
  <2>1. u = <<>> /\ s \o u = s /\ FlattenSeq(s) \o <<>> = FlattenSeq(s)
    BY FlattenType
  <2>2. QED
    BY <2>1, FlattenEmpty
<1>2. ASSUME NEW n \in Nat, n \in T PROVE n + 1 \in T
  <2> SUFFICES ASSUME NEW u \in Seq(Seq(S)), Len(u) = n + 1
               PROVE  FlattenSeq(s \o u) = FlattenSeq(s) \o FlattenSeq(u)
    OBVIOUS
  <2> DEFINE B == Seq(S)
  <2>0. s \in Seq(B) /\ u \in Seq(B) /\ u # <<>>
    OBVIOUS
  <2> HIDE DEF B
  <2>1. PICK v \in Seq(B), x \in B : u = Append(v, x)
    BY <2>0, SequenceEmptyOrAppend
  <2>2. Len(v) = n /\ s \o v \in Seq(B) /\ s \o u = Append(s \o v, x)
    BY <2>0, <2>1
  <2> USE DEF B
  <2>3. FlattenSeq(s \o v) = FlattenSeq(s) \o FlattenSeq(v)
    BY <1>2, <2>2
  <2>4. FlattenSeq(s \o u) = (FlattenSeq(s) \o FlattenSeq(v)) \o x
    BY <2>2, <2>3, FlattenAppend
  <2>5. FlattenSeq(u) = FlattenSeq(v) \o x
    BY <2>1, FlattenAppend
  <2>6. FlattenSeq(s) \in Seq(S) /\ FlattenSeq(v) \in Seq(S) /\ x \in Seq(S)
    BY FlattenType
  <2>7. (FlattenSeq(s) \o FlattenSeq(v)) \o x = FlattenSeq(s) \o (FlattenSeq(v) \o x)
    <3>1. ASSUME NEW p \in Seq(S), NEW q \in Seq(S), NEW r \in Seq(S)
          PROVE  (p \o q) \o r = p \o (q \o r)
      BY ConcatAssociative, SMTT(60)
    <3>2. QED
      BY <2>6, <3>1
  <2>8. QED
    BY <2>4, <2>5, <2>7
<1> HIDE DEF T
<1>3. Nat \subseteq T
  BY <1>1, <1>2, Induction
<1>4. Len(t) \in T
  BY <1>3
<1>5. QED
  BY <1>4 DEF T

LEMMA FlattenOne ==
  ASSUME NEW S, NEW x \in Seq(S)
  PROVE  FlattenSeq(<<x>>) = x
<1>1. <<x>> = Append(<<>>, x) /\ <<>> \in Seq(Seq(S))
  OBVIOUS
<1>2. FlattenSeq(<<x>>) = FlattenSeq(<<>>) \o x
  BY <1>1, FlattenAppend
<1>3. <<>> \o x = x
  OBVIOUS
<1>4. QED
  BY <1>2, <1>3, FlattenEmpty
------------------------------------------------------------------------------
(* Folding over the pieces of a line                                         *)

\* What the pieces have filled of a line after one more.
Filled(n, p) == IF Fits(p, SmallBuffer - n) THEN n + p.len ELSE n

\* g[s] is what the pieces numbered s fill.
Fills(g, pieces, n) ==
  g = [s \in SUBSET (1..n) |->
         IF s = {} THEN 0 ELSE Filled(g[s \ {Max(s)}], pieces[Max(s)])]

LEMMA LoggerIs ==
  ASSUME NEW pieces, NEW n \in Nat, DOMAIN pieces = 1..n
  PROVE  Logger(pieces) = (CHOOSE g : Fills(g, pieces, n))[1..n]
  BY Zenon DEF Logger, FoldLeft, MapThenFoldSet, Fills, Filled

LEMMA FillsExists ==
  ASSUME NEW pieces
  PROVE  \A n \in Nat : \E g : Fills(g, pieces, n)
<1> DEFINE T == {n \in Nat : \E g : Fills(g, pieces, n)}
<1>1. 0 \in T
  <2> DEFINE g == [s \in SUBSET (1..0) |-> 0]
  <2>1. \A s \in SUBSET (1..0) : s = {}
    OBVIOUS
  <2>2. Fills(g, pieces, 0)
    BY <2>1 DEF Fills
  <2>3. QED
    BY <2>2
<1>2. ASSUME NEW n \in Nat, n \in T PROVE n + 1 \in T
  <2>1. PICK g : Fills(g, pieces, n)
    BY <1>2
  <2> DEFINE h == [s \in SUBSET (1..(n + 1)) |->
                     IF n + 1 \in s THEN Filled(g[s \ {n + 1}], pieces[n + 1]) ELSE g[s]]
  <2>2. ASSUME NEW s \in SUBSET (1..(n + 1))
        PROVE  h[s] = IF s = {} THEN 0 ELSE Filled(h[s \ {Max(s)}], pieces[Max(s)])
    <3>1. CASE n + 1 \in s
      <4>1. Max(s) = n + 1
        <5>1. /\ n + 1 \in s /\ \A y \in s : n + 1 >= y
              /\ \A x \in s : (\A y \in s : x >= y) => x = n + 1
          BY <3>1
        <5>2. QED
          BY <5>1 DEF Max
      <4>2. h[s \ {n + 1}] = g[s \ {n + 1}]
        OBVIOUS
      <4>3. QED
        BY <3>1, <4>1, <4>2
    <3>2. CASE n + 1 \notin s
      <4>1. s \in SUBSET (1..n) /\ s \ {Max(s)} \in SUBSET (1..n)
        <5>1. \A y \in s : y \in 1..n
          BY <3>2
        <5>2. QED
          BY <5>1
      <4>2. h[s] = g[s] /\ h[s \ {Max(s)}] = g[s \ {Max(s)}]
        BY <3>2, <4>1
      <4>3. g[s] = IF s = {} THEN 0 ELSE Filled(g[s \ {Max(s)}], pieces[Max(s)])
        BY <2>1, <4>1, Zenon DEF Fills
      <4>4. QED
        BY <4>2, <4>3
    <3>3. QED
      BY <3>1, <3>2
  <2>3. Fills(h, pieces, n + 1)
    BY <2>2, Zenon DEF Fills
  <2>4. QED
    BY <2>3
<1> HIDE DEF T
<1>3. Nat \subseteq T
  BY <1>1, <1>2, Induction
<1>4. QED
  BY <1>3 DEF T

\* A line is never longer than the buffer it is formatted in.
LEMMA LoggerShort ==
  ASSUME AsyncLoggingConstants, NEW pieces \in Pieces
  PROVE  Logger(pieces) \in 0..SmallBuffer - 1
<1>1. /\ pieces \in Seq([len : Nat, number : BOOLEAN])
      /\ SmallBuffer \in Nat \ {0} /\ MaxNumericSize \in Nat
      /\ \A k \in DOMAIN pieces : pieces[k].number => pieces[k].len < MaxNumericSize
  BY DEF AsyncLoggingConstants
<1> DEFINE n == Len(pieces)
<1>2. n \in Nat /\ DOMAIN pieces = 1..n
  BY <1>1
<1> HIDE DEF n
<1>3. PICK g : Fills(g, pieces, n) /\ Logger(pieces) = g[1..n]
  <2>1. Fills(CHOOSE g : Fills(g, pieces, n), pieces, n)
    BY <1>2, FillsExists
  <2>2. QED
    BY <1>2, <2>1, LoggerIs
<1> DEFINE T == {k \in Nat : k <= n => g[1..k] \in 0..SmallBuffer - 1}
<1>4. 0 \in T
  <2>1. 1..0 = {} /\ {} \in SUBSET (1..n)
    OBVIOUS
  <2>2. g[{}] = 0
    BY <1>3, <2>1, Zenon DEF Fills
  <2>3. QED
    BY <1>1, <2>1, <2>2
<1>5. ASSUME NEW k \in Nat, k \in T PROVE k + 1 \in T
  <2> SUFFICES ASSUME k + 1 <= n PROVE g[1..(k + 1)] \in 0..SmallBuffer - 1
    OBVIOUS
  <2>1. 1..(k + 1) \in SUBSET (1..n) /\ 1..(k + 1) # {}
    <3>1. 1 \in 1..(k + 1) /\ \A y \in 1..(k + 1) : y \in 1..n
      BY <1>2
    <3>2. QED
      BY <3>1
  <2>2. Max(1..(k + 1)) = k + 1
    <3>1. /\ k + 1 \in 1..(k + 1) /\ \A y \in 1..(k + 1) : k + 1 >= y
          /\ \A x \in 1..(k + 1) : (\A y \in 1..(k + 1) : x >= y) => x = k + 1
      OBVIOUS
    <3>2. QED
      BY <3>1 DEF Max
  <2>3. (1..(k + 1)) \ {k + 1} = 1..k
    OBVIOUS
  <2>4. g[1..(k + 1)] = Filled(g[(1..(k + 1)) \ {Max(1..(k + 1))}], pieces[Max(1..(k + 1))])
    BY <1>3, <2>1, Zenon DEF Fills
  <2>5. g[1..(k + 1)] = Filled(g[1..k], pieces[k + 1])
    BY <2>2, <2>3, <2>4
  <2>6. g[1..k] \in 0..SmallBuffer - 1
    BY <1>2, <1>5
  <2>7. /\ pieces[k + 1] \in [len : Nat, number : BOOLEAN]
        /\ pieces[k + 1].number => pieces[k + 1].len < MaxNumericSize
    <3>1. k + 1 \in DOMAIN pieces
      BY <1>2
    <3>2. pieces[k + 1] \in [len : Nat, number : BOOLEAN]
      BY <1>1, <1>2, <3>1, ElementOfSeq DEF n
    <3>3. QED
      BY <1>1, <3>1, <3>2
  <2>8. QED
    BY <1>1, <2>5, <2>6, <2>7, SMTT(30) DEF Filled, Fits
<1> HIDE DEF T
<1>6. Nat \subseteq T
  BY <1>4, <1>5, Induction
<1>7. QED
  BY <1>2, <1>3, <1>6 DEF T

\* g[s] is the length of the lines numbered s.
Measures(g, buffer, numbers) ==
  g = [s \in SUBSET numbers |->
         IF s = {} THEN 0
         ELSE LET x == CHOOSE y \in s : TRUE IN buffer[x].len + g[s \ {x}]]

LEMMA LengthEmpty == Length(<<>>) = 0
<1>1. Length(<<>>) = (CHOOSE g : Measures(g, <<>>, DOMAIN <<>>))[DOMAIN <<>>]
  BY Zenon DEF Length, FoldSeq, FoldFunction, FoldFunctionOnSet, MapThenFoldSet, Measures
<1>2. DOMAIN <<>> = {}
  OBVIOUS
<1>3. \E g : Measures(g, <<>>, {})
  <2> DEFINE g == [s \in SUBSET {} |-> 0]
  <2>1. Measures(g, <<>>, {})
    BY DEF Measures
  <2>2. QED
    BY <2>1
<1>4. ASSUME NEW g, Measures(g, <<>>, {}) PROVE g[{}] = 0
  BY <1>4, Zenon DEF Measures
<1>5. QED
  BY <1>1, <1>2, <1>3, <1>4
------------------------------------------------------------------------------
(* The log keeps lines                                                       *)

Recorded == LoggedLines \cup {Notice}

\* A buffer that is put to the others holds lines, and so does the current one after it.
BuffersFull ==
  /\ \A k \in DOMAIN buffers : buffers[k] # <<>>
  /\ buffers # <<>> => currentBuffer # <<>>

\* Where buffers may be left out, all hold lines.
CollectedFull ==
  pc = "drop" /\ Len(buffersToWrite) >= 2 =>
    \A k \in DOMAIN buffersToWrite : buffersToWrite[k] # <<>>

IndexInv ==
  /\ pc # "write" => i = 0
  /\ pc = "write" => i \in 1..Len(buffersToWrite) + 1

KeepInv == out \in Seq(Recorded) /\ BuffersFull /\ CollectedFull /\ IndexInv

LEMMA KeepInit == Init => KeepInv
<1> SUFFICES ASSUME Init PROVE KeepInv
  OBVIOUS
<1>1. out \in Seq(Recorded)
  BY DEF Init
<1>2. BuffersFull /\ CollectedFull /\ IndexInv
  BY DEF Init, BuffersFull, CollectedFull, IndexInv
<1>3. QED
  BY <1>1, <1>2 DEF KeepInv

\* The line that is appended next, and its place.
LEMMA LogAppends ==
  ASSUME AsyncLoggingConstants, BufferInv, Log
  PROVE  \E l \in LoggedLines :
           /\ l \in Line
           /\ \/ currentBuffer' = Append(currentBuffer, l) /\ UNCHANGED buffers
              \/ /\ currentBuffer' = <<l>> /\ buffers' = Append(buffers, currentBuffer)
                 /\ currentBuffer # <<>>
<1>1. PICK p \in Pieces : AppendLine([id |-> appended', len |-> Logger(p)])
  BY DEF Log
<1> DEFINE l == [id |-> appended', len |-> Logger(p)]
<1>2. appended' \in 1..MaxLines
  BY DEF Log, BufferInv, PoolTypes, AsyncLoggingConstants
<1>3. l \in LoggedLines
  BY <1>2 DEF LoggedLines
<1>4. l.len \in 0..SmallBuffer - 1
  BY LoggerShort
<1>5. l \in Line
  BY <1>2, <1>4 DEF Line
<1>6. Avail(<<>>) > l.len
  <2>1. Avail(<<>>) = LargeBuffer - 0
    BY LengthEmpty DEF Avail
  <2>2. SmallBuffer \in Nat /\ LargeBuffer \in Nat /\ SmallBuffer <= LargeBuffer
    BY DEF AsyncLoggingConstants
  <2> HIDE DEF l
  <2>3. QED
    BY <1>4, <2>1, <2>2
<1> HIDE DEF l
<1>7. AppendLine(l)
  BY <1>1 DEF l
<1>8. CASE Avail(currentBuffer) > l.len
  <2>1. currentBuffer' = Append(currentBuffer, l) /\ UNCHANGED buffers
    BY <1>7, <1>8 DEF AppendLine, BufferAppend
  <2>2. QED
    BY <1>3, <1>5, <2>1
<1>9. CASE ~(Avail(currentBuffer) > l.len)
  <2>1. currentBuffer # <<>>
    BY <1>6, <1>9
  <2>2. currentBuffer' = BufferAppend(<<>>, l) /\ buffers' = Append(buffers, currentBuffer)
    BY <1>7, <1>9 DEF AppendLine
  <2>3. currentBuffer' = <<l>>
    BY <1>6, <2>2 DEF BufferAppend
  <2>4. QED
    BY <1>3, <1>5, <2>1, <2>2, <2>3
<1>10. QED
  BY <1>8, <1>9

LEMMA LogKeeps ==
  ASSUME AsyncLoggingConstants, BufferInv, KeepInv, Log
  PROVE  KeepInv'
<1>1. PICK l \in LoggedLines :
        \/ currentBuffer' = Append(currentBuffer, l) /\ UNCHANGED buffers
        \/ /\ currentBuffer' = <<l>> /\ buffers' = Append(buffers, currentBuffer)
           /\ currentBuffer # <<>>
  BY LogAppends
<1>2. UNCHANGED <<pc, buffersToWrite, i, out>>
  BY DEF Log
<1>3. currentBuffer \in Logged /\ buffers \in Seq(Logged)
  BY DEF BufferInv, PoolTypes
<1>4. currentBuffer' # <<>>
  <2>1. currentBuffer \in Seq(LoggedLines)
    BY <1>3 DEF Logged
  <2>2. Append(currentBuffer, l) # <<>>
    BY <2>1, AppendProperties
  <2>3. <<l>> # <<>>
    OBVIOUS
  <2>4. QED
    BY <1>1, <2>2, <2>3
<1>5. \A k \in DOMAIN buffers' : buffers'[k] # <<>>
  <2>1. CASE UNCHANGED buffers
    BY <2>1 DEF KeepInv, BuffersFull
  <2>2. CASE buffers' = Append(buffers, currentBuffer) /\ currentBuffer # <<>>
    <3>1. DOMAIN buffers' = 1..Len(buffers) + 1 /\ DOMAIN buffers = 1..Len(buffers)
          /\ Len(buffers) \in Nat
      BY <1>3, <2>2
    <3>2. ASSUME NEW k \in DOMAIN buffers' PROVE buffers'[k] # <<>>
      <4>1. CASE k = Len(buffers) + 1
        BY <1>3, <2>2, <4>1
      <4>2. CASE k # Len(buffers) + 1
        <5>1. k \in DOMAIN buffers
          BY <3>1, <4>2
        <5>2. buffers'[k] = buffers[k]
          BY <1>3, <2>2, <5>1
        <5>3. QED
          BY <5>1, <5>2 DEF KeepInv, BuffersFull
      <4>3. QED
        BY <4>1, <4>2
    <3>3. QED
      BY <3>2
  <2>3. QED
    BY <1>1, <2>1, <2>2
<1>6. QED
  BY <1>2, <1>4, <1>5 DEF KeepInv, BuffersFull, CollectedFull, IndexInv

LEMMA CollectKeeps ==
  ASSUME BufferInv, KeepInv, pc \in {"top", "wait"}, Collect, UNCHANGED <<i, out>>
  PROVE  KeepInv'
<1>1. /\ buffersToWrite' = Append(buffers, currentBuffer)
      /\ buffers' = <<>> /\ pc' = "drop"
  BY DEF Collect
<1>2. buffers \in Seq(Logged)
  BY DEF BufferInv, PoolTypes
<1>3. BuffersFull' /\ IndexInv' /\ out' \in Seq(Recorded)
  BY <1>1 DEF BuffersFull, IndexInv, KeepInv
<1>4. ASSUME Len(buffersToWrite') >= 2, NEW k \in DOMAIN buffersToWrite'
      PROVE  buffersToWrite'[k] # <<>>
  <2>1. /\ DOMAIN buffersToWrite' = 1..Len(buffers) + 1 /\ DOMAIN buffers = 1..Len(buffers)
        /\ Len(buffers) \in Nat /\ Len(buffersToWrite') = Len(buffers) + 1
    BY <1>1, <1>2
  <2>2. currentBuffer # <<>>
    BY <1>2, <1>4, <2>1 DEF KeepInv, BuffersFull
  <2>3. CASE k = Len(buffers) + 1
    BY <1>1, <1>2, <2>2, <2>3
  <2>4. CASE k # Len(buffers) + 1
    <3>1. k \in DOMAIN buffers
      BY <1>4, <2>1, <2>4
    <3>2. buffersToWrite'[k] = buffers[k]
      BY <1>1, <1>2, <3>1
    <3>3. QED
      BY <3>1, <3>2 DEF KeepInv, BuffersFull
  <2>5. QED
    BY <2>3, <2>4
<1>5. QED
  BY <1>1, <1>3, <1>4 DEF KeepInv, CollectedFull

LEMMA NoticeRecorded ==
  ASSUME out \in Seq(Recorded)
  PROVE  out \o <<Notice>> \in Seq(Recorded) /\ out \o <<Notice>> = Append(out, Notice)
<1>1. Notice \in Recorded
  BY DEF Recorded
<1>2. QED
  BY <1>1

LEMMA NextKeeps ==
  ASSUME AsyncLoggingConstants, IInv, KeepInv, [Next]_vars
  PROVE  KeepInv'
<1> USE DEF IInv
<1>1. ASSUME UNCHANGED <<pool, i, out>>,
             pc' = pc \/ (pc # "write" /\ pc' \notin {"write", "drop"})
      PROVE  KeepInv'
  BY <1>1 DEF pool, KeepInv, BuffersFull, CollectedFull, IndexInv
<1>2. CASE Start
  BY <1>1, <1>2 DEF Start, NotStarted
<1>3. CASE Started \/ Stop \/ Join \/ Tick
  BY <1>1, <1>3 DEF Started, Stop, Join, Tick
<1>4. CASE Log
  BY <1>4, LogKeeps
<1>5. CASE CountDown \/ Quit
  BY <1>1, <1>5 DEF CountDown, Quit
<1>6. CASE Top
  <2>1. CASE pc' = "wait" /\ UNCHANGED pool
    BY <1>1, <1>6, <2>1 DEF Top
  <2>2. CASE Collect
    BY <1>6, <2>2, CollectKeeps DEF Top
  <2>3. QED
    BY <1>6, <2>1, <2>2 DEF Top
<1>7. CASE Waited
  BY <1>7, CollectKeeps DEF Waited
<1>8. CASE Drop
  <2>1. /\ pc' = "write" /\ i' = 1 /\ UNCHANGED <<currentBuffer, buffers>>
    BY <1>8 DEF Drop
  <2>2. out' \in Seq(Recorded) /\ buffersToWrite' \in Seq(Logged)
    <3>1. CASE UNCHANGED <<out, buffersToWrite>>
      BY <3>1 DEF KeepInv, BufferInv, PoolTypes
    <3>2. CASE OutputAppend(<<Notice>>) /\ buffersToWrite' = SubSeq(buffersToWrite, 1, 2)
               /\ Len(buffersToWrite) > MaxBuffers
      <4>1. MaxBuffers \in Nat /\ MaxBuffers >= 2 /\ buffersToWrite \in Seq(Logged)
        BY DEF AsyncLoggingConstants, BufferInv, PoolTypes
      <4>2. buffersToWrite' \in Seq(Logged)
        BY <3>2, <4>1
      <4>3. QED
        BY <3>2, <4>2, NoticeRecorded DEF OutputAppend, KeepInv
    <3>3. QED
      BY <1>8, <3>1, <3>2 DEF Drop
  <2>3. i' \in 1..Len(buffersToWrite') + 1
    BY <2>1, <2>2
  <2>4. QED
    BY <2>1, <2>2, <2>3 DEF KeepInv, BuffersFull, CollectedFull, IndexInv
<1>9. CASE WriteBuffer
  <2>1. /\ pc = "write" /\ pc' = "write" /\ i <= Len(buffersToWrite) /\ i' = i + 1
        /\ UNCHANGED <<currentBuffer, buffers, buffersToWrite>>
        /\ out' = out \o buffersToWrite[i]
    BY <1>9 DEF WriteBuffer, pool, OutputAppend
  <2>2. i \in 1..Len(buffersToWrite) /\ buffersToWrite \in Seq(Logged)
    BY <2>1 DEF KeepInv, IndexInv, BufferInv, PoolTypes
  <2>3. buffersToWrite[i] \in Seq(Recorded)
    <3>1. buffersToWrite[i] \in Seq(LoggedLines)
      BY <2>2 DEF Logged
    <3>2. QED
      BY <3>1, SeqMonotonic DEF Recorded
  <2>4. out' \in Seq(Recorded)
    BY <2>1, <2>3 DEF KeepInv
  <2>5. QED
    BY <2>1, <2>2, <2>4 DEF KeepInv, BuffersFull, CollectedFull, IndexInv
<1>10. CASE Refill
  BY <1>10 DEF Refill, GiveBack, KeepInv, BuffersFull, CollectedFull, IndexInv
<1>11. CASE UNCHANGED vars
  BY <1>1, <1>11 DEF vars
<1>12. QED
  BY <1>2, <1>3, <1>4, <1>5, <1>6, <1>7, <1>8, <1>9, <1>10, <1>11 DEF Next, LoggingThread

------------------------------------------------------------------------------
(* Every step is one of LineLog                                              *)

LEMMA PendingTypes ==
  ASSUME BufferInv, KeepInv
  PROVE  /\ currentBuffer \in Seq(LoggedLines) /\ buffers \in Seq(Seq(LoggedLines))
         /\ buffersToWrite \in Seq(Seq(LoggedLines)) /\ Unwritten \in Seq(Seq(LoggedLines))
         /\ FlattenSeq(buffers) \in Seq(LoggedLines)
         /\ FlattenSeq(Unwritten) \in Seq(LoggedLines)
<1>1. /\ currentBuffer \in Seq(LoggedLines) /\ buffers \in Seq(Seq(LoggedLines))
      /\ buffersToWrite \in Seq(Seq(LoggedLines))
  BY DEF BufferInv, PoolTypes, Logged
<1>2. i = 0 \/ i \in 1..Len(buffersToWrite) + 1
  BY DEF KeepInv, IndexInv
<1>3. Unwritten \in Seq(Seq(LoggedLines))
  <2>1. ASSUME NEW B, buffersToWrite \in Seq(B) PROVE Unwritten \in Seq(B)
    BY <1>2, <2>1 DEF Unwritten
  <2>2. QED
    BY <1>1, <2>1
<1>4. FlattenSeq(buffers) \in Seq(LoggedLines) /\ FlattenSeq(Unwritten) \in Seq(LoggedLines)
  BY <1>1, <1>3, FlattenType
<1>5. QED
  BY <1>1, <1>3, <1>4

\* Taking apart what was put together.
LEMMA Parts ==
  ASSUME NEW S, NEW a \in Seq(S), NEW b \in Seq(S), NEW c \in Seq(S)
  PROVE  /\ (a \o b) \o c = a \o (b \o c)
         /\ a \o b \in Seq(S)
         /\ Len(a \o b) = Len(a) + Len(b) /\ Len(a) \in Nat /\ Len(b) \in Nat
         /\ SubSeq(a \o b, 1, Len(a)) = a
         /\ SubSeq(a \o b, Len(a) + 1, Len(a \o b)) = b
         /\ a \o <<>> = a /\ <<>> \o a = a
  BY ConcatAssociative

LEMMA Associates ==
  \A a, b, c \in Seq(LoggedLines) : (a \o b) \o c = a \o (b \o c)
  BY ConcatAssociative

LEMMA Concatenates == \A a, b \in Seq(LoggedLines) : a \o b \in Seq(LoggedLines)
  OBVIOUS

LEMMA AppendLast ==
  \A x, y, z \in Seq(LoggedLines) : \A l \in LoggedLines :
    /\ x \o y \o Append(z, l) = Append(x \o y \o z, l)
    /\ x \o (y \o z) \o <<l>> = Append(x \o y \o z, l)
<1> SUFFICES ASSUME NEW x \in Seq(LoggedLines), NEW y \in Seq(LoggedLines),
                    NEW z \in Seq(LoggedLines), NEW l \in LoggedLines
             PROVE  /\ x \o y \o Append(z, l) = Append(x \o y \o z, l)
                    /\ x \o (y \o z) \o <<l>> = Append(x \o y \o z, l)
  OBVIOUS
<1>1. x \o y \in Seq(LoggedLines) /\ x \o y \o z \in Seq(LoggedLines)
  BY Concatenates, Zenon
<1>2. ASSUME NEW p \in Seq(LoggedLines)
      PROVE  p \o Append(z, l) = Append(p \o z, l) /\ p \o <<l>> = Append(p, l)
  OBVIOUS
<1>3. x \o (y \o z) = x \o y \o z
  BY Associates, Zenon
<1>4. QED
  BY <1>1, <1>2, <1>3

LEMMA CutOut ==
  ASSUME NEW S, NEW e \in Seq(S), NEW f \in Seq(S), NEW g \in Seq(S), f # <<>>
  PROVE  /\ Len((e \o f) \o g) = Len(e) + Len(f) + Len(g)
         /\ Len(e) \in Nat /\ Len(f) \in Nat \ {0} /\ Len(g) \in Nat
         /\ SubSeq((e \o f) \o g, 1, Len(e)) = e
         /\ SubSeq((e \o f) \o g, Len(e) + Len(f) + 1, Len((e \o f) \o g)) = g
<1>1. /\ e \o f \in Seq(S) /\ Len(e \o f) = Len(e) + Len(f) /\ Len(f) \in Nat \ {0}
      /\ Len(e) \in Nat /\ Len(g) \in Nat
  OBVIOUS
<1>2. /\ Len((e \o f) \o g) = Len(e \o f) + Len(g)
      /\ SubSeq((e \o f) \o g, Len(e \o f) + 1, Len((e \o f) \o g)) = g
  BY <1>1, Parts
<1>3. (e \o f) \o g = e \o (f \o g) /\ f \o g \in Seq(S)
  BY Parts, SMTT(30)
<1>4. SubSeq(e \o (f \o g), 1, Len(e)) = e
  BY <1>3, Parts
<1>5. QED
  BY <1>1, <1>2, <1>3, <1>4

LEMMA LogPending ==
  ASSUME AsyncLoggingConstants, BufferInv, KeepInv, Log
  PROVE  LL!Append1
<1>1. PICK l \in LoggedLines :
        /\ l \in Line
        /\ \/ currentBuffer' = Append(currentBuffer, l) /\ UNCHANGED buffers
           \/ currentBuffer' = <<l>> /\ buffers' = Append(buffers, currentBuffer)
  BY LogAppends
<1>2. UNCHANGED <<buffersToWrite, i, out>>
  BY DEF Log
<1> DEFINE u == FlattenSeq(Unwritten)
           b == FlattenSeq(buffers)
           c == currentBuffer
<1>3. /\ u \in Seq(LoggedLines) /\ b \in Seq(LoggedLines) /\ c \in Seq(LoggedLines)
      /\ buffers \in Seq(Seq(LoggedLines))
  BY PendingTypes
<1>4. FlattenSeq(Unwritten)' = u
  BY <1>2 DEF Unwritten
<1>0. l \in LoggedLines
  OBVIOUS
<1>5. /\ u \o b \o Append(c, l) = Append(u \o b \o c, l)
      /\ u \o (b \o c) \o <<l>> = Append(u \o b \o c, l)
  <2> HIDE DEF u, b, c
  <2>1. QED
    BY <1>3, <1>0, AppendLast, ZenonT(30)
<1>6. Pending' = Append(Pending, l)
  <2>1. CASE currentBuffer' = Append(currentBuffer, l) /\ UNCHANGED buffers
    <3>1. Pending' = u \o b \o Append(c, l)
      BY <1>4, <2>1 DEF Pending
    <3>2. QED
      BY <1>5, <3>1 DEF Pending
  <2>2. CASE currentBuffer' = <<l>> /\ buffers' = Append(buffers, currentBuffer)
    <3>1. FlattenSeq(buffers') = b \o c
      BY <1>3, <2>2, FlattenAppend
    <3>2. Pending' = u \o (b \o c) \o <<l>>
      BY <1>4, <2>2, <3>1 DEF Pending
    <3>3. QED
      BY <1>5, <3>2 DEF Pending
  <2>3. QED
    BY <1>1, <2>1, <2>2
<1>7. QED
  BY <1>1, <1>2, <1>6 DEF LL!Append1

LEMMA CollectPending ==
  ASSUME BufferInv, KeepInv, pc \in {"top", "wait"}, Collect, UNCHANGED <<i, out>>
  PROVE  UNCHANGED <<Pending, out>>
<1> DEFINE b == FlattenSeq(buffers)
           c == currentBuffer
<1>1. i = 0 /\ buffersToWrite = <<>>
  BY DEF KeepInv, IndexInv, BufferInv, Owed
<1>2. /\ b \in Seq(LoggedLines) /\ c \in Seq(LoggedLines)
      /\ buffers \in Seq(Seq(LoggedLines))
  BY PendingTypes
<1>3. Unwritten = <<>> /\ FlattenSeq(Unwritten) = <<>>
  BY <1>1, FlattenEmpty DEF Unwritten
<1>4. /\ Unwritten' = Append(buffers, currentBuffer)
      /\ buffers' = <<>> /\ currentBuffer' = <<>>
  BY <1>1 DEF Collect, Unwritten
<1>5. FlattenSeq(Unwritten') = b \o c
  BY <1>2, <1>4, FlattenAppend
<1>6. Pending' = (b \o c) \o <<>> \o <<>>
  BY <1>4, <1>5, FlattenEmpty DEF Pending
<1>7. Pending = <<>> \o b \o c
  BY <1>3 DEF Pending
<1> HIDE DEF b, c
<1>8. (b \o c) \o <<>> \o <<>> = <<>> \o b \o c
  BY <1>2
<1>9. QED
  BY <1>6, <1>7, <1>8

\* What is unwritten begins with the buffer that comes next.
LEMMA FirstUnwritten ==
  ASSUME BufferInv, NEW k \in 1..Len(buffersToWrite)
  PROVE  /\ buffersToWrite[k] \in Seq(LoggedLines)
         /\ SubSeq(buffersToWrite, k + 1, Len(buffersToWrite)) \in Seq(Seq(LoggedLines))
         /\ FlattenSeq(SubSeq(buffersToWrite, k, Len(buffersToWrite)))
              = buffersToWrite[k] \o FlattenSeq(SubSeq(buffersToWrite, k + 1, Len(buffersToWrite)))
<1> DEFINE B == Seq(LoggedLines)
           w == buffersToWrite
           rest == SubSeq(w, k + 1, Len(w))
<1>1. w \in Seq(B)
  BY DEF BufferInv, PoolTypes, Logged
<1> HIDE DEF B, w
<1>2. k \in 1..Len(w) /\ k \in Int
  BY DEF w
<1>3. w[k] \in B /\ rest \in Seq(B) /\ <<w[k]>> \in Seq(B)
  BY <1>1, <1>2
<1>4. SubSeq(w, k, Len(w)) = <<w[k]>> \o rest
  BY <1>1, <1>2
<1>5. w[k] \in Seq(LoggedLines) /\ rest \in Seq(Seq(LoggedLines))
      /\ <<w[k]>> \in Seq(Seq(LoggedLines))
  BY <1>3 DEF B
<1> HIDE DEF rest
<1>6. FlattenSeq(<<w[k]>> \o rest) = FlattenSeq(<<w[k]>>) \o FlattenSeq(rest)
  BY <1>5, FlattenConcat
<1>7. FlattenSeq(<<w[k]>>) = w[k]
  BY <1>5, FlattenOne
<1>8. QED
  BY <1>4, <1>5, <1>6, <1>7 DEF w, rest

LEMMA WritePending ==
  ASSUME BufferInv, KeepInv, WriteBuffer
  PROVE  LL!Write \/ UNCHANGED <<Pending, out>>
<1> DEFINE x == buffersToWrite[i]
           rest == SubSeq(buffersToWrite, i + 1, Len(buffersToWrite))
           b == FlattenSeq(buffers)
           c == currentBuffer
<1>1. /\ pc = "write" /\ i <= Len(buffersToWrite) /\ i' = i + 1 /\ out' = out \o x
      /\ UNCHANGED <<buffersToWrite, buffers, currentBuffer>>
  BY DEF WriteBuffer, pool, OutputAppend
<1>2. i \in 1..Len(buffersToWrite)
  BY <1>1 DEF KeepInv, IndexInv
<1>3. /\ x \in Seq(LoggedLines) /\ rest \in Seq(Seq(LoggedLines))
      /\ FlattenSeq(SubSeq(buffersToWrite, i, Len(buffersToWrite))) = x \o FlattenSeq(rest)
  BY <1>2, FirstUnwritten
<1>4. /\ b \in Seq(LoggedLines) /\ c \in Seq(LoggedLines)
      /\ FlattenSeq(rest) \in Seq(LoggedLines)
  BY <1>3, PendingTypes, FlattenType
<1>5. /\ Unwritten = SubSeq(buffersToWrite, i, Len(buffersToWrite))
      /\ Unwritten' = rest
  BY <1>1, <1>2 DEF Unwritten
<1> DEFINE r == FlattenSeq(rest) \o b \o c
<1>6. Pending' = r
  BY <1>1, <1>5 DEF Pending
<1>7. Pending = x \o FlattenSeq(rest) \o b \o c
  BY <1>3, <1>5 DEF Pending
<1>8. Pending = x \o r /\ r \in Seq(LoggedLines)
  <2> DEFINE m == FlattenSeq(rest)
  <2> HIDE DEF x, m, b, c
  <2>1. x \in Seq(LoggedLines) /\ m \in Seq(LoggedLines)
    BY <1>3, <1>4 DEF m
  <2>2. m \o b \in Seq(LoggedLines)
    BY <1>4, <2>1, Concatenates, Zenon
  <2>3. m \o b \o c \in Seq(LoggedLines)
    BY <1>4, <2>2, Concatenates, Zenon
  <2>4. (x \o m) \o b = x \o (m \o b)
    BY <1>4, <2>1, Associates, ZenonT(30)
  <2>5. (x \o (m \o b)) \o c = x \o ((m \o b) \o c)
    <3>1. x \in Seq(LoggedLines) /\ c \in Seq(LoggedLines)
      BY <1>4, <2>1, Zenon
    <3>2. QED
      BY <2>2, <3>1, Associates, Zenon
  <2>6. QED
    BY <1>7, <2>3, <2>4, <2>5 DEF m
<1> HIDE DEF r, x
<1>9. CASE x = <<>>
  <2>1. out \o <<>> = out /\ <<>> \o r = r
    BY <1>8 DEF KeepInv
  <2>2. QED
    BY <1>1, <1>6, <1>8, <1>9, <2>1
<1>10. CASE x # <<>>
  <2>1. /\ Len(x) \in 1..Len(Pending)
        /\ SubSeq(Pending, 1, Len(x)) = x
        /\ SubSeq(Pending, Len(x) + 1, Len(Pending)) = r
    <3>1. /\ Len(x \o r) = Len(x) + Len(r) /\ Len(x) \in Nat /\ Len(r) \in Nat
          /\ SubSeq(x \o r, 1, Len(x)) = x
          /\ SubSeq(x \o r, Len(x) + 1, Len(x \o r)) = r
      BY <1>3, <1>8, Parts
    <3>2. Len(x) # 0
      BY <1>3, <1>10
    <3>3. QED
      BY <1>8, <3>1, <3>2
  <2>2. QED
    BY <1>1, <1>6, <2>1 DEF LL!Write
<1>11. QED
  BY <1>9, <1>10

LEMMA DropPending ==
  ASSUME AsyncLoggingConstants, BufferInv, KeepInv, Drop
  PROVE  LL!LeaveOut \/ UNCHANGED <<Pending, out>>
<1>1. /\ pc = "drop" /\ i = 0 /\ i' = 1 /\ UNCHANGED <<buffers, currentBuffer>>
  BY DEF Drop, KeepInv, IndexInv
<1> DEFINE w == buffersToWrite
<1>2. w \in Seq(Seq(LoggedLines)) /\ Unwritten = w
  BY <1>1 DEF BufferInv, PoolTypes, Logged, Unwritten
<1>3. CASE UNCHANGED <<out, buffersToWrite>>
  <2>1. Unwritten' = SubSeq(w, 1, Len(w))
    BY <1>1, <1>3 DEF Unwritten
  <2>2. SubSeq(w, 1, Len(w)) = w
    BY <1>2, SubSeqFull
  <2>3. QED
    BY <1>1, <1>2, <1>3, <2>1, <2>2 DEF Pending
<1>4. CASE /\ OutputAppend(<<Notice>>) /\ buffersToWrite' = SubSeq(buffersToWrite, 1, 2)
           /\ Len(buffersToWrite) > MaxBuffers
  <2>1. Len(w) \in Nat /\ Len(w) >= 3
    BY <1>2, <1>4, SMTT(30) DEF AsyncLoggingConstants
  <2> DEFINE first == SubSeq(w, 1, 2)
             rest == SubSeq(w, 3, Len(w))
  <2>2. /\ first \in Seq(Seq(LoggedLines)) /\ rest \in Seq(Seq(LoggedLines))
        /\ w = first \o rest /\ Len(first) = 2 /\ SubSeq(first, 1, 2) = first
    <3>1. ASSUME NEW B, NEW v \in Seq(B), Len(v) >= 3
          PROVE  /\ SubSeq(v, 1, 2) \in Seq(B) /\ SubSeq(v, 3, Len(v)) \in Seq(B)
                 /\ v = SubSeq(v, 1, 2) \o SubSeq(v, 3, Len(v)) /\ Len(SubSeq(v, 1, 2)) = 2
                 /\ SubSeq(SubSeq(v, 1, 2), 1, 2) = SubSeq(v, 1, 2)
      BY <3>1
    <3>2. QED
      BY <1>2, <2>1, <3>1
  <2> DEFINE a == FlattenSeq(first)
             left == FlattenSeq(rest)
             r == FlattenSeq(buffers) \o currentBuffer
  <2>3. a \in Seq(LoggedLines) /\ left \in Seq(LoggedLines) /\ FlattenSeq(w) = a \o left
    BY <2>2, FlattenType, FlattenConcat
  <2>4. FlattenSeq(buffers) \in Seq(LoggedLines) /\ currentBuffer \in Seq(LoggedLines)
    BY PendingTypes
  <2>5. left # <<>>
    <3>1. 3 \in 1..Len(w) /\ w[3] # <<>>
      BY <1>1, <1>2, <2>1 DEF KeepInv, CollectedFull
    <3>2. /\ w[3] \in Seq(LoggedLines)
          /\ SubSeq(w, 3 + 1, Len(w)) \in Seq(Seq(LoggedLines))
          /\ left = w[3] \o FlattenSeq(SubSeq(w, 3 + 1, Len(w)))
      BY <3>1, FirstUnwritten
    <3>3. FlattenSeq(SubSeq(w, 3 + 1, Len(w))) \in Seq(LoggedLines)
      BY <3>2, FlattenType
    <3>4. ASSUME NEW p \in Seq(LoggedLines), NEW q \in Seq(LoggedLines), p # <<>>
          PROVE  p \o q # <<>>
      BY <3>4
    <3>5. QED
      BY <3>1, <3>2, <3>3, <3>4
  <2>6. Unwritten' = first
    BY <1>1, <1>4, <2>2 DEF Unwritten
  <2>7. Pending' = a \o FlattenSeq(buffers) \o currentBuffer
    BY <1>1, <2>6 DEF Pending
  <2>8. Pending = a \o left \o FlattenSeq(buffers) \o currentBuffer
    BY <1>2, <2>3 DEF Pending
  <2> HIDE DEF w, first, rest, a, left
  <2>9. Pending' = a \o r /\ Pending = (a \o left) \o r /\ r \in Seq(LoggedLines)
    <3> DEFINE b == FlattenSeq(buffers)
               c == currentBuffer
    <3>1. b \in Seq(LoggedLines) /\ c \in Seq(LoggedLines)
      BY <2>4
    <3>2. Pending' = a \o b \o c /\ Pending = a \o left \o b \o c /\ r = b \o c
      BY <2>7, <2>8
    <3> HIDE DEF b, c, r
    <3>3. a \in Seq(LoggedLines) /\ left \in Seq(LoggedLines)
      BY <2>3, Zenon
    <3>4. a \o b \o c = a \o (b \o c)
      BY <3>1, <3>3, Associates, ZenonT(30)
    <3>5. ((a \o left) \o b) \o c = (a \o left) \o (b \o c)
      <4>1. a \o left \in Seq(LoggedLines)
        BY <3>3, Concatenates, Zenon
      <4>2. QED
        BY <3>1, <4>1, Associates, Zenon
    <3>6. b \o c \in Seq(LoggedLines)
      BY <3>1, Concatenates, Zenon
    <3>7. QED
      BY <3>2, <3>4, <3>5, <3>6
  <2> HIDE DEF r
  <2> DEFINE from == Len(a) + 1
             to == Len(a) + Len(left)
  <2>10. /\ from \in 1..Len(Pending) /\ to \in from..Len(Pending)
         /\ SubSeq(Pending, 1, from - 1) = a
         /\ SubSeq(Pending, to + 1, Len(Pending)) = r
    <3> DEFINE p == (a \o left) \o r
    <3>2. /\ Len(p) = Len(a) + Len(left) + Len(r)
          /\ Len(a) \in Nat /\ Len(left) \in Nat \ {0} /\ Len(r) \in Nat
          /\ SubSeq(p, 1, Len(a)) = a
          /\ SubSeq(p, Len(a) + Len(left) + 1, Len(p)) = r
      BY <2>3, <2>5, <2>9, CutOut
    <3> HIDE DEF p
    <3>3. Pending = p
      BY <2>9 DEF p
    <3>4. from - 1 = Len(a)
      BY <3>2
    <3>5. /\ SubSeq(Pending, 1, from - 1) = a
          /\ SubSeq(Pending, to + 1, Len(Pending)) = r
      BY <3>2, <3>3, <3>4
    <3>6. from \in 1..Len(p) /\ to \in from..Len(p)
      BY <3>2
    <3>7. QED
      BY <3>3, <3>5, <3>6
  <2>11. out' = Append(out, Notice)
    BY <1>4, NoticeRecorded DEF OutputAppend, KeepInv
  <2> HIDE DEF from, to
  <2>12. /\ out' = Append(out, Notice)
         /\ Pending' = SubSeq(Pending, 1, from - 1) \o SubSeq(Pending, to + 1, Len(Pending))
    BY <2>9, <2>10, <2>11
  <2>13. LL!LeaveOut
    BY <2>10, <2>12 DEF LL!LeaveOut
  <2>14. QED
    BY <2>13
<1>5. QED
  BY <1>3, <1>4 DEF Drop

LEMMA RefillPending ==
  ASSUME BufferInv, KeepInv, Refill
  PROVE  UNCHANGED <<Pending, out>>
<1>1. /\ pc = "write" /\ i > Len(buffersToWrite) /\ buffersToWrite' = <<>> /\ i' = 0
      /\ UNCHANGED <<buffers, currentBuffer, out>>
  BY DEF Refill, GiveBack
<1>2. i = Len(buffersToWrite) + 1 /\ Len(buffersToWrite) \in Nat
      /\ buffersToWrite \in Seq(Logged)
  BY <1>1 DEF KeepInv, IndexInv, BufferInv, PoolTypes
<1>3. Unwritten = <<>>
  BY <1>2 DEF Unwritten
<1>4. Unwritten' = <<>>
  BY <1>1 DEF Unwritten
<1>5. QED
  BY <1>1, <1>3, <1>4 DEF Pending

LEMMA NextPending ==
  ASSUME AsyncLoggingConstants, IInv, KeepInv, [Next]_vars
  PROVE  [LL!Append1 \/ LL!Write \/ LL!LeaveOut]_<<Pending, out>>
<1> USE DEF IInv
<1>1. ASSUME UNCHANGED <<pool, i, out>> PROVE UNCHANGED <<Pending, out>>
  BY <1>1 DEF pool, Pending, Unwritten
<1>2. CASE Start \/ Started \/ Stop \/ Join \/ Tick
  BY <1>1, <1>2 DEF Start, Started, Stop, Join, Tick
<1>3. CASE Log
  BY <1>3, LogPending
<1>4. CASE CountDown \/ Quit
  BY <1>1, <1>4 DEF CountDown, Quit
<1>5. CASE Top
  <2>1. CASE UNCHANGED pool
    BY <1>1, <1>5, <2>1 DEF Top
  <2>2. CASE Collect
    BY <1>5, <2>2, CollectPending DEF Top
  <2>3. QED
    BY <1>5, <2>1, <2>2 DEF Top
<1>6. CASE Waited
  BY <1>6, CollectPending DEF Waited
<1>7. CASE Drop
  BY <1>7, DropPending
<1>8. CASE WriteBuffer
  BY <1>8, WritePending
<1>9. CASE Refill
  BY <1>9, RefillPending
<1>10. CASE UNCHANGED vars
  BY <1>1, <1>10 DEF vars
<1>11. QED
  BY <1>2, <1>3, <1>4, <1>5, <1>6, <1>7, <1>8, <1>9, <1>10 DEF Next, LoggingThread

\* The log implements LineLog, for lines and buffers of any size and any number of them:
\* lines reach the files in the order in which they were appended, once, and where the
\* thread leaves some out the file says so.
THEOREM KeepsLinesHolds ==
  ASSUME AsyncLoggingConstants
  PROVE  Spec => KeepsLines
<1>1. Init => IInv /\ KeepInv
  BY InitInv, KeepInit
<1>2. Init => LL!LineLogInit
  <2> SUFFICES ASSUME Init PROVE LL!LineLogInit
    OBVIOUS
  <2>1. Unwritten = <<>> /\ buffers = <<>> /\ currentBuffer = <<>> /\ out = <<>>
    BY DEF Init, Unwritten
  <2>2. QED
    BY <2>1, FlattenEmpty DEF LL!LineLogInit, Pending
<1>3. IInv /\ KeepInv /\ [Next]_vars => IInv' /\ KeepInv'
  BY NextBufferInv, NextNotStarted, NextKeeps DEF IInv
<1>4. IInv /\ KeepInv /\ [Next]_vars =>
        [LL!Append1 \/ LL!Write \/ LL!LeaveOut]_<<Pending, out>>
  BY NextPending
<1>5. QED
  BY <1>1, <1>2, <1>3, <1>4, PTL DEF Spec, KeepsLines, LL!LineLogSpec

------------------------------------------------------------------------------
(* What the server replies holds, and netset leaves one gateway              *)

Sequence(s) == \E S : s \in Seq(S)

\* The two files, and the interfaces.
CommandShapes ==
  /\ DOMAIN disk = {"conf", "sys"}
  /\ DOMAIN net = {"address", "routes"} /\ DOMAIN net.routes = {"eth0", "eth1"}
  /\ Sequence(net.routes["eth0"])

Counters == fds \in Nat /\ proc \in 0..2 /\ faults \in Nat

\* A command other than sysset writes to sysconf.conf alone, if at all.
FilesInv ==
  /\ serving \in {"loop", "write", "saved", "encode", "send"}
  /\ serving \in {"write", "saved"} /\ cmd.ordertype # "sysset" =>
       Sequence(writes) /\ \A n \in 1..Len(writes) : writes[n].file = "sys"
  /\ serving = "saved" => writes # <<>>

\* What the last reply of sysset read back stays in force until the next sysset.
ForceInv ==
  serving \in {"loop", "send"} \/ cmd.ordertype # "sysset" =>
    \A k \in DOMAIN readBack :
      GetProfileInteger(disk.conf, Prog, k, ReaderDefault[k]) = readBack[k]

CommandsInv == CommandShapes /\ Counters /\ FilesInv /\ ForceInv /\ ReplyAnswersRequest

------------------------------------------------------------------------------

LEMMA EmptySequence == Sequence(<<>>)
<1>1. <<>> \in Seq({})
  OBVIOUS
<1> QED BY <1>1 DEF Sequence

LEMMA TailSequence ==
  ASSUME NEW s, Sequence(s), s # <<>>
  PROVE  /\ Sequence(Tail(s)) /\ Len(Tail(s)) = Len(s) - 1 /\ Len(s) \in Nat \ {0}
         /\ \A n \in 1..Len(s) - 1 : Tail(s)[n] = s[n + 1]
         /\ Head(s) = s[1]
<1>1. PICK S : s \in Seq(S)
  BY DEF Sequence
<1>2. /\ Tail(s) \in Seq(S) /\ Len(Tail(s)) = Len(s) - 1 /\ Len(s) \in Nat \ {0}
      /\ \A n \in 1..Len(s) - 1 : Tail(s)[n] = s[n + 1]
      /\ Head(s) = s[1]
  BY <1>1
<1> QED BY <1>2 DEF Sequence

\* What is left of a sequence, with or without one more at its end.
LEMMA PrefixSequence ==
  ASSUME NEW s, Sequence(s), NEW n \in 0..Len(s), NEW e
  PROVE  /\ Sequence(SubSeq(s, 1, n)) /\ Sequence(Append(SubSeq(s, 1, n), e))
         /\ n = 0 => Append(SubSeq(s, 1, n), e) = <<e>>
<1>1. PICK S : s \in Seq(S)
  BY DEF Sequence
<1>2. SubSeq(s, 1, n) \in Seq(S) /\ Len(SubSeq(s, 1, n)) = n
  BY <1>1
<1>3. SubSeq(s, 1, n) \in Seq(S \cup {e}) /\ e \in S \cup {e}
  BY <1>2
<1>4. Append(SubSeq(s, 1, n), e) \in Seq(S \cup {e})
  BY <1>3
<1>5. n = 0 => SubSeq(s, 1, n) = <<>>
  BY <1>2
<1>6. Append(<<>>, e) = <<e>>
  OBVIOUS
<1>7. n = 0 => Append(SubSeq(s, 1, n), e) = <<e>>
  BY <1>5, <1>6
<1> QED BY <1>2, <1>4, <1>7 DEF Sequence

\* Whatever a reader takes for its default: from a readable file all get the same.
LEMMA ReadersAgree ==
  ASSUME NEW lines, NEW key, NEW mine, NEW yours, Readable(lines)
  PROVE  GetProfileInteger(lines, Prog, key, mine) = GetProfileInteger(lines, Prog, key, yours)
BY DEF GetProfileInteger

------------------------------------------------------------------------------

LEMMA BootFacts ==
  ASSUME CommandsConstants, CommandsInv, Boot
  PROVE  /\ CommandShapes' /\ fds' \in Nat /\ proc' \in 0..2
         /\ serving' = "loop" /\ disk' = disk
BY DEF CommandsConstants, CommandsInv, CommandShapes, Counters, Boot

LEMMA CommandsInitInv ==
  ASSUME CommandsConstants, CommandsInit PROVE CommandsInv
<1>1. PICK d \in Disks, g \in Gateways : CommandsInitWith(d, g)
  BY DEF CommandsInit
<1>2. g \in Seq(Range(g))
  BY DEF CommandsConstants
<1>3. Sequence(g)
  BY <1>2 DEF Sequence
<1>4. CommandShapes
  BY <1>1, <1>3 DEF CommandShapes, CommandsInitWith, CommandsConstants
<1>5. Counters
  BY <1>1 DEF Counters, CommandsInitWith, CommandsConstants
<1>6. FilesInv /\ ReplyAnswersRequest
  BY <1>1 DEF FilesInv, ReplyAnswersRequest, CommandsInitWith
<1>7. readBack = <<>>
  BY <1>1 DEF CommandsInitWith
<1>8. DOMAIN readBack = {}
  BY <1>7
<1>9. ForceInv
  BY <1>8 DEF ForceInv
<1> QED BY <1>4, <1>5, <1>6, <1>9 DEF CommandsInv

\* A request other than sysset asks for sysconf.conf alone.
LEMMA HandleFiles ==
  ASSUME NEW r, Handle(r), r.ordertype # "sysset"
  PROVE  Sequence(writes') /\ \A n \in 1..Len(writes') : writes'[n].file = "sys"
<1>1. \/ writes' = <<>>
      \/ \E w : writes' = <<w>> /\ w.file = "sys"
  BY DEF Handle, Write, NetsetWrites
<1>2. CASE writes' = <<>>
  BY <1>2, EmptySequence
<1>3. ASSUME NEW w, writes' = <<w>>, w.file = "sys"
      PROVE  Sequence(writes') /\ \A n \in 1..Len(writes') : writes'[n].file = "sys"
  <2>1. writes' \in Seq({w})
    BY <1>3
  <2>2. Len(writes') = 1 /\ writes'[1] = w
    BY <1>3
  <2>3. \A n \in 1..Len(writes') : n = 1
    BY <2>2
  <2>4. Sequence(writes')
    BY <2>1 DEF Sequence
  <2>5. QED
    BY <1>3, <2>2, <2>3, <2>4
<1> QED BY <1>1, <1>2, <1>3

LEMMA ReceiveInv ==
  ASSUME CommandsInv, NEW r \in Datagrams, Receive(r) PROVE CommandsInv'
<1>1. CommandShapes' /\ Counters'
  BY DEF CommandsInv, CommandShapes, Counters, Receive
<1>2. serving = "loop" /\ serving' \in {"write", "send"} /\ cmd' = r
  BY DEF Receive
<1>3. serving' = "write" => Handle(r)
  BY DEF Receive
<1>4. FilesInv'
  BY <1>2, <1>3, HandleFiles DEF FilesInv
<1>5. ForceInv'
  BY <1>2 DEF CommandsInv, ForceInv, Receive
<1>6. serving' = "send" => json_string' = Error(r.ordertype)
  BY DEF Receive
<1>7. ReplyAnswersRequest'
  BY <1>2, <1>6 DEF ReplyAnswersRequest, Error
<1> QED BY <1>1, <1>4, <1>5, <1>7 DEF CommandsInv

\* Steps that write to files.
WriteStep == Truncate \/ Save \/ SaveFails \/ OpenFails

LEMMA WriteStepInv == ASSUME CommandsInv, WriteStep PROVE CommandsInv'
<1>1. /\ UNCHANGED <<kept, fds, cmd, requests>>
      /\ serving \in {"write", "saved"} /\ serving' \in {"write", "saved"} /\ writes # <<>>
  BY DEF CommandsInv, FilesInv, WriteStep, Truncate, Save, SaveFails, OpenFails
<1>2. faults' \in Nat
  BY DEF CommandsInv, Counters, WriteStep, Truncate, Save, SaveFails, OpenFails, CommandFault
<1>3. Counters'
  BY <1>1, <1>2 DEF CommandsInv, Counters, kept
<1>4. \/ disk' = disk
      \/ \E lines : disk' = [disk EXCEPT ![Head(writes).file] = lines]
  BY DEF WriteStep, Truncate, Save, SaveFails, OpenFails
<1>5. DOMAIN disk' = DOMAIN disk
  BY <1>4
<1>6. CommandShapes'
  BY <1>1, <1>5 DEF CommandsInv, CommandShapes, kept
<1>7. writes' = writes \/ (writes' = Tail(writes) /\ serving' = "write")
  BY DEF CommandsInv, FilesInv, WriteStep, Truncate, Save, SaveFails, OpenFails
<1>8. ASSUME cmd.ordertype # "sysset"
      PROVE  /\ Sequence(writes') /\ \A n \in 1..Len(writes') : writes'[n].file = "sys"
             /\ Head(writes).file = "sys"
  <2>1. Sequence(writes) /\ \A n \in 1..Len(writes) : writes[n].file = "sys"
    BY <1>1, <1>8 DEF CommandsInv, FilesInv
  <2>2. /\ Sequence(Tail(writes)) /\ Len(Tail(writes)) = Len(writes) - 1
        /\ Len(writes) \in Nat \ {0}
        /\ \A n \in 1..Len(writes) - 1 : Tail(writes)[n] = writes[n + 1]
        /\ Head(writes) = writes[1]
    BY <1>1, <2>1, TailSequence
  <2>3. Len(writes) - 1 \in Nat /\ 1 \in 1..Len(writes)
    BY <2>2
  <2>4. \A n \in 1..Len(writes) - 1 : n + 1 \in 1..Len(writes)
    BY <2>2
  <2>5. \A n \in 1..Len(Tail(writes)) : Tail(writes)[n].file = "sys"
    BY <2>1, <2>2, <2>4
  <2>6. Head(writes).file = "sys"
    BY <2>1, <2>2, <2>3
  <2>7. QED
    BY <1>7, <2>1, <2>2, <2>5, <2>6
<1>9. FilesInv'
  BY <1>1, <1>7, <1>8 DEF CommandsInv, FilesInv
<1>10. cmd.ordertype # "sysset" => disk'.conf = disk.conf
  BY <1>4, <1>8 DEF CommandsInv, CommandShapes
<1>11. ForceInv'
  BY <1>1, <1>10 DEF CommandsInv, ForceInv, kept
<1>12. ReplyAnswersRequest'
  BY <1>1 DEF ReplyAnswersRequest
<1> QED BY <1>3, <1>6, <1>9, <1>11, <1>12 DEF CommandsInv

LEMMA SmallerIs ==
  ASSUME NEW m \in Nat, NEW n \in Nat
  PROVE  m - Smaller(m, n) \in 0..m /\ (n >= m => m - Smaller(m, n) = 0)
BY DEF Smaller

\* What is left of the descriptors and of the gateways of "eth0", when no call fails and
\* a descriptor is left none but the new one.
LEMMA SetGatewayShapes ==
  ASSUME CommandShapes, Counters, fds > 0, NEW failing, SetGateway(failing)
  PROVE  /\ fds' \in Nat
         /\ DOMAIN net' = {"address", "routes"} /\ DOMAIN net'.routes = {"eth0", "eth1"}
         /\ Sequence(net'.routes["eth0"])
         /\ cmd.gateway # "none" /\ failing = "none" /\ fds' > 0 =>
              net'.routes["eth0"] = <<cmd.gateway>>
<1> DEFINE gateways == net.routes["eth0"]
           left == Len(gateways) - DeletedRoutes(failing)
<1>1. Sequence(gateways)
  BY DEF CommandShapes
<1>2. Len(gateways) \in Nat
  <2>1. PICK S : gateways \in Seq(S)
    BY <1>1 DEF Sequence
  <2>2. QED
    BY <2>1
<1>3. left \in 0..Len(gateways)
  <2>1. fds - 1 \in Nat
    BY DEF Counters
  <2>2. CASE failing = "delete"
    BY <1>2, <2>2 DEF DeletedRoutes
  <2>3. CASE failing # "delete"
    BY <1>2, <2>1, <2>3, SmallerIs DEF DeletedRoutes, RoutesOf
  <2>4. QED
    BY <2>2, <2>3
<1>4. AfterDelete(failing) \in Nat
  BY <1>2 DEF AfterDelete, RoutesOf, Counters
<1>5. failing = "none" /\ AfterDelete(failing) > 0 => left = 0
  BY <1>2 DEF DeletedRoutes, AfterDelete, Smaller, RoutesOf, Counters
<1>6. /\ Sequence(Remaining(failing)) /\ Sequence(Append(Remaining(failing), cmd.gateway))
      /\ left = 0 => Append(Remaining(failing), cmd.gateway) = <<cmd.gateway>>
  <2> HIDE DEF left
  <2>1. Remaining(failing) = SubSeq(gateways, 1, left)
    BY DEF Remaining, RoutesOf, left
  <2>2. QED
    BY <1>1, <1>3, <2>1, PrefixSequence
<1>7. /\ DOMAIN net' = {"address", "routes"} /\ DOMAIN net'.routes = {"eth0", "eth1"}
      /\ net'.routes["eth0"] =
           IF cmd.gateway = "none" THEN gateways
           ELSE IF AfterDelete(failing) = 0 \/ failing = "add" THEN Remaining(failing)
           ELSE Append(Remaining(failing), cmd.gateway)
  BY DEF SetGateway, CommandShapes
<1>8. fds' = IF cmd.gateway = "none" THEN fds ELSE AfterDelete(failing)
  BY DEF SetGateway
<1> HIDE DEF left, gateways
<1> QED BY <1>1, <1>4, <1>5, <1>6, <1>7, <1>8 DEF Counters

LEMMA NetsetInv == ASSUME CommandsInv, Netset PROVE CommandsInv'
<1>1. /\ CommandShapes /\ Counters /\ disk' = disk
      /\ UNCHANGED <<disk, cmd, proc, readBack>> /\ serving' = "encode"
      /\ cmd.ordertype = "netset"
  BY DEF CommandsInv, Netset
<1>2. faults' \in Nat
  BY DEF CommandsInv, Counters, Netset, CommandFault
<1>3. CommandShapes' /\ fds' \in Nat
  <2>1. CASE fds = 0 /\ UNCHANGED <<net, fds>>
    BY <1>1, <2>1 DEF CommandShapes, Counters
  <2>2. CASE \E failing : fds > 0 /\ SetGateway(failing)
    BY <1>1, <2>2, SetGatewayShapes DEF CommandShapes
  <2>3. QED
    BY <2>1, <2>2 DEF Netset
<1>4. Counters'
  BY <1>1, <1>2, <1>3 DEF Counters
<1>5. FilesInv' /\ ReplyAnswersRequest'
  BY <1>1 DEF FilesInv, ReplyAnswersRequest
<1>6. ForceInv'
  BY <1>1 DEF CommandsInv, ForceInv
<1> QED BY <1>3, <1>4, <1>5, <1>6 DEF CommandsInv

LEMMA WrittenInv == ASSUME CommandsInv, Written PROVE CommandsInv'
BY DEF CommandsInv, CommandShapes, Counters, FilesInv, ForceInv, ReplyAnswersRequest, Written, kept

LEMMA SendInv == ASSUME CommandsInv, Send PROVE CommandsInv'
BY DEF CommandsInv, CommandShapes, Counters, FilesInv, ForceInv, ReplyAnswersRequest, Send, kept

LEMMA EncodeInv == ASSUME CommandsInv, Encode PROVE CommandsInv'
<1>1. /\ UNCHANGED <<disk, net, cmd, faults>> /\ serving = "encode" /\ serving' = "send"
  BY DEF Encode
<1>2. CommandShapes' /\ FilesInv'
  BY <1>1 DEF CommandsInv, CommandShapes, FilesInv
<1>3. CASE cmd.ordertype = "sysset" /\ EncodeSysset
  <2>1. Counters'
    BY <1>1, <1>3 DEF CommandsInv, Counters, EncodeSysset
  <2>2. ReplyAnswersRequest'
    BY <1>1, <1>3 DEF ReplyAnswersRequest, EncodeSysset
  <2>3. CASE ~(Opens /\ Readable(disk.conf))
    <3>1. DOMAIN readBack' = {}
      BY <1>3, <2>3 DEF EncodeSysset
    <3>2. QED
      BY <1>2, <2>1, <2>2, <3>1 DEF CommandsInv, ForceInv
  <2>4. CASE Opens /\ Readable(disk.conf)
    <3>1. /\ DOMAIN readBack' = DOMAIN sysset
          /\ \A k \in DOMAIN sysset :
               readBack'[k] = GetProfileInteger(disk.conf, Prog, k, sysset[k])
      BY <1>3, <2>4 DEF EncodeSysset, Integer
    <3>2. ForceInv'
      BY <1>1, <2>4, <3>1, ReadersAgree DEF ForceInv
    <3>3. QED
      BY <1>2, <2>1, <2>2, <3>2 DEF CommandsInv
  <2>5. QED
    BY <2>3, <2>4
<1>4. CASE cmd.ordertype # "sysset" /\ UNCHANGED readBack
  <2>1. ForceInv'
    BY <1>1, <1>4 DEF CommandsInv, ForceInv
  <2>2. CASE cmd.ordertype \in NetOrders /\ EncodeNet
    <3>1. Counters'
      BY <1>1, <2>2 DEF CommandsInv, Counters, EncodeNet, ProcFiles, Opened, Smaller
    <3>2. ReplyAnswersRequest'
      BY <1>1, <2>2 DEF ReplyAnswersRequest, EncodeNet, NetReply
    <3>3. QED
      BY <1>2, <2>1, <3>1, <3>2 DEF CommandsInv
  <2>3. CASE Silent /\ UNCHANGED <<fds, proc>>
    BY <1>1, <1>2, <2>1, <2>3 DEF CommandsInv, Counters, ReplyAnswersRequest, Silent
  <2>4. CASE EncodeOther
    BY <1>1, <1>2, <2>1, <2>4 DEF CommandsInv, Counters, ReplyAnswersRequest, EncodeOther
  <2>5. QED
    BY <1>4, <2>2, <2>3, <2>4 DEF Encode
<1>5. QED
  BY <1>3, <1>4 DEF Encode, EncodeNet, EncodeOther, NetOrders, Silent

LEMMA KilledInv == ASSUME CommandsConstants, CommandsInv, Killed PROVE CommandsInv'
<1>1. CommandShapes' /\ Counters' /\ serving' = "loop" /\ disk' = disk
  BY BootFacts DEF CommandsInv, Counters, Killed, CommandFault
<1>2. \/ readBack' = <<>>
      \/ /\ readBack' = readBack
         /\ serving \in {"loop", "send"} \/ cmd.ordertype # "sysset"
  BY DEF CommandsInv, FilesInv, Killed
<1>3. \/ DOMAIN readBack' = {}
      \/ /\ readBack' = readBack
         /\ serving \in {"loop", "send"} \/ cmd.ordertype # "sysset"
  BY <1>2
<1>4. ForceInv'
  BY <1>1, <1>3 DEF CommandsInv, ForceInv
<1> QED BY <1>1, <1>4 DEF CommandsInv, FilesInv, ReplyAnswersRequest

LEMMA ExitInv == ASSUME CommandsConstants, CommandsInv, Exit PROVE CommandsInv'
<1>1. /\ CommandShapes' /\ Counters' /\ serving' = "loop" /\ disk' = disk
      /\ readBack' = readBack /\ cmd.ordertype # "sysset"
  BY BootFacts DEF CommandsInv, Counters, Exit, NetOrders
<1>2. ForceInv'
  BY <1>1 DEF CommandsInv, ForceInv
<1> QED BY <1>1, <1>2 DEF CommandsInv, FilesInv, ReplyAnswersRequest

LEMMA CommandsNextInv ==
  ASSUME CommandsConstants, CommandsInv, [CommandsNext]_commandVars PROVE CommandsInv'
<1>1. CASE \E r \in Datagrams : Receive(r)
  BY <1>1, ReceiveInv
<1>2. CASE Truncate \/ Save \/ SaveFails \/ OpenFails
  BY <1>2, WriteStepInv DEF WriteStep
<1>3. CASE Netset
  BY <1>3, NetsetInv
<1>4. CASE Written
  BY <1>4, WrittenInv
<1>5. CASE Encode
  BY <1>5, EncodeInv
<1>6. CASE Send
  BY <1>6, SendInv
<1>7. CASE Killed
  BY <1>7, KilledInv
<1>8. CASE Exit
  BY <1>8, ExitInv
<1>9. CASE UNCHANGED commandVars
  BY <1>9 DEF commandVars, CommandsInv, CommandShapes, Counters, FilesInv, ForceInv,
              ReplyAnswersRequest, Silent
<1> QED BY <1>1, <1>2, <1>3, <1>4, <1>5, <1>6, <1>7, <1>8, <1>9 DEF CommandsNext

LEMMA InvReplies == ASSUME CommandsInv PROVE RepliesHold
BY DEF CommandsInv, ForceInv, RepliesHold, ConfirmedInForce

\* A client gets an answer to what it asked, unless that is a cmd whose exchange fails, and
\* the settings a reply of sysset read back are what every reader of the file gets until
\* the next sysset: for any commands, files and settings, and any number of writes and
\* ioctl()s that fail, files that cannot be opened, and restarts.
THEOREM RepliesAlwaysHold ==
  ASSUME CommandsConstants
  PROVE  CommandsSpec => []RepliesHold
<1>1. CommandsInit => CommandsInv
  BY CommandsInitInv
<1>2. CommandsInv /\ [CommandsNext]_commandVars => CommandsInv'
  BY CommandsNextInv
<1>3. CommandsInv => RepliesHold
  BY InvReplies
<1> QED BY <1>1, <1>2, <1>3, PTL DEF CommandsSpec

\* However many gateways the interface had, netset leaves it the one it was given, when
\* no call fails and a descriptor is left.
THEOREM OneGatewayHolds ==
  ASSUME CommandsConstants
  PROVE  CommandsSpec => OneGateway
<1> DEFINE Sets ==
      /\ cmd.ordertype = "netset" /\ serving = "write" /\ serving' = "encode"
      /\ faults' = faults /\ cmd.gateway # "none" /\ fds' > 0
      => net'.routes["eth0"] = <<cmd.gateway>>
<1>1. CommandsInit => CommandsInv
  BY CommandsInitInv
<1>2. CommandsInv /\ [CommandsNext]_commandVars => CommandsInv'
  BY CommandsNextInv
<1>3. CommandsInv /\ [CommandsNext]_commandVars => [Sets]_commandVars
  <2> SUFFICES ASSUME CommandsInv, CommandsNext, cmd.ordertype = "netset", serving = "write",
                      serving' = "encode", faults' = faults, cmd.gateway # "none", fds' > 0
               PROVE  net'.routes["eth0"] = <<cmd.gateway>>
    OBVIOUS
  <2>1. Netset
    BY DEF CommandsNext, Receive, Truncate, Save, SaveFails, OpenFails, Written, Encode, Send,
           Killed, Exit, Boot, CommandsInv, FilesInv
  <2>2. ~CommandFault
    BY DEF CommandFault, CommandsInv, Counters
  <2>3. fds > 0 /\ SetGateway("none")
    BY <2>1, <2>2 DEF Netset, CommandsInv, Counters
  <2>4. QED
    BY <2>3, SetGatewayShapes DEF CommandsInv
<1> HIDE DEF Sets
<1>4. QED
  BY <1>1, <1>2, <1>3, PTL DEF CommandsSpec, OneGateway, Sets

------------------------------------------------------------------------------
(* The dictionary is a map                                                   *)

Slot ==
  [key : Entries \cup {NoValue}, val : Values \cup {NoValue},
   hash : {0} \cup {IniHash[k] : k \in Entries}]

FilledSlots(d) == {p \in 0..d.size-1 : d.slot[p].key # NoValue}

TableShape(d) ==
  /\ DOMAIN d = {"n", "size", "slot"}
  /\ d.n \in Nat /\ d.size \in Nat \ {0}
  /\ d.slot \in [0..d.size-1 -> Slot]

\* A slot that is taken is found by its key, and no key is in two slots.
KeysApart(d) ==
  /\ \A p \in FilledSlots(d) : d.slot[p].hash = IniHash[d.slot[p].key]
  /\ \A p, q \in FilledSlots(d) : d.slot[p].key = d.slot[q].key => p = q

SlotsCounted(d) == IsFiniteSet(FilledSlots(d)) /\ d.n = Cardinality(FilledSlots(d))

DictInv(d) == TableShape(d) /\ KeysApart(d) /\ SlotsCounted(d)

\* The slots of a key.
SlotsOf(d, k) == {p \in FilledSlots(d) : d.slot[p].key = k}

LEMMA MinOne == ASSUME NEW p \in Int PROVE D!Min({p}) = p
BY DEF D!Min

LEMMA FoundAre ==
  ASSUME NEW d, DictInv(d), NEW k \in Entries
  PROVE  D!Find(d, k) = SlotsOf(d, k)
BY DEF DictInv, KeysApart, D!Find, SlotsOf, FilledSlots

LEMMA FoundOne ==
  ASSUME NEW d, DictInv(d), NEW k \in Entries, NEW p \in D!Find(d, k)
  PROVE  /\ p \in FilledSlots(d) /\ p \in 0..d.size-1 /\ d.slot[p].key = k
         /\ D!Min(D!Find(d, k)) = p
<1>1. D!Find(d, k) = SlotsOf(d, k)
  BY FoundAre
<1>2. D!Find(d, k) = {p}
  BY <1>1 DEF SlotsOf, DictInv, KeysApart
<1>3. p \in FilledSlots(d) /\ p \in 0..d.size-1 /\ d.slot[p].key = k
  BY <1>1 DEF SlotsOf, FilledSlots
<1>4. p \in Int
  BY <1>3 DEF DictInv, TableShape
<1> QED BY <1>2, <1>3, <1>4, MinOne

LEMMA KeysAre ==
  ASSUME IniConstants, NEW d, DictInv(d)
  PROVE  D!Keys(d) = {k \in Entries : D!Find(d, k) # {}}
<1>1. NoValue \notin Entries
  BY DEF IniConstants, D!DictionaryConstants
<1>2. \A k \in Entries : D!Find(d, k) = SlotsOf(d, k)
  BY FoundAre
<1>3. \A p \in FilledSlots(d) : d.slot[p].key \in Entries
  BY DEF DictInv, TableShape, FilledSlots, Slot
<1> QED BY <1>1, <1>2, <1>3 DEF D!Keys, SlotsOf, FilledSlots

\* What a key stands for in a table, if it is there.
SaysSame(d, e, k) ==
  /\ D!Find(d, k) = {} <=> D!Find(e, k) = {}
  /\ D!dictionary_get(d, k, NoValue) = D!dictionary_get(e, k, NoValue)

Put(m, k, v) == [x \in DOMAIN m \cup {k} |-> IF x = k THEN v ELSE m[x]]
Without(m, k) == [x \in DOMAIN m \ {k} |-> m[x]]

LEMMA MapSet ==
  ASSUME IniConstants, NEW d, NEW e, DictInv(d), DictInv(e), NEW k \in Entries, NEW v,
         \A x \in Entries \ {k} : SaysSame(d, e, x),
         D!Find(e, k) # {}, D!dictionary_get(e, k, NoValue) = v
  PROVE  D!Map(e) = Put(D!Map(d), k, v)
<1>1. D!Keys(e) = D!Keys(d) \cup {k}
  BY KeysAre DEF SaysSame
<1>2. D!Keys(d) \subseteq Entries
  BY KeysAre
<1> QED BY <1>1, <1>2 DEF D!Map, SaysSame, Put

LEMMA MapUnset ==
  ASSUME IniConstants, NEW d, NEW e, DictInv(d), DictInv(e), NEW k \in Entries,
         \A x \in Entries \ {k} : SaysSame(d, e, x), D!Find(e, k) = {}
  PROVE  D!Map(e) = Without(D!Map(d), k)
<1>1. D!Keys(e) = D!Keys(d) \ {k}
  BY KeysAre DEF SaysSame
<1>2. D!Keys(d) \subseteq Entries
  BY KeysAre
<1> QED BY <1>1, <1>2 DEF D!Map, SaysSame, Without

\* Two tables that have the same slots filled with the same say the same.
LEMMA SaysAlike ==
  ASSUME NEW d, NEW e, DictInv(d), DictInv(e), NEW k \in Entries,
         SlotsOf(d, k) = SlotsOf(e, k),
         \A p \in SlotsOf(d, k) : d.slot[p].val = e.slot[p].val
  PROVE  SaysSame(d, e, k)
<1>1. D!Find(d, k) = SlotsOf(d, k) /\ D!Find(e, k) = SlotsOf(d, k)
  BY FoundAre
<1>2. CASE SlotsOf(d, k) = {}
  BY <1>1, <1>2 DEF SaysSame, D!dictionary_get
<1>3. ASSUME NEW p \in SlotsOf(d, k) PROVE SaysSame(d, e, k)
  <2>1. D!Min(D!Find(d, k)) = p /\ D!Min(D!Find(e, k)) = p
    BY <1>1, <1>3, FoundOne
  <2>2. QED
    BY <1>1, <1>3, <2>1 DEF SaysSame, D!dictionary_get
<1> QED BY <1>2, <1>3

\* The value of a key that is in slot p.
LEMMA GetIs ==
  ASSUME NEW d, DictInv(d), NEW k \in Entries, NEW p \in SlotsOf(d, k)
  PROVE  D!Find(d, k) # {} /\ D!dictionary_get(d, k, NoValue) = d.slot[p].val
<1>1. D!Find(d, k) = SlotsOf(d, k)
  BY FoundAre
<1>2. D!Min(D!Find(d, k)) = p
  BY <1>1, FoundOne
<1> QED BY <1>1, <1>2 DEF D!dictionary_get

LEMMA HoleIs == D!Hole \in Slot /\ D!Hole.key = NoValue
BY DEF D!Hole, Slot

LEMMA NewInv == ASSUME IniConstants PROVE DictInv(D!dictionary_new)
<1> DEFINE d == D!dictionary_new
<1>1. MinSize \in Nat \ {0}
  BY DEF IniConstants, D!DictionaryConstants
<1>2. /\ DOMAIN d = {"n", "size", "slot"} /\ d.n = 0 /\ d.size = MinSize
      /\ d.slot = [p \in 0..MinSize-1 |-> D!Hole]
  BY DEF D!dictionary_new
<1> HIDE DEF d
<1>3. TableShape(d)
  BY <1>1, <1>2, HoleIs DEF TableShape
<1>4. FilledSlots(d) = {}
  BY <1>1, <1>2, HoleIs DEF FilledSlots
<1>5. KeysApart(d) /\ SlotsCounted(d)
  BY <1>2, <1>4, FS_EmptySet DEF KeysApart, SlotsCounted
<1>6. DictInv(d)
  BY <1>3, <1>5 DEF DictInv
<1> QED BY <1>6 DEF d

\* A key that is there: its value changes, and nothing else.
LEMMA SetThere ==
  ASSUME IniConstants, NEW d, DictInv(d), NEW k \in Entries,
         NEW v \in Values \cup {NoValue}, NEW m \in D!Find(d, k)
  PROVE  LET e == [d EXCEPT !.slot[m].val = v]
         IN /\ DictInv(e)
            /\ \A x \in Entries \ {k} : SaysSame(d, e, x)
            /\ D!Find(e, k) # {} /\ D!dictionary_get(e, k, NoValue) = v
<1> DEFINE e == [d EXCEPT !.slot[m].val = v]
<1>1. m \in FilledSlots(d) /\ m \in 0..d.size-1 /\ d.slot[m].key = k
  BY FoundOne
<1>2. /\ DOMAIN e = {"n", "size", "slot"} /\ e.n = d.n /\ e.size = d.size
      /\ e.slot = [d.slot EXCEPT ![m] = [d.slot[m] EXCEPT !.val = v]]
  BY DEF DictInv, TableShape
<1> HIDE DEF e
<1>3. /\ e.slot \in [0..d.size-1 -> Slot]
      /\ \A p \in 0..d.size-1 :
           /\ e.slot[p].key = d.slot[p].key /\ e.slot[p].hash = d.slot[p].hash
           /\ p # m => e.slot[p] = d.slot[p]
      /\ e.slot[m].val = v
  BY <1>1, <1>2 DEF DictInv, TableShape, Slot
<1>4. FilledSlots(e) = FilledSlots(d) /\ FilledSlots(d) \subseteq 0..d.size-1
  BY <1>2, <1>3 DEF FilledSlots
<1>5. DictInv(e)
  <2>1. TableShape(e)
    BY <1>2, <1>3 DEF DictInv, TableShape
  <2>2. KeysApart(e)
    BY <1>3, <1>4 DEF DictInv, KeysApart
  <2>3. SlotsCounted(e)
    BY <1>2, <1>4 DEF DictInv, SlotsCounted
  <2>4. QED
    BY <2>1, <2>2, <2>3 DEF DictInv
<1>6. \A x \in Entries \ {k} : SaysSame(d, e, x)
  <2> SUFFICES ASSUME NEW x \in Entries \ {k} PROVE SaysSame(d, e, x)
    OBVIOUS
  <2>1. SlotsOf(d, x) = SlotsOf(e, x)
    BY <1>3, <1>4 DEF SlotsOf
  <2>2. \A p \in SlotsOf(d, x) : d.slot[p].val = e.slot[p].val
    BY <1>1, <1>3, <1>4 DEF SlotsOf
  <2>3. QED
    BY <1>5, <2>1, <2>2, SaysAlike
<1>7. m \in SlotsOf(e, k)
  BY <1>1, <1>3, <1>4 DEF SlotsOf
<1>8. D!Find(e, k) # {} /\ D!dictionary_get(e, k, NoValue) = v
  BY <1>3, <1>5, <1>7, GetIs
<1> QED BY <1>5, <1>6, <1>8 DEF e

\* The grown table has room, and says the same.
LEMMA Grown ==
  ASSUME IniConstants, NEW d, DictInv(d)
  PROVE  LET e == D!dictionary_grow(d)
         IN /\ DictInv(e) /\ e.n = d.n /\ e.size = 2 * d.size
            /\ \A x \in Entries : SaysSame(d, e, x)
<1> DEFINE e == D!dictionary_grow(d)
<1>1. /\ DOMAIN e = {"n", "size", "slot"} /\ e.n = d.n /\ e.size = 2 * d.size
      /\ e.slot = [p \in 0..2*d.size-1 |-> IF p < d.size THEN d.slot[p] ELSE D!Hole]
  BY DEF DictInv, TableShape, D!dictionary_grow
<1> HIDE DEF e
<1>2. d.size \in Nat \ {0} /\ d.slot \in [0..d.size-1 -> Slot]
  BY DEF DictInv, TableShape
<1>3. /\ e.size \in Nat \ {0} /\ 0..d.size-1 \subseteq 0..e.size-1
      /\ \A p \in 0..e.size-1 :
           e.slot[p] = IF p \in 0..d.size-1 THEN d.slot[p] ELSE D!Hole
  BY <1>1, <1>2
<1>4. FilledSlots(e) = FilledSlots(d) /\ FilledSlots(d) \subseteq 0..d.size-1
  BY <1>3, HoleIs DEF FilledSlots
<1>5. DictInv(e)
  <2>1. TableShape(e)
    BY <1>1, <1>2, <1>3, HoleIs DEF DictInv, TableShape
  <2>2. KeysApart(e)
    BY <1>3, <1>4 DEF DictInv, KeysApart
  <2>3. SlotsCounted(e)
    BY <1>1, <1>4 DEF DictInv, SlotsCounted
  <2>4. QED
    BY <2>1, <2>2, <2>3 DEF DictInv
<1>6. \A x \in Entries : SaysSame(d, e, x)
  <2> SUFFICES ASSUME NEW x \in Entries PROVE SaysSame(d, e, x)
    OBVIOUS
  <2>1. SlotsOf(d, x) = SlotsOf(e, x)
    BY <1>3, <1>4 DEF SlotsOf
  <2>2. \A p \in SlotsOf(d, x) : d.slot[p].val = e.slot[p].val
    BY <1>3, <1>4 DEF SlotsOf
  <2>3. QED
    BY <1>5, <2>1, <2>2, SaysAlike
<1> QED BY <1>1, <1>5, <1>6 DEF e

\* "because d->n < d->size this will necessarily terminate"
LEMMA HoleFound ==
  ASSUME NEW d, DictInv(d), d.n < d.size
  PROVE  D!FirstHole(d) \in 0..d.size-1 /\ d.slot[D!FirstHole(d)].key = NoValue
<1> DEFINE holes == {p \in 0..d.size-1 : d.slot[p].key = NoValue}
           after == {p \in holes : p >= d.n}
           S == IF after # {} THEN after ELSE holes
<1>1. d.n \in Nat /\ d.size \in Nat \ {0}
  BY DEF DictInv, TableShape
<1>2. holes # {}
  <2> SUFFICES ASSUME holes = {} PROVE FALSE
    OBVIOUS
  <2>1. FilledSlots(d) = 0..d.size-1
    BY DEF FilledSlots
  <2>2. Cardinality(0..d.size-1) = d.size
    BY <1>1, FS_Interval
  <2>3. QED
    BY <1>1, <2>1, <2>2 DEF DictInv, SlotsCounted
<1>3. S # {} /\ S \subseteq holes /\ holes \subseteq 0..d.size-1
  BY <1>2
<1>4. S \in SUBSET Nat
  BY <1>1, <1>3
<1>5. D!FirstHole(d) = D!Min(S)
  BY DEF D!FirstHole
<1> HIDE DEF S, holes
<1>6. PICK n \in S : \A m \in S : n <= m
  BY <1>3, <1>4, Least
<1>7. D!Min(S) \in S
  BY <1>6 DEF D!Min
<1> QED BY <1>3, <1>5, <1>7 DEF holes

\* A key that is not there takes a hole.
LEMMA Inserted ==
  ASSUME IniConstants, NEW d, DictInv(d), d.n < d.size, NEW k \in Entries,
         NEW v \in Values \cup {NoValue}, D!Find(d, k) = {}
  PROVE  LET e == D!Insert(d, k, v)
         IN /\ DictInv(e)
            /\ \A x \in Entries \ {k} : SaysSame(d, e, x)
            /\ D!Find(e, k) # {} /\ D!dictionary_get(e, k, NoValue) = v
<1> DEFINE e == D!Insert(d, k, v)
           h == D!FirstHole(d)
           new == [key |-> k, val |-> v, hash |-> IniHash[k]]
<1>1. h \in 0..d.size-1 /\ d.slot[h].key = NoValue
  BY HoleFound
<1>2. /\ DOMAIN e = {"n", "size", "slot"} /\ e.n = d.n + 1 /\ e.size = d.size
      /\ e.slot = [d.slot EXCEPT ![h] = new]
  BY DEF DictInv, TableShape, D!Insert
<1>3. new \in Slot /\ new.key = k /\ new.val = v /\ new.hash = IniHash[k]
  BY DEF Slot
<1>4. NoValue \notin Entries
  BY DEF IniConstants, D!DictionaryConstants
<1> HIDE DEF e, h, new
<1>5. /\ e.slot \in [0..d.size-1 -> Slot]
      /\ \A p \in 0..d.size-1 : e.slot[p] = IF p = h THEN new ELSE d.slot[p]
  BY <1>1, <1>2, <1>3 DEF DictInv, TableShape
<1>6. /\ FilledSlots(e) = FilledSlots(d) \cup {h} /\ h \notin FilledSlots(d)
      /\ FilledSlots(d) \subseteq 0..d.size-1
  BY <1>1, <1>2, <1>3, <1>4, <1>5 DEF FilledSlots
<1>7. \A p \in FilledSlots(d) : d.slot[p].key # k
  BY FoundAre DEF SlotsOf
<1>8. DictInv(e)
  <2>1. TableShape(e)
    BY <1>2, <1>5 DEF DictInv, TableShape
  <2>2. KeysApart(e)
    BY <1>1, <1>3, <1>5, <1>6, <1>7 DEF DictInv, KeysApart
  <2>3. SlotsCounted(e)
    BY <1>2, <1>6, FS_AddElement DEF DictInv, SlotsCounted
  <2>4. QED
    BY <2>1, <2>2, <2>3 DEF DictInv
<1>9. \A x \in Entries \ {k} : SaysSame(d, e, x)
  <2> SUFFICES ASSUME NEW x \in Entries \ {k} PROVE SaysSame(d, e, x)
    OBVIOUS
  <2>1. SlotsOf(d, x) = SlotsOf(e, x)
    BY <1>1, <1>3, <1>5, <1>6 DEF SlotsOf
  <2>2. \A p \in SlotsOf(d, x) : d.slot[p].val = e.slot[p].val
    BY <1>5, <1>6 DEF SlotsOf
  <2>3. QED
    BY <1>8, <2>1, <2>2, SaysAlike
<1>10. h \in SlotsOf(e, k) /\ e.slot[h].val = v
  BY <1>1, <1>3, <1>5, <1>6 DEF SlotsOf
<1>11. D!Find(e, k) # {} /\ D!dictionary_get(e, k, NoValue) = v
  BY <1>8, <1>10, GetIs
<1> QED BY <1>8, <1>9, <1>11 DEF e

LEMMA SetIs ==
  ASSUME IniConstants, NEW d, DictInv(d), NEW k \in Entries,
         NEW v \in Values \cup {NoValue}, NEW e, e = D!dictionary_set(d, k, v)
  PROVE  /\ DictInv(e)
         /\ D!Map(e) = Put(D!Map(d), k, v)
<1> SUFFICES /\ DictInv(e)
             /\ \A x \in Entries \ {k} : SaysSame(d, e, x)
             /\ D!Find(e, k) # {} /\ D!dictionary_get(e, k, NoValue) = v
  BY MapSet
<1>1. CASE D!Find(d, k) # {}
  <2>1. PICK m \in D!Find(d, k) : TRUE
    BY <1>1
  <2>2. D!Min(D!Find(d, k)) = m
    BY FoundOne
  <2>3. e = [d EXCEPT !.slot[m].val = v]
    BY <1>1, <2>2 DEF D!dictionary_set
  <2>4. /\ DictInv([d EXCEPT !.slot[m].val = v])
        /\ \A x \in Entries \ {k} : SaysSame(d, [d EXCEPT !.slot[m].val = v], x)
        /\ D!Find([d EXCEPT !.slot[m].val = v], k) # {}
        /\ D!dictionary_get([d EXCEPT !.slot[m].val = v], k, NoValue) = v
    BY <2>1, SetThere
  <2>5. QED
    BY <2>3, <2>4
<1>2. CASE D!Find(d, k) = {} /\ d.n # d.size
  <2>1. d.n < d.size
    <3>1. d.n <= d.size
      <4>1. IsFiniteSet(0..d.size-1) /\ Cardinality(0..d.size-1) = d.size
        BY FS_Interval DEF DictInv, TableShape
      <4>2. FilledSlots(d) \in SUBSET (0..d.size-1)
        BY DEF FilledSlots
      <4>3. QED
        BY <4>1, <4>2, FS_Subset DEF DictInv, SlotsCounted
    <3>2. QED
      BY <1>2, <3>1 DEF DictInv, TableShape
  <2>2. e = D!Insert(d, k, v)
    BY <1>2 DEF D!dictionary_set
  <2>3. QED
    BY <1>2, <2>1, <2>2, Inserted
<1>3. CASE D!Find(d, k) = {} /\ d.n = d.size
  <2> DEFINE g == D!dictionary_grow(d)
  <2>1. /\ DictInv(g) /\ g.n = d.n /\ g.size = 2 * d.size
        /\ \A x \in Entries : SaysSame(d, g, x)
    BY Grown
  <2>2. e = D!Insert(g, k, v)
    BY <1>3 DEF D!dictionary_set
  <2> HIDE DEF g
  <2>3. g.n < g.size
    BY <1>3, <2>1 DEF DictInv, TableShape
  <2>4. D!Find(g, k) = {}
    BY <1>3, <2>1 DEF SaysSame
  <2>5. /\ DictInv(e)
        /\ \A x \in Entries \ {k} : SaysSame(g, e, x)
        /\ D!Find(e, k) # {} /\ D!dictionary_get(e, k, NoValue) = v
    BY <2>1, <2>2, <2>3, <2>4, Inserted
  <2>6. \A x \in Entries \ {k} : SaysSame(d, e, x)
    BY <2>1, <2>5 DEF SaysSame
  <2>7. QED
    BY <2>5, <2>6
<1> QED BY <1>1, <1>2, <1>3

LEMMA UnsetIs ==
  ASSUME IniConstants, NEW d, DictInv(d), NEW k \in Entries,
         NEW e, e = D!dictionary_unset(d, k)
  PROVE  DictInv(e) /\ D!Map(e) = Without(D!Map(d), k)
<1> SUFFICES /\ DictInv(e)
             /\ \A x \in Entries \ {k} : SaysSame(d, e, x)
             /\ D!Find(e, k) = {}
  BY MapUnset
<1>1. CASE D!Find(d, k) = {}
  <2>1. e = d
    BY <1>1 DEF D!dictionary_unset
  <2>2. QED
    BY <1>1, <2>1 DEF SaysSame
<1>2. ASSUME NEW m \in D!Find(d, k)
      PROVE  /\ DictInv(e)
             /\ \A x \in Entries \ {k} : SaysSame(d, e, x)
             /\ D!Find(e, k) = {}
  <2>1. m \in FilledSlots(d) /\ m \in 0..d.size-1 /\ d.slot[m].key = k /\ D!Min(D!Find(d, k)) = m
    BY <1>2, FoundOne
  <2>2. /\ DOMAIN e = {"n", "size", "slot"} /\ e.n = d.n - 1 /\ e.size = d.size
        /\ e.slot = [d.slot EXCEPT ![m] = D!Hole]
    BY <1>2, <2>1 DEF DictInv, TableShape, D!dictionary_unset
  <2>3. /\ e.slot \in [0..d.size-1 -> Slot]
        /\ \A p \in 0..d.size-1 : e.slot[p] = IF p = m THEN D!Hole ELSE d.slot[p]
    BY <2>1, <2>2, HoleIs DEF DictInv, TableShape
  <2>4. FilledSlots(e) = FilledSlots(d) \ {m} /\ FilledSlots(d) \subseteq 0..d.size-1
    BY <2>1, <2>2, <2>3, HoleIs DEF FilledSlots
  <2>5. /\ IsFiniteSet(FilledSlots(e)) /\ Cardinality(FilledSlots(e)) = d.n - 1
        /\ d.n - 1 \in Nat
    <3>1. IsFiniteSet(FilledSlots(d)) /\ Cardinality(FilledSlots(d)) = d.n
      BY DEF DictInv, SlotsCounted
    <3>2. IsFiniteSet(FilledSlots(e)) /\ Cardinality(FilledSlots(e)) = d.n - 1
      BY <2>1, <2>4, <3>1, FS_RemoveElement
    <3>3. d.n - 1 \in Nat
      BY <3>2, FS_CardinalityType
    <3>4. QED
      BY <3>2, <3>3
  <2>6. DictInv(e)
    <3>1. TableShape(e)
      BY <2>2, <2>3, <2>5 DEF DictInv, TableShape
    <3>2. KeysApart(e)
      BY <2>3, <2>4 DEF DictInv, KeysApart
    <3>3. SlotsCounted(e)
      BY <2>2, <2>5 DEF SlotsCounted
    <3>4. QED
      BY <3>1, <3>2, <3>3 DEF DictInv
  <2>7. \A x \in Entries \ {k} : SaysSame(d, e, x)
    <3> SUFFICES ASSUME NEW x \in Entries \ {k} PROVE SaysSame(d, e, x)
      OBVIOUS
    <3>1. SlotsOf(d, x) = SlotsOf(e, x)
      BY <2>1, <2>3, <2>4 DEF SlotsOf
    <3>2. \A p \in SlotsOf(d, x) : d.slot[p].val = e.slot[p].val
      BY <2>1, <2>3, <2>4 DEF SlotsOf
    <3>3. QED
      BY <2>6, <3>1, <3>2, SaysAlike
  <2>8. SlotsOf(e, k) = {}
    BY <2>1, <2>3, <2>4 DEF SlotsOf, DictInv, KeysApart
  <2>9. D!Find(e, k) = {}
    BY <2>6, <2>8, FoundAre
  <2>10. QED
    BY <2>6, <2>7, <2>9
<1> QED BY <1>1, <1>2

LEMMA ConfigurationNextInv ==
  ASSUME ConfigurationConstants, DictInv(dict), [ConfigurationNext]_<<dict, text>>
  PROVE  DictInv(dict)'
<1>1. CASE Set
  <2>1. PICK k \in Entries, v \in Values \cup {NoValue} : dict' = D!dictionary_set(dict, k, v)
    BY <1>1 DEF Set, ConfigurationConstants
  <2>2. DictInv(dict')
    BY <2>1, SetIs DEF ConfigurationConstants
  <2>3. QED
    BY <2>2
<1>2. CASE Unset
  BY <1>2, UnsetIs DEF Unset, ConfigurationConstants
<1>3. CASE UNCHANGED dict
  <2>1. dict' = dict
    BY <1>3
  <2>2. QED
    BY <2>1
<1> QED BY <1>1, <1>2, <1>3 DEF ConfigurationNext

LEMMA InvCounts == ASSUME ConfigurationConstants, DictInv(dict) PROVE CountsEntries
<1>1. FilledSlots(dict) = {p \in 0..dict.size-1 : dict.slot[p].key # NoValue}
  BY DEF FilledSlots
<1> DEFINE key == [p \in FilledSlots(dict) |-> dict.slot[p].key]
<1>2. key \in Bijection(FilledSlots(dict), D!Keys(dict))
  <2>1. D!Keys(dict) = {dict.slot[p].key : p \in FilledSlots(dict)}
    BY DEF D!Keys, FilledSlots
  <2>2. key \in [FilledSlots(dict) -> D!Keys(dict)]
    BY <2>1
  <2>3. IsInjective(key)
    BY DEF IsInjective, DictInv, KeysApart
  <2>4. \A k \in D!Keys(dict) : \E p \in FilledSlots(dict) : key[p] = k
    BY <2>1
  <2>5. QED
    BY <2>2, <2>3, <2>4 DEF Bijection, Injection, Surjection
<1>3. Cardinality(D!Keys(dict)) = Cardinality(FilledSlots(dict))
  <2>1. ExistsBijection(FilledSlots(dict), D!Keys(dict))
    BY <1>2 DEF ExistsBijection
  <2>2. QED
    BY <2>1, FS_Bijection DEF DictInv, SlotsCounted
<1> QED BY <1>1, <1>3 DEF CountsEntries, DictInv, SlotsCounted

\* The dictionary is the map its users take it for, whatever collides, is removed and
\* entered again, and however it grows: each slot that is taken is counted, so the search
\* for a hole ends.
THEOREM DictionaryIsMap ==
  ASSUME ConfigurationConstants
  PROVE  ConfigurationSpec => IsMap /\ []CountsEntries
<1>1. ConfigurationInit => DictInv(dict)
  BY NewInv DEF ConfigurationInit, ConfigurationConstants
<1>2. DictInv(dict) /\ [ConfigurationNext]_<<dict, text>> => DictInv(dict)'
  BY ConfigurationNextInv
<1>3. DictInv(dict) => CountsEntries
  BY InvCounts
<1> DEFINE m == D!Map(dict)
           w == D!Map(dict)'
           Follows ==
             \A k \in DictKeys :
               /\ \A v \in DictValues \cup {NoValue} :
                    dict' = D!dictionary_set(dict, k, v) =>
                      w = [x \in DOMAIN m \cup {k} |-> IF x = k THEN v ELSE m[x]]
               /\ dict' = D!dictionary_unset(dict, k) => w = [x \in DOMAIN m \ {k} |-> m[x]]
<1>4. DictInv(dict) => Follows
  <2> SUFFICES ASSUME DictInv(dict) PROVE Follows
    OBVIOUS
  <2>1. w = D!Map(dict')
    OBVIOUS
  <2>2. ASSUME NEW k \in DictKeys, NEW v \in DictValues \cup {NoValue},
               dict' = D!dictionary_set(dict, k, v)
        PROVE  w = [x \in DOMAIN m \cup {k} |-> IF x = k THEN v ELSE m[x]]
    <3>1. IniConstants /\ k \in Entries /\ v \in Values \cup {NoValue}
      BY DEF ConfigurationConstants
    <3>2. D!Map(dict') = Put(m, k, v)
      BY <2>2, <3>1, SetIs
    <3>3. QED
      BY <2>1, <3>2 DEF Put
  <2>3. ASSUME NEW k \in DictKeys, dict' = D!dictionary_unset(dict, k)
        PROVE  w = [x \in DOMAIN m \ {k} |-> m[x]]
    <3>1. IniConstants /\ k \in Entries
      BY DEF ConfigurationConstants
    <3>2. D!Map(dict') = Without(m, k)
      BY <2>3, <3>1, UnsetIs
    <3>3. QED
      BY <2>1, <3>2 DEF Without
  <2>4. QED
    BY <2>2, <2>3
<1>5. IsMap <=> [][Follows]_dict
  BY DEF IsMap
<1> HIDE DEF Follows
<1> QED BY <1>1, <1>2, <1>3, <1>4, <1>5, PTL DEF ConfigurationSpec

------------------------------------------------------------------------------
(* iniparser_load(): the lines one after the other                         *)

\* The greatest of numbers.
LEMMA MaxIs ==
  ASSUME NEW s, NEW m \in s, s \subseteq Int, \A y \in s : m >= y PROVE Max(s) = m
<1>1. \A x \in s : (\A y \in s : x >= y) => x = m
  OBVIOUS
<1>2. QED
  BY <1>1 DEF Max

\* The greatest of the first n + 1 numbers, and the numbers below one.
LEMMA MaxLast ==
  ASSUME NEW n \in Nat, NEW s \in SUBSET (1..(n + 1)), n + 1 \in s PROVE Max(s) = n + 1
<1>1. s \subseteq Int /\ \A y \in s : n + 1 >= y
  OBVIOUS
<1>2. QED
  BY <1>1, MaxIs

LEMMA UpTo ==
  ASSUME NEW n \in Nat, NEW k \in 1..n
  PROVE  /\ 1..k \in SUBSET (1..n) /\ 1..k # {} /\ (1..k) \ {k} = 1..(k - 1)
         /\ Max(1..k) = k
<1>1. k \in 1..k /\ 1..k \subseteq Int /\ \A y \in 1..k : k >= y
  OBVIOUS
<1>2. Max(1..k) = k
  BY <1>1, MaxIs
<1>3. QED
  BY <1>1, <1>2

\* g[s] is what the lines numbered s make.
LoadFills(g, lines, n) ==
  g = [s \in SUBSET (1..n) |->
         IF s = {} THEN NothingLoaded ELSE LoadLine(g[s \ {Max(s)}], lines[Max(s)])]

\* FoldLeft takes the lines from the last one down; what it computes exists, and the
\* states between the lines are a trace of it.
LEMMA LoadIs ==
  ASSUME NEW lines, NEW n \in Nat, DOMAIN lines = 1..n
  PROVE  Loaded(lines) = (CHOOSE g : LoadFills(g, lines, n))[1..n]
  BY Zenon DEF Loaded, FoldLeft, MapThenFoldSet, LoadFills

LEMMA LoadFillsExists ==
  ASSUME NEW lines
  PROVE  \A n \in Nat : \E g : LoadFills(g, lines, n)
<1> DEFINE T == {n \in Nat : \E g : LoadFills(g, lines, n)}
<1>1. 0 \in T
  <2> DEFINE g == [s \in SUBSET (1..0) |-> NothingLoaded]
  <2>1. \A s \in SUBSET (1..0) : s = {}
    OBVIOUS
  <2>2. LoadFills(g, lines, 0)
    BY <2>1 DEF LoadFills
  <2>3. QED
    BY <2>2
<1>2. ASSUME NEW n \in Nat, n \in T PROVE n + 1 \in T
  <2>1. PICK g : LoadFills(g, lines, n)
    BY <1>2
  <2> DEFINE h == [s \in SUBSET (1..(n + 1)) |->
                     IF n + 1 \in s THEN LoadLine(g[s \ {n + 1}], lines[n + 1]) ELSE g[s]]
  <2>2. ASSUME NEW s \in SUBSET (1..(n + 1))
        PROVE  h[s] = IF s = {} THEN NothingLoaded ELSE LoadLine(h[s \ {Max(s)}], lines[Max(s)])
    <3>1. CASE n + 1 \in s
      <4>1. Max(s) = n + 1
        BY <3>1, MaxLast
      <4>2. h[s \ {n + 1}] = g[s \ {n + 1}]
        OBVIOUS
      <4>3. QED
        BY <3>1, <4>1, <4>2
    <3>2. CASE n + 1 \notin s
      <4>1. s \in SUBSET (1..n) /\ s \ {Max(s)} \in SUBSET (1..n)
        <5>1. \A y \in s : y \in 1..n
          BY <3>2
        <5>2. QED
          BY <5>1
      <4>2. h[s] = g[s] /\ h[s \ {Max(s)}] = g[s \ {Max(s)}]
        BY <3>2, <4>1
      <4>3. g[s] = IF s = {} THEN NothingLoaded ELSE LoadLine(g[s \ {Max(s)}], lines[Max(s)])
        BY <2>1, <4>1, Zenon DEF LoadFills
      <4>4. QED
        BY <4>2, <4>3
    <3>3. QED
      BY <3>1, <3>2
  <2>3. LoadFills(h, lines, n + 1)
    BY <2>2, Zenon DEF LoadFills
  <2>4. QED
    BY <2>3
<1> HIDE DEF T
<1>3. Nat \subseteq T
  BY <1>1, <1>2, Induction
<1>4. QED
  BY <1>3 DEF T

\* st is what is known after each of the lines.
LoadSteps(st, lines, n) ==
  /\ st[0] = NothingLoaded
  /\ \A k \in 1..n : st[k] = LoadLine(st[k - 1], lines[k])

LEMMA LoadTrace ==
  ASSUME NEW lines, NEW n \in Nat, DOMAIN lines = 1..n
  PROVE  \E st : LoadSteps(st, lines, n) /\ Loaded(lines) = st[n]
<1>1. PICK g : LoadFills(g, lines, n) /\ Loaded(lines) = g[1..n]
  BY LoadFillsExists, LoadIs
<1> DEFINE st == [k \in 0..n |-> g[1..k]]
<1>2. st[0] = NothingLoaded
  <2>1. 1..0 = {} /\ {} \in SUBSET (1..n)
    OBVIOUS
  <2>2. g[{}] = NothingLoaded
    BY <1>1, <2>1, Zenon DEF LoadFills
  <2>3. QED
    BY <2>1, <2>2
<1>3. ASSUME NEW k \in 1..n PROVE st[k] = LoadLine(st[k - 1], lines[k])
  <2>1. 1..k \in SUBSET (1..n) /\ 1..k # {} /\ (1..k) \ {k} = 1..(k - 1) /\ Max(1..k) = k
    BY UpTo
  <2>2. g[1..k] = LoadLine(g[(1..k) \ {Max(1..k)}], lines[Max(1..k)])
    BY <1>1, <2>1, Zenon DEF LoadFills
  <2>3. st[k] = g[1..k] /\ st[k - 1] = g[1..(k - 1)]
    OBVIOUS
  <2>4. QED
    BY <2>1, <2>2, <2>3
<1>4. Loaded(lines) = st[n]
  BY <1>1
<1> HIDE DEF st
<1>5. QED
  BY <1>2, <1>3, <1>4 DEF LoadSteps

------------------------------------------------------------------------------
(* What a line of the configuration file is to the parser                    *)

JoinedLines == [form : Forms, name : Names, val : Values, more : BOOLEAN]

\* What is known of a file between two lines.
LoadShape(st) ==
  /\ st = [d |-> st.d, section |-> st.section, last |-> st.last, errs |-> st.errs, failed |-> st.failed]
  /\ DictInv(st.d)
  /\ st.section \in Names \cup {NoSection}
  /\ st.last = <<>> \/ \E l \in JoinedLines : st.last = <<l>>
  /\ st.errs \in Nat /\ st.failed \in BOOLEAN

\* The entry a line makes, and its value.
Enters(l) == l.form \in {"section", "quoted", "plain"}
EntryOf(section, l) ==
  IF l.form = "section" THEN <<Lower[l.name]>> ELSE <<section, Lower[l.name]>>
ValueOf(l) ==
  IF l.form = "section" THEN NoValue ELSE IF l.form = "quoted" THEN l.val ELSE UpToComment(l.val)

\* What the entries of a table are after a line.
PutLine(m, section, l) == IF Enters(l) THEN Put(m, EntryOf(section, l), ValueOf(l)) ELSE m

\* A comment, and the text before it, are of the words of the value.
LEMMA CommentCut ==
  ASSUME NEW S, NEW val \in Seq(S) PROVE UpToComment(val) \in Seq(S)
<1>1. Len(val) \in Nat /\ \A m \in 0..Len(val) : SubSeq(val, 1, m) \in Seq(S)
  OBVIOUS
<1> DEFINE marks == {k \in 1..Len(val) : val[k] = Mark}
<1>2. CASE marks = {}
  BY <1>2 DEF UpToComment
<1>3. CASE marks # {}
  <2>1. marks \in SUBSET Nat
    BY <1>1
  <2>2. PICK n \in marks : \A m \in marks : n <= m
    BY <1>3, <2>1, Least
  <2>3. Min(marks) \in marks
    BY <2>2 DEF Min
  <2>4. UpToComment(val) = SubSeq(val, 1, Min(marks) - 1)
    BY <1>3 DEF UpToComment
  <2>5. Min(marks) - 1 \in 0..Len(val)
    BY <1>1, <2>3
  <2>6. QED
    BY <1>1, <2>4, <2>5
<1>4. QED
  BY <1>2, <1>3

\* A line that enters something enters a key of the table.
LEMMA EntryTypes ==
  ASSUME IniConstants, NEW section \in Names \cup {NoSection}, NEW l \in JoinedLines, Enters(l)
  PROVE  EntryOf(section, l) \in Entries /\ ValueOf(l) \in Values \cup {NoValue}
<1>1. Lower[l.name] \in Names /\ l.val \in Values
  BY DEF IniConstants, JoinedLines
<1>2. EntryOf(section, l) \in Entries
  BY <1>1 DEF EntryOf, Entries
<1>3. UpToComment(l.val) \in Values
  BY <1>1, CommentCut DEF Values
<1>4. QED
  BY <1>1, <1>2, <1>3 DEF ValueOf

\* A line is entered.
LEMMA EnterIs ==
  ASSUME IniConstants, NEW st, LoadShape(st), NEW l \in JoinedLines, NEW e, e = Enter(st, l)
  PROVE  /\ LoadShape(e) /\ e.last = st.last /\ e.failed = st.failed
         /\ e.errs = IF l.form = "junk" THEN st.errs + 1 ELSE st.errs
         /\ e.section = IF l.form = "section" THEN Lower[l.name] ELSE st.section
         /\ D!Map(e.d) = PutLine(D!Map(st.d), st.section, l)
<1>1. Lower[l.name] \in Names
  BY DEF IniConstants, JoinedLines
<1>2. CASE Enters(l)
  <2>1. EntryOf(st.section, l) \in Entries /\ ValueOf(l) \in Values \cup {NoValue}
    BY <1>2, EntryTypes DEF LoadShape
  <2>2. PICK d : d = D!dictionary_set(st.d, EntryOf(st.section, l), ValueOf(l))
    OBVIOUS
  <2>3. DictInv(d) /\ D!Map(d) = Put(D!Map(st.d), EntryOf(st.section, l), ValueOf(l))
    BY <2>1, <2>2, SetIs DEF LoadShape
  <2>4. D!Map(d) = PutLine(D!Map(st.d), st.section, l)
    BY <1>2, <2>3 DEF PutLine
  <2>5. CASE l.form = "section"
    <3>1. e = [st EXCEPT !.section = Lower[l.name], !.d = d]
      BY <2>2, <2>5 DEF Enter, EntryOf, ValueOf
    <3>2. /\ e = [d |-> e.d, section |-> e.section, last |-> e.last, errs |-> e.errs, failed |-> e.failed]
          /\ e.d = d
          /\ e.section = Lower[l.name] /\ e.last = st.last /\ e.errs = st.errs /\ e.failed = st.failed
      BY <3>1 DEF LoadShape
    <3>3. QED
      BY <1>1, <2>3, <2>4, <2>5, <3>2 DEF LoadShape
  <2>6. CASE l.form \in {"quoted", "plain"}
    <3>1. e = [st EXCEPT !.d = d]
      BY <2>2, <2>6 DEF Enter, EntryOf, ValueOf
    <3>2. /\ e = [d |-> e.d, section |-> e.section, last |-> e.last, errs |-> e.errs, failed |-> e.failed]
          /\ e.d = d
          /\ e.section = st.section /\ e.last = st.last /\ e.errs = st.errs /\ e.failed = st.failed
      BY <3>1 DEF LoadShape
    <3>3. QED
      BY <2>3, <2>4, <2>6, <3>2 DEF LoadShape
  <2>7. QED
    BY <1>2, <2>5, <2>6 DEF Enters
<1>3. CASE l.form = "junk"
  <2>1. e = [st EXCEPT !.errs = @ + 1]
    BY <1>3 DEF Enter
  <2>2. /\ e = [d |-> e.d, section |-> e.section, last |-> e.last, errs |-> e.errs, failed |-> e.failed]
          /\ e.d = st.d
        /\ e.section = st.section /\ e.last = st.last /\ e.errs = st.errs + 1 /\ e.failed = st.failed
    BY <2>1 DEF LoadShape
  <2>3. QED
    BY <1>3, <2>2 DEF LoadShape, PutLine, Enters
<1>4. CASE ~Enters(l) /\ l.form # "junk"
  <2>1. e = st
    BY <1>4 DEF Enter, Enters
  <2>2. QED
    BY <1>4, <2>1 DEF LoadShape, PutLine, Enters
<1>5. QED
  BY <1>2, <1>3, <1>4

\* What a reader is told of an entry.
Told(m, x) == IF x \in DOMAIN m THEN m[x] ELSE NotThere

\* What a reader is told of an entry is what the table holds.
LEMMA ToldIs ==
  ASSUME IniConstants, NEW d, DictInv(d), NEW x \in Entries
  PROVE  iniparser_getstring(d, x) = Told(D!Map(d), x)
<1>1. DOMAIN D!Map(d) = D!Keys(d)
  BY DEF D!Map
<1>2. x \in D!Keys(d) <=> D!Find(d, x) # {}
  BY KeysAre
<1>3. CASE x \in D!Keys(d)
  <2>1. D!Map(d)[x] = D!dictionary_get(d, x, NoValue)
    BY <1>3 DEF D!Map
  <2>2. QED
    BY <1>1, <1>2, <1>3, <2>1 DEF iniparser_getstring, Told, D!dictionary_get
<1>4. CASE x \notin D!Keys(d)
  BY <1>1, <1>2, <1>4 DEF iniparser_getstring, Told, D!dictionary_get
<1>5. QED
  BY <1>3, <1>4

\* iniparser_load() begins with nothing.
LEMMA NothingShape ==
  ASSUME IniConstants
  PROVE  /\ LoadShape(NothingLoaded) /\ D!Map(NothingLoaded.d) = [x \in {} |-> NoValue]
         /\ NothingLoaded.section = NoSection /\ NothingLoaded.last = <<>>
         /\ NothingLoaded.errs = 0 /\ ~NothingLoaded.failed
<1>1. DictInv(D!dictionary_new)
  BY NewInv
<1>2. D!Keys(D!dictionary_new) = {}
  <2>1. MinSize \in Nat \ {0}
    BY DEF IniConstants, D!DictionaryConstants
  <2>2. \A p \in 0..MinSize - 1 : D!dictionary_new.slot[p].key = NoValue
    BY <2>1, HoleIs DEF D!dictionary_new
  <2>3. D!dictionary_new.size = MinSize
    BY DEF D!dictionary_new
  <2>4. QED
    BY <2>2, <2>3 DEF D!Keys
<1>3. D!Map(D!dictionary_new) = [x \in {} |-> NoValue]
  BY <1>2 DEF D!Map
<1>4. QED
  BY <1>1, <1>3 DEF LoadShape, NothingLoaded

------------------------------------------------------------------------------
(* A file none of whose lines goes on in the next one                        *)

\* A line stands for itself before lines are joined.
LEMMA LineJoins == Lines \subseteq JoinedLines
<1>1. ASSUME NEW A, NEW B, A \subseteq B, NEW s \in Seq(A) PROVE s \in Seq(B)
  BY <1>1
<1>2. LineValues \subseteq Values
  <2>1. Words \cup {Mark} \subseteq Words \cup {Mark} \cup Names
    OBVIOUS
  <2>2. QED
    BY <1>1, <2>1 DEF LineValues, Values
<1>3. QED
  BY <1>2 DEF Lines, JoinedLines

LEMMA LineSequences == Seq(Lines) \subseteq Seq(JoinedLines)
<1>1. \A A, B : A \subseteq B => Seq(A) \subseteq Seq(B)
  OBVIOUS
<1>2. QED
  BY <1>1, LineJoins

\* One line of such a file.
LEMMA LoadLineIs ==
  ASSUME IniConstants, NEW st, LoadShape(st), st.last = <<>>, NEW l \in JoinedLines, ~l.more,
         NEW e, e = LoadLine(st, l)
  PROVE  /\ LoadShape(e) /\ e.last = <<>>
         /\ st.failed \/ l.form = "long" => e.failed
         /\ ~st.failed /\ l.form # "long" =>
              /\ ~e.failed
              /\ e.errs = IF l.form = "junk" THEN st.errs + 1 ELSE st.errs
              /\ e.section = IF l.form = "section" THEN Lower[l.name] ELSE st.section
              /\ D!Map(e.d) = PutLine(D!Map(st.d), st.section, l)
<1>2. CASE st.failed
  BY <1>2 DEF LoadLine
<1>3. CASE ~st.failed /\ l.form = "long"
  <2>1. e = [st EXCEPT !.failed = TRUE]
    BY <1>3 DEF LoadLine
  <2>2. /\ e = [d |-> e.d, section |-> e.section, last |-> e.last, errs |-> e.errs, failed |-> e.failed]
          /\ e.d = st.d
        /\ e.section = st.section /\ e.last = st.last /\ e.errs = st.errs /\ e.failed = TRUE
    BY <2>1 DEF LoadShape
  <2>3. QED
    BY <1>3, <2>2 DEF LoadShape
<1>4. CASE ~st.failed /\ l.form # "long"
  <2>1. e = Enter([st EXCEPT !.last = <<>>], l)
    BY <1>4 DEF LoadLine
  <2>2. [st EXCEPT !.last = <<>>] = st
    BY DEF LoadShape
  <2>3. e = Enter(st, l)
    BY <2>1, <2>2
  <2>4. /\ LoadShape(e) /\ e.last = st.last /\ e.failed = st.failed
        /\ e.errs = IF l.form = "junk" THEN st.errs + 1 ELSE st.errs
        /\ e.section = IF l.form = "section" THEN Lower[l.name] ELSE st.section
        /\ D!Map(e.d) = PutLine(D!Map(st.d), st.section, l)
    BY <2>3, EnterIs
  <2>5. QED
    BY <1>4, <2>4
<1>5. QED
  BY <1>2, <1>3, <1>4

Straight(f) == f \in Seq(JoinedLines) /\ \A k \in 1..Len(f) : ~f[k].more

\* In a file without continued lines no line waits for the next one.
LEMMA LoadKeeps ==
  ASSUME IniConstants, NEW f, Straight(f), NEW st, LoadSteps(st, f, Len(f))
  PROVE  \A k \in 0..Len(f) : LoadShape(st[k]) /\ st[k].last = <<>>
<1> DEFINE T == {k \in Nat : k \in 0..Len(f) => LoadShape(st[k]) /\ st[k].last = <<>>}
<1>1. 0 \in T
  BY NothingShape DEF LoadSteps
<1>2. ASSUME NEW k \in Nat, k \in T PROVE k + 1 \in T
  <2> SUFFICES ASSUME k + 1 \in 0..Len(f) PROVE LoadShape(st[k + 1]) /\ st[k + 1].last = <<>>
    OBVIOUS
  <2>1. k + 1 \in 1..Len(f) /\ k \in 0..Len(f) /\ (k + 1) - 1 = k
    BY DEF Straight
  <2>2. f[k + 1] \in JoinedLines /\ ~f[k + 1].more
    BY <2>1 DEF Straight
  <2>3. st[k + 1] = LoadLine(st[k], f[k + 1])
    BY <2>1 DEF LoadSteps
  <2>4. QED
    BY <1>2, <2>1, <2>2, <2>3, LoadLineIs
<1> HIDE DEF T
<1>3. Nat \subseteq T
  BY <1>1, <1>2, Induction
<1>4. QED
  BY <1>3 DEF T, Straight

\* A file every line of which is understood.
Ordinary(f) == Straight(f) /\ \A k \in 1..Len(f) : f[k].form \notin {"junk", "long"}

Section(section, l) == IF l.form = "section" THEN Lower[l.name] ELSE section

\* A file of lines it understands iniparser reads to its end.
LEMMA OrdinaryFluent ==
  ASSUME IniConstants, NEW f, Ordinary(f), NEW st, LoadSteps(st, f, Len(f))
  PROVE  \A k \in 0..Len(f) : ~st[k].failed /\ st[k].errs = 0
<1> DEFINE T == {k \in Nat : k \in 0..Len(f) => ~st[k].failed /\ st[k].errs = 0}
<1>0. Straight(f) /\ \A k \in 0..Len(f) : LoadShape(st[k]) /\ st[k].last = <<>>
  BY LoadKeeps DEF Ordinary
<1>1. 0 \in T
  BY NothingShape DEF LoadSteps
<1>2. ASSUME NEW k \in Nat, k \in T PROVE k + 1 \in T
  <2> SUFFICES ASSUME k + 1 \in 0..Len(f) PROVE ~st[k + 1].failed /\ st[k + 1].errs = 0
    OBVIOUS
  <2>1. k + 1 \in 1..Len(f) /\ k \in 0..Len(f) /\ (k + 1) - 1 = k
    BY DEF Ordinary, Straight
  <2>2. f[k + 1] \in JoinedLines /\ ~f[k + 1].more /\ f[k + 1].form \notin {"junk", "long"}
    BY <2>1 DEF Ordinary, Straight
  <2>3. st[k + 1] = LoadLine(st[k], f[k + 1])
    BY <2>1 DEF LoadSteps
  <2>4. LoadShape(st[k]) /\ st[k].last = <<>> /\ ~st[k].failed /\ st[k].errs = 0
    BY <1>0, <1>2, <2>1
  <2>5. QED
    BY <2>2, <2>3, <2>4, LoadLineIs
<1> HIDE DEF T
<1>3. Nat \subseteq T
  BY <1>1, <1>2, Induction
<1>4. QED
  BY <1>3 DEF T, Ordinary, Straight

\* What each line does to the section and the entries.
LEMMA OrdinaryStep ==
  ASSUME IniConstants, NEW f, Ordinary(f), NEW st, LoadSteps(st, f, Len(f)), NEW k \in 1..Len(f)
  PROVE  /\ st[k].section = Section(st[k - 1].section, f[k])
         /\ D!Map(st[k].d) = PutLine(D!Map(st[k - 1].d), st[k - 1].section, f[k])
<1>1. k - 1 \in 0..Len(f)
  BY DEF Ordinary, Straight
<1>2. f[k] \in JoinedLines /\ ~f[k].more /\ f[k].form \notin {"junk", "long"}
  BY DEF Ordinary, Straight
<1>3. st[k] = LoadLine(st[k - 1], f[k])
  BY DEF LoadSteps
<1>4. LoadShape(st[k - 1]) /\ st[k - 1].last = <<>> /\ ~st[k - 1].failed
  BY <1>1, LoadKeeps, OrdinaryFluent DEF Ordinary
<1>5. QED
  BY <1>2, <1>3, <1>4, LoadLineIs DEF Section

\* And its reader gets a dictionary.
LEMMA OrdinaryReads ==
  ASSUME IniConstants, NEW f, Ordinary(f)
  PROVE  /\ Readable(f)
         /\ \E st : LoadSteps(st, f, Len(f)) /\ Loaded(f) = st[Len(f)]
<1>1. Len(f) \in Nat /\ DOMAIN f = 1..Len(f)
  BY DEF Ordinary, Straight
<1>2. PICK st : LoadSteps(st, f, Len(f)) /\ Loaded(f) = st[Len(f)]
  BY <1>1, LoadTrace
<1>3. Len(f) \in 0..Len(f)
  BY <1>1
<1>4. Readable(f)
  BY <1>2, <1>3, OrdinaryFluent DEF Readable
<1>5. QED
  BY <1>2, <1>4

\* A line that is not understood is not forgotten.
LEMMA StrangeRefused ==
  ASSUME IniConstants, NEW f, Straight(f), NEW j \in 1..Len(f), f[j].form \in {"junk", "long"}
  PROVE  ~Readable(f)
<1>1. Len(f) \in Nat /\ DOMAIN f = 1..Len(f)
  BY DEF Straight
<1>2. PICK st : LoadSteps(st, f, Len(f)) /\ Loaded(f) = st[Len(f)]
  BY <1>1, LoadTrace
<1> DEFINE Refused(k) == st[k].failed \/ st[k].errs > 0
           T == {k \in Nat : k \in j..Len(f) => Refused(k)}
<1>3. ASSUME NEW k \in Nat, k + 1 \in 1..Len(f), k + 1 = j \/ Refused(k) PROVE Refused(k + 1)
  <2>1. k \in 0..Len(f) /\ (k + 1) - 1 = k
    BY <1>1, <1>3
  <2>2. f[k + 1] \in JoinedLines /\ ~f[k + 1].more
    BY <1>3 DEF Straight
  <2>3. st[k + 1] = LoadLine(st[k], f[k + 1])
    BY <1>2, <1>3, <2>1 DEF LoadSteps
  <2>4. LoadShape(st[k]) /\ st[k].last = <<>>
    BY <1>2, <2>1, LoadKeeps
  <2>5. st[k].errs \in Nat
    BY <2>4 DEF LoadShape
  <2>6. /\ st[k].failed \/ f[k + 1].form = "long" => st[k + 1].failed
        /\ ~st[k].failed /\ f[k + 1].form # "long" =>
             st[k + 1].errs = IF f[k + 1].form = "junk" THEN st[k].errs + 1 ELSE st[k].errs
    <3> HIDE DEF T, Refused
    <3>1. QED
      BY <2>2, <2>3, <2>4, LoadLineIs
  <2>7. st[k].errs + 1 > 0
    BY <2>5
  <2>8. k + 1 = j => f[k + 1].form \in {"junk", "long"}
    OBVIOUS
  <2>9. QED
    BY <1>3, <2>6, <2>7, <2>8
<1>4. 0 \in T
  OBVIOUS
<1>5. ASSUME NEW k \in Nat, k \in T PROVE k + 1 \in T
  <2> SUFFICES ASSUME k + 1 \in j..Len(f) PROVE Refused(k + 1)
    OBVIOUS
  <2>1. k + 1 \in 1..Len(f) /\ (k + 1 = j \/ k \in j..Len(f))
    BY <1>1
  <2> HIDE DEF Refused
  <2>2. k + 1 = j \/ Refused(k)
    BY <1>5, <2>1
  <2>3. QED
    BY <1>3, <2>1, <2>2
<1> HIDE DEF T
<1>6. Nat \subseteq T
  BY <1>4, <1>5, Induction
<1>7. Refused(Len(f))
  BY <1>1, <1>6 DEF T
<1>8. QED
  BY <1>2, <1>7 DEF Readable

------------------------------------------------------------------------------
(* What a reader gets: the last line that says it                            *)

\* A set of line numbers has a greatest one.
LEMMA Greatest ==
  ASSUME NEW n \in Nat, NEW s \in SUBSET (1..n), s # {}
  PROVE  Max(s) \in s /\ \A y \in s : y <= Max(s)
<1> DEFINE above == {k \in 0..n : \A y \in s : y <= k}
<1>1. n \in above /\ above \in SUBSET Nat
  OBVIOUS
<1>2. PICK k \in above : \A j \in above : k <= j
  BY <1>1, Least
<1>3. k \in s
  <2>1. CASE k = 0
    <3>1. PICK y \in s : TRUE
      OBVIOUS
    <3>2. y \in 1..n /\ y <= k
      BY <1>2
    <3>3. QED
      BY <2>1, <3>2
  <2>2. CASE k # 0 /\ k \notin s
    <3>1. k - 1 \in 0..n /\ \A y \in s : y <= k - 1
      BY <1>2, <2>2
    <3>2. QED
      BY <1>2, <3>1
  <2>3. QED
    BY <2>1, <2>2
<1>4. s \subseteq Int /\ \A y \in s : k >= y
  BY <1>2
<1>5. Max(s) = k
  BY <1>3, <1>4, MaxIs
<1>6. QED
  BY <1>3, <1>4, <1>5

LowSection(f, k) == IF GroupOf(f, k) = NoSection THEN NoSection ELSE Lower[GroupOf(f, k)]

\* The heads of sections up to a line.
Heads(f, k) == {j \in 1..k : f[j].form = "section"}

\* The head of the section of a line is the last one above it.
LEMMA HeadsMax ==
  ASSUME NEW f, NEW k \in Nat, Heads(f, k) # {}
  PROVE  Max(Heads(f, k)) \in Heads(f, k) /\ \A j \in Heads(f, k) : j <= Max(Heads(f, k))
<1>1. Heads(f, k) \in SUBSET (1..k)
  BY DEF Heads
<1>2. QED
  BY <1>1, Greatest

\* The section a line is in, to GLib and to iniparser.
LEMMA GroupFacts ==
  ASSUME IniConstants, NEW f \in Seq(JoinedLines), NEW k \in 0..Len(f)
  PROVE  /\ GroupOf(f, k) \in Names \cup {NoSection}
         /\ GroupOf(f, k) = IF Heads(f, k) = {} THEN NoSection ELSE f[Max(Heads(f, k))].name
         /\ LowSection(f, k) = IF Heads(f, k) = {} THEN NoSection ELSE Lower[f[Max(Heads(f, k))].name]
<1>1. GroupOf(f, k) = IF Heads(f, k) = {} THEN NoSection ELSE f[Max(Heads(f, k))].name
  BY Zenon DEF GroupOf, Heads
<1>2. ASSUME Heads(f, k) # {} PROVE f[Max(Heads(f, k))].name \in Names
  <2>0. k \in Nat /\ Len(f) \in Nat
    OBVIOUS
  <2>1. Max(Heads(f, k)) \in 1..Len(f)
    <3>1. Max(Heads(f, k)) \in Heads(f, k)
      BY <1>2, <2>0, HeadsMax
    <3>2. QED
      BY <2>0, <3>1 DEF Heads
  <2>2. \A j \in 1..Len(f) : f[j].name \in Names
    <3>1. \A j \in 1..Len(f) : f[j] \in JoinedLines
      OBVIOUS
    <3>2. QED
      BY <3>1 DEF JoinedLines
  <2>3. QED
    BY <2>1, <2>2
<1>3. QED
  BY <1>1, <1>2 DEF LowSection, IniConstants

\* From one line to the next.
LEMMA GroupStep ==
  ASSUME IniConstants, NEW f \in Seq(JoinedLines), NEW k \in 1..Len(f)
  PROVE  /\ GroupOf(f, k) = IF f[k].form = "section" THEN f[k].name ELSE GroupOf(f, k - 1)
         /\ LowSection(f, k) = Section(LowSection(f, k - 1), f[k])
<1>1. k - 1 \in 0..Len(f) /\ k \in 0..Len(f)
  OBVIOUS
<1>2. CASE f[k].form = "section"
  <2>1. Heads(f, k) # {} /\ k \in Heads(f, k)
    BY <1>2 DEF Heads
  <2>2. Max(Heads(f, k)) = k
    <3>1. Max(Heads(f, k)) \in Heads(f, k) /\ k <= Max(Heads(f, k))
      BY <1>1, <2>1, HeadsMax
    <3>2. QED
      BY <3>1 DEF Heads
  <2>3. QED
    BY <1>1, <1>2, <2>1, <2>2, GroupFacts DEF Section
<1>3. CASE f[k].form # "section"
  <2>1. Heads(f, k) = Heads(f, k - 1)
    BY <1>3 DEF Heads
  <2>2. QED
    BY <1>1, <1>3, <2>1, GroupFacts DEF Section
<1>4. QED
  BY <1>2, <1>3

\* The section iniparser remembers is that of the last head.
LEMMA SectionIs ==
  ASSUME IniConstants, NEW f, Ordinary(f), NEW st, LoadSteps(st, f, Len(f))
  PROVE  \A k \in 0..Len(f) : st[k].section = LowSection(f, k)
<1> DEFINE T == {k \in Nat : k \in 0..Len(f) => st[k].section = LowSection(f, k)}
<1>0. f \in Seq(JoinedLines)
  BY DEF Ordinary, Straight
<1>1. 0 \in T
  <2>1. Heads(f, 0) = {}
    BY DEF Heads
  <2>2. LowSection(f, 0) = NoSection
    BY <1>0, <2>1, GroupFacts
  <2>3. QED
    BY <2>2, NothingShape DEF LoadSteps
<1>2. ASSUME NEW k \in Nat, k \in T PROVE k + 1 \in T
  <2> SUFFICES ASSUME k + 1 \in 0..Len(f) PROVE st[k + 1].section = LowSection(f, k + 1)
    OBVIOUS
  <2>1. k + 1 \in 1..Len(f) /\ k \in 0..Len(f) /\ (k + 1) - 1 = k
    BY <1>0
  <2>2. st[k].section = LowSection(f, k)
    BY <1>2, <2>1
  <2>3. st[k + 1].section = Section(st[k].section, f[k + 1])
    BY <2>1, OrdinaryStep
  <2>4. LowSection(f, k + 1) = Section(LowSection(f, k), f[k + 1])
    BY <1>0, <2>1, GroupStep
  <2>5. QED
    BY <2>2, <2>3, <2>4
<1> HIDE DEF T
<1>3. Nat \subseteq T
  BY <1>1, <1>2, Induction
<1>4. QED
  BY <1>0, <1>3 DEF T

\* What is known of an entry.
At(m, x) == IF x \in DOMAIN m THEN <<m[x]>> ELSE <<>>

\* Line k makes the entry x.
Makes(f, k, x) == Enters(f[k]) /\ EntryOf(LowSection(f, k - 1), f[k]) = x

\* What the table holds of an entry changes at the lines that make it.
LEMMA MakesIs ==
  ASSUME IniConstants, NEW f, Ordinary(f), NEW st, LoadSteps(st, f, Len(f)), NEW k \in 1..Len(f),
         NEW x
  PROVE  At(D!Map(st[k].d), x) = IF Makes(f, k, x) THEN <<ValueOf(f[k])>> ELSE At(D!Map(st[k - 1].d), x)
<1>1. k - 1 \in 0..Len(f)
  BY DEF Ordinary, Straight
<1>2. st[k - 1].section = LowSection(f, k - 1)
  BY <1>1, SectionIs
<1>3. D!Map(st[k].d) = PutLine(D!Map(st[k - 1].d), LowSection(f, k - 1), f[k])
  BY <1>2, OrdinaryStep
<1>4. QED
  BY <1>3 DEF PutLine, Put, At, Makes

\* Lines that do not make an entry leave it alone.
LEMMA Stays ==
  ASSUME IniConstants, NEW f, Ordinary(f), NEW st, LoadSteps(st, f, Len(f)), NEW x,
         NEW a \in 0..Len(f), \A k \in (a + 1)..Len(f) : ~Makes(f, k, x)
  PROVE  At(D!Map(st[Len(f)].d), x) = At(D!Map(st[a].d), x)
<1> DEFINE T == {k \in Nat : k \in a..Len(f) => At(D!Map(st[k].d), x) = At(D!Map(st[a].d), x)}
<1>0. Len(f) \in Nat
  BY DEF Ordinary, Straight
<1>1. 0 \in T
  <2>1. 0 \in a..Len(f) => a = 0
    BY <1>0
  <2>2. QED
    BY <2>1
<1>2. ASSUME NEW k \in Nat, k \in T PROVE k + 1 \in T
  <2>1. CASE k + 1 \in (a + 1)..Len(f)
    <3>1. k \in a..Len(f) /\ (k + 1) - 1 = k /\ k + 1 \in 1..Len(f)
      BY <1>0, <2>1
    <3>2. At(D!Map(st[k].d), x) = At(D!Map(st[a].d), x)
      BY <1>2, <3>1
    <3>3. At(D!Map(st[k + 1].d), x) = At(D!Map(st[k].d), x)
      <4>1. ~Makes(f, k + 1, x)
        BY <2>1
      <4>2. At(D!Map(st[k + 1].d), x) =
              IF Makes(f, k + 1, x) THEN <<ValueOf(f[k + 1])>> ELSE At(D!Map(st[(k + 1) - 1].d), x)
        BY <3>1, MakesIs
      <4>3. QED
        BY <3>1, <4>1, <4>2
    <3>4. QED
      BY <3>2, <3>3
  <2>2. CASE k + 1 \notin (a + 1)..Len(f)
    <3>1. k + 1 \in a..Len(f) => k + 1 = a
      BY <1>0, <2>2
    <3>2. QED
      BY <3>1
  <2>3. QED
    BY <2>1, <2>2
<1> HIDE DEF T
<1>3. Nat \subseteq T
  BY <1>1, <1>2, Induction
<1>4. QED
  BY <1>0, <1>3 DEF T

Makers(f, x) == {k \in 1..Len(f) : Makes(f, k, x)}

\* The table holds of an entry what the last line that makes it says.
LEMMA LastMaker ==
  ASSUME IniConstants, NEW f, Ordinary(f), NEW x
  PROVE  /\ DictInv(Loaded(f).d)
         /\ At(D!Map(Loaded(f).d), x) =
              IF Makers(f, x) = {} THEN <<>> ELSE <<ValueOf(f[Max(Makers(f, x))])>>
<1>0. Len(f) \in Nat
  BY DEF Ordinary, Straight
<1>1. PICK st : LoadSteps(st, f, Len(f)) /\ Loaded(f) = st[Len(f)]
  BY OrdinaryReads
<1>2. LoadShape(st[Len(f)])
  BY <1>0, <1>1, LoadKeeps DEF Ordinary
<1>3. DictInv(Loaded(f).d)
  BY <1>1, <1>2 DEF LoadShape
<1>4. CASE Makers(f, x) = {}
  <2>1. 0 \in 0..Len(f) /\ \A k \in (0 + 1)..Len(f) : ~Makes(f, k, x)
    BY <1>0, <1>4 DEF Makers
  <2>2. At(D!Map(st[Len(f)].d), x) = At(D!Map(st[0].d), x)
    BY <1>1, <2>1, Stays
  <2>3. D!Map(st[0].d) = [y \in {} |-> NoValue]
    BY <1>1, NothingShape DEF LoadSteps
  <2>4. At(D!Map(st[0].d), x) = <<>>
    BY <2>3 DEF At
  <2>5. QED
    BY <1>1, <1>3, <1>4, <2>2, <2>4
<1>5. CASE Makers(f, x) # {}
  <2> DEFINE m == Max(Makers(f, x))
  <2>1. m \in Makers(f, x) /\ \A k \in Makers(f, x) : k <= m
    <3>1. Makers(f, x) \in SUBSET (1..Len(f))
      BY DEF Makers
    <3>2. QED
      BY <1>0, <1>5, <3>1, Greatest
  <2> HIDE DEF m
  <2>2. m \in 0..Len(f) /\ m \in 1..Len(f) /\ Makes(f, m, x) /\ \A k \in (m + 1)..Len(f) : ~Makes(f, k, x)
    BY <1>0, <2>1 DEF Makers
  <2>3. At(D!Map(st[Len(f)].d), x) = At(D!Map(st[m].d), x)
    BY <1>1, <2>2, Stays
  <2>4. At(D!Map(st[m].d), x) = <<ValueOf(f[m])>>
    BY <1>1, <2>2, MakesIs
  <2>5. QED
    BY <1>1, <1>3, <1>5, <2>3, <2>4 DEF m
<1>6. QED
  BY <1>4, <1>5

\* Where a key is looked up.
LEMMA LookupIs ==
  ASSUME IniConstants, NEW f, Ordinary(f), NEW s \in Names, NEW key \in Names
  PROVE  LET x == <<Lower[s], Lower[key]>>
         IN Lookup(f, s, key) = IF Makers(f, x) = {} THEN NotThere ELSE ValueOf(f[Max(Makers(f, x))])
<1>1. Lower[s] \in Names /\ Lower[key] \in Names
  BY DEF IniConstants
<1>2. <<Lower[s], Lower[key]>> \in Entries
  BY <1>1 DEF Entries
<1> DEFINE x == <<Lower[s], Lower[key]>>
           m == D!Map(Loaded(f).d)
<1>3. Lookup(f, s, key) = Told(m, x)
  BY <1>2, LastMaker, ToldIs DEF Lookup
<1>4. At(m, x) = IF Makers(f, x) = {} THEN <<>> ELSE <<ValueOf(f[Max(Makers(f, x))])>>
  BY LastMaker
<1>5. Told(m, x) = IF At(m, x) = <<>> THEN NotThere ELSE At(m, x)[1]
  BY DEF Told, At
<1> HIDE DEF m
<1>6. QED
  BY <1>3, <1>4, <1>5

\* Any text is read so.
LEMMA TextReads ==
  ASSUME IniConstants, text \in Seq(Lines) PROVE ReadsLastLine
<1> SUFFICES ASSUME \A k \in 1..Len(text) : ~text[k].more, NEW s \in Names, NEW key \in Names
             PROVE  LET says == {k \in 1..Len(text) : Says(k, Lower[s], key)}
                    IN GetProfileString(text, s, key, NotThere) =
                         IF says = {} \/ \E k \in 1..Len(text) : text[k].form \in {"junk", "long"}
                         THEN NotThere ELSE Said(Max(says))
  BY DEF ReadsLastLine
<1> DEFINE says == {k \in 1..Len(text) : Says(k, Lower[s], key)}
           x == <<Lower[s], Lower[key]>>
<1>1. Straight(text)
  BY LineSequences DEF Straight
<1>2. CASE \E k \in 1..Len(text) : text[k].form \in {"junk", "long"}
  <2>1. ~Readable(text)
    BY <1>1, <1>2, StrangeRefused
  <2>2. QED
    BY <1>2, <2>1 DEF GetProfileString
<1>3. CASE \A k \in 1..Len(text) : text[k].form \notin {"junk", "long"}
  <2>1. Ordinary(text)
    BY <1>1, <1>3 DEF Ordinary
  <2>2. ASSUME NEW k \in 1..Len(text) PROVE Makes(text, k, x) <=> Says(k, Lower[s], key)
    <3>1. SectionOf(k) = LowSection(text, k)
      <4>1. k \in 0..Len(text)
        OBVIOUS
      <4>2. LowSection(text, k) = IF Heads(text, k) = {} THEN NoSection ELSE Lower[text[Max(Heads(text, k))].name]
        BY <4>1, GroupFacts, LineSequences
      <4>3. QED
        BY <4>2, Zenon DEF SectionOf, Heads
    <3>2. text[k].form # "section" => LowSection(text, k) = LowSection(text, k - 1)
      BY GroupStep, LineSequences DEF Section
    <3>3. text[k].form = "section" => EntryOf(LowSection(text, k - 1), text[k]) # x
      BY DEF EntryOf
    <3>4. QED
      BY <3>1, <3>2, <3>3 DEF Makes, Says, Enters, EntryOf
  <2>3. Makers(text, x) = says
    BY <2>2 DEF Makers
  <2>4. ASSUME says # {} PROVE ValueOf(text[Max(says)]) = Said(Max(says))
    <3>1. says \in SUBSET (1..Len(text)) /\ Len(text) \in Nat
      OBVIOUS
    <3> HIDE DEF says
    <3>2. Max(says) \in says
      BY <2>4, <3>1, Greatest
    <3>3. text[Max(says)].form \in {"plain", "quoted"}
      BY <3>2 DEF says, Says
    <3>4. QED
      BY <3>3 DEF ValueOf, Said
  <2>5. Lookup(text, s, key) = IF says = {} THEN NotThere ELSE Said(Max(says))
    <3> HIDE DEF says
    <3>1. Lookup(text, s, key) = IF says = {} THEN NotThere ELSE ValueOf(text[Max(says)])
      BY <2>1, <2>3, LookupIs
    <3>2. QED
      BY <2>4, <3>1
  <2>6. Readable(text)
    BY <2>1, OrdinaryReads
  <2> HIDE DEF says
  <2>7. GetProfileString(text, s, key, NotThere) = IF says = {} THEN NotThere ELSE Said(Max(says))
    BY <2>5, <2>6 DEF GetProfileString
  <2>8. QED
    BY <1>3, <2>7 DEF says
<1>4. QED
  BY <1>2, <1>3

\* The writer of texts writes lines.
LEMMA TextStep ==
  ASSUME ConfigurationConstants, text \in Seq(Lines), [ConfigurationNext]_<<dict, text>>
  PROVE  text' \in Seq(Lines)
<1>1. CASE AddLine
  <2>1. PICK l \in TextLines : text' = Append(text, l)
    BY <1>1 DEF AddLine
  <2>2. l \in Lines
    BY DEF ConfigurationConstants
  <2>3. \A S : \A q \in Seq(S), e \in S : Append(q, e) \in Seq(S)
    OBVIOUS
  <2>4. QED
    BY <2>1, <2>2, <2>3
<1>2. CASE text' = text
  BY <1>2
<1>3. QED
  BY <1>1, <1>2 DEF ConfigurationNext

\* Whatever text is in the file, a reader gets what its last line says of a key, or
\* nothing if a line is not understood.
THEOREM ReadsLastLineHolds ==
  ASSUME ConfigurationConstants PROVE ConfigurationSpec => []ReadsLastLine
<1>1. ConfigurationInit => text \in Seq(Lines)
  BY DEF ConfigurationInit
<1>2. text \in Seq(Lines) /\ [ConfigurationNext]_<<dict, text>> => (text \in Seq(Lines))'
  BY TextStep
<1>3. text \in Seq(Lines) => ReadsLastLine
  BY TextReads DEF ConfigurationConstants
<1>4. QED
  BY <1>1, <1>2, <1>3, PTL DEF ConfigurationSpec

------------------------------------------------------------------------------
(* What any text leaves in the dictionary: names in lower case, a section    *)
(* for every key that has one                                                *)

SectionEntry(m, x) == \E s \in Names : x = <<s>> /\ Lower[s] = s /\ m[x] = NoValue
KeyEntry(m, x) ==
  \E s \in Names \cup {NoSection}, k \in Names :
    x = <<s, k>> /\ Lower[k] = k /\ m[x] \in Values /\ (s = NoSection \/ <<s>> \in DOMAIN m)
Orderly(m) == \A x \in DOMAIN m : SectionEntry(m, x) \/ KeyEntry(m, x)

SectionKnown(m, section) == section = NoSection \/ <<section>> \in DOMAIN m

\* A line entered under its section keeps the table so.
LEMMA PutOrderly ==
  ASSUME IniConstants, NEW m, Orderly(m), NEW section \in Names \cup {NoSection}, SectionKnown(m, section),
         NEW l \in JoinedLines
  PROVE  /\ Orderly(PutLine(m, section, l))
         /\ SectionKnown(PutLine(m, section, l), Section(section, l))
<1> DEFINE e == EntryOf(section, l)
           v == ValueOf(l)
           w == Put(m, e, v)
<1>1. Lower[l.name] \in Names /\ Lower[Lower[l.name]] = Lower[l.name] /\ l.val \in Values
  BY DEF IniConstants, JoinedLines
<1>2. CASE ~Enters(l)
  BY <1>2 DEF PutLine, Enters, Section
<1>3. CASE Enters(l)
  <2>0. PutLine(m, section, l) = w
    BY <1>3 DEF PutLine
  <2>1. DOMAIN w = DOMAIN m \cup {e} /\ w[e] = v /\ \A x \in DOMAIN m \ {e} : w[x] = m[x]
    BY DEF Put
  <2>2. CASE l.form = "section"
    <3>1. e = <<Lower[l.name]>> /\ v = NoValue /\ Section(section, l) = Lower[l.name]
      BY <2>2 DEF EntryOf, ValueOf, Section
    <3> HIDE DEF e, v, w
    <3>2. SectionEntry(w, e)
      BY <1>1, <2>1, <3>1 DEF SectionEntry
    <3>3. ASSUME NEW x \in DOMAIN m \ {e} PROVE SectionEntry(w, x) \/ KeyEntry(w, x)
      BY <2>1 DEF Orderly, SectionEntry, KeyEntry
    <3>4. Orderly(w) /\ SectionKnown(w, Section(section, l))
      BY <2>1, <3>1, <3>2, <3>3 DEF Orderly, SectionKnown
    <3>5. QED
      BY <2>0, <3>4
  <2>3. CASE l.form # "section"
    <3>1. e = <<section, Lower[l.name]>> /\ Section(section, l) = section
      BY <2>3 DEF EntryOf, Section
    <3>2. v \in Values
      <4>1. UpToComment(l.val) \in Values
        BY <1>1, CommentCut DEF Values
      <4>2. QED
        BY <1>1, <2>3, <4>1 DEF ValueOf
    <3> HIDE DEF e, v, w
    <3>3. KeyEntry(w, e)
      BY <1>1, <2>1, <3>1, <3>2 DEF KeyEntry, SectionKnown
    <3>4. ASSUME NEW x \in DOMAIN m \ {e} PROVE SectionEntry(w, x) \/ KeyEntry(w, x)
      BY <2>1 DEF Orderly, SectionEntry, KeyEntry
    <3>5. Orderly(w) /\ SectionKnown(w, Section(section, l))
      BY <2>1, <3>1, <3>3, <3>4 DEF Orderly, SectionKnown
    <3>6. QED
      BY <2>0, <3>5
  <2>4. QED
    BY <2>2, <2>3
<1>4. QED
  BY <1>2, <1>3

OrderlyLoad(st) == LoadShape(st) /\ Orderly(D!Map(st.d)) /\ SectionKnown(D!Map(st.d), st.section)

\* A continued line is a line.
LEMMA JoinType ==
  ASSUME NEW a \in JoinedLines, NEW l \in JoinedLines PROVE JoinLine(a, l) \in JoinedLines
<1> DEFINE v == IF l.form = "blank" THEN a.val ELSE a.val \o <<l.name>> \o l.val
<1>1. v \in Values
  <2>1. \A S : \A p, q \in Seq(S), x \in S : p \o <<x>> \o q \in Seq(S)
    OBVIOUS
  <2>2. a.val \in Values /\ l.val \in Values /\ l.name \in Words \cup {Mark} \cup Names
    BY DEF JoinedLines
  <2>3. QED
    BY <2>1, <2>2 DEF Values
<1>2. JoinLine(a, l) = [a EXCEPT !.val = v, !.more = l.more]
  BY DEF JoinLine
<1> HIDE DEF v
<1>3. QED
  BY <1>1, <1>2 DEF JoinedLines

\* So does any line, continued or not.
LEMMA OrderlyStep ==
  ASSUME IniConstants, NEW st, OrderlyLoad(st), NEW l \in JoinedLines, NEW e, e = LoadLine(st, l)
  PROVE  OrderlyLoad(e)
<1> DEFINE line == IF st.last = <<>> THEN l ELSE JoinLine(st.last[1], l)
<1>1. line \in JoinedLines
  <2>1. CASE st.last = <<>>
    BY <2>1
  <2>2. CASE st.last # <<>>
    <3>1. PICK a \in JoinedLines : st.last = <<a>>
      BY <2>2 DEF OrderlyLoad, LoadShape
    <3>2. line = JoinLine(a, l)
      BY <2>2, <3>1
    <3>3. QED
      BY <3>2, JoinType
  <2>3. QED
    BY <2>1, <2>2
<1>2. e = IF st.failed THEN st
          ELSE IF l.form = "long" THEN [st EXCEPT !.failed = TRUE]
          ELSE IF line.more THEN [st EXCEPT !.last = <<line>>]
          ELSE Enter([st EXCEPT !.last = <<>>], line)
  BY DEF LoadLine
<1> HIDE DEF line
<1>3. CASE st.failed
  BY <1>2, <1>3
<1>4. CASE ~st.failed /\ l.form = "long"
  <2>1. e = [st EXCEPT !.failed = TRUE]
    BY <1>2, <1>4
  <2>2. e = [d |-> st.d, section |-> st.section, last |-> st.last, errs |-> st.errs, failed |-> TRUE]
    BY <2>1 DEF OrderlyLoad, LoadShape
  <2>3. QED
    BY <2>2 DEF OrderlyLoad, LoadShape
<1>5. CASE ~st.failed /\ l.form # "long" /\ line.more
  <2>1. e = [st EXCEPT !.last = <<line>>]
    BY <1>2, <1>5
  <2>2. e = [d |-> st.d, section |-> st.section, last |-> <<line>>, errs |-> st.errs, failed |-> st.failed]
    BY <2>1 DEF OrderlyLoad, LoadShape
  <2>3. QED
    BY <1>1, <2>2 DEF OrderlyLoad, LoadShape
<1>6. CASE ~st.failed /\ l.form # "long" /\ ~line.more
  <2> DEFINE c == [st EXCEPT !.last = <<>>]
  <2>1. c = [d |-> st.d, section |-> st.section, last |-> <<>>, errs |-> st.errs, failed |-> st.failed]
    BY DEF OrderlyLoad, LoadShape
  <2>2. e = Enter(c, line)
    BY <1>2, <1>6
  <2> HIDE DEF c
  <2>3. LoadShape(c) /\ Orderly(D!Map(c.d)) /\ SectionKnown(D!Map(c.d), c.section) /\ c.section \in Names \cup {NoSection}
    BY <2>1 DEF OrderlyLoad, LoadShape
  <2>4. /\ LoadShape(e)
        /\ e.section = Section(c.section, line)
        /\ D!Map(e.d) = PutLine(D!Map(c.d), c.section, line)
    BY <1>1, <2>2, <2>3, EnterIs DEF Section
  <2>5. QED
    BY <1>1, <2>3, <2>4, PutOrderly DEF OrderlyLoad
<1>7. QED
  BY <1>3, <1>4, <1>5, <1>6

\* And so does any file.
LEMMA LoadedOrderly ==
  ASSUME IniConstants, NEW f \in Seq(JoinedLines) PROVE OrderlyLoad(Loaded(f))
<1>1. Len(f) \in Nat /\ DOMAIN f = 1..Len(f)
  OBVIOUS
<1>2. PICK st : LoadSteps(st, f, Len(f)) /\ Loaded(f) = st[Len(f)]
  BY <1>1, LoadTrace
<1> DEFINE T == {k \in Nat : k \in 0..Len(f) => OrderlyLoad(st[k])}
<1>3. 0 \in T
  BY <1>2, NothingShape DEF LoadSteps, OrderlyLoad, Orderly, SectionKnown
<1>4. ASSUME NEW k \in Nat, k \in T PROVE k + 1 \in T
  <2> SUFFICES ASSUME k + 1 \in 0..Len(f) PROVE OrderlyLoad(st[k + 1])
    OBVIOUS
  <2>1. k + 1 \in 1..Len(f) /\ k \in 0..Len(f) /\ (k + 1) - 1 = k
    BY <1>1
  <2>2. f[k + 1] \in JoinedLines /\ st[k + 1] = LoadLine(st[k], f[k + 1]) /\ OrderlyLoad(st[k])
    BY <1>2, <1>4, <2>1 DEF LoadSteps
  <2>3. QED
    BY <2>2, OrderlyStep
<1> HIDE DEF T
<1>5. Nat \subseteq T
  BY <1>3, <1>4, Induction
<1>6. QED
  BY <1>1, <1>2, <1>5 DEF T

------------------------------------------------------------------------------
(* Sequences that are laid end to end                                        *)

\* A set of sequences that is closed under laying end to end.
LEMMA FlattenIn ==
  ASSUME NEW S, NEW C \in SUBSET Seq(S), <<>> \in C, \A p, q \in C : p \o q \in C,
         NEW s \in Seq(C)
  PROVE  FlattenSeq(s) \in C
<1> DEFINE T == {n \in Nat : \A u \in Seq(C) : Len(u) = n => FlattenSeq(u) \in C}
<1>1. 0 \in T
  <2>1. \A u \in Seq(C) : Len(u) = 0 => u = <<>>
    OBVIOUS
  <2>2. QED
    BY <2>1, FlattenEmpty
<1>2. ASSUME NEW n \in Nat, n \in T PROVE n + 1 \in T
  <2> SUFFICES ASSUME NEW u \in Seq(C), Len(u) = n + 1 PROVE FlattenSeq(u) \in C
    OBVIOUS
  <2> DEFINE a == SubSeq(u, 1, n)
  <2>1. a \in Seq(C) /\ Len(a) = n /\ u[n + 1] \in C /\ u = Append(a, u[n + 1])
    OBVIOUS
  <2> HIDE DEF a
  <2>2. FlattenSeq(a) \in C
    BY <1>2, <2>1
  <2>3. a \in Seq(Seq(S)) /\ u[n + 1] \in Seq(S)
    <3>1. \A A, B : A \subseteq B => Seq(A) \subseteq Seq(B)
      OBVIOUS
    <3>2. C \subseteq Seq(S)
      OBVIOUS
    <3>3. QED
      BY <2>1, <3>1, <3>2
  <2>4. FlattenSeq(u) = FlattenSeq(a) \o u[n + 1]
    BY <2>1, <2>3, FlattenAppend
  <2>5. QED
    BY <2>1, <2>2, <2>4
<1> HIDE DEF T
<1>3. Nat \subseteq T
  BY <1>1, <1>2, Induction
<1>4. Len(s) \in T
  BY <1>3
<1>5. QED
  BY <1>4 DEF T

\* A sequence around one of its elements.
LEMMA SplitAt ==
  ASSUME NEW B, NEW s \in Seq(B), NEW k \in 1..Len(s)
  PROVE  \E p, q \in Seq(B) : s = p \o <<s[k]>> \o q /\ Len(p) = k - 1
<1> DEFINE p == SubSeq(s, 1, k - 1)
           q == SubSeq(s, k + 1, Len(s))
<1>1. p \in Seq(B) /\ Len(p) = k - 1 /\ q \in Seq(B)
  OBVIOUS
<1>2. SubSeq(s, 1, k) = p \o <<s[k]>>
  BY SubSeqRecursiveSecond
<1>3. SubSeq(s, 1, k) \o q = SubSeq(s, 1, Len(s))
  BY ConcatAdjacentSubSeq
<1>4. SubSeq(s, 1, Len(s)) = s
  BY SubSeqFull
<1> HIDE DEF p, q
<1>5. QED
  BY <1>1, <1>2, <1>3, <1>4

\* Each of the sequences is found in a row.
LEMMA FlattenHas ==
  ASSUME NEW S, NEW s \in Seq(Seq(S)), NEW k \in 1..Len(s)
  PROVE  \E a, b \in Seq(S) : FlattenSeq(s) = a \o s[k] \o b
<1>1. PICK p, q \in Seq(Seq(S)) : s = p \o <<s[k]>> \o q
  <2> DEFINE B == Seq(S)
  <2>1. s \in Seq(B)
    OBVIOUS
  <2> HIDE DEF B
  <2>2. \E p, q \in Seq(B) : s = p \o <<s[k]>> \o q /\ Len(p) = k - 1
    BY <2>1, SplitAt
  <2>3. QED
    BY <2>2 DEF B
<1>2. s[k] \in Seq(S)
  OBVIOUS
<1>3. \A B : \A x \in B, u \in Seq(B) : <<x>> \in Seq(B) /\ u \o <<x>> \in Seq(B)
  OBVIOUS
<1>4. FlattenSeq(p \o <<s[k]>>) = FlattenSeq(p) \o s[k]
  <2>1. <<s[k]>> \in Seq(Seq(S))
    BY <1>2, <1>3
  <2>2. FlattenSeq(p \o <<s[k]>>) = FlattenSeq(p) \o FlattenSeq(<<s[k]>>)
    BY <2>1, FlattenConcat
  <2>3. FlattenSeq(<<s[k]>>) = s[k]
    BY <1>2, FlattenOne
  <2>4. QED
    BY <2>2, <2>3
<1>5. FlattenSeq(s) = FlattenSeq(p) \o s[k] \o FlattenSeq(q)
  <2>1. p \o <<s[k]>> \in Seq(Seq(S))
    BY <1>2, <1>3
  <2>2. FlattenSeq((p \o <<s[k]>>) \o q) = FlattenSeq(p \o <<s[k]>>) \o FlattenSeq(q)
    BY <2>1, FlattenConcat
  <2>3. QED
    BY <1>1, <1>4, <2>2
<1>6. FlattenSeq(p) \in Seq(S) /\ FlattenSeq(q) \in Seq(S)
  BY <1>1, FlattenType
<1>7. QED
  BY <1>5, <1>6

------------------------------------------------------------------------------
(* What a dictionary says, written to a file and read again                  *)

\* The slots in the order they are saved in.
LEMMA SlotsAre ==
  ASSUME IniConstants, NEW d, DictInv(d)
  PROVE  /\ Len(Slots(d)) = d.size /\ d.size \in Nat /\ DOMAIN Slots(d) = 1..d.size
         /\ \A k \in 1..d.size :
              Slots(d)[k].key # NoValue =>
                /\ Slots(d)[k].key \in DOMAIN D!Map(d)
                /\ Slots(d)[k].val = D!Map(d)[Slots(d)[k].key]
         /\ \A x \in DOMAIN D!Map(d) : x # NoValue /\ \E k \in 1..d.size : Slots(d)[k].key = x
<1>1. d.size \in Nat /\ d.slot \in [0..d.size-1 -> Slot]
  BY DEF DictInv, TableShape
<1>2. Slots(d) = [k \in 1..d.size |-> d.slot[k-1]]
  BY DEF Slots
<1>3. Len(Slots(d)) = d.size /\ DOMAIN Slots(d) = 1..d.size
  BY <1>1, <1>2
<1>4. DOMAIN D!Map(d) = D!Keys(d)
  BY DEF D!Map
<1>5. ASSUME NEW k \in 1..d.size, Slots(d)[k].key # NoValue
      PROVE  Slots(d)[k].key \in DOMAIN D!Map(d) /\ Slots(d)[k].val = D!Map(d)[Slots(d)[k].key]
  <2> DEFINE x == d.slot[k-1].key
  <2>1. Slots(d)[k] = d.slot[k-1] /\ k - 1 \in 0..d.size-1
    BY <1>1, <1>2
  <2>2. x \in Entries
    BY <1>1, <1>5, <2>1 DEF Slot
  <2>3. k - 1 \in SlotsOf(d, x)
    BY <1>5, <2>1 DEF SlotsOf, FilledSlots
  <2> HIDE DEF x
  <2>4. D!Find(d, x) # {} /\ D!dictionary_get(d, x, NoValue) = d.slot[k-1].val
    BY <2>2, <2>3, GetIs
  <2>5. x \in D!Keys(d)
    BY <2>2, <2>4, KeysAre
  <2>6. D!Map(d)[x] = d.slot[k-1].val
    BY <2>4, <2>5 DEF D!Map
  <2>7. QED
    BY <1>4, <2>1, <2>5, <2>6 DEF x
<1>6. ASSUME NEW x \in DOMAIN D!Map(d)
      PROVE  x # NoValue /\ \E k \in 1..d.size : Slots(d)[k].key = x
  <2>1. x # NoValue /\ \E p \in 0..d.size-1 : d.slot[p].key = x
    BY <1>4 DEF D!Keys
  <2>2. PICK p \in 0..d.size-1 : d.slot[p].key = x
    BY <2>1
  <2>3. p + 1 \in 1..d.size /\ (p + 1) - 1 = p
    BY <1>1
  <2>4. Slots(d)[p + 1].key = x
    BY <1>2, <2>2, <2>3
  <2>5. QED
    BY <2>1, <2>3, <2>4
<1>7. QED
  BY <1>1, <1>3, <1>5, <1>6

\* Line j is the head of the section line k is in.
Under(q, j, k) == q[j].form = "section" /\ \A n \in (j + 1)..k : q[n].form # "section"

\* It is the section of both readers.
LEMMA GroupUnder ==
  ASSUME IniConstants, NEW f \in Seq(JoinedLines), NEW k \in 1..Len(f), NEW j \in 1..k, Under(f, j, k)
  PROVE  GroupOf(f, k) = f[j].name /\ LowSection(f, k) = Lower[f[j].name]
<1>1. k \in 0..Len(f) /\ k \in Nat
  OBVIOUS
<1>2. j \in Heads(f, k) /\ Heads(f, k) \subseteq Int
  BY <1>1 DEF Heads, Under
<1>3. Max(Heads(f, k)) = j
  <2>1. \A n \in Heads(f, k) : j >= n
    BY <1>1 DEF Heads, Under
  <2>2. QED
    BY <1>2, <2>1, MaxIs
<1>4. QED
  BY <1>1, <1>2, <1>3, GroupFacts

\* A line that says of an entry what the table says of it.
SaysOf(m, x, val) == x \in DOMAIN m /\ m[x] = val

FaithfulLine(m, q, k) ==
  /\ ~q[k].more /\ Lower[q[k].name] = q[k].name
  /\ \/ q[k].form = "section" /\ SaysOf(m, <<q[k].name>>, NoValue)
     \/ q[k].form = "plain" /\ \E j \in 1..(k - 1) :
          Under(q, j, k) /\ SaysOf(m, <<q[j].name, q[k].name>>, UpToComment(q[k].val))

FaithfulTexts(m) == {q \in Seq(JoinedLines) : \A k \in 1..Len(q) : FaithfulLine(m, q, k)}

\* Such texts one after the other are such a text.
LEMMA FaithfulConcat ==
  ASSUME NEW m, NEW p \in FaithfulTexts(m), NEW q \in FaithfulTexts(m)
  PROVE  p \o q \in FaithfulTexts(m)
<1> DEFINE r == p \o q
<1>1. /\ p \in Seq(JoinedLines) /\ q \in Seq(JoinedLines) /\ Len(p) \in Nat /\ Len(q) \in Nat
      /\ \A k \in 1..Len(p) : FaithfulLine(m, p, k)
      /\ \A k \in 1..Len(q) : FaithfulLine(m, q, k)
  BY DEF FaithfulTexts
<1>2. /\ r \in Seq(JoinedLines) /\ Len(r) = Len(p) + Len(q)
      /\ \A k \in 1..Len(p) : r[k] = p[k]
      /\ \A k \in 1..Len(q) : r[Len(p) + k] = q[k]
  BY <1>1
<1> HIDE DEF r
<1>3. ASSUME NEW k \in 1..Len(p) PROVE FaithfulLine(m, r, k)
  <2>1. FaithfulLine(m, p, k) /\ r[k] = p[k] /\ \A j \in 1..k : r[j] = p[j]
    BY <1>1, <1>2
  <2>2. \A j \in 1..(k - 1) : Under(p, j, k) => Under(r, j, k) /\ r[j] = p[j]
    BY <2>1 DEF Under
  <2>3. QED
    BY <2>1, <2>2 DEF FaithfulLine
<1>4. ASSUME NEW k \in 1..Len(q) PROVE FaithfulLine(m, r, Len(p) + k)
  <2>1. FaithfulLine(m, q, k) /\ r[Len(p) + k] = q[k] /\ \A j \in 1..k : r[Len(p) + j] = q[j]
    BY <1>1, <1>2
  <2>2. ASSUME NEW j \in 1..(k - 1), Under(q, j, k)
        PROVE  Len(p) + j \in 1..(Len(p) + k - 1) /\ Under(r, Len(p) + j, Len(p) + k) /\ r[Len(p) + j] = q[j]
    <3>1. r[Len(p) + j] = q[j] /\ q[j].form = "section" /\ Len(p) + j \in 1..(Len(p) + k - 1)
      BY <1>1, <2>1, <2>2 DEF Under
    <3>2. ASSUME NEW n \in (Len(p) + j + 1)..(Len(p) + k) PROVE r[n].form # "section"
      <4>1. n - Len(p) \in (j + 1)..k /\ n - Len(p) \in 1..k /\ Len(p) + (n - Len(p)) = n
        BY <1>1
      <4>2. QED
        BY <2>1, <2>2, <4>1 DEF Under
    <3>3. QED
      BY <3>1, <3>2 DEF Under
  <2>3. CASE q[k].form = "section"
    BY <2>1, <2>3 DEF FaithfulLine
  <2>4. CASE q[k].form # "section"
    <3>1. PICK j \in 1..(k - 1) : Under(q, j, k) /\ SaysOf(m, <<q[j].name, q[k].name>>, UpToComment(q[k].val))
      BY <2>1, <2>4 DEF FaithfulLine
    <3>2. Len(p) + j \in 1..((Len(p) + k) - 1) /\ Under(r, Len(p) + j, Len(p) + k) /\ r[Len(p) + j] = q[j]
      BY <1>1, <2>2, <3>1
    <3>3. q[k].form = "plain" /\ ~q[k].more /\ Lower[q[k].name] = q[k].name
      BY <2>1, <2>4 DEF FaithfulLine
    <3>4. SaysOf(m, <<r[Len(p) + j].name, r[Len(p) + k].name>>, UpToComment(r[Len(p) + k].val))
      BY <2>1, <3>1, <3>2
    <3>5. QED
      BY <2>1, <3>2, <3>3, <3>4 DEF FaithfulLine
  <2>5. QED
    BY <2>3, <2>4
<1>5. ASSUME NEW k \in 1..Len(r) PROVE FaithfulLine(m, r, k)
  <2>1. k \in 1..Len(p) \/ (k - Len(p) \in 1..Len(q) /\ Len(p) + (k - Len(p)) = k)
    BY <1>1, <1>2
  <2>2. QED
    BY <1>3, <1>4, <2>1
<1>6. QED
  BY <1>2, <1>5 DEF FaithfulTexts, r

\* Of such a text every entry is in the table, with the value it has there.
LEMMA FaithfulMakes ==
  ASSUME IniConstants, NEW m, NEW f \in FaithfulTexts(m)
  PROVE  /\ Ordinary(f)
         /\ \A k \in 1..Len(f) : \A x : Makes(f, k, x) => SaysOf(m, x, ValueOf(f[k]))
         /\ \A k \in 1..Len(f) : f[k].form = "section" => Makes(f, k, <<f[k].name>>)
         /\ \A k \in 1..Len(f), j \in 1..Len(f) :
              j < k /\ Under(f, j, k) /\ f[k].form = "plain" => Makes(f, k, <<f[j].name, f[k].name>>)
<1>1. f \in Seq(JoinedLines) /\ Len(f) \in Nat /\ \A k \in 1..Len(f) : FaithfulLine(m, f, k)
  BY DEF FaithfulTexts
<1>2. Ordinary(f)
  BY <1>1 DEF Ordinary, Straight, FaithfulLine
<1>3. ASSUME NEW k \in 1..Len(f), f[k].form = "section"
      PROVE  Makes(f, k, <<f[k].name>>) /\ \A x : Makes(f, k, x) => x = <<f[k].name>>
  <2>1. Lower[f[k].name] = f[k].name
    BY <1>1 DEF FaithfulLine
  <2>2. EntryOf(LowSection(f, k - 1), f[k]) = <<f[k].name>>
    BY <1>3, <2>1 DEF EntryOf
  <2>3. QED
    BY <1>3, <2>2 DEF Makes, Enters
<1>4. ASSUME NEW k \in 1..Len(f), NEW j \in 1..(k - 1), Under(f, j, k), f[k].form = "plain"
      PROVE  Makes(f, k, <<f[j].name, f[k].name>>) /\ \A x : Makes(f, k, x) => x = <<f[j].name, f[k].name>>
  <2>1. k - 1 \in 1..Len(f) /\ j \in 1..Len(f) /\ Under(f, j, k - 1)
    BY <1>1, <1>4 DEF Under
  <2>2. LowSection(f, k - 1) = Lower[f[j].name]
    BY <1>1, <2>1, GroupUnder
  <2>3. Lower[f[j].name] = f[j].name /\ Lower[f[k].name] = f[k].name
    BY <1>1, <2>1 DEF FaithfulLine
  <2>4. EntryOf(LowSection(f, k - 1), f[k]) = <<f[j].name, f[k].name>>
    BY <1>4, <2>2, <2>3 DEF EntryOf
  <2>5. QED
    BY <1>4, <2>4 DEF Makes, Enters
<1>5. ASSUME NEW k \in 1..Len(f), NEW x, Makes(f, k, x) PROVE SaysOf(m, x, ValueOf(f[k]))
  <2>1. CASE f[k].form = "section"
    BY <1>1, <1>3, <1>5, <2>1 DEF FaithfulLine, ValueOf
  <2>2. CASE f[k].form # "section"
    <3>1. f[k].form = "plain"
      BY <1>1, <2>2 DEF FaithfulLine
    <3>2. PICK j \in 1..(k - 1) : Under(f, j, k) /\ SaysOf(m, <<f[j].name, f[k].name>>, UpToComment(f[k].val))
      BY <1>1, <2>2 DEF FaithfulLine
    <3>3. x = <<f[j].name, f[k].name>>
      BY <1>4, <1>5, <3>1, <3>2
    <3>4. QED
      BY <3>1, <3>2, <3>3 DEF ValueOf
  <2>3. QED
    BY <2>1, <2>2
<1>6. ASSUME NEW k \in 1..Len(f), NEW j \in 1..Len(f), j < k, Under(f, j, k), f[k].form = "plain"
      PROVE  Makes(f, k, <<f[j].name, f[k].name>>)
  <2>1. j \in 1..(k - 1)
    BY <1>1, <1>6
  <2>2. QED
    BY <1>4, <1>6, <2>1
<1>7. QED
  BY <1>2, <1>3, <1>5, <1>6

\* A text that says of each entry what the table says, and leaves none out, reads as
\* the table.
LEMMA FaithfulReload ==
  ASSUME IniConstants, NEW d, DictInv(d), NEW f \in FaithfulTexts(D!Map(d)),
         \A x \in DOMAIN D!Map(d) : \E k \in 1..Len(f) : Makes(f, k, x)
  PROVE  D!Map(Loaded(f).d) = D!Map(d)
<1> DEFINE m == D!Map(d)
           w == D!Map(Loaded(f).d)
<1>1. Ordinary(f) /\ Len(f) \in Nat
  BY FaithfulMakes DEF Ordinary, Straight
<1>2. ASSUME NEW x PROVE At(w, x) = At(m, x)
  <2>1. At(w, x) = IF Makers(f, x) = {} THEN <<>> ELSE <<ValueOf(f[Max(Makers(f, x))])>>
    BY <1>1, LastMaker
  <2>2. CASE Makers(f, x) = {}
    <3>1. x \notin DOMAIN m
      BY <2>2 DEF Makers
    <3>2. QED
      BY <2>1, <2>2, <3>1 DEF At
  <2>3. CASE Makers(f, x) # {}
    <3>1. Makers(f, x) \in SUBSET (1..Len(f))
      BY DEF Makers
    <3>2. Max(Makers(f, x)) \in Makers(f, x)
      BY <1>1, <2>3, <3>1, Greatest
    <3>3. SaysOf(m, x, ValueOf(f[Max(Makers(f, x))]))
      BY <3>2, FaithfulMakes DEF Makers
    <3>4. QED
      BY <2>1, <2>3, <3>3 DEF At, SaysOf
  <2>4. QED
    BY <2>2, <2>3
<1>3. w = [x \in DOMAIN w |-> w[x]] /\ m = [x \in DOMAIN m |-> m[x]]
  BY DEF D!Map
<1> HIDE DEF m, w
<1>4. \A x : (x \in DOMAIN w <=> x \in DOMAIN m) /\ (x \in DOMAIN w => w[x] = m[x])
  BY <1>2 DEF At
<1>5. DOMAIN w = DOMAIN m
  BY <1>4
<1>6. w = m
  BY <1>3, <1>4, <1>5
<1>7. QED
  BY <1>6 DEF m, w

\* A dictionary iniparser_dump_ini() is to save.
Saved(d) == DictInv(d) /\ Orderly(D!Map(d)) /\ Saveable(d)

\* The entries of a table that can be saved.
LEMMA SavedEntries ==
  ASSUME IniConstants, NEW d, Saved(d), NEW x \in DOMAIN D!Map(d)
  PROVE  \/ IsSection(x) /\ SectionEntry(D!Map(d), x)
         \/ /\ ~IsSection(x)
            /\ \E s \in Names, k \in Names :
                 /\ x = <<s, k>> /\ Lower[k] = k /\ D!Map(d)[x] \in Values
                 /\ <<s>> \in DOMAIN D!Map(d)
                 /\ D!Map(d)[x] # NoValue /\ UpToComment(D!Map(d)[x]) = D!Map(d)[x]
<1>1. DOMAIN D!Map(d) = D!Keys(d) /\ NoValue \notin Values
  BY DEF D!Map, IniConstants, D!DictionaryConstants
<1>2. CASE SectionEntry(D!Map(d), x)
  BY <1>2 DEF SectionEntry, IsSection
<1>3. CASE ~SectionEntry(D!Map(d), x)
  <2>1. PICK s \in Names \cup {NoSection}, k \in Names :
          /\ x = <<s, k>> /\ Lower[k] = k /\ D!Map(d)[x] \in Values
          /\ s = NoSection \/ <<s>> \in DOMAIN D!Map(d)
    BY <1>3 DEF Saved, Orderly, KeyEntry
  <2>2. ~IsSection(x) /\ x[1] = s
    BY <2>1 DEF IsSection
  <2>3. s # NoSection /\ D!Map(d)[x] # NoValue /\ UpToComment(D!Map(d)[x]) = D!Map(d)[x]
    BY <1>1, <2>1, <2>2 DEF Saved, Saveable
  <2>4. QED
    BY <2>1, <2>2, <2>3
<1>4. QED
  BY <1>2, <1>3

SavedKey(m, s, l) ==
  /\ l.form = "plain" /\ ~l.more /\ Lower[l.name] = l.name
  /\ SaysOf(m, <<s, l.name>>, UpToComment(l.val))
KeyLines(m, s) == {q \in Seq(JoinedLines) : \A k \in 1..Len(q) : SavedKey(m, s, q[k])}

\* Lines of keys one after the other.
LEMMA KeyLinesClosed ==
  ASSUME NEW m, NEW s
  PROVE  <<>> \in KeyLines(m, s) /\ \A p, q \in KeyLines(m, s) : p \o q \in KeyLines(m, s)
<1>1. <<>> \in KeyLines(m, s)
  BY DEF KeyLines
<1>2. ASSUME NEW p \in KeyLines(m, s), NEW q \in KeyLines(m, s) PROVE p \o q \in KeyLines(m, s)
  <2>1. p \in Seq(JoinedLines) /\ q \in Seq(JoinedLines) /\ Len(p) \in Nat /\ Len(q) \in Nat
    BY DEF KeyLines
  <2>2. /\ p \o q \in Seq(JoinedLines) /\ Len(p \o q) = Len(p) + Len(q)
        /\ \A k \in 1..Len(p \o q) :
             \/ k \in 1..Len(p) /\ (p \o q)[k] = p[k]
             \/ k - Len(p) \in 1..Len(q) /\ (p \o q)[k] = q[k - Len(p)]
    BY <2>1
  <2>3. QED
    BY <2>2 DEF KeyLines
<1>3. QED
  BY <1>1, <1>2

\* What is written is a line.
LEMMA IniLineType ==
  ASSUME NEW form \in Forms, NEW name \in Names, NEW val \in Values
  PROVE  /\ IniLine(form, name, val) \in JoinedLines
         /\ IniLine(form, name, val).form = form /\ IniLine(form, name, val).name = name
         /\ IniLine(form, name, val).val = val /\ ~IniLine(form, name, val).more
  BY DEF IniLine, JoinedLines

\* The line of a key says what the table says.
LEMMA KeyLineIs ==
  ASSUME IniConstants, NEW d, Saved(d), NEW s \in Names, NEW p \in 1..d.size,
         Slots(d)[p].key # NoValue, ~IsSection(Slots(d)[p].key), Slots(d)[p].key[1] = s
  PROVE  LET l == KeyLine(Slots(d)[p])
         IN /\ l \in JoinedLines /\ l.form = "plain" /\ ~l.more /\ Lower[l.name] = l.name
            /\ Slots(d)[p].key = <<s, l.name>>
            /\ SaysOf(D!Map(d), <<s, l.name>>, UpToComment(l.val))
<1> DEFINE x == Slots(d)[p].key
           v == Slots(d)[p].val
           m == D!Map(d)
<1>1. x \in DOMAIN m /\ v = m[x]
  BY SlotsAre DEF Saved
<1>2. PICK r \in Names, k \in Names :
        /\ x = <<r, k>> /\ Lower[k] = k /\ m[x] \in Values
        /\ m[x] # NoValue /\ UpToComment(m[x]) = m[x]
  BY <1>1, SavedEntries, ZenonT(60)
<1>3. r = s
  BY <1>2
<1>4. KeyLine(Slots(d)[p]) = IniLine("plain", x[2], IF v = NoValue THEN <<>> ELSE v)
  BY DEF KeyLine
<1> HIDE DEF x, v, m
<1>5. KeyLine(Slots(d)[p]) = IniLine("plain", k, m[x])
  BY <1>1, <1>2, <1>4
<1>6. "plain" \in Forms
  BY DEF Forms
<1> DEFINE l == KeyLine(Slots(d)[p])
<1>7. l \in JoinedLines /\ l.form = "plain" /\ l.name = k /\ l.val = m[x] /\ ~l.more
  BY <1>2, <1>5, <1>6, IniLineType
<1> HIDE DEF l
<1>8. /\ l \in JoinedLines /\ l.form = "plain" /\ ~l.more /\ Lower[l.name] = l.name
      /\ x = <<s, l.name>> /\ SaysOf(m, <<s, l.name>>, UpToComment(l.val))
  BY <1>1, <1>2, <1>3, <1>7 DEF SaysOf
<1>9. QED
  BY <1>8 DEF l, x, m

KeysIn(d, s) == FlattenSeq([k \in 1..Len(Slots(d)) |-> KeysOf(Slots(d)[k], s)])

\* The keys of a section: each of them, and nothing else.
LEMMA SectionKeys ==
  ASSUME IniConstants, NEW d, Saved(d), NEW s \in Names
  PROVE  /\ KeysIn(d, s) \in KeyLines(D!Map(d), s)
         /\ \A k : <<s, k>> \in DOMAIN D!Map(d) =>
              \E j \in 1..Len(KeysIn(d, s)) : KeysIn(d, s)[j].name = k
<1> DEFINE m == D!Map(d)
           C == KeyLines(m, s)
           u == [k \in 1..Len(Slots(d)) |-> KeysOf(Slots(d)[k], s)]
<1>1. d.size \in Nat /\ Len(Slots(d)) = d.size
  BY SlotsAre DEF Saved
<1>2. ASSUME NEW p \in 1..d.size PROVE KeysOf(Slots(d)[p], s) \in C
  <2>1. CASE Slots(d)[p].key # NoValue /\ ~IsSection(Slots(d)[p].key) /\ Slots(d)[p].key[1] = s
    <3> DEFINE l == KeyLine(Slots(d)[p])
    <3>1. /\ l \in JoinedLines /\ l.form = "plain" /\ ~l.more /\ Lower[l.name] = l.name
          /\ SaysOf(m, <<s, l.name>>, UpToComment(l.val))
      BY <2>1, KeyLineIs
    <3>2. KeysOf(Slots(d)[p], s) = <<l>>
      BY <2>1 DEF KeysOf
    <3> HIDE DEF l, m
    <3>3. <<l>> \in Seq(JoinedLines) /\ Len(<<l>>) = 1 /\ <<l>>[1] = l
      BY <3>1
    <3>4. QED
      BY <3>1, <3>2, <3>3 DEF KeyLines, SavedKey
  <2>2. CASE ~(Slots(d)[p].key # NoValue /\ ~IsSection(Slots(d)[p].key) /\ Slots(d)[p].key[1] = s)
    BY <2>2, KeyLinesClosed DEF KeysOf
  <2>3. QED
    BY <2>1, <2>2
<1>3. C \in SUBSET Seq(JoinedLines) /\ <<>> \in C /\ \A p, q \in C : p \o q \in C
  BY KeyLinesClosed DEF KeyLines
<1> HIDE DEF C
<1>4. u \in Seq(C) /\ Len(u) = d.size
  BY <1>1, <1>2
<1>5. KeysIn(d, s) \in C
  <2>1. FlattenSeq(u) \in C
    BY <1>3, <1>4, FlattenIn
  <2>2. QED
    BY <2>1 DEF KeysIn
<1>6. ASSUME NEW k, <<s, k>> \in DOMAIN m
      PROVE  \E j \in 1..Len(KeysIn(d, s)) : KeysIn(d, s)[j].name = k
  <2>1. PICK p \in 1..d.size : Slots(d)[p].key = <<s, k>> /\ Slots(d)[p].key # NoValue
    BY <1>6, SlotsAre DEF Saved
  <2>2. ~IsSection(Slots(d)[p].key) /\ Slots(d)[p].key[1] = s
    BY <2>1 DEF IsSection
  <2> DEFINE l == KeyLine(Slots(d)[p])
  <2>3. l \in JoinedLines /\ <<s, k>> = <<s, l.name>>
    BY <2>1, <2>2, KeyLineIs
  <2>4. KeysOf(Slots(d)[p], s) = <<l>>
    BY <2>1, <2>2 DEF KeysOf
  <2>5. p \in 1..Len(u) /\ u[p] = <<l>>
    BY <1>1, <2>4
  <2> HIDE DEF l, u
  <2>6. u \in Seq(Seq(JoinedLines))
    <3>1. \A A, B : A \subseteq B => Seq(A) \subseteq Seq(B)
      OBVIOUS
    <3>2. QED
      BY <1>3, <1>4, <3>1
  <2>7. PICK a, b \in Seq(JoinedLines) : FlattenSeq(u) = a \o u[p] \o b
    BY <2>5, <2>6, FlattenHas
  <2>8. Len(a) + 1 \in 1..Len(a \o <<l>> \o b) /\ (a \o <<l>> \o b)[Len(a) + 1] = l
    BY <2>3
  <2>9. KeysIn(d, s) = a \o <<l>> \o b
    BY <2>5, <2>7 DEF KeysIn, u
  <2>10. QED
    BY <2>3, <2>8, <2>9
<1>7. QED
  BY <1>5, <1>6 DEF C

HeadOf(s) == IniLine("section", s, <<>>)

\* A section with its keys is a faithful text.
LEMMA SectionBlock ==
  ASSUME IniConstants, NEW d, Saved(d), NEW s \in Names, <<s>> \in DOMAIN D!Map(d)
  PROVE  LET b == iniparser_dumpsection_ini(d, s)
         IN /\ b \in FaithfulTexts(D!Map(d)) /\ b[1] = HeadOf(s) /\ Len(b) \in Nat \ {0}
            /\ \A k \in 2..Len(b) : b[k].form = "plain"
            /\ \A k : <<s, k>> \in DOMAIN D!Map(d) => \E j \in 2..Len(b) : b[j].name = k
<1> DEFINE m == D!Map(d)
           q == KeysIn(d, s)
           b == iniparser_dumpsection_ini(d, s)
<1>1. b = <<HeadOf(s)>> \o q
  BY Zenon DEF iniparser_dumpsection_ini, KeysIn, HeadOf
<1>2. q \in KeyLines(m, s) /\ \A k : <<s, k>> \in DOMAIN m => \E j \in 1..Len(q) : q[j].name = k
  BY SectionKeys
<1>3. HeadOf(s) \in JoinedLines /\ HeadOf(s).form = "section" /\ HeadOf(s).name = s /\ ~HeadOf(s).more
  <2>1. "section" \in Forms /\ <<>> \in Values
    BY DEF Forms, Values
  <2>2. QED
    BY <2>1, IniLineType DEF HeadOf
<1>4. Lower[s] = s /\ SaysOf(m, <<s>>, NoValue)
  <2>1. IsSection(<<s>>)
    BY DEF IsSection
  <2>2. SectionEntry(m, <<s>>)
    BY <2>1, SavedEntries
  <2>3. QED
    BY <2>2 DEF SectionEntry, SaysOf
<1> HIDE DEF m, q, b
<1>5. q \in Seq(JoinedLines) /\ Len(q) \in Nat /\ \A j \in 1..Len(q) : SavedKey(m, s, q[j])
  BY <1>2 DEF KeyLines
<1>6. /\ b \in Seq(JoinedLines) /\ Len(b) = Len(q) + 1 /\ b[1] = HeadOf(s)
      /\ \A j \in 1..Len(q) : b[j + 1] = q[j]
  BY <1>1, <1>3, <1>5
<1>7. ASSUME NEW k \in 2..Len(b) PROVE k - 1 \in 1..Len(q) /\ b[k] = q[k - 1] /\ SavedKey(m, s, b[k])
  BY <1>5, <1>6
<1>8. \A k \in 2..Len(b) : b[k].form = "plain"
  BY <1>7 DEF SavedKey
<1>9. ASSUME NEW k \in 1..Len(b) PROVE FaithfulLine(m, b, k)
  <2>1. CASE k = 1
    BY <1>3, <1>4, <1>6, <2>1 DEF FaithfulLine
  <2>2. CASE k # 1
    <3>1. k \in 2..Len(b) /\ 1 \in 1..(k - 1)
      BY <1>5, <1>6, <2>2
    <3>2. Under(b, 1, k)
      <4>1. \A n \in (1 + 1)..k : b[n].form = "plain"
        BY <1>5, <1>6, <1>8, <3>1
      <4>2. QED
        BY <1>3, <1>6, <4>1 DEF Under
    <3>3. SavedKey(m, s, b[k]) /\ b[1].name = s
      BY <1>3, <1>6, <1>7, <3>1
    <3>4. QED
      BY <3>1, <3>2, <3>3 DEF FaithfulLine, SavedKey
  <2>3. QED
    BY <2>1, <2>2
<1>10. ASSUME NEW k, <<s, k>> \in DOMAIN m PROVE \E j \in 2..Len(b) : b[j].name = k
  <2>1. PICK j \in 1..Len(q) : q[j].name = k
    BY <1>2, <1>10
  <2>2. j + 1 \in 2..Len(b) /\ b[j + 1].name = k
    BY <1>5, <1>6, <2>1
  <2>3. QED
    BY <2>2
<1>11. b \in FaithfulTexts(m) /\ Len(b) \in Nat \ {0}
  BY <1>5, <1>6, <1>9 DEF FaithfulTexts
<1>12. QED
  BY <1>6, <1>8, <1>10, <1>11 DEF b, m

\* So is the dump, and it has the block of every section.
LEMMA DumpBlocks ==
  ASSUME IniConstants, NEW d, Saved(d)
  PROVE  /\ iniparser_dump_ini(d) \in FaithfulTexts(D!Map(d))
         /\ \A s \in Names : <<s>> \in DOMAIN D!Map(d) =>
              \E a, c \in Seq(JoinedLines) :
                iniparser_dump_ini(d) = a \o iniparser_dumpsection_ini(d, s) \o c
<1> DEFINE m == D!Map(d)
           C == FaithfulTexts(m)
           u == [k \in 1..Len(Slots(d)) |-> SectionAt(d, Slots(d)[k])]
<1>1. d.size \in Nat /\ Len(Slots(d)) = d.size
  BY SlotsAre DEF Saved
<1>2. ASSUME NEW p \in 1..d.size, NEW x, x = Slots(d)[p].key, x # NoValue, IsSection(x)
      PROVE  \E s \in Names : x = <<s>> /\ <<s>> \in DOMAIN m
  <2>1. x \in DOMAIN m
    BY <1>2, SlotsAre DEF Saved
  <2>2. SectionEntry(m, x)
    BY <1>2, <2>1, SavedEntries
  <2>3. QED
    BY <2>1, <2>2 DEF SectionEntry
<1>3. C \in SUBSET Seq(JoinedLines) /\ <<>> \in C /\ \A p, q \in C : p \o q \in C
  BY FaithfulConcat DEF FaithfulTexts
<1>4. ASSUME NEW p \in 1..d.size PROVE SectionAt(d, Slots(d)[p]) \in C
  <2>1. CASE Slots(d)[p].key # NoValue /\ IsSection(Slots(d)[p].key)
    <3>1. PICK s \in Names : Slots(d)[p].key = <<s>> /\ <<s>> \in DOMAIN m
      BY <1>2, <2>1
    <3>2. SectionAt(d, Slots(d)[p]) = iniparser_dumpsection_ini(d, s)
      BY <2>1, <3>1 DEF SectionAt
    <3>3. QED
      BY <3>1, <3>2, SectionBlock
  <2>2. CASE ~(Slots(d)[p].key # NoValue /\ IsSection(Slots(d)[p].key))
    BY <1>3, <2>2 DEF SectionAt
  <2>3. QED
    BY <2>1, <2>2
<1> HIDE DEF C
<1>5. u \in Seq(C) /\ Len(u) = d.size
  BY <1>1, <1>4
<1>6. iniparser_dump_ini(d) = FlattenSeq(u)
  BY DEF iniparser_dump_ini
<1>7. iniparser_dump_ini(d) \in C
  BY <1>3, <1>5, <1>6, FlattenIn
<1>8. ASSUME NEW s \in Names, <<s>> \in DOMAIN m
      PROVE  \E a, c \in Seq(JoinedLines) :
                iniparser_dump_ini(d) = a \o iniparser_dumpsection_ini(d, s) \o c
  <2>1. PICK p \in 1..d.size : Slots(d)[p].key = <<s>> /\ Slots(d)[p].key # NoValue
    BY <1>8, SlotsAre DEF Saved
  <2>2. IsSection(Slots(d)[p].key)
    BY <2>1 DEF IsSection
  <2>3. p \in 1..Len(u) /\ u[p] = iniparser_dumpsection_ini(d, s)
    BY <1>1, <2>1, <2>2 DEF SectionAt
  <2> HIDE DEF u
  <2>4. u \in Seq(Seq(JoinedLines))
    <3>1. \A A, B : A \subseteq B => Seq(A) \subseteq Seq(B)
      OBVIOUS
    <3>2. QED
      BY <1>3, <1>5, <3>1
  <2>5. \E a, c \in Seq(JoinedLines) : FlattenSeq(u) = a \o u[p] \o c
    BY <2>3, <2>4, FlattenHas
  <2>6. QED
    BY <1>6, <2>3, <2>5
<1>9. QED
  BY <1>7, <1>8 DEF C

\* No entry is left out.
LEMMA DumpMakes ==
  ASSUME IniConstants, NEW d, Saved(d), NEW x \in DOMAIN D!Map(d)
  PROVE  \E k \in 1..Len(iniparser_dump_ini(d)) : Makes(iniparser_dump_ini(d), k, x)
<1> DEFINE m == D!Map(d)
           f == iniparser_dump_ini(d)
<1>1. PICK s \in Names : <<s>> \in DOMAIN m /\ (x = <<s>> \/ \E k : x = <<s, k>>)
  <2>1. CASE IsSection(x)
    BY <2>1, SavedEntries DEF SectionEntry
  <2>2. CASE ~IsSection(x)
    BY <2>2, SavedEntries
  <2>3. QED
    BY <2>1, <2>2
<1>2. f \in FaithfulTexts(m)
  BY DumpBlocks
<1> DEFINE b == iniparser_dumpsection_ini(d, s)
<1>3. PICK a, c \in Seq(JoinedLines) : f = a \o b \o c
  BY <1>1, DumpBlocks
<1>4. /\ b \in FaithfulTexts(m) /\ b[1] = HeadOf(s) /\ Len(b) \in Nat \ {0}
      /\ \A k \in 2..Len(b) : b[k].form = "plain"
      /\ \A k : <<s, k>> \in DOMAIN m => \E j \in 2..Len(b) : b[j].name = k
  BY <1>1, SectionBlock
<1>5. b \in Seq(JoinedLines)
  BY <1>4 DEF FaithfulTexts
<1> HIDE DEF b, f, m
<1>6. /\ Len(a) \in Nat /\ Len(a) + Len(b) <= Len(f) /\ Len(f) \in Nat
      /\ \A j \in 1..Len(b) : Len(a) + j \in 1..Len(f) /\ f[Len(a) + j] = b[j]
  <2>1. a \o b \in Seq(JoinedLines) /\ Len(a \o b) = Len(a) + Len(b) /\ \A j \in 1..Len(b) : (a \o b)[Len(a) + j] = b[j]
    BY <1>5
  <2>2. Len(f) = Len(a \o b) + Len(c) /\ \A k \in 1..Len(a \o b) : f[k] = (a \o b)[k]
    BY <1>3, <2>1
  <2>3. Len(a) \in Nat /\ Len(c) \in Nat
    OBVIOUS
  <2>4. QED
    BY <1>4, <2>1, <2>2, <2>3
<1>7. b[1].form = "section" /\ b[1].name = s
  BY <1>4 DEF HeadOf, IniLine
<1>8. CASE x = <<s>>
  <2>1. Len(a) + 1 \in 1..Len(f) /\ f[Len(a) + 1] = b[1]
    BY <1>4, <1>6
  <2>2. Makes(f, Len(a) + 1, x)
    BY <1>2, <1>7, <1>8, <2>1, FaithfulMakes
  <2>3. QED
    BY <2>1, <2>2 DEF f
<1>9. ASSUME NEW k, x = <<s, k>> PROVE \E n \in 1..Len(f) : Makes(f, n, x)
  <2>1. PICK j \in 2..Len(b) : b[j].name = k
    BY <1>4, <1>9 DEF m
  <2>2. /\ Len(a) + 1 \in 1..Len(f) /\ f[Len(a) + 1] = b[1]
        /\ Len(a) + j \in 1..Len(f) /\ f[Len(a) + j] = b[j]
        /\ Len(a) + 1 < Len(a) + j
    BY <1>4, <1>6, <2>1
  <2>3. Under(f, Len(a) + 1, Len(a) + j)
    <3>1. ASSUME NEW n \in ((Len(a) + 1) + 1)..(Len(a) + j) PROVE f[n].form = "plain"
      <4>1. n - Len(a) \in 2..Len(b) /\ n - Len(a) \in 1..Len(b) /\ Len(a) + (n - Len(a)) = n
        BY <1>4, <1>6, <2>1
      <4>2. f[Len(a) + (n - Len(a))] = b[n - Len(a)] /\ b[n - Len(a)].form = "plain"
        BY <1>4, <1>6, <4>1
      <4>3. QED
        BY <4>1, <4>2
    <3>2. QED
      BY <1>7, <2>2, <3>1 DEF Under
  <2>4. f[Len(a) + j].form = "plain" /\ f[Len(a) + j].name = k /\ f[Len(a) + 1].name = s
    BY <1>4, <1>7, <2>1, <2>2
  <2>5. Makes(f, Len(a) + j, <<f[Len(a) + 1].name, f[Len(a) + j].name>>)
    BY <1>2, <2>2, <2>3, <2>4, FaithfulMakes
  <2>6. QED
    BY <1>9, <2>2, <2>4, <2>5
<1>10. QED
  BY <1>1, <1>8, <1>9 DEF f

\* Any text is saved so.
LEMMA TextDumps ==
  ASSUME IniConstants, text \in Seq(Lines) PROVE DumpReloads
<1> DEFINE d == Loaded(text).d
<1>1. OrderlyLoad(Loaded(text))
  BY LineSequences, LoadedOrderly
<1>2. DictInv(d) /\ Orderly(D!Map(d))
  BY <1>1 DEF OrderlyLoad, LoadShape
<1> HIDE DEF d
<1>3. ASSUME Saveable(d)
      PROVE  /\ Readable(iniparser_dump_ini(d))
             /\ D!Map(Loaded(iniparser_dump_ini(d)).d) = D!Map(d)
  <2>1. Saved(d)
    BY <1>2, <1>3 DEF Saved
  <2>2. iniparser_dump_ini(d) \in FaithfulTexts(D!Map(d))
    BY <2>1, DumpBlocks
  <2>3. Readable(iniparser_dump_ini(d))
    BY <2>2, FaithfulMakes, OrdinaryReads
  <2>4. QED
    BY <1>2, <2>1, <2>2, <2>3, DumpMakes, FaithfulReload
<1>4. QED
  BY <1>3 DEF DumpReloads, d

\* Whatever text is in the file, what iniparser_dump_ini() saves of it is "loadable" and
\* reads the same, if keys have a section and no value a comment mark.
THEOREM DumpReloadsHolds ==
  ASSUME ConfigurationConstants PROVE ConfigurationSpec => []DumpReloads
<1>1. ConfigurationInit => text \in Seq(Lines)
  BY DEF ConfigurationInit
<1>2. text \in Seq(Lines) /\ [ConfigurationNext]_<<dict, text>> => (text \in Seq(Lines))'
  BY TextStep
<1>3. text \in Seq(Lines) => DumpReloads
  BY TextDumps DEF ConfigurationConstants
<1>4. QED
  BY <1>1, <1>2, <1>3, PTL DEF ConfigurationSpec

------------------------------------------------------------------------------
(* Writing a setting                                                         *)

Known(f, x) == At(D!Map(Loaded(f).d), x)

\* What a file says of an entry, from its last line that makes it.
LEMMA KnownIs ==
  ASSUME IniConstants, NEW f, Ordinary(f), NEW x
  PROVE  /\ (\A k \in 1..Len(f) : ~Makes(f, k, x)) => Known(f, x) = <<>>
         /\ \A k \in 1..Len(f) :
              Makes(f, k, x) /\ (\A j \in 1..Len(f) : Makes(f, j, x) => j <= k) =>
                Known(f, x) = <<ValueOf(f[k])>>
<1>0. Len(f) \in Nat
  BY DEF Ordinary, Straight
<1>1. Known(f, x) = IF Makers(f, x) = {} THEN <<>> ELSE <<ValueOf(f[Max(Makers(f, x))])>>
  BY LastMaker DEF Known
<1>2. ASSUME NEW k \in 1..Len(f), Makes(f, k, x), \A j \in 1..Len(f) : Makes(f, j, x) => j <= k
      PROVE  Known(f, x) = <<ValueOf(f[k])>>
  <2>1. k \in Makers(f, x) /\ Makers(f, x) \subseteq Int /\ \A j \in Makers(f, x) : k >= j
    BY <1>0, <1>2 DEF Makers
  <2>2. Max(Makers(f, x)) = k
    BY <2>1, MaxIs
  <2>3. QED
    BY <1>1, <2>1, <2>2
<1>3. (\A k \in 1..Len(f) : ~Makes(f, k, x)) => Makers(f, x) = {}
  BY DEF Makers
<1>4. QED
  BY <1>1, <1>2, <1>3

\* The lines that make an entry are in the one file what they are in the other, at h.
LEMMA KnownSame ==
  ASSUME IniConstants, NEW f, Ordinary(f), NEW g, Ordinary(g), NEW x, NEW h,
         \A j \in 1..Len(f) : Makes(f, j, x) =>
           h[j] \in 1..Len(g) /\ Makes(g, h[j], x) /\ ValueOf(g[h[j]]) = ValueOf(f[j]),
         \A k \in 1..Len(g) : Makes(g, k, x) => \E j \in 1..Len(f) : Makes(f, j, x) /\ k = h[j],
         \A j, k \in 1..Len(f) : j <= k => h[j] <= h[k]
  PROVE  Known(g, x) = Known(f, x)
<1>0. Len(f) \in Nat
  BY DEF Ordinary, Straight
<1>1. CASE \A k \in 1..Len(f) : ~Makes(f, k, x)
  <2>1. \A k \in 1..Len(g) : ~Makes(g, k, x)
    BY <1>1
  <2>2. QED
    BY <1>1, <2>1, KnownIs
<1>2. CASE \E k \in 1..Len(f) : Makes(f, k, x)
  <2>1. Makers(f, x) \in SUBSET (1..Len(f)) /\ Makers(f, x) # {}
    BY <1>2 DEF Makers
  <2>2. PICK m \in Makers(f, x) : \A j \in Makers(f, x) : j <= m
    BY <1>0, <2>1, Greatest
  <2>3. m \in 1..Len(f) /\ Makes(f, m, x) /\ \A j \in 1..Len(f) : Makes(f, j, x) => j <= m
    BY <2>2 DEF Makers
  <2>4. h[m] \in 1..Len(g) /\ Makes(g, h[m], x) /\ ValueOf(g[h[m]]) = ValueOf(f[m])
    BY <2>3
  <2>5. \A k \in 1..Len(g) : Makes(g, k, x) => k <= h[m]
    BY <2>3
  <2>6. Known(f, x) = <<ValueOf(f[m])>>
    BY <2>3, KnownIs
  <2>7. Known(g, x) = <<ValueOf(g[h[m]])>>
    BY <2>4, <2>5, KnownIs
  <2>8. QED
    BY <2>4, <2>6, <2>7
<1>3. QED
  BY <1>1, <1>2

\* Files with the same heads of sections.
LEMMA GroupSame ==
  ASSUME IniConstants, NEW f \in Seq(JoinedLines), NEW g \in Seq(JoinedLines), NEW n \in Nat,
         n <= Len(f), n <= Len(g),
         \A k \in 1..n : /\ f[k].form = "section" <=> g[k].form = "section"
                         /\ f[k].form = "section" => f[k].name = g[k].name
  PROVE  \A k \in 0..n : GroupOf(g, k) = GroupOf(f, k) /\ LowSection(g, k) = LowSection(f, k)
<1> DEFINE T == {k \in Nat : k \in 0..n => GroupOf(g, k) = GroupOf(f, k)}
<1>1. 0 \in T
  <2>1. Heads(f, 0) = {} /\ Heads(g, 0) = {} /\ 0 \in 0..Len(f) /\ 0 \in 0..Len(g)
    BY DEF Heads
  <2>2. GroupOf(f, 0) = NoSection /\ GroupOf(g, 0) = NoSection
    BY <2>1, GroupFacts
  <2>3. QED
    BY <2>2
<1>2. ASSUME NEW k \in Nat, k \in T PROVE k + 1 \in T
  <2> SUFFICES ASSUME k + 1 \in 0..n PROVE GroupOf(g, k + 1) = GroupOf(f, k + 1)
    OBVIOUS
  <2>1. k + 1 \in 1..Len(f) /\ k + 1 \in 1..Len(g) /\ (k + 1) - 1 = k /\ k + 1 \in 1..n /\ k \in 0..n
    OBVIOUS
  <2>2. GroupOf(g, k) = GroupOf(f, k)
    BY <1>2, <2>1
  <2>3. GroupOf(f, k + 1) = IF f[k + 1].form = "section" THEN f[k + 1].name ELSE GroupOf(f, k)
    BY <2>1, GroupStep
  <2>4. GroupOf(g, k + 1) = IF g[k + 1].form = "section" THEN g[k + 1].name ELSE GroupOf(g, k)
    BY <2>1, GroupStep
  <2>5. QED
    BY <2>1, <2>2, <2>3, <2>4
<1> HIDE DEF T
<1>3. Nat \subseteq T
  BY <1>1, <1>2, Induction
<1>4. QED
  BY <1>3 DEF T, LowSection

\* A line after which a file goes on as before is no head of a section.
LEMMA GroupInserted ==
  ASSUME IniConstants, NEW f \in Seq(JoinedLines), NEW g \in Seq(JoinedLines), NEW q \in 1..(Len(f) + 1),
         Len(g) = Len(f) + 1, g[q].form # "section",
         \A k \in 1..(q - 1) : g[k] = f[k], \A k \in q..Len(f) : g[k + 1] = f[k]
  PROVE  /\ \A k \in 0..(q - 1) : GroupOf(g, k) = GroupOf(f, k) /\ LowSection(g, k) = LowSection(f, k)
         /\ \A k \in q..Len(g) : GroupOf(g, k) = GroupOf(f, k - 1) /\ LowSection(g, k) = LowSection(f, k - 1)
<1> DEFINE T == {k \in Nat : k \in q..Len(g) => GroupOf(g, k) = GroupOf(f, k - 1)}
<1>0. q - 1 \in Nat /\ q \in Nat /\ Len(f) \in Nat
  OBVIOUS
<1>1. \A k \in 0..(q - 1) : GroupOf(g, k) = GroupOf(f, k) /\ LowSection(g, k) = LowSection(f, k)
  <2>1. q - 1 <= Len(f) /\ q - 1 <= Len(g)
    BY <1>0
  <2>2. QED
    BY <1>0, <2>1, GroupSame, ZenonT(60)
<1>2. 0 \in T
  OBVIOUS
<1>3. ASSUME NEW k \in Nat, k \in T PROVE k + 1 \in T
  <2> SUFFICES ASSUME k + 1 \in q..Len(g) PROVE GroupOf(g, k + 1) = GroupOf(f, k)
    OBVIOUS
  <2>1. k + 1 \in 1..Len(g) /\ (k + 1) - 1 = k
    BY <1>0
  <2>2. GroupOf(g, k + 1) = IF g[k + 1].form = "section" THEN g[k + 1].name ELSE GroupOf(g, k)
    BY <2>1, GroupStep
  <2>3. CASE k + 1 = q
    <3>1. k \in 0..(q - 1) /\ g[k + 1].form # "section"
      BY <2>3
    <3>2. QED
      BY <1>1, <2>2, <3>1
  <2>4. CASE k + 1 # q
    <3>1. k \in q..Len(g) /\ k \in q..Len(f) /\ k \in 1..Len(f) /\ g[k + 1] = f[k]
      BY <1>0, <2>4
    <3>2. GroupOf(g, k) = GroupOf(f, k - 1)
      BY <1>3, <3>1
    <3>3. GroupOf(f, k) = IF f[k].form = "section" THEN f[k].name ELSE GroupOf(f, k - 1)
      BY <3>1, GroupStep
    <3>4. QED
      BY <2>2, <3>1, <3>2, <3>3
  <2>5. QED
    BY <2>3, <2>4
<1> HIDE DEF T
<1>4. Nat \subseteq T
  BY <1>2, <1>3, Induction
<1>5. \A k \in q..Len(g) : GroupOf(g, k) = GroupOf(f, k - 1)
  BY <1>0, <1>4 DEF T
<1>6. QED
  BY <1>1, <1>5 DEF LowSection

Setting(group, key) == <<Lower[group], Lower[key]>>

Mine(f, group) == {k \in 1..Len(f) : GroupOf(f, k) = group}

\* Lines that say what the setting is are where GLib looks for it, or above.
KeyClear(f, group, key) ==
  \A j \in 1..Len(f) : Makes(f, j, Setting(group, key)) =>
    (GroupOf(f, j) = group /\ f[j].name = key) \/ \A m \in Mine(f, group) : j < m

\* g is f with a line for the setting at p, in the place of those of R; h says where the
\* other lines have gone.
Moved(f, g, h, p, R, group, key, val) ==
  /\ p \in 1..Len(g) /\ R \subseteq 1..Len(f)
  /\ g[p].form = "plain" /\ g[p].name = key /\ g[p].val = val /\ LowSection(g, p - 1) = Lower[group]
  /\ \A j \in R : Makes(f, j, Setting(group, key))
  /\ \A j \in (1..Len(f)) \ R :
       /\ h[j] \in 1..Len(g) /\ g[h[j]] = f[j]
       /\ LowSection(g, h[j] - 1) = LowSection(f, j - 1) /\ GroupOf(g, h[j]) = GroupOf(f, j)
       /\ Makes(f, j, Setting(group, key)) => h[j] < p
  /\ \A k \in 1..Len(g) :
       k = p \/ g[k].form = "section" \/ \E j \in (1..Len(f)) \ R : k = h[j]
  /\ \A j, k \in 1..Len(f) : j < k => h[j] < h[k]
  /\ \A k \in 1..Len(g) : GroupOf(g, k) = group =>
       (\E m \in Mine(f, group) : h[m] <= k) \/ \A j \in 1..Len(f) : h[j] < k
  /\ \A j \in 1..Len(f) : h[j] \in Nat

\* A setting is written.
SetTo(f, g, group, key, val) ==
  /\ Known(g, Setting(group, key)) = <<UpToComment(val)>>
  /\ \A s, k : <<s, k>> # Setting(group, key) => Known(g, <<s, k>>) = Known(f, <<s, k>>)
  /\ \A k \in Names : Lower[k] # Lower[key] /\ KeyClear(f, group, k) => KeyClear(g, group, k)

\* A file whose lines are those of another, moved but in their order, less some that
\* make the setting and with a new line for it below those, says the same but for the
\* setting.
LEMMA MovedSets ==
  ASSUME IniConstants, NEW f, Ordinary(f), NEW g, Ordinary(g), NEW group, NEW key, NEW val,
         NEW h, NEW p, NEW R, Moved(f, g, h, p, R, group, key, val)
  PROVE  SetTo(f, g, group, key, val)
<1> DEFINE entry == Setting(group, key)
<1>1. /\ p \in 1..Len(g) /\ Len(g) \in Nat /\ Len(f) \in Nat /\ R \subseteq 1..Len(f)
      /\ \A j \in 1..Len(f) : h[j] \in Nat
  BY DEF Moved, Ordinary, Straight
<1>2. Makes(g, p, entry) /\ ValueOf(g[p]) = UpToComment(val)
  BY DEF Moved, Makes, Enters, EntryOf, ValueOf, Setting
<1>3. \A x : Makes(g, p, x) => x = entry
  BY <1>2 DEF Makes
<1>4. ASSUME NEW j \in (1..Len(f)) \ R, NEW x
      PROVE  /\ h[j] \in 1..Len(g) /\ (Makes(g, h[j], x) <=> Makes(f, j, x))
             /\ ValueOf(g[h[j]]) = ValueOf(f[j])
  BY DEF Moved, Makes
<1>5. ASSUME NEW k \in 1..Len(g), k # p, NEW s, NEW n, Makes(g, k, <<s, n>>)
      PROVE  \E j \in (1..Len(f)) \ R : k = h[j] /\ Makes(f, j, <<s, n>>)
  <2>1. g[k].form # "section"
    BY <1>5 DEF Makes, EntryOf
  <2>2. PICK j \in (1..Len(f)) \ R : k = h[j]
    BY <1>5, <2>1 DEF Moved
  <2>3. QED
    BY <1>4, <1>5, <2>2
<1>6. Known(g, entry) = <<UpToComment(val)>>
  <2>1. ASSUME NEW k \in 1..Len(g), Makes(g, k, entry) PROVE k <= p
    <3>1. CASE k = p
      BY <1>1, <3>1
    <3>2. CASE k # p
      <4>1. PICK j \in (1..Len(f)) \ R : k = h[j] /\ Makes(f, j, entry)
        BY <1>5, <2>1, <3>2 DEF Setting
      <4>2. h[j] < p
        BY <4>1 DEF Moved
      <4>3. QED
        BY <1>1, <4>1, <4>2
    <3>3. QED
      BY <3>1, <3>2
  <2>2. QED
    BY <1>1, <1>2, <2>1, KnownIs
<1>7. ASSUME NEW s, NEW n, <<s, n>> # entry PROVE Known(g, <<s, n>>) = Known(f, <<s, n>>)
  <2>1. ASSUME NEW j \in 1..Len(f), Makes(f, j, <<s, n>>)
        PROVE  h[j] \in 1..Len(g) /\ Makes(g, h[j], <<s, n>>) /\ ValueOf(g[h[j]]) = ValueOf(f[j])
    <3>1. j \notin R
      BY <1>7, <2>1 DEF Moved, Makes
    <3>2. QED
      BY <1>4, <2>1, <3>1
  <2>2. ASSUME NEW k \in 1..Len(g), Makes(g, k, <<s, n>>)
        PROVE  \E j \in 1..Len(f) : Makes(f, j, <<s, n>>) /\ k = h[j]
    <3>1. k # p
      BY <1>3, <1>7, <2>2
    <3>2. QED
      BY <1>5, <2>2, <3>1
  <2>3. \A j, k \in 1..Len(f) : j <= k => h[j] <= h[k]
    <3>1. \A j, k \in 1..Len(f) : j <= k => j < k \/ j = k
      BY <1>1
    <3>2. \A j, k \in 1..Len(f) : j < k => h[j] < h[k]
      BY DEF Moved
    <3>3. QED
      BY <1>1, <3>1, <3>2
  <2>4. QED
    BY <2>1, <2>2, <2>3, KnownSame
<1>8. ASSUME NEW k \in Names, Lower[k] # Lower[key], KeyClear(f, group, k) PROVE KeyClear(g, group, k)
  <2> SUFFICES ASSUME NEW c \in 1..Len(g), Makes(g, c, Setting(group, k)),
                      ~(GroupOf(g, c) = group /\ g[c].name = k), NEW m \in Mine(g, group)
               PROVE  c < m
    BY DEF KeyClear
  <2>1. Setting(group, k) # entry
    BY <1>8 DEF Setting
  <2>2. PICK j \in (1..Len(f)) \ R : c = h[j] /\ Makes(f, j, Setting(group, k))
    <3>1. c # p
      BY <1>3, <2>1
    <3>2. QED
      BY <1>5, <3>1 DEF Setting
  <2>3. GroupOf(g, c) = GroupOf(f, j) /\ g[c].name = f[j].name
    BY <2>2 DEF Moved
  <2>4. \A n \in Mine(f, group) : j < n
    BY <1>8, <2>2, <2>3 DEF KeyClear
  <2>5. m \in 1..Len(g) /\ GroupOf(g, m) = group
    BY DEF Mine
  <2>6. CASE \E n \in Mine(f, group) : h[n] <= m
    <3>1. PICK n \in Mine(f, group) : h[n] <= m
      BY <2>6
    <3>2. n \in 1..Len(f) /\ j < n
      BY <2>4 DEF Mine
    <3>3. h[j] < h[n]
      BY <2>2, <3>2 DEF Moved
    <3>4. QED
      BY <1>1, <2>2, <2>5, <3>1, <3>2, <3>3
  <2>7. CASE \A n \in 1..Len(f) : h[n] < m
    BY <2>2, <2>7
  <2>8. QED
    BY <2>5, <2>6, <2>7 DEF Moved
<1>9. QED
  BY <1>6, <1>7, <1>8 DEF SetTo

Old(f, group, key) == {k \in Mine(f, group) : f[k].form \in {"plain", "quoted"} /\ f[k].name = key}

\* The line that is written.
LEMMA SettingLine ==
  ASSUME NEW key \in Names, NEW val \in LineValues, NEW l, l = IniLine("plain", key, val)
  PROVE  l \in Lines /\ l.form = "plain" /\ l.name = key /\ l.val = val /\ ~l.more
  BY DEF IniLine, Lines, Forms

\* The lines that make a setting, and the group they are in.
LEMMA SettingMakers ==
  ASSUME IniConstants, NEW f \in Seq(JoinedLines), NEW group \in Names, NEW key \in Names,
         NEW j \in 1..Len(f)
  PROVE  /\ Makes(f, j, Setting(group, key)) => f[j].form \in {"plain", "quoted"}
         /\ j \in Old(f, group, key) => Makes(f, j, Setting(group, key))
<1>1. Makes(f, j, Setting(group, key)) => f[j].form \in {"plain", "quoted"}
  BY DEF Makes, Enters, EntryOf, Setting
<1>2. ASSUME j \in Old(f, group, key) PROVE Makes(f, j, Setting(group, key))
  <2>1. f[j].form \in {"plain", "quoted"} /\ f[j].name = key /\ GroupOf(f, j) = group
    BY <1>2 DEF Old, Mine
  <2>2. LowSection(f, j) = Lower[group]
    BY <2>1 DEF LowSection, IniConstants
  <2>3. LowSection(f, j) = LowSection(f, j - 1)
    BY <2>1, GroupStep DEF Section
  <2>4. QED
    BY <2>1, <2>2, <2>3 DEF Makes, Enters, EntryOf, Setting
<1>3. QED
  BY <1>1, <1>2

\* The setting takes the place of an old one.
LEMMA ReplacesOld ==
  ASSUME IniConstants, NEW f \in Seq(Lines), Ordinary(f), NEW group \in Names, NEW key \in Names,
         NEW val \in LineValues, KeyClear(f, group, key), NEW r \in Old(f, group, key),
         \A j \in Old(f, group, key) : j <= r,
         NEW g, g = [f EXCEPT ![r] = IniLine("plain", key, val)]
  PROVE  g \in Seq(Lines) /\ Ordinary(g) /\ SetTo(f, g, group, key, val)
<1> DEFINE l == IniLine("plain", key, val)
           h == [j \in 1..Len(f) |-> j]
<1>1. l \in Lines /\ l.form = "plain" /\ l.name = key /\ l.val = val /\ ~l.more
  BY SettingLine
<1>2. r \in 1..Len(f) /\ GroupOf(f, r) = group /\ Len(f) \in Nat /\ r \in Mine(f, group)
      /\ f[r].form \in {"plain", "quoted"}
  BY DEF Old, Mine
<1> HIDE DEF l
<1>3. g \in Seq(Lines) /\ Len(g) = Len(f) /\ g[r] = l /\ \A j \in 1..Len(f) : j # r => g[j] = f[j]
  BY <1>1, <1>2 DEF l
<1>4. Ordinary(g)
  BY <1>1, <1>2, <1>3, LineSequences, ZenonT(60) DEF Ordinary, Straight
<1>5. f \in Seq(JoinedLines) /\ g \in Seq(JoinedLines)
  BY <1>3, LineSequences
<1>6. \A k \in 0..Len(f) : GroupOf(g, k) = GroupOf(f, k) /\ LowSection(g, k) = LowSection(f, k)
  <2>1. \A k \in 1..Len(f) : /\ f[k].form = "section" <=> g[k].form = "section"
                             /\ f[k].form = "section" => f[k].name = g[k].name
    BY <1>1, <1>2, <1>3
  <2>2. Len(f) <= Len(f) /\ Len(f) <= Len(g)
    BY <1>2, <1>3
  <2>3. QED
    BY <1>2, <1>5, <2>1, <2>2, GroupSame
<1>7. Makes(f, r, Setting(group, key))
  BY <1>2, <1>5, SettingMakers
<1>8. LowSection(g, r - 1) = Lower[group]
  <2>1. LowSection(f, r) = Lower[group]
    BY <1>2 DEF LowSection, IniConstants
  <2>2. LowSection(f, r) = LowSection(f, r - 1)
    BY <1>2, <1>5, GroupStep DEF Section
  <2>3. r - 1 \in 0..Len(f)
    BY <1>2
  <2>4. QED
    BY <1>6, <2>1, <2>2, <2>3
<1>9. ASSUME NEW j \in 1..Len(f), j # r, Makes(f, j, Setting(group, key)) PROVE j < r
  <2>1. CASE GroupOf(f, j) = group /\ f[j].name = key
    <3>1. j \in Old(f, group, key)
      BY <1>5, <1>9, <2>1, SettingMakers DEF Old, Mine
    <3>2. QED
      BY <1>2, <1>9, <3>1
  <2>2. CASE \A m \in Mine(f, group) : j < m
    BY <1>2, <2>2
  <2>3. QED
    BY <1>9, <2>1, <2>2 DEF KeyClear
<1>10. Moved(f, g, h, r, {r}, group, key, val)
  <2>1. /\ r \in 1..Len(g) /\ {r} \subseteq 1..Len(f)
        /\ g[r].form = "plain" /\ g[r].name = key /\ g[r].val = val /\ LowSection(g, r - 1) = Lower[group]
        /\ \A j \in {r} : Makes(f, j, Setting(group, key))
    BY <1>1, <1>2, <1>3, <1>7, <1>8
  <2>2. ASSUME NEW j \in (1..Len(f)) \ {r}
        PROVE  /\ h[j] \in 1..Len(g) /\ g[h[j]] = f[j]
               /\ LowSection(g, h[j] - 1) = LowSection(f, j - 1) /\ GroupOf(g, h[j]) = GroupOf(f, j)
               /\ Makes(f, j, Setting(group, key)) => h[j] < r
    <3>1. j - 1 \in 0..Len(f) /\ j \in 0..Len(f) /\ j # r /\ h[j] = j
      OBVIOUS
    <3>2. QED
      BY <1>3, <1>6, <1>9, <3>1
  <2>3. \A k \in 1..Len(g) : k = r \/ \E j \in (1..Len(f)) \ {r} : k = h[j]
    BY <1>3
  <2>4. ASSUME NEW k \in 1..Len(g), GroupOf(g, k) = group PROVE \E m \in Mine(f, group) : h[m] <= k
    <3>1. k \in Mine(f, group) /\ h[k] <= k
      BY <1>3, <1>6, <2>4 DEF Mine
    <3>2. QED
      BY <3>1
  <2>5. /\ \A j, k \in 1..Len(f) : j < k => h[j] < h[k]
        /\ \A j \in 1..Len(f) : h[j] \in Nat
    OBVIOUS
  <2> HIDE DEF h
  <2>6. QED
    BY <2>1, <2>2, <2>3, <2>4, <2>5 DEF Moved
<1>11. QED
  BY <1>3, <1>4, <1>10, MovedSets

\* A line put between others.
LEMMA InsertFacts ==
  ASSUME NEW S, NEW f \in Seq(S), NEW q \in 1..(Len(f) + 1), NEW l \in S, NEW g, g = InsertAt(f, q, l)
  PROVE  /\ g \in Seq(S) /\ Len(g) = Len(f) + 1 /\ g[q] = l
         /\ \A k \in 1..(q - 1) : g[k] = f[k]
         /\ \A k \in q..Len(f) : g[k + 1] = f[k]
<1> DEFINE a == SubSeq(f, 1, q - 1)
           b == SubSeq(f, q, Len(f))
           c == a \o <<l>>
<1>1. /\ a \in Seq(S) /\ Len(a) = q - 1 /\ \A k \in 1..(q - 1) : a[k] = f[k]
      /\ b \in Seq(S) /\ Len(b) = Len(f) - q + 1 /\ \A k \in 1..(Len(f) - q + 1) : b[k] = f[q + k - 1]
  OBVIOUS
<1>2. g = c \o b
  BY DEF InsertAt
<1> HIDE DEF a, b
<1>3. c \in Seq(S) /\ Len(c) = q /\ c[q] = l /\ \A k \in 1..(q - 1) : c[k] = f[k]
  <2>1. c \in Seq(S) /\ Len(c) = Len(a) + 1 /\ c[Len(a) + 1] = l /\ \A k \in 1..Len(a) : c[k] = a[k]
    BY <1>1
  <2>2. Len(a) + 1 = q
    BY <1>1
  <2> HIDE DEF c
  <2>3. QED
    BY <1>1, <2>1, <2>2
<1> HIDE DEF c
<1>4. /\ g \in Seq(S) /\ Len(g) = Len(c) + Len(b)
      /\ \A k \in 1..Len(c) : g[k] = c[k]
      /\ \A k \in 1..Len(b) : g[Len(c) + k] = b[k]
  BY <1>1, <1>2, <1>3
<1>5. ASSUME NEW k \in q..Len(f) PROVE g[k + 1] = f[k]
  <2>1. k + 1 - q \in 1..Len(b) /\ Len(c) + (k + 1 - q) = k + 1 /\ q + (k + 1 - q) - 1 = k
    BY <1>1, <1>3
  <2>2. g[Len(c) + (k + 1 - q)] = b[k + 1 - q] /\ b[k + 1 - q] = f[q + (k + 1 - q) - 1]
    BY <1>1, <1>4, <2>1
  <2>3. QED
    BY <2>1, <2>2
<1>6. QED
  BY <1>1, <1>3, <1>4, <1>5, SMTT(30)

\* The setting goes to the end of its group.
LEMMA EntersGroup ==
  ASSUME IniConstants, NEW f \in Seq(Lines), Ordinary(f), NEW group \in Names, NEW key \in Names,
         NEW val \in LineValues, KeyClear(f, group, key), Old(f, group, key) = {},
         NEW t \in Mine(f, group), \A j \in Mine(f, group) : j <= t,
         NEW g, g = InsertAt(f, t + 1, IniLine("plain", key, val))
  PROVE  g \in Seq(Lines) /\ Ordinary(g) /\ SetTo(f, g, group, key, val)
<1> DEFINE l == IniLine("plain", key, val)
           q == t + 1
           h == [j \in 1..Len(f) |-> IF j < q THEN j ELSE j + 1]
<1>1. l \in Lines /\ l.form = "plain" /\ l.name = key /\ l.val = val /\ ~l.more
  BY SettingLine
<1>2. /\ t \in 1..Len(f) /\ GroupOf(f, t) = group /\ Len(f) \in Nat
      /\ q \in 1..(Len(f) + 1) /\ q \in Nat /\ q - 1 = t /\ t < q
  BY DEF Mine
<1> HIDE DEF l, q
<1>3. /\ g \in Seq(Lines) /\ Len(g) = Len(f) + 1 /\ g[q] = l
      /\ \A k \in 1..(q - 1) : g[k] = f[k]
      /\ \A k \in q..Len(f) : g[k + 1] = f[k]
  <2>1. g = InsertAt(f, q, l)
    BY DEF l, q
  <2>2. f \in Seq(Lines) /\ l \in Lines /\ q \in 1..(Len(f) + 1)
    BY <1>1, <1>2
  <2>3. QED
    BY <2>1, <2>2, InsertFacts
<1>4. f \in Seq(JoinedLines) /\ g \in Seq(JoinedLines)
  BY <1>3, LineSequences
<1>5. ASSUME NEW k \in 1..Len(g)
      PROVE  \/ k = q /\ g[k] = l
             \/ k \in 1..Len(f) /\ k < q /\ g[k] = f[k]
             \/ k - 1 \in 1..Len(f) /\ ~(k - 1 < q) /\ g[k] = f[k - 1] /\ (k - 1) + 1 = k
  <2>1. CASE k < q
    <3>1. k \in 1..(q - 1) /\ k \in 1..Len(f)
      BY <1>2, <2>1
    <3>2. QED
      BY <1>3, <2>1, <3>1
  <2>2. CASE k = q
    BY <1>3, <2>2
  <2>3. CASE k > q
    <3>1. k - 1 \in q..Len(f) /\ k - 1 \in 1..Len(f) /\ ~(k - 1 < q) /\ (k - 1) + 1 = k
      BY <1>2, <1>3, <2>3
    <3>2. g[(k - 1) + 1] = f[k - 1]
      BY <1>3, <3>1
    <3>3. QED
      BY <3>1, <3>2
  <2>4. QED
    BY <1>2, <2>1, <2>2, <2>3
<1>6. Ordinary(g)
  <2>1. \A k \in 1..Len(f) : ~f[k].more /\ f[k].form \notin {"junk", "long"}
    BY DEF Ordinary, Straight
  <2>2. ASSUME NEW k \in 1..Len(g) PROVE ~g[k].more /\ g[k].form \notin {"junk", "long"}
    BY <1>1, <1>5, <2>1
  <2>3. QED
    BY <1>4, <2>2 DEF Ordinary, Straight
<1>7. /\ \A k \in 0..(q - 1) : GroupOf(g, k) = GroupOf(f, k) /\ LowSection(g, k) = LowSection(f, k)
      /\ \A k \in q..Len(g) : GroupOf(g, k) = GroupOf(f, k - 1) /\ LowSection(g, k) = LowSection(f, k - 1)
  <2>1. g[q].form # "section"
    BY <1>1, <1>3
  <2>2. QED
    BY <1>2, <1>3, <1>4, <2>1, GroupInserted, SMTT(90)
<1>8. LowSection(g, q - 1) = Lower[group]
  <2>1. LowSection(f, t) = Lower[group]
    BY <1>2 DEF LowSection, IniConstants
  <2>2. q - 1 \in 0..(q - 1)
    BY <1>2
  <2>3. QED
    BY <1>2, <1>7, <2>1, <2>2
<1>9. ASSUME NEW j \in 1..Len(f), Makes(f, j, Setting(group, key)) PROVE j < q
  <2>1. GroupOf(f, j) # group \/ f[j].name # key
    BY <1>4, <1>9, SettingMakers DEF Old, Mine
  <2>2. j < t
    BY <1>9, <2>1 DEF KeyClear
  <2>3. QED
    BY <1>2, <2>2
<1>10. /\ q \in 1..Len(g) /\ {} \subseteq 1..Len(f)
       /\ g[q].form = "plain" /\ g[q].name = key /\ g[q].val = val
  BY <1>1, <1>2, <1>3
<1>11. ASSUME NEW j \in 1..Len(f)
       PROVE  /\ h[j] \in 1..Len(g) /\ g[h[j]] = f[j] /\ h[j] \in Nat
              /\ LowSection(g, h[j] - 1) = LowSection(f, j - 1) /\ GroupOf(g, h[j]) = GroupOf(f, j)
              /\ Makes(f, j, Setting(group, key)) => h[j] < q
  <2>1. CASE j < q
    <3>1. h[j] = j /\ j \in 1..(q - 1) /\ j \in 0..(q - 1) /\ j - 1 \in 0..(q - 1) /\ j \in 1..Len(g)
      BY <1>2, <1>3, <2>1
    <3> HIDE DEF h
    <3>2. QED
      BY <1>3, <1>7, <2>1, <3>1
  <2>2. CASE ~(j < q)
    <3>1. h[j] = j + 1 /\ j \in q..Len(f) /\ j \in q..Len(g) /\ j + 1 \in q..Len(g) /\ (j + 1) - 1 = j
          /\ j + 1 \in 1..Len(g)
      BY <1>2, <1>3, <2>2
    <3> HIDE DEF h
    <3>2. g[j + 1] = f[j] /\ LowSection(g, j) = LowSection(f, j - 1) /\ GroupOf(g, j + 1) = GroupOf(f, (j + 1) - 1)
      BY <1>3, <1>7, <3>1
    <3>3. QED
      BY <1>9, <2>2, <3>1, <3>2
  <2>3. QED
    BY <2>1, <2>2
<1>12. ASSUME NEW k \in 1..Len(g) PROVE k = q \/ \E j \in (1..Len(f)) \ {} : k = h[j]
  <2>1. CASE k \in 1..Len(f) /\ k < q
    <3>1. h[k] = k
      BY <2>1
    <3>2. QED
      BY <2>1, <3>1
  <2>2. CASE k - 1 \in 1..Len(f) /\ ~(k - 1 < q) /\ (k - 1) + 1 = k
    <3>1. h[k - 1] = k
      BY <2>2
    <3>2. QED
      BY <2>2, <3>1
  <2>3. QED
    BY <1>5, <2>1, <2>2
<1>13. \A j, k \in 1..Len(f) : j < k => h[j] < h[k]
  BY <1>2
<1>14. ASSUME NEW k \in 1..Len(g), GroupOf(g, k) = group PROVE \E m \in Mine(f, group) : h[m] <= k
  <2>1. CASE k < q
    <3>1. k \in 0..(q - 1) /\ k \in 1..Len(f) /\ h[k] = k
      BY <1>2, <2>1
    <3>2. k \in Mine(f, group)
      BY <1>7, <1>14, <3>1 DEF Mine
    <3>3. QED
      BY <3>1, <3>2
  <2>2. CASE ~(k < q)
    <3>1. h[t] = t
      BY <1>2
    <3>2. h[t] <= k
      BY <1>2, <2>2, <3>1
    <3>3. QED
      BY <3>2
  <2>3. QED
    BY <2>1, <2>2
<1>15. Moved(f, g, h, q, {}, group, key, val)
  <2> HIDE DEF h
  <2>1. QED
    BY <1>8, <1>10, <1>11, <1>12, <1>13, <1>14 DEF Moved
<1>16. QED
  BY <1>3, <1>6, <1>15, MovedSets

\* The group is not there: it is written with its setting.
LEMMA EntersSection ==
  ASSUME IniConstants, NEW f \in Seq(Lines), Ordinary(f), NEW group \in Names, NEW key \in Names,
         NEW val \in LineValues, Mine(f, group) = {},
         NEW g, g = f \o <<IniLine("section", group, <<>>), IniLine("plain", key, val)>>
  PROVE  g \in Seq(Lines) /\ Ordinary(g) /\ SetTo(f, g, group, key, val)
<1> DEFINE s == IniLine("section", group, <<>>)
           l == IniLine("plain", key, val)
           n == Len(f)
           h == [j \in 1..Len(f) |-> j]
<1>1. /\ l \in Lines /\ l.form = "plain" /\ l.name = key /\ l.val = val /\ ~l.more
      /\ s \in Lines /\ s.form = "section" /\ s.name = group /\ ~s.more
  <2>1. <<>> \in LineValues
    BY DEF LineValues
  <2>2. QED
    BY <2>1, SettingLine DEF IniLine, Lines, Forms
<1> HIDE DEF s, l
<1>2. n \in Nat /\ g = f \o <<s, l>>
  BY DEF s, l
<1>3. /\ g \in Seq(Lines) /\ Len(g) = n + 2 /\ g[n + 1] = s /\ g[n + 2] = l
      /\ \A k \in 1..n : g[k] = f[k]
  BY <1>1, <1>2
<1>4. f \in Seq(JoinedLines) /\ g \in Seq(JoinedLines)
  BY <1>3, LineSequences
<1> HIDE DEF n
<1>5. \A k \in 1..Len(g) : k \in 1..n \/ k = n + 1 \/ k = n + 2
  BY <1>2, <1>3
<1>6. Ordinary(g)
  <2>1. \A k \in 1..n : ~f[k].more /\ f[k].form \notin {"junk", "long"}
    BY DEF Ordinary, Straight, n
  <2>2. ASSUME NEW k \in 1..Len(g) PROVE ~g[k].more /\ g[k].form \notin {"junk", "long"}
    BY <1>1, <1>3, <1>5, <2>1
  <2>3. QED
    BY <1>4, <2>2 DEF Ordinary, Straight
<1>7. \A k \in 0..n : GroupOf(g, k) = GroupOf(f, k) /\ LowSection(g, k) = LowSection(f, k)
  <2>1. n <= Len(f) /\ n <= Len(g)
    BY <1>2, <1>3 DEF n
  <2>2. \A k \in 1..n : /\ f[k].form = "section" <=> g[k].form = "section"
                        /\ f[k].form = "section" => f[k].name = g[k].name
    BY <1>3
  <2>3. QED
    BY <1>2, <1>4, <2>1, <2>2, GroupSame
<1>8. LowSection(g, (n + 2) - 1) = Lower[group]
  <2>1. n + 1 \in 1..Len(g) /\ (n + 2) - 1 = n + 1
    BY <1>2, <1>3
  <2>2. LowSection(g, n + 1) = Section(LowSection(g, (n + 1) - 1), g[n + 1])
    BY <1>4, <2>1, GroupStep
  <2>3. QED
    BY <1>1, <1>3, <2>1, <2>2 DEF Section
<1>9. ASSUME NEW j \in 1..Len(f)
      PROVE  /\ h[j] \in 1..Len(g) /\ g[h[j]] = f[j] /\ h[j] \in Nat
             /\ LowSection(g, h[j] - 1) = LowSection(f, j - 1) /\ GroupOf(g, h[j]) = GroupOf(f, j)
             /\ h[j] < n + 2
  <2>1. h[j] = j /\ j \in 1..n /\ j \in 0..n /\ j - 1 \in 0..n /\ j \in 1..Len(g) /\ j < n + 2
    BY <1>2, <1>3 DEF n
  <2> HIDE DEF h
  <2>2. /\ g[j] = f[j] /\ LowSection(g, j - 1) = LowSection(f, j - 1)
        /\ GroupOf(g, j) = GroupOf(f, j) /\ j \in Nat
    <3>1. g[j] = f[j]
      BY <1>3, <2>1
    <3>2. LowSection(g, j - 1) = LowSection(f, j - 1) /\ GroupOf(g, j) = GroupOf(f, j)
      BY <1>7, <2>1
    <3>3. QED
      BY <1>2, <2>1, <3>1, <3>2
  <2>3. QED
    BY <2>1, <2>2
<1>10. ASSUME NEW k \in 1..Len(g)
       PROVE  k = n + 2 \/ g[k].form = "section" \/ \E j \in (1..Len(f)) \ {} : k = h[j]
  <2>1. CASE k \in 1..n
    BY <2>1 DEF n
  <2>2. QED
    BY <1>1, <1>3, <1>5, <2>1
<1>11. \A j, k \in 1..Len(f) : j < k => h[j] < h[k]
  OBVIOUS
<1>12. ASSUME NEW k \in 1..Len(g), GroupOf(g, k) = group PROVE \A j \in 1..Len(f) : h[j] < k
  <2>1. k \notin 1..n
    <3>1. ASSUME k \in 1..n PROVE FALSE
      <4>1. k \in 0..n /\ GroupOf(f, k) = group
        BY <1>2, <1>7, <1>12, <3>1
      <4>2. QED
        BY <3>1, <4>1 DEF Mine, n
    <3>2. QED
      BY <3>1
  <2>2. QED
    BY <1>2, <1>5, <2>1 DEF n
<1>13. /\ n + 2 \in 1..Len(g) /\ {} \subseteq 1..Len(f)
       /\ g[n + 2].form = "plain" /\ g[n + 2].name = key /\ g[n + 2].val = val
  BY <1>1, <1>2, <1>3
<1>14. Moved(f, g, h, n + 2, {}, group, key, val)
  <2> HIDE DEF h
  <2>1. QED
    BY <1>8, <1>9, <1>10, <1>11, <1>12, <1>13 DEF Moved
<1>15. QED
  BY <1>3, <1>6, <1>14, MovedSets

\* g_key_file_set_value() changes the setting to both readers, and no other.
LEMMA SetValueIs ==
  ASSUME IniConstants, NEW f \in Seq(Lines), Ordinary(f), NEW group \in Names, NEW key \in Names,
         NEW val \in LineValues, KeyClear(f, group, key), NEW g, g = SetValue(f, group, key, val)
  PROVE  g \in Seq(Lines) /\ Ordinary(g) /\ SetTo(f, g, group, key, val)
<1>1. g = IF Old(f, group, key) # {} THEN [f EXCEPT ![Max(Old(f, group, key))] = IniLine("plain", key, val)]
          ELSE IF Mine(f, group) # {} THEN InsertAt(f, Max(Mine(f, group)) + 1, IniLine("plain", key, val))
          ELSE f \o <<IniLine("section", group, <<>>), IniLine("plain", key, val)>>
  BY Zenon DEF SetValue, Old, Mine
<1>2. /\ Len(f) \in Nat /\ Mine(f, group) \in SUBSET (1..Len(f)) /\ Old(f, group, key) \in SUBSET (1..Len(f))
  BY DEF Mine, Old
<1>3. CASE Old(f, group, key) # {}
  <2>1. Max(Old(f, group, key)) \in Old(f, group, key)
        /\ \A j \in Old(f, group, key) : j <= Max(Old(f, group, key))
    BY <1>2, <1>3, Greatest
  <2>2. QED
    BY <1>1, <1>3, <2>1, ReplacesOld
<1>4. CASE Old(f, group, key) = {} /\ Mine(f, group) # {}
  <2>1. Max(Mine(f, group)) \in Mine(f, group) /\ \A j \in Mine(f, group) : j <= Max(Mine(f, group))
    BY <1>2, <1>4, Greatest
  <2>2. QED
    BY <1>1, <1>4, <2>1, EntersGroup
<1>5. CASE Old(f, group, key) = {} /\ Mine(f, group) = {}
  BY <1>1, <1>5, EntersSection
<1>6. QED
  BY <1>3, <1>4, <1>5

SetKey(f, k, w) == SetValue(f, w.group, k.key, k.val)

\* g[s] is the file with the keys numbered s set.
KeysFills(g, w, n, lines) ==
  g = [s \in SUBSET (1..n) |->
         IF s = {} THEN lines ELSE SetKey(g[s \ {Max(s)}], w.keys[Max(s)], w)]

\* FoldLeft takes the keys from the last one down, as it does the lines.
LEMMA KeysIs ==
  ASSUME NEW lines, NEW w, NEW n \in Nat, DOMAIN w.keys = 1..n
  PROVE  SetKeys(lines, w) = (CHOOSE g : KeysFills(g, w, n, lines))[1..n]
  BY Zenon DEF SetKeys, FoldLeft, MapThenFoldSet, KeysFills, SetKey

LEMMA KeysFillsExists ==
  ASSUME NEW lines, NEW w
  PROVE  \A n \in Nat : \E g : KeysFills(g, w, n, lines)
<1> DEFINE T == {n \in Nat : \E g : KeysFills(g, w, n, lines)}
<1>1. 0 \in T
  <2> DEFINE g == [s \in SUBSET (1..0) |-> lines]
  <2>1. \A s \in SUBSET (1..0) : s = {}
    OBVIOUS
  <2>2. KeysFills(g, w, 0, lines)
    BY <2>1 DEF KeysFills
  <2>3. QED
    BY <2>2
<1>2. ASSUME NEW n \in Nat, n \in T PROVE n + 1 \in T
  <2>1. PICK g : KeysFills(g, w, n, lines)
    BY <1>2
  <2> DEFINE h == [s \in SUBSET (1..(n + 1)) |->
                     IF n + 1 \in s THEN SetKey(g[s \ {n + 1}], w.keys[n + 1], w) ELSE g[s]]
  <2>2. ASSUME NEW s \in SUBSET (1..(n + 1))
        PROVE  h[s] = IF s = {} THEN lines ELSE SetKey(h[s \ {Max(s)}], w.keys[Max(s)], w)
    <3>1. CASE n + 1 \in s
      <4>1. Max(s) = n + 1
        BY <3>1, MaxLast
      <4>2. h[s \ {n + 1}] = g[s \ {n + 1}]
        OBVIOUS
      <4>3. QED
        BY <3>1, <4>1, <4>2
    <3>2. CASE n + 1 \notin s
      <4>1. s \in SUBSET (1..n) /\ s \ {Max(s)} \in SUBSET (1..n)
        <5>1. \A y \in s : y \in 1..n
          BY <3>2
        <5>2. QED
          BY <5>1
      <4>2. h[s] = g[s] /\ h[s \ {Max(s)}] = g[s \ {Max(s)}]
        BY <3>2, <4>1
      <4>3. g[s] = IF s = {} THEN lines ELSE SetKey(g[s \ {Max(s)}], w.keys[Max(s)], w)
        BY <2>1, <4>1, Zenon DEF KeysFills
      <4>4. QED
        BY <4>2, <4>3
    <3>3. QED
      BY <3>1, <3>2
  <2>3. KeysFills(h, w, n + 1, lines)
    BY <2>2, Zenon DEF KeysFills
  <2>4. QED
    BY <2>3
<1> HIDE DEF T
<1>3. Nat \subseteq T
  BY <1>1, <1>2, Induction
<1>4. QED
  BY <1>3 DEF T

\* st is the file after each of the keys.
KeysSteps(st, w, n, lines) ==
  /\ st[0] = lines
  /\ \A k \in 1..n : st[k] = SetKey(st[k - 1], w.keys[k], w)

LEMMA KeysTrace ==
  ASSUME NEW lines, NEW w, NEW n \in Nat, DOMAIN w.keys = 1..n
  PROVE  \E st : KeysSteps(st, w, n, lines) /\ SetKeys(lines, w) = st[n]
<1>1. PICK g : KeysFills(g, w, n, lines) /\ SetKeys(lines, w) = g[1..n]
  <2>1. \E g : KeysFills(g, w, n, lines)
    BY KeysFillsExists
  <2>2. SetKeys(lines, w) = (CHOOSE g : KeysFills(g, w, n, lines))[1..n]
    BY KeysIs
  <2>3. QED
    BY <2>1, <2>2
<1> DEFINE st == [k \in 0..n |-> g[1..k]]
<1>2. st[0] = lines
  <2>1. 1..0 = {} /\ {} \in SUBSET (1..n)
    OBVIOUS
  <2>2. g[{}] = lines
    BY <1>1, <2>1, Zenon DEF KeysFills
  <2>3. QED
    BY <2>1, <2>2
<1>3. ASSUME NEW k \in 1..n PROVE st[k] = SetKey(st[k - 1], w.keys[k], w)
  <2>1. 1..k \in SUBSET (1..n) /\ 1..k # {} /\ (1..k) \ {k} = 1..(k - 1) /\ Max(1..k) = k
    BY UpTo
  <2>2. g[1..k] = SetKey(g[(1..k) \ {Max(1..k)}], w.keys[Max(1..k)], w)
    BY <1>1, <2>1, Zenon DEF KeysFills
  <2>3. st[k] = g[1..k] /\ st[k - 1] = g[1..(k - 1)]
    OBVIOUS
  <2>4. QED
    BY <2>1, <2>2, <2>3
<1>4. SetKeys(lines, w) = st[n]
  BY <1>1
<1> HIDE DEF st
<1>5. QED
  BY <1>2, <1>3, <1>4 DEF KeysSteps

\* All the keys of a write are set, and no other.
LEMMA KeysSet ==
  ASSUME IniConstants, NEW f \in Seq(Lines), Ordinary(f), NEW w, w.group \in Names,
         NEW n \in Nat, DOMAIN w.keys = 1..n,
         \A j \in 1..n : w.keys[j].key \in Names /\ w.keys[j].val \in LineValues,
         \A j, k \in 1..n : j # k => Lower[w.keys[j].key] # Lower[w.keys[k].key],
         \A j \in 1..n : KeyClear(f, w.group, w.keys[j].key),
         NEW g, g = SetKeys(f, w)
  PROVE  /\ g \in Seq(Lines) /\ Ordinary(g)
         /\ \A s, k : (\A j \in 1..n : <<s, k>> # Setting(w.group, w.keys[j].key)) =>
              Known(g, <<s, k>>) = Known(f, <<s, k>>)
         /\ \A j \in 1..n :
              Known(g, Setting(w.group, w.keys[j].key)) = <<UpToComment(w.keys[j].val)>>
<1>1. PICK st : KeysSteps(st, w, n, f) /\ g = st[n]
  BY KeysTrace
<1> DEFINE Other(s, k) == \A j \in 1..n : <<s, k>> # Setting(w.group, w.keys[j].key)
           P(m) ==
             /\ st[m] \in Seq(Lines) /\ Ordinary(st[m])
             /\ \A s, k : Other(s, k) => Known(st[m], <<s, k>>) = Known(f, <<s, k>>)
             /\ \A j \in 1..m :
                  Known(st[m], Setting(w.group, w.keys[j].key)) = <<UpToComment(w.keys[j].val)>>
             /\ \A j \in (m + 1)..n : KeyClear(st[m], w.group, w.keys[j].key)
           T == {m \in Nat : m \in 0..n => P(m)}
<1>2. 0 \in T
  BY <1>1 DEF KeysSteps
<1>3. ASSUME NEW m \in Nat, m + 1 \in 0..n, P(m) PROVE P(m + 1)
  <2> DEFINE a == st[m]
             b == st[m + 1]
             key == w.keys[m + 1].key
             val == w.keys[m + 1].val
  <2>1. m + 1 \in 1..n /\ (m + 1) - 1 = m
    BY <1>3
  <2>2. b = SetValue(a, w.group, key, val)
    BY <1>1, <2>1 DEF KeysSteps, SetKey
  <2>3. a \in Seq(Lines) /\ Ordinary(a) /\ KeyClear(a, w.group, key) /\ key \in Names /\ val \in LineValues
    BY <1>3, <2>1
  <2>4. \A j \in 1..n : j # m + 1 => Lower[w.keys[j].key] # Lower[key]
    BY <2>1
  <2> HIDE DEF a, b, key, val
  <2>5. b \in Seq(Lines) /\ Ordinary(b) /\ SetTo(a, b, w.group, key, val)
    BY <2>2, <2>3, SetValueIs
  <2>6. ASSUME NEW s, NEW k, Other(s, k) PROVE Known(b, <<s, k>>) = Known(f, <<s, k>>)
    <3>1. Known(a, <<s, k>>) = Known(f, <<s, k>>)
      BY <1>3, <2>6 DEF a
    <3>2. <<s, k>> # Setting(w.group, key)
      BY <2>1, <2>6 DEF key
    <3>3. QED
      BY <2>5, <3>1, <3>2 DEF SetTo
  <2>7. ASSUME NEW j \in 1..(m + 1)
        PROVE  Known(b, Setting(w.group, w.keys[j].key)) = <<UpToComment(w.keys[j].val)>>
    <3>1. CASE j = m + 1
      BY <2>5, <3>1 DEF SetTo, key, val
    <3>2. CASE j # m + 1
      <4>1. j \in 1..m /\ j \in 1..n
        BY <2>1, <3>2
      <4>2. Known(a, Setting(w.group, w.keys[j].key)) = <<UpToComment(w.keys[j].val)>>
        BY <1>3, <4>1 DEF a
      <4>3. Setting(w.group, w.keys[j].key) # Setting(w.group, key)
        BY <2>4, <3>2, <4>1 DEF Setting
      <4>4. Known(b, Setting(w.group, w.keys[j].key)) = Known(a, Setting(w.group, w.keys[j].key))
        BY <2>5, <4>3 DEF SetTo, Setting
      <4>5. QED
        BY <4>2, <4>4
    <3>3. QED
      BY <3>1, <3>2
  <2>8. ASSUME NEW j \in ((m + 1) + 1)..n PROVE KeyClear(b, w.group, w.keys[j].key)
    <3>1. j \in (m + 1)..n /\ j \in 1..n /\ j # m + 1
      BY <2>1
    <3>2. KeyClear(a, w.group, w.keys[j].key)
      BY <1>3, <3>1 DEF a
    <3>3. w.keys[j].key \in Names /\ Lower[w.keys[j].key] # Lower[key]
      BY <2>4, <3>1
    <3>4. QED
      BY <2>5, <3>2, <3>3 DEF SetTo
  <2>9. QED
    BY <2>5, <2>6, <2>7, <2>8 DEF b
<1>4. ASSUME NEW m \in Nat, m \in T PROVE m + 1 \in T
  <2> HIDE DEF P
  <2> SUFFICES ASSUME m + 1 \in 0..n PROVE P(m + 1)
    OBVIOUS
  <2>1. P(m)
    BY <1>4
  <2>2. QED
    BY <1>3, <2>1
<1> HIDE DEF T
<1>5. Nat \subseteq T
  BY <1>2, <1>4, Induction
<1>6. P(n)
  <2> HIDE DEF P
  <2>1. n \in T /\ n \in 0..n
    BY <1>5
  <2>2. QED
    BY <2>1 DEF T
<1>7. QED
  BY <1>1, <1>6

\* Where names are spelled alike, every line that says what a setting is is where GLib
\* looks for it, or GLib has no such group.
LEMMA SpellingClears ==
  ASSUME IniConstants, NEW f \in Seq(JoinedLines), NEW w, w.group \in Names, OneSpelling(f, w),
         NEW n \in 1..Len(w.keys), w.keys[n].key \in Names
  PROVE  KeyClear(f, w.group, w.keys[n].key)
<1> DEFINE group == w.group
           key == w.keys[n].key
<1> SUFFICES ASSUME NEW j \in 1..Len(f), Makes(f, j, Setting(group, key)), NEW m \in Mine(f, group)
             PROVE  GroupOf(f, j) = group /\ f[j].name = key
  BY DEF KeyClear
<1>1. Len(f) \in Nat /\ group # NoSection
  BY DEF IniConstants
<1>2. \A k \in 1..Len(f) : GroupOf(f, k) # NoSection =>
        \E c \in 1..Len(f) : f[c].form = "section" /\ f[c].name = GroupOf(f, k)
  <2> SUFFICES ASSUME NEW k \in 1..Len(f), GroupOf(f, k) # NoSection
               PROVE  \E c \in 1..Len(f) : f[c].form = "section" /\ f[c].name = GroupOf(f, k)
    OBVIOUS
  <2>1. k \in 0..Len(f) /\ k \in Nat
    OBVIOUS
  <2>2. Heads(f, k) # {} /\ GroupOf(f, k) = f[Max(Heads(f, k))].name
    BY <2>1, GroupFacts
  <2>3. Max(Heads(f, k)) \in Heads(f, k)
    BY <2>1, <2>2, HeadsMax
  <2>4. Max(Heads(f, k)) \in 1..Len(f) /\ f[Max(Heads(f, k))].form = "section"
    BY <1>1, <2>3 DEF Heads
  <2>5. QED
    BY <2>2, <2>4
<1>3. \E c \in 1..Len(f) : f[c].form = "section" /\ f[c].name = group
  BY <1>1, <1>2 DEF Mine
<1>4. \A c \in 1..Len(f) :
        /\ f[c].form = "section" /\ Lower[f[c].name] = Lower[group] => f[c].name = group
        /\ f[c].form # "section" /\ Lower[f[c].name] = Lower[key] => f[c].name = key
  BY <1>3 DEF OneSpelling
<1>5. f[j].form \in {"plain", "quoted"}
  BY DEF Makes, Enters, EntryOf, Setting
<1>6. LowSection(f, j - 1) = Lower[group] /\ Lower[f[j].name] = Lower[key]
  BY <1>5 DEF Makes, EntryOf, Setting
<1>7. LowSection(f, j) = Lower[group]
  BY <1>5, <1>6, GroupStep DEF Section
<1>8. Lower[group] # NoSection
  BY DEF IniConstants
<1>9. GroupOf(f, j) # NoSection /\ Lower[GroupOf(f, j)] = Lower[group]
  BY <1>7, <1>8 DEF LowSection
<1>10. GroupOf(f, j) = group
  BY <1>2, <1>4, <1>9
<1>11. f[j].name = key
  BY <1>4, <1>5, <1>6
<1>12. QED
  BY <1>10, <1>11

------------------------------------------------------------------------------
(* What is written to files                                                  *)

Settings == [key : Names, val : LineValues]
OwnKeys == {q \in Seq(Settings) :
              \A j, k \in 1..Len(q) : j # k => Lower[q[j].key] # Lower[q[k].key]}
FileWrites == [file : {"conf", "sys"}, group : Names, keys : OwnKeys]

FilesTyped ==
  /\ DOMAIN disk = {"conf", "sys"} /\ disk["conf"] \in Seq(Lines) /\ disk["sys"] \in Seq(Lines)
  /\ opened \in Seq(Lines)
  /\ writes \in Seq(FileWrites)

\* Whatever is in a file, setting a key leaves lines.
LEMMA SetValueTyped ==
  ASSUME NEW f \in Seq(Lines), NEW group \in Names, NEW key \in Names, NEW val \in LineValues
  PROVE  SetValue(f, group, key, val) \in Seq(Lines)
<1> DEFINE l == IniLine("plain", key, val)
           g == SetValue(f, group, key, val)
<1>1. g = IF Old(f, group, key) # {} THEN [f EXCEPT ![Max(Old(f, group, key))] = l]
          ELSE IF Mine(f, group) # {} THEN InsertAt(f, Max(Mine(f, group)) + 1, l)
          ELSE f \o <<IniLine("section", group, <<>>), l>>
  BY Zenon DEF SetValue, Old, Mine
<1>2. /\ Len(f) \in Nat /\ Mine(f, group) \in SUBSET (1..Len(f)) /\ Old(f, group, key) \in SUBSET (1..Len(f))
  BY DEF Mine, Old
<1>3. l \in Lines
  BY SettingLine
<1>4. IniLine("section", group, <<>>) \in Lines
  BY DEF IniLine, Lines, Forms, LineValues
<1> HIDE DEF g, l
<1>5. CASE Old(f, group, key) # {}
  <2>1. Max(Old(f, group, key)) \in 1..Len(f)
    BY <1>2, <1>5, Greatest
  <2>2. QED
    BY <1>1, <1>3, <1>5, <2>1 DEF g
<1>6. CASE Old(f, group, key) = {} /\ Mine(f, group) # {}
  <2>1. Max(Mine(f, group)) \in 1..Len(f)
    BY <1>2, <1>6, Greatest
  <2>2. Max(Mine(f, group)) + 1 \in 1..(Len(f) + 1)
    BY <1>2, <2>1
  <2>3. InsertAt(f, Max(Mine(f, group)) + 1, l) \in Seq(Lines)
    BY <1>3, <2>2, InsertFacts
  <2>4. QED
    BY <1>1, <1>6, <2>3 DEF g
<1>7. CASE Old(f, group, key) = {} /\ Mine(f, group) = {}
  <2>1. <<IniLine("section", group, <<>>), l>> \in Seq(Lines)
    BY <1>3, <1>4
  <2>2. f \o <<IniLine("section", group, <<>>), l>> \in Seq(Lines)
    BY <2>1
  <2>3. QED
    BY <1>1, <1>7, <2>2 DEF g
<1>8. QED
  BY <1>5, <1>6, <1>7 DEF g

\* And so does setting several.
LEMMA SetKeysTyped ==
  ASSUME NEW f \in Seq(Lines), NEW w \in FileWrites PROVE SetKeys(f, w) \in Seq(Lines)
<1> DEFINE n == Len(w.keys)
<1>1. n \in Nat /\ DOMAIN w.keys = 1..n /\ w.group \in Names
      /\ \A k \in 1..n : w.keys[k].key \in Names /\ w.keys[k].val \in LineValues
  <2>1. w.keys \in Seq(Settings) /\ w.group \in Names
    BY DEF FileWrites, OwnKeys
  <2>2. \A k \in 1..n : w.keys[k] \in Settings
    BY <2>1
  <2>3. QED
    BY <2>1, <2>2 DEF Settings
<1> HIDE DEF n
<1>2. PICK st : KeysSteps(st, w, n, f) /\ SetKeys(f, w) = st[n]
  BY <1>1, KeysTrace
<1> DEFINE T == {k \in Nat : k <= n => st[k] \in Seq(Lines)}
<1>3. 0 \in T
  BY <1>2 DEF KeysSteps
<1>4. ASSUME NEW k \in Nat, k \in T PROVE k + 1 \in T
  <2> SUFFICES ASSUME k + 1 <= n PROVE st[k + 1] \in Seq(Lines)
    OBVIOUS
  <2>1. k + 1 \in 1..n /\ (k + 1) - 1 = k /\ st[k] \in Seq(Lines)
    BY <1>1, <1>4
  <2>2. st[k + 1] = SetValue(st[k], w.group, w.keys[k + 1].key, w.keys[k + 1].val)
    BY <1>2, <2>1 DEF KeysSteps, SetKey
  <2>3. QED
    BY <1>1, <2>1, <2>2, SetValueTyped
<1> HIDE DEF T
<1>5. Nat \subseteq T
  BY <1>3, <1>4, Induction
<1>6. QED
  BY <1>1, <1>2, <1>5 DEF T

\* What GLib reads of a file is lines of it, all of them if it takes each one.
LEMMA GlibLoadTyped ==
  ASSUME NEW f \in Seq(Lines)
  PROVE  GlibLoad(f) \in Seq(Lines) /\ (GlibReads(f) => GlibLoad(f) = f)
<1> DEFINE bad == {k \in 1..Len(f) : ~GlibTakes(f, k)}
<1>1. Len(f) \in Nat /\ \A m \in 0..Len(f) : SubSeq(f, 1, m) \in Seq(Lines)
  OBVIOUS
<1>2. CASE bad = {}
  BY <1>2 DEF GlibLoad
<1>3. CASE bad # {}
  <2>1. bad \in SUBSET Nat
    BY <1>1
  <2>2. PICK n \in bad : \A m \in bad : n <= m
    BY <1>3, <2>1, Least
  <2>3. Min(bad) \in bad
    BY <2>2 DEF Min
  <2>4. GlibLoad(f) = SubSeq(f, 1, Min(bad) - 1)
    BY <1>3 DEF GlibLoad
  <2>5. Min(bad) - 1 \in 0..Len(f)
    BY <1>1, <2>3
  <2>6. ~GlibReads(f)
    BY <1>3 DEF GlibReads
  <2>7. QED
    BY <1>1, <2>4, <2>5, <2>6
<1>4. QED
  BY <1>2, <1>3

\* Each request writes settings under names of the program.
LEMMA OneKeyTyped ==
  ASSUME NEW k \in Names, NEW v \in LineValues
  PROVE  OneKey(k, v) \in OwnKeys
<1>1. [key |-> k, val |-> v] \in Settings
  BY DEF Settings
<1>2. OneKey(k, v) \in Seq(Settings) /\ Len(OneKey(k, v)) = 1
  BY <1>1 DEF OneKey
<1>3. QED
  BY <1>2 DEF OwnKeys

LEMMA WriteTyped ==
  ASSUME NEW f \in {"conf", "sys"}, NEW group \in Names, NEW keys \in OwnKeys
  PROVE  <<Write(f, group, keys)>> \in Seq(FileWrites)
<1>1. Write(f, group, keys) \in FileWrites
  BY DEF Write, FileWrites
<1>2. QED
  BY <1>1

LEMMA SyssetTyped ==
  ASSUME CommandsConstants, NEW r \in Datagrams, r.json, r.ordertype = "sysset"
  PROVE  SyssetWrites(r.values) \in Seq(FileWrites)
<1>1. \A k \in DOMAIN r.values : r.values[k] \in LineValues
  BY DEF CommandsConstants, ValuesOf
<1>2. {"hd_humtime", "loop_time", Prog} \subseteq Names
  BY DEF CommandsConstants, WrittenNames, Prog
<1>3. ASSUME NEW k \in {"hd_humtime", "loop_time"}, k \in DOMAIN r.values
      PROVE  <<Write("conf", Prog, OneKey(k, r.values[k]))>> \in Seq(FileWrites)
  <2>1. OneKey(k, r.values[k]) \in OwnKeys
    BY <1>1, <1>2, <1>3, OneKeyTyped
  <2>2. QED
    BY <1>2, <2>1, WriteTyped
<1>4. \A k \in {"hd_humtime", "loop_time"} : SettingWrite(r.values, k) \in Seq(FileWrites)
  BY <1>3 DEF SettingWrite
<1>5. SettingWrite(r.values, "hd_humtime") \in Seq(FileWrites) /\ SettingWrite(r.values, "loop_time") \in Seq(FileWrites)
  BY <1>4
<1>6. QED
  BY <1>5 DEF SyssetWrites

LEMMA NetsetTyped ==
  ASSUME CommandsConstants, NEW r \in Datagrams, r.json, r.ordertype = "netset"
  PROVE  NetsetWrites(r) \in Seq(FileWrites)
<1>1. /\ r.address # "none" => <<r.address>> \in LineValues
      /\ r.gateway # "none" => <<r.gateway>> \in LineValues
  BY DEF CommandsConstants, ValuesOf
<1>2. /\ "eth0" \in Names /\ "net_ipaddr" \in Names /\ "net_gateway" \in Names
      /\ Lower["net_ipaddr"] # Lower["net_gateway"]
  BY DEF CommandsConstants, WrittenNames
<1> DEFINE a == [key |-> "net_ipaddr", val |-> <<r.address>>]
           b == [key |-> "net_gateway", val |-> <<r.gateway>>]
           q == NetKey("net_ipaddr", r.address) \o NetKey("net_gateway", r.gateway)
<1>3. /\ r.address # "none" => a \in Settings
      /\ r.gateway # "none" => b \in Settings
  BY <1>1, <1>2 DEF Settings
<1>4. /\ NetKey("net_ipaddr", r.address) = IF r.address = "none" THEN <<>> ELSE <<a>>
      /\ NetKey("net_gateway", r.gateway) = IF r.gateway = "none" THEN <<>> ELSE <<b>>
  BY DEF NetKey, OneKey
<1>5. a.key = "net_ipaddr" /\ b.key = "net_gateway"
  OBVIOUS
<1> HIDE DEF a, b
<1>6. q \in OwnKeys
  <2>1. CASE r.address = "none" \/ r.gateway = "none"
    <3>1. q = <<>> \/ (q = <<a>> /\ a \in Settings) \/ (q = <<b>> /\ b \in Settings)
      <4>1. <<>> \o <<>> = <<>> /\ <<a>> \o <<>> = <<a>> /\ <<>> \o <<b>> = <<b>>
        OBVIOUS
      <4>2. CASE r.address = "none" /\ r.gateway = "none"
        BY <1>4, <4>1, <4>2
      <4>3. CASE r.address # "none" /\ r.gateway = "none"
        BY <1>3, <1>4, <4>1, <4>3
      <4>4. CASE r.address = "none" /\ r.gateway # "none"
        BY <1>3, <1>4, <4>1, <4>4
      <4>5. QED
        BY <2>1, <4>2, <4>3, <4>4
    <3> HIDE DEF q
    <3>2. q \in Seq(Settings) /\ Len(q) \in {0, 1}
      <4>1. <<>> \in Seq(Settings) /\ Len(<<>>) = 0
        OBVIOUS
      <4>2. \A e \in Settings : <<e>> \in Seq(Settings) /\ Len(<<e>>) = 1
        OBVIOUS
      <4>3. QED
        BY <3>1, <4>1, <4>2
    <3>3. QED
      BY <3>2 DEF OwnKeys
  <2>2. CASE r.address # "none" /\ r.gateway # "none"
    <3>1. q \in Seq(Settings) /\ Len(q) = 2 /\ q[1] = a /\ q[2] = b
      BY <1>3, <1>4, <2>2
    <3>2. ASSUME NEW j \in 1..Len(q), NEW k \in 1..Len(q), j # k
          PROVE  Lower[q[j].key] # Lower[q[k].key]
      <4>1. (j = 1 /\ k = 2) \/ (j = 2 /\ k = 1)
        BY <3>1, <3>2
      <4>2. QED
        BY <1>2, <1>5, <3>1, <4>1
    <3>3. QED
      BY <3>1, <3>2 DEF OwnKeys
  <2>3. QED
    BY <2>1, <2>2
<1>7. QED
  BY <1>2, <1>6, WriteTyped DEF NetsetWrites

LEMMA HandleTyped ==
  ASSUME CommandsConstants, NEW r \in Datagrams, r.json, Handle(r)
  PROVE  writes' \in Seq(FileWrites)
<1>1. CASE r.ordertype = "sysset"
  BY <1>1, SyssetTyped DEF Handle
<1>2. CASE r.ordertype = "serial_number"
  <2>1. CASE r.val = <<>>
    BY <1>2, <2>1 DEF Handle
  <2>2. CASE r.val # <<>>
    <3>1. r.val[1] \in LineValues
      BY <1>2, <2>2 DEF CommandsConstants, ValuesOf
    <3>2. "serial_number" \in Names /\ "system_config" \in Names
      BY DEF CommandsConstants, WrittenNames
    <3>3. OneKey("serial_number", r.val[1]) \in OwnKeys
      BY <3>1, <3>2, OneKeyTyped
    <3>4. <<Write("sys", "system_config", OneKey("serial_number", r.val[1]))>> \in Seq(FileWrites)
      BY <3>2, <3>3, WriteTyped
    <3>5. QED
      BY <1>2, <2>2, <3>4 DEF Handle
  <2>3. QED
    BY <2>1, <2>2
<1>3. CASE r.ordertype = "netset"
  BY <1>3, NetsetTyped DEF Handle
<1>4. CASE r.ordertype \notin {"sysset", "serial_number", "netset"}
  <2>1. writes' = <<>>
    BY <1>4 DEF Handle
  <2>2. QED
    BY <2>1
<1>5. QED
  BY <1>1, <1>2, <1>3, <1>4

\* The write at hand.
LEMMA FirstWrite ==
  ASSUME FilesTyped, writes # <<>>
  PROVE  Head(writes) \in FileWrites /\ Tail(writes) \in Seq(FileWrites)
BY DEF FilesTyped

\* Files hold lines, and what is to be written is under names of the program.
LEMMA FilesTypedInit ==
  ASSUME CommandsConstants, CommandsInit PROVE FilesTyped
<1>1. PICK d \in Disks, g \in Gateways : CommandsInitWith(d, g)
  BY DEF CommandsInit
<1>2. DOMAIN d = {"conf", "sys"} /\ d.conf \in Seq(Lines) /\ d.sys \in Seq(Lines)
  BY DEF CommandsConstants
<1>3. disk = d /\ opened = <<>> /\ writes = <<>>
  BY <1>1 DEF CommandsInitWith
<1>4. <<>> \in Seq(Lines) /\ <<>> \in Seq(FileWrites)
  OBVIOUS
<1>5. QED
  BY <1>2, <1>3, <1>4 DEF FilesTyped

LEMMA DiskTyped ==
  ASSUME NEW before, DOMAIN before = {"conf", "sys"},
         before["conf"] \in Seq(Lines), before["sys"] \in Seq(Lines),
         NEW f \in {"conf", "sys"}, NEW lines \in Seq(Lines),
         NEW after, after = [before EXCEPT ![f] = lines]
  PROVE  DOMAIN after = {"conf", "sys"} /\ after["conf"] \in Seq(Lines) /\ after["sys"] \in Seq(Lines)
OBVIOUS

LEMMA TruncateTyped ==
  ASSUME FilesTyped, Truncate
  PROVE  /\ FilesTyped'
         /\ opened' = SetKeys(GlibLoad(disk[Head(writes).file]), Head(writes))
<1> DEFINE w == Head(writes)
<1>1. w \in FileWrites /\ writes' = writes
  BY FirstWrite DEF Truncate
<1>2. w.file \in {"conf", "sys"}
  BY <1>1 DEF FileWrites
<1>3. disk[w.file] \in Seq(Lines)
  BY <1>2 DEF FilesTyped
<1>4. opened' = SetKeys(GlibLoad(disk[w.file]), w) /\ disk' = [disk EXCEPT ![w.file] = <<>>]
  BY DEF Truncate
<1> HIDE DEF w
<1>5. opened' \in Seq(Lines)
  BY <1>1, <1>3, <1>4, GlibLoadTyped, SetKeysTyped
<1>6. <<>> \in Seq(Lines)
  OBVIOUS
<1>7. DOMAIN disk' = {"conf", "sys"} /\ disk'["conf"] \in Seq(Lines) /\ disk'["sys"] \in Seq(Lines)
  BY <1>2, <1>4, <1>6, DiskTyped DEF FilesTyped
<1>8. QED
  BY <1>1, <1>4, <1>5, <1>7 DEF FilesTyped, w

LEMMA SaveTyped ==
  ASSUME FilesTyped, FilesInv, Save PROVE FilesTyped'
<1>1. writes # <<>>
  BY DEF FilesInv, Save
<1>2. Head(writes) \in FileWrites /\ Tail(writes) \in Seq(FileWrites)
  BY <1>1, FirstWrite
<1>3. Head(writes).file \in {"conf", "sys"}
  BY <1>2 DEF FileWrites
<1>4. disk' = [disk EXCEPT ![Head(writes).file] = opened] /\ writes' = Tail(writes) /\ opened' = <<>>
  BY DEF Save
<1>5. DOMAIN disk' = {"conf", "sys"} /\ disk'["conf"] \in Seq(Lines) /\ disk'["sys"] \in Seq(Lines)
  BY <1>3, <1>4, DiskTyped DEF FilesTyped
<1>6. <<>> \in Seq(Lines)
  OBVIOUS
<1>7. QED
  BY <1>2, <1>4, <1>5, <1>6 DEF FilesTyped

LEMMA FilesTypedNext ==
  ASSUME CommandsConstants, CommandsInv, FilesTyped, [CommandsNext]_commandVars
  PROVE  FilesTyped'
<1>1. ASSUME UNCHANGED <<disk, opened, writes>> PROVE FilesTyped'
  BY <1>1 DEF FilesTyped
<1>2. ASSUME NEW r \in Datagrams, Receive(r) PROVE FilesTyped'
  <2>1. UNCHANGED <<disk, opened>>
    BY <1>2 DEF Receive
  <2>2. writes' = writes \/ (r.json /\ Handle(r))
    BY <1>2 DEF Receive
  <2>3. writes' \in Seq(FileWrites)
    BY <2>2, HandleTyped DEF FilesTyped
  <2>4. QED
    BY <2>1, <2>3 DEF FilesTyped
<1>3. CASE Truncate
  BY <1>3, TruncateTyped
<1>4. CASE Save
  BY <1>4, SaveTyped DEF CommandsInv
<1>5. CASE SaveFails \/ OpenFails
  <2>1. writes # <<>> /\ writes' = Tail(writes) /\ (opened' = <<>> \/ opened' = opened) /\ disk' = disk
    BY <1>5 DEF SaveFails, OpenFails, CommandsInv, FilesInv
  <2>2. Tail(writes) \in Seq(FileWrites) /\ <<>> \in Seq(Lines)
    BY <2>1, FirstWrite
  <2>3. QED
    BY <2>1, <2>2 DEF FilesTyped
<1>6. CASE Netset \/ Written \/ Encode \/ Send
  BY <1>1, <1>6 DEF Netset, Written, Encode, Send
<1>7. CASE Killed \/ Exit
  <2>1. disk' = disk /\ writes' = <<>> /\ opened' = <<>>
    BY <1>7 DEF Killed, Exit, Boot
  <2>2. <<>> \in Seq(Lines) /\ <<>> \in Seq(FileWrites)
    OBVIOUS
  <2>3. QED
    BY <2>1, <2>2 DEF FilesTyped
<1>8. CASE UNCHANGED commandVars
  BY <1>1, <1>8 DEF commandVars
<1>9. QED
  BY <1>2, <1>3, <1>4, <1>5, <1>6, <1>7, <1>8 DEF CommandsNext

\* What is looked up is what the file says of the setting.
LEMMA ReadsKnown ==
  ASSUME IniConstants, NEW f, Ordinary(f), NEW s \in Names, NEW k \in Names
  PROVE  Lookup(f, s, k) =
           IF Known(f, Setting(s, k)) = <<>> THEN NotThere ELSE Known(f, Setting(s, k))[1]
<1>1. Lookup(f, s, k) =
        IF Makers(f, Setting(s, k)) = {} THEN NotThere ELSE ValueOf(f[Max(Makers(f, Setting(s, k)))])
  BY LookupIs DEF Setting
<1>2. Known(f, Setting(s, k)) =
        IF Makers(f, Setting(s, k)) = {} THEN <<>> ELSE <<ValueOf(f[Max(Makers(f, Setting(s, k)))])>>
  BY LastMaker DEF Known
<1>3. QED
  BY <1>1, <1>2

\* To write one setting leaves the others as they were read.
LEMMA KeepsOthers ==
  ASSUME CommandsConstants, NEW old \in Seq(Lines), NEW w \in FileWrites,
         GlibReads(old), Readable(old), OneSpelling(old, w), \A k \in 1..Len(old) : ~old[k].more,
         NEW g, g = SetKeys(GlibLoad(old), w)
  PROVE  /\ Readable(g)
         /\ \A s \in Names, k \in Names :
              <<Lower[s], Lower[k]>> \notin {<<Lower[w.group], Lower[w.keys[j].key]>> : j \in 1..Len(w.keys)} =>
                Lookup(g, s, k) = Lookup(old, s, k)
         /\ \A k \in 1..Len(w.keys) :
              Lookup(g, w.group, w.keys[k].key) = UpToComment(w.keys[k].val)
<1> DEFINE n == Len(w.keys)
<1>1. IniConstants
  BY DEF CommandsConstants
<1>2. g = SetKeys(old, w)
  BY GlibLoadTyped
<1>3. Straight(old) /\ old \in Seq(JoinedLines)
  BY LineSequences DEF Straight
<1>4. \A j \in 1..Len(old) : old[j].form \notin {"junk", "long"}
  BY <1>1, <1>3, StrangeRefused
<1>5. Ordinary(old)
  BY <1>3, <1>4 DEF Ordinary
<1>6. /\ n \in Nat /\ DOMAIN w.keys = 1..n /\ w.group \in Names
      /\ \A k \in 1..n : w.keys[k].key \in Names /\ w.keys[k].val \in LineValues
      /\ \A j, k \in 1..n : j # k => Lower[w.keys[j].key] # Lower[w.keys[k].key]
  <2>1. w.keys \in Seq(Settings) /\ w.group \in Names
        /\ \A j, k \in 1..n : j # k => Lower[w.keys[j].key] # Lower[w.keys[k].key]
    BY DEF FileWrites, OwnKeys
  <2>2. \A k \in 1..n : w.keys[k] \in Settings
    BY <2>1
  <2>3. n \in Nat /\ DOMAIN w.keys = 1..n
    BY <2>1
  <2>4. \A k \in 1..n : w.keys[k].key \in Names /\ w.keys[k].val \in LineValues
    BY <2>2 DEF Settings
  <2> HIDE DEF n
  <2>5. QED
    BY <2>1, <2>3, <2>4
<1>7. \A j \in 1..n : KeyClear(old, w.group, w.keys[j].key)
  BY <1>1, <1>3, <1>6, SpellingClears
<1> HIDE DEF n
<1>8. /\ g \in Seq(Lines) /\ Ordinary(g)
      /\ \A s, k : (\A j \in 1..n : <<s, k>> # Setting(w.group, w.keys[j].key)) =>
           Known(g, <<s, k>>) = Known(old, <<s, k>>)
      /\ \A j \in 1..n : Known(g, Setting(w.group, w.keys[j].key)) = <<UpToComment(w.keys[j].val)>>
  BY <1>1, <1>2, <1>5, <1>6, <1>7, KeysSet
<1>9. Readable(g)
  BY <1>1, <1>8, OrdinaryReads
<1>10. ASSUME NEW s \in Names, NEW k \in Names,
              <<Lower[s], Lower[k]>> \notin {<<Lower[w.group], Lower[w.keys[j].key]>> : j \in 1..n}
       PROVE  Lookup(g, s, k) = Lookup(old, s, k)
  <2>1. \A j \in 1..n : <<Lower[s], Lower[k]>> # Setting(w.group, w.keys[j].key)
    BY <1>10 DEF Setting
  <2>2. Known(g, Setting(s, k)) = Known(old, Setting(s, k))
    BY <1>8, <2>1 DEF Setting
  <2>3. QED
    BY <1>1, <1>5, <1>8, <2>2, ReadsKnown
<1>11. ASSUME NEW k \in 1..n
       PROVE  Lookup(g, w.group, w.keys[k].key) = UpToComment(w.keys[k].val)
  <2>1. Known(g, Setting(w.group, w.keys[k].key)) = <<UpToComment(w.keys[k].val)>>
    BY <1>8
  <2>2. Lookup(g, w.group, w.keys[k].key) =
          IF Known(g, Setting(w.group, w.keys[k].key)) = <<>> THEN NotThere
          ELSE Known(g, Setting(w.group, w.keys[k].key))[1]
    BY <1>1, <1>6, <1>8, ReadsKnown
  <2>3. QED
    BY <2>1, <2>2
<1>12. QED
  BY <1>9, <1>10, <1>11 DEF n

\* A write to zhjs.conf or sysconf.conf changes the settings it is told to and no other,
\* whatever else the file holds and in whatever order, as long as both readers understand
\* it and it spells names as the program does.
THEOREM RewriteKeepsOthersHolds ==
  ASSUME CommandsConstants
  PROVE  CommandsSpec => RewriteKeepsOthers
<1> DEFINE Rewrites ==
      \A f \in {"conf", "sys"} :
        LET old == disk[f]
            w == Head(writes)
            mine == {<<Lower[w.group], Lower[w.keys[k].key]>> : k \in 1..Len(w.keys)}
        IN /\ serving = "write" /\ serving' = "saved" /\ w.file = f
           /\ GlibReads(old) /\ Readable(old) /\ OneSpelling(old, w)
           /\ \A k \in 1..Len(old) : ~old[k].more
           => /\ Readable(opened')
              /\ \A s \in Names, k \in Names :
                   <<Lower[s], Lower[k]>> \notin mine => Lookup(opened', s, k) = Lookup(old, s, k)
              /\ \A k \in 1..Len(w.keys) :
                   Lookup(opened', w.group, w.keys[k].key) = UpToComment(w.keys[k].val)
<1>1. CommandsInit => CommandsInv /\ FilesTyped
  BY CommandsInitInv, FilesTypedInit
<1>2. CommandsInv /\ FilesTyped /\ [CommandsNext]_commandVars => CommandsInv' /\ FilesTyped'
  BY CommandsNextInv, FilesTypedNext
<1>3. CommandsInv /\ FilesTyped /\ [CommandsNext]_commandVars => [Rewrites]_commandVars
  <2> SUFFICES ASSUME CommandsInv, FilesTyped, CommandsNext, serving = "write", serving' = "saved",
                      NEW f \in {"conf", "sys"}, Head(writes).file = f,
                      GlibReads(disk[f]), Readable(disk[f]), OneSpelling(disk[f], Head(writes)),
                      \A k \in 1..Len(disk[f]) : ~disk[f][k].more
               PROVE  LET old == disk[f]
                          w == Head(writes)
                          mine == {<<Lower[w.group], Lower[w.keys[k].key]>> : k \in 1..Len(w.keys)}
                      IN /\ Readable(opened')
                         /\ \A s \in Names, k \in Names :
                              <<Lower[s], Lower[k]>> \notin mine => Lookup(opened', s, k) = Lookup(old, s, k)
                         /\ \A k \in 1..Len(w.keys) :
                              Lookup(opened', w.group, w.keys[k].key) = UpToComment(w.keys[k].val)
    OBVIOUS
  <2>1. Truncate
    BY DEF CommandsNext, Receive, Save, SaveFails, OpenFails, Netset, Written, Encode, Send, Killed, Exit, Boot
  <2>2. writes # <<>>
    BY <2>1 DEF Truncate
  <2>3. Head(writes) \in FileWrites /\ disk[f] \in Seq(Lines)
    BY <2>2, FirstWrite DEF FilesTyped
  <2>4. opened' = SetKeys(GlibLoad(disk[f]), Head(writes))
    BY <2>1, TruncateTyped
  <2>5. QED
    BY <2>3, <2>4, KeepsOthers, SMTT(30)
<1> HIDE DEF Rewrites
<1>4. QED
  BY <1>1, <1>2, <1>3, PTL DEF CommandsSpec, RewriteKeepsOthers, Rewrites

\* What is set in the table is read back and nothing else, the settings a thread reads
\* are those of the file, and a saved file reads the same.
THEOREM SettingsReadHolds ==
  ASSUME ConfigurationConstants
  PROVE  ConfigurationSpec => SettingsRead
<1>1. ConfigurationSpec => IsMap /\ []CountsEntries
  BY DictionaryIsMap
<1>2. ConfigurationSpec => []ReadsLastLine
  BY ReadsLastLineHolds
<1>3. ConfigurationSpec => []DumpReloads
  BY DumpReloadsHolds
<1>4. QED
  BY <1>1, <1>2, <1>3, PTL DEF SettingsRead

------------------------------------------------------------------------------
(* The words of an order and the steps of hex2bin_trim_len()               *)

\* g[s] is what the characters numbered s make.
CutFills(g, string, n) ==
  g = [s \in SUBSET (1..n) |->
         IF s = {} THEN NothingCut ELSE CutChar(g[s \ {Max(s)}], string[Max(s)])]

\* FoldLeft takes the characters from the last one down.
LEMMA CutIs ==
  ASSUME NEW string, NEW n \in Nat, DOMAIN string = 1..n
  PROVE  FoldLeft(CutChar, NothingCut, string) = (CHOOSE g : CutFills(g, string, n))[1..n]
  BY Zenon DEF FoldLeft, MapThenFoldSet, CutFills

\* What the characters make exists.
LEMMA CutFillsExists ==
  ASSUME NEW string
  PROVE  \A n \in Nat : \E g : CutFills(g, string, n)
<1> DEFINE T == {n \in Nat : \E g : CutFills(g, string, n)}
<1>1. 0 \in T
  <2> DEFINE g == [s \in SUBSET (1..0) |-> NothingCut]
  <2>1. \A s \in SUBSET (1..0) : s = {}
    OBVIOUS
  <2>2. CutFills(g, string, 0)
    BY <2>1 DEF CutFills
  <2>3. QED
    BY <2>2
<1>2. ASSUME NEW n \in Nat, n \in T PROVE n + 1 \in T
  <2>1. PICK g : CutFills(g, string, n)
    BY <1>2
  <2> DEFINE h == [s \in SUBSET (1..(n + 1)) |->
                     IF n + 1 \in s THEN CutChar(g[s \ {n + 1}], string[n + 1]) ELSE g[s]]
  <2>2. ASSUME NEW s \in SUBSET (1..(n + 1))
        PROVE  h[s] = IF s = {} THEN NothingCut ELSE CutChar(h[s \ {Max(s)}], string[Max(s)])
    <3>1. CASE n + 1 \in s
      <4>1. Max(s) = n + 1
        BY <3>1, MaxLast
      <4>2. h[s \ {n + 1}] = g[s \ {n + 1}]
        OBVIOUS
      <4>3. QED
        BY <3>1, <4>1, <4>2
    <3>2. CASE n + 1 \notin s
      <4>1. s \in SUBSET (1..n) /\ s \ {Max(s)} \in SUBSET (1..n)
        <5>1. \A y \in s : y \in 1..n
          BY <3>2
        <5>2. QED
          BY <5>1
      <4>2. h[s] = g[s] /\ h[s \ {Max(s)}] = g[s \ {Max(s)}]
        BY <3>2, <4>1
      <4>3. g[s] = IF s = {} THEN NothingCut ELSE CutChar(g[s \ {Max(s)}], string[Max(s)])
        BY <2>1, <4>1, Zenon DEF CutFills
      <4>4. QED
        BY <4>2, <4>3
    <3>3. QED
      BY <3>1, <3>2
  <2>3. CutFills(h, string, n + 1)
    BY <2>2, Zenon DEF CutFills
  <2>4. QED
    BY <2>3
<1> HIDE DEF T
<1>3. Nat \subseteq T
  BY <1>1, <1>2, Induction
<1>4. QED
  BY <1>3 DEF T

\* st is what is known after each of the characters.
CutSteps(st, string, n) ==
  /\ st[0] = NothingCut
  /\ \A k \in 1..n : st[k] = CutChar(st[k - 1], string[k])

\* The words between the characters are a trace of it.
LEMMA CutTrace ==
  ASSUME NEW string, NEW n \in Nat, DOMAIN string = 1..n
  PROVE  \E st : CutSteps(st, string, n) /\ FoldLeft(CutChar, NothingCut, string) = st[n]
<1>1. PICK g : CutFills(g, string, n) /\ FoldLeft(CutChar, NothingCut, string) = g[1..n]
  BY CutFillsExists, CutIs
<1> DEFINE st == [k \in 0..n |-> g[1..k]]
<1>2. st[0] = NothingCut
  <2>1. 1..0 = {} /\ {} \in SUBSET (1..n)
    OBVIOUS
  <2>2. g[{}] = NothingCut
    BY <1>1, <2>1, Zenon DEF CutFills
  <2>3. QED
    BY <2>1, <2>2
<1>3. ASSUME NEW k \in 1..n PROVE st[k] = CutChar(st[k - 1], string[k])
  <2>1. 1..k \in SUBSET (1..n) /\ 1..k # {} /\ (1..k) \ {k} = 1..(k - 1) /\ Max(1..k) = k
    BY UpTo
  <2>2. g[1..k] = CutChar(g[(1..k) \ {Max(1..k)}], string[Max(1..k)])
    BY <1>1, <2>1, Zenon DEF CutFills
  <2>3. st[k] = g[1..k] /\ st[k - 1] = g[1..(k - 1)]
    OBVIOUS
  <2>4. QED
    BY <2>1, <2>2, <2>3
<1>4. FoldLeft(CutChar, NothingCut, string) = st[n]
  BY <1>1
<1> HIDE DEF st
<1>5. QED
  BY <1>2, <1>3, <1>4 DEF CutSteps

\* st is what hex2bin_trim_len() knows after each of n steps.
TrimSteps(st, src, n) == st = [s \in 0..n |-> IF s = 0 THEN Untrimmed ELSE TrimStep(st[s - 1], src)]

\* hex2bin_trim_len() is what is known after the last step.
LEMMA TrimIs ==
  ASSUME NEW src, NEW n
  PROVE  Trimmed(src, n) = (CHOOSE st : TrimSteps(st, src, n))[n]
  BY Zenon DEF Trimmed, TrimSteps

\* The steps of hex2bin_trim_len() exist.
LEMMA TrimStepsExist ==
  ASSUME NEW src
  PROVE  \A n \in Nat : \E st : TrimSteps(st, src, n)
<1> DEFINE T == {n \in Nat : \E st : TrimSteps(st, src, n)}
<1>1. 0 \in T
  <2> DEFINE st == [s \in 0..0 |-> Untrimmed]
  <2>1. TrimSteps(st, src, 0)
    BY DEF TrimSteps
  <2>2. QED
    BY <2>1
<1>2. ASSUME NEW n \in Nat, n \in T PROVE n + 1 \in T
  <2>1. PICK st : TrimSteps(st, src, n)
    BY <1>2
  <2> DEFINE u == [s \in 0..(n + 1) |-> IF s = n + 1 THEN TrimStep(st[n], src) ELSE st[s]]
  <2>2. ASSUME NEW s \in 0..(n + 1) PROVE u[s] = IF s = 0 THEN Untrimmed ELSE TrimStep(u[s - 1], src)
    <3>1. CASE s = n + 1
      <4>1. u[n] = st[n] /\ n + 1 # 0 /\ (n + 1) - 1 = n
        OBVIOUS
      <4>2. QED
        BY <3>1, <4>1
    <3>2. CASE s # n + 1
      <4>1. s \in 0..n /\ u[s] = st[s] /\ (s # 0 => u[s - 1] = st[s - 1])
        BY <3>2
      <4>2. st[s] = IF s = 0 THEN Untrimmed ELSE TrimStep(st[s - 1], src)
        BY <2>1, <4>1, Zenon DEF TrimSteps
      <4>3. QED
        BY <4>1, <4>2
    <3>3. QED
      BY <3>1, <3>2
  <2>3. TrimSteps(u, src, n + 1)
    BY <2>2, Zenon DEF TrimSteps
  <2>4. QED
    BY <2>3
<1> HIDE DEF T
<1>3. Nat \subseteq T
  BY <1>1, <1>2, Induction
<1>4. QED
  BY <1>3 DEF T

\* So there is a trace of hex2bin_trim_len().
LEMMA TrimTrace ==
  ASSUME NEW src, NEW n \in Nat
  PROVE  \E st : /\ st[0] = Untrimmed
                 /\ \A s \in 1..n : st[s] = TrimStep(st[s - 1], src)
                 /\ Trimmed(src, n) = st[n]
<1>1. PICK st : TrimSteps(st, src, n) /\ Trimmed(src, n) = st[n]
  BY TrimStepsExist, TrimIs
<1>2. \A s \in 0..n : st[s] = IF s = 0 THEN Untrimmed ELSE TrimStep(st[s - 1], src)
  BY <1>1, Zenon DEF TrimSteps
<1>3. 0 \in 0..n /\ \A s \in 1..n : s \in 0..n /\ s # 0
  OBVIOUS
<1>4. QED
  BY <1>1, <1>2, <1>3

------------------------------------------------------------------------------
(* The digits and their values                                             *)

\* The digits are different characters, and none is a blank.
LEMMA DigitsDiffer ==
  /\ DOMAIN HexDigits = 1..16 /\ DOMAIN UpperDigits = 1..6
  /\ \A a, b \in 1..16 : HexDigits[a] = HexDigits[b] => a = b
  /\ \A a \in 1..16, b \in 1..6 : HexDigits[a] # UpperDigits[b]
<1>1. HexDigits[1] = "0" /\ HexDigits[2] = "1" /\ HexDigits[3] = "2" /\ HexDigits[4] = "3"
      /\ HexDigits[5] = "4" /\ HexDigits[6] = "5" /\ HexDigits[7] = "6" /\ HexDigits[8] = "7"
      /\ HexDigits[9] = "8" /\ HexDigits[10] = "9" /\ HexDigits[11] = "a" /\ HexDigits[12] = "b"
      /\ HexDigits[13] = "c" /\ HexDigits[14] = "d" /\ HexDigits[15] = "e" /\ HexDigits[16] = "f"
  BY DEF HexDigits
<1>2. UpperDigits[1] = "A" /\ UpperDigits[2] = "B" /\ UpperDigits[3] = "C"
      /\ UpperDigits[4] = "D" /\ UpperDigits[5] = "E" /\ UpperDigits[6] = "F"
  BY DEF UpperDigits
<1>3. 1..16 = {1, 2, 3, 4, 5, 6, 7, 8, 9, 10, 11, 12, 13, 14, 15, 16} /\ 1..6 = {1, 2, 3, 4, 5, 6}
  OBVIOUS
<1>4. DOMAIN HexDigits = 1..16 /\ DOMAIN UpperDigits = 1..6
  BY DEF HexDigits, UpperDigits
<1>6. \A a, b \in 1..16 : HexDigits[a] = HexDigits[b] => a = b
  BY <1>1, <1>3, SMTT(60)
<1>7. \A a \in 1..16, b \in 1..6 : HexDigits[a] # UpperDigits[b]
  BY <1>1, <1>2, <1>3, SMTT(60)
<1>8. QED
  BY <1>4, <1>6, <1>7

\* Nor is a line feed or the end of a string.
LEMMA NotDigits ==
  /\ {Blank, "LF", "NUL"} \cap Range(HexDigits) = {}
  /\ {Blank, "LF", "NUL"} \cap Range(UpperDigits) = {}
<1>1. Range(HexDigits) = {"0", "1", "2", "3", "4", "5", "6", "7", "8", "9", "a", "b", "c", "d", "e", "f"}
  BY SMTT(60) DEF HexDigits, Range
<1>2. Range(UpperDigits) = {"A", "B", "C", "D", "E", "F"}
  BY DEF UpperDigits, Range
<1>3. QED
  BY <1>1, <1>2 DEF Blank

\* The value of a digit of either case is its place.
LEMMA ValueIs ==
  ASSUME NEW c \in Range(HexDigits) \cup Range(UpperDigits)
  PROVE  /\ hex_to_bin(c) \in 0..15
         /\ HexDigits[hex_to_bin(c) + 1] = c \/ (hex_to_bin(c) >= 10 /\ UpperDigits[hex_to_bin(c) - 9] = c)
<1> DEFINE Is(n) == HexDigits[n + 1] = c \/ (n >= 10 /\ UpperDigits[n - 9] = c)
<1>1. \E n \in 0..15 : Is(n)
  <2>1. CASE c \in Range(HexDigits)
    <3>1. PICK a \in 1..16 : HexDigits[a] = c
      BY <2>1, DigitsDiffer DEF Range
    <3>2. a - 1 \in 0..15 /\ (a - 1) + 1 = a
      OBVIOUS
    <3>3. QED
      BY <3>1, <3>2
  <2>2. CASE c \in Range(UpperDigits)
    <3>1. PICK b \in 1..6 : UpperDigits[b] = c
      BY <2>2, DigitsDiffer DEF Range
    <3>2. b + 9 \in 0..15 /\ b + 9 >= 10 /\ (b + 9) - 9 = b
      OBVIOUS
    <3>3. QED
      BY <3>1, <3>2
  <2>3. QED
    BY <2>1, <2>2
<1>2. hex_to_bin(c) = CHOOSE n \in 0..15 : Is(n)
  BY Zenon DEF hex_to_bin, HexValue
<1> HIDE DEF Is
<1>3. hex_to_bin(c) \in 0..15 /\ Is(hex_to_bin(c))
  BY <1>1, <1>2
<1>4. QED
  BY <1>3 DEF Is

\* Anything else has none.
LEMMA NoValueOf ==
  ASSUME NEW c, c \notin Range(HexDigits) \cup Range(UpperDigits) PROVE hex_to_bin(c) = -1
  BY Zenon DEF hex_to_bin, HexValue

\* A digit has its place as its value; what is between words has none.
LEMMA DigitIs == \A n \in 0..15 : hex_to_bin(HexDigits[n + 1]) = n /\ ~IsSpace(HexDigits[n + 1])
<1> SUFFICES ASSUME NEW n \in 0..15 PROVE hex_to_bin(HexDigits[n + 1]) = n /\ ~IsSpace(HexDigits[n + 1])
  OBVIOUS
<1>1. n + 1 \in 1..16
  OBVIOUS
<1> DEFINE c == HexDigits[n + 1]
           v == hex_to_bin(c)
<1>2. c \in Range(HexDigits)
  BY <1>1, DigitsDiffer DEF Range
<1>3. ~IsSpace(c)
  BY <1>2, NotDigits DEF IsSpace
<1>4. v \in 0..15 /\ (HexDigits[v + 1] = c \/ (v >= 10 /\ UpperDigits[v - 9] = c))
  BY <1>2, ValueIs
<1> HIDE DEF v
<1>5. v + 1 \in 1..16 /\ (v >= 10 => v - 9 \in 1..6)
  BY <1>4
<1>6. HexDigits[v + 1] = HexDigits[n + 1]
  BY <1>1, <1>4, <1>5, DigitsDiffer
<1>7. v + 1 = n + 1
  BY <1>1, <1>5, <1>6, DigitsDiffer
<1>8. v = n
  BY <1>4, <1>7
<1>9. QED
  BY <1>3, <1>8 DEF v

\* Neither what is between words nor the end of a string is a digit.
LEMMA SpaceIs ==
  /\ \A c : IsSpace(c) \/ c = "NUL" => hex_to_bin(c) = -1
  /\ IsSpace(Blank) /\ ~IsSpace("NUL")
<1>1. ASSUME NEW c, IsSpace(c) \/ c = "NUL" PROVE hex_to_bin(c) = -1
  <2>1. c \in {Blank, "LF", "NUL"}
    BY <1>1 DEF IsSpace
  <2>2. QED
    BY <2>1, NotDigits, NoValueOf
<1>2. IsSpace(Blank) /\ ~IsSpace("NUL")
  BY DEF IsSpace, Blank
<1>3. QED
  BY <1>1, <1>2

\* What has a value is one of 16.
LEMMA ByteRange ==
  ASSUME NEW c, hex_to_bin(c) >= 0 PROVE hex_to_bin(c) \in 0..15
  BY ValueIs, NoValueOf

------------------------------------------------------------------------------
(* The words as their characters come                                      *)

\* A sequence with an element more.
LEMMA AppendIs ==
  ASSUME NEW S, NEW s \in Seq(S), NEW x \in S
  PROVE  /\ Append(s, x) \in Seq(S) /\ Append(s, x) # <<>> /\ Len(s) \in Nat
         /\ Len(Append(s, x)) = Len(s) + 1 /\ Append(s, x)[Len(s) + 1] = x
         /\ \A j \in 1..Len(s) : Append(s, x)[j] = s[j]
  OBVIOUS

\* What parse_setorder() has between two characters.
CutShape(S, c) == c = [words |-> c.words, word |-> c.word] /\ c.words \in Seq(Seq(S)) /\ c.word \in Seq(S)

\* The words cut are words.
LEMMA FinishedType ==
  ASSUME NEW S, NEW c, CutShape(S, c) PROVE Finished(c) \in Seq(Seq(S))
  BY DEF CutShape, Finished

\* A character goes on with a word, a blank ends it.
LEMMA CutCharIs ==
  ASSUME NEW S, NEW c, CutShape(S, c), NEW x \in S
  PROVE  /\ CutShape(S, CutChar(c, x))
         /\ x # Blank => CutChar(c, x).words = c.words /\ CutChar(c, x).word = Append(c.word, x)
         /\ x = Blank => CutChar(c, x).words = Finished(c) /\ CutChar(c, x).word = <<>>
<1> SUFFICES ASSUME NEW e, e = CutChar(c, x)
             PROVE  /\ CutShape(S, e)
                    /\ x # Blank => e.words = c.words /\ e.word = Append(c.word, x)
                    /\ x = Blank => e.words = Finished(c) /\ e.word = <<>>
  OBVIOUS
<1>1. CASE x # Blank
  <2>1. e = [words |-> c.words, word |-> Append(c.word, x)]
    BY <1>1 DEF CutChar, CutShape
  <2>2. QED
    BY <1>1, <2>1 DEF CutShape
<1>2. CASE x = Blank /\ c.word # <<>>
  <2>1. e = [words |-> Append(c.words, c.word), word |-> <<>>]
    BY <1>2 DEF CutChar
  <2>2. e.words = Append(c.words, c.word) /\ e.word = <<>>
    BY <2>1
  <2>3. Append(c.words, c.word) \in Seq(Seq(S))
    BY AppendIs DEF CutShape
  <2>4. <<>> \in Seq(S)
    OBVIOUS
  <2>5. CutShape(S, e)
    BY <2>1, <2>2, <2>3, <2>4 DEF CutShape
  <2>6. QED
    BY <1>2, <2>2, <2>5 DEF Finished
<1>3. CASE x = Blank /\ c.word = <<>>
  <2>1. e = c
    BY <1>3 DEF CutChar
  <2>2. QED
    BY <1>3, <2>1 DEF Finished
<1>4. QED
  BY <1>1, <1>2, <1>3

\* There are words and a word between any two characters.
LEMMA CutShapes ==
  ASSUME NEW S, NEW string \in Seq(S), NEW st, CutSteps(st, string, Len(string))
  PROVE  \A k \in 0..Len(string) : CutShape(S, st[k])
<1> DEFINE T == {k \in Nat : k <= Len(string) => CutShape(S, st[k])}
<1>1. 0 \in T
  <2>1. <<>> \in Seq(Seq(S)) /\ <<>> \in Seq(S)
    OBVIOUS
  <2>2. st[0] = [words |-> <<>>, word |-> <<>>]
    BY DEF CutSteps, NothingCut
  <2>3. CutShape(S, st[0])
    BY <2>1, <2>2 DEF CutShape
  <2>4. QED
    BY <2>3
<1>2. ASSUME NEW k \in Nat, k \in T PROVE k + 1 \in T
  <2> SUFFICES ASSUME k + 1 <= Len(string) PROVE CutShape(S, st[k + 1])
    OBVIOUS
  <2>1. k + 1 \in 1..Len(string) /\ (k + 1) - 1 = k /\ CutShape(S, st[k]) /\ string[k + 1] \in S
    BY <1>2
  <2>2. st[k + 1] = CutChar(st[k], string[k + 1])
    BY <2>1 DEF CutSteps
  <2>3. QED
    BY <2>1, <2>2, CutCharIs
<1> HIDE DEF T
<1>3. Nat \subseteq T
  BY <1>1, <1>2, Induction
<1>4. QED
  BY <1>3 DEF T

\* The words so far are the first of the words, and the word at hand begins the next one.
Begins(c, words) ==
  /\ Len(c.words) <= Len(words) /\ \A j \in 1..Len(c.words) : words[j] = c.words[j]
  /\ c.word # <<>> =>
       /\ Len(c.words) + 1 <= Len(words) /\ Len(c.word) <= Len(words[Len(c.words) + 1])
       /\ \A j \in 1..Len(c.word) : words[Len(c.words) + 1][j] = c.word[j]

\* The words so far begin with themselves,
LEMMA BeginsLast ==
  ASSUME NEW S, NEW c, CutShape(S, c) PROVE Begins(c, Finished(c))
<1>1. c.words \in Seq(Seq(S)) /\ c.word \in Seq(S)
  BY DEF CutShape
<1> DEFINE ws == c.words
           w == c.word
<1>2. CASE w = <<>>
  BY <1>1, <1>2 DEF Begins, Finished
<1>3. CASE w # <<>>
  <2>1. Finished(c) = Append(ws, w)
    BY <1>3 DEF Finished
  <2> HIDE DEF ws, w
  <2>2. Len(Append(ws, w)) = Len(ws) + 1 /\ Append(ws, w)[Len(ws) + 1] = w
        /\ \A j \in 1..Len(ws) : Append(ws, w)[j] = ws[j]
    BY <1>1 DEF ws, w
  <2>3. Len(ws) \in Nat /\ Len(w) \in Nat
    BY <1>1 DEF ws, w
  <2>4. QED
    BY <2>1, <2>2, <2>3 DEF Begins, ws, w
<1>4. QED
  BY <1>2, <1>3

\* and what begins with the words after a character began with those before it.
LEMMA BeginsBefore ==
  ASSUME NEW S, NEW c, CutShape(S, c), NEW x \in S, NEW words \in Seq(Seq(S)), Begins(CutChar(c, x), words)
  PROVE  Begins(c, words)
<1> DEFINE e == CutChar(c, x)
           ws == c.words
           w == c.word
<1>1. ws \in Seq(Seq(S)) /\ w \in Seq(S) /\ Len(ws) \in Nat /\ Len(w) \in Nat
  BY DEF CutShape
<1>2. CASE x # Blank
  <2>1. e.words = ws /\ e.word = Append(w, x)
    BY <1>2, CutCharIs
  <2>2. Append(w, x) # <<>> /\ Len(Append(w, x)) = Len(w) + 1 /\ \A j \in 1..Len(w) : Append(w, x)[j] = w[j]
    <3> HIDE DEF ws, w, e
    <3>1. w \in Seq(S)
      BY <1>1
    <3>2. QED
      BY <3>1, AppendIs
  <2>3. /\ Len(ws) + 1 <= Len(words) /\ \A j \in 1..Len(ws) : words[j] = ws[j]
        /\ Len(w) + 1 <= Len(words[Len(ws) + 1])
        /\ \A j \in 1..(Len(w) + 1) : words[Len(ws) + 1][j] = Append(w, x)[j]
    BY <2>1, <2>2 DEF Begins
  <2>4. Len(words[Len(ws) + 1]) \in Nat /\ Len(words) \in Nat
    BY <1>1, <2>3
  <2> HIDE DEF ws, w, e
  <2>5. /\ Len(w) <= Len(words[Len(ws) + 1]) /\ Len(ws) <= Len(words)
        /\ \A j \in 1..Len(w) : words[Len(ws) + 1][j] = w[j]
    BY <1>1, <2>2, <2>3, <2>4, SMTT(30)
  <2>6. QED
    BY <2>3, <2>5 DEF Begins, ws, w
<1>3. CASE x = Blank
  <2>1. e.words = Finished(c)
    BY <1>3, CutCharIs
  <2>2. CASE w = <<>>
    <3>1. Finished(c) = ws
      BY <2>2 DEF Finished
    <3>2. QED
      BY <2>1, <2>2, <3>1 DEF Begins
  <2>3. CASE w # <<>>
    <3>1. Finished(c) = Append(ws, w)
      BY <2>3 DEF Finished
    <3>2. Len(Append(ws, w)) = Len(ws) + 1 /\ Append(ws, w)[Len(ws) + 1] = w
          /\ \A j \in 1..Len(ws) : Append(ws, w)[j] = ws[j]
      BY <1>1, AppendIs
    <3>3. Len(ws) + 1 <= Len(words) /\ \A j \in 1..(Len(ws) + 1) : words[j] = Append(ws, w)[j]
      BY <2>1, <3>1, <3>2 DEF Begins
    <3>4. Len(ws) + 1 \in 1..(Len(ws) + 1) /\ Len(words) \in Nat
      BY <1>1
    <3> HIDE DEF ws, w, e
    <3>5. words[Len(ws) + 1] = w
      BY <3>2, <3>3, <3>4
    <3>6. Len(ws) <= Len(words) /\ \A j \in 1..Len(ws) : words[j] = ws[j]
      <4>1. \A j \in 1..Len(ws) : j \in 1..(Len(ws) + 1)
        BY <1>1
      <4>2. QED
        BY <1>1, <3>2, <3>3, <3>4, <4>1
    <3>7. QED
      BY <1>1, <3>3, <3>5, <3>6 DEF Begins, ws, w
  <2>4. QED
    BY <2>2, <2>3
<1>4. QED
  BY <1>2, <1>3

\* So the words of an order begin with those cut of any part of it.
LEMMA WordsKept ==
  ASSUME NEW S, NEW string \in Seq(S), NEW st, CutSteps(st, string, Len(string))
  PROVE  \A k \in 0..Len(string) : Begins(st[k], Finished(st[Len(string)]))
<1> DEFINE n == Len(string)
           words == Finished(st[n])
           T == {m \in Nat : m <= n => Begins(st[n - m], words)}
<1>1. n \in Nat /\ \A k \in 0..n : CutShape(S, st[k])
  BY CutShapes
<1>2. words \in Seq(Seq(S))
  BY <1>1, FinishedType
<1> HIDE DEF n
<1>3. 0 \in T
  <2>1. n - 0 = n /\ n \in 0..n
    BY <1>1
  <2>2. QED
    BY <1>1, <2>1, BeginsLast
<1>4. ASSUME NEW m \in Nat, m \in T PROVE m + 1 \in T
  <2> SUFFICES ASSUME m + 1 <= n PROVE Begins(st[n - (m + 1)], words)
    OBVIOUS
  <2> DEFINE k == n - (m + 1)
  <2>1. k \in 0..n /\ k + 1 \in 1..n /\ k + 1 = n - m /\ (k + 1) - 1 = k /\ Begins(st[n - m], words)
    BY <1>1, <1>4
  <2> HIDE DEF k, T, words
  <2>2. st[k + 1] = CutChar(st[k], string[k + 1]) /\ string[k + 1] \in S
    BY <2>1 DEF CutSteps, n
  <2>3. Begins(CutChar(st[k], string[k + 1]), words)
    BY <2>1, <2>2
  <2>4. Begins(st[k], words)
    BY <1>1, <1>2, <2>1, <2>2, <2>3, BeginsBefore
  <2>5. QED
    BY <2>4 DEF k
<1> HIDE DEF T
<1>5. Nat \subseteq T
  BY <1>3, <1>4, Induction
<1>6. ASSUME NEW k \in 0..n PROVE Begins(st[k], words)
  <2>1. n - k \in Nat /\ n - k <= n /\ n - (n - k) = k
    BY <1>1
  <2>2. n - k \in T
    BY <1>5, <2>1
  <2>3. QED
    BY <2>1, <2>2 DEF T
<1>7. QED
  BY <1>6 DEF n

------------------------------------------------------------------------------
(* Words as bytes                                                          *)

\* The value of a character is a number.
LEMMA ValueType == ASSUME NEW c PROVE hex_to_bin(c) \in Int
<1>1. CASE c \in Range(HexDigits) \cup Range(UpperDigits)
  BY <1>1, ValueIs
<1>2. CASE c \notin Range(HexDigits) \cup Range(UpperDigits)
  BY <1>2, NoValueOf
<1>3. QED
  BY <1>1, <1>2

\* Each word is a byte.
ByteOf(word) == 16 * hex_to_bin(word[1]) + hex_to_bin(word[2])

\* The bytes of words are a sequence of as many numbers.
LEMMA BytesAre ==
  ASSUME NEW words, Len(words) \in Nat
  PROVE  /\ Bytes(words) \in Seq(Int) /\ Len(Bytes(words)) = Len(words)
         /\ \A j \in 1..Len(words) : Bytes(words)[j] = ByteOf(words[j])
<1>1. \A word : ByteOf(word) \in Int
  BY ValueType DEF ByteOf
<1>2. Bytes(words) = [j \in 1..Len(words) |-> ByteOf(words[j])]
  BY Zenon DEF Bytes, ByteOf
<1>3. QED
  BY <1>1, <1>2

\* One word more is one byte more.
LEMMA BytesAppend ==
  ASSUME NEW S, NEW words \in Seq(S), NEW v \in S
  PROVE  Bytes(Append(words, v)) = Append(Bytes(words), ByteOf(v))
<1> DEFINE longer == Append(words, v)
           b == Bytes(longer)
           c == Append(Bytes(words), ByteOf(v))
<1>1. /\ Len(words) \in Nat /\ Len(longer) = Len(words) + 1 /\ longer[Len(words) + 1] = v
      /\ \A j \in 1..Len(words) : longer[j] = words[j]
  BY AppendIs
<1>2. ByteOf(v) \in Int
  BY ValueType DEF ByteOf
<1>3. /\ Bytes(words) \in Seq(Int) /\ Len(Bytes(words)) = Len(words)
      /\ \A j \in 1..Len(words) : Bytes(words)[j] = ByteOf(words[j])
  BY <1>1, BytesAre
<1>4. b \in Seq(Int) /\ Len(b) = Len(words) + 1 /\ \A j \in 1..(Len(words) + 1) : b[j] = ByteOf(longer[j])
  <2> HIDE DEF longer
  <2>1. Len(longer) \in Nat
    BY <1>1
  <2>2. QED
    BY <1>1, <2>1, BytesAre
<1>5. /\ c \in Seq(Int) /\ Len(c) = Len(words) + 1 /\ c[Len(words) + 1] = ByteOf(v)
      /\ \A j \in 1..Len(words) : c[j] = Bytes(words)[j]
  <2>1. \A s \in Seq(Int), x \in Int : /\ Append(s, x) \in Seq(Int)
                                       /\ Len(Append(s, x)) = Len(s) + 1 /\ Append(s, x)[Len(s) + 1] = x
                                       /\ \A j \in 1..Len(s) : Append(s, x)[j] = s[j]
    BY AppendIs
  <2>2. QED
    BY <1>2, <1>3, <2>1
<1>6. ASSUME NEW j \in 1..(Len(words) + 1) PROVE b[j] = c[j]
  <2> HIDE DEF longer, b, c
  <2>1. CASE j = Len(words) + 1
    BY <1>1, <1>4, <1>5, <2>1
  <2>2. CASE j \in 1..Len(words)
    BY <1>1, <1>3, <1>4, <1>5, <2>2
  <2>3. QED
    BY <1>1, <2>1, <2>2
<1> HIDE DEF longer, b, c
<1>7. b = c
  BY <1>1, <1>4, <1>5, <1>6, SeqEqual
<1>8. QED
  BY <1>7 DEF b, c, longer

\* hex2bin_trim_len() as it goes on.
Reads(k, bytes, bad) == [k |-> k, dst |-> bytes, bad |-> bad]

\* A step changes one field.
LEMMA ReadsOn ==
  ASSUME NEW st, st = [k |-> st.k, dst |-> st.dst, bad |-> st.bad], NEW m, NEW b
  PROVE  [st EXCEPT !.k = m] = Reads(m, st.dst, st.bad) /\ [st EXCEPT !.bad = b] = Reads(st.k, st.dst, b)
<1>1. \A e : e = [st EXCEPT !.k = m] => e = Reads(m, st.dst, st.bad)
  BY DEF Reads
<1>2. \A e : e = [st EXCEPT !.bad = b] => e = Reads(st.k, st.dst, b)
  BY DEF Reads
<1>3. QED
  BY <1>1, <1>2

\* A step has returned before, skips a space, returns, or takes two digits.
LEMMA TrimStepIs ==
  ASSUME NEW k, NEW bytes, NEW src
  PROVE  LET c == CharAt(src, k)
             hi == hex_to_bin(c)
             lo == hex_to_bin(CharAt(src, k + 1))
         IN /\ TrimStep(Reads(k, bytes, TRUE), src) = Reads(k, bytes, TRUE)
            /\ IsSpace(c) => TrimStep(Reads(k, bytes, FALSE), src) = Reads(k + 1, bytes, FALSE)
            /\ ~IsSpace(c) /\ hi < 0 => TrimStep(Reads(k, bytes, FALSE), src) = Reads(k, bytes, TRUE)
            /\ ~IsSpace(c) /\ hi >= 0 /\ lo >= 0 =>
                 TrimStep(Reads(k, bytes, FALSE), src) = Reads(k + 2, Append(bytes, 16 * hi + lo), FALSE)
<1> DEFINE c == CharAt(src, k)
           hi == hex_to_bin(c)
           lo == hex_to_bin(CharAt(src, k + 1))
           st == Reads(k, bytes, FALSE)
<1>1. TrimStep(Reads(k, bytes, TRUE), src) = Reads(k, bytes, TRUE)
  <2>1. Reads(k, bytes, TRUE).bad = TRUE
    BY DEF Reads
  <2>2. QED
    BY <2>1, Zenon DEF TrimStep
<1>2. st = [k |-> st.k, dst |-> st.dst, bad |-> st.bad] /\ st.k = k /\ st.dst = bytes /\ st.bad = FALSE
  <2> HIDE DEF c, hi, lo
  <2>1. QED
    BY DEF Reads
<1>3. TrimStep(st, src) =
        CASE st.bad -> st
          [] ~st.bad /\ IsSpace(c) -> [st EXCEPT !.k = @ + 1]
          [] ~st.bad /\ ~IsSpace(c) /\ (hi < 0 \/ lo < 0) -> [st EXCEPT !.bad = TRUE]
          [] OTHER -> Reads(st.k + 2, Append(st.dst, 16 * hi + lo), FALSE)
  <2> HIDE DEF st
  <2>1. QED
    BY <1>2 DEF TrimStep, Reads
<1>4. hi \in Int /\ lo \in Int
  BY ValueType
<1> HIDE DEF c, hi, lo, st
<1>5. [st EXCEPT !.k = @ + 1] = Reads(k + 1, bytes, FALSE) /\ [st EXCEPT !.bad = TRUE] = Reads(k, bytes, TRUE)
  <2>1. [st EXCEPT !.k = @ + 1] = Reads(st.k + 1, st.dst, st.bad)
    BY <1>2, ReadsOn
  <2>2. [st EXCEPT !.bad = TRUE] = Reads(st.k, st.dst, TRUE)
    BY <1>2, ReadsOn
  <2>3. QED
    BY <1>2, <2>1, <2>2, Zenon
<1>6. IsSpace(c) => TrimStep(st, src) = Reads(k + 1, bytes, FALSE)
  BY <1>2, <1>3, <1>5
<1>7. ~IsSpace(c) /\ hi < 0 => TrimStep(st, src) = Reads(k, bytes, TRUE)
  BY <1>2, <1>3, <1>5
<1>8. ~IsSpace(c) /\ hi >= 0 /\ lo >= 0 => TrimStep(st, src) = Reads(k + 2, Append(bytes, 16 * hi + lo), FALSE)
  <2>1. hi >= 0 /\ lo >= 0 => ~(hi < 0 \/ lo < 0)
    BY <1>4
  <2>2. QED
    BY <1>2, <1>3, <2>1, Zenon
<1>9. QED
  BY <1>1, <1>6, <1>7, <1>8 DEF c, hi, lo, st

------------------------------------------------------------------------------
(* An order is read as the bytes of its words                              *)

\* The character after k of them.
LEMMA CutNext ==
  ASSUME NEW S, NEW string \in Seq(S), NEW st, CutSteps(st, string, Len(string)),
         NEW k \in 0..(Len(string) - 1)
  PROVE  /\ string[k + 1] # Blank =>
              st[k + 1].words = st[k].words /\ st[k + 1].word = Append(st[k].word, string[k + 1])
         /\ string[k + 1] = Blank =>
              st[k + 1].words = Finished(st[k]) /\ st[k + 1].word = <<>>
<1>1. k \in 0..Len(string) /\ k + 1 \in 1..Len(string) /\ (k + 1) - 1 = k /\ string[k + 1] \in S
  OBVIOUS
<1>2. st[k + 1] = CutChar(st[k], string[k + 1])
  BY <1>1 DEF CutSteps
<1>3. CutShape(S, st[k])
  BY <1>1, CutShapes
<1> DEFINE c == st[k]
           x == string[k + 1]
           e == st[k + 1]
<1>4. e = CutChar(c, x) /\ x \in S /\ CutShape(S, c)
  BY <1>1, <1>2, <1>3
<1> HIDE DEF c, x, e
<1>5. /\ x # Blank => e.words = c.words /\ e.word = Append(c.word, x)
      /\ x = Blank => e.words = Finished(c) /\ e.word = <<>>
  BY <1>4, CutCharIs
<1>6. QED
  BY <1>5 DEF c, x, e

\* A word of two characters, all of it.
LEMMA WordWhole ==
  ASSUME NEW S, NEW string \in Seq(S), NEW st, CutSteps(st, string, Len(string)),
         WellFormed(Finished(st[Len(string)])),
         NEW q \in 0..(Len(string) - 1), string[q + 1] # Blank, Len(st[q].word) \in {0, 2}
  PROVE  /\ st[q].word = <<>> /\ q + 2 \in 1..Len(string)
         /\ st[q + 2].words = st[q].words /\ st[q + 2].word \in Seq(S) /\ Len(st[q + 2].word) = 2
         /\ st[q + 2].word[1] = string[q + 1] /\ st[q + 2].word[2] = string[q + 2]
         /\ hex_to_bin(string[q + 1]) >= 0 /\ hex_to_bin(string[q + 2]) >= 0
<1> DEFINE n == Len(string)
           W == Finished(st[n])
           c == st[q]
           e == st[q + 1]
           x == string[q + 1]
           p == Len(c.words) + 1
<1>1. /\ n \in Nat /\ q \in 0..n /\ q + 1 \in 1..n /\ q + 1 \in 0..n /\ (q + 1) - 1 = q /\ x \in S
  OBVIOUS
<1>2. \A k \in 0..n : CutShape(S, st[k]) /\ Begins(st[k], W)
  BY CutShapes, WordsKept
<1>3. e.words = c.words /\ e.word = Append(c.word, x)
  BY CutNext
<1>4. c.words \in Seq(Seq(S)) /\ c.word \in Seq(S) /\ W \in Seq(Seq(S))
  <2>1. CutShape(S, st[n]) /\ CutShape(S, c)
    BY <1>1, <1>2
  <2>2. QED
    BY <2>1, FinishedType DEF CutShape
<1> HIDE DEF W, c, e, x
<1>5. Len(c.words) \in Nat /\ Len(W) \in Nat /\ p \in Nat
  BY <1>4
<1>6. Len(e.word) = Len(c.word) + 1 /\ e.word[Len(c.word) + 1] = x /\ e.word # <<>> /\ Len(c.word) \in Nat
  <2>1. x \in S /\ c.word \in Seq(S)
    BY <1>1, <1>4 DEF x
  <2>2. /\ Append(c.word, x) # <<>> /\ Len(c.word) \in Nat
        /\ Len(Append(c.word, x)) = Len(c.word) + 1 /\ Append(c.word, x)[Len(c.word) + 1] = x
    BY <2>1, AppendIs
  <2>3. QED
    BY <1>3, <2>2
<1>7. /\ p \in 1..Len(W) /\ Len(e.word) <= Len(W[p])
      /\ \A j \in 1..Len(e.word) : W[p][j] = e.word[j]
  <2>1. Begins(e, W)
    BY <1>1, <1>2 DEF e
  <2> HIDE DEF n
  <2>2. p <= Len(W) /\ Len(e.word) <= Len(W[p]) /\ \A j \in 1..Len(e.word) : W[p][j] = e.word[j]
    BY <1>3, <1>6, <2>1 DEF Begins
  <2>3. QED
    BY <1>5, <2>2
<1>8. Len(W[p]) = 2 /\ hex_to_bin(W[p][1]) >= 0 /\ hex_to_bin(W[p][2]) >= 0
  <2>1. WellFormed(W)
    BY DEF W, n
  <2> HIDE DEF p
  <2>2. QED
    BY <1>7, <2>1, Zenon DEF WellFormed
<1>9. Len(c.word) = 0
  <2>1. Len(c.word) = 0 \/ Len(c.word) = 2
    BY DEF c
  <2>2. Len(e.word) <= 2
    BY <1>7, <1>8
  <2>3. Len(e.word) = Len(c.word) + 1
    BY <1>6
  <2>4. \A a \in Nat : (a = 0 \/ a = 2) /\ a + 1 <= 2 => a = 0
    OBVIOUS
  <2>5. Len(c.word) \in Nat
    BY <1>6
  <2>6. Len(c.word) + 1 <= 2
    BY <2>2, <2>3
  <2>7. QED
    BY <2>1, <2>4, <2>5, <2>6, Zenon
<1>10. c.word = <<>> /\ e.word = <<x>>
  <2>1. c.word = <<>>
    BY <1>4, <1>9
  <2>2. Append(<<>>, x) = <<x>>
    OBVIOUS
  <2>3. QED
    BY <1>3, <2>1, <2>2
<1>11. W[p][1] = x
  BY <1>6, <1>7, <1>9
<1>12. ASSUME Finished(e) = W \/ (q + 2 \in 1..n /\ string[q + 2] = Blank) PROVE FALSE
  <2>1. Finished(e) = Append(c.words, <<x>>)
    BY <1>3, <1>6, <1>10 DEF Finished
  <2>2. /\ Append(c.words, <<x>>)[p] = <<x>> /\ Len(Append(c.words, <<x>>)) = p /\ Len(<<x>>) = 1
    <3>1. <<x>> \in Seq(S)
      BY <1>1 DEF x
    <3>2. QED
      BY <1>4, <3>1, AppendIs
  <2>3. CASE Finished(e) = W
    BY <1>8, <2>1, <2>2, <2>3
  <2>4. CASE q + 2 \in 1..n /\ string[q + 2] = Blank
    <3>1. (q + 1) + 1 = q + 2 /\ q + 1 \in 0..(n - 1) /\ q + 2 \in 0..n
      BY <2>4 DEF n
    <3>4. st[q + 2].words = Finished(e)
      BY <2>4, <3>1, CutNext DEF n, e
    <3>5. Begins(st[q + 2], W)
      BY <1>2, <3>1
    <3>6. W[p] = <<x>>
      <4>1. p \in 1..Len(st[q + 2].words)
        BY <1>5, <2>1, <2>2, <3>4
      <4>2. QED
        BY <2>1, <2>2, <3>4, <3>5, <4>1 DEF Begins
    <3>7. QED
      BY <1>8, <2>2, <3>6
  <2>5. QED
    BY <1>12, <2>3, <2>4
<1>13. q + 2 \in 1..n
  <2>1. q + 1 # n
    BY <1>12 DEF e, W
  <2>2. QED
    BY <1>1, <2>1
<1>14. string[q + 2] # Blank /\ string[q + 2] \in S
  BY <1>12, <1>13 DEF n
<1> DEFINE v == st[q + 2].word
           y == string[q + 2]
<1>15. /\ st[q + 2].words = c.words
       /\ v \in Seq(S) /\ v # <<>> /\ Len(v) = 2 /\ v[1] = x /\ v[2] = y
  <2>1. (q + 1) + 1 = q + 2 /\ q + 1 \in 0..(n - 1)
    BY <1>1, <1>13
  <2>2. st[q + 2].words = e.words /\ v = Append(e.word, y)
    BY <1>14, <2>1, CutNext, SMTT(30) DEF e, n
  <2>3. y \in S /\ <<x>> \in Seq(S)
    BY <1>1, <1>14
  <2> HIDE DEF v, y
  <2>4. /\ Append(<<x>>, y) \in Seq(S) /\ Append(<<x>>, y) # <<>> /\ Len(Append(<<x>>, y)) = 2
        /\ Append(<<x>>, y)[1] = x /\ Append(<<x>>, y)[2] = y
    BY <2>3
  <2>5. QED
    BY <1>3, <1>10, <2>2, <2>4
<1>16. W[p][2] = y
  <2>1. Begins(st[q + 2], W)
    BY <1>2, <1>13
  <2>2. 2 \in 1..2
    OBVIOUS
  <2> HIDE DEF y
  <2>3. QED
    BY <1>15, <2>1, <2>2 DEF Begins
<1>17. QED
  BY <1>8, <1>10, <1>11, <1>13, <1>15, <1>16 DEF c, x, n

\* hex2bin_trim_len() after s steps: it has the bytes of the words so far and takes a step
\* less than characters for each, or it has returned with the bytes of all words.
Follows(u, st, n, s) ==
  \/ \E q \in 0..n : /\ u = Reads(q + 1, Bytes(Finished(st[q])), FALSE)
                     /\ q = s + Len(Finished(st[q])) /\ Len(st[q].word) \in {0, 2}
  \/ \E k : u = Reads(k, Bytes(Finished(st[n])), TRUE) /\ Finished(st[n]) # <<>>

\* So it is before the first step,
LEMMA FollowsFirst ==
  ASSUME NEW st, st[0] = NothingCut, NEW n \in Nat
  PROVE  Follows(Untrimmed, st, n, 0)
<1>1. Finished(st[0]) = <<>> /\ st[0].word = <<>>
  BY DEF NothingCut, Finished
<1>2. Bytes(<<>>) = <<>>
  <2>1. Len(<<>>) \in Nat /\ Len(<<>>) = 0
    OBVIOUS
  <2>2. Bytes(<<>>) \in Seq(Int) /\ Len(Bytes(<<>>)) = 0
    BY <2>1, BytesAre
  <2>3. QED
    BY <2>2
<1>3. Untrimmed = Reads(0 + 1, Bytes(Finished(st[0])), FALSE)
  <2>1. Untrimmed = Reads(1, <<>>, FALSE)
    BY DEF Untrimmed, Reads
  <2>2. 0 + 1 = 1
    OBVIOUS
  <2>3. QED
    BY <1>1, <1>2, <2>1, <2>2
<1>4. 0 \in 0..n /\ 0 = 0 + Len(Finished(st[0])) /\ Len(st[0].word) \in {0, 2}
  BY <1>1
<1>5. QED
  BY <1>3, <1>4 DEF Follows

\* after each step,
LEMMA FollowsNext ==
  ASSUME NEW S, NEW string \in Seq(S), NEW st, CutSteps(st, string, Len(string)),
         WellFormed(Finished(st[Len(string)])),
         NEW s \in 0..(Len(string) - 1), NEW u, Follows(u, st, Len(string), s)
  PROVE  Follows(TrimStep(u, string), st, Len(string), s + 1)
<1> DEFINE n == Len(string)
           W == Finished(st[n])
           e == TrimStep(u, string)
<1>1. n \in Nat /\ \A k \in 0..n : CutShape(S, st[k])
  BY CutShapes
<1> HIDE DEF n, W
<1>2. CASE \E k : u = Reads(k, Bytes(W), TRUE) /\ W # <<>>
  <2>1. PICK k : u = Reads(k, Bytes(W), TRUE) /\ W # <<>>
    BY <1>2
  <2>2. e = Reads(k, Bytes(W), TRUE)
    BY <2>1, TrimStepIs
  <2>3. QED
    BY <2>1, <2>2 DEF Follows, W, n
<1>3. ASSUME NEW q \in 0..n, u = Reads(q + 1, Bytes(Finished(st[q])), FALSE),
             q = s + Len(Finished(st[q])), Len(st[q].word) \in {0, 2}
      PROVE  Follows(e, st, n, s + 1)
  <2> DEFINE words == Finished(st[q])
             bytes == Bytes(words)
  <2>0. words \in Seq(Seq(S)) /\ Len(words) \in Nat
    BY <1>1, FinishedType
  <2>9. q = s + Len(words) /\ s \in Nat /\ q \in Nat
    BY <1>1, <1>3
  <2>1. CASE q = n
    <3>1. CharAt(string, q + 1) = "NUL"
      BY <1>1, <2>1 DEF CharAt, n
    <3>2. e = Reads(q + 1, bytes, TRUE)
      <4>1. ~IsSpace("NUL") /\ hex_to_bin("NUL") < 0
        BY SpaceIs
      <4>2. QED
        BY <1>3, <3>1, <4>1, TrimStepIs
    <3>3. W # <<>>
      <4>1. s < n
        BY <1>1 DEF n
      <4>2. Len(words) # 0
        BY <1>3, <2>1, <4>1
      <4>3. QED
        BY <2>1, <4>2 DEF W
    <3>4. bytes = Bytes(W)
      BY <2>1 DEF W
    <3>5. QED
      BY <3>2, <3>3, <3>4 DEF Follows, W
  <2>2. CASE q # n /\ string[q + 1] = Blank
    <3>1. q \in 0..(n - 1) /\ q + 1 \in 0..n /\ q + 1 <= n
      BY <1>1, <2>2
    <3>2. st[q + 1].words = words /\ st[q + 1].word = <<>>
      BY <2>2, <3>1, CutNext, ZenonT(60) DEF n
    <3>3. Finished(st[q + 1]) = words
      BY <3>2 DEF Finished
    <3>4. CharAt(string, q + 1) = Blank /\ IsSpace(Blank)
      BY <2>2, <3>1, SpaceIs DEF CharAt, n
    <3>5. e = Reads((q + 1) + 1, bytes, FALSE)
      BY <1>3, <3>4, TrimStepIs
    <3>6. q + 1 = (s + 1) + Len(words) /\ Len(<<>>) \in {0, 2}
      <4> HIDE DEF words
      <4>1. q + 1 = (s + 1) + Len(words)
        BY <2>0, <2>9
      <4>2. QED
        BY <4>1
    <3> HIDE DEF words, e
    <3>7. QED
      BY <3>1, <3>2, <3>3, <3>5, <3>6 DEF Follows
  <2>3. CASE q # n /\ string[q + 1] # Blank
    <3> DEFINE x == string[q + 1]
               y == string[q + 2]
               v == st[q + 2].word
    <3>1. q \in 0..(n - 1) /\ q + 1 <= n /\ (q + 1) + 1 = q + 2 /\ (q + 1) + 2 = (q + 2) + 1
      BY <1>1, <2>3
    <3>2. /\ st[q].word = <<>> /\ q + 2 \in 1..n
          /\ st[q + 2].words = st[q].words /\ v \in Seq(S) /\ Len(v) = 2 /\ v[1] = x /\ v[2] = y
          /\ hex_to_bin(x) >= 0 /\ hex_to_bin(y) >= 0
      BY <1>3, <2>3, <3>1, WordWhole DEF n
    <3> HIDE DEF x, y, v
    <3>3. words = st[q].words
      BY <3>2 DEF Finished
    <3>4. Finished(st[q + 2]) = Append(words, v)
      <4>1. v # <<>>
        <5>1. Len(v) # Len(<<>>)
          BY <3>2
        <5>2. QED
          BY <5>1
      <4>2. QED
        BY <3>2, <3>3, <4>1 DEF Finished, v
    <3>5. Bytes(Finished(st[q + 2])) = Append(bytes, 16 * hex_to_bin(x) + hex_to_bin(y))
      <4>1. Bytes(Append(words, v)) = Append(bytes, ByteOf(v))
        BY <2>0, <3>2, BytesAppend
      <4>2. ByteOf(v) = 16 * hex_to_bin(x) + hex_to_bin(y)
        BY <3>2 DEF ByteOf
      <4>3. QED
        BY <3>4, <4>1, <4>2
    <3>6. CharAt(string, q + 1) = x /\ CharAt(string, (q + 1) + 1) = y
      BY <3>1, <3>2 DEF CharAt, n, x, y
    <3>7. ~IsSpace(x)
      BY <3>2, SpaceIs
    <3>8. e = Reads((q + 1) + 2, Append(bytes, 16 * hex_to_bin(x) + hex_to_bin(y)), FALSE)
      BY <1>3, <3>2, <3>6, <3>7, TrimStepIs, ZenonT(60)
    <3>9. Len(Append(words, v)) = Len(words) + 1
      BY <2>0, <3>2, AppendIs
    <3>10. q + 2 = (s + 1) + Len(Finished(st[q + 2]))
      <4> HIDE DEF words
      <4>1. Len(Finished(st[q + 2])) = Len(words) + 1
        BY <3>4, <3>9
      <4>2. QED
        BY <2>0, <2>9, <4>1
    <3>11. q + 2 \in 0..n /\ Len(st[q + 2].word) \in {0, 2}
      BY <3>2 DEF v
    <3>12. e = Reads((q + 2) + 1, Bytes(Finished(st[q + 2])), FALSE)
      BY <3>1, <3>5, <3>8
    <3> HIDE DEF e
    <3>13. QED
      BY <3>10, <3>11, <3>12 DEF Follows
  <2>4. QED
    BY <2>1, <2>2, <2>3
<1>4. QED
  BY <1>2, <1>3 DEF Follows, n, W

\* and after the last one.
LEMMA FollowsAll ==
  ASSUME NEW S, NEW string \in Seq(S), NEW st, CutSteps(st, string, Len(string)),
         WellFormed(Finished(st[Len(string)])),
         NEW u, u[0] = Untrimmed, \A s \in 1..Len(string) : u[s] = TrimStep(u[s - 1], string)
  PROVE  Follows(u[Len(string)], st, Len(string), Len(string))
<1> DEFINE n == Len(string)
           T == {s \in Nat : s <= n => Follows(u[s], st, n, s)}
<1>1. 0 \in T
  <2>1. st[0] = NothingCut /\ n \in Nat
    BY DEF CutSteps
  <2>2. QED
    BY <2>1, FollowsFirst
<1>2. ASSUME NEW s \in Nat, s \in T PROVE s + 1 \in T
  <2> SUFFICES ASSUME s + 1 <= n PROVE Follows(u[s + 1], st, n, s + 1)
    OBVIOUS
  <2>1. s \in 0..(n - 1) /\ s + 1 \in 1..n /\ (s + 1) - 1 = s /\ Follows(u[s], st, n, s)
    BY <1>2
  <2>2. u[s + 1] = TrimStep(u[s], string)
    BY <2>1
  <2> HIDE DEF T
  <2>3. QED
    BY <2>1, <2>2, FollowsNext
<1> HIDE DEF T
<1>3. Nat \subseteq T
  BY <1>1, <1>2, Induction
<1>4. QED
  BY <1>3 DEF T

\* An order is read as the bytes of its words, and hex2bin_trim_len() tells how many they are.
LEMMA OrderTrims ==
  ASSUME NEW S, NEW string \in Seq(S), WellFormed(WordsOf(string))
  PROVE  /\ WordsOf(string) \in Seq(Seq(S))
         /\ hex2bin_trim_len(string).dst = Bytes(WordsOf(string))
         /\ hex2bin_trim_len(string).length = IF WordsOf(string) = <<>> THEN -1 ELSE Len(WordsOf(string))
<1> DEFINE n == Len(string)
           W == WordsOf(string)
           r == hex2bin_trim_len(string)
<1>1. n \in Nat /\ DOMAIN string = 1..n
  OBVIOUS
<1>2. PICK st : CutSteps(st, string, n) /\ FoldLeft(CutChar, NothingCut, string) = st[n]
  BY <1>1, CutTrace
<1>3. W = Finished(st[n])
  BY <1>2 DEF WordsOf
<1>4. PICK u : u[0] = Untrimmed /\ (\A s \in 1..n : u[s] = TrimStep(u[s - 1], string)) /\ Trimmed(string, n) = u[n]
  BY <1>1, TrimTrace
<1>5. Follows(u[n], st, n, n)
  BY <1>2, <1>3, <1>4, FollowsAll
<1>6. W \in Seq(Seq(S))
  <2>1. CutShape(S, st[n])
    BY <1>1, <1>2, CutShapes
  <2>2. QED
    BY <1>3, <2>1, FinishedType
<1> HIDE DEF n, W
<1>7. r = TrimResult(u[n])
  BY <1>4 DEF hex2bin_trim_len, n
<1>8. Len(W) \in Nat /\ Len(Bytes(W)) = Len(W)
  <2>1. Len(W) \in Nat
    BY <1>6
  <2>2. QED
    BY <2>1, BytesAre
<1>9. CASE \E k : u[n] = Reads(k, Bytes(W), TRUE) /\ W # <<>>
  <2>1. u[n].dst = Bytes(W) /\ u[n].bad = TRUE /\ W # <<>>
    BY <1>9 DEF Reads
  <2>2. r.dst = Bytes(W) /\ r.length = Len(W)
    BY <1>7, <1>8, <2>1 DEF TrimResult
  <2>3. QED
    BY <1>6, <2>1, <2>2 DEF W
<1>10. ASSUME NEW q \in 0..n, u[n] = Reads(q + 1, Bytes(Finished(st[q])), FALSE),
              q = n + Len(Finished(st[q]))
       PROVE  r.dst = Bytes(W) /\ r.length = IF W = <<>> THEN -1 ELSE Len(W)
  <2>1. Finished(st[q]) \in Seq(Seq(S))
    <3>1. CutShape(S, st[q])
      BY <1>2, CutShapes DEF n
    <3>2. QED
      BY <3>1, FinishedType
  <2>2. Len(Finished(st[q])) \in Nat
    BY <2>1
  <2>3. q = n
    BY <1>1, <1>10, <2>2
  <2>4. Len(W) = 0 /\ Finished(st[q]) = W
    BY <1>1, <1>3, <1>10, <2>3, <2>2
  <2>5. W = <<>>
    BY <1>6, <2>4
  <2>6. u[n].dst = Bytes(W) /\ u[n].bad = FALSE
    BY <1>10, <2>4 DEF Reads
  <2>7. r.dst = Bytes(W) /\ r.length = Len(Bytes(W)) - 1
    BY <1>7, <2>6 DEF TrimResult
  <2>8. QED
    BY <1>8, <2>4, <2>5, <2>7
<1>11. QED
  BY <1>3, <1>5, <1>6, <1>9, <1>10 DEF Follows, W

------------------------------------------------------------------------------
(* A dump is read as the bytes it was made of                              *)

\* The smaller of two numbers.
LEMMA MinIs ==
  ASSUME NEW a \in Nat, NEW b \in Nat
  PROVE  Min({a, b}) = IF a <= b THEN a ELSE b
<1> DEFINE m == IF a <= b THEN a ELSE b
<1>1. m \in {a, b} /\ \A y \in {a, b} : m <= y
  OBVIOUS
<1>2. \A x \in {a, b} : (\A y \in {a, b} : x <= y) => x = m
  OBVIOUS
<1> HIDE DEF m
<1>3. Min({a, b}) = m
  BY <1>1, <1>2 DEF Min
<1>4. QED
  BY <1>3 DEF m

\* The characters of a dump, three for each byte.
DumpChars == Range(HexDigits) \cup {Blank}
Triples(bytes, m) == [j \in 1..m |-> ByteText(bytes[j])]

\* The elements of a sequence.
LEMMA ElementsIn ==
  ASSUME NEW S, NEW s \in Seq(S) PROVE Len(s) \in Nat /\ \A j \in 1..Len(s) : s[j] \in S
  OBVIOUS

\* One sequence behind another.
LEMMA ConcatIs ==
  ASSUME NEW S, NEW p \in Seq(S), NEW q \in Seq(S)
  PROVE  /\ p \o q \in Seq(S) /\ Len(p \o q) = Len(p) + Len(q)
         /\ \A k \in 1..Len(p) : (p \o q)[k] = p[k]
         /\ \A k \in 1..Len(q) : (p \o q)[Len(p) + k] = q[k]
  OBVIOUS

\* A byte is written as two digits and a blank.
LEMMA TripleIs ==
  ASSUME NEW b \in 0..255
  PROVE  /\ b \div 16 \in 0..15 /\ b % 16 \in 0..15 /\ 16 * (b \div 16) + (b % 16) = b
         /\ ByteText(b) \in Seq(DumpChars) /\ Len(ByteText(b)) = 3
         /\ ByteText(b)[1] = HexDigits[b \div 16 + 1]
         /\ ByteText(b)[2] = HexDigits[(b % 16) + 1] /\ ByteText(b)[3] = Blank
<1> DEFINE hi == b \div 16
           lo == b % 16
           x == HexDigits[hi + 1]
           y == HexDigits[lo + 1]
<1>1. hi \in 0..15 /\ lo \in 0..15 /\ 16 * hi + lo = b
  OBVIOUS
<1> HIDE DEF hi, lo
<1>2. x \in DumpChars /\ y \in DumpChars /\ Blank \in DumpChars
  <2>1. hi + 1 \in 1..16 /\ lo + 1 \in 1..16
    BY <1>1
  <2>2. QED
    BY <2>1, DigitsDiffer DEF DumpChars, Range
<1>3. ByteText(b) = <<x, y, Blank>>
  BY DEF ByteText, hi, lo
<1> HIDE DEF x, y
<1>4. \A p, q, r \in DumpChars : <<p, q, r>> \in Seq(DumpChars) /\ Len(<<p, q, r>>) = 3
        /\ <<p, q, r>>[1] = p /\ <<p, q, r>>[2] = q /\ <<p, q, r>>[3] = r
  OBVIOUS
<1>5. QED
  BY <1>1, <1>2, <1>3, <1>4 DEF hi, lo, x, y

\* One byte more is three characters more.
LEMMA TriplesNext ==
  ASSUME NEW bytes \in Seq(0..255), NEW m \in 0..(Len(bytes) - 1)
  PROVE  /\ Triples(bytes, m) \in Seq(Seq(DumpChars))
         /\ ByteText(bytes[m + 1]) \in Seq(DumpChars)
         /\ Triples(bytes, m + 1) = Append(Triples(bytes, m), ByteText(bytes[m + 1]))
<1> DEFINE S == Seq(DumpChars)
           f == Triples(bytes, m)
           g == Triples(bytes, m + 1)
           x == ByteText(bytes[m + 1])
           h == Append(f, x)
<1>1. \A j \in 1..(m + 1) : ByteText(bytes[j]) \in S
  <2>1. Len(bytes) \in Nat /\ \A j \in 1..Len(bytes) : bytes[j] \in 0..255
    BY ElementsIn
  <2>3. \A j \in 1..(m + 1) : j \in 1..Len(bytes)
    BY <2>1
  <2>2. QED
    BY <2>1, <2>3, TripleIs, ZenonT(60)
<1>2. m \in Nat /\ m + 1 \in Nat /\ m + 1 \in 1..(m + 1)
  OBVIOUS
<1>3. x \in S
  BY <1>1, <1>2
<1> HIDE DEF S
<1>4. f \in Seq(S) /\ Len(f) = m /\ \A j \in 1..m : f[j] = ByteText(bytes[j])
  BY <1>1, <1>2 DEF Triples
<1>5. g \in Seq(S) /\ Len(g) = m + 1 /\ \A j \in 1..(m + 1) : g[j] = ByteText(bytes[j])
  BY <1>1, <1>2 DEF Triples
<1> HIDE DEF f, g, x
<1>6. h \in Seq(S) /\ Len(h) = m + 1 /\ h[m + 1] = x /\ \A j \in 1..m : h[j] = f[j]
  BY <1>3, <1>4, AppendIs
<1> HIDE DEF h
<1>7. \A j \in 1..Len(g) : g[j] = h[j]
  BY <1>2, <1>4, <1>5, <1>6 DEF x
<1>8. g = h
  BY <1>5, <1>6, <1>7, SeqEqual
<1>9. QED
  BY <1>3, <1>4, <1>8 DEF S, f, g, h, x

\* d is the dump of the first m bytes.
DumpShape(d, bytes, m) ==
  /\ d \in Seq(DumpChars) /\ Len(d) = 3 * m
  /\ \A j \in 1..m : /\ d[3 * j - 2] = HexDigits[bytes[j] \div 16 + 1]
                     /\ d[3 * j - 1] = HexDigits[(bytes[j] % 16) + 1]
                     /\ d[3 * j] = Blank

\* So the dump of any bytes has their digits.
LEMMA DumpShapes ==
  ASSUME NEW bytes \in Seq(0..255)
  PROVE  \A m \in 0..Len(bytes) : DumpShape(FlattenSeq(Triples(bytes, m)), bytes, m)
<1> DEFINE T == {m \in Nat : m <= Len(bytes) => DumpShape(FlattenSeq(Triples(bytes, m)), bytes, m)}
<1>1. 0 \in T
  <2>1. Triples(bytes, 0) = <<>>
    BY DEF Triples
  <2>2. FlattenSeq(Triples(bytes, 0)) = <<>>
    BY <2>1, FlattenEmpty
  <2>3. \A S : <<>> \in Seq(S) /\ Len(<<>>) = 3 * 0
    OBVIOUS
  <2>4. DumpShape(<<>>, bytes, 0)
    <3>1. \A j \in 1..0 : FALSE
      OBVIOUS
    <3>2. QED
      BY <2>3, <3>1, Zenon DEF DumpShape
  <2>5. QED
    BY <2>2, <2>4
<1>2. ASSUME NEW m \in Nat, m \in T PROVE m + 1 \in T
  <2> SUFFICES ASSUME m + 1 <= Len(bytes) PROVE DumpShape(FlattenSeq(Triples(bytes, m + 1)), bytes, m + 1)
    OBVIOUS
  <2> DEFINE x == ByteText(bytes[m + 1])
             d == FlattenSeq(Triples(bytes, m))
             e == FlattenSeq(Triples(bytes, m + 1))
  <2> HIDE DEF d, e, x
  <2>1. m \in 0..(Len(bytes) - 1) /\ bytes[m + 1] \in 0..255 /\ DumpShape(d, bytes, m)
    <3>1. Len(bytes) \in Nat /\ \A j \in 1..Len(bytes) : bytes[j] \in 0..255
      BY ElementsIn
    <3>2. m \in 0..(Len(bytes) - 1) /\ m + 1 \in 1..Len(bytes) /\ m <= Len(bytes)
      BY <3>1
    <3>3. QED
      BY <1>2, <3>1, <3>2 DEF d
  <2> HIDE DEF T
  <2>2. e = d \o x
    BY <2>1, TriplesNext, FlattenAppend, ZenonT(60) DEF d, e, x
  <2>3. /\ x \in Seq(DumpChars) /\ Len(x) = 3 /\ x[1] = HexDigits[bytes[m + 1] \div 16 + 1]
        /\ x[2] = HexDigits[(bytes[m + 1] % 16) + 1] /\ x[3] = Blank
    BY <2>1, TripleIs, ZenonT(60) DEF x
  <2>4. d \in Seq(DumpChars) /\ Len(d) = 3 * m
    BY <2>1 DEF DumpShape
  <2> DEFINE C == DumpChars
  <2> HIDE DEF C
  <2>5. /\ e \in Seq(C) /\ Len(e) = 3 * m + 3 /\ \A k \in 1..(3 * m) : e[k] = d[k]
        /\ \A k \in 1..3 : e[3 * m + k] = x[k]
    <3>1. d \in Seq(C) /\ x \in Seq(C)
      BY <2>3, <2>4 DEF C
    <3>3. /\ d \o x \in Seq(C) /\ Len(d \o x) = Len(d) + Len(x)
          /\ \A k \in 1..Len(d) : (d \o x)[k] = d[k]
          /\ \A k \in 1..Len(x) : (d \o x)[Len(d) + k] = x[k]
      BY <3>1, ConcatIs
    <3>4. QED
      BY <2>2, <2>3, <2>4, <3>3
  <2>6. 3 * (m + 1) = 3 * m + 3 /\ 3 * (m + 1) - 2 = 3 * m + 1 /\ 3 * (m + 1) - 1 = 3 * m + 2
    OBVIOUS
  <2>7. /\ e[3 * (m + 1) - 2] = HexDigits[bytes[m + 1] \div 16 + 1]
        /\ e[3 * (m + 1) - 1] = HexDigits[(bytes[m + 1] % 16) + 1]
        /\ e[3 * (m + 1)] = Blank
    BY <2>3, <2>5, <2>6
  <2>8. ASSUME NEW j \in 1..m
        PROVE  /\ e[3 * j - 2] = HexDigits[bytes[j] \div 16 + 1]
               /\ e[3 * j - 1] = HexDigits[(bytes[j] % 16) + 1]
               /\ e[3 * j] = Blank
    <3>1. 3 * j - 2 \in 1..(3 * m) /\ 3 * j - 1 \in 1..(3 * m) /\ 3 * j \in 1..(3 * m)
      OBVIOUS
    <3>2. QED
      BY <2>1, <2>5, <3>1, ZenonT(60) DEF DumpShape
  <2>9. \A j \in 1..(m + 1) : j = m + 1 \/ j \in 1..m
    OBVIOUS
  <2>10. Len(e) = 3 * (m + 1) /\ e \in Seq(DumpChars)
    BY <2>5, <2>6 DEF C
  <2>11. QED
    BY <2>7, <2>8, <2>9, <2>10, Zenon DEF DumpShape, e
<1> HIDE DEF T
<1>3. Nat \subseteq T
  BY <1>1, <1>2, Induction
<1>4. QED
  BY <1>3 DEF T

\* A byte more of a sequence.
LEMMA PrefixNext ==
  ASSUME NEW S, NEW s \in Seq(S), NEW j \in 0..(Len(s) - 1)
  PROVE  SubSeq(s, 1, j + 1) = Append(SubSeq(s, 1, j), s[j + 1])
<1> DEFINE p == SubSeq(s, 1, j)
           q == SubSeq(s, 1, j + 1)
           x == s[j + 1]
           h == Append(p, x)
<1>1. Len(s) \in Nat /\ j \in Nat /\ j + 1 <= Len(s) /\ \A k \in 1..Len(s) : s[k] \in S
  BY ElementsIn
<1>2. p \in Seq(S) /\ Len(p) = j /\ \A k \in 1..j : p[k] = s[k]
  <2>1. \A k \in 1..j : s[k] \in S
    BY <1>1
  <2>2. p \in Seq(S) /\ Len(p) = (IF 1 <= j THEN j - 1 + 1 ELSE 0) /\ \A k \in 1..(j - 1 + 1) : p[k] = s[1 + k - 1]
    BY <1>1, <2>1, SubSeqProperties
  <2> HIDE DEF p
  <2>3. QED
    BY <1>1, <2>2
<1>3. q \in Seq(S) /\ Len(q) = j + 1 /\ \A k \in 1..(j + 1) : q[k] = s[k]
  <2>1. \A k \in 1..(j + 1) : s[k] \in S
    BY <1>1
  <2>2. q \in Seq(S) /\ Len(q) = (IF 1 <= j + 1 THEN j + 1 - 1 + 1 ELSE 0) /\ \A k \in 1..(j + 1 - 1 + 1) : q[k] = s[1 + k - 1]
    BY <1>1, <2>1, SubSeqProperties
  <2> HIDE DEF q
  <2>3. QED
    BY <1>1, <2>2, SMTT(30)
<1>4. x \in S
  BY <1>1
<1> HIDE DEF p, q, x
<1>5. h \in Seq(S) /\ Len(h) = j + 1 /\ h[j + 1] = x /\ \A k \in 1..j : h[k] = p[k]
  BY <1>2, <1>4, AppendIs
<1> HIDE DEF h
<1>6. \A k \in 1..Len(q) : q[k] = h[k]
  <2>1. \A k \in 1..Len(q) : k = j + 1 \/ k \in 1..j
    BY <1>1, <1>3
  <2>2. j + 1 \in 1..(j + 1)
    BY <1>1
  <2>3. q[j + 1] = h[j + 1]
    BY <1>3, <1>5, <2>2 DEF x
  <2>4. \A k \in 1..j : k \in 1..(j + 1)
    BY <1>1
  <2>5. \A k \in 1..j : q[k] = h[k]
    BY <1>2, <1>3, <1>5, <2>4
  <2>6. QED
    BY <2>1, <2>3, <2>5
<1>7. q = h
  BY <1>3, <1>5, <1>6, SeqEqual
<1>8. QED
  BY <1>7 DEF p, q, x, h

\* The three characters of a byte take two steps.
LEMMA TripleTrims ==
  ASSUME NEW d, NEW bytes \in Seq(0..255), NEW m \in 0..Len(bytes), DumpShape(d, bytes, m),
         NEW j \in 0..(m - 1)
  PROVE  TrimStep(TrimStep(Reads(3 * j + 1, SubSeq(bytes, 1, j), FALSE), d), d)
           = Reads(3 * (j + 1) + 1, SubSeq(bytes, 1, j + 1), FALSE)
<1> DEFINE b == bytes[j + 1]
           x == b \div 16
           y == b % 16
           p == SubSeq(bytes, 1, j)
           k == 3 * j + 1
           first == HexDigits[x + 1]
           second == HexDigits[y + 1]
<1>1. b \in 0..255 /\ j + 1 \in 1..m /\ j \in 0..(Len(bytes) - 1) /\ j \in Nat /\ m \in Nat
  <2>1. Len(bytes) \in Nat /\ \A e \in 1..Len(bytes) : bytes[e] \in 0..255
    BY ElementsIn
  <2>2. QED
    BY <2>1
<1>2. x \in 0..15 /\ y \in 0..15 /\ 16 * x + y = b
  <2>1. \A e \in 0..255 : e \div 16 \in 0..15 /\ e % 16 \in 0..15 /\ 16 * (e \div 16) + (e % 16) = e
    OBVIOUS
  <2>2. QED
    BY <1>1, <2>1
<1>3. d[3 * (j + 1) - 2] = HexDigits[x + 1] /\ d[3 * (j + 1) - 1] = HexDigits[y + 1] /\ d[3 * (j + 1)] = Blank
  BY <1>1 DEF DumpShape
<1>4. Len(d) = 3 * m
  BY DEF DumpShape
<1>5. /\ 3 * (j + 1) - 2 = k /\ 3 * (j + 1) - 1 = k + 1 /\ 3 * (j + 1) = k + 2
      /\ k <= 3 * m /\ k + 1 <= 3 * m /\ k + 2 <= 3 * m /\ 3 * (j + 1) + 1 = (k + 2) + 1
  BY <1>1
<1> HIDE DEF b, x, y, p, k
<1>12. first = HexDigits[x + 1] /\ second = HexDigits[y + 1]
  OBVIOUS
<1> HIDE DEF first, second
<1>6. CharAt(d, k) = first /\ CharAt(d, k + 1) = second /\ CharAt(d, k + 2) = Blank
  BY <1>3, <1>4, <1>5, <1>12 DEF CharAt
<1>7. hex_to_bin(first) = x /\ ~IsSpace(first) /\ hex_to_bin(second) = y /\ x >= 0 /\ y >= 0 /\ IsSpace(Blank)
  <2>1. hex_to_bin(first) = x /\ ~IsSpace(first) /\ hex_to_bin(second) = y
    BY <1>2, <1>12, DigitIs, Zenon
  <2>2. x >= 0 /\ y >= 0
    BY <1>2
  <2>3. QED
    BY <2>1, <2>2, SpaceIs
<1>8. TrimStep(Reads(k, p, FALSE), d) = Reads(k + 2, Append(p, 16 * x + y), FALSE)
  BY <1>6, <1>7, TrimStepIs
<1>9. TrimStep(Reads(k + 2, Append(p, b), FALSE), d) = Reads((k + 2) + 1, Append(p, b), FALSE)
  BY <1>6, <1>7, TrimStepIs
<1>10. Append(p, b) = SubSeq(bytes, 1, j + 1)
  BY <1>1, PrefixNext DEF p, b
<1>11. QED
  BY <1>2, <1>5, <1>8, <1>9, <1>10 DEF p, k

\* A dump is read as the bytes it was made of.
LEMMA DumpTrims ==
  ASSUME NEW d, NEW bytes \in Seq(0..255), NEW m \in 0..Len(bytes), DumpShape(d, bytes, m)
  PROVE  hex2bin_trim_len(d).dst = SubSeq(bytes, 1, m)
<1> DEFINE n == 3 * m
           all == SubSeq(bytes, 1, m)
<1>1. Len(d) = n /\ m \in Nat /\ n \in Nat /\ d \in Seq(DumpChars)
  <2>1. Len(bytes) \in Nat
    BY ElementsIn
  <2>2. QED
    BY <2>1 DEF DumpShape
<1>2. PICK u : u[0] = Untrimmed /\ (\A s \in 1..n : u[s] = TrimStep(u[s - 1], d)) /\ Trimmed(d, n) = u[n]
  BY <1>1, TrimTrace, SMTT(30)
<1> HIDE DEF n
<1> DEFINE Half(j) == u[2 * j] = Reads(3 * j + 1, SubSeq(bytes, 1, j), FALSE)
           T == {j \in Nat : j <= m => Half(j)}
<1>3. 0 \in T
  <2>1. SubSeq(bytes, 1, 0) = <<>>
    BY SubSeqEmpty
  <2>2. Untrimmed = Reads(1, <<>>, FALSE)
    BY DEF Untrimmed, Reads
  <2>3. 2 * 0 = 0 /\ 3 * 0 + 1 = 1
    OBVIOUS
  <2>4. QED
    BY <1>2, <2>1, <2>2, <2>3
<1> HIDE DEF Half
<1>4. ASSUME NEW j \in Nat, j \in T PROVE j + 1 \in T
  <2> SUFFICES ASSUME j + 1 <= m
               PROVE  Half(j + 1)
    OBVIOUS
  <2>1. j \in 0..(m - 1) /\ j <= m
    BY <1>1
  <2>2. u[2 * j] = Reads(3 * j + 1, SubSeq(bytes, 1, j), FALSE)
    BY <1>4, <2>1 DEF Half
  <2>3. /\ 2 * j + 1 \in 1..n /\ 2 * (j + 1) \in 1..n /\ (2 * j + 1) - 1 = 2 * j
        /\ 2 * (j + 1) - 1 = 2 * j + 1
    BY <1>1, <2>1 DEF n
  <2> HIDE DEF T
  <2>4. u[2 * j + 1] = TrimStep(u[2 * j], d)
    BY <1>2, <2>3
  <2>5. u[2 * (j + 1)] = TrimStep(u[2 * j + 1], d)
    BY <1>2, <2>3
  <2>6. QED
    BY <2>1, <2>2, <2>4, <2>5, TripleTrims DEF Half
<1> HIDE DEF T
<1>5. m \in T
  <2>1. Nat \subseteq T
    BY <1>3, <1>4, Induction
  <2>2. QED
    BY <1>1, <2>1
<1>6. u[2 * m] = Reads(n + 1, all, FALSE)
  <2>1. Half(m)
    BY <1>1, <1>5 DEF T
  <2>2. QED
    BY <2>1 DEF Half, n
<1> HIDE DEF all
<1> DEFINE Rest(e) == \E b \in BOOLEAN : u[2 * m + e] = Reads(n + 1, all, b)
           R == {e \in Nat : e <= m => Rest(e)}
<1>7. 0 \in R
  <2>1. 2 * m + 0 = 2 * m
    BY <1>1
  <2>2. QED
    BY <1>6, <2>1
<1> HIDE DEF Rest
<1>8. ASSUME NEW e \in Nat, e \in R PROVE e + 1 \in R
  <2> SUFFICES ASSUME e + 1 <= m PROVE Rest(e + 1)
    OBVIOUS
  <2>1. PICK b \in BOOLEAN : u[2 * m + e] = Reads(n + 1, all, b)
    BY <1>1, <1>8 DEF Rest
  <2>2. 2 * m + (e + 1) \in 1..n /\ (2 * m + (e + 1)) - 1 = 2 * m + e
    BY <1>1 DEF n
  <2>3. u[2 * m + (e + 1)] = TrimStep(Reads(n + 1, all, b), d)
    BY <1>2, <2>1, <2>2
  <2>4. CharAt(d, n + 1) = "NUL"
    BY <1>1 DEF CharAt
  <2>5. ~IsSpace("NUL") /\ hex_to_bin("NUL") < 0
    BY SpaceIs
  <2>6. TrimStep(Reads(n + 1, all, FALSE), d) = Reads(n + 1, all, TRUE)
    BY <2>4, <2>5, TrimStepIs
  <2>7. TrimStep(Reads(n + 1, all, TRUE), d) = Reads(n + 1, all, TRUE)
    BY TrimStepIs
  <2>8. QED
    BY <2>3, <2>6, <2>7 DEF Rest
<1> HIDE DEF R
<1>9. m \in R
  <2>1. Nat \subseteq R
    BY <1>7, <1>8, Induction
  <2>2. QED
    BY <1>1, <2>1
<1>10. PICK b \in BOOLEAN : u[n] = Reads(n + 1, all, b)
  <2>1. 2 * m + m = n
    BY <1>1 DEF n
  <2>2. QED
    BY <1>1, <1>9, <2>1, SMTT(30) DEF R, Rest
<1>11. hex2bin_trim_len(d) = TrimResult(u[n])
  BY <1>1, <1>2 DEF hex2bin_trim_len
<1>12. TrimResult(u[n]).dst = u[n].dst
  BY DEF TrimResult
<1>13. u[n].dst = all
  BY <1>10 DEF Reads
<1>14. QED
  BY <1>11, <1>12, <1>13 DEF all

\* The bytes of an order are bytes.
LEMMA BytesRange ==
  ASSUME NEW words, Len(words) \in Nat, WellFormed(words)
  PROVE  Bytes(words) \in Seq(0..255) /\ Len(Bytes(words)) = Len(words)
<1> DEFINE b == Bytes(words)
<1>1. b \in Seq(Int) /\ Len(b) = Len(words) /\ \A j \in 1..Len(words) : b[j] = ByteOf(words[j])
  BY BytesAre
<1>2. ASSUME NEW j \in 1..Len(words) PROVE ByteOf(words[j]) \in 0..255
  <2>1. hex_to_bin(words[j][1]) >= 0 /\ hex_to_bin(words[j][2]) >= 0
    BY DEF WellFormed
  <2>2. hex_to_bin(words[j][1]) \in 0..15 /\ hex_to_bin(words[j][2]) \in 0..15
    BY <2>1, ByteRange
  <2>3. \A x, y \in 0..15 : 16 * x + y \in 0..255
    OBVIOUS
  <2>4. QED
    BY <2>2, <2>3 DEF ByteOf
<1> HIDE DEF b
<1>3. \A j \in 1..Len(b) : b[j] \in 0..255
  BY <1>1, <1>2
<1>4. \A S : b \in Seq(Int) /\ (\A j \in 1..Len(b) : b[j] \in S) => b \in Seq(S)
  OBVIOUS
<1>5. QED
  BY <1>1, <1>3, <1>4 DEF b

------------------------------------------------------------------------------
(* Orders and answers                                                      *)

\* What hex2bin_zero() makes of two digits.
LEMMA WordSent ==
  ASSUME NEW w, Len(w) = 2, hex_to_bin(w[1]) >= 0, hex_to_bin(w[2]) >= 0
  PROVE  hex2bin_zero(w) = 16 * hex_to_bin(w[1]) + hex_to_bin(w[2])
<1>1. hex_to_bin(w[1]) \in 0..15 /\ hex_to_bin(w[2]) \in 0..15
  BY ByteRange
<1>2. ~(hex_to_bin(w[1]) < 0) /\ ~(hex_to_bin(w[2]) < 0) /\ Len(w) # 1
  BY <1>1
<1>3. QED
  BY <1>2, Zenon DEF hex2bin_zero

\* What is typed is sent and stored as the bytes it spells.
LEMMA OrderRead ==
  ASSUME NEW S, order \in Seq(S) PROVE OrdersRead
<1> DEFINE words == WordsOf(order)
           sent == [j \in 1..Len(words) |-> hex2bin_zero(words[j])]
<1> SUFFICES ASSUME WellFormed(words)
             PROVE  /\ sent = Bytes(words) /\ hex2bin_trim_len(order).dst = Bytes(words)
                    /\ hex2bin_trim_len(order).length = IF words = <<>> THEN -1 ELSE Len(words)
  BY Zenon DEF OrdersRead
<1>1. \A j \in 1..Len(words) :
        hex2bin_zero(words[j]) = 16 * hex_to_bin(words[j][1]) + hex_to_bin(words[j][2])
  BY WordSent DEF WellFormed
<1> HIDE DEF words
<1>2. sent = Bytes(words)
  BY <1>1, Zenon DEF Bytes
<1>3. /\ hex2bin_trim_len(order).dst = Bytes(words)
      /\ hex2bin_trim_len(order).length = IF words = <<>> THEN -1 ELSE Len(words)
  BY OrderTrims DEF words
<1>4. QED
  BY <1>2, <1>3

\* The dump of as many bytes as there is room for, and the end of a C string behind it.
LEMMA DumpFits ==
  ASSUME NEW bytes \in Seq(0..255), NEW room \in Nat, room % 3 # 0
  PROVE  /\ Len(hex_dump_to_buffer(bytes, room)) + 1 <= room
         /\ hex2bin_trim_len(hex_dump_to_buffer(bytes, room)).dst
              = SubSeq(bytes, 1, Min({Len(bytes), room \div 3}))
<1> DEFINE m == Min({Len(bytes), room \div 3})
           d == hex_dump_to_buffer(bytes, room)
<1>1. Len(bytes) \in Nat /\ room \div 3 \in Nat /\ 3 * (room \div 3) + 1 <= room
  <2>1. Len(bytes) \in Nat
    BY ElementsIn
  <2>2. QED
    BY <2>1
<1>2. m \in 0..Len(bytes) /\ m <= room \div 3
  <2>1. m = IF Len(bytes) <= room \div 3 THEN Len(bytes) ELSE room \div 3
    BY <1>1, MinIs
  <2> HIDE DEF m
  <2>2. QED
    BY <1>1, <2>1
<1>3. d = FlattenSeq(Triples(bytes, m))
  BY DEF hex_dump_to_buffer, Dumped, Triples
<1> HIDE DEF m, d
<1>4. DumpShape(d, bytes, m)
  BY <1>2, <1>3, DumpShapes
<1>5. hex2bin_trim_len(d).dst = SubSeq(bytes, 1, m)
  BY <1>2, <1>4, DumpTrims
<1>6. Len(d) + 1 <= room
  <2>1. Len(d) = 3 * m
    BY <1>4 DEF DumpShape
  <2>2. QED
    BY <1>1, <1>2, <2>1
<1>7. QED
  BY <1>5, <1>6 DEF d, m

\* What is answered is read from the reply.
LEMMA DumpRead ==
  ASSUME HexConstants, NEW S, order \in Seq(S) PROVE DumpsRead
<1> DEFINE words == WordsOf(order)
           bytes == Bytes(words)
           dump == hex_dump_to_buffer(bytes, DumpRoom)
<1> SUFFICES ASSUME WellFormed(words)
             PROVE  /\ Len(dump) + 1 <= DumpRoom
                    /\ hex2bin_trim_len(dump).dst = SubSeq(bytes, 1, Min({Len(bytes), DumpRoom \div 3}))
  BY Zenon DEF DumpsRead
<1>1. words \in Seq(Seq(S))
  BY OrderTrims
<1> HIDE DEF words
<1>2. Len(words) \in Nat
  BY <1>1
<1>3. bytes \in Seq(0..255)
  BY <1>2, BytesRange
<1> HIDE DEF bytes
<1>4. QED
  BY <1>3, DumpFits DEF HexConstants

\* An order in pairs of hexadecimal digits is sent, and an infrared code stored, as the bytes
\* it spells, and the dump of an answer in a reply spells the bytes of the answer, as many as
\* fit, and ends within its buffer, whatever the order and the size of the buffer.
THEOREM HexFaithfulHolds == ASSUME HexConstants PROVE HexSpec => []HexFaithful
<1> DEFINE Typed == order \in Seq(HexChars)
<1>1. HexInit => Typed
  BY DEF HexInit
<1>2. Typed /\ [HexNext]_order => Typed'
  <2>1. ASSUME Typed, NEW c \in HexChars, Type(c) PROVE Typed'
    BY <2>1 DEF Type
  <2>2. QED
    BY <2>1 DEF HexNext
<1>3. Typed => HexFaithful
  BY OrderRead, DumpRead DEF HexFaithful
<1> HIDE DEF Typed
<1>4. QED
  BY <1>1, <1>2, <1>3, PTL DEF HexSpec
==============================================================================
