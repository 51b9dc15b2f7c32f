------------------------------ MODULE DsBusProofs ------------------------------
(* Theorems about DsBus for every set of register numbers, every buffer size  *)
(* and every selection of line faults.                                        *)
EXTENDS DsBus, SequenceTheorems, TLAPS

------------------------------------------------------------------------------
(* The line                                                                   *)

LEMMA Sizes == Prefix = 11 /\ Around = 13 /\ header_length + 2 + checksum_length = 5
  BY DEF Around, Prefix, header_length, FileLength, MetaLength, checksum_length

\* What the device writes.
LEMMA AnswerFrames ==
  ASSUME TypeOK, NEW answer \in Answers
  PROVE  \/ answer = <<>>
         \/ \E f \in Functions, len \in Nat, size \in Nat, sound \in BOOLEAN :
              /\ answer = <<Frame(f, len, size, sound)>>
              /\ sound /\ f \in Responses =>
                   /\ f = ResponseOf(request) /\ len = DataLength(request)
                   /\ size = Around + len
<1> DEFINE len == DataLength(request)
<1>1. len \in Nat /\ Around + len \in Nat /\ ResponseOf(request) \in Functions
  <2>1. request.kind \in {"read", "write"} /\ request.num \in Nat
    BY DsBusAssumption DEF TypeOK, Requests
  <2>2. QED
    BY <2>1, Sizes DEF DataLength, ResponseOf, Functions
<1>2. CASE answer = <<Frame(ResponseOf(request), len, Around + len, TRUE)>>
  BY <1>1, <1>2
<1>3. CASE answer = <<>>
  BY <1>3
<1>4. CASE \E f \in {"exception", "other"} :
             answer = <<Frame(f, 0, header_length + 2 + checksum_length, TRUE)>>
  <2>1. header_length + 2 + checksum_length \in Nat
    BY DEF header_length, checksum_length
  <2>2. "exception" \in Functions \ Responses /\ "other" \in Functions \ Responses
    BY DEF Functions, Responses
  <2>3. QED
    BY <1>4, <2>1, <2>2
<1>5. CASE \E n \in 1 .. Around + len :
             answer = <<Frame(ResponseOf(request), len, n, FALSE)>>
  <2>1. PICK n \in 1 .. Around + len : answer = <<Frame(ResponseOf(request), len, n, FALSE)>>
    BY <1>5
  <2>2. n \in Nat
    BY <1>1
  <2>3. QED
    BY <1>1, <2>1, <2>2, Zenon
<1>6. QED
  BY <1>2, <1>3, <1>4, <1>5 DEF Answers

LEMMA FrameInFrames ==
  ASSUME TypeOK, NEW f \in Functions, NEW len \in Nat, NEW size \in Nat,
         NEW sound \in BOOLEAN
  PROVE  Frame(f, len, size, sound) \in Frames
  BY DEF TypeOK, Frame, Frames

LEMMA OneInSeq ==
  ASSUME NEW S, NEW e \in S
  PROVE  <<e>> \in Seq(S)
  OBVIOUS

\* Frames only come from the device and leave from the front.
LEMMA LineStep ==
  ASSUME NEW S, line \in Seq(S), [Next]_vars,
         \A answer \in Answers : answer \in Seq(S)
  PROVE  line' \in Seq(S)
<1>1. CASE Send
  BY <1>1, ConcatProperties DEF Send
<1>2. CASE Receive
  BY <1>2, HeadTailProperties DEF Receive
<1>3. CASE Close
  BY <1>3, EmptySeq DEF Close
<1>4. CASE UNCHANGED line
  BY <1>4
<1>5. QED
  BY <1>1, <1>2, <1>3, <1>4
     DEF Next, Driver, vars, Connect, Timeout, ReadFails, StepFunction, StepFile,
         StepMeta, StepData, StepCrc, Confirm, Proceed

\* Only the first byte of a message sets its frame.
LEMMA FromStep ==
  ASSUME NEW S, line \in Seq(S), from \in S, NoFrame \in S, [Next]_vars
  PROVE  from' \in S
<1>1. CASE Receive
  BY <1>1, HeadTailProperties DEF Receive
<1>2. CASE Connect
  BY <1>2 DEF Connect
<1>3. CASE UNCHANGED from
  BY <1>3
<1>4. QED
  BY <1>1, <1>2, <1>3
     DEF Next, Driver, vars, message, Send, Close, Timeout, ReadFails, StepFunction,
         StepFile, StepMeta, StepData, StepCrc, Confirm, Proceed
------------------------------------------------------------------------------
(* Types                                                                      *)

LEMMA DsBusTypeInit == Init => TypeOK
<1>1. NoFrame \in [function : Functions, len : Nat, size : Nat, sound : BOOLEAN,
                    to : 0 .. MaxExchanges]
  BY DsBusAssumption DEF NoFrame, Functions
<1>2. Init => late \in BOOLEAN
  BY Zenon DEF Init
<1>3. QED
  BY <1>1, <1>2, EmptySeq, DsBusAssumption DEF Init, TypeOK, Frames, Functions

LEMMA NoFrameInFrames == NoFrame \in Frames
  BY DsBusAssumption DEF NoFrame, Functions, Frames

LEMMA DsBusTypeStep == TypeOK /\ [Next]_vars => TypeOK'
<1> SUFFICES ASSUME TypeOK, [Next]_vars PROVE TypeOK'
  OBVIOUS
<1>1. \A answer \in Answers : answer \in Seq(Frames)
  <2> SUFFICES ASSUME NEW answer \in Answers PROVE answer \in Seq(Frames)
    OBVIOUS
  <2>1. answer = <<>> \/ \E f \in Frames : answer = <<f>>
    BY AnswerFrames, FrameInFrames
  <2>2. QED
    BY <2>1, EmptySeq, OneInSeq
<1>2. line' \in Seq(Frames)
  BY <1>1, LineStep DEF TypeOK
<1>3. from' \in Frames
  BY FromStep, NoFrameInFrames DEF TypeOK
<1>4. function' \in Functions
  <2>1. CASE StepFunction
    BY <2>1 DEF StepFunction, TypeOK, Frames
  <2>2. CASE Connect
    BY <2>2 DEF Connect, Functions
  <2>3. CASE UNCHANGED function
    BY <2>3 DEF TypeOK
  <2>4. QED
    BY <2>1, <2>2, <2>3
       DEF Next, Driver, vars, message, Send, Receive, Close, Timeout, ReadFails,
           StepFile, StepMeta, StepData, StepCrc, Confirm
<1>5. length_to_read' \in Nat /\ msg_length' \in Nat
  <2>1. CASE StepMeta
    <3>1. DataLengths \subseteq Nat
      BY DsBusAssumption DEF DataLengths, TypeOK, Frames
    <3>2. QED
      BY <2>1, <3>1 DEF StepMeta, Proceed, TypeOK
  <2>2. CASE Receive
    BY <2>2 DEF Receive, Waiting, TypeOK
  <2>3. CASE UNCHANGED <<length_to_read, msg_length>>
    BY <2>3 DEF TypeOK
  <2>4. CASE Connect \/ Send
    BY <2>4 DEF Connect, Send, TypeOK, header_length, message
  <2>5. CASE StepFunction \/ StepFile \/ StepData \/ StepCrc
    BY <2>5 DEF StepFunction, StepFile, StepData, StepCrc, Proceed, TypeOK,
       FileLength, MetaLength, checksum_length
  <2>6. QED
    BY <2>1, <2>2, <2>3, <2>4, <2>5
       DEF Next, Driver, vars, message, Close, Timeout, ReadFails, Confirm
<1>6. consumed' \in Nat
  <2>1. CASE Receive
    BY <2>1 DEF Receive, TypeOK
  <2>2. CASE Close
    <3>1. ASSUME line # <<>>
          PROVE  \A n \in consumed .. Head(line).size - 1 : n \in Nat
      BY <3>1, HeadTailProperties DEF TypeOK, Frames
    <3>2. QED
      BY <2>2, <3>1 DEF Close
  <2>3. CASE UNCHANGED consumed
    BY <2>3 DEF TypeOK
  <2>4. QED
    BY <2>1, <2>2, <2>3
       DEF Next, Driver, vars, Connect, Send, Timeout, ReadFails, StepFunction,
           StepFile, StepMeta, StepData, StepCrc, Confirm, Proceed
<1>7. /\ phase' \in {"closed", "open", "receive", "fine", "failed"}
      /\ step' \in {"function", "file", "meta", "data", "crc", "ok"}
      /\ aligned' \in BOOLEAN
  BY DEF TypeOK, Next, Driver, vars, message, Connect, Send, Receive, Close, Timeout,
     ReadFails, StepFunction, StepFile, StepMeta, StepData, StepCrc, Confirm, Proceed,
     Fail
<1>8. /\ request' \in Requests
      /\ exchange' \in 0 .. MaxExchanges
      /\ errno' \in {"unset", "open", "write", "EMBMDATA", "EMBBADDATA", "EMBBADCRC",
                     "ETIMEDOUT", "ECONNRESET"}
  BY DsBusAssumption
     DEF TypeOK, Next, Driver, vars, message, Connect, Send, Receive, Close, Timeout,
     ReadFails, StepFunction, StepFile, StepMeta, StepData, StepCrc, Confirm, Proceed,
     Fail
<1>9. late' \in BOOLEAN
  <2>1. CASE Close
    BY <2>1, Zenon DEF Close, TypeOK
  <2>2. CASE UNCHANGED late
    BY <2>2 DEF TypeOK
  <2>3. QED
    BY <2>1, <2>2
       DEF Next, Driver, vars, Connect, Send, Receive, Timeout, ReadFails,
           StepFunction, StepFile, StepMeta, StepData, StepCrc, Confirm, Proceed
<1>10. QED
  BY <1>2, <1>3, <1>4, <1>5, <1>6, <1>7, <1>8, <1>9 DEF TypeOK, Frames

\* The variables of receive_msg() and the line keep their types.
THEOREM DsBusTypeCorrect == Spec => []TypeOK
<1>1. QED
  BY DsBusTypeInit, DsBusTypeStep, PTL DEF Spec

------------------------------------------------------------------------------
(* The receive buffer                                                         *)

\* How far the message may reach once the bytes asked for in a step are there.
Reach == CASE step = "function" -> 2
           [] step = "file" -> 4
           [] step = "meta" -> Prefix
           [] step \in {"data", "crc"} -> MaxAdu
           [] step = "ok" -> MaxAdu + checksum_length

\* Nothing was received since the port was opened.
NothingYet == phase = "open" => step = "function" /\ msg_length = 0

BoundInv == /\ msg_length + length_to_read <= Reach
            /\ NothingYet

LEMMA BoundInit == Init => BoundInv
  BY DEF Init, BoundInv, Reach, NothingYet

LEMMA NothingYetStep == NothingYet /\ [Next]_vars => NothingYet'
  BY DEF NothingYet, Next, Driver, vars, message, Connect, Send, Receive, Close, Timeout,
     ReadFails, StepFunction, StepFile, StepMeta, StepData, StepCrc, Confirm, Proceed,
     Fail, Waiting, At

LEMMA BoundStep == TypeOK /\ BoundInv /\ [Next]_vars => BoundInv'
<1> SUFFICES ASSUME TypeOK, BoundInv, [Next]_vars
             PROVE  (msg_length + length_to_read <= Reach)'
  BY NothingYetStep DEF BoundInv
<1> USE DsBusAssumption, Sizes DEF BoundInv, Reach, checksum_length
<1>0. /\ msg_length \in Nat /\ length_to_read \in Nat
      /\ step \in {"function", "file", "meta", "data", "crc", "ok"}
  BY DEF TypeOK
<1>1. CASE Connect
  BY <1>1 DEF Connect
<1>2. CASE Send
  <2>1. CASE UNCHANGED message
    BY <2>1 DEF message
  <2>2. CASE UNCHANGED <<step, msg_length>> /\ length_to_read' = 2
    <3>1. step' = "function" /\ msg_length' = 0
      BY <1>2, <2>2 DEF Send, NothingYet
    <3>2. QED
      BY <2>2, <3>1
  <2>3. \/ UNCHANGED message
        \/ UNCHANGED <<step, msg_length>> /\ length_to_read' = header_length + 1
    BY <1>2, Zenon DEF Send
  <2>4. header_length + 1 = 2
    BY DEF header_length
  <2>5. QED
    BY <2>1, <2>2, <2>3, <2>4
<1>3. CASE Receive
  BY <1>0, <1>3 DEF Receive, Waiting
<1>4. CASE StepFunction
  BY <1>0, <1>4 DEF StepFunction, At, Proceed, FileLength
<1>5. CASE StepFile
  BY <1>0, <1>5 DEF StepFile, At, Proceed, MetaLength
<1>6. CASE StepMeta
  BY <1>0, <1>6 DEF StepMeta, At, Proceed
<1>7. CASE StepData
  BY <1>0, <1>7 DEF StepData, At, Proceed
<1>8. CASE StepCrc
  BY <1>0, <1>8 DEF StepCrc, At, Proceed
<1>9. CASE UNCHANGED message
  BY <1>9 DEF message
<1>10. QED
  BY <1>1, <1>2, <1>3, <1>4, <1>5, <1>6, <1>7, <1>8, <1>9
     DEF Next, Driver, vars, Close, Timeout, ReadFails, Confirm

\* Whatever length a frame announces, the receive buffer of receive_msg() is not
\* exceeded.
THEOREM BufferAlwaysRespected == Spec => []BufferRespected
<1>1. TypeOK /\ BoundInv => BufferRespected
  BY DsBusAssumption, Sizes DEF TypeOK, BoundInv, Reach, BufferRespected, checksum_length
<1>2. Spec => [](TypeOK /\ BoundInv)
  BY DsBusTypeInit, DsBusTypeStep, BoundInit, BoundStep, PTL DEF Spec
<1>3. QED
  BY <1>1, <1>2, PTL

------------------------------------------------------------------------------
(* How far a sound answer has come                                            *)

\* The lengths of a sound response agree with each other.
GenuineFrames ==
  {f \in Frames : f.sound /\ f.function \in Responses =>
                     /\ f.size = Around + f.len
                     /\ f.function = "write_response" => f.len = 2}

\* Where a sound response ends once the bytes asked for in a step are there.
Expected == CASE step = "file" -> 4
              [] step = "meta" -> Prefix
              [] step \in {"data", "crc"} -> Prefix + from.len
              [] OTHER -> Around + from.len

Begun ==
  IF step = "function" THEN phase = "receive" => msg_length + length_to_read = 2
                       ELSE msg_length >= 2
FunctionKnown == step # "function" /\ Sound => function = from.function
InStep == /\ phase = "receive" /\ step # "function"
          /\ Sound /\ from.function \in Responses
          => msg_length + length_to_read = Expected

MessageInv ==
  /\ line \in Seq(GenuineFrames) /\ from \in GenuineFrames
  /\ Begun /\ FunctionKnown /\ InStep

LEMMA MessageInit == Init => MessageInv
<1> SUFFICES ASSUME Init PROVE MessageInv
  OBVIOUS
<1>1. from \in GenuineFrames
  BY NoFrameInFrames DEF Init, GenuineFrames, NoFrame
<1>2. line \in Seq(GenuineFrames)
  BY EmptySeq DEF Init
<1>3. QED
  BY <1>1, <1>2 DEF Init, MessageInv, Begun, FunctionKnown, InStep

LEMMA GenuineStep ==
  TypeOK /\ MessageInv /\ [Next]_vars =>
    line' \in Seq(GenuineFrames) /\ from' \in GenuineFrames
<1> SUFFICES ASSUME TypeOK, MessageInv, [Next]_vars
             PROVE  line' \in Seq(GenuineFrames) /\ from' \in GenuineFrames
  OBVIOUS
<1>1. \A answer \in Answers : answer \in Seq(GenuineFrames)
  <2> SUFFICES ASSUME NEW answer \in Answers PROVE answer \in Seq(GenuineFrames)
    OBVIOUS
  <2>1. CASE answer = <<>>
    BY <2>1, EmptySeq
  <2>2. CASE answer # <<>>
    <3>1. PICK f \in Functions, len \in Nat, size \in Nat, sound \in BOOLEAN :
            /\ answer = <<Frame(f, len, size, sound)>>
            /\ sound /\ f \in Responses =>
                 /\ f = ResponseOf(request) /\ len = DataLength(request)
                 /\ size = Around + len
      BY <2>2, AnswerFrames
    <3>2. f = "write_response" /\ f = ResponseOf(request) => DataLength(request) = 2
      BY DEF ResponseOf, DataLength
    <3>3. Frame(f, len, size, sound) \in GenuineFrames
      BY <3>1, <3>2, FrameInFrames DEF Frame, GenuineFrames
    <3>4. QED
      BY <3>1, <3>3, OneInSeq
  <2>3. QED
    BY <2>1, <2>2
<1>2. NoFrame \in GenuineFrames
  BY NoFrameInFrames DEF GenuineFrames, NoFrame
<1>3. QED
  BY <1>1, <1>2, LineStep, FromStep DEF MessageInv

LEMMA BegunStep == TypeOK /\ BoundInv /\ MessageInv /\ [Next]_vars => Begun'
<1> SUFFICES ASSUME TypeOK, BoundInv, MessageInv, [Next]_vars PROVE Begun'
  OBVIOUS
<1>0. msg_length \in Nat /\ length_to_read \in Nat /\ Begun /\ NothingYet
  BY DEF TypeOK, MessageInv, BoundInv
<1> USE <1>0 DEF Begun
<1>1. CASE Connect
  BY <1>1 DEF Connect, Fail
<1>2. CASE Send
  <2>1. step = "function" /\ msg_length = 0
    BY <1>2 DEF Send, NothingYet
  <2>2. step' = step /\ msg_length' = msg_length
    BY <1>2, Zenon DEF Send, message
  <2>3. phase' = "receive" => length_to_read' = header_length + 1
    BY <1>2 DEF Send, Fail
  <2>4. header_length + 1 = 2
    BY DEF header_length
  <2>5. QED
    BY <2>1, <2>2, <2>3, <2>4
<1>3. CASE Receive
  BY <1>3 DEF Receive, Waiting
<1>4. CASE StepFunction \/ StepFile \/ StepMeta \/ StepData \/ StepCrc
  BY <1>4 DEF StepFunction, StepFile, StepMeta, StepData, StepCrc, Proceed, At, Fail
<1>5. CASE Close \/ Timeout \/ ReadFails \/ Confirm
  BY <1>5 DEF Close, Timeout, ReadFails, Confirm, Fail, message
<1>6. CASE UNCHANGED vars
  BY <1>6 DEF vars, message
<1>7. QED
  BY <1>1, <1>2, <1>3, <1>4, <1>5, <1>6 DEF Next, Driver

\* Once a message has begun, receiving more bytes of it keeps its frame and does
\* not make it sound.
LEMMA KeptByReceive ==
  ASSUME TypeOK, Begun, Receive, step' # "function"
  PROVE  step # "function" /\ from' = from /\ (Sound' => Sound)
<1>1. step # "function" /\ from' = from
  BY DEF Receive, Begun, TypeOK
<1>2. aligned' => aligned
  BY Zenon DEF Receive
<1>3. QED
  BY <1>1, <1>2 DEF Sound

LEMMA KnownStep == TypeOK /\ BoundInv /\ MessageInv /\ [Next]_vars => FunctionKnown'
<1> SUFFICES ASSUME TypeOK, BoundInv, MessageInv, [Next]_vars PROVE FunctionKnown'
  OBVIOUS
<1>0. msg_length \in Nat /\ Begun /\ FunctionKnown /\ NothingYet
  BY DEF TypeOK, MessageInv, BoundInv
<1> USE <1>0 DEF FunctionKnown, Sound
<1>1. CASE Connect
  BY <1>1 DEF Connect
<1>2. CASE Send
  BY <1>2 DEF Send, NothingYet, message
<1>3. CASE Receive
  <2>1. step' # "function" /\ Sound' => step # "function" /\ Sound /\ from' = from
    BY <1>3, KeptByReceive
  <2>2. UNCHANGED <<step, function>>
    BY <1>3 DEF Receive
  <2>3. QED
    BY <2>1, <2>2
<1>4. CASE StepFunction
  BY <1>4 DEF StepFunction, At, Proceed
<1>5. CASE StepFile \/ StepMeta \/ StepData \/ StepCrc
  BY <1>5 DEF StepFile, StepMeta, StepData, StepCrc, Proceed, At
<1>6. CASE UNCHANGED message
  BY <1>6 DEF message
<1>7. QED
  BY <1>1, <1>2, <1>3, <1>4, <1>5, <1>6
     DEF Next, Driver, vars, Close, Timeout, ReadFails, Confirm

LEMMA InStepStep == TypeOK /\ BoundInv /\ MessageInv /\ [Next]_vars => InStep'
<1> SUFFICES ASSUME TypeOK, BoundInv, MessageInv, [Next]_vars PROVE InStep'
  OBVIOUS
<1>0. /\ msg_length \in Nat /\ length_to_read \in Nat
      /\ step \in {"function", "file", "meta", "data", "crc", "ok"}
      /\ Begun /\ FunctionKnown /\ InStep /\ NothingYet
  BY DEF TypeOK, MessageInv, BoundInv
<1>1. from.len \in Nat /\ (Sound /\ from.function = "write_response" => from.len = 2)
  BY DEF MessageInv, GenuineFrames, Frames, Sound, Responses
<1> USE <1>0, <1>1, Sizes DEF InStep, Sound, Expected
<1>2. CASE Connect \/ Send
  BY <1>2 DEF Connect, Send, NothingYet, Fail, message
<1>3. CASE Receive
  <2>1. step' # "function" /\ Sound' => step # "function" /\ Sound /\ from' = from
    BY <1>3, KeptByReceive
  <2>2. /\ phase = "receive" /\ step' = step
        /\ msg_length' + length_to_read' = msg_length + length_to_read
    BY <1>3 DEF Receive, Waiting
  <2>3. QED
    BY <2>1, <2>2
<1>4. CASE StepFunction
  <2>1. msg_length = 2
    BY <1>4 DEF StepFunction, At, Begun
  <2>2. phase' = "receive" =>
          /\ step' = "file" /\ msg_length' = 2 /\ from' = from /\ aligned' = aligned
          /\ function' \in Responses => length_to_read' = 2
    BY <1>4, <2>1 DEF StepFunction, Proceed, FileLength
  <2>3. Sound => function' = from.function
    BY <1>4 DEF StepFunction
  <2>4. phase' = "receive" => Expected' = 4
    BY <2>2
  <2>5. ASSUME phase' = "receive", Sound', from'.function \in Responses
        PROVE  msg_length' = 2 /\ length_to_read' = 2
    BY <2>2, <2>3, <2>5
  <2>6. QED
    <3> HIDE DEF Expected
    <3> QED
      BY <2>4, <2>5
<1>5. CASE StepFile
  BY <1>5 DEF StepFile, At, Proceed, MetaLength, FunctionKnown
<1>6. CASE StepMeta
  <2>1. Sound /\ from.function \in Responses => DataLengths = {from.len}
    BY <1>6 DEF DataLengths, FunctionKnown, StepMeta, At, Responses
  <2>2. phase' = "receive" =>
          /\ phase = "receive" /\ step = "meta" /\ length_to_read = 0
          /\ step' = "data" /\ UNCHANGED <<msg_length, from, aligned>>
          /\ length_to_read' \in DataLengths
    BY <1>6 DEF StepMeta, At, Proceed, Fail
  <2>3. phase' = "receive" /\ Sound /\ from.function \in Responses => msg_length = 11
    BY <2>2
  <2>4. phase' = "receive" => Expected' = 11 + from.len
    BY <2>2
  <2>5. QED
    <3> HIDE DEF Expected
    <3> QED
      BY <2>1, <2>2, <2>3, <2>4
<1>7. CASE StepData \/ StepCrc
  <2>1. /\ phase = "receive" /\ length_to_read = 0
        /\ UNCHANGED <<msg_length, from, aligned>>
    BY <1>7 DEF StepData, StepCrc, At, Proceed
  <2>2. \/ step = "data" /\ step' = "crc" /\ length_to_read' = 0
        \/ step = "crc" /\ step' = "ok" /\ length_to_read' = 2
    BY <1>7 DEF StepData, StepCrc, At, Proceed, checksum_length
  <2>3. Sound /\ from.function \in Responses => msg_length = 11 + from.len
    BY <2>1, <2>2
  <2>4. Expected' = 11 + from.len + length_to_read'
    BY <2>1, <2>2
  <2>5. QED
    <3> HIDE DEF Expected
    <3> QED
      BY <2>1, <2>2, <2>3, <2>4
<1>8. CASE Close \/ Timeout \/ ReadFails \/ Confirm
  BY <1>8 DEF Close, Timeout, ReadFails, Confirm, Fail
<1>9. CASE UNCHANGED vars
  BY <1>9 DEF vars, message
<1>10. QED
  BY <1>2, <1>3, <1>4, <1>5, <1>6, <1>7, <1>8, <1>9 DEF Next, Driver

LEMMA MessageStep == TypeOK /\ BoundInv /\ MessageInv /\ [Next]_vars => MessageInv'
<1> SUFFICES ASSUME TypeOK, BoundInv, MessageInv, [Next]_vars PROVE MessageInv'
  OBVIOUS
<1>1. GenuineFrames' = GenuineFrames
  BY DEF GenuineFrames, Frames
<1>2. QED
  BY <1>1, GenuineStep, BegunStep, KnownStep, InStepStep DEF MessageInv

------------------------------------------------------------------------------
(* What is confirmed, and what is refused                                     *)

FreshFrames == {f \in Frames : f.to = exchange}

\* If no byte outlives the close of the port, everything on the line and in the
\* message belongs to the present exchange.
Fresh == ~late =>
           /\ line \in Seq(FreshFrames)
           /\ msg_length > 0 /\ phase # "closed" => from.to = exchange
           /\ phase = "closed" => line = <<>>

LEMMA FreshInit == Init => Fresh
  BY EmptySeq DEF Init, Fresh

LEMMA FreshStep == TypeOK /\ Fresh /\ [Next]_vars => Fresh'
<1> SUFFICES ASSUME TypeOK, Fresh, [Next]_vars, ~late'
             PROVE  /\ line' \in Seq(FreshFrames')
                    /\ msg_length' > 0 /\ phase' # "closed" => from'.to = exchange'
                    /\ phase' = "closed" => line' = <<>>
  BY DEF Fresh
<1>0. Close \/ ~late
  BY DEF Next, Driver, vars, Connect, Send, Receive, Timeout, ReadFails, StepFunction,
     StepFile, StepMeta, StepData, StepCrc, Confirm, Proceed
<1>1. CASE Connect
  <2>1. ~late
    BY <1>1 DEF Connect
  <2>2. QED
    BY <1>1, <2>1, EmptySeq DEF Connect, Fresh, Fail
<1>2. CASE ~Connect
  <2>1. exchange' = exchange /\ FreshFrames' = FreshFrames
    <3>1. exchange' = exchange
      BY <1>2 DEF Next, Driver, vars, Send, Receive, Close, Timeout, ReadFails,
         StepFunction, StepFile, StepMeta, StepData, StepCrc, Confirm, Proceed
    <3>2. QED
      BY <3>1 DEF FreshFrames, Frames
  <2>2. \A answer \in Answers : answer \in Seq(FreshFrames)
    <3> SUFFICES ASSUME NEW answer \in Answers PROVE answer \in Seq(FreshFrames)
      OBVIOUS
    <3>1. answer = <<>> \/ \E f \in FreshFrames : answer = <<f>>
      BY AnswerFrames, FrameInFrames DEF FreshFrames, Frame
    <3>2. QED
      BY <3>1, EmptySeq, OneInSeq
  <2>3. line' \in Seq(FreshFrames)
    <3>1. CASE ~late
      BY <2>2, <3>1, LineStep DEF Fresh
    <3>2. CASE Close
      <4>1. line' = <<>>
        BY <3>2 DEF Close
      <4>2. QED
        BY <4>1, EmptySeq
    <3>3. QED
      BY <1>0, <3>1, <3>2
  <2>4. msg_length' > 0 /\ phase' # "closed" => from'.to = exchange
    <3>1. CASE Receive
      BY <3>1, <1>0, HeadTailProperties DEF Receive, Waiting, Fresh, FreshFrames, TypeOK
    <3>2. CASE UNCHANGED <<msg_length, from>> /\ ~late /\ phase # "closed"
      BY <3>2 DEF Fresh
    <3>3. CASE phase' = "closed"
      BY <3>3
    <3>4. CASE UNCHANGED vars
      BY <3>4 DEF vars, message, Fresh
    <3>5. QED
      BY <1>0, <1>2, <3>1, <3>2, <3>3, <3>4
         DEF Next, Driver, message, Send, Close, Timeout, ReadFails, StepFunction,
             StepFile, StepMeta, StepData, StepCrc, Confirm, Proceed, Waiting, At
  <2>5. phase' = "closed" => line' = <<>>
    <3>1. CASE Close
      BY <3>1 DEF Close
    <3>2. CASE phase' # "closed"
      BY <3>2
    <3>3. CASE UNCHANGED vars
      BY <3>3 DEF vars, Fresh
    <3>4. QED
      BY <1>2, <3>1, <3>2, <3>3
         DEF Next, Driver, Send, Receive, Timeout, ReadFails, StepFunction, StepFile,
             StepMeta, StepData, StepCrc, Confirm, Proceed, Fail, Waiting, At
  <2>6. QED
    BY <2>1, <2>3, <2>4, <2>5
<1>3. QED
  BY <1>1, <1>2

Verdicts == Fresh /\ ConfirmedIsAnswer /\ SoundAnswerConfirmed

LEMMA VerdictsInit == Init => Verdicts
  BY FreshInit DEF Init, Verdicts, ConfirmedIsAnswer, SoundAnswerConfirmed

LEMMA ConfirmedStep ==
  TypeOK /\ MessageInv /\ Verdicts /\ [Next]_vars => ConfirmedIsAnswer'
<1> SUFFICES ASSUME TypeOK, MessageInv, Verdicts, [Next]_vars PROVE ConfirmedIsAnswer'
  OBVIOUS
<1>1. CASE Confirm /\ phase' = "fine"
  <2>1. /\ Sound /\ msg_length = from.size /\ step = "ok"
        /\ msg_length = Around + DataLength(request) /\ function = ResponseOf(request)
    BY <1>1 DEF Confirm, CrcMatches, At, Fail
  <2>2. from.function = ResponseOf(request) /\ from.sound
    BY <2>1 DEF MessageInv, FunctionKnown, Sound
  <2>3. from.size = Around + from.len /\ from.len \in Nat
    BY <2>2 DEF MessageInv, GenuineFrames, Frames, ResponseOf, Responses
  <2>4. DataLength(request) \in Nat
    BY DsBusAssumption DEF TypeOK, Requests, DataLength
  <2>5. from.len = DataLength(request)
    <3>1. Around + from.len = Around + DataLength(request)
      BY <2>1, <2>3
    <3>2. \A a, b \in Nat : Around + a = Around + b => a = b
      BY Sizes
    <3>3. QED
      BY <2>3, <2>4, <3>1, <3>2
  <2>6. ~late => from.to = exchange
    <3>1. phase # "closed" /\ msg_length > 0
      BY <1>1, <2>1 DEF Confirm, At, MessageInv, Begun, TypeOK
    <3>2. QED
      BY <3>1 DEF Verdicts, Fresh
  <2>7. UNCHANGED <<from, request, exchange, late>>
    BY <1>1 DEF Confirm, message
  <2>8. QED
    BY <2>2, <2>5, <2>6, <2>7 DEF ConfirmedIsAnswer, IsAnswer, DataLength, ResponseOf
<1>2. CASE phase' # "fine"
  BY <1>2 DEF ConfirmedIsAnswer
<1>3. CASE UNCHANGED vars
  BY <1>3 DEF vars, message, Verdicts, ConfirmedIsAnswer, IsAnswer, DataLength, ResponseOf
<1>4. QED
  BY <1>1, <1>2, <1>3
     DEF Next, Driver, Connect, Send, Receive, Close, Timeout, ReadFails, StepFunction,
         StepFile, StepMeta, StepData, StepCrc, Proceed, Fail, Waiting, At

LEMMA RefusedStep ==
  TypeOK /\ BoundInv /\ MessageInv /\ Verdicts /\ [Next]_vars => SoundAnswerConfirmed'
<1> SUFFICES ASSUME TypeOK, BoundInv, MessageInv, Verdicts, [Next]_vars, phase' = "failed",
                    msg_length' > 0, Sound', IsAnswer(from, request)'
             PROVE  \/ errno' \in {"ETIMEDOUT", "ECONNRESET"}
                    \/ Prefix + from'.len > MaxAdu
  BY DEF SoundAnswerConfirmed
<1>1. CASE Connect
  BY <1>1 DEF Connect
<1>2. CASE Send
  BY <1>2 DEF Send, BoundInv, NothingYet, message
<1>3. CASE Timeout \/ ReadFails
  BY <1>3 DEF Timeout, ReadFails, Fail
<1>4. CASE StepFunction \/ StepMeta \/ Confirm
  <2>1. UNCHANGED <<request, from, aligned, msg_length>>
    BY <1>4 DEF StepFunction, StepMeta, Confirm, Proceed, message
  <2>2. phase = "receive" /\ length_to_read = 0
    BY <1>4 DEF StepFunction, StepMeta, Confirm, At
  <2>3. Sound /\ IsAnswer(from, request) /\ from.function \in Responses
    BY <2>1 DEF Sound, IsAnswer, Responses, ResponseOf, DataLength
  <2>4. from.len \in Nat /\ from.size = Around + from.len
    BY <2>3 DEF MessageInv, GenuineFrames, Sound, Frames
  <2>5. CASE StepFunction
    BY <2>2, <2>3, <2>5 DEF StepFunction, Proceed, Responses
  <2>6. CASE StepMeta
    <3>1. step = "meta" /\ function = from.function
      BY <2>3, <2>6 DEF StepMeta, At, MessageInv, FunctionKnown
    <3>2. msg_length = Prefix
      BY <2>2, <2>3, <3>1 DEF MessageInv, InStep, Expected, TypeOK
    <3>3. DataLengths = {from.len}
      BY <2>3, <3>1 DEF DataLengths, Responses, MessageInv, GenuineFrames, Sound
    <3>4. \E len \in DataLengths : msg_length + len > MaxAdu
      BY <2>2, <2>6 DEF StepMeta, Proceed
    <3>5. QED
      BY <2>1, <3>2, <3>3, <3>4
  <2>7. CASE Confirm
    <3>1. step = "ok" /\ function = from.function
      BY <2>3, <2>7 DEF Confirm, At, MessageInv, FunctionKnown
    <3>2. msg_length = Around + from.len
      BY <2>2, <2>3, <3>1 DEF MessageInv, InStep, Expected, TypeOK
    <3>3. phase' = "fine"
      BY <2>3, <2>4, <2>7, <3>1, <3>2 DEF Confirm, CrcMatches, IsAnswer
    <3>4. QED
      BY <3>3
  <2>8. QED
    BY <1>4, <2>5, <2>6, <2>7
<1>5. CASE UNCHANGED vars
  BY <1>5 DEF vars, message, Verdicts, SoundAnswerConfirmed, Sound, IsAnswer, DataLength,
     ResponseOf
<1>6. QED
  BY <1>1, <1>2, <1>3, <1>4, <1>5
     DEF Next, Driver, Receive, Close, StepFile, StepData, StepCrc, Proceed, Waiting, At

IInv == TypeOK /\ BoundInv /\ MessageInv /\ Verdicts

LEMMA DsBusInvariant == Spec => []IInv
<1>1. Init => IInv
  BY DsBusTypeInit, BoundInit, MessageInit, VerdictsInit DEF IInv
<1>2. IInv /\ [Next]_vars => IInv'
  BY DsBusTypeStep, BoundStep, MessageStep, FreshStep, ConfirmedStep, RefusedStep
     DEF IInv, Verdicts
<1>3. QED
  BY <1>1, <1>2, PTL DEF Spec

\* check_confirmation() lets an answer pass only if the device gave it, with the
\* function and the length of this request; without bytes that outlive a close it
\* is the answer to this exchange.
THEOREM ConfirmedIsAlwaysAnswer == Spec => []ConfirmedIsAnswer
<1>1. IInv => ConfirmedIsAnswer
  BY DEF IInv, Verdicts
<1>2. QED
  BY <1>1, DsBusInvariant, PTL

\* receive_msg() and check_confirmation() refuse no sound and complete answer
\* whose data fit.
THEOREM SoundAnswerAlwaysConfirmed == Spec => []SoundAnswerConfirmed
<1>1. IInv => SoundAnswerConfirmed
  BY DEF IInv, Verdicts
<1>2. QED
  BY <1>1, DsBusInvariant, PTL
==============================================================================
