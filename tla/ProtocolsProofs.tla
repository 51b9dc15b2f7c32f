---------------------------- MODULE ProtocolsProofs ----------------------------
(* Theorems about the five drivers that take turns on a line, for every set of *)
(* register numbers, every size of a buffer, any garbage in a length field and *)
(* every selection of line faults.                                             *)
EXTENDS Protocols, SequenceTheorems, TLAPS

------------------------------------------------------------------------------
(* The line, whichever driver is on it                                       *)

Frames == [function : Functions, len : Nat, head : Nat, inner : Nat, size : Nat,
           clean : BOOLEAN, sound : BOOLEAN, to : Nat]
\* A sound frame belongs to the present exchange.
FreshFrames == {f \in Frames : f.sound => f.to = exchange}


AllRequests ==
  UNION {Requests, ModbusR!Requests, DsBusR!Requests, Meter!Requests, MeterR!Requests}

LineTypes ==
  /\ request \in [kind : {"read", "write", "ir"}, num : Nat]
  /\ exchange \in Nat
  /\ step \in Steps /\ function \in Functions
  /\ length_to_read \in Nat /\ msg_length \in Nat /\ start \in Nat
  /\ consumed \in Nat

\* A port just opened is quiet.
Quiet ==
  /\ phase \in {"closed", "open"} => line = <<>>
  /\ phase = "open" =>
       step = "function" /\ length_to_read = 0 /\ msg_length = 0 /\ start = 0

Fresh == line \in Seq(FreshFrames) /\ from \in FreshFrames

LineInv == LineTypes /\ Quiet /\ Fresh

------------------------------------------------------------------------------
(* How far the message of each driver may reach, and how far a sound answer  *)
(* has come                                                                  *)

\* modbus: a sound answer has the length that follows from the request.
ModbusFrames ==
  {f \in FreshFrames : f.sound /\ IsAnswer(f, request) => f.inner = ResponseLength(request)}

ModbusReach == CASE step = "function" -> 2 [] step = "meta" -> 6 [] OTHER -> MaxAdu

ModbusExpected == CASE step = "function" -> 2
                    [] step = "meta"     -> 2 + MetaLength(request.kind)
                    [] OTHER             -> ResponseLength(request)

ModbusInv ==
  /\ request.kind \in {"read", "write"}
  /\ msg_length + length_to_read <= ModbusReach
  /\ line \in Seq(ModbusFrames) /\ from \in ModbusFrames
  /\ IF step = "function" THEN phase = "receive" => msg_length + length_to_read = 2
                          ELSE msg_length >= 2
  /\ step # "function" /\ Sound => function = from.function
  /\ phase = "receive" /\ Sound /\ IsAnswer(from, request) =>
       msg_length + length_to_read = ModbusExpected
  /\ ConfirmedIsAnswer /\ SoundAnswerConfirmed

\* modbus_router: besides, the head of a sound answer is the router header.
ModbusRFrames ==
  {f \in FreshFrames : f.sound /\ ModbusR!IsAnswer(f, request) =>
                    f.inner = ModbusR!ResponseLength(request) /\ f.head = RouterHeader}

ModbusRReach == CASE step = "router_header" -> RouterHeader
                  [] step = "function"      -> 2
                  [] step = "meta"          -> 6
                  [] step = "crc"           -> MaxAduOf["modbus_router"]
                  [] OTHER                  -> MaxAduOf["modbus_router"] + 2

ModbusRExpected == CASE step = "meta" -> 3
                     [] step = "crc"  -> 5 + 2 * request.num
                     [] OTHER         -> 7 + 2 * request.num

ModbusRInv ==
  /\ request.kind \in {"read", "write"}
  /\ msg_length + length_to_read <= ModbusRReach
  /\ line \in Seq(ModbusRFrames) /\ from \in ModbusRFrames
  /\ phase = "receive" =>
       /\ IF step = "router_header" THEN start = 0 ELSE start = RouterHeader
       /\ step = "router_header" => msg_length + length_to_read = RouterHeader
       /\ step = "function" => msg_length + length_to_read = 2
  /\ phase = "receive" /\ step \notin {"router_header", "function"} /\ Sound =>
       function = from.function
  /\ /\ phase = "receive" /\ step \notin {"router_header", "function"}
     /\ Sound /\ ModbusR!IsAnswer(from, request) /\ request.kind = "read"
     => msg_length + length_to_read = ModbusRExpected
  /\ ModbusR!SoundReadConfirmed

\* ds_bus_router: the length of a sound response agrees with its function.
DsBusRFrames ==
  {f \in FreshFrames : f.sound =>
     /\ f.function \in DsBusR!Responses =>
          /\ f.inner = 11 + f.len + DsBusR!CrcLength(f.function)
          /\ f.function # "read" => f.len = 2
     /\ f.head = RouterHeader}

DsBusRReach == CASE step = "router_header"   -> RouterHeader
                 [] step = "function"        -> 2
                 [] step = "file"            -> 4
                 [] step = "meta"            -> 11
                 [] step \in {"data", "crc"} -> MaxAduOf["ds_bus_router"]
                 [] OTHER                    -> MaxAduOf["ds_bus_router"] + 4

DsBusRExpected == CASE step = "file"            -> 4
                    [] step = "meta"            -> 11
                    [] step \in {"data", "crc"} -> 11 + from.len
                    [] OTHER                    -> 11 + from.len + DsBusR!CrcLength(from.function)

DsBusRInv ==
  /\ msg_length + length_to_read <= DsBusRReach
  /\ line \in Seq(DsBusRFrames) /\ from \in DsBusRFrames
  /\ phase = "receive" =>
       /\ IF step = "router_header" THEN start = 0 ELSE start = RouterHeader
       /\ step = "router_header" => msg_length + length_to_read = RouterHeader
       /\ step = "function" => msg_length + length_to_read = 2
  /\ phase = "receive" /\ step \notin {"router_header", "function"} /\ Sound =>
       function = from.function
  /\ /\ phase = "receive" /\ step \notin {"router_header", "function"}
     /\ Sound /\ from.function \in DsBusR!Responses
     => msg_length + length_to_read = DsBusRExpected
  /\ DsBusR!ConfirmedIsAnswer /\ DsBusR!SoundAnswerConfirmed

\* dlt645: with one byte of preamble the data of a read are where the driver looks.
MeterFrames ==
  {f \in FreshFrames : f.sound /\ Meter!IsAnswer(f, request) => f.inner = 12 + f.len}

MeterExpected == CASE step = "data" -> 11
                   [] step = "sum"  -> 11 + from.len
                   [] OTHER         -> 13 + from.len

MeterInv ==
  /\ request.kind \in {"read", "write"}
  /\ line \in Seq(MeterFrames) /\ from \in MeterFrames
  /\ phase = "receive" =>
       IF step = "data" THEN msg_length + length_to_read = 11 ELSE msg_length > 0
  /\ phase = "receive" /\ Meter!InPlace /\ Meter!IsAnswer(from, request) =>
       msg_length + length_to_read = MeterExpected
  /\ Meter!SoundReadConfirmed

\* dlt645_router: the bytes of preamble are counted one by one.
MeterRFrames ==
  {f \in FreshFrames : f.sound /\ MeterR!IsAnswer(f, request) =>
                    f.inner = 12 + f.len /\ f.head >= RouterHeader}

MeterRExpected == CASE step = "data" -> 10
                    [] step = "sum"  -> 10 + from.len
                    [] OTHER         -> 12 + from.len

Answering == Clean /\ Sound /\ MeterR!IsAnswer(from, request)

MeterRInv ==
  /\ request.kind \in {"read", "write"} /\ head_pre_count \in Nat
  /\ line \in Seq(MeterRFrames) /\ from \in MeterRFrames
  /\ phase = "receive" =>
       /\ step = "router_header" =>
            start = 0 /\ msg_length + length_to_read = RouterHeader /\ head_pre_count = 0
       /\ step = "header" => msg_length + length_to_read = 1 /\ start = RouterHeader + head_pre_count
       /\ step # "router_header" => start > 0
  /\ phase = "receive" /\ Answering =>
       /\ step = "header" => start <= from.head
       /\ step \notin {"router_header", "header"} =>
            /\ start = from.head /\ head_pre_count = start - RouterHeader + 1
            /\ msg_length + length_to_read = MeterRExpected
  /\ MeterR!SoundAnswerConfirmed

DriverInv ==
  /\ head_pre_count \in Nat
  /\ protocol = "modbus" => ModbusInv
  /\ protocol = "modbus_router" => ModbusRInv
  /\ protocol = "ds_bus_router" => DsBusRInv
  /\ protocol = "dlt645" => MeterInv
  /\ protocol = "dlt645_router" => MeterRInv

IInv == LineInv /\ DriverInv
------------------------------------------------------------------------------
(* The steps of a driver, whichever it is                                    *)

\* A request is refused, or lost on its way, or sent: the device answers with frames of S,
\* and n bytes are asked for.
Sent(S, first, n) ==
  /\ phase = "open"
  /\ \/ phase' = "failed" /\ UNCHANGED <<step, length_to_read, line>>
     \/ /\ phase' = "receive" /\ step' = first /\ length_to_read' = n
        /\ \E answer \in Seq(S) : line' = line \o answer
  /\ UNCHANGED <<request, exchange, msg_length, start, function, from, aligned, consumed>>

Sends == \E first \in Steps, n \in Nat : Sent(FreshFrames, first, n)

\* The bytes asked for have come: more are asked for, or the message is refused.
Advances ==
  /\ phase = "receive" /\ length_to_read = 0 /\ phase' \in {"receive", "failed"}
  /\ step' \in Steps /\ function' \in Functions /\ length_to_read' \in Nat
  /\ msg_length' \in Nat /\ start' \in Nat
  /\ UNCHANGED <<request, exchange, from, aligned, line, consumed>>

\* Reception ends, with success only after a sound frame.
Ends ==
  /\ phase = "receive" /\ (phase' = "failed" \/ (phase' = "fine" /\ from.sound))
  /\ UNCHANGED <<request, exchange, message, line, consumed>>

DriverStep == Sends \/ Receive \/ Advances \/ Ends \/ Close

LEMMA OneInSeq ==
  ASSUME NEW S, NEW e \in S
  PROVE  <<e>> \in Seq(S)
  OBVIOUS

LEMMA NoFrameInFrames == NoFrame \in FreshFrames /\ ~NoFrame.sound
<1>1. NoFrame \in Frames /\ ~NoFrame.sound
  BY DEF NoFrame, Frames, Functions
<1>2. QED
  BY <1>1 DEF FreshFrames

\* Frames only come from the device and leave from the front, and only the first byte of
\* a message sets its frame.
LEMMA ReceivedFrom ==
  ASSUME NEW S, line \in Seq(S), from \in S, Receive
  PROVE  line' \in Seq(S) /\ from' \in S
<1>1. Head(line) \in S /\ Tail(line) \in Seq(S)
  BY HeadTailProperties DEF Receive
<1>2. line' = line \/ line' = Tail(line)
  BY Zenon DEF Receive
<1>3. from' = from \/ from' = Head(line)
  BY Zenon DEF Receive
<1>4. QED
  BY <1>1, <1>2, <1>3

\* What a step of a driver does to the line, if the device writes frames of S.
LineMove(S) ==
  /\ \/ UNCHANGED line
     \/ line' = <<>>
     \/ \E answer \in Seq(S) : line' = line \o answer
  /\ UNCHANGED from

LEMMA MovedFrames ==
  ASSUME NEW S, line \in Seq(S), from \in S, Receive \/ LineMove(S)
  PROVE  line' \in Seq(S) /\ from' \in S
<1>1. CASE Receive
  BY <1>1, ReceivedFrom
<1>2. CASE LineMove(S)
  BY <1>2, EmptySeq, ConcatProperties DEF LineMove
<1>3. QED
  BY <1>1, <1>2

LEMMA ReceiveTypes ==
  ASSUME LineTypes, Receive
  PROVE  /\ length_to_read' \in Nat /\ msg_length' \in Nat /\ consumed' \in Nat
         /\ msg_length' + length_to_read' = msg_length + length_to_read
         /\ msg_length' > msg_length
<1>1. PICK n \in 1 .. length_to_read :
        /\ msg_length' = msg_length + n /\ length_to_read' = length_to_read - n
        /\ consumed' = 0 \/ consumed' = consumed + n
  BY Zenon DEF Receive
<1>2. QED
  BY <1>1 DEF LineTypes

LEMMA SentMoves ==
  ASSUME NEW S, NEW first, NEW n, Sent(S, first, n)
  PROVE  LineMove(S)
  BY DEF Sent, LineMove

LEMMA SentIsSends ==
  ASSUME NEW S, S \subseteq FreshFrames, NEW first \in Steps, NEW n \in Nat,
         Sent(S, first, n)
  PROVE  Sends
<1>1. CASE phase' = "failed" /\ UNCHANGED <<step, length_to_read, line>>
  BY <1>1 DEF Sends, Sent
<1>2. CASE \E answer \in Seq(S) : line' = line \o answer
  <2>1. PICK answer \in Seq(S) : line' = line \o answer
    BY <1>2
  <2>2. answer \in Seq(FreshFrames)
    <3>1. \A k \in 1 .. Len(answer) : answer[k] \in FreshFrames
      BY ElementOfSeq
    <3>2. QED
      BY <3>1, <2>1, SeqDef, LenProperties
  <2>3. QED
    BY <2>1, <2>2 DEF Sends, Sent
<1>3. QED
  BY <1>1, <1>2 DEF Sent

LEMMA DriverStepKeepsLine ==
  ASSUME LineInv, DriverStep
  PROVE  LineInv' /\ exchange' = exchange /\ request' = request /\ FreshFrames' = FreshFrames
<1>1. exchange' = exchange /\ request' = request
  BY DEF DriverStep, Sends, Sent, Receive, Advances, Ends, Close, message
<1>2. FreshFrames' = FreshFrames
  BY <1>1 DEF FreshFrames, Frames
<1>3. LineTypes'
  <2>1. CASE Receive
    <3>1. UNCHANGED <<request, exchange, step, start, function>>
      BY <2>1 DEF Receive
    <3>2. QED
      BY <2>1, <3>1, ReceiveTypes DEF LineInv, LineTypes
  <2>2. CASE Sends \/ Advances \/ Ends
    BY <2>2 DEF Sends, Sent, Advances, Ends, message, LineInv, LineTypes
  <2>3. CASE Close
    BY <2>3 DEF Close, message, LineInv, LineTypes
  <2>4. QED
    BY <2>1, <2>2, <2>3 DEF DriverStep
<1>4. Quiet'
  BY DEF DriverStep, Sends, Sent, Receive, Waiting, Advances, Ends, Close, message,
     LineInv, Quiet
<1>5. Fresh'
  <2>1. Receive \/ LineMove(FreshFrames)
    BY DEF DriverStep, Sends, Sent, Advances, Ends, Close, message, LineMove
  <2>2. QED
    BY <1>2, <2>1, MovedFrames DEF LineInv, Fresh
<1>6. QED
  BY <1>1, <1>2, <1>3, <1>4, <1>5 DEF LineInv

------------------------------------------------------------------------------
(* Requests and answers                                                      *)

RequestType == [kind : {"read", "write", "ir"}, num : Nat]

LEMMA RequestSet ==
  ASSUME NEW k \in {"read", "write", "ir"}, NEW nums \in SUBSET Nat
  PROVE  [kind : {k}, num : nums] \subseteq RequestType
  BY DEF RequestType

LEMMA RequestTypes == AllRequests \subseteq RequestType
<1>1. /\ [kind : {"read"}, num : Nums] \subseteq RequestType
      /\ [kind : {"write"}, num : Nums] \subseteq RequestType
      /\ [kind : {"ir"}, num : {n + 2 : n \in Nums}] \subseteq RequestType
  <2>1. Nums \in SUBSET Nat /\ {n + 2 : n \in Nums} \in SUBSET Nat
    BY RtuLineAssumption
  <2>2. QED
    BY <2>1, RequestSet
<1>2. \A n \in {0, 1, 4} : [kind : {"write"}, num : {n}] \subseteq RequestType
  <2>1. \A n \in {0, 1, 4} : {n} \in SUBSET Nat
    OBVIOUS
  <2>2. QED
    BY <2>1, RequestSet
<1>3. Requests \subseteq RequestType
  BY <1>1, <1>2 DEF Requests, ReadRequests, WriteRequests, RelayRequests, Request
<1>4. ModbusR!Requests \subseteq RequestType
  BY <1>1, <1>2 DEF ModbusR!Requests, ModbusR!ReadRequests, ModbusR!WriteRequests,
     ModbusR!RelayOn, ModbusR!RelayOff, ModbusR!Request
<1>5. DsBusR!Requests \subseteq RequestType
  BY <1>1, <1>2
     DEF DsBusR!Requests, DsBusR!ReadRequests, DsBusR!WriteRequests, DsBusR!SwitchOff,
         DsBusR!PermissionLedClear, DsBusR!RelayOff, DsBusR!SendIrCmd, DsBusR!Request
<1>6. Meter!Requests \subseteq RequestType
  BY <1>1, <1>2
     DEF Meter!Requests, Meter!ReadRequests, Meter!RelayOn, Meter!RelayOff, Meter!Request
<1>7. MeterR!Requests \subseteq RequestType
  BY <1>1, <1>2 DEF MeterR!Requests, MeterR!ReadRequests, MeterR!RelayOn, MeterR!RelayOff,
     MeterR!Request
<1>8. QED
  BY <1>3, <1>4, <1>5, <1>6, <1>7 DEF AllRequests

\* Whichever driver opens the port, the request is one of its own.
LEMMA Opens ==
  ASSUME Open
  PROVE  Connect(AllRequests)
<1>1. \E rs \in {Requests, ModbusR!Requests, DsBusR!Requests, Meter!Requests,
                 MeterR!Requests} : Connect(rs)
  BY DEF Open, Connect, Fail,
     ModbusR!Opening, ModbusR!Connect, ModbusR!Fail, ModbusR!NoFrame,
     DsBusR!Opening, DsBusR!Connect, DsBusR!Fail, DsBusR!NoFrame,
     Meter!Opening, Meter!Connect, Meter!Fail, Meter!NoFrame,
     MeterR!Opening, MeterR!Connect, MeterR!Fail, MeterR!NoFrame, NoFrame
<1>2. QED
  BY <1>1 DEF Connect, AllRequests

LEMMA OpenKeepsLine ==
  ASSUME LineInv, Open
  PROVE  LineInv'
<1>1. Connect(AllRequests)
  BY Opens
<1>2. LineTypes'
  BY <1>1, RequestTypes DEF Connect, LineInv, LineTypes, Steps, Functions, RequestType
<1>3. line' = <<>> /\ from' = NoFrame
  BY <1>1 DEF Connect, LineInv, Quiet
<1>4. Quiet'
  BY <1>1, <1>3 DEF Connect, Quiet
<1>5. Fresh'
  <2>1. NoFrame \in FreshFrames'
    BY NoFrameInFrames DEF FreshFrames, NoFrame, Frames
  <2>2. QED
    BY <1>3, <2>1, EmptySeq DEF Fresh
<1>6. QED
  BY <1>2, <1>4, <1>5 DEF LineInv

LEMMA LineInit == ProtocolsInit => LineInv
<1> SUFFICES ASSUME ProtocolsInit PROVE LineInv
  OBVIOUS
<1>1. request \in AllRequests
  BY DEF ProtocolsInit, Init, InitLine, AllRequests
<1>2. QED
  BY <1>1, RequestTypes, EmptySeq, NoFrameInFrames
     DEF ProtocolsInit, Init, InitLine, LineInv, LineTypes, Quiet, Fresh, Steps, Functions,
         RequestType

\* A set of frames that is closed under what the line may do to them.
Closed(S) ==
  /\ S \subseteq FreshFrames
  /\ \A f \in FreshFrames : ~f.sound => f \in S
  /\ \A f \in S : [f EXCEPT !.clean = FALSE] \in S

LEMMA DamagedFrame ==
  ASSUME NEW a \in Frames, NEW n \in Nat
  PROVE  /\ [a EXCEPT !.clean = FALSE, !.sound = FALSE, !.size = n] \in FreshFrames
         /\ ~[a EXCEPT !.clean = FALSE, !.sound = FALSE, !.size = n].sound
<1> DEFINE d == [a EXCEPT !.clean = FALSE, !.sound = FALSE, !.size = n]
<1>1. d \in Frames /\ d.sound = FALSE
  BY DEF Frames
<1>2. QED
  BY <1>1 DEF FreshFrames

LEMMA UncleanFrame ==
  ASSUME NEW a \in Frames
  PROVE  LET u == [a EXCEPT !.clean = FALSE]
         IN  /\ u \in Frames /\ u.function = a.function /\ u.len = a.len
             /\ u.head = a.head /\ u.inner = a.inner /\ u.sound = a.sound /\ u.to = a.to
  BY DEF Frames

LEMMA ForeignFrame ==
  ASSUME NEW a \in FreshFrames
  PROVE  /\ Foreign(a) \in FreshFrames /\ Foreign(a).function = "other"
         /\ Foreign(a).head = a.head
<1>1. /\ Foreign(a) \in Frames /\ Foreign(a).function = "other"
      /\ Foreign(a).head = a.head
      /\ Foreign(a).sound = a.sound /\ Foreign(a).to = a.to
  BY DEF Foreign, Frames, FreshFrames, Functions
<1>2. QED
  BY <1>1 DEF FreshFrames

LEMMA NewFrame ==
  ASSUME exchange \in Nat, NEW f \in Functions, NEW len \in Nat, NEW head \in Nat,
         NEW inner \in Nat, NEW tail \in Nat
  PROVE  /\ Frame(f, len, head, inner, tail) \in FreshFrames
         /\ Frame(f, len, head, inner, tail).function = f
         /\ Frame(f, len, head, inner, tail).len = len
         /\ Frame(f, len, head, inner, tail).head = head
         /\ Frame(f, len, head, inner, tail).inner = inner
<1> DEFINE g == Frame(f, len, head, inner, tail)
<1>1. head + inner + tail \in Nat
  OBVIOUS
<1>2. /\ g \in Frames /\ g.function = f /\ g.len = len /\ g.head = head /\ g.inner = inner
      /\ g.to = exchange
  BY <1>1 DEF Frame, Frames
<1>3. QED
  BY <1>2 DEF FreshFrames

\* Whatever the device sends and the line does to it.
LEMMA AnswersIn ==
  ASSUME NEW S, Closed(S), NEW a \in S, NEW r \in S, NEW others \in SUBSET S
  PROVE  Answers(a, r, others) \subseteq Seq(S)
<1>1. a \in Frames /\ a.size \in Nat
  BY DEF Closed, FreshFrames, Frames
<1>2. [a EXCEPT !.clean = FALSE] \in S
  BY DEF Closed
<1>3. \A n \in Nat : [a EXCEPT !.clean = FALSE, !.sound = FALSE, !.size = n] \in S
  BY <1>1, DamagedFrame DEF Closed
<1>4. \A n \in 1 .. a.size : n \in Nat
  BY <1>1
<1> SUFFICES ASSUME NEW answer \in Answers(a, r, others)
             PROVE  answer \in Seq(S)
  OBVIOUS
<1>5. \/ answer = <<>>
      \/ \E f \in S : answer = <<f>>
  BY <1>2, <1>3, <1>4, Zenon DEF Answers
<1>6. QED
  BY <1>5, EmptySeq, OneInSeq

LEMMA SendMsgSends ==
  ASSUME NEW S, NEW kind, NEW allowed, NEW answers, answers \subseteq Seq(S),
         NEW first, NEW n, SendMsg(kind, allowed, answers, first, n)
  PROVE  /\ Sent(S, first, n) /\ request.kind = kind
         /\ phase' = "receive" => allowed
         /\ phase' = "failed" => errno' \in {"EMBMDATA", "write", "EMBBADDATA"}
  BY DEF SendMsg, Sent, Fail, message

------------------------------------------------------------------------------
(* modbus                                                                    *)

LEMMA ModbusSizes ==
  /\ header_length = 1 /\ checksum_length = 2 /\ ToFunction = 2 /\ ExceptionLength = 5
  /\ MetaLength("write") = 4 /\ MetaLength("read") = 1
  /\ \A f \in Functions : MetaLength(f) \in {1, 4}
  /\ MaxAdu \in Nat /\ MaxMessage \in Nat /\ 8 <= MaxAdu /\ MaxAdu <= MaxMessage
<1>1. header_length = 1 /\ checksum_length = 2 /\ ToFunction = 2 /\ ExceptionLength = 5
  BY DEF header_length, checksum_length, ToFunction, ExceptionLength
<1>2. MetaLength("write") = 4 /\ MetaLength("read") = 1
  BY DEF MetaLength
<1>3. \A f \in Functions : MetaLength(f) \in {1, 4}
  BY DEF MetaLength
<1>4. QED
  BY <1>1, <1>2, <1>3, ModbusAssumption, RtuLineAssumption

\* What the lengths of an answer are.
LEMMA ModbusLengths ==
  ASSUME LineTypes, request.kind \in {"read", "write"}
  PROVE  /\ request.num \in Nat
         /\ request.kind = "read" => /\ DataLength(request) = 2 * request.num
                                     /\ ResponseLength(request) = 5 + 2 * request.num
         /\ request.kind = "write" => /\ DataLength(request) = 0
                                      /\ ResponseLength(request) = 8
         /\ ResponseLength(request) \in Nat /\ DataLength(request) \in Nat
<1>1. request.num \in Nat
  BY DEF LineTypes
<1>2. QED
  BY <1>1, ModbusSizes DEF ResponseLength, DataLength

LEMMA ModbusClosed == Closed(ModbusFrames)
<1>1. ModbusFrames \subseteq FreshFrames
  BY DEF ModbusFrames
<1>2. \A f \in FreshFrames : ~f.sound => f \in ModbusFrames
  BY DEF ModbusFrames
<1>3. ASSUME NEW f \in ModbusFrames
      PROVE  [f EXCEPT !.clean = FALSE] \in ModbusFrames
  <2> DEFINE u == [f EXCEPT !.clean = FALSE]
  <2>1. /\ u \in Frames /\ u.function = f.function /\ u.len = f.len
        /\ u.head = f.head /\ u.inner = f.inner /\ u.sound = f.sound /\ u.to = f.to
    BY UncleanFrame DEF ModbusFrames, FreshFrames
  <2> HIDE DEF u
  <2>2. u \in FreshFrames
    BY <2>1 DEF ModbusFrames, FreshFrames
  <2>3. IsAnswer(u, request) <=> IsAnswer(f, request)
    BY <2>1 DEF IsAnswer
  <2>4. u \in ModbusFrames
    BY <2>1, <2>2, <2>3 DEF ModbusFrames
  <2>5. QED
    BY <2>4 DEF u
<1>4. QED
  BY <1>1, <1>2, <1>3 DEF Closed

LEMMA ModbusAnswers ==
  ASSUME LineTypes, request.kind \in {"read", "write"}
  PROVE  DeviceAnswers \subseteq Seq(ModbusFrames)
<1>1. exchange \in Nat /\ request.kind \in Functions
  BY DEF Functions, LineTypes
<1>2. /\ Answer \in FreshFrames /\ Answer.function = request.kind
      /\ Answer.inner = ResponseLength(request) /\ Answer.len \in Nat
      /\ request.kind = "read" => Answer.len = DataLength(request)
  <2>1. ResponseLength(request) \in Nat /\ DataLength(request) \in Nat /\ request.num \in Nat
    BY ModbusLengths
  <2>2. CASE request.kind = "read"
    <3>1. Answer = Frame(request.kind, DataLength(request), 0, ResponseLength(request), 0)
      BY <2>2 DEF Answer
    <3>2. QED
      BY <1>1, <2>1, <3>1, NewFrame
  <2>3. CASE request.kind # "read"
    <3>1. Answer = Frame(request.kind, request.num, 0, ResponseLength(request), 0)
      BY <2>3 DEF Answer
    <3>2. QED
      BY <1>1, <2>1, <2>3, <3>1, NewFrame
  <2>4. QED
    BY <2>2, <2>3
<1>3. Answer \in ModbusFrames
  BY <1>2 DEF ModbusFrames
<1>4. Exception \in FreshFrames /\ Exception.function = "exception"
  <2>1. ExceptionLength \in Nat /\ "exception" \in Functions /\ exchange \in Nat
    BY ModbusSizes DEF Functions, LineTypes
  <2>2. QED
    BY <2>1, NewFrame DEF Exception
<1>5. \A f \in FreshFrames : f.function \notin {"read", "write"} => f \in ModbusFrames
  BY DEF ModbusFrames, IsAnswer
<1>6. Exception \in ModbusFrames /\ {Foreign(Exception), Foreign(Answer)} \subseteq ModbusFrames
  BY <1>2, <1>4, <1>5, ForeignFrame
<1>7. Longer \in ModbusFrames
  <2> DEFINE len == Answer.len + 2
             inner == Answer.size + 2
  <2>1. len \in Nat /\ inner \in Nat
    BY <1>2 DEF FreshFrames, Frames
  <2>2. /\ Longer \in FreshFrames /\ Longer.function = "read"
        /\ Longer.len = Answer.len + 2
    <3>1. "read" \in Functions /\ exchange \in Nat
      BY DEF Functions, LineTypes
    <3>2. Longer = Frame("read", len, 0, inner, 0)
      BY DEF Longer
    <3> HIDE DEF len, inner
    <3>3. Longer \in FreshFrames /\ Longer.function = "read" /\ Longer.len = len
      BY <2>1, <3>1, <3>2, NewFrame
    <3>4. QED
      BY <3>3 DEF len
  <2>3. ~IsAnswer(Longer, request)
    BY <1>2, <2>2 DEF IsAnswer
  <2>4. QED
    BY <2>2, <2>3 DEF ModbusFrames
<1>8. QED
  BY <1>3, <1>6, <1>7, ModbusClosed, AnswersIn DEF DeviceAnswers

LEMMA ModbusSends ==
  ASSUME LineInv, request.kind \in {"read", "write"}, SendRead \/ SendWrite
  PROVE  Sent(ModbusFrames, "function", 2)
  BY ModbusAnswers, ModbusSizes, SendMsgSends DEF SendRead, SendWrite, LineInv

LEMMA ModbusDataLengths ==
  ASSUME LineInv
  PROVE  DataLengths \subseteq Nat
<1>1. ShownLength \subseteq Nat
  BY RtuLineAssumption DEF ShownLength, LineInv, Fresh, FreshFrames, Frames
<1>2. QED
  BY <1>1 DEF DataLengths

\* What a step of the driver does, and what it does to the line.
LEMMA ModbusMoves ==
  ASSUME LineInv, request.kind \in {"read", "write"}, Driver
  PROVE  DriverStep /\ (Receive \/ LineMove(ModbusFrames))
<1>1. CASE SendRead \/ SendWrite
  <2>1. Sent(ModbusFrames, "function", 2) /\ "function" \in Steps /\ 2 \in Nat
    BY <1>1, ModbusSends DEF Steps
  <2>2. QED
    BY <2>1, SentIsSends, SentMoves, ModbusClosed DEF DriverStep, Closed
<1>2. CASE Receive
  BY <1>2 DEF DriverStep
<1>3. CASE Timeout \/ ReadFails
  <2>1. Ends
    BY <1>3 DEF Timeout, ReadFails, Waiting, Fail, Ends
  <2>2. QED
    BY <2>1 DEF DriverStep, Ends, LineMove, message
<1>4. CASE StepFunction
  <2>1. function' \in Functions
    BY <1>4 DEF StepFunction, LineInv, Fresh, FreshFrames, Frames
  <2>2. Advances
    BY <1>4, <2>1, ModbusSizes
       DEF StepFunction, At, Proceed, Advances, LineInv, LineTypes, Steps
  <2>3. QED
    BY <2>2 DEF DriverStep, Advances, LineMove
<1>5. CASE StepMeta
  <2>1. PICK len \in DataLengths :
          LET n == len + checksum_length
          IN  IF msg_length + n > MaxAdu THEN RefuseWith("EMBBADDATA") ELSE Proceed("ok", n)
    BY <1>5 DEF StepMeta
  <2>2. len + checksum_length \in Nat
    BY ModbusDataLengths, ModbusSizes
  <2>3. Advances
    BY <1>5, <2>1, <2>2
       DEF StepMeta, At, Proceed, RefuseWith, Rejected, Fail, Advances, LineInv, LineTypes,
           Steps
  <2>4. QED
    BY <2>3 DEF DriverStep, Advances, LineMove
<1>6. CASE Confirm
  <2>1. Ends
    BY <1>6 DEF Confirm, At, Conclude, Fail, CrcMatches, Sound, Ends
  <2>2. QED
    BY <2>1 DEF DriverStep, Ends, LineMove, message
<1>7. CASE Close
  BY <1>7 DEF DriverStep, Close, LineMove, message
<1>8. QED
  BY <1>1, <1>2, <1>3, <1>4, <1>5, <1>6, <1>7 DEF Driver

LEMMA ModbusOpens ==
  ASSUME LineInv, phase = "closed", Connect(Requests)
  PROVE  ModbusInv'
<1>1. /\ step' = "function" /\ length_to_read' = 0 /\ msg_length' = 0 /\ from' = NoFrame
      /\ request' \in Requests /\ phase' \in {"open", "failed"}
      /\ line' = <<>>
  BY DEF Connect, Fail, LineInv, Quiet
<1>2. request'.kind \in {"read", "write"}
  BY <1>1 DEF Requests, ReadRequests, WriteRequests, RelayRequests, Request
<1>3. ~Sound'
  BY <1>1, NoFrameInFrames DEF Sound, NoFrame
<1>4. NoFrame \in ModbusFrames' /\ line' \in Seq(ModbusFrames')
  <2>1. NoFrame \in FreshFrames'
    BY NoFrameInFrames DEF FreshFrames, Frames, NoFrame
  <2>2. QED
    BY <1>1, <2>1, NoFrameInFrames, EmptySeq DEF ModbusFrames
<1>5. ConfirmedIsAnswer' /\ SoundAnswerConfirmed'
  BY <1>1 DEF ConfirmedIsAnswer, SoundAnswerConfirmed
<1>6. QED
  BY <1>1, <1>2, <1>3, <1>4, <1>5 DEF ModbusInv, ModbusReach

\* Receiving more bytes keeps the frame of a message that has begun, and does not make it
\* sound or clean.
LEMMA KeptByReceive ==
  ASSUME LineTypes, Receive, start + msg_length # 0
  PROVE  from' = from /\ (Sound' => Sound) /\ (Clean' => Clean)
<1>1. from' = from
  BY DEF Receive
<1>2. aligned' => aligned
  BY Zenon DEF Receive
<1>3. QED
  BY <1>1, <1>2 DEF Sound, Clean

LEMMA ModbusStep ==
  ASSUME LineInv, ModbusInv, Driver
  PROVE  ModbusInv'
<1> DEFINE Begun == IF step = "function" THEN phase = "receive" => msg_length + length_to_read = 2
                                         ELSE msg_length >= 2
           Known == step # "function" /\ Sound => function = from.function
           Come == phase = "receive" /\ Sound /\ IsAnswer(from, request) =>
                     msg_length + length_to_read = ModbusExpected
           Fits == msg_length + length_to_read <= ModbusReach
<1>1. /\ msg_length \in Nat /\ length_to_read \in Nat /\ start \in Nat
      /\ Begun /\ Known /\ Come /\ Fits /\ ConfirmedIsAnswer /\ SoundAnswerConfirmed
      /\ request.kind \in {"read", "write"}
      /\ phase = "open" => step = "function" /\ length_to_read = 0 /\ msg_length = 0
  BY DEF LineInv, LineTypes, ModbusInv, Quiet
<1>2. DriverStep /\ (Receive \/ LineMove(ModbusFrames))
  BY <1>1, ModbusMoves
<1>3. /\ LineInv' /\ request' = request /\ ModbusFrames' = ModbusFrames
      /\ line' \in Seq(ModbusFrames') /\ from' \in ModbusFrames'
  <2>1. LineInv' /\ request' = request /\ FreshFrames' = FreshFrames
    BY <1>2, DriverStepKeepsLine
  <2>2. ModbusFrames' = ModbusFrames
    BY <2>1 DEF ModbusFrames, IsAnswer, ResponseLength, DataLength
  <2>3. QED
    BY <1>2, <2>1, <2>2, MovedFrames DEF ModbusInv
<1>4. from.len \in Nat /\ from.function \in Functions
  BY DEF LineInv, Fresh, FreshFrames, Frames
<1>5. Begun' /\ Known' /\ Come' /\ Fits' /\ ConfirmedIsAnswer' /\ SoundAnswerConfirmed'
  <2>1. CASE SendRead \/ SendWrite
    <3>1. Sent(ModbusFrames, "function", 2)
      BY <1>1, <2>1, ModbusSends
    <3>2. /\ UNCHANGED <<msg_length, function, from, aligned>> /\ step' = "function"
          /\ \/ phase' = "receive" /\ length_to_read' = 2
             \/ phase' = "failed" /\ length_to_read' = length_to_read
          /\ msg_length = 0 /\ length_to_read = 0
      BY <1>1, <3>1 DEF Sent
    <3>3. QED
      BY <3>2 DEF ModbusReach, ModbusExpected, ConfirmedIsAnswer, SoundAnswerConfirmed
  <2>2. CASE Receive
    <3>1. /\ phase = "receive" /\ phase' = "receive" /\ UNCHANGED <<step, function, request>>
          /\ msg_length' \in Nat /\ length_to_read' \in Nat
          /\ msg_length' + length_to_read' = msg_length + length_to_read
          /\ msg_length' > msg_length
      BY <2>2, ReceiveTypes DEF Receive, Waiting, LineInv
    <3>2. step # "function" => from' = from /\ (Sound' => Sound)
      BY <1>1, <2>2, KeptByReceive DEF LineInv
    <3>3. ModbusReach' = ModbusReach /\ ModbusExpected' = ModbusExpected
      BY <3>1 DEF ModbusReach, ModbusExpected, ResponseLength, DataLength
    <3>4. Begun'
      <4>1. CASE step = "function"
        BY <1>1, <3>1, <4>1
      <4>2. CASE step # "function"
        <5>1. msg_length >= 2
          BY <1>1, <4>2
        <5>2. msg_length' >= 2
          BY <1>1, <3>1, <5>1
        <5>3. QED
          BY <3>1, <4>2, <5>2
      <4>3. QED
        BY <4>1, <4>2
    <3>5. Known'
      BY <1>1, <3>1, <3>2
    <3>6. Come'
      <4>1. CASE step = "function"
        BY <1>1, <3>1, <4>1 DEF ModbusExpected
      <4>2. CASE step # "function"
        <5>1. from' = from /\ (Sound' => Sound)
          BY <3>2, <4>2
        <5>2. QED
          BY <1>1, <3>1, <3>3, <5>1 DEF IsAnswer, DataLength
      <4>3. QED
        BY <4>1, <4>2
    <3>7. Fits'
      BY <1>1, <3>1, <3>3
    <3>8. QED
      BY <3>1, <3>4, <3>5, <3>6, <3>7 DEF ConfirmedIsAnswer, SoundAnswerConfirmed, RefusedWhole
  <2>3. CASE Timeout \/ ReadFails
    <3>1. /\ UNCHANGED message /\ phase' = "failed" /\ errno' \in {"ETIMEDOUT", "ECONNRESET"}
          /\ phase = "receive"
      BY <2>3 DEF Timeout, ReadFails, Fail, Waiting
    <3>2. QED
      BY <1>1, <3>1
         DEF message, ModbusReach, Sound, ConfirmedIsAnswer, SoundAnswerConfirmed, RefusedWhole
  <2>4. CASE StepFunction
    <3>1. /\ phase = "receive" /\ phase' = "receive" /\ step = "function" /\ step' = "meta"
          /\ length_to_read = 0 /\ msg_length = 2
          /\ UNCHANGED <<msg_length, from, aligned>>
          /\ length_to_read' = MetaLength(function')
          /\ Sound => function' = from.function
      BY <1>1, <2>4 DEF StepFunction, At, Proceed
    <3>2. function' \in Functions
      BY <1>3 DEF LineInv, LineTypes
    <3>3. length_to_read' \in {1, 4}
      BY <3>1, <3>2, ModbusSizes
    <3>4. Come'
      BY <1>3, <3>1, <3>3 DEF Sound, IsAnswer, ModbusExpected
    <3>5. QED
      BY <3>1, <3>3, <3>4
         DEF Sound, ModbusReach, ConfirmedIsAnswer, SoundAnswerConfirmed, RefusedWhole
  <2>5. CASE StepMeta
    <3>1. PICK len \in DataLengths :
            LET n == len + checksum_length
            IN  IF msg_length + n > MaxAdu THEN RefuseWith("EMBBADDATA") ELSE Proceed("ok", n)
      BY <2>5 DEF StepMeta
    <3>2. len \in Nat /\ checksum_length = 2
      BY ModbusDataLengths, ModbusSizes
    <3>3. /\ phase = "receive" /\ step = "meta" /\ length_to_read = 0 /\ msg_length >= 2
          /\ UNCHANGED <<msg_length, from, aligned, function>>
          /\ \/ /\ msg_length + (len + 2) > MaxAdu /\ phase' = "failed"
                /\ UNCHANGED <<step, length_to_read>>
             \/ /\ ~(msg_length + (len + 2) > MaxAdu) /\ phase' = "receive"
                /\ step' = "ok" /\ length_to_read' = len + 2
      BY <1>1, <2>5, <3>1, <3>2 DEF StepMeta, At, Proceed, RefuseWith, Rejected, Fail
    <3>4. ASSUME Sound, IsAnswer(from, request)
          PROVE  msg_length + (len + 2) = ResponseLength(request)
      <4>1. function = from.function /\ from.function = request.kind
        BY <1>1, <3>3, <3>4 DEF IsAnswer
      <4>2. msg_length = 2 + MetaLength(request.kind)
        BY <1>1, <3>3, <3>4 DEF ModbusExpected
      <4>3. CASE request.kind = "read"
        <5>1. len = DataLength(request)
          BY <3>1, <3>4, <4>1, <4>3 DEF DataLengths, ShownLength, IsAnswer
        <5>2. QED
          BY <3>2, <4>2, <4>3, <5>1, ModbusSizes, ModbusLengths DEF LineInv
      <4>4. CASE request.kind = "write"
        <5>1. len = 0
          BY <3>1, <4>1, <4>4 DEF DataLengths
        <5>2. QED
          BY <4>2, <4>4, <5>1, ModbusSizes, ModbusLengths DEF LineInv
      <4>5. QED
        BY <1>1, <4>3, <4>4
    <3>5. Fits'
      BY <1>1, <3>2, <3>3, ModbusSizes DEF ModbusReach
    <3>6. Come'
      <4>1. ASSUME phase' = "receive", Sound', IsAnswer(from', request')
            PROVE  msg_length' + length_to_read' = ModbusExpected'
        <5>1. Sound /\ IsAnswer(from, request)
          BY <1>3, <3>3, <4>1 DEF Sound, IsAnswer, DataLength
        <5>2. ModbusExpected' = ResponseLength(request)
          BY <1>3, <3>3, <4>1 DEF ModbusExpected, ResponseLength, DataLength
        <5>3. QED
          BY <1>1, <3>3, <3>4, <4>1, <5>1, <5>2
      <4>2. QED
        BY <4>1 DEF IsAnswer
    <3>7. SoundAnswerConfirmed'
      <4>1. ASSUME phase' = "failed", Sound', IsAnswer(from', request')
            PROVE  from'.inner > MaxAdu
        <5>1. Sound /\ IsAnswer(from, request)
          BY <1>3, <3>3, <4>1 DEF Sound, IsAnswer, DataLength
        <5>2. from.inner = ResponseLength(request)
          BY <5>1 DEF ModbusInv, ModbusFrames, Sound
        <5>3. QED
          BY <3>3, <3>4, <4>1, <5>1, <5>2
      <4>2. QED
        BY <4>1 DEF SoundAnswerConfirmed, RefusedWhole, IsAnswer
    <3>8. QED
      BY <1>1, <3>3, <3>5, <3>6, <3>7 DEF Sound, ConfirmedIsAnswer
  <2>6. CASE Confirm
    <3>1. /\ phase = "receive" /\ step = "ok" /\ length_to_read = 0 /\ UNCHANGED message
          /\ \/ phase' = "fine" /\ CrcMatches /\ Confirmation = "none"
             \/ phase' = "failed" /\ ~(CrcMatches /\ Confirmation = "none")
      <4>1. CASE CrcMatches
        BY <2>6, <4>1 DEF Confirm, At, Conclude, Fail
      <4>2. CASE ~CrcMatches
        BY <2>6, <4>2 DEF Confirm, At, Conclude, Fail
      <4>3. QED
        BY <4>1, <4>2
    <3>2. phase' = "fine" => IsAnswer(from, request)
      BY <3>1 DEF Confirmation
    <3>3. ASSUME Sound, IsAnswer(from, request)
          PROVE  CrcMatches /\ Confirmation = "none"
      <4>1. msg_length = ResponseLength(request)
        BY <1>1, <3>1, <3>3 DEF ModbusExpected
      <4>2. from.inner = ResponseLength(request)
        BY <3>3 DEF ModbusInv, ModbusFrames, Sound
      <4>3. QED
        BY <3>3, <4>1, <4>2 DEF CrcMatches, Confirmation
    <3>4. ConfirmedIsAnswer' /\ SoundAnswerConfirmed'
      BY <1>3, <3>1, <3>2, <3>3
         DEF message, ConfirmedIsAnswer, SoundAnswerConfirmed, RefusedWhole, Sound, IsAnswer,
             DataLength
    <3>5. QED
      BY <1>1, <3>1, <3>4 DEF message, ModbusReach, Sound
  <2>7. CASE Close
    BY <1>1, <2>7
       DEF Close, message, ModbusReach, Sound, ConfirmedIsAnswer, SoundAnswerConfirmed, RefusedWhole
  <2>8. QED
    BY <2>1, <2>2, <2>3, <2>4, <2>5, <2>6, <2>7 DEF Driver
<1>6. QED
  BY <1>1, <1>3, <1>5 DEF ModbusInv

------------------------------------------------------------------------------
(* modbus_router                                                             *)

\* What it has in common with the others.
LEMMA ModbusRShared ==
  /\ ModbusR!Receive <=> Receive
  /\ ModbusR!Timeout <=> Timeout
  /\ ModbusR!ReadFails <=> ReadFails
  /\ ModbusR!Close <=> Close
  /\ ModbusR!Sound <=> Sound
  /\ ModbusR!Clean <=> Clean
  /\ ModbusR!RefusedWhole <=> RefusedWhole
  BY DEF ModbusR!Receive, ModbusR!Waiting, Receive, Waiting, ModbusR!Timeout, Timeout,
     ModbusR!ReadFails, ReadFails, ModbusR!Fail, Fail, ModbusR!message, message,
     ModbusR!Close, Close, ModbusR!Sound, Sound, ModbusR!Clean, Clean,
     ModbusR!RefusedWhole, RefusedWhole

LEMMA ModbusRSizes ==
  /\ ModbusR!header_length = 1 /\ ModbusR!checksum_length = 2 /\ ModbusR!outer_checksum = 2
  /\ ModbusR!ToFunction = 2 /\ ModbusR!ExceptionLength = 7
  /\ ModbusR!MetaLength("write") = 4 /\ ModbusR!MetaLength("read") = 1
  /\ \A f \in Functions : ModbusR!MetaLength(f) \in {1, 4}
  /\ RouterHeader \in Nat /\ RouterHeader > 0
  /\ RouterHeader <= MaxMessageOf["modbus_router"]
  /\ MaxMessageOf["modbus_router"] \in Nat /\ MaxAduOf["modbus_router"] \in Nat
  /\ 8 <= MaxAduOf["modbus_router"]
  /\ MaxAduOf["modbus_router"] + 2 <= MaxMessageOf["modbus_router"]
<1>1. /\ ModbusR!header_length = 1 /\ ModbusR!checksum_length = 2 /\ ModbusR!outer_checksum = 2
      /\ ModbusR!ToFunction = 2 /\ ModbusR!ExceptionLength = 7
  BY DEF ModbusR!header_length, ModbusR!checksum_length, ModbusR!outer_checksum,
     ModbusR!ToFunction, ModbusR!ExceptionLength
<1>2. /\ ModbusR!MetaLength("write") = 4 /\ ModbusR!MetaLength("read") = 1
      /\ \A f \in Functions : ModbusR!MetaLength(f) \in {1, 4}
  BY DEF ModbusR!MetaLength
<1>3. MaxMessageOf["modbus_router"] \in Nat
  BY ProtocolsAssumption
<1>4. QED
  BY <1>1, <1>2, <1>3, ProtocolsAssumption DEF ModbusR!ModbusRouterConstants

LEMMA ModbusRLengths ==
  ASSUME LineTypes, request.kind \in {"read", "write"}
  PROVE  /\ request.num \in Nat
         /\ request.kind = "read" => /\ ModbusR!DataLength(request) = 2 * request.num
                                     /\ ModbusR!ResponseLength(request) = 7 + 2 * request.num
         /\ ModbusR!ResponseLength(request) \in Nat /\ ModbusR!DataLength(request) \in Nat
<1>1. request.num \in Nat
  BY DEF LineTypes
<1>2. QED
  BY <1>1, ModbusRSizes DEF ModbusR!ResponseLength, ModbusR!DataLength

LEMMA ModbusRClosed == Closed(ModbusRFrames)
<1>1. ModbusRFrames \subseteq FreshFrames
  BY DEF ModbusRFrames
<1>2. \A f \in FreshFrames : ~f.sound => f \in ModbusRFrames
  BY DEF ModbusRFrames
<1>3. ASSUME NEW f \in ModbusRFrames
      PROVE  [f EXCEPT !.clean = FALSE] \in ModbusRFrames
  <2> DEFINE u == [f EXCEPT !.clean = FALSE]
  <2>1. /\ u \in Frames /\ u.function = f.function /\ u.len = f.len
        /\ u.head = f.head /\ u.inner = f.inner /\ u.sound = f.sound /\ u.to = f.to
    BY UncleanFrame DEF ModbusRFrames, FreshFrames
  <2> HIDE DEF u
  <2>2. u \in FreshFrames
    BY <2>1 DEF ModbusRFrames, FreshFrames
  <2>3. ModbusR!IsAnswer(u, request) <=> ModbusR!IsAnswer(f, request)
    BY <2>1 DEF ModbusR!IsAnswer
  <2>4. u \in ModbusRFrames
    BY <2>1, <2>2, <2>3 DEF ModbusRFrames
  <2>5. QED
    BY <2>4 DEF u
<1>4. QED
  BY <1>1, <1>2, <1>3 DEF Closed

LEMMA ModbusRAnswers ==
  ASSUME LineTypes, request.kind \in {"read", "write"}
  PROVE  ModbusR!DeviceAnswers \subseteq Seq(ModbusRFrames)
<1>1. exchange \in Nat /\ request.kind \in Functions
  BY DEF Functions, LineTypes
<1>2. /\ ModbusR!Answer \in FreshFrames /\ ModbusR!Answer.head = RouterHeader
      /\ ModbusR!Answer.inner = ModbusR!ResponseLength(request)
  <2> DEFINE len == IF request.kind = "read" THEN ModbusR!DataLength(request) ELSE request.num
             inner == ModbusR!ResponseLength(request)
             k == request.kind
             a == Frame(k, len, RouterHeader, inner, 0)
  <2>1. len \in Nat /\ inner \in Nat /\ RouterHeader \in Nat /\ k \in Functions
    BY <1>1, ModbusRLengths, ModbusRSizes
  <2>2. ModbusR!Answer = a
    BY DEF ModbusR!Answer, ModbusR!Frame, Frame
  <2> HIDE DEF len, inner, k
  <2>3. a \in FreshFrames /\ a.head = RouterHeader /\ a.inner = inner
    BY <1>1, <2>1, NewFrame
  <2>4. QED
    BY <2>2, <2>3 DEF inner
<1>3. ModbusR!Answer \in ModbusRFrames
  BY <1>2 DEF ModbusRFrames
<1>4. ModbusR!Exception \in FreshFrames /\ ModbusR!Exception.function = "exception"
  <2>1. ModbusR!ExceptionLength \in Nat /\ "exception" \in Functions /\ RouterHeader \in Nat
    BY ModbusRSizes DEF Functions
  <2>2. ModbusR!Exception = Frame("exception", 0, RouterHeader, ModbusR!ExceptionLength, 0)
    BY DEF ModbusR!Exception, ModbusR!Frame, Frame
  <2>3. QED
    BY <1>1, <2>1, <2>2, NewFrame
<1>5. \A f \in FreshFrames : f.function \notin {"read", "write"} => f \in ModbusRFrames
  BY DEF ModbusRFrames, ModbusR!IsAnswer
<1>6. /\ ModbusR!Exception \in ModbusRFrames
      /\ {Foreign(ModbusR!Exception), Foreign(ModbusR!Answer)} \in SUBSET ModbusRFrames
  BY <1>2, <1>4, <1>5, ForeignFrame
<1>7. ModbusR!DeviceAnswers = Answers(ModbusR!Answer, ModbusR!Exception,
                                      {Foreign(ModbusR!Exception), Foreign(ModbusR!Answer)})
  BY DEF ModbusR!DeviceAnswers, ModbusR!Answers, Answers, ModbusR!Foreign, Foreign
<1>8. QED
  BY <1>3, <1>6, <1>7, ModbusRClosed, AnswersIn

LEMMA ModbusRSends ==
  ASSUME LineInv, request.kind \in {"read", "write"}, ModbusR!SendRead \/ ModbusR!SendWrite
  PROVE  Sent(ModbusRFrames, "router_header", RouterHeader)
<1>1. \/ SendMsg("read", request.num <= MaxRead, ModbusR!DeviceAnswers,
                 "router_header", RouterHeader)
      \/ SendMsg("write", request.num <= MaxWrite, ModbusR!DeviceAnswers,
                 "router_header", RouterHeader)
  BY DEF ModbusR!SendRead, ModbusR!SendWrite, ModbusR!SendMsg, SendMsg, ModbusR!Fail, Fail,
     ModbusR!message, message
<1>2. QED
  BY <1>1, ModbusRAnswers, SendMsgSends DEF LineInv

LEMMA ModbusRDataLengths ==
  ASSUME LineInv
  PROVE  ModbusR!DataLengths \subseteq Nat
<1>1. ModbusR!ShownLength \subseteq Nat
  BY RtuLineAssumption DEF ModbusR!ShownLength, LineInv, Fresh, FreshFrames, Frames
<1>2. QED
  BY <1>1 DEF ModbusR!DataLengths

\* What the steps of reception do, one after the other.
LEMMA ModbusRHeader ==
  ASSUME ModbusR!StepRouterHeader
  PROVE  /\ phase = "receive" /\ step = "router_header" /\ length_to_read = 0
         /\ UNCHANGED <<request, exchange, function, from, aligned, line, consumed>>
         /\ \/ /\ phase' = "failed" /\ ~Clean
               /\ UNCHANGED <<step, length_to_read, msg_length, start>>
            \/ /\ phase' = "receive" /\ step' = "function" /\ length_to_read' = 2
               /\ msg_length' = 0 /\ start' = start + msg_length
<1>1. PICK high \in (IF Clean THEN {FALSE} ELSE BOOLEAN) :
        IF high THEN ModbusR!Refuse ELSE ModbusR!Drop("function", ModbusR!ToFunction)
  BY DEF ModbusR!StepRouterHeader, ModbusR!Clean, Clean
<1>2. phase = "receive" /\ step = "router_header" /\ length_to_read = 0 /\ function' = function
  BY DEF ModbusR!StepRouterHeader, ModbusR!At
<1>3. CASE high
  <2>1. ~Clean
    BY <1>1, <1>3
  <2>2. ModbusR!Refuse
    BY <1>1, <1>3
  <2>3. QED
    BY <1>2, <2>1, <2>2 DEF ModbusR!Refuse, ModbusR!Rejected
<1>4. CASE ~high
  <2>1. ModbusR!Drop("function", 2)
    BY <1>1, <1>4, ModbusRSizes
  <2>2. QED
    BY <1>2, <2>1 DEF ModbusR!Drop
<1>5. QED
  BY <1>3, <1>4

LEMMA ModbusRFunction ==
  ASSUME LineInv, ModbusR!StepFunction
  PROVE  /\ phase = "receive" /\ step = "function" /\ length_to_read = 0
         /\ UNCHANGED <<request, exchange, msg_length, start, from, aligned, line, consumed>>
         /\ function' \in Functions /\ (Sound => function' = from.function)
         /\ \/ /\ phase' = "failed" /\ function' = "exception"
               /\ UNCHANGED <<step, length_to_read>>
            \/ /\ phase' = "receive" /\ step' = "meta"
               /\ length_to_read' = ModbusR!MetaLength(function')
<1>1. /\ phase = "receive" /\ step = "function" /\ length_to_read = 0
      /\ function' \in Functions /\ (Sound => function' = from.function)
  BY DEF ModbusR!StepFunction, ModbusR!At, ModbusR!Sound, Sound, ModbusR!Functions, Functions,
     LineInv, Fresh, FreshFrames, Frames
<1>2. QED
  BY <1>1 DEF ModbusR!StepFunction, ModbusR!Refuse, ModbusR!Rejected, ModbusR!Proceed

LEMMA ModbusRMeta ==
  ASSUME LineInv, ModbusR!StepMeta
  PROVE  \E len \in ModbusR!DataLengths :
           /\ phase = "receive" /\ step = "meta" /\ length_to_read = 0
           /\ UNCHANGED <<request, exchange, msg_length, start, function, from, aligned, line,
                          consumed>>
           /\ \/ /\ msg_length + (len + 2) > MaxAduOf["modbus_router"] /\ phase' = "failed"
                 /\ UNCHANGED <<step, length_to_read>>
              \/ /\ ~(msg_length + (len + 2) > MaxAduOf["modbus_router"]) /\ phase' = "receive"
                 /\ step' = "crc" /\ length_to_read' = len + 2
<1>1. PICK len \in ModbusR!DataLengths :
        LET n == len + ModbusR!checksum_length
        IN  IF msg_length + n > MaxAduOf["modbus_router"]
              THEN ModbusR!RefuseWith("EMBBADDATA") ELSE ModbusR!Proceed("crc", n)
  BY DEF ModbusR!StepMeta
<1>2. ModbusR!checksum_length = 2
  BY ModbusRSizes
<1>3. QED
  BY <1>1, <1>2
     DEF ModbusR!StepMeta, ModbusR!At, ModbusR!RefuseWith, ModbusR!Rejected, ModbusR!Fail,
         ModbusR!Proceed

LEMMA ModbusRCrc ==
  ASSUME ModbusR!StepCrc
  PROVE  /\ phase = "receive" /\ step = "crc" /\ length_to_read = 0
         /\ UNCHANGED <<request, exchange, msg_length, start, function, from, aligned, line,
                        consumed>>
         /\ phase' = "receive" /\ step' = "ok" /\ length_to_read' = 2
  BY ModbusRSizes DEF ModbusR!StepCrc, ModbusR!At, ModbusR!Proceed

LEMMA ModbusRConfirm ==
  ASSUME ModbusR!Confirm
  PROVE  /\ phase = "receive" /\ step = "ok" /\ length_to_read = 0
         /\ UNCHANGED <<request, exchange, message, line, consumed>>
         /\ \/ /\ phase' = "fine"
               /\ ModbusR!CrcMatches /\ ModbusR!Confirmation = "none"
            \/ /\ phase' = "failed"
               /\ ~(ModbusR!CrcMatches /\ ModbusR!Confirmation = "none")
<1>1. CASE ModbusR!CrcMatches
  BY <1>1 DEF ModbusR!Confirm, ModbusR!At, ModbusR!Conclude, ModbusR!Fail, ModbusR!message,
     message
<1>2. CASE ~ModbusR!CrcMatches
  BY <1>2 DEF ModbusR!Confirm, ModbusR!At, ModbusR!Conclude, ModbusR!Fail, ModbusR!message,
     message
<1>3. QED
  BY <1>1, <1>2

LEMMA ModbusRMoves ==
  ASSUME LineInv, request.kind \in {"read", "write"}, ModbusR!Driver
  PROVE  DriverStep /\ (Receive \/ LineMove(ModbusRFrames))
<1>0. msg_length \in Nat /\ start \in Nat /\ length_to_read \in Nat /\ function \in Functions
      /\ step \in Steps
  BY DEF LineInv, LineTypes
<1>1. CASE ModbusR!SendRead \/ ModbusR!SendWrite
  <2>1. /\ Sent(ModbusRFrames, "router_header", RouterHeader)
        /\ "router_header" \in Steps /\ RouterHeader \in Nat
    BY <1>1, ModbusRSends, ModbusRSizes DEF Steps
  <2>2. QED
    BY <2>1, SentIsSends, SentMoves, ModbusRClosed DEF DriverStep, Closed
<1>2. CASE Receive
  BY <1>2 DEF DriverStep
<1>3. CASE Timeout \/ ReadFails
  <2>1. Ends
    BY <1>3 DEF Timeout, ReadFails, Waiting, Fail, Ends
  <2>2. QED
    BY <2>1 DEF DriverStep, Ends, LineMove, message
<1>4. CASE ModbusR!StepRouterHeader
  <2>1. Advances
    BY <1>0, <1>4, ModbusRHeader DEF Advances, Steps
  <2>2. QED
    BY <2>1 DEF DriverStep, Advances, LineMove
<1>5. CASE ModbusR!StepFunction
  <2>1. function' \in Functions => ModbusR!MetaLength(function') \in Nat
    BY ModbusRSizes
  <2>2. Advances
    BY <1>0, <1>5, <2>1, ModbusRFunction DEF Advances, Steps
  <2>3. QED
    BY <2>2 DEF DriverStep, Advances, LineMove
<1>6. CASE ModbusR!StepMeta
  <2>1. \A len \in ModbusR!DataLengths : len + 2 \in Nat
    BY ModbusRDataLengths
  <2>2. Advances
    BY <1>0, <1>6, <2>1, ModbusRMeta DEF Advances, Steps
  <2>3. QED
    BY <2>2 DEF DriverStep, Advances, LineMove
<1>7. CASE ModbusR!StepCrc
  <2>1. Advances
    BY <1>0, <1>7, ModbusRCrc DEF Advances, Steps
  <2>2. QED
    BY <2>1 DEF DriverStep, Advances, LineMove
<1>8. CASE ModbusR!Confirm
  <2>1. Ends
    BY <1>8, ModbusRConfirm DEF ModbusR!CrcMatches, ModbusR!Sound, Ends
  <2>2. QED
    BY <2>1 DEF DriverStep, Ends, LineMove, message
<1>9. CASE Close
  BY <1>9 DEF DriverStep, Close, LineMove, message
<1>10. QED
  BY <1>1, <1>2, <1>3, <1>4, <1>5, <1>6, <1>7, <1>8, <1>9, ModbusRShared
     DEF ModbusR!Driver, ModbusR!Reception, ModbusR!Closing

LEMMA ModbusROpens ==
  ASSUME LineInv, phase = "closed", ModbusR!Opening
  PROVE  ModbusRInv'
<1>1. /\ step' = "function" /\ length_to_read' = 0 /\ msg_length' = 0 /\ start' = 0
      /\ request' \in ModbusR!Requests /\ phase' \in {"open", "failed"}
      /\ from' = NoFrame /\ line' = <<>>
  BY DEF ModbusR!Opening, ModbusR!Connect, ModbusR!Fail, ModbusR!NoFrame, NoFrame, LineInv,
     Quiet
<1>2. request'.kind \in {"read", "write"}
  BY <1>1
     DEF ModbusR!Requests, ModbusR!ReadRequests, ModbusR!WriteRequests, ModbusR!RelayOn,
         ModbusR!RelayOff, ModbusR!Request
<1>3. NoFrame \in ModbusRFrames' /\ line' \in Seq(ModbusRFrames')
  <2>1. NoFrame \in FreshFrames'
    BY NoFrameInFrames DEF FreshFrames, Frames, NoFrame
  <2>2. QED
    BY <1>1, <2>1, NoFrameInFrames, EmptySeq DEF ModbusRFrames
<1>4. ModbusR!SoundReadConfirmed'
  BY <1>1 DEF ModbusR!SoundReadConfirmed, ModbusR!Whole
<1>5. QED
  BY <1>1, <1>2, <1>3, <1>4 DEF ModbusRInv, ModbusRReach

LEMMA ModbusRStep ==
  ASSUME LineInv, ModbusRInv, ModbusR!Driver
  PROVE  ModbusRInv'
<1> DEFINE Past == step \notin {"router_header", "function"}
           Placed == phase = "receive" =>
             /\ IF step = "router_header" THEN start = 0 ELSE start = RouterHeader
             /\ step = "router_header" => msg_length + length_to_read = RouterHeader
             /\ step = "function" => msg_length + length_to_read = 2
           Known == phase = "receive" /\ Past /\ Sound => function = from.function
           Read == Sound /\ ModbusR!IsAnswer(from, request) /\ request.kind = "read"
           Come == phase = "receive" /\ Past /\ Read =>
                     msg_length + length_to_read = ModbusRExpected
           Fits == msg_length + length_to_read <= ModbusRReach
<1>1. /\ msg_length \in Nat /\ length_to_read \in Nat /\ start \in Nat
      /\ Placed /\ Known /\ Come /\ Fits /\ ModbusR!SoundReadConfirmed
      /\ request.kind \in {"read", "write"}
      /\ phase = "open" => step = "function" /\ length_to_read = 0 /\ msg_length = 0 /\ start = 0
  BY DEF LineInv, LineTypes, ModbusRInv, Quiet
<1>2. DriverStep /\ (Receive \/ LineMove(ModbusRFrames))
  BY <1>1, ModbusRMoves
<1>3. /\ LineInv' /\ request' = request /\ ModbusRFrames' = ModbusRFrames
      /\ line' \in Seq(ModbusRFrames') /\ from' \in ModbusRFrames'
  <2>1. LineInv' /\ request' = request /\ FreshFrames' = FreshFrames
    BY <1>2, DriverStepKeepsLine
  <2>2. ModbusRFrames' = ModbusRFrames
    BY <2>1
       DEF ModbusRFrames, ModbusR!IsAnswer, ModbusR!ResponseLength, ModbusR!DataLength
  <2>3. QED
    BY <1>2, <2>1, <2>2, MovedFrames DEF ModbusRInv
<1>4. request.num \in Nat /\ from.len \in Nat
  BY DEF LineInv, LineTypes, Fresh, FreshFrames, Frames
<1>5. Read => /\ from.function = "read" /\ from.len = 2 * request.num
              /\ from.inner = 7 + 2 * request.num /\ from.head = RouterHeader
  BY ModbusRLengths
     DEF LineInv, ModbusRInv, ModbusRFrames, ModbusR!IsAnswer, Sound
<1>6. UNCHANGED <<from, aligned>> => (Read' <=> Read)
  BY <1>3 DEF Sound, ModbusR!IsAnswer, ModbusR!DataLength
<1>7. Placed' /\ Known' /\ Come' /\ Fits' /\ ModbusR!SoundReadConfirmed'
  <2>1. CASE ModbusR!SendRead \/ ModbusR!SendWrite
    <3>1. Sent(ModbusRFrames, "router_header", RouterHeader)
      BY <1>1, <2>1, ModbusRSends
    <3>2. /\ UNCHANGED <<msg_length, start>> /\ msg_length = 0 /\ start = 0
          /\ length_to_read = 0 /\ step = "function"
          /\ \/ phase' = "receive" /\ step' = "router_header" /\ length_to_read' = RouterHeader
             \/ phase' = "failed" /\ UNCHANGED <<step, length_to_read>>
      BY <1>1, <3>1 DEF Sent
    <3>3. QED
      BY <3>2, ModbusRSizes
         DEF ModbusRReach, ModbusR!SoundReadConfirmed, ModbusR!Whole
  <2>2. CASE Receive
    <3>1. /\ phase = "receive" /\ phase' = "receive"
          /\ UNCHANGED <<step, function, request, start>>
          /\ msg_length' \in Nat /\ length_to_read' \in Nat
          /\ msg_length' + length_to_read' = msg_length + length_to_read
      BY <2>2, ReceiveTypes DEF Receive, Waiting, LineInv
    <3>2. Past => from' = from /\ (Sound' => Sound)
      BY <1>1, <2>2, <3>1, KeptByReceive, ModbusRSizes DEF LineInv
    <3>3. ModbusRReach' = ModbusRReach /\ ModbusRExpected' = ModbusRExpected
      BY <3>1 DEF ModbusRReach, ModbusRExpected
    <3>4. Placed'
      BY <1>1, <3>1
    <3>5. Known'
      BY <1>1, <3>1, <3>2
    <3>6. Come'
      <4>1. ASSUME Past, Read'
            PROVE  msg_length' + length_to_read' = ModbusRExpected'
        <5>1. Read
          BY <3>1, <3>2, <4>1 DEF ModbusR!IsAnswer, ModbusR!DataLength
        <5>2. QED
          BY <1>1, <3>1, <3>3, <4>1, <5>1
      <4>2. QED
        BY <3>1, <4>1
    <3>7. Fits'
      BY <1>1, <3>1, <3>3
    <3>8. QED
      BY <3>1, <3>4, <3>5, <3>6, <3>7
         DEF ModbusR!SoundReadConfirmed, ModbusR!Whole, ModbusR!RefusedWhole
  <2>3. CASE Timeout \/ ReadFails
    <3>1. /\ UNCHANGED message /\ phase' = "failed" /\ errno' \in {"ETIMEDOUT", "ECONNRESET"}
      BY <2>3 DEF Timeout, ReadFails, Fail
    <3>2. QED
      BY <1>1, <3>1
         DEF message, ModbusRReach, ModbusR!SoundReadConfirmed, ModbusR!Whole,
             ModbusR!RefusedWhole
  <2>4. CASE ModbusR!StepRouterHeader
    <3>1. /\ phase = "receive" /\ step = "router_header" /\ length_to_read = 0
          /\ msg_length = RouterHeader /\ start = 0 /\ UNCHANGED <<from, aligned>>
          /\ \/ /\ phase' = "failed" /\ ~Clean
                /\ UNCHANGED <<step, length_to_read, msg_length, start>>
             \/ /\ phase' = "receive" /\ step' = "function" /\ length_to_read' = 2
                /\ msg_length' = 0 /\ start' = start + msg_length
      BY <1>1, <2>4, ModbusRHeader, ModbusRSizes
    <3>2. ModbusR!SoundReadConfirmed'
      BY <3>1
         DEF ModbusR!SoundReadConfirmed, ModbusR!Whole, ModbusR!RefusedWhole, Clean,
             ModbusR!Clean
    <3>3. Placed' /\ Fits'
      BY <3>1, ModbusRSizes DEF ModbusRReach
    <3>4. QED
      BY <3>1, <3>2, <3>3
  <2>5. CASE ModbusR!StepFunction
    <3>1. /\ phase = "receive" /\ step = "function" /\ length_to_read = 0 /\ msg_length = 2
          /\ start = RouterHeader
          /\ UNCHANGED <<msg_length, start, from, aligned>>
          /\ function' \in Functions /\ (Sound => function' = from.function)
          /\ \/ /\ phase' = "failed" /\ function' = "exception"
                /\ UNCHANGED <<step, length_to_read>>
             \/ /\ phase' = "receive" /\ step' = "meta"
                /\ length_to_read' = ModbusR!MetaLength(function')
      BY <1>1, <2>5, ModbusRFunction
    <3>2. ModbusR!MetaLength(function') \in {1, 4}
      BY <3>1, ModbusRSizes
    <3>3. Placed' /\ Fits'
      BY <3>1, <3>2 DEF ModbusRReach
    <3>4. Known'
      BY <3>1 DEF Sound
    <3>5. ASSUME Read, phase' = "receive"
          PROVE  length_to_read' = 1
      <4>1. function' = "read"
        BY <1>5, <3>1, <3>5
      <4>2. QED
        BY <3>1, <3>5, <4>1, ModbusRSizes
    <3>6. Come'
      <4>1. phase' = "receive" => ModbusRExpected' = 3
        BY <3>1 DEF ModbusRExpected
      <4>2. QED
        BY <1>6, <3>1, <3>5, <4>1
    <3>7. phase' = "failed" => ~Read'
      BY <1>5, <1>6, <3>1
    <3>8. ModbusR!SoundReadConfirmed'
      BY <3>7 DEF ModbusR!SoundReadConfirmed, ModbusR!Whole, ModbusR!RefusedWhole,
         ModbusR!Sound, Sound
    <3>9. QED
      BY <3>3, <3>4, <3>6, <3>8
  <2>6. CASE ModbusR!StepMeta
    <3>1. PICK len \in ModbusR!DataLengths :
            /\ phase = "receive" /\ step = "meta" /\ length_to_read = 0
            /\ UNCHANGED <<msg_length, start, function, from, aligned>>
            /\ \/ /\ msg_length + (len + 2) > MaxAduOf["modbus_router"] /\ phase' = "failed"
                  /\ UNCHANGED <<step, length_to_read>>
               \/ /\ ~(msg_length + (len + 2) > MaxAduOf["modbus_router"])
                  /\ phase' = "receive" /\ step' = "crc" /\ length_to_read' = len + 2
      BY <2>6, ModbusRMeta
    <3>2. len \in Nat
      BY ModbusRDataLengths
    <3>3. Read => msg_length = 3 /\ len = 2 * request.num
      <4>1. ASSUME Read
            PROVE  msg_length = 3 /\ len = 2 * request.num
        <5>1. function = "read" /\ from.len = 2 * request.num
          BY <1>1, <1>5, <3>1, <4>1
        <5>2. len = from.len
          BY <3>1, <4>1, <5>1
             DEF ModbusR!DataLengths, ModbusR!ShownLength, ModbusR!Sound, Sound
        <5>3. msg_length = 3
          BY <1>1, <3>1, <4>1 DEF ModbusRExpected
        <5>4. QED
          BY <5>1, <5>2, <5>3
      <4>2. QED
        BY <4>1
    <3>4. Placed' /\ Known' /\ Fits'
      <4>1. Placed' /\ Known'
        BY <1>1, <3>1 DEF Sound
      <4>2. Fits'
        BY <1>1, <3>1, <3>2, ModbusRSizes DEF ModbusRReach
      <4>3. QED
        BY <4>1, <4>2
    <3>5. Come'
      <4>1. phase' = "receive" => ModbusRExpected' = 5 + 2 * request.num
        BY <1>3, <3>1 DEF ModbusRExpected
      <4>2. QED
        BY <1>4, <1>6, <3>1, <3>3, <4>1
    <3>6. ASSUME phase' = "failed", Read'
          PROVE  from'.inner > MaxAduOf["modbus_router"] + 2
      BY <1>4, <1>5, <1>6, <3>1, <3>3, <3>6, ModbusRSizes
    <3>7. ModbusR!SoundReadConfirmed'
      BY <3>6, ModbusRSizes
         DEF ModbusR!SoundReadConfirmed, ModbusR!Whole, ModbusR!RefusedWhole, ModbusR!Sound,
             Sound
    <3>8. QED
      BY <3>4, <3>5, <3>7
  <2>7. CASE ModbusR!StepCrc
    <3>1. /\ phase = "receive" /\ step = "crc" /\ length_to_read = 0
          /\ UNCHANGED <<msg_length, start, function, from, aligned>>
          /\ phase' = "receive" /\ step' = "ok" /\ length_to_read' = 2
      BY <2>7, ModbusRCrc
    <3>2. Placed' /\ Known'
      BY <1>1, <3>1 DEF Sound
    <3>3. Fits'
      BY <1>1, <3>1, ModbusRSizes DEF ModbusRReach
    <3>4. Come'
      <4>1. Read => msg_length = 5 + 2 * request.num
        BY <1>1, <3>1 DEF ModbusRExpected
      <4>2. ModbusRExpected' = 7 + 2 * request.num
        BY <1>3, <3>1 DEF ModbusRExpected
      <4>3. QED
        BY <1>4, <1>6, <3>1, <4>1, <4>2
    <3>5. QED
      BY <3>1, <3>2, <3>3, <3>4
         DEF ModbusR!SoundReadConfirmed, ModbusR!Whole, ModbusR!RefusedWhole
  <2>8. CASE ModbusR!Confirm
    <3>1. /\ phase = "receive" /\ step = "ok" /\ length_to_read = 0 /\ UNCHANGED message
          /\ \/ phase' = "fine"
             \/ /\ phase' = "failed"
                /\ ~(ModbusR!CrcMatches /\ ModbusR!Confirmation = "none")
      BY <2>8, ModbusRConfirm
    <3>2. ASSUME Read
          PROVE  ModbusR!CrcMatches /\ ModbusR!Confirmation = "none"
      <4>1. /\ msg_length = 7 + 2 * request.num /\ start = RouterHeader
            /\ function = "read" /\ request.kind = "read"
        BY <1>1, <1>5, <3>1, <3>2 DEF ModbusRExpected
      <4>2. ModbusR!CrcMatches
        BY <1>5, <3>2, <4>1 DEF ModbusR!CrcMatches, ModbusR!Sound, Sound
      <4>3. msg_length = ModbusR!ResponseLength(request)
        BY <4>1, ModbusRLengths DEF LineInv
      <4>4. from.len \div 2 = request.num
        BY <1>4, <1>5, <3>2
      <4>5. QED
        BY <4>1, <4>2, <4>3, <4>4 DEF ModbusR!Confirmation, ModbusR!Quantity
    <3>3. phase' = "failed" => ~Read'
      BY <1>6, <3>1, <3>2 DEF message
    <3>4. ModbusR!SoundReadConfirmed'
      BY <3>1, <3>3
         DEF ModbusR!SoundReadConfirmed, ModbusR!Whole, ModbusR!RefusedWhole, ModbusR!Sound,
             Sound
    <3>5. QED
      BY <1>1, <3>1, <3>4 DEF message, ModbusRReach
  <2>9. CASE Close
    BY <1>1, <2>9
       DEF Close, message, ModbusRReach, ModbusR!SoundReadConfirmed, ModbusR!Whole,
           ModbusR!RefusedWhole
  <2>10. QED
    BY <2>1, <2>2, <2>3, <2>4, <2>5, <2>6, <2>7, <2>8, <2>9, ModbusRShared
       DEF ModbusR!Driver, ModbusR!Reception, ModbusR!Closing
<1>8. QED
  BY <1>1, <1>3, <1>7 DEF ModbusRInv

------------------------------------------------------------------------------
(* ds_bus_router                                                             *)

LEMMA DsBusRShared ==
  /\ DsBusR!Receive <=> Receive
  /\ DsBusR!Timeout <=> Timeout
  /\ DsBusR!ReadFails <=> ReadFails
  /\ DsBusR!Close <=> Close
  /\ DsBusR!Sound <=> Sound
  /\ DsBusR!Clean <=> Clean
  /\ DsBusR!RefusedWhole <=> RefusedWhole
  BY DEF DsBusR!Receive, DsBusR!Waiting, Receive, Waiting, DsBusR!Timeout, Timeout,
     DsBusR!ReadFails, ReadFails, DsBusR!Fail, Fail, DsBusR!message, message,
     DsBusR!Close, Close, DsBusR!Sound, Sound, DsBusR!Clean, Clean,
     DsBusR!RefusedWhole, RefusedWhole

LEMMA DsBusRSizes ==
  /\ DsBusR!checksum_length = 2 /\ DsBusR!outer_checksum = 2
  /\ DsBusR!ToFunction = 2 /\ DsBusR!ToData = 11
  /\ DsBusR!Responses = {"read", "write", "ir"}
  /\ \A f \in Functions : /\ DsBusR!FileLength(f) = IF f \in DsBusR!Responses THEN 2 ELSE 1
                          /\ DsBusR!MetaLength(f) = IF f \in DsBusR!Responses THEN 7 ELSE 0
                          /\ DsBusR!CrcLength(f) = IF f = "ir" THEN 4 ELSE 2
  /\ RouterHeader \in Nat /\ RouterHeader > 0
  /\ RouterHeader <= MaxMessageOf["ds_bus_router"]
  /\ MaxMessageOf["ds_bus_router"] \in Nat /\ MaxAduOf["ds_bus_router"] \in Nat
  /\ 11 <= MaxAduOf["ds_bus_router"]
  /\ MaxAduOf["ds_bus_router"] + 4 <= MaxMessageOf["ds_bus_router"]
<1>1. /\ DsBusR!checksum_length = 2 /\ DsBusR!outer_checksum = 2 /\ DsBusR!ToFunction = 2
      /\ DsBusR!Responses = {"read", "write", "ir"}
  BY DEF DsBusR!header_length, DsBusR!checksum_length, DsBusR!outer_checksum,
     DsBusR!ToFunction, DsBusR!Responses
<1>2. \A f \in Functions : /\ DsBusR!FileLength(f) = IF f \in DsBusR!Responses THEN 2 ELSE 1
                           /\ DsBusR!MetaLength(f) = IF f \in DsBusR!Responses THEN 7 ELSE 0
                           /\ DsBusR!CrcLength(f) = IF f = "ir" THEN 4 ELSE 2
  BY <1>1 DEF DsBusR!FileLength, DsBusR!MetaLength, DsBusR!CrcLength
<1>3. DsBusR!ToData = 11
  <2>1. DsBusR!FileLength("read") = 2 /\ DsBusR!MetaLength("read") = 7
    BY <1>1, <1>2 DEF Functions
  <2>2. QED
    BY <1>1, <2>1 DEF DsBusR!ToData
<1>4. MaxMessageOf["ds_bus_router"] \in Nat
  BY ProtocolsAssumption
<1>5. QED
  BY <1>1, <1>2, <1>3, <1>4, ProtocolsAssumption DEF DsBusR!DsBusRouterConstants

\* What an answer to the request looks like.
LEMMA DsBusRLengths ==
  ASSUME LineTypes
  PROVE  /\ request.kind \in DsBusR!Responses /\ request.kind \in Functions
         /\ DsBusR!DataLength(request) \in Nat
         /\ request.kind # "read" => DsBusR!DataLength(request) = 2
         /\ DsBusR!ResponseLength(request) =
              11 + DsBusR!DataLength(request) + DsBusR!CrcLength(request.kind)
<1>1. request.num \in Nat /\ request.kind \in {"read", "write", "ir"}
  BY DEF LineTypes
<1>2. QED
  BY <1>1, DsBusRSizes DEF DsBusR!ResponseLength, DsBusR!DataLength, Functions

LEMMA DsBusRClosed == Closed(DsBusRFrames)
<1>1. DsBusRFrames \subseteq FreshFrames
  BY DEF DsBusRFrames
<1>2. \A f \in FreshFrames : ~f.sound => f \in DsBusRFrames
  BY DEF DsBusRFrames
<1>3. ASSUME NEW f \in DsBusRFrames
      PROVE  [f EXCEPT !.clean = FALSE] \in DsBusRFrames
  <2> DEFINE u == [f EXCEPT !.clean = FALSE]
  <2>1. /\ u \in Frames /\ u.function = f.function /\ u.len = f.len
        /\ u.head = f.head /\ u.inner = f.inner /\ u.sound = f.sound /\ u.to = f.to
    BY UncleanFrame DEF DsBusRFrames, FreshFrames
  <2> HIDE DEF u
  <2>2. u \in FreshFrames
    BY <2>1 DEF DsBusRFrames, FreshFrames
  <2>3. u \in DsBusRFrames
    BY <2>1, <2>2 DEF DsBusRFrames
  <2>4. QED
    BY <2>3 DEF u
<1>4. QED
  BY <1>1, <1>2, <1>3 DEF Closed

DsBusRAnswersOf ==
  Answers(DsBusR!Answer, DsBusR!Exception, {Foreign(DsBusR!Exception), DsBusR!Longer})

LEMMA DsBusRAnswers ==
  ASSUME LineTypes
  PROVE  DsBusRAnswersOf \subseteq Seq(DsBusRFrames)
<1>1. exchange \in Nat /\ RouterHeader \in Nat
  BY DsBusRSizes DEF LineTypes
<1>2. \A f \in FreshFrames :
        /\ f.function \notin DsBusR!Responses
        /\ f.head = RouterHeader
        => f \in DsBusRFrames
  BY DEF DsBusRFrames
<1>3. DsBusR!Answer \in DsBusRFrames /\ DsBusR!Answer.len \in Nat
  <2> DEFINE k == request.kind
             len == DsBusR!DataLength(request)
             inner == DsBusR!ResponseLength(request)
             tail == IF k = "ir" THEN 0 ELSE DsBusR!outer_checksum
             a == Frame(k, len, RouterHeader, inner, tail)
  <2>1. /\ k \in DsBusR!Responses
        /\ inner = 11 + len + DsBusR!CrcLength(k) /\ (k # "read" => len = 2)
    BY DsBusRLengths
  <2>2. k \in Functions /\ len \in Nat /\ tail \in Nat /\ inner \in Nat
    BY DsBusRLengths, DsBusRSizes
  <2>3. DsBusR!Answer = a
    BY DEF DsBusR!Answer, DsBusR!Frame, Frame
  <2> HIDE DEF k, len, inner, tail
  <2>4. /\ a \in FreshFrames /\ a.head = RouterHeader /\ a.inner = inner
        /\ a.len = len /\ a.function = k
    BY <1>1, <2>2, NewFrame
  <2> HIDE DEF a
  <2>5. QED
    BY <2>1, <2>2, <2>3, <2>4 DEF DsBusRFrames
<1>4. DsBusR!Longer \in DsBusRFrames
  <2> DEFINE len == DsBusR!Answer.len + 1
             inner == 11 + len + 2
             a == Frame("read", len, RouterHeader, inner, 2)
  <2>1. len \in Nat /\ inner \in Nat /\ 2 \in Nat /\ "read" \in Functions
    BY <1>3 DEF Functions
  <2>2. DsBusR!Longer = Frame("read", len, RouterHeader, 11 + DsBusR!Answer.len + 1 + 2, 2)
    BY DsBusRSizes DEF DsBusR!Longer, DsBusR!Frame, Frame
  <2>3. 11 + DsBusR!Answer.len + 1 + 2 = inner
    BY <1>3
  <2>4. DsBusR!Longer = a
    BY <2>2, <2>3
  <2>5. DsBusR!CrcLength("read") = 2
    BY <2>1, DsBusRSizes
  <2> HIDE DEF len
  <2>6. a \in FreshFrames /\ a.function = "read" /\ a.len = len /\ a.head = RouterHeader
        /\ a.inner = inner
    BY <1>1, <2>1, NewFrame
  <2> HIDE DEF a
  <2>7. QED
    BY <2>4, <2>5, <2>6 DEF DsBusRFrames
<1>5. /\ DsBusR!Exception \in FreshFrames /\ DsBusR!Exception.function = "exception"
      /\ DsBusR!Exception.head = RouterHeader
  <2>1. 5 \in Nat /\ 0 \in Nat /\ 2 \in Nat /\ "exception" \in Functions
    BY DEF Functions
  <2>2. DsBusR!Exception = Frame("exception", 0, RouterHeader, 5, 2)
    BY DsBusRSizes DEF DsBusR!Exception, DsBusR!Frame, Frame
  <2>3. QED
    BY <1>1, <2>1, <2>2, NewFrame
<1>6. /\ DsBusR!Exception \in DsBusRFrames
      /\ {Foreign(DsBusR!Exception), DsBusR!Longer} \in SUBSET DsBusRFrames
  BY <1>2, <1>4, <1>5, ForeignFrame, DsBusRSizes
<1>7. QED
  BY <1>3, <1>6, DsBusRClosed, AnswersIn DEF DsBusRAnswersOf

LEMMA DsBusRSends ==
  ASSUME LineInv, DsBusR!ReadSend \/ DsBusR!WriteSend \/ DsBusR!IrWriteSend
  PROVE  Sent(DsBusRFrames, "router_header", RouterHeader)
<1>1. \E kind \in {"read", "write", "ir"} :
        SendMsg(kind, request.num <= MaxRead, DsBusRAnswersOf, "router_header", RouterHeader)
  BY DEF DsBusR!ReadSend, DsBusR!WriteSend, DsBusR!IrWriteSend, DsBusR!Send, DsBusR!SendMsg,
     SendMsg, DsBusR!Fail, Fail, DsBusR!message, message, DsBusRAnswersOf, DsBusR!Answers,
     Answers, DsBusR!Foreign, Foreign
<1>2. QED
  BY <1>1, DsBusRAnswers, SendMsgSends DEF LineInv

LEMMA DsBusRDataLengths ==
  ASSUME LineInv
  PROVE  DsBusR!DataLengths \subseteq Nat
<1>1. DsBusR!ShownLength \subseteq Nat
  BY RtuLineAssumption DEF DsBusR!ShownLength, LineInv, Fresh, FreshFrames, Frames
<1>2. QED
  BY <1>1 DEF DsBusR!DataLengths

\* What the steps of reception do, one after the other.
LEMMA DsBusRHeader ==
  ASSUME DsBusR!StepRouterHeader
  PROVE  /\ phase = "receive" /\ step = "router_header" /\ length_to_read = 0
         /\ UNCHANGED <<request, exchange, function, from, aligned, line, consumed>>
         /\ \/ /\ phase' = "failed" /\ ~Clean
               /\ UNCHANGED <<step, length_to_read, msg_length, start>>
            \/ /\ phase' = "receive" /\ step' = "function" /\ length_to_read' = 2
               /\ msg_length' = 0 /\ start' = start + msg_length
<1>1. PICK high \in (IF Clean THEN {FALSE} ELSE BOOLEAN) :
        IF high THEN DsBusR!Refuse ELSE DsBusR!Drop("function", DsBusR!ToFunction)
  BY DEF DsBusR!StepRouterHeader, DsBusR!Clean, Clean
<1>2. phase = "receive" /\ step = "router_header" /\ length_to_read = 0 /\ function' = function
  BY DEF DsBusR!StepRouterHeader, DsBusR!At
<1>3. CASE high
  <2>1. ~Clean
    BY <1>1, <1>3
  <2>2. DsBusR!Refuse
    BY <1>1, <1>3
  <2>3. QED
    BY <1>2, <2>1, <2>2 DEF DsBusR!Refuse, DsBusR!Rejected
<1>4. CASE ~high
  <2>1. DsBusR!Drop("function", 2)
    BY <1>1, <1>4, DsBusRSizes
  <2>2. QED
    BY <1>2, <2>1 DEF DsBusR!Drop
<1>5. QED
  BY <1>3, <1>4

LEMMA DsBusRFunction ==
  ASSUME LineInv, DsBusR!StepFunction
  PROVE  /\ phase = "receive" /\ step = "function" /\ length_to_read = 0
         /\ UNCHANGED <<request, exchange, msg_length, start, from, aligned, line, consumed>>
         /\ function' \in Functions /\ (Sound => function' = from.function)
         /\ \/ /\ phase' = "failed" /\ function' = "exception"
               /\ UNCHANGED <<step, length_to_read>>
            \/ /\ phase' = "receive" /\ step' = "file"
               /\ length_to_read' = DsBusR!FileLength(function')
<1>1. /\ phase = "receive" /\ step = "function" /\ length_to_read = 0
      /\ function' \in Functions /\ (Sound => function' = from.function)
  BY DEF DsBusR!StepFunction, DsBusR!At, DsBusR!Sound, Sound, DsBusR!Functions, Functions,
     LineInv, Fresh, FreshFrames, Frames
<1>2. QED
  BY <1>1 DEF DsBusR!StepFunction, DsBusR!Refuse, DsBusR!Rejected, DsBusR!Proceed

\* A step that only asks for more.
Asks(s, t, n) ==
  /\ phase = "receive" /\ step = s /\ length_to_read = 0
  /\ UNCHANGED <<phase, request, exchange, msg_length, start, function, from, aligned, line,
                 consumed>>
  /\ step' = t /\ length_to_read' = n

LEMMA DsBusRAsks ==
  /\ DsBusR!StepFile => Asks("file", "meta", DsBusR!MetaLength(function))
  /\ DsBusR!StepData => Asks("data", "crc", 0)
  /\ DsBusR!StepCrc => Asks("crc", "ok", DsBusR!CrcLength(function))
  BY DEF DsBusR!StepFile, DsBusR!StepData, DsBusR!StepCrc, DsBusR!At, DsBusR!Proceed, Asks

LEMMA DsBusRMeta ==
  ASSUME LineInv, DsBusR!StepMeta
  PROVE  \E len \in DsBusR!DataLengths :
           /\ phase = "receive" /\ step = "meta" /\ length_to_read = 0
           /\ UNCHANGED <<request, exchange, msg_length, start, function, from, aligned, line,
                          consumed>>
           /\ \/ /\ msg_length + len > MaxAduOf["ds_bus_router"] /\ phase' = "failed"
                 /\ UNCHANGED <<step, length_to_read>>
              \/ /\ ~(msg_length + len > MaxAduOf["ds_bus_router"]) /\ phase' = "receive"
                 /\ step' = "data" /\ length_to_read' = len
<1>1. PICK len \in DsBusR!DataLengths :
        IF msg_length + len > MaxAduOf["ds_bus_router"]
          THEN DsBusR!RefuseWith("EMBBADDATA") ELSE DsBusR!Proceed("data", len)
  BY DEF DsBusR!StepMeta
<1>2. QED
  BY <1>1
     DEF DsBusR!StepMeta, DsBusR!At, DsBusR!RefuseWith, DsBusR!Rejected, DsBusR!Fail,
         DsBusR!Proceed

LEMMA DsBusRConfirm ==
  ASSUME DsBusR!Confirm
  PROVE  /\ phase = "receive" /\ step = "ok" /\ length_to_read = 0
         /\ UNCHANGED <<request, exchange, message, line, consumed>>
         /\ \/ /\ phase' = "fine"
               /\ DsBusR!CrcMatches /\ DsBusR!Confirmation = "none"
            \/ /\ phase' = "failed"
               /\ ~(DsBusR!CrcMatches /\ DsBusR!Confirmation = "none")
<1>1. CASE DsBusR!CrcMatches
  BY <1>1 DEF DsBusR!Confirm, DsBusR!At, DsBusR!Conclude, DsBusR!Fail, DsBusR!message,
     message
<1>2. CASE ~DsBusR!CrcMatches
  BY <1>2 DEF DsBusR!Confirm, DsBusR!At, DsBusR!Conclude, DsBusR!Fail, DsBusR!message,
     message
<1>3. QED
  BY <1>1, <1>2

LEMMA AsksMoves ==
  ASSUME LineInv, NEW S, NEW s, NEW t \in Steps, NEW n \in Nat, Asks(s, t, n)
  PROVE  DriverStep /\ LineMove(S)
<1>1. Advances
  BY DEF LineInv, LineTypes, Asks, Advances
<1>2. QED
  BY <1>1 DEF DriverStep, Advances, LineMove

LEMMA DsBusRMoves ==
  ASSUME LineInv, DsBusR!Driver
  PROVE  DriverStep /\ (Receive \/ LineMove(DsBusRFrames))
<1>0. msg_length \in Nat /\ start \in Nat /\ length_to_read \in Nat /\ function \in Functions
      /\ step \in Steps
  BY DEF LineInv, LineTypes
<1>1. CASE DsBusR!ReadSend \/ DsBusR!WriteSend \/ DsBusR!IrWriteSend
  <2>1. /\ Sent(DsBusRFrames, "router_header", RouterHeader)
        /\ "router_header" \in Steps /\ RouterHeader \in Nat
    BY <1>1, DsBusRSends, DsBusRSizes DEF Steps
  <2>2. QED
    BY <2>1, SentIsSends, SentMoves, DsBusRClosed DEF DriverStep, Closed
<1>2. CASE Receive
  BY <1>2 DEF DriverStep
<1>3. CASE Timeout \/ ReadFails
  <2>1. Ends
    BY <1>3 DEF Timeout, ReadFails, Waiting, Fail, Ends
  <2>2. QED
    BY <2>1 DEF DriverStep, Ends, LineMove, message
<1>4. CASE DsBusR!StepRouterHeader
  <2>1. Advances
    BY <1>0, <1>4, DsBusRHeader DEF Advances, Steps
  <2>2. QED
    BY <2>1 DEF DriverStep, Advances, LineMove
<1>5. CASE DsBusR!StepFunction
  <2>1. function' \in Functions => DsBusR!FileLength(function') \in Nat
    BY DsBusRSizes
  <2>2. Advances
    BY <1>0, <1>5, <2>1, DsBusRFunction DEF Advances, Steps
  <2>3. QED
    BY <2>2 DEF DriverStep, Advances, LineMove
<1>6. CASE DsBusR!StepMeta
  <2>1. \A len \in DsBusR!DataLengths : len \in Nat
    BY DsBusRDataLengths
  <2>2. Advances
    BY <1>0, <1>6, <2>1, DsBusRMeta DEF Advances, Steps
  <2>3. QED
    BY <2>2 DEF DriverStep, Advances, LineMove
<1>7. CASE DsBusR!StepFile \/ DsBusR!StepData \/ DsBusR!StepCrc
  <2>1. PICK s \in Steps, t \in Steps, n \in Nat : Asks(s, t, n)
    BY <1>0, <1>7, DsBusRAsks, DsBusRSizes DEF Steps
  <2>2. QED
    BY <2>1, AsksMoves
<1>8. CASE DsBusR!Confirm
  <2>1. Ends
    BY <1>8, DsBusRConfirm DEF DsBusR!CrcMatches, DsBusR!Sound, Ends
  <2>2. QED
    BY <2>1 DEF DriverStep, Ends, LineMove, message
<1>9. CASE Close
  BY <1>9 DEF DriverStep, Close, LineMove, message
<1>10. QED
  BY <1>1, <1>2, <1>3, <1>4, <1>5, <1>6, <1>7, <1>8, <1>9, DsBusRShared
     DEF DsBusR!Driver, DsBusR!Reception, DsBusR!Closing

LEMMA DsBusROpens ==
  ASSUME LineInv, phase = "closed", DsBusR!Opening
  PROVE  DsBusRInv'
<1>1. /\ step' = "function" /\ length_to_read' = 0 /\ msg_length' = 0 /\ start' = 0
      /\ phase' \in {"open", "failed"}
      /\ from' = NoFrame /\ line' = <<>>
  BY DEF DsBusR!Opening, DsBusR!Connect, DsBusR!Fail, DsBusR!NoFrame, NoFrame, LineInv,
     Quiet
<1>2. NoFrame \in DsBusRFrames' /\ line' \in Seq(DsBusRFrames')
  <2>1. NoFrame \in FreshFrames'
    BY NoFrameInFrames DEF FreshFrames, Frames, NoFrame
  <2>2. QED
    BY <1>1, <2>1, NoFrameInFrames, EmptySeq DEF DsBusRFrames
<1>3. DsBusR!ConfirmedIsAnswer' /\ DsBusR!SoundAnswerConfirmed'
  BY <1>1 DEF DsBusR!ConfirmedIsAnswer, DsBusR!SoundAnswerConfirmed
<1>4. QED
  BY <1>1, <1>2, <1>3 DEF DsBusRInv, DsBusRReach

LEMMA DsBusRStep ==
  ASSUME LineInv, DsBusRInv, DsBusR!Driver
  PROVE  DsBusRInv'
<1> DEFINE Past == step \notin {"router_header", "function"}
           Placed == phase = "receive" =>
             /\ IF step = "router_header" THEN start = 0 ELSE start = RouterHeader
             /\ step = "router_header" => msg_length + length_to_read = RouterHeader
             /\ step = "function" => msg_length + length_to_read = 2
           Known == phase = "receive" /\ Past /\ Sound => function = from.function
           Ours == Sound /\ from.function \in DsBusR!Responses
           Come == phase = "receive" /\ Past /\ Ours =>
                     msg_length + length_to_read = DsBusRExpected
           Fits == msg_length + length_to_read <= DsBusRReach
           Verdicts == DsBusR!ConfirmedIsAnswer /\ DsBusR!SoundAnswerConfirmed
<1>1. /\ msg_length \in Nat /\ length_to_read \in Nat /\ start \in Nat /\ function \in Functions
      /\ Placed /\ Known /\ Come /\ Fits /\ Verdicts
      /\ phase = "open" => step = "function" /\ length_to_read = 0 /\ msg_length = 0 /\ start = 0
  BY DEF LineInv, LineTypes, DsBusRInv, Quiet
<1>2. DriverStep /\ (Receive \/ LineMove(DsBusRFrames))
  BY DsBusRMoves
<1>3. /\ LineInv' /\ request' = request /\ DsBusRFrames' = DsBusRFrames
      /\ line' \in Seq(DsBusRFrames') /\ from' \in DsBusRFrames'
  <2>1. LineInv' /\ request' = request /\ FreshFrames' = FreshFrames
    BY <1>2, DriverStepKeepsLine
  <2>2. DsBusRFrames' = DsBusRFrames
    BY <2>1 DEF DsBusRFrames
  <2>3. QED
    BY <1>2, <2>1, <2>2, MovedFrames DEF DsBusRInv
<1>4. from.len \in Nat /\ from.function \in Functions /\ DsBusR!CrcLength(from.function) \in {2, 4}
  <2>1. from.len \in Nat /\ from.function \in Functions
    BY DEF LineInv, Fresh, FreshFrames, Frames
  <2>2. QED
    BY <2>1, DsBusRSizes
<1>5. /\ Ours => /\ from.inner = 11 + from.len + DsBusR!CrcLength(from.function)
                 /\ from.function # "read" => from.len = 2
      /\ Sound => from.head = RouterHeader
  BY DEF DsBusRInv, DsBusRFrames, Sound
<1>6. UNCHANGED <<from, aligned>> => (Ours' <=> Ours)
  BY DEF Sound, DsBusR!Responses
\* A sound answer is one of the responses.
<1>7. Sound /\ DsBusR!IsAnswer(from, request) => Ours
  BY DsBusRLengths DEF DsBusR!IsAnswer, LineInv
<1>8. UNCHANGED <<from, aligned>> /\ ~Ours => DsBusR!SoundAnswerConfirmed'
  <2>1. UNCHANGED <<from, aligned>> => (DsBusR!IsAnswer(from, request)' <=>
                                        DsBusR!IsAnswer(from, request))
    BY <1>3 DEF DsBusR!IsAnswer, DsBusR!DataLength
  <2>2. UNCHANGED <<from, aligned>> => (DsBusR!Sound' <=> Sound)
    BY DEF DsBusR!Sound, Sound
  <2>3. QED
    BY <1>7, <2>1, <2>2 DEF DsBusR!SoundAnswerConfirmed
<1>9. phase' \in {"receive", "open", "closed"} => Verdicts'
  BY DEF DsBusR!ConfirmedIsAnswer, DsBusR!SoundAnswerConfirmed, DsBusR!RefusedWhole
<1>10. Placed' /\ Known' /\ Come' /\ Fits' /\ Verdicts'
  <2>1. CASE DsBusR!ReadSend \/ DsBusR!WriteSend \/ DsBusR!IrWriteSend
    <3>1. Sent(DsBusRFrames, "router_header", RouterHeader)
      BY <2>1, DsBusRSends
    <3>2. /\ UNCHANGED <<msg_length, start>> /\ msg_length = 0 /\ start = 0
          /\ length_to_read = 0 /\ step = "function"
          /\ \/ phase' = "receive" /\ step' = "router_header" /\ length_to_read' = RouterHeader
             \/ phase' = "failed" /\ UNCHANGED <<step, length_to_read>>
      BY <1>1, <3>1 DEF Sent
    <3>3. QED
      BY <3>2, DsBusRSizes
         DEF DsBusRReach, DsBusR!ConfirmedIsAnswer, DsBusR!SoundAnswerConfirmed
  <2>2. CASE Receive
    <3>1. /\ phase = "receive" /\ phase' = "receive"
          /\ UNCHANGED <<step, function, request, start>>
          /\ msg_length' \in Nat /\ length_to_read' \in Nat
          /\ msg_length' + length_to_read' = msg_length + length_to_read
      BY <2>2, ReceiveTypes DEF Receive, Waiting, LineInv
    <3>2. Past => from' = from /\ (Sound' => Sound)
      BY <1>1, <2>2, <3>1, KeptByReceive, DsBusRSizes DEF LineInv
    <3>3. DsBusRReach' = DsBusRReach /\ (Past => DsBusRExpected' = DsBusRExpected)
      BY <3>1, <3>2 DEF DsBusRReach, DsBusRExpected, DsBusR!CrcLength
    <3>4. Placed'
      BY <1>1, <3>1
    <3>5. Known'
      BY <1>1, <3>1, <3>2
    <3>6. Come'
      <4>1. ASSUME Past, Ours'
            PROVE  msg_length' + length_to_read' = DsBusRExpected'
        <5>1. Ours
          BY <3>1, <3>2, <4>1 DEF DsBusR!Responses
        <5>2. QED
          BY <1>1, <3>1, <3>3, <4>1, <5>1
      <4>2. QED
        BY <3>1, <4>1
    <3>7. Fits'
      BY <1>1, <3>1, <3>3
    <3>8. QED
      BY <1>9, <3>1, <3>4, <3>5, <3>6, <3>7
  <2>3. CASE Timeout \/ ReadFails
    <3>1. /\ UNCHANGED message /\ phase' = "failed" /\ errno' \in {"ETIMEDOUT", "ECONNRESET"}
      BY <2>3 DEF Timeout, ReadFails, Fail
    <3>2. QED
      BY <1>1, <3>1
         DEF message, DsBusRReach, DsBusR!ConfirmedIsAnswer, DsBusR!SoundAnswerConfirmed,
             DsBusR!RefusedWhole
  <2>4. CASE DsBusR!StepRouterHeader
    <3>1. /\ phase = "receive" /\ step = "router_header" /\ length_to_read = 0
          /\ msg_length = RouterHeader /\ start = 0 /\ UNCHANGED <<from, aligned>>
          /\ \/ /\ phase' = "failed" /\ ~Clean
                /\ UNCHANGED <<step, length_to_read, msg_length, start>>
             \/ /\ phase' = "receive" /\ step' = "function" /\ length_to_read' = 2
                /\ msg_length' = 0 /\ start' = start + msg_length
      BY <1>1, <2>4, DsBusRHeader, DsBusRSizes
    <3>2. Verdicts'
      BY <3>1
         DEF DsBusR!ConfirmedIsAnswer, DsBusR!SoundAnswerConfirmed, DsBusR!RefusedWhole,
             Clean, DsBusR!Clean
    <3>3. Placed' /\ Fits'
      BY <3>1, DsBusRSizes DEF DsBusRReach
    <3>4. QED
      BY <3>1, <3>2, <3>3
  <2>5. CASE DsBusR!StepFunction
    <3>1. /\ phase = "receive" /\ step = "function" /\ length_to_read = 0 /\ msg_length = 2
          /\ start = RouterHeader
          /\ UNCHANGED <<msg_length, start, from, aligned>>
          /\ function' \in Functions /\ (Sound => function' = from.function)
          /\ \/ /\ phase' = "failed" /\ function' = "exception"
                /\ UNCHANGED <<step, length_to_read>>
             \/ /\ phase' = "receive" /\ step' = "file"
                /\ length_to_read' = DsBusR!FileLength(function')
      BY <1>1, <2>5, DsBusRFunction
    <3>2. /\ DsBusR!FileLength(function') \in {1, 2}
          /\ function' \in DsBusR!Responses => DsBusR!FileLength(function') = 2
      BY <3>1, DsBusRSizes
    <3>3. Placed' /\ Fits'
      BY <3>1, <3>2 DEF DsBusRReach
    <3>4. Known'
      BY <3>1 DEF Sound
    <3>5. Come'
      <4>1. phase' = "receive" => DsBusRExpected' = 4
        BY <3>1 DEF DsBusRExpected
      <4>2. Ours /\ phase' = "receive" => length_to_read' = 2
        BY <3>1, <3>2
      <4>3. QED
        BY <1>6, <3>1, <4>1, <4>2
    <3>6. Verdicts'
      <4>1. CASE phase' = "failed"
        <5>1. ~Ours
          BY <3>1, <4>1, DsBusRSizes
        <5>2. QED
          BY <1>8, <3>1, <4>1, <5>1 DEF DsBusR!ConfirmedIsAnswer
      <4>2. QED
        BY <1>9, <3>1, <4>1
    <3>7. QED
      BY <3>3, <3>4, <3>5, <3>6
  <2>6. CASE DsBusR!StepFile
    <3>1. /\ phase = "receive" /\ step = "file" /\ length_to_read = 0
          /\ phase' = "receive" /\ step' = "meta"
          /\ UNCHANGED <<msg_length, start, function, from, aligned>>
          /\ length_to_read' = DsBusR!MetaLength(function)
      BY <2>6, DsBusRAsks DEF Asks
    <3>2. /\ DsBusR!MetaLength(function) \in {0, 7}
          /\ function \in DsBusR!Responses => DsBusR!MetaLength(function) = 7
      BY <1>1, DsBusRSizes
    <3>3. msg_length <= 4 /\ (Ours => msg_length = 4 /\ function = from.function)
      BY <1>1, <3>1 DEF DsBusRReach, DsBusRExpected
    <3>4. Placed' /\ Known'
      BY <1>1, <3>1 DEF Sound
    <3>5. Fits'
      BY <1>1, <3>1, <3>2, <3>3 DEF DsBusRReach
    <3>6. Come'
      <4>1. DsBusRExpected' = 11
        BY <3>1 DEF DsBusRExpected
      <4>2. QED
        BY <1>6, <3>1, <3>2, <3>3, <4>1
    <3>7. QED
      BY <1>9, <3>1, <3>4, <3>5, <3>6
  <2>7. CASE DsBusR!StepMeta
    <3>1. PICK len \in DsBusR!DataLengths :
            /\ phase = "receive" /\ step = "meta" /\ length_to_read = 0
            /\ UNCHANGED <<msg_length, start, function, from, aligned>>
            /\ \/ /\ msg_length + len > MaxAduOf["ds_bus_router"] /\ phase' = "failed"
                  /\ UNCHANGED <<step, length_to_read>>
               \/ /\ ~(msg_length + len > MaxAduOf["ds_bus_router"])
                  /\ phase' = "receive" /\ step' = "data" /\ length_to_read' = len
      BY <2>7, DsBusRMeta
    <3>2. len \in Nat
      BY DsBusRDataLengths
    <3>3. Ours => msg_length = 11 /\ len = from.len
      <4>1. ASSUME Ours
            PROVE  msg_length = 11 /\ len = from.len
        <5>1. function = from.function
          BY <1>1, <3>1, <4>1
        <5>2. len = from.len
          BY <1>5, <3>1, <4>1, <5>1, DsBusRSizes
             DEF DsBusR!DataLengths, DsBusR!ShownLength, DsBusR!Sound, Sound
        <5>3. msg_length = 11
          BY <1>1, <3>1, <4>1 DEF DsBusRExpected
        <5>4. QED
          BY <5>2, <5>3
      <4>2. QED
        BY <4>1
    <3>4. Placed' /\ Known'
      BY <1>1, <3>1 DEF Sound
    <3>5. Fits'
      BY <1>1, <3>1, <3>2, DsBusRSizes DEF DsBusRReach
    <3>6. Come'
      <4>1. phase' = "receive" => DsBusRExpected' = 11 + from.len
        BY <3>1 DEF DsBusRExpected
      <4>2. QED
        BY <1>4, <1>6, <3>1, <3>3, <4>1
    <3>7. Verdicts'
      <4>1. CASE phase' = "failed"
        <5>1. Ours => 11 + from.len > MaxAduOf["ds_bus_router"]
          BY <1>4, <3>1, <3>3, <4>1
        <5>2. CASE Ours
          BY <3>1, <4>1, <5>1, <5>2, DsBusRSizes
             DEF DsBusR!ConfirmedIsAnswer, DsBusR!SoundAnswerConfirmed
        <5>3. CASE ~Ours
          BY <1>8, <3>1, <4>1, <5>3 DEF DsBusR!ConfirmedIsAnswer
        <5>4. QED
          BY <5>2, <5>3
      <4>2. QED
        BY <1>9, <3>1, <4>1
    <3>8. QED
      BY <3>4, <3>5, <3>6, <3>7
  <2>8. CASE DsBusR!StepData
    <3>1. /\ phase = "receive" /\ step = "data" /\ length_to_read = 0
          /\ phase' = "receive" /\ step' = "crc" /\ length_to_read' = 0
          /\ UNCHANGED <<msg_length, start, function, from, aligned>>
      BY <2>8, DsBusRAsks DEF Asks
    <3>2. Placed' /\ Known' /\ Fits'
      BY <1>1, <3>1 DEF Sound, DsBusRReach
    <3>3. Come'
      <4>1. DsBusRExpected' = DsBusRExpected
        BY <3>1 DEF DsBusRExpected
      <4>2. QED
        BY <1>1, <1>6, <3>1, <4>1
    <3>4. QED
      BY <1>9, <3>1, <3>2, <3>3
  <2>9. CASE DsBusR!StepCrc
    <3>1. /\ phase = "receive" /\ step = "crc" /\ length_to_read = 0
          /\ phase' = "receive" /\ step' = "ok"
          /\ length_to_read' = DsBusR!CrcLength(function)
          /\ UNCHANGED <<msg_length, start, function, from, aligned>>
      BY <2>9, DsBusRAsks DEF Asks
    <3>2. DsBusR!CrcLength(function) \in {2, 4}
      BY <1>1, DsBusRSizes
    <3>3. Placed' /\ Known'
      BY <1>1, <3>1 DEF Sound
    <3>4. Fits'
      BY <1>1, <3>1, <3>2, DsBusRSizes DEF DsBusRReach
    <3>5. Come'
      <4>1. Ours => msg_length = 11 + from.len /\ function = from.function
        BY <1>1, <3>1 DEF DsBusRExpected
      <4>2. DsBusRExpected' = 11 + from.len + DsBusR!CrcLength(from.function)
        BY <3>1 DEF DsBusRExpected, DsBusR!CrcLength
      <4>3. QED
        BY <1>4, <1>6, <3>1, <4>1, <4>2
    <3>6. QED
      BY <1>9, <3>1, <3>3, <3>4, <3>5
  <2>10. CASE DsBusR!Confirm
    <3>1. /\ phase = "receive" /\ step = "ok" /\ length_to_read = 0 /\ UNCHANGED message
          /\ \/ /\ phase' = "fine" /\ DsBusR!CrcMatches /\ DsBusR!Confirmation = "none"
             \/ /\ phase' = "failed"
                /\ ~(DsBusR!CrcMatches /\ DsBusR!Confirmation = "none")
      BY <2>10, DsBusRConfirm
    <3>2. Sound => function = from.function
      BY <1>1, <3>1
    <3>3. Ours => msg_length = from.inner /\ start = from.head
      BY <1>1, <1>5, <3>1 DEF DsBusRExpected
    <3>4. DsBusR!CrcMatches <=> Sound /\ start = from.head /\ msg_length = from.inner
      BY DEF DsBusR!CrcMatches, DsBusR!Sound, Sound
    <3>5. DsBusR!Confirmation = "none" <=>
            msg_length = DsBusR!ResponseLength(request) /\ function = request.kind
      BY DEF DsBusR!Confirmation
    <3>6. DsBusR!IsAnswer(from, request)' <=> DsBusR!IsAnswer(from, request)
      BY <1>3, <3>1 DEF DsBusR!IsAnswer, DsBusR!DataLength, message
    <3>7. CASE phase' = "fine"
      <4>1. Ours /\ from.function = request.kind
            /\ from.inner = DsBusR!ResponseLength(request)
        BY <3>1, <3>2, <3>4, <3>5, <3>7, DsBusRLengths DEF LineInv
      <4>2. from.len = DsBusR!DataLength(request)
        BY <1>4, <1>5, <4>1, DsBusRLengths DEF LineInv
      <4>3. DsBusR!IsAnswer(from, request)
        BY <4>1, <4>2 DEF DsBusR!IsAnswer
      <4>4. QED
        BY <1>1, <3>1, <3>6, <3>7, <4>3
           DEF message, DsBusRReach, DsBusR!ConfirmedIsAnswer, DsBusR!SoundAnswerConfirmed,
               DsBusR!RefusedWhole
    <3>8. CASE phase' = "failed"
      <4>1. ~(Sound /\ DsBusR!IsAnswer(from, request))
        <5>1. SUFFICES ASSUME Sound, DsBusR!IsAnswer(from, request)
                       PROVE  FALSE
          OBVIOUS
        <5>2. Ours
          BY <1>7, <5>1
        <5>3. /\ from.function = request.kind /\ from.len = DsBusR!DataLength(request)
          BY <5>1 DEF DsBusR!IsAnswer
        <5>4. msg_length = DsBusR!ResponseLength(request) /\ function = request.kind
          BY <1>5, <3>2, <3>3, <5>1, <5>2, <5>3, DsBusRLengths DEF LineInv
        <5>5. QED
          BY <3>1, <3>3, <3>4, <3>5, <3>8, <5>1, <5>2, <5>4
      <4>2. DsBusR!Sound' <=> Sound
        BY <3>1 DEF DsBusR!Sound, Sound, message
      <4>3. Verdicts'
        BY <3>6, <3>8, <4>1, <4>2
           DEF DsBusR!ConfirmedIsAnswer, DsBusR!SoundAnswerConfirmed
      <4>4. QED
        BY <1>1, <3>1, <3>8, <4>3 DEF message, DsBusRReach
    <3>9. QED
      BY <3>1, <3>7, <3>8
  <2>11. CASE Close
    BY <1>1, <1>9, <2>11 DEF Close, message, DsBusRReach
  <2>12. QED
    BY <2>1, <2>2, <2>3, <2>4, <2>5, <2>6, <2>7, <2>8, <2>9, <2>10, <2>11, DsBusRShared
       DEF DsBusR!Driver, DsBusR!Reception, DsBusR!Closing
<1>11. QED
  BY <1>1, <1>3, <1>10 DEF DsBusRInv

------------------------------------------------------------------------------
(* dlt645                                                                    *)

LEMMA MeterShared ==
  /\ Meter!Receive <=> Receive
  /\ Meter!Timeout <=> Timeout
  /\ Meter!ReadFails <=> ReadFails
  /\ Meter!Close <=> Close
  /\ Meter!InPlace <=> Sound /\ from.head = 1
  BY DEF Meter!Receive, Meter!Waiting, Receive, Waiting, Meter!Timeout, Timeout,
     Meter!ReadFails, ReadFails, Meter!Fail, Fail, Meter!message, message,
     Meter!Close, Close, Meter!InPlace, Meter!Sound, Sound

LEMMA MeterLengths ==
  ASSUME LineTypes, request.kind \in {"read", "write"}
  PROVE  /\ Meter!header_length = 11 /\ Meter!end_length = 2
         /\ request.kind \in Functions /\ request.num \in Nat
         /\ Meter!DataLength(request) \in Nat
         /\ Meter!DataLength(request) = IF request.kind = "read" THEN 4 + request.num ELSE 0
         /\ \A n \in Nat : Meter!InnerLength(n) = 12 + n
<1>1. request.num \in Nat /\ request.kind \in Functions
  BY DEF LineTypes, Functions
<1>2. Meter!header_length = 11 /\ Meter!end_length = 2
  BY DEF Meter!header_length, Meter!end_length
<1>3. \A n \in Nat : Meter!InnerLength(n) = 12 + n
  BY <1>2 DEF Meter!InnerLength
<1>4. QED
  BY <1>1, <1>2, <1>3 DEF Meter!DataLength

LEMMA MeterClosed == Closed(MeterFrames)
<1>1. MeterFrames \subseteq FreshFrames
  BY DEF MeterFrames
<1>2. \A f \in FreshFrames : ~f.sound => f \in MeterFrames
  BY DEF MeterFrames
<1>3. ASSUME NEW f \in MeterFrames
      PROVE  [f EXCEPT !.clean = FALSE] \in MeterFrames
  <2> DEFINE u == [f EXCEPT !.clean = FALSE]
  <2>1. /\ u \in Frames /\ u.function = f.function /\ u.len = f.len
        /\ u.head = f.head /\ u.inner = f.inner /\ u.sound = f.sound /\ u.to = f.to
    BY UncleanFrame DEF MeterFrames, FreshFrames
  <2> HIDE DEF u
  <2>2. u \in FreshFrames
    BY <2>1 DEF MeterFrames, FreshFrames
  <2>3. Meter!IsAnswer(u, request) <=> Meter!IsAnswer(f, request)
    BY <2>1 DEF Meter!IsAnswer
  <2>4. u \in MeterFrames
    BY <2>1, <2>2, <2>3 DEF MeterFrames
  <2>5. QED
    BY <2>4 DEF u
<1>4. QED
  BY <1>1, <1>2, <1>3 DEF Closed

MeterAnswersOf(pre) ==
  Answers(Meter!Answer(pre), Meter!Refusal(pre), {Foreign(Meter!Refusal(pre))})

LEMMA MeterAnswers ==
  ASSUME LineTypes, request.kind \in {"read", "write"}, NEW pre \in Nat
  PROVE  MeterAnswersOf(pre) \subseteq Seq(MeterFrames)
<1>1. exchange \in Nat
  BY DEF LineTypes
<1>2. Meter!Answer(pre) \in MeterFrames
  <2> DEFINE k == request.kind
             len == Meter!DataLength(request)
             inner == Meter!InnerLength(len)
             a == Frame(k, len, pre, inner, 0)
  <2>1. k \in Functions /\ len \in Nat /\ inner \in Nat
    BY MeterLengths
  <2>2. inner = 12 + len
    BY MeterLengths
  <2>3. Meter!Answer(pre) = a
    BY DEF Meter!Answer, Meter!Frame, Frame
  <2> HIDE DEF k, len, inner
  <2>4. a \in FreshFrames /\ a.inner = inner /\ a.len = len
    BY <1>1, <2>1, NewFrame
  <2> HIDE DEF a
  <2>5. QED
    BY <2>2, <2>3, <2>4 DEF MeterFrames
<1>3. \A f \in FreshFrames : f.function \notin {"read", "write"} => f \in MeterFrames
  BY DEF MeterFrames, Meter!IsAnswer
<1>4. Meter!Refusal(pre) \in FreshFrames /\ Meter!Refusal(pre).function = "exception"
  <2>1. 13 \in Nat /\ 1 \in Nat /\ 0 \in Nat /\ "exception" \in Functions
    BY DEF Functions
  <2>2. Meter!InnerLength(1) = 13
    BY MeterLengths
  <2>3. Meter!Refusal(pre) = Frame("exception", 1, pre, 13, 0)
    BY <2>2 DEF Meter!Refusal, Meter!Frame, Frame
  <2>4. QED
    BY <1>1, <2>1, <2>3, NewFrame
<1>5. /\ Meter!Refusal(pre) \in MeterFrames
      /\ {Foreign(Meter!Refusal(pre))} \in SUBSET MeterFrames
  BY <1>3, <1>4, ForeignFrame
<1>6. QED
  BY <1>2, <1>5, MeterClosed, AnswersIn DEF MeterAnswersOf

LEMMA MeterSends ==
  ASSUME LineInv, request.kind \in {"read", "write"}, Meter!ReadSend \/ Meter!RelaySend
  PROVE  Sent(MeterFrames, "data", 11)
<1>1. PICK kind \in {"read", "write"}, pre \in Preambles :
        SendMsg(kind, TRUE, MeterAnswersOf(pre), "data", Meter!header_length)
  BY DEF Meter!ReadSend, Meter!RelaySend, Meter!Send, Meter!SendMsg, SendMsg, Meter!Fail,
     Fail, Meter!message, message, MeterAnswersOf, Meter!Answers, Answers, Meter!Foreign,
     Foreign
<1>2. pre \in Nat /\ Meter!header_length = 11
  BY ProtocolsAssumption, MeterLengths DEF Meter!Dlt645Constants, LineInv
<1>3. MeterAnswersOf(pre) \subseteq Seq(MeterFrames)
  BY <1>2, MeterAnswers DEF LineInv
<1>4. QED
  BY <1>1, <1>2, <1>3, SendMsgSends

\* When the bit that the driver tests cannot be set.
LEMMA MeterBits ==
  ASSUME LineTypes, request.kind \in {"read", "write"}
  PROVE  /\ step = "sum" /\ Meter!InPlace /\ from.function = "read" => TRUE \notin Meter!HighBit
         /\ step = "ok" /\ msg_length # 13 => TRUE \notin Meter!HighBit
<1>1. step = "sum" /\ Meter!InPlace /\ from.function = "read" => Meter!HighBit = {FALSE}
  BY DEF Meter!HighBit
<1>2. ASSUME step = "ok", msg_length # 13
      PROVE  Meter!HighBit = {FALSE}
  <2>1. Meter!header_length = 11 /\ Meter!end_length = 2
    BY MeterLengths
  <2>2. ~Meter!Dataless
    BY <1>2, <2>1 DEF Meter!Dataless
  <2>3. QED
    BY <1>2, <2>2 DEF Meter!HighBit
<1>3. QED
  BY <1>1, <1>2

\* What a step of reception leaves alone.
Stays ==
  /\ phase = "receive" /\ length_to_read = 0
  /\ UNCHANGED <<request, exchange, msg_length, start, function, from, aligned, line, consumed>>

LEMMA MeterData ==
  ASSUME LineInv, Meter!StepData
  PROVE  /\ Stays /\ step = "data" /\ length_to_read' \in Nat
         /\ \/ phase' = "failed" /\ UNCHANGED <<step, length_to_read>>
            \/ /\ phase' = "receive" /\ step' = "sum"
               /\ Meter!InPlace => length_to_read' = from.len
<1>1. from.len \in Nat
  BY DEF LineInv, Fresh, FreshFrames, Frames
<1>2. CASE Meter!Tested(Meter!Refuse)
  BY <1>2 DEF Meter!StepData, Meter!At, Meter!Tested, Meter!Refuse, Meter!Rejected, Stays
<1>3. CASE ~Meter!Tested(Meter!Refuse)
  <2>1. PICK len \in (IF Meter!InPlace THEN {from.len} ELSE Garbled) :
          Meter!Proceed("sum", len)
    BY <1>3 DEF Meter!StepData
  <2>2. len \in Nat /\ (Meter!InPlace => len = from.len)
    BY <1>1, RtuLineAssumption
  <2>3. function' = function /\ phase = "receive" /\ length_to_read = 0 /\ step = "data"
    BY <1>3 DEF Meter!StepData, Meter!At
  <2>4. QED
    BY <2>1, <2>2, <2>3 DEF Meter!Proceed, Stays
<1>4. QED
  BY <1>2, <1>3

LEMMA MeterSum ==
  ASSUME LineInv, request.kind \in {"read", "write"}, Meter!StepSum
  PROVE  /\ Stays /\ step = "sum"
         /\ \/ phase' = "failed" /\ TRUE \in Meter!HighBit /\ UNCHANGED <<step, length_to_read>>
            \/ phase' = "receive" /\ step' = "ok" /\ length_to_read' = 2
  BY MeterLengths
     DEF LineInv, Meter!StepSum, Meter!At, Meter!Tested, Meter!Refuse, Meter!Rejected,
         Meter!Proceed, Stays

LEMMA MeterConfirm ==
  ASSUME Meter!Confirm
  PROVE  /\ Stays /\ step = "ok" /\ UNCHANGED <<step, length_to_read>>
         /\ \/ phase' = "failed" /\ TRUE \in Meter!HighBit
            \/ phase' = "failed" /\ ~(Meter!InPlace /\ msg_length = 1 + from.inner)
            \/ phase' = "fine" /\ Meter!InPlace
<1>1. phase = "receive" /\ length_to_read = 0 /\ step = "ok"
  BY DEF Meter!Confirm, Meter!At
<1>2. CASE Meter!Tested(Meter!Refuse)
  BY <1>1, <1>2 DEF Meter!Tested, Meter!Refuse, Meter!Rejected, Stays
<1>3. CASE Meter!InPlace /\ msg_length = 1 + from.inner /\ ~Meter!Tested(Meter!Refuse)
  <2>1. Meter!Conclude("none")
    BY <1>3 DEF Meter!Confirm
  <2>2. QED
    BY <1>1, <1>3, <2>1 DEF Meter!Conclude, Meter!message, Stays
<1>4. CASE ~(Meter!InPlace /\ msg_length = 1 + from.inner) /\ ~Meter!Tested(Meter!Refuse)
  <2>1. Meter!Conclude("EMBBADCRC")
    BY <1>4 DEF Meter!Confirm
  <2>2. QED
    BY <1>1, <1>4, <2>1 DEF Meter!Conclude, Meter!Fail, Meter!message, Stays
<1>5. QED
  BY <1>2, <1>3, <1>4

LEMMA MeterMoves ==
  ASSUME LineInv, request.kind \in {"read", "write"}, Meter!Driver
  PROVE  DriverStep /\ (Receive \/ LineMove(MeterFrames))
<1>0. msg_length \in Nat /\ start \in Nat /\ length_to_read \in Nat /\ function \in Functions
      /\ step \in Steps
  BY DEF LineInv, LineTypes
<1>1. CASE Meter!ReadSend \/ Meter!RelaySend
  <2>1. Sent(MeterFrames, "data", 11) /\ "data" \in Steps /\ 11 \in Nat
    BY <1>1, MeterSends DEF Steps
  <2>2. QED
    BY <2>1, SentIsSends, SentMoves, MeterClosed DEF DriverStep, Closed
<1>2. CASE Receive
  BY <1>2 DEF DriverStep
<1>3. CASE Timeout \/ ReadFails
  <2>1. Ends
    BY <1>3 DEF Timeout, ReadFails, Waiting, Fail, Ends
  <2>2. QED
    BY <2>1 DEF DriverStep, Ends, LineMove, message
<1>4. CASE Meter!StepData \/ Meter!StepSum
  <2>1. Stays /\ phase' \in {"receive", "failed"}
    BY <1>4, MeterData, MeterSum
  <2>2. step' \in Steps
    BY <1>0, <1>4, MeterData, MeterSum DEF Steps
  <2>3. length_to_read' \in Nat
    <3>1. CASE Meter!StepData
      BY <3>1, MeterData
    <3>2. CASE Meter!StepSum
      <4>1. length_to_read' = length_to_read \/ length_to_read' = 2
        BY <3>2, MeterSum
      <4>2. QED
        BY <1>0, <4>1
    <3>3. QED
      BY <1>4, <3>1, <3>2
  <2>4. Advances
    BY <1>0, <2>1, <2>2, <2>3 DEF Advances, Stays
  <2>5. QED
    BY <2>4 DEF DriverStep, Advances, LineMove
<1>5. CASE Meter!Confirm
  <2>1. Ends
    BY <1>5, MeterConfirm DEF Meter!InPlace, Meter!Sound, Ends, Stays, message
  <2>2. QED
    BY <2>1 DEF DriverStep, Ends, LineMove, message
<1>6. CASE Close
  BY <1>6 DEF DriverStep, Close, LineMove, message
<1>7. QED
  BY <1>1, <1>2, <1>3, <1>4, <1>5, <1>6, MeterShared
     DEF Meter!Driver, Meter!Reception, Meter!Closing

LEMMA MeterOpens ==
  ASSUME LineInv, phase = "closed", Meter!Opening
  PROVE  MeterInv'
<1>1. /\ msg_length' = 0 /\ request' \in Meter!Requests /\ phase' \in {"open", "failed"}
      /\ from' = NoFrame /\ line' = <<>>
  BY DEF Meter!Opening, Meter!Connect, Meter!Fail, Meter!NoFrame, NoFrame, LineInv, Quiet
<1>2. request'.kind \in {"read", "write"}
  BY <1>1
     DEF Meter!Requests, Meter!ReadRequests, Meter!RelayOn, Meter!RelayOff, Meter!Request
<1>3. NoFrame \in MeterFrames' /\ line' \in Seq(MeterFrames')
  <2>1. NoFrame \in FreshFrames'
    BY NoFrameInFrames DEF FreshFrames, Frames, NoFrame
  <2>2. QED
    BY <1>1, <2>1, NoFrameInFrames, EmptySeq DEF MeterFrames
<1>4. Meter!SoundReadConfirmed'
  BY <1>1 DEF Meter!SoundReadConfirmed, Meter!header_length
<1>5. QED
  BY <1>1, <1>2, <1>3, <1>4 DEF MeterInv

LEMMA MeterStep ==
  ASSUME LineInv, MeterInv, Meter!Driver
  PROVE  MeterInv'
<1> DEFINE Begun == phase = "receive" =>
             IF step = "data" THEN msg_length + length_to_read = 11 ELSE msg_length > 0
           Ours == Meter!InPlace /\ Meter!IsAnswer(from, request)
           Come == phase = "receive" /\ Ours => msg_length + length_to_read = MeterExpected
<1>1. /\ msg_length \in Nat /\ length_to_read \in Nat /\ start \in Nat
      /\ Begun /\ Come /\ Meter!SoundReadConfirmed
      /\ request.kind \in {"read", "write"}
      /\ phase = "open" => length_to_read = 0 /\ msg_length = 0
  BY DEF LineInv, LineTypes, MeterInv, Quiet
<1>2. DriverStep /\ (Receive \/ LineMove(MeterFrames))
  BY <1>1, MeterMoves
<1>3. /\ LineInv' /\ request' = request /\ MeterFrames' = MeterFrames
      /\ line' \in Seq(MeterFrames') /\ from' \in MeterFrames'
  <2>1. LineInv' /\ request' = request /\ FreshFrames' = FreshFrames
    BY <1>2, DriverStepKeepsLine
  <2>2. MeterFrames' = MeterFrames
    BY <2>1 DEF MeterFrames, Meter!IsAnswer, Meter!DataLength
  <2>3. QED
    BY <1>2, <2>1, <2>2, MovedFrames DEF MeterInv
<1>4. from.len \in Nat /\ request.num \in Nat
  BY DEF LineInv, LineTypes, Fresh, FreshFrames, Frames
<1>5. Ours => /\ from.function = request.kind /\ from.inner = 12 + from.len
              /\ request.kind = "read" => from.len = 4 + request.num
  <2>1. Ours => from.function = request.kind /\ from.len = Meter!DataLength(request)
    BY DEF Meter!IsAnswer
  <2>2. Ours => from.inner = 12 + from.len
    BY MeterShared DEF MeterInv, MeterFrames, Sound
  <2>3. QED
    BY <1>1, <2>1, <2>2, MeterLengths DEF LineInv
<1>6. UNCHANGED <<from, aligned>> => (Ours' <=> Ours)
  BY <1>3 DEF Meter!InPlace, Meter!Sound, Meter!IsAnswer, Meter!DataLength
<1>7. Meter!SoundReadConfirmed' <=>
        ~(Meter!RefusedWhole' /\ msg_length' > 11 /\ Ours' /\ request.kind = "read")
  BY <1>1, <1>3, MeterLengths
     DEF Meter!SoundReadConfirmed, Meter!header_length, Meter!RefusedWhole
<1>8. phase' # "failed" => Meter!SoundReadConfirmed'
  BY DEF Meter!SoundReadConfirmed, Meter!RefusedWhole
<1>9. Begun' /\ Come' /\ Meter!SoundReadConfirmed'
  <2>1. CASE Meter!ReadSend \/ Meter!RelaySend
    <3>1. Sent(MeterFrames, "data", 11)
      BY <1>1, <2>1, MeterSends
    <3>2. /\ msg_length' = 0
          /\ \/ phase' = "receive" /\ step' = "data" /\ length_to_read' = 11
             \/ phase' = "failed"
      BY <1>1, <3>1 DEF Sent
    <3>3. QED
      BY <1>7, <3>2 DEF MeterExpected
  <2>2. CASE Receive
    <3>1. /\ phase = "receive" /\ phase' = "receive" /\ UNCHANGED <<step, request, start>>
          /\ msg_length' \in Nat /\ length_to_read' \in Nat
          /\ msg_length' + length_to_read' = msg_length + length_to_read
          /\ msg_length' > msg_length
      BY <2>2, ReceiveTypes DEF Receive, Waiting, LineInv
    <3>2. step # "data" => from' = from /\ (Sound' => Sound)
      BY <1>1, <2>2, <3>1, KeptByReceive DEF LineInv
    <3>3. Begun'
      <4>1. CASE step = "data"
        BY <1>1, <3>1, <4>1
      <4>2. CASE step # "data"
        <5>1. msg_length > 0
          BY <1>1, <3>1, <4>2
        <5>2. msg_length' > 0
          BY <1>1, <3>1, <5>1
        <5>3. QED
          BY <3>1, <4>2, <5>2
      <4>3. QED
        BY <4>1, <4>2
    <3>4. Come'
      <4>1. CASE step = "data"
        BY <1>1, <3>1, <4>1 DEF MeterExpected
      <4>2. CASE step # "data"
        <5>1. Ours' => Ours
          BY <3>1, <3>2, <4>2
             DEF Meter!InPlace, Meter!Sound, Sound, Meter!IsAnswer, Meter!DataLength
        <5>2. MeterExpected' = MeterExpected
          BY <3>1, <3>2, <4>2 DEF MeterExpected
        <5>3. QED
          BY <1>1, <3>1, <5>1, <5>2
      <4>3. QED
        BY <4>1, <4>2
    <3>5. QED
      BY <1>8, <3>1, <3>3, <3>4
  <2>3. CASE Timeout \/ ReadFails
    <3>1. phase' = "failed" /\ errno' \in {"ETIMEDOUT", "ECONNRESET"}
      BY <2>3 DEF Timeout, ReadFails, Fail
    <3>2. QED
      BY <1>7, <3>1 DEF Meter!RefusedWhole
  <2>4. CASE Meter!StepData
    <3>1. /\ Stays /\ step = "data" /\ length_to_read' \in Nat
          /\ \/ phase' = "failed"
             \/ phase' = "receive" /\ step' = "sum" /\ (Meter!InPlace => length_to_read' = from.len)
      BY <2>4, MeterData
    <3>2. msg_length = 11 /\ msg_length' = 11
      BY <1>1, <3>1 DEF Stays
    <3>3. Begun' /\ Meter!SoundReadConfirmed'
      <4>1. Meter!SoundReadConfirmed'
        BY <1>7, <3>2
      <4>2. CASE phase' = "receive"
        <5>1. step' = "sum"
          BY <3>1, <4>2
        <5>2. QED
          BY <3>2, <4>1, <5>1
      <4>3. QED
        BY <3>1, <4>1, <4>2
    <3>4. Come'
      <4>1. phase' = "receive" => MeterExpected' = 11 + from.len
        BY <3>1 DEF MeterExpected, Stays
      <4>2. QED
        BY <1>4, <1>6, <3>1, <3>2, <4>1 DEF Stays
    <3>5. QED
      BY <3>3, <3>4
  <2>5. CASE Meter!StepSum
    <3>1. /\ Stays /\ step = "sum"
          /\ \/ phase' = "failed" /\ TRUE \in Meter!HighBit
             \/ phase' = "receive" /\ step' = "ok" /\ length_to_read' = 2
      BY <1>1, <2>5, MeterSum
    <3>2. Ours => msg_length = 11 + from.len
      BY <1>1, <3>1 DEF MeterExpected, Stays
    <3>3. Begun'
      BY <1>1, <3>1 DEF Stays
    <3>4. Come'
      <4>1. phase' = "receive" => MeterExpected' = 13 + from.len
        BY <3>1 DEF MeterExpected, Stays
      <4>2. QED
        BY <1>1, <1>4, <1>6, <3>1, <3>2, <4>1 DEF Stays
    <3>5. Meter!SoundReadConfirmed'
      <4>1. phase' = "failed" => ~(Ours /\ request.kind = "read")
        BY <1>1, <1>5, <3>1, MeterBits DEF LineInv
      <4>2. QED
        BY <1>6, <1>7, <1>8, <3>1, <4>1 DEF Stays
    <3>6. QED
      BY <3>3, <3>4, <3>5
  <2>6. CASE Meter!Confirm
    <3>1. /\ Stays /\ step = "ok"
          /\ \/ phase' = "failed" /\ TRUE \in Meter!HighBit
             \/ phase' = "failed" /\ ~(Meter!InPlace /\ msg_length = 1 + from.inner)
             \/ phase' = "fine"
      BY <2>6, MeterConfirm
    <3>2. ASSUME Ours, request.kind = "read"
          PROVE  phase' = "fine"
      <4>1. msg_length = 13 + from.len
        BY <1>1, <3>1, <3>2 DEF MeterExpected, Stays
      <4>2. msg_length # 13 /\ msg_length = 1 + from.inner
        BY <1>4, <1>5, <3>2, <4>1
      <4>3. TRUE \notin Meter!HighBit
        BY <1>1, <3>1, <4>2, MeterBits DEF LineInv
      <4>4. QED
        BY <3>1, <3>2, <4>2, <4>3
    <3>3. Meter!SoundReadConfirmed'
      BY <1>6, <1>7, <1>8, <3>1, <3>2 DEF Stays
    <3>4. QED
      BY <3>1, <3>3
  <2>7. CASE Close
    BY <1>8, <2>7 DEF Close
  <2>8. QED
    BY <2>1, <2>2, <2>3, <2>4, <2>5, <2>6, <2>7, MeterShared
       DEF Meter!Driver, Meter!Reception, Meter!Closing
<1>10. QED
  BY <1>1, <1>3, <1>9 DEF MeterInv

------------------------------------------------------------------------------
(* dlt645_router                                                             *)

LEMMA MeterRShared ==
  /\ MeterR!Receive <=> Receive
  /\ MeterR!Timeout <=> Timeout
  /\ MeterR!ReadFails <=> ReadFails
  /\ MeterR!Close <=> Close
  /\ MeterR!Clean <=> Clean
  /\ MeterR!Sound <=> Sound
  /\ MeterR!InPlace <=> Sound /\ start = from.head
  BY DEF MeterR!Receive, MeterR!Waiting, Receive, Waiting, MeterR!Timeout, Timeout,
     MeterR!ReadFails, ReadFails, MeterR!Fail, Fail, MeterR!message, message,
     MeterR!Close, Close, MeterR!InPlace, MeterR!Clean, Clean, MeterR!Sound, Sound

LEMMA MeterRSizes ==
  /\ MeterR!header_length = 10 /\ MeterR!end_length = 2 /\ MeterR!outer_checksum = 2
  /\ RouterHeader \in Nat /\ RouterHeader > 0 /\ MaxPreamble \in Nat /\ Preambles \subseteq Nat
<1>1. MeterR!header_length = 10 /\ MeterR!end_length = 2 /\ MeterR!outer_checksum = 2
  BY DEF MeterR!header_length, MeterR!end_length, MeterR!outer_checksum
<1>2. QED
  BY <1>1, ProtocolsAssumption DEF MeterR!Dlt645RouterConstants

LEMMA MeterRLengths ==
  ASSUME LineTypes, request.kind \in {"read", "write"}
  PROVE  /\ request.kind \in Functions /\ MeterR!DataLength(request) \in Nat
         /\ \A n \in Nat : MeterR!InnerLength(n) = 12 + n
<1>1. request.num \in Nat /\ request.kind \in Functions
  BY DEF LineTypes, Functions
<1>2. \A n \in Nat : MeterR!InnerLength(n) = 12 + n
  BY MeterRSizes DEF MeterR!InnerLength
<1>3. QED
  BY <1>1, <1>2 DEF MeterR!DataLength

LEMMA MeterRClosed == Closed(MeterRFrames)
<1>1. MeterRFrames \subseteq FreshFrames
  BY DEF MeterRFrames
<1>2. \A f \in FreshFrames : ~f.sound => f \in MeterRFrames
  BY DEF MeterRFrames
<1>3. ASSUME NEW f \in MeterRFrames
      PROVE  [f EXCEPT !.clean = FALSE] \in MeterRFrames
  <2> DEFINE u == [f EXCEPT !.clean = FALSE]
  <2>1. /\ u \in Frames /\ u.function = f.function /\ u.len = f.len
        /\ u.head = f.head /\ u.inner = f.inner /\ u.sound = f.sound /\ u.to = f.to
    BY UncleanFrame DEF MeterRFrames, FreshFrames
  <2> HIDE DEF u
  <2>2. u \in FreshFrames
    BY <2>1 DEF MeterRFrames, FreshFrames
  <2>3. MeterR!IsAnswer(u, request) <=> MeterR!IsAnswer(f, request)
    BY <2>1 DEF MeterR!IsAnswer
  <2>4. u \in MeterRFrames
    BY <2>1, <2>2, <2>3 DEF MeterRFrames
  <2>5. QED
    BY <2>4 DEF u
<1>4. QED
  BY <1>1, <1>2, <1>3 DEF Closed

MeterRAnswersOf(pre) ==
  Answers(MeterR!Answer(pre), MeterR!Refusal(pre), {Foreign(MeterR!Refusal(pre))})

LEMMA MeterRAnswers ==
  ASSUME LineTypes, request.kind \in {"read", "write"}, NEW pre \in Nat
  PROVE  MeterRAnswersOf(pre) \subseteq Seq(MeterRFrames)
<1>1. exchange \in Nat
  BY DEF LineTypes
<1> DEFINE head == RouterHeader + pre
<1>2. head \in Nat /\ head >= RouterHeader
  BY MeterRSizes
<1>3. 2 \in Nat /\ MeterR!outer_checksum = 2
  BY MeterRSizes
<1> HIDE DEF head
<1>4. MeterR!Answer(pre) \in MeterRFrames
  <2> DEFINE k == request.kind
             len == MeterR!DataLength(request)
             inner == MeterR!InnerLength(len)
             a == Frame(k, len, head, inner, 2)
  <2>1. k \in Functions /\ len \in Nat /\ inner \in Nat
    BY MeterRLengths
  <2>2. inner = 12 + len
    BY MeterRLengths
  <2>3. MeterR!Answer(pre) = a
    BY <1>3 DEF MeterR!Answer, MeterR!Frame, Frame, head
  <2> HIDE DEF k, len, inner
  <2>4. a \in FreshFrames /\ a.inner = inner /\ a.len = len /\ a.head = head
    BY <1>1, <1>2, <1>3, <2>1, NewFrame
  <2> HIDE DEF a
  <2>5. QED
    BY <1>2, <2>2, <2>3, <2>4 DEF MeterRFrames
<1>5. \A f \in FreshFrames : f.function \notin {"read", "write"} => f \in MeterRFrames
  BY DEF MeterRFrames, MeterR!IsAnswer
<1>6. MeterR!Refusal(pre) \in FreshFrames /\ MeterR!Refusal(pre).function = "exception"
  <2>1. 13 \in Nat /\ 1 \in Nat /\ "exception" \in Functions
    BY DEF Functions
  <2>2. MeterR!InnerLength(1) = 13
    BY MeterRLengths
  <2>3. MeterR!Refusal(pre) = Frame("exception", 1, head, 13, 2)
    BY <1>3, <2>2 DEF MeterR!Refusal, MeterR!Frame, Frame, head
  <2>4. QED
    BY <1>1, <1>2, <1>3, <2>1, <2>3, NewFrame
<1>7. /\ MeterR!Refusal(pre) \in MeterRFrames
      /\ {Foreign(MeterR!Refusal(pre))} \in SUBSET MeterRFrames
  BY <1>5, <1>6, ForeignFrame
<1>8. QED
  BY <1>4, <1>7, MeterRClosed, AnswersIn DEF MeterRAnswersOf

LEMMA MeterRSends ==
  ASSUME LineInv, request.kind \in {"read", "write"}, MeterR!ReadSend \/ MeterR!RelaySend
  PROVE  Sent(MeterRFrames, "router_header", RouterHeader) /\ head_pre_count' = 0
<1>1. head_pre_count' = 0
  BY DEF MeterR!ReadSend, MeterR!RelaySend, MeterR!Send
<1>2. PICK kind \in {"read", "write"}, pre \in Preambles :
        SendMsg(kind, TRUE, MeterRAnswersOf(pre), "router_header", RouterHeader)
  BY DEF MeterR!ReadSend, MeterR!RelaySend, MeterR!Send, MeterR!SendMsg, SendMsg,
     MeterR!Fail, Fail, MeterR!message, message, MeterRAnswersOf, MeterR!Answers, Answers,
     MeterR!Foreign, Foreign
<1>3. pre \in Nat
  BY MeterRSizes
<1>4. MeterRAnswersOf(pre) \subseteq Seq(MeterRFrames)
  BY <1>3, MeterRAnswers DEF LineInv
<1>5. QED
  BY <1>1, <1>2, <1>4, SendMsgSends

\* A step that throws away what was read.
Drops(s, t, n) ==
  /\ phase = "receive" /\ step = s /\ length_to_read = 0
  /\ UNCHANGED <<phase, request, exchange, function, from, aligned, line, consumed>>
  /\ step' = t /\ length_to_read' = n /\ start' = start + msg_length /\ msg_length' = 0

LEMMA MeterRDrops ==
  /\ MeterR!StepRouterHeader => Drops("router_header", "header", 1) /\ UNCHANGED head_pre_count
  /\ MeterR!StepPreamble => /\ Drops("header", "header", 1)
                            /\ head_pre_count' = head_pre_count + 1
                            /\ start < from.head \/ ~Clean
  BY MeterRShared
     DEF MeterR!StepRouterHeader, MeterR!StepPreamble, MeterR!StepAt, MeterR!At, MeterR!Drop,
         Drops

LEMMA MeterRAsks ==
  /\ MeterR!StepStart => /\ Asks("header", "data", 9)
                         /\ head_pre_count' = head_pre_count + 1
                         /\ start >= from.head \/ ~Clean
  /\ MeterR!StepSum => Asks("sum", "ok", 2) /\ UNCHANGED head_pre_count
  BY MeterRShared, MeterRSizes
     DEF MeterR!StepStart, MeterR!StepSum, MeterR!StepAt, MeterR!At, MeterR!Proceed, Asks

LEMMA MeterRData ==
  ASSUME LineInv, MeterR!StepData
  PROVE  /\ \E n \in Nat : Asks("data", "sum", n) /\ (MeterR!InPlace => n = from.len)
         /\ UNCHANGED head_pre_count
<1>1. from.len \in Nat
  BY DEF LineInv, Fresh, FreshFrames, Frames
<1>2. PICK n \in (IF MeterR!InPlace THEN {from.len} ELSE Garbled) : MeterR!Proceed("sum", n)
  BY DEF MeterR!StepData
<1>3. n \in Nat /\ (MeterR!InPlace => n = from.len)
  BY <1>1, RtuLineAssumption
<1>4. Asks("data", "sum", n) /\ UNCHANGED head_pre_count
  BY <1>2 DEF MeterR!StepData, MeterR!StepAt, MeterR!At, MeterR!Proceed, Asks
<1>5. QED
  BY <1>3, <1>4

LEMMA MeterRTooMany ==
  ASSUME MeterR!TooManyPreambles
  PROVE  /\ Stays /\ phase' = "failed" /\ UNCHANGED <<step, length_to_read, head_pre_count>>
         /\ head_pre_count > MaxPreamble
  BY DEF MeterR!TooManyPreambles, MeterR!Refuse, MeterR!Rejected, Stays

LEMMA MeterRConfirm ==
  ASSUME MeterR!Confirm
  PROVE  /\ Stays /\ step = "ok" /\ UNCHANGED <<step, length_to_read, head_pre_count>>
         /\ \/ phase' = "failed" /\ ~(MeterR!InPlace /\ msg_length = from.inner)
            \/ phase' = "fine" /\ MeterR!InPlace
<1>1. phase = "receive" /\ length_to_read = 0 /\ step = "ok" /\ UNCHANGED head_pre_count
  BY DEF MeterR!Confirm, MeterR!StepAt, MeterR!At
<1>2. CASE MeterR!InPlace /\ msg_length = from.inner
  <2>1. MeterR!Conclude("none")
    BY <1>2 DEF MeterR!Confirm
  <2>2. QED
    BY <1>1, <1>2, <2>1 DEF MeterR!Conclude, MeterR!message, Stays
<1>3. CASE ~(MeterR!InPlace /\ msg_length = from.inner)
  <2>1. MeterR!Conclude("EMBBADCRC")
    BY <1>3 DEF MeterR!Confirm
  <2>2. QED
    BY <1>1, <1>3, <2>1 DEF MeterR!Conclude, MeterR!Fail, MeterR!message, Stays
<1>4. QED
  BY <1>2, <1>3

LEMMA DropsMoves ==
  ASSUME LineInv, NEW S, NEW s, NEW t \in Steps, NEW n \in Nat, Drops(s, t, n)
  PROVE  DriverStep /\ LineMove(S)
<1>1. Advances
  BY DEF LineInv, LineTypes, Drops, Advances
<1>2. QED
  BY <1>1 DEF DriverStep, Advances, LineMove

LEMMA MeterRMoves ==
  ASSUME LineInv, request.kind \in {"read", "write"}, MeterR!Driver
  PROVE  DriverStep /\ (Receive \/ LineMove(MeterRFrames))
<1>1. CASE MeterR!ReadSend \/ MeterR!RelaySend
  <2>1. /\ Sent(MeterRFrames, "router_header", RouterHeader)
        /\ "router_header" \in Steps /\ RouterHeader \in Nat
    BY <1>1, MeterRSends, MeterRSizes DEF Steps
  <2>2. QED
    BY <2>1, SentIsSends, SentMoves, MeterRClosed DEF DriverStep, Closed
<1>2. CASE Receive
  BY <1>2 DEF DriverStep
<1>3. CASE Timeout \/ ReadFails
  <2>1. Ends
    BY <1>3 DEF Timeout, ReadFails, Waiting, Fail, Ends
  <2>2. QED
    BY <2>1 DEF DriverStep, Ends, LineMove, message
<1>4. CASE MeterR!StepRouterHeader \/ MeterR!StepPreamble
  <2>1. \E s \in Steps : Drops(s, "header", 1)
    BY <1>4, MeterRDrops DEF Steps
  <2>2. "header" \in Steps /\ 1 \in Nat
    BY DEF Steps
  <2>3. QED
    BY <2>1, <2>2, DropsMoves
<1>5. CASE MeterR!StepStart \/ MeterR!StepSum \/ MeterR!StepData
  <2>1. \E s \in Steps, t \in Steps, n \in Nat : Asks(s, t, n)
    <3>1. CASE MeterR!StepData
      BY <3>1, MeterRData DEF Steps
    <3>2. CASE MeterR!StepStart \/ MeterR!StepSum
      BY <3>2, MeterRAsks DEF Steps
    <3>3. QED
      BY <1>5, <3>1, <3>2
  <2>2. QED
    BY <2>1, AsksMoves
<1>6. CASE MeterR!TooManyPreambles \/ MeterR!Confirm
  <2>1. Ends
    BY <1>6, MeterRTooMany, MeterRConfirm
       DEF MeterR!InPlace, MeterR!Sound, Ends, Stays, message
  <2>2. QED
    BY <2>1 DEF DriverStep, Ends, LineMove, message
<1>7. CASE Close
  BY <1>7 DEF DriverStep, Close, LineMove, message
<1>8. QED
  BY <1>1, <1>2, <1>3, <1>4, <1>5, <1>6, <1>7, MeterRShared
     DEF MeterR!Driver, MeterR!Reception, MeterR!Closing

LEMMA MeterROpens ==
  ASSUME LineInv, phase = "closed", MeterR!Opening, head_pre_count \in Nat
  PROVE  MeterRInv'
<1>1. /\ msg_length' = 0 /\ start' = 0 /\ request' \in MeterR!Requests
      /\ phase' \in {"open", "failed"} /\ from' = NoFrame /\ line' = <<>>
      /\ head_pre_count' \in Nat
  BY DEF MeterR!Opening, MeterR!Connect, MeterR!Fail, MeterR!NoFrame, NoFrame, LineInv, Quiet
<1>2. request'.kind \in {"read", "write"}
  BY <1>1
     DEF MeterR!Requests, MeterR!ReadRequests, MeterR!RelayOn, MeterR!RelayOff,
         MeterR!Request
<1>3. NoFrame \in MeterRFrames' /\ line' \in Seq(MeterRFrames')
  <2>1. NoFrame \in FreshFrames'
    BY NoFrameInFrames DEF FreshFrames, Frames, NoFrame
  <2>2. QED
    BY <1>1, <2>1, NoFrameInFrames, EmptySeq DEF MeterRFrames
<1>4. MeterR!SoundAnswerConfirmed'
  BY <1>1 DEF MeterR!SoundAnswerConfirmed
<1>5. QED
  BY <1>1, <1>2, <1>3, <1>4 DEF MeterRInv

LEMMA MeterRStep ==
  ASSUME LineInv, MeterRInv, MeterR!Driver
  PROVE  MeterRInv'
<1> DEFINE Placed == phase = "receive" =>
             /\ step = "router_header" =>
                  start = 0 /\ msg_length + length_to_read = RouterHeader /\ head_pre_count = 0
             /\ step = "header" =>
                  msg_length + length_to_read = 1 /\ start = RouterHeader + head_pre_count
             /\ step # "router_header" => start > 0
           InHead == step = "header" => start <= from.head
           Behind == step \notin {"router_header", "header"} =>
                       /\ start = from.head /\ head_pre_count = start - RouterHeader + 1
                       /\ msg_length + length_to_read = MeterRExpected
           Come == phase = "receive" /\ Answering => InHead /\ Behind
           Few == from.head - RouterHeader < MaxPreamble
<1>1. /\ msg_length \in Nat /\ length_to_read \in Nat /\ start \in Nat
      /\ head_pre_count \in Nat
      /\ Placed /\ Come
      /\ request.kind \in {"read", "write"}
      /\ phase = "open" => length_to_read = 0 /\ msg_length = 0 /\ start = 0
  <2>1. Placed
    BY DEF MeterRInv
  <2>2. Come
    BY DEF MeterRInv
  <2>3. QED
    BY <2>1, <2>2 DEF LineInv, LineTypes, MeterRInv, Quiet
<1>2. DriverStep /\ (Receive \/ LineMove(MeterRFrames))
  BY <1>1, MeterRMoves
<1>3. /\ LineInv' /\ request' = request /\ MeterRFrames' = MeterRFrames
      /\ line' \in Seq(MeterRFrames') /\ from' \in MeterRFrames'
  <2>1. LineInv' /\ request' = request /\ FreshFrames' = FreshFrames
    BY <1>2, DriverStepKeepsLine
  <2>2. MeterRFrames' = MeterRFrames
    BY <2>1 DEF MeterRFrames, MeterR!IsAnswer, MeterR!DataLength
  <2>3. QED
    BY <1>2, <2>1, <2>2, MovedFrames DEF MeterRInv
<1>4. from.len \in Nat /\ from.head \in Nat /\ RouterHeader \in Nat /\ RouterHeader > 0
      /\ MaxPreamble \in Nat
  BY MeterRSizes DEF LineInv, Fresh, FreshFrames, Frames
<1>5. Answering => from.inner = 12 + from.len /\ from.head >= RouterHeader /\ Sound
  BY DEF MeterRInv, MeterRFrames, Answering, Sound
<1>6. UNCHANGED <<from, aligned>> => (Answering' <=> Answering)
  BY <1>3 DEF Answering, Clean, Sound, MeterR!IsAnswer, MeterR!DataLength
<1>7. /\ phase' # "failed" => MeterR!SoundAnswerConfirmed'
      /\ start' + msg_length' = 0 => MeterR!SoundAnswerConfirmed'
      /\ ~(Answering' /\ Few') => MeterR!SoundAnswerConfirmed'
  BY DEF MeterR!SoundAnswerConfirmed, MeterR!RefusedWhole, Answering, Clean, MeterR!Clean,
     Sound, MeterR!Sound
<1>8. head_pre_count' \in Nat /\ Placed' /\ Come' /\ MeterR!SoundAnswerConfirmed'
  <2>1. CASE MeterR!ReadSend \/ MeterR!RelaySend
    <3>1. Sent(MeterRFrames, "router_header", RouterHeader) /\ head_pre_count' = 0
      BY <1>1, <2>1, MeterRSends
    <3>2. /\ msg_length' = 0 /\ start' = 0 /\ head_pre_count' = 0
          /\ \/ phase' = "receive" /\ step' = "router_header" /\ length_to_read' = RouterHeader
             \/ phase' = "failed"
      BY <1>1, <3>1 DEF Sent
    <3>3. Placed'
      BY <1>4, <3>2
    <3>4. Come'
      BY <3>2
    <3>5. QED
      BY <1>7, <3>2, <3>3, <3>4
  <2>2. CASE Receive /\ UNCHANGED head_pre_count
    <3>1. /\ phase = "receive" /\ phase' = "receive"
          /\ UNCHANGED <<step, request, start, head_pre_count>>
          /\ msg_length' \in Nat /\ length_to_read' \in Nat
          /\ msg_length' + length_to_read' = msg_length + length_to_read
      BY <2>2, ReceiveTypes DEF Receive, Waiting, LineInv
    <3>2. step # "router_header" => from' = from /\ (Sound' => Sound) /\ (Clean' => Clean)
      BY <1>1, <2>2, <3>1, KeptByReceive DEF LineInv
    <3>3. Placed'
      BY <1>1, <3>1
    <3>4. Come'
      <4>1. CASE step = "router_header"
        BY <3>1, <4>1
      <4>2. CASE step # "router_header"
        <5>1. Answering' => Answering
          BY <3>1, <3>2, <4>2 DEF Answering, MeterR!IsAnswer, MeterR!DataLength
        <5>2. MeterRExpected' = MeterRExpected /\ from' = from
          BY <3>1, <3>2, <4>2 DEF MeterRExpected
        <5>3. QED
          BY <1>1, <3>1, <5>1, <5>2
      <4>3. QED
        BY <4>1, <4>2
    <3>5. QED
      BY <1>1, <1>7, <3>1, <3>3, <3>4
  <2>3. CASE (Timeout \/ ReadFails) /\ UNCHANGED head_pre_count
    <3>1. phase' = "failed" /\ errno' \in {"ETIMEDOUT", "ECONNRESET"}
      BY <2>3 DEF Timeout, ReadFails, Fail
    <3>2. MeterR!SoundAnswerConfirmed'
      BY <3>1 DEF MeterR!SoundAnswerConfirmed, MeterR!RefusedWhole
    <3>3. QED
      BY <1>1, <2>3, <3>1, <3>2
  <2>4. CASE MeterR!TooManyPreambles
    <3>1. Stays /\ phase' = "failed" /\ head_pre_count' = head_pre_count
          /\ head_pre_count > MaxPreamble
      BY <2>4, MeterRTooMany
    <3>2. Answering => ~Few
      <4>1. CASE step = "router_header"
        BY <1>1, <1>4, <3>1, <4>1 DEF Stays
      <4>2. CASE step = "header"
        <5>1. Answering => start <= from.head /\ start = RouterHeader + head_pre_count
          BY <1>1, <3>1, <4>2 DEF Stays
        <5>2. QED
          BY <1>1, <1>4, <3>1, <5>1
      <4>3. CASE step \notin {"router_header", "header"}
        <5>1. Answering => start = from.head /\ head_pre_count = start - RouterHeader + 1
          BY <1>1, <3>1, <4>3 DEF Stays
        <5>2. QED
          BY <1>1, <1>4, <1>5, <3>1, <5>1
      <4>4. QED
        BY <4>1, <4>2, <4>3
    <3>3. MeterR!SoundAnswerConfirmed'
      BY <1>6, <1>7, <3>1, <3>2 DEF Stays
    <3>4. QED
      BY <1>1, <3>1, <3>3
  <2>5. CASE MeterR!StepRouterHeader
    <3>1. Drops("router_header", "header", 1) /\ head_pre_count' = head_pre_count
      BY <2>5, MeterRDrops
    <3>2. /\ phase' = "receive" /\ step' = "header" /\ length_to_read' = 1
          /\ start' = RouterHeader /\ msg_length' = 0 /\ head_pre_count' = 0
          /\ UNCHANGED <<from, aligned>>
      BY <1>1, <1>4, <3>1 DEF Drops
    <3>3. Placed'
      BY <1>4, <3>2
    <3>4. Come'
      BY <1>5, <1>6, <3>2
    <3>5. QED
      BY <1>7, <3>2, <3>3, <3>4
  <2>6. CASE MeterR!StepPreamble
    <3>1. /\ Drops("header", "header", 1) /\ head_pre_count' = head_pre_count + 1
          /\ start < from.head \/ ~Clean
      BY <2>6, MeterRDrops
    <3>2. /\ phase' = "receive" /\ step' = "header" /\ length_to_read' = 1
          /\ start' = start + 1 /\ msg_length' = 0 /\ UNCHANGED <<from, aligned>>
          /\ start = RouterHeader + head_pre_count
      BY <1>1, <3>1 DEF Drops
    <3>3. Placed'
      BY <1>1, <1>4, <3>1, <3>2
    <3>4. Come'
      <4>1. Answering => start' <= from.head
        BY <1>1, <1>4, <3>1, <3>2 DEF Answering
      <4>2. QED
        BY <1>6, <3>2, <4>1
    <3>5. QED
      BY <1>1, <1>7, <3>1, <3>2, <3>3, <3>4
  <2>7. CASE MeterR!StepStart
    <3>1. /\ Asks("header", "data", 9) /\ head_pre_count' = head_pre_count + 1
          /\ start >= from.head \/ ~Clean
      BY <2>7, MeterRAsks
    <3>2. /\ phase = "receive" /\ step = "header" /\ msg_length = 1
          /\ phase' = "receive" /\ step' = "data" /\ length_to_read' = 9
          /\ UNCHANGED <<start, msg_length, from, aligned>>
          /\ start = RouterHeader + head_pre_count /\ start > 0
      BY <1>1, <3>1 DEF Asks
    <3>3. Placed'
      BY <3>2
    <3>4. Come'
      <4>1. Answering => start = from.head
        BY <1>1, <1>4, <3>1, <3>2 DEF Answering
      <4>2. head_pre_count' = start - RouterHeader + 1
        BY <1>1, <1>4, <3>1, <3>2
      <4>3. MeterRExpected' = 10
        BY <3>2 DEF MeterRExpected
      <4>4. msg_length' + length_to_read' = 10
        BY <3>2
      <4>5. QED
        BY <1>6, <3>2, <4>1, <4>2, <4>3, <4>4
    <3>5. QED
      BY <1>1, <1>7, <3>1, <3>2, <3>3, <3>4
  <2>8. CASE MeterR!StepData
    <3>1. PICK n \in Nat : Asks("data", "sum", n) /\ (MeterR!InPlace => n = from.len)
      BY <2>8, MeterRData DEF LineInv
    <3>2. head_pre_count' = head_pre_count
      BY <2>8, MeterRData
    <3>3. /\ phase = "receive" /\ step = "data" /\ length_to_read = 0 /\ start > 0
          /\ phase' = "receive" /\ step' = "sum" /\ length_to_read' = n
          /\ UNCHANGED <<start, msg_length, from, aligned>>
      BY <1>1, <3>1 DEF Asks
    <3>4. Placed'
      BY <3>3
    <3>5. Come'
      <4>1. Answering => /\ start = from.head /\ head_pre_count = start - RouterHeader + 1
                         /\ msg_length = 10
        BY <1>1, <3>3 DEF MeterRExpected
      <4>2. Answering => n = from.len
        BY <1>5, <3>1, <4>1, MeterRShared
      <4>3. MeterRExpected' = 10 + from.len
        BY <3>3 DEF MeterRExpected
      <4>4. Answering => msg_length' + length_to_read' = 10 + from.len
        BY <3>3, <4>1, <4>2
      <4>5. QED
        BY <1>6, <3>2, <3>3, <4>1, <4>3, <4>4
    <3>6. QED
      BY <1>1, <1>7, <3>2, <3>3, <3>4, <3>5
  <2>9. CASE MeterR!StepSum
    <3>1. Asks("sum", "ok", 2) /\ head_pre_count' = head_pre_count
      BY <2>9, MeterRAsks
    <3>2. /\ phase = "receive" /\ step = "sum" /\ length_to_read = 0 /\ start > 0
          /\ phase' = "receive" /\ step' = "ok" /\ length_to_read' = 2
          /\ UNCHANGED <<start, msg_length, from, aligned>>
      BY <1>1, <3>1 DEF Asks
    <3>3. Placed'
      BY <3>2
    <3>4. Come'
      <4>1. Answering => /\ start = from.head /\ head_pre_count = start - RouterHeader + 1
                         /\ msg_length = 10 + from.len
        BY <1>1, <3>2 DEF MeterRExpected
      <4>2. MeterRExpected' = 12 + from.len
        BY <3>2 DEF MeterRExpected
      <4>3. Answering => msg_length' + length_to_read' = 12 + from.len
        BY <1>4, <3>2, <4>1
      <4>4. QED
        BY <1>6, <3>1, <3>2, <4>1, <4>2, <4>3
    <3>5. QED
      BY <1>1, <1>7, <3>1, <3>2, <3>3, <3>4
  <2>10. CASE MeterR!Confirm
    <3>1. /\ Stays /\ step = "ok" /\ head_pre_count' = head_pre_count
          /\ \/ phase' = "failed" /\ ~(MeterR!InPlace /\ msg_length = from.inner)
             \/ phase' = "fine"
      BY <2>10, MeterRConfirm
    <3>2. ASSUME Answering
          PROVE  phase' = "fine"
      <4>1. start = from.head /\ msg_length = 12 + from.len
        BY <1>1, <3>1, <3>2 DEF MeterRExpected, Stays
      <4>2. QED
        BY <1>5, <3>1, <3>2, <4>1, MeterRShared
    <3>3. MeterR!SoundAnswerConfirmed'
      BY <1>6, <1>7, <3>1, <3>2 DEF Stays
    <3>4. QED
      BY <1>1, <3>1, <3>3
  <2>11. CASE Close /\ UNCHANGED head_pre_count
    BY <1>1, <1>7, <2>11 DEF Close
  <2>12. QED
    BY <2>1, <2>2, <2>3, <2>4, <2>5, <2>6, <2>7, <2>8, <2>9, <2>10, <2>11, MeterRShared
       DEF MeterR!Driver, MeterR!Reception, MeterR!Closing
<1>9. QED
  <2>1. request'.kind \in {"read", "write"}
    BY <1>1, <1>3
  <2>2. QED
    BY <1>3, <1>8, <2>1 DEF MeterRInv

------------------------------------------------------------------------------
(* The drivers taking turns                                                  *)

LEMMA InitKeeps == ProtocolsInit => IInv
<1> SUFFICES ASSUME ProtocolsInit PROVE IInv
  OBVIOUS
<1>1. LineInv
  BY LineInit
<1>2. /\ protocol = "modbus" /\ head_pre_count = 0 /\ phase = "closed" /\ request \in Requests
      /\ step = "function" /\ msg_length = 0 /\ length_to_read = 0 /\ start = 0
      /\ from = NoFrame /\ line = <<>>
  BY DEF ProtocolsInit, Init, InitLine
<1>3. request.kind \in {"read", "write"}
  BY <1>2 DEF Requests, ReadRequests, WriteRequests, RelayRequests, Request
<1>4. NoFrame \in ModbusFrames /\ line \in Seq(ModbusFrames)
  BY <1>2, NoFrameInFrames, EmptySeq DEF ModbusFrames
<1>5. ConfirmedIsAnswer /\ SoundAnswerConfirmed
  BY <1>2 DEF ConfirmedIsAnswer, SoundAnswerConfirmed
<1>6. ModbusInv
  BY <1>2, <1>3, <1>4, <1>5, NoFrameInFrames DEF ModbusInv, ModbusReach
<1>7. QED
  BY <1>1, <1>2, <1>6 DEF IInv, DriverInv

\* Whichever driver is at work, what it does is a step of a driver.
LEMMA WorkIsDriverStep ==
  ASSUME IInv, Work
  PROVE  DriverStep
  BY ModbusMoves, ModbusRMoves, DsBusRMoves, MeterMoves, MeterRMoves
     DEF IInv, DriverInv, ModbusInv, ModbusRInv, MeterInv, MeterRInv, Work, Use

LEMMA OpenKeeps ==
  ASSUME IInv, Open
  PROVE  IInv'
<1>1. LineInv /\ head_pre_count \in Nat
  BY DEF IInv, DriverInv
<1>2. LineInv'
  BY <1>1, OpenKeepsLine
<1>3. head_pre_count' \in Nat
  BY <1>1 DEF Open, Plain, MeterR!Opening
<1>4. /\ protocol' = "modbus" => ModbusInv'
      /\ protocol' = "modbus_router" => ModbusRInv'
      /\ protocol' = "ds_bus_router" => DsBusRInv'
      /\ protocol' = "dlt645" => MeterInv'
      /\ protocol' = "dlt645_router" => MeterRInv'
  <2>1. CASE Getprotocol("modbus") /\ Connect(Requests)
    BY <1>1, <2>1, ModbusOpens DEF Getprotocol
  <2>2. CASE Getprotocol("modbus_router") /\ ModbusR!Opening
    BY <1>1, <2>2, ModbusROpens DEF Getprotocol
  <2>3. CASE Getprotocol("ds_bus_router") /\ DsBusR!Opening
    BY <1>1, <2>3, DsBusROpens DEF Getprotocol
  <2>4. CASE Getprotocol("dlt645") /\ Meter!Opening
    BY <1>1, <2>4, MeterOpens DEF Getprotocol
  <2>5. CASE Getprotocol("dlt645_router") /\ MeterR!Opening
    BY <1>1, <2>5, MeterROpens DEF Getprotocol
  <2>6. QED
    BY <2>1, <2>2, <2>3, <2>4, <2>5 DEF Open
<1>5. QED
  BY <1>2, <1>3, <1>4 DEF IInv, DriverInv

LEMMA WorkKeeps ==
  ASSUME IInv, Work
  PROVE  IInv'
<1>1. LineInv /\ DriverInv /\ head_pre_count \in Nat /\ protocol' = protocol
  BY DEF IInv, DriverInv, Work, Use
<1>2. LineInv'
  BY <1>1, WorkIsDriverStep, DriverStepKeepsLine
<1>3. DriverInv'
  <2>1. CASE Use("modbus") /\ Driver /\ Plain
    BY <1>1, <2>1, ModbusStep DEF Use, Plain, DriverInv
  <2>2. CASE Use("modbus_router") /\ ModbusR!Driver /\ Plain
    BY <1>1, <2>2, ModbusRStep DEF Use, Plain, DriverInv
  <2>3. CASE Use("ds_bus_router") /\ DsBusR!Driver /\ Plain
    BY <1>1, <2>3, DsBusRStep DEF Use, Plain, DriverInv
  <2>4. CASE Use("dlt645") /\ Meter!Driver /\ Plain
    BY <1>1, <2>4, MeterStep DEF Use, Plain, DriverInv
  <2>5. CASE Use("dlt645_router") /\ MeterR!Driver
    <3>1. MeterRInv'
      BY <1>1, <2>5, MeterRStep DEF Use, DriverInv
    <3>2. protocol' = "dlt645_router" /\ head_pre_count' \in Nat
      BY <2>5, <3>1 DEF Use, MeterRInv
    <3>3. QED
      BY <3>1, <3>2 DEF DriverInv
  <2>6. QED
    BY <2>1, <2>2, <2>3, <2>4, <2>5 DEF Work
<1>4. QED
  BY <1>2, <1>3 DEF IInv

LEMMA StutterKeeps ==
  ASSUME IInv, UNCHANGED ProtocolsVars
  PROVE  IInv'
<1>1. UNCHANGED <<phase, request, exchange, step, length_to_read, msg_length, start, function,
                  from, aligned, line, consumed, errno, protocol, head_pre_count>>
  BY DEF ProtocolsVars, vars, message
<1>2. LineInv'
  BY <1>1 DEF IInv, LineInv, LineTypes, Quiet, Fresh, FreshFrames, Frames
<1>3. UNCHANGED FreshFrames
  BY <1>1 DEF FreshFrames, Frames
<1>4. /\ UNCHANGED <<ModbusFrames, ModbusRFrames, DsBusRFrames, MeterFrames, MeterRFrames>>
  BY <1>1, <1>3
     DEF ModbusFrames, ModbusRFrames, DsBusRFrames, MeterFrames, MeterRFrames,
         IsAnswer, ResponseLength, DataLength, ModbusR!IsAnswer, ModbusR!ResponseLength,
         ModbusR!DataLength, Meter!IsAnswer, Meter!DataLength, MeterR!IsAnswer,
         MeterR!DataLength
<1>5. ModbusInv => ModbusInv'
  BY <1>1, <1>4
     DEF ModbusInv, ModbusReach, ModbusExpected, Sound, IsAnswer, ResponseLength,
         DataLength, ConfirmedIsAnswer, SoundAnswerConfirmed, RefusedWhole
<1>6. ModbusRInv => ModbusRInv'
  BY <1>1, <1>4
     DEF ModbusRInv, ModbusRReach, ModbusRExpected, Sound, ModbusR!IsAnswer,
         ModbusR!DataLength, ModbusR!SoundReadConfirmed, ModbusR!Whole,
         ModbusR!RefusedWhole, ModbusR!Sound, ModbusR!Clean
<1>7. DsBusRInv => DsBusRInv'
  BY <1>1, <1>4
     DEF DsBusRInv, DsBusRReach, DsBusRExpected, Sound, DsBusR!IsAnswer, DsBusR!CrcLength,
         DsBusR!DataLength, DsBusR!Responses, DsBusR!ConfirmedIsAnswer,
         DsBusR!SoundAnswerConfirmed, DsBusR!RefusedWhole, DsBusR!Sound, DsBusR!Clean
<1>8. MeterInv => MeterInv'
  BY <1>1, <1>4
     DEF MeterInv, MeterExpected, Meter!InPlace, Meter!Sound, Meter!IsAnswer,
         Meter!DataLength, Meter!SoundReadConfirmed, Meter!RefusedWhole
<1>9. MeterRInv => MeterRInv'
  BY <1>1, <1>4
     DEF MeterRInv, MeterRExpected, Answering, Clean, Sound, MeterR!IsAnswer,
         MeterR!DataLength, MeterR!SoundAnswerConfirmed, MeterR!RefusedWhole, MeterR!Clean,
         MeterR!Sound
<1>10. QED
  BY <1>1, <1>2, <1>5, <1>6, <1>7, <1>8, <1>9 DEF IInv, DriverInv

LEMMA NextKeeps == IInv /\ [ProtocolsNext]_ProtocolsVars => IInv'
  BY OpenKeeps, WorkKeeps, StutterKeeps DEF ProtocolsNext

\* What holds of every state of a line whose drivers take turns.
THEOREM InductiveInvariant == ProtocolsSpec => []IInv
<1>1. ProtocolsInit => IInv
  BY InitKeeps
<1>2. IInv /\ [ProtocolsNext]_ProtocolsVars => IInv'
  BY NextKeeps
<1>3. QED
  BY <1>1, <1>2, PTL DEF ProtocolsSpec

\* Whatever a line carries, garbage in a length field included, and whichever driver used
\* it before: receive_msg() of modbus, modbus_router and ds_bus_router never asks for more
\* bytes than its buffer holds, and check_confirmation() of modbus and ds_bus_router takes
\* no frame for an answer to something else than was asked.
THEOREM DriversSafeHolds == ProtocolsSpec => []DriversSafe
<1>1. IInv => DriversSafe
  <2>1. SUFFICES ASSUME IInv PROVE DriversSafe
    OBVIOUS
  <2>2. msg_length \in Nat /\ length_to_read \in Nat
    BY <2>1 DEF IInv, LineInv, LineTypes
  <2>3. ConfirmedAnswers
    BY <2>1 DEF IInv, DriverInv, ModbusInv, DsBusRInv, ConfirmedAnswers
  <2>4. ASSUME protocol = "modbus"
        PROVE  BufferRespected
    <3>1. msg_length + length_to_read <= ModbusReach
      BY <2>1, <2>4 DEF IInv, DriverInv, ModbusInv
    <3>2. ModbusReach \in Nat /\ ModbusReach <= MaxMessage
      BY ModbusSizes DEF ModbusReach
    <3>3. QED
      BY <2>2, <3>1, <3>2, ModbusSizes DEF BufferRespected
  <2>5. ASSUME protocol = "modbus_router"
        PROVE  ModbusR!BufferRespected
    <3>1. msg_length + length_to_read <= ModbusRReach
      BY <2>1, <2>5 DEF IInv, DriverInv, ModbusRInv
    <3>2. ModbusRReach \in Nat /\ ModbusRReach <= MaxMessageOf["modbus_router"]
      BY ModbusRSizes DEF ModbusRReach
    <3>3. QED
      BY <2>2, <3>1, <3>2, ModbusRSizes DEF ModbusR!BufferRespected
  <2>6. ASSUME protocol = "ds_bus_router"
        PROVE  DsBusR!BufferRespected
    <3>1. msg_length + length_to_read <= DsBusRReach
      BY <2>1, <2>6 DEF IInv, DriverInv, DsBusRInv
    <3>2. DsBusRReach \in Nat /\ DsBusRReach <= MaxMessageOf["ds_bus_router"]
      BY DsBusRSizes DEF DsBusRReach
    <3>3. QED
      BY <2>2, <3>1, <3>2, DsBusRSizes DEF DsBusR!BufferRespected
  <2>7. QED
    BY <2>3, <2>4, <2>5, <2>6 DEF DriversSafe, BuffersRespected
<1>2. QED
  BY <1>1, InductiveInvariant, PTL

\* What a device answers in time and undamaged is not refused, on any of the five
\* protocols, whatever the exchange before left behind: receive_msg() asks for exactly the
\* bytes of the answer, step by step, and the confirmation that follows accepts it.
THEOREM SoundAnswersConfirmedHolds == ProtocolsSpec => []SoundAnswersConfirmed
<1>1. IInv => SoundAnswersConfirmed
  BY DEF IInv, DriverInv, ModbusInv, ModbusRInv, DsBusRInv, MeterInv, MeterRInv,
     SoundAnswersConfirmed
<1>2. QED
  BY <1>1, InductiveInvariant, PTL

------------------------------------------------------------------------------
(* What the callers of a driver rely on                                      *)


LEMMA OpenBegins ==
  ASSUME Open
  PROVE  Exchange!Begin
<1>1. Connect(AllRequests)
  BY Opens
<1>2. /\ phase = "closed" /\ exchange < MaxExchanges /\ exchange' = exchange + 1
      /\ phase' \in {"open", "failed"}
  BY <1>1 DEF Connect, Fail
<1>3. QED
  BY <1>2 DEF Exchange!Begin

LEMMA DriverFinishes ==
  ASSUME LineInv, DriverStep
  PROVE  Exchange!Next \/ UNCHANGED Exchange!vars
<1>1. CASE Sends
  <2>1. phase = "open" /\ phase' \in {"failed", "receive"} /\ exchange' = exchange
    BY <1>1 DEF Sends, Sent
  <2>2. CASE phase' = "failed"
    <3>1. Exchange!GiveUp
      BY <2>1, <2>2 DEF Exchange!GiveUp
    <3>2. QED
      BY <3>1 DEF Exchange!Next, Exchange!Finish
  <2>3. CASE phase' = "receive"
    BY <2>1, <2>3 DEF Exchange!vars
  <2>4. QED
    BY <2>1, <2>2, <2>3
<1>2. CASE Receive
  <2>1. phase = "receive" /\ phase' = "receive" /\ exchange' = exchange
    BY <1>2 DEF Receive, Waiting
  <2>2. QED
    BY <2>1 DEF Exchange!vars
<1>3. CASE Advances
  <2>1. phase = "receive" /\ phase' \in {"failed", "receive"} /\ exchange' = exchange
    BY <1>3 DEF Advances
  <2>2. CASE phase' = "failed"
    <3>1. Exchange!GiveUp
      BY <2>1, <2>2 DEF Exchange!GiveUp
    <3>2. QED
      BY <3>1 DEF Exchange!Next, Exchange!Finish
  <2>3. CASE phase' = "receive"
    BY <2>1, <2>3 DEF Exchange!vars
  <2>4. QED
    BY <2>1, <2>2, <2>3
<1>4. CASE Ends
  <2>1. /\ phase = "receive" /\ exchange' = exchange /\ from' = from
        /\ phase' = "failed" \/ (phase' = "fine" /\ from.sound)
    BY <1>4 DEF Ends, message
  <2>2. CASE phase' = "failed"
    <3>1. Exchange!GiveUp
      BY <2>1, <2>2 DEF Exchange!GiveUp
    <3>2. QED
      BY <3>1 DEF Exchange!Next, Exchange!Finish
  <2>3. CASE phase' = "fine" /\ from.sound
    \* A sound frame on the line belongs to this exchange.
    <3>1. from.to = exchange
      BY <2>3 DEF LineInv, Fresh, FreshFrames
    <3>2. Exchange!Succeed
      BY <2>1, <2>3, <3>1 DEF Exchange!Succeed
    <3>3. QED
      BY <3>2 DEF Exchange!Next, Exchange!Finish
  <2>4. QED
    BY <2>1, <2>2, <2>3
<1>5. CASE Close
  <2>1. phase \in {"fine", "failed"} /\ phase' = "closed" /\ exchange' = exchange
    BY <1>5 DEF Close
  <2>2. Exchange!End
    BY <2>1 DEF Exchange!End
  <2>3. QED
    BY <2>2 DEF Exchange!Next, Exchange!Finish
<1>6. QED
  BY <1>1, <1>2, <1>3, <1>4, <1>5 DEF DriverStep

\* The safety of ImplementsExchange: every step of every driver is one of the exchange its
\* callers rely on, or none of their business.  In particular success is only reported
\* with a frame that the device sent in this very exchange: protocol_close() has dropped
\* what came too late in the one before.
THEOREM ExchangeRefinement ==
  ProtocolsSpec => Exchange!Init /\ [][Exchange!Next]_(Exchange!vars)
<1>1. ProtocolsInit => Exchange!Init
  BY DEF ProtocolsInit, Init, InitLine, Exchange!Init
<1>2. IInv /\ [ProtocolsNext]_ProtocolsVars => [Exchange!Next]_(Exchange!vars)
  <2>1. SUFFICES ASSUME IInv, [ProtocolsNext]_ProtocolsVars
                 PROVE  Exchange!Next \/ UNCHANGED Exchange!vars
    OBVIOUS
  <2>2. CASE Open
    BY <2>2, OpenBegins DEF Exchange!Next
  <2>3. CASE Work
    BY <2>1, <2>3, WorkIsDriverStep, DriverFinishes DEF IInv
  <2>4. CASE UNCHANGED ProtocolsVars
    BY <2>4 DEF ProtocolsVars, vars, message, Exchange!vars
  <2>5. QED
    BY <2>1, <2>2, <2>3, <2>4 DEF ProtocolsNext
<1>3. QED
  BY <1>1, <1>2, InductiveInvariant, PTL DEF ProtocolsSpec
==============================================================================
