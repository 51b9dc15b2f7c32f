--------------------------------- MODULE Modbus --------------------------------
(***************************************************************************)
(* libmodbus as protocol_modbus.cpp uses it: reading and writing the       *)
(* registers of a device that is directly on the line.                     *)
(***************************************************************************)
EXTENDS RtuLine

CONSTANTS
  MaxRead,  \* MODBUS_MAX_READ_REGISTERS
  MaxAdu    \* MODBUS_RTU_MAX_ADU_LENGTH

\* What protocol_modbus.cpp asks for: the window of the device type; a relay is
\* one register.
ReadRequests == Request("read", Nums)
WriteRequests == Request("write", Nums)
RelayRequests == Request("write", {1})
Requests == ReadRequests \cup WriteRequests \cup RelayRequests

header_length == 1
checksum_length == 2
\* Address and function; then the byte count, or address and quantity.
ToFunction == header_length + 1
MetaLength(f) == IF f = "write" THEN 4 ELSE 1

ASSUME ModbusAssumption ==
  /\ MaxRead \in Nat
  /\ MaxAdu \in Nat /\ MaxAdu <= MaxMessage
  /\ ToFunction + MetaLength("write") + checksum_length <= MaxAdu

\* The byte count of a response; a confirmed write repeats the quantity instead.
DataLength(r) == IF r.kind = "read" THEN 2 * r.num ELSE 0

\* compute_response_length_from_request().
ResponseLength(r) == ToFunction + MetaLength(r.kind) + DataLength(r) + checksum_length

ExceptionLength == ToFunction + 1 + checksum_length

\* In a frame of a write, len stands for the quantity it repeats.
Answer ==
  Frame(request.kind, IF request.kind = "read" THEN DataLength(request) ELSE request.num,
        0, ResponseLength(request), 0)

IsAnswer(f, r) ==
  /\ f.function = r.kind
  /\ f.len = IF r.kind = "read" THEN DataLength(r) ELSE r.num

Exception == Frame("exception", 0, 0, ExceptionLength, 0)
Longer == Frame("read", Answer.len + 2, 0, Answer.size + 2, 0)

DeviceAnswers == Answers(Answer, Exception, {Foreign(Exception), Foreign(Answer), Longer})

\* read_registers(): the guard on the number of registers, the request.
SendRead == SendMsg("read", request.num <= MaxRead, DeviceAnswers, "function", ToFunction)

\* modbus_write_registers(): the same limit.
SendWrite == SendMsg("write", request.num <= MaxRead, DeviceAnswers, "function", ToFunction)

StepFunction ==
  /\ At("function")
  /\ function' \in IF Sound THEN {from.function} ELSE Functions
  /\ Proceed("meta", MetaLength(function'))

\* compute_data_length_after_meta(): the byte count, for the functions that
\* have one, and the checksum.
DataLengths ==
  CASE function = "read"  -> ShownLength
    [] function = "other" -> ShownLength \cup {0}
    [] OTHER              -> {0}

\* Faulty variant: the length of the data is not compared with the maximum.
StepMetaUnchecked ==
  /\ At("meta")
  /\ \E len \in DataLengths : Proceed("ok", len + checksum_length)
  /\ UNCHANGED function

\* Faulty variant: the checksum is forgotten when the remaining bytes are counted.
StepMetaShort ==
  /\ At("meta")
  /\ \E len \in DataLengths : Proceed("ok", len)
  /\ UNCHANGED function

StepMeta ==
  /\ At("meta")
  /\ \E len \in DataLengths :
       LET n == len + checksum_length
       IN  IF msg_length + n > MaxAdu THEN RefuseWith("EMBBADDATA") ELSE Proceed("ok", n)
  /\ UNCHANGED function

CrcMatches == Sound /\ msg_length = from.inner

\* check_confirmation(): length, function and quantity of the answer, then
\* whether it is an exception.
Confirmation ==
  IF msg_length = ResponseLength(request)
    THEN IF IsAnswer(from, request) THEN "none" ELSE "EMBBADDATA"
    ELSE IF msg_length = ExceptionLength /\ function = "exception"
           THEN "exception" ELSE "EMBBADDATA"

\* Faulty variant: the function of the answer is not compared.
ConfirmAnyFunction ==
  /\ At("ok")
  /\ Conclude(IF ~CrcMatches THEN "EMBBADCRC"
              ELSE IF msg_length = ResponseLength(request) THEN "none" ELSE "EMBBADDATA")

\* Faulty variant: the checksum is not looked at.
ConfirmUnchecked == At("ok") /\ Conclude(Confirmation)

Confirm ==
  /\ At("ok")
  /\ Conclude(IF CrcMatches THEN Confirmation ELSE "EMBBADCRC")

Driver == \/ SendRead \/ SendWrite
          \/ Receive \/ Timeout \/ ReadFails
          \/ StepFunction \/ StepMeta \/ Confirm
          \/ Close

Init == InitLine(Requests)
Next == Connect(Requests) \/ Driver

\* select() waits for at most the response or byte timeout.
FairSpec == Init /\ [][Next]_vars /\ WF_vars(Driver)

------------------------------------------------------------------------------
(* Properties                                                              *)

\* The registers that are handed over are those the device sent for this
\* request: as many as were asked for, of the right function.
ConfirmedIsAnswer == phase = "fine" => IsAnswer(from, request)

\* A whole sound answer is refused only because it is too long for a frame.
SoundAnswerConfirmed ==
  RefusedWhole /\ msg_length > 0 /\ Sound /\ IsAnswer(from, request) =>
    from.inner > MaxAdu
==============================================================================
