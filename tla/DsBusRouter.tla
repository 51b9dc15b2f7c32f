------------------------------ MODULE DsBusRouter ------------------------------
(***************************************************************************)
(* The ds_bus_router driver: a ds_bus frame wrapped for routers.  Besides  *)
(* registers it writes infrared commands, whose answer has a checksum of   *)
(* twice the length.  Of the other answers the second checksum stays       *)
(* unread on the line.                                                     *)
(***************************************************************************)
EXTENDS RtuLine

CONSTANTS
  RouterHeader,  \* router_header_num: four bytes and one for each router
  MaxRead,       \* ds_bus_router_MAX_READ_REGISTERS
  MaxAdu         \* ds_bus_router_MAX_ADU_LENGTH

\* What protocol_ds_bus_router.cpp asks for: the window of the device type, one
\* port of a switch or all four, an infrared command with two bytes in front.
ReadRequests == Request("read", Nums)
WriteRequests == Request("write", Nums)
SwitchOff == Request("write", {1})
PermissionLedClear == Request("write", {4})
RelayOff == Request("write", {4})
SendIrCmd == Request("ir", {n + 2 : n \in Nums})
Requests == UNION {ReadRequests, WriteRequests, SwitchOff, PermissionLedClear, RelayOff,
                   SendIrCmd}

header_length == 1
checksum_length == 2
outer_checksum == 2
ToFunction == header_length + 1
Responses == {"read", "write", "ir"}
\* compute_file_length_after_function(), compute_meta_length_after_file().
FileLength(f) == IF f \in Responses THEN 2 ELSE 1
MetaLength(f) == IF f \in Responses THEN 7 ELSE 0
ToData == ToFunction + FileLength("read") + MetaLength("read")
\* The bytes that receive_msg() reads behind the data.
CrcLength(f) == IF f = "ir" THEN checksum_length + outer_checksum ELSE checksum_length

DsBusRouterConstants ==
  /\ RouterHeader \in Nat \ {0} /\ RouterHeader <= MaxMessage
  /\ MaxRead \in Nat
  /\ MaxAdu \in Nat /\ ToData <= MaxAdu
  /\ MaxAdu + checksum_length + outer_checksum <= MaxMessage

DataLength(r) == IF r.kind = "read" THEN r.num ELSE 2

\* compute_response_length_from_request().
ResponseLength(r) == ToData + DataLength(r) + CrcLength(r.kind)

Answer ==
  Frame(request.kind, DataLength(request), RouterHeader, ResponseLength(request),
        IF request.kind = "ir" THEN 0 ELSE outer_checksum)

Exception ==
  Frame("exception", 0, RouterHeader, ToFunction + 1 + checksum_length, outer_checksum)
Longer ==
  Frame("read", Answer.len + 1, RouterHeader, ToData + Answer.len + 1 + checksum_length,
        outer_checksum)

IsAnswer(f, r) == f.function = r.kind /\ f.len = DataLength(r)

\* The guard on the number of registers, which is the same for all requests.
Send(kind) ==
  SendMsg(kind, request.num <= MaxRead,
          Answers(Answer, Exception, {Foreign(Exception), Longer}),
          "router_header", RouterHeader)

\* ds_bus_router_File_Record_read_send(), ..._write_send(), ..._IR_write_send().
ReadSend == Send("read")
WriteSend == Send("write")
IrWriteSend == Send("ir")

\* The second byte is tested for the exception bit even before it is the
\* function.
StepRouterHeader ==
  /\ At("router_header")
  /\ \E high \in (IF Clean THEN {FALSE} ELSE BOOLEAN) :
       IF high THEN Refuse ELSE Drop("function", ToFunction)
  /\ UNCHANGED function

\* An exception ends the reception at once, without an error code.
StepFunction ==
  /\ At("function")
  /\ function' \in IF Sound THEN {from.function} ELSE Functions
  /\ IF function' = "exception" THEN Refuse ELSE Proceed("file", FileLength(function'))

StepFile ==
  /\ At("file")
  /\ Proceed("meta", MetaLength(function))
  /\ UNCHANGED function

\* compute_data_length_after_file().
DataLengths ==
  CASE function = "read"            -> ShownLength
    [] function \in {"write", "ir"} -> {2}
    [] OTHER                        -> {0}

\* Faulty variant: the length of the data is not compared with the maximum.
StepMetaUnchecked ==
  /\ At("meta")
  /\ \E len \in DataLengths : Proceed("data", len)
  /\ UNCHANGED function

StepMeta ==
  /\ At("meta")
  /\ \E len \in DataLengths :
       IF msg_length + len > MaxAdu THEN RefuseWith("EMBBADDATA") ELSE Proceed("data", len)
  /\ UNCHANGED function

\* Every request has one file record.
StepData ==
  /\ At("data")
  /\ Proceed("crc", 0)
  /\ UNCHANGED function

\* Faulty variant: the answer to an infrared command is read like the others.
StepCrcAlike ==
  /\ At("crc")
  /\ Proceed("ok", checksum_length)
  /\ UNCHANGED function

StepCrc ==
  /\ At("crc")
  /\ Proceed("ok", CrcLength(function))
  /\ UNCHANGED function

CrcMatches == Sound /\ start = from.head /\ msg_length = from.inner

\* check_confirmation(): the length the request lets expect, the function.
Confirmation ==
  IF msg_length = ResponseLength(request) /\ function = request.kind
    THEN "none" ELSE "EMBBADDATA"

\* Faulty variant: the length is not compared.
ConfirmAnyLength ==
  /\ At("ok")
  /\ Conclude(CASE ~CrcMatches             -> "EMBBADCRC"
                [] function # request.kind -> "EMBBADDATA"
                [] OTHER                   -> "none")

\* Faulty variant: the checksum is not looked at.
ConfirmUnchecked == At("ok") /\ Conclude(Confirmation)

Confirm ==
  /\ At("ok")
  /\ Conclude(IF CrcMatches THEN Confirmation ELSE "EMBBADCRC")

\* ds_bus_router_new() and _connect(), the reading in receive_msg(),
\* ds_bus_router_close().
Opening == Connect(Requests)
Reception == Receive \/ Timeout \/ ReadFails
Closing == Close

Driver == \/ ReadSend \/ WriteSend \/ IrWriteSend \/ Reception
          \/ StepRouterHeader \/ StepFunction \/ StepFile \/ StepMeta \/ StepData \/ StepCrc
          \/ Confirm \/ Closing

Init == InitLine(Requests)
Next == Opening \/ Driver

\* select() waits for at most the response or byte timeout.
FairSpec == Init /\ [][Next]_vars /\ WF_vars(Driver)

------------------------------------------------------------------------------
(* Properties                                                              *)

\* What is handed over is what the device sent for this request: as many bytes
\* of data as were asked for, of the right function.
ConfirmedIsAnswer == phase = "fine" => IsAnswer(from, request)

\* A whole sound answer is refused only because it is too long for a frame.
SoundAnswerConfirmed ==
  RefusedWhole /\ start + msg_length > 0 /\ Clean /\ Sound /\ IsAnswer(from, request) =>
    ToData + from.len > MaxAdu
==============================================================================
