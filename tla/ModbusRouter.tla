------------------------------ MODULE ModbusRouter -----------------------------
(***************************************************************************)
(* The modbus_router driver: a modbus frame wrapped for the routers between *)
(* the line and the device.  The router addresses precede the answer and   *)
(* are thrown away unread; a second checksum follows it and is read, but   *)
(* not looked at.                                                          *)
(***************************************************************************)
EXTENDS RtuLine

CONSTANTS
  RouterHeader,  \* router_header_num: four bytes and one for each router
  HeaderWord,    \* the number that bytes 4 and 5 of a request make: router or
                 \*   device addresses
  MaxRead,       \* MODBUS_ROUTER_MAX_READ_REGISTERS
  MaxWrite,      \* MODBUS_ROUTER_MAX_WRITE_REGISTERS
  MaxAdu         \* MODBUS_ROUTER_MAX_ADU_LENGTH

\* What protocol_modbus_router.cpp asks for: the window of the device type; a
\* relay is one register.
ReadRequests == Request("read", Nums)
WriteRequests == Request("write", Nums)
RelayOn == Request("write", {1})
RelayOff == Request("write", {1})
Requests == ReadRequests \cup WriteRequests \cup RelayOn \cup RelayOff

header_length == 1
checksum_length == 2
outer_checksum == 2
ToFunction == header_length + 1
\* compute_meta_length_after_function().
MetaLength(f) == IF f = "write" THEN 4 ELSE 1

ModbusRouterConstants ==
  /\ RouterHeader \in Nat \ {0} /\ RouterHeader <= MaxMessage
  /\ HeaderWord \in Nat
  /\ MaxRead \in Nat /\ MaxWrite \in Nat
  /\ MaxAdu \in Nat /\ MaxAdu + outer_checksum <= MaxMessage
  /\ ToFunction + MetaLength("write") + checksum_length <= MaxAdu

DataLength(r) == IF r.kind = "read" THEN 2 * r.num ELSE 0

\* compute_response_length_from_request(): both checksums count.
ResponseLength(r) ==
  ToFunction + MetaLength(r.kind) + DataLength(r) + checksum_length + outer_checksum

ExceptionLength == ToFunction + 1 + checksum_length + outer_checksum

Answer ==
  Frame(request.kind, IF request.kind = "read" THEN DataLength(request) ELSE request.num,
        RouterHeader, ResponseLength(request), 0)

IsAnswer(f, r) ==
  /\ f.function = r.kind
  /\ f.len = IF r.kind = "read" THEN DataLength(r) ELSE r.num

Exception == Frame("exception", 0, RouterHeader, ExceptionLength, 0)

DeviceAnswers == Answers(Answer, Exception, {Foreign(Exception), Foreign(Answer)})

\* modbus_router_read_registers().
SendRead ==
  SendMsg("read", request.num <= MaxRead, DeviceAnswers, "router_header", RouterHeader)

\* modbus_router_write_registers().
SendWrite ==
  SendMsg("write", request.num <= MaxWrite, DeviceAnswers, "router_header", RouterHeader)

\* Faulty variant: the router header is kept in front of the message.
StepRouterHeaderKept ==
  /\ At("router_header")
  /\ \E high \in (IF Clean THEN {FALSE} ELSE BOOLEAN) :
       IF high THEN Refuse ELSE Proceed("function", ToFunction)
  /\ UNCHANGED function

\* The second byte is tested for the exception bit even before it is the
\* function.
StepRouterHeader ==
  /\ At("router_header")
  /\ \E high \in (IF Clean THEN {FALSE} ELSE BOOLEAN) :
       IF high THEN Refuse ELSE Drop("function", ToFunction)
  /\ UNCHANGED function

StepFunction ==
  /\ At("function")
  /\ function' \in IF Sound THEN {from.function} ELSE Functions
  /\ IF function' = "exception" THEN Refuse ELSE Proceed("meta", MetaLength(function'))

\* compute_data_length_after_meta().
DataLengths ==
  CASE function = "read"  -> ShownLength
    [] function = "other" -> ShownLength \cup {0}
    [] OTHER              -> {0}

\* Faulty variant: the length of the data is not compared with the maximum.
StepMetaUnchecked ==
  /\ At("meta")
  /\ \E len \in DataLengths : Proceed("crc", len + checksum_length)
  /\ UNCHANGED function

StepMeta ==
  /\ At("meta")
  /\ \E len \in DataLengths :
       LET n == len + checksum_length
       IN  IF msg_length + n > MaxAdu THEN RefuseWith("EMBBADDATA") ELSE Proceed("crc", n)
  /\ UNCHANGED function

StepCrc ==
  /\ At("crc")
  /\ Proceed("ok", outer_checksum)
  /\ UNCHANGED function

\* _modbus_router_rtu_check_integrity(): the inner checksum.
CrcMatches == Sound /\ start = from.head /\ msg_length = from.inner

\* check_confirmation(): the quantity of a read is looked up behind the router
\* header of the request, that of a write within it.
Quantity == IF request.kind = "read" THEN request.num ELSE HeaderWord

Confirmation ==
  IF /\ msg_length = ResponseLength(request)
     /\ function = request.kind
     /\ Quantity = IF function = "read" THEN from.len \div 2 ELSE from.len
    THEN "none" ELSE "EMBBADDATA"

\* Faulty variant: the checksum is not looked at.
ConfirmUnchecked == At("ok") /\ Conclude(Confirmation)

Confirm ==
  /\ At("ok")
  /\ Conclude(IF CrcMatches THEN Confirmation ELSE "EMBBADCRC")

\* modbus_router_new() and _connect(), the reading in receive_msg(),
\* modbus_router_close().
Opening == Connect(Requests)
Reception == Receive \/ Timeout \/ ReadFails
Closing == Close

Driver == \/ SendRead \/ SendWrite \/ Reception
          \/ StepRouterHeader \/ StepFunction \/ StepMeta \/ StepCrc
          \/ Confirm \/ Closing

Init == InitLine(Requests)
Next == Opening \/ Driver

\* select() waits for at most the response or byte timeout.
FairSpec == Init /\ [][Next]_vars /\ WF_vars(Driver)

------------------------------------------------------------------------------
(* Properties                                                              *)

Whole == RefusedWhole /\ start + msg_length > 0 /\ Clean /\ Sound
         /\ IsAnswer(from, request)

\* A whole sound answer is refused only because it is too long for a frame
\* ("Check the number of values is corresponding to the request").
SoundAnswerConfirmed == Whole => from.inner > MaxAdu + outer_checksum

\* The same for the answers to reads.
SoundReadConfirmed ==
  Whole /\ request.kind = "read" => from.inner > MaxAdu + outer_checksum
==============================================================================
