--------------------------------- MODULE DsBus ---------------------------------
(***************************************************************************)
(* One exchange after another of the ds_bus driver with a device on its    *)
(* line: connect, request, step-by-step reception of the answer, its       *)
(* confirmation, close.  The line carries frames; of a frame matters which *)
(* function it has, how many data bytes, how many bytes in all, whether it *)
(* is sound, and in which exchange the device sent it.  The CRC is taken   *)
(* to match exactly when one whole sound frame was read.                   *)
(***************************************************************************)
EXTENDS Naturals, Sequences

CONSTANTS
  Nums,         \* register_num of the requests
  Garbled,      \* what a damaged or misplaced length field may show
  Cuts,         \* after how many bytes a damaged answer may end
  MaxRead,      \* DS_BUS_MAX_READ_REGISTERS
  MaxAdu,       \* max_adu_length
  MaxMessage,   \* MAX_MESSAGE_LENGTH, the size of the receive buffer
  LineFaults,   \* what may go wrong
  MaxExchanges  \* bound: number of exchanges

AllLineFaults == {"open",      \* the port cannot be opened
                  "write",     \* the request is not written completely
                  "read",      \* the line hangs up
                  "lost",      \* no answer
                  "damaged",   \* an answer with wrong or missing bytes
                  "exception", \* the device refuses the request
                  "other",     \* a frame of another function
                  "slow",      \* bytes come after a timeout, but before the close
                  "late"}      \* bytes come even after the port was opened again

header_length == 1
FileLength == 2
MetaLength == 7
checksum_length == 2
\* Bytes in front of the data and, with the checksum, around them.
Prefix == header_length + 1 + FileLength + MetaLength
Around == Prefix + checksum_length

ASSUME DsBusAssumption ==
  /\ Nums \subseteq Nat
  /\ Garbled \subseteq Nat
  /\ Cuts \subseteq Nat
  /\ MaxRead \in Nat
  /\ MaxAdu \in Nat /\ Prefix <= MaxAdu
  /\ MaxMessage \in Nat /\ MaxAdu + checksum_length <= MaxMessage
  /\ LineFaults \subseteq AllLineFaults
  /\ MaxExchanges \in Nat

VARIABLES
  phase,           \* "closed", "open", "receive", then "fine" or "failed"
  request,         \* kind and number of registers
  exchange,        \* number of the exchange
  late,            \* bytes of an earlier one outlive the close of the port
  step,            \* receive_msg(): _STEP_FUNCTION, ...
  length_to_read,
  msg_length,
  function,        \* the function byte received
  from,            \* the frame of the first byte received,
  aligned,         \* and whether msg is a beginning of that frame
  line,            \* the frames still to come, and how many bytes of the
  consumed,        \*   first of them are gone
  errno            \* "unset" at the start of each exchange

message == <<step, length_to_read, msg_length, function, from, aligned>>
vars == <<phase, request, exchange, late, message, line, consumed, errno>>

Functions == {"read_response", "write_response", "exception", "other"}
Responses == {"read_response", "write_response"}
Requests == [kind : {"read", "write"}, num : Nums]

\* A frame to an exchange; the one that starts no message.
Frame(f, len, size, sound) ==
  [function |-> f, len |-> len, size |-> size, sound |-> sound, to |-> exchange]
NoFrame == [function |-> "other", len |-> 0, size |-> 0, sound |-> FALSE, to |-> 0]

\* The function of a response is that of the request plus one.
ResponseOf(r) == IF r.kind = "read" THEN "read_response" ELSE "write_response"
DataLength(r) == IF r.kind = "read" THEN r.num ELSE 2

IsAnswer(f, r) == /\ f.function = ResponseOf(r)
                  /\ f.len = DataLength(r)

Init ==
  /\ phase = "closed" /\ exchange = 0 /\ late = FALSE
  /\ request \in Requests
  /\ step = "function" /\ length_to_read = 0 /\ msg_length = 0
  /\ function = "other" /\ from = NoFrame /\ aligned = TRUE
  /\ line = <<>> /\ consumed = 0
  /\ errno = "unset"

------------------------------------------------------------------------------
(* The request                                                             *)

Fail(code) == phase' = "failed" /\ errno' = code

\* protocol_init(): open the port for the next request; of the last message
\* nothing is left, its variables are local to receive_msg().
Connect ==
  /\ phase = "closed" /\ exchange < MaxExchanges
  /\ request' \in Requests
  /\ exchange' = exchange + 1
  /\ step' = "function" /\ length_to_read' = 0 /\ msg_length' = 0
  /\ function' = "other" /\ from' = NoFrame /\ aligned' = TRUE
  /\ \/ phase' = "open" /\ errno' = "unset"
     \/ "open" \in LineFaults /\ Fail("open")
  /\ UNCHANGED <<late, line, consumed>>

\* What the device does with the request.
Answers ==
  LET len  == DataLength(request)
      size == Around + len
  IN  {<<Frame(ResponseOf(request), len, size, TRUE)>>}
      \cup {<<>> : x \in LineFaults \cap {"lost"}}
      \cup {<<Frame("exception", 0, header_length + 2 + checksum_length, TRUE)>> :
              x \in LineFaults \cap {"exception"}}
      \cup {<<Frame("other", 0, header_length + 2 + checksum_length, TRUE)>> :
              x \in LineFaults \cap {"other"}}
      \cup {<<Frame(ResponseOf(request), len, n, FALSE)>> :
              n \in {k \in Cuts \cap 1 .. size : "damaged" \in LineFaults}}

\* ds_bus_File_Record_read_send(), ..._write_send(): the guard on the number of
\* registers, then send_msg() and the start of receive_msg().
Send ==
  /\ phase = "open"
  /\ \/ request.num > MaxRead /\ Fail("EMBMDATA") /\ UNCHANGED <<message, line>>
     \/ /\ request.num <= MaxRead /\ "write" \in LineFaults
        /\ \E code \in {"write", "EMBBADDATA"} : Fail(code)
        /\ UNCHANGED <<message, line>>
     \/ /\ request.num <= MaxRead
        /\ \E answer \in Answers : line' = line \o answer
        /\ phase' = "receive"
        /\ length_to_read' = header_length + 1
        /\ UNCHANGED <<step, msg_length, function, from, aligned, errno>>
  /\ UNCHANGED <<request, exchange, late, consumed>>

------------------------------------------------------------------------------
(* receive_msg()                                                           *)

Waiting == phase = "receive" /\ length_to_read > 0

\* select() and read() deliver some of the bytes asked for.
Receive ==
  /\ Waiting /\ line # <<>>
  /\ \E n \in 1 .. length_to_read :
       /\ consumed + n <= Head(line).size
       /\ msg_length' = msg_length + n
       /\ length_to_read' = length_to_read - n
       /\ from' = IF msg_length = 0 THEN Head(line) ELSE from
       /\ aligned' = (aligned /\ consumed = msg_length)
       /\ IF consumed + n = Head(line).size
            THEN line' = Tail(line) /\ consumed' = 0
            ELSE consumed' = consumed + n /\ UNCHANGED line
  /\ UNCHANGED <<phase, request, exchange, late, step, function, errno>>

\* select() times out: nothing comes, or not soon enough.
Timeout ==
  /\ Waiting /\ (line = <<>> \/ "slow" \in LineFaults)
  /\ Fail("ETIMEDOUT")
  /\ UNCHANGED <<request, exchange, late, message, line, consumed>>

\* read() returns 0 or an error.
ReadFails ==
  /\ Waiting /\ "read" \in LineFaults
  /\ Fail("ECONNRESET")
  /\ UNCHANGED <<request, exchange, late, message, line, consumed>>

At(s) == phase = "receive" /\ length_to_read = 0 /\ step = s

\* Whether the bytes read so far are those the device wrote.
Sound == aligned /\ from.sound

Proceed(s, n) ==
  /\ step' = s /\ length_to_read' = n
  /\ UNCHANGED <<phase, request, exchange, late, msg_length, from, aligned, line, consumed,
                 errno>>

\* An exception ends the reception at once, without an error code.
StepFunction ==
  /\ At("function")
  /\ function' \in IF Sound THEN {from.function} ELSE Functions
  /\ \/ /\ function' # "exception"
        /\ Proceed("file", IF function' \in Responses THEN FileLength ELSE 1)
     \/ /\ function' = "exception"
        /\ phase' = "failed"
        /\ UNCHANGED <<request, exchange, late, step, length_to_read, msg_length, from,
                       aligned, line, consumed, errno>>

StepFile ==
  /\ At("file")
  /\ Proceed("meta", IF function \in Responses THEN MetaLength ELSE 0)
  /\ UNCHANGED function

\* compute_data_length_after_file().
DataLengths ==
  CASE function = "read_response"  -> IF Sound THEN {from.len} ELSE Garbled
    [] function = "write_response" -> {2}
    [] OTHER                       -> {0}

\* Faulty variant: the length of the data is not compared with the maximum.
StepMetaUnchecked ==
  /\ At("meta")
  /\ \E len \in DataLengths : Proceed("data", len)
  /\ UNCHANGED function

StepMeta ==
  /\ At("meta")
  /\ \E len \in DataLengths :
       \/ msg_length + len <= MaxAdu /\ Proceed("data", len)
       \/ /\ msg_length + len > MaxAdu
          /\ Fail("EMBBADDATA")
          /\ UNCHANGED <<request, exchange, late, step, length_to_read, msg_length, from,
                         aligned, line, consumed>>
  /\ UNCHANGED function

\* Faulty variant: the step of the data is not left.
StepDataAgain ==
  /\ At("data")
  /\ Proceed("data", 0)
  /\ UNCHANGED function

\* Every request has one file record.
StepData ==
  /\ At("data")
  /\ Proceed("crc", 0)
  /\ UNCHANGED function

\* Faulty variant: the checksum is one byte.
StepCrcShort ==
  /\ At("crc")
  /\ Proceed("ok", checksum_length - 1)
  /\ UNCHANGED function

StepCrc ==
  /\ At("crc")
  /\ Proceed("ok", checksum_length)
  /\ UNCHANGED function

------------------------------------------------------------------------------
(* The confirmation and the end of the exchange                            *)

CrcMatches == Sound /\ msg_length = from.size

\* Faulty variant: any frame with the right function will do.
ConfirmAnyLength ==
  /\ At("ok")
  /\ \/ ~CrcMatches /\ Fail("EMBBADCRC")
     \/ CrcMatches /\ function # ResponseOf(request) /\ Fail("EMBBADDATA")
     \/ CrcMatches /\ function = ResponseOf(request) /\ phase' = "fine"
                   /\ UNCHANGED errno
  /\ UNCHANGED <<request, exchange, late, message, line, consumed>>

\* _ds_bus_rtu_check_integrity(), check_confirmation(): the CRC, the length the
\* request lets expect, the function.  Then the data are copied.
Confirm ==
  /\ At("ok")
  /\ LET expected == /\ msg_length = Around + DataLength(request)
                     /\ function = ResponseOf(request)
     IN  \/ ~CrcMatches /\ Fail("EMBBADCRC")
         \/ CrcMatches /\ ~expected /\ Fail("EMBBADDATA")
         \/ CrcMatches /\ expected /\ phase' = "fine" /\ UNCHANGED errno
  /\ UNCHANGED <<request, exchange, late, message, line, consumed>>

\* Faulty variant: the port stays open and keeps what has come.
CloseForgotten ==
  /\ phase \in {"fine", "failed"}
  /\ phase' = "closed"
  /\ UNCHANGED <<request, exchange, late, message, line, consumed, errno>>

\* protocol_close(): the kernel drops what has come for a port that nobody has
\* open; only what comes later still reaches the next exchange.
Close ==
  /\ phase \in {"fine", "failed"}
  /\ phase' = "closed"
  /\ \/ line' = <<>> /\ consumed' = 0 /\ late' = FALSE
     \/ /\ "late" \in LineFaults /\ line # <<>>
        /\ \E n \in consumed .. Head(line).size - 1 : consumed' = n
        /\ late' = TRUE
        /\ UNCHANGED line
  /\ UNCHANGED <<request, exchange, message, errno>>

Driver == \/ Send \/ Receive \/ Timeout \/ ReadFails
          \/ StepFunction \/ StepFile \/ StepMeta \/ StepData \/ StepCrc
          \/ Confirm \/ Close

Next == Connect \/ Driver

Spec == Init /\ [][Next]_vars

\* select() waits for at most the response or byte timeout.
FairSpec == Spec /\ WF_vars(Driver)

------------------------------------------------------------------------------
(* Properties                                                              *)

Frames == [function : Functions, len : Nat, size : Nat, sound : BOOLEAN,
           to : 0 .. MaxExchanges]

\* Types of the driver's buffer and of what is on its line.
TypeOK ==
  /\ phase \in {"closed", "open", "receive", "fine", "failed"}
  /\ request \in Requests
  /\ exchange \in 0 .. MaxExchanges /\ late \in BOOLEAN
  /\ step \in {"function", "file", "meta", "data", "crc", "ok"}
  /\ length_to_read \in Nat /\ msg_length \in Nat
  /\ function \in Functions
  /\ from \in Frames /\ aligned \in BOOLEAN
  /\ line \in Seq(Frames) /\ consumed \in Nat
  /\ errno \in {"unset", "open", "write", "EMBMDATA", "EMBBADDATA", "EMBBADCRC", "ETIMEDOUT",
                "ECONNRESET"}

\* No read asks for more bytes than the receive buffer has room for, whatever
\* length a damaged, misplaced or foreign frame announces.
BufferRespected == msg_length + length_to_read <= MaxMessage

\* A confirmed answer is one the device gave: with the function that belongs to
\* the request and exactly the data bytes that are copied from it, never pieced
\* together from two frames.  If no byte outlived the last close of the
\* port, it is the answer to this very request.
ConfirmedIsAnswer ==
  phase = "fine" =>
    /\ from.sound /\ IsAnswer(from, request)
    /\ ~late => from.to = exchange

\* A sound answer to the request, in whatever portions it is read, is refused
\* only because it is too long for the driver or did not come completely.
SoundAnswerConfirmed ==
  phase = "failed" /\ msg_length > 0 /\ Sound /\ IsAnswer(from, request) =>
    errno \in {"ETIMEDOUT", "ECONNRESET"} \/ Prefix + from.len > MaxAdu

\* The driver never hangs: a device that stops in mid-answer, or sends without
\* end, holds up the port only for a bounded number of timeouts.
ExchangeEnds == (phase = "open") ~> (phase = "closed")
==============================================================================
