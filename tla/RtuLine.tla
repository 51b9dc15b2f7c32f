-------------------------------- MODULE RtuLine --------------------------------
(***************************************************************************)
(* What the drivers of the devices behind a serial line have in common:    *)
(* the port, the line with the frames on it, and the loop that reads an    *)
(* answer in portions.  Each driver adds its request, its frames, its      *)
(* steps of reception and its confirmation.                                *)
(*                                                                         *)
(* Bytes have no values.  A frame has a function, the length its length    *)
(* field shows, and three parts: a head the driver throws away (router     *)
(* addresses, preamble), the inner message, and a tail it never looks at.  *)
(* It is clean if its head came undamaged, sound if its inner message did. *)
(***************************************************************************)
EXTENDS Naturals, Sequences

CONSTANTS
  Nums,         \* numbers of registers in the windows that pollers read
  Garbled,      \* what a damaged or misplaced length field may show
  MaxMessage,   \* MAX_MESSAGE_LENGTH, the size of the receive buffer
  LineFaults,   \* what may go wrong
  MaxExchanges  \* bound: number of exchanges

AllLineFaults == {"open",      \* the port cannot be opened
                  "write",     \* the request is not written completely
                  "read",      \* the line hangs up
                  "lost",      \* no answer
                  "damaged",   \* an answer with wrong or missing bytes
                  "exception", \* the device refuses the request
                  "other",     \* a frame that answers another request
                  "slow"}      \* bytes come after a timeout, but before the close

ASSUME RtuLineAssumption ==
  /\ Nums \subseteq Nat
  /\ Garbled \subseteq Nat
  /\ MaxMessage \in Nat
  /\ LineFaults \subseteq AllLineFaults
  /\ MaxExchanges \in Nat

VARIABLES
  phase,           \* "closed", "open", "receive", then "fine" or "failed"
  request,         \* kind and number of registers
  exchange,        \* number of the exchange
  step,            \* receive_msg(): _STEP_ROUTER_HEADER, _STEP_FUNCTION, ...
  length_to_read,
  msg_length,
  start,           \* bytes received before those, and thrown away
  function,        \* the function byte received
  from,            \* the frame of the first byte received, and whether what
  aligned,         \*   was received since the request is a beginning of it
  line,            \* the frames still to come, and how many bytes of the
  consumed,        \*   first of them are gone
  errno            \* "unset" at the start of each exchange

message == <<step, length_to_read, msg_length, start, function, from, aligned>>
vars == <<phase, request, exchange, message, line, consumed, errno>>

Steps == {"router_header", "header", "function", "file", "meta", "data", "sum", "crc", "ok"}
Functions == {"read", "write", "ir", "exception", "other"}

\* Requests by the function they use and the number of registers; each driver
\* says which of them its callers make.
Request(kind, nums) == [kind : {kind}, num : nums]

Frame(f, len, head, inner, tail) ==
  [function |-> f, len |-> len, head |-> head, inner |-> inner,
   size |-> head + inner + tail, clean |-> TRUE, sound |-> TRUE, to |-> exchange]
Foreign(f) == [f EXCEPT !.function = "other"]
\* The frame that starts no message.
NoFrame == [function |-> "other", len |-> 0, head |-> 0, inner |-> 0,
            size |-> 0, clean |-> FALSE, sound |-> FALSE, to |-> 0]

InitLine(requests) ==
  /\ phase = "closed" /\ exchange = 0
  /\ request \in requests
  /\ step = "function" /\ length_to_read = 0 /\ msg_length = 0 /\ start = 0
  /\ function = "other" /\ from = NoFrame /\ aligned = TRUE
  /\ line = <<>> /\ consumed = 0
  /\ errno = "unset"

------------------------------------------------------------------------------
(* The request                                                             *)

Fail(code) == phase' = "failed" /\ errno' = code

\* protocol_init(): open the port for the next request.  Of the last message
\* nothing is left, its variables are local to receive_msg().
Connect(requests) ==
  /\ phase = "closed" /\ exchange < MaxExchanges
  /\ request' \in requests
  /\ exchange' = exchange + 1
  /\ step' = "function" /\ length_to_read' = 0 /\ msg_length' = 0 /\ start' = 0
  /\ function' = "other" /\ from' = NoFrame /\ aligned' = TRUE
  /\ \/ phase' = "open" /\ errno' = "unset"
     \/ "open" \in LineFaults /\ Fail("open")
  /\ UNCHANGED <<line, consumed>>

\* What the device does, given its answer, the frame it refuses with, and frames
\* that answer another request.
Answers(answer, refusal, others) ==
  {<<answer>>}
  \cup {<<>> : x \in LineFaults \cap {"lost"}}
  \cup {<<refusal>> : x \in LineFaults \cap {"exception"}}
  \cup {<<f>> : f \in {g \in others : "other" \in LineFaults}}
  \cup {<<[answer EXCEPT !.clean = FALSE]>> : x \in LineFaults \cap {"damaged"}}
  \cup {<<[answer EXCEPT !.clean = FALSE, !.sound = FALSE, !.size = n]>> :
          n \in {k \in 1 .. answer.size : "damaged" \in LineFaults}}

\* The guard on the number of registers, send_msg(), and the start of
\* receive_msg() with its first step and the bytes it asks for.
SendMsg(kind, allowed, answers, first, n) ==
  /\ phase = "open" /\ request.kind = kind
  /\ \/ ~allowed /\ Fail("EMBMDATA") /\ UNCHANGED <<message, line>>
     \/ /\ allowed /\ "write" \in LineFaults
        /\ \E code \in {"write", "EMBBADDATA"} : Fail(code)
        /\ UNCHANGED <<message, line>>
     \/ /\ allowed
        /\ \E answer \in answers : line' = line \o answer
        /\ phase' = "receive"
        /\ step' = first /\ length_to_read' = n
        /\ UNCHANGED <<msg_length, start, function, from, aligned, errno>>
  /\ UNCHANGED <<request, exchange, consumed>>

------------------------------------------------------------------------------
(* The loop of receive_msg()                                               *)

Waiting == phase = "receive" /\ length_to_read > 0

\* select() and read() deliver some of the bytes asked for.
Receive ==
  /\ Waiting /\ line # <<>>
  /\ \E n \in 1 .. length_to_read :
       /\ consumed + n <= Head(line).size
       /\ msg_length' = msg_length + n
       /\ length_to_read' = length_to_read - n
       /\ from' = IF start + msg_length = 0 THEN Head(line) ELSE from
       /\ aligned' = (aligned /\ consumed = start + msg_length)
       /\ IF consumed + n = Head(line).size
            THEN line' = Tail(line) /\ consumed' = 0
            ELSE consumed' = consumed + n /\ UNCHANGED line
  /\ UNCHANGED <<phase, request, exchange, step, start, function, errno>>

\* select() times out: nothing comes, or not soon enough.
Timeout ==
  /\ Waiting /\ (line = <<>> \/ "slow" \in LineFaults)
  /\ Fail("ETIMEDOUT")
  /\ UNCHANGED <<request, exchange, message, line, consumed>>

\* read() returns 0 or an error.
ReadFails ==
  /\ Waiting /\ "read" \in LineFaults
  /\ Fail("ECONNRESET")
  /\ UNCHANGED <<request, exchange, message, line, consumed>>

At(s) == phase = "receive" /\ length_to_read = 0 /\ step = s

\* Whether the bytes read so far are those the device wrote in the head, in the
\* inner message, and what the length field can then be.
Clean == aligned /\ from.clean
Sound == aligned /\ from.sound
ShownLength == IF Sound THEN {from.len} ELSE Garbled

\* The next step and the bytes it asks for; all bytes so far thrown away; the
\* message refused without an error code, or with one.
Proceed(s, n) ==
  /\ step' = s /\ length_to_read' = n
  /\ UNCHANGED <<phase, request, exchange, msg_length, start, from, aligned, line,
                 consumed, errno>>

Drop(s, n) ==
  /\ step' = s /\ length_to_read' = n
  /\ start' = start + msg_length /\ msg_length' = 0
  /\ UNCHANGED <<phase, request, exchange, from, aligned, line, consumed, errno>>

Rejected ==
  UNCHANGED <<request, exchange, step, length_to_read, msg_length, start, from, aligned,
              line, consumed>>
Refuse == phase' = "failed" /\ UNCHANGED errno /\ Rejected
RefuseWith(code) == Fail(code) /\ Rejected

\* The checksum and the confirmation: passed, or the first error found.
Conclude(code) ==
  /\ IF code = "none" THEN phase' = "fine" /\ UNCHANGED errno ELSE Fail(code)
  /\ UNCHANGED <<request, exchange, message, line, consumed>>

\* protocol_close(): the kernel drops what has come for a port that nobody has
\* open.
Close ==
  /\ phase \in {"fine", "failed"}
  /\ phase' = "closed"
  /\ line' = <<>> /\ consumed' = 0
  /\ UNCHANGED <<request, exchange, message, errno>>

------------------------------------------------------------------------------
(* Properties                                                              *)

\* No read asks for more bytes than the receive buffer has room for, whatever
\* length a damaged, misplaced or foreign frame announces.
BufferRespected == msg_length + length_to_read <= MaxMessage

\* The answer is refused for another reason than that it did not come whole.
RefusedWhole == phase = "failed" /\ errno \notin {"ETIMEDOUT", "ECONNRESET"}

Exchange == INSTANCE RtuExchange WITH
  state    <- IF phase \in {"open", "receive"} THEN "busy" ELSE phase,
  answered <- IF phase = "fine" /\ from.sound THEN from.to ELSE 0

\* A driver keeps what its callers rely on: success means that one whole sound
\* frame came from the device in this very exchange, and a device that stops in
\* mid-answer, or sends without end, holds up the port for a bounded time only.
ImplementsExchange == Exchange!Spec
==============================================================================
