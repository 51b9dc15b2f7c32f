------------------------------ MODULE Dlt645Router -----------------------------
(***************************************************************************)
(* The dlt645_router driver: a dlt645 frame wrapped for routers.  After    *)
(* the router addresses the driver reads byte by byte until the preamble   *)
(* is over, and takes the first other byte for the start of the frame.     *)
(* The routers' checksum stays on the line.                                *)
(***************************************************************************)
EXTENDS RtuLine

CONSTANTS
  RouterHeader,  \* router_length: four bytes and one for each router
  Preambles,     \* how many bytes 0xFE devices send in front of an answer
  MaxPreamble    \* ten: more starts than this are refused

VARIABLE head_pre_count  \* bytes taken for preamble or start

\* What protocol_dlt645_router.cpp asks for: one item, or to switch the relay;
\* protocol_write_registers() sends nothing.
ReadRequests == Request("read", Nums)
RelayOn == Request("write", {0})
RelayOff == Request("write", {0})
Requests == ReadRequests \cup RelayOn \cup RelayOff

header_length == 10
end_length == 2
outer_checksum == 2

Dlt645RouterConstants ==
  /\ RouterHeader \in Nat \ {0} /\ RouterHeader <= MaxMessage
  /\ Preambles \subseteq Nat
  /\ MaxPreamble \in Nat

\* A read asks for one fixed item, whose four bytes of identification precede
\* the registers; a relay answers without data.
DataLength(r) == IF r.kind = "read" THEN 4 + r.num ELSE 0

InnerLength(len) == header_length + len + end_length

Answer(pre) ==
  Frame(request.kind, DataLength(request), RouterHeader + pre,
        InnerLength(DataLength(request)), outer_checksum)

IsAnswer(f, r) == f.function = r.kind /\ f.len = DataLength(r)

\* A device refuses with one byte of data, the reason.
Refusal(pre) == Frame("exception", 1, RouterHeader + pre, InnerLength(1), outer_checksum)

\* No guard.
Send(kind) ==
  /\ \E pre \in Preambles :
       SendMsg(kind, TRUE, Answers(Answer(pre), Refusal(pre), {Foreign(Refusal(pre))}),
               "router_header", RouterHeader)
  /\ head_pre_count' = 0

\* dlt645_router_read_send(), dlt645_router_relay_on().
ReadSend == Send("read")
RelaySend == Send("write")

\* Too many bytes 0xFE: refused without an error code.
TooManyPreambles ==
  /\ phase = "receive" /\ length_to_read = 0
  /\ head_pre_count > MaxPreamble
  /\ Refuse
  /\ UNCHANGED <<function, head_pre_count>>

StepAt(s) == At(s) /\ head_pre_count <= MaxPreamble

StepRouterHeader ==
  /\ StepAt("router_header")
  /\ Drop("header", 1)
  /\ UNCHANGED <<function, head_pre_count>>

\* Faulty variant: a byte of preamble is not thrown away.
StepPreambleKept ==
  /\ StepAt("header")
  /\ start < from.head \/ ~Clean
  /\ Proceed("header", 1)
  /\ head_pre_count' = head_pre_count + 1
  /\ UNCHANGED function

\* The byte just read is 0xFE.
StepPreamble ==
  /\ StepAt("header")
  /\ start < from.head \/ ~Clean
  /\ Drop("header", 1)
  /\ head_pre_count' = head_pre_count + 1
  /\ UNCHANGED function

\* It is another one, whichever.
StepStart ==
  /\ StepAt("header")
  /\ start >= from.head \/ ~Clean
  /\ Proceed("data", header_length - 1)
  /\ head_pre_count' = head_pre_count + 1
  /\ UNCHANGED function

InPlace == Sound /\ start = from.head

\* compute_data_length_after_file().
StepData ==
  /\ StepAt("data")
  /\ \E len \in IF InPlace THEN {from.len} ELSE Garbled : Proceed("sum", len)
  /\ UNCHANGED <<function, head_pre_count>>

StepSum ==
  /\ StepAt("sum")
  /\ Proceed("ok", end_length)
  /\ UNCHANGED <<function, head_pre_count>>

\* Faulty variant: the sum is not compared.
ConfirmUnchecked ==
  /\ StepAt("ok")
  /\ Conclude("none")
  /\ UNCHANGED head_pre_count

\* _dlt645_router_rtu_check_integrity(): the sum of all bytes of the frame.
Confirm ==
  /\ StepAt("ok")
  /\ Conclude(IF InPlace /\ msg_length = from.inner THEN "none" ELSE "EMBBADCRC")
  /\ UNCHANGED head_pre_count

\* dlt645_router_new() and _connect(), the reading in receive_msg(),
\* dlt645_router_close().
Opening == Connect(Requests) /\ UNCHANGED head_pre_count
Reception == (Receive \/ Timeout \/ ReadFails) /\ UNCHANGED head_pre_count
Closing == Close /\ UNCHANGED head_pre_count

Driver == \/ ReadSend \/ RelaySend \/ Reception \/ TooManyPreambles
          \/ StepRouterHeader \/ StepPreamble \/ StepStart \/ StepData \/ StepSum
          \/ Confirm \/ Closing

Init == InitLine(Requests) /\ head_pre_count = 0
Next == Opening \/ Driver

\* select() waits for at most the response or byte timeout.
FairSpec ==
  /\ Init /\ [][Next]_<<vars, head_pre_count>>
  /\ WF_<<vars, head_pre_count>>(Driver)

------------------------------------------------------------------------------
(* Properties                                                              *)

\* A sound answer with fewer than ten bytes of preamble, to a read or to a
\* relay, is refused for no other reason than that it did not come whole.
SoundAnswerConfirmed ==
  ~(/\ RefusedWhole /\ start + msg_length > 0
    /\ Clean /\ Sound /\ IsAnswer(from, request)
    /\ from.head - RouterHeader < MaxPreamble)
==============================================================================
