--------------------------------- MODULE Dlt645 --------------------------------
(***************************************************************************)
(* The dlt645 driver: electricity meters, read and switched.  The answer is *)
(* read as one byte of preamble, a head of ten bytes with the length of    *)
(* the data, the data, checksum and end mark.  Nothing confirms address,   *)
(* control code or length; what the driver tests instead, whenever it has  *)
(* all bytes asked for, is bit 0x80 of byte 11, the first of the data.     *)
(***************************************************************************)
EXTENDS RtuLine

CONSTANT Preambles  \* how many bytes 0xFE devices send in front of an answer

\* What protocol_dlt645.cpp asks for: one item, or to switch the relay;
\* protocol_write_registers() sends nothing.
ReadRequests == Request("read", Nums)
RelayOn == Request("write", {0})
RelayOff == Request("write", {0})
Requests == ReadRequests \cup RelayOn \cup RelayOff

header_length == 11
end_length == 2

Dlt645Constants == Preambles \subseteq Nat

\* A read asks for one fixed item, whose four bytes of identification precede
\* the registers; a relay answers without data.
DataLength(r) == IF r.kind = "read" THEN 4 + r.num ELSE 0

InnerLength(len) == header_length - 1 + len + end_length

Answer(pre) ==
  Frame(request.kind, DataLength(request), pre, InnerLength(DataLength(request)), 0)

IsAnswer(f, r) == f.function = r.kind /\ f.len = DataLength(r)

\* A device refuses with one byte of data, the reason.
Refusal(pre) == Frame("exception", 1, pre, InnerLength(1), 0)

\* No guard.
Send(kind) ==
  \E pre \in Preambles :
    SendMsg(kind, TRUE, Answers(Answer(pre), Refusal(pre), {Foreign(Refusal(pre))}),
            "data", header_length)

\* dlt645_read_send(), dlt645_relay_on().
ReadSend == Send("read")
RelaySend == Send("write")

\* The driver reads the head where the device wrote it.
InPlace == Sound /\ from.head = 1

Dataless == msg_length = header_length + IF step = "ok" THEN end_length ELSE 0

\* Bit 0x80 of byte 11.  At first the byte was never written to; then it is the
\* first of the data, clear in the identification of the item read; without
\* data it is what it was, and in the end the checksum.
HighBit ==
  CASE step = "data" -> BOOLEAN
    [] step = "sum"  -> IF Dataless \/ (InPlace /\ from.function = "read")
                          THEN {FALSE} ELSE BOOLEAN
    [] step = "ok"   -> IF Dataless THEN BOOLEAN ELSE {FALSE}

\* Refused without an error code if the bit is set.
Tested(refused) == TRUE \in HighBit /\ refused /\ UNCHANGED function
Passed == FALSE \in HighBit

\* compute_data_length_after_file().
StepData ==
  /\ At("data")
  /\ \/ Tested(Refuse)
     \/ /\ Passed
        /\ \E len \in IF InPlace THEN {from.len} ELSE Garbled : Proceed("sum", len)
        /\ UNCHANGED function

\* Faulty variant: only the checksum is read, not the end mark.
StepSumShort ==
  /\ At("sum")
  /\ \/ Tested(Refuse)
     \/ Passed /\ Proceed("ok", end_length - 1) /\ UNCHANGED function

StepSum ==
  /\ At("sum")
  /\ \/ Tested(Refuse)
     \/ Passed /\ Proceed("ok", end_length) /\ UNCHANGED function

\* Faulty variant: the sum is not compared.
ConfirmUnchecked ==
  /\ At("ok")
  /\ \/ Tested(Refuse)
     \/ Passed /\ Conclude("none")

\* _dlt645_rtu_check_integrity(): the sum of all bytes behind the preamble.
Confirm ==
  /\ At("ok")
  /\ \/ Tested(Refuse)
     \/ /\ Passed
        /\ Conclude(IF InPlace /\ msg_length = 1 + from.inner THEN "none" ELSE "EMBBADCRC")

\* dlt645_new() and _connect(), the reading in receive_msg(), dlt645_close().
Opening == Connect(Requests)
Reception == Receive \/ Timeout \/ ReadFails
Closing == Close

Driver == \/ ReadSend \/ RelaySend \/ Reception
          \/ StepData \/ StepSum \/ Confirm
          \/ Closing

Init == InitLine(Requests)
Next == Opening \/ Driver

\* select() waits for at most the response or byte timeout.
FairSpec == Init /\ [][Next]_vars /\ WF_vars(Driver)

------------------------------------------------------------------------------
(* Properties                                                              *)

\* Once the first byte of its data has come, a sound answer to a read, with one
\* byte of preamble, is not refused any more.
SoundReadConfirmed ==
  ~(/\ RefusedWhole /\ msg_length > header_length
    /\ InPlace /\ request.kind = "read" /\ IsAnswer(from, request))
==============================================================================
