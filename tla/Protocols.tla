-------------------------------- MODULE Protocols ------------------------------
(***************************************************************************)
(* A line with devices of several kinds: protocol_manager looks up the     *)
(* driver by the protocol of a device, each time a thread has to do with   *)
(* it.  The driver on the line may change from one exchange to the next.   *)
(***************************************************************************)
EXTENDS Modbus

CONSTANTS
  RouterHeader, HeaderWord, MaxWrite,  \* see ModbusRouter,
  Preambles, MaxPreamble,              \*   Dlt645Router
  MaxAduOf, MaxMessageOf               \* MaxAdu, MaxMessage of the other drivers

VARIABLES protocol, head_pre_count

ModbusR == INSTANCE ModbusRouter WITH
  MaxAdu <- MaxAduOf["modbus_router"], MaxMessage <- MaxMessageOf["modbus_router"]
DsBusR == INSTANCE DsBusRouter WITH
  MaxAdu <- MaxAduOf["ds_bus_router"], MaxMessage <- MaxMessageOf["ds_bus_router"]
Meter == INSTANCE Dlt645 WITH MaxMessage <- MaxMessageOf["dlt645"]
MeterR == INSTANCE Dlt645Router WITH MaxMessage <- MaxMessageOf["dlt645_router"]

ASSUME ProtocolsAssumption ==
  /\ MaxMessageOf \in [{"modbus_router", "ds_bus_router", "dlt645", "dlt645_router"} -> Nat]
  /\ ModbusR!ModbusRouterConstants
  /\ DsBusR!DsBusRouterConstants
  /\ Meter!Dlt645Constants
  /\ MeterR!Dlt645RouterConstants

\* Getprotocol(): before an exchange, and for the calls it consists of.
Getprotocol(name) == phase = "closed" /\ protocol' = name
Use(name) == protocol = name /\ UNCHANGED protocol

Plain == UNCHANGED head_pre_count

Open ==
  \/ Getprotocol("modbus") /\ Connect(Requests) /\ Plain
  \/ Getprotocol("modbus_router") /\ ModbusR!Opening /\ Plain
  \/ Getprotocol("ds_bus_router") /\ DsBusR!Opening /\ Plain
  \/ Getprotocol("dlt645") /\ Meter!Opening /\ Plain
  \/ Getprotocol("dlt645_router") /\ MeterR!Opening

Work ==
  \/ Use("modbus") /\ Driver /\ Plain
  \/ Use("modbus_router") /\ ModbusR!Driver /\ Plain
  \/ Use("ds_bus_router") /\ DsBusR!Driver /\ Plain
  \/ Use("dlt645") /\ Meter!Driver /\ Plain
  \/ Use("dlt645_router") /\ MeterR!Driver

ProtocolsVars == <<vars, protocol, head_pre_count>>

ProtocolsInit == Init /\ protocol = "modbus" /\ head_pre_count = 0
ProtocolsNext == Open \/ Work

\* select() waits for at most the response or byte timeout.
ProtocolsSpec ==
  ProtocolsInit /\ [][ProtocolsNext]_ProtocolsVars /\ WF_ProtocolsVars(Work)

------------------------------------------------------------------------------
(* Properties                                                              *)

\* What modbus and ds_bus_router hand over, which compare function and length, is what the
\* device sent for this request.  Of the others only what ImplementsExchange says: a sound
\* frame sent in this exchange.
ConfirmedAnswers ==
  /\ protocol = "modbus" => ConfirmedIsAnswer
  /\ protocol = "ds_bus_router" => DsBusR!ConfirmedIsAnswer

\* A whole sound answer is refused only for its length: what the devices send, on
\* every protocol, is accepted.  (Writes through modbus_router and answers of dlt645
\* without data excepted.)
SoundAnswersConfirmed ==
  /\ protocol = "modbus" => SoundAnswerConfirmed
  /\ protocol = "modbus_router" => ModbusR!SoundReadConfirmed
  /\ protocol = "ds_bus_router" => DsBusR!SoundAnswerConfirmed
  /\ protocol = "dlt645" => Meter!SoundReadConfirmed
  /\ protocol = "dlt645_router" => MeterR!SoundAnswerConfirmed

\* Whatever length a frame shows, modbus, modbus_router and ds_bus_router stay in their
\* buffers.  Nothing is said of dlt645 and dlt645_router, which do not: a header of 11 or 10
\* bytes, up to 255 of data and 2 at the end, for the 260 of their buffers.
BuffersRespected ==
  /\ protocol = "modbus" => BufferRespected
  /\ protocol = "modbus_router" => ModbusR!BufferRespected
  /\ protocol = "ds_bus_router" => DsBusR!BufferRespected

\* Whatever the line carries, and whichever driver was used before on it: the three drivers
\* named above stay in their buffers, and two of them take no frame for an answer they did
\* not ask for.
DriversSafe == BuffersRespected /\ ConfirmedAnswers
==============================================================================
