-------------------------------- MODULE Decoders -------------------------------
(***************************************************************************)
(* From the registers of a device to the columns of its row: the window of *)
(* registers a table of parameters asks for (find_addr_register_num()) and *)
(* the text handle_hd_register_length() of each protocol appends for one   *)
(* parameter.                                                              *)
(*                                                                         *)
(* A parameter is [addr, len, type, scale, bits, colum]: the columns       *)
(* hdaddr_register, hdlen, hddatatype, hddatalen, hd_bit_field and colum   *)
(* of hdparamlist.  A text is a sequence of pieces; a piece names the      *)
(* registers it is made of, the most significant first, and how often they *)
(* were divided by the scale.                                              *)
(***************************************************************************)
EXTENDS Integers, Sequences, SequencesExt, FiniteSets, FiniteSetsExt

\* A register the driver did not ask for: memory behind device_data.
Beyond == <<0 - 1, "beyond">>

Piece(kind, digits, over) == [kind |-> kind, digits |-> digits, over |-> over]
Zero == Piece("number", <<>>, 0)

\* The process does not survive the call.
Crashing == <<Piece("crash", <<>>, 0)>>

------------------------------------------------------------------------------
(* find_addr_register_num()                                                *)

\* The largest of the parameters' addresses, found from 0 upwards ...
TopAddr(params) == Max({0} \cup {params[k].addr : k \in DOMAIN params})

\* Mutant: the loop keeps the parameter it finds last.
LastParam(params) == Len(params)

\* ... and the last parameter that has it; the first if none has.
TopParam(params) ==
  LET top == {k \in DOMAIN params : params[k].addr = TopAddr(params)}
  IN IF top = {} THEN 1 ELSE Max(top)

MinAddr(params) == Min({32767} \cup {params[k].addr : k \in DOMAIN params})

\* Reading the first parameter of an empty table is a null dereference: the caller
\* has to look at NoParams.
AddrRegisterNum(params) ==
  TopAddr(params) + params[TopParam(params)].len - MinAddr(params)

NoParams(params) == params = <<>>

Table(name, params) ==
  [name |-> name, params |-> params, min |-> MinAddr(params), num |-> AddrRegisterNum(params)]

------------------------------------------------------------------------------
(* handle_hd_register_length()                                             *)

\* n registers from offset ptr of device_data.
Regs(data, ptr, n) ==
  [k \in 1..n |-> IF ptr + k \in DOMAIN data THEN data[ptr + k] ELSE Beyond]
LowFirst(data, ptr, n) == Reverse(Regs(data, ptr, n))

\* Whole numbers are divided as such, and by zero not at all.
Scaled(p, kind, digits) ==
  IF p.scale = 0 /\ p.type \in {"int", "hex"} THEN Crashing ELSE <<Piece(kind, digits, 1)>>

\* Bit b, or the bits h..l of "h,l".
BitField(p, data, ptr) ==
  LET r == Regs(data, ptr, 1)
      width == IF Len(p.bits) = 2
               THEN (IF p.bits[1] > p.bits[2] THEN p.bits[1] - p.bits[2] ELSE p.bits[2] - p.bits[1]) + 1
               ELSE 1
  IN IF Len(p.bits) \in {1, 2}
     THEN <<[kind |-> "bits", digits |-> r, over |-> 0, from |-> p.bits[Len(p.bits)], width |-> width]>>
     ELSE <<Piece("number", r, 0)>>

\* protocol_ds_bus_handle_hd_register_length().  Length 4 has no break, length 3
\* takes the scale for a string, length 8 prints an empty number and falls through.
DsBusText(p, data, ptr) ==
  CASE p.len = 1 /\ p.type = "hex" -> Scaled(p, "hex", Regs(data, ptr, 1))
    [] p.len = 1 /\ p.type = "bit" -> BitField(p, data, ptr)
    [] p.len \in {1, 2, 4} /\ p.type \in {"int", "float"} ->
         Scaled(p, "number", LowFirst(data, ptr, p.len))
    [] p.len = 4 /\ p.type = "signed_float" -> Scaled(p, "signed", LowFirst(data, ptr, 4))
    [] p.len = 4 /\ p.type = "bcd" -> <<Piece("bcd_by_10000", LowFirst(data, ptr, 4), 0)>>
    [] p.len \in {4, 6} /\ p.type = "bcdtime" -> <<Piece("time", Regs(data, ptr, 6), 0)>>
    [] p.len = 3 -> Crashing
    [] p.len = 8 /\ p.type = "int" -> IF p.scale = 0 THEN Crashing ELSE <<Zero, Zero>>
    [] p.len \notin {1, 2, 3, 4, 6} -> <<Zero>>
    [] OTHER -> <<>>

\* protocol_modbus_handle_hd_register_length().  Length 3 divides a whole number twice.
ModbusText(p, data, ptr) ==
  CASE p.len = 1 /\ p.type = "bit" -> BitField(p, data, ptr)
    [] p.len \in {1, 2} /\ p.type \in {"int", "float"} -> Scaled(p, "number", Regs(data, ptr, p.len))
    [] p.len = 3 /\ p.type = "bcdtime" -> <<Piece("time", Regs(data, ptr, 6), 0)>>
    [] p.len = 3 /\ p.type # "bcdtime" ->
         IF p.scale = 0 THEN Crashing
         ELSE CASE p.type = "int" -> <<Piece("number", Regs(data, ptr, 3), 2)>>
                [] p.type = "float" -> <<Piece("number", Regs(data, ptr, 3), 1)>>
                [] OTHER -> <<>>
    [] p.len = 4 /\ p.type = "bcd" -> <<Piece("bcd", Regs(data, ptr, 4), 0)>>
    [] p.len \notin 1..4 -> <<Zero>>
    [] OTHER -> <<>>

\* protocol_dlt645_handle_hd_register_length().  Length 3 prints an empty number as
\* a whole one.
Dlt645Text(p, data, ptr) ==
  CASE p.len = 1 /\ p.type \in {"int", "float"} -> Scaled(p, "swapped", Regs(data, ptr, 1))
    [] p.len = 3 /\ p.type = "int" -> IF p.scale = 0 THEN Crashing ELSE <<Zero>>
    [] \/ p.len \in {2, 4} /\ p.type \in {"int", "float"}
       \/ p.len = 3 /\ p.type = "float" -> Scaled(p, "bcd", LowFirst(data, ptr, p.len))
    [] OTHER -> <<>>

Text(protocol, p, data, ptr) ==
  CASE protocol \in {"ds_bus", "ds_bus_router"} -> DsBusText(p, data, ptr)
    [] protocol \in {"modbus", "modbus_router"} -> ModbusText(p, data, ptr)
    [] protocol \in {"dlt645", "dlt645_router"} -> Dlt645Text(p, data, ptr)

------------------------------------------------------------------------------
(* What a column should say                                                *)

\* The lengths and types each protocol carries through.  (Not: 3 and 8 of ds_bus, its
\* bcd, 3 of modbus, whole numbers of length 3 of dlt645, and every time.)
Carried(protocol, p) ==
  /\ p.scale > 0
  /\ CASE protocol \in {"ds_bus", "ds_bus_router"} ->
            \/ p.len = 1 /\ p.type \in {"hex", "int", "float", "bit"}
            \/ p.len \in {2, 4} /\ p.type \in {"int", "float"}
       [] protocol \in {"modbus", "modbus_router"} ->
            \/ p.len = 1 /\ p.type = "bit"
            \/ p.len \in {1, 2} /\ p.type \in {"int", "float"}
            \/ p.len = 4 /\ p.type = "bcd"
       [] protocol \in {"dlt645", "dlt645_router"} ->
            \/ p.len \in {2, 4} /\ p.type \in {"int", "float"}
            \/ p.len = 3 /\ p.type = "float"

\* Registers of one quantity: ds_bus and dlt645 send the low one first.
Significant(protocol, regs) ==
  IF protocol \in {"modbus", "modbus_router"} THEN regs ELSE Reverse(regs)

\* The columns of a table ask for registers of their own or for the same ones.
Disjoint(params) ==
  \A j, k \in DOMAIN params :
    \/ params[j].addr + params[j].len <= params[k].addr
    \/ params[k].addr + params[k].len <= params[j].addr
    \/ params[j].addr = params[k].addr /\ params[j].len = params[k].len
==============================================================================
