------------------------------- MODULE MCProtocols -----------------------------
(* Instances of Protocols.  MaxAdu and MaxMessage stand in the relation they   *)
(* have in the headers: the buffer holds the longest frame and the checksums.  *)
EXTENDS Protocols, TLC

MCMaxAduOf == "modbus_router" :> 11 @@ "ds_bus_router" :> 14
MCMaxMessageOf ==
  "modbus_router" :> 13 @@ "ds_bus_router" :> 18 @@ "dlt645" :> 260 @@ "dlt645_router" :> 260
==============================================================================
