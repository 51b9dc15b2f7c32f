------------------------------- MODULE Services -------------------------------
(***************************************************************************)
(* What surrounds the exchanges with devices: the log, what the threads    *)
(* do to the settings of a serial port, the configuration file and its     *)
(* parser, the commands of the UDP server, their JSON and the orders in it *)
(* and the tables from which the threads learn their devices.  They share  *)
(* nothing but the files, so a behaviour follows one of them.              *)
(***************************************************************************)
EXTENDS AsyncLogging, SerialPort, DeviceTables, UdpCommands, Configuration, HexOrders, Json

VARIABLE part

ASSUME ServicesAssumption ==
  /\ ConfigurationConstants /\ CommandsConstants /\ HexConstants
  /\ AsyncLoggingConstants
  /\ SerialPortConstants
  /\ TablesConstants /\ ParamsConstants /\ SwitchColumnsOwn
  /\ JsonConstants

confVars == <<dict, text>>
logVars == vars

Parts == {"config", "commands", "log", "tables", "port", "json", "hex"}

ServicesInit ==
  /\ part \in Parts
  /\ ConfigurationInit /\ Init /\ HexInit
  /\ \/ part = "commands" /\ CommandsInit
     \/ part # "commands" /\ CommandsInitWith(CHOOSE d \in Disks : TRUE, <<>>)
  /\ TablesInit /\ PortInit
  /\ JsonInit /\ (part # "json" => mode = "read")
  /\ part # "tables" => db = CHOOSE d \in Databases : TRUE

ServicesNext ==
  /\ UNCHANGED part
  /\ \/ part = "config" /\ ConfigurationNext /\ UNCHANGED <<commandVars, logVars, tableVars, portVars, jsonVars, order>>
     \/ part = "commands" /\ CommandsNext /\ UNCHANGED <<confVars, logVars, tableVars, portVars, jsonVars, order>>
     \/ part = "log" /\ Next /\ UNCHANGED <<commandVars, confVars, tableVars, portVars, jsonVars, order>>
     \/ part = "tables" /\ TablesNext /\ UNCHANGED <<commandVars, confVars, logVars, portVars, jsonVars, order>>
     \/ part = "port" /\ PortNext /\ UNCHANGED <<commandVars, confVars, logVars, tableVars, jsonVars, order>>
     \/ part = "json" /\ JsonNext /\ UNCHANGED <<commandVars, confVars, logVars, tableVars, portVars, order>>
     \/ part = "hex" /\ HexNext /\ UNCHANGED <<commandVars, confVars, logVars, tableVars, portVars, jsonVars>>

ServicesVars == <<part, commandVars, confVars, logVars, tableVars, portVars, jsonVars, order>>

\* The thread of the log comes back from its wait after flushInterval_ at the latest; a
\* thread that has the port goes on.
ServicesSpec ==
  ServicesInit /\ [][ServicesNext]_ServicesVars
  /\ WF_ServicesVars(part = "log" /\ LoggingThread /\ UNCHANGED <<part, commandVars, confVars, tableVars, portVars, jsonVars, order>>)
  /\ \A u \in Users :
       WF_ServicesVars(part = "port" /\ Step(u) /\ UNCHANGED <<part, commandVars, confVars, logVars, tableVars, jsonVars, order>>)
===============================================================================
