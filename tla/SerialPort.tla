------------------------------- MODULE SerialPort -------------------------------
(***************************************************************************)
(* One serial port as the kernel sees it: who has it open, with which      *)
(* settings, and what a driver, a setorder or a cmd does between taking    *)
(* and leaving its mutex: open(), tcgetattr() into old_tios, tcsetattr(),  *)
(* the exchange, and on the way out tcsetattr(old_tios) and close().       *)
(*                                                                         *)
(* The device may be unplugged and come back with fresh settings, a call   *)
(* may fail, and the process may be killed while it holds the port.  What  *)
(* is said on the line is the matter of the drivers' modules; here a       *)
(* driver's exchange ends, setorder's loop of select() and read() is kept. *)
(***************************************************************************)
EXTENDS Naturals, FiniteSets

CONSTANTS
  Users,          \* the threads that use the port
  MutexOf,        \* the mutex each of them takes
  Asks,           \* user -> the requests it may make: [by, settings]
  FreshTermios,   \* the settings of a port nobody has touched
  MaxMishaps,     \* calls that fail, times unplugged or killed, together
  MaxBursts, MaxWaits

VARIABLES
  at,             \* idle, locked, opened, talking, closing, leaving
  asked, fd,      \* the request; none, live, or dead: opened before the port went away
  old_tios, tty,
  holder,         \* the user inside a mutex, or nobody
  plugged, found, \* found: tty when the process or the device came, or as one who could
                  \* not restore it left it
  bursts,         \* answers still to come while setorder reads
  left,           \* the select() calls its two seconds allow for
  mishaps

portVars ==
  <<at, asked, fd, old_tios, tty, holder, plugged, found, bursts, left, mishaps>>

Nobody == "nobody"

\* The drivers of the pollers, and the two orders of the server.
Kinds ==
  {"ds_bus", "ds_bus_router", "modbus", "modbus_router", "dlt645", "dlt645_router", "setorder", "cmd"}

SerialPortConstants ==
  /\ Nobody \notin Users
  /\ \A u \in Users : Asks[u] # {} /\ \A ask \in Asks[u] : ask.by \in Kinds
  /\ {MaxMishaps, MaxBursts, MaxWaits} \subseteq Nat

------------------------------------------------------------------------------
(* Settings                                                                *)

Rates == {110, 300, 600, 1200, 2400, 4800, 9600, 19200, 38400, 57600, 115200}
FastRates == {230400, 460800, 500000, 921600}

\* Raw: no canonical input, echo or signals, no flow control, no output processing, and
\* read() does not wait.
Raw == TRUE

\* An unknown rate becomes 9600, any parity but N and E is odd, any number of stop bits
\* but one is two.
SpeedOf(rates, s) == IF s.baud \in rates THEN s.baud ELSE 9600
BitsOf(s) == IF s.data_bit \in {5, 6, 7} THEN s.data_bit ELSE 8
StopsOf(s) == IF s.stop_bit = 1 THEN 1 ELSE 2
ParityOf(s) == IF s.parity \in {"N", "E"} THEN s.parity ELSE "O"
Termios(rates, s) ==
  [speed |-> SpeedOf(rates, s), bits |-> BitsOf(s), stops |-> StopsOf(s), parity |-> ParityOf(s),
   raw |-> Raw]

\* Each driver has a copy of its own.
ds_bus_connect(s) == Termios(Rates, s)
ds_bus_router_connect(s) == Termios(Rates, s)
modbus_router_connect(s) == Termios(Rates, s)
dlt645_connect(s) == Termios(Rates, s)
dlt645_router_connect(s) == Termios(Rates, s)
modbus_rtu_connect(s) == Termios(Rates, s)
open_serial(s) == Termios(Rates \cup FastRates, s)

TermiosOf(ask) ==
  CASE ask.by = "ds_bus" -> ds_bus_connect(ask.settings)
    [] ask.by = "ds_bus_router" -> ds_bus_router_connect(ask.settings)
    [] ask.by = "modbus" -> modbus_rtu_connect(ask.settings)
    [] ask.by = "modbus_router" -> modbus_router_connect(ask.settings)
    [] ask.by = "dlt645" -> dlt645_connect(ask.settings)
    [] ask.by = "dlt645_router" -> dlt645_router_connect(ask.settings)
    [] ask.by \in {"setorder", "cmd"} -> open_serial(ask.settings)

\* The parities ds_bus_new() and its like make a context for.
ds_bus_new == {"N", "E", "O"}
ds_bus_router_new == {"N", "E", "O"}
modbus_new_rtu == {"N", "E", "O"}
modbus_router_new == {"N", "E", "O"}
dlt645_new == {"N", "E", "O"}
dlt645_router_new == {"N", "E", "O"}

\* protocol_init() of the driver gets no context.
NoContext(ask) ==
  LET refused(parities) == ask.settings.parity \notin parities
  IN \/ ask.by = "ds_bus" /\ refused(ds_bus_new)
     \/ ask.by = "ds_bus_router" /\ refused(ds_bus_router_new)
     \/ ask.by = "modbus" /\ refused(modbus_new_rtu)
     \/ ask.by = "modbus_router" /\ refused(modbus_router_new)
     \/ ask.by = "dlt645" /\ refused(dlt645_new)
     \/ ask.by = "dlt645_router" /\ refused(dlt645_router_new)

------------------------------------------------------------------------------
(* Taking, using and leaving the port                                      *)

\* Stands for what a thread has not asked for.
NoAsk(u) == CHOOSE a \in Asks[u] : TRUE

Moved(u, from, to) == at[u] = from /\ at' = [at EXCEPT ![u] = to]
Mishap == mishaps < MaxMishaps /\ mishaps' = mishaps + 1

\* mysql_pthread_op(), op_relay_obj_serial() and its like, json_setorder_serial_op() and
\* json_cmd_serial_op() begin with a scoped_lock.
TakeAny(u, ask) ==
  /\ Moved(u, "idle", "locked")
  /\ holder' = [holder EXCEPT ![MutexOf[u]] = u]
  /\ asked' = [asked EXCEPT ![u] = ask]
  /\ UNCHANGED <<fd, old_tios, tty, plugged, found, bursts, left, mishaps>>

\* Mutant: cmd forgets the lock.
TakeUnlocked(u, ask) ==
  (ask.by # "cmd" => holder[MutexOf[u]] = Nobody) /\ TakeAny(u, ask)

Take(u, ask) == holder[MutexOf[u]] = Nobody /\ TakeAny(u, ask)

\* Mutant: try again until it opens.
FailedRetrying(u) == IF asked[u].by \in {"setorder", "cmd"} THEN "leaving" ELSE "locked"

\* A driver that fails to open is closed nevertheless (tcsetattr() and close() of -1).
Failed(u) == IF asked[u].by \in {"setorder", "cmd"} THEN "leaving" ELSE "closing"

\* open() and tcgetattr().
Open(u) ==
  /\ \/ /\ NoContext(asked[u])
        /\ Moved(u, "locked", "leaving") /\ UNCHANGED <<fd, old_tios, mishaps>>
     \/ /\ ~NoContext(asked[u])
        /\ IF plugged THEN Mishap ELSE UNCHANGED mishaps
        /\ Moved(u, "locked", Failed(u)) /\ UNCHANGED <<fd, old_tios>>
     \/ /\ ~NoContext(asked[u]) /\ plugged
        /\ Moved(u, "locked", "opened")
        /\ fd' = [fd EXCEPT ![u] = "live"]
        /\ old_tios' = [old_tios EXCEPT ![u] = tty]
        /\ UNCHANGED mishaps
  /\ UNCHANGED <<asked, tty, holder, plugged, found, bursts, left>>

\* tcsetattr(); if it fails the descriptor is closed at once.
SetAttributes(u) ==
  /\ \/ /\ fd[u] = "live" /\ Moved(u, "opened", "talking")
        /\ tty' = TermiosOf(asked[u])
        /\ IF asked[u].by = "setorder"
           THEN bursts' \in 0..MaxBursts /\ left' = MaxWaits ELSE UNCHANGED <<bursts, left>>
        /\ UNCHANGED <<fd, mishaps>>
     \/ /\ IF fd[u] = "live" THEN Mishap ELSE UNCHANGED mishaps
        /\ Moved(u, "opened", Failed(u))
        /\ fd' = [fd EXCEPT ![u] = "none"]
        /\ UNCHANGED <<tty, bursts, left>>
  /\ UNCHANGED <<asked, old_tios, holder, plugged, found>>

\* The exchange of a driver, the one read() of a cmd: they end, well or badly.
Talk(u) ==
  /\ asked[u].by # "setorder" /\ Moved(u, "talking", "closing")
  /\ UNCHANGED <<asked, fd, old_tios, tty, holder, plugged, found, bursts, left, mishaps>>

\* setorder reads until select() has waited for two seconds in all, or fails.
ReadOn(u) ==
  /\ asked[u].by = "setorder" /\ at[u] = "talking"
  /\ \/ /\ fd[u] = "live" /\ bursts > 0
        /\ bursts' = bursts - 1 /\ left' \in {k \in {left, left - 1} : k >= 1}
        /\ UNCHANGED <<at, mishaps>>
     \/ /\ fd[u] = "live" /\ left = 0
        /\ Moved(u, "talking", "closing") /\ UNCHANGED <<bursts, left, mishaps>>
     \/ /\ fd[u] = "live" /\ left > 0 /\ bursts = 0
        /\ left' = 0 /\ UNCHANGED <<at, bursts, mishaps>>
     \/ /\ Mishap /\ Moved(u, "talking", "closing") /\ UNCHANGED <<bursts, left>>
  /\ UNCHANGED <<asked, fd, old_tios, tty, holder, plugged, found>>

\* The port is closed with these settings.
CloseWith(u, restored) ==
  /\ Moved(u, "closing", "leaving")
  /\ fd' = [fd EXCEPT ![u] = "none"]
  /\ tty' = (IF fd[u] = "live" THEN restored ELSE tty)
  /\ UNCHANGED <<asked, old_tios, holder, plugged, bursts, left>>

\* Mutant: the port is left as it was used.
CloseKeeping(u) == CloseWith(u, tty) /\ UNCHANGED <<found, mishaps>>

\* protocol_close() and close_serial().  If old_tios cannot be restored nobody notices, and
\* the next one finds the port as it was used.
Close(u) ==
  \/ CloseWith(u, old_tios[u]) /\ UNCHANGED <<found, mishaps>>
  \/ fd[u] = "live" /\ Mishap /\ CloseWith(u, tty) /\ found' = tty

\* The scoped_lock ends.
Leave(u) ==
  /\ Moved(u, "leaving", "idle")
  /\ holder' = [holder EXCEPT ![MutexOf[u]] = IF @ = u THEN Nobody ELSE @]
  /\ asked' = [asked EXCEPT ![u] = NoAsk(u)]
  /\ old_tios' = [old_tios EXCEPT ![u] = FreshTermios]
  /\ bursts' = 0 /\ left' = 0
  /\ UNCHANGED <<fd, tty, plugged, found, mishaps>>

Step(u) == Open(u) \/ SetAttributes(u) \/ Talk(u) \/ ReadOn(u) \/ Close(u) \/ Leave(u)

------------------------------------------------------------------------------
(* What happens to the port and to the process                             *)

Unplug ==
  /\ plugged /\ plugged' = FALSE /\ Mishap
  /\ fd' = [u \in Users |-> IF fd[u] = "live" THEN "dead" ELSE fd[u]]
  /\ UNCHANGED <<at, asked, old_tios, tty, holder, found, bursts, left>>

Plug ==
  /\ ~plugged /\ plugged' = TRUE
  /\ tty' = FreshTermios /\ found' = FreshTermios
  /\ UNCHANGED <<at, asked, fd, old_tios, holder, bursts, left, mishaps>>

\* The process is killed and started again: the kernel closes its descriptors, the port
\* keeps the settings it has.
Kill ==
  /\ Mishap
  /\ at' = [u \in Users |-> "idle"] /\ fd' = [u \in Users |-> "none"]
  /\ holder' = [m \in DOMAIN holder |-> Nobody]
  /\ asked' = [u \in Users |-> NoAsk(u)] /\ old_tios' = [u \in Users |-> FreshTermios]
  /\ bursts' = 0 /\ left' = 0
  /\ found' = tty
  /\ UNCHANGED <<tty, plugged>>

------------------------------------------------------------------------------

PortInit ==
  /\ at = [u \in Users |-> "idle"] /\ fd = [u \in Users |-> "none"]
  /\ asked = [u \in Users |-> NoAsk(u)]
  /\ old_tios = [u \in Users |-> FreshTermios] /\ tty = FreshTermios /\ found = FreshTermios /\ plugged = TRUE
  /\ holder = [m \in {MutexOf[u] : u \in Users} |-> Nobody]
  /\ bursts = 0 /\ left = 0 /\ mishaps = 0

PortNext ==
  \/ \E u \in Users : Step(u) \/ \E ask \in Asks[u] : Take(u, ask)
  \/ Unplug \/ Plug \/ Kill

PortSpec == PortInit /\ [][PortNext]_portVars

------------------------------------------------------------------------------
(* Properties                                                              *)

Usual(s) ==
  s.baud \in Rates /\ s.parity \in {"N", "E", "O"} /\ s.data_bit \in 5..8 /\ s.stop_bit \in {1, 2}

\* Whoever is in an exchange speaks with the settings of his own row or request, as long
\* as these are usual: nobody else has set or restored the port meanwhile.
SpeaksOwnSettings ==
  \A u \in Users :
    LET s == asked[u].settings
    IN at[u] = "talking" /\ fd[u] = "live" /\ Usual(s) =>
         tty = [speed |-> s.baud, bits |-> s.data_bit, stops |-> s.stop_bit, parity |-> s.parity, raw |-> TRUE]

\* When all have left, no descriptor is open and the port has the settings it was found
\* with, whatever else failed meanwhile, or those of the last one who could not restore it:
\* the code does not look at what the restoring tcsetattr() returns.
LeftAsFound ==
  (\A u \in Users : at[u] = "idle") =>
    /\ \A u \in Users : fd[u] = "none"
    /\ plugged => tty = found

\* Whoever takes the port leaves it again, unless setorder reads from a port that has
\* gone: select() then returns at once for ever, and the mutex stays taken.
PortLeft ==
  (\E u \in Users : at[u] # "idle") ~>
    (\A u \in Users : at[u] = "idle" \/ (asked[u].by = "setorder" /\ fd[u] = "dead"))

\* The settings of a port are those of the thread that has it, and of nobody after it unless
\* it could not restore them.
PortKept == SpeaksOwnSettings /\ LeftAsFound
==============================================================================
