# zhjs: a TLA+ verification project

`zhjs` is the controller program of a building: it polls RTU devices (meters,
switches, person counters, air conditioners) over serial ports, keeps their
values in MySQL, drives the devices of each room by timetable, and is commanded
by JSON datagrams on UDP port 61000. It is C/C++ (boost threads, mysql++, the
muduo logger); its own logic is in `src/*.cpp`, `src/json`, `src/parse`,
`src/protocol` and `src/hardtype_op`. The comments of the source are encoded in GBK.

Contents: [inventory](#inventory), [modules](#modules),
[runs](#runs-and-what-they-show), [divergences](#where-the-code-and-its-comments-differ),
[bounds](#bounds), [fairness](#fairness), [proofs](#proofs),
[assumptions](#assumptions-about-the-environment),
[not modelled](#what-is-not-modelled), [plan](#plan).

## Inventory

| component | state | operations | interacts with | modules |
|---|---|---|---|---|
| thread life cycle (`main.cpp`, `thread_object.cpp`, `pthread_op.cpp`, `json/json_pthread.cpp`) | `thread_object_list` (only ever appended to), a run flag and a `boost::thread` handle per object, `thread_running_flag`, `thread_air_control_run_flag` | `thread` operations start, stop, restart, shutdown, test, air_control; SIGTERM; the joins of `main` | all threads, through flags that no lock protects | ThreadControl |
| serial ports (`struct_comharddevice.cpp`, `mysql_comharddevice.cpp`, the `connect` and `close` of each driver) | `g_comharddevice_list`; one `mutex_obj` per `comharddevice` OBJECT; settings and descriptors of the port | fetch from table `hardcom`, look up by name, clear; open, set, restore, close | pollers keep the object of their fetch; setorder and air control look it up each time | ThreadControl, SerialBus, SerialPort |
| UDP command server (`thread_server_udp.cpp`, `json/parse_json.cpp`, `json/json_op.cpp`) | `thread_server_udp_select_flag`, one reply string | select loop, dispatch of the JSON operations, join of air control at the end | runs every command itself, one after the other | ThreadControl, UdpCommands |
| setorder, cmd (`json/json_setorder.cpp`, `json/json_cmd.cpp`, `serial_op.c`) | none of their own | raw exchange with a device, given and answered in hexadecimal | mutex of the port | ThreadControl, SerialPort, HexText, HexOrders |
| device poller (`mysql_pthread.cpp`, `handle_op.cpp`, `mysql_harddevice.cpp`) | device vector; per device `connect_times`, `connect_fine_times`, `hd_connect`, `time_now`; its row in table `harddevice` | for each device that is due: exchange, then four SQL statements | mutex of its port; database | DevicePolling, DeviceTables |
| air control (`thread_air_control.cpp`, `parse_comharddevice.cpp`) | the lists of `thr_air_control_obj` | a round over all rooms, then a pause of `loop_time`, at least 30 seconds | mutex of each port it needs; shared port list | ThreadControl, DeviceTables |
| room control (`mysql_roominfo.cpp`, `_jnkz`, `_pcount`) | rows of the room tables, fields of `roominfo` | timetables, person counting, energy saving | called by air control | RoomControl |
| public lighting (`mysql_roominfo_ggzm.cpp`) | rows of the context models, fields of `roominfo` | periods, weekdays, thresholds, commands to lamps | called by air control | PublicLighting |
| device parameter tables (`mysql_hdparamlist.cpp`, `struct_hdparamlist.cpp`, `parse_bit_field.cpp`) | list of parameters per device type | window of registers to read; columns decoded from an answer | used by pollers | Decoders, DeviceTables |
| hardtype operations (`hardtype_op`) | columns of a device row | derive the state of a touch switch | called by pollers | DeviceTables |
| ds_bus driver (`protocol/ds_bus`) | receive buffer and step, `errno` | connect, read or write registers, close | pollers and air control, under the mutex of the port | DsBus |
| other RTU drivers (`modbus`, `modbus_router`, `ds_bus_router`, `dlt645`, `dlt645_router`) | the same | the same, in other frames | the same | RtuLine and one module each, Protocols |
| configuration file (`get_config_value.cpp`, `iniparser`) | `zhjs.conf`, `sysconf.conf`, the dictionary read from them | look up, rewrite by way of GLib | read by threads and commands, written by commands | Dictionary, IniFile, Configuration |
| system operations (`json_sysset*`, `json_serial_number*`, `json_net*`, `json_sysinfo*`, `get_info_from_files.c`) | files, routes and address of the system, descriptors | rewrite settings, set address and gateway, report | UDP server | UdpCommands |
| logging (`muduo/base`) | a line buffer per line, two buffers in front, a queue, a file | append, collect, write, flush, roll, stop | every thread | AsyncLogging, LineLog |
| rapidjson (`include/rapidjson`) | reader stack, document | read a request, write a reply | UDP server | JsonText, Json |

### How they interact

`main` fetches the port list once, starts the UDP server and joins it. A `start`
clears and refetches the list, registers one `thread_object` per port, launches a
thread for EVERY object ever registered, then air control. Pollers copy the
`comharddevice` of their own object; setorder, cmd and air control find one by
name in the current list. Under its mutex each of them opens the port, saves its
settings, sets its own, speaks by the protocol of the device, restores the settings
and closes. What a poller reads goes to the row of the device in the database, from
where the room operations take it. A stop only lowers flags. When the server ends,
`main` joins air control and follows the handle of every registered object.

### What is hard

* Flags are shared without a lock, and a starting thread raises its own flag late:
  a stop can be lost, a handle overwritten, a list rebuilt while it is iterated.
* The mutex of a port is not one mutex: each fetch makes another.
* Exchanges, SQL statements and connections fail between two steps of one
  operation; the process may be killed between two statements or writes.
* Counters and histories have a width, times come from the wall clock, periods
  cross midnight.
* A serial line loses, damages, delays and splits answers, and nothing in a frame
  says which request it answers.
* Decisions about a room are carried out over seconds, by rows that are outdated.
* Two parsers read the configuration file, and it is emptied before it is written.
* Replies, descriptors and buffers outlive the command or burst they served.

`PROJECT.json` lists each hazard at its line with the properties aimed at it.

### What makes each component correct

* *Life cycle*: joins follow valid handles; the first start is joined entirely;
  stop drains the threads; shutdown and SIGTERM end the process.
* *Ports*: exchanges exclude each other, per mutex always and per port as long
  as there is one mutex per port; every exchange ends; each user speaks with its own
  settings and leaves the port as it was found.
* *Server*: is never stuck behind a mutex once the threads are stopped; answers the
  command that was sent, but for a failing `cmd`; a setting it has read back from the
  file is in force.
* *Poller*: polls what is listed, no device starves another one; what memory and row
  say about a device agrees, whichever statement fails; a column shows its registers.
* *Drivers*: a confirmed answer is the device's answer to this request, where the
  driver compares enough to tell; a sound answer is not refused; the buffer is respected
  (not so by dlt645 and dlt645_router); an exchange ends.
* *Rooms*: what is switched off is justified by timetable, sensors and head count; a
  room that stays free goes dark, one in use loses the forbidding LED.
* *Lighting*: what is commanded is said by a period in force; lamps do not flicker
  and end as the last period says.
* *Configuration*: a reader gets what the last line says; rewriting one setting
  leaves the others.
* *Log*: lines reach the file in order, once, and those left out are announced.
* *JSON*: accepted is what is well-formed; strings and integers survive.

## Modules

### ThreadControl

The threads and the mutexes. A `comharddevice` object, and the `thread_object`
built for it, is a pair `<<com, gen>>`: the port's name and the number of the
fetch that made it. That pair is the point of the model, because each fetch makes
new objects with new mutexes under old names.

| state | code |
|---|---|
| `g_comharddevice_list`, `gen` | the global list, and how often it was fetched |
| `thread_object_list`, `pthread_run_flag`, `thr` | registered objects, their flag, the thread their handle names |
| `thread_running_flag`, `thread_air_control_run_flag`, `thread_server_udp_select_flag` | the globals of the same names |
| `air_thr` | `thr_air_control_obj->thr` |
| `locked` | which `mutex_obj` is held |
| `pc`, `kind`, `home`, `mtx`, `nthreads` | threads: where they are, what they are, their object, the mutex of their exchange |
| `udp`, `op`, `todo`, `order`, `cmds` | the server: stage, command, objects yet to launch, mutex of its exchange |
| `main` | which join `main` is at |

Actions correspond to the code between two points where another thread can
matter. A `start` is `CmdStart`, `UdpFree` (clear the list), `UdpFetch` (refetch,
register), one `UdpCreate` per launch, `UdpCreated`, `UdpAir`. A poller is
`PollerEnter` (or `PollerNoDb`, `PollerInitFail`), then `PollerPoll`, `Lock`,
`Unlock` in a loop, then `PollerExit`. Air control is `AirBegin`, `AirSetup`,
`AirLoop`, `AirOperate` with `Lock`/`Unlock`, `AirRoundEnd`, `AirWake`. SIGTERM
(`SignHandler`) interleaves anywhere, and wakes `select`. `Race` names the states
in which two threads use one unprotected list while one of them changes it; there
the behaviour is undefined and `Crash` may end the process.

Faults: the database is unreachable for the server, for a poller or for air
control, the initialisation of a poller fails half-way; a query of `hardcom`
may return nothing or other ports than before (`FetchResults`).

`SerialBus` is the abstract promise: an exchange is a critical section of one mutex,
ends, and is ended by nobody else. `ThreadControl!Bus` instantiates it with the
threads and the server as users, and `holders` computed from who is in an exchange.

### DevicePolling

One poller thread at finer grain, without the mutex: the pass over the devices,
the statistics in memory, and the row of each device in table `harddevice`, which
outlives the thread. Each SQL statement is a step and may fail; `Kill` may come
between any two; `SetBack` sets the clock back. A row has only the columns the
poller writes and relates: whether values were stored, whether a connection time
was, `hd_connect` and `fine_percent`. Counters are taken modulo `CounterSize`.

`hddelay_time` is never assigned in the code (the object is value-initialised), so
a device is due whenever the clock is not behind its last good exchange.

### DsBus

One exchange after another of the ds_bus driver, as `mysql_pthread_op` and the
operations of air control make them: `Connect` (`protocol_init`), `Send` (the guard
on the number of registers and `send_msg`), the loop of `receive_msg` (`Receive`,
`Timeout`, `ReadFails` while bytes are missing; one action per `_STEP_` when they
are there), `Confirm` (CRC and `check_confirmation`), `Close` (`protocol_close`).

The line is a sequence of frames of which `consumed` bytes are gone. A frame has a
function, the length of its data, its size, whether it is sound and to which
exchange the device sent it. Bytes have no values: `from` is the frame of the first
byte of the message and `aligned` says whether the message is a beginning of that
frame; as long as it is, and the frame is sound, the driver reads what the device
wrote, otherwise any function and any length in `Garbled`. `late` remembers that
bytes outlived the close of the port. The CRC is taken to match exactly when one
whole sound frame was read; that a CRC of 16 bits cannot detect everything is outside
the model.

### The other drivers: RtuLine, Modbus, ModbusRouter, DsBusRouter, Dlt645, Dlt645Router, Protocols

`RtuLine` holds what the five drivers share: port, request, line, reception in
portions, the end of an exchange. A frame has a head that is thrown away (router
addresses, preamble), an inner message and a tail. Each driver adds its request
lengths, the frames its devices send, one action per step of its `receive_msg`
and its confirmation; where a driver reads a byte before it has arrived, or takes
a checksum for a control byte, any value may come. `Protocols` puts all five on one
line: `Getprotocol` chooses the driver of the next exchange. `RtuExchange` is the
abstract promise, an exchange that succeeds or gives up and always ends, and
`ImplementsExchange` the refinement.

### RoomControl

The rounds of air control over the rooms as `get_roominfo_from_mysql()` and
`op_roominfo()` make them: which rooms are in use (`inuse`), the temporary and the
normal timetable, self-study by counters (`count`, `rules`) and by sensors (`sense`), the
loop over the devices with one command each. A query or a command is a step; between
two of them the world changes (`Change`), queries and commands fail (`Fault`) or are
lost. The connection is opened with `conn(false)` (`thread_air_control.cpp:81`), so a query
fails in two ways. One that is *refused* returns an empty result, and the code goes on as
after one without rows: a room is visited without devices, a meter writes "off" for the
conditioners of its room, a head count is made of what is left, the smallest of no sensor
values is read (`crashed`), and `QueryRefused` leaves the fields as they are. Rows that
*break off*, because the connection is lost, are an error, and end the loop or the visit.
The fields that outlive a device, `airckz`, `aircmode`, `relay_status`, `switch_status` and
`manual_permission`, are kept from one to the next, and `refused` records of which devices
the query was refused.

### PublicLighting

The rounds over the lamps of one room: models, their periods with weekdays and
thresholds, the date read before the time, the sensor, the state of each lamp, the
command. Lamps and daylight are the world, the rows of `harddevice` follow it when
`PollMeter` and `PollSensor` get round to it. A day has `Hours * Minutes` slots.

### Services

`Services` composes seven parts that share nothing but files; a behaviour follows one.

* **Configuration** (`Dictionary`, `IniFile`): `dictionary.c` as a table with slots,
  hashes and holes; `iniparser.c` line by line (sections, quotes, comments, continued
  lines, lines too long) and its dump; the readers of `get_config_value.cpp`; what `GKeyFile`
  makes of the same lines. `Configuration` drives a dictionary and grows texts. To
  iniparser names are the same in upper and lower case, to GLib they are not: with `[zhjs]`
  and `[ZHJS]` in one file the one may write where the other does not read (the run has such
  a file, `TwoSpellings`), hence the hypothesis `OneSpelling` of `RewriteKeepsOthers`.
* **UdpCommands**: the server's commands that touch files and the network. `Receive`
  dispatches; `Truncate` and `Save` are `fopen("w")` and `fwrite`, apart; `Netset`
  deletes and adds routes; `Encode` writes the reply; `Killed` restarts the daemon,
  `Exit` is a command that ends it. Descriptors that are never closed are counted in
  `fds`; what `get_net_info()` could not read for want of one stays a pointer nobody has
  set (`Unread`), which its callers follow or free: they may crash, or reply. `readBack` is what the last
  reply of sysset has read from the file; a reply that could not read it tells the server's
  memory instead and reads nothing back.
* **AsyncLogging**: `append` with the two buffers in front, the logging thread (swap,
  drop, write, give back), `LogFile` with its rolls and flushes, the stop. `Logger` is
  the length a line has left when its pieces were formatted: pieces that do not fit
  are left out, numbers already when fewer than `MaxNumericSize` bytes are free.
  `LineLog` is the abstract promise.
* **DeviceTables** (`Decoders`): types and parameters, the lists of devices of pollers,
  server and air control with queries that are refused or cut, the window of registers,
  the columns each driver decodes, the derived columns of a touch switch. The
  database is edited at any moment.
* **SerialPort**: open, `tcgetattr`, `tcsetattr`, exchange, restore and close by every
  kind of user, on a port that may be unplugged, by a process that may be killed. Any of the
  calls may fail, the restoring `tcsetattr()` too, whose result the code ignores
  (`serial_op.c:284`); `found` is then what that user leaves behind.
* **Json** (`JsonText`): rapidjson's recursive and iterative parsers over every text of
  tokens, its numbers with two widths, its strings and its Writer.
* **HexOrders** (`HexText`): an order typed character by character, cut into words and sent as
  bytes by a setorder, read as an infrared code by `hex2bin_trim_len()`, and the dump of
  an answer in the reply.

### MC modules and proofs

`MC...` modules give the constants values; `...Proofs` modules hold the theorems. A
definition marked as a mutant or faulty variant (`UdpFetchRetry`, `UnlockForgotten`, ...) is no part
of `Next`: put in the place of the action it varies, it makes the property named for
it in `PROJECT.json` fail, which shows that the property depends on the code.

## Runs and what they show

| run | instance | properties | what it shows |
|---|---|---|---|
| impatient | one port, all commands and faults, an operator who waits for nothing | `TypeOK`, `MutexExclusion`, `FirstFetchPortExclusion`, `NoNullJoin`, `FirstStartJoined` | mutexes exclude in every interleaving, also while lists are rebuilt; up to the first fetch of a command a mutex is the port's mutex; no join follows a null handle; a first start is joined |
| served | two ports that come and go | `ServedByCurrentList` | while the service runs, setorder's list is the list of the newest pollers |
| patient | one port, an operator who waits | `NoCrash`, `StopTakesEffect`, `ImplementsBus` | waiting avoids every data race; stop drains the threads, an order is not stuck once they are stopped, shutdown and SIGTERM end the process; the mutexes implement `SerialBus`, liveness included |
| port_exclusion | start, stop, start, each time waiting | `PortExclusion` | VIOLATED, see below |
| polling_rows | two devices, all faults and kills | `StatisticsRight`, `ShownConnectedHasValues` | memory and rows stay consistent |
| polling_turns | two devices, counters that wrap, clock set back | `EveryDevicePolled` | no device starves another one |
| ds_bus_frames | two exchanges, all line faults, bytes that outlive a close | `BufferRespected`, `ConfirmedIsAnswer`, `SoundAnswerConfirmed`, `ExchangeEnds` | only an answer of the right function and length is confirmed, without late bytes the answer to this request; a sound answer always is; no overrun, no hang |
| protocols | five drivers take turns, two exchanges, all line faults | `DriversSafe`, `SoundAnswersConfirmed`, `ImplementsExchange` | modbus, modbus_router and ds_bus_router do not overrun their buffers (dlt645 and dlt645_router do, see below); modbus and ds_bus_router, which compare function and length, confirm only the answer; sound answers are accepted; each of the five implements `RtuExchange` |
| room_safety | a lab with two conditioners and a meter; a hall with counter, switches and a rule for an unknown device | `OffsJustified`, `LessonNeverShut`, `OwnCode` | what is switched off is justified as long as every query is answered; failing queries never shut a room that has a lesson in every table; a conditioner with a code gets its own unless its query was refused, and any other at most that of a conditioner ahead of it |
| room_live | an office and a store with one relay | `RoomsSettle` | a free room goes dark, a room in use loses its forbidding LEDs, although a query or a command fails |
| lighting | two lamps over a day with its midnight | `NoFlicker`, `DecidedByPeriods`, `LampsFollow` | commands follow the periods, the last one in force decides, lamps end as it says and do not flicker by their own light |
| services | seven parts, see Services | `SettingsRead`, `RepliesHold`, `RewriteKeepsOthers`, `OneGateway`, `AssertionsHold`, `KeepsLines`, `LineReachesDisk`, `DevicesListed`, `ColumnsRight`, `SwitchAgrees`, `PortKept`, `PortLeft`, `JsonFaithful`, `HexFaithful` | see the comments of the properties in the module of each part |

Some properties join several named facts about one subject, each with a mutant of
its own in `PROJECT.json`: `StopTakesEffect` is `StopDrains`, `OrderAnswered` and
`CleanShutdown`; `StatisticsRight` is `HistoryWithinStatistics` and `PercentRight`;
`DriversSafe` is `BuffersRespected` and `ConfirmedAnswers`; `RoomsSettle` is
`EmptyRoomDarkens` and `LedCleared`; `DecidedByPeriods` is `DecidedInForce` and
`LastInForceDecides`; `SettingsRead` is `IsMap`, `CountsEntries`, `ReadsLastLine` and
`DumpReloads`; `RepliesHold` is `ReplyAnswersRequest` and `ConfirmedInForce`;
`DevicesListed` is `PolledAsListed` and `OtherPortsListed`; `PortKept` is
`SpeaksOwnSettings` and `LeftAsFound`; `JsonFaithful` is `ReadsBack`,
`ParsersAgree`, `RepliesSurvive` and `IntegersExact`; `HexFaithful` is `OrdersRead`
and `DumpsRead`.

**What a patient operator is.** `Settled` in `ThreadControl`: send nothing while a
thread initialises, (re)build nothing while a thread lives, send nothing after
SIGTERM. The properties of the run `patient` are claims about such an operator.
They are not true of an impatient one, and nothing in the repository says they
are: a stop sent while a poller initialises is lost, because
`mysql_create_pthread` raises the flag afterwards (`mysql_pthread.cpp:178`), and
two `start`s in a row rebuild lists that are in use.

## Where the code and its comments differ

**The mutex of a port** (run `port_exclusion`). `json_setorder.cpp:262` looks a
`comharddevice` up "to obtain the mutex of the serial port". The run starts, stops
and starts again, waiting each time until every thread has ended. The second start
fetches new objects with new mutexes, and `create_thread_object()` also relaunches
the objects of the first start. Two pollers then drive the same port under two
mutexes. `FirstFetchPortExclusion` states what remains true.

What the models follow the code in, without a run of its own:

* *Drivers.* A device that refuses answers with bit 0x80 of the function;
  `ds-bus.c:911-914` then returns -1 before the exception code has come and without
  the `errno` that the comment at :799-801 promises, so what `check_confirmation` has for
  exceptions is never reached. `dlt645.c:742` tests a byte that may not have
  arrived. The confirmation of writes in `modbus_router.c:1129` looks at the request
  without the router header and refuses sound answers, which is why
  `SoundAnswersConfirmed` is stated for its reads. dlt645 and dlt645_router read a header of
  11 or 10 bytes, up to 255 of data as the frame announces, and 2 more: up to 268 and 267
  bytes into a buffer of 260 (`dlt645.c:751`, `dlt645_router.c:891`). They are left out of
  `BuffersRespected`, and, as they confirm neither address nor control code, out of
  `ConfirmedAnswers`.
* *Rooms.* A failing query of a timetable acts like a timetable in force without
  rows. A conditioner without a code, or whose query is refused, is sent the code of the
  one before it (`mysql_roominfo.cpp:618-676`), which `OwnCode` bounds and does not forbid.
  Without a sensor, or if the query for them is refused, the minimum of an empty vector is
  read (`mysql_roominfo_jnkz.cpp:504`). If a meter's query is refused its conditioners are
  written down as off (`mysql_roominfo.cpp:217`). The status of a room's relays is that of the last row only. The normal control
  of energy saving is never called.
* *Lighting.* A period that starts and ends in the same hour but on different days is
  not recognised, nor one that crosses midnight at the minute in which it begins.
* *Configuration.* iniparser and GLib disagree about comments with `;` (GLib stops
  there, and what follows is not saved), quotes, continued lines, upper case and
  repeated sections. A sysset that cannot read the file replies with what the server remembers
  or with what was asked; other readers then take defaults of their own, so that
  `ConfirmedInForce` speaks of settings read back only. Nothing applies the file that
  netset writes when the daemon starts.
* *Tables.* Each driver carries only some lengths and types of parameters (`Carried`); a
  column of any other stays as it was, without a word.
* *JSON and digits.* The two parsers of rapidjson name different errors for a text
  that begins with a bracket, comma or colon that cannot begin it. A blank infrared code has length -1. The
  terminator of a hexadecimal dump falls one byte behind a buffer whose size is a
  multiple of three.

## Bounds

| bound | value | why it is enough |
|---|---|---|
| `MaxCmds` | 2 to 4 | start + stop, start + start and restart + restart are the pairs that interfere; `patient` takes two full cycles; `port_exclusion` needs three |
| `MaxThreads` | 5 or 6 | room for two pollers of the second launch beside the first and air control; a command that launches is only received if there is room for its threads |
| `Coms` | one, two in `served` | threads of one port share everything that can go wrong; a second one matters when the ports differ between fetches |
| `MaxPolls` | 2 | a good and a bad exchange per device in both orders, and one more thread life after a kill |
| `HistoryBits` | 2 (1 for liveness) | the code has 16; a history shifted out at the end is reached with two |
| `CounterSize` | 1000, and 2 for liveness | 1000 leaves the percentages of two polls unwrapped; with 2 the counters overflow in every behaviour |
| `MaxClock`, `MaxSetBacks` | 1, 1 | due, not due, due again |
| `Nums`, `MaxRead` | 1 to 6, 3 or 5 | fits, does not fit into `MaxAdu`, does not pass the guard |
| `MaxAdu`, `MaxMessage` | 11 to 14, 12 to 18; 260 for dlt645 | a longest message with its checksum fills the buffer exactly, as in the headers (256 and 1000) |
| `Garbled`, `Cuts` | 0, small, 99; four places | lengths that end the message early, fit, or exceed every buffer; late bytes from the middle and the end of a frame |
| `MaxExchanges` | 2 | one exchange can only disturb the next one |
| `Preambles`, `MaxPreamble` | 0 to 2, 2 | none, the one dlt645 counts on, and one too many |
| `MaxChanges`, `MaxFaults` (rooms) | 1, 1 | one change of the world or failure between any two steps of a visit |
| `MaxTime`, `Hours`, `Minutes`, `Weekdays`, `MaxEvents` | 4, 2, 2, 2, 1 | one day and the first slot of the next; periods within an hour, over hours and over midnight |
| `MaxText` | 3 | a section, a key and a line that spoils or continues it |
| `MinSize` | 2 | the dictionary grows, collides and has holes with four keys |
| `MaxRequests`, `MaxFaults` (commands) | 2, 1 | a command, a failure or crash, and the next command |
| `MaxFds` | 8 | one sysinfo uses them all; netset and netinfo run short of them at the second command |
| `SmallBuffer`, `LargeBuffer`, `MaxBuffers`, `MaxNumericSize`, `MaxLines`, `RollSize`, `CheckEveryN` | 4, 5, 2, 2, 4, 3, 2 | lines that are cut, bursts that take both spare buffers, more buffers than are kept, rolls by size and by day |
| `FlushInterval`, `RollPerSeconds`, `MaxTime` (log) | 0, 2, 2 | one midnight |
| `MaxEdits`, `MaxDbFaults`, `MaxLoads` | 1, 1, 2 | a list that is half filled, and the attempt after it |
| `MaxMishaps`, `MaxBursts`, `MaxWaits` | 2, 1, 2 | two calls fail, or one fails and the device is unplugged or the process killed |
| `DumpRoom` | 5 | room for one byte of the two an order spells, and a rest of two (the code has 1000) |
| `MaxTokens`, `MaxHex` | 6, 5 | an object with one member, and an array in an array; two bytes with a blank or a wrong digit between |
| `Half32`, `Half64`, `MaxExp` | 16, 128, 12 | every integer of up to four characters around both limits and both signs (the code has 2^31, 2^63 and 308) |

Ports are not declared symmetric: the runs with liveness properties must not, and
the others are small. Runs with `CHECK_DEADLOCK FALSE` describe a program that may
stop: the process ends, or the bound on commands, polls, requests or the clock is used
up.

## Fairness

`ThreadControl!Fairness`: the server, each thread and `main` are scheduled (weak
fairness of their work). Exchanges end because reads have timeouts (the wait in
setorder ends because Linux `select` decrements its timeout). A poller need not
find a device due, nobody need send a command, no fault need or need not happen.
`Lock` is only weakly fair: `boost::mutex` promises no order, so an order may be
overtaken while pollers poll, and `OrderAnswered` asks for an answer only once the
threads are stopped. The end of a round of air control is strongly fair because the lists
of rooms are finite, while the model lets a round operate any number of devices.

`DevicePolling!FairSpec`: the thread is scheduled and statements and exchanges end
(weak fairness of `Poll`), and time passes up to the bound. Without time, a clock
that was set back would never catch up.

`DsBus!FairSpec`, `ProtocolsSpec`: the driver goes on (weak fairness of all its actions
together), because `select` waits at most for the response or the byte timeout. Nobody
need start another exchange.

`RoomControl!FairSpec` and `PublicLighting!FairSpec`: the air control thread runs, and
each poller comes round to the device (its row follows); for lighting time passes.

`ServicesSpec`: the logging thread runs, because it waits `flushInterval_` at most; a
thread that has a port goes on (`Step(u)`), though not one that keeps reading from a port
that has gone.

## Proofs

Checked by TLAPS, for every value of the constants under the `ASSUME`s, or under the
assumptions the theorem names.

*ThreadControlProofs*, by one invariant, proved action by action in four layers:

1. `TypeInv`: the types, with `GenBound`. An object is a pair with a generation up
   to `MaxCmds + 1`, so that types are preserved only because a command fetches
   at most once: `GenBound` relates `gen` to the commands received and to whether
   a fetch is pending. `TypeCorrect: Spec => []TypeOK`.
2. `LockInv`: a mutex is locked exactly while a thread or the server is in its
   exchange under it (`Held`), by one only (`Alone`), and names an existing object
   (`Named`). `MutexExclusionHolds`.
3. `GenInv`: the list holds objects of the newest fetch only, and every object whose
   mutex a thread uses comes from a fetch after `main`'s. While `gen <= 2` they all
   are of one generation, so that equal names are equal objects:
   `FirstFetchPortExclusionHolds` combines this with layer 2.
4. `HandleInv`: registered objects that are not about to be launched have a handle
   that names a created thread. `NoNullJoinHolds`.

Three theorems need more than these layers, each an invariant of its own on top of
them. `PatientNeverCrashes` is about an operator who waits, and who therefore never
sends `restart` (it waits one second only): `PatientInv` says that lists are rebuilt
while no thread lives (`Rebuilt`), that live threads of one kind have different homes
(`Distinct`), that the pollers alive during a command are those it created (`Created`),
that the handle of air control names its only live thread, and that a server told to
leave leaves. `ServedByCurrentListHolds` is about the commands start, stop, restart,
test and shutdown; `cmd` and `air_control` fetch the list behind the pollers' back.
`ServedInv` follows the list from the fetch to the last poller launched. Both
restrictions are those of the runs `patient` and `served`. `FirstStartJoinedHolds` has
none: `JoinInv` says that up to `gen = 2` every live thread is named by a handle that
the leaving server or `main` still has to join.

`BusRefinement: Spec => Bus!Spec`. `OtherStepsQuiet` shows that every step but
six (the four that lock or unlock, and the two ends of the process) leaves the holders
as they are; `AcquireStep` and `ReleaseStep` treat the
mapped `holders` for those; `BusStepImplements` puts them together.

*ThreadControlProofs* also has the proofs about two modules that `Services` composes, of what
threads do at a port. Of its settings `PortAlwaysKept`, from `OwnSettingsAlways` and
`AlwaysLeftAsFound`: the port is as it was found, or as the last user left it who could not restore it.
The theorems assume `OneMutex`: all users of the port have one mutex, which is what
`FirstFetchPortExclusion` promises up to the first fetch, and what the run
`port_exclusion` shows to fail later. `Exclusion` (who is at the port holds the mutex),
`Descriptors` (who has left has closed) and `Settings` (the settings of the port are
those of its user, and his saved ones are those found) are the invariant; `UsualKept`
shows that the table of rates of every driver leaves usual settings as they are.

Of the devices asked there `DevicesListedHolds` and
`SwitchAgreesHolds`, for any tables in which each port has a list of rows and each type
one of parameters (`TablesConstants`), any edits and any failing queries. `ListsInv` follows a list through
its loading: nothing is entered before the tables of types are complete
(`EmptyAtFirst`), the rows still to come are the end of those listed (`RowsInv`), a
poller has of its port what it has fetched (`PollerInv`), and a list over all ports has of
each no more than the rows before the first bad one, and all of these once the port has been
asked (`PortsInv`; the server asks every port twice, so that a port still to come may
already have some). `UptoIs` finds the first bad row as a least number. `SwitchInv` says
that of a switch which is not between its two statements the derived columns are those of
the row. Other types store their columns without deriving anything, so it needs
`SwitchColumnsOwn`: of the types in `zhjs.sql` only the touch switch has parameters for
the columns of a switch. `ListsOwn` carries that from the tables into the lists, which
may be cut, appended to (air control never frees its own) or older than the tables, and
`DevicesOwn` from there to the devices; so an edit may give a device another type.

`ColumnsRightHolds` joins the two ends of a poll. `WindowContains` is the arithmetic of
`find_addr_register_num()`: the search for the highest address starts at 0, that for the
lowest at 32767, and of parameters that do not overlap the one that starts last ends last,
so each lies in the window (`ParamsConstants`: each asks for at least one register; one of
length 0 could be last and hide the one before it). `TextShows` goes through the decoders
of the protocols. Between them, `WindowInv` says that the table of a device which is
polled is `Whole`, with the window of all its parameters: a poller minds every failure
while it loads, as air control and the server do not.

*DevicePollingProofs*: `PollingTypeCorrect`; `NoConnectionWithoutValues`, from
`StoredBeforeShown` (the history in memory is fine only after both statements
succeeded, and reaches the row as a whole); `StatisticsAlwaysRight`, put together from
`HistoryNeverExceedsStatistics` and `PercentAlwaysRight`, from `CountsConsistent` (an
exchange counted and not yet in the history is accounted for as `Pending`; under
`Unwrapped` no counter has overflowed). `ShiftInFine` is the lemma behind it: a shift adds
at most its own outcome to the fine ones of a history, by an injection into the old
history.

*DsBusProofs*: `DsBusTypeCorrect`; `BufferAlwaysRespected`, from `BoundInv` (in each
step the message and the bytes asked for end at a known place, `Reach`);
`ConfirmedIsAlwaysAnswer` and `SoundAnswerAlwaysConfirmed`, from `MessageInv`: the
lengths of a sound response agree with each other, once past the function byte the
driver knows the function of a sound frame, and in each step a sound response has
come exactly as far as `Expected` says. `Fresh` adds that without late bytes all
that is on the line belongs to the present exchange.

*ProtocolsProofs*, about the five other drivers on one line: `DriversSafeHolds`,
`SoundAnswersConfirmedHolds` and `ExchangeRefinement`, for any numbers of registers,
sizes of buffers, router addresses, preambles, garbage in length fields and selection of
line faults. `DriverStep` is what a step of a driver may be, whichever it is: the request
goes out, bytes come, the driver asks for more or refuses, reception ends, the port is
closed. Each of these keeps `LineInv`: the types, a quiet line behind a port just opened
(`Quiet`, which rests on the close that drops late bytes), and `Fresh`, a sound frame on
the line belongs to this exchange. That is all the refinement needs. Of `DriversSafeHolds` the
buffers are those of modbus, modbus_router and ds_bus_router, and the answers those of
modbus and ds_bus_router; of the two dlt645 drivers it says nothing. On top of `LineInv` each
driver has its own invariant, proved like that of ds_bus: which frames a device writes
(`ModbusFrames`, ..., closed under what the line does to them, `Closed`), how far the
message may reach at each step (`ModbusReach`, ...), and how far a sound answer has come
at each (`ModbusExpected`, ...). That of dlt645_router counts the preamble: `start` is the
router header and the bytes taken so far, and never beyond the head of a sound answer.
`XMoves` shows that a step of driver X is a `DriverStep`, `XOpens` and `XStep` that X
keeps its invariant; `OpenKeeps` and `WorkKeeps` put the drivers together. Nothing is
carried over from one driver to the next, so that their order on the line does not matter.
`ProtocolsAssumption` says of the buffers that their sizes are numbers; the drivers' own
constants say what they have room for.

*ServicesProofs* has five parts: the log, the commands of the UDP server, the
dictionary, the configuration file and the orders. Of the log `AssertionsAlwaysHold`, for any sizes, lines and numbers of buffers. The assertions hold in no single function. `NextTaken` says that the second
buffer in front is only missing when a full one waits in the queue; `Owed` then
says that the logging thread always holds as many buffers to give back as it gave away.
`Drop` keeps two buffers, and the thread never needs more. Lines are those
`Logger` can make (`LoggedLines`), so that the proof does not depend on the fold in
`Logger`, only on the assumption that a buffer in front is at least as large as that
of a line.

`KeepsLinesHolds` is the whole of `KeepsLines`: the log implements `LineLog`, where
pending lines are all buffers laid end to end. Appending adds to that sequence, swapping
and refilling leave it alone (`CollectPending`, `RefillPending`), writing takes a stretch
off its head (`WritePending`), dropping cuts one out (`DropPending`). For the last two the
stretch must not be empty, or the step would be none of `LineLog`: `KeepInv` says that
whoever queues a buffer has filled it (`BuffersFull`), which needs the length of a line
(`LoggerShort`), that no line is so long that an empty buffer has no room for it; and
that the buffers left out hold lines (`CollectedFull`). Flattening is a recursive
function over the number of buffers and `Logger` a fold over the pieces of a line; what
they compute is shown by induction over that number. The library's induction theorems
take a predicate, so `Induction` is stated of a set of numbers, and follows from `Least`:
less-than on numbers is well-founded, so a non-empty set has a least member.

Of the commands `RepliesAlwaysHold` and `OneGatewayHolds`, for any datagrams, files,
gateways and numbers of descriptors, and any failures and restarts
(`CommandsConstants`). `CommandsInv` has two parts that are not bookkeeping. `FilesInv`:
what a command other than sysset has still to write is for `sysconf.conf`. `ForceInv`:
between two sysset what was read back is in force; it can only be lost in a sysset, and
its reply then reads back again, or tells the server's memory. From a file that can be read
readers with different defaults get the same (`ReadersAgree`).
Nothing is claimed of a reply from memory, nor after a crash inside a sysset. `SetGatewayShapes` counts descriptors against
gateways: if one is left after deleting, all gateways are gone. The proof does not look
into the parser: it holds for any reader of the file.

Of the dictionary `DictionaryIsMap`, for any keys, values and hashes. `DictInv` says that
a taken slot has the hash of its key, that no two have the same key, and that as many are
taken as are counted; so there is a hole whenever fewer are counted than there are slots
(`HoleFound`), and one table differs from the next in one key (`SetThere`, `Inserted`,
`Grown`, `UnsetIs`).

Of the configuration file `SettingsReadHolds` and `RewriteKeepsOthersHolds`, for any lines,
names, spellings, values and number of settings. The parser is a fold over the lines; the
fold takes the last line first, and `LoadTrace` makes of it a sequence of states, one per line,
from which everything else is induction over the number of lines (`SetKeys` likewise:
`KeysTrace`).
- *What is read.* An `Ordinary` file has no line that is continued or not understood.
  `MakesIs` says that a line changes the table at the entry it makes, under the section of the
  last head above it (`SectionIs`), and nowhere else, which rests on `SetIs` of the dictionary;
  so the table has of an entry what the last line that makes it says (`LastMaker`). A file
  with a line that is not understood is refused, whatever follows (`StrangeRefused`).
- *What is saved.* Any text, continued lines and mistakes included, leaves a table that is
  `Orderly`: names in lower case, no key under a section that is not an entry. The dump of such a
  table is one of `FaithfulTexts`: each of its lines says of its entry what the table says. A faithful
  text that leaves no entry out reads as the table (`FaithfulReload`), in whatever
  order the slots are.
- *What is rewritten.* `Moved` relates the file before and after GLib sets a key: the lines
  are the same in the same order and under the same heads, some lines of the setting are
  gone, and one new line for it stands behind those that are left. That covers a value
  that is replaced, one that is added at the end of its group and one that comes with a new
  group, and `MovedSets` says what iniparser makes of it. That no older line of the setting is
  left below the new one is `KeyClear`, which follows from `OneSpelling` (`SpellingClears`), and which
  setting one key keeps for the other keys of the same write. `FilesTyped` is the invariant that
  the two files, and what a command is about to write, are lines; it holds also of files nobody
  can read.

Of the orders `HexFaithfulHolds`, for orders over any characters and of any length, and
for any size of the dump's buffer that is no multiple of three (`HexConstants`; it has 1000
bytes). The invariant is only that an order is a text: what the conversions make of it is
computed in one step, by a fold that cuts words and a loop that takes one or two
characters at a time, and the proof is an induction over each. `Begins` says that the
words cut of the beginning of an order are those it will have, the last one as far as it goes, so
that a word which will have two digits has the second one next (`WordWhole`). `Follows`
then relates the loop to the fold: it stands where it has the bytes of the words cut so far, and
has taken as many steps as characters less one for each byte, so it never runs out of
steps; at the end of the text it returns, and what it returns as length is the number of
bytes, or -1 of a blank. A dump has its digits and blanks at places that are multiples
of three (`DumpShapes`, by flattening), and the loop reads a byte of it in two steps
(`TripleTrims`).

`IniConstants` and `CommandsConstants` say what is assumed of names: lower case is
lower case already, no name is empty, and the names the program writes are in lower case.

*RoomControlProofs*: `OffsJustifiedHolds`, `LessonNeverShutHolds`, `OwnCodeHolds`, for
any house and any failures. The properties speak of the moment a command is sent; by
then the reasons are several queries old. `RoomInv` carries them along: `BranchInv`,
which branch the thread is in, also after a failing query; `AnswerInv`, what it has
read is true as long as every query is answered and nothing changes; `CommandInv`, what
is about to be sent, and that the code in the field is the device's own unless its query was
refused; `CodeInv`, that a code in the field is that of a conditioner of this visit, no
further in the list than the present one. `CodeStep` shows why refused queries do not spoil
that: they leave the field alone, and a new visit begins with none. `Sends` is the lemma that one step
sends one command, to the device of that step.

*PublicLightingProofs*: `DecidedInForceHolds`, `LastInForceDecidesHolds` and both
together, `DecidedByPeriodsHolds`, for any number of models, periods, hours and minutes.
Half of it is arithmetic: `PeriodContains` and `PeriodNow` show that what the code makes
of a row, two dates built from today's and perhaps tomorrow's, and compared with the
clock, is the period of the row, also over midnight. The other half is the invariant
`LightingInv`: every period read stands for a row of a model enabled on a day of this
round (`ReadInv`); and as long as the clock stands and every query is answered, the
periods read are exactly those of the models so far, in order, and the last one of them
in force is what has been decided (`OrderInv`).

`NoFlickerHolds` adds `SteadyInv`, whose heart is a budget: what a lamp has been switched
and may still be (`Left`) is at most three, and two more for each failing query. While
the sensor's row is `Outdated` it makes the thread switch a lamp against the final
command once, and back; a round that is `Astray`, because a query failed, time went on
or the light it goes by was measured before the lamps changed, may switch a lamp wrongly,
and the next one back. `RoundDecides` (shared with `LastInForceDecidesHolds`) says
that a round which is not astray commands what the last period in force says, so that
of two such rounds the second switches nothing. The hypothesis `Hysteresis`, that lamps do not
light the sensor past the other threshold, is that of the property.

*JsonProofs*: `JsonFaithfulHolds`, which is all of `JsonFaithful`, for texts of any length,
strings over any characters, values nested to any depth and any limits of the integers of
which the smaller one has two digits at least (`JsonConstants`; the code has 2^31 and 2^63).
`JsonInv` says of a text being read that both parsers are `Halfway` or that the text is
refused by both, and of the Writer which `levels` go with the parser that reads what it has
written so far. It rests on five arguments.

- *One parser is the mirror of the other.* The frames of the recursive parser are its call
  stack. `StateOf` computes from the innermost one the state of the iterative parser, `StackOf`
  from the others its stack with the counts in it (`Agreed`). Token by token both remain so, or
  both refuse (`NextAgrees`): the comma the iterative parser counts as it meets it is the value
  the other one has read before it.
- *The document is laid out along the frames.* Each frame has a part of the handlers' stack, and
  the part of the text that says it (`FrameIs`, `Held`). Spelling out a document takes as many steps as
  it is deep. So `Becomes` says that one text becomes another in so many steps, and texts one
  behind the other become what each becomes (`BecomesJoined`). The end of a compound takes its
  part off the stack and puts one value there, whose text is the same (`ArrayEnds`,
  `ObjectEnds`), so the text that ends has one value, and is that value's text (`HeldStops`).
- *A string is what it was.* Each character's escape is read as the character, in one step
  (`PieceRead`), so the steps of `ParseString()` follow the characters (`StringRead`); what
  the Writer is given ends at its first NUL.
- *A number is read by stages,* 32 bits, 64 bits, double, each of which takes digits as long as
  the value stays in its limit (`AccumulateTo`). As values of beginnings only grow
  (`ValuesGrow`), an integer leaves a stage exactly when it is too large for it, and the next one goes on
  with the value so far (`NumberIs`). `IntegerExact` puts the sign in.
- *What the Writer writes may come next.* A level with an odd count is an object between a name
  and its value (`Odd`, `Place`), and `LevelsFit` ties each level to a frame. So what the
  handlers' order allows (`Due`) is what the parser's place accepts (`NextAccepted`,
  `WriterThen`), and the end of the reply closes the last frame. The strings read are then
  those that were said, in order (`StringsAppended`).

The lemmas on induction, flattening and digits are those of *ServicesProofs*, proved again: a module
that extended it would take too long to check. What takes steps in the code is a recursive function of their number in the model
(`ParseString`, `Accumulate`, `Decimal`, `TokensOf`), and each induction is over that number.

Model-checked only: the liveness properties, that is `EveryDevicePolled`,
`StopTakesEffect`, `ExchangeEnds`, `RoomsSettle`, `LampsFollow`, `LineReachesDisk`,
`PortLeft` and the fairness part of `ImplementsBus` and `ImplementsExchange` (the steps of
both are proved), which are beyond this prover. Every invariant of a passing run is proved.

## Assumptions about the environment

* A port's name is unique in one answer of `hardcom` (the query groups by id).
* Datagrams to `ThreadControl` are well-formed; `UdpCommands` and `Json` treat others.
* Socket errors at boot exit the process before any thread exists; left out.
* The sleeps of 200 ms in `get_thread_list` are part of `UdpFetch`.
* `Getprotocol` cannot fail in a poller that passed `get_harddevice`, so those
  branches are left out.
* A CRC or checksum matches exactly for one whole sound frame.
* `fopen`, `fwrite` and `socket` fail as `Fault` and `CommandFault` say, or for want of descriptors; memory
  is always there.

## What is not modelled

Each component of `PROJECT.json` with another status than `modelled` has a note. In
short: formats of replies and log lines, values of registers where only their place
matters, battery and power scripts of the board (`json_battery*`, `json_sysop*`: they run
a shell command or read one file and keep no state), hardtype operations that
return at once or only log, the parts of libmodbus, rapidjson, iniparser and muduo nobody
calls (servers, TCP, pointers, schemas, regular expressions, other encodings), and
files no Makefile builds (`mysql_roominfo2`, `json_update`, `hardtype.cpp`, copies under
other names). Leaks of memory have no variable in the models; leaks of descriptors do.

## Plan

Composition: room control under `ThreadControl`'s air-control rounds; a poller of
`DevicePolling` as a refinement of `ThreadControl`'s poller.
