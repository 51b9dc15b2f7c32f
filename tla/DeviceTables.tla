------------------------------ MODULE DeviceTables -----------------------------
(***************************************************************************)
(* How a thread learns its devices and a poller writes their columns: the  *)
(* types and their parameters (mysql_hdparamlist.cpp), the devices of a    *)
(* port (get_harddevice() of the poller, of the server and of air control, *)
(* mysql_harddevice.cpp), sql_insert_handle() after an exchange and        *)
(* hardtype_op() of the touch switch.                                      *)
(*                                                                         *)
(* The database may be edited at any moment and every query may fail in    *)
(* two ways: the statement is refused ("refused": query.use() is false and *)
(* conn.errnum() is not looked at), or the connection ends behind some of  *)
(* the rows ("cut").                                                       *)
(***************************************************************************)
EXTENDS Decoders

CONSTANTS
  Databases,    \* contents: [params : type -> Seq(parameter), rows : port -> Seq(row)]
  ComNames,     \* the ports in the order of hardcom
  Readings,     \* names of the states a device may be in; Byte gives a switch's
  Byte,         \* <<address, reading>> -> [on, manual, ctl] of a touch switch's register
  MaxEdits, MaxDbFaults, MaxLoads

VARIABLES
  db, who,
  loading,              \* idle, types, tables, rows, polling, ready, crashed
  ghdparamlist_list, unasked,  \* the latter: the positions of the list still to be asked for
  air_list,                 \* the list of air control, which its thread never frees
  coms, listed, result, \* ports to ask; the answer of the current one; its rows to come
  devices,              \* hdharddevices of the port, harddevice_list of server and air
  nbharddevice,
  columns, derived,     \* hdid -> column -> text; hdid -> the switch's derived columns
  turn,                 \* the device between its two statements
  edits, dbfaults, loads

\* A row of harddevice is in the list of a port, a row of hdparamlist in that of a type; a
\* board has a port.
AllRows == UNION {UNION {ToSet(d.rows[c]) : c \in ToSet(ComNames)} : d \in Databases}
AllParams == UNION {UNION {ToSet(d.params[t]) : t \in DOMAIN d.params} : d \in Databases}
TablesConstants ==
  /\ ComNames \in Seq(ToSet(ComNames)) /\ ComNames # <<>>
  /\ \A d \in Databases :
       /\ \A c \in ToSet(ComNames) : d.rows[c] \in Seq(AllRows)
       /\ IsFiniteSet(DOMAIN d.params)
       /\ \A t \in DOMAIN d.params : d.params[t] \in Seq(AllParams)

\* A parameter asks for at least one register (hdlen), at its address.
ParamsConstants == \A p \in AllParams : p.addr \in Nat /\ p.len \in Nat \ {0} /\ p.scale \in Nat

tableVars ==
  <<db, who, loading, ghdparamlist_list, unasked, air_list, coms, listed, result, devices, nbharddevice,
    columns, derived, turn, edits, dbfaults, loads>>
lists == <<ghdparamlist_list, unasked, air_list, coms, listed, result, devices, nbharddevice>>
stored == <<columns, derived>>
bounds == <<edits, dbfaults, loads>>

------------------------------------------------------------------------------
(* What is registered                                                      *)

Protocols == {"modbus", "ds_bus", "dlt645", "dlt645_router", "ds_bus_router", "modbus_router"}
RouterOf == [p \in {"modbus", "ds_bus", "dlt645"} |-> p \o "_router"]

HardType(protocol, baudrate, parity) ==
  [protocol |-> protocol, settings |-> [baudrate |-> baudrate, parity |-> parity]]
new_human_induction == HardType("ds_bus", 9600, "N")
measure_jack == HardType("modbus", 9600, "N")
touch_switch == HardType("ds_bus", 9600, "N")
pcount == HardType("modbus", 9600, "N")
pcount_tcp == HardType("modbus_tcp", 9600, "N")
relay == HardType("ds_bus", 9600, "N")
single_phase_meter == HardType("dlt645", 2400, "E")
three_phase_meter == HardType("dlt645", 2400, "E")
xinke_relay == HardType("xinke_relay", 9600, "N")
HardTypes ==
  "3" :> new_human_induction @@ "4" :> measure_jack @@ "5" :> touch_switch @@ "6" :> pcount
  @@ "7" :> pcount_tcp @@ "300" :> relay @@ "1000" :> single_phase_meter
  @@ "1001" :> three_phase_meter @@ "1002" :> xinke_relay

\* The first table of that name.
TableOf(type) == {k \in DOMAIN ghdparamlist_list : ghdparamlist_list[k].name = type}

------------------------------------------------------------------------------
(* One row of harddevice: [hdid, hdtype, routed]                           *)

\* protocol_has_router() looks into the protocol it did not find.
LosesRow(row) ==
  row.routed /\ row.hdtype \in DOMAIN HardTypes /\ HardTypes[row.hdtype].protocol \notin DOMAIN RouterOf

ProtocolOf(row) ==
  LET p == HardTypes[row.hdtype].protocol IN IF row.routed THEN RouterOf[p] ELSE p

\* Without type, table or protocol the whole port is given up.
Refused(row) ==
  \/ row.hdtype \notin DOMAIN HardTypes
  \/ TableOf(row.hdtype) = {}
  \/ ProtocolOf(row) \notin Protocols

\* A device behind a router is spoken to with the settings of the router.
Device(com, row) ==
  [hdid |-> row.hdid, hdtype |-> row.hdtype, com |-> com, protocol |-> ProtocolOf(row),
   settings |-> HardTypes[IF row.routed THEN "300" ELSE row.hdtype].settings,
   gparamlist |-> ghdparamlist_list[Min(TableOf(row.hdtype))]]

------------------------------------------------------------------------------
(* Loading                                                                 *)

\* A query fails in one of its two ways.
Fault == dbfaults < MaxDbFaults /\ dbfaults' = dbfaults + 1
NoFault == UNCHANGED dbfaults

Idle == loading' = "idle" /\ ghdparamlist_list' = <<>> /\ devices' = <<>>

\* mysql_create_pthread() and its like: a poller asks for one port, air control for all,
\* the server for all of them twice.
StartLoading(w, cs) ==
  /\ loading = "idle" /\ loads < MaxLoads
  /\ who' = w /\ coms' = cs /\ loading' = "types" /\ loads' = loads + 1
  /\ ghdparamlist_list' = (IF w = "air" THEN air_list ELSE <<>>)
  /\ UNCHANGED <<db, unasked, air_list, listed, result, devices, nbharddevice, stored, turn, edits, dbfaults>>

TypeNames == SetToSeq(DOMAIN db.params)
Unfilled(name) == [name |-> name, params |-> <<>>, min |-> 0, num |-> 0]

\* get_ghdparamlist_object_from_mysql().  Only a poller minds a connection that ended.
LoadTypes ==
  /\ loading = "types"
  /\ \E names \in Prefixes(TypeNames), cut \in BOOLEAN :
       /\ \/ names = TypeNames /\ ~cut /\ NoFault
          \/ names = <<>> /\ ~cut /\ Fault
          \/ cut /\ Fault
       /\ IF cut /\ who = "poller" THEN Idle /\ UNCHANGED <<unasked>>
          ELSE /\ ghdparamlist_list' = ghdparamlist_list \o [k \in DOMAIN names |-> Unfilled(names[k])]
               /\ unasked' = [k \in DOMAIN ghdparamlist_list' |-> k]
               /\ loading' = "tables" /\ UNCHANGED devices
  /\ UNCHANGED <<db, who, air_list, coms, listed, result, nbharddevice, stored, turn, edits, loads>>

\* get_hdparamlist() of the next type: what the database has at that moment is appended
\* to what the list has.  If it is cut, this type gets some of it (here one parameter at
\* most), which nobody counts, and those behind it nothing.
LoadTable ==
  /\ loading = "tables" /\ unasked # <<>>
  /\ LET k == Head(unasked)
         name == ghdparamlist_list[k].name
         stored_now == IF name \in DOMAIN db.params THEN db.params[name] ELSE <<>>
     IN \/ \E params \in {stored_now, <<>>} :
             LET all == ghdparamlist_list[k].params \o params
             IN /\ IF params = stored_now THEN NoFault ELSE Fault
                /\ IF NoParams(all) THEN loading' = "crashed" /\ UNCHANGED <<ghdparamlist_list, unasked>>
                   ELSE /\ ghdparamlist_list' = [ghdparamlist_list EXCEPT ![k] = Table(name, all)]
                        /\ unasked' = Tail(unasked) /\ UNCHANGED loading
                /\ UNCHANGED devices
        \/ /\ Fault
           /\ IF who = "poller" THEN Idle /\ UNCHANGED unasked
              ELSE /\ \E some \in {p \in Prefixes(stored_now) : Len(p) <= 1} :
                        ghdparamlist_list' = [ghdparamlist_list EXCEPT ![k].params = @ \o some]
                   /\ unasked' = <<>> /\ UNCHANGED <<loading, devices>>
  /\ UNCHANGED <<db, who, air_list, coms, listed, result, nbharddevice, stored, turn, edits, loads>>

\* Tail(coms) is asked next; the poller goes on to its loop, the others use their list.
NextPort ==
  IF Len(coms) > 1 THEN coms' = Tail(coms) /\ loading' = "tables"
  ELSE coms' = <<>> /\ loading' = (IF who = "poller" THEN "polling" ELSE "ready")

\* The query of get_harddevice().
AskRows ==
  /\ loading = "tables" /\ unasked = <<>>
  /\ \/ /\ NoFault
        /\ listed' = db.rows[Head(coms)] /\ result' = listed' /\ loading' = "rows"
        /\ UNCHANGED <<coms, nbharddevice>>
     \/ /\ Fault
        /\ nbharddevice' = Len(devices) /\ listed' = <<>> /\ result' = <<>>
        /\ NextPort
  /\ UNCHANGED <<db, who, ghdparamlist_list, unasked, air_list, devices, stored, turn, edits, loads>>

\* Mutant: what was fetched stays in the port's vector.
GiveUpKeeping ==
  IF who = "poller"
  THEN loading' = "idle" /\ ghdparamlist_list' = <<>> /\ UNCHANGED <<coms, devices>>
  ELSE NextPort /\ UNCHANGED <<ghdparamlist_list, devices>>

\* Mutant: one row that cannot be loaded ends the loading of all ports.
GiveUpRest ==
  IF who = "poller" THEN Idle /\ UNCHANGED coms
  ELSE coms' = <<>> /\ loading' = "ready" /\ UNCHANGED <<ghdparamlist_list, devices>>

\* get_harddevice() returns -1: the poller gives up, the others ignore it.
GiveUp ==
  IF who = "poller" THEN Idle /\ UNCHANGED coms
  ELSE NextPort /\ UNCHANGED <<ghdparamlist_list, devices>>

\* One turn of its loop.
FetchRow ==
  /\ loading = "rows"
  /\ \/ /\ result # <<>> /\ NoFault
        /\ LET row == Head(result)
           IN CASE LosesRow(row) ->
                     loading' = "crashed" /\ UNCHANGED <<ghdparamlist_list, devices, coms, result>>
                [] ~LosesRow(row) /\ Refused(row) -> GiveUp /\ result' = <<>>
                [] OTHER -> /\ devices' = Append(devices, Device(Head(coms), row))
                            /\ result' = Tail(result)
                            /\ UNCHANGED <<loading, ghdparamlist_list, coms>>
        /\ UNCHANGED nbharddevice
     \/ /\ result # <<>> /\ Fault
        /\ GiveUp /\ result' = <<>> /\ UNCHANGED nbharddevice
     \/ /\ result = <<>> /\ NoFault
        /\ nbharddevice' = Len(devices) /\ NextPort
        /\ UNCHANGED <<ghdparamlist_list, devices, result>>
  /\ UNCHANGED <<db, who, unasked, air_list, listed, stored, turn, edits, loads>>

------------------------------------------------------------------------------
(* A turn of the poller with a device that answers                         *)

\* What read_registers leaves in device_data when the device is in state r.
DeviceData(d, r) == [k \in 1..d.gparamlist.num |-> <<d.gparamlist.min + k - 1, r>>]

Ptr(d, p) == p.addr - d.gparamlist.min
ColumnText(d, p, r) == Text(d.protocol, p, DeviceData(d, r), Ptr(d, p))

\* sql_insert_handle(): one statement for all columns, later ones prevailing.  A time
\* comes with quotes of its own, which the statement does not survive.
SqlInsertHandle(d, r) ==
  LET params == d.gparamlist.params
      text(c) == ColumnText(d, params[Max({k \in DOMAIN params : params[k].colum = c})], r)
  IN [c \in {params[k].colum : k \in DOMAIN params} |-> text(c)]

Breaks(text) == \E c \in DOMAIN text : \E k \in DOMAIN text[c] : text[c][k].kind = "time"

\* The statement is executed; behind it update_lastconnecttime() may fail, and then
\* hardtype_op() is passed over.
PollDevice(n, r) ==
  /\ loading = "polling" /\ turn = 0
  /\ n \in 1..nbharddevice
  /\ LET d == devices[n]
         text == SqlInsertHandle(d, r)
     IN \/ /\ \E c \in DOMAIN text : text[c] = Crashing
           /\ loading' = "crashed" /\ UNCHANGED <<stored, turn, dbfaults>>
        \/ /\ \A c \in DOMAIN text : text[c] # Crashing
           /\ ~Breaks(text)
           /\ columns' = [columns EXCEPT ![d.hdid] = [c \in DOMAIN @ |-> IF c \in DOMAIN text THEN text[c] ELSE @[c]]]
           /\ UNCHANGED loading
           /\ \/ NoFault /\ turn' = (IF d.hdtype = "5" THEN n ELSE 0) /\ UNCHANGED derived
              \/ Fault /\ derived' = [derived EXCEPT ![d.hdid].sound = FALSE] /\ UNCHANGED turn
  /\ UNCHANGED <<db, who, lists, edits, loads>>

Switch == {"sw_ctl1", "sw_ctl2", "sw_ctl3", "sw_ctl4"}

\* Only the parameters of a touch switch go to the columns of a switch (zhjs.sql).
OwnParams(type) == {p \in AllParams : type # "5" => p.colum \notin Switch}
SwitchColumnsOwn == \A d \in Databases : \A t \in DOMAIN d.params : ToSet(d.params[t]) \subseteq OwnParams(t)

NULL == <<>>

\* sscanf("%x") of a column: four bytes are written, so a switch without a number gets
\* the zeros of the one before it.
SwitchByte(text) ==
  IF text = NULL \/ text = <<Zero>> THEN [on |-> FALSE, manual |-> FALSE, ctl |-> FALSE]
  ELSE Byte[text[1].digits[1]]

\* The switches whose byte has that bit; the low nibble f is "closed".
Having(row, bit) == {c \in Switch : SwitchByte(row[c])[bit]}
DerivedFrom(on, manual, ctl) == [on |-> on, manual |-> manual, ctl |-> ctl, sound |-> TRUE]

\* Mutant: permission and mode are taken from each other's bit.
DeriveSwapped(row) == DerivedFrom(Having(row, "on"), Having(row, "ctl"), Having(row, "manual"))

\* touch_switch::hardtype_op() from a row.
Derive(row) == DerivedFrom(Having(row, "on"), Having(row, "manual"), Having(row, "ctl"))

\* If the query is refused or the first switch has no number, the array on the stack is
\* evaluated as it is: anything may be written.  If the rows are cut or the update fails
\* nothing is.
Doubtful == [DerivedFrom({}, {}, {}) EXCEPT !.sound = FALSE]
HardtypeOp ==
  /\ turn # 0
  /\ turn' = 0
  /\ LET hdid == devices[turn].hdid
         row == columns[hdid]
     IN \/ /\ NoFault /\ row["sw_ctl1"] # NULL
           /\ derived' = [derived EXCEPT ![hdid] = Derive(row)]
        \/ /\ IF row["sw_ctl1"] = NULL THEN NoFault ELSE Fault
           /\ derived' = [derived EXCEPT ![hdid] = Doubtful]
        \/ Fault /\ derived' = [derived EXCEPT ![hdid].sound = FALSE]
  /\ UNCHANGED <<db, who, loading, lists, columns, edits, loads>>

\* The run flag falls: the poller frees its lists at the end of its loop, the others
\* when they are told to.  nbharddevice stays.
StopLoaded ==
  /\ loading \in {"polling", "ready"} /\ turn = 0
  /\ Idle
  /\ air_list' = (IF who = "air" THEN ghdparamlist_list ELSE air_list)
  /\ UNCHANGED <<db, who, unasked, coms, listed, result, nbharddevice, stored, turn, bounds>>

\* Somebody edits the tables.
EditDatabase ==
  /\ loading # "crashed" /\ edits < MaxEdits
  /\ db' \in Databases \ {db} /\ edits' = edits + 1
  /\ UNCHANGED <<who, loading, lists, stored, turn, dbfaults, loads>>

------------------------------------------------------------------------------

Hdids == UNION {{d.rows[c][k].hdid : k \in DOMAIN d.rows[c]} : d \in Databases, c \in ToSet(ComNames)}
AllColumns ==
  LET of(params) == {params[k].colum : k \in DOMAIN params}
  IN Switch \cup UNION {UNION {of(d.params[t]) : t \in DOMAIN d.params} : d \in Databases}

TablesInit ==
  /\ db \in Databases /\ who = "poller" /\ loading = "idle"
  /\ ghdparamlist_list = <<>> /\ unasked = <<>> /\ air_list = <<>> /\ coms = <<>> /\ listed = <<>> /\ result = <<>>
  /\ devices = <<>> /\ nbharddevice = 0
  /\ columns = [h \in Hdids |-> [c \in AllColumns |-> NULL]]
  /\ derived = [h \in Hdids |-> Derive([c \in Switch |-> NULL])]
  /\ turn = 0 /\ edits = 0 /\ dbfaults = 0 /\ loads = 0

TablesNext ==
  \/ \E c \in ToSet(ComNames) : StartLoading("poller", <<c>>)
  \/ StartLoading("air", ComNames)
  \/ StartLoading("server", ComNames \o ComNames)
  \/ LoadTypes \/ LoadTable \/ AskRows \/ FetchRow
  \/ \E n \in DOMAIN devices, r \in Readings : PollDevice(n, r)
  \/ HardtypeOp \/ StopLoaded \/ EditDatabase

TablesSpec == TablesInit /\ [][TablesNext]_tableVars

------------------------------------------------------------------------------
(* Properties                                                              *)

\* A poller polls what its query listed, each device once and in that order: nothing
\* of an earlier attempt that failed half-way is among its devices.
PolledAsListed ==
  loading = "polling" =>
    /\ nbharddevice = Len(devices)
    /\ [k \in DOMAIN devices |-> devices[k].hdid] = [k \in DOMAIN listed |-> listed[k].hdid]

\* What the driver asked for contains every register a column is made of, and at the
\* offset the decoder looks: with parameters that do not overlap each column that is
\* carried shows the registers of its own address, in the protocol's order.
ColumnsRight ==
  loading = "polling" =>
    \A n \in 1..nbharddevice, r \in Readings :
      LET d == devices[n]
          params == d.gparamlist.params
      IN Disjoint(params) =>
           \A k \in {j \in DOMAIN params : Carried(d.protocol, params[j])} :
             LET p == params[k]
                 text == ColumnText(d, p, r)
             IN /\ Len(text) = 1
                /\ text[1].digits = Significant(d.protocol, [j \in 1..p.len |-> <<p.addr + j - 1, r>>])
                /\ p.type \in {"int", "float"} => text[1].over = 1

\* Between two polls the derived columns of a switch agree with its registers as they
\* stand in the row, unless the last attempt to derive them failed.
SwitchAgrees ==
  \A k \in DOMAIN devices :
    LET hdid == devices[k].hdid
    IN devices[k].hdtype = "5" /\ turn = 0 /\ derived[hdid].sound =>
         \A c \in Switch :
           LET byte == SwitchByte(columns[hdid][c])
           IN /\ c \in derived[hdid].on <=> byte.on
              /\ c \in derived[hdid].manual <=> byte.manual
              /\ c \in derived[hdid].ctl <=> byte.ctl

\* A row that cannot be loaded costs its port, not the ports behind it.
OtherPortsListed ==
  loading = "ready" /\ dbfaults = 0 /\ edits = 0 =>
    \A c \in ToSet(ComNames) :
      LET rows == db.rows[c]
          bad == {k \in DOMAIN rows : Refused(rows[k])}
          upto == IF bad = {} THEN Len(rows) ELSE Min(bad) - 1
      IN {devices[k].hdid : k \in {j \in DOMAIN devices : devices[j].com = c}} = {rows[k].hdid : k \in 1..upto}

\* What the threads work on is what the tables list, though rows are refused, queries fail
\* half-way and tables are edited between two attempts.
DevicesListed == PolledAsListed /\ OtherPortsListed
==============================================================================
