------------------------------ MODULE RoomControl ------------------------------
(***************************************************************************)
(* The rounds of air control over the rooms: timetables, self-study by      *)
(* head count and by motion sensors, and the commands to the devices of a   *)
(* room.  Each query of the database and each command to a device is a      *)
(* step; between two of them timetables, people and device rows change.     *)
(* The connection throws nothing: what a query that is refused leaves as it *)
(* was is used as if it had been read, and a connection that is lost while  *)
(* rows are fetched is an error.  A touch switch has one of its ports here. *)
(***************************************************************************)
EXTENDS Integers, Sequences, FiniteSets

CONSTANTS
  Rooms, Hddevices, None,
  DevicesOf,    \* rows of harddevice of a room, in the order of the query
  Hdtype,       \* column hdtype
  Known,        \* devices in the harddevice_list the thread fetched at its start
  Routed,       \* switches behind a router, whose LED relay_off() lights
  Rules,        \* rows of pcount_conf with cmd_type 1: device and limit
  Lessons, Motions, Counts, \* what timetables, sensors and counters may show
  MaxChanges,   \* bound: changes of timetables and people
  MaxFaults     \* bound: failing queries and commands

air == "3"      \* new_human_induction, with the infrared sender of a conditioner
switch == "5"
counter == "7"
meter == "1001"
relay == "1002"

ASSUME RoomAssumption ==
  /\ None \notin Hddevices
  /\ DevicesOf \in [Rooms -> Seq(Hddevices)]
  /\ Hdtype \in [Hddevices -> {air, switch, counter, meter, relay}]
  /\ Known \subseteq Hddevices /\ Routed \subseteq Hddevices
  /\ Rules \in [Rooms -> SUBSET [device : Hddevices, limit : Int]]
  /\ Lessons \subseteq {"free", "lesson", "self_study"} /\ Motions \subseteq {"recent", "long"}
  /\ Counts \subseteq Int
  /\ MaxChanges \in Nat /\ MaxFaults \in Nat

VARIABLES
  inuse,        \* the rooms in use: rows of roominfo with isused 1
  table,        \* per room and timetable_type: in use today, and what is on now
  hd_humtime,   \* columns of harddevice: "recent" motion or "long" ago
  coded,        \* conditioners with a row of airc and aircpara
  people,       \* what the counters of a room add up to
  on, led,      \* the devices: switched on, LED "forbidden" lit
  row, ledRow,  \* what the database says of that
  at,           \* where the thread is
  todo, room,   \* rooms left in this round, the present one
  why,          \* which branch of op_roominfo_object(): "lesson", "free", "study"
  harddevice_list, i, command, \* devices of the room, index, and what is to be sent
  airckz, aircmode, relay_status, switch_status, manual_permission,
                \* fields of roominfo, which outlive a device (the last: not 0xf)
  offs,         \* pcount_op_obj_list
  pcount_num,
  sent,         \* history: commands of this visit
  steady, failed, \* history: no change, a failing query during this visit
  refused,      \* history: devices whose own query was refused during this visit
  changes, faults

world == <<inuse, table, hd_humtime, coded, people>>
devices == <<on, led, row, ledRow>>
status == <<relay_status, switch_status, manual_permission>>
fields == <<why, harddevice_list, i, command, airckz, aircmode, status, offs, pcount_num>>
history == <<sent, steady, failed, refused>>
vars == <<world, devices, at, todo, room, fields, history, changes, faults>>

Kinds == {"temporary", "normal"}
InRoom(r) == {DevicesOf[r][k] : k \in DOMAIN DevicesOf[r]}
OfType(r, t) == {d \in InRoom(r) : Hdtype[d] = t}
Sensors == {d \in Hddevices : Hdtype[d] = air}
Shuttable == {d \in Hddevices : Hdtype[d] \in {air, switch, relay}}

\* What the timetable in force says of a room, by the rules of op_roominfo_object().
InForce(r) == IF table[r]["temporary"].used THEN table[r]["temporary"].now
              ELSE IF table[r]["normal"].used THEN table[r]["normal"].now
              ELSE "lesson"

Init ==
  /\ inuse \in SUBSET Rooms
  /\ table \in [Rooms -> [Kinds -> [used : BOOLEAN, now : Lessons]]]
  /\ hd_humtime \in [Sensors -> Motions]
  /\ coded \in SUBSET Sensors
  /\ people \in [Rooms -> Counts]
  /\ on \in {f \in [Hddevices -> BOOLEAN] : \A d \in Hddevices : f[d] => d \in Shuttable}
  /\ row = on
  /\ led \in {[d \in Hddevices |-> FALSE], [d \in Hddevices |-> d \in Routed]} /\ ledRow = led
  /\ at = "round" /\ todo = {} /\ room = CHOOSE r \in Rooms : TRUE
  /\ why = "lesson" /\ harddevice_list = <<>> /\ i = 1 /\ command = "none"
  /\ airckz = None /\ aircmode = 0
  /\ relay_status = FALSE /\ switch_status = FALSE /\ manual_permission = TRUE
  /\ offs = {} /\ pcount_num = 0
  /\ sent = {} /\ steady = TRUE /\ failed = FALSE /\ refused = {}
  /\ changes = 0 /\ faults = 0

------------------------------------------------------------------------------
(* The world, of which the rooms in use matter                              *)

Used == UNION {InRoom(r) : r \in inuse}

Change ==
  /\ changes < MaxChanges /\ changes' = changes + 1
  /\ steady' = FALSE
  /\ \/ \E r \in inuse, k \in Kinds, t \in [used : BOOLEAN, now : Lessons] :
          table' = [table EXCEPT ![r][k] = t] /\ UNCHANGED <<hd_humtime, people>>
     \/ \E d \in Sensors \cap Used, h \in Motions :
          hd_humtime' = [hd_humtime EXCEPT ![d] = h] /\ UNCHANGED <<table, people>>
     \/ \E r \in inuse, n \in Counts :
          people' = [people EXCEPT ![r] = n] /\ UNCHANGED <<table, hd_humtime>>
  /\ UNCHANGED <<inuse, coded, devices, at, todo, room, fields, sent, failed, refused,
                 faults>>

\* Somebody in the room switches a device on or off.
Toggle(d) ==
  /\ changes < MaxChanges /\ changes' = changes + 1
  /\ d \in Shuttable \cap Used
  /\ on' = [on EXCEPT ![d] = ~@]
  /\ UNCHANGED <<world, led, row, ledRow, at, todo, room, fields, history, faults>>

\* A poller stores what a device reports; a meter reports whether one of the
\* conditioners of its room takes power.
Poll(d) ==
  /\ d \in Used /\ Hdtype[d] \in {switch, meter, relay}
  /\ LET power == \E r \in inuse : d \in InRoom(r) /\ \E a \in OfType(r, air) : on[a]
     IN  row' = [row EXCEPT ![d] = IF Hdtype[d] = meter THEN power ELSE on[d]]
  /\ ledRow' = [ledRow EXCEPT ![d] = led[d]]
  /\ UNCHANGED <<world, on, led, at, todo, room, fields, history, changes, faults>>

------------------------------------------------------------------------------
(* A round                                                                  *)

\* A query or a command fails.
Fault == faults < MaxFaults /\ faults' = faults + 1
QueryFails == Fault /\ failed' = TRUE
Succeeds == UNCHANGED <<failed, faults>>

\* get_roominfo_from_mysql(): the rooms in use, or what was read of them.
Round ==
  /\ at = "round" /\ at' = "rooms"
  /\ \/ todo' = inuse /\ UNCHANGED faults
     \/ Fault /\ todo' \in SUBSET inuse
  /\ UNCHANGED <<world, devices, room, fields, history, changes>>

RoundEnds ==
  /\ at = "rooms" /\ todo = {} /\ at' = "round"
  /\ UNCHANGED <<world, devices, todo, room, fields, history, changes, faults>>

\* get_hdid_info(): a room with a device that the thread does not know, or whose rows
\* break off, is left out; if the query is refused the room is visited without devices.
HdidInfo(r) ==
  \/ /\ InRoom(r) \subseteq Known /\ at' = "update" /\ harddevice_list' = DevicesOf[r]
     /\ failed' = FALSE /\ UNCHANGED faults
  \/ at' \in {"update", "rooms"} /\ harddevice_list' = <<>> /\ QueryFails
  \/ /\ ~(InRoom(r) \subseteq Known) /\ at' = "rooms" /\ harddevice_list' = <<>>
     /\ failed' = FALSE /\ UNCHANGED faults

\* The roominfo of a round is a new object, all of whose fields are zero.
NewRoominfo ==
  /\ why' = "lesson" /\ i' = 1 /\ command' = "none" /\ airckz' = None /\ aircmode' = 0
  /\ relay_status' = FALSE /\ switch_status' = FALSE /\ manual_permission' = TRUE
  /\ offs' = {} /\ pcount_num' = 0

\* op_roominfo().
Visit ==
  /\ at = "rooms"
  /\ \E r \in todo : room' = r /\ todo' = todo \ {r} /\ HdidInfo(r)
  /\ NewRoominfo
  /\ sent' = {} /\ steady' = TRUE /\ refused' = {}
  /\ UNCHANGED <<world, devices, changes>>

\* get_hdid_op(): each meter writes into all rows of airc of its room whether it is on:
\* off, if the query of its power is refused.  Other statements that fail are skipped.
UpdateAirc ==
  /\ at = "update" /\ at' = "temporary"
  /\ LET meters == IF harddevice_list = <<>> THEN {} ELSE OfType(room, meter)
         Write(p) ==
           row' = [d \in Hddevices |-> IF d \in OfType(room, air) THEN p ELSE row[d]]
     IN  \/ \E m \in meters : Write(row[m]) /\ Succeeds
         \/ meters = {} /\ UNCHANGED row /\ Succeeds
         \/ meters # {} /\ QueryFails /\ (Write(FALSE) \/ UNCHANGED row)
  /\ UNCHANGED <<world, on, led, ledRow, todo, room, fields, sent, steady, refused, changes>>

------------------------------------------------------------------------------
(* The timetables                                                           *)

\* A query whose answer decides where to go on; if it fails the flag stays false.
Ask(stage, answer, yes, no) ==
  /\ at = stage
  /\ \/ at' = (IF answer THEN yes ELSE no) /\ Succeeds
     \/ at' = no /\ QueryFails

\* Only why, offs and pcount_num are set between here and the loops over the devices.
QuietAsk == UNCHANGED <<world, devices, todo, room, harddevice_list, i, command, airckz,
                        aircmode, status, sent, steady, refused, changes>>
QuietFlags == UNCHANGED <<why, offs, pcount_num>> /\ QuietAsk
QuietWhy == UNCHANGED <<offs, pcount_num>> /\ QuietAsk

\* get_temporary_timetable_isused(), get_normal_timetable_isused().
TemporaryIsused == Ask("temporary", table[room]["temporary"].used,
                       "temporary_study", "normal") /\ QuietFlags
NormalIsused == Ask("normal", table[room]["normal"].used,
                    "normal_study", "devices") /\ QuietFlags

\* get_temporary_timetable_self_study_info(), get_normal_timetable_self_study_info().
SelfStudy(k, stage, no) ==
  /\ Ask(stage, table[room][k].now = "self_study", "count", no)
  /\ why' = IF at' = "count" THEN "study" ELSE why
  /\ QuietWhy

\* Faulty variant: a query that fails counts as one without rows.
NoLessonIfUnknown(k, stage) ==
  /\ at = stage /\ at' = "devices"
  /\ \/ why' = (IF table[room][k].now = "free" THEN "free" ELSE why) /\ Succeeds
     \/ QueryFails /\ why' = "free"
  /\ QuietWhy

\* get_temporary_timetable_info(), get_timetable_info(): no lesson now.
NoLesson(k, stage) ==
  /\ at = stage /\ at' = "devices"
  /\ \/ why' = (IF table[room][k].now = "free" THEN "free" ELSE why) /\ Succeeds
     \/ QueryFails /\ UNCHANGED why
  /\ QuietWhy

TemporarySelfStudy == SelfStudy("temporary", "temporary_study", "temporary_lesson")
NormalSelfStudy == SelfStudy("normal", "normal_study", "normal_lesson")
TemporaryLesson == NoLesson("temporary", "temporary_lesson")
NormalLesson == NoLesson("normal", "normal_lesson")

------------------------------------------------------------------------------
(* Commands                                                                 *)

\* The effect of a command that arrives.
IrArrives(d) == on' = [on EXCEPT ![d] = @ /\ airckz # d] /\ UNCHANGED led

\* relay_off() of a routed switch also lights the LED.
RelayOffArrives(d) ==
  on' = [on EXCEPT ![d] = FALSE] /\ led' = [led EXCEPT ![d] = d \in Routed]

SwitchOffArrives(d) == on' = [on EXCEPT ![d] = FALSE] /\ led' = [led EXCEPT ![d] = FALSE]

\* The zero that permission_led_clear() has in the status bits may or may not switch
\* the light off.
LedClearArrives(d) ==
  /\ \E x \in {on[d], FALSE} : on' = [on EXCEPT ![d] = x]
  /\ led' = [led EXCEPT ![d] = FALSE]

Send(d, what) == sent' = sent \cup {[to |-> d, what |-> what, code |-> airckz]}
NotSent == UNCHANGED <<on, led, sent>>
Lost == Fault /\ UNCHANGED <<on, led>>

\* op_air_obj(): the code is parsed, and the result is that of the write.
AirObj(d, fine, error) ==
  /\ command = "ir"
  /\ \/ /\ airckz # None /\ Send(d, "ir") /\ at' = fine
        /\ (IrArrives(d) /\ UNCHANGED faults) \/ Lost
     \/ airckz = None /\ at' = error /\ NotSent /\ UNCHANGED faults
     \/ Fault /\ at' = error /\ NotSent

\* op_relay_obj() and op_touch_switch_obj(): relay_off() reports no lost telegram.
RelayObj(d, fine, error) ==
  /\ command = "relay_off"
  /\ \/ /\ Send(d, "relay_off") /\ at' = fine
        /\ (RelayOffArrives(d) /\ UNCHANGED faults) \/ Lost
     \/ Fault /\ at' = error /\ NotSent

\* op_touch_switch_permission_led_obj(): exists for routed switches only.
PermissionLedObj(d, fine, error) ==
  /\ command = "led_clear"
  /\ \/ /\ d \in Routed /\ Send(d, "led_clear") /\ at' = fine
        /\ (LedClearArrives(d) /\ UNCHANGED faults) \/ Lost
     \/ d \notin Routed /\ at' = error /\ NotSent /\ UNCHANGED faults
     \/ Fault /\ at' = error /\ NotSent

\* op_swtich_obj(): a device the thread does not know is passed over.
SwitchObj(d) ==
  /\ UNCHANGED at
  /\ \/ /\ d \in Known /\ Send(d, "switch_off")
        /\ (SwitchOffArrives(d) /\ UNCHANGED faults) \/ Lost
     \/ d \in Known /\ Fault /\ NotSent
     \/ d \notin Known /\ NotSent /\ UNCHANGED faults

Command(d, fine, error) ==
  AirObj(d, fine, error) \/ RelayObj(d, fine, error) \/ PermissionLedObj(d, fine, error)

------------------------------------------------------------------------------
(* op_hddevice_list() and op_hddevice_list_jnkz_shutdown()                  *)

\* Faulty variant: the branch of the relays is missing.
OpHddeviceListNoRelay(d) ==
  \/ why = "free" /\ Hdtype[d] \in {air, switch}
  \/ why = "lesson" /\ Hdtype[d] = switch

\* Which devices the two loops ask the database about.
OpHddeviceList(d) ==
  \/ why = "free" /\ Hdtype[d] \in {air, relay, switch}
  \/ why = "lesson" /\ Hdtype[d] = switch

JnkzShutdown(d) ==
  /\ why = "study"
  /\ Hdtype[d] = air \/ (Hdtype[d] = switch /\ OfType(room, counter) = {})

Concerned(d) == OpHddeviceList(d) \/ JnkzShutdown(d)

\* Faulty variant: the code is read for the first conditioner of a room only.
LookAirOnce(d) ==
  /\ Hdtype[d] = air
  /\ airckz' = IF d \in coded /\ airckz = None THEN d ELSE airckz
  /\ aircmode' = IF d \in coded THEN (IF row[d] THEN 0 ELSE 1) ELSE aircmode
  /\ UNCHANGED status

\* get_aircpara_info(): without a row the fields keep what they have.
LookAir(d) ==
  /\ Hdtype[d] = air
  /\ airckz' = IF d \in coded THEN d ELSE airckz
  /\ aircmode' = IF d \in coded THEN (IF row[d] THEN 0 ELSE 1) ELSE aircmode
  /\ UNCHANGED status

\* get_relay_info() asks for the relays of the room and keeps the last row.
LookRelay(d) ==
  LET rows == SelectSeq(DevicesOf[room], LAMBDA x : Hdtype[x] = relay)
  IN  /\ Hdtype[d] = relay /\ relay_status' = row[rows[Len(rows)]]
      /\ UNCHANGED <<airckz, aircmode, switch_status, manual_permission>>

\* get_touch_switch_info().
LookSwitch(d) ==
  /\ Hdtype[d] = switch /\ switch_status' = row[d] /\ manual_permission' = ledRow[d]
  /\ UNCHANGED <<airckz, aircmode, relay_status>>

\* A refused query returns 0 like one without rows: the fields keep what another device,
\* or nobody, left in them.
QueryRefused(d) ==
  QueryFails /\ refused' = refused \cup {d} /\ UNCHANGED <<airckz, aircmode, status>>

\* Faulty variant: the LED is cleared only if the light is on.
ChooseIfOn(d) ==
  CASE Hdtype[d] = air /\ aircmode = 0                                    -> "ir"
    [] Hdtype[d] = relay /\ relay_status                                  -> "relay_off"
    [] Hdtype[d] = switch /\ why = "lesson" /\ manual_permission /\ switch_status
                                                                          -> "led_clear"
    [] Hdtype[d] = switch /\ why # "lesson" /\ switch_status              -> "relay_off"
    [] OTHER                                                              -> "none"

\* What the fields say is to be sent to a device.
Choose(d) ==
  CASE Hdtype[d] = air /\ aircmode = 0                                    -> "ir"
    [] Hdtype[d] = relay /\ relay_status                                  -> "relay_off"
    [] Hdtype[d] = switch /\ why = "lesson" /\ manual_permission          -> "led_clear"
    [] Hdtype[d] = switch /\ why # "lesson" /\ switch_status              -> "relay_off"
    [] OTHER                                                              -> "none"

\* One pass of the loop up to the command; rows that break off end the loop.
Look ==
  /\ at = "devices" /\ i <= Len(harddevice_list) /\ Concerned(harddevice_list[i])
  /\ UNCHANGED <<world, devices, todo, room, why, harddevice_list, i, offs, pcount_num,
                 sent, steady, changes>>
  /\ LET d == harddevice_list[i]
     IN  \/ /\ \/ LookAir(d) /\ Succeeds /\ UNCHANGED refused
               \/ LookRelay(d) /\ Succeeds /\ UNCHANGED refused
               \/ LookSwitch(d) /\ Succeeds /\ UNCHANGED refused
               \/ QueryRefused(d)
            /\ at' = "command" /\ command' = Choose(d)'
         \/ /\ QueryFails /\ at' = "rooms"
            /\ UNCHANGED <<airckz, aircmode, status, refused, command>>

Skip ==
  /\ at = "devices"
  /\ \/ /\ i <= Len(harddevice_list) /\ ~Concerned(harddevice_list[i])
        /\ i' = i + 1 /\ UNCHANGED at
     \/ i > Len(harddevice_list) /\ at' = "rooms" /\ UNCHANGED i
  /\ UNCHANGED <<world, devices, todo, room, why, harddevice_list, command, airckz, aircmode,
                 status, offs, pcount_num, history, changes, faults>>

\* Only the loop of energy saving stops at a command that fails.
Operate ==
  /\ at = "command" /\ i' = i + 1
  /\ \/ command = "none" /\ at' = "devices" /\ UNCHANGED <<on, led, sent, faults>>
     \/ Command(harddevice_list[i], "devices", IF why = "study" THEN "rooms" ELSE "devices")
  /\ UNCHANGED <<world, row, ledRow, todo, room, why, harddevice_list, command, airckz,
                 aircmode, status, offs, pcount_num, steady, failed, refused, changes>>

------------------------------------------------------------------------------
(* Self-study: handle_pcount_op(), then handle_jnkz_op()                    *)

\* get_pcount_num(): if rows break off the number stays zero; without the answer about the
\* counters or the correction of the room it is made of what is left, uninitialised even.
CountPeople ==
  /\ at = "count" /\ at' = "rules"
  /\ \/ pcount_num' = people[room] /\ Succeeds
     \/ pcount_num' \in Counts \cup {0, people[room]} /\ QueryFails
  /\ UNCHANGED <<why, offs>> /\ QuietAsk

\* Faulty variant: the limit is compared the wrong way round.
SelectRulesAbove ==
  LET fulfilled == {x \in Rules[room] : x.limit <= pcount_num}
  IN  /\ at = "rules" /\ at' = "switch"
      /\ \/ offs' = fulfilled /\ Succeeds
         \/ QueryFails /\ offs' \in SUBSET fulfilled
      /\ UNCHANGED <<why, pcount_num>> /\ QuietAsk

\* get_hid_list_by_pcount(): the rules the number fulfils, or some of them.
SelectRules ==
  LET fulfilled == {x \in Rules[room] : x.limit >= pcount_num}
  IN  /\ at = "rules" /\ at' = "switch"
      /\ \/ offs' = fulfilled /\ Succeeds
         \/ QueryFails /\ offs' \in SUBSET fulfilled
      /\ UNCHANGED <<why, pcount_num>> /\ QuietAsk

\* pcount_obj_op().
SwitchOff ==
  /\ at = "switch"
  /\ \/ \E x \in offs : offs' = offs \ {x} /\ SwitchObj(x.device)
     \/ offs = {} /\ at' = "sense" /\ UNCHANGED <<on, led, sent, offs, faults>>
  /\ UNCHANGED <<world, row, ledRow, todo, room, why, harddevice_list, i, command, airckz,
                 aircmode, status, pcount_num, steady, failed, refused, changes>>

Somebody(r) == \E d \in OfType(r, air) : hd_humtime[d] = "recent"

\* is_someone_detect(): the most recent motion counts.  If rows break off some_flag stays
\* false; without a row, as when the query is refused, the minimum of nothing is read.
Sense ==
  /\ at = "sense"
  /\ \/ OfType(room, air) # {} /\ at' = (IF Somebody(room) THEN "rooms" ELSE "devices")
        /\ Succeeds
     \/ OfType(room, air) = {} /\ at' = "crashed" /\ Succeeds
     \/ at' \in {"devices", "crashed"} /\ QueryFails
  /\ QuietFlags

Thread == \/ Round \/ RoundEnds \/ Visit \/ UpdateAirc
          \/ TemporaryIsused \/ TemporarySelfStudy \/ TemporaryLesson
          \/ NormalIsused \/ NormalSelfStudy \/ NormalLesson
          \/ Look \/ Skip \/ Operate
          \/ CountPeople \/ SelectRules \/ SwitchOff \/ Sense

Next == Thread \/ Change \/ \E d \in Hddevices : Toggle(d) \/ Poll(d)

Spec == Init /\ [][Next]_vars

\* The thread runs and pollers poll.
Fairness == WF_vars(Thread) /\ \A d \in Hddevices : WF_vars(Poll(d))

FairSpec == Spec /\ Fairness

------------------------------------------------------------------------------
(* Properties                                                               *)

\* The commands a step sends that switch something off.
Offs == {o \in sent' \ sent : o.what # "led_clear"}

\* Nothing is switched off but in a room that is free by the timetable in force, or in
\* self-study when nobody is sensed or too few are counted, as long as the database
\* answers and nothing changes during the visit.
Justified(o) ==
  \/ InForce(room) = "free" /\ o.what # "switch_off"
  \/ InForce(room) = "self_study" /\ o.what # "switch_off" /\ ~Somebody(room)
  \/ /\ InForce(room) = "self_study" /\ o.what = "switch_off"
     /\ \E x \in Rules[room] : x.device = o.to /\ x.limit >= people[room]

OffsJustified == [][steady /\ ~failed => \A o \in Offs : Justified(o)]_vars

\* Whatever queries fail: a room is not touched while every timetable in use has a lesson.
LessonNeverShut ==
  [][steady /\ Offs # {} =>
       \E k \in Kinds : table[room][k].used /\ table[room][k].now # "lesson"]_vars

\* A conditioner that has a code, and whose own query was not refused, is sent this code,
\* whatever else failed or changed.  One that has none, or whose query was refused, may be
\* sent another one's, but only that of a conditioner ahead of it in the same visit.
CodeRead(o) ==
  /\ o.to \in coded \ refused => o.code = o.to
  /\ o.code \in coded \cap {harddevice_list[k] : k \in 1..i}

OwnCode == [][\A o \in Offs : o.what = "ir" => CodeRead(o)]_vars

\* "No lesson: switch off light and air conditioning": in a room that stays free, and
\* whose devices the thread knows, everything ends up off but conditioners without code.
EmptyRoomDarkens ==
  \A r \in Rooms :
    InRoom(r) \subseteq Known /\ <>[](r \in inuse /\ InForce(r) = "free") =>
      \A d \in InRoom(r)  \cap Shuttable :
        (d \in Sensors => d \in coded) => <>[]~on[d]

\* In a room that stays in use the LED "forbidden" of no routed switch stays lit.
LedCleared ==
  \A r \in Rooms :
    InRoom(r) \subseteq Known /\ <>[](r \in inuse /\ InForce(r) = "lesson") =>
      \A d \in InRoom(r) \cap Routed : <>[]~led[d]

\* A room whose use no longer changes settles: dark if it is free, without "forbidden" on
\* its switches if it has a lesson, though an order is sent once a round and may be lost.
RoomsSettle == EmptyRoomDarkens /\ LedCleared
==============================================================================
