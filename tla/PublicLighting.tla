----------------------------- MODULE PublicLighting -----------------------------
(***************************************************************************)
(* The rounds of air control over the public lighting of one room: context  *)
(* models with daily periods, weekdays and light thresholds, and the        *)
(* commands to the lamps behind the meters of the room.  Time, daylight and *)
(* the rows of the database change between any two queries.  A day has      *)
(* Hours * Minutes slots of time.                                           *)
(***************************************************************************)
EXTENDS Integers, Sequences

CONSTANTS
  Hours, Minutes, Weekdays, \* a week has Weekdays days
  Models,       \* rows of contextmodel in use today, with those of contextmodeldetail
  Lamps,        \* rows of harddevice: hdtype "1000" or "1001" of each index
  Daylights,    \* what daylight the sensor may see
  Glow,         \* what a lamp adds to that
  MaxTime,      \* bound: the last slot
  MaxEvents     \* bound: changes of daylight and lamps, failing queries and commands

Slots == Hours * Minutes
Ctrltypes == {"on", "off", "auto"}
Rows == [bgtime : 0 .. Slots - 1, edtime : 0 .. Slots - 1, ctrltype : Ctrltypes,
         light_on : Int, light_off : Int]

ASSUME LightingAssumption ==
  /\ Hours \in Nat \ {0} /\ Minutes \in Nat \ {0} /\ Weekdays \in Nat \ {0}
  /\ Models \in Seq([weekcycle : SUBSET (0 .. Weekdays - 1), details : Seq(Rows)])
  /\ Lamps \in Seq({"1000", "1001"})
  /\ Daylights \subseteq Nat /\ Daylights # {} /\ Glow \in Nat
  /\ MaxTime \in Nat /\ MaxEvents \in Nat

VARIABLES
  now, daylight, lit,   \* the world: clock, daylight, which lamps are on
  hdmodeRow, hd_lightRow, \* rows of harddevice: 0 while a lamp is on; light
  known,                \* whether the thread fetched all devices of the room at its start
  at,                   \* where the thread is
  contextmodel_vec,     \* indices of the models read
  contextmodeldetail_res_vec,
  week, light_on, light_off, hd_light, hdmode, op_name, \* fields of roominfo
  i, send,              \* index of a loop, and the command for a lamp
  since, failed,        \* history: start of the round, a failing query in it
  switched,             \* history: commands that changed a lamp, since the world did
  changes, faults

world == <<now, daylight, lit, known>>
rows == <<hdmodeRow, hd_lightRow>>
room == <<contextmodel_vec, contextmodeldetail_res_vec, week, light_on, light_off, hd_light,
          hdmode, op_name>>
loop == <<at, i, send, since, failed>>
vars == <<world, rows, room, loop, switched, changes, faults>>

Day(t) == t \div Slots
Slot(t) == t % Slots
Measured == daylight + IF \E d \in DOMAIN Lamps : lit[d] THEN Glow ELSE 0
Mode(on) == IF on THEN 0 ELSE 1

Init ==
  /\ now = 0 /\ daylight \in Daylights /\ lit \in [DOMAIN Lamps -> BOOLEAN]
  /\ hdmodeRow = [d \in DOMAIN Lamps |-> Mode(lit[d])] /\ hd_lightRow = Measured
  /\ known \in BOOLEAN
  /\ at = "round" /\ contextmodel_vec = <<>> /\ contextmodeldetail_res_vec = <<>>
  /\ week = 0 /\ light_on = 0 /\ light_off = 0 /\ hd_light = 0 /\ hdmode = 0
  /\ op_name = "none" /\ i = 1 /\ send = "none"
  /\ since = 0 /\ failed = FALSE
  /\ switched = [d \in DOMAIN Lamps |-> 0] /\ changes = 0 /\ faults = 0

------------------------------------------------------------------------------
(* The world                                                                *)

\* From here on a lamp may be switched once for what has changed.
Unsettled == switched' = [d \in DOMAIN Lamps |-> 0]

Tick ==
  /\ now < MaxTime /\ now' = now + 1 /\ Unsettled
  /\ UNCHANGED <<daylight, lit, known, rows, room, loop, changes, faults>>

Change ==
  /\ changes + faults < MaxEvents /\ changes' = changes + 1 /\ Unsettled
  /\ \/ daylight' \in Daylights \ {daylight} /\ UNCHANGED lit
     \/ \E d \in DOMAIN Lamps : lit' = [lit EXCEPT ![d] = ~@] /\ UNCHANGED daylight
  /\ UNCHANGED <<now, known, rows, room, loop, faults>>

\* A poller stores what meter d, or the sensor, reports.
PollMeter(d) ==
  /\ hdmodeRow' = [hdmodeRow EXCEPT ![d] = Mode(lit[d])]
  /\ UNCHANGED <<world, hd_lightRow, room, loop, switched, changes, faults>>

PollSensor ==
  /\ hd_lightRow' = Measured
  /\ UNCHANGED <<world, hdmodeRow, room, loop, switched, changes, faults>>

------------------------------------------------------------------------------
(* A round                                                                  *)

Fault == changes + faults < MaxEvents /\ faults' = faults + 1
QueryFails == Fault /\ failed' = TRUE
Succeeds == UNCHANGED <<failed, faults>>
Quiet == UNCHANGED <<world, rows, switched, changes>>

\* get_roominfo_from_mysql() makes a new roominfo; get_hdid_info() leaves out a room
\* with a device that the thread does not know.
Round ==
  /\ at = "round"
  /\ contextmodel_vec' = <<>> /\ contextmodeldetail_res_vec' = <<>> /\ week' = 0
  /\ light_on' = 0 /\ light_off' = 0 /\ hd_light' = 0 /\ hdmode' = 0 /\ op_name' = "none"
  /\ since' = now /\ i' = 1 /\ send' = "none"
  /\ \/ at' = (IF known THEN "sensor" ELSE "round") /\ failed' = FALSE /\ UNCHANGED faults
     \/ QueryFails /\ UNCHANGED at
  /\ Quiet

\* get_hdid_op(): the light of the sensor; if the query fails it stays zero.
Sensor ==
  /\ at = "sensor" /\ at' = "models"
  /\ \/ hd_light' = hd_lightRow /\ Succeeds
     \/ QueryFails /\ UNCHANGED hd_light
  /\ UNCHANGED <<contextmodel_vec, contextmodeldetail_res_vec, week, light_on, light_off,
                 hdmode, op_name, i, send, since>> /\ Quiet

\* get_weekcycle_info(), and the weekday that check_week() takes.
WeekcycleInfo ==
  /\ at = "models" /\ at' = "details" /\ i' = 1
  /\ \/ contextmodel_vec' = [k \in DOMAIN Models |-> k] /\ Succeeds
     \/ QueryFails /\ UNCHANGED contextmodel_vec
  /\ week' = Day(now) % Weekdays
  /\ UNCHANGED <<contextmodeldetail_res_vec, light_on, light_off, hd_light, hdmode, op_name,
                 send, since>> /\ Quiet

\* The day the clock shows; it may have changed between two readings of the clock.
Today == {Day(t) : t \in {u \in since .. now : u + 1 >= now}}

\* Faulty variant: a period that goes on after midnight ends on the day it began.
PeriodEndsToday(r, today) ==
  [bgtime |-> today * Slots + r.bgtime, edtime |-> today * Slots + r.edtime,
   ctrltype |-> r.ctrltype]

\* One row of contextmodeldetail, moved to the day before or after if it crosses midnight.
Period(r, today) ==
  LET bg      == today * Slots + r.bgtime
      ed      == today * Slots + r.edtime
      crosses == r.bgtime \div Minutes > r.edtime \div Minutes
  IN  [bgtime |-> IF crosses /\ now <= bg /\ now < ed THEN bg - Slots ELSE bg,
       edtime |-> IF crosses /\ now > bg THEN ed + Slots ELSE ed,
       ctrltype |-> r.ctrltype]

\* Faulty variant: every model counts, whatever its weekdays.
EnabledAlways(k) == k \in DOMAIN Models

\* check_week_enabled().
Enabled(k) == week \in Models[k].weekcycle

\* get_contextmodeldetail_info(): the periods of a model; of its thresholds those of the
\* last row stay.
DetailInfo(k) ==
  LET details == Models[k].details
  IN  /\ \E today \in [DOMAIN details -> Today] :
           contextmodeldetail_res_vec' =
             contextmodeldetail_res_vec \o [n \in DOMAIN details |-> Period(details[n], today[n])]
      /\ IF details = <<>> THEN UNCHANGED <<light_on, light_off>>
         ELSE /\ light_on' = details[Len(details)].light_on
              /\ light_off' = details[Len(details)].light_off

\* check_week(): a model whose rows cannot be read is skipped.
CheckWeek ==
  /\ at = "details"
  /\ IF i > Len(contextmodel_vec)
       THEN /\ at' = "time" /\ i' = 1
            /\ UNCHANGED <<contextmodeldetail_res_vec, light_on, light_off>> /\ Succeeds
       ELSE /\ UNCHANGED at /\ i' = i + 1
            /\ \/ Enabled(contextmodel_vec[i]) /\ DetailInfo(contextmodel_vec[i]) /\ Succeeds
               \/ /\ Enabled(contextmodel_vec[i]) /\ QueryFails
                  /\ UNCHANGED <<contextmodeldetail_res_vec, light_on, light_off>>
               \/ /\ ~Enabled(contextmodel_vec[i]) /\ Succeeds
                  /\ UNCHANGED <<contextmodeldetail_res_vec, light_on, light_off>>
  /\ UNCHANGED <<contextmodel_vec, week, hd_light, hdmode, op_name, send, since>> /\ Quiet

\* check_time(): the last period that contains the time decides.
CheckTime ==
  /\ at = "time"
  /\ IF i > Len(contextmodeldetail_res_vec)
       THEN at' = (IF op_name = "none" THEN "round" ELSE "lamps") /\ i' = 1 /\ UNCHANGED op_name
       ELSE LET p == contextmodeldetail_res_vec[i]
            IN  /\ op_name' = IF p.bgtime <= now /\ now < p.edtime THEN p.ctrltype ELSE op_name
                /\ i' = i + 1 /\ UNCHANGED at
  /\ UNCHANGED <<contextmodel_vec, contextmodeldetail_res_vec, week, light_on, light_off,
                 hd_light, hdmode, send, since>> /\ Succeeds /\ Quiet

------------------------------------------------------------------------------
(* op_hddevice_list()                                                       *)

\* Faulty variant: one threshold serves for both directions.
OrderOneThreshold(type, mode) ==
  CASE mode = 1 /\ (op_name = "on" \/ (op_name = "auto" /\ hd_light < light_on))   -> "on"
    [] mode = 0 /\ (op_name = "off" \/ (op_name = "auto" /\ hd_light >= light_on)) -> "off"
    [] OTHER -> "none"

\* Faulty variant: hdmode is taken the other way round.
OrderSwapped(type, mode) ==
  CASE mode = 0 /\ op_name = "on"  -> "on"
    [] mode = 1 /\ op_name = "off" -> "off"
    [] OTHER -> "none"

\* What a lamp with hdmode is told: hdmode 1 says that it is off.
Order(type, mode) ==
  CASE mode = 1 /\ (op_name = "on" \/ /\ op_name = "auto" /\ type = "1000"
                                      /\ hd_light < light_on)  -> "on"
    [] mode = 0 /\ (op_name = "off" \/ /\ op_name = "auto" /\ type = "1000"
                                       /\ hd_light > light_off) -> "off"
    [] OTHER -> "none"

\* single_phase_meter_op(), three_phase_meter_hardtype_op(): if the query fails hdmode
\* stays that of the lamp before.
Look ==
  /\ at = "lamps" /\ i <= Len(Lamps)
  /\ \/ hdmode' = hdmodeRow[i] /\ Succeeds
     \/ QueryFails /\ UNCHANGED hdmode
  /\ send' = Order(Lamps[i], hdmode') /\ at' = "operate"
  /\ UNCHANGED <<contextmodel_vec, contextmodeldetail_res_vec, week, light_on, light_off,
                 hd_light, op_name, i, since>> /\ Quiet

\* op_relay_obj(): a command may fail or be lost; nobody looks at the result.
Operate ==
  /\ at = "operate" /\ at' = "lamps" /\ i' = i + 1
  /\ \/ send = "none" /\ UNCHANGED <<lit, switched, faults>>
     \/ send # "none" /\ Fault /\ UNCHANGED <<lit, switched>>
     \/ /\ send # "none" /\ UNCHANGED faults
        /\ lit' = [lit EXCEPT ![i] = (send = "on")]
        /\ switched' = [switched EXCEPT ![i] = IF lit'[i] = lit[i] THEN @ ELSE @ + 1]
  /\ UNCHANGED <<now, daylight, known, rows, room, send, since, failed, changes>>

RoundEnds ==
  /\ at = "lamps" /\ i > Len(Lamps) /\ at' = "round"
  /\ UNCHANGED <<room, i, send, since, failed, faults>> /\ Quiet

Thread == \/ Round \/ Sensor \/ WeekcycleInfo \/ CheckWeek \/ CheckTime
          \/ Look \/ Operate \/ RoundEnds

Next == Thread \/ Tick \/ Change \/ PollSensor \/ \E d \in DOMAIN Lamps : PollMeter(d)

Spec == Init /\ [][Next]_vars

\* The thread runs, pollers poll, time passes.
Fairness == /\ WF_vars(Thread) /\ WF_vars(Tick) /\ WF_vars(PollSensor)
            /\ \A d \in DOMAIN Lamps : WF_vars(PollMeter(d))

FairSpec == Spec /\ Fairness

------------------------------------------------------------------------------
(* Properties                                                               *)

\* A daily period, which may go on after midnight, contains a time.
Contains(r, t) == LET s == Slot(t)
                  IN  IF r.bgtime <= r.edtime THEN r.bgtime <= s /\ s < r.edtime
                                              ELSE r.bgtime <= s \/ s < r.edtime

InForce(t) == {p \in UNION {{<<k, n>> : n \in DOMAIN Models[k].details} :
                              k \in DOMAIN Models} :
                 /\ Day(t) % Weekdays \in Models[p[1]].weekcycle
                 /\ Contains(Models[p[1]].details[p[2]], t)}

\* The moments of a round so far.
DuringRound == since .. now

\* A lamp is only commanded as a period says that is in force, on an enabled weekday, at
\* some moment of this round; and automatically only by the thresholds of some row.
DecidedInForce ==
  [][op_name' # op_name /\ op_name' # "none" =>
       \E k \in DOMAIN Models : \E n \in DOMAIN Models[k].details :
         /\ Models[k].details[n].ctrltype = op_name'
         /\ Contains(Models[k].details[n], now)
         /\ \E t \in DuringRound : Day(t) % Weekdays \in Models[k].weekcycle]_vars

\* Two cases in which a period is not recognised: it begins and ends in the same hour but
\* on different days, or it crosses midnight and begins at this very moment.
Recognised(r, t) ==
  \/ r.bgtime <= r.edtime
  \/ r.bgtime \div Minutes > r.edtime \div Minutes /\ r.bgtime # Slot(t)

Later(a, b) == a[1] > b[1] \/ (a[1] = b[1] /\ a[2] > b[2])

\* If no query fails and the clock does not advance, the last of the periods in force
\* decides, and none is overlooked.
LastInForceDecides ==
  [][at = "time" /\ at' # "time" /\ now = since /\ ~failed =>
       LET valid == {p \in InForce(now) : Recognised(Models[p[1]].details[p[2]], now)}
       IN  IF valid = {} THEN op_name = "none"
           ELSE \E p \in valid : /\ \A q \in valid : p = q \/ Later(p, q)
                                 /\ op_name = Models[p[1]].details[p[2]].ctrltype]_vars

\* The thresholds of all rows agree, and leave room for the lamps' own light.
Hysteresis ==
  /\ \A k \in DOMAIN Models : \A n \in DOMAIN Models[k].details :
       /\ Models[k].details[n].light_on + Glow <= Models[k].details[n].light_off
       /\ Models[k].details[n].light_on = Models[1].details[1].light_on
       /\ Models[k].details[n].light_off = Models[1].details[1].light_off

\* Public lighting does not flicker: while time, daylight and people leave it alone, a
\* lamp is switched three times at most (by a command decided before, by an outdated
\* row, then rightly), and twice more for each failing query.
NoFlicker == Hysteresis => \A d \in DOMAIN Lamps : switched[d] <= 3 + 2 * faults

\* A lamp ends up as the period says in which the clock stays, if the thread knows the
\* devices of the room.
LampsFollow ==
  LET valid == InForce(MaxTime)
      last  == CHOOSE p \in valid : \A q \in valid : p = q \/ Later(p, q)
  IN  valid # {} /\ Recognised(Models[last[1]].details[last[2]], MaxTime) =>
        LET op == Models[last[1]].details[last[2]].ctrltype
        IN  /\ op = "on" => \A d \in DOMAIN Lamps : <>[](known => lit[d])
            /\ op = "off" => \A d \in DOMAIN Lamps : <>[](known => ~lit[d])

\* What a round orders is what the timetable says: no period that is over, and the last
\* one of those that overlap.
DecidedByPeriods == DecidedInForce /\ LastInForceDecides
==============================================================================
