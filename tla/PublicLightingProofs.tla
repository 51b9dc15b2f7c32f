------------------------- MODULE PublicLightingProofs -------------------------
(* Theorems about PublicLighting for days and weeks of any length, any       *)
(* context models and lamps, and any number of events.                       *)
EXTENDS PublicLighting, SequenceTheorems, TLAPS

------------------------------------------------------------------------------
(* Days and slots                                                            *)

LEMMA SlotsPositive == Slots \in Nat \ {0}
<1>1. \A m, n \in Nat \ {0} : m * n \in Nat \ {0}
  OBVIOUS
<1>2. QED
  BY <1>1, LightingAssumption DEF Slots

\* Multiples of a day are a day or more apart.
LEMMA Apart ==
  ASSUME NEW S \in Nat \ {0}, NEW a \in Int, NEW b \in Int, a < b
  PROVE  a * S + S <= b * S
<1>1. \A c \in Nat : c * S >= 0
  OBVIOUS
<1>2. (b - a - 1) * S >= 0
  BY <1>1
<1>3. (b - a - 1) * S = b * S - a * S - S
  OBVIOUS
<1>4. QED
  BY <1>2, <1>3

\* The division of the clock into days and slots.
LEMMA DayAndSlot ==
  ASSUME NEW t \in Int
  PROVE  /\ Day(t) \in Int /\ Slot(t) \in 0 .. Slots - 1
         /\ Day(t) * Slots + Slot(t) = t
  BY SlotsPositive DEF Day, Slot

\* ... and there is only one.
LEMMA SlotOf ==
  ASSUME NEW t \in Int, NEW d \in Int, NEW s \in 0 .. Slots - 1, t = d * Slots + s
  PROVE  Day(t) = d /\ Slot(t) = s
<1>1. /\ Day(t) \in Int /\ Slot(t) \in 0 .. Slots - 1
      /\ Day(t) * Slots + Slot(t) = d * Slots + s
  BY DayAndSlot
<1> DEFINE S == Slots
<1>0. S \in Nat \ {0} /\ Day(t) * S \in Int /\ d * S \in Int
  BY <1>1, SlotsPositive
<1> HIDE DEF S
<1>2. ASSUME Day(t) < d PROVE FALSE
  <2>1. Day(t) * S + S <= d * S
    BY <1>0, <1>1, <1>2, Apart
  <2>2. QED
    BY <1>0, <1>1, <2>1 DEF S
<1>3. ASSUME d < Day(t) PROVE FALSE
  <2>1. d * S + S <= Day(t) * S
    BY <1>0, <1>1, <1>3, Apart
  <2>2. QED
    BY <1>0, <1>1, <2>1 DEF S
<1>4. Day(t) = d
  BY <1>1, <1>2, <1>3
<1>5. QED
  BY <1>1, <1>4, SlotsPositive

LEMMA LaterHour ==
  ASSUME NEW a \in Nat, NEW b \in Nat, a \div Minutes > b \div Minutes
  PROVE  a > b
<1> DEFINE p == a \div Minutes
           q == b \div Minutes
<1>1. Minutes \in Nat \ {0}
  BY LightingAssumption
<1>2. /\ p \in Int /\ p * Minutes <= a
      /\ q \in Int /\ b < q * Minutes + Minutes
  BY <1>1
<1> HIDE DEF p, q
<1>3. q * Minutes + Minutes <= p * Minutes
  BY <1>1, <1>2, Apart DEF p, q
<1>4. p * Minutes \in Int /\ q * Minutes \in Int
  BY <1>1, <1>2
<1>5. QED
  BY <1>1, <1>2, <1>3, <1>4

------------------------------------------------------------------------------
(* Periods                                                                   *)

\* A period with dates contains a time.
Holds(p, t) == p.bgtime <= t /\ t < p.edtime

\* Whenever a row is turned into a period with dates, and whichever day is taken for
\* today: the period contains no time that the daily period does not contain.
LEMMA PeriodContains ==
  ASSUME now \in Nat, NEW r \in Rows, NEW today \in Int, NEW t \in Nat,
         Holds(Period(r, today), t)
  PROVE  Contains(r, t)
<1> DEFINE base == today * Slots
           p == Period(r, today)
<1>1. /\ base \in Int /\ Slots \in Nat \ {0}
      /\ r.bgtime \in 0 .. Slots - 1 /\ r.edtime \in 0 .. Slots - 1
  BY SlotsPositive DEF Rows
<1>2. p.bgtime <= t /\ t < p.edtime
  BY DEF Holds
<1>3. (today - 1) * Slots = base - Slots /\ (today + 1) * Slots = base + Slots
  BY <1>1
<1>4. ASSUME NEW s \in 0 .. Slots - 1
      PROVE  /\ t = base + s => Slot(t) = s
             /\ t = base - Slots + s => Slot(t) = s
             /\ t = base + Slots + s => Slot(t) = s
  <2>1. t \in Int /\ today - 1 \in Int /\ today + 1 \in Int
    OBVIOUS
  <2>2. t = base + s => Slot(t) = s
    BY <2>1, SlotOf
  <2>3. t = (today - 1) * Slots + s => Slot(t) = s
    BY <2>1, SlotOf
  <2>4. t = (today + 1) * Slots + s => Slot(t) = s
    BY <2>1, SlotOf
  <2>5. QED
    BY <1>3, <2>2, <2>3, <2>4
<1>5. CASE p.bgtime = base + r.bgtime /\ p.edtime = base + r.edtime
  <2>1. r.bgtime < r.edtime /\ t - base \in 0 .. Slots - 1
    BY <1>1, <1>2, <1>5
  <2>2. Slot(t) = t - base
    BY <1>1, <1>4, <2>1
  <2>3. QED
    BY <1>1, <1>2, <1>5, <2>1, <2>2 DEF Contains
<1>6. CASE r.bgtime > r.edtime /\ p.bgtime = base - Slots + r.bgtime /\ p.edtime = base + r.edtime
  <2>1. CASE t >= base
    <3>1. t - base \in 0 .. Slots - 1 /\ t - base < r.edtime
      BY <1>1, <1>2, <1>6, <2>1
    <3>2. Slot(t) = t - base
      BY <1>1, <1>4, <3>1
    <3>3. QED
      BY <1>1, <1>6, <3>1, <3>2 DEF Contains
  <2>2. CASE t < base
    <3>1. t - base + Slots \in 0 .. Slots - 1 /\ t - base + Slots >= r.bgtime
      BY <1>1, <1>2, <1>6, <2>2
    <3>2. Slot(t) = t - base + Slots
      BY <1>1, <1>4, <3>1
    <3>3. QED
      BY <1>1, <1>6, <3>1, <3>2 DEF Contains
  <2>3. QED
    BY <1>1, <2>1, <2>2
<1>7. CASE r.bgtime > r.edtime /\ p.bgtime = base + r.bgtime /\ p.edtime = base + r.edtime + Slots
  <2>1. CASE t >= base + Slots
    <3>1. t - base - Slots \in 0 .. Slots - 1 /\ t - base - Slots < r.edtime
      BY <1>1, <1>2, <1>7, <2>1
    <3>2. Slot(t) = t - base - Slots
      BY <1>1, <1>4, <3>1
    <3>3. QED
      BY <1>1, <1>7, <3>1, <3>2 DEF Contains
  <2>2. CASE t < base + Slots
    <3>1. t - base \in 0 .. Slots - 1 /\ t - base >= r.bgtime
      BY <1>1, <1>2, <1>7, <2>2
    <3>2. Slot(t) = t - base
      BY <1>1, <1>4, <3>1
    <3>3. QED
      BY <1>1, <1>7, <3>1, <3>2 DEF Contains
  <2>3. QED
    BY <1>1, <2>1, <2>2
<1>8. r.bgtime \div Minutes > r.edtime \div Minutes => r.bgtime > r.edtime
  BY <1>1, LaterHour
<1>9. QED
  BY <1>1, <1>5, <1>6, <1>7, <1>8 DEF Period

\* A row turned into a period now, on the present day, contains this moment exactly if
\* the daily period does - but for the two cases in which it is not recognised.
LEMMA PeriodNow ==
  ASSUME now \in Nat, NEW r \in Rows
  PROVE  Holds(Period(r, Day(now)), now) <=> Contains(r, now) /\ Recognised(r, now)
<1> DEFINE base == Day(now) * Slots
           s == Slot(now)
           p == Period(r, Day(now))
           crosses == r.bgtime \div Minutes > r.edtime \div Minutes
<1>1. /\ base \in Int /\ s \in 0 .. Slots - 1 /\ Slots \in Nat \ {0} /\ now = base + s
      /\ r.bgtime \in 0 .. Slots - 1 /\ r.edtime \in 0 .. Slots - 1
  <2>1. now \in Int
    OBVIOUS
  <2>2. /\ Day(now) \in Int /\ s \in 0 .. Slots - 1 /\ base + s = now
    BY <2>1, DayAndSlot
  <2>3. QED
    BY <2>2, SlotsPositive DEF Rows
<1>2. crosses => r.bgtime > r.edtime
  BY <1>1, LaterHour
<1>3. /\ p.bgtime = (IF crosses /\ now <= base + r.bgtime /\ now < base + r.edtime
                       THEN base + r.bgtime - Slots ELSE base + r.bgtime)
      /\ p.edtime = (IF crosses /\ now > base + r.bgtime
                       THEN base + r.edtime + Slots ELSE base + r.edtime)
  BY <1>1 DEF Period
<1>4. Recognised(r, now) <=> r.bgtime <= r.edtime \/ (crosses /\ r.bgtime # s)
  BY DEF Recognised
<1>5. Contains(r, now) <=> IF r.bgtime <= r.edtime THEN r.bgtime <= s /\ s < r.edtime
                                                   ELSE r.bgtime <= s \/ s < r.edtime
  BY DEF Contains
<1> HIDE DEF base, s, p, crosses
<1>6. QED
  BY <1>1, <1>2, <1>3, <1>4, <1>5 DEF Holds, p

------------------------------------------------------------------------------
(* What has been read of the timetable                                       *)

Dated == [bgtime : Int, edtime : Int, ctrltype : Ctrltypes]

ClockTypes ==
  /\ now \in Nat /\ since \in Nat /\ since <= now
  /\ i \in Nat \ {0}

ReadTypes ==
  /\ contextmodel_vec \in Seq(DOMAIN Models)
  /\ contextmodeldetail_res_vec \in Seq(Dated)
  /\ op_name \in Ctrltypes \cup {"none"}

TypeInv == ClockTypes /\ ReadTypes

\* A round begins with nothing read and nothing decided.
StageInv ==
  /\ at \in {"sensor", "models"} => contextmodeldetail_res_vec = <<>>
  /\ at \in {"sensor", "models", "details"} => op_name = "none"

\* The dated period p stands for row n of model k, whenever it was read.
StandsFor(p, k, n) ==
  /\ p.ctrltype = Models[k].details[n].ctrltype
  /\ \A t \in Nat : Holds(p, t) => Contains(Models[k].details[n], t)

\* Every period that was read is one of a model enabled on a day of this round.
ReadInv ==
  /\ \A j \in DOMAIN contextmodeldetail_res_vec :
       \E k \in DOMAIN Models : \E n \in DOMAIN Models[k].details :
         StandsFor(contextmodeldetail_res_vec[j], k, n) /\ Enabled(k)
  /\ at \in {"details", "time"} => \E t \in DuringRound : week = Day(t) % Weekdays

AllRows == UNION {{<<k, n>> : n \in DOMAIN Models[k].details} : k \in DOMAIN Models}

\* f tells for each period which row of the enabled models below m it came from: all of
\* them, each once, in their order.
CameFrom(f, m) ==
  /\ \A j \in DOMAIN contextmodeldetail_res_vec :
       /\ f[j][1] < m /\ Enabled(f[j][1])
       /\ contextmodeldetail_res_vec[j] = Period(Models[f[j][1]].details[f[j][2]], Day(now))
  /\ \A j, l \in DOMAIN contextmodeldetail_res_vec : j < l => Later(f[l], f[j])
  /\ \A p \in AllRows : p[1] < m /\ Enabled(p[1]) =>
       \E j \in DOMAIN contextmodeldetail_res_vec : f[j] = p

ReadUpTo(m) ==
  \E f \in [DOMAIN contextmodeldetail_res_vec -> AllRows] : CameFrom(f, m)

\* The last of the first m periods that hold now has decided.
DecidedUpTo(m) ==
  \/ /\ op_name = "none"
     /\ \A j \in DOMAIN contextmodeldetail_res_vec :
          j < m => ~Holds(contextmodeldetail_res_vec[j], now)
  \/ \E j \in DOMAIN contextmodeldetail_res_vec :
       /\ j < m /\ Holds(contextmodeldetail_res_vec[j], now)
       /\ op_name = contextmodeldetail_res_vec[j].ctrltype
       /\ \A l \in DOMAIN contextmodeldetail_res_vec :
            j < l /\ l < m => ~Holds(contextmodeldetail_res_vec[l], now)

\* As long as the clock stands and every query is answered, all rows of the day are read,
\* one model after the other, and then gone through in that order.
OrderInv ==
  now = since /\ ~failed =>
    /\ at \in {"details", "time"} => week = Day(now) % Weekdays
    /\ at = "details" => /\ contextmodel_vec = [k \in DOMAIN Models |-> k]
                         /\ i <= Len(Models) + 1 /\ ReadUpTo(i)
    /\ at = "time" => ReadUpTo(Len(Models) + 1) /\ DecidedUpTo(i)

LightingInv == TypeInv /\ StageInv /\ ReadInv /\ OrderInv

LEMMA LightingInit == Init => LightingInv
<1> SUFFICES ASSUME Init PROVE LightingInv
  OBVIOUS
<1>1. TypeInv
  BY EmptySeq DEF Init, TypeInv, ClockTypes, ReadTypes
<1>2. StageInv /\ ReadInv /\ OrderInv
  BY DEF Init, StageInv, ReadInv, OrderInv
<1>3. QED
  BY <1>1, <1>2 DEF LightingInv

\* The rows of a model.
LEMMA DetailRows ==
  ASSUME NEW k \in DOMAIN Models
  PROVE  /\ Models[k].details \in Seq(Rows)
         /\ DOMAIN Models[k].details = 1 .. Len(Models[k].details)
         /\ Len(Models[k].details) \in Nat
         /\ \A n \in DOMAIN Models[k].details : Models[k].details[n] \in Rows
<1> DEFINE M == [weekcycle : SUBSET (0 .. Weekdays - 1), details : Seq(Rows)]
<1> HIDE DEF M
<1>0. Models \in Seq(M)
  BY LightingAssumption DEF M
<1>1. Models[k] \in M
  BY <1>0, LenProperties, ElementOfSeq
<1>2. Models[k].details \in Seq(Rows)
  BY <1>1 DEF M
<1>3. QED
  BY <1>2, LenProperties, ElementOfSeq

LEMMA RowOf ==
  ASSUME NEW p \in AllRows
  PROVE  /\ p = <<p[1], p[2]>> /\ p[1] \in DOMAIN Models
         /\ p[2] \in DOMAIN Models[p[1]].details
  BY DEF AllRows

LEMMA PeriodDated ==
  ASSUME now \in Nat, NEW r \in Rows, NEW today \in Int
  PROVE  Period(r, today) \in Dated /\ Period(r, today).ctrltype = r.ctrltype
<1>1. /\ today * Slots \in Int /\ Slots \in Int
      /\ r.bgtime \in Int /\ r.edtime \in Int /\ r.ctrltype \in Ctrltypes
  BY SlotsPositive DEF Rows
<1>2. QED
  BY <1>1 DEF Period, Dated

LEMMA Concatenation ==
  ASSUME NEW S, NEW s \in Seq(S), NEW t \in Seq(S)
  PROVE  /\ s \o t \in Seq(S)
         /\ DOMAIN s = 1 .. Len(s) /\ DOMAIN t = 1 .. Len(t)
         /\ DOMAIN (s \o t) = 1 .. (Len(s) + Len(t))
         /\ \A j \in DOMAIN s : (s \o t)[j] = s[j]
         /\ \A j \in DOMAIN (s \o t) : j \notin DOMAIN s =>
              j - Len(s) \in DOMAIN t /\ (s \o t)[j] = t[j - Len(s)]
         /\ \A n \in DOMAIN t : n + Len(s) \in DOMAIN (s \o t) /\ (s \o t)[n + Len(s)] = t[n]
  OBVIOUS

\* What reading the rows of a model appends.
LEMMA DetailRead ==
  ASSUME TypeInv, NEW k \in DOMAIN Models, DetailInfo(k)
  PROVE  \E new \in Seq(Dated) :
           /\ contextmodeldetail_res_vec' = contextmodeldetail_res_vec \o new
           /\ DOMAIN new = DOMAIN Models[k].details
           /\ \A n \in DOMAIN new : \E today \in Int :
                /\ new[n] = Period(Models[k].details[n], today)
                /\ now = since => today = Day(now)
<1> DEFINE details == Models[k].details
<1>1. PICK today \in [DOMAIN details -> Today] :
        contextmodeldetail_res_vec' =
          contextmodeldetail_res_vec \o [n \in DOMAIN details |-> Period(details[n], today[n])]
  BY DEF DetailInfo
<1> DEFINE new == [n \in DOMAIN details |-> Period(details[n], today[n])]
<1>2. Today \subseteq Int /\ (now = since => Today \subseteq {Day(now)})
  <2>1. \A u \in since .. now : u \in Int /\ Day(u) \in Int
    BY DayAndSlot DEF TypeInv, ClockTypes
  <2>2. QED
    BY <2>1 DEF Today, TypeInv, ClockTypes
<1>3. \A n \in DOMAIN details :
        today[n] \in Int /\ (now = since => today[n] = Day(now)) /\ new[n] \in Dated
  <2> SUFFICES ASSUME NEW n \in DOMAIN details
               PROVE  today[n] \in Int /\ (now = since => today[n] = Day(now)) /\ new[n] \in Dated
    OBVIOUS
  <2>1. today[n] \in Int /\ (now = since => today[n] = Day(now))
    BY <1>2
  <2>2. details[n] \in Rows /\ now \in Nat
    BY DetailRows DEF TypeInv, ClockTypes
  <2>3. QED
    BY <2>1, <2>2, PeriodDated
<1>4. DOMAIN details = 1 .. Len(details) /\ Len(details) \in Nat
  BY DetailRows
<1>5. new \in Seq(Dated)
  <2>1. new \in [1 .. Len(details) -> Dated]
    BY <1>3, <1>4
  <2>2. QED
    BY <1>4, <2>1
<1>6. \A n \in DOMAIN new : \E d \in Int :
        new[n] = Period(details[n], d) /\ (now = since => d = Day(now))
  BY <1>3
<1>7. QED
  BY <1>1, <1>5, <1>6

\* Outside the reading of the timetable nothing that was read changes.
LEMMA Elsewhere ==
  ASSUME \/ Change \/ PollSensor \/ Look \/ Operate \/ RoundEnds
         \/ \E d \in DOMAIN Lamps : PollMeter(d)
         \/ UNCHANGED vars
  PROVE  /\ UNCHANGED <<now, since, contextmodel_vec, contextmodeldetail_res_vec, week, op_name>>
         /\ \/ UNCHANGED <<at, i, failed>>
            \/ /\ at' \in {"operate", "lamps", "round"} /\ i' \in {i, i + 1}
               /\ failed' \in {failed, TRUE}
<1> USE DEF world, rows, room, loop, Quiet
<1>1. CASE Change
  BY <1>1 DEF Change
<1>2. CASE PollSensor
  BY <1>2 DEF PollSensor
<1>3. ASSUME NEW d \in DOMAIN Lamps, PollMeter(d)
      PROVE  UNCHANGED <<now, since, contextmodel_vec, contextmodeldetail_res_vec, week,
                         op_name, at, i, failed>>
  BY <1>3 DEF PollMeter
<1>4. CASE Look
  BY <1>4 DEF Look, Succeeds, QueryFails
<1>5. CASE Operate
  BY <1>5 DEF Operate
<1>6. CASE RoundEnds
  BY <1>6 DEF RoundEnds
<1>7. CASE UNCHANGED vars
  BY <1>7 DEF vars
<1>8. QED
  BY <1>1, <1>2, <1>3, <1>4, <1>5, <1>6, <1>7

\* The sequence of models that is read.
LEMMA AllModels ==
  /\ [k \in DOMAIN Models |-> k] \in Seq(DOMAIN Models)
  /\ Len([k \in DOMAIN Models |-> k]) = Len(Models)
  /\ Len(Models) \in Nat /\ DOMAIN Models = 1 .. Len(Models)
<1>1. Len(Models) \in Nat /\ DOMAIN Models = 1 .. Len(Models)
  BY LightingAssumption, LenProperties
<1>2. QED
  BY <1>1

\* In CheckWeek, and in CheckTime, what the index names.
LEMMA ModelAt ==
  ASSUME ClockTypes, ReadTypes, i <= Len(contextmodel_vec)
  PROVE  contextmodel_vec[i] \in DOMAIN Models
<1>1. Len(contextmodel_vec) \in Nat
  BY LenProperties DEF ReadTypes
<1>2. i \in 1 .. Len(contextmodel_vec)
  BY <1>1 DEF ClockTypes
<1>3. QED
  BY <1>2, ElementOfSeq DEF ReadTypes

LEMMA PeriodAt ==
  ASSUME ReadTypes
  PROVE  /\ Len(contextmodeldetail_res_vec) \in Nat
         /\ DOMAIN contextmodeldetail_res_vec = 1 .. Len(contextmodeldetail_res_vec)
         /\ \A j \in DOMAIN contextmodeldetail_res_vec :
              /\ contextmodeldetail_res_vec[j] \in Dated
              /\ contextmodeldetail_res_vec[j].ctrltype \in Ctrltypes
<1>1. /\ Len(contextmodeldetail_res_vec) \in Nat
      /\ DOMAIN contextmodeldetail_res_vec = 1 .. Len(contextmodeldetail_res_vec)
  BY LenProperties DEF ReadTypes
<1>2. \A j \in DOMAIN contextmodeldetail_res_vec : contextmodeldetail_res_vec[j] \in Dated
  BY <1>1, ElementOfSeq DEF ReadTypes
<1>3. QED
  BY <1>1, <1>2 DEF Dated

LEMMA ClockStep == ClockTypes /\ [Next]_vars => ClockTypes'
<1> SUFFICES ASSUME ClockTypes, [Next]_vars PROVE ClockTypes'
  OBVIOUS
<1> USE DEF ClockTypes, world, rows, room, loop, Quiet
<1>1. CASE Tick
  BY <1>1 DEF Tick
<1>2. CASE Round
  BY <1>2 DEF Round, QueryFails
<1>3. CASE Sensor
  BY <1>3 DEF Sensor, Succeeds, QueryFails
<1>4. CASE WeekcycleInfo
  BY <1>4 DEF WeekcycleInfo, Succeeds, QueryFails
<1>5. CASE CheckWeek
  BY <1>5 DEF CheckWeek, Succeeds, QueryFails
<1>6. CASE CheckTime
  BY <1>6 DEF CheckTime, Succeeds
<1>7. CASE \/ Change \/ PollSensor \/ Look \/ Operate \/ RoundEnds
           \/ \E d \in DOMAIN Lamps : PollMeter(d)
           \/ UNCHANGED vars
  <2>1. UNCHANGED <<now, since>> /\ i' \in {i, i + 1}
    BY <1>7, Elsewhere
  <2>2. QED
    BY <2>1
<1>8. QED
  BY <1>1, <1>2, <1>3, <1>4, <1>5, <1>6, <1>7 DEF Next, Thread

LEMMA ReadTypesStep == TypeInv /\ [Next]_vars => ReadTypes'
<1> SUFFICES ASSUME ClockTypes, ReadTypes, [Next]_vars PROVE ReadTypes'
  BY DEF TypeInv
<1>1. CASE UNCHANGED <<contextmodel_vec, contextmodeldetail_res_vec, op_name>>
  BY <1>1 DEF ReadTypes
<1>2. CASE Round
  <2>1. contextmodel_vec' = <<>> /\ contextmodeldetail_res_vec' = <<>> /\ op_name' = "none"
    BY <1>2 DEF Round
  <2>2. QED
    BY <2>1, EmptySeq DEF ReadTypes
<1>3. CASE WeekcycleInfo
  <2>1. /\ contextmodel_vec' \in {contextmodel_vec, [k \in DOMAIN Models |-> k]}
        /\ UNCHANGED <<contextmodeldetail_res_vec, op_name>>
    BY <1>3 DEF WeekcycleInfo
  <2>2. QED
    BY <2>1, AllModels DEF ReadTypes
<1>4. CASE CheckWeek
  <2>1. UNCHANGED <<contextmodel_vec, op_name>>
    BY <1>4 DEF CheckWeek
  <2>2. CASE i <= Len(contextmodel_vec) /\ DetailInfo(contextmodel_vec[i])
    <3>1. PICK new \in Seq(Dated) : contextmodeldetail_res_vec' = contextmodeldetail_res_vec \o new
      BY <2>2, ModelAt, DetailRead DEF TypeInv
    <3>2. contextmodeldetail_res_vec' \in Seq(Dated)
      BY <3>1, ConcatProperties DEF ReadTypes
    <3>3. QED
      BY <2>1, <3>2 DEF ReadTypes
  <2>3. CASE UNCHANGED contextmodeldetail_res_vec
    BY <2>1, <2>3, <1>1
  <2>4. i <= Len(contextmodel_vec) \/ i > Len(contextmodel_vec)
    BY LenProperties DEF ReadTypes, ClockTypes
  <2>5. QED
    BY <1>4, <2>2, <2>3, <2>4 DEF CheckWeek
<1>5. CASE CheckTime
  <2>1. UNCHANGED <<contextmodel_vec, contextmodeldetail_res_vec>>
    BY <1>5 DEF CheckTime
  <2>2. i <= Len(contextmodeldetail_res_vec) =>
          contextmodeldetail_res_vec[i].ctrltype \in Ctrltypes
    BY PeriodAt DEF ClockTypes
  <2>3. op_name' \in Ctrltypes \cup {"none"}
    BY <1>5, <2>2, PeriodAt DEF CheckTime, ReadTypes, ClockTypes
  <2>4. QED
    BY <2>1, <2>3 DEF ReadTypes
<1>6. CASE Tick \/ Sensor
  BY <1>6, <1>1 DEF Tick, Sensor, room
<1>7. CASE \/ Change \/ PollSensor \/ Look \/ Operate \/ RoundEnds
           \/ \E d \in DOMAIN Lamps : PollMeter(d)
           \/ UNCHANGED vars
  BY <1>7, <1>1, Elsewhere
<1>8. QED
  BY <1>2, <1>3, <1>4, <1>5, <1>6, <1>7 DEF Next, Thread

LEMMA StageStep == StageInv /\ [Next]_vars => StageInv'
<1> SUFFICES ASSUME StageInv, [Next]_vars PROVE StageInv'
  OBVIOUS
<1> USE DEF StageInv, world, rows, room, loop, Quiet
<1>1. CASE Tick
  BY <1>1 DEF Tick
<1>2. CASE Round
  BY <1>2 DEF Round
<1>3. CASE Sensor
  BY <1>3 DEF Sensor
<1>4. CASE WeekcycleInfo
  BY <1>4 DEF WeekcycleInfo
<1>5. CASE CheckWeek
  BY <1>5 DEF CheckWeek
<1>6. CASE CheckTime
  BY <1>6 DEF CheckTime
<1>7. CASE \/ Change \/ PollSensor \/ Look \/ Operate \/ RoundEnds
           \/ \E d \in DOMAIN Lamps : PollMeter(d)
           \/ UNCHANGED vars
  BY <1>7, Elsewhere
<1>8. QED
  BY <1>1, <1>2, <1>3, <1>4, <1>5, <1>6, <1>7 DEF Next, Thread

\* Rows of contextmodeldetail that were read before are found again.
LEMMA ReadStep == TypeInv /\ StageInv /\ ReadInv /\ [Next]_vars => ReadInv'
<1> SUFFICES ASSUME TypeInv, StageInv, ReadInv, [Next]_vars PROVE ReadInv'
  OBVIOUS
<1> USE DEF TypeInv, world, rows, room, loop, Quiet
<1>0. \A k : Enabled(k) => (week' = week => Enabled(k)')
  BY DEF Enabled
<1>1. CASE \/ Tick
           \/ Change \/ PollSensor \/ Look \/ Operate \/ RoundEnds
           \/ \E d \in DOMAIN Lamps : PollMeter(d)
           \/ UNCHANGED vars
  <2>1. /\ UNCHANGED <<since, contextmodeldetail_res_vec, week>> /\ now' \in {now, now + 1}
        /\ at' \in {"details", "time"} => at \in {"details", "time"}
    BY <1>1, Elsewhere DEF Tick
  <2>2. DuringRound \subseteq DuringRound'
    BY <2>1 DEF DuringRound, ClockTypes
  <2>3. QED
    BY <2>1, <2>2, Zenon DEF ReadInv, Enabled, StandsFor
<1>2. CASE Round \/ Sensor
  <2>1. contextmodeldetail_res_vec' = <<>> /\ at' \notin {"details", "time"}
    BY <1>2 DEF Round, Sensor, StageInv
  <2>2. QED
    BY <2>1 DEF ReadInv
<1>3. CASE WeekcycleInfo
  <2>1. contextmodeldetail_res_vec' = <<>> /\ UNCHANGED <<now, since>>
        /\ week' = Day(now) % Weekdays
    BY <1>3 DEF WeekcycleInfo, StageInv
  <2>2. now' \in DuringRound'
    BY <2>1 DEF DuringRound, ClockTypes
  <2>3. QED
    BY <2>1, <2>2 DEF ReadInv
<1>4. CASE CheckWeek
  <2>1. at = "details" /\ UNCHANGED <<now, since, week>>
    BY <1>4 DEF CheckWeek
  <2>2. (\E t \in DuringRound : week = Day(t) % Weekdays)'
    BY <2>1 DEF ReadInv, DuringRound
  <2>3. CASE UNCHANGED contextmodeldetail_res_vec
    BY <2>1, <2>2, <2>3, Zenon DEF ReadInv, Enabled, StandsFor
  <2>4. CASE /\ i <= Len(contextmodel_vec) /\ Enabled(contextmodel_vec[i])
             /\ DetailInfo(contextmodel_vec[i])
    <3> DEFINE k == contextmodel_vec[i]
               vec == contextmodeldetail_res_vec
    <3>1. k \in DOMAIN Models
      BY <2>4, ModelAt
    <3>2. PICK new \in Seq(Dated) :
            /\ vec' = vec \o new /\ DOMAIN new = DOMAIN Models[k].details
            /\ \A n \in DOMAIN new : \E today \in Int :
                 /\ new[n] = Period(Models[k].details[n], today)
                 /\ now = since => today = Day(now)
      BY <2>4, <3>1, DetailRead
    <3>3. \A n \in DOMAIN new : StandsFor(new[n], k, n)
      <4> SUFFICES ASSUME NEW n \in DOMAIN new PROVE StandsFor(new[n], k, n)
        OBVIOUS
      <4>1. PICK today \in Int : new[n] = Period(Models[k].details[n], today)
        BY <3>2
      <4>2. Models[k].details[n] \in Rows /\ now \in Nat
        BY <3>1, <3>2, DetailRows DEF ClockTypes
      <4>3. QED
        BY <4>1, <4>2, PeriodDated, PeriodContains DEF StandsFor
    <3>4. vec \in Seq(Dated)
      BY DEF ReadTypes
    <3>5. \A j \in DOMAIN vec' :
            \/ j \in DOMAIN vec /\ vec'[j] = vec[j]
            \/ \E n \in DOMAIN new : vec'[j] = new[n]
      BY <3>2, <3>4, Concatenation
    <3>6. \A j \in DOMAIN vec' : \E m \in DOMAIN Models : \E n \in DOMAIN Models[m].details :
            StandsFor(vec'[j], m, n) /\ Enabled(m)
      <4> HIDE DEF vec, k
      <4>1. \A n \in DOMAIN new : StandsFor(new[n], k, n) /\ n \in DOMAIN Models[k].details
        BY <3>2, <3>3
      <4>2. \A j \in DOMAIN vec : \E m \in DOMAIN Models : \E n \in DOMAIN Models[m].details :
              StandsFor(vec[j], m, n) /\ Enabled(m)
        BY DEF ReadInv, vec
      <4>3. Enabled(k)
        BY <2>4 DEF k
      <4>4. QED
        BY <3>1, <3>5, <4>1, <4>2, <4>3, Zenon
    <3>7. QED
      BY <2>1, <2>2, <3>6, Zenon DEF ReadInv, Enabled, StandsFor
  <2>5. i <= Len(contextmodel_vec) \/ i > Len(contextmodel_vec)
    BY LenProperties DEF ReadTypes, ClockTypes
  <2>6. QED
    BY <1>4, <2>3, <2>4, <2>5 DEF CheckWeek
<1>5. CASE CheckTime
  <2>1. UNCHANGED <<now, since, contextmodeldetail_res_vec, week>> /\ at = "time"
    BY <1>5 DEF CheckTime
  <2>2. QED
    BY <2>1, Zenon DEF ReadInv, Enabled, StandsFor, DuringRound
<1>6. QED
  BY <1>1, <1>2, <1>3, <1>4, <1>5 DEF Next, Thread

\* One more model is read.
LEMMA ReadOneMore ==
  ASSUME NEW k \in DOMAIN Models, NEW vec \in Seq(Dated), NEW new \in Seq(Dated),
         contextmodeldetail_res_vec = vec, ReadUpTo(k), Enabled(k),
         DOMAIN new = DOMAIN Models[k].details,
         \A n \in DOMAIN new : new[n] = Period(Models[k].details[n], Day(now)),
         contextmodeldetail_res_vec' = vec \o new, UNCHANGED <<now, week>>
  PROVE  ReadUpTo(k + 1)'
<1> DEFINE all == vec \o new
<1>1. PICK f \in [DOMAIN vec -> AllRows] : CameFrom(f, k)
  BY DEF ReadUpTo
<1>2. /\ k \in Int /\ \A p \in AllRows : p[1] \in Int
      /\ Len(vec) \in Nat /\ DOMAIN vec = 1 .. Len(vec)
      /\ Len(new) \in Nat /\ DOMAIN new = 1 .. Len(new)
      /\ DOMAIN all = 1 .. Len(vec) + Len(new)
  BY AllModels, RowOf, Concatenation, LenProperties
<1>3. /\ \A j \in DOMAIN vec : j \in DOMAIN all /\ all[j] = vec[j]
      /\ \A j \in DOMAIN all : j \notin DOMAIN vec =>
           j - Len(vec) \in DOMAIN new /\ all[j] = new[j - Len(vec)]
      /\ \A n \in DOMAIN new : n + Len(vec) \in DOMAIN all /\ n + Len(vec) \notin DOMAIN vec
  BY <1>2, Concatenation
<1> DEFINE g == [j \in DOMAIN all |-> IF j \in DOMAIN vec THEN f[j] ELSE <<k, j - Len(vec)>>]
<1>4. \A n \in DOMAIN new : <<k, n>> \in AllRows
  BY DEF AllRows
<1>5. g \in [DOMAIN all -> AllRows]
  BY <1>1, <1>3, <1>4
<1> HIDE DEF all
<1>6. \A j \in DOMAIN all :
        /\ g[j][1] < k + 1 /\ Enabled(g[j][1])
        /\ all[j] = Period(Models[g[j][1]].details[g[j][2]], Day(now))
  <2> SUFFICES ASSUME NEW j \in DOMAIN all
               PROVE  /\ g[j][1] < k + 1 /\ Enabled(g[j][1])
                      /\ all[j] = Period(Models[g[j][1]].details[g[j][2]], Day(now))
    OBVIOUS
  <2>1. CASE j \in DOMAIN vec
    <3>1. g[j] = f[j] /\ f[j] \in AllRows /\ all[j] = vec[j]
      BY <1>1, <1>3, <2>1
    <3>2. /\ f[j][1] < k /\ Enabled(f[j][1])
          /\ vec[j] = Period(Models[f[j][1]].details[f[j][2]], Day(now))
      BY <1>1, <2>1 DEF CameFrom
    <3>3. QED
      BY <1>2, <3>1, <3>2
  <2>2. CASE j \notin DOMAIN vec
    <3>1. g[j][1] = k /\ g[j][2] = j - Len(vec)
      BY <2>2
    <3>2. j - Len(vec) \in DOMAIN new /\ all[j] = new[j - Len(vec)]
      BY <1>3, <2>2
    <3>3. QED
      BY <1>2, <3>1, <3>2
  <2>3. QED
    BY <2>1, <2>2
<1>7. \A j, l \in DOMAIN all : j < l => Later(g[l], g[j])
  <2> SUFFICES ASSUME NEW j \in DOMAIN all, NEW l \in DOMAIN all, j < l
               PROVE  Later(g[l], g[j])
    OBVIOUS
  <2>1. CASE l \in DOMAIN vec
    <3>1. j \in DOMAIN vec
      BY <1>2, <2>1
    <3>2. g[j] = f[j] /\ g[l] = f[l]
      BY <2>1, <3>1
    <3>3. QED
      BY <1>1, <2>1, <3>1, <3>2 DEF CameFrom
  <2>2. CASE j \in DOMAIN vec /\ l \notin DOMAIN vec
    <3>1. g[j] = f[j] /\ g[l][1] = k /\ f[j] \in AllRows
      BY <1>1, <2>2
    <3>2. f[j][1] < k
      BY <1>1, <2>2 DEF CameFrom
    <3>3. QED
      BY <1>2, <3>1, <3>2 DEF Later
  <2>3. CASE j \notin DOMAIN vec /\ l \notin DOMAIN vec
    <3>1. g[j][1] = k /\ g[j][2] = j - Len(vec) /\ g[l][1] = k /\ g[l][2] = l - Len(vec)
      BY <2>3
    <3>2. QED
      BY <1>2, <3>1 DEF Later
  <2>4. j \notin DOMAIN vec /\ l \in DOMAIN vec => FALSE
    BY <1>2
  <2>5. QED
    BY <2>1, <2>2, <2>3, <2>4
<1>8. \A p \in AllRows : p[1] < k + 1 /\ Enabled(p[1]) => \E j \in DOMAIN all : g[j] = p
  <2> SUFFICES ASSUME NEW p \in AllRows, p[1] < k + 1, Enabled(p[1])
               PROVE  \E j \in DOMAIN all : g[j] = p
    OBVIOUS
  <2>1. CASE p[1] < k
    <3>1. PICK j \in DOMAIN vec : f[j] = p
      BY <1>1, <2>1 DEF CameFrom
    <3>2. j \in DOMAIN all /\ g[j] = p
      BY <1>3, <3>1
    <3>3. QED
      BY <3>2
  <2>2. CASE p[1] = k
    <3>1. p = <<k, p[2]>> /\ p[2] \in DOMAIN new
      BY <2>2, RowOf
    <3>2. p[2] + Len(vec) \in DOMAIN all /\ p[2] + Len(vec) \notin DOMAIN vec
      BY <1>3, <3>1
    <3>3. g[p[2] + Len(vec)] = <<k, p[2]>>
      BY <1>2, <3>1, <3>2
    <3>4. QED
      BY <3>1, <3>2, <3>3
  <2>3. QED
    BY <1>2, <2>1, <2>2
<1>9. \A m : Enabled(m)' <=> Enabled(m)
  BY DEF Enabled
<1>10. \A r, d : Period(r, d)' = Period(r, d)
  BY DEF Period
<1> HIDE DEF g
<1>11. CameFrom(g, k + 1)'
  BY <1>6, <1>7, <1>8, <1>9, <1>10 DEF CameFrom, all, Day, Later
<1>12. QED
  BY <1>5, <1>11 DEF ReadUpTo, all

LEMMA NotReadOneMore ==
  ASSUME NEW k \in Int, ReadUpTo(k), ~Enabled(k)
  PROVE  ReadUpTo(k + 1)
<1>1. PICK f \in [DOMAIN contextmodeldetail_res_vec -> AllRows] : CameFrom(f, k)
  BY DEF ReadUpTo
<1>2. \A p \in AllRows : p[1] \in Int
  BY AllModels, RowOf
<1>3. \A p \in AllRows : p[1] < k + 1 /\ Enabled(p[1]) => p[1] < k /\ Enabled(p[1])
  BY <1>2
<1>4. \A p \in AllRows : p[1] < k => p[1] < k + 1
  BY <1>2
<1>5. CameFrom(f, k + 1)
  BY <1>1, <1>3, <1>4 DEF CameFrom
<1>6. QED
  BY <1>5 DEF ReadUpTo

\* What was read stays read while the clock stands.
LEMMA ReadKept ==
  ASSUME NEW m, ReadUpTo(m), UNCHANGED <<now, week, contextmodeldetail_res_vec>>
  PROVE  ReadUpTo(m)'
<1>1. \A k : Enabled(k)' <=> Enabled(k)
  BY DEF Enabled
<1>2. \A r, d : Period(r, d)' = Period(r, d)
  BY DEF Period
<1>3. \A f : CameFrom(f, m) => CameFrom(f, m)'
  BY <1>1, <1>2 DEF CameFrom, Day, Later
<1>4. QED
  BY <1>3 DEF ReadUpTo

\* One more period is looked at.
LEMMA DecideOneMore ==
  ASSUME NEW m \in DOMAIN contextmodeldetail_res_vec, ReadTypes, DecidedUpTo(m),
         UNCHANGED <<now, contextmodeldetail_res_vec>>,
         op_name' = IF Holds(contextmodeldetail_res_vec[m], now)
                      THEN contextmodeldetail_res_vec[m].ctrltype ELSE op_name
  PROVE  DecidedUpTo(m + 1)'
<1> DEFINE vec == contextmodeldetail_res_vec
<1>1. /\ m \in Int /\ DOMAIN vec \subseteq Int
      /\ \A j \in DOMAIN vec : j < m + 1 <=> j < m \/ j = m
  BY PeriodAt
<1>2. \A j \in DOMAIN vec : Holds(vec[j], now)' <=> Holds(vec[j], now)
  BY DEF Holds
<1>3. CASE Holds(vec[m], now)
  <2>1. \A l \in DOMAIN vec : ~(m < l /\ l < m + 1)
    BY <1>1
  <2>2. m < m + 1 /\ op_name' = vec[m].ctrltype
    BY <1>1, <1>3
  <2>3. QED
    BY <1>2, <1>3, <2>1, <2>2 DEF DecidedUpTo
<1>4. CASE ~Holds(vec[m], now)
  <2>1. op_name' = op_name
    BY <1>4
  <2>2. CASE op_name = "none" /\ \A j \in DOMAIN vec : j < m => ~Holds(vec[j], now)
    <3>1. \A j \in DOMAIN vec : j < m + 1 => ~Holds(vec[j], now)
      BY <1>1, <1>4, <2>2
    <3>2. QED
      BY <1>2, <2>1, <2>2, <3>1 DEF DecidedUpTo
  <2>3. CASE \E j \in DOMAIN vec :
               /\ j < m /\ Holds(vec[j], now) /\ op_name = vec[j].ctrltype
               /\ \A l \in DOMAIN vec : j < l /\ l < m => ~Holds(vec[l], now)
    <3>1. PICK j \in DOMAIN vec :
               /\ j < m /\ Holds(vec[j], now) /\ op_name = vec[j].ctrltype
               /\ \A l \in DOMAIN vec : j < l /\ l < m => ~Holds(vec[l], now)
      BY <2>3
    <3>2. j < m + 1 /\ \A l \in DOMAIN vec : j < l /\ l < m + 1 => ~Holds(vec[l], now)
      BY <1>1, <1>4, <3>1
    <3>3. QED
      BY <1>2, <2>1, <3>1, <3>2 DEF DecidedUpTo
  <2>4. QED
    BY <2>2, <2>3 DEF DecidedUpTo
<1>5. QED
  BY <1>3, <1>4

\* The index has moved on to m.
LEMMA IndexAt ==
  ASSUME NEW m, i' = m
  PROVE  /\ ReadUpTo(m)' => ReadUpTo(i)'
         /\ DecidedUpTo(m)' => DecidedUpTo(i)'
  BY DEF ReadUpTo, CameFrom, DecidedUpTo

\* A tick separates the clock from the beginning of the round.
LEMMA TickAhead ==
  ASSUME ClockTypes, Tick
  PROVE  now' # since'
<1>1. now' = now + 1 /\ since' = since
  BY DEF Tick, loop
<1>2. QED
  BY <1>1 DEF ClockTypes

LEMMA OrderStep == TypeInv /\ StageInv /\ OrderInv /\ [Next]_vars => OrderInv'
<1> SUFFICES ASSUME TypeInv, StageInv, OrderInv, [Next]_vars, now' = since', ~failed'
             PROVE  /\ at' \in {"details", "time"} => week' = Day(now') % Weekdays
                    /\ at' = "details" => /\ contextmodel_vec' = [k \in DOMAIN Models |-> k]
                                          /\ i' <= Len(Models) + 1 /\ ReadUpTo(i)'
                    /\ at' = "time" => ReadUpTo(Len(Models) + 1)' /\ DecidedUpTo(i)'
  BY DEF OrderInv, Day
<1> USE DEF TypeInv, Quiet, world
<1>1. CASE Tick
  BY <1>1, TickAhead
<1>2. CASE Round \/ Sensor
  BY <1>2 DEF Round, Sensor
<1>3. CASE WeekcycleInfo
  <2>1. /\ at' = "details" /\ i' = 1 /\ UNCHANGED <<now, contextmodeldetail_res_vec>>
        /\ contextmodeldetail_res_vec = <<>> /\ week' = Day(now) % Weekdays
        /\ contextmodel_vec' = [k \in DOMAIN Models |-> k]
    BY <1>3 DEF WeekcycleInfo, StageInv, QueryFails
  <2>2. i' <= Len(Models) + 1
    BY <2>1, AllModels
  <2>3. ReadUpTo(1)'
    <3>1. contextmodeldetail_res_vec' = <<>> /\ DOMAIN <<>> = {}
      BY <2>1
    <3> DEFINE f == [x \in {} |-> <<1, 1>>]
    <3>2. f \in [{} -> AllRows]
      OBVIOUS
    <3>3. \A p \in AllRows : p[1] \in Nat /\ ~(p[1] < 1)
      BY AllModels, RowOf
    <3>4. CameFrom(f, 1)'
      BY <3>1, <3>3, Zenon DEF CameFrom
    <3>5. QED
      BY <3>1, <3>2, <3>4, Zenon DEF ReadUpTo
  <2>4. QED
    BY <2>1, <2>2, <2>3 DEF Day
<1>4. CASE CheckWeek
  <2>1. /\ at = "details" /\ UNCHANGED <<now, since, week, contextmodel_vec, op_name>>
        /\ ~failed /\ op_name = "none"
    BY <1>4 DEF CheckWeek, QueryFails, Succeeds, StageInv
  <2>2. /\ contextmodel_vec = [k \in DOMAIN Models |-> k]
        /\ i <= Len(Models) + 1 /\ ReadUpTo(i) /\ week = Day(now) % Weekdays
        /\ now = since /\ i \in Nat \ {0}
    BY <2>1 DEF OrderInv, ClockTypes
  <2>3. Len(contextmodel_vec) = Len(Models) /\ Len(Models) \in Nat
    BY <2>2, AllModels
  <2>4. week' = Day(now') % Weekdays
    BY <2>1, <2>2
  <2>5. CASE i > Len(contextmodel_vec)
    <3>1. at' = "time" /\ i' = 1 /\ UNCHANGED contextmodeldetail_res_vec
      BY <1>4, <2>5 DEF CheckWeek
    <3>2. i = Len(Models) + 1
      BY <2>2, <2>3, <2>5
    <3>3. ReadUpTo(Len(Models) + 1)'
      BY <2>1, <2>2, <3>1, <3>2, ReadKept
    <3>4. \A j \in DOMAIN contextmodeldetail_res_vec : ~(j < 1)
      BY PeriodAt
    <3>5. DecidedUpTo(1)'
      BY <2>1, <3>1, <3>4 DEF DecidedUpTo
    <3>6. QED
      BY <2>4, <3>1, <3>3, <3>5
  <2>6. CASE ~(i > Len(contextmodel_vec))
    <3>1. UNCHANGED at /\ i' = i + 1
      BY <1>4, <2>6 DEF CheckWeek
    <3>2. i \in DOMAIN Models /\ contextmodel_vec[i] = i /\ i + 1 <= Len(Models) + 1
      BY <2>2, <2>3, <2>6, AllModels
    <3>3. CASE Enabled(i) /\ DetailInfo(i)
      <4>1. PICK new \in Seq(Dated) :
              /\ contextmodeldetail_res_vec' = contextmodeldetail_res_vec \o new
              /\ DOMAIN new = DOMAIN Models[i].details
              /\ \A n \in DOMAIN new : \E today \in Int :
                   /\ new[n] = Period(Models[i].details[n], today)
                   /\ now = since => today = Day(now)
        BY <3>2, <3>3, DetailRead
      <4>2. \A n \in DOMAIN new : new[n] = Period(Models[i].details[n], Day(now))
        BY <2>2, <4>1
      <4>3. \A k \in DOMAIN Models : k = i => ReadUpTo(k + 1)'
        BY <2>1, <2>2, <3>3, <4>1, <4>2, ReadOneMore DEF ReadTypes
      <4>4. ReadUpTo(i)'
        BY <3>1, <3>2, <4>3, IndexAt
      <4>5. QED
        BY <2>1, <2>2, <2>4, <3>1, <3>2, <4>4
    <3>4. CASE ~Enabled(i) /\ UNCHANGED contextmodeldetail_res_vec
      <4>1. \A k \in Int : k = i => ReadUpTo(k + 1)
        BY <2>2, <3>4, NotReadOneMore
      <4>2. \A k \in Int : k = i => ReadUpTo(k + 1)'
        BY <2>1, <3>4, <4>1, ReadKept
      <4>3. ReadUpTo(i)'
        BY <2>2, <3>1, <4>2, IndexAt
      <4>4. QED
        BY <2>1, <2>2, <2>4, <3>1, <3>2, <4>3
    <3>5. QED
      BY <1>4, <2>6, <3>2, <3>3, <3>4 DEF CheckWeek, QueryFails
  <2>7. QED
    BY <2>5, <2>6
<1>5. CASE CheckTime
  <2>1. /\ at = "time" /\ UNCHANGED <<now, since, week, contextmodeldetail_res_vec>> /\ ~failed
    BY <1>5 DEF CheckTime, Succeeds
  <2>2. ReadUpTo(Len(Models) + 1) /\ DecidedUpTo(i) /\ week = Day(now) % Weekdays
    BY <2>1 DEF OrderInv
  <2>3. CASE i > Len(contextmodeldetail_res_vec)
    BY <1>5, <2>3 DEF CheckTime
  <2>4. CASE ~(i > Len(contextmodeldetail_res_vec))
    <3>1. /\ UNCHANGED at /\ i' = i + 1 /\ i \in DOMAIN contextmodeldetail_res_vec
          /\ op_name' = IF Holds(contextmodeldetail_res_vec[i], now)
                          THEN contextmodeldetail_res_vec[i].ctrltype ELSE op_name
      BY <1>5, <2>4, PeriodAt DEF CheckTime, Holds, ClockTypes
    <3>2. \A m \in DOMAIN contextmodeldetail_res_vec : m = i => DecidedUpTo(m + 1)'
      BY <2>1, <2>2, <3>1, DecideOneMore
    <3>5. DecidedUpTo(i)'
      BY <3>1, <3>2, IndexAt
    <3>3. ReadUpTo(Len(Models) + 1)'
      BY <2>1, <2>2, ReadKept
    <3>4. QED
      BY <2>1, <2>2, <3>1, <3>5, <3>3
  <2>5. QED
    BY <2>3, <2>4
<1>6. CASE \/ Change \/ PollSensor \/ Look \/ Operate \/ RoundEnds
           \/ \E d \in DOMAIN Lamps : PollMeter(d)
           \/ UNCHANGED vars
  <2>1. /\ UNCHANGED <<now, since, contextmodel_vec, contextmodeldetail_res_vec, week, op_name>>
        /\ UNCHANGED <<at, i, failed>> \/ at' \in {"operate", "lamps", "round"}
    BY <1>6, Elsewhere
  <2>2. CASE at' \in {"operate", "lamps", "round"}
    BY <2>2
  <2>3. CASE UNCHANGED <<at, i, failed>>
    <3>1. now = since /\ ~failed
      BY <2>1, <2>3
    <3>2. \A m : ReadUpTo(m) => ReadUpTo(m)'
      BY <2>1, ReadKept
    <3>3. DecidedUpTo(i) => DecidedUpTo(i)'
      BY <2>1, <2>3 DEF DecidedUpTo, Holds
    <3>4. QED
      BY <2>1, <2>3, <3>1, <3>2, <3>3 DEF OrderInv
  <2>4. QED
    BY <2>1, <2>2, <2>3
<1>7. QED
  BY <1>1, <1>2, <1>3, <1>4, <1>5, <1>6 DEF Next, Thread

LEMMA LightingInvariance == Spec => []LightingInv
<1>1. Init => LightingInv
  BY LightingInit
<1>2. LightingInv /\ [Next]_vars => LightingInv'
  BY ClockStep, ReadTypesStep, StageStep, ReadStep, OrderStep DEF LightingInv, TypeInv
<1>3. QED
  BY <1>1, <1>2, PTL DEF Spec

------------------------------------------------------------------------------
(* What a round decides                                                      *)

LEMMA DecidesAt ==
  ASSUME Next, op_name' # op_name, op_name' # "none"
  PROVE  /\ at = "time" /\ ~(i > Len(contextmodeldetail_res_vec))
         /\ Holds(contextmodeldetail_res_vec[i], now)
         /\ op_name' = contextmodeldetail_res_vec[i].ctrltype
<1>1. CASE CheckTime
  BY <1>1 DEF CheckTime, Holds
<1>2. CASE Round
  BY <1>2 DEF Round
<1>3. CASE Tick \/ Sensor \/ WeekcycleInfo \/ CheckWeek
  BY <1>3 DEF Tick, Sensor, WeekcycleInfo, CheckWeek, room
<1>4. CASE \/ Change \/ PollSensor \/ Look \/ Operate \/ RoundEnds
           \/ \E d \in DOMAIN Lamps : PollMeter(d)
  BY <1>4, Elsewhere
<1>5. QED
  BY <1>1, <1>2, <1>3, <1>4 DEF Next, Thread

\* A command for the lamps always comes from a daily period that contains the present
\* moment, of a model enabled on a day of this round: also when a period crosses midnight,
\* and when midnight passes between reading and deciding.
THEOREM DecidedInForceHolds == Spec => DecidedInForce
<1> DEFINE Right ==
      op_name' # op_name /\ op_name' # "none" =>
        \E k \in DOMAIN Models : \E n \in DOMAIN Models[k].details :
          /\ Models[k].details[n].ctrltype = op_name'
          /\ Contains(Models[k].details[n], now)
          /\ \E t \in DuringRound : Day(t) % Weekdays \in Models[k].weekcycle
<1>1. LightingInv /\ [Next]_vars => [Right]_vars
  <2> SUFFICES ASSUME LightingInv, Next, op_name' # op_name, op_name' # "none"
               PROVE  \E k \in DOMAIN Models : \E n \in DOMAIN Models[k].details :
                        /\ Models[k].details[n].ctrltype = op_name'
                        /\ Contains(Models[k].details[n], now)
                        /\ \E t \in DuringRound : Day(t) % Weekdays \in Models[k].weekcycle
    OBVIOUS
  <2>1. /\ at = "time" /\ ~(i > Len(contextmodeldetail_res_vec))
        /\ Holds(contextmodeldetail_res_vec[i], now)
        /\ op_name' = contextmodeldetail_res_vec[i].ctrltype
    BY DecidesAt
  <2>2. ClockTypes /\ ReadTypes /\ ReadInv
    BY DEF LightingInv, TypeInv
  <2>3. i \in DOMAIN contextmodeldetail_res_vec /\ now \in Nat
    BY <2>1, <2>2, PeriodAt DEF ClockTypes
  <2>4. PICK k \in DOMAIN Models : \E n \in DOMAIN Models[k].details :
          StandsFor(contextmodeldetail_res_vec[i], k, n) /\ Enabled(k)
    BY <2>2, <2>3 DEF ReadInv
  <2>5. PICK n \in DOMAIN Models[k].details :
          StandsFor(contextmodeldetail_res_vec[i], k, n) /\ Enabled(k)
    BY <2>4
  <2>6. \E t \in DuringRound : Day(t) % Weekdays \in Models[k].weekcycle
    BY <2>1, <2>2, <2>5 DEF ReadInv, Enabled
  <2>7. QED
    BY <2>1, <2>3, <2>5, <2>6 DEF StandsFor
<1>2. QED
  BY <1>1, LightingInvariance, PTL DEF Spec, DecidedInForce

\* check_time() ends when all periods have been looked at.
LEMMA LeavesTime ==
  ASSUME Next, at = "time", at' # "time"
  PROVE  i > Len(contextmodeldetail_res_vec)
<1>1. CASE CheckTime
  BY <1>1 DEF CheckTime
<1>2. CASE Round \/ Sensor \/ WeekcycleInfo \/ CheckWeek \/ Look \/ Operate \/ RoundEnds
  BY <1>2 DEF Round, Sensor, WeekcycleInfo, CheckWeek, Look, Operate, RoundEnds
<1>3. CASE Tick \/ Change \/ PollSensor
  BY <1>3 DEF Tick, Change, PollSensor, loop
<1>4. ASSUME NEW d \in DOMAIN Lamps, PollMeter(d)
      PROVE  FALSE
  BY <1>4 DEF PollMeter, loop
<1>5. QED
  BY <1>1, <1>2, <1>3, <1>4 DEF Next, Thread

\* The periods in force now that the code recognises.
Valid == {p \in InForce(now) : Recognised(Models[p[1]].details[p[2]], now)}

\* Among the periods read in time, those that hold now are exactly the valid ones.
LEMMA HoldingIsValid ==
  ASSUME now \in Nat, week = Day(now) % Weekdays,
         NEW f \in [DOMAIN contextmodeldetail_res_vec -> AllRows],
         CameFrom(f, Len(Models) + 1)
  PROVE  /\ \A j \in DOMAIN contextmodeldetail_res_vec :
              /\ Holds(contextmodeldetail_res_vec[j], now) => f[j] \in Valid
              /\ contextmodeldetail_res_vec[j].ctrltype =
                   Models[f[j][1]].details[f[j][2]].ctrltype
         /\ \A p \in Valid : \E j \in DOMAIN contextmodeldetail_res_vec :
              f[j] = p /\ Holds(contextmodeldetail_res_vec[j], now)
<1> DEFINE vec == contextmodeldetail_res_vec
<1>1. \A p \in AllRows : Models[p[1]].details[p[2]] \in Rows
  BY RowOf, DetailRows
<1>2. \A p : p \in Valid <=> /\ p \in AllRows /\ Enabled(p[1])
                             /\ Contains(Models[p[1]].details[p[2]], now)
                             /\ Recognised(Models[p[1]].details[p[2]], now)
  BY DEF Valid, InForce, AllRows, Enabled
<1>3. \A p \in AllRows :
        Holds(Period(Models[p[1]].details[p[2]], Day(now)), now) <=>
          /\ Contains(Models[p[1]].details[p[2]], now)
          /\ Recognised(Models[p[1]].details[p[2]], now)
  BY <1>1, PeriodNow
<1>4. \A j \in DOMAIN vec :
        /\ f[j] \in AllRows /\ Enabled(f[j][1])
        /\ vec[j] = Period(Models[f[j][1]].details[f[j][2]], Day(now))
  BY DEF CameFrom
<1>5. ASSUME NEW j \in DOMAIN vec
      PROVE  /\ Holds(vec[j], now) => f[j] \in Valid
             /\ vec[j].ctrltype = Models[f[j][1]].details[f[j][2]].ctrltype
  <2>1. Holds(vec[j], now) => f[j] \in Valid
    BY <1>2, <1>3, <1>4
  <2>2. Models[f[j][1]].details[f[j][2]] \in Rows /\ Day(now) \in Int
    BY <1>1, <1>4, DayAndSlot
  <2>3. QED
    BY <1>4, <2>1, <2>2, PeriodDated
<1>6. ASSUME NEW p \in Valid
      PROVE  \E j \in DOMAIN vec : f[j] = p /\ Holds(vec[j], now)
  <2>1. p \in AllRows /\ Enabled(p[1]) /\ p[1] < Len(Models) + 1
    BY <1>2, RowOf, AllModels
  <2>2. PICK j \in DOMAIN vec : f[j] = p
    BY <2>1 DEF CameFrom
  <2>3. QED
    BY <1>2, <1>3, <1>4, <2>2
<1>7. QED
  BY <1>5, <1>6

\* What the timetable says now: the last of the valid periods decides.
Decided(op) ==
  IF Valid = {} THEN op = "none"
  ELSE \E p \in Valid : /\ \A q \in Valid : p = q \/ Later(p, q)
                        /\ op = Models[p[1]].details[p[2]].ctrltype

LEMMA RoundDecides ==
  ASSUME LightingInv, Next, at = "time", at' # "time", now = since, ~failed
  PROVE  Decided(op_name)
<1> SUFFICES IF Valid = {} THEN op_name = "none"
             ELSE \E p \in Valid : /\ \A q \in Valid : p = q \/ Later(p, q)
                                   /\ op_name = Models[p[1]].details[p[2]].ctrltype
  BY DEF Decided
<1> DEFINE vec == contextmodeldetail_res_vec
<1>1. ClockTypes /\ ReadTypes /\ OrderInv
  BY DEF LightingInv, TypeInv
<1>2. now \in Nat /\ i \in Nat
  BY <1>1 DEF ClockTypes
<1>3. ReadUpTo(Len(Models) + 1) /\ DecidedUpTo(i) /\ week = Day(now) % Weekdays
  BY <1>1 DEF OrderInv
<1>4. i > Len(vec)
  BY LeavesTime
<1>5. \A j \in DOMAIN vec : j < i
  BY <1>1, <1>2, <1>4, PeriodAt
<1>6. PICK f \in [DOMAIN vec -> AllRows] : CameFrom(f, Len(Models) + 1)
  BY <1>3 DEF ReadUpTo
<1>7. /\ \A j \in DOMAIN vec : /\ Holds(vec[j], now) => f[j] \in Valid
                               /\ vec[j].ctrltype = Models[f[j][1]].details[f[j][2]].ctrltype
      /\ \A p \in Valid : \E j \in DOMAIN vec : f[j] = p /\ Holds(vec[j], now)
  BY <1>2, <1>3, <1>6, HoldingIsValid
<1>8. CASE op_name = "none" /\ \A j \in DOMAIN vec : ~Holds(vec[j], now)
  BY <1>7, <1>8
<1>9. ASSUME NEW j \in DOMAIN vec, Holds(vec[j], now), op_name = vec[j].ctrltype,
             \A l \in DOMAIN vec : j < l => ~Holds(vec[l], now)
      PROVE  \E p \in Valid : /\ \A q \in Valid : p = q \/ Later(p, q)
                              /\ op_name = Models[p[1]].details[p[2]].ctrltype
  <2>1. f[j] \in Valid /\ op_name = Models[f[j][1]].details[f[j][2]].ctrltype
    BY <1>7, <1>9
  <2>2. ASSUME NEW q \in Valid
        PROVE  f[j] = q \/ Later(f[j], q)
    <3>1. PICK l \in DOMAIN vec : f[l] = q /\ Holds(vec[l], now)
      BY <1>7
    <3>2. ~(j < l) /\ j \in Int /\ l \in Int
      BY <1>1, <1>9, <3>1, PeriodAt
    <3>3. l < j => Later(f[j], f[l])
      BY <1>6 DEF CameFrom
    <3>4. QED
      BY <3>1, <3>2, <3>3
  <2>3. QED
    BY <2>1, <2>2
<1>10. QED
  <2>1. \/ op_name = "none" /\ \A j \in DOMAIN vec : ~Holds(vec[j], now)
        \/ \E j \in DOMAIN vec : /\ Holds(vec[j], now) /\ op_name = vec[j].ctrltype
                                 /\ \A l \in DOMAIN vec : j < l => ~Holds(vec[l], now)
    BY <1>3, <1>5 DEF DecidedUpTo
  <2>2. QED
    BY <1>8, <1>9, <2>1

\* As long as no query fails and the clock stands, a round decides by the last of the
\* valid periods, in the order of the rows, and decides nothing only if there is none.
THEOREM LastInForceDecidesHolds == Spec => LastInForceDecides
<1> DEFINE Last ==
      at = "time" /\ at' # "time" /\ now = since /\ ~failed =>
        LET valid == {p \in InForce(now) : Recognised(Models[p[1]].details[p[2]], now)}
        IN  IF valid = {} THEN op_name = "none"
            ELSE \E p \in valid : /\ \A q \in valid : p = q \/ Later(p, q)
                                  /\ op_name = Models[p[1]].details[p[2]].ctrltype
<1>1. LightingInv /\ [Next]_vars => [Last]_vars
  BY RoundDecides DEF Decided, Valid
<1>2. QED
  BY <1>1, LightingInvariance, PTL DEF Spec, LastInForceDecides

\* Both: what a round orders is what the timetable says.
THEOREM DecidedByPeriodsHolds == Spec => DecidedByPeriods
  BY DecidedInForceHolds, LastInForceDecidesHolds, PTL DEF DecidedByPeriods

------------------------------------------------------------------------------
(* How often a lamp can still be switched                                    *)

\* The thresholds of all rows, under Hysteresis.
On == Models[1].details[1].light_on
Off == Models[1].details[1].light_off

Automatic(d) == Decided("auto") /\ Lamps[d] = "1000"

\* How a lamp is switched in the end, if it is switched at all: the lamps' own light
\* takes the measured light across one threshold at most.
Final(d) == ~(Decided("off") \/ (Automatic(d) /\ daylight >= On))

\* The light v makes the lamps be switched on, or off.
Says(v, on) == IF on THEN v < On ELSE v > Off

\* The row of the sensor is outdated so that it says the opposite.
Outdated(d) == Automatic(d) /\ Says(hd_lightRow, ~Final(d))

\* How rounds switch a lamp from now on, until the sensor is polled.
Target(d) == IF Outdated(d) THEN ~Final(d) ELSE Final(d)

Unvisited(d) ==
  \/ at \in {"sensor", "models", "details", "time"}
  \/ at \in {"lamps", "operate"} /\ d >= i

\* The current round is still to command a lamp, and may command the opposite: a query
\* failed, or it began earlier, or it goes by light measured earlier.
Astray(d) ==
  /\ Unvisited(d)
  /\ \/ failed \/ since # now
     \/ at # "sensor" /\ Automatic(d) /\ Says(hd_light, ~Target(d))

\* How often a lamp is switched at most before everything stands still.
Left(d) == (IF Outdated(d) THEN 1 ELSE 0)
           + (IF lit[d] = Target(d) THEN IF Astray(d) THEN 2 ELSE 0 ELSE 1)

WorldTypes ==
  /\ lit \in [DOMAIN Lamps -> BOOLEAN] /\ switched \in [DOMAIN Lamps -> Nat]
  /\ daylight \in Int /\ hd_lightRow \in Int /\ hd_light \in Int
  /\ faults \in Nat

\* The thresholds in use are those of the rows as soon as a period was read.
LimitsInv ==
  \/ light_on = On /\ light_off = Off
  \/ contextmodeldetail_res_vec = <<>> /\ op_name = "none"

\* A round that is not disturbed decides what the timetable says, and the command for a
\* lamp follows from that.
SendInv ==
  /\ at \in {"lamps", "operate"} /\ now = since /\ ~failed => Decided(op_name)
  /\ at = "operate" => i \in DOMAIN Lamps /\ \E mode : send = Order(Lamps[i], mode)

Budget == \A d \in DOMAIN Lamps : switched[d] + Left(d) <= 3 + 2 * faults

SteadyInv == WorldTypes /\ LimitsInv /\ SendInv /\ Budget

LEMMA DecidedOnce ==
  ASSUME NEW a, NEW b, Decided(a), Decided(b)
  PROVE  a = b
<1>1. CASE Valid = {}
  BY <1>1 DEF Decided
<1>2. CASE Valid # {}
  <2>1. PICK p \in Valid : /\ \A q \in Valid : p = q \/ Later(p, q)
                           /\ a = Models[p[1]].details[p[2]].ctrltype
    BY <1>2 DEF Decided
  <2>2. PICK q \in Valid : /\ \A r \in Valid : q = r \/ Later(q, r)
                           /\ b = Models[q[1]].details[q[2]].ctrltype
    BY <1>2 DEF Decided
  <2>3. p \in AllRows /\ q \in AllRows
    BY DEF Valid, InForce, AllRows
  <2>4. p[1] \in Int /\ p[2] \in Int /\ q[1] \in Int /\ q[2] \in Int
    BY <2>3, RowOf, AllModels, DetailRows
  <2>5. ~(Later(p, q) /\ Later(q, p))
    BY <2>4 DEF Later
  <2>6. p = q
    BY <2>1, <2>2, <2>5
  <2>7. QED
    BY <2>1, <2>2, <2>6
<1>3. QED
  BY <1>1, <1>2

\* Whatever the timetable says depends on the clock only.
LEMMA DecidedStays ==
  ASSUME now' = now
  PROVE  \A op : Decided(op)' <=> Decided(op)
<1>1. Valid' = Valid
  BY DEF Valid, InForce, Contains, Recognised, Slot, Day
<1>2. QED
  BY <1>1 DEF Decided, Later

\* Whoever decides to go by the thresholds has some, and they are those of every row.
LEMMA Thresholds ==
  ASSUME Hysteresis, Decided("auto")
  PROVE  On \in Int /\ Off \in Int /\ On + Glow <= Off /\ Glow \in Nat
<1>1. Valid # {}
  BY DEF Decided
<1>2. PICK p \in AllRows : TRUE
  BY <1>1 DEF Valid, InForce, AllRows
<1>3. p[1] \in DOMAIN Models /\ p[2] \in DOMAIN Models[p[1]].details
  BY RowOf
<1> DEFINE r == Models[p[1]].details[p[2]]
<1>4. r \in Rows
  BY <1>3, DetailRows
<1>5. r.light_on + Glow <= r.light_off /\ r.light_on = On /\ r.light_off = Off
  BY <1>3 DEF Hysteresis, On, Off
<1>6. r.light_on \in Int /\ r.light_off \in Int
  BY <1>4 DEF Rows
<1>7. QED
  BY <1>5, <1>6, LightingAssumption

LEMMA Directions ==
  ASSUME NEW d \in DOMAIN Lamps
  PROVE  /\ Final(d) \in BOOLEAN /\ Outdated(d) \in BOOLEAN /\ Target(d) \in BOOLEAN
         /\ Decided("on") => Final(d)
         /\ Decided("off") => ~Final(d)
         /\ Automatic(d) => (Final(d) <=> ~(daylight >= On))
<1>1. Decided("on") => ~Decided("off") /\ ~Decided("auto")
  BY DecidedOnce
<1>2. Decided("auto") => ~Decided("off")
  BY DecidedOnce
<1>3. /\ Final(d) \in BOOLEAN
      /\ Decided("on") => Final(d)
      /\ Decided("off") => ~Final(d)
      /\ Automatic(d) => (Final(d) <=> ~(daylight >= On))
  BY <1>1, <1>2 DEF Final, Automatic
<1>4. Outdated(d) \in BOOLEAN
  BY DEF Outdated, Automatic, Says, Decided
<1>5. QED
  BY <1>3, <1>4 DEF Target

LEMMA SaysOne ==
  ASSUME Hysteresis, Decided("auto"), NEW v \in Int, NEW on \in BOOLEAN, Says(v, on)
  PROVE  ~Says(v, ~on)
<1>1. On \in Int /\ Off \in Int /\ On <= Off
  BY Thresholds
<1>2. QED
  BY <1>1 DEF Says

\* The light that a poller measures now never says the opposite of what is right.
LEMMA FreshLight ==
  ASSUME Hysteresis, WorldTypes, NEW d \in DOMAIN Lamps, Automatic(d)
  PROVE  ~Says(Measured, ~Final(d))
<1>1. On \in Int /\ Off \in Int /\ On + Glow <= Off /\ Glow \in Nat
  BY Thresholds DEF Automatic
<1>2. daylight \in Int /\ Measured \in {daylight, daylight + Glow}
  BY DEF WorldTypes, Measured
<1>3. Final(d) <=> ~(daylight >= On)
  BY Directions
<1>4. CASE daylight >= On
  BY <1>1, <1>2, <1>3, <1>4 DEF Says
<1>5. CASE ~(daylight >= On)
  BY <1>1, <1>2, <1>3, <1>5 DEF Says
<1>6. QED
  BY <1>4, <1>5

LEMMA LeftRange ==
  ASSUME WorldTypes, NEW d \in DOMAIN Lamps
  PROVE  Left(d) \in 0 .. 3
<1>1. lit[d] \in BOOLEAN
  BY DEF WorldTypes
<1>2. QED
  BY <1>1 DEF Left

LEMMA SteadyInit == Init => SteadyInv
<1> SUFFICES ASSUME Init PROVE SteadyInv
  OBVIOUS
<1>1. daylight \in Nat /\ Glow \in Nat
  BY LightingAssumption DEF Init
<1>2. Measured \in Int
  BY <1>1 DEF Measured
<1>3. WorldTypes
  BY <1>1, <1>2 DEF Init, WorldTypes
<1>4. LimitsInv /\ SendInv
  BY DEF Init, LimitsInv, SendInv
<1>5. Budget
  <2> SUFFICES ASSUME NEW d \in DOMAIN Lamps PROVE switched[d] + Left(d) <= 3 + 2 * faults
    BY DEF Budget
  <2>1. Left(d) \in 0 .. 3 /\ switched[d] = 0 /\ faults = 0
    BY <1>3, LeftRange DEF Init
  <2>2. QED
    BY <2>1
<1>6. QED
  BY <1>3, <1>4, <1>5 DEF SteadyInv

LEMMA WorldTypesStep == WorldTypes /\ SendInv /\ [Next]_vars => WorldTypes'
<1> SUFFICES ASSUME WorldTypes, SendInv, [Next]_vars PROVE WorldTypes'
  OBVIOUS
<1> USE DEF WorldTypes, world, rows, room, loop, Quiet, Succeeds, QueryFails, Fault
<1>1. CASE Tick
  BY <1>1 DEF Tick, Unsettled
<1>2. CASE Change
  <2>1. /\ switched' \in [DOMAIN Lamps -> Nat] /\ UNCHANGED <<hd_lightRow, hd_light, faults>>
    BY <1>2 DEF Change, Unsettled
  <2>2. CASE daylight' \in Daylights /\ UNCHANGED lit
    BY <2>1, <2>2, LightingAssumption
  <2>3. CASE \E d \in DOMAIN Lamps : lit' = [lit EXCEPT ![d] = ~@] /\ UNCHANGED daylight
    BY <2>1, <2>3
  <2>4. QED
    BY <1>2, <2>2, <2>3 DEF Change
<1>3. CASE PollSensor
  <2>1. Measured \in Int
    BY LightingAssumption DEF Measured
  <2>2. QED
    BY <1>3, <2>1 DEF PollSensor
<1>4. ASSUME NEW d \in DOMAIN Lamps, PollMeter(d) PROVE WorldTypes'
  BY <1>4 DEF PollMeter
<1>5. CASE Round \/ Sensor
  BY <1>5 DEF Round, Sensor
<1>6. CASE WeekcycleInfo \/ CheckWeek
  BY <1>6 DEF WeekcycleInfo, CheckWeek
<1>7. CASE CheckTime \/ Look \/ RoundEnds
  BY <1>7 DEF CheckTime, Look, RoundEnds
<1>8. CASE Operate
  <2>1. i \in DOMAIN Lamps
    BY <1>8 DEF Operate, SendInv
  <2>2. UNCHANGED <<daylight, hd_lightRow, hd_light>> /\ faults' \in Nat
    BY <1>8 DEF Operate
  <2>3. lit' \in [DOMAIN Lamps -> BOOLEAN]
    BY <1>8, <2>1 DEF Operate
  <2>4. switched[i] \in Nat
    BY <2>1
  <2>5. switched' \in [DOMAIN Lamps -> Nat]
    BY <1>8, <2>1, <2>4 DEF Operate
  <2>6. QED
    BY <2>2, <2>3, <2>5
<1>9. CASE UNCHANGED vars
  BY <1>9 DEF vars
<1>10. QED
  BY <1>1, <1>2, <1>3, <1>4, <1>5, <1>6, <1>7, <1>8, <1>9 DEF Next, Thread

LEMMA LimitsStep == Hysteresis /\ TypeInv /\ LimitsInv /\ [Next]_vars => LimitsInv'
<1> SUFFICES ASSUME Hysteresis, ClockTypes, ReadTypes, LimitsInv, [Next]_vars PROVE LimitsInv'
  BY DEF TypeInv
<1>1. CASE UNCHANGED <<light_on, light_off, contextmodeldetail_res_vec, op_name>>
  BY <1>1 DEF LimitsInv, On, Off
<1>2. CASE Round
  BY <1>2 DEF Round, LimitsInv
<1>3. CASE CheckWeek
  <2>1. UNCHANGED op_name
    BY <1>3 DEF CheckWeek
  <2>2. CASE i <= Len(contextmodel_vec) /\ DetailInfo(contextmodel_vec[i])
    <3> DEFINE k == contextmodel_vec[i]
               details == Models[k].details
    <3>1. k \in DOMAIN Models
      BY <2>2, ModelAt
    <3>2. /\ DOMAIN details = 1 .. Len(details) /\ Len(details) \in Nat
          /\ details \in Seq(Rows)
      BY <3>1, DetailRows
    <3>3. CASE details = <<>>
      <4>1. UNCHANGED <<light_on, light_off>>
        BY <2>2, <3>3 DEF DetailInfo
      <4>2. PICK new \in Seq(Dated) :
              /\ contextmodeldetail_res_vec' = contextmodeldetail_res_vec \o new
              /\ DOMAIN new = DOMAIN details
        BY <2>2, <3>1, DetailRead DEF TypeInv
      <4>3. contextmodeldetail_res_vec = <<>> => contextmodeldetail_res_vec' = <<>>
        <5>1. new = <<>>
          BY <3>3, <4>2
        <5>2. QED
          BY <4>2, <5>1
      <4>4. QED
        BY <2>1, <4>1, <4>3 DEF LimitsInv, On, Off
    <3>4. CASE details # <<>>
      <4>1. Len(details) \in DOMAIN details
        BY <3>2, <3>4
      <4>2. /\ light_on' = details[Len(details)].light_on
            /\ light_off' = details[Len(details)].light_off
        BY <2>2, <3>4 DEF DetailInfo
      <4>3. light_on' = On /\ light_off' = Off
        BY <3>1, <4>1, <4>2 DEF Hysteresis, On, Off
      <4>4. QED
        BY <4>3 DEF LimitsInv, On, Off
    <3>5. QED
      BY <3>3, <3>4
  <2>3. i <= Len(contextmodel_vec) \/ i > Len(contextmodel_vec)
    BY LenProperties DEF ReadTypes, ClockTypes
  <2>4. QED
    BY <1>1, <1>3, <2>1, <2>2, <2>3 DEF CheckWeek
<1>4. CASE CheckTime
  <2>1. UNCHANGED <<light_on, light_off, contextmodeldetail_res_vec>>
    BY <1>4 DEF CheckTime
  <2>2. contextmodeldetail_res_vec = <<>> => UNCHANGED op_name
    BY <1>4 DEF CheckTime, ClockTypes
  <2>3. QED
    BY <2>1, <2>2 DEF LimitsInv, On, Off
<1>5. CASE Tick \/ Change \/ PollSensor \/ \E d \in DOMAIN Lamps : PollMeter(d)
  BY <1>1, <1>5 DEF Tick, Change, PollSensor, PollMeter, room
<1>6. CASE Sensor \/ WeekcycleInfo \/ Look
  BY <1>1, <1>6, Zenon DEF Sensor, WeekcycleInfo, Look, LimitsInv, On, Off
<1>7. CASE Operate \/ RoundEnds \/ UNCHANGED vars
  BY <1>1, <1>7 DEF Operate, RoundEnds, room, vars
<1>8. QED
  BY <1>2, <1>3, <1>4, <1>5, <1>6, <1>7 DEF Next, Thread

LEMMA SendStep == LightingInv /\ SendInv /\ [Next]_vars => SendInv'
<1> SUFFICES ASSUME LightingInv, SendInv, [Next]_vars PROVE SendInv'
  OBVIOUS
<1> USE DEF world, rows, room, loop, Quiet
<1>1. CASE Tick
  <2>1. ~(now' = since')
    BY <1>1 DEF Tick, LightingInv, TypeInv, ClockTypes
  <2>2. UNCHANGED <<room, loop>>
    BY <1>1 DEF Tick
  <2>3. QED
    BY <2>1, <2>2 DEF SendInv, Order
<1>2. CASE UNCHANGED <<now, room, loop>>
  <2>1. \A op : Decided(op)' <=> Decided(op)
    BY <1>2, DecidedStays
  <2>2. QED
    BY <1>2, <2>1 DEF SendInv, Order
<1>3. CASE Change \/ PollSensor \/ (\E d \in DOMAIN Lamps : PollMeter(d)) \/ UNCHANGED vars
  BY <1>2, <1>3 DEF Change, PollSensor, PollMeter, vars
<1>4. CASE at' \notin {"lamps", "operate"}
  BY <1>4 DEF SendInv
<1>5. CASE Round \/ Sensor \/ WeekcycleInfo \/ CheckWeek \/ RoundEnds
  BY <1>4, <1>5 DEF Round, Sensor, WeekcycleInfo, CheckWeek, RoundEnds
<1>6. CASE CheckTime
  <2>1. at = "time" /\ UNCHANGED <<now, since, failed>> /\ at' # "operate"
    BY <1>6 DEF CheckTime, Succeeds
  <2>2. CASE at' = "lamps"
    <3>1. UNCHANGED op_name
      BY <1>6, <2>1, <2>2 DEF CheckTime
    <3>2. now = since /\ ~failed => Decided(op_name)
      BY <1>6, <2>1, <2>2, RoundDecides DEF Next, Thread
    <3>3. QED
      BY <2>1, <2>2, <3>1, <3>2, DecidedStays DEF SendInv
  <2>3. QED
    BY <1>4, <2>1, <2>2
<1>7. CASE Look
  <2>1. /\ at = "lamps" /\ at' = "operate" /\ i \in DOMAIN Lamps
        /\ UNCHANGED <<now, since, op_name, i>> /\ (~failed' => ~failed)
    <3>1. Len(Lamps) \in Nat /\ DOMAIN Lamps = 1 .. Len(Lamps)
      BY LightingAssumption, LenProperties
    <3>2. QED
      BY <1>7, <3>1 DEF Look, Succeeds, QueryFails, LightingInv, TypeInv, ClockTypes
  <2>2. (\E mode : send = Order(Lamps[i], mode))'
    BY <1>7 DEF Look, Order
  <2>4. QED
    BY <2>1, <2>2, DecidedStays DEF SendInv
<1>8. CASE Operate
  <2>1. at = "operate" /\ at' = "lamps" /\ UNCHANGED <<now, since, failed, op_name>>
    BY <1>8 DEF Operate
  <2>2. QED
    BY <2>1, DecidedStays DEF SendInv
<1>9. QED
  BY <1>1, <1>3, <1>5, <1>6, <1>7, <1>8 DEF Next, Thread

\* The directions of a lamp change with the world and the row of the sensor only.
LEMMA DirectionsStay ==
  ASSUME UNCHANGED <<now, daylight>>, NEW d \in DOMAIN Lamps
  PROVE  /\ Automatic(d)' <=> Automatic(d)
         /\ Final(d)' = Final(d)
         /\ UNCHANGED hd_lightRow => Outdated(d)' = Outdated(d) /\ Target(d)' = Target(d)
<1>1. \A op : Decided(op)' <=> Decided(op)
  BY DecidedStays
<1>2. Automatic(d)' <=> Automatic(d)
  BY <1>1 DEF Automatic
<1>3. Final(d)' = Final(d)
  BY <1>1, <1>2 DEF Final, On
<1>4. UNCHANGED hd_lightRow => Outdated(d)' = Outdated(d)
  BY <1>2, <1>3 DEF Outdated, Says, On, Off
<1>5. QED
  BY <1>2, <1>3, <1>4 DEF Target

\* A step that switches nothing keeps the budget, if it sends no round astray; a failing
\* query pays for that.
LEMMA QuietBudget ==
  ASSUME WorldTypes, Budget, UNCHANGED <<now, daylight, lit, hd_lightRow, switched>>,
         \/ faults' = faults + 1
         \/ UNCHANGED faults /\ \A d \in DOMAIN Lamps : Astray(d)' => Astray(d)
  PROVE  Budget'
<1> SUFFICES ASSUME NEW d \in DOMAIN Lamps
             PROVE  switched'[d] + Left(d)' <= 3 + 2 * faults'
  BY DEF Budget
<1>1. Outdated(d)' = Outdated(d) /\ Target(d)' = Target(d)
  BY DirectionsStay
<1>2. /\ switched[d] + Left(d) <= 3 + 2 * faults
      /\ switched[d] \in Nat /\ Left(d) \in 0 .. 3 /\ faults \in Nat
  BY LeftRange DEF Budget, WorldTypes
<1>3. CASE faults' = faults + 1
  <2>1. Left(d)' \in Int /\ Left(d)' <= Left(d) + 2
    BY <1>1 DEF Left
  <2>2. QED
    BY <1>2, <1>3, <2>1
<1>4. CASE UNCHANGED faults /\ (Astray(d)' => Astray(d))
  <2>1. Left(d)' \in Int /\ Left(d)' <= Left(d)
    BY <1>1, <1>4 DEF Left
  <2>2. QED
    BY <1>2, <1>4, <2>1
<1>5. QED
  BY <1>3, <1>4

\* Once it has asked the sensor, a round does not go astray by itself.
LEMMA AstrayFewer ==
  ASSUME UNCHANGED <<now, daylight, hd_lightRow, since, failed, hd_light>>, at # "sensor",
         NEW d \in DOMAIN Lamps, Unvisited(d)' => Unvisited(d)
  PROVE  Astray(d)' => Astray(d)
<1>1. (Automatic(d)' <=> Automatic(d)) /\ Target(d)' = Target(d)
  BY DirectionsStay
<1>2. QED
  BY <1>1 DEF Astray, Says, On, Off

\* The world changes: a new count.
LEMMA UnsettledBudget ==
  ASSUME WorldTypes', Unsettled
  PROVE  Budget'
<1> SUFFICES ASSUME NEW d \in DOMAIN Lamps
             PROVE  switched'[d] + Left(d)' <= 3 + 2 * faults'
  BY DEF Budget
<1>1. lit'[d] \in BOOLEAN /\ faults' \in Nat /\ switched'[d] = 0
  BY DEF WorldTypes, Unsettled
<1>2. Left(d)' \in 0 .. 3
  BY <1>1 DEF Left
<1>3. QED
  BY <1>1, <1>2

\* The sensor is polled: its row is right from now on, but rounds that went by the old
\* row may be under way.
LEMMA PollSensorBudget ==
  ASSUME Hysteresis, WorldTypes, Budget, PollSensor
  PROVE  Budget'
<1> SUFFICES ASSUME NEW d \in DOMAIN Lamps
             PROVE  switched'[d] + Left(d)' <= 3 + 2 * faults'
  BY DEF Budget
<1>1. /\ UNCHANGED <<now, daylight, lit, at, i, since, failed, hd_light, switched, faults>>
      /\ hd_lightRow' = Measured
  BY DEF PollSensor, world, loop, room
<1>2. (Automatic(d)' <=> Automatic(d)) /\ Final(d)' = Final(d)
  BY <1>1, DirectionsStay
<1>3. ~Outdated(d)' /\ Target(d)' = Final(d)
  <2>1. Automatic(d) => ~Says(Measured, ~Final(d))
    BY FreshLight
  <2>2. Says(hd_lightRow, ~Final(d))' <=> Says(Measured, ~Final(d))
    BY <1>1, <1>2 DEF Says, On, Off
  <2>3. ~Outdated(d)'
    BY <1>2, <2>1, <2>2 DEF Outdated
  <2>4. QED
    BY <1>2, <2>3 DEF Target
<1>4. Unvisited(d)' <=> Unvisited(d)
  BY <1>1 DEF Unvisited
<1>5. /\ switched[d] + Left(d) <= 3 + 2 * faults
      /\ switched[d] \in Nat /\ Left(d) \in 0 .. 3 /\ faults \in Nat
      /\ lit[d] \in BOOLEAN /\ Final(d) \in BOOLEAN
  BY LeftRange, Directions DEF Budget, WorldTypes
<1>6. Left(d)' \in Int /\ Left(d)' <= Left(d)
  <2>1. CASE Outdated(d)
    <3>1. Target(d) = ~Final(d)
      BY <2>1 DEF Target
    <3>2. CASE lit[d] = Final(d)
      <4>1. Left(d) = 2 /\ Left(d)' \in 0 .. 2
        BY <1>1, <1>3, <1>5, <2>1, <3>1, <3>2 DEF Left
      <4>2. QED
        BY <4>1
    <3>3. CASE lit[d] # Final(d)
      <4>1. Left(d)' = 1 /\ Left(d) \in {1, 3}
        BY <1>1, <1>3, <1>5, <2>1, <3>1, <3>3 DEF Left
      <4>2. QED
        BY <4>1
    <3>4. QED
      BY <3>2, <3>3
  <2>2. CASE ~Outdated(d)
    <3>1. Target(d)' = Target(d)
      BY <1>3, <2>2 DEF Target
    <3>2. Astray(d)' <=> Astray(d)
      BY <1>1, <1>2, <1>4, <3>1 DEF Astray, Says, On, Off
    <3>3. Left(d)' = Left(d)
      BY <1>1, <1>3, <2>2, <3>1, <3>2 DEF Left
    <3>4. QED
      BY <1>5, <3>3
  <2>3. QED
    BY <2>1, <2>2
<1>7. QED
  BY <1>1, <1>5, <1>6

\* A round that is not astray commands a lamp as it is to be.
LEMMA SendRight ==
  ASSUME LimitsInv, SendInv, at = "operate", send # "none", i \in Int, ~Astray(i)
  PROVE  send \in {"on", "off"} /\ (send = "on" <=> Target(i))
<1>1. i \in DOMAIN Lamps /\ \E mode : send = Order(Lamps[i], mode)
  BY DEF SendInv
<1>2. PICK mode : send = Order(Lamps[i], mode)
  BY <1>1
<1>3. Unvisited(i)
  BY DEF Unvisited
<1>4. Decided(op_name)
  BY <1>3 DEF Astray, SendInv
<1>5. Automatic(i) => ~Says(hd_light, ~Target(i))
  BY <1>3 DEF Astray
<1>6. /\ Final(i) \in BOOLEAN /\ Target(i) \in BOOLEAN
      /\ Decided("on") => Final(i)
      /\ Decided("off") => ~Final(i)
  BY <1>1, Directions
<1>7. \/ send = "on" /\ op_name = "on"
      \/ send = "off" /\ op_name = "off"
      \/ send = "on" /\ op_name = "auto" /\ Lamps[i] = "1000" /\ hd_light < light_on
      \/ send = "off" /\ op_name = "auto" /\ Lamps[i] = "1000" /\ hd_light > light_off
  BY <1>2 DEF Order
<1>8. light_on = On /\ light_off = Off
  BY <1>7 DEF LimitsInv
<1>9. op_name # "auto" => Target(i) = Final(i)
  <2>1. op_name # "auto" => ~Decided("auto")
    BY <1>4, DecidedOnce
  <2>2. QED
    BY <2>1 DEF Target, Outdated, Automatic
<1>10. CASE op_name # "auto"
  BY <1>4, <1>6, <1>7, <1>9, <1>10
<1>11. CASE op_name = "auto"
  <2>1. Automatic(i)
    BY <1>4, <1>7, <1>11 DEF Automatic
  <2>2. \/ send = "on" /\ Says(hd_light, TRUE)
        \/ send = "off" /\ Says(hd_light, FALSE)
    BY <1>7, <1>8, <1>11 DEF Says
  <2>3. Target(i) => ~Says(hd_light, FALSE)
    BY <1>5, <2>1
  <2>4. ~Target(i) => ~Says(hd_light, TRUE)
    BY <1>5, <2>1
  <2>5. QED
    BY <1>6, <2>2, <2>3, <2>4
<1>12. QED
  BY <1>10, <1>11

LEMMA OperateBudget ==
  ASSUME ClockTypes, WorldTypes, LimitsInv, SendInv, Budget, Operate
  PROVE  Budget'
<1>1. /\ at = "operate" /\ at' = "lamps" /\ i' = i + 1 /\ i \in DOMAIN Lamps /\ i \in Nat
      /\ DOMAIN Lamps \subseteq Nat
      /\ UNCHANGED <<now, daylight, hd_lightRow, since, failed, hd_light>>
  <2>1. DOMAIN Lamps = 1 .. Len(Lamps) /\ Len(Lamps) \in Nat
    BY LightingAssumption, LenProperties
  <2>2. QED
    BY <2>1 DEF Operate, SendInv, ClockTypes, rows, room
<1>2. \A d \in DOMAIN Lamps : (Unvisited(d)' => Unvisited(d)) /\ (d = i => ~Unvisited(d)')
  BY <1>1 DEF Unvisited
<1>3. \A d \in DOMAIN Lamps : Astray(d)' => Astray(d)
  BY <1>1, <1>2, AstrayFewer
<1>4. CASE UNCHANGED <<lit, switched>>
  <2>1. faults' = faults + 1 \/ UNCHANGED faults
    BY <1>4 DEF Operate, Fault
  <2>2. QED
    BY <1>1, <1>3, <1>4, <2>1, QuietBudget
<1>5. CASE /\ send # "none" /\ UNCHANGED faults
           /\ lit' = [lit EXCEPT ![i] = (send = "on")]
           /\ switched' = [switched EXCEPT ![i] = IF lit'[i] = lit[i] THEN @ ELSE @ + 1]
  <2> SUFFICES ASSUME NEW d \in DOMAIN Lamps
               PROVE  switched'[d] + Left(d)' <= 3 + 2 * faults'
    BY DEF Budget
  <2>1. /\ switched[d] + Left(d) <= 3 + 2 * faults
        /\ switched[d] \in Nat /\ Left(d) \in 0 .. 3 /\ faults \in Nat
        /\ lit[d] \in BOOLEAN /\ lit[i] \in BOOLEAN
    BY <1>1, LeftRange DEF Budget, WorldTypes
  <2>2. Outdated(d)' = Outdated(d) /\ Target(d)' = Target(d) /\ Target(d) \in BOOLEAN
    BY <1>1, DirectionsStay, Directions
  <2>3. CASE d # i
    <3>1. lit'[d] = lit[d] /\ switched'[d] = switched[d]
      BY <1>5, <2>3 DEF WorldTypes
    <3>2. Left(d)' \in Int /\ Left(d)' <= Left(d)
      BY <1>3, <2>2, <3>1 DEF Left
    <3>3. QED
      BY <1>5, <2>1, <3>1, <3>2
  <2>4. CASE d = i
    <3>1. /\ lit'[d] = (send = "on")
          /\ switched'[d] = IF lit'[d] = lit[d] THEN switched[d] ELSE switched[d] + 1
      BY <1>5, <2>4 DEF WorldTypes
    <3>2. ~Astray(d)'
      BY <1>2, <2>4 DEF Astray
    <3>3. CASE lit'[d] = Target(d)
      <4>1. Left(d)' = IF Outdated(d) THEN 1 ELSE 0
        BY <2>2, <3>2, <3>3 DEF Left
      <4>2. Left(d) >= Left(d)' + IF lit'[d] = lit[d] THEN 0 ELSE 1
        BY <2>1, <2>2, <3>3, <4>1 DEF Left
      <4>3. QED
        BY <1>5, <2>1, <3>1, <4>1, <4>2
    <3>4. CASE lit'[d] # Target(d)
      <4>1. Astray(d)
        <5>1. ~Astray(i) => (send = "on" <=> Target(i))
          BY <1>1, <1>5, SendRight
        <5>2. QED
          BY <2>2, <2>4, <3>1, <3>4, <5>1
      <4>2. Left(d)' = 1 + IF Outdated(d) THEN 1 ELSE 0
        BY <2>2, <3>4 DEF Left
      <4>3. Left(d) = Left(d)' + IF lit'[d] = lit[d] THEN 0 ELSE 1
        BY <2>1, <2>2, <3>1, <3>4, <4>1, <4>2 DEF Left
      <4>4. QED
        BY <1>5, <2>1, <3>1, <4>2, <4>3
    <3>5. QED
      BY <3>3, <3>4
  <2>5. QED
    BY <2>3, <2>4
<1>6. QED
  BY <1>4, <1>5 DEF Operate

LEMMA BudgetStep ==
  Hysteresis /\ TypeInv /\ SteadyInv /\ WorldTypes' /\ [Next]_vars => Budget'
<1> SUFFICES ASSUME Hysteresis, ClockTypes, WorldTypes, LimitsInv, SendInv, Budget,
                    WorldTypes', [Next]_vars
             PROVE  Budget'
  BY DEF TypeInv, SteadyInv
<1>1. CASE Tick \/ Change
  BY <1>1, UnsettledBudget DEF Tick, Change
<1>2. CASE PollSensor
  BY <1>2, PollSensorBudget
<1>3. CASE Operate
  BY <1>3, OperateBudget
<1>4. ASSUME UNCHANGED <<world, rows, room, loop, switched, faults>> PROVE Budget'
  <2>1. UNCHANGED <<now, daylight, lit, hd_lightRow, switched, faults, at, i, since, failed,
                    hd_light>>
    BY <1>4 DEF world, rows, room, loop
  <2>2. ASSUME NEW d \in DOMAIN Lamps PROVE Astray(d)' => Astray(d)
    <3>1. (Automatic(d)' <=> Automatic(d)) /\ Target(d)' = Target(d)
      BY <2>1, DirectionsStay
    <3>2. QED
      BY <2>1, <3>1 DEF Astray, Unvisited, Says, On, Off
  <2>3. QED
    BY <2>1, <2>2, QuietBudget
<1>5. CASE UNCHANGED vars
  BY <1>4, <1>5 DEF vars
<1>6. ASSUME NEW e \in DOMAIN Lamps, PollMeter(e) PROVE Budget'
  <2>1. UNCHANGED <<now, daylight, lit, hd_lightRow, switched, faults, at, i, since, failed,
                    hd_light>>
    BY <1>6 DEF PollMeter, world, room, loop
  <2>2. ASSUME NEW d \in DOMAIN Lamps PROVE Astray(d)' => Astray(d)
    <3>1. (Automatic(d)' <=> Automatic(d)) /\ Target(d)' = Target(d)
      BY <2>1, DirectionsStay
    <3>2. QED
      BY <2>1, <3>1 DEF Astray, Unvisited, Says, On, Off
  <2>3. QED
    BY <2>1, <2>2, QuietBudget
<1>7. ASSUME Quiet,
             \/ QueryFails
             \/ UNCHANGED faults /\ \A d \in DOMAIN Lamps : Astray(d)' => Astray(d)
      PROVE  Budget'
  <2>1. UNCHANGED <<now, daylight, lit, hd_lightRow, switched>>
    BY <1>7 DEF Quiet, world, rows
  <2>2. QED
    BY <1>7, <2>1, QuietBudget DEF QueryFails, Fault
<1>8. CASE Round
  <2>1. \/ QueryFails
        \/ UNCHANGED faults /\ at' \in {"round", "sensor"} /\ ~failed' /\ since' = now'
    BY <1>8 DEF Round, Quiet, world
  <2>2. \/ QueryFails
        \/ UNCHANGED faults /\ \A d \in DOMAIN Lamps : ~Astray(d)'
    BY <2>1 DEF Astray, Unvisited
  <2>3. QED
    BY <1>7, <1>8, <2>2 DEF Round
<1>9. CASE RoundEnds
  <2>1. \A d \in DOMAIN Lamps : ~Astray(d)'
    BY <1>9 DEF RoundEnds, Astray, Unvisited
  <2>2. QED
    BY <1>7, <1>9, <2>1 DEF RoundEnds
<1>10. CASE Sensor
  <2>1. ASSUME hd_light' = hd_lightRow, Succeeds, NEW d \in DOMAIN Lamps
        PROVE  Astray(d)' => Astray(d)
    <3>1. /\ at = "sensor" /\ UNCHANGED <<now, daylight, hd_lightRow, since, failed>>
      BY <1>10, <2>1 DEF Sensor, Succeeds, Quiet, world, rows
    <3>2. (Automatic(d)' <=> Automatic(d)) /\ Target(d)' = Target(d)
      BY <3>1, DirectionsStay
    <3>3. hd_lightRow \in Int /\ Final(d) \in BOOLEAN
      BY Directions DEF WorldTypes
    <3>4. Automatic(d) => ~Says(hd_lightRow, ~Target(d))
      <4>1. CASE Outdated(d)
        <5>1. Target(d) = ~Final(d) /\ Says(hd_lightRow, ~Final(d))
          BY <4>1 DEF Target, Outdated
        <5>2. ASSUME Automatic(d) PROVE ~Says(hd_lightRow, ~(~Final(d)))
          <6>1. (~Final(d)) \in BOOLEAN /\ Decided("auto")
            BY <3>3, <5>2 DEF Automatic
          <6>2. QED
            BY <3>3, <5>1, <6>1, SaysOne
        <5>3. QED
          BY <5>1, <5>2
      <4>2. CASE ~Outdated(d)
        BY <4>2 DEF Target, Outdated
      <4>3. QED
        BY <4>1, <4>2
    <3>5. Says(hd_light, ~Target(d))' <=> Says(hd_lightRow, ~Target(d))
      BY <2>1, <3>2 DEF Says, On, Off
    <3>6. Astray(d)' => failed \/ since # now
      BY <3>1, <3>2, <3>4, <3>5 DEF Astray
    <3>7. QED
      BY <3>1, <3>6 DEF Astray, Unvisited
  <2>2. QED
    BY <1>7, <1>10, <2>1 DEF Sensor, Succeeds
<1>11. CASE WeekcycleInfo \/ CheckWeek \/ CheckTime \/ Look
  <2>1. /\ Quiet /\ at # "sensor" /\ UNCHANGED <<since, hd_light>>
        /\ QueryFails \/ Succeeds
    BY <1>11 DEF WeekcycleInfo, CheckWeek, CheckTime, Look
  <2>2. \A d \in DOMAIN Lamps : Unvisited(d)' => Unvisited(d)
    BY <1>11 DEF WeekcycleInfo, CheckWeek, CheckTime, Look, Unvisited
  <2>3. Succeeds => \A d \in DOMAIN Lamps : Astray(d)' => Astray(d)
    BY <2>1, <2>2, AstrayFewer DEF Succeeds, Quiet, world, rows
  <2>4. QED
    BY <1>7, <2>1, <2>3 DEF Succeeds
<1>12. QED
  BY <1>1, <1>2, <1>3, <1>5, <1>6, <1>8, <1>9, <1>10, <1>11 DEF Next, Thread

\* Under hysteresis, no lamp is switched more often than thrice while the world leaves it
\* alone, and twice more for each failing query: a round decided before, an outdated row
\* of the sensor, and what is right.
THEOREM NoFlickerHolds == Spec => []NoFlicker
<1> DEFINE Steady == Hysteresis => SteadyInv
<1>1. Init => Steady
  BY SteadyInit
<1>2. LightingInv /\ Steady /\ [Next]_vars => Steady'
  <2> SUFFICES ASSUME LightingInv, Hysteresis, SteadyInv, [Next]_vars PROVE SteadyInv'
    BY DEF Hysteresis
  <2>1. TypeInv /\ WorldTypes /\ LimitsInv /\ SendInv
    BY DEF LightingInv, SteadyInv
  <2>2. WorldTypes' /\ LimitsInv' /\ SendInv'
    BY <2>1, WorldTypesStep, LimitsStep, SendStep
  <2>3. Budget'
    BY <2>1, <2>2, BudgetStep
  <2>4. QED
    BY <2>2, <2>3 DEF SteadyInv
<1>3. Steady => NoFlicker
  <2> SUFFICES ASSUME SteadyInv, NEW d \in DOMAIN Lamps PROVE switched[d] <= 3 + 2 * faults
    BY DEF NoFlicker
  <2>1. /\ switched[d] + Left(d) <= 3 + 2 * faults
        /\ switched[d] \in Nat /\ Left(d) \in 0 .. 3 /\ faults \in Nat
    BY LeftRange DEF SteadyInv, Budget, WorldTypes
  <2>2. QED
    BY <2>1
<1>4. QED
  BY <1>1, <1>2, <1>3, LightingInvariance, PTL DEF Spec
==============================================================================
