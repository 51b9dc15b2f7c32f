--------------------------- MODULE RoomControlProofs ---------------------------
(* Theorems about RoomControl for every house: any rooms, devices, rules,    *)
(* timetables and sensors, and any number of changes and of failures.        *)
EXTENDS RoomControl, TLAPS

------------------------------------------------------------------------------
(* What the thread knows at each stage of a visit                            *)

\* A timetable in use has no lesson now.
Idle(r) == \E k \in Kinds : table[r][k].used /\ table[r][k].now # "lesson"

Study == {"count", "rules", "switch", "sense"}
Early == {"update", "temporary", "temporary_study", "temporary_lesson",
          "normal", "normal_study", "normal_lesson"}

\* Which branch the thread is in, whatever fails: it leaves "lesson" only with an answer
\* that says so.
BranchInv ==
  /\ steady \in BOOLEAN /\ failed \in BOOLEAN
  /\ at \in Early => why = "lesson"
  /\ at \in Study => why = "study"
  /\ steady /\ at \in {"temporary_study", "temporary_lesson"} => table[room]["temporary"].used
  /\ steady /\ at \in {"normal_study", "normal_lesson"} => table[room]["normal"].used
  /\ steady /\ why # "lesson" /\ at \in Study \cup {"devices", "command"} => Idle(room)

\* What the thread has read is true as long as every query is answered and nothing changes.
AnswerInv ==
  steady /\ ~failed =>
    /\ at \in {"normal", "normal_study", "normal_lesson"} => ~table[room]["temporary"].used
    /\ at \in Study => InForce(room) = "self_study"
    /\ at = "rules" => pcount_num = people[room]
    /\ at = "switch" => \A x \in offs : x \in Rules[room] /\ x.limit >= people[room]
    /\ at \in {"devices", "command"} =>
         /\ why = "free" => InForce(room) = "free"
         /\ why = "study" => InForce(room) = "self_study" /\ ~Somebody(room)

\* What is about to be sent.
CommandInv ==
  at = "command" =>
    /\ why \in {"lesson", "free", "study"}
    /\ why = "lesson" => command \in {"none", "led_clear"}
    /\ command = "ir" /\ harddevice_list[i] \in coded \ refused =>
         airckz = harddevice_list[i]

\* Where the code in airckz comes from.
CodeInv ==
  /\ i \in Nat \ {0}
  /\ at \in Early \cup Study => airckz = None
  /\ at \in {"devices", "command"} /\ airckz # None =>
       airckz \in coded /\ \E k \in 1 .. i : airckz = harddevice_list[k]

RoomInv == BranchInv /\ AnswerInv /\ CommandInv /\ CodeInv

LEMMA RoomInit == Init => RoomInv
<1> SUFFICES ASSUME Init PROVE RoomInv
  OBVIOUS
<1>1. /\ at = "round" /\ why = "lesson" /\ i = 1 /\ airckz = None
      /\ steady = TRUE /\ failed = FALSE
  BY DEF Init
<1>2. BranchInv /\ AnswerInv /\ CommandInv
  BY <1>1 DEF BranchInv, AnswerInv, CommandInv, Early, Study
<1>3. CodeInv
  BY <1>1 DEF CodeInv, Early, Study
<1>4. QED
  BY <1>2, <1>3 DEF RoomInv

\* People who use the switches and pollers that store rows do not touch what the thread
\* knows.
LEMMA Bystanders ==
  ASSUME NEW d \in Hddevices, Toggle(d) \/ Poll(d)
  PROVE  UNCHANGED <<world, at, todo, room, fields, history>>
<1>1. CASE Toggle(d)
  BY <1>1 DEF Toggle, history
<1>2. CASE Poll(d)
  BY <1>2 DEF Poll, history
<1>3. QED
  BY <1>1, <1>2

LEMMA BranchStep ==
  ASSUME BranchInv, [Next]_vars
  PROVE  BranchInv'
<1> USE DEF BranchInv, Early, Study, Idle, Kinds, world, devices, fields, status, history
<1>1. CASE Change
  BY <1>1 DEF Change
<1>2. CASE Round
  BY <1>2 DEF Round, Fault
<1>3. CASE RoundEnds
  BY <1>3 DEF RoundEnds
<1>4. CASE Visit
  BY <1>4 DEF Visit, HdidInfo, NewRoominfo, QueryFails, Fault
<1>5. CASE UpdateAirc
  BY <1>5 DEF UpdateAirc, Succeeds, QueryFails, Fault
<1>6. CASE TemporaryIsused
  BY <1>6 DEF TemporaryIsused, Ask, QuietFlags, QuietAsk, Succeeds, QueryFails, Fault
<1>7. CASE TemporarySelfStudy
  BY <1>7 DEF TemporarySelfStudy, SelfStudy, Ask, QuietWhy, QuietAsk, Succeeds, QueryFails, Fault
<1>8. CASE TemporaryLesson
  BY <1>8 DEF TemporaryLesson, NoLesson, QuietWhy, QuietAsk, Succeeds, QueryFails, Fault
<1>9. CASE NormalIsused
  BY <1>9 DEF NormalIsused, Ask, QuietFlags, QuietAsk, Succeeds, QueryFails, Fault
<1>10. CASE NormalSelfStudy
  BY <1>10 DEF NormalSelfStudy, SelfStudy, Ask, QuietWhy, QuietAsk, Succeeds, QueryFails, Fault
<1>11. CASE NormalLesson
  BY <1>11 DEF NormalLesson, NoLesson, QuietWhy, QuietAsk, Succeeds, QueryFails, Fault
<1>12. CASE Look
  BY <1>12 DEF Look, QueryRefused, Succeeds, QueryFails, Fault
<1>13. CASE Skip
  BY <1>13 DEF Skip
<1>14. CASE Operate
  BY <1>14 DEF Operate, Command, AirObj, RelayObj, PermissionLedObj
<1>15. CASE CountPeople
  BY <1>15 DEF CountPeople, QuietAsk, Succeeds, QueryFails, Fault
<1>16. CASE SelectRules
  BY <1>16 DEF SelectRules, QuietAsk, Succeeds, QueryFails, Fault
<1>17. CASE SwitchOff
  BY <1>17 DEF SwitchOff, SwitchObj
<1>18. CASE Sense
  BY <1>18 DEF Sense, QuietFlags, QuietAsk, Succeeds, QueryFails, Fault
<1>19. ASSUME NEW d \in Hddevices, Toggle(d) \/ Poll(d) PROVE BranchInv'
  BY <1>19, Bystanders
<1>20. CASE UNCHANGED vars
  BY <1>20 DEF vars
<1>21. QED
  BY <1>1, <1>2, <1>3, <1>4, <1>5, <1>6, <1>7, <1>8, <1>9, <1>10, <1>11, <1>12,
     <1>13, <1>14, <1>15, <1>16, <1>17, <1>18, <1>19, <1>20 DEF Next, Thread

LEMMA AnswerStep ==
  ASSUME BranchInv, AnswerInv, [Next]_vars
  PROVE  AnswerInv'
<1> USE DEF BranchInv, AnswerInv, Early, Study, InForce, Somebody, OfType, InRoom,
           world, devices, fields, status, history
<1>1. CASE Change
  BY <1>1 DEF Change
<1>2. CASE Round
  BY <1>2 DEF Round, Fault
<1>3. CASE RoundEnds
  BY <1>3 DEF RoundEnds
<1>4. CASE Visit
  BY <1>4 DEF Visit, HdidInfo, NewRoominfo, QueryFails, Fault
<1>5. CASE UpdateAirc
  BY <1>5 DEF UpdateAirc, Succeeds, QueryFails, Fault
<1>6. CASE TemporaryIsused
  BY <1>6 DEF TemporaryIsused, Ask, QuietFlags, QuietAsk, Succeeds, QueryFails, Fault
<1>7. CASE TemporarySelfStudy
  BY <1>7 DEF TemporarySelfStudy, SelfStudy, Ask, QuietWhy, QuietAsk, Succeeds, QueryFails, Fault
<1>8. CASE TemporaryLesson
  BY <1>8 DEF TemporaryLesson, NoLesson, QuietWhy, QuietAsk, Succeeds, QueryFails, Fault
<1>9. CASE NormalIsused
  BY <1>9 DEF NormalIsused, Ask, QuietFlags, QuietAsk, Succeeds, QueryFails, Fault
<1>10. CASE NormalSelfStudy
  BY <1>10 DEF NormalSelfStudy, SelfStudy, Ask, QuietWhy, QuietAsk, Succeeds, QueryFails, Fault
<1>11. CASE NormalLesson
  BY <1>11 DEF NormalLesson, NoLesson, QuietWhy, QuietAsk, Succeeds, QueryFails, Fault
<1>12. CASE Look
  BY <1>12 DEF Look, QueryRefused, Succeeds, QueryFails, Fault
<1>13. CASE Skip
  BY <1>13 DEF Skip
<1>14. CASE Operate
  BY <1>14 DEF Operate, Command, AirObj, RelayObj, PermissionLedObj
<1>15. CASE CountPeople
  BY <1>15 DEF CountPeople, QuietAsk, Succeeds, QueryFails, Fault
<1>16. CASE SelectRules
  BY <1>16 DEF SelectRules, QuietAsk, Succeeds, QueryFails, Fault
<1>17. CASE SwitchOff
  BY <1>17 DEF SwitchOff, SwitchObj
<1>18. CASE Sense
  BY <1>18 DEF Sense, QuietFlags, QuietAsk, Succeeds, QueryFails, Fault
<1>19. ASSUME NEW d \in Hddevices, Toggle(d) \/ Poll(d) PROVE AnswerInv'
  BY <1>19, Bystanders
<1>20. CASE UNCHANGED vars
  BY <1>20 DEF vars
<1>21. QED
  BY <1>1, <1>2, <1>3, <1>4, <1>5, <1>6, <1>7, <1>8, <1>9, <1>10, <1>11, <1>12,
     <1>13, <1>14, <1>15, <1>16, <1>17, <1>18, <1>19, <1>20 DEF Next, Thread

LEMMA CommandStep ==
  ASSUME BranchInv, CommandInv, [Next]_vars
  PROVE  CommandInv'
<1> USE DEF BranchInv, CommandInv, Early, Study, world, devices, fields, status, history
<1>1. CASE Change
  BY <1>1 DEF Change
<1>2. CASE Round
  BY <1>2 DEF Round, Fault
<1>3. CASE RoundEnds
  BY <1>3 DEF RoundEnds
<1>4. CASE Visit
  BY <1>4 DEF Visit, HdidInfo, NewRoominfo, QueryFails, Fault
<1>5. CASE UpdateAirc
  BY <1>5 DEF UpdateAirc, Succeeds, QueryFails, Fault
<1>6. CASE TemporaryIsused
  BY <1>6 DEF TemporaryIsused, Ask, QuietFlags, QuietAsk, Succeeds, QueryFails, Fault
<1>7. CASE TemporarySelfStudy
  BY <1>7 DEF TemporarySelfStudy, SelfStudy, Ask, QuietWhy, QuietAsk, Succeeds, QueryFails, Fault
<1>8. CASE TemporaryLesson
  BY <1>8 DEF TemporaryLesson, NoLesson, QuietWhy, QuietAsk, Succeeds, QueryFails, Fault
<1>9. CASE NormalIsused
  BY <1>9 DEF NormalIsused, Ask, QuietFlags, QuietAsk, Succeeds, QueryFails, Fault
<1>10. CASE NormalSelfStudy
  BY <1>10 DEF NormalSelfStudy, SelfStudy, Ask, QuietWhy, QuietAsk, Succeeds, QueryFails, Fault
<1>11. CASE NormalLesson
  BY <1>11 DEF NormalLesson, NoLesson, QuietWhy, QuietAsk, Succeeds, QueryFails, Fault
<1>12. CASE Look
  BY <1>12 DEF Look, QueryRefused, Succeeds, QueryFails, Fault, Concerned, OpHddeviceList,
     JnkzShutdown, LookAir, LookRelay, LookSwitch, Choose, air, switch, relay
<1>13. CASE Skip
  BY <1>13 DEF Skip
<1>14. CASE Operate
  BY <1>14 DEF Operate, Command, AirObj, RelayObj, PermissionLedObj
<1>15. CASE CountPeople
  BY <1>15 DEF CountPeople, QuietAsk, Succeeds, QueryFails, Fault
<1>16. CASE SelectRules
  BY <1>16 DEF SelectRules, QuietAsk, Succeeds, QueryFails, Fault
<1>17. CASE SwitchOff
  BY <1>17 DEF SwitchOff, SwitchObj
<1>18. CASE Sense
  BY <1>18 DEF Sense, QuietFlags, QuietAsk, Succeeds, QueryFails, Fault
<1>19. ASSUME NEW d \in Hddevices, Toggle(d) \/ Poll(d) PROVE CommandInv'
  BY <1>19, Bystanders
<1>20. CASE UNCHANGED vars
  BY <1>20 DEF vars
<1>21. QED
  BY <1>1, <1>2, <1>3, <1>4, <1>5, <1>6, <1>7, <1>8, <1>9, <1>10, <1>11, <1>12,
     <1>13, <1>14, <1>15, <1>16, <1>17, <1>18, <1>19, <1>20 DEF Next, Thread

LEMMA CodeStep ==
  ASSUME CodeInv, [Next]_vars
  PROVE  CodeInv'
<1> USE DEF CodeInv, Early, Study, world, devices, fields, status, history
<1>1. CASE Change
  BY <1>1 DEF Change
<1>2. CASE Round
  BY <1>2 DEF Round, Fault
<1>3. CASE RoundEnds
  BY <1>3 DEF RoundEnds
<1>4. CASE Visit
  BY <1>4 DEF Visit, HdidInfo, NewRoominfo, QueryFails, Fault
<1>5. CASE UpdateAirc
  BY <1>5 DEF UpdateAirc, Succeeds, QueryFails, Fault
<1>6. CASE TemporaryIsused
  BY <1>6 DEF TemporaryIsused, Ask, QuietFlags, QuietAsk, Succeeds, QueryFails, Fault
<1>7. CASE TemporarySelfStudy
  BY <1>7 DEF TemporarySelfStudy, SelfStudy, Ask, QuietWhy, QuietAsk, Succeeds, QueryFails, Fault
<1>8. CASE TemporaryLesson
  BY <1>8 DEF TemporaryLesson, NoLesson, QuietWhy, QuietAsk, Succeeds, QueryFails, Fault
<1>9. CASE NormalIsused
  BY <1>9 DEF NormalIsused, Ask, QuietFlags, QuietAsk, Succeeds, QueryFails, Fault
<1>10. CASE NormalSelfStudy
  BY <1>10 DEF NormalSelfStudy, SelfStudy, Ask, QuietWhy, QuietAsk, Succeeds, QueryFails, Fault
<1>11. CASE NormalLesson
  BY <1>11 DEF NormalLesson, NoLesson, QuietWhy, QuietAsk, Succeeds, QueryFails, Fault
<1>12. CASE Look
  <2>1. /\ at = "devices" /\ UNCHANGED <<i, harddevice_list, coded>>
        /\ at' \in {"command", "rooms"}
    BY <1>12 DEF Look
  <2>2. airckz' = airckz \/ (airckz' = harddevice_list[i] /\ airckz' \in coded)
    BY <1>12 DEF Look, QueryRefused, LookAir, LookRelay, LookSwitch
  <2>3. i \in 1 .. i
    BY DEF CodeInv
  <2>4. QED
    BY <2>1, <2>2, <2>3
<1>13. CASE Skip
  BY <1>13 DEF Skip
<1>14. CASE Operate
  BY <1>14 DEF Operate, Command, AirObj, RelayObj, PermissionLedObj
<1>15. CASE CountPeople
  BY <1>15 DEF CountPeople, QuietAsk, Succeeds, QueryFails, Fault
<1>16. CASE SelectRules
  BY <1>16 DEF SelectRules, QuietAsk, Succeeds, QueryFails, Fault
<1>17. CASE SwitchOff
  BY <1>17 DEF SwitchOff, SwitchObj
<1>18. CASE Sense
  BY <1>18 DEF Sense, QuietFlags, QuietAsk, Succeeds, QueryFails, Fault
<1>19. ASSUME NEW d \in Hddevices, Toggle(d) \/ Poll(d) PROVE CodeInv'
  BY <1>19, Bystanders
<1>20. CASE UNCHANGED vars
  BY <1>20 DEF vars
<1>21. QED
  BY <1>1, <1>2, <1>3, <1>4, <1>5, <1>6, <1>7, <1>8, <1>9, <1>10, <1>11, <1>12,
     <1>13, <1>14, <1>15, <1>16, <1>17, <1>18, <1>19, <1>20 DEF Next, Thread

LEMMA RoomInvariance == Spec => []RoomInv
<1>1. Init => RoomInv
  BY RoomInit
<1>2. RoomInv /\ [Next]_vars => RoomInv'
  BY BranchStep, AnswerStep, CommandStep, CodeStep DEF RoomInv
<1>3. QED
  BY <1>1, <1>2, PTL DEF Spec

------------------------------------------------------------------------------
(* What is switched off                                                      *)

\* The only steps that switch something off: a rule of the head count is carried out, or
\* the command chosen for the present device is sent.
RuleSent(o) ==
  at = "switch" /\ o.what = "switch_off" /\ \E x \in offs : x.device = o.to

CommandSent(o) ==
  /\ at = "command" /\ command \in {"ir", "relay_off"}
  /\ command = "ir" => airckz # None
  /\ o = [to |-> harddevice_list[i], what |-> command, code |-> airckz]

LEMMA SwitchOffSends ==
  ASSUME SwitchOff, NEW o \in Offs
  PROVE  RuleSent(o)
<1>1. PICK x \in offs : SwitchObj(x.device)
  BY DEF SwitchOff, Offs
<1>2. o = [to |-> x.device, what |-> "switch_off", code |-> airckz]
  BY <1>1 DEF SwitchObj, Send, NotSent, Offs
<1>3. QED
  BY <1>2 DEF RuleSent, SwitchOff

LEMMA OperateSends ==
  ASSUME Operate, NEW o \in Offs
  PROVE  CommandSent(o)
<1>1. o.what # "led_clear" /\ o \in sent' /\ o \notin sent /\ at = "command"
  BY DEF Offs, Operate
<1>2. Command(harddevice_list[i], "devices", IF why = "study" THEN "rooms" ELSE "devices")
  BY <1>1 DEF Operate
<1>3. CASE AirObj(harddevice_list[i], "devices", IF why = "study" THEN "rooms" ELSE "devices")
  BY <1>1, <1>3 DEF AirObj, Send, NotSent, CommandSent
<1>4. CASE RelayObj(harddevice_list[i], "devices", IF why = "study" THEN "rooms" ELSE "devices")
  BY <1>1, <1>4 DEF RelayObj, Send, NotSent, CommandSent
<1>5. CASE PermissionLedObj(harddevice_list[i], "devices", IF why = "study" THEN "rooms" ELSE "devices")
  BY <1>1, <1>5 DEF PermissionLedObj, Send, NotSent
<1>6. QED
  BY <1>2, <1>3, <1>4, <1>5 DEF Command

LEMMA Sends ==
  ASSUME Next, NEW o \in Offs
  PROVE  RuleSent(o) \/ CommandSent(o)
<1> SUFFICES ASSUME ~SwitchOff, ~Operate
             PROVE  sent' \subseteq sent
  BY SwitchOffSends, OperateSends DEF Offs
<1>1. CASE Change \/ Round \/ RoundEnds \/ Visit \/ UpdateAirc
  BY <1>1 DEF history, Change, Round, RoundEnds, Visit, UpdateAirc
<1>2. CASE TemporaryIsused \/ TemporarySelfStudy \/ TemporaryLesson
  BY <1>2 DEF TemporaryIsused, TemporarySelfStudy, TemporaryLesson, QuietFlags, QuietWhy,
     QuietAsk, SelfStudy, NoLesson
<1>3. CASE NormalIsused \/ NormalSelfStudy \/ NormalLesson
  BY <1>3 DEF NormalIsused, NormalSelfStudy, NormalLesson, QuietFlags, QuietWhy, QuietAsk,
     SelfStudy, NoLesson
<1>4. CASE Look \/ Skip
  BY <1>4 DEF Look, Skip, history
<1>5. CASE CountPeople \/ SelectRules \/ Sense
  BY <1>5 DEF CountPeople, SelectRules, Sense, QuietFlags, QuietAsk
<1>6. ASSUME NEW d \in Hddevices, Toggle(d) \/ Poll(d) PROVE sent' \subseteq sent
  BY <1>6, Bystanders DEF history
<1>7. QED
  BY <1>1, <1>2, <1>3, <1>4, <1>5, <1>6 DEF Next, Thread

\* Nothing is switched off but in a room that is free, or in self-study with nobody sensed
\* or too few counted, as long as the database answers and nothing changes in the visit:
\* for every house and every order in which rooms, devices and rules are gone through.
THEOREM OffsJustifiedHolds == Spec => OffsJustified
<1>1. RoomInv /\ [Next]_vars => [steady /\ ~failed => \A o \in Offs : Justified(o)]_vars
  <2> SUFFICES ASSUME RoomInv, Next, steady, ~failed, NEW o \in Offs
               PROVE  Justified(o)
    OBVIOUS
  <2> USE DEF RoomInv
  <2>1. CASE RuleSent(o)
    <3>1. at \in Study /\ at = "switch"
      BY <2>1 DEF RuleSent, Study
    <3>2. /\ InForce(room) = "self_study"
          /\ \A x \in offs : x \in Rules[room] /\ x.limit >= people[room]
      BY <3>1 DEF AnswerInv
    <3>3. QED
      BY <2>1, <3>2 DEF RuleSent, Justified
  <2>2. CASE CommandSent(o)
    <3>1. at = "command" /\ why \in {"free", "study"} /\ o.what \in {"ir", "relay_off"}
      BY <2>2 DEF CommandInv, CommandSent
    <3>2. CASE why = "free"
      BY <3>1, <3>2 DEF AnswerInv, Justified
    <3>3. CASE why = "study"
      BY <3>1, <3>3 DEF AnswerInv, Justified
    <3>4. QED
      BY <3>1, <3>2, <3>3
  <2>3. QED
    BY <2>1, <2>2, Sends
<1>2. QED
  BY <1>1, RoomInvariance, PTL DEF Spec, OffsJustified

\* Whatever queries and commands fail: while every timetable in use of a room has a lesson
\* nothing in it is switched off.
THEOREM LessonNeverShutHolds == Spec => LessonNeverShut
<1> DEFINE Shut == steady /\ Offs # {} =>
                     \E k \in Kinds : table[room][k].used /\ table[room][k].now # "lesson"
<1>1. RoomInv /\ [Next]_vars => [Shut]_vars
  <2> SUFFICES ASSUME RoomInv, Next, steady, NEW o \in Offs
               PROVE  Idle(room)
    BY DEF Idle
  <2>1. why # "lesson" /\ at \in Study \cup {"devices", "command"}
    BY Sends DEF RoomInv, BranchInv, CommandInv, RuleSent, CommandSent, Study
  <2>2. QED
    BY <2>1 DEF RoomInv, BranchInv
<1>2. QED
  BY <1>1, RoomInvariance, PTL DEF Spec, LessonNeverShut

\* A conditioner is sent its own code, whatever else failed or changed, unless its own query
\* was refused or it has no code; and then only the code of one ahead of it in its room.
THEOREM OwnCodeHolds == Spec => OwnCode
<1> DEFINE Own == \A o \in Offs : o.what = "ir" => CodeRead(o)
<1>1. RoomInv /\ [Next]_vars => [Own]_vars
  <2> SUFFICES ASSUME RoomInv, Next, NEW o \in Offs, o.what = "ir"
               PROVE  CodeRead(o)
    OBVIOUS
  <2>1. CommandSent(o) /\ airckz # None
    BY Sends DEF RuleSent, CommandSent
  <2>2. QED
    BY <2>1 DEF RoomInv, CommandInv, CodeInv, CommandSent, CodeRead
<1>2. QED
  BY <1>1, RoomInvariance, PTL DEF Spec, OwnCode

==============================================================================
