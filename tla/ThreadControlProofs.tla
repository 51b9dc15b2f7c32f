------------------------- MODULE ThreadControlProofs -------------------------
(***************************************************************************)
(* The threads, what a thread sets on its port, and whom it asks there.    *)
(*                                                                         *)
(* The theorems about ThreadControl hold for every set of ports, every     *)
(* bound and every selection of commands and faults.                       *)
(*                                                                         *)
(* Whoever speaks on a serial port speaks with his own settings, and the   *)
(* port is left as it was found: for any number of threads, any requests,  *)
(* and any number of calls that fail, ports unplugged and processes killed *)
(* (the bounds of the model are not used).  Both rest on all users of the  *)
(* port taking the same mutex, and on the drivers reading old_tios only    *)
(* while nobody else has the port open: what they save is then what the    *)
(* port was found with.                                                    *)
(*                                                                         *)
(* The devices a thread has of a port are those the tables list there, for *)
(* any tables, edits and failing queries, and the derived columns of a     *)
(* switch agree with its row.  What is loaded is compared with the rows up *)
(* to the first one that is refused, at every moment of loading.  Each     *)
(* column shows the registers of its parameter.                            *)
(***************************************************************************)
EXTENDS ThreadControl, SerialPort, DeviceTables, FiniteSetTheorems, WellFoundedInduction, TLAPS

------------------------------------------------------------------------------
(* Types.  The bound on gen makes the types inductive; flags are dealt with  *)
(* apart from the other variables.                                           *)

DataTypes == ObjectTypes /\ ThreadTypes /\ ControlTypes /\ GenBound
TypeInv == FlagTypes /\ DataTypes

\* The rows of one query, numbered by a generation, are objects.
LEMMA ObjsOf ==
  ASSUME NEW rows \in FetchResults, NEW g \in Gens
  PROVE  rows \X {g} \subseteq Objs
  BY ConstantsAssumption DEF Objs

LEMMA TypeInit == Init => TypeInv
<1> SUFFICES ASSUME Init PROVE TypeInv
  OBVIOUS
<1>1. 1 \in Gens
  BY ConstantsAssumption DEF Gens
<1>2. g_comharddevice_list \subseteq Objs
  BY <1>1, ObjsOf DEF Init
<1>3. FlagTypes
  BY Zenon DEF Init, FlagTypes
<1>4. ObjectTypes
  BY <1>2 DEF Init, ObjectTypes
<1>5. ThreadTypes
  BY ConstantsAssumption DEF Init, ThreadTypes
<1>6. ControlTypes /\ GenBound
  BY <1>1, ConstantsAssumption DEF Init, ControlTypes, GenBound, FetchPending
<1>7. QED
  BY <1>3, <1>4, <1>5, <1>6 DEF TypeInv, DataTypes

LEMMA FlagStep == FlagTypes /\ [Next]_vars => FlagTypes'
<1> SUFFICES ASSUME FlagTypes, [Next]_vars PROVE FlagTypes'
  OBVIOUS
<1> USE DEF FlagTypes, shared, objVars, flagVars, airVars, thrVars, udpVars
<1>1. CASE UdpBoot
  BY <1>1, Zenon DEF UdpBoot, LoopHead
<1>2. CASE UdpTimeout
  BY <1>2, Zenon DEF UdpTimeout
<1>3. CASE SignHandler
  BY <1>3, Zenon DEF SignHandler, ExitThreadObjects
<1>4. CASE CmdStart
  BY <1>4, Zenon DEF CmdStart, Receive, LoopHead
<1>5. CASE CmdStop
  BY <1>5, Zenon DEF CmdStop, Receive, ExitThreadObjects, LoopHead
<1>6. CASE CmdRestart
  BY <1>6, Zenon DEF CmdRestart, Receive, ExitThreadObjects
<1>7. CASE CmdShutdown
  BY <1>7, Zenon DEF CmdShutdown, Receive, ExitThreadObjects
<1>8. CASE CmdTest
  BY <1>8, Zenon DEF CmdTest, Receive
<1>9. CASE CmdAirControl
  BY <1>9, Zenon DEF CmdAirControl, Receive, LoopHead
<1>10. ASSUME NEW c \in Coms, CmdSetorder(c) PROVE FlagTypes'
  BY <1>10, Zenon DEF CmdSetorder, Receive, Current, LoopHead
<1>11. ASSUME NEW c \in Coms, CmdCmd(c) PROVE FlagTypes'
  BY <1>11, Zenon DEF CmdCmd, Receive, Current, LoopHead
<1>12. CASE RestartStart
  BY <1>12, Zenon DEF RestartStart
<1>13. CASE UdpFree
  BY <1>13, Zenon DEF UdpFree
<1>14. CASE UdpFetch
  BY <1>14, Zenon DEF UdpFetch, LoopHead
<1>15. ASSUME NEW o \in Objs, UdpCreate(o) PROVE FlagTypes'
  BY <1>15, Zenon DEF UdpCreate, Launch
<1>16. CASE UdpCreated
  BY <1>16, Zenon DEF UdpCreated, LoopHead
<1>17. CASE UdpAir
  BY <1>17, Zenon DEF UdpAir, Launch, LoopHead
<1>18. CASE UdpLock
  BY <1>18, Zenon DEF UdpLock
<1>19. CASE UdpUnlock
  BY <1>19, Zenon DEF UdpUnlock, LoopHead
<1>20. CASE UdpFinish
  BY <1>20, Zenon DEF UdpFinish, ExitThreadObjects
<1>21. ASSUME NEW t \in Threads, ThreadNext(t) PROVE FlagTypes'
  <2> USE DEF Goto, thrRest
  <2>1. CASE PollerNoDb(t)
    BY <2>1, Zenon DEF PollerNoDb
  <2>2. CASE PollerEnter(t)
    BY <2>2, Zenon DEF PollerEnter
  <2>3. CASE PollerInitFail(t)
    BY <2>3, Zenon DEF PollerInitFail
  <2>4. CASE PollerPoll(t)
    BY <2>4, Zenon DEF PollerPoll
  <2>5. CASE PollerExit(t)
    BY <2>5, Zenon DEF PollerExit
  <2>6. CASE Lock(t)
    BY <2>6, Zenon DEF Lock
  <2>7. CASE Unlock(t)
    BY <2>7, Zenon DEF Unlock
  <2>8. CASE AirBegin(t)
    BY <2>8, Zenon DEF AirBegin
  <2>9. CASE AirSetup(t)
    BY <2>9, Zenon DEF AirSetup
  <2>10. CASE AirLoop(t)
    BY <2>10, Zenon DEF AirLoop
  <2>11. CASE AirRoundEnd(t)
    BY <2>11, Zenon DEF AirRoundEnd
  <2>12. CASE AirWake(t)
    BY <2>12, Zenon DEF AirWake
  <2>13. ASSUME NEW c \in Coms, AirOperate(t, c) PROVE FlagTypes'
    BY <2>13, Zenon DEF AirOperate, Current
  <2>14. QED
    BY <1>21, <2>1, <2>2, <2>3, <2>4, <2>5, <2>6, <2>7, <2>8, <2>9, <2>10,
       <2>11, <2>12, <2>13 DEF ThreadNext
<1>22. CASE MainJoinUdp
  BY <1>22, Zenon DEF MainJoinUdp
<1>23. CASE MainJoinAir
  BY <1>23, Zenon DEF MainJoinAir
<1>24. CASE MainExit
  BY <1>24, Zenon DEF MainExit
<1>25. CASE Crash
  BY <1>25, Zenon DEF Crash
<1>26. CASE UNCHANGED vars
  BY <1>26, Zenon DEF vars
<1>27. QED
  BY <1>1, <1>2, <1>3, <1>4, <1>5, <1>6, <1>7, <1>8, <1>9, <1>10, <1>11, <1>12,
     <1>13, <1>14, <1>15, <1>16, <1>17, <1>18, <1>19, <1>20, <1>21, <1>22,
     <1>23, <1>24, <1>25, <1>26 DEF Next, UdpNext

LEMMA DataStep == DataTypes /\ [Next]_vars => DataTypes'
<1> SUFFICES ASSUME DataTypes, [Next]_vars PROVE DataTypes'
  OBVIOUS
<1> USE ConstantsAssumption
        DEF DataTypes, ObjectTypes, ThreadTypes, ControlTypes, GenBound, FetchPending,
            Gens, Threads, NoThread, shared, objVars, flagVars, airVars, thrVars, udpVars
<1>1. CASE UdpBoot
  BY <1>1 DEF UdpBoot, LoopHead
<1>2. CASE UdpTimeout
  BY <1>2 DEF UdpTimeout
<1>3. CASE SignHandler
  BY <1>3 DEF SignHandler, ExitThreadObjects
<1>4. CASE CmdStart
  BY <1>4 DEF CmdStart, Receive, LoopHead
<1>5. CASE CmdStop
  BY <1>5 DEF CmdStop, Receive, ExitThreadObjects, LoopHead
<1>6. CASE CmdRestart
  BY <1>6 DEF CmdRestart, Receive, ExitThreadObjects
<1>7. CASE CmdShutdown
  BY <1>7 DEF CmdShutdown, Receive, ExitThreadObjects
<1>8. CASE CmdTest
  BY <1>8 DEF CmdTest, Receive
<1>9. CASE CmdAirControl
  BY <1>9 DEF CmdAirControl, Receive, LoopHead
<1>10. ASSUME NEW c \in Coms, CmdSetorder(c) PROVE DataTypes'
  BY <1>10 DEF CmdSetorder, Receive, Current, LoopHead
<1>11. ASSUME NEW c \in Coms, CmdCmd(c) PROVE DataTypes'
  BY <1>11 DEF CmdCmd, Receive, Current, LoopHead
<1>12. CASE RestartStart
  BY <1>12 DEF RestartStart
<1>13. CASE UdpFree
  BY <1>13 DEF UdpFree
<1>14. CASE UdpFetch
  <2>1. gen + 1 \in Gens
    BY <1>14 DEF UdpFetch
  <2>2. \A rows \in FetchResults : rows \X {gen + 1} \subseteq Objs
    BY <2>1, ObjsOf
  <2>3. QED
    BY <1>14, <2>1, <2>2 DEF UdpFetch, LoopHead
<1>15. ASSUME NEW o \in Objs, UdpCreate(o) PROVE DataTypes'
  BY <1>15 DEF UdpCreate, Launch
<1>16. CASE UdpCreated
  BY <1>16 DEF UdpCreated, LoopHead
<1>17. CASE UdpAir
  BY <1>17 DEF UdpAir, Launch, LoopHead
<1>18. CASE UdpLock
  BY <1>18 DEF UdpLock
<1>19. CASE UdpUnlock
  BY <1>19 DEF UdpUnlock, LoopHead
<1>20. CASE UdpFinish
  BY <1>20 DEF UdpFinish, ExitThreadObjects
<1>21. ASSUME NEW t \in Threads, ThreadNext(t) PROVE DataTypes'
  <2> USE DEF Goto, thrRest
  <2>1. CASE PollerNoDb(t)
    BY <2>1 DEF PollerNoDb
  <2>2. CASE PollerEnter(t)
    BY <2>2 DEF PollerEnter
  <2>3. CASE PollerInitFail(t)
    BY <2>3 DEF PollerInitFail
  <2>4. CASE PollerPoll(t)
    BY <2>4 DEF PollerPoll, Pollers
  <2>5. CASE PollerExit(t)
    BY <2>5, SMTT(40) DEF PollerExit
  <2>6. CASE Lock(t)
    BY <2>6 DEF Lock
  <2>7. CASE Unlock(t)
    BY <2>7 DEF Unlock
  <2>8. CASE AirBegin(t)
    BY <2>8 DEF AirBegin
  <2>9. CASE AirSetup(t)
    BY <2>9 DEF AirSetup
  <2>10. CASE AirLoop(t)
    BY <2>10 DEF AirLoop
  <2>11. CASE AirRoundEnd(t)
    BY <2>11 DEF AirRoundEnd
  <2>12. CASE AirWake(t)
    BY <2>12 DEF AirWake
  <2>13. ASSUME NEW c \in Coms, AirOperate(t, c) PROVE DataTypes'
    BY <2>13 DEF AirOperate, Current
  <2>14. QED
    BY <1>21, <2>1, <2>2, <2>3, <2>4, <2>5, <2>6, <2>7, <2>8, <2>9, <2>10,
       <2>11, <2>12, <2>13 DEF ThreadNext
<1>22. CASE MainJoinUdp
  BY <1>22 DEF MainJoinUdp
<1>23. CASE MainJoinAir
  BY <1>23 DEF MainJoinAir
<1>24. CASE MainExit
  BY <1>24 DEF MainExit
<1>25. CASE Crash
  BY <1>25 DEF Crash
<1>26. CASE UNCHANGED vars
  BY <1>26 DEF vars
<1>27. QED
  BY <1>1, <1>2, <1>3, <1>4, <1>5, <1>6, <1>7, <1>8, <1>9, <1>10, <1>11, <1>12,
     <1>13, <1>14, <1>15, <1>16, <1>17, <1>18, <1>19, <1>20, <1>21, <1>22,
     <1>23, <1>24, <1>25, <1>26 DEF Next, UdpNext

\* Every variable keeps its type: no command fetches the list more than once,
\* and handles name threads that were created.
THEOREM TypeCorrect == Spec => []TypeOK
<1>1. TypeInv => TypeOK
  BY DEF TypeInv, DataTypes, TypeOK
<1>2. TypeInv /\ [Next]_vars => TypeInv'
  BY FlagStep, DataStep DEF TypeInv
<1>3. QED
  BY <1>1, <1>2, TypeInit, PTL DEF Spec


------------------------------------------------------------------------------
(* The mutexes.                                                              *)

\* Threads are numbered in the order of their creation.
Numbered == \A t \in Threads : pc[t] = "none" <=> t > nthreads

\* Whoever wants or holds a mutex names one that exists.
Named == /\ \A t \in Threads :
              (kind[t] = "poller" \/ pc[t] \in {"want", "bus"}) => mtx[t] \in Objs
         /\ udp \in {"want", "bus"} => order \in Objs

\* A mutex is held exactly by a user in its exchange...
Held == /\ \A t \in Threads : pc[t] = "bus" => locked[mtx[t]]
        /\ udp = "bus" => locked[order]
        /\ \A o \in Objs : locked[o] => \/ udp = "bus" /\ order = o
                                        \/ \E t \in Threads : pc[t] = "bus" /\ mtx[t] = o

\* ... and by one only.
Alone == /\ \A t, u \in Threads :
              (pc[t] = "bus" /\ pc[u] = "bus" /\ mtx[t] = mtx[u]) => t = u
         /\ \A t \in Threads : ~(pc[t] = "bus" /\ udp = "bus" /\ mtx[t] = order)

LockInv == Numbered /\ Named /\ Held /\ Alone

LEMMA LockInit == Init => LockInv
  BY ConstantsAssumption DEF Init, LockInv, Numbered, Named, Held, Alone, Threads

\* A fetch touches no thread and no mutex; what cmd goes on with is in the list.
LEMMA FetchFrame ==
  ASSUME UdpFetch
  PROVE  /\ udp = "fetch"
         /\ UNCHANGED <<pc, kind, home, mtx, nthreads, locked, thr>>
         /\ udp' \in {"create", "air", "select", "join_air", "want"}
         /\ udp' = "want" => order' \in g_comharddevice_list'
<1>1. UNCHANGED <<pc, kind, home, mtx, nthreads, locked, thr>>
  BY DEF UdpFetch, thrVars
<1>2. PICK rows \in FetchResults :
        /\ g_comharddevice_list' = g_comharddevice_list \cup (rows \X {gen + 1})
        /\ \/ udp' = "create"
           \/ udp' = "air"
           \/ udp' = LoopHead
           \/ udp' = "want" /\ order' \in rows \X {gen + 1}
  BY Zenon DEF UdpFetch
<1>3. QED
  BY <1>1, <1>2 DEF LoopHead, UdpFetch

\* A thread that neither enters nor leaves an exchange disturbs nobody.
LEMMA LocalMove ==
  ASSUME TypeInv, LockInv, NEW t \in Threads,
         NEW a \in {"init", "nodb", "setup", "idle", "loop", "round", "sleep"},
         NEW b \in {"setup", "idle", "loop", "want", "round", "sleep", "done"},
         Goto(t, a, b), b = "want" => kind[t] = "poller",
         UNCHANGED <<kind, mtx, nthreads, locked, udp, order>>
  PROVE  LockInv'
  BY DEF TypeInv, DataTypes, ObjectTypes, ThreadTypes, LockInv, Numbered, Named, Held,
         Alone, Goto, Threads

LEMMA LockStep == TypeInv /\ TypeInv' /\ LockInv /\ [Next]_vars => LockInv'
<1> SUFFICES ASSUME TypeInv, TypeInv', LockInv, [Next]_vars PROVE LockInv'
  OBVIOUS
<1> USE ConstantsAssumption
        DEF TypeInv, DataTypes, FlagTypes, ObjectTypes, ThreadTypes, ControlTypes,
            LockInv, Numbered, Named, Held, Alone, Threads,
            shared, objVars, flagVars, airVars, thrVars, udpVars
<1>1. CASE UdpBoot
  BY <1>1 DEF UdpBoot, LoopHead
<1>2. CASE UdpTimeout
  BY <1>2 DEF UdpTimeout
<1>3. CASE SignHandler
  BY <1>3 DEF SignHandler, ExitThreadObjects
<1>4. CASE CmdStart
  BY <1>4 DEF CmdStart, Receive, LoopHead
<1>5. CASE CmdStop
  BY <1>5 DEF CmdStop, Receive, ExitThreadObjects, LoopHead
<1>6. CASE CmdRestart
  BY <1>6 DEF CmdRestart, Receive, ExitThreadObjects
<1>7. CASE CmdShutdown
  BY <1>7 DEF CmdShutdown, Receive, ExitThreadObjects
<1>8. CASE CmdTest
  BY <1>8 DEF CmdTest, Receive
<1>9. CASE CmdAirControl
  BY <1>9 DEF CmdAirControl, Receive, LoopHead
<1>10. ASSUME NEW c \in Coms, CmdSetorder(c) PROVE LockInv'
  BY <1>10 DEF CmdSetorder, Receive, Current, LoopHead
<1>11. ASSUME NEW c \in Coms, CmdCmd(c) PROVE LockInv'
  BY <1>11 DEF CmdCmd, Receive, Current, LoopHead
<1>12. CASE RestartStart
  BY <1>12 DEF RestartStart
<1>13. CASE UdpFree
  BY <1>13 DEF UdpFree
<1>14. CASE UdpFetch
  <2>1. g_comharddevice_list' \subseteq Objs
    OBVIOUS
  <2>2. QED
    BY <2>1, FetchFrame, <1>14
<1>15. ASSUME NEW o \in Objs, UdpCreate(o) PROVE LockInv'
  BY <1>15 DEF UdpCreate, Launch
<1>16. CASE UdpCreated
  BY <1>16 DEF UdpCreated, LoopHead
<1>17. CASE UdpAir
  BY <1>17 DEF UdpAir, Launch, LoopHead
<1>18. CASE UdpLock
  BY <1>18 DEF UdpLock
<1>19. CASE UdpUnlock
  BY <1>19 DEF UdpUnlock, LoopHead
<1>20. CASE UdpFinish
  BY <1>20 DEF UdpFinish, ExitThreadObjects
<1>21. ASSUME NEW t \in Threads, ThreadNext(t) PROVE LockInv'
  <2> USE DEF Goto, thrRest
  <2>1. CASE PollerNoDb(t)
    BY <2>1 DEF PollerNoDb
  <2>2. CASE PollerEnter(t)
    <3> HIDE DEF TypeInv, LockInv, Goto
    <3>1. /\ UNCHANGED <<kind, mtx, nthreads, locked, udp, order>>
          /\ \E a \in {"init", "nodb"}, b \in {"loop", "idle"} : Goto(t, a, b)
      BY Zenon, <2>2 DEF PollerEnter, Pollers, Airs, thrRest
    <3>2. QED
      BY <3>1, LocalMove
  <2>3. CASE PollerInitFail(t)
    BY <2>3, SMTT(40) DEF PollerInitFail
  <2>4. CASE PollerPoll(t)
    <3> HIDE DEF TypeInv, LockInv, Goto
    <3>1. /\ UNCHANGED <<kind, mtx, nthreads, locked, udp, order>>
          /\ \E a \in {"loop"}, b \in {"want"} : Goto(t, a, b)
          /\ kind[t] = "poller"
      BY Zenon, <2>4 DEF PollerPoll, Pollers, Airs, thrRest
    <3>2. QED
      BY <3>1, LocalMove
  <2>5. CASE PollerExit(t)
    BY <2>5 DEF PollerExit
  <2>6. CASE Lock(t)
    BY <2>6 DEF Lock
  <2>7. CASE Unlock(t)
    BY <2>7 DEF Unlock
  <2>8. CASE AirBegin(t)
    <3> HIDE DEF TypeInv, LockInv, Goto
    <3>1. /\ UNCHANGED <<kind, mtx, nthreads, locked, udp, order>>
          /\ \E a \in {"init"}, b \in {"setup", "done"} : Goto(t, a, b)
      BY Zenon, <2>8 DEF AirBegin, Pollers, Airs, thrRest
    <3>2. QED
      BY <3>1, LocalMove
  <2>9. CASE AirSetup(t)
    BY <2>9 DEF AirSetup
  <2>10. CASE AirLoop(t)
    <3> HIDE DEF TypeInv, LockInv, Goto
    <3>1. /\ UNCHANGED <<kind, mtx, nthreads, locked, udp, order>>
          /\ \E a \in {"loop"}, b \in {"round", "done"} : Goto(t, a, b)
      BY Zenon, <2>10 DEF AirLoop, Pollers, Airs, thrRest
    <3>2. QED
      BY <3>1, LocalMove
  <2>11. CASE AirRoundEnd(t)
    BY <2>11 DEF AirRoundEnd
  <2>12. CASE AirWake(t)
    BY <2>12 DEF AirWake
  <2>13. ASSUME NEW c \in Coms, AirOperate(t, c) PROVE LockInv'
    BY <2>13 DEF AirOperate, Current
  <2>14. QED
    BY <1>21, <2>1, <2>2, <2>3, <2>4, <2>5, <2>6, <2>7, <2>8, <2>9, <2>10,
       <2>11, <2>12, <2>13 DEF ThreadNext
<1>22. CASE MainJoinUdp
  BY <1>22 DEF MainJoinUdp
<1>23. CASE MainJoinAir
  BY <1>23 DEF MainJoinAir
<1>24. CASE MainExit
  BY <1>24 DEF MainExit
<1>25. CASE Crash
  BY <1>25 DEF Crash
<1>26. CASE UNCHANGED vars
  BY <1>26 DEF vars
<1>27. QED
  BY <1>1, <1>2, <1>3, <1>4, <1>5, <1>6, <1>7, <1>8, <1>9, <1>10, <1>11, <1>12,
     <1>13, <1>14, <1>15, <1>16, <1>17, <1>18, <1>19, <1>20, <1>21, <1>22,
     <1>23, <1>24, <1>25, <1>26 DEF Next, UdpNext

LEMMA LockInvExclusion == TypeInv /\ LockInv => MutexExclusion
<1> SUFFICES ASSUME TypeInv, LockInv, NEW o \in Objs
             PROVE  /\ \A u, v \in BusUsers(o) : u = v
                    /\ locked[o] <=> BusUsers(o) # {}
  BY DEF MutexExclusion
<1>1. \A u, v \in BusUsers(o) : u = v
  BY DEF LockInv, Alone, BusUsers
<1>2. locked[o] => BusUsers(o) # {}
  BY DEF LockInv, Held, BusUsers
<1>3. BusUsers(o) # {} => locked[o]
  BY DEF LockInv, Held, BusUsers
<1>4. QED
  BY <1>1, <1>2, <1>3

\* Mutual exclusion on each mutex, whatever the commands, faults and signals.
THEOREM MutexExclusionHolds == Spec => []MutexExclusion
<1>1. Spec => [](TypeInv /\ LockInv)
  <2>1. TypeInv /\ [Next]_vars => TypeInv'
    BY FlagStep, DataStep DEF TypeInv
  <2>2. QED
    BY <2>1, TypeInit, LockInit, LockStep, PTL DEF Spec
<1>2. QED
  BY <1>1, LockInvExclusion, PTL

------------------------------------------------------------------------------
(* Generations: which fetch the objects in use come from.                    *)

Born(o) == o[2] \in 2 .. gen

GenInv ==
  /\ \A o \in g_comharddevice_list : o[2] = gen
  /\ udp = "fetch" => g_comharddevice_list = {}
  /\ \A o \in thread_object_list \cup todo : Born(o)
  /\ \A t \in Threads : kind[t] = "poller" \/ pc[t] \in {"want", "bus"} => Born(mtx[t])
  /\ udp \in {"want", "bus"} => order[2] = gen
  /\ udp \in {"create", "air"} \/ nthreads > 0 => gen >= 2

LEMMA GenInit == Init => GenInv
  BY ConstantsAssumption DEF Init, GenInv, Born, Threads

LEMMA GenStep == TypeInv /\ TypeInv' /\ LockInv /\ GenInv /\ [Next]_vars => GenInv'
<1> SUFFICES ASSUME TypeInv, TypeInv', LockInv, GenInv, [Next]_vars PROVE GenInv'
  OBVIOUS
<1>0. /\ DataTypes /\ DataTypes' /\ Numbered /\ Named
  BY DEF TypeInv, LockInv
<1> HIDE DEF TypeInv, LockInv
<1> USE <1>0, ConstantsAssumption
        DEF DataTypes, ObjectTypes, ThreadTypes, ControlTypes, Numbered, Named, Objs, Gens,
            GenInv, Born, Threads, shared, objVars, flagVars, airVars, thrVars, udpVars
<1>1. CASE UdpBoot
  BY <1>1 DEF UdpBoot, LoopHead
<1>2. CASE UdpTimeout
  BY <1>2 DEF UdpTimeout
<1>3. CASE SignHandler
  BY <1>3 DEF SignHandler, ExitThreadObjects
<1>4. CASE CmdStart
  BY <1>4 DEF CmdStart, Receive, LoopHead
<1>5. CASE CmdStop
  BY <1>5 DEF CmdStop, Receive, ExitThreadObjects, LoopHead
<1>6. CASE CmdRestart
  BY <1>6 DEF CmdRestart, Receive, ExitThreadObjects
<1>7. CASE CmdShutdown
  BY <1>7 DEF CmdShutdown, Receive, ExitThreadObjects
<1>8. CASE CmdTest
  BY <1>8 DEF CmdTest, Receive
<1>9. CASE CmdAirControl
  BY <1>9 DEF CmdAirControl, Receive, LoopHead
<1>10. ASSUME NEW c \in Coms, CmdSetorder(c) PROVE GenInv'
  BY <1>10 DEF CmdSetorder, Receive, Current, LoopHead
<1>11. ASSUME NEW c \in Coms, CmdCmd(c) PROVE GenInv'
  BY <1>11 DEF CmdCmd, Receive, Current, LoopHead
<1>12. CASE RestartStart
  BY <1>12 DEF RestartStart
<1>13. CASE UdpFree
  BY <1>13 DEF UdpFree
<1>14. CASE UdpFetch
  BY <1>14 DEF UdpFetch, LoopHead
<1>15. ASSUME NEW o \in Objs, UdpCreate(o) PROVE GenInv'
  BY <1>15 DEF UdpCreate, Launch
<1>16. CASE UdpCreated
  BY <1>16 DEF UdpCreated, LoopHead
<1>17. CASE UdpAir
  BY <1>17 DEF UdpAir, Launch, LoopHead
<1>18. CASE UdpLock
  BY <1>18 DEF UdpLock
<1>19. CASE UdpUnlock
  BY <1>19 DEF UdpUnlock, LoopHead
<1>20. CASE UdpFinish
  BY <1>20 DEF UdpFinish, ExitThreadObjects
<1>21. ASSUME NEW t \in Threads, ThreadNext(t) PROVE GenInv'
  <2> USE DEF Goto, thrRest
  <2>1. CASE PollerNoDb(t)
    BY <2>1 DEF PollerNoDb
  <2>2. CASE PollerEnter(t)
    BY <2>2 DEF PollerEnter
  <2>3. CASE PollerInitFail(t)
    BY <2>3 DEF PollerInitFail
  <2>4. CASE PollerPoll(t)
    BY <2>4 DEF PollerPoll, Pollers
  <2>5. CASE PollerExit(t)
    BY <2>5 DEF PollerExit
  <2>6. CASE Lock(t)
    BY <2>6 DEF Lock
  <2>7. CASE Unlock(t)
    BY <2>7 DEF Unlock
  <2>8. CASE AirBegin(t)
    BY <2>8 DEF AirBegin
  <2>9. CASE AirSetup(t)
    BY <2>9 DEF AirSetup
  <2>10. CASE AirLoop(t)
    BY <2>10 DEF AirLoop
  <2>11. CASE AirRoundEnd(t)
    BY <2>11 DEF AirRoundEnd
  <2>12. CASE AirWake(t)
    BY <2>12 DEF AirWake
  <2>13. ASSUME NEW c \in Coms, AirOperate(t, c) PROVE GenInv'
    BY <2>13 DEF AirOperate, Current
  <2>14. QED
    BY <1>21, <2>1, <2>2, <2>3, <2>4, <2>5, <2>6, <2>7, <2>8, <2>9, <2>10,
       <2>11, <2>12, <2>13 DEF ThreadNext
<1>22. CASE MainJoinUdp
  BY <1>22 DEF MainJoinUdp
<1>23. CASE MainJoinAir
  BY <1>23 DEF MainJoinAir
<1>24. CASE MainExit
  BY <1>24 DEF MainExit
<1>25. CASE Crash
  BY <1>25 DEF Crash
<1>26. CASE UNCHANGED vars
  BY <1>26 DEF vars
<1>27. QED
  BY <1>1, <1>2, <1>3, <1>4, <1>5, <1>6, <1>7, <1>8, <1>9, <1>10, <1>11, <1>12,
     <1>13, <1>14, <1>15, <1>16, <1>17, <1>18, <1>19, <1>20, <1>21, <1>22,
     <1>23, <1>24, <1>25, <1>26 DEF Next, UdpNext

------------------------------------------------------------------------------
(* Handles: which thread the handle of a registered object names.            *)

HandleInv ==
  \A o \in thread_object_list : \/ udp = "create" /\ o \in todo
                                \/ thr[o] \in 1 .. nthreads

LEMMA HandleInit == Init => HandleInv
  BY DEF Init, HandleInv

LEMMA HandleStep == TypeInv /\ HandleInv /\ [Next]_vars => HandleInv'
<1> SUFFICES ASSUME DataTypes, HandleInv, [Next]_vars PROVE HandleInv'
  BY DEF TypeInv
<1> USE ConstantsAssumption
        DEF DataTypes, ObjectTypes, ThreadTypes, ControlTypes, HandleInv,
            shared, objVars, flagVars, airVars, thrVars, udpVars
<1>1. CASE UdpBoot
  BY <1>1 DEF UdpBoot, LoopHead
<1>2. CASE UdpTimeout
  BY <1>2 DEF UdpTimeout
<1>3. CASE SignHandler
  BY <1>3 DEF SignHandler, ExitThreadObjects
<1>4. CASE CmdStart
  BY <1>4 DEF CmdStart, Receive, LoopHead
<1>5. CASE CmdStop
  BY <1>5 DEF CmdStop, Receive, ExitThreadObjects, LoopHead
<1>6. CASE CmdRestart
  BY <1>6 DEF CmdRestart, Receive, ExitThreadObjects
<1>7. CASE CmdShutdown
  BY <1>7 DEF CmdShutdown, Receive, ExitThreadObjects
<1>8. CASE CmdTest
  BY <1>8 DEF CmdTest, Receive
<1>9. CASE CmdAirControl
  BY <1>9 DEF CmdAirControl, Receive, LoopHead
<1>10. ASSUME NEW c \in Coms, CmdSetorder(c) PROVE HandleInv'
  BY <1>10 DEF CmdSetorder, Receive, Current, LoopHead
<1>11. ASSUME NEW c \in Coms, CmdCmd(c) PROVE HandleInv'
  BY <1>11 DEF CmdCmd, Receive, Current, LoopHead
<1>12. CASE RestartStart
  BY <1>12 DEF RestartStart
<1>13. CASE UdpFree
  BY <1>13 DEF UdpFree
<1>14. CASE UdpFetch
  BY <1>14 DEF UdpFetch, LoopHead
<1>15. ASSUME NEW o \in Objs, UdpCreate(o) PROVE HandleInv'
  BY <1>15 DEF UdpCreate, Launch
<1>16. CASE UdpCreated
  BY <1>16 DEF UdpCreated, LoopHead
<1>17. CASE UdpAir
  BY <1>17 DEF UdpAir, Launch, LoopHead
<1>18. CASE UdpLock
  BY <1>18 DEF UdpLock
<1>19. CASE UdpUnlock
  BY <1>19 DEF UdpUnlock, LoopHead
<1>20. CASE UdpFinish
  BY <1>20 DEF UdpFinish, ExitThreadObjects
<1>21. ASSUME NEW t \in Threads, ThreadNext(t) PROVE HandleInv'
  <2> USE DEF Goto, thrRest
  <2>1. CASE PollerNoDb(t)
    BY <2>1 DEF PollerNoDb
  <2>2. CASE PollerEnter(t)
    BY <2>2 DEF PollerEnter
  <2>3. CASE PollerInitFail(t)
    BY <2>3 DEF PollerInitFail
  <2>4. CASE PollerPoll(t)
    BY <2>4 DEF PollerPoll, Pollers
  <2>5. CASE PollerExit(t)
    BY <2>5 DEF PollerExit
  <2>6. CASE Lock(t)
    BY <2>6 DEF Lock
  <2>7. CASE Unlock(t)
    BY <2>7 DEF Unlock
  <2>8. CASE AirBegin(t)
    BY <2>8 DEF AirBegin
  <2>9. CASE AirSetup(t)
    BY <2>9 DEF AirSetup
  <2>10. CASE AirLoop(t)
    BY <2>10 DEF AirLoop
  <2>11. CASE AirRoundEnd(t)
    BY <2>11 DEF AirRoundEnd
  <2>12. CASE AirWake(t)
    BY <2>12 DEF AirWake
  <2>13. ASSUME NEW c \in Coms, AirOperate(t, c) PROVE HandleInv'
    BY <2>13 DEF AirOperate, Current
  <2>14. QED
    BY <1>21, <2>1, <2>2, <2>3, <2>4, <2>5, <2>6, <2>7, <2>8, <2>9, <2>10,
       <2>11, <2>12, <2>13 DEF ThreadNext
<1>22. CASE MainJoinUdp
  BY <1>22 DEF MainJoinUdp
<1>23. CASE MainJoinAir
  BY <1>23 DEF MainJoinAir
<1>24. CASE MainExit
  BY <1>24 DEF MainExit
<1>25. CASE Crash
  BY <1>25 DEF Crash
<1>26. CASE UNCHANGED vars
  BY <1>26 DEF vars
<1>27. QED
  BY <1>1, <1>2, <1>3, <1>4, <1>5, <1>6, <1>7, <1>8, <1>9, <1>10, <1>11, <1>12,
     <1>13, <1>14, <1>15, <1>16, <1>17, <1>18, <1>19, <1>20, <1>21, <1>22,
     <1>23, <1>24, <1>25, <1>26 DEF Next, UdpNext

------------------------------------------------------------------------------
(* The combined invariant and what follows from it.                          *)

IInv == TypeInv /\ LockInv /\ GenInv /\ HandleInv

LEMMA Invariance == Spec => []IInv
<1>1. Init => IInv
  BY TypeInit, LockInit, GenInit, HandleInit DEF IInv
<1>2. IInv /\ [Next]_vars => IInv'
  <2> SUFFICES ASSUME IInv, [Next]_vars PROVE IInv'
    OBVIOUS
  <2>1. TypeInv'
    BY FlagStep, DataStep DEF IInv, TypeInv
  <2>2. LockInv' /\ GenInv' /\ HandleInv'
    BY <2>1, LockStep, GenStep, HandleStep DEF IInv
  <2>3. QED
    BY <2>1, <2>2 DEF IInv
<1>3. QED
  BY <1>1, <1>2, PTL DEF Spec

\* As long as the list was fetched at most once since main() built it, the
\* mutex a command or air control looks up for a port is the only one in use for
\* that port: nobody else drives the port.
THEOREM FirstFetchPortExclusionHolds == Spec => []FirstFetchPortExclusion
<1>1. IInv => FirstFetchPortExclusion
  <2> SUFFICES ASSUME IInv, gen <= 2, NEW o \in Objs, NEW p \in Objs, o[1] = p[1],
                      NEW u \in BusUsers(o), NEW v \in BusUsers(p)
               PROVE  u = v
    BY DEF FirstFetchPortExclusion, PortExclusion
  <2>1. ASSUME NEW q \in Objs, BusUsers(q) # {}
        PROVE  q[2] = gen
    BY <2>1 DEF BusUsers, IInv, GenInv, Born, TypeInv, DataTypes, ControlTypes, Gens, Objs
  <2>2. o[2] = p[2]
    BY <2>1
  <2>3. o = p
    BY <2>2 DEF Objs
  <2>4. QED
    BY <2>3, LockInvExclusion DEF IInv, MutexExclusion
<1>2. QED
  BY <1>1, Invariance, PTL

\* Whatever stops the UDP server, main() finds no null handle to join.
THEOREM NoNullJoinHolds == Spec => []NoNullJoin
<1>1. IInv => NoNullJoin
  BY ConstantsAssumption DEF IInv, TypeInv, LockInv, HandleInv, Numbered, NoNullJoin,
     DataTypes, ObjectTypes, ThreadTypes, Threads, NoThread
<1>2. QED
  BY <1>1, Invariance, PTL

------------------------------------------------------------------------------
(* The mutexes implement SerialBus.                                          *)

\* Nobody enters or leaves an exchange, and the process goes on.
Quiet ==
  /\ \A t \in Threads : /\ pc'[t] = "bus" <=> pc[t] = "bus"
                        /\ pc[t] = "bus" => mtx'[t] = mtx[t]
  /\ udp' = "bus" <=> udp = "bus"
  /\ udp = "bus" => order' = order
  /\ Ended' <=> Ended

\* The steps the abstract bus sees.
BusStep == \/ \E t \in Threads : Lock(t) \/ Unlock(t)
           \/ UdpLock \/ UdpUnlock \/ MainExit \/ Crash

LEMMA OtherStepsQuiet == TypeInv /\ LockInv /\ [Next]_vars => Quiet \/ BusStep
<1> SUFFICES ASSUME DataTypes, Numbered, [Next]_vars PROVE Quiet \/ BusStep
  BY DEF TypeInv, LockInv
<1> USE ConstantsAssumption
        DEF DataTypes, ObjectTypes, ThreadTypes, ControlTypes, Numbered, Quiet, Ended,
            Threads, shared, objVars, flagVars, airVars, thrVars, udpVars
<1>1. CASE UdpBoot
  BY <1>1 DEF UdpBoot, LoopHead
<1>2. CASE UdpTimeout
  BY <1>2 DEF UdpTimeout
<1>3. CASE SignHandler
  BY <1>3 DEF SignHandler, ExitThreadObjects
<1>4. CASE CmdStart
  BY <1>4 DEF CmdStart, Receive, LoopHead
<1>5. CASE CmdStop
  BY <1>5 DEF CmdStop, Receive, ExitThreadObjects, LoopHead
<1>6. CASE CmdRestart
  BY <1>6 DEF CmdRestart, Receive, ExitThreadObjects
<1>7. CASE CmdShutdown
  BY <1>7 DEF CmdShutdown, Receive, ExitThreadObjects
<1>8. CASE CmdTest
  BY <1>8 DEF CmdTest, Receive
<1>9. CASE CmdAirControl
  BY <1>9 DEF CmdAirControl, Receive, LoopHead
<1>10. ASSUME NEW c \in Coms, CmdSetorder(c) PROVE Quiet \/ BusStep
  BY <1>10 DEF CmdSetorder, Receive, Current, LoopHead
<1>11. ASSUME NEW c \in Coms, CmdCmd(c) PROVE Quiet \/ BusStep
  BY <1>11 DEF CmdCmd, Receive, Current, LoopHead
<1>12. CASE RestartStart
  BY <1>12 DEF RestartStart
<1>13. CASE UdpFree
  BY <1>13 DEF UdpFree
<1>14. CASE UdpFetch
  BY <1>14 DEF UdpFetch, LoopHead
<1>15. ASSUME NEW o \in Objs, UdpCreate(o) PROVE Quiet \/ BusStep
  BY <1>15 DEF UdpCreate, Launch
<1>16. CASE UdpCreated
  BY <1>16 DEF UdpCreated, LoopHead
<1>17. CASE UdpAir
  BY <1>17 DEF UdpAir, Launch, LoopHead
<1>18. CASE UdpLock
  BY <1>18 DEF BusStep
<1>19. CASE UdpUnlock
  BY <1>19 DEF BusStep
<1>20. CASE UdpFinish
  BY <1>20 DEF UdpFinish, ExitThreadObjects
<1>21. ASSUME NEW t \in Threads, ThreadNext(t) PROVE Quiet \/ BusStep
  <2> USE DEF Goto, thrRest
  <2>1. CASE PollerNoDb(t)
    BY <2>1 DEF PollerNoDb
  <2>2. CASE PollerEnter(t)
    BY <2>2 DEF PollerEnter
  <2>3. CASE PollerInitFail(t)
    BY <2>3 DEF PollerInitFail
  <2>4. CASE PollerPoll(t)
    BY <2>4 DEF PollerPoll
  <2>5. CASE PollerExit(t)
    BY <2>5 DEF PollerExit
  <2>6. CASE Lock(t)
    BY <2>6 DEF BusStep
  <2>7. CASE Unlock(t)
    BY <2>7 DEF BusStep
  <2>8. CASE AirBegin(t)
    BY <2>8 DEF AirBegin
  <2>9. CASE AirSetup(t)
    BY <2>9 DEF AirSetup
  <2>10. CASE AirLoop(t)
    BY <2>10 DEF AirLoop
  <2>11. CASE AirRoundEnd(t)
    BY <2>11 DEF AirRoundEnd
  <2>12. CASE AirWake(t)
    BY <2>12 DEF AirWake
  <2>13. ASSUME NEW c \in Coms, AirOperate(t, c) PROVE Quiet \/ BusStep
    BY <2>13 DEF AirOperate, Current
  <2>14. QED
    BY <1>21, <2>1, <2>2, <2>3, <2>4, <2>5, <2>6, <2>7, <2>8, <2>9, <2>10,
       <2>11, <2>12, <2>13 DEF ThreadNext
<1>22. CASE MainJoinUdp
  BY <1>22 DEF MainJoinUdp
<1>23. CASE MainJoinAir
  BY <1>23 DEF MainJoinAir
<1>24. CASE MainExit
  BY <1>24 DEF BusStep
<1>25. CASE Crash
  BY <1>25 DEF BusStep
<1>26. CASE UNCHANGED vars
  BY <1>26 DEF vars
<1>27. QED
  BY <1>1, <1>2, <1>3, <1>4, <1>5, <1>6, <1>7, <1>8, <1>9, <1>10, <1>11, <1>12,
     <1>13, <1>14, <1>15, <1>16, <1>17, <1>18, <1>19, <1>20, <1>21, <1>22,
     <1>23, <1>24, <1>25, <1>26 DEF Next, UdpNext

LEMMA BusInit == Init => Bus!Init
<1> SUFFICES ASSUME Init PROVE Bus!Init
  OBVIOUS
<1>1. ASSUME NEW o \in Objs PROVE BusUsers(o) = {}
  BY DEF Init, BusUsers
<1>2. Ended = FALSE
  BY DEF Init, Ended
<1>3. QED
  BY <1>1, <1>2 DEF Bus!Init

LEMMA QuietStutters ==
  ASSUME Quiet, Ended \in BOOLEAN, Ended' \in BOOLEAN
  PROVE  UNCHANGED Bus!vars
<1>1. \A o \in Objs : BusUsers(o)' = BusUsers(o)
  BY DEF Quiet, BusUsers
<1>2. [o \in Objs |-> BusUsers(o)]' = [o \in Objs |-> BusUsers(o)]
  BY <1>1, Zenon
<1>3. Ended' = Ended
  BY Zenon DEF Quiet
<1>4. QED
  BY <1>2, <1>3, Zenon DEF Bus!vars

\* A user that was nowhere enters an exchange under m.
LEMMA AcquireStep ==
  ASSUME NEW u \in Threads \cup {UdpUser}, NEW m \in Objs,
         ~Ended, Ended' = Ended, BusUsers(m) = {}, \A n \in Objs : u \notin BusUsers(n),
         \A o \in Objs : BusUsers(o)' = IF o = m THEN {u} ELSE BusUsers(o)
  PROVE  Bus!Next
<1>1. [o \in Objs |-> BusUsers(o)]' = [[o \in Objs |-> BusUsers(o)] EXCEPT ![m] = {u}]
  BY Zenon
<1>2. Bus!Acquire(u, m)
  BY <1>1 DEF Bus!Acquire
<1>3. QED
  BY <1>2 DEF Bus!Next

\* The only user of m leaves its exchange.
LEMMA ReleaseStep ==
  ASSUME NEW u, NEW m \in Objs,
         ~Ended, Ended' = Ended, BusUsers(m) = {u},
         \A o \in Objs : BusUsers(o)' = IF o = m THEN {} ELSE BusUsers(o)
  PROVE  Bus!Next
<1>1. [o \in Objs |-> BusUsers(o)]'
        = [[o \in Objs |-> BusUsers(o)] EXCEPT ![m] = BusUsers(m) \ {u}]
  BY Zenon
<1>2. Bus!Release(m)
  BY <1>1 DEF Bus!Release
<1>3. QED
  BY <1>2 DEF Bus!Next

LEMMA BusStepImplements == TypeInv /\ LockInv /\ [Next]_vars => [Bus!Next]_(Bus!vars)
<1> SUFFICES ASSUME TypeInv, LockInv, [Next]_vars PROVE [Bus!Next]_(Bus!vars)
  OBVIOUS
<1>0. Ended \in BOOLEAN /\ Ended' \in BOOLEAN
  BY DEF Ended
<1>1. CASE Quiet
  BY <1>0, <1>1, QuietStutters
<1>2. CASE UNCHANGED vars
  <2>1. Quiet
    BY <1>2 DEF vars, thrVars, udpVars, Quiet, Ended
  <2>2. QED
    BY <1>0, <2>1, QuietStutters
<1>3. CASE BusStep /\ Next
  <2> USE DEF thrVars, udpVars, thrRest, LoopHead, Goto
  <2>1. ~Ended
    BY <1>3 DEF Next
  <2>2. /\ MutexExclusion
        /\ DataTypes /\ Named
    BY LockInvExclusion DEF TypeInv, LockInv
  <2>3. UdpUser \notin Threads
    BY DEF UdpUser, Threads
  <2>4. ASSUME NEW t \in Threads, Lock(t) PROVE Bus!Next
    <3>1. mtx[t] \in Objs /\ ~locked[mtx[t]] /\ pc[t] = "want" /\ Ended' = Ended
      BY <2>4, <2>2 DEF Lock, Named, Ended
    <3>2. BusUsers(mtx[t]) = {}
      BY <3>1, <2>2 DEF MutexExclusion
    <3>3. \A n \in Objs : t \notin BusUsers(n)
      BY <3>1, <2>3 DEF BusUsers
    <3>4. ASSUME NEW o \in Objs
          PROVE  BusUsers(o)' = IF o = mtx[t] THEN {t} ELSE BusUsers(o)
      <4>1. \A u \in Threads : pc'[u] = "bus" <=> pc[u] = "bus" \/ u = t
        BY <2>4, <2>2 DEF Lock, DataTypes, ThreadTypes
      <4>2. BusUsers(o)' = BusUsers(o) \cup (IF o = mtx[t] THEN {t} ELSE {})
        BY <4>1, <2>4 DEF Lock, BusUsers
      <4>3. QED
        BY <4>2, <3>2
    <3>5. QED
      BY <2>1, <3>1, <3>2, <3>3, <3>4, AcquireStep
  <2>5. ASSUME NEW t \in Threads, Unlock(t) PROVE Bus!Next
    <3>1. mtx[t] \in Objs /\ pc[t] = "bus" /\ Ended' = Ended
      BY <2>5, <2>2 DEF Unlock, Named, Ended
    <3>2. BusUsers(mtx[t]) = {t}
      <4>1. t \in BusUsers(mtx[t])
        BY <3>1 DEF BusUsers
      <4>2. QED
        BY <4>1, <3>1, <2>2 DEF MutexExclusion
    <3>3. ASSUME NEW o \in Objs
          PROVE  BusUsers(o)' = IF o = mtx[t] THEN {} ELSE BusUsers(o)
      <4>1. \A u \in Threads : pc'[u] = "bus" <=> pc[u] = "bus" /\ u # t
        BY <2>5, <2>2 DEF Unlock, DataTypes, ThreadTypes
      <4>2. BusUsers(o)' = BusUsers(o) \ {t}
        BY <4>1, <2>5, <2>3 DEF Unlock, BusUsers
      <4>3. o # mtx[t] => t \notin BusUsers(o)
        BY <2>3 DEF BusUsers
      <4>4. QED
        BY <4>2, <4>3, <3>2
    <3>4. QED
      BY <2>1, <3>1, <3>2, <3>3, ReleaseStep
  <2>6. CASE UdpLock
    <3>1. order \in Objs /\ ~locked[order] /\ udp = "want" /\ Ended' = Ended
      BY <2>6, <2>2 DEF UdpLock, Named, Ended
    <3>2. BusUsers(order) = {}
      BY <3>1, <2>2 DEF MutexExclusion
    <3>3. \A n \in Objs : UdpUser \notin BusUsers(n)
      BY <3>1, <2>3 DEF BusUsers
    <3>4. \A o \in Objs : BusUsers(o)' = IF o = order THEN {UdpUser} ELSE BusUsers(o)
      <4>1. \A o \in Objs :
              BusUsers(o)' = BusUsers(o) \cup (IF o = order THEN {UdpUser} ELSE {})
        BY <2>6 DEF UdpLock, BusUsers
      <4>2. QED
        BY <4>1, <3>2
    <3>5. QED
      BY <2>1, <3>1, <3>2, <3>3, <3>4, AcquireStep
  <2>7. CASE UdpUnlock
    <3>1. order \in Objs /\ udp = "bus" /\ Ended' = Ended
      BY <2>7, <2>2 DEF UdpUnlock, Named, Ended
    <3>2. BusUsers(order) = {UdpUser}
      <4>1. UdpUser \in BusUsers(order)
        BY <3>1 DEF BusUsers
      <4>2. QED
        BY <4>1, <3>1, <2>2 DEF MutexExclusion
    <3>3. ASSUME NEW o \in Objs
          PROVE  BusUsers(o)' = IF o = order THEN {} ELSE BusUsers(o)
      <4>1. BusUsers(o)' = {u \in Threads : pc[u] = "bus" /\ mtx[u] = o}
        BY <2>7 DEF UdpUnlock, BusUsers
      <4>2. o # order => BusUsers(o) = {u \in Threads : pc[u] = "bus" /\ mtx[u] = o}
        BY DEF BusUsers
      <4>3. {u \in Threads : pc[u] = "bus" /\ mtx[u] = order} = {}
        BY <3>2, <2>3 DEF BusUsers
      <4>4. QED
        BY <4>1, <4>2, <4>3
    <3>4. QED
      BY <2>1, <3>1, <3>2, <3>3, ReleaseStep
  <2>8. CASE MainExit \/ Crash
    <3>1. Ended' /\ \A o \in Objs : BusUsers(o)' = BusUsers(o)
      BY <2>8 DEF MainExit, Crash, Ended, BusUsers
    <3>2. [o \in Objs |-> BusUsers(o)]' = [o \in Objs |-> BusUsers(o)]
      BY <3>1, Zenon
    <3>3. Bus!End
      BY <2>1, <3>1, <3>2, <1>0, Zenon DEF Bus!End
    <3>4. QED
      BY <3>3 DEF Bus!Next
  <2>9. QED
    BY <1>3, <2>4, <2>5, <2>6, <2>7, <2>8 DEF BusStep
<1>4. QED
  BY <1>1, <1>2, <1>3, OtherStepsQuiet

\* The mutexes of ThreadControl implement the abstract bus (its safety part):
\* exchanges are critical sections, for every choice of the constants.
THEOREM BusRefinement == Spec => Bus!Spec
<1>1. IInv /\ [Next]_vars => [Bus!Next]_(Bus!vars)
  BY BusStepImplements DEF IInv
<1>2. QED
  BY <1>1, BusInit, Invariance, PTL DEF Spec, Bus!Spec

------------------------------------------------------------------------------
(* A patient operator.                                                       *)

Alive(t) == pc[t] \notin {"none", "done"}

\* Who a thread is, and which stages are those of air control.
Roles ==
  /\ \A t \in Threads : pc[t] # "none" => kind[t] \in {"poller", "air"}
  /\ \A t \in Threads : pc[t] \in {"setup", "round", "sleep"} => kind[t] = "air"

\* No two live threads have the same lists.
Distinct ==
  \A t, u \in Threads :
    Alive(t) /\ Alive(u) /\ kind[t] = kind[u] /\ home[t] = home[u] => t = u

\* The list is freed and fetched only while no thread lives.
Rebuilt == udp # "pause" /\ (udp \in {"free", "fetch"} => \A t \in Threads : ~Alive(t))

\* While threads are created, the live ones are those created by the same command.
Created ==
  /\ udp = "create" => \A t \in Threads : Alive(t) => kind[t] = "poller" /\ home[t] \notin todo
  /\ udp = "air" => \A t \in Threads : Alive(t) => kind[t] = "poller"

\* The handle of air control names its only live thread.
AirNamed == \A t \in Threads : Alive(t) /\ kind[t] = "air" => t = air_thr

\* A server told to leave leaves, and no thread is still starting.
Leaving ==
  /\ ~thread_server_udp_select_flag =>
       /\ udp \in {"boot", "select", "join_air", "gone"}
       /\ \A t \in Threads : pc[t] \notin {"init", "nodb", "setup"}
  /\ udp = "join_air" => ~thread_server_udp_select_flag

PatientInv ==
  Roles /\ Distinct /\ Rebuilt /\ Created /\ AirNamed /\ Leaving /\ main # "crashed"

LEMMA PatientInit == Init => PatientInv
  BY DEF Init, PatientInv, Roles, Distinct, Rebuilt, Created, AirNamed, Leaving, Alive

LEMMA PatientNoRace ==
  ASSUME Patient, TypeInv, PatientInv
  PROVE  ~Race
<1> USE DEF PatientInv
<1>1. ~(udp \in {"free", "fetch"} /\ ListReaders # {})
  BY DEF Rebuilt, Alive, ListReaders
<1>2. ~(udp = "join_air" /\ ListReaders # {} /\ (air_thr # NoThread => pc[air_thr] = "done"))
  <2> SUFFICES ASSUME udp = "join_air", NEW t \in ListReaders,
                      air_thr # NoThread => pc[air_thr] = "done"
               PROVE  FALSE
    OBVIOUS
  <2>1. pc[t] \notin {"init", "nodb", "setup"}
    BY DEF Leaving, ListReaders
  <2>2. pc[t] = "round" /\ kind[t] = "air"
    BY <2>1 DEF ListReaders, Roles
  <2>3. t = air_thr
    BY <2>2 DEF AirNamed, Alive, ListReaders
  <2>4. QED
    BY <2>2, <2>3, ConstantsAssumption DEF ListReaders, Threads, NoThread
<1>3. ASSUME NEW t \in Live
      PROVE  Siblings(t) = {}
  BY DEF Siblings, Distinct, Live, Alive
<1>4. QED
  BY <1>1, <1>2, <1>3 DEF Race

LEMMA PatientStep ==
  ASSUME Patient, "restart" \notin Commands, TypeInv, LockInv, PatientInv, [Next]_vars
  PROVE  PatientInv'
<1> SUFFICES ASSUME Patient, "restart" \notin Commands, DataTypes, FlagTypes, Numbered, PatientInv, ~Race,
                    [Next]_vars
             PROVE  PatientInv'
  BY PatientNoRace DEF TypeInv, LockInv
<1> USE ConstantsAssumption
        DEF FlagTypes, DataTypes, ObjectTypes, ThreadTypes, ControlTypes, Numbered, Threads, NoThread,
            PatientInv, Roles, Distinct, Rebuilt, Created, AirNamed, Leaving, Alive,
            shared, objVars, flagVars, airVars, thrVars, udpVars
<1>1. CASE UdpBoot
  BY <1>1 DEF UdpBoot, LoopHead
<1>2. CASE UdpTimeout
  BY <1>2 DEF UdpTimeout
<1>3. CASE SignHandler
  BY <1>3, ZenonT(60) DEF SignHandler, ExitThreadObjects, Settled, Initialising, Live
<1>4. CASE CmdStart
  BY <1>4 DEF CmdStart, Receive, LoopHead, Settled, Initialising, Live
<1>5. CASE CmdStop
  BY <1>5 DEF CmdStop, Receive, ExitThreadObjects, LoopHead, Settled, Initialising, Live
<1>6. CASE CmdRestart
  BY <1>6 DEF CmdRestart, Receive, ExitThreadObjects
<1>7. CASE CmdShutdown
  BY <1>7 DEF CmdShutdown, Receive, ExitThreadObjects, Settled, Initialising, Live
<1>8. CASE CmdTest
  BY <1>8 DEF CmdTest, Receive, Settled, Initialising, Live
<1>9. CASE CmdAirControl
  BY <1>9 DEF CmdAirControl, Receive, LoopHead, Settled, Initialising, Live
<1>10. ASSUME NEW c \in Coms, CmdSetorder(c) PROVE PatientInv'
  BY <1>10 DEF CmdSetorder, Receive, Current, LoopHead, Settled, Initialising, Live
<1>11. ASSUME NEW c \in Coms, CmdCmd(c) PROVE PatientInv'
  BY <1>11 DEF CmdCmd, Receive, Current, LoopHead, Settled, Initialising, Live
<1>12. CASE RestartStart
  BY <1>12 DEF RestartStart
<1>13. CASE UdpFree
  BY <1>13 DEF UdpFree
<1>14. CASE UdpFetch
  BY <1>14 DEF UdpFetch, LoopHead
<1>15. ASSUME NEW o \in Objs, UdpCreate(o) PROVE PatientInv'
  BY <1>15 DEF UdpCreate, Launch
<1>16. CASE UdpCreated
  BY <1>16 DEF UdpCreated, LoopHead
<1>17. CASE UdpAir
  BY <1>17 DEF UdpAir, Launch, LoopHead
<1>18. CASE UdpLock
  BY <1>18 DEF UdpLock
<1>19. CASE UdpUnlock
  BY <1>19 DEF UdpUnlock, LoopHead
<1>20. CASE UdpFinish
  BY <1>20 DEF UdpFinish, ExitThreadObjects
<1>21. ASSUME NEW t \in Threads, ThreadNext(t) PROVE PatientInv'
  <2> USE DEF Goto, thrRest
  <2>1. CASE PollerNoDb(t)
    BY <2>1 DEF PollerNoDb
  <2>2. CASE PollerEnter(t)
    <3>1. PICK to \in {"loop", "idle"} : pc' = [pc EXCEPT ![t] = to]
      BY <2>2 DEF PollerEnter
    <3>2. pc[t] \in {"init", "nodb"} /\ t \in Pollers
      BY <2>2 DEF PollerEnter
    <3>3. UNCHANGED <<udp, todo, air_thr, thread_server_udp_select_flag, kind, home, main>>
      BY <2>2 DEF PollerEnter
    <3>4. QED
      BY <3>1, <3>2, <3>3 DEF Pollers, Airs
  <2>3. CASE PollerInitFail(t)
    <3>1. PICK to \in {"done"} : pc' = [pc EXCEPT ![t] = to]
      BY <2>3 DEF PollerInitFail
    <3>2. pc[t] \in {"init", "nodb"} /\ t \in Pollers
      BY <2>3 DEF PollerInitFail
    <3>3. UNCHANGED <<udp, todo, air_thr, thread_server_udp_select_flag, kind, home, main>>
      BY <2>3 DEF PollerInitFail
    <3>4. QED
      BY <3>1, <3>2, <3>3 DEF Pollers, Airs
  <2>4. CASE PollerPoll(t)
    BY <2>4 DEF PollerPoll, Pollers
  <2>5. CASE PollerExit(t)
    <3>1. PICK to \in {"done"} : pc' = [pc EXCEPT ![t] = to]
      BY <2>5 DEF PollerExit
    <3>2. pc[t] \in {"loop", "idle"} /\ t \in Pollers
      BY <2>5 DEF PollerExit
    <3>3. UNCHANGED <<udp, todo, air_thr, thread_server_udp_select_flag, kind, home, main>>
      BY <2>5 DEF PollerExit
    <3>4. QED
      BY <3>1, <3>2, <3>3 DEF Pollers, Airs
  <2>6. CASE Lock(t)
    BY <2>6 DEF Lock
  <2>7. CASE Unlock(t)
    BY <2>7 DEF Unlock
  <2>8. CASE AirBegin(t)
    <3>1. PICK to \in {"setup", "done"} : pc' = [pc EXCEPT ![t] = to]
      BY <2>8 DEF AirBegin
    <3>2. pc[t] \in {"init"} /\ t \in Airs
      BY <2>8 DEF AirBegin
    <3>3. UNCHANGED <<udp, todo, air_thr, thread_server_udp_select_flag, kind, home, main>>
      BY <2>8 DEF AirBegin
    <3>4. QED
      BY <3>1, <3>2, <3>3 DEF Pollers, Airs
  <2>9. CASE AirSetup(t)
    BY <2>9 DEF AirSetup, Airs
  <2>10. CASE AirLoop(t)
    <3>1. PICK to \in {"round", "done"} : pc' = [pc EXCEPT ![t] = to]
      BY <2>10 DEF AirLoop
    <3>2. pc[t] \in {"loop"} /\ t \in Airs
      BY <2>10 DEF AirLoop
    <3>3. UNCHANGED <<udp, todo, air_thr, thread_server_udp_select_flag, kind, home, main>>
      BY <2>10 DEF AirLoop
    <3>4. QED
      BY <3>1, <3>2, <3>3 DEF Pollers, Airs
  <2>11. CASE AirRoundEnd(t)
    BY <2>11 DEF AirRoundEnd
  <2>12. CASE AirWake(t)
    BY <2>12 DEF AirWake
  <2>13. ASSUME NEW c \in Coms, AirOperate(t, c) PROVE PatientInv'
    BY <2>13 DEF AirOperate, Current
  <2>14. QED
    BY <1>21, <2>1, <2>2, <2>3, <2>4, <2>5, <2>6, <2>7, <2>8, <2>9, <2>10,
       <2>11, <2>12, <2>13 DEF ThreadNext
<1>22. CASE MainJoinUdp
  BY <1>22 DEF MainJoinUdp
<1>23. CASE MainJoinAir
  BY <1>23 DEF MainJoinAir
<1>24. CASE MainExit
  BY <1>24 DEF MainExit
<1>25. CASE Crash
  BY <1>25 DEF Crash
<1>26. CASE UNCHANGED vars
  BY <1>26 DEF vars
<1>27. QED
  BY <1>1, <1>2, <1>3, <1>4, <1>5, <1>6, <1>7, <1>8, <1>9, <1>10, <1>11, <1>12,
     <1>13, <1>14, <1>15, <1>16, <1>17, <1>18, <1>19, <1>20, <1>21, <1>22,
     <1>23, <1>24, <1>25, <1>26 DEF Next, UdpNext

\* With an operator who waits until nothing is starting, and who waits until every thread
\* has ended before anything is started, tested or shut down (so he cannot use restart,
\* which waits one second only), no list is rewritten while a thread reads it: whatever
\* ports the queries of hardcom return and whatever fails.
THEOREM PatientNeverCrashes ==
  ASSUME Patient, "restart" \notin Commands
  PROVE  Spec => []NoCrash
<1>1. Init => PatientInv
  BY PatientInit
<1>2. IInv /\ PatientInv /\ [Next]_vars => PatientInv'
  BY PatientStep DEF IInv
<1>3. IInv /\ PatientInv => NoCrash
  BY PatientNoRace DEF IInv, PatientInv, NoCrash
<1>4. QED
  BY <1>1, <1>2, <1>3, Invariance, PTL DEF Spec

------------------------------------------------------------------------------
(* The list a setorder consults while the service runs.                      *)

\* The handle of o names a poller of o.
Handled(o) ==
  /\ o \in thread_object_list /\ thr[o] # NoThread
  /\ kind[thr[o]] = "poller" /\ home[thr[o]] = o

\* Once start or test has fetched the list, each object of it is registered and either
\* has its thread or is still to get it.
ServedInv ==
  /\ udp = "free" => op \in {"start", "shutdown", "test"}
  /\ udp \in {"pause", "fetch"} => op \in {"start", "test"}
  /\ thread_running_flag /\ udp \notin {"free", "fetch"} =>
       \A o \in g_comharddevice_list :
         o \in thread_object_list /\ (Handled(o) \/ (udp = "create" /\ o \in todo))

LEMMA ServedInit == Init => ServedInv
  BY DEF Init, ServedInv

LEMMA ServedStep ==
  ASSUME "cmd" \notin Commands, "air_control" \notin Commands, IInv, ServedInv, [Next]_vars
  PROVE  ServedInv'
<1> SUFFICES ASSUME "cmd" \notin Commands, "air_control" \notin Commands, DataTypes, FlagTypes,
                    Numbered, udp = "fetch" => g_comharddevice_list = {}, HandleInv, ServedInv,
                    [Next]_vars
             PROVE  ServedInv'
  BY DEF IInv, TypeInv, LockInv, GenInv
<1> USE ConstantsAssumption
        DEF FlagTypes, DataTypes, ObjectTypes, ThreadTypes, ControlTypes, Numbered, Threads, NoThread,
            HandleInv, ServedInv, Handled,
            shared, objVars, flagVars, airVars, thrVars, udpVars
<1>1. CASE UdpBoot
  BY <1>1 DEF UdpBoot, LoopHead
<1>2. CASE UdpTimeout
  BY <1>2 DEF UdpTimeout
<1>3. CASE SignHandler
  BY <1>3 DEF SignHandler, ExitThreadObjects
<1>4. CASE CmdStart
  BY <1>4 DEF CmdStart, Receive, LoopHead
<1>5. CASE CmdStop
  BY <1>5 DEF CmdStop, Receive, ExitThreadObjects, LoopHead
<1>6. CASE CmdRestart
  BY <1>6 DEF CmdRestart, Receive, ExitThreadObjects
<1>7. CASE CmdShutdown
  BY <1>7 DEF CmdShutdown, Receive, ExitThreadObjects
<1>8. CASE CmdTest
  BY <1>8 DEF CmdTest, Receive
<1>9. CASE CmdAirControl
  BY <1>9 DEF CmdAirControl, Receive, LoopHead
<1>10. ASSUME NEW c \in Coms, CmdSetorder(c) PROVE ServedInv'
  BY <1>10 DEF CmdSetorder, Receive, Current, LoopHead
<1>11. ASSUME NEW c \in Coms, CmdCmd(c) PROVE ServedInv'
  BY <1>11 DEF CmdCmd, Receive, Current, LoopHead
<1>12. CASE RestartStart
  BY <1>12 DEF RestartStart
<1>13. CASE UdpFree
  BY <1>13 DEF UdpFree
<1>14. CASE UdpFetch
  BY <1>14 DEF UdpFetch, LoopHead
<1>15. ASSUME NEW o \in Objs, UdpCreate(o) PROVE ServedInv'
  BY <1>15 DEF UdpCreate, Launch
<1>16. CASE UdpCreated
  BY <1>16 DEF UdpCreated, LoopHead
<1>17. CASE UdpAir
  BY <1>17 DEF UdpAir, Launch, LoopHead
<1>18. CASE UdpLock
  BY <1>18 DEF UdpLock
<1>19. CASE UdpUnlock
  BY <1>19 DEF UdpUnlock, LoopHead
<1>20. CASE UdpFinish
  BY <1>20 DEF UdpFinish, ExitThreadObjects
<1>21. ASSUME NEW t \in Threads, ThreadNext(t) PROVE ServedInv'
  <2> USE DEF Goto, thrRest
  <2>1. CASE PollerNoDb(t)
    BY <2>1 DEF PollerNoDb
  <2>2. CASE PollerEnter(t)
    BY <2>2 DEF PollerEnter
  <2>3. CASE PollerInitFail(t)
    BY <2>3 DEF PollerInitFail
  <2>4. CASE PollerPoll(t)
    BY <2>4 DEF PollerPoll, Pollers
  <2>5. CASE PollerExit(t)
    BY <2>5 DEF PollerExit
  <2>6. CASE Lock(t)
    BY <2>6 DEF Lock
  <2>7. CASE Unlock(t)
    BY <2>7 DEF Unlock
  <2>8. CASE AirBegin(t)
    BY <2>8 DEF AirBegin, Airs
  <2>9. CASE AirSetup(t)
    BY <2>9 DEF AirSetup, Airs
  <2>10. CASE AirLoop(t)
    BY <2>10 DEF AirLoop, Airs
  <2>11. CASE AirRoundEnd(t)
    BY <2>11 DEF AirRoundEnd
  <2>12. CASE AirWake(t)
    BY <2>12 DEF AirWake
  <2>13. ASSUME NEW c \in Coms, AirOperate(t, c) PROVE ServedInv'
    BY <2>13 DEF AirOperate, Current
  <2>14. QED
    BY <1>21, <2>1, <2>2, <2>3, <2>4, <2>5, <2>6, <2>7, <2>8, <2>9, <2>10,
       <2>11, <2>12, <2>13 DEF ThreadNext
<1>22. CASE MainJoinUdp
  BY <1>22 DEF MainJoinUdp
<1>23. CASE MainJoinAir
  BY <1>23 DEF MainJoinAir
<1>24. CASE MainExit
  BY <1>24 DEF MainExit
<1>25. CASE Crash
  BY <1>25 DEF Crash
<1>26. CASE UNCHANGED vars
  BY <1>26 DEF vars
<1>27. QED
  BY <1>1, <1>2, <1>3, <1>4, <1>5, <1>6, <1>7, <1>8, <1>9, <1>10, <1>11, <1>12,
     <1>13, <1>14, <1>15, <1>16, <1>17, <1>18, <1>19, <1>20, <1>21, <1>22,
     <1>23, <1>24, <1>25, <1>26 DEF Next, UdpNext

\* Where an operator starts and stops the service with start, stop, restart, test and
\* shutdown (cmd and air_control fetch the list behind the back of the pollers), the list
\* in which setorder looks up the mutex of a port is always the one the running pollers
\* were built from.
THEOREM ServedByCurrentListHolds ==
  ASSUME "cmd" \notin Commands, "air_control" \notin Commands
  PROVE  Spec => []ServedByCurrentList
<1>1. Init => ServedInv
  BY ServedInit
<1>2. IInv /\ ServedInv /\ [Next]_vars => ServedInv'
  BY ServedStep
<1>3. ServedInv => ServedByCurrentList
  BY DEF ServedInv, ServedByCurrentList, Handled
<1>4. QED
  BY <1>1, <1>2, <1>3, Invariance, PTL DEF Spec

------------------------------------------------------------------------------
(* A single start.                                                           *)

\* Somebody has a handle that names t.
Joined(t) ==
  /\ kind[t] = "poller" => /\ home[t] \in thread_object_list /\ thr[home[t]] = t
                           /\ udp = "create" => home[t] \notin todo
  /\ kind[t] = "air" => t = air_thr /\ udp \notin {"create", "air"}

\* What main() has joined so far has ended.
JoinInv ==
  /\ \A t \in Threads : pc[t] = "none" <=> kind[t] = "none"
  /\ udp = "create" => todo \subseteq thread_object_list
  /\ gen <= 2 => \A t \in Threads : Joined(t)
  /\ main \in {"join_air", "join_pollers", "exited"} => udp = "gone"
  /\ main \in {"join_pollers", "exited"} /\ air_thr # NoThread => pc[air_thr] = "done"
  /\ main = "exited" => \A o \in thread_object_list : thr[o] # NoThread /\ pc[thr[o]] = "done"

LEMMA JoinInit == Init => JoinInv
  BY DEF Init, JoinInv, Joined

LEMMA JoinStep ==
  ASSUME IInv, JoinInv, [Next]_vars
  PROVE  JoinInv'
<1> SUFFICES ASSUME DataTypes, FlagTypes, Numbered, nthreads > 0 => gen >= 2,
                    HandleInv, JoinInv, [Next]_vars
             PROVE  JoinInv'
  BY DEF IInv, TypeInv, LockInv, GenInv
<1> USE ConstantsAssumption
        DEF FlagTypes, DataTypes, ObjectTypes, ThreadTypes, ControlTypes, Numbered, Threads, NoThread,
            Gens, HandleInv, JoinInv, Joined,
            shared, objVars, flagVars, airVars, thrVars, udpVars
<1>1. CASE UdpBoot
  BY <1>1 DEF UdpBoot, LoopHead
<1>2. CASE UdpTimeout
  BY <1>2 DEF UdpTimeout
<1>3. CASE SignHandler
  BY <1>3 DEF SignHandler, ExitThreadObjects
<1>4. CASE CmdStart
  BY <1>4 DEF CmdStart, Receive, LoopHead
<1>5. CASE CmdStop
  BY <1>5 DEF CmdStop, Receive, ExitThreadObjects, LoopHead
<1>6. CASE CmdRestart
  BY <1>6 DEF CmdRestart, Receive, ExitThreadObjects
<1>7. CASE CmdShutdown
  BY <1>7 DEF CmdShutdown, Receive, ExitThreadObjects
<1>8. CASE CmdTest
  BY <1>8 DEF CmdTest, Receive
<1>9. CASE CmdAirControl
  BY <1>9 DEF CmdAirControl, Receive, LoopHead
<1>10. ASSUME NEW c \in Coms, CmdSetorder(c) PROVE JoinInv'
  BY <1>10 DEF CmdSetorder, Receive, Current, LoopHead
<1>11. ASSUME NEW c \in Coms, CmdCmd(c) PROVE JoinInv'
  BY <1>11 DEF CmdCmd, Receive, Current, LoopHead
<1>12. CASE RestartStart
  BY <1>12 DEF RestartStart
<1>13. CASE UdpFree
  BY <1>13 DEF UdpFree
<1>14. CASE UdpFetch
  <2>1. gen' <= 2 => \A t \in Threads : kind[t] = "none"
    BY <1>14 DEF UdpFetch
  <2>2. gen' <= 2 => \A t \in Threads : Joined(t)'
    BY <1>14, <2>1 DEF UdpFetch
  <2>3. udp' = "create" => todo' \subseteq thread_object_list'
    BY <1>14 DEF UdpFetch, LoopHead
  <2>4. UNCHANGED <<kind, pc, main, thr, air_thr>> /\ udp # "gone"
    BY <1>14 DEF UdpFetch
  <2>5. main \in {"join_udp", "crashed"}
    BY <2>4
  <2>6. QED
    BY <2>2, <2>3, <2>4, <2>5
<1>15. ASSUME NEW o \in Objs, UdpCreate(o) PROVE JoinInv'
  <2>1. o \in thread_object_list
    BY <1>15 DEF UdpCreate
  <2>2. gen' <= 2 => \A t \in Threads : Joined(t)'
    <3> SUFFICES ASSUME gen <= 2, NEW t \in Threads PROVE Joined(t)'
      BY <1>15 DEF UdpCreate
    <3>1. Joined(t) /\ udp = "create" /\ udp' = "create"
      BY <1>15 DEF UdpCreate
    <3>2. CASE t = nthreads + 1
      <4>1. kind'[t] = "poller" /\ home'[t] = o /\ thr'[o] = t /\ o \notin todo'
        BY <1>15, <3>2 DEF UdpCreate, Launch
      <4>2. QED
        BY <1>15, <2>1, <4>1 DEF UdpCreate
    <3>3. CASE t # nthreads + 1
      <4>1. kind'[t] = kind[t] /\ home'[t] = home[t]
        BY <1>15, <3>3 DEF UdpCreate, Launch
      <4>2. kind[t] = "poller" => home[t] \notin todo /\ home[t] # o
        BY <1>15, <3>1 DEF UdpCreate
      <4>3. kind[t] = "poller" => thr'[home[t]] = thr[home[t]]
        BY <1>15, <4>2 DEF UdpCreate
      <4>4. UNCHANGED <<thread_object_list, air_thr>> /\ todo' \subseteq todo
        BY <1>15 DEF UdpCreate
      <4>5. QED
        BY <3>1, <4>1, <4>2, <4>3, <4>4
    <3>4. QED
      BY <3>2, <3>3
  <2>3. QED
    BY <1>15, <2>1, <2>2 DEF UdpCreate, Launch
<1>16. CASE UdpCreated
  BY <1>16 DEF UdpCreated, LoopHead
<1>17. CASE UdpAir
  BY <1>17 DEF UdpAir, Launch, LoopHead
<1>18. CASE UdpLock
  BY <1>18 DEF UdpLock
<1>19. CASE UdpUnlock
  BY <1>19 DEF UdpUnlock, LoopHead
<1>20. CASE UdpFinish
  BY <1>20 DEF UdpFinish, ExitThreadObjects
<1>21. ASSUME NEW t \in Threads, ThreadNext(t) PROVE JoinInv'
  <2> USE DEF Goto, thrRest
  <2>1. CASE PollerNoDb(t)
    BY <2>1 DEF PollerNoDb
  <2>2. CASE PollerEnter(t)
    <3>1. PICK to \in {"loop", "idle"} : pc' = [pc EXCEPT ![t] = to]
      BY <2>2 DEF PollerEnter
    <3>2. pc[t] \in {"init", "nodb"} /\ t \in Pollers
      BY <2>2 DEF PollerEnter
    <3>3. UNCHANGED <<gen, udp, todo, air_thr, thr, thread_object_list, kind, home, main>>
      BY <2>2 DEF PollerEnter
    <3>4. QED
      BY <3>1, <3>2, <3>3 DEF Pollers, Airs
  <2>3. CASE PollerInitFail(t)
    <3>1. PICK to \in {"done"} : pc' = [pc EXCEPT ![t] = to]
      BY <2>3 DEF PollerInitFail
    <3>2. pc[t] \in {"init", "nodb"} /\ t \in Pollers
      BY <2>3 DEF PollerInitFail
    <3>3. UNCHANGED <<gen, udp, todo, air_thr, thr, thread_object_list, kind, home, main>>
      BY <2>3 DEF PollerInitFail
    <3>4. QED
      BY <3>1, <3>2, <3>3 DEF Pollers, Airs
  <2>4. CASE PollerPoll(t)
    BY <2>4 DEF PollerPoll, Pollers
  <2>5. CASE PollerExit(t)
    <3>1. PICK to \in {"done"} : pc' = [pc EXCEPT ![t] = to]
      BY <2>5 DEF PollerExit
    <3>2. pc[t] \in {"loop", "idle"} /\ t \in Pollers
      BY <2>5 DEF PollerExit
    <3>3. UNCHANGED <<gen, udp, todo, air_thr, thr, thread_object_list, kind, home, main>>
      BY <2>5 DEF PollerExit
    <3>4. QED
      BY <3>1, <3>2, <3>3 DEF Pollers, Airs
  <2>6. CASE Lock(t)
    BY <2>6 DEF Lock
  <2>7. CASE Unlock(t)
    BY <2>7 DEF Unlock
  <2>8. CASE AirBegin(t)
    <3>1. PICK to \in {"setup", "done"} : pc' = [pc EXCEPT ![t] = to]
      BY <2>8 DEF AirBegin
    <3>2. pc[t] \in {"init"} /\ t \in Airs
      BY <2>8 DEF AirBegin
    <3>3. UNCHANGED <<gen, udp, todo, air_thr, thr, thread_object_list, kind, home, main>>
      BY <2>8 DEF AirBegin
    <3>4. QED
      BY <3>1, <3>2, <3>3 DEF Pollers, Airs
  <2>9. CASE AirSetup(t)
    BY <2>9 DEF AirSetup, Airs
  <2>10. CASE AirLoop(t)
    <3>1. PICK to \in {"round", "done"} : pc' = [pc EXCEPT ![t] = to]
      BY <2>10 DEF AirLoop
    <3>2. pc[t] \in {"loop"} /\ t \in Airs
      BY <2>10 DEF AirLoop
    <3>3. UNCHANGED <<gen, udp, todo, air_thr, thr, thread_object_list, kind, home, main>>
      BY <2>10 DEF AirLoop
    <3>4. QED
      BY <3>1, <3>2, <3>3 DEF Pollers, Airs
  <2>11. CASE AirRoundEnd(t)
    BY <2>11 DEF AirRoundEnd
  <2>12. CASE AirWake(t)
    BY <2>12 DEF AirWake
  <2>13. ASSUME NEW c \in Coms, AirOperate(t, c) PROVE JoinInv'
    BY <2>13 DEF AirOperate, Current
  <2>14. QED
    BY <1>21, <2>1, <2>2, <2>3, <2>4, <2>5, <2>6, <2>7, <2>8, <2>9, <2>10,
       <2>11, <2>12, <2>13 DEF ThreadNext
<1>22. CASE MainJoinUdp
  BY <1>22 DEF MainJoinUdp
<1>23. CASE MainJoinAir
  BY <1>23 DEF MainJoinAir
<1>24. CASE MainExit
  BY <1>24 DEF MainExit
<1>25. CASE Crash
  BY <1>25 DEF Crash
<1>26. CASE UNCHANGED vars
  BY <1>26 DEF vars
<1>27. QED
  BY <1>1, <1>2, <1>3, <1>4, <1>5, <1>6, <1>7, <1>8, <1>9, <1>10, <1>11, <1>12,
     <1>13, <1>14, <1>15, <1>16, <1>17, <1>18, <1>19, <1>20, <1>21, <1>22,
     <1>23, <1>24, <1>25, <1>26 DEF Next, UdpNext

\* If the pollers were started once only (gen counts main()'s fetch and that of the first
\* command), main() returns after the last of all threads has ended: nothing that is
\* still running loses its lists and mutexes.
THEOREM FirstStartJoinedHolds == Spec => []FirstStartJoined
<1>1. Init => JoinInv
  BY JoinInit
<1>2. IInv /\ JoinInv /\ [Next]_vars => JoinInv'
  BY JoinStep
<1>3. IInv /\ JoinInv => FirstStartJoined
  <2> SUFFICES ASSUME IInv, JoinInv, main = "exited", gen <= 2, NEW t \in Threads
               PROVE  pc[t] \in {"none", "done"}
    BY DEF FirstStartJoined, Live
  <2>1. kind[t] \in {"none", "poller", "air"} /\ Joined(t)
    BY DEF IInv, TypeInv, DataTypes, ThreadTypes, JoinInv
  <2>2. CASE kind[t] = "none"
    BY <2>2 DEF JoinInv
  <2>3. CASE kind[t] = "poller"
    BY <2>1, <2>3 DEF JoinInv, Joined
  <2>4. CASE kind[t] = "air"
    BY <2>1, <2>4, ConstantsAssumption DEF JoinInv, Joined, Threads, NoThread
  <2>5. QED
    BY <2>1, <2>2, <2>3, <2>4
<1>4. QED
  BY <1>1, <1>2, <1>3, Invariance, PTL DEF Spec

------------------------------------------------------------------------------
(* The settings of the port                                                  *)

\* The threads of a port and the server find the same comharddevice, and its mutex.
OneMutex == \A u, v \in Users : MutexOf[u] = MutexOf[v]

AllAsks == UNION {Asks[u] : u \in Users}

Places == {"idle", "locked", "opened", "talking", "closing", "leaving"}

PortTypes ==
  /\ at \in [Users -> Places]
  /\ fd \in [Users -> {"none", "live", "dead"}]
  /\ asked \in [Users -> AllAsks]
  /\ DOMAIN old_tios = Users
  /\ DOMAIN holder = {MutexOf[u] : u \in Users}
  /\ plugged \in BOOLEAN

\* Who is not idle has the mutex.
Exclusion == \A u \in Users : at[u] # "idle" => holder[MutexOf[u]] = u

\* A descriptor is there only between open() and close(), and live only while the device is.
Descriptors ==
  \A u \in Users :
    /\ fd[u] # "none" => at[u] \in {"opened", "talking", "closing"}
    /\ fd[u] = "live" => plugged

\* Who has the port open has kept what it was found with; it has that itself unless
\* somebody has set it, and then it has what he asked for.
Settings ==
  /\ \A u \in Users : fd[u] = "live" =>
       /\ old_tios[u] = found
       /\ at[u] = "opened" => tty = found
       /\ at[u] = "talking" => tty = TermiosOf(asked[u])
  /\ plugged /\ (\A u \in Users : fd[u] # "live") => tty = found

PortInv == PortTypes /\ Exclusion /\ Descriptors /\ Settings

------------------------------------------------------------------------------

\* One user at a time is not idle.
LEMMA AtMostOne ==
  ASSUME OneMutex, Exclusion, NEW u \in Users, NEW v \in Users, at[u] # "idle", at[v] # "idle"
  PROVE  u = v
BY DEF OneMutex, Exclusion

\* While u has the port nobody else has a descriptor of it.
LEMMA OthersOut ==
  ASSUME OneMutex, PortInv, NEW u \in Users, at[u] # "idle", NEW v \in Users, v # u
  PROVE  fd[v] = "none" /\ at[v] = "idle"
BY AtMostOne DEF PortInv, Descriptors, PortTypes

LEMMA NoAskType == ASSUME SerialPortConstants, NEW u \in Users PROVE NoAsk(u) \in AllAsks
<1>1. Asks[u] # {}
  BY DEF SerialPortConstants
<1>2. NoAsk(u) \in Asks[u]
  BY <1>1 DEF NoAsk
<1> QED BY <1>2 DEF AllAsks

LEMMA PortInitInv == ASSUME SerialPortConstants, PortInit PROVE PortInv
<1>1. PortTypes
  BY NoAskType DEF PortInit, PortTypes, Places
<1>2. Exclusion /\ Descriptors /\ Settings
  BY DEF PortInit, Exclusion, Descriptors, Settings
<1> QED BY <1>1, <1>2 DEF PortInv

LEMMA TakeStep ==
  ASSUME SerialPortConstants, PortInv, NEW u \in Users, NEW ask \in Asks[u], Take(u, ask)
  PROVE  PortInv'
<1> USE DEF PortInv, PortTypes
<1>1. /\ at[u] = "idle" /\ at' = [at EXCEPT ![u] = "locked"]
      /\ holder[MutexOf[u]] = Nobody /\ holder' = [holder EXCEPT ![MutexOf[u]] = u]
      /\ asked' = [asked EXCEPT ![u] = ask]
      /\ UNCHANGED <<fd, old_tios, tty, plugged, found>>
  BY DEF Take, TakeAny, Moved
<1>2. PortTypes'
  BY <1>1 DEF AllAsks, Places
<1>3. Exclusion'
  BY <1>1 DEF Exclusion, SerialPortConstants
<1>4. fd[u] = "none"
  BY <1>1 DEF Descriptors
<1>5. Descriptors'
  BY <1>1, <1>4 DEF Descriptors
<1>6. Settings'
  BY <1>1, <1>4 DEF Settings
<1> QED BY <1>2, <1>3, <1>5, <1>6

\* open() and tcgetattr(): nobody has the port open, so it has the settings it was found
\* with.
LEMMA OpenStep ==
  ASSUME SerialPortConstants, OneMutex, PortInv, NEW u \in Users, Open(u) PROVE PortInv'
<1> USE DEF PortInv, PortTypes
<1>1. at[u] = "locked" /\ UNCHANGED <<asked, tty, holder, plugged, found>>
  BY DEF Open, Moved
<1>2. fd[u] = "none"
  BY <1>1 DEF Descriptors
<1>3. \A v \in Users : fd[v] = "none"
  BY <1>1, <1>2, OthersOut
<1>4. CASE at' = [at EXCEPT ![u] = "opened"] /\ fd' = [fd EXCEPT ![u] = "live"]
           /\ old_tios' = [old_tios EXCEPT ![u] = tty] /\ plugged
  <2>1. tty = found
    BY <1>3, <1>4 DEF Settings
  <2>2. PortTypes'
    BY <1>1, <1>4 DEF Places
  <2>3. Exclusion'
    BY <1>1, <1>4 DEF Exclusion
  <2>4. Descriptors'
    BY <1>1, <1>3, <1>4 DEF Descriptors
  <2>5. Settings'
    BY <1>1, <1>3, <1>4, <2>1 DEF Settings
  <2> QED BY <2>2, <2>3, <2>4, <2>5
<1>5. CASE \E to \in {"leaving", "closing"} : at' = [at EXCEPT ![u] = to]
           /\ UNCHANGED <<fd, old_tios>>
  <2>1. PortTypes'
    BY <1>1, <1>5 DEF Places
  <2>2. Exclusion'
    BY <1>1, <1>5 DEF Exclusion
  <2>3. Descriptors'
    BY <1>1, <1>3, <1>5 DEF Descriptors
  <2>4. Settings'
    BY <1>1, <1>3, <1>5 DEF Settings
  <2> QED BY <2>1, <2>2, <2>3, <2>4
<1> QED
  BY <1>4, <1>5 DEF Open, Moved, Failed

\* tcsetattr(), or the descriptor is given up.
LEMMA SetAttributesStep ==
  ASSUME OneMutex, PortInv, NEW u \in Users, SetAttributes(u) PROVE PortInv'
<1> USE DEF PortInv, PortTypes
<1>1. at[u] = "opened" /\ UNCHANGED <<asked, old_tios, holder, plugged, found>>
  BY DEF SetAttributes, Moved
<1>2. \A v \in Users : v # u => fd[v] = "none" /\ at[v] = "idle"
  BY <1>1, OthersOut
<1>3. CASE /\ fd[u] = "live" /\ at' = [at EXCEPT ![u] = "talking"]
           /\ tty' = TermiosOf(asked[u]) /\ fd' = fd
  <2>1. PortTypes'
    BY <1>1, <1>3 DEF Places
  <2>2. Exclusion'
    BY <1>1, <1>3 DEF Exclusion
  <2>3. Descriptors'
    BY <1>1, <1>3 DEF Descriptors
  <2>4. Settings'
    BY <1>1, <1>2, <1>3 DEF Settings
  <2> QED BY <2>1, <2>2, <2>3, <2>4
<1>4. CASE /\ \E to \in {"leaving", "closing"} : at' = [at EXCEPT ![u] = to]
           /\ fd' = [fd EXCEPT ![u] = "none"] /\ tty' = tty
  <2>1. PortTypes'
    BY <1>1, <1>4 DEF Places
  <2>2. Exclusion'
    BY <1>1, <1>4 DEF Exclusion
  <2>3. Descriptors'
    BY <1>1, <1>2, <1>4 DEF Descriptors
  <2>4. fd[u] = "live" => tty = found
    BY <1>1 DEF Settings
  <2>5. Settings'
    BY <1>1, <1>2, <1>4, <2>4 DEF Settings
  <2> QED BY <2>1, <2>2, <2>3, <2>5
<1> QED BY <1>3, <1>4 DEF SetAttributes, Moved, Failed

\* The exchange leaves the port alone.
LEMMA TalkStep ==
  ASSUME PortInv, NEW u \in Users, Talk(u) \/ ReadOn(u) PROVE PortInv'
<1> USE DEF PortInv, PortTypes
<1>1. /\ at[u] = "talking" /\ (at' = at \/ at' = [at EXCEPT ![u] = "closing"])
      /\ UNCHANGED <<asked, fd, old_tios, tty, holder, plugged, found>>
  BY DEF Talk, ReadOn, Moved
<1>2. PortTypes'
  BY <1>1 DEF Places
<1>3. Exclusion'
  BY <1>1 DEF Exclusion
<1>4. Descriptors'
  BY <1>1 DEF Descriptors
<1>5. Settings'
  BY <1>1 DEF Settings
<1> QED BY <1>2, <1>3, <1>4, <1>5

\* old_tios is restored, what the port was found with; or it cannot be.
LEMMA CloseStep == ASSUME OneMutex, PortInv, NEW u \in Users, Close(u) PROVE PortInv'
<1> USE DEF PortInv, PortTypes
<1>1. /\ at[u] = "closing" /\ at' = [at EXCEPT ![u] = "leaving"]
      /\ fd' = [fd EXCEPT ![u] = "none"]
      /\ \/ tty' = (IF fd[u] = "live" THEN old_tios[u] ELSE tty) /\ UNCHANGED found
         \/ tty' = tty /\ found' = tty
      /\ UNCHANGED <<asked, old_tios, holder, plugged>>
  BY DEF Close, CloseWith, Moved
<1>2. \A v \in Users : v # u => fd[v] = "none" /\ at[v] = "idle"
  BY <1>1, OthersOut
<1>3. PortTypes'
  BY <1>1 DEF Places
<1>4. Exclusion'
  BY <1>1 DEF Exclusion
<1>5. Descriptors'
  BY <1>1, <1>2 DEF Descriptors
<1>6. plugged => tty' = found'
  BY <1>1, <1>2 DEF Settings
<1>7. Settings'
  BY <1>1, <1>2, <1>6 DEF Settings
<1> QED BY <1>3, <1>4, <1>5, <1>7

LEMMA LeaveStep ==
  ASSUME SerialPortConstants, PortInv, NEW u \in Users, Leave(u) PROVE PortInv'
<1> USE DEF PortInv, PortTypes
<1>1. /\ at[u] = "leaving" /\ at' = [at EXCEPT ![u] = "idle"]
      /\ holder' = [holder EXCEPT ![MutexOf[u]] = IF @ = u THEN Nobody ELSE @]
      /\ asked' = [asked EXCEPT ![u] = NoAsk(u)]
      /\ old_tios' = [old_tios EXCEPT ![u] = FreshTermios]
      /\ UNCHANGED <<fd, tty, plugged, found>>
  BY DEF Leave, Moved
<1>2. fd[u] = "none"
  BY <1>1 DEF Descriptors
<1>3. PortTypes'
  BY <1>1, NoAskType DEF Places
<1>4. Exclusion'
  BY <1>1 DEF Exclusion
<1>5. Descriptors'
  BY <1>1, <1>2 DEF Descriptors
<1>6. Settings'
  BY <1>1, <1>2 DEF Settings
<1> QED BY <1>3, <1>4, <1>5, <1>6

LEMMA UnplugStep == ASSUME PortInv, Unplug PROVE PortInv'
<1> USE DEF PortInv, PortTypes
<1>1. /\ plugged' = FALSE
      /\ fd' = [u \in Users |-> IF fd[u] = "live" THEN "dead" ELSE fd[u]]
      /\ UNCHANGED <<at, asked, old_tios, tty, holder, found>>
  BY DEF Unplug
<1>2. PortTypes'
  BY <1>1
<1>3. Exclusion'
  BY <1>1 DEF Exclusion
<1>4. \A u \in Users : fd'[u] # "live"
  BY <1>1
<1>5. Descriptors'
  BY <1>1, <1>4 DEF Descriptors
<1>6. Settings'
  BY <1>1, <1>4 DEF Settings
<1> QED BY <1>2, <1>3, <1>5, <1>6

LEMMA PlugStep == ASSUME PortInv, Plug PROVE PortInv'
<1> USE DEF PortInv, PortTypes
<1>1. /\ ~plugged /\ plugged' = TRUE /\ tty' = FreshTermios /\ found' = FreshTermios
      /\ UNCHANGED <<at, asked, fd, old_tios, holder>>
  BY DEF Plug
<1>2. \A u \in Users : fd[u] # "live"
  BY <1>1 DEF Descriptors
<1>3. PortTypes'
  BY <1>1
<1>4. Exclusion'
  BY <1>1 DEF Exclusion
<1>5. Descriptors'
  BY <1>1, <1>2 DEF Descriptors
<1>6. Settings'
  BY <1>1, <1>2 DEF Settings
<1> QED BY <1>3, <1>4, <1>5, <1>6

LEMMA KillStep == ASSUME SerialPortConstants, PortInv, Kill PROVE PortInv'
<1> USE DEF PortInv, PortTypes
<1>1. /\ at' = [u \in Users |-> "idle"] /\ fd' = [u \in Users |-> "none"]
      /\ holder' = [m \in DOMAIN holder |-> Nobody]
      /\ asked' = [u \in Users |-> NoAsk(u)] /\ old_tios' = [u \in Users |-> FreshTermios]
      /\ found' = tty /\ UNCHANGED <<tty, plugged>>
  BY DEF Kill
<1>2. PortTypes'
  BY <1>1, NoAskType DEF Places
<1>3. Exclusion' /\ Descriptors' /\ Settings'
  BY <1>1 DEF Exclusion, Descriptors, Settings
<1> QED BY <1>2, <1>3

LEMMA NextInv ==
  ASSUME SerialPortConstants, OneMutex, PortInv, [PortNext]_portVars PROVE PortInv'
<1>1. ASSUME NEW u \in Users, Step(u) PROVE PortInv'
  BY <1>1, OpenStep, SetAttributesStep, TalkStep, CloseStep, LeaveStep DEF Step
<1>2. ASSUME NEW u \in Users, NEW ask \in Asks[u], Take(u, ask) PROVE PortInv'
  BY <1>2, TakeStep
<1>3. CASE Unplug \/ Plug \/ Kill
  BY <1>3, UnplugStep, PlugStep, KillStep
<1>4. CASE UNCHANGED portVars
  BY <1>4 DEF portVars, PortInv, PortTypes, Exclusion, Descriptors, Settings
<1> QED BY <1>1, <1>2, <1>3, <1>4 DEF PortNext

LEMMA SpecInv == ASSUME SerialPortConstants, OneMutex PROVE PortSpec => []PortInv
<1>1. PortInit => PortInv
  BY PortInitInv
<1>2. PortInv /\ [PortNext]_portVars => PortInv'
  BY NextInv
<1> QED BY <1>1, <1>2, PTL DEF PortSpec

------------------------------------------------------------------------------

\* The settings a request asks for.
AskedFor(s) ==
  [speed |-> s.baud, bits |-> s.data_bit, stops |-> s.stop_bit, parity |-> s.parity,
   raw |-> TRUE]

\* A table of rates that has the usual ones leaves usual settings as they are.
LEMMA UsualKept ==
  ASSUME NEW s, Usual(s), NEW rates, Rates \subseteq rates
  PROVE  Termios(rates, s) = AskedFor(s)
<1>1. SpeedOf(rates, s) = s.baud
  BY DEF Usual, SpeedOf
<1>2. BitsOf(s) = s.data_bit
  BY DEF Usual, BitsOf
<1>3. StopsOf(s) = s.stop_bit
  BY DEF Usual, StopsOf
<1>4. ParityOf(s) = s.parity
  BY DEF Usual, ParityOf
<1>5. QED
  BY <1>1, <1>2, <1>3, <1>4 DEF Termios, AskedFor, Raw

\* Every driver's copy of the settings is right for usual ones.
LEMMA TermiosRight ==
  ASSUME NEW ask, ask.by \in Kinds, Usual(ask.settings)
  PROVE  TermiosOf(ask) = AskedFor(ask.settings)
<1> DEFINE s == ask.settings
<1>1. ASSUME NEW rates, Rates \subseteq rates PROVE Termios(rates, s) = AskedFor(s)
  BY <1>1, UsualKept
<1>2. TermiosOf(ask) = Termios(Rates, s) \/ TermiosOf(ask) = Termios(Rates \cup FastRates, s)
  BY DEF TermiosOf, Kinds, ds_bus_connect, ds_bus_router_connect, modbus_router_connect,
         dlt645_connect, dlt645_router_connect, modbus_rtu_connect, open_serial
<1> QED BY <1>1, <1>2

\* A thread in an exchange finds the line set as its row or request says, however many
\* others use the port with other settings.
THEOREM OwnSettingsAlways ==
  ASSUME SerialPortConstants, OneMutex
  PROVE  PortSpec => []SpeaksOwnSettings
<1>1. PortInv => SpeaksOwnSettings
  <2> SUFFICES ASSUME PortInv, NEW u \in Users, at[u] = "talking", fd[u] = "live",
                      Usual(asked[u].settings)
               PROVE  LET s == asked[u].settings
                      IN tty = [speed |-> s.baud, bits |-> s.data_bit, stops |-> s.stop_bit,
                                parity |-> s.parity, raw |-> TRUE]
    BY DEF SpeaksOwnSettings
  <2>1. tty = TermiosOf(asked[u])
    BY DEF PortInv, Settings
  <2>2. asked[u].by \in Kinds
    BY DEF PortInv, PortTypes, AllAsks, SerialPortConstants
  <2> QED BY <2>1, <2>2, TermiosRight DEF AskedFor
<1> QED BY <1>1, SpecInv, PTL

\* When nobody is at the port no descriptor is left open, and a port that is there has the
\* settings with which the process found it, whatever failed, but those of the last user whose
\* attempt to restore them failed.
THEOREM AlwaysLeftAsFound ==
  ASSUME SerialPortConstants, OneMutex
  PROVE  PortSpec => []LeftAsFound
<1>1. PortInv => LeftAsFound
  <2> SUFFICES ASSUME PortInv, \A u \in Users : at[u] = "idle"
               PROVE  (\A u \in Users : fd[u] = "none") /\ (plugged => tty = found)
    BY DEF LeftAsFound
  <2>1. \A u \in Users : fd[u] = "none"
    BY DEF PortInv, Descriptors
  <2> QED BY <2>1 DEF PortInv, Settings
<1> QED BY <1>1, SpecInv, PTL

\* Threads with different settings share a port, and none speaks through another one's; they
\* leave it as it was, unless it cannot be restored.
THEOREM PortAlwaysKept ==
  ASSUME SerialPortConstants, OneMutex
  PROVE  PortSpec => []PortKept
<1>1. SpeaksOwnSettings /\ LeftAsFound => PortKept
  BY DEF PortKept
<1> QED BY <1>1, OwnSettingsAlways, AlwaysLeftAsFound, PTL

------------------------------------------------------------------------------
(* Least numbers                                                             *)

Less == OpToRel(<, Nat)

LEMMA LessWellFounded == IsWellFoundedOn(Less, Nat)
  BY NatLessThanWellFounded DEF Less

LEMMA LessIs == Less = {p \in Nat \X Nat : p[1] < p[2]}
  BY DEF Less, OpToRel

\* A set of numbers has a least one.
LEMMA Least ==
  ASSUME NEW T \in SUBSET Nat, T # {}
  PROVE  Min(T) \in T /\ \A m \in T : Min(T) <= m
<1>1. PICK n \in T : \A m \in T : <<m, n>> \notin Less
  BY LessWellFounded, WFMin
<1>2. ASSUME NEW m \in T PROVE n <= m
  <2>1. ~(m < n)
    BY <1>1, LessIs
  <2>2. QED
    BY <2>1
<1>3. \E x \in T : \A y \in T : x =< y
  BY <1>2
<1>4. QED
  BY <1>3 DEF Min

------------------------------------------------------------------------------
(* The devices of the threads are those of the tables                        *)

Ports == ToSet(ComNames)
Sequence(s) == \E S : s \in Seq(S)

LoadedShape ==
  /\ db \in Databases /\ who \in {"poller", "air", "server"}
  /\ loading \in {"idle", "types", "tables", "rows", "polling", "ready", "crashed"}
  /\ coms \in Seq(Ports) /\ listed \in Seq(AllRows) /\ result \in Seq(AllRows)
  /\ Sequence(devices)
  /\ edits \in Nat /\ dbfaults \in Nat

\* Which thread waits for what: only the poller polls, and it has one port.
Stages ==
  /\ loading \in {"types", "tables", "rows"} => coms # <<>> /\ (who = "poller" => Len(coms) = 1)
  /\ loading = "rows" => unasked = <<>>
  /\ loading = "polling" => who = "poller"
  /\ loading = "ready" => who # "poller" /\ coms = <<>>

\* No list is entered before the tables are complete.
Filling == loading = "types" \/ (loading = "tables" /\ unasked # <<>>)
EmptyAtFirst == loading = "idle" \/ Filling => devices = <<>>

\* The rows to come are the end of those listed.
Fetched == Len(listed) - Len(result)
RowsInv ==
  loading = "rows" =>
    /\ Len(result) <= Len(listed)
    /\ \A k \in 1..Len(result) : result[k] = listed[Fetched + k]

\* A poller has of its port what it has fetched, and starts afresh when it gives up.
PollerInv ==
  who = "poller" =>
    /\ loading = "tables" => devices = <<>>
    /\ loading = "rows" =>
         Len(devices) = Fetched /\ \A k \in 1..Len(devices) : devices[k].hdid = listed[k].hdid
    /\ PolledAsListed

\* The devices a list has of a port.
LoadedOf(ds, c) == {ds[k].hdid : k \in {j \in DOMAIN ds : ds[j].com = c}}

\* The rows of a port before the first that is refused.
Bad(c) == {k \in DOMAIN db.rows[c] : Refused(db.rows[c][k])}
Upto(c) == IF Bad(c) = {} THEN Len(db.rows[c]) ELSE Min(Bad(c)) - 1
Served(c, n) == {db.rows[c][k].hdid : k \in 1..n}

Ahead(c) == \E k \in 1..Len(coms) : coms[k] = c

\* While nothing fails and nobody edits: a port that is still to be asked has no device too
\* many (the server asks twice), one that has been asked has all, and the one that is being
\* asked has those fetched.
PortFull(c) ==
  /\ LoadedOf(devices, c) \subseteq Served(c, Upto(c))
  /\ ~Ahead(c) => LoadedOf(devices, c) = Served(c, Upto(c))
  /\ loading = "rows" /\ c = Head(coms) =>
       /\ listed = db.rows[c] /\ Fetched <= Upto(c)
       /\ Served(c, Fetched) \subseteq LoadedOf(devices, c)

Calm == dbfaults = 0 /\ edits = 0
PortsInv ==
  who # "poller" =>
    /\ Filling => \A c \in Ports : Ahead(c)
    /\ Calm /\ loading \in {"types", "tables", "rows", "ready"} => \A c \in Ports : PortFull(c)

ListsInv ==
  LoadedShape /\ Stages /\ EmptyAtFirst /\ RowsInv /\ PollerInv /\ PortsInv

------------------------------------------------------------------------------

LEMMA UptoIs ==
  ASSUME TablesConstants, db \in Databases, NEW c \in Ports
  PROVE  /\ db.rows[c] \in Seq(AllRows)
         /\ Upto(c) \in 0..Len(db.rows[c])
         /\ \A k \in 1..Upto(c) : ~Refused(db.rows[c][k])
         /\ Upto(c) < Len(db.rows[c]) => Refused(db.rows[c][Upto(c) + 1])
<1> DEFINE rows == db.rows[c]
<1>1. rows \in Seq(AllRows)
  BY DEF TablesConstants, Ports
<1>2. CASE Bad(c) = {}
  <2>1. Upto(c) = Len(rows)
    BY <1>2 DEF Upto
  <2>2. \A k \in 1..Len(rows) : ~Refused(rows[k])
    BY <1>1, <1>2 DEF Bad
  <2>3. QED
    BY <1>1, <2>1, <2>2
<1>3. CASE Bad(c) # {}
  <2>1. Bad(c) \subseteq 1..Len(rows) /\ Len(rows) \in Nat
    BY <1>1 DEF Bad
  <2>2. Min(Bad(c)) \in Bad(c) /\ \A m \in Bad(c) : Min(Bad(c)) <= m
    BY <1>3, <2>1, Least
  <2>3. Upto(c) = Min(Bad(c)) - 1
    BY <1>3 DEF Upto
  <2>4. Upto(c) \in 0..Len(rows) - 1 /\ Upto(c) + 1 = Min(Bad(c))
    BY <2>1, <2>2, <2>3
  <2>5. Refused(rows[Min(Bad(c))])
    BY <2>2 DEF Bad
  <2>6. ASSUME NEW k \in 1..Upto(c) PROVE ~Refused(rows[k])
    <3>1. k \in DOMAIN rows
      BY <1>1, <2>4
    <3>2. k \notin Bad(c)
      <4> HIDE DEF rows
      <4>1. QED
        BY <2>1, <2>2, <2>4
    <3>3. QED
      BY <3>1, <3>2 DEF Bad
  <2>7. QED
    BY <1>1, <2>4, <2>5, <2>6
<1>4. QED
  BY <1>2, <1>3

LEMMA UptoStays ==
  ASSUME UNCHANGED <<db, ghdparamlist_list>>, NEW c
  PROVE  Upto(c)' = Upto(c) /\ \A n : Served(c, n)' = Served(c, n)
<1>1. Bad(c)' = Bad(c)
  BY DEF Bad, Refused, TableOf, ProtocolOf
<1>2. QED
  BY <1>1 DEF Upto, Served

LEMMA LoadedEmpty == \A c : LoadedOf(<<>>, c) = {}
  BY DEF LoadedOf

LEMMA AppendIs ==
  ASSUME NEW ds, Sequence(ds), NEW d
  PROVE  /\ Sequence(Append(ds, d)) /\ Len(Append(ds, d)) = Len(ds) + 1 /\ Len(ds) \in Nat
         /\ DOMAIN ds = 1..Len(ds) /\ DOMAIN Append(ds, d) = 1..Len(ds) + 1
         /\ \A k \in 1..Len(ds) : Append(ds, d)[k] = ds[k]
         /\ Append(ds, d)[Len(ds) + 1] = d
<1>1. PICK S : ds \in Seq(S)
  BY DEF Sequence
<1>2. ds \in Seq(S \cup {d}) /\ d \in S \cup {d}
  BY <1>1
<1>3. Append(ds, d) \in Seq(S \cup {d})
  BY <1>2
<1>4. QED
  BY <1>2, <1>3 DEF Sequence

LEMMA LoadedAppend ==
  ASSUME NEW ds, Sequence(ds), NEW d, NEW c
  PROVE  LoadedOf(Append(ds, d), c) = LoadedOf(ds, c) \cup (IF d.com = c THEN {d.hdid} ELSE {})
<1> DEFINE es == Append(ds, d)
<1>1. /\ Len(ds) \in Nat
      /\ \A k \in 1..Len(ds) : es[k] = ds[k]
      /\ es[Len(ds) + 1] = d
      /\ DOMAIN es = 1..Len(ds) + 1 /\ DOMAIN ds = 1..Len(ds)
  BY AppendIs
<1> HIDE DEF es
<1>2. CASE d.com # c
  <2>1. {j \in DOMAIN es : es[j].com = c} = {j \in DOMAIN ds : ds[j].com = c}
    BY <1>1, <1>2
  <2>2. LoadedOf(es, c) = LoadedOf(ds, c)
    BY <1>1, <2>1 DEF LoadedOf
  <2>3. QED
    BY <1>2, <2>2 DEF es
<1>3. CASE d.com = c
  <2>1. LoadedOf(es, c) = LoadedOf(ds, c) \cup {d.hdid}
    BY <1>1, <1>3 DEF LoadedOf
  <2>2. QED
    BY <1>3, <2>1 DEF es
<1>4. QED
  BY <1>2, <1>3

LEMMA ListsInit == TablesConstants /\ TablesInit => ListsInv
<1> SUFFICES ASSUME TablesInit PROVE ListsInv
  OBVIOUS
<1>1. LoadedShape
  BY DEF TablesInit, LoadedShape, Sequence
<1>2. Stages /\ EmptyAtFirst /\ RowsInv /\ PollerInv /\ PortsInv
  BY DEF TablesInit, Stages, EmptyAtFirst, Filling, RowsInv, PollerInv, PolledAsListed, PortsInv
<1>3. QED
  BY <1>1, <1>2 DEF ListsInv

\* Steps that touch no list.
LEMMA QuietKeeps ==
  ASSUME ListsInv, UNCHANGED <<db, who, lists, edits>>, loading' \in {loading, "crashed"},
         dbfaults' \in {dbfaults, dbfaults + 1}
  PROVE  ListsInv'
<1> USE DEF lists
<1>1. LoadedShape' /\ (Calm' => Calm)
  BY DEF ListsInv, LoadedShape, Calm
<1>2. Stages' /\ EmptyAtFirst' /\ RowsInv' /\ PollerInv'
  BY DEF ListsInv, Stages, EmptyAtFirst, Filling, RowsInv, Fetched, PollerInv, PolledAsListed
<1>3. ASSUME NEW c \in Ports, PortFull(c) PROVE PortFull(c)'
  <2>1. Upto(c)' = Upto(c) /\ (\A n : Served(c, n)' = Served(c, n)) /\ Ahead(c)' = Ahead(c)
    BY UptoStays DEF Ahead
  <2>2. QED
    BY <1>3, <2>1 DEF PortFull, Fetched
<1>4. (Filling' => Filling) /\ \A c \in Ports : Ahead(c)' = Ahead(c)
  BY DEF Filling, Ahead
<1>5. PortsInv'
  BY <1>1, <1>3, <1>4 DEF ListsInv, PortsInv
<1>6. QED
  BY <1>1, <1>2, <1>5 DEF ListsInv

LEMMA EditKeeps ==
  ASSUME ListsInv, EditDatabase
  PROVE  ListsInv'
<1> USE DEF lists
<1>1. LoadedShape' /\ ~Calm'
  BY DEF ListsInv, LoadedShape, EditDatabase, Calm
<1>2. Stages' /\ EmptyAtFirst' /\ RowsInv' /\ PollerInv'
  BY DEF ListsInv, Stages, EmptyAtFirst, Filling, RowsInv, Fetched, PollerInv, PolledAsListed,
         EditDatabase
<1>3. PortsInv'
  BY <1>1 DEF ListsInv, PortsInv, Filling, Ahead, EditDatabase
<1>4. QED
  BY <1>1, <1>2, <1>3 DEF ListsInv

\* A list without devices, and every port still to be asked.
LEMMA EmptyFull ==
  ASSUME devices' = <<>>, loading' # "rows", NEW c, Ahead(c)'
  PROVE  PortFull(c)'
<1>1. LoadedOf(devices', c) = {}
  BY LoadedEmpty
<1>2. QED
  BY <1>1 DEF PortFull

LEMMA StartKeeps ==
  ASSUME ListsInv, NEW w \in {"poller", "air", "server"}, NEW cs \in Seq(Ports), cs # <<>>,
         w = "poller" => Len(cs) = 1,
         w # "poller" => \A c \in Ports : \E k \in 1..Len(cs) : cs[k] = c,
         StartLoading(w, cs)
  PROVE  ListsInv'
<1>1. devices' = <<>> /\ loading' = "types" /\ who' = w /\ coms' = cs
  BY DEF ListsInv, EmptyAtFirst, StartLoading
<1>2. LoadedShape'
  BY <1>1 DEF ListsInv, LoadedShape, StartLoading
<1>3. Stages' /\ EmptyAtFirst' /\ RowsInv' /\ PollerInv'
  BY <1>1 DEF Stages, EmptyAtFirst, RowsInv, PollerInv, PolledAsListed
<1>4. w # "poller" => \A c \in Ports : Ahead(c)'
  BY <1>1 DEF Ahead
<1>5. PortsInv'
  BY <1>1, <1>4, EmptyFull DEF PortsInv
<1>6. QED
  BY <1>2, <1>3, <1>5 DEF ListsInv

LEMMA StopKeeps ==
  ASSUME ListsInv, StopLoaded
  PROVE  ListsInv'
<1>1. devices' = <<>> /\ loading' = "idle"
  BY DEF StopLoaded, Idle
<1>2. LoadedShape'
  BY <1>1 DEF ListsInv, LoadedShape, StopLoaded, Sequence, bounds
<1>3. Stages' /\ EmptyAtFirst' /\ RowsInv' /\ PollerInv' /\ PortsInv'
  BY <1>1 DEF Stages, EmptyAtFirst, RowsInv, PollerInv, PolledAsListed, PortsInv, Filling
<1>4. QED
  BY <1>2, <1>3 DEF ListsInv

\* Loading types and tables: the list is still empty.
LEMMA FillKeeps ==
  ASSUME ListsInv, Filling, UNCHANGED <<db, who, coms, listed, result, edits>>,
         dbfaults' \in {dbfaults, dbfaults + 1}, devices' = <<>>,
         loading' \in {"idle", "tables", "crashed"}
  PROVE  ListsInv'
<1>1. LoadedShape'
  BY DEF ListsInv, LoadedShape, Sequence
<1>2. Stages' /\ EmptyAtFirst' /\ RowsInv' /\ PollerInv'
  BY DEF ListsInv, Stages, Filling, EmptyAtFirst, RowsInv, PollerInv, PolledAsListed
<1>3. who' # "poller" => \A c \in Ports : Ahead(c)'
  BY DEF ListsInv, PortsInv, Ahead
<1>4. PortsInv'
  BY <1>3, EmptyFull DEF PortsInv
<1>5. QED
  BY <1>1, <1>2, <1>4 DEF ListsInv

LEMMA TypesKeep ==
  ASSUME ListsInv, LoadTypes
  PROVE  ListsInv'
<1>1. Filling /\ devices = <<>>
  BY DEF ListsInv, EmptyAtFirst, Filling, LoadTypes
<1>2. devices' = <<>> /\ loading' \in {"idle", "tables"} /\ dbfaults' \in {dbfaults, dbfaults + 1}
  BY <1>1 DEF LoadTypes, Idle, Fault, NoFault
<1>3. UNCHANGED <<db, who, coms, listed, result, edits>>
  BY DEF LoadTypes
<1>4. QED
  BY <1>1, <1>2, <1>3, FillKeeps

LEMMA TableKeeps ==
  ASSUME ListsInv, LoadTable
  PROVE  ListsInv'
<1>1. Filling /\ devices = <<>>
  BY DEF ListsInv, EmptyAtFirst, Filling, LoadTable
<1>2. /\ devices' = <<>> /\ loading' \in {"idle", "tables", "crashed"}
      /\ dbfaults' \in {dbfaults, dbfaults + 1}
  BY <1>1 DEF LoadTable, Idle, Fault, NoFault
<1>3. UNCHANGED <<db, who, coms, listed, result, edits>>
  BY DEF LoadTable
<1>4. QED
  BY <1>1, <1>2, <1>3, FillKeeps

LEMMA NextPortIs ==
  ASSUME LoadedShape, coms # <<>>, NextPort
  PROVE  /\ coms' \in Seq(Ports) /\ Head(coms) \in Ports
         /\ loading' \in {"tables", "polling", "ready"}
         /\ loading' = "tables" => coms' # <<>> /\ Len(coms) # 1
         /\ loading' = "polling" => who = "poller"
         /\ loading' = "ready" => who # "poller" /\ coms' = <<>>
         /\ \A c : Ahead(c) /\ c # Head(coms) => Ahead(c)'
<1>1. coms \in Seq(Ports) /\ Len(coms) \in Nat /\ Len(coms) # 0 /\ Head(coms) = coms[1]
  BY DEF LoadedShape
<1>2. CASE Len(coms) > 1
  <2>1. coms' = Tail(coms) /\ loading' = "tables"
    BY <1>2 DEF NextPort
  <2>2. /\ Tail(coms) \in Seq(Ports) /\ Len(Tail(coms)) = Len(coms) - 1
        /\ \A k \in 1..Len(coms) - 1 : Tail(coms)[k] = coms[k + 1]
    BY <1>1
  <2>3. ASSUME NEW c, Ahead(c), c # Head(coms) PROVE Ahead(c)'
    <3>1. PICK k \in 1..Len(coms) : coms[k] = c
      BY <2>3 DEF Ahead
    <3>2. k - 1 \in 1..Len(coms) - 1 /\ Tail(coms)[k - 1] = c
      BY <1>1, <2>2, <2>3, <3>1
    <3>3. QED
      BY <2>1, <2>2, <3>2 DEF Ahead
  <2>4. coms' \in Seq(Ports) /\ Head(coms) \in Ports /\ coms' # <<>> /\ Len(coms) # 1
    <3>1. Len(Tail(coms)) # 0 /\ Head(coms) \in Ports
      BY <1>1, <1>2, <2>2, SMTT(40)
    <3>2. Tail(coms) # <<>>
      <4>1. Len(<<>>) = 0
        OBVIOUS
      <4>2. QED
        BY <3>1, <4>1, Zenon
    <3>3. QED
      BY <1>2, <2>1, <2>2, <3>1, <3>2
  <2>5. \A c : Ahead(c) /\ c # Head(coms) => Ahead(c)'
    BY <2>3
  <2>6. QED
    BY <2>1, <2>4, <2>5
<1>3. CASE ~(Len(coms) > 1)
  <2>1. coms' = <<>> /\ loading' = (IF who = "poller" THEN "polling" ELSE "ready")
    BY <1>3 DEF NextPort
  <2>2. \A c : Ahead(c) => c = Head(coms)
    BY <1>1, <1>3 DEF Ahead
  <2>3. QED
    BY <1>1, <2>1, <2>2
<1>4. QED
  BY <1>2, <1>3

\* A thread that is not a poller goes on to the next port, with nothing lost.
LEMMA AfterPort ==
  ASSUME LoadedShape, Stages, loading \in {"tables", "rows"}, PortsInv, unasked = <<>>,
         who # "poller", NextPort, UNCHANGED <<db, who, ghdparamlist_list, unasked, devices>>,
         Calm' => /\ Calm
                  /\ LoadedOf(devices, Head(coms)) = Served(Head(coms), Upto(Head(coms)))
  PROVE  PortsInv'
<1>1. /\ loading' \in {"tables", "ready"}
      /\ \A c : Ahead(c) /\ c # Head(coms) => Ahead(c)'
  BY NextPortIs DEF Stages
<1>2. ~Filling'
  BY <1>1 DEF Filling
<1>3. ASSUME Calm', NEW c \in Ports PROVE PortFull(c)'
  <2>1. Upto(c)' = Upto(c) /\ (\A n : Served(c, n)' = Served(c, n))
    BY UptoStays
  <2>2. PortFull(c)
    BY <1>3 DEF PortsInv
  <2>3. LoadedOf(devices, c) \subseteq Served(c, Upto(c))
    BY <2>2 DEF PortFull
  <2>4. ~Ahead(c)' => LoadedOf(devices, c) = Served(c, Upto(c))
    BY <1>1, <1>3, <2>2 DEF PortFull
  <2>5. QED
    BY <1>1, <2>1, <2>3, <2>4 DEF PortFull
<1>4. QED
  BY <1>1, <1>2, <1>3 DEF PortsInv

\* The query of a port.
LEMMA AskKeeps ==
  ASSUME TablesConstants, ListsInv, AskRows
  PROVE  ListsInv'
<1>1. /\ loading = "tables" /\ unasked = <<>> /\ coms # <<>> /\ ~Filling /\ LoadedShape
      /\ who = "poller" => Len(coms) = 1 /\ devices = <<>>
  BY DEF AskRows, ListsInv, Stages, Filling, PollerInv
<1>2. UNCHANGED <<db, who, ghdparamlist_list, unasked, devices, edits>>
  BY DEF AskRows
<1>3. CASE /\ NoFault
           /\ listed' = db.rows[Head(coms)] /\ result' = listed' /\ loading' = "rows"
           /\ UNCHANGED <<coms, nbharddevice>>
  <2>1. Head(coms) \in Ports
    BY <1>1 DEF LoadedShape
  <2>2. listed' \in Seq(AllRows) /\ result' = listed' /\ Fetched' = 0
    BY <1>1, <1>3, <2>1, UptoIs DEF LoadedShape, Fetched
  <2>3. LoadedShape'
    BY <1>1, <1>2, <1>3, <2>2 DEF LoadedShape, NoFault
  <2>4. Stages' /\ EmptyAtFirst'
    BY <1>1, <1>2, <1>3 DEF Stages, EmptyAtFirst, Filling
  <2>5. RowsInv'
    BY <1>3, <2>2 DEF RowsInv
  <2>6. PollerInv'
    BY <1>1, <1>2, <1>3, <2>2 DEF PollerInv, PolledAsListed
  <2>7. ASSUME NEW c \in Ports, PortFull(c) PROVE PortFull(c)'
    <3>1. Upto(c)' = Upto(c) /\ (\A n : Served(c, n)' = Served(c, n)) /\ Ahead(c)' = Ahead(c)
      BY <1>2, <1>3, UptoStays DEF Ahead
    <3>2. c = Head(coms)' => listed' = (db.rows[c])' /\ Fetched' <= Upto(c)' /\ Served(c, 0) = {}
      BY <1>1, <1>2, <1>3, <2>2, <3>1, UptoIs DEF LoadedShape, Served
    <3>3. QED
      BY <1>2, <2>2, <2>7, <3>1, <3>2 DEF PortFull
  <2>8. PortsInv'
    <3>1. ~Filling' /\ (Calm' => Calm)
      BY <1>2, <1>3 DEF Filling, Calm, NoFault
    <3>2. QED
      BY <1>1, <1>2, <2>7, <3>1 DEF ListsInv, PortsInv
  <2>9. QED
    BY <2>3, <2>4, <2>5, <2>6, <2>8 DEF ListsInv
<1>4. CASE /\ Fault
           /\ nbharddevice' = Len(devices) /\ listed' = <<>> /\ result' = <<>>
           /\ NextPort
  <2>1. /\ coms' \in Seq(Ports) /\ loading' \in {"tables", "polling", "ready"}
        /\ loading' = "tables" => coms' # <<>> /\ Len(coms) # 1
        /\ loading' = "polling" => who = "poller"
        /\ loading' = "ready" => who # "poller" /\ coms' = <<>>
    BY <1>1, <1>4, NextPortIs
  <2>2. ~Calm' /\ dbfaults' \in Nat
    BY <1>1, <1>4 DEF LoadedShape, Calm, Fault
  <2>3. LoadedShape'
    BY <1>1, <1>2, <1>4, <2>1, <2>2 DEF LoadedShape
  <2>4. Stages' /\ EmptyAtFirst' /\ RowsInv'
    BY <1>1, <1>2, <2>1 DEF Stages, EmptyAtFirst, Filling, RowsInv
  <2>5. PollerInv'
    BY <1>1, <1>2, <1>4, <2>1 DEF PollerInv, PolledAsListed
  <2>6. PortsInv'
    BY <1>1, <1>2, <2>1, <2>2 DEF PortsInv, Filling
  <2>7. QED
    BY <2>3, <2>4, <2>5, <2>6 DEF ListsInv
<1>5. QED
  BY <1>3, <1>4 DEF AskRows

\* A poller gives up its port, with all it has read.
LEMMA PollerGivesUp ==
  ASSUME ListsInv, who = "poller", loading = "rows", GiveUp, result' = <<>>,
         UNCHANGED <<db, who, unasked, listed, edits>>, dbfaults' \in {dbfaults, dbfaults + 1}
  PROVE  ListsInv'
<1>1. devices' = <<>> /\ loading' = "idle" /\ UNCHANGED coms
  BY DEF GiveUp, Idle
<1>2. LoadedShape'
  BY <1>1 DEF ListsInv, LoadedShape, Sequence
<1>3. Stages' /\ EmptyAtFirst' /\ RowsInv' /\ PollerInv' /\ PortsInv'
  BY <1>1 DEF Stages, EmptyAtFirst, RowsInv, PollerInv, PolledAsListed, PortsInv
<1>4. QED
  BY <1>2, <1>3 DEF ListsInv

\* The others go on to the next port.
LEMMA OthersGoOn ==
  ASSUME ListsInv, who # "poller", loading = "rows", NextPort, result' \in Seq(AllRows),
         UNCHANGED <<db, who, ghdparamlist_list, unasked, listed, devices, edits>>,
         dbfaults' \in {dbfaults, dbfaults + 1},
         Calm' => LoadedOf(devices, Head(coms)) = Served(Head(coms), Upto(Head(coms)))
  PROVE  ListsInv'
<1>1. LoadedShape /\ Stages /\ PortsInv /\ coms # <<>> /\ unasked = <<>> /\ (Calm' => Calm)
  BY DEF ListsInv, Stages, LoadedShape, Calm
<1>2. /\ coms' \in Seq(Ports) /\ loading' \in {"tables", "polling", "ready"}
      /\ loading' = "tables" => coms' # <<>>
      /\ loading' = "polling" => who = "poller"
      /\ loading' = "ready" => coms' = <<>>
  BY <1>1, NextPortIs
<1>3. LoadedShape'
  BY <1>1, <1>2 DEF LoadedShape
<1>4. Stages' /\ EmptyAtFirst' /\ RowsInv' /\ PollerInv'
  BY <1>1, <1>2 DEF Stages, EmptyAtFirst, Filling, RowsInv, PollerInv
<1>5. PortsInv'
  BY <1>1, AfterPort
<1>6. QED
  BY <1>3, <1>4, <1>5 DEF ListsInv

\* The last row of a poller's port has been fetched.
LEMMA PollerStarts ==
  ASSUME ListsInv, who = "poller", loading = "rows", result = <<>>, NextPort,
         nbharddevice' = Len(devices),
         UNCHANGED <<db, who, unasked, listed, result, devices, edits, dbfaults>>
  PROVE  ListsInv'
<1>1. LoadedShape /\ coms # <<>> /\ Len(coms) = 1
  BY DEF ListsInv, Stages
<1>2. coms' \in Seq(Ports) /\ loading' = "polling"
  BY <1>1, NextPortIs
<1>3. LoadedShape'
  BY <1>1, <1>2 DEF LoadedShape
<1>4. Stages' /\ EmptyAtFirst' /\ RowsInv' /\ PortsInv'
  BY <1>2 DEF Stages, EmptyAtFirst, Filling, RowsInv, PortsInv
<1>5. PollerInv'
  <2>1. /\ Len(devices) = Len(listed) /\ Len(listed) \in Nat /\ DOMAIN listed = 1..Len(listed)
        /\ \A k \in 1..Len(devices) : devices[k].hdid = listed[k].hdid
    BY <1>1 DEF ListsInv, PollerInv, Fetched, LoadedShape
  <2>2. DOMAIN devices = 1..Len(devices)
    BY <1>1 DEF LoadedShape, Sequence
  <2>3. [k \in DOMAIN devices |-> devices[k].hdid] = [k \in DOMAIN listed |-> listed[k].hdid]
    BY <2>1, <2>2
  <2>4. QED
    BY <1>2, <2>3 DEF PollerInv, PolledAsListed
<1>6. QED
  BY <1>3, <1>4, <1>5 DEF ListsInv

\* The next row is entered.
LEMMA EnterKeeps ==
  ASSUME TablesConstants, ListsInv, loading = "rows", result # <<>>, ~Refused(Head(result)),
         devices' = Append(devices, Device(Head(coms), Head(result))), result' = Tail(result),
         UNCHANGED <<db, who, loading, ghdparamlist_list, unasked, coms, listed, edits, dbfaults>>
  PROVE  ListsInv'
<1> DEFINE row == Head(result)
           d == Device(Head(coms), row)
           n == Fetched
<1>1. LoadedShape /\ Stages /\ RowsInv
  BY DEF ListsInv
<1>2. /\ listed \in Seq(AllRows) /\ result \in Seq(AllRows) /\ Len(result) \in Nat \ {0}
      /\ Len(listed) \in Nat /\ Tail(result) \in Seq(AllRows)
      /\ Len(Tail(result)) = Len(result) - 1 /\ row = result[1]
      /\ \A k \in 1..Len(result) - 1 : Tail(result)[k] = result[k + 1]
  BY <1>1 DEF LoadedShape
<1>3. /\ n \in Nat /\ n + 1 <= Len(listed) /\ Fetched' = n + 1 /\ row = listed[n + 1]
      /\ Len(result') <= Len(listed')
  BY <1>1, <1>2 DEF RowsInv, Fetched
<1>4. d.hdid = row.hdid /\ d.com = Head(coms)
  BY DEF Device
<1> HIDE DEF d, row, n
<1>5. /\ Sequence(devices') /\ Len(devices') = Len(devices) + 1 /\ Len(devices) \in Nat
      /\ \A k \in 1..Len(devices) : devices'[k] = devices[k]
      /\ devices'[Len(devices) + 1] = d
      /\ \A c : LoadedOf(devices', c) =
                 LoadedOf(devices, c) \cup (IF d.com = c THEN {d.hdid} ELSE {})
  <2>1. Sequence(devices) /\ devices' = Append(devices, d)
    BY <1>1 DEF LoadedShape, d, row
  <2>2. \A c : LoadedOf(devices', c) =
                 LoadedOf(devices, c) \cup (IF d.com = c THEN {d.hdid} ELSE {})
    BY <2>1, LoadedAppend
  <2>3. QED
    BY <2>1, <2>2, AppendIs
<1>6. LoadedShape'
  BY <1>1, <1>2, <1>5 DEF LoadedShape
<1>7. Stages' /\ EmptyAtFirst'
  BY <1>1 DEF Stages, EmptyAtFirst, Filling
<1>8. RowsInv'
  <2>1. ASSUME NEW k \in 1..Len(result) - 1 PROVE Tail(result)[k] = listed[n + 1 + k]
    <3>1. result[k + 1] = listed[n + (k + 1)] /\ Tail(result)[k] = result[k + 1]
      BY <1>1, <1>2 DEF RowsInv, n
    <3>2. QED
      BY <1>3, <3>1
  <2>2. QED
    BY <1>2, <1>3, <2>1 DEF RowsInv
<1>9. PollerInv'
  <2> SUFFICES ASSUME who = "poller" PROVE PollerInv'
    BY DEF PollerInv
  <2>1. Len(devices) = n /\ \A k \in 1..n : devices[k].hdid = listed[k].hdid
    BY DEF ListsInv, PollerInv, n
  <2>2. \A k \in 1..n + 1 : devices'[k].hdid = listed[k].hdid
    BY <1>3, <1>4, <1>5, <2>1
  <2>3. QED
    BY <1>3, <1>5, <2>1, <2>2 DEF PollerInv, PolledAsListed
<1>10. ASSUME NEW c \in Ports, PortFull(c) PROVE PortFull(c)'
  <2>1. Upto(c)' = Upto(c) /\ (\A m : Served(c, m)' = Served(c, m)) /\ Ahead(c)' = Ahead(c)
    BY UptoStays DEF Ahead
  <2>2. CASE c # Head(coms)
    <3>1. d.com # c
      BY <1>4, <2>2
    <3>2. \A S, T : S = T \cup (IF d.com = c THEN {d.hdid} ELSE {}) => S = T
      BY <3>1
    <3>3. LoadedOf(devices', c) = LoadedOf(devices, c)
      BY <1>5, <3>2
    <3>4. QED
      BY <1>10, <2>1, <2>2, <3>3 DEF PortFull
  <2>3. CASE c = Head(coms)
    <3>1. /\ listed = db.rows[c] /\ n <= Upto(c)
          /\ Served(c, n) \subseteq LoadedOf(devices, c)
          /\ LoadedOf(devices, c) \subseteq Served(c, Upto(c))
      BY <1>10, <2>3 DEF PortFull, n
    <3>2. /\ Upto(c) \in 0..Len(listed)
          /\ Upto(c) < Len(listed) => Refused(listed[Upto(c) + 1])
      BY <1>1, <3>1, UptoIs DEF LoadedShape
    <3>3. ~Refused(listed[n + 1])
      BY <1>3 DEF row
    <3>4. n + 1 <= Upto(c)
      BY <1>3, <3>1, <3>2, <3>3
    <3>5. Served(c, n + 1) = Served(c, n) \cup {row.hdid}
      BY <1>3, <3>1, SMTT(40) DEF Served
    <3>6. row.hdid \in Served(c, Upto(c))
      BY <1>3, <3>1, <3>2, <3>4 DEF Served
    <3>7. LoadedOf(devices', c) = LoadedOf(devices, c) \cup {row.hdid}
      BY <1>4, <1>5, <2>3
    <3>8. Ahead(c)
      BY <1>1, <2>3 DEF LoadedShape, Stages, Ahead
    <3>9. QED
      BY <1>3, <2>1, <3>1, <3>4, <3>5, <3>6, <3>7, <3>8 DEF PortFull
  <2>4. QED
    BY <2>2, <2>3
<1>11. PortsInv'
  <2>1. ~Filling' /\ Calm' = Calm
    BY DEF Filling, Calm
  <2>2. QED
    BY <1>10, <2>1 DEF ListsInv, PortsInv
<1>12. QED
  BY <1>6, <1>7, <1>8, <1>9, <1>11 DEF ListsInv

\* What a port has when its query ends: all rows, or those before one that is refused.
LEMMA PortComplete ==
  ASSUME TablesConstants, ListsInv, loading = "rows", who # "poller", Calm,
         result = <<>> \/ Refused(Head(result))
  PROVE  LoadedOf(devices, Head(coms)) = Served(Head(coms), Upto(Head(coms)))
<1> DEFINE c == Head(coms)
<1>1. LoadedShape /\ Stages /\ RowsInv /\ c \in Ports
  BY DEF ListsInv, LoadedShape, Stages
<1>2. PortFull(c)
  BY <1>1 DEF ListsInv, PortsInv
<1> HIDE DEF c
<1>3. /\ listed = db.rows[c] /\ Fetched <= Upto(c)
      /\ Served(c, Fetched) \subseteq LoadedOf(devices, c)
      /\ LoadedOf(devices, c) \subseteq Served(c, Upto(c))
  BY <1>2 DEF PortFull, c
<1>4. /\ Upto(c) \in 0..Len(listed)
      /\ \A k \in 1..Upto(c) : ~Refused(listed[k])
  BY <1>1, <1>3, UptoIs DEF LoadedShape
<1>5. /\ Len(result) \in Nat /\ Len(listed) \in Nat
      /\ result # <<>> => Len(result) > 0 /\ Head(result) = result[1]
      /\ result = <<>> => Len(result) = 0
  BY <1>1 DEF LoadedShape
<1>6. Fetched = Upto(c)
  <2>1. CASE result = <<>>
    BY <1>3, <1>4, <1>5, <2>1 DEF Fetched
  <2>2. CASE result # <<>>
    <3>1. Refused(listed[Fetched + 1]) /\ Fetched \in Nat
      BY <1>1, <1>5, <2>2 DEF RowsInv, Fetched
    <3>2. QED
      BY <1>3, <1>4, <3>1
  <2>3. QED
    BY <2>1, <2>2
<1>7. QED
  BY <1>3, <1>6 DEF c

LEMMA FetchKeeps ==
  ASSUME TablesConstants, ListsInv, FetchRow
  PROVE  ListsInv'
<1>1. /\ loading = "rows" /\ LoadedShape /\ Stages /\ coms # <<>> /\ unasked = <<>>
      /\ UNCHANGED <<db, who, unasked, listed, edits>>
  BY DEF FetchRow, ListsInv, Stages
<1>2. CASE result # <<>> /\ NoFault /\ loading' = "crashed"
           /\ UNCHANGED <<ghdparamlist_list, devices, coms, result>>
  <2>1. LoadedShape'
    BY <1>1, <1>2 DEF LoadedShape, NoFault
  <2>2. Stages' /\ EmptyAtFirst' /\ RowsInv' /\ PollerInv' /\ PortsInv'
    BY <1>2 DEF Stages, EmptyAtFirst, Filling, RowsInv, PollerInv, PolledAsListed, PortsInv
  <2>3. QED
    BY <2>1, <2>2 DEF ListsInv
<1>3. CASE /\ result # <<>> /\ GiveUp /\ result' = <<>>
           /\ (Refused(Head(result)) /\ NoFault) \/ Fault
  <2>1. CASE who = "poller"
    BY <1>1, <1>3, <2>1, PollerGivesUp DEF NoFault, Fault
  <2>2. CASE who # "poller"
    <3>1. NextPort /\ UNCHANGED <<ghdparamlist_list, devices>> /\ result' \in Seq(AllRows)
      BY <1>3, <2>2 DEF GiveUp
    <3>2. /\ dbfaults' \in {dbfaults, dbfaults + 1}
          /\ Calm' => Calm /\ Refused(Head(result))
      BY <1>1, <1>3 DEF Fault, NoFault, Calm, LoadedShape
    <3>3. Calm' => LoadedOf(devices, Head(coms)) = Served(Head(coms), Upto(Head(coms)))
      BY <1>1, <2>2, <3>2, PortComplete
    <3>4. QED
      BY <1>1, <2>2, <3>1, <3>2, <3>3, OthersGoOn
  <2>3. QED
    BY <2>1, <2>2
<1>4. CASE /\ result # <<>> /\ NoFault /\ ~Refused(Head(result))
           /\ devices' = Append(devices, Device(Head(coms), Head(result)))
           /\ result' = Tail(result)
           /\ UNCHANGED <<loading, ghdparamlist_list, coms>>
  BY <1>1, <1>4, EnterKeeps DEF NoFault
<1>5. CASE /\ result = <<>> /\ NoFault /\ nbharddevice' = Len(devices) /\ NextPort
           /\ UNCHANGED <<ghdparamlist_list, devices, result>>
  <2>1. CASE who = "poller"
    BY <1>1, <1>5, <2>1, PollerStarts DEF NoFault
  <2>2. CASE who # "poller"
    <3>1. Calm' = Calm /\ dbfaults' = dbfaults /\ result' \in Seq(AllRows)
      BY <1>1, <1>5 DEF Calm, NoFault, LoadedShape
    <3>2. Calm => LoadedOf(devices, Head(coms)) = Served(Head(coms), Upto(Head(coms)))
      BY <1>1, <1>5, <2>2, PortComplete
    <3>3. QED
      BY <1>1, <1>5, <2>2, <3>1, <3>2, OthersGoOn
  <2>3. QED
    BY <2>1, <2>2
<1>6. QED
  BY <1>2, <1>3, <1>4, <1>5 DEF FetchRow

LEMMA ListsNext ==
  ASSUME TablesConstants, ListsInv, [TablesNext]_tableVars
  PROVE  ListsInv'
<1>1. ASSUME NEW c \in Ports, StartLoading("poller", <<c>>) PROVE ListsInv'
  <2>1. <<c>> \in Seq(Ports) /\ Len(<<c>>) = 1 /\ <<c>> # <<>>
    OBVIOUS
  <2>2. QED
    BY <1>1, <2>1, StartKeeps
<1>2. /\ ComNames \in Seq(Ports) /\ ComNames # <<>>
      /\ \A c \in Ports : \E k \in 1..Len(ComNames) : ComNames[k] = c
  BY DEF TablesConstants, Ports, ToSet
<1>3. CASE StartLoading("air", ComNames)
  BY <1>2, <1>3, StartKeeps
<1>4. CASE StartLoading("server", ComNames \o ComNames)
  <2> DEFINE cs == ComNames \o ComNames
  <2>1. /\ cs \in Seq(Ports) /\ Len(cs) = Len(ComNames) + Len(ComNames)
        /\ Len(ComNames) \in Nat \ {0}
        /\ \A k \in 1..Len(ComNames) : cs[k] = ComNames[k]
    BY <1>2
  <2> HIDE DEF cs
  <2>2. cs # <<>>
    BY <2>1
  <2>3. \A c \in Ports : \E k \in 1..Len(cs) : cs[k] = c
    <3>1. \A k \in 1..Len(ComNames) : k \in 1..Len(cs)
      BY <2>1
    <3>2. QED
      BY <1>2, <2>1, <3>1
  <2>4. QED
    BY <1>4, <2>1, <2>2, <2>3, StartKeeps DEF cs
<1>5. CASE LoadTypes
  BY <1>5, TypesKeep
<1>6. CASE LoadTable
  BY <1>6, TableKeeps
<1>7. CASE AskRows
  BY <1>7, AskKeeps
<1>8. CASE FetchRow
  BY <1>8, FetchKeeps
<1>9. ASSUME NEW n \in DOMAIN devices, NEW r \in Readings, PollDevice(n, r) PROVE ListsInv'
  <2>1. UNCHANGED <<db, who, lists, edits>>
    BY <1>9 DEF PollDevice
  <2>2. loading' \in {loading, "crashed"} /\ dbfaults' \in {dbfaults, dbfaults + 1}
    BY <1>9 DEF PollDevice, Fault, NoFault
  <2>3. QED
    BY <2>1, <2>2, QuietKeeps
<1>10. CASE HardtypeOp
  <2>1. UNCHANGED <<db, who, loading, lists, edits>>
    BY <1>10 DEF HardtypeOp
  <2>2. dbfaults' \in {dbfaults, dbfaults + 1}
    BY <1>10 DEF HardtypeOp, Fault, NoFault
  <2>3. QED
    BY <2>1, <2>2, QuietKeeps
<1>11. CASE StopLoaded
  BY <1>11, StopKeeps
<1>12. CASE EditDatabase
  BY <1>12, EditKeeps
<1>13. CASE UNCHANGED tableVars
  BY <1>13, QuietKeeps DEF tableVars, lists
<1>14. QED
  BY <1>1, <1>3, <1>4, <1>5, <1>6, <1>7, <1>8, <1>9, <1>10, <1>11, <1>12, <1>13
     DEF TablesNext, Ports

LEMMA ListsListed == ASSUME ListsInv PROVE DevicesListed
<1>1. PolledAsListed
  BY DEF ListsInv, PollerInv, Stages, PolledAsListed
<1>2. OtherPortsListed
  <2> SUFFICES ASSUME loading = "ready", Calm, NEW c \in Ports
               PROVE  {devices[k].hdid : k \in {j \in DOMAIN devices : devices[j].com = c}}
                        = {db.rows[c][k].hdid : k \in 1..Upto(c)}
    BY DEF OtherPortsListed, Calm, Ports, Upto, Bad
  <2>1. who # "poller" /\ PortFull(c) /\ (loading = "ready" => coms = <<>>)
    BY DEF ListsInv, Stages, PortsInv
  <2>2. ~Ahead(c)
    BY <2>1 DEF Ahead
  <2>3. QED
    BY <2>1, <2>2 DEF PortFull, LoadedOf, Served
<1>3. QED
  BY <1>1, <1>2 DEF DevicesListed

\* What the threads work on is what the tables list, however the types and rows look, where
\* a query fails or a row is refused, and whenever somebody edits the tables: a poller
\* has the devices of its query, in order and once, and a list over all ports those before
\* the first bad row of each.
THEOREM DevicesListedHolds ==
  ASSUME TablesConstants
  PROVE  TablesSpec => []DevicesListed
<1>1. TablesInit => ListsInv
  BY ListsInit
<1>2. ListsInv /\ [TablesNext]_tableVars => ListsInv'
  BY ListsNext
<1>3. ListsInv => DevicesListed
  BY ListsListed
<1>4. QED
  BY <1>1, <1>2, <1>3, PTL DEF TablesSpec

------------------------------------------------------------------------------
(* The derived columns of a switch                                           *)

Derivations == [on : SUBSET Switch, manual : SUBSET Switch, ctl : SUBSET Switch, sound : BOOLEAN]

StoredTypes ==
  /\ derived \in [Hdids -> Derivations]
  /\ DOMAIN columns = Hdids /\ \A h \in Hdids : Switch \subseteq DOMAIN columns[h]

\* A table of parameters has those of its own type only, also if it was cut, or appended
\* to by air control, and so has a device.
OwnTables(list) ==
  Sequence(list) /\ \A k \in DOMAIN list : list[k].params \in Seq(OwnParams(list[k].name))
ListsOwn == OwnTables(ghdparamlist_list) /\ OwnTables(air_list)

OfARow(d) ==
  /\ d.hdid \in Hdids
  /\ d.gparamlist.params \in Seq(OwnParams(d.hdtype))
DevicesOwn == \A k \in DOMAIN devices : OfARow(devices[k])

\* The row of a device between its two statements is newer than what is derived from it.
Between == turn # 0 => loading = "polling" /\ turn \in DOMAIN devices
Underway(h) == turn # 0 /\ devices[turn].hdid = h

Agrees(row, der) ==
  \A c \in Switch :
    LET byte == SwitchByte(row[c])
    IN /\ c \in der.on <=> byte.on
       /\ c \in der.manual <=> byte.manual
       /\ c \in der.ctl <=> byte.ctl

SwitchesAgree ==
  \A h \in Hdids : derived[h].sound /\ ~Underway(h) => Agrees(columns[h], derived[h])

SwitchInv == StoredTypes /\ ListsOwn /\ DevicesOwn /\ Between /\ SwitchesAgree

LEMMA HdidsAre == \A r \in AllRows : r.hdid \in Hdids
<1> SUFFICES ASSUME NEW r \in AllRows PROVE r.hdid \in Hdids
  OBVIOUS
<1>1. PICK d \in Databases, c \in ToSet(ComNames) : r \in ToSet(d.rows[c])
  BY DEF AllRows
<1>2. PICK k \in DOMAIN d.rows[c] : d.rows[c][k] = r
  BY <1>1 DEF ToSet
<1> DEFINE of(e, b) == {e.rows[b][j].hdid : j \in DOMAIN e.rows[b]}
<1>3. r.hdid \in of(d, c)
  BY <1>2
<1>4. Hdids = UNION {of(e, b) : e \in Databases, b \in ToSet(ComNames)}
  BY DEF Hdids
<1> HIDE DEF of
<1>5. QED
  BY <1>3, <1>4

LEMMA DeriveIs ==
  ASSUME NEW row
  PROVE  Derive(row) \in Derivations /\ Agrees(row, Derive(row))
<1>1. Derive(row) \in Derivations
  BY DEF Derive, DerivedFrom, Having, Derivations
<1>2. /\ Derive(row).on = {c \in Switch : SwitchByte(row[c]).on}
      /\ Derive(row).manual = {c \in Switch : SwitchByte(row[c]).manual}
      /\ Derive(row).ctl = {c \in Switch : SwitchByte(row[c]).ctl}
  BY DEF Derive, DerivedFrom, Having
<1>3. QED
  BY <1>1, <1>2, Zenon DEF Agrees

LEMMA EmptyOwn == OwnTables(<<>>)
  BY DEF OwnTables, Sequence

LEMMA SwitchInit == TablesInit => SwitchInv
<1> SUFFICES ASSUME TablesInit PROVE SwitchInv
  OBVIOUS
<1> DEFINE none == [c \in Switch |-> NULL]
<1>1. /\ derived = [h \in Hdids |-> Derive(none)]
      /\ columns = [h \in Hdids |-> [c \in AllColumns |-> NULL]]
      /\ devices = <<>> /\ turn = 0
      /\ ghdparamlist_list = <<>> /\ air_list = <<>>
  BY DEF TablesInit
<1>2. Derive(none) \in Derivations /\ Agrees(none, Derive(none))
  BY DeriveIs
<1>3. Switch \subseteq AllColumns
  BY DEF AllColumns
<1> HIDE DEF none
<1>4. StoredTypes /\ ListsOwn /\ DevicesOwn /\ Between
  BY <1>1, <1>2, <1>3, EmptyOwn DEF StoredTypes, ListsOwn, DevicesOwn, Between
<1>5. ASSUME NEW h \in Hdids PROVE Agrees(columns[h], derived[h])
  <2>1. \A c \in Switch : columns[h][c] = none[c]
    BY <1>1, <1>3 DEF none
  <2>2. derived[h] = Derive(none)
    BY <1>1
  <2>3. QED
    BY <1>2, <2>1, <2>2 DEF Agrees
<1>6. QED
  BY <1>4, <1>5 DEF SwitchInv, SwitchesAgree

------------------------------------------------------------------------------
(* The lists have parameters of their own type                               *)

\* The parameters of a type in the database, or none.
LEMMA StoredParams ==
  ASSUME TablesConstants, SwitchColumnsOwn, db \in Databases, NEW name
  PROVE  (IF name \in DOMAIN db.params THEN db.params[name] ELSE <<>>) \in Seq(OwnParams(name))
<1>1. CASE name \in DOMAIN db.params
  <2>1. db.params[name] \in Seq(AllParams) /\ ToSet(db.params[name]) \subseteq OwnParams(name)
    BY <1>1 DEF TablesConstants, SwitchColumnsOwn
  <2>2. \A k \in DOMAIN db.params[name] : db.params[name][k] \in OwnParams(name)
    BY <2>1 DEF ToSet
  <2>3. QED
    BY <1>1, <2>1, <2>2
<1>2. QED
  BY <1>1

LEMMA PrefixIs ==
  ASSUME NEW S, NEW s \in Seq(S), NEW p \in Prefixes(s)
  PROVE  p \in Seq(S)
<1>1. PICK l \in 0..Len(s) : p = SubSeq(s, 1, l)
  BY DEF Prefixes
<1>2. QED
  BY <1>1

\* The names of the types, in some order.
LEMMA TypeNamesIs ==
  ASSUME TablesConstants, db \in Databases
  PROVE  TypeNames \in Seq(DOMAIN db.params)
<1> DEFINE S == DOMAIN db.params
<1>1. IsFiniteSet(S)
  BY DEF TablesConstants
<1> HIDE DEF S
<1>2. PICK n \in Nat : ExistsBijection(1..n, S)
  BY <1>1, FS_NatBijection
<1>3. Cardinality(S) = n
  BY <1>2, FS_CountingElements
<1>4. PICK f : f \in Bijection(1..n, S)
  BY <1>2 DEF ExistsBijection
<1>5. f \in [1..Cardinality(S) -> S] /\ IsInjective(f)
  BY <1>3, <1>4 DEF Bijection, Injection
<1>6. SetToSeq(S) \in [1..Cardinality(S) -> S]
  BY <1>5 DEF SetToSeq
<1>7. QED
  BY <1>3, <1>6 DEF TypeNames, S

\* Tables that wait for their parameters have none.
LEMMA UnfilledOwn ==
  ASSUME TablesConstants, db \in Databases, NEW list, OwnTables(list),
         NEW names \in Prefixes(TypeNames)
  PROVE  OwnTables(list \o [k \in DOMAIN names |-> Unfilled(names[k])])
<1> DEFINE more == [k \in DOMAIN names |-> Unfilled(names[k])]
           all == list \o more
<1>1. names \in Seq(DOMAIN db.params)
  BY TypeNamesIs, PrefixIs
<1>2. PICK S : list \in Seq(S)
  BY DEF OwnTables, Sequence
<1> DEFINE T == S \cup {Unfilled(n) : n \in DOMAIN db.params}
<1>3. \A k \in DOMAIN names : more[k] = Unfilled(names[k]) /\ more[k] \in T
  BY <1>1
<1>4. DOMAIN more = 1..Len(names) /\ Len(names) \in Nat /\ DOMAIN names = 1..Len(names)
  BY <1>1
<1>5. more \in Seq(T) /\ list \in Seq(T)
  <2> HIDE DEF T
  <2>1. more \in [1..Len(names) -> T]
    BY <1>3, <1>4
  <2>2. S \subseteq T
    BY DEF T
  <2>3. QED
    BY <1>2, <1>4, <2>1, <2>2
<1> HIDE DEF T
<1>6. /\ all \in Seq(T)
      /\ \A k \in DOMAIN all : \/ k \in DOMAIN list /\ all[k] = list[k]
                               \/ \E j \in DOMAIN more : all[k] = more[j]
  <2> HIDE DEF more
  <2>1. QED
    BY <1>5
<1>7. \A j \in DOMAIN more : more[j].params = <<>>
  BY <1>3, <1>4 DEF Unfilled
<1>8. \A k \in DOMAIN all : all[k].params \in Seq(OwnParams(all[k].name))
  <2> HIDE DEF more, all
  <2> SUFFICES ASSUME NEW k \in DOMAIN all PROVE all[k].params \in Seq(OwnParams(all[k].name))
    OBVIOUS
  <2>1. CASE k \in DOMAIN list /\ all[k] = list[k]
    BY <2>1 DEF OwnTables
  <2>2. CASE \E j \in DOMAIN more : all[k] = more[j]
    <3>1. all[k].params = <<>>
      BY <1>7, <2>2
    <3>2. <<>> \in Seq(OwnParams(all[k].name))
      OBVIOUS
    <3>3. QED
      BY <3>1, <3>2
  <2>3. QED
    BY <1>6, <2>1, <2>2
<1>9. QED
  BY <1>6, <1>8 DEF OwnTables, Sequence

\* A table is filled, or some parameters are appended to it.
LEMMA FilledOwn ==
  ASSUME NEW list, OwnTables(list), NEW k, NEW table,
         k \in DOMAIN list => table.name = list[k].name /\ table.params \in Seq(OwnParams(table.name))
  PROVE  OwnTables([list EXCEPT ![k] = table])
<1> DEFINE new == [list EXCEPT ![k] = table]
<1>1. PICK S : list \in Seq(S)
  BY DEF OwnTables, Sequence
<1>2. /\ DOMAIN new = DOMAIN list
      /\ \A j \in DOMAIN list : new[j] = (IF j = k THEN table ELSE list[j])
  BY <1>1
<1>3. new \in Seq(S \cup {table})
  <2>1. DOMAIN list = 1..Len(list) /\ Len(list) \in Nat /\ \A j \in DOMAIN list : list[j] \in S
    BY <1>1
  <2>2. new \in [1..Len(list) -> S \cup {table}]
    BY <1>2, <2>1
  <2>3. QED
    BY <2>1, <2>2
<1>4. ASSUME NEW j \in DOMAIN new PROVE new[j].params \in Seq(OwnParams(new[j].name))
  BY <1>2, <1>4 DEF OwnTables
<1>5. QED
  BY <1>3, <1>4 DEF OwnTables, Sequence

LEMMA TypesOwn ==
  ASSUME TablesConstants, ListsInv, ListsOwn, LoadTypes
  PROVE  ListsOwn'
<1>1. db \in Databases
  BY DEF ListsInv, LoadedShape
<1>2. ghdparamlist_list' = <<>>
      \/ \E names \in Prefixes(TypeNames) :
           ghdparamlist_list' = ghdparamlist_list \o [k \in DOMAIN names |-> Unfilled(names[k])]
  BY DEF LoadTypes, Idle
<1>3. OwnTables(ghdparamlist_list')
  BY <1>1, <1>2, UnfilledOwn, EmptyOwn DEF ListsOwn
<1>4. QED
  BY <1>3 DEF ListsOwn, LoadTypes

LEMMA TableOwn ==
  ASSUME TablesConstants, SwitchColumnsOwn, ListsInv, ListsOwn, LoadTable
  PROVE  ListsOwn'
<1> DEFINE list == ghdparamlist_list
           k == Head(unasked)
           name == list[k].name
           stored_now == IF name \in DOMAIN db.params THEN db.params[name] ELSE <<>>
<1>1. db \in Databases /\ OwnTables(list)
  BY DEF ListsInv, LoadedShape, ListsOwn
<1>2. stored_now \in Seq(OwnParams(name))
  BY <1>1, StoredParams
<1>3. k \in DOMAIN list => list[k].params \in Seq(OwnParams(name))
  BY <1>1 DEF OwnTables
<1>4. \/ list' \in {list, <<>>}
      \/ \E params \in {stored_now, <<>>} :
           list' = [list EXCEPT ![k] = Table(name, list[k].params \o params)]
      \/ \E some \in Prefixes(stored_now) : list' = [list EXCEPT ![k].params = @ \o some]
  BY DEF LoadTable, Idle
<1> HIDE DEF list, k, name, stored_now
<1>5. ASSUME NEW params \in {stored_now, <<>>},
             list' = [list EXCEPT ![k] = Table(name, list[k].params \o params)]
      PROVE  OwnTables(list')
  <2> DEFINE table == Table(name, list[k].params \o params)
  <2>1. table.name = name /\ table.params = list[k].params \o params
    BY DEF Table
  <2>2. params \in Seq(OwnParams(name))
    <3>1. <<>> \in Seq(OwnParams(name)) /\ (params = stored_now \/ params = <<>>)
      OBVIOUS
    <3>2. QED
      BY <1>2, <3>1
  <2>3. k \in DOMAIN list => list[k].params \o params \in Seq(OwnParams(name))
    BY <1>3, <2>2
  <2> HIDE DEF table
  <2>4. OwnTables([list EXCEPT ![k] = table])
    BY <1>1, <2>1, <2>3, FilledOwn DEF name
  <2>5. QED
    BY <1>5, <2>4 DEF table
<1>6. ASSUME NEW some \in Prefixes(stored_now), list' = [list EXCEPT ![k].params = @ \o some]
      PROVE  OwnTables(list')
  <2> DEFINE table == [list[k] EXCEPT !.params = @ \o some]
  <2>1. some \in Seq(OwnParams(name))
    BY <1>2, <1>6, PrefixIs
  <2>2. k \in DOMAIN list => table.name = list[k].name /\ table.params \in Seq(OwnParams(list[k].name))
    BY <1>3, <2>1 DEF name
  <2>3. list' = [list EXCEPT ![k] = table]
    BY <1>6
  <2> HIDE DEF table
  <2>4. QED
    BY <1>1, <2>2, <2>3, FilledOwn
<1>7. OwnTables(list')
  BY <1>1, <1>4, <1>5, <1>6, EmptyOwn
<1>8. QED
  BY <1>7 DEF ListsOwn, LoadTable, list

------------------------------------------------------------------------------
(* ... and the devices those of theirs                                       *)

\* Lists are made and freed between the turns.
LEMMA ListsSwitch ==
  ASSUME SwitchInv, ListsOwn', UNCHANGED <<stored, turn>>,
         \/ UNCHANGED <<loading, devices>>
         \/ turn = 0 /\ UNCHANGED devices
         \/ turn = 0 /\ devices' = <<>>
         \/ /\ turn = 0 /\ Sequence(devices)
            /\ \E d : OfARow(d) /\ devices' = Append(devices, d)
  PROVE  SwitchInv'
<1>1. StoredTypes'
  BY DEF SwitchInv, StoredTypes, stored
<1>2. DevicesOwn'
  <2>1. CASE UNCHANGED devices \/ devices' = <<>>
    BY <2>1 DEF SwitchInv, DevicesOwn
  <2>2. ASSUME Sequence(devices), NEW d, OfARow(d), devices' = Append(devices, d)
        PROVE  DevicesOwn'
    <3>1. /\ Len(devices) \in Nat /\ DOMAIN devices = 1..Len(devices)
          /\ DOMAIN devices' = 1..Len(devices) + 1
          /\ \A k \in 1..Len(devices) : devices'[k] = devices[k]
          /\ devices'[Len(devices) + 1] = d
      BY <2>2, AppendIs
    <3>2. \A k \in 1..Len(devices) + 1 : k \in 1..Len(devices) \/ k = Len(devices) + 1
      BY <3>1
    <3>3. QED
      BY <2>2, <3>1, <3>2 DEF SwitchInv, DevicesOwn
  <2>3. QED
    BY <2>1, <2>2
<1>3. Between' /\ \A h : turn # 0 => Underway(h)' = Underway(h)
  BY DEF SwitchInv, Between, Underway
<1>4. SwitchesAgree'
  BY <1>3 DEF SwitchInv, SwitchesAgree, Underway, stored
<1>5. QED
  BY <1>1, <1>2, <1>3, <1>4 DEF SwitchInv

\* A row that is not refused has a table, the one with the name of its type.
LEMMA DeviceOwn ==
  ASSUME ListsOwn, NEW r \in AllRows, ~Refused(r), NEW com
  PROVE  OfARow(Device(com, r))
<1> DEFINE n == Min(TableOf(r.hdtype))
<1>1. TableOf(r.hdtype) # {}
  BY DEF Refused
<1>2. PICK S : ghdparamlist_list \in Seq(S)
  BY DEF ListsOwn, OwnTables, Sequence
<1>3. TableOf(r.hdtype) \subseteq DOMAIN ghdparamlist_list /\ DOMAIN ghdparamlist_list \subseteq Nat
  BY <1>2 DEF TableOf
<1>4. n \in TableOf(r.hdtype)
  BY <1>1, <1>3, Least
<1>5. n \in DOMAIN ghdparamlist_list /\ ghdparamlist_list[n].name = r.hdtype
  BY <1>4 DEF TableOf
<1> HIDE DEF n
<1>6. ghdparamlist_list[n].params \in Seq(OwnParams(r.hdtype))
  BY <1>5 DEF ListsOwn, OwnTables
<1>7. /\ Device(com, r).hdid = r.hdid /\ Device(com, r).hdtype = r.hdtype
      /\ Device(com, r).gparamlist = ghdparamlist_list[n]
  BY DEF Device, n
<1>8. QED
  BY <1>6, <1>7, HdidsAre DEF OfARow

LEMMA FetchSwitch ==
  ASSUME ListsInv, SwitchInv, FetchRow
  PROVE  SwitchInv'
<1>1. /\ turn = 0 /\ UNCHANGED <<stored, turn, air_list>>
      /\ Sequence(devices) /\ result \in Seq(AllRows)
  BY DEF FetchRow, ListsInv, LoadedShape, SwitchInv, Between
<1>2. ghdparamlist_list' \in {ghdparamlist_list, <<>>}
  BY DEF FetchRow, GiveUp, Idle
<1>3. ListsOwn'
  BY <1>1, <1>2, EmptyOwn DEF SwitchInv, ListsOwn
<1>4. \/ UNCHANGED devices
      \/ devices' = <<>>
      \/ /\ result # <<>> /\ ~Refused(Head(result))
         /\ devices' = Append(devices, Device(Head(coms), Head(result)))
  BY DEF FetchRow, GiveUp, Idle
<1>5. result # <<>> => Head(result) \in AllRows
  BY <1>1
<1>6. result # <<>> /\ ~Refused(Head(result)) => OfARow(Device(Head(coms), Head(result)))
  BY <1>5, DeviceOwn DEF SwitchInv
<1>7. QED
  BY <1>1, <1>3, <1>4, <1>6, ListsSwitch

------------------------------------------------------------------------------
(* The two statements of a poll                                              *)

\* A device that is no switch leaves the columns of a switch alone.
LEMMA OtherColumns ==
  ASSUME NEW d, OfARow(d), d.hdtype # "5", NEW r
  PROVE  Switch \cap DOMAIN SqlInsertHandle(d, r) = {}
<1> DEFINE params == d.gparamlist.params
<1>1. params \in Seq(OwnParams(d.hdtype))
  BY DEF OfARow
<1>2. \A k \in DOMAIN params : params[k].colum \notin Switch
  BY <1>1 DEF OwnParams
<1>3. DOMAIN SqlInsertHandle(d, r) = {params[k].colum : k \in DOMAIN params}
  BY DEF SqlInsertHandle
<1>4. QED
  BY <1>2, <1>3

LEMMA PollSwitch ==
  ASSUME SwitchInv, NEW n \in DOMAIN devices, n \in 1..nbharddevice,
         NEW r \in Readings, PollDevice(n, r)
  PROVE  SwitchInv'
<1> DEFINE h == devices[n].hdid
           text == SqlInsertHandle(devices[n], r)
<1>1. /\ loading = "polling" /\ turn = 0 /\ UNCHANGED lists /\ n # 0
  BY DEF PollDevice
<1>2. h \in Hdids /\ (devices[n].hdtype # "5" => Switch \cap DOMAIN text = {})
  BY OtherColumns DEF SwitchInv, DevicesOwn, OfARow
<1>3. ListsOwn'
  BY <1>1 DEF SwitchInv, ListsOwn, lists
<1>4. CASE UNCHANGED <<stored, turn>>
  BY <1>1, <1>3, <1>4, ListsSwitch DEF lists
<1>5. CASE /\ columns' = [columns EXCEPT ![h] =
                           [c \in DOMAIN @ |-> IF c \in DOMAIN text THEN text[c] ELSE @[c]]]
           /\ UNCHANGED loading
           /\ \/ turn' = (IF devices[n].hdtype = "5" THEN n ELSE 0) /\ UNCHANGED derived
              \/ derived' = [derived EXCEPT ![h].sound = FALSE] /\ UNCHANGED turn
  <2> HIDE DEF text, h
  <2>1. /\ DOMAIN columns' = Hdids /\ DOMAIN columns'[h] = DOMAIN columns[h]
        /\ \A c \in DOMAIN columns[h] : c \notin DOMAIN text => columns'[h][c] = columns[h][c]
        /\ \A g \in Hdids : g # h => columns'[g] = columns[g]
    BY <1>2, <1>5 DEF SwitchInv, StoredTypes
  <2>2. /\ derived' \in [Hdids -> Derivations]
        /\ \A g \in Hdids : g # h => derived'[g] = derived[g]
        /\ UNCHANGED derived \/ ~derived'[h].sound
    <3>1. UNCHANGED derived \/ derived' = [derived EXCEPT ![h].sound = FALSE]
      BY <1>5
    <3>2. derived \in [Hdids -> Derivations] /\ h \in Hdids
      BY <1>2 DEF SwitchInv, StoredTypes
    <3>3. CASE derived' = [derived EXCEPT ![h].sound = FALSE]
      BY <3>2, <3>3 DEF Derivations
    <3>4. QED
      BY <3>1, <3>2, <3>3
  <2>3. StoredTypes'
    BY <2>1, <2>2 DEF SwitchInv, StoredTypes
  <2>4. DevicesOwn' /\ Between'
    BY <1>1, <1>5 DEF SwitchInv, DevicesOwn, Between, lists
  <2>5. \A g \in Hdids : ~Underway(g)
    BY <1>1 DEF Underway
  <2>6. ASSUME NEW g \in Hdids, derived'[g].sound, ~Underway(g)'
        PROVE  Agrees(columns'[g], derived'[g])
    <3>1. CASE g # h
      BY <2>1, <2>2, <2>5, <2>6, <3>1 DEF SwitchInv, SwitchesAgree
    <3>2. CASE g = h
      <4>1. UNCHANGED derived /\ devices[n].hdtype # "5"
        <5>1. UNCHANGED derived
          BY <2>2, <2>6, <3>2
        <5>2. ~(turn' = n)
          BY <1>1, <2>6, <3>2 DEF Underway, h, lists
        <5>3. \/ turn' = (IF devices[n].hdtype = "5" THEN n ELSE 0)
              \/ ~derived'[h].sound
          <6>1. \/ turn' = (IF devices[n].hdtype = "5" THEN n ELSE 0)
                \/ derived' = [derived EXCEPT ![h].sound = FALSE]
            BY <1>5
          <6>2. derived \in [Hdids -> Derivations] /\ h \in Hdids
            BY <1>2 DEF SwitchInv, StoredTypes
          <6>3. QED
            BY <6>1, <6>2 DEF Derivations
        <5>4. QED
          BY <2>6, <3>2, <5>1, <5>2, <5>3
      <4>2. \A c \in Switch : columns'[h][c] = columns[h][c]
        BY <1>2, <2>1, <4>1 DEF SwitchInv, StoredTypes
      <4>3. Agrees(columns[h], derived[h])
        BY <2>5, <2>6, <3>2, <4>1 DEF SwitchInv, SwitchesAgree
      <4>4. QED
        BY <3>2, <4>1, <4>2, <4>3 DEF Agrees
    <3>3. QED
      BY <3>1, <3>2
  <2>7. QED
    BY <1>3, <2>3, <2>4, <2>6 DEF SwitchInv, SwitchesAgree
<1>6. QED
  BY <1>4, <1>5 DEF PollDevice

LEMMA HardtypeSwitch ==
  ASSUME SwitchInv, HardtypeOp
  PROVE  SwitchInv'
<1> DEFINE h == devices[turn].hdid
<1>1. turn # 0 /\ turn' = 0 /\ UNCHANGED <<loading, lists, columns>>
  BY DEF HardtypeOp
<1>2. h \in Hdids
  BY <1>1 DEF SwitchInv, Between, DevicesOwn, OfARow
<1>3. \/ derived' = [derived EXCEPT ![h] = Derive(columns[h])]
      \/ derived' = [derived EXCEPT ![h] = Doubtful]
      \/ derived' = [derived EXCEPT ![h].sound = FALSE]
  BY DEF HardtypeOp
<1>4. Derive(columns[h]) \in Derivations /\ Agrees(columns[h], Derive(columns[h]))
  BY DeriveIs
<1>5. Doubtful \in Derivations /\ ~Doubtful.sound
  BY DEF Doubtful, DerivedFrom, Derivations
<1> HIDE DEF h
<1>6. /\ derived' \in [Hdids -> Derivations]
      /\ \A g \in Hdids : g # h => derived'[g] = derived[g]
      /\ derived'[h].sound => Agrees(columns[h], derived'[h])
  <2>1. CASE derived' = [derived EXCEPT ![h] = Derive(columns[h])]
    BY <1>2, <1>4, <2>1 DEF SwitchInv, StoredTypes
  <2>2. CASE derived' = [derived EXCEPT ![h] = Doubtful]
    BY <1>2, <1>5, <2>2 DEF SwitchInv, StoredTypes
  <2>3. CASE derived' = [derived EXCEPT ![h].sound = FALSE]
    BY <1>2, <2>3 DEF SwitchInv, StoredTypes, Derivations
  <2>4. QED
    BY <1>3, <2>1, <2>2, <2>3
<1>7. StoredTypes' /\ ListsOwn' /\ DevicesOwn' /\ Between'
  BY <1>1, <1>6 DEF SwitchInv, StoredTypes, ListsOwn, DevicesOwn, Between, lists
<1>8. ASSUME NEW g \in Hdids, derived'[g].sound PROVE Agrees(columns'[g], derived'[g])
  <2>1. CASE g = h
    BY <1>1, <1>6, <1>8, <2>1
  <2>2. CASE g # h
    BY <1>1, <1>6, <1>8, <2>2 DEF SwitchInv, SwitchesAgree, Underway, h
  <2>3. QED
    BY <2>1, <2>2
<1>9. QED
  BY <1>7, <1>8 DEF SwitchInv, SwitchesAgree

LEMMA SwitchNext ==
  ASSUME TablesConstants, SwitchColumnsOwn, ListsInv, SwitchInv, [TablesNext]_tableVars
  PROVE  SwitchInv'
<1>1. ListsOwn /\ (turn # 0 => loading = "polling")
  BY DEF SwitchInv, Between
<1>2. ASSUME NEW w, NEW cs, StartLoading(w, cs) PROVE SwitchInv'
  <2>1. /\ turn = 0 /\ UNCHANGED <<stored, turn, devices, air_list>>
        /\ ghdparamlist_list' \in {air_list, <<>>}
    BY <1>1, <1>2 DEF StartLoading
  <2>2. ListsOwn'
    BY <1>1, <2>1, EmptyOwn DEF ListsOwn
  <2>3. QED
    BY <2>1, <2>2, ListsSwitch
<1>3. CASE LoadTypes \/ LoadTable \/ AskRows
  <2>1. turn = 0 /\ UNCHANGED <<stored, turn>> /\ (UNCHANGED devices \/ devices' = <<>>)
    BY <1>1, <1>3 DEF LoadTypes, LoadTable, AskRows, Idle
  <2>2. AskRows => UNCHANGED <<ghdparamlist_list, air_list>>
    BY DEF AskRows
  <2>3. ListsOwn'
    BY <1>1, <1>3, <2>2, TypesOwn, TableOwn DEF ListsOwn
  <2>4. QED
    BY <2>1, <2>3, ListsSwitch
<1>4. CASE FetchRow
  BY <1>4, FetchSwitch
<1>5. ASSUME NEW n \in DOMAIN devices, NEW r \in Readings, PollDevice(n, r) PROVE SwitchInv'
  BY <1>5, PollSwitch DEF PollDevice
<1>6. CASE HardtypeOp
  BY <1>6, HardtypeSwitch
<1>7. CASE StopLoaded
  <2>1. /\ turn = 0 /\ UNCHANGED <<stored, turn>> /\ devices' = <<>> /\ ghdparamlist_list' = <<>>
        /\ air_list' \in {ghdparamlist_list, air_list}
    BY <1>7 DEF StopLoaded, Idle
  <2>2. ListsOwn'
    BY <1>1, <2>1, EmptyOwn DEF ListsOwn
  <2>3. QED
    BY <2>1, <2>2, ListsSwitch
<1>8. CASE EditDatabase \/ UNCHANGED tableVars
  <2>1. UNCHANGED <<loading, devices, ghdparamlist_list, air_list, stored, turn>>
    BY <1>8 DEF EditDatabase, tableVars, lists, stored
  <2>2. ListsOwn'
    BY <1>1, <2>1 DEF ListsOwn
  <2>3. QED
    BY <2>1, <2>2, ListsSwitch
<1>9. QED
  BY <1>2, <1>3, <1>4, <1>5, <1>6, <1>7, <1>8 DEF TablesNext

\* A touch switch is shown as its registers are, whatever queries fail and however the
\* tables are edited, also when a device is given another type: between two polls the
\* derived columns agree with the row, unless the last attempt to derive them failed.
THEOREM SwitchAgreesHolds ==
  ASSUME TablesConstants, SwitchColumnsOwn
  PROVE  TablesSpec => []SwitchAgrees
<1>1. TablesInit => ListsInv /\ SwitchInv
  BY ListsInit, SwitchInit
<1>2. ListsInv /\ SwitchInv /\ [TablesNext]_tableVars => ListsInv' /\ SwitchInv'
  BY ListsNext, SwitchNext
<1>3. SwitchInv => SwitchAgrees
  <2> SUFFICES ASSUME SwitchInv, NEW k \in DOMAIN devices, turn = 0,
                      derived[devices[k].hdid].sound
               PROVE  Agrees(columns[devices[k].hdid], derived[devices[k].hdid])
    BY DEF SwitchAgrees, Agrees
  <2>1. devices[k].hdid \in Hdids /\ ~Underway(devices[k].hdid)
    BY DEF SwitchInv, DevicesOwn, OfARow, Underway
  <2>2. QED
    BY <2>1 DEF SwitchInv, SwitchesAgree
<1>4. QED
  BY <1>1, <1>2, <1>3, PTL DEF TablesSpec

------------------------------------------------------------------------------
(* The window of registers of a table                                        *)

\* A bounded set of numbers has a greatest one.
LEMMA Greatest ==
  ASSUME NEW T \in SUBSET Nat, T # {}, NEW m \in Nat, \A x \in T : x <= m
  PROVE  Max(T) \in T /\ \A x \in T : x <= Max(T)
<1> DEFINE U == {n \in Nat : \A x \in T : x <= n}
<1>1. U \in SUBSET Nat /\ U # {}
  OBVIOUS
<1>2. PICK n \in U : \A k \in U : n <= k
  <2> HIDE DEF U
  <2>1. QED
    BY <1>1, Least
<1>3. n \in Nat /\ \A x \in T : x <= n
  OBVIOUS
<1>4. n \in T
  <2> SUFFICES ASSUME n \notin T PROVE FALSE
    OBVIOUS
  <2>1. \A x \in T : x <= n - 1
    BY <1>3
  <2>2. n - 1 \in Nat
    <3>1. PICK x \in T : x <= n - 1
      BY <2>1
    <3>2. QED
      BY <1>3, <3>1
  <2>3. n - 1 \in U
    BY <2>1, <2>2
  <2>4. QED
    BY <1>2, <1>3, <2>3
<1>5. \E x \in T : \A y \in T : x >= y
  BY <1>3, <1>4
<1>6. Max(T) \in T /\ \A y \in T : Max(T) >= y
  BY <1>5 DEF Max
<1>7. QED
  BY <1>6

\* So has what a sequence of numbers holds.
LEMMA SequenceBounded ==
  ASSUME NEW s \in Seq(Nat)
  PROVE  \E m \in Nat : \A k \in DOMAIN s : s[k] <= m
<1> DEFINE Bound(n) == \E m \in Nat : \A k \in 1..n : s[k] <= m
           Free == {n \in 0..Len(s) : ~Bound(n)}
<1>1. Len(s) \in Nat /\ DOMAIN s = 1..Len(s) /\ \A k \in 1..Len(s) : s[k] \in Nat
  OBVIOUS
<1>2. \A n : n \in Free <=> n \in 0..Len(s) /\ ~Bound(n)
  OBVIOUS
<1>3. Bound(0)
  OBVIOUS
<1>4. ASSUME NEW n \in 1..Len(s), Bound(n - 1) PROVE Bound(n)
  <2>1. PICK m \in Nat : \A k \in 1..(n - 1) : s[k] <= m
    BY <1>4
  <2>2. s[n] \in Nat /\ \A k \in 1..(n - 1) : s[k] \in Nat
    BY <1>1
  <2>3. ASSUME NEW k \in 1..n PROVE s[k] <= m + s[n]
    <3>1. CASE k = n
      BY <2>2, <3>1
    <3>2. CASE k # n
      <4>1. k \in 1..(n - 1)
        BY <1>1, <3>2
      <4>2. QED
        BY <2>1, <2>2, <4>1
    <3>3. QED
      BY <3>1, <3>2
  <2>4. m + s[n] \in Nat
    BY <2>2
  <2>5. QED
    BY <2>3, <2>4
<1> HIDE DEF Bound, Free
<1>5. Free = {}
  <2> SUFFICES ASSUME Free # {} PROVE FALSE
    OBVIOUS
  <2>1. Free \in SUBSET Nat
    BY <1>1, <1>2
  <2>2. PICK n \in Free : \A j \in Free : n <= j
    BY <2>1, Least
  <2>3. n \in 1..Len(s)
    BY <1>1, <1>2, <1>3, <2>2
  <2>4. n - 1 \in 0..Len(s) /\ ~(n <= n - 1)
    BY <1>1, <2>3
  <2>5. Bound(n - 1)
    BY <1>2, <2>2, <2>4
  <2>6. QED
    BY <1>2, <1>4, <2>2, <2>3, <2>5
<1>6. Bound(Len(s))
  BY <1>1, <1>2, <1>5
<1>7. QED
  BY <1>1, <1>6 DEF Bound

\* Of two quantities that do not overlap the one that starts last ends last.
LEMMA LastEnds ==
  ASSUME NEW a \in Nat, NEW l \in Nat \ {0}, NEW b \in Nat, NEW m \in Nat \ {0}, a <= b,
         a + l <= b \/ b + m <= a \/ (b = a /\ m = l)
  PROVE  a + l <= b + m
  OBVIOUS

\* Whatever the parameters, the window starts at the lowest address or below and ends
\* behind the registers of the parameter with the highest; so of parameters that do not
\* overlap it contains every one.
LEMMA WindowContains ==
  ASSUME ParamsConstants, NEW params \in Seq(AllParams), Disjoint(params), NEW k \in DOMAIN params
  PROVE  /\ MinAddr(params) \in Nat /\ AddrRegisterNum(params) \in Int
         /\ MinAddr(params) <= params[k].addr
         /\ params[k].addr + params[k].len <= MinAddr(params) + AddrRegisterNum(params)
<1> DEFINE addrs == {params[j].addr : j \in DOMAIN params}
           top == {j \in DOMAIN params : params[j].addr = TopAddr(params)}
<1>1. /\ Len(params) \in Nat /\ DOMAIN params = 1..Len(params)
      /\ \A j \in DOMAIN params : params[j].addr \in Nat /\ params[j].len \in Nat \ {0}
  BY DEF ParamsConstants
<1>2. addrs \in SUBSET Nat /\ params[k].addr \in addrs
  BY <1>1
<1>3. PICK m \in Nat : \A x \in addrs : x <= m
  <2> DEFINE s == [j \in 1..Len(params) |-> params[j].addr]
  <2>1. s \in Seq(Nat) /\ DOMAIN s = DOMAIN params /\ \A j \in DOMAIN params : s[j] = params[j].addr
    BY <1>1
  <2> HIDE DEF s
  <2>2. PICK m \in Nat : \A j \in DOMAIN s : s[j] <= m
    BY <2>1, SequenceBounded
  <2>3. QED
    BY <2>1, <2>2
<1>4. /\ TopAddr(params) \in {0} \cup addrs
      /\ \A x \in {0} \cup addrs : x <= TopAddr(params)
  <2> HIDE DEF addrs
  <2>1. {0} \cup addrs \in SUBSET Nat /\ {0} \cup addrs # {}
    BY <1>2
  <2>2. \A x \in {0} \cup addrs : x <= m
    BY <1>3
  <2>3. Max({0} \cup addrs) \in {0} \cup addrs /\ \A x \in {0} \cup addrs : x <= Max({0} \cup addrs)
    BY <2>1, <2>2, Greatest
  <2>4. QED
    BY <2>3 DEF TopAddr, addrs
<1>5. TopAddr(params) \in addrs
  <2> HIDE DEF addrs
  <2>1. QED
    BY <1>2, <1>4
<1>6. top \in SUBSET Nat /\ top # {} /\ \A j \in top : j <= Len(params)
  BY <1>1, <1>5
<1>7. TopParam(params) \in top
  <2>1. TopParam(params) = Max(top)
    BY <1>6 DEF TopParam
  <2> HIDE DEF top
  <2>2. QED
    BY <1>1, <1>6, <2>1, Greatest
<1>8. MinAddr(params) \in Nat /\ MinAddr(params) <= params[k].addr
  <2> DEFINE T == {32767} \cup addrs
  <2>1. MinAddr(params) = Min(T)
    BY DEF MinAddr
  <2> HIDE DEF addrs
  <2>2. T \in SUBSET Nat /\ params[k].addr \in T
    BY <1>2
  <2> HIDE DEF T
  <2>3. Min(T) \in T /\ \A x \in T : Min(T) <= x
    BY <2>2, Least
  <2>4. QED
    BY <2>1, <2>2, <2>3
<1> DEFINE t == TopParam(params)
<1>9. t \in DOMAIN params /\ params[t].addr = TopAddr(params)
  BY <1>7
<1>10. params[k].addr <= params[t].addr
  BY <1>2, <1>4, <1>9
<1>11. params[k].addr + params[k].len <= params[t].addr + params[t].len
  <2> HIDE DEF t
  <2>1. \/ params[k].addr + params[k].len <= params[t].addr
        \/ params[t].addr + params[t].len <= params[k].addr
        \/ params[t].addr = params[k].addr /\ params[t].len = params[k].len
    BY <1>9 DEF Disjoint
  <2>2. /\ params[k].addr \in Nat /\ params[k].len \in Nat \ {0}
        /\ params[t].addr \in Nat /\ params[t].len \in Nat \ {0}
    BY <1>1, <1>9
  <2>3. QED
    BY <1>10, <2>1, <2>2, LastEnds
<1>12. AddrRegisterNum(params) = params[t].addr + params[t].len - MinAddr(params)
  BY <1>9 DEF AddrRegisterNum
<1>13. AddrRegisterNum(params) \in Int
       /\ MinAddr(params) + AddrRegisterNum(params) = params[t].addr + params[t].len
  <2> DEFINE a == params[t].addr
             l == params[t].len
  <2>1. a \in Nat /\ l \in Nat
    BY <1>1, <1>9
  <2> HIDE DEF t, a, l
  <2>2. AddrRegisterNum(params) = a + l - MinAddr(params)
    BY <1>12 DEF a, l
  <2>3. AddrRegisterNum(params) \in Int /\ MinAddr(params) + AddrRegisterNum(params) = a + l
    BY <1>8, <2>1, <2>2
  <2>4. QED
    BY <2>3 DEF a, l
<1>14. QED
  BY <1>8, <1>11, <1>13

LEMMA OffsetIn ==
  ASSUME NEW addr \in Nat, NEW len \in Nat, NEW min \in Nat, NEW num \in Int,
         min <= addr, addr + len <= min + num, NEW j \in 1..len
  PROVE  (addr - min) + j \in 1..num /\ min + ((addr - min) + j) - 1 = addr + j - 1
  OBVIOUS

\* What the driver read of a parameter in the window are the parameter's registers.
LEMMA RegsAre ==
  ASSUME NEW d, NEW p, NEW r, p.addr \in Nat, p.len \in Nat,
         d.gparamlist.min \in Nat, d.gparamlist.num \in Int,
         d.gparamlist.min <= p.addr, p.addr + p.len <= d.gparamlist.min + d.gparamlist.num
  PROVE  Regs(DeviceData(d, r), Ptr(d, p), p.len) = [j \in 1..p.len |-> <<p.addr + j - 1, r>>]
<1> DEFINE min == d.gparamlist.min
           num == d.gparamlist.num
           data == DeviceData(d, r)
           ptr == Ptr(d, p)
<1>1. ptr = p.addr - min /\ data = [k \in 1..num |-> <<min + k - 1, r>>]
  BY DEF Ptr, DeviceData
<1> HIDE DEF ptr, data
<1>2. ASSUME NEW j \in 1..p.len
      PROVE  (IF ptr + j \in DOMAIN data THEN data[ptr + j] ELSE Beyond) = <<p.addr + j - 1, r>>
  <2>1. ptr + j \in 1..num /\ min + (ptr + j) - 1 = p.addr + j - 1
    BY <1>1, OffsetIn
  <2>2. data[ptr + j] = <<min + (ptr + j) - 1, r>>
    BY <1>1, <2>1
  <2>3. QED
    BY <1>1, <2>1, <2>2
<1>3. QED
  BY <1>2 DEF Regs, data, ptr

LEMMA SequenceOf ==
  ASSUME NEW S, NEW n \in Nat, NEW s \in [1..n -> S]
  PROVE  s \in Seq(S) /\ Len(s) = n
<1>1. s \in Seq(S)
  OBVIOUS
<1>2. DOMAIN s = 1..n
  OBVIOUS
<1>3. QED
  BY <1>1, <1>2

LEMMA ReverseOne ==
  ASSUME NEW S, NEW s \in [1..1 -> S]
  PROVE  Reverse(s) = s
<1>1. s \in Seq(S) /\ Len(s) = 1 /\ DOMAIN s = 1..1
  BY SequenceOf
<1>2. Reverse(s) = [i \in 1..1 |-> s[(1 - i) + 1]]
  BY <1>1 DEF Reverse
<1>3. \A i \in 1..1 : s[(1 - i) + 1] = s[i]
  OBVIOUS
<1>4. QED
  BY <1>1, <1>2, <1>3

LEMMA ScaledIs ==
  ASSUME NEW p, p.scale # 0, NEW form, NEW digits
  PROVE  Scaled(p, form, digits) = <<Piece(form, digits, 1)>>
  BY DEF Scaled

LEMMA BitFieldIs ==
  ASSUME NEW p, NEW data, NEW ptr
  PROVE  Len(BitField(p, data, ptr)) = 1 /\ BitField(p, data, ptr)[1].digits = Regs(data, ptr, 1)
  BY DEF BitField, Piece

\* Each protocol shows the registers of a parameter it carries, the most significant first,
\* whole numbers and others divided once.
Shows(text, p, digits) ==
  Len(text) = 1 /\ text[1].digits = digits /\ (p.type \in {"int", "float"} => text[1].over = 1)

LEMMA ScaledShows ==
  ASSUME NEW p, p.scale # 0, NEW form, NEW digits
  PROVE  Shows(Scaled(p, form, digits), p, digits)
  BY ScaledIs DEF Shows, Piece

LEMMA BitShows ==
  ASSUME NEW p, p.type = "bit", NEW data, NEW ptr
  PROVE  Shows(BitField(p, data, ptr), p, Regs(data, ptr, 1))
  BY BitFieldIs DEF Shows

LEMMA TextShows ==
  ASSUME NEW protocol \in Protocols, NEW p, p.scale \in Nat, Carried(protocol, p), NEW S,
         NEW data, NEW ptr, Regs(data, ptr, p.len) \in [1..p.len -> S]
  PROVE  Shows(Text(protocol, p, data, ptr), p, Significant(protocol, Regs(data, ptr, p.len)))
<1> DEFINE regs == Regs(data, ptr, p.len)
<1>1. p.scale # 0
  BY DEF Carried
<1>2. p.len = 1 => Reverse(regs) = regs
  BY ReverseOne
<1>3. CASE protocol \in {"ds_bus", "ds_bus_router"}
  <2>1. /\ Text(protocol, p, data, ptr) = DsBusText(p, data, ptr)
        /\ Significant(protocol, regs) = Reverse(regs)
    BY <1>3 DEF Text, Significant
  <2>2. \/ p.len = 1 /\ p.type = "hex"
        \/ p.len = 1 /\ p.type = "bit"
        \/ p.len \in {1, 2, 4} /\ p.type \in {"int", "float"}
    BY <1>3 DEF Carried
  <2>3. CASE p.len = 1 /\ p.type = "hex"
    <3>1. DsBusText(p, data, ptr) = Scaled(p, "hex", regs)
      BY <2>3 DEF DsBusText
    <3>2. QED
      BY <1>1, <1>2, <2>1, <2>3, <3>1, ScaledShows
  <2>4. CASE p.len = 1 /\ p.type = "bit"
    <3>1. DsBusText(p, data, ptr) = BitField(p, data, ptr)
      BY <2>4 DEF DsBusText
    <3>2. QED
      BY <1>2, <2>1, <2>4, <3>1, BitShows
  <2>5. CASE p.len \in {1, 2, 4} /\ p.type \in {"int", "float"}
    <3>1. DsBusText(p, data, ptr) = Scaled(p, "number", Reverse(regs))
      BY <2>5 DEF DsBusText, LowFirst
    <3>2. QED
      BY <1>1, <2>1, <3>1, ScaledShows
  <2>6. QED
    BY <2>2, <2>3, <2>4, <2>5
<1>4. CASE protocol \in {"modbus", "modbus_router"}
  <2>1. /\ Text(protocol, p, data, ptr) = ModbusText(p, data, ptr)
        /\ Significant(protocol, regs) = regs
    BY <1>4 DEF Text, Significant
  <2>2. \/ p.len = 1 /\ p.type = "bit"
        \/ p.len \in {1, 2} /\ p.type \in {"int", "float"}
        \/ p.len = 4 /\ p.type = "bcd"
    BY <1>4 DEF Carried
  <2>3. CASE p.len = 1 /\ p.type = "bit"
    <3>1. ModbusText(p, data, ptr) = BitField(p, data, ptr)
      BY <2>3 DEF ModbusText
    <3>2. QED
      BY <2>1, <2>3, <3>1, BitShows
  <2>4. CASE p.len \in {1, 2} /\ p.type \in {"int", "float"}
    <3>1. ModbusText(p, data, ptr) = Scaled(p, "number", regs)
      BY <2>4 DEF ModbusText
    <3>2. QED
      BY <1>1, <2>1, <3>1, ScaledShows
  <2>5. CASE p.len = 4 /\ p.type = "bcd"
    <3>1. ModbusText(p, data, ptr) = <<Piece("bcd", regs, 0)>>
      BY <2>5 DEF ModbusText
    <3>2. QED
      BY <2>1, <2>5, <3>1 DEF Shows, Piece
  <2>6. QED
    BY <2>2, <2>3, <2>4, <2>5
<1>5. CASE protocol \in {"dlt645", "dlt645_router"}
  <2>1. /\ Text(protocol, p, data, ptr) = Dlt645Text(p, data, ptr)
        /\ Significant(protocol, regs) = Reverse(regs)
    BY <1>5 DEF Text, Significant
  <2>2. \/ p.len \in {2, 4} /\ p.type \in {"int", "float"}
        \/ p.len = 3 /\ p.type = "float"
    BY <1>5 DEF Carried
  <2>3. Dlt645Text(p, data, ptr) = Scaled(p, "bcd", Reverse(regs))
    BY <2>2 DEF Dlt645Text, LowFirst
  <2>4. QED
    BY <1>1, <2>1, <2>3, ScaledShows
<1>6. QED
  BY <1>3, <1>4, <1>5 DEF Protocols

------------------------------------------------------------------------------
(* A device that is polled has a whole table                                 *)

\* Loaded to its end, with the window found.
Whole(table) ==
  /\ table.params \in Seq(AllParams)
  /\ table.min = MinAddr(table.params) /\ table.num = AddrRegisterNum(table.params)

Pending(k) == \E j \in 1..Len(unasked) : unasked[j] = k

\* A poller minds every failure: a table is whole or still to be asked for.
WindowInv ==
  /\ Sequence(unasked)
  /\ who = "poller" =>
       /\ loading = "types" => ghdparamlist_list = <<>>
       /\ loading \in {"tables", "rows", "polling"} =>
            \A k \in DOMAIN ghdparamlist_list : Whole(ghdparamlist_list[k]) \/ Pending(k)
       /\ \A k \in DOMAIN devices :
            Whole(devices[k].gparamlist) /\ devices[k].protocol \in Protocols

LEMMA ConcatIn ==
  ASSUME NEW S, NEW s \in Seq(S), NEW t \in Seq(S)
  PROVE  s \o t \in Seq(S)
  OBVIOUS

LEMMA OwnAreParams ==
  ASSUME NEW type, NEW s \in Seq(OwnParams(type))
  PROVE  s \in Seq(AllParams)
<1>1. OwnParams(type) \subseteq AllParams
  BY DEF OwnParams
<1>2. QED
  BY <1>1

LEMMA SequenceTail ==
  ASSUME NEW s, Sequence(s), s # <<>>
  PROVE  /\ Sequence(Tail(s))
         /\ \A j \in 1..Len(s) : s[j] # Head(s) => \E i \in 1..Len(Tail(s)) : Tail(s)[i] = s[j]
<1>1. PICK S : s \in Seq(S)
  BY DEF Sequence
<1>2. /\ Tail(s) \in Seq(S) /\ Len(Tail(s)) = Len(s) - 1 /\ Len(s) \in Nat /\ Head(s) = s[1]
      /\ \A i \in 1..Len(s) - 1 : Tail(s)[i] = s[i + 1]
  BY <1>1
<1>3. ASSUME NEW j \in 1..Len(s), s[j] # Head(s)
      PROVE  \E i \in 1..Len(Tail(s)) : Tail(s)[i] = s[j]
  <2>1. j - 1 \in 1..Len(Tail(s)) /\ Tail(s)[j - 1] = s[(j - 1) + 1] /\ (j - 1) + 1 = j
    BY <1>2, <1>3
  <2>2. QED
    BY <2>1
<1>4. QED
  BY <1>2, <1>3 DEF Sequence

LEMMA WindowTypes ==
  ASSUME TablesConstants, ListsInv, ListsOwn, LoadTypes, WindowInv
  PROVE  WindowInv'
<1>1. devices = <<>> /\ who' = who
  BY DEF ListsInv, EmptyAtFirst, Filling, LoadTypes
<1>2. CASE Idle /\ UNCHANGED unasked
  BY <1>1, <1>2 DEF Idle, WindowInv
<1>3. CASE /\ loading' = "tables" /\ UNCHANGED devices
           /\ unasked' = [k \in DOMAIN ghdparamlist_list' |-> k]
  <2>1. PICK S : ghdparamlist_list' \in Seq(S)
    BY TypesOwn DEF ListsOwn, OwnTables, Sequence
  <2>2. /\ Len(ghdparamlist_list') \in Nat
        /\ DOMAIN ghdparamlist_list' = 1..Len(ghdparamlist_list')
    BY <2>1
  <2>3. unasked' \in Seq(Nat) /\ Len(unasked') = Len(ghdparamlist_list')
        /\ \A k \in DOMAIN ghdparamlist_list' : unasked'[k] = k
    BY <1>3, <2>2
  <2>4. \A k \in DOMAIN ghdparamlist_list' : Pending(k)'
    BY <2>2, <2>3 DEF Pending
  <2>5. QED
    BY <1>1, <1>3, <2>3, <2>4 DEF WindowInv, Sequence
<1>4. QED
  BY <1>2, <1>3 DEF LoadTypes

LEMMA WindowTable ==
  ASSUME TablesConstants, SwitchColumnsOwn, ListsInv, ListsOwn, LoadTable, WindowInv
  PROVE  WindowInv'
<1> DEFINE list == ghdparamlist_list
           n == Head(unasked)
           name == list[n].name
           stored_now == IF name \in DOMAIN db.params THEN db.params[name] ELSE <<>>
<1>1. devices = <<>> /\ who' = who /\ loading = "tables" /\ unasked # <<>> /\ Sequence(unasked)
  BY DEF ListsInv, EmptyAtFirst, Filling, LoadTable, WindowInv
<1>2. CASE Idle /\ UNCHANGED unasked
  BY <1>1, <1>2 DEF Idle, WindowInv
<1>3. CASE loading' = "crashed" /\ UNCHANGED <<list, unasked, devices>>
  BY <1>1, <1>3 DEF WindowInv
<1>4. CASE who # "poller" /\ unasked' = <<>> /\ UNCHANGED devices
  <2>1. Sequence(unasked')
    BY <1>4 DEF Sequence
  <2>2. QED
    BY <1>1, <1>4, <2>1 DEF WindowInv
<1>5. ASSUME NEW params \in {stored_now, <<>>},
             list' = [list EXCEPT ![n] = Table(name, list[n].params \o params)],
             unasked' = Tail(unasked), UNCHANGED <<loading, devices>>
      PROVE  WindowInv'
  <2> DEFINE all == list[n].params \o params
  <2>1. PICK S : list \in Seq(S)
    BY DEF ListsOwn, OwnTables, Sequence
  <2>2. DOMAIN list' = DOMAIN list
    BY <1>5
  <2>3. /\ Sequence(unasked')
        /\ \A k : Pending(k) /\ k # n => Pending(k)'
    BY <1>1, <1>5, SequenceTail DEF Pending
  <2>4. n \in DOMAIN list => Whole(list'[n])
    <3> SUFFICES ASSUME n \in DOMAIN list PROVE Whole(list'[n])
      OBVIOUS
    <3>1. list[n].params \in Seq(OwnParams(name))
      BY DEF ListsOwn, OwnTables
    <3>2. stored_now \in Seq(OwnParams(name))
      BY StoredParams DEF ListsInv, LoadedShape
    <3>3. <<>> \in Seq(OwnParams(name)) /\ (params = stored_now \/ params = <<>>)
      OBVIOUS
    <3> HIDE DEF stored_now
    <3>4. all \in Seq(OwnParams(name))
      BY <3>1, <3>2, <3>3, ConcatIn
    <3>5. all \in Seq(AllParams)
      BY <3>4, OwnAreParams
    <3>6. list'[n] = Table(name, all)
      BY <1>5
    <3> HIDE DEF all, list
    <3>7. QED
      BY <3>5, <3>6 DEF Whole, Table
  <2>5. \A k \in DOMAIN list : k # n => list'[k] = list[k]
    BY <1>5, <2>1
  <2>6. who = "poller" => \A k \in DOMAIN list' : Whole(list'[k]) \/ Pending(k)'
    <3>1. who = "poller" => \A k \in DOMAIN list : Whole(list[k]) \/ Pending(k)
      BY <1>1 DEF WindowInv
    <3> HIDE DEF n, list
    <3>2. QED
      BY <3>1, <2>2, <2>3, <2>4, <2>5
  <2>7. QED
    BY <1>1, <1>5, <2>3, <2>6 DEF WindowInv
<1>6. QED
  <2>1. \/ Idle /\ UNCHANGED unasked
        \/ loading' = "crashed" /\ UNCHANGED <<list, unasked, devices>>
        \/ who # "poller" /\ unasked' = <<>> /\ UNCHANGED devices
        \/ \E params \in {stored_now, <<>>} :
             /\ list' = [list EXCEPT ![n] = Table(name, list[n].params \o params)]
             /\ unasked' = Tail(unasked) /\ UNCHANGED <<loading, devices>>
    BY DEF LoadTable
  <2>2. QED
    BY <1>2, <1>3, <1>4, <1>5, <2>1

\* A list is complete before a row is fetched.
LEMMA WindowFetch ==
  ASSUME ListsInv, ListsOwn, FetchRow, WindowInv
  PROVE  WindowInv'
<1>1. /\ UNCHANGED <<who, unasked>> /\ Sequence(devices) /\ loading = "rows"
      /\ unasked = <<>> /\ Sequence(unasked)
  BY DEF ListsInv, LoadedShape, Stages, FetchRow, WindowInv
<1>2. \A k : ~Pending(k)
  BY <1>1 DEF Pending
<1>3. loading' # "types"
  BY <1>1 DEF FetchRow, GiveUp, Idle, NextPort
<1>4. CASE UNCHANGED <<ghdparamlist_list, devices>>
  BY <1>1, <1>2, <1>3, <1>4 DEF WindowInv, Pending
<1>5. CASE ghdparamlist_list' = <<>> /\ devices' = <<>>
  BY <1>1, <1>3, <1>5 DEF WindowInv
<1>6. CASE /\ ~Refused(Head(result)) /\ UNCHANGED ghdparamlist_list
           /\ devices' = Append(devices, Device(Head(coms), Head(result)))
  <2> DEFINE row == Head(result)
             d == Device(Head(coms), row)
             n == Min(TableOf(row.hdtype))
  <2> SUFFICES ASSUME who = "poller" PROVE WindowInv'
    BY <1>1 DEF WindowInv
  <2>1. TableOf(row.hdtype) # {} /\ ProtocolOf(row) \in Protocols
    BY <1>6 DEF Refused
  <2>2. PICK S : ghdparamlist_list \in Seq(S)
    BY DEF ListsOwn, OwnTables, Sequence
  <2>3. TableOf(row.hdtype) \subseteq DOMAIN ghdparamlist_list /\ DOMAIN ghdparamlist_list \subseteq Nat
    BY <2>2 DEF TableOf
  <2>4. n \in DOMAIN ghdparamlist_list
    BY <2>1, <2>3, Least
  <2>5. Whole(ghdparamlist_list[n])
    BY <1>1, <1>2, <2>4 DEF WindowInv
  <2>6. Whole(d.gparamlist) /\ d.protocol \in Protocols
    BY <2>1, <2>5 DEF Device
  <2> HIDE DEF d
  <2>7. /\ Len(devices) \in Nat /\ DOMAIN devices = 1..Len(devices)
        /\ DOMAIN devices' = 1..Len(devices) + 1
        /\ \A k \in 1..Len(devices) : devices'[k] = devices[k]
        /\ devices'[Len(devices) + 1] = d
    BY <1>1, <1>6, AppendIs DEF d
  <2>8. \A k \in 1..Len(devices) + 1 : k \in 1..Len(devices) \/ k = Len(devices) + 1
    BY <2>7
  <2>9. \A k \in DOMAIN devices' : Whole(devices'[k].gparamlist) /\ devices'[k].protocol \in Protocols
    BY <2>6, <2>7, <2>8 DEF WindowInv
  <2>10. QED
    BY <1>1, <1>2, <1>3, <1>6, <2>9 DEF WindowInv, Pending
<1>7. QED
  BY <1>4, <1>5, <1>6 DEF FetchRow, GiveUp, Idle

LEMMA WindowNext ==
  ASSUME TablesConstants, SwitchColumnsOwn, ListsInv, SwitchInv, WindowInv, [TablesNext]_tableVars
  PROVE  WindowInv'
<1>1. ListsOwn
  BY DEF SwitchInv
<1>2. ASSUME NEW w, NEW cs, StartLoading(w, cs) PROVE WindowInv'
  <2>1. /\ devices' = <<>> /\ UNCHANGED unasked /\ who' = w /\ loading' = "types"
        /\ (w = "poller" => ghdparamlist_list' = <<>>)
    BY <1>2 DEF StartLoading, ListsInv, EmptyAtFirst
  <2>2. QED
    BY <2>1 DEF WindowInv
<1>3. CASE AskRows
  <2>1. /\ UNCHANGED <<who, ghdparamlist_list, unasked, devices>> /\ loading = "tables"
        /\ loading' # "types"
    BY <1>3 DEF AskRows, NextPort
  <2>2. QED
    BY <2>1 DEF WindowInv, Pending
<1>4. ASSUME NEW k, NEW r, PollDevice(k, r) PROVE WindowInv'
  <2>1. UNCHANGED <<who, ghdparamlist_list, unasked, devices>> /\ loading' \in {loading, "crashed"}
    BY <1>4 DEF PollDevice, lists
  <2>2. QED
    BY <2>1 DEF WindowInv, Pending
<1>5. CASE HardtypeOp \/ EditDatabase \/ UNCHANGED tableVars
  <2>1. UNCHANGED <<who, loading, ghdparamlist_list, unasked, devices>>
    BY <1>5 DEF HardtypeOp, EditDatabase, tableVars, lists
  <2>2. QED
    BY <2>1 DEF WindowInv, Pending
<1>6. CASE StopLoaded
  <2>1. loading' = "idle" /\ devices' = <<>> /\ UNCHANGED <<who, unasked>>
    BY <1>6 DEF StopLoaded, Idle
  <2>2. QED
    BY <2>1 DEF WindowInv
<1>7. QED
  BY <1>1, <1>2, <1>3, <1>4, <1>5, <1>6, WindowTypes, WindowTable, WindowFetch DEF TablesNext

\* Whatever the tables hold at the moment each of them is read, a column of a device
\* that is polled shows the registers of its own address, most significant first, provided
\* the parameters of its type do not overlap and its protocol carries them.
THEOREM ColumnsRightHolds ==
  ASSUME TablesConstants, ParamsConstants, SwitchColumnsOwn
  PROVE  TablesSpec => []ColumnsRight
<1>1. TablesInit => ListsInv /\ SwitchInv /\ WindowInv
  <2>1. TablesInit => WindowInv
    BY DEF TablesInit, WindowInv, Sequence
  <2>2. QED
    BY <2>1, ListsInit, SwitchInit
<1>2. ListsInv /\ SwitchInv /\ WindowInv /\ [TablesNext]_tableVars => ListsInv' /\ SwitchInv' /\ WindowInv'
  BY ListsNext, SwitchNext, WindowNext
<1>3. ListsInv /\ WindowInv => ColumnsRight
  <2> SUFFICES ASSUME ListsInv, WindowInv, loading = "polling",
                      NEW n \in 1..nbharddevice, NEW r \in Readings,
                      Disjoint(devices[n].gparamlist.params),
                      NEW k \in DOMAIN devices[n].gparamlist.params,
                      Carried(devices[n].protocol, devices[n].gparamlist.params[k])
               PROVE  Shows(ColumnText(devices[n], devices[n].gparamlist.params[k], r),
                            devices[n].gparamlist.params[k],
                            Significant(devices[n].protocol,
                              [j \in 1..devices[n].gparamlist.params[k].len |->
                                 <<devices[n].gparamlist.params[k].addr + j - 1, r>>]))
    BY DEF ColumnsRight, Shows
  <2> DEFINE d == devices[n]
             params == d.gparamlist.params
             p == params[k]
  <2>1. n \in DOMAIN devices /\ who = "poller"
    BY DEF ListsInv, LoadedShape, Stages, PollerInv, PolledAsListed, Sequence
  <2>2. Whole(d.gparamlist) /\ d.protocol \in Protocols
    BY <2>1 DEF WindowInv
  <2> HIDE DEF d
  <2>3. /\ params \in Seq(AllParams)
        /\ d.gparamlist.min = MinAddr(params) /\ d.gparamlist.num = AddrRegisterNum(params)
        /\ Disjoint(params) /\ k \in DOMAIN params /\ Carried(d.protocol, p)
    BY <2>2 DEF Whole, d
  <2>4. /\ p \in AllParams /\ p.addr \in Nat /\ p.len \in Nat /\ p.scale \in Nat
    BY <2>3 DEF ParamsConstants
  <2>5. /\ MinAddr(params) \in Nat /\ AddrRegisterNum(params) \in Int
        /\ MinAddr(params) <= p.addr
        /\ p.addr + p.len <= MinAddr(params) + AddrRegisterNum(params)
    BY <2>3, WindowContains
  <2> DEFINE regs == [j \in 1..p.len |-> <<p.addr + j - 1, r>>]
  <2>6. regs \in [1..p.len -> {regs[j] : j \in 1..p.len}]
    OBVIOUS
  <2> HIDE DEF params, p
  <2>7. /\ d.gparamlist.min \in Nat /\ d.gparamlist.num \in Int
         /\ d.gparamlist.min <= p.addr
         /\ p.addr + p.len <= d.gparamlist.min + d.gparamlist.num
    BY <2>3, <2>5
  <2>8. Regs(DeviceData(d, r), Ptr(d, p), p.len) = regs
    BY <2>4, <2>7, RegsAre
  <2> HIDE DEF regs
  <2>9. Shows(Text(d.protocol, p, DeviceData(d, r), Ptr(d, p)), p, Significant(d.protocol, regs))
    BY <2>2, <2>3, <2>4, <2>8, <2>6, TextShows
  <2>10. QED
    BY <2>9 DEF ColumnText, d, params, p, regs
<1>4. QED
  BY <1>1, <1>2, <1>3, PTL DEF TablesSpec
==============================================================================
