---------------------------- MODULE ThreadControl ----------------------------
(***************************************************************************)
(* The life cycle of the threads of zhjs and of the serial-port mutexes    *)
(* they share: main, the UDP command server, one poller thread per         *)
(* mysql_pthread_object and the air-control threads.                       *)
(*                                                                         *)
(* Every call of get_comharddevice_list() on g_comharddevice_list builds   *)
(* NEW comharddevice objects, each with its own mutex_obj: a comharddevice *)
(* (and the thread_object registered for it) is a pair <<com, gen>>, where *)
(* gen counts the fetches.  Threads are numbered in the order in which     *)
(* they are created.                                                       *)
(***************************************************************************)
EXTENDS Naturals, FiniteSets

CONSTANTS
  Coms,         \* the serial ports named in table hardcom
  FetchResults, \* the sets of ports one query of hardcom may return
  Commands,     \* what the environment sends: command datagrams and SIGTERM
  MaxCmds,      \* bound: number of them
  MaxThreads,   \* bound: number of threads ever created
  Faults,       \* the failures that may happen
  Patient       \* TRUE: the operator waits for threads to settle (see Settled)

AllCommands == {"start", "stop", "restart", "shutdown", "test", "air_control",
                "setorder", "cmd", "sigterm"}
AllFaults == {"udp_connect", "poller_db", "poller_init", "air_connect"}

ASSUME ConstantsAssumption ==
  /\ FetchResults \subseteq SUBSET Coms
  /\ FetchResults # {}
  /\ Commands \subseteq AllCommands
  /\ Faults \subseteq AllFaults
  /\ MaxCmds \in Nat
  /\ MaxThreads \in Nat
  /\ Patient \in BOOLEAN

Gens    == 1 .. (MaxCmds + 1)
Objs    == Coms \X Gens            \* comharddevice objects = thread_objects
Threads == 1 .. MaxThreads
NoThread == 0
NoObj == <<"none", 0>>

VARIABLES
  g_comharddevice_list,          \* the current list, a set of objects
  gen,                           \* number of fetches so far
  thread_object_list,            \* registered poller objects; never cleared
  pthread_run_flag,              \* per object
  thr,                           \* per object: the thread its handle names
  thread_running_flag,
  thread_air_control_run_flag,
  thread_server_udp_select_flag,
  air_thr,                       \* thr_air_control_obj->thr
  locked,                        \* per object: is its mutex_obj held
  pc, kind, home, mtx,           \* per thread: stage, role, object, mutex used
  nthreads,                      \* number of threads created
  udp, op, todo, order,          \* UDP server: stage, command, objects still to
                                 \* launch, the object whose mutex it uses
  cmds,                          \* number of commands and signals received
  main                           \* main thread

shared == <<g_comharddevice_list, gen>>
objVars == <<thread_object_list, pthread_run_flag, thr>>
flagVars == <<thread_running_flag, thread_server_udp_select_flag>>
airVars == <<thread_air_control_run_flag, air_thr>>
thrVars == <<pc, kind, home, mtx, nthreads>>
udpVars == <<udp, op, todo, order, cmds>>
vars == <<shared, objVars, flagVars, airVars, locked, thrVars, udpVars, main>>

------------------------------------------------------------------------------
(* Derived notions                                                         *)

Pollers == {t \in Threads : kind[t] = "poller"}
Airs    == {t \in Threads : kind[t] = "air"}
Live    == {t \in Threads : pc[t] \notin {"none", "done"}}

\* Threads that have yet to raise their run flag, and those still being set up.
Raising      == {t \in Threads : pc[t] \in {"init", "nodb"}}
Initialising == {t \in Threads : pc[t] \in {"init", "nodb", "setup"}}

\* The process is over: main returned, or undefined behaviour killed it.
Ended == main \in {"exited", "crashed"}

\* The objects of the current list that name the port c: what
\* Gethdcomharddevice(c, g_comharddevice_list) may return.
Current(c) == {o \in g_comharddevice_list : o[1] = c}

\* Threads that iterate g_comharddevice_list at this point of their run: the
\* Gethdcomharddevice() calls of get_harddevice() and of an air-control round.
ListReaders == {t \in Threads : \/ pc[t] = "init" /\ kind[t] = "poller"
                                \/ pc[t] \in {"setup", "round"}}

\* The other threads that use the lists of t's thread_object: its device vector
\* for a poller, all the lists of thr_air_control_obj for air control.
Siblings(t) == {u \in Live \ {t} : kind[u] = kind[t] /\ home[u] = home[t]}

\* What a careful operator waits for before sending the command c: no thread is
\* still starting, and every thread has ended before anything is (re)built.  He
\* sends nothing after SIGTERM.
Settled(c) ==
  /\ Initialising = {}
  /\ c \in {"start", "test", "air_control", "shutdown", "cmd"} => Live = {}

\* Bound: a command that launches threads leaves room for all of them.
Room == nthreads + Cardinality(thread_object_list) + Cardinality(Coms) + 1
          <= MaxThreads

------------------------------------------------------------------------------
(* main() up to the creation of the UDP server: one fetch of the list.     *)
Init ==
  /\ \E rows \in FetchResults : g_comharddevice_list = rows \X {1}
  /\ gen = 1
  /\ thread_object_list = {}
  /\ pthread_run_flag = [o \in Objs |-> FALSE]
  /\ thr = [o \in Objs |-> NoThread]
  /\ thread_running_flag = FALSE
  /\ thread_air_control_run_flag = FALSE
  /\ thread_server_udp_select_flag = FALSE
  /\ air_thr = NoThread
  /\ locked = [o \in Objs |-> FALSE]
  /\ pc = [t \in Threads |-> "none"]
  /\ kind = [t \in Threads |-> "none"]
  /\ home = [t \in Threads |-> NoObj]
  /\ mtx = [t \in Threads |-> NoObj]
  /\ nthreads = 0
  /\ udp = "boot" /\ op = "none" /\ todo = {} /\ order = NoObj /\ cmds = 0
  /\ main = "join_udp"

------------------------------------------------------------------------------
(* The UDP command server                                                  *)

\* Start of thread_server_udp(): without a database it returns at once.
UdpBoot ==
  /\ udp = "boot"
  /\ \/ /\ thread_server_udp_select_flag' = TRUE
        /\ udp' = "select"
     \/ /\ "udp_connect" \in Faults
        /\ udp' = "gone"
        /\ UNCHANGED thread_server_udp_select_flag
  /\ UNCHANGED <<shared, objVars, thread_running_flag, airVars, locked, thrVars,
                 op, todo, order, cmds, main>>

\* The head of the select loop: wait for a datagram, or leave the loop.
LoopHead == IF thread_server_udp_select_flag THEN "select" ELSE "join_air"

\* select() times out once a second and the flag was lowered meanwhile.
UdpTimeout ==
  /\ udp = "select" /\ ~thread_server_udp_select_flag
  /\ udp' = "join_air"
  /\ UNCHANGED <<shared, objVars, flagVars, airVars, locked, thrVars,
                 op, todo, order, cmds, main>>

\* A datagram with command c arrives while the server waits in select().
Receive(c) ==
  /\ udp = "select"
  /\ c \in Commands /\ cmds < MaxCmds
  /\ Patient => thread_server_udp_select_flag /\ Settled(c)
  /\ cmds' = cmds + 1

\* exit_thread_object(): every registered object is told to stop.
ExitThreadObjects ==
  pthread_run_flag' = [o \in Objs |-> IF o \in thread_object_list
                                        THEN FALSE ELSE pthread_run_flag[o]]


\* SIGTERM: SignHandler() lowers every flag, whatever the server is doing.  If
\* the signal interrupts the server's own select(), that call fails and the
\* server returns at once.
SignHandler ==
  /\ "sigterm" \in Commands /\ cmds < MaxCmds /\ main = "join_udp"
  /\ Patient => udp = "select" /\ Settled("sigterm")
  /\ cmds' = cmds + 1
  /\ ExitThreadObjects
  /\ thread_air_control_run_flag' = FALSE
  /\ thread_running_flag' = FALSE
  /\ thread_server_udp_select_flag' = FALSE
  /\ \/ udp' = udp
     \/ udp = "select" /\ udp' = "gone"
  /\ UNCHANGED <<shared, thread_object_list, thr, air_thr, locked, thrVars,
                 op, todo, order, main>>

\* "start": refused while running; otherwise thread_start() begins.
CmdStart ==
  /\ Receive("start")
  /\ \/ /\ thread_running_flag
        /\ udp' = LoopHead /\ UNCHANGED <<op, thread_running_flag>>
     \/ /\ ~thread_running_flag /\ Room
        /\ thread_running_flag' = TRUE
        /\ udp' = "free" /\ op' = "start"
  /\ UNCHANGED <<shared, objVars, thread_server_udp_select_flag, airVars, locked,
                 thrVars, todo, order, main>>

\* "stop": thread_stop() lowers the flags and waits for nobody.
CmdStop ==
  /\ Receive("stop")
  /\ ExitThreadObjects
  /\ thread_air_control_run_flag' = FALSE
  /\ thread_running_flag' = FALSE
  /\ udp' = LoopHead
  /\ UNCHANGED <<shared, thread_object_list, thr, thread_server_udp_select_flag,
                 air_thr, locked, thrVars, op, todo, order, main>>

\* "restart": thread_stop(), then sleep(1).
CmdRestart ==
  /\ Receive("restart") /\ Room
  /\ ExitThreadObjects
  /\ thread_air_control_run_flag' = FALSE
  /\ thread_running_flag' = FALSE
  /\ udp' = "pause" /\ op' = "start"
  /\ UNCHANGED <<shared, thread_object_list, thr, thread_server_udp_select_flag,
                 air_thr, locked, thrVars, todo, order, main>>

\* ... and thread_start() when the second is over.
RestartStart ==
  /\ udp = "pause" /\ ~thread_running_flag
  /\ thread_running_flag' = TRUE
  /\ udp' = "free"
  /\ UNCHANGED <<shared, objVars, thread_server_udp_select_flag, airVars, locked,
                 thrVars, op, todo, order, cmds, main>>

\* "shutdown": thread_shutdown() lowers the flags, then frees the list.
CmdShutdown ==
  /\ Receive("shutdown")
  /\ ExitThreadObjects
  /\ thread_air_control_run_flag' = FALSE
  /\ udp' = "free" /\ op' = "shutdown"
  /\ UNCHANGED <<shared, thread_object_list, thr, flagVars, air_thr, locked,
                 thrVars, todo, order, main>>

\* "test": like start without the check of the flag and without air control.
CmdTest ==
  /\ Receive("test") /\ Room
  /\ thread_running_flag' = TRUE
  /\ udp' = "free" /\ op' = "test"
  /\ UNCHANGED <<shared, objVars, thread_server_udp_select_flag, airVars, locked,
                 thrVars, todo, order, main>>

\* "air_control": refused while the air-control flag is up.
CmdAirControl ==
  /\ Receive("air_control")
  /\ \/ /\ thread_air_control_run_flag
        /\ udp' = LoopHead /\ UNCHANGED op
     \/ /\ ~thread_air_control_run_flag /\ Room
        /\ udp' = "free" /\ op' = "air_control"
  /\ UNCHANGED <<shared, objVars, flagVars, airVars, locked, thrVars, todo, order,
                 main>>

\* "setorder" for a device on port c: an error reply if the port is not in the
\* current list, else the server will take the mutex found there.
CmdSetorder(c) ==
  /\ Receive("setorder")
  /\ \/ /\ Current(c) = {}
        /\ udp' = LoopHead /\ UNCHANGED <<op, order>>
     \/ \E o \in Current(c) : /\ order' = o
                              /\ udp' = "want" /\ op' = "setorder"
  /\ UNCHANGED <<shared, objVars, flagVars, airVars, locked, thrVars, todo, main>>

\* "cmd" for port c: as setorder, but an empty list is fetched again first.
CmdCmd(c) ==
  /\ Receive("cmd")
  /\ \/ /\ g_comharddevice_list = {}
        /\ udp' = "fetch" /\ op' = "cmd"
        /\ UNCHANGED order
     \/ /\ g_comharddevice_list # {} /\ Current(c) = {}
        /\ udp' = LoopHead /\ UNCHANGED <<op, order>>
     \/ \E o \in Current(c) : /\ order' = o
                              /\ udp' = "want" /\ op' = "cmd"
  /\ UNCHANGED <<shared, objVars, flagVars, airVars, locked, thrVars, todo, main>>

\* Faulty variant: the list is not cleared before it is fetched again.
UdpFreeKeeps ==
  /\ udp = "free"
  /\ udp' = "fetch"
  /\ UNCHANGED <<shared, objVars, flagVars, airVars, locked, thrVars, op, todo, order,
                 cmds, main>>

\* freecomharddevice(g_comharddevice_list).  The shared_ptrs the threads hold
\* keep their objects (and mutexes) alive.  thread_shutdown() then lowers the
\* two remaining flags.
UdpFree ==
  /\ udp = "free"
  /\ g_comharddevice_list' = {}
  /\ IF op = "shutdown"
       THEN /\ thread_running_flag' = FALSE
            /\ thread_server_udp_select_flag' = FALSE
            /\ udp' = "join_air"
       ELSE udp' = "fetch" /\ UNCHANGED flagVars
  /\ UNCHANGED <<gen, objVars, airVars, locked, thrVars, op, todo, order, cmds, main>>

\* Faulty variant: a query without rows is repeated instead of taken as it is.
UdpFetchRetry ==
  /\ udp = "fetch"
  /\ gen' = gen + 1
  /\ UNCHANGED <<g_comharddevice_list, objVars, flagVars, airVars, locked, thrVars, udp,
                 op, todo, order, cmds, main>>

\* get_comharddevice_list(g_comharddevice_list): new objects, new mutexes.  For
\* start and test, get_thread_list() registers one thread_object per element
\* and create_thread_object() is about to walk the WHOLE thread_object_list.
UdpFetch ==
  /\ udp = "fetch"
  /\ \E rows \in FetchResults :
       LET fresh == rows \X {gen + 1}
       IN /\ g_comharddevice_list' = g_comharddevice_list \cup fresh
          /\ IF op \in {"start", "test"}
               THEN /\ thread_object_list' = thread_object_list \cup fresh
                    /\ todo' = thread_object_list \cup fresh
                    /\ udp' = "create" /\ UNCHANGED order
               ELSE /\ UNCHANGED <<thread_object_list, todo>>
                    /\ IF op = "air_control"
                         THEN udp' = "air" /\ UNCHANGED order
                         ELSE \/ /\ udp' = LoopHead /\ UNCHANGED order
                              \/ \E o \in fresh : order' = o /\ udp' = "want"
  /\ gen' = gen + 1
  /\ UNCHANGED <<pthread_run_flag, thr, flagVars, airVars, locked, thrVars, op,
                 cmds, main>>

\* A new thread of role k for the object o starts its run.
Launch(k, o) ==
  /\ nthreads < MaxThreads
  /\ nthreads' = nthreads + 1
  /\ pc' = [pc EXCEPT ![nthreads + 1] = "init"]
  /\ kind' = [kind EXCEPT ![nthreads + 1] = k]
  /\ home' = [home EXCEPT ![nthreads + 1] = o]
  /\ mtx' = [mtx EXCEPT ![nthreads + 1] = o]

\* Faulty variant: an object stays in the walk after its thread was created.
UdpCreateTwice(o) ==
  /\ udp = "create" /\ o \in todo
  /\ Launch("poller", o)
  /\ thr' = [thr EXCEPT ![o] = nthreads + 1]
  /\ UNCHANGED <<shared, thread_object_list, pthread_run_flag, flagVars, airVars,
                 locked, udp, op, todo, order, cmds, main>>

\* One iteration of create_thread_object(): the handle of an object that
\* already has a thread is overwritten, which detaches that thread.
UdpCreate(o) ==
  /\ udp = "create" /\ o \in todo
  /\ Launch("poller", o)
  /\ thr' = [thr EXCEPT ![o] = nthreads + 1]
  /\ todo' = todo \ {o}
  /\ UNCHANGED <<shared, thread_object_list, pthread_run_flag, flagVars, airVars,
                 locked, udp, op, order, cmds, main>>

\* Faulty variant: the walk ends before its last object.
UdpCreatedEarly ==
  /\ udp = "create"
  /\ todo' = {}
  /\ udp' = IF op = "start" THEN "air" ELSE LoopHead
  /\ UNCHANGED <<shared, objVars, flagVars, airVars, locked, thrVars, op, order,
                 cmds, main>>

UdpCreated ==
  /\ udp = "create" /\ todo = {}
  /\ udp' = IF op = "start" THEN "air" ELSE LoopHead
  /\ UNCHANGED <<shared, objVars, flagVars, airVars, locked, thrVars, op, todo,
                 order, cmds, main>>

\* Faulty variant: the new thread is not stored in thr_air_control_obj->thr.
UdpAirNoHandle ==
  /\ udp = "air"
  /\ Launch("air", NoObj)
  /\ thread_air_control_run_flag' = (op = "start" \/ thread_air_control_run_flag)
  /\ udp' = LoopHead
  /\ UNCHANGED <<shared, objVars, flagVars, air_thr, locked, op, todo, order, cmds, main>>

\* thr_air_control_obj->thr = new thread(thread_air_control); start raises the
\* flag first, air_control leaves that to the thread.
UdpAir ==
  /\ udp = "air"
  /\ Launch("air", NoObj)
  /\ air_thr' = nthreads + 1
  /\ thread_air_control_run_flag' = (op = "start" \/ thread_air_control_run_flag)
  /\ udp' = LoopHead
  /\ UNCHANGED <<shared, objVars, flagVars, locked, op, todo, order, cmds, main>>

\* Faulty variant: json_setorder_serial_op() without its scoped_lock.
UdpLockSkipped ==
  /\ udp = "want"
  /\ udp' = "bus"
  /\ UNCHANGED <<shared, objVars, flagVars, airVars, locked, thrVars, op, todo, order,
                 cmds, main>>

\* scoped_lock in json_setorder_serial_op() / json_cmd_serial_op().
UdpLock ==
  /\ udp = "want" /\ ~locked[order]
  /\ locked' = [locked EXCEPT ![order] = TRUE]
  /\ udp' = "bus"
  /\ UNCHANGED <<shared, objVars, flagVars, airVars, thrVars, op, todo, order,
                 cmds, main>>

\* The exchange is over (answer, timeout or error): the lock is dropped.
UdpUnlock ==
  /\ udp = "bus"
  /\ locked' = [locked EXCEPT ![order] = FALSE]
  /\ udp' = LoopHead /\ order' = NoObj
  /\ UNCHANGED <<shared, objVars, flagVars, airVars, thrVars, op, todo, cmds, main>>

\* End of thread_server_udp(): join the air-control thread, tell the pollers to
\* stop once more, free the list.
UdpFinish ==
  /\ udp = "join_air"
  /\ air_thr # NoThread => pc[air_thr] = "done"
  /\ ExitThreadObjects
  /\ g_comharddevice_list' = {}
  /\ udp' = "gone"
  /\ UNCHANGED <<gen, thread_object_list, thr, flagVars, airVars, locked, thrVars,
                 op, todo, order, cmds, main>>

UdpNext ==
  \/ UdpBoot \/ UdpTimeout \/ SignHandler
  \/ CmdStart \/ CmdStop \/ CmdRestart \/ CmdShutdown \/ CmdTest \/ CmdAirControl
  \/ \E c \in Coms : CmdSetorder(c) \/ CmdCmd(c)
  \/ RestartStart \/ UdpFree \/ UdpFetch
  \/ \E o \in Objs : UdpCreate(o)
  \/ UdpCreated \/ UdpAir \/ UdpLock \/ UdpUnlock \/ UdpFinish

------------------------------------------------------------------------------
(* A poller thread: mysql_create_pthread()                                 *)

Goto(t, from, to) == pc[t] = from /\ pc' = [pc EXCEPT ![t] = to]
thrRest == <<kind, home, nthreads>>

\* The connection failed: the flag is lowered, and the thread goes on.
PollerNoDb(t) ==
  /\ t \in Pollers /\ "poller_db" \in Faults
  /\ Goto(t, "init", "nodb")
  /\ pthread_run_flag' = [pthread_run_flag EXCEPT ![home[t]] = FALSE]
  /\ UNCHANGED <<shared, thread_object_list, thr, flagVars, airVars, locked,
                 thrRest, mtx, udpVars, main>>

\* Initialisation succeeds and the run flag is raised whatever became of it in
\* the meantime.  get_harddevice() finds the port of each device row in the
\* current list; without rows (the port was removed, no database) the thread
\* has no device and only watches its flag, unless a sibling filled the vector.
PollerEnter(t) ==
  /\ t \in Pollers
  /\ \/ Goto(t, "init", "loop") /\ Current(home[t][1]) # {}
     \/ Goto(t, "init", "idle") /\ Current(home[t][1]) = {}
     \/ Goto(t, "nodb", "idle")
     \/ Goto(t, "nodb", "loop") /\ Siblings(t) # {}
  /\ pthread_run_flag' = [pthread_run_flag EXCEPT ![home[t]] = TRUE]
  /\ UNCHANGED <<shared, thread_object_list, thr, flagVars, airVars, locked,
                 thrRest, mtx, udpVars, main>>

\* Initialisation fails: the lists are freed and the thread returns.
PollerInitFail(t) ==
  /\ t \in Pollers
  /\ \/ Goto(t, "init", "done") /\ Current(home[t][1]) = {}
     \/ Goto(t, "init", "done") /\ "poller_init" \in Faults
     \/ Goto(t, "nodb", "done") /\ "poller_init" \in Faults
  /\ UNCHANGED <<shared, objVars, flagVars, airVars, locked, thrRest, mtx, udpVars,
                 main>>

\* A device is due: mysql_pthread_op() wants the mutex of the thread's OWN
\* comharddevice.
PollerPoll(t) ==
  /\ t \in Pollers /\ pthread_run_flag[home[t]]
  /\ Goto(t, "loop", "want")
  /\ UNCHANGED <<shared, objVars, flagVars, airVars, locked, thrRest, mtx, udpVars,
                 main>>

\* scoped_lock, then the exchange with the device.
Lock(t) ==
  /\ Goto(t, "want", "bus") /\ ~locked[mtx[t]]
  /\ locked' = [locked EXCEPT ![mtx[t]] = TRUE]
  /\ UNCHANGED <<shared, objVars, flagVars, airVars, thrRest, mtx, udpVars, main>>

\* Faulty variant: the mutex stays locked when the operation returns.
UnlockForgotten(t) ==
  /\ Goto(t, "bus", IF kind[t] = "poller" THEN "loop" ELSE "round")
  /\ UNCHANGED <<shared, objVars, flagVars, airVars, locked, thrRest, mtx, udpVars, main>>

\* Faulty variant: the exchange has no timeout and no answer comes.
UnlockNever(t) == FALSE

\* The lock is dropped when the operation returns, after its sleep.
Unlock(t) ==
  /\ Goto(t, "bus", IF kind[t] = "poller" THEN "loop" ELSE "round")
  /\ locked' = [locked EXCEPT ![mtx[t]] = FALSE]
  /\ UNCHANGED <<shared, objVars, flagVars, airVars, thrRest, mtx, udpVars, main>>

\* Faulty variant: only a poller without devices looks at its flag.
PollerExitIdle(t) ==
  /\ t \in Pollers /\ ~pthread_run_flag[home[t]]
  /\ Goto(t, "idle", "done")
  /\ UNCHANGED <<shared, objVars, flagVars, airVars, locked, thrRest, mtx, udpVars,
                 main>>

\* The flag is down: the thread frees its lists, the device vector it shares
\* with the other threads of its object among them, and ends.
PollerExit(t) ==
  /\ t \in Pollers /\ ~pthread_run_flag[home[t]]
  /\ Goto(t, "loop", "done") \/ Goto(t, "idle", "done")
  /\ UNCHANGED <<shared, objVars, flagVars, airVars, locked, thrRest, mtx, udpVars,
                 main>>

------------------------------------------------------------------------------
(* An air-control thread: thread_air_control()                             *)

\* The thread raises its own run flag; without a database it returns and the
\* flag stays up.
AirBegin(t) ==
  /\ t \in Airs
  /\ \/ Goto(t, "init", "setup")
     \/ "air_connect" \in Faults /\ Goto(t, "init", "done")
  /\ thread_air_control_run_flag' = TRUE
  /\ UNCHANGED <<shared, objVars, flagVars, air_thr, locked, thrRest, mtx, udpVars,
                 main>>

\* The tables are read; parse_comharddevice() consults g_comharddevice_list.
AirSetup(t) ==
  /\ t \in Airs /\ Goto(t, "setup", "loop")
  /\ UNCHANGED <<shared, objVars, flagVars, airVars, locked, thrRest, mtx, udpVars,
                 main>>

\* Faulty variant: the loop does not look at the flag.
AirLoopForever(t) ==
  /\ t \in Airs /\ Goto(t, "loop", "round")
  /\ UNCHANGED <<shared, objVars, flagVars, airVars, locked, thrRest, mtx, udpVars,
                 main>>

\* The head of the loop: another round, or the end.
AirLoop(t) ==
  /\ t \in Airs
  /\ \/ thread_air_control_run_flag /\ Goto(t, "loop", "round")
     \/ ~thread_air_control_run_flag /\ Goto(t, "loop", "done")
  /\ UNCHANGED <<shared, objVars, flagVars, airVars, locked, thrRest, mtx, udpVars,
                 main>>

\* Faulty variant: the mutex is taken from the list main() fetched.
AirOperateOldList(t, c) ==
  /\ t \in Airs
  /\ Goto(t, "round", "want")
  /\ Current(c) # {} /\ mtx' = [mtx EXCEPT ![t] = <<c, 1>>]
  /\ UNCHANGED <<shared, objVars, flagVars, airVars, locked, thrRest, udpVars, main>>

\* An operation on a device of port c: its mutex is looked up in the CURRENT
\* list (op_air_obj, op_relay_obj, op_touch_switch_obj, op_swtich_obj).
AirOperate(t, c) ==
  /\ t \in Airs
  /\ Goto(t, "round", "want")
  /\ \E o \in Current(c) : mtx' = [mtx EXCEPT ![t] = o]
  /\ UNCHANGED <<shared, objVars, flagVars, airVars, locked, thrRest, udpVars, main>>

\* All rooms are done: nanosleep(loop_time), then the head of the loop again.
AirRoundEnd(t) ==
  /\ t \in Airs /\ Goto(t, "round", "sleep")
  /\ UNCHANGED <<shared, objVars, flagVars, airVars, locked, thrRest, mtx, udpVars,
                 main>>

AirWake(t) ==
  /\ t \in Airs /\ Goto(t, "sleep", "loop")
  /\ UNCHANGED <<shared, objVars, flagVars, airVars, locked, thrRest, mtx, udpVars,
                 main>>

ThreadNext(t) ==
  \/ PollerNoDb(t) \/ PollerEnter(t) \/ PollerInitFail(t) \/ PollerPoll(t)
  \/ PollerExit(t) \/ Lock(t) \/ Unlock(t)
  \/ AirBegin(t) \/ AirSetup(t) \/ AirLoop(t) \/ AirRoundEnd(t) \/ AirWake(t)
  \/ \E c \in Coms : AirOperate(t, c)

------------------------------------------------------------------------------
(* main() after the UDP server was created                                 *)

MainJoinUdp ==
  /\ main = "join_udp" /\ udp = "gone"
  /\ main' = "join_air"
  /\ UNCHANGED <<shared, objVars, flagVars, airVars, locked, thrVars, udpVars>>

MainJoinAir ==
  /\ main = "join_air"
  /\ air_thr # NoThread => pc[air_thr] = "done"
  /\ main' = "join_pollers"
  /\ UNCHANGED <<shared, objVars, flagVars, airVars, locked, thrVars, udpVars>>

\* wait_thread() joins the thread each handle names, then main() frees the list
\* and returns: the process, its detached threads included, is over.
MainExit ==
  /\ main = "join_pollers"
  /\ \A o \in thread_object_list : thr[o] # NoThread /\ pc[thr[o]] = "done"
  /\ main' = "exited"
  /\ g_comharddevice_list' = {}
  /\ UNCHANGED <<gen, objVars, flagVars, airVars, locked, thrVars, udpVars>>

\* A step of t that fills or clears the lists of its thread_object.
Rebuilding(t) ==
  \/ pc[t] \in {"nodb", "setup", "round"}
  \/ pc[t] = "init" /\ kind[t] = "poller"
  \/ pc[t] = "loop" /\ IF kind[t] = "poller" THEN ~pthread_run_flag[home[t]]
                                              ELSE ~thread_air_control_run_flag

\* Undefined behaviour that may kill the process: g_comharddevice_list is
\* rewritten while a thread iterates it, the lists of a thread_object are
\* rebuilt by one of its threads while another one uses them, or SIGTERM walks
\* thread_object_list while get_thread_list() appends to it.
Race ==
  \/ udp \in {"free", "fetch"} /\ ListReaders # {}
  \/ udp = "join_air" /\ ListReaders # {} /\ (air_thr # NoThread => pc[air_thr] = "done")
  \/ \E t \in Live : Rebuilding(t) /\ Siblings(t) # {}
  \/ /\ udp = "fetch" /\ op \in {"start", "test"}
     /\ "sigterm" \in Commands /\ cmds < MaxCmds /\ ~Patient

Crash ==
  /\ Race
  /\ main' = "crashed"
  /\ UNCHANGED <<shared, objVars, flagVars, airVars, locked, thrVars, udpVars>>

Next ==
  /\ ~Ended
  /\ \/ UdpNext
     \/ \E t \in Threads : ThreadNext(t)
     \/ MainJoinUdp \/ MainJoinAir \/ MainExit
     \/ Crash

Spec == Init /\ [][Next]_vars

------------------------------------------------------------------------------
(* Fairness.  Each thread is scheduled, exchanges with devices end (they are *)
(* bounded by timeouts), and a mutex is given to a waiting thread when it is *)
(* free.  A poller need not find a device due, nobody need send a command,   *)
(* and a round of air control may operate any number of devices, but each    *)
(* room list is finite: hence SF on the end of a round.                      *)

UdpWork ==
  \/ UdpBoot \/ UdpTimeout \/ RestartStart \/ UdpFree \/ UdpFetch
  \/ \E o \in Objs : UdpCreate(o)
  \/ UdpCreated \/ UdpAir \/ UdpLock \/ UdpUnlock \/ UdpFinish

ThreadWork(t) ==
  \/ PollerEnter(t) \/ PollerInitFail(t) \/ PollerExit(t) \/ Lock(t) \/ Unlock(t)
  \/ AirBegin(t) \/ AirSetup(t) \/ AirLoop(t) \/ AirWake(t)

Fairness ==
  /\ WF_vars(~Ended /\ UdpWork)
  /\ \A t \in Threads : /\ WF_vars(~Ended /\ ThreadWork(t))
                        /\ SF_vars(~Ended /\ AirRoundEnd(t))
  /\ WF_vars(~Ended /\ (MainJoinUdp \/ MainJoinAir \/ MainExit))

FairSpec == Spec /\ Fairness

------------------------------------------------------------------------------
(* Properties                                                               *)

FlagTypes ==
  /\ pthread_run_flag \in [Objs -> BOOLEAN]
  /\ locked \in [Objs -> BOOLEAN]
  /\ thread_running_flag \in BOOLEAN
  /\ thread_air_control_run_flag \in BOOLEAN
  /\ thread_server_udp_select_flag \in BOOLEAN

ObjectTypes ==
  /\ g_comharddevice_list \subseteq Objs
  /\ thread_object_list \subseteq Objs
  /\ todo \subseteq Objs
  /\ order \in Objs \cup {NoObj}
  /\ home \in [Threads -> Objs \cup {NoObj}]
  /\ mtx \in [Threads -> Objs \cup {NoObj}]

ThreadTypes ==
  /\ thr \in [Objs -> Threads \cup {NoThread}]
  /\ air_thr \in Threads \cup {NoThread}
  /\ nthreads \in 0 .. MaxThreads
  /\ pc \in [Threads -> {"none", "init", "nodb", "setup", "idle", "loop", "want",
                         "bus", "round", "sleep", "done"}]
  /\ kind \in [Threads -> {"none", "poller", "air"}]

ControlTypes ==
  /\ gen \in Gens
  /\ cmds \in 0 .. MaxCmds
  /\ udp \in {"boot", "select", "pause", "free", "fetch", "create", "air", "want",
              "bus", "join_air", "gone"}
  /\ op \in {"none", "start", "shutdown", "test", "air_control", "setorder", "cmd"}
  /\ main \in {"join_udp", "join_air", "join_pollers", "exited", "crashed"}

\* Type invariant of the whole state.
TypeOK == FlagTypes /\ ObjectTypes /\ ThreadTypes /\ ControlTypes

\* Each command fetches the list at most once: gen never exceeds its bound.
FetchPending == udp \in {"pause", "fetch"} \/ (udp = "free" /\ op # "shutdown")
GenBound == gen <= cmds + (IF FetchPending THEN 0 ELSE 1)

\* Who is in an exchange with a device under the mutex of o: threads by number,
\* the UDP server as 0.
UdpUser == 0
BusUsers(o) == {t \in Threads : pc[t] = "bus" /\ mtx[t] = o}
              \cup (IF udp = "bus" /\ order = o THEN {UdpUser} ELSE {})

\* The mutex_obj of a comharddevice serialises all its users - pollers, air
\* control, setorder and cmd - and is held exactly while one of them is in its
\* exchange: no path leaves a mutex locked behind or unlocks that of another.
MutexExclusion ==
  \A o \in Objs : /\ \A u, v \in BusUsers(o) : u = v
                  /\ locked[o] <=> BusUsers(o) # {}

\* The mutexes implement the abstract bus: exchanges are critical sections of
\* one mutex, and each of them ends unless the process does first.
Bus == INSTANCE SerialBus WITH
         Mutexes <- Objs, Users <- Threads \cup {UdpUser},
         holders <- [o \in Objs |-> BusUsers(o)], over <- Ended
ImplementsBus == Bus!FairSpec

\* At most one user drives a serial port at a time, under whichever mutex.
PortExclusion ==
  \A o, p \in Objs : o[1] = p[1] => \A u \in BusUsers(o), v \in BusUsers(p) : u = v

\* Until the list is fetched a second time by a command, the mutex found in
\* g_comharddevice_list IS the mutex of the serial port: whoever holds it is
\* alone on the port.
FirstFetchPortExclusion == gen <= 2 => PortExclusion

\* While the service runs, the list a setorder looks the port's mutex up in is
\* the list the pollers were built from: each object in it has its own thread,
\* the one its handle names.
ServedByCurrentList ==
  thread_running_flag /\ udp \in {"select", "want", "bus"} =>
    \A o \in g_comharddevice_list :
      /\ o \in thread_object_list /\ thr[o] # NoThread
      /\ kind[thr[o]] = "poller" /\ home[thr[o]] = o

\* wait_thread() and the end of the UDP server follow the handle of every
\* registered object: none of them is null.
NoNullJoin ==
  udp = "gone" => \A o \in thread_object_list : /\ thr[o] # NoThread
                                               /\ pc[thr[o]] # "none"

\* If the threads were started once only, main() returns after the last of them:
\* each one is named by a handle that somebody joins.  (A later start overwrites
\* handles, which detaches the threads they named.)
FirstStartJoined == main = "exited" /\ gen <= 2 => Live = {}

\* With a patient operator no undefined behaviour is ever reachable: neither
\* the shared list nor the lists of a thread_object are used while rebuilt.
NoCrash == ~Race /\ main # "crashed"

\* "stop" never waits, yet once nothing is starting it leads to the end of every
\* thread - unless the operator starts something again.
Stopped == /\ ~thread_running_flag /\ ~thread_air_control_run_flag
           /\ \A o \in thread_object_list : ~pthread_run_flag[o]
           /\ Raising = {}
StopDrains ==
  (Stopped /\ udp \in {"select", "join_air", "gone"})
    ~> (Live = {} \/ udp \in {"pause", "free", "fetch", "create", "air"} \/ Ended)

\* Once the server is told to leave (shutdown, SIGTERM) while no thread is still
\* starting, the process ends: no join waits for ever.  (A "start"
\* still served after SIGTERM and before select() times out would defeat this: a
\* patient operator sends none.)
CleanShutdown ==
  (Stopped /\ ~thread_server_udp_select_flag /\ udp \in {"select", "join_air", "gone"})
    ~> (main = "exited")

\* A setorder or cmd gets its exchange as soon as the threads are stopped: the
\* server is never stuck behind the mutex of a port.
OrderAnswered ==
  (udp = "want" /\ Stopped) ~> (udp # "want")

\* "stop" is a flag that threads look at between two exchanges and in their pauses.  It
\* takes effect all the same: every thread comes to its end, an order that waits for a
\* port gets it, and a server told to leave lets the process end.
StopTakesEffect == StopDrains /\ OrderAnswered /\ CleanShutdown
==============================================================================
