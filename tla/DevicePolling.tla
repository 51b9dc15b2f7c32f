----------------------------- MODULE DevicePolling -----------------------------
(***************************************************************************)
(* The polling loop of one poller thread (mysql_create_pthread): the       *)
(* devices of its port in turn, the statistics kept in memory, and the row *)
(* of each device in table harddevice, which outlives the thread.  A       *)
(* statement that fails skips the ones after it.                           *)
(***************************************************************************)
EXTENDS Naturals, FiniteSets

CONSTANTS
  nbharddevice, \* number of devices on the port
  HistoryBits,  \* width of hd_connect: 16
  CounterSize,  \* the counters are taken modulo this: 2^32
  DbFaults,     \* the SQL statements that may fail
  Crashes,      \* TRUE: the process may be killed at any moment
  MaxPolls,     \* bound: exchanges with one device in one life of the thread
  MaxClock,     \* bound: the highest time on the clock
  MaxSetBacks   \* bound: how often the clock is set back

AllDbFaults == {"insert", "lastconnect", "connect", "times"}

ASSUME PollingAssumption ==
  /\ nbharddevice \in Nat \ {0}
  /\ HistoryBits \in Nat \ {0}
  /\ CounterSize \in Nat \ {0, 1}
  /\ DbFaults \subseteq AllDbFaults
  /\ Crashes \in BOOLEAN
  /\ MaxPolls \in Nat
  /\ MaxClock \in Nat
  /\ MaxSetBacks \in Nat

Devices == 1 .. nbharddevice

VARIABLES
  pthread_run_flag,
  stage,               \* where the thread is: "off" when there is none
  i,                   \* the device it is at
  connect_times,       \* exchanges tried,
  connect_fine_times,  \* and those that succeeded, per device
  hd_connect,          \* the last outcomes, newest first: 0 fine, 1 failed
  time_now,            \* time of the last fine exchange
  row,                 \* the row of each device in table harddevice
  clock, setbacks

stats == <<connect_times, connect_fine_times, hd_connect, time_now>>
clocks == <<clock, setbacks>>
vars == <<pthread_run_flag, stage, i, stats, row, clocks>>

\* hd_connect is initially 0xffff; in a new row it is NULL.
AllFailed == [k \in 1 .. HistoryBits |-> 1]
Null == <<>>
Histories == [1 .. HistoryBits -> {0, 1}]

\* hd_connect << 1 | b.
ShiftIn(h, b) == [k \in 1 .. HistoryBits |-> IF k = 1 THEN b ELSE h[k - 1]]
Fine(h) == {k \in DOMAIN h : h[k] = 0}

Init ==
  /\ pthread_run_flag = FALSE
  /\ stage = "off" /\ i = 1
  /\ connect_times = [d \in Devices |-> 0]
  /\ connect_fine_times = [d \in Devices |-> 0]
  /\ hd_connect = [d \in Devices |-> AllFailed]
  /\ time_now = [d \in Devices |-> 0]
  /\ row = [d \in Devices |-> [values |-> FALSE, lastconnect |-> FALSE,
                               hd_connect |-> Null, fine_percent |-> 0]]
  /\ clock = 0 /\ setbacks = 0

\* A new thread: get_harddevice() builds fresh devices, with fresh statistics.
Start ==
  /\ stage = "off"
  /\ pthread_run_flag' = TRUE
  /\ stage' = "head" /\ i' = 1
  /\ connect_times' = [d \in Devices |-> 0]
  /\ connect_fine_times' = [d \in Devices |-> 0]
  /\ hd_connect' = [d \in Devices |-> AllFailed]
  /\ time_now' = [d \in Devices |-> clock]
  /\ UNCHANGED <<row, clocks>>

\* exit_thread_object().
Stop ==
  /\ pthread_run_flag /\ stage # "off"
  /\ pthread_run_flag' = FALSE
  /\ UNCHANGED <<stage, i, stats, row, clocks>>

\* The process dies, or main() returns while this thread is detached.
Kill ==
  /\ Crashes /\ stage # "off"
  /\ stage' = "off" /\ pthread_run_flag' = FALSE
  /\ UNCHANGED <<i, stats, row, clocks>>

Tick ==
  /\ clock < MaxClock
  /\ clock' = clock + 1
  /\ UNCHANGED <<pthread_run_flag, stage, i, stats, row, setbacks>>

SetBack ==
  /\ setbacks < MaxSetBacks
  /\ \E t \in 0 .. clock : clock' = t
  /\ setbacks' = setbacks + 1
  /\ UNCHANGED <<pthread_run_flag, stage, i, stats, row>>

------------------------------------------------------------------------------
(* The loop                                                                *)

\* while(pthread_run_flag): another pass, or the end of the thread.
Head ==
  /\ stage = "head"
  /\ IF pthread_run_flag THEN stage' = "device" /\ i' = 1
                         ELSE stage' = "off" /\ UNCHANGED i
  /\ UNCHANGED <<pthread_run_flag, stats, row, clocks>>

\* The for loop ends after the last device, or as soon as the flag is down.
PassEnd ==
  /\ stage = "device" /\ (i > nbharddevice \/ ~pthread_run_flag)
  /\ stage' = "head"
  /\ UNCHANGED <<pthread_run_flag, i, stats, row, clocks>>

\* hddelay_time is 0 in every device (value-initialised, never assigned): a
\* device is due unless the clock was set back behind its last fine exchange.
Due(d) == clock >= time_now[d]

NextDevice == stage' = "device" /\ i' = i + 1

NotDue ==
  /\ stage = "device" /\ i \in Devices /\ pthread_run_flag /\ ~Due(i)
  /\ NextDevice
  /\ UNCHANGED <<pthread_run_flag, stats, row, clocks>>

\* mysql_pthread_op() is called for the device; the flag may fall at any time.
Begin ==
  /\ stage = "device" /\ i \in Devices /\ pthread_run_flag /\ Due(i)
  /\ connect_times[i] < MaxPolls
  /\ stage' = "exchange"
  /\ UNCHANGED <<pthread_run_flag, i, stats, row, clocks>>

Incremented(counter) == [counter EXCEPT ![i] = (counter[i] + 1) % CounterSize]

\* Faulty variant: the outcome is noted before the values are stored.
ExchangeFineEarly ==
  /\ stage = "exchange"
  /\ connect_times' = Incremented(connect_times)
  /\ connect_fine_times' = Incremented(connect_fine_times)
  /\ time_now' = [time_now EXCEPT ![i] = clock]
  /\ hd_connect' = [hd_connect EXCEPT ![i] = ShiftIn(hd_connect[i], 0)]
  /\ stage' = "insert"
  /\ UNCHANGED <<pthread_run_flag, i, row, clocks>>

\* Faulty variant: a fine exchange is not counted as an exchange.
ExchangeFineUncounted ==
  /\ stage = "exchange"
  /\ connect_fine_times' = Incremented(connect_fine_times)
  /\ time_now' = [time_now EXCEPT ![i] = clock]
  /\ stage' = "insert"
  /\ UNCHANGED <<pthread_run_flag, i, connect_times, hd_connect, row, clocks>>

\* The device answered; handle_harddevice() takes the time.
ExchangeFine ==
  /\ stage = "exchange"
  /\ connect_times' = Incremented(connect_times)
  /\ connect_fine_times' = Incremented(connect_fine_times)
  /\ time_now' = [time_now EXCEPT ![i] = clock]
  /\ stage' = "insert"
  /\ UNCHANGED <<pthread_run_flag, i, hd_connect, row, clocks>>

\* Faulty variant: a device that does not answer is tried again at once.
ExchangeFailedRetry ==
  /\ stage = "exchange"
  /\ connect_times' = Incremented(connect_times)
  /\ hd_connect' = [hd_connect EXCEPT ![i] = ShiftIn(hd_connect[i], 1)]
  /\ stage' = "device"
  /\ UNCHANGED <<pthread_run_flag, i, connect_fine_times, time_now, row, clocks>>

\* No answer, a bad one, or the port could not be opened.
ExchangeFailed ==
  /\ stage = "exchange"
  /\ connect_times' = Incremented(connect_times)
  /\ hd_connect' = [hd_connect EXCEPT ![i] = ShiftIn(hd_connect[i], 1)]
  /\ stage' = "connect"
  /\ UNCHANGED <<pthread_run_flag, i, connect_fine_times, time_now, row, clocks>>

\* update_hd_connect_times() turns a count of 0, after an overflow, into 1.
NonZero(counter) == [counter EXCEPT ![i] = IF counter[i] = 0 THEN 1 ELSE counter[i]]

\* A statement that fails is logged and the loop continues with the next device.
StatementFails ==
  /\ stage \in DbFaults
  /\ connect_times' = IF stage = "times" THEN NonZero(connect_times) ELSE connect_times
  /\ NextDevice
  /\ UNCHANGED <<pthread_run_flag, connect_fine_times, hd_connect, time_now, row, clocks>>

\* sql_insert_handle(): the values are stored.
Insert ==
  /\ stage = "insert"
  /\ row' = [row EXCEPT ![i].values = TRUE]
  /\ stage' = "lastconnect"
  /\ UNCHANGED <<pthread_run_flag, i, stats, clocks>>

\* Faulty variant: the outcome is shifted in twice.
LastConnectTwice ==
  /\ stage = "lastconnect"
  /\ row' = [row EXCEPT ![i].lastconnect = TRUE]
  /\ hd_connect' = [hd_connect EXCEPT ![i] = ShiftIn(ShiftIn(hd_connect[i], 0), 0)]
  /\ stage' = "connect"
  /\ UNCHANGED <<pthread_run_flag, i, connect_times, connect_fine_times, time_now,
                 clocks>>

\* update_lastconnecttime(); only now is the fine exchange noted in hd_connect.
LastConnect ==
  /\ stage = "lastconnect"
  /\ row' = [row EXCEPT ![i].lastconnect = TRUE]
  /\ hd_connect' = [hd_connect EXCEPT ![i] = ShiftIn(hd_connect[i], 0)]
  /\ stage' = "connect"
  /\ UNCHANGED <<pthread_run_flag, i, connect_times, connect_fine_times, time_now,
                 clocks>>

\* update_hd_connect().
UpdateConnect ==
  /\ stage = "connect"
  /\ row' = [row EXCEPT ![i].hd_connect = hd_connect[i]]
  /\ stage' = "times"
  /\ UNCHANGED <<pthread_run_flag, i, stats, clocks>>

\* connect_fine_times*100 is computed in the width of the counters.
Percent(fine, times) == ((fine * 100) % CounterSize) \div times

\* update_hd_connect_times().
UpdateTimes ==
  /\ stage = "times"
  /\ connect_times' = NonZero(connect_times)
  /\ row' = [row EXCEPT ![i].fine_percent = Percent(connect_fine_times[i],
                                                    connect_times'[i])]
  /\ NextDevice
  /\ UNCHANGED <<pthread_run_flag, connect_fine_times, hd_connect, time_now, clocks>>

Poll == \/ Head \/ PassEnd \/ NotDue \/ Begin \/ ExchangeFine \/ ExchangeFailed
        \/ StatementFails \/ Insert \/ LastConnect \/ UpdateConnect \/ UpdateTimes

Next == Start \/ Stop \/ Kill \/ Tick \/ SetBack \/ Poll

Spec == Init /\ [][Next]_vars

\* The thread is scheduled, exchanges and statements end, time passes.
FairSpec == Spec /\ WF_vars(Poll) /\ WF_vars(Tick)

------------------------------------------------------------------------------
(* Properties                                                              *)

Rows == [values : BOOLEAN, lastconnect : BOOLEAN, hd_connect : Histories \cup {Null},
         fine_percent : 0 .. CounterSize - 1]

Counters == [Devices -> 0 .. CounterSize - 1]

PlaceTypes ==
  /\ pthread_run_flag \in BOOLEAN
  /\ stage \in {"off", "head", "device", "exchange", "insert", "lastconnect", "connect",
                "times"}
  /\ i \in 1 .. nbharddevice + 1
  /\ stage \in AllDbFaults \cup {"exchange"} => i \in Devices
  /\ clock \in 0 .. MaxClock
  /\ setbacks \in 0 .. MaxSetBacks

StatsTypes ==
  /\ connect_times \in Counters
  /\ connect_fine_times \in Counters
  /\ hd_connect \in [Devices -> Histories]
  /\ time_now \in [Devices -> 0 .. MaxClock]

\* Type invariant; in particular i never leaves the vector of devices by more
\* than one and a statement is only executed for one of them.
TypeOK == PlaceTypes /\ StatsTypes /\ row \in [Devices -> Rows]

\* The counters are wide enough for the percentage.
Unwrapped == MaxPolls * 100 < CounterSize

\* The history never shows more fine exchanges than the statistics count, whatever
\* statements fail: an exchange enters it at most once.
HistoryWithinStatistics ==
  Unwrapped => \A d \in Devices : Cardinality(Fine(hd_connect[d])) <= connect_fine_times[d]

\* A device is never shown as connected in its row unless its values and the
\* time of its last connection were stored: not after failed statements, a kill
\* between two statements or a new start of the thread.
ShownConnectedHasValues ==
  \A d \in Devices : Fine(row[d].hd_connect) # {} => row[d].values /\ row[d].lastconnect

\* The percentage in a row is one, as long as the counters do not overflow.
PercentRight ==
  Unwrapped => \A d \in Devices : row[d].fine_percent <= 100

\* While the thread runs every device of the port is tried again and again:
\* neither a device that never answers, nor failing statements, nor a clock that
\* was set back starves another one.
EveryDevicePolled ==
  \A d \in Devices : \A k \in 0 .. CounterSize - 1 :
    (stage # "off" /\ pthread_run_flag /\ connect_times[d] = k)
      ~> (connect_times[d] # k \/ ~pthread_run_flag)

\* What the row of a device says of its connections: the history and the percentage are
\* counted by different statements, and none counts an exchange twice.
StatisticsRight == HistoryWithinStatistics /\ PercentRight
==============================================================================
