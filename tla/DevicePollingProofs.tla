------------------------- MODULE DevicePollingProofs -------------------------
(* Theorems about DevicePolling for every number of devices, every width of   *)
(* the history and of the counters, and every selection of faults.            *)
EXTENDS DevicePolling, FiniteSetTheorems, TLAPS

------------------------------------------------------------------------------
(* Histories                                                                 *)

LEMMA AllFailedFine == AllFailed \in Histories /\ Fine(AllFailed) = {} /\ Fine(Null) = {}
  BY DEF AllFailed, Histories, Fine, Null

LEMMA ShiftInType ==
  ASSUME NEW h \in Histories, NEW b \in {0, 1}
  PROVE  ShiftIn(h, b) \in Histories
  BY PollingAssumption DEF ShiftIn, Histories

LEMMA FineFinite ==
  ASSUME NEW h \in Histories
  PROVE  IsFiniteSet(Fine(h)) /\ Cardinality(Fine(h)) \in Nat
<1>1. IsFiniteSet(1 .. HistoryBits)
  BY FS_Interval, PollingAssumption
<1>2. Fine(h) \in SUBSET (1 .. HistoryBits)
  BY DEF Fine, Histories
<1>3. QED
  BY <1>1, <1>2, FS_Subset, FS_CardinalityType

\* A shift adds at most its own outcome to the fine ones of the history.
LEMMA ShiftInFine ==
  ASSUME NEW h \in Histories, NEW b \in {0, 1}
  PROVE  Cardinality(Fine(ShiftIn(h, b))) <= Cardinality(Fine(h)) + (1 - b)
<1> DEFINE s == ShiftIn(h, b)
           old == Fine(s) \ {1}
           f == [k \in old |-> k - 1]
<1>1. s \in Histories
  BY ShiftInType
<1>2. f \in Injection(old, Fine(h))
  <2>1. ASSUME NEW k \in old PROVE k - 1 \in Fine(h)
    BY PollingAssumption DEF ShiftIn, Histories, Fine
  <2>2. \A k, l \in old : f[k] = f[l] => k = l
    BY PollingAssumption DEF ShiftIn, Fine
  <2>3. QED
    BY <2>1, <2>2 DEF Injection, IsInjective
<1>3. Cardinality(old) <= Cardinality(Fine(h))
  BY <1>2, FineFinite, FS_Injection
<1>4. IsFiniteSet(Fine(s))
  BY <1>1, FineFinite
<1>5. 1 \in Fine(s) <=> b = 0
  BY PollingAssumption DEF ShiftIn, Fine
<1>6. Cardinality(old) = IF b = 0 THEN Cardinality(Fine(s)) - 1 ELSE Cardinality(Fine(s))
  BY <1>4, <1>5, FS_RemoveElement
<1>7. Cardinality(Fine(s)) \in Nat /\ Cardinality(Fine(h)) \in Nat
  BY <1>1, FineFinite
<1>8. QED
  BY <1>3, <1>6, <1>7

------------------------------------------------------------------------------
(* Types                                                                     *)

LEMMA CounterOps ==
  ASSUME NEW counter \in Counters, i \in Devices
  PROVE  Incremented(counter) \in Counters /\ NonZero(counter) \in Counters
  BY PollingAssumption DEF Counters, Incremented, NonZero

LEMMA PercentType ==
  ASSUME NEW fine \in Nat, NEW times \in Nat \ {0}
  PROVE  Percent(fine, times) \in 0 .. CounterSize - 1
<1> DEFINE n == (fine * 100) % CounterSize
<1>1. n \in 0 .. CounterSize - 1
  BY PollingAssumption
<1>2. n \div times \in 0 .. n
  <2> HIDE DEF n
  <2> QED
    BY <1>1, PollingAssumption
<1>3. QED
  BY <1>1, <1>2, PollingAssumption DEF Percent

LEMMA PollTypeInit == Init => TypeOK
<1> SUFFICES ASSUME Init PROVE TypeOK
  OBVIOUS
<1>1. PlaceTypes
  <2>1. pthread_run_flag \in BOOLEAN
    BY DEF Init
  <2>2. stage = "off" /\ i = 1 /\ clock = 0 /\ setbacks = 0
    BY DEF Init
  <2>3. QED
    BY <2>1, <2>2, PollingAssumption DEF PlaceTypes, AllDbFaults
<1>2. StatsTypes
  BY PollingAssumption, AllFailedFine DEF Init, StatsTypes, Counters
<1>3. row \in [Devices -> Rows]
  BY PollingAssumption DEF Init, Rows
<1>4. QED
  BY <1>1, <1>2, <1>3 DEF TypeOK

LEMMA PlaceStep == PlaceTypes /\ [Next]_vars => PlaceTypes'
<1> SUFFICES ASSUME PlaceTypes, [Next]_vars PROVE PlaceTypes'
  OBVIOUS
<1> USE PollingAssumption DEF PlaceTypes, AllDbFaults, Devices, stats, clocks
<1>1. CASE Start
  BY <1>1 DEF Start
<1>2. CASE Stop
  BY <1>2 DEF Stop
<1>3. CASE Kill
  BY <1>3 DEF Kill
<1>4. CASE Tick
  BY <1>4 DEF Tick
<1>5. CASE SetBack
  BY <1>5 DEF SetBack
<1>6. CASE Head
  BY <1>6 DEF Head
<1>7. CASE PassEnd
  BY <1>7 DEF PassEnd
<1>8. CASE NotDue
  BY <1>8 DEF NotDue, NextDevice
<1>9. CASE Begin
  BY <1>9 DEF Begin
<1>10. CASE ExchangeFine
  BY <1>10 DEF ExchangeFine
<1>11. CASE ExchangeFailed
  BY <1>11 DEF ExchangeFailed
<1>12. CASE StatementFails
  BY <1>12 DEF StatementFails, NextDevice
<1>13. CASE Insert
  BY <1>13 DEF Insert
<1>14. CASE LastConnect
  BY <1>14 DEF LastConnect
<1>15. CASE UpdateConnect
  BY <1>15 DEF UpdateConnect
<1>16. CASE UpdateTimes
  BY <1>16 DEF UpdateTimes, NextDevice
<1>17. CASE UNCHANGED vars
  BY <1>17 DEF vars
<1>18. QED
  BY <1>1, <1>2, <1>3, <1>4, <1>5, <1>6, <1>7, <1>8, <1>9, <1>10, <1>11, <1>12,
     <1>13, <1>14, <1>15, <1>16, <1>17 DEF Next, Poll

LEMMA StatsStep == PlaceTypes /\ StatsTypes /\ [Next]_vars => StatsTypes'
<1> SUFFICES ASSUME PlaceTypes, StatsTypes, [Next]_vars PROVE StatsTypes'
  OBVIOUS
<1>0. clock \in 0 .. MaxClock /\ (stage \in AllDbFaults \cup {"exchange"} => i \in Devices)
  BY DEF PlaceTypes
<1> HIDE DEF PlaceTypes
<1> USE <1>0, CounterOps, PollingAssumption DEF StatsTypes, AllDbFaults, stats, clocks
<1>1. CASE Start
  BY <1>1, AllFailedFine DEF Start, Counters
<1>2. CASE Stop
  BY <1>2 DEF Stop
<1>3. CASE Kill
  BY <1>3 DEF Kill
<1>4. CASE Tick
  BY <1>4 DEF Tick
<1>5. CASE SetBack
  BY <1>5 DEF SetBack
<1>6. CASE Head
  BY <1>6 DEF Head
<1>7. CASE PassEnd
  BY <1>7 DEF PassEnd
<1>8. CASE NotDue
  BY <1>8 DEF NotDue, NextDevice
<1>9. CASE Begin
  BY <1>9 DEF Begin
<1>10. CASE ExchangeFine
  BY <1>10 DEF ExchangeFine
<1>11. CASE ExchangeFailed
  BY <1>11, ShiftInType DEF ExchangeFailed
<1>12. CASE StatementFails
  BY <1>12 DEF StatementFails, NextDevice
<1>13. CASE Insert
  BY <1>13 DEF Insert
<1>14. CASE LastConnect
  BY <1>14, ShiftInType DEF LastConnect
<1>15. CASE UpdateConnect
  BY <1>15 DEF UpdateConnect
<1>16. CASE UpdateTimes
  BY <1>16 DEF UpdateTimes, NextDevice
<1>17. CASE UNCHANGED vars
  BY <1>17 DEF vars
<1>18. QED
  BY <1>1, <1>2, <1>3, <1>4, <1>5, <1>6, <1>7, <1>8, <1>9, <1>10, <1>11, <1>12,
     <1>13, <1>14, <1>15, <1>16, <1>17 DEF Next, Poll

LEMMA RowStep == TypeOK /\ StatsTypes' /\ [Next]_vars => row' \in [Devices -> Rows]
<1> SUFFICES ASSUME TypeOK, StatsTypes', [Next]_vars PROVE row' \in [Devices -> Rows]
  OBVIOUS
<1>0. /\ stage \in AllDbFaults \cup {"exchange"} => i \in Devices
      /\ hd_connect \in [Devices -> Histories]
      /\ connect_times \in Counters /\ connect_fine_times \in Counters
      /\ row \in [Devices -> Rows]
  BY DEF TypeOK, PlaceTypes, StatsTypes
<1> USE <1>0 DEF Rows, AllDbFaults
<1>1. CASE Start
  BY <1>1 DEF Start
<1>2. CASE Stop
  BY <1>2 DEF Stop
<1>3. CASE Kill
  BY <1>3 DEF Kill
<1>4. CASE Tick
  BY <1>4 DEF Tick
<1>5. CASE SetBack
  BY <1>5 DEF SetBack
<1>6. CASE Head
  BY <1>6 DEF Head
<1>7. CASE PassEnd
  BY <1>7 DEF PassEnd
<1>8. CASE NotDue
  BY <1>8 DEF NotDue, NextDevice
<1>9. CASE Begin
  BY <1>9 DEF Begin
<1>10. CASE ExchangeFine
  BY <1>10 DEF ExchangeFine
<1>11. CASE ExchangeFailed
  BY <1>11 DEF ExchangeFailed
<1>12. CASE StatementFails
  BY <1>12 DEF StatementFails, NextDevice
<1>13. CASE Insert
  BY <1>13 DEF Insert
<1>14. CASE LastConnect
  BY <1>14 DEF LastConnect
<1>15. CASE UpdateConnect
  BY <1>15 DEF UpdateConnect
<1>16. CASE UpdateTimes
  <2>1. i \in Devices /\ connect_times' = NonZero(connect_times)
    BY <1>16 DEF UpdateTimes
  <2>2. connect_times'[i] \in Nat \ {0} /\ connect_fine_times[i] \in Nat
    BY <2>1, PollingAssumption DEF NonZero, Counters
  <2>3. Percent(connect_fine_times[i], connect_times'[i]) \in 0 .. CounterSize - 1
    BY <2>2, PercentType
  <2>4. QED
    BY <1>16, <2>1, <2>3 DEF UpdateTimes
<1>17. CASE UNCHANGED vars
  BY <1>17 DEF vars
<1>18. QED
  BY <1>1, <1>2, <1>3, <1>4, <1>5, <1>6, <1>7, <1>8, <1>9, <1>10, <1>11, <1>12,
     <1>13, <1>14, <1>15, <1>16, <1>17 DEF Next, Poll

LEMMA PollTypeStep == TypeOK /\ [Next]_vars => TypeOK'
  BY PlaceStep, StatsStep, RowStep DEF TypeOK

\* Every variable keeps its type, and the index of the loop its range.
THEOREM PollingTypeCorrect == Spec => []TypeOK
  BY PollTypeInit, PollTypeStep, PTL DEF Spec
------------------------------------------------------------------------------
(* A device shown as connected                                               *)

\* The inductive form: what is noted in memory is stored before it is noted, and
\* memory reaches the row only as a whole.
StoredBeforeShown ==
  /\ ShownConnectedHasValues
  /\ \A d \in Devices : Fine(hd_connect[d]) # {} => row[d].values /\ row[d].lastconnect
  /\ stage = "lastconnect" => row[i].values

LEMMA ShiftInFailed ==
  ASSUME NEW h \in Histories, Fine(h) = {}
  PROVE  Fine(ShiftIn(h, 1)) = {}
  BY PollingAssumption DEF ShiftIn, Histories, Fine

LEMMA StoredInit == Init => StoredBeforeShown
  BY AllFailedFine DEF Init, StoredBeforeShown, ShownConnectedHasValues

LEMMA StoredStep == TypeOK /\ StoredBeforeShown /\ [Next]_vars => StoredBeforeShown'
<1> SUFFICES ASSUME TypeOK, StoredBeforeShown, [Next]_vars PROVE StoredBeforeShown'
  OBVIOUS
<1>0. /\ stage \in AllDbFaults \cup {"exchange"} => i \in Devices
      /\ hd_connect \in [Devices -> Histories]
      /\ row \in [Devices -> Rows]
      /\ DbFaults \subseteq AllDbFaults
  BY PollingAssumption DEF TypeOK, PlaceTypes, StatsTypes
<1> USE <1>0 DEF StoredBeforeShown, ShownConnectedHasValues, AllDbFaults, Rows, stats,
                 clocks
<1>1. CASE Start
  BY <1>1, AllFailedFine DEF Start
<1>2. CASE Stop
  BY <1>2 DEF Stop
<1>3. CASE Kill
  BY <1>3 DEF Kill
<1>4. CASE Tick
  BY <1>4 DEF Tick
<1>5. CASE SetBack
  BY <1>5 DEF SetBack
<1>6. CASE Head
  BY <1>6 DEF Head
<1>7. CASE PassEnd
  BY <1>7 DEF PassEnd
<1>8. CASE NotDue
  BY <1>8 DEF NotDue, NextDevice
<1>9. CASE Begin
  BY <1>9 DEF Begin
<1>10. CASE ExchangeFine
  BY <1>10 DEF ExchangeFine
<1>11. CASE ExchangeFailed
  BY <1>11, ShiftInFailed DEF ExchangeFailed
<1>12. CASE StatementFails
  BY <1>12 DEF StatementFails, NextDevice
<1>13. CASE Insert
  BY <1>13 DEF Insert
<1>14. CASE LastConnect
  BY <1>14 DEF LastConnect
<1>15. CASE UpdateConnect
  BY <1>15 DEF UpdateConnect
<1>16. CASE UpdateTimes
  BY <1>16 DEF UpdateTimes, NextDevice
<1>17. CASE UNCHANGED vars
  BY <1>17 DEF vars
<1>18. QED
  BY <1>1, <1>2, <1>3, <1>4, <1>5, <1>6, <1>7, <1>8, <1>9, <1>10, <1>11, <1>12,
     <1>13, <1>14, <1>15, <1>16, <1>17 DEF Next, Poll

\* Whatever statements fail and whenever the process is killed, no row shows a
\* device as connected whose values were never stored.
THEOREM NoConnectionWithoutValues == Spec => []ShownConnectedHasValues
<1>1. TypeOK /\ StoredBeforeShown /\ [Next]_vars => (TypeOK /\ StoredBeforeShown)'
  BY PollTypeStep, StoredStep
<1>2. StoredBeforeShown => ShownConnectedHasValues
  BY DEF StoredBeforeShown
<1>3. QED
  BY PollTypeInit, StoredInit, <1>1, <1>2, PTL DEF Spec
------------------------------------------------------------------------------
(* Statistics and percentage                                                 *)

\* A fine exchange that was counted but has not entered the history yet.
Pending(d) == IF stage \in {"insert", "lastconnect"} /\ d = i THEN 1 ELSE 0

\* The inductive form of HistoryWithinStatistics and PercentRight: what is counted
\* and not yet in the history is accounted for, and no counter has overflowed.
CountsConsistent ==
  /\ \A d \in Devices : Cardinality(Fine(hd_connect[d])) + Pending(d)
                            <= connect_fine_times[d]
  /\ \A d \in Devices : connect_fine_times[d] <= connect_times[d]
                          /\ connect_times[d] <= MaxPolls
  /\ stage = "exchange" => connect_times[i] < MaxPolls
  /\ stage \in AllDbFaults => connect_times[i] > 0
  /\ \A d \in Devices : row[d].fine_percent <= 100

LEMMA QuotientBound ==
  ASSUME NEW a \in Nat, NEW t \in Nat \ {0}, a <= 100 * t
  PROVE  a \div t <= 100
  OBVIOUS

LEMMA PercentBound ==
  ASSUME Unwrapped, NEW fine \in Nat, NEW times \in Nat \ {0},
         fine <= times, times <= MaxPolls
  PROVE  Percent(fine, times) <= 100
<1>1. fine * 100 <= MaxPolls * 100 /\ fine * 100 <= 100 * times
  BY PollingAssumption
<1>2. (fine * 100) % CounterSize = fine * 100
  BY <1>1, PollingAssumption DEF Unwrapped
<1>3. (fine * 100) \div times <= 100
  BY <1>1, QuotientBound
<1>4. QED
  BY <1>2, <1>3 DEF Percent

LEMMA IncrementedBelow ==
  ASSUME Unwrapped, NEW n \in Nat, n < MaxPolls
  PROVE  (n + 1) % CounterSize = n + 1
  BY PollingAssumption DEF Unwrapped

LEMMA NoFineNoCount == Cardinality(Fine(AllFailed)) = 0
  BY AllFailedFine, FS_EmptySet

LEMMA CountsInit == Init => CountsConsistent
  BY NoFineNoCount, PollingAssumption
     DEF Init, CountsConsistent, Pending, AllDbFaults, Devices
LEMMA CountsStep ==
  TypeOK /\ Unwrapped /\ CountsConsistent /\ [Next]_vars => CountsConsistent'
<1> SUFFICES ASSUME TypeOK, Unwrapped, CountsConsistent, [Next]_vars
             PROVE  CountsConsistent'
  OBVIOUS
<1>0. /\ stage \in AllDbFaults \cup {"exchange"} => i \in Devices
      /\ hd_connect \in [Devices -> Histories]
      /\ connect_times \in [Devices -> Nat] /\ connect_fine_times \in [Devices -> Nat]
      /\ row \in [Devices -> Rows]
      /\ DbFaults \subseteq AllDbFaults
      /\ MaxPolls \in Nat
      /\ \A d \in Devices : Cardinality(Fine(hd_connect[d])) \in Nat
  BY PollingAssumption, FineFinite DEF TypeOK, PlaceTypes, StatsTypes, Counters
<1> USE <1>0 DEF CountsConsistent, Pending, AllDbFaults, Rows, stats, clocks
<1>1. CASE Start
  BY <1>1, NoFineNoCount DEF Start
<1>2. CASE Stop
  BY <1>2 DEF Stop
<1>3. CASE Kill
  BY <1>3 DEF Kill
<1>4. CASE Tick
  BY <1>4 DEF Tick
<1>5. CASE SetBack
  BY <1>5 DEF SetBack
<1>6. CASE Head
  BY <1>6 DEF Head
<1>7. CASE PassEnd
  BY <1>7 DEF PassEnd
<1>8. CASE NotDue
  BY <1>8 DEF NotDue, NextDevice
<1>9. CASE Begin
  BY <1>9 DEF Begin
<1>10. CASE ExchangeFine
  <2>1. /\ i \in Devices
        /\ connect_times[i] < MaxPolls /\ connect_fine_times[i] < MaxPolls
    BY <1>10 DEF ExchangeFine
  <2>2. /\ (connect_times[i] + 1) % CounterSize = connect_times[i] + 1
        /\ (connect_fine_times[i] + 1) % CounterSize = connect_fine_times[i] + 1
    BY <2>1, IncrementedBelow
  <2>3. QED
    BY <1>10, <2>1, <2>2 DEF ExchangeFine, Incremented
<1>11. CASE ExchangeFailed
  <2>1. (connect_times[i] + 1) % CounterSize = connect_times[i] + 1
    BY <1>11, IncrementedBelow DEF ExchangeFailed
  <2>2. Cardinality(Fine(ShiftIn(hd_connect[i], 1))) <= Cardinality(Fine(hd_connect[i]))
    BY <1>11, ShiftInFine DEF ExchangeFailed
  <2>3. Cardinality(Fine(ShiftIn(hd_connect[i], 1))) \in Nat
    BY <1>11, ShiftInType, FineFinite DEF ExchangeFailed
  <2>4. QED
    BY <1>11, <2>1, <2>2, <2>3 DEF ExchangeFailed, Incremented
<1>12. CASE StatementFails
  BY <1>12 DEF StatementFails, NextDevice, NonZero
<1>13. CASE Insert
  BY <1>13 DEF Insert
<1>14. CASE LastConnect
  <2>1. /\ Cardinality(Fine(ShiftIn(hd_connect[i], 0)))
              <= Cardinality(Fine(hd_connect[i])) + 1
        /\ Cardinality(Fine(ShiftIn(hd_connect[i], 0))) \in Nat
    BY <1>14, ShiftInFine, ShiftInType, FineFinite DEF LastConnect
  <2>2. QED
    BY <1>14, <2>1 DEF LastConnect
<1>15. CASE UpdateConnect
  BY <1>15 DEF UpdateConnect
<1>16. CASE UpdateTimes
  <2>1. connect_times[i] > 0 /\ i \in Devices
    BY <1>16 DEF UpdateTimes
  <2>2. connect_times' = connect_times
    BY <1>16, <2>1 DEF UpdateTimes, NonZero
  <2>3. Percent(connect_fine_times[i], connect_times[i]) <= 100
    BY <2>1, PercentBound
  <2>4. QED
    BY <1>16, <2>1, <2>2, <2>3 DEF UpdateTimes, NextDevice
<1>17. CASE UNCHANGED vars
  BY <1>17 DEF vars
<1>18. QED
  BY <1>1, <1>2, <1>3, <1>4, <1>5, <1>6, <1>7, <1>8, <1>9, <1>10, <1>11, <1>12,
     <1>13, <1>14, <1>15, <1>16, <1>17 DEF Next, Poll

LEMMA CountsAlways == Spec => [](Unwrapped => CountsConsistent)
<1>1. TypeOK /\ (Unwrapped => CountsConsistent) /\ [Next]_vars
        => (Unwrapped => CountsConsistent)'
  BY CountsStep DEF Unwrapped
<1>2. Init => (Unwrapped => CountsConsistent)
  BY CountsInit
<1>3. QED
  BY <1>1, <1>2, PollTypeInit, PollTypeStep, PTL DEF Spec

\* No exchange enters the history twice: it never shows more fine exchanges than
\* the statistics have counted.
THEOREM HistoryNeverExceedsStatistics == Spec => []HistoryWithinStatistics
<1>1. TypeOK /\ (Unwrapped => CountsConsistent) => HistoryWithinStatistics
  <2> SUFFICES ASSUME TypeOK, Unwrapped, CountsConsistent, NEW d \in Devices
               PROVE  Cardinality(Fine(hd_connect[d])) <= connect_fine_times[d]
    BY DEF HistoryWithinStatistics
  <2>1. Cardinality(Fine(hd_connect[d])) \in Nat /\ connect_fine_times[d] \in Nat
    BY FineFinite, PollingAssumption DEF TypeOK, StatsTypes, Counters
  <2>2. QED
    BY <2>1 DEF CountsConsistent, Pending
<1>2. QED
  BY <1>1, CountsAlways, PollingTypeCorrect, PTL

\* Without an overflow the percentage of every row is at most 100.
THEOREM PercentAlwaysRight == Spec => []PercentRight
<1>1. (Unwrapped => CountsConsistent) => PercentRight
  BY DEF CountsConsistent, PercentRight
<1>2. QED
  BY <1>1, CountsAlways, PTL

\* The history and the percentage of a row never claim more than was counted.
THEOREM StatisticsAlwaysRight == Spec => []StatisticsRight
<1>1. HistoryWithinStatistics /\ PercentRight => StatisticsRight
  BY DEF StatisticsRight
<1>2. QED
  BY <1>1, HistoryNeverExceedsStatistics, PercentAlwaysRight, PTL
==============================================================================
