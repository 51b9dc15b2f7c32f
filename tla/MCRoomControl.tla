----------------------------- MODULE MCRoomControl -----------------------------
(* Instances of RoomControl for TLC: four rooms, of which one is in use.        *)
EXTENDS RoomControl, TLC

CONSTANTS lab, hall, office, store, a1, a2, a3, s1, s2, s3, r1, r2, m1, m2, p1

MCHdtype == [d \in Hddevices |->
  CASE d \in {a1, a2, a3} -> air
    [] d \in {s1, s2, s3} -> switch
    [] d \in {r1, r2}     -> relay
    [] d \in {m1, m2}     -> meter
    [] d = p1             -> counter]

\* The hall has no motion sensor, and its light goes by head count.
MCDevicesOf == [r \in Rooms |->
  CASE r = lab    -> <<m1, a1, a2>>
    [] r = hall   -> <<p1, s1, s2>>
    [] r = office -> <<m2, a3, s3>>
    [] r = store  -> <<r1>>]

\* One of the rules names a device unknown to the thread.
MCRules == [r \in Rooms |->
  IF r = hall THEN {[device |-> s1, limit |-> 1], [device |-> r2, limit |-> 2]} ELSE {}]

NoTable == [used |-> FALSE, now |-> "free"]

\* Of a timetable or a room that is not in use nothing matters; the
\* second conditioner of the lab starts in fewer states than the first.
Unused ==
  /\ inuse \in {{r} : r \in Rooms}
  /\ table \in [Rooms -> [Kinds -> [used : {TRUE}, now : Lessons] \cup {NoTable}]]
  /\ \A r \in Rooms \ inuse : table[r] = [k \in Kinds |-> NoTable]
  /\ people \in [Rooms -> Counts]
  /\ \A r \in Rooms : r \notin inuse \/ OfType(r, counter) = {} => people[r] = 0
  /\ hd_humtime \in [Sensors -> Motions]
  /\ \A d \in Sensors : d \notin Used \/ d = a2 => hd_humtime[d] = "long"
  /\ coded \in SUBSET (Sensors \cap Used) \ {{a2}}
  /\ on \in {[d \in Hddevices |-> d \in O] : O \in SUBSET (Shuttable \cap Used)}

MCInit == Unused /\ Init

MCSpec == MCInit /\ [][Next]_vars

\* Temporary timetables only come into use later, and every conditioner has its code.
MCFairInit == /\ MCInit /\ \A r \in Rooms : table[r]["temporary"] = NoTable
              /\ coded = Sensors \cap Used

MCFairSpec == MCFairInit /\ [][Next]_vars /\ Fairness
==============================================================================
