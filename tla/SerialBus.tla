------------------------------ MODULE SerialBus ------------------------------
(***************************************************************************)
(* What the mutex_obj of the comharddevice objects promise: a device       *)
(* exchange is a critical section of one mutex, every exchange comes to an *)
(* end, and nothing but its owner ends it.                                 *)
(***************************************************************************)
CONSTANTS Mutexes,  \* one per comharddevice
          Users     \* the threads

VARIABLES holders,  \* the users inside an exchange, per mutex
          over      \* the process has ended
vars == <<holders, over>>

Init == /\ holders = [m \in Mutexes |-> {}]
        /\ over = FALSE

\* A user that is in no exchange enters one under a free mutex.
Acquire(u, m) ==
  /\ ~over
  /\ holders[m] = {}
  /\ \A n \in Mutexes : u \notin holders[n]
  /\ holders' = [holders EXCEPT ![m] = {u}]
  /\ UNCHANGED over

Release(m) ==
  /\ ~over
  /\ \E u \in holders[m] : holders' = [holders EXCEPT ![m] = holders[m] \ {u}]
  /\ UNCHANGED over

\* The process ends, by returning from main or by dying, whoever is where.
End == /\ ~over
       /\ over' = TRUE
       /\ UNCHANGED holders

Next == \/ \E u \in Users, m \in Mutexes : Acquire(u, m)
        \/ \E m \in Mutexes : Release(m)
        \/ End

Spec == Init /\ [][Next]_vars
FairSpec == Spec /\ \A m \in Mutexes : WF_vars(Release(m))
==============================================================================
