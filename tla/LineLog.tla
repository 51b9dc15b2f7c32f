-------------------------------- MODULE LineLog -------------------------------
(***************************************************************************)
(* What the asynchronous log promises its callers: lines reach the file in *)
(* the order in which they were appended, none twice, and where lines are  *)
(* left out the file says so.                                              *)
(***************************************************************************)
EXTENDS Sequences, Integers

CONSTANT Line, Notice
VARIABLES pending, written

LineLogInit == pending = <<>> /\ written = <<>>

Append1 == \E l \in Line : pending' = Append(pending, l) /\ UNCHANGED written

Write ==
  \E n \in 1..Len(pending) :
    /\ written' = written \o SubSeq(pending, 1, n)
    /\ pending' = SubSeq(pending, n + 1, Len(pending))

LeaveOut ==
  \E from \in 1..Len(pending) : \E to \in from..Len(pending) :
    /\ written' = Append(written, Notice)
    /\ pending' = SubSeq(pending, 1, from - 1) \o SubSeq(pending, to + 1, Len(pending))

LineLogSpec ==
  LineLogInit /\ [][Append1 \/ Write \/ LeaveOut]_<<pending, written>>
==============================================================================
