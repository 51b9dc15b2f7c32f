------------------------------ MODULE RtuExchange ------------------------------
(***************************************************************************)
(* What the callers of a protocol driver rely on, whichever protocol the   *)
(* device speaks: an exchange is begun, ends after a while, and is         *)
(* reported as a success only if the device really answered it.            *)
(***************************************************************************)
EXTENDS Naturals

CONSTANT MaxExchanges  \* bound: number of exchanges

VARIABLES
  state,     \* "closed", "busy", "fine", "failed"
  exchange,  \* number of the present exchange
  answered   \* exchange whose whole answer was reported, 0 if none

vars == <<state, exchange, answered>>

Init == state = "closed" /\ exchange = 0 /\ answered = 0

Begin ==
  /\ state = "closed" /\ exchange < MaxExchanges
  /\ exchange' = exchange + 1
  /\ state' \in {"busy", "failed"}
  /\ UNCHANGED answered

Succeed ==
  /\ state = "busy"
  /\ state' = "fine" /\ answered' = exchange
  /\ UNCHANGED exchange

GiveUp ==
  /\ state = "busy"
  /\ state' = "failed"
  /\ UNCHANGED <<exchange, answered>>

End ==
  /\ state \in {"fine", "failed"}
  /\ state' = "closed" /\ answered' = 0
  /\ UNCHANGED exchange

Finish == Succeed \/ GiveUp \/ End

Next == Begin \/ Finish

Spec == Init /\ [][Next]_vars /\ WF_vars(Finish)
==============================================================================
