------------------------------- MODULE Gateway -------------------------------
(***************************************************************************)
(* What the application broker promises whatever its threads do: at most   *)
(* `Places' requests are inside at a time, a request is turned away only   *)
(* when all places are taken, a request reaches its upstream only after it *)
(* was charged to the session's budget, no more than `Budget' are charged, *)
(* and a request is denied for want of budget only when it is used up.     *)
(***************************************************************************)
EXTENDS Naturals, FiniteSets

CONSTANTS Requests, Places, Budget, Unlimited

VARIABLES phase,     \* phase[r]: how far request r has come
          charged    \* the requests charged to the budget

vars == <<phase, charged>>

Inside ==
  {r \in Requests : phase[r] \in {"inside", "charged", "forwarded", "denied", "leaving"}}

Init ==
  /\ phase = [r \in Requests |-> "outside"]
  /\ charged = {}

Move(r, from, to) ==
  /\ phase[r] = from
  /\ phase' = [phase EXCEPT ![r] = to]

Admit(r) ==
  /\ Cardinality(Inside) < Places
  /\ Move(r, "outside", "inside")
  /\ UNCHANGED charged

TurnAway(r) ==
  /\ Cardinality(Inside) = Places
  /\ Move(r, "outside", "away")
  /\ UNCHANGED charged

Charge(r) ==
  /\ Budget # Unlimited => Cardinality(charged) < Budget
  /\ Move(r, "inside", "charged")
  /\ charged' = charged \cup {r}

Deny(r) ==
  /\ Budget # Unlimited /\ Cardinality(charged) = Budget
  /\ Move(r, "inside", "denied")
  /\ UNCHANGED charged

(* An invalid request is answered without being charged.                   *)
Reject(r) ==
  /\ Move(r, "inside", "leaving")
  /\ UNCHANGED charged

Forward(r) ==
  /\ Move(r, "charged", "forwarded")
  /\ UNCHANGED charged

Answer(r) ==
  /\ \/ Move(r, "charged", "leaving")
     \/ Move(r, "forwarded", "leaving")
  /\ UNCHANGED charged

(* A place is given back after the answer, never before.                   *)
Leave(r) ==
  /\ \/ Move(r, "leaving", "gone")
     \/ Move(r, "denied", "gone")
     \/ Move(r, "away", "gone")
  /\ UNCHANGED charged

Next ==
  \E r \in Requests :
    \/ Admit(r) \/ TurnAway(r) \/ Charge(r) \/ Deny(r) \/ Reject(r)
    \/ Forward(r) \/ Answer(r) \/ Leave(r)

Spec == Init /\ [][Next]_vars
=============================================================================
