--------------------------- MODULE CapabilityCalls ---------------------------
(***************************************************************************)
(* What an adapter promises the tool calls of its model: a call reaches    *)
(* its upstream at most once, it is answered only after it did, and it     *)
(* ends in one way only.  A call that failed may still be executed later,  *)
(* one that was refused or cancelled may not.                              *)
(***************************************************************************)
CONSTANT Calls

VARIABLES call,       \* call[c]: what the caller of c has been told
          executed    \* the calls that have reached their upstream

vars == <<call, executed>>

Init ==
  /\ call = [c \in Calls |-> "idle"]
  /\ executed = {}

Become(c, from, to) ==
  /\ call[c] \in from
  /\ call' = [call EXCEPT ![c] = to]
  /\ UNCHANGED executed

Ask(c) == Become(c, {"idle"}, "waiting")

Execute(c) ==
  /\ call[c] \in {"waiting", "aborting", "failed"}
  /\ c \notin executed
  /\ executed' = executed \cup {c}
  /\ UNCHANGED call

Answer(c) == c \in executed /\ Become(c, {"waiting"}, "answered")

(* An error of the server: the call was not executed, or in vain.          *)
Decline(c) == Become(c, {"waiting"}, "refused")

(* Whatever ends the session ends all the calls that wait, each in its way *)
(* and at once.                                                            *)
End ==
  /\ call' \in [Calls -> {"idle", "waiting", "aborting", "answered", "refused",
                          "failed", "cancelled"}]
  /\ \A c \in Calls :
       \/ call'[c] = call[c]
       \/ call[c] \in {"idle", "waiting"} /\ call'[c] \in {"aborting", "failed", "cancelled"}
       \/ call[c] = "aborting" /\ call'[c] = "cancelled"
  /\ UNCHANGED executed

Next ==
  \/ \E c \in Calls : Ask(c) \/ Execute(c) \/ Answer(c) \/ Decline(c)
  \/ End

Spec == Init /\ [][Next]_vars
=============================================================================
