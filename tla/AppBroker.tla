----------------------------- MODULE AppBroker -----------------------------
(***************************************************************************)
(* The loopback broker of `twl run' and `twl demo': tiny_http queues the   *)
(* requests of the application, one listener thread takes them in order    *)
(* and starts a worker thread for each while no more than MaxInFlight are  *)
(* at work.  A worker resolves the request, reads its body, reserves a     *)
(* unit of the session's budget and has the shared broker core execute it. *)
(* The parent waits for the child it has launched, looks at the counter,   *)
(* reports a session that nobody used and exits, whatever the threads are  *)
(* doing meanwhile.                                                        *)
(*                                                                         *)
(* Paths, tokens, header and body bytes are abstracted to the first thing  *)
(* that is wrong with a request.                                           *)
(***************************************************************************)
EXTENDS Naturals, FiniteSets, Sequences

CONSTANTS Requests,    \* bound: the requests clients send in the session
          MaxInFlight, \* MAX_IN_FLIGHT
          Budget,      \* max_requests, or Nil
          Nil          \* no budget

ASSUME Limits ==
  /\ MaxInFlight \in Nat
  /\ Nil \notin Nat
  /\ Budget \in Nat \cup {Nil}

ASSUME FinitelyMany == IsFiniteSet(Requests)

VARIABLES queue,     \* requests tiny_http has read, oldest first
          stage,     \* stage[r]: where request r is
          flaw,      \* flaw[r]: the first thing the code finds wrong with r
          answer,    \* answer[r]: the response to r
          active,    \* the counter of requests at work
          seen,      \* the counter behind Handle.seen and the budget
          charged,   \* history: the requests counted by `seen'
          forwarded, \* history: the requests handed to the HTTP agent
          session,   \* the child is running or has exited; the parent has
                     \* looked at `seen', or has exited
          notice,    \* "no authorized request reached the broker": due or printed
          heard      \* history: something had been forwarded when the parent looked

vars == <<queue, stage, flaw, answer, active, seen, charged, forwarded,
          session, notice, heard>>

counters == <<active, seen, charged, forwarded>>

parent == <<session, notice, heard>>

-----------------------------------------------------------------------------
(* What resolve_parts, read_limited and validate_headers refuse, in order. *)
Flaws == {"none", "target", "body", "header"}

(* 404 stands for all of resolve_parts' answers: 400 and 405 too.          *)
Answers == {"none", "404", "413", "400", "429", "502", "503", "upstream"}

(* The listener deals with a request it has to refuse in three steps.      *)
AtListener == {"over", "refuse"}

(* The stages of a worker thread, which holds an InFlight guard.           *)
AtWork == {"resolve", "body", "reserve", "execute", "upstream", "answered"}

Working == {r \in Requests : stage[r] \in AtWork}

(* Counted without a guard, for a moment.                                  *)
Over == {r \in Requests : stage[r] = "over"}

ListenerBusy == \E r \in Requests : stage[r] \in AtListener

TypeOK ==
  /\ queue \in Seq(Requests)
  /\ stage \in [Requests -> {"unsent", "queued", "ended"} \cup AtListener \cup AtWork]
  /\ flaw \in [Requests -> Flaws]
  /\ answer \in [Requests -> Answers]
  /\ active \in Nat
  /\ seen \in Nat
  /\ charged \subseteq Requests
  /\ forwarded \subseteq Requests
  /\ session \in {"running", "exited", "looked", "closed"}
  /\ notice \in {"none", "due", "printed"}
  /\ heard \in BOOLEAN

Init ==
  /\ queue = <<>>
  /\ stage = [r \in Requests |-> "unsent"]
  /\ flaw = [r \in Requests |-> "none"]
  /\ answer = [r \in Requests |-> "none"]
  /\ active = 0
  /\ seen = 0
  /\ charged = {}
  /\ forwarded = {}
  /\ session = "running"
  /\ notice = "none"
  /\ heard = FALSE

-----------------------------------------------------------------------------
(* The application, or a process it has left behind, sends a request.      *)
Send(r, f) ==
  /\ session # "closed"
  /\ stage[r] = "unsent"
  /\ stage' = [stage EXCEPT ![r] = "queued"]
  /\ flaw' = [flaw EXCEPT ![r] = f]
  /\ queue' = Append(queue, r)
  /\ UNCHANGED <<answer, counters, parent>>

(* The listener counts the next request and starts its worker, which now   *)
(* holds the guard, unless there are enough of them already.               *)
Receive(r) ==
  /\ session # "closed"
  /\ ~ListenerBusy
  /\ queue # <<>> /\ r = Head(queue)
  /\ queue' = Tail(queue)
  /\ active' = active + 1
  /\ stage' = [stage EXCEPT ![r] = IF active >= MaxInFlight THEN "over" ELSE "resolve"]
  /\ UNCHANGED <<flaw, answer, seen, charged, forwarded, parent>>

\* Mutant: the refused request stays counted.
UncountForgotten(r) ==
  /\ session # "closed"
  /\ stage[r] = "over"
  /\ stage' = [stage EXCEPT ![r] = "refuse"]
  /\ UNCHANGED <<queue, flaw, answer, active, seen, charged, forwarded, parent>>

Uncount(r) ==
  /\ session # "closed"
  /\ stage[r] = "over"
  /\ active' = active - 1
  /\ stage' = [stage EXCEPT ![r] = "refuse"]
  /\ UNCHANGED <<queue, flaw, answer, seen, charged, forwarded, parent>>

(* The refusal is written, and the rest of the request read, by the        *)
(* listener itself.                                                        *)
Refuse(r) ==
  /\ session # "closed"
  /\ stage[r] = "refuse"
  /\ answer' = [answer EXCEPT ![r] = "503"]
  /\ stage' = [stage EXCEPT ![r] = "ended"]
  /\ UNCHANGED <<queue, flaw, counters, parent>>

-----------------------------------------------------------------------------
(* A worker moves on, or answers.                                          *)
Proceed(r, from, to) ==
  /\ session # "closed"
  /\ stage[r] = from
  /\ stage' = [stage EXCEPT ![r] = to]
  /\ UNCHANGED <<queue, flaw, answer, parent>>

Respond(r, from, status) ==
  /\ session # "closed"
  /\ stage[r] = from
  /\ stage' = [stage EXCEPT ![r] = "answered"]
  /\ answer' = [answer EXCEPT ![r] = status]
  /\ UNCHANGED <<queue, flaw, parent>>

Resolve(r) ==
  /\ \/ flaw[r] = "target" /\ Respond(r, "resolve", "404")
     \/ flaw[r] \in {"none", "body", "header"} /\ Proceed(r, "resolve", "body")
  /\ UNCHANGED counters

ReadBody(r) ==
  /\ \/ flaw[r] = "body" /\ Respond(r, "body", "413")
     \/ flaw[r] # "body" /\ Proceed(r, "body", "reserve")
  /\ UNCHANGED counters

\* Mutant: the last unit is given twice.
ReserveOneMore(r) ==
  /\ \/ /\ Budget # Nil => seen <= Budget
        /\ Proceed(r, "reserve", "execute")
        /\ seen' = seen + 1
        /\ charged' = charged \cup {r}
     \/ /\ Budget # Nil /\ seen > Budget
        /\ Respond(r, "reserve", "429")
        /\ UNCHANGED <<seen, charged>>
  /\ UNCHANGED <<active, forwarded>>

\* Mutant: a worker waits for a unit.
ReserveWaiting(r) ==
  /\ Budget # Nil => seen < Budget
  /\ Proceed(r, "reserve", "execute")
  /\ seen' = seen + 1
  /\ charged' = charged \cup {r}
  /\ UNCHANGED <<active, forwarded>>

(* reserve: the comparison and the increment are one atomic step.          *)
Reserve(r) ==
  /\ \/ /\ Budget # Nil => seen < Budget
        /\ Proceed(r, "reserve", "execute")
        /\ seen' = seen + 1
        /\ charged' = charged \cup {r}
     \/ /\ Budget # Nil /\ seen >= Budget
        /\ Respond(r, "reserve", "429")
        /\ UNCHANGED <<seen, charged>>
  /\ UNCHANGED <<active, forwarded>>

(* Broker::execute_route looks at the headers, which the proxy has not     *)
(* done; the other checks repeat what resolve_parts has found in order.    *)
Execute(r) ==
  /\ \/ /\ flaw[r] = "header"
        /\ Respond(r, "execute", "400")
        /\ UNCHANGED forwarded
     \/ /\ flaw[r] # "header"
        /\ Proceed(r, "execute", "upstream")
        /\ forwarded' = forwarded \cup {r}
  /\ UNCHANGED <<active, seen, charged>>

(* The agent answers within its timeout: with the upstream's response, or  *)
(* with none, or with one that is too large or carries a credential.       *)
Complete(r, status) ==
  /\ Respond(r, "upstream", status)
  /\ UNCHANGED counters

(* The worker ends and drops its guard.                                    *)
Release(r) ==
  /\ active' = active - 1
  /\ Proceed(r, "answered", "ended")
  /\ UNCHANGED <<seen, charged, forwarded>>

-----------------------------------------------------------------------------
(* The child the parent waits for ends; processes it started may go on.    *)
ChildExits ==
  /\ session = "running"
  /\ session' = "exited"
  /\ UNCHANGED <<queue, stage, flaw, answer, counters, notice, heard>>

\* Mutant: the parent looks at the requests at work.
LookAtActive ==
  /\ session = "exited"
  /\ session' = "looked"
  /\ notice' = IF active = 0 THEN "due" ELSE "none"
  /\ heard' = (forwarded # {})
  /\ UNCHANGED <<queue, stage, flaw, answer, counters>>

(* The parent reads the counter.  The threads go on: a request that a      *)
(* left-behind process has under way may be charged from here on.          *)
Look ==
  /\ session = "exited"
  /\ session' = "looked"
  /\ notice' = IF seen = 0 THEN "due" ELSE "none"
  /\ heard' = (forwarded # {})
  /\ UNCHANGED <<queue, stage, flaw, answer, counters>>

(* The parent prints the notice.                                           *)
Tell ==
  /\ session = "looked" /\ notice = "due"
  /\ notice' = "printed"
  /\ UNCHANGED <<queue, stage, flaw, answer, counters, session, heard>>

(* It drops its handle, which ends the listener, and exits, which ends the *)
(* workers.                                                                *)
Close ==
  /\ session = "looked" /\ notice # "due"
  /\ session' = "closed"
  /\ UNCHANGED <<queue, stage, flaw, answer, counters, notice, heard>>

Listen == \E r \in Requests : Receive(r) \/ Uncount(r) \/ Refuse(r)

Work(r) ==
  \/ Resolve(r) \/ ReadBody(r) \/ Reserve(r) \/ Execute(r)
  \/ \E status \in {"upstream", "502"} : Complete(r, status)
  \/ Release(r)

Next ==
  \/ \E r \in Requests : (\E f \in Flaws : Send(r, f)) \/ Work(r)
  \/ Listen
  \/ ChildExits \/ Look \/ Tell \/ Close

Spec == Init /\ [][Next]_vars

(* Threads are scheduled fairly, the agent's timeout bounds the upstream,  *)
(* and clients send what they announced and read what they are sent: the   *)
(* code sets no limit on how long they take.                               *)
FairSpec ==
  /\ Spec
  /\ WF_vars(Listen)
  /\ \A r \in Requests : WF_vars(Work(r))

-----------------------------------------------------------------------------
(* The counter is exact: a unit for each guard that is alive and one for   *)
(* the request the listener is about to refuse.  A unit too many would     *)
(* shrink the broker for the rest of the session, one too few would let it *)
(* grow (AtomicUsize against InFlight and the explicit fetch_sub).         *)
SlotsAccounted == active = Cardinality(Working) + Cardinality(Over)

(* The notice is printed only if nothing had been forwarded when the       *)
(* parent looked, although it looks without waiting for the workers; and   *)
(* it is printed whenever the session ends with nothing charged.  (What is *)
(* charged after the look is not in it: see Look.)                         *)
NoticeIsTrue ==
  /\ notice = "printed" => ~heard
  /\ session = "closed" /\ charged = {} => notice = "printed"

(* CONTRIBUTING.md: "Invalid requests fail before consuming the session    *)
(* request budget."                                                        *)
InvalidRequestsAreFree == \A r \in charged : answer[r] # "400"

(* The broker is a Gateway: see there.                                     *)
PhaseOf(r) ==
  CASE stage[r] \in {"unsent", "queued"} -> "outside"
    [] stage[r] \in AtListener -> "away"
    [] stage[r] \in {"resolve", "body", "reserve"} -> "inside"
    [] stage[r] = "execute" -> "charged"
    [] stage[r] = "upstream" -> "forwarded"
    [] stage[r] = "answered" -> IF answer[r] = "429" THEN "denied" ELSE "leaving"
    [] stage[r] = "ended" -> "gone"

Gate == INSTANCE Gateway
  WITH Places <- MaxInFlight, Unlimited <- Nil,
       phase <- [r \in Requests |-> PhaseOf(r)]

(* Whatever the listener and the workers do, at most MaxInFlight requests  *)
(* are at work, 503 is given only when that many are, nothing is forwarded *)
(* without having been charged, no more is charged than the budget, and    *)
(* 429 is given only when the budget is used up.                           *)
ImplementsGateway == Gate!Spec

(* Whoever asks is answered, if the session lasts.                         *)
Answered ==
  \A r \in Requests : stage[r] = "queued" ~> (answer[r] # "none" \/ session = "closed")
=============================================================================
