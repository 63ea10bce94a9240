-------------------------- MODULE CapabilitySession --------------------------
(***************************************************************************)
(* The DeepSeek Harness adapter and the capability server it owns: a       *)
(* ProtocolClient that matches replies to calls by their ids, and a        *)
(* TwlProcess that starts the server, lets calls be cancelled and disposes *)
(* of the process in steps: the end of its input, SIGTERM, SIGKILL.  The   *)
(* adapter runs on one event loop: its handlers are atomic, and they may   *)
(* come in any order: data, exit, timers, abort signals, disposal.         *)
(***************************************************************************)
EXTENDS CapabilityServer

CONSTANTS Calls,      \* tool calls of the model, by their ids
          ListId      \* the id of the request for the capabilities

ASSUME IdsOfCalls == Calls \subseteq Ids /\ ListId \in Ids \ Calls

VARIABLES start,      \* how far TwlProcess.#start is
          closed,     \* ProtocolClient.#closedError is set
          pending,    \* ProtocolClient.#pending
          delivered,  \* how many replies the adapter has read
          call,       \* call[c]: "idle", "waiting", "aborting", or what its
                      \* caller was told: "answered", "refused", "failed" or
                      \* "cancelled"
          disposal,   \* what TwlProcess.#dispose waits for
          exitSeen    \* the child's exit event has been handled

clientVars == <<start, closed, pending, delivered, call, disposal, exitSeen>>
sessionVars == <<vars, clientVars>>

-----------------------------------------------------------------------------
HelloFrame == [kind |-> "hello", id |-> Nil]

(* #start has spawned the child and written the hello.  A child that could *)
(* not be started is one that fails to open its project.                   *)
SessionInit ==
  /\ sent = <<HelloFrame>>
  /\ stdin = "open"
  /\ listening = "reads"
  /\ taken = 0 /\ begun = FALSE /\ cut = 0 /\ ready = FALSE
  /\ served = 0 /\ initialized = FALSE /\ upstream = FALSE
  /\ executed = {} /\ replies = <<>>
  /\ signalled = FALSE
  /\ server = "opening"
  /\ start = "hello"
  /\ closed = FALSE
  /\ pending = {}
  /\ delivered = 0
  /\ call = [c \in Calls |-> "idle"]
  /\ disposal = "none"
  /\ exitSeen = FALSE

-----------------------------------------------------------------------------
\* Mutant: a caller that gave up is told so before the disposal.
ToldAtOnce(aborted, over) ==
  [c \in Calls |->
     IF c \in aborted THEN "cancelled" ELSE IF c \in pending THEN "failed" ELSE call[c]]

\* Mutant: the calls are forgotten, their callers told nothing.
ToldNothing(aborted, over) ==
  [c \in Calls |->
     IF c \in aborted \/ call[c] = "aborting"
     THEN IF over THEN "cancelled" ELSE "aborting"
     ELSE call[c]]

(* ProtocolClient.close: whoever waits is told that the session is over,   *)
(* except that a call that was aborted waits for the disposal first.       *)
Told(aborted, over) ==
  [c \in Calls |->
     IF c \in aborted \/ call[c] = "aborting"
     THEN IF over THEN "cancelled" ELSE "aborting"
     ELSE IF c \in pending THEN "failed" ELSE call[c]]

CloseClient ==
  /\ closed' = TRUE
  /\ pending' = {}
  /\ start' = IF start \in {"hello", "list"} THEN "failed" ELSE start

(* TwlProcess.#dispose up to its first wait, which is over at once when    *)
(* the child is known to have exited.                                      *)
Dispose(aborted) ==
  /\ disposal = "none"
  /\ CloseClient
  /\ disposal' = IF exitSeen THEN "done" ELSE "eof"
  /\ call' = Told(aborted, exitSeen)
  /\ stdin' = "closed"
  /\ UNCHANGED <<delivered, exitSeen,
                 sent, listening, readVars, serveVars, signalled, server>>

(* The channel fails: #start, if it is not done, disposes of the process;  *)
(* otherwise the process is left to whoever disposes of the adapter.       *)
Fail ==
  IF start \in {"hello", "list"}
  THEN Dispose({})
  ELSE /\ CloseClient
       /\ call' = Told({}, FALSE)
       /\ UNCHANGED <<disposal, delivered, exitSeen, vars>>

-----------------------------------------------------------------------------
Write(kind, id) ==
  /\ sent' = Append(sent, [kind |-> kind, id |-> id])
  /\ UNCHANGED <<stdin, listening, readVars, serveVars, signalled, server>>

(* TwlProcess.invoke, on an adapter that is ready: an invocation, one that *)
(* the server will deny, one that is too long for the server, ...          *)
Call(c, kind) ==
  /\ start = "ready" /\ disposal = "none" /\ ~closed
  /\ call[c] = "idle"
  /\ call' = [call EXCEPT ![c] = "waiting"]
  /\ pending' = pending \cup {c}
  /\ Write(kind, IF kind = "garbage" THEN Nil ELSE c)
  /\ UNCHANGED <<start, closed, delivered, disposal, exitSeen>>

(* ... one that is too long for the adapter, or that comes too late.       *)
CallFails(c) ==
  /\ start = "ready"
  /\ call[c] = "idle"
  /\ call' = [call EXCEPT ![c] = "failed"]
  /\ UNCHANGED <<start, closed, pending, delivered, disposal, exitSeen, vars>>

-----------------------------------------------------------------------------
(* ProtocolClient.#onLine: the next reply, by its id; without one it is    *)
(* the reply to the hello.                                                 *)
Incoming == replies[delivered + 1]

Arrives == delivered < Len(replies) /\ ~closed

Consume ==
  /\ delivered' = delivered + 1
  /\ UNCHANGED <<closed, disposal, exitSeen>>

Greeted ==
  /\ Arrives
  /\ Incoming.id = Nil /\ start = "hello" /\ Incoming.ok
  /\ start' = "list"
  /\ pending' = pending \cup {ListId}
  /\ Write("list", ListId)
  /\ Consume
  /\ UNCHANGED call

Listed ==
  /\ Arrives
  /\ Incoming.id = ListId /\ ListId \in pending /\ Incoming.ok
  /\ start' = "ready"
  /\ pending' = pending \ {ListId}
  /\ Consume
  /\ UNCHANGED <<call, vars>>

Answered(c) ==
  /\ Arrives
  /\ Incoming.id = c /\ c \in pending
  /\ call' = [call EXCEPT ![c] = IF Incoming.ok THEN "answered" ELSE "refused"]
  /\ pending' = pending \ {c}
  /\ Consume
  /\ UNCHANGED <<start, vars>>

(* The handshake is refused, or nothing in the adapter waits for this.     *)
Unexpected ==
  /\ Arrives
  /\ \/ Incoming.id = Nil /\ ~(start = "hello" /\ Incoming.ok)
     \/ Incoming.id # Nil /\ Incoming.id \notin pending
     \/ Incoming.id = ListId /\ ~Incoming.ok
  /\ Fail

(* The standard output ends, or the input is broken.                       *)
Lost ==
  /\ server = "exited"
  /\ ~closed
  /\ Fail

-----------------------------------------------------------------------------
(* A caller gives up.                                                      *)
Abort(c) ==
  /\ call[c] = "waiting"
  /\ Dispose({c})

(* A caller that has given up before the call is written.                  *)
AbortEarly(c) ==
  /\ start = "ready"
  /\ call[c] = "idle"
  /\ Dispose({c})

(* The plugin is unloaded or replaced.                                     *)
Unload == Dispose({})

(* #dispose is over: the callers that gave up are told so.                 *)
Disposed ==
  /\ disposal' = "done"
  /\ call' = Told({}, TRUE)

(* The exit event.                                                         *)
ExitEvent ==
  /\ server = "exited"
  /\ ~exitSeen
  /\ exitSeen' = TRUE
  /\ CloseClient
  /\ IF disposal # "none" \/ start \in {"hello", "list"}
     THEN Disposed
     ELSE call' = Told({}, FALSE) /\ UNCHANGED disposal
  /\ stdin' = IF start \in {"hello", "list"} THEN "closed" ELSE stdin
  /\ UNCHANGED <<delivered,
                 sent, listening, readVars, serveVars, signalled, server>>

\* Mutant: the server is waited for as long as its project is not open.
TerminateWhenOpen ==
  /\ disposal = "eof" /\ ~exitSeen
  /\ server # "opening"
  /\ disposal' = "term"
  /\ IF server = "exited" THEN UNCHANGED vars ELSE Signal
  /\ UNCHANGED <<start, closed, pending, delivered, call, exitSeen>>

(* The grace period is over without an exit event.                         *)
Terminate ==
  /\ disposal = "eof" /\ ~exitSeen
  /\ disposal' = "term"
  /\ IF server = "exited" THEN UNCHANGED vars ELSE Signal
  /\ UNCHANGED <<start, closed, pending, delivered, call, exitSeen>>

\* Mutant: SIGTERM again.
DestroyPolitely ==
  /\ disposal = "term" /\ ~exitSeen
  /\ disposal' = "kill"
  /\ IF server = "exited" THEN UNCHANGED vars ELSE Signal
  /\ UNCHANGED <<start, closed, pending, delivered, call, exitSeen>>

Destroy ==
  /\ disposal = "term" /\ ~exitSeen
  /\ disposal' = "kill"
  /\ IF server = "exited" THEN UNCHANGED vars ELSE Kill
  /\ UNCHANGED <<start, closed, pending, delivered, call, exitSeen>>

GiveUp ==
  /\ disposal = "kill" /\ ~exitSeen
  /\ Disposed
  /\ UNCHANGED <<start, closed, pending, delivered, exitSeen, vars>>

-----------------------------------------------------------------------------
(* The event loop and its timers.                                          *)
Loop ==
  \/ Greeted \/ Listed \/ (\E c \in Calls : Answered(c)) \/ Unexpected
  \/ Lost \/ ExitEvent

Escalate == Terminate \/ Destroy \/ GiveUp

Model ==
  \/ \E c \in Calls :
       \/ \E kind \in {"invoke", "denied", "garbage"} : Call(c, kind)
       \/ CallFails(c) \/ Abort(c) \/ AbortEarly(c)
  \/ Unload

(* The server by itself, its user, and whoever else sends it a signal.     *)
Child == (Serve \/ Open \/ OpenFails \/ Signal \/ Kill) /\ UNCHANGED clientVars

SessionNext == Loop \/ Escalate \/ Model \/ Child

SessionSpec == SessionInit /\ [][SessionNext]_sessionVars

(* The child and the event loop run, and timers fire.                      *)
SessionFair ==
  /\ SessionSpec
  /\ WF_sessionVars(Serve /\ UNCHANGED clientVars)
  /\ WF_sessionVars(Loop)
  /\ WF_sessionVars(Escalate)

-----------------------------------------------------------------------------
(* Once the disposal is over, no server is left behind (#dispose resolves  *)
(* after the exit, or after SIGKILL).                                      *)
DisposedIsGone == disposal = "done" => server = "exited"

(* The channel breaks by itself only for a reason: the server is gone or   *)
(* told to go, or a call was longer than what it reads.  The correlation   *)
(* of replies and calls never is one.                                      *)
CloseHasCause ==
  closed /\ disposal = "none" =>
    \/ server = "exited" \/ signalled
    \/ \E i \in DOMAIN sent : sent[i].kind = "garbage"

(* What the adapter tells its callers is true: executed once at most, an   *)
(* answer only to what was executed, nothing executed after it was said to *)
(* be refused or cancelled.                                                *)
Promise == INSTANCE CapabilityCalls
  WITH executed <- {c \in Calls : \E i \in executed : sent[i].id = c}

ImplementsCalls == Promise!Spec

(* Every caller is told something in the end.                              *)
CallsSettle ==
  \A c \in Calls : call[c] \in {"waiting", "aborting"} ~> call[c] \notin {"waiting", "aborting"}

(* A disposal ends, however the server behaves.                            *)
DisposalEnds == disposal # "none" ~> disposal = "done"
=============================================================================
