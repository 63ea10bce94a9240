-------------------------- MODULE CapabilityServer --------------------------
(***************************************************************************)
(* `twl capability serve --stdio': a process that reads frames from its    *)
(* standard input, one reply for each to its standard output, strictly in  *)
(* order.  Nothing but a refusal comes before a valid hello.  The process  *)
(* ends when its input ends, when it is told to by a signal, or when its   *)
(* output is closed; a signal only sets a flag, which the reader of the    *)
(* input looks at before and after it waits.  Replies are written with     *)
(* calls that block while the output is full, which no signal ends.        *)
(*                                                                         *)
(* The peer is whoever holds the other ends of the two pipes: here one     *)
(* that sends anything and reads what it likes.  A frame is abstracted to  *)
(* its kind and its id.                                                    *)
(***************************************************************************)
EXTENDS Naturals, Sequences

CONSTANTS Ids,         \* what peers use as ids
          MaxFrames,   \* bound: frames a peer sends
          Nil          \* no id

ASSUME NoId == Nil \notin Ids

ASSUME Bound == MaxFrames \in Nat

VARIABLES sent,        \* the frames the peer has written, oldest first
          stdin,       \* the peer's end of the input: "open" or "closed"
          listening,   \* the output: the peer "reads" it, or has "stalled" with
                       \* the pipe full, or has "closed" its end
          taken,       \* how many frames are read into memory
          begun,       \* the first bytes of the next frame are
          cut,         \* the frame whose end was not read, or 0
          served,      \* how many frames are answered
          initialized, \* a hello was accepted
          upstream,    \* an invocation is under way
          executed,    \* history: the frames that led to an upstream request
          replies,     \* the frames written to the output
          ready,       \* poll has returned, the flag was not set
          signalled,   \* STDIO_SHUTDOWN_REQUESTED
          server       \* "opening" its project, "running" or "exited"

inVars == <<sent, stdin, listening>>
readVars == <<taken, begun, cut, ready>>
serveVars == <<served, initialized, upstream, executed, replies>>
vars == <<inVars, readVars, serveVars, signalled, server>>

-----------------------------------------------------------------------------
(* "garbage" is what is blank, too long, no JSON, or a hello of another    *)
(* version or form; "malformed" a list or invoke with wrong fields;        *)
(* "denied" an invoke that is refused before any upstream request;         *)
(* "unknown" another operation.                                            *)
Frame ==
  [kind : {"garbage", "hello"}, id : {Nil}]
    \cup [kind : {"malformed", "unknown"}, id : Ids \cup {Nil}]
    \cup [kind : {"list", "denied", "invoke"}, id : Ids]

(* A reply: the id it carries, if any, the number of the frame it answers, *)
(* and whether it is a success.                                            *)
Replies == [id : Ids \cup {Nil}, to : Nat, ok : BOOLEAN]

TypeOK ==
  /\ sent \in Seq(Frame)
  /\ stdin \in {"open", "closed"}
  /\ listening \in {"reads", "stalled", "closed"}
  /\ taken \in 0..Len(sent)
  /\ begun \in BOOLEAN
  /\ cut \in Nat
  /\ served \in Nat
  /\ initialized \in BOOLEAN
  /\ upstream \in BOOLEAN
  /\ executed \subseteq Nat
  /\ replies \in Seq(Replies)
  /\ ready \in BOOLEAN
  /\ signalled \in BOOLEAN
  /\ server \in {"opening", "running", "exited"}

Init ==
  /\ sent = <<>>
  /\ stdin = "open"
  /\ listening = "reads"
  /\ taken = 0
  /\ begun = FALSE
  /\ cut = 0
  /\ served = 0
  /\ initialized = FALSE
  /\ upstream = FALSE
  /\ executed = {}
  /\ replies = <<>>
  /\ ready = FALSE
  /\ signalled = FALSE
  /\ server = "opening"

-----------------------------------------------------------------------------
(* The project is authorized and read, and the handler installed, before   *)
(* the first frame is; the user may refuse, or never answer.               *)
Open ==
  /\ server = "opening"
  /\ server' = "running"
  /\ UNCHANGED <<inVars, readVars, serveVars, signalled>>

OpenFails ==
  /\ server = "opening"
  /\ server' = "exited"
  /\ UNCHANGED <<inVars, readVars, serveVars, signalled>>

(* SIGINT or SIGTERM; until the handler is there, it ends the process.     *)
Signal ==
  /\ server # "exited"
  /\ signalled' = TRUE
  /\ server' = IF server = "opening" THEN "exited" ELSE server
  /\ UNCHANGED <<inVars, readVars, serveVars>>

(* SIGKILL.                                                                *)
Kill ==
  /\ server # "exited"
  /\ server' = "exited"
  /\ UNCHANGED <<inVars, readVars, serveVars, signalled>>

-----------------------------------------------------------------------------
(* InterruptibleStdin.read, called when all that was read is served.       *)
Reading == server = "running" /\ served = taken /\ ~upstream

Unread == taken < Len(sent)

\* Mutant: the flag is not looked at once the input can be read.
PollUnchecked ==
  /\ Reading /\ ~ready
  /\ Unread \/ stdin = "closed"
  /\ ready' = TRUE
  /\ UNCHANGED <<inVars, taken, begun, cut, serveVars, signalled, server>>

(* The input can be read or has ended, and the flag is still not set.      *)
Poll ==
  /\ Reading /\ ~ready
  /\ ~signalled
  /\ Unread \/ stdin = "closed"
  /\ ready' = TRUE
  /\ UNCHANGED <<inVars, taken, begun, cut, serveVars, signalled, server>>

\* Mutant: the reader waits until its buffer is full.
ReadFull ==
  /\ Reading /\ ready
  /\ Unread /\ Len(sent) = MaxFrames
  /\ taken' = Len(sent)
  /\ begun' = FALSE
  /\ ready' = FALSE
  /\ UNCHANGED <<inVars, cut, serveVars, signalled, server>>

(* Some of the frames are read, and maybe a part of another one.           *)
Read ==
  /\ Reading /\ ready
  /\ Unread
  /\ taken' \in taken..Len(sent)
  /\ begun' \in BOOLEAN
  /\ taken' > taken \/ begun' # begun
  /\ begun' => taken' < Len(sent)
  /\ begun /\ taken' = taken => begun'
  /\ ready' = FALSE
  /\ UNCHANGED <<inVars, cut, serveVars, signalled, server>>

(* The input has ended: serve_stdio returns.                               *)
EndOfInput ==
  /\ Reading /\ ready
  /\ ~Unread /\ stdin = "closed"
  /\ server' = "exited"
  /\ UNCHANGED <<inVars, readVars, serveVars, signalled>>

\* Mutant: the signal does not wake a reader that waits for its peer.
InterruptedByInput ==
  /\ Reading /\ ~ready
  /\ signalled
  /\ Unread \/ stdin = "closed"
  /\ server' = "exited"
  /\ UNCHANGED <<inVars, readVars, serveVars, signalled>>

(* The flag is reported as the end of the input.  A frame that was being   *)
(* read is served all the same, as it is: whole if only its newline was    *)
(* missing.                                                                *)
Interrupted ==
  /\ Reading /\ ~ready
  /\ signalled
  /\ IF begun
     THEN /\ taken' = taken + 1
          /\ begun' = FALSE
          /\ cut' \in {cut, taken + 1}
          /\ UNCHANGED server
     ELSE /\ server' = "exited"
          /\ UNCHANGED <<taken, begun, cut>>
  /\ UNCHANGED <<inVars, ready, serveVars, signalled>>

-----------------------------------------------------------------------------
(* The loop of serve_stdio: the next frame, ...                            *)
Turn == served + 1

Serving == server = "running" /\ Turn <= taken /\ ~upstream

Kind == IF Turn = cut THEN "garbage" ELSE sent[Turn].kind

(* ... and its one reply: the loop waits while the output is full, and     *)
(* ends when it is closed.                                                 *)
Reply(id, success) ==
  /\ listening # "stalled"
  /\ IF listening = "reads"
     THEN /\ replies' = Append(replies, [id |-> id, to |-> Turn, ok |-> success])
          /\ served' = Turn
          /\ UNCHANGED server
     ELSE /\ server' = "exited"
          /\ UNCHANGED <<replies, served>>

Greet ==
  /\ Serving
  /\ Kind = "hello"
  /\ initialized' = TRUE
  /\ Reply(Nil, TRUE)
  /\ UNCHANGED <<inVars, readVars, upstream, executed, signalled>>

\* Mutant: a request that the broker denies is refused without an id too.
AnonymousDenials ==
  {"garbage", "denied"} \cup (IF initialized THEN {"malformed"} ELSE {})

(* Frames that cannot be attributed are refused without an id.             *)
Anonymous == {"garbage"} \cup (IF initialized THEN {"malformed"} ELSE {})

Refuse ==
  /\ Serving
  /\ Kind # "hello"
  /\ initialized => Kind \notin {"list", "invoke"}
  /\ Reply(IF Kind \in Anonymous THEN Nil ELSE sent[Turn].id, FALSE)
  /\ UNCHANGED <<inVars, readVars, initialized, upstream, executed, signalled>>

List ==
  /\ Serving
  /\ initialized
  /\ Kind = "list"
  /\ Reply(sent[Turn].id, TRUE)
  /\ UNCHANGED <<inVars, readVars, initialized, upstream, executed, signalled>>

\* Mutant: an invocation is not held back until the handshake.
InvokeUngated ==
  /\ Serving
  /\ Kind = "invoke"
  /\ upstream' = TRUE
  /\ executed' = executed \cup {Turn}
  /\ UNCHANGED <<inVars, readVars, served, initialized, replies, signalled, server>>

(* CapabilityBroker::invoke sends the request upstream, ...                *)
Invoke ==
  /\ Serving
  /\ initialized
  /\ Kind = "invoke"
  /\ upstream' = TRUE
  /\ executed' = executed \cup {Turn}
  /\ UNCHANGED <<inVars, readVars, served, initialized, replies, signalled, server>>

\* Mutant: a failed invocation is not answered.
FinishSilently(success) ==
  /\ server = "running"
  /\ upstream
  /\ upstream' = FALSE
  /\ IF success
     THEN Reply(sent[Turn].id, TRUE)
     ELSE served' = Turn /\ UNCHANGED <<replies, server>>
  /\ UNCHANGED <<inVars, readVars, initialized, executed, signalled>>

(* ... and answers with what came back, or with why nothing can be given.  *)
Finish(success) ==
  /\ server = "running"
  /\ upstream
  /\ upstream' = FALSE
  /\ Reply(sent[Turn].id, success)
  /\ UNCHANGED <<inVars, readVars, initialized, executed, signalled>>

Serve ==
  \/ Poll \/ Read \/ EndOfInput \/ Interrupted
  \/ Greet \/ Refuse \/ List \/ Invoke
  \/ \E success \in BOOLEAN : Finish(success)

-----------------------------------------------------------------------------
(* A peer that sends anything, and closes what it likes when it likes.     *)
Send(f) ==
  /\ stdin = "open"
  /\ Len(sent) < MaxFrames
  /\ sent' = Append(sent, f)
  /\ UNCHANGED <<stdin, listening, readVars, serveVars, signalled, server>>

CloseInput ==
  /\ stdin = "open"
  /\ stdin' = "closed"
  /\ UNCHANGED <<sent, listening, readVars, serveVars, signalled, server>>

Listen(from, to) ==
  /\ listening \in from
  /\ listening' = to
  /\ UNCHANGED <<sent, stdin, readVars, serveVars, signalled, server>>

StopReading == Listen({"reads"}, "stalled")

ReadOn == Listen({"stalled"}, "reads")

StopListening == Listen({"reads", "stalled"}, "closed")

Peer ==
  \/ \E f \in Frame : Send(f)
  \/ CloseInput
  \/ StopReading \/ ReadOn \/ StopListening

Next == Serve \/ Open \/ OpenFails \/ Signal \/ Kill \/ Peer

Spec == Init /\ [][Next]_vars

(* The system runs the process, and the HTTP agent's timeout bounds every  *)
(* upstream request.                                                       *)
FairSpec == Spec /\ WF_vars(Serve)

-----------------------------------------------------------------------------
(* Each frame is answered once, in the order they came, under its own id   *)
(* or none, and successfully only if it asks for something (the `continue' *)
(* of every path through the loop follows exactly one write).              *)
RepliesMatch ==
  \A i \in DOMAIN replies :
    /\ replies[i].to = i
    /\ replies[i].id \in {Nil, sent[i].id}
    /\ replies[i].ok => sent[i].kind \in {"hello", "list", "invoke"}

(* No request goes upstream unless a hello came before it.                 *)
HandshakeFirst ==
  \A i \in executed :
    sent[i].kind = "invoke" /\ \E h \in 1 .. i - 1 : sent[h].kind = "hello"

(* tests/capability.rs: "capability service emitted a frame after SIGTERM" *)
(* for a request that was written after the signal.                        *)
RefusesAfterSignal ==
  \A n \in 1 .. MaxFrames :
    [](signalled /\ Len(sent) < n => [](Len(replies) < n))

(* A frame written after the signal is neither answered nor executed,      *)
(* unless the reader was past its second look at the flag when it came.    *)
LateFramesRefused ==
  \A n \in 1 .. MaxFrames :
    [](signalled /\ ~ready /\ Len(sent) < n =>
         [](Len(replies) < n /\ \A i \in executed : i < n))

(* The peer does not leave the output full: nobody promises more of a      *)
(* server that is held up in a write.                                      *)
PeerReads == <>[](listening # "stalled")

(* A signal ends the process whatever its peer sends or holds back, unless *)
(* it leaves the output full; so does the end of the input, once the       *)
(* project is open.                                                        *)
ShutsDown ==
  PeerReads =>
    /\ signalled ~> server = "exited"
    /\ stdin = "closed" /\ server = "running" ~> server = "exited"

(* A peer that reads and waits is answered as long as the process lives.   *)
EveryFrameAnswered ==
  PeerReads =>
    \A n \in 1 .. MaxFrames :
      Len(sent) >= n /\ server = "running" ~> served >= n \/ server = "exited"
=============================================================================
