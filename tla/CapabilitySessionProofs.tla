---------------------- MODULE CapabilitySessionProofs ----------------------
(***************************************************************************)
(* The adapter and its server together, for any number of calls: what      *)
(* callers are told is true, no server outlives a disposal, and the        *)
(* channel does not break by itself.  The server's invariant holds of it   *)
(* as it runs in a session; the adapter's ties its pending calls to the    *)
(* frames that have no reply yet.                                          *)
(***************************************************************************)
EXTENDS CapabilityServerProofs, CapabilitySession

CallStates ==
  {"idle", "waiting", "aborting", "answered", "refused", "failed", "cancelled"}

ClientTypeOK ==
  /\ start \in {"hello", "list", "ready", "failed"}
  /\ closed \in BOOLEAN
  /\ pending \subseteq Calls \cup {ListId}
  /\ delivered \in Nat
  /\ call \in [Calls -> CallStates]
  /\ disposal \in {"none", "eof", "term", "kill", "done"}
  /\ exitSeen \in BOOLEAN

(* Nobody is told that it is over before it is.                            *)
GoneInv ==
  \/ server = "exited"
  \/ /\ ~exitSeen /\ disposal \notin {"kill", "done"}
     /\ \A c \in Calls : call[c] # "cancelled"

(* What the adapter has written: the hello, the request for the list, and  *)
(* a frame for each call, which may be too long to carry its id.           *)
ListFrame == [kind |-> "list", id |-> ListId]

SentInv ==
  /\ Len(sent) >= 1 /\ sent[1] = HelloFrame
  /\ Len(sent) >= 2 => sent[2] = ListFrame
  /\ \A i \in 3 .. Len(sent) :
       \/ sent[i].kind = "garbage" /\ sent[i].id = Nil
       \/ /\ sent[i].kind \in {"invoke", "denied"}
          /\ sent[i].id \in Calls /\ call[sent[i].id] # "idle"
  /\ \A i, j \in 3 .. Len(sent) : i # j /\ sent[i].id = sent[j].id => sent[i].id = Nil

StartInv ==
  /\ start = "hello" => Len(sent) = 1 /\ delivered = 0
  /\ start = "list" => Len(sent) = 2 /\ delivered = 1
  /\ start = "ready" => Len(sent) >= 2 /\ delivered >= 2
  /\ start \in {"hello", "list"} =>
       ~closed /\ disposal = "none" /\ \A c \in Calls : call[c] = "idle"
  /\ start = "failed" => closed
  /\ ListId \in pending => start = "list"

ClosedInv ==
  /\ closed => pending = {}
  /\ disposal # "none" => closed

(* Who has no reply yet is pending, as long as the channel is open.        *)
WaitingInv == \A c \in Calls : c \in pending <=> call[c] = "waiting"

PendingInv ==
  ~closed => \A i \in delivered + 1 .. Len(sent) : sent[i].id \in pending \cup {Nil}

SettledInv ==
  /\ delivered <= Len(replies)
  /\ \A c \in Calls :
       call[c] \in {"answered", "refused"} => \E i \in 1 .. delivered : sent[i].id = c

SessionInv ==
  /\ IInv /\ ClientTypeOK
  /\ GoneInv /\ SentInv /\ StartInv /\ ClosedInv /\ WaitingInv /\ PendingInv /\ SettledInv
  /\ CloseHasCause

-----------------------------------------------------------------------------
LEMMA SessionInitInv == SessionInit => SessionInv
<1> SUFFICES ASSUME SessionInit PROVE SessionInv
  OBVIOUS
<1>1. HelloFrame \in Frame
  BY DEF HelloFrame, Frame
<1>2. TypeOK
  <2>1. <<HelloFrame>> \in Seq(Frame) /\ Len(<<HelloFrame>>) = 1 /\ <<>> \in Seq(Replies)
    BY <1>1
  <2>2. sent \in Seq(Frame) /\ replies \in Seq(Replies) /\ taken \in 0 .. Len(sent)
    BY <2>1 DEF SessionInit
  <2> QED
    BY <2>2 DEF SessionInit, TypeOK
<1>3. /\ TurnInv /\ GreetedInv /\ RepliesMatch /\ HandshakeFirst
      /\ CutInv /\ ExecutedInv /\ RepliesInv
  BY DEF SessionInit, TurnInv, GreetedInv, RepliesMatch, HandshakeFirst, CutInv, ExecutedInv,
         RepliesInv
<1>4. ClientTypeOK /\ GoneInv /\ StartInv /\ CloseHasCause
  BY DEF SessionInit, ClientTypeOK, CallStates, GoneInv, StartInv, CloseHasCause
<1>5. Len(sent) = 1 /\ sent[1] = HelloFrame
  BY DEF SessionInit
<1>6. SentInv
  BY <1>5 DEF SentInv
<1>7. ClosedInv /\ WaitingInv /\ PendingInv /\ SettledInv
  BY <1>5 DEF SessionInit, ClosedInv, WaitingInv, PendingInv, SettledInv, HelloFrame
<1> QED
  BY <1>2, <1>3, <1>4, <1>6, <1>7 DEF SessionInv, IInv

-----------------------------------------------------------------------------
(* The steps by what they change of the adapter.                           *)
Serves == (Serve \/ Open \/ OpenFails \/ Signal \/ Kill) /\ UNCHANGED clientVars

Writes ==
  \/ Greeted
  \/ \E c \in Calls, kind \in {"invoke", "denied", "garbage"} : Call(c, kind)

(* Only the end of the input may change of the server.                     *)
Apart ==
  /\ UNCHANGED <<sent, listening, readVars, serveVars, signalled, server>>
  /\ stdin' \in {stdin, "closed"}

(* The channel is closed, whoever waits is told something.                 *)
Ends ==
  /\ CloseClient
  /\ UNCHANGED delivered
  /\ Apart
  /\ \/ \E aborted \in SUBSET {c \in Calls : call[c] \in {"idle", "waiting"}} :
          /\ call' = Told(aborted, exitSeen)
          /\ UNCHANGED exitSeen
          /\ disposal = "none" /\ disposal' = (IF exitSeen THEN "done" ELSE "eof")
     \/ /\ call' = Told({}, FALSE)
        /\ UNCHANGED <<exitSeen, disposal>>
        /\ start \notin {"hello", "list"} /\ ~closed
        /\ Unexpected \/ server = "exited"
     \/ /\ \E over \in BOOLEAN : call' = Told({}, over)
        /\ server = "exited"
        /\ exitSeen' = TRUE
        /\ disposal' \in {disposal, "done"}

LEMMA FailEnds ==
  ASSUME ClientTypeOK, TypeOK, Fail, ~closed, Unexpected \/ server = "exited"
  PROVE  Ends
<1>1. CASE start \in {"hello", "list"}
  <2>1. Dispose({})
    BY <1>1 DEF Fail
  <2>2. {} \in SUBSET {c \in Calls : call[c] \in {"idle", "waiting"}}
    OBVIOUS
  <2> QED
    BY <2>1, <2>2 DEF Dispose, Ends, Apart
<1>2. CASE start \notin {"hello", "list"}
  <2>1. /\ CloseClient /\ call' = Told({}, FALSE)
        /\ UNCHANGED <<disposal, delivered, exitSeen, vars>>
    BY <1>2 DEF Fail
  <2>2. Apart
    BY <2>1 DEF Apart, vars, inVars
  <2> QED
    BY <1>2, <2>1, <2>2 DEF Ends
<1> QED
  BY <1>1, <1>2

LEMMA SessionShapes ==
  ASSUME TypeOK, ClientTypeOK, [SessionNext]_sessionVars
  PROVE  \/ UNCHANGED sessionVars
         \/ Serves \/ Writes \/ Ends \/ Listed \/ Escalate
         \/ \E c \in Calls : Answered(c) \/ CallFails(c)
<1>1. ASSUME Unexpected \/ Lost PROVE Ends
  BY <1>1, FailEnds DEF Unexpected, Lost, Arrives
<1>2. ASSUME NEW c \in Calls, Abort(c) \/ AbortEarly(c) PROVE Ends
  <2>1. {c} \in SUBSET {d \in Calls : call[d] \in {"idle", "waiting"}}
    BY <1>2 DEF Abort, AbortEarly
  <2>2. Dispose({c})
    BY <1>2 DEF Abort, AbortEarly
  <2> QED
    BY <2>1, <2>2 DEF Dispose, Ends, Apart
<1>3. ASSUME Unload PROVE Ends
  <2>1. {} \in SUBSET {d \in Calls : call[d] \in {"idle", "waiting"}}
    OBVIOUS
  <2> QED
    BY <1>3, <2>1 DEF Unload, Dispose, Ends, Apart
<1>4. ASSUME ExitEvent PROVE Ends
  <2>1. Apart /\ CloseClient /\ UNCHANGED delivered /\ server = "exited" /\ exitSeen' = TRUE
    BY <1>4 DEF ExitEvent, Apart
  <2>2. /\ \E over \in BOOLEAN : call' = Told({}, over)
        /\ disposal' \in {disposal, "done"}
    BY <1>4 DEF ExitEvent, Disposed
  <2> QED
    BY <2>1, <2>2 DEF Ends
<1> QED
  BY <1>1, <1>2, <1>3, <1>4 DEF SessionNext, Loop, Model, Child, Serves, Writes

(* What is written is a frame.                                             *)
LEMMA WritesFrame ==
  ASSUME Writes
  PROVE  \E f \in Frame : Sends(f)
<1>1. CASE Greeted
  <2>1. ListFrame \in Frame
    BY IdsOfCalls DEF ListFrame, Frame
  <2> QED
    BY <1>1, <2>1 DEF Greeted, Write, Sends, ListFrame
<1>2. ASSUME NEW c \in Calls, NEW kind \in {"invoke", "denied", "garbage"}, Call(c, kind)
      PROVE  \E f \in Frame : Sends(f)
  <2> DEFINE f == [kind |-> kind, id |-> IF kind = "garbage" THEN Nil ELSE c]
  <2>1. f \in Frame
    BY IdsOfCalls DEF Frame
  <2>2. Sends(f)
    BY <1>2 DEF Call, Write, Sends
  <2> QED
    BY <2>1, <2>2
<1> QED
  BY <1>1, <1>2 DEF Writes

LEMMA ApartStep ==
  ASSUME TypeOK, Apart
  PROVE  Step
BY DEF TypeOK, Apart, Step, Next, Peer, CloseInput, vars, inVars, readVars, serveVars

(* In a session the server takes steps of its own, or steps of a peer.     *)
LEMMA ServerSteps ==
  ASSUME TypeOK, ClientTypeOK, [SessionNext]_sessionVars
  PROVE  Step
<1>1. CASE UNCHANGED sessionVars
  BY <1>1 DEF sessionVars, Step
<1>2. CASE Serves
  BY <1>2 DEF Serves, Step, Next
<1>3. CASE Writes
  BY <1>3, WritesFrame DEF Step
<1>4. CASE Ends
  BY <1>4, ApartStep DEF Ends
<1>5. CASE Listed \/ \E c \in Calls : Answered(c) \/ CallFails(c)
  BY <1>5 DEF Listed, Answered, CallFails, Step
<1>6. CASE Escalate
  BY <1>6 DEF Escalate, Terminate, Destroy, GiveUp, Step, Next
<1> QED
  BY <1>1, <1>2, <1>3, <1>4, <1>5, <1>6, SessionShapes
-----------------------------------------------------------------------------
(* What of the server's frames a session step leaves alone.                *)
LEMMA ServesQuietly ==
  ASSUME Serves
  PROVE  UNCHANGED sent /\ UNCHANGED clientVars
BY DEF Serves, Serve, Open, OpenFails, Signal, Kill, Poll, Read, EndOfInput, Interrupted, Greet,
       Refuse, List, Invoke, Finish, inVars

LEMMA EscalatesQuietly ==
  ASSUME Escalate
  PROVE  /\ start' = start /\ closed' = closed /\ pending' = pending
         /\ delivered' = delivered /\ exitSeen' = exitSeen
         /\ sent' = sent /\ replies' = replies /\ executed' = executed
         /\ ~exitSeen
         /\ \/ Terminate /\ disposal' = "term" /\ UNCHANGED call
            \/ Destroy /\ disposal' = "kill" /\ UNCHANGED call
            \/ /\ disposal = "kill" /\ disposal' = "done"
               /\ \E over \in BOOLEAN : call' = Told({}, over)
BY DEF Escalate, Terminate, Destroy, GiveUp, Disposed, Signal, Kill, vars, inVars, serveVars

LEMMA RepliesGrow ==
  ASSUME IInv, Step
  PROVE  /\ Len(replies) <= Len(replies')
         /\ Len(replies) \in Nat /\ Len(replies') \in Nat
<1> USE DEF IInv, TypeOK
<1>1. CASE Answers
  <2>1. OneReply
    BY <1>1, AnswerShape
  <2>2. PICK r : replies' = replies \/ replies' = Append(replies, r)
    BY <2>1, Zenon DEF OneReply
  <2> QED
    BY <2>2
<1>2. CASE ~ Answers
  <2>1. replies' = replies
    <3>1. CASE Reads
      BY <3>1, ReadShape DEF serveVars
    <3>2. CASE Elsewhere \/ Invoke \/ \E f \in Frame : Sends(f)
      BY <3>2 DEF Elsewhere, Invoke, Sends, serveVars
    <3> QED
      BY <1>2, <3>1, <3>2, Shapes
  <2> QED
    BY <2>1
<1> QED
  BY <1>1, <1>2

(* What a call may become.                                                 *)
LEMMA ToldStates ==
  ASSUME ClientTypeOK, NEW aborted, NEW over \in BOOLEAN
  PROVE  /\ Told(aborted, over) \in [Calls -> CallStates]
         /\ \A c \in Calls :
              /\ Told(aborted, over)[c] # call[c]
                   => Told(aborted, over)[c] \in {"aborting", "failed", "cancelled"}
              /\ ~over /\ call[c] # "cancelled" => Told(aborted, over)[c] # "cancelled"
              /\ c \in pending => Told(aborted, over)[c] \in {"aborting", "failed", "cancelled"}
<1>1. \A c \in Calls :
        Told(aborted, over)[c] =
               IF c \in aborted \/ call[c] = "aborting"
               THEN IF over THEN "cancelled" ELSE "aborting"
               ELSE IF c \in pending THEN "failed" ELSE call[c]
  BY DEF Told
<1>2. \A c \in Calls : Told(aborted, over)[c] \in CallStates
  BY <1>1 DEF ClientTypeOK, CallStates
<1>3. Told(aborted, over) \in [Calls -> CallStates]
  BY <1>2 DEF Told
<1> QED
  BY <1>1, <1>3

LEMMA EndsCalls ==
  ASSUME ClientTypeOK, Ends
  PROVE  \E aborted \in SUBSET {c \in Calls : call[c] \in {"idle", "waiting"}}, over \in BOOLEAN :
            /\ call' = Told(aborted, over)
            /\ over => exitSeen \/ server = "exited"
<1>1. {} \in SUBSET {c \in Calls : call[c] \in {"idle", "waiting"}}
  OBVIOUS
<1>2. exitSeen \in BOOLEAN
  BY DEF ClientTypeOK
<1> QED
  BY <1>1, <1>2 DEF Ends

LEMMA ClientTypeStep == SessionInv /\ [SessionNext]_sessionVars => ClientTypeOK'
<1> SUFFICES ASSUME SessionInv, [SessionNext]_sessionVars PROVE ClientTypeOK'
  OBVIOUS
<1> USE DEF SessionInv, IInv, ClientTypeOK
<1>1. CASE UNCHANGED sessionVars \/ Serves
  BY <1>1, ServesQuietly DEF sessionVars, clientVars
<1>2. CASE Greeted
  BY <1>2 DEF Greeted, Consume
<1>3. ASSUME NEW c \in Calls, NEW kind, Call(c, kind) PROVE ClientTypeOK'
  BY <1>3 DEF Call, CallStates
<1>4. CASE Listed
  BY <1>4 DEF Listed, Consume
<1>5. ASSUME NEW c \in Calls, Answered(c) PROVE ClientTypeOK'
  BY <1>5 DEF Answered, Consume, CallStates
<1>6. ASSUME NEW c \in Calls, CallFails(c) PROVE ClientTypeOK'
  BY <1>6 DEF CallFails, CallStates
<1>7. CASE Ends
  <2>1. call' \in [Calls -> CallStates]
    BY <1>7, EndsCalls, ToldStates
  <2>2. exitSeen' \in BOOLEAN /\ disposal' \in {"none", "eof", "term", "kill", "done"}
    BY <1>7 DEF Ends
  <2>3. start' \in {"hello", "list", "ready", "failed"} /\ closed' = TRUE /\ pending' = {}
        /\ delivered' = delivered
    BY <1>7 DEF Ends, CloseClient
  <2> QED
    BY <2>1, <2>2, <2>3
<1>8. CASE Escalate
  <2>1. call' \in [Calls -> CallStates]
    BY <1>8, EscalatesQuietly, ToldStates
  <2> QED
    BY <1>8, <2>1, EscalatesQuietly
<1> QED
  BY <1>1, <1>2, <1>3, <1>4, <1>5, <1>6, <1>7, <1>8, SessionShapes DEF Writes

LEMMA GoneStep == SessionInv /\ [SessionNext]_sessionVars => GoneInv'
<1> SUFFICES ASSUME SessionInv, [SessionNext]_sessionVars, server' # "exited"
             PROVE  /\ ~exitSeen' /\ disposal' \notin {"kill", "done"}
                    /\ \A c \in Calls : call'[c] # "cancelled"
  BY DEF GoneInv
<1> USE DEF SessionInv, IInv, ClientTypeOK
<1>0. /\ server # "exited"
      /\ ~exitSeen /\ disposal \notin {"kill", "done"}
      /\ \A c \in Calls : call[c] # "cancelled"
  BY ServerSteps, GoneForGood DEF GoneInv
<1>1. CASE UNCHANGED sessionVars \/ Serves
  BY <1>0, <1>1, ServesQuietly DEF sessionVars, clientVars
<1>2. CASE Greeted
  BY <1>0, <1>2 DEF Greeted, Consume
<1>3. ASSUME NEW c \in Calls, NEW kind, Call(c, kind)
      PROVE  /\ ~exitSeen' /\ disposal' \notin {"kill", "done"}
             /\ \A d \in Calls : call'[d] # "cancelled"
  BY <1>0, <1>3 DEF Call
<1>4. CASE Listed
  BY <1>0, <1>4 DEF Listed, Consume
<1>5. ASSUME NEW c \in Calls, Answered(c) \/ CallFails(c)
      PROVE  /\ ~exitSeen' /\ disposal' \notin {"kill", "done"}
             /\ \A d \in Calls : call'[d] # "cancelled"
  BY <1>0, <1>5 DEF Answered, Consume, CallFails
<1>7. CASE Ends
  <2>1. \A c \in Calls : call'[c] # "cancelled"
    BY <1>0, <1>7, EndsCalls, ToldStates
  <2>2. exitSeen' = exitSeen /\ disposal' \in {disposal, "eof"}
    BY <1>0, <1>7 DEF Ends
  <2> QED
    BY <1>0, <2>1, <2>2
<1>8. CASE Escalate
  <2>1. ~Destroy
    BY <1>0 DEF Destroy, Kill
  <2> QED
    BY <1>0, <1>8, <2>1, EscalatesQuietly
<1> QED
  BY <1>1, <1>2, <1>3, <1>4, <1>5, <1>7, <1>8, SessionShapes DEF Writes

(* No call is ever idle again.                                             *)
LEMMA NeverIdle ==
  ASSUME SessionInv, [SessionNext]_sessionVars, NEW c \in Calls, call[c] # "idle"
  PROVE  call'[c] # "idle"
<1> USE DEF SessionInv, ClientTypeOK
<1>1. CASE UNCHANGED sessionVars \/ Serves \/ Greeted \/ Listed
  BY <1>1, ServesQuietly DEF sessionVars, clientVars, Greeted, Listed
<1>2. ASSUME NEW d \in Calls, NEW kind, Call(d, kind) PROVE call'[c] # "idle"
  BY <1>2 DEF Call
<1>3. ASSUME NEW d \in Calls, Answered(d) \/ CallFails(d) PROVE call'[c] # "idle"
  BY <1>3 DEF Answered, CallFails
<1>4. ASSUME NEW aborted, NEW over \in BOOLEAN, call' = Told(aborted, over)
      PROVE  call'[c] # "idle"
  BY <1>4, ToldStates
<1>5. CASE Ends
  BY <1>4, <1>5, EndsCalls
<1>6. CASE Escalate
  BY <1>4, <1>6, EscalatesQuietly
<1> QED
  BY <1>1, <1>2, <1>3, <1>5, <1>6, SessionShapes DEF IInv, Writes

(* Only the adapter writes.                                                *)
LEMMA OthersWriteNothing ==
  ASSUME SessionInv, [SessionNext]_sessionVars, ~Writes
  PROVE  sent' = sent
<1>1. CASE UNCHANGED sessionVars \/ Serves \/ Escalate
  BY <1>1, ServesQuietly, EscalatesQuietly DEF sessionVars, vars, inVars
<1>2. CASE Ends
  BY <1>2 DEF Ends, Apart
<1>3. CASE Listed \/ \E c \in Calls : Answered(c) \/ CallFails(c)
  BY <1>3 DEF Listed, Answered, CallFails, vars, inVars
<1> QED
  BY <1>1, <1>2, <1>3, SessionShapes DEF SessionInv, IInv

LEMMA OneMore ==
  ASSUME NEW S, NEW s \in Seq(S), NEW e
  PROVE  /\ Len(Append(s, e)) = Len(s) + 1 /\ Append(s, e)[Len(s) + 1] = e
         /\ \A i \in 1 .. Len(s) : Append(s, e)[i] = s[i]
OBVIOUS

LEMMA SentStep == SessionInv /\ [SessionNext]_sessionVars => SentInv'
<1> SUFFICES ASSUME SessionInv, [SessionNext]_sessionVars PROVE SentInv'
  OBVIOUS
<1>0. /\ TypeOK /\ SentInv /\ StartInv /\ ClientTypeOK
      /\ sent \in Seq(Frame) /\ Len(sent) \in Nat
  BY DEF SessionInv, IInv, TypeOK
<1>1. CASE sent' = sent
  BY <1>0, <1>1, NeverIdle DEF SentInv
<1>2. CASE Greeted
  <2>1. Len(sent) = 1 /\ sent' = Append(sent, ListFrame)
    BY <1>0, <1>2 DEF Greeted, Write, StartInv, ListFrame
  <2>3. /\ Len(sent') = Len(sent) + 1 /\ sent'[Len(sent) + 1] = ListFrame
        /\ \A i \in 1 .. Len(sent) : sent'[i] = sent[i]
    BY <1>0, <2>1, OneMore
  <2>2. Len(sent') = 2 /\ sent'[1] = sent[1] /\ sent'[2] = ListFrame
    BY <2>1, <2>3
  <2> QED
    BY <1>0, <2>2 DEF SentInv
<1>3. ASSUME NEW c \in Calls, NEW kind \in {"invoke", "denied", "garbage"}, Call(c, kind)
      PROVE  SentInv'
  <2> DEFINE f == [kind |-> kind, id |-> IF kind = "garbage" THEN Nil ELSE c]
             n == Len(sent)
  <2>1. n >= 2 /\ call[c] = "idle" /\ call'[c] = "waiting" /\ sent' = Append(sent, f)
    BY <1>0, <1>3 DEF Call, Write, StartInv, ClientTypeOK
  <2>2. /\ Len(sent') = n + 1 /\ sent'[n + 1] = f
        /\ \A i \in 1 .. n : sent'[i] = sent[i]
    BY <1>0, <2>1
  <2>3. f.kind = kind /\ f.id = IF kind = "garbage" THEN Nil ELSE c
    OBVIOUS
  <2>4. \A i \in 3 .. n : sent[i].id # c
    BY <1>0, <2>1, IdsOfCalls, NoId DEF SentInv
  <2> HIDE DEF f
  <2>5. Len(sent') >= 1 /\ sent'[1] = HelloFrame /\ sent'[2] = ListFrame
    BY <1>0, <2>1, <2>2 DEF SentInv
  <2>6. ASSUME NEW i \in 3 .. Len(sent')
        PROVE  \/ sent'[i].kind = "garbage" /\ sent'[i].id = Nil
               \/ /\ sent'[i].kind \in {"invoke", "denied"}
                  /\ sent'[i].id \in Calls /\ call'[sent'[i].id] # "idle"
    <3>1. CASE i = n + 1
      BY <2>1, <2>2, <2>3, <3>1
    <3>2. CASE i \in 3 .. n
      BY <1>0, <2>2, <3>2, NeverIdle DEF SentInv
    <3> QED
      BY <1>0, <2>2, <3>1, <3>2
  <2>7. ASSUME NEW i \in 3 .. Len(sent'), NEW j \in 3 .. Len(sent'),
               i # j, sent'[i].id = sent'[j].id
        PROVE  sent'[i].id = Nil
    <3>1. ASSUME NEW k \in 3 .. n, sent'[k].id = sent'[n + 1].id PROVE sent'[k].id = Nil
      <4>1. sent'[k] = sent[k]
        BY <1>0, <2>2
      <4> QED
        BY <2>2, <2>3, <2>4, <3>1, <4>1
    <3>2. CASE i \in 3 .. n /\ j \in 3 .. n
      BY <1>0, <2>2, <2>7, <3>2 DEF SentInv
    <3>3. i \in 3 .. n \/ i = n + 1
      BY <1>0, <2>2
    <3>4. j \in 3 .. n \/ j = n + 1
      BY <1>0, <2>2
    <3> QED
      BY <2>7, <3>1, <3>2, <3>3, <3>4
  <2> QED
    BY <2>5, <2>6, <2>7 DEF SentInv
<1> QED
  BY <1>1, <1>2, <1>3, OthersWriteNothing DEF Writes

LEMMA StartStep == SessionInv /\ [SessionNext]_sessionVars => StartInv'
<1> SUFFICES ASSUME SessionInv, [SessionNext]_sessionVars PROVE StartInv'
  OBVIOUS
<1>0. TypeOK /\ StartInv /\ ClientTypeOK /\ WaitingInv /\ sent \in Seq(Frame)
  BY DEF SessionInv, IInv, TypeOK
<1>1. CASE UNCHANGED sessionVars \/ Serves
  BY <1>0, <1>1, ServesQuietly DEF sessionVars, vars, inVars, clientVars, StartInv
<1>2. CASE Greeted
  <2>1. /\ Len(sent) = 1 /\ sent' = Append(sent, ListFrame) /\ start = "hello"
        /\ start' = "list" /\ delivered' = 1 /\ closed' = closed /\ call' = call
        /\ delivered = 0 /\ disposal' = disposal
    BY <1>0, <1>2 DEF Greeted, Write, Consume, StartInv, ListFrame
  <2>3. Len(sent') = Len(sent) + 1
    BY <1>0, <2>1, OneMore
  <2>2. Len(sent') = 2
    BY <2>1, <2>3
  <2> QED
    BY <1>0, <2>1, <2>2 DEF StartInv
<1>3. ASSUME NEW c \in Calls, NEW kind, Call(c, kind) PROVE StartInv'
  <2>1. start = "ready" /\ start' = start /\ pending' = pending \cup {c}
        /\ closed' = closed /\ delivered' = delivered
    BY <1>3 DEF Call
  <2>2. PICK f : sent' = Append(sent, f)
    BY <1>3 DEF Call, Write
  <2>3. Len(sent') = Len(sent) + 1
    BY <1>0, <2>2
  <2> QED
    BY <1>0, <2>1, <2>3, IdsOfCalls DEF StartInv
<1>4. CASE Listed
  <2>1. start = "list"
    BY <1>0, <1>4 DEF Listed, StartInv
  <2>2. /\ sent' = sent /\ start' = "ready" /\ delivered' = delivered + 1
        /\ pending' = pending \ {ListId}
    BY <1>4 DEF Listed, Consume, vars, inVars
  <2> QED
    BY <1>0, <2>1, <2>2 DEF StartInv
<1>5. ASSUME NEW c \in Calls, Answered(c) PROVE StartInv'
  <2>1. start \notin {"hello", "list"}
    BY <1>0, <1>5 DEF Answered, StartInv, WaitingInv
  <2> QED
    BY <1>0, <1>5, <2>1 DEF Answered, Consume, StartInv, vars, inVars, ClientTypeOK
<1>6. ASSUME NEW c \in Calls, CallFails(c) PROVE StartInv'
  BY <1>0, <1>6 DEF CallFails, StartInv, vars, inVars
<1>7. CASE Ends
  <2>1. /\ closed' = TRUE /\ pending' = {}
        /\ start' = IF start \in {"hello", "list"} THEN "failed" ELSE start
        /\ delivered' = delivered /\ sent' = sent
    BY <1>7 DEF Ends, CloseClient, Apart
  <2> QED
    BY <1>0, <2>1 DEF StartInv
<1>8. CASE Escalate
  <2>1. /\ start' = start /\ closed' = closed /\ pending' = pending
        /\ delivered' = delivered /\ sent' = sent
    BY <1>8, EscalatesQuietly
  <2>2. start \notin {"hello", "list"}
    BY <1>0, <1>8 DEF Escalate, Terminate, Destroy, GiveUp, StartInv
  <2> QED
    BY <1>0, <2>1, <2>2 DEF StartInv
<1> QED
  BY <1>0, <1>1, <1>2, <1>3, <1>4, <1>5, <1>6, <1>7, <1>8, SessionShapes DEF Writes

(* A call has one frame at most, ...                                       *)
LEMMA OneFrame ==
  ASSUME SentInv, NEW i \in 1 .. Len(sent), Len(sent) \in Nat, sent[i].id \in Calls
  PROVE  /\ i >= 3 /\ sent[i].kind \in {"invoke", "denied"}
         /\ \A j \in 1 .. Len(sent) : sent[j].id = sent[i].id => j = i
<1>1. Nil \notin Calls /\ ListId \notin Calls
  BY NoId, IdsOfCalls
<1>2. \A j \in 1 .. Len(sent) : sent[j].id \in Calls => j >= 3
  <2>1. HelloFrame.id = Nil /\ ListFrame.id = ListId
    BY DEF HelloFrame, ListFrame
  <2>2. ASSUME NEW j \in 1 .. Len(sent), j < 3 PROVE sent[j].id \notin Calls
    <3>1. CASE j = 1
      BY <1>1, <2>1, <3>1 DEF SentInv
    <3>2. CASE j = 2
      BY <1>1, <2>1, <3>2 DEF SentInv
    <3> QED
      BY <2>2, <3>1, <3>2
  <2> QED
    BY <2>2
<1>3. i \in 3 .. Len(sent)
  BY <1>2
<1>4. sent[i].kind \in {"invoke", "denied"}
  BY <1>1, <1>3 DEF SentInv
<1>5. ASSUME NEW j \in 1 .. Len(sent), sent[j].id = sent[i].id PROVE j = i
  <2>1. j \in 3 .. Len(sent)
    BY <1>2, <1>5
  <2> QED
    BY <1>1, <1>3, <1>5, <2>1 DEF SentInv
<1> QED
  BY <1>3, <1>4, <1>5

(* ... and a reply that names it is the reply to that frame.               *)
LEMMA IncomingFrame ==
  ASSUME IInv, Arrives, ClientTypeOK
  PROVE  /\ delivered + 1 \in 1 .. Len(replies)
         /\ delivered + 1 \in 1 .. Len(sent)
         /\ Incoming.id \in {Nil, sent[delivered + 1].id}
<1> USE DEF IInv, TypeOK, TurnInv
<1>1. delivered \in Nat /\ Len(replies) \in Nat /\ Len(sent) \in Nat
      /\ delivered < Len(replies) /\ Len(replies) <= Len(sent)
  BY DEF ClientTypeOK, Arrives
<1>2. delivered + 1 \in DOMAIN replies
  BY <1>1
<1> QED
  BY <1>1, <1>2 DEF RepliesMatch, Incoming

LEMMA AnsweredFrame ==
  ASSUME SessionInv, NEW c \in Calls, Answered(c)
  PROVE  /\ delivered + 1 \in 1 .. Len(sent) /\ sent[delivered + 1].id = c
         /\ sent[delivered + 1].kind \in {"invoke", "denied"}
         /\ \A j \in 1 .. Len(sent) : sent[j].id = c => j = delivered + 1
<1>0. IInv /\ ClientTypeOK /\ SentInv /\ Len(sent) \in Nat
  BY DEF SessionInv, IInv, TypeOK
<1>1. Arrives /\ Incoming.id = c /\ c # Nil
  BY NoId, IdsOfCalls DEF Answered
<1>2. delivered + 1 \in 1 .. Len(sent) /\ sent[delivered + 1].id = c
  BY <1>0, <1>1, IncomingFrame
<1> QED
  BY <1>0, <1>2, OneFrame

LEMMA ClosedStep == SessionInv /\ [SessionNext]_sessionVars => ClosedInv'
<1> SUFFICES ASSUME SessionInv, [SessionNext]_sessionVars PROVE ClosedInv'
  OBVIOUS
<1>0. IInv /\ TypeOK /\ ClosedInv /\ ClientTypeOK
  BY DEF SessionInv, IInv
<1>1. CASE UNCHANGED sessionVars \/ Serves
  BY <1>0, <1>1, ServesQuietly DEF sessionVars, clientVars, ClosedInv
<1>2. CASE Writes
  BY <1>0, <1>2 DEF Writes, Greeted, Arrives, Consume, Call, ClosedInv, ClientTypeOK
<1>3. CASE Listed \/ \E c \in Calls : Answered(c)
  BY <1>0, <1>3 DEF Listed, Answered, Arrives, Consume, ClosedInv, ClientTypeOK
<1>4. CASE \E c \in Calls : CallFails(c)
  BY <1>0, <1>4 DEF CallFails, ClosedInv
<1>5. CASE Ends
  BY <1>5 DEF Ends, CloseClient, ClosedInv
<1>6. CASE Escalate
  <2>1. closed' = closed /\ pending' = pending /\ disposal # "none"
    BY <1>6, EscalatesQuietly DEF Escalate, Terminate, Destroy, GiveUp
  <2> QED
    BY <1>0, <2>1 DEF ClosedInv
<1> QED
  BY <1>0, <1>1, <1>2, <1>3, <1>4, <1>5, <1>6, SessionShapes

(* After the end of the channel no call waits.                             *)
LEMMA NobodyWaits ==
  ASSUME SessionInv, NEW aborted, NEW over \in BOOLEAN, call' = Told(aborted, over)
  PROVE  \A c \in Calls :
           /\ call'[c] # "waiting"
           /\ call'[c] # call[c] => call'[c] \in {"aborting", "failed", "cancelled"}
BY ToldStates DEF SessionInv, WaitingInv

LEMMA WaitingStep == SessionInv /\ [SessionNext]_sessionVars => WaitingInv'
<1> SUFFICES ASSUME SessionInv, [SessionNext]_sessionVars PROVE WaitingInv'
  OBVIOUS
<1>0. /\ TypeOK /\ ClientTypeOK /\ WaitingInv /\ ClosedInv
      /\ call \in [Calls -> CallStates] /\ ListId \notin Calls
  BY IdsOfCalls DEF SessionInv, IInv, ClientTypeOK
<1>1. CASE call' = call /\ pending' \in {pending, pending \cup {ListId}, pending \ {ListId}}
  BY <1>0, <1>1 DEF WaitingInv
<1>2. CASE UNCHANGED sessionVars \/ Serves \/ Greeted \/ Listed
  BY <1>1, <1>2, ServesQuietly DEF sessionVars, clientVars, Greeted, Listed
<1>3. ASSUME NEW c \in Calls, NEW kind, Call(c, kind) PROVE WaitingInv'
  BY <1>0, <1>3 DEF Call, WaitingInv
<1>4. ASSUME NEW c \in Calls, Answered(c) PROVE WaitingInv'
  BY <1>0, <1>4 DEF Answered, WaitingInv
<1>5. ASSUME NEW c \in Calls, CallFails(c) PROVE WaitingInv'
  BY <1>0, <1>5 DEF CallFails, WaitingInv
<1>6. ASSUME NEW aborted, NEW over \in BOOLEAN, call' = Told(aborted, over), pending' = {}
      PROVE  WaitingInv'
  BY <1>6, NobodyWaits DEF WaitingInv
<1>7. CASE Ends
  <2>1. pending' = {}
    BY <1>7 DEF Ends, CloseClient
  <2> QED
    BY <1>0, <1>6, <1>7, <2>1, EndsCalls
<1>8. CASE Escalate
  <2>1. pending' = pending /\ (call' = call \/ \E over \in BOOLEAN : call' = Told({}, over))
    BY <1>8, EscalatesQuietly
  <2>2. pending = {}
    BY <1>0, <1>8 DEF Escalate, Terminate, Destroy, GiveUp, ClosedInv
  <2> QED
    BY <1>1, <1>6, <2>1, <2>2
<1> QED
  BY <1>0, <1>2, <1>3, <1>4, <1>5, <1>7, <1>8, SessionShapes DEF Writes

LEMMA Between ==
  ASSUME NEW d \in Nat, NEW e \in Nat, d <= e, NEW n \in Nat, NEW i \in e + 1 .. n + 1
  PROVE  i = n + 1 \/ i \in d + 1 .. n
OBVIOUS

LEMMA PendingStep == SessionInv /\ [SessionNext]_sessionVars => PendingInv'
<1> SUFFICES ASSUME SessionInv, [SessionNext]_sessionVars, ~closed',
                    NEW i \in delivered' + 1 .. Len(sent')
             PROVE  sent'[i].id \in pending' \cup {Nil}
  BY DEF PendingInv
<1>0. /\ TypeOK /\ StartInv /\ ClientTypeOK /\ PendingInv /\ SentInv /\ sent \in Seq(Frame)
      /\ Len(sent) \in Nat /\ delivered \in Nat
  BY DEF SessionInv, IInv, TypeOK, ClientTypeOK
<1>1. CASE sent' = sent /\ pending' = pending /\ closed' = closed /\ delivered' = delivered
  BY <1>0, <1>1 DEF PendingInv
<1>2. CASE UNCHANGED sessionVars \/ Serves \/ Escalate \/ \E c \in Calls : CallFails(c)
  BY <1>1, <1>2, ServesQuietly, EscalatesQuietly
     DEF sessionVars, vars, inVars, clientVars, CallFails
<1>3. ASSUME NEW id, NEW f, sent' = Append(sent, f), f.id \in {id, Nil},
             pending' = pending \cup {id}, closed' = closed,
             delivered <= delivered', delivered' \in Nat
      PROVE  sent'[i].id \in pending' \cup {Nil}
  <2>1. /\ Len(sent') = Len(sent) + 1 /\ sent'[Len(sent) + 1] = f
        /\ \A j \in 1 .. Len(sent) : sent'[j] = sent[j]
    BY <1>0, <1>3, OneMore
  <2>2. CASE i = Len(sent) + 1
    BY <1>3, <2>1, <2>2
  <2>3. CASE i \in delivered + 1 .. Len(sent)
    <3>1. sent'[i] = sent[i]
      BY <1>0, <2>1, <2>3
    <3>2. sent[i].id \in pending \cup {Nil}
      BY <1>0, <1>3, <2>3 DEF PendingInv
    <3> QED
      BY <1>3, <3>1, <3>2
  <2>5. i \in delivered' + 1 .. Len(sent) + 1
    BY <2>1
  <2>6. delivered <= delivered' /\ delivered' \in Nat
    BY <1>3
  <2>7. Len(sent) \in Nat /\ delivered \in Nat
    BY <1>0
  <2>4. i = Len(sent) + 1 \/ i \in delivered + 1 .. Len(sent)
    BY <2>5, <2>6, <2>7, Between
  <2> QED
    BY <2>2, <2>3, <2>4
<1>4. CASE Greeted
  <2>1. /\ sent' = Append(sent, ListFrame) /\ pending' = pending \cup {ListId}
        /\ closed' = closed /\ delivered' = delivered + 1
    BY <1>4 DEF Greeted, Write, Consume, ListFrame
  <2>2. ListFrame.id = ListId
    BY DEF ListFrame
  <2>3. delivered <= delivered' /\ delivered' \in Nat
    BY <1>0, <2>1
  <2> QED
    BY <1>3, <2>1, <2>2, <2>3
<1>5. ASSUME NEW c \in Calls, NEW kind \in {"invoke", "denied", "garbage"}, Call(c, kind)
      PROVE  sent'[i].id \in pending' \cup {Nil}
  <2> DEFINE f == [kind |-> kind, id |-> IF kind = "garbage" THEN Nil ELSE c]
  <2>1. /\ sent' = Append(sent, f) /\ pending' = pending \cup {c}
        /\ closed' = closed /\ delivered' = delivered
    BY <1>5 DEF Call, Write
  <2>2. f.id \in {c, Nil}
    OBVIOUS
  <2> HIDE DEF f
  <2>3. delivered <= delivered' /\ delivered' \in Nat
    BY <1>0, <2>1
  <2> QED
    BY <1>3, <2>1, <2>2, <2>3
<1>6. CASE Listed
  <2>1. sent' = sent /\ delivered' = delivered + 1 /\ ListId \in pending
    BY <1>6 DEF Listed, Consume, vars, inVars
  <2>2. delivered = 1 /\ Len(sent) = 2
    BY <1>0, <2>1 DEF StartInv
  <2> QED
    BY <2>1, <2>2
<1>7. ASSUME NEW c \in Calls, Answered(c) PROVE sent'[i].id \in pending' \cup {Nil}
  <2>1. sent' = sent /\ pending' = pending \ {c} /\ closed' = closed /\ delivered' = delivered + 1
    BY <1>7 DEF Answered, Consume, vars, inVars
  <2>2. i \in delivered + 1 .. Len(sent) /\ i \in 1 .. Len(sent) /\ i # delivered + 1
    BY <1>0, <2>1
  <2>3. sent[i].id # c
    BY <1>7, <2>2, AnsweredFrame
  <2> QED
    BY <1>0, <2>1, <2>2, <2>3 DEF PendingInv
<1>8. CASE Ends
  BY <1>8 DEF Ends, CloseClient
<1> QED
  BY <1>0, <1>2, <1>4, <1>5, <1>6, <1>7, <1>8, SessionShapes DEF Writes

LEMMA SettledStep == SessionInv /\ [SessionNext]_sessionVars => SettledInv'
<1> SUFFICES ASSUME SessionInv, [SessionNext]_sessionVars PROVE SettledInv'
  OBVIOUS
<1>0. /\ IInv /\ TypeOK /\ ClientTypeOK /\ SettledInv /\ call \in [Calls -> CallStates]
      /\ delivered \in Nat
  BY DEF SessionInv, IInv, ClientTypeOK
<1>1. /\ Len(replies) <= Len(replies') /\ Len(replies) \in Nat /\ Len(replies') \in Nat
      /\ \A i \in 1 .. delivered : i \in 1 .. Len(sent) /\ sent'[i] = sent[i]
  <2>1. Step
    BY <1>0, ServerSteps
  <2>2. Len(replies) <= Len(replies') /\ Len(replies) \in Nat /\ Len(replies') \in Nat
    BY <1>0, <2>1, RepliesGrow
  <2>3. delivered <= Len(sent) /\ Len(sent) \in Nat
    BY <1>0, <2>2 DEF SettledInv, IInv, TurnInv, TypeOK
  <2> QED
    BY <1>0, <2>1, <2>2, <2>3, SentGrows
<1>2. ASSUME delivered' \in {delivered, delivered + 1}, delivered' <= Len(replies),
             \A c \in Calls :
               call'[c] \in {"answered", "refused"} =>
                 call'[c] = call[c] \/ (delivered' = delivered + 1 /\ sent'[delivered + 1].id = c)
      PROVE  SettledInv'
  <2>1. delivered' <= Len(replies')
    BY <1>0, <1>1, <1>2
  <2>2. ASSUME NEW c \in Calls, call'[c] \in {"answered", "refused"}
        PROVE  \E i \in 1 .. delivered' : sent'[i].id = c
    <3>1. CASE call'[c] = call[c]
      <4>1. PICK i \in 1 .. delivered : sent[i].id = c
        BY <1>0, <2>2, <3>1 DEF SettledInv
      <4> QED
        BY <1>0, <1>1, <1>2, <4>1
    <3>2. CASE delivered' = delivered + 1 /\ sent'[delivered + 1].id = c
      BY <1>0, <3>2
    <3> QED
      BY <1>2, <2>2, <3>1, <3>2
  <2> QED
    BY <2>1, <2>2 DEF SettledInv
<1>3. delivered <= Len(replies)
  BY <1>0 DEF SettledInv
<1>4. CASE UNCHANGED sessionVars \/ Serves
  BY <1>2, <1>3, <1>4, ServesQuietly DEF sessionVars, clientVars
<1>5. CASE Greeted \/ Listed
  <2>1. call' = call /\ delivered' = delivered + 1 /\ delivered < Len(replies)
    BY <1>5 DEF Greeted, Listed, Arrives, Consume
  <2> QED
    BY <1>0, <1>1, <1>2, <2>1
<1>6. ASSUME NEW c \in Calls, NEW kind, Call(c, kind) \/ CallFails(c) PROVE SettledInv'
  <2>1. /\ delivered' = delivered
        /\ \A d \in Calls : call'[d] \in {"answered", "refused"} => call'[d] = call[d]
    BY <1>0, <1>6 DEF Call, CallFails
  <2> QED
    BY <1>2, <1>3, <2>1
<1>7. ASSUME NEW c \in Calls, Answered(c) PROVE SettledInv'
  <2>1. delivered' = delivered + 1 /\ delivered < Len(replies) /\ sent' = sent
    BY <1>7 DEF Answered, Arrives, Consume, vars, inVars
  <2>2. sent'[delivered + 1].id = c
    BY <1>7, <2>1, AnsweredFrame
  <2>3. \A d \in Calls \ {c} : call'[d] = call[d]
    BY <1>0, <1>7 DEF Answered
  <2> QED
    BY <1>0, <1>1, <1>2, <2>1, <2>2, <2>3
<1>8. ASSUME NEW aborted, NEW over \in BOOLEAN, call' = Told(aborted, over),
             delivered' = delivered
      PROVE  SettledInv'
  BY <1>2, <1>3, <1>8, NobodyWaits
<1>9. CASE Ends
  <2>1. delivered' = delivered
    BY <1>9 DEF Ends
  <2> QED
    BY <1>0, <1>8, <1>9, <2>1, EndsCalls
<1>10. CASE Escalate
  <2>1. delivered' = delivered /\ (call' = call \/ \E over \in BOOLEAN : call' = Told({}, over))
    BY <1>10, EscalatesQuietly
  <2> QED
    BY <1>2, <1>3, <1>8, <2>1
<1> QED
  BY <1>0, <1>4, <1>5, <1>6, <1>7, <1>9, <1>10, SessionShapes DEF Writes

(* A reply that the adapter does not expect: the server was interrupted,   *)
(* or a call was too long for it.                                          *)
LEMMA UnexpectedHasCause ==
  ASSUME SessionInv, Unexpected, start \notin {"hello", "list"}, ~closed
  PROVE  signalled \/ \E i \in DOMAIN sent : sent[i].kind = "garbage"
<1> DEFINE i == delivered + 1
<1>0. /\ IInv /\ ClientTypeOK /\ SentInv /\ StartInv /\ PendingInv /\ Arrives
      /\ Len(sent) \in Nat /\ DOMAIN sent = 1 .. Len(sent) /\ delivered \in Nat
  BY DEF SessionInv, Unexpected, IInv, TypeOK, ClientTypeOK
<1>1. start = "ready" /\ delivered >= 2 /\ ListId \notin pending
  BY <1>0 DEF StartInv, ClientTypeOK
<1>2. /\ i \in 3 .. Len(sent) /\ i \in DOMAIN replies /\ Incoming = replies[i]
      /\ Incoming.id \in {Nil, sent[i].id}
  <2>1. i \in 1 .. Len(replies) /\ i \in 1 .. Len(sent) /\ Incoming.id \in {Nil, sent[i].id}
    BY <1>0, IncomingFrame
  <2>2. DOMAIN replies = 1 .. Len(replies)
    BY <1>0 DEF IInv, TypeOK
  <2> QED
    BY <1>0, <1>1, <2>1, <2>2 DEF Incoming
<1>3. \/ sent[i].kind = "garbage" /\ sent[i].id = Nil
      \/ sent[i].kind \in {"invoke", "denied"} /\ sent[i].id \in Calls
  BY <1>0, <1>2 DEF SentInv
<1>4. CASE Incoming.id = Nil
  <2>1. sent[i].id = Nil \/ sent[i].kind = "malformed" \/ signalled
    BY <1>0, <1>2, <1>4 DEF IInv, RepliesInv, Says
  <2> QED
    BY <1>0, <1>2, <1>3, <2>1, NoId, IdsOfCalls
<1>5. CASE Incoming.id # Nil
  <2>1. Incoming.id = sent[i].id /\ Incoming.id \in Calls
    BY <1>2, <1>3, <1>5
  <2>2. i \in delivered + 1 .. Len(sent)
    BY <1>0, <1>2
  <2>3. Incoming.id \in pending
    BY <1>0, <1>5, <2>1, <2>2 DEF PendingInv
  <2> QED
    BY <1>5, <2>1, <2>3, IdsOfCalls DEF Unexpected
<1> QED
  BY <1>4, <1>5

LEMMA CauseStep == SessionInv /\ [SessionNext]_sessionVars => CloseHasCause'
<1> DEFINE Cause == \/ server = "exited" \/ signalled
                    \/ \E i \in DOMAIN sent : sent[i].kind = "garbage"
<1> SUFFICES ASSUME SessionInv, [SessionNext]_sessionVars, closed', disposal' = "none"
             PROVE  Cause'
  BY DEF CloseHasCause
<1>0. /\ IInv /\ TypeOK /\ ClientTypeOK /\ ClosedInv /\ CloseHasCause /\ Step
  BY ServerSteps DEF SessionInv, IInv
<1>1. Cause => Cause'
  <2>1. server = "exited" => server' = "exited"
    BY <1>0, GoneForGood
  <2>2. signalled => signalled'
    BY <1>0, CutStep DEF IInv
  <2>3. ASSUME NEW i \in DOMAIN sent, sent[i].kind = "garbage"
        PROVE  i \in DOMAIN sent' /\ sent'[i].kind = "garbage"
    <3>1. TypeOK'
      BY <1>0, TypeStep
    <3>2. i \in 1 .. Len(sent)
      BY <1>0 DEF TypeOK
    <3>3. i \in DOMAIN sent'
      BY <1>0, <3>1, <3>2, SentGrows DEF TypeOK
    <3> QED
      BY <1>0, <2>3, <3>2, <3>3, SentGrows
  <2> QED
    BY <2>1, <2>2, <2>3
<1>2. closed /\ disposal = "none" => Cause
  BY <1>0 DEF CloseHasCause
<1>3. CASE closed' = closed /\ disposal' = disposal
  BY <1>1, <1>2, <1>3
<1>4. CASE UNCHANGED sessionVars \/ Serves
  BY <1>3, <1>4, ServesQuietly DEF sessionVars, clientVars
<1>5. CASE Writes \/ Listed \/ \E c \in Calls : Answered(c) \/ CallFails(c)
  BY <1>3, <1>5 DEF Writes, Greeted, Call, Listed, Answered, CallFails, Consume
<1>6. CASE Escalate
  BY <1>6, EscalatesQuietly
<1>7. CASE Ends
  <2>1. \/ server = "exited"
        \/ start \notin {"hello", "list"} /\ ~closed /\ Unexpected
    BY <1>7 DEF Ends
  <2>2. Cause
    BY <2>1, UnexpectedHasCause
  <2> QED
    BY <1>1, <2>2
<1> QED
  BY <1>0, <1>4, <1>5, <1>6, <1>7, SessionShapes

(* The invariant of the session: what the adapter knows of its server is   *)
(* true (ProtocolClient and TwlProcess over serve_stdio).                  *)
THEOREM SessionInvariant == SessionSpec => []SessionInv
<1>1. SessionInv /\ [SessionNext]_sessionVars => IInv'
  BY ServerSteps, InvariantStep DEF SessionInv, IInv
<1>2. SessionInv /\ [SessionNext]_sessionVars => SessionInv'
  BY <1>1, ClientTypeStep, GoneStep, SentStep, StartStep, ClosedStep, WaitingStep, PendingStep,
     SettledStep, CauseStep DEF SessionInv
<1> QED
  BY SessionInitInv, <1>2, PTL DEF SessionSpec

(* No server is left behind when a disposal is over (TwlProcess.#dispose). *)
THEOREM NoServerLeft == SessionSpec => []DisposedIsGone
<1>1. SessionInv => DisposedIsGone
  BY DEF SessionInv, GoneInv, DisposedIsGone
<1> QED
  BY SessionInvariant, <1>1, PTL

(* Replies and calls never lose each other: the channel breaks only when   *)
(* the server goes, or a call is longer than what it reads                 *)
(* (ProtocolClient.#onLine).                                               *)
THEOREM ChannelHolds == SessionSpec => []CloseHasCause
<1>1. SessionInv => CloseHasCause
  BY DEF SessionInv
<1> QED
  BY SessionInvariant, <1>1, PTL

-----------------------------------------------------------------------------
(* The calls that have reached their upstream.                             *)
reached == {c \in Calls : \E i \in executed : sent[i].id = c}

LEMMA ReachedSame ==
  ASSUME SessionInv, [SessionNext]_sessionVars, executed' = executed
  PROVE  reached' = reached
<1>1. /\ IInv /\ TypeOK /\ Step
      /\ \A i \in executed : i \in 1 .. Len(sent)
  BY ServerSteps DEF SessionInv, IInv, TypeOK, TurnInv
<1>2. \A i \in executed : sent'[i] = sent[i]
  BY <1>1, SentGrows
<1> QED
  BY <1>2 DEF reached

(* What the server sends upstream is a call that was not sent before, and  *)
(* whose caller has not been told that it will not be.                     *)
LEMMA InvokeExecutes ==
  ASSUME SessionInv, Invoke, UNCHANGED clientVars
  PROVE  \E c \in Calls :
           /\ call[c] \in {"waiting", "aborting", "failed"}
           /\ c \notin reached /\ reached' = reached \cup {c} /\ call' = call
<1>0. /\ IInv /\ TypeOK /\ TurnInv /\ ExecutedInv /\ ClientTypeOK /\ SentInv /\ GoneInv
      /\ SettledInv /\ Len(sent) \in Nat /\ served \in Nat /\ taken \in 0 .. Len(sent)
      /\ delivered \in Nat
  BY DEF SessionInv, IInv, TypeOK, ClientTypeOK
<1>1. /\ Turn \in 1 .. Len(sent) /\ Turn = served + 1 /\ ~upstream /\ server = "running"
      /\ sent[Turn].kind = "invoke"
      /\ sent' = sent /\ executed' = executed \cup {Turn} /\ call' = call
  BY <1>0 DEF Invoke, Serving, Kind, Turn, inVars, clientVars
<1> DEFINE c == sent[Turn].id
<1>2. c \in Calls /\ call[c] # "idle"
  <2>1. sent[1].kind = "hello" /\ (Len(sent) >= 2 => sent[2].kind = "list")
    BY <1>0 DEF SentInv, HelloFrame, ListFrame
  <2>2. Turn \in 3 .. Len(sent)
    <3>1. Turn # 1 /\ Turn # 2
      BY <1>0, <1>1, <2>1
    <3> QED
      BY <1>0, <1>1, <3>1
  <2> QED
    BY <1>0, <1>1, <2>2 DEF SentInv
<1>3. \A j \in 1 .. Len(sent) : sent[j].id = c => j = Turn
  BY <1>0, <1>1, <1>2, OneFrame
<1>4. c \notin reached
  <2>1. ASSUME NEW i \in executed PROVE i \in 1 .. Len(sent) /\ i # Turn
    BY <1>0, <1>1, <2>1 DEF ExecutedInv, TurnInv
  <2> QED
    BY <1>3, <2>1 DEF reached
<1>5. call[c] \notin {"answered", "refused"}
  <2>1. ASSUME NEW i \in 1 .. delivered PROVE i \in 1 .. Len(sent) /\ i # Turn
    <3>1. delivered <= served
      BY <1>0 DEF SettledInv, TurnInv
    <3> QED
      BY <1>0, <1>1, <3>1
  <2> QED
    BY <1>0, <1>2, <1>3, <2>1 DEF SettledInv
<1>6. call[c] # "cancelled"
  BY <1>0, <1>1, <1>2 DEF GoneInv
<1>7. call[c] \in {"waiting", "aborting", "failed"}
  BY <1>0, <1>2, <1>5, <1>6 DEF ClientTypeOK, CallStates
<1>8. reached' = reached \cup {c}
  BY <1>1, <1>2 DEF reached
<1> QED
  BY <1>1, <1>2, <1>4, <1>7, <1>8

(* Only an invocation reaches the upstream.                                *)
LEMMA OthersExecuteNothing ==
  ASSUME SessionInv, [SessionNext]_sessionVars, ~(Invoke /\ UNCHANGED clientVars)
  PROVE  executed' = executed
<1>1. CASE Serves
  BY <1>1 DEF Serves, Serve, Open, OpenFails, Signal, Kill, Poll, Read, EndOfInput, Interrupted,
              Greet, Refuse, List, Finish, serveVars
<1>2. CASE UNCHANGED sessionVars
  BY <1>2 DEF sessionVars, vars, serveVars
<1>3. CASE Writes
  BY <1>3, WritesFrame DEF Sends, serveVars
<1>4. CASE Ends
  BY <1>4 DEF Ends, Apart, serveVars
<1>5. CASE Listed \/ \E c \in Calls : Answered(c) \/ CallFails(c)
  BY <1>5 DEF Listed, Answered, CallFails, vars, serveVars
<1>6. CASE Escalate
  BY <1>6, EscalatesQuietly
<1> QED
  BY <1>1, <1>2, <1>3, <1>4, <1>5, <1>6, SessionShapes DEF SessionInv, IInv

(* An answer is a success only for a call that has reached its upstream.   *)
LEMMA AnswersReached ==
  ASSUME SessionInv, NEW c \in Calls, Answered(c), Incoming.ok
  PROVE  c \in reached
<1> DEFINE i == delivered + 1
<1>0. /\ IInv /\ ClientTypeOK /\ Arrives /\ RepliesMatch /\ RepliesInv
      /\ DOMAIN replies = 1 .. Len(replies)
  BY DEF SessionInv, Answered, IInv, TypeOK
<1>1. i \in DOMAIN replies /\ Incoming = replies[i]
  BY <1>0, IncomingFrame DEF Incoming
<1>2. sent[i].id = c /\ sent[i].kind \in {"invoke", "denied"}
  BY AnsweredFrame
<1>3. sent[i].kind = "invoke"
  BY <1>0, <1>1, <1>2 DEF RepliesMatch
<1>4. i \in executed
  BY <1>0, <1>1, <1>3 DEF RepliesInv, Says
<1> QED
  BY <1>2, <1>4 DEF reached

(* The end of the session, as its callers see it.                          *)
LEMMA ToldEnds ==
  ASSUME SessionInv, NEW aborted \in SUBSET {c \in Calls : call[c] \in {"idle", "waiting"}},
         NEW over \in BOOLEAN, call' = Told(aborted, over), reached' = reached
  PROVE  Promise!End
<1>0. ClientTypeOK /\ WaitingInv
  BY DEF SessionInv
<1>1. call' \in [Calls -> CallStates]
  BY <1>0, ToldStates
<1>2. ASSUME NEW c \in Calls
      PROVE  \/ call'[c] = call[c]
             \/ call[c] \in {"idle", "waiting"} /\ call'[c] \in {"aborting", "failed", "cancelled"}
             \/ call[c] = "aborting" /\ call'[c] = "cancelled"
  <2>1. call'[c] = IF c \in aborted \/ call[c] = "aborting"
                   THEN IF over THEN "cancelled" ELSE "aborting"
                   ELSE IF c \in pending THEN "failed" ELSE call[c]
    BY DEF Told
  <2>2. c \in pending => call[c] = "waiting"
    BY <1>0 DEF WaitingInv
  <2> QED
    BY <2>1, <2>2
<1> QED
  BY <1>1, <1>2 DEF Promise!End, CallStates, reached

LEMMA PromiseInit == SessionInit => Promise!Init
BY DEF SessionInit, Promise!Init

LEMMA PromiseStep == SessionInv /\ [SessionNext]_sessionVars => [Promise!Next]_(Promise!vars)
<1> SUFFICES ASSUME SessionInv, [SessionNext]_sessionVars
             PROVE  Promise!Next \/ (call' = call /\ reached' = reached)
  BY DEF Promise!vars, reached
<1>0. /\ TypeOK /\ ClientTypeOK /\ WaitingInv /\ ClosedInv
      /\ call \in [Calls -> CallStates]
  BY DEF SessionInv, IInv, ClientTypeOK
<1>1. CASE Invoke /\ UNCHANGED clientVars
  <2>1. PICK c \in Calls :
           /\ call[c] \in {"waiting", "aborting", "failed"}
           /\ c \notin reached /\ reached' = reached \cup {c} /\ call' = call
    BY <1>1, InvokeExecutes
  <2>2. Promise!Execute(c)
    BY <2>1 DEF Promise!Execute, reached
  <2> QED
    BY <2>2 DEF Promise!Next
<1>2. CASE ~(Invoke /\ UNCHANGED clientVars)
  <2>0. reached' = reached
    BY <1>2, OthersExecuteNothing, ReachedSame
  <2>1. CASE UNCHANGED sessionVars \/ Serves \/ Greeted \/ Listed
    BY <2>0, <2>1, ServesQuietly DEF sessionVars, clientVars, Greeted, Listed
  <2>2. ASSUME NEW c \in Calls, NEW kind, Call(c, kind) PROVE Promise!Next
    <3>1. Promise!Ask(c)
      BY <2>0, <2>2 DEF Call, Promise!Ask, Promise!Become, reached
    <3> QED
      BY <3>1 DEF Promise!Next
  <2>3. ASSUME NEW c \in Calls, Answered(c) PROVE Promise!Next
    <3>1. call[c] = "waiting"
      BY <1>0, <2>3 DEF Answered, WaitingInv
    <3>2. CASE Incoming.ok
      <4>1. c \in reached
        BY <2>3, <3>2, AnswersReached
      <4>2. call' = [call EXCEPT ![c] = "answered"]
        BY <2>3, <3>2 DEF Answered
      <4>3. Promise!Answer(c)
        BY <2>0, <3>1, <4>1, <4>2 DEF Promise!Answer, Promise!Become, reached
      <4> QED
        BY <4>3 DEF Promise!Next
    <3>3. CASE ~Incoming.ok
      <4>1. call' = [call EXCEPT ![c] = "refused"]
        BY <2>3, <3>3 DEF Answered
      <4>2. Promise!Decline(c)
        BY <2>0, <3>1, <4>1 DEF Promise!Decline, Promise!Become, reached
      <4> QED
        BY <4>2 DEF Promise!Next
    <3> QED
      BY <3>2, <3>3
  <2>4. ASSUME NEW c \in Calls, CallFails(c) PROVE Promise!Next
    <3>1. call[c] = "idle" /\ call' = [call EXCEPT ![c] = "failed"]
      BY <2>4 DEF CallFails
    <3>2. call' \in [Calls -> CallStates]
      BY <1>0, <3>1 DEF CallStates
    <3>3. \A d \in Calls : call'[d] = call[d] \/ (d = c /\ call'[d] = "failed")
      BY <1>0, <3>1
    <3>4. Promise!End
      BY <2>0, <3>1, <3>2, <3>3 DEF Promise!End, CallStates, reached
    <3> QED
      BY <3>4 DEF Promise!Next
  <2>5. CASE Ends
    <3>2. PICK aborted \in SUBSET {c \in Calls : call[c] \in {"idle", "waiting"}},
               over \in BOOLEAN :
                 call' = Told(aborted, over)
      BY <1>0, <2>5, EndsCalls
    <3>1. Promise!End
      BY <2>0, <3>2, ToldEnds
    <3> QED
      BY <3>1 DEF Promise!Next
  <2>6. CASE Escalate
    <3>1. call' = call \/ \E over \in BOOLEAN : call' = Told({}, over)
      BY <2>6, EscalatesQuietly
    <3>2. {} \in SUBSET {c \in Calls : call[c] \in {"idle", "waiting"}}
      OBVIOUS
    <3>3. CASE \E over \in BOOLEAN : call' = Told({}, over)
      <4>1. Promise!End
        BY <2>0, <3>2, <3>3, ToldEnds
      <4> QED
        BY <4>1 DEF Promise!Next
    <3> QED
      BY <2>0, <3>1, <3>3
  <2> QED
    BY <1>0, <2>1, <2>2, <2>3, <2>4, <2>5, <2>6, SessionShapes DEF Writes
<1> QED
  BY <1>1, <1>2

(* What the adapter tells its callers is true: each step of a session is a *)
(* step of the promise or none (TwlProcess.invoke, ProtocolClient and      *)
(* serve_stdio).                                                           *)
THEOREM CallersAreToldTheTruth == SessionSpec => ImplementsCalls
BY PromiseInit, PromiseStep, SessionInvariant, PTL DEF SessionSpec, ImplementsCalls, Promise!Spec
=============================================================================
