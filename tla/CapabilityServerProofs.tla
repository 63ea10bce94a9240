----------------------- MODULE CapabilityServerProofs -----------------------
(***************************************************************************)
(* What the server answers, for peers that send any number of frames.  The *)
(* inductive invariant ties the three counts of the loop together: frames  *)
(* that were sent, read, and answered.                                     *)
(***************************************************************************)
EXTENDS CapabilityServer, TLAPS

(* No frame is answered before it is read, an upstream request belongs to  *)
(* the frame whose turn it is, and there is a reply for each turn.         *)
TurnInv ==
  /\ served <= taken
  /\ Len(replies) = served
  /\ begun => taken < Len(sent)
  /\ upstream => served < taken /\ Turn \in executed
  /\ executed \subseteq 1 .. taken

(* The handshake is remembered from a frame that was answered.             *)
GreetedInv ==
  initialized =>
    \/ \E h \in 1 .. served : sent[h].kind = "hello"
    \/ server = "exited"

(* A frame is cut short by a signal only.                                  *)
CutInv == cut # 0 => signalled

(* What goes upstream is answered before the next frame is looked at.      *)
ExecutedInv ==
  \A i \in executed : i <= served \/ (upstream /\ i = Turn) \/ server = "exited"

(* An answer to an invocation follows a request; a reply without an id is  *)
(* one to a frame that names none, as it was sent or as it was read.       *)
Says(r, i) ==
  /\ r.ok /\ sent[i].kind = "invoke" => i \in executed
  /\ r.id = Nil => sent[i].id = Nil \/ sent[i].kind = "malformed" \/ signalled

RepliesInv == \A i \in DOMAIN replies : Says(replies[i], i)

IInv ==
  /\ TypeOK /\ TurnInv /\ GreetedInv /\ RepliesMatch /\ HandshakeFirst
  /\ CutInv /\ ExecutedInv /\ RepliesInv

-----------------------------------------------------------------------------
LEMMA InitInv == Init => IInv
<1> SUFFICES ASSUME Init PROVE IInv
  OBVIOUS
<1>1. TypeOK
  <2>1. /\ <<>> \in Seq(Frame) /\ <<>> \in Seq(Replies)
        /\ 0 \in 0 .. Len(<<>>)
    OBVIOUS
  <2> QED
    BY <2>1 DEF Init, TypeOK
<1>2. TurnInv
  BY DEF Init, TurnInv
<1>3. GreetedInv /\ RepliesMatch /\ HandshakeFirst /\ CutInv /\ ExecutedInv /\ RepliesInv
  BY DEF Init, GreetedInv, RepliesMatch, HandshakeFirst, CutInv, ExecutedInv, RepliesInv
<1> QED
  BY <1>1, <1>2, <1>3 DEF IInv

LEMMA FrameFields ==
  ASSUME NEW f \in Frame
  PROVE  /\ f.id \in Ids \cup {Nil}
         /\ f.kind \in {"garbage", "hello"} => f.id = Nil
BY DEF Frame

(* The bound on what a peer sends plays no part in what follows.           *)
Sends(f) ==
  /\ sent' = Append(sent, f)
  /\ UNCHANGED <<stdin, listening, readVars, serveVars, signalled, server>>

Step == [Next]_vars \/ \E f \in Frame : Sends(f)

(* What a frame that has been sent says never changes.                     *)
LEMMA SentGrows ==
  ASSUME TypeOK, Step
  PROVE  /\ Len(sent) <= Len(sent')
         /\ \A i \in 1 .. Len(sent) : sent'[i] = sent[i]
<1>1. CASE UNCHANGED sent
  BY <1>1 DEF TypeOK
<1>2. CASE \E f \in Frame : Sends(f)
  BY <1>2 DEF TypeOK, Sends
<1>3. UNCHANGED sent \/ \E f \in Frame : Sends(f)
  BY DEF Step, Next, vars, inVars, Serve, Peer, Open, OpenFails, Signal, Kill, Poll, Read,
         EndOfInput, Interrupted, Greet, Refuse, List, Invoke, Finish, Send, Sends, CloseInput,
         Listen, StopReading, ReadOn, StopListening
<1> QED
  BY <1>1, <1>2, <1>3

(* The steps by what they change.                                          *)
Elsewhere == UNCHANGED <<sent, taken, begun, cut, serveVars>>

Reads == Read \/ Interrupted

Answers == Greet \/ Refuse \/ List \/ \E success \in BOOLEAN : Finish(success)

LEMMA Shapes ==
  ASSUME Step
  PROVE  Elsewhere \/ Reads \/ Answers \/ Invoke \/ \E f \in Frame : Sends(f)
BY DEF Step, Next, vars, inVars, readVars, serveVars, Serve, Peer, Open, OpenFails, Signal, Kill,
       Poll, EndOfInput, Send, Sends, CloseInput, Listen, StopReading, ReadOn, StopListening, Elsewhere, Reads, Answers

LEMMA TypeStep == IInv /\ Step => TypeOK'
<1> SUFFICES ASSUME IInv, Step PROVE TypeOK'
  OBVIOUS
<1> USE DEF IInv, TypeOK
<1>1. CASE Open \/ OpenFails \/ Signal \/ Kill \/ Poll \/ EndOfInput \/ UNCHANGED vars
  BY <1>1 DEF Open, OpenFails, Signal, Kill, Poll, EndOfInput, vars, inVars, readVars, serveVars
<1>2. CASE Read
  <2>1. taken' \in taken .. Len(sent) /\ begun' \in BOOLEAN /\ ready' = FALSE
    BY <1>2 DEF Read
  <2>3. taken' \in 0 .. Len(sent)
    <3>1. Len(sent) \in Nat /\ taken \in Nat
      OBVIOUS
    <3> QED
      BY <2>1, <3>1
  <2>2. UNCHANGED <<sent, stdin, listening, cut, served, initialized, upstream, executed,
                    replies, signalled, server>>
    BY <1>2 DEF Read, inVars, serveVars
  <2> QED
    BY <2>1, <2>2, <2>3
<1>9. CASE Interrupted
  <2>1. CASE begun
    <3>1. taken' = taken + 1 /\ taken + 1 <= Len(sent) /\ cut' \in {cut, taken + 1}
      BY <1>9, <2>1 DEF Interrupted, TurnInv
    <3>2. /\ UNCHANGED <<sent, stdin, listening, ready, served, initialized, upstream,
                         executed, replies, signalled, server>>
          /\ begun' = FALSE
      BY <1>9, <2>1 DEF Interrupted, inVars, serveVars
    <3>3. taken' \in 0 .. Len(sent') /\ cut' \in Nat
      BY <3>1, <3>2
    <3> QED
      BY <3>2, <3>3
  <2>2. CASE ~begun
    BY <1>9, <2>2 DEF Interrupted, inVars, serveVars
  <2> QED
    BY <2>1, <2>2
<1>3. CASE \E f \in Frame : Sends(f)
  BY <1>3 DEF Sends, readVars, serveVars
<1>4. CASE CloseInput \/ StopReading \/ ReadOn \/ StopListening
  BY <1>4 DEF CloseInput, Listen, StopReading, ReadOn, StopListening, readVars, serveVars
<1>5. CASE Invoke
  BY <1>5 DEF Invoke, inVars, readVars, Turn
<1>6. ASSUME NEW id \in Ids \cup {Nil}, NEW success \in BOOLEAN, Reply(id, success)
      PROVE  /\ replies' \in Seq(Replies)
             /\ served' \in Nat
             /\ server' \in {"opening", "running", "exited"}
  <2> DEFINE r == [id |-> id, to |-> Turn, ok |-> success]
  <2>1. r \in Replies /\ Turn \in Nat
    BY DEF Replies, Turn
  <2>2. Append(replies, r) \in Seq(Replies)
    BY <2>1
  <2>3. CASE listening = "reads"
    BY <1>6, <2>1, <2>2, <2>3 DEF Reply
  <2>4. CASE listening # "reads"
    BY <1>6, <2>4 DEF Reply
  <2> QED
    BY <2>3, <2>4
<1>7. ASSUME 1 <= Turn, Turn <= taken PROVE sent[Turn].id \in Ids \cup {Nil}
  <2>1. sent[Turn] \in Frame
    BY <1>7 DEF Turn
  <2> QED
    BY <2>1, FrameFields
<1>8. CASE Answers
  <2>1. \E id \in Ids \cup {Nil}, success \in BOOLEAN : Reply(id, success)
    <3>1. CASE Greet
      BY <3>1 DEF Greet
    <3>2. CASE Refuse
      <4>1. (IF Kind \in Anonymous THEN Nil ELSE sent[Turn].id) \in Ids \cup {Nil}
        BY <3>2, <1>7 DEF Refuse, Serving, Turn
      <4> QED
        BY <3>2, <4>1 DEF Refuse
    <3>3. CASE List
      <4>1. sent[Turn].id \in Ids \cup {Nil}
        BY <3>3, <1>7 DEF List, Serving, Turn
      <4>2. Reply(sent[Turn].id, TRUE)
        BY <3>3 DEF List
      <4> QED
        BY <4>1, <4>2
    <3>4. CASE \E success \in BOOLEAN : Finish(success)
      <4>1. PICK success \in BOOLEAN : upstream /\ Reply(sent[Turn].id, success)
        BY <3>4 DEF Finish
      <4>2. sent[Turn].id \in Ids \cup {Nil}
        BY <4>1, <1>7 DEF TurnInv, Turn
      <4> QED
        BY <4>1, <4>2
    <3> QED
      BY <1>8, <3>1, <3>2, <3>3, <3>4 DEF Answers
  <2>2. UNCHANGED <<inVars, readVars, executed, signalled>>
        /\ initialized' \in BOOLEAN /\ upstream' \in BOOLEAN
    BY <1>8 DEF Answers, Greet, Refuse, List, Finish, inVars, readVars
  <2> QED
    BY <1>6, <2>1, <2>2 DEF inVars, readVars
<1> QED
  BY <1>1, <1>2, <1>3, <1>4, <1>5, <1>8, <1>9 DEF Step, Next, Serve, Peer, Send, Sends, Answers

-----------------------------------------------------------------------------
(* The turn ends with one reply under its own id or none, or the output    *)
(* was closed and the process ends.                                        *)
OneReply ==
  \/ UNCHANGED <<replies, served>> /\ server' = "exited"
  \/ /\ served' = Turn
     /\ \E r : /\ replies' = Append(replies, r)
               /\ r.to = Turn
               /\ r.id \in {Nil, sent[Turn].id}
               /\ r.ok => sent[Turn].kind \in {"hello", "list", "invoke"}
               /\ Says(r, Turn)

LEMMA AnswerShape ==
  ASSUME IInv, Answers
  PROVE  /\ 1 <= Turn /\ Turn <= taken
         /\ UNCHANGED <<sent, taken, begun, executed>>
         /\ ~upstream'
         /\ OneReply
<1> USE DEF IInv
<1>0. ASSUME 1 <= Turn, Turn <= taken
      PROVE  /\ sent[Turn].kind \in {"garbage", "hello"} => sent[Turn].id = Nil
             /\ Turn = cut => signalled
  <2>1. sent[Turn] \in Frame
    BY <1>0 DEF Turn, TypeOK
  <2> QED
    BY <1>0, <2>1, FrameFields DEF Turn, TypeOK, CutInv
<1>1. ASSUME NEW id \in {Nil, sent[Turn].id}, NEW success \in BOOLEAN, Reply(id, success),
             success => sent[Turn].kind \in {"hello", "list", "invoke"},
             success /\ sent[Turn].kind = "invoke" => Turn \in executed,
             id = Nil => sent[Turn].id = Nil \/ sent[Turn].kind = "malformed" \/ signalled
      PROVE  OneReply
  <2> DEFINE r == [id |-> id, to |-> Turn, ok |-> success]
  <2>1. r.to = Turn /\ r.id = id /\ r.ok = success
    OBVIOUS
  <2>2. CASE listening = "reads"
    <3>1. replies' = Append(replies, r) /\ served' = Turn
      BY <1>1, <2>2 DEF Reply
    <3> HIDE DEF r
    <3>2. Says(r, Turn)
      BY <1>1, <2>1 DEF Says
    <3> QED
      BY <1>1, <2>1, <3>1, <3>2 DEF OneReply
  <2>3. CASE listening # "reads"
    BY <1>1, <2>3 DEF Reply, OneReply
  <2> QED
    BY <2>2, <2>3
<1>2. CASE Greet
  <2>1. sent[Turn].kind = "hello"
    BY <1>2 DEF Greet, Kind
  <2>2. Reply(Nil, TRUE)
    BY <1>2 DEF Greet
  <2>4. sent[Turn].id = Nil
    BY <1>0, <1>2, <2>1 DEF Greet, Serving, Turn, TypeOK
  <2>3. OneReply
    BY <1>1, <2>1, <2>2, <2>4
  <2> QED
    BY <1>2, <2>3 DEF Greet, Serving, Turn, TypeOK, inVars, readVars
<1>3. CASE Refuse
  <2>1. PICK id \in {Nil, sent[Turn].id} :
          Reply(id, FALSE) /\ (id = Nil => Kind \in Anonymous \/ sent[Turn].id = Nil)
    BY <1>3 DEF Refuse
  <2>3. id = Nil => sent[Turn].id = Nil \/ sent[Turn].kind = "malformed" \/ signalled
    BY <1>0, <1>3, <2>1 DEF Refuse, Serving, Turn, TypeOK, Kind, Anonymous
  <2>2. OneReply
    BY <1>1, <2>1, <2>3
  <2> QED
    BY <1>3, <2>2 DEF Refuse, Serving, Turn, TypeOK, inVars, readVars
<1>4. CASE List
  <2>1. sent[Turn].kind = "list"
    BY <1>4 DEF List, Kind
  <2>2. Reply(sent[Turn].id, TRUE)
    BY <1>4 DEF List
  <2>3. OneReply
    BY <1>1, <2>1, <2>2
  <2> QED
    BY <1>4, <2>3 DEF List, Serving, Turn, TypeOK, inVars, readVars
<1>5. CASE \E success \in BOOLEAN : Finish(success)
  <2>1. PICK success \in BOOLEAN : Finish(success)
    BY <1>5
  <2>2. upstream /\ Reply(sent[Turn].id, success)
    BY <2>1 DEF Finish
  <2>3. sent[Turn].kind = "invoke" /\ Turn \in executed
    BY <2>2 DEF TurnInv, HandshakeFirst
  <2>4. OneReply
    BY <1>1, <2>2, <2>3
  <2> QED
    BY <2>1, <2>2, <2>4 DEF Finish, TurnInv, Turn, TypeOK, inVars, readVars
<1> QED
  BY <1>2, <1>3, <1>4, <1>5 DEF Answers

LEMMA ReadShape ==
  ASSUME IInv, Reads
  PROVE  /\ taken <= taken' /\ taken' <= Len(sent)
         /\ begun' => taken' < Len(sent)
         /\ ~upstream /\ UNCHANGED <<sent, serveVars>>
         /\ server = "running"
<1> USE DEF IInv, TypeOK
<1>1. CASE Read
  <2>1. taken' \in taken .. Len(sent)
    BY <1>1 DEF Read
  <2>2. /\ begun' => taken' < Len(sent)
        /\ ~upstream /\ UNCHANGED <<sent, serveVars>>
        /\ server = "running"
    BY <1>1 DEF Read, Reading, inVars
  <2> QED
    BY <2>1, <2>2
<1>2. CASE Interrupted
  <2>1. ~upstream /\ UNCHANGED <<sent, serveVars>> /\ server = "running"
    BY <1>2 DEF Interrupted, Reading, inVars
  <2>2. CASE begun
    BY <1>2, <2>1, <2>2 DEF Interrupted, TurnInv
  <2>3. CASE ~begun
    BY <1>2, <2>1, <2>3 DEF Interrupted, TurnInv
  <2> QED
    BY <2>2, <2>3
<1> QED
  BY <1>1, <1>2 DEF Reads

LEMMA TurnStep == IInv /\ Step => TurnInv'
<1> SUFFICES ASSUME IInv, Step PROVE TurnInv'
  OBVIOUS
<1> USE DEF IInv, TypeOK, TurnInv, Turn
<1>1. Len(sent) <= Len(sent') /\ Len(sent) \in Nat /\ Len(sent') \in Nat
  <2>1. Len(sent) <= Len(sent')
    BY SentGrows
  <2>2. TypeOK'
    BY TypeStep
  <2> QED
    BY <2>1, <2>2
<1>2. CASE Elsewhere
  BY <1>1, <1>2 DEF Elsewhere, serveVars
<1>3. CASE Reads
  <2>1. /\ taken <= taken' /\ ~upstream' /\ UNCHANGED <<sent, served, replies, executed>>
        /\ begun' => taken' < Len(sent)
    BY <1>3, ReadShape DEF serveVars
  <2>2. TypeOK'
    BY TypeStep
  <2>3. taken \in Nat /\ taken' \in Nat
    BY <2>2
  <2>4. served <= taken'
    BY <2>1, <2>3
  <2>5. executed \subseteq 1 .. taken'
    BY <2>1, <2>3
  <2> QED
    BY <2>1, <2>3, <2>4, <2>5
<1>4. CASE Answers
  <2>5. OneReply
    BY <1>4, AnswerShape
  <2>1. PICK r : \/ UNCHANGED <<replies, served>>
                 \/ served' = Turn /\ replies' = Append(replies, r)
    BY <2>5, Zenon DEF OneReply
  <2>2. Turn <= taken /\ UNCHANGED <<sent, taken, begun, executed>> /\ ~upstream'
    BY <1>4, AnswerShape
  <2>3. CASE UNCHANGED <<replies, served>>
    BY <2>2, <2>3
  <2>4. CASE served' = Turn /\ replies' = Append(replies, r)
    <3>1. Len(replies') = Len(replies) + 1
      BY <2>4
    <3> QED
      BY <2>2, <2>4, <3>1
  <2> QED
    BY <2>1, <2>3, <2>4
<1>5. CASE Invoke
  <2>1. Turn \in 1 .. taken
    BY <1>5 DEF Invoke, Serving
  <2>2. /\ UNCHANGED <<sent, taken, begun, served, replies>>
        /\ executed' = executed \cup {Turn}
    BY <1>5 DEF Invoke, inVars, readVars
  <2> QED
    BY <2>1, <2>2
<1>6. CASE \E f \in Frame : Sends(f)
  <2>1. UNCHANGED <<taken, begun, served, replies, upstream, executed>>
    BY <1>6 DEF Sends, readVars, serveVars
  <2> QED
    BY <1>1, <2>1
<1> QED
  BY <1>2, <1>3, <1>4, <1>5, <1>6, Shapes

LEMMA GreetedStep == IInv /\ Step => GreetedInv'
<1> SUFFICES ASSUME IInv, Step, initialized', server' # "exited"
             PROVE  \E h \in 1 .. served' : sent'[h].kind = "hello"
  BY DEF GreetedInv
<1> USE DEF IInv, TypeOK, TurnInv, GreetedInv
<1>1. ASSUME NEW h \in 1 .. served, sent[h].kind = "hello", served <= served'
      PROVE  \E g \in 1 .. served' : sent'[g].kind = "hello"
  <2>1. h \in 1 .. Len(sent) /\ h \in 1 .. served'
    <3>1. TypeOK'
      BY TypeStep
    <3> QED
      BY <1>1, <3>1
  <2> QED
    BY <1>1, <2>1, SentGrows
<1>2. served <= served' \/ server' = "exited"
  <2>1. CASE Answers
    <3>1. OneReply
      BY <2>1, AnswerShape
    <3>2. served' = served \/ served' = Turn \/ server' = "exited"
      BY <3>1, Zenon DEF OneReply
    <3> QED
      BY <3>2 DEF Turn
  <2>2. CASE Reads
    <3>1. UNCHANGED serveVars
      BY <2>2, ReadShape
    <3> QED
      BY <3>1 DEF serveVars
  <2>3. CASE Elsewhere \/ Invoke \/ \E f \in Frame : Sends(f)
    <3>1. served' = served
      BY <2>3 DEF Elsewhere, Invoke, Sends, serveVars
    <3> QED
      BY <3>1
  <2> QED
    BY <2>1, <2>2, <2>3, Shapes
<1>3. CASE ~initialized
  <2>1. Greet
    BY <1>3 DEF Step, Next, vars, inVars, readVars, serveVars, Serve, Peer, Open, OpenFails, Signal,
              Kill, Poll, Read, EndOfInput, Interrupted, Refuse, List, Invoke, Finish, Send, Sends,
              CloseInput, Listen, StopReading, ReadOn, StopListening
  <2>2. sent[Turn].kind = "hello" /\ UNCHANGED sent
    BY <2>1 DEF Greet, Kind, inVars
  <2>3. Turn >= 1 /\ served' = Turn
    BY <2>1, AnswerShape DEF Answers, OneReply
  <2> QED
    BY <2>2, <2>3 DEF Turn
<1>4. CASE initialized
  <2>1. server # "exited"
    BY DEF Step, Next, vars, inVars, readVars, serveVars, Serve, Peer, Open, OpenFails, Signal, Kill,
           Poll, Reading, Read, EndOfInput, Interrupted, Serving, Greet, Refuse, List, Invoke, Finish,
           Send, Sends, CloseInput, Listen, StopReading, ReadOn, StopListening
  <2> QED
    BY <1>1, <1>2, <1>4, <2>1
<1> QED
  BY <1>3, <1>4

LEMMA RepliesStep == IInv /\ Step => RepliesMatch'
<1> SUFFICES ASSUME IInv, Step, NEW i \in DOMAIN replies'
             PROVE  /\ replies'[i].to = i
                    /\ replies'[i].id \in {Nil, sent'[i].id}
                    /\ replies'[i].ok => sent'[i].kind \in {"hello", "list", "invoke"}
  BY DEF RepliesMatch
<1> USE DEF IInv, TypeOK, TurnInv
<1>1. ASSUME i \in DOMAIN replies, replies'[i] = replies[i]
      PROVE  /\ replies'[i].to = i
             /\ replies'[i].id \in {Nil, sent'[i].id}
             /\ replies'[i].ok => sent'[i].kind \in {"hello", "list", "invoke"}
  <2>1. i \in 1 .. Len(sent)
    BY <1>1
  <2>2. sent'[i] = sent[i]
    BY <2>1, SentGrows
  <2> QED
    BY <1>1, <2>2 DEF RepliesMatch
<1>2. CASE UNCHANGED replies
  BY <1>1, <1>2
<1>3. CASE Answers /\ replies' # replies
  <2>5. OneReply
    BY <1>3, AnswerShape
  <2>1. PICK r : /\ replies' = Append(replies, r)
                 /\ r.to = Turn
                 /\ r.id \in {Nil, sent[Turn].id}
                 /\ r.ok => sent[Turn].kind \in {"hello", "list", "invoke"}
    BY <1>3, <2>5, Zenon DEF OneReply
  <2>2. UNCHANGED sent /\ Turn = Len(replies) + 1
    BY <1>3, AnswerShape DEF Turn
  <2>3. CASE i \in DOMAIN replies
    BY <1>1, <2>1, <2>3
  <2>4. CASE i = Len(replies) + 1
    <3>1. replies'[i] = r
      BY <2>1, <2>4
    <3> QED
      BY <2>1, <2>2, <2>4, <3>1
  <2> QED
    BY <2>1, <2>3, <2>4
<1>4. UNCHANGED replies \/ Answers
  <2>1. CASE Reads
    BY <2>1, ReadShape DEF serveVars
  <2>2. CASE Elsewhere \/ Invoke \/ \E f \in Frame : Sends(f)
    BY <2>2 DEF Elsewhere, Invoke, Sends, serveVars
  <2> QED
    BY <2>1, <2>2, Shapes
<1> QED
  BY <1>2, <1>3, <1>4

LEMMA HandshakeStep == IInv /\ Step => HandshakeFirst'
<1> SUFFICES ASSUME IInv, Step, NEW i \in executed'
             PROVE  sent'[i].kind = "invoke" /\ \E h \in 1 .. i - 1 : sent'[h].kind = "hello"
  BY DEF HandshakeFirst
<1> USE DEF IInv, TypeOK, TurnInv
<1>1. ASSUME i \in 1 .. taken, sent[i].kind = "invoke",
             \E h \in 1 .. i - 1 : sent[h].kind = "hello"
      PROVE  sent'[i].kind = "invoke" /\ \E h \in 1 .. i - 1 : sent'[h].kind = "hello"
  <2>1. PICK h \in 1 .. i - 1 : sent[h].kind = "hello"
    BY <1>1
  <2>2. h \in 1 .. Len(sent) /\ i \in 1 .. Len(sent)
    BY <1>1, <2>1
  <2>3. sent'[h] = sent[h] /\ sent'[i] = sent[i]
    BY <2>2, SentGrows
  <2> QED
    BY <1>1, <2>1, <2>3
<1>2. CASE i \in executed
  BY <1>1, <1>2 DEF HandshakeFirst
<1>3. CASE i \notin executed
  <2>1. Invoke
    <3>1. executed' # executed
      BY <1>3
    <3>2. CASE Answers
      BY <3>1, <3>2, AnswerShape
    <3>3. CASE Reads
      BY <3>1, <3>3, ReadShape DEF serveVars
    <3>4. CASE Elsewhere \/ \E f \in Frame : Sends(f)
      BY <3>1, <3>4 DEF Elsewhere, Sends, serveVars
    <3> QED
      BY <3>2, <3>3, <3>4, Shapes
  <2>2. i = Turn /\ Turn <= taken /\ sent[Turn].kind = "invoke"
    BY <1>3, <2>1 DEF Invoke, Serving, Kind
  <2>3. \E h \in 1 .. served : sent[h].kind = "hello"
    BY <2>1 DEF Invoke, Serving, GreetedInv
  <2>4. i \in 1 .. taken /\ i - 1 = served
    BY <2>2 DEF Turn
  <2> QED
    BY <1>1, <2>2, <2>3, <2>4
<1> QED
  BY <1>2, <1>3

-----------------------------------------------------------------------------
LEMMA CutStep == CutInv /\ Step => CutInv' /\ (signalled => signalled')
BY DEF CutInv, Step, Next, vars, inVars, readVars, serveVars, Serve, Peer, Open, OpenFails, Signal,
       Kill, Poll, Read, EndOfInput, Interrupted, Greet, Refuse, List, Invoke, Finish, Send, Sends,
       CloseInput, Listen, StopReading, ReadOn, StopListening

(* A process that is gone stays so.                                        *)
LEMMA GoneForGood ==
  ASSUME Step, server = "exited"
  PROVE  server' = "exited" /\ UNCHANGED executed
BY DEF Step, Next, vars, inVars, readVars, serveVars, Serve, Peer, Open, OpenFails, Signal,
       Kill, Poll, Reading, Read, EndOfInput, Interrupted, Serving, Greet, Refuse, List, Invoke,
       Finish, Send, Sends, CloseInput, Listen, StopReading, ReadOn, StopListening

LEMMA ExecutedStep == IInv /\ Step => ExecutedInv'
<1> SUFFICES ASSUME IInv, Step, server' # "exited", NEW i \in executed'
             PROVE  i <= served' \/ (upstream' /\ i = Turn')
  BY DEF ExecutedInv
<1> USE DEF IInv, TypeOK, ExecutedInv, Turn
<1>0. server # "exited"
  BY GoneForGood
<1>1. CASE Answers
  <2>1. UNCHANGED executed /\ OneReply
    BY <1>1, AnswerShape
  <2>2. served' = Turn
    BY <2>1 DEF OneReply
  <2>3. i \in Nat /\ (i <= served \/ i = Turn)
    BY <1>0, <2>1
  <2> QED
    BY <2>2, <2>3
<1>2. CASE Reads
  BY <1>0, <1>2, ReadShape DEF serveVars
<1>3. CASE Elsewhere \/ \E f \in Frame : Sends(f)
  BY <1>0, <1>3 DEF Elsewhere, Sends, serveVars
<1>4. CASE Invoke
  BY <1>0, <1>4 DEF Invoke, Serving, TurnInv
<1> QED
  BY <1>1, <1>2, <1>3, <1>4, Shapes

LEMMA RepliesInvStep == IInv /\ Step => RepliesInv'
<1> SUFFICES ASSUME IInv, Step, NEW i \in DOMAIN replies'
             PROVE  Says(replies[i], i)'
  BY DEF RepliesInv
<1> USE DEF IInv, TypeOK, TurnInv
<1>1. executed \subseteq executed'
  <2>1. CASE Answers
    BY <2>1, AnswerShape
  <2>2. CASE Reads
    BY <2>2, ReadShape DEF serveVars
  <2>3. CASE Elsewhere \/ Invoke \/ \E f \in Frame : Sends(f)
    BY <2>3 DEF Elsewhere, Invoke, Sends, serveVars
  <2> QED
    BY <2>1, <2>2, <2>3, Shapes
<1>2. ASSUME NEW r, i \in 1 .. Len(sent), replies'[i] = r, Says(r, i)
      PROVE  Says(replies[i], i)'
  <2>1. sent'[i] = sent[i]
    BY <1>2, SentGrows
  <2>2. signalled => signalled'
    BY CutStep
  <2> QED
    BY <1>1, <1>2, <2>1, <2>2 DEF Says
<1>3. CASE i \in DOMAIN replies /\ replies'[i] = replies[i]
  <2>1. i \in 1 .. Len(sent)
    BY <1>3
  <2> QED
    BY <1>2, <1>3, <2>1 DEF RepliesInv
<1>4. CASE Answers /\ replies' # replies
  <2>1. OneReply
    BY <1>4, AnswerShape
  <2>2. PICK r : replies' = Append(replies, r) /\ Says(r, Turn)
    BY <1>4, <2>1, Zenon DEF OneReply
  <2>3. Turn = Len(replies) + 1 /\ Turn \in 1 .. Len(sent)
    BY <1>4, AnswerShape DEF Turn
  <2>4. CASE i \in DOMAIN replies
    BY <1>3, <2>2, <2>4
  <2>5. CASE i = Turn
    <3>1. replies'[i] = r
      BY <2>2, <2>3, <2>5
    <3> QED
      BY <1>2, <2>2, <2>3, <2>5, <3>1
  <2> QED
    BY <2>2, <2>3, <2>4, <2>5
<1>5. UNCHANGED replies \/ Answers
  <2>1. CASE Reads
    BY <2>1, ReadShape DEF serveVars
  <2>2. CASE Elsewhere \/ Invoke \/ \E f \in Frame : Sends(f)
    BY <2>2 DEF Elsewhere, Invoke, Sends, serveVars
  <2> QED
    BY <2>1, <2>2, Shapes
<1> QED
  BY <1>3, <1>4, <1>5

LEMMA InvariantStep == IInv /\ Step => IInv'
BY TypeStep, TurnStep, GreetedStep, RepliesStep, HandshakeStep, CutStep, ExecutedStep,
   RepliesInvStep DEF IInv

(* The invariant holds of every run of the server: no reply is missing or  *)
(* out of turn, and an upstream request belongs to the frame in turn       *)
(* (serve_stdio with any peer).                                            *)
THEOREM ServerInvariant == Spec => []IInv
<1>1. IInv /\ [Next]_vars => IInv'
  BY InvariantStep DEF Step
<1> QED
  BY InitInv, <1>1, PTL DEF Spec

(* Each frame is answered once, in order, under its own id or none         *)
(* (serve_stdio's loop).                                                   *)
THEOREM AnsweredInOrder == Spec => []RepliesMatch
<1>1. IInv => RepliesMatch
  BY DEF IInv
<1> QED
  BY ServerInvariant, <1>1, PTL

(* Nothing goes upstream for a peer that has not said hello (the gate of   *)
(* serve_stdio before list and invoke).                                    *)
THEOREM NothingBeforeHandshake == Spec => []HandshakeFirst
<1>1. IInv => HandshakeFirst
  BY DEF IInv
<1> QED
  BY ServerInvariant, <1>1, PTL

(* Between its two looks at the flag the reader takes nothing: once it is  *)
(* set, only a frame that was begun is still served.                       *)
Late(n) ==
  /\ signalled /\ ~ready
  /\ taken < n
  /\ begun => taken + 1 < n

LEMMA LateStep ==
  ASSUME IInv, [Next]_vars, NEW n \in Nat, Late(n)
  PROVE  Late(n)'
<1> USE DEF Late, IInv, TypeOK
<1>1. signalled' = TRUE \/ signalled' = signalled
  BY DEF Next, vars, inVars, readVars, serveVars, Serve, Peer, Open, OpenFails, Signal, Kill, Poll,
         Read, EndOfInput, Interrupted, Greet, Refuse, List, Invoke, Finish, Send, CloseInput,
         Listen, StopReading, ReadOn, StopListening
<1>2. CASE Interrupted
  <2>1. taken \in Nat /\ ready' = ready
    BY <1>2 DEF Interrupted
  <2>2. CASE begun
    BY <1>1, <1>2, <2>1, <2>2 DEF Interrupted
  <2>3. CASE ~begun
    BY <1>1, <1>2, <2>1, <2>3 DEF Interrupted
  <2> QED
    BY <2>2, <2>3
<1>3. CASE ~Interrupted
  <2>1. UNCHANGED <<taken, begun, ready>>
    BY <1>3 DEF Next, vars, inVars, readVars, serveVars, Serve, Peer, Open, OpenFails, Signal, Kill,
           Poll, Read, EndOfInput, Greet, Refuse, List, Invoke, Finish, Send, CloseInput,
           Listen, StopReading, ReadOn, StopListening
  <2> QED
    BY <1>1, <2>1
<1> QED
  BY <1>2, <1>3

(* A frame written after the signal is neither answered nor executed,      *)
(* unless the reader was past its second look at the flag when the signal  *)
(* came (InterruptibleStdin.read).                                         *)
THEOREM LateFramesAreRefused == Spec => LateFramesRefused
<1> SUFFICES ASSUME NEW n \in 1 .. MaxFrames
             PROVE  Spec => [](signalled /\ ~ready /\ Len(sent) < n =>
                                 [](Len(replies) < n /\ \A i \in executed : i < n))
  BY DEF LateFramesRefused
<1>0. n \in Nat
  OBVIOUS
<1>1. IInv /\ signalled /\ ~ready /\ Len(sent) < n => Late(n)
  BY <1>0 DEF IInv, TypeOK, TurnInv, Late
<1>2. IInv /\ Late(n) /\ [Next]_vars => Late(n)'
  BY <1>0, LateStep
<1>3. IInv /\ Late(n) => Len(replies) < n /\ \A i \in executed : i < n
  BY <1>0 DEF IInv, TypeOK, TurnInv, Late
<1> QED
  BY ServerInvariant, <1>1, <1>2, <1>3, PTL DEF Spec
=============================================================================
