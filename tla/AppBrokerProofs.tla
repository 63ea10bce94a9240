--------------------------- MODULE AppBrokerProofs ---------------------------
(***************************************************************************)
(* Proofs about AppBroker, for any limit, any budget and any number of     *)
(* requests.                                                               *)
(***************************************************************************)
EXTENDS AppBroker, FiniteSetTheorems, TLAPS

(* The queue holds the requests that are queued, each once.                *)
QueueInv ==
  /\ \A i \in DOMAIN queue : stage[queue[i]] = "queued"
  /\ \A i, j \in DOMAIN queue : queue[i] = queue[j] => i = j

(* The listener deals with one request at a time.                          *)
ListenerInv ==
  \A r, s \in Requests : stage[r] \in AtListener /\ stage[s] \in AtListener => r = s

(* The counters are exact and within their limits.                         *)
SlotsInv == SlotsAccounted /\ Cardinality(Working) <= MaxInFlight

BudgetInv ==
  /\ seen = Cardinality(charged)
  /\ Budget # Nil => seen <= Budget
  /\ \A r \in Requests :
       /\ r \in charged => stage[r] \in {"execute", "upstream", "answered", "ended"}
       /\ stage[r] \in {"execute", "upstream"} => r \in charged

IInv == TypeOK /\ QueueInv /\ ListenerInv /\ SlotsInv /\ BudgetInv

-----------------------------------------------------------------------------
LEMMA WorkingFinite ==
  /\ IsFiniteSet(Working) /\ Cardinality(Working) \in Nat
  /\ IsFiniteSet(Over) /\ Cardinality(Over) \in Nat
<1>1. Working \subseteq Requests /\ Over \subseteq Requests
  BY DEF Working, Over
<1>2. IsFiniteSet(Working) /\ IsFiniteSet(Over)
  BY <1>1, FinitelyMany, FS_Subset
<1> QED
  BY <1>2, FS_CardinalityType

LEMMA Grow ==
  ASSUME NEW S, NEW x, IsFiniteSet(S), x \notin S
  PROVE  Cardinality(S \cup {x}) = Cardinality(S) + 1
BY FS_AddElement

LEMMA Shrink ==
  ASSUME NEW S, NEW x, IsFiniteSet(S), x \in S
  PROVE  Cardinality(S \ {x}) = Cardinality(S) - 1
BY FS_RemoveElement

LEMMA EmptySet == IsFiniteSet({}) /\ Cardinality({}) = 0
BY FS_EmptySet

LEMMA InitInv == Init => IInv
<1> SUFFICES ASSUME Init PROVE IInv
  OBVIOUS
<1>1. TypeOK
  <2>1. <<>> \in Seq(Requests)
    OBVIOUS
  <2> QED
    BY <2>1 DEF Init, TypeOK, Flaws, Answers
<1>2. QueueInv /\ ListenerInv
  BY DEF Init, QueueInv, ListenerInv, AtListener
<1>3. Working = {} /\ Over = {}
  BY DEF Init, Working, Over, AtWork
<1>4. SlotsInv
  <2>1. Cardinality(Working) = 0 /\ Cardinality(Over) = 0
    BY <1>3, EmptySet
  <2> QED
    BY <2>1, Limits DEF Init, SlotsInv, SlotsAccounted
<1>5. BudgetInv
  <2>1. seen = Cardinality(charged)
    BY EmptySet DEF Init
  <2> QED
    BY <2>1, Limits DEF Init, BudgetInv
<1> QED
  BY <1>1, <1>2, <1>4, <1>5 DEF IInv

LEMMA TypeStep == IInv /\ [Next]_vars => TypeOK'
<1> SUFFICES ASSUME IInv, [Next]_vars PROVE TypeOK'
  OBVIOUS
<1> USE DEF IInv, TypeOK, AtListener, AtWork, Flaws, Answers, counters, parent
<1>1. ASSUME NEW r \in Requests, NEW f \in Flaws, Send(r, f) PROVE TypeOK'
  BY <1>1 DEF Send
<1>2. ASSUME NEW r \in Requests, Receive(r) PROVE TypeOK'
  BY <1>2 DEF Receive
<1>3. ASSUME NEW r \in Requests, Uncount(r) PROVE TypeOK'
  <2>1. Over # {} /\ active > 0
    <3>1. r \in Over
      BY <1>3 DEF Uncount, Over
    <3>2. Cardinality(Over) # 0
      BY <3>1, WorkingFinite, FS_EmptySet
    <3> QED
      BY <3>1, <3>2, WorkingFinite DEF SlotsInv, SlotsAccounted
  <2> QED
    BY <1>3, <2>1 DEF Uncount
<1>4. ASSUME NEW r \in Requests, Refuse(r) PROVE TypeOK'
  BY <1>4 DEF Refuse
<1>5. ASSUME NEW r \in Requests, Resolve(r) \/ ReadBody(r) PROVE TypeOK'
  BY <1>5 DEF Resolve, ReadBody, Respond, Proceed
<1>6. ASSUME NEW r \in Requests, Reserve(r) PROVE TypeOK'
  BY <1>6 DEF Reserve, Respond, Proceed
<1>7. ASSUME NEW r \in Requests, Execute(r) PROVE TypeOK'
  BY <1>7 DEF Execute, Respond, Proceed
<1>8. ASSUME NEW r \in Requests, NEW status \in {"upstream", "502"}, Complete(r, status)
      PROVE  TypeOK'
  BY <1>8 DEF Complete, Respond
<1>9. ASSUME NEW r \in Requests, Release(r) PROVE TypeOK'
  <2>1. active > 0
    <3>1. r \in Working
      BY <1>9 DEF Release, Proceed, Working
    <3>2. Cardinality(Working) # 0
      BY <3>1, WorkingFinite, FS_EmptySet
    <3> QED
      BY <3>2, WorkingFinite DEF SlotsInv, SlotsAccounted
  <2> QED
    BY <1>9, <2>1 DEF Release, Proceed
<1>10. CASE ChildExits \/ Look \/ Tell \/ Close
  BY <1>10 DEF ChildExits, Look, Tell, Close
<1>11. CASE UNCHANGED vars
  BY <1>11 DEF vars
<1> QED
  BY <1>1, <1>2, <1>3, <1>4, <1>5, <1>6, <1>7, <1>8, <1>9, <1>10, <1>11
     DEF Next, Work, Listen

(* Who leaves the queue was queued once, and the others stay queued.       *)
LEMMA QueueStep == IInv /\ [Next]_vars => QueueInv'
<1> SUFFICES ASSUME IInv, [Next]_vars PROVE QueueInv'
  OBVIOUS
<1> USE DEF IInv, TypeOK, QueueInv
<1>1. ASSUME NEW r \in Requests, NEW f \in Flaws, Send(r, f) PROVE QueueInv'
  <2>1. \A i \in DOMAIN queue : queue[i] # r /\ queue[i] \in Requests
    BY <1>1 DEF Send
  <2>2. /\ DOMAIN queue' = 1..(Len(queue) + 1)
        /\ queue'[Len(queue) + 1] = r
        /\ \A i \in DOMAIN queue : queue'[i] = queue[i]
        /\ DOMAIN queue = 1..Len(queue) /\ Len(queue) \in Nat
    BY <1>1 DEF Send
  <2>3. stage' = [stage EXCEPT ![r] = "queued"]
    BY <1>1 DEF Send
  <2> QED
    BY <2>1, <2>2, <2>3
<1>2. ASSUME NEW r \in Requests, Receive(r) PROVE QueueInv'
  <2>1. queue # <<>> /\ r = queue[1] /\ queue' = Tail(queue)
    BY <1>2 DEF Receive
  <2>2. /\ DOMAIN queue = 1..Len(queue) /\ Len(queue) \in Nat /\ Len(queue) > 0
        /\ DOMAIN queue' = 1..(Len(queue) - 1)
        /\ \A i \in DOMAIN queue' : queue'[i] = queue[i + 1]
    BY <2>1
  <2>3. \A i \in DOMAIN queue' : queue'[i] # r /\ queue'[i] \in Requests
    BY <2>1, <2>2
  <2>4. \A s \in Requests \ {r} : stage'[s] = stage[s]
    BY <1>2 DEF Receive
  <2>5. \A i \in DOMAIN queue' : i + 1 \in DOMAIN queue
    BY <2>2
  <2>6. \A i \in DOMAIN queue' : stage'[queue'[i]] = "queued"
    BY <2>2, <2>3, <2>4, <2>5
  <2>7. \A i, j \in DOMAIN queue' : queue'[i] = queue'[j] => i = j
    <3> SUFFICES ASSUME NEW i \in DOMAIN queue', NEW j \in DOMAIN queue',
                        queue'[i] = queue'[j]
                 PROVE  i = j
      OBVIOUS
    <3>1. i + 1 = j + 1
      BY <2>2, <2>5
    <3> QED
      BY <2>2, <3>1
  <2> QED
    BY <2>6, <2>7
<1>3. ASSUME UNCHANGED queue,
             \A r \in Requests : stage[r] = "queued" => stage'[r] = "queued"
      PROVE  QueueInv'
  <2>1. \A i \in DOMAIN queue : queue[i] \in Requests
    OBVIOUS
  <2> QED
    BY <1>3, <2>1
<1>4. ASSUME NEW r \in Requests, Work(r) \/ Uncount(r) \/ Refuse(r)
      PROVE  /\ UNCHANGED queue
             /\ \A s \in Requests : stage[s] = "queued" => stage'[s] = "queued"
  BY <1>4 DEF Work, Uncount, Refuse, Resolve, ReadBody, Reserve, Execute, Complete,
              Release, Respond, Proceed
<1>5. CASE ChildExits \/ Look \/ Tell \/ Close \/ UNCHANGED vars
  BY <1>5, <1>3 DEF ChildExits, Look, Tell, Close, vars
<1> QED
  BY <1>1, <1>2, <1>3, <1>4, <1>5 DEF Next, Listen

LEMMA ListenerStep == IInv /\ [Next]_vars => ListenerInv'
<1> SUFFICES ASSUME IInv, [Next]_vars PROVE ListenerInv'
  OBVIOUS
<1> USE DEF IInv, TypeOK, ListenerInv, AtListener
<1>1. ASSUME NEW r \in Requests, Receive(r) PROVE ListenerInv'
  BY <1>1 DEF Receive, ListenerBusy
<1>2. ASSUME NEW r \in Requests, Uncount(r) \/ Refuse(r) PROVE ListenerInv'
  BY <1>2 DEF Uncount, Refuse
<1>3. ASSUME NEW r \in Requests, Work(r) \/ \E f \in Flaws : Send(r, f)
      PROVE  ListenerInv'
  BY <1>3 DEF Work, Send, Resolve, ReadBody, Reserve, Execute, Complete, Release,
              Respond, Proceed
<1>4. CASE ChildExits \/ Look \/ Tell \/ Close \/ UNCHANGED vars
  BY <1>4 DEF ChildExits, Look, Tell, Close, vars
<1> QED
  BY <1>1, <1>2, <1>3, <1>4 DEF Next, Listen

LEMMA SlotsStep == IInv /\ [Next]_vars => SlotsInv'
<1> SUFFICES ASSUME IInv, [Next]_vars PROVE SlotsInv'
  OBVIOUS
<1> USE DEF IInv, TypeOK
<1>1. ASSUME NEW r \in Requests, Receive(r) PROVE SlotsInv'
  <2>0. stage[r] = "queued" /\ r \notin Working /\ r \notin Over
    <3>1. 1 \in DOMAIN queue /\ r = queue[1]
      BY <1>1 DEF Receive
    <3> QED
      BY <3>1 DEF QueueInv, Working, Over, AtWork
  <2>1. Over = {}
    BY <1>1 DEF Receive, ListenerBusy, Over, AtListener
  <2>2. active = Cardinality(Working)
    BY <2>1, EmptySet, WorkingFinite DEF SlotsInv, SlotsAccounted
  <2>3. CASE active >= MaxInFlight
    <3>1. Working' = Working /\ Over' = {r}
      BY <1>1, <2>0, <2>1, <2>3 DEF Receive, Working, Over, AtWork
    <3>2. Cardinality(Over') = 1
      BY <3>1, FS_Singleton
    <3>3. active' = active + 1
      BY <1>1 DEF Receive
    <3> QED
      BY <2>2, <3>1, <3>2, <3>3, WorkingFinite DEF SlotsInv, SlotsAccounted
  <2>4. CASE ~(active >= MaxInFlight)
    <3>1. Working' = Working \cup {r} /\ Over' = {}
      BY <1>1, <2>0, <2>1, <2>4 DEF Receive, Working, Over, AtWork
    <3>2. Cardinality(Working') = Cardinality(Working) + 1
      BY <3>1, <2>0, WorkingFinite, Grow
    <3>3. active' = active + 1 /\ Cardinality(Over') = 0
      BY <1>1, <3>1, EmptySet DEF Receive
    <3> QED
      BY <2>2, <2>4, <3>2, <3>3, WorkingFinite, Limits DEF SlotsInv, SlotsAccounted
  <2> QED
    BY <2>3, <2>4
<1>2. ASSUME NEW r \in Requests, Uncount(r) PROVE SlotsInv'
  <2>1. r \in Over /\ Working' = Working /\ Over' = Over \ {r}
    BY <1>2 DEF Uncount, Working, Over, AtWork
  <2>2. Cardinality(Over') = Cardinality(Over) - 1
    BY <2>1, WorkingFinite, Shrink
  <2>3. active' = active - 1
    BY <1>2 DEF Uncount
  <2> QED
    BY <2>1, <2>2, <2>3, WorkingFinite DEF SlotsInv, SlotsAccounted
<1>3. ASSUME NEW r \in Requests, Release(r) PROVE SlotsInv'
  <2>1. r \in Working /\ Working' = Working \ {r} /\ Over' = Over
    BY <1>3 DEF Release, Proceed, Working, Over, AtWork
  <2>2. Cardinality(Working') = Cardinality(Working) - 1
    BY <2>1, WorkingFinite, Shrink
  <2>3. active' = active - 1 /\ Cardinality(Over') = Cardinality(Over)
    BY <1>3, <2>1 DEF Release
  <2>4. SlotsAccounted'
    BY <2>2, <2>3, WorkingFinite DEF SlotsInv, SlotsAccounted
  <2>5. Cardinality(Working') <= MaxInFlight
    BY <2>2, WorkingFinite, Limits DEF SlotsInv
  <2> QED
    BY <2>4, <2>5 DEF SlotsInv
<1>4. ASSUME UNCHANGED <<Working, Over, active>> PROVE SlotsInv'
  BY <1>4 DEF SlotsInv, SlotsAccounted
<1>5. ASSUME NEW r \in Requests,
             \/ Refuse(r) \/ \E f \in Flaws : Send(r, f)
             \/ Resolve(r) \/ ReadBody(r) \/ Reserve(r) \/ Execute(r)
             \/ \E status \in {"upstream", "502"} : Complete(r, status)
      PROVE  UNCHANGED <<Working, Over, active>>
  BY <1>5 DEF Refuse, Send, Resolve, ReadBody, Reserve, Execute, Complete, Respond,
              Proceed, Working, Over, AtWork, counters
<1>6. CASE ChildExits \/ Look \/ Tell \/ Close \/ UNCHANGED vars
  BY <1>6, <1>4 DEF ChildExits, Look, Tell, Close, Working, Over, counters, vars
<1> QED
  BY <1>1, <1>2, <1>3, <1>4, <1>5, <1>6 DEF Next, Listen, Work

LEMMA BudgetStep == IInv /\ [Next]_vars => BudgetInv'
<1> SUFFICES ASSUME IInv, [Next]_vars PROVE BudgetInv'
  OBVIOUS
<1> USE DEF IInv, TypeOK, BudgetInv
<1>1. ASSUME NEW r \in Requests, Reserve(r) PROVE BudgetInv'
  <2>0. r \notin charged
    BY <1>1 DEF Reserve, Proceed, Respond
  <2>1. CASE UNCHANGED <<seen, charged>>
    BY <1>1, <2>1 DEF Reserve, Proceed, Respond
  <2>2. CASE seen' = seen + 1 /\ charged' = charged \cup {r}
             /\ (Budget # Nil => seen < Budget) /\ Proceed(r, "reserve", "execute")
    <3>1. IsFiniteSet(charged)
      BY FinitelyMany, FS_Subset
    <3>2. Cardinality(charged') = Cardinality(charged) + 1
      BY <2>0, <2>2, <3>1, Grow
    <3>3. Budget # Nil => seen' <= Budget
      BY <2>2, Limits
    <3>4. \A q \in Requests :
            /\ q \in charged' => stage'[q] \in {"execute", "upstream", "answered", "ended"}
            /\ stage'[q] \in {"execute", "upstream"} => q \in charged'
      BY <2>2 DEF Proceed
    <3> QED
      BY <2>2, <3>2, <3>3, <3>4
  <2> QED
    BY <1>1, <2>1, <2>2 DEF Reserve
<1>2. ASSUME UNCHANGED <<seen, charged>>,
             \A r \in Requests :
               /\ stage[r] \in {"execute", "upstream", "answered", "ended"} =>
                    stage'[r] \in {"execute", "upstream", "answered", "ended"}
               /\ stage'[r] \in {"execute", "upstream"} =>
                    stage[r] \in {"execute", "upstream"}
      PROVE  BudgetInv'
  BY <1>2
<1>3. ASSUME NEW r \in Requests, Receive(r) PROVE BudgetInv'
  <2>1. 1 \in DOMAIN queue /\ r = queue[1]
    BY <1>3 DEF Receive
  <2>2. stage[r] = "queued"
    BY <2>1 DEF QueueInv
  <2> QED
    BY <1>3, <2>2, <1>2 DEF Receive
<1>4. ASSUME NEW r \in Requests,
             \/ Uncount(r) \/ Refuse(r) \/ \E f \in Flaws : Send(r, f)
             \/ Resolve(r) \/ ReadBody(r) \/ Execute(r) \/ Release(r)
             \/ \E status \in {"upstream", "502"} : Complete(r, status)
      PROVE  BudgetInv'
  BY <1>4, <1>2 DEF Uncount, Refuse, Send, Resolve, ReadBody, Execute, Release,
                    Complete, Respond, Proceed, counters
<1>5. CASE ChildExits \/ Look \/ Tell \/ Close \/ UNCHANGED vars
  BY <1>5, <1>2 DEF ChildExits, Look, Tell, Close, counters, vars
<1> QED
  BY <1>1, <1>3, <1>4, <1>5 DEF Next, Listen, Work

(* The inductive invariant holds throughout.                               *)
THEOREM BrokerInvariant == Spec => []IInv
<1>1. IInv /\ [Next]_vars => IInv'
  BY TypeStep, QueueStep, ListenerStep, SlotsStep, BudgetStep DEF IInv
<1> QED
  BY InitInv, <1>1, PTL DEF Spec

(* The counter of requests at work is exact: no path through the broker    *)
(* keeps a slot or gives one back twice.                                   *)
THEOREM SlotsExact == Spec => []SlotsAccounted
<1>1. IInv => SlotsAccounted
  BY DEF IInv, SlotsInv
<1> QED
  BY BrokerInvariant, <1>1, PTL

(* The notice agrees with what was charged when the parent looked.         *)
NoticeInv ==
  /\ forwarded \subseteq charged
  /\ session \in {"running", "exited"} => notice = "none"
  /\ notice # "none" => ~heard
  /\ session \in {"looked", "closed"} /\ charged = {} => notice # "none"
  /\ session = "closed" => notice # "due"

(* The user is told that nothing reached the broker only if nothing had    *)
(* when the parent looked, and always if nothing ever did.                 *)
THEOREM NoticeCorrect == Spec => []NoticeIsTrue
<1>1. Init => NoticeInv
  BY DEF Init, NoticeInv
<1>2. IInv /\ NoticeInv /\ [Next]_vars => NoticeInv'
  <2> SUFFICES ASSUME IInv, NoticeInv, [Next]_vars PROVE NoticeInv'
    OBVIOUS
  <2> USE DEF NoticeInv, parent
  <2>1. CASE Look
    <3>1. seen = 0 <=> charged = {}
      BY FinitelyMany, FS_Subset, FS_EmptySet DEF IInv, TypeOK, BudgetInv
    <3>2. notice' # "none" => forwarded = {}
      BY <2>1, <3>1 DEF Look
    <3> QED
      BY <2>1, <3>1, <3>2 DEF Look, counters
  <2>2. CASE Tell
    BY <2>2 DEF Tell, counters
  <2>3. CASE ChildExits \/ Close \/ UNCHANGED vars
    BY <2>3 DEF ChildExits, Close, counters, vars, IInv, TypeOK
  <2>4. ASSUME NEW r \in Requests, Execute(r) PROVE NoticeInv'
    <3>1. r \in charged
      BY <2>4 DEF Execute, Proceed, Respond, IInv, BudgetInv
    <3> QED
      BY <2>4, <3>1 DEF Execute, Proceed, Respond
  <2>5. ASSUME UNCHANGED <<forwarded, parent>>, charged \subseteq charged'
        PROVE  NoticeInv'
    BY <2>5
  <2>6. ASSUME NEW r \in Requests,
               \/ Receive(r) \/ Uncount(r) \/ Refuse(r) \/ \E f \in Flaws : Send(r, f)
               \/ Resolve(r) \/ ReadBody(r) \/ Reserve(r) \/ Release(r)
               \/ \E status \in {"upstream", "502"} : Complete(r, status)
        PROVE  UNCHANGED <<forwarded, parent>> /\ charged \subseteq charged'
    BY <2>6 DEF Receive, Uncount, Refuse, Send, Resolve, ReadBody, Reserve, Release,
                Complete, Proceed, Respond, counters
  <2> QED
    BY <2>1, <2>2, <2>3, <2>4, <2>5, <2>6 DEF Next, Listen, Work
<1>3. IInv /\ NoticeInv => NoticeIsTrue
  <2> SUFFICES ASSUME IInv, NoticeInv PROVE NoticeIsTrue
    OBVIOUS
  <2>1. notice = "printed" => ~heard
    BY DEF NoticeInv
  <2>2. session = "closed" /\ charged = {} => notice \notin {"none", "due"}
    BY DEF NoticeInv
  <2> QED
    BY <2>1, <2>2 DEF NoticeIsTrue, IInv, TypeOK
<1> QED
  BY BrokerInvariant, <1>1, <1>2, <1>3, PTL DEF Spec

-----------------------------------------------------------------------------
(* Refinement: each step of a thread is a step of the gateway or none.     *)
phaseBar == [r \in Requests |-> PhaseOf(r)]

(* A step that moves one request moves that request's phase.               *)
LEMMA PhaseMoves ==
  ASSUME NEW r \in Requests,
         \A s \in Requests \ {r} : stage'[s] = stage[s] /\ answer'[s] = answer[s]
  PROVE  phaseBar' = [phaseBar EXCEPT ![r] = PhaseOf(r)']
<1>1. \A s \in Requests \ {r} : PhaseOf(s)' = PhaseOf(s)
  BY DEF PhaseOf
<1> QED
  BY <1>1 DEF phaseBar

LEMMA PhaseStays ==
  ASSUME \A s \in Requests : PhaseOf(s)' = PhaseOf(s)
  PROVE  phaseBar' = phaseBar
BY DEF phaseBar

LEMMA InsideIsWorking == TypeOK => Gate!Inside = Working
BY DEF TypeOK, Gate!Inside, Working, PhaseOf, AtWork, AtListener

(* The gateway counts with the same operator.                              *)
LEMMA SameCount == \A S : Gate!Cardinality(S) = Cardinality(S)
BY Zenon DEF Gate!Cardinality, Cardinality

LEMMA GatewayInit == Init => Gate!Init
<1> SUFFICES ASSUME Init PROVE Gate!Init
  OBVIOUS
<1>1. \A r \in Requests : PhaseOf(r) = "outside"
  BY DEF Init, PhaseOf, AtListener
<1>2. charged = {}
  BY DEF Init
<1> QED
  BY <1>1, <1>2 DEF Gate!Init

LEMMA GatewayStep == IInv /\ IInv' /\ [Next]_vars => [Gate!Next]_Gate!vars
<1> SUFFICES ASSUME IInv, IInv', [Next]_vars PROVE [Gate!Next]_Gate!vars
  OBVIOUS
<1> USE DEF IInv, TypeOK
<1>1. ASSUME UNCHANGED <<phaseBar, charged>> PROVE [Gate!Next]_Gate!vars
  BY <1>1 DEF Gate!vars, phaseBar
<1>2. ASSUME NEW r \in Requests, NEW from, NEW to,
             \A s \in Requests \ {r} : stage'[s] = stage[s] /\ answer'[s] = answer[s],
             PhaseOf(r) = from, PhaseOf(r)' = to
      PROVE  Gate!Move(r, from, to)
  BY <1>2, PhaseMoves DEF Gate!Move, phaseBar
<1>3. ASSUME NEW r \in Requests, Receive(r) PROVE [Gate!Next]_Gate!vars
  <2>1. stage[r] = "queued" /\ UNCHANGED <<charged, answer>>
        /\ \A s \in Requests \ {r} : stage'[s] = stage[s]
    <3>1. 1 \in DOMAIN queue /\ r = queue[1]
      BY <1>3 DEF Receive
    <3> QED
      BY <1>3, <3>1 DEF Receive, QueueInv
  <2>2. active = Cardinality(Gate!Inside)
    <3>1. Over = {}
      BY <1>3 DEF Receive, ListenerBusy, Over, AtListener
    <3> QED
      BY <3>1, EmptySet, WorkingFinite, InsideIsWorking DEF SlotsInv, SlotsAccounted
  <2>3. CASE active >= MaxInFlight
    <3>1. Gate!Move(r, "outside", "away")
      BY <1>3, <2>1, <2>3, <1>2 DEF Receive, PhaseOf, AtListener
    <3>2. Cardinality(Gate!Inside) = MaxInFlight
      BY <2>2, <2>3, WorkingFinite, InsideIsWorking, Limits DEF SlotsInv
    <3>3. Gate!TurnAway(r)
      BY <2>1, <3>1, <3>2, SameCount DEF Gate!TurnAway
    <3> QED
      BY <3>3 DEF Gate!Next
  <2>4. CASE ~(active >= MaxInFlight)
    <3>1. Gate!Move(r, "outside", "inside")
      BY <1>3, <2>1, <2>4, <1>2 DEF Receive, PhaseOf, AtListener
    <3>2. Cardinality(Gate!Inside) < MaxInFlight
      BY <2>2, <2>4, Limits
    <3>3. Gate!Admit(r)
      BY <2>1, <3>1, <3>2, SameCount DEF Gate!Admit
    <3> QED
      BY <3>3 DEF Gate!Next
  <2> QED
    BY <2>3, <2>4
<1>4. ASSUME NEW r \in Requests, Uncount(r) PROVE [Gate!Next]_Gate!vars
  <2>1. phaseBar' = phaseBar
    BY <1>4, PhaseStays DEF Uncount, PhaseOf, AtListener
  <2> QED
    BY <1>4, <2>1, <1>1 DEF Uncount
<1>5. ASSUME NEW r \in Requests, Refuse(r) PROVE [Gate!Next]_Gate!vars
  <2>1. Gate!Move(r, "away", "gone")
    BY <1>5, <1>2 DEF Refuse, PhaseOf, AtListener
  <2> QED
    BY <1>5, <2>1 DEF Refuse, counters, Gate!Next, Gate!Leave
<1>6. ASSUME NEW r \in Requests, Resolve(r) \/ ReadBody(r) PROVE [Gate!Next]_Gate!vars
  <2>1. CASE stage'[r] = "answered"
    <3>1. Gate!Move(r, "inside", "leaving")
      BY <1>6, <2>1, <1>2 DEF Resolve, ReadBody, Respond, Proceed, PhaseOf, AtListener
    <3> QED
      BY <1>6, <3>1 DEF Resolve, ReadBody, counters, Gate!Next, Gate!Reject
  <2>2. CASE stage'[r] # "answered"
    <3>1. phaseBar' = phaseBar
      BY <1>6, <2>2, PhaseStays
         DEF Resolve, ReadBody, Respond, Proceed, PhaseOf, AtListener
    <3> QED
      BY <1>6, <3>1, <1>1 DEF Resolve, ReadBody, counters
  <2> QED
    BY <2>1, <2>2
<1>7. ASSUME NEW r \in Requests, Reserve(r) PROVE [Gate!Next]_Gate!vars
  <2>1. CASE Proceed(r, "reserve", "execute")
    <3>1. Gate!Move(r, "inside", "charged")
      BY <2>1, <1>2 DEF Proceed, PhaseOf, AtListener
    <3>2. (Budget # Nil => seen < Budget) /\ charged' = charged \cup {r}
      BY <1>7, <2>1 DEF Reserve, Proceed, Respond
    <3>3. Budget # Nil => Cardinality(charged) < Budget
      BY <3>2 DEF BudgetInv
    <3>4. Gate!Charge(r)
      BY <3>1, <3>2, <3>3, SameCount DEF Gate!Charge
    <3> QED
      BY <3>4 DEF Gate!Next
  <2>2. CASE Respond(r, "reserve", "429")
    <3>1. Gate!Move(r, "inside", "denied")
      BY <2>2, <1>2 DEF Respond, PhaseOf, AtListener
    <3>2. Budget # Nil /\ seen >= Budget /\ UNCHANGED charged
      BY <1>7, <2>2 DEF Reserve, Proceed, Respond
    <3>3. Cardinality(charged) = Budget
      BY <3>2, Limits DEF BudgetInv
    <3>4. Gate!Deny(r)
      BY <3>1, <3>2, <3>3, SameCount DEF Gate!Deny
    <3> QED
      BY <3>4 DEF Gate!Next
  <2> QED
    BY <1>7, <2>1, <2>2 DEF Reserve
<1>8. ASSUME NEW r \in Requests, Execute(r) PROVE [Gate!Next]_Gate!vars
  <2>1. CASE Respond(r, "execute", "400")
    <3>1. Gate!Move(r, "charged", "leaving")
      BY <2>1, <1>2 DEF Respond, PhaseOf, AtListener
    <3> QED
      BY <1>8, <3>1 DEF Execute, Gate!Next, Gate!Answer
  <2>2. CASE Proceed(r, "execute", "upstream")
    <3>1. Gate!Move(r, "charged", "forwarded")
      BY <2>2, <1>2 DEF Proceed, PhaseOf, AtListener
    <3> QED
      BY <1>8, <3>1 DEF Execute, Gate!Next, Gate!Forward
  <2> QED
    BY <1>8, <2>1, <2>2 DEF Execute
<1>9. ASSUME NEW r \in Requests, NEW status \in {"upstream", "502"}, Complete(r, status)
      PROVE  [Gate!Next]_Gate!vars
  <2>1. Gate!Move(r, "forwarded", "leaving")
    BY <1>9, <1>2 DEF Complete, Respond, PhaseOf, AtListener
  <2> QED
    BY <1>9, <2>1 DEF Complete, counters, Gate!Next, Gate!Answer
<1>10. ASSUME NEW r \in Requests, Release(r) PROVE [Gate!Next]_Gate!vars
  <2>1. Gate!Move(r, "denied", "gone") \/ Gate!Move(r, "leaving", "gone")
    BY <1>10, <1>2 DEF Release, Proceed, PhaseOf, AtListener
  <2> QED
    BY <1>10, <2>1 DEF Release, Gate!Next, Gate!Leave
<1>11. ASSUME NEW r \in Requests, NEW f \in Flaws, Send(r, f) PROVE [Gate!Next]_Gate!vars
  <2>1. phaseBar' = phaseBar
    BY <1>11, PhaseStays DEF Send, PhaseOf, AtListener
  <2> QED
    BY <1>11, <2>1, <1>1 DEF Send, counters
<1>12. CASE ChildExits \/ Look \/ Tell \/ Close \/ UNCHANGED vars
  <2>1. UNCHANGED <<stage, answer, charged>>
    BY <1>12 DEF ChildExits, Look, Tell, Close, counters, vars
  <2>2. phaseBar' = phaseBar
    BY <2>1, PhaseStays DEF PhaseOf
  <2> QED
    BY <2>1, <2>2, <1>1
<1> QED
  BY <1>3, <1>4, <1>5, <1>6, <1>7, <1>8, <1>9, <1>10, <1>11, <1>12
     DEF Next, Listen, Work

(* At most MaxInFlight requests are at work, 503 and 429 are given only    *)
(* when the broker is full or its budget used up, and nothing is forwarded *)
(* that was not charged: for every limit, budget and number of requests.   *)
THEOREM BrokerIsGateway == Spec => ImplementsGateway
<1> QED
  BY BrokerInvariant, GatewayInit, GatewayStep, PTL DEF Spec, ImplementsGateway, Gate!Spec
=============================================================================
