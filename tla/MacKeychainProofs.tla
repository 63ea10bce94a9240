------------------------- MODULE MacKeychainProofs -------------------------
(***************************************************************************)
(* The Keychain backend implements ProjectStore, for any number of         *)
(* processes, projects, capabilities and revisions.  The inductive         *)
(* invariant says what each process has asked for and, for a replace that  *)
(* found nothing, that its revision stays stale: revisions are never drawn *)
(* twice, so the second look cannot find what the first has missed.  What  *)
(* processes know of the items they have read shows that an edit replaces  *)
(* only what its user was shown.                                           *)
(***************************************************************************)
EXTENDS MacKeychain, FiniteSetTheorems, TLAPS

(* What a command asks for.                                                *)
Asked(r) ==
  \/ r = Request("list", Nil, Nil, {})
  \/ \E n \in Names :
       \/ r = Request("get", n, Nil, {})
       \/ r = Request("create", n, Nil, {})
       \/ r = Request("delete", n, Nil, {})
       \/ \E rev \in Revisions, cs \in SUBSET Caps : r = Request("replace", n, rev, cs)

RequestInv ==
  \A p \in Procs :
    /\ pc[p] = "idle" => request[p] = NoRequest /\ reply[p] = NoReply
    /\ pc[p] # "idle" => Asked(request[p])
    /\ pc[p] \in {"authorize", "call", "applied", "recheck"} => reply[p] = NoReply
    /\ pc[p] = "applied" => request[p].op \in {"create", "replace", "delete"}
    /\ pc[p] = "done" => reply[p].status # "none"
    /\ HasProject(p) => reply[p].rev \in Revisions

StaleInv ==
  \A p \in Procs :
    pc[p] = "recheck" => request[p].op = "replace" /\ ~Matches(request[p])

IInv == TypeOK /\ RequestInv /\ StaleInv

-----------------------------------------------------------------------------
LEMMA AskedIsRequest ==
  ASSUME NEW r, Asked(r)
  PROVE  /\ r \in Requests
         /\ r \in Repository!Requests
         /\ r # NoRequest
         /\ r.op # "list" => r.name \in Names
<1>1. r \in Requests /\ r # NoRequest /\ (r.op # "list" => r.name \in Names)
  BY DEF Asked, Request, Requests, NoRequest
<1>2. r \in Repository!Requests
  BY DEF Asked, Request, Repository!Requests
<1> QED
  BY <1>1, <1>2

(* A replace asks for the version of the project its process has read and  *)
(* shown to its user.                                                      *)
Follows(p, r) ==
  \/ r.rev = Nil /\ UNCHANGED shown
  \/ /\ HasProject(p)
     /\ r.rev = reply[p].rev /\ r.name = request[p].name
     /\ shown' = [shown EXCEPT ![p] = reply[p].caps]

(* What a user may revise a project into.                                  *)
LEMMA ReviseAsks ==
  ASSUME TypeOK, RequestInv, NEW p \in Procs, Revise(p)
  PROVE  \E r : Asked(r) /\ Follows(p, r) /\ Ask(p, r)
<1>1. request[p].op = "get" /\ pc[p] = "done" /\ HasProject(p)
  BY DEF Revise, HasProject
<1>2. request[p].name \in Names /\ reply[p].rev \in Revisions
  BY <1>1, AskedIsRequest DEF RequestInv
<1>3. reply[p].caps \in SUBSET Caps
  BY DEF TypeOK, Replies
<1>4. PICK c \in Caps :
        \E cs \in {reply[p].caps, reply[p].caps \cup {c}, reply[p].caps \ {c}} :
          Ask(p, Request("replace", request[p].name, reply[p].rev, cs))
  BY DEF Revise
<1>5. PICK cs \in SUBSET Caps :
        Ask(p, Request("replace", request[p].name, reply[p].rev, cs))
  BY <1>3, <1>4
<1> DEFINE r == Request("replace", request[p].name, reply[p].rev, cs)
<1>6. Asked(r)
  BY <1>2, <1>5 DEF Asked
<1>7. Follows(p, r)
  BY <1>1, <1>5 DEF Follows, Request, Revise
<1>8. Ask(p, r)
  BY <1>5
<1> QED
  BY <1>6, <1>7, <1>8

(* The shapes of a step, for the process that takes it.                    *)
Asking(p) ==
  /\ ~(pc[p] \in {"authorize", "call", "applied", "recheck"})
  /\ \E r : Asked(r) /\ Follows(p, r) /\ Ask(p, r)

Leaving(p) == pc[p] # "idle" /\ Exit(p)

Waiting(p) ==
  \/ Authorized(p) \/ ReplaceFindsNothing(p)
  \/ \E result \in {"granted", "denied"} : Answer(p, result)

Returning(p) ==
  \/ Denied(p) \/ Timeout(p) \/ ReturnList(p) \/ ReturnProject(p) \/ NotFound(p)
  \/ AlreadyExists(p) \/ ReplaceRefused(p) \/ Succeed(p) \/ CallFails(p)

Applying(p) == Create(p) \/ Replace(p) \/ Remove(p)

LEMMA Shapes ==
  ASSUME TypeOK, RequestInv, [Next]_vars
  PROVE  \/ UNCHANGED vars
         \/ \E p \in Procs :
              Asking(p) \/ Leaving(p) \/ Waiting(p) \/ Returning(p) \/ Applying(p)
<1>1. ASSUME NEW p \in Procs, Revise(p) PROVE Asking(p)
  BY <1>1, ReviseAsks DEF Asking, Revise, HasProject
<1>2. ASSUME NEW p \in Procs,
             List(p) \/ \E n \in Names : Add(p, n) \/ Get(p, n) \/ Delete(p, n)
      PROVE  Asking(p)
  <2>1. PICK r : Asked(r) /\ r.rev = Nil /\ Start(p, r)
    BY <1>2 DEF Asked, List, Add, Get, Delete, Request
  <2> QED
    BY <2>1 DEF Asking, Follows, Start
<1>3. ASSUME NEW p \in Procs, Finish(p) \/ Leave(p) \/ Crash(p) PROVE Leaving(p)
  BY <1>3 DEF Leaving, Finish, Leave, Crash, HasProject
<1> QED
  BY <1>1, <1>2, <1>3 DEF Next, Run, User, Waiting, Returning, Applying

-----------------------------------------------------------------------------
LEMMA InitInv == Init => IInv
BY Sentinel DEF Init, IInv, TypeOK, RequestInv, StaleInv, NoRequest, NoReply, Request,
                Reply, Requests, Replies, HasProject

(* A new revision is one that nobody holds.                                *)
LEMMA FreshIsUnused ==
  ASSUME FreshRevisions # {}
  PROVE  /\ FreshRevision \in Revisions
         /\ \A n \in Present : items[n].rev # FreshRevision
         /\ \A p \in Procs : FreshRevision \notin {request[p].rev, reply[p].rev}
<1>1. FreshRevision \in FreshRevisions
  BY DEF FreshRevision
<1> QED
  BY <1>1 DEF FreshRevisions

LEMMA TypeStep == TypeOK /\ RequestInv /\ [Next]_vars => TypeOK'
<1> SUFFICES ASSUME TypeOK, RequestInv, [Next]_vars PROVE TypeOK'
  OBVIOUS
<1> USE DEF TypeOK
<1>1. ASSUME NEW p \in Procs, Asking(p) PROVE TypeOK'
  <2>1. PICK r : Asked(r) /\ Follows(p, r) /\ Ask(p, r)
    BY <1>1 DEF Asking
  <2>2. r \in Requests /\ NoReply \in Replies
    BY <2>1, AskedIsRequest DEF NoReply, Reply, Replies
  <2>3. shown' \in [Procs -> SUBSET Caps]
    BY <2>1 DEF Follows, Replies
  <2> QED
    BY <2>1, <2>2, <2>3 DEF Ask
<1>2. ASSUME NEW p \in Procs, Leaving(p) PROVE TypeOK'
  <2>1. NoRequest \in Requests /\ NoReply \in Replies
    BY DEF NoRequest, Request, Requests, NoReply, Reply, Replies
  <2> QED
    BY <1>2, <2>1 DEF Leaving, Exit
<1>3. ASSUME NEW p \in Procs, Waiting(p) PROVE TypeOK'
  BY <1>3 DEF Waiting, Authorized, ReplaceFindsNothing, Answer
<1>4. ASSUME NEW p \in Procs, Returning(p) PROVE TypeOK'
  <2>1. ASSUME NEW a \in Replies, Return(p, a) PROVE TypeOK'
    BY <2>1 DEF Return
  <2>2. \A s \in {"ok", "NotFound", "AlreadyExists", "Conflict", "Error"} :
          Reply(s) \in Replies
    BY DEF Reply, Replies
  <2>3. CASE ReturnList(p)
    <3>1. [Reply("ok") EXCEPT !.names = Present] \in Replies
      BY DEF Reply, Replies, Present
    <3> QED
      BY <2>1, <2>3, <3>1 DEF ReturnList
  <2>4. CASE ReturnProject(p)
    <3> DEFINE i == items[request[p].name]
    <3>1. i \in Item
      BY <2>4, AskedIsRequest DEF ReturnProject, RequestInv, Present
    <3>2. [Reply("ok") EXCEPT !.rev = i.rev, !.caps = i.caps] \in Replies
      BY <3>1 DEF Reply, Replies, Item
    <3> QED
      BY <2>1, <2>4, <3>2 DEF ReturnProject
  <2> QED
    BY <1>4, <2>1, <2>2, <2>3, <2>4
       DEF Returning, Denied, Timeout, NotFound, AlreadyExists, ReplaceRefused,
           Succeed, CallFails
<1>5. ASSUME NEW p \in Procs, Applying(p) PROVE TypeOK'
  <2>1. ASSUME NEW n \in Names, NEW i \in Item \cup {Nil}, Apply(p, n, i) PROVE TypeOK'
    BY <2>1 DEF Apply
  <2>2. request[p].name \in Names
    BY <1>5, AskedIsRequest DEF Applying, Create, Replace, Remove, RequestInv
  <2>3. request[p].caps \in SUBSET Caps
    BY DEF Requests
  <2>4. FreshRevisions # {} => [rev |-> FreshRevision, caps |-> request[p].caps] \in Item
    BY <2>3, FreshIsUnused DEF Item
  <2> QED
    BY <1>5, <2>1, <2>2, <2>4 DEF Applying, Create, Replace, Remove
<1> QED
  BY <1>1, <1>2, <1>3, <1>4, <1>5, Shapes DEF vars

LEMMA RequestStep == TypeOK /\ RequestInv /\ [Next]_vars => RequestInv'
<1> SUFFICES ASSUME TypeOK, RequestInv, [Next]_vars PROVE RequestInv'
  OBVIOUS
<1> USE DEF RequestInv, HasProject
<1>1. ASSUME NEW p \in Procs, Asking(p) PROVE RequestInv'
  BY <1>1 DEF TypeOK, Asking, Ask, NoReply, Reply
<1>2. ASSUME NEW p \in Procs, Leaving(p) PROVE RequestInv'
  BY <1>2 DEF TypeOK, Leaving, Exit
<1>3. ASSUME NEW p \in Procs, Waiting(p) PROVE RequestInv'
  BY <1>3 DEF TypeOK, Waiting, Authorized, ReplaceFindsNothing, Answer
<1>4. ASSUME NEW p \in Procs, Returning(p) PROVE RequestInv'
  <2>1. ASSUME NEW a, Return(p, a), pc[p] # "idle", a.status # "none",
               request[p].op = "get" /\ a.status = "ok" => a.rev \in Revisions
        PROVE  RequestInv'
    BY <2>1 DEF TypeOK, Return
  <2>2. \A s : Reply(s).status = s
    BY DEF Reply
  <2>3. CASE ReturnList(p)
    BY <2>1, <2>3 DEF ReturnList, Reply
  <2>4. CASE ReturnProject(p)
    <3> DEFINE i == items[request[p].name]
    <3>1. i \in Item
      BY <2>4, AskedIsRequest DEF TypeOK, ReturnProject, Present
    <3>2. i.rev \in Revisions
      BY <3>1 DEF Item
    <3> QED
      BY <2>1, <2>4, <3>2 DEF ReturnProject, Reply
  <2>5. CASE Succeed(p)
    BY <2>1, <2>2, <2>5 DEF Succeed
  <2> QED
    BY <1>4, <2>1, <2>2, <2>3, <2>4, <2>5
       DEF Returning, Denied, Timeout, NotFound, AlreadyExists, ReplaceRefused, CallFails
<1>5. ASSUME NEW p \in Procs, Applying(p) PROVE RequestInv'
  BY <1>5 DEF TypeOK, Applying, Create, Replace, Remove, Apply
<1> QED
  BY <1>1, <1>2, <1>3, <1>4, <1>5, Shapes DEF vars, NoRequest, NoReply

LEMMA StaleStep == IInv /\ [Next]_vars => StaleInv'
<1> SUFFICES ASSUME IInv, [Next]_vars PROVE StaleInv'
  OBVIOUS
<1> USE DEF IInv, TypeOK, StaleInv
<1>1. ASSUME NEW p \in Procs, Asking(p) \/ Leaving(p) \/ Returning(p) PROVE StaleInv'
  <2>1. ASSUME UNCHANGED items, pc'[p] # "recheck",
               \A q \in Procs \ {p} : pc'[q] = pc[q] /\ request'[q] = request[q]
        PROVE  StaleInv'
    BY <2>1 DEF Matches, Present
  <2> QED
    BY <1>1, <2>1 DEF Asking, Ask, Leaving, Exit, Returning, Denied, Timeout, ReturnList,
         ReturnProject, NotFound, AlreadyExists, ReplaceRefused, Succeed, CallFails, Return
<1>2. ASSUME NEW p \in Procs, Waiting(p) PROVE StaleInv'
  BY <1>2 DEF Waiting, Authorized, ReplaceFindsNothing, Answer, Matches, Present
<1>3. ASSUME NEW p \in Procs, Applying(p) PROVE StaleInv'
  <2>1. UNCHANGED request /\ pc'[p] # "recheck" /\ \A q \in Procs \ {p} : pc'[q] = pc[q]
    BY <1>3 DEF Applying, Create, Replace, Remove, Apply
  <2>2. PICK n \in Names :
          /\ \A m \in Names \ {n} : items'[m] = items[m]
          /\ \/ items'[n] = Nil
             \/ (FreshRevisions # {} /\ items'[n].rev = FreshRevision)
    <3>1. request[p].name \in Names
      BY <1>3, AskedIsRequest DEF Applying, Create, Replace, Remove, RequestInv
    <3>2. \A m \in Names \ {request[p].name} : items'[m] = items[m]
      BY <1>3, <3>1 DEF Applying, Create, Replace, Remove, Apply
    <3>3. \/ items'[request[p].name] = Nil
          \/ /\ FreshRevisions # {}
             /\ items'[request[p].name] = [rev |-> FreshRevision, caps |-> request[p].caps]
      <4>1. CASE Remove(p)
        BY <3>1, <4>1 DEF Remove, Apply
      <4>2. CASE Create(p) \/ Replace(p)
        BY <3>1, <4>2 DEF Create, Replace, Apply
      <4> QED
        BY <1>3, <4>1, <4>2 DEF Applying
    <3>4. \/ items'[request[p].name] = Nil
          \/ (FreshRevisions # {} /\ items'[request[p].name].rev = FreshRevision)
      BY <3>3
    <3> QED
      BY <3>1, <3>2, <3>4
  <2>3. ASSUME NEW q \in Procs, pc[q] = "recheck", Matches(request[q])'
        PROVE  FALSE
    <3>1. request[q].name \in Present' /\ items'[request[q].name].rev = request[q].rev
      BY <2>1, <2>3 DEF Matches
    <3>2. request[q].name # n
      BY <2>2, <3>1, FreshIsUnused DEF Present
    <3>3. request[q].name \in Names
      BY <3>1 DEF Present
    <3> QED
      BY <2>2, <2>3, <3>1, <3>2, <3>3 DEF Matches, Present
  <2> QED
    BY <2>1, <2>3
<1> QED
  BY <1>1, <1>2, <1>3, Shapes DEF vars, Matches, Present

(* The inductive invariant holds throughout.                               *)
THEOREM KeychainInvariant == Spec => []IInv
<1>1. IInv /\ [Next]_vars => IInv'
  BY TypeStep, RequestStep, StaleStep DEF IInv
<1> QED
  BY InitInv, <1>1, PTL DEF Spec

-----------------------------------------------------------------------------
(* Refinement: each step of a process is a step of the store or none.      *)
appliedBar == [p \in Procs |-> pc[p] = "applied"]

(* The store counts with the same operator.                                *)
LEMMA SameCount == \A S : Repository!Cardinality(S) = Cardinality(S)
BY Zenon DEF Repository!Cardinality, Cardinality

LEMMA AppliedStays ==
  ASSUME \A p \in Procs : pc'[p] = "applied" <=> pc[p] = "applied"
  PROVE  appliedBar' = appliedBar
BY Zenon DEF appliedBar

LEMMA AppliedMoves ==
  ASSUME NEW p \in Procs, NEW b \in BOOLEAN, pc'[p] = "applied" <=> b,
         \A q \in Procs \ {p} : pc'[q] = pc[q]
  PROVE  appliedBar' = [appliedBar EXCEPT ![p] = b]
<1>1. \A q \in Procs : (pc'[q] = "applied") = (IF q = p THEN b ELSE pc[q] = "applied")
  BY Zenon
<1> QED
  BY Zenon, <1>1 DEF appliedBar

LEMMA StoreInit == Init => Repository!Init
<1> SUFFICES ASSUME Init PROVE Repository!Init
  OBVIOUS
<1>1. appliedBar = [p \in Procs |-> FALSE]
  BY Zenon DEF Init, appliedBar
<1> QED
  BY <1>1 DEF Init, appliedBar, Repository!Init, Repository!NoRequest, NoRequest, Request,
              Repository!NoReply, NoReply, Repository!Reply, Reply

LEMMA FreshForStore ==
  ASSUME FreshRevisions # {}
  PROVE  FreshRevision \in Revisions /\ Repository!Fresh(FreshRevision)
BY FreshIsUnused DEF Repository!Fresh, Present

(* The Keychain has no limit on projects: there is room for every name.    *)
LEMMA Room ==
  ASSUME NEW n \in Names, n \notin Present
  PROVE  Repository!Cardinality(Repository!Present) < Cardinality(Names)
<1>1. Repository!Present = Present
  BY DEF Repository!Present, Present
<1>2. Present \in SUBSET Names /\ Present # Names
  BY DEF Present
<1>3. Cardinality(Present) < Cardinality(Names)
  <2>1. /\ IsFiniteSet(Present) /\ Cardinality(Present) <= Cardinality(Names)
        /\ Cardinality(Present) # Cardinality(Names)
    BY <1>2, FiniteNames, FS_Subset
  <2>2. Cardinality(Present) \in Nat /\ Cardinality(Names) \in Nat
    BY <2>1, FiniteNames, FS_CardinalityType
  <2> QED
    BY <2>1, <2>2
<1>4. Repository!Cardinality(Present) = Cardinality(Present)
  BY SameCount
<1> QED
  BY <1>1, <1>3, <1>4

LEMMA StoreStep == IInv /\ [Next]_vars => [Repository!Next]_Repository!vars
<1> SUFFICES ASSUME IInv, [Next]_vars PROVE [Repository!Next]_Repository!vars
  OBVIOUS
<1> USE DEF IInv, TypeOK
<1>1. ASSUME UNCHANGED <<items, request, reply, appliedBar>>
      PROVE  [Repository!Next]_Repository!vars
  BY <1>1 DEF Repository!vars, appliedBar
<1>2. ASSUME NEW p \in Procs, Asking(p) PROVE [Repository!Next]_Repository!vars
  <2>1. PICK r : Asked(r) /\ Ask(p, r)
    BY <1>2 DEF Asking
  <2>2. r \in Repository!Requests
    BY <2>1, AskedIsRequest
  <2>3. ~Repository!Open(p)
    BY <1>2 DEF Asking, RequestInv, Repository!Open, Repository!NoRequest, NoRequest, Request,
                Repository!NoReply, Repository!Reply
  <2>4. appliedBar' = appliedBar
    <3>1. \A q \in Procs : pc'[q] = "applied" <=> pc[q] = "applied"
      BY <1>2, <2>1 DEF Asking, Ask
    <3> QED
      BY <3>1, AppliedStays
  <2>5. request'[p] = r
    BY <2>1 DEF Ask
  <2>6. Repository!Invoke(p)
    BY <2>1, <2>2, <2>3, <2>4, <2>5 DEF Ask, Repository!Invoke, NoReply, Reply,
       Repository!NoReply, Repository!Reply, appliedBar
  <2> QED
    BY <2>6 DEF Repository!Next
<1>3. ASSUME NEW p \in Procs, Leaving(p) PROVE [Repository!Next]_Repository!vars
  <2>1. request[p] # NoRequest
    BY <1>3, AskedIsRequest DEF Leaving, RequestInv
  <2>2. appliedBar' = [appliedBar EXCEPT ![p] = FALSE]
    <3>1. pc'[p] # "applied" /\ \A q \in Procs \ {p} : pc'[q] = pc[q]
      BY <1>3 DEF Leaving, Exit
    <3> QED
      BY <3>1, AppliedMoves
  <2>3. Repository!Leave(p)
    BY <1>3, <2>1, <2>2 DEF Leaving, Exit, NoRequest, Request, Repository!NoRequest, NoReply,
         Reply, Repository!NoReply, Repository!Reply, Repository!Leave, appliedBar
  <2> QED
    BY <2>3 DEF Repository!Next
<1>4. ASSUME NEW p \in Procs, Waiting(p) PROVE [Repository!Next]_Repository!vars
  <2>1. UNCHANGED <<items, request, reply>>
        /\ \A q \in Procs : pc'[q] = "applied" <=> pc[q] = "applied"
    BY <1>4 DEF Waiting, Authorized, ReplaceFindsNothing, Answer
  <2> QED
    BY <2>1, AppliedStays, <1>1
<1>5. ASSUME NEW p \in Procs, NEW a, Return(p, a), pc[p] \in {"authorize", "call", "recheck"}
      PROVE  /\ appliedBar' = appliedBar
             /\ Repository!Open(p) /\ ~appliedBar[p]
             /\ UNCHANGED <<items, request>> /\ reply' = [reply EXCEPT ![p] = a]
  <2>1. \A q \in Procs : pc'[q] = "applied" <=> pc[q] = "applied"
    BY <1>5 DEF Return
  <2>2. Repository!Open(p)
    <3>1. request[p] # NoRequest /\ reply[p] = NoReply
      BY <1>5, AskedIsRequest DEF RequestInv
    <3> QED
      BY <3>1 DEF Repository!Open, NoRequest, Request, Repository!NoRequest, NoReply, Reply,
                  Repository!NoReply, Repository!Reply
  <2>3. ~appliedBar[p]
    BY Zenon, <1>5 DEF appliedBar
  <2> QED
    BY <1>5, <2>1, <2>2, <2>3, AppliedStays DEF Return
<1>6. ASSUME NEW p \in Procs, NEW why, Return(p, Reply(why)),
             pc[p] \in {"call", "recheck"},
             why \in {"NotFound", "AlreadyExists", "Conflict"},
             Repository!Justified(request[p], why)
      PROVE  [Repository!Next]_Repository!vars
  <2>1. reply'[p].status = why
    BY <1>6 DEF Return, Reply
  <2>2. Repository!Refuse(p)
    BY <1>5, <1>6, <2>1 DEF Repository!Refuse, Repository!Refusals, Reply, Repository!Reply,
                            appliedBar
  <2> QED
    BY <2>2 DEF Repository!Next
<1>7. ASSUME NEW p \in Procs, Return(p, Reply("Error")),
             pc[p] \in {"authorize", "call", "recheck"}
      PROVE  [Repository!Next]_Repository!vars
  <2>1. reply'[p].status = "Error"
    BY <1>7 DEF Return, Reply
  <2>2. Repository!Fail(p)
    BY <1>5, <1>7, <2>1 DEF Repository!Fail, Repository!Failures, Reply, Repository!Reply,
                            appliedBar
  <2> QED
    BY <2>2 DEF Repository!Next
<1>8. ASSUME NEW p \in Procs, Denied(p) \/ Timeout(p) PROVE [Repository!Next]_Repository!vars
  BY <1>7, <1>8 DEF Denied, Timeout
<1>9. ASSUME NEW p \in Procs, ReturnList(p) PROVE [Repository!Next]_Repository!vars
  <2>1. Repository!AnswerList(p)
    BY <1>5, <1>9 DEF ReturnList, Repository!AnswerList, Reply, Repository!Reply,
                      Present, Repository!Present, appliedBar
  <2> QED
    BY <2>1 DEF Repository!Next
<1>10. ASSUME NEW p \in Procs, ReturnProject(p) PROVE [Repository!Next]_Repository!vars
  <2>1. Repository!AnswerGet(p)
    BY <1>5, <1>10 DEF ReturnProject, Repository!AnswerGet, Reply, Repository!Reply,
                       Present, Repository!Present, appliedBar
  <2> QED
    BY <2>1 DEF Repository!Next
<1>11. ASSUME NEW p \in Procs, NotFound(p) \/ AlreadyExists(p)
       PROVE  [Repository!Next]_Repository!vars
  BY <1>6, <1>11 DEF NotFound, AlreadyExists, Repository!Justified, Present, Repository!Present
<1>12. ASSUME NEW p \in Procs, ReplaceRefused(p) PROVE [Repository!Next]_Repository!vars
  <2>1. request[p].op = "replace" /\ ~Matches(request[p]) /\ pc[p] = "recheck"
    BY <1>12 DEF ReplaceRefused, StaleInv
  <2> QED
    BY <1>6, <1>12, <2>1 DEF ReplaceRefused, Matches, Repository!Justified, Present,
                             Repository!Present
<1>13. ASSUME NEW p \in Procs, pc[p] = "applied", Return(p, Reply("ok")) \/ Return(p, Reply("Error"))
       PROVE  [Repository!Next]_Repository!vars
  <2>1. appliedBar' = [appliedBar EXCEPT ![p] = FALSE]
    <3>1. pc'[p] # "applied" /\ \A q \in Procs \ {p} : pc'[q] = pc[q]
      BY <1>13 DEF Return
    <3> QED
      BY <3>1, AppliedMoves
  <2>2. appliedBar[p]
    BY Zenon, <1>13 DEF appliedBar
  <2>3. Repository!Acknowledge(p) \/ Repository!ReportDoubt(p)
    BY <1>13, <2>1, <2>2 DEF Return, Repository!Acknowledge, Repository!ReportDoubt, Reply,
                             Repository!Reply, appliedBar
  <2> QED
    BY <2>3 DEF Repository!Next
<1>14. ASSUME NEW p \in Procs, CallFails(p) PROVE [Repository!Next]_Repository!vars
  BY <1>7, <1>13, <1>14 DEF CallFails
<1>15. ASSUME NEW p \in Procs, Applying(p) PROVE [Repository!Next]_Repository!vars
  <2>1. pc[p] = "call" /\ UNCHANGED <<request, reply>> /\ pc'[p] = "applied"
        /\ \A q \in Procs \ {p} : pc'[q] = pc[q]
    BY <1>15 DEF Applying, Create, Replace, Remove, Apply
  <2>2. appliedBar' = [appliedBar EXCEPT ![p] = TRUE]
    BY <2>1, AppliedMoves
  <2>3. Repository!Open(p) /\ request[p].name \in Names
    <3>1. /\ request[p] # NoRequest /\ reply[p] = NoReply
          /\ request[p].op # "list" => request[p].name \in Names
      BY <2>1, AskedIsRequest DEF RequestInv
    <3> QED
      BY <1>15, <3>1 DEF Applying, Create, Replace, Remove, Repository!Open, NoRequest, Request,
           Repository!NoRequest, NoReply, Reply, Repository!NoReply, Repository!Reply
  <2>4. ~appliedBar[p]
    BY Zenon, <2>1 DEF appliedBar
  <2>5. Repository!Apply(p)
    <3>1. CASE Create(p)
      <4> DEFINE n == request[p].name
                 new == [items EXCEPT ![n] = [rev |-> FreshRevision, caps |-> request[p].caps]]
      <4>1. /\ request[p].op = "create" /\ n \notin Present
            /\ FreshRevision \in Revisions /\ Repository!Fresh(FreshRevision)
            /\ items' = new
        BY <3>1, FreshForStore DEF Create, Apply
      <4>2. /\ n \notin Repository!Present
            /\ Repository!Cardinality(Repository!Present) < Cardinality(Names)
        <5>1. Repository!Present = Present
          BY DEF Repository!Present, Present
        <5> QED
          BY <2>3, <4>1, <5>1, Room
      <4> QED
        BY <2>1, <2>2, <2>3, <2>4, <4>1, <4>2 DEF Repository!Apply, appliedBar
    <3>2. CASE Replace(p)
      BY <2>1, <2>2, <2>3, <2>4, <3>2, FreshForStore
         DEF Replace, Matches, Apply, Repository!Apply, Present, Repository!Present, appliedBar
    <3>3. CASE Remove(p)
      BY <2>1, <2>2, <2>3, <2>4, <3>3
         DEF Remove, Apply, Repository!Apply, Present, Repository!Present, appliedBar
    <3> QED
      BY <1>15, <3>1, <3>2, <3>3 DEF Applying
  <2> QED
    BY <2>5 DEF Repository!Next
<1>16. CASE UNCHANGED vars
  <2>1. appliedBar' = appliedBar
    BY <1>16, AppliedStays DEF vars
  <2> QED
    BY <1>1, <1>16, <2>1 DEF vars
<1>17. ASSUME NEW p \in Procs, Returning(p) PROVE [Repository!Next]_Repository!vars
  BY <1>8, <1>9, <1>10, <1>11, <1>12, <1>13, <1>14, <1>17 DEF Returning, Succeed
<1> QED
  BY <1>2, <1>3, <1>4, <1>15, <1>16, <1>17, Shapes

(* Every behaviour of the Keychain backend is one of the abstract store:   *)
(* each mutation acts on its own project and at one instant, a replace     *)
(* only on the revision it was given, and Conflict, NotFound and           *)
(* AlreadyExists are true when they are decided.                           *)
THEOREM KeychainIsRepository == Spec => ImplementsRepository
<1> QED
  BY KeychainInvariant, StoreInit, StoreStep, PTL DEF Spec, ImplementsRepository,
     Repository!Spec

-----------------------------------------------------------------------------
(* What a process remembers of a project is true of the version it has     *)
(* read, as long as that version is the item's.                            *)
KnownInv ==
  \A p \in Procs, n \in Names :
    n = request[p].name /\ items[n] # Nil =>
      /\ items[n].rev = reply[p].rev => items[n].caps = reply[p].caps
      /\ items[n].rev = request[p].rev => items[n].caps = shown[p]

(* The item that a mutation leaves: none, or one with an unused revision.  *)
LEMMA AppliedItem ==
  ASSUME IInv, NEW p \in Procs, Applying(p)
  PROVE  /\ request[p].name \in Names /\ UNCHANGED <<request, reply, shown>>
         /\ \A m \in Names \ {request[p].name} : items'[m] = items[m]
         /\ \/ items'[request[p].name] = Nil
            \/ /\ FreshRevisions # {}
               /\ items'[request[p].name] = [rev |-> FreshRevision, caps |-> request[p].caps]
               /\ Create(p) \/ Replace(p)
<1> DEFINE n == request[p].name
<1>1. n \in Names
  BY AskedIsRequest DEF Applying, Create, Replace, Remove, IInv, RequestInv
<1>2. items \in [Names -> Item \cup {Nil}]
  BY DEF IInv, TypeOK
<1>3. CASE Remove(p)
  BY <1>1, <1>2, <1>3 DEF Remove, Apply
<1>4. CASE Create(p) \/ Replace(p)
  BY <1>1, <1>2, <1>4 DEF Create, Replace, Apply
<1> QED
  BY <1>1, <1>3, <1>4 DEF Applying

LEMMA KnownStep == IInv /\ KnownInv /\ [Next]_vars => KnownInv'
<1> SUFFICES ASSUME IInv, KnownInv, [Next]_vars PROVE KnownInv'
  OBVIOUS
<1> USE DEF IInv, TypeOK
<1>0. \A n \in Names : items[n] # Nil => items[n].rev \in Revisions /\ items[n].rev # Nil
  BY Sentinel DEF Item
<1>1. ASSUME NEW p \in Procs, Asking(p) PROVE KnownInv'
  <2>1. PICK r : Asked(r) /\ Follows(p, r) /\ Ask(p, r)
    BY <1>1 DEF Asking
  <2>2. /\ \A q \in Procs \ {p} : request'[q] = request[q] /\ reply'[q] = reply[q]
        /\ \A q \in Procs \ {p} : shown'[q] = shown[q]
        /\ request'[p] = r /\ reply'[p].rev = Nil /\ items' = items
    BY <2>1 DEF Ask, Follows, NoReply, Reply
  <2>3. ASSUME NEW n \in Names, n = r.name, items[n] # Nil, items[n].rev = r.rev
        PROVE  items[n].caps = shown'[p]
    BY <1>0, <2>1, <2>3 DEF Follows, KnownInv
  <2> QED
    BY <1>0, <2>2, <2>3 DEF KnownInv
<1>2. ASSUME items' = items,
             \A q \in Procs : /\ \/ request'[q] = request[q] /\ shown'[q] = shown[q]
                                 \/ request'[q].rev = Nil
                              /\ \/ reply'[q] = reply[q] /\ request'[q] = request[q]
                                 \/ reply'[q].rev = Nil
      PROVE  KnownInv'
  <2> SUFFICES ASSUME NEW q \in Procs, NEW n \in Names, n = request'[q].name, items[n] # Nil
               PROVE  /\ items[n].rev = reply'[q].rev => items[n].caps = reply'[q].caps
                      /\ items[n].rev = request'[q].rev => items[n].caps = shown'[q]
    BY <1>2 DEF KnownInv
  <2>1. items[n].rev \in Revisions /\ items[n].rev # Nil
    BY <1>0
  <2>2. items[n].rev = reply'[q].rev => items[n].caps = reply'[q].caps
    BY <1>2, <2>1 DEF KnownInv
  <2>3. items[n].rev = request'[q].rev => items[n].caps = shown'[q]
    BY <1>2, <2>1 DEF KnownInv
  <2> QED
    BY <2>2, <2>3
<1>3. ASSUME NEW p \in Procs, Leaving(p) PROVE KnownInv'
  BY <1>2, <1>3 DEF Leaving, Exit, NoRequest, Request, NoReply, Reply
<1>4. ASSUME NEW p \in Procs, Waiting(p) PROVE KnownInv'
  BY <1>2, <1>4 DEF Waiting, Authorized, ReplaceFindsNothing, Answer
<1>5. ASSUME NEW p \in Procs, Returning(p) PROVE KnownInv'
  <2>1. ASSUME NEW a, Return(p, a), a.rev = Nil PROVE KnownInv'
    BY <1>2, <2>1 DEF Return
  <2>2. \A s : Reply(s).rev = Nil
    BY DEF Reply
  <2>3. CASE ReturnList(p)
    BY <2>1, <2>3 DEF ReturnList, Reply
  <2>4. CASE ReturnProject(p)
    <3>1. /\ reply'[p].rev = items[request[p].name].rev
          /\ reply'[p].caps = items[request[p].name].caps
          /\ \A q \in Procs \ {p} : reply'[q] = reply[q]
          /\ items' = items /\ request' = request /\ shown' = shown
      BY <2>4 DEF ReturnProject, Return, Reply
    <3> SUFFICES ASSUME NEW q \in Procs, NEW n \in Names, n = request[q].name, items[n] # Nil
                 PROVE  /\ items[n].rev = reply'[q].rev => items[n].caps = reply'[q].caps
                        /\ items[n].rev = request[q].rev => items[n].caps = shown[q]
      BY <3>1 DEF KnownInv
    <3>2. items[n].rev = request[q].rev => items[n].caps = shown[q]
      BY DEF KnownInv
    <3>3. CASE q = p
      BY <3>1, <3>2, <3>3
    <3>4. CASE q # p
      <4>1. reply'[q] = reply[q]
        BY <3>1, <3>4
      <4> QED
        BY <3>2, <4>1 DEF KnownInv
    <3> QED
      BY <3>3, <3>4
  <2> QED
    BY <1>5, <2>1, <2>2, <2>3, <2>4
       DEF Returning, Denied, Timeout, NotFound, AlreadyExists, ReplaceRefused, Succeed, CallFails
<1>6. ASSUME NEW p \in Procs, Applying(p) PROVE KnownInv'
  <2>1. /\ request' = request /\ reply' = reply /\ shown' = shown
        /\ \A m \in Names \ {request[p].name} : items'[m] = items[m]
    BY <1>6, AppliedItem
  <2>2. \/ items'[request[p].name] = Nil
        \/ /\ FreshRevisions # {}
           /\ items'[request[p].name].rev = FreshRevision
    <3>1. \/ items'[request[p].name] = Nil
          \/ /\ FreshRevisions # {}
             /\ items'[request[p].name] = [rev |-> FreshRevision, caps |-> request[p].caps]
      BY <1>6, AppliedItem
    <3> QED
      BY <3>1
  <2> SUFFICES ASSUME NEW q \in Procs, NEW n \in Names, n = request[q].name, items'[n] # Nil
               PROVE  /\ items'[n].rev = reply[q].rev => items'[n].caps = reply[q].caps
                      /\ items'[n].rev = request[q].rev => items'[n].caps = shown[q]
    BY <2>1 DEF KnownInv
  <2>3. CASE n # request[p].name
    BY <2>1, <2>3 DEF KnownInv
  <2>4. CASE n = request[p].name
    <3>1. FreshRevisions # {} /\ items'[n].rev = FreshRevision
      BY <2>2, <2>4
    <3>2. FreshRevision \notin {request[q].rev, reply[q].rev}
      BY <3>1, FreshIsUnused
    <3> QED
      BY <3>1, <3>2
  <2> QED
    BY <2>3, <2>4
<1>7. CASE UNCHANGED vars
  BY <1>2, <1>7 DEF vars
<1> QED
  BY <1>1, <1>3, <1>4, <1>5, <1>6, <1>7, Shapes

(* However long its user takes, an edit replaces the version its user was  *)
(* shown, as it was shown, or nothing.                                     *)
THEOREM NoEditLost == Spec => NoLostEdit
<1>1. Init => KnownInv
  BY DEF Init, KnownInv
<1>2. IInv /\ KnownInv /\ [Next]_vars =>
        \A p \in Procs :
          pc[p] = "call" /\ pc'[p] = "applied" /\ request[p].op = "replace" =>
            items[request[p].name] = [rev |-> request[p].rev, caps |-> shown[p]]
  <2> SUFFICES ASSUME IInv, KnownInv, [Next]_vars, NEW p \in Procs,
                      pc[p] = "call", pc'[p] = "applied", request[p].op = "replace"
               PROVE  items[request[p].name] = [rev |-> request[p].rev, caps |-> shown[p]]
    OBVIOUS
  <2> DEFINE n == request[p].name
  <2> USE DEF IInv, TypeOK
  <2>1. Replace(p)
    <3>1. ASSUME NEW q \in Procs, Asking(q) \/ Leaving(q) \/ Waiting(q) \/ Returning(q)
          PROVE  pc'[p] # "applied"
      BY <3>1 DEF Asking, Ask, Leaving, Exit, Waiting, Authorized, ReplaceFindsNothing, Answer,
           Returning, Denied, Timeout, ReturnList, ReturnProject, NotFound, AlreadyExists,
           ReplaceRefused, Succeed, CallFails, Return
    <3>2. PICK q \in Procs : Applying(q)
      BY <3>1, Shapes DEF vars
    <3>3. q = p
      BY <3>2 DEF Applying, Create, Replace, Remove, Apply
    <3> QED
      BY <3>2, <3>3 DEF Applying, Create, Remove
  <2>2. n \in Names /\ items[n] # Nil /\ items[n].rev = request[p].rev
    BY <2>1 DEF Replace, Matches, Present
  <2>3. items[n] \in Item /\ items[n].caps = shown[p]
    BY <2>2 DEF KnownInv
  <2> QED
    BY <2>2, <2>3 DEF Item
<1> QED
  BY KeychainInvariant, KnownStep, <1>1, <1>2, PTL DEF Spec, NoLostEdit
=============================================================================
