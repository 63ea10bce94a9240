---------------------------- MODULE MacKeychain ----------------------------
(***************************************************************************)
(* The macOS backend: `twl' processes of one user share the items of a     *)
(* Keychain access group, one item for each project.  An operation first   *)
(* asks its user on a sheet of the system, with a limit on the wait, and   *)
(* then makes one call of the Keychain; only `replace' may need another    *)
(* one, to find out why the first found nothing.                           *)
(*                                                                         *)
(* The Keychain is a service of the system: a call takes effect at one     *)
(* instant and for good, its caller learns of it later or is told of a     *)
(* failure.  Processes may be killed between any two steps.                *)
(***************************************************************************)
EXTENDS Naturals, FiniteSets

CONSTANTS Procs,        \* twl processes of one user
          Names,        \* project names
          Caps,         \* capabilities users add to projects
          Revisions,    \* Revision: opaque record versions
          Nil           \* no value

Item == [rev : Revisions, caps : SUBSET Caps]

ASSUME Sentinel == Nil \notin Item \cup Names \cup Revisions

ASSUME FiniteNames == IsFiniteSet(Names)

VARIABLES items,     \* items[n]: the item of project n, or Nil
          pc,        \* pc[p]: where p is in its operation
          request,   \* request[p]: the repository operation it has asked for
          reply,     \* reply[p]: the result of that operation
          answer,    \* answer[p]: what the reply block has sent
          shown      \* shown[p]: the capabilities p's user saw before the edit;
                     \* read by the properties only

vars == <<items, pc, request, reply, answer, shown>>

-----------------------------------------------------------------------------
(* Requests and replies of the repository, as in ProjectStore.  "Error" is *)
(* an authorization that fails, or a call that does.                       *)
Request(op, n, r, cs) == [op |-> op, name |-> n, rev |-> r, caps |-> cs]

NoRequest == Request("none", Nil, Nil, {})

Reply(status) == [status |-> status, names |-> {}, rev |-> Nil, caps |-> {}]

NoReply == Reply("none")

Requests == [op : {"none", "list", "get", "create", "replace", "delete"},
             name : Names \cup {Nil},
             rev : Revisions \cup {Nil},
             caps : SUBSET Caps]

Replies == [status : {"none", "ok", "NotFound", "AlreadyExists", "Conflict", "Error"},
            names : SUBSET Names,
            rev : Revisions \cup {Nil},
            caps : SUBSET Caps]

Present == {n \in Names : items[n] # Nil}

(* Revision::random: 32 random bytes, so never one that an item or a       *)
(* process still has.                                                      *)
FreshRevisions ==
  Revisions \ ({items[n].rev : n \in Present}
                 \cup {request[p].rev : p \in Procs}
                 \cup {reply[p].rev : p \in Procs})

(* They are only compared: which one is drawn makes no difference.         *)
FreshRevision == CHOOSE rev \in FreshRevisions : TRUE

TypeOK ==
  /\ items \in [Names -> Item \cup {Nil}]
  /\ pc \in [Procs -> {"idle", "authorize", "call", "applied", "recheck", "done"}]
  /\ request \in [Procs -> Requests]
  /\ reply \in [Procs -> Replies]
  /\ answer \in [Procs -> {"none", "granted", "denied"}]
  /\ shown \in [Procs -> SUBSET Caps]

Init ==
  /\ items = [n \in Names |-> Nil]
  /\ pc = [p \in Procs |-> "idle"]
  /\ request = [p \in Procs |-> NoRequest]
  /\ reply = [p \in Procs |-> NoReply]
  /\ answer = [p \in Procs |-> "none"]
  /\ shown = [p \in Procs |-> {}]

-----------------------------------------------------------------------------
(* A command of `twl project' or `twl capability' asks for an operation;   *)
(* the service asks its user first.                                        *)
Ask(p, r) ==
  /\ request' = [request EXCEPT ![p] = r]
  /\ reply' = [reply EXCEPT ![p] = NoReply]
  /\ pc' = [pc EXCEPT ![p] = "authorize"]
  /\ answer' = [answer EXCEPT ![p] = "none"]
  /\ UNCHANGED items

Start(p, r) == pc[p] = "idle" /\ Ask(p, r) /\ UNCHANGED shown

List(p) == Start(p, Request("list", Nil, Nil, {}))

Get(p, n) == Start(p, Request("get", n, Nil, {}))

Add(p, n) == Start(p, Request("create", n, Nil, {}))

Delete(p, n) == Start(p, Request("delete", n, Nil, {}))

(* The project is in the process's memory; its user may be editing it.     *)
HasProject(p) ==
  pc[p] = "done" /\ request[p].op = "get" /\ reply[p].status = "ok"

(* An edit is over: other routes, or one capability more or less.  The     *)
(* user is asked again.                                                    *)
Revise(p) ==
  /\ HasProject(p)
  /\ shown' = [shown EXCEPT ![p] = reply[p].caps]
  /\ \E c \in Caps :
       \E cs \in {reply[p].caps, reply[p].caps \cup {c}, reply[p].caps \ {c}} :
         Ask(p, Request("replace", request[p].name, reply[p].rev, cs))

(* The command ends, or the process is killed.                             *)
Exit(p) ==
  /\ pc' = [pc EXCEPT ![p] = "idle"]
  /\ request' = [request EXCEPT ![p] = NoRequest]
  /\ reply' = [reply EXCEPT ![p] = NoReply]
  /\ answer' = [answer EXCEPT ![p] = "none"]
  /\ shown' = [shown EXCEPT ![p] = {}]
  /\ UNCHANGED items

Finish(p) == pc[p] = "done" /\ ~HasProject(p) /\ Exit(p)

Leave(p) == HasProject(p) /\ Exit(p)

Crash(p) == pc[p] # "idle" /\ Exit(p)

-----------------------------------------------------------------------------
(* The user answers the sheet: the reply block sends the result.           *)
Answer(p, result) ==
  /\ pc[p] = "authorize" /\ answer[p] = "none"
  /\ answer' = [answer EXCEPT ![p] = result]
  /\ UNCHANGED <<items, pc, request, reply, shown>>

Return(p, result) ==
  /\ reply' = [reply EXCEPT ![p] = result]
  /\ pc' = [pc EXCEPT ![p] = "done"]
  /\ UNCHANGED <<items, request, answer, shown>>

(* wait_for_authorization: the result, ...                                 *)
Authorized(p) ==
  /\ pc[p] = "authorize" /\ answer[p] = "granted"
  /\ pc' = [pc EXCEPT ![p] = "call"]
  /\ UNCHANGED <<items, request, reply, answer, shown>>

Denied(p) ==
  /\ pc[p] = "authorize" /\ answer[p] = "denied"
  /\ Return(p, Reply("Error"))

\* Mutant: the wait has no limit.
TimeoutNever(p) ==
  /\ pc[p] = "authorize" /\ answer[p] = "denied"
  /\ Return(p, Reply("Error"))

(* ... or its timeout, whatever comes later; or no sheet at all.           *)
Timeout(p) ==
  /\ pc[p] = "authorize"
  /\ Return(p, Reply("Error"))

-----------------------------------------------------------------------------
(* One call of the Keychain.                                               *)
ReturnList(p) ==
  /\ pc[p] = "call" /\ request[p].op = "list"
  /\ Return(p, [Reply("ok") EXCEPT !.names = Present])

ReturnProject(p) ==
  LET n == request[p].name
  IN  /\ pc[p] = "call" /\ request[p].op = "get"
      /\ n \in Present
      /\ Return(p, [Reply("ok") EXCEPT !.rev = items[n].rev, !.caps = items[n].caps])

NotFound(p) ==
  /\ pc[p] = "call" /\ request[p].op \in {"get", "delete"}
  /\ request[p].name \notin Present
  /\ Return(p, Reply("NotFound"))

AlreadyExists(p) ==
  /\ pc[p] = "call" /\ request[p].op = "create"
  /\ request[p].name \in Present
  /\ Return(p, Reply("AlreadyExists"))

(* The item changes; the caller has not been told yet.                     *)
Apply(p, n, item) ==
  /\ items' = [items EXCEPT ![n] = item]
  /\ pc' = [pc EXCEPT ![p] = "applied"]
  /\ UNCHANGED <<request, reply, answer, shown>>

(* SecItemAdd.                                                             *)
Create(p) ==
  LET n == request[p].name
  IN  /\ pc[p] = "call" /\ request[p].op = "create"
      /\ n \notin Present
      /\ FreshRevisions # {}
      /\ Apply(p, n, [rev |-> FreshRevision, caps |-> request[p].caps])

\* Mutant: the query names the project only.
MatchesByName(r) == r.name \in Present

(* The item the query of replace finds: of this name and revision.         *)
Matches(r) == r.name \in Present /\ items[r.name].rev = r.rev

(* SecItemUpdate, ...                                                      *)
Replace(p) ==
  LET n == request[p].name
  IN  /\ pc[p] = "call" /\ request[p].op = "replace"
      /\ Matches(request[p])
      /\ FreshRevisions # {}
      /\ Apply(p, n, [rev |-> FreshRevision, caps |-> request[p].caps])

(* ... which finds nothing: ...                                            *)
ReplaceFindsNothing(p) ==
  /\ pc[p] = "call" /\ request[p].op = "replace"
  /\ ~Matches(request[p])
  /\ pc' = [pc EXCEPT ![p] = "recheck"]
  /\ UNCHANGED <<items, request, reply, answer, shown>>

\* Mutant: finding nothing is a conflict.
ReplaceConflicts(p) ==
  /\ pc[p] = "recheck"
  /\ Return(p, Reply("Conflict"))

(* ... another call tells which of two refusals it is, by then.            *)
ReplaceRefused(p) ==
  /\ pc[p] = "recheck"
  /\ Return(p, Reply(IF request[p].name \in Present THEN "Conflict" ELSE "NotFound"))

(* SecItemDelete.                                                          *)
Remove(p) ==
  /\ pc[p] = "call" /\ request[p].op = "delete"
  /\ request[p].name \in Present
  /\ Apply(p, request[p].name, Nil)

Succeed(p) ==
  /\ pc[p] = "applied"
  /\ Return(p, Reply("ok"))

(* The call fails, before it did anything or after, or what it returned is *)
(* no valid project.                                                       *)
CallFails(p) ==
  /\ pc[p] \in {"call", "applied", "recheck"}
  /\ Return(p, Reply("Error"))

-----------------------------------------------------------------------------
Run(p) ==
  \/ Authorized(p) \/ Denied(p) \/ Timeout(p)
  \/ ReturnList(p) \/ ReturnProject(p) \/ NotFound(p) \/ AlreadyExists(p)
  \/ Create(p) \/ Replace(p) \/ ReplaceFindsNothing(p) \/ ReplaceRefused(p)
  \/ Remove(p) \/ Succeed(p) \/ CallFails(p)

User(p) ==
  \/ List(p)
  \/ \E n \in Names : Add(p, n) \/ Get(p, n) \/ Delete(p, n)
  \/ \E result \in {"granted", "denied"} : Answer(p, result)
  \/ Revise(p) \/ Leave(p)

Next == \E p \in Procs : Run(p) \/ User(p) \/ Finish(p) \/ Crash(p)

Spec == Init /\ [][Next]_vars

(* The system runs every process and fires its timers; the Keychain        *)
(* returns from its calls.  Users owe nothing.                             *)
FairSpec == Spec /\ \A p \in Procs : WF_vars(Run(p))

-----------------------------------------------------------------------------
(* The Keychain backend implements the repository contract, although a     *)
(* refused replace takes two calls with others in between: Conflict and    *)
(* NotFound are true when they are decided, an applied mutation is one     *)
(* step, an error that hides one is only ever the call's own.              *)
Repository == INSTANCE ProjectStore
  WITH Clients <- Procs,
       MaxProjects <- Cardinality(Names),
       store <- items,
       durable <- {items},
       applied <- [p \in Procs |-> pc[p] = "applied"]

ImplementsRepository == Repository!Spec

(* An edit replaces the very version its user was shown before it, with    *)
(* the capabilities that version had, whatever others have done to the     *)
(* project meanwhile: it may have been edited, or deleted and created      *)
(* again under its name (the revision in the query of replace).            *)
NoLostEdit ==
  [][\A p \in Procs :
       pc[p] = "call" /\ pc'[p] = "applied" /\ request[p].op = "replace" =>
         items[request[p].name] = [rev |-> request[p].rev, caps |-> shown[p]]
    ]_vars

(* Every operation ends, even when its user never answers the sheet.       *)
OperationsEnd ==
  \A p \in Procs :
    pc[p] \in {"authorize", "call", "applied", "recheck"} ~> pc[p] \in {"done", "idle"}
=============================================================================
