---------------------------- MODULE ProjectStore ----------------------------
(***************************************************************************)
(* What the ProjectRepository trait promises its callers: a map from       *)
(* project names to versioned records on which every operation acts at one *)
(* instant.  `replace' is a compare-and-swap on the revision.  A mutation  *)
(* is applied first and acknowledged once it is durable; when durability   *)
(* cannot be confirmed the caller gets an error although the mutation took *)
(* effect.  Clients are processes: they may stop at any instant.           *)
(*                                                                         *)
(* The two backends, the Linux vault and the macOS Keychain, are shown to  *)
(* implement this module under a refinement mapping.                       *)
(***************************************************************************)
EXTENDS Naturals, FiniteSets

CONSTANTS Clients,      \* processes that hold a ProjectService
          Names,        \* project names
          Caps,         \* capabilities a project may declare
          Revisions,    \* opaque record versions
          MaxProjects,  \* MAX_PROJECTS
          Nil           \* "no value"

VARIABLES store,        \* store[n]: the record of project n, or Nil
          durable,      \* the stores a power loss may leave behind
          request,      \* request[c]: the operation c has invoked
          reply,        \* reply[c]: its result
          applied       \* applied[c]: the mutation took effect, not acknowledged

vars == <<store, durable, request, reply, applied>>

-----------------------------------------------------------------------------
Version == [rev : Revisions, caps : SUBSET Caps]

(* The part of a request that its operation does not use is Nil or {}.     *)
NoRequest == [op |-> "none", name |-> Nil, rev |-> Nil, caps |-> {}]

Requests ==
  [op : {"list"}, name : {Nil}, rev : {Nil}, caps : {{}}]
    \cup [op : {"get", "delete"}, name : Names, rev : {Nil}, caps : {{}}]
    \cup [op : {"create"}, name : Names, rev : {Nil}, caps : SUBSET Caps]
    \cup [op : {"replace"}, name : Names, rev : Revisions, caps : SUBSET Caps]

(* StoreError by what a caller can conclude from it.                       *)
Refusals == {"AlreadyExists", "NotFound", "Conflict", "OversizedRecord"}

Failures == {"VaultUnlockFailed", "Error"}

Statuses == {"none", "ok"} \cup Refusals \cup Failures

Reply(status) == [status |-> status, names |-> {}, rev |-> Nil, caps |-> {}]

NoReply == Reply("none")

Present == {n \in Names : store[n] # Nil}

(* A revision is 256 random bits: it is never one that is still *)
(* stored somewhere or that a client still holds.                          *)
Fresh(rev) ==
  /\ \A s \in durable \cup {store}, n \in Names : s[n] # Nil => s[n].rev # rev
  /\ \A c \in Clients : rev \notin {request[c].rev, reply[c].rev}

-----------------------------------------------------------------------------
TypeOK ==
  /\ store \in [Names -> Version \cup {Nil}]
  /\ durable \subseteq [Names -> Version \cup {Nil}]
  /\ request \in [Clients -> Requests \cup {NoRequest}]
  /\ reply \in [Clients -> [status : Statuses, names : SUBSET Names,
                            rev : Revisions \cup {Nil}, caps : SUBSET Caps]]
  /\ applied \in [Clients -> BOOLEAN]

Init ==
  /\ store = [n \in Names |-> Nil]
  /\ durable = {store}
  /\ request = [c \in Clients |-> NoRequest]
  /\ reply = [c \in Clients |-> NoReply]
  /\ applied = [c \in Clients |-> FALSE]

(* A request waits for its reply.                                          *)
Open(c) == request[c] # NoRequest /\ reply[c] = NoReply

(* A client invokes an operation, at first or after an earlier reply.      *)
Invoke(c) ==
  /\ ~Open(c)
  /\ request'[c] \in Requests
  /\ request' = [request EXCEPT ![c] = request'[c]]
  /\ reply' = [reply EXCEPT ![c] = NoReply]
  /\ UNCHANGED <<store, durable, applied>>

(* list and get read the store at one instant.                             *)
AnswerList(c) ==
  /\ Open(c) /\ request[c].op = "list"
  /\ reply' = [reply EXCEPT ![c] = [Reply("ok") EXCEPT !.names = Present]]
  /\ UNCHANGED <<store, durable, request, applied>>

AnswerGet(c) ==
  /\ Open(c) /\ request[c].op = "get"
  /\ request[c].name \in Present
  /\ reply' = [reply EXCEPT ![c] =
                 [Reply("ok") EXCEPT !.rev = store[request[c].name].rev,
                                     !.caps = store[request[c].name].caps]]
  /\ UNCHANGED <<store, durable, request, applied>>

(* The refusals are facts about the store at the instant of the refusal.   *)
Justified(r, why) ==
  \/ /\ why = "NotFound"
     /\ r.op \in {"get", "replace", "delete"}
     /\ r.name \notin Present
  \/ /\ why = "AlreadyExists"
     /\ r.op = "create"
     /\ r.name \in Present
  \/ /\ why = "OversizedRecord"
     /\ r.op = "create"
     /\ r.name \notin Present
     /\ Cardinality(Present) = MaxProjects
  \/ /\ why = "Conflict"
     /\ r.op = "replace"
     /\ r.name \in Present
     /\ store[r.name].rev # r.rev

Refuse(c) ==
  /\ Open(c) /\ ~applied[c]
  /\ reply'[c].status \in Refusals
  /\ Justified(request[c], reply'[c].status)
  /\ reply' = [reply EXCEPT ![c] = Reply(reply'[c].status)]
  /\ UNCHANGED <<store, durable, request, applied>>

(* Anything else that goes wrong leaves the store as it was; a project or  *)
(* a vault that is too large, counted in bytes, is such a failure.         *)
Fail(c) ==
  /\ Open(c) /\ ~applied[c]
  /\ reply'[c].status \in Failures
  /\ reply' = [reply EXCEPT ![c] = Reply(reply'[c].status)]
  /\ UNCHANGED <<store, durable, request, applied>>

(* A mutation takes effect on exactly the project it names; it may be      *)
(* durable at once.                                                        *)
Apply(c) ==
  LET r == request[c]
      Put(rev) == [store EXCEPT ![r.name] = [rev |-> rev, caps |-> r.caps]]
  IN /\ Open(c) /\ ~applied[c]
     /\ applied' = [applied EXCEPT ![c] = TRUE]
     /\ \/ /\ r.op = "create"
           /\ r.name \notin Present
           /\ Cardinality(Present) < MaxProjects
           /\ \E rev \in Revisions : Fresh(rev) /\ store' = Put(rev)
        \/ /\ r.op = "replace"
           /\ r.name \in Present
           /\ store[r.name].rev = r.rev
           /\ \E rev \in Revisions : Fresh(rev) /\ store' = Put(rev)
        \/ /\ r.op = "delete"
           /\ r.name \in Present
           /\ store' = [store EXCEPT ![r.name] = Nil]
     /\ durable' \in {durable \cup {store'}, {store'}}
     /\ UNCHANGED <<request, reply>>

(* Success is reported for what is durable, and only for that.             *)
Acknowledge(c) ==
  /\ applied[c]
  /\ applied' = [applied EXCEPT ![c] = FALSE]
  /\ durable' = {store}
  /\ reply' = [reply EXCEPT ![c] = Reply("ok")]
  /\ UNCHANGED <<store, request>>

(* The mutation is in effect, its durability is not known.                 *)
ReportDoubt(c) ==
  /\ applied[c]
  /\ applied' = [applied EXCEPT ![c] = FALSE]
  /\ reply' = [reply EXCEPT ![c] = Reply("Error")]
  /\ UNCHANGED <<store, durable, request>>

(* A client is done with its reply, or stops at any point.                 *)
Leave(c) ==
  /\ request[c] # NoRequest
  /\ request' = [request EXCEPT ![c] = NoRequest]
  /\ reply' = [reply EXCEPT ![c] = NoReply]
  /\ applied' = [applied EXCEPT ![c] = FALSE]
  /\ UNCHANGED <<store, durable>>

(* A power loss stops every client and keeps one of the durable stores.    *)
PowerLoss ==
  /\ request' = [c \in Clients |-> NoRequest]
  /\ reply' = [c \in Clients |-> NoReply]
  /\ applied' = [c \in Clients |-> FALSE]
  /\ store' \in durable
  /\ durable' = {store'}

Next ==
  \/ \E c \in Clients :
       \/ Invoke(c)
       \/ AnswerList(c)
       \/ AnswerGet(c)
       \/ Refuse(c)
       \/ Fail(c)
       \/ Apply(c)
       \/ Acknowledge(c)
       \/ ReportDoubt(c)
       \/ Leave(c)
  \/ PowerLoss

Spec == Init /\ [][Next]_vars
=============================================================================
