----------------------------- MODULE LinuxVault -----------------------------
(***************************************************************************)
(* The Linux backend: any number of `twl' processes work on one vault,     *)
(* an encrypted file that is replaced as a whole, under an advisory lock   *)
(* on a second file that never changes.  Each process runs one command of  *)
(* `twl project' or `twl capability' at a time; a command opens a new      *)
(* ProjectService, whose session remembers one password.                   *)
(*                                                                         *)
(* The life of one service operation follows its code:                     *)
(*   authorize      probe, prompt, lock, recheck     (linux/mod.rs)        *)
(*   operation      enter, read, write, fsync, rename, dirsync (vault.rs)  *)
(*                                                                         *)
(* Encryption is modelled by its effect: a vault opens under the password  *)
(* it was written with and under no other.  Processes may be killed        *)
(* between any two steps, and the machine may lose power.                  *)
(***************************************************************************)
EXTENDS Naturals, FiniteSets

CONSTANTS Procs,        \* twl processes of one user
          Names,        \* project names
          Caps,         \* capabilities users add to projects
          Passwords,    \* what users type at a password prompt
          Revisions,    \* Revision: opaque record versions
          MaxProjects,  \* MAX_PROJECTS
          MaxUndurable, \* bound: vaults the disk may come back with
          Nil,          \* no value; as a vault: no vault file
          Torn          \* a vault whose data never reached the disk

Record == [name : Names, rev : Revisions, caps : SUBSET Caps]

Vault == [password : Passwords, records : SUBSET Record]

ASSUME Sentinels ==
  /\ Nil \notin Vault \cup Names \cup Passwords \cup Revisions
                  \cup [rev : Revisions, caps : SUBSET Caps]
  /\ Torn \notin Vault \cup {Nil}

ASSUME Bounds == MaxProjects \in Nat /\ MaxUndurable \in Nat

VARIABLES vault,     \* the vault file: Nil, Torn or an element of Vault
          onDisk,    \* the vault files a power loss may leave
          pc,        \* pc[p]: where p is in its operation
          request,   \* request[p]: the repository operation it has asked for
          reply,     \* reply[p]: the result of that operation
          exists,    \* exists[p]: what `vault_exists' told the authorizer
          typed,     \* typed[p]: the password the user gave for this session
          password,  \* PasswordState.password
          pending,   \* PasswordState.operation_lock is Some: the authorizer
                     \* has left the lock it holds to the operation
          lock,      \* lock[p]: how p holds the lock file
          draft,     \* draft[p]: the records p is about to write
          temp,      \* temp[p]: p's temporary file, or the one it left behind
          shown      \* shown[p]: the capabilities p's user saw before the edit;
                     \* read by the properties only

vars == <<vault, onDisk, pc, request, reply, exists, typed, password,
          pending, lock, draft, temp, shown>>

fileVars == <<vault, onDisk>>
authVars == <<exists, typed, password, pending, shown>>
writeVars == <<draft, temp>>

-----------------------------------------------------------------------------
(* Requests and replies of the repository, as in ProjectStore; the fields  *)
(* an operation does not use are Nil or {}.  "Error" stands for the errors *)
(* that say nothing about the projects: an authorization that failed, a    *)
(* project that cannot be encoded, files that fail or cannot be trusted.   *)
Request(op, n, r, cs) == [op |-> op, name |-> n, rev |-> r, caps |-> cs]

NoRequest == Request("none", Nil, Nil, {})

Reply(status) == [status |-> status, names |-> {}, rev |-> Nil, caps |-> {}]

NoReply == Reply("none")

Refusals == {"NotFound", "AlreadyExists", "OversizedRecord", "Conflict"}

Mutates(r) == r.op \in {"create", "replace", "delete"}

Named(records, n) == {r \in records : r.name = n}

(* Revision::random: 32 random bytes, so never a revision that is still in *)
(* some vault or in some process's hands.  Revisions are only compared for *)
(* equality, so which unused one is drawn makes no difference.             *)
RevisionsInUse ==
  LET held == (UNION {draft[p] : p \in Procs})
                \cup (UNION {v.records : v \in (onDisk \cup {vault}) \ {Nil, Torn}})
  IN  {r.rev : r \in held} \cup {request[p].rev : p \in Procs}
        \cup {reply[p].rev : p \in Procs}

FreshRevisions == Revisions \ RevisionsInUse

FreshRevision == CHOOSE r \in FreshRevisions : TRUE

-----------------------------------------------------------------------------
Requests == [op : {"none", "list", "get", "create", "replace", "delete"},
             name : Names \cup {Nil},
             rev : Revisions \cup {Nil},
             caps : SUBSET Caps]

Replies == [status : {"none", "ok", "VaultUnlockFailed", "Error"} \cup Refusals,
            names : SUBSET Names,
            rev : Revisions \cup {Nil},
            caps : SUBSET Caps]

Points == {"idle", "done"}
            \cup {"probe", "prompt", "lock", "recheck"}               \* authorize
            \cup {"enter", "read", "write", "fsync", "rename", "dirsync"}

TypeOK ==
  /\ vault \in Vault \cup {Nil, Torn}
  /\ onDisk \subseteq Vault \cup {Nil, Torn}
  /\ pc \in [Procs -> Points]
  /\ request \in [Procs -> Requests]
  /\ reply \in [Procs -> Replies]
  /\ exists \in [Procs -> BOOLEAN]
  /\ typed \in [Procs -> Passwords \cup {Nil}]
  /\ password \in [Procs -> Passwords \cup {Nil}]
  /\ pending \in [Procs -> BOOLEAN]
  /\ lock \in [Procs -> {"none", "shared", "exclusive"}]
  /\ draft \in [Procs -> SUBSET Record]
  /\ temp \in [Procs -> {"none", "written", "synced", "left"}]
  /\ shown \in [Procs -> SUBSET Caps]

Init ==
  /\ vault = Nil
  /\ onDisk = {Nil}
  /\ pc = [p \in Procs |-> "idle"]
  /\ request = [p \in Procs |-> NoRequest]
  /\ reply = [p \in Procs |-> NoReply]
  /\ exists = [p \in Procs |-> FALSE]
  /\ typed = [p \in Procs |-> Nil]
  /\ password = [p \in Procs |-> Nil]
  /\ pending = [p \in Procs |-> FALSE]
  /\ lock = [p \in Procs |-> "none"]
  /\ draft = [p \in Procs |-> {}]
  /\ temp = [p \in Procs |-> "none"]
  /\ shown = [p \in Procs |-> {}]

-----------------------------------------------------------------------------
(* The commands (main.rs), each with a ProjectService of its own.  A       *)
(* temporary file that an earlier process left is under a random name that *)
(* nothing opens again: it stays there and is not followed any longer.     *)
Start(p, r) ==
  /\ pc[p] = "idle"
  /\ pc' = [pc EXCEPT ![p] = "probe"]
  /\ request' = [request EXCEPT ![p] = r]
  /\ temp' = [temp EXCEPT ![p] = "none"]
  /\ UNCHANGED <<fileVars, reply, authVars, lock, draft>>

(* `project add' has collected its project from the user before it calls   *)
(* the service; a new project has no capabilities.                         *)
Add(p, n) == Start(p, Request("create", n, Nil, {}))

List(p) == Start(p, Request("list", Nil, Nil, {}))

(* `project show', `capability list', `capability show', `capability       *)
(* serve' and `run' stop here; `project edit', `capability add' and        *)
(* `capability delete' go on with Revise.                                  *)
Get(p, n) == Start(p, Request("get", n, Nil, {}))

Delete(p, n) == Start(p, Request("delete", n, Nil, {}))

(* The project is in the process's memory.  When the command is an edit,   *)
(* its user is answering questions now; no lock is held meanwhile.         *)
HasProject(p) ==
  pc[p] = "done" /\ request[p].op = "get" /\ reply[p].status = "ok"

(* The user has edited the project: other routes with the same             *)
(* capabilities, or one capability more or less.  The session has a        *)
(* password, so authorize returns at once, without a lock.                 *)
Revise(p) ==
  /\ HasProject(p)
  /\ password[p] # Nil
  /\ \E c \in Caps :
       \E cs \in {reply[p].caps, reply[p].caps \cup {c}, reply[p].caps \ {c}} :
         request' = [request EXCEPT ![p] =
                       Request("replace", request[p].name, reply[p].rev, cs)]
  /\ reply' = [reply EXCEPT ![p] = NoReply]
  /\ shown' = [shown EXCEPT ![p] = reply[p].caps]
  /\ pc' = [pc EXCEPT ![p] = "enter"]
  /\ UNCHANGED <<fileVars, exists, typed, password, pending, lock, writeVars>>

(* What stays in the directory when p stops: its temporary file, which at  *)
(* "write" may just have been created.                                     *)
Leftover(p) ==
  IF pc[p] = "write" THEN {"none", "left"}
  ELSE IF temp[p] = "none" THEN {"none"} ELSE {"left"}

(* The process is gone: its locks are released with its descriptors, its   *)
(* temporary file stays.                                                   *)
Exit(p) ==
  /\ pc' = [pc EXCEPT ![p] = "idle"]
  /\ request' = [request EXCEPT ![p] = NoRequest]
  /\ reply' = [reply EXCEPT ![p] = NoReply]
  /\ exists' = [exists EXCEPT ![p] = FALSE]
  /\ typed' = [typed EXCEPT ![p] = Nil]
  /\ password' = [password EXCEPT ![p] = Nil]
  /\ pending' = [pending EXCEPT ![p] = FALSE]
  /\ lock' = [lock EXCEPT ![p] = "none"]
  /\ draft' = [draft EXCEPT ![p] = {}]
  /\ shown' = [shown EXCEPT ![p] = {}]
  /\ \E left \in Leftover(p) : temp' = [temp EXCEPT ![p] = left]

(* The command has printed its result.                                     *)
Finish(p) ==
  /\ pc[p] = "done" /\ ~HasProject(p)
  /\ Exit(p)
  /\ UNCHANGED fileVars

(* The command is a get, or the user's answers make no valid project.      *)
Leave(p) ==
  /\ HasProject(p)
  /\ Exit(p)
  /\ UNCHANGED fileVars

(* The bound on the vaults the disk may come back with: a writer leaves    *)
(* one more when it stops between its rename and its directory sync.       *)
MayLeaveUnsynced(p) == pc[p] = "dirsync" => Cardinality(onDisk) <= MaxUndurable

(* Killed anywhere.                                                        *)
Crash(p) ==
  /\ pc[p] # "idle"
  /\ MayLeaveUnsynced(p)
  /\ Exit(p)
  /\ UNCHANGED fileVars

(* The machine stops; the directory comes back as one of the states the    *)
(* disk may hold, with or without the temporary files.                     *)
PowerLoss ==
  /\ vault' \in onDisk
  /\ onDisk' = {vault'}
  /\ pc' = [p \in Procs |-> "idle"]
  /\ request' = [p \in Procs |-> NoRequest]
  /\ reply' = [p \in Procs |-> NoReply]
  /\ exists' = [p \in Procs |-> FALSE]
  /\ typed' = [p \in Procs |-> Nil]
  /\ password' = [p \in Procs |-> Nil]
  /\ pending' = [p \in Procs |-> FALSE]
  /\ lock' = [p \in Procs |-> "none"]
  /\ draft' = [p \in Procs |-> {}]
  /\ shown' = [p \in Procs |-> {}]
  /\ temp' \in [Procs -> {"none", "left"}]
  /\ \A p \in Procs : temp'[p] = "left" => "left" \in Leftover(p)

-----------------------------------------------------------------------------
(* VaultDirectory::lock.  flock conflicts between open files, so a process *)
(* that asks again while it holds the lock conflicts with itself too.      *)
CanLock(mode) ==
  \A q \in Procs : lock[q] = "none" \/ (mode = "shared" /\ lock[q] = "shared")

\* Mutant: a deletion is authorized like a read.
ActionModeDelete(r) ==
  IF r.op \in {"create", "replace"} THEN "exclusive" ELSE "shared"

(* The mode the authorizer takes for its Action, ...                       *)
ActionMode(r) ==
  IF r.op \in {"create", "replace", "delete"} THEN "exclusive" ELSE "shared"

\* Mutant: replace reads under a shared lock and upgrades too late.
OperationModeShared(r) ==
  IF r.op \in {"list", "get", "replace"} THEN "shared" ELSE "exclusive"

(* ... and the one each repository operation asks for.                     *)
OperationMode(r) ==
  IF r.op \in {"list", "get"} THEN "shared" ELSE "exclusive"

\* Mutant: the probe's lock is kept while the user is asked.
ProbeKeepsLock(p) ==
  /\ pc[p] = "probe"
  /\ CanLock("shared")
  /\ exists' = [exists EXCEPT ![p] = (vault # Nil)]
  /\ lock' = [lock EXCEPT ![p] = "shared"]
  /\ pc' = [pc EXCEPT ![p] = "prompt"]
  /\ UNCHANGED <<fileVars, request, reply, typed, password, pending, shown, writeVars>>

(* LinuxVaultAuthorizer::authorize, for a session without a password.      *)
(* vault_exists takes the lock shared for as long as it looks.             *)
Probe(p) ==
  /\ pc[p] = "probe"
  /\ CanLock("shared")
  /\ exists' = [exists EXCEPT ![p] = (vault # Nil)]
  /\ pc' = [pc EXCEPT ![p] = IF exists'[p] \/ request[p].op = "create"
                             THEN "prompt" ELSE "lock"]
  /\ UNCHANGED <<fileVars, request, reply, typed, password, pending,
                 shown, lock, writeVars>>

(* "Towel vault password:", or "Create ..." and "Confirm ...".             *)
Prompt(p, w) ==
  /\ pc[p] = "prompt"
  /\ typed' = [typed EXCEPT ![p] = w]
  /\ pc' = [pc EXCEPT ![p] = "lock"]
  /\ UNCHANGED <<fileVars, request, reply, exists, password, pending,
                 shown, lock, writeVars>>

(* The operation is over: the session's lock, when the operation had taken *)
(* it over, is released on return.                                         *)
Return(p, answer) ==
  /\ reply' = [reply EXCEPT ![p] = answer]
  /\ pc' = [pc EXCEPT ![p] = "done"]
  /\ lock' = [lock EXCEPT ![p] = IF pending[p] THEN lock[p] ELSE "none"]

(* No preflight, no terminal, an empty password, a confirmation that       *)
(* differs.                                                                *)
Deny(p) ==
  /\ pc[p] = "prompt"
  /\ Return(p, Reply("Error"))
  /\ UNCHANGED <<fileVars, request, authVars, writeVars>>

Acquire(p) ==
  /\ pc[p] = "lock"
  /\ CanLock(ActionMode(request[p]))
  /\ lock' = [lock EXCEPT ![p] = ActionMode(request[p])]
  /\ pc' = [pc EXCEPT ![p] = "recheck"]
  /\ UNCHANGED <<fileVars, request, reply, authVars, writeVars>>

\* Mutant: `continue' with the operation lock still alive.
RetryKeepsLock(p) ==
  /\ pc[p] = "recheck"
  /\ exists[p] # (vault # Nil)
  /\ typed' = [typed EXCEPT ![p] = Nil]
  /\ pc' = [pc EXCEPT ![p] = "probe"]
  /\ UNCHANGED <<fileVars, request, reply, exists, password, pending,
                 shown, lock, writeVars>>

(* A vault has appeared since the probe: start over, with the right        *)
(* question.                                                               *)
Retry(p) ==
  /\ pc[p] = "recheck"
  /\ exists[p] # (vault # Nil)
  /\ lock' = [lock EXCEPT ![p] = "none"]
  /\ typed' = [typed EXCEPT ![p] = Nil]
  /\ pc' = [pc EXCEPT ![p] = "probe"]
  /\ UNCHANGED <<fileVars, request, reply, exists, password, pending,
                 shown, writeVars>>

\* Mutant: the answer to the probe is trusted after the wait for the lock.
AuthorizedUnchecked(p) ==
  /\ pc[p] = "recheck"
  /\ password' = [password EXCEPT ![p] = typed[p]]
  /\ typed' = [typed EXCEPT ![p] = Nil]
  /\ pending' = [pending EXCEPT ![p] = TRUE]
  /\ pc' = [pc EXCEPT ![p] = "enter"]
  /\ UNCHANGED <<fileVars, request, reply, exists, shown, lock, writeVars>>

(* The password is the session's, the lock is left to the operation.       *)
Authorized(p) ==
  /\ pc[p] = "recheck"
  /\ exists[p] = (vault # Nil)
  /\ password' = [password EXCEPT ![p] = typed[p]]
  /\ typed' = [typed EXCEPT ![p] = Nil]
  /\ pending' = [pending EXCEPT ![p] = TRUE]
  /\ pc' = [pc EXCEPT ![p] = "enter"]
  /\ UNCHANGED <<fileVars, request, reply, exists, shown, lock, writeVars>>

-----------------------------------------------------------------------------
(* encode_project fails before the operation looks for its lock: a lock    *)
(* the authorizer has left stays with the session.                         *)
Unencodable(p) ==
  /\ pc[p] = "enter"
  /\ request[p].op \in {"create", "replace"}
  /\ Return(p, Reply("Error"))
  /\ UNCHANGED <<fileVars, request, authVars, writeVars>>

(* PasswordSession::operation_lock, with a lock left by the authorizer, ... *)
TakeOver(p) ==
  /\ pc[p] = "enter"
  /\ pending[p]
  /\ pending' = [pending EXCEPT ![p] = FALSE]
  /\ IF lock[p] = OperationMode(request[p])
     THEN /\ pc' = [pc EXCEPT ![p] = "read"]
          /\ UNCHANGED <<reply, lock>>
     ELSE /\ pc' = [pc EXCEPT ![p] = "done"]
          /\ reply' = [reply EXCEPT ![p] = Reply("VaultUnlockFailed")]
          /\ lock' = [lock EXCEPT ![p] = "none"]
  /\ UNCHANGED <<fileVars, request, exists, typed, password, shown,
                 writeVars>>

(* ... and without one.                                                    *)
Enter(p) ==
  /\ pc[p] = "enter"
  /\ ~pending[p]
  /\ CanLock(OperationMode(request[p]))
  /\ lock' = [lock EXCEPT ![p] = OperationMode(request[p])]
  /\ pc' = [pc EXCEPT ![p] = "read"]
  /\ UNCHANGED <<fileVars, request, reply, authVars, writeVars>>

\* Mutant: a vault that does not open is taken for an empty one.
CanReadAnything(p) == vault # Torn

(* Vault::decode: each name once, and no more projects than the limit.     *)
Decodable(records) ==
  /\ IsFiniteSet(records)
  /\ \A r, s \in records : r.name = s.name => r = s
  /\ Cardinality(records) <= MaxProjects

(* read_locked: open the vault, decrypt it, decode it.                     *)
Opens(p) == vault # Nil => vault # Torn /\ password[p] = vault.password

CanRead(p) == Opens(p) /\ (vault # Nil => Decodable(vault.records))

(* What the operation works on; a missing vault holds no projects.         *)
Records == IF vault = Nil \/ vault = Torn THEN {} ELSE vault.records

ReadFails(p) ==
  /\ pc[p] = "read"
  /\ ~Opens(p)
  /\ Return(p, Reply("VaultUnlockFailed"))
  /\ UNCHANGED <<fileVars, request, authVars, writeVars>>

(* The lock or the vault file cannot be opened, is not trusted, or cannot  *)
(* be read or decoded.                                                     *)
Unavailable(p) ==
  /\ pc[p] \in {"probe", "lock", "recheck", "enter", "read"}
  /\ ~pending[p]
  /\ Return(p, Reply("Error"))
  /\ UNCHANGED <<fileVars, request, authVars, writeVars>>

ReturnList(p) ==
  /\ pc[p] = "read" /\ CanRead(p)
  /\ request[p].op = "list"
  /\ Return(p, [Reply("ok") EXCEPT !.names = {r.name : r \in Records}])
  /\ UNCHANGED <<fileVars, request, authVars, writeVars>>

ReturnProject(p) ==
  /\ pc[p] = "read" /\ CanRead(p)
  /\ request[p].op = "get"
  /\ \E r \in Named(Records, request[p].name) :
       Return(p, [Reply("ok") EXCEPT !.rev = r.rev, !.caps = r.caps])
  /\ UNCHANGED <<fileVars, request, authVars, writeVars>>

\* Mutant: replace does not compare revisions.
RefusedNoConflict(r, why) ==
  LET found == Named(Records, r.name)
  IN  \/ /\ why = "NotFound"
         /\ r.op \in {"get", "replace", "delete"} /\ found = {}
      \/ /\ why = "AlreadyExists"
         /\ r.op = "create" /\ found # {}
      \/ /\ why = "OversizedRecord"
         /\ r.op = "create" /\ found = {} /\ Cardinality(Records) = MaxProjects

(* Why an operation is refused; at most one reason holds.                  *)
Refused(r, why) ==
  LET found == Named(Records, r.name)
  IN  \/ /\ why = "NotFound"
         /\ r.op \in {"get", "replace", "delete"} /\ found = {}
      \/ /\ why = "AlreadyExists"
         /\ r.op = "create" /\ found # {}
      \/ /\ why = "OversizedRecord"
         /\ r.op = "create" /\ found = {} /\ Cardinality(Records) = MaxProjects
      \/ /\ why = "Conflict"
         /\ r.op = "replace" /\ found # {} /\ \A s \in found : s.rev # r.rev

Refuse(p) ==
  /\ pc[p] = "read" /\ CanRead(p)
  /\ \E why \in Refusals : /\ Refused(request[p], why)
                           /\ Return(p, Reply(why))
  /\ UNCHANGED <<fileVars, request, authVars, writeVars>>

(* The records after the operation: create pushes one, replace overwrites  *)
(* the one it found, delete removes it.                                    *)
Outcome(records, r, rev) ==
  LET old == IF r.op = "create" THEN {} ELSE Named(records, r.name)
      new == IF r.op = "delete" THEN {}
             ELSE {[name |-> r.name, rev |-> rev, caps |-> r.caps]}
  IN  (records \ old) \cup new

Prepare(p) ==
  /\ pc[p] = "read" /\ CanRead(p)
  /\ Mutates(request[p])
  /\ \A why \in Refusals : ~Refused(request[p], why)
  /\ FreshRevisions # {}
  /\ draft' = [draft EXCEPT ![p] = Outcome(Records, request[p], FreshRevision)]
  /\ pc' = [pc EXCEPT ![p] = "write"]
  /\ UNCHANGED <<fileVars, request, reply, authVars, lock, temp>>

-----------------------------------------------------------------------------
(* write_locked: the new vault is written to a temporary file, ...         *)
WriteTemp(p) ==
  /\ pc[p] = "write"
  /\ temp' = [temp EXCEPT ![p] = "written"]
  /\ pc' = [pc EXCEPT ![p] = "fsync"]
  /\ UNCHANGED <<fileVars, request, reply, authVars, lock, draft>>

\* Mutant: the data is left to the page cache.
SyncTempSkipped(p) ==
  /\ pc[p] = "fsync"
  /\ pc' = [pc EXCEPT ![p] = "rename"]
  /\ UNCHANGED <<fileVars, request, reply, authVars, lock, draft, temp>>

(* ... whose data is then forced to the disk, ...                          *)
SyncTemp(p) ==
  /\ pc[p] = "fsync"
  /\ temp' = [temp EXCEPT ![p] = "synced"]
  /\ pc' = [pc EXCEPT ![p] = "rename"]
  /\ UNCHANGED <<fileVars, request, reply, authVars, lock, draft>>

(* ... and which then becomes the vault, atomically for every reader.  The *)
(* disk may hold the old entry or the new one, and the new file without    *)
(* its data had it not been synced.                                        *)
Rename(p) ==
  LET new == [password |-> password[p], records |-> draft[p]]
  IN /\ pc[p] = "rename"
     /\ vault' = new
     /\ onDisk' = onDisk \cup (IF temp[p] = "synced" THEN {new} ELSE {new, Torn})
     /\ temp' = [temp EXCEPT ![p] = "none"]
     /\ pc' = [pc EXCEPT ![p] = "dirsync"]
     /\ UNCHANGED <<request, reply, authVars, lock, draft>>

\* Mutant: the temporary file is not unlinked.
WriteFailsLeaving(p) ==
  /\ pc[p] \in {"write", "fsync", "rename"}
  /\ draft' = [draft EXCEPT ![p] = {}]
  /\ Return(p, Reply("Error"))
  /\ UNCHANGED <<fileVars, request, authVars, temp>>

(* Any of these steps fails: the temporary file is unlinked (unlink, whose *)
(* result the code ignores, is taken to succeed), the vault is as it was.  *)
WriteFails(p) ==
  /\ pc[p] \in {"write", "fsync", "rename"}
  /\ temp' = [temp EXCEPT ![p] = "none"]
  /\ draft' = [draft EXCEPT ![p] = {}]
  /\ Return(p, Reply("Error"))
  /\ UNCHANGED <<fileVars, request, authVars>>

\* Mutant: success is reported without the directory sync.
SyncDirectorySkipped(p) ==
  /\ pc[p] = "dirsync"
  /\ draft' = [draft EXCEPT ![p] = {}]
  /\ Return(p, Reply("ok"))
  /\ UNCHANGED <<fileVars, request, authVars, temp>>

(* The directory entry is forced to the disk: success.                     *)
SyncDirectory(p) ==
  /\ pc[p] = "dirsync"
  /\ onDisk' = {vault}
  /\ draft' = [draft EXCEPT ![p] = {}]
  /\ Return(p, Reply("ok"))
  /\ UNCHANGED <<vault, request, authVars, temp>>

(* The sync fails: an error is reported for a mutation every process sees. *)
SyncDirectoryFails(p) ==
  /\ pc[p] = "dirsync"
  /\ MayLeaveUnsynced(p)
  /\ draft' = [draft EXCEPT ![p] = {}]
  /\ Return(p, Reply("Error"))
  /\ UNCHANGED <<fileVars, request, authVars, temp>>

-----------------------------------------------------------------------------
(* What the program does by itself, without a user or a failure.           *)
Run(p) ==
  \/ Probe(p) \/ Acquire(p) \/ Retry(p) \/ Authorized(p)
  \/ TakeOver(p) \/ Enter(p)
  \/ ReadFails(p) \/ ReturnList(p) \/ ReturnProject(p) \/ Refuse(p) \/ Prepare(p)
  \/ WriteTemp(p) \/ SyncTemp(p) \/ Rename(p) \/ SyncDirectory(p)

(* What a user decides.                                                    *)
User(p) ==
  \/ List(p)
  \/ \E n \in Names : Add(p, n) \/ Get(p, n) \/ Delete(p, n)
  \/ \E w \in Passwords : Prompt(p, w)
  \/ Deny(p)
  \/ Revise(p) \/ Leave(p)

Failure(p) ==
  \/ Unencodable(p) \/ Unavailable(p)
  \/ WriteFails(p) \/ SyncDirectoryFails(p)
  \/ Crash(p)

Next ==
  \/ \E p \in Procs : Run(p) \/ Finish(p) \/ User(p) \/ Failure(p)
  \/ PowerLoss

Spec == Init /\ [][Next]_vars

(* The operating system runs every process that can run.  Users owe        *)
(* nothing: a prompt may wait for ever.                                    *)
FairSpec ==
  /\ Spec
  /\ \A p \in Procs : WF_vars(Run(p)) /\ WF_vars(Finish(p))

-----------------------------------------------------------------------------
(* From the moment a process has read the vault to the moment it replaces  *)
(* it, what it is about to write is the outcome of its operation on the    *)
(* vault as it is now: nobody's change can be overwritten (write_locked    *)
(* after read_locked under one lock, handed over by the authorizer).       *)
DraftIsCurrent ==
  \A p \in Procs :
    pc[p] \in {"write", "fsync", "rename"} =>
      /\ lock[p] = "exclusive"
      /\ CanRead(p)
      /\ \A why \in Refusals : ~Refused(request[p], why)
      /\ \E rev \in Revisions : draft[p] = Outcome(Records, request[p], rev)

(* Every vault the disk may come back with is whole and can be decoded:    *)
(* one that cannot would be refused for ever (read_locked).                *)
VaultsDecodable ==
  \A v \in onDisk \cup {vault} :
    v # Torn /\ (v # Nil => Decodable(v.records))

(* Nobody who was asked to choose a password for a new vault locks others  *)
(* out of a vault that exists: its password never changes.                 *)
PasswordStable ==
  [][vault # Nil /\ vault' # Nil => vault'.password = vault.password]_vault

(* VaultUnlockFailed is reported only to a user who was asked for the      *)
(* password of the existing vault and typed another one: never because a   *)
(* vault appeared between the question and the operation.                  *)
UnlockFailureIsGenuine ==
  \A p \in Procs :
    reply[p].status = "VaultUnlockFailed" =>
      exists[p] /\ password[p] # Nil /\ vault # Nil /\ password[p] # vault.password

(* The authorizer asks again only when it asked for a new vault's password *)
(* and the vault exists by now; so it asks at most twice.                  *)
AskedAgainOnlyForNewVault ==
  [][\A p \in Procs : pc[p] = "recheck" /\ pc'[p] = "probe"
                         => ~exists[p] /\ vault # Nil]_vars

(* The lock the authorizer leaves is the one the operation needs, so the   *)
(* error path of operation_lock is never taken.                            *)
HandoverMatches ==
  \A p \in Procs : pending[p] => lock[p] = OperationMode(request[p])

(* An edit replaces the very version its user was shown before it, with    *)
(* the capabilities that version had: whatever others have done to the     *)
(* project meanwhile is never overwritten (the comparison of revisions in  *)
(* replace, for commands that hold no lock while their user answers).      *)
NoLostEdit ==
  [][\A p \in Procs :
       pc[p] = "rename" /\ pc'[p] = "dirsync" /\ request[p].op = "replace" =>
         Named(Records, request[p].name)
           = {[name |-> request[p].name, rev |-> request[p].rev, caps |-> shown[p]]}
    ]_vars

(* A temporary file stays behind only when its process is killed, or the   *)
(* machine stops, in the midst of a write under the exclusive lock: every  *)
(* operation that returns, whatever failed in it, has renamed or removed   *)
(* its own (write_locked).                                                 *)
NoTempLeft ==
  [][\A p \in Procs :
       temp[p] # "left" /\ temp'[p] = "left" =>
         pc[p] \in {"write", "fsync", "rename"} /\ lock[p] = "exclusive"
    ]_vars

-----------------------------------------------------------------------------
(* The vault implements the repository contract.                           *)
StoreOf(v) ==
  LET records == IF v = Nil \/ v = Torn THEN {} ELSE v.records
  IN  [n \in Names |-> IF \E r \in records : r.name = n
                       THEN LET r == CHOOSE r \in records : r.name = n
                            IN  [rev |-> r.rev, caps |-> r.caps]
                       ELSE Nil]

Repository == INSTANCE ProjectStore
  WITH Clients <- Procs,
       store <- StoreOf(vault),
       durable <- {StoreOf(v) : v \in onDisk},
       applied <- [p \in Procs |-> pc[p] = "dirsync"]

(* Every behaviour of the Linux backend is one of the abstract store: each *)
(* mutation takes effect at the rename and on its own project only, every  *)
(* refusal was true when it was decided, an error other than that of the   *)
(* directory sync has changed nothing, and what was acknowledged survives  *)
(* crashes and power losses.                                               *)
ImplementsRepository == Repository!Spec

(* A process holding the lock always lets go of it, though users may never *)
(* answer a prompt: no question is ever asked under the lock.              *)
LockReleased == \A p \in Procs : lock[p] # "none" ~> lock[p] = "none"

(* A command is only ever waiting for its user, or for others who keep     *)
(* using the vault: it is never stuck on a lock nobody gives back.         *)
AtRest(p) == pc[p] \in {"idle", "prompt"} \/ HasProject(p)

NeverStuck ==
  \A p \in Procs : []<>AtRest(p) \/ []<>(\E q \in Procs \ {p} : lock[q] # "none")
=============================================================================
