-------------------------- MODULE LinuxVaultProofs --------------------------
(***************************************************************************)
(* Proofs about LinuxVault, for any processes, names, capabilities,        *)
(* passwords and revisions: the invariant of locks, passwords and files    *)
(* and what follows from it, then what processes know of projects and      *)
(* revisions, and with it the refinement of ProjectStore.                  *)
(***************************************************************************)
EXTENDS LinuxVault, FiniteSetTheorems, TLAPS

Writing == {"write", "fsync", "rename"}

(* Who holds the lock exclusively holds it alone: what flock promises.     *)
LockExclusion ==
  \A p, q \in Procs : p # q /\ lock[p] = "exclusive" => lock[q] = "none"

(* A request names its project and is there as long as its operation.      *)
RequestInv ==
  \A p \in Procs :
    /\ pc[p] # "idle" => request[p].op # "none"
    /\ request[p].op \notin {"none", "list"} => request[p].name \in Names

(* Which lock each point of an operation is under.                         *)
LockInv ==
  \A p \in Procs :
    /\ pc[p] = "recheck" => lock[p] = ActionMode(request[p])
    /\ pending[p] =>
         \/ pc[p] = "enter"
         \/ pc[p] = "done" /\ request[p].op \in {"create", "replace"}
    /\ pending[p] \/ pc[p] = "read" => lock[p] = OperationMode(request[p])
    /\ pc[p] \in Writing \cup {"dirsync"} => lock[p] = "exclusive" /\ Mutates(request[p])

(* A process that may create the vault has a password to encrypt it with.  *)
PasswordInv ==
  \A p \in Procs :
    /\ pc[p] \in {"lock", "recheck"} /\ request[p].op = "create" => typed[p] # Nil
    /\ pc[p] \in {"enter", "read"} /\ request[p].op = "create" => password[p] # Nil
    /\ pc[p] \in Writing => password[p] # Nil
    /\ pc[p] = "rename" => temp[p] = "synced"

(* The vaults the disk may come back with are whole and share the password *)
(* of the vault in place.                                                  *)
DiskInv ==
  /\ vault \in onDisk
  /\ Torn \notin onDisk
  /\ vault = Nil => onDisk = {Nil}
  /\ \A v \in onDisk : v # Nil => v.password = vault.password

IInv ==
  TypeOK /\ RequestInv /\ LockInv /\ LockExclusion /\ PasswordInv
    /\ DraftIsCurrent /\ DiskInv

-----------------------------------------------------------------------------

LEMMA OutcomeType ==
  ASSUME NEW records \in SUBSET Record, NEW r, NEW rev \in Revisions,
         r.name \in Names, r.caps \in SUBSET Caps
  PROVE  Outcome(records, r, rev) \in SUBSET Record
BY DEF Outcome, Named, Record

LEMMA FreshRevisionType ==
  ASSUME FreshRevisions # {}
  PROVE  FreshRevision \in Revisions
BY DEF FreshRevision, FreshRevisions

LEMMA RequestType ==
  ASSUME NEW op \in {"none", "list", "get", "create", "replace", "delete"},
         NEW n \in Names \cup {Nil}, NEW r \in Revisions \cup {Nil},
         NEW cs \in SUBSET Caps
  PROVE  Request(op, n, r, cs) \in Requests
BY DEF Request, Requests

LEMMA ReplyType ==
  ASSUME NEW status \in {"none", "ok", "VaultUnlockFailed", "Error"} \cup Refusals
  PROVE  Reply(status) \in Replies
BY DEF Reply, Replies

LEMMA InitInv == Init => IInv
<1> SUFFICES ASSUME Init PROVE IInv
  OBVIOUS
<1>1. TypeOK
  BY RequestType, ReplyType DEF Init, TypeOK, NoRequest, NoReply, Points
<1>2. RequestInv /\ LockInv /\ LockExclusion /\ PasswordInv /\ DraftIsCurrent
  BY DEF Init, RequestInv, LockInv, LockExclusion, PasswordInv, DraftIsCurrent,
         Writing, NoRequest, Request
<1>3. DiskInv
  BY Sentinels DEF Init, DiskInv
<1> QED
  BY <1>1, <1>2, <1>3 DEF IInv

LEMMA TypeStep == IInv /\ [Next]_vars => TypeOK'
<1> SUFFICES ASSUME IInv, [Next]_vars PROVE TypeOK'
  OBVIOUS
<1> USE DEF IInv, TypeOK, Points, fileVars, authVars, writeVars
<1>a. Reply("none") \in Replies /\ Reply("ok") \in Replies
        /\ Reply("Error") \in Replies /\ Reply("VaultUnlockFailed") \in Replies
        /\ \A why \in Refusals : Reply(why) \in Replies
  BY ReplyType
<1>1. ASSUME NEW p \in Procs, NEW r \in Requests, Start(p, r) PROVE TypeOK'
  BY <1>1 DEF Start
<1>2. ASSUME NEW p \in Procs, Probe(p) PROVE TypeOK'
  BY <1>2 DEF Probe
<1>3. ASSUME NEW p \in Procs, NEW w \in Passwords, Prompt(p, w) PROVE TypeOK'
  BY <1>3 DEF Prompt
<1>4. ASSUME NEW p \in Procs, Deny(p) \/ Unencodable(p) \/ Unavailable(p) \/ ReadFails(p)
      PROVE  TypeOK'
  BY <1>4, <1>a DEF Deny, Unencodable, Unavailable, ReadFails, Return
<1>5. ASSUME NEW p \in Procs, Acquire(p) PROVE TypeOK'
  BY <1>5 DEF Acquire, ActionMode
<1>6. ASSUME NEW p \in Procs, Retry(p) PROVE TypeOK'
  BY <1>6 DEF Retry
<1>7. ASSUME NEW p \in Procs, Authorized(p) PROVE TypeOK'
  BY <1>7 DEF Authorized
<1>8. ASSUME NEW p \in Procs, TakeOver(p) PROVE TypeOK'
  BY <1>8, <1>a DEF TakeOver
<1>9. ASSUME NEW p \in Procs, Enter(p) PROVE TypeOK'
  BY <1>9 DEF Enter, OperationMode
<1>10. ASSUME NEW p \in Procs, ReturnList(p) PROVE TypeOK'
  <2>1. {r.name : r \in Records} \in SUBSET Names
    BY DEF Records, Vault, Record
  <2>2. [Reply("ok") EXCEPT !.names = {r.name : r \in Records}] \in Replies
    BY <2>1, <1>a DEF Replies
  <2> QED
    BY <1>10, <2>2 DEF ReturnList, Return
<1>11. ASSUME NEW p \in Procs, ReturnProject(p) PROVE TypeOK'
  <2>1. PICK r \in Named(Records, request[p].name) :
          Return(p, [Reply("ok") EXCEPT !.rev = r.rev, !.caps = r.caps])
    BY <1>11 DEF ReturnProject
  <2>2. r \in Record
    BY DEF Named, Records, Vault
  <2>3. [Reply("ok") EXCEPT !.rev = r.rev, !.caps = r.caps] \in Replies
    BY <2>2, <1>a DEF Replies, Record
  <2> QED
    BY <1>11, <2>1, <2>3 DEF ReturnProject, Return
<1>12. ASSUME NEW p \in Procs, Refuse(p) PROVE TypeOK'
  BY <1>12, <1>a DEF Refuse, Return
<1>13. ASSUME NEW p \in Procs, Prepare(p) PROVE TypeOK'
  <2>1. request[p].name \in Names /\ request[p].caps \in SUBSET Caps
    BY <1>13 DEF Prepare, Mutates, RequestInv, Requests
  <2>2. Records \in SUBSET Record
    BY DEF Records, Vault
  <2>3. Outcome(Records, request[p], FreshRevision) \in SUBSET Record
    BY <1>13, <2>1, <2>2, OutcomeType, FreshRevisionType DEF Prepare
  <2> QED
    BY <1>13, <2>3 DEF Prepare
<1>14. ASSUME NEW p \in Procs, WriteTemp(p) \/ SyncTemp(p) PROVE TypeOK'
  BY <1>14 DEF WriteTemp, SyncTemp
<1>15. ASSUME NEW p \in Procs, WriteFails(p) PROVE TypeOK'
  BY <1>15, <1>a DEF WriteFails, Return
<1>16. ASSUME NEW p \in Procs, Rename(p) PROVE TypeOK'
  <2>1. [password |-> password[p], records |-> draft[p]] \in Vault
    BY <1>16 DEF Rename, PasswordInv, Writing, Vault
  <2> QED
    BY <1>16, <2>1 DEF Rename
<1>17. ASSUME NEW p \in Procs, SyncDirectory(p) \/ SyncDirectoryFails(p) PROVE TypeOK'
  BY <1>17, <1>a DEF SyncDirectory, SyncDirectoryFails, Return
<1>18. ASSUME NEW p \in Procs, Revise(p) PROVE TypeOK'
  <2>1. /\ reply[p].rev \in Revisions \cup {Nil} /\ reply[p].caps \in SUBSET Caps
        /\ request[p].name \in Names \cup {Nil}
    BY DEF Replies, Requests
  <2>2. PICK cs \in SUBSET Caps :
          request' = [request EXCEPT ![p] =
                        Request("replace", request[p].name, reply[p].rev, cs)]
    BY <1>18, <2>1 DEF Revise
  <2>3. Request("replace", request[p].name, reply[p].rev, cs) \in Requests
    BY <2>1, RequestType
  <2> QED
    BY <1>18, <2>1, <2>2, <2>3, <1>a DEF Revise, NoReply
<1>19. ASSUME NEW p \in Procs, Exit(p), UNCHANGED fileVars PROVE TypeOK'
  BY <1>19, <1>a, RequestType DEF Exit, Leftover, NoRequest, NoReply
<1>20. CASE PowerLoss
  BY <1>20, <1>a, RequestType DEF PowerLoss, NoRequest, NoReply
<1>21. CASE UNCHANGED vars
  BY <1>21 DEF vars
<1>22. ASSUME NEW p \in Procs,
              List(p) \/ \E n \in Names : Add(p, n) \/ Get(p, n) \/ Delete(p, n)
       PROVE  \E r \in Requests : Start(p, r)
  BY <1>22, RequestType DEF List, Add, Get, Delete
<1> QED
  BY <1>1, <1>2, <1>3, <1>4, <1>5, <1>6, <1>7, <1>8, <1>9, <1>10, <1>11, <1>12,
     <1>13, <1>14, <1>15, <1>16, <1>17, <1>18, <1>19, <1>20, <1>21, <1>22
     DEF Next, Run, User, Failure, Finish, Leave, Crash

(* Most steps move pc[p] and nothing that RequestInv speaks of.            *)
LEMMA RequestStep == IInv /\ [Next]_vars => RequestInv'
<1> SUFFICES ASSUME IInv, [Next]_vars PROVE RequestInv'
  OBVIOUS
<1> USE DEF IInv, TypeOK, RequestInv, Request, NoRequest
<1>1. ASSUME NEW p \in Procs,
             List(p) \/ \E n \in Names : Add(p, n) \/ Get(p, n) \/ Delete(p, n)
      PROVE  RequestInv'
  BY <1>1 DEF List, Add, Get, Delete, Start
<1>2. ASSUME NEW p \in Procs,
             \/ Probe(p) \/ Acquire(p) \/ Retry(p) \/ Authorized(p)
             \/ TakeOver(p) \/ Enter(p) \/ Deny(p)
             \/ \E w \in Passwords : Prompt(p, w)
      PROVE  RequestInv'
  BY <1>2 DEF Probe, Acquire, Retry, Authorized, TakeOver, Enter, Deny, Prompt, Return
<1>3. ASSUME NEW p \in Procs,
             \/ ReadFails(p) \/ ReturnList(p) \/ ReturnProject(p) \/ Refuse(p)
             \/ Prepare(p) \/ Unencodable(p) \/ Unavailable(p)
      PROVE  RequestInv'
  BY <1>3 DEF ReadFails, ReturnList, ReturnProject, Refuse, Prepare, Unencodable,
              Unavailable, Return
<1>4. ASSUME NEW p \in Procs,
             \/ WriteTemp(p) \/ SyncTemp(p) \/ Rename(p) \/ WriteFails(p)
             \/ SyncDirectory(p) \/ SyncDirectoryFails(p)
      PROVE  RequestInv'
  BY <1>4 DEF WriteTemp, SyncTemp, Rename, WriteFails, SyncDirectory,
              SyncDirectoryFails, Return
<1>5. ASSUME NEW p \in Procs, Revise(p) PROVE RequestInv'
  BY <1>5 DEF Revise, HasProject
<1>6. ASSUME NEW p \in Procs, Exit(p) PROVE RequestInv'
  BY <1>6 DEF Exit
<1>7. CASE PowerLoss
  BY <1>7 DEF PowerLoss
<1>8. CASE UNCHANGED vars
  BY <1>8 DEF vars
<1> QED
  BY <1>1, <1>2, <1>3, <1>4, <1>5, <1>6, <1>7, <1>8
     DEF Next, Run, User, Failure, Finish, Leave, Crash

LEMMA LockStep == IInv /\ [Next]_vars => LockInv' /\ LockExclusion'
<1> SUFFICES ASSUME IInv, [Next]_vars PROVE LockInv' /\ LockExclusion'
  OBVIOUS
<1> USE DEF IInv, TypeOK, RequestInv, LockInv, LockExclusion, ActionMode,
            OperationMode, Mutates, Writing
<1>1. ASSUME NEW p \in Procs,
             List(p) \/ \E n \in Names : Add(p, n) \/ Get(p, n) \/ Delete(p, n)
      PROVE  LockInv' /\ LockExclusion'
  <2>1. PICK r : Start(p, r)
    BY <1>1 DEF List, Add, Get, Delete
  <2> QED
    BY <2>1 DEF Start, authVars
<1>2. ASSUME NEW p \in Procs,
             Probe(p) \/ Deny(p) \/ \E w \in Passwords : Prompt(p, w)
      PROVE  LockInv' /\ LockExclusion'
  BY <1>2 DEF Probe, Deny, Prompt, Return, authVars
<1>3. ASSUME NEW p \in Procs, Acquire(p) PROVE LockInv' /\ LockExclusion'
  BY <1>3 DEF Acquire, CanLock, authVars
<1>4. ASSUME NEW p \in Procs, Retry(p) PROVE LockInv' /\ LockExclusion'
  BY <1>4 DEF Retry
<1>15. ASSUME NEW p \in Procs, Authorized(p) PROVE LockInv' /\ LockExclusion'
  <2>1. request[p].op \in {"list", "get", "create", "replace", "delete"}
    BY <1>15 DEF Authorized, Requests
  <2>2. ActionMode(request[p]) = OperationMode(request[p])
    BY <2>1
  <2> QED
    BY <1>15, <2>2 DEF Authorized
<1>5. ASSUME NEW p \in Procs, TakeOver(p) PROVE LockInv' /\ LockExclusion'
  BY <1>5 DEF TakeOver
<1>6. ASSUME NEW p \in Procs, Enter(p) PROVE LockInv' /\ LockExclusion'
  BY <1>6 DEF Enter, CanLock, authVars
<1>7. ASSUME NEW p \in Procs,
             ReadFails(p) \/ ReturnList(p) \/ ReturnProject(p) \/ Refuse(p)
      PROVE  LockInv' /\ LockExclusion'
  <2>1. PICK answer : Return(p, answer)
    BY <1>7 DEF ReadFails, ReturnList, ReturnProject, Refuse
  <2>2. pc[p] = "read" /\ UNCHANGED <<request, authVars>>
    BY <1>7 DEF ReadFails, ReturnList, ReturnProject, Refuse
  <2> QED
    BY <2>1, <2>2 DEF Return, authVars
<1>16. ASSUME NEW p \in Procs, Unencodable(p) \/ Unavailable(p)
       PROVE  LockInv' /\ LockExclusion'
  BY <1>16 DEF Unencodable, Unavailable, Return, authVars
<1>8. ASSUME NEW p \in Procs, Prepare(p) PROVE LockInv' /\ LockExclusion'
  BY <1>8 DEF Prepare, authVars
<1>9. ASSUME NEW p \in Procs, WriteTemp(p) \/ SyncTemp(p) \/ Rename(p)
      PROVE  LockInv' /\ LockExclusion'
  BY <1>9 DEF WriteTemp, SyncTemp, Rename, authVars
<1>10. ASSUME NEW p \in Procs,
              WriteFails(p) \/ SyncDirectory(p) \/ SyncDirectoryFails(p)
       PROVE  LockInv' /\ LockExclusion'
  BY <1>10 DEF WriteFails, SyncDirectory, SyncDirectoryFails, Return, authVars
<1>11. ASSUME NEW p \in Procs, Revise(p) PROVE LockInv' /\ LockExclusion'
  BY <1>11 DEF Revise, HasProject, Request, authVars
<1>12. ASSUME NEW p \in Procs, Exit(p) PROVE LockInv' /\ LockExclusion'
  BY <1>12 DEF Exit, NoRequest, Request
<1>13. CASE PowerLoss
  BY <1>13 DEF PowerLoss, NoRequest, Request
<1>14. CASE UNCHANGED vars
  BY <1>14 DEF vars
<1> QED
  BY <1>1, <1>2, <1>3, <1>4, <1>5, <1>6, <1>7, <1>8, <1>9, <1>10, <1>11, <1>12,
     <1>13, <1>14, <1>15, <1>16
     DEF Next, Run, User, Failure, Finish, Leave, Crash

LEMMA PasswordStep == IInv /\ [Next]_vars => PasswordInv'
<1> SUFFICES ASSUME IInv, [Next]_vars PROVE PasswordInv'
  OBVIOUS
<1> USE DEF IInv, TypeOK, PasswordInv, Writing
<1>1. ASSUME NEW p \in Procs,
             List(p) \/ \E n \in Names : Add(p, n) \/ Get(p, n) \/ Delete(p, n)
      PROVE  PasswordInv'
  <2>1. PICK r : Start(p, r)
    BY <1>1 DEF List, Add, Get, Delete
  <2> QED
    BY <2>1 DEF Start, authVars, writeVars
<1>2. ASSUME NEW p \in Procs, Probe(p) PROVE PasswordInv'
  BY <1>2 DEF Probe, writeVars
<1>3. ASSUME NEW p \in Procs, NEW w \in Passwords, Prompt(p, w) PROVE PasswordInv'
  BY <1>3, Sentinels DEF Prompt, writeVars
<1>4. ASSUME NEW p \in Procs, Acquire(p) \/ Enter(p) PROVE PasswordInv'
  BY <1>4 DEF Acquire, Enter, authVars, writeVars
<1>5. ASSUME NEW p \in Procs, Retry(p) \/ Authorized(p) PROVE PasswordInv'
  BY <1>5 DEF Retry, Authorized, writeVars
<1>6. ASSUME NEW p \in Procs, TakeOver(p) PROVE PasswordInv'
  BY <1>6 DEF TakeOver, writeVars
<1>7. ASSUME NEW p \in Procs,
             \/ Deny(p) \/ Unencodable(p) \/ Unavailable(p)
             \/ ReadFails(p) \/ ReturnList(p) \/ ReturnProject(p) \/ Refuse(p)
      PROVE  PasswordInv'
  <2>1. PICK answer : Return(p, answer)
    BY <1>7 DEF Deny, Unencodable, Unavailable, ReadFails, ReturnList,
                ReturnProject, Refuse
  <2>2. UNCHANGED <<request, authVars, writeVars>>
    BY <1>7 DEF Deny, Unencodable, Unavailable, ReadFails, ReturnList,
                ReturnProject, Refuse
  <2> QED
    BY <2>1, <2>2 DEF Return, authVars, writeVars
<1>8. ASSUME NEW p \in Procs, Prepare(p) PROVE PasswordInv'
  <2>1. password[p] # Nil
    <3>1. CASE vault = Nil
      <4>1. request[p].op = "create"
        BY <1>8, <3>1 DEF Prepare, Mutates, Refusals, Refused, Named, Records
      <4> QED
        BY <1>8, <4>1 DEF Prepare
    <3>2. CASE vault # Nil
      BY <1>8, <3>2, Sentinels DEF Prepare, CanRead, Opens, Vault
    <3> QED
      BY <3>1, <3>2
  <2> QED
    BY <1>8, <2>1 DEF Prepare, authVars
<1>9. ASSUME NEW p \in Procs, WriteTemp(p) \/ SyncTemp(p) \/ Rename(p)
      PROVE  PasswordInv'
  BY <1>9 DEF WriteTemp, SyncTemp, Rename, authVars
<1>10. ASSUME NEW p \in Procs,
              WriteFails(p) \/ SyncDirectory(p) \/ SyncDirectoryFails(p)
       PROVE  PasswordInv'
  BY <1>10 DEF WriteFails, SyncDirectory, SyncDirectoryFails, Return, authVars
<1>11. ASSUME NEW p \in Procs, Revise(p) PROVE PasswordInv'
  BY <1>11 DEF Revise, HasProject, Request, authVars, writeVars
<1>12. ASSUME NEW p \in Procs, Exit(p) PROVE PasswordInv'
  BY <1>12 DEF Exit, NoRequest, Request
<1>13. CASE PowerLoss
  BY <1>13 DEF PowerLoss, NoRequest, Request
<1>14. CASE UNCHANGED vars
  BY <1>14 DEF vars
<1> QED
  BY <1>1, <1>2, <1>3, <1>4, <1>5, <1>6, <1>7, <1>8, <1>9, <1>10, <1>11, <1>12,
     <1>13, <1>14
     DEF Next, Run, User, Failure, Finish, Leave, Crash

(* The invariant about drafts survives every step that leaves the vault    *)
(* and the writers alone.                                                  *)
WriterKept(q) ==
  pc'[q] \in Writing =>
    /\ pc[q] \in Writing
    /\ lock'[q] = lock[q] /\ password'[q] = password[q]
    /\ request'[q] = request[q] /\ draft'[q] = draft[q]

LEMMA DraftKept ==
  ASSUME IInv, UNCHANGED vault, \A q \in Procs : WriterKept(q)
  PROVE  DraftIsCurrent'
BY DEF IInv, DraftIsCurrent, CanRead, Opens, Records, Refused, Outcome, Named, Writing,
       WriterKept

LEMMA DraftStep == IInv /\ [Next]_vars => DraftIsCurrent'
<1> SUFFICES ASSUME IInv, [Next]_vars PROVE DraftIsCurrent'
  OBVIOUS
<1> USE DEF IInv, TypeOK, Writing
<1>1. ASSUME NEW p \in Procs,
             List(p) \/ \E n \in Names : Add(p, n) \/ Get(p, n) \/ Delete(p, n)
      PROVE  DraftIsCurrent'
  <2>1. PICK r : Start(p, r)
    BY <1>1 DEF List, Add, Get, Delete
  <2>2. \A q \in Procs : WriterKept(q)
    BY <2>1 DEF Start, authVars, writeVars, WriterKept
  <2> QED
    BY <2>1, <2>2, DraftKept DEF Start, fileVars
<1>2. ASSUME NEW p \in Procs,
             Probe(p) \/ Acquire(p) \/ Retry(p) \/ Authorized(p)
      PROVE  DraftIsCurrent'
  <2>1. \A q \in Procs : WriterKept(q)
    BY <1>2 DEF Probe, Acquire, Retry, Authorized, authVars, writeVars, WriterKept
  <2> QED
    BY <1>2, <2>1, DraftKept DEF Probe, Acquire, Retry, Authorized, fileVars
<1>3. ASSUME NEW p \in Procs, NEW w \in Passwords, Prompt(p, w)
      PROVE  DraftIsCurrent'
  <2>1. \A q \in Procs : WriterKept(q)
    BY <1>3 DEF Prompt, writeVars, WriterKept
  <2> QED
    BY <1>3, <2>1, DraftKept DEF Prompt, fileVars
<1>4. ASSUME NEW p \in Procs, TakeOver(p) \/ Enter(p) PROVE DraftIsCurrent'
  <2>1. \A q \in Procs : WriterKept(q)
    BY <1>4 DEF TakeOver, Enter, authVars, writeVars, WriterKept
  <2> QED
    BY <1>4, <2>1, DraftKept DEF TakeOver, Enter, fileVars
<1>5. ASSUME NEW p \in Procs,
             \/ Deny(p) \/ Unencodable(p) \/ Unavailable(p)
             \/ ReadFails(p) \/ ReturnList(p) \/ ReturnProject(p) \/ Refuse(p)
      PROVE  DraftIsCurrent'
  <2>1. PICK answer : Return(p, answer)
    BY <1>5 DEF Deny, Unencodable, Unavailable, ReadFails, ReturnList,
                ReturnProject, Refuse
  <2>2. UNCHANGED <<fileVars, request, authVars, writeVars>>
    BY <1>5 DEF Deny, Unencodable, Unavailable, ReadFails, ReturnList,
                ReturnProject, Refuse
  <2>3. \A q \in Procs : WriterKept(q)
    BY <2>1, <2>2 DEF Return, authVars, writeVars, WriterKept
  <2> QED
    BY <2>2, <2>3, DraftKept DEF fileVars
(* A writer starts: it holds the lock exclusively and has just read.       *)
<1>6. ASSUME NEW p \in Procs, Prepare(p) PROVE DraftIsCurrent'
  <2>1. lock[p] = "exclusive"
    BY <1>6 DEF Prepare, LockInv, OperationMode, Mutates
  <2>2. FreshRevision \in Revisions
    BY <1>6, FreshRevisionType DEF Prepare
  <2>3. UNCHANGED <<vault, password, request, lock>>
    BY <1>6 DEF Prepare, fileVars, authVars
  <2> QED
    BY <1>6, <2>1, <2>2, <2>3
       DEF Prepare, DraftIsCurrent, CanRead, Opens, Records, Refused, Outcome, Named
<1>7. ASSUME NEW p \in Procs, WriteTemp(p) \/ SyncTemp(p) PROVE DraftIsCurrent'
  <2>1. \A q \in Procs : WriterKept(q)
    BY <1>7 DEF WriteTemp, SyncTemp, authVars, WriterKept
  <2> QED
    BY <1>7, <2>1, DraftKept DEF WriteTemp, SyncTemp, fileVars
(* The vault changes: nobody else was about to write.                      *)
<1>8. ASSUME NEW p \in Procs, Rename(p) PROVE DraftIsCurrent'
  <2>1. \A q \in Procs : pc'[q] \notin Writing
    BY <1>8 DEF Rename, LockInv, LockExclusion
  <2> QED
    BY <2>1 DEF DraftIsCurrent
<1>9. ASSUME NEW p \in Procs,
             WriteFails(p) \/ SyncDirectory(p) \/ SyncDirectoryFails(p)
      PROVE  DraftIsCurrent'
  <2>1. \A q \in Procs : WriterKept(q)
    BY <1>9 DEF WriteFails, SyncDirectory, SyncDirectoryFails, Return, authVars,
                WriterKept
  <2> QED
    BY <1>9, <2>1, DraftKept DEF WriteFails, SyncDirectory, SyncDirectoryFails, fileVars
<1>10. ASSUME NEW p \in Procs, Revise(p) PROVE DraftIsCurrent'
  <2>1. \A q \in Procs : WriterKept(q)
    BY <1>10 DEF Revise, HasProject, authVars, writeVars, WriterKept
  <2> QED
    BY <1>10, <2>1, DraftKept DEF Revise, fileVars
<1>11. ASSUME NEW p \in Procs, Exit(p), UNCHANGED fileVars PROVE DraftIsCurrent'
  <2>1. \A q \in Procs : WriterKept(q)
    BY <1>11 DEF Exit, WriterKept
  <2> QED
    BY <1>11, <2>1, DraftKept DEF fileVars
<1>12. CASE PowerLoss
  BY <1>12 DEF PowerLoss, DraftIsCurrent
<1>13. CASE UNCHANGED vars
  <2>1. \A q \in Procs : WriterKept(q)
    BY <1>13 DEF vars, WriterKept
  <2> QED
    BY <1>13, <2>1, DraftKept DEF vars
<1> QED
  BY <1>1, <1>2, <1>3, <1>4, <1>5, <1>6, <1>7, <1>8, <1>9, <1>10, <1>11, <1>12,
     <1>13
     DEF Next, Run, User, Failure, Finish, Leave, Crash

LEMMA DiskStep == IInv /\ [Next]_vars => DiskInv'
<1> SUFFICES ASSUME IInv, [Next]_vars PROVE DiskInv'
  OBVIOUS
<1> USE DEF IInv, DiskInv
<1>1. CASE UNCHANGED fileVars
  BY <1>1 DEF fileVars
<1>2. ASSUME NEW p \in Procs, Rename(p) PROVE DiskInv'
  <2> DEFINE new == [password |-> password[p], records |-> draft[p]]
  <2>1. new \in Vault
    BY <1>2 DEF Rename, PasswordInv, Writing, TypeOK, Vault
  <2>2. vault' = new /\ onDisk' = onDisk \cup {new}
    BY <1>2 DEF Rename, PasswordInv
  <2>3. vault # Nil => vault.password = password[p]
    BY <1>2 DEF Rename, DraftIsCurrent, CanRead, Opens
  <2>4. \A v \in onDisk : v # Nil => v.password = new.password
    BY <2>3
  <2> HIDE DEF new
  <2> QED
    BY <2>1, <2>2, <2>4, Sentinels
<1>3. ASSUME NEW p \in Procs, SyncDirectory(p) PROVE DiskInv'
  BY <1>3 DEF SyncDirectory
<1>4. CASE PowerLoss
  BY <1>4 DEF PowerLoss
<1>5. CASE UNCHANGED vars
  BY <1>1, <1>5 DEF vars, fileVars
<1>6. ASSUME NEW p \in Procs, User(p) \/ Failure(p) \/ Finish(p) PROVE UNCHANGED fileVars
  BY <1>6 DEF User, Failure, Finish, List, Add, Get, Delete, Start, Prompt, Deny,
              Revise, Leave, Unencodable, Unavailable, WriteFails,
              SyncDirectoryFails, Crash, fileVars
<1>7. ASSUME NEW p \in Procs, Run(p), ~Rename(p), ~SyncDirectory(p)
      PROVE  UNCHANGED fileVars
  BY <1>7 DEF Run, Probe, Acquire, Retry, Authorized, TakeOver, Enter, ReadFails,
              ReturnList, ReturnProject, Refuse, Prepare, WriteTemp, SyncTemp,
              fileVars
<1> QED
  BY <1>1, <1>2, <1>3, <1>4, <1>5, <1>6, <1>7 DEF Next

(* The inductive invariant holds throughout.                               *)
THEOREM InductiveInvariant == Spec => []IInv
<1>1. IInv /\ [Next]_vars => IInv'
  BY TypeStep, RequestStep, LockStep, PasswordStep, DraftStep, DiskStep DEF IInv
<1> QED
  BY InitInv, <1>1, PTL DEF Spec

-----------------------------------------------------------------------------
(* Every variable keeps its type.                                          *)
THEOREM TypeCorrect == Spec => []TypeOK
<1>1. IInv => TypeOK
  BY DEF IInv
<1> QED
  BY InductiveInvariant, <1>1, PTL

(* No mutation is written over a vault other than the one it was computed  *)
(* from, whoever else works on the vault.                                  *)
THEOREM NoStaleWrite == Spec => []DraftIsCurrent
<1>1. IInv => DraftIsCurrent
  BY DEF IInv
<1> QED
  BY InductiveInvariant, <1>1, PTL

(* The lock an authorizer leaves behind is always the one its operation    *)
(* asks for.                                                               *)
THEOREM HandoverCorrect == Spec => []HandoverMatches
<1>1. IInv => HandoverMatches
  BY DEF IInv, LockInv, HandoverMatches
<1> QED
  BY InductiveInvariant, <1>1, PTL

(* The password of an existing vault never changes, not even over a power  *)
(* loss: what the disk comes back with opens under the same password.      *)
THEOREM PasswordNeverChanges == Spec => PasswordStable
<1>1. IInv /\ [Next]_vars
        => (vault # Nil /\ vault' # Nil => vault'.password = vault.password)
  <2> SUFFICES ASSUME IInv, [Next]_vars, vault # Nil, vault' # Nil
               PROVE  vault'.password = vault.password
    OBVIOUS
  <2>1. CASE \E p \in Procs : Rename(p)
    <3>1. PICK p \in Procs : Rename(p)
      BY <2>1
    <3>2. vault.password = password[p]
      BY <3>1 DEF Rename, IInv, DraftIsCurrent, CanRead, Opens
    <3> QED
      BY <3>1, <3>2 DEF Rename
  <2>2. CASE PowerLoss
    BY <2>2 DEF PowerLoss, IInv, DiskInv
  <2>3. CASE UNCHANGED vault
    BY <2>3
  <2>4. \/ \E p \in Procs : Rename(p)
        \/ PowerLoss
        \/ UNCHANGED vault
    BY DEF Next, Run, Probe, Acquire, Retry, Authorized, TakeOver, Enter, ReadFails,
           ReturnList, ReturnProject, Refuse, Prepare, WriteTemp, SyncTemp,
           SyncDirectory, User, Failure, Finish, List, Add, Get, Delete, Start,
           Prompt, Deny, Revise, Leave, Unencodable, Unavailable, WriteFails,
           SyncDirectoryFails, Crash, fileVars, vars
  <2> QED
    BY <2>1, <2>2, <2>3, <2>4
<1> QED
  BY InductiveInvariant, <1>1, PTL DEF Spec, PasswordStable

-----------------------------------------------------------------------------
(* A process has a temporary file only while its operation writes, and     *)
(* what an earlier one left is known only until the next one starts.       *)
TempInv ==
  \A p \in Procs :
    /\ temp[p] \in {"written", "synced"} => pc[p] \in Writing
    /\ temp[p] = "left" => pc[p] = "idle"

(* A file is left behind only in the midst of a write.                     *)
LeftWriting ==
  \A p \in Procs : temp[p] # "left" /\ temp'[p] = "left" => pc[p] \in Writing

LEMMA TempStep == IInv /\ TempInv /\ [Next]_vars => TempInv' /\ LeftWriting
<1> SUFFICES ASSUME IInv, TempInv, [Next]_vars PROVE TempInv' /\ LeftWriting
  OBVIOUS
<1> USE DEF IInv, TypeOK, TempInv, LeftWriting, Writing
<1>1. ASSUME NEW p \in Procs, WriteTemp(p) \/ SyncTemp(p) \/ Rename(p) \/ WriteFails(p)
      PROVE  TempInv' /\ LeftWriting
  BY <1>1 DEF WriteTemp, SyncTemp, Rename, WriteFails, Return
<1>2. ASSUME NEW p \in Procs,
             List(p) \/ \E n \in Names : Add(p, n) \/ Get(p, n) \/ Delete(p, n)
      PROVE  TempInv' /\ LeftWriting
  BY <1>2 DEF List, Add, Get, Delete, Start
<1>3. ASSUME NEW p \in Procs, UNCHANGED temp, pc[p] \notin Writing \cup {"idle"},
             \A q \in Procs \ {p} : pc'[q] = pc[q]
      PROVE  TempInv' /\ LeftWriting
  BY <1>3
<1>4. ASSUME NEW p \in Procs, Exit(p) PROVE TempInv' /\ LeftWriting
  BY <1>4 DEF Exit, Leftover
<1>5. CASE PowerLoss
  BY <1>5 DEF PowerLoss, Leftover
<1>6. CASE UNCHANGED vars
  BY <1>6 DEF vars
<1>7. ASSUME NEW p \in Procs,
             \/ Probe(p) \/ Acquire(p) \/ Retry(p) \/ Authorized(p) \/ TakeOver(p)
             \/ Enter(p) \/ Deny(p) \/ Revise(p)
             \/ ReadFails(p) \/ ReturnList(p) \/ ReturnProject(p) \/ Refuse(p)
             \/ Prepare(p) \/ Unencodable(p) \/ Unavailable(p)
             \/ SyncDirectory(p) \/ SyncDirectoryFails(p)
             \/ \E w \in Passwords : Prompt(p, w)
      PROVE  /\ UNCHANGED temp
             /\ pc[p] \notin Writing \cup {"idle"}
             /\ \A q \in Procs \ {p} : pc'[q] = pc[q]
  BY <1>7 DEF Probe, Acquire, Retry, Authorized, TakeOver, Enter, Deny, Revise,
              HasProject, ReadFails, ReturnList, ReturnProject, Refuse, Prepare,
              Unencodable, Unavailable, SyncDirectory, SyncDirectoryFails, Prompt,
              Return, writeVars
<1> QED
  BY <1>1, <1>2, <1>3, <1>4, <1>5, <1>6, <1>7
     DEF Next, Run, User, Failure, Finish, Leave, Crash

(* A temporary file is left behind only by a process that is stopped while *)
(* it writes under the exclusive lock: whatever fails in an operation, one *)
(* that returns has renamed or removed its own.                            *)
THEOREM NoTempLeftBehind == Spec => NoTempLeft
<1>1. Init => TempInv
  BY DEF Init, TempInv
<1>2. IInv /\ LeftWriting
        => \A p \in Procs :
             temp[p] # "left" /\ temp'[p] = "left" =>
               pc[p] \in {"write", "fsync", "rename"} /\ lock[p] = "exclusive"
  BY DEF IInv, LockInv, LeftWriting, Writing
<1>3. UNCHANGED vars => LeftWriting
  BY DEF vars, LeftWriting
<1> QED
  BY InductiveInvariant, TempStep, <1>1, <1>2, <1>3, PTL DEF Spec, NoTempLeft

-----------------------------------------------------------------------------
(* Every vault the disk may come back with can be decoded.                 *)
RecordsInv == \A v \in onDisk : v # Nil => Decodable(v.records)

LEMMA AddOne ==
  ASSUME NEW S, IsFiniteSet(S), NEW x
  PROVE  IsFiniteSet(S \cup {x}) /\ Cardinality(S \cup {x}) <= Cardinality(S) + 1
<1>1. Cardinality(S) \in Nat
  BY FS_CardinalityType
<1>2. /\ IsFiniteSet(S \cup {x})
      /\ Cardinality(S \cup {x}) = IF x \in S THEN Cardinality(S) ELSE Cardinality(S) + 1
  BY FS_AddElement
<1> QED
  BY <1>1, <1>2

(* An operation that is not refused yields records that can be decoded.    *)
LEMMA OutcomeDecodable ==
  ASSUME NEW r, Decodable(Records), Mutates(r),
         \A why \in Refusals : ~Refused(r, why),
         NEW rev
  PROVE  Decodable(Outcome(Records, r, rev))
<1> DEFINE old == Named(Records, r.name)
           new == [name |-> r.name, rev |-> rev, caps |-> r.caps]
<1>0. Cardinality(Records) \in Nat /\ Cardinality(Records) <= MaxProjects
  BY FS_CardinalityType DEF Decodable
<1>1. CASE r.op = "create"
  <2>1. old = {} /\ Cardinality(Records) # MaxProjects
    BY <1>1 DEF Refusals, Refused
  <2>2. Outcome(Records, r, rev) = Records \cup {new}
    BY <1>1 DEF Outcome
  <2>3. IsFiniteSet(Records \cup {new})
        /\ Cardinality(Records \cup {new}) <= Cardinality(Records) + 1
    BY AddOne DEF Decodable
  <2>4. \A s \in Records : s.name # new.name
    BY <2>1 DEF Named
  <2> QED
    BY <1>0, <2>1, <2>2, <2>3, <2>4, Bounds, FS_CardinalityType DEF Decodable
<1>2. CASE r.op = "delete"
  <2>1. Outcome(Records, r, rev) \subseteq Records
    BY <1>2 DEF Outcome
  <2>2. IsFiniteSet(Outcome(Records, r, rev))
        /\ Cardinality(Outcome(Records, r, rev)) <= Cardinality(Records)
    BY <2>1, FS_Subset DEF Decodable
  <2> QED
    BY <1>0, <2>1, <2>2, Bounds, FS_CardinalityType DEF Decodable
<1>3. CASE r.op = "replace"
  <2>1. PICK o \in old : TRUE
    BY <1>3 DEF Refusals, Refused
  <2>2. old = {o} /\ o \in Records
    BY <2>1 DEF Named, Decodable
  <2>3. Outcome(Records, r, rev) = (Records \ {o}) \cup {new}
    BY <1>3, <2>2 DEF Outcome
  <2>4. IsFiniteSet(Records \ {o})
        /\ Cardinality(Records \ {o}) = Cardinality(Records) - 1
    BY <2>2, FS_RemoveElement DEF Decodable
  <2>5. \A s \in Records \ {o} : s.name # new.name
    BY <2>2 DEF Named
  <2>6. IsFiniteSet((Records \ {o}) \cup {new})
        /\ Cardinality((Records \ {o}) \cup {new}) <= Cardinality(Records \ {o}) + 1
    BY <2>4, AddOne
  <2> QED
    BY <1>0, <2>3, <2>4, <2>5, <2>6, Bounds, FS_CardinalityType DEF Decodable
<1> QED
  BY <1>1, <1>2, <1>3 DEF Mutates

LEMMA RecordsStep == IInv /\ RecordsInv /\ [Next]_vars => RecordsInv'
<1> SUFFICES ASSUME IInv, RecordsInv, [Next]_vars PROVE RecordsInv'
  OBVIOUS
<1>1. Decodable(Records)
  <2>1. CASE vault = Nil
    BY <2>1, FS_EmptySet, Bounds DEF Records, Decodable
  <2>2. CASE vault # Nil
    BY <2>2 DEF Records, RecordsInv, IInv, DiskInv
  <2> QED
    BY <2>1, <2>2
<1>2. ASSUME NEW p \in Procs, Rename(p) PROVE RecordsInv'
  <2>1. PICK rev \in Revisions : draft[p] = Outcome(Records, request[p], rev)
    BY <1>2 DEF Rename, IInv, DraftIsCurrent
  <2>2. \A why \in Refusals : ~Refused(request[p], why)
    BY <1>2 DEF Rename, IInv, DraftIsCurrent
  <2>3. Mutates(request[p])
    BY <1>2 DEF Rename, IInv, LockInv, Writing
  <2>4. Decodable(draft[p])
    BY <1>1, <2>1, <2>2, <2>3, OutcomeDecodable
  <2>5. onDisk' = onDisk \cup {[password |-> password[p], records |-> draft[p]]}
    BY <1>2 DEF Rename, IInv, PasswordInv
  <2> QED
    BY <2>4, <2>5 DEF RecordsInv
<1>3. CASE onDisk' \subseteq onDisk
  BY <1>3 DEF RecordsInv
<1>4. (\E p \in Procs : Rename(p)) \/ onDisk' \subseteq onDisk
  <2>1. UNCHANGED fileVars \/ onDisk' = {vault} \/ PowerLoss \/ \E p \in Procs : Rename(p)
    BY DEF Next, Run, Probe, Acquire, Retry, Authorized, TakeOver, Enter, ReadFails,
           ReturnList, ReturnProject, Refuse, Prepare, WriteTemp, SyncTemp,
           SyncDirectory, User, Failure, Finish, List, Add, Get, Delete, Start,
           Prompt, Deny, Revise, Leave, Unencodable, Unavailable, WriteFails,
           SyncDirectoryFails, Crash, fileVars, vars
  <2> QED
    BY <2>1 DEF PowerLoss, fileVars, IInv, DiskInv
<1> QED
  BY <1>2, <1>3, <1>4

(* Whatever crashes and power losses leave, the next process can decode    *)
(* the vault: no interleaving of operations and failures locks users out.  *)
THEOREM VaultAlwaysDecodable == Spec => []VaultsDecodable
<1>1. Init => RecordsInv
  BY DEF Init, RecordsInv
<1>2. IInv /\ RecordsInv => VaultsDecodable
  BY DEF IInv, DiskInv, RecordsInv, VaultsDecodable
<1> QED
  BY InductiveInvariant, RecordsStep, <1>1, <1>2, PTL DEF Spec

-----------------------------------------------------------------------------
(* What an authorizer was told about the vault stays true until the        *)
(* operation has read it, and only its own answer leads to a failure.      *)
ExistsInv ==
  \A p \in Procs :
    /\ pc[p] # "done" => reply[p].status = "none"
    /\ exists[p] => vault # Nil
    /\ pc[p] \in {"lock", "recheck"} /\ exists[p] => typed[p] # Nil
    /\ pc[p] \in {"enter", "read"} /\ exists[p] => password[p] # Nil
    /\ pc[p] = "read" \/ pending[p] => (vault # Nil => exists[p])
    /\ pc[p] = "enter" /\ ~pending[p] => exists[p]
    /\ HasProject(p) => exists[p]

LEMMA ExistsStep ==
  IInv /\ ExistsInv /\ UnlockFailureIsGenuine /\ [Next]_vars
    => ExistsInv' /\ UnlockFailureIsGenuine'
<1> DEFINE G == ExistsInv /\ UnlockFailureIsGenuine
<1> SUFFICES ASSUME IInv, G, [Next]_vars PROVE G'
  OBVIOUS
<1> USE DEF IInv, TypeOK, ExistsInv, UnlockFailureIsGenuine, HasProject
<1>1. ASSUME NEW p \in Procs,
             List(p) \/ \E n \in Names : Add(p, n) \/ Get(p, n) \/ Delete(p, n)
      PROVE  G'
  <2>1. PICK r : Start(p, r)
    BY <1>1 DEF List, Add, Get, Delete
  <2>2. ~pending[p]
    BY <2>1 DEF Start, LockInv
  <2> QED
    BY <2>1, <2>2 DEF Start, authVars, fileVars
<1>2. ASSUME NEW p \in Procs, Probe(p) PROVE G'
  <2>1. ~pending[p]
    BY <1>2 DEF Probe, LockInv
  <2> QED
    BY <1>2, <2>1 DEF Probe, fileVars
<1>3. ASSUME NEW p \in Procs, NEW w \in Passwords, Prompt(p, w) PROVE G'
  BY <1>3, Sentinels DEF Prompt, fileVars
<1>4. ASSUME NEW p \in Procs, Acquire(p) PROVE G'
  BY <1>4 DEF Acquire, authVars, fileVars
<1>5. ASSUME NEW p \in Procs, Retry(p) PROVE G'
  BY <1>5 DEF Retry, fileVars
<1>6. ASSUME NEW p \in Procs, Authorized(p) PROVE G'
  BY <1>6 DEF Authorized, fileVars
<1>7. ASSUME NEW p \in Procs, TakeOver(p) PROVE G'
  <2>1. lock[p] = OperationMode(request[p])
    BY <1>7 DEF TakeOver, LockInv
  <2> QED
    BY <1>7, <2>1 DEF TakeOver, fileVars
<1>8. ASSUME NEW p \in Procs, Enter(p) PROVE G'
  BY <1>8 DEF Enter, authVars, fileVars
<1>9. ASSUME NEW p \in Procs, ReadFails(p) PROVE G'
  BY <1>9, Sentinels
     DEF ReadFails, Return, CanRead, Opens, Reply, DiskInv, authVars, fileVars
<1>10. ASSUME NEW p \in Procs,
              Deny(p) \/ Unencodable(p) \/ Unavailable(p)
              \/ WriteFails(p) \/ SyncDirectory(p) \/ SyncDirectoryFails(p)
       PROVE  G'
  <2>1. Return(p, Reply("Error")) \/ (Return(p, Reply("ok")) /\ Mutates(request[p]))
    BY <1>10 DEF Deny, Unencodable, Unavailable, WriteFails, SyncDirectory,
                 SyncDirectoryFails, LockInv
  <2>2. UNCHANGED <<vault, request, authVars>>
    BY <1>10 DEF Deny, Unencodable, Unavailable, WriteFails, SyncDirectory,
                 SyncDirectoryFails, fileVars
  <2> QED
    BY <2>1, <2>2 DEF Return, Reply, Mutates, authVars
<1>11. ASSUME NEW p \in Procs, ReturnList(p) PROVE G'
  BY <1>11 DEF ReturnList, Return, Reply, authVars, fileVars
<1>12. ASSUME NEW p \in Procs, ReturnProject(p) PROVE G'
  <2>1. PICK r \in Named(Records, request[p].name) :
          Return(p, [Reply("ok") EXCEPT !.rev = r.rev, !.caps = r.caps])
    BY <1>12 DEF ReturnProject
  <2>2. vault # Nil
    BY <2>1 DEF Named, Records
  <2> QED
    BY <1>12, <2>1, <2>2 DEF ReturnProject, Return, Reply, authVars, fileVars
<1>13. ASSUME NEW p \in Procs, Refuse(p) PROVE G'
  <2>1. PICK why \in Refusals : Return(p, Reply(why))
    BY <1>13 DEF Refuse
  <2> QED
    BY <1>13, <2>1 DEF Refuse, Refusals, Return, Reply, authVars, fileVars
<1>14. ASSUME NEW p \in Procs, Prepare(p) \/ WriteTemp(p) \/ SyncTemp(p) PROVE G'
  <2>1. pc[p] \in {"read"} \cup Writing /\ pc'[p] \in Writing
        /\ \A q \in Procs \ {p} : pc'[q] = pc[q]
    BY <1>14 DEF Prepare, WriteTemp, SyncTemp, Writing
  <2>2. UNCHANGED <<vault, request, reply, authVars>>
    BY <1>14 DEF Prepare, WriteTemp, SyncTemp, fileVars
  <2> QED
    BY <2>1, <2>2 DEF authVars, Writing
(* The vault changes under the exclusive lock: no other operation has been *)
(* authorized or is reading.                                               *)
<1>15. ASSUME NEW p \in Procs, Rename(p) PROVE G'
  <2>1. vault' \in Vault /\ vault'.password = password[p]
    BY <1>15 DEF Rename, PasswordInv, Writing, Vault
  <2>2. vault' # Nil
    BY <2>1, Sentinels
  <2>3. vault # Nil => vault.password = password[p]
    BY <1>15 DEF Rename, DraftIsCurrent, CanRead, Opens
  <2>4. \A q \in Procs : ~pending[q] /\ pc'[q] # "read"
    BY <1>15 DEF Rename, LockInv, LockExclusion, OperationMode, Writing
  <2> QED
    BY <1>15, <2>1, <2>2, <2>3, <2>4 DEF Rename, authVars
<1>16. ASSUME NEW p \in Procs, Revise(p) PROVE G'
  BY <1>16 DEF Revise, NoReply, Reply, authVars, fileVars
<1>17. ASSUME NEW p \in Procs, Exit(p), UNCHANGED fileVars PROVE G'
  BY <1>17 DEF Exit, NoReply, Reply, fileVars
<1>18. CASE PowerLoss
  BY <1>18 DEF PowerLoss, NoReply, Reply
<1>19. CASE UNCHANGED vars
  BY <1>19 DEF vars
<1> QED
  BY <1>1, <1>2, <1>3, <1>4, <1>5, <1>6, <1>7, <1>8, <1>9, <1>10, <1>11, <1>12,
     <1>13, <1>14, <1>15, <1>16, <1>17, <1>18, <1>19
     DEF Next, Run, User, Failure, Finish, Leave, Crash

(* A user who types the right password is never told otherwise, whatever   *)
(* other processes do between the question and the operation.              *)
THEOREM UnlockFailuresAreGenuine == Spec => []UnlockFailureIsGenuine
<1>1. Init => ExistsInv /\ UnlockFailureIsGenuine
  BY DEF Init, ExistsInv, UnlockFailureIsGenuine, HasProject, NoReply, Reply
<1> QED
  BY InductiveInvariant, ExistsStep, <1>1, PTL DEF Spec

(* A user is asked a second time only after answering the question about a *)
(* new vault, and only because another process has created it meanwhile.   *)
THEOREM AskedAgainRarely == Spec => AskedAgainOnlyForNewVault
<1>1. Init => ExistsInv /\ UnlockFailureIsGenuine
  BY DEF Init, ExistsInv, UnlockFailureIsGenuine, HasProject, NoReply, Reply
<1>2. IInv /\ ExistsInv /\ [Next]_vars
        => \A p \in Procs : pc[p] = "recheck" /\ pc'[p] = "probe"
                              => ~exists[p] /\ vault # Nil
  <2> SUFFICES ASSUME IInv, ExistsInv, [Next]_vars,
                      NEW p \in Procs, pc[p] = "recheck", pc'[p] = "probe"
               PROVE  ~exists[p] /\ vault # Nil
    OBVIOUS
  <2> USE DEF IInv, TypeOK
  <2>1. ASSUME NEW q \in Procs, User(q) \/ Finish(q) \/ Failure(q) PROVE FALSE
    BY <2>1 DEF User, Failure, Finish, List, Add, Get, Delete, Start, Prompt, Deny,
                Revise, HasProject, Leave, Unencodable, Unavailable, WriteFails,
                SyncDirectoryFails, Crash, Exit, Return
  <2>2. ASSUME NEW q \in Procs, Run(q), ~Retry(q) PROVE FALSE
    BY <2>2 DEF Run, Probe, Acquire, Authorized, TakeOver, Enter, ReadFails,
                ReturnList, ReturnProject, Refuse, Prepare, WriteTemp, SyncTemp,
                Rename, SyncDirectory, Return
  <2>3. ~PowerLoss /\ ~UNCHANGED vars
    BY DEF PowerLoss, vars
  <2>4. PICK q \in Procs : Retry(q)
    BY <2>1, <2>2, <2>3 DEF Next
  <2>5. Retry(p)
    BY <2>4 DEF Retry
  <2> QED
    BY <2>5 DEF Retry, ExistsInv
<1> QED
  BY InductiveInvariant, ExistsStep, <1>1, <1>2, PTL
     DEF Spec, AskedAgainOnlyForNewVault

-----------------------------------------------------------------------------
(* What a command asks for.                                                *)
Asked(r) ==
  \/ r = Request("list", Nil, Nil, {})
  \/ \E n \in Names :
       \/ r = Request("get", n, Nil, {})
       \/ r = Request("create", n, Nil, {})
       \/ r = Request("delete", n, Nil, {})
       \/ \E rev \in Revisions, cs \in SUBSET Caps : r = Request("replace", n, rev, cs)

(* A process has one request and one reply at a time; a revision is in its *)
(* reply only while it holds a project.                                    *)
AskedInv ==
  \A p \in Procs :
    /\ pc[p] = "idle" => request[p] = NoRequest
    /\ pc[p] # "idle" => Asked(request[p])
    /\ pc[p] # "done" => reply[p] = NoReply
    /\ pc[p] = "done" => reply[p].status # "none"
    /\ HasProject(p) => reply[p].rev \in Revisions

(* No vault that may come back and no process has this revision.           *)
Unused(rev) ==
  /\ \A v \in onDisk : v # Nil => \A r \in v.records : r.rev # rev
  /\ \A p \in Procs : rev \notin {request[p].rev, reply[p].rev}

(* The revision that a writer has drawn is unused until its rename.        *)
FreshInv ==
  \A p \in Procs :
    pc[p] \in Writing =>
      \E rev \in Revisions :
        Unused(rev) /\ draft[p] = Outcome(Records, request[p], rev)

(* What a process remembers of a project is true of the version it has     *)
(* read, as long as that version is the vault's.                           *)
KnownInv ==
  \A p \in Procs : \A r \in Named(Records, request[p].name) :
    /\ r.rev = reply[p].rev => r.caps = reply[p].caps
    /\ r.rev = request[p].rev => r.caps = shown[p]

-----------------------------------------------------------------------------
LEMMA AskedIsRequest ==
  ASSUME NEW r, Asked(r)
  PROVE  /\ r \in Requests
         /\ r \in Repository!Requests
         /\ r # NoRequest
         /\ r.op # "list" => r.name \in Names
         /\ r.op # "replace" => r.rev = Nil
<1>1. /\ r \in Requests /\ r # NoRequest
      /\ r.op # "list" => r.name \in Names
      /\ r.op # "replace" => r.rev = Nil
  BY DEF Asked, Request, Requests, NoRequest
<1>2. r \in Repository!Requests
  BY DEF Asked, Request, Repository!Requests
<1> QED
  BY <1>1, <1>2

(* A replace asks for the version of the project its process has read and  *)
(* shown to its user.                                                      *)
Follows(p, r) ==
  \/ r.rev = Nil
  \/ /\ HasProject(p)
     /\ r.rev = reply[p].rev /\ r.name = request[p].name
     /\ shown'[p] = reply[p].caps

(* The shapes of a step, for the process that takes it.                    *)
Alone(p) ==
  \A q \in Procs \ {p} : pc'[q] = pc[q] /\ draft'[q] = draft[q] /\ shown'[q] = shown[q]

Asking(p) ==
  /\ pc[p] \in {"idle", "done"} /\ pc'[p] \in {"probe", "enter"} /\ Alone(p)
  /\ \E r : Asked(r) /\ Follows(p, r) /\ request' = [request EXCEPT ![p] = r]
  /\ reply' = [reply EXCEPT ![p] = NoReply]
  /\ UNCHANGED fileVars

Midway == {"probe", "prompt", "lock", "recheck", "enter", "read"} \cup Writing

Waiting(p) ==
  /\ pc[p] \in Midway /\ pc'[p] \in Midway /\ Alone(p)
  /\ pc'[p] \in Writing => pc[p] \in Writing /\ draft'[p] = draft[p]
  /\ UNCHANGED <<fileVars, request, reply, shown>>

Failing(p) ==
  Deny(p) \/ Unencodable(p) \/ Unavailable(p) \/ ReadFails(p) \/ WriteFails(p)

Reading(p) == ReturnList(p) \/ ReturnProject(p) \/ Refuse(p)

Ending(p) == SyncDirectory(p) \/ SyncDirectoryFails(p)

Leaving(p) == pc[p] # "idle" /\ Exit(p) /\ UNCHANGED fileVars

(* The answer to an operation.                                             *)
Answering(p, a) ==
  /\ pc[p] \in Midway \cup {"dirsync"} /\ pc'[p] = "done" /\ Alone(p)
  /\ reply' = [reply EXCEPT ![p] = a]
  /\ UNCHANGED <<vault, request, shown>> /\ onDisk' \subseteq onDisk

LEMMA ReviseAsks ==
  ASSUME TypeOK, AskedInv, NEW p \in Procs, Revise(p)
  PROVE  Asking(p)
<1>1. HasProject(p) /\ request[p].op = "get" /\ pc[p] = "done"
  BY DEF Revise, HasProject
<1>2. request[p].name \in Names /\ reply[p].rev \in Revisions
  BY <1>1, AskedIsRequest DEF AskedInv
<1>3. reply[p].caps \in SUBSET Caps
  BY DEF TypeOK, Replies
<1>4. PICK cs \in SUBSET Caps :
        request' = [request EXCEPT ![p] =
                      Request("replace", request[p].name, reply[p].rev, cs)]
  BY <1>3 DEF Revise
<1> DEFINE r == Request("replace", request[p].name, reply[p].rev, cs)
<1>5. Asked(r)
  BY <1>2, <1>4 DEF Asked
<1>6. Follows(p, r)
  BY <1>1 DEF Revise, TypeOK, Follows, Request
<1> HIDE DEF r
<1>7. \E s : Asked(s) /\ Follows(p, s) /\ request' = [request EXCEPT ![p] = s]
  BY <1>4, <1>5, <1>6 DEF r
<1> QED
  BY <1>1, <1>7 DEF Revise, TypeOK, Asking, Alone, writeVars

LEMMA Shapes ==
  ASSUME IInv, AskedInv, [Next]_vars
  PROVE  \/ UNCHANGED vars
         \/ PowerLoss
         \/ \E p \in Procs :
              \/ Asking(p) \/ Waiting(p) \/ Prepare(p) \/ Failing(p) \/ Reading(p)
              \/ Rename(p) \/ Ending(p) \/ Leaving(p)
<1> USE DEF IInv, TypeOK
<1>1. ASSUME NEW p \in Procs,
             List(p) \/ \E n \in Names : Add(p, n) \/ Get(p, n) \/ Delete(p, n)
      PROVE  Asking(p)
  <2>1. PICK r : Asked(r) /\ r.rev = Nil /\ Start(p, r)
    BY <1>1 DEF Asked, List, Add, Get, Delete, Request
  <2>2. reply' = [reply EXCEPT ![p] = NoReply]
    BY <2>1 DEF Start, AskedInv
  <2> QED
    BY <2>1, <2>2 DEF Start, Asking, Follows, Alone, authVars
<1>2. ASSUME NEW p \in Procs,
             Probe(p) \/ Acquire(p) \/ Retry(p) \/ Authorized(p) \/ Enter(p)
               \/ \E w \in Passwords : Prompt(p, w)
      PROVE  Waiting(p)
  BY <1>2 DEF Probe, Acquire, Retry, Authorized, Enter, Prompt, Waiting, Midway, Alone,
              authVars, writeVars, Writing
<1>3. ASSUME NEW p \in Procs, TakeOver(p) PROVE Waiting(p)
  <2>1. lock[p] = OperationMode(request[p])
    BY <1>3 DEF TakeOver, LockInv
  <2> QED
    BY <1>3, <2>1 DEF TakeOver, Waiting, Midway, Alone, writeVars, Writing
<1>4. ASSUME NEW p \in Procs, WriteTemp(p) \/ SyncTemp(p) PROVE Waiting(p)
  BY <1>4 DEF WriteTemp, SyncTemp, Waiting, Midway, Alone, Writing, authVars
<1>5. ASSUME NEW p \in Procs, Finish(p) \/ Leave(p) \/ Crash(p) PROVE Leaving(p)
  BY <1>5 DEF Leaving, Finish, Leave, Crash, HasProject
<1>6. ASSUME NEW p \in Procs, Revise(p) PROVE Asking(p)
  BY <1>6, ReviseAsks
<1> QED
  BY <1>1, <1>2, <1>3, <1>4, <1>5, <1>6
     DEF Next, Run, User, Failure, Failing, Reading, Ending

LEMMA FailingAnswers ==
  ASSUME TypeOK, NEW p \in Procs, Failing(p)
  PROVE  \E status \in {"VaultUnlockFailed", "Error"} :
           /\ Answering(p, Reply(status))
           /\ pc[p] \in Midway /\ UNCHANGED fileVars
BY DEF TypeOK, Failing, Deny, Unencodable, Unavailable, ReadFails, WriteFails, Return,
       Answering, Alone, Midway, Writing, fileVars, authVars, writeVars

LEMMA ReadingAnswers ==
  ASSUME TypeOK, NEW p \in Procs, Reading(p)
  PROVE  /\ \E a : Answering(p, a) /\ Return(p, a)
         /\ pc[p] = "read" /\ CanRead(p) /\ UNCHANGED fileVars
<1>1. PICK a : Return(p, a)
  BY DEF Reading, ReturnList, ReturnProject, Refuse
<1>2. /\ pc[p] = "read" /\ CanRead(p)
      /\ UNCHANGED <<fileVars, request, authVars, writeVars>>
  BY DEF Reading, ReturnList, ReturnProject, Refuse
<1>3. Answering(p, a)
  BY <1>1, <1>2 DEF TypeOK, Return, Answering, Alone, Midway, fileVars, authVars, writeVars
<1> QED
  BY <1>1, <1>2, <1>3 DEF fileVars

LEMMA EndingAnswers ==
  ASSUME TypeOK, DiskInv, NEW p \in Procs, Ending(p)
  PROVE  /\ \/ Answering(p, Reply("ok")) /\ onDisk' = {vault}
            \/ Answering(p, Reply("Error")) /\ onDisk' = onDisk
         /\ pc[p] = "dirsync"
<1>1. ASSUME SyncDirectory(p) PROVE Answering(p, Reply("ok")) /\ onDisk' = {vault}
  BY <1>1 DEF TypeOK, DiskInv, SyncDirectory, Return, Answering, Alone, Midway, authVars
<1>2. ASSUME SyncDirectoryFails(p) PROVE Answering(p, Reply("Error")) /\ onDisk' = onDisk
  BY <1>2 DEF TypeOK, SyncDirectoryFails, Return, Answering, Alone, Midway, fileVars, authVars
<1>3. pc[p] = "dirsync"
  BY DEF Ending, SyncDirectory, SyncDirectoryFails
<1> QED
  BY <1>1, <1>2, <1>3 DEF Ending

LEMMA AskedStep == IInv /\ AskedInv /\ [Next]_vars => AskedInv'
<1> SUFFICES ASSUME IInv, AskedInv, [Next]_vars PROVE AskedInv'
  OBVIOUS
<1> USE DEF IInv, TypeOK, AskedInv, HasProject
<1>1. ASSUME NEW p \in Procs, Asking(p) PROVE AskedInv'
  <2>1. PICK r : Asked(r) /\ request' = [request EXCEPT ![p] = r]
    BY <1>1 DEF Asking
  <2>2. request'[p] = r /\ reply'[p] = NoReply /\ pc'[p] \in {"probe", "enter"}
    BY <1>1, <2>1 DEF Asking
  <2>3. ASSUME NEW q \in Procs, q # p
        PROVE  pc'[q] = pc[q] /\ request'[q] = request[q] /\ reply'[q] = reply[q]
    BY <1>1, <2>1, <2>3 DEF Asking, Alone
  <2> QED
    BY <2>1, <2>2, <2>3
<1>2. ASSUME NEW p \in Procs, Waiting(p) PROVE AskedInv'
  BY <1>2 DEF Waiting, Alone, Midway, Writing
<1>3. ASSUME NEW p \in Procs, NEW a, Answering(p, a), a.status # "none",
             request[p].op = "get" /\ a.status = "ok" => a.rev \in Revisions
      PROVE  AskedInv'
  BY <1>3 DEF Answering, Alone, Midway, Writing
<1>4. ASSUME NEW p \in Procs, Failing(p) PROVE AskedInv'
  <2>1. PICK status \in {"VaultUnlockFailed", "Error"} : Answering(p, Reply(status))
    BY <1>4, FailingAnswers
  <2>2. Reply(status).status \notin {"none", "ok"}
    BY DEF Reply
  <2> QED
    BY <1>3, <2>1, <2>2
<1>5. ASSUME NEW p \in Procs, Reading(p) PROVE AskedInv'
  <2>1. PICK a : Answering(p, a) /\ Return(p, a)
    BY <1>5, ReadingAnswers
  <2>2. reply'[p] = a
    BY <2>1 DEF Answering
  <2>3. a.status # "none" /\ (request[p].op = "get" /\ a.status = "ok" => a.rev \in Revisions)
    <3>1. CASE ReturnList(p)
      BY <2>2, <3>1 DEF ReturnList, Return, Reply
    <3>2. CASE ReturnProject(p)
      <4>1. PICK r \in Named(Records, request[p].name) :
              Return(p, [Reply("ok") EXCEPT !.rev = r.rev, !.caps = r.caps])
        BY <3>2 DEF ReturnProject
      <4>2. r.rev \in Revisions
        BY DEF Named, Records, Vault, Record
      <4> QED
        BY <2>2, <4>1, <4>2 DEF Return, Reply
    <3>3. CASE Refuse(p)
      BY <2>2, <3>3 DEF Refuse, Refusals, Return, Reply
    <3> QED
      BY <1>5, <3>1, <3>2, <3>3 DEF Reading
  <2> QED
    BY <1>3, <2>1, <2>3
<1>6. ASSUME NEW p \in Procs, Ending(p) PROVE AskedInv'
  <2>1. \E status \in {"ok", "Error"} : Answering(p, Reply(status))
    BY <1>6, EndingAnswers
  <2>2. \A status : Reply(status).status = status
    BY DEF Reply
  <2>3. request[p].op # "get"
    BY <1>6, EndingAnswers DEF LockInv, Mutates
  <2> QED
    BY <1>3, <2>1, <2>2, <2>3
<1>7. ASSUME NEW p \in Procs, Prepare(p) \/ Rename(p) PROVE AskedInv'
  <2>1. /\ pc[p] \notin {"idle", "done"} /\ pc'[p] \notin {"idle", "done"}
        /\ \A q \in Procs \ {p} : pc'[q] = pc[q]
        /\ UNCHANGED <<request, reply>>
    BY <1>7 DEF Prepare, Rename
  <2> QED
    BY <2>1
<1>8. ASSUME NEW p \in Procs, Leaving(p) PROVE AskedInv'
  BY <1>8 DEF Leaving, Exit
<1>9. CASE PowerLoss
  BY <1>9 DEF PowerLoss
<1>10. CASE UNCHANGED vars
  BY <1>10 DEF vars
<1> QED
  BY <1>1, <1>2, <1>4, <1>5, <1>6, <1>7, <1>8, <1>9, <1>10, Shapes

(* What a step that changes no vault does to the revisions in use.         *)
LEMMA FreshKept ==
  ASSUME IInv, FreshInv, UNCHANGED vault, onDisk' \subseteq onDisk,
         \A q \in Procs :
           /\ request'[q].rev \in {Nil, request[q].rev, reply[q].rev}
           /\ reply'[q].rev \in {Nil, reply[q].rev} \/ \A p \in Procs : pc'[p] \notin Writing
           /\ pc'[q] \in Writing =>
                /\ pc[q] \in Writing
                /\ draft'[q] = draft[q] /\ request'[q] = request[q]
  PROVE  FreshInv'
<1> SUFFICES ASSUME NEW p \in Procs, pc'[p] \in Writing
             PROVE  \E rev \in Revisions :
                      Unused(rev)' /\ draft'[p] = Outcome(Records, request[p], rev)'
  BY DEF FreshInv
<1>1. pc[p] \in Writing /\ draft'[p] = draft[p] /\ request'[p] = request[p]
  OBVIOUS
<1>2. PICK rev \in Revisions : Unused(rev) /\ draft[p] = Outcome(Records, request[p], rev)
  BY <1>1 DEF FreshInv
<1>3. Unused(rev)'
  BY <1>2, Sentinels DEF Unused
<1>4. Outcome(Records, request[p], rev)' = Outcome(Records, request[p], rev)
  BY <1>1 DEF Outcome, Records, Named
<1> QED
  BY <1>1, <1>2, <1>3, <1>4

LEMMA NoRevision ==
  /\ NoRequest.rev = Nil /\ NoRequest.name = Nil /\ NoReply.rev = Nil
  /\ \A status : Reply(status).rev = Nil
BY DEF NoRequest, Request, NoReply, Reply

LEMMA FreshStep == IInv /\ AskedInv /\ FreshInv /\ [Next]_vars => FreshInv'
<1> SUFFICES ASSUME IInv, AskedInv, FreshInv, [Next]_vars PROVE FreshInv'
  OBVIOUS
<1> USE DEF IInv, TypeOK
<1>1. ASSUME NEW p \in Procs, Asking(p) PROVE FreshInv'
  BY <1>1, FreshKept, NoRevision DEF Asking, Alone, Follows, fileVars, Writing
<1>2. ASSUME NEW p \in Procs, Waiting(p) PROVE FreshInv'
  BY <1>2, FreshKept DEF Waiting, Alone, fileVars
<1>3. ASSUME NEW p \in Procs, NEW a, Answering(p, a), a.rev = Nil PROVE FreshInv'
  BY <1>3, FreshKept DEF Answering, Alone, Writing
<1>4. ASSUME NEW p \in Procs, Failing(p) PROVE FreshInv'
  BY <1>3, <1>4, FailingAnswers, NoRevision
<1>5. ASSUME NEW p \in Procs, Ending(p) PROVE FreshInv'
  BY <1>3, <1>5, EndingAnswers, NoRevision
(* Nobody writes while another process reads.                              *)
<1>6. ASSUME NEW p \in Procs, Reading(p) PROVE FreshInv'
  <2>1. PICK a : Answering(p, a)
    BY <1>6, ReadingAnswers
  <2>2. lock[p] # "none"
    BY <1>6, ReadingAnswers DEF LockInv, OperationMode
  <2>3. \A q \in Procs : pc'[q] \notin Writing
    BY <2>1, <2>2 DEF Answering, Alone, LockInv, LockExclusion, Writing
  <2> QED
    BY <2>3 DEF FreshInv
<1>7. ASSUME NEW p \in Procs, Prepare(p) PROVE FreshInv'
  <2>1. lock[p] = "exclusive"
    BY <1>7 DEF Prepare, LockInv, OperationMode, Mutates
  <2>2. \A q \in Procs \ {p} : pc'[q] \notin Writing
    BY <1>7, <2>1 DEF Prepare, LockInv, LockExclusion, Writing
  <2>3. FreshRevision \in FreshRevisions
    BY <1>7 DEF Prepare, FreshRevision
  <2>4. Unused(FreshRevision) /\ FreshRevision \in Revisions
    <3> DEFINE held == (UNION {draft[q] : q \in Procs})
                         \cup (UNION {v.records : v \in (onDisk \cup {vault}) \ {Nil, Torn}})
    <3>1. /\ FreshRevision \in Revisions
          /\ FreshRevision \notin {r.rev : r \in held}
          /\ \A q \in Procs : FreshRevision \notin {request[q].rev, reply[q].rev}
      BY <2>3 DEF FreshRevisions, RevisionsInUse
    <3>2. ASSUME NEW v \in onDisk, v # Nil, NEW r \in v.records PROVE r \in held
      BY <3>2 DEF DiskInv
    <3> HIDE DEF held
    <3>3. ASSUME NEW v \in onDisk, v # Nil, NEW r \in v.records PROVE r.rev # FreshRevision
      BY <3>1, <3>2, <3>3
    <3> QED
      BY <3>1, <3>3 DEF Unused
  <2>5. UNCHANGED <<fileVars, request, reply>>
    BY <1>7 DEF Prepare
  <2>6. draft'[p] = Outcome(Records, request[p], FreshRevision)
    BY <1>7 DEF Prepare
  <2>7. \E rev \in Revisions : Unused(rev) /\ draft'[p] = Outcome(Records, request[p], rev)
    BY <2>4, <2>6
  <2>8. PICK rev \in Revisions : Unused(rev) /\ draft'[p] = Outcome(Records, request[p], rev)
    BY <2>7
  <2>9. Unused(rev)' /\ draft'[p] = Outcome(Records, request[p], rev)'
    BY <2>5, <2>8 DEF Unused, Outcome, Records, Named, fileVars
  <2> QED
    BY <2>2, <2>9 DEF FreshInv
<1>8. ASSUME NEW p \in Procs, Rename(p) PROVE FreshInv'
  <2>1. \A q \in Procs : pc'[q] \notin Writing
    BY <1>8 DEF Rename, LockInv, LockExclusion, Writing
  <2> QED
    BY <2>1 DEF FreshInv
<1>9. ASSUME NEW p \in Procs, Leaving(p) PROVE FreshInv'
  BY <1>9, FreshKept, NoRevision DEF Leaving, Exit, fileVars, Writing
<1>10. CASE PowerLoss
  BY <1>10 DEF PowerLoss, FreshInv, Writing
<1>11. CASE UNCHANGED vars
  BY <1>11, FreshKept DEF vars
<1> QED
  BY <1>1, <1>2, <1>4, <1>5, <1>6, <1>7, <1>8, <1>9, <1>10, <1>11, Shapes

LEMMA RecordsType ==
  ASSUME TypeOK
  PROVE  Records \in SUBSET Record
BY DEF TypeOK, Records, Vault

LEMMA OneName ==
  ASSUME IInv, RecordsInv
  PROVE  \A r, s \in Records : r.name = s.name => r = s
BY DEF IInv, DiskInv, RecordsInv, Decodable, Records

(* The records of a project after a rename: those there were, or the one   *)
(* that has been written under an unused revision.                         *)
LEMMA RenamedRecords ==
  ASSUME IInv, FreshInv, NEW p \in Procs, Rename(p), NEW n \in Names
  PROVE  \E rev \in Revisions :
           /\ Unused(rev)
           /\ Records' = Outcome(Records, request[p], rev)
           /\ n # request[p].name => Named(Records, n)' = Named(Records, n)
           /\ \A r \in Named(Records, n)' :
                \/ r \in Named(Records, n)
                \/ r = [name |-> request[p].name, rev |-> rev, caps |-> request[p].caps]
<1>1. PICK rev \in Revisions : Unused(rev) /\ draft[p] = Outcome(Records, request[p], rev)
  BY DEF FreshInv, Rename, Writing
<1>2. vault' = [password |-> password[p], records |-> draft[p]] /\ vault' \in Vault
  BY DEF IInv, TypeOK, PasswordInv, Rename, Writing, Vault
<1>3. Records' = draft[p]
  BY <1>2, Sentinels DEF Records
<1>4. Records' = Outcome(Records, request[p], rev)
  BY <1>1, <1>3
<1>5. n # request[p].name => Named(Records, n)' = Named(Records, n)
  BY <1>4 DEF Outcome, Named
<1>6. \A r \in Named(Records, n)' :
        \/ r \in Named(Records, n)
        \/ r = [name |-> request[p].name, rev |-> rev, caps |-> request[p].caps]
  BY <1>4 DEF Outcome, Named
<1> QED
  BY <1>1, <1>4, <1>5, <1>6

LEMMA KnownStep ==
  IInv /\ RecordsInv /\ AskedInv /\ FreshInv /\ KnownInv /\ [Next]_vars => KnownInv'
<1> SUFFICES ASSUME IInv, RecordsInv, AskedInv, FreshInv, KnownInv, [Next]_vars
             PROVE  KnownInv'
  OBVIOUS
<1> USE DEF IInv, TypeOK
<1>0. \A r \in Records : r.rev \in Revisions /\ r.rev # Nil /\ r.name # Nil
  BY RecordsType, Sentinels DEF Record
<1>1. ASSUME NEW p \in Procs, Asking(p) PROVE KnownInv'
  <2>1. PICK r : Asked(r) /\ Follows(p, r) /\ request' = [request EXCEPT ![p] = r]
    BY <1>1 DEF Asking
  <2>2. /\ \A q \in Procs \ {p} : request'[q] = request[q] /\ reply'[q] = reply[q]
        /\ \A q \in Procs \ {p} : shown'[q] = shown[q]
        /\ request'[p] = r /\ reply'[p].rev = Nil
        /\ Records' = Records
    BY <1>1, <2>1, NoRevision DEF Asking, Alone, Records, fileVars
  <2>3. ASSUME NEW s \in Named(Records, r.name), s.rev = r.rev
        PROVE  s.caps = shown'[p]
    BY <1>0, <2>1, <2>3 DEF Follows, KnownInv, Named
  <2> QED
    BY <1>0, <2>2, <2>3 DEF KnownInv, Named
<1>2. ASSUME Records' = Records,
             \A q \in Procs :
               /\ \/ request'[q] = request[q] /\ shown'[q] = shown[q]
                  \/ request'[q] = NoRequest
               /\ reply'[q] = reply[q] \/ reply'[q].rev = Nil
      PROVE  KnownInv'
  BY <1>0, <1>2, NoRevision DEF KnownInv, Named
<1>3. ASSUME NEW p \in Procs, Waiting(p) PROVE KnownInv'
  BY <1>2, <1>3 DEF Waiting, Records, fileVars
<1>4. ASSUME NEW p \in Procs, Failing(p) \/ Ending(p) PROVE KnownInv'
  <2>1. PICK status : Answering(p, Reply(status))
    BY <1>4, FailingAnswers, EndingAnswers
  <2> QED
    BY <1>2, <2>1, NoRevision DEF Answering, Records
<1>5. ASSUME NEW p \in Procs, Reading(p) PROVE KnownInv'
  <2>1. PICK a : Answering(p, a) /\ Return(p, a)
    BY <1>5, ReadingAnswers
  <2>2. reply'[p] = a /\ Records' = Records /\ request' = request /\ shown' = shown
        /\ \A q \in Procs \ {p} : reply'[q] = reply[q]
    BY <2>1 DEF Answering, Records
  <2>3. CASE ReturnProject(p)
    <3>1. PICK r \in Named(Records, request[p].name) :
            Return(p, [Reply("ok") EXCEPT !.rev = r.rev, !.caps = r.caps])
      BY <2>3 DEF ReturnProject
    <3>2. a.rev = r.rev /\ a.caps = r.caps
      BY <2>2, <3>1 DEF Return, Reply
    <3>3. \A s \in Named(Records, request[p].name) : s = r
      BY OneName DEF Named
    <3> QED
      BY <2>2, <3>2, <3>3 DEF KnownInv, Named
  <2>4. CASE ReturnList(p) \/ Refuse(p)
    <3>1. a.rev = Nil
      BY <2>2, <2>4 DEF ReturnList, Refuse, Return, Reply
    <3> QED
      BY <1>2, <2>2, <3>1
  <2> QED
    BY <1>5, <2>3, <2>4 DEF Reading
<1>6. ASSUME NEW p \in Procs, Prepare(p) PROVE KnownInv'
  BY <1>2, <1>6 DEF Prepare, Records, fileVars, authVars
<1>7. ASSUME NEW p \in Procs, Rename(p) PROVE KnownInv'
  <2> SUFFICES ASSUME NEW q \in Procs, NEW r \in Named(Records, request[q].name)'
               PROVE  /\ r.rev = reply'[q].rev => r.caps = reply'[q].caps
                      /\ r.rev = request'[q].rev => r.caps = shown'[q]
    BY DEF KnownInv
  <2>1. UNCHANGED <<request, reply, shown>>
    BY <1>7 DEF Rename, authVars
  <2>2. CASE request[q].name \in Names
    <3>1. PICK rev \in Revisions :
            /\ Unused(rev)
            /\ \A s \in Named(Records, request[q].name)' :
                 \/ s \in Named(Records, request[q].name)
                 \/ s = [name |-> request[p].name, rev |-> rev, caps |-> request[p].caps]
      BY <1>7, <2>1, <2>2, RenamedRecords
    <3>2. CASE r \in Named(Records, request[q].name)
      BY <2>1, <3>2 DEF KnownInv
    <3>3. CASE r.rev = rev
      BY <2>1, <3>1, <3>3 DEF Unused
    <3> QED
      BY <2>1, <3>1, <3>2, <3>3
  <2>3. CASE request[q].name \notin Names
    <3>1. r.name = request[q].name /\ r \in Records'
      BY <2>1 DEF Named
    <3>2. TypeOK'
      BY TypeStep
    <3>3. r \in Record
      BY <3>1, <3>2 DEF Records, Vault
    <3> QED
      BY <2>3, <3>1, <3>3 DEF Record
  <2> QED
    BY <2>2, <2>3
<1>8. ASSUME NEW p \in Procs, Leaving(p) PROVE KnownInv'
  BY <1>2, <1>8, NoRevision DEF Leaving, Exit, Records, fileVars
<1>9. CASE PowerLoss
  <2>1. \A q \in Procs : request'[q] = NoRequest /\ reply'[q] = NoReply
    BY <1>9 DEF PowerLoss
  <2>2. ASSUME NEW r \in Records' PROVE r.rev # Nil
    <3>1. vault' \in Vault \cup {Nil, Torn}
      BY <1>9 DEF PowerLoss
    <3> QED
      BY <3>1, Sentinels DEF Records, Vault, Record
  <2> QED
    BY <2>1, <2>2, NoRevision DEF KnownInv, Named
<1>10. CASE UNCHANGED vars
  BY <1>2, <1>10 DEF vars, Records
<1> QED
  BY <1>1, <1>3, <1>4, <1>5, <1>6, <1>7, <1>8, <1>9, <1>10, Shapes

StoreInv == IInv /\ RecordsInv /\ AskedInv /\ FreshInv /\ KnownInv

LEMMA StoreInvInit == Init => StoreInv
<1> SUFFICES ASSUME Init PROVE StoreInv
  OBVIOUS
<1>1. IInv
  BY InitInv
<1>2. RecordsInv /\ FreshInv
  BY DEF Init, RecordsInv, FreshInv, Writing
<1>3. AskedInv /\ KnownInv
  BY DEF Init, AskedInv, HasProject, KnownInv, Named, Records
<1> QED
  BY <1>1, <1>2, <1>3 DEF StoreInv

(* The invariant with what processes know of projects and revisions holds  *)
(* throughout.                                                             *)
THEOREM StoreInvariant == Spec => []StoreInv
<1>1. StoreInv /\ [Next]_vars => StoreInv'
  BY TypeStep, RequestStep, LockStep, PasswordStep, DraftStep, DiskStep, RecordsStep,
     AskedStep, FreshStep, KnownStep DEF StoreInv, IInv
<1> QED
  BY StoreInvInit, <1>1, PTL DEF Spec

-----------------------------------------------------------------------------
(* However long its user takes, an edit replaces the version its user was  *)
(* shown, as it was shown, or nothing.                                     *)
THEOREM NoEditLost == Spec => NoLostEdit
<1>1. StoreInv =>
        \A p \in Procs :
          pc[p] = "rename" /\ request[p].op = "replace" =>
            Named(Records, request[p].name)
              = {[name |-> request[p].name, rev |-> request[p].rev, caps |-> shown[p]]}
  <2> SUFFICES ASSUME StoreInv, NEW p \in Procs,
                      pc[p] = "rename", request[p].op = "replace"
               PROVE  Named(Records, request[p].name)
                        = {[name |-> request[p].name, rev |-> request[p].rev,
                            caps |-> shown[p]]}
    OBVIOUS
  <2> USE DEF StoreInv, IInv
  <2>1. \A why \in Refusals : ~Refused(request[p], why)
    BY DEF DraftIsCurrent
  <2>2. PICK s \in Named(Records, request[p].name) : s.rev = request[p].rev
    BY <2>1 DEF Refusals, Refused
  <2>3. Named(Records, request[p].name) = {s}
    BY <2>2, OneName DEF Named
  <2>4. s \in Record /\ s.name = request[p].name
    BY <2>2, RecordsType DEF Named
  <2>5. s.caps = shown[p]
    BY <2>2 DEF KnownInv
  <2>6. s = [name |-> request[p].name, rev |-> request[p].rev, caps |-> shown[p]]
    BY <2>2, <2>4, <2>5 DEF Record
  <2> QED
    BY <2>3, <2>6
<1>2. StoreInv =>
        \A p \in Procs :
          pc[p] = "rename" /\ pc'[p] = "dirsync" /\ request[p].op = "replace" =>
            Named(Records, request[p].name)
              = {[name |-> request[p].name, rev |-> request[p].rev, caps |-> shown[p]]}
  BY <1>1
<1> QED
  BY StoreInvariant, <1>2, PTL DEF NoLostEdit

-----------------------------------------------------------------------------
(* Refinement: each step of a process is a step of the store or none.  A   *)
(* mutation takes effect at its rename and waits for the directory sync.   *)
storeBar == StoreOf(vault)

durableBar == {StoreOf(v) : v \in onDisk}

appliedBar == [p \in Procs |-> pc[p] = "dirsync"]

(* The store counts with the same operator.                                *)
LEMMA SameCount == \A S : Repository!Cardinality(S) = Cardinality(S)
BY Zenon DEF Repository!Cardinality, Cardinality

LEMMA AppliedStays ==
  ASSUME \A p \in Procs : pc'[p] = "dirsync" <=> pc[p] = "dirsync"
  PROVE  appliedBar' = appliedBar
BY Zenon DEF appliedBar

LEMMA AppliedMoves ==
  ASSUME NEW p \in Procs, NEW b \in BOOLEAN, pc'[p] = "dirsync" <=> b,
         \A q \in Procs \ {p} : pc'[q] = pc[q]
  PROVE  appliedBar' = [appliedBar EXCEPT ![p] = b]
<1>1. \A q \in Procs : (pc'[q] = "dirsync") = (IF q = p THEN b ELSE pc[q] = "dirsync")
  BY Zenon
<1> QED
  BY Zenon, <1>1 DEF appliedBar

(* What the store shows of a file, name by name.                           *)
LEMMA StoreOfNothing ==
  ASSUME NEW n \in Names
  PROVE  StoreOf(Nil)[n] = Nil
BY DEF StoreOf

LEMMA StoreOfFile ==
  ASSUME NEW v \in Vault, Decodable(v.records), NEW n \in Names
  PROVE  /\ Named(v.records, n) = {} => StoreOf(v)[n] = Nil
         /\ \A r \in Named(v.records, n) :
              /\ StoreOf(v)[n] = [rev |-> r.rev, caps |-> r.caps]
              /\ StoreOf(v)[n] # Nil
<1>1. StoreOf(v)[n] = IF \E r \in v.records : r.name = n
                      THEN LET r == CHOOSE r \in v.records : r.name = n
                           IN  [rev |-> r.rev, caps |-> r.caps]
                      ELSE Nil
  BY Sentinels DEF StoreOf
<1>2. Named(v.records, n) = {} => StoreOf(v)[n] = Nil
  BY <1>1 DEF Named
<1>3. ASSUME NEW r \in Named(v.records, n)
      PROVE  /\ StoreOf(v)[n] = [rev |-> r.rev, caps |-> r.caps]
             /\ StoreOf(v)[n] # Nil
  <2>1. (CHOOSE s \in v.records : s.name = n) = r
    <3>1. r \in v.records /\ r.name = n
      BY DEF Named
    <3>2. \A s \in v.records : s.name = n => s = r
      BY <3>1 DEF Decodable
    <3> QED
      BY <3>1, <3>2
  <2>2. StoreOf(v)[n] = [rev |-> r.rev, caps |-> r.caps]
    BY <1>1, <2>1 DEF Named
  <2>3. r \in Record
    BY DEF Named, Vault
  <2>4. [rev |-> r.rev, caps |-> r.caps] \in [rev : Revisions, caps : SUBSET Caps]
    BY <2>3 DEF Record
  <2> QED
    BY <2>2, <2>4, Sentinels
<1> QED
  BY <1>2, <1>3

(* The vault's records are what the store shows.                           *)
LEMMA StoreNow ==
  ASSUME IInv, RecordsInv, NEW n \in Names
  PROVE  /\ Named(Records, n) = {} <=> storeBar[n] = Nil
         /\ \A r \in Named(Records, n) : storeBar[n] = [rev |-> r.rev, caps |-> r.caps]
<1>1. CASE vault = Nil
  BY <1>1, StoreOfNothing DEF storeBar, Records, Named
<1>2. CASE vault # Nil
  <2>1. vault \in Vault /\ Records = vault.records /\ Decodable(vault.records)
    BY <1>2 DEF IInv, TypeOK, DiskInv, RecordsInv, Records
  <2> QED
    BY <2>1, StoreOfFile DEF storeBar
<1> QED
  BY <1>1, <1>2

LEMMA PresentNow ==
  ASSUME IInv, RecordsInv
  PROVE  /\ Repository!Present = {r.name : r \in Records}
         /\ \A n : n \in Repository!Present <=> n \in Names /\ Named(Records, n) # {}
<1>1. \A n : n \in Repository!Present <=> n \in Names /\ Named(Records, n) # {}
  BY StoreNow DEF Repository!Present, storeBar
<1>2. \A r \in Records : r.name \in Names
  BY RecordsType DEF IInv, Record
<1> QED
  BY <1>1, <1>2 DEF Named

LEMMA CountNow ==
  ASSUME IInv, RecordsInv
  PROVE  Repository!Cardinality(Repository!Present) = Cardinality(Records)
<1> DEFINE f == [r \in Records |-> r.name]
<1>1. Repository!Present = {r.name : r \in Records}
  BY PresentNow
<1>2. f \in Bijection(Records, {r.name : r \in Records})
  <2>1. f \in Injection(Records, {r.name : r \in Records})
    BY OneName DEF Injection, IsInjective
  <2>2. f \in Surjection(Records, {r.name : r \in Records})
    BY DEF Surjection
  <2> QED
    BY <2>1, <2>2 DEF Bijection
<1>3. IsFiniteSet(Records)
  BY FS_EmptySet DEF IInv, DiskInv, RecordsInv, Decodable, Records
<1>4. Cardinality({r.name : r \in Records}) = Cardinality(Records)
  BY <1>2, <1>3, FS_Bijection DEF ExistsBijection
<1> QED
  BY <1>1, <1>4, SameCount

LEMMA FreshForStore ==
  ASSUME IInv, RecordsInv, NEW rev \in Revisions, Unused(rev)
  PROVE  Repository!Fresh(rev)
<1>1. ASSUME NEW v \in onDisk, NEW n \in Names, StoreOf(v)[n] # Nil
      PROVE  StoreOf(v)[n].rev # rev
  <2>1. v \in Vault /\ v # Nil
    BY <1>1, StoreOfNothing DEF IInv, TypeOK, DiskInv
  <2>2. Decodable(v.records)
    BY <2>1 DEF RecordsInv
  <2>3. PICK r \in Named(v.records, n) : TRUE
    BY <1>1, <2>1, <2>2, StoreOfFile
  <2>4. StoreOf(v)[n] = [rev |-> r.rev, caps |-> r.caps]
    BY <2>1, <2>2, StoreOfFile
  <2>5. r.rev # rev
    BY <2>1 DEF Unused, Named
  <2> QED
    BY <2>4, <2>5
<1>2. \A s \in durableBar \cup {storeBar}, n \in Names : s[n] # Nil => s[n].rev # rev
  BY <1>1 DEF durableBar, storeBar, IInv, DiskInv
<1> QED
  BY <1>2 DEF Unused, Repository!Fresh, durableBar, storeBar

LEMMA StoreInit == Init => Repository!Init
<1> SUFFICES ASSUME Init PROVE Repository!Init
  OBVIOUS
<1>1. appliedBar = [p \in Procs |-> FALSE]
  BY Zenon DEF Init, appliedBar
<1>2. storeBar = [n \in Names |-> Nil] /\ durableBar = {storeBar}
  BY DEF Init, storeBar, durableBar, StoreOf
<1> QED
  BY <1>1, <1>2 DEF Init, appliedBar, storeBar, durableBar, Repository!Init,
     Repository!NoRequest, NoRequest, Request, Repository!NoReply, NoReply,
     Repository!Reply, Reply

LEMMA SameNothing ==
  /\ Repository!NoRequest = NoRequest /\ Repository!NoReply = NoReply
  /\ \A status : Repository!Reply(status) = Reply(status)
BY DEF NoRequest, Request, Repository!NoRequest, NoReply, Reply, Repository!NoReply,
       Repository!Reply

LEMMA FilesKept ==
  ASSUME UNCHANGED fileVars
  PROVE  storeBar' = storeBar /\ durableBar' = durableBar
BY DEF fileVars, storeBar, durableBar

LEMMA OpenMidway ==
  ASSUME AskedInv, NEW p \in Procs, pc[p] \in Midway
  PROVE  Repository!Open(p) /\ ~appliedBar[p]
<1>1. request[p] # NoRequest /\ reply[p] = NoReply
  BY AskedIsRequest DEF AskedInv, Midway, Writing
<1>2. ~appliedBar[p]
  <2>1. pc[p] # "dirsync"
    BY DEF Midway, Writing
  <2> QED
    BY Zenon, <2>1 DEF appliedBar
<1> QED
  BY <1>1, <1>2, SameNothing DEF Repository!Open

LEMMA AnswerKeepsApplied ==
  ASSUME NEW p \in Procs, NEW a, Answering(p, a), pc[p] \in Midway
  PROVE  appliedBar' = appliedBar
<1>1. \A q \in Procs : pc'[q] = "dirsync" <=> pc[q] = "dirsync"
  BY DEF Answering, Alone, Midway, Writing
<1> QED
  BY <1>1, AppliedStays

(* The records of a vault file after a rename, as the store shows them.    *)
LEMMA RenameApplies ==
  ASSUME StoreInv, NEW p \in Procs, Rename(p), StoreInv'
  PROVE  Repository!Apply(p)
<1> USE DEF StoreInv, IInv
<1> DEFINE r == request[p]
<1>1. PICK rev \in Revisions :
        Unused(rev) /\ draft[p] = Outcome(Records, r, rev)
  BY DEF FreshInv, Rename, Writing
<1>2. vault' \in Vault /\ vault'.records = Outcome(Records, r, rev)
  BY <1>1 DEF TypeOK, PasswordInv, Rename, Writing, Vault
<1>3. Decodable(vault'.records)
  BY <1>2, Sentinels DEF RecordsInv, DiskInv
<1>4. /\ Mutates(r) /\ \A why \in Refusals : ~Refused(r, why)
      /\ pc[p] \in Midway /\ r.name \in Names /\ r.caps \in SUBSET Caps
  BY DEF Rename, Writing, LockInv, DraftIsCurrent, Midway, RequestInv, Mutates, TypeOK,
         Requests
<1>5. Repository!Open(p) /\ ~appliedBar[p]
  BY <1>4, OpenMidway
<1>6. appliedBar' = [appliedBar EXCEPT ![p] = TRUE]
  <2>1. pc'[p] = "dirsync" /\ \A q \in Procs \ {p} : pc'[q] = pc[q]
    BY DEF Rename, TypeOK
  <2> QED
    BY <2>1, AppliedMoves
<1>7. durableBar' = durableBar \cup {storeBar'}
  <2>1. onDisk' = onDisk \cup {vault'}
    BY DEF Rename, PasswordInv
  <2> QED
    BY <2>1 DEF durableBar, storeBar
<1>8. Repository!Fresh(rev)
  BY <1>1, FreshForStore
<1>9. ASSUME NEW n \in Names, n # r.name PROVE storeBar'[n] = storeBar[n]
  <2>1. Named(vault'.records, n) = Named(Records, n)
    BY <1>2, <1>9 DEF Outcome, Named
  <2>2. CASE Named(Records, n) = {}
    BY <1>2, <1>3, <2>1, <2>2, StoreNow, StoreOfFile DEF storeBar
  <2>3. CASE Named(Records, n) # {}
    <3>1. PICK s \in Named(Records, n) : TRUE
      BY <2>3
    <3>2. storeBar[n] = [rev |-> s.rev, caps |-> s.caps]
      BY <3>1, StoreNow
    <3>3. StoreOf(vault')[n] = [rev |-> s.rev, caps |-> s.caps]
      BY <1>2, <1>3, <2>1, <3>1, StoreOfFile
    <3> QED
      BY <3>2, <3>3 DEF storeBar
  <2> QED
    BY <2>2, <2>3
<1>10. storeBar \in [Names -> {storeBar[n] : n \in Names}]
       /\ storeBar' = [n \in Names |-> storeBar'[n]]
  BY DEF storeBar, StoreOf
<1>11. ASSUME NEW x, storeBar'[r.name] = x
       PROVE  storeBar' = [storeBar EXCEPT ![r.name] = x]
  BY <1>9, <1>10, <1>11
<1>12. UNCHANGED <<request, reply>>
  BY DEF Rename
<1>13. r.name \in Repository!Present <=> Named(Records, r.name) # {}
  BY <1>4, PresentNow
<1>14. CASE r.op = "delete"
  <2>1. Named(vault'.records, r.name) = {}
    BY <1>2, <1>14 DEF Outcome, Named
  <2>2. storeBar'[r.name] = Nil
    BY <1>2, <1>3, <1>4, <2>1, StoreOfFile DEF storeBar
  <2>3. storeBar' = [storeBar EXCEPT ![r.name] = Nil]
    BY <1>11, <2>2
  <2>4. r.name \in Repository!Present
    BY <1>4, <1>13, <1>14 DEF Refusals, Refused
  <2> QED
    BY <1>5, <1>6, <1>7, <1>12, <1>14, <2>3, <2>4
       DEF Repository!Apply, storeBar, durableBar, appliedBar
<1>15. CASE r.op \in {"create", "replace"}
  <2> DEFINE put == [storeBar EXCEPT ![r.name] = [rev |-> rev, caps |-> r.caps]]
  <2>1. [name |-> r.name, rev |-> rev, caps |-> r.caps] \in Named(vault'.records, r.name)
    BY <1>2, <1>15 DEF Outcome, Named
  <2>2. storeBar'[r.name] = [rev |-> rev, caps |-> r.caps]
    BY <1>2, <1>3, <1>4, <2>1, StoreOfFile DEF storeBar
  <2>3. storeBar' = put
    BY <1>11, <2>2
  <2>4. CASE r.op = "create"
    <3>1. r.name \notin Repository!Present /\ Cardinality(Records) # MaxProjects
      BY <1>4, <1>13, <2>4 DEF Refusals, Refused
    <3>2. Cardinality(Records) <= MaxProjects /\ Cardinality(Records) \in Nat
      <4>1. Decodable(Records)
        BY FS_EmptySet, Bounds DEF DiskInv, RecordsInv, Decodable, Records
      <4> QED
        BY <4>1, FS_CardinalityType DEF Decodable
    <3>3. Repository!Cardinality(Repository!Present) < MaxProjects
      BY <3>1, <3>2, CountNow, Bounds
    <3> QED
      BY <1>1, <1>5, <1>6, <1>7, <1>8, <1>12, <2>3, <2>4, <3>1, <3>3
         DEF Repository!Apply, storeBar, durableBar, appliedBar
  <2>5. CASE r.op = "replace"
    <3>1. PICK s \in Named(Records, r.name) : s.rev = r.rev
      BY <1>4, <2>5 DEF Refusals, Refused
    <3>2. r.name \in Repository!Present
      BY <1>13, <3>1
    <3>3. storeBar[r.name] = [rev |-> s.rev, caps |-> s.caps]
      BY <1>4, StoreNow
    <3>4. storeBar[r.name].rev = r.rev
      BY <3>1, <3>3
    <3> QED
      BY <1>1, <1>5, <1>6, <1>7, <1>8, <1>12, <2>3, <2>5, <3>2, <3>4
         DEF Repository!Apply, storeBar, durableBar, appliedBar
  <2> QED
    BY <1>15, <2>4, <2>5
<1> QED
  BY <1>4, <1>14, <1>15 DEF Mutates

LEMMA StoreStep == StoreInv /\ StoreInv' /\ [Next]_vars => [Repository!Next]_Repository!vars
<1> SUFFICES ASSUME StoreInv, StoreInv', [Next]_vars
             PROVE  [Repository!Next]_Repository!vars
  OBVIOUS
<1> USE DEF StoreInv, IInv, TypeOK
<1>1. ASSUME UNCHANGED <<fileVars, request, reply, appliedBar>>
      PROVE  [Repository!Next]_Repository!vars
  BY <1>1, FilesKept DEF Repository!vars, appliedBar, storeBar, durableBar
<1>2. ASSUME NEW p \in Procs, Asking(p) PROVE [Repository!Next]_Repository!vars
  <2>1. PICK r : Asked(r) /\ request' = [request EXCEPT ![p] = r]
    BY <1>2 DEF Asking
  <2>2. r \in Repository!Requests
    BY <2>1, AskedIsRequest
  <2>3. ~Repository!Open(p)
    BY <1>2, SameNothing DEF Asking, AskedInv, Repository!Open, NoReply, Reply
  <2>4. appliedBar' = appliedBar
    <3>1. \A q \in Procs : pc'[q] = "dirsync" <=> pc[q] = "dirsync"
      BY <1>2 DEF Asking, Alone
    <3> QED
      BY <3>1, AppliedStays
  <2>5. request'[p] = r
    BY <2>1
  <2>6. Repository!Invoke(p)
    BY <1>2, <2>1, <2>2, <2>3, <2>4, <2>5, SameNothing, FilesKept
       DEF Asking, Repository!Invoke, appliedBar, storeBar, durableBar
  <2> QED
    BY <2>6 DEF Repository!Next
<1>3. ASSUME NEW p \in Procs, Waiting(p) \/ Prepare(p)
      PROVE  [Repository!Next]_Repository!vars
  <2>1. UNCHANGED <<fileVars, request, reply>>
        /\ \A q \in Procs : pc'[q] = "dirsync" <=> pc[q] = "dirsync"
    BY <1>3 DEF Waiting, Alone, Midway, Writing, Prepare
  <2> QED
    BY <1>1, <2>1, AppliedStays
<1>4. ASSUME NEW p \in Procs, Failing(p) PROVE [Repository!Next]_Repository!vars
  <2>1. PICK status \in {"VaultUnlockFailed", "Error"} :
          Answering(p, Reply(status)) /\ pc[p] \in Midway /\ UNCHANGED fileVars
    BY <1>4, FailingAnswers
  <2>2. Repository!Open(p) /\ ~appliedBar[p] /\ appliedBar' = appliedBar
    BY <2>1, OpenMidway, AnswerKeepsApplied
  <2>3. reply' = [reply EXCEPT ![p] = Reply(status)] /\ reply'[p].status = status
    BY <2>1 DEF Answering, Reply
  <2>4. status \in Repository!Failures
    BY DEF Repository!Failures
  <2>5. Repository!Fail(p)
    BY <2>1, <2>2, <2>3, <2>4, SameNothing, FilesKept
       DEF Answering, Repository!Fail, appliedBar, storeBar, durableBar
  <2> QED
    BY <2>5 DEF Repository!Next
<1>5. ASSUME NEW p \in Procs, Reading(p) PROVE [Repository!Next]_Repository!vars
  <2>1. PICK a : Answering(p, a) /\ Return(p, a)
    BY <1>5, ReadingAnswers
  <2>2. /\ pc[p] \in Midway /\ reply' = [reply EXCEPT ![p] = a] /\ UNCHANGED <<fileVars, request>>
        /\ reply'[p] = a
    BY <1>5, <2>1, ReadingAnswers DEF Midway, Answering
  <2>3. Repository!Open(p) /\ ~appliedBar[p] /\ appliedBar' = appliedBar
        /\ storeBar' = storeBar /\ durableBar' = durableBar
    BY <2>1, <2>2, OpenMidway, AnswerKeepsApplied, FilesKept
  <2>4. CASE ReturnList(p)
    <3>0. a = [Reply("ok") EXCEPT !.names = {r.name : r \in Records}]
      BY <2>2, <2>4 DEF ReturnList, Return
    <3>1. a = [Repository!Reply("ok") EXCEPT !.names = Repository!Present]
      BY <3>0, PresentNow, SameNothing
    <3>2. Repository!AnswerList(p)
      BY <2>2, <2>3, <2>4, <3>1
         DEF ReturnList, Repository!AnswerList, appliedBar, storeBar, durableBar
    <3> QED
      BY <3>2 DEF Repository!Next
  <2>5. CASE ReturnProject(p)
    <3> DEFINE n == request[p].name
    <3>1. PICK r \in Named(Records, n) :
            Return(p, [Reply("ok") EXCEPT !.rev = r.rev, !.caps = r.caps])
      BY <2>5 DEF ReturnProject
    <3>2. n \in Names
      BY RecordsType DEF Named, Record
    <3>3. n \in Repository!Present /\ storeBar[n] = [rev |-> r.rev, caps |-> r.caps]
      BY <3>1, <3>2, PresentNow, StoreNow
    <3>4. a = [Reply("ok") EXCEPT !.rev = r.rev, !.caps = r.caps]
      BY <2>2, <3>1 DEF Return
    <3>5. a = [Repository!Reply("ok") EXCEPT !.rev = storeBar[n].rev,
                                             !.caps = storeBar[n].caps]
      <4>1. storeBar[n].rev = r.rev /\ storeBar[n].caps = r.caps
        BY <3>3
      <4> HIDE DEF n
      <4> QED
        BY <3>4, <4>1, SameNothing
    <3>6. Repository!AnswerGet(p)
      BY <2>2, <2>3, <2>5, <3>3, <3>5
         DEF ReturnProject, Repository!AnswerGet, appliedBar, storeBar, durableBar
    <3> QED
      BY <3>6 DEF Repository!Next
  <2>6. CASE Refuse(p)
    <3> DEFINE r == request[p]
    <3>1. PICK why \in Refusals : Refused(r, why) /\ Return(p, Reply(why))
      BY <2>6 DEF Refuse
    <3>2. r.op # "list" => r.name \in Names
      BY <2>2, AskedIsRequest DEF AskedInv, Midway, Writing
    <3>3. r.op # "list" => (r.name \in Repository!Present <=> Named(Records, r.name) # {})
      BY <3>2, PresentNow
    <3>4. Repository!Justified(r, why)
      <4>1. CASE why = "NotFound"
        BY <3>1, <3>3, <4>1 DEF Refused, Repository!Justified
      <4>2. CASE why = "AlreadyExists"
        BY <3>1, <3>3, <4>2 DEF Refused, Repository!Justified
      <4>3. CASE why = "OversizedRecord"
        BY <3>1, <3>3, <4>3, CountNow DEF Refused, Repository!Justified
      <4>4. CASE why = "Conflict"
        <5>1. PICK s \in Named(Records, r.name) : s.rev # r.rev
          BY <3>1, <4>4 DEF Refused
        <5>2. r.op = "replace" /\ r.name \in Names
          BY <3>1, <3>2, <4>4 DEF Refused
        <5>3. storeBar[r.name] = [rev |-> s.rev, caps |-> s.caps]
          BY <5>1, <5>2, StoreNow
        <5>4. storeBar[r.name].rev # r.rev /\ r.name \in Repository!Present
          BY <3>3, <5>1, <5>2, <5>3
        <5> QED
          BY <4>4, <5>2, <5>4 DEF Repository!Justified, storeBar
      <4> QED
        BY <3>1, <4>1, <4>2, <4>3, <4>4 DEF Refusals
    <3>5. reply' = [reply EXCEPT ![p] = Reply(why)] /\ reply'[p].status = why
      BY <3>1 DEF Return, Reply
    <3>6. why \in Repository!Refusals
      BY DEF Refusals, Repository!Refusals
    <3>7. Repository!Refuse(p)
      BY <2>2, <2>3, <3>4, <3>5, <3>6, SameNothing
         DEF Repository!Refuse, appliedBar, storeBar, durableBar
    <3> QED
      BY <3>7 DEF Repository!Next
  <2> QED
    BY <1>5, <2>4, <2>5, <2>6 DEF Reading
<1>6. ASSUME NEW p \in Procs, Rename(p) PROVE [Repository!Next]_Repository!vars
  BY <1>6, RenameApplies DEF Repository!Next
<1>7. ASSUME NEW p \in Procs, Ending(p) PROVE [Repository!Next]_Repository!vars
  <2>1. /\ \/ Answering(p, Reply("ok")) /\ onDisk' = {vault}
           \/ Answering(p, Reply("Error")) /\ onDisk' = onDisk
        /\ pc[p] = "dirsync"
    BY <1>7, EndingAnswers
  <2>2. appliedBar' = [appliedBar EXCEPT ![p] = FALSE]
    <3>1. pc'[p] # "dirsync" /\ \A q \in Procs \ {p} : pc'[q] = pc[q]
      BY <2>1 DEF Answering, Alone
    <3> QED
      BY <3>1, AppliedMoves
  <2>3. appliedBar[p]
    BY Zenon, <2>1 DEF appliedBar
  <2>4. storeBar' = storeBar
    BY <2>1 DEF Answering, storeBar
  <2>5. CASE Answering(p, Reply("ok")) /\ onDisk' = {vault}
    <3>1. durableBar' = {storeBar}
      BY <2>5 DEF durableBar, storeBar
    <3>2. Repository!Acknowledge(p)
      BY <2>2, <2>3, <2>4, <2>5, <3>1, SameNothing
         DEF Answering, Repository!Acknowledge, appliedBar, storeBar, durableBar
    <3> QED
      BY <3>2 DEF Repository!Next
  <2>6. CASE Answering(p, Reply("Error")) /\ onDisk' = onDisk
    <3>1. durableBar' = durableBar
      BY <2>6 DEF durableBar
    <3>2. Repository!ReportDoubt(p)
      BY <2>2, <2>3, <2>4, <2>6, <3>1, SameNothing
         DEF Answering, Repository!ReportDoubt, appliedBar, storeBar, durableBar
    <3> QED
      BY <3>2 DEF Repository!Next
  <2> QED
    BY <2>1, <2>5, <2>6
<1>8. ASSUME NEW p \in Procs, Leaving(p) PROVE [Repository!Next]_Repository!vars
  <2>1. request[p] # NoRequest
    BY <1>8, AskedIsRequest DEF Leaving, AskedInv
  <2>2. appliedBar' = [appliedBar EXCEPT ![p] = FALSE]
    <3>1. pc'[p] # "dirsync" /\ \A q \in Procs \ {p} : pc'[q] = pc[q]
      BY <1>8 DEF Leaving, Exit
    <3> QED
      BY <3>1, AppliedMoves
  <2>3. Repository!Leave(p)
    BY <1>8, <2>1, <2>2, SameNothing, FilesKept
       DEF Leaving, Exit, Repository!Leave, appliedBar, storeBar, durableBar
  <2> QED
    BY <2>3 DEF Repository!Next
<1>9. CASE PowerLoss
  <2>1. appliedBar' = [p \in Procs |-> FALSE]
    BY Zenon, <1>9 DEF PowerLoss, appliedBar
  <2>2. storeBar' \in durableBar /\ durableBar' = {storeBar'}
    BY <1>9 DEF PowerLoss, storeBar, durableBar
  <2>3. Repository!PowerLoss
    BY <1>9, <2>1, <2>2, SameNothing
       DEF PowerLoss, Repository!PowerLoss, appliedBar, storeBar, durableBar
  <2> QED
    BY <2>3 DEF Repository!Next
<1>10. CASE UNCHANGED vars
  <2>1. appliedBar' = appliedBar
    BY <1>10, AppliedStays DEF vars
  <2> QED
    BY <1>1, <1>10, <2>1 DEF vars, fileVars
<1> QED
  BY <1>2, <1>3, <1>4, <1>5, <1>6, <1>7, <1>8, <1>9, <1>10, Shapes

(* Every behaviour of the Linux backend is one of the abstract store: a    *)
(* mutation takes effect at the rename, at once and on its own project,    *)
(* every refusal is true when it is decided, an error other than that of   *)
(* the directory sync has changed nothing, and what was acknowledged       *)
(* survives crashes and power losses.                                      *)
THEOREM VaultIsRepository == Spec => ImplementsRepository
<1> QED
  BY StoreInvariant, StoreInit, StoreStep, PTL DEF Spec, ImplementsRepository,
     Repository!Spec
=============================================================================
