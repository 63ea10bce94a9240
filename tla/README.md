# Verification of twl

TLA+ models of `twl`, the TLC configurations that check them on small instances, and
theorems about them that the TLA+ proof system checks for every value of the constants.
All models are translated from the code (`src/src/`, and `src/integrations/deepseek-harness/src/`
for the adapter); documents and tests are only read as statements of what the code should do.

`twl` keeps API keys for people who let agents work with them. A *project* names HTTP routes,
each with a base URL and a key, and *capabilities*, each a policy on one route. `twl run`
starts an application in a sandbox behind a local HTTP broker that adds the keys; `twl
capability serve` gives an agent's harness a stdio protocol that can invoke capabilities and
nothing else; `twl project` and `twl capability add|list|delete` edit what is stored: on Linux
in one encrypted vault file, on macOS in the login Keychain.

1. [Inventory](#1-inventory)
2. [Plan](#2-plan)
3. [Modules and the code](#3-modules-and-the-code)
4. [Runs and bounds](#4-runs-and-bounds)
5. [Fairness](#5-fairness)
6. [What is proved](#6-what-is-proved)
7. [What is only model-checked](#7-what-is-only-model-checked)
8. [What is not modelled](#8-what-is-not-modelled)
9. [Findings and other observations](#9-findings-and-other-observations)

How to run:

    tlc -workers 2 -config Vault.cfg MCLinuxVault
    tlapm LinuxVaultProofs.tla

## 1. Inventory

### Components

| Component | Code | State | Operations |
|---|---|---|---|
| Linux vault backend | `src/project/linux/{mod,vault}.rs` | the vault file, its temporary files, the lock file; per process the lock, the password and the copy of the vault it changes | authorize (probe, ask, lock, recheck), list, get, create, replace, delete; atomic replacement |
| Repository contract and service | `src/project/repository.rs` | projects by name, each with a revision | `ProjectRepository`, `ProjectService` |
| macOS Keychain backend | `src/project/macos.rs` | one item for each project, with its revision as an attribute | list, get, create, replace, delete, each of one or several Keychain calls |
| Local authorization | `src/secret.rs` | one pending request for authentication | `authorize`, `wait_for_authorization` with its timeout |
| Application broker | `src/proxy.rs` | the queue of the listener, the number of requests at work, the budget, the counter of requests seen | accept or refuse (503), serve: resolve the route, read the body, reserve, execute, respond |
| Shared broker core | `src/broker.rs`, `src/http.rs` | the routes and their keys | `execute_route`, `target_url`, `forward`, `read_limited` |
| Session runner | `src/main.rs` `run`, `run_prepared`, `src/lib.rs` | the project it has read, the child and its variables, the counter it reports on | prepare, start, wait, report, exit |
| Capability server | `src/capability.rs`, `src/main.rs` `InterruptibleStdin` | whether it was greeted, the frame in hand, bytes read ahead, the signal flag | hello, list, invoke, refuse, shut down |
| DeepSeek Harness adapter | `integrations/deepseek-harness/src/{protocol,twl-process,index}.ts` | pending calls, the buffer, the child, the steps of the disposal | start, invoke, cancel, data, exit, dispose |
| Adapter tool | `integrations/deepseek-harness/src/tool.ts` | none | pure functions of one call |
| Project model | `src/project.rs`, `src/config.rs` | none (values) | validation, encoding, decoding with the migration of version 1, `HttpPolicy`, base URLs |
| Project and capability commands | `src/main.rs` | the routes collected so far and the old project | the dialogues of `add` and `edit`, `delete`, `capability add` and `delete` |
| Linux launcher | `src/project/linux/launcher.rs` | the descriptor table of the child between fork and exec | the child's variables, `seal_inherited_descriptors` |
| Demonstration upstream, tests, examples, packaging | | | |

### How they interact

* Commands of any number of processes share the vault file. They meet only in the lock
  (`flock` on a file of its own) and in the rename that replaces the vault. The authorizer takes
  the lock before the operation and hands it over; no lock is held while a user is asked.
* On macOS they share the Keychain; there is no lock at all, only the revision in the query.
* The broker's listener and its worker threads share three atomics: the number at work, the
  budget and the counter of requests. The parent reads the counter after the child has ended,
  while workers may still be running for processes the child has left behind.
* A dialogue reads the project, asks about each route and stores the result as a whole;
  capabilities name routes and are not asked about. `run` and `capability serve` read what was
  stored and do not touch the repository again.
* The adapter and its server share two pipes and the signals the adapter sends. The adapter is
  one event loop, so its handlers are atomic and come in any order; the server is one thread
  that a signal handler may interrupt at any point.

### Hard behaviours and what makes each component correct

* **Vault.** Probe, prompt and lock are three steps, and other processes create the vault in
  between. Every writer writes the whole vault back. A write can fail or the machine stop
  at any step. Correct: one writer at a time, what it writes back is what it read with
  its own change; refusals are true when they are decided; an acknowledged change survives a
  power loss; whatever is on the disk decodes; a password is refused only when it is wrong; only a
  process stopped in the midst of its write leaves a temporary file;
  no lock is kept by anyone who waits for a user.
* **Keychain.** Kills between two calls, changes by others in between, users who never answer
  the sheet. Correct: the same contract as the vault's; every operation ends.
* **Broker.** Many workers reserve the last unit; the counter is raised before it is tested.
  Correct: never more at work than the limit, never more charged than the budget, never an
  upstream request that was not charged, refusals only when there is a reason, no slot is lost, and
  the parent does not report silence when something had been forwarded.
* **Paths and policies.** A path is checked as text and used in a URL that a parser resolves.
  Correct: what the upstream is asked for is what was checked, within what was granted.
* **Server.** A signal at any instruction, frames read ahead, replies without an id. Correct: one reply
  for each frame and in order, nothing before the handshake, an end after a signal for every peer that reads.
* **Adapter.** Exit, last data, timers, cancellation and disposal race. Correct: each caller is
  told once and told the truth; a disposal ends and leaves no process.
* **Editing.** Routes are renamed, deleted and added one by one while capabilities keep naming them,
  the input may end at any question, and a record of version 1 is migrated on the way. Correct: what
  is stored can be served and run, and what the user did not touch comes out as it went in.
* **Launch.** Variables of several routes share one environment; descriptors are sealed in two
  ways. Correct: the child finds each route in its own variables and inherits no other descriptor than the
  ones the fallback cannot reach.
* **Framing.** Streams are cut anywhere. Correct: the cuts do not matter.

`PROJECT.json` lists the hazards one by one, each at the line where it bites and with the
properties that would catch it going wrong.

## 2. Plan

| | Module | State |
|---|---|---|
| 1 | `ProjectStore` (abstract), `LinuxVault`: locking, handover, atomic writes, crashes | done, safety and the refinement proved |
| 2 | `Gateway` (abstract), `AppBroker`: listener, workers, limits | done, safety and the refinement proved |
| 3 | `CapabilityServer`: handshake, frames, signals | done, safety proved |
| 4 | `CapabilityCalls` (abstract), `CapabilitySession`: the adapter composed with the server | done, safety and the refinement proved |
| 5 | `MacKeychain` and local authorization, against `ProjectStore` too | done, safety and the refinement proved |
| 6 | `Framing`, `CapabilityPolicy`: bytes, lines, paths, limits | done, all properties proved |
| 7 | `ProjectEditor`: the editing dialogues and `Project::validate`; `ProjectRun`, composed with it: `prepare_project`, the child's variables and descriptors, the routes of `serve` | done, all properties proved |

Every safety property and every refinement that a passing run checks is a theorem; what only the runs
check is liveness (section 7). Open ends, for whoever extends this: the deadlines that the
broker's clients do not have (`proxy.rs` line 201, the one hazard without a property), the
routes of the other capabilities in `CapabilityPolicy`, and edits by another process during a dialogue.

## 3. Modules and the code

Each component has a module; its actions carry the names of what they do in the code, and
`PROJECT.json` maps every definition to its lines. Names that end in a variation of another
definition and are marked `\* Mutant:` are plausible bugs; the properties are known to refuse
them (`mutants` in `PROJECT.json`).

### `ProjectStore`, the repository contract

A map from names to versioned records. Each operation acts at one instant, `replace` is a
compare-and-swap on the revision, `create` respects `MAX_PROJECTS`. A mutation is applied first and
acknowledged when it is durable, so an error may hide a mutation that took effect; a power loss
goes back to a store in `durable`, and never to one older than the last acknowledgement.
`Error` stands for every `StoreError` that says nothing about the projects; `AlreadyExists`,
`NotFound`, `Conflict`, `OversizedRecord` and `VaultUnlockFailed` are told apart.

### `LinuxVault`

| State | Code |
|---|---|
| `vault`, `onDisk` | the vault file as processes see it, and every version a power loss may bring back |
| `pc`, `request`, `reply` | the operation a `ProjectService` is in |
| `exists`, `typed` | the answer to `vault_exists` and the password in the authorizer (`mod.rs`) |
| `password`, `pending` | `PasswordState`: the session's password, and the lock left to the operation |
| `lock` | `flock` on the lock file |
| `draft`, `temp` | the records to be written, and the temporary file of `write_locked`, which stays (`left`) when its process is stopped |
| `shown` | history: the capabilities a user saw before the edit; no action reads it |

`authorize` is `Probe`, `Prompt` (or `Deny`), `Acquire`, `Retry` or `Authorized`; an operation is
`TakeOver` or `Enter`, `ReadFails`, `ReturnList`, `ReturnProject`, `Refuse` or `Prepare`, and a
mutation goes on with `WriteTemp`, `SyncTemp`, `Rename`, `SyncDirectory`. Failures are separate
actions: `Unencodable`, `Unavailable`, `WriteFails`, `SyncDirectoryFails`, `Crash`, `PowerLoss`.
A command that reads, asks its user and replaces is `Get`, then `Revise` with the revision it was
given, as `project edit`, `capability add` and `capability delete` do. Encryption is its effect: a vault opens under the
password it was written with. File modes, links and path checks are one error, and so is a project or a vault
that is too large in bytes: `OversizedRecord` is the limit on their number only. Revisions
are drawn from those that nobody holds any more, which is what a random 256-bit value amounts to.

A killed process leaves its temporary file on the disk, outside any lock (`Exit`, `PowerLoss`, `Leftover`).
Its name is random and nothing opens it again, so it is followed only until the process's next
command. The code ignores the result of `unlink`; the model takes it to succeed. That an exclusive
lock is held alone is the meaning of `flock` and an assumption (`CanLock`); what the code makes of it is
`DraftIsCurrent` and `HandoverMatches`.

### `MacKeychain`

One item for each project. `Authorized`, `Denied` and `Timeout` end the wait of `secret.rs`; each
later action is one call to the Keychain. `replace` is two calls when it finds nothing,
`ReplaceFindsNothing` and `ReplaceRefused`, with anything in between. `CallFails` stands for every
other status and for items that do not decode. A kill is `Crash`. `shown` is history, as in `LinuxVault`.

### `Gateway` and `AppBroker`

`Gateway` says what the broker promises: places, charges, refusals. In `AppBroker` the listener is
`Receive`, which counts a request, and `Uncount` and `Refuse`, which turn it away; a worker is
`Resolve`, `ReadBody`, `Reserve`, `Execute`, `Complete`, `Release`. Every load and every
read-modify-write of an atomic is a step of its own. A request's *flaw* is the first thing the code
finds wrong with it; which stage refuses which flaw is in `Resolve`, `ReadBody` and `Execute`.
It is a *target* flaw when `resolve_parts` finds it; one answer, 404, stands for the 400, 404 and 405 it gives, so
that 400 is what `validate_headers` leads to. The parent goes through `ChildExits`, `Look` (the load of the counter),
`Tell` (the message) and `Close` (its handle dropped, its exit) while listener and workers go on: a
request that a process of the child left under way may be charged and forwarded after the look
and before the message. `heard` is history: whether anything had been forwarded at the look.
The session may end at any time, with requests in any stage.

### `CapabilityServer`, `CapabilityCalls`, `CapabilitySession`

`CapabilityServer` is `serve_stdio` on top of `InterruptibleStdin`: `Poll` (the two looks at the
flag and the wait between them), `Read` (which may bring several frames and a part of one),
`EndOfInput`, `Interrupted`, and one action for each path through the loop: `Greet`, `Refuse`,
`List`, `Invoke` and `Finish`. The process is first blocked in the unlocking of its project
(`Open`, `OpenFails`). Its peer sends frames of every kind, closes either pipe when it likes, and may leave the output
unread until the pipe is full (`StopReading`, `ReadOn`): `Reply` then waits in `write`, where a signal only sets the flag.
A frame that does not parse and one of a wrong shape are both `garbage`: the code answers them alike.

`CapabilitySession` extends it and takes the peer's place: `ProtocolClient` (pending calls, the
correlation of replies) and `TwlProcess` (start, cancellation, exit, and the disposal that closes
the input, then sends SIGTERM, then SIGKILL). `CapabilityCalls` is what callers are promised: executed at most once,
answered only after that, told one thing only, never executed after having been told `cancelled` or `refused`.

### `Framing`

Both ends' readers over one stream of bytes, handed to them in pieces of any size: `ReadPiece`,
`ReadNewline` and `ReadEnd` are the arms of the loop in `read_frame`, `OnData` and `OnLine` the
two halves of `#onData`. The two readers are independent and have their own limits.

### `CapabilityPolicy`

One invocation from the project to the delivered response. The base URL is typed by a user and kept as
`canonical_base_url` leaves it (`Canonical`, `Bases`). `FromProject` keeps the routes a
session needs, `Invoke` makes the checks in the code's order (`Checks`) and builds the target, `Respond` is
any upstream whose body `forward` reads up to the limit and searches for keys, and `Reply` hands it over. Paths are sequences of bytes of
four kinds: the slash, the dot, a byte no path may contain, any other. `Segments` cuts a path at its
slashes and `Resolved` is what a URL parser does with dot segments; the latter is external, and
it is what makes the textual checks necessary. Both are recursive functions, one byte (`Split`) or
one segment (`Keep`) at a time, so that they can be proved about.

### `ProjectEditor` and `ProjectRun`

| State | Code |
|---|---|
| `stored` | the record of one project, of version 1 or 2; `project` is what `Project::decode` makes of it |
| `dialogue` | `collect_project`: the old project, the position in its routes, the routes collected |
| `launch` | `run_prepared`: the project that was read, and the descriptor table of the child before exec |

`AddProject` and `EditProject` open a dialogue. `KeepRoute`, `EditRoute`, `DeleteRoute` and `Finish`
are the answers to the question about an old route, `NewRoute` and `EndRoutes` what follows. The
answers to one `prompt_route` are taken at once, because nothing is stored between them; a
blank one takes the default, which is also what the end of the input amounts to. `GiveUp` is every
refused answer and the interrupted command. Finishing validates the whole project (`Valid`) and stores it or
leaves everything as it was. `AddCapability` and `DeleteCapability` are single steps: other processes that edit at
the same time are the subject of `LinuxVault` and `MacKeychain`, where all of it is one `Revise`.
`touched` is history: which old routes the user deleted or gave a new text for.

`ProjectRun` extends it with what comes of a stored project. `ServedRoutes` and `Resolves` are
`CapabilityBroker::from_project` and the lookup of a route by name; `ChildVariable` is the variable
the child sees after `STRIP` and the overrides, of which the last wins. A launch is `Start`, then
`CloseRange` or `NoCloseRange` and one `SealNext` for each descriptor, then `Exec`; it may end at any step.
`ProjectRun` assumes that nobody edits between the read of the project and the end of the child:
`run` has its own copy of the project by then and drops the repository.

## 4. Runs and bounds

| Run | Instance | Shows |
|---|---|---|
| `vault` | 2 processes, 2 projects with room for 1, 1 capability, 2 passwords; 2 undurable versions | lock handover, passwords, limit, no stale write, no lost edit; the vault decodes after power losses and failing syncs, acknowledged changes survive, only a stopped writer leaves a temporary file; `LinuxVault` implements `ProjectStore` |
| `vault_liveness` | 2 processes, 1 project, 1 capability | locks are released, nobody waits for ever but for a user |
| `keychain_repository` | 2 processes, 1 project, 2 capabilities | `MacKeychain` implements `ProjectStore`, edits are not lost, operations end |
| `broker` | 3 requests, limit 2, budget 1 | `AppBroker` implements `Gateway`, the counter is exact, every request is answered, the parent's report is true |
| `broker_invalid` | 2 requests | the first finding |
| `server_protocol` | 3 frames of any kind, a signal, pipes closed at any time, an output left full | replies, handshake, shutdown, progress |
| `server_signal` | 2 frames | the second finding |
| `session` | 2 calls, 4 frames | `CapabilitySession` implements `CapabilityCalls`; calls settle, disposal ends |
| `framing` | every stream of up to 6 bytes of 3 kinds; limits 2 and 1 | frames and lines are the stream's |
| `capability_policy` | every path of up to 5 bytes, every 1 or 2 prefixes of up to 3 bytes, base URLs typed with every path of up to 3, 2 routes, bodies of up to the limit and two more | targets, grants, delivery |
| `project_run` | projects of up to 2 routes and 1 capability, 2 route names, 1 URL, 2 keys, 4 pairs of variables; 3 descriptors, 2 limits | what is stored can be served and run, dialogues keep what is not touched, the child's variables and descriptors |
| `project_run_inherited` | the same | the third finding |

Why these are enough:

* *Two processes* make every race of the two backends: a race is between one that has looked
  and one that acts in between, and all safety properties speak of at most two at a time. The
  theorems do not depend on the number.
* *Two projects with room for one* make the limit refuse a second project; *two passwords* make
  a wrong one possible. One capability is enough for two different edits of one project to collide, since a
  user may add it, remove it or leave it. The Keychain has two.
* *`MaxUndurable`* bounds how many versions the disk may come back with, hence how often a
  directory sync may fail or a writer be killed before it. Two let a failure hide behind another.
  In `vault_liveness` it is one: with two, all three revisions may be held by undurable versions
  and a writer would wait for a revision, which no real process does.
* *Revisions*: as many as can be held at once, three or four. The keychain has one more because a
  project there may be deleted and created again between read and replacement.
* *Broker*: three requests fill both places and exceed them, and two at work contend for the only unit
  of the budget.
* *Server*: three frames are a hello, a request and one read ahead.
* *Session*: `MaxFrames` is the hello, the list and two calls, the number the adapter can ever send.
* *Framing*: six bytes have room for a line of the limit and one longer, an empty line, a
  carriage return before a newline and an unterminated end. The theorems cover every length.
* *Paths*: five bytes are enough for two segments with a dot segment behind them (`/a/..`), three
  for a prefix with a trailing slash (`/a/`) and a sibling that begins alike (`/aa` under `/a`), and
  for a base URL that ends in slashes or dot segments.
* *Editing*: two routes are enough to swap names, to take the name or the variable of another, and to lose one
  that was not asked about. The four pairs of variables are two that go together, one that takes a key of one
  route and a URL of the other, and one with a reserved name. The two keys tell routes apart, so one URL is enough. The
  descriptors have a gap, and the limits are below and above the last of them.

The largest runs: `keychain_repository` 518,516 distinct states, `server_protocol` 489,332, `project_run`
286,006, `vault` 233,686 up to symmetry and `broker` 232,401, each in one to two and a half minutes; the
others take less than a minute.

Symmetry is used where no liveness property is checked; that of the vault includes revisions, because the one that is
drawn occurs nowhere in the state. Deadlock is checked wherever the system
may not stop; the other configurations say what makes it stop.

## 5. Fairness

* *Vault* (`FairSpec`): the operating system runs every process that can run, including a process
  that stands before a free lock (weak fairness of `Run` and `Finish`). Users owe nothing, and
  failures never have to occur. Weak fairness gives no fairness of the lock itself: `NeverStuck`
  allows a process to wait as long as others keep using the vault, which is what `flock` promises.
* *Keychain*: processes run, timers fire, the Keychain returns from its calls. Users owe nothing;
  the timeout of `wait_for_authorization` is what makes `OperationsEnd` true.
* *Broker*: the listener and the workers are scheduled and the HTTP agent's timeout bounds every
  upstream request. Clients finish what they began: this is an assumption, because the code sets
  no timeout on the reading of a body or the writing of a response. `Answered` says nothing, therefore, of a
  listener that is held up by a client it refuses.
* *Server*: the process runs (`Serve`). Nothing is assumed of the unlocking, nor of when the peer writes or closes.
  `ShutsDown` and `EveryFrameAnswered` are claimed for peers that do not leave the output full for ever
  (`PeerReads`), because `write` blocks and nothing interrupts it: see section 9.
* *Session*: the child runs once its project is open, the event loop handles what has
  arrived, and the timers of the disposal fire. The model, which calls, cancels and disposes, owes nothing.
* *Editing and launch*: no fairness, since no liveness is claimed; a user may leave a dialogue open for ever.

## 6. What is proved

All for any sets of processes, names, requests, frames, routes or keys, for streams, paths, prefixes
and bodies of any length and for any limits, from these assumptions on the constants:

* sentinels are not values: `Sentinels`, `Sentinel`, `NoId`, `NilIsNoPath`, a conjunct each of `Limits`
  and `Texts`;
* limits are numbers: both `Bounds`, `Limits`, `Bound`, `Sizes`;
* sets that are counted are finite: `FinitelyMany`, `FiniteNames`;
* the adapter names its calls by ids (`IdsOfCalls`), and every variable a child must not inherit is
  one that no route may be bound to (`Texts`, `Launching`).

TLC evaluates each of them in the runs. Each module's `TypeOK` is a part of its inductive invariant,
and therefore proved rather than run.

**`LinuxVaultProofs`.** The inductive invariant `IInv` says which lock every point of an operation is under
(`LockInv`), that a process that may create the vault has a password (`PasswordInv`), that what a
process has read is still what is there (`DraftIsCurrent`), and that all versions the disk may
return are whole and share a password (`DiskInv`). None of the properties is inductive
alone: `DraftIsCurrent` needs the exclusive lock from the read to the rename, the lock needs the
handover to be in the operation's mode, the mode needs the request to be what it was. From it:
`TypeCorrect`, `NoStaleWrite`, `HandoverCorrect` (the lock the authorizer leaves is
the one the operation needs, so the error path of `operation_lock` is dead), `PasswordNeverChanges`,
and, with three more conjuncts for temporary files, records and the answer of the probe,
`NoTempLeftBehind` (a file is left only at a point of the write, and there the lock is exclusive), `VaultAlwaysDecodable`, `UnlockFailuresAreGenuine` and `AskedAgainRarely` (the
authorizer starts over only when it asked about a new vault that another process has created by now, so
at most once).

`StoreInvariant` goes on to what processes know: a process has one request and one reply at a time
(`AskedInv`), the revision a writer has drawn is in no vault that may come back and with no process
(`FreshInv`), and what a process remembers of a project is true of the version it has read (`KnownInv`).
Hence `NoEditLost` (a replacement overwrites the very version its user was shown, contents included) and
`VaultIsRepository`: the vault backend implements `ProjectStore`. The mapping takes the records of the
vault in place for the store and those of `onDisk` for what is durable; a rename is the
operation's one instant, the directory sync its acknowledgement, and reads, refusals, locks, prompts and
temporary files are replies or stutters.

**`MacKeychainProofs`.** `KeychainIsRepository`: the Keychain backend implements `ProjectStore`.
The invariant's heart is `StaleInv`: a replace that found nothing stays stale, because no revision is
drawn twice, so its second look can only find a reason and not a match. `NoEditLost` holds without any lock,
by the same `KnownInv` as the vault's: who replaces a revision has read its capabilities, and they are what its user saw.

**`AppBrokerProofs`.** `SlotsExact`, `NoticeCorrect` and `BrokerIsGateway`, by an invariant that ties the
counter to the threads that hold a guard and the budget to the requests charged (`SlotsInv`,
`BudgetInv`); the listener dealing with one request at a time (`ListenerInv`) makes the refusal
at the limit exact. `NoticeCorrect` needs that a counter of 0 means that nothing was forwarded, at the
moment of the look; it claims nothing of what is charged later.

**`CapabilityServerProofs`.** `AnsweredInOrder` (one reply for each frame, in order, under its id or
none), `NothingBeforeHandshake` and `LateFramesAreRefused` (with a signal before the second look at the
flag, what is not complete at the signal is neither answered nor executed), from an invariant on the three counts of the loop: sent,
read, answered. A step of the proofs is a step of the server with any peer (`Step`), whose number of frames has no
bound; so they hold of the server in a session too.

**`CapabilitySessionProofs`.** The server's invariant, and what ties the adapter to it: the frames it has written
are the hello, the list and at most one for each call (`SentInv`), in step with its start (`StartInv`);
whoever waits is pending (`WaitingInv`); a frame whose reply has not been delivered is that of a pending
call or carries no id (`PendingInv`, which is why replies are correlated without looking at their order); an answer was
delivered for every call that is settled (`SettledInv`); nobody is told that the process is gone before it
is (`GoneInv`). From it `NoServerLeft`, `ChannelHolds` and `CallersAreToldTheTruth`: adapter and server
implement `CapabilityCalls`, with the frames sent upstream mapped to their calls. The refinement goes by what
a step changes: of the server only, of the frames written, of the replies delivered, or of who is told that
the session ends.

**`FramingProofs`.** `FramesFollowTheStream` and `LinesFollowTheStream`: for every stream, every
way to cut it and all limits, `ServerReadsLines` (the frames mean what the stream's lines mean and nothing is left
at the end) and `AdapterReadsLines` (the lines are the stream's, and the adapter gives up only for a line that
is too long); and a line is never kept beyond the limit. The invariant says what the bytes in memory are: the
stretch of the stream since the last newline, or nothing once that is too long.

**`CapabilityPolicyProofs`.** What the runs check for short paths holds for all of them.
The library's induction theorems cannot be instantiated here, so induction is argued with sets: the paths for
which a lemma holds contain the empty one and every extension of one of theirs, hence are all paths (`Least`,
`Counting`, `Lengthening`), and a function defined one byte or one segment at a time exists (`Recursion`). On that rest
the lemmas about paths: the segments of two paths in a row are those of the one and then of the other
(`SegmentsOfBoth`), a rooted path is known by its segments (`SegmentsAreInjective`) and can be cut between any two (`Cut`), and a path
without dot segments is left alone by a URL parser (`ResolvedIsTheSame`). `PrefixesGrantBySegment` says that the textual test
of `allows_path` is the comparison of segments; `canonical_base_url` leaves no dot segments and no
slash at the end (`BaseIsPlain`), so the target resolves to the segments of the base and then those that were checked
(`TargetResolves`). With the invariant `PolicyInvariant`, which says that a target is there exactly if nothing was
wrong with the invocation, follow `WhatIsCheckedIsAsked`, `NothingOutsideTheGrant`, `WhatIsGrantedCanBeAsked`,
`BodiesAreWhole` and `KeysStay`.

**`ProjectRunProofs`.** All five properties of `project_run`, for any number of routes, capabilities,
variables and descriptors. The inductive invariant (`RunInvariant`) says that what is stored decodes to a valid project, that
the dialogue's old project is valid too, that the routes collected so far contain the untouched ones as
they were and in their order (the part `UntouchedRoutesStay` needs, which speaks of the last step only),
that a launch runs a valid project and that the table is sealed up to the next descriptor.
`ChildEnvironmentCorrect` then comes down to a lemma on `Valid`: no variable has two setters
(`OneSetter`), so the order of the overrides does not matter. `DescriptorsSealed` is what the loop does achieve:
what a child inherits is at or above the limit.

## 7. What is only model-checked

Liveness, which is out of this prover's reach because it rests on fairness and therefore on `ENABLED`:
`LockReleased` and `NeverStuck` of the vault, `OperationsEnd` of the Keychain, `Answered` of the broker,
`ShutsDown` and `EveryFrameAnswered` of the server, `CallsSettle` and `DisposalEnds` of the session. The three runs
that find a violation need no theorem.

## 8. What is not modelled

* The arguments of Bubblewrap, which are fixed text, and what Bubblewrap does with them.
* Cryptography and key derivation (their effect is modelled), file modes and ownership,
  entitlements and the preflight of the macOS process, random tokens.
* Command-line parsing, the wording of prompts, rendering; the adapter tool's texts; packaging and demos.
* The syntax of identifiers, variables, keys and hosts: malformed ones are one refusal.
* Edits by another process during a launch or a dialogue, in `ProjectRun`: see `LinuxVault` and `MacKeychain`.
* The pressure of a full pipe between adapter and server: `CapabilityServer` has a peer that does not read, but the
  adapter of `CapabilitySession` always reads.
* Queries and headers of a request, but for being accepted or refused; the canonical content type.
* In `CapabilityPolicy` the other capabilities are the routes they use.

## 9. Findings and other observations

1. `broker_invalid`. `CONTRIBUTING.md` says that invalid requests fail before they consume the
   budget. `proxy.rs` charges a request before `execute_route` validates its header values, so one with a control
   character in a forwarded header is charged and then refused with 400.
2. `server_signal`. `tests/capability.rs` asserts that no frame is served after SIGTERM. A
   signal that comes between the second look at the flag and `read` does not interrupt the read: a
   frame written after the signal may be read with an earlier one and served. `LateFramesRefused`
   says in which window: the reader was past that look when the signal came.

3. `project_run_inherited`. The comment on `seal_inherited_descriptors` (`launcher.rs`, lines 57-59) says that no
   descriptor above stderr reaches the child. Where the kernel has no `close_range`, the loop ends at the soft limit:
   a descriptor opened before the limit was lowered is not marked and is inherited.
   `InheritedOnlyBeyondLimit` says what the loop achieves.

Two sentences of the documents are contradicted by what the models say, without a run of their own:

* `SECURITY.md`, line 86: "EOF, adapter disposal, SIGINT, and SIGTERM end the service." A peer that keeps the
  output open and does not read blocks the server in `write` (`capability.rs`, lines 490-494); the signal
  handler only sets a flag, and the end of the input is not seen either. `ShutsDown` without its premise `PeerReads` is violated
  in `CapabilityServer`. Disposal does end the service, by SIGKILL (`DisposalEnds`, `DisposedIsGone`).
* `integrations/deepseek-harness/README.md`, line 141: "The adapter buffers at most one bounded protocol frame". A
  chunk is appended as a whole, and the limit of the buffer is tested before the lines are taken from it and only when it
  holds no newline (`protocol.ts`, lines 151-155): several lines, or what follows the last newline, may exceed it
  until the next chunk. `AdapterReadsLines` is about lines, which are bounded.

Modelled as they are, contradicting no document:

* The adapter sends frames of up to 32 MiB, the server reads up to 24 MiB and refuses a longer one
  without an id, which the adapter takes for an unexpected response: one oversized call ends the
  session. `CloseHasCause` admits it as a cause; what it does exclude is a session closed for no reason, and
  `CallsSettle` says that everyone is told.
* A request that a process of the child left behind may be charged between the parent's look at the counter and its
  message, which says that no authorized request reached the broker; and a request that was authorized but
  refused before it reserved (413) is not counted. `NoticeIsTrue` is about what was forwarded at the look.
* A writer that is killed leaves its temporary file, encrypted like the vault, and nothing removes it.
* The server counts a carriage return before it drops it, so that a terminated line of exactly the limit and a
  carriage return is refused, and it does not drop one at the end of an unterminated last line.
* A call that was told it *failed* when the session was disposed of may still be executed; one that was
  *cancelled* or *refused* may not.
* An I/O error while a response body is read is reported as `RESPONSE_TOO_LARGE`.
* Capabilities hold the names of routes. A user who renames a route and gives its name to another one in the
  same dialogue redirects the capability to another upstream and key, and `Valid` accepts it:
  `CapabilitiesKeepDestination` is therefore about the routes the user did not touch.
* When the input ends in the middle of a dialogue, the remaining questions are answered with their
  defaults and the project is stored; nothing the user had not reached is changed (`UntouchedRoutesStay`).
