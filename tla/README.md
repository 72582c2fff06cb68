# Malink: formal verification

TLA+ models, TLC configurations and TLAPS proofs for Malink, a system in which
phones and browsers drive coding agents on a computer through Matrix rooms. The
models are kept beside the code they describe; `PROJECT.json` maps every
definition to the lines it stands for.

## 1. The system

| Component | State it keeps | Operations | Talks to |
| --- | --- | --- | --- |
| Command journal (`sqliteMlp3CommandJournal.ts`) | one durable row per command: `accepted`, `dispatched`, `terminal`, confirmation | `claim`, `markDispatched`, `settle`, `markTerminalDelivered`, recovery queries | called by the pipeline |
| Command pipeline (`mlp3Gateway.ts`) | event chain, session chains, active commands, prompts, turns, expired executions, deletion fence, drain state | receive, handle, schedule, execute, cancel, settle, deliver, recover, seal, stop | all below |
| Event inbox (`fileMatrixEventInbox.ts`) | durable received events: pending, quarantined | `stage`, `pending`, `complete`, `quarantine` | filled by Matrix sync, drained by the pipeline |
| Outbox and delivery pump (`fileMatrixMlp3Outbox.ts`, `mlp3Content.ts`) | write-ahead log of deliveries; queue, retry timers, confirmations | `stage`, `classifyMany`, `markDelivered`, `markSuperseded`, `compact`, pump, retry | callbacks into the pipeline |
| Authorizer (`mlp3Authorizer.ts`) | none | verify, policy verdict, then claim | journal |
| Project deletion | fence, catalog, room, runtime state | validate, settle, confirm, finalize | pipeline, catalog, Matrix |
| Batch archive (`batchArchiveExecutor.ts`, `batchArchiveStore.ts`) | checkpoint per batch | archive the next item, persist, publish | claims and schedules child commands |
| Session runtime, providers | conversation, turn | dispatch, cancel | one external agent per session |
| Blue/green deployment (`gatewayDeploymentCoordinator.ts`, `macosGatewayBlueGreenHost.ts`, `gatewayDeploymentHandoff.ts`) | transaction record, host record, data directories, services, retained old version | prepare, discard, schedule, promote, commit, roll back, recover | seals the Gateway, restarts processes |
| Update supervisor, execution tracks (`src/ops`) | releases, tracks | download, verify, start | hosts the coordinator |
| Replay store (`packages/security`: `file-replay-store.ts`, `atomic-json-file.ts`) | claimed keys in one file, a lock beside it | `claim`, `claimAll`, `prune` | shared by processes of a computer |
| Client outbox (`clients/android`: `DurableCommandOutbox.kt`, `NativeClientRuntime.kt`; `apps/pwa`) | unsent and unanswered commands, tombstones | enqueue, send, recover, reconcile, release, retire | the room |
| Pairing, workspace authorization | invitations, certificates, directory | invite, join, approve, revoke | authorizer |
| Timeline keys | key epochs per room | ensure, rotate, grant | outbox, inbox |
| Web push, admin socket, privilege helper, MCP, Telegram channel, user interfaces | | | not modelled |

**What is hard.** The Gateway is one Node.js process: nothing runs in parallel,
but every `await` lets another continuation run. The state that decides about a
command is spread over a durable journal, durable inbox and outbox and a dozen
in-memory maps; a decision is often made from a value read before an `await`.
Six actors may settle the same command (its execution, its deadline, a
cancellation, the fence, the policy, recovery). The process crashes between any
two writes, and clients resend what they saw no answer for. Around it, an update
moves the data of two running Gateways into one in a dozen durable effects, any
of which may fail or be the last before a crash; processes share files under a
lock that may be taken from the dead; and the phone does not know whether a
request it lost sight of has arrived.

**What makes it correct.** A command is executed at most once, and not at all
once it is rejected; it is answered, with one result, which is durable before it
is told to anybody; a session executes one command at a time; a deleted project
does nothing any more; a sealed Gateway is idle. What is staged for a room gets
there, unless a newer version does. An update loses no work and leaves one
authoritative Gateway. A key is claimed once. A request of the user is executed
at most once and comes to an end. Section 4 says which of these hold, section 5
which do not.

## 2. Modules

| Module | Content |
| --- | --- |
| `CommandJournal` | the row of a command and one operator per journal method |
| `CommandPipeline` | the pipeline of one Gateway process and one project room, EXTENDS `CommandJournal` |
| `MCCommandPipeline` | small instances: which operation, chain and target each command has |
| `CommandPipeline_types` | proof of the pipeline's type invariant |
| `CommandPipeline_proofs` | proofs of the journal and restart properties |
| `CommandPipeline_sessions` | what a step may do to the tasks, and the proof that sessions are serial |
| `CommandPipeline_recovery` | proofs about interrupted, stranded and deleted: who holds a command, and what ends it |
| `DurableOutbox` | what the outbox promises its callers, abstractly; the assumption under which `CommandPipeline` uses its own `outbox` variable |
| `MatrixOutbox` | write-ahead log and delivery pump, implements `DurableOutbox` (INSTANCE with a refinement mapping) |
| `MCMatrixOutbox`, `MatrixOutbox_proofs` | its instances; its invariants and the refinement, proved |
| `GatewayDeployment`, `MCGatewayDeployment` | coordinator, host and handoff of a blue/green update |
| `GatewayDeployment_proofs` | its type invariant and three safety properties, proved |
| `ReplayStore`, `MCReplayStore` | the replay store over its lock and its atomic file |
| `ReplayStore_proofs` | its type invariant and three safety properties, proved |
| `ClientOutbox`, `MCClientOutbox` | the Android client's durable command outbox and its jobs |
| `ClientOutbox_proofs` | its type invariant and three safety properties, proved |

### How `CommandPipeline` corresponds to the code

*Granularity.* An action is the code between two awaits at which another
continuation can change what it goes on with. Awaits that only read or log, and
storage calls nothing can overtake (journal methods run in one serial section),
do not split an action. Two loops do not await and are executed without giving
way: the part of `recoverJournal` before a dispatched row (`RecoversNow`) and
`resumeDeferredUpdateCommands` (`Reopening`); `Up` keeps every other action out
while they run.

*State.* Durable: `journal`, `claims` (the order of `accepted_at`), `applied`
(persisted lifecycle changes), `catalog`, `arrived`/`handled` (inbox), `outbox`
and `superseded` (terminal events the outbox has and has given up).
In memory, lost by `Halt`: `queue` and `handler` (`eventChain`), `tasks` with
`chains`, `active`, `prompts` (`sessionChains`, `activeCommands`,
`scheduledPromptCommands`), `turn` (`runtime.activeTurn`), `deleting`,
`expired`, `inflight`, `watching`, `drain`, `deferred`, `phase`, `recover`.
`past` and `now` are history variables: what earlier processes began, and how
often this one began each command.

*Operations.* `prompt` (an agent turn), `cancel`, `control` (every operation
with a deadline and one terminal), `lifecycle`, `batch`, `delete`. A command's
task walks through the program counters `queued`, `dispatched`, `executing` and
what is particular to its operation, to `staging` and `done`; `failing` is the
catch block of `scheduleExecution`, `timedout` the rejected race of
`executeWithDeadline`.

*Terminals.* The logical event ID is a digest of the command and a stage name,
so a terminal is the stage it is built for. `settle` compares whole events,
timestamps included: whether two results of one stage are equal is a
nondeterministic choice (`sameInstant`).

*Faults.* `Crash` at any point, `Stop` (a signal), `Throw` (an operation fails),
`Deadline`, `SealFail`, a finalization that fails, a redelivery whose attempt
fails, `StagingFails` (the outbox cannot stage), a device that expires or is
revoked (`Distrust`), and up to `Deliveries` Matrix events per command.

*Delivery.* The outbox keeps a staged event over a crash and sends it, unless the
homeserver refuses it for good (`Refusals`) or a newer document of its
supersession key comes first: what `DurableOutbox` promises. The terminals of
`Versioned` commands have a key when they succeed: `session.ready`,
`session.updated`, `session.lifecycle`, `project.snapshot` and the
`assistant.message` of an artifact (`mlp3Content.ts:1026`). `Supersede` is a
newer document, or the refusal, that ends a staged event; `ObsoleteOnArrival` an
event that finds a newer one pending. Which document is newer is data: a key may
be superseded at any time. `turn.completed`, rejections and failures have no key.

*Abstractions.* `Keys` are the lanes of one room and the deletions' own: a
deletion waits for all of these, and not for the lanes of commands for the whole
Gateway (`mlp3Gateway.ts:1207`), which are not modelled. A Gateway without the
batch capability keeps unfinished batches (4117); this one has it.
A `decision.answer` bypasses the session queue like a cancellation and is not
modelled. `session.create` with an initial prompt and `gateway.restart` have no
deadline; they behave like `control` without `Deadline`. The child commands of a
batch are not separate commands. SQLite and file errors of the journal itself
are not modelled. `gateway.update.apply` seals by the same idle condition as
`sealForDeployment`, which is the one modelled. Push notifications and
intermediate events (`turn.queued`, progress) are left out. `start()` failing
is a `Crash`.

### `MatrixOutbox`

The log is the pair `staged`/`settled`: its pending lines in order, and the
terminal line of each delivery. Every map of a running `FileMatrixMlp3Outbox`
changes with its line and is rebuilt from the log by `initialize()`, so the maps
are not variables of their own; compaction rewrites the log to the same pair.
`op` is the call inside the serial section: `stage()` appends the supersession
of older versions (`StageSupersede`) and then the new line (`StageAppend`), with
a crash possible in between. `queue`, `job`, `timers` and `waiting` are the
pump of `mlp3Content.ts`; its attempts end published (`Lands`), refused for good
(`Refused`) or failed (`AttemptFails`), and a failed attempt may still land
later (`LateLands`), also after a crash or a supersession. `Echo` is the room
event that settles a delivery nobody is sending any more. `NotNewest` is
`classifyMany`, which the provisioning of each room (`Provision`) calls if a
device is active; an error there makes `start()` fail, which is a `Crash`. The
confirmation of a superseded delivery that is staged again never settles
(`mlp3Content.ts:908`), so `EveryConfirmationSettles` excepts it.

### `GatewayDeployment`

The supervisor executes one operation at a time, and `pc` is the step between
two durable effects at which it is; `Crash` ends it at any of them and `Boot`
begins the recovery of `initialize()`. `coord` and `host`/`retained` are its two
files. A data directory is the node it belongs to, the work it holds and whether
ownership was committed to it; `active`, `trial`, `handoff` and `archive` are the
directories, `main`, `candidate` and `repair` the services, which launchd owns
and a crash leaves alone. `Abandon`, `Unwind`, `Failed`, `Rollback` and
`ActivationFails` are the catch blocks. `WorkOnActive` and `WorkOnCandidate` let
the Gateways write as long as they are open. A `LateSeal` is the seal request
that `sealActiveForDeployment` does not await. Not every call may fail: the
removal of the trial's data and of the host's record in the clean-up of a failed
preparation (`macosGatewayBlueGreenHost.ts:315`) and the two renames of the
activation (612, 615) do not throw here; a crash at either side of them is
modelled.

### `ReplayStore`

One action per call of the file system, so that another process or a kill can
come between any two: the lock is linked, inspected, moved away and compared
(`reclaimExitedOwner`), put back or dropped; the state is read, `.next` written
and synced, the primary moved to `.previous` and replaced. An owner record is a
process, its start marker (`life`) and the transaction. `Claim` takes one key;
`claimAll` takes several, all or none, with the same write. `now` is the clock the
caller read before it waited for the lock. Two history variables record the
accidents the store does not survive (section 5), so that the properties can say
what holds without them: `overlap`, a process found an exited owner while
another was still inside `reclaimExitedOwner`, and `relapse`, a write that
follows a killed one was killed itself while its `.next` was the only copy.

### `ClientOutbox`

`key` and `state` are the durable snapshot. `saved` is what the store of signed
contents has in memory and `stored` what its file has: `putIfAbsent` keeps a
content whose write failed, and the next write takes it along. `lost` are the
contents a crash or the revocation has taken. `sender` is the step of the
coroutine that transmits a command, `armed` its scheduled recovery, `wire` the
requests on their way, whether or not a coroutine still waits for them. The
homeserver and the Gateway are external: a request lands or is lost, a landed
command is executed once per command ID (which is what `CommandPipeline` is
about), progress and terminal come back while the transport is connected. A
release or retirement leaves a tombstone, and `cut` holds the commands whose
jobs were cancelled without anything else being done about them.
`AcceptRevocation` is `acceptWorkspaceDeviceRevocation`: every job ends and every
content is cleared, the commands stay; a restarted process learns of the
revocation once more (`access`).

The module is about one pairing. `disconnect(revoke = true)`
(`NativeClientRuntime.kt:1482`) clears outbox, tombstones, contents and trust and
ends it; so does a new pairing. A command whose content was cleared and that is
signed again under a new certificate is another command to the Gateway, whose
identity of a command contains the certificate (`mlp3Gateway.ts:6149`), so
`KeyExecutedOnce` claims nothing across pairings. A write that fails while a
content is removed is not modelled.

## 3. Bounds and fairness

Each run picks what it is about; bounds are CONSTANTS named in the modules.

| Run | Instance |
| --- | --- |
| `pipeline_restart` | prompt and batch; one crash, no seal; staging may fail, and the homeserver refuse |
| `pipeline_cancel` | prompt (resent) and its cancellation; no crash |
| `pipeline_session` | lifecycle and control of one session; one crash, one seal; no supersession (the theorems of section 6 cover it) |
| `pipeline_delete` | control and delete, both resent; no crash; staging may fail, and the homeserver refuse |
| `pipeline_answered` | control, resent, its terminal may be superseded or refused, its device may expire; one crash, one seal |
| `twice_executed` | two controls, one resent; no crash |
| `outbox` | two versions of one document and a delivery of another room that may be refused; one failed attempt, one crash |
| `outbox_workspaces` | the workspace snapshots of two projects; one failed attempt |
| `blue_green` | two updates, two pieces of work, two promotions, two failing steps, two crashes |
| `blue_green_killed` | one update, one promotion, one crash |
| `store` | two processes, two keys, four calls, two faults (kill or failed write); states after an accident are not followed |
| `client` | one prompt key and two probe keys, two commands, one tombstone, two faults (crash, failed send or write, disconnect, revocation) |

*Pipeline.* One crash is enough for a property of two processes. It can fall
between any two writes, recovery's own included (an event that was staged and
not completed is handled again by the next process). Two deliveries are the
smallest number for which an event meets a row somebody else changed. Symmetry
is not used: commands differ in their operation.

*Outbox.* A supersession needs two versions, a pump shared by rooms a second
room; a failed attempt may land late, before or after the crash.

*Deployment.* With two updates the second one meets the old version the first
one retained; with two crashes the second falls into the recovery from the
first; with two failures the clean-up of the first failure may itself fail.

*Store.* The two processes and the two keys are interchangeable (symmetry set of
both); two kills let the owner of a lock die and its successor too. Four calls
are two of each process, or a killed write and three that recover from it. The
constraint `Followed` cuts off what comes after an `overlap` or a `relapse`,
where the properties claim nothing, and counts a key that expires as a call; the
theorems of section 6 need neither.

*Client.* Two commands are what it takes for a second one of the same key, for
the limit of active commands and for the limit of one tombstone to be met; two
probe keys let a new probe take the place of a pending one.

A bounded instance ends, so deadlock is not checked; that nothing is left
hanging is what the liveness properties and `NoStranded...` say.

*Fairness of the pipeline* (`GatewayFairness`). The event loop of Node.js runs
every ready continuation and timer, hence weak fairness for the handler,
recovery, each step of a task that does not depend on an operation's own
progress, the deadline timer, confirmations and the seal's loop; the service
manager restarts a stopped Gateway; the outbox retries until it has sent or
given up. An
operation may hang: its completion is fair only where nothing external is left
to wait for, or when its turn was asked to stop (the provider's cancellation is
bounded). That every turn ends by itself is the separate assumption `TurnsEnd`,
a hypothesis of `EveryCommandAnswered` alone. Liveness runs assume
`StagingFails = FALSE`: the code gives up a delivery it could not stage until a
duplicate or a restart comes.

*Outbox.* The same event loop, an attempt that has a timeout of its own, and the
service manager. A homeserver that fails for ever is excluded by `MaxFails`.

*Deployment.* Weak fairness of the supervisor's steps (event loop, launchd's
KeepAlive, the armed timer), of the preparation it has already begun and of the
requested reload; strong fairness of `Finish`: the reload comes 250 ms after the
activation and does not win against the same two file writes every time.

*Client.* Coroutines run, the transport reconnects, an awaited request arrives
and the Gateway's terminal is synchronized (weak); strong fairness of `Claim`,
since a user who asks for recovery again and again does not do it between an
immediate recovery and its claim for ever.

`ReplayStore` has safety properties only: a caller that does not get the lock
gives up after its timeout.

## 4. What the runs show

| Property | Run | Meaning |
| --- | --- | --- |
| `TypeOK` | `pipeline_restart`, `outbox`, `blue_green`, `store`, `client` | the type invariant of the module; of a deployment also what `validateCoordinatorState` asks, of the client also its two limits |
| `JournalForward` | `pipeline_restart` | rows only move forward; the first terminal and the first confirmation are final |
| `NoReplayAfterRestart` | `pipeline_restart` | what an earlier process began is never begun again, except a batch |
| `NoStrandedCommand` | `pipeline_restart` | every unfinished row of a running Gateway has a task, is deferred or is being handled |
| `ExecutionIsJournaled` | `pipeline_session` | the dispatch is durable before the operation begins |
| `InterruptedHasNoEffect` | `pipeline_session` | a command reported interrupted has not changed a session's lifecycle |
| `SessionSerial` | `pipeline_session` | one command of a session at a time, also for deferred commands |
| `TerminalBeforeEvent` | `pipeline_session` | no event is built for a terminal that is not durable |
| `DeletedProjectIsStill` | `pipeline_delete` | without a crash or a seal, nothing begins after a deletion succeeded |
| `CancelEndsTurn` | `pipeline_cancel` | a cancellation that finds its turn running ends it |
| `EveryCommandAnswered` | `pipeline_cancel`, `pipeline_answered` | the event of the terminal in the journal is eventually sent; in `pipeline_answered` it may be superseded by a newer document or refused instead, in `pipeline_cancel` (terminals without a key) it may not |
| `KeepsPromise` | `outbox` | the log and its pump implement `DurableOutbox`, with supersession, refusal, late requests and a crash between any two appends |
| `NoStrandedDelivery` | `outbox` | a pending delivery always has somebody who will bring it to the pump |
| `EveryDeliverySettles`, `EveryConfirmationSettles` | `outbox` | what is in the log is settled, and whoever waits for it is told |
| `NoWorkLost` | `blue_green` | work of both Gateways is in the authoritative data or in a trial's, through every crash, failure and rollback |
| `RetiredStaysRetired` | `blue_green` | after the ownership commit the old node never runs on the active data again |
| `AtMostTwoDeployments` | `blue_green` | the retained old version included |
| `TransactionEnds` | `blue_green` | prepare, discard and promotion come to rest, except after a crash between the two renames of the activation |
| `OneWriter` | `store` | one transaction at a time, as long as no two reclaims of a lock overlap |
| `GrantedOnce` | `store` | a key is granted once until it expires, unless an accident of section 5 has happened |
| `GrantsSurvive` | `store` | a granted key is in every state that can be read later, with the same exception |
| `KeyExecutedOnce` | `client` | the Gateway executes at most one command of an idempotency key |
| `ReconcilableOnceSent` | `client` | what Matrix may have accepted can be sent again, byte for byte, until it is released, unless the revocation cleared the store or the process died after a failed write (`lost`) |
| `TerminalIsFinal` | `client` | no late publication, failure, recovery or restart takes a terminal back |
| `EveryCommandEnds` | `client` | every command of a device that is not revoked is completed or released, except the ones in `cut` (section 5) |

Each property has a mutant in `PROJECT.json`: a plausible mistake in the mapped
code that breaks it.

## 5. Where the code and its own words disagree

Each of these three has a run in which TLC finds the violation:

| Run | What happens | What the repository says |
| --- | --- | --- |
| `twice_executed` | a duplicate is claimed while the row is `accepted`, waits for its reconciliation while the first execution is dispatched and ends, and is then scheduled from its stale record | `mlp3Gateway.ts:4262`, "without running the operation twice" |
| `outbox_workspaces` | `classifyMany` compares versions of a supersession key over all rooms; the key of a workspace snapshot is the same for every project, so the pending snapshot of one project is dropped for another's | `malink-protocol.md:528`, "one workspace snapshot plus one pointer replacement per active project" |
| `blue_green_killed` | the supervisor is killed between the two renames of the activation; the next one inspects the missing active directory before it recovers the transaction, and fails each time | `gateway-blue-green-updates.md:347`, "Killing the coordinator at every durable phase recovers to exactly one authoritative generation" |

The following were met in the same way. The properties are definitions of the
modules that no run checks (or that a run checks on an instance without the
case); adding them to a configuration with the named instance shows the
counterexample.

* `OneTerminalEvent` (delete with a deadline): the deadline of a deletion fires
  while its finalization runs; `settle` returns silently on a confirmed row and
  the failure is published after `project.deleted` (`malink-protocol.md:194`,
  "emits one signed `project.deleted` terminal event").
* `SealedIsQuiet` (two controls, one seal): an execution past its deadline is in
  neither counter the seal reads (`mlp3Gateway.ts:1702`, "No business command or
  turn is active at this instant").
* `CancelEndsTurn` with a deletion: the deletion waits for a turn and its fence
  fails the `turn.cancel` that would end it (`mlp3Gateway.ts:1309`, "an
  authenticated turn.cancel owns the terminal transition").
* `DeletedProjectIsStill` with a crash: recovery executes an accepted command of
  a project whose deletion succeeded (`malink-protocol.md:194`, "durably stops
  execution for that project"). The same with a seal (delete and control, one
  seal): a sealed Gateway defers both, the seal fails, and
  `resumeDeferredUpdateCommands` (`mlp3Gateway.ts:1182`) schedules the second
  one without reading the fence the first has just set.
* The window of `twice_executed` with an expiring certificate: the guard of
  `mlp3Gateway.ts:1159` tests the status read at the claim, and a command that
  was dispatched meanwhile is settled as rejected (comment at 1157: "Never
  reinterpret in-flight execution as a later authorization failure").
* `PublishedInOrder` (two results of one room, one failed attempt): events
  staged while the queue is paused are sent before the retry timer brings the
  older ones back (`mlp3Content.ts:1029`, "so the scheduler preserves their
  enqueue order").
* `RestIsServed` (one update, one failure): when the polling loop of
  `sealActiveForDeployment` fails, the seal it did not await takes effect after
  the rollback, and the old Gateway is down although the trial is at rest
  (`gateway-blue-green-updates.md:349`, pre-commit failures "leave the old
  Gateway usable").
* `OneWriter` and `GrantedOnce` without `overlap` (two processes):
  `reclaimExitedOwner` reads the record of an exited owner and then renames
  whatever is at the lock path. Two processes read the same record; the first
  removes it and takes the lock; the second moves that live lock away and is
  killed before it puts it back. Its successor finds no lock, and two processes
  are inside the transaction (`packages/security/README.md:26`, processes
  "cannot both win a claim"; the class comment, `atomic-json-file.ts:247`, "An
  unclean exit is recovered only when that exact owner no longer exists"; the
  README's line 31 even says that locks are never declared stale).
* `GrantsSurvive` without `relapse` (one process): a write is killed after it
  has moved the primary aside; the next one reads `.next`, writes its own and
  removes `.previous`, and is killed before it promotes it; the one after that
  begins with removing `.next`, now the only copy, and a kill there leaves an
  empty store that grants every claimed key again
  (`packages/security/README.md:28`, "`.next` and `.previous` recovery files
  around replacement").
* `NextIsSynced`: a kill while `.next` is written for the first time leaves a
  torn file and no primary, which `read()` takes for a promoted state; every
  later transaction fails (comment at `atomic-json-file.ts:299`, "the fully
  synced state"). No granted key is lost.
* `EveryCommandEnds` without its exception: a disconnect cancels the job of a
  command that is transmitting, and nothing recovers it until the process
  restarts; releasing a command at a full ledger cancels its jobs and then
  refuses (`malink-protocol.md:119`, "resumes queued sends and
  transport-uncertain sends without a WebView").

Three consequences of the code that no document denies, and that the exceptions
of the properties stand for:

* A terminal that was superseded is never confirmed: its row stays in
  `pendingTerminalDeliveries`, and each restart tries in vain to deliver it.
  Staged once more by `settleAndDeliver`, it gets a confirmation nobody settles
  (`mlp3Content.ts:908`), and the command stays in `terminalDeliveriesInFlight`
  until the process ends. Its client learns of the result from the newer
  document, or by resending the command (`command.reconciled`).
* A content whose write failed is kept in memory and sent by the next attempt
  (`MatrixMlp3NativeStorage.kt:1379`): a crash then leaves a command the
  homeserver may have, which is signed anew.
* A revocation clears the contents of commands that stay in the outbox
  (`NativeClientRuntime.kt:3615`), and a changed Gateway state still launches the
  queued ones (`acceptMatrixMlp3GatewayState`, 3733), which are signed and sent;
  the Gateway ignores them.

## 6. What is proved

All theorems hold for every value of the constants (sets of commands, chains,
deliveries, rooms and keys, every bound and every fault option). Their only
assumptions are the `ASSUME`s of the modules on their constants, which TLC
evaluates in each run, for the refinement `KeyIsOfOneRoom`, and for
`StillUntilRestart` the hypothesis it names.

**Pipeline.**

* `TypeCorrect`: `Spec => []TypeOK`. `TypeOK` is not inductive: a handler looks
  up the head of the queue, a task the terminal it stages, a cancellation the
  task it watches. The inductive invariant `Typed` adds that these exist (queued
  events have arrived, a busy handler has an event, a staging task or recovery
  carries a terminal, positions lie inside their sequences) and that a row has a
  terminal exactly when it is terminal.
* `JournalNeverGoesBack`: `Spec => JournalForward`, from `Typed` and a lemma per
  journal method.
* `WriteAhead`, `NoReplay`, `EventsFollowTerminals`: the invariants
  `ExecutionIsJournaled`, `NoReplayAfterRestart`, `TerminalBeforeEvent`. The
  inductive invariant `Safe` is their conjunction with what the in-memory state
  knows of the journal: a stale row in the handler's, recovery's or the seal's
  hands that reads `accepted` belongs to a command no earlier process began
  (`HandlerS`, `RecoverS`, `DeferredS`), so scheduling from it is harmless
  across processes, however stale it is within one; a task past its dispatch
  has a dispatched row, a task that stages has a terminal one, and every task
  belongs to a command no earlier process began, or to a batch (`TaskS`).
  `JournalForward` is what keeps such knowledge true while others take steps.
* `SessionsAreSerial`: `Spec => []SessionSerial`. A task waits for one promise
  only, the last one of its chain when it was scheduled. The inductive invariant
  `Serial` says that `sessionChains` holds the last task of each lane
  (`LastOfLane`), that a queued task waits for a task of its lane that is not
  before any unfinished one (`Waiting`), and that tasks of a lane leave the
  queue in order (`InOrder`), by which the one promise stands for all before it.
  The lemma `TaskShape` reduces a step to four forms: no task moves, one does
  (`Moves`), one is scheduled, or the process ends.
* `InterruptedLeavesNothing`: `Spec => []InterruptedHasNoEffect`. A row that
  recovery settles as interrupted must not change a session later. The
  inductive invariant `Interruptions` says that a command with a closed row
  (dispatched by an earlier process, or interrupted) is barred: it has no task,
  no execution past its deadline, is not deferred, and neither the handler nor
  recovery holds a stale `accepted` row of it (`ClosedIsBarred`); batches, which
  resume, are never interrupted; and a process that is down remembers nothing.
  `TermStep` says who may write which terminal.
* `NothingStranded`: `Spec => []NoStrandedCommand`. The inductive invariant
  `Keeping` covers recovery too: every command that is owed an answer has a
  task, is deferred, is still ahead of the recovery loop, or was just claimed
  (`Held`). It rests on what the holders remember: an entry of `activeCommands`
  is a task that is not over (so a duplicate may be dropped for it), a settled
  cancellation flag and an execution past its deadline are backed by the
  journal or by a timed-out task (so a task may give up), the claim order
  contains every row, and a duplicate was claimed by somebody else before.
* `StillUntilRestart`: `Spec /\ []Undisturbed => DeletedProjectIsStill`, where
  `Undisturbed` is `crashes = 0 /\ drain # "sealed"`; section 5 has the
  counterexamples without it. The inductive invariant `Fenced`: a deletion that
  is not over holds the fence and is the last task (`Fences`); it waits, for
  every unfinished task before it, for one of the same lane that is not before
  that task (`Drains`), so that with `InOrder` it starts after all of them; a
  deletion that succeeded keeps the fence and leaves only cancellations and
  deletions (`Still`); a cancellation settles prompts only, hence never a
  deletion (`CancelsPrompts`).

**Outbox** (`MatrixOutbox_proofs`). The inductive invariant `Inv` is `TypeOK`
with `InLog`: whatever is queued, being sent, published or still on its way to
the homeserver has a line in the log, what is in the log was offered, and the
call inside the serial section is at a step its log line agrees with.

* `OutboxTypeCorrect`: `Spec => []TypeOK`.
* `NoDeliveryStranded`: `NoStrandedDelivery` is inductive relative to `Inv`; a
  failed attempt and a pause leave a timer for each room they take from the
  queue.
* `OutboxKeepsPromise`: `Spec => KeepsPromise`, under `KeyIsOfOneRoom`: two
  deliveries that share a key belong to one room. Initial states map to
  initial states, and each action to a step of `DurableOutbox` or a stutter.
  The assumption is used for `classifyMany` alone and is the one that
  `outbox_workspaces` shows to fail for workspace snapshots.

**Client** (`ClientOutbox_proofs`). The inductive invariant `IInv` is the types
without the limits, `OneCommandPerKey` (two commands of one key, tombstones
included, are one, which is what `enqueue` looks up), `OnlyIssued` (nothing is
on the wire, landed or executed that was not created) and
`ReconcilableOnceSent` (what a store takes from memory, a crash or the
revocation, it leaves in `lost`, and only a release or a new signature takes it
out of there); the limits are proved separately, with the cardinality
facts of the library.

* `ClientTypeCorrect`, `KeyIsExecutedOnce`, `SentIsReconcilable`: the three
  invariants of the run.
* `TerminalStaysFinal`: `Spec => TerminalIsFinal`.

**Deployment** (`GatewayDeployment_proofs`). None of the four invariants of the
run is inductive: that no work is lost when ownership moves depends on what was
stopped several steps earlier, and that the old node does not come back depends
on what recovery finds in two files and a directory. The inductive invariant
`Inv` is `TypeOK` with six parts, each proved action by action:

* `Control`: where the supervisor is and what the coordinator's file says agree.
  There is a transaction at every step but the ones of a rotation; its update is
  the newest; the commit marker is durable before the ownership commit.
* `Records`: the host's record is the transaction's, or its candidate has left
  nothing to run on; every earlier candidate is gone.
* `Ownership`: only the running transaction has a promoted merged directory.
  From the ownership commit (`Moved`) to the end of the transaction the active
  service runs only on the installed directory, the commit marker stands, and
  the supervisor is activating, recovering a commit, at rest or down, so that no
  path leads to a rollback. A committed record implies a committed directory.
* `Stopped`: from the seal to the commit neither Gateway takes work.
* `Data`: therefore the merged directory stays the union of the two, and all work
  owed is in the merged or installed directory after the commit, in the active
  and the trial's directory before it.
* `Tracks`: a retained version runs beside a steady computer, or beside the one
  that was just activated, never beside a candidate.

`DeploymentInvariant` is `Spec => []Inv`; from it `DeploymentTypeCorrect`,
`WorkIsKept` (`NoWorkLost`), `RetiredNeverServes` (`RetiredStaysRetired`; retired
nodes are older than the active one) and `TwoDeployments`
(`AtMostTwoDeployments`, with the cardinality facts of the library). Guards of
`Boot` are written so that at most one applies, since a `CASE` whose guards
overlap has no value the provers may assume.

**Replay store** (`ReplayStore_proofs`). The inductive invariant is the types
with `Locked` (who works on the file has its record at the lock path, and a
reclaimer is about to move away exactly the exited owner it inspected), `Disk`
(`.next` is complete before anything takes its place) and `Claims` (at each step
of a write, which of the three paths holds every granted key, and that the key
about to be granted is free). `Locked` and `Disk` hold until reclaims overlap,
`Claims` until either accident; trying to prove them without the exceptions is
what brought the two accidents of section 5 to light.

* `StoreInvariant`, and from it `StoreTypeCorrect`, `OneWriterAtATime`,
  `KeyGrantedOnce` and `GrantsAreKept`, for any number of processes.

Every invariant and action property that a passing run checks is now stated by a
theorem. Only model-checked are the liveness properties (`CancelEndsTurn`,
`EveryCommandAnswered`, `EveryDeliverySettles`, `EveryConfirmationSettles`,
`TransactionEnds`, `EveryCommandEnds`): fairness and `ENABLED` are out of the
prover's reach.

## 7. Not modelled

* *User interfaces* (`apps/pwa`, Android and desktop views) and their
  projections: presentation of received events; most of the repository's lines.
* *Provider adapters*, *Telegram channel and legacy daemon*: external programs
  behind one dispatch call, and a transport the Matrix Gateway does not use.
* *Cryptography*: signatures, pairing codes, timeline keys and sealing of
  contents. Validity is a choice (`Distrust`), and a received event is one whose
  signature was checked.
* *Validation and formatting* of messages: no property is about them.
* *Web push*: best effort, nothing depends on it.
* *Privileged execution helper*, *execution tracks*, *pairing*, *release
  download*: state machines of their own, not reached yet.
* Errors of the storage itself: torn lines of the write-ahead log, full disks
  inside the journal; the record limit of the inbox.

## 8. Plan

Done: `CommandJournal`, `CommandPipeline`, `MatrixOutbox` with `DurableOutbox`,
`GatewayDeployment`, `ReplayStore`, `ClientOutbox`.

1. Theorems for what is only model-checked and not liveness: done. Next, the
   refinement of the journal's rows as an abstract command life cycle.
2. `ProjectDeletion`: room, catalog and runtime state over crashes; the
   pipeline's `FinalizeDeletion` as its abstraction.
3. `BatchArchive`: checkpoints and child commands; each item archived once.
4. `Pairing`: invitations, certificates and revocation.
5. The inbox with its record limit, and torn lines of the write-ahead log.
