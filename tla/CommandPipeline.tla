-------------------------- MODULE CommandPipeline --------------------------
(***************************************************************************)
(* The command pipeline of one Gateway process (MatrixMlp3GatewayRunner)   *)
(* for one project room.  A signed command arrives as a Matrix event, is   *)
(* staged in the durable inbox, claimed in the command journal, scheduled  *)
(* on the promise chain of its session, dispatched, executed, settled, and *)
(* its terminal event is delivered and confirmed.  Clients resend a command*)
(* they saw no answer for, commands race with cancellations, deadlines,    *)
(* the project deletion fence and a deployment seal, and the process may   *)
(* crash between any two awaits.                                           *)
(*                                                                         *)
(* One action is the code between two awaits that matter: everything it    *)
(* does to the state is in it.  The Matrix outbox is used through what it  *)
(* promises: a staged event is kept over a crash and eventually sent once, *)
(* unless a newer document of its key supersedes it or it is refused.      *)
(***************************************************************************)
EXTENDS CommandJournal, Naturals, Sequences, FiniteSets

CONSTANTS
    Commands,      \* command identities (device, certificate, command ID)
    Op,            \* the operation each command asks for
    Key,           \* the session chain each command is queued on
    Target,        \* the prompt a turn.cancel names
    Keys,          \* the chain keys
    NoCommand,     \* project.deletingCommandId = null
    Deliveries,    \* bound: Matrix events that carry each command
    Versioned,     \* commands whose success event has a supersession key
    Refusals,      \* the homeserver may refuse an event for good
    Distrusts,     \* what may happen to the sending device
    StagingFails,  \* the outbox may fail to stage an event
    TaskIds,       \* the tasks the fairness assumptions speak about
    MaxCrashes,    \* bound: crashes and stops of the process
    MaxSeals       \* bound: attempts to seal the Gateway for a deployment

(***************************************************************************)
(* prompt    an Agent turn, cancellable, without a deadline                *)
(* cancel    turn.cancel, bypasses the session queue                       *)
(* control   any other command guarded by the execution deadline           *)
(* lifecycle session.set_lifecycle, its effect is persisted before settle  *)
(* batch     session.archive.batch, resumed from a checkpoint              *)
(* delete    project.delete, fences the project and waits for every chain  *)
(***************************************************************************)
Ops == {"prompt", "cancel", "control", "lifecycle", "batch", "delete"}

ASSUME OpAssumption == Op \in [Commands -> Ops]
ASSUME KeyAssumption == Key \in [Commands -> Keys]
ASSUME TargetAssumption == Target \in [Commands -> Commands]
ASSUME VersionedAssumption ==
    Versioned \subseteq {c \in Commands : Op[c] \in {"control", "lifecycle"}}
ASSUME NoCommandAssumption == NoCommand \notin Commands
ASSUME BoundAssumption ==
    /\ Deliveries \in [Commands -> Nat]
    /\ Distrusts \subseteq {"expired", "revoked"}
    /\ StagingFails \in BOOLEAN /\ Refusals \in BOOLEAN
    /\ MaxCrashes \in Nat /\ MaxSeals \in Nat

VARIABLES
    journal,   \* durable: command journal, one row per command
    claims,    \* durable: commands in the order of accepted_at
    applied,   \* durable: lifecycle commands whose effect is persisted
    catalog,   \* durable: the project is still in the project catalog
    arrived,   \* durable inbox: the command each staged event carries
    handled,   \* durable inbox: events completed or quarantined
    outbox,    \* durable: terminal events staged and not yet sent
    superseded, \* durable: terminal events the outbox gave up sending
    published, \* the room: terminal events sent
    device,    \* the sending device: "valid", "expired" or "revoked"
    phase,     \* "down", "recovering", "resuming", "running" or "stopping"
    recover,   \* the loop of recoverJournal and drainInbox
    drain,     \* updateDrainState
    deferred,  \* deferredUpdateCommands
    queue,     \* eventChain: staged events still to be handled
    handler,   \* the handleEvent call in progress
    tasks,     \* every task scheduleExecution created in this process
    chains,    \* sessionChains: the last task of each chain, 0 if none
    active,    \* activeCommands: the last task of each command, 0 if none
    prompts,   \* scheduledPromptCommands, 0 if none
    turn,      \* runtime.activeTurn of each session, 0 if none
    deleting,  \* project.deletingCommandId
    expired,   \* expiredCommandExecutions and the executions still running
    inflight,  \* terminalDeliveriesInFlight
    watching,  \* terminal events whose confirmation a callback waits for
    past,      \* history: commands executed by an earlier process
    now,       \* history: executions begun by this process
    crashes,   \* bounded by MaxCrashes
    seals      \* bounded by MaxSeals

inboxVars == <<arrived, handled>>
deliveryVars == <<outbox, superseded, published, inflight, watching>>
scheduleVars == <<chains, active, prompts, deleting>>
lifeVars == <<phase, recover, drain, deferred, crashes, seals>>
historyVars == <<past, now>>
vars == <<journal, claims, applied, catalog, inboxVars, deliveryVars, device,
          lifeVars, queue, handler, tasks, scheduleVars, turn, expired,
          historyVars>>

TaskPcs == {"queued", "dispatched", "executing", "agent", "persisting",
            "persisted", "cancelling", "cancelstaging", "awaitcancel",
            "awaitturn", "concluding", "failing", "timedout", "staging",
            "confirming", "done"}

\* cancel and agent are the flags of ScheduledPromptCommand, abort is
\* activeTurn.cancelRequested, watch the task a cancellation waits for.
Task == [cmd: Commands, waits: SUBSET Nat, pc: TaskPcs,
         cancel: {"no", "requested", "settled", "refused"},
         agent: BOOLEAN, abort: BOOLEAN, watch: Nat, term: Terms \cup {"none"}]

Event == [cmd: Commands, term: Terms]

\* A callback that waits for an event to be sent.  One that settles a command
\* survives failed attempts; one of a redelivery is good for one attempt.
Callback == [cmd: Commands, term: Terms, once: BOOLEAN]

CallbackFor(e, once) == [cmd |-> e.cmd, term |-> e.term, once |-> once]

EventOf(w) == [cmd |-> w.cmd, term |-> w.term]

IdleHandler == [pc |-> "idle", dup |-> FALSE, rejected |-> FALSE,
                snap |-> NoRow, term |-> "none"]

Handler == [pc: {"idle", "reconcile", "decide", "staging", "complete"},
            dup: BOOLEAN, rejected: BOOLEAN, snap: Row,
            term: Terms \cup {"none"}]

\* at is the position in claims (then in arrived), snap the rows read once
\* by unfinished(), term the terminal that is being staged.
NoRecovery == [at |-> 1, snap |-> [c \in Commands |-> NoRow], term |-> "none"]

Recovery == [at: Nat \ {0}, snap: [Commands -> Row], term: Terms \cup {"none"}]
-----------------------------------------------------------------------------
Init ==
    /\ journal = [c \in Commands |-> NoRow]
    /\ claims = <<>>
    /\ applied = {}
    /\ catalog = TRUE
    /\ arrived = <<>>
    /\ handled = {}
    /\ outbox = {}
    /\ superseded = {}
    /\ published = {}
    /\ device = "valid"
    /\ phase = "running"
    /\ recover = NoRecovery
    /\ drain = "open"
    /\ deferred = <<>>
    /\ queue = <<>>
    /\ handler = IdleHandler
    /\ tasks = <<>>
    /\ chains = [k \in Keys |-> 0]
    /\ active = [c \in Commands |-> 0]
    /\ prompts = [c \in Commands |-> 0]
    /\ turn = [k \in Keys |-> 0]
    /\ deleting = NoCommand
    /\ expired = {}
    /\ inflight = {}
    /\ watching = {}
    /\ past = {}
    /\ now = [c \in Commands |-> 0]
    /\ crashes = 0
    /\ seals = 0

\* state === 'running' covers recovery: start() sets it before recoverJournal.
Live == phase \in {"recovering", "resuming", "running"}

\* recoverJournal() awaits only while it settles a dispatched row: the rows
\* before it are scheduled or skipped without giving way to any other step.
RecoversNow ==
    /\ phase = "recovering" /\ recover.term = "none" /\ recover.at <= Len(claims)
    /\ LET c == claims[recover.at] IN
       ~(catalog /\ recover.snap[c].status = "dispatched" /\ Op[c] # "batch")

\* resumeDeferredUpdateCommands() does not await either.
Reopening == drain = "open" /\ deferred # <<>>

\* A continuation may run: the process is up and no such loop is under way.
Up == phase # "down" /\ ~RecoversNow /\ ~Reopening

-----------------------------------------------------------------------------
(***************************************************************************)
(* Shared steps.                                                           *)
(***************************************************************************)

\* settleAndDeliver(), up to the journal: a late result of an execution that
\* passed its deadline is ignored, a different terminal makes settle() throw.
SettleResult(c, term, allowExpired, sameInstant) ==
    IF ~allowExpired /\ \E z \in expired : z.cmd = c THEN "ignored"
    ELSE IF SettleThrows(journal[c], term, sameInstant) THEN "conflict"
    ELSE "stored"

\* Mutant: the event is built before the terminal is durable.
StoreLater(c, term) ==
    /\ inflight' = inflight \cup {c}
    /\ UNCHANGED journal

Store(c, term) ==
    /\ journal' = [journal EXCEPT ![c] = Settled(@, term)]
    /\ inflight' = inflight \cup {c}

\* enqueueEventDelivery(): the outbox keeps one entry per logical event, and
\* the confirmation callback is attached.
StageEvent(e, once) ==
    /\ outbox' = IF e \in published \cup superseded THEN outbox
                 ELSE outbox \cup {e}
    /\ watching' = watching \cup {CallbackFor(e, once)}
    /\ UNCHANGED superseded

\* session.ready, session.updated, session.lifecycle, project.snapshot and
\* assistant.message replace older documents; a failure replaces nothing.
HasKey(e) == e.cmd \in Versioned /\ e.term = "completed"

\* A newer document is pending already: stage() records the event as
\* superseded and stageEvent() throws.
ObsoleteOnArrival(e) ==
    /\ HasKey(e) /\ e \notin outbox \cup superseded \cup published
    /\ superseded' = superseded \cup {e}
    /\ UNCHANGED <<outbox, watching>>

\* The end of settleAndDeliver(): when the staging throws, the error is logged
\* and the delivery is given up until a duplicate or a restart.
Deliver(e) ==
    \/ StageEvent(e, FALSE) /\ UNCHANGED inflight
    \/ ObsoleteOnArrival(e) /\ inflight' = inflight \ {e.cmd}
    \/ /\ StagingFails
       /\ inflight' = inflight \ {e.cmd}
       /\ UNCHANGED <<outbox, superseded, watching>>

TerminalEvent(c) == [cmd |-> c, term |-> journal[c].term]

NewTask(c, waits) ==
    [cmd |-> c, waits |-> waits, pc |-> "queued", cancel |-> "no",
     agent |-> FALSE, abort |-> FALSE, watch |-> 0, term |-> "none"]

\* A resolved promise keeps only how its prompt's cancellation ended.
DoneTask(task) == [NewTask(task.cmd, {}) EXCEPT !.pc = "done", !.cancel = task.cancel]

\* Mutants: a task ignores the chain of its session; a deletion waits only
\* for the lane of deletions.
WaitsNothing(c) == {}
WaitsOwnLane(c) ==
    IF Op[c] = "cancel" THEN {} ELSE {chains[Key[c]]} \ {0}

\* The promises scheduleExecution makes a task wait for.  Keys are the lanes of
\* the room and the deletions' own; the lanes of commands for the whole Gateway,
\* which a deletion does not wait for, are not among them.
Waits(c) ==
    CASE Op[c] = "cancel" -> {}
      [] Op[c] = "delete" -> {chains[k] : k \in Keys} \ {0}
      [] OTHER            -> {chains[Key[c]]} \ {0}

\* scheduleExecution(): a new task, whatever the journal says by now.
Schedule(c) ==
    LET t == Len(tasks) + 1 IN
    /\ tasks' = Append(tasks, NewTask(c, Waits(c)))
    /\ chains' = IF Op[c] = "cancel" THEN chains ELSE [chains EXCEPT ![Key[c]] = t]
    /\ active' = [active EXCEPT ![c] = t]
    /\ prompts' = IF Op[c] = "prompt" THEN [prompts EXCEPT ![c] = t] ELSE prompts
    /\ deleting' = IF Op[c] = "delete" THEN c ELSE deleting

\* The finally blocks a task runs through: runPrompt gives up the active turn,
\* a finished task leaves the maps it is still the latest entry of, and a
\* deletion that did not succeed lifts the fence.
Advance(t, pc) ==
    LET c == tasks[t].cmd IN
    /\ tasks' = [tasks EXCEPT ![t] = IF pc = "done" THEN DoneTask(@) ELSE [@ EXCEPT !.pc = pc]]
    /\ turn' = [k \in Keys |-> IF turn[k] = t /\ pc \in {"failing", "done"}
                               THEN 0 ELSE turn[k]]
    /\ active' = [active EXCEPT ![c] = IF pc = "done" /\ @ = t THEN 0 ELSE @]
    /\ prompts' = [prompts EXCEPT ![c] = IF pc = "done" /\ @ = t THEN 0 ELSE @]
    /\ deleting' = IF /\ pc = "done" /\ Op[c] = "delete" /\ deleting = c
                      /\ catalog /\ ~Succeeded(journal[c])
                   THEN NoCommand ELSE deleting
    /\ UNCHANGED chains

-----------------------------------------------------------------------------
(***************************************************************************)
(* Inbox and event handler.                                                *)
(***************************************************************************)

\* receiveEvent(): stage durably, queue only while the Gateway is running.
\* An event that arrives while it starts or drains is staged only.
Receive(c) ==
    /\ Cardinality({k \in DOMAIN arrived : arrived[k] = c}) < Deliveries[c]
    /\ arrived' = Append(arrived, c)
    /\ queue' = IF Live THEN Append(queue, Len(arrived) + 1) ELSE queue
    /\ UNCHANGED <<journal, claims, applied, catalog, handled, deliveryVars,
                   device, lifeVars, handler, tasks, scheduleVars,
                   turn, expired, historyVars>>

\* handleEvent() up to the claim.  An event of a room without a project is
\* dropped, one of a revoked device is quarantined: neither is claimed.
ClaimEvent ==
    /\ Up /\ handler.pc = "idle" /\ queue # <<>>
    /\ LET c == arrived[Head(queue)] IN
       IF ~catalog \/ device = "revoked"
       THEN /\ handler' = [handler EXCEPT !.pc = "complete"]
            /\ UNCHANGED <<journal, claims>>
       ELSE LET dup == journal[c].status # "none" IN
            /\ journal' = [journal EXCEPT ![c] = Claimed(@)]
            /\ claims' = IF dup THEN claims ELSE Append(claims, c)
            /\ handler' = [pc |-> IF dup THEN "reconcile" ELSE "decide",
                           dup |-> dup, rejected |-> device = "expired",
                           snap |-> Claimed(journal[c]), term |-> "none"]
    /\ UNCHANGED <<applied, catalog, inboxVars, deliveryVars, device,
                   lifeVars, queue, tasks, scheduleVars, turn, expired,
                   historyVars>>

\* publishCommandReconciliation(): the answer to a duplicate is built from
\* the row read at the claim; it is no terminal event of its own, and a
\* failure to queue it is only logged.
Reconcile ==
    /\ Up /\ handler.pc = "reconcile"
    /\ handler' = [handler EXCEPT !.pc = "decide"]
    /\ UNCHANGED <<journal, claims, applied, catalog, inboxVars, deliveryVars,
                   device, lifeVars, queue, tasks, scheduleVars, turn, expired,
                   historyVars>>

Deciding == Up /\ handler.pc = "decide"

HandledCommand == arrived[Head(queue)]

\* settleAndDeliver() called by the handler; it swallows what settle() throws.
HandlerSettles(term) ==
    LET c == HandledCommand IN
    /\ \E same \in BOOLEAN :
         IF SettleResult(c, term, FALSE, same) = "stored"
         THEN /\ Store(c, term)
              /\ handler' = [handler EXCEPT !.pc = "staging", !.term = term]
         ELSE /\ handler' = [handler EXCEPT !.pc = "complete"]
              /\ UNCHANGED <<journal, inflight>>
    /\ UNCHANGED <<claims, applied, catalog, inboxVars, outbox, superseded,
                   published, watching, device, lifeVars, queue, tasks,
                   scheduleVars, turn, expired, historyVars>>

\* scheduleTerminalRedelivery(): emit() rejects at once when the event cannot
\* be staged or was superseded.
Redeliver(c) ==
    LET e == TerminalEvent(c) IN
    \/ /\ e \notin superseded
       /\ inflight' = inflight \cup {c} /\ StageEvent(e, TRUE)
    \/ ObsoleteOnArrival(e) /\ UNCHANGED inflight
    \/ /\ StagingFails \/ e \in superseded
       /\ UNCHANGED <<inflight, outbox, superseded, watching>>

\* A terminal command is delivered again unless the row, read once more, is
\* confirmed or its delivery is under way.
HandleTerminal ==
    LET c == HandledCommand IN
    /\ Deciding /\ handler.snap.status = "terminal"
    /\ handler' = [handler EXCEPT !.pc = "complete"]
    /\ IF /\ handler.snap.delivered = "none"
          /\ PendingDelivery(journal[c]) /\ c \notin inflight
       THEN Redeliver(c)
       ELSE UNCHANGED <<inflight, outbox, superseded, watching>>
    /\ UNCHANGED <<journal, claims, applied, catalog, inboxVars, published,
                   device, lifeVars, queue, tasks, scheduleVars, turn,
                   expired, historyVars>>

\* A project that is being deleted fails every command that is not terminal.
HandleFenced ==
    /\ Deciding /\ handler.snap.status # "terminal"
    /\ deleting # NoCommand
    /\ HandlerSettles("failed")

\* A command the policy rejects is settled unless it was dispatched before.
HandleRejected ==
    /\ Deciding /\ handler.snap.status = "accepted"
    /\ deleting = NoCommand /\ handler.rejected
    /\ HandlerSettles("rejected")

\* The remaining commands, decided by the row read at the claim.
Admitted ==
    /\ Deciding /\ handler.snap.status = "accepted"
    /\ deleting = NoCommand /\ ~handler.rejected

\* Nothing to do for a command that is dispatched or still has its task.
HandleActive ==
    /\ \/ /\ Deciding /\ handler.snap.status = "dispatched"
          /\ deleting = NoCommand
       \/ Admitted /\ active[HandledCommand] # 0
    /\ handler' = [handler EXCEPT !.pc = "complete"]
    /\ UNCHANGED <<journal, claims, applied, catalog, inboxVars, deliveryVars,
                   device, lifeVars, queue, tasks, scheduleVars, turn,
                   expired, historyVars>>

\* A sealed Gateway keeps the command for the process that replaces it.
HandleDeferred ==
    LET c == HandledCommand IN
    /\ Admitted /\ active[c] = 0 /\ drain = "sealed"
    /\ deferred' = IF \E i \in DOMAIN deferred : deferred[i] = c
                   THEN deferred ELSE Append(deferred, c)
    /\ handler' = [handler EXCEPT !.pc = "complete"]
    /\ UNCHANGED <<journal, claims, applied, catalog, inboxVars, deliveryVars,
                   device, phase, recover, drain, crashes, seals,
                   queue, tasks, scheduleVars, turn, expired, historyVars>>

HandleSchedule ==
    LET c == HandledCommand IN
    /\ Admitted /\ active[c] = 0 /\ drain # "sealed"
    /\ Schedule(c)
    /\ handler' = [handler EXCEPT !.pc = "complete"]
    /\ UNCHANGED <<journal, claims, applied, catalog, inboxVars, deliveryVars,
                   device, lifeVars, queue, turn, expired, historyVars>>

HandlerStages ==
    /\ Up /\ handler.pc = "staging"
    /\ Deliver([cmd |-> HandledCommand, term |-> handler.term])
    /\ handler' = [handler EXCEPT !.pc = "complete"]
    /\ UNCHANGED <<journal, claims, applied, catalog, inboxVars, published,
                   device, lifeVars, queue, tasks, scheduleVars, turn, expired,
                   historyVars>>

\* inbox.complete() or inbox.quarantine(): the durable end of an event.
CompleteEvent ==
    /\ Up /\ handler.pc = "complete"
    /\ handled' = handled \cup {Head(queue)}
    /\ queue' = Tail(queue)
    /\ handler' = IdleHandler
    /\ UNCHANGED <<journal, claims, applied, catalog, arrived, deliveryVars,
                   device, lifeVars, tasks, scheduleVars, turn,
                   expired, historyVars>>

-----------------------------------------------------------------------------
(***************************************************************************)
(* Scheduled tasks.                                                        *)
(***************************************************************************)

\* What no step of a task touches.
taskFrame == <<claims, catalog, inboxVars, published, device, lifeVars,
               queue, handler, past>>

At(t, pc) == Up /\ t \in DOMAIN tasks /\ tasks[t].pc = pc

\* waitForScheduledPromptCancellation() for the flags of task s: not
\* cancelled, or cancelled and the cancellation has ended in some way.
NotCancelled(s) == tasks[s].cancel = "no"
AfterCancellation(t, s) ==
    /\ tasks[s].cancel \in {"settled", "refused"}
    /\ Advance(t, IF tasks[s].cancel = "settled" THEN "done" ELSE "failing")

\* Mutant: the operation begins before its dispatch is durable.
DispatchUnmarked(t) ==
    /\ At(t, "queued")
    /\ \A w \in tasks[t].waits : tasks[w].pc = "done"
    /\ \/ NotCancelled(t) /\ Advance(t, "dispatched")
       \/ AfterCancellation(t, t)
    /\ UNCHANGED <<taskFrame, journal, applied, outbox, superseded, inflight,
                   watching, expired, now>>

\* The predecessors are done: make the dispatch durable, unless cancelled.
Dispatch(t) ==
    /\ At(t, "queued")
    /\ \A w \in tasks[t].waits : tasks[w].pc = "done"
    /\ \/ /\ NotCancelled(t)
          /\ journal' = [journal EXCEPT ![tasks[t].cmd] = MarkedDispatched(@)]
          /\ Advance(t, "dispatched")
       \/ /\ AfterCancellation(t, t)
          /\ UNCHANGED journal
    /\ UNCHANGED <<taskFrame, applied, outbox, superseded, inflight, watching,
                   expired, now>>

\* executeWithDeadline() calls execute(): every operation but a prompt begins
\* its effect here.
Begin(t) ==
    LET c == tasks[t].cmd IN
    /\ At(t, "dispatched")
    /\ \/ /\ NotCancelled(t)
          /\ Advance(t, "executing")
          /\ now' = [now EXCEPT ![c] = IF Op[c] = "prompt" THEN @ ELSE @ + 1]
       \/ /\ AfterCancellation(t, t)
          /\ UNCHANGED now
    /\ UNCHANGED <<taskFrame, journal, applied, outbox, superseded, inflight,
                   watching, expired>>

\* runPrompt() up to beginPromptAgentDispatch(): the flags are looked up by
\* the prompt's key, the Agent starts only if the prompt is not cancelled.
StartAgent(t) ==
    LET c == tasks[t].cmd
        s == prompts[c] IN
    /\ At(t, "executing") /\ Op[c] = "prompt"
    /\ \/ /\ s = 0 \/ NotCancelled(s)
          /\ tasks' = [u \in DOMAIN tasks |->
                         IF u = t THEN [tasks[u] EXCEPT !.pc = "agent", !.agent = (@ \/ u = s)]
                         ELSE IF u = s THEN [tasks[u] EXCEPT !.agent = TRUE]
                         ELSE tasks[u]]
          /\ turn' = [turn EXCEPT ![Key[c]] = t]
          /\ now' = [now EXCEPT ![c] = @ + 1]
          /\ UNCHANGED scheduleVars
       \/ /\ s # 0 /\ AfterCancellation(t, s)
          /\ UNCHANGED now
    /\ UNCHANGED <<taskFrame, journal, applied, outbox, superseded, inflight,
                   watching, expired>>

\* Where an operation stands when only its own settleAndDeliver() is left.
ReadyToSettle(t) ==
    LET o == Op[tasks[t].cmd] IN
    /\ t \in DOMAIN tasks
    /\ CASE o = "prompt"    -> At(t, "agent")
         [] o = "cancel"    -> At(t, "concluding")
         [] o = "lifecycle" -> At(t, "persisted")
         [] OTHER           -> At(t, "executing")

\* A task calls settleAndDeliver(); onThrow is where an exception leads.
TaskSettles(t, term, allowExpired, onThrow) ==
    LET c == tasks[t].cmd IN
    /\ \E same \in BOOLEAN :
         LET r == SettleResult(c, term, allowExpired, same) IN
         \/ /\ r = "stored"
            /\ Store(c, term)
            /\ tasks' = [tasks EXCEPT ![t].pc = "staging", ![t].term = term]
            /\ UNCHANGED <<scheduleVars, turn>>
         \/ /\ r # "stored"
            /\ Advance(t, IF r = "ignored" THEN "done" ELSE onThrow)
            /\ UNCHANGED <<journal, inflight>>
    /\ UNCHANGED <<taskFrame, applied, outbox, superseded, watching, expired,
                   now>>

\* The operation succeeded, or its turn ended (cancelled turns complete too).
\* A batch that cannot settle is interrupted, any other operation fails.
Complete(t) ==
    /\ ReadyToSettle(t)
    /\ TaskSettles(t, "completed", FALSE,
                   IF Op[tasks[t].cmd] = "batch" THEN "done" ELSE "failing")

\* requireActiveSession() throws once the session is archived.
SessionInactive(k) == \E c \in applied : Key[c] = k

\* The operation throws: a validation, provider or storage error.  A
\* cancellation that finds its session throws only in CancelTurn.
Throw(t) ==
    LET c == tasks[t].cmd IN
    /\ At(t, "executing") \/ At(t, "agent")
    /\ Op[c] = "cancel" => SessionInactive(Key[c])
    /\ Advance(t, "failing")
    /\ UNCHANGED <<taskFrame, journal, applied, outbox, superseded, inflight,
                   watching, expired, now>>

\* BatchArchiveInterruptedError: the batch stays unfinished for recovery.
InterruptBatch(t) ==
    /\ At(t, "executing") /\ Op[tasks[t].cmd] = "batch"
    /\ Advance(t, "done")
    /\ UNCHANGED <<taskFrame, journal, applied, outbox, superseded, inflight,
                   watching, expired, now>>

\* Mutant: an error is logged and not settled.
FailSilently(t) ==
    /\ At(t, "failing") /\ Advance(t, "done")
    /\ UNCHANGED <<taskFrame, journal, applied, outbox, superseded, inflight,
                   watching, expired, now>>

\* failCommand(): its own settle may throw and is only logged then.
Fail(t) == At(t, "failing") /\ TaskSettles(t, "failed", FALSE, "done")

\* The deadline: the execution goes on, its result will be ignored.
Deadline(t) ==
    LET c == tasks[t].cmd IN
    /\ \E pc \in {"executing", "persisting", "persisted", "awaitcancel",
                  "awaitturn", "confirming"} : At(t, pc)
    /\ Op[c] \notin {"prompt", "batch"}
    /\ ~(Op[c] = "cancel" /\ tasks[t].pc = "executing")
    /\ expired' = expired \cup {[cmd |-> c, persisting |-> tasks[t].pc = "persisting"]}
    /\ Advance(t, "timedout")
    /\ UNCHANGED <<taskFrame, journal, applied, outbox, superseded, inflight,
                   watching, now>>

FailExpired(t) == At(t, "timedout") /\ TaskSettles(t, "failed", TRUE, "done")

\* An execution past its deadline ends; a write it had begun is still made.
LateEnd(z) ==
    /\ Up /\ z \in expired
    /\ applied' = IF z.persisting THEN applied \cup {z.cmd} ELSE applied
    /\ expired' = expired \ {z}
    /\ UNCHANGED <<taskFrame, journal, outbox, superseded, inflight, watching,
                   tasks, scheduleVars, turn, now>>

\* setSessionLifecycle() writes the project state: the execution boundary.
Persist(t) ==
    LET c == tasks[t].cmd IN
    /\ t \in DOMAIN tasks /\ Op[c] = "lifecycle"
    /\ \/ At(t, "executing") /\ Advance(t, "persisting") /\ UNCHANGED applied
       \/ /\ At(t, "persisting") /\ Advance(t, "persisted")
          /\ applied' = applied \cup {c}
    /\ UNCHANGED <<taskFrame, journal, outbox, superseded, inflight, watching,
                   expired, now>>

\* settleAndDeliver() after the journal.  Only a deletion waits for Matrix.
Stage(t) ==
    LET c == tasks[t].cmd IN
    /\ At(t, "staging")
    /\ Deliver([cmd |-> c, term |-> tasks[t].term])
    /\ Advance(t, IF Op[c] = "delete" /\ tasks[t].term = "completed"
                  THEN "confirming" ELSE "done")
    /\ UNCHANGED <<taskFrame, journal, applied, expired, now>>

Confirmed(t) ==
    /\ At(t, "confirming")
    /\ [cmd |-> tasks[t].cmd, term |-> tasks[t].term, once |-> FALSE] \notin watching
    /\ Advance(t, "done")
    /\ UNCHANGED <<taskFrame, journal, applied, outbox, superseded, inflight,
                   watching, expired, now>>
-----------------------------------------------------------------------------
(***************************************************************************)
(* cancelTurn().                                                           *)
(***************************************************************************)

Watching(t, s, pc) == [tasks EXCEPT ![t].pc = pc, ![t].watch = s]

\* Mutant: a running turn is awaited and not asked to stop.
CancelTurnWithoutAbort(t) ==
    LET c == tasks[t].cmd
        r == turn[Key[c]] IN
    /\ At(t, "executing") /\ Op[c] = "cancel"
    /\ IF r # 0 /\ tasks[r].cmd = Target[c]
       THEN tasks' = Watching(t, r, "awaitturn") /\ UNCHANGED <<scheduleVars,
                                                                turn>>
       ELSE Advance(t, "concluding")
    /\ UNCHANGED <<taskFrame, journal, applied, outbox, superseded, inflight,
                   watching, expired, now>>

\* cancelTurn() up to its first await: a scheduled prompt is marked, another
\* cancellation is joined, an idle session converges, a running turn is
\* asked to stop, and a different turn is an error.
CancelTurn(t) ==
    LET c == tasks[t].cmd
        p == Target[c]
        s == prompts[p]
        r == turn[Key[c]]
        scheduled == s # 0 /\ ~tasks[s].agent
        running == r # 0 /\ tasks[r].cmd = p IN
    /\ At(t, "executing") /\ Op[c] = "cancel"
    /\ \/ /\ scheduled /\ NotCancelled(s)
          /\ tasks' = [Watching(t, s, "cancelling") EXCEPT ![s].cancel = "requested"]
          /\ UNCHANGED <<scheduleVars, turn>>
       \/ /\ scheduled /\ ~NotCancelled(s)
          /\ tasks' = Watching(t, s, "awaitcancel")
          /\ UNCHANGED <<scheduleVars, turn>>
       \/ ~scheduled /\ r = 0 /\ Advance(t, "concluding")
       \/ ~scheduled /\ r # 0 /\ ~running /\ Advance(t, "failing")
       \/ /\ ~scheduled /\ running
          /\ tasks' = [Watching(t, r, "awaitturn") EXCEPT ![r].abort = TRUE]
          /\ UNCHANGED <<scheduleVars, turn>>
    /\ UNCHANGED <<taskFrame, journal, applied, outbox, superseded, inflight,
                   watching, expired, now>>

\* settleScheduledPromptCancellation(): the prompt's own terminal.
SettleCancellation(t) ==
    LET s == tasks[t].watch
        p == tasks[s].cmd IN
    /\ At(t, "cancelling")
    /\ \E same \in BOOLEAN :
         IF SettleResult(p, "cancelled", FALSE, same) # "conflict"
         THEN /\ Store(p, "cancelled")
              /\ tasks' = [tasks EXCEPT ![t].pc = "cancelstaging"]
              /\ UNCHANGED <<scheduleVars, turn>>
         ELSE /\ tasks' = [tasks EXCEPT ![t].pc = "failing", ![s].cancel = "refused"]
              /\ UNCHANGED <<journal, inflight, scheduleVars, turn>>
    /\ UNCHANGED <<taskFrame, applied, outbox, superseded, watching, expired,
                   now>>

StageCancellation(t) ==
    LET s == tasks[t].watch IN
    /\ At(t, "cancelstaging")
    /\ Deliver([cmd |-> tasks[s].cmd, term |-> "cancelled"])
    /\ tasks' = [tasks EXCEPT ![t].pc = "concluding", ![s].cancel = "settled"]
    /\ UNCHANGED <<taskFrame, journal, applied, expired, now, scheduleVars,
                   turn>>

\* The joined cancellation ended, or the active turn is over.
JoinCancellation(t) ==
    LET s == tasks[t].watch IN
    /\ \/ /\ At(t, "awaitcancel") /\ tasks[s].cancel = "settled"
          /\ Advance(t, "concluding")
       \/ /\ At(t, "awaitcancel") /\ tasks[s].cancel = "refused"
          /\ Advance(t, "failing")
       \/ /\ At(t, "awaitturn") /\ turn[Key[tasks[t].cmd]] # s
          /\ Advance(t, "concluding")
    /\ UNCHANGED <<taskFrame, journal, applied, outbox, superseded, inflight,
                   watching, expired, now>>
-----------------------------------------------------------------------------
(***************************************************************************)
(* Matrix delivery of terminal events.                                     *)
(***************************************************************************)

deliveryFrame == <<claims, applied, inboxVars, device, lifeVars, queue,
                   handler, tasks, scheduleVars, turn, expired, historyVars>>

\* The outbox sends a staged event.
Send(e) ==
    /\ Up /\ e \in outbox
    /\ outbox' = outbox \ {e}
    /\ published' = published \cup {e}
    /\ UNCHANGED <<deliveryFrame, journal, catalog, superseded, inflight,
                   watching>>

\* A newer document supersedes a staged event, or the homeserver refuses it:
\* it leaves the outbox, and who waits for it is told so.  One that was being
\* sent may still land; then the redelivery that waits for this attempt has
\* its answer, and the confirmation of a settled command has been rejected.
Supersede(e) ==
    /\ Up /\ e \in outbox
    /\ \E lands \in BOOLEAN :
         LET ended == {w \in watching : EventOf(w) = e /\ ~(lands /\ w.once)} IN
         /\ HasKey(e) \/ (Refusals /\ ~lands)
         /\ published' = IF lands THEN published \cup {e} ELSE published
         /\ watching' = watching \ ended
         /\ inflight' = IF ended = {} THEN inflight ELSE inflight \ {e.cmd}
    /\ outbox' = outbox \ {e}
    /\ superseded' = superseded \cup {e}
    /\ UNCHANGED <<deliveryFrame, journal, catalog>>

\* A redelivery's only attempt fails: its callback is gone, the outbox keeps
\* the event and sends it later.
RedeliveryFails(w) ==
    /\ Up /\ w \in watching /\ w.once /\ EventOf(w) \in outbox
    /\ inflight' = inflight \ {w.cmd}
    /\ watching' = watching \ {w}
    /\ UNCHANGED <<deliveryFrame, journal, catalog, outbox, superseded,
                   published>>

\* The callback's answer is there.  A confirmation that was asked for after
\* the event was superseded never comes.
Arrived(w) ==
    /\ EventOf(w) \in published
    /\ w.once \/ EventOf(w) \notin superseded

IsDeletion(w) == Op[w.cmd] = "delete" /\ w.term = "completed"

\* completeTerminalDelivery() up to finalizeProjectDeletion().
ConfirmDelivery(w) ==
    /\ Up /\ w \in watching /\ Arrived(w)
    /\ IF DeliveredThrows(journal[w.cmd], w.term)
       THEN UNCHANGED journal
       ELSE journal' = [journal EXCEPT ![w.cmd] = MarkedDelivered(@, w.term)]
    /\ IF IsDeletion(w) /\ ~DeliveredThrows(journal[w.cmd], w.term)
       THEN /\ journal[w.cmd].delivered = "none"
            /\ UNCHANGED <<inflight, watching>>
       ELSE /\ inflight' = inflight \ {w.cmd}
            /\ watching' = watching \ {w}
    /\ UNCHANGED <<deliveryFrame, catalog, outbox, superseded, published>>

\* finalizeProjectDeletion(): the catalog entry is what a restart reads.  An
\* error on the way is logged and leaves the fenced project to a restart.
FinalizeDeletion(w) ==
    /\ Up /\ w \in watching /\ Arrived(w) /\ IsDeletion(w)
    /\ journal[w.cmd].delivered = w.term
    /\ catalog' \in {FALSE, catalog}
    /\ inflight' = inflight \ {w.cmd}
    /\ watching' = watching \ {w}
    /\ UNCHANGED <<deliveryFrame, journal, outbox, superseded, published>>

-----------------------------------------------------------------------------
(***************************************************************************)
(* Restart: start(), recoverJournal() and drainInbox().                    *)
(***************************************************************************)

recoverFrame == <<claims, applied, inboxVars, published, device, drain,
                  deferred, crashes, seals, turn, expired, historyVars>>
startFrame == <<recoverFrame, catalog>>

\* Mutant: terminals nobody confirmed are not delivered again.
StartWithoutRedelivery ==
    /\ phase = "down"
    /\ phase' = "recovering"
    /\ recover' = [NoRecovery EXCEPT !.snap = journal]
    /\ deleting' = NoCommand
    /\ UNCHANGED <<startFrame, journal, outbox, superseded, inflight,
                   watching, queue, handler, tasks, chains, active, prompts>>

\* start() up to unfinished(): no event can pass the inbox, the decryption
\* and the journal between the two, so the loop's snapshot is taken here.  The
\* redelivery of a superseded terminal fails at once; one that a newer pending
\* document makes obsolete is staged here and superseded in a step of its own.
Start ==
    LET redeliver == {c \in Commands : /\ catalog /\ PendingDelivery(journal[c])
                                       /\ TerminalEvent(c) \notin superseded}
        events == {TerminalEvent(c) : c \in redeliver}
        deletions == {c \in Commands : catalog /\ Op[c] = "delete" /\ Succeeded(journal[c])} IN
    /\ phase = "down"
    /\ phase' = "recovering"
    /\ recover' = [NoRecovery EXCEPT !.snap = journal]
    /\ inflight' = redeliver
    /\ watching' = {CallbackFor(e, TRUE) : e \in events}
    /\ outbox' = outbox \cup (events \ published)
    /\ deleting' \in IF deletions = {} THEN {NoCommand} ELSE deletions
    /\ UNCHANGED <<startFrame, journal, superseded, queue, handler, tasks,
                   chains, active, prompts>>

Recovering ==
    /\ phase = "recovering" /\ recover.term = "none" /\ recover.at <= Len(claims)
    /\ ~Reopening

\* Mutant: accepted rows are left to the client's next duplicate.
RecoverSkipAccepted ==
    /\ Recovering
    /\ recover.snap[claims[recover.at]].status # "dispatched" \/ ~catalog
    /\ recover' = [recover EXCEPT !.at = @ + 1]
    /\ UNCHANGED <<startFrame, journal, phase, outbox, superseded, inflight,
                   watching, queue, handler, tasks, scheduleVars>>

\* A row that was terminal or absent, or whose project is gone, is skipped.
RecoverSkip ==
    LET row == recover.snap[claims[recover.at]] IN
    /\ Recovering
    /\ ~Unfinished(row) \/ ~catalog
    /\ recover' = [recover EXCEPT !.at = @ + 1]
    /\ UNCHANGED <<startFrame, journal, phase, outbox, superseded, inflight,
                   watching, queue, handler, tasks, scheduleVars>>

\* Mutant: every unfinished row is executed.
RecoverReplaying ==
    /\ Recovering /\ catalog
    /\ Unfinished(recover.snap[claims[recover.at]])
    /\ Schedule(claims[recover.at])
    /\ recover' = [recover EXCEPT !.at = @ + 1]
    /\ UNCHANGED <<startFrame, journal, phase, outbox, superseded, inflight,
                   watching, queue, handler>>

\* An accepted row is executed, and so is a batch at any stage.
RecoverAccepted ==
    LET c == claims[recover.at] IN
    /\ Recovering /\ catalog
    /\ \/ recover.snap[c].status = "accepted"
       \/ recover.snap[c].status = "dispatched" /\ Op[c] = "batch"
    /\ Schedule(c)
    /\ recover' = [recover EXCEPT !.at = @ + 1]
    /\ UNCHANGED <<startFrame, journal, phase, outbox, superseded, inflight,
                   watching, queue, handler>>

\* Mutant: a dispatched row is interrupted whatever it had persisted.
RecoverInterrupting ==
    LET c == claims[recover.at] IN
    /\ Recovering /\ catalog
    /\ recover.snap[c].status = "dispatched" /\ Op[c] # "batch"
    /\ Store(c, "interrupted")
    /\ recover' = [recover EXCEPT !.term = "interrupted"]
    /\ UNCHANGED <<startFrame, phase, outbox, superseded, watching, queue,
                   handler, tasks, scheduleVars>>

\* A dispatched row is never executed again: it succeeded if its effect is
\* persisted, and is interrupted otherwise.  A settle that throws is logged,
\* except for a persisted effect, where start() fails: that is a Crash.
RecoverDispatched ==
    LET c == claims[recover.at]
        term == IF c \in applied THEN "completed" ELSE "interrupted" IN
    /\ Recovering /\ catalog
    /\ recover.snap[c].status = "dispatched" /\ Op[c] # "batch"
    /\ \E same \in BOOLEAN :
         IF SettleResult(c, term, FALSE, same) = "stored"
         THEN Store(c, term) /\ recover' = [recover EXCEPT !.term = term]
         ELSE /\ recover' = [recover EXCEPT !.at = @ + 1]
              /\ UNCHANGED <<journal, inflight>>
    /\ UNCHANGED <<startFrame, phase, outbox, superseded, watching, queue,
                   handler, tasks, scheduleVars>>

RecoverStages ==
    /\ Up /\ phase = "recovering" /\ recover.term # "none"
    /\ Deliver([cmd |-> claims[recover.at], term |-> recover.term])
    /\ recover' = [recover EXCEPT !.at = @ + 1, !.term = "none"]
    /\ UNCHANGED <<startFrame, journal, phase, queue, handler, tasks,
                   scheduleVars>>

\* The end of recoverJournal() finalizes the deletions that were confirmed; a
\* failure there makes start() fail, which is a Crash.
RecoverDeletions ==
    LET confirmed == {c \in Commands : /\ catalog /\ Op[c] = "delete"
                                       /\ Succeeded(journal[c])
                                       /\ journal[c].delivered # "none"} IN
    /\ Up /\ phase = "recovering" /\ recover.at > Len(claims)
    /\ \/ /\ confirmed # {}
          /\ catalog' = FALSE
          /\ UNCHANGED <<phase, recover>>
       \/ /\ confirmed = {}
          /\ phase' = "resuming"
          /\ recover' = NoRecovery
          /\ UNCHANGED catalog
    /\ UNCHANGED <<recoverFrame, journal, outbox, superseded, inflight,
                   watching, queue, handler, tasks, scheduleVars>>

\* drainInbox(): queue what is staged and neither handled nor queued.
DrainInbox ==
    /\ Up /\ phase = "resuming"
    /\ LET k == recover.at IN
       \/ /\ k <= Len(arrived)
          /\ queue' = IF k \in handled \/ \E i \in DOMAIN queue : queue[i] = k
                      THEN queue ELSE Append(queue, k)
          /\ recover' = [recover EXCEPT !.at = @ + 1]
          /\ UNCHANGED phase
       \/ /\ k > Len(arrived)
          /\ phase' = "running"
          /\ recover' = NoRecovery
          /\ UNCHANGED queue
    /\ UNCHANGED <<startFrame, journal, outbox, superseded, inflight,
                   watching, handler, tasks, scheduleVars>>
-----------------------------------------------------------------------------
(***************************************************************************)
(* Deployment seal, stop and crash.                                        *)
(***************************************************************************)

sealFrame == <<journal, claims, applied, catalog, inboxVars, deliveryVars,
               device, recover, queue, handler, expired, historyVars>>

\* sealForDeployment(): force asks every running turn to stop first.
SealBegin ==
    /\ Up /\ Live /\ drain = "open" /\ seals < MaxSeals
    /\ drain' = "waiting"
    /\ seals' = seals + 1
    /\ \E force \in BOOLEAN :
         tasks' = [t \in DOMAIN tasks |->
                     IF force /\ tasks[t].pc = "agent"
                     THEN [tasks[t] EXCEPT !.abort = TRUE] ELSE tasks[t]]
    /\ UNCHANGED <<sealFrame, crashes, phase, deferred, scheduleVars, turn>>

\* No turn and no command is active: admission closes in the same step.
Seal ==
    /\ Up /\ Live /\ drain = "waiting"
    /\ \A k \in Keys : turn[k] = 0
    /\ \A c \in Commands : active[c] = 0
    /\ drain' = "sealed"
    /\ UNCHANGED <<sealFrame, crashes, phase, deferred, seals, tasks,
                   scheduleVars, turn>>

\* The seal failed: admission opens and the deferred commands are scheduled.
SealFail ==
    /\ Up /\ Live /\ drain \in {"waiting", "sealed"}
    /\ drain' = "open"
    /\ UNCHANGED <<sealFrame, crashes, phase, deferred, seals, tasks,
                   scheduleVars, turn>>

ResumeDeferred ==
    /\ phase # "down" /\ Reopening
    /\ Schedule(Head(deferred))
    /\ deferred' = Tail(deferred)
    /\ UNCHANGED <<sealFrame, crashes, phase, drain, seals, turn>>

\* The queues are drained: stop() begins, no further event is queued.
SealStop ==
    /\ Up /\ phase = "running" /\ drain = "sealed"
    /\ handler.pc = "idle" /\ queue = <<>> /\ outbox = {}
    /\ DOMAIN arrived \subseteq handled
    /\ phase' = "stopping"
    /\ UNCHANGED <<sealFrame, crashes, drain, deferred, seals, tasks,
                   scheduleVars, turn>>

\* stop() outside a deployment: a signal to the daemon.
Stop ==
    /\ Up /\ phase = "running" /\ crashes < MaxCrashes
    /\ crashes' = crashes + 1
    /\ phase' = "stopping"
    /\ UNCHANGED <<sealFrame, drain, deferred, seals, tasks, scheduleVars,
                   turn>>

\* All that a process holds only in memory is gone.
Halt ==
    /\ phase' = "down"
    /\ recover' = NoRecovery
    /\ drain' = "open"
    /\ deferred' = <<>>
    /\ queue' = <<>>
    /\ handler' = IdleHandler
    /\ tasks' = <<>>
    /\ chains' = [k \in Keys |-> 0]
    /\ active' = [c \in Commands |-> 0]
    /\ prompts' = [c \in Commands |-> 0]
    /\ turn' = [k \in Keys |-> 0]
    /\ deleting' = NoCommand
    /\ expired' = {}
    /\ inflight' = {}
    /\ watching' = {}
    /\ past' = past \cup {c \in Commands : now[c] > 0}
    /\ now' = [c \in Commands |-> 0]
    /\ UNCHANGED <<journal, claims, applied, catalog, inboxVars, outbox,
                   superseded, published, device, seals>>

\* stopOnce(): the event chain and every task end first.  It also awaits the
\* redeliveries; what they lose here are callbacks, as in a crash.
Stopped ==
    /\ phase = "stopping" /\ handler.pc = "idle" /\ queue = <<>>
    /\ \A t \in DOMAIN tasks : tasks[t].pc = "done"
    /\ Halt
    /\ UNCHANGED crashes

Crash ==
    /\ phase # "down" /\ crashes < MaxCrashes
    /\ crashes' = crashes + 1
    /\ Halt

\* The certificate of the device expires, or the device is revoked.
Distrust ==
    /\ device' \in Distrusts
    /\ device # "revoked" /\ device' # device
    /\ UNCHANGED <<journal, claims, applied, catalog, inboxVars, deliveryVars,
                   lifeVars, queue, handler, tasks, scheduleVars, turn,
                   expired, historyVars>>
-----------------------------------------------------------------------------
HandlerNext ==
    \/ ClaimEvent \/ Reconcile \/ HandleTerminal \/ HandleFenced
    \/ HandleRejected \/ HandleActive \/ HandleDeferred \/ HandleSchedule
    \/ HandlerStages \/ CompleteEvent

TaskNext(t) ==
    \/ Dispatch(t) \/ Begin(t) \/ StartAgent(t) \/ Complete(t) \/ Throw(t)
    \/ InterruptBatch(t) \/ Fail(t) \/ Deadline(t) \/ FailExpired(t)
    \/ Persist(t) \/ Stage(t) \/ Confirmed(t) \/ CancelTurn(t)
    \/ SettleCancellation(t) \/ StageCancellation(t) \/ JoinCancellation(t)

DeliveryNext ==
    \/ \E e \in outbox : Send(e) \/ Supersede(e)
    \/ \E w \in watching : RedeliveryFails(w) \/ ConfirmDelivery(w) \/ FinalizeDeletion(w)

RecoveryNext ==
    \/ Start \/ RecoverSkip \/ RecoverAccepted \/ RecoverDispatched
    \/ RecoverStages \/ RecoverDeletions \/ DrainInbox

DeploymentNext ==
    SealBegin \/ Seal \/ SealFail \/ ResumeDeferred \/ SealStop \/ Stop \/ Stopped

Next ==
    \/ \E c \in Commands : Receive(c)
    \/ HandlerNext
    \/ \E t \in DOMAIN tasks : TaskNext(t)
    \/ \E z \in expired : LateEnd(z)
    \/ DeliveryNext
    \/ RecoveryNext
    \/ DeploymentNext
    \/ Crash
    \/ Distrust

Spec == Init /\ [][Next]_vars

-----------------------------------------------------------------------------
(***************************************************************************)
(* Fairness.  The event loop of Node.js runs every ready continuation and  *)
(* timer, the supervisor restarts a stopped Gateway, and the outbox sends  *)
(* what is staged.  Operations may hang: only the deadline is fair.  A     *)
(* provider is assumed to end a turn it was asked to stop; that it ends    *)
(* every turn is a separate assumption.                                    *)
(***************************************************************************)
TaskStep(t) ==
    \/ Dispatch(t) \/ Begin(t) \/ StartAgent(t) \/ Fail(t) \/ Deadline(t)
    \/ FailExpired(t) \/ Stage(t) \/ Confirmed(t) \/ CancelTurn(t)
    \/ SettleCancellation(t) \/ StageCancellation(t) \/ JoinCancellation(t)

GatewayFairness ==
    /\ WF_vars(HandlerNext)
    /\ WF_vars(RecoveryNext)
    /\ \A t \in TaskIds : WF_vars(TaskStep(t))
    /\ \A t \in TaskIds :
         WF_vars(Complete(t) /\ (\/ tasks[t].pc \in {"concluding", "persisted"}
                                 \/ tasks[t].abort))
    /\ \A e \in Event : WF_vars(Send(e))
    /\ \A w \in Callback : WF_vars(ConfirmDelivery(w) \/ FinalizeDeletion(w))
    /\ WF_vars(ResumeDeferred)
    /\ WF_vars(SealStop \/ (drain = "sealed" /\ SealFail))
    /\ WF_vars(Stopped)

TurnsEnd == \A t \in TaskIds : WF_vars(At(t, "agent") /\ Complete(t))

FairSpec == Spec /\ GatewayFairness
-----------------------------------------------------------------------------
(***************************************************************************)
(* Properties.                                                             *)
(***************************************************************************)

\* Every variable holds a value of its kind.
TypeOK ==
    /\ journal \in [Commands -> Row]
    /\ claims \in Seq(Commands)
    /\ applied \subseteq Commands
    /\ catalog \in BOOLEAN
    /\ arrived \in Seq(Commands)
    /\ handled \subseteq Nat
    /\ outbox \subseteq Event
    /\ superseded \subseteq Event
    /\ published \subseteq Event
    /\ device \in {"valid", "expired", "revoked"}
    /\ phase \in {"down", "recovering", "resuming", "running", "stopping"}
    /\ recover \in Recovery
    /\ drain \in {"open", "waiting", "sealed"}
    /\ deferred \in Seq(Commands)
    /\ queue \in Seq(Nat)
    /\ handler \in Handler
    /\ tasks \in Seq(Task)
    /\ chains \in [Keys -> Nat]
    /\ active \in [Commands -> Nat]
    /\ prompts \in [Commands -> Nat]
    /\ turn \in [Keys -> Nat]
    /\ deleting \in Commands \cup {NoCommand}
    /\ expired \subseteq [cmd: Commands, persisting: BOOLEAN]
    /\ inflight \subseteq Commands
    /\ watching \subseteq Callback
    /\ past \subseteq Commands
    /\ now \in [Commands -> Nat]
    /\ crashes \in Nat
    /\ seals \in Nat

\* A command whose effect began before a crash or a restart is never begun
\* again by a later process (recoverJournal: "The command was not executed
\* again"), whatever duplicates arrive.  Only a batch resumes.
NoReplayAfterRestart ==
    \A c \in past : Op[c] = "batch" \/ now[c] = 0

\* The write-ahead rule of markDispatched: an execution in progress or in the
\* past has a durable row that recovery will not run again.
ExecutionIsJournaled ==
    \A c \in Commands :
        (c \in past \/ now[c] > 0) => journal[c].status \in {"dispatched", "terminal"}

\* The promise chains serialise a session: no task starts before every
\* earlier task of its chain is done.
SessionSerial ==
    \A t, u \in DOMAIN tasks :
        /\ t < u
        /\ Op[tasks[t].cmd] # "cancel" /\ Op[tasks[u].cmd] # "cancel"
        /\ Key[tasks[t].cmd] = Key[tasks[u].cmd]
        /\ tasks[u].pc # "queued"
        => tasks[t].pc = "done"

\* "The semantic terminal is already fsynced in the command journal": no
\* terminal event is staged, sent or awaited for a command without one.
TerminalBeforeEvent ==
    \A e \in outbox \cup published \cup watching : journal[e.cmd].status = "terminal"

\* A command reported interrupted left no persisted effect: recovery reports
\* a lifecycle change that was written before the crash as completed.
InterruptedHasNoEffect ==
    \A c \in applied : journal[c].term # "interrupted"

\* A running Gateway strands no command: an unfinished row has a task that is
\* not done, is deferred by the seal, or is in the event handler's hands.
NoStrandedCommand ==
    \A c \in Commands :
        /\ phase \in {"resuming", "running"} /\ catalog
        /\ Unfinished(journal[c]) /\ Op[c] # "batch"
        => \/ \E t \in DOMAIN tasks : tasks[t].cmd = c /\ tasks[t].pc # "done"
           \/ \E i \in DOMAIN deferred : deferred[i] = c
           \/ handler.pc = "decide" /\ HandledCommand = c

StatusRank(s) == CASE s = "none" -> 0 [] s = "accepted" -> 1
                   [] s = "dispatched" -> 2 [] s = "terminal" -> 3

RowForward(old, new) ==
    /\ StatusRank(old.status) <= StatusRank(new.status)
    /\ old.term # "none" => new.term = old.term
    /\ old.delivered # "none" => new.delivered = old.delivered

\* The journal only moves forward: accepted, dispatched, terminal; the first
\* terminal (settle) and the first confirmation (markTerminalDelivered) are
\* final, whoever settles the row again and over every crash.
JournalForward == [][\A c \in Commands : RowForward(journal[c], journal'[c])]_vars

\* Every claimed command is answered: it reaches a terminal, and the event of
\* just that terminal is sent to the room, unless a newer document of its key
\* supersedes it, the homeserver refuses it, or the project is deleted;
\* provided that the provider ends its turns.
EveryCommandAnswered == TurnsEnd =>
    \A c \in Commands :
        (journal[c].status # "none" /\ Op[c] # "batch")
            ~> \/ /\ journal[c].status = "terminal"
                  /\ TerminalEvent(c) \in published \cup superseded
               \/ ~catalog
-----------------------------------------------------------------------------
(***************************************************************************)
(* What the code's comments and documents say and the code does not do.    *)
(***************************************************************************)

\* "`project.delete` durably stops execution for that project": once the
\* deletion is settled as succeeded, no queued operation begins its effect.
DeletedProjectIsStill ==
    [][\A c \in Commands :
         now'[c] > now[c] /\ Op[c] \notin {"cancel", "delete"}
           => \A d \in Commands : Op[d] = "delete" => ~Succeeded(journal[d])]_vars

\* "this path can report durable state without running the operation twice"
\* (publishCommandReconciliation).
AtMostOnce ==
    \A c \in Commands : Op[c] # "batch" => now[c] <= 1

\* A command has one terminal event ("emits one signed `project.deleted`
\* terminal event").
OneTerminalEvent ==
    \A e, f \in published : e.cmd = f.cmd => e.term = f.term

\* "No business command or turn is active at this instant, and the sealed
\* gate synchronously prevents another one from starting".
SealedIsQuiet ==
    drain = "sealed" =>
        /\ \A t \in DOMAIN tasks : tasks[t].pc \in {"queued", "done"}
        /\ expired = {}

\* "Its provider result or an authenticated turn.cancel owns the terminal
\* transition": a turn.cancel claimed while its turn runs ends that turn.
CancelEndsTurn ==
    \A c \in Commands :
        (/\ Op[c] = "cancel" /\ handler.pc = "decide" /\ HandledCommand = c
         /\ ~handler.dup /\ ~handler.rejected
         /\ \E t \in DOMAIN tasks : tasks[t].cmd = Target[c] /\ tasks[t].pc = "agent")
            ~> (journal[Target[c]].status = "terminal")
=============================================================================
