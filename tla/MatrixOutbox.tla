---------------------------- MODULE MatrixOutbox ----------------------------
(***************************************************************************)
(* FileMatrixMlp3Outbox and the delivery pump of GatewayMlp3ContentLayer:  *)
(* the write-ahead log of what the Gateway sends to its rooms, the single  *)
(* pump that sends it, its retry timers and the confirmations callers      *)
(* wait for.                                                               *)
(*                                                                         *)
(* The log is the pair staged/settled: its "pending" lines in order and    *)
(* the terminal line of each delivery.  The maps of a running process are  *)
(* not modelled apart from it: every update of them follows the fsync of   *)
(* its line without an await, and initialize() rebuilds them from the log, *)
(* a terminal line winning over a pending one wherever it stands.          *)
(* Compaction rewrites the file atomically to the same pair.               *)
(***************************************************************************)
EXTENDS Naturals, Sequences, FiniteSets

CONSTANTS Rooms, Deliveries,
          Room,        \* the room of a delivery
          Kind,        \* "event" or "state"
          Key,         \* supersession key, or event type and state key
          Version,     \* supersession version
          Priority,    \* 0 urgent and state, 1 control, 2 normal, 3 bulk
          NoKey,       \* an event without supersession
          NoDelivery,
          Refusable,   \* what the homeserver may refuse for good
          MaxCalls,    \* bound: how often a delivery is staged
          MaxFails,    \* bound: attempts that fail transiently
          MaxCrashes   \* bound: crashes

ASSUME OutboxConstants ==
    /\ Room \in [Deliveries -> Rooms]
    /\ Kind \in [Deliveries -> {"event", "state"}]
    /\ Version \in [Deliveries -> Nat] /\ Priority \in [Deliveries -> 0..3]
    /\ NoDelivery \notin Deliveries
    /\ DOMAIN Key = Deliveries /\ DOMAIN MaxCalls = Deliveries
    /\ Refusable \subseteq Deliveries

VARIABLES
    staged, settled,       \* the log
    published, late,       \* the rooms; requests the server still works on
    calls,                 \* how often each delivery was given to stage()
    up,                    \* whether a process runs
    provisioning,          \* rooms start() has yet to provision
    op,                    \* the operation inside the outbox's serial section
    queue, job,            \* deliveryQueue, the job of the pump
    timers,                \* retryTimers
    waiting,               \* deliveryConfirmations
    fails, crashes

log == <<staged, settled>>
pumpVars == <<queue, job, timers>>
vars == <<staged, settled, published, late, calls, up, provisioning, op,
          queue, job, timers, waiting, fails, crashes>>

Range(s) == {s[i] : i \in DOMAIN s}
Pending == {d \in Range(staged) : settled[d] = "none"}
Delivered == {d \in Deliveries : settled[d] = "delivered"}
Superseded == {d \in Deliveries : settled[d] = "superseded"}

NoOp == [d |-> NoDelivery, pc |-> "none", gone |-> {}]
NoJob == [d |-> NoDelivery, pc |-> "none"]

Init ==
    /\ staged = <<>> /\ settled = [d \in Deliveries |-> "none"]
    /\ published = {} /\ late = {}
    /\ calls = [d \in Deliveries |-> 0]
    /\ up = TRUE /\ provisioning = Rooms
    /\ op = NoOp
    /\ queue = {} /\ job = NoJob /\ timers = {}
    /\ waiting = {}
    /\ fails = 0 /\ crashes = 0
-----------------------------------------------------------------------------
(***************************************************************************)
(* stage()                                                                 *)
(***************************************************************************)

\* A version that takes the place of every other one, newer ones too.
OlderAnyVersion(d) ==
    {e \in Pending \ {d} :
        Room[e] = Room[d] /\ Kind[e] = Kind[d] /\ Key[e] = Key[d] /\ Key[d] # NoKey}

\* The pending entries a new delivery takes the place of.
Older(d) ==
    {e \in Pending \ {d} :
        /\ Room[e] = Room[d] /\ Kind[e] = Kind[d] /\ Key[e] = Key[d]
        /\ Key[d] # NoKey
        /\ Kind[d] = "event" => Version[e] < Version[d]}

ObsoleteOnArrival(d) ==
    /\ Kind[d] = "event" /\ Key[d] # NoKey
    /\ \E e \in Pending : /\ Kind[e] = "event" /\ Room[e] = Room[d]
                          /\ Key[e] = Key[d] /\ Version[e] > Version[d]

\* A line of the log that settles a delivery.
Settle(D, how) == settled' = [d \in Deliveries |-> IF d \in D THEN how ELSE settled[d]]

\* deliver(): a delivery that is settled, queued or being sent is left alone.
Enqueue(D, q) == q \cup {d \in D : settled'[d] = "none" /\ d # job'.d}

StageBegin(d) ==
    /\ up /\ op = NoOp
    /\ calls[d] < MaxCalls[d]
    /\ calls' = [calls EXCEPT ![d] = @ + 1]
    /\ op' = [d |-> d, gone |-> {},
              pc |-> IF d \in Range(staged) THEN "return" ELSE "supersede"]
    /\ UNCHANGED <<staged, settled, published, late, up, provisioning, queue, job,
                   timers, waiting, fails, crashes>>

StageSupersede ==
    /\ op.pc = "supersede"
    /\ \E e \in Older(op.d) :
         /\ Settle({e}, "superseded")
         /\ op' = [op EXCEPT !.gone = @ \cup {e}]
    /\ UNCHANGED <<staged, published, late, calls, up, provisioning, queue, job,
                   timers, waiting, fails, crashes>>

StageAppend ==
    /\ op.pc = "supersede" /\ Older(op.d) = {}
    /\ staged' = Append(staged, op.d)
    /\ op' = [op EXCEPT !.pc = IF ObsoleteOnArrival(op.d) THEN "obsolete" ELSE "return"]
    /\ UNCHANGED <<settled, published, late, calls, up, provisioning, queue, job,
                   timers, waiting, fails, crashes>>

StageObsolete ==
    /\ op.pc = "obsolete"
    /\ Settle({op.d}, "superseded")
    /\ op' = [op EXCEPT !.pc = "return", !.gone = @ \cup {op.d}]
    /\ UNCHANGED <<staged, published, late, calls, up, provisioning, queue, job,
                   timers, waiting, fails, crashes>>

\* stageEvent and enqueueEvent after stage(): rejectSupersededConfirmations,
\* then confirmationFor and deliver, unless the event was obsolete itself.
StageReturn ==
    /\ op.pc = "return"
    /\ UNCHANGED <<log, job>>
    /\ waiting' = (waiting \ op.gone)
                    \cup (IF op.d \in op.gone \cup Delivered THEN {} ELSE {op.d})
    /\ queue' = Enqueue({op.d} \ op.gone, queue \ op.gone)
    /\ op' = NoOp
    /\ UNCHANGED <<published, late, calls, up, provisioning, timers, fails, crashes>>
-----------------------------------------------------------------------------
(***************************************************************************)
(* provisionProject: classifyPendingEvents, then retryPending of the room. *)
(***************************************************************************)

\* classifyMany compares the pending events of every room by key alone.
NotNewest ==
    {d \in Pending : /\ Kind[d] = "event" /\ Key[d] # NoKey
                     /\ \E e \in Pending : /\ Kind[e] = "event" /\ Key[e] = Key[d]
                                           /\ Version[e] > Version[d]}

RetryPending(r, q) == Enqueue({d \in Pending : Room[d] = r}, q)

\* Startup that classifies the backlog and leaves it to the next failure.
ProvisionWithoutRetry(r) ==
    /\ up /\ op = NoOp /\ r \in provisioning
    /\ provisioning' = provisioning \ {r}
    /\ Settle(NotNewest, "superseded")
    /\ waiting' = waiting \ NotNewest
    /\ queue' = queue \ NotNewest
    /\ UNCHANGED <<staged, published, late, calls, up, op, job, timers, fails, crashes>>

\* Without an active device nothing is classified.  An error on the way makes
\* start() fail, which is a Crash.
Provision(r) ==
    /\ up /\ op = NoOp /\ r \in provisioning
    /\ provisioning' = provisioning \ {r}
    /\ UNCHANGED job
    /\ \E gone \in {NotNewest, {}} :
         /\ Settle(gone, "superseded")
         /\ waiting' = waiting \ gone
         /\ queue' = RetryPending(r, queue \ gone)
    /\ UNCHANGED <<staged, published, late, calls, up, op, timers, fails, crashes>>
-----------------------------------------------------------------------------
(***************************************************************************)
(* The pump.                                                               *)
(***************************************************************************)

StagedAt(d) == CHOOSE i \in DOMAIN staged : staged[i] = d

\* compareDeliveryJobs
Before(d, e) == \/ Priority[d] < Priority[e]
                \/ Priority[d] = Priority[e] /\ StagedAt(d) <= StagedAt(e)

PumpTake ==
    /\ up /\ job = NoJob /\ queue # {}
    /\ \E d \in queue :
         /\ \A e \in queue : Before(d, e)
         /\ queue' = queue \ {d}
         /\ job' = IF d \in Pending THEN [d |-> d, pc |-> "sending"] ELSE NoJob
    /\ UNCHANGED <<log, published, late, calls, up, provisioning, op, timers,
                   waiting, fails, crashes>>

\* The homeserver accepts the request; the answer is still to come.
Lands ==
    /\ job.pc = "sending"
    /\ published' = published \cup {job.d}
    /\ job' = [job EXCEPT !.pc = "landed"]
    /\ UNCHANGED <<log, late, calls, up, provisioning, op, queue, timers, waiting,
                   fails, crashes>>

\* A failure that keeps a timer for its own room only.
AttemptFailsAlone ==
    /\ job.pc \in {"sending", "landed"} /\ fails < MaxFails
    /\ fails' = fails + 1
    /\ timers' = timers \cup {Room[job.d]}
    /\ queue' = {} /\ job' = NoJob
    /\ UNCHANGED <<log, published, late, calls, up, provisioning, op, waiting, crashes>>

\* An attempt fails or times out; the server may complete it later.  The pump
\* pauses every queued job and leaves a timer for each of their rooms.
AttemptFails ==
    /\ job.pc \in {"sending", "landed"} /\ fails < MaxFails
    /\ fails' = fails + 1
    /\ \E reached \in BOOLEAN :
         late' = IF reached /\ job.pc = "sending" THEN late \cup {job.d} ELSE late
    /\ timers' = timers \cup {Room[d] : d \in queue \cup {job.d}}
    /\ queue' = {} /\ job' = NoJob
    /\ UNCHANGED <<log, published, calls, up, provisioning, op, waiting, crashes>>

LateLands(d) ==
    /\ d \in late
    /\ late' = late \ {d} /\ published' = published \cup {d}
    /\ UNCHANGED <<log, calls, up, provisioning, op, queue, job, timers, waiting,
                   fails, crashes>>

\* markDelivered, resolveConfirmation, finishDeliveryJob.
MarkDelivered ==
    /\ job.pc = "landed" /\ op = NoOp
    /\ Settle({job.d} \cap Pending, "delivered")
    /\ waiting' = waiting \ {job.d}
    /\ job' = NoJob
    /\ UNCHANGED <<staged, published, late, calls, up, provisioning, op, queue,
                   timers, fails, crashes>>

\* A refusal recorded with a status the log's parser does not know.
RefusedUnknown ==
    /\ job.pc = "sending" /\ job.d \in Refusable /\ op = NoOp
    /\ Settle({job.d} \cap Pending, "refused")
    /\ waiting' = waiting \ {job.d}
    /\ job' = NoJob
    /\ UNCHANGED <<staged, published, late, calls, up, provisioning, op, queue,
                   timers, fails, crashes>>

\* isPermanentMatrixDeliveryError, then supersedePermanentDelivery.
Refused ==
    /\ job.pc = "sending" /\ job.d \in Refusable /\ op = NoOp
    /\ Settle({job.d} \cap Pending, "superseded")
    /\ waiting' = waiting \ {job.d}
    /\ job' = NoJob
    /\ UNCHANGED <<staged, published, late, calls, up, provisioning, op, queue,
                   timers, fails, crashes>>

\* An echo that settles the log and not the confirmation.
EchoUnconfirmed(d) ==
    /\ up /\ op = NoOp
    /\ d \in published \cap Pending /\ Kind[d] = "event"
    /\ Settle({d}, "delivered")
    /\ queue' = queue \ {d}
    /\ UNCHANGED <<staged, published, late, calls, up, provisioning, op, job,
                   timers, waiting, fails, crashes>>

\* confirmTimelineDelivery: the room's own echo settles the delivery.
Echo(d) ==
    /\ up /\ op = NoOp
    /\ d \in published \cap Pending /\ Kind[d] = "event"
    /\ Settle({d}, "delivered")
    /\ waiting' = waiting \ {d}
    /\ queue' = queue \ {d}
    /\ UNCHANGED <<staged, published, late, calls, up, provisioning, op, job,
                   timers, fails, crashes>>

RetryTimer(r) ==
    /\ up /\ r \in timers
    /\ timers' = timers \ {r}
    /\ UNCHANGED <<log, job>>
    /\ queue' = RetryPending(r, queue)
    /\ UNCHANGED <<published, late, calls, up, provisioning, op, waiting, fails,
                   crashes>>
-----------------------------------------------------------------------------
\* The process dies between any two appends; a request may have been sent.
Crash ==
    /\ up /\ crashes < MaxCrashes
    /\ crashes' = crashes + 1
    /\ up' = FALSE /\ op' = NoOp
    /\ late' = IF job.pc = "sending" THEN late \cup {job.d} ELSE late
    /\ queue' = {} /\ job' = NoJob /\ timers' = {} /\ waiting' = {}
    /\ provisioning' = {}
    /\ UNCHANGED <<log, published, calls, fails>>

\* initialize(), then start() provisions its rooms.
Start ==
    /\ ~up
    /\ up' = TRUE /\ provisioning' = Rooms
    /\ UNCHANGED <<log, published, late, calls, op, queue, job, timers, waiting,
                   fails, crashes>>

StageStep == StageSupersede \/ StageAppend \/ StageObsolete \/ StageReturn
Attempt == Lands \/ Refused \/ AttemptFails

Next ==
    \/ \E d \in Deliveries : StageBegin(d) \/ LateLands(d) \/ Echo(d)
    \/ StageStep
    \/ \E r \in Rooms : Provision(r) \/ RetryTimer(r)
    \/ PumpTake \/ Attempt \/ MarkDelivered
    \/ Crash \/ Start

Spec == Init /\ [][Next]_vars

\* The event loop runs what is ready and the timers, requests end (the
\* attempt's own timeout), and the service manager restarts the Gateway.
\* That a failing homeserver recovers is the bound MaxFails.
FairSpec ==
    /\ Spec
    /\ WF_vars(StageStep) /\ WF_vars(PumpTake)
    /\ WF_vars(Attempt) /\ WF_vars(MarkDelivered)
    /\ \A r \in Rooms : WF_vars(Provision(r)) /\ WF_vars(RetryTimer(r))
    /\ WF_vars(Start)
-----------------------------------------------------------------------------
TypeOK ==
    /\ staged \in Seq(Deliveries)
    /\ settled \in [Deliveries -> {"none", "delivered", "superseded"}]
    /\ published \subseteq Deliveries /\ late \subseteq Deliveries
    /\ calls \in [Deliveries -> Nat]
    /\ up \in BOOLEAN /\ provisioning \subseteq Rooms
    /\ op \in [d: Deliveries \cup {NoDelivery}, gone: SUBSET Deliveries,
               pc: {"none", "supersede", "obsolete", "return"}]
    /\ queue \subseteq Deliveries /\ timers \subseteq Rooms
    /\ waiting \subseteq Deliveries
    /\ job \in [d: Deliveries \cup {NoDelivery}, pc: {"none", "sending", "landed"}]
    /\ fails \in Nat /\ crashes \in Nat

\* "Pausing another room must retain a wake-up for its durable WAL"
\* (pauseQueuedAttempts): a pending delivery is queued, being sent, awaited by
\* its room's timer, about to be queued by its stage() call, or will be found
\* when its room is provisioned.
NoStrandedDelivery ==
    \A d \in Pending : up =>
        \/ d \in queue \/ d = job.d \/ d = op.d
        \/ Room[d] \in timers \cup provisioning

\* Every delivery the log holds is settled in the end, over failed attempts
\* and crashes.
EveryDeliverySettles ==
    \A d \in Deliveries : (d \in Pending) ~> (settled[d] # "none")

\* The handle enqueueEvent returns for a pending delivery does not stay open:
\* any retry, echo, refusal or supersession settles it.
EveryConfirmationSettles ==
    \A d \in Deliveries : (d \in waiting \cap Pending) ~> (d \notin waiting)

\* Sent events are newer versions of one document of one room.
Replaces(e, d) ==
    /\ Room[e] = Room[d] /\ Kind[e] = Kind[d] /\ Key[e] = Key[d] /\ Key[d] # NoKey
    /\ Kind[d] = "event" => Version[e] > Version[d]

\* The log with its pump implements the promise of DurableOutbox, over every
\* crash: stage() settles the old versions before it appends the new one, so
\* what replaces an entry is offered, and not always accepted.
Promise == INSTANCE DurableOutbox WITH
    offered <- {d \in Deliveries : calls[d] > 0},
    held <- Pending, recorded <- Delivered, dropped <- Superseded

KeepsPromise == Promise!Spec

\* "the scheduler preserves their enqueue order" (eventDeliveryMetadata): of
\* two events of a room and priority the one staged first is published first.
PublishedInOrder ==
    [][\A d, e \in Deliveries :
         /\ d \in published' \ published
         /\ e \in Pending \ published
         /\ Room[d] = Room[e] /\ Priority[d] = Priority[e]
         => StagedAt(d) <= StagedAt(e)]_vars
=============================================================================
