----------------------- MODULE CommandPipeline_proofs -----------------------
(***************************************************************************)
(* Safety of CommandPipeline: the journal only moves forward, no terminal  *)
(* event precedes its durable terminal, every execution is journaled and   *)
(* none is repeated by a later process.                                    *)
(***************************************************************************)
EXTENDS CommandPipeline_types

-----------------------------------------------------------------------------
(***************************************************************************)
(* The journal.                                                            *)
(***************************************************************************)

\* Every method of the journal moves a row forward.
LEMMA RowMethodsForward ==
    ASSUME NEW row \in SoundRow, NEW term \in Terms
    PROVE  /\ RowForward(row, row)
           /\ RowForward(row, Claimed(row))
           /\ RowForward(row, MarkedDispatched(row))
           /\ RowForward(row, Settled(row, term))
           /\ ~DeliveredThrows(row, term) => RowForward(row, MarkedDelivered(row, term))
  BY DEF SoundRow, Row, Statuses, Terms, RowForward, StatusRank, Claimed,
         MarkedDispatched, Settled, DeliveredThrows, MarkedDelivered

\* The journal as a whole.
Forward == \A c \in Commands : RowForward(journal[c], journal'[c])

\* A step that leaves the journal alone moves no row back.
LEMMA JournalKept ==
    ASSUME Typed, UNCHANGED journal
    PROVE  Forward
  <1> SUFFICES ASSUME NEW c \in Commands
               PROVE  RowForward(journal[c], journal[c])
    BY DEF Forward
  <1>1. journal[c] \in SoundRow /\ "failed" \in Terms
    BY DEF Typed, JournalT, Terms
  <1> QED
    BY <1>1, RowMethodsForward

\* Neither does one that moves one row forward.
LEMMA RowChanged ==
    ASSUME Typed, NEW c \in Commands, NEW row, RowForward(journal[c], row),
           journal' = [journal EXCEPT ![c] = row]
    PROVE  Forward
  <1> SUFFICES ASSUME NEW d \in Commands
               PROVE  RowForward(journal[d], journal'[d])
    BY DEF Forward
  <1>1. journal[d] \in SoundRow /\ "failed" \in Terms
    BY DEF Typed, JournalT, Terms
  <1>2. RowForward(journal[d], journal[d])
    BY <1>1, RowMethodsForward
  <1> QED
    BY <1>2 DEF Typed, JournalT

\* settle() moves its row forward.
LEMMA StoreForward ==
    ASSUME Typed, NEW c \in Commands, NEW term \in Terms, Store(c, term)
    PROVE  Forward
  <1>1. journal[c] \in SoundRow
    BY DEF Typed, JournalT
  <1> QED
    BY <1>1, RowMethodsForward, RowChanged DEF Store

\* Every step of the event handler moves the journal forward.
LEMMA HandlerForward ==
    ASSUME Typed, HandlerNext
    PROVE  Forward
  <1>1. CASE ClaimEvent
    <2> DEFINE c == arrived[Head(queue)]
    <2>1. c \in Commands
      <3>1. queue # <<>> /\ queue \in Seq(Nat) /\ arrived \in Seq(Commands)
        BY <1>1 DEF ClaimEvent, Typed, QueueT
      <3>2. Head(queue) \in DOMAIN arrived
        BY <3>1, SeqHeadTail DEF Typed, QueueT
      <3> QED
        BY <3>1, <3>2, SeqElement
    <2>2. journal[c] \in SoundRow /\ "failed" \in Terms
      BY <2>1 DEF Typed, JournalT, Terms
    <2>3. RowForward(journal[c], Claimed(journal[c]))
      BY <2>2, RowMethodsForward
    <2>4. UNCHANGED journal \/ journal' = [journal EXCEPT ![c] = Claimed(journal[c])]
      BY <1>1 DEF ClaimEvent
    <2> HIDE DEF c
    <2> QED
      BY <2>1, <2>3, <2>4, JournalKept, RowChanged
  <1>2. ASSUME NEW term \in Terms, HandlerSettles(term), handler.pc # "idle"
        PROVE  Forward
    <2>1. HandledCommand \in Commands
      BY <1>2, HandledTyped
    <2>2. Store(HandledCommand, term) \/ UNCHANGED journal
      BY <1>2 DEF HandlerSettles
    <2> QED
      BY <2>1, <2>2, StoreForward, JournalKept
  <1>3. CASE HandleFenced \/ HandleRejected
    BY <1>2, <1>3 DEF HandleFenced, HandleRejected, Deciding, Terms
  <1>4. CASE Reconcile \/ HandleTerminal \/ HandleActive \/ HandleDeferred
             \/ HandleSchedule \/ HandlerStages \/ CompleteEvent
    BY <1>4, JournalKept
    DEF Reconcile, HandleTerminal, HandleActive, HandleDeferred,
        HandleSchedule, HandlerStages, CompleteEvent
  <1> QED
    BY <1>1, <1>3, <1>4 DEF HandlerNext

\* Every step of a task moves the journal forward.
LEMMA TaskForward ==
    ASSUME Typed, NEW t \in DOMAIN tasks, TaskNext(t)
    PROVE  Forward
  <1>1. tasks[t] \in Task /\ tasks[t].cmd \in Commands
    BY TaskTyped
  <1>2. ASSUME NEW term \in Terms, NEW allow, NEW onThrow,
               TaskSettles(t, term, allow, onThrow)
        PROVE  Forward
    <2>1. Store(tasks[t].cmd, term) \/ UNCHANGED journal
      BY <1>2 DEF TaskSettles
    <2> QED
      BY <1>1, <2>1, StoreForward, JournalKept
  <1>3. CASE Complete(t) \/ Fail(t) \/ FailExpired(t)
    BY <1>2, <1>3 DEF Complete, Fail, FailExpired, Terms
  <1>4. CASE Dispatch(t)
    <2>1. journal[tasks[t].cmd] \in SoundRow /\ "failed" \in Terms
      BY <1>1 DEF Typed, JournalT, Terms
    <2>2. RowForward(journal[tasks[t].cmd], MarkedDispatched(journal[tasks[t].cmd]))
      BY <2>1, RowMethodsForward
    <2>3. \/ UNCHANGED journal
          \/ journal' = [journal EXCEPT
                           ![tasks[t].cmd] = MarkedDispatched(journal[tasks[t].cmd])]
      BY <1>4 DEF Dispatch
    <2> QED
      BY <1>1, <2>2, <2>3, JournalKept, RowChanged
  <1>5. CASE SettleCancellation(t)
    <2>1. /\ TaskLinked(tasks[t], Len(tasks)) /\ tasks[t].pc = "cancelling"
          /\ DOMAIN tasks = 1..Len(tasks)
      BY <1>5, TaskTyped DEF SettleCancellation, At
    <2>2. tasks[tasks[t].watch].cmd \in Commands
      BY <2>1, TaskTyped DEF TaskLinked
    <2>3. Store(tasks[tasks[t].watch].cmd, "cancelled") \/ UNCHANGED journal
      BY <1>5 DEF SettleCancellation
    <2> QED
      BY <2>2, <2>3, StoreForward, JournalKept DEF Terms
  <1>6. CASE Begin(t) \/ StartAgent(t) \/ Throw(t) \/ InterruptBatch(t)
             \/ Deadline(t) \/ Persist(t) \/ Stage(t) \/ Confirmed(t)
             \/ CancelTurn(t) \/ StageCancellation(t) \/ JoinCancellation(t)
    BY <1>6, JournalKept
    DEF Begin, StartAgent, Throw, InterruptBatch, Deadline, Persist, Stage,
        Confirmed, CancelTurn, StageCancellation, JoinCancellation
  <1> QED
    BY <1>3, <1>4, <1>5, <1>6 DEF TaskNext

\* Every step of a restart moves the journal forward.
LEMMA RecoveryForward ==
    ASSUME Typed, RecoveryNext
    PROVE  Forward
  <1>1. CASE RecoverDispatched
    <2>1. claims[recover.at] \in Commands
      BY <1>1, RecoveredTyped DEF RecoverDispatched, Recovering
    <2>2. \/ \E term \in {"completed", "interrupted"} : Store(claims[recover.at], term)
          \/ UNCHANGED journal
      BY <1>1 DEF RecoverDispatched
    <2> QED
      BY <2>1, <2>2, StoreForward, JournalKept DEF Terms
  <1>2. CASE Start \/ RecoverSkip \/ RecoverAccepted \/ RecoverStages
             \/ RecoverDeletions \/ DrainInbox
    BY <1>2, JournalKept
    DEF Start, RecoverSkip, RecoverAccepted, RecoverStages, RecoverDeletions,
        DrainInbox
  <1> QED
    BY <1>1, <1>2 DEF RecoveryNext

\* Every delivery step moves the journal forward.
LEMMA DeliveryForward ==
    ASSUME Typed, DeliveryNext
    PROVE  Forward
  <1>1. ASSUME NEW e \in watching, ConfirmDelivery(e) PROVE Forward
    <2>1. e.cmd \in Commands /\ e.term \in Terms
      BY DEF Typed, RoomT, Callback
    <2>2. journal[e.cmd] \in SoundRow
      BY <2>1 DEF Typed, JournalT
    <2>3. \/ UNCHANGED journal
          \/ /\ ~DeliveredThrows(journal[e.cmd], e.term)
             /\ journal' = [journal EXCEPT
                              ![e.cmd] = MarkedDelivered(journal[e.cmd], e.term)]
      BY <1>1 DEF ConfirmDelivery
    <2> QED
      BY <2>1, <2>2, <2>3, RowMethodsForward, RowChanged, JournalKept
  <1>2. CASE \/ \E e \in outbox : Send(e) \/ Supersede(e)
             \/ \E e \in watching : FinalizeDeletion(e) \/ RedeliveryFails(e)
    BY <1>2, JournalKept DEF Send, Supersede, FinalizeDeletion, RedeliveryFails
  <1> QED
    BY <1>1, <1>2 DEF DeliveryNext

\* Every step of the pipeline moves the journal forward.
LEMMA NextForward == Typed /\ [Next]_vars => Forward
  <1> SUFFICES ASSUME Typed, [Next]_vars
               PROVE  Forward
    OBVIOUS
  <1>1. CASE UNCHANGED vars
    BY <1>1, JournalKept DEF vars
  <1>2. CASE \/ \E c \in Commands : Receive(c)
             \/ \E z \in expired : LateEnd(z)
             \/ DeploymentNext \/ Crash \/ Distrust
    BY <1>2, JournalKept
    DEF Receive, LateEnd, DeploymentNext, SealBegin, Seal, SealFail,
        ResumeDeferred, SealStop, Stop, Stopped, Crash, Halt, Distrust, sealFrame
  <1> QED
    BY <1>1, <1>2, HandlerForward, TaskForward, RecoveryForward, DeliveryForward
    DEF Next

\* The command journal is a ratchet: whatever duplicates, cancellations,
\* deadlines, recoveries and confirmations race, no row loses its terminal or
\* its confirmation and none moves back.
THEOREM JournalNeverGoesBack == Spec => JournalForward
  <1>1. Spec => []Typed
    BY InitTyped, NextTyped, PTL DEF Spec
  <1>2. Typed /\ [Next]_vars => [\A c \in Commands : RowForward(journal[c], journal'[c])]_vars
    BY NextForward DEF Forward
  <1> QED
    BY <1>1, <1>2, PTL DEF Spec, JournalForward

-----------------------------------------------------------------------------
(***************************************************************************)
(* Executions and events.  The properties speak of the durable journal and *)
(* of what happened; a step decides from what the process remembers: the   *)
(* row read at the claim, the snapshot of recovery, a task, a deferred     *)
(* command.  The invariant says what each of these memories still knows of *)
(* the journal by the time it is used.                                     *)
(***************************************************************************)

Known(c) == journal[c].status # "none"
Begun(c) == journal[c].status \in {"dispatched", "terminal"}
Ended(c) == journal[c].status = "terminal"

\* The event handler: its command is claimed, one it read as accepted was not
\* executed by an earlier process, and the event it stages is settled.
HandlerS ==
    handler.pc # "idle" =>
        /\ handler.pc \in {"reconcile", "decide"} => Known(HandledCommand)
        /\ handler.pc \in {"reconcile", "decide"} /\ handler.snap.status = "accepted"
             => HandledCommand \notin past
        /\ handler.pc = "staging" => Ended(HandledCommand)

\* What the journal holds for a task at each of its steps.
Backed(task) ==
    /\ task.pc \in {"dispatched", "executing"} => Begun(task.cmd)
    /\ task.pc = "staging" => Ended(task.cmd)
    /\ task.pc = "cancelstaging" => Ended(tasks[task.watch].cmd)

\* A task is of a claimed command that no earlier process has executed,
\* unless it is a batch, which resumes.
TaskS ==
    \A t \in DOMAIN tasks :
        /\ Known(tasks[t].cmd)
        /\ tasks[t].cmd \in past => Op[tasks[t].cmd] = "batch"
        /\ Backed(tasks[t])

RecoverS ==
    /\ \A c \in Commands :
         /\ recover.snap[c].status # "none" => Known(c)
         /\ recover.snap[c].status = "accepted" => c \notin past
    /\ recover.term # "none" => Ended(claims[recover.at])

DeferredS ==
    \A i \in DOMAIN deferred : Known(deferred[i]) /\ deferred[i] \notin past

Safe ==
    /\ HandlerS /\ TaskS /\ RecoverS /\ DeferredS
    /\ TerminalBeforeEvent /\ ExecutionIsJournaled /\ NoReplayAfterRestart

\* The invariant holds when nothing has arrived.
LEMMA InitSafe == Init => Safe
  BY DEF Init, Safe, HandlerS, TaskS, RecoverS, DeferredS, TerminalBeforeEvent,
         ExecutionIsJournaled, NoReplayAfterRestart, IdleHandler, NoRecovery, NoRow

\* What is known of a row stays known.
LEMMA KnowledgeKept ==
    ASSUME Typed, Typed', Forward, NEW c \in Commands
    PROVE  /\ Known(c) => Known(c)'
           /\ Begun(c) => Begun(c)'
           /\ Ended(c) => Ended(c)'
  <1>1. journal[c].status \in Statuses /\ journal'[c].status \in Statuses
    BY DEF Typed, JournalT, SoundRow, Row
  <1>2. RowForward(journal[c], journal'[c])
    BY DEF Forward
  <1> QED
    BY <1>1, <1>2 DEF Known, Begun, Ended, RowForward, StatusRank, Statuses

\* What a step leaves alone stays safe, since the journal moves forward.
LEMMA SafeFrames ==
    ASSUME Typed, Typed', Safe, Forward, UNCHANGED past
    PROVE  /\ UNCHANGED <<handler, queue, arrived>> => HandlerS'
           /\ UNCHANGED tasks => TaskS'
           /\ UNCHANGED <<recover, claims>> => RecoverS'
           /\ UNCHANGED deferred => DeferredS'
           /\ UNCHANGED <<outbox, published, watching>> => TerminalBeforeEvent'
           /\ UNCHANGED now => ExecutionIsJournaled' /\ NoReplayAfterRestart'
  <1>1. ASSUME UNCHANGED <<handler, queue, arrived>> PROVE HandlerS'
    <2>1. CASE handler.pc = "idle"
      BY <1>1, <2>1 DEF HandlerS
    <2>2. CASE handler.pc # "idle"
      <3>1. HandledCommand \in Commands /\ HandledCommand' = HandledCommand
        BY <1>1, <2>2, HandledTyped DEF HandledCommand
      <3> QED
        BY <1>1, <2>2, <3>1, KnowledgeKept DEF Safe, HandlerS, Known, Ended
    <2> QED
      BY <2>1, <2>2
  <1>2. ASSUME UNCHANGED tasks PROVE TaskS'
    <2> SUFFICES ASSUME NEW t \in DOMAIN tasks
                 PROVE  /\ Known(tasks[t].cmd)'
                        /\ tasks[t].cmd \in past => Op[tasks[t].cmd] = "batch"
                        /\ Backed(tasks[t])'
      BY <1>2 DEF TaskS
    <2>1. /\ tasks[t].cmd \in Commands /\ TaskLinked(tasks[t], Len(tasks))
          /\ DOMAIN tasks = 1..Len(tasks)
      BY TaskTyped
    <2>2. tasks[t].pc = "cancelstaging" => tasks[tasks[t].watch].cmd \in Commands
      BY <2>1, TaskTyped DEF TaskLinked
    <2>3. /\ Known(tasks[t].cmd) /\ Backed(tasks[t])
          /\ tasks[t].cmd \in past => Op[tasks[t].cmd] = "batch"
      BY DEF Safe, TaskS
    <2> QED
      BY <1>2, <2>1, <2>2, <2>3, KnowledgeKept DEF Backed, Known, Begun, Ended
  <1>3. ASSUME UNCHANGED <<recover, claims>> PROVE RecoverS'
    <2>1. recover.term # "none" => claims[recover.at] \in Commands
      BY RecoveredTyped DEF Typed, RecoverT
    <2> QED
      BY <1>3, <2>1, KnowledgeKept DEF Safe, RecoverS, Known, Ended
  <1>4. ASSUME UNCHANGED deferred PROVE DeferredS'
    <2>1. \A i \in DOMAIN deferred : deferred[i] \in Commands
      BY SeqElement DEF Typed, LifeT
    <2> QED
      BY <1>4, <2>1, KnowledgeKept DEF Safe, DeferredS, Known
  <1>5. ASSUME UNCHANGED <<outbox, published, watching>> PROVE TerminalBeforeEvent'
    <2>1. \A e \in outbox \cup published \cup watching : e.cmd \in Commands
      BY DEF Typed, RoomT, Event, Callback
    <2> QED
      BY <1>5, <2>1, KnowledgeKept DEF Safe, TerminalBeforeEvent, Ended
  <1>6. ASSUME UNCHANGED now PROVE ExecutionIsJournaled' /\ NoReplayAfterRestart'
    BY <1>6, KnowledgeKept
    DEF Safe, ExecutionIsJournaled, NoReplayAfterRestart, Begun
  <1> QED
    BY <1>1, <1>2, <1>3, <1>4, <1>5, <1>6

\* Staging the event of a settled command.
LEMMA StageSafe ==
    ASSUME Typed, Typed', Safe, Forward, UNCHANGED published,
           NEW e \in Event, Ended(e.cmd), NEW once \in BOOLEAN, StageEvent(e, once)
    PROVE  TerminalBeforeEvent'
  <1>1. \A f \in outbox' \cup published' \cup watching' : f.cmd \in Commands
    BY DEF Typed, RoomT, Event, Callback
  <1>2. \A f \in outbox' \cup published' \cup watching' : Ended(f.cmd)
    BY DEF Safe, TerminalBeforeEvent, StageEvent, CallbackFor, Ended
  <1> QED
    BY <1>1, <1>2, KnowledgeKept DEF TerminalBeforeEvent, Ended

\* The same for a delivery whose staging may fail or that is obsolete already.
LEMMA DeliverSafe ==
    ASSUME Typed, Typed', Safe, Forward, UNCHANGED <<published, past>>,
           NEW e \in Event, Ended(e.cmd), Deliver(e)
    PROVE  TerminalBeforeEvent'
  BY StageSafe, SafeFrames DEF Deliver, ObsoleteOnArrival

\* Each task keeps its command and either its step or takes a new one that is
\* backed by the journal.
Silent == TaskPcs \ {"dispatched", "executing", "staging", "cancelstaging"}

\* Tasks that keep their step, or take one the journal backs, are safe.
LEMMA TasksSafe ==
    ASSUME Typed, Typed', Safe, Forward, UNCHANGED past,
           DOMAIN tasks' = DOMAIN tasks,
           \A u \in DOMAIN tasks : tasks'[u].cmd = tasks[u].cmd,
           \A u \in DOMAIN tasks :
              \/ tasks'[u].pc = tasks[u].pc /\ tasks'[u].watch = tasks[u].watch
              \/ tasks'[u].pc \in Silent
              \/ Backed(tasks[u])'
    PROVE  TaskS'
  <1> SUFFICES ASSUME NEW t \in DOMAIN tasks
               PROVE  /\ Known(tasks[t].cmd)'
                      /\ tasks'[t].cmd \in past => Op[tasks'[t].cmd] = "batch"
                      /\ Backed(tasks[t])'
    BY DEF TaskS
  <1>1. /\ tasks[t].cmd \in Commands /\ TaskLinked(tasks[t], Len(tasks))
        /\ DOMAIN tasks = 1..Len(tasks)
    BY TaskTyped
  <1>2. /\ Known(tasks[t].cmd) /\ Backed(tasks[t])
        /\ tasks[t].cmd \in past => Op[tasks[t].cmd] = "batch"
    BY DEF Safe, TaskS
  <1>3. Known(tasks[t].cmd)'
    BY <1>1, <1>2, KnowledgeKept DEF Known
  <1>4. Backed(tasks[t])'
    <2>1. CASE tasks'[t].pc = tasks[t].pc /\ tasks'[t].watch = tasks[t].watch
      <3>1. tasks[t].pc = "cancelstaging" =>
              /\ tasks[t].watch \in DOMAIN tasks
              /\ tasks[tasks[t].watch].cmd \in Commands
        BY <1>1, TaskTyped DEF TaskLinked
      <3> QED
        BY <1>1, <1>2, <2>1, <3>1, KnowledgeKept DEF Backed, Begun, Ended
    <2>2. CASE tasks'[t].pc \in Silent
      BY <2>2 DEF Backed, Silent
    <2> QED
      BY <2>1, <2>2
  <1> QED
    BY <1>2, <1>3, <1>4

\* The shape of a task's move.
LEMMA AdvanceShape ==
    ASSUME Typed, NEW t \in DOMAIN tasks, NEW pc \in TaskPcs, Advance(t, pc)
    PROVE  /\ DOMAIN tasks' = DOMAIN tasks
           /\ \A u \in DOMAIN tasks : tasks'[u].cmd = tasks[u].cmd
           /\ \A u \in DOMAIN tasks : u # t => tasks'[u] = tasks[u]
           /\ tasks'[t].pc = pc
  <1>1. tasks[t] \in Task
    BY TaskTyped
  <1>2. /\ DoneTask(tasks[t]).pc = "done"
        /\ DoneTask(tasks[t]).cmd = tasks[t].cmd
    BY DEF DoneTask, NewTask
  <1>3. /\ [tasks[t] EXCEPT !.pc = pc].pc = pc
        /\ [tasks[t] EXCEPT !.pc = pc].cmd = tasks[t].cmd
    BY <1>1 DEF Task
  <1>4. PICK task : /\ tasks' = [tasks EXCEPT ![t] = task]
                    /\ task.pc = pc /\ task.cmd = tasks[t].cmd
    BY <1>2, <1>3 DEF Advance
  <1> QED
    BY <1>4

\* A task that moves to a step nothing is said about is safe.
LEMMA AdvanceSafe ==
    ASSUME Typed, Typed', Safe, Forward, UNCHANGED past,
           NEW t \in DOMAIN tasks, NEW pc \in Silent, Advance(t, pc)
    PROVE  TaskS'
  <1>1. pc \in TaskPcs
    BY DEF Silent
  <1> QED
    BY <1>1, AdvanceShape, TasksSafe

\* A new task of a claimed command that is not of the past, or of a batch.
LEMMA ScheduleSafe ==
    ASSUME Typed, Typed', Safe, Forward, UNCHANGED <<past, journal>>,
           NEW c \in Commands, Schedule(c), Known(c),
           c \in past => Op[c] = "batch"
    PROVE  TaskS'
  <1> DEFINE new == NewTask(c, Waits(c))
  <1>1. tasks \in Seq(Task) /\ tasks' = Append(tasks, new) /\ tasks' \in Seq(Task)
    BY DEF Schedule, Typed, TasksT
  <1>2. new.cmd = c /\ new.pc = "queued"
    BY DEF NewTask
  <1> HIDE DEF new
  <1>3. /\ DOMAIN tasks = 1..Len(tasks) /\ Len(tasks) \in Nat
        /\ DOMAIN tasks' = 1..(Len(tasks) + 1)
        /\ \A i \in 1..Len(tasks) : tasks'[i] = tasks[i]
        /\ tasks'[Len(tasks) + 1] = new
    BY <1>1
  <1> SUFFICES ASSUME NEW t \in DOMAIN tasks'
               PROVE  /\ Known(tasks[t].cmd)'
                      /\ tasks'[t].cmd \in past => Op[tasks'[t].cmd] = "batch"
                      /\ Backed(tasks[t])'
    BY DEF TaskS
  <1>4. CASE t = Len(tasks) + 1
    BY <1>2, <1>3, <1>4 DEF Known, Backed
  <1>5. CASE t \in DOMAIN tasks
    <2>1. TaskLinked(tasks[t], Len(tasks))
      BY <1>5, TaskTyped
    <2>2. /\ Known(tasks[t].cmd) /\ Backed(tasks[t])
          /\ tasks[t].cmd \in past => Op[tasks[t].cmd] = "batch"
      BY <1>5 DEF Safe, TaskS
    <2>3. tasks'[t] = tasks[t]
      BY <1>3, <1>5
    <2>4. tasks[t].pc = "cancelstaging" => tasks'[tasks[t].watch] = tasks[tasks[t].watch]
      BY <1>3, <2>1 DEF TaskLinked
    <2> QED
      BY <2>2, <2>3, <2>4 DEF Known, Backed, Begun, Ended
  <1> QED
    BY <1>3, <1>4, <1>5

-----------------------------------------------------------------------------
\* receiveEvent() appends: the event in hand stays the first.
LEMMA ReceiveSafe ==
    ASSUME Typed, Typed', Safe, Forward, NEW c \in Commands, Receive(c)
    PROVE  Safe'
  <1> USE DEF inboxVars, deliveryVars, scheduleVars, lifeVars, historyVars
  <1>1. UNCHANGED <<past, handler, journal>>
    BY DEF Receive
  <1>2. HandlerS'
    <2>1. CASE handler.pc = "idle"
      BY <1>1, <2>1 DEF HandlerS
    <2>2. CASE handler.pc # "idle"
      <3>1. /\ queue # <<>> /\ queue \in Seq(Nat) /\ arrived \in Seq(Commands)
            /\ Head(queue) \in DOMAIN arrived
        BY <2>2, HandledTyped DEF Typed, QueueT
      <3>2. arrived'[Head(queue)] = arrived[Head(queue)]
        BY <3>1 DEF Receive
      <3>3. Head(queue') = Head(queue)
        <4>1. queue' \in {queue, Append(queue, Len(arrived) + 1)}
          BY DEF Receive
        <4>2. Len(arrived) + 1 \in Nat
          BY <3>1
        <4> QED
          BY <3>1, <4>1, <4>2
      <3>4. HandledCommand' = HandledCommand
        BY <3>2, <3>3 DEF HandledCommand
      <3> QED
        BY <1>1, <2>2, <3>4 DEF Safe, HandlerS, Known, Ended
    <2> QED
      BY <2>1, <2>2
  <1> QED
    BY <1>1, <1>2, SafeFrames DEF Receive, Safe

\* A claim that reads `accepted' reads a command no process has begun.
LEMMA ClaimSafe ==
    ASSUME Typed, Typed', Safe, Forward, ClaimEvent
    PROVE  Safe'
  <1> USE DEF inboxVars, deliveryVars, scheduleVars, lifeVars, historyVars
  <1> DEFINE c == arrived[Head(queue)]
  <1>1. UNCHANGED <<past, queue, arrived, recover>>
    BY DEF ClaimEvent
  <1>2. HandledCommand' = c /\ HandledCommand = c
    BY <1>1 DEF HandledCommand
  <1>3. c \in Commands
    <2>1. queue # <<>> /\ queue \in Seq(Nat) /\ arrived \in Seq(Commands)
      BY DEF ClaimEvent, Typed, QueueT
    <2>2. Head(queue) \in DOMAIN arrived
      BY <2>1, SeqHeadTail DEF Typed, QueueT
    <2> QED
      BY <2>1, <2>2, SeqElement
  <1>4. \/ /\ handler' = [handler EXCEPT !.pc = "complete"]
           /\ UNCHANGED claims
        \/ /\ journal' = [journal EXCEPT ![c] = Claimed(@)]
           /\ claims' = claims \/ claims' = Append(claims, c)
           /\ handler'.pc \in {"reconcile", "decide"}
           /\ handler'.snap = Claimed(journal[c])
    BY DEF ClaimEvent
  <1> HIDE DEF c
  <1>5. HandlerS'
    <2>1. CASE handler' = [handler EXCEPT !.pc = "complete"]
      <3>1. handler'.pc = "complete"
        BY <2>1 DEF Typed, HandlerT, Handler
      <3> QED
        BY <3>1 DEF HandlerS
    <2>2. CASE /\ journal' = [journal EXCEPT ![c] = Claimed(@)]
               /\ handler'.pc \in {"reconcile", "decide"}
               /\ handler'.snap = Claimed(journal[c])
      <3>1. journal[c] \in SoundRow
        BY <1>3 DEF Typed, JournalT
      <3>2. journal'[c] = Claimed(journal[c])
        BY <1>3, <2>2 DEF Typed, JournalT
      <3>3. Claimed(journal[c]).status # "none"
        BY <3>1 DEF Claimed, SoundRow, Row
      <3>4. Claimed(journal[c]).status = "accepted" => ~Begun(c)
        BY <3>1 DEF Claimed, SoundRow, Row, Begun
      <3>5. c \in past => Begun(c)
        BY <1>3 DEF Safe, ExecutionIsJournaled, Begun
      <3> QED
        BY <1>1, <1>2, <2>2, <3>2, <3>3, <3>4, <3>5 DEF HandlerS, Known
    <2> QED
      BY <1>4, <2>1, <2>2
  <1>6. RecoverS'
    <2>1. claims \in Seq(Commands)
      BY DEF Typed, RecoverT
    <2>2. recover.term # "none" => /\ claims'[recover.at] = claims[recover.at]
                                   /\ claims[recover.at] \in Commands
      <3> SUFFICES ASSUME recover.term # "none"
                   PROVE  /\ claims'[recover.at] = claims[recover.at]
                          /\ claims[recover.at] \in Commands
        OBVIOUS
      <3>1. recover.at \in Nat \ {0} /\ recover.at <= Len(claims)
        BY DEF Typed, RecoverT, Recovery
      <3>2. recover.at \in 1..Len(claims)
        BY <2>1, <3>1
      <3> QED
        BY <1>3, <1>4, <2>1, <3>2
    <2> QED
      BY <1>1, <2>2, KnowledgeKept DEF Safe, RecoverS, Known, Ended
  <1> QED
    BY <1>1, <1>5, <1>6, SafeFrames DEF ClaimEvent, Safe

\* The handler has left the steps the invariant speaks about.
LEMMA HandlerCompletes ==
    ASSUME Typed, handler' = [handler EXCEPT !.pc = "complete"]
    PROVE  HandlerS'
  <1>1. handler'.pc = "complete"
    BY DEF Typed, HandlerT, Handler
  <1> QED
    BY <1>1 DEF HandlerS

\* settleAndDeliver() of the handler: settled, then staged.
LEMMA HandlerSettlesSafe ==
    ASSUME Typed, Typed', Safe, Forward, handler.pc # "idle",
           NEW term \in Terms, HandlerSettles(term)
    PROVE  Safe'
  <1> USE DEF inboxVars, deliveryVars, scheduleVars, lifeVars, historyVars
  <1>1. UNCHANGED <<past, queue, arrived>>
    BY DEF HandlerSettles
  <1>2. HandledCommand' = HandledCommand /\ HandledCommand \in Commands
    BY <1>1, HandledTyped DEF HandledCommand
  <1>3. \/ /\ Store(HandledCommand, term)
           /\ handler' = [handler EXCEPT !.pc = "staging", !.term = term]
        \/ handler' = [handler EXCEPT !.pc = "complete"]
    BY DEF HandlerSettles
  <1>4. HandlerS'
    <2>1. CASE /\ Store(HandledCommand, term)
               /\ handler' = [handler EXCEPT !.pc = "staging", !.term = term]
      <3>1. handler'.pc = "staging"
        BY <2>1 DEF Typed, HandlerT, Handler
      <3>2. journal[HandledCommand] \in SoundRow
        BY <1>2 DEF Typed, JournalT
      <3>3. journal'[HandledCommand] = Settled(journal[HandledCommand], term)
        BY <1>2, <2>1 DEF Store, Typed, JournalT
      <3>4. Ended(HandledCommand)'
        BY <1>2, <3>2, <3>3 DEF Ended, Settled, SoundRow, Row
      <3> QED
        BY <3>1, <3>4 DEF HandlerS
    <2> QED
      BY <1>3, <2>1, HandlerCompletes
  <1> QED
    BY <1>1, <1>4, SafeFrames DEF HandlerSettles, Safe

\* Every step of the event handler keeps the invariant.
LEMMA HandlerSafe ==
    ASSUME Typed, Typed', Safe, Forward, HandlerNext
    PROVE  Safe'
  <1> USE DEF inboxVars, deliveryVars, scheduleVars, lifeVars, historyVars
  <1>1. CASE ClaimEvent
    BY <1>1, ClaimSafe
  <1>2. CASE Reconcile
    <2>1. UNCHANGED <<past, queue, arrived, journal>>
      BY <1>2 DEF Reconcile
    <2>2. HandlerS'
      <3>1. /\ handler'.pc = "decide" /\ handler'.snap = handler.snap
            /\ handler.pc = "reconcile"
        BY <1>2 DEF Reconcile, Typed, HandlerT, Handler
      <3>2. HandledCommand' = HandledCommand
        BY <2>1 DEF HandledCommand
      <3> QED
        BY <2>1, <3>1, <3>2 DEF Safe, HandlerS, Known, Ended
    <2> QED
      BY <1>2, <2>1, <2>2, SafeFrames DEF Reconcile, Safe
  <1>3. CASE HandleTerminal
    <2>1. HandledCommand \in Commands
      BY <1>3, HandledTyped DEF HandleTerminal, Deciding
    <2>2. HandlerS'
      BY <1>3, HandlerCompletes DEF HandleTerminal
    <2>3. UNCHANGED <<past, published>>
      BY <1>3 DEF HandleTerminal
    <2>4. TerminalBeforeEvent'
      <3>1. \/ /\ PendingDelivery(journal[HandledCommand])
               /\ StageEvent(TerminalEvent(HandledCommand), TRUE)
            \/ UNCHANGED <<outbox, watching>>
        BY <1>3 DEF HandleTerminal, Redeliver, ObsoleteOnArrival
      <3>2. ASSUME PendingDelivery(journal[HandledCommand])
            PROVE  /\ TerminalEvent(HandledCommand) \in Event
                   /\ Ended(TerminalEvent(HandledCommand).cmd)
        BY <2>1, <3>2, TerminalEventTyped DEF PendingDelivery, Ended, TerminalEvent
      <3> QED
        BY <2>3, <3>1, <3>2, StageSafe, SafeFrames
    <2> QED
      BY <1>3, <2>2, <2>3, <2>4, SafeFrames DEF HandleTerminal, Safe
  <1>4. CASE HandleFenced
    BY <1>4, HandlerSettlesSafe DEF HandleFenced, Deciding, Terms
  <1>5. CASE HandleRejected
    BY <1>5, HandlerSettlesSafe DEF HandleRejected, Deciding, Terms
  <1>6. CASE HandleActive
    <2>1. HandlerS'
      BY <1>6, HandlerCompletes DEF HandleActive
    <2> QED
      BY <1>6, <2>1, SafeFrames DEF HandleActive, Safe
  <1>7. CASE HandleDeferred
    <2>1. HandlerS' /\ UNCHANGED <<past, journal>>
      BY <1>7, HandlerCompletes DEF HandleDeferred
    <2>2. /\ HandledCommand \in Commands /\ Known(HandledCommand)
          /\ HandledCommand \notin past
      BY <1>7, HandledTyped DEF HandleDeferred, Admitted, Deciding, Safe, HandlerS
    <2>3. DeferredS'
      <3>1. deferred \in Seq(Commands)
        BY DEF Typed, LifeT
      <3>2. deferred' = deferred \/ deferred' = Append(deferred, HandledCommand)
        BY <1>7 DEF HandleDeferred
      <3>3. CASE deferred' = Append(deferred, HandledCommand)
        BY <2>1, <2>2, <3>1, <3>3, SeqAppend DEF Safe, DeferredS, Known
      <3> QED
        BY <2>1, <3>2, <3>3, SafeFrames
    <2> QED
      BY <1>7, <2>1, <2>3, SafeFrames DEF HandleDeferred, Safe
  <1>8. CASE HandleSchedule
    <2>1. HandlerS' /\ UNCHANGED <<past, journal>>
      BY <1>8, HandlerCompletes DEF HandleSchedule
    <2>2. /\ HandledCommand \in Commands /\ Known(HandledCommand)
          /\ HandledCommand \notin past
      BY <1>8, HandledTyped DEF HandleSchedule, Admitted, Deciding, Safe, HandlerS
    <2>3. TaskS'
      BY <1>8, <2>1, <2>2, ScheduleSafe DEF HandleSchedule
    <2> QED
      BY <1>8, <2>1, <2>3, SafeFrames DEF HandleSchedule, Safe
  <1>9. CASE HandlerStages
    <2>1. HandlerS' /\ UNCHANGED <<past, published>>
      BY <1>9, HandlerCompletes DEF HandlerStages
    <2>2. HandledCommand \in Commands /\ Ended(HandledCommand) /\ handler.term \in Terms
      BY <1>9, HandledTyped
      DEF HandlerStages, Safe, HandlerS, Typed, HandlerT, Handler
    <2>3. TerminalBeforeEvent'
      <3> DEFINE e == [cmd |-> HandledCommand, term |-> handler.term]
      <3>1. e \in Event /\ Ended(e.cmd)
        BY <2>2 DEF Event
      <3>2. Deliver(e)
        BY <1>9 DEF HandlerStages
      <3> HIDE DEF e
      <3> QED
        BY <2>1, <3>1, <3>2, DeliverSafe
    <2> QED
      BY <1>9, <2>1, <2>3, SafeFrames DEF HandlerStages, Safe
  <1>10. CASE CompleteEvent
    <2>1. HandlerS'
      BY <1>10 DEF CompleteEvent, HandlerS, IdleHandler
    <2> QED
      BY <1>10, <2>1, SafeFrames DEF CompleteEvent, Safe
  <1> QED
    BY <1>1, <1>2, <1>3, <1>4, <1>5, <1>6, <1>7, <1>8, <1>9, <1>10
    DEF HandlerNext

-----------------------------------------------------------------------------
(***************************************************************************)
(* The tasks.                                                              *)
(***************************************************************************)

\* What no step of a task disturbs.
LEMMA TaskFrameSafe ==
    ASSUME Typed, Typed', Safe, Forward, UNCHANGED taskFrame
    PROVE  /\ UNCHANGED <<past, published>>
           /\ HandlerS' /\ RecoverS' /\ DeferredS'
           /\ UNCHANGED <<outbox, watching>> => TerminalBeforeEvent'
           /\ UNCHANGED now => ExecutionIsJournaled' /\ NoReplayAfterRestart'
  <1>1. UNCHANGED <<past, published, handler, queue, arrived, recover, claims, deferred>>
    BY DEF taskFrame, inboxVars, lifeVars
  <1> QED
    BY <1>1, SafeFrames

\* An operation begins: its command is journaled and not of the past.
LEMMA BeginsSafe ==
    ASSUME Typed, Typed', Safe, Forward, UNCHANGED past,
           NEW t \in DOMAIN tasks, Begun(tasks[t].cmd),
           now' = [now EXCEPT ![tasks[t].cmd] = @ + 1]
    PROVE  ExecutionIsJournaled' /\ NoReplayAfterRestart'
  <1>1. tasks[t].cmd \in Commands /\ now \in [Commands -> Nat]
    BY TaskTyped DEF Typed, HistoryT
  <1>2. tasks[t].cmd \in past => Op[tasks[t].cmd] = "batch"
    BY DEF Safe, TaskS
  <1>3. past \subseteq Commands
    BY DEF Typed, HistoryT
  <1>4. \A c \in Commands : c # tasks[t].cmd => now'[c] = now[c]
    BY <1>1
  <1>5. \A c \in Commands : (c \in past \/ now'[c] > 0) => Begun(c)
    BY <1>1, <1>4 DEF Safe, ExecutionIsJournaled, Begun
  <1>6. ExecutionIsJournaled'
    BY <1>5, KnowledgeKept DEF ExecutionIsJournaled, Begun
  <1>7. NoReplayAfterRestart'
    BY <1>2, <1>3, <1>4 DEF Safe, NoReplayAfterRestart
  <1> QED
    BY <1>6, <1>7

\* A step that moves one task to a step nothing is said about, and changes
\* at most flags of others.
LEMMA MoveSafe ==
    ASSUME Typed, Typed', Safe, Forward, UNCHANGED past, NEW t \in DOMAIN tasks,
           DOMAIN tasks' = DOMAIN tasks,
           \A u \in DOMAIN tasks :
              /\ tasks'[u].cmd = tasks[u].cmd
              /\ u = t => tasks'[u].pc \in Silent
              /\ u # t => /\ tasks'[u].pc = tasks[u].pc
                          /\ tasks'[u].watch = tasks[u].watch
    PROVE  TaskS'
  BY TasksSafe

\* waitForScheduledPromptCancellation() ends the task or fails it.
LEMMA AfterCancellationSafe ==
    ASSUME Typed, Typed', Safe, Forward, UNCHANGED past,
           NEW t \in DOMAIN tasks, NEW s, AfterCancellation(t, s)
    PROVE  TaskS'
  <1>1. \E pc \in {"done", "failing"} : Advance(t, pc)
    BY DEF AfterCancellation
  <1>2. {"done", "failing"} \subseteq Silent
    BY DEF Silent, TaskPcs
  <1> QED
    BY <1>1, <1>2, AdvanceSafe

\* markDispatched() is durable before the task moves on.
LEMMA DispatchSafe ==
    ASSUME Typed, Typed', Safe, Forward, NEW t \in DOMAIN tasks, Dispatch(t)
    PROVE  Safe'
  <1>1. UNCHANGED <<taskFrame, outbox, watching, now>>
    BY DEF Dispatch
  <1>2. UNCHANGED past
    BY <1>1, TaskFrameSafe
  <1>3. TaskS'
    <2>1. CASE AfterCancellation(t, t)
      BY <1>2, <2>1, AfterCancellationSafe
    <2>2. CASE /\ journal' = [journal EXCEPT ![tasks[t].cmd] = MarkedDispatched(@)]
               /\ Advance(t, "dispatched")
      <3>1. /\ DOMAIN tasks' = DOMAIN tasks
            /\ \A u \in DOMAIN tasks : tasks'[u].cmd = tasks[u].cmd
            /\ \A u \in DOMAIN tasks : u # t => tasks'[u] = tasks[u]
            /\ tasks'[t].pc = "dispatched"
        BY <2>2, AdvanceShape DEF TaskPcs
      <3>2. tasks[t].cmd \in Commands /\ Known(tasks[t].cmd)
        BY TaskTyped DEF Safe, TaskS
      <3>3. journal[tasks[t].cmd] \in SoundRow
        BY <3>2 DEF Typed, JournalT
      <3>4. journal'[tasks[t].cmd] = MarkedDispatched(journal[tasks[t].cmd])
        BY <2>2, <3>2 DEF Typed, JournalT
      <3>5. journal'[tasks[t].cmd].status \in {"dispatched", "terminal"}
        BY <3>2, <3>3, <3>4
        DEF MarkedDispatched, SoundRow, Row, Statuses, Known
      <3>6. Backed(tasks[t])'
        BY <3>1, <3>5 DEF Backed, Begun
      <3> QED
        BY <1>2, <3>1, <3>6, TasksSafe
    <2> QED
      BY <2>1, <2>2 DEF Dispatch
  <1> QED
    BY <1>1, <1>3, TaskFrameSafe DEF Safe

\* execute() begins only what is journaled and not of the past.
LEMMA BeginSafe ==
    ASSUME Typed, Typed', Safe, Forward, NEW t \in DOMAIN tasks, Begin(t)
    PROVE  Safe'
  <1>1. UNCHANGED <<taskFrame, outbox, watching, journal>>
    BY DEF Begin
  <1>2. UNCHANGED past
    BY <1>1, TaskFrameSafe
  <1>3. Begun(tasks[t].cmd) /\ tasks[t].cmd \in Commands
    BY TaskTyped DEF Begin, At, Safe, TaskS, Backed
  <1>4. CASE AfterCancellation(t, t) /\ UNCHANGED now
    BY <1>1, <1>2, <1>4, AfterCancellationSafe, TaskFrameSafe DEF Safe
  <1>5. CASE /\ Advance(t, "executing")
             /\ now' = [now EXCEPT ![tasks[t].cmd] =
                          IF Op[tasks[t].cmd] = "prompt" THEN @ ELSE @ + 1]
    <2>1. /\ DOMAIN tasks' = DOMAIN tasks
          /\ \A u \in DOMAIN tasks : tasks'[u].cmd = tasks[u].cmd
          /\ \A u \in DOMAIN tasks : u # t => tasks'[u] = tasks[u]
          /\ tasks'[t].pc = "executing"
      BY <1>5, AdvanceShape DEF TaskPcs
    <2>2. Backed(tasks[t])'
      BY <1>1, <1>3, <2>1 DEF Backed, Begun
    <2>3. TaskS'
      BY <1>2, <2>1, <2>2, TasksSafe
    <2>4. ExecutionIsJournaled' /\ NoReplayAfterRestart'
      <3>1. UNCHANGED now \/ now' = [now EXCEPT ![tasks[t].cmd] = @ + 1]
        BY <1>3, <1>5 DEF Typed, HistoryT
      <3> QED
        BY <1>1, <1>2, <1>3, <3>1, BeginsSafe, TaskFrameSafe
    <2> QED
      BY <1>1, <2>3, <2>4, TaskFrameSafe DEF Safe
  <1> QED
    BY <1>4, <1>5 DEF Begin

\* An Agent turn begins only what is journaled and not of the past.
LEMMA StartAgentSafe ==
    ASSUME Typed, Typed', Safe, Forward, NEW t \in DOMAIN tasks, StartAgent(t)
    PROVE  Safe'
  <1> DEFINE s == prompts[tasks[t].cmd]
  <1>1. UNCHANGED <<taskFrame, outbox, watching, journal>>
    BY DEF StartAgent
  <1>2. UNCHANGED past
    BY <1>1, TaskFrameSafe
  <1>3. Begun(tasks[t].cmd)
    BY DEF StartAgent, At, Safe, TaskS, Backed
  <1>4. CASE AfterCancellation(t, s) /\ UNCHANGED now
    BY <1>1, <1>2, <1>4, AfterCancellationSafe, TaskFrameSafe DEF Safe
  <1>5. CASE /\ tasks' = [u \in DOMAIN tasks |->
                  IF u = t THEN [tasks[u] EXCEPT !.pc = "agent", !.agent = (@ \/ u = s)]
                  ELSE IF u = s THEN [tasks[u] EXCEPT !.agent = TRUE]
                  ELSE tasks[u]]
             /\ now' = [now EXCEPT ![tasks[t].cmd] = @ + 1]
    <2> HIDE DEF s
    <2>1. ASSUME NEW u \in DOMAIN tasks
          PROVE  /\ tasks'[u].cmd = tasks[u].cmd
                 /\ u = t => tasks'[u].pc \in Silent
                 /\ u # t => /\ tasks'[u].pc = tasks[u].pc
                             /\ tasks'[u].watch = tasks[u].watch
      <3>1. tasks[u] \in Task /\ "agent" \in Silent
        BY TaskTyped DEF Silent, TaskPcs
      <3>2. /\ [tasks[u] EXCEPT !.pc = "agent", !.agent = (@ \/ u = s)].pc = "agent"
            /\ [tasks[u] EXCEPT !.pc = "agent", !.agent = (@ \/ u = s)].cmd = tasks[u].cmd
        BY <3>1 DEF Task
      <3>3. /\ [tasks[u] EXCEPT !.agent = TRUE].cmd = tasks[u].cmd
            /\ [tasks[u] EXCEPT !.agent = TRUE].pc = tasks[u].pc
            /\ [tasks[u] EXCEPT !.agent = TRUE].watch = tasks[u].watch
        BY <3>1 DEF Task
      <3> QED
        BY <1>5, <3>1, <3>2, <3>3
    <2>2. DOMAIN tasks' = DOMAIN tasks
      BY <1>5
    <2>3. TaskS'
      BY <1>2, <2>1, <2>2, MoveSafe
    <2>4. ExecutionIsJournaled' /\ NoReplayAfterRestart'
      BY <1>2, <1>3, <1>5, BeginsSafe
    <2> QED
      BY <1>1, <2>3, <2>4, TaskFrameSafe DEF Safe
  <1> QED
    BY <1>4, <1>5 DEF StartAgent

\* A task calls settleAndDeliver(): the terminal is durable before it stages.
LEMMA TaskSettlesSafe ==
    ASSUME Typed, Typed', Safe, Forward, NEW t \in DOMAIN tasks,
           NEW term \in Terms, NEW allowExpired, NEW onThrow \in Silent,
           TaskSettles(t, term, allowExpired, onThrow)
    PROVE  Safe'
  <1>1. UNCHANGED <<taskFrame, outbox, watching, now>>
    BY DEF TaskSettles
  <1>2. UNCHANGED past
    BY <1>1, TaskFrameSafe
  <1>3. \/ /\ Store(tasks[t].cmd, term)
           /\ tasks' = [tasks EXCEPT ![t].pc = "staging", ![t].term = term]
        \/ \E pc \in {"done", onThrow} : Advance(t, pc)
    BY DEF TaskSettles
  <1>4. TaskS'
    <2>1. CASE /\ Store(tasks[t].cmd, term)
               /\ tasks' = [tasks EXCEPT ![t].pc = "staging", ![t].term = term]
      <3>1. tasks[t].cmd \in Commands /\ tasks[t] \in Task
        BY TaskTyped
      <3>2. journal[tasks[t].cmd] \in SoundRow
        BY <3>1 DEF Typed, JournalT
      <3>3. journal'[tasks[t].cmd] = Settled(journal[tasks[t].cmd], term)
        BY <2>1, <3>1 DEF Store, Typed, JournalT
      <3>4. journal'[tasks[t].cmd].status = "terminal"
        BY <3>2, <3>3 DEF Settled, SoundRow, Row
      <3>5. /\ DOMAIN tasks' = DOMAIN tasks
            /\ \A u \in DOMAIN tasks : u # t => tasks'[u] = tasks[u]
            /\ tasks'[t].cmd = tasks[t].cmd /\ tasks'[t].pc = "staging"
        BY <2>1, <3>1 DEF Task
      <3>6. Backed(tasks[t])'
        BY <3>4, <3>5 DEF Backed, Ended
      <3> QED
        BY <1>2, <3>5, <3>6, TasksSafe
    <2>2. ASSUME NEW pc \in {"done", onThrow}, Advance(t, pc) PROVE TaskS'
      <3>1. pc \in Silent
        BY DEF Silent, TaskPcs
      <3> QED
        BY <1>2, <2>2, <3>1, AdvanceSafe
    <2> QED
      BY <1>3, <2>1, <2>2
  <1> QED
    BY <1>1, <1>4, TaskFrameSafe DEF Safe

\* A flag is none of the fields the invariant speaks about.
LEMMA FlagsShape ==
    ASSUME NEW task \in Task, NEW flag
    PROVE  /\ [task EXCEPT !.cancel = flag].cmd = task.cmd
           /\ [task EXCEPT !.cancel = flag].pc = task.pc
           /\ [task EXCEPT !.cancel = flag].watch = task.watch
           /\ [task EXCEPT !.abort = flag].cmd = task.cmd
           /\ [task EXCEPT !.abort = flag].pc = task.pc
           /\ [task EXCEPT !.abort = flag].watch = task.watch
  BY DEF Task

\* A task begins to watch another one.
LEMMA WatchingShape ==
    ASSUME Typed, NEW t \in DOMAIN tasks, NEW w \in Nat, NEW pc \in Silent
    PROVE  /\ DOMAIN Watching(t, w, pc) = DOMAIN tasks
           /\ \A u \in DOMAIN tasks :
                /\ Watching(t, w, pc)[u] \in Task
                /\ Watching(t, w, pc)[u].cmd = tasks[u].cmd
                /\ u = t => Watching(t, w, pc)[u].pc = pc
                /\ u # t => Watching(t, w, pc)[u] = tasks[u]
  <1> DEFINE x == [tasks[t] EXCEPT !.pc = pc, !.watch = w]
  <1>1. pc \in TaskPcs /\ \A u \in DOMAIN tasks : tasks[u] \in Task
    BY TaskTyped DEF Silent
  <1>2. x \in Task /\ x.cmd = tasks[t].cmd /\ x.pc = pc
    BY <1>1 DEF Task
  <1>3. Watching(t, w, pc) = [tasks EXCEPT ![t] = x]
    BY DEF Watching
  <1> HIDE DEF x
  <1> QED
    BY <1>1, <1>2, <1>3

\* cancelTurn() changes flags and its own step.
LEMMA CancelTurnSafe ==
    ASSUME Typed, Typed', Safe, Forward, NEW t \in DOMAIN tasks, CancelTurn(t)
    PROVE  Safe'
  <1> DEFINE s == prompts[Target[tasks[t].cmd]]
             r == turn[Key[tasks[t].cmd]]
  <1>1. UNCHANGED <<taskFrame, outbox, watching, now>>
    BY DEF CancelTurn
  <1>2. UNCHANGED past
    BY <1>1, TaskFrameSafe
  <1>3. {"awaitcancel", "awaitturn", "cancelling", "concluding", "failing"} \subseteq Silent
    BY DEF Silent, TaskPcs
  <1>4. \/ tasks' = [Watching(t, s, "cancelling") EXCEPT ![s].cancel = "requested"]
        \/ tasks' = Watching(t, s, "awaitcancel")
        \/ tasks' = [Watching(t, r, "awaitturn") EXCEPT ![r].abort = TRUE]
        \/ Advance(t, "concluding")
        \/ Advance(t, "failing")
    BY DEF CancelTurn
  <1> HIDE DEF s, r
  <1>5. s \in Nat /\ r \in Nat
    BY TaskTyped, TargetAssumption, KeyAssumption DEF s, r, Typed, TasksT, TurnT
  <1>6. TaskS'
    <2>1. CASE tasks' = Watching(t, s, "awaitcancel")
      <3> DEFINE x == Watching(t, s, "awaitcancel")
      <3>1. tasks' = x /\ "awaitcancel" \in Silent
        BY <1>3, <2>1
      <3>2. /\ DOMAIN x = DOMAIN tasks
            /\ \A u \in DOMAIN tasks :
                 /\ x[u].cmd = tasks[u].cmd
                 /\ u = t => x[u].pc = "awaitcancel"
                 /\ u # t => x[u] = tasks[u]
        BY <1>5, <3>1, WatchingShape
      <3> HIDE DEF x
      <3> QED
        BY <1>2, <3>1, <3>2, MoveSafe
    <2>2. CASE tasks' = [Watching(t, s, "cancelling") EXCEPT ![s].cancel = "requested"]
      <3> DEFINE x == Watching(t, s, "cancelling")
      <3>1. "cancelling" \in Silent
        BY <1>3
      <3>2. /\ DOMAIN x = DOMAIN tasks
            /\ \A u \in DOMAIN tasks :
                 /\ x[u] \in Task /\ x[u].cmd = tasks[u].cmd
                 /\ u = t => x[u].pc = "cancelling"
                 /\ u # t => x[u] = tasks[u]
        BY <1>5, <3>1, WatchingShape
      <3>3. tasks' = [x EXCEPT ![s].cancel = "requested"]
        BY <2>2
      <3> HIDE DEF x
      <3>4. ASSUME NEW u \in DOMAIN tasks
            PROVE  /\ tasks'[u].cmd = x[u].cmd /\ tasks'[u].pc = x[u].pc
                   /\ tasks'[u].watch = x[u].watch
        <4>1. CASE u # s
          BY <3>2, <3>3, <4>1
        <4>2. CASE u = s
          <5>1. tasks'[u] = [x[u] EXCEPT !.cancel = "requested"] /\ x[u] \in Task
            BY <3>2, <3>3, <4>2
          <5> QED
            BY <5>1, FlagsShape
        <4> QED
          BY <4>1, <4>2
      <3>5. DOMAIN tasks' = DOMAIN tasks
        BY <3>2, <3>3
      <3> QED
        BY <1>2, <3>1, <3>2, <3>4, <3>5, MoveSafe
    <2>3. CASE tasks' = [Watching(t, r, "awaitturn") EXCEPT ![r].abort = TRUE]
      <3> DEFINE x == Watching(t, r, "awaitturn")
      <3>1. "awaitturn" \in Silent
        BY <1>3
      <3>2. /\ DOMAIN x = DOMAIN tasks
            /\ \A u \in DOMAIN tasks :
                 /\ x[u] \in Task /\ x[u].cmd = tasks[u].cmd
                 /\ u = t => x[u].pc = "awaitturn"
                 /\ u # t => x[u] = tasks[u]
        BY <1>5, <3>1, WatchingShape
      <3>3. tasks' = [x EXCEPT ![r].abort = TRUE]
        BY <2>3
      <3> HIDE DEF x
      <3>4. ASSUME NEW u \in DOMAIN tasks
            PROVE  /\ tasks'[u].cmd = x[u].cmd /\ tasks'[u].pc = x[u].pc
                   /\ tasks'[u].watch = x[u].watch
        <4>1. CASE u # r
          BY <3>2, <3>3, <4>1
        <4>2. CASE u = r
          <5>1. tasks'[u] = [x[u] EXCEPT !.abort = TRUE] /\ x[u] \in Task
            BY <3>2, <3>3, <4>2
          <5> QED
            BY <5>1, FlagsShape
        <4> QED
          BY <4>1, <4>2
      <3>5. DOMAIN tasks' = DOMAIN tasks
        BY <3>2, <3>3
      <3> QED
        BY <1>2, <3>1, <3>2, <3>4, <3>5, MoveSafe
    <2>4. CASE Advance(t, "concluding") \/ Advance(t, "failing")
      BY <1>2, <1>3, <2>4, AdvanceSafe
    <2> QED
      BY <1>4, <2>1, <2>2, <2>3, <2>4
  <1> QED
    BY <1>1, <1>6, TaskFrameSafe DEF Safe

\* One task moves and the cancel flag of one task changes.
LEMMA CancelFlagShape ==
    ASSUME Typed, NEW t \in DOMAIN tasks, NEW s, NEW pc \in Silent, NEW flag,
           tasks' = [tasks EXCEPT ![t].pc = pc, ![s].cancel = flag]
    PROVE  /\ DOMAIN tasks' = DOMAIN tasks
           /\ \A u \in DOMAIN tasks :
                /\ tasks'[u].cmd = tasks[u].cmd
                /\ u = t => tasks'[u].pc \in Silent
                /\ u # t => /\ tasks'[u].pc = tasks[u].pc
                            /\ tasks'[u].watch = tasks[u].watch
  <1> DEFINE moved == [tasks[t] EXCEPT !.pc = pc]
             x == [tasks EXCEPT ![t] = moved]
  <1>1. pc \in TaskPcs /\ \A u \in DOMAIN tasks : tasks[u] \in Task
    BY TaskTyped DEF Silent
  <1>2. moved \in Task /\ moved.cmd = tasks[t].cmd /\ moved.pc = pc
    BY <1>1 DEF Task
  <1>3. tasks' = [x EXCEPT ![s].cancel = flag]
    OBVIOUS
  <1> HIDE DEF moved
  <1>4. /\ DOMAIN x = DOMAIN tasks
        /\ \A u \in DOMAIN tasks :
             /\ x[u] \in Task /\ x[u].cmd = tasks[u].cmd
             /\ u = t => x[u].pc = pc
             /\ u # t => x[u] = tasks[u]
    BY <1>1, <1>2
  <1> HIDE DEF x
  <1>5. ASSUME NEW u \in DOMAIN tasks
        PROVE  /\ tasks'[u].cmd = x[u].cmd /\ tasks'[u].pc = x[u].pc
               /\ tasks'[u].watch = x[u].watch
    <2>1. CASE u # s
      BY <1>3, <1>4, <2>1
    <2>2. CASE u = s
      <3>1. tasks'[u] = [x[u] EXCEPT !.cancel = flag] /\ x[u] \in Task
        BY <1>3, <1>4, <2>2
      <3>2. /\ [x[u] EXCEPT !.cancel = flag].cmd = x[u].cmd
            /\ [x[u] EXCEPT !.cancel = flag].pc = x[u].pc
            /\ [x[u] EXCEPT !.cancel = flag].watch = x[u].watch
        BY <3>1 DEF Task
      <3> QED
        BY <3>1, <3>2, Zenon
    <2> QED
      BY <2>1, <2>2
  <1>6. DOMAIN tasks' = DOMAIN tasks
    BY <1>3, <1>4
  <1> QED
    BY <1>4, <1>5, <1>6

\* A cancelled prompt is settled before its event is staged.
LEMMA SettleCancellationSafe ==
    ASSUME Typed, Typed', Safe, Forward, NEW t \in DOMAIN tasks,
           SettleCancellation(t)
    PROVE  Safe'
  <1> DEFINE s == tasks[t].watch
             p == tasks[s].cmd
  <1>1. UNCHANGED <<taskFrame, outbox, watching, now>>
    BY DEF SettleCancellation
  <1>2. UNCHANGED past
    BY <1>1, TaskFrameSafe
  <1>3. /\ tasks[t] \in Task /\ TaskLinked(tasks[t], Len(tasks))
        /\ tasks[t].pc = "cancelling" /\ DOMAIN tasks = 1..Len(tasks)
    BY TaskTyped DEF SettleCancellation, At
  <1>4. s \in DOMAIN tasks
    BY <1>3 DEF TaskLinked
  <1>5. p \in Commands
    BY <1>4, TaskTyped
  <1>6. \/ /\ Store(p, "cancelled")
           /\ tasks' = [tasks EXCEPT ![t].pc = "cancelstaging"]
        \/ tasks' = [tasks EXCEPT ![t].pc = "failing", ![s].cancel = "refused"]
    BY DEF SettleCancellation
  <1> HIDE DEF p
  <1>7. TaskS'
    <2>1. CASE /\ Store(p, "cancelled")
               /\ tasks' = [tasks EXCEPT ![t].pc = "cancelstaging"]
      <3>1. /\ DOMAIN tasks' = DOMAIN tasks
            /\ \A u \in DOMAIN tasks : u # t => tasks'[u] = tasks[u]
            /\ tasks'[t].cmd = tasks[t].cmd /\ tasks'[t].pc = "cancelstaging"
            /\ tasks'[t].watch = tasks[t].watch
        BY <1>3, <2>1 DEF Task
      <3>2. journal[p] \in SoundRow
        BY <1>5 DEF Typed, JournalT
      <3>3. journal'[p] = Settled(journal[p], "cancelled")
        BY <1>5, <2>1 DEF Store, Typed, JournalT
      <3>4. journal'[p].status = "terminal"
        BY <3>2, <3>3 DEF Settled, SoundRow, Row
      <3>5. tasks'[tasks'[t].watch].cmd = p
        BY <1>4, <3>1 DEF p
      <3>6. Backed(tasks[t])'
        BY <3>1, <3>4, <3>5 DEF Backed, Ended
      <3> QED
        BY <1>2, <3>1, <3>6, TasksSafe
    <2>2. CASE tasks' = [tasks EXCEPT ![t].pc = "failing", ![s].cancel = "refused"]
      <3>1. "failing" \in Silent
        BY DEF Silent, TaskPcs
      <3> QED
        BY <1>2, <2>2, <3>1, CancelFlagShape, MoveSafe
    <2> QED
      BY <1>6, <2>1, <2>2
  <1> QED
    BY <1>1, <1>7, TaskFrameSafe DEF Safe

\* The event of a cancelled prompt follows its terminal.
LEMMA StageCancellationSafe ==
    ASSUME Typed, Typed', Safe, Forward, NEW t \in DOMAIN tasks,
           StageCancellation(t)
    PROVE  Safe'
  <1> DEFINE s == tasks[t].watch
             e == [cmd |-> tasks[s].cmd, term |-> "cancelled"]
  <1>1. UNCHANGED <<taskFrame, now>>
    BY DEF StageCancellation
  <1>2. UNCHANGED <<past, published>>
    BY <1>1, TaskFrameSafe
  <1>3. /\ TaskLinked(tasks[t], Len(tasks)) /\ tasks[t].pc = "cancelstaging"
        /\ DOMAIN tasks = 1..Len(tasks)
    BY TaskTyped DEF StageCancellation, At
  <1>4. s \in DOMAIN tasks
    BY <1>3 DEF TaskLinked
  <1>5. tasks[s].cmd \in Commands /\ Ended(tasks[s].cmd)
    BY <1>3, <1>4, TaskTyped DEF Safe, TaskS, Backed
  <1>6. TerminalBeforeEvent'
    <2>1. e \in Event /\ Ended(e.cmd)
      BY <1>5 DEF Event, Terms
    <2>2. Deliver(e)
      BY DEF StageCancellation
    <2> HIDE DEF e
    <2> QED
      BY <1>2, <2>1, <2>2, DeliverSafe
  <1>7. TaskS'
    <2>1. /\ tasks' = [tasks EXCEPT ![t].pc = "concluding", ![s].cancel = "settled"]
          /\ "concluding" \in Silent
      BY DEF StageCancellation, Silent, TaskPcs
    <2> QED
      BY <1>2, <2>1, CancelFlagShape, MoveSafe
  <1> QED
    BY <1>1, <1>6, <1>7, TaskFrameSafe DEF Safe

\* The event of a task follows its terminal.
LEMMA StageStepSafe ==
    ASSUME Typed, Typed', Safe, Forward, NEW t \in DOMAIN tasks, Stage(t)
    PROVE  Safe'
  <1> DEFINE e == [cmd |-> tasks[t].cmd, term |-> tasks[t].term]
  <1>1. UNCHANGED <<taskFrame, now>>
    BY DEF Stage
  <1>2. UNCHANGED <<past, published>>
    BY <1>1, TaskFrameSafe
  <1>3. /\ tasks[t] \in Task /\ TaskLinked(tasks[t], Len(tasks))
        /\ tasks[t].pc = "staging"
    BY TaskTyped DEF Stage, At
  <1>4. TerminalBeforeEvent'
    <2>1. e \in Event
      BY <1>3 DEF Task, TaskLinked, Event
    <2>2. Ended(e.cmd)
      BY <1>3 DEF Safe, TaskS, Backed
    <2>3. Deliver(e)
      BY DEF Stage
    <2> HIDE DEF e
    <2> QED
      BY <1>2, <2>1, <2>2, <2>3, DeliverSafe
  <1>5. TaskS'
    <2>1. {"confirming", "done"} \subseteq Silent
      BY DEF Silent, TaskPcs
    <2>2. \E pc \in {"confirming", "done"} : Advance(t, pc)
      BY DEF Stage
    <2> QED
      BY <1>2, <2>1, <2>2, AdvanceSafe
  <1> QED
    BY <1>1, <1>4, <1>5, TaskFrameSafe DEF Safe

\* Every step of a task keeps the invariant.
LEMMA TaskNextSafe ==
    ASSUME Typed, Typed', Safe, Forward, NEW t \in DOMAIN tasks, TaskNext(t)
    PROVE  Safe'
  <1>0. /\ {"done", "failing", "concluding", "timedout", "persisting",
            "persisted"} \subseteq Silent
        /\ {"completed", "failed"} \subseteq Terms
    BY DEF Silent, TaskPcs, Terms
  <1>1. CASE Dispatch(t)
    BY <1>1, DispatchSafe
  <1>2. CASE Begin(t)
    BY <1>2, BeginSafe
  <1>3. CASE StartAgent(t)
    BY <1>3, StartAgentSafe
  <1>4. CASE Complete(t) \/ Fail(t) \/ FailExpired(t)
    BY <1>0, <1>4, TaskSettlesSafe DEF Complete, Fail, FailExpired
  <1>5. CASE Throw(t) \/ InterruptBatch(t) \/ Deadline(t) \/ Persist(t)
             \/ Confirmed(t) \/ JoinCancellation(t)
    <2>1. UNCHANGED <<taskFrame, outbox, watching, now>>
      BY <1>5 DEF Throw, InterruptBatch, Deadline, Persist, Confirmed, JoinCancellation
    <2>2. UNCHANGED past
      BY <2>1, TaskFrameSafe
    <2>3. \E pc \in Silent : Advance(t, pc)
      BY <1>0, <1>5
      DEF Throw, InterruptBatch, Deadline, Persist, Confirmed, JoinCancellation
    <2>4. TaskS'
      BY <2>2, <2>3, AdvanceSafe
    <2> QED
      BY <2>1, <2>4, TaskFrameSafe DEF Safe
  <1>6. CASE Stage(t)
    BY <1>6, StageStepSafe
  <1>7. CASE CancelTurn(t)
    BY <1>7, CancelTurnSafe
  <1>8. CASE SettleCancellation(t)
    BY <1>8, SettleCancellationSafe
  <1>9. CASE StageCancellation(t)
    BY <1>9, StageCancellationSafe
  <1> QED
    BY <1>1, <1>2, <1>3, <1>4, <1>5, <1>6, <1>7, <1>8, <1>9 DEF TaskNext

-----------------------------------------------------------------------------
\* Sending and confirming add no event.
LEMMA DeliverySafe ==
    ASSUME Typed, Typed', Safe, Forward,
           DeliveryNext \/ \E z \in expired : LateEnd(z)
    PROVE  Safe'
  <1> USE DEF inboxVars, scheduleVars, lifeVars, historyVars
  <1>1. CASE \E z \in expired : LateEnd(z)
    BY <1>1, SafeFrames DEF LateEnd, taskFrame, Safe
  <1>2. ASSUME UNCHANGED deliveryFrame, TerminalBeforeEvent' PROVE Safe'
    BY <1>2, SafeFrames DEF deliveryFrame, Safe
  <1>3. ASSUME outbox' \cup published' \cup watching' \subseteq
                 outbox \cup published \cup watching
        PROVE  TerminalBeforeEvent'
    <2>1. \A e \in outbox \cup published \cup watching : e.cmd \in Commands /\ Ended(e.cmd)
      BY DEF Typed, RoomT, Event, Callback, Safe, TerminalBeforeEvent, Ended
    <2> QED
      BY <1>3, <2>1, KnowledgeKept DEF TerminalBeforeEvent, Ended
  <1>4. CASE DeliveryNext
    BY <1>2, <1>3, <1>4
    DEF DeliveryNext, Send, Supersede, RedeliveryFails, ConfirmDelivery, FinalizeDeletion
  <1> QED
    BY <1>1, <1>4

\* Recovery goes on with the same snapshot, or is over.
LEMMA RecoverMovedSafe ==
    ASSUME Typed, Typed', Safe, Forward, UNCHANGED <<past, claims>>,
           \/ recover' = [recover EXCEPT !.at = @ + 1, !.term = "none"]
           \/ recover.term = "none" /\ recover' = [recover EXCEPT !.at = @ + 1]
           \/ recover' = NoRecovery
    PROVE  RecoverS'
  <1>1. recover \in Recovery
    BY DEF Typed, RecoverT
  <1>2. CASE recover' = NoRecovery
    BY <1>2 DEF RecoverS, NoRecovery, NoRow
  <1>3. CASE \/ recover' = [recover EXCEPT !.at = @ + 1, !.term = "none"]
             \/ recover.term = "none" /\ recover' = [recover EXCEPT !.at = @ + 1]
    <2>1. recover'.term = "none" /\ recover'.snap = recover.snap
      BY <1>1, <1>3 DEF Recovery
    <2> QED
      BY <2>1, KnowledgeKept DEF Safe, RecoverS, Known
  <1> QED
    BY <1>2, <1>3

\* A restart snapshots the journal and redelivers only terminals.
LEMMA StartSafe ==
    ASSUME Typed, Typed', Safe, Forward, Start
    PROVE  Safe'
  <1> USE DEF inboxVars, scheduleVars, historyVars, startFrame, recoverFrame
  <1> DEFINE redeliver == {c \in Commands : /\ catalog /\ PendingDelivery(journal[c])
                                           /\ TerminalEvent(c) \notin superseded}
             events == {TerminalEvent(c) : c \in redeliver}
  <1>1. UNCHANGED <<past, published, journal, claims>>
    BY DEF Start
  <1>2. /\ watching' = {CallbackFor(e, TRUE) : e \in events}
        /\ outbox' = outbox \cup (events \ published)
    BY DEF Start
  <1>3. \A e \in events : journal[e.cmd].status = "terminal"
    <2>1. \A c \in redeliver : c \in Commands /\ PendingDelivery(journal[c])
      OBVIOUS
    <2> HIDE DEF redeliver
    <2> QED
      BY <2>1 DEF TerminalEvent, PendingDelivery
  <1> HIDE DEF events
  <1>4. TerminalBeforeEvent'
    <2>1. \A w \in watching' : journal[w.cmd].status = "terminal"
      BY <1>2, <1>3 DEF CallbackFor
    <2> QED
      BY <1>1, <1>2, <1>3, <2>1 DEF Safe, TerminalBeforeEvent
  <1>5. RecoverS'
    <2>1. recover'.snap = journal /\ recover'.term = "none"
      BY DEF Start, NoRecovery
    <2>2. \A c \in Commands : journal[c].status = "accepted" => c \notin past
      BY DEF Safe, ExecutionIsJournaled
    <2> QED
      BY <1>1, <2>1, <2>2 DEF RecoverS, Known
  <1> QED
    BY <1>1, <1>4, <1>5, SafeFrames DEF Start, Safe

\* drainInbox() appends: the event in the handler's hands stays the first.
LEMMA DrainInboxSafe ==
    ASSUME Typed, Typed', Safe, Forward, DrainInbox
    PROVE  Safe'
  <1> USE DEF inboxVars, scheduleVars, historyVars, startFrame, recoverFrame
  <1>1. UNCHANGED <<past, journal, claims, arrived, handler>>
    BY DEF DrainInbox
  <1>2. recover.at \in Nat \ {0} /\ recover.term = "none"
    BY DEF DrainInbox, Typed, RecoverT, Recovery
  <1>3. RecoverS'
    BY <1>1, <1>2, RecoverMovedSafe DEF DrainInbox
  <1>4. HandlerS'
    <2>1. CASE handler.pc = "idle"
      BY <1>1, <2>1 DEF HandlerS
    <2>2. CASE handler.pc # "idle"
      <3>1. queue # <<>> /\ queue \in Seq(Nat)
        BY <2>2, HandledTyped DEF Typed, QueueT
      <3>2. queue' \in {queue, Append(queue, recover.at)}
        BY DEF DrainInbox
      <3>3. Head(queue') = Head(queue)
        BY <1>2, <3>1, <3>2
      <3>4. HandledCommand' = HandledCommand
        BY <1>1, <3>3 DEF HandledCommand
      <3> QED
        BY <1>1, <2>2, <3>4 DEF Safe, HandlerS, Known, Ended
    <2> QED
      BY <2>1, <2>2
  <1> QED
    BY <1>1, <1>3, <1>4, SafeFrames DEF DrainInbox, Safe

\* Every step of a restart keeps the invariant.
LEMMA RecoverySafe ==
    ASSUME Typed, Typed', Safe, Forward, RecoveryNext
    PROVE  Safe'
  <1> USE DEF inboxVars, scheduleVars, historyVars, startFrame, recoverFrame
  <1>1. CASE Start
    BY <1>1, StartSafe
  <1>2. CASE RecoverSkip
    <2>1. RecoverS'
      BY <1>2, RecoverMovedSafe DEF RecoverSkip, Recovering
    <2> QED
      BY <1>2, <2>1, SafeFrames DEF RecoverSkip, Safe
  <1>3. CASE RecoverAccepted
    <2>1. RecoverS'
      BY <1>3, RecoverMovedSafe DEF RecoverAccepted, Recovering
    <2>2. claims[recover.at] \in Commands
      BY <1>3, RecoveredTyped DEF RecoverAccepted, Recovering
    <2>3. /\ Known(claims[recover.at])
          /\ claims[recover.at] \in past => Op[claims[recover.at]] = "batch"
      BY <1>3, <2>2 DEF RecoverAccepted, Safe, RecoverS
    <2>4. TaskS'
      BY <1>3, <2>2, <2>3, ScheduleSafe DEF RecoverAccepted
    <2> QED
      BY <1>3, <2>1, <2>4, SafeFrames DEF RecoverAccepted, Safe
  <1>4. CASE RecoverDispatched
    <2> DEFINE c == claims[recover.at]
    <2>1. c \in Commands /\ recover.term = "none" /\ recover \in Recovery
      BY <1>4, RecoveredTyped DEF RecoverDispatched, Recovering, Typed, RecoverT
    <2>2. PICK term \in {"completed", "interrupted"} :
            \/ Store(c, term) /\ recover' = [recover EXCEPT !.term = term]
            \/ recover' = [recover EXCEPT !.at = @ + 1]
      BY <1>4 DEF RecoverDispatched
    <2>3. UNCHANGED <<past, claims>>
      BY <1>4 DEF RecoverDispatched
    <2>4. RecoverS'
      <3>1. CASE Store(c, term) /\ recover' = [recover EXCEPT !.term = term]
        <4>1. journal[c] \in SoundRow
          BY <2>1 DEF Typed, JournalT
        <4>2. journal'[c] = Settled(journal[c], term)
          BY <2>1, <3>1 DEF Store, Typed, JournalT
        <4>3. journal'[c].status = "terminal"
          BY <4>1, <4>2 DEF Settled, SoundRow, Row
        <4>4. recover'.at = recover.at /\ recover'.snap = recover.snap
          BY <2>1, <3>1 DEF Recovery
        <4>5. Ended(claims[recover.at])'
          BY <2>3, <4>3, <4>4 DEF Ended
        <4> QED
          BY <2>3, <4>4, <4>5, KnowledgeKept DEF Safe, RecoverS, Known
      <3> QED
        BY <2>1, <2>2, <2>3, <3>1, RecoverMovedSafe
    <2> QED
      BY <1>4, <2>4, SafeFrames DEF RecoverDispatched, Safe
  <1>5. CASE RecoverStages
    <2> DEFINE e == [cmd |-> claims[recover.at], term |-> recover.term]
    <2>1. recover.at <= Len(claims) /\ recover.term \in Terms
      BY <1>5 DEF RecoverStages, Typed, RecoverT, Recovery
    <2>2. e \in Event
      BY <2>1, RecoveredTyped DEF Event
    <2>3. Ended(e.cmd)
      BY <1>5 DEF RecoverStages, Safe, RecoverS
    <2>4. Deliver(e) /\ UNCHANGED <<published, past>>
      BY <1>5 DEF RecoverStages
    <2> HIDE DEF e
    <2>5. TerminalBeforeEvent'
      BY <2>2, <2>3, <2>4, DeliverSafe
    <2>6. RecoverS'
      BY <1>5, RecoverMovedSafe DEF RecoverStages
    <2> QED
      BY <1>5, <2>5, <2>6, SafeFrames DEF RecoverStages, Safe
  <1>6. CASE RecoverDeletions
    <2>1. RecoverS'
      BY <1>6, RecoverMovedSafe, SafeFrames DEF RecoverDeletions
    <2> QED
      BY <1>6, <2>1, SafeFrames DEF RecoverDeletions, Safe
  <1>7. CASE DrainInbox
    BY <1>7, DrainInboxSafe
  <1> QED
    BY <1>1, <1>2, <1>3, <1>4, <1>5, <1>6, <1>7 DEF RecoveryNext

-----------------------------------------------------------------------------
\* A crash forgets everything but the journal, the room and what happened.
LEMMA HaltSafe ==
    ASSUME Typed, Safe, Halt
    PROVE  Safe'
  <1> USE DEF Safe
  <1>1. UNCHANGED <<journal, outbox, published>> /\ watching' = {}
    BY DEF Halt
  <1>2. HandlerS' /\ TaskS' /\ RecoverS' /\ DeferredS'
    BY DEF Halt, HandlerS, TaskS, RecoverS, DeferredS, IdleHandler, NoRecovery, NoRow
  <1>3. TerminalBeforeEvent'
    BY <1>1 DEF TerminalBeforeEvent
  <1>4. ExecutionIsJournaled' /\ NoReplayAfterRestart'
    <2>1. /\ past' = past \cup {c \in Commands : now[c] > 0}
          /\ now' = [c \in Commands |-> 0] /\ past' \subseteq Commands
      BY DEF Halt, Typed, HistoryT
    <2>2. ExecutionIsJournaled'
      BY <1>1, <2>1 DEF ExecutionIsJournaled
    <2> QED
      BY <2>1, <2>2 DEF NoReplayAfterRestart
  <1> QED
    BY <1>2, <1>3, <1>4

\* Seals, stops, crashes and revocations keep the invariant.
LEMMA DeploymentSafe ==
    ASSUME Typed, Typed', Safe, Forward, DeploymentNext \/ Crash \/ Distrust
    PROVE  Safe'
  <1> USE DEF inboxVars, deliveryVars, scheduleVars, lifeVars, historyVars, sealFrame
  <1>1. CASE SealBegin
    <2>1. PICK force \in BOOLEAN :
            tasks' = [t \in DOMAIN tasks |->
                        IF force /\ tasks[t].pc = "agent"
                        THEN [tasks[t] EXCEPT !.abort = TRUE] ELSE tasks[t]]
      BY <1>1 DEF SealBegin
    <2>2. DOMAIN tasks' = DOMAIN tasks
      BY <2>1
    <2>3. \A u \in DOMAIN tasks : /\ tasks'[u].cmd = tasks[u].cmd
                                  /\ tasks'[u].pc = tasks[u].pc
                                  /\ tasks'[u].watch = tasks[u].watch
      <3> SUFFICES ASSUME NEW u \in DOMAIN tasks
                   PROVE  /\ tasks'[u].cmd = tasks[u].cmd
                          /\ tasks'[u].pc = tasks[u].pc
                          /\ tasks'[u].watch = tasks[u].watch
        OBVIOUS
      <3>1. tasks[u] \in Task
        BY TaskTyped
      <3>2. tasks'[u] = tasks[u] \/ tasks'[u] = [tasks[u] EXCEPT !.abort = TRUE]
        BY <2>1
      <3>3. /\ [tasks[u] EXCEPT !.abort = TRUE].cmd = tasks[u].cmd
            /\ [tasks[u] EXCEPT !.abort = TRUE].pc = tasks[u].pc
            /\ [tasks[u] EXCEPT !.abort = TRUE].watch = tasks[u].watch
        BY <3>1, FlagsShape
      <3> QED
        BY <3>2, <3>3, Zenon
    <2>4. UNCHANGED past
      BY <1>1 DEF SealBegin
    <2>5. TaskS'
      BY <2>2, <2>3, <2>4, TasksSafe
    <2> QED
      BY <1>1, <2>5, SafeFrames DEF SealBegin, Safe
  <1>2. CASE Seal \/ SealFail \/ SealStop \/ Stop
    BY <1>2, SafeFrames DEF Seal, SealFail, SealStop, Stop, Safe
  <1>3. CASE ResumeDeferred
    <2>1. deferred \in Seq(Commands) /\ deferred # <<>>
      BY <1>3 DEF ResumeDeferred, Reopening, Typed, LifeT
    <2>2. /\ Head(deferred) \in Commands /\ Known(Head(deferred))
          /\ Head(deferred) \notin past
      BY <2>1, SeqHeadTail DEF Safe, DeferredS
    <2>3. UNCHANGED <<past, journal>> /\ deferred' = Tail(deferred)
      BY <1>3 DEF ResumeDeferred
    <2>4. TaskS'
      BY <1>3, <2>2, <2>3, ScheduleSafe DEF ResumeDeferred
    <2>5. DeferredS'
      BY <2>1, <2>3, SeqHeadTail DEF Safe, DeferredS, Known
    <2> QED
      BY <1>3, <2>4, <2>5, SafeFrames DEF ResumeDeferred, Safe
  <1>4. CASE Stopped \/ Crash
    BY <1>4, HaltSafe DEF Stopped, Crash
  <1>5. CASE Distrust
    BY <1>5, SafeFrames DEF Distrust, Safe
  <1> QED
    BY <1>1, <1>2, <1>3, <1>4, <1>5 DEF DeploymentNext

\* The invariant is inductive.
LEMMA NextSafe == Typed /\ Typed' /\ Safe /\ [Next]_vars => Safe'
  <1> SUFFICES ASSUME Typed, Typed', Safe, [Next]_vars
               PROVE  Safe'
    OBVIOUS
  <1>1. Forward
    BY NextForward
  <1>2. CASE UNCHANGED vars
    BY <1>1, <1>2, SafeFrames
    DEF vars, Safe, inboxVars, deliveryVars, scheduleVars, lifeVars, historyVars
  <1>3. CASE Next
    BY <1>1, <1>3, ReceiveSafe, HandlerSafe, TaskNextSafe, DeliverySafe,
       RecoverySafe, DeploymentSafe
    DEF Next
  <1> QED
    BY <1>2, <1>3

\* The invariant holds in every reachable state.
LEMMA AlwaysSafe == Spec => [](Typed /\ Safe)
  <1>1. Init => Typed /\ Safe
    BY InitTyped, InitSafe
  <1>2. Typed /\ Safe /\ [Next]_vars => (Typed /\ Safe)'
    BY NextTyped, NextSafe
  <1> QED
    BY <1>1, <1>2, PTL DEF Spec

\* The write-ahead rule of markDispatched() holds in every reachable state:
\* whatever began, in this process or an earlier one, is past `accepted' in
\* the durable journal, so that no recovery takes it for fresh work.
THEOREM WriteAhead == Spec => []ExecutionIsJournaled
  <1>1. Typed /\ Safe => ExecutionIsJournaled
    BY DEF Safe
  <1> QED
    BY <1>1, AlwaysSafe, PTL

\* The promise of recoverJournal(): no process begins what an earlier one
\* began, for any number of crashes, duplicates, seals and revocations.
THEOREM NoReplay == Spec => []NoReplayAfterRestart
  <1>1. Typed /\ Safe => NoReplayAfterRestart
    BY DEF Safe
  <1> QED
    BY <1>1, AlwaysSafe, PTL

\* The order of settleAndDeliver(): no terminal event is staged, sent or
\* awaited before its terminal is durable, whoever settles the command.
THEOREM EventsFollowTerminals == Spec => []TerminalBeforeEvent
  <1>1. Typed /\ Safe => TerminalBeforeEvent
    BY DEF Safe
  <1> QED
    BY <1>1, AlwaysSafe, PTL
=============================================================================
