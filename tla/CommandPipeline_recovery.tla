---------------------- MODULE CommandPipeline_recovery ----------------------
(***************************************************************************)
(* What recovery promises in CommandPipeline, for every set of commands    *)
(* and any number of deliveries, crashes and seals: a command it reports   *)
(* as interrupted has left no effect and will leave none, and a running    *)
(* Gateway strands no command.                                             *)
(***************************************************************************)
EXTENDS CommandPipeline_sessions

-----------------------------------------------------------------------------
(***************************************************************************)
(* Steps of the event handler and of the tasks.                            *)
(***************************************************************************)

\* The handler is about to decide from the row it read at the claim.
Decides == handler.pc \in {"reconcile", "decide"}

\* Every step of the handler but the claim and the reconciliation ends the
\* decision about the event in hand.
LEMMA HandlerLeaves ==
    ASSUME Typed, HandlerNext, ~ClaimEvent, ~Reconcile
    PROVE  ~Decides'
  <1>1. handler \in Handler
    BY DEF Typed, HandlerT
  <1>2. ASSUME NEW pc \in {"staging", "complete"}, NEW term,
               \/ handler' = [handler EXCEPT !.pc = pc, !.term = term]
               \/ handler' = [handler EXCEPT !.pc = pc]
        PROVE  handler'.pc = pc
    BY <1>1, <1>2 DEF Handler
  <1>3. CASE HandleFenced \/ HandleRejected
    <2>1. \E term : HandlerSettles(term)
      BY <1>3 DEF HandleFenced, HandleRejected
    <2>2. \/ \E term : handler' = [handler EXCEPT !.pc = "staging", !.term = term]
          \/ handler' = [handler EXCEPT !.pc = "complete"]
      BY <2>1 DEF HandlerSettles
    <2> QED
      BY <1>2, <2>2 DEF Decides
  <1>4. CASE HandleTerminal \/ HandleActive \/ HandleDeferred \/ HandleSchedule
             \/ HandlerStages
    <2>1. handler' = [handler EXCEPT !.pc = "complete"]
      BY <1>4 DEF HandleTerminal, HandleActive, HandleDeferred, HandleSchedule,
                  HandlerStages
    <2> QED
      BY <1>2, <2>1 DEF Decides
  <1>5. CASE CompleteEvent
    BY <1>5 DEF CompleteEvent, IdleHandler, Decides
  <1> QED
    BY <1>3, <1>4, <1>5 DEF HandlerNext

\* publishCommandReconciliation() keeps what was read at the claim.
LEMMA ReconcileShape ==
    ASSUME Typed, Reconcile
    PROVE  /\ handler.pc = "reconcile" /\ handler'.pc = "decide"
           /\ handler'.snap = handler.snap /\ handler'.dup = handler.dup
           /\ HandledCommand' = HandledCommand
  BY DEF Reconcile, Typed, HandlerT, Handler, HandledCommand, inboxVars

\* The claim of an event reads the row of its command.
LEMMA ClaimShape ==
    ASSUME Typed, ClaimEvent
    PROVE  /\ HandledCommand \in Commands /\ HandledCommand' = HandledCommand
           /\ \/ ~Decides' /\ UNCHANGED <<journal, claims>>
              \/ LET c == HandledCommand
                     dup == journal[c].status # "none" IN
                 /\ journal' = [journal EXCEPT ![c] = Claimed(@)]
                 /\ claims' = IF dup THEN claims ELSE Append(claims, c)
                 /\ handler'.pc = IF dup THEN "reconcile" ELSE "decide"
                 /\ handler'.dup = dup
                 /\ handler'.snap = Claimed(journal[c])
  <1>1. HandledCommand \in Commands
    <2>1. queue # <<>> /\ queue \in Seq(Nat) /\ arrived \in Seq(Commands)
      BY DEF ClaimEvent, Typed, QueueT
    <2>2. Head(queue) \in DOMAIN arrived
      BY <2>1, SeqHeadTail DEF Typed, QueueT
    <2> QED
      BY <2>1, <2>2, SeqElement DEF HandledCommand
  <1>2. HandledCommand' = HandledCommand
    BY DEF ClaimEvent, HandledCommand, inboxVars
  <1>3. CASE ~catalog \/ device = "revoked"
    <2>1. handler' = [handler EXCEPT !.pc = "complete"] /\ UNCHANGED <<journal, claims>>
      BY <1>3 DEF ClaimEvent
    <2>2. handler'.pc = "complete"
      BY <2>1 DEF Typed, HandlerT, Handler
    <2> QED
      BY <1>1, <1>2, <2>1, <2>2 DEF Decides
  <1>4. CASE ~(~catalog \/ device = "revoked")
    BY <1>1, <1>2, <1>4 DEF ClaimEvent, HandledCommand
  <1> QED
    BY <1>3, <1>4

\* receiveEvent() leaves the event in hand the first of the queue.
LEMMA ReceiveShape ==
    ASSUME Typed, NEW c \in Commands, Receive(c), handler.pc # "idle"
    PROVE  handler' = handler /\ HandledCommand' = HandledCommand
  <1>1. /\ queue # <<>> /\ queue \in Seq(Nat) /\ arrived \in Seq(Commands)
        /\ Head(queue) \in DOMAIN arrived
    BY HandledTyped DEF Typed, QueueT
  <1>2. arrived'[Head(queue)] = arrived[Head(queue)]
    BY <1>1 DEF Receive
  <1>3. Head(queue') = Head(queue)
    <2>1. queue' \in {queue, Append(queue, Len(arrived) + 1)}
      BY DEF Receive
    <2>2. Len(arrived) + 1 \in Nat
      BY <1>1
    <2> QED
      BY <1>1, <2>1, <2>2
  <1> QED
    BY <1>2, <1>3 DEF HandledCommand, Receive

\* scheduleExecution() adds one queued task and keeps the others.
LEMMA ScheduleShape ==
    ASSUME Typed, NEW c \in Commands, Schedule(c)
    PROVE  /\ DOMAIN tasks \subseteq DOMAIN tasks'
           /\ \A t \in DOMAIN tasks : tasks'[t] = tasks[t]
           /\ \E n : /\ DOMAIN tasks' = DOMAIN tasks \cup {n} /\ n \notin DOMAIN tasks
                     /\ n = Len(tasks) + 1 /\ n # 0
                     /\ tasks'[n].cmd = c /\ tasks'[n].pc = "queued"
                     /\ tasks'[n].cancel = "no" /\ tasks'[n].waits = Waits(c)
  <1> DEFINE new == NewTask(c, Waits(c))
  <1>0. PICK n : n = Len(tasks) + 1
    OBVIOUS
  <1>1. tasks \in Seq(Task) /\ tasks' = Append(tasks, new) /\ new \in Task
    <2>1. Waits(c) \in SUBSET Nat
      BY KeyAssumption DEF Waits, Typed, ScheduleT
    <2> QED
      BY <2>1 DEF Schedule, Typed, TasksT, NewTask, Task, TaskPcs
  <1>2. new.cmd = c /\ new.pc = "queued" /\ new.cancel = "no" /\ new.waits = Waits(c)
    BY DEF NewTask
  <1> HIDE DEF new
  <1>3. /\ DOMAIN tasks = 1..Len(tasks) /\ Len(tasks) \in Nat
        /\ DOMAIN tasks' = 1..n
        /\ \A i \in 1..Len(tasks) : tasks'[i] = tasks[i]
        /\ tasks'[n] = new
    BY <1>0, <1>1, SeqAppend
  <1>4. n \notin DOMAIN tasks /\ DOMAIN tasks' = DOMAIN tasks \cup {n} /\ n # 0
    BY <1>0, <1>3
  <1> QED
    BY <1>0, <1>2, <1>3, <1>4

-----------------------------------------------------------------------------
(***************************************************************************)
(* Who writes a terminal.                                                  *)
(***************************************************************************)

\* The methods of the journal but settle() keep the terminal of a row.
LEMMA TermKept ==
    ASSUME NEW row \in SoundRow, NEW term \in Terms
    PROVE  /\ Claimed(row).term = row.term
           /\ MarkedDispatched(row).term = row.term
           /\ MarkedDelivered(row, term).term = row.term
           /\ Settled(row, term).term \in {row.term, term}
  BY DEF SoundRow, Row, Claimed, MarkedDispatched, MarkedDelivered, Settled

LEMMA RowTerm ==
    ASSUME Typed, NEW c \in Commands, journal'[c].term # journal[c].term,
           NEW d \in Commands, NEW row, journal' = [journal EXCEPT ![d] = row]
    PROVE  c = d /\ journal'[c] = row
  BY DEF Typed, JournalT

LEMMA StoreTerm ==
    ASSUME Typed, NEW c \in Commands, journal'[c].term # journal[c].term,
           NEW d \in Commands, NEW term \in Terms, Store(d, term)
    PROVE  c = d /\ journal'[c].term = term
  <1>1. journal[d] \in SoundRow
    BY DEF Typed, JournalT
  <1>2. Settled(journal[d], term).term \in {journal[d].term, term}
    BY <1>1, TermKept
  <1>3. journal' = [journal EXCEPT ![d] = Settled(journal[d], term)]
    BY DEF Store
  <1>4. c = d /\ journal'[c] = Settled(journal[d], term)
    BY <1>3, RowTerm
  <1> QED
    BY <1>2, <1>4

\* A command fails, is rejected, completes by its task, is cancelled by a
\* cancellation that marked its prompt, or is settled by recovery.
LEMMA TermStep ==
    ASSUME Typed, [Next]_vars, NEW c \in Commands, journal'[c].term # journal[c].term
    PROVE  \/ journal'[c].term \in {"failed", "rejected"}
           \/ \E t \in DOMAIN tasks :
                Complete(t) /\ tasks[t].cmd = c /\ journal'[c].term = "completed"
           \/ \E t \in DOMAIN tasks : /\ SettleCancellation(t)
                                      /\ tasks[tasks[t].watch].cmd = c
                                      /\ journal'[c].term = "cancelled"
           \/ RecoverDispatched
  <1>0. {"completed", "cancelled", "failed", "rejected"} \subseteq Terms
    BY DEF Terms
  <1>1. journal' # journal
    OBVIOUS
  <1>2. ASSUME NEW d \in Commands, NEW row, row.term = journal[d].term,
               journal' = [journal EXCEPT ![d] = row]
        PROVE  FALSE
    BY <1>2, RowTerm
  <1>3. ~ClaimEvent
    <2> SUFFICES ASSUME ClaimEvent PROVE FALSE
      OBVIOUS
    <2>1. HandledCommand \in Commands
      BY ClaimShape
    <2>2. journal[HandledCommand] \in SoundRow
      BY <2>1 DEF Typed, JournalT
    <2>3. Claimed(journal[HandledCommand]).term = journal[HandledCommand].term
      BY <1>0, <2>2, TermKept
    <2>4. journal' = [journal EXCEPT ![HandledCommand] = Claimed(journal[HandledCommand])]
      BY <1>1, ClaimShape
    <2> QED
      BY <1>2, <2>1, <2>3, <2>4
  <1>4. CASE HandlerNext
    <2>1. CASE HandleFenced \/ HandleRejected
      <3>1. HandledCommand \in Commands
        BY <2>1, HandledTyped DEF HandleFenced, HandleRejected, Deciding
      <3>2. \E term \in {"failed", "rejected"} : HandlerSettles(term)
        BY <2>1 DEF HandleFenced, HandleRejected
      <3>3. \E term \in {"failed", "rejected"} : Store(HandledCommand, term)
        BY <1>1, <3>2 DEF HandlerSettles
      <3> QED
        BY <1>0, <3>1, <3>3, StoreTerm
    <2>2. CASE Reconcile \/ HandleTerminal \/ HandleActive \/ HandleDeferred
               \/ HandleSchedule \/ HandlerStages \/ CompleteEvent
      BY <1>1, <2>2 DEF Reconcile, HandleTerminal, HandleActive, HandleDeferred,
                        HandleSchedule, HandlerStages, CompleteEvent
    <2> QED
      BY <1>3, <1>4, <2>1, <2>2 DEF HandlerNext
  <1>5. CASE \E t \in DOMAIN tasks : TaskNext(t)
    <2>0. PICK t \in DOMAIN tasks : TaskNext(t)
      BY <1>5
    <2>1. tasks[t].cmd \in Commands
      BY TaskTyped
    <2>2. CASE Complete(t)
      <3>1. \E onThrow : TaskSettles(t, "completed", FALSE, onThrow)
        BY <2>2 DEF Complete
      <3>2. Store(tasks[t].cmd, "completed")
        BY <1>1, <3>1 DEF TaskSettles
      <3> QED
        BY <1>0, <2>1, <2>2, <3>2, StoreTerm
    <2>3. CASE Fail(t) \/ FailExpired(t)
      <3>1. \E allow, onThrow : TaskSettles(t, "failed", allow, onThrow)
        BY <2>3 DEF Fail, FailExpired
      <3>2. Store(tasks[t].cmd, "failed")
        BY <1>1, <3>1 DEF TaskSettles
      <3> QED
        BY <1>0, <2>1, <3>2, StoreTerm
    <2>4. ~Dispatch(t)
      <3> SUFFICES ASSUME Dispatch(t) PROVE FALSE
        OBVIOUS
      <3>1. journal[tasks[t].cmd] \in SoundRow
        BY <2>1 DEF Typed, JournalT
      <3>2. MarkedDispatched(journal[tasks[t].cmd]).term = journal[tasks[t].cmd].term
        BY <1>0, <3>1, TermKept
      <3>3. journal' = [journal EXCEPT
                          ![tasks[t].cmd] = MarkedDispatched(journal[tasks[t].cmd])]
        BY <1>1 DEF Dispatch
      <3> QED
        BY <1>2, <2>1, <3>2, <3>3
    <2>5. CASE SettleCancellation(t)
      <3>1. /\ TaskLinked(tasks[t], Len(tasks)) /\ tasks[t].pc = "cancelling"
            /\ DOMAIN tasks = 1..Len(tasks)
        BY <2>5, TaskTyped DEF SettleCancellation, At
      <3>2. tasks[tasks[t].watch].cmd \in Commands
        BY <3>1, TaskTyped DEF TaskLinked
      <3>3. Store(tasks[tasks[t].watch].cmd, "cancelled")
        BY <1>1, <2>5 DEF SettleCancellation
      <3> QED
        BY <1>0, <2>5, <3>2, <3>3, StoreTerm
    <2>6. CASE Begin(t) \/ StartAgent(t) \/ Throw(t) \/ InterruptBatch(t)
               \/ Deadline(t) \/ Persist(t) \/ Stage(t) \/ Confirmed(t)
               \/ CancelTurn(t) \/ StageCancellation(t) \/ JoinCancellation(t)
      BY <1>1, <2>6
      DEF Begin, StartAgent, Throw, InterruptBatch, Deadline, Persist, Stage,
          Confirmed, CancelTurn, StageCancellation, JoinCancellation
    <2> QED
      BY <2>0, <2>2, <2>3, <2>4, <2>5, <2>6 DEF TaskNext
  <1>6. ~DeliveryNext
    <2>1. ASSUME NEW w \in watching, ConfirmDelivery(w) PROVE FALSE
      <3>1. w.cmd \in Commands /\ w.term \in Terms
        BY DEF Typed, RoomT, Callback
      <3>2. journal[w.cmd] \in SoundRow
        BY <3>1 DEF Typed, JournalT
      <3>3. MarkedDelivered(journal[w.cmd], w.term).term = journal[w.cmd].term
        BY <3>1, <3>2, TermKept
      <3>4. journal' = [journal EXCEPT ![w.cmd] = MarkedDelivered(journal[w.cmd], w.term)]
        BY <1>1, <2>1 DEF ConfirmDelivery
      <3> QED
        BY <1>2, <3>1, <3>3, <3>4
    <2>2. /\ \A e \in outbox : ~Send(e) /\ ~Supersede(e)
          /\ \A w \in watching : ~FinalizeDeletion(w) /\ ~RedeliveryFails(w)
      BY <1>1 DEF Send, Supersede, FinalizeDeletion, RedeliveryFails
    <2> QED
      BY <2>1, <2>2 DEF DeliveryNext
  <1>7. RecoveryNext => RecoverDispatched
    BY <1>1 DEF RecoveryNext, Start, RecoverSkip, RecoverAccepted,
                RecoverStages, RecoverDeletions, DrainInbox
  <1>8. ~(\/ UNCHANGED vars
          \/ \E d \in Commands : Receive(d)
          \/ \E z \in expired : LateEnd(z)
          \/ DeploymentNext \/ Crash \/ Distrust)
    BY <1>1
    DEF vars, Receive, LateEnd, DeploymentNext, SealBegin, Seal, SealFail,
        ResumeDeferred, SealStop, Stop, Stopped, Crash, Halt, Distrust, sealFrame
  <1> QED
    BY <1>4, <1>5, <1>6, <1>7, <1>8 DEF Next

-----------------------------------------------------------------------------
(***************************************************************************)
(* What a step does to the other memories of a process.                    *)
(***************************************************************************)

\* A stopped process only starts; the durable inbox may grow meanwhile.
LEMMA DownStep ==
    ASSUME phase = "down", [Next]_vars
    PROVE  Start \/ UNCHANGED <<tasks, expired, deferred, handler, phase>>
  <1> USE DEF lifeVars
  <1>1. ~Up
    BY DEF Up
  <1>2. ~HandlerNext
    BY <1>1 DEF HandlerNext, ClaimEvent, Reconcile, HandleTerminal, HandleFenced,
                HandleRejected, HandleActive, HandleDeferred, HandleSchedule,
                HandlerStages, CompleteEvent, Admitted, Deciding
  <1>3. \A t \in DOMAIN tasks : ~TaskNext(t)
    BY <1>1
    DEF TaskNext, Dispatch, Begin, StartAgent, Complete, ReadyToSettle, Throw,
        InterruptBatch, Fail, Deadline, FailExpired, Persist, Stage, Confirmed,
        CancelTurn, SettleCancellation, StageCancellation, JoinCancellation, At
  <1>4. ~DeliveryNext /\ \A z \in expired : ~LateEnd(z)
    BY <1>1 DEF DeliveryNext, Send, Supersede, RedeliveryFails, ConfirmDelivery,
                FinalizeDeletion, LateEnd
  <1>5. RecoveryNext => Start
    BY <1>1 DEF RecoveryNext, RecoverSkip, RecoverAccepted, RecoverDispatched,
                RecoverStages, RecoverDeletions, DrainInbox, Recovering
  <1>6. ~DeploymentNext /\ ~Crash
    BY <1>1 DEF DeploymentNext, SealBegin, Seal, SealFail, ResumeDeferred,
                SealStop, Stop, Stopped, Crash
  <1>7. CASE \/ UNCHANGED vars \/ Distrust
             \/ \E c \in Commands : Receive(c)
    BY <1>7 DEF vars, Distrust, Receive
  <1> QED
    BY <1>2, <1>3, <1>4, <1>5, <1>6, <1>7 DEF Next

\* Every step but a start and the end of a process keeps its phase or moves
\* it on, and the rows recovery works from are read once.
LEMMA PhaseStep ==
    ASSUME Typed, [Next]_vars, ~Start, ~Halt
    PROVE  /\ phase' = "down" => phase = "down"
           /\ phase' = "recovering" =>
                phase = "recovering" /\ recover'.snap = recover.snap
  <1> USE DEF lifeVars
  <1>1. CASE UNCHANGED <<phase, recover>>
    BY <1>1
  <1>2. CASE RecoveryNext
    <2>1. recover \in Recovery
      BY DEF Typed, RecoverT
    <2>2. ASSUME NEW at, NEW term,
                 \/ recover' = [recover EXCEPT !.at = at]
                 \/ recover' = [recover EXCEPT !.term = term]
                 \/ recover' = [recover EXCEPT !.at = at, !.term = term]
          PROVE  recover'.snap = recover.snap
      BY <2>1, <2>2 DEF Recovery
    <2>3. CASE RecoverSkip \/ RecoverAccepted \/ RecoverDispatched \/ RecoverStages
      <3>1. phase = "recovering" /\ UNCHANGED phase
        BY <2>3 DEF RecoverSkip, RecoverAccepted, RecoverDispatched,
                    RecoverStages, Recovering
      <3>2. \E at, term :
                 \/ recover' = [recover EXCEPT !.at = at]
                 \/ recover' = [recover EXCEPT !.term = term]
                 \/ recover' = [recover EXCEPT !.at = at, !.term = term]
        BY <2>3 DEF RecoverSkip, RecoverAccepted, RecoverDispatched, RecoverStages
      <3> QED
        BY <2>2, <3>1, <3>2
    <2>4. CASE RecoverDeletions \/ DrainInbox
      BY <2>4 DEF RecoverDeletions, DrainInbox
    <2> QED
      BY <1>2, <2>3, <2>4 DEF RecoveryNext
  <1>3. CASE HandlerNext
    BY <1>1, <1>3
    DEF HandlerNext, ClaimEvent, Reconcile, HandleTerminal, HandleFenced,
        HandleRejected, HandlerSettles, HandleActive, HandleDeferred,
        HandleSchedule, HandlerStages, CompleteEvent
  <1>4. CASE \E t \in DOMAIN tasks : TaskNext(t)
    BY <1>1, <1>4
    DEF TaskNext, Dispatch, Begin, StartAgent, Complete, TaskSettles, Throw,
        InterruptBatch, Fail, Deadline, FailExpired, Persist, Stage, Confirmed,
        CancelTurn, SettleCancellation, StageCancellation, JoinCancellation,
        taskFrame
  <1>5. CASE DeliveryNext \/ \E z \in expired : LateEnd(z)
    BY <1>1, <1>5 DEF DeliveryNext, Send, Supersede, RedeliveryFails, ConfirmDelivery,
                      FinalizeDeletion, deliveryFrame, LateEnd, taskFrame
  <1>6. CASE DeploymentNext \/ Crash
    BY <1>6 DEF DeploymentNext, SealBegin, Seal, SealFail, ResumeDeferred,
                SealStop, Stop, Stopped, Crash, sealFrame
  <1>7. CASE UNCHANGED vars \/ Distrust \/ \E c \in Commands : Receive(c)
    BY <1>1, <1>7 DEF vars, Distrust, Receive
  <1> QED
    BY <1>2, <1>3, <1>4, <1>5, <1>6, <1>7 DEF Next

\* An execution passes its deadline only as a task.
LEMMA ExpiredStep ==
    ASSUME [Next]_vars, NEW z \in expired'
    PROVE  \/ z \in expired
           \/ \E t \in DOMAIN tasks : Deadline(t) /\ z.cmd = tasks[t].cmd
  <1>1. CASE UNCHANGED expired
    BY <1>1
  <1>2. CASE \E t \in DOMAIN tasks : TaskNext(t)
    <2>1. PICK t \in DOMAIN tasks : TaskNext(t)
      BY <1>2
    <2>2. CASE Deadline(t)
      <3>1. expired' = expired \cup {[cmd |-> tasks[t].cmd,
                                      persisting |-> tasks[t].pc = "persisting"]}
        BY <2>2 DEF Deadline
      <3> QED
        BY <2>2, <3>1
    <2>3. CASE ~Deadline(t)
      BY <1>1, <2>1, <2>3
      DEF TaskNext, Dispatch, Begin, StartAgent, Complete, TaskSettles, Throw,
          InterruptBatch, Fail, FailExpired, Persist, Stage, Confirmed,
          CancelTurn, SettleCancellation, StageCancellation, JoinCancellation
    <2> QED
      BY <2>2, <2>3
  <1>3. CASE HandlerNext
    BY <1>1, <1>3
    DEF HandlerNext, ClaimEvent, Reconcile, HandleTerminal, HandleFenced,
        HandleRejected, HandlerSettles, HandleActive, HandleDeferred,
        HandleSchedule, HandlerStages, CompleteEvent
  <1>4. CASE DeliveryNext
    BY <1>1, <1>4 DEF DeliveryNext, Send, Supersede, RedeliveryFails, ConfirmDelivery,
                      FinalizeDeletion, deliveryFrame
  <1>5. CASE \E y \in expired : LateEnd(y)
    BY <1>5 DEF LateEnd
  <1>6. CASE DeploymentNext \/ Crash
    BY <1>1, <1>6 DEF DeploymentNext, SealBegin, Seal, SealFail, ResumeDeferred,
                      SealStop, Stop, Stopped, Crash, Halt, sealFrame
  <1>7. CASE RecoveryNext
    BY <1>1, <1>7
    DEF RecoveryNext, Start, RecoverSkip, RecoverAccepted, RecoverDispatched,
        RecoverStages, RecoverDeletions, DrainInbox, startFrame, recoverFrame
  <1>8. CASE UNCHANGED vars \/ Distrust \/ \E c \in Commands : Receive(c)
    BY <1>1, <1>8 DEF vars, Distrust, Receive
  <1> QED
    BY <1>2, <1>3, <1>4, <1>5, <1>6, <1>7, <1>8 DEF Next

\* A command is deferred only by the handler of a sealed Gateway.
LEMMA DeferredStep ==
    ASSUME Typed, [Next]_vars, NEW i \in DOMAIN deferred'
    PROVE  \/ \E j \in DOMAIN deferred : deferred'[i] = deferred[j]
           \/ HandleDeferred /\ deferred'[i] = HandledCommand
  <1> USE DEF lifeVars
  <1>0. deferred \in Seq(Commands)
    BY DEF Typed, LifeT
  <1>1. CASE UNCHANGED deferred
    BY <1>1
  <1>2. CASE \E t \in DOMAIN tasks : TaskNext(t)
    BY <1>1, <1>2
    DEF TaskNext, Dispatch, Begin, StartAgent, Complete, TaskSettles, Throw,
        InterruptBatch, Fail, Deadline, FailExpired, Persist, Stage, Confirmed,
        CancelTurn, SettleCancellation, StageCancellation, JoinCancellation,
        taskFrame
  <1>3. CASE HandleDeferred
    <2>1. handler.pc # "idle"
      BY <1>3 DEF HandleDeferred, Admitted, Deciding
    <2>2. HandledCommand \in Commands
      BY <2>1, HandledTyped
    <2>3. UNCHANGED deferred \/ deferred' = Append(deferred, HandledCommand)
      BY <1>3 DEF HandleDeferred
    <2> QED
      BY <1>0, <1>1, <1>3, <2>2, <2>3, SeqAppend
  <1>4. CASE HandlerNext /\ ~HandleDeferred
    BY <1>1, <1>4
    DEF HandlerNext, ClaimEvent, Reconcile, HandleTerminal, HandleFenced,
        HandleRejected, HandlerSettles, HandleActive, HandleSchedule,
        HandlerStages, CompleteEvent
  <1>5. CASE DeliveryNext \/ \E z \in expired : LateEnd(z)
    BY <1>1, <1>5 DEF DeliveryNext, Send, Supersede, RedeliveryFails, ConfirmDelivery,
                      FinalizeDeletion, deliveryFrame, LateEnd, taskFrame
  <1>6. CASE Halt
    BY <1>6 DEF Halt
  <1>7. CASE ResumeDeferred
    <2>1. deferred # <<>> /\ deferred' = Tail(deferred)
      BY <1>7 DEF ResumeDeferred, Reopening
    <2> QED
      BY <1>0, <2>1, SeqHeadTail
  <1>8. CASE DeploymentNext \/ Crash
    BY <1>1, <1>6, <1>7, <1>8
    DEF DeploymentNext, SealBegin, Seal, SealFail, SealStop, Stop, Stopped,
        Crash
  <1>9. CASE RecoveryNext
    BY <1>1, <1>9
    DEF RecoveryNext, Start, RecoverSkip, RecoverAccepted, RecoverDispatched,
        RecoverStages, RecoverDeletions, DrainInbox, startFrame, recoverFrame
  <1>10. CASE UNCHANGED vars \/ Distrust \/ \E c \in Commands : Receive(c)
    BY <1>1, <1>10 DEF vars, Distrust, Receive
  <1> QED
    BY <1>2, <1>3, <1>4, <1>5, <1>8, <1>9, <1>10 DEF Next

\* A decision of the handler is about a row it has just read, or goes on.
LEMMA DecisionStep ==
    ASSUME Typed, [Next]_vars, Decides'
    PROVE  /\ HandledCommand' = HandledCommand
           /\ \/ ClaimEvent
              \/ Reconcile
              \/ Decides /\ UNCHANGED handler
  <1>1. CASE UNCHANGED <<handler, queue, arrived>>
    BY <1>1 DEF Decides, HandledCommand
  <1>2. CASE ClaimEvent
    BY <1>2, ClaimShape
  <1>3. CASE Reconcile
    BY <1>3, ReconcileShape
  <1>4. CASE HandlerNext
    BY <1>2, <1>3, <1>4, HandlerLeaves
  <1>5. ASSUME NEW c \in Commands, Receive(c)
        PROVE  HandledCommand' = HandledCommand /\ Decides /\ UNCHANGED handler
    <2>1. UNCHANGED handler
      BY <1>5 DEF Receive
    <2>2. Decides /\ handler.pc # "idle"
      BY <2>1 DEF Decides
    <2> QED
      BY <1>5, <2>1, <2>2, ReceiveShape
  <1>6. CASE \E t \in DOMAIN tasks : TaskNext(t)
    BY <1>1, <1>6
    DEF TaskNext, Dispatch, Begin, StartAgent, Complete, TaskSettles, Throw,
        InterruptBatch, Fail, Deadline, FailExpired, Persist, Stage, Confirmed,
        CancelTurn, SettleCancellation, StageCancellation, JoinCancellation,
        taskFrame, inboxVars
  <1>7. CASE DeliveryNext \/ \E z \in expired : LateEnd(z)
    BY <1>1, <1>7 DEF DeliveryNext, Send, Supersede, RedeliveryFails, ConfirmDelivery,
                      FinalizeDeletion, deliveryFrame, LateEnd, taskFrame, inboxVars
  <1>8. CASE Halt
    BY <1>8 DEF Halt, IdleHandler, Decides
  <1>9. CASE DeploymentNext \/ Crash
    BY <1>1, <1>8, <1>9
    DEF DeploymentNext, SealBegin, Seal, SealFail, ResumeDeferred, SealStop,
        Stop, Stopped, Crash, sealFrame, inboxVars
  <1>10. CASE RecoveryNext
    <2>1. CASE DrainInbox
      <3>1. UNCHANGED <<handler, arrived>>
        BY <2>1 DEF DrainInbox, startFrame, recoverFrame, inboxVars
      <3>2. Decides /\ handler.pc # "idle"
        BY <3>1 DEF Decides
      <3>3. queue # <<>> /\ queue \in Seq(Nat) /\ recover.at \in Nat
        BY <3>2, HandledTyped DEF Typed, RecoverT, Recovery
      <3>4. queue' = queue \/ queue' = Append(queue, recover.at)
        BY <2>1 DEF DrainInbox
      <3>5. Head(queue') = Head(queue)
        BY <3>3, <3>4
      <3> QED
        BY <3>1, <3>2, <3>5 DEF HandledCommand
    <2>2. CASE RecoveryNext /\ ~DrainInbox
      BY <1>1, <2>2
      DEF RecoveryNext, Start, RecoverSkip, RecoverAccepted, RecoverDispatched,
          RecoverStages, RecoverDeletions, startFrame, recoverFrame, inboxVars
    <2> QED
      BY <1>10, <2>1, <2>2
  <1>11. CASE UNCHANGED vars \/ Distrust
    BY <1>1, <1>11 DEF vars, Distrust, inboxVars
  <1> QED
    BY <1>4, <1>5, <1>6, <1>7, <1>9, <1>10, <1>11 DEF Next

\* An effect is persisted by a task or by an execution past its deadline, in
\* a step that settles nothing.
LEMMA AppliedStep ==
    ASSUME [Next]_vars, NEW c \in applied', c \notin applied
    PROVE  /\ UNCHANGED journal
           /\ \/ \E t \in DOMAIN tasks : tasks[t].cmd = c
              \/ \E z \in expired : z.cmd = c
  <1>1. applied' # applied
    OBVIOUS
  <1>2. CASE \E t \in DOMAIN tasks : TaskNext(t)
    <2>1. PICK t \in DOMAIN tasks : TaskNext(t)
      BY <1>2
    <2>2. CASE Persist(t)
      BY <2>2 DEF Persist
    <2>3. CASE ~Persist(t)
      BY <1>1, <2>1, <2>3
      DEF TaskNext, Dispatch, Begin, StartAgent, Complete, TaskSettles, Throw,
          InterruptBatch, Fail, Deadline, FailExpired, Stage, Confirmed,
          CancelTurn, SettleCancellation, StageCancellation, JoinCancellation
    <2> QED
      BY <2>2, <2>3
  <1>3. CASE \E z \in expired : LateEnd(z)
    BY <1>3 DEF LateEnd
  <1>4. ~HandlerNext
    BY <1>1
    DEF HandlerNext, ClaimEvent, Reconcile, HandleTerminal, HandleFenced,
        HandleRejected, HandlerSettles, HandleActive, HandleDeferred,
        HandleSchedule, HandlerStages, CompleteEvent
  <1>5. ~DeliveryNext
    BY <1>1 DEF DeliveryNext, Send, Supersede, RedeliveryFails, ConfirmDelivery,
                FinalizeDeletion, deliveryFrame
  <1>6. ~DeploymentNext /\ ~Crash
    BY <1>1 DEF DeploymentNext, SealBegin, Seal, SealFail, ResumeDeferred,
                SealStop, Stop, Stopped, Crash, Halt, sealFrame
  <1>7. ~RecoveryNext
    BY <1>1
    DEF RecoveryNext, Start, RecoverSkip, RecoverAccepted, RecoverDispatched,
        RecoverStages, RecoverDeletions, DrainInbox, startFrame, recoverFrame
  <1>8. ~(UNCHANGED vars \/ Distrust \/ \E d \in Commands : Receive(d))
    BY <1>1 DEF vars, Distrust, Receive
  <1> QED
    BY <1>2, <1>3, <1>4, <1>5, <1>6, <1>7, <1>8 DEF Next

-----------------------------------------------------------------------------
(***************************************************************************)
(* Interrupted commands.  Only recovery settles a command as interrupted,  *)
(* from a row that was dispatched when the process started: the invariant  *)
(* is that nothing of this process can still execute such a command, and   *)
(* nothing of a later one will.                                            *)
(***************************************************************************)

\* A command that recovery has interrupted, or is about to settle.  A batch
\* is neither: it is resumed.
Closed(c) ==
    /\ Op[c] # "batch"
    /\ \/ journal[c].term = "interrupted"
       \/ phase = "recovering" /\ recover.snap[c].status = "dispatched"

NoTask(c) == \A t \in DOMAIN tasks : tasks[t].cmd # c

NoLateEnd(c) == \A z \in expired : z.cmd # c

NotDeferred(c) == \A i \in DOMAIN deferred : deferred[i] # c

NotAdmitted(c) ==
    Decides /\ HandledCommand = c => handler.snap.status # "accepted"

NotRecovered(c) == phase = "recovering" => recover.snap[c].status # "accepted"

\* Nothing of this process will execute the command.
Barred(c) ==
    /\ Begun(c) /\ NoTask(c) /\ NoLateEnd(c) /\ NotDeferred(c)
    /\ NotAdmitted(c) /\ NotRecovered(c)

ClosedIsBarred == \A c \in Commands : Closed(c) => Barred(c)

BatchesResume == \A c \in Commands : journal[c].term = "interrupted" => Op[c] # "batch"

\* A process that is down remembers nothing.
Dark ==
    phase = "down" => /\ tasks = <<>> /\ expired = {} /\ deferred = <<>>
                      /\ handler.pc = "idle"

Interruptions == ClosedIsBarred /\ BatchesResume /\ Dark /\ InterruptedHasNoEffect

\* Nothing is interrupted when nothing has arrived.
LEMMA InitInterruptions == Init => Interruptions
  BY DEF Init, Interruptions, ClosedIsBarred, Closed, BatchesResume, Dark,
         InterruptedHasNoEffect, NoRow, NoRecovery

\* What recovery interrupts in a step.
LEMMA InterruptStep ==
    ASSUME Typed, [Next]_vars, NEW c \in Commands,
           journal'[c].term = "interrupted", journal[c].term # "interrupted"
    PROVE  /\ RecoverDispatched /\ phase = "recovering" /\ c \notin applied
           /\ Op[c] # "batch" /\ recover.snap[c].status = "dispatched"
           /\ UNCHANGED applied
  <1>1. RecoverDispatched
    BY TermStep
  <1> DEFINE d == claims[recover.at]
             term == IF d \in applied THEN "completed" ELSE "interrupted"
  <1>2. /\ phase = "recovering" /\ recover.snap[d].status = "dispatched"
        /\ Op[d] # "batch" /\ UNCHANGED applied
    BY <1>1 DEF RecoverDispatched, Recovering, startFrame, recoverFrame
  <1>3. d \in Commands /\ journal[d] \in SoundRow
    BY <1>1, RecoveredTyped DEF RecoverDispatched, Recovering, Typed, JournalT
  <1>4. journal' = [journal EXCEPT ![d] = Settled(@, term)] \/ UNCHANGED journal
    BY <1>1 DEF RecoverDispatched, Store
  <1>5. term \in Terms
    BY DEF Terms
  <1> HIDE DEF term
  <1>6. Settled(journal[d], term).term \in {journal[d].term, term}
    BY <1>3, <1>5, TermKept
  <1>7. c = d /\ term = "interrupted"
    BY <1>3, <1>4, <1>6 DEF Typed, JournalT
  <1> QED
    BY <1>1, <1>2, <1>7 DEF term

\* No step but a start closes a command.
LEMMA ClosedBefore ==
    ASSUME Typed, [Next]_vars, ~Start, NEW c \in Commands, Closed(c)'
    PROVE  Closed(c)
  <1>1. CASE journal'[c].term = "interrupted"
    BY <1>1, InterruptStep DEF Closed
  <1>2. CASE phase' = "recovering" /\ recover'.snap[c].status = "dispatched"
    <2>1. ~Halt
      BY <1>2 DEF Halt
    <2> QED
      BY <1>2, <2>1, PhaseStep DEF Closed
  <1> QED
    BY <1>1, <1>2 DEF Closed

\* A row that is interrupted is terminal.
LEMMA InterruptedEnded ==
    ASSUME Typed, NEW c \in Commands, journal[c].term = "interrupted"
    PROVE  journal[c].status = "terminal"
  BY DEF Typed, JournalT, SoundRow

\* start() takes up nothing it finds dispatched or interrupted.
LEMMA StartBarred ==
    ASSUME Typed, Dark, Start, NEW c \in Commands, Closed(c)'
    PROVE  Barred(c)'
  <1>1. /\ phase = "down" /\ UNCHANGED <<journal, tasks, expired, deferred, handler>>
        /\ recover' = [NoRecovery EXCEPT !.snap = journal]
    BY DEF Start, startFrame, recoverFrame
  <1>2. recover'.snap = journal
    BY <1>1 DEF NoRecovery
  <1>3. tasks' = <<>> /\ expired' = {} /\ deferred' = <<>> /\ handler'.pc = "idle"
    BY <1>1 DEF Dark
  <1>4. journal[c].status \in {"dispatched", "terminal"}
    BY <1>1, <1>2, InterruptedEnded DEF Closed
  <1> QED
    BY <1>1, <1>2, <1>3, <1>4
    DEF Barred, Begun, NoTask, NoLateEnd, NotDeferred, NotAdmitted, Decides,
        NotRecovered

\* A crash forgets every execution.
LEMMA HaltBarred ==
    ASSUME Typed, Halt, NEW c \in Commands, Closed(c)'
    PROVE  Barred(c)'
  <1>1. /\ phase' = "down" /\ UNCHANGED journal /\ tasks' = <<>> /\ expired' = {}
        /\ deferred' = <<>> /\ handler'.pc = "idle"
    BY DEF Halt, IdleHandler
  <1>2. journal[c].status = "terminal"
    BY <1>1, InterruptedEnded DEF Closed
  <1> QED
    BY <1>1, <1>2
    DEF Barred, Begun, NoTask, NoLateEnd, NotDeferred, NotAdmitted, Decides,
        NotRecovered

\* No other step lets a closed command in.
LEMMA StaysBarred ==
    ASSUME Typed, Typed', Safe, [Next]_vars, ~Start, ~Halt,
           NEW c \in Commands, Closed(c), Barred(c)
    PROVE  Barred(c)'
  <1>1. Begun(c)'
    BY NextForward, KnowledgeKept DEF Barred
  <1>2. ASSUME Admitted PROVE HandledCommand # c
    BY <1>2 DEF Admitted, Deciding, Barred, NotAdmitted, Decides
  <1>3. NoTask(c)'
    <2>1. ASSUME NEW d \in Commands, Schedule(d), Admits(d) PROVE NoTask(c)'
      <3>1. d # c
        <4>1. CASE HandleSchedule /\ d = HandledCommand
          BY <1>2, <4>1 DEF HandleSchedule
        <4>2. CASE RecoverAccepted /\ d = claims[recover.at]
          BY <4>2 DEF RecoverAccepted, Recovering, Barred, NotRecovered, Closed
        <4>3. CASE ResumeDeferred /\ d = Head(deferred)
          <5>1. deferred # <<>> /\ deferred \in Seq(Commands)
            BY <4>3 DEF ResumeDeferred, Reopening, Typed, LifeT
          <5>2. 1 \in DOMAIN deferred /\ Head(deferred) = deferred[1]
            BY <5>1, SeqHeadTail
          <5> QED
            BY <4>3, <5>2 DEF Barred, NotDeferred
        <4> QED
          BY <2>1, <4>1, <4>2, <4>3 DEF Admits
      <3>2. PICK n : DOMAIN tasks' = DOMAIN tasks \cup {n} /\ tasks'[n].cmd = d
        BY <2>1, ScheduleShape
      <3>3. \A t \in DOMAIN tasks : tasks'[t] = tasks[t]
        BY <2>1, ScheduleShape
      <3> QED
        BY <3>1, <3>2, <3>3 DEF Barred, NoTask
    <2>2. CASE Rests \/ \E t \in DOMAIN tasks : Moves(t)
      BY <2>2 DEF Rests, Moves, Same, Barred, NoTask
    <2> QED
      BY <2>1, <2>2, TaskShape
  <1>4. NoLateEnd(c)'
    BY ExpiredStep DEF Barred, NoLateEnd, NoTask
  <1>5. NotDeferred(c)'
    <2>1. ASSUME NEW i \in DOMAIN deferred' PROVE deferred'[i] # c
      <3>1. CASE \E j \in DOMAIN deferred : deferred'[i] = deferred[j]
        BY <3>1 DEF Barred, NotDeferred
      <3>2. CASE HandleDeferred /\ deferred'[i] = HandledCommand
        BY <1>2, <3>2 DEF HandleDeferred
      <3> QED
        BY <3>1, <3>2, DeferredStep
    <2> QED
      BY <2>1 DEF NotDeferred
  <1>6. NotAdmitted(c)'
    <2> SUFFICES ASSUME Decides', HandledCommand' = c
                 PROVE  handler'.snap.status # "accepted"
      BY DEF NotAdmitted
    <2>1. HandledCommand = c
      BY DecisionStep
    <2>2. CASE ClaimEvent
      <3>1. handler'.snap = Claimed(journal[c])
        BY <2>1, <2>2, ClaimShape
      <3>2. journal[c].status \in {"dispatched", "terminal"} /\ journal[c] \in SoundRow
        BY DEF Barred, Begun, Typed, JournalT
      <3> QED
        BY <3>1, <3>2 DEF Claimed
    <2>3. CASE Reconcile
      BY <2>1, <2>3, ReconcileShape DEF Barred, NotAdmitted, Decides
    <2>4. CASE Decides /\ UNCHANGED handler
      BY <2>1, <2>4 DEF Barred, NotAdmitted
    <2> QED
      BY <2>2, <2>3, <2>4, DecisionStep
  <1>7. NotRecovered(c)'
    BY PhaseStep DEF Barred, NotRecovered
  <1> QED
    BY <1>1, <1>3, <1>4, <1>5, <1>6, <1>7 DEF Barred

\* Every step keeps the invariant.
LEMMA NextInterruptions ==
    Typed /\ Typed' /\ Safe /\ Interruptions /\ [Next]_vars => Interruptions'
  <1> SUFFICES ASSUME Typed, Typed', Safe, Interruptions, [Next]_vars
               PROVE  Interruptions'
    OBVIOUS
  <1>1. ClosedIsBarred'
    <2> SUFFICES ASSUME NEW c \in Commands, Closed(c)'
                 PROVE  Barred(c)'
      BY DEF ClosedIsBarred
    <2>1. CASE Start
      BY <2>1, StartBarred DEF Interruptions
    <2>2. CASE Halt
      BY <2>2, HaltBarred
    <2>3. CASE ~Start /\ ~Halt
      <3>1. Closed(c)
        BY <2>3, ClosedBefore
      <3>2. Barred(c)
        BY <3>1 DEF Interruptions, ClosedIsBarred
      <3> QED
        BY <2>3, <3>1, <3>2, StaysBarred
    <2> QED
      BY <2>1, <2>2, <2>3
  <1>2. BatchesResume'
    BY InterruptStep DEF Interruptions, BatchesResume
  <1>3. Dark'
    <2>1. CASE Halt
      BY <2>1 DEF Halt, Dark, IdleHandler
    <2>2. CASE Start
      BY <2>2 DEF Start, Dark
    <2>3. CASE ~Start /\ ~Halt
      BY <2>3, PhaseStep, DownStep DEF Interruptions, Dark
    <2> QED
      BY <2>1, <2>2, <2>3
  <1>4. InterruptedHasNoEffect'
    <2> SUFFICES ASSUME NEW c \in applied', journal'[c].term = "interrupted"
                 PROVE  FALSE
      BY DEF InterruptedHasNoEffect
    <2>1. c \in Commands
      BY DEF Typed, EffectT
    <2>2. CASE c \in applied
      BY <2>1, <2>2, InterruptStep DEF Interruptions, InterruptedHasNoEffect
    <2>3. CASE c \notin applied
      <3>1. UNCHANGED journal /\ ~(NoTask(c) /\ NoLateEnd(c))
        BY <2>3, AppliedStep DEF NoTask, NoLateEnd
      <3>2. Closed(c)
        BY <2>1, <3>1 DEF Closed, Interruptions, BatchesResume
      <3> QED
        BY <2>1, <3>1, <3>2 DEF Interruptions, ClosedIsBarred, Barred
    <2> QED
      BY <2>2, <2>3
  <1> QED
    BY <1>1, <1>2, <1>3, <1>4 DEF Interruptions

\* A command that recovery reports as interrupted has changed nothing, and
\* nothing will: no lifecycle change is written under such a report, before it
\* or after it, by a task, by an execution past its deadline, by a duplicate
\* or by a later process.
THEOREM InterruptedLeavesNothing == Spec => []InterruptedHasNoEffect
  <1>1. Init => Typed /\ Safe /\ Interruptions
    BY InitTyped, InitSafe, InitInterruptions
  <1>2. Typed /\ Safe /\ Interruptions /\ [Next]_vars
          => (Typed /\ Safe /\ Interruptions)'
    BY NextTyped, NextSafe, NextInterruptions
  <1>3. Interruptions => InterruptedHasNoEffect
    BY DEF Interruptions
  <1> QED
    BY <1>1, <1>2, <1>3, PTL DEF Spec

-----------------------------------------------------------------------------
(***************************************************************************)
(* Stranded commands.  A command nobody has settled is in the hands of a   *)
(* task, of the deferred ones, of the recovery loop or of the handler that *)
(* has just claimed it.  A holder lets go by settling the command or by    *)
(* passing it on, and relies on what it remembers of the others: that an   *)
(* active task is not over, that a cancelled prompt is settled, that an    *)
(* execution past its deadline still has its timed-out task, and that a    *)
(* duplicate has another holder.                                           *)
(***************************************************************************)

HasTask(c) == \E t \in DOMAIN tasks : tasks[t].cmd = c /\ tasks[t].pc # "done"

IsDeferred(c) == \E i \in DOMAIN deferred : deferred[i] = c

\* The loop of recoverJournal() has yet to reach the command.
Pending(c) ==
    /\ phase = "recovering" /\ Unfinished(recover.snap[c])
    /\ \E i \in DOMAIN claims : i >= recover.at /\ claims[i] = c

Fresh(c) == handler.pc = "decide" /\ ~handler.dup /\ HandledCommand = c

Owed(c) == Live /\ catalog /\ Unfinished(journal[c]) /\ Op[c] # "batch"

\* Every command that is owed an answer is in somebody's hands.
Held ==
    \A c \in Commands :
        Owed(c) => HasTask(c) \/ IsDeferred(c) \/ Pending(c) \/ Fresh(c)

\* The recovery loop goes over every row.
AllClaimed == \A c \in Commands : Known(c) => \E i \in DOMAIN claims : claims[i] = c

ActiveRuns ==
    \A c \in Commands :
        active[c] # 0 => /\ active[c] \in DOMAIN tasks
                         /\ tasks[active[c]].cmd = c /\ tasks[active[c]].pc # "done"

PromptsMatch ==
    \A c \in Commands :
        prompts[c] # 0 => prompts[c] \in DOMAIN tasks /\ tasks[prompts[c]].cmd = c

SettledFlags ==
    \A t \in DOMAIN tasks :
        tasks[t].cancel = "settled" \/ tasks[t].pc = "confirming" => Ended(tasks[t].cmd)

TimedOut(c) == \E t \in DOMAIN tasks : tasks[t].cmd = c /\ tasks[t].pc = "timedout"

ExpiredEnds == \A z \in expired : Ended(z.cmd) \/ TimedOut(z.cmd)

\* What the handler read at the claim.
Decision ==
    Decides =>
        /\ handler.pc = "reconcile" \/ handler.snap.status = "dispatched" => handler.dup
        /\ handler.snap.status = "terminal" => Ended(HandledCommand)

Keeping ==
    /\ Held /\ AllClaimed /\ ActiveRuns /\ PromptsMatch /\ SettledFlags
    /\ ExpiredEnds /\ Decision

\* Nothing is owed when nothing has arrived.
LEMMA InitKeeping == Init => Keeping
  BY DEF Init, Keeping, Held, Owed, AllClaimed, ActiveRuns, PromptsMatch,
         SettledFlags, ExpiredEnds, Decision, Decides, IdleHandler, NoRow,
         Unfinished, Known

\* A command whose settle() is refused or ignored has ended or has its
\* timed-out task.
LEMMA Refused ==
    ASSUME Typed, ExpiredEnds, NEW c \in Commands, NEW term, NEW allow \in BOOLEAN,
           NEW same \in BOOLEAN, SettleResult(c, term, allow, same) # "stored"
    PROVE  /\ Ended(c) \/ TimedOut(c)
           /\ SettleResult(c, term, allow, same) # "ignored" \/ allow => Ended(c)
  <1>1. CASE SettleThrows(journal[c], term, same)
    BY <1>1 DEF SettleThrows, Ended, SettleResult, ExpiredEnds
  <1>2. CASE ~allow /\ \E z \in expired : z.cmd = c
    <2>1. SettleResult(c, term, allow, same) = "ignored"
      BY <1>2 DEF SettleResult
    <2> QED
      BY <1>2, <2>1 DEF ExpiredEnds
  <1> QED
    BY <1>1, <1>2 DEF SettleResult

\* settle() ends its command.
LEMMA StoreEnds ==
    ASSUME Typed, NEW c \in Commands, NEW term \in Terms, Store(c, term)
    PROVE  Ended(c)'
  <1>1. journal[c] \in SoundRow
    BY DEF Typed, JournalT
  <1>2. journal'[c] = Settled(journal[c], term)
    BY DEF Store, Typed, JournalT
  <1> QED
    BY <1>1, <1>2 DEF Settled, SoundRow, Row, Ended

\* A task that ends leaves its command settled, or to its timed-out task; a
\* batch may end without either, and is resumed.  A task that waits for Matrix
\* has settled its command.
LEMMA DoneStep ==
    ASSUME Typed, Typed', Safe, Forward, Keeping, NEW t \in DOMAIN tasks, TaskNext(t),
           tasks'[t].pc \in {"done", "confirming"}, NEW c \in Commands, tasks[t].cmd = c
    PROVE  \/ Ended(c)'
           \/ /\ tasks'[t].pc = "done"
              /\ \/ Op[c] = "batch"
                 \/ \E u \in DOMAIN tasks : /\ u # t /\ tasks[u].cmd = c
                                            /\ tasks[u].pc = "timedout"
  <1>0. c \in Commands
    OBVIOUS
  <1>1. ASSUME Ended(c) PROVE Ended(c)'
    BY <1>0, <1>1, KnowledgeKept
  <1>2. ASSUME NEW pc \in TaskPcs, Advance(t, pc)
        PROVE  pc = tasks'[t].pc /\ pc \in {"done", "confirming"}
    BY <1>2, AdvanceShape
  <1>3. ASSUME NEW s \in DOMAIN tasks, AfterCancellation(t, s), tasks[s].cmd = c
        PROVE  Ended(c)
    <2>1. tasks[s].cancel = "settled"
      BY <1>2, <1>3 DEF AfterCancellation, TaskPcs
    <2> QED
      BY <1>3, <2>1 DEF Keeping, SettledFlags
  <1>4. CASE Dispatch(t) \/ Begin(t)
    <2>1. AfterCancellation(t, t)
      BY <1>2, <1>4 DEF Dispatch, Begin, TaskPcs
    <2> QED
      BY <1>1, <1>3, <2>1
  <1>5. CASE StartAgent(t)
    <2> DEFINE s == prompts[c]
    <2>1. CASE tasks' = [u \in DOMAIN tasks |->
                    IF u = t THEN [tasks[u] EXCEPT !.pc = "agent", !.agent = (@ \/ u = s)]
                    ELSE IF u = s THEN [tasks[u] EXCEPT !.agent = TRUE]
                    ELSE tasks[u]]
      <3>1. tasks'[t] = [tasks[t] EXCEPT !.pc = "agent", !.agent = (@ \/ t = s)]
        BY <2>1
      <3>2. tasks'[t].pc = "agent"
        BY <3>1, TaskTyped DEF Task
      <3> QED
        BY <3>2
    <2>2. CASE s # 0 /\ AfterCancellation(t, s)
      <3>1. s \in DOMAIN tasks /\ tasks[s].cmd = c
        BY <1>0, <2>2 DEF Keeping, PromptsMatch
      <3> QED
        BY <1>1, <1>3, <2>2, <3>1
    <2> QED
      BY <1>5, <2>1, <2>2 DEF StartAgent
  <1>6. ASSUME NEW term \in Terms, NEW allow \in BOOLEAN,
               NEW onThrow \in {"done", "failing"}, TaskSettles(t, term, allow, onThrow),
               tasks[t].pc # "timedout" \/ allow
        PROVE  \/ Ended(c)'
               \/ /\ tasks'[t].pc = "done"
                  /\ \E u \in DOMAIN tasks :
                       u # t /\ tasks[u].cmd = c /\ tasks[u].pc = "timedout"
    <2>1. PICK same \in BOOLEAN :
             \/ Store(c, term)
             \/ /\ SettleResult(c, term, allow, same) # "stored"
                /\ \E pc \in {"done", "failing"} : Advance(t, pc)
      BY <1>6 DEF TaskSettles
    <2>2. CASE Store(c, term)
      BY <1>0, <2>2, StoreEnds
    <2>3. CASE /\ SettleResult(c, term, allow, same) # "stored"
               /\ \E pc \in {"done", "failing"} : Advance(t, pc)
      <3>1. Ended(c) \/ (TimedOut(c) /\ ~allow)
        BY <1>0, <2>3, Refused DEF Keeping
      <3>2. tasks'[t].pc = "done"
        BY <1>2, <2>3 DEF TaskPcs
      <3> QED
        BY <1>1, <1>6, <3>1, <3>2 DEF TimedOut
    <2> QED
      BY <2>1, <2>2, <2>3
  <1>7. CASE Complete(t) \/ Fail(t) \/ FailExpired(t)
    <2>1. tasks[t].pc # "timedout" \/ FailExpired(t)
      BY <1>7 DEF Complete, ReadyToSettle, Fail, At
    <2>2. \E term \in Terms, allow \in BOOLEAN, onThrow \in {"done", "failing"} :
            /\ TaskSettles(t, term, allow, onThrow)
            /\ tasks[t].pc # "timedout" \/ allow
      BY <1>7, <2>1 DEF Complete, Fail, FailExpired, Terms
    <2> QED
      BY <1>6, <2>2
  <1>8. CASE Stage(t) \/ Confirmed(t)
    <2>1. tasks[t].pc \in {"staging", "confirming"}
      BY <1>8 DEF Stage, Confirmed, At
    <2>2. Ended(c)
      BY <2>1 DEF Safe, TaskS, Backed, Keeping, SettledFlags
    <2> QED
      BY <1>1, <2>2
  <1>9. CASE InterruptBatch(t)
    BY <1>2, <1>9 DEF InterruptBatch, TaskPcs
  <1>10. CASE Throw(t) \/ Deadline(t) \/ Persist(t) \/ JoinCancellation(t)
    <2>1. \E pc \in TaskPcs \ {"done", "confirming"} : Advance(t, pc)
      BY <1>10 DEF Throw, Deadline, Persist, JoinCancellation, TaskPcs
    <2> QED
      BY <1>2, <2>1
  <1>11. CASE CancelTurn(t)
    <2> DEFINE s == prompts[Target[c]]
               r == turn[Key[c]]
    <2>1. s \in Nat /\ r \in Nat
      BY <1>0, TargetAssumption, KeyAssumption DEF Typed, TasksT, TurnT
    <2>2. ASSUME NEW w \in Nat, NEW pc \in {"cancelling", "awaitcancel", "awaitturn"}
          PROVE  /\ DOMAIN Watching(t, w, pc) = DOMAIN tasks
                 /\ \A u \in DOMAIN tasks : Watching(t, w, pc)[u] \in Task
                 /\ Watching(t, w, pc)[t].pc = pc
      BY WatchingShape DEF Silent, TaskPcs
    <2>3. \/ tasks' = [Watching(t, s, "cancelling") EXCEPT ![s].cancel = "requested"]
          \/ tasks' = Watching(t, s, "awaitcancel")
          \/ tasks' = [Watching(t, r, "awaitturn") EXCEPT ![r].abort = TRUE]
          \/ Advance(t, "concluding")
          \/ Advance(t, "failing")
      BY <1>11 DEF CancelTurn
    <2> HIDE DEF s, r
    <2>4. CASE tasks' = Watching(t, s, "awaitcancel")
      BY <2>1, <2>2, <2>4
    <2>5. CASE tasks' = [Watching(t, s, "cancelling") EXCEPT ![s].cancel = "requested"]
      <3> DEFINE x == Watching(t, s, "cancelling")
      <3>1. /\ DOMAIN x = DOMAIN tasks /\ \A u \in DOMAIN tasks : x[u] \in Task
            /\ x[t].pc = "cancelling" /\ tasks' = [x EXCEPT ![s].cancel = "requested"]
        BY <2>1, <2>2, <2>5
      <3> HIDE DEF x
      <3>2. tasks'[t].pc = x[t].pc
        BY <3>1, CancelMarked
      <3> QED
        BY <3>1, <3>2
    <2>6. CASE tasks' = [Watching(t, r, "awaitturn") EXCEPT ![r].abort = TRUE]
      <3> DEFINE x == Watching(t, r, "awaitturn")
      <3>1. /\ DOMAIN x = DOMAIN tasks /\ \A u \in DOMAIN tasks : x[u] \in Task
            /\ x[t].pc = "awaitturn" /\ tasks' = [x EXCEPT ![r].abort = TRUE]
        BY <2>1, <2>2, <2>6
      <3> HIDE DEF x
      <3>2. tasks'[t].pc = x[t].pc
        BY <3>1, AbortMarked
      <3> QED
        BY <3>1, <3>2
    <2> QED
      BY <1>2, <2>3, <2>4, <2>5, <2>6 DEF TaskPcs
  <1>12. CASE SettleCancellation(t) \/ StageCancellation(t)
    <2>1. tasks[t] \in Task
      BY TaskTyped
    <2>2. \/ tasks' = [tasks EXCEPT ![t].pc = "cancelstaging"]
          \/ \E pc \in {"failing", "concluding"}, flag \in {"refused", "settled"} :
               tasks' = [tasks EXCEPT ![t].pc = pc, ![tasks[t].watch].cancel = flag]
      BY <1>12 DEF SettleCancellation, StageCancellation
    <2>3. CASE tasks' = [tasks EXCEPT ![t].pc = "cancelstaging"]
      <3>1. tasks'[t] = [tasks[t] EXCEPT !.pc = "cancelstaging"]
        BY <2>3
      <3> QED
        BY <2>1, <3>1 DEF Task
    <2>4. ASSUME NEW pc \in {"failing", "concluding"}, NEW flag \in {"refused", "settled"},
                 tasks' = [tasks EXCEPT ![t].pc = pc, ![tasks[t].watch].cancel = flag]
          PROVE  FALSE
      <3> DEFINE moved == [tasks[t] EXCEPT !.pc = pc]
                 x == [tasks EXCEPT ![t] = moved]
      <3>1. moved \in Task /\ moved.pc = pc
        BY <2>1 DEF Task, TaskPcs
      <3>2. tasks' = [x EXCEPT ![tasks[t].watch].cancel = flag]
        BY <2>4
      <3> HIDE DEF moved
      <3>3. /\ DOMAIN x = DOMAIN tasks /\ \A u \in DOMAIN tasks : x[u] \in Task
            /\ x[t].pc = pc
        BY <3>1, TaskTyped
      <3> HIDE DEF x
      <3>4. tasks'[t].pc = x[t].pc
        BY ONLY <3>2, <3>3, t \in DOMAIN tasks, CancelMarked
      <3> QED
        BY <3>3, <3>4
    <2> QED
      BY <2>2, <2>3, <2>4
  <1> QED
    BY <1>4, <1>5, <1>7, <1>8, <1>9, <1>10, <1>11, <1>12 DEF TaskNext

\* The task of an execution past its deadline leaves its command settled.
LEMMA TimedoutStep ==
    ASSUME Typed, Typed', Forward, Keeping, NEW t \in DOMAIN tasks, TaskNext(t),
           tasks[t].pc = "timedout", NEW c \in Commands, tasks[t].cmd = c
    PROVE  Ended(c)'
  <1>1. TaskSettles(t, "failed", TRUE, "done")
    BY DEF TaskNext, Dispatch, Begin, StartAgent, Complete, ReadyToSettle, Throw,
           InterruptBatch, Fail, Deadline, FailExpired, Persist, Stage, Confirmed,
           CancelTurn, SettleCancellation, StageCancellation, JoinCancellation, At
  <1>2. PICK same \in BOOLEAN :
          Store(c, "failed") \/ SettleResult(c, "failed", TRUE, same) # "stored"
    BY <1>1 DEF TaskSettles
  <1>3. CASE Store(c, "failed")
    BY <1>3, StoreEnds DEF Terms
  <1>4. CASE SettleResult(c, "failed", TRUE, same) # "stored"
    BY <1>4, Refused, KnowledgeKept DEF Keeping
  <1> QED
    BY <1>2, <1>3, <1>4

-----------------------------------------------------------------------------
(***************************************************************************)
(* What the holders remember.                                              *)
(***************************************************************************)

LEMMA NextActiveRuns ==
    ASSUME Typed, Typed', Safe, Keeping, [Next]_vars
    PROVE  ActiveRuns' /\ PromptsMatch'
  <1>1. CASE Rests
    BY <1>1 DEF Rests, Same, Keeping, ActiveRuns, PromptsMatch
  <1>2. ASSUME NEW t \in DOMAIN tasks, Moves(t) PROVE ActiveRuns' /\ PromptsMatch'
    <2> SUFFICES ASSUME NEW c \in Commands
                 PROVE  /\ active'[c] # 0 =>
                             /\ active'[c] \in DOMAIN tasks'
                             /\ tasks'[active'[c]].cmd = c
                             /\ tasks'[active'[c]].pc # "done"
                        /\ prompts'[c] # 0 =>
                             prompts'[c] \in DOMAIN tasks' /\ tasks'[prompts'[c]].cmd = c
      BY DEF ActiveRuns, PromptsMatch
    <2>1. /\ DOMAIN tasks' = DOMAIN tasks
          /\ \A u \in DOMAIN tasks : tasks'[u].cmd = tasks[u].cmd
          /\ \A u \in DOMAIN tasks : u # t => tasks'[u].pc = tasks[u].pc
      BY <1>2 DEF Moves, Same
    <2>2. /\ active'[c] \in {0, active[c]} /\ prompts'[c] \in {0, prompts[c]}
          /\ active'[c] # 0 /\ c = tasks[t].cmd /\ tasks'[t].pc = "done" => active'[c] # t
      BY <1>2 DEF Moves, Released
    <2>3. prompts'[c] # 0 => prompts'[c] \in DOMAIN tasks' /\ tasks'[prompts'[c]].cmd = c
      BY <2>1, <2>2 DEF Keeping, PromptsMatch
    <2>4. ASSUME active'[c] # 0
          PROVE  /\ active'[c] \in DOMAIN tasks' /\ tasks'[active'[c]].cmd = c
                 /\ tasks'[active'[c]].pc # "done"
      BY <2>1, <2>2, <2>4 DEF Keeping, ActiveRuns
    <2> QED
      BY <2>3, <2>4
  <1>3. ASSUME NEW d \in Commands, Schedule(d) PROVE ActiveRuns' /\ PromptsMatch'
    <2>1. PICK n : /\ DOMAIN tasks' = DOMAIN tasks \cup {n} /\ n = Len(tasks) + 1
                   /\ tasks'[n].cmd = d /\ tasks'[n].pc = "queued"
      BY <1>3, ScheduleShape
    <2>2. \A t \in DOMAIN tasks : tasks'[t] = tasks[t]
      BY <1>3, ScheduleShape
    <2>3. /\ active' = [active EXCEPT ![d] = n]
          /\ prompts' = [prompts EXCEPT ![d] = n] \/ prompts' = prompts
      BY <1>3, <2>1 DEF Schedule
    <2>4. /\ active \in [Commands -> Nat] /\ prompts \in [Commands -> Nat]
      BY DEF Typed, ScheduleT, TasksT
    <2>5. /\ \A c \in Commands : active'[c] = IF c = d THEN n ELSE active[c]
          /\ \A c \in Commands : prompts'[c] = prompts[c] \/ (c = d /\ prompts'[c] = n)
      BY <2>3, <2>4
    <2>6. ActiveRuns'
      BY <2>1, <2>2, <2>5 DEF Keeping, ActiveRuns
    <2>7. PromptsMatch'
      BY <2>1, <2>2, <2>5 DEF Keeping, PromptsMatch
    <2> QED
      BY <2>6, <2>7
  <1>4. CASE Halt
    BY <1>4 DEF Halt, ActiveRuns, PromptsMatch
  <1> QED
    BY <1>1, <1>2, <1>3, <1>4, TaskShape

LEMMA NextSettledFlags ==
    ASSUME Typed, Typed', Safe, Forward, Keeping, [Next]_vars
    PROVE  SettledFlags'
  <1> SUFFICES ASSUME NEW t \in DOMAIN tasks',
                      tasks'[t].cancel = "settled" \/ tasks'[t].pc = "confirming"
               PROVE  Ended(tasks[t].cmd)'
    BY DEF SettledFlags
  <1>0. tasks'[t].cmd \in Commands
    <2>1. tasks' \in Seq(Task)
      BY DEF Typed, TasksT
    <2>2. tasks'[t] \in Task
      BY <2>1, SeqElement
    <2> QED
      BY <2>2 DEF Task
  <1>1. PICK c \in Commands : c = tasks'[t].cmd
    BY <1>0
  <1> SUFFICES Ended(c)'
    BY <1>1 DEF Ended
  <1>2. ASSUME t \in DOMAIN tasks, tasks[t].cmd = c, Flagged(t),
               tasks[t].pc = "confirming" \/ tasks'[t].pc # "confirming"
        PROVE  Ended(c)'
    <2>1. Ended(c)
      BY <1>2 DEF Flagged, Keeping, SettledFlags
    <2> QED
      BY <2>1, KnowledgeKept
  <1>3. CASE Rests
    BY <1>1, <1>2, <1>3 DEF Rests, Same
  <1>4. ASSUME NEW u \in DOMAIN tasks, Moves(u), TaskNext(u) PROVE Ended(c)'
    <2>1. t \in DOMAIN tasks /\ tasks[t].cmd = c /\ Flagged(t)
      BY <1>1, <1>4 DEF Moves, Same
    <2>2. CASE t = u /\ tasks'[t].pc = "confirming"
      BY <1>4, <2>1, <2>2, DoneStep
    <2>3. CASE ~(t = u /\ tasks'[t].pc = "confirming")
      BY <1>2, <1>4, <2>1, <2>3 DEF Moves, Same
    <2> QED
      BY <2>2, <2>3
  <1>5. ASSUME NEW d \in Commands, Schedule(d) PROVE Ended(c)'
    <2>1. PICK n : /\ DOMAIN tasks' = DOMAIN tasks \cup {n}
                   /\ tasks'[n].pc = "queued" /\ tasks'[n].cancel = "no"
      BY <1>5, ScheduleShape
    <2>2. \A s \in DOMAIN tasks : tasks'[s] = tasks[s]
      BY <1>5, ScheduleShape
    <2>3. t \in DOMAIN tasks /\ tasks'[t] = tasks[t]
      BY <2>1, <2>2
    <2> QED
      BY <1>1, <1>2, <2>3 DEF Flagged
  <1>6. CASE Halt
    BY <1>6 DEF Halt
  <1> QED
    BY <1>3, <1>4, <1>5, <1>6, TaskShape

LEMMA NextExpiredEnds ==
    ASSUME Typed, Typed', Safe, Forward, Keeping, [Next]_vars
    PROVE  ExpiredEnds'
  <1> SUFFICES ASSUME NEW z \in expired'
               PROVE  Ended(z.cmd)' \/ TimedOut(z.cmd)'
    BY DEF ExpiredEnds
  <1>1. PICK c \in Commands : c = z.cmd
    BY DEF Typed, ExpiredT
  <1> SUFFICES Ended(c)' \/ TimedOut(c)'
    BY <1>1 DEF Ended, TimedOut
  <1>2. CASE z \in expired
    <2>1. CASE Ended(c)
      BY <2>1, KnowledgeKept
    <2>2. CASE TimedOut(c)
      <3>1. PICK t \in DOMAIN tasks : tasks[t].cmd = c /\ tasks[t].pc = "timedout"
        BY <2>2 DEF TimedOut
      <3>2. CASE Rests
        BY <3>1, <3>2 DEF Rests, Same, TimedOut
      <3>3. ASSUME NEW u \in DOMAIN tasks, Moves(u), TaskNext(u) PROVE Ended(c)' \/ TimedOut(c)'
        <4>1. CASE u = t
          BY <3>1, <3>3, <4>1, TimedoutStep
        <4>2. CASE u # t
          BY <3>1, <3>3, <4>2 DEF Moves, Same, TimedOut
        <4> QED
          BY <4>1, <4>2
      <3>4. ASSUME NEW d \in Commands, Schedule(d) PROVE TimedOut(c)'
        BY <3>1, <3>4, ScheduleShape DEF TimedOut
      <3>5. CASE Halt
        BY <3>5 DEF Halt
      <3> QED
        BY <3>2, <3>3, <3>4, <3>5, TaskShape
    <2> QED
      BY <1>1, <1>2, <2>1, <2>2 DEF Keeping, ExpiredEnds
  <1>3. ASSUME NEW t \in DOMAIN tasks, Deadline(t), c = tasks[t].cmd PROVE TimedOut(c)'
    <2>1. Advance(t, "timedout") /\ "timedout" \in TaskPcs
      BY <1>3 DEF Deadline, TaskPcs
    <2>2. DOMAIN tasks' = DOMAIN tasks /\ tasks'[t].pc = "timedout" /\ tasks'[t].cmd = tasks[t].cmd
      BY <2>1, AdvanceShape
    <2> QED
      BY <1>3, <2>2 DEF TimedOut
  <1> QED
    BY <1>1, <1>2, <1>3, ExpiredStep

\* Who changes what the other holders rely on.
LEMMA MemoryStep ==
    ASSUME [Next]_vars, ~Start, ~Halt
    PROVE  /\ Live' => Live
           /\ catalog' = FALSE \/ UNCHANGED catalog
           /\ RecoveryNext \/ (phase = "recovering" => UNCHANGED <<phase, recover>>)
           /\ ClaimEvent \/ UNCHANGED claims
           /\ HandlerNext \/ UNCHANGED handler
  <1> USE DEF lifeVars
  <1>1. CASE UNCHANGED vars \/ Distrust \/ \E c \in Commands : Receive(c)
    BY <1>1 DEF vars, Distrust, Receive, Live
  <1>2. CASE HandlerNext
    BY <1>2
    DEF HandlerNext, ClaimEvent, Reconcile, HandleTerminal, HandleFenced,
        HandleRejected, HandlerSettles, HandleActive, HandleDeferred,
        HandleSchedule, HandlerStages, CompleteEvent, Live
  <1>3. CASE \E t \in DOMAIN tasks : TaskNext(t)
    BY <1>3
    DEF TaskNext, Dispatch, Begin, StartAgent, Complete, TaskSettles, Throw,
        InterruptBatch, Fail, Deadline, FailExpired, Persist, Stage, Confirmed,
        CancelTurn, SettleCancellation, StageCancellation, JoinCancellation,
        taskFrame, Live
  <1>4. CASE DeliveryNext \/ \E z \in expired : LateEnd(z)
    BY <1>4 DEF DeliveryNext, Send, Supersede, RedeliveryFails, ConfirmDelivery,
                FinalizeDeletion, deliveryFrame, LateEnd, taskFrame, Live
  <1>5. CASE DeploymentNext \/ Crash
    BY <1>5 DEF DeploymentNext, SealBegin, Seal, SealFail, ResumeDeferred,
                SealStop, Stop, Stopped, Crash, sealFrame, Live
  <1>6. CASE RecoveryNext
    BY <1>6
    DEF RecoveryNext, RecoverSkip, RecoverAccepted, RecoverDispatched, RecoverStages,
        RecoverDeletions, DrainInbox, Recovering, startFrame, recoverFrame, Live
  <1> QED
    BY <1>1, <1>2, <1>3, <1>4, <1>5, <1>6 DEF Next

\* A new row is the one the handler has claimed.
LEMMA NewRow ==
    ASSUME Typed, Safe, [Next]_vars, NEW c \in Commands, Known(c)', ~Known(c)
    PROVE  ClaimEvent /\ c = HandledCommand
  <1>1. ASSUME NEW d \in Commands, Known(d), NEW row,
               journal' = [journal EXCEPT ![d] = row]
        PROVE  FALSE
    BY <1>1 DEF Typed, JournalT, Known
  <1>2. journal' # journal
    BY DEF Known
  <1>3. ASSUME NEW d \in Commands, Known(d), NEW term, Store(d, term) PROVE FALSE
    BY <1>1, <1>3 DEF Store
  <1>4. CASE ClaimEvent
    BY <1>2, <1>4, ClaimShape DEF Typed, JournalT, Known
  <1>5. CASE HandlerNext /\ ~ClaimEvent
    <2>1. CASE HandleFenced \/ HandleRejected
      <3>1. handler.pc = "decide" /\ \E term : HandlerSettles(term)
        BY <2>1 DEF HandleFenced, HandleRejected, Deciding
      <3>2. HandledCommand \in Commands /\ Known(HandledCommand)
        BY <3>1, HandledTyped DEF Safe, HandlerS
      <3>3. \E term : Store(HandledCommand, term)
        BY <1>2, <3>1 DEF HandlerSettles
      <3> QED
        BY <1>3, <3>2, <3>3
    <2>2. CASE Reconcile \/ HandleTerminal \/ HandleActive \/ HandleDeferred
               \/ HandleSchedule \/ HandlerStages \/ CompleteEvent
      BY <1>2, <2>2 DEF Reconcile, HandleTerminal, HandleActive, HandleDeferred,
                        HandleSchedule, HandlerStages, CompleteEvent
    <2> QED
      BY <1>5, <2>1, <2>2 DEF HandlerNext
  <1>6. ASSUME NEW t \in DOMAIN tasks, TaskNext(t) PROVE FALSE
    <2>1. \A u \in DOMAIN tasks : tasks[u].cmd \in Commands /\ Known(tasks[u].cmd)
      BY TaskTyped DEF Safe, TaskS
    <2>2. CASE Complete(t) \/ Fail(t) \/ FailExpired(t)
      <3>1. \E term, allow, onThrow : TaskSettles(t, term, allow, onThrow)
        BY <2>2 DEF Complete, Fail, FailExpired
      <3>2. \E term : Store(tasks[t].cmd, term)
        BY <1>2, <3>1 DEF TaskSettles
      <3> QED
        BY <1>3, <2>1, <3>2
    <2>3. CASE Dispatch(t)
      BY <1>1, <1>2, <2>1, <2>3 DEF Dispatch
    <2>4. CASE SettleCancellation(t)
      <3>1. /\ TaskLinked(tasks[t], Len(tasks)) /\ tasks[t].pc = "cancelling"
            /\ DOMAIN tasks = 1..Len(tasks)
        BY <2>4, TaskTyped DEF SettleCancellation, At
      <3>2. tasks[t].watch \in DOMAIN tasks
        BY <3>1 DEF TaskLinked
      <3>3. Store(tasks[tasks[t].watch].cmd, "cancelled")
        BY <1>2, <2>4 DEF SettleCancellation
      <3> QED
        BY <1>3, <2>1, <3>2, <3>3
    <2>5. CASE Begin(t) \/ StartAgent(t) \/ Throw(t) \/ InterruptBatch(t)
               \/ Deadline(t) \/ Persist(t) \/ Stage(t) \/ Confirmed(t)
               \/ CancelTurn(t) \/ StageCancellation(t) \/ JoinCancellation(t)
      BY <1>2, <2>5
      DEF Begin, StartAgent, Throw, InterruptBatch, Deadline, Persist, Stage,
          Confirmed, CancelTurn, StageCancellation, JoinCancellation
    <2> QED
      BY <1>6, <2>2, <2>3, <2>4, <2>5 DEF TaskNext
  <1>7. CASE DeliveryNext
    <2>1. ASSUME NEW w \in watching, ConfirmDelivery(w) PROVE FALSE
      <3>1. w.cmd \in Commands
        BY DEF Typed, RoomT, Callback
      <3>2. Known(w.cmd)
        BY DEF Safe, TerminalBeforeEvent, Known
      <3>3. journal' = [journal EXCEPT ![w.cmd] = MarkedDelivered(journal[w.cmd], w.term)]
        BY <1>2, <2>1 DEF ConfirmDelivery
      <3> QED
        BY <1>1, <3>1, <3>2, <3>3
    <2>2. CASE \/ \E e \in outbox : Send(e) \/ Supersede(e)
               \/ \E w \in watching : FinalizeDeletion(w) \/ RedeliveryFails(w)
      BY <1>2, <2>2 DEF Send, Supersede, FinalizeDeletion, RedeliveryFails
    <2> QED
      BY <1>7, <2>1, <2>2 DEF DeliveryNext
  <1>8. CASE RecoverDispatched
    <2>1. recover.at <= Len(claims) /\ recover.snap[claims[recover.at]].status = "dispatched"
      BY <1>8 DEF RecoverDispatched, Recovering
    <2>2. claims[recover.at] \in Commands
      BY <2>1, RecoveredTyped
    <2>3. Known(claims[recover.at])
      BY <2>1, <2>2 DEF Safe, RecoverS
    <2>4. \E term : Store(claims[recover.at], term)
      BY <1>2, <1>8 DEF RecoverDispatched
    <2> QED
      BY <1>3, <2>2, <2>3, <2>4
  <1>9. CASE RecoveryNext
    BY <1>2, <1>8, <1>9 DEF RecoveryNext, Start, RecoverSkip, RecoverAccepted,
                            RecoverStages, RecoverDeletions, DrainInbox
  <1>10. CASE \/ UNCHANGED vars
              \/ \E d \in Commands : Receive(d)
              \/ \E z \in expired : LateEnd(z)
              \/ DeploymentNext \/ Crash \/ Distrust
    BY <1>2, <1>10
    DEF vars, Receive, LateEnd, DeploymentNext, SealBegin, Seal, SealFail,
        ResumeDeferred, SealStop, Stop, Stopped, Crash, Halt, Distrust, sealFrame
  <1> QED
    BY <1>4, <1>5, <1>6, <1>7, <1>9, <1>10 DEF Next

\* claim() adds at the end of the journal, nothing is removed.
LEMMA ClaimsGrow ==
    ASSUME Typed, [Next]_vars, NEW i \in DOMAIN claims
    PROVE  i \in DOMAIN claims' /\ claims'[i] = claims[i]
  <1>1. CASE UNCHANGED claims
    BY <1>1
  <1>2. CASE ClaimEvent
    <2>1. HandledCommand \in Commands /\ claims \in Seq(Commands)
      BY <1>2, ClaimShape DEF Typed, RecoverT
    <2>2. UNCHANGED claims \/ claims' = Append(claims, HandledCommand)
      BY <1>2, ClaimShape
    <2> QED
      BY <1>1, <2>1, <2>2, SeqAppend
  <1>3. CASE Start \/ Halt
    BY <1>1, <1>3 DEF Start, startFrame, recoverFrame, Halt
  <1> QED
    BY <1>1, <1>2, <1>3, MemoryStep

LEMMA NextAllClaimed ==
    ASSUME Typed, Safe, Keeping, [Next]_vars
    PROVE  AllClaimed'
  <1> SUFFICES ASSUME NEW c \in Commands, Known(c)'
               PROVE  \E i \in DOMAIN claims' : claims'[i] = c
    BY DEF AllClaimed
  <1>1. CASE Known(c)
    BY <1>1, ClaimsGrow DEF Keeping, AllClaimed
  <1>2. CASE ~Known(c)
    <2>1. ClaimEvent /\ c = HandledCommand
      BY <1>2, NewRow
    <2>2. claims' = Append(claims, c)
      BY <1>2, <2>1, ClaimShape DEF Known
    <2>3. claims \in Seq(Commands)
      BY DEF Typed, RecoverT
    <2>4. /\ Len(claims) + 1 \in DOMAIN claims' /\ claims'[Len(claims) + 1] = c
      BY <2>2, <2>3, SeqAppend
    <2> QED
      BY <2>4
  <1> QED
    BY <1>1, <1>2

LEMMA NextDecision ==
    ASSUME Typed, Typed', Forward, Keeping, [Next]_vars
    PROVE  Decision'
  <1> SUFFICES ASSUME Decides'
               PROVE  /\ handler'.pc = "reconcile" \/ handler'.snap.status = "dispatched"
                           => handler'.dup
                      /\ handler'.snap.status = "terminal" => Ended(HandledCommand)'
    BY DEF Decision
  <1>1. HandledCommand' = HandledCommand
    BY DecisionStep
  <1>2. ASSUME NEW c \in Commands, c = HandledCommand, Ended(c) PROVE Ended(HandledCommand)'
    BY <1>1, <1>2, KnowledgeKept DEF Ended
  <1>3. CASE ClaimEvent
    <2>1. PICK c \in Commands : c = HandledCommand
      BY <1>3, ClaimShape
    <2>2. /\ handler'.pc = IF Known(c) THEN "reconcile" ELSE "decide"
          /\ handler'.dup = Known(c) /\ handler'.snap = Claimed(journal[c])
      BY <1>3, <2>1, ClaimShape DEF Known
    <2>3. journal[c] \in SoundRow
      BY DEF Typed, JournalT
    <2>4. /\ Claimed(journal[c]).status = "dispatched" => Known(c)
          /\ Claimed(journal[c]).status = "terminal" => Ended(c)
      BY <2>3 DEF Claimed, SoundRow, Row, Known, Ended
    <2> QED
      BY <1>2, <2>1, <2>2, <2>4
  <1>4. CASE Decides /\ handler'.snap = handler.snap /\ handler'.dup = handler.dup
             /\ (handler'.pc = "reconcile" => handler.pc = "reconcile")
    <2>1. PICK c \in Commands : c = HandledCommand
      BY <1>4, HandledTyped DEF Decides
    <2> QED
      BY <1>2, <1>4, <2>1 DEF Keeping, Decision
  <1> QED
    BY <1>3, <1>4, DecisionStep, ReconcileShape DEF Decides

-----------------------------------------------------------------------------
(***************************************************************************)
(* Each holder keeps a command or passes it on.                            *)
(***************************************************************************)

\* A command is owed an answer from its claim on.
LEMMA OwedBefore ==
    ASSUME Typed, Typed', Safe, Forward, [Next]_vars, ~Start, ~Halt,
           NEW c \in Commands, Owed(c)'
    PROVE  Owed(c) \/ Fresh(c)'
  <1>1. Live /\ catalog /\ Unfinished(journal'[c]) /\ Op[c] # "batch"
    BY MemoryStep DEF Owed
  <1>2. Known(c)' /\ ~Ended(c)'
    BY <1>1 DEF Unfinished, Known, Ended
  <1>3. CASE Known(c)
    <2>1. journal[c].status \in Statuses /\ ~Ended(c)
      BY <1>2, KnowledgeKept DEF Typed, JournalT, SoundRow, Row
    <2> QED
      BY <1>1, <1>3, <2>1 DEF Owed, Unfinished, Known, Ended, Statuses
  <1>4. CASE ~Known(c)
    <2>1. ClaimEvent /\ c = HandledCommand
      BY <1>2, <1>4, NewRow
    <2>2. journal' # journal
      BY <1>2, <1>4 DEF Known
    <2> QED
      BY <1>4, <2>1, <2>2, ClaimShape DEF Fresh, Known
  <1> QED
    BY <1>3, <1>4

\* A task gives up its command by settling it, or leaves it to a timed-out one.
LEMMA KeepTask ==
    ASSUME Typed, Typed', Safe, Forward, Keeping, [Next]_vars, ~Halt,
           NEW c \in Commands, HasTask(c), ~Ended(c)', Op[c] # "batch"
    PROVE  HasTask(c)'
  <1>1. PICK t \in DOMAIN tasks : tasks[t].cmd = c /\ tasks[t].pc # "done"
    BY DEF HasTask
  <1>2. CASE Rests
    BY <1>1, <1>2 DEF Rests, Same, HasTask
  <1>3. ASSUME NEW u \in DOMAIN tasks, Moves(u), TaskNext(u) PROVE HasTask(c)'
    <2>1. CASE u = t /\ tasks'[t].pc = "done"
      <3>1. PICK s \in DOMAIN tasks : s # t /\ tasks[s].cmd = c /\ tasks[s].pc = "timedout"
        BY <1>1, <1>3, <2>1, DoneStep
      <3> QED
        BY <1>3, <2>1, <3>1 DEF Moves, Same, HasTask
    <2>2. CASE ~(u = t /\ tasks'[t].pc = "done")
      BY <1>1, <1>3, <2>2 DEF Moves, Same, HasTask
    <2> QED
      BY <2>1, <2>2
  <1>4. ASSUME NEW d \in Commands, Schedule(d) PROVE HasTask(c)'
    BY <1>1, <1>4, ScheduleShape DEF HasTask
  <1> QED
    BY <1>2, <1>3, <1>4, TaskShape

\* scheduleExecution() takes the command over.
LEMMA Scheduled ==
    ASSUME Typed, NEW c \in Commands, Schedule(c)
    PROVE  HasTask(c)'
  <1>1. PICK n : /\ DOMAIN tasks' = DOMAIN tasks \cup {n}
                 /\ tasks'[n].cmd = c /\ tasks'[n].pc = "queued"
    BY ScheduleShape
  <1> QED
    BY <1>1 DEF HasTask

\* deferredUpdateCommands gives up a command by scheduling it.
LEMMA KeepDeferred ==
    ASSUME Typed, [Next]_vars, ~Halt, NEW c \in Commands, IsDeferred(c)
    PROVE  IsDeferred(c)' \/ HasTask(c)'
  <1> USE DEF lifeVars
  <1>0. deferred \in Seq(Commands)
    BY DEF Typed, LifeT
  <1>1. PICK i \in DOMAIN deferred : deferred[i] = c
    BY DEF IsDeferred
  <1>2. CASE UNCHANGED deferred
    BY <1>1, <1>2 DEF IsDeferred
  <1>3. CASE HandleDeferred
    <2>1. handler.pc # "idle"
      BY <1>3 DEF HandleDeferred, Admitted, Deciding
    <2>2. HandledCommand \in Commands
      BY <2>1, HandledTyped
    <2>3. UNCHANGED deferred \/ deferred' = Append(deferred, HandledCommand)
      BY <1>3 DEF HandleDeferred
    <2>4. i \in DOMAIN deferred' /\ deferred'[i] = c
      BY <1>0, <1>1, <2>2, <2>3, SeqAppend
    <2> QED
      BY <2>4 DEF IsDeferred
  <1>4. CASE ResumeDeferred
    <2>1. deferred # <<>> /\ deferred' = Tail(deferred) /\ Schedule(Head(deferred))
      BY <1>4 DEF ResumeDeferred, Reopening
    <2>2. CASE Head(deferred) = c
      BY <2>1, <2>2, Scheduled
    <2>3. CASE Head(deferred) # c
      <3>1. i # 1 /\ i \in 1..Len(deferred) /\ Len(deferred) \in Nat
        BY <1>0, <1>1, <2>1, <2>3
      <3>2. PICK j \in Nat : j = i - 1
        BY <3>1
      <3>3. j \in DOMAIN deferred' /\ deferred'[j] = deferred[i]
        BY <1>0, <2>1, <3>1, <3>2
      <3> QED
        BY <1>1, <3>3 DEF IsDeferred
    <2> QED
      BY <2>2, <2>3
  <1>5. CASE HandlerNext /\ ~HandleDeferred
    BY <1>2, <1>5
    DEF HandlerNext, ClaimEvent, Reconcile, HandleTerminal, HandleFenced,
        HandleRejected, HandlerSettles, HandleActive, HandleSchedule,
        HandlerStages, CompleteEvent
  <1>6. CASE \E t \in DOMAIN tasks : TaskNext(t)
    BY <1>2, <1>6
    DEF TaskNext, Dispatch, Begin, StartAgent, Complete, TaskSettles, Throw,
        InterruptBatch, Fail, Deadline, FailExpired, Persist, Stage, Confirmed,
        CancelTurn, SettleCancellation, StageCancellation, JoinCancellation,
        taskFrame
  <1>7. CASE DeliveryNext \/ \E z \in expired : LateEnd(z)
    BY <1>2, <1>7 DEF DeliveryNext, Send, Supersede, RedeliveryFails, ConfirmDelivery,
                      FinalizeDeletion, deliveryFrame, LateEnd, taskFrame
  <1>8. CASE DeploymentNext \/ Crash
    BY <1>2, <1>4, <1>8
    DEF DeploymentNext, SealBegin, Seal, SealFail, SealStop, Stop, Stopped, Crash
  <1>9. CASE RecoveryNext
    BY <1>2, <1>9
    DEF RecoveryNext, Start, RecoverSkip, RecoverAccepted, RecoverDispatched,
        RecoverStages, RecoverDeletions, DrainInbox, startFrame, recoverFrame
  <1>10. CASE UNCHANGED vars \/ Distrust \/ \E d \in Commands : Receive(d)
    BY <1>2, <1>10 DEF vars, Distrust, Receive
  <1> QED
    BY <1>3, <1>5, <1>6, <1>7, <1>8, <1>9, <1>10 DEF Next

\* recoverJournal() passes over a row by scheduling it, by settling it, or by
\* leaving it to its timed-out task.
LEMMA KeepPending ==
    ASSUME Typed, Typed', Safe, Forward, Keeping, [Next]_vars, ~Start, ~Halt,
           NEW c \in Commands, Pending(c), catalog, ~Ended(c)'
    PROVE  Pending(c)' \/ HasTask(c)'
  <1>1. PICK i \in DOMAIN claims : i >= recover.at /\ claims[i] = c
    BY DEF Pending
  <1>2. phase = "recovering" /\ Unfinished(recover.snap[c])
    BY DEF Pending
  <1>3. /\ claims \in Seq(Commands) /\ i \in 1..Len(claims) /\ Len(claims) \in Nat
        /\ recover \in Recovery /\ recover.at \in Nat
    BY DEF Typed, RecoverT, Recovery
  <1>4. i \in DOMAIN claims' /\ claims'[i] = c
    BY <1>1, ClaimsGrow
  <1>5. ASSUME phase' = "recovering", recover'.snap = recover.snap, i >= recover'.at
        PROVE  Pending(c)'
    BY <1>2, <1>4, <1>5 DEF Pending
  <1>6. CASE UNCHANGED <<phase, recover>>
    BY <1>1, <1>2, <1>5, <1>6
  <1>7. ASSUME NEW term, UNCHANGED phase, claims[recover.at] # c,
               \/ recover' = [recover EXCEPT !.at = @ + 1]
               \/ recover' = [recover EXCEPT !.at = @ + 1, !.term = "none"]
               \/ recover' = [recover EXCEPT !.term = term]
        PROVE  Pending(c)'
    <2>1. recover'.snap = recover.snap /\ recover'.at \in {recover.at, recover.at + 1}
      BY <1>3, <1>7 DEF Recovery
    <2>2. i >= recover.at + 1
      BY <1>1, <1>3, <1>7
    <2> QED
      BY <1>2, <1>3, <1>5, <1>7, <2>1, <2>2
  <1>8. ~Ended(c)
    BY KnowledgeKept
  <1>9. CASE RecoverSkip
    <2>1. claims[recover.at] # c
      BY <1>2, <1>9 DEF RecoverSkip
    <2>2. UNCHANGED phase /\ recover' = [recover EXCEPT !.at = @ + 1]
      BY <1>9 DEF RecoverSkip
    <2> QED
      BY <1>7, <2>1, <2>2
  <1>10. CASE RecoverAccepted
    <2>1. /\ UNCHANGED phase /\ recover' = [recover EXCEPT !.at = @ + 1]
          /\ Schedule(claims[recover.at])
      BY <1>10 DEF RecoverAccepted
    <2> QED
      BY <1>7, <2>1, Scheduled
  <1>11. CASE RecoverDispatched
    <2> DEFINE d == claims[recover.at]
               term == IF d \in applied THEN "completed" ELSE "interrupted"
    <2>1. term \in Terms /\ UNCHANGED <<phase, tasks>>
      BY <1>11 DEF RecoverDispatched, Terms
    <2>2. PICK same \in BOOLEAN :
            \/ Store(d, term) /\ recover' = [recover EXCEPT !.term = term]
            \/ /\ SettleResult(d, term, FALSE, same) # "stored"
               /\ recover' = [recover EXCEPT !.at = @ + 1]
      BY <1>11 DEF RecoverDispatched
    <2> HIDE DEF term
    <2>3. CASE d # c
      BY <1>7, <2>1, <2>2, <2>3
    <2>4. CASE d = c
      <3>1. ~Store(c, term)
        BY <2>1, StoreEnds
      <3>2. TimedOut(c)
        BY <1>8, <2>2, <2>4, <3>1, Refused DEF Keeping
      <3> QED
        BY <2>1, <3>2 DEF TimedOut, HasTask
    <2> QED
      BY <2>3, <2>4
  <1>12. CASE RecoverStages
    <2>1. claims[recover.at] # c
      BY <1>8, <1>12 DEF RecoverStages, Safe, RecoverS
    <2>2. UNCHANGED phase /\ recover' = [recover EXCEPT !.at = @ + 1, !.term = "none"]
      BY <1>12 DEF RecoverStages
    <2> QED
      BY <1>7, <2>1, <2>2
  <1>13. CASE RecoverDeletions \/ DrainInbox
    BY <1>1, <1>2, <1>3, <1>13 DEF RecoverDeletions, DrainInbox
  <1> QED
    BY <1>2, <1>6, <1>9, <1>10, <1>11, <1>12, <1>13, MemoryStep DEF RecoveryNext

\* The handler of a first delivery settles the command, defers it, schedules
\* it, or finds that a task has it.
LEMMA KeepFresh ==
    ASSUME Typed, Typed', Safe, Forward, Keeping, [Next]_vars, ~Start, ~Halt,
           NEW c \in Commands, Fresh(c), ~Ended(c)'
    PROVE  HasTask(c)' \/ IsDeferred(c)' \/ Fresh(c)'
  <1>1. handler.pc = "decide" /\ ~handler.dup /\ HandledCommand = c
    BY DEF Fresh
  <1>2. ~Ended(c)
    BY KnowledgeKept
  <1>3. ~ClaimEvent /\ ~Reconcile
    BY <1>1 DEF ClaimEvent, Reconcile
  <1>4. CASE Decides'
    BY <1>1, <1>3, <1>4, DecisionStep DEF Fresh
  <1>5. CASE ~Decides'
    <2>1. HandlerNext
      BY <1>1, <1>5, MemoryStep DEF Decides
    <2>2. ASSUME NEW term \in Terms, HandlerSettles(term) PROVE HasTask(c)'
      <3>1. PICK same \in BOOLEAN :
              Store(c, term) \/ SettleResult(c, term, FALSE, same) # "stored"
        BY <1>1, <2>2 DEF HandlerSettles
      <3>2. TimedOut(c)
        BY <1>2, <3>1, Refused, StoreEnds DEF Keeping
      <3>3. UNCHANGED tasks
        BY <2>2 DEF HandlerSettles
      <3> QED
        BY <3>2, <3>3 DEF TimedOut, HasTask
    <2>3. CASE HandleFenced \/ HandleRejected
      BY <2>2, <2>3 DEF HandleFenced, HandleRejected, Terms
    <2>4. handler.snap.status \notin {"dispatched", "terminal"}
      BY <1>1, <1>2 DEF Keeping, Decision, Decides
    <2>5. ~HandleTerminal /\ ~HandlerStages /\ ~CompleteEvent
      BY <1>1, <2>4 DEF HandleTerminal, HandlerStages, CompleteEvent
    <2>6. CASE HandleActive
      <3>1. active[c] # 0 /\ UNCHANGED tasks
        BY <1>1, <2>4, <2>6 DEF HandleActive
      <3> QED
        BY <3>1 DEF Keeping, ActiveRuns, HasTask
    <2>7. CASE HandleDeferred
      <3>1. deferred \in Seq(Commands)
        BY DEF Typed, LifeT
      <3>2. \/ IsDeferred(c) /\ UNCHANGED deferred
            \/ deferred' = Append(deferred, c)
        BY <1>1, <2>7 DEF HandleDeferred, IsDeferred
      <3>3. CASE deferred' = Append(deferred, c)
        <4>1. Len(deferred) + 1 \in DOMAIN deferred' /\ deferred'[Len(deferred) + 1] = c
          BY <3>1, <3>3, SeqAppend
        <4> QED
          BY <4>1 DEF IsDeferred
      <3> QED
        BY <3>2, <3>3 DEF IsDeferred
    <2>8. CASE HandleSchedule
      BY <1>1, <2>8, Scheduled DEF HandleSchedule
    <2> QED
      BY <1>3, <2>1, <2>3, <2>5, <2>6, <2>7, <2>8 DEF HandlerNext
  <1> QED
    BY <1>4, <1>5

\* Recovery starts with every unfinished row.
LEMMA StartHeld ==
    ASSUME Typed, Keeping, Start, NEW c \in Commands, Owed(c)'
    PROVE  Pending(c)'
  <1>1. /\ phase' = "recovering" /\ UNCHANGED <<journal, claims>>
        /\ recover' = [NoRecovery EXCEPT !.snap = journal]
    BY DEF Start, startFrame, recoverFrame
  <1>2. recover'.snap = journal /\ recover'.at = 1
    BY <1>1 DEF NoRecovery
  <1>3. Unfinished(journal[c]) /\ Known(c)
    BY <1>1 DEF Owed, Unfinished, Known
  <1>4. PICK i \in DOMAIN claims : claims[i] = c
    BY <1>3 DEF Keeping, AllClaimed
  <1>5. i >= 1
    BY DEF Typed, RecoverT
  <1> QED
    BY <1>1, <1>2, <1>3, <1>4, <1>5 DEF Pending

LEMMA NextHeld ==
    ASSUME Typed, Typed', Safe, Forward, Keeping, [Next]_vars
    PROVE  Held'
  <1> SUFFICES ASSUME NEW c \in Commands, Owed(c)'
               PROVE  HasTask(c)' \/ IsDeferred(c)' \/ Pending(c)' \/ Fresh(c)'
    BY DEF Held
  <1>1. ~Ended(c)' /\ Op[c] # "batch"
    BY DEF Owed, Unfinished, Ended
  <1>2. ~Halt
    BY DEF Halt, Owed, Live
  <1>3. CASE Start
    BY <1>3, StartHeld
  <1>4. CASE ~Start /\ Owed(c)
    <2>1. HasTask(c) \/ IsDeferred(c) \/ Pending(c) \/ Fresh(c)
      BY <1>4 DEF Keeping, Held
    <2>2. catalog
      BY <1>4 DEF Owed
    <2> QED
      BY <1>1, <1>2, <1>4, <2>1, <2>2, KeepTask, KeepDeferred, KeepPending, KeepFresh
  <1> QED
    BY <1>2, <1>3, <1>4, OwedBefore

\* Every step keeps the invariant.
LEMMA NextKeeping ==
    Typed /\ Typed' /\ Safe /\ Keeping /\ [Next]_vars => Keeping'
  <1> SUFFICES ASSUME Typed, Typed', Safe, Keeping, [Next]_vars
               PROVE  Keeping'
    OBVIOUS
  <1>1. Forward
    BY NextForward
  <1> QED
    BY <1>1, NextHeld, NextAllClaimed, NextActiveRuns, NextSettledFlags,
       NextExpiredEnds, NextDecision
    DEF Keeping

\* A running Gateway strands no command: from the end of recovery on, every
\* unfinished command has a task that is not over, is deferred by the seal,
\* or is in the hands of the handler that has just claimed it, whatever
\* duplicates, cancellations, deadlines, deletions, seals and crashes came
\* before.
THEOREM NothingStranded == Spec => []NoStrandedCommand
  <1>1. Init => Typed /\ Safe /\ Keeping
    BY InitTyped, InitSafe, InitKeeping
  <1>2. Typed /\ Safe /\ Keeping /\ [Next]_vars => (Typed /\ Safe /\ Keeping)'
    BY NextTyped, NextSafe, NextKeeping
  <1>3. Keeping => NoStrandedCommand
    BY DEF Keeping, Held, Owed, Live, HasTask, IsDeferred, Pending, Fresh,
           NoStrandedCommand
  <1> QED
    BY <1>1, <1>2, <1>3, PTL DEF Spec

-----------------------------------------------------------------------------
(***************************************************************************)
(* A deleted project is still, as long as the fence is not lost with the   *)
(* process and no command is deferred by a seal: recovery and the resumed  *)
(* commands of a failed seal are scheduled without reading the fence.      *)
(***************************************************************************)

\* This process is the first one and its admission is not closed by a seal.
Undisturbed == crashes = 0 /\ drain # "sealed"

Alone == phase = "running" /\ deferred = <<>>

Undone(t) == tasks[t].pc # "done"

Deletes(t) == Op[tasks[t].cmd] = "delete"

\* A deletion that is not over holds the fence and is the last task.
Fences ==
    \A t \in DOMAIN tasks :
        Deletes(t) /\ Undone(t)
        => deleting = tasks[t].cmd /\ \A u \in DOMAIN tasks : u <= t

\* A deletion leaves the queue when every earlier task is over: it waits for
\* the last one of each chain.
Drains ==
    \A t, u \in DOMAIN tasks :
        Deletes(t) /\ Undone(t) /\ u < t /\ Chained(u) /\ Undone(u)
        => /\ tasks[t].pc = "queued"
           /\ \E w \in tasks[t].waits :
                w \in DOMAIN tasks /\ u <= w /\ Chained(w) /\ Lane(w) = Lane(u)

Settles(d) == Op[d] = "delete" /\ Succeeded(journal[d])

\* The fence outlasts a deletion that succeeded, and nothing else is under way.
Still ==
    \A d \in Commands :
        Settles(d) => /\ deleting = d
                      /\ \A t \in DOMAIN tasks : Undone(t) => Deletes(t) \/ ~Chained(t)

\* Only prompts are cancelled.
CancelsPrompts ==
    /\ \A c \in Commands : prompts[c] # 0 => Op[c] = "prompt"
    /\ \A t \in DOMAIN tasks :
         tasks[t].pc = "cancelling" => Op[tasks[tasks[t].watch].cmd] = "prompt"

Fenced == Alone /\ Fences /\ Drains /\ Still /\ CancelsPrompts

LEMMA InitFenced == Init => Fenced
  BY DEF Init, Fenced, Alone, Fences, Drains, Still, Settles, CancelsPrompts,
         Succeeded, NoRow

\* The finally block of scheduleExecution() lifts the fence of its own,
\* unsuccessful deletion only.
LEMMA AdvanceFence ==
    ASSUME Typed, NEW t \in DOMAIN tasks, NEW pc, Advance(t, pc), deleting' # deleting
    PROVE  /\ Deletes(t) /\ deleting = tasks[t].cmd /\ ~Settles(deleting)
           /\ tasks'[t].pc = "done"
  <1>1. pc = "done" /\ Deletes(t) /\ deleting = tasks[t].cmd /\ ~Succeeded(journal[deleting])
    BY DEF Advance, Deletes
  <1>2. tasks' = [tasks EXCEPT ![t] = DoneTask(tasks[t])]
    BY <1>1 DEF Advance
  <1>3. tasks'[t].pc = "done"
    BY <1>2 DEF DoneTask, NewTask
  <1> QED
    BY <1>1, <1>3 DEF Settles

LEMMA TaskFence ==
    ASSUME Typed, NEW t \in DOMAIN tasks, TaskNext(t), deleting' # deleting
    PROVE  /\ Deletes(t) /\ deleting = tasks[t].cmd /\ ~Settles(deleting)
           /\ tasks'[t].pc = "done"
  <1>1. \E pc : Advance(t, pc)
    BY DEF TaskNext, Dispatch, Begin, StartAgent, Complete, TaskSettles, Throw,
           InterruptBatch, Fail, Deadline, FailExpired, Persist, Stage, Confirmed,
           CancelTurn, SettleCancellation, StageCancellation, JoinCancellation,
           AfterCancellation, scheduleVars
  <1> QED
    BY <1>1, AdvanceFence

\* While nothing disturbs the process, a step moves a task, schedules the
\* handled command past an open fence, or leaves tasks and fence alone.
LEMMA AloneStep ==
    ASSUME Typed, Safe, Alone, Undisturbed, Undisturbed', [Next]_vars
    PROVE  /\ Alone' /\ ~RecoveryNext /\ ~Halt
           /\ \/ \E t \in DOMAIN tasks : TaskNext(t)
              \/ HandleSchedule
              \/ Rests /\ UNCHANGED deleting
  <1> USE DEF lifeVars
  <1>1. ~RecoveryNext
    BY DEF Alone, RecoveryNext, Start, RecoverSkip, RecoverAccepted,
           RecoverDispatched, RecoverStages, RecoverDeletions, DrainInbox, Recovering
  <1>2. ~(Crash \/ Stop \/ Stopped \/ SealStop \/ ResumeDeferred \/ HandleDeferred)
    <2>1. ~(Crash \/ Stop)
      BY DEF Undisturbed, Crash, Stop, Typed, LifeT
    <2> QED
      BY <2>1 DEF Undisturbed, Alone, Stopped, SealStop, ResumeDeferred, Reopening,
                  HandleDeferred
  <1>3. CASE \E t \in DOMAIN tasks : TaskNext(t)
    <2>1. UNCHANGED <<phase, deferred>>
      BY <1>3
      DEF TaskNext, Dispatch, Begin, StartAgent, Complete, TaskSettles, Throw,
          InterruptBatch, Fail, Deadline, FailExpired, Persist, Stage, Confirmed,
          CancelTurn, SettleCancellation, StageCancellation, JoinCancellation,
          taskFrame
    <2> QED
      BY <1>1, <1>3, <2>1 DEF Alone, Halt
  <1>4. CASE HandlerNext
    <2>1. UNCHANGED <<phase, deferred>>
      BY <1>2, <1>4
      DEF HandlerNext, ClaimEvent, Reconcile, HandleTerminal, HandleFenced,
          HandleRejected, HandlerSettles, HandleActive, HandleSchedule,
          HandlerStages, CompleteEvent
    <2>2. HandleSchedule \/ UNCHANGED <<tasks, chains, active, prompts, deleting>>
      BY <1>2, <1>4
      DEF HandlerNext, ClaimEvent, Reconcile, HandleTerminal, HandleFenced,
          HandleRejected, HandlerSettles, HandleActive, HandlerStages,
          CompleteEvent, scheduleVars
    <2> QED
      BY <1>1, <2>1, <2>2, Resting DEF Alone, Halt
  <1>5. CASE \/ UNCHANGED vars \/ Distrust \/ DeliveryNext
             \/ \E c \in Commands : Receive(c)
             \/ \E z \in expired : LateEnd(z)
    <2>1. UNCHANGED <<phase, deferred, tasks, chains, active, prompts, deleting>>
      BY <1>5
      DEF vars, Distrust, Receive, LateEnd, taskFrame, DeliveryNext, Send, Supersede,
          RedeliveryFails, ConfirmDelivery, FinalizeDeletion, deliveryFrame, scheduleVars
    <2> QED
      BY <1>1, <2>1, Resting DEF Alone, Halt
  <1>6. CASE SealBegin \/ Seal \/ SealFail
    <2>1. UNCHANGED <<phase, deferred, chains, active, prompts, deleting>>
      BY <1>6 DEF SealBegin, Seal, SealFail, scheduleVars
    <2>2. Rests
      BY <1>6, <2>1, SealBeginRests, Resting DEF Seal, SealFail
    <2> QED
      BY <1>1, <2>1, <2>2 DEF Alone, Halt
  <1> QED
    BY <1>1, <1>2, <1>3, <1>4, <1>5, <1>6 DEF Next, DeploymentNext

\* A deletion succeeds only by its own task, which keeps the fence.
LEMMA DeletionStep ==
    ASSUME Typed, CancelsPrompts, ~RecoveryNext, [Next]_vars,
           NEW d \in Commands, Settles(d)', ~Settles(d)
    PROVE  \E t \in DOMAIN tasks : /\ TaskNext(t) /\ tasks[t].cmd = d
                                   /\ tasks[t].pc = "executing" /\ UNCHANGED deleting
  <1>1. /\ Op[d] = "delete" /\ journal'[d].term # journal[d].term
        /\ journal'[d].term \in {"completed", "cancelled"}
    BY DEF Settles, Succeeded
  <1>2. ~RecoverDispatched
    BY DEF RecoveryNext
  <1>3. \A t \in DOMAIN tasks : ~(SettleCancellation(t) /\ tasks[tasks[t].watch].cmd = d)
    BY <1>1 DEF SettleCancellation, At, CancelsPrompts
  <1>4. PICK t \in DOMAIN tasks : Complete(t) /\ tasks[t].cmd = d
    BY <1>1, <1>2, <1>3, TermStep
  <1>5. tasks[t].pc = "executing"
    BY <1>1, <1>4 DEF Complete, ReadyToSettle, At
  <1>6. UNCHANGED deleting
    BY <1>1, <1>4 DEF Complete, TaskSettles, scheduleVars
  <1> QED
    BY <1>4, <1>5, <1>6 DEF TaskNext

\* A step that moves no task keeps what the fence guarantees.
LEMMA RestsFenced ==
    ASSUME Typed, Typed', Fenced, Rests, UNCHANGED deleting,
           \A d \in Commands : Settles(d)' => Settles(d)
    PROVE  Fences' /\ Drains' /\ Still' /\ CancelsPrompts'
  <1>1. /\ DOMAIN tasks' = DOMAIN tasks /\ UNCHANGED <<prompts, deleting>>
        /\ \A u \in DOMAIN tasks : /\ tasks'[u].cmd = tasks[u].cmd
                                   /\ tasks'[u].pc = tasks[u].pc
                                   /\ tasks'[u].waits = tasks[u].waits
                                   /\ tasks'[u].watch = tasks[u].watch
    BY DEF Rests, Same
  <1>2. \A u \in DOMAIN tasks : /\ Undone(u)' <=> Undone(u)
                                /\ Deletes(u)' <=> Deletes(u)
                                /\ Chained(u)' <=> Chained(u)
                                /\ Lane(u)' = Lane(u)
    BY <1>1 DEF Undone, Deletes, Chained, Lane
  <1>3. Fences'
    BY <1>1, <1>2 DEF Fenced, Fences
  <1>4. Drains'
    BY <1>1, <1>2 DEF Fenced, Drains
  <1>5. Still'
    BY <1>1, <1>2 DEF Fenced, Still
  <1>6. \A u \in DOMAIN tasks : tasks[u].pc = "cancelling" => tasks[u].watch \in DOMAIN tasks
    BY TaskTyped DEF TaskLinked
  <1>7. CancelsPrompts'
    BY <1>1, <1>6 DEF Fenced, CancelsPrompts
  <1> QED
    BY <1>3, <1>4, <1>5, <1>7

\* A deletion that starts has drained the chains, one that fails lifts the
\* fence when it is over, and one that succeeds is the only task left.
LEMMA MovesFenced ==
    ASSUME Typed, Typed', Safe, Serial, PromptsMatch, Fenced, ~RecoveryNext,
           [Next]_vars, NEW t \in DOMAIN tasks, TaskNext(t)
    PROVE  Fences' /\ Drains' /\ Still' /\ CancelsPrompts'
  <1>1. Moves(t)
    BY TaskMoves
  <1>2. /\ DOMAIN tasks' = DOMAIN tasks
        /\ \A u \in DOMAIN tasks : tasks'[u].cmd = tasks[u].cmd
        /\ \A u \in DOMAIN tasks : u # t => /\ tasks'[u].pc = tasks[u].pc
                                            /\ tasks'[u].waits = tasks[u].waits
                                            /\ tasks'[u].watch = tasks[u].watch
        /\ tasks[t].pc # "done"
        /\ tasks[t].pc = "queued" => Ready(t)
    BY <1>1 DEF Moves, Same
  <1>3. \A u \in DOMAIN tasks : /\ Undone(u)' => Undone(u)
                                /\ Deletes(u)' <=> Deletes(u)
                                /\ Chained(u)' <=> Chained(u)
                                /\ Lane(u)' = Lane(u)
    BY <1>2 DEF Undone, Deletes, Chained, Lane
  <1>4. DOMAIN tasks \subseteq Nat
    BY TaskTyped
  <1>5. Fences'
    <2> SUFFICES ASSUME NEW x \in DOMAIN tasks, Deletes(x), Undone(x), Undone(x)'
                 PROVE  deleting' = tasks[x].cmd /\ \A u \in DOMAIN tasks : u <= x
      BY <1>2, <1>3 DEF Fences
    <2>1. deleting = tasks[x].cmd /\ \A u \in DOMAIN tasks : u <= x
      BY DEF Fenced, Fences
    <2>2. CASE deleting' # deleting
      <3>1. Deletes(t) /\ tasks'[t].pc = "done"
        BY <2>2, TaskFence
      <3>2. \A u \in DOMAIN tasks : u <= t
        BY <1>2, <3>1 DEF Fenced, Fences, Undone
      <3>3. x = t
        BY <1>4, <2>1, <3>2
      <3> QED
        BY <3>1, <3>3 DEF Undone
    <2> QED
      BY <2>1, <2>2
  <1>6. Drains'
    <2> SUFFICES ASSUME NEW x \in DOMAIN tasks, NEW u \in DOMAIN tasks,
                        Deletes(x), Undone(x), u < x, Chained(u), Undone(u)
                 PROVE  /\ tasks'[x].pc = "queued"
                        /\ \E w \in tasks'[x].waits :
                             /\ w \in DOMAIN tasks /\ u <= w
                             /\ Chained(w) /\ Lane(w) = Lane(u)
      BY <1>2, <1>3 DEF Drains
    <2>1. tasks[x].pc = "queued"
      BY DEF Fenced, Drains
    <2>2. PICK w \in tasks[x].waits :
            w \in DOMAIN tasks /\ u <= w /\ Chained(w) /\ Lane(w) = Lane(u)
      BY DEF Fenced, Drains
    <2>3. x # t
      <3> SUFFICES ASSUME x = t PROVE FALSE
        OBVIOUS
      <3>1. tasks[w].pc = "done"
        BY <1>2, <2>1, <2>2 DEF Ready
      <3>2. u # w
        BY <3>1 DEF Undone
      <3>3. Before(u, w)
        BY <1>4, <2>2, <3>2 DEF Before
      <3> QED
        BY <2>2, <3>1, <3>3 DEF Serial, InOrder, Undone
    <2> QED
      BY <1>2, <2>1, <2>2, <2>3
  <1>7. Still'
    <2> SUFFICES ASSUME NEW d \in Commands, Settles(d)'
                 PROVE  /\ deleting' = d
                        /\ \A u \in DOMAIN tasks : Undone(u) => Deletes(u) \/ ~Chained(u)
      BY <1>2, <1>3 DEF Still
    <2>1. CASE Settles(d)
      <3>1. deleting = d
        BY <2>1 DEF Fenced, Still
      <3>2. UNCHANGED deleting
        BY <2>1, <3>1, TaskFence
      <3> QED
        BY <2>1, <3>1, <3>2 DEF Fenced, Still
    <2>2. CASE ~Settles(d)
      <3>1. PICK x \in DOMAIN tasks : /\ tasks[x].cmd = d /\ tasks[x].pc = "executing"
                                      /\ UNCHANGED deleting
        BY <2>2, DeletionStep DEF Fenced
      <3>2. Deletes(x) /\ Undone(x)
        BY <3>1 DEF Settles, Deletes, Undone
      <3>3. deleting = d /\ \A u \in DOMAIN tasks : u <= x
        BY <3>1, <3>2 DEF Fenced, Fences
      <3>4. ASSUME NEW u \in DOMAIN tasks, Undone(u), Chained(u) PROVE Deletes(u)
        <4>1. ~(u < x)
          BY <3>1, <3>2, <3>4 DEF Fenced, Drains
        <4>2. u = x
          BY <1>4, <3>3, <4>1
        <4> QED
          BY <3>2, <4>2
      <3> QED
        BY <3>1, <3>3, <3>4
    <2> QED
      BY <2>1, <2>2
  <1>8. CancelsPrompts'
    <2>1. \A c \in Commands : prompts'[c] # 0 => Op[c] = "prompt"
      BY <1>1 DEF Moves, Released, Fenced, CancelsPrompts
    <2>2. ASSUME NEW u \in DOMAIN tasks, tasks'[u].pc = "cancelling"
          PROVE  Op[tasks'[tasks'[u].watch].cmd] = "prompt"
      <3>1. CASE u = t
        <4>1. Target[tasks[t].cmd] \in Commands
          BY TaskTyped, TargetAssumption
        <4>2. PICK p \in Commands : prompts[p] # 0 /\ tasks'[t].watch = prompts[p]
          BY <1>1, <2>2, <3>1, <4>1 DEF Moves, Marks
        <4>3. prompts[p] \in DOMAIN tasks /\ tasks[prompts[p]].cmd = p
          BY <4>2 DEF PromptsMatch
        <4> QED
          BY <1>2, <3>1, <4>2, <4>3 DEF Fenced, CancelsPrompts
      <3>2. CASE u # t
        <4>1. tasks[u].pc = "cancelling" /\ tasks'[u].watch = tasks[u].watch
          BY <1>2, <2>2, <3>2
        <4>2. tasks[u].watch \in DOMAIN tasks
          BY <4>1, TaskTyped DEF TaskLinked
        <4> QED
          BY <1>2, <4>1, <4>2 DEF Fenced, CancelsPrompts
      <3> QED
        BY <3>1, <3>2
    <2> QED
      BY <1>2, <2>1, <2>2 DEF CancelsPrompts
  <1> QED
    BY <1>5, <1>6, <1>7, <1>8

\* A command is scheduled while no deletion is under way or succeeded, and a
\* deletion waits for every chain.
LEMMA ScheduleFenced ==
    ASSUME Typed, Typed', Serial, Fenced, HandleSchedule
    PROVE  Fences' /\ Drains' /\ Still' /\ CancelsPrompts'
  <1> DEFINE c == HandledCommand
  <1>1. c \in Commands
    BY HandledTyped DEF HandleSchedule, Admitted, Deciding
  <1>2. Schedule(c) /\ deleting = NoCommand /\ UNCHANGED journal
    BY DEF HandleSchedule, Admitted
  <1> HIDE DEF c
  <1>3. PICK n : /\ DOMAIN tasks' = DOMAIN tasks \cup {n} /\ n \notin DOMAIN tasks
                 /\ n = Len(tasks) + 1
                 /\ tasks'[n].cmd = c /\ tasks'[n].pc = "queued"
                 /\ tasks'[n].waits = Waits(c)
    BY <1>1, <1>2, ScheduleShape
  <1>4. \A u \in DOMAIN tasks : tasks'[u] = tasks[u]
    BY <1>1, <1>2, ScheduleShape
  <1>5. DOMAIN tasks = 1..Len(tasks) /\ Len(tasks) \in Nat
    BY DEF Typed, TasksT
  <1>6. \A u \in DOMAIN tasks : /\ Undone(u)' <=> Undone(u)
                                /\ Deletes(u)' <=> Deletes(u)
                                /\ Chained(u)' <=> Chained(u)
                                /\ Lane(u)' = Lane(u) /\ u < n
    BY <1>3, <1>4, <1>5 DEF Undone, Deletes, Chained, Lane
  <1>7. \A u \in DOMAIN tasks : ~(Deletes(u) /\ Undone(u))
    <2>1. \A u \in DOMAIN tasks : tasks[u].cmd # NoCommand
      BY TaskTyped, NoCommandAssumption
    <2> QED
      BY <1>2, <2>1 DEF Fenced, Fences
  <1>8. Fences'
    <2>1. Deletes(n)' => deleting' = c
      BY <1>2, <1>3 DEF Schedule, Deletes
    <2>2. \A u \in DOMAIN tasks' : u <= n
      BY <1>3, <1>5
    <2> QED
      BY <1>3, <1>6, <1>7, <2>1, <2>2 DEF Fences
  <1>9. Drains'
    <2> SUFFICES ASSUME NEW u \in DOMAIN tasks, Op[c] = "delete", Chained(u)
                 PROVE  \E w \in Waits(c) :
                          w \in DOMAIN tasks /\ u <= w /\ Chained(w) /\ Lane(w) = Lane(u)
      <3>1. ASSUME NEW x \in DOMAIN tasks', NEW u \in DOMAIN tasks',
                   Deletes(x)', Undone(x)', u < x, Chained(u)', Undone(u)'
            PROVE  /\ tasks'[x].pc = "queued"
                   /\ \E w \in tasks'[x].waits :
                        w \in DOMAIN tasks' /\ u <= w /\ Chained(w)' /\ Lane(w)' = Lane(u)'
        <4>1. x = n
          BY <1>3, <1>6, <1>7, <3>1
        <4>2. u \in DOMAIN tasks
          BY <1>3, <1>5, <3>1, <4>1
        <4>3. Op[c] = "delete" /\ Chained(u)
          BY <1>3, <1>6, <3>1, <4>1, <4>2 DEF Deletes
        <4>4. PICK w \in Waits(c) :
                w \in DOMAIN tasks /\ u <= w /\ Chained(w) /\ Lane(w) = Lane(u)
          BY <4>2, <4>3
        <4> QED
          BY <1>3, <1>6, <4>1, <4>2, <4>4
      <3> QED
        BY <3>1 DEF Drains
    <2>1. Lane(u) \in Keys
      BY TaskTyped, KeyAssumption DEF Lane
    <2>2. u <= chains[Lane(u)] /\ chains[Lane(u)] \in 0..Len(tasks)
      BY <2>1 DEF Serial, LastOfLane
    <2>3. chains[Lane(u)] \in DOMAIN tasks /\ chains[Lane(u)] # 0
      BY <1>5, <2>2
    <2>4. Chained(chains[Lane(u)]) /\ Lane(chains[Lane(u)]) = Lane(u)
      BY <2>1, <2>3 DEF Serial, LastOfLane
    <2>5. chains[Lane(u)] \in Waits(c)
      BY <2>1, <2>3 DEF Waits
    <2> QED
      BY <2>2, <2>3, <2>4, <2>5
  <1>10. Still'
    <2>1. \A d \in Commands : ~Settles(d)
      BY <1>2, NoCommandAssumption DEF Fenced, Still
    <2> QED
      BY <1>2, <2>1 DEF Still, Settles
  <1>11. CancelsPrompts'
    <2>1. \A d \in Commands : prompts'[d] # 0 => Op[d] = "prompt"
      BY <1>1, <1>2 DEF Schedule, Fenced, CancelsPrompts, Typed, TasksT
    <2>2. \A u \in DOMAIN tasks : tasks[u].pc = "cancelling" => tasks[u].watch \in DOMAIN tasks
      BY TaskTyped DEF TaskLinked
    <2> QED
      BY <1>3, <1>4, <2>1, <2>2 DEF Fenced, CancelsPrompts
  <1> QED
    BY <1>8, <1>9, <1>10, <1>11

\* The fence holds as long as nothing disturbs the process.
LEMMA NextFenced ==
    ASSUME Typed, Typed', Safe, Serial, Keeping, Fenced,
           Undisturbed, Undisturbed', [Next]_vars
    PROVE  Fenced'
  <1>1. /\ Alone' /\ ~RecoveryNext
        /\ \/ \E t \in DOMAIN tasks : TaskNext(t)
           \/ HandleSchedule
           \/ Rests /\ UNCHANGED deleting
    BY AloneStep DEF Fenced
  <1>2. CASE \E t \in DOMAIN tasks : TaskNext(t)
    BY <1>1, <1>2, MovesFenced DEF Keeping, Fenced
  <1>3. CASE HandleSchedule
    BY <1>1, <1>3, ScheduleFenced DEF Fenced
  <1>4. CASE /\ ~\E t \in DOMAIN tasks : TaskNext(t)
             /\ Rests /\ UNCHANGED deleting
    <2>1. \A d \in Commands : Settles(d)' => Settles(d)
      BY <1>1, <1>4, DeletionStep DEF Fenced
    <2> QED
      BY <1>1, <1>4, <2>1, RestsFenced DEF Fenced
  <1> QED
    BY <1>1, <1>2, <1>3, <1>4

\* An operation begins in its task.
LEMMA BeginStep ==
    ASSUME Typed, Safe, [Next]_vars, NEW c \in Commands, now'[c] > now[c]
    PROVE  \E t \in DOMAIN tasks : tasks[t].cmd = c /\ Undone(t)
  <1>0. now \in [Commands -> Nat]
    BY DEF Typed, HistoryT
  <1>1. ~UNCHANGED now
    BY <1>0
  <1>2. ~Halt
    BY <1>0 DEF Halt
  <1>3. PICK t \in DOMAIN tasks : TaskNext(t) /\ (Begin(t) \/ StartAgent(t))
    BY <1>1, <1>2
    DEF Next, vars, historyVars, Receive, HandlerNext, ClaimEvent, Reconcile,
        HandleTerminal, HandleFenced, HandleRejected, HandlerSettles, HandleActive,
        HandleDeferred, HandleSchedule, HandlerStages, CompleteEvent,
        TaskNext, Dispatch, Complete, TaskSettles, Throw, InterruptBatch, Fail,
        Deadline, FailExpired, Persist, Stage, Confirmed, CancelTurn,
        SettleCancellation, StageCancellation, JoinCancellation, LateEnd,
        DeliveryNext, Send, Supersede, RedeliveryFails, ConfirmDelivery, FinalizeDeletion,
        deliveryFrame, RecoveryNext, Start, RecoverSkip, RecoverAccepted,
        RecoverDispatched, RecoverStages, RecoverDeletions, DrainInbox, startFrame,
        recoverFrame, DeploymentNext, SealBegin, Seal, SealFail, ResumeDeferred,
        SealStop, Stop, Stopped, Crash, sealFrame, Distrust
  <1>4. \E x : now' = [now EXCEPT ![tasks[t].cmd] = x]
    BY <1>1, <1>3 DEF Begin, StartAgent
  <1>5. tasks[t].cmd = c
    BY <1>0, <1>4
  <1> QED
    BY <1>3, <1>5 DEF Begin, StartAgent, At, Undone

\* Once a deletion has succeeded, nothing of its project begins any more, for
\* every number of commands, sessions, resends, cancellations, deadlines and
\* failures, as long as the Gateway is neither restarted nor sealed: the
\* promises project.delete waits for and deletingCommandId are enough.
THEOREM StillUntilRestart == Spec /\ []Undisturbed => DeletedProjectIsStill
  <1> DEFINE IInv == Typed /\ Safe /\ Serial /\ Keeping
             Begins(c) == now'[c] > now[c] /\ Op[c] \notin {"cancel", "delete"}
             Nothing == \A c \in Commands :
               Begins(c) => \A d \in Commands : Op[d] = "delete" => ~Succeeded(journal[d])
  <1>1. Init => IInv /\ Fenced
    BY InitTyped, InitSafe, InitSerial, InitKeeping, InitFenced
  <1>2. IInv /\ [Next]_vars => IInv'
    BY NextTyped, NextSafe, NextSerial, NextKeeping
  <1>3. IInv /\ IInv' /\ Fenced /\ Undisturbed /\ Undisturbed' /\ [Next]_vars => Fenced'
    BY NextFenced
  <1>4. IInv /\ Fenced /\ [Next]_vars => Nothing
    <2> SUFFICES ASSUME IInv, Fenced, [Next]_vars, NEW c \in Commands, Begins(c),
                        NEW d \in Commands, Settles(d)
                 PROVE  FALSE
      BY DEF Settles
    <2>1. PICK t \in DOMAIN tasks : tasks[t].cmd = c /\ Undone(t)
      BY BeginStep
    <2> QED
      BY <2>1 DEF Fenced, Still, Deletes, Chained
  <1>5. [Nothing]_vars => [\A c \in Commands :
         now'[c] > now[c] /\ Op[c] \notin {"cancel", "delete"}
           => \A d \in Commands : Op[d] = "delete" => ~Succeeded(journal[d])]_vars
    OBVIOUS
  <1> HIDE DEF IInv, Nothing
  <1> QED
    BY <1>1, <1>2, <1>3, <1>4, <1>5, PTL DEF Spec, DeletedProjectIsStill

=============================================================================
