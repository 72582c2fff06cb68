----------------------- MODULE CommandPipeline_types ------------------------
(***************************************************************************)
(* Type correctness of CommandPipeline, for every set of commands, every   *)
(* choice of operations and sessions and any number of deliveries, crashes *)
(* and seals, and the lemmas about its steps that other proofs build on.   *)
(***************************************************************************)
EXTENDS CommandPipeline, TLAPS

-----------------------------------------------------------------------------
(***************************************************************************)
(* Sequences.                                                              *)
(***************************************************************************)

\* Updating the elements of a sequence gives a sequence of the same length.
LEMMA SeqUpdate ==
    ASSUME NEW S, NEW s \in Seq(S), NEW f \in [DOMAIN s -> S]
    PROVE  f \in Seq(S) /\ Len(f) = Len(s) /\ DOMAIN f = DOMAIN s
  <1>1. DOMAIN s = 1..Len(s) /\ Len(s) \in Nat
    OBVIOUS
  <1>2. f \in [1..Len(s) -> S]
    BY <1>1
  <1>3. f \in Seq(S)
    BY <1>1, <1>2
  <1> QED
    BY <1>1, <1>2, <1>3

\* The elements of a sequence belong to its set.
LEMMA SeqElement ==
    ASSUME NEW S, NEW s \in Seq(S), NEW t \in DOMAIN s
    PROVE  s[t] \in S
  OBVIOUS

\* What Append adds and keeps.
LEMMA SeqAppend ==
    ASSUME NEW S, NEW s \in Seq(S), NEW e \in S
    PROVE  /\ Append(s, e) \in Seq(S) /\ Append(s, e) # <<>>
           /\ Len(s) \in Nat /\ Len(Append(s, e)) = Len(s) + 1
           /\ DOMAIN s = 1..Len(s)
           /\ DOMAIN Append(s, e) = 1..(Len(s) + 1)
           /\ \A i \in 1..Len(s) : Append(s, e)[i] = s[i]
           /\ Append(s, e)[Len(s) + 1] = e
  OBVIOUS

\* Head and Tail of a non-empty sequence.
LEMMA SeqHeadTail ==
    ASSUME NEW S, NEW s \in Seq(S), s # <<>>
    PROVE  /\ 1 \in DOMAIN s /\ Head(s) = s[1] /\ Head(s) \in S
           /\ Tail(s) \in Seq(S)
           /\ \A i \in DOMAIN Tail(s) : i + 1 \in DOMAIN s /\ Tail(s)[i] = s[i + 1]
  OBVIOUS

-----------------------------------------------------------------------------
(***************************************************************************)
(* Type correctness.  TypeOK is not inductive: the event a handler works   *)
(* on, the row recovery settles and the prompt a cancellation watches are  *)
(* looked up by position, so the positions have to exist.  The invariant   *)
(* is split by the variables it speaks about.                              *)
(***************************************************************************)

\* A row names a terminal exactly when it is terminal.
SoundRow == {row \in Row : row.status = "terminal" <=> row.term # "none"}

JournalT == journal \in [Commands -> SoundRow]

EffectT == applied \subseteq Commands /\ catalog \in BOOLEAN

QueueT ==
    /\ arrived \in Seq(Commands)
    /\ handled \subseteq Nat
    /\ queue \in Seq(Nat)
    /\ \A i \in DOMAIN queue : queue[i] \in DOMAIN arrived

HandlerT ==
    /\ handler \in Handler
    /\ handler.pc # "idle" => queue # <<>>
    /\ handler.pc = "staging" => handler.term # "none"

RoomT ==
    /\ outbox \subseteq Event /\ superseded \subseteq Event
    /\ published \subseteq Event /\ watching \subseteq Callback

InflightT == inflight \subseteq Commands

DeviceT == device \in {"valid", "expired", "revoked"}

LifeT ==
    /\ phase \in {"down", "recovering", "resuming", "running", "stopping"}
    /\ drain \in {"open", "waiting", "sealed"}
    /\ deferred \in Seq(Commands)
    /\ crashes \in Nat
    /\ seals \in Nat

RecoverT ==
    /\ claims \in Seq(Commands)
    /\ recover \in Recovery
    /\ recover.term # "none" => phase = "recovering" /\ recover.at <= Len(claims)

\* A task of which only its own settleAndDeliver() or the cancellation of a
\* prompt is under way carries what that step will look up.
TaskLinked(task, n) ==
    /\ task.pc \in {"cancelling", "cancelstaging"} => task.watch \in 1..n
    /\ task.pc = "staging" => task.term # "none"

TasksT ==
    /\ tasks \in Seq(Task)
    /\ \A t \in DOMAIN tasks : TaskLinked(tasks[t], Len(tasks))
    /\ prompts \in [Commands -> Nat]
    /\ \A c \in Commands : prompts[c] \in 0..Len(tasks)

ScheduleT ==
    /\ chains \in [Keys -> Nat]
    /\ active \in [Commands -> Nat]
    /\ deleting \in Commands \cup {NoCommand}

TurnT == turn \in [Keys -> Nat]

ExpiredT == expired \subseteq [cmd: Commands, persisting: BOOLEAN]

HistoryT == past \subseteq Commands /\ now \in [Commands -> Nat]

Typed ==
    /\ JournalT /\ EffectT /\ QueueT /\ HandlerT /\ RoomT /\ InflightT
    /\ DeviceT /\ LifeT /\ RecoverT /\ TasksT /\ ScheduleT /\ TurnT
    /\ ExpiredT /\ HistoryT

\* The strengthened invariant implies the type invariant.
LEMMA TypedTypeOK == Typed => TypeOK
  BY DEF Typed, TypeOK, SoundRow, JournalT, EffectT, QueueT, HandlerT, RoomT,
         InflightT, DeviceT, LifeT, RecoverT, TasksT, ScheduleT, TurnT,
         ExpiredT, HistoryT

\* The first start of a Gateway is typed.
LEMMA InitTyped == Init => Typed
  BY DEF Init, Typed, SoundRow, JournalT, EffectT, QueueT, HandlerT, RoomT,
         InflightT, DeviceT, LifeT, RecoverT, TasksT, ScheduleT, TurnT,
         ExpiredT, HistoryT, NoRow, Row, Statuses, Terms, IdleHandler, Handler,
         NoRecovery, Recovery

\* What a step leaves alone stays typed.
LEMMA Frames ==
    ASSUME Typed
    PROVE  /\ UNCHANGED journal => JournalT'
           /\ UNCHANGED <<applied, catalog>> => EffectT'
           /\ UNCHANGED <<arrived, handled, queue>> => QueueT'
           /\ UNCHANGED <<handler, queue>> => HandlerT'
           /\ UNCHANGED <<outbox, superseded, published, watching>> => RoomT'
           /\ UNCHANGED inflight => InflightT'
           /\ UNCHANGED device => DeviceT'
           /\ UNCHANGED <<phase, drain, deferred, crashes, seals>> => LifeT'
           /\ UNCHANGED <<claims, recover, phase>> => RecoverT'
           /\ UNCHANGED <<tasks, prompts>> => TasksT'
           /\ UNCHANGED <<chains, active, deleting>> => ScheduleT'
           /\ UNCHANGED turn => TurnT'
           /\ UNCHANGED expired => ExpiredT'
           /\ UNCHANGED <<past, now>> => HistoryT'
  <1>1. UNCHANGED journal => JournalT'
    BY DEF Typed, JournalT
  <1>2. UNCHANGED <<applied, catalog>> => EffectT'
    BY DEF Typed, EffectT
  <1>3. UNCHANGED <<arrived, handled, queue>> => QueueT'
    BY DEF Typed, QueueT
  <1>4. UNCHANGED <<handler, queue>> => HandlerT'
    BY DEF Typed, HandlerT
  <1>5. UNCHANGED <<outbox, superseded, published, watching>> => RoomT'
    BY DEF Typed, RoomT
  <1>6. UNCHANGED inflight => InflightT'
    BY DEF Typed, InflightT
  <1>7. UNCHANGED device => DeviceT'
    BY DEF Typed, DeviceT
  <1>8. UNCHANGED <<phase, drain, deferred, crashes, seals>> => LifeT'
    BY DEF Typed, LifeT
  <1>9. UNCHANGED <<claims, recover, phase>> => RecoverT'
    BY DEF Typed, RecoverT
  <1>10. UNCHANGED <<tasks, prompts>> => TasksT'
    BY DEF Typed, TasksT
  <1>11. UNCHANGED <<chains, active, deleting>> => ScheduleT'
    BY DEF Typed, ScheduleT
  <1>12. UNCHANGED turn => TurnT'
    BY DEF Typed, TurnT
  <1>13. UNCHANGED expired => ExpiredT'
    BY DEF Typed, ExpiredT
  <1>14. UNCHANGED <<past, now>> => HistoryT'
    BY DEF Typed, HistoryT
  <1> QED
    BY <1>1, <1>2, <1>3, <1>4, <1>5, <1>6, <1>7, <1>8, <1>9, <1>10, <1>11,
       <1>12, <1>13, <1>14

\* Every method of the journal keeps a row sound.
LEMMA RowTypes ==
    ASSUME NEW row \in SoundRow, NEW term \in Terms
    PROVE  /\ Claimed(row) \in SoundRow
           /\ MarkedDispatched(row) \in SoundRow
           /\ Settled(row, term) \in SoundRow
           /\ MarkedDelivered(row, term) \in SoundRow
  BY DEF SoundRow, Row, Claimed, MarkedDispatched, Settled, MarkedDelivered,
         Statuses, Terms

\* A row that awaits its delivery has an event to deliver.
LEMMA TerminalEventTyped ==
    ASSUME Typed, NEW c \in Commands, journal[c].status = "terminal"
    PROVE  TerminalEvent(c) \in Event
  BY DEF Typed, JournalT, SoundRow, Row, TerminalEvent, Event

\* settle() keeps the journal and the deliveries under way typed.
LEMMA StoreTyped ==
    ASSUME Typed, NEW c \in Commands, NEW term \in Terms, Store(c, term)
    PROVE  JournalT' /\ InflightT'
  <1>1. Settled(journal[c], term) \in SoundRow
    BY RowTypes DEF Typed, JournalT
  <1> QED
    BY <1>1 DEF Typed, JournalT, InflightT, Store

\* enqueueEventDelivery() of an event keeps the room typed.
LEMMA StageTyped ==
    ASSUME Typed, NEW e \in Event, NEW once \in BOOLEAN,
           StageEvent(e, once), UNCHANGED published
    PROVE  RoomT'
  <1>1. CallbackFor(e, once) \in Callback
    BY DEF CallbackFor, Callback, Event
  <1> QED
    BY <1>1 DEF Typed, RoomT, StageEvent

\* So does a delivery whose staging fails or that is obsolete on arrival.
LEMMA DeliverTyped ==
    ASSUME Typed, NEW e \in Event, Deliver(e), UNCHANGED published
    PROVE  RoomT' /\ InflightT'
  <1>1. CASE StageEvent(e, FALSE) /\ UNCHANGED inflight
    BY <1>1, StageTyped, Frames
  <1>2. CASE ObsoleteOnArrival(e) /\ inflight' = inflight \ {e.cmd}
    BY <1>2 DEF Typed, RoomT, InflightT, ObsoleteOnArrival
  <1>3. CASE inflight' = inflight \ {e.cmd} /\ UNCHANGED <<outbox, superseded, watching>>
    BY <1>3 DEF Typed, RoomT, InflightT
  <1> QED
    BY <1>1, <1>2, <1>3 DEF Deliver

\* So does a redelivery.
LEMMA RedeliverTyped ==
    ASSUME Typed, NEW c \in Commands, TerminalEvent(c) \in Event, Redeliver(c),
           UNCHANGED published
    PROVE  RoomT' /\ InflightT'
  <1> DEFINE e == TerminalEvent(c)
  <1>1. CASE inflight' = inflight \cup {c} /\ StageEvent(e, TRUE)
    BY <1>1, StageTyped DEF Typed, InflightT
  <1>2. CASE ObsoleteOnArrival(e) /\ UNCHANGED inflight
    BY <1>2 DEF Typed, RoomT, InflightT, ObsoleteOnArrival
  <1>3. CASE UNCHANGED <<inflight, outbox, superseded, watching>>
    BY <1>3, Frames
  <1> QED
    BY <1>1, <1>2, <1>3 DEF Redeliver

\* A task, by its position.
LEMMA TaskTyped ==
    ASSUME Typed, NEW t \in DOMAIN tasks
    PROVE  /\ tasks[t] \in Task /\ tasks[t].cmd \in Commands
           /\ tasks \in Seq(Task) /\ Len(tasks) \in Nat
           /\ DOMAIN tasks = 1..Len(tasks)
           /\ TaskLinked(tasks[t], Len(tasks))
  <1>1. tasks \in Seq(Task) /\ TaskLinked(tasks[t], Len(tasks))
    BY DEF Typed, TasksT
  <1>2. tasks[t] \in Task
    BY <1>1, SeqElement
  <1> QED
    BY <1>1, <1>2 DEF Task

\* Tasks may be replaced one by one.
LEMMA TasksUpdated ==
    ASSUME Typed, NEW f \in [DOMAIN tasks -> Task], tasks' = f,
           \A t \in DOMAIN tasks : TaskLinked(f[t], Len(tasks)),
           prompts' \in [Commands -> Nat],
           \A c \in Commands : prompts'[c] \in 0..Len(tasks)
    PROVE  TasksT'
  <1>1. tasks \in Seq(Task)
    BY DEF Typed, TasksT
  <1>2. f \in Seq(Task) /\ Len(f) = Len(tasks) /\ DOMAIN f = DOMAIN tasks
    BY <1>1, SeqUpdate
  <1> QED
    BY <1>2 DEF TasksT

Plain == TaskPcs \ {"cancelling", "cancelstaging", "staging"}

\* The finally blocks of a task keep the tasks and the maps typed.
LEMMA AdvanceTyped ==
    ASSUME Typed, NEW t \in DOMAIN tasks, NEW pc \in Plain, Advance(t, pc)
    PROVE  TasksT' /\ ScheduleT' /\ TurnT'
  <1>1. tasks[t] \in Task /\ tasks[t].cmd \in Commands
    BY TaskTyped
  <1>2. PICK task \in Task : /\ tasks' = [tasks EXCEPT ![t] = task]
                             /\ task.pc = pc
    <2>1. DoneTask(tasks[t]) \in Task /\ DoneTask(tasks[t]).pc = "done"
      BY <1>1 DEF DoneTask, NewTask, Task, TaskPcs
    <2>2. /\ [tasks[t] EXCEPT !.pc = pc] \in Task
          /\ [tasks[t] EXCEPT !.pc = pc].pc = pc
      BY <1>1 DEF Task, Plain
    <2> QED
      BY <2>1, <2>2 DEF Advance
  <1>3. TasksT'
    <2> DEFINE f == [tasks EXCEPT ![t] = task]
    <2>1. f \in [DOMAIN tasks -> Task]
      BY TaskTyped
    <2>2. \A u \in DOMAIN tasks : TaskLinked(f[u], Len(tasks))
      <3>1. TaskLinked(task, Len(tasks))
        BY <1>2 DEF TaskLinked, Plain
      <3> QED
        BY <3>1, TaskTyped
    <2>3. /\ prompts' \in [Commands -> Nat]
          /\ \A c \in Commands : prompts'[c] \in 0..Len(tasks)
      <3>1. Len(tasks) \in Nat
        BY TaskTyped
      <3> QED
        BY <1>1, <3>1 DEF Advance, Typed, TasksT
    <2>4. tasks' = f
      BY <1>2
    <2> QED
      BY <2>1, <2>2, <2>3, <2>4, TasksUpdated
  <1>4. ScheduleT'
    BY <1>1 DEF Advance, Typed, ScheduleT
  <1>5. TurnT'
    BY DEF Advance, Typed, TurnT
  <1> QED
    BY <1>3, <1>4, <1>5

\* scheduleExecution() keeps the tasks and the maps typed.
LEMMA ScheduleTyped ==
    ASSUME Typed, NEW c \in Commands, Schedule(c)
    PROVE  TasksT' /\ ScheduleT'
  <1> DEFINE new == NewTask(c, Waits(c))
  <1>0. Key[c] \in Keys
    BY KeyAssumption
  <1>1. new \in Task /\ new.pc = "queued"
    <2>1. Waits(c) \in SUBSET Nat
      BY <1>0 DEF Waits, Typed, ScheduleT
    <2> QED
      BY <2>1 DEF NewTask, Task, TaskPcs
  <1>2. tasks \in Seq(Task) /\ tasks' = Append(tasks, new)
    BY DEF Schedule, Typed, TasksT
  <1> HIDE DEF new
  <1>3. /\ tasks' \in Seq(Task) /\ Len(tasks) \in Nat
        /\ Len(tasks') = Len(tasks) + 1
        /\ DOMAIN tasks = 1..Len(tasks) /\ DOMAIN tasks' = 1..(Len(tasks) + 1)
        /\ \A i \in 1..Len(tasks) : tasks'[i] = tasks[i]
        /\ tasks'[Len(tasks) + 1] = new
    BY <1>1, <1>2, SeqAppend
  <1>4. \A t \in DOMAIN tasks' : TaskLinked(tasks'[t], Len(tasks'))
    BY <1>1, <1>3 DEF Typed, TasksT, TaskLinked
  <1>5. /\ prompts' \in [Commands -> Nat]
        /\ \A d \in Commands : prompts'[d] \in 0..Len(tasks')
    BY <1>3 DEF Schedule, Typed, TasksT
  <1>6. ScheduleT'
    BY <1>0, <1>3 DEF Schedule, Typed, ScheduleT
  <1> QED
    BY <1>3, <1>4, <1>5, <1>6 DEF TasksT

\* The event the handler works on exists.
LEMMA HandledTyped ==
    ASSUME Typed, handler.pc # "idle"
    PROVE  /\ queue # <<>> /\ queue \in Seq(Nat)
           /\ Head(queue) \in DOMAIN arrived /\ Head(queue) \in Nat
           /\ HandledCommand \in Commands
  <1>1. queue # <<>> /\ queue \in Seq(Nat) /\ arrived \in Seq(Commands)
    BY DEF Typed, QueueT, HandlerT
  <1>2. Head(queue) \in DOMAIN arrived /\ Head(queue) \in Nat
    BY <1>1, SeqHeadTail DEF Typed, QueueT
  <1> QED
    BY <1>1, <1>2, SeqElement DEF HandledCommand

\* The handler moves on without staging an event.
LEMMA HandlerMoved ==
    ASSUME Typed, handler.pc # "idle", NEW pc \in {"decide", "complete"},
           handler' = [handler EXCEPT !.pc = pc], UNCHANGED queue
    PROVE  HandlerT'
  <1>1. queue # <<>>
    BY HandledTyped
  <1> QED
    BY <1>1 DEF Typed, HandlerT, Handler

\* receiveEvent() queues only positions of staged events.
LEMMA ReceiveTyped ==
    ASSUME Typed, NEW c \in Commands, Receive(c)
    PROVE  Typed'
  <1>1. QueueT' /\ HandlerT'
    <2>1. arrived \in Seq(Commands) /\ queue \in Seq(Nat)
      BY DEF Typed, QueueT
    <2>2. arrived' = Append(arrived, c)
      BY DEF Receive
    <2>3. /\ arrived' \in Seq(Commands) /\ Len(arrived) + 1 \in Nat
          /\ DOMAIN arrived \subseteq DOMAIN arrived'
          /\ Len(arrived) + 1 \in DOMAIN arrived'
      BY <2>1, <2>2, SeqAppend
    <2>4. /\ queue' \in Seq(Nat)
          /\ \A i \in DOMAIN queue' : queue'[i] \in DOMAIN arrived'
          /\ queue # <<>> => queue' # <<>>
      <3>1. CASE UNCHANGED queue
        BY <3>1, <2>1, <2>3 DEF Typed, QueueT
      <3>2. CASE queue' = Append(queue, Len(arrived) + 1)
        BY <3>2, <2>1, <2>3, SeqAppend DEF Typed, QueueT
      <3> QED
        BY <3>1, <3>2 DEF Receive
    <2> QED
      BY <2>3, <2>4 DEF Receive, Typed, QueueT, HandlerT
  <1> QED
    BY <1>1, Frames DEF Receive, Typed, deliveryVars, lifeVars, scheduleVars,
                        historyVars

\* handleEvent() up to the claim keeps the types.
LEMMA ClaimTyped ==
    ASSUME Typed, ClaimEvent
    PROVE  Typed'
  <1> DEFINE c == arrived[Head(queue)]
  <1>1. queue # <<>> /\ c \in Commands
    <2>1. queue # <<>> /\ queue \in Seq(Nat) /\ arrived \in Seq(Commands)
      BY DEF ClaimEvent, Typed, QueueT
    <2>2. Head(queue) \in DOMAIN arrived
      BY <2>1, SeqHeadTail DEF Typed, QueueT
    <2> QED
      BY <2>1, <2>2, SeqElement
  <1>2. Claimed(journal[c]) \in SoundRow
    <2>1. journal[c] \in SoundRow /\ "failed" \in Terms
      BY <1>1 DEF Typed, JournalT, Terms
    <2> QED
      BY <2>1, RowTypes
  <1>3. \/ /\ handler' = [handler EXCEPT !.pc = "complete"]
           /\ UNCHANGED <<journal, claims>>
        \/ /\ journal' = [journal EXCEPT ![c] = Claimed(@)]
           /\ claims' = claims \/ claims' = Append(claims, c)
           /\ \E pc \in {"reconcile", "decide"}, dup, rejected \in BOOLEAN :
                handler' = [pc |-> pc, dup |-> dup, rejected |-> rejected,
                            snap |-> Claimed(journal[c]), term |-> "none"]
    BY DEF ClaimEvent
  <1> HIDE DEF c
  <1>4. JournalT'
    BY <1>1, <1>2, <1>3 DEF Typed, JournalT
  <1>5. RecoverT'
    <2>1. claims \in Seq(Commands)
      BY DEF Typed, RecoverT
    <2>2. claims' \in Seq(Commands) /\ Len(claims') >= Len(claims)
      BY <1>1, <1>3, <2>1, SeqAppend
    <2>3. recover' = recover /\ phase' = phase
      BY DEF ClaimEvent, lifeVars
    <2> QED
      BY <2>1, <2>2, <2>3 DEF Typed, RecoverT, Recovery
  <1>6. HandlerT'
    <2>1. queue' = queue
      BY DEF ClaimEvent
    <2>2. CASE handler' = [handler EXCEPT !.pc = "complete"]
      BY <1>1, <2>1, <2>2 DEF Typed, HandlerT, Handler
    <2>3. ASSUME NEW pc \in {"reconcile", "decide"},
                 NEW dup \in BOOLEAN, NEW rejected \in BOOLEAN,
                 handler' = [pc |-> pc, dup |-> dup, rejected |-> rejected,
                             snap |-> Claimed(journal[c]), term |-> "none"]
          PROVE  HandlerT'
      BY <1>1, <1>2, <2>1, <2>3 DEF HandlerT, Handler, SoundRow
    <2> QED
      BY <1>3, <2>2, <2>3
  <1> QED
    BY <1>4, <1>5, <1>6, Frames
    DEF ClaimEvent, Typed, inboxVars, deliveryVars, lifeVars, scheduleVars,
        historyVars

\* settleAndDeliver() called by the event handler.
LEMMA HandlerSettlesTyped ==
    ASSUME Typed, handler.pc # "idle", NEW term \in Terms, HandlerSettles(term)
    PROVE  Typed'
  <1>1. HandledCommand \in Commands /\ queue # <<>>
    BY HandledTyped
  <1>2. \/ /\ Store(HandledCommand, term)
           /\ handler' = [handler EXCEPT !.pc = "staging", !.term = term]
        \/ /\ handler' = [handler EXCEPT !.pc = "complete"]
           /\ UNCHANGED <<journal, inflight>>
    BY DEF HandlerSettles
  <1>3. UNCHANGED queue
    BY DEF HandlerSettles
  <1>4. JournalT' /\ InflightT'
    BY <1>1, <1>2, StoreTyped, Frames
  <1>5. HandlerT'
    <2>1. CASE handler' = [handler EXCEPT !.pc = "staging", !.term = term]
      BY <1>1, <1>3, <2>1 DEF Typed, HandlerT, Handler, Terms
    <2> QED
      BY <1>2, <1>3, <2>1, HandlerMoved
  <1> QED
    BY <1>4, <1>5, Frames
    DEF HandlerSettles, Typed, inboxVars, lifeVars, scheduleVars, historyVars

\* Every step of the event handler keeps the types.
LEMMA HandlerTyped ==
    ASSUME Typed, HandlerNext
    PROVE  Typed'
  <1> USE DEF inboxVars, deliveryVars, scheduleVars, lifeVars, historyVars
  <1>1. CASE ClaimEvent
    BY <1>1, ClaimTyped
  <1>2. CASE Reconcile
    <2>1. HandlerT'
      BY <1>2, HandlerMoved DEF Reconcile
    <2> QED
      BY <1>2, <2>1, Frames DEF Reconcile, Typed
  <1>3. CASE HandleTerminal
    <2>0. handler.pc # "idle"
      BY <1>3 DEF HandleTerminal, Deciding
    <2>1. HandledCommand \in Commands
      BY <2>0, HandledTyped
    <2>2. HandlerT'
      BY <1>3, <2>0, HandlerMoved DEF HandleTerminal
    <2>3. RoomT' /\ InflightT'
      <3>1. \/ /\ PendingDelivery(journal[HandledCommand])
               /\ Redeliver(HandledCommand)
            \/ UNCHANGED <<inflight, outbox, superseded, watching>>
        BY <1>3 DEF HandleTerminal
      <3>2. ASSUME PendingDelivery(journal[HandledCommand])
            PROVE  TerminalEvent(HandledCommand) \in Event
        BY <2>1, <3>2, TerminalEventTyped DEF PendingDelivery
      <3>3. UNCHANGED published
        BY <1>3 DEF HandleTerminal
      <3> QED
        BY <2>1, <3>1, <3>2, <3>3, RedeliverTyped, Frames
    <2> QED
      BY <1>3, <2>2, <2>3, Frames DEF HandleTerminal, Typed
  <1>4. CASE HandleFenced
    BY <1>4, HandlerSettlesTyped DEF HandleFenced, Deciding, Terms
  <1>5. CASE HandleRejected
    BY <1>5, HandlerSettlesTyped DEF HandleRejected, Deciding, Terms
  <1>6. CASE HandleActive
    <2>1. HandlerT'
      BY <1>6, HandlerMoved DEF HandleActive, Admitted, Deciding
    <2> QED
      BY <1>6, <2>1, Frames DEF HandleActive, Typed
  <1>7. CASE HandleDeferred
    <2>0. handler.pc # "idle"
      BY <1>7 DEF HandleDeferred, Admitted, Deciding
    <2>1. HandlerT'
      BY <1>7, <2>0, HandlerMoved DEF HandleDeferred
    <2>2. LifeT'
      <3>1. HandledCommand \in Commands
        BY <2>0, HandledTyped
      <3>2. deferred \in Seq(Commands)
        BY DEF Typed, LifeT
      <3>3. deferred' \in Seq(Commands)
        BY <1>7, <3>1, <3>2, SeqAppend DEF HandleDeferred
      <3> QED
        BY <1>7, <3>3 DEF HandleDeferred, Typed, LifeT
    <2> QED
      BY <1>7, <2>1, <2>2, Frames DEF HandleDeferred, Typed
  <1>8. CASE HandleSchedule
    <2>0. handler.pc # "idle"
      BY <1>8 DEF HandleSchedule, Admitted, Deciding
    <2>1. HandlerT'
      BY <1>8, <2>0, HandlerMoved DEF HandleSchedule
    <2>2. TasksT' /\ ScheduleT'
      BY <1>8, <2>0, HandledTyped, ScheduleTyped DEF HandleSchedule
    <2> QED
      BY <1>8, <2>1, <2>2, Frames DEF HandleSchedule, Typed
  <1>9. CASE HandlerStages
    <2>0. handler.pc # "idle"
      BY <1>9 DEF HandlerStages
    <2>1. HandlerT'
      BY <1>9, <2>0, HandlerMoved DEF HandlerStages
    <2>2. [cmd |-> HandledCommand, term |-> handler.term] \in Event
      BY <1>9, <2>0, HandledTyped
      DEF HandlerStages, Typed, HandlerT, Handler, Event
    <2>3. RoomT' /\ InflightT'
      BY <1>9, <2>2, DeliverTyped DEF HandlerStages
    <2> QED
      BY <1>9, <2>1, <2>3, Frames DEF HandlerStages, Typed
  <1>10. CASE CompleteEvent
    <2>1. handler.pc # "idle"
      BY <1>10 DEF CompleteEvent
    <2>2. queue \in Seq(Nat) /\ queue # <<>> /\ Head(queue) \in Nat
      BY <2>1, HandledTyped
    <2>3. QueueT'
      <3>1. /\ queue' = Tail(queue) /\ arrived' = arrived
            /\ handled' = handled \cup {Head(queue)}
        BY <1>10 DEF CompleteEvent
      <3>2. /\ Tail(queue) \in Seq(Nat)
            /\ \A i \in DOMAIN Tail(queue) : Tail(queue)[i] \in DOMAIN arrived
        BY <2>2, SeqHeadTail DEF Typed, QueueT
      <3> QED
        BY <2>2, <3>1, <3>2 DEF Typed, QueueT
    <2>4. HandlerT'
      BY <1>10 DEF CompleteEvent, HandlerT, Handler, IdleHandler, NoRow, Row,
                   Statuses
    <2> QED
      BY <1>10, <2>3, <2>4, Frames DEF CompleteEvent, Typed
  <1> QED
    BY <1>1, <1>2, <1>3, <1>4, <1>5, <1>6, <1>7, <1>8, <1>9, <1>10
    DEF HandlerNext

-----------------------------------------------------------------------------
\* A step that replaces tasks by linked ones keeps the tasks typed.
LEMMA TasksReplaced ==
    ASSUME Typed, NEW f \in [DOMAIN tasks -> Task], tasks' = f,
           \A t \in DOMAIN tasks : TaskLinked(f[t], Len(tasks)),
           UNCHANGED prompts
    PROVE  TasksT'
  <1>1. /\ prompts' \in [Commands -> Nat]
        /\ \A c \in Commands : prompts'[c] \in 0..Len(tasks)
    BY DEF Typed, TasksT
  <1> QED
    BY <1>1, TasksUpdated

\* The same with the tasks given one by one.
LEMMA TasksChanged ==
    ASSUME Typed, DOMAIN tasks' = DOMAIN tasks,
           tasks' = [u \in DOMAIN tasks' |-> tasks'[u]],
           \A u \in DOMAIN tasks : /\ tasks'[u] \in Task
                                  /\ TaskLinked(tasks'[u], Len(tasks)),
           UNCHANGED prompts
    PROVE  TasksT'
  <1>1. tasks' \in [DOMAIN tasks -> Task]
    OBVIOUS
  <1> QED
    BY <1>1, TasksReplaced

\* A task calls settleAndDeliver().
LEMMA TaskSettlesTyped ==
    ASSUME Typed, NEW t \in DOMAIN tasks, NEW term \in Terms,
           NEW allowExpired \in BOOLEAN, NEW onThrow \in Plain,
           TaskSettles(t, term, allowExpired, onThrow)
    PROVE  Typed'
  <1>1. tasks[t] \in Task /\ tasks[t].cmd \in Commands
    BY TaskTyped
  <1>2. \/ /\ Store(tasks[t].cmd, term)
           /\ tasks' = [tasks EXCEPT ![t].pc = "staging", ![t].term = term]
           /\ UNCHANGED <<scheduleVars, turn>>
        \/ /\ \E pc \in {"done", onThrow} : Advance(t, pc)
           /\ UNCHANGED <<journal, inflight>>
    BY DEF TaskSettles
  <1>3. JournalT' /\ InflightT'
    BY <1>1, <1>2, StoreTyped, Frames
  <1>4. TasksT' /\ ScheduleT' /\ TurnT'
    <2>1. CASE /\ tasks' = [tasks EXCEPT ![t].pc = "staging", ![t].term = term]
               /\ UNCHANGED <<scheduleVars, turn>>
      <3> DEFINE task == [tasks[t] EXCEPT !.pc = "staging", !.term = term]
      <3>1. task \in Task /\ TaskLinked(task, Len(tasks))
        BY <1>1 DEF Task, TaskPcs, TaskLinked, Terms
      <3>2. tasks' = [tasks EXCEPT ![t] = task]
        BY <2>1
      <3> HIDE DEF task
      <3>3. /\ DOMAIN tasks' = DOMAIN tasks
            /\ tasks' = [u \in DOMAIN tasks' |-> tasks'[u]]
            /\ \A u \in DOMAIN tasks : /\ tasks'[u] \in Task
                                       /\ TaskLinked(tasks'[u], Len(tasks))
        BY <3>1, <3>2, TaskTyped
      <3> QED
        BY <2>1, <3>3, TasksChanged, Frames DEF scheduleVars
    <2>2. ASSUME NEW pc \in {"done", onThrow}, Advance(t, pc)
          PROVE  TasksT' /\ ScheduleT' /\ TurnT'
      <3>1. pc \in Plain
        BY DEF Plain, TaskPcs
      <3> QED
        BY <2>2, <3>1, AdvanceTyped
    <2> QED
      BY <1>2, <2>1, <2>2
  <1> QED
    BY <1>3, <1>4, Frames
    DEF TaskSettles, taskFrame, Typed, inboxVars, lifeVars

\* Where waitForScheduledPromptCancellation() leads is an ordinary step.
LEMMA AfterCancellationTyped ==
    ASSUME Typed, NEW t \in DOMAIN tasks, NEW s, AfterCancellation(t, s)
    PROVE  TasksT' /\ ScheduleT' /\ TurnT'
  <1>1. \E pc \in {"done", "failing"} : Advance(t, pc)
    BY DEF AfterCancellation
  <1>2. {"done", "failing"} \subseteq Plain
    BY DEF Plain, TaskPcs
  <1> QED
    BY <1>1, <1>2, AdvanceTyped

\* markDispatched() and the cancellation check before it.
LEMMA DispatchTyped ==
    ASSUME Typed, NEW t \in DOMAIN tasks, Dispatch(t)
    PROVE  Typed'
  <1>1. tasks[t].cmd \in Commands /\ "dispatched" \in Plain
    BY TaskTyped DEF Plain, TaskPcs
  <1>2. TasksT' /\ ScheduleT' /\ TurnT'
    BY <1>1, AdvanceTyped, AfterCancellationTyped DEF Dispatch
  <1>3. JournalT'
    <2>1. journal[tasks[t].cmd] \in SoundRow /\ "failed" \in Terms
      BY <1>1 DEF Typed, JournalT, Terms
    <2>2. MarkedDispatched(journal[tasks[t].cmd]) \in SoundRow
      BY <2>1, RowTypes
    <2> QED
      BY <1>1, <2>2, Frames DEF Dispatch, Typed, JournalT
  <1> QED
    BY <1>2, <1>3, Frames DEF Dispatch, taskFrame, Typed, inboxVars, lifeVars

\* executeWithDeadline() calls execute().
LEMMA BeginTyped ==
    ASSUME Typed, NEW t \in DOMAIN tasks, Begin(t)
    PROVE  Typed'
  <1>1. tasks[t].cmd \in Commands /\ "executing" \in Plain
    BY TaskTyped DEF Plain, TaskPcs
  <1>2. TasksT' /\ ScheduleT' /\ TurnT'
    BY <1>1, AdvanceTyped, AfterCancellationTyped DEF Begin
  <1>3. HistoryT'
    BY <1>1 DEF Begin, taskFrame, Typed, HistoryT
  <1> QED
    BY <1>2, <1>3, Frames DEF Begin, taskFrame, Typed, inboxVars, lifeVars

\* beginPromptAgentDispatch() and the turn that starts.
LEMMA StartAgentTyped ==
    ASSUME Typed, NEW t \in DOMAIN tasks, StartAgent(t)
    PROVE  Typed'
  <1> DEFINE c == tasks[t].cmd
             s == prompts[c]
  <1>1. c \in Commands /\ Key[c] \in Keys
    BY TaskTyped, KeyAssumption
  <1>2. TasksT' /\ ScheduleT' /\ TurnT'
    <2>1. CASE /\ tasks' = [u \in DOMAIN tasks |->
                    IF u = t THEN [tasks[u] EXCEPT !.pc = "agent", !.agent = (@ \/ u = s)]
                    ELSE IF u = s THEN [tasks[u] EXCEPT !.agent = TRUE]
                    ELSE tasks[u]]
               /\ turn' = [turn EXCEPT ![Key[c]] = t]
               /\ UNCHANGED scheduleVars
      <3>1. ASSUME NEW u \in DOMAIN tasks
            PROVE  /\ tasks'[u] \in Task
                   /\ TaskLinked(tasks'[u], Len(tasks))
        <4>1. tasks[u] \in Task /\ TaskLinked(tasks[u], Len(tasks))
          BY TaskTyped
        <4>2. /\ [tasks[u] EXCEPT !.pc = "agent", !.agent = (@ \/ u = s)] \in Task
              /\ TaskLinked([tasks[u] EXCEPT !.pc = "agent", !.agent = (@ \/ u = s)],
                            Len(tasks))
          BY <4>1 DEF Task, TaskPcs, TaskLinked
        <4>3. /\ [tasks[u] EXCEPT !.agent = TRUE] \in Task
              /\ TaskLinked([tasks[u] EXCEPT !.agent = TRUE], Len(tasks))
          BY <4>1 DEF Task, TaskLinked
        <4> QED
          BY <2>1, <4>1, <4>2, <4>3
      <3>2. DOMAIN tasks' = DOMAIN tasks /\ tasks' = [u \in DOMAIN tasks' |-> tasks'[u]]
        BY <2>1
      <3>3. TasksT' /\ ScheduleT'
        BY <2>1, <3>1, <3>2, TasksChanged, Frames DEF scheduleVars
      <3>4. t \in Nat
        BY TaskTyped
      <3>5. TurnT'
        BY <1>1, <2>1, <3>4 DEF Typed, TurnT
      <3> QED
        BY <3>3, <3>5
    <2> QED
      BY <2>1, AfterCancellationTyped DEF StartAgent
  <1>3. HistoryT'
    <2>1. past' = past /\ (now' = [now EXCEPT ![c] = @ + 1] \/ now' = now)
      BY DEF StartAgent, taskFrame
    <2> QED
      BY <1>1, <2>1 DEF Typed, HistoryT
  <1> QED
    BY <1>2, <1>3, Frames DEF StartAgent, taskFrame, Typed, inboxVars, lifeVars

\* The project state written by setSessionLifecycle().
LEMMA PersistTyped ==
    ASSUME Typed, NEW t \in DOMAIN tasks, Persist(t)
    PROVE  Typed'
  <1>1. tasks[t].cmd \in Commands /\ {"persisting", "persisted"} \subseteq Plain
    BY TaskTyped DEF Plain, TaskPcs
  <1>2. TasksT' /\ ScheduleT' /\ TurnT'
    BY <1>1, AdvanceTyped DEF Persist
  <1>3. EffectT'
    BY <1>1 DEF Persist, taskFrame, Typed, EffectT
  <1> QED
    BY <1>2, <1>3, Frames DEF Persist, taskFrame, Typed, inboxVars, lifeVars

\* The execution deadline.
LEMMA DeadlineTyped ==
    ASSUME Typed, NEW t \in DOMAIN tasks, Deadline(t)
    PROVE  Typed'
  <1>1. tasks[t].cmd \in Commands /\ "timedout" \in Plain
    BY TaskTyped DEF Plain, TaskPcs
  <1>2. TasksT' /\ ScheduleT' /\ TurnT'
    BY <1>1, AdvanceTyped DEF Deadline
  <1>3. ExpiredT'
    <2>1. PICK late \in BOOLEAN :
             expired' = expired \cup {[cmd |-> tasks[t].cmd, persisting |-> late]}
      BY DEF Deadline
    <2> QED
      BY <1>1, <2>1 DEF Typed, ExpiredT
  <1> QED
    BY <1>2, <1>3, Frames DEF Deadline, taskFrame, Typed, inboxVars, lifeVars

\* The staging in settleAndDeliver(): the terminal it names exists.
LEMMA StageStepTyped ==
    ASSUME Typed, NEW t \in DOMAIN tasks, Stage(t)
    PROVE  Typed'
  <1>1. {"confirming", "done"} \subseteq Plain
    BY DEF Plain, TaskPcs
  <1>2. TasksT' /\ ScheduleT' /\ TurnT'
    BY <1>1, AdvanceTyped DEF Stage
  <1>3. [cmd |-> tasks[t].cmd, term |-> tasks[t].term] \in Event
    <2>1. tasks[t] \in Task /\ TaskLinked(tasks[t], Len(tasks)) /\ tasks[t].pc = "staging"
      BY TaskTyped DEF Stage, At
    <2> QED
      BY <2>1 DEF Task, TaskLinked, Event
  <1>4. UNCHANGED published
    BY DEF Stage, taskFrame
  <1>5. RoomT' /\ InflightT'
    BY <1>3, <1>4, DeliverTyped DEF Stage
  <1> QED
    BY <1>2, <1>5, Frames DEF Stage, taskFrame, Typed, inboxVars, lifeVars

\* Replacing one or two tasks, the links they carry kept.
LEMMA TwoTasks ==
    ASSUME Typed, NEW t \in DOMAIN tasks, NEW s \in DOMAIN tasks,
           NEW x \in Task, NEW y \in Task,
           TaskLinked(x, Len(tasks)), TaskLinked(y, Len(tasks)),
           tasks' = [[tasks EXCEPT ![t] = x] EXCEPT ![s] = y],
           UNCHANGED <<scheduleVars, turn>>
    PROVE  TasksT' /\ ScheduleT' /\ TurnT'
  <1>1. DOMAIN tasks' = DOMAIN tasks /\ tasks' = [u \in DOMAIN tasks' |-> tasks'[u]]
    OBVIOUS
  <1>2. \A u \in DOMAIN tasks : tasks'[u] \in Task /\ TaskLinked(tasks'[u], Len(tasks))
    BY TaskTyped
  <1> QED
    BY <1>1, <1>2, TasksChanged, Frames DEF scheduleVars

\* Changing flags that no link depends on.
LEMMA FlagsTyped ==
    ASSUME NEW task \in Task, NEW n, TaskLinked(task, n)
    PROVE  /\ \A cancel \in {"no", "requested", "settled", "refused"} :
                /\ [task EXCEPT !.cancel = cancel] \in Task
                /\ TaskLinked([task EXCEPT !.cancel = cancel], n)
           /\ [task EXCEPT !.abort = TRUE] \in Task
           /\ TaskLinked([task EXCEPT !.abort = TRUE], n)
  BY DEF Task, TaskLinked

\* A task moves on, watching another one or not.
LEMMA MovedTyped ==
    ASSUME NEW task \in Task, NEW n, NEW pc \in Plain, NEW s \in Nat
    PROVE  /\ [task EXCEPT !.pc = pc] \in Task
           /\ TaskLinked([task EXCEPT !.pc = pc], n)
           /\ [task EXCEPT !.pc = pc, !.watch = s] \in Task
           /\ TaskLinked([task EXCEPT !.pc = pc, !.watch = s], n)
  <1>1. pc \in TaskPcs /\ pc \notin {"cancelling", "cancelstaging", "staging"}
    BY DEF Plain
  <1> QED
    BY <1>1 DEF Task, TaskLinked

\* A cancellation begins, and reaches its own staging.
LEMMA CancellingTyped ==
    ASSUME NEW task \in Task, NEW n \in Nat
    PROVE  /\ \A s \in 1..n :
                /\ [task EXCEPT !.pc = "cancelling", !.watch = s] \in Task
                /\ TaskLinked([task EXCEPT !.pc = "cancelling", !.watch = s], n)
           /\ task.pc = "cancelling" /\ TaskLinked(task, n) =>
                /\ [task EXCEPT !.pc = "cancelstaging"] \in Task
                /\ TaskLinked([task EXCEPT !.pc = "cancelstaging"], n)
  <1>1. "cancelling" \in TaskPcs /\ "cancelstaging" \in TaskPcs
    BY DEF TaskPcs
  <1>2. ASSUME NEW s \in 1..n
        PROVE  /\ [task EXCEPT !.pc = "cancelling", !.watch = s] \in Task
               /\ TaskLinked([task EXCEPT !.pc = "cancelling", !.watch = s], n)
    <2>1. s \in Nat
      OBVIOUS
    <2>2. [task EXCEPT !.pc = "cancelling", !.watch = s] \in Task
      BY <1>1, <2>1 DEF Task
    <2>3. /\ [task EXCEPT !.pc = "cancelling", !.watch = s].pc = "cancelling"
          /\ [task EXCEPT !.pc = "cancelling", !.watch = s].watch = s
      BY DEF Task
    <2> QED
      BY <2>2, <2>3 DEF TaskLinked
  <1>3. ASSUME task.pc = "cancelling", TaskLinked(task, n)
        PROVE  /\ [task EXCEPT !.pc = "cancelstaging"] \in Task
               /\ TaskLinked([task EXCEPT !.pc = "cancelstaging"], n)
    BY <1>1, <1>3 DEF Task, TaskLinked
  <1> QED
    BY <1>2, <1>3

\* cancelTurn() marks, joins or aborts a task that exists.
LEMMA CancelTurnTyped ==
    ASSUME Typed, NEW t \in DOMAIN tasks, CancelTurn(t)
    PROVE  Typed'
  <1> DEFINE c == tasks[t].cmd
             p == Target[c]
             s == prompts[p]
             r == turn[Key[c]]
  <1>1. c \in Commands /\ p \in Commands /\ Key[c] \in Keys
    BY TaskTyped, TargetAssumption, KeyAssumption
  <1>2. /\ tasks[t] \in Task /\ TaskLinked(tasks[t], Len(tasks))
        /\ tasks[t].pc = "executing" /\ Len(tasks) \in Nat
        /\ DOMAIN tasks = 1..Len(tasks)
    BY TaskTyped DEF CancelTurn, At
  <1>3. s \in 0..Len(tasks) /\ r \in Nat
    BY <1>1 DEF Typed, TasksT, TurnT
  <1>4. {"awaitcancel", "awaitturn", "concluding", "failing"} \subseteq Plain
    BY DEF Plain, TaskPcs
  <1>5. \/ /\ s # 0 /\ UNCHANGED <<scheduleVars, turn>>
           /\ tasks' = [Watching(t, s, "cancelling") EXCEPT ![s].cancel = "requested"]
        \/ /\ tasks' = Watching(t, s, "awaitcancel")
           /\ UNCHANGED <<scheduleVars, turn>>
        \/ Advance(t, "concluding")
        \/ Advance(t, "failing")
        \/ /\ UNCHANGED <<scheduleVars, turn>>
           /\ tasks' = [Watching(t, r, "awaitturn") EXCEPT ![r].abort = TRUE]
    BY DEF CancelTurn
  <1> HIDE DEF c, p, s, r
  <1>6. TasksT' /\ ScheduleT' /\ TurnT'
    <2>1. CASE /\ s # 0 /\ UNCHANGED <<scheduleVars, turn>>
               /\ tasks' = [Watching(t, s, "cancelling") EXCEPT ![s].cancel = "requested"]
      <3> DEFINE x == [tasks[t] EXCEPT !.pc = "cancelling", !.watch = s]
      <3>1. s \in DOMAIN tasks /\ s \in Nat
        BY <1>2, <1>3, <2>1
      <3>2. x \in Task /\ TaskLinked(x, Len(tasks))
        BY <1>2, <3>1, CancellingTyped
      <3>3. Watching(t, s, "cancelling") = [tasks EXCEPT ![t] = x]
        BY <1>2 DEF Watching
      <3> HIDE DEF x
      <3>4. PICK old \in Task : TaskLinked(old, Len(tasks)) /\ [tasks EXCEPT ![t] = x][s] = old
        BY <1>2, <3>1, <3>2, TaskTyped
      <3>5. tasks' = [[tasks EXCEPT ![t] = x] EXCEPT ![s] = [old EXCEPT !.cancel = "requested"]]
        BY <2>1, <3>3, <3>4
      <3>6. /\ [old EXCEPT !.cancel = "requested"] \in Task
            /\ TaskLinked([old EXCEPT !.cancel = "requested"], Len(tasks))
        BY <3>4, FlagsTyped
      <3> QED
        BY <2>1, <3>1, <3>2, <3>5, <3>6, TwoTasks
    <2>2. CASE tasks' = Watching(t, s, "awaitcancel") /\ UNCHANGED <<scheduleVars, turn>>
      <3> DEFINE x == [tasks[t] EXCEPT !.pc = "awaitcancel", !.watch = s]
      <3>1. x \in Task /\ TaskLinked(x, Len(tasks))
        <4>1. "awaitcancel" \in Plain /\ s \in Nat
          BY <1>2, <1>3, <1>4
        <4> QED
          BY <1>2, <4>1, MovedTyped
      <3>2. tasks' = [[tasks EXCEPT ![t] = x] EXCEPT ![t] = x]
        BY <2>2 DEF Watching
      <3> HIDE DEF x
      <3> QED
        BY <2>2, <3>1, <3>2, TwoTasks
    <2>3. CASE Advance(t, "concluding") \/ Advance(t, "failing")
      BY <1>4, <2>3, AdvanceTyped
    <2>4. CASE /\ UNCHANGED <<scheduleVars, turn>>
               /\ tasks' = [Watching(t, r, "awaitturn") EXCEPT ![r].abort = TRUE]
      <3> DEFINE x == [tasks[t] EXCEPT !.pc = "awaitturn", !.watch = r]
      <3>1. x \in Task /\ TaskLinked(x, Len(tasks))
        <4>1. "awaitturn" \in Plain /\ r \in Nat
          BY <1>2, <1>3, <1>4
        <4> QED
          BY <1>2, <4>1, MovedTyped
      <3>2. Watching(t, r, "awaitturn") = [tasks EXCEPT ![t] = x]
        BY <1>2 DEF Watching
      <3> HIDE DEF x
      <3>3. CASE r \in DOMAIN tasks
        <4>1. PICK old \in Task : TaskLinked(old, Len(tasks)) /\ [tasks EXCEPT ![t] = x][r] = old
          BY <1>2, <3>1, <3>3, TaskTyped
        <4>2. tasks' = [[tasks EXCEPT ![t] = x] EXCEPT ![r] = [old EXCEPT !.abort = TRUE]]
          BY <2>4, <3>2, <4>1
        <4>3. /\ [old EXCEPT !.abort = TRUE] \in Task
              /\ TaskLinked([old EXCEPT !.abort = TRUE], Len(tasks))
          BY <4>1, FlagsTyped
        <4> QED
          BY <2>4, <3>1, <3>3, <4>2, <4>3, TwoTasks
      <3>4. CASE r \notin DOMAIN tasks
        <4>1. tasks' = [[tasks EXCEPT ![t] = x] EXCEPT ![t] = x]
          BY <2>4, <3>2, <3>4
        <4> QED
          BY <2>4, <3>1, <4>1, TwoTasks
      <3> QED
        BY <3>3, <3>4
    <2> QED
      BY <1>5, <2>1, <2>2, <2>3, <2>4
  <1> QED
    BY <1>6, Frames DEF CancelTurn, taskFrame, Typed, inboxVars, lifeVars

\* settleScheduledPromptCancellation(): the watched prompt exists.
LEMMA SettleCancellationTyped ==
    ASSUME Typed, NEW t \in DOMAIN tasks, SettleCancellation(t)
    PROVE  Typed'
  <1> DEFINE s == tasks[t].watch
  <1>1. /\ tasks[t] \in Task /\ TaskLinked(tasks[t], Len(tasks))
        /\ tasks[t].pc = "cancelling" /\ DOMAIN tasks = 1..Len(tasks)
        /\ Len(tasks) \in Nat
    BY TaskTyped DEF SettleCancellation, At
  <1>2. s \in DOMAIN tasks
    BY <1>1 DEF TaskLinked
  <1>3. tasks[s] \in Task /\ tasks[s].cmd \in Commands /\ TaskLinked(tasks[s], Len(tasks))
    BY <1>2, TaskTyped
  <1>4. /\ UNCHANGED <<scheduleVars, turn>>
        /\ \/ /\ Store(tasks[s].cmd, "cancelled")
              /\ tasks' = [tasks EXCEPT ![t].pc = "cancelstaging"]
           \/ /\ UNCHANGED <<journal, inflight>>
              /\ tasks' = [tasks EXCEPT ![t].pc = "failing", ![s].cancel = "refused"]
    BY DEF SettleCancellation
  <1> HIDE DEF s
  <1>5. JournalT' /\ InflightT'
    BY <1>3, <1>4, StoreTyped, Frames DEF Terms
  <1>6. TasksT' /\ ScheduleT' /\ TurnT'
    <2>1. CASE tasks' = [tasks EXCEPT ![t].pc = "cancelstaging"]
      <3> DEFINE x == [tasks[t] EXCEPT !.pc = "cancelstaging"]
      <3>1. x \in Task /\ TaskLinked(x, Len(tasks))
        BY <1>1, CancellingTyped
      <3>2. tasks' = [[tasks EXCEPT ![t] = x] EXCEPT ![t] = x]
        BY <2>1
      <3> HIDE DEF x
      <3> QED
        BY <1>4, <3>1, <3>2, TwoTasks
    <2>2. CASE tasks' = [tasks EXCEPT ![t].pc = "failing", ![s].cancel = "refused"]
      <3> DEFINE x == [tasks[t] EXCEPT !.pc = "failing"]
      <3>1. x \in Task /\ TaskLinked(x, Len(tasks))
        BY <1>1, MovedTyped DEF Plain, TaskPcs
      <3>2. tasks' = [[tasks EXCEPT ![t] = x] EXCEPT ![s].cancel = "refused"]
        BY <2>2
      <3> HIDE DEF x
      <3>3. PICK old \in Task : TaskLinked(old, Len(tasks)) /\ [tasks EXCEPT ![t] = x][s] = old
        BY <1>2, <1>3, <3>1
      <3>4. tasks' = [[tasks EXCEPT ![t] = x] EXCEPT ![s] = [old EXCEPT !.cancel = "refused"]]
        BY <3>2, <3>3
      <3>5. /\ [old EXCEPT !.cancel = "refused"] \in Task
            /\ TaskLinked([old EXCEPT !.cancel = "refused"], Len(tasks))
        BY <3>3, FlagsTyped
      <3> QED
        BY <1>2, <1>4, <3>1, <3>4, <3>5, TwoTasks
    <2> QED
      BY <1>4, <2>1, <2>2
  <1> QED
    BY <1>5, <1>6, Frames
    DEF SettleCancellation, taskFrame, Typed, inboxVars, lifeVars

\* The staging of a cancelled prompt keeps the types.
LEMMA StageCancellationTyped ==
    ASSUME Typed, NEW t \in DOMAIN tasks, StageCancellation(t)
    PROVE  Typed'
  <1> DEFINE s == tasks[t].watch
             x == [tasks[t] EXCEPT !.pc = "concluding"]
  <1>1. /\ tasks[t] \in Task /\ TaskLinked(tasks[t], Len(tasks))
        /\ tasks[t].pc = "cancelstaging" /\ DOMAIN tasks = 1..Len(tasks)
    BY TaskTyped DEF StageCancellation, At
  <1>2. s \in DOMAIN tasks
    BY <1>1 DEF TaskLinked
  <1>3. tasks[s] \in Task /\ tasks[s].cmd \in Commands /\ TaskLinked(tasks[s], Len(tasks))
    BY <1>2, TaskTyped
  <1>4. x \in Task /\ TaskLinked(x, Len(tasks))
    BY <1>1, MovedTyped DEF Plain, TaskPcs
  <1>5. tasks' = [[tasks EXCEPT ![t] = x] EXCEPT ![s].cancel = "settled"]
    BY DEF StageCancellation
  <1>6. RoomT' /\ InflightT'
    <2>1. [cmd |-> tasks[s].cmd, term |-> "cancelled"] \in Event
      BY <1>3 DEF Event, Terms
    <2>2. Deliver([cmd |-> tasks[s].cmd, term |-> "cancelled"]) /\ UNCHANGED published
      BY DEF StageCancellation, taskFrame
    <2> QED
      BY <2>1, <2>2, DeliverTyped
  <1>7. UNCHANGED <<scheduleVars, turn>>
    BY DEF StageCancellation
  <1> HIDE DEF s, x
  <1>8. PICK old \in Task : TaskLinked(old, Len(tasks)) /\ [tasks EXCEPT ![t] = x][s] = old
    BY <1>2, <1>3, <1>4
  <1>9. tasks' = [[tasks EXCEPT ![t] = x] EXCEPT ![s] = [old EXCEPT !.cancel = "settled"]]
    BY <1>5, <1>8
  <1>10. /\ [old EXCEPT !.cancel = "settled"] \in Task
         /\ TaskLinked([old EXCEPT !.cancel = "settled"], Len(tasks))
    BY <1>8, FlagsTyped
  <1>11. TasksT' /\ ScheduleT' /\ TurnT'
    BY <1>2, <1>4, <1>7, <1>9, <1>10, TwoTasks
  <1> QED
    BY <1>6, <1>11, Frames
    DEF StageCancellation, taskFrame, Typed, inboxVars, lifeVars

\* Every step of a task keeps the types.
LEMMA TaskNextTyped ==
    ASSUME Typed, NEW t \in DOMAIN tasks, TaskNext(t)
    PROVE  Typed'
  <1> USE DEF inboxVars, lifeVars
  <1>0. /\ {"done", "failing", "concluding"} \subseteq Plain
        /\ {"completed", "failed"} \subseteq Terms
    BY DEF Plain, TaskPcs, Terms
  <1>1. CASE Dispatch(t)
    BY <1>1, DispatchTyped
  <1>2. CASE Begin(t)
    BY <1>2, BeginTyped
  <1>3. CASE StartAgent(t)
    BY <1>3, StartAgentTyped
  <1>4. CASE Complete(t)
    BY <1>0, <1>4, TaskSettlesTyped DEF Complete
  <1>5. CASE Throw(t)
    BY <1>0, <1>5, AdvanceTyped, Frames DEF Throw, taskFrame, Typed
  <1>6. CASE InterruptBatch(t)
    BY <1>0, <1>6, AdvanceTyped, Frames DEF InterruptBatch, taskFrame, Typed
  <1>7. CASE Fail(t)
    BY <1>0, <1>7, TaskSettlesTyped DEF Fail
  <1>8. CASE Deadline(t)
    BY <1>8, DeadlineTyped
  <1>9. CASE FailExpired(t)
    BY <1>0, <1>9, TaskSettlesTyped DEF FailExpired
  <1>10. CASE Persist(t)
    BY <1>10, PersistTyped
  <1>11. CASE Stage(t)
    BY <1>11, StageStepTyped
  <1>12. CASE Confirmed(t)
    BY <1>0, <1>12, AdvanceTyped, Frames DEF Confirmed, taskFrame, Typed
  <1>13. CASE CancelTurn(t)
    BY <1>13, CancelTurnTyped
  <1>14. CASE SettleCancellation(t)
    BY <1>14, SettleCancellationTyped
  <1>15. CASE StageCancellation(t)
    BY <1>15, StageCancellationTyped
  <1>16. CASE JoinCancellation(t)
    BY <1>0, <1>16, AdvanceTyped, Frames DEF JoinCancellation, taskFrame, Typed
  <1> QED
    BY <1>1, <1>2, <1>3, <1>4, <1>5, <1>6, <1>7, <1>8, <1>9, <1>10, <1>11,
       <1>12, <1>13, <1>14, <1>15, <1>16
    DEF TaskNext

-----------------------------------------------------------------------------
\* Every delivery step, and a late end, keeps the types.
LEMMA DeliveryTyped ==
    ASSUME Typed, DeliveryNext \/ \E z \in expired : LateEnd(z)
    PROVE  Typed'
  <1> USE DEF inboxVars, deliveryVars, scheduleVars, lifeVars, historyVars
  <1>1. ASSUME NEW e \in outbox, Send(e) PROVE Typed'
    <2>1. RoomT'
      BY <1>1 DEF Send, Typed, RoomT
    <2> QED
      BY <1>1, <2>1, Frames DEF Send, deliveryFrame, Typed
  <1>2. ASSUME NEW e \in watching, ConfirmDelivery(e) PROVE Typed'
    <2>1. e.cmd \in Commands /\ e.term \in Terms
      BY DEF Typed, RoomT, Callback
    <2>2. JournalT'
      <3>1. journal[e.cmd] \in SoundRow
        BY <2>1 DEF Typed, JournalT
      <3>2. MarkedDelivered(journal[e.cmd], e.term) \in SoundRow
        BY <2>1, <3>1, RowTypes
      <3>3. \/ UNCHANGED journal
            \/ journal' = [journal EXCEPT ![e.cmd] = MarkedDelivered(@, e.term)]
        BY <1>2 DEF ConfirmDelivery
      <3> QED
        BY <2>1, <3>2, <3>3 DEF Typed, JournalT
    <2>3. RoomT' /\ InflightT'
      BY <1>2 DEF ConfirmDelivery, Typed, RoomT, InflightT
    <2> QED
      BY <1>2, <2>2, <2>3, Frames DEF ConfirmDelivery, deliveryFrame, Typed
  <1>3. ASSUME NEW e \in watching, FinalizeDeletion(e) PROVE Typed'
    <2>1. RoomT' /\ InflightT'
      BY <1>3 DEF FinalizeDeletion, Typed, RoomT, InflightT
    <2>2. EffectT'
      BY <1>3 DEF FinalizeDeletion, deliveryFrame, Typed, EffectT
    <2> QED
      BY <1>3, <2>1, <2>2, Frames DEF FinalizeDeletion, deliveryFrame, Typed
  <1>4. ASSUME NEW e \in watching, RedeliveryFails(e) PROVE Typed'
    <2>1. RoomT' /\ InflightT'
      BY <1>4 DEF RedeliveryFails, Typed, RoomT, InflightT
    <2> QED
      BY <1>4, <2>1, Frames DEF RedeliveryFails, deliveryFrame, Typed
  <1>5. ASSUME NEW e \in outbox, Supersede(e) PROVE Typed'
    <2>1. RoomT' /\ InflightT'
      BY <1>5 DEF Supersede, Typed, RoomT, InflightT
    <2> QED
      BY <1>5, <2>1, Frames DEF Supersede, deliveryFrame, Typed
  <1>6. ASSUME NEW z \in expired, LateEnd(z) PROVE Typed'
    <2>1. z.cmd \in Commands
      BY DEF Typed, ExpiredT
    <2>2. EffectT'
      BY <1>6, <2>1 DEF LateEnd, taskFrame, Typed, EffectT
    <2>3. ExpiredT'
      BY <1>6 DEF LateEnd, Typed, ExpiredT
    <2> QED
      BY <1>6, <2>2, <2>3, Frames DEF LateEnd, taskFrame, Typed
  <1> QED
    BY <1>1, <1>2, <1>3, <1>4, <1>5, <1>6 DEF DeliveryNext

\* The row recovery has reached.
LEMMA RecoveredTyped ==
    ASSUME Typed, recover.at <= Len(claims)
    PROVE  /\ claims[recover.at] \in Commands
           /\ recover.at \in Nat /\ recover.at + 1 \in Nat \ {0}
  <1>1. claims \in Seq(Commands) /\ recover.at \in Nat \ {0}
    BY DEF Typed, RecoverT, Recovery
  <1>2. recover.at \in DOMAIN claims
    BY <1>1
  <1> QED
    BY <1>1, <1>2, SeqElement

\* The loop of recoverJournal() or drainInbox() moves on or ends.
LEMMA RecoverMoved ==
    ASSUME Typed, recover.at \in Nat, UNCHANGED claims,
           \/ recover' = [recover EXCEPT !.at = @ + 1, !.term = "none"]
           \/ recover.term = "none" /\ recover' = [recover EXCEPT !.at = @ + 1]
           \/ recover' = NoRecovery
    PROVE  RecoverT'
  <1>1. NoRecovery \in Recovery /\ NoRecovery.term = "none"
    BY DEF NoRecovery, Recovery, NoRow, Row, Statuses
  <1>2. recover' \in Recovery /\ recover'.term = "none"
    <2>1. recover \in Recovery
      BY DEF Typed, RecoverT
    <2>2. ASSUME recover' = [recover EXCEPT !.at = @ + 1, !.term = "none"]
          PROVE  recover' \in Recovery /\ recover'.term = "none"
      <3> DEFINE next == [recover EXCEPT !.at = @ + 1]
      <3>1. next \in Recovery
        BY <2>1 DEF Recovery
      <3>2. recover' = [next EXCEPT !.term = "none"]
        BY <2>2
      <3> HIDE DEF next
      <3> QED
        BY <3>1, <3>2 DEF Recovery
    <2>3. ASSUME recover.term = "none", recover' = [recover EXCEPT !.at = @ + 1]
          PROVE  recover' \in Recovery /\ recover'.term = "none"
      BY <2>1, <2>3 DEF Recovery
    <2> QED
      BY <1>1, <2>2, <2>3
  <1> QED
    BY <1>2 DEF Typed, RecoverT

\* Every step of a restart keeps the types.
LEMMA RecoveryTyped ==
    ASSUME Typed, RecoveryNext
    PROVE  Typed'
  <1> USE DEF inboxVars, deliveryVars, scheduleVars, lifeVars, historyVars,
              startFrame, recoverFrame
  <1>1. CASE Start
    <2> DEFINE redeliver == {c \in Commands : /\ catalog /\ PendingDelivery(journal[c])
                                             /\ TerminalEvent(c) \notin superseded}
               events == {TerminalEvent(c) : c \in redeliver}
    <2>1. events \subseteq Event
      <3>1. \A c \in redeliver : TerminalEvent(c) \in Event
        BY TerminalEventTyped DEF PendingDelivery
      <3> QED
        BY <3>1
    <2>2. /\ inflight' = redeliver /\ UNCHANGED <<published, superseded>>
          /\ watching' = {CallbackFor(e, TRUE) : e \in events}
          /\ outbox' = outbox \cup (events \ published)
      BY <1>1 DEF Start
    <2> HIDE DEF events
    <2>3. RoomT' /\ InflightT'
      <3>1. \A e \in Event : CallbackFor(e, TRUE) \in Callback
        BY DEF CallbackFor, Callback, Event
      <3> QED
        BY <2>1, <2>2, <3>1 DEF Typed, RoomT, InflightT
    <2>4. RecoverT'
      <3>1. journal \in [Commands -> Row]
        BY DEF Typed, JournalT, SoundRow
      <3> QED
        BY <1>1, <3>1 DEF Start, Typed, RecoverT, Recovery, NoRecovery
    <2>5. ScheduleT'
      BY <1>1 DEF Start, Typed, ScheduleT
    <2>6. LifeT'
      BY <1>1 DEF Start, Typed, LifeT
    <2> QED
      BY <1>1, <2>3, <2>4, <2>5, <2>6, Frames DEF Start, Typed
  <1>2. CASE RecoverSkip
    <2>1. RecoverT'
      BY <1>2, RecoveredTyped, RecoverMoved DEF RecoverSkip, Recovering
    <2> QED
      BY <1>2, <2>1, Frames DEF RecoverSkip, Typed
  <1>3. CASE RecoverAccepted
    <2>1. RecoverT'
      BY <1>3, RecoveredTyped, RecoverMoved DEF RecoverAccepted, Recovering
    <2>2. TasksT' /\ ScheduleT'
      BY <1>3, RecoveredTyped, ScheduleTyped DEF RecoverAccepted, Recovering
    <2> QED
      BY <1>3, <2>1, <2>2, Frames DEF RecoverAccepted, Typed
  <1>4. CASE RecoverDispatched
    <2>1. /\ claims[recover.at] \in Commands /\ recover.at \in Nat
          /\ recover.at <= Len(claims) /\ recover.term = "none"
      BY <1>4, RecoveredTyped DEF RecoverDispatched, Recovering
    <2>2. PICK term \in {"completed", "interrupted"} :
            \/ /\ Store(claims[recover.at], term)
               /\ recover' = [recover EXCEPT !.term = term]
            \/ /\ recover' = [recover EXCEPT !.at = @ + 1]
               /\ UNCHANGED <<journal, inflight>>
      BY <1>4 DEF RecoverDispatched
    <2>3. term \in Terms
      BY DEF Terms
    <2>4. JournalT' /\ InflightT'
      BY <2>1, <2>2, <2>3, StoreTyped, Frames
    <2>5. UNCHANGED <<claims, phase>> /\ phase = "recovering"
      BY <1>4 DEF RecoverDispatched, Recovering
    <2>6. RecoverT'
      <3>1. CASE recover' = [recover EXCEPT !.term = term]
        BY <2>1, <2>3, <2>5, <3>1 DEF Typed, RecoverT, Recovery
      <3> QED
        BY <2>1, <2>2, <2>5, <3>1, RecoverMoved
    <2> QED
      BY <1>4, <2>4, <2>6, Frames DEF RecoverDispatched, Typed
  <1>5. CASE RecoverStages
    <2>1. recover.at <= Len(claims)
      BY <1>5 DEF RecoverStages, Typed, RecoverT
    <2>2. claims[recover.at] \in Commands /\ recover.at \in Nat
      BY <2>1, RecoveredTyped
    <2>3. [cmd |-> claims[recover.at], term |-> recover.term] \in Event
      BY <1>5, <2>2 DEF RecoverStages, Typed, RecoverT, Recovery, Event
    <2>4. RoomT' /\ InflightT'
      BY <1>5, <2>3, DeliverTyped DEF RecoverStages
    <2>5. RecoverT'
      BY <1>5, <2>2, RecoverMoved DEF RecoverStages
    <2> QED
      BY <1>5, <2>4, <2>5, Frames DEF RecoverStages, Typed
  <1>6. CASE RecoverDeletions
    <2>1. RecoverT'
      <3>1. recover.at \in Nat
        BY DEF Typed, RecoverT, Recovery
      <3> QED
        BY <1>6, <3>1, RecoverMoved, Frames DEF RecoverDeletions
    <2>2. EffectT'
      BY <1>6 DEF RecoverDeletions, Typed, EffectT
    <2>3. LifeT'
      BY <1>6 DEF RecoverDeletions, Typed, LifeT
    <2> QED
      BY <1>6, <2>1, <2>2, <2>3, Frames DEF RecoverDeletions, Typed
  <1>7. CASE DrainInbox
    <2>1. recover.at \in Nat \ {0}
      BY DEF Typed, RecoverT, Recovery
    <2>2. \/ /\ recover.at <= Len(arrived)
             /\ queue' \in {queue, Append(queue, recover.at)}
             /\ recover' = [recover EXCEPT !.at = @ + 1]
             /\ UNCHANGED phase
          \/ /\ phase' = "running"
             /\ recover' = NoRecovery
             /\ UNCHANGED queue
      BY <1>7 DEF DrainInbox
    <2>3. UNCHANGED <<arrived, handled, handler, claims, drain, deferred, crashes, seals>>
      BY <1>7 DEF DrainInbox
    <2>4. QueueT' /\ HandlerT'
      <3>1. CASE UNCHANGED queue
        BY <2>3, <3>1, Frames
      <3>2. CASE /\ recover.at <= Len(arrived)
                 /\ queue' = Append(queue, recover.at)
        <4>1. arrived \in Seq(Commands) /\ queue \in Seq(Nat)
          BY DEF Typed, QueueT
        <4>2. recover.at \in DOMAIN arrived /\ recover.at \in Nat
          BY <2>1, <3>2, <4>1
        <4>3. /\ queue' \in Seq(Nat) /\ queue' # <<>>
              /\ \A i \in DOMAIN queue' : queue'[i] \in DOMAIN arrived
          BY <3>2, <4>1, <4>2, SeqAppend DEF Typed, QueueT
        <4> QED
          BY <2>3, <4>3 DEF Typed, QueueT, HandlerT
      <3> QED
        BY <2>2, <3>1, <3>2
    <2>5. RecoverT'
      <3>1. CASE recover' = NoRecovery
        BY <2>1, <2>3, <3>1, RecoverMoved
      <3>2. CASE recover' = [recover EXCEPT !.at = @ + 1]
        <4>1. recover.term = "none"
          BY <1>7 DEF DrainInbox, Typed, RecoverT
        <4> QED
          BY <2>1, <2>3, <3>2, <4>1, RecoverMoved
      <3> QED
        BY <2>2, <3>1, <3>2
    <2>6. LifeT'
      BY <2>2, <2>3 DEF Typed, LifeT
    <2> QED
      BY <1>7, <2>4, <2>5, <2>6, Frames DEF DrainInbox, Typed
  <1> QED
    BY <1>1, <1>2, <1>3, <1>4, <1>5, <1>6, <1>7 DEF RecoveryNext

-----------------------------------------------------------------------------
\* A process that ends leaves a typed state.
LEMMA HaltTyped ==
    ASSUME Typed, Halt, crashes' \in Nat
    PROVE  Typed'
  <1>1. QueueT' /\ HandlerT' /\ TasksT' /\ ScheduleT' /\ TurnT'
    BY DEF Halt, inboxVars, Typed, QueueT, HandlerT, TasksT, ScheduleT, TurnT,
           IdleHandler, Handler, NoRow, Row, Statuses
  <1>2. RecoverT' /\ LifeT'
    BY DEF Halt, Typed, RecoverT, LifeT, NoRecovery, Recovery, NoRow, Row, Statuses
  <1>3. ExpiredT' /\ InflightT' /\ RoomT'
    BY DEF Halt, Typed, ExpiredT, InflightT, RoomT
  <1>4. HistoryT'
    BY DEF Halt, Typed, HistoryT
  <1> QED
    BY <1>1, <1>2, <1>3, <1>4, Frames DEF Halt, Typed

\* Seals, stops, crashes and revocations keep the types.
LEMMA DeploymentTyped ==
    ASSUME Typed, DeploymentNext \/ Crash \/ Distrust
    PROVE  Typed'
  <1> USE DEF inboxVars, deliveryVars, scheduleVars, lifeVars, historyVars, sealFrame
  <1>1. CASE SealBegin
    <2>1. PICK force \in BOOLEAN :
            tasks' = [t \in DOMAIN tasks |->
                        IF force /\ tasks[t].pc = "agent"
                        THEN [tasks[t] EXCEPT !.abort = TRUE] ELSE tasks[t]]
      BY <1>1 DEF SealBegin
    <2>2. /\ DOMAIN tasks' = DOMAIN tasks
          /\ tasks' = [u \in DOMAIN tasks' |-> tasks'[u]]
      BY <2>1
    <2>3. \A u \in DOMAIN tasks : tasks'[u] \in Task /\ TaskLinked(tasks'[u], Len(tasks))
      <3> SUFFICES ASSUME NEW u \in DOMAIN tasks
                   PROVE  tasks'[u] \in Task /\ TaskLinked(tasks'[u], Len(tasks))
        OBVIOUS
      <3>1. tasks[u] \in Task /\ TaskLinked(tasks[u], Len(tasks))
        BY TaskTyped
      <3>2. tasks'[u] = tasks[u] \/ tasks'[u] = [tasks[u] EXCEPT !.abort = TRUE]
        BY <2>1
      <3> QED
        BY <3>1, <3>2, FlagsTyped
    <2>4. TasksT'
      BY <1>1, <2>2, <2>3, TasksChanged DEF SealBegin
    <2>5. LifeT'
      BY <1>1 DEF SealBegin, Typed, LifeT
    <2> QED
      BY <1>1, <2>4, <2>5, Frames DEF SealBegin, Typed
  <1>2. CASE Seal
    <2>1. LifeT'
      BY <1>2 DEF Seal, Typed, LifeT
    <2> QED
      BY <1>2, <2>1, Frames DEF Seal, Typed
  <1>3. CASE SealFail
    <2>1. LifeT'
      BY <1>3 DEF SealFail, Typed, LifeT
    <2> QED
      BY <1>3, <2>1, Frames DEF SealFail, Typed
  <1>4. CASE ResumeDeferred
    <2>1. deferred \in Seq(Commands) /\ deferred # <<>>
      BY <1>4 DEF ResumeDeferred, Reopening, Typed, LifeT
    <2>2. Head(deferred) \in Commands /\ Tail(deferred) \in Seq(Commands)
      BY <2>1, SeqHeadTail
    <2>3. TasksT' /\ ScheduleT'
      BY <1>4, <2>2, ScheduleTyped DEF ResumeDeferred
    <2>4. LifeT'
      BY <1>4, <2>2 DEF ResumeDeferred, Typed, LifeT
    <2> QED
      BY <1>4, <2>3, <2>4, Frames DEF ResumeDeferred, Typed
  <1>5. CASE SealStop
    <2>1. LifeT' /\ RecoverT'
      BY <1>5 DEF SealStop, Typed, LifeT, RecoverT
    <2> QED
      BY <1>5, <2>1, Frames DEF SealStop, Typed
  <1>6. CASE Stop
    <2>1. LifeT' /\ RecoverT'
      BY <1>6 DEF Stop, Typed, LifeT, RecoverT
    <2> QED
      BY <1>6, <2>1, Frames DEF Stop, Typed
  <1>7. CASE Stopped
    BY <1>7, HaltTyped DEF Stopped, Typed, LifeT
  <1>8. CASE Crash
    BY <1>8, HaltTyped DEF Crash, Typed, LifeT
  <1>9. CASE Distrust
    <2>1. DeviceT'
      BY <1>9, BoundAssumption DEF Distrust, DeviceT
    <2> QED
      BY <1>9, <2>1, Frames DEF Distrust, Typed
  <1> QED
    BY <1>1, <1>2, <1>3, <1>4, <1>5, <1>6, <1>7, <1>8, <1>9 DEF DeploymentNext

\* The strengthened invariant is inductive.
LEMMA NextTyped == Typed /\ [Next]_vars => Typed'
  <1> SUFFICES ASSUME Typed, [Next]_vars
               PROVE  Typed'
    OBVIOUS
  <1>1. CASE UNCHANGED vars
    BY <1>1, Frames DEF vars, Typed, inboxVars, deliveryVars, scheduleVars,
                        lifeVars, historyVars
  <1>2. CASE Next
    BY <1>2, ReceiveTyped, HandlerTyped, TaskNextTyped, DeliveryTyped,
       RecoveryTyped, DeploymentTyped
    DEF Next
  <1> QED
    BY <1>1, <1>2

\* Type correctness of the pipeline, in every reachable state.
THEOREM TypeCorrect == Spec => []TypeOK
  <1>1. Spec => []Typed
    BY InitTyped, NextTyped, PTL DEF Spec
  <1> QED
    BY <1>1, TypedTypeOK, PTL
=============================================================================
