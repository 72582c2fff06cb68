---------------------- MODULE CommandPipeline_sessions ----------------------
(***************************************************************************)
(* The promise chains of CommandPipeline keep the commands of a session in *)
(* order, for every number of sessions, commands, deliveries and crashes.  *)
(***************************************************************************)
EXTENDS CommandPipeline_proofs

-----------------------------------------------------------------------------
(***************************************************************************)
(* What a step does to the tasks: one of them moves, or none, and others   *)
(* change at most their flags.                                             *)
(***************************************************************************)

\* The promises task t waits for are resolved.
Ready(t) == \A w \in tasks[t].waits : tasks[w].pc = "done"

\* A flag `settled' of a scheduled prompt is backed by the journal.
Flagged(u) ==
    tasks'[u].cancel = "settled" => tasks[u].cancel = "settled" \/ Ended(tasks[u].cmd)

Same(u) ==
    /\ tasks'[u].cmd = tasks[u].cmd /\ tasks'[u].pc = tasks[u].pc
    /\ tasks'[u].waits = tasks[u].waits /\ tasks'[u].watch = tasks[u].watch
    /\ Flagged(u)

\* activeCommands and scheduledPromptCommands lose at most the entries of a
\* task that ends, and an ended task is no longer the active one.
Released(t) ==
    \A c \in Commands :
        /\ \/ active'[c] = 0
           \/ /\ active'[c] = active[c]
              /\ c = tasks[t].cmd /\ tasks'[t].pc = "done" => active[c] # t
        /\ prompts'[c] \in {0, prompts[c]}

\* A cancellation marks the scheduled prompt it names.
Marks(t) ==
    LET s == prompts[Target[tasks[t].cmd]] IN
    tasks'[t].pc = "cancelling" => s # 0 /\ tasks'[t].watch = s

Moves(t) ==
    /\ DOMAIN tasks' = DOMAIN tasks
    /\ \A u \in DOMAIN tasks : u # t => Same(u)
    /\ tasks'[t].cmd = tasks[t].cmd /\ Flagged(t)
    /\ tasks[t].pc # "done" /\ tasks'[t].pc # "queued"
    /\ tasks[t].pc = "queued" => Ready(t)
    /\ Released(t) /\ Marks(t)
    /\ UNCHANGED chains

\* A task that is not over keeps its entries.
LEMMA KeepsEntries ==
    ASSUME NEW t, tasks'[t].pc # "done", UNCHANGED <<active, prompts>>
    PROVE  Released(t)
  BY DEF Released

\* Changing a flag or the step of a task leaves its other fields alone.
LEMMA Fields ==
    ASSUME NEW task \in Task, NEW x
    PROVE  /\ [task EXCEPT !.pc = x].pc = x
           /\ [task EXCEPT !.pc = x].cmd = task.cmd
           /\ [task EXCEPT !.pc = x].cancel = task.cancel
           /\ [task EXCEPT !.cancel = x].cancel = x
           /\ [task EXCEPT !.cancel = x].cmd = task.cmd
           /\ [task EXCEPT !.cancel = x].pc = task.pc
           /\ [task EXCEPT !.cancel = x].waits = task.waits
           /\ [task EXCEPT !.cancel = x].watch = task.watch
           /\ [task EXCEPT !.abort = x].cmd = task.cmd
           /\ [task EXCEPT !.abort = x].pc = task.pc
           /\ [task EXCEPT !.abort = x].waits = task.waits
           /\ [task EXCEPT !.abort = x].watch = task.watch
           /\ [task EXCEPT !.abort = x].cancel = task.cancel
           /\ [task EXCEPT !.agent = x].cmd = task.cmd
           /\ [task EXCEPT !.agent = x].pc = task.pc
           /\ [task EXCEPT !.agent = x].waits = task.waits
           /\ [task EXCEPT !.agent = x].watch = task.watch
           /\ [task EXCEPT !.agent = x].cancel = task.cancel
  BY DEF Task

\* Setting one flag of one task, wherever it is.
LEMMA CancelMarked ==
    ASSUME NEW D, NEW x, DOMAIN x = D, \A u \in D : x[u] \in Task,
           NEW s, NEW flag, NEW y, y = [x EXCEPT ![s].cancel = flag]
    PROVE  /\ DOMAIN y = D
           /\ \A u \in D :
                /\ y[u].cmd = x[u].cmd /\ y[u].pc = x[u].pc
                /\ y[u].waits = x[u].waits /\ y[u].watch = x[u].watch
                /\ y[u].cancel = x[u].cancel \/ (u = s /\ y[u].cancel = flag)
  <1>1. DOMAIN y = D
    OBVIOUS
  <1>2. ASSUME NEW u \in D, u # s PROVE y[u] = x[u]
    BY <1>2
  <1>3. ASSUME s \in D PROVE y[s] = [x[s] EXCEPT !.cancel = flag]
    BY <1>3
  <1> QED
    BY <1>1, <1>2, <1>3, Fields

LEMMA AbortMarked ==
    ASSUME NEW D, NEW x, DOMAIN x = D, \A u \in D : x[u] \in Task,
           NEW s, NEW flag, NEW y, y = [x EXCEPT ![s].abort = flag]
    PROVE  /\ DOMAIN y = D
           /\ \A u \in D :
                /\ y[u].cmd = x[u].cmd /\ y[u].pc = x[u].pc
                /\ y[u].waits = x[u].waits /\ y[u].cancel = x[u].cancel
                /\ y[u].watch = x[u].watch
  <1>1. DOMAIN y = D
    OBVIOUS
  <1>2. ASSUME NEW u \in D, u # s PROVE y[u] = x[u]
    BY <1>2
  <1>3. ASSUME s \in D PROVE y[s] = [x[s] EXCEPT !.abort = flag]
    BY <1>3
  <1> QED
    BY <1>1, <1>2, <1>3, Fields

\* A task whose step ran through Advance has moved.
LEMMA AdvanceMoves ==
    ASSUME Typed, NEW t \in DOMAIN tasks, NEW pc \in TaskPcs \ {"queued", "cancelling"},
           Advance(t, pc), tasks[t].pc # "done",
           tasks[t].pc = "queued" => Ready(t)
    PROVE  Moves(t)
  <1>1. tasks[t] \in Task
    BY TaskTyped
  <1>2. /\ DoneTask(tasks[t]).pc = "done"
        /\ DoneTask(tasks[t]).cmd = tasks[t].cmd
        /\ DoneTask(tasks[t]).cancel = tasks[t].cancel
    BY DEF DoneTask, NewTask
  <1>3. PICK task : /\ tasks' = [tasks EXCEPT ![t] = task]
                    /\ task.pc = pc /\ task.cmd = tasks[t].cmd
                    /\ task.cancel = tasks[t].cancel
    <2>1. CASE pc = "done"
      <3>1. tasks' = [tasks EXCEPT ![t] = DoneTask(tasks[t])]
        BY <2>1 DEF Advance
      <3> QED
        BY <1>2, <2>1, <3>1
    <2>2. CASE pc # "done"
      <3>1. tasks' = [tasks EXCEPT ![t] = [tasks[t] EXCEPT !.pc = pc]]
        BY <2>2 DEF Advance
      <3>2. /\ [tasks[t] EXCEPT !.pc = pc].pc = pc
            /\ [tasks[t] EXCEPT !.pc = pc].cmd = tasks[t].cmd
            /\ [tasks[t] EXCEPT !.pc = pc].cancel = tasks[t].cancel
        BY <1>1, Fields
      <3> QED
        BY <3>1, <3>2, Zenon
    <2> QED
      BY <2>1, <2>2
  <1>4. UNCHANGED chains
    BY DEF Advance
  <1>5. tasks'[t].pc = pc /\ tasks[t].cmd \in Commands
    BY <1>3, TaskTyped
  <1>6. Released(t)
    BY <1>5 DEF Advance, Released, Typed, TasksT, ScheduleT
  <1> QED
    BY <1>3, <1>4, <1>6 DEF Moves, Same, Flagged, Marks

\* waitForScheduledPromptCancellation() moves its task.
LEMMA AfterCancellationMoves ==
    ASSUME Typed, NEW t \in DOMAIN tasks, NEW s, AfterCancellation(t, s),
           tasks[t].pc # "done", tasks[t].pc = "queued" => Ready(t)
    PROVE  Moves(t)
  <1>1. PICK pc \in {"done", "failing"} : Advance(t, pc)
    BY DEF AfterCancellation
  <1> QED
    BY <1>1, AdvanceMoves DEF TaskPcs

\* settleAndDeliver() of a task moves it.
LEMMA TaskSettlesMoves ==
    ASSUME Typed, NEW t \in DOMAIN tasks, NEW term, NEW allowExpired,
           NEW onThrow \in {"done", "failing"},
           TaskSettles(t, term, allowExpired, onThrow),
           tasks[t].pc \notin {"queued", "done"}
    PROVE  Moves(t)
  <1>1. CASE /\ tasks' = [tasks EXCEPT ![t].pc = "staging", ![t].term = term]
             /\ UNCHANGED scheduleVars
    <2> DEFINE new == [tasks[t] EXCEPT !.pc = "staging", !.term = term]
    <2>1. tasks[t] \in Task
      BY TaskTyped
    <2>2. new.pc = "staging" /\ new.cmd = tasks[t].cmd /\ new.cancel = tasks[t].cancel
      BY <2>1 DEF Task
    <2>3. tasks' = [tasks EXCEPT ![t] = new]
      BY <1>1
    <2> HIDE DEF new
    <2> QED
      BY <1>1, <2>2, <2>3, KeepsEntries DEF Moves, Same, Flagged, Marks, scheduleVars
  <1>2. CASE \E pc \in {"done", onThrow} : Advance(t, pc)
    BY <1>2, AdvanceMoves DEF TaskPcs
  <1> QED
    BY <1>1, <1>2 DEF TaskSettles

\* cancelTurn() moves its task and marks at most one other.
LEMMA CancelTurnMoves ==
    ASSUME Typed, NEW t \in DOMAIN tasks, CancelTurn(t)
    PROVE  Moves(t)
  <1> DEFINE s == prompts[Target[tasks[t].cmd]]
             r == turn[Key[tasks[t].cmd]]
  <1>1. tasks[t].pc = "executing" /\ UNCHANGED chains
    BY DEF CancelTurn, At, scheduleVars, Advance
  <1>0. \/ Advance(t, "concluding") \/ Advance(t, "failing")
        \/ UNCHANGED <<active, prompts>>
    BY DEF CancelTurn, scheduleVars
  <1>2. \/ s # 0 /\ tasks' = [Watching(t, s, "cancelling") EXCEPT ![s].cancel = "requested"]
        \/ tasks' = Watching(t, s, "awaitcancel")
        \/ tasks' = [Watching(t, r, "awaitturn") EXCEPT ![r].abort = TRUE]
        \/ Advance(t, "concluding")
        \/ Advance(t, "failing")
    BY DEF CancelTurn
  <1>3. s \in Nat /\ r \in Nat
    BY TaskTyped, TargetAssumption, KeyAssumption DEF Typed, TasksT, TurnT
  <1> HIDE DEF s, r
  <1>4. CASE Advance(t, "concluding") \/ Advance(t, "failing")
    BY <1>1, <1>4, AdvanceMoves DEF TaskPcs
  <1>5. ASSUME NEW w \in Nat, NEW pc \in {"cancelling", "awaitcancel", "awaitturn"}
        PROVE  /\ DOMAIN Watching(t, w, pc) = DOMAIN tasks
               /\ \A u \in DOMAIN tasks : Watching(t, w, pc)[u] \in Task
               /\ \A u \in DOMAIN tasks : u # t => Watching(t, w, pc)[u] = tasks[u]
               /\ Watching(t, w, pc)[t].cmd = tasks[t].cmd
               /\ Watching(t, w, pc)[t].cancel = tasks[t].cancel
               /\ Watching(t, w, pc)[t].pc = pc /\ Watching(t, w, pc)[t].watch = w
    <2> DEFINE new == [tasks[t] EXCEPT !.pc = pc, !.watch = w]
    <2>1. pc \in TaskPcs /\ \A u \in DOMAIN tasks : tasks[u] \in Task
      BY TaskTyped DEF TaskPcs
    <2>2. /\ new \in Task /\ new.cmd = tasks[t].cmd /\ new.pc = pc
          /\ new.cancel = tasks[t].cancel /\ new.watch = w
      BY <2>1 DEF Task
    <2>3. Watching(t, w, pc) = [tasks EXCEPT ![t] = new]
      BY DEF Watching
    <2> HIDE DEF new
    <2> QED
      BY <2>1, <2>2, <2>3
  <1>6. CASE tasks' = Watching(t, s, "awaitcancel")
    BY <1>0, <1>1, <1>3, <1>4, <1>5, <1>6, KeepsEntries DEF Moves, Same, Flagged, Marks
  <1>7. CASE s # 0 /\ tasks' = [Watching(t, s, "cancelling") EXCEPT ![s].cancel = "requested"]
    <2> DEFINE x == Watching(t, s, "cancelling")
    <2>1. /\ DOMAIN x = DOMAIN tasks
          /\ \A u \in DOMAIN tasks : x[u] \in Task
          /\ \A u \in DOMAIN tasks : u # t => x[u] = tasks[u]
          /\ x[t].cmd = tasks[t].cmd /\ x[t].cancel = tasks[t].cancel
          /\ x[t].pc = "cancelling" /\ x[t].watch = s
      BY <1>3, <1>5
    <2>2. tasks' = [x EXCEPT ![s].cancel = "requested"]
      BY <1>7
    <2> HIDE DEF x
    <2>3. /\ DOMAIN tasks' = DOMAIN tasks
          /\ \A u \in DOMAIN tasks :
               /\ tasks'[u].cmd = x[u].cmd /\ tasks'[u].pc = x[u].pc
               /\ tasks'[u].waits = x[u].waits /\ tasks'[u].watch = x[u].watch
               /\ \/ tasks'[u].cancel = x[u].cancel
                  \/ u = s /\ tasks'[u].cancel = "requested"
      BY <2>1, <2>2, CancelMarked
    <2>4. tasks'[t].pc = "cancelling" /\ tasks'[t].watch = s
      BY <2>1, <2>3
    <2>5. Marks(t)
      BY <1>7, <2>4 DEF Marks, s
    <2> QED
      BY <1>0, <1>1, <1>4, <2>1, <2>3, <2>5, KeepsEntries DEF Moves, Same, Flagged
  <1>8. CASE tasks' = [Watching(t, r, "awaitturn") EXCEPT ![r].abort = TRUE]
    <2> DEFINE x == Watching(t, r, "awaitturn")
    <2>1. /\ DOMAIN x = DOMAIN tasks
          /\ \A u \in DOMAIN tasks : x[u] \in Task
          /\ \A u \in DOMAIN tasks : u # t => x[u] = tasks[u]
          /\ x[t].cmd = tasks[t].cmd /\ x[t].cancel = tasks[t].cancel
          /\ x[t].pc = "awaitturn"
      BY <1>3, <1>5
    <2>2. tasks' = [x EXCEPT ![r].abort = TRUE]
      BY <1>8
    <2> HIDE DEF x
    <2>3. /\ DOMAIN tasks' = DOMAIN tasks
          /\ \A u \in DOMAIN tasks :
               /\ tasks'[u].cmd = x[u].cmd /\ tasks'[u].pc = x[u].pc
               /\ tasks'[u].waits = x[u].waits /\ tasks'[u].cancel = x[u].cancel
               /\ tasks'[u].watch = x[u].watch
      BY <2>1, <2>2, AbortMarked
    <2> QED
      BY <1>0, <1>1, <1>4, <2>1, <2>3, KeepsEntries DEF Moves, Same, Flagged, Marks
  <1> QED
    BY <1>2, <1>4, <1>6, <1>7, <1>8

\* A cancellation that moves on and tells the prompt how it ended.
LEMMA CancellationEnds ==
    ASSUME Typed, NEW t \in DOMAIN tasks, NEW s, NEW pc \in {"failing", "concluding"},
           NEW flag, flag = "settled" => Ended(tasks[s].cmd),
           tasks' = [tasks EXCEPT ![t].pc = pc, ![s].cancel = flag],
           tasks[t].pc \notin {"queued", "done"},
           UNCHANGED <<chains, active, prompts>>
    PROVE  Moves(t)
  <1> DEFINE moved == [tasks[t] EXCEPT !.pc = pc]
             x == [tasks EXCEPT ![t] = moved]
  <1>1. \A u \in DOMAIN tasks : tasks[u] \in Task
    BY TaskTyped
  <1>2. /\ moved \in Task /\ moved.cmd = tasks[t].cmd /\ moved.pc = pc
        /\ moved.cancel = tasks[t].cancel
    BY <1>1 DEF Task, TaskPcs
  <1>3. tasks' = [x EXCEPT ![s].cancel = flag]
    OBVIOUS
  <1> HIDE DEF moved
  <1>4. /\ DOMAIN x = DOMAIN tasks
        /\ \A u \in DOMAIN tasks : x[u] \in Task
        /\ \A u \in DOMAIN tasks : u # t => x[u] = tasks[u]
        /\ x[t].cmd = tasks[t].cmd /\ x[t].pc = pc /\ x[t].cancel = tasks[t].cancel
    BY <1>1, <1>2
  <1> HIDE DEF x
  <1>5. /\ DOMAIN tasks' = DOMAIN tasks
        /\ \A u \in DOMAIN tasks :
             /\ tasks'[u].cmd = x[u].cmd /\ tasks'[u].pc = x[u].pc
             /\ tasks'[u].waits = x[u].waits /\ tasks'[u].watch = x[u].watch
             /\ tasks'[u].cancel = x[u].cancel \/ (u = s /\ tasks'[u].cancel = flag)
    BY ONLY <1>3, <1>4, CancelMarked
  <1> QED
    BY <1>4, <1>5, KeepsEntries DEF Moves, Same, Flagged, Marks

\* Every step of a task moves it, and a queued task only when it is ready.
LEMMA TaskMoves ==
    ASSUME Typed, Safe, NEW t \in DOMAIN tasks, TaskNext(t)
    PROVE  Moves(t)
  <1>1. CASE Dispatch(t)
    <2>1. tasks[t].pc = "queued" /\ Ready(t)
      BY <1>1 DEF Dispatch, At, Ready
    <2> QED
      BY <1>1, <2>1, AdvanceMoves, AfterCancellationMoves DEF Dispatch, TaskPcs
  <1>2. CASE Begin(t)
    BY <1>2, AdvanceMoves, AfterCancellationMoves DEF Begin, At, TaskPcs
  <1>3. CASE StartAgent(t)
    <2> DEFINE s == prompts[tasks[t].cmd]
    <2>1. tasks[t].pc = "executing"
      BY <1>3 DEF StartAgent, At
    <2>2. CASE AfterCancellation(t, s)
      BY <2>1, <2>2, AfterCancellationMoves
    <2>3. CASE /\ tasks' = [u \in DOMAIN tasks |->
                    IF u = t THEN [tasks[u] EXCEPT !.pc = "agent", !.agent = (@ \/ u = s)]
                    ELSE IF u = s THEN [tasks[u] EXCEPT !.agent = TRUE]
                    ELSE tasks[u]]
               /\ UNCHANGED scheduleVars
      <3> HIDE DEF s
      <3>1. DOMAIN tasks' = DOMAIN tasks /\ UNCHANGED <<chains, active, prompts>>
        BY <2>3 DEF scheduleVars
      <3>2. ASSUME NEW u \in DOMAIN tasks, u # t PROVE Same(u)
        <4>1. tasks[u] \in Task
          BY TaskTyped
        <4>2. tasks'[u] = tasks[u] \/ tasks'[u] = [tasks[u] EXCEPT !.agent = TRUE]
          BY <2>3, <3>2
        <4>3. /\ [tasks[u] EXCEPT !.agent = TRUE].cmd = tasks[u].cmd
              /\ [tasks[u] EXCEPT !.agent = TRUE].pc = tasks[u].pc
              /\ [tasks[u] EXCEPT !.agent = TRUE].waits = tasks[u].waits
              /\ [tasks[u] EXCEPT !.agent = TRUE].watch = tasks[u].watch
              /\ [tasks[u] EXCEPT !.agent = TRUE].cancel = tasks[u].cancel
          BY <4>1, Fields
        <4> QED
          BY <4>2, <4>3, Zenon DEF Same, Flagged
      <3>3. /\ tasks'[t].cmd = tasks[t].cmd /\ tasks'[t].pc = "agent"
            /\ tasks'[t].cancel = tasks[t].cancel
        <4>1. tasks[t] \in Task
          BY TaskTyped
        <4>2. tasks'[t] = [tasks[t] EXCEPT !.pc = "agent", !.agent = (@ \/ t = s)]
          BY <2>3
        <4> QED
          BY <4>1, <4>2 DEF Task
      <3> QED
        BY <2>1, <3>1, <3>2, <3>3, KeepsEntries DEF Moves, Flagged, Marks
    <2> QED
      BY <1>3, <2>2, <2>3 DEF StartAgent
  <1>4. CASE Complete(t) \/ Fail(t) \/ FailExpired(t)
    <2>1. tasks[t].pc \notin {"queued", "done"}
      BY <1>4 DEF Complete, ReadyToSettle, Fail, FailExpired, At
    <2> QED
      BY <1>4, <2>1, TaskSettlesMoves DEF Complete, Fail, FailExpired
  <1>5. CASE Throw(t) \/ InterruptBatch(t) \/ Deadline(t) \/ Persist(t)
             \/ Stage(t) \/ Confirmed(t) \/ JoinCancellation(t)
    <2>1. tasks[t].pc \notin {"queued", "done"}
      BY <1>5 DEF Throw, InterruptBatch, Deadline, Persist, Stage, Confirmed,
                  JoinCancellation, At
    <2>2. \E pc \in TaskPcs \ {"queued", "cancelling"} : Advance(t, pc)
      BY <1>5 DEF Throw, InterruptBatch, Deadline, Persist, Stage, Confirmed,
                  JoinCancellation, TaskPcs
    <2> QED
      BY <2>1, <2>2, AdvanceMoves
  <1>6. CASE CancelTurn(t)
    BY <1>6, CancelTurnMoves
  <1>7. CASE SettleCancellation(t)
    <2>1. tasks[t].pc = "cancelling" /\ tasks[t] \in Task
          /\ UNCHANGED <<chains, active, prompts>>
      BY <1>7, TaskTyped DEF SettleCancellation, At, scheduleVars
    <2>2. CASE tasks' = [tasks EXCEPT ![t].pc = "cancelstaging"]
      <3>1. tasks' = [tasks EXCEPT ![t] = [tasks[t] EXCEPT !.pc = "cancelstaging"]]
        BY <2>2
      <3>2. /\ tasks'[t].pc = "cancelstaging" /\ tasks'[t].cmd = tasks[t].cmd
            /\ tasks'[t].cancel = tasks[t].cancel
        BY <2>1, <3>1, Fields
      <3> QED
        BY <2>1, <2>2, <3>2, KeepsEntries DEF Moves, Same, Flagged, Marks
    <2>3. CASE tasks' = [tasks EXCEPT ![t].pc = "failing",
                                      ![tasks[t].watch].cancel = "refused"]
      BY <2>1, <2>3, CancellationEnds
    <2> QED
      BY <1>7, <2>2, <2>3 DEF SettleCancellation
  <1>8. CASE StageCancellation(t)
    <2>1. tasks[t].pc = "cancelstaging" /\ UNCHANGED <<chains, active, prompts>>
      BY <1>8 DEF StageCancellation, At, scheduleVars
    <2>2. Ended(tasks[tasks[t].watch].cmd)
      BY <2>1 DEF Safe, TaskS, Backed
    <2>3. tasks' = [tasks EXCEPT ![t].pc = "concluding",
                                 ![tasks[t].watch].cancel = "settled"]
      BY <1>8 DEF StageCancellation
    <2> QED
      BY <2>1, <2>2, <2>3, CancellationEnds
  <1> QED
    BY <1>1, <1>2, <1>3, <1>4, <1>5, <1>6, <1>7, <1>8 DEF TaskNext

\* No task but its flags: what every step but a task's own does, unless it
\* schedules a task or ends the process.
Rests ==
    /\ DOMAIN tasks' = DOMAIN tasks
    /\ \A u \in DOMAIN tasks : Same(u)
    /\ UNCHANGED <<chains, active, prompts>>

\* A step that leaves the tasks and the chains alone rests.
LEMMA Resting ==
    ASSUME UNCHANGED <<tasks, chains, active, prompts>>
    PROVE  Rests
  BY DEF Rests, Same, Flagged

\* sealForDeployment() asks running turns to stop and moves no task.
LEMMA SealBeginRests ==
    ASSUME Typed, SealBegin
    PROVE  Rests
  <1>1. PICK force \in BOOLEAN :
          tasks' = [t \in DOMAIN tasks |->
                      IF force /\ tasks[t].pc = "agent"
                      THEN [tasks[t] EXCEPT !.abort = TRUE] ELSE tasks[t]]
    BY DEF SealBegin
  <1>2. DOMAIN tasks' = DOMAIN tasks
    BY <1>1
  <1>3. ASSUME NEW u \in DOMAIN tasks PROVE Same(u)
    <2>1. tasks[u] \in Task
      BY TaskTyped
    <2>2. tasks'[u] = tasks[u] \/ tasks'[u] = [tasks[u] EXCEPT !.abort = TRUE]
      BY <1>1
    <2>3. /\ [tasks[u] EXCEPT !.abort = TRUE].cmd = tasks[u].cmd
          /\ [tasks[u] EXCEPT !.abort = TRUE].pc = tasks[u].pc
          /\ [tasks[u] EXCEPT !.abort = TRUE].waits = tasks[u].waits
          /\ [tasks[u] EXCEPT !.abort = TRUE].watch = tasks[u].watch
          /\ [tasks[u] EXCEPT !.abort = TRUE].cancel = tasks[u].cancel
      BY <2>1, Fields
    <2> QED
      BY <2>2, <2>3, Zenon DEF Same, Flagged
  <1> QED
    BY <1>2, <1>3 DEF Rests, scheduleVars, SealBegin

\* The three places that call scheduleExecution().
Admits(c) ==
    \/ HandleSchedule /\ c = HandledCommand
    \/ RecoverAccepted /\ c = claims[recover.at]
    \/ ResumeDeferred /\ c = Head(deferred)

\* What a step can do to the tasks and to the chains.
LEMMA TaskShape ==
    ASSUME Typed, Safe, [Next]_vars
    PROVE  \/ Rests
           \/ \E t \in DOMAIN tasks : Moves(t) /\ TaskNext(t)
           \/ \E c \in Commands : Schedule(c) /\ Admits(c)
           \/ Halt
  <1> USE DEF scheduleVars
  <1>1. CASE UNCHANGED vars
    BY <1>1, Resting DEF vars
  <1>2. CASE \/ \E c \in Commands : Receive(c)
             \/ \E z \in expired : LateEnd(z)
             \/ Distrust
    BY <1>2, Resting DEF Receive, LateEnd, Distrust
  <1>3. CASE HandlerNext
    <2>1. CASE HandleSchedule
      <3>1. handler.pc # "idle"
        BY <2>1 DEF HandleSchedule, Admitted, Deciding
      <3> QED
        BY <2>1, <3>1, HandledTyped DEF HandleSchedule, Admits
    <2>2. CASE ClaimEvent \/ Reconcile \/ HandleTerminal \/ HandleFenced
               \/ HandleRejected \/ HandleActive \/ HandleDeferred
               \/ HandlerStages \/ CompleteEvent
      BY <2>2, Resting
      DEF ClaimEvent, Reconcile, HandleTerminal, HandleFenced, HandleRejected,
          HandlerSettles, HandleActive, HandleDeferred, HandlerStages, CompleteEvent
    <2> QED
      BY <1>3, <2>1, <2>2 DEF HandlerNext
  <1>4. CASE \E t \in DOMAIN tasks : TaskNext(t)
    BY <1>4, TaskMoves
  <1>5. CASE DeliveryNext
    BY <1>5, Resting
    DEF DeliveryNext, Send, Supersede, RedeliveryFails, ConfirmDelivery, FinalizeDeletion,
        deliveryFrame
  <1>6. CASE RecoveryNext
    <2>1. CASE RecoverAccepted
      <3>1. claims[recover.at] \in Commands
        BY <2>1, RecoveredTyped DEF RecoverAccepted, Recovering
      <3> QED
        BY <2>1, <3>1 DEF RecoverAccepted, Admits
    <2>2. CASE Start \/ RecoverSkip \/ RecoverDispatched \/ RecoverStages
               \/ RecoverDeletions \/ DrainInbox
      BY <2>2, Resting
      DEF Start, RecoverSkip, RecoverDispatched, RecoverStages,
          RecoverDeletions, DrainInbox
    <2> QED
      BY <1>6, <2>1, <2>2 DEF RecoveryNext
  <1>7. CASE Crash \/ Stopped
    BY <1>7 DEF Crash, Stopped
  <1>8. CASE DeploymentNext
    <2>1. CASE SealBegin
      BY <2>1, SealBeginRests
    <2>2. CASE ResumeDeferred
      <3>1. Head(deferred) \in Commands
        BY <2>2, SeqHeadTail DEF ResumeDeferred, Reopening, Typed, LifeT
      <3> QED
        BY <2>2, <3>1 DEF ResumeDeferred, Admits
    <2>3. CASE Seal \/ SealFail \/ SealStop \/ Stop
      BY <2>3, Resting DEF Seal, SealFail, SealStop, Stop
    <2> QED
      BY <1>7, <1>8, <2>1, <2>2, <2>3 DEF DeploymentNext
  <1> QED
    BY <1>1, <1>2, <1>3, <1>4, <1>5, <1>6, <1>7, <1>8 DEF Next

-----------------------------------------------------------------------------
(***************************************************************************)
(* The order of a session.  SessionSerial alone is not inductive: that a   *)
(* queued task waits for every earlier task of its lane follows from the   *)
(* one promise it waits for, whose task waited in turn for those before.   *)
(***************************************************************************)

Chained(t) == Op[tasks[t].cmd] # "cancel"
Lane(t) == Key[tasks[t].cmd]

\* t is an earlier task of the lane u runs in.
Before(t, u) == t < u /\ Chained(t) /\ Chained(u) /\ Lane(t) = Lane(u)

\* sessionChains holds the last task of each lane.
LastOfLane ==
    /\ \A k \in Keys :
         /\ chains[k] \in 0..Len(tasks)
         /\ chains[k] # 0 => Chained(chains[k]) /\ Lane(chains[k]) = k
    /\ \A t \in DOMAIN tasks : Chained(t) => t <= chains[Lane(t)]

\* A queued task waits for a task of its lane that is none of the earlier
\* ones still to be done, unless it is the last of them.
Waiting ==
    \A t, u \in DOMAIN tasks :
        Before(t, u) /\ tasks[u].pc = "queued" /\ tasks[t].pc # "done"
        => \E w \in tasks[u].waits :
             w \in DOMAIN tasks /\ Before(w, u) /\ t <= w

\* The tasks of a lane start in order.
InOrder ==
    \A t, u \in DOMAIN tasks : Before(t, u) /\ tasks[u].pc # "queued" => tasks[t].pc = "done"

Serial == LastOfLane /\ Waiting /\ InOrder

\* The order of the lanes is what SessionSerial says.
LEMMA InOrderSerial == InOrder => SessionSerial
  BY DEF InOrder, SessionSerial, Before, Chained, Lane

LEMMA InitSerial == Init => Serial
  BY DEF Init, Serial, LastOfLane, Waiting, InOrder

\* A step that keeps the commands of the tasks keeps their lanes.
LEMMA LanesKept ==
    ASSUME Typed, Serial, DOMAIN tasks' = DOMAIN tasks, UNCHANGED chains,
           \A u \in DOMAIN tasks : tasks'[u].cmd = tasks[u].cmd,
           tasks' \in Seq(Task)
    PROVE  /\ LastOfLane'
           /\ \A t, u \in DOMAIN tasks : Before(t, u)' <=> Before(t, u)
  <1>1. /\ tasks \in Seq(Task) /\ DOMAIN tasks = 1..Len(tasks)
        /\ Len(tasks) \in Nat /\ Len(tasks') = Len(tasks)
    <2>1. tasks \in Seq(Task)
      BY DEF Typed, TasksT
    <2>2. /\ DOMAIN tasks = 1..Len(tasks) /\ DOMAIN tasks' = 1..Len(tasks')
          /\ Len(tasks) \in Nat /\ Len(tasks') \in Nat
      BY <2>1
    <2> QED
      BY <2>1, <2>2
  <1>2. \A u \in DOMAIN tasks : (Chained(u)' <=> Chained(u)) /\ Lane(u)' = Lane(u)
    BY DEF Chained, Lane
  <1>3. \A k \in Keys : chains[k] \in 0..Len(tasks) /\ (chains[k] # 0 => chains[k] \in DOMAIN tasks)
    BY <1>1 DEF Serial, LastOfLane
  <1>4. LastOfLane'
    BY <1>1, <1>2, <1>3 DEF Serial, LastOfLane
  <1> QED
    BY <1>2, <1>4 DEF Before

\* Flags do not change the order.
LEMMA RestsSerial ==
    ASSUME Typed, Typed', Serial, Rests
    PROVE  Serial'
  <1>1. /\ DOMAIN tasks' = DOMAIN tasks /\ UNCHANGED chains
        /\ \A u \in DOMAIN tasks : /\ tasks'[u].cmd = tasks[u].cmd
                                   /\ tasks'[u].pc = tasks[u].pc
                                   /\ tasks'[u].waits = tasks[u].waits
    BY DEF Rests, Same
  <1>2. /\ LastOfLane'
        /\ \A t, u \in DOMAIN tasks : Before(t, u)' <=> Before(t, u)
    BY <1>1, LanesKept DEF Typed, TasksT
  <1>3. Waiting'
    BY <1>1, <1>2 DEF Serial, Waiting
  <1>4. InOrder'
    BY <1>1, <1>2 DEF Serial, InOrder
  <1> QED
    BY <1>2, <1>3, <1>4 DEF Serial

\* A task leaves the queue only after every earlier one of its lane.
LEMMA MovesSerial ==
    ASSUME Typed, Typed', Serial, NEW t \in DOMAIN tasks, Moves(t)
    PROVE  Serial'
  <1>1. /\ DOMAIN tasks' = DOMAIN tasks /\ UNCHANGED chains
        /\ \A u \in DOMAIN tasks : tasks'[u].cmd = tasks[u].cmd
        /\ \A u \in DOMAIN tasks : u # t => /\ tasks'[u].pc = tasks[u].pc
                                            /\ tasks'[u].waits = tasks[u].waits
        /\ tasks[t].pc # "done" /\ tasks'[t].pc # "queued"
        /\ tasks[t].pc = "queued" => Ready(t)
    BY DEF Moves, Same
  <1>2. /\ LastOfLane'
        /\ \A x, u \in DOMAIN tasks : Before(x, u)' <=> Before(x, u)
    BY <1>1, LanesKept DEF Typed, TasksT
  <1>3. Waiting'
    BY <1>1, <1>2 DEF Serial, Waiting
  <1>4. InOrder'
    <2> SUFFICES ASSUME NEW x \in DOMAIN tasks, NEW u \in DOMAIN tasks,
                        Before(x, u), tasks'[u].pc # "queued"
                 PROVE  tasks'[x].pc = "done"
      BY <1>1, <1>2 DEF InOrder
    <2>1. tasks[x].pc = "done" => tasks'[x].pc = "done"
      BY <1>1
    <2>2. CASE tasks[u].pc # "queued"
      BY <2>1, <2>2 DEF Serial, InOrder
    <2>3. CASE tasks[u].pc = "queued" /\ tasks[x].pc # "done"
      <3>1. u = t /\ Ready(t)
        BY <1>1, <2>3
      <3>2. PICK w \in tasks[u].waits : w \in DOMAIN tasks /\ Before(w, u) /\ x <= w
        BY <2>3 DEF Serial, Waiting
      <3>3. tasks[w].pc = "done"
        BY <3>1, <3>2 DEF Ready
      <3>4. x # w
        BY <2>3, <3>3
      <3>5. x \in Nat /\ w \in Nat
        BY <3>2, TaskTyped
      <3>6. Before(x, w)
        BY <3>2, <3>4, <3>5 DEF Before
      <3> QED
        BY <2>3, <3>2, <3>3, <3>6 DEF Serial, InOrder
    <2> QED
      BY <2>1, <2>2, <2>3
  <1> QED
    BY <1>2, <1>3, <1>4 DEF Serial

\* A new task waits for the last one of its lane and becomes the last.
LEMMA ScheduleSerial ==
    ASSUME Typed, Typed', Serial, NEW c \in Commands, Schedule(c)
    PROVE  Serial'
  <1> DEFINE new == NewTask(c, Waits(c))
  <1>0. PICK n : n = Len(tasks) + 1
    OBVIOUS
  <1>1. tasks \in Seq(Task) /\ tasks' = Append(tasks, new) /\ new \in Task
    <2>1. Waits(c) \in SUBSET Nat
      BY KeyAssumption DEF Waits, Typed, ScheduleT
    <2> QED
      BY <2>1 DEF Schedule, Typed, TasksT, NewTask, Task, TaskPcs
  <1>2. new.cmd = c /\ new.pc = "queued" /\ new.waits = Waits(c)
    BY DEF NewTask
  <1>3. Key[c] \in Keys /\ chains \in [Keys -> Nat]
    BY KeyAssumption DEF Typed, ScheduleT
  <1>4. chains' = IF Op[c] = "cancel" THEN chains ELSE [chains EXCEPT ![Key[c]] = n]
    BY <1>0 DEF Schedule
  <1> HIDE DEF new
  <1>5. /\ DOMAIN tasks = 1..Len(tasks) /\ Len(tasks) \in Nat
        /\ Len(tasks') = n /\ DOMAIN tasks' = 1..n
        /\ \A i \in 1..Len(tasks) : tasks'[i] = tasks[i]
        /\ tasks'[n] = new
    BY <1>0, <1>1, SeqAppend
  <1>6. n \in Nat /\ n \notin DOMAIN tasks /\ DOMAIN tasks' = DOMAIN tasks \cup {n}
        /\ \A i \in DOMAIN tasks : i < n
    BY <1>0, <1>5
  <1>7. \A i \in DOMAIN tasks : (Chained(i)' <=> Chained(i)) /\ Lane(i)' = Lane(i)
    BY <1>5 DEF Chained, Lane
  <1>8. (Chained(n)' <=> Op[c] # "cancel") /\ Lane(n)' = Key[c]
    BY <1>2, <1>5 DEF Chained, Lane
  <1>9. \A i, j \in DOMAIN tasks : Before(i, j)' <=> Before(i, j)
    BY <1>7 DEF Before
  <1>10. LastOfLane'
    <2>1. ASSUME NEW k \in Keys
          PROVE  /\ chains'[k] \in 0..Len(tasks')
                 /\ chains'[k] # 0 => Chained(chains[k])' /\ Lane(chains[k])' = k
      <3>1. CASE chains'[k] = chains[k]
        <4>1. /\ chains[k] \in 0..Len(tasks)
              /\ chains[k] # 0 => Chained(chains[k]) /\ Lane(chains[k]) = k
          BY DEF Serial, LastOfLane
        <4>2. chains[k] # 0 => chains[k] \in DOMAIN tasks
          BY <1>5, <4>1
        <4>3. chains[k] \in 0..Len(tasks')
          BY <1>0, <1>5, <4>1
        <4>4. ASSUME chains[k] # 0
              PROVE  Chained(chains[k])' /\ Lane(chains[k])' = k
          <5>1. PICK m \in DOMAIN tasks : m = chains[k]
            BY <4>2, <4>4
          <5>2. Chained(m)' /\ Lane(m)' = k
            BY <1>7, <4>1, <4>4, <5>1
          <5> QED
            BY <3>1, <5>1, <5>2 DEF Chained, Lane
        <4> QED
          BY <3>1, <4>3, <4>4
      <3>2. CASE Op[c] # "cancel" /\ k = Key[c]
        <4>1. chains'[k] = n
          BY <1>3, <1>4, <3>2
        <4>2. tasks'[chains'[k]] = new
          BY <1>5, <4>1
        <4> QED
          BY <1>2, <1>5, <1>6, <3>2, <4>1, <4>2 DEF Chained, Lane
      <3> QED
        BY <1>3, <1>4, <3>1, <3>2
    <2>2. ASSUME NEW i \in DOMAIN tasks', Chained(i)'
          PROVE  i <= chains'[Lane(i)']
      <3>1. CASE i = n
        <4>1. chains'[Key[c]] = n
          BY <1>3, <1>4, <1>8, <2>2, <3>1
        <4> QED
          BY <1>6, <1>8, <3>1, <4>1
      <3>2. CASE i \in DOMAIN tasks
        <4>1. /\ Chained(i) /\ Lane(i)' = Lane(i) /\ i <= chains[Lane(i)]
          BY <1>7, <2>2, <3>2 DEF Serial, LastOfLane
        <4>2. chains'[Lane(i)] = chains[Lane(i)] \/ chains'[Lane(i)] = n
          BY <1>3, <1>4
        <4>3. i <= n
          BY <1>0, <1>5, <3>2
        <4> QED
          BY <4>1, <4>2, <4>3
      <3> QED
        BY <1>6, <3>1, <3>2
    <2> QED
      BY <2>1, <2>2 DEF LastOfLane
  <1>11. Waiting'
    <2> SUFFICES ASSUME NEW t \in DOMAIN tasks', NEW u \in DOMAIN tasks', Before(t, u)',
                        tasks'[u].pc = "queued", tasks'[t].pc # "done"
                 PROVE  \E w \in tasks'[u].waits :
                          w \in DOMAIN tasks' /\ Before(w, u)' /\ t <= w
      BY DEF Waiting
    <2>1. t < u
      BY DEF Before
    <2>2. t \in DOMAIN tasks
      BY <1>5, <1>6, <2>1
    <2>3. CASE u \in DOMAIN tasks
      <3>1. Before(t, u) /\ tasks[u].pc = "queued" /\ tasks[t].pc # "done"
        BY <1>5, <1>9, <2>2, <2>3
      <3>2. PICK w \in tasks[u].waits : w \in DOMAIN tasks /\ Before(w, u) /\ t <= w
        BY <2>2, <2>3, <3>1 DEF Serial, Waiting
      <3>3. Before(w, u)' /\ w \in DOMAIN tasks' /\ tasks'[u].waits = tasks[u].waits
        BY <1>5, <1>6, <1>9, <2>3, <3>2
      <3> QED
        BY <3>2, <3>3
    <2>4. CASE u = n
      <3>1. /\ Chained(t) /\ Op[c] # "cancel" /\ Lane(t) = Key[c]
        BY <1>7, <1>8, <2>2, <2>4 DEF Before
      <3>0. PICK w : w = chains[Key[c]]
        OBVIOUS
      <3>2. t <= w /\ w \in 0..Len(tasks) /\ (w # 0 => Chained(w) /\ Lane(w) = Key[c])
        BY <1>3, <2>2, <3>0, <3>1 DEF Serial, LastOfLane
      <3>3. w \in DOMAIN tasks /\ w # 0
        BY <1>5, <2>2, <3>2
      <3>4. w \in Waits(c)
        BY <1>3, <3>0, <3>1, <3>3 DEF Waits
      <3>5. tasks'[u].waits = Waits(c)
        BY <1>2, <1>5, <2>4
      <3>6. Before(w, u)' /\ w \in DOMAIN tasks'
        BY <1>6, <1>7, <1>8, <2>4, <3>1, <3>2, <3>3 DEF Before
      <3> QED
        BY <3>2, <3>4, <3>5, <3>6
    <2> QED
      BY <1>6, <2>3, <2>4
  <1>12. InOrder'
    <2> SUFFICES ASSUME NEW t \in DOMAIN tasks', NEW u \in DOMAIN tasks', Before(t, u)',
                        tasks'[u].pc # "queued"
                 PROVE  tasks'[t].pc = "done"
      BY DEF InOrder
    <2>1. u \in DOMAIN tasks
      BY <1>2, <1>5, <1>6
    <2>2. t \in DOMAIN tasks
      BY <1>5, <1>6, <2>1 DEF Before
    <2> QED
      BY <1>5, <1>9, <2>1, <2>2 DEF Serial, InOrder
  <1> QED
    BY <1>10, <1>11, <1>12 DEF Serial

\* Every step keeps the order of the lanes.
LEMMA NextSerial == Typed /\ Typed' /\ Safe /\ Serial /\ [Next]_vars => Serial'
  <1> SUFFICES ASSUME Typed, Typed', Safe, Serial, [Next]_vars
               PROVE  Serial'
    OBVIOUS
  <1>1. CASE Halt
    <2>1. /\ tasks' = <<>> /\ Len(tasks') = 0 /\ DOMAIN tasks' = {}
          /\ \A k \in Keys : chains'[k] = 0
      BY <1>1 DEF Halt
    <2> QED
      BY <2>1 DEF Serial, LastOfLane, Waiting, InOrder
  <1> QED
    BY <1>1, TaskShape, RestsSerial, MovesSerial, ScheduleSerial

\* The commands of a session run one after the other: whatever duplicates,
\* cancellations, deadlines and seals race, no task leaves the queue while an
\* earlier task of its chain is unfinished.
THEOREM SessionsAreSerial == Spec => []SessionSerial
  <1>1. Init => Typed /\ Safe /\ Serial
    BY InitTyped, InitSafe, InitSerial
  <1>2. Typed /\ Safe /\ Serial /\ [Next]_vars => (Typed /\ Safe /\ Serial)'
    BY NextTyped, NextSafe, NextSerial
  <1>3. Serial => SessionSerial
    BY InOrderSerial DEF Serial
  <1> QED
    BY <1>1, <1>2, <1>3, PTL DEF Spec

=============================================================================
