------------------------ MODULE MatrixOutbox_proofs ------------------------
(***************************************************************************)
(* MatrixOutbox implements DurableOutbox, and no pending delivery is left  *)
(* without a wake-up, for every set of rooms and deliveries.               *)
(***************************************************************************)
EXTENDS MatrixOutbox, TLAPS

\* A supersession key names a document of one room.  classifyMany relies on
\* it; workspace snapshots do not satisfy it.
KeyIsOfOneRoom ==
    \A d, e \in Deliveries : Key[d] = Key[e] /\ Key[d] # NoKey => Room[d] = Room[e]

Staged == Range(staged)

\* What the pump, the server and the serial section hold is in the log, and
\* what is in the log was offered.
InLog ==
    /\ Staged \subseteq {d \in Deliveries : calls[d] > 0}
    /\ \A d \in Deliveries : settled[d] # "none" => d \in Staged
    /\ published \subseteq Staged /\ late \subseteq Staged /\ queue \subseteq Staged
    /\ job.pc # "none" => job.d \in Staged
    /\ job.pc = "landed" => job.d \in published
    /\ op.pc # "none" => op.d \in Deliveries /\ calls[op.d] > 0
    /\ op.pc = "supersede" => op.d \notin Staged
    /\ op.pc \in {"obsolete", "return"} => op.d \in Staged
    /\ op.pc = "obsolete" => settled[op.d] = "none" /\ \E e \in Staged : Replaces(e, op.d)
    /\ op.pc = "none" => op = NoOp
    /\ \A e \in op.gone : settled[e] # "none"

Inv == TypeOK /\ InLog

LEMMA RangeAppend ==
    ASSUME NEW S, NEW s \in Seq(S), NEW x \in S
    PROVE  Range(Append(s, x)) = Range(s) \cup {x}
<1> DEFINE t == Append(s, x)
<1>1. /\ DOMAIN t = 1..(Len(s) + 1) /\ t[Len(s) + 1] = x /\ Len(s) \in Nat
      /\ DOMAIN s = 1..Len(s) /\ \A i \in 1..Len(s) : t[i] = s[i]
    OBVIOUS
<1>2. ASSUME NEW y \in Range(t) PROVE y \in Range(s) \cup {x}
    <2>1. PICK i \in 1..(Len(s) + 1) : y = t[i]
        BY <1>1, <1>2 DEF Range
    <2>2. i \in 1..Len(s) \/ i = Len(s) + 1
        BY <1>1
    <2> QED
        BY <1>1, <2>1, <2>2 DEF Range
<1>3. ASSUME NEW y \in Range(s) \cup {x} PROVE y \in Range(t)
    BY <1>1, <1>3 DEF Range
<1> QED
    BY <1>2, <1>3

LEMMA RangeIn ==
    ASSUME NEW S, NEW s \in Seq(S)
    PROVE  Range(s) \subseteq S
  BY DEF Range

\* The deliveries the serial section and the pump work on.
LEMMA InHand ==
    ASSUME Inv
    PROVE  /\ op.pc # "none" => op.d \in Deliveries
           /\ job.pc # "none" => job.d \in Deliveries
           /\ Staged \subseteq Deliveries /\ Pending \subseteq Staged
  BY RangeIn DEF Inv, TypeOK, InLog, Staged, Pending

LEMMA InitInv == Init => Inv
  BY OutboxConstants DEF Init, Inv, TypeOK, InLog, Staged, Range, NoOp, NoJob

LEMMA StepType == Inv /\ [Next]_vars => TypeOK'
<1> SUFFICES ASSUME Inv, [Next]_vars PROVE TypeOK'
    OBVIOUS
<1> USE OutboxConstants DEF Inv, TypeOK, NoOp, NoJob
<1>1. ASSUME NEW d \in Deliveries, StageBegin(d) PROVE TypeOK'
    BY <1>1 DEF StageBegin
<1>2. ASSUME NEW d \in Deliveries, LateLands(d) PROVE TypeOK'
    BY <1>2 DEF LateLands, log
<1>3. ASSUME NEW d \in Deliveries, Echo(d) PROVE TypeOK'
    BY <1>3 DEF Echo, Settle
<1>4. CASE StageSupersede
    <2>1. PICK e \in Older(op.d) : /\ Settle({e}, "superseded")
                                  /\ op' = [op EXCEPT !.gone = @ \cup {e}]
        BY <1>4 DEF StageSupersede
    <2>2. e \in Deliveries
        BY <2>1, InHand DEF Older
    <2>3. op'.d = op.d /\ op'.pc = op.pc /\ op'.gone = op.gone \cup {e}
        BY <2>1
    <2>4. op' \in [d: Deliveries \cup {NoDelivery}, gone: SUBSET Deliveries,
                   pc: {"none", "supersede", "obsolete", "return"}]
        BY <2>1, <2>2, <2>3
    <2> QED
        BY <1>4, <2>1, <2>2, <2>4 DEF StageSupersede, Settle
<1>5. CASE StageAppend
    <2>1. op.d \in Deliveries
        BY <1>5, InHand DEF StageAppend
    <2>2. staged' \in Seq(Deliveries)
        BY <1>5, <2>1 DEF StageAppend
    <2>3. op' \in [d: Deliveries \cup {NoDelivery}, gone: SUBSET Deliveries,
                   pc: {"none", "supersede", "obsolete", "return"}]
        BY <1>5 DEF StageAppend
    <2> QED
        BY <1>5, <2>2, <2>3 DEF StageAppend
<1>6. CASE StageObsolete
    <2>1. op.d \in Deliveries
        BY <1>6, InHand DEF StageObsolete
    <2>2. op' \in [d: Deliveries \cup {NoDelivery}, gone: SUBSET Deliveries,
                   pc: {"none", "supersede", "obsolete", "return"}]
        <3>1. op' = [op EXCEPT !.pc = "return", !.gone = @ \cup {op.d}]
            BY <1>6 DEF StageObsolete
        <3>2. op'.pc = "return" /\ op'.d = op.d /\ op'.gone = op.gone \cup {op.d}
            BY <3>1
        <3> QED
            BY <2>1, <3>1, <3>2
    <2> QED
        BY <1>6, <2>1, <2>2 DEF StageObsolete, Settle
<1>7. CASE StageReturn
    <2>1. op.d \in Deliveries
        BY <1>7 DEF StageReturn, InLog
    <2> QED
        BY <1>7, <2>1 DEF StageReturn, Enqueue, log
<1>8. ASSUME NEW r \in Rooms, Provision(r) PROVE TypeOK'
    BY <1>8, RangeIn DEF Provision, Settle, RetryPending, Enqueue, Pending
<1>9. ASSUME NEW r \in Rooms, RetryTimer(r) PROVE TypeOK'
    BY <1>9, RangeIn DEF RetryTimer, RetryPending, Enqueue, Pending, log
<1>10. CASE PumpTake
    BY <1>10 DEF PumpTake, log
<1>11. CASE Lands
    BY <1>11, InHand DEF Lands, log
<1>12. CASE Refused
    BY <1>12 DEF Refused, Settle
<1>13. CASE AttemptFails
    BY <1>13, InHand DEF AttemptFails, log
<1>14. CASE MarkDelivered
    BY <1>14 DEF MarkDelivered, Settle
<1>15. CASE Crash
    <2>1. late' \subseteq Deliveries
        BY <1>15, InHand DEF Crash
    <2>2. /\ op' \in [d: Deliveries \cup {NoDelivery}, gone: SUBSET Deliveries,
                       pc: {"none", "supersede", "obsolete", "return"}]
          /\ job' \in [d: Deliveries \cup {NoDelivery}, pc: {"none", "sending", "landed"}]
        BY <1>15 DEF Crash
    <2>3. up' = FALSE /\ crashes' = crashes + 1
        BY <1>15 DEF Crash
    <2>4. up' \in BOOLEAN
        BY <2>3
    <2>5. /\ queue' \subseteq Deliveries /\ timers' \subseteq Rooms
          /\ waiting' \subseteq Deliveries /\ provisioning' \subseteq Rooms
        BY <1>15 DEF Crash
    <2>6. UNCHANGED <<staged, settled, published, calls, fails>>
        BY <1>15 DEF Crash, log
    <2> QED
        BY <2>1, <2>2, <2>3, <2>4, <2>5, <2>6
<1>16. CASE Start
    BY <1>16 DEF Start, log
<1>17. CASE UNCHANGED vars
    BY <1>17 DEF vars
<1> QED
    BY <1>1, <1>2, <1>3, <1>4, <1>5, <1>6, <1>7, <1>8, <1>9, <1>10, <1>11, <1>12,
       <1>13, <1>14, <1>15, <1>16, <1>17 DEF Next, StageStep, Attempt

LEMMA StepInLog == Inv /\ TypeOK' /\ [Next]_vars => InLog'
<1> SUFFICES ASSUME Inv, TypeOK', [Next]_vars PROVE InLog'
    OBVIOUS
<1>0. /\ Staged \subseteq Deliveries /\ Pending \subseteq Staged
      /\ op.pc # "none" => op.d \in Deliveries
      /\ job.pc # "none" => job.d \in Deliveries
    BY InHand
<1> USE OutboxConstants DEF Inv, TypeOK, InLog, NoOp, NoJob
<1>1. ASSUME NEW d \in Deliveries, StageBegin(d) PROVE InLog'
    BY <1>1 DEF StageBegin, Staged, Replaces
<1>2. ASSUME NEW d \in Deliveries, LateLands(d) PROVE InLog'
    BY <1>2 DEF LateLands, log, Staged
<1>3. ASSUME NEW d \in Deliveries, Echo(d) PROVE InLog'
    BY <1>0, <1>3 DEF Echo, Settle, Staged
<1>4. CASE StageSupersede
    BY <1>0, <1>4 DEF StageSupersede, Settle, Older, Staged
<1>5. CASE StageAppend
    <2>1. /\ Staged' = Staged \cup {op.d} /\ op.d \in Deliveries
          /\ op.pc = "supersede" /\ calls[op.d] > 0
        BY <1>0, <1>5, RangeAppend DEF StageAppend, Staged
    <2>2. op'.d = op.d /\ op'.pc \in {"obsolete", "return"}
        BY <1>5 DEF StageAppend
    <2>3. ASSUME op'.pc = "obsolete" PROVE \E e \in Staged : Replaces(e, op.d)
        <3>1. ObsoleteOnArrival(op.d)
            BY <1>5, <2>3 DEF StageAppend
        <3> QED
            BY <1>0, <3>1 DEF ObsoleteOnArrival, Replaces
    <2> QED
        BY <1>5, <2>1, <2>2, <2>3 DEF StageAppend, Replaces
<1>6. CASE StageObsolete
    BY <1>0, <1>6 DEF StageObsolete, Settle, Staged
<1>7. CASE StageReturn
    BY <1>0, <1>7 DEF StageReturn, Enqueue, log, Staged
<1>8. ASSUME NEW r \in Rooms, Provision(r) PROVE InLog'
    BY <1>0, <1>8 DEF Provision, Settle, RetryPending, Enqueue, NotNewest, Staged
<1>9. ASSUME NEW r \in Rooms, RetryTimer(r) PROVE InLog'
    BY <1>0, <1>9 DEF RetryTimer, RetryPending, Enqueue, log, Staged
<1>10. CASE PumpTake
    BY <1>0, <1>10 DEF PumpTake, log, Staged
<1>11. CASE Lands
    BY <1>0, <1>11 DEF Lands, log, Staged
<1>12. CASE Refused
    BY <1>0, <1>12 DEF Refused, Settle, Staged
<1>13. CASE AttemptFails
    BY <1>0, <1>13 DEF AttemptFails, log, Staged
<1>14. CASE MarkDelivered
    BY <1>0, <1>14 DEF MarkDelivered, Settle, Staged
<1>15. CASE Crash
    BY <1>0, <1>15 DEF Crash, log, Staged
<1>16. CASE Start
    BY <1>16 DEF Start, log, Staged
<1>17. CASE UNCHANGED vars
    BY <1>17 DEF vars, Staged
<1> QED
    BY <1>1, <1>2, <1>3, <1>4, <1>5, <1>6, <1>7, <1>8, <1>9, <1>10, <1>11, <1>12,
       <1>13, <1>14, <1>15, <1>16, <1>17 DEF Next, StageStep, Attempt

\* Every reachable state is well typed, and nothing is sent, queued, settled
\* or replaced that the log does not hold.
THEOREM OutboxInvariant == Spec => []Inv
<1>1. Inv /\ [Next]_vars => Inv'
    BY StepType, StepInLog DEF Inv
<1> QED
    BY InitInv, <1>1, PTL DEF Spec

\* The type invariant of the outbox.
THEOREM OutboxTypeCorrect == Spec => []TypeOK
  BY OutboxInvariant, PTL DEF Inv
-----------------------------------------------------------------------------
(***************************************************************************)
(* Wake-ups.                                                               *)
(***************************************************************************)

LEMMA StepWakes == Inv /\ Inv' /\ NoStrandedDelivery /\ [Next]_vars => NoStrandedDelivery'
<1> SUFFICES ASSUME Inv, Inv', NoStrandedDelivery, [Next]_vars,
                    NEW d \in Pending', up'
             PROVE  \/ d \in queue' \/ d = job'.d \/ d = op'.d
                    \/ Room[d] \in timers' \cup provisioning'
    BY DEF NoStrandedDelivery
<1> DEFINE Awake == \/ d \in queue \/ d = job.d \/ d = op.d
                    \/ Room[d] \in timers \cup provisioning
<1> SUFFICES Awake'
    OBVIOUS
<1>0. d \in Deliveries /\ settled'[d] = "none" /\ d \in Staged'
    BY InHand, RangeIn DEF Inv, TypeOK, Pending, Staged
<1> USE OutboxConstants DEF Inv, TypeOK, NoOp, NoJob, NoStrandedDelivery
<1>1. ASSUME NEW e \in Deliveries, StageBegin(e) PROVE Awake'
    BY <1>0, <1>1 DEF StageBegin, Pending
<1>2. ASSUME NEW e \in Deliveries, LateLands(e) PROVE Awake'
    BY <1>0, <1>2 DEF LateLands, log, Pending
<1>3. ASSUME NEW e \in Deliveries, Echo(e) PROVE Awake'
    BY <1>0, <1>3 DEF Echo, Settle, Pending
<1>4. CASE StageSupersede
    BY <1>0, <1>4 DEF StageSupersede, Settle, Pending
<1>5. CASE StageAppend
    <2>1. Range(staged') = Range(staged) \cup {op.d} /\ op'.d = op.d
        BY <1>5, InHand, RangeAppend DEF StageAppend
    <2> QED
        BY <1>0, <1>5, <2>1 DEF StageAppend, Pending
<1>6. CASE StageObsolete
    BY <1>0, <1>6 DEF StageObsolete, Settle, Pending
<1>7. CASE StageReturn
    BY <1>0, <1>7 DEF StageReturn, Enqueue, log, Pending, InLog
<1>8. ASSUME NEW r \in Rooms, Provision(r) PROVE Awake'
    BY <1>0, <1>8 DEF Provision, Settle, RetryPending, Enqueue, Pending
<1>9. ASSUME NEW r \in Rooms, RetryTimer(r) PROVE Awake'
    BY <1>0, <1>9 DEF RetryTimer, RetryPending, Enqueue, log, Pending
<1>10. CASE PumpTake
    BY <1>0, <1>10 DEF PumpTake, log, Pending
<1>11. CASE Lands
    BY <1>0, <1>11 DEF Lands, log, Pending
<1>12. CASE Refused
    BY <1>0, <1>12 DEF Refused, Settle, Pending
<1>13. CASE AttemptFails
    BY <1>0, <1>13 DEF AttemptFails, log, Pending
<1>14. CASE MarkDelivered
    BY <1>0, <1>14 DEF MarkDelivered, Settle, Pending
<1>15. CASE Crash
    BY <1>0, <1>15 DEF Crash
<1>16. CASE Start
    BY <1>0, <1>16 DEF Start
<1>17. CASE UNCHANGED vars
    BY <1>0, <1>17 DEF vars, Pending
<1> QED
    BY <1>1, <1>2, <1>3, <1>4, <1>5, <1>6, <1>7, <1>8, <1>9,
       <1>10, <1>11, <1>12, <1>13, <1>14, <1>15, <1>16, <1>17 DEF Next, StageStep, Attempt

\* No pending delivery is ever left without somebody who will send it: what
\* pauseQueuedAttempts says of a paused room, for every number of rooms.
THEOREM NoDeliveryStranded == Spec => []NoStrandedDelivery
<1>1. Init => NoStrandedDelivery
    BY DEF Init, NoStrandedDelivery, Pending, Range
<1> QED
    BY OutboxInvariant, <1>1, StepWakes, PTL DEF Spec
-----------------------------------------------------------------------------
(***************************************************************************)
(* Refinement.                                                             *)
(***************************************************************************)

LEMMA InitPromise == Init => Promise!Init
  BY DEF Init, Promise!Init, Pending, Delivered, Superseded, Range

LEMMA StepPromise ==
    ASSUME KeyIsOfOneRoom, Inv, Inv', [Next]_vars
    PROVE  [Promise!Next]_(Promise!outboxVars)
<1>0. /\ Staged \subseteq Deliveries /\ Pending \subseteq Staged
      /\ op.pc # "none" => op.d \in Deliveries
      /\ job.pc # "none" => job.d \in Deliveries
      /\ Promise!Accepted = Staged
    BY InHand DEF Promise!Accepted, Inv, InLog, Staged, Pending, Delivered, Superseded,
       TypeOK
<1> DEFINE Offered == {d \in Deliveries : calls[d] > 0}
           Same == /\ Offered' = Offered /\ Pending' = Pending /\ Delivered' = Delivered
                   /\ Superseded' = Superseded /\ published' = published
<1>a. Same => UNCHANGED Promise!outboxVars
    BY DEF Promise!outboxVars
\* What a settling step does to the three sets.
<1>b. ASSUME NEW D \in SUBSET Pending, UNCHANGED <<staged, calls, published>>,
             Settle(D, "superseded")
      PROVE  /\ Pending' = Pending \ D /\ Superseded' = Superseded \cup D
             /\ Delivered' = Delivered /\ Offered' = Offered
    BY <1>0, <1>b DEF Settle, Pending, Superseded, Delivered, Staged, Inv, TypeOK
<1>c. ASSUME NEW D \in SUBSET Pending, UNCHANGED <<staged, calls, published>>,
             Settle(D, "delivered")
      PROVE  /\ Pending' = Pending \ D /\ Delivered' = Delivered \cup D
             /\ Superseded' = Superseded /\ Offered' = Offered
    BY <1>0, <1>c DEF Settle, Pending, Superseded, Delivered, Staged, Inv, TypeOK
<1>d. ASSUME UNCHANGED <<log, calls, published>> PROVE Same
    BY <1>d DEF log, Pending, Superseded, Delivered
<1>1. ASSUME NEW d \in Deliveries, StageBegin(d) PROVE Promise!Next
    <2>1. /\ Offered' = Offered \cup {d} /\ UNCHANGED <<staged, settled, published>>
        BY <1>1 DEF StageBegin, Inv, TypeOK
    <2>2. Promise!Offer(d)
        BY <2>1 DEF Promise!Offer, Pending, Delivered, Superseded
    <2> QED
        BY <2>2 DEF Promise!Next
<1>2. ASSUME NEW d \in Deliveries, LateLands(d) PROVE Promise!Next
    <2>1. Promise!Publish(d)
        BY <1>0, <1>2 DEF LateLands, log, Promise!Publish, Inv, InLog, Pending,
           Delivered, Superseded
    <2> QED
        BY <2>1 DEF Promise!Next
<1>3. ASSUME NEW d \in Deliveries, Echo(d) PROVE Promise!Next
    <2>1. Promise!Record(d)
        BY <1>3, <1>c DEF Echo, Promise!Record
    <2> QED
        BY <2>1 DEF Promise!Next
<1>4. CASE StageSupersede
    <2>1. PICK e \in Older(op.d) : Settle({e}, "superseded")
        BY <1>4 DEF StageSupersede
    <2>2. e \in Pending /\ e \in Deliveries /\ Replaces(op.d, e) /\ op.d \in Offered
        BY <1>0, <1>4, <2>1, OutboxConstants
        DEF StageSupersede, Older, Replaces, Inv, InLog
    <2>3. Promise!Replace({e})
        BY <1>4, <2>1, <2>2, <1>b DEF StageSupersede, Promise!Replace
    <2> QED
        BY <2>2, <2>3 DEF Promise!Next
<1>5. CASE StageAppend
    <2>1. /\ Range(staged') = Staged \cup {op.d} /\ op.d \in Deliveries
          /\ op.d \notin Staged /\ op.d \in Offered /\ settled[op.d] = "none"
        BY <1>0, <1>5, RangeAppend DEF StageAppend, Staged, Inv, InLog, TypeOK
    <2>2. /\ Pending' = Pending \cup {op.d} /\ Delivered' = Delivered
          /\ Superseded' = Superseded /\ Offered' = Offered /\ published' = published
        BY <1>5, <2>1 DEF StageAppend, Pending, Delivered, Superseded, Staged
    <2>3. Promise!Accept(op.d)
        BY <1>0, <2>1, <2>2 DEF Promise!Accept
    <2> QED
        BY <2>1, <2>3 DEF Promise!Next
<1>6. CASE StageObsolete
    <2>1. PICK e \in Staged : Replaces(e, op.d)
        BY <1>6 DEF StageObsolete, Inv, InLog
    <2>2. e \in Offered /\ op.d \in Deliveries
        BY <1>0, <1>6, <2>1 DEF StageObsolete, Inv, InLog
    <2>3. CASE op.d \in Pending
        <3>1. Promise!Replace({op.d})
            BY <1>6, <1>b, <2>1, <2>2, <2>3 DEF StageObsolete, Promise!Replace
        <3> QED
            BY <2>2, <3>1 DEF Promise!Next
    <2> QED
        BY <1>6, <2>3 DEF StageObsolete, Inv, InLog, Pending, Staged
<1>7. CASE StageReturn
    BY <1>7, <1>a, <1>d DEF StageReturn
<1>8. ASSUME NEW r \in Rooms, Provision(r) PROVE Promise!Next
    <2>1. NotNewest \subseteq Pending /\ NotNewest \subseteq Deliveries
        BY <1>0 DEF NotNewest
    <2>2. ASSUME NEW d \in NotNewest PROVE \E e \in Offered : Replaces(e, d)
        <3>1. PICK e \in Pending : /\ Kind[e] = "event" /\ Key[e] = Key[d]
                                  /\ Version[e] > Version[d]
            BY <2>2 DEF NotNewest
        <3>2. e \in Offered /\ e \in Deliveries /\ d \in Deliveries
            BY <1>0, <2>1, <2>2, <3>1 DEF Inv, InLog
        <3>3. Kind[d] = "event" /\ Key[d] # NoKey
            BY <2>2 DEF NotNewest
        <3> QED
            BY <3>1, <3>2, <3>3 DEF Replaces, KeyIsOfOneRoom
    <2>3. PICK gone \in {NotNewest, {}} : /\ Settle(gone, "superseded")
                                         /\ UNCHANGED <<staged, published, calls>>
        BY <1>8 DEF Provision
    <2>4. gone \subseteq Pending /\ \A d \in gone : \E e \in Offered : Replaces(e, d)
        BY <2>1, <2>2, <2>3
    <2>5. Promise!Replace(gone)
        BY <1>8, <1>b, <2>3, <2>4 DEF Provision, Promise!Replace
    <2> QED
        BY <2>1, <2>3, <2>5 DEF Promise!Next
<1>9. ASSUME NEW r \in Rooms, RetryTimer(r) PROVE UNCHANGED Promise!outboxVars
    BY <1>9, <1>a, <1>d DEF RetryTimer
<1>10. CASE PumpTake
    BY <1>10, <1>a, <1>d DEF PumpTake
<1>11. CASE Lands
    <2>1. Promise!Publish(job.d)
        BY <1>0, <1>11 DEF Lands, log, Promise!Publish, Inv, InLog, Pending, Delivered,
           Superseded
    <2> QED
        BY <1>0, <1>11, <2>1 DEF Promise!Next, Lands
<1>12. CASE Refused
    <2>1. CASE job.d \in Pending
        <3>1. {job.d} \cap Pending = {job.d} /\ job.d \in Deliveries
            BY <1>0, <2>1
        <3>2. Promise!Refuse(job.d)
            BY <1>12, <1>b, <2>1, <3>1 DEF Refused, Promise!Refuse
        <3> QED
            BY <3>1, <3>2 DEF Promise!Next
    <2>2. CASE job.d \notin Pending
        <3>1. settled' = settled
            BY <1>12, <2>2 DEF Refused, Settle, Inv, TypeOK
        <3> QED
            BY <1>12, <1>a, <1>d, <3>1 DEF Refused, log
    <2> QED
        BY <2>1, <2>2
<1>13. CASE AttemptFails
    BY <1>13, <1>a, <1>d DEF AttemptFails
<1>14. CASE MarkDelivered
    <2>1. CASE job.d \in Pending
        <3>1. {job.d} \cap Pending = {job.d} /\ job.d \in Deliveries
            BY <1>0, <2>1
        <3>2. Promise!Record(job.d)
            BY <1>14, <1>c, <2>1, <3>1 DEF MarkDelivered, Promise!Record, Inv, InLog
        <3> QED
            BY <3>1, <3>2 DEF Promise!Next
    <2>2. CASE job.d \notin Pending
        <3>1. settled' = settled
            BY <1>14, <2>2 DEF MarkDelivered, Settle, Inv, TypeOK
        <3> QED
            BY <1>14, <1>a, <1>d, <3>1 DEF MarkDelivered, log
    <2> QED
        BY <2>1, <2>2
<1>15. CASE Crash
    BY <1>15, <1>a, <1>d DEF Crash
<1>16. CASE Start
    BY <1>16, <1>a, <1>d DEF Start
<1>17. CASE UNCHANGED vars
    BY <1>17, <1>a, <1>d DEF vars, log
<1> QED
    BY <1>1, <1>2, <1>3, <1>4, <1>5, <1>6, <1>7, <1>8, <1>9, <1>10, <1>11, <1>12,
       <1>13, <1>14, <1>15, <1>16, <1>17 DEF Next, StageStep, Attempt

\* The log with its pump keeps the promise of DurableOutbox over any number
\* of crashes, failed attempts, late requests and echoes, provided that a
\* supersession key names a document of one room.
THEOREM OutboxKeepsPromise ==
    ASSUME KeyIsOfOneRoom PROVE Spec => KeepsPromise
<1>1. Inv /\ Inv' /\ [Next]_vars => [Promise!Next]_(Promise!outboxVars)
    BY StepPromise
<1> QED
    BY OutboxInvariant, InitPromise, <1>1, PTL DEF Spec, KeepsPromise, Promise!Spec
=============================================================================
