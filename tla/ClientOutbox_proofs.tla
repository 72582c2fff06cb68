------------------------ MODULE ClientOutbox_proofs ------------------------
(***************************************************************************)
(* Proofs about ClientOutbox, for every set of keys and every bound: an    *)
(* idempotency key is executed at most once, what was sent can be          *)
(* reconciled unless its content was lost, and a terminal is final.        *)
(***************************************************************************)
EXTENDS ClientOutbox, FiniteSetTheorems, TLAPS

\* The types, without the two limits.
Types ==
    /\ issued \in 0..MaxIds
    /\ key \in [Ids -> Keys] /\ state \in [Ids -> States]
    /\ stored \subseteq saved /\ saved \subseteq Ids /\ lost \subseteq Ids
    /\ access \in {"granted", "revoked", "blocked"}
    /\ armed \subseteq Ids /\ ready \in BOOLEAN
    /\ sender \in [Ids -> SenderSteps]
    /\ wire \subseteq Ids /\ landed \subseteq Ids /\ probed \subseteq Ids
    /\ gateway \in [Ids -> {"none", "running", "done"}]
    /\ cut \subseteq Ids /\ faults \in 0..MaxFaults
    /\ \A i \in Ids : (state[i] = "none") = (i > issued)

\* A key has one command, whether it is still in the outbox or a tombstone.
OneCommandPerKey ==
    \A i, j \in Ids : i <= issued /\ j <= issued /\ key[i] = key[j] => i = j

\* Only a command that exists is transmitted, known to the homeserver or run.
OnlyIssued ==
    \A i \in Ids :
        \/ sender[i] # "none" \/ gateway[i] # "none"
        \/ i \in wire \cup landed \cup probed \cup saved
        => i <= issued

IInv == Types /\ OneCommandPerKey /\ OnlyIssued /\ ReconcilableOnceSent

\* Each step of TerminalIsFinal.
FinalStep == \A i \in Ids : state[i] \in {"done", "released"}
                              => state'[i] \in {state[i], "released"}

LEMMA InitEstablishes == Init => IInv
  BY BoundsAreNatural, ProbesAreKeys
     DEF Init, IInv, Types, OneCommandPerKey, OnlyIssued, ReconcilableOnceSent,
         Ids, States, Active, SenderSteps

\* Every command that exists is known under its key.
LEMMA IssuedIsKnown ==
    ASSUME Types, NEW i \in Ids, i <= issued
    PROVE  i \in Commands \cup Released
  BY BoundsAreNatural DEF Types, Commands, Released, InState, States, Active, Ids

\* The command IDs are numbers: what has a state was issued, and conversely.
LEMMA StateMeansIssued ==
    ASSUME Types, NEW i \in Ids
    PROVE  /\ state[i] # "none" <=> i <= issued
           /\ i \in Nat /\ issued \in Nat
  BY BoundsAreNatural DEF Types, Ids

LEMMA CreatePreserves ==
    ASSUME IInv, NEW k \in Keys, NEW S, S \subseteq UnfinishedProbes,
           ~ Known(k), Create(k, S),
           UNCHANGED <<ready, access, remote, cut, faults>>
    PROVE  IInv' /\ FinalStep
  <1>1. /\ issued \in Nat /\ issued' = issued + 1 /\ issued' \in Ids
        /\ issued' \notin S /\ S \subseteq Ids
        /\ \A i \in S : state[i] \in Active /\ i <= issued
    BY BoundsAreNatural
       DEF IInv, Types, Create, Ids, UnfinishedProbes, Commands, Unfinished
  <1>2. Types'
    BY <1>1 DEF IInv, Types, Create, Removed, Launched, Cancelled, Ids, States,
                Active, SenderSteps, remote
  <1>3. OneCommandPerKey'
    <2>1. \A i \in Ids : i <= issued => key[i] # k
      BY IssuedIsKnown DEF IInv, Known
    <2>2. key' = [key EXCEPT ![issued + 1] = k]
      BY <1>1 DEF Create
    <2>. QED  BY <1>1, <2>1, <2>2 DEF IInv, Types, OneCommandPerKey, Ids
  <1>4. OnlyIssued'
    BY <1>1 DEF IInv, Types, OnlyIssued, Create, Removed, Launched, Cancelled,
                Ids, remote
  <1>5. ReconcilableOnceSent'
    BY <1>1 DEF IInv, Types, OnlyIssued, ReconcilableOnceSent, Create, Removed,
                Ids, remote
  <1>6. FinalStep
    BY <1>1 DEF IInv, Types, Create, FinalStep, Ids, Active
  <1>. QED  BY <1>2, <1>3, <1>4, <1>5, <1>6 DEF IInv

\* A set of commands moves to the ledger.
LEMMA TombstonesPreserve ==
    ASSUME IInv, NEW S, S \subseteq Commands, Tombstones(S),
           sender' \in [Ids -> SenderSteps],
           \A i \in Ids : sender'[i] # "none" => sender[i] # "none" \/ i <= issued,
           cut' \subseteq Ids, faults' \in 0..MaxFaults, ready' \in BOOLEAN,
           UNCHANGED <<issued, key, access, remote>>
    PROVE  IInv' /\ FinalStep
  <1>1. \A i \in S : i \in Ids /\ i <= issued
    BY BoundsAreNatural DEF Commands, IInv, Types, Ids
  <1>2. \A i \in Ids : state[i] # "none" <=> i <= issued
    BY StateMeansIssued DEF IInv
  <1>3. Types'
    BY <1>1, <1>2 DEF IInv, Types, Tombstones, Removed, States, remote
  <1>4. OneCommandPerKey' /\ OnlyIssued'
    BY <1>1 DEF IInv, Types, OneCommandPerKey, OnlyIssued, Tombstones, Removed,
                remote
  <1>5. ReconcilableOnceSent' /\ FinalStep
    BY <1>1 DEF IInv, Types, ReconcilableOnceSent, FinalStep, Tombstones,
                Removed, remote
  <1>. QED  BY <1>3, <1>4, <1>5 DEF IInv

LEMMA GivenUpPreserves ==
    ASSUME IInv, NEW i \in Ids, i \in Commands, GivenUp(i),
           UNCHANGED <<issued, key, ready, access, remote, faults>>
    PROVE  IInv' /\ FinalStep
  <1>1. /\ sender' \in [Ids -> SenderSteps]
        /\ \A j \in Ids : sender'[j] # "none" => sender[j] # "none"
    BY DEF GivenUp, Cancelled, IInv, Types, SenderSteps
  <1>2. CASE Cardinality(Released) < MaxReleased
    BY <1>1, <1>2, TombstonesPreserve DEF GivenUp, IInv, Types
  <1>3. CASE ~ (Cardinality(Released) < MaxReleased)
    <2>1. /\ UNCHANGED <<state, contents>> /\ armed' \subseteq Ids
          /\ cut' \subseteq Ids
      BY <1>3 DEF GivenUp, IInv, Types
    <2>. QED
      BY <1>1, <2>1 DEF IInv, Types, OneCommandPerKey, OnlyIssued,
                        ReconcilableOnceSent, FinalStep, contents, remote
  <1>. QED  BY <1>2, <1>3

LEMMA EnqueuePreserves ==
    ASSUME IInv, NEW k \in Keys, Enqueue(k)
    PROVE  IInv' /\ FinalStep
  BY CreatePreserves DEF Enqueue

LEMMA ReuseProbePreserves ==
    ASSUME IInv, NEW k \in Keys, NEW r \in Ids, ReuseProbe(k, r)
    PROVE  IInv' /\ FinalStep
  <1>1. UnfinishedProbes \ {r} \subseteq Commands
    BY DEF UnfinishedProbes
  <1>2. /\ sender' \in [Ids -> SenderSteps]
        /\ \A i \in Ids : sender'[i] # "none" => sender[i] # "none" \/ i <= issued
    BY DEF ReuseProbe, Launched, Cancelled, InState, IInv, Types, SenderSteps, Ids
  <1>. QED
    BY <1>1, <1>2, TombstonesPreserve DEF ReuseProbe, IInv, Types

LEMMA TakeUpPreserves ==
    ASSUME IInv, NEW i \in Ids, TakeUp(i)
    PROVE  IInv' /\ FinalStep
  <1>1. i <= issued
    BY StateMeansIssued DEF TakeUp, Unfinished, Active, IInv
  <1>2. /\ sender' \in [Ids -> SenderSteps] /\ armed' \subseteq Ids
        /\ \A j \in Ids : sender'[j] # "none" => sender[j] # "none" \/ j = i
    BY DEF TakeUp, Launched, Cancelled, IInv, Types, SenderSteps
  <1>. QED
    BY <1>1, <1>2 DEF TakeUp, IInv, Types, OneCommandPerKey, OnlyIssued,
                      ReconcilableOnceSent, FinalStep, records, contents, remote

LEMMA TransmitPreserves ==
    ASSUME IInv, NEW i \in Ids,
           Claim(i) \/ Sign(i) \/ Accepted(i) \/ RecordPublished(i)
    PROVE  IInv' /\ FinalStep
  <1>. USE DEF IInv, Types, OneCommandPerKey, OnlyIssued, ReconcilableOnceSent,
               FinalStep, SenderSteps, States, Active, records, contents, remote
  <1>1. CASE Claim(i)
    BY <1>1 DEF Claim, Becomes
  <1>2. CASE Sign(i)
    BY <1>2 DEF Sign
  <1>3. CASE Accepted(i)
    BY <1>3 DEF Accepted
  <1>4. CASE RecordPublished(i)
    <2>1. i <= issued /\ state[i] # "none"
      BY <1>4, StateMeansIssued DEF RecordPublished
    <2>. QED  BY <1>4, <2>1 DEF RecordPublished, Published
  <1>. QED  BY <1>1, <1>2, <1>3, <1>4

LEMMA SendFailsPreserves ==
    ASSUME IInv, NEW i \in Ids, SendFails(i)
    PROVE  IInv' /\ FinalStep
  <1>1. /\ sender' \in [Ids -> SenderSteps] /\ i <= issued
        /\ \A j \in Ids : sender'[j] # "none" => sender[j] # "none" \/ j <= issued
        /\ faults' \in 0..MaxFaults
    BY BoundsAreNatural DEF SendFails, Fault, IInv, Types, OnlyIssued, SenderSteps
  <1>2. CASE Tombstones({i})
    <2>1. CASE i \in Commands
      BY <1>1, <1>2, <2>1, TombstonesPreserve DEF SendFails, IInv, Types
    <2>2. CASE i \notin Commands
      <3>1. state[i] = "released"
        BY <1>1, <2>2, IssuedIsKnown DEF IInv, Released, InState
      <3>. QED
        BY <1>1, <3>1 DEF SendFails, IInv, Types, OneCommandPerKey, OnlyIssued,
                          ReconcilableOnceSent, FinalStep, contents, remote
    <2>. QED  BY <2>1, <2>2
  <1>3. CASE ~ Tombstones({i})
    BY <1>1, <1>3 DEF SendFails, IInv, Types, OneCommandPerKey, OnlyIssued,
                      ReconcilableOnceSent, FinalStep, States, Active, contents, remote
  <1>. QED  BY <1>2, <1>3

LEMMA RecoveryFiresPreserves ==
    ASSUME IInv, NEW i \in Ids, RecoveryFires(i)
    PROVE  IInv' /\ FinalStep
  <1>1. CASE state[i] = "recovery" /\ GivenUp(i)
    <2>1. i <= issued
      BY <1>1, StateMeansIssued DEF IInv
    <2>2. i \in Commands
      BY <1>1, <2>1, IssuedIsKnown DEF IInv, Released, InState
    <2>. QED  BY <1>1, <2>2, GivenUpPreserves DEF RecoveryFires
  <1>2. CASE ~ GivenUp(i) /\ state[i] = "recovery"
    <2>1. i <= issued
      BY <1>2, StateMeansIssued DEF IInv
    <2>. QED
      BY <1>2, <2>1 DEF RecoveryFires, IInv, Types, OneCommandPerKey,
                        OnlyIssued, ReconcilableOnceSent, FinalStep,
                        SenderSteps, contents, remote
  <1>3. CASE state[i] # "recovery"
    BY <1>3 DEF RecoveryFires, IInv, Types, OneCommandPerKey, OnlyIssued,
                ReconcilableOnceSent, FinalStep, SenderSteps, contents, remote
  <1>. QED  BY <1>1, <1>2, <1>3

LEMMA EventsPreserve ==
    ASSUME IInv, NEW i \in Ids,
           \/ Reconcile(i) \/ Progress(i) \/ Complete(i)
           \/ Land(i) \/ Drop(i) \/ Execute(i)
    PROVE  IInv' /\ FinalStep
  <1>. USE DEF IInv, Types, OneCommandPerKey, OnlyIssued, ReconcilableOnceSent,
               FinalStep, SenderSteps, States, Active, records, contents, jobs, remote
  <1>1. CASE Reconcile(i)
    BY <1>1 DEF Reconcile
  <1>2. CASE Progress(i)
    BY <1>2 DEF Progress, Becomes, Unfinished
  <1>3. CASE Complete(i)
    BY <1>3 DEF Complete, Becomes, Cancelled, Unfinished
  <1>4. CASE Land(i)
    BY <1>4 DEF Land
  <1>5. CASE Drop(i)
    BY <1>5 DEF Drop
  <1>6. CASE Execute(i)
    BY <1>6 DEF Execute
  <1>. QED  BY <1>1, <1>2, <1>3, <1>4, <1>5, <1>6

LEMMA ReleasePreserves ==
    ASSUME IInv, NEW i \in Ids, Release(i) \/ Retire(i)
    PROVE  IInv' /\ FinalStep
  BY GivenUpPreserves DEF Release, Retire

LEMMA ProcessPreserves ==
    ASSUME IInv, Disconnect \/ Connect \/ Crash \/ AcceptRevocation \/ StateChanges
    PROVE  IInv' /\ FinalStep
  <1>. USE DEF IInv, Types, OneCommandPerKey, OnlyIssued, ReconcilableOnceSent,
               FinalStep, SenderSteps, records, contents, remote
  <1>1. CASE Disconnect
    <2>1. faults' \in 0..MaxFaults
      BY <1>1, BoundsAreNatural DEF Disconnect, Fault
    <2>2. cut' \subseteq Ids
      <3>1. InState("transmitting") \subseteq Ids
        BY BoundsAreNatural DEF InState, Ids
      <3>. QED  BY <1>1, <3>1 DEF Disconnect
    <2>3. /\ sender' \in [Ids -> SenderSteps]
          /\ \A i \in Ids : sender'[i] # "none" => sender[i] # "none"
      BY <1>1 DEF Disconnect, Cancelled
    <2>. QED  BY <1>1, <2>1, <2>2, <2>3 DEF Disconnect
  <1>2. CASE Connect
    <2>1. \A i \in InState("queued") \cup InState("recovery") :
             i \in Ids /\ i <= issued
      BY BoundsAreNatural DEF InState, Ids
    <2>2. /\ sender' \in [Ids -> SenderSteps] /\ armed' \subseteq Ids
          /\ \A i \in Ids : sender'[i] # "none"
                              => sender[i] # "none" \/ i <= issued
      BY <1>2, <2>1 DEF Connect, Launched
    <2>. QED  BY <1>2, <2>2 DEF Connect
  <1>3. CASE Crash
    <2>1. PICK S \in SUBSET UnfinishedProbes :
             /\ state' = [i \in Ids |-> IF i \in S THEN "released"
                                                   ELSE Reopened(i)]
             /\ saved' = stored \ S /\ stored' = saved'
             /\ lost' = (lost \cup (saved \ stored)) \ S
             /\ access' \in {"revoked", access}
             /\ sender' = [i \in Ids |-> "none"]
             /\ armed' = {} /\ ready' = FALSE /\ cut' = {} /\ Fault
             /\ UNCHANGED <<issued, key, remote>>
      BY <1>3 DEF Crash
    <2>2. \A i \in S : state[i] \in Active
      BY DEF UnfinishedProbes, Unfinished
    <2>3. faults' \in 0..MaxFaults
      BY <2>1, BoundsAreNatural DEF Fault
    <2>4. Types'
      BY <2>1, <2>2, <2>3 DEF Reopened, States, Active
    <2>5. OneCommandPerKey' /\ OnlyIssued'
      BY <2>1
    <2>6. ReconcilableOnceSent' /\ FinalStep
      BY <2>1, <2>2 DEF Reopened, Active
    <2>. QED  BY <2>4, <2>5, <2>6
  <1>4. CASE AcceptRevocation
    <2>1. faults' \in 0..MaxFaults
      BY <1>4, BoundsAreNatural DEF AcceptRevocation, Fault
    <2>2. cut' \subseteq Ids
      <3>1. InState("transmitting") \subseteq Ids
        BY BoundsAreNatural DEF InState, Ids
      <3>. QED  BY <1>4, <3>1 DEF AcceptRevocation
    <2>3. /\ sender' \in [Ids -> SenderSteps]
          /\ \A i \in Ids : sender'[i] # "none" => sender[i] # "none"
      BY <1>4 DEF AcceptRevocation, Cancelled
    <2>4. Types' /\ OneCommandPerKey' /\ OnlyIssued' /\ FinalStep
      BY <1>4, <2>1, <2>2, <2>3 DEF AcceptRevocation
    <2>5. ReconcilableOnceSent'
      BY <1>4 DEF AcceptRevocation
    <2>. QED  BY <2>4, <2>5
  <1>5. CASE StateChanges
    <2>1. \A i \in InState("queued") : i \in Ids /\ i <= issued
      BY BoundsAreNatural DEF InState, Ids
    <2>2. /\ sender' \in [Ids -> SenderSteps]
          /\ \A i \in Ids : sender'[i] # "none"
                              => sender[i] # "none" \/ i <= issued
      BY <1>5, <2>1 DEF StateChanges, Launched
    <2>. QED  BY <1>5, <2>2 DEF StateChanges
  <1>. QED  BY <1>1, <1>2, <1>3, <1>4, <1>5

LEMMA StepPreserves == IInv /\ [Next]_vars => IInv' /\ (FinalStep \/ UNCHANGED vars)
  <1>. SUFFICES ASSUME IInv, [Next]_vars
                PROVE  IInv' /\ (FinalStep \/ UNCHANGED vars)
    OBVIOUS
  <1>1. CASE UNCHANGED vars
    BY <1>1 DEF vars, records, contents, jobs, remote, IInv, Types, OneCommandPerKey,
                OnlyIssued, ReconcilableOnceSent
  <1>2. CASE Request
    BY <1>2, EnqueuePreserves, ReuseProbePreserves, TakeUpPreserves,
       EventsPreserve, ReleasePreserves DEF Request
  <1>3. CASE \E i \in Ids : \/ Transmit(i) \/ SendFails(i) \/ Progress(i)
                            \/ Complete(i) \/ Delivered(i) \/ Drop(i)
    BY <1>3, TransmitPreserves, RecoveryFiresPreserves, SendFailsPreserves,
       EventsPreserve DEF Transmit, Delivered
  <1>4. CASE Disconnect \/ Connect \/ Crash \/ AcceptRevocation \/ StateChanges
    BY <1>4, ProcessPreserves
  <1>. QED  BY <1>1, <1>2, <1>3, <1>4 DEF Next

\* The inductive invariant: one command per key in the commands and the
\* tombstones of the outbox, nothing sent or run that was not created, and the
\* signed content of what was sent.
THEOREM OutboxInvariant == Spec => []IInv
  <1>1. Init => IInv
    BY InitEstablishes
  <1>2. IInv /\ [Next]_vars => IInv'
    BY StepPreserves
  <1>. QED  BY <1>1, <1>2, PTL DEF Spec

-----------------------------------------------------------------------------
(***************************************************************************)
(* The two limits of the outbox.                                           *)
(***************************************************************************)

Limits == /\ Cardinality(Commands) <= MaxActive
          /\ Cardinality(Released) <= MaxReleased

LEMMA CommandsAreFinite ==
    ASSUME Types
    PROVE  /\ IsFiniteSet(Commands) /\ IsFiniteSet(Released)
           /\ Commands = {i \in 1..issued : state[i] # "released"}
           /\ Commands \subseteq Ids /\ Released \subseteq Ids
           /\ Cardinality(Commands) \in Nat /\ Cardinality(Released) \in Nat
  <1>1. issued \in Nat /\ 1..issued \subseteq Ids
    BY BoundsAreNatural DEF Types, Ids
  <1>2. IsFiniteSet(1..issued)
    BY <1>1, FS_Interval
  <1>3. /\ Commands \subseteq 1..issued /\ Released \subseteq 1..issued
        /\ Commands = {i \in 1..issued : state[i] # "released"}
    BY <1>1, StateMeansIssued
       DEF Types, Commands, Released, InState, States, Active
  <1>4. IsFiniteSet(Commands) /\ IsFiniteSet(Released)
    BY <1>2, <1>3, FS_Subset
  <1>. QED  BY <1>1, <1>3, <1>4, FS_CardinalityType

\* Commands S move to the ledger, which has room for them.
LEMMA MovingKeepsLimits ==
    ASSUME Types, Types', Limits, issued' = issued,
           NEW S, IsFiniteSet(S), Released' = Released \cup S,
           Cardinality(Released) + Cardinality(S) <= MaxReleased
    PROVE  Limits'
  <1>1. /\ IsFiniteSet(Commands) /\ IsFiniteSet(Released)
        /\ Commands = {i \in 1..issued : state[i] # "released"}
        /\ Cardinality(Commands) \in Nat /\ Cardinality(Released) \in Nat
    BY CommandsAreFinite
  <1>2. Commands' = {i \in 1..issued : state'[i] # "released"}
    <2>1. \A i \in 1..issued : i \in Ids /\ state'[i] \in States
                               /\ state'[i] # "none"
      BY BoundsAreNatural DEF Types, Ids
    <2>. QED  BY <2>1 DEF Commands, States, Active
  <1>3. Commands' \subseteq Commands
    BY <1>1, <1>2 DEF Released, InState
  <1>4. Cardinality(Commands') <= Cardinality(Commands)
           /\ Cardinality(Commands') \in Nat
    BY <1>1, <1>3, FS_Subset, FS_CardinalityType
  <1>5. Cardinality(Released \cup S) <= MaxReleased
    <2>1. /\ Cardinality(Released \cup S)
               = Cardinality(Released) + Cardinality(S)
                   - Cardinality(Released \cap S)
          /\ Cardinality(S) \in Nat /\ IsFiniteSet(Released \cap S)
      BY <1>1, FS_Union, FS_CardinalityType, FS_Subset
    <2>2. Cardinality(Released \cap S) \in Nat
      BY <2>1, FS_CardinalityType
    <2>. QED  BY <1>1, <2>1, <2>2, BoundsAreNatural
  <1>. QED
    BY <1>1, <1>4, <1>5, BoundsAreNatural DEF Limits

\* Nobody moves to the ledger.
LEMMA QuietKeepsLimits ==
    ASSUME Types, Types', Limits, issued' = issued,
           \A i \in Ids : (state'[i] = "released") = (state[i] = "released")
    PROVE  Limits'
  <1>1. \A i \in 1..issued : i \in Ids
    BY BoundsAreNatural DEF Types, Ids
  <1>2. Released' = Released \cup {}
    BY <1>1 DEF Released, InState
  <1>3. Cardinality(Released) + Cardinality({}) <= MaxReleased
    BY FS_EmptySet, CommandsAreFinite, BoundsAreNatural DEF Limits
  <1>. QED  BY <1>2, <1>3, FS_EmptySet, MovingKeepsLimits

LEMMA TombstonesKeepLimits ==
    ASSUME Types, Types', Limits, issued' = issued, NEW S,
           S \subseteq Commands, Tombstones(S),
           Cardinality(Released) + Cardinality(S) <= MaxReleased
    PROVE  Limits'
  <1>1. IsFiniteSet(S)
    BY CommandsAreFinite, FS_Subset
  <1>2. Released' = Released \cup S
    <2>1. /\ \A i \in 1..issued : i \in Ids
          /\ S \subseteq 1..issued
      BY BoundsAreNatural DEF Commands, Types, Ids
    <2>2. Released' = {i \in 1..issued : i \in S \/ state[i] = "released"}
      BY <2>1 DEF Tombstones, Released, InState
    <2>. QED  BY <2>1, <2>2 DEF Released, InState
  <1>. QED  BY <1>1, <1>2, MovingKeepsLimits

LEMMA GivenUpKeepsLimits ==
    ASSUME Types, Types', Limits, issued' = issued,
           NEW i \in Ids, i \in Commands, GivenUp(i)
    PROVE  Limits'
  <1>1. CASE Cardinality(Released) < MaxReleased
    <2>1. Cardinality(Released) + Cardinality({i}) <= MaxReleased
      BY <1>1, FS_Singleton, CommandsAreFinite, BoundsAreNatural
    <2>. QED  BY <1>1, <2>1, TombstonesKeepLimits DEF GivenUp
  <1>2. CASE ~ (Cardinality(Released) < MaxReleased)
    BY <1>2, QuietKeepsLimits DEF GivenUp
  <1>. QED  BY <1>1, <1>2

LEMMA CreateKeepsLimits ==
    ASSUME Types, Types', Limits, NEW k, NEW S,
           S \subseteq UnfinishedProbes, Create(k, S)
    PROVE  Limits'
  <1>1. /\ IsFiniteSet(Commands) /\ IsFiniteSet(Released)
        /\ Commands = {i \in 1..issued : state[i] # "released"}
        /\ Cardinality(Commands) \in Nat /\ Cardinality(Released) \in Nat
        /\ S \subseteq Commands
    BY CommandsAreFinite DEF UnfinishedProbes
  <1>2. IsFiniteSet(S) /\ Cardinality(S) \in Nat
    BY <1>1, FS_Subset, FS_CardinalityType
  <1>3. /\ issued \in Nat /\ issued' = issued + 1 /\ issued + 1 \in Ids
        /\ \A i \in Ids : state'[i] = IF i = issued + 1 THEN "queued"
                                      ELSE IF i \in S THEN "released"
                                      ELSE state[i]
    BY BoundsAreNatural DEF Create, Types, Ids
  <1>4. Commands' = (Commands \ S) \cup {issued + 1}
    <2>1. Commands' = {i \in 1..(issued + 1) : state'[i] # "released"}
      <3>1. \A i \in 1..(issued + 1) : i \in Ids /\ state'[i] \in States
                                       /\ state'[i] # "none"
        BY <1>3, BoundsAreNatural DEF Types, Ids
      <3>. QED  BY <1>3, <3>1 DEF Commands, States, Active
    <2>2. \A i \in 1..(issued + 1) : i \in Ids /\ (i \in 1..issued \/ i = issued + 1)
      BY <1>3, BoundsAreNatural DEF Ids
    <2>3. issued + 1 \notin S
      BY <1>1, <1>3
    <2>. QED  BY <1>1, <1>3, <2>1, <2>2, <2>3
  <1>5. Released' = Released \cup S
    <2>1. \A i \in 1..(issued + 1) : i \in Ids /\ (i \in 1..issued \/ i = issued + 1)
      BY <1>3, BoundsAreNatural DEF Ids
    <2>2. S \subseteq 1..issued /\ issued + 1 \notin 1..issued
      BY <1>1, <1>3
    <2>3. Released' = {i \in 1..(issued + 1) : state'[i] = "released"}
      BY <1>3 DEF Released, InState
    <2>4. Released' = {i \in 1..issued : i \in S \/ state[i] = "released"}
      BY <1>3, <2>1, <2>2, <2>3
    <2>. QED  BY <2>2, <2>4 DEF Released, InState
  <1>6. Cardinality(Commands') <= MaxActive
    <2>1. /\ IsFiniteSet(Commands \ S)
          /\ Cardinality(Commands \ S) = Cardinality(Commands) - Cardinality(S)
      <3>1. Commands \cap S = S
        BY <1>1
      <3>2. /\ IsFiniteSet(Commands \ S)
            /\ Cardinality(Commands \ S)
                 = Cardinality(Commands) - Cardinality(Commands \cap S)
        BY <1>1, FS_Difference
      <3>. QED  BY <3>1, <3>2
    <2>2. Cardinality((Commands \ S) \cup {issued + 1})
            <= Cardinality(Commands \ S) + 1
      <3>1. Cardinality(Commands \ S) \in Nat
        BY <2>1, FS_CardinalityType
      <3>2. Cardinality((Commands \ S) \cup {issued + 1})
              = IF issued + 1 \in Commands \ S THEN Cardinality(Commands \ S)
                ELSE Cardinality(Commands \ S) + 1
        BY <2>1, FS_AddElement
      <3>. QED  BY <3>1, <3>2
    <2>3. Cardinality((Commands \ S) \cup {issued + 1}) \in Nat
      BY <2>1, FS_AddElement, FS_CardinalityType
    <2>. QED
      BY <1>1, <1>2, <1>4, <2>1, <2>2, <2>3, BoundsAreNatural DEF Create
  <1>7. Cardinality(Released') <= MaxReleased
    <2>1. /\ Cardinality(Released \cup S)
               = Cardinality(Released) + Cardinality(S)
                   - Cardinality(Released \cap S)
          /\ IsFiniteSet(Released \cap S)
      BY <1>1, <1>2, FS_Union, FS_Subset
    <2>2. Cardinality(Released \cap S) \in Nat
      BY <2>1, FS_CardinalityType
    <2>. QED
      BY <1>1, <1>2, <1>5, <2>1, <2>2, BoundsAreNatural DEF Create
  <1>. QED  BY <1>6, <1>7 DEF Limits

LEMMA CrashKeepsLimits ==
    ASSUME Types, Types', Limits, Crash
    PROVE  Limits'
  <1>1. PICK S \in SUBSET UnfinishedProbes :
           /\ LET room == MaxReleased - Cardinality(Released) IN
              \/ Cardinality(UnfinishedProbes) <= room /\ S = UnfinishedProbes
              \/ Cardinality(UnfinishedProbes) > room /\ Cardinality(S) = room
           /\ state' = [i \in Ids |-> IF i \in S THEN "released"
                                                 ELSE Reopened(i)]
           /\ issued' = issued
    BY DEF Crash
  <1>2. S \subseteq Commands
    BY DEF UnfinishedProbes
  <1>3. IsFiniteSet(S)
    BY <1>2, CommandsAreFinite, FS_Subset
  <1>4. Released' = Released \cup S
    <2>1. /\ \A i \in 1..issued : i \in Ids
          /\ S \subseteq 1..issued
      BY <1>2, BoundsAreNatural DEF Commands, Types, Ids
    <2>2. Released' = {i \in 1..issued : i \in S \/ state[i] = "released"}
      BY <1>1, <2>1 DEF Released, InState, Reopened
    <2>. QED  BY <2>1, <2>2 DEF Released, InState
  <1>5. Cardinality(Released) + Cardinality(S) <= MaxReleased
    BY <1>1, <1>3, FS_CardinalityType, CommandsAreFinite, BoundsAreNatural
  <1>. QED  BY <1>1, <1>3, <1>4, <1>5, MovingKeepsLimits

LEMMA NextKeepsLimits ==
    ASSUME IInv, Limits, [Next]_vars
    PROVE  Limits'
  <1>1. Types /\ Types'
    BY StepPreserves DEF IInv
  <1>2. CASE UNCHANGED vars
    BY <1>1, <1>2, QuietKeepsLimits DEF vars, records, contents
  <1>3. CASE \E k \in Keys : Enqueue(k)
    BY <1>1, <1>3, CreateKeepsLimits DEF Enqueue
  <1>4. CASE \E k \in Keys, r \in Ids : ReuseProbe(k, r)
    <2>1. \A r : UnfinishedProbes \ {r} \subseteq Commands
      BY DEF UnfinishedProbes
    <2>. QED  BY <1>1, <1>4, <2>1, TombstonesKeepLimits DEF ReuseProbe
  <1>5. ASSUME NEW i \in Ids, SendFails(i)
        PROVE  Limits'
    <2>1. i <= issued
      BY <1>5 DEF SendFails, IInv, OnlyIssued
    <2>2. CASE state[i] \notin {"done", "released"} /\ Tombstones({i})
                 /\ Cardinality(Released) < MaxReleased
      <3>1. i \in Commands
        BY <1>1, <2>1, <2>2, IssuedIsKnown DEF Released, InState
      <3>2. Cardinality(Released) + Cardinality({i}) <= MaxReleased
        <4>1. Cardinality(Released) \in Nat
          BY <1>1, CommandsAreFinite
        <4>2. Cardinality({i}) = 1
          BY FS_Singleton
        <4>3. Cardinality(Released) < MaxReleased
          BY <2>2
        <4>. QED  BY <4>1, <4>2, <4>3, BoundsAreNatural
      <3>. QED
        BY <1>1, <1>5, <2>2, <3>1, <3>2, TombstonesKeepLimits DEF SendFails
    <2>3. CASE state[i] \in {"done", "released"}
      BY <1>1, <1>5, <2>3, QuietKeepsLimits DEF SendFails
    <2>4. CASE state' = [state EXCEPT ![i] = IF @ = "transmitting"
                                             THEN "recovery" ELSE @]
      BY <1>1, <1>5, <2>4, QuietKeepsLimits DEF SendFails, Types
    <2>. QED  BY <1>5, <2>2, <2>3, <2>4 DEF SendFails
  <1>6. ASSUME NEW i \in Ids, RecoveryFires(i)
        PROVE  Limits'
    <2>1. CASE state[i] = "recovery" /\ GivenUp(i)
      <3>1. i \in Commands
        BY <1>1, <2>1, StateMeansIssued, IssuedIsKnown DEF Released, InState
      <3>. QED  BY <1>1, <1>6, <2>1, <3>1, GivenUpKeepsLimits DEF RecoveryFires
    <2>2. CASE UNCHANGED state
      BY <1>1, <1>6, <2>2, QuietKeepsLimits DEF RecoveryFires
    <2>. QED  BY <1>6, <2>1, <2>2 DEF RecoveryFires
  <1>7. ASSUME NEW i \in Ids, Release(i) \/ Retire(i)
        PROVE  Limits'
    BY <1>1, <1>7, GivenUpKeepsLimits DEF Release, Retire
  <1>8. ASSUME NEW i \in Ids,
               \/ TakeUp(i) \/ Reconcile(i) \/ Claim(i) \/ Sign(i)
               \/ Accepted(i) \/ RecordPublished(i) \/ Progress(i)
               \/ Complete(i) \/ Delivered(i) \/ Drop(i)
        PROVE  Limits'
    <2>1. issued' = issued
      BY <1>8 DEF TakeUp, Reconcile, Claim, Sign, Accepted, RecordPublished,
                  Progress, Complete, Delivered, Land, Execute, Drop, records, contents
    <2>2. \A j \in Ids : (state'[j] = "released") = (state[j] = "released")
      BY <1>1, <1>8 DEF TakeUp, Reconcile, Claim, Sign, Accepted,
           RecordPublished, Published, Progress, Complete, Delivered, Land,
           Execute, Drop, Becomes, Unfinished, Active, Types, records, contents
    <2>. QED  BY <1>1, <2>1, <2>2, QuietKeepsLimits
  <1>9. CASE Disconnect \/ Connect \/ AcceptRevocation \/ StateChanges
    BY <1>1, <1>9, QuietKeepsLimits
       DEF Disconnect, Connect, AcceptRevocation, StateChanges, records
  <1>10. CASE Crash
    BY <1>1, <1>10, CrashKeepsLimits
  <1>. QED
    BY <1>2, <1>3, <1>4, <1>5, <1>6, <1>7, <1>8, <1>9, <1>10
       DEF Next, Request, Transmit

\* The outbox never holds more than MAX_ACTIVE_COMMANDS commands nor more than
\* MAX_RELEASED_TOMBSTONES tombstones, whichever of its operations adds them,
\* and every variable keeps its type.
THEOREM ClientTypeCorrect == Spec => []TypeOK
  <1>1. Init => IInv /\ Limits
    <2>1. ASSUME Init PROVE Limits
      <3>1. Commands = {} /\ Released = {}
        BY <2>1 DEF Init, Commands, Released, InState
      <3>. QED  BY <3>1, FS_EmptySet, BoundsAreNatural DEF Limits
    <2>. QED  BY <2>1, InitEstablishes
  <1>2. IInv /\ Limits /\ [Next]_vars => IInv' /\ Limits'
    BY StepPreserves, NextKeepsLimits
  <1>3. IInv /\ Limits => TypeOK
    BY DEF IInv, Types, Limits, TypeOK
  <1>. QED  BY <1>1, <1>2, <1>3, PTL DEF Spec

\* enqueue looks a key up among the commands and the tombstones, which nobody
\* forgets: at most one command of a key is ever executed, for every number of
\* keys, commands and faults.
THEOREM KeyIsExecutedOnce == Spec => []KeyExecutedOnce
  <1>1. IInv => KeyExecutedOnce
    BY DEF IInv, OneCommandPerKey, OnlyIssued, KeyExecutedOnce
  <1>. QED  BY <1>1, OutboxInvariant, PTL

\* signedCommandContent puts the signed content away before the request leaves,
\* and until a tombstone removes it only the device's revocation, or a death of
\* the process that follows a failed write, can lose it: anything else that
\* Matrix may have can be reconciled.
THEOREM SentIsReconcilable == Spec => []ReconcilableOnceSent
  <1>1. IInv => ReconcilableOnceSent
    BY DEF IInv
  <1>. QED  BY <1>1, OutboxInvariant, PTL

\* recordPublished, recordProgress, a failed send, a recovery and a restart
\* leave a terminal command as it is.
THEOREM TerminalStaysFinal == Spec => TerminalIsFinal
  <1>1. IInv /\ [Next]_vars
          => [\A i \in Ids : state[i] \in {"done", "released"}
                => state'[i] \in {state[i], "released"}]_vars
    BY StepPreserves DEF FinalStep
  <1>. QED  BY <1>1, OutboxInvariant, PTL DEF Spec, TerminalIsFinal
=============================================================================
