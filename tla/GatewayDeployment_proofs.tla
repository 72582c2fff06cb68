---------------------- MODULE GatewayDeployment_proofs ----------------------
(***************************************************************************)
(* The blue/green update for every number of updates, crashes, failed      *)
(* steps and promotions: the state is well formed, a retired Gateway never *)
(* runs again, no work is lost, and there are at most two deployments.     *)
(***************************************************************************)
EXTENDS GatewayDeployment, FiniteSetTheorems, TLAPS

\* The ownership commit of the running transaction has happened, and its
\* merged directory has become the active one.
Installed == Upd # None /\ active.node = Upd
Moved == Upd # None /\ (handoff[Upd].promoted \/ active.node = Upd)

\* The steps at which no transaction runs, or none has been recorded yet.
Quiet == {"rotate", "unrotate", "rotated", "reinstate"}

\* performPromotion, from the sealed Gateways to the ownership commit.
Sealed == {"drained", "transfer", "built", "validate", "validating",
           "transferred", "commit", "own"}
Merged == Sealed \ {"drained", "transfer"}

\* completeCommittedActivation
Activating == {"owned", "activate", "archive", "install", "restart",
               "complete", "finish"}

\* Where the supervisor is, and what the coordinator's file says.
Control ==
    /\ pc \in Quiet => Upd = None
    /\ pc \in Steps \ (Quiet \cup {"idle", "down"}) => Upd # None
    /\ pc \in {"rotate", "rotated"} => updates < MaxUpdates
    /\ Upd # None => Upd = updates /\ coord.active < Upd
    /\ coord.active <= updates /\ host.update <= updates
    /\ retained.update <= updates
    /\ pc \in {"prepare", "start", "publish", "ready", "abandon",
               "recoverPreparation"} => coord.phase = "preparing"
    /\ pc \in Sealed \cup {"sealCandidate", "sealActive"} =>
           coord.phase # "preparing"
    /\ pc \in {"commit", "own"} => coord.commitStarted

\* Update c has left nothing that a candidate could run on.
Gone(c) == trial[c] = NoDir /\ (candidate[c] = "off" \/ handoff[c] = NoDir)

\* The steps at which the record is known to be the transaction's.
Recorded == {"start", "publish", "ready", "abandon", "sealActive", "restore",
             "restored"} \cup Sealed

\* The host's record is the transaction's, or its candidate is gone.
Records ==
    /\ Upd # None => Deployed \/ Gone(Upd)
    /\ pc = "unwound" => Gone(Upd)
    /\ pc \in Recorded => Deployed
    /\ coord.phase = "preparing" => handoff[Upd] = NoDir
    /\ \A c \in Updates \ {Upd} : Gone(c)
    /\ \A c \in Updates : c > updates =>
           /\ handoff[c] = NoDir /\ archive[c] = NoDir
           /\ candidate[c] = "off"

\* Who owns the projects, and which directory is the active one.
Ownership ==
    /\ \A c \in Updates : handoff[c].promoted => c = Upd /\ handoff[c].node = c
    /\ Installed => handoff[Upd] = NoDir /\ active.promoted
    /\ \/ active.node = coord.active \/ Installed
       \/ Moved /\ active \in {NoDir, EmptyDir} /\ pc \in {"install", "down"}
    /\ Upd # None => archive[Upd] = NoDir \/ Installed \/ active \in {NoDir, EmptyDir}
    /\ Moved => /\ Deployed /\ coord.commitStarted /\ candidate[Upd] = "off"
                /\ main = "open" => Installed
                /\ pc \in Activating \cup {"recoverCommit", "idle", "down"}
    /\ \A n \in retired : n < coord.active \/ (n = coord.active /\ Moved)
    /\ pc \in Activating => Moved
    /\ pc \in {"restart", "complete", "finish"} => Installed
    /\ pc = "install" /\ ~ Installed => active = NoDir
    /\ Upd # None /\ host.update = Upd /\ CommittedPhase => Moved

\* What has stopped when the directories are merged.
Stopped ==
    /\ pc \in Sealed => main = "off"
    /\ pc \in Sealed \cup {"sealActive"} => candidate[Upd] # "open"
    /\ pc \in {"transferred", "commit", "own"} => candidate[Upd] = "off"

\* Where the work is.
Data ==
    /\ pc \in Merged =>
           handoff[Upd] = Dir(Upd, active.work \cup trial[Upd].work)
    /\ pc \in {"prepare", "start", "finish"} => trial[Upd] = NoDir
    /\ Moved => owed \subseteq (IF Installed THEN active.work
                                             ELSE handoff[Upd].work)
    /\ ~ Moved => owed \subseteq
           active.work \cup (IF Upd = None THEN {} ELSE trial[Upd].work)

\* The retained version: it runs beside a steady computer, or beside the one
\* that is being activated.
Tracks ==
    /\ Upd = None /\ coord.rotated # None => coord.rotated = coord.recovery
    /\ \A r \in Updates : repair[r] = "open" =>
           IF Upd = None THEN r = coord.recovery /\ pc # "rotated"
                         ELSE r = Upd /\ Installed /\ host.keeps

Inv == TypeOK /\ Control /\ Records /\ Ownership /\ Stopped /\ Data /\ Tracks

-----------------------------------------------------------------------------
(***************************************************************************)
(* Directories and records.                                                *)
(***************************************************************************)

LEMMA Directories ==
    /\ NoDir \in Dirs /\ EmptyDir \in Dirs /\ NoDir # EmptyDir
    /\ NoDir.node = MaxUpdates + 1 /\ EmptyDir.node = MaxUpdates + 2
    /\ NoDir.work = {} /\ EmptyDir.work = {}
    /\ NoDir.promoted = FALSE /\ EmptyDir.promoted = FALSE
    /\ \A n \in Nodes, w \in SUBSET Work :
           /\ Dir(n, w) \in Dirs /\ Dir(n, w).node = n
           /\ Dir(n, w).work = w /\ Dir(n, w).promoted = FALSE
           /\ Dir(n, w) # NoDir
<1>1. /\ MaxUpdates + 1 \in 0..(MaxUpdates + 2)
      /\ MaxUpdates + 2 \in 0..(MaxUpdates + 2)
      /\ \A n \in Nodes : n \in 0..(MaxUpdates + 2) /\ n # MaxUpdates + 1
    BY BoundsAreNatural DEF Nodes
<1> QED
    BY <1>1, BoundsAreNatural DEF NoDir, EmptyDir, Dir, Dirs

LEMMA HostRecords ==
    /\ NoHost \in Hosts /\ NoHost.phase = "none" /\ NoHost.update = 0
    /\ TypeOK => Checkpoint \in Hosts
  BY BoundsAreNatural DEF NoHost, Hosts, HostPhases, Nodes, None, TypeOK,
                          Checkpoint

-----------------------------------------------------------------------------
(***************************************************************************)
(* Types, one variable or file at a time.                                  *)
(***************************************************************************)

Coords == [phase : Phases, generation : Nat, active : Nodes, update : Nodes,
           commitStarted : BOOLEAN, scheduled : BOOLEAN, rotated : Nodes,
           recovery : Nodes]

\* What validateCoordinatorState accepts.
Valid ==
    /\ coord \in Coords
    /\ (coord.phase = "steady") = (Upd = None)
    /\ coord.commitStarted => coord.phase \in {"committing", "repair_required"}
    /\ coord.scheduled => coord.phase = "draining"
    /\ coord.recovery # None => coord.phase = "steady"

TypeHost == host \in Hosts /\ retained \in Hosts

TypeFiles ==
    /\ active \in Dirs
    /\ trial \in [Updates -> Dirs] /\ handoff \in [Updates -> Dirs]
    /\ archive \in [Updates -> Dirs] /\ listed \subseteq Updates

TypeServices ==
    /\ main \in {"off", "open"} /\ lateSeal \in BOOLEAN
    /\ candidate \in [Updates -> {"off", "open", "fenced"}]
    /\ repair \in [Updates -> {"off", "open"}]

TypeRest ==
    /\ reload \in BOOLEAN /\ owed \subseteq Work /\ retired \subseteq Nodes
    /\ updates \in Nodes /\ crashes \in Nat /\ fails \in Nat
    /\ promotions \in Nat

TypeControl == pc \in Steps /\ mode \in {"request", "retry", "boot"}

LEMMA TypeParts ==
    TypeOK <=> /\ TypeControl /\ Valid /\ TypeHost /\ TypeFiles
               /\ TypeServices /\ TypeRest
  BY DEF TypeOK, TypeControl, Valid, Coords, TypeHost, TypeFiles,
         TypeServices, TypeRest

\* The only ways in which the coordinator's file is written.
LEMMA CoordWrites ==
    ASSUME TypeOK, Control, [Next]_vars
    PROVE  \/ UNCHANGED coord
           \/ /\ RotateBegin /\ Upd = None
              /\ coord' = [coord EXCEPT !.rotated = coord.recovery]
           \/ /\ Unrotate \/ Reinstate
              /\ coord' = [coord EXCEPT !.rotated = None]
           \/ Upd = None /\ PrepareBegin
           \/ Upd # None /\ SchedulePromote
           \/ Upd # None /\ coord' = [coord EXCEPT !.scheduled = FALSE]
           \/ Upd # None /\ Unwind /\ ReturnToSteady
           \/ Upd # None /\ \E s \in Phases \ {"steady", "preparing"} :
                               Status(s, FALSE)
           \/ Upd # None /\ \E s \in {"committing", "repair_required"} : Status(s, TRUE)
           \/ /\ Upd # None /\ Finish
              /\ \E r \in {IF host.keeps THEN Upd ELSE None} :
                    coord' = [coord EXCEPT !.phase = "steady", !.update = None,
                           !.generation = coord.generation + 1,
                           !.active = Upd, !.commitStarted = FALSE,
                           !.scheduled = FALSE, !.rotated = None,
                           !.recovery = r]
<1>0. /\ pc \in Steps \ (Quiet \cup {"idle", "down"}) => Upd # None
      /\ Upd # None <=> coord.phase # "steady"
      /\ pc \in Quiet => Upd = None /\ pc \in Steps
    BY DEF TypeOK, Control
<1> USE <1>0 DEF At, Done, Steps, Quiet, Phases, MarkRepairRequired, ActivationFails
<1>1. CASE RotateBegin
    BY <1>1 DEF RotateBegin, CanPrepare
<1>2. CASE PrepareBegin
    <2>1. Upd = None
        BY <1>2 DEF PrepareBegin, CanPrepare
    <2> QED
        BY <1>2, <2>1
<1>3. CASE DiscardBegin
    BY <1>3 DEF DiscardBegin
<1>4. CASE SchedulePromote
    BY <1>4 DEF SchedulePromote
<1>5. CASE RotateRecovery
    BY <1>5 DEF RotateRecovery
<1>6. CASE Unrotate
    BY <1>6 DEF Unrotate
<1>7. CASE RecordCandidate
    BY <1>7 DEF RecordCandidate
<1>8. CASE StartCandidate
    BY <1>8 DEF StartCandidate
<1>9. CASE PublishCandidate
    BY <1>9 DEF PublishCandidate
<1>10. CASE CandidateReady
    BY <1>10 DEF CandidateReady
<1>11. CASE Prepared
    BY <1>11 DEF Prepared
<1>12. CASE Abandon
    BY <1>12 DEF Abandon
<1>13. CASE Unwind
    BY <1>13 DEF Unwind
<1>14. CASE DiscardCandidate
    BY <1>14 DEF DiscardCandidate
<1>15. CASE PromotionTimer
    BY <1>15 DEF PromotionTimer
<1>16. CASE SealCandidate
    BY <1>16 DEF SealCandidate
<1>17. CASE SealActive
    BY <1>17 DEF SealActive
<1>18. CASE Drained
    BY <1>18 DEF Drained
<1>19. CASE BuildHandoff
    BY <1>19 DEF BuildHandoff
<1>20. CASE RecordHandoff
    BY <1>20 DEF RecordHandoff
<1>21. CASE StartValidation
    BY <1>21 DEF StartValidation
<1>22. CASE Validate
    BY <1>22 DEF Validate
<1>23. CASE Transferred
    BY <1>23 DEF Transferred
<1>24. CASE CommitBegin
    BY <1>24 DEF CommitBegin
<1>25. CASE CommitOwnership
    BY <1>25 DEF CommitOwnership
<1>26. CASE Owned
    BY <1>26 DEF Owned
<1>27. CASE StopBoth
    BY <1>27 DEF StopBoth
<1>28. CASE ArchiveSource
    BY <1>28 DEF ArchiveSource
<1>29. CASE InstallHandoff
    BY <1>29 DEF InstallHandoff
<1>30. CASE RestartTracks
    BY <1>30 DEF RestartTracks
<1>31. CASE CompleteActivation
    BY <1>31 DEF CompleteActivation
<1>32. CASE Finish
    <2>1. Upd # None
        BY <1>32 DEF Finish
    <2>2. mode = "request" \/ mode = "retry" \/ mode = "boot"
        BY DEF TypeOK
    <2>3. CASE Fails /\ ~ UNCHANGED bounds
        BY <1>32, <2>1, <2>2, <2>3 DEF Finish
    <2>4. CASE ~ Fails
        BY <1>32, <2>1, <2>4 DEF Finish
    <2>5. Fails => ~ UNCHANGED bounds
        BY DEF Fails, bounds, TypeOK
    <2> QED
        BY <2>3, <2>4, <2>5
<1>33. CASE RecoverCommit
    BY <1>33 DEF RecoverCommit
<1>34. CASE Rollback
    BY <1>34 DEF Rollback
<1>35. CASE RestorePrior
    BY <1>35 DEF RestorePrior
<1>36. CASE RecordRestored
    BY <1>36 DEF RecordRestored
<1>37. CASE Boot
    BY <1>37 DEF Boot
<1>38. CASE Reinstate
    BY <1>38 DEF Reinstate
<1>39. CASE RecoverPreparation
    BY <1>39 DEF RecoverPreparation
<1>40. CASE WorkOnActive
    BY <1>40 DEF WorkOnActive
<1>41. CASE WorkOnCandidate
    BY <1>41 DEF WorkOnCandidate
<1>42. CASE LateSeal
    BY <1>42 DEF LateSeal
<1>43. CASE Crash
    BY <1>43 DEF Crash, Down
<1>44. CASE Reload
    BY <1>44 DEF Reload, Down
<1>45. CASE UNCHANGED vars
    BY <1>45 DEF vars, files
<1> QED
    BY <1>1, <1>2, <1>3, <1>4, <1>5, <1>6, <1>7, <1>8, <1>9, <1>10, <1>11,
       <1>12, <1>13, <1>14, <1>15, <1>16, <1>17, <1>18, <1>19, <1>20,
       <1>21, <1>22, <1>23, <1>24, <1>25, <1>26, <1>27, <1>28, <1>29,
       <1>30, <1>31, <1>32, <1>33, <1>34, <1>35, <1>36, <1>37, <1>38,
       <1>39, <1>40, <1>41, <1>42, <1>43, <1>44, <1>45
    DEF Next, SupervisorStep, PrepareStep, PromoteStep, RecoveryStep, Request,
        Environment

\* The steps that change a directory.
LEMMA FileWriters ==
    ASSUME [Next]_vars
    PROVE  UNCHANGED files \/ StartCandidate \/ PublishCandidate \/ Abandon
           \/ DiscardCandidate \/ BuildHandoff \/ CommitOwnership \/
           ArchiveSource \/ InstallHandoff \/ CompleteActivation \/ Rollback
           \/ Boot \/ RecoverPreparation \/ WorkOnActive \/ WorkOnCandidate
  BY DEF Next, vars, SupervisorStep, PrepareStep, PromoteStep,
         RecoveryStep, Request, Environment, RotateBegin, PrepareBegin,
         DiscardBegin, SchedulePromote, RotateRecovery, Unrotate,
         RecordCandidate, CandidateReady, Prepared, Unwind, PromotionTimer,
         SealCandidate, SealActive, Drained, RecordHandoff,
         StartValidation, Validate, Transferred, CommitBegin, Owned,
         StopBoth, RestartTracks, Finish, RecoverCommit, RestorePrior,
         RecordRestored, Reinstate, LateSeal, Crash, Reload, Down, files

\* The steps that start or stop a service.
LEMMA ServiceWriters ==
    ASSUME [Next]_vars
    PROVE  UNCHANGED services \/ RotateRecovery \/ Unrotate \/ StartCandidate
           \/ Abandon \/ Unwind \/ DiscardCandidate \/ SealCandidate \/
           SealActive \/ StartValidation \/ Validate \/ StopBoth \/
           RestartTracks \/ Rollback \/ RestorePrior \/ Reinstate \/
           RecoverPreparation \/ LateSeal \/ Crash \/ Reload
  BY DEF Next, vars, SupervisorStep, PrepareStep, PromoteStep,
         RecoveryStep, Request, Environment, RotateBegin, PrepareBegin,
         DiscardBegin, SchedulePromote, RecordCandidate, PublishCandidate,
         CandidateReady, Prepared, PromotionTimer, Drained, BuildHandoff,
         RecordHandoff, Transferred, CommitBegin, CommitOwnership, Owned,
         ArchiveSource, InstallHandoff, CompleteActivation, Finish,
         RecoverCommit, RecordRestored, Boot, WorkOnActive,
         WorkOnCandidate, Down, services

\* The steps that write the host's file.
LEMMA HostWriters ==
    ASSUME [Next]_vars
    PROVE  UNCHANGED <<host, retained>> \/ RotateRecovery \/ Unrotate \/
           RecordCandidate \/ CandidateReady \/ Abandon \/ Unwind \/
           DiscardCandidate \/ SealActive \/ RecordHandoff \/ Validate \/
           CommitBegin \/ Owned \/ CompleteActivation \/ RecoverCommit \/
           RecordRestored \/ Reinstate \/ RecoverPreparation
  BY DEF Next, vars, SupervisorStep, PrepareStep, PromoteStep,
         RecoveryStep, Request, Environment, RotateBegin, PrepareBegin,
         DiscardBegin, SchedulePromote, StartCandidate, PublishCandidate,
         Prepared, PromotionTimer, SealCandidate, Drained, BuildHandoff,
         StartValidation, Transferred, CommitOwnership, StopBoth,
         ArchiveSource, InstallHandoff, RestartTracks, Finish, Rollback,
         RestorePrior, Boot, WorkOnActive, WorkOnCandidate, LateSeal,
         Crash, Reload, Down

LEMMA StepValid == ASSUME TypeOK, Control, [Next]_vars PROVE Valid'
<1>1. Valid /\ coord.generation \in Nat /\ None \in Nodes
    BY TypeParts, BoundsAreNatural DEF Valid, Coords, None, Nodes
<1>2. \/ updates + 1 \in Nodes /\ updates + 1 # None
      \/ ~ PrepareBegin
    BY BoundsAreNatural DEF PrepareBegin, CanPrepare, At, Control, TypeOK, Nodes, None
<1>3. CASE UNCHANGED coord
    BY <1>1, <1>3 DEF Valid, Upd
<1> USE <1>1 DEF Valid, Coords, Upd, Phases
<1>4. CASE coord' = [coord EXCEPT !.rotated = coord.recovery]
    BY <1>4
<1>5. CASE coord' = [coord EXCEPT !.rotated = None]
    BY <1>5
<1>6. CASE Upd = None /\ PrepareBegin
    <2>1. coord' = [coord EXCEPT !.phase = "preparing", !.update = updates + 1,
                                 !.recovery = None]
        BY <1>6 DEF PrepareBegin
    <2>2. ~ coord.commitStarted /\ ~ coord.scheduled
        BY <1>6
    <2> QED
        BY <1>2, <1>6, <2>1, <2>2
<1>7. CASE Upd # None /\ SchedulePromote
    BY <1>7 DEF SchedulePromote
<1>8. CASE Upd # None /\ coord' = [coord EXCEPT !.scheduled = FALSE]
    BY <1>8
<1>9. CASE Upd # None /\ Unwind /\ ReturnToSteady
    BY <1>9 DEF ReturnToSteady
<1>10. ASSUME Upd # None, NEW s \in Phases \ {"steady", "preparing"}, Status(s, FALSE)
       PROVE  Valid'
    BY <1>10 DEF Status
<1>11. ASSUME Upd # None, NEW s \in {"committing", "repair_required"},
              Status(s, TRUE)
       PROVE  Valid'
    BY <1>11 DEF Status
<1>12. ASSUME Upd # None, NEW r \in {IF host.keeps THEN Upd ELSE None},
              coord' = [coord EXCEPT !.phase = "steady", !.update = None,
                           !.generation = coord.generation + 1,
                           !.active = Upd, !.commitStarted = FALSE,
                           !.scheduled = FALSE, !.rotated = None,
                           !.recovery = r]
       PROVE  Valid'
    <2>1. coord' \in Coords
        <3>1. coord.generation + 1 \in Nat /\ Upd \in Nodes /\ r \in Nodes
            BY <1>12
        <3> QED
            BY <1>12, <3>1
    <2>2. /\ coord'.phase = "steady" /\ coord'.update = None
          /\ coord'.commitStarted = FALSE /\ coord'.scheduled = FALSE
        BY <1>12
    <2> HIDE DEF Coords
    <2> QED
        BY <2>1, <2>2
<1> QED
    BY CoordWrites, <1>3, <1>4, <1>5, <1>6, <1>7, <1>8, <1>9, <1>10, <1>11,
       <1>12

LEMMA StepTypeHost == ASSUME TypeOK, Control, [Next]_vars PROVE TypeHost'
<1>1. /\ host \in Hosts /\ retained \in Hosts /\ Checkpoint \in Hosts
      /\ NoHost \in Hosts
    BY HostRecords DEF TypeOK
<1>2. \A s \in HostPhases : [host EXCEPT !.phase = s] \in Hosts
    BY <1>1 DEF Hosts
<1>3. Upd \in Nodes /\ coord.active \in Nodes
    BY DEF TypeOK, Upd
<1> USE <1>1 DEF TypeHost, HostPhases
<1>4. CASE UNCHANGED <<host, retained>>
    BY <1>4
<1>5. CASE RotateRecovery
    BY <1>5 DEF RotateRecovery
<1>6. CASE Unrotate \/ Unwind \/ Reinstate
    BY <1>6 DEF Unrotate, Unwind, Reinstate, RestoreRecovery,
                RestoreRecoveryThrows
<1>7. CASE RecordCandidate
    <2>1. [phase |-> "preparing", update |-> Upd, source |-> coord.active,
           keeps |-> FALSE] \in Hosts
        BY <1>3 DEF Hosts
    <2> QED
        BY <1>7, <2>1 DEF RecordCandidate
<1>8. CASE RecordHandoff
    <2>1. (active.node \in RepairNodes) \in BOOLEAN
        OBVIOUS
    <2>2. \A b \in BOOLEAN :
              [host EXCEPT !.phase = "validating", !.keeps = b] \in Hosts
        BY DEF Hosts
    <2> QED
        BY <1>8, <2>1, <2>2 DEF RecordHandoff
<1>9. CASE Abandon \/ DiscardCandidate \/ RecoverPreparation
    BY <1>9 DEF Abandon, DiscardCandidate, RecoverPreparation
<1>10. CASE CompleteActivation
    BY <1>2, <1>10 DEF CompleteActivation
<1>11. CASE CandidateReady \/ SealActive \/ Validate \/ CommitBegin \/ Owned
             \/ RecoverCommit \/ RecordRestored
    BY <1>2, <1>11 DEF CandidateReady, SealActive, Validate, CommitBegin, Owned,
                       RecoverCommit, RecordRestored
<1> QED
    BY HostWriters, <1>4, <1>5, <1>6, <1>7, <1>8, <1>9, <1>10, <1>11

LEMMA StepTypeFiles == ASSUME TypeOK, Control, [Next]_vars PROVE TypeFiles'
<1>0. TypeFiles /\ NoDir \in Dirs /\ EmptyDir \in Dirs
    BY TypeParts, Directories
<1>1. \A u \in Updates, w \in SUBSET Work : Dir(u, w) \in Dirs
    BY Directories, BoundsAreNatural DEF Updates, Nodes
<1>2. pc \in {"start", "transfer", "publish", "own"} => Upd \in Updates
    BY BoundsAreNatural DEF Control, Steps, Quiet, TypeOK, Updates, Nodes, None, Upd
<1>3. \A d \in Dirs, w \in Work :
          /\ [d EXCEPT !.work = @ \cup {w}] \in Dirs
          /\ [d EXCEPT !.promoted = TRUE] \in Dirs
          /\ d.work \subseteq Work
    BY DEF Dirs
<1>4. \A d \in Dirs : [d EXCEPT !.promoted = TRUE] \in Dirs /\ d.work \subseteq Work
    BY DEF Dirs
<1> USE <1>0 DEF TypeFiles, files, At
<1>5. CASE UNCHANGED files
    BY <1>5
<1>6. CASE StartCandidate
    BY <1>1, <1>2, <1>6 DEF StartCandidate
<1>7. CASE PublishCandidate
    BY <1>2, <1>7 DEF PublishCandidate
<1>8. CASE Abandon
    BY <1>8 DEF Abandon
<1>9. CASE DiscardCandidate
    BY <1>9 DEF DiscardCandidate
<1>10. CASE BuildHandoff
    <2>1. Dir(Upd, active.work \cup trial[Upd].work) \in Dirs
        BY <1>1, <1>2, <1>4, <1>10 DEF BuildHandoff
    <2> QED
        BY <1>10, <2>1 DEF BuildHandoff
<1>11. CASE CommitOwnership
    BY <1>4, <1>2, <1>11 DEF CommitOwnership
<1>12. CASE ArchiveSource
    BY <1>12 DEF ArchiveSource
<1>13. CASE InstallHandoff
    <2>1. Upd \in Updates
        BY <1>13, BoundsAreNatural DEF InstallHandoff, Control, Steps, Quiet, TypeOK, Updates, Nodes, None, Upd
    <2> QED
        BY <1>13, <2>1 DEF InstallHandoff
<1>14. CASE CompleteActivation
    BY <1>14 DEF CompleteActivation
<1>15. CASE Rollback
    BY <1>15 DEF Rollback
<1>16. CASE Boot
    BY <1>16 DEF Boot
<1>17. CASE RecoverPreparation
    BY <1>17 DEF RecoverPreparation
<1>18. CASE WorkOnActive
    <2>1. PICK w \in Work : active' = [active EXCEPT !.work = @ \cup {w}]
        BY <1>18 DEF WorkOnActive
    <2>2. active' \in Dirs
        BY <1>3, <2>1
    <2> QED
        BY <1>18, <2>2 DEF WorkOnActive
<1>19. CASE WorkOnCandidate
    <2>1. PICK w \in Work, c \in Updates :
              trial' = [trial EXCEPT ![c].work = @ \cup {w}]
        BY <1>19 DEF WorkOnCandidate
    <2>2. [trial[c] EXCEPT !.work = @ \cup {w}] \in Dirs
        BY <1>3
    <2>3. trial' \in [Updates -> Dirs]
        BY <2>1, <2>2
    <2> QED
        BY <1>19, <2>3 DEF WorkOnCandidate
<1> QED
    BY FileWriters, <1>5, <1>6, <1>7, <1>8, <1>9, <1>10, <1>11, <1>12, <1>13,
       <1>14, <1>15, <1>16, <1>17, <1>18, <1>19

LEMMA StepTypeServices == ASSUME TypeOK, [Next]_vars PROVE TypeServices'
<1>0. TypeServices
    BY TypeParts
<1> USE <1>0 DEF TypeServices, services
<1>1. CASE UNCHANGED services
    BY <1>1
<1>2. CASE RotateRecovery
    BY <1>2 DEF RotateRecovery
<1>3. CASE Unrotate
    BY <1>3 DEF Unrotate, RestoreRecovery, RestoreRecoveryThrows
<1>4. CASE StartCandidate
    BY <1>4 DEF StartCandidate
<1>5. CASE Abandon
    BY <1>5 DEF Abandon
<1>6. CASE Unwind
    BY <1>6 DEF Unwind, RestoreRecovery, RestoreRecoveryThrows
<1>7. CASE DiscardCandidate
    BY <1>7 DEF DiscardCandidate
<1>8. CASE SealCandidate
    BY <1>8 DEF SealCandidate
<1>9. CASE SealActive
    BY <1>9 DEF SealActive
<1>10. CASE StartValidation
    BY <1>10 DEF StartValidation
<1>11. CASE Validate
    BY <1>11 DEF Validate
<1>12. CASE StopBoth
    BY <1>12 DEF StopBoth
<1>13. CASE RestartTracks
    BY <1>13 DEF RestartTracks
<1>14. CASE Rollback
    BY <1>14 DEF Rollback
<1>15. CASE RestorePrior
    BY <1>15 DEF RestorePrior
<1>16. CASE Reinstate
    BY <1>16 DEF Reinstate, RestoreRecovery, RestoreRecoveryThrows
<1>17. CASE RecoverPreparation
    BY <1>17 DEF RecoverPreparation
<1>18. CASE LateSeal
    BY <1>18 DEF LateSeal
<1>19. CASE Crash
    BY <1>19 DEF Crash, Down
<1>20. CASE Reload
    BY <1>20 DEF Reload, Down
<1> QED
    BY ServiceWriters, <1>1, <1>2, <1>3, <1>4, <1>5, <1>6, <1>7, <1>8,
       <1>9, <1>10, <1>11, <1>12, <1>13, <1>14, <1>15, <1>16, <1>17, <1>18,
       <1>19, <1>20

LEMMA StepTypeRest == ASSUME TypeOK, Control, [Next]_vars PROVE TypeRest'
<1>0. TypeRest /\ host.source \in Nodes
    BY TypeParts DEF TypeOK, Hosts
<1>1. \/ UNCHANGED bounds \/ Fails \/ PrepareBegin \/ SchedulePromote \/ Crash
      \/ Reload
    BY DEF Next, vars, SupervisorStep, PrepareStep, PromoteStep,
           RecoveryStep, Request, Environment, RotateBegin, DiscardBegin,
           RotateRecovery, Unrotate, RecordCandidate, StartCandidate,
           PublishCandidate, CandidateReady, Prepared, Abandon, Unwind,
           DiscardCandidate, PromotionTimer, SealCandidate, SealActive,
           Drained, BuildHandoff, RecordHandoff, StartValidation, Validate,
           Transferred, CommitBegin, CommitOwnership, Owned, StopBoth,
           ArchiveSource, InstallHandoff, RestartTracks, CompleteActivation,
           Finish, RecoverCommit, Rollback, RestorePrior, RecordRestored,
           Boot, Reinstate, RecoverPreparation, WorkOnActive,
           WorkOnCandidate, LateSeal, RestoreRecoveryThrows
<1>2. updates' \in Nodes /\ crashes' \in Nat /\ fails' \in Nat /\ promotions' \in Nat
    <2>1. CASE PrepareBegin
        <3>1. updates + 1 \in Nodes
            BY <1>0, <2>1, BoundsAreNatural DEF PrepareBegin, CanPrepare, At,
                   Control, TypeRest, Nodes
        <3> QED
            BY <1>0, <2>1, <3>1 DEF PrepareBegin, TypeRest
    <2>2. CASE SchedulePromote \/ Crash \/ Reload
        BY <1>0, <2>2 DEF SchedulePromote, Crash, Reload, Down, TypeRest
    <2>3. CASE Fails \/ UNCHANGED bounds
        BY <1>0, <2>3 DEF Fails, bounds, TypeRest
    <2> QED
        BY <1>1, <2>1, <2>2, <2>3
<1>3. reload' \in BOOLEAN /\ (owed' \subseteq owed \/ owed' \subseteq Work)
        /\ (retired' = retired \/ retired' = retired \cup {host.source})
    BY <1>0 DEF TypeRest, history, Next, vars, SupervisorStep, PrepareStep,
           PromoteStep, RecoveryStep, Request, Environment, RotateBegin,
           PrepareBegin, DiscardBegin, SchedulePromote, RotateRecovery,
           Unrotate, RecordCandidate, StartCandidate, PublishCandidate,
           CandidateReady, Prepared, Abandon, Unwind, DiscardCandidate,
           PromotionTimer, SealCandidate, SealActive, Drained, BuildHandoff,
           RecordHandoff, StartValidation, Validate, Transferred,
           CommitBegin, CommitOwnership, Owned, StopBoth, ArchiveSource,
           InstallHandoff, RestartTracks, CompleteActivation, Finish,
           RecoverCommit, Rollback, RestorePrior, RecordRestored, Boot,
           Reinstate, RecoverPreparation, WorkOnActive, WorkOnCandidate,
           LateSeal, Crash, Reload, Down
<1> QED
    BY <1>0, <1>2, <1>3 DEF TypeRest

LEMMA StepTypeControl == ASSUME TypeOK, [Next]_vars PROVE TypeControl'
<1>0. TypeControl
    BY TypeParts
<1> QED
    BY <1>0 DEF TypeControl, Steps, Goto, Done, Failed, ActivationFails,
           MarkRepairRequired, At, Next, vars, SupervisorStep, PrepareStep,
           PromoteStep, RecoveryStep, Request, Environment, RotateBegin,
           PrepareBegin, DiscardBegin, SchedulePromote, RotateRecovery,
           Unrotate, RecordCandidate, StartCandidate, PublishCandidate,
           CandidateReady, Prepared, Abandon, Unwind, DiscardCandidate,
           PromotionTimer, SealCandidate, SealActive, Drained, BuildHandoff,
           RecordHandoff, StartValidation, Validate, Transferred,
           CommitBegin, CommitOwnership, Owned, StopBoth, ArchiveSource,
           InstallHandoff, RestartTracks, CompleteActivation, Finish,
           RecoverCommit, Rollback, RestorePrior, RecordRestored, Boot,
           Reinstate, RecoverPreparation, WorkOnActive, WorkOnCandidate,
           LateSeal, Crash, Reload, Down

LEMMA StepTypes == ASSUME TypeOK, Control, [Next]_vars PROVE TypeOK'
<1>1. /\ TypeControl' /\ Valid' /\ TypeHost' /\ TypeFiles' /\ TypeServices'
      /\ TypeRest'
    BY StepTypeControl, StepValid, StepTypeHost, StepTypeFiles,
       StepTypeServices, StepTypeRest
<1> QED
    BY <1>1, TypeParts, PTL

-----------------------------------------------------------------------------
(***************************************************************************)
(* Control.                                                                *)
(***************************************************************************)

\* A transaction begins with PrepareBegin and ends with Unwind or Finish.
LEMMA TransactionKept ==
    ASSUME TypeOK, Control, [Next]_vars
    PROVE  \/ UNCHANGED <<coord.update, coord.active, coord.recovery, updates>>
           \/ PrepareBegin \/ (Unwind /\ ReturnToSteady) \/ Finish
<1>0. coord \in Coords
    BY TypeParts DEF Valid
<1>1. PrepareBegin \/ UNCHANGED updates
    BY DEF bounds, Fails, RestoreRecoveryThrows, Next, vars, SupervisorStep,
           PrepareStep, PromoteStep, RecoveryStep, Request, Environment,
           RotateBegin, DiscardBegin, SchedulePromote, RotateRecovery,
           Unrotate, RecordCandidate, StartCandidate, PublishCandidate,
           CandidateReady, Prepared, Abandon, Unwind, DiscardCandidate,
           PromotionTimer, SealCandidate, SealActive, Drained, BuildHandoff,
           RecordHandoff, StartValidation, Validate, Transferred,
           CommitBegin, CommitOwnership, Owned, StopBoth, ArchiveSource,
           InstallHandoff, RestartTracks, CompleteActivation, Finish,
           RecoverCommit, Rollback, RestorePrior, RecordRestored, Boot,
           Reinstate, RecoverPreparation, WorkOnActive, WorkOnCandidate,
           LateSeal, Crash, Reload, Down
<1> USE <1>0 DEF Coords
<1>2. ASSUME NEW s \in Phases, NEW b \in BOOLEAN, Status(s, b)
      PROVE  UNCHANGED <<coord.update, coord.active, coord.recovery>>
    BY <1>2 DEF Status
<1>3. SchedulePromote => UNCHANGED <<coord.update, coord.active, coord.recovery>>
    BY DEF SchedulePromote
<1>4. CASE UNCHANGED coord
    BY <1>1, <1>4
<1>5. CASE coord' = [coord EXCEPT !.rotated = coord.recovery]
    BY <1>1, <1>5
<1>6. CASE coord' = [coord EXCEPT !.rotated = None]
    BY <1>1, <1>6
<1>7. CASE coord' = [coord EXCEPT !.scheduled = FALSE]
    BY <1>1, <1>7
<1>8. \A s : s \in Phases \ {"steady", "preparing"} => s \in Phases
    OBVIOUS
<1>9. {"committing", "repair_required"} \subseteq Phases
    BY DEF Phases
<1> HIDE DEF Coords
<1> QED
    BY CoordWrites, <1>1, <1>2, <1>3, <1>4, <1>5, <1>6, <1>7, <1>8, <1>9

LEMMA StepNumbers ==
    ASSUME TypeOK, Control, [Next]_vars
    PROVE  /\ Upd' # None => Upd' = updates' /\ coord'.active < Upd'
           /\ coord'.active <= updates' /\ host'.update <= updates'
           /\ retained'.update <= updates'
<1>0. /\ updates \in Nat /\ coord.active \in Nat /\ host.update \in Nat
      /\ retained.update \in Nat /\ Upd \in Nat /\ coord \in Coords
    BY TypeParts, BoundsAreNatural DEF TypeOK, Hosts, Nodes, Upd, Valid
<1>1. updates' \in Nat /\ updates <= updates'
    <2>1. UNCHANGED updates \/ updates' = updates + 1
        BY TransactionKept DEF PrepareBegin, Unwind, Finish, RestoreRecoveryThrows,
                               Fails, bounds
    <2> QED
        BY <1>0, <2>1
<1>2. /\ Upd' # None => Upd' = updates' /\ coord'.active < Upd'
      /\ coord'.active <= updates'
    <2>1. CASE UNCHANGED <<coord.update, coord.active, updates>>
        BY <2>1 DEF Control, Upd
    <2>2. CASE PrepareBegin
        <3>1. coord'.update = updates + 1 /\ coord'.active = coord.active
            BY <1>0, <2>2 DEF PrepareBegin, Coords
        <3> QED
            BY <1>0, <2>2, <3>1 DEF PrepareBegin, Control, Upd
    <2>3. CASE Unwind /\ ReturnToSteady
        <3>1. coord'.update = None /\ coord'.active = coord.active
            BY <1>0, <2>3 DEF ReturnToSteady, Coords
        <3> QED
            BY <1>0, <1>1, <3>1 DEF Control, Upd
    <2>4. CASE Finish
        <3>1. CASE coord'.update = coord.update /\ coord'.active = coord.active
            BY <1>0, <1>1, <2>4, <3>1 DEF Control, Upd, Finish, Fails, bounds
        <3>2. CASE coord'.update = None /\ coord'.active = Upd
            BY <1>0, <1>1, <3>2 DEF Control, Upd, None
        <3>3. \/ coord'.update = coord.update /\ coord'.active = coord.active
              \/ coord'.update = None /\ coord'.active = Upd
            <4>1. mode \in {"request", "retry", "boot"}
                BY DEF TypeOK
            <4>2. CASE UNCHANGED coord
                BY <4>2
            <4>3. CASE Status("repair_required", TRUE)
                BY <1>0, <4>3 DEF Status, Coords
            <4>4. CASE coord' = [coord EXCEPT !.phase = "steady", !.update = None,
                           !.generation = coord.generation + 1,
                           !.active = Upd, !.commitStarted = FALSE,
                           !.scheduled = FALSE, !.rotated = None,
                           !.recovery = IF host.keeps THEN Upd ELSE None]
                BY <1>0, <4>4 DEF Coords
            <4> QED
                BY <2>4, <4>1, <4>2, <4>3, <4>4 DEF Finish, MarkRepairRequired
        <3> QED
            BY <3>1, <3>2, <3>3
    <2> QED
        BY TransactionKept, <2>1, <2>2, <2>3, <2>4
<1>3. /\ retained'.update \in {retained.update, host.update, 0}
      /\ host'.update \in {host.update, retained.update, Upd, 0}
    <2>0. /\ host \in Hosts /\ retained \in Hosts
          /\ Checkpoint.update \in {host.update, retained.update, 0}
          /\ NoHost.update = 0
        BY HostRecords DEF Checkpoint, TypeOK
    <2>1. \A s \in HostPhases : [host EXCEPT !.phase = s].update = host.update
        BY <2>0 DEF Hosts
    <2> USE <2>0 DEF HostPhases
    <2>2. CASE UNCHANGED <<host, retained>>
        BY <2>2
    <2>3. CASE RotateRecovery
        BY <2>3 DEF RotateRecovery
    <2>4. CASE Unrotate \/ Unwind \/ Reinstate
        BY <2>4 DEF Unrotate, Unwind, Reinstate, RestoreRecovery,
                    RestoreRecoveryThrows
    <2>5. CASE RecordCandidate
        <3>1. [phase |-> "preparing", update |-> Upd, source |-> coord.active,
               keeps |-> FALSE].update = Upd
            OBVIOUS
        <3> QED
            BY <2>5, <3>1 DEF RecordCandidate
    <2>6. CASE RecordHandoff
        <3>1. host'.update = host.update
            BY <2>6 DEF RecordHandoff, Hosts
        <3> QED
            BY <2>6, <3>1 DEF RecordHandoff
    <2>7. CASE Abandon \/ DiscardCandidate \/ RecoverPreparation
        BY <2>7 DEF Abandon, DiscardCandidate, RecoverPreparation
    <2>8. CASE CompleteActivation
        BY <2>1, <2>8 DEF CompleteActivation
    <2>9. CASE CandidateReady \/ SealActive \/ Validate \/ CommitBegin \/ Owned
                \/ RecoverCommit \/ RecordRestored
        BY <2>1, <2>9 DEF CandidateReady, SealActive, Validate, CommitBegin,
                          Owned, RecoverCommit, RecordRestored
    <2> QED
        BY HostWriters, <2>2, <2>3, <2>4, <2>5, <2>6, <2>7, <2>8, <2>9
<1>4. Upd <= updates /\ host.update <= updates /\ retained.update <= updates
    BY <1>0 DEF Control, None
<1> QED
    BY <1>0, <1>1, <1>2, <1>3, <1>4

LEMMA StatusFields ==
    ASSUME TypeOK, NEW s, NEW b, Status(s, b)
    PROVE  /\ coord'.phase = s /\ coord'.commitStarted = b
           /\ UNCHANGED <<coord.update, coord.active, coord.rotated,
                          coord.recovery>>
  BY TypeParts DEF Valid, Coords, Status

LEMMA RepairFields ==
    ASSUME TypeOK, NEW b, MarkRepairRequired(b)
    PROVE  /\ coord'.phase = "repair_required" /\ coord'.commitStarted = b
           /\ UNCHANGED <<coord.update, coord.active, coord.rotated,
                          coord.recovery>>
           /\ pc' = "idle"
  BY TypeParts DEF Valid, Coords, Status, MarkRepairRequired, Done

LEMMA SteadyFields ==
    ASSUME TypeOK, ReturnToSteady
    PROVE  /\ coord'.phase = "steady" /\ coord'.update = None
           /\ coord'.commitStarted = FALSE /\ coord'.active = coord.active
           /\ coord'.rotated = None /\ coord'.recovery = coord.rotated
  BY TypeParts DEF Valid, Coords, ReturnToSteady

LEMMA PrepareFields ==
    ASSUME TypeOK, PrepareBegin
    PROVE  /\ coord'.phase = "preparing" /\ coord'.update = updates + 1
           /\ updates' = updates + 1 /\ pc' = "prepare"
           /\ UNCHANGED <<coord.commitStarted, coord.active, coord.rotated>>
           /\ coord'.recovery = None
  BY TypeParts DEF Valid, Coords, PrepareBegin, Goto

LEMMA FinishFields ==
    ASSUME TypeOK, Finish
    PROVE  \/ /\ coord'.phase = "steady" /\ coord'.update = None
              /\ coord'.commitStarted = FALSE /\ coord'.active = Upd
              /\ coord'.rotated = None /\ pc' = "idle"
              /\ coord'.recovery = IF host.keeps THEN Upd ELSE None
           \/ UNCHANGED coord /\ (pc' = "idle" \/ Failed)
           \/ MarkRepairRequired(TRUE)
<1>1. mode = "request" \/ mode = "retry" \/ mode = "boot"
    BY DEF TypeOK
<1>2. coord \in Coords
    BY TypeParts DEF Valid
<1>3. CASE coord' = [coord EXCEPT !.phase = "steady", !.update = None,
                           !.generation = coord.generation + 1,
                           !.active = Upd, !.commitStarted = FALSE,
                           !.scheduled = FALSE, !.rotated = None,
                           !.recovery = IF host.keeps THEN Upd ELSE None]
             /\ Done
    BY <1>2, <1>3 DEF Coords, Done
<1> QED
    BY <1>1, <1>3 DEF Finish, Done

\* A transaction's update has its directories and services.
LEMMA UpdateIndex ==
    ASSUME TypeOK, Upd # None PROVE Upd \in Updates
  BY BoundsAreNatural DEF TypeOK, Upd, None, Nodes, Updates

LEMMA HostFields ==
    ASSUME TypeOK, NEW s, host' = [host EXCEPT !.phase = s]
    PROVE  host'.phase = s /\ UNCHANGED <<host.update, host.source, host.keeps>>
  BY DEF TypeOK, Hosts

\* Between its beginning and its end a transaction keeps its identity.
LEMMA TransactionGoesOn ==
    ASSUME TypeOK, Control, [Next]_vars,
           pc \notin {"rotated", "idle", "unwound", "finish"}
    PROVE  /\ UNCHANGED <<coord.update, coord.active, coord.recovery, updates>>
           /\ coord'.phase = "preparing" => coord.phase = "preparing"
<1>0. coord \in Coords
    BY TypeParts DEF Valid
<1>1. ~ PrepareBegin /\ ~ Unwind /\ ~ Finish /\ ~ SchedulePromote /\ ~ RotateBegin
    BY DEF PrepareBegin, Unwind, Finish, SchedulePromote, RotateBegin, CanPrepare, At
<1>2. UNCHANGED <<coord.update, coord.active, coord.recovery, updates>>
    BY <1>1, TransactionKept
<1>3. CASE UNCHANGED coord
    BY <1>2, <1>3
<1>4. CASE coord' = [coord EXCEPT !.rotated = None]
    BY <1>0, <1>2, <1>4 DEF Coords
<1>5. CASE coord' = [coord EXCEPT !.scheduled = FALSE]
    BY <1>0, <1>2, <1>5 DEF Coords
<1>6. ASSUME NEW s \in Phases \ {"steady", "preparing"}, Status(s, FALSE)
      PROVE  coord'.phase # "preparing"
    BY <1>6, StatusFields
<1>7. ASSUME NEW s \in {"committing", "repair_required"}, Status(s, TRUE)
      PROVE  coord'.phase # "preparing"
    BY <1>7, StatusFields
<1> QED
    BY CoordWrites, <1>1, <1>2, <1>3, <1>4, <1>5, <1>6, <1>7

\* Where a failed step goes.
LEMMA FailTargets ==
    /\ Failed => /\ pc' \in {"recoverCommit", "rollback"}
                 /\ pc' = "recoverCommit" <=> coord.commitStarted
    /\ \A b \in BOOLEAN : MarkRepairRequired(b) => pc' = "idle"
    /\ ActivationFails => \/ pc' = "idle"
                          \/ /\ pc' \in {"recoverCommit", "rollback"}
                             /\ pc' = "recoverCommit" <=> coord.commitStarted
  BY DEF Failed, MarkRepairRequired, ActivationFails, Goto, Done

\* Once the commit has been started it stays so while the activation fails.
LEMMA ActivationFailsFields ==
    ASSUME TypeOK, ActivationFails, coord.commitStarted
    PROVE  /\ coord'.commitStarted
           /\ UNCHANGED <<coord.update, coord.active, coord.rotated,
                          coord.recovery>>
           /\ pc' \in {"idle", "recoverCommit"}
<1>1. CASE mode = "request"
    BY <1>1 DEF ActivationFails, Failed
<1>2. CASE mode # "request"
    <2>1. MarkRepairRequired(TRUE)
        BY <1>2 DEF ActivationFails
    <2> QED
        BY <2>1, RepairFields
<1> QED
    BY <1>1, <1>2

\* Where initialize() goes, by the phase of the durable transaction.
LEMMA BootTarget ==
    ASSUME TypeOK, Boot
    PROVE  \/ pc' = "down" /\ active = NoDir /\ active' = EmptyDir
           \/ /\ active' = active /\ active \notin {NoDir, EmptyDir}
              /\ \/ pc' = "reinstate" /\ coord.phase = "steady"
                    /\ coord.rotated # None
                 \/ pc' = "idle" /\ ~ coord.commitStarted
                 \/ pc' = "recoverPreparation" /\ coord.phase = "preparing"
                 \/ pc' = "discard" /\ coord.phase = "discarding"
                 \/ pc' = "recoverCommit" /\ coord.commitStarted
                    /\ coord.phase # "steady"
                 \/ pc' = "rollback" /\ ~ coord.commitStarted
                    /\ coord.phase # "steady"
<1>1. /\ coord.commitStarted => coord.phase \in {"committing", "repair_required"}
      /\ coord.phase \in Phases /\ pc = "down"
      /\ coord.scheduled => coord.phase = "draining"
    BY DEF TypeOK, Boot, At
<1>2. CASE ~ Exists(active)
    BY <1>1, <1>2 DEF Boot, Exists
<1>3. CASE Exists(active)
    <2>1. active' = active /\ active \notin {NoDir, EmptyDir}
        BY <1>3 DEF Boot
    <2>2. pc' = CASE coord.phase = "steady" /\ coord.rotated # None
                          -> "reinstate"
                     [] coord.phase = "steady" /\ coord.rotated = None
                          -> "idle"
                     [] coord.phase = "trial" -> "idle"
                     [] coord.phase = "draining" /\ coord.scheduled -> "idle"
                     [] coord.phase = "preparing" -> "recoverPreparation"
                     [] coord.phase = "discarding" -> "discard"
                     [] coord.commitStarted -> "recoverCommit"
                     [] OTHER -> "rollback"
        BY <1>3 DEF Boot
    <2>3. CASE coord.phase = "steady"
        BY <1>1, <2>1, <2>2, <2>3
    <2>4. CASE coord.phase = "trial"
        BY <1>1, <2>1, <2>2, <2>4
    <2>5. CASE coord.phase = "draining"
        BY <1>1, <2>1, <2>2, <2>5
    <2>6. CASE coord.phase = "preparing"
        BY <1>1, <2>1, <2>2, <2>6
    <2>7. CASE coord.phase = "discarding"
        BY <1>1, <2>1, <2>2, <2>7
    <2>8. CASE coord.phase \in {"transferring", "committing", "repair_required"}
        BY <1>1, <2>1, <2>2, <2>8
    <2> QED
        BY <1>1, <2>3, <2>4, <2>5, <2>6, <2>7, <2>8 DEF Phases
<1> QED
    BY <1>2, <1>3

LEMMA StepControl == ASSUME TypeOK, Control, [Next]_vars PROVE Control'
<1> DEFINE
      Where == /\ pc \in Quiet => Upd = None
               /\ pc \in Steps \ (Quiet \cup {"idle", "down"}) => Upd # None
               /\ pc \in {"rotate", "rotated"} => updates < MaxUpdates
               /\ pc \in {"prepare", "start", "publish", "ready", "abandon",
                          "recoverPreparation"} => coord.phase = "preparing"
               /\ pc \in Sealed \cup {"sealCandidate", "sealActive"} =>
                      coord.phase # "preparing"
               /\ pc \in {"commit", "own"} => coord.commitStarted
<1>a. /\ Where /\ pc \in Steps
      /\ (coord.phase = "steady") <=> (coord.update = None)
    BY TypeParts DEF Control, Valid, TypeControl, Upd
<1>b. pc \notin {"rotated", "idle", "unwound", "finish"} =>
          /\ UNCHANGED <<coord.update, updates>>
          /\ coord'.phase = "preparing" => coord.phase = "preparing"
    BY TransactionGoesOn
<1> HIDE DEF Where
<1>c. Where' => Control'
    BY StepNumbers DEF Control, Where
<1> USE <1>a, FailTargets DEF Sealed, Quiet, Steps, At, Goto, Done, Upd
<1>1. ASSUME RotateBegin PROVE Where'
    BY <1>1, TypeParts DEF Where, RotateBegin, CanPrepare, Valid, Coords, bounds
<1>2. ASSUME PrepareBegin PROVE Where'
    <2>1. updates + 1 # None
        BY BoundsAreNatural DEF TypeOK, Nodes, None
    <2> QED
        BY <1>2, <2>1, PrepareFields DEF Where
<1>3. ASSUME DiscardBegin PROVE Where'
    <2>1. coord'.update = coord.update /\ Upd # None
        BY <1>3, StatusFields DEF DiscardBegin
    <2> QED
        BY <1>3, <2>1 DEF Where, DiscardBegin
<1>4. ASSUME SchedulePromote PROVE Where'
    BY <1>4 DEF Where, SchedulePromote
<1>5. ASSUME RotateRecovery PROVE Where'
    BY <1>5, <1>b DEF Where, RotateRecovery
<1>6. ASSUME Unrotate PROVE Where'
    BY <1>6, <1>b DEF Where, Unrotate
<1>7. ASSUME RecordCandidate PROVE Where'
    <2>1. pc = "prepare" /\ pc' \in {"start", "idle"}
        BY <1>7 DEF RecordCandidate
    <2>2. pc' = "start" => UNCHANGED coord
        BY <1>7 DEF RecordCandidate
    <2> QED
        BY <1>b, <2>1, <2>2 DEF Where
<1>8. ASSUME StartCandidate PROVE Where'
    BY <1>8, <1>b DEF Where, StartCandidate
<1>9. ASSUME PublishCandidate PROVE Where'
    BY <1>9, <1>b DEF Where, PublishCandidate
<1>10. ASSUME CandidateReady PROVE Where'
    BY <1>10, <1>b DEF Where, CandidateReady
<1>11. ASSUME Prepared PROVE Where'
    BY <1>11, <1>b DEF Where, Prepared
<1>12. ASSUME Abandon PROVE Where'
    BY <1>12, <1>b DEF Where, Abandon
<1>13. ASSUME Unwind PROVE Where'
    BY <1>13 DEF Where, Unwind, MarkRepairRequired
<1>14. ASSUME DiscardCandidate PROVE Where'
    BY <1>14, <1>b DEF Where, DiscardCandidate
<1>15. ASSUME PromotionTimer PROVE Where'
    <2>1. coord'.update = coord.update /\ coord'.phase = "draining" /\ Upd # None
        BY <1>15, TypeParts DEF PromotionTimer, Valid, Coords
    <2> QED
        BY <1>15, <2>1 DEF Where, PromotionTimer
<1>16. ASSUME SealCandidate PROVE Where'
    BY <1>16, <1>b DEF Where, SealCandidate
<1>17. ASSUME SealActive PROVE Where'
    BY <1>17, <1>b DEF Where, SealActive
<1>18. ASSUME Drained PROVE Where'
    BY <1>18, <1>b DEF Where, Drained
<1>19. ASSUME BuildHandoff PROVE Where'
    BY <1>19, <1>b DEF Where, BuildHandoff
<1>20. ASSUME RecordHandoff PROVE Where'
    BY <1>20, <1>b DEF Where, RecordHandoff
<1>21. ASSUME StartValidation PROVE Where'
    BY <1>21, <1>b DEF Where, StartValidation
<1>22. ASSUME Validate PROVE Where'
    BY <1>22, <1>b DEF Where, Validate
<1>23. ASSUME Transferred PROVE Where'
    <2>1. coord'.commitStarted = TRUE
        BY <1>23, StatusFields DEF Transferred
    <2> QED
        BY <1>23, <1>b, <2>1 DEF Where, Transferred
<1>24. ASSUME CommitBegin PROVE Where'
    BY <1>24, <1>b DEF Where, CommitBegin
<1>25. ASSUME CommitOwnership PROVE Where'
    BY <1>25, <1>b DEF Where, CommitOwnership
<1>26. ASSUME Owned PROVE Where'
    BY <1>26, <1>b DEF Where, Owned
<1>27. ASSUME StopBoth PROVE Where'
    BY <1>27, <1>b DEF Where, StopBoth
<1>28. ASSUME ArchiveSource PROVE Where'
    BY <1>28, <1>b DEF Where, ArchiveSource
<1>29. ASSUME InstallHandoff PROVE Where'
    BY <1>29, <1>b DEF Where, InstallHandoff
<1>30. ASSUME RestartTracks PROVE Where'
    BY <1>30, <1>b DEF Where, RestartTracks
<1>31. ASSUME CompleteActivation PROVE Where'
    BY <1>31, <1>b DEF Where, CompleteActivation
<1>32. ASSUME Finish PROVE Where'
    <2>1. pc' = "idle" \/ (pc' \in {"recoverCommit", "rollback"} /\ UNCHANGED coord)
        BY <1>32, FinishFields DEF MarkRepairRequired
    <2>2. Upd # None
        BY <1>32 DEF Finish, Where
    <2> QED
        BY <2>1, <2>2 DEF Where
<1>33. ASSUME RecoverCommit PROVE Where'
    BY <1>33, <1>b DEF Where, RecoverCommit
<1>34. ASSUME Rollback PROVE Where'
    BY <1>34, <1>b DEF Where, Rollback
<1>35. ASSUME RestorePrior PROVE Where'
    BY <1>35, <1>b DEF Where, RestorePrior
<1>36. ASSUME RecordRestored PROVE Where'
    BY <1>36, <1>b DEF Where, RecordRestored
<1>37. ASSUME Boot PROVE Where'
    <2>1. UNCHANGED <<coord, updates>>
        BY <1>37 DEF Boot, bounds
    <2> QED
        BY <1>37, <2>1, BootTarget DEF Where
<1>38. ASSUME Reinstate PROVE Where'
    BY <1>38, <1>b DEF Where, Reinstate
<1>39. ASSUME RecoverPreparation PROVE Where'
    BY <1>39, <1>b DEF Where, RecoverPreparation
<1>40. ASSUME WorkOnActive PROVE Where'
    BY <1>40 DEF Where, WorkOnActive, bounds
<1>41. ASSUME WorkOnCandidate PROVE Where'
    BY <1>41 DEF Where, WorkOnCandidate, bounds
<1>42. ASSUME LateSeal PROVE Where'
    BY <1>42 DEF Where, LateSeal, bounds
<1>43. ASSUME Crash PROVE Where'
    BY <1>43 DEF Where, Crash, Down
<1>44. ASSUME Reload PROVE Where'
    BY <1>44 DEF Where, Reload, Down
<1>45. ASSUME UNCHANGED vars PROVE Where'
    BY <1>45 DEF Where, vars, bounds
<1> QED
    BY <1>c, <1>1, <1>2, <1>3, <1>4, <1>5, <1>6, <1>7, <1>8, <1>9, <1>10,
       <1>11, <1>12, <1>13, <1>14, <1>15, <1>16, <1>17, <1>18, <1>19,
       <1>20, <1>21, <1>22, <1>23, <1>24, <1>25, <1>26, <1>27, <1>28,
       <1>29, <1>30, <1>31, <1>32, <1>33, <1>34, <1>35, <1>36, <1>37,
       <1>38, <1>39, <1>40, <1>41, <1>42, <1>43, <1>44, <1>45
    DEF Next, SupervisorStep, PrepareStep, PromoteStep, RecoveryStep, Request,
        Environment

-----------------------------------------------------------------------------
(***************************************************************************)
(* The host's record, and the candidates that are gone.                    *)
(***************************************************************************)

\* A step that touches only the directories and the candidate of a recorded
\* transaction, besides stopping and removing what there is.
LEMMA RecordsKept ==
    ASSUME TypeOK, Control, Records,
           UNCHANGED <<coord.update, coord.active, updates, host.update,
                       host.source>>,
           host.phase # "none" => host'.phase # "none",
           \A c \in Updates :
               \/ c = Upd /\ Upd # None /\ Deployed
               \/ /\ candidate'[c] \in {candidate[c], "off"}
                  /\ trial'[c] \in {trial[c], NoDir}
                  /\ handoff'[c] \in {handoff[c], NoDir}
                  /\ archive'[c] = archive[c],
           pc' = "unwound" =>
               pc = "unwound" /\ UNCHANGED <<trial, handoff, candidate>>,
           pc' \in Recorded => Deployed,
           coord'.phase = "preparing" =>
               coord.phase = "preparing" /\ handoff'[Upd] = handoff[Upd]
    PROVE  Records'
<1>1. Deployed => Deployed'
    BY DEF Deployed, Upd
<1>2. \A c \in Updates \ {Upd} : Gone(c) => Gone(c)'
    BY DEF Gone
<1>3. Upd \in Updates /\ ~ Deployed /\ Gone(Upd) => Gone(Upd)'
    BY DEF Gone, Upd
<1>4. Upd # None => Upd \in Updates
    BY UpdateIndex
<1>5. \A c \in Updates : c > updates =>
          candidate'[c] = "off" /\ handoff'[c] = NoDir /\ archive'[c] = NoDir
    <2>1. \A c \in Updates : c > updates => c # Upd \/ Upd = None
        BY BoundsAreNatural DEF Control, TypeOK, Nodes, Updates, Upd
    <2> QED
        BY <2>1 DEF Records
<1>6. pc' = "unwound" => Gone(Upd)'
    BY DEF Records, Gone, Upd
<1> QED
    BY <1>1, <1>2, <1>3, <1>4, <1>5, <1>6 DEF Records, Upd

\* The same while no transaction runs, whatever the host's record says.
LEMMA RecordsQuiet ==
    ASSUME TypeOK, Records, Upd = None, Upd' = None,
           UNCHANGED <<updates, trial, handoff, archive, candidate>>,
           pc' \notin Recorded \cup {"unwound"}, coord'.phase # "preparing"
    PROVE  Records'
<1>1. \A c \in Updates : Gone(c) => Gone(c)'
    BY DEF Gone
<1> QED
    BY <1>1 DEF Records

\* A step after which the transaction's candidate is gone.
LEMMA RecordsGone ==
    ASSUME TypeOK, Control, Records, Upd \in Updates, Gone(Upd)',
           UNCHANGED <<coord.update, updates, handoff, archive>>,
           \A c \in Updates \ {Upd} :
               trial'[c] = trial[c] /\ candidate'[c] = candidate[c],
           pc' \notin Recorded,
           coord'.phase = "preparing" => coord.phase = "preparing"
    PROVE  Records'
<1>1. \A c \in Updates \ {Upd} : Gone(c) => Gone(c)'
    BY DEF Gone
<1>2. \A c \in Updates : c > updates => c # Upd
    BY BoundsAreNatural DEF Control, TypeOK, Nodes, Updates, Upd, None
<1> QED
    BY <1>1, <1>2 DEF Records, Upd

\* A step that ends the transaction, whose candidate is gone.
LEMMA RecordsClosed ==
    ASSUME TypeOK, Records, Upd' = None, Gone(Upd),
           UNCHANGED <<updates, trial, handoff, archive, candidate>>,
           pc' = "idle", coord'.phase = "steady"
    PROVE  Records'
<1>1. \A c \in Updates : Gone(c)'
    BY DEF Gone, Records
<1> QED
    BY <1>1, BoundsAreNatural DEF Records, Recorded, Sealed

LEMMA StepRecords ==
    ASSUME TypeOK, Control, Records, Ownership, Data, [Next]_vars
    PROVE  Records'
<1>a. /\ trial \in [Updates -> Dirs] /\ handoff \in [Updates -> Dirs]
      /\ archive \in [Updates -> Dirs] /\ host \in Hosts
      /\ candidate \in [Updates -> {"off", "open", "fenced"}]
      /\ Upd # None => Upd \in Updates
    BY UpdateIndex DEF TypeOK
<1>b. pc \in Recorded => Deployed
    BY DEF Records
<1>c. pc \notin Quiet \cup {"idle", "down"} => Upd # None
    BY DEF Control, TypeOK
<1>d. pc \notin {"rotated", "idle", "unwound", "finish"} =>
          /\ UNCHANGED <<coord.update, coord.active, updates>>
          /\ coord'.phase = "preparing" => coord.phase = "preparing"
    BY TransactionGoesOn
<1> USE DEF Recorded, Sealed, Quiet, At, Goto, Done, files, services, bounds
<1>1. CASE RotateBegin
    BY <1>1, <1>a, RecordsKept DEF RotateBegin
<1>2. CASE PrepareBegin
    <2>1. Upd = None
        BY <1>2 DEF PrepareBegin, CanPrepare, Control
    <2>2. /\ Upd' = updates + 1 /\ updates' = updates + 1 /\ pc' = "prepare"
          /\ UNCHANGED <<trial, handoff, archive, candidate>>
        BY <1>2, PrepareFields DEF PrepareBegin, Upd
    <2>3. \A c \in Updates : Gone(c)'
        BY <2>1, <2>2, BoundsAreNatural DEF Records, Gone, Updates, None
    <2>4. Upd' \in Updates /\ updates \in Nat /\ Upd' > updates
        BY <1>2, <2>2, BoundsAreNatural DEF TypeOK, Nodes, Updates, PrepareBegin,
                                           CanPrepare, Control
    <2>5. \A c \in Updates : c > updates' => c > updates
        BY <2>2, <2>4, BoundsAreNatural DEF Updates
    <2> QED
        BY <2>2, <2>3, <2>4, <2>5 DEF Records
<1>3. CASE DiscardBegin
    <2>1. coord'.phase = "discarding" /\ UNCHANGED <<coord.update, coord.active>>
        BY <1>3, StatusFields DEF DiscardBegin
    <2> QED
        BY <1>3, <2>1, <1>a, RecordsKept DEF DiscardBegin
<1>4. CASE SchedulePromote
    BY <1>4, <1>a, RecordsKept DEF SchedulePromote
<1>5. CASE RotateRecovery
    BY <1>5, <1>a, <1>b, <1>c, <1>d, RecordsKept, FailTargets, HostFields DEF RotateRecovery
<1>6. CASE Unrotate
    <2>1. Upd = None /\ Upd' = None /\ coord'.phase # "preparing"
        BY <1>6, <1>d, TypeParts DEF Unrotate, Control, Valid, Upd
    <2> QED
        BY <1>6, <1>d, <2>1, RecordsQuiet DEF Unrotate
<1>7. CASE RecordCandidate
    <2>1. CASE MarkRepairRequired(FALSE) /\ UNCHANGED host
        BY <1>7, <2>1, <1>a, <1>d, FailTargets, RecordsKept DEF RecordCandidate
    <2>2. CASE host' = [phase |-> "preparing", update |-> Upd,
                        source |-> coord.active, keeps |-> FALSE]
        <3>1. /\ host'.phase = "preparing" /\ host'.update = Upd
              /\ host'.source = coord.active
            BY <2>2
        <3>2. Deployed' /\ Upd' = Upd
            BY <1>7, <1>d, <3>1 DEF RecordCandidate, Deployed, Upd
        <3>3. /\ UNCHANGED <<trial, handoff, archive, candidate, updates>>
              /\ pc' # "unwound"
              /\ coord'.phase = "preparing" => coord.phase = "preparing"
            BY <1>7, <1>d, FailTargets DEF RecordCandidate
        <3>4. \A c \in Updates : Gone(c) => Gone(c)'
            BY <3>3 DEF Gone
        <3> QED
            BY <3>2, <3>3, <3>4 DEF Records
    <2> QED
        BY <1>7, <2>1, <2>2 DEF RecordCandidate
<1>8. CASE StartCandidate
    BY <1>8, <1>a, <1>b, <1>c, <1>d, RecordsKept, FailTargets, HostFields DEF StartCandidate
<1>9. CASE PublishCandidate
    BY <1>9, <1>a, <1>b, <1>c, <1>d, RecordsKept, FailTargets, HostFields DEF PublishCandidate
<1>10. CASE CandidateReady
    BY <1>10, <1>a, <1>b, <1>c, <1>d, RecordsKept, FailTargets, HostFields DEF CandidateReady
<1>11. CASE Prepared
    BY <1>11, <1>a, <1>b, <1>c, <1>d, RecordsKept, FailTargets, HostFields DEF Prepared
<1>12. CASE Abandon
    <2>1. Upd \in Updates /\ handoff[Upd] = NoDir
        BY <1>12, <1>a, <1>c DEF Abandon, Records, Control
    <2>2. Gone(Upd)'
        BY <1>12, <1>a, <1>d, <2>1 DEF Abandon, Gone, Upd
    <2> QED
        BY <1>12, <1>a, <1>d, <2>1, <2>2, RecordsGone DEF Abandon
<1>13. CASE Unwind
    <2>1. CASE ReturnToSteady
        <3>1. coord'.phase = "steady" /\ Upd' = None
            BY <2>1, SteadyFields DEF Upd
        <3>2. UNCHANGED <<updates, trial, handoff, archive, candidate>> /\ pc' = "idle"
            BY <1>13 DEF Unwind, RestoreRecoveryThrows, Fails, MarkRepairRequired
        <3>3. Gone(Upd)
            BY <1>13 DEF Unwind, Records
        <3> QED
            BY <3>1, <3>2, <3>3, RecordsClosed
    <2>2. CASE ~ ReturnToSteady
        <3>1. RestoreRecoveryThrows(coord.rotated)
                /\ (Status("trial", FALSE) \/ Status("repair_required", FALSE))
            BY <1>13, <2>2 DEF Unwind, MarkRepairRequired
        <3>2. /\ UNCHANGED <<coord.update, coord.active>>
              /\ coord'.phase \in {"trial", "repair_required"}
            <4>1. CASE Status("trial", FALSE)
                BY <4>1, StatusFields
            <4>2. CASE Status("repair_required", FALSE)
                BY <4>2, StatusFields
            <4> QED
                BY <3>1, <4>1, <4>2
        <3>3. UNCHANGED <<updates, host>>
            BY <3>1 DEF RestoreRecoveryThrows, Fails
        <3>4. UNCHANGED <<trial, handoff, archive, candidate>> /\ pc' = "idle"
            BY <1>13 DEF Unwind, MarkRepairRequired
        <3> QED
            BY <3>2, <3>3, <3>4, RecordsKept
    <2> QED
        BY <2>1, <2>2
<1>14. CASE DiscardCandidate
    <2>0. Upd \in Updates
        BY <1>14, <1>a, <1>c DEF DiscardCandidate
    <2>1. CASE host.phase = "none" /\ UNCHANGED <<trial, candidate>>
        <3>1. Gone(Upd)
            BY <2>0, <2>1, BoundsAreNatural DEF Records, Deployed, Updates, None
        <3>2. Gone(Upd)'
            BY <1>14, <1>d, <2>1, <3>1 DEF DiscardCandidate, Gone, Upd
        <3>3. pc' \notin Recorded
            BY <1>14, FailTargets DEF DiscardCandidate
        <3> QED
            BY <1>14, <1>d, <2>0, <2>1, <3>2, <3>3, RecordsGone DEF DiscardCandidate
    <2>2. CASE /\ candidate' = [candidate EXCEPT ![Upd] = "off"]
               /\ trial' = [trial EXCEPT ![Upd] = NoDir]
        <3>1. Gone(Upd)'
            BY <1>14, <1>a, <1>d, <2>0, <2>2 DEF DiscardCandidate, Gone, Upd
        <3>2. pc' \notin Recorded
            BY <1>14, FailTargets DEF DiscardCandidate
        <3> QED
            BY <1>14, <1>a, <1>d, <2>0, <2>2, <3>1, <3>2, RecordsGone DEF DiscardCandidate
    <2>3. CASE /\ UNCHANGED <<host, trial>> /\ pc' = "idle"
               /\ \/ UNCHANGED candidate
                  \/ candidate' = [candidate EXCEPT ![Upd] = "off"]
        BY <1>14, <1>a, <1>d, <2>3, RecordsKept DEF DiscardCandidate
    <2> QED
        BY <1>14, <2>1, <2>2, <2>3, FailTargets DEF DiscardCandidate
<1>15. CASE PromotionTimer
    BY <1>15, <1>a, RecordsKept DEF PromotionTimer
<1>16. CASE SealCandidate
    BY <1>16, <1>a, <1>b, <1>c, <1>d, RecordsKept, FailTargets, HostFields DEF SealCandidate
<1>17. CASE SealActive
    BY <1>17, <1>a, <1>b, <1>c, <1>d, RecordsKept, FailTargets, HostFields DEF SealActive
<1>18. CASE Drained
    BY <1>18, <1>a, <1>b, <1>c, <1>d, RecordsKept, FailTargets, HostFields DEF Drained
<1>19. CASE BuildHandoff
    <2>1. coord'.phase # "preparing" /\ Upd # None /\ Deployed
        BY <1>19, <1>b, <1>c, <1>d DEF BuildHandoff, Control
    <2> QED
        BY <1>19, <2>1, <1>a, <1>d, FailTargets, RecordsKept DEF BuildHandoff
<1>20. CASE RecordHandoff
    BY <1>20, <1>a, <1>b, <1>c, <1>d, RecordsKept, FailTargets, HostFields DEF RecordHandoff
<1>21. CASE StartValidation
    BY <1>21, <1>a, <1>b, <1>c, <1>d, RecordsKept, FailTargets, HostFields DEF StartValidation
<1>22. CASE Validate
    BY <1>22, <1>a, <1>b, <1>c, <1>d, RecordsKept, FailTargets, HostFields DEF Validate
<1>23. CASE Transferred
    BY <1>23, <1>a, <1>b, <1>c, <1>d, RecordsKept, FailTargets, HostFields DEF Transferred
<1>24. CASE CommitBegin
    BY <1>24, <1>a, <1>b, <1>c, <1>d, RecordsKept, FailTargets, HostFields DEF CommitBegin
<1>25. CASE CommitOwnership
    <2>1. coord'.phase # "preparing" /\ Upd # None /\ Deployed
        BY <1>25, <1>b, <1>c, <1>d DEF CommitOwnership, Control
    <2> QED
        BY <1>25, <2>1, <1>a, <1>d, FailTargets, RecordsKept DEF CommitOwnership
<1>26. CASE Owned
    BY <1>26, <1>a, <1>b, <1>c, <1>d, RecordsKept, FailTargets, HostFields DEF Owned
<1>27. CASE StopBoth
    BY <1>27, <1>a, <1>b, <1>c, <1>d, RecordsKept, FailTargets, HostFields DEF StopBoth
<1>28. CASE ArchiveSource
    <2>1. Upd # None /\ Deployed
        BY <1>28, <1>c DEF ArchiveSource, Ownership, Activating
    <2> QED
        BY <1>28, <2>1, <1>a, <1>d, HostFields, RecordsKept DEF ArchiveSource
<1>29. CASE InstallHandoff
    <2>1. Upd # None /\ Deployed
        BY <1>29, <1>c DEF InstallHandoff, Ownership, Activating
    <2>2. coord.phase # "preparing"
        BY <1>29, TypeParts DEF InstallHandoff, Ownership, Activating, Valid
    <2>3. pc' \notin Recorded \cup {"unwound"}
        BY <1>29, FailTargets DEF InstallHandoff
    <2>4. /\ host' = host /\ UNCHANGED <<trial, archive, candidate>>
          /\ \A c \in Updates \ {Upd} : handoff'[c] = handoff[c]
        BY <1>29, <1>a DEF InstallHandoff
    <2>5. pc \notin {"rotated", "idle", "unwound", "finish"}
        BY <1>29 DEF InstallHandoff
    <2> QED
        BY <2>1, <2>2, <2>3, <2>4, <2>5, <1>a, <1>d, RecordsKept
<1>30. CASE RestartTracks
    BY <1>30, <1>a, <1>b, <1>c, <1>d, RecordsKept, FailTargets, HostFields DEF RestartTracks
<1>31. CASE CompleteActivation
    <2>1. Upd # None /\ Deployed
        BY <1>31, <1>c DEF CompleteActivation, Ownership, Activating
    <2> QED
        BY <1>31, <2>1, <1>a, <1>d, HostFields, RecordsKept DEF CompleteActivation
<1>32. CASE Finish
    <2>1. Gone(Upd) /\ coord.phase # "preparing" /\ Upd # None
        BY <1>32, <1>c, TypeParts DEF Finish, Ownership, Activating, Data, Gone, Valid
    <2>2. UNCHANGED <<updates, trial, handoff, archive, candidate, host>>
        BY <1>32 DEF Finish, Fails
    <2>3. CASE coord'.phase = "steady" /\ coord'.update = None /\ pc' = "idle"
        BY <2>1, <2>2, <2>3, RecordsClosed DEF Upd
    <2>4. CASE UNCHANGED coord /\ (pc' = "idle" \/ Failed)
        BY <2>1, <2>2, <2>4, FailTargets, RecordsKept
    <2>5. CASE MarkRepairRequired(TRUE)
        <3>1. /\ UNCHANGED <<coord.update, coord.active>>
              /\ coord'.phase = "repair_required" /\ pc' = "idle"
            BY <2>5, RepairFields
        <3> QED
            BY <2>2, <3>1, RecordsKept
    <2> QED
        BY <1>32, <2>3, <2>4, <2>5, FinishFields
<1>33. CASE RecoverCommit
    BY <1>33, <1>a, <1>b, <1>c, <1>d, RecordsKept, FailTargets, HostFields DEF RecoverCommit
<1>34. CASE Rollback
    <2>1. \A c \in Updates : /\ candidate'[c] \in {candidate[c], "off"}
                              /\ handoff'[c] \in {handoff[c], NoDir}
        BY <1>34, <1>a DEF Rollback
    <2>2. pc' = "idle" \/ (pc' = "restore" /\ Deployed)
        BY <1>34, FailTargets DEF Rollback
    <2>3. coord.phase # "preparing" \/ handoff'[Upd] = handoff[Upd]
        <3>1. Upd \in Updates
            BY <1>34, <1>a, <1>c DEF Rollback
        <3> QED
            BY <1>34, <1>a, <3>1 DEF Rollback, Records
    <2>4. UNCHANGED <<host, trial, archive>> /\ pc = "rollback"
        BY <1>34 DEF Rollback
    <2> QED
        BY <1>d, <2>1, <2>2, <2>3, <2>4, RecordsKept
<1>35. CASE RestorePrior
    BY <1>35, <1>a, <1>b, <1>c, <1>d, RecordsKept, FailTargets, HostFields DEF RestorePrior
<1>36. CASE RecordRestored
    BY <1>36, <1>a, <1>b, <1>c, <1>d, RecordsKept, FailTargets, HostFields DEF RecordRestored
<1>37. CASE Boot
    BY <1>37, <1>a, <1>b, <1>c, <1>d, RecordsKept, FailTargets, HostFields DEF Boot
<1>38. CASE Reinstate
    <2>1. Upd = None /\ Upd' = None /\ coord'.phase # "preparing"
        BY <1>38, <1>d, TypeParts DEF Reinstate, Control, Valid, Upd
    <2> QED
        BY <1>38, <1>d, <2>1, RecordsQuiet DEF Reinstate
<1>39. CASE RecoverPreparation
    <2>0. Upd \in Updates /\ handoff[Upd] = NoDir
        BY <1>39, <1>a, <1>c DEF RecoverPreparation, Records, Control
    <2>1. CASE ~ Deployed /\ UNCHANGED <<trial, candidate>> /\ pc' = "unwound"
        <3>1. Gone(Upd)
            BY <2>0, <2>1, BoundsAreNatural DEF Records, Updates, None
        <3>2. Gone(Upd)'
            BY <1>39, <1>d, <2>1, <3>1 DEF RecoverPreparation, Gone, Upd
        <3> QED
            BY <1>39, <1>d, <2>0, <2>1, <3>2, RecordsGone DEF RecoverPreparation
    <2>2. CASE UNCHANGED <<host, trial, candidate>> /\ pc' = "idle"
        BY <1>39, <1>d, <2>2, RecordsKept DEF RecoverPreparation
    <2>3. CASE /\ trial' = [trial EXCEPT ![Upd] = NoDir] /\ pc' = "unwound"
               /\ \/ UNCHANGED candidate
                  \/ candidate' = [candidate EXCEPT ![Upd] = "off"]
        <3>1. Gone(Upd)'
            BY <1>39, <1>a, <1>d, <2>0, <2>3 DEF RecoverPreparation, Gone, Upd
        <3> QED
            BY <1>39, <1>a, <1>d, <2>0, <2>3, <3>1, RecordsGone DEF RecoverPreparation
    <2> QED
        BY <1>39, <2>1, <2>2, <2>3, FailTargets DEF RecoverPreparation, Deployed
<1>40. CASE WorkOnActive
    BY <1>40, <1>a, <1>b, <1>c, <1>d, RecordsKept, FailTargets, HostFields DEF WorkOnActive
<1>41. CASE WorkOnCandidate
    <2>1. PICK c \in Updates : /\ Exists(trial[c])
                               /\ \A d \in Updates \ {c} : trial'[d] = trial[d]
        BY <1>41, <1>a DEF WorkOnCandidate
    <2>2. c = Upd /\ Upd # None /\ Deployed /\ pc # "unwound"
        BY <2>1, BoundsAreNatural DEF Records, Gone, Exists, Updates, None
    <2>3. UNCHANGED <<coord, pc, host, updates, handoff, archive, candidate>>
        BY <1>41 DEF WorkOnCandidate
    <2> QED
        BY <2>1, <2>2, <2>3, <1>b, RecordsKept
<1>42. CASE LateSeal
    BY <1>42, <1>a, <1>b, <1>c, <1>d, RecordsKept, FailTargets, HostFields DEF LateSeal
<1>43. CASE Crash
    BY <1>43, <1>a, <1>b, <1>c, <1>d, RecordsKept, FailTargets, HostFields DEF Crash, Down
<1>44. CASE Reload
    BY <1>44, <1>a, <1>b, <1>c, <1>d, RecordsKept, FailTargets, HostFields DEF Reload, Down
<1>45. CASE UNCHANGED vars
    BY <1>45, <1>b, RecordsKept DEF vars
<1> QED
    BY <1>1, <1>2, <1>3, <1>4, <1>5, <1>6, <1>7, <1>8, <1>9, <1>10, <1>11,
       <1>12, <1>13, <1>14, <1>15, <1>16, <1>17, <1>18, <1>19, <1>20,
       <1>21, <1>22, <1>23, <1>24, <1>25, <1>26, <1>27, <1>28, <1>29,
       <1>30, <1>31, <1>32, <1>33, <1>34, <1>35, <1>36, <1>37, <1>38,
       <1>39, <1>40, <1>41, <1>42, <1>43, <1>44, <1>45
    DEF Next, SupervisorStep, PrepareStep, PromoteStep, RecoveryStep, Request,
        Environment

-----------------------------------------------------------------------------
(***************************************************************************)
(* Ownership.                                                              *)
(***************************************************************************)

\* Before the ownership commit the active directory is the old node's, and
\* no merged directory has a promoted owner.
LEMMA NotMoved ==
    ASSUME TypeOK, Ownership, ~ Moved
    PROVE  /\ active.node = coord.active /\ active \notin {NoDir, EmptyDir}
           /\ \A c \in Updates : ~ handoff[c].promoted
           /\ pc \notin Activating
           /\ Upd # None /\ host.update = Upd => ~ CommittedPhase
           /\ Upd # None => archive[Upd] = NoDir
           /\ \A n \in retired : n < coord.active
<1>1. active.node = coord.active
    BY DEF Ownership, Moved, Installed
<1>2. active \notin {NoDir, EmptyDir}
    BY <1>1, Directories, BoundsAreNatural DEF TypeOK, Nodes
<1>3. \A c \in Updates : c # None
    BY DEF Updates, None
<1> QED
    BY <1>1, <1>2, <1>3 DEF Ownership, Moved, Installed

\* A step before the ownership commit that does not commit.
LEMMA OwnershipBefore ==
    ASSUME TypeOK, Ownership, ~ Moved,
           UNCHANGED <<coord.update, coord.active, retired, archive,
                       active.node>>,
           \A c \in Updates : ~ handoff'[c].promoted,
           pc' \notin Activating,
           \/ Upd = None \/ UNCHANGED host
           \/ host'.phase \notin {"ownership_committed", "complete"}
    PROVE  Ownership'
<1>1. /\ active.node = coord.active
      /\ \A n \in retired : n < coord.active
      /\ Upd # None => archive[Upd] = NoDir
    BY NotMoved
<1>2. ~ Moved'
    BY UpdateIndex DEF Moved, Upd, Installed
<1>3. Upd' = Upd
    BY DEF Upd
<1>4. pc' \notin {"restart", "complete", "finish", "install"}
    BY DEF Activating
<1>5. ~ Installed'
    BY <1>2 DEF Moved, Installed
<1>6. Upd # None /\ host'.update = Upd => ~ CommittedPhase'
    BY <1>3, NotMoved DEF CommittedPhase
<1> QED
    BY <1>1, <1>2, <1>3, <1>4, <1>5, <1>6 DEF Ownership

\* A step after it, which leaves the directories alone.
LEMMA OwnershipAfter ==
    ASSUME TypeOK, Ownership, Moved,
           UNCHANGED <<coord.update, coord.active, retired, archive, handoff,
                       active, host.update, host.source>>,
           host'.phase # "none", coord'.commitStarted,
           candidate'[Upd] = "off", main' = "open" => Installed,
           pc' \in Activating \cup {"recoverCommit", "idle", "down"},
           pc' \in {"restart", "complete", "finish"} => Installed,
           pc' = "install" => Installed \/ active = NoDir,
           active \in {NoDir, EmptyDir} => pc' \in {"install", "down"}
    PROVE  Ownership'
<1>1. Upd' = Upd
    BY DEF Upd
<1>2. (Moved' <=> Moved) /\ (Installed' <=> Installed)
    BY <1>1 DEF Moved, Installed
<1>3. Deployed'
    BY <1>1 DEF Ownership, Deployed
<1> QED
    BY <1>1, <1>2, <1>3 DEF Ownership

LEMMA StepOwnership ==
    ASSUME TypeOK, Control, Records, Ownership, Stopped, Data,
           [Next]_vars
    PROVE  Ownership'
<1>a. /\ handoff \in [Updates -> Dirs] /\ archive \in [Updates -> Dirs]
      /\ active \in Dirs /\ host \in Hosts
      /\ candidate \in [Updates -> {"off", "open", "fenced"}]
      /\ Upd # None => Upd \in Updates
      /\ NoDir.promoted = FALSE
    BY UpdateIndex, Directories DEF TypeOK
<1>b. ~ Moved =>
          /\ active.node = coord.active /\ active \notin {NoDir, EmptyDir}
          /\ \A c \in Updates : ~ handoff[c].promoted
          /\ Upd # None /\ host.update = Upd => ~ CommittedPhase
    BY NotMoved
<1>c. Moved => /\ pc \in Activating \cup {"recoverCommit", "idle", "down"}
               /\ coord.commitStarted /\ Upd # None /\ Deployed
               /\ coord.phase \in {"committing", "repair_required"}
               /\ host.phase # "none" /\ host.update = Upd
               /\ candidate[Upd] = "off" /\ (main = "open" => Installed)
    BY TypeParts DEF Ownership, Moved, Valid, Deployed
<1>d. pc \notin {"rotated", "idle", "unwound", "finish"} =>
          UNCHANGED <<coord.update, coord.active>>
    BY TransactionGoesOn
<1>e. pc \in Quiet => Upd = None /\ ~ Moved
    BY DEF Control, Moved
<1>f. pc \in Activating => Moved
    BY DEF Ownership
<1>g. active \in {NoDir, EmptyDir} => pc \in {"install", "down"} /\ ~ Installed
    <2>1. \A n \in Nodes : n # NoDir.node /\ n # EmptyDir.node
        BY Directories, BoundsAreNatural DEF Nodes
    <2>2. Upd \in Nodes /\ coord.active \in Nodes
        BY DEF TypeOK, Upd
    <2> QED
        BY <2>1, <2>2 DEF Ownership, Installed
<1>h. pc \in {"restart", "complete", "finish"} => Installed
    BY DEF Ownership
<1>i. pc \in {"owned", "activate", "archive", "install", "restart", "complete",
              "finish"} <=> pc \in Activating
    BY DEF Activating
<1> USE <1>a, <1>c, <1>i DEF At, Goto, Done, files, services, history, bounds
<1>1. CASE RotateBegin
    <2>1. ~ Moved
        BY <1>1, <1>e DEF RotateBegin, Activating, Quiet, CanPrepare
    <2> QED
        BY <1>1, <2>1, <1>b, <1>d, HostFields, FailTargets, OwnershipBefore
        DEF RotateBegin, Activating, CanPrepare
<1>2. CASE PrepareBegin
    <2>1. Upd = None /\ ~ Moved
        BY <1>2 DEF PrepareBegin, CanPrepare, Control, Moved, Quiet
    <2>2. /\ Upd' = updates + 1 /\ updates' = updates + 1 /\ pc' = "prepare"
          /\ UNCHANGED <<active, handoff, archive, retired, host, coord.active>>
        BY <1>2, PrepareFields DEF PrepareBegin, Upd
    <2>3. /\ active.node = coord.active /\ \A c \in Updates : ~ handoff[c].promoted
          /\ \A m \in retired : m < coord.active
        BY <2>1, NotMoved
    <2>4. updates \in Nat /\ coord.active \in Nat /\ host.update \in Nat
        BY BoundsAreNatural DEF TypeOK, Nodes, Hosts
    <2>5. coord.active # Upd' /\ host.update # Upd' /\ Upd' # None /\ Upd' \in Updates
        BY <1>2, <2>2, <2>4, BoundsAreNatural DEF Control, None, Updates, PrepareBegin,
                                                 CanPrepare
    <2>6. archive[Upd'] = NoDir
        BY <2>2, <2>4, <2>5 DEF Records
    <2>7. ~ Moved' /\ ~ Installed'
        BY <2>2, <2>3, <2>5 DEF Moved, Installed
    <2> QED
        BY <2>2, <2>3, <2>5, <2>6, <2>7 DEF Ownership, Activating
<1>3. CASE DiscardBegin
    <2>1. ~ Moved /\ UNCHANGED <<coord.update, coord.active>>
        BY <1>3, StatusFields DEF DiscardBegin
    <2> QED
        BY <1>3, <2>1, <1>b, OwnershipBefore DEF DiscardBegin, Activating
<1>4. CASE SchedulePromote
    <2>1. ~ Moved
        BY <1>4, <1>e DEF SchedulePromote, Activating, Quiet
    <2> QED
        BY <1>4, <2>1, <1>b, <1>d, HostFields, FailTargets, OwnershipBefore
        DEF SchedulePromote, Activating
<1>5. CASE RotateRecovery
    <2>1. ~ Moved
        BY <1>5, <1>e DEF RotateRecovery, Activating, Quiet
    <2> QED
        BY <1>5, <2>1, <1>b, <1>d, HostFields, FailTargets, OwnershipBefore
        DEF RotateRecovery, Activating
<1>6. CASE Unrotate
    <2>1. Upd = None /\ ~ Moved
        BY <1>6, <1>e DEF Unrotate, Quiet
    <2> QED
        BY <1>6, <2>1, <1>b, <1>d, OwnershipBefore DEF Unrotate, Activating
<1>7. CASE RecordCandidate
    <2>1. ~ Moved /\ pc = "prepare" /\ pc' \in {"idle", "start"}
        BY <1>7, FailTargets DEF RecordCandidate, Activating
    <2>2. UNCHANGED host \/ host'.phase \notin {"ownership_committed", "complete"}
        <3>1. CASE host' = [phase |-> "preparing", update |-> Upd,
                            source |-> coord.active, keeps |-> FALSE]
            BY <3>1
        <3> QED
            BY <1>7, <3>1 DEF RecordCandidate
    <2>3. UNCHANGED <<retired, archive, active, handoff>>
        BY <1>7 DEF RecordCandidate
    <2> QED
        BY <2>1, <2>2, <2>3, <1>b, <1>d, OwnershipBefore DEF Activating
<1>8. CASE StartCandidate
    <2>1. ~ Moved
        BY <1>8, <1>e DEF StartCandidate, Activating, Quiet
    <2> QED
        BY <1>8, <2>1, <1>b, <1>d, HostFields, FailTargets, OwnershipBefore
        DEF StartCandidate, Activating
<1>9. CASE PublishCandidate
    <2>1. ~ Moved
        BY <1>9, <1>e DEF PublishCandidate, Activating, Quiet
    <2> QED
        BY <1>9, <2>1, <1>b, <1>d, HostFields, FailTargets, OwnershipBefore
        DEF PublishCandidate, Activating
<1>10. CASE CandidateReady
    <2>1. ~ Moved
        BY <1>10, <1>e DEF CandidateReady, Activating, Quiet
    <2> QED
        BY <1>10, <2>1, <1>b, <1>d, HostFields, FailTargets, OwnershipBefore
        DEF CandidateReady, Activating
<1>11. CASE Prepared
    <2>1. ~ Moved
        BY <1>11, <1>e DEF Prepared, Activating, Quiet
    <2> QED
        BY <1>11, <2>1, <1>b, <1>d, HostFields, FailTargets, OwnershipBefore
        DEF Prepared, Activating
<1>12. CASE Abandon
    <2>1. ~ Moved
        BY <1>12, <1>e DEF Abandon, Activating, Quiet
    <2> QED
        BY <1>12, <2>1, <1>b, <1>d, HostRecords, FailTargets, OwnershipBefore
        DEF Abandon, Activating
<1>13. CASE Unwind
    <2>1. ~ Moved /\ pc' = "idle"
        BY <1>13, FailTargets DEF Unwind, Activating, MarkRepairRequired
    <2>2. UNCHANGED <<active, handoff, archive, retired>>
        BY <1>13 DEF Unwind
    <2>3. CASE ReturnToSteady
        <3>1. Upd' = None /\ coord'.active = coord.active
            BY <2>3, SteadyFields DEF Upd
        <3>2. ~ Moved' /\ ~ Installed'
            BY <3>1 DEF Moved, Installed
        <3>3. /\ active.node = coord.active /\ \A c \in Updates : ~ handoff[c].promoted
              /\ \A m \in retired : m < coord.active
            BY <2>1, NotMoved
        <3> QED
            BY <2>1, <2>2, <3>1, <3>2, <3>3 DEF Ownership, Activating
    <2>4. CASE ~ ReturnToSteady
        <3>1. RestoreRecoveryThrows(coord.rotated)
                /\ (Status("trial", FALSE) \/ Status("repair_required", FALSE))
            BY <1>13, <2>4 DEF Unwind, MarkRepairRequired
        <3>2. UNCHANGED <<coord.update, coord.active>>
            <4>1. CASE Status("trial", FALSE)
                BY <4>1, StatusFields
            <4>2. CASE Status("repair_required", FALSE)
                BY <4>2, StatusFields
            <4> QED
                BY <3>1, <4>1, <4>2
        <3>3. UNCHANGED host
            BY <3>1 DEF RestoreRecoveryThrows
        <3> QED
            BY <2>1, <2>2, <3>2, <3>3, <1>b, OwnershipBefore DEF Activating
    <2> QED
        BY <2>3, <2>4
<1>14. CASE DiscardCandidate
    <2>1. ~ Moved
        BY <1>14, <1>e DEF DiscardCandidate, Activating, Quiet
    <2> QED
        BY <1>14, <2>1, <1>b, <1>d, HostRecords, FailTargets, OwnershipBefore
        DEF DiscardCandidate, Activating
<1>15. CASE PromotionTimer
    <2>1. ~ Moved
        BY <1>15, <1>e DEF PromotionTimer, Activating, Quiet
    <2> QED
        BY <1>15, <2>1, <1>b, <1>d, HostFields, FailTargets, OwnershipBefore
        DEF PromotionTimer, Activating
<1>16. CASE SealCandidate
    <2>1. ~ Moved
        BY <1>16, <1>e DEF SealCandidate, Activating, Quiet
    <2> QED
        BY <1>16, <2>1, <1>b, <1>d, HostFields, FailTargets, OwnershipBefore
        DEF SealCandidate, Activating
<1>17. CASE SealActive
    <2>1. ~ Moved
        BY <1>17, <1>e DEF SealActive, Activating, Quiet
    <2> QED
        BY <1>17, <2>1, <1>b, <1>d, HostFields, FailTargets, OwnershipBefore
        DEF SealActive, Activating
<1>18. CASE Drained
    <2>1. ~ Moved
        BY <1>18, <1>e DEF Drained, Activating, Quiet
    <2> QED
        BY <1>18, <2>1, <1>b, <1>d, HostFields, FailTargets, OwnershipBefore
        DEF Drained, Activating
<1>19. CASE BuildHandoff
    <2>1. ~ Moved
        BY <1>19, <1>e DEF BuildHandoff, Activating, Quiet, Dir
    <2> QED
        BY <1>19, <2>1, <1>b, <1>d, HostFields, FailTargets, OwnershipBefore
        DEF BuildHandoff, Activating, Dir
<1>20. CASE RecordHandoff
    <2>1. ~ Moved
        BY <1>20, <1>e DEF RecordHandoff, Activating, Quiet
    <2> QED
        BY <1>20, <2>1, <1>b, <1>d, HostFields, FailTargets, OwnershipBefore
        DEF RecordHandoff, Activating
<1>21. CASE StartValidation
    <2>1. ~ Moved
        BY <1>21, <1>e DEF StartValidation, Activating, Quiet
    <2> QED
        BY <1>21, <2>1, <1>b, <1>d, HostFields, FailTargets, OwnershipBefore
        DEF StartValidation, Activating
<1>22. CASE Validate
    <2>1. ~ Moved
        BY <1>22, <1>e DEF Validate, Activating, Quiet
    <2> QED
        BY <1>22, <2>1, <1>b, <1>d, HostFields, FailTargets, OwnershipBefore
        DEF Validate, Activating
<1>23. CASE Transferred
    <2>1. ~ Moved
        BY <1>23, <1>e DEF Transferred, Activating, Quiet
    <2> QED
        BY <1>23, <2>1, <1>b, <1>d, HostFields, FailTargets, OwnershipBefore
        DEF Transferred, Activating
<1>24. CASE CommitBegin
    <2>1. ~ Moved
        BY <1>24, <1>e DEF CommitBegin, Activating, Quiet
    <2> QED
        BY <1>24, <2>1, <1>b, <1>d, HostFields, FailTargets, OwnershipBefore
        DEF CommitBegin, Activating
<1>25. CASE CommitOwnership
    <2>0. pc = "own" /\ ~ Moved
        BY <1>25 DEF CommitOwnership, Activating
    <2>1. CASE Failed /\ UNCHANGED <<handoff, retired>>
        BY <1>25, <2>0, <2>1, <1>b, <1>d, FailTargets, OwnershipBefore
        DEF CommitOwnership, Activating
    <2>2. CASE /\ handoff' = [handoff EXCEPT ![Upd].promoted = TRUE]
               /\ retired' = retired \cup {host.source} /\ pc' = "owned"
        <3>1. /\ Upd # None /\ Upd \in Updates /\ coord.active < Upd
              /\ coord.commitStarted
            BY <2>0 DEF Control, Steps, Quiet
        <3>2. Deployed /\ main = "off" /\ candidate[Upd] = "off"
            BY <2>0 DEF Records, Recorded, Sealed, Stopped
        <3>3. handoff[Upd].node = Upd
            BY <2>0, <3>1 DEF Data, Merged, Sealed, Dir
        <3>4. /\ handoff'[Upd].promoted = TRUE /\ handoff'[Upd].node = Upd
              /\ \A c \in Updates \ {Upd} : handoff'[c] = handoff[c]
            BY <2>2, <3>1, <3>3 DEF Dirs
        <3>5. /\ active.node = coord.active /\ \A c \in Updates : ~ handoff[c].promoted
              /\ \A m \in retired : m < coord.active
              /\ archive[Upd] = NoDir
            BY <2>0, <3>1, NotMoved
        <3>6. UNCHANGED <<coord, active, archive, host, main, candidate>>
            BY <1>25 DEF CommitOwnership
        <3>7. Upd' = Upd /\ Deployed' /\ Moved' /\ ~ Installed'
            <4>1. active.node # Upd
                BY <3>1, <3>5, BoundsAreNatural DEF TypeOK, Nodes, Upd
            <4> QED
                BY <3>1, <3>2, <3>4, <3>6, <4>1 DEF Upd, Deployed, Moved, Installed
        <3>8. retired' = retired \cup {coord.active}
            BY <2>2, <3>2 DEF Deployed
        <3> QED
            BY <2>2, <3>1, <3>2, <3>4, <3>5, <3>6, <3>7, <3>8 DEF Ownership, Activating
    <2> QED
        BY <1>25, <2>1, <2>2 DEF CommitOwnership
<1>26. CASE Owned
    BY <1>26, <1>d, <1>f, <1>g, HostFields, OwnershipAfter DEF Owned, Activating
<1>27. CASE StopBoth
    <2>1. Moved /\ active \notin {NoDir, EmptyDir} /\ UNCHANGED <<coord.update, coord.active>>
        BY <1>27, <1>d, <1>f, <1>g DEF StopBoth
    <2>2. coord'.commitStarted /\ pc' \in {"archive", "idle", "recoverCommit"}
        BY <1>27, <2>1, ActivationFailsFields DEF StopBoth
    <2>3. candidate'[Upd] = "off" /\ (main' = "open" => Installed)
        BY <1>27, <2>1 DEF StopBoth
    <2>4. UNCHANGED <<retired, archive, handoff, active, host>>
        BY <1>27 DEF StopBoth
    <2> QED
        BY <2>1, <2>2, <2>3, <2>4, OwnershipAfter DEF Activating
<1>28. CASE ArchiveSource
    <2>1. Moved /\ active \notin {NoDir, EmptyDir} /\ UNCHANGED <<coord, host, main, candidate>>
        BY <1>28, <1>f, <1>g DEF ArchiveSource
    <2>2. pc' = "install" /\ UNCHANGED <<handoff, retired>>
        BY <1>28 DEF ArchiveSource
    <2>3. CASE Installed
        <3>1. UNCHANGED <<archive, active>>
            BY <1>28, <2>3 DEF ArchiveSource, Ownership, Exists
        <3> QED
            BY <2>1, <2>2, <2>3, <3>1, OwnershipAfter DEF Activating
    <2>4. CASE ~ Installed
        <3>1. handoff[Upd].promoted /\ archive[Upd] = NoDir /\ main # "open"
            BY <2>1, <2>4 DEF Moved, Installed, Ownership
        <3>2. archive' = [archive EXCEPT ![Upd] = active] /\ active' = NoDir
            BY <1>28, <2>1, <3>1 DEF ArchiveSource, Exists
        <3>3. Upd' = Upd /\ Moved' /\ ~ Installed' /\ Deployed'
            <4>1. NoDir.node # Upd
                BY Directories, BoundsAreNatural DEF TypeOK, Nodes, Upd
            <4> QED
                BY <2>1, <2>2, <3>1, <3>2, <4>1 DEF Upd, Moved, Installed, Deployed
        <3> QED
            BY <2>1, <2>2, <3>1, <3>2, <3>3 DEF Ownership, Activating
    <2> QED
        BY <2>3, <2>4
<1>29. CASE InstallHandoff
    <2>1. Moved /\ UNCHANGED <<host, main, candidate, archive, retired>>
        BY <1>29, <1>f DEF InstallHandoff
    <2>2. CASE Installed
        <3>1. UNCHANGED <<handoff, active>> /\ active.promoted
            BY <1>29, <2>2 DEF InstallHandoff, Ownership, Exists
        <3>2. pc' = "restart" /\ UNCHANGED coord
            BY <1>29, <3>1 DEF InstallHandoff
        <3> QED
            BY <2>1, <2>2, <3>1, <3>2, <1>g, OwnershipAfter DEF Activating
    <2>3. CASE ~ Installed
        <3>1. handoff[Upd].promoted /\ active = NoDir /\ handoff[Upd].node = Upd
            BY <1>29, <2>1, <2>3 DEF Moved, Installed, Ownership, InstallHandoff
        <3>2. active' = handoff[Upd] /\ handoff' = [handoff EXCEPT ![Upd] = NoDir]
            BY <1>29, <2>1, <3>1 DEF InstallHandoff, Exists
        <3>3. pc' = "restart" /\ UNCHANGED coord
            BY <1>29, <3>1, <3>2 DEF InstallHandoff
        <3>4. Upd' = Upd /\ Moved' /\ Installed' /\ Deployed'
            BY <2>1, <3>1, <3>2, <3>3 DEF Upd, Moved, Installed, Deployed
        <3>5. handoff'[Upd] = NoDir /\ \A c \in Updates \ {Upd} : handoff'[c] = handoff[c]
            BY <2>1, <3>2
        <3> QED
            BY <2>1, <2>3, <3>1, <3>2, <3>3, <3>4, <3>5 DEF Ownership, Activating
    <2> QED
        BY <2>2, <2>3
<1>30. CASE RestartTracks
    <2>1. /\ Moved /\ Installed /\ active \notin {NoDir, EmptyDir}
          /\ UNCHANGED <<coord.update, coord.active>>
        BY <1>30, <1>d, <1>f, <1>g, <1>h DEF RestartTracks
    <2>2. coord'.commitStarted /\ pc' \in {"complete", "idle", "recoverCommit"}
        BY <1>30, <2>1, ActivationFailsFields DEF RestartTracks
    <2>3. UNCHANGED <<retired, archive, handoff, active, host, candidate>>
        BY <1>30 DEF RestartTracks
    <2> QED
        BY <2>1, <2>2, <2>3, OwnershipAfter DEF Activating
<1>31. CASE CompleteActivation
    BY <1>31, <1>f, <1>g, <1>h, HostFields, OwnershipAfter DEF CompleteActivation, Activating
<1>32. CASE Finish
    <2>1. Moved /\ Installed /\ active \notin {NoDir, EmptyDir}
        BY <1>32, <1>f, <1>g, <1>h DEF Finish
    <2>2. UNCHANGED <<retired, archive, handoff, active, host, candidate, main>>
        BY <1>32 DEF Finish
    <2>3. CASE coord'.phase = "steady" /\ coord'.update = None
                 /\ coord'.active = Upd /\ pc' = "idle"
        <3>1. Upd' = None /\ ~ Moved' /\ ~ Installed'
            BY <2>3 DEF Upd, Moved, Installed
        <3>2. \A c \in Updates : ~ handoff[c].promoted
            BY <2>1 DEF Ownership
        <3>3. \A m \in retired : m < Upd
            <4>1. coord.active < Upd /\ coord.active \in Nat /\ Upd \in Nat
                BY <2>1, BoundsAreNatural DEF Control, TypeOK, Nodes, Upd
            <4>2. \A m \in retired : m \in Nat /\ (m < coord.active \/ m = coord.active)
                BY BoundsAreNatural DEF Ownership, TypeOK, Nodes
            <4> QED
                BY <4>1, <4>2
        <3>4. active.node = Upd
            BY <2>1 DEF Installed
        <3> QED
            BY <2>2, <2>3, <3>1, <3>2, <3>3, <3>4 DEF Ownership, Activating
    <2>4. CASE UNCHANGED coord /\ (pc' = "idle" \/ Failed)
        BY <2>1, <2>2, <2>4, FailTargets, OwnershipAfter DEF Activating
    <2>5. CASE MarkRepairRequired(TRUE)
        BY <2>1, <2>2, <2>5, RepairFields, OwnershipAfter
    <2> QED
        BY <1>32, <2>3, <2>4, <2>5, FinishFields
<1>33. CASE RecoverCommit
    <2>0. /\ pc = "recoverCommit" /\ active \notin {NoDir, EmptyDir} /\ Upd # None
          /\ UNCHANGED <<retired, archive, handoff, active, candidate, main>>
        BY <1>33, <1>g DEF RecoverCommit, Control, Steps, Quiet
    <2>1. CASE (host.phase = "none" \/ host.update # Upd) /\ MarkRepairRequired(TRUE)
                 /\ UNCHANGED host
        BY <2>0, <2>1, <1>b, <1>d, FailTargets, OwnershipBefore DEF Activating
    <2>2. CASE /\ host.phase # "none" /\ host.update = Upd /\ Committed
               /\ host' = [host EXCEPT !.phase = "ownership_committed"]
               /\ pc' = "activate" /\ UNCHANGED coord
        <3>1. Moved
            BY <2>0, <2>2 DEF Ownership, Committed, Moved
        <3>2. /\ host'.phase # "none" /\ UNCHANGED <<host.update, host.source>>
            BY <2>2, HostFields
        <3> QED
            BY <2>0, <2>2, <3>1, <3>2, OwnershipAfter DEF Activating
    <2>3. CASE ~ Committed /\ pc' = "rollback" /\ UNCHANGED <<coord, host>>
        <3>1. ~ Moved
            BY <2>3 DEF Ownership, Committed, Moved, Installed
        <3> QED
            BY <2>0, <2>3, <3>1, <1>b, OwnershipBefore DEF Activating
    <2> QED
        BY <1>33, <2>1, <2>2, <2>3 DEF RecoverCommit
<1>34. CASE Rollback
    <2>1. ~ Moved
        BY <1>34, <1>e DEF Rollback, Activating, Quiet
    <2> QED
        BY <1>34, <2>1, <1>b, <1>d, HostFields, FailTargets, OwnershipBefore
        DEF Rollback, Activating
<1>35. CASE RestorePrior
    <2>1. ~ Moved
        BY <1>35, <1>e DEF RestorePrior, Activating, Quiet
    <2> QED
        BY <1>35, <2>1, <1>b, <1>d, HostFields, FailTargets, OwnershipBefore
        DEF RestorePrior, Activating
<1>36. CASE RecordRestored
    <2>1. ~ Moved
        BY <1>36, <1>e DEF RecordRestored, Activating, Quiet
    <2> QED
        BY <1>36, <2>1, <1>b, <1>d, HostFields, FailTargets, OwnershipBefore
        DEF RecordRestored, Activating
<1>37. CASE Boot
    <2>0. /\ pc = "down"
          /\ UNCHANGED <<coord, host, retired, archive, handoff, candidate, main>>
        BY <1>37 DEF Boot
    <2>1. CASE pc' = "down" /\ active = NoDir /\ active' = EmptyDir
        <3>1. Moved /\ ~ Installed
            BY <2>1, <1>b, <1>g
        <3>2. handoff[Upd].promoted /\ main # "open"
            BY <3>1 DEF Moved, Installed
        <3>3. Upd' = Upd /\ Moved' /\ ~ Installed' /\ Deployed'
            <4>1. EmptyDir.node # Upd
                BY Directories, BoundsAreNatural DEF TypeOK, Nodes, Upd
            <4> QED
                BY <2>0, <2>1, <3>1, <3>2, <4>1 DEF Upd, Moved, Installed, Deployed
        <3> QED
            BY <2>0, <2>1, <3>1, <3>2, <3>3 DEF Ownership, Activating
    <2>2. CASE Moved /\ active' = active /\ pc' = "recoverCommit" /\ active \notin {NoDir, EmptyDir}
        BY <2>0, <2>2, OwnershipAfter
    <2>3. CASE /\ ~ Moved /\ active' = active
               /\ pc' \in {"reinstate", "idle", "recoverPreparation", "discard",
                          "recoverCommit", "rollback"}
        BY <2>0, <2>3, <1>b, OwnershipBefore DEF Activating
    <2> QED
        BY <1>37, <2>1, <2>2, <2>3, BootTarget
<1>38. CASE Reinstate
    <2>1. Upd = None /\ ~ Moved
        BY <1>38, <1>e DEF Reinstate, Quiet
    <2> QED
        BY <1>38, <2>1, <1>b, <1>d, OwnershipBefore DEF Reinstate, Activating
<1>39. CASE RecoverPreparation
    <2>1. ~ Moved
        BY <1>39, <1>e DEF RecoverPreparation, Activating, Quiet
    <2> QED
        BY <1>39, <2>1, <1>b, <1>d, HostRecords, FailTargets, OwnershipBefore
        DEF RecoverPreparation, Activating
<1>40. CASE WorkOnActive
    <2>1. /\ main = "open" /\ UNCHANGED <<pc, coord, host, retired, archive, handoff, candidate, main>>
          /\ active'.node = active.node /\ active'.promoted = active.promoted
        BY <1>40 DEF WorkOnActive, Dirs
    <2>2. CASE Moved
        <3>1. Installed /\ active \notin {NoDir, EmptyDir}
            BY <2>1, <2>2, <1>g
        <3>2. Upd' = Upd /\ Moved' /\ Installed' /\ Deployed'
            BY <2>1, <2>2, <3>1 DEF Upd, Moved, Installed, Deployed
        <3> QED
            BY <2>1, <2>2, <3>1, <3>2 DEF Ownership, CommittedPhase
    <2>3. CASE ~ Moved
        <3>1. pc' \notin Activating
            BY <2>1, <2>3, <1>f
        <3> QED
            BY <2>1, <2>3, <3>1, <1>b, OwnershipBefore
    <2> QED
        BY <2>2, <2>3
<1>41. CASE WorkOnCandidate
    <2>1. UNCHANGED <<coord, host, retired, archive, handoff, active, candidate>>
        BY <1>41 DEF WorkOnCandidate
    <2>2. /\ main' = "open" => main = "open"
          /\ pc' = pc \/ pc' = "down"
        BY <1>41 DEF WorkOnCandidate
    <2>3. CASE Moved
        BY <2>1, <2>2, <2>3, <1>g, OwnershipAfter DEF Ownership
    <2>4. CASE ~ Moved
        <3>1. pc' \notin Activating
            BY <2>2, <2>4, <1>f DEF Activating
        <3> QED
            BY <2>1, <2>4, <3>1, <1>b, OwnershipBefore
    <2> QED
        BY <2>3, <2>4
<1>42. CASE LateSeal
    <2>1. UNCHANGED <<coord, host, retired, archive, handoff, active, candidate>>
        BY <1>42 DEF LateSeal
    <2>2. /\ main' = "open" => main = "open"
          /\ pc' = pc \/ pc' = "down"
        BY <1>42 DEF LateSeal
    <2>3. CASE Moved
        BY <2>1, <2>2, <2>3, <1>g, OwnershipAfter DEF Ownership
    <2>4. CASE ~ Moved
        <3>1. pc' \notin Activating
            BY <2>2, <2>4, <1>f DEF Activating
        <3> QED
            BY <2>1, <2>4, <3>1, <1>b, OwnershipBefore
    <2> QED
        BY <2>3, <2>4
<1>43. CASE Crash
    <2>1. UNCHANGED <<coord, host, retired, archive, handoff, active, candidate>>
        BY <1>43 DEF Crash, Down
    <2>2. /\ main' = "open" => main = "open"
          /\ pc' = pc \/ pc' = "down"
        BY <1>43 DEF Crash, Down
    <2>3. CASE Moved
        BY <2>1, <2>2, <2>3, <1>g, OwnershipAfter DEF Ownership
    <2>4. CASE ~ Moved
        <3>1. pc' \notin Activating
            BY <2>2, <2>4, <1>f DEF Activating
        <3> QED
            BY <2>1, <2>4, <3>1, <1>b, OwnershipBefore
    <2> QED
        BY <2>3, <2>4
<1>44. CASE Reload
    <2>1. UNCHANGED <<coord, host, retired, archive, handoff, active, candidate>>
        BY <1>44 DEF Reload, Down
    <2>2. /\ main' = "open" => main = "open"
          /\ pc' = pc \/ pc' = "down"
        BY <1>44 DEF Reload, Down
    <2>3. CASE Moved
        BY <2>1, <2>2, <2>3, <1>g, OwnershipAfter DEF Ownership
    <2>4. CASE ~ Moved
        <3>1. pc' \notin Activating
            BY <2>2, <2>4, <1>f DEF Activating
        <3> QED
            BY <2>1, <2>4, <3>1, <1>b, OwnershipBefore
    <2> QED
        BY <2>3, <2>4
<1>45. CASE UNCHANGED vars
    <2>1. UNCHANGED <<coord, host, retired, archive, handoff, active, candidate>>
        BY <1>45 DEF vars
    <2>2. /\ main' = "open" => main = "open"
          /\ pc' = pc \/ pc' = "down"
        BY <1>45 DEF vars
    <2>3. CASE Moved
        BY <2>1, <2>2, <2>3, <1>g, OwnershipAfter DEF Ownership
    <2>4. CASE ~ Moved
        <3>1. pc' \notin Activating
            BY <2>2, <2>4, <1>f DEF Activating
        <3> QED
            BY <2>1, <2>4, <3>1, <1>b, OwnershipBefore
    <2> QED
        BY <2>3, <2>4
<1> QED
    BY <1>1, <1>2, <1>3, <1>4, <1>5, <1>6, <1>7, <1>8, <1>9, <1>10, <1>11,
       <1>12, <1>13, <1>14, <1>15, <1>16, <1>17, <1>18, <1>19, <1>20,
       <1>21, <1>22, <1>23, <1>24, <1>25, <1>26, <1>27, <1>28, <1>29,
       <1>30, <1>31, <1>32, <1>33, <1>34, <1>35, <1>36, <1>37, <1>38,
       <1>39, <1>40, <1>41, <1>42, <1>43, <1>44, <1>45
    DEF Next, SupervisorStep, PrepareStep, PromoteStep, RecoveryStep, Request,
        Environment

-----------------------------------------------------------------------------
(***************************************************************************)
(* What has stopped.                                                       *)
(***************************************************************************)

LEMMA StepStopped ==
    ASSUME TypeOK, Control, Stopped, [Next]_vars
    PROVE  Stopped'
<1>a. /\ candidate \in [Updates -> {"off", "open", "fenced"}]
      /\ Upd # None => Upd \in Updates
      /\ main \in {"off", "open"}
    BY UpdateIndex DEF TypeOK
<1>b. pc \notin Quiet \cup {"idle", "down"} => Upd # None
    BY DEF Control, TypeOK
<1>c. pc \notin {"rotated", "idle", "unwound", "finish"} => Upd' = Upd
    BY TransactionGoesOn DEF Upd
<1>d. pc' \notin Sealed \cup {"sealActive"} => Stopped'
    BY DEF Stopped, Sealed
<1> USE DEF At, Goto, Done, services, files, Sealed, Quiet
<1>1. CASE RotateBegin
    BY <1>1, <1>d, FailTargets DEF RotateBegin
<1>2. CASE PrepareBegin
    BY <1>2, <1>d, FailTargets DEF PrepareBegin
<1>3. CASE DiscardBegin
    BY <1>3, <1>d, FailTargets DEF DiscardBegin
<1>4. CASE SchedulePromote
    BY <1>4, <1>d, FailTargets DEF SchedulePromote
<1>5. CASE RotateRecovery
    BY <1>5, <1>d, FailTargets DEF RotateRecovery
<1>6. CASE Unrotate
    BY <1>6, <1>d, FailTargets DEF Unrotate
<1>7. CASE RecordCandidate
    BY <1>7, <1>d, FailTargets DEF RecordCandidate
<1>8. CASE StartCandidate
    BY <1>8, <1>d, FailTargets DEF StartCandidate
<1>9. CASE PublishCandidate
    BY <1>9, <1>d, FailTargets DEF PublishCandidate
<1>10. CASE CandidateReady
    BY <1>10, <1>d, FailTargets DEF CandidateReady
<1>11. CASE Prepared
    BY <1>11, <1>d, FailTargets DEF Prepared
<1>12. CASE Abandon
    BY <1>12, <1>d, FailTargets DEF Abandon
<1>13. CASE Unwind
    BY <1>13, <1>d, FailTargets DEF Unwind
<1>14. CASE DiscardCandidate
    BY <1>14, <1>d, FailTargets DEF DiscardCandidate
<1>15. CASE PromotionTimer
    BY <1>15, <1>d, FailTargets DEF PromotionTimer
<1>16. CASE SealCandidate
    BY <1>16, <1>a, <1>b, <1>c, FailTargets DEF SealCandidate, Stopped
<1>17. CASE SealActive
    BY <1>17, <1>a, <1>b, <1>c, FailTargets DEF SealActive, Stopped
<1>18. CASE Drained
    BY <1>18, <1>a, <1>b, <1>c, FailTargets DEF Drained, Stopped
<1>19. CASE BuildHandoff
    BY <1>19, <1>a, <1>b, <1>c, FailTargets DEF BuildHandoff, Stopped
<1>20. CASE RecordHandoff
    BY <1>20, <1>a, <1>b, <1>c, FailTargets DEF RecordHandoff, Stopped
<1>21. CASE StartValidation
    BY <1>21, <1>a, <1>b, <1>c, FailTargets DEF StartValidation, Stopped
<1>22. CASE Validate
    BY <1>22, <1>a, <1>b, <1>c, FailTargets DEF Validate, Stopped
<1>23. CASE Transferred
    BY <1>23, <1>a, <1>b, <1>c, FailTargets DEF Transferred, Stopped
<1>24. CASE CommitBegin
    BY <1>24, <1>a, <1>b, <1>c, FailTargets DEF CommitBegin, Stopped
<1>25. CASE CommitOwnership
    BY <1>25, <1>d, FailTargets DEF CommitOwnership
<1>26. CASE Owned
    BY <1>26, <1>d, FailTargets DEF Owned
<1>27. CASE StopBoth
    BY <1>27, <1>d, FailTargets DEF StopBoth
<1>28. CASE ArchiveSource
    BY <1>28, <1>d, FailTargets DEF ArchiveSource
<1>29. CASE InstallHandoff
    BY <1>29, <1>d, FailTargets DEF InstallHandoff
<1>30. CASE RestartTracks
    BY <1>30, <1>d, FailTargets DEF RestartTracks
<1>31. CASE CompleteActivation
    BY <1>31, <1>d, FailTargets DEF CompleteActivation
<1>32. CASE Finish
    BY <1>32, <1>d, FinishFields, FailTargets
<1>33. CASE RecoverCommit
    BY <1>33, <1>d, FailTargets DEF RecoverCommit
<1>34. CASE Rollback
    BY <1>34, <1>d, FailTargets DEF Rollback
<1>35. CASE RestorePrior
    BY <1>35, <1>d, FailTargets DEF RestorePrior
<1>36. CASE RecordRestored
    BY <1>36, <1>d, FailTargets DEF RecordRestored
<1>37. CASE Boot
    BY <1>37, <1>d, BootTarget
<1>38. CASE Reinstate
    BY <1>38, <1>d, FailTargets DEF Reinstate
<1>39. CASE RecoverPreparation
    BY <1>39, <1>d, FailTargets DEF RecoverPreparation
<1>40. CASE WorkOnActive
    BY <1>40, <1>a DEF WorkOnActive, Stopped, Upd
<1>41. CASE WorkOnCandidate
    BY <1>41, <1>a DEF WorkOnCandidate, Stopped, Upd
<1>42. CASE LateSeal
    BY <1>42, <1>a DEF LateSeal, Stopped, Upd
<1>43. CASE Crash
    BY <1>43, <1>d DEF Crash, Down
<1>44. CASE Reload
    BY <1>44, <1>d DEF Reload, Down
<1>45. CASE UNCHANGED vars
    BY <1>45 DEF vars, Stopped, Upd
<1> QED
    BY <1>1, <1>2, <1>3, <1>4, <1>5, <1>6, <1>7, <1>8, <1>9, <1>10, <1>11,
       <1>12, <1>13, <1>14, <1>15, <1>16, <1>17, <1>18, <1>19, <1>20,
       <1>21, <1>22, <1>23, <1>24, <1>25, <1>26, <1>27, <1>28, <1>29,
       <1>30, <1>31, <1>32, <1>33, <1>34, <1>35, <1>36, <1>37, <1>38,
       <1>39, <1>40, <1>41, <1>42, <1>43, <1>44, <1>45
    DEF Next, SupervisorStep, PrepareStep, PromoteStep, RecoveryStep, Request,
        Environment

-----------------------------------------------------------------------------
(***************************************************************************)
(* Where the work is.                                                      *)
(***************************************************************************)

\* The merged directory stays the union of the two while both are stopped.
LEMMA StepMerged ==
    ASSUME TypeOK, Control, Records, Stopped, Data, [Next]_vars
    PROVE  pc' \in Merged =>
               handoff'[Upd'] = Dir(Upd', active'.work \cup trial'[Upd'].work)
<1>a. /\ handoff \in [Updates -> Dirs] /\ trial \in [Updates -> Dirs]
      /\ Upd # None => Upd \in Updates
    BY UpdateIndex DEF TypeOK
<1>b. pc \notin Quiet \cup {"idle", "down"} => Upd # None
    BY DEF Control, TypeOK
<1>c. pc \notin {"rotated", "idle", "unwound", "finish"} => Upd' = Upd
    BY TransactionGoesOn DEF Upd
<1>d. pc \in Merged => /\ handoff[Upd] = Dir(Upd, active.work \cup trial[Upd].work)
                       /\ main = "off" /\ candidate[Upd] # "open" /\ Upd \in Updates
    BY <1>a, <1>b DEF Data, Stopped, Merged, Sealed, Quiet
<1> USE DEF At, Goto, Done, services, files, Merged, Sealed, Quiet
<1>1. CASE RotateBegin
    BY <1>1, FailTargets DEF RotateBegin
<1>2. CASE PrepareBegin
    BY <1>2, FailTargets DEF PrepareBegin
<1>3. CASE DiscardBegin
    BY <1>3, FailTargets DEF DiscardBegin
<1>4. CASE SchedulePromote
    BY <1>4, FailTargets DEF SchedulePromote
<1>5. CASE RotateRecovery
    BY <1>5, FailTargets DEF RotateRecovery
<1>6. CASE Unrotate
    BY <1>6, FailTargets DEF Unrotate
<1>7. CASE RecordCandidate
    BY <1>7, FailTargets DEF RecordCandidate
<1>8. CASE StartCandidate
    BY <1>8, FailTargets DEF StartCandidate
<1>9. CASE PublishCandidate
    BY <1>9, FailTargets DEF PublishCandidate
<1>10. CASE CandidateReady
    BY <1>10, FailTargets DEF CandidateReady
<1>11. CASE Prepared
    BY <1>11, FailTargets DEF Prepared
<1>12. CASE Abandon
    BY <1>12, FailTargets DEF Abandon
<1>13. CASE Unwind
    BY <1>13, FailTargets DEF Unwind
<1>14. CASE DiscardCandidate
    BY <1>14, FailTargets DEF DiscardCandidate
<1>15. CASE PromotionTimer
    BY <1>15, FailTargets DEF PromotionTimer
<1>16. CASE SealCandidate
    BY <1>16, FailTargets DEF SealCandidate
<1>17. CASE SealActive
    BY <1>17, FailTargets DEF SealActive
<1>18. CASE Drained
    BY <1>18, FailTargets DEF Drained
<1>19. CASE BuildHandoff
    BY <1>19, <1>a, <1>b, <1>c, FailTargets DEF BuildHandoff
<1>20. CASE RecordHandoff
    BY <1>20, <1>c, <1>d, FailTargets DEF RecordHandoff
<1>21. CASE StartValidation
    BY <1>21, <1>c, <1>d, FailTargets DEF StartValidation
<1>22. CASE Validate
    BY <1>22, <1>c, <1>d, FailTargets DEF Validate
<1>23. CASE Transferred
    BY <1>23, <1>c, <1>d, FailTargets DEF Transferred
<1>24. CASE CommitBegin
    BY <1>24, <1>c, <1>d, FailTargets DEF CommitBegin
<1>25. CASE CommitOwnership
    BY <1>25, FailTargets DEF CommitOwnership
<1>26. CASE Owned
    BY <1>26, FailTargets DEF Owned
<1>27. CASE StopBoth
    BY <1>27, FailTargets DEF StopBoth
<1>28. CASE ArchiveSource
    BY <1>28, FailTargets DEF ArchiveSource
<1>29. CASE InstallHandoff
    BY <1>29, FailTargets DEF InstallHandoff
<1>30. CASE RestartTracks
    BY <1>30, FailTargets DEF RestartTracks
<1>31. CASE CompleteActivation
    BY <1>31, FailTargets DEF CompleteActivation
<1>32. CASE Finish
    BY <1>32, FinishFields, FailTargets
<1>33. CASE RecoverCommit
    BY <1>33, FailTargets DEF RecoverCommit
<1>34. CASE Rollback
    BY <1>34, FailTargets DEF Rollback
<1>35. CASE RestorePrior
    BY <1>35, FailTargets DEF RestorePrior
<1>36. CASE RecordRestored
    BY <1>36, FailTargets DEF RecordRestored
<1>37. CASE Boot
    BY <1>37, BootTarget
<1>38. CASE Reinstate
    BY <1>38, FailTargets DEF Reinstate
<1>39. CASE RecoverPreparation
    BY <1>39, FailTargets DEF RecoverPreparation
<1>40. CASE WorkOnActive
    BY <1>40, <1>c, <1>d DEF WorkOnActive
<1>41. CASE WorkOnCandidate
    <2>1. UNCHANGED <<pc, coord, handoff, active>>
        BY <1>41 DEF WorkOnCandidate
    <2>2. pc \in Merged => trial'[Upd] = trial[Upd]
        BY <1>41, <1>a, <1>d DEF WorkOnCandidate
    <2> QED
        BY <2>1, <2>2, <1>d DEF Upd
<1>42. CASE LateSeal
    BY <1>42, <1>c, <1>d DEF LateSeal
<1>43. CASE Crash
    BY <1>43 DEF Crash, Down
<1>44. CASE Reload
    BY <1>44 DEF Reload, Down
<1>45. CASE UNCHANGED vars
    BY <1>45, <1>d DEF vars, Upd
<1> QED
    BY <1>1, <1>2, <1>3, <1>4, <1>5, <1>6, <1>7, <1>8, <1>9, <1>10, <1>11,
       <1>12, <1>13, <1>14, <1>15, <1>16, <1>17, <1>18, <1>19, <1>20,
       <1>21, <1>22, <1>23, <1>24, <1>25, <1>26, <1>27, <1>28, <1>29,
       <1>30, <1>31, <1>32, <1>33, <1>34, <1>35, <1>36, <1>37, <1>38,
       <1>39, <1>40, <1>41, <1>42, <1>43, <1>44, <1>45
    DEF Next, SupervisorStep, PrepareStep, PromoteStep, RecoveryStep, Request,
        Environment

LEMMA StepNoTrial ==
    ASSUME TypeOK, Control, Records, Data, [Next]_vars
    PROVE  pc' \in {"prepare", "start", "finish"} => trial'[Upd'] = NoDir
<1>a. /\ trial \in [Updates -> Dirs]
      /\ Upd # None => Upd \in Updates
    BY UpdateIndex DEF TypeOK
<1>b. pc \notin Quiet \cup {"idle", "down"} => Upd # None
    BY DEF Control, TypeOK
<1>c. pc \notin {"rotated", "idle", "unwound", "finish"} => Upd' = Upd
    BY TransactionGoesOn DEF Upd
<1>d. pc \in {"prepare", "start", "finish"} => trial[Upd] = NoDir
    BY DEF Data
<1> USE DEF At, Goto, Done, services, files, Quiet
<1>1. CASE RotateBegin
    BY <1>1, FailTargets DEF RotateBegin
<1>2. CASE PrepareBegin
    <2>1. Upd = None
        BY <1>2 DEF PrepareBegin, CanPrepare, Control
    <2>2. Upd' = updates + 1 /\ UNCHANGED trial
        BY <1>2, PrepareFields DEF PrepareBegin, Upd
    <2>3. Upd' \in Updates \ {Upd}
        BY <1>2, <2>1, <2>2, BoundsAreNatural DEF TypeOK, Nodes, Updates, PrepareBegin,
                                           CanPrepare, Control, None
    <2> QED
        BY <2>2, <2>3 DEF Records, Gone
<1>3. CASE DiscardBegin
    BY <1>3, FailTargets DEF DiscardBegin
<1>4. CASE SchedulePromote
    BY <1>4, FailTargets DEF SchedulePromote
<1>5. CASE RotateRecovery
    BY <1>5, FailTargets DEF RotateRecovery
<1>6. CASE Unrotate
    BY <1>6, FailTargets DEF Unrotate
<1>7. CASE RecordCandidate
    BY <1>7, <1>c, <1>d, FailTargets DEF RecordCandidate
<1>8. CASE StartCandidate
    BY <1>8, FailTargets DEF StartCandidate
<1>9. CASE PublishCandidate
    BY <1>9, FailTargets DEF PublishCandidate
<1>10. CASE CandidateReady
    BY <1>10, FailTargets DEF CandidateReady
<1>11. CASE Prepared
    BY <1>11, FailTargets DEF Prepared
<1>12. CASE Abandon
    BY <1>12, FailTargets DEF Abandon
<1>13. CASE Unwind
    BY <1>13, FailTargets DEF Unwind
<1>14. CASE DiscardCandidate
    BY <1>14, FailTargets DEF DiscardCandidate
<1>15. CASE PromotionTimer
    BY <1>15, FailTargets DEF PromotionTimer
<1>16. CASE SealCandidate
    BY <1>16, FailTargets DEF SealCandidate
<1>17. CASE SealActive
    BY <1>17, FailTargets DEF SealActive
<1>18. CASE Drained
    BY <1>18, FailTargets DEF Drained
<1>19. CASE BuildHandoff
    BY <1>19, FailTargets DEF BuildHandoff
<1>20. CASE RecordHandoff
    BY <1>20, FailTargets DEF RecordHandoff
<1>21. CASE StartValidation
    BY <1>21, FailTargets DEF StartValidation
<1>22. CASE Validate
    BY <1>22, FailTargets DEF Validate
<1>23. CASE Transferred
    BY <1>23, FailTargets DEF Transferred
<1>24. CASE CommitBegin
    BY <1>24, FailTargets DEF CommitBegin
<1>25. CASE CommitOwnership
    BY <1>25, FailTargets DEF CommitOwnership
<1>26. CASE Owned
    BY <1>26, FailTargets DEF Owned
<1>27. CASE StopBoth
    BY <1>27, FailTargets DEF StopBoth
<1>28. CASE ArchiveSource
    BY <1>28, FailTargets DEF ArchiveSource
<1>29. CASE InstallHandoff
    BY <1>29, FailTargets DEF InstallHandoff
<1>30. CASE RestartTracks
    BY <1>30, FailTargets DEF RestartTracks
<1>31. CASE CompleteActivation
    BY <1>31, <1>a, <1>b, <1>c DEF CompleteActivation
<1>32. CASE Finish
    BY <1>32, FinishFields, FailTargets
<1>33. CASE RecoverCommit
    BY <1>33, FailTargets DEF RecoverCommit
<1>34. CASE Rollback
    BY <1>34, FailTargets DEF Rollback
<1>35. CASE RestorePrior
    BY <1>35, FailTargets DEF RestorePrior
<1>36. CASE RecordRestored
    BY <1>36, FailTargets DEF RecordRestored
<1>37. CASE Boot
    BY <1>37, BootTarget
<1>38. CASE Reinstate
    BY <1>38, FailTargets DEF Reinstate
<1>39. CASE RecoverPreparation
    BY <1>39, FailTargets DEF RecoverPreparation
<1>40. CASE WorkOnActive
    BY <1>40, <1>d DEF WorkOnActive, Upd
<1>41. CASE WorkOnCandidate
    BY <1>41, <1>a, <1>b, <1>d DEF WorkOnCandidate, Upd, Exists
<1>42. CASE LateSeal
    BY <1>42, <1>d DEF LateSeal, Upd
<1>43. CASE Crash
    BY <1>43 DEF Crash, Down
<1>44. CASE Reload
    BY <1>44 DEF Reload, Down
<1>45. CASE UNCHANGED vars
    BY <1>45, <1>d DEF vars, Upd
<1> QED
    BY <1>1, <1>2, <1>3, <1>4, <1>5, <1>6, <1>7, <1>8, <1>9, <1>10, <1>11,
       <1>12, <1>13, <1>14, <1>15, <1>16, <1>17, <1>18, <1>19, <1>20,
       <1>21, <1>22, <1>23, <1>24, <1>25, <1>26, <1>27, <1>28, <1>29,
       <1>30, <1>31, <1>32, <1>33, <1>34, <1>35, <1>36, <1>37, <1>38,
       <1>39, <1>40, <1>41, <1>42, <1>43, <1>44, <1>45
    DEF Next, SupervisorStep, PrepareStep, PromoteStep, RecoveryStep, Request,
        Environment

\* What has been done is in the active or the merged directory, or on trial.
Owed ==
    /\ Moved => owed \subseteq (IF Installed THEN active.work
                                             ELSE handoff[Upd].work)
    /\ ~ Moved => owed \subseteq
           active.work \cup (IF Upd = None THEN {} ELSE trial[Upd].work)

LEMMA OwedKept ==
    ASSUME Data, UNCHANGED <<coord.update, handoff, active, trial, owed>>
    PROVE  Owed'
<1>1. Upd' = Upd
    BY DEF Upd
<1>2. (Moved' <=> Moved) /\ (Installed' <=> Installed)
    BY <1>1 DEF Moved, Installed
<1> QED
    BY <1>1, <1>2 DEF Data, Owed

\* A candidate that is discarded takes its own work with it.
LEMMA OwedDiscarded ==
    ASSUME TypeOK, Data, ~ Moved, ~ Moved', Upd # None, Upd' = Upd,
           owed' = owed \ trial[Upd].work, active' = active
    PROVE  Owed'
  BY DEF Data, Owed

LEMMA StepOwed ==
    ASSUME TypeOK, Control, Records, Ownership, Data, [Next]_vars, Ownership'
    PROVE  Owed'
<1>a. /\ handoff \in [Updates -> Dirs] /\ trial \in [Updates -> Dirs]
      /\ active \in Dirs
      /\ Upd # None => Upd \in Updates
    BY UpdateIndex DEF TypeOK
<1>b. pc \notin Quiet \cup {"idle", "down"} => Upd # None
    BY DEF Control, TypeOK
<1>c. pc \notin {"rotated", "idle", "unwound", "finish"} =>
          Upd' = Upd /\ coord'.update = coord.update
    BY TransactionGoesOn DEF Upd
<1>d. /\ pc \notin Activating \cup {"recoverCommit", "idle", "down"} => ~ Moved
      /\ pc' \notin Activating \cup {"recoverCommit", "idle", "down"} => ~ Moved'
    BY DEF Ownership
<1>e. /\ pc \in Activating => Moved /\ Upd # None
      /\ pc \in {"restart", "complete", "finish"} => Installed
    BY DEF Ownership, Moved
<1> USE DEF At, Goto, Done, services, files, history
<1>1. CASE RotateBegin
    <2>1. coord'.update = coord.update
        BY <1>1, TypeParts DEF RotateBegin, Valid, Coords
    <2> QED
        BY <1>1, <2>1, OwedKept DEF RotateBegin
<1>2. CASE PrepareBegin
    <2>1. Upd = None /\ ~ Moved
        BY <1>2 DEF PrepareBegin, CanPrepare, Control, Quiet, Moved
    <2>2. UNCHANGED <<active, owed>> /\ pc' = "prepare"
        BY <1>2 DEF PrepareBegin
    <2>3. ~ Moved'
        BY <2>2, <1>d DEF Activating
    <2> QED
        BY <2>1, <2>2, <2>3 DEF Data, Owed
<1>3. CASE DiscardBegin
    <2>1. coord'.update = coord.update
        BY <1>3, StatusFields DEF DiscardBegin
    <2> QED
        BY <1>3, <2>1, OwedKept DEF DiscardBegin
<1>4. CASE SchedulePromote
    <2>1. coord'.update = coord.update
        BY <1>4, TypeParts DEF SchedulePromote, Valid, Coords
    <2> QED
        BY <1>4, <2>1, OwedKept DEF SchedulePromote
<1>5. CASE RotateRecovery
    BY <1>5, <1>c, OwedKept DEF RotateRecovery
<1>6. CASE Unrotate
    BY <1>6, <1>c, OwedKept DEF Unrotate
<1>7. CASE RecordCandidate
    BY <1>7, <1>c, OwedKept DEF RecordCandidate
<1>8. CASE StartCandidate
    <2>1. /\ pc = "start" /\ Upd # None /\ Upd' = Upd
          /\ UNCHANGED <<active, handoff, owed>>
        BY <1>8, <1>b, <1>c DEF StartCandidate, Quiet
    <2>2. ~ Moved /\ ~ Moved'
        BY <2>1, <1>d DEF Activating, Moved
    <2>3. trial[Upd].work = {}
        BY <2>1, Directories DEF Data
    <2> QED
        BY <2>1, <2>2, <2>3 DEF Data, Owed
<1>9. CASE PublishCandidate
    BY <1>9, <1>c, OwedKept DEF PublishCandidate
<1>10. CASE CandidateReady
    BY <1>10, <1>c, OwedKept DEF CandidateReady
<1>11. CASE Prepared
    <2>1. coord'.update = coord.update
        BY <1>11, StatusFields DEF Prepared
    <2> QED
        BY <1>11, <2>1, OwedKept DEF Prepared
<1>12. CASE Abandon
    <2>1. /\ Upd # None /\ Upd' = Upd /\ pc' = "unwound"
          /\ owed' = owed \ trial[Upd].work /\ active' = active
        BY <1>12, <1>b, <1>c DEF Abandon, Quiet
    <2>2. ~ Moved /\ ~ Moved'
        BY <1>12, <2>1, <1>d DEF Abandon, Activating
    <2> QED
        BY <2>1, <2>2, OwedDiscarded
<1>13. CASE Unwind
    <2>1. /\ pc = "unwound" /\ UNCHANGED <<active, trial, handoff, owed>>
        BY <1>13 DEF Unwind
    <2>2. CASE ReturnToSteady
        <3>1. Upd' = None /\ ~ Moved'
            BY <2>2, SteadyFields DEF Upd, Moved
        <3>2. ~ Moved /\ Upd # None
            BY <2>1, <1>b, <1>d DEF Activating, Quiet
        <3>3. trial[Upd].work = {}
            BY <2>1, Directories DEF Records, Gone
        <3> QED
            BY <2>1, <3>1, <3>2, <3>3 DEF Data, Owed
    <2>3. CASE ~ ReturnToSteady
        <3>1. Status("trial", FALSE) \/ Status("repair_required", FALSE)
            BY <1>13, <2>3 DEF Unwind, MarkRepairRequired
        <3>2. coord'.update = coord.update
            <4>1. CASE Status("trial", FALSE)
                BY <4>1, StatusFields
            <4>2. CASE Status("repair_required", FALSE)
                BY <4>2, StatusFields
            <4> QED
                BY <3>1, <4>1, <4>2
        <3> QED
            BY <2>1, <3>2, OwedKept
    <2> QED
        BY <2>2, <2>3
<1>14. CASE DiscardCandidate
    <2>1. Upd # None /\ Upd' = Upd /\ coord'.update = coord.update /\ ~ Moved
        BY <1>14, <1>b, <1>c, <1>d DEF DiscardCandidate, Quiet, Activating
    <2>2. CASE UNCHANGED <<trial, owed>>
        BY <1>14, <2>1, <2>2, OwedKept DEF DiscardCandidate
    <2>3. CASE owed' = owed \ trial[Upd].work /\ pc' = "unwound"
        <3>1. ~ Moved' /\ active' = active
            BY <1>14, <2>3, <1>d DEF DiscardCandidate, Activating
        <3> QED
            BY <2>1, <2>3, <3>1, OwedDiscarded
    <2> QED
        BY <1>14, <2>2, <2>3 DEF DiscardCandidate
<1>15. CASE PromotionTimer
    <2>1. coord'.update = coord.update
        BY <1>15, TypeParts DEF PromotionTimer, Valid, Coords
    <2> QED
        BY <1>15, <2>1, OwedKept DEF PromotionTimer
<1>16. CASE SealCandidate
    BY <1>16, <1>c, OwedKept DEF SealCandidate
<1>17. CASE SealActive
    BY <1>17, <1>c, OwedKept DEF SealActive
<1>18. CASE Drained
    <2>1. coord'.update = coord.update
        BY <1>18, StatusFields DEF Drained
    <2> QED
        BY <1>18, <2>1, OwedKept DEF Drained
<1>19. CASE BuildHandoff
    <2>1. /\ Upd \in Updates /\ Upd # None /\ Upd' = Upd
          /\ UNCHANGED <<active, trial, owed>>
        BY <1>19, <1>a, <1>b, <1>c DEF BuildHandoff, Quiet
    <2>2. ~ Moved
        BY <1>19, <1>d DEF BuildHandoff, Activating
    <2>3. ~ handoff'[Upd].promoted
        BY <1>19, <1>a, <2>1, Directories DEF BuildHandoff, Dir
    <2>4. ~ Moved'
        BY <2>1, <2>2, <2>3 DEF Moved
    <2> QED
        BY <2>1, <2>2, <2>4 DEF Data, Owed
<1>20. CASE RecordHandoff
    BY <1>20, <1>c, OwedKept DEF RecordHandoff
<1>21. CASE StartValidation
    BY <1>21, <1>c, OwedKept DEF StartValidation
<1>22. CASE Validate
    BY <1>22, <1>c, OwedKept DEF Validate
<1>23. CASE Transferred
    <2>1. coord'.update = coord.update
        BY <1>23, StatusFields DEF Transferred
    <2> QED
        BY <1>23, <2>1, OwedKept DEF Transferred
<1>24. CASE CommitBegin
    BY <1>24, <1>c, OwedKept DEF CommitBegin
<1>25. CASE CommitOwnership
    <2>1. /\ pc = "own" /\ Upd \in Updates /\ Upd # None /\ Upd' = Upd
          /\ UNCHANGED <<active, trial, owed, coord>> /\ ~ Moved
        BY <1>25, <1>a, <1>b, <1>c, <1>d DEF CommitOwnership, Quiet, Activating
    <2>2. CASE UNCHANGED handoff
        BY <2>1, <2>2, OwedKept
    <2>3. CASE handoff' = [handoff EXCEPT ![Upd].promoted = TRUE]
        <3>1. handoff'[Upd].work = active.work \cup trial[Upd].work
            <4>1. handoff'[Upd].work = handoff[Upd].work
                BY <2>1, <2>3, <1>a DEF Dirs
            <4> QED
                BY <2>1, <4>1 DEF Data, Merged, Sealed, Dir
        <3>2. ~ Installed' /\ Moved'
            BY <2>1, <2>3, <1>a DEF Moved, Installed, Dirs
        <3> QED
            BY <2>1, <3>1, <3>2 DEF Data, Owed
    <2> QED
        BY <1>25, <2>2, <2>3 DEF CommitOwnership
<1>26. CASE Owned
    BY <1>26, <1>c, OwedKept DEF Owned
<1>27. CASE StopBoth
    BY <1>27, <1>c, OwedKept DEF StopBoth
<1>28. CASE ArchiveSource
    <2>1. Moved /\ Upd' = Upd /\ UNCHANGED <<coord, handoff, trial, owed>>
        BY <1>28, <1>c, <1>e DEF ArchiveSource, Activating
    <2>2. CASE UNCHANGED active
        BY <2>1, <2>2, OwedKept
    <2>3. CASE Exists(handoff[Upd]) /\ active' = NoDir
        <3>1. ~ Installed
            BY <2>3 DEF Ownership, Exists
        <3>2. ~ Installed' /\ Moved'
            <4>1. NoDir.node # Upd
                BY Directories, BoundsAreNatural DEF TypeOK, Nodes, Upd
            <4> QED
                BY <2>1, <2>3, <3>1, <4>1 DEF Moved, Installed
        <3> QED
            BY <2>1, <3>1, <3>2 DEF Data, Owed
    <2> QED
        BY <1>28, <2>2, <2>3 DEF ArchiveSource
<1>29. CASE InstallHandoff
    <2>1. Moved /\ Upd # None /\ UNCHANGED <<trial, owed>> /\ Upd' = Upd
                /\ coord'.update = coord.update
        BY <1>29, <1>c, <1>e DEF InstallHandoff, Activating
    <2>2. CASE UNCHANGED <<active, handoff>>
        BY <2>1, <2>2, OwedKept
    <2>3. CASE Exists(handoff[Upd]) /\ active' = handoff[Upd]
        <3>1. ~ Installed
            BY <2>3 DEF Ownership, Exists
        <3>2. handoff[Upd].promoted /\ handoff[Upd].node = Upd
            BY <2>1, <3>1, <1>a DEF Moved, Installed, Ownership
        <3>3. Installed' /\ Moved'
            BY <2>1, <2>3, <3>2 DEF Installed, Moved
        <3> QED
            BY <2>1, <2>3, <3>1, <3>3 DEF Data, Owed
    <2> QED
        BY <1>29, <2>2, <2>3 DEF InstallHandoff
<1>30. CASE RestartTracks
    BY <1>30, <1>c, OwedKept DEF RestartTracks
<1>31. CASE CompleteActivation
    <2>1. Moved /\ Installed /\ Upd' = Upd /\ UNCHANGED <<active, handoff, owed>>
        BY <1>31, <1>c, <1>e DEF CompleteActivation, Activating
    <2>2. Moved' /\ Installed'
        BY <2>1 DEF Moved, Installed
    <2> QED
        BY <2>1, <2>2 DEF Data, Owed
<1>32. CASE Finish
    <2>1. Moved /\ Installed /\ UNCHANGED <<active, handoff, trial, owed>>
        BY <1>32, <1>e DEF Finish, Activating
    <2>2. CASE coord'.update = None
        BY <2>1, <2>2 DEF Data, Owed, Moved, Upd
    <2>3. CASE coord'.update = coord.update
        BY <2>1, <2>3, OwedKept
    <2> QED
        BY <1>32, <2>2, <2>3, FinishFields, RepairFields
<1>33. CASE RecoverCommit
    BY <1>33, <1>c, OwedKept DEF RecoverCommit
<1>34. CASE Rollback
    <2>1. /\ Upd \in Updates /\ Upd # None /\ Upd' = Upd
          /\ UNCHANGED <<active, trial, owed>>
        BY <1>34, <1>a, <1>b, <1>c DEF Rollback, Quiet
    <2>2. ~ Moved
        BY <1>34, <1>d DEF Rollback, Activating
    <2>3. handoff'[Upd] \in {handoff[Upd], NoDir}
        BY <1>34, <1>a, <2>1 DEF Rollback
    <2>4. ~ Moved'
        BY <2>1, <2>2, <2>3, Directories DEF Moved
    <2> QED
        BY <2>1, <2>2, <2>4 DEF Data, Owed
<1>35. CASE RestorePrior
    BY <1>35, <1>c, OwedKept DEF RestorePrior
<1>36. CASE RecordRestored
    BY <1>36, <1>c, OwedKept DEF RecordRestored
<1>37. CASE Boot
    <2>1. UNCHANGED <<coord, handoff, trial, owed>> /\ Upd' = Upd
        BY <1>37 DEF Boot, Upd
    <2>2. CASE UNCHANGED active
        BY <2>1, <2>2, OwedKept
    <2>3. CASE active = NoDir /\ active' = EmptyDir
        <3>1. NoDir.node # Upd /\ EmptyDir.node # Upd
            BY Directories, BoundsAreNatural DEF TypeOK, Nodes, Upd
        <3>2. Moved /\ Moved' /\ ~ Installed /\ ~ Installed'
            <4>1. active \in {NoDir, EmptyDir}
                BY <2>3
            <4>2. Moved
                BY <4>1, NotMoved
            <4> QED
                BY <2>1, <2>3, <3>1, <4>2 DEF Moved, Installed
        <3> QED
            BY <2>1, <3>2 DEF Data, Owed
    <2> QED
        BY <1>37, <2>2, <2>3, BootTarget
<1>38. CASE Reinstate
    BY <1>38, <1>c, OwedKept DEF Reinstate
<1>39. CASE RecoverPreparation
    <2>1. Upd # None /\ Upd' = Upd /\ coord'.update = coord.update /\ ~ Moved
        BY <1>39, <1>b, <1>c, <1>d DEF RecoverPreparation, Quiet, Activating
    <2>2. CASE UNCHANGED <<trial, owed>>
        BY <1>39, <2>1, <2>2, OwedKept DEF RecoverPreparation
    <2>3. CASE owed' = owed \ trial[Upd].work /\ pc' = "unwound"
        <3>1. ~ Moved' /\ active' = active
            BY <1>39, <2>3, <1>d DEF RecoverPreparation, Activating
        <3> QED
            BY <2>1, <2>3, <3>1, OwedDiscarded
    <2> QED
        BY <1>39, <2>2, <2>3 DEF RecoverPreparation
<1>40. CASE WorkOnActive
    <2>1. PICK w \in Work : /\ main = "open" /\ owed' = owed \cup {w}
                            /\ active' = [active EXCEPT !.work = @ \cup {w}]
        BY <1>40 DEF WorkOnActive
    <2>2. UNCHANGED <<coord, handoff, trial>> /\ Upd' = Upd
        BY <1>40 DEF WorkOnActive, Upd
    <2>3. active'.work = active.work \cup {w} /\ active'.node = active.node
        BY <2>1, <1>a DEF Dirs
    <2>4. (Moved' <=> Moved) /\ (Installed' <=> Installed)
        BY <2>2, <2>3 DEF Moved, Installed
    <2>5. Moved => Installed
        BY <2>1 DEF Ownership
    <2> QED
        BY <2>1, <2>2, <2>3, <2>4, <2>5 DEF Data, Owed
<1>41. CASE WorkOnCandidate
    <2>1. PICK w \in Work, c \in Updates :
              /\ candidate[c] = "open" /\ Exists(trial[c])
              /\ owed' = owed \cup {w}
              /\ trial' = [trial EXCEPT ![c].work = @ \cup {w}]
        BY <1>41 DEF WorkOnCandidate
    <2>2. UNCHANGED <<coord, handoff, active>> /\ Upd' = Upd
        BY <1>41 DEF WorkOnCandidate, Upd
    <2>3. c = Upd /\ c # None
        BY <2>1 DEF Records, Gone, Exists, Updates, None
    <2>4. ~ Moved /\ ~ Moved'
        BY <2>1, <2>2, <2>3 DEF Ownership, Moved
    <2>5. trial'[Upd].work = trial[Upd].work \cup {w}
        BY <2>1, <2>3, <1>a DEF Dirs
    <2> QED
        BY <2>1, <2>2, <2>3, <2>4, <2>5 DEF Data, Owed
<1>42. CASE LateSeal
    BY <1>42, OwedKept DEF LateSeal
<1>43. CASE Crash
    BY <1>43, OwedKept DEF Crash, Down
<1>44. CASE Reload
    BY <1>44, OwedKept DEF Reload, Down
<1>45. CASE UNCHANGED vars
    BY <1>45, OwedKept DEF vars
<1> QED
    BY <1>1, <1>2, <1>3, <1>4, <1>5, <1>6, <1>7, <1>8, <1>9, <1>10, <1>11,
       <1>12, <1>13, <1>14, <1>15, <1>16, <1>17, <1>18, <1>19, <1>20,
       <1>21, <1>22, <1>23, <1>24, <1>25, <1>26, <1>27, <1>28, <1>29,
       <1>30, <1>31, <1>32, <1>33, <1>34, <1>35, <1>36, <1>37, <1>38,
       <1>39, <1>40, <1>41, <1>42, <1>43, <1>44, <1>45
    DEF Next, SupervisorStep, PrepareStep, PromoteStep, RecoveryStep, Request,
        Environment

LEMMA StepData ==
    ASSUME TypeOK, Control, Records, Ownership, Stopped, Data, [Next]_vars,
           Ownership'
    PROVE  Data'
  BY StepMerged, StepNoTrial, StepOwed DEF Data, Owed

-----------------------------------------------------------------------------
(***************************************************************************)
(* The retained version.                                                   *)
(***************************************************************************)

LEMMA TracksKept ==
    ASSUME Tracks, UNCHANGED <<coord.update, coord.recovery, repair>>,
           Upd # None \/ coord'.rotated \in {coord.rotated, None},
           pc' # "rotated" \/ pc = "rotated",
           Installed /\ host.keeps => Installed' /\ host'.keeps
    PROVE  Tracks'
<1>1. Upd' = Upd
    BY DEF Upd
<1> QED
    BY <1>1 DEF Tracks

\* restoreRecovery while no transaction runs.
LEMMA TracksRestored ==
    ASSUME TypeOK, Tracks, Upd = None, pc' # "rotated",
           UNCHANGED <<coord.update, coord.recovery>>,
           RestoreRecovery(coord.rotated),
           coord' = [coord EXCEPT !.rotated = None]
    PROVE  Tracks'
<1>1. repair' = [repair EXCEPT ![coord.rotated] = "open"]
    BY DEF RestoreRecovery
<1>2. Upd' = None /\ coord'.rotated = None
    BY TypeParts DEF Upd, Valid, Coords
<1>3. \A r \in Updates : repair'[r] = "open" => r = coord.recovery
    <2>1. \A r \in Updates : r # None
        BY DEF Updates, None
    <2>2. repair \in [Updates -> {"off", "open"}]
        BY DEF TypeOK
    <2> QED
        BY <1>1, <2>1, <2>2 DEF Tracks
<1> QED
    BY <1>2, <1>3 DEF Tracks

LEMMA StepTracks ==
    ASSUME TypeOK, Control, Ownership, Tracks, [Next]_vars
    PROVE  Tracks'
<1>a. /\ repair \in [Updates -> {"off", "open"}] /\ handoff \in [Updates -> Dirs]
      /\ active \in Dirs /\ host \in Hosts
      /\ Upd # None => Upd \in Updates
      /\ \A r \in Updates : r # None
    BY UpdateIndex DEF TypeOK, Updates, None
<1>b. pc \notin Quiet \cup {"idle", "down"} => Upd # None
    BY DEF Control, TypeOK
<1>c. pc \notin {"rotated", "idle", "unwound", "finish"} =>
          /\ Upd' = Upd
          /\ UNCHANGED <<coord.update, coord.active, coord.recovery>>
    BY TransactionGoesOn DEF Upd
<1>d. /\ pc \notin Activating \cup {"recoverCommit", "idle", "down"} => ~ Installed
      /\ pc \in {"restart", "complete", "finish"} => Installed
    BY DEF Ownership, Moved, Installed
<1>e. coord.phase # "steady" => Upd # None
    BY DEF TypeOK
<1> USE DEF At, Goto, Done, services, files, Quiet
<1>1. CASE RotateBegin
    <2>1. Upd = None /\ coord'.rotated = coord.recovery /\ pc' # "rotated"
        BY <1>1, TypeParts DEF RotateBegin, CanPrepare, Valid, Coords
    <2>2. UNCHANGED <<coord.update, coord.recovery, repair>>
        BY <1>1, TypeParts DEF RotateBegin, Valid, Coords
    <2> QED
        BY <2>1, <2>2 DEF Tracks, Upd
<1>2. CASE PrepareBegin
    <2>1. Upd = None /\ (pc = "rotated" \/ coord.recovery = None)
        BY <1>2 DEF PrepareBegin, CanPrepare, Control
    <2>2. \A r \in Updates : repair[r] # "open"
        BY <2>1, <1>a DEF Tracks
    <2>3. UNCHANGED repair /\ Upd' # None
        BY <1>2, PrepareFields, BoundsAreNatural DEF PrepareBegin, Upd, None, TypeOK, Nodes
    <2> QED
        BY <2>2, <2>3 DEF Tracks
<1>3. CASE DiscardBegin
    <2>1. Upd # None /\ pc' # "rotated"
        BY <1>3, <1>e DEF DiscardBegin
    <2>2. UNCHANGED <<coord.update, coord.recovery, active, host, repair>>
        BY <1>3, TypeParts, StatusFields DEF DiscardBegin, Valid, Coords
    <2> QED
        BY <2>1, <2>2, TracksKept DEF Installed, Upd
<1>4. CASE SchedulePromote
    <2>1. Upd # None /\ pc' # "rotated"
        BY <1>4, <1>e DEF SchedulePromote
    <2>2. UNCHANGED <<coord.update, coord.recovery, active, host, repair>>
        BY <1>4, TypeParts, StatusFields DEF SchedulePromote, Valid, Coords
    <2> QED
        BY <2>1, <2>2, TracksKept DEF Installed, Upd
<1>5. CASE RotateRecovery
    <2>1. Upd = None /\ UNCHANGED coord /\ Upd' = None
        BY <1>5 DEF RotateRecovery, Control, Upd
    <2>2. CASE pc' = "unrotate" /\ UNCHANGED repair
        BY <2>1, <2>2 DEF Tracks
    <2>3. CASE repair' = [repair EXCEPT ![coord.recovery] = "off"]
        <3>1. \A r \in Updates : repair'[r] # "open"
            BY <2>1, <2>3, <1>a DEF Tracks
        <3> QED
            BY <2>1, <3>1 DEF Tracks
    <2> QED
        BY <1>5, <2>2, <2>3 DEF RotateRecovery
<1>6. CASE Unrotate
    <2>1. Upd = None /\ pc' # "rotated"
        BY <1>6 DEF Unrotate, Control
    <2>2. CASE RestoreRecovery(coord.rotated) /\ coord' = [coord EXCEPT !.rotated = None]
        BY <1>6, <2>1, <2>2, <1>c, TracksRestored DEF Unrotate
    <2>3. CASE RestoreRecoveryThrows(coord.rotated) /\ UNCHANGED coord
        <3>1. UNCHANGED <<repair, host>>
            BY <2>3 DEF RestoreRecoveryThrows
        <3> QED
            BY <2>1, <2>3, <3>1, TracksKept DEF Installed
    <2> QED
        BY <1>6, <2>2, <2>3 DEF Unrotate
<1>7. CASE RecordCandidate
    <2>1. Upd # None /\ ~ Installed /\ pc' # "rotated"
        BY <1>7, <1>b, <1>d, FailTargets DEF RecordCandidate, Activating
    <2> QED
        BY <1>7, <2>1, <1>c, TracksKept DEF RecordCandidate
<1>8. CASE StartCandidate
    <2>1. Upd # None /\ ~ Installed /\ pc' # "rotated"
        BY <1>8, <1>b, <1>d, FailTargets DEF StartCandidate, Activating
    <2> QED
        BY <1>8, <2>1, <1>c, TracksKept DEF StartCandidate
<1>9. CASE PublishCandidate
    <2>1. Upd # None /\ ~ Installed /\ pc' # "rotated"
        BY <1>9, <1>b, <1>d, FailTargets DEF PublishCandidate, Activating
    <2> QED
        BY <1>9, <2>1, <1>c, TracksKept DEF PublishCandidate
<1>10. CASE CandidateReady
    <2>1. Upd # None /\ ~ Installed /\ pc' # "rotated"
        BY <1>10, <1>b, <1>d, FailTargets DEF CandidateReady, Activating
    <2> QED
        BY <1>10, <2>1, <1>c, TracksKept DEF CandidateReady
<1>11. CASE Prepared
    <2>1. Upd # None /\ ~ Installed /\ pc' # "rotated"
        BY <1>11, <1>b, <1>d, FailTargets DEF Prepared, Activating
    <2> QED
        BY <1>11, <2>1, <1>c, TracksKept DEF Prepared
<1>12. CASE Abandon
    <2>1. Upd # None /\ ~ Installed /\ pc' # "rotated"
        BY <1>12, <1>b, <1>d, FailTargets DEF Abandon, Activating
    <2> QED
        BY <1>12, <2>1, <1>c, TracksKept DEF Abandon
<1>13. CASE Unwind
    <2>1. Upd # None /\ ~ Installed /\ pc' = "idle"
        BY <1>13, <1>b, <1>d, FailTargets DEF Unwind, Activating
    <2>2. \A r \in Updates : repair[r] # "open"
        BY <2>1 DEF Tracks
    <2>3. CASE ReturnToSteady
        <3>1. Upd' = None /\ coord'.rotated = None /\ coord'.recovery = coord.rotated
            BY <2>3, SteadyFields DEF Upd
        <3>2. repair' = repair \/ repair' = [repair EXCEPT ![coord.rotated] = "open"]
            BY <1>13 DEF Unwind, RestoreRecovery, RestoreRecoveryThrows
        <3>3. \A r \in Updates : repair'[r] = "open" => r = coord.rotated
            BY <2>2, <3>2, <1>a
        <3> QED
            BY <2>1, <3>1, <3>3 DEF Tracks
    <2>4. CASE ~ ReturnToSteady
        <3>1. /\ UNCHANGED repair
              /\ Status("trial", FALSE) \/ Status("repair_required", FALSE)
            BY <1>13, <2>4 DEF Unwind, MarkRepairRequired, RestoreRecoveryThrows
        <3>2. Upd' = Upd
            <4>1. CASE Status("trial", FALSE)
                BY <4>1, StatusFields DEF Upd
            <4>2. CASE Status("repair_required", FALSE)
                BY <4>2, StatusFields DEF Upd
            <4> QED
                BY <3>1, <4>1, <4>2
        <3> QED
            BY <2>1, <2>2, <3>1, <3>2 DEF Tracks
    <2> QED
        BY <2>3, <2>4
<1>14. CASE DiscardCandidate
    <2>1. Upd # None /\ ~ Installed /\ pc' # "rotated"
        BY <1>14, <1>b, <1>d, FailTargets DEF DiscardCandidate, Activating
    <2> QED
        BY <1>14, <2>1, <1>c, TracksKept DEF DiscardCandidate
<1>15. CASE PromotionTimer
    <2>1. Upd # None /\ pc' # "rotated"
        BY <1>15, <1>e DEF PromotionTimer
    <2>2. UNCHANGED <<coord.update, coord.recovery, active, host, repair>>
        BY <1>15, TypeParts, StatusFields DEF PromotionTimer, Valid, Coords
    <2> QED
        BY <2>1, <2>2, TracksKept DEF Installed, Upd
<1>16. CASE SealCandidate
    <2>1. Upd # None /\ ~ Installed /\ pc' # "rotated"
        BY <1>16, <1>b, <1>d, FailTargets DEF SealCandidate, Activating
    <2> QED
        BY <1>16, <2>1, <1>c, TracksKept DEF SealCandidate
<1>17. CASE SealActive
    <2>1. Upd # None /\ ~ Installed /\ pc' # "rotated"
        BY <1>17, <1>b, <1>d, FailTargets DEF SealActive, Activating
    <2> QED
        BY <1>17, <2>1, <1>c, TracksKept DEF SealActive
<1>18. CASE Drained
    <2>1. Upd # None /\ ~ Installed /\ pc' # "rotated"
        BY <1>18, <1>b, <1>d, FailTargets DEF Drained, Activating
    <2> QED
        BY <1>18, <2>1, <1>c, TracksKept DEF Drained
<1>19. CASE BuildHandoff
    <2>1. Upd # None /\ ~ Installed /\ pc' # "rotated"
        BY <1>19, <1>b, <1>d, FailTargets DEF BuildHandoff, Activating
    <2> QED
        BY <1>19, <2>1, <1>c, TracksKept DEF BuildHandoff
<1>20. CASE RecordHandoff
    <2>1. Upd # None /\ ~ Installed /\ pc' # "rotated"
        BY <1>20, <1>b, <1>d, FailTargets DEF RecordHandoff, Activating
    <2> QED
        BY <1>20, <2>1, <1>c, TracksKept DEF RecordHandoff
<1>21. CASE StartValidation
    <2>1. Upd # None /\ ~ Installed /\ pc' # "rotated"
        BY <1>21, <1>b, <1>d, FailTargets DEF StartValidation, Activating
    <2> QED
        BY <1>21, <2>1, <1>c, TracksKept DEF StartValidation
<1>22. CASE Validate
    <2>1. Upd # None /\ ~ Installed /\ pc' # "rotated"
        BY <1>22, <1>b, <1>d, FailTargets DEF Validate, Activating
    <2> QED
        BY <1>22, <2>1, <1>c, TracksKept DEF Validate
<1>23. CASE Transferred
    <2>1. Upd # None /\ ~ Installed /\ pc' # "rotated"
        BY <1>23, <1>b, <1>d, FailTargets DEF Transferred, Activating
    <2> QED
        BY <1>23, <2>1, <1>c, TracksKept DEF Transferred
<1>24. CASE CommitBegin
    <2>1. Upd # None /\ ~ Installed /\ pc' # "rotated"
        BY <1>24, <1>b, <1>d, FailTargets DEF CommitBegin, Activating
    <2> QED
        BY <1>24, <2>1, <1>c, TracksKept DEF CommitBegin
<1>25. CASE CommitOwnership
    <2>1. Upd # None /\ ~ Installed /\ pc' # "rotated"
        BY <1>25, <1>b, <1>d, FailTargets DEF CommitOwnership, Activating
    <2> QED
        BY <1>25, <2>1, <1>c, TracksKept DEF CommitOwnership
<1>26. CASE Owned
    <2>1. Upd # None /\ pc' # "rotated"
        BY <1>26, <1>b, FailTargets DEF Owned
    <2>2. UNCHANGED <<coord.update, coord.recovery, active, repair, host.keeps>>
        BY <1>26, <1>c, HostFields DEF Owned
    <2> QED
        BY <2>1, <2>2, TracksKept DEF Installed, Upd
<1>27. CASE StopBoth
    <2>1. Upd # None /\ pc' # "rotated"
        BY <1>27, <1>b, FailTargets DEF StopBoth
    <2>2. UNCHANGED <<coord.update, coord.recovery, active, repair, host.keeps>>
        BY <1>27, <1>c, HostFields DEF StopBoth
    <2> QED
        BY <2>1, <2>2, TracksKept DEF Installed, Upd
<1>28. CASE ArchiveSource
    <2>1. Upd # None /\ pc' # "rotated"
        BY <1>28, <1>b, FailTargets DEF ArchiveSource
    <2>2. Installed => active' = active
        BY <1>28, <1>a DEF ArchiveSource, Ownership, Exists
    <2> QED
        BY <1>28, <2>1, <2>2, <1>c, TracksKept DEF ArchiveSource, Installed, Upd
<1>29. CASE InstallHandoff
    <2>1. Upd # None /\ pc' # "rotated"
        BY <1>29, <1>b, FailTargets DEF InstallHandoff
    <2>2. Installed => active' = active
        BY <1>29, <1>a DEF InstallHandoff, Ownership, Exists
    <2> QED
        BY <1>29, <2>1, <2>2, <1>c, TracksKept DEF InstallHandoff, Installed, Upd
<1>30. CASE RestartTracks
    <2>1. /\ Upd # None /\ Upd' = Upd /\ Installed /\ UNCHANGED <<active, host>>
        BY <1>30, <1>b, <1>c, <1>d DEF RestartTracks
    <2>2. Installed'
        BY <2>1 DEF Installed
    <2>3. repair' = repair \/ (host.keeps /\ repair' = [repair EXCEPT ![Upd] = "open"])
        BY <1>30 DEF RestartTracks
    <2>4. \A r \in Updates : repair'[r] = "open" => r = Upd /\ host.keeps
        BY <2>1, <2>3, <1>a DEF Tracks
    <2> QED
        BY <2>1, <2>2, <2>4 DEF Tracks
<1>31. CASE CompleteActivation
    <2>1. Upd # None /\ pc' # "rotated"
        BY <1>31, <1>b, FailTargets DEF CompleteActivation
    <2>2. UNCHANGED <<coord.update, coord.recovery, active, repair, host.keeps>>
        BY <1>31, <1>c, HostFields DEF CompleteActivation
    <2> QED
        BY <2>1, <2>2, TracksKept DEF Installed, Upd
<1>32. CASE Finish
    <2>1. Upd # None /\ UNCHANGED <<active, host, repair>> /\ pc' # "rotated"
        BY <1>32, <1>b, FinishFields, FailTargets DEF Finish
    <2>2. CASE /\ coord'.update = None /\ coord'.rotated = None
               /\ coord'.recovery = IF host.keeps THEN Upd ELSE None
        BY <2>1, <2>2 DEF Tracks, Upd
    <2>3. CASE UNCHANGED <<coord.update, coord.recovery>>
        BY <2>1, <2>3, TracksKept DEF Installed, Upd
    <2> QED
        BY <1>32, <2>2, <2>3, FinishFields, RepairFields
<1>33. CASE RecoverCommit
    <2>1. Upd # None /\ pc' # "rotated"
        BY <1>33, <1>b, FailTargets DEF RecoverCommit
    <2>2. UNCHANGED <<coord.update, coord.recovery, active, repair, host.keeps>>
        BY <1>33, <1>c, HostFields DEF RecoverCommit
    <2> QED
        BY <2>1, <2>2, TracksKept DEF Installed, Upd
<1>34. CASE Rollback
    <2>1. Upd # None /\ ~ Installed /\ pc' # "rotated"
        BY <1>34, <1>b, <1>d, FailTargets DEF Rollback, Activating
    <2> QED
        BY <1>34, <2>1, <1>c, TracksKept DEF Rollback
<1>35. CASE RestorePrior
    <2>1. Upd # None /\ ~ Installed /\ pc' # "rotated"
        BY <1>35, <1>b, <1>d, FailTargets DEF RestorePrior, Activating
    <2> QED
        BY <1>35, <2>1, <1>c, TracksKept DEF RestorePrior
<1>36. CASE RecordRestored
    <2>1. Upd # None /\ ~ Installed /\ pc' # "rotated"
        BY <1>36, <1>b, <1>d, FailTargets DEF RecordRestored, Activating
    <2> QED
        BY <1>36, <2>1, <1>c, TracksKept DEF RecordRestored
<1>37. CASE Boot
    <2>1. UNCHANGED <<coord, host, repair>> /\ pc' # "rotated"
        BY <1>37, BootTarget DEF Boot
    <2>2. Installed => Installed'
        <3>1. NoDir.node # Upd
            BY Directories, BoundsAreNatural DEF TypeOK, Nodes, Upd
        <3> QED
            BY <1>37, <2>1, <3>1, BootTarget DEF Installed, Upd
    <2> QED
        BY <2>1, <2>2, TracksKept
<1>38. CASE Reinstate
    <2>1. Upd = None /\ pc' # "rotated"
        BY <1>38 DEF Reinstate, Control
    <2>2. CASE RestoreRecovery(coord.rotated) /\ coord' = [coord EXCEPT !.rotated = None]
        BY <1>38, <2>1, <2>2, <1>c, TracksRestored DEF Reinstate
    <2>3. CASE RestoreRecoveryThrows(coord.rotated) /\ UNCHANGED coord
        <3>1. UNCHANGED <<repair, host>>
            BY <2>3 DEF RestoreRecoveryThrows
        <3> QED
            BY <2>1, <2>3, <3>1, TracksKept DEF Installed
    <2> QED
        BY <1>38, <2>2, <2>3 DEF Reinstate
<1>39. CASE RecoverPreparation
    <2>1. Upd # None /\ ~ Installed /\ pc' # "rotated"
        BY <1>39, <1>b, <1>d, FailTargets DEF RecoverPreparation, Activating
    <2> QED
        BY <1>39, <2>1, <1>c, TracksKept DEF RecoverPreparation
<1>40. CASE WorkOnActive
    <2>1. UNCHANGED <<coord, host, repair, pc>> /\ active'.node = active.node
        BY <1>40, <1>a DEF WorkOnActive, Dirs
    <2> QED
        BY <2>1, TracksKept DEF Installed, Upd
<1>41. CASE WorkOnCandidate
    BY <1>41, TracksKept DEF WorkOnCandidate, Installed, Upd
<1>42. CASE LateSeal
    BY <1>42, TracksKept DEF LateSeal, Installed, Upd
<1>43. CASE Crash
    BY <1>43, TracksKept DEF Crash, Down, Installed, Upd
<1>44. CASE Reload
    BY <1>44, TracksKept DEF Reload, Down, Installed, Upd
<1>45. CASE UNCHANGED vars
    BY <1>45, TracksKept DEF vars, Installed, Upd
<1> QED
    BY <1>1, <1>2, <1>3, <1>4, <1>5, <1>6, <1>7, <1>8, <1>9, <1>10, <1>11,
       <1>12, <1>13, <1>14, <1>15, <1>16, <1>17, <1>18, <1>19, <1>20,
       <1>21, <1>22, <1>23, <1>24, <1>25, <1>26, <1>27, <1>28, <1>29,
       <1>30, <1>31, <1>32, <1>33, <1>34, <1>35, <1>36, <1>37, <1>38,
       <1>39, <1>40, <1>41, <1>42, <1>43, <1>44, <1>45
    DEF Next, SupervisorStep, PrepareStep, PromoteStep, RecoveryStep, Request,
        Environment

-----------------------------------------------------------------------------
(***************************************************************************)
(* The theorems.                                                           *)
(***************************************************************************)

LEMMA InitInv == Init => Inv
<1> SUFFICES ASSUME Init PROVE Inv
    OBVIOUS
<1>0. /\ NoHost \in Hosts /\ NoHost.update = 0 /\ NoDir \in Dirs
      /\ Dir(0, {}) \in Dirs /\ 0 \in Nodes
      /\ Dir(0, {}).node = 0 /\ Dir(0, {}).work = {}
      /\ NoDir.promoted = FALSE
    BY HostRecords, Directories, BoundsAreNatural DEF Dir, Dirs, Nodes
<1>1. /\ pc = "idle" /\ coord.update = 0 /\ coord.active = 0 /\ updates = 0
      /\ coord.phase = "steady" /\ coord.rotated = 0 /\ coord.recovery = 0
      /\ coord.commitStarted = FALSE /\ coord.scheduled = FALSE
      /\ Upd = 0
    BY DEF Init, Upd, None
<1>2. TypeOK
    <2>1. coord \in Coords
        BY <1>0 DEF Init, Coords, Phases, None
    <2> QED
        BY <1>0, <1>1, <2>1, BoundsAreNatural
        DEF Init, TypeOK, Coords, Steps, Nodes, None, Updates
<1>3. Control
    BY <1>0, <1>1 DEF Init, Control, Quiet, Sealed, None
<1>4. Records
    BY <1>0, <1>1 DEF Init, Records, Gone, Recorded, Sealed, None
<1>5. Ownership
    BY <1>0, <1>1 DEF Init, Ownership, Moved, Installed, Activating, None
<1>6. Stopped /\ Data /\ Tracks
    BY <1>0, <1>1 DEF Init, Stopped, Data, Tracks, Moved, Installed, Merged, Sealed, None
<1> QED
    BY <1>2, <1>3, <1>4, <1>5, <1>6 DEF Inv

LEMMA StepInv == Inv /\ [Next]_vars => Inv'
<1> SUFFICES ASSUME Inv, [Next]_vars PROVE Inv'
    OBVIOUS
<1>1. TypeOK /\ Control /\ Records /\ Ownership /\ Stopped /\ Data /\ Tracks
    BY DEF Inv
<1>2. TypeOK' /\ Control'
    BY <1>1, StepTypes, StepControl
<1>3. Records' /\ Ownership'
    BY <1>1, StepRecords, StepOwnership
<1>4. Stopped' /\ Data' /\ Tracks'
    BY <1>1, <1>3, StepStopped, StepData, StepTracks
<1> QED
    BY <1>2, <1>3, <1>4 DEF Inv

\* The inductive invariant: control, records, ownership, stopped services,
\* data and tracks fit together after every step of the supervisor, every
\* failure of one and every crash between two.
THEOREM DeploymentInvariant == Spec => []Inv
  BY InitInv, StepInv, PTL DEF Spec

\* The coordinator's and the host's files, the directories and the services
\* always have their types, and the durable status is one that
\* validateCoordinatorState accepts when the supervisor starts again.
THEOREM DeploymentTypeCorrect == Spec => []TypeOK
<1>1. Inv => TypeOK
    BY DEF Inv
<1> QED
    BY <1>1, DeploymentInvariant, PTL

\* The merged directory is the authority from the ownership commit until it
\* is installed, the active directory otherwise.
LEMMA AuthorityIs ==
    ASSUME TypeOK, Ownership
    PROVE  Authority = IF Moved /\ ~ Installed THEN handoff[Upd] ELSE active
<1>1. \A c \in Updates : c # None
    BY DEF Updates, None
<1>2. CASE \E c \in Updates : handoff[c].promoted
    <2>1. \A c \in Updates : handoff[c].promoted => c = Upd /\ c # None
        BY <1>1 DEF Ownership
    <2>2. (CHOOSE c \in Updates : handoff[c].promoted) = Upd
        BY <1>2, <2>1
    <2>3. Moved /\ ~ Installed
        BY <1>2, <2>1, Directories DEF Moved, Ownership
    <2> QED
        BY <1>2, <2>2, <2>3 DEF Authority
<1>3. CASE ~ \E c \in Updates : handoff[c].promoted
    <2>1. ~ (Moved /\ ~ Installed)
        BY <1>3, UpdateIndex DEF Moved, Installed
    <2> QED
        BY <1>3, <2>1 DEF Authority
<1> QED
    BY <1>2, <1>3

\* No work is lost: the invariant's account of where the work is covers the
\* one that a reader of the promoted directory, or of the trial, would give.
THEOREM WorkIsKept == Spec => []NoWorkLost
<1>1. Inv => NoWorkLost
    <2> SUFFICES ASSUME Inv PROVE NoWorkLost
        OBVIOUS
    <2>1. TypeOK /\ Ownership /\ Data
        BY DEF Inv
    <2>2. Authority = IF Moved /\ ~ Installed THEN handoff[Upd] ELSE active
        BY <2>1, AuthorityIs
    <2>3. CASE Moved
        <3>1. owed \subseteq Authority.work
            BY <2>1, <2>2, <2>3 DEF Data
        <3> QED
            BY <3>1 DEF NoWorkLost
    <2>4. CASE ~ Moved
        <3>1. Authority = active /\ active.node = coord.active
            BY <2>1, <2>2, <2>4, NotMoved
        <3>2. CASE Upd = None
            BY <2>1, <2>4, <3>1, <3>2 DEF Data, NoWorkLost
        <3>3. CASE Upd # None
            <4>1. Upd \in Updates \ {Authority.node}
                BY <2>1, <2>4, <3>1, <3>3, UpdateIndex DEF Moved
            <4>2. trial[Upd].work \subseteq
                      UNION {trial[c].work : c \in Updates \ {Authority.node}}
                BY <4>1
            <4>3. owed \subseteq active.work \cup trial[Upd].work
                BY <2>1, <2>4, <3>3 DEF Data
            <4> QED
                BY <3>1, <4>2, <4>3 DEF NoWorkLost
        <3> QED
            BY <3>2, <3>3
    <2> QED
        BY <2>3, <2>4
<1> QED
    BY <1>1, DeploymentInvariant, PTL

\* After commitLocalDirectoryOwnership the old node's Gateway never runs on
\* the active path again: the retired nodes are older than the node of the
\* active directory whenever the active service is running.
THEOREM RetiredNeverServes == Spec => []RetiredStaysRetired
<1>1. Inv => RetiredStaysRetired
    <2> SUFFICES ASSUME Inv, main = "open" PROVE active.node \notin retired
        BY DEF RetiredStaysRetired
    <2>1. TypeOK /\ Control /\ Ownership
        BY DEF Inv
    <2>2. retired \subseteq Nat /\ coord.active \in Nat /\ Upd \in Nat
        BY <2>1, BoundsAreNatural DEF TypeOK, Nodes, Upd
    <2>3. CASE Moved
        <3>1. active.node = Upd /\ coord.active < Upd
            BY <2>1, <2>3 DEF Ownership, Installed, Control
        <3>2. \A n \in retired : n < coord.active \/ n = coord.active
            BY <2>1 DEF Ownership
        <3> QED
            BY <2>2, <3>1, <3>2
    <2>4. CASE ~ Moved
        <3>1. active.node = coord.active /\ \A n \in retired : n < coord.active
            BY <2>1, <2>4, NotMoved
        <3> QED
            BY <2>2, <3>1
    <2> QED
        BY <2>3, <2>4
<1> QED
    BY <1>1, DeploymentInvariant, PTL

\* A computer runs at most its active Gateway and one other: the candidate on
\* trial, or the retained old version, and never both of these.
THEOREM TwoDeployments == Spec => []AtMostTwoDeployments
<1>1. Inv => AtMostTwoDeployments
    <2> SUFFICES ASSUME Inv PROVE AtMostTwoDeployments
        OBVIOUS
    <2>1. TypeOK /\ Records /\ Ownership /\ Tracks
        BY DEF Inv
    <2> DEFINE first == <<"active", 0>>
    <2>2. \E second : Usable \subseteq {first, second}
        <3>1. \A d \in Usable :
                  \/ d = first
                  \/ d \in {"candidate"} \X Updates /\ candidate[d[2]] # "off"
                     /\ (Exists(trial[d[2]]) \/ Exists(handoff[d[2]]))
                  \/ d \in {"repair"} \X Updates /\ repair[d[2]] = "open"
            BY DEF Usable
        <3>2. \A c \in Updates : candidate[c] # "off"
                  /\ (Exists(trial[c]) \/ Exists(handoff[c])) =>
                      c = Upd /\ Upd # None /\ ~ Installed
            <4>1. SUFFICES ASSUME NEW c \in Updates, candidate[c] # "off",
                                  Exists(trial[c]) \/ Exists(handoff[c])
                           PROVE  c = Upd /\ Upd # None /\ ~ Installed
                OBVIOUS
            <4>2. c = Upd /\ c # None
                BY <2>1, <4>1 DEF Records, Gone, Exists, Updates, None
            <4>3. ~ Installed
                BY <2>1, <4>1, <4>2 DEF Ownership, Moved, Installed
            <4> QED
                BY <4>2, <4>3
        <3>3. \A r \in Updates : repair[r] = "open" =>
                  IF Upd = None THEN r = coord.recovery ELSE r = Upd /\ Installed
            BY <2>1 DEF Tracks
        <3>4. CASE Upd = None
            <4>1. \A d \in Usable : d = first \/ d = <<"repair", coord.recovery>>
                BY <3>1, <3>2, <3>3, <3>4
            <4> QED
                BY <4>1
        <3>5. CASE Installed
            <4>1. \A d \in Usable : d = first \/ d = <<"repair", Upd>>
                BY <3>1, <3>2, <3>3, <3>5 DEF Installed
            <4> QED
                BY <4>1
        <3>6. CASE Upd # None /\ ~ Installed
            <4>1. \A d \in Usable : d = first \/ d = <<"candidate", Upd>>
                BY <3>1, <3>2, <3>3, <3>6
            <4> QED
                BY <4>1
        <3> QED
            BY <3>4, <3>5, <3>6
    <2>3. PICK second : Usable \subseteq {first, second}
        BY <2>2
    <2>4. IsFiniteSet({second}) /\ Cardinality({second}) = 1
        BY FS_Singleton
    <2>5. /\ IsFiniteSet({second} \cup {first})
          /\ Cardinality({second} \cup {first}) \in {1, 2}
        BY <2>4, FS_AddElement
    <2>6. Usable \subseteq {second} \cup {first}
        BY <2>3
    <2>7. IsFiniteSet(Usable) /\ Cardinality(Usable) <= Cardinality({second} \cup {first})
        BY <2>5, <2>6, FS_Subset
    <2>8. Cardinality(Usable) \in Nat
        BY <2>7, FS_CardinalityType
    <2> QED
        BY <2>5, <2>7, <2>8 DEF AtMostTwoDeployments
<1> QED
    BY <1>1, DeploymentInvariant, PTL

=============================================================================
