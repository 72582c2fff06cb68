------------------------- MODULE GatewayDeployment -------------------------
(***************************************************************************)
(* The blue/green update of one computer: the durable transaction of       *)
(* gatewayDeploymentCoordinator.ts, the processes and directories that     *)
(* macosGatewayBlueGreenHost.ts works on for it, and the state handoff of  *)
(* gatewayDeploymentHandoff.ts.                                            *)
(*                                                                         *)
(* The supervisor runs one operation at a time (serialize); `pc' is the    *)
(* step it is at, between two durable effects, so that a crash can fall    *)
(* between any two of them.  `coord' and `host' are its two files and      *)
(* survive the crash, as do the directories and the Gateway processes,     *)
(* which launchd owns.  Update u creates the Gateway node u; node 0 is the *)
(* one that was installed.  A data directory is the node it belongs to and *)
(* the work it holds, which is what the handoff must not lose.             *)
(***************************************************************************)
EXTENDS Naturals, FiniteSets

CONSTANTS
    Work,           \* pieces of work a Gateway may do and write to its data
    RepairNodes,    \* nodes whose catalog has a "Gateway recovery" project
    MaxUpdates,     \* bound: updates prepared
    MaxCrashes,     \* bound: crashes of the supervisor
    MaxFails,       \* bound: steps that fail (launchd, health, file system)
    MaxPromotions   \* bound: promotions requested

ASSUME BoundsAreNatural ==
    /\ MaxUpdates \in Nat /\ MaxCrashes \in Nat
    /\ MaxFails \in Nat /\ MaxPromotions \in Nat

Updates == 1..MaxUpdates
Nodes == 0..MaxUpdates
None == 0                                \* no update, no retained version

VARIABLES
    pc,         \* the step of the supervisor's operation; "down" after a crash
    mode,       \* a request, the retry of its failed commit, or a start
    coord,      \* deployment-state.json
    host,       \* deployment-host-state.json: deployment
    retained,   \* deployment-host-state.json: retained
    active,     \* the active data directory
    trial,      \* update -> candidate-data
    handoff,    \* update -> the transaction-private merged directory
    archive,    \* update -> source-archive
    listed,     \* candidates in the active Gateway's signed directory
    main,       \* the active service
    candidate,  \* update -> the candidate service
    repair,     \* update -> the retained old version's service
    lateSeal,   \* a seal request nobody waits for any more is under way
    reload,     \* onCommitted asked launchd to restart the supervisor
    owed,       \* work done and not discarded with its candidate
    retired,    \* nodes whose projects were given to another node
    updates,    \* update IDs created so far
    crashes, fails, promotions

files == <<active, trial, handoff, archive, listed>>
services == <<main, candidate, repair, lateSeal>>
history == <<owed, retired>>
bounds == <<updates, crashes, fails, promotions>>
vars == <<pc, mode, coord, host, retained, files, services, reload,
          history, bounds>>

Phases == {"steady", "preparing", "trial", "draining", "transferring",
           "committing", "discarding", "repair_required"}

HostPhases == {"none", "preparing", "trial", "sealed", "validating",
               "transferred", "committing", "ownership_committed", "complete"}

Steps == {"down", "reinstate", "recoverPreparation", "idle", "rotate",
          "unrotate", "rotated", "prepare", "start", "publish", "ready",
          "prepared", "abandon", "discard", "unwound", "sealCandidate",
          "sealActive", "drained", "transfer", "built", "validate",
          "validating", "transferred", "commit", "own", "owned", "activate",
          "archive", "install", "restart", "complete", "finish",
          "recoverCommit", "rollback", "restore", "restored"}

\* A data directory.  NoDir: no such path; EmptyDir: a directory without a
\* Gateway's files.
Dir(n, w) == [node |-> n, work |-> w, promoted |-> FALSE]
NoDir == Dir(MaxUpdates + 1, {})
EmptyDir == Dir(MaxUpdates + 2, {})
Exists(d) == d # NoDir

NoHost == [phase |-> "none", update |-> None, source |-> 0, keeps |-> FALSE]

Init ==
    /\ pc = "idle" /\ mode = "request" /\ reload = FALSE
    /\ coord = [phase |-> "steady", generation |-> 0, active |-> 0,
                update |-> None, commitStarted |-> FALSE,
                scheduled |-> FALSE, rotated |-> None, recovery |-> None]
    /\ host = NoHost /\ retained = NoHost
    /\ active = Dir(0, {})
    /\ trial = [u \in Updates |-> NoDir]
    /\ handoff = [u \in Updates |-> NoDir]
    /\ archive = [u \in Updates |-> NoDir]
    /\ listed = {}
    /\ main = "open" /\ lateSeal = FALSE
    /\ candidate = [u \in Updates |-> "off"]
    /\ repair = [u \in Updates |-> "off"]
    /\ owed = {} /\ retired = {}
    /\ updates = 0 /\ crashes = 0 /\ fails = 0 /\ promotions = 0

-----------------------------------------------------------------------------
(***************************************************************************)
(* Shared pieces.                                                          *)
(***************************************************************************)

Upd == coord.update
At(p) == pc = p
Goto(p) == pc' = p /\ mode' = mode
Done == pc' = "idle" /\ mode' = "request"

\* A step that depends on launchd, a health check or the disk may fail.
Fails == fails < MaxFails /\ fails' = fails + 1
           /\ UNCHANGED <<updates, crashes, promotions>>

\* writeStatus: the schedule outlives only "draining", the rotated recovery
\* slot only a phase other than "steady".
Status(phase, started) ==
    coord' = [coord EXCEPT !.phase = phase, !.commitStarted = started,
                           !.scheduled = FALSE]

MarkRepairRequired(started) == Status("repair_required", started) /\ Done

\* Mutant: the finished transaction's update stays in the status.
ReturnToSteadyKeepingUpdate ==
    coord' = [coord EXCEPT !.phase = "steady", !.commitStarted = FALSE,
                           !.scheduled = FALSE, !.recovery = coord.rotated,
                           !.rotated = None]

ReturnToSteady ==
    coord' = [coord EXCEPT !.phase = "steady", !.update = None,
                           !.commitStarted = FALSE, !.scheduled = FALSE,
                           !.recovery = coord.rotated, !.rotated = None]

\* requireDeployment: the host's record is the one of this transaction.
Deployed == /\ host.phase # "none" /\ host.update = Upd
            /\ host.source = coord.active

\* isCommittedPhase or directoryShowsCommittedOwnership
CommittedPhase == host.phase \in {"ownership_committed", "complete"}
\* Mutant: the signed directory is not consulted.
CommittedByRecord == CommittedPhase

Committed == \/ CommittedPhase
             \/ handoff[Upd].promoted
             \/ active.promoted /\ active.node = Upd

\* The record restoreRecovery starts the previous version from.
Checkpoint == IF retained # NoHost THEN retained
              ELSE IF host.phase = "complete" THEN host ELSE NoHost

\* restoreRecovery: it starts, or finds running, the previous version.
RestoreRecovery(r) ==
    /\ Checkpoint # NoHost /\ Checkpoint.update = r
    /\ repair' = [repair EXCEPT ![r] = "open"]
    /\ host' = Checkpoint

RestoreRecoveryThrows(r) ==
    /\ \/ (Checkpoint = NoHost \/ Checkpoint.update # r) /\ UNCHANGED bounds
       \/ Fails
    /\ UNCHANGED <<repair, host>>

-----------------------------------------------------------------------------
(***************************************************************************)
(* prepare: rotate the retained version out, then start a candidate.       *)
(***************************************************************************)

CanPrepare == /\ At("idle") /\ updates < MaxUpdates
              /\ coord.phase = "steady" /\ Upd = None

RotateBegin ==
    /\ CanPrepare /\ coord.recovery # None
    /\ coord' = [coord EXCEPT !.rotated = coord.recovery]
    /\ Goto("rotate")
    /\ UNCHANGED <<host, retained, files, services, reload, history, bounds>>

\* Mutant: the retained version is recorded and not stopped.
RotateRecoveryRunning ==
    /\ At("rotate")
    /\ retained' = host /\ Goto("rotated")
    /\ UNCHANGED <<coord, host, files, services, reload, history, bounds>>

RotateRecovery ==
    /\ At("rotate")
    /\ \/ /\ host.phase = "complete" /\ host.update = coord.recovery
          /\ main = "open" /\ active.node \in RepairNodes
          /\ retained' = host
          /\ \/ /\ repair' = [repair EXCEPT ![coord.recovery] = "off"]
                /\ Goto("rotated") /\ UNCHANGED bounds
             \/ Fails /\ Goto("unrotate") /\ UNCHANGED repair
       \/ /\ \/ host.phase # "complete" \/ host.update # coord.recovery
             \/ main # "open" \/ active.node \notin RepairNodes
          /\ Goto("unrotate") /\ UNCHANGED <<retained, repair, bounds>>
    /\ UNCHANGED <<coord, host, files, main, candidate, lateSeal, reload,
                   history>>

\* The failed rotation is undone before the error is reported.
Unrotate ==
    /\ At("unrotate")
    /\ \/ /\ RestoreRecovery(coord.rotated)
          /\ coord' = [coord EXCEPT !.rotated = None]
          /\ UNCHANGED bounds
       \/ RestoreRecoveryThrows(coord.rotated) /\ UNCHANGED coord
    /\ Done
    /\ UNCHANGED <<retained, files, main, candidate, lateSeal, reload,
                   history>>

PrepareBegin ==
    /\ \/ At("rotated")
       \/ CanPrepare /\ coord.recovery = None
    /\ updates' = updates + 1
    /\ coord' = [coord EXCEPT !.phase = "preparing", !.update = updates',
                              !.recovery = None]
    /\ Goto("prepare")
    /\ UNCHANGED <<host, retained, files, services, reload, history, crashes,
                   fails, promotions>>

\* prepareCandidate: a completed record is released, another one refused.
RecordCandidate ==
    /\ At("prepare")
    /\ \/ /\ host.phase \in {"none", "complete"}
          /\ host' = [phase |-> "preparing", update |-> Upd,
                      source |-> coord.active, keeps |-> FALSE]
          /\ Goto("start") /\ UNCHANGED coord
       \/ /\ host.phase \notin {"none", "complete"}
          /\ MarkRepairRequired(FALSE) /\ UNCHANGED host
    /\ UNCHANGED <<retained, files, services, reload, history, bounds>>

StartCandidate ==
    /\ At("start")
    /\ trial' = [trial EXCEPT ![Upd] = Dir(Upd, {})]
    /\ \/ /\ candidate' = [candidate EXCEPT ![Upd] = "open"]
          /\ Goto("publish") /\ UNCHANGED bounds
       \/ Fails /\ Goto("abandon") /\ UNCHANGED candidate
    /\ UNCHANGED <<coord, host, retained, active, handoff, archive, listed,
                   main, repair, lateSeal, reload, history>>

\* The candidate's descriptor is merged into the active Gateway's directory.
PublishCandidate ==
    /\ At("publish")
    /\ listed' = listed \cup {Upd}
    /\ \/ Goto("ready") /\ UNCHANGED bounds
       \/ Fails /\ Goto("abandon")
    /\ UNCHANGED <<coord, host, retained, active, trial, handoff, archive,
                   services, reload, history>>

CandidateReady ==
    /\ At("ready")
    /\ host' = [host EXCEPT !.phase = "trial"]
    /\ Goto("prepared")
    /\ UNCHANGED <<coord, retained, files, services, reload, history, bounds>>

Prepared ==
    /\ At("prepared")
    /\ Status("trial", FALSE) /\ Done
    /\ UNCHANGED <<host, retained, files, services, reload, history, bounds>>

\* A failed preparation cleans up behind itself, ignoring what that throws:
\* the candidate may stay listed, or go on running without its data.
Abandon ==
    /\ At("abandon")
    /\ \/ /\ listed' = listed \ {Upd}
          /\ candidate' = [candidate EXCEPT ![Upd] = "off"]
          /\ UNCHANGED bounds
       \/ /\ Fails
          /\ \/ listed' = listed /\ candidate' = [candidate EXCEPT ![Upd] = "off"]
             \/ listed' = listed \ {Upd} /\ candidate' = candidate
    /\ trial' = [trial EXCEPT ![Upd] = NoDir]
    /\ owed' = owed \ trial[Upd].work
    /\ host' = NoHost
    /\ Goto("unwound")
    /\ UNCHANGED <<coord, retained, active, handoff, archive, main, repair,
                   lateSeal, reload, retired>>

\* The candidate is gone: the rotated recovery version comes back, and the
\* computer is steady again.
Unwind ==
    /\ At("unwound")
    /\ \/ /\ \/ coord.rotated = None /\ UNCHANGED <<host, repair>>
             \/ coord.rotated # None /\ RestoreRecovery(coord.rotated)
          /\ ReturnToSteady /\ Done /\ UNCHANGED bounds
       \/ /\ coord.rotated # None /\ RestoreRecoveryThrows(coord.rotated)
          /\ IF coord.phase = "discarding" /\ mode = "request"
             THEN Status("trial", FALSE) /\ Done
             ELSE MarkRepairRequired(FALSE)
    /\ UNCHANGED <<retained, files, main, candidate, lateSeal, reload,
                   history>>

-----------------------------------------------------------------------------
(***************************************************************************)
(* discard                                                                 *)
(***************************************************************************)

DiscardBegin ==
    /\ At("idle") /\ coord.phase = "trial"
    /\ Status("discarding", FALSE) /\ Goto("discard")
    /\ UNCHANGED <<host, retained, files, services, reload, history, bounds>>

DiscardCandidate ==
    /\ At("discard")
    /\ \/ /\ host.phase = "none" /\ Goto("unwound")
          /\ UNCHANGED <<coord, host, trial, listed, candidate, owed, bounds>>
       \/ /\ Deployed /\ ~ CommittedPhase
          /\ candidate' = [candidate EXCEPT ![Upd] = "off"]
          /\ listed' = listed \ {Upd}
          /\ trial' = [trial EXCEPT ![Upd] = NoDir]
          /\ owed' = owed \ trial[Upd].work
          /\ host' = NoHost
          /\ Goto("unwound") /\ UNCHANGED <<coord, bounds>>
       \/ /\ host.phase # "none"
          /\ \/ /\ ~ Deployed \/ CommittedPhase
                /\ UNCHANGED <<candidate, bounds>>
             \/ /\ Deployed /\ Fails
                /\ \/ UNCHANGED candidate
                   \/ candidate' = [candidate EXCEPT ![Upd] = "off"]
          /\ IF mode = "boot" THEN MarkRepairRequired(FALSE)
                              ELSE Status("trial", FALSE) /\ Done
          /\ UNCHANGED <<host, trial, listed, owed>>
    /\ UNCHANGED <<retained, active, handoff, archive, main, repair,
                   lateSeal, reload, retired>>

-----------------------------------------------------------------------------
(***************************************************************************)
(* schedulePromote and performPromotion: drain, transfer, commit.          *)
(***************************************************************************)

SchedulePromote ==
    /\ At("idle") /\ coord.phase = "trial" /\ promotions < MaxPromotions
    /\ coord' = [coord EXCEPT !.phase = "draining", !.scheduled = TRUE,
                              !.commitStarted = FALSE]
    /\ promotions' = promotions + 1
    /\ UNCHANGED <<pc, mode, host, retained, files, services, reload, history,
                   updates, crashes, fails>>

\* The armed timer: the schedule is consumed before the promotion runs.
PromotionTimer ==
    /\ At("idle") /\ coord.phase = "draining" /\ coord.scheduled
    /\ coord' = [coord EXCEPT !.scheduled = FALSE]
    /\ Goto("sealCandidate")
    /\ UNCHANGED <<host, retained, files, services, reload, history, bounds>>

\* performPromotion's catch: it depends on what the durable state says.
Failed ==
    IF coord.commitStarted
    THEN pc' = "recoverCommit" /\ mode' = "retry"
    ELSE Goto("rollback")

\* Mutant: the drained candidate is not stopped.
SealCandidateRunning ==
    /\ At("sealCandidate") /\ Deployed /\ candidate[Upd] = "open"
    /\ Goto("sealActive")
    /\ UNCHANGED <<coord, host, retained, files, services, reload, history,
                   bounds>>

\* drainDeployments: the candidate first, so that production is not touched
\* when the candidate cannot be sealed.
SealCandidate ==
    /\ At("sealCandidate")
    /\ \/ /\ Deployed /\ candidate[Upd] = "open"
          /\ candidate' = [candidate EXCEPT ![Upd] = "off"]
          /\ Goto("sealActive") /\ UNCHANGED bounds
       \/ /\ \/ ~ Deployed \/ candidate[Upd] # "open"
          /\ Failed /\ UNCHANGED <<candidate, bounds>>
       \/ Fails /\ Failed /\ UNCHANGED candidate
    /\ UNCHANGED <<coord, host, retained, files, main, repair, lateSeal,
                   reload, history>>

\* sealActiveForDeployment: a sealed Gateway has stopped.  With deliveries
\* pending the request is not awaited, and an error of the polling loop
\* leaves it under way.
SealActive ==
    /\ At("sealActive")
    /\ \/ /\ main = "open" /\ main' = "off"
          /\ host' = [host EXCEPT !.phase = "sealed"]
          /\ Goto("drained") /\ UNCHANGED <<lateSeal, bounds>>
       \/ main # "open" /\ Failed /\ UNCHANGED <<main, host, lateSeal, bounds>>
       \/ /\ Fails /\ Failed
          /\ lateSeal' \in {lateSeal, main = "open"}
          /\ UNCHANGED <<main, host>>
    /\ UNCHANGED <<coord, retained, files, candidate, repair, reload, history>>

Drained ==
    /\ At("drained")
    /\ Status("transferring", FALSE) /\ Goto("transfer")
    /\ UNCHANGED <<host, retained, files, services, reload, history, bounds>>

\* buildGatewayDeploymentHandoff: a private directory with the work of both;
\* a conflict between them removes it again.
BuildHandoff ==
    /\ At("transfer")
    /\ \/ /\ handoff' = [handoff EXCEPT ![Upd] =
                             Dir(Upd, active.work \cup trial[Upd].work)]
          /\ Goto("built") /\ UNCHANGED bounds
       \/ /\ Fails /\ Failed
          /\ handoff' = [handoff EXCEPT ![Upd] = NoDir]
    /\ UNCHANGED <<coord, host, retained, active, trial, archive, listed,
                   services, reload, history>>

RecordHandoff ==
    /\ At("built")
    /\ host' = [host EXCEPT !.phase = "validating",
                            !.keeps = active.node \in RepairNodes]
    /\ Goto("validate")
    /\ UNCHANGED <<coord, retained, files, services, reload, history, bounds>>

\* The candidate opens the merged state behind its command fence.
StartValidation ==
    /\ At("validate")
    /\ \/ /\ candidate' = [candidate EXCEPT ![Upd] = "fenced"]
          /\ Goto("validating") /\ UNCHANGED bounds
       \/ Fails /\ Failed /\ UNCHANGED candidate
    /\ UNCHANGED <<coord, host, retained, files, main, repair, lateSeal,
                   reload, history>>

\* It is stopped again whether it became healthy or not.
Validate ==
    /\ At("validating")
    /\ \/ /\ candidate' = [candidate EXCEPT ![Upd] = "off"]
          /\ host' = [host EXCEPT !.phase = "transferred"]
          /\ Goto("transferred") /\ UNCHANGED bounds
       \/ /\ Fails /\ Failed
          /\ \/ candidate' = [candidate EXCEPT ![Upd] = "off"]
             \/ UNCHANGED candidate
          /\ UNCHANGED host
    /\ UNCHANGED <<coord, retained, files, main, repair, lateSeal, reload,
                   history>>

Transferred ==
    /\ At("transferred")
    /\ Status("committing", TRUE) /\ Goto("commit")
    /\ UNCHANGED <<host, retained, files, services, reload, history, bounds>>

CommitBegin ==
    /\ At("commit")
    /\ host' = [host EXCEPT !.phase = "committing"]
    /\ Goto("own")
    /\ UNCHANGED <<coord, retained, files, services, reload, history, bounds>>

\* commitLocalDirectoryOwnership: the commit point.  One revision of the
\* signed directory in the handoff moves every route to the candidate.
CommitOwnership ==
    /\ At("own")
    /\ \/ /\ handoff' = [handoff EXCEPT ![Upd].promoted = TRUE]
          /\ retired' = retired \cup {host.source}
          /\ Goto("owned") /\ UNCHANGED bounds
       \/ Fails /\ Failed /\ UNCHANGED <<handoff, retired>>
    /\ UNCHANGED <<coord, host, retained, active, trial, archive, listed,
                   services, reload, owed>>

Owned ==
    /\ At("owned")
    /\ host' = [host EXCEPT !.phase = "ownership_committed"]
    /\ Goto("activate")
    /\ UNCHANGED <<coord, retained, files, services, reload, history, bounds>>

-----------------------------------------------------------------------------
(***************************************************************************)
(* completeCommittedActivation: the merged directory becomes the active    *)
(* one.  It is run again from its first step after a failure or a crash.   *)
(***************************************************************************)

\* Thrown in commitCandidate, the commit is recovered; thrown in
\* recoverCommit, it remains fenced.
ActivationFails ==
    IF mode = "request" THEN Failed /\ UNCHANGED coord
                        ELSE MarkRepairRequired(TRUE)

StopBoth ==
    /\ At("activate")
    /\ \/ /\ main' = "off" /\ lateSeal' = FALSE
          /\ candidate' = [candidate EXCEPT ![Upd] = "off"]
          /\ Goto("archive") /\ UNCHANGED <<coord, bounds>>
       \/ Fails /\ ActivationFails /\ UNCHANGED <<main, lateSeal, candidate>>
    /\ UNCHANGED <<host, retained, files, repair, reload, history>>

ArchiveSource ==
    /\ At("archive")
    /\ IF Exists(handoff[Upd]) /\ Exists(active) /\ ~ Exists(archive[Upd])
       THEN archive' = [archive EXCEPT ![Upd] = active] /\ active' = NoDir
       ELSE UNCHANGED <<archive, active>>
    /\ Goto("install")
    /\ UNCHANGED <<coord, host, retained, trial, handoff, listed, services,
                   reload, history, bounds>>

InstallHandoff ==
    /\ At("install")
    /\ IF Exists(handoff[Upd]) /\ ~ Exists(active)
       THEN /\ active' = handoff[Upd]
            /\ handoff' = [handoff EXCEPT ![Upd] = NoDir]
            /\ listed' = listed \ {Upd}
       ELSE UNCHANGED <<active, handoff, listed>>
    /\ IF active'.promoted THEN Goto("restart") /\ UNCHANGED coord
                           ELSE ActivationFails
    /\ UNCHANGED <<host, retained, trial, archive, services, reload, history,
                   bounds>>

\* Both tracks get their attempt; one that fails does not prevent the other.
RestartTracks ==
    /\ At("restart")
    /\ LET kept == IF host.keeps THEN [repair EXCEPT ![Upd] = "open"]
                                 ELSE repair
       IN \/ /\ main' = "open" /\ repair' = kept
             /\ Goto("complete") /\ UNCHANGED <<coord, bounds>>
          \/ /\ Fails /\ ActivationFails
             /\ main' \in {main, "open"} /\ repair' \in {repair, kept}
    /\ UNCHANGED <<host, retained, files, candidate, lateSeal, reload,
                   history>>

\* The superseded recovery version is forgotten, the record is complete, and
\* the supervisor asks launchd to restart it.
CompleteActivation ==
    /\ At("complete")
    /\ retained' = IF retained.update # Upd THEN NoHost ELSE retained
    /\ host' = [host EXCEPT !.phase = "complete"]
    /\ trial' = [trial EXCEPT ![Upd] = NoDir]
    /\ reload' = TRUE
    /\ Goto("finish")
    /\ UNCHANGED <<coord, active, handoff, archive, listed, services, history,
                   bounds>>

\* finishCommit
Finish ==
    /\ At("finish")
    /\ \/ /\ coord' = [coord EXCEPT !.phase = "steady", !.update = None,
                           !.generation = coord.generation + 1,
                           !.active = Upd, !.commitStarted = FALSE,
                           !.scheduled = FALSE, !.rotated = None,
                           !.recovery = IF host.keeps THEN Upd ELSE None]
          /\ Done /\ UNCHANGED bounds
       \/ /\ Fails
          /\ CASE mode = "request" -> Failed /\ UNCHANGED coord
               [] mode = "retry" -> Done /\ UNCHANGED coord
               [] mode = "boot" -> MarkRepairRequired(TRUE)
    /\ UNCHANGED <<host, retained, files, services, reload, history>>

-----------------------------------------------------------------------------
(***************************************************************************)
(* Recovery: of a commit that may have happened, or back to the trial.     *)
(***************************************************************************)

RecoverCommit ==
    /\ At("recoverCommit")
    /\ \/ /\ host.phase = "none" \/ host.update # Upd
          /\ MarkRepairRequired(TRUE) /\ UNCHANGED host
       \/ /\ host.phase # "none" /\ host.update = Upd /\ Committed
          /\ host' = [host EXCEPT !.phase = "ownership_committed"]
          /\ Goto("activate") /\ UNCHANGED coord
       \/ /\ host.phase # "none" /\ host.update = Upd /\ ~ Committed
          /\ Goto("rollback") /\ UNCHANGED <<coord, host>>
    /\ UNCHANGED <<retained, files, services, reload, history, bounds>>

\* rollbackPreCommit stops the candidate and removes the merged directory.
Rollback ==
    /\ At("rollback")
    /\ \/ /\ Deployed /\ ~ Committed
          /\ candidate' = [candidate EXCEPT ![Upd] = "off"]
          /\ handoff' = [handoff EXCEPT ![Upd] =
                             IF host.phase \in {"preparing", "trial", "sealed"}
                             THEN @ ELSE NoDir]
          /\ Goto("restore") /\ UNCHANGED <<coord, bounds>>
       \/ /\ \/ /\ ~ Deployed \/ Committed
                /\ UNCHANGED bounds
             \/ Deployed /\ Fails
          /\ MarkRepairRequired(FALSE) /\ UNCHANGED <<candidate, handoff>>
    /\ UNCHANGED <<host, retained, active, trial, archive, listed, main,
                   repair, lateSeal, reload, history>>

\* Then both prior Gateways are made to run: the active one is restarted
\* unless its status is as expected, which it is while a seal still waits.
RestorePrior ==
    /\ At("restore")
    /\ \/ /\ Exists(trial[Upd])
          /\ \/ main = "open" /\ UNCHANGED <<main, lateSeal>>
             \/ (main # "open" \/ lateSeal) /\ main' = "open"
                  /\ lateSeal' = FALSE
          /\ candidate' = [candidate EXCEPT ![Upd] = "open"]
          /\ Goto("restored") /\ UNCHANGED <<coord, bounds>>
       \/ /\ \/ ~ Exists(trial[Upd]) /\ UNCHANGED bounds
             \/ Fails
          /\ main' \in {main, "open"} /\ UNCHANGED lateSeal
          /\ \/ UNCHANGED candidate
             \/ candidate' = [candidate EXCEPT ![Upd] = "open"]
          /\ MarkRepairRequired(FALSE)
    /\ UNCHANGED <<host, retained, files, repair, reload, history>>

RecordRestored ==
    /\ At("restored")
    /\ host' = [host EXCEPT !.phase = "trial"]
    /\ pc' = "prepared" /\ mode' = mode
    /\ UNCHANGED <<coord, retained, files, services, reload, history, bounds>>

\* Mutant: an interrupted discard is not resumed.
BootForgetsDiscard ==
    /\ At("down") /\ active \notin {NoDir, EmptyDir}
    /\ pc' = CASE coord.phase = "steady" /\ coord.rotated # None -> "reinstate"
               [] coord.phase = "steady" /\ coord.rotated = None -> "idle"
               [] coord.phase \in {"trial", "discarding"} -> "idle"
               [] coord.phase = "draining" /\ coord.scheduled -> "idle"
               [] coord.phase = "preparing" -> "recoverPreparation"
               [] coord.commitStarted -> "recoverCommit"
               [] OTHER -> "rollback"
    /\ mode' = IF pc' = "idle" THEN "request" ELSE "boot"
    /\ UNCHANGED <<coord, host, retained, files, services, reload, history,
                   bounds>>

\* initialize, after main() has inspected the active directory: reading its
\* identity creates a missing directory (the file lock does), and throws.
Boot ==
    /\ At("down")
    /\ \/ /\ ~ Exists(active) /\ active' = EmptyDir
          /\ UNCHANGED <<pc, mode>>
       \/ /\ active \notin {NoDir, EmptyDir} /\ UNCHANGED active
          /\ pc' = CASE coord.phase = "steady" /\ coord.rotated # None
                          -> "reinstate"
                     [] coord.phase = "steady" /\ coord.rotated = None
                          -> "idle"
                     [] coord.phase = "trial" -> "idle"
                     [] coord.phase = "draining" /\ coord.scheduled -> "idle"
                     [] coord.phase = "preparing" -> "recoverPreparation"
                     [] coord.phase = "discarding" -> "discard"
                     [] coord.commitStarted -> "recoverCommit"
                     [] OTHER -> "rollback"
          /\ mode' = IF pc' = "idle" THEN "request" ELSE "boot"
    /\ UNCHANGED <<coord, host, retained, trial, handoff, archive, listed,
                   services, reload, history, bounds>>

\* A rotation that a crash interrupted is undone; a failure here ends the
\* supervisor, which launchd starts again.
Reinstate ==
    /\ At("reinstate")
    /\ \/ /\ RestoreRecovery(coord.rotated) /\ Done
          /\ coord' = [coord EXCEPT !.rotated = None] /\ UNCHANGED bounds
       \/ /\ RestoreRecoveryThrows(coord.rotated)
          /\ pc' = "down" /\ UNCHANGED <<mode, coord>>
    /\ UNCHANGED <<retained, files, main, candidate, lateSeal, reload,
                   history>>

RecoverPreparation ==
    /\ At("recoverPreparation")
    /\ \/ /\ host.phase = "none" \/ host.update # Upd
          /\ Goto("unwound")
          /\ UNCHANGED <<coord, host, trial, candidate, owed, bounds>>
       \/ /\ host.update = Upd /\ host.phase = "trial"
          /\ \/ /\ candidate[Upd] = "open" /\ Status("trial", FALSE) /\ Done
                /\ UNCHANGED bounds
             \/ Fails /\ MarkRepairRequired(FALSE)
          /\ UNCHANGED <<host, trial, candidate, owed>>
       \/ /\ host.update = Upd /\ host.phase = "preparing"
          /\ \/ /\ candidate' = [candidate EXCEPT ![Upd] = "off"]
                /\ UNCHANGED bounds
             \/ Fails /\ UNCHANGED candidate
          /\ trial' = [trial EXCEPT ![Upd] = NoDir]
          /\ owed' = owed \ trial[Upd].work
          /\ host' = NoHost
          /\ Goto("unwound") /\ UNCHANGED coord
    /\ UNCHANGED <<retained, active, handoff, archive, listed, main, repair,
                   lateSeal, reload, retired>>

-----------------------------------------------------------------------------
(***************************************************************************)
(* The environment: the Gateways work, a forgotten seal takes effect, the  *)
(* supervisor dies or is restarted by launchd.                             *)
(***************************************************************************)

WorkOnActive ==
    \E w \in Work \ owed :
        /\ main = "open"
        /\ active' = [active EXCEPT !.work = @ \cup {w}]
        /\ owed' = owed \cup {w}
        /\ UNCHANGED <<pc, mode, coord, host, retained, trial, handoff,
                       archive, listed, services, reload, retired, bounds>>

WorkOnCandidate ==
    \E w \in Work \ owed, c \in Updates :
        /\ candidate[c] = "open" /\ Exists(trial[c])
        /\ trial' = [trial EXCEPT ![c].work = @ \cup {w}]
        /\ owed' = owed \cup {w}
        /\ UNCHANGED <<pc, mode, coord, host, retained, active, handoff,
                       archive, listed, services, reload, retired, bounds>>

LateSeal ==
    /\ lateSeal /\ lateSeal' = FALSE
    /\ main' \in {main, "off"}
    /\ UNCHANGED <<pc, mode, coord, host, retained, files, candidate, repair,
                   reload, history, bounds>>

Down == /\ pc' = "down" /\ lateSeal' = FALSE /\ reload' = FALSE
        /\ UNCHANGED <<mode, coord, host, retained, files, main, candidate,
                       repair, history, updates, fails, promotions>>

Crash == /\ pc # "down" /\ crashes < MaxCrashes
         /\ crashes' = crashes + 1 /\ Down

Reload == reload /\ pc # "down" /\ UNCHANGED crashes /\ Down

-----------------------------------------------------------------------------
PrepareStep == \/ RotateRecovery \/ Unrotate \/ RecordCandidate
               \/ StartCandidate \/ PublishCandidate \/ CandidateReady
               \/ Prepared \/ Abandon \/ Unwind

PromoteStep == \/ SealCandidate \/ SealActive \/ Drained \/ BuildHandoff
               \/ RecordHandoff \/ StartValidation \/ Validate \/ Transferred
               \/ CommitBegin \/ CommitOwnership \/ Owned \/ StopBoth
               \/ ArchiveSource \/ InstallHandoff \/ RestartTracks
               \/ CompleteActivation \/ Finish

RecoveryStep == \/ RecoverCommit \/ Rollback \/ RestorePrior \/ RecordRestored
                \/ Boot \/ Reinstate \/ RecoverPreparation

\* What the supervisor does without being asked.
SupervisorStep == \/ PrepareStep \/ DiscardCandidate \/ PromotionTimer
                  \/ PromoteStep \/ RecoveryStep

Request == RotateBegin \/ PrepareBegin \/ DiscardBegin \/ SchedulePromote

Environment == WorkOnActive \/ WorkOnCandidate \/ LateSeal \/ Crash \/ Reload

Next == SupervisorStep \/ Request \/ Environment

Spec == Init /\ [][Next]_vars

\* The event loop runs what is ready, launchd (KeepAlive) starts a supervisor
\* that ended and the armed timer fires.  A started preparation goes on.  The
\* supervisor asks to be reloaded 250 ms after the activation, which two file
\* writes do not lose against every time.
Fairness == /\ WF_vars(SupervisorStep)
            /\ SF_vars(Finish)
            /\ WF_vars(PrepareBegin /\ At("rotated"))
            /\ WF_vars(Reload)

FairSpec == Spec /\ Fairness

-----------------------------------------------------------------------------
(***************************************************************************)
(* Properties.                                                             *)
(***************************************************************************)

Dirs == [node : 0..(MaxUpdates + 2), work : SUBSET Work, promoted : BOOLEAN]
Hosts == [phase : HostPhases, update : Nodes, source : Nodes,
          keeps : BOOLEAN]

\* Every variable keeps its type, and the durable coordinator state is one
\* that validateCoordinatorState and the status schema accept: a transaction
\* has an update, a steady computer has none, a commit marker and a schedule
\* exist only in their phases, and a retained version never stands beside a
\* candidate.
TypeOK ==
    /\ pc \in Steps /\ mode \in {"request", "retry", "boot"}
    /\ coord \in [phase : Phases, generation : Nat, active : Nodes,
                  update : Nodes, commitStarted : BOOLEAN,
                  scheduled : BOOLEAN, rotated : Nodes, recovery : Nodes]
    /\ host \in Hosts /\ retained \in Hosts
    /\ active \in Dirs
    /\ trial \in [Updates -> Dirs] /\ handoff \in [Updates -> Dirs]
    /\ archive \in [Updates -> Dirs] /\ listed \subseteq Updates
    /\ main \in {"off", "open"} /\ lateSeal \in BOOLEAN
    /\ candidate \in [Updates -> {"off", "open", "fenced"}]
    /\ repair \in [Updates -> {"off", "open"}]
    /\ reload \in BOOLEAN /\ owed \subseteq Work /\ retired \subseteq Nodes
    /\ updates \in Nodes /\ crashes \in Nat /\ fails \in Nat
    /\ promotions \in Nat
    /\ (coord.phase = "steady") = (Upd = None)
    /\ coord.commitStarted => coord.phase \in {"committing", "repair_required"}
    /\ coord.scheduled => coord.phase = "draining"
    /\ coord.recovery # None => coord.phase = "steady"

\* The directory whose owner is the authoritative generation: the merged one
\* from the ownership commit on, until then the active one.
Authority == IF \E c \in Updates : handoff[c].promoted
             THEN handoff[CHOOSE c \in Updates : handoff[c].promoted]
             ELSE active

\* Switch-all loses no work: whatever a Gateway has done is in the
\* authoritative data, or in the data of a candidate that is still on trial,
\* through every crash, failure, rollback and retry of the promotion.
NoWorkLost ==
    owed \subseteq Authority.work
            \cup UNION {trial[c].work : c \in Updates \ {Authority.node}}

\* Once the ownership commit has happened the old node's Gateway never again
\* runs on the active data path, whatever fails afterwards.
RetiredStaysRetired == main = "open" => active.node \notin retired

\* The services that run on data that exists.
Usable ==
    {d \in {"active"} \X {0} : main = "open"}
    \cup {d \in {"candidate"} \X Updates : candidate[d[2]] # "off"
             /\ (Exists(trial[d[2]]) \/ Exists(handoff[d[2]]))}
    \cup {d \in {"repair"} \X Updates : repair[d[2]] = "open"}

\* "One computer may expose at most two usable Gateway deployments", the
\* retained old version included.
AtMostTwoDeployments == Cardinality(Usable) <= 2

\* Where a promotion, preparation or discard can come to rest.
AtRest == pc = "idle" /\ coord.phase \in {"steady", "trial", "repair_required"}

\* "Killing the coordinator at every durable phase recovers to exactly one
\* authoritative generation": the transaction always comes to rest again.
KilledCoordinatorRecovers == []<>AtRest

\* The same, except for a crash between the two renames of the activation.
TransactionEnds == []<>(AtRest \/ active \in {NoDir, EmptyDir})

\* "Pre-commit ... failures leave the old Gateway usable": when a transaction
\* is at rest in trial or steady, the active Gateway runs.
RestIsServed == AtRest /\ coord.phase # "repair_required" => main = "open"
=============================================================================
