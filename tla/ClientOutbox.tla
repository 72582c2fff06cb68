---------------------------- MODULE ClientOutbox ----------------------------
(***************************************************************************)
(* The durable command outbox of the Android client: DurableCommandOutbox, *)
(* which every change of a command goes through, and the jobs of           *)
(* NativeClientRuntime that transmit, recover and reconcile its commands   *)
(* against a homeserver and a Gateway.                                     *)
(*                                                                         *)
(* A command is known by its ID, 1..issued, and was asked for under an     *)
(* idempotency key.  The snapshot (`key', `state') is durable: commit()    *)
(* writes it before it is used.  The store of signed contents keeps them in*)
(* memory and writes them all at each change, which may fail.  The jobs are*)
(* not durable.  A request that a job no longer waits for may still reach  *)
(* the homeserver.  The Workspace may revoke the device: the module is     *)
(* about one pairing, which a new one or disconnect(revoke = true) ends.   *)
(***************************************************************************)
EXTENDS Naturals, FiniteSets

CONSTANTS
    Keys,           \* idempotency keys of the web client's requests
    Probes,         \* those of read-only Gateway status probes
    MaxIds,         \* bound: commands created
    MaxActive,      \* MAX_ACTIVE_COMMANDS
    MaxReleased,    \* MAX_RELEASED_TOMBSTONES
    MaxFaults       \* bound: crashes, failed sends, disconnects, revocation

ASSUME BoundsAreNatural ==
    MaxIds \in Nat /\ MaxActive \in Nat /\ MaxReleased \in Nat
        /\ MaxFaults \in Nat
ASSUME ProbesAreKeys == Probes \subseteq Keys /\ Keys # {}

Ids == 1..MaxIds

VARIABLES
    issued,     \* commands created
    key,        \* command -> its idempotency key
    state,      \* command -> its durable state; "released" is a tombstone
    saved,      \* commands whose exact signed content the store holds
    stored,     \* those whose content is also in the store's file
    lost,       \* those whose content is gone, and not signed again since
    sender,     \* command -> the step of the coroutine that transmits it
    armed,      \* commands with a scheduled recovery job
    ready,      \* the transport is connected and the state synchronized
    access,     \* "granted", "blocked" when revoked, "revoked" when revoked
                \* and not known to this process
    wire,       \* requests on their way to the homeserver
    landed,     \* commands the homeserver has an event of
    probed,     \* reconciliation copies the homeserver has
    gateway,    \* command -> what the Gateway made of it
    cut,        \* commands whose job was cancelled, and nothing else done
    faults      \* how many of these have happened

contents == <<saved, stored, lost>>
records == <<issued, key, state, contents>>
jobs == <<sender, armed, ready>>
remote == <<wire, landed, probed, gateway>>
vars == <<records, jobs, access, remote, cut, faults>>

Active == {"queued", "transmitting", "recovery", "published", "running"}
States == Active \cup {"none", "done", "released"}

Init ==
    /\ issued = 0 /\ saved = {} /\ stored = {} /\ lost = {}
    /\ key = [i \in Ids |-> CHOOSE k \in Keys : TRUE]
    /\ state = [i \in Ids |-> "none"]
    /\ sender = [i \in Ids |-> "none"] /\ armed = {} /\ ready = TRUE
    /\ access = "granted"
    /\ wire = {} /\ landed = {} /\ probed = {}
    /\ gateway = [i \in Ids |-> "none"]
    /\ cut = {} /\ faults = 0

-----------------------------------------------------------------------------
InState(s) == {i \in 1..issued : state[i] = s}
Commands == {i \in 1..issued : state[i] \in Active \cup {"done"}}
Released == InState("released")
Unfinished(i) == state[i] \in Active
UnfinishedProbes == {i \in Commands : Unfinished(i) /\ key[i] \in Probes}

Fault == faults < MaxFaults /\ faults' = faults + 1

Becomes(i, s) == state' = [state EXCEPT ![i] = s]

\* launchCommandTransmission, of commands without an active job.
Launched(s, S) == [i \in Ids |-> IF i \in S /\ s[i] = "none" THEN "send"
                                                             ELSE s[i]]

\* Cancelled jobs leave their requests on the wire, and one that has its
\* answer does not suspend before it is recorded.
Cancelled(S) == [i \in Ids |-> IF i \in S /\ sender[i] # "accepted"
                               THEN "none" ELSE sender[i]]

\* AtomicEncryptedMatrixMlp3CommandContentStore.remove writes all the others.
Removed(S) ==
    /\ saved' = saved \ S
    /\ stored' = IF S \cap saved = {} THEN stored ELSE saved'
    /\ lost' = lost \ S

\* A command leaves the outbox for the ledger of tombstones: its jobs are
\* cancelled and its content is removed.
Tombstones(S) ==
    /\ state' = [i \in Ids |-> IF i \in S THEN "released" ELSE state[i]]
    /\ Removed(S)
    /\ armed' = armed \ S

\* The jobs are cancelled before the ledger is asked: when it is full the
\* command stays, without anybody to go on with it.
GivenUp(i) ==
    /\ sender' = Cancelled({i})
    /\ IF Cardinality(Released) < MaxReleased
       THEN Tombstones({i}) /\ UNCHANGED cut
       ELSE /\ armed' = armed \ {i} /\ UNCHANGED <<state, contents>>
            /\ cut' = IF Unfinished(i) /\ sender[i] # "accepted"
                      THEN cut \cup {i} ELSE cut

-----------------------------------------------------------------------------
(***************************************************************************)
(* sendCommand and enqueue: one command for one key, for ever.             *)
(***************************************************************************)

\* Mutant: the tombstones are not looked at.
KnownUnreleased(k) == \E i \in Commands : key[i] = k

\* The key belongs to a command, or to one that was released.
Known(k) == \E i \in Commands \cup Released : key[i] = k

\* The expired probes S make room for the new command.
Create(k, S) ==
    /\ issued < MaxIds
    /\ Cardinality(Released) + Cardinality(S) <= MaxReleased
    /\ Cardinality(Commands) - Cardinality(S) < MaxActive
    /\ issued' = issued + 1
    /\ key' = [key EXCEPT ![issued'] = k]
    /\ state' = [i \in Ids |-> IF i = issued' THEN "queued"
                               ELSE IF i \in S THEN "released" ELSE state[i]]
    /\ Removed(S)
    /\ armed' = armed \ S
    /\ sender' = Launched(Cancelled(S), {issued'})

Enqueue(k) ==
    /\ ready /\ ~ Known(k)
    /\ Create(k, IF k \in Probes THEN UnfinishedProbes ELSE {})
    /\ UNCHANGED <<ready, access, remote, cut, faults>>

\* A probe of the last two minutes is reused, and its duplicates retired.
ReuseProbe(k, r) ==
    LET S == UnfinishedProbes \ {r} IN
    /\ ready /\ k \in Probes /\ ~ Known(k) /\ r \in UnfinishedProbes
    /\ Cardinality(Released) + Cardinality(S) <= MaxReleased
    /\ Tombstones(S)
    /\ sender' = Launched(Cancelled(S), {r} \cap InState("queued"))
    /\ UNCHANGED <<issued, key, ready, access, remote, cut, faults>>

\* The request of a known key, or recoverCommand: the command is taken up
\* where it is.
TakeUp(i) ==
    /\ access # "blocked" /\ i \in Commands /\ Unfinished(i)
    /\ \/ state[i] = "queued" /\ sender' = Launched(sender, {i})
            /\ UNCHANGED armed
       \/ /\ state[i] = "recovery" /\ armed' = armed \cup {i}
          /\ sender' = Cancelled({i})
    /\ UNCHANGED <<records, ready, access, remote, cut, faults>>

-----------------------------------------------------------------------------
(***************************************************************************)
(* transmit: one sender at a time (commandSendMutex).                      *)
(***************************************************************************)

Idle == \A i \in Ids : sender[i] \in {"none", "send", "recover"}

\* claimForTransmission and claimRecovery.
Claim(i) ==
    /\ sender[i] \in {"send", "recover"} /\ Idle
    /\ IF state[i] = (IF sender[i] = "send" THEN "queued" ELSE "recovery")
       THEN Becomes(i, "transmitting")
            /\ sender' = [sender EXCEPT ![i] = IF @ = "send" THEN "sign"
                                               ELSE "signRecovery"]
       ELSE sender' = [sender EXCEPT ![i] = "none"] /\ UNCHANGED state
    /\ UNCHANGED <<issued, key, contents, armed, ready, access, remote, cut, faults>>

\* Mutant: the content is built for every send and not stored.
SignUnsaved(i) ==
    /\ sender[i] \in {"sign", "signRecovery"}
    /\ wire' = wire \cup {i}
    /\ sender' = [sender EXCEPT ![i] = IF @ = "sign" THEN "wait"
                                                     ELSE "waitRecovery"]
    /\ UNCHANGED <<records, armed, ready, landed, probed, gateway, access, cut, faults>>

\* signedCommandContent stores the content, or finds it, and the request
\* goes out under the command's transaction ID.
Sign(i) ==
    /\ sender[i] \in {"sign", "signRecovery"}
    /\ saved' = saved \cup {i}
    /\ stored' = IF i \in saved THEN stored ELSE saved'
    /\ lost' = lost \ {i}
    /\ wire' = wire \cup {i}
    /\ sender' = [sender EXCEPT ![i] = IF @ = "sign" THEN "wait"
                                                     ELSE "waitRecovery"]
    /\ UNCHANGED <<issued, key, state, armed, ready, landed, probed, gateway,
                   access, cut, faults>>

\* The homeserver answers: its event is there, of this or an earlier send.
Accepted(i) ==
    /\ sender[i] \in {"wait", "waitRecovery"} /\ i \in landed
    /\ sender' = [sender EXCEPT ![i] = "accepted"]
    /\ UNCHANGED <<records, armed, ready, access, remote, cut, faults>>

\* Mutant: publication is recorded without looking at the state.
PublishedOver(i) ==
    IF state[i] \in {"running", "released"} THEN state
    ELSE [state EXCEPT ![i] = "published"]

\* recordPublished: a terminal that won the race stays, and so does progress.
Published(i) ==
    IF state[i] \in {"running", "done", "released"} THEN state
    ELSE [state EXCEPT ![i] = "published"]

RecordPublished(i) ==
    /\ sender[i] = "accepted"
    /\ state' = Published(i)
    /\ sender' = [sender EXCEPT ![i] = "none"]
    /\ UNCHANGED <<issued, key, contents, armed, ready, access, remote, cut, faults>>

\* The send fails, or nobody knows: a command that is still current is marked
\* for recovery and a recovery is scheduled.  The content of a failed write
\* stays in memory, where the next attempt finds it.  A recovery that fails
\* with an IllegalArgumentException, wherever it comes from, is retired.
SendFails(i) ==
    /\ sender[i] \in {"sign", "signRecovery", "wait", "waitRecovery"}
    /\ Fault
    /\ sender' = [sender EXCEPT ![i] = "none"]
    /\ IF state[i] \in {"done", "released"}
       THEN UNCHANGED <<state, contents, armed>>
       ELSE \/ /\ state' = [state EXCEPT ![i] = IF @ = "transmitting"
                                                THEN "recovery" ELSE @]
               /\ armed' = armed \cup {i}
               /\ \/ UNCHANGED saved
                  \/ sender[i] \in {"sign", "signRecovery"}
                       /\ saved' = saved \cup {i}
               /\ UNCHANGED <<stored, lost>>
            \/ /\ sender[i] \in {"signRecovery", "waitRecovery"}
               /\ Cardinality(Released) < MaxReleased /\ Tombstones({i})
    /\ UNCHANGED <<issued, key, ready, access, remote, cut>>

\* startPublishedCommandResultRecovery: the exact content is sent once more
\* under a new transaction ID.
Reconcile(i) ==
    /\ ready /\ state[i] \in {"published", "running"}
    /\ i \in saved /\ i \notin probed /\ Idle
    /\ probed' = probed \cup {i}
    /\ UNCHANGED <<records, jobs, wire, landed, gateway, access, cut, faults>>

\* The recovery job: a command whose project is gone, or whose purpose the
\* projected session state already satisfies, is retired; one that left its
\* state meanwhile is left alone; any other is sent again.
RecoveryFires(i) ==
    /\ i \in armed /\ ready /\ sender[i] = "none"
    /\ \/ state[i] = "recovery" /\ GivenUp(i)
       \/ /\ state[i] = "recovery"
          /\ sender' = [sender EXCEPT ![i] = "recover"]
          /\ armed' = armed \ {i} /\ UNCHANGED <<state, contents, cut>>
       \/ /\ state[i] # "recovery"
          /\ armed' = armed \ {i} /\ UNCHANGED <<state, contents, sender, cut>>
    /\ UNCHANGED <<issued, key, ready, access, remote, faults>>

-----------------------------------------------------------------------------
(***************************************************************************)
(* Signed Gateway events, and the release of a command.                    *)
(***************************************************************************)

\* A revoked device still receives the room's events.
Synced == ready \/ access = "blocked"

\* recordProgress
Progress(i) ==
    /\ Synced /\ gateway[i] # "none" /\ Unfinished(i) /\ state[i] # "running"
    /\ Becomes(i, "running")
    /\ armed' = armed \ {i}
    /\ UNCHANGED <<issued, key, contents, sender, ready, access, remote, cut, faults>>

\* recordCompletion
Complete(i) ==
    /\ Synced /\ gateway[i] = "done" /\ Unfinished(i)
    /\ Becomes(i, "done")
    /\ armed' = armed \ {i} /\ sender' = Cancelled({i})
    /\ UNCHANGED <<issued, key, contents, ready, access, remote, cut, faults>>

\* Mutant: the ledger of tombstones is not bounded.
ReleaseUnbounded(i) ==
    /\ i \in Commands /\ (state[i] = "done" \/ key[i] \in Probes)
    /\ Tombstones({i}) /\ sender' = Cancelled({i})
    /\ UNCHANGED <<issued, key, ready, access, remote, cut, faults>>

\* release: of a terminal command, or of a probe whatever its state.
Release(i) ==
    /\ i \in Commands /\ (state[i] = "done" \/ key[i] \in Probes)
    /\ GivenUp(i)
    /\ UNCHANGED <<issued, key, ready, access, remote, faults>>

\* retireUnverifiedCommand: the user gives a command up.
Retire(i) ==
    /\ i \in Commands /\ GivenUp(i)
    /\ UNCHANGED <<issued, key, ready, access, remote, faults>>

-----------------------------------------------------------------------------
(***************************************************************************)
(* The process: it loses its transport, gets it back, or dies.             *)
(***************************************************************************)

\* disconnect(revoke = false) cancels every job and leaves the states.
Disconnect ==
    /\ ready /\ Fault
    /\ ready' = FALSE /\ sender' = Cancelled(Ids) /\ armed' = {}
    /\ cut' = cut \cup {i \in InState("transmitting") : sender[i] # "accepted"}
    /\ UNCHANGED <<records, access, remote>>

\* schedulePendingCommandRecoveries, when the transport is ready again.
Connect ==
    /\ ~ ready /\ ready' = TRUE /\ access # "blocked"
    /\ sender' = Launched(sender, InState("queued"))
    /\ armed' = armed \cup InState("recovery")
    /\ UNCHANGED <<records, access, remote, cut, faults>>

\* acceptWorkspaceDeviceRevocation: every job is cancelled and every content
\* is cleared; the commands stay.  The Workspace has revoked the device before
\* and for good; what the Gateway ignored since then is not executed yet.  A
\* new process does not know of the revocation until it has read it again.
AcceptRevocation ==
    /\ access # "blocked" /\ access' = "blocked"
    /\ IF access = "granted" THEN Fault ELSE UNCHANGED faults
    /\ ready' = FALSE /\ sender' = Cancelled(Ids) /\ armed' = {}
    /\ cut' = cut \cup {i \in InState("transmitting") : sender[i] # "accepted"}
    /\ saved' = {} /\ stored' = {} /\ lost' = lost \cup saved
    /\ UNCHANGED <<issued, key, state, remote>>

\* acceptMatrixMlp3GatewayState does not ask for the revocation: a state that
\* changed launches the queued commands (a recovery ends unsynchronized).
StateChanges ==
    /\ access = "blocked"
    /\ sender' = Launched(sender, InState("queued"))
    /\ UNCHANGED <<records, armed, ready, access, remote, cut, faults>>

\* Mutant: an interrupted transmission is not marked for recovery.
ReopenedAsIs(i) == state[i]

\* The constructor of the outbox: an interrupted transmission is uncertain.
Reopened(i) == IF state[i] = "transmitting" THEN "recovery" ELSE state[i]

\* The process dies and is started again.  Probes have no caller any more:
\* those the ledger has room for are retired.
Crash ==
    \E S \in SUBSET UnfinishedProbes :
        /\ Fault
        /\ LET room == MaxReleased - Cardinality(Released) IN
           \/ Cardinality(UnfinishedProbes) <= room /\ S = UnfinishedProbes
           \/ Cardinality(UnfinishedProbes) > room /\ Cardinality(S) = room
        /\ state' = [i \in Ids |-> IF i \in S THEN "released" ELSE Reopened(i)]
        /\ saved' = stored \ S /\ stored' = saved'
        /\ lost' = (lost \cup (saved \ stored)) \ S
        /\ access' = IF access = "blocked" THEN "revoked" ELSE access
        /\ sender' = [i \in Ids |-> "none"] /\ armed' = {} /\ ready' = FALSE
        /\ cut' = {}
        /\ UNCHANGED <<issued, key, remote>>

-----------------------------------------------------------------------------
(***************************************************************************)
(* The homeserver keeps one event per transaction ID.  The Gateway runs a  *)
(* command ID once, and answers a reconciliation from its journal.         *)
(***************************************************************************)

Land(i) ==
    /\ i \in wire /\ wire' = wire \ {i}
    /\ landed' = landed \cup {i}
    /\ UNCHANGED <<records, jobs, probed, gateway, access, cut, faults>>

\* A request that nobody waits for may be lost.
Drop(i) ==
    /\ i \in wire /\ sender[i] \notin {"wait", "waitRecovery"}
    /\ wire' = wire \ {i}
    /\ UNCHANGED <<records, jobs, landed, probed, gateway, access, cut, faults>>

Execute(i) ==
    /\ i \in landed \cup probed
    /\ \/ gateway[i] = "none" /\ access = "granted"
            /\ gateway' = [gateway EXCEPT ![i] = "running"]
       \/ gateway[i] = "running" /\ gateway' = [gateway EXCEPT ![i] = "done"]
    /\ UNCHANGED <<records, jobs, wire, landed, probed, access, cut, faults>>

-----------------------------------------------------------------------------
Transmit(i) == \/ Claim(i) \/ Sign(i) \/ Accepted(i) \/ RecordPublished(i)
               \/ RecoveryFires(i)

Delivered(i) == Land(i) \/ Execute(i)

Request == \/ \E k \in Keys : Enqueue(k)
           \/ \E k \in Keys, r \in Ids : ReuseProbe(k, r)
           \/ \E i \in Ids : TakeUp(i) \/ Reconcile(i) \/ Release(i) \/ Retire(i)

Next == \/ Request
        \/ \E i \in Ids : \/ Transmit(i) \/ SendFails(i)
                          \/ Progress(i) \/ Complete(i)
                          \/ Delivered(i) \/ Drop(i)
        \/ Disconnect \/ Connect \/ Crash
        \/ AcceptRevocation \/ StateChanges

Spec == Init /\ [][Next]_vars

\* Coroutines run, timers fire and the transport comes back; requests that
\* are waited for arrive, and the Gateway's terminal is synchronized.  Strong
\* for the claim: recoverCommand cannot for ever be asked between the
\* immediate recovery and its claim.
Fairness == /\ \A i \in Ids : /\ WF_vars(Transmit(i)) /\ SF_vars(Claim(i))
                              /\ WF_vars(Delivered(i))
                              /\ WF_vars(Complete(i))
            /\ WF_vars(Connect)

FairSpec == Spec /\ Fairness

-----------------------------------------------------------------------------
(***************************************************************************)
(* Properties.                                                             *)
(***************************************************************************)

SenderSteps == {"none", "send", "recover", "sign", "signRecovery", "wait",
                "waitRecovery", "accepted"}

\* Every variable keeps its type, and the two limits of the outbox hold.
TypeOK ==
    /\ issued \in 0..MaxIds
    /\ key \in [Ids -> Keys] /\ state \in [Ids -> States]
    /\ stored \subseteq saved /\ saved \subseteq Ids /\ lost \subseteq Ids
    /\ access \in {"granted", "revoked", "blocked"}
    /\ armed \subseteq Ids /\ ready \in BOOLEAN
    /\ sender \in [Ids -> SenderSteps]
    /\ wire \subseteq Ids /\ landed \subseteq Ids /\ probed \subseteq Ids
    /\ gateway \in [Ids -> {"none", "running", "done"}]
    /\ cut \subseteq Ids
    /\ faults \in 0..MaxFaults
    /\ \A i \in Ids : (state[i] = "none") = (i > issued)
    /\ Cardinality(Commands) <= MaxActive
    /\ Cardinality(Released) <= MaxReleased

\* "Retiring recovery can never make the action executable a second time":
\* the Gateway executes at most one command of an idempotency key, however
\* often the web client repeats the request, whatever is released, retired,
\* cancelled, lost or restarted in between.
KeyExecutedOnce ==
    \A i, j \in Ids : gateway[i] # "none" /\ gateway[j] # "none"
                        /\ key[i] = key[j] => i = j

\* A command that Matrix may have accepted can be reconciled: the store holds
\* its exact signed content from before the request leaves until the command
\* is released.  It is lost in two ways only: the device's revocation clears
\* the store, or the process dies after a write of the content failed and
\* before the store was written again.
ReconcilableOnceSent ==
    \A i \in wire \cup landed :
        state[i] # "released" => i \in saved \cup lost

\* A signed terminal is final: no late publication, failed send, progress,
\* recovery or restart takes a completed command back.
TerminalIsFinal ==
    [][\A i \in Ids : state[i] \in {"done", "released"}
                        => state'[i] \in {state[i], "released"}]_vars

\* "The native outbox resumes queued sends and transport-uncertain sends
\* without a WebView": every command is completed or released, except one
\* whose job was cancelled while the process went on, by a disconnect or for
\* the full ledger's sake, and those of a device that is revoked.
EveryCommandEnds ==
    \A i \in Ids : (i <= issued) ~> (state[i] \in {"done", "released"}
                                       \/ i \in cut \/ access # "granted")
=============================================================================
