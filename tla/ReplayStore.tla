----------------------------- MODULE ReplayStore -----------------------------
(***************************************************************************)
(* The durable claim store of packages/security: FileReplayStore over      *)
(* AtomicJsonFile, its cross-process lock and its crash-safe replacement.  *)
(*                                                                         *)
(* Several processes claim keys in one file.  `pc' is where the running    *)
(* transaction of a process is, between two calls of the file system, so   *)
(* that another process, or a crash, can come between any two of them.     *)
(* The content of the file is the set of keys it holds.                    *)
(***************************************************************************)
EXTENDS Naturals, FiniteSets

CONSTANTS
    Procs,      \* processes, each with one store instance for the file
    Keys,       \* nonces and command IDs
    NoKey,      \* what prune() claims
    MaxCalls,   \* bound: claims and prunes started
    MaxFaults   \* bound: processes killed and writes that fail

ASSUME BoundsAreNatural == MaxCalls \in Nat /\ MaxFaults \in Nat
ASSUME NoKeyIsNoKey == NoKey \notin Keys

VARIABLES
    primary, next, previous,   \* the state file, `.next' and `.previous'
    lock,       \* the owner record at `.lock'
    life,       \* process -> its start marker
    pc,         \* process -> the next call of its transaction
    call,       \* process -> the owner record of its transaction
    key,        \* process -> the key it claims
    now,        \* process -> the keys expired when it called
    seen,       \* process -> the owner record it found at `.lock'
    stale,      \* process -> the owner record it moved away
    state,      \* process -> the state its transaction works on
    granted,    \* the claims answered with true
    expired,    \* keys whose expiry has passed
    overlap,    \* history: two processes have reclaimed a lock at once
    relapse,    \* history: a kill has left `.next' as the only copy
    calls, faults

disk == <<primary, next, previous>>
local == <<call, key, now, seen, stale, state>>
history == <<overlap, relapse>>
vars == <<disk, lock, life, pc, local, granted, expired, history, calls,
          faults>>

\* What a path holds besides a set of keys.
Missing == [file |-> "missing"]
Torn == [file |-> "torn"]
Holds(s) == [file |-> "json", keys |-> s]
Contents == {Missing, Torn} \cup {Holds(s) : s \in SUBSET Keys}

NoOwner == [proc |-> "none", life |-> 0, id |-> 0]
Owner(p, n) == [proc |-> p, life |-> life[p], id |-> n]
Owners == {NoOwner} \cup [proc : Procs, life : 0..MaxFaults, id : 1..MaxCalls]

\* processExists and the comparison of the start marker.
Alive(o) == o.life = life[o.proc]

Critical == {"read", "removeNext", "openNext", "syncNext", "removePrevious",
             "moveAside", "promote", "dropPrevious", "answer"}

\* Inside reclaimExitedOwner, once it has found the owner exited.
Reclaiming == {"moveLock", "compare", "putBack"}

Steps == Critical \cup Reclaiming
            \cup {"idle", "link", "inspect", "release", "unlink"}

Init ==
    /\ primary \in {Missing, Holds({})} /\ next = Missing /\ previous = Missing
    /\ lock = NoOwner
    /\ life = [p \in Procs |-> 0]
    /\ pc = [p \in Procs |-> "idle"]
    /\ call = [p \in Procs |-> NoOwner]
    /\ key = [p \in Procs |-> NoKey]
    /\ now = [p \in Procs |-> {}]
    /\ seen = [p \in Procs |-> NoOwner]
    /\ stale = [p \in Procs |-> NoOwner]
    /\ state = [p \in Procs |-> {}]
    /\ granted = {} /\ expired = {} /\ calls = 0 /\ faults = 0
    /\ overlap = FALSE /\ relapse = FALSE

-----------------------------------------------------------------------------
(***************************************************************************)
(* transaction(): take the lock.                                           *)
(***************************************************************************)

At(p, s) == pc[p] = s
Goto(p, s) == pc' = [pc EXCEPT ![p] = s]

\* The transaction is over, and so are its variables.
Ends(p) ==
    /\ Goto(p, "idle")
    /\ call' = [call EXCEPT ![p] = NoOwner]
    /\ key' = [key EXCEPT ![p] = NoKey]
    /\ now' = [now EXCEPT ![p] = {}]
    /\ seen' = [seen EXCEPT ![p] = NoOwner]
    /\ stale' = [stale EXCEPT ![p] = NoOwner]
    /\ state' = [state EXCEPT ![p] = {}]

\* claimAll of one key, or prune.  The caller read the clock: it refuses an
\* expired key, and passes the time on.
Call(p) ==
    \E k \in (Keys \ expired) \cup {NoKey} :
        /\ At(p, "idle") /\ calls < MaxCalls
        /\ calls' = calls + 1
        /\ call' = [call EXCEPT ![p] = Owner(p, calls')]
        /\ key' = [key EXCEPT ![p] = k]
        /\ now' = [now EXCEPT ![p] = expired]
        /\ Goto(p, "link")
        /\ UNCHANGED <<disk, lock, life, seen, stale, state, granted, expired,
                       history, faults>>

\* acquire publishes the complete owner record with one hard link.
Link(p) ==
    /\ At(p, "link")
    /\ \/ lock = NoOwner /\ lock' = call[p] /\ Goto(p, "read")
       \/ lock # NoOwner /\ Goto(p, "inspect") /\ UNCHANGED lock
    /\ UNCHANGED <<disk, life, local, granted, expired, history, calls,
                   faults>>

\* Mutant: an owner that takes too long is taken for an exited one.
InspectImpatient(p) ==
    /\ At(p, "inspect")
    /\ \/ Goto(p, "link") /\ UNCHANGED <<seen, overlap>>
       \/ /\ lock # NoOwner
          /\ seen' = [seen EXCEPT ![p] = lock] /\ Goto(p, "moveLock")
          /\ overlap' = (overlap \/ \E q \in Procs \ {p} : pc[q] \in Reclaiming)
    /\ UNCHANGED <<disk, lock, life, call, key, now, stale, state, granted,
                   expired, relapse, calls, faults>>

\* reclaimExitedOwner reads the record.  A live owner, or one whose process
\* ID is taken by a process it cannot tell apart, is waited for.
Inspect(p) ==
    /\ At(p, "inspect")
    /\ \/ Goto(p, "link") /\ UNCHANGED <<seen, overlap>>
       \/ /\ lock # NoOwner /\ ~ Alive(lock)
          /\ seen' = [seen EXCEPT ![p] = lock] /\ Goto(p, "moveLock")
          /\ overlap' = (overlap \/ \E q \in Procs \ {p} : pc[q] \in Reclaiming)
    /\ UNCHANGED <<disk, lock, life, call, key, now, stale, state, granted,
                   expired, relapse, calls, faults>>

\* The deadline passed: the caller gets an error.
TimesOut(p) ==
    /\ At(p, "inspect") /\ Ends(p)
    /\ UNCHANGED <<disk, lock, life, granted, expired, history, calls,
                   faults>>

\* It moves away whatever is at the path now.
MoveLock(p) ==
    /\ At(p, "moveLock")
    /\ \/ lock = NoOwner /\ Goto(p, "link") /\ UNCHANGED stale
       \/ /\ lock # NoOwner /\ Goto(p, "compare")
          /\ stale' = [stale EXCEPT ![p] = lock]
    /\ lock' = NoOwner
    /\ UNCHANGED <<disk, life, call, key, now, seen, state, granted,
                   expired, history, calls, faults>>

Compare(p) ==
    /\ At(p, "compare")
    /\ IF stale[p] = seen[p] THEN Goto(p, "link") ELSE Goto(p, "putBack")
    /\ UNCHANGED <<disk, lock, life, local, granted, expired, history,
                   calls, faults>>

\* The record was not the one inspected: it is put back, over whatever came
\* to the path meanwhile, and the caller gets an error.
PutBack(p) ==
    /\ At(p, "putBack")
    /\ lock' = stale[p] /\ Ends(p)
    /\ UNCHANGED <<disk, life, granted, expired, history, calls, faults>>

-----------------------------------------------------------------------------
(***************************************************************************)
(* transaction(): read, operate, write.                                    *)
(***************************************************************************)

\* read(): the first of the three paths that is there.
Readable == CASE primary # Missing -> primary
              [] primary = Missing /\ next # Missing -> next
              [] primary = Missing /\ next = Missing -> previous

\* Mutant: a key that is already in the store is granted once more.
ClaimUnchecked(p, s) ==
    [grant |-> key[p] # NoKey,
     keys  |-> (s \ now[p]) \cup ({key[p]} \ {NoKey})]

\* claimAll, of one key (several are claimed all or none, in the same write):
\* prune, then claim a key that nobody holds; prune alone grants nothing.
Claim(p, s) ==
    [grant |-> key[p] # NoKey /\ key[p] \notin s \ now[p],
     keys  |-> (s \ now[p]) \cup ({key[p]} \ {NoKey})]

\* An invalid file is an error; the operation decides whether to write.
Read(p) ==
    /\ At(p, "read")
    /\ LET s == IF Readable = Missing THEN {} ELSE Readable.keys
       IN IF Readable = Torn
          THEN Goto(p, "release") /\ UNCHANGED <<state, key>>
          ELSE /\ state' = [state EXCEPT ![p] = Claim(p, s).keys]
               /\ key' = [key EXCEPT ![p] = IF Claim(p, s).grant THEN @
                                                                 ELSE NoKey]
               /\ Goto(p, IF Claim(p, s).keys # s \/ Claim(p, s).grant
                          THEN "removeNext" ELSE "answer")
    /\ UNCHANGED <<disk, lock, life, call, now, seen, stale, granted,
                   expired, history, calls, faults>>

\* Mutant: both leftovers are removed before the new state is written.
RemoveLeftovers(p) ==
    /\ At(p, "removeNext") /\ next' = Missing /\ previous' = Missing
    /\ Goto(p, "openNext")
    /\ UNCHANGED <<primary, lock, life, local, granted, expired, history,
                   calls, faults>>

RemoveNext(p) ==
    /\ At(p, "removeNext") /\ next' = Missing /\ Goto(p, "openNext")
    /\ UNCHANGED <<primary, previous, lock, life, local, granted, expired,
                   history, calls, faults>>

OpenNext(p) ==
    /\ At(p, "openNext") /\ next' = Torn /\ Goto(p, "syncNext")
    /\ UNCHANGED <<primary, previous, lock, life, local, granted, expired,
                   history, calls, faults>>

\* A write that fails (a full disk) leaves what it had written.
SyncNext(p) ==
    /\ At(p, "syncNext")
    /\ \/ next' = Holds(state[p]) /\ Goto(p, "removePrevious")
            /\ UNCHANGED faults
       \/ /\ faults < MaxFaults /\ faults' = faults + 1
          /\ Goto(p, "release") /\ UNCHANGED next
    /\ UNCHANGED <<primary, previous, lock, life, local, granted, expired,
                   history, calls>>

RemovePrevious(p) ==
    /\ At(p, "removePrevious") /\ previous' = Missing /\ Goto(p, "moveAside")
    /\ UNCHANGED <<primary, next, lock, life, local, granted, expired,
                   history, calls, faults>>

\* Mutant: the new state is not synced before the old one is moved aside.
MoveAsideUnsynced(p) ==
    /\ At(p, "moveAside")
    /\ previous' = IF primary = Missing THEN previous ELSE primary
    /\ primary' = Missing /\ Goto(p, "promote")
    /\ next' \in {next, Torn}
    /\ UNCHANGED <<lock, life, local, granted, expired, history, calls,
                   faults>>

MoveAside(p) ==
    /\ At(p, "moveAside")
    /\ previous' = IF primary = Missing THEN previous ELSE primary
    /\ primary' = Missing /\ Goto(p, "promote")
    /\ UNCHANGED <<next, lock, life, local, granted, expired, history,
                   calls, faults>>

\* With two writers at work the file may be gone, which is an error.
Promote(p) ==
    /\ At(p, "promote")
    /\ IF next = Missing
       THEN Goto(p, "release") /\ UNCHANGED <<primary, next>>
       ELSE primary' = next /\ next' = Missing /\ Goto(p, "dropPrevious")
    /\ UNCHANGED <<previous, lock, life, local, granted, expired, history,
                   calls, faults>>

DropPrevious(p) ==
    /\ At(p, "dropPrevious") /\ previous' = Missing /\ Goto(p, "answer")
    /\ UNCHANGED <<primary, next, lock, life, local, granted, expired,
                   history, calls, faults>>

\* The result is settled; the caller gets it once the lock is released.
Answer(p) ==
    /\ At(p, "answer")
    /\ granted' = IF key[p] = NoKey THEN granted
                  ELSE granted \cup {[key |-> key[p], by |-> call[p]]}
    /\ Goto(p, "release")
    /\ UNCHANGED <<disk, lock, life, local, expired, history, calls, faults>>

-----------------------------------------------------------------------------
(***************************************************************************)
(* transaction(): release the lock, if it is still the caller's.           *)
(***************************************************************************)

Release(p) ==
    /\ At(p, "release")
    /\ IF lock = call[p] THEN Goto(p, "unlink") /\ UNCHANGED local
                         ELSE Ends(p)
    /\ UNCHANGED <<disk, lock, life, granted, expired, history, calls,
                   faults>>

Unlink(p) ==
    /\ At(p, "unlink") /\ lock' = NoOwner /\ Ends(p)
    /\ UNCHANGED <<disk, life, granted, expired, history, calls, faults>>

\* The write of p follows one that was killed, and has removed `.previous':
\* its `.next' is all there is.
OnlyCopy(p) == /\ pc[p] \in {"moveAside", "promote"} /\ granted # {}
               /\ primary = Missing /\ previous = Missing

\* A process is killed at any call, and another is started in its place.
Kill(p) ==
    /\ faults < MaxFaults /\ faults' = faults + 1
    /\ life' = [life EXCEPT ![p] = @ + 1]
    /\ relapse' = (relapse \/ OnlyCopy(p))
    /\ Ends(p)
    /\ UNCHANGED <<disk, lock, granted, expired, overlap, calls>>

Expire(k) ==
    /\ expired' = expired \cup {k} /\ k \notin expired
    /\ UNCHANGED <<disk, lock, life, pc, local, granted, history, calls,
                   faults>>

-----------------------------------------------------------------------------
Acquire(p) == \/ Link(p) \/ Inspect(p) \/ TimesOut(p) \/ MoveLock(p)
              \/ Compare(p) \/ PutBack(p)

Write(p) == \/ RemoveNext(p) \/ OpenNext(p) \/ SyncNext(p)
            \/ RemovePrevious(p) \/ MoveAside(p) \/ Promote(p)
            \/ DropPrevious(p)

Transact(p) == \/ Acquire(p) \/ Read(p) \/ Write(p) \/ Answer(p)
               \/ Release(p) \/ Unlink(p)

Next == \/ \E p \in Procs : Call(p) \/ Transact(p) \/ Kill(p)
        \/ \E k \in Keys : Expire(k)

Spec == Init /\ [][Next]_vars

-----------------------------------------------------------------------------
(***************************************************************************)
(* Properties.                                                             *)
(***************************************************************************)

TypeOK ==
    /\ primary \in Contents /\ next \in Contents /\ previous \in Contents
    /\ lock \in Owners
    /\ life \in [Procs -> 0..MaxFaults]
    /\ pc \in [Procs -> Steps]
    /\ call \in [Procs -> Owners]
    /\ key \in [Procs -> Keys \cup {NoKey}]
    /\ now \in [Procs -> SUBSET Keys]
    /\ seen \in [Procs -> Owners] /\ stale \in [Procs -> Owners]
    /\ state \in [Procs -> SUBSET Keys]
    /\ granted \subseteq [key : Keys, by : Owners]
    /\ expired \subseteq Keys
    /\ calls \in 0..MaxCalls /\ faults \in 0..MaxFaults
    /\ overlap \in BOOLEAN /\ relapse \in BOOLEAN
    /\ overlap \/ Torn \notin {primary, previous}

\* At most one process is between acquire() and release(), as long as no two
\* of them have been inside reclaimExitedOwner at once: the second would move
\* away the lock of the first.
OneWriter ==
    overlap \/ \A p, q \in Procs : pc[p] \in Critical /\ pc[q] \in Critical
                                      => p = q

\* Neither of the two accidents that the store does not survive has happened:
\* overlapping reclaims, and a kill inside the write that follows a kill.
Undisturbed == ~ overlap /\ ~ relapse

\* "Multiple gateway processes using the same local filesystem cannot both
\* win a claim": a key is granted to one call until it expires, wherever the
\* processes are killed.
GrantedOnce ==
    Undisturbed => \A g, h \in granted : g.key = h.key /\ g # h
                                             => g.key \in expired

\* A claim that was answered with true is in every state that can be read
\* afterwards, until it expires: no crash, failed write or recovery from
\* `.next' or `.previous' brings back a state without it.
GrantsSurvive ==
    Undisturbed => \A g \in granted :
                       \/ g.key \in expired
                       \/ Readable = Torn
                       \/ Readable # Missing /\ g.key \in Readable.keys

\* "A missing primary with `.next` present means the process stopped after
\* moving the old state aside but before promoting the fully synced state."
NextIsSynced ==
    (\A p \in Procs : pc[p] \notin Critical)
        /\ primary = Missing /\ next # Missing => next # Torn
=============================================================================
