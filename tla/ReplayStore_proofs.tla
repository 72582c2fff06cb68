------------------------- MODULE ReplayStore_proofs -------------------------
(***************************************************************************)
(* The replay store for every number of processes, keys, calls and kills:  *)
(* its type invariant, and the three promises of AtomicJsonFile and        *)
(* FileReplayStore, which hold until one of the two accidents recorded by  *)
(* `overlap' and `relapse' happens.                                        *)
(***************************************************************************)
EXTENDS ReplayStore, TLAPS

\* The types, and that a running transaction has an owner record of its own.
Types ==
    /\ primary \in Contents /\ next \in Contents /\ previous \in Contents
    /\ lock \in Owners
    /\ life \in [Procs -> 0..MaxFaults]
    /\ pc \in [Procs -> Steps]
    /\ call \in [Procs -> Owners]
    /\ key \in [Procs -> Keys \cup {NoKey}]
    /\ now \in [Procs -> SUBSET Keys]
    /\ seen \in [Procs -> Owners] /\ stale \in [Procs -> Owners]
    /\ state \in [Procs -> SUBSET Keys]
    /\ granted \subseteq [key : Keys, by : Owners]
    /\ expired \subseteq Keys
    /\ calls \in 0..MaxCalls /\ faults \in 0..MaxFaults
    /\ overlap \in BOOLEAN /\ relapse \in BOOLEAN
    /\ \A p \in Procs : life[p] <= faults
    /\ \A p \in Procs : pc[p] # "idle" =>
           call[p] # NoOwner /\ call[p].proc = p /\ call[p].life = life[p]

\* From acquire() to the end of release().
Holding == Critical \cup {"release", "unlink"}

\* As long as reclaims do not overlap, who works on the file has the lock,
\* and a reclaimer moves away the exited owner it has inspected.
Locked ==
    ~ overlap =>
        /\ \A p \in Procs : pc[p] \in Holding => lock = call[p]
        /\ \A p \in Procs : pc[p] = "moveLock" =>
               lock = seen[p] /\ lock # NoOwner /\ ~ Alive(lock)
        /\ \A p \in Procs : pc[p] = "compare" => stale[p] = seen[p]
        /\ \A p \in Procs : pc[p] # "putBack"
        /\ \A p, q \in Procs : pc[p] \in Reclaiming /\ pc[q] \in Reclaiming
                                  => p = q
        /\ lock # NoOwner => lock.life <= life[lock.proc]

\* The new state is complete before it takes the place of the old one.
Disk ==
    ~ overlap =>
        /\ primary # Torn /\ previous # Torn
        /\ \A p \in Procs :
               pc[p] \in {"removePrevious", "moveAside", "promote"}
                   => next = Holds(state[p])
        /\ \A p \in Procs : pc[p] = "dropPrevious" => primary # Missing

\* Every claim that was granted and has not expired is in s.
Keeps(s) == \A g \in granted : g.key \in expired \/ g.key \in s

\* The key k is not granted, or has expired.
Free(k) == \A g \in granted : g.key = k => k \in expired

\* From read() to the promotion of the new state, and on to the answer.
Writing == {"removeNext", "openNext", "syncNext", "removePrevious",
            "moveAside", "promote"}

\* Where the granted claims are, at each step of a write.
Claims ==
    Undisturbed =>
        /\ primary # Missing => Keeps(primary.keys)
        /\ primary = Missing /\ next \notin {Missing, Torn} => Keeps(next.keys)
        /\ primary = Missing /\ previous # Missing => Keeps(previous.keys)
        /\ \/ primary # Missing \/ previous # Missing \/ Keeps({})
           \/ \E p \in Procs : pc[p] \in {"moveAside", "promote"}
        /\ \A p \in Procs : pc[p] \in Writing =>
               /\ Keeps(state[p])
               /\ key[p] # NoKey => key[p] \in state[p] /\ Free(key[p])
        /\ \A p \in Procs : pc[p] \in {"dropPrevious", "answer"}
                              /\ key[p] # NoKey =>
               primary # Missing /\ key[p] \in primary.keys /\ Free(key[p])
        /\ \A p \in Procs : now[p] \subseteq expired
        /\ \A g, h \in granted : g.key = h.key /\ g # h => g.key \in expired

Inv == Types /\ Locked /\ Disk /\ Claims

-----------------------------------------------------------------------------
(***************************************************************************)
(* What the paths and the lock hold.                                       *)
(***************************************************************************)

LEMMA FileContents ==
    /\ Missing \in Contents /\ Torn \in Contents /\ Missing # Torn
    /\ \A s \in SUBSET Keys : /\ Holds(s) \in Contents /\ Holds(s).keys = s
                              /\ Holds(s) # Missing /\ Holds(s) # Torn
    /\ \A c \in Contents : \/ c = Missing \/ c = Torn
                           \/ c.keys \in SUBSET Keys /\ c = Holds(c.keys)
<1>1. Missing.file = "missing" /\ Torn.file = "torn"
    BY DEF Missing, Torn
<1>2. ASSUME NEW s PROVE Holds(s).file = "json" /\ Holds(s).keys = s
    BY DEF Holds
<1>3. \A c \in Contents : c = Missing \/ c = Torn \/ \E s \in SUBSET Keys : c = Holds(s)
    BY DEF Contents
<1> QED
    BY <1>1, <1>2, <1>3 DEF Contents

LEMMA OwnerRecords ==
    /\ NoOwner \in Owners /\ NoOwner.id = 0
    /\ \A o \in Owners : o # NoOwner =>
           o.proc \in Procs /\ o.life \in 0..MaxFaults /\ o.id \in 1..MaxCalls
    /\ \A p \in Procs, n \in 1..MaxCalls :
           life[p] \in 0..MaxFaults =>
              /\ Owner(p, n) \in Owners /\ Owner(p, n) # NoOwner
              /\ Owner(p, n).proc = p /\ Owner(p, n).life = life[p]
<1>1. NoOwner.id = 0 /\ NoOwner \in Owners
    BY DEF NoOwner, Owners
<1>2. ASSUME NEW p \in Procs, NEW n \in 1..MaxCalls, life[p] \in 0..MaxFaults
      PROVE  /\ Owner(p, n) \in Owners /\ Owner(p, n) # NoOwner
             /\ Owner(p, n).proc = p /\ Owner(p, n).life = life[p]
    <2>1. Owner(p, n).id = n /\ n # 0
        BY BoundsAreNatural DEF Owner
    <2> QED
        BY <1>1, <1>2, <2>1 DEF Owner, Owners
<1>3. ASSUME NEW o \in Owners, o # NoOwner
      PROVE  o.proc \in Procs /\ o.life \in 0..MaxFaults /\ o.id \in 1..MaxCalls
    BY <1>3 DEF Owners
<1> QED
    BY <1>1, <1>2, <1>3

LEMMA ReadKeys ==
    ASSUME Types, Readable # Torn
    PROVE  (IF Readable = Missing THEN {} ELSE Readable.keys) \in SUBSET Keys
  BY FileContents DEF Types, Readable

LEMMA InitInv == Init => Inv
<1> SUFFICES ASSUME Init PROVE Inv
    OBVIOUS
<1> USE DEF Init
<1>0. {} \in SUBSET Keys /\ Holds({}) \in Contents /\ Missing # Torn
        /\ Holds({}) # Torn /\ Holds({}).keys = {}
    BY FileContents
<1>1. Types
    <2>1. NoOwner \in Owners
        BY OwnerRecords
    <2>2. 0 \in 0..MaxFaults /\ 0 \in 0..MaxCalls
        BY BoundsAreNatural
    <2>3. primary \in Contents /\ next \in Contents /\ previous \in Contents
        BY <1>0, FileContents
    <2>4. "idle" \in Steps
        BY DEF Steps
    <2>5. /\ life \in [Procs -> 0..MaxFaults] /\ pc \in [Procs -> Steps]
          /\ call \in [Procs -> Owners] /\ seen \in [Procs -> Owners]
          /\ stale \in [Procs -> Owners] /\ lock \in Owners
        BY <2>1, <2>2, <2>4
    <2>6. /\ key \in [Procs -> Keys \cup {NoKey}]
          /\ now \in [Procs -> SUBSET Keys] /\ state \in [Procs -> SUBSET Keys]
        BY <1>0
    <2>7. \A p \in Procs : life[p] <= faults /\ pc[p] = "idle"
        OBVIOUS
    <2>8. granted \subseteq [key : Keys, by : Owners] /\ expired \subseteq Keys
        OBVIOUS
    <2>9. overlap \in BOOLEAN /\ relapse \in BOOLEAN
        OBVIOUS
    <2> HIDE DEF Init
    <2>10. calls \in 0..MaxCalls /\ faults \in 0..MaxFaults
        BY <2>2 DEF Init
    <2> QED
        BY <2>3, <2>5, <2>6, <2>7, <2>8, <2>9, <2>10 DEF Types
<1>2. Locked
    BY DEF Locked, Holding, Critical, Reclaiming
<1>3. Disk
    BY <1>0 DEF Disk
<1>4. Claims
    BY <1>0 DEF Claims, Keeps, Free, Writing
<1> QED
    BY <1>1, <1>2, <1>3, <1>4 DEF Inv

-----------------------------------------------------------------------------
(***************************************************************************)
(* Types.                                                                  *)
(***************************************************************************)

LEMMA StepTypes == Types /\ [Next]_vars => Types'
<1> SUFFICES ASSUME Types, [Next]_vars PROVE Types'
    OBVIOUS
<1> USE FileContents, BoundsAreNatural
    DEF Types, At, Goto, Steps, Critical, Reclaiming, disk, local, history
<1>0. NoOwner \in Owners
    BY OwnerRecords
<1>1. ASSUME NEW p \in Procs, Call(p) PROVE Types'
    <2>1. /\ calls' \in 1..MaxCalls /\ Owner(p, calls') \in Owners
          /\ Owner(p, calls') # NoOwner
          /\ Owner(p, calls').proc = p /\ Owner(p, calls').life = life[p]
        BY <1>1, OwnerRecords DEF Call
    <2> QED
        BY <1>1, <2>1 DEF Call
<1>2. ASSUME NEW p \in Procs, Link(p) PROVE Types'
    BY <1>2 DEF Link
<1>3. ASSUME NEW p \in Procs, Inspect(p) PROVE Types'
    BY <1>3 DEF Inspect
<1>4. ASSUME NEW p \in Procs, TimesOut(p) PROVE Types'
    BY <1>4, <1>0 DEF TimesOut, Ends
<1>5. ASSUME NEW p \in Procs, MoveLock(p) PROVE Types'
    BY <1>5, <1>0 DEF MoveLock
<1>6. ASSUME NEW p \in Procs, Compare(p) PROVE Types'
    BY <1>6 DEF Compare
<1>7. ASSUME NEW p \in Procs, PutBack(p) PROVE Types'
    BY <1>7, <1>0 DEF PutBack, Ends
<1>8. ASSUME NEW p \in Procs, Read(p) PROVE Types'
    <2> DEFINE s == IF Readable = Missing THEN {} ELSE Readable.keys
    <2>1. CASE Readable = Torn
        BY <1>8, <2>1 DEF Read
    <2>2. CASE Readable # Torn
        <3>1. Claim(p, s).keys \in SUBSET Keys
            BY <2>2, ReadKeys DEF Claim
        <3> HIDE DEF s
        <3>2. /\ state' = [state EXCEPT ![p] = Claim(p, s).keys]
              /\ key' \in [Procs -> Keys \cup {NoKey}]
              /\ pc' \in [Procs -> Steps] /\ call' = call /\ life' = life
              /\ \A q \in Procs : pc[q] = "idle" => pc'[q] = "idle" \/ q = p
            BY <1>8, <2>2 DEF Read, s
        <3> QED
            BY <1>8, <3>1, <3>2 DEF Read
    <2> QED
        BY <2>1, <2>2
<1>9. ASSUME NEW p \in Procs, RemoveNext(p) PROVE Types'
    BY <1>9 DEF RemoveNext
<1>10. ASSUME NEW p \in Procs, OpenNext(p) PROVE Types'
    BY <1>10 DEF OpenNext
<1>11. ASSUME NEW p \in Procs, SyncNext(p) PROVE Types'
    BY <1>11 DEF SyncNext
<1>12. ASSUME NEW p \in Procs, RemovePrevious(p) PROVE Types'
    BY <1>12 DEF RemovePrevious
<1>13. ASSUME NEW p \in Procs, MoveAside(p) PROVE Types'
    BY <1>13 DEF MoveAside
<1>14. ASSUME NEW p \in Procs, Promote(p) PROVE Types'
    BY <1>14 DEF Promote
<1>15. ASSUME NEW p \in Procs, DropPrevious(p) PROVE Types'
    BY <1>15 DEF DropPrevious
<1>16. ASSUME NEW p \in Procs, Answer(p) PROVE Types'
    <2>1. granted' \subseteq [key : Keys, by : Owners]
        BY <1>16 DEF Answer
    <2> QED
        BY <1>16, <2>1 DEF Answer
<1>17. ASSUME NEW p \in Procs, Release(p) PROVE Types'
    BY <1>17, <1>0 DEF Release, Ends
<1>18. ASSUME NEW p \in Procs, Unlink(p) PROVE Types'
    BY <1>18, <1>0 DEF Unlink, Ends
<1>19. ASSUME NEW p \in Procs, Kill(p) PROVE Types'
    BY <1>19, <1>0 DEF Kill, Ends
<1>20. ASSUME NEW k \in Keys, Expire(k) PROVE Types'
    BY <1>20 DEF Expire
<1>21. CASE UNCHANGED vars
    BY <1>21 DEF vars
<1> QED
    BY <1>1, <1>2, <1>3, <1>4, <1>5, <1>6, <1>7, <1>8, <1>9, <1>10, <1>11, <1>12, <1>13, <1>14, <1>15, <1>16, <1>17, <1>18, <1>19, <1>20, <1>21
    DEF Next, Transact, Acquire, Write

-----------------------------------------------------------------------------
(***************************************************************************)
(* The lock.                                                               *)
(***************************************************************************)

\* The history variables only ever become true.
LEMMA StepHistory ==
    ASSUME Types, [Next]_vars
    PROVE  (~ overlap' => ~ overlap) /\ (~ relapse' => ~ relapse)
  BY DEF Types, Next, vars, history, Transact, Acquire, Write, Call, Link, Inspect,
         TimesOut, MoveLock, Compare, PutBack, Read, RemoveNext, OpenNext,
         SyncNext, RemovePrevious, MoveAside, Promote, DropPrevious, Answer,
         Release, Unlink, Kill, Expire

\* Only one process at a time holds the lock.
LEMMA OneHolder ==
    ASSUME Types, Locked, ~ overlap, NEW p \in Procs, NEW q \in Procs,
           pc[p] \in Holding, pc[q] \in Holding
    PROVE  p = q
  BY DEF Types, Locked, Holding, Critical

\* The lock of a process that works on the file is not that of an exited one.
LEMMA HolderAlive ==
    ASSUME Types, Locked, ~ overlap, NEW p \in Procs, pc[p] \in Holding
    PROVE  lock # NoOwner /\ Alive(lock)
  BY DEF Types, Locked, Holding, Critical, Alive

\* A step that leaves the lock alone, and starts no reclaim.
LEMMA LockFrame ==
    ASSUME Types, Locked, ~ overlap,
           UNCHANGED <<lock, life>>,
           \A q \in Procs :
               /\ pc'[q] \in Holding => pc[q] \in Holding /\ call'[q] = call[q]
               /\ pc'[q] \in Reclaiming =>
                      pc'[q] = pc[q] /\ UNCHANGED <<seen[q], stale[q]>>
    PROVE  Locked'
  BY DEF Locked, Alive, Reclaiming

LEMMA StepLocked ==
    ASSUME Types, Types', Locked, [Next]_vars PROVE Locked'
<1> SUFFICES ASSUME ~ overlap' PROVE Locked'
    BY DEF Locked
<1>0. ~ overlap
    BY StepHistory
<1> USE <1>0
<1> USE DEF At, Goto, Holding, Critical, Reclaiming, local
<1>1. ASSUME NEW p \in Procs, Call(p) PROVE Locked'
    BY <1>1, LockFrame DEF Call, Types
<1>2. ASSUME NEW p \in Procs, Link(p) PROVE Locked'
    <2>1. CASE lock = NoOwner
        <3>1. \A q \in Procs : pc[q] \notin Holding /\ pc[q] # "moveLock"
            BY <2>1, HolderAlive DEF Locked
        <3>2. /\ lock' = call[p] /\ call' = call /\ life' = life
              /\ pc' = [pc EXCEPT ![p] = "read"]
              /\ seen' = seen /\ stale' = stale
            BY <1>2, <2>1 DEF Link
        <3>3. call[p].proc = p /\ call[p].life = life[p] /\ life[p] \in Nat
            BY <1>2, BoundsAreNatural DEF Types, Link
        <3> QED
            BY <3>1, <3>2, <3>3 DEF Types, Locked
    <2>2. CASE lock # NoOwner
        BY <1>2, <2>2, LockFrame DEF Link, Types
    <2> QED
        BY <2>1, <2>2
<1>3. ASSUME NEW p \in Procs, Inspect(p) PROVE Locked'
    <2>1. CASE pc'[p] # "moveLock"
        BY <1>3, <2>1, LockFrame DEF Inspect, Types
    <2>2. CASE pc'[p] = "moveLock"
        <3>1. /\ lock # NoOwner /\ ~ Alive(lock) /\ UNCHANGED <<lock, life, call, stale>>
              /\ seen' = [seen EXCEPT ![p] = lock]
              /\ pc' = [pc EXCEPT ![p] = "moveLock"]
              /\ \A q \in Procs \ {p} : pc[q] \notin Reclaiming
            BY <1>3, <2>2 DEF Inspect, Types
        <3> QED
            BY <3>1 DEF Types, Locked, Alive
    <2> QED
        BY <2>1, <2>2
<1>4. ASSUME NEW p \in Procs, TimesOut(p) PROVE Locked'
    BY <1>4, LockFrame DEF TimesOut, Ends, Types
<1>5. ASSUME NEW p \in Procs, MoveLock(p) PROVE Locked'
    <2>1. /\ lock = seen[p] /\ lock # NoOwner /\ ~ Alive(lock)
          /\ \A q \in Procs : pc[q] \in Reclaiming => q = p
        BY <1>5 DEF MoveLock, Locked
    <2>2. \A q \in Procs : pc[q] \notin Holding
        BY <2>1, HolderAlive
    <2>3. /\ lock' = NoOwner /\ pc' = [pc EXCEPT ![p] = "compare"]
          /\ stale' = [stale EXCEPT ![p] = lock] /\ seen' = seen
        BY <1>5, <2>1 DEF MoveLock
    <2> QED
        BY <2>1, <2>2, <2>3 DEF Types, Locked
<1>6. ASSUME NEW p \in Procs, Compare(p) PROVE Locked'
    <2>1. stale[p] = seen[p]
        BY <1>6 DEF Compare, Locked
    <2> QED
        BY <1>6, <2>1, LockFrame DEF Compare, Types
<1>7. ASSUME NEW p \in Procs, PutBack(p) PROVE Locked'
    BY <1>7 DEF PutBack, Locked
<1>8. ASSUME NEW p \in Procs, Read(p) PROVE Locked'
    <2>1. PICK s \in Holding : pc' = [pc EXCEPT ![p] = s]
        BY <1>8 DEF Read
    <2>2. \A q \in Procs : pc'[q] = pc[q] \/ (q = p /\ pc'[q] \in Holding)
        BY <2>1 DEF Types
    <2> QED
        BY <1>8, <2>2, LockFrame DEF Read
<1>9. ASSUME NEW p \in Procs, Write(p) PROVE Locked'
    <2>0. PICK s \in Holding : pc' = [pc EXCEPT ![p] = s]
        BY <1>9 DEF Write, RemoveNext, OpenNext, SyncNext, RemovePrevious,
                    MoveAside, Promote, DropPrevious
    <2>1. \A q \in Procs : pc'[q] = pc[q] \/ (q = p /\ pc'[q] \in Holding)
        BY <2>0 DEF Types
    <2>2. pc[p] \in Holding /\ UNCHANGED <<lock, life, call, seen, stale>>
        BY <1>9 DEF Write, RemoveNext, OpenNext, SyncNext, RemovePrevious,
                    MoveAside, Promote, DropPrevious
    <2> QED
        BY <2>1, <2>2, LockFrame
<1>10. ASSUME NEW p \in Procs, Answer(p) PROVE Locked'
    BY <1>10, LockFrame DEF Answer, Types
<1>11. ASSUME NEW p \in Procs, Release(p) PROVE Locked'
    BY <1>11, LockFrame DEF Release, Ends, Types
<1>12. ASSUME NEW p \in Procs, Unlink(p) PROVE Locked'
    <2>1. \A q \in Procs : pc[q] \in Holding => q = p
        BY <1>12, OneHolder DEF Unlink
    <2>2. \A q \in Procs : pc[q] # "moveLock"
        BY <1>12, HolderAlive DEF Unlink, Locked
    <2>3. /\ pc' = [pc EXCEPT ![p] = "idle"] /\ lock' = NoOwner
          /\ seen' = [seen EXCEPT ![p] = NoOwner]
          /\ stale' = [stale EXCEPT ![p] = NoOwner]
        BY <1>12 DEF Unlink, Ends
    <2> QED
        BY <2>1, <2>2, <2>3 DEF Types, Locked
<1>13. ASSUME NEW p \in Procs, Kill(p) PROVE Locked'
    <2>1. /\ pc' = [pc EXCEPT ![p] = "idle"] /\ lock' = lock
          /\ call' = [call EXCEPT ![p] = NoOwner]
          /\ seen' = [seen EXCEPT ![p] = NoOwner]
          /\ stale' = [stale EXCEPT ![p] = NoOwner]
          /\ life' = [life EXCEPT ![p] = @ + 1]
        BY <1>13 DEF Kill, Ends
    <2>2. \A q \in Procs : life[q] \in Nat /\ life'[q] \in Nat /\ life'[q] >= life[q]
        BY <2>1, BoundsAreNatural DEF Types
    <2>3. lock # NoOwner => /\ lock.proc \in Procs /\ lock.life \in Nat
                            /\ lock.life <= life[lock.proc]
        BY OwnerRecords, BoundsAreNatural DEF Types, Locked
    <2>4. lock # NoOwner => /\ lock.life <= life'[lock.proc]
                            /\ ~ Alive(lock) => ~ (lock.life = life'[lock.proc])
        BY <2>1, <2>2, <2>3 DEF Alive, Types
    <2> QED
        BY <2>1, <2>4 DEF Types, Locked, Alive
<1>14. ASSUME NEW k \in Keys, Expire(k) PROVE Locked'
    BY <1>14, LockFrame DEF Expire
<1>15. CASE UNCHANGED vars
    BY <1>15, LockFrame DEF vars
<1> QED
    BY <1>1, <1>2, <1>3, <1>4, <1>5, <1>6, <1>7, <1>8, <1>9, <1>10, <1>11, <1>12, <1>13, <1>14, <1>15
    DEF Next, Transact, Acquire

-----------------------------------------------------------------------------
(***************************************************************************)
(* The three paths.                                                        *)
(***************************************************************************)

\* A step that leaves the paths alone.
LEMMA DiskFrame ==
    ASSUME Disk, ~ overlap, UNCHANGED disk,
           \A q \in Procs :
               pc'[q] \in {"removePrevious", "moveAside", "promote",
                           "dropPrevious"}
                   => pc'[q] = pc[q] /\ state'[q] = state[q]
    PROVE  Disk'
  BY DEF Disk, disk

\* While p works on the file, no other process does.
LEMMA OnlyWriter ==
    ASSUME Types, Locked, ~ overlap, NEW p \in Procs, pc[p] \in Critical
    PROVE  \A q \in Procs \ {p} : pc[q] \notin Holding
  BY OneHolder DEF Holding

LEMMA StepDisk ==
    ASSUME Types, Types', Locked, Disk, [Next]_vars PROVE Disk'
<1> SUFFICES ASSUME ~ overlap' PROVE Disk'
    BY DEF Disk
<1>0. ~ overlap
    BY StepHistory
<1> USE <1>0
<1> USE DEF At, Goto, local
<1>1. ASSUME NEW p \in Procs, Call(p) PROVE Disk'
    BY <1>1, DiskFrame DEF Call, Types
<1>2. ASSUME NEW p \in Procs, Acquire(p) PROVE Disk'
    BY <1>2, DiskFrame DEF Acquire, Link, Inspect, TimesOut, MoveLock, Compare,
                           PutBack, Ends, Types
<1>3. ASSUME NEW p \in Procs, Read(p) PROVE Disk'
    <2>1. PICK s \in {"release", "removeNext", "answer"} :
              pc' = [pc EXCEPT ![p] = s]
        BY <1>3 DEF Read
    <2>2. \A q \in Procs \ {p} : state'[q] = state[q]
        BY <1>3 DEF Read, Types
    <2>3. UNCHANGED disk
        BY <1>3 DEF Read
    <2> QED
        BY <2>1, <2>2, <2>3, DiskFrame DEF Types
<1>4. ASSUME NEW p \in Procs, Write(p) PROVE Disk'
    <2>0. pc[p] \in Critical /\ UNCHANGED state
        BY <1>4 DEF Write, RemoveNext, OpenNext, SyncNext, RemovePrevious,
                    MoveAside, Promote, DropPrevious, Critical
    <2>1. \A q \in Procs \ {p} : pc[q] \notin Holding
        BY <2>0, OnlyWriter
    <2> USE <2>0, <2>1, FileContents DEF Holding, Critical, Types, Disk
    <2>2. CASE RemoveNext(p)
        BY <2>2 DEF RemoveNext
    <2>3. CASE OpenNext(p)
        BY <2>3 DEF OpenNext
    <2>4. CASE SyncNext(p)
        BY <2>4 DEF SyncNext
    <2>5. CASE RemovePrevious(p)
        BY <2>5 DEF RemovePrevious
    <2>6. CASE MoveAside(p)
        BY <2>6 DEF MoveAside
    <2>7. CASE Promote(p)
        BY <2>7 DEF Promote
    <2>8. CASE DropPrevious(p)
        BY <2>8 DEF DropPrevious
    <2> QED
        BY <1>4, <2>2, <2>3, <2>4, <2>5, <2>6, <2>7, <2>8 DEF Write
<1>5. ASSUME NEW p \in Procs, Answer(p) \/ Release(p) \/ Unlink(p) PROVE Disk'
    BY <1>5, DiskFrame DEF Answer, Release, Unlink, Ends, Types
<1>6. ASSUME NEW p \in Procs, Kill(p) PROVE Disk'
    BY <1>6, DiskFrame DEF Kill, Ends, Types
<1>7. ASSUME NEW k \in Keys, Expire(k) PROVE Disk'
    BY <1>7, DiskFrame DEF Expire
<1>8. CASE UNCHANGED vars
    BY <1>8, DiskFrame DEF vars
<1> QED
    BY <1>1, <1>2, <1>3, <1>4, <1>5, <1>6, <1>7, <1>8 DEF Next, Transact

-----------------------------------------------------------------------------
(***************************************************************************)
(* The granted claims.                                                     *)
(***************************************************************************)

\* Between read() and the answer.
Deciding == Writing \cup {"dropPrevious", "answer"}

\* A step that leaves the paths and the granted claims alone, lets no process
\* into the write, and takes none out of it that has the only copy.
LEMMA ClaimsFrame ==
    ASSUME Claims, Undisturbed, UNCHANGED <<disk, granted>>,
           expired \subseteq expired',
           \A q \in Procs : pc'[q] \in Deciding =>
               pc'[q] = pc[q] /\ UNCHANGED <<state[q], key[q]>>,
           \A q \in Procs : now'[q] \subseteq expired',
           \/ primary # Missing \/ previous # Missing \/ granted = {}
           \/ \A q \in Procs : pc[q] \in {"moveAside", "promote"} =>
                  pc'[q] = pc[q]
    PROVE  Claims'
<1> USE DEF disk, Deciding
<1>1. \A s : Keeps(s) => Keeps(s)'
    BY DEF Keeps
<1>2. \A k : Free(k) => Free(k)'
    BY DEF Free
<1>3. /\ primary' # Missing => Keeps(primary.keys)'
      /\ primary' = Missing /\ next' \notin {Missing, Torn} => Keeps(next.keys)'
      /\ primary' = Missing /\ previous' # Missing => Keeps(previous.keys)'
    BY DEF Claims, Keeps
<1>4. \/ primary' # Missing \/ previous' # Missing \/ Keeps({})'
      \/ \E q \in Procs : pc'[q] \in {"moveAside", "promote"}
    <2>1. granted = {} => Keeps({})'
        BY DEF Keeps
    <2> QED
        BY <1>1, <2>1 DEF Claims
<1>5. ASSUME NEW q \in Procs, pc'[q] \in Writing
      PROVE  /\ Keeps(state[q])'
             /\ key'[q] # NoKey => key'[q] \in state'[q] /\ Free(key[q])'
    BY <1>5 DEF Claims, Keeps, Free
<1>6. ASSUME NEW q \in Procs, pc'[q] \in {"dropPrevious", "answer"}, key'[q] # NoKey
      PROVE  primary' # Missing /\ key'[q] \in primary'.keys /\ Free(key[q])'
    BY <1>6 DEF Claims, Free
<1>7. \A g, h \in granted' : g.key = h.key /\ g # h => g.key \in expired'
    BY DEF Claims
<1> QED
    BY <1>3, <1>4, <1>5, <1>6, <1>7 DEF Claims

\* read() finds every granted claim, or reports a file that is not JSON.
LEMMA ReadKeepsClaims ==
    ASSUME Types, Locked, Disk, Claims, Undisturbed, NEW p \in Procs,
           pc[p] = "read", Readable # Torn
    PROVE  Keeps(IF Readable = Missing THEN {} ELSE Readable.keys)
<1>0. ~ overlap
    BY DEF Undisturbed
<1>1. \A q \in Procs : pc[q] \notin {"moveAside", "promote"}
    BY <1>0, OnlyWriter DEF Holding, Critical
<1>2. CASE primary # Missing
    BY <1>2 DEF Readable, Claims
<1>3. CASE primary = Missing /\ next # Missing
    BY <1>3 DEF Readable, Claims
<1>4. CASE primary = Missing /\ next = Missing
    BY <1>1, <1>4 DEF Readable, Claims
<1> QED
    BY <1>2, <1>3, <1>4

\* A write in progress: the paths change, the granted claims do not.
LEMMA WriteClaims ==
    ASSUME Types, Types', Locked, Disk, Claims, Undisturbed, NEW p \in Procs,
           Write(p)
    PROVE  Claims'
<1>0. ~ overlap
    BY DEF Undisturbed
<1>1. pc[p] \in Critical /\ UNCHANGED <<state, key, now, granted, expired>>
    BY DEF Write, RemoveNext, OpenNext, SyncNext, RemovePrevious, MoveAside,
           Promote, DropPrevious, Critical, local, At
<1>2. \A q \in Procs \ {p} : pc[q] \notin Holding
    BY <1>0, <1>1, OnlyWriter
<1>3. \A s : Keeps(s)' <=> Keeps(s)
    BY <1>1 DEF Keeps
<1>4. \A k : Free(k)' <=> Free(k)
    BY <1>1 DEF Free
<1>5. ASSUME pc'[p] \notin {"dropPrevious", "answer"},
             \A q \in Procs \ {p} : pc'[q] = pc[q],
             pc'[p] \in Writing => pc[p] \in Writing,
             primary' # Missing => Keeps(primary'.keys),
             primary' = Missing /\ next' \notin {Missing, Torn} => Keeps(next'.keys),
             primary' = Missing /\ previous' # Missing => Keeps(previous'.keys),
             \/ primary' # Missing \/ previous' # Missing \/ Keeps({})
             \/ pc'[p] \in {"moveAside", "promote"}
      PROVE  Claims'
    <2>1. \A q \in Procs : pc'[q] = IF q = p THEN pc'[p] ELSE pc[q]
        BY <1>5
    <2>2. \A q \in Procs \ {p} : pc'[q] \notin Writing \cup {"dropPrevious", "answer"}
        BY <1>2, <2>1 DEF Holding, Critical, Writing
    <2>3. primary' # Missing => Keeps(primary.keys)'
        BY <1>1, <1>5 DEF Keeps
    <2>4. primary' = Missing /\ next' \notin {Missing, Torn} => Keeps(next.keys)'
        BY <1>1, <1>5 DEF Keeps
    <2>5. primary' = Missing /\ previous' # Missing => Keeps(previous.keys)'
        BY <1>1, <1>5 DEF Keeps
    <2>6. \/ primary' # Missing \/ previous' # Missing \/ Keeps({})'
          \/ \E q \in Procs : pc'[q] \in {"moveAside", "promote"}
        BY <1>3, <1>5, <2>1
    <2>7. ASSUME NEW q \in Procs, pc'[q] \in Writing
          PROVE  /\ Keeps(state[q])'
                 /\ key'[q] # NoKey => key'[q] \in state'[q] /\ Free(key[q])'
        <3>1. q = p /\ pc[p] \in Writing
            BY <1>5, <2>1, <2>2, <2>7
        <3> QED
            BY <1>1, <3>1 DEF Claims, Keeps, Free
    <2>8. \A q \in Procs : pc'[q] \notin {"dropPrevious", "answer"}
        BY <1>5, <2>1, <2>2
    <2>9. /\ \A q \in Procs : now'[q] \subseteq expired'
          /\ \A g, h \in granted' : g.key = h.key /\ g # h => g.key \in expired'
        BY <1>1 DEF Claims
    <2> QED
        BY <2>3, <2>4, <2>5, <2>6, <2>7, <2>8, <2>9 DEF Claims
<1> USE <1>0 DEF At, Goto, Writing
<1>6. CASE RemoveNext(p)
    <2>1. \A q \in Procs : pc[q] \notin {"moveAside", "promote"}
        BY <1>2, <1>6 DEF RemoveNext, Holding, Critical
    <2>2. /\ pc[p] \in Writing /\ pc'[p] = "openNext"
          /\ \A q \in Procs \ {p} : pc'[q] = pc[q]
          /\ next' = Missing /\ primary' = primary /\ previous' = previous
        BY <1>6 DEF RemoveNext, Types
    <2>3. /\ primary' # Missing => Keeps(primary'.keys)
          /\ primary' = Missing /\ next' \notin {Missing, Torn} => Keeps(next'.keys)
          /\ primary' = Missing /\ previous' # Missing => Keeps(previous'.keys)
          /\ primary' # Missing \/ previous' # Missing \/ Keeps({})
        BY <2>1, <2>2 DEF Claims
    <2> QED
        BY <1>5, <2>2, <2>3
<1>7. CASE OpenNext(p)
    <2>1. \A q \in Procs : pc[q] \notin {"moveAside", "promote"}
        BY <1>2, <1>7 DEF OpenNext, Holding, Critical
    <2>2. /\ pc[p] \in Writing /\ pc'[p] = "syncNext"
          /\ \A q \in Procs \ {p} : pc'[q] = pc[q]
          /\ next' = Torn /\ primary' = primary /\ previous' = previous
        BY <1>7 DEF OpenNext, Types
    <2>3. /\ primary' # Missing => Keeps(primary'.keys)
          /\ primary' = Missing /\ next' \notin {Missing, Torn} => Keeps(next'.keys)
          /\ primary' = Missing /\ previous' # Missing => Keeps(previous'.keys)
          /\ primary' # Missing \/ previous' # Missing \/ Keeps({})
        BY <2>1, <2>2 DEF Claims
    <2> QED
        BY <1>5, <2>2, <2>3
<1>8. CASE SyncNext(p)
    <2>1. Keeps(Holds(state[p]).keys)
        BY <1>8, FileContents DEF SyncNext, Claims, Types
    <2>2. \A q \in Procs : pc[q] \notin {"moveAside", "promote"}
        BY <1>2, <1>8 DEF SyncNext, Holding, Critical
    <2> QED
        BY <1>5, <1>8, <2>1, <2>2 DEF SyncNext, Claims, Types
<1>9. CASE RemovePrevious(p)
    <2>1. /\ pc[p] \in Writing /\ pc'[p] = "moveAside"
          /\ \A q \in Procs \ {p} : pc'[q] = pc[q]
          /\ previous' = Missing /\ primary' = primary /\ next' = next
        BY <1>9 DEF RemovePrevious, Types
    <2>2. /\ primary' # Missing => Keeps(primary'.keys)
          /\ primary' = Missing /\ next' \notin {Missing, Torn} => Keeps(next'.keys)
          /\ primary' = Missing /\ previous' # Missing => Keeps(previous'.keys)
        BY <2>1 DEF Claims
    <2> QED
        BY <1>5, <2>1, <2>2
<1>10. CASE MoveAside(p)
    <2>1. Keeps(next.keys)
        BY <1>10, FileContents DEF MoveAside, Claims, Disk, Types
    <2> QED
        BY <1>5, <1>10, <2>1 DEF MoveAside, Claims, Types
<1>11. CASE Promote(p)
    <2>1. next = Holds(state[p]) /\ next # Missing /\ next.keys = state[p]
        BY <1>11, FileContents DEF Promote, Disk, Types
    <2>2. /\ primary' = next /\ next' = Missing /\ previous' = previous
          /\ pc' = [pc EXCEPT ![p] = "dropPrevious"]
        BY <1>11, <2>1 DEF Promote
    <2>3. /\ Keeps(state[p])
          /\ key[p] # NoKey => key[p] \in state[p] /\ Free(key[p])
        BY <1>11 DEF Promote, Claims
    <2>4. \A q \in Procs : pc'[q] = IF q = p THEN "dropPrevious" ELSE pc[q]
        BY <2>2 DEF Types
    <2>5. \A q \in Procs : pc'[q] \notin Writing /\ pc'[q] # "answer"
                             /\ (pc'[q] = "dropPrevious" => q = p)
        BY <1>2, <2>4 DEF Holding, Critical
    <2>6. primary' # Missing /\ Keeps(primary.keys)'
        BY <1>1, <2>1, <2>2, <2>3 DEF Keeps
    <2>7. ASSUME NEW q \in Procs, pc'[q] \in {"dropPrevious", "answer"}, key'[q] # NoKey
          PROVE  primary' # Missing /\ key'[q] \in primary'.keys /\ Free(key[q])'
        BY <1>1, <1>4, <2>1, <2>2, <2>3, <2>5, <2>7 DEF Free
    <2>8. /\ \A q \in Procs : now'[q] \subseteq expired'
          /\ \A g, h \in granted' : g.key = h.key /\ g # h => g.key \in expired'
        BY <1>1 DEF Claims
    <2> HIDE DEF Writing
    <2> QED
        BY <2>5, <2>6, <2>7, <2>8 DEF Claims
<1>12. CASE DropPrevious(p)
    <2>1. /\ primary # Missing /\ primary' = primary /\ next' = next
          /\ pc' = [pc EXCEPT ![p] = "answer"]
        BY <1>12 DEF DropPrevious, Disk
    <2>2. \A q \in Procs : pc'[q] = IF q = p THEN "answer" ELSE pc[q]
        BY <2>1 DEF Types
    <2>3. \A q \in Procs : pc'[q] \notin Writing /\ pc'[q] # "dropPrevious"
                             /\ (pc'[q] = "answer" => q = p)
        BY <1>2, <2>2 DEF Holding, Critical
    <2>4. primary' # Missing /\ Keeps(primary.keys)'
        BY <1>1, <2>1 DEF Keeps, Claims
    <2>5. ASSUME NEW q \in Procs, pc'[q] \in {"dropPrevious", "answer"}, key'[q] # NoKey
          PROVE  primary' # Missing /\ key'[q] \in primary'.keys /\ Free(key[q])'
        BY <1>1, <1>4, <1>12, <2>1, <2>3, <2>5 DEF DropPrevious, Free, Claims
    <2>6. /\ \A q \in Procs : now'[q] \subseteq expired'
          /\ \A g, h \in granted' : g.key = h.key /\ g # h => g.key \in expired'
        BY <1>1 DEF Claims
    <2> HIDE DEF Writing
    <2> QED
        BY <2>3, <2>4, <2>5, <2>6 DEF Claims
<1> QED
    BY <1>6, <1>7, <1>8, <1>9, <1>10, <1>11, <1>12 DEF Write

\* Read: the claims of the file are kept, and the caller's key is free.
LEMMA ReadClaims ==
    ASSUME Types, Types', Locked, Disk, Claims, Undisturbed, NEW p \in Procs,
           Read(p)
    PROVE  Claims'
<1>0. ~ overlap
    BY DEF Undisturbed
<1>1. pc[p] = "read" /\ UNCHANGED <<disk, granted, expired, now>>
    BY DEF Read, At
<1>2. \A q \in Procs \ {p} : pc[q] \notin Holding
    BY <1>0, <1>1, OnlyWriter DEF Critical
<1>3. CASE Readable = Torn
    <2>1. pc' = [pc EXCEPT ![p] = "release"] /\ UNCHANGED <<state, key>>
        BY <1>3 DEF Read, Goto
    <2> QED
        BY <1>1, <2>1, ClaimsFrame DEF Types, Deciding, Writing, Claims
<1>4. CASE Readable # Torn
    <2> DEFINE s == IF Readable = Missing THEN {} ELSE Readable.keys
    <2>1. Keeps(s)
        BY <1>1, <1>4, ReadKeepsClaims
    <2> HIDE DEF s
    <2>2. /\ state' = [state EXCEPT ![p] = Claim(p, s).keys]
          /\ key' = [key EXCEPT ![p] = IF Claim(p, s).grant THEN @ ELSE NoKey]
          /\ pc' = [pc EXCEPT ![p] = IF Claim(p, s).keys # s \/ Claim(p, s).grant
                                     THEN "removeNext" ELSE "answer"]
        BY <1>4 DEF Read, Goto, s
    <2>3. now[p] \subseteq expired
        BY DEF Claims
    <2>4. Keeps(Claim(p, s).keys)
        BY <2>1, <2>3 DEF Keeps, Claim
    <2>5. Claim(p, s).grant => key[p] # NoKey /\ key[p] \in Claim(p, s).keys /\ Free(key[p])
        BY <2>1, <2>3 DEF Keeps, Free, Claim
    <2> HIDE DEF Claim
    <2>6. /\ state'[p] = Claim(p, s).keys
          /\ key'[p] # NoKey => Claim(p, s).grant /\ key'[p] = key[p]
          /\ pc'[p] \in {"removeNext", "answer"}
          /\ pc'[p] = "answer" => key'[p] = NoKey
          /\ \A q \in Procs \ {p} : pc'[q] = pc[q]
        BY <2>2 DEF Types
    <2>7. \A q \in Procs \ {p} : pc'[q] \notin Writing \cup {"dropPrevious", "answer"}
        BY <1>2, <2>6 DEF Holding, Critical, Writing
    <2>8. ASSUME NEW q \in Procs, pc'[q] \in Writing
          PROVE  /\ Keeps(state[q])'
                 /\ key'[q] # NoKey => key'[q] \in state'[q] /\ Free(key[q])'
        <3>1. q = p
            BY <2>7, <2>8
        <3> QED
            BY <1>1, <2>4, <2>5, <2>6, <3>1 DEF Keeps, Free
    <2>9. ASSUME NEW q \in Procs, pc'[q] \in {"dropPrevious", "answer"}
          PROVE  key'[q] = NoKey
        BY <2>6, <2>7, <2>9
    <2>10. \A q \in Procs : pc[q] \notin {"moveAside", "promote"}
        BY <1>1, <1>2 DEF Holding, Critical
    <2>11. /\ primary' # Missing => Keeps(primary.keys)'
           /\ primary' = Missing /\ next' \notin {Missing, Torn} => Keeps(next.keys)'
           /\ primary' = Missing /\ previous' # Missing => Keeps(previous.keys)'
           /\ primary' # Missing \/ previous' # Missing \/ Keeps({})'
        BY <1>1, <2>10 DEF Claims, Keeps, disk
    <2>12. /\ \A q \in Procs : now'[q] \subseteq expired'
           /\ \A g, h \in granted' : g.key = h.key /\ g # h => g.key \in expired'
        BY <1>1 DEF Claims
    <2> QED
        BY <2>8, <2>9, <2>11, <2>12 DEF Claims
<1> QED
    BY <1>3, <1>4

\* Answer: the claim that is granted is in the file, and was free.
LEMMA AnswerClaims ==
    ASSUME Types, Types', Locked, Disk, Claims, Undisturbed, NEW p \in Procs,
           Answer(p)
    PROVE  Claims'
<1>0. ~ overlap
    BY DEF Undisturbed
<1>1. /\ pc[p] = "answer" /\ pc' = [pc EXCEPT ![p] = "release"]
      /\ UNCHANGED <<disk, expired, state, key, now>>
    BY DEF Answer, At, Goto, local
<1>2. CASE key[p] = NoKey
    <2>1. granted' = granted
        BY <1>2 DEF Answer
    <2> QED
        BY <1>1, <2>1, ClaimsFrame DEF Types, Deciding, Writing, Claims
<1>3. CASE key[p] # NoKey
    <2> DEFINE g == [key |-> key[p], by |-> call[p]]
    <2>1. granted' = granted \cup {g} /\ g.key = key[p]
        BY <1>3 DEF Answer
    <2> HIDE DEF g
    <2>2. primary # Missing /\ key[p] \in primary.keys /\ Free(key[p])
        BY <1>1, <1>3 DEF Claims
    <2>3. Keeps(primary.keys)'
        BY <1>1, <2>1, <2>2 DEF Claims, Keeps, disk
    <2>4. \A x, y \in granted' : x.key = y.key /\ x # y => x.key \in expired'
        BY <1>1, <2>1, <2>2 DEF Claims, Free
    <2>5. \A q \in Procs : pc'[q] \notin Writing \cup {"dropPrevious", "answer"}
        <3>1. \A q \in Procs \ {p} : pc[q] \notin Holding
            BY <1>0, <1>1, OnlyWriter DEF Critical
        <3> QED
            BY <1>1, <3>1 DEF Types, Holding, Critical, Writing
    <2>6. \A q \in Procs : now'[q] \subseteq expired'
        BY <1>1 DEF Claims
    <2> QED
        BY <1>1, <2>2, <2>3, <2>4, <2>5, <2>6 DEF Claims, disk
<1> QED
    BY <1>2, <1>3

LEMMA StepClaims ==
    ASSUME Types, Types', Locked, Disk, Claims, [Next]_vars PROVE Claims'
<1> SUFFICES ASSUME Undisturbed' PROVE Claims'
    BY DEF Claims
<1>0. Undisturbed
    BY StepHistory DEF Undisturbed
<1> USE <1>0
<1>1. ASSUME NEW p \in Procs, Call(p) PROVE Claims'
    BY <1>1, ClaimsFrame DEF Call, Types, At, Goto, Deciding, Writing, Claims
<1>2. ASSUME NEW p \in Procs, Acquire(p) PROVE Claims'
    <2>1. PICK s \in {"read", "inspect", "link", "moveLock", "compare",
                      "putBack", "idle"} : pc' = [pc EXCEPT ![p] = s]
        BY <1>2 DEF Acquire, Link, Inspect, TimesOut, MoveLock, Compare, PutBack,
                    Ends, Goto
    <2>2. /\ UNCHANGED <<disk, granted, expired>>
          /\ pc[p] \notin {"moveAside", "promote"}
          /\ \A q \in Procs \ {p} : UNCHANGED <<state[q], key[q]>>
          /\ \A q \in Procs : now'[q] = now[q] \/ now'[q] = {}
        BY <1>2 DEF Acquire, Link, Inspect, TimesOut, MoveLock, Compare, PutBack,
                    Ends, Goto, At, Types, local
    <2> QED
        BY <2>1, <2>2, ClaimsFrame DEF Types, Deciding, Writing, Claims
<1>3. ASSUME NEW p \in Procs, Read(p) PROVE Claims'
    BY <1>3, ReadClaims
<1>4. ASSUME NEW p \in Procs, Write(p) PROVE Claims'
    BY <1>4, WriteClaims
<1>5. ASSUME NEW p \in Procs, Answer(p) PROVE Claims'
    BY <1>5, AnswerClaims
<1>6. ASSUME NEW p \in Procs, Release(p) \/ Unlink(p) PROVE Claims'
    BY <1>6, ClaimsFrame DEF Release, Unlink, Ends, Types, At, Goto, Deciding,
                             Writing, Claims, local
<1>7. ASSUME NEW p \in Procs, Kill(p) PROVE Claims'
    <2>1. ~ OnlyCopy(p)
        BY <1>7 DEF Kill, Undisturbed
    <2>2. \/ primary # Missing \/ previous # Missing \/ granted = {}
          \/ pc[p] \notin {"moveAside", "promote"}
        BY <2>1 DEF OnlyCopy
    <2> QED
        BY <1>7, <2>2, ClaimsFrame DEF Kill, Ends, Types, Goto, Deciding, Writing,
                                       Claims
<1>8. ASSUME NEW k \in Keys, Expire(k) PROVE Claims'
    BY <1>8, ClaimsFrame DEF Expire, Claims, local
<1>9. CASE UNCHANGED vars
    BY <1>9, ClaimsFrame DEF vars, Claims, local
<1> QED
    BY <1>1, <1>2, <1>3, <1>4, <1>5, <1>6, <1>7, <1>8, <1>9 DEF Next, Transact

-----------------------------------------------------------------------------
(***************************************************************************)
(* The theorems.                                                           *)
(***************************************************************************)

\* The store is always in a state the proof's invariant describes: who works
\* on the file holds its lock, the new state is complete before it replaces
\* the old one, and every granted claim is where the next read() looks.
THEOREM StoreInvariant == Spec => []Inv
<1>1. Inv /\ [Next]_vars => Inv'
    BY StepTypes, StepLocked, StepDisk, StepClaims DEF Inv
<1> QED
    BY <1>1, InitInv, PTL DEF Spec

\* TypeOK: the variables of every transaction and of the file are of their
\* types, and without overlapping reclaims neither the state file nor
\* `.previous' is ever an incomplete write.
THEOREM StoreTypeCorrect == Spec => []TypeOK
<1>1. Inv => TypeOK
    BY DEF Inv, Types, Disk, TypeOK
<1> QED
    BY <1>1, StoreInvariant, PTL

\* OneWriter: as long as no two processes reclaim a lock at once, at most one
\* is between acquire() and release(), wherever processes are killed.
THEOREM OneWriterAtATime == Spec => []OneWriter
<1>1. Inv => OneWriter
    BY OneHolder DEF Inv, OneWriter, Holding
<1> QED
    BY <1>1, StoreInvariant, PTL

\* GrantedOnce: FileReplayStore grants an unexpired key to one call only, for
\* every number of processes, unless one of the two accidents has happened.
THEOREM KeyGrantedOnce == Spec => []GrantedOnce
<1>1. Inv => GrantedOnce
    BY DEF Inv, Claims, GrantedOnce
<1> QED
    BY <1>1, StoreInvariant, PTL

\* GrantsSurvive: a granted claim is in whatever read() recovers, wherever a
\* write was cut short, unless one of the two accidents has happened.
THEOREM GrantsAreKept == Spec => []GrantsSurvive
<1>1. Inv => GrantsSurvive
    <2> SUFFICES ASSUME Inv, Undisturbed, NEW g \in granted,
                        g.key \notin expired, Readable # Torn
                 PROVE  Readable # Missing /\ g.key \in Readable.keys
        BY DEF GrantsSurvive
    <2> USE DEF Inv
    <2>1. CASE primary # Missing
        BY <2>1 DEF Readable, Claims, Keeps
    <2>2. CASE primary = Missing /\ next # Missing
        BY <2>2 DEF Readable, Claims, Keeps
    <2>3. CASE primary = Missing /\ next = Missing
        <3>1. \A p \in Procs : pc[p] \notin {"moveAside", "promote"}
            <4>1. ~ overlap
                BY DEF Undisturbed
            <4> QED
                BY <2>3, <4>1, FileContents DEF Disk, Types
        <3> QED
            BY <2>3, <3>1 DEF Readable, Claims, Keeps
    <2> QED
        BY <2>1, <2>2, <2>3
<1> QED
    BY <1>1, StoreInvariant, PTL

=============================================================================
