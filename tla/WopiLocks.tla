------------------------------ MODULE WopiLocks ------------------------------
(***************************************************************************)
(* The locks of Office documents and the writes they protect: apply,       *)
(* withFileLock and pruneExpired of packages/db/src/repos/wopi-locks.ts,   *)
(* transitionWopiLock, the provider-wide write scope of                    *)
(* office-write-scope.ts, and PutFile, PutRelative and the lock requests   *)
(* of apps/api/src/office/writes.ts.                                       *)
(*                                                                         *)
(* A request is one database transaction.  Its advisory locks (the gate of *)
(* the provider, one per file) and the rows it has pruned stay locked to   *)
(* its end, through the upload of a save.  Postgres aborts one transaction *)
(* of a cycle that wait for each other.  The clock is that of the one API  *)
(* host; a lock request reads it when it arrives, a save when it has the   *)
(* lock of its file.                                                       *)
(***************************************************************************)
EXTENDS Integers, FiniteSets

CONSTANTS
    OfficeFiles,
    LockIds,
    WopiRequests,   \* requests under way
    WopiScripts,    \* what the requests ask: kind, file, id, old, target
    LockTTL,        \* WOPI_LOCK_TTL_MS in ticks
    PruneLimit,     \* rows one prune takes (100)
    LastTick,       \* bound: how far the clock goes
    Aborts          \* bound: requests that fail on their way

LockKinds == {"lock", "refresh", "unlock", "relock"}

WopiInputs == [kind : LockKinds \union {"put", "copy"}, file : OfficeFiles,
               id : LockIds, old : LockIds, target : OfficeFiles]

ASSUME WopiScriptsAssumption ==
    WopiScripts \subseteq [WopiRequests -> WopiInputs]
ASSUME WopiNumbersAssumption ==
    LockTTL \in Nat \ {0} /\ PruneLimit \in Nat \ {0} /\ {LastTick, Aborts} \subseteq Nat

NoRow == [id |-> "none", until |-> 0]

NobodyLocks == "nobody"

ASSUME WopiRequestsAssumption == NobodyLocks \notin WopiRequests

WopiSteps == {"new", "gate", "file", "prune", "write", "target", "check",
              "upload", "ok", "conflict", "error"}

VARIABLES
    rows,        \* app.wopi_locks, committed
    request,     \* what each request asks, where it is, the clock it read
    gate,        \* who holds the provider's write scope
    fileLocks,   \* who holds the advisory lock of each file
    pruned,      \* rows each transaction has deleted and not committed
    believed,    \* how long each lock id was granted on each file
    tick,
    aborts

wopiVars == <<rows, request, gate, fileLocks, pruned, believed, tick, aborts>>

NewWopiRequest(input) == [step |-> "new", now |-> 0, seen |-> NoRow, asks |-> input]

(* A file is unlocked, has a lock that is over, or one that is live. *)
WopiInit ==
    /\ \E held \in [OfficeFiles -> {0, LockTTL} \union {-1}], x \in LockIds :
           rows = [f \in OfficeFiles |->
                       IF held[f] = -1 THEN NoRow ELSE [id |-> x, until |-> held[f]]]
    /\ \E script \in WopiScripts :
           request = [r \in WopiRequests |-> NewWopiRequest(script[r])]
    /\ gate = NobodyLocks
    /\ fileLocks = [f \in OfficeFiles |-> NobodyLocks]
    /\ pruned = [r \in WopiRequests |-> {}]
    /\ believed = [f \in OfficeFiles |->
                       [x \in LockIds |-> IF rows[f].id = x THEN rows[f].until ELSE 0]]
    /\ tick = 0
    /\ aborts = 0

Asks(r) == request[r].asks

Is(r, step) == request[r].step = step

Goto(r, step) == [request EXCEPT ![r].step = step]

(* transitionWopiLock: a lock is live before its expiry.  A request must    *)
(* name the live lock, and only a new lock may find the file unlocked.      *)
LiveAt(row, now) == row # NoRow /\ row.until > now

Matched(r) ==
    LET a == Asks(r)
        live == LiveAt(request[r].seen, request[r].now)
    IN
    \/ live /\ request[r].seen.id = (IF a.kind = "relock" THEN a.old ELSE a.id)
    \/ ~live /\ a.kind = "lock"

(***************************************************************************)
(* Locks.  The end of a transaction, either way, releases what it holds;   *)
(* advisory locks are re-entrant.                                          *)
(***************************************************************************)
FileLockFree_Shared(r, f) == TRUE

FileLockFree(r, f) == fileLocks[f] \in {NobodyLocks, r}

RowLockers(r, f) == {s \in WopiRequests \ {r} : f \in pruned[s]}

LocksEnd_OnlyGate(r) ==
    /\ gate' = IF gate = r THEN NobodyLocks ELSE gate
    /\ fileLocks' = fileLocks
    /\ pruned' = [pruned EXCEPT ![r] = {}]

LocksEnd(r) ==
    /\ gate' = IF gate = r THEN NobodyLocks ELSE gate
    /\ fileLocks' = [f \in OfficeFiles |->
                         IF fileLocks[f] = r THEN NobodyLocks ELSE fileLocks[f]]
    /\ pruned' = [pruned EXCEPT ![r] = {}]

RowsWithoutPruned(r) ==
    [f \in OfficeFiles |-> IF f \in pruned[r] THEN NoRow ELSE rows[f]]

(* A lock request reads the clock when it arrives; writes take the gate. *)
Arrive(r) ==
    LET writes == Asks(r).kind \in {"put", "copy"} IN
    /\ Is(r, "new")
    /\ request' = [request EXCEPT ![r].step = IF writes THEN "gate" ELSE "file",
                                  ![r].now = tick]
    /\ UNCHANGED <<rows, gate, fileLocks, pruned, believed, tick, aborts>>

(* A copy that names no lock goes straight to its target. *)
TakeGate(r) ==
    /\ Is(r, "gate")
    /\ gate = NobodyLocks
    /\ gate' = r
    /\ \E next \in {"file"} \union (IF Asks(r).kind = "copy" THEN {"target"} ELSE {}) :
           request' = Goto(r, next)
    /\ UNCHANGED <<rows, fileLocks, pruned, believed, tick, aborts>>

TakeFileLock(r) ==
    LET f == IF Is(r, "file") THEN Asks(r).file ELSE Asks(r).target IN
    /\ Is(r, "file") \/ Is(r, "target")
    /\ FileLockFree(r, f)
    /\ fileLocks' = [fileLocks EXCEPT ![f] = r]
    /\ request' = Goto(r, IF Is(r, "file") THEN "prune" ELSE "check")
    /\ UNCHANGED <<rows, gate, pruned, believed, tick, aborts>>

(***************************************************************************)
(* pruneExpired: the oldest rows that are over and that no other           *)
(* transaction holds, at most PruneLimit of them.  They are deleted and    *)
(* stay locked.  Then the row of file f is read.                           *)
(***************************************************************************)
Over_TooSoon(row, now) == row # NoRow /\ row.until <= now + 1

Over(row, now) == row # NoRow /\ row.until <= now

Prunes(r, now) ==
    LET taken == UNION {pruned[s] : s \in WopiRequests}
        over == {f \in OfficeFiles \ taken : Over(rows[f], now)}
        batch == IF Cardinality(over) < PruneLimit THEN Cardinality(over) ELSE PruneLimit
    IN  {S \in SUBSET over :
            /\ Cardinality(S) = batch
            /\ \A f \in S, g \in over \ S : rows[f].until <= rows[g].until}

PrunesAndReads(r, f, now, seen) ==
    \E S \in Prunes(r, now) :
        /\ pruned' = [pruned EXCEPT ![r] = @ \union S]
        /\ seen = IF f \in pruned'[r] THEN NoRow ELSE rows[f]

RowsSeen == {NoRow} \union {rows[f] : f \in OfficeFiles}

PruneForLock(r) ==
    /\ Is(r, "prune") /\ Asks(r).kind \in LockKinds
    /\ \E seen \in RowsSeen :
           /\ PrunesAndReads(r, Asks(r).file, request[r].now, seen)
           /\ request' = [request EXCEPT ![r].step = "write", ![r].seen = seen]
    /\ UNCHANGED <<rows, gate, fileLocks, believed, tick, aborts>>

(***************************************************************************)
(* The lock row is written and the transaction commits.  Writing a row     *)
(* another transaction has pruned waits for that transaction.              *)
(***************************************************************************)
Granted(r) ==
    LET a == Asks(r)
        until == request[r].now + LockTTL
    IN
    IF a.kind = "unlock"
    THEN /\ rows' = [RowsWithoutPruned(r) EXCEPT ![a.file] = NoRow]
         /\ believed' = [believed EXCEPT ![a.file][a.id] = 0]
    ELSE /\ rows' = [RowsWithoutPruned(r) EXCEPT ![a.file] = [id |-> a.id, until |-> until]]
         /\ believed' = [believed EXCEPT ![a.file] =
                [x \in LockIds |-> IF x = a.id THEN until
                                   ELSE IF a.kind = "relock" /\ x = a.old THEN 0
                                   ELSE @[x]]]

WriteLock(r) ==
    /\ Is(r, "write")
    /\ Matched(r)
    /\ RowLockers(r, Asks(r).file) = {}
    /\ Granted(r)
    /\ request' = Goto(r, "ok")
    /\ LocksEnd(r)
    /\ UNCHANGED <<tick, aborts>>

RefuseLock(r) ==
    /\ Is(r, "write")
    /\ ~Matched(r)
    /\ rows' = RowsWithoutPruned(r)
    /\ request' = Goto(r, "conflict")
    /\ LocksEnd(r)
    /\ UNCHANGED <<believed, tick, aborts>>

(***************************************************************************)
(* requireMatchingLock: the lock of the file must be the one provided; a   *)
(* file without a lock may be saved only while it is empty, and copied.    *)
(* The target of a copy must be unlocked.                                  *)
(***************************************************************************)
Passes(r, seen) ==
    LET live == LiveAt(seen, tick) IN
    IF Is(r, "check") THEN ~live ELSE ~live \/ seen.id = Asks(r).id

MustPass(r, seen) ==
    Passes(r, seen) /\ (LiveAt(seen, tick) \/ Asks(r).kind = "copy")

AfterCheck(r) ==
    IF Is(r, "prune") /\ Asks(r).kind = "copy" THEN "target" ELSE "upload"

CheckLock(r) ==
    /\ \/ Is(r, "prune") /\ Asks(r).kind \in {"put", "copy"}
       \/ Is(r, "check")
    /\ \E seen \in RowsSeen :
           /\ PrunesAndReads(r, IF Is(r, "check") THEN Asks(r).target ELSE Asks(r).file,
                             tick, seen)
           /\ Passes(r, seen)
           /\ request' = [request EXCEPT ![r].step = AfterCheck(r), ![r].seen = seen]
    /\ UNCHANGED <<rows, gate, fileLocks, believed, tick, aborts>>

(* A refusal is thrown, so the transaction with its pruning is rolled back. *)
CheckRefuses(r) ==
    /\ \/ Is(r, "prune") /\ Asks(r).kind \in {"put", "copy"}
       \/ Is(r, "check")
    /\ LET f == IF Is(r, "check") THEN Asks(r).target ELSE Asks(r).file
           seen == IF Over(rows[f], tick) THEN NoRow ELSE rows[f]
       IN ~MustPass(r, seen)
    /\ request' = Goto(r, "conflict")
    /\ LocksEnd(r)
    /\ UNCHANGED <<rows, believed, tick, aborts>>

SaveEnds(r) ==
    /\ Is(r, "upload")
    /\ rows' = RowsWithoutPruned(r)
    /\ request' = Goto(r, "ok")
    /\ LocksEnd(r)
    /\ UNCHANGED <<believed, tick, aborts>>

(***************************************************************************)
(* Faults: a request fails or loses its connection, and Postgres breaks a  *)
(* cycle of transactions that wait for each other.                         *)
(***************************************************************************)
Blockers(r) ==
    (IF Is(r, "gate") THEN {gate}
     ELSE IF Is(r, "file") THEN {fileLocks[Asks(r).file]}
     ELSE IF Is(r, "target") THEN {fileLocks[Asks(r).target]}
     ELSE IF Is(r, "write") /\ Matched(r) THEN RowLockers(r, Asks(r).file)
     ELSE {}) \ {NobodyLocks, r}

BlockersOf(S) == UNION {Blockers(s) : s \in S}

InCycle(r) ==
    LET second == BlockersOf(Blockers(r)) IN
    r \in second \union BlockersOf(second)

InTransit(r) == ~Is(r, "new") /\ request[r].step \notin {"ok", "conflict", "error"}

Fails(r) ==
    /\ request' = Goto(r, "error")
    /\ LocksEnd(r)
    /\ UNCHANGED <<rows, believed, tick>>

DeadlockVictim(r) == InTransit(r) /\ InCycle(r) /\ Fails(r) /\ UNCHANGED aborts

Abort(r) ==
    /\ aborts < Aborts
    /\ InTransit(r)
    /\ Fails(r)
    /\ aborts' = aborts + 1

Tick ==
    /\ tick < LastTick
    /\ tick' = tick + 1
    /\ UNCHANGED <<rows, request, gate, fileLocks, pruned, believed, aborts>>

WopiStep(r) ==
    \/ TakeGate(r) \/ TakeFileLock(r)
    \/ PruneForLock(r) \/ WriteLock(r) \/ RefuseLock(r)
    \/ CheckLock(r) \/ CheckRefuses(r) \/ SaveEnds(r)
    \/ DeadlockVictim(r)

WopiNext ==
    \/ \E r \in WopiRequests : Arrive(r) \/ WopiStep(r) \/ Abort(r)
    \/ Tick

WopiSpec == WopiInit /\ [][WopiNext]_wopiVars

(* Queries are answered, uploads are bounded, Postgres detects deadlocks. *)
WopiWork == \E r \in WopiRequests : WopiStep(r)

WopiFairness == WF_wopiVars(WopiWork)

WopiFairSpec == WopiSpec /\ WopiFairness

------------------------------------------------------------------------------
LockRowType == [id : LockIds, until : Nat] \union {NoRow}

(* Every part has its type, and only requests under way hold anything. *)
WopiTypeOK ==
    /\ rows \in [OfficeFiles -> LockRowType]
    /\ request \in [WopiRequests -> [step : WopiSteps, now : 0..LastTick,
                                     seen : LockRowType, asks : WopiInputs]]
    /\ gate \in WopiRequests \union {NobodyLocks}
    /\ fileLocks \in [OfficeFiles -> WopiRequests \union {NobodyLocks}]
    /\ pruned \in [WopiRequests -> SUBSET OfficeFiles]
    /\ believed \in [OfficeFiles -> [LockIds -> Nat]]
    /\ tick \in 0..LastTick
    /\ aborts \in 0..Aborts
    /\ \A r \in WopiRequests :
           r \in {gate} \union {fileLocks[f] : f \in OfficeFiles} \/ pruned[r] # {}
               => InTransit(r)

(***************************************************************************)
(* A save that passed its check keeps the lock it was checked against      *)
(* until it ends: meanwhile nobody locks, refreshes or unlocks the file.   *)
(* Only a lease that has run out is taken from the table.                  *)
(***************************************************************************)
SavedFile(r) == IF Asks(r).kind = "put" THEN Asks(r).file ELSE Asks(r).target

SaveKeepsItsLock ==
    [][\A r \in WopiRequests :
           Is(r, "upload") /\ request'[r].step = "upload"
               => \/ rows'[SavedFile(r)] = rows[SavedFile(r)]
                  \/ Over(rows[SavedFile(r)], tick) /\ rows'[SavedFile(r)] = NoRow]_wopiVars

(***************************************************************************)
(* The lock an editor was granted is the one in the table until the editor *)
(* gives it up or its lease ends, so no two editors hold one document:     *)
(* neither two requests that meet on an unlocked file nor a prune on       *)
(* behalf of another file takes a lock that is live.                       *)
(***************************************************************************)
LeasesAreKept ==
    \A f \in OfficeFiles : \A x \in LockIds :
        believed[f][x] > tick => rows[f] = [id |-> x, until |-> believed[f][x]]

(* Every request is answered, also those that wait in a cycle. *)
EveryOfficeRequestAnswers == <>[](\A r \in WopiRequests : ~InTransit(r))
==============================================================================
