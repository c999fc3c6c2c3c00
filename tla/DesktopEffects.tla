---------------------------- MODULE DesktopEffects ----------------------------
(***************************************************************************)
(* The queue of what must follow a finished desktop write: its metadata    *)
(* (tags, favorites, views, recents) moves with the file and the write is  *)
(* announced on the event bus.  From packages/db/src/repos/                *)
(* desktop-effects.ts (processNext, applySnapshot, capture, supersede),    *)
(* captureEffects and complete of desktop.ts, and the worker of            *)
(* apps/api/src/desktop/effects.ts.                                        *)
(*                                                                         *)
(* A job is processed in two transactions, its metadata and its event, by  *)
(* a background worker of some API process or by a commit that first       *)
(* drains its identity's queue.  An action is one statement that waits     *)
(* for or tests something other transactions change; statements between    *)
(* two of those belong to the one before.  One metadata table stands for   *)
(* the five, a path has at most one row, and a row is its revision.        *)
(***************************************************************************)
EXTENDS Integers, FiniteSets, Sequences

CONSTANTS
    Processes,     \* background workers, one per API process
    Commits,       \* desktop writes
    Rename,        \* what each commit does: identity, from, to
    Paths,
    Bystanders,    \* bound: edits by other clients, relinked identities
    Breakdowns     \* bound: failing transactions, timeouts and crashes

EffectIdentities == {Rename[c].identity : c \in Commits}

ASSUME RenameAssumption ==
    DOMAIN Rename = Commits /\ \A c \in Commits : {Rename[c].from, Rename[c].to} \subseteq Paths
ASSUME EffectBoundsAssumption == {Bystanders, Breakdowns} \subseteq Nat

Actors == Processes \union Commits

Nobody == "nobody"

ASSUME ActorsAssumption == Nobody \notin Actors

VARIABLES
    effects,      \* desktop_effects in the order of their sequence
    metadata,     \* the revision of the row at each path, 0 without one
    revision,     \* revisions given out so far
    account,      \* how often the identity has been linked to another account
    holder,       \* who holds the identity row FOR UPDATE
    rowLocks,     \* paths whose rows the holder has locked
    actor,        \* what each worker or commit does, and for which job
    payload,      \* what a commit has captured
    bystanders,
    breakdowns

effectVars == <<effects, metadata, revision, account, holder, rowLocks, actor,
                payload, bystanders, breakdowns>>

NoPayload == [identity |-> Nobody]

EffectInit ==
    /\ effects = <<>>
    /\ metadata = [i \in EffectIdentities |->
                       [p \in Paths |-> IF \E c \in Commits :
                            Rename[c].identity = i /\ Rename[c].from = p THEN 1 ELSE 0]]
    /\ revision = 1
    /\ account = [i \in EffectIdentities |-> 0]
    /\ holder = [i \in EffectIdentities |-> Nobody]
    /\ rowLocks = [i \in EffectIdentities |-> {}]
    /\ actor = [a \in Actors |->
                    [step |-> IF a \in Commits THEN "new" ELSE "next", job |-> 0]]
    /\ payload = [c \in Commits |-> NoPayload]
    /\ bystanders = 0
    /\ breakdowns = 0

Jobs == DOMAIN effects

Pending(j) == effects[j].state \in {"pending", "applied"}

Eligible_AnyOrder(j) == Pending(j) /\ ~effects[j].backoff

(* pending, due, and no earlier job of the identity pending *)
Eligible(j) ==
    /\ Pending(j)
    /\ ~effects[j].backoff
    /\ \A k \in 1..(j - 1) :
           effects[k].identity = effects[j].identity => ~Pending(k)

Serves(a, j) == a \in Processes \/ effects[j].identity = Rename[a].identity

At(a, s) == actor[a].step = s

Goes(a, s, j) == actor' = [actor EXCEPT ![a] = [step |-> s, job |-> j]]

(* processNext has found nothing: a commit looks whether the queue is empty. *)
Idle(a) == Goes(a, IF a \in Commits THEN "admit" ELSE "next", 0)

(***************************************************************************)
(* The end of a transaction, by commit or rollback, frees the identity row *)
(* and the metadata rows it had locked.                                    *)
(***************************************************************************)
IdentityFreed(i) ==
    /\ holder' = [holder EXCEPT ![i] = Nobody]
    /\ rowLocks' = [rowLocks EXCEPT ![i] = {}]

queueVars == <<effects, metadata, revision, account, payload>>

(***************************************************************************)
(* The candidate is the first eligible job.  A background worker skips     *)
(* identities that are locked and locks the candidate's at once; a commit  *)
(* looks at its identity's jobs first and then waits for the lock.         *)
(***************************************************************************)
Candidates(a) ==
    {j \in Jobs : /\ Eligible(j) /\ Serves(a, j)
                  /\ a \in Processes => holder[effects[j].identity] = Nobody}

Takes(a, j) ==
    /\ Goes(a, "claim", j)
    /\ holder' = IF a \in Processes THEN [holder EXCEPT ![effects[j].identity] = a]
                 ELSE holder
    /\ UNCHANGED <<queueVars, rowLocks, bystanders, breakdowns>>

Select(a) ==
    /\ At(a, "next")
    /\ \E j \in Candidates(a) :
           /\ \A k \in Candidates(a) : j <= k
           /\ Takes(a, j)

SelectNone(a) ==
    /\ a \in Commits /\ At(a, "next")
    /\ Candidates(a) = {}
    /\ Idle(a)
    /\ UNCHANGED <<queueVars, holder, rowLocks, bystanders, breakdowns>>

(* process(sequence): the second transaction of the same job. *)
SelectAgain(a) ==
    /\ At(a, "again")
    /\ actor[a].job \in Candidates(a)
    /\ Takes(a, actor[a].job)

SelectLost(a) ==
    /\ At(a, "again")
    /\ actor[a].job \notin Candidates(a)
    /\ Idle(a)
    /\ UNCHANGED <<queueVars, holder, rowLocks, bystanders, breakdowns>>

(* The job is read again under the lock of its identity. *)
HasIdentity(a, i) == holder[i] = IF a \in Processes THEN a ELSE Nobody

StillEligible(j) == Eligible(j)

ClaimGone(a) ==
    LET j == actor[a].job IN
    /\ At(a, "claim")
    /\ HasIdentity(a, effects[j].identity)
    /\ ~StillEligible(j)
    /\ Idle(a)
    /\ IdentityFreed(effects[j].identity)
    /\ UNCHANGED <<queueVars, bystanders, breakdowns>>

Owned(j) == effects[j].account = account[effects[j].identity]

NextStep_PublishFirst(j) ==
    IF ~Owned(j) THEN "retire"
    ELSE IF effects[j].events = 0 THEN "publish" ELSE "rows"

NextStep(j) ==
    IF ~Owned(j) THEN "retire"
    ELSE IF effects[j].state = "applied" THEN "publish" ELSE "rows"

(* A job whose destination a later path change superseded is refused. *)
Claim(a) ==
    LET j == actor[a].job
        i == effects[j].identity
    IN
    /\ At(a, "claim")
    /\ HasIdentity(a, i)
    /\ StillEligible(j)
    /\ \/ /\ Owned(j) /\ effects[j].state = "pending" /\ effects[j].superseded
          /\ Goes(a, "refused", j)
          /\ holder' = [holder EXCEPT ![i] = Nobody]
       \/ /\ ~Owned(j) \/ effects[j].state = "applied" \/ ~effects[j].superseded
          /\ Goes(a, NextStep(j), j)
          /\ holder' = [holder EXCEPT ![i] = a]
    /\ UNCHANGED <<queueVars, rowLocks, bystanders, breakdowns>>

(***************************************************************************)
(* applySnapshot.  The captured rows that still exist are locked; other    *)
(* clients can edit any other row, but cannot insert one while the         *)
(* identity is locked.  A row at the destination that is not the captured  *)
(* one is newer work and refuses the job.                                  *)
(***************************************************************************)
Moves(job) == job.source # 0

Matches(j) == Moves(effects[j]) /\ metadata[effects[j].identity][effects[j].from] = effects[j].source

LockedRows_None(j) == {}

LockedRows(j) ==
    LET i == effects[j].identity IN
    {p \in Paths : /\ metadata[i][p] # 0
                   /\ \/ p = effects[j].from /\ effects[j].source # 0
                      \/ p = effects[j].to /\ effects[j].destination # 0}

LockRows(a) ==
    LET j == actor[a].job IN
    /\ At(a, "rows")
    /\ Goes(a, "check", j)
    /\ rowLocks' = [rowLocks EXCEPT ![effects[j].identity] = LockedRows(j)]
    /\ UNCHANGED <<queueVars, holder, bystanders, breakdowns>>

Collides(j) ==
    LET there == metadata[effects[j].identity][effects[j].to] IN
    Matches(j) /\ there # 0 /\ there # effects[j].destination

CheckDestination(a) ==
    LET j == actor[a].job IN
    /\ At(a, "check")
    /\ \/ Collides(j) /\ Goes(a, "refused", j) /\ IdentityFreed(effects[j].identity)
       \/ ~Collides(j) /\ Goes(a, "move", j) /\ UNCHANGED <<holder, rowLocks>>
    /\ UNCHANGED <<queueVars, bystanders, breakdowns>>

(* The rows move with fresh revisions, and the job is marked with them. *)
Moved(rows, from, to) ==
    IF rows[from] = 0 THEN rows
    ELSE [rows EXCEPT ![from] = 0, ![to] = revision + 1]

MoveRows(a) ==
    LET j == actor[a].job
        i == effects[j].identity
    IN
    /\ At(a, "move")
    /\ Goes(a, "again", j)
    /\ metadata' = IF Matches(j)
                   THEN [metadata EXCEPT ![i] = Moved(@, effects[j].from, effects[j].to)]
                   ELSE metadata
    /\ revision' = IF Matches(j) THEN revision + 1 ELSE revision
    /\ effects' = [effects EXCEPT ![j].state = "applied"]
    /\ IdentityFreed(i)
    /\ UNCHANGED <<account, payload, bystanders, breakdowns>>

(* The event leaves inside the second transaction, before it commits. *)
PublishEvent(a) ==
    LET j == actor[a].job IN
    /\ At(a, "publish")
    /\ Goes(a, "complete", j)
    /\ effects' = [effects EXCEPT ![j].events = @ + 1]
    /\ UNCHANGED <<metadata, revision, account, payload, holder, rowLocks, bystanders, breakdowns>>

SettleEffect(a) ==
    LET j == actor[a].job IN
    /\ At(a, "complete") \/ At(a, "retire")
    /\ Goes(a, "next", 0)
    /\ effects' = [effects EXCEPT
           ![j].state = IF At(a, "complete") THEN "completed" ELSE "retired"]
    /\ IdentityFreed(effects[j].identity)
    /\ UNCHANGED <<metadata, revision, account, payload, bystanders, breakdowns>>

(***************************************************************************)
(* A refused or broken transaction is rolled back; then, in a transaction  *)
(* of its own, the job is put off if it is still pending.                  *)
(***************************************************************************)
PutOff(a) ==
    LET j == actor[a].job IN
    /\ At(a, "refused") \/ At(a, "broken")
    /\ Goes(a, "next", 0)
    /\ effects' = IF ~Pending(j) THEN effects
                  ELSE [effects EXCEPT ![j].backoff = TRUE,
                                       ![j].attention = @ \/ At(a, "refused")]
    /\ UNCHANGED <<metadata, revision, account, payload, holder, rowLocks, bystanders, breakdowns>>

InTransaction(a) ==
    actor[a].step \in {"claim", "rows", "check", "move", "publish", "complete", "retire"}

RolledBack(a) ==
    LET j == actor[a].job
        i == effects[j].identity
    IN
    IF InTransaction(a) /\ holder[i] = a THEN IdentityFreed(i) ELSE UNCHANGED <<holder, rowLocks>>

EventLost(a) ==
    effects' = IF At(a, "complete") THEN [effects EXCEPT ![actor[a].job].lost = @ + 1]
               ELSE effects

(* A statement or the commit fails, or the wait for the identity times out. *)
Break(a) ==
    /\ breakdowns < Breakdowns
    /\ InTransaction(a)
    /\ breakdowns' = breakdowns + 1
    /\ Goes(a, "broken", actor[a].job)
    /\ EventLost(a)
    /\ RolledBack(a)
    /\ UNCHANGED <<metadata, revision, account, payload, bystanders>>

(* An API process dies; its background worker starts again. *)
Crash(a) ==
    /\ breakdowns < Breakdowns
    /\ actor[a].job # 0
    /\ breakdowns' = breakdowns + 1
    /\ Goes(a, IF a \in Commits THEN "gone" ELSE "next", 0)
    /\ EventLost(a)
    /\ RolledBack(a)
    /\ UNCHANGED <<metadata, revision, account, payload, bystanders>>

(* Retry delays are long against the work that is ready. *)
RetryDue(j) ==
    /\ effects[j].backoff
    /\ \A a \in Processes : At(a, "next") /\ Candidates(a) = {}
    /\ effects' = [effects EXCEPT ![j].backoff = FALSE]
    /\ UNCHANGED <<metadata, revision, account, payload, holder, rowLocks, actor, bystanders, breakdowns>>

(***************************************************************************)
(* A commit: drain the identity's queue and find it empty, capture the     *)
(* rows at both paths, publish the file, and queue the job with the        *)
(* completed operation.                                                    *)
(***************************************************************************)
Begin(c) ==
    /\ At(c, "new")
    /\ Goes(c, "next", 0)
    /\ UNCHANGED <<queueVars, holder, rowLocks, bystanders, breakdowns>>

Admit(c) ==
    LET waiting == \E j \in Jobs : Pending(j) /\ Serves(c, j) IN
    /\ At(c, "admit")
    /\ Goes(c, IF waiting THEN "gone" ELSE "capture", 0)
    /\ UNCHANGED <<queueVars, holder, rowLocks, bystanders, breakdowns>>

Capture(c) ==
    LET r == Rename[c]
        rows == metadata[r.identity]
        moves == r.from # r.to /\ rows[r.from] # 0
    IN
    /\ At(c, "capture")
    /\ holder[r.identity] = Nobody
    /\ Goes(c, "storage", 0)
    /\ payload' = [payload EXCEPT ![c] =
           [identity |-> r.identity, from |-> r.from, to |-> r.to,
            source |-> IF moves THEN rows[r.from] ELSE 0,
            destination |-> IF moves THEN rows[r.to] ELSE 0,
            account |-> account[r.identity]]]
    /\ UNCHANGED <<effects, metadata, revision, account, holder, rowLocks, bystanders, breakdowns>>

Job(p) ==
    [identity |-> p.identity, from |-> p.from, to |-> p.to, source |-> p.source,
     destination |-> p.destination, account |-> p.account, state |-> "pending",
     superseded |-> FALSE, backoff |-> FALSE, attention |-> FALSE,
     events |-> 0, lost |-> 0]

Complete(c) ==
    LET p == payload[c] IN
    /\ At(c, "storage")
    /\ holder[p.identity] = Nobody
    /\ Goes(c, "gone", 0)
    /\ effects' = IF account[p.identity] = p.account THEN Append(effects, Job(p)) ELSE effects
    /\ payload' = [payload EXCEPT ![c] = NoPayload]
    /\ UNCHANGED <<metadata, revision, account, holder, rowLocks, bystanders, breakdowns>>

(***************************************************************************)
(* Other clients: an edit of a row, a path moved or deleted over the web   *)
(* or seen by the indexer (which supersedes the jobs whose destination it  *)
(* touches, except the one that made the same move), a relinked identity.  *)
(***************************************************************************)
Bystander ==
    /\ bystanders < Bystanders
    /\ bystanders' = bystanders + 1

Edit(i, p) ==
    /\ Bystander
    /\ IF metadata[i][p] = 0 THEN holder[i] = Nobody ELSE p \notin rowLocks[i]
    /\ metadata' = [metadata EXCEPT ![i][p] = revision + 1]
    /\ revision' = revision + 1
    /\ UNCHANGED <<effects, account, payload, holder, rowLocks, actor, breakdowns>>

Superseded(i, touched, exempt) ==
    [j \in Jobs |->
        [effects[j] EXCEPT !.superseded = @ \/
            /\ effects[j].state = "pending" /\ Moves(effects[j])
            /\ effects[j].identity = i
            /\ effects[j].to \in touched
            /\ <<effects[j].from, effects[j].to>> \notin exempt]]

MovePath(i, from, to) ==
    /\ Bystander
    /\ from # to
    /\ holder[i] = Nobody
    /\ effects' = Superseded(i, {from, to}, {<<from, to>>})
    /\ metadata' = [metadata EXCEPT ![i] = Moved(@, from, to)]
    /\ revision' = revision + 1
    /\ UNCHANGED <<account, payload, holder, rowLocks, actor, breakdowns>>

DeletePath(i, p) ==
    /\ Bystander
    /\ holder[i] = Nobody
    /\ effects' = Superseded(i, {p}, {})
    /\ metadata' = [metadata EXCEPT ![i][p] = 0]
    /\ UNCHANGED <<revision, account, payload, holder, rowLocks, actor, breakdowns>>

Relink(i) ==
    /\ Bystander
    /\ holder[i] = Nobody
    /\ account' = [account EXCEPT ![i] = @ + 1]
    /\ UNCHANGED <<effects, metadata, revision, payload, holder, rowLocks, actor, breakdowns>>

Work(a) ==
    \/ Select(a) \/ SelectNone(a) \/ SelectAgain(a) \/ SelectLost(a)
    \/ ClaimGone(a) \/ Claim(a)
    \/ LockRows(a) \/ CheckDestination(a) \/ MoveRows(a)
    \/ PublishEvent(a) \/ SettleEffect(a) \/ PutOff(a)

CommitStep(c) == Begin(c) \/ Admit(c) \/ Capture(c) \/ Complete(c)

EffectNext ==
    \/ \E a \in Actors : Work(a) \/ Break(a) \/ Crash(a)
    \/ \E c \in Commits : CommitStep(c)
    \/ \E j \in Jobs : RetryDue(j)
    \/ \E i \in EffectIdentities :
           \/ \E p \in Paths : Edit(i, p) \/ DeletePath(i, p)
           \/ \E p, q \in Paths : MovePath(i, p, q)
           \/ Relink(i)

EffectSpec == EffectInit /\ [][EffectNext]_effectVars

(***************************************************************************)
(* Transactions end, the workers' interval timers fire and retry delays    *)
(* pass.  Nothing is asked of commits that have not begun a transaction.   *)
(***************************************************************************)
EffectFairness ==
    /\ \A a \in Actors : WF_effectVars(Work(a))
    /\ \A j \in 1..Cardinality(Commits) : SF_effectVars(j \in Jobs /\ RetryDue(j))

EffectFairSpec == EffectSpec /\ EffectFairness

------------------------------------------------------------------------------
JobType ==
    [identity : EffectIdentities, from : Paths, to : Paths,
     source : 0..revision, destination : 0..revision, account : Nat,
     state : {"pending", "applied", "completed", "retired"},
     superseded : BOOLEAN, backoff : BOOLEAN, attention : BOOLEAN,
     events : Nat, lost : Nat]

WorkSteps == {"next", "again", "claim", "rows", "check", "move", "publish",
              "complete", "retire", "refused", "broken"}

CommitSteps == {"new", "admit", "capture", "storage", "gone"}

(* Every part of the queue and its processing has its type. *)
EffectTypeOK ==
    /\ effects \in Seq(JobType)
    /\ metadata \in [EffectIdentities -> [Paths -> 0..revision]]
    /\ account \in [EffectIdentities -> Nat]
    /\ holder \in [EffectIdentities -> Actors \union {Nobody}]
    /\ rowLocks \in [EffectIdentities -> SUBSET Paths]
    /\ \A a \in Actors : /\ actor[a].job \in Jobs \union {0}
                         /\ actor[a].step \in WorkSteps \union
                                (IF a \in Commits THEN CommitSteps ELSE {})

(***************************************************************************)
(* The jobs of an identity take effect in the order of their operations,   *)
(* however many API processes poll the queue and whatever fails: while one *)
(* is pending nothing of a later one is visible.                           *)
(***************************************************************************)
EffectsInOrder ==
    \A j, k \in Jobs :
        k < j /\ effects[k].identity = effects[j].identity /\ Pending(k)
            => effects[j].state = "pending" /\ effects[j].events = 0

(***************************************************************************)
(* An event is published only when the metadata it announces is committed, *)
(* a completed job has been announced, and workers that race for a job     *)
(* announce it again only if the transaction that did so never committed.  *)
(***************************************************************************)
EventFollowsMetadata ==
    \A j \in Jobs :
        /\ effects[j].events > 0 => effects[j].state # "pending"
        /\ effects[j].state = "completed" => effects[j].events > 0
        /\ effects[j].events <= 1 + effects[j].lost

(***************************************************************************)
(* Recovery never undoes newer work ("newer destination metadata is        *)
(* preserved"): when a job's metadata commits, no later path change has    *)
(* superseded it, the row it moved is the one captured, and the row it     *)
(* replaced, if any, is the one captured at the destination.               *)
(***************************************************************************)
RecoveryKeepsNewerWork ==
    [][\A j \in Jobs :
           LET job == effects[j] IN
           job.state = "pending" /\ effects'[j].state = "applied" =>
               /\ ~job.superseded
               /\ metadata'[job.identity] # metadata[job.identity] =>
                      /\ metadata[job.identity][job.from] = job.source
                      /\ metadata[job.identity][job.to] \in {0, job.destination}]_effectVars

(***************************************************************************)
(* The queue is a log of jobs that take effect one after the other, each   *)
(* in a single step, and only for the account that wrote the file.  Locks, *)
(* delays, crashes and the two transactions of a job are not seen.         *)
(***************************************************************************)
Entry(job) ==
    [identity |-> job.identity, from |-> job.from, to |-> job.to, source |-> job.source,
     destination |-> job.destination, account |-> job.account, state |-> job.state,
     overtaken |-> job.superseded, told |-> job.events]

QueueLog == [j \in Jobs |-> Entry(effects[j])]

Log == INSTANCE EffectLog WITH
    Identities <- EffectIdentities,
    log <- QueueLog,
    rows <- metadata

ImplementsEffectLog == Log!Spec

(***************************************************************************)
(* Every job is completed or retired, unless its identity has one that was *)
(* refused and needs attention; other identities' jobs never wait for it.  *)
(***************************************************************************)
NeedsAttention(i) ==
    \E k \in Jobs : effects[k].identity = i /\ Pending(k) /\ effects[k].attention

EffectsSettle ==
    <>[](\A j \in Jobs : Pending(j) => NeedsAttention(effects[j].identity))
==============================================================================
