----------------------------- MODULE PublishLock -----------------------------
(***************************************************************************)
(* The lock that serializes the publication phase of desktop writes:       *)
(* createDesktopPublishLock of packages/db/src/repos/                      *)
(* desktop-publish-lock.ts.  It is a session advisory lock, taken on a     *)
(* connection of a small pool that is given back between attempts and      *)
(* kept while the publication runs.                                        *)
(*                                                                         *)
(* An action is what happens between two awaits, and a query is its        *)
(* evaluation in the database and its answer.  Time is abstract: the       *)
(* deadline may have passed at any attempt and has after MaxAttempts; a    *)
(* checkout times out only when every connection is kept by a caller that  *)
(* waits for something longer than a query.                                *)
(***************************************************************************)
EXTENDS Integers, FiniteSets

CONSTANTS
    Callers,       \* commits that want to publish
    Owner,         \* the identity of each caller
    PoolSize,      \* connections of the pool (max)
    MaxAttempts,   \* bound: attempts within waitMs
    Drops,         \* bound: how many backend sessions die
    Hung           \* identities whose storage may never answer

PublishIdentities == {Owner[c] : c \in Callers}

ASSUME OwnerAssumption == DOMAIN Owner = Callers
ASSUME PoolSizeAssumption == PoolSize \in Nat \ {0}
ASSUME AttemptsAssumption == MaxAttempts \in Nat \ {0} /\ Drops \in Nat
ASSUME HungAssumption == Hung \subseteq PublishIdentities

Connections == 1..PoolSize

CallerSteps == {"idle", "connect", "ask", "held", "refused", "run", "unlock",
                "unlocked", "sleep", "done", "busy", "error"}

NoConnection == 0

VARIABLES
    caller,      \* what each caller does
    client,      \* the connection it has checked out
    attempts,    \* its attempts so far
    locks,       \* identities each backend session has locked, and how often
    alive,       \* the backend session of a connection lives
    closing,     \* identities locked by destroyed sessions not gone yet
    drops        \* sessions that died so far

lockVars == <<caller, client, attempts, locks, alive, closing, drops>>

Unlocked == [i \in PublishIdentities |-> 0]

LockInit ==
    /\ caller = [c \in Callers |-> "idle"]
    /\ client = [c \in Callers |-> NoConnection]
    /\ attempts = [c \in Callers |-> 0]
    /\ locks = [k \in Connections |-> Unlocked]
    /\ alive = [k \in Connections |-> TRUE]
    /\ closing = {}
    /\ drops = 0

CheckedOut == {client[c] : c \in Callers} \ {NoConnection}

HeldElsewhere(i, k) ==
    \/ i \in closing
    \/ \E other \in Connections \ {k} : locks[other][i] > 0

Call(c) ==
    /\ caller[c] = "idle"
    /\ caller' = [caller EXCEPT ![c] = "connect"]
    /\ UNCHANGED <<client, attempts, locks, alive, closing, drops>>

(* pool.connect: any connection that is not checked out. *)
Connect(c) ==
    /\ caller[c] = "connect"
    /\ \E k \in Connections \ CheckedOut :
           /\ client' = [client EXCEPT ![c] = k]
           /\ alive' = [alive EXCEPT ![k] = TRUE]
    /\ caller' = [caller EXCEPT ![c] = "ask"]
    /\ attempts' = [attempts EXCEPT ![c] = @ + 1]
    /\ UNCHANGED <<locks, closing, drops>>

(* The steps that keep a connection for as long as a storage call takes. *)
Lasting == {"run", "sleep"}

CheckoutTimesOut(c) ==
    /\ caller[c] = "connect"
    /\ CheckedOut = Connections
    /\ \A d \in Callers : client[d] # NoConnection => caller[d] \in Lasting
    /\ caller' = [caller EXCEPT ![c] = "busy"]
    /\ UNCHANGED <<client, attempts, locks, alive, closing, drops>>

(* pg_try_advisory_lock: a session may take a lock it has once more. *)
Ask(c) ==
    LET i == Owner[c]
        k == client[c]
    IN
    /\ caller[c] = "ask"
    /\ alive[k]
    /\ IF HeldElsewhere(i, k)
       THEN /\ caller' = [caller EXCEPT ![c] = "refused"]
            /\ UNCHANGED locks
       ELSE /\ caller' = [caller EXCEPT ![c] = "held"]
            /\ locks' = [locks EXCEPT ![k][i] = @ + 1]
    /\ UNCHANGED <<client, attempts, alive, closing, drops>>

(***************************************************************************)
(* client.release(): the connection goes back to the pool with whatever    *)
(* its session holds.  client.release(error): the pool closes it, and the  *)
(* session's locks end when the backend has noticed.                       *)
(***************************************************************************)
GivenBack(c) ==
    /\ client' = [client EXCEPT ![c] = NoConnection]
    /\ UNCHANGED <<locks, alive, closing>>

Destroyed(c) ==
    LET k == client[c] IN
    /\ client' = [client EXCEPT ![c] = NoConnection]
    /\ locks' = [locks EXCEPT ![k] = Unlocked]
    /\ alive' = [alive EXCEPT ![k] = TRUE]
    /\ closing' = closing \union {i \in PublishIdentities : locks[k][i] > 0}

AfterFailedUnlock(c) == Destroyed(c)

AskFails(c) ==
    /\ caller[c] \in {"ask", "held", "refused"}
    /\ caller' = [caller EXCEPT ![c] = "error"]
    /\ Destroyed(c)
    /\ UNCHANGED <<attempts, drops>>

WhilePublishing_NotAwaited(c) ==
    /\ locks' = [locks EXCEPT ![client[c]][Owner[c]] = 0]
    /\ UNCHANGED <<client, alive, closing>>

WhilePublishing(c) == UNCHANGED <<client, locks, alive, closing>>

Publish(c) ==
    /\ caller[c] = "held"
    /\ caller' = [caller EXCEPT ![c] = "run"]
    /\ WhilePublishing(c)
    /\ UNCHANGED <<attempts, drops>>

WhileWaiting_Kept(c) == UNCHANGED <<client, locks, alive, closing>>

WhileWaiting(c) == GivenBack(c)

(* Someone else has the identity: wait, or give up after the deadline. *)
Wait(c) ==
    /\ caller[c] = "refused"
    /\ attempts[c] < MaxAttempts
    /\ caller' = [caller EXCEPT ![c] = "sleep"]
    /\ WhileWaiting(c)
    /\ UNCHANGED <<attempts, drops>>

GiveUp(c) ==
    /\ caller[c] = "refused"
    /\ caller' = [caller EXCEPT ![c] = "busy"]
    /\ GivenBack(c)
    /\ UNCHANGED <<attempts, drops>>

Wake(c) ==
    /\ caller[c] = "sleep"
    /\ caller' = [caller EXCEPT ![c] = "connect"]
    /\ UNCHANGED <<client, attempts, locks, alive, closing, drops>>

(* run() settles, with a result or an error. *)
RunEnds(c) ==
    /\ caller[c] = "run"
    /\ caller' = [caller EXCEPT ![c] = "unlock"]
    /\ UNCHANGED <<client, attempts, locks, alive, closing, drops>>

Unlock(c) ==
    LET i == Owner[c]
        k == client[c]
    IN
    /\ caller[c] = "unlock"
    /\ alive[k]
    /\ caller' = [caller EXCEPT ![c] = "unlocked"]
    /\ locks' = [locks EXCEPT ![k][i] = IF @ > 0 THEN @ - 1 ELSE 0]
    /\ UNCHANGED <<client, attempts, alive, closing, drops>>

Release(c) ==
    /\ caller[c] = "unlocked"
    /\ caller' = [caller EXCEPT ![c] = "done"]
    /\ GivenBack(c)
    /\ UNCHANGED <<attempts, drops>>

UnlockFails(c) ==
    /\ caller[c] \in {"unlock", "unlocked"}
    /\ caller' = [caller EXCEPT ![c] = "done"]
    /\ AfterFailedUnlock(c)
    /\ UNCHANGED <<attempts, drops>>

(* The backend of a checked-out connection dies; a query on it fails. *)
SessionDies(k) ==
    /\ drops < Drops
    /\ k \in CheckedOut /\ alive[k]
    /\ alive' = [alive EXCEPT ![k] = FALSE]
    /\ locks' = [locks EXCEPT ![k] = Unlocked]
    /\ drops' = drops + 1
    /\ UNCHANGED <<caller, client, attempts, closing>>

SessionCloses ==
    /\ closing # {}
    /\ \E i \in closing : closing' = closing \ {i}
    /\ UNCHANGED <<caller, client, attempts, locks, alive, drops>>

CallerStep(c) ==
    \/ Connect(c) \/ CheckoutTimesOut(c)
    \/ Ask(c) \/ AskFails(c) \/ Publish(c)
    \/ Wait(c) \/ GiveUp(c) \/ Wake(c)
    \/ Unlock(c) \/ Release(c) \/ UnlockFails(c)

LockNext ==
    \/ \E c \in Callers : Call(c) \/ CallerStep(c) \/ RunEnds(c)
    \/ \E k \in Connections : SessionDies(k)
    \/ SessionCloses

LockSpec == LockInit /\ [][LockNext]_lockVars

(***************************************************************************)
(* Queries and timers end, and so do publications of identities that are   *)
(* not Hung.  Nothing else: a Hung publication may keep its connection.    *)
(***************************************************************************)
LockWork ==
    \/ \E c \in Callers : CallerStep(c) \/ (Owner[c] \notin Hung /\ RunEnds(c))
    \/ SessionCloses

LockFairness == WF_lockVars(LockWork)

LockFairSpec == LockSpec /\ LockFairness

------------------------------------------------------------------------------
(***************************************************************************)
(* Every part of the lock's state has its type, and a lock is held for a   *)
(* caller of its identity that still has the connection: one that is in    *)
(* the pool owns nothing.                                                  *)
(***************************************************************************)
LockTypeOK ==
    /\ caller \in [Callers -> CallerSteps]
    /\ client \in [Callers -> Connections \union {NoConnection}]
    /\ attempts \in [Callers -> 0..MaxAttempts]
    /\ locks \in [Connections -> [PublishIdentities -> {0, 1}]]
    /\ alive \in [Connections -> BOOLEAN]
    /\ closing \subseteq PublishIdentities
    /\ drops \in 0..Drops
    /\ \A k \in Connections : \A i \in PublishIdentities :
           locks[k][i] > 0 =>
               \E c \in Callers : /\ client[c] = k /\ Owner[c] = i
                                  /\ caller[c] \in {"held", "run", "unlock"}

(***************************************************************************)
(* At most one commit of an identity publishes at a time, whatever fails,  *)
(* as long as the sessions of the two that might meet live.                *)
(***************************************************************************)
PublishesAlone ==
    \A c, d \in Callers :
        /\ c # d /\ Owner[c] = Owner[d]
        /\ caller[c] = "run" /\ caller[d] = "run"
        => \E e \in {c, d} : client[e] # NoConnection /\ ~alive[client[e]]

(***************************************************************************)
(* The pool's bound covers publications and not those that wait: a caller  *)
(* is refused a connection only while PoolSize publications run.           *)
(***************************************************************************)
RefusedOnlyBehindPublications ==
    [][\A c \in Callers :
           caller[c] = "connect" /\ caller'[c] = "busy"
               => Cardinality({d \in Callers : caller[d] = "run"}) >= PoolSize]_lockVars

(***************************************************************************)
(* Every call ends in a publication or a retryable answer, also behind an  *)
(* identity whose publication never ends.                                  *)
(***************************************************************************)
EveryCallerAnswers ==
    <>[](\A c \in Callers :
             \/ caller[c] \in {"idle", "done", "busy", "error"}
             \/ caller[c] = "run" /\ Owner[c] \in Hung)
==============================================================================
