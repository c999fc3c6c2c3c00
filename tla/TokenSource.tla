----------------------------- MODULE TokenSource -----------------------------
(***************************************************************************)
(* The upstream tokens of one storage identity: get, invalidate and prime  *)
(* of apps/api/src/auth/token-source.ts, and the storage calls that use    *)
(* them (withTokenFor in packages/sftpgo/src/module.ts, withOwner of the   *)
(* shares service), which retry once after a 401.                          *)
(*                                                                         *)
(* A token is numbered when the storage service issues it, so a greater    *)
(* token is a newer one; a sign-in has one some time before it primes it.  *)
(* Node runs every callback to completion: an action is what happens       *)
(* between two awaits, and a database or provider call is two actions, its *)
(* effect over there and its answer here.  A load is the promise shared by *)
(* the callers of get that found nothing cached.                           *)
(***************************************************************************)
EXTENDS Integers, FiniteSets, Sequences

CONSTANTS
    Requests,      \* storage calls of the identity
    Streams,       \* those with a body that cannot be sent twice (retry: false)
    Disturbances   \* bound: sign-ins, unlinks, restarts and expiring tokens

ASSUME StreamsAssumption == Streams \subseteq Requests
ASSUME DisturbancesAssumption == Disturbances \in Nat

None == 0

VARIABLES
    cached,      \* the cache entry of the identity, None without one
    row,         \* credentials.cachedToken in the database
    version,     \* state.version
    inflight,    \* state.inflight, the number of a load
    chain,       \* state.writes: the writes not finished yet, in order
    loads,       \* the promises created by get
    requests,    \* what each storage call is doing
    issued,      \* tokens issued so far
    unprimed,    \* those that sign-ins were verified with and have not primed
    rowVersion,  \* version of the write that reached the row last
    revoked,     \* tokens up to this one are refused by the storage
    aged,        \* tokens up to this one are inside the refresh margin
    disturbances \* sign-ins, unlinks, restarts and expiries so far

memory == <<cached, version, inflight, chain, loads>>

tokenVars == <<cached, row, version, inflight, chain, loads, requests,
               issued, unprimed, rowVersion, revoked, aged, disturbances>>

(***************************************************************************)
(* A load is reading the row, has read it ("found"), is minting, has       *)
(* minted, stores the token, calls get again because the version moved, or *)
(* follows the load that call returned.                                    *)
(***************************************************************************)
LoadSteps == {"read", "found", "mint", "minted", "store", "again", "follow",
              "done", "failed"}

RequestSteps == {"idle", "get", "wait", "use", "clear", "done", "failed"}

NewLoad(v) == [step |-> "read", version |-> v, token |-> None, next |-> 0]

NewRequest == [step |-> "idle", load |-> 0, token |-> None, seen |-> {}]

TokenInit ==
    /\ cached = None
    /\ row = None
    /\ version = 0
    /\ inflight = 0
    /\ chain = <<>>
    /\ loads = <<>>
    /\ requests = [r \in Requests |-> NewRequest]
    /\ issued = 0
    /\ unprimed = {}
    /\ rowVersion = 0
    /\ revoked = 0
    /\ aged = 0
    /\ disturbances = 0

Loads == DOMAIN loads

Settled(l) == loads[l].step \in {"done", "failed"}

Usable(t) == t # None /\ t > aged

(***************************************************************************)
(* The part of get behind its awaits: the cache, else the load in flight,  *)
(* else a new load.                                                        *)
(***************************************************************************)
Hit == Usable(cached)

Joined == IF inflight # 0 THEN inflight ELSE Len(loads) + 1

WithLoad(ls) ==
    IF Hit \/ inflight # 0 THEN ls ELSE Append(ls, NewLoad(version))

(* get waits until no write of the identity is under way. *)
WritesSettled_NotAwaited == TRUE

WritesSettled == chain = <<>>

StartRequest(r) ==
    /\ requests[r].step = "idle"
    /\ requests' = [requests EXCEPT ![r].step = "get"]
    /\ UNCHANGED <<memory, row, issued, unprimed, rowVersion, revoked, aged,
                   disturbances>>

RequestGets(r) ==
    /\ requests[r].step = "get"
    /\ WritesSettled
    /\ requests' = [requests EXCEPT
           ![r].step = IF Hit THEN "use" ELSE "wait",
           ![r].token = IF Hit THEN cached ELSE None,
           ![r].load = IF Hit THEN 0 ELSE Joined]
    /\ loads' = WithLoad(loads)
    /\ inflight' = IF Hit THEN inflight ELSE Joined
    /\ UNCHANGED <<cached, version, chain, row, issued, unprimed, rowVersion,
                   revoked, aged, disturbances>>

RequestAnswered(r) ==
    LET l == requests[r].load IN
    /\ requests[r].step = "wait"
    /\ Settled(l)
    /\ requests' = [requests EXCEPT
           ![r].step = IF loads[l].step = "done" THEN "use" ELSE "failed",
           ![r].token = loads[l].token,
           ![r].load = 0]
    /\ UNCHANGED <<memory, row, issued, unprimed, rowVersion, revoked, aged,
                   disturbances>>

(***************************************************************************)
(* A 401 forgets the token at once and clears the row; a first 401 of a    *)
(* call that can be repeated leads to one more get.                        *)
(***************************************************************************)
ClearOp(who) ==
    [kind |-> "clear", token |-> None, version |-> version + 1,
     load |-> 0, request |-> who, started |-> FALSE]

Forgets(who) ==
    /\ version' = version + 1
    /\ inflight' = 0
    /\ cached' = None
    /\ chain' = Append(chain, ClearOp(who))

MayRefuse(t) == t <= revoked \/ t <= aged

Tokens == 0..issued

(* The tokens that have been in the hands of the token source.             *)
Known == Tokens \ unprimed

UseToken(r) ==
    LET t == requests[r].token IN
    /\ requests[r].step = "use"
    /\ t > revoked
    /\ requests' = [requests EXCEPT ![r].step = "done"]
    /\ UNCHANGED <<memory, row, issued, unprimed, rowVersion, revoked, aged,
                   disturbances>>

UseRefused(r) ==
    /\ requests[r].step = "use"
    /\ MayRefuse(requests[r].token)
    /\ requests[r].seen = {}
    /\ requests' = [requests EXCEPT ![r].step = "clear", ![r].seen = Known]
    /\ Forgets({r})
    /\ UNCHANGED <<loads, row, issued, unprimed, rowVersion, revoked, aged, disturbances>>

UseRefusedAgain(r) ==
    /\ requests[r].step = "use"
    /\ MayRefuse(requests[r].token)
    /\ requests[r].seen # {}
    /\ requests' = [requests EXCEPT ![r].step = "failed"]
    /\ UNCHANGED <<memory, row, issued, unprimed, rowVersion, revoked, aged,
                   disturbances>>

(***************************************************************************)
(* A load ends with a token or an error.  The end counts only while its    *)
(* version is current: otherwise the promise calls get again.              *)
(***************************************************************************)
Released(l) == IF inflight = l THEN 0 ELSE inflight

LoadEnds(l, how, t) ==
    IF loads[l].version = version
    THEN /\ loads' = [loads EXCEPT ![l].step = how, ![l].token = t]
         /\ inflight' = Released(l)
    ELSE /\ loads' = [loads EXCEPT ![l].step = "again", ![l].token = None]
         /\ inflight' = inflight

(* credentials.get: what the row holds when the database reads it. *)
LoadReads(l) ==
    /\ loads[l].step = "read"
    /\ loads' = [loads EXCEPT ![l].step = "found", ![l].token = row]
    /\ UNCHANGED <<cached, version, inflight, chain, requests, row, issued,
                   unprimed, rowVersion, revoked, aged, disturbances>>

CachesWhenCurrent(l) ==
    IF loads[l].version = version THEN loads[l].token ELSE cached

LoadFound(l) ==
    /\ loads[l].step = "found"
    /\ Usable(loads[l].token)
    /\ cached' = CachesWhenCurrent(l)
    /\ LoadEnds(l, "done", loads[l].token)
    /\ UNCHANGED <<version, chain, requests, row, issued, unprimed,
                   rowVersion, revoked, aged, disturbances>>

LoadFoundNothing(l) ==
    /\ loads[l].step = "found"
    /\ ~Usable(loads[l].token)
    /\ loads' = [loads EXCEPT ![l].step = "mint", ![l].token = None]
    /\ UNCHANGED <<cached, version, inflight, chain, requests, row, issued,
                   unprimed, rowVersion, revoked, aged, disturbances>>

(* The storage service issues the token; its answer arrives later. *)
LoadMints(l) ==
    /\ loads[l].step = "mint"
    /\ issued' = issued + 1
    /\ loads' = [loads EXCEPT ![l].step = "minted", ![l].token = issued + 1]
    /\ UNCHANGED <<cached, version, inflight, chain, requests, row,
                   unprimed, rowVersion, revoked, aged, disturbances>>

StoreOp(l) ==
    [kind |-> "store", token |-> loads[l].token, version |-> loads[l].version,
     load |-> l, request |-> {}, started |-> FALSE]

LoadStores(l) ==
    /\ loads[l].step = "minted"
    /\ loads' = [loads EXCEPT ![l].step = "store"]
    /\ chain' = Append(chain, StoreOp(l))
    /\ UNCHANGED <<cached, version, inflight, requests, row, issued, unprimed,
                   rowVersion, revoked, aged, disturbances>>

(* The read of the row or the mint fails: reauth_required or unavailable. *)
LoadFails(l) ==
    /\ loads[l].step \in {"read", "found", "mint", "minted"}
    /\ LoadEnds(l, "failed", None)
    /\ UNCHANGED <<cached, version, chain, requests, row, issued, unprimed,
                   rowVersion, revoked, aged, disturbances>>

LoadGetsAgain(l) ==
    /\ loads[l].step = "again"
    /\ WritesSettled
    /\ loads' = WithLoad([loads EXCEPT
           ![l].step = IF Hit THEN "done" ELSE "follow",
           ![l].token = IF Hit THEN cached ELSE None,
           ![l].next = IF Hit THEN 0 ELSE Joined])
    /\ inflight' = IF Hit THEN Released(l) ELSE Joined
    /\ UNCHANGED <<cached, version, chain, requests, row, issued, unprimed,
                   rowVersion, revoked, aged, disturbances>>

LoadFollows(l) ==
    LET n == loads[l].next IN
    /\ loads[l].step = "follow"
    /\ Settled(n)
    /\ loads' = [loads EXCEPT ![l].step = loads[n].step, ![l].token = loads[n].token]
    /\ inflight' = Released(l)
    /\ UNCHANGED <<cached, version, chain, requests, row, issued, unprimed,
                   rowVersion, revoked, aged, disturbances>>

(***************************************************************************)
(* The chain of writes: an operation starts when those before it have      *)
(* ended, however they ended.  A store of an outdated version is skipped.  *)
(***************************************************************************)
Op == Head(chain)

Skipped_Never == FALSE

Skipped == Op.kind # "clear" /\ Op.version # version

WriteStarts ==
    /\ chain # <<>> /\ ~Op.started /\ ~Skipped
    /\ chain' = [chain EXCEPT ![1].started = TRUE]
    /\ UNCHANGED <<cached, version, inflight, loads, requests, row, issued,
                   unprimed, rowVersion, revoked, aged, disturbances>>

(* What the end of the first write means to the one that waits for it. *)
WaiterContinues(ok) ==
    /\ requests' = [r \in Requests |->
           IF r \notin Op.request THEN requests[r]
           ELSE [requests[r] EXCEPT
                    !.step = IF ok /\ r \notin Streams THEN "get" ELSE "failed",
                    !.token = None]]
    /\ IF Op.kind # "store" THEN UNCHANGED <<loads, inflight>>
       ELSE LoadEnds(Op.load, IF ok THEN "done" ELSE "failed",
                     IF ok THEN Op.token ELSE None)

WriteSkipped ==
    /\ chain # <<>> /\ ~Op.started /\ Skipped
    /\ chain' = Tail(chain)
    /\ WaiterContinues(TRUE)
    /\ UNCHANGED <<cached, version, row, issued, unprimed, rowVersion,
                   revoked, aged, disturbances>>

RowWritten ==
    /\ row' = Op.token
    /\ rowVersion' = Op.version

CachesStored_Always == IF Op.kind # "clear" THEN Op.token ELSE cached

CachesStored ==
    IF Op.kind # "clear" /\ Op.version = version THEN Op.token ELSE cached

WriteDone ==
    /\ chain # <<>> /\ Op.started
    /\ RowWritten
    /\ cached' = CachesStored
    /\ chain' = Tail(chain)
    /\ WaiterContinues(TRUE)
    /\ UNCHANGED <<version, issued, unprimed, revoked, aged, disturbances>>

(* The write is reported as failed; it may have reached the row. *)
WriteFails ==
    /\ chain # <<>> /\ Op.started
    /\ RowWritten \/ UNCHANGED <<row, rowVersion>>
    /\ chain' = Tail(chain)
    /\ WaiterContinues(FALSE)
    /\ UNCHANGED <<cached, version, issued, unprimed, revoked, aged, disturbances>>

Disturbed ==
    /\ disturbances < Disturbances
    /\ disturbances' = disturbances + 1

(***************************************************************************)
(* A sign-in is verified with a token of its own, writes its session, and  *)
(* then hands the token to prime, if it comes to that; others may go on in *)
(* between.  An account that links or unlinks the identity forgets its     *)
(* token (and, when it links, primes the one it was verified with).        *)
(***************************************************************************)
SignInVerified ==
    /\ Disturbed
    /\ issued' = issued + 1
    /\ unprimed' = unprimed \union {issued + 1}
    /\ UNCHANGED <<memory, requests, row, rowVersion, revoked, aged>>

PrimeOp(t) ==
    [kind |-> "prime", token |-> t, version |-> version + 1,
     load |-> 0, request |-> {}, started |-> FALSE]

SignInPrimes(t) ==
    /\ t \in unprimed
    /\ unprimed' = unprimed \ {t}
    /\ version' = version + 1
    /\ inflight' = 0
    /\ cached' = None
    /\ chain' = Append(chain, PrimeOp(t))
    /\ UNCHANGED <<loads, requests, row, issued, rowVersion, revoked, aged, disturbances>>

Unlink ==
    /\ Disturbed
    /\ Forgets({})
    /\ UNCHANGED <<loads, requests, row, issued, unprimed, rowVersion, revoked, aged>>

(* The storage restarts without a signing passphrase. *)
Revoke ==
    /\ Disturbed /\ revoked < issued
    /\ revoked' = issued
    /\ UNCHANGED <<memory, requests, row, issued, unprimed, rowVersion, aged>>

Age ==
    /\ Disturbed /\ aged < issued
    /\ aged' = issued
    /\ UNCHANGED <<memory, requests, row, issued, unprimed, rowVersion, revoked>>

(* The process dies: a write that was sent may still reach the row. *)
Restart ==
    /\ Disturbed
    /\ row' = row \/ (chain # <<>> /\ Op.started /\ row' = Op.token)
    /\ rowVersion' = 0
    /\ unprimed' = {}
    /\ cached' = None
    /\ version' = 0
    /\ inflight' = 0
    /\ chain' = <<>>
    /\ loads' = <<>>
    /\ requests' = [r \in Requests |->
           IF requests[r].step \in {"idle", "done"} THEN requests[r]
           ELSE [requests[r] EXCEPT !.step = "failed", !.load = 0]]
    /\ UNCHANGED <<issued, revoked, aged>>

RequestStep(r) ==
    \/ RequestGets(r) \/ RequestAnswered(r)
    \/ UseToken(r) \/ UseRefused(r) \/ UseRefusedAgain(r)

LoadStep(l) ==
    \/ LoadReads(l) \/ LoadFound(l) \/ LoadFoundNothing(l)
    \/ LoadMints(l) \/ LoadStores(l) \/ LoadFails(l)
    \/ LoadGetsAgain(l) \/ LoadFollows(l)

WriteStep == WriteStarts \/ WriteSkipped \/ WriteDone \/ WriteFails

TokenNext ==
    \/ \E r \in Requests : StartRequest(r) \/ RequestStep(r)
    \/ \E l \in Loads : LoadStep(l)
    \/ WriteStep
    \/ SignInVerified \/ \E t \in unprimed : SignInPrimes(t)
    \/ Unlink \/ Revoke \/ Age \/ Restart

TokenSpec == TokenInit /\ [][TokenNext]_tokenVars

(* Awaited promises settle; nothing is asked of callers or of the storage. *)
TokenWork ==
    \/ \E r \in Requests : RequestStep(r)
    \/ \E l \in Loads : LoadStep(l)
    \/ WriteStep

TokenFairness == WF_tokenVars(TokenWork)

TokenFairSpec == TokenSpec /\ TokenFairness

------------------------------------------------------------------------------
LoadNumbers == 0..Len(loads)

(* Every part of the token state has its type. *)
TokenTypeOK ==
    /\ {issued, version} \subseteq Nat
    /\ {cached, row, revoked, aged} \subseteq Tokens
    /\ unprimed \subseteq 1..issued /\ rowVersion \in 0..version
    /\ inflight \in LoadNumbers
    /\ loads \in Seq([step : LoadSteps, version : 0..version, token : Tokens,
                      next : LoadNumbers])
    /\ requests \in [Requests -> [step : RequestSteps, load : LoadNumbers,
                                  token : Tokens, seen : SUBSET Tokens]]
    /\ chain \in Seq([kind : {"store", "prime", "clear"}, token : Tokens,
                      version : 0..version, load : LoadNumbers,
                      request : SUBSET Requests, started : BOOLEAN])

(***************************************************************************)
(* withTokenFor repeats a refused call with another token: whatever loads, *)
(* sign-ins and failing writes were under way, the second attempt never    *)
(* carries a token that the token source had when the first was refused.   *)
(***************************************************************************)
RetryIsFresh ==
    \A r \in Requests :
        requests[r].step = "use" /\ requests[r].seen # {}
            => requests[r].token \notin requests[r].seen

(***************************************************************************)
(* The process never hands out a token from its memory that the database   *)
(* does not hold: a token cleared or replaced in the row by a write that   *)
(* overtook a load or a store is never cached afterwards.                  *)
(***************************************************************************)
CacheAgreesWithRow == Usable(cached) => cached = row

(***************************************************************************)
(* "a delayed old write cannot land after a clear or prime": a write that  *)
(* changes the row, even one that was reported as failed or outlived its   *)
(* process, never belongs to an older version than one that did before.    *)
(***************************************************************************)
RowMovesForward ==
    [][row' # row => chain # <<>> /\ Op.version >= rowVersion]_tokenVars

(***************************************************************************)
(* Every storage call is answered: no chain of loads that follow each      *)
(* other, and no failing write, leaves a caller waiting.                   *)
(***************************************************************************)
EveryRequestAnswers ==
    <>[](\A r \in Requests : requests[r].step \in {"idle", "done", "failed"})
==============================================================================
