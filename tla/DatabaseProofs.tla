---------------------------- MODULE DatabaseProofs ---------------------------
(***************************************************************************)
(* Proofs about the parts of the API whose state is rows in PostgreSQL:    *)
(* upstream tokens and the queue of what follows a desktop write, with its *)
(* refinement of EffectLog.                                                *)
(***************************************************************************)
EXTENDS TokenSource, DesktopEffects, FiniteSetTheorems, SequenceTheorems, TLAPS

(***************************************************************************)
(* Upstream tokens, for every set of storage calls and every number of     *)
(* sign-ins, unlinks, restarts and expiries: a call repeated after a 401   *)
(* carries a token that the token source had not at the refusal, a token   *)
(* used from memory is the one in the database, and no late write changes  *)
(* the row behind one of a later version.                                  *)
(*                                                                         *)
(* The three rest on one inductive invariant about the versions: a change  *)
(* (clear or prime) outdates every load and store that came before it, so  *)
(* an outdated one may neither fill the cache nor start to write, and what *)
(* still writes is of no older version than what has written.              *)
(***************************************************************************)

(* The records of the state without the bounds that the type invariant     *)
(* adds.                                                                   *)
LoadRecords == [step : LoadSteps, version : Nat, token : Nat, next : Nat]

OpRecords == [kind : {"store", "prime", "clear"}, token : Nat, version : Nat,
              load : Nat, request : SUBSET Requests, started : BOOLEAN]

TokenSets == SUBSET Nat

RequestRecords == [step : RequestSteps, load : Nat, token : Nat, seen : TokenSets]

Types ==
    /\ issued \in Nat /\ version \in Nat /\ rowVersion \in Nat /\ cached \in Nat
    /\ row \in Nat /\ revoked \in Nat /\ aged \in Nat /\ inflight \in Nat
    /\ loads \in Seq(LoadRecords)
    /\ chain \in Seq(OpRecords)
    /\ requests \in [Requests -> RequestRecords]

(* The numbers of the loads and of the operations in the chain.            *)
LoadNos == 1..Len(loads)

OpNos == 1..Len(chain)

(* No token is newer than the last one issued, no version newer than the   *)
(* current one, and every load that is named exists.  A call waits for a   *)
(* load exactly while it is told to, and no call that never started was    *)
(* refused.  A refused call has seen none of the tokens that sign-ins hold.*)
Bounded ==
    /\ cached <= issued /\ row <= issued /\ rowVersion <= version /\ unprimed \subseteq 1..issued
    /\ revoked <= issued /\ aged <= issued
    /\ \A l \in LoadNos :
           /\ loads[l].version <= version /\ loads[l].token <= issued
           /\ loads[l].next <= Len(loads)
           /\ loads[l].step = "follow" => loads[l].next >= 1
    /\ \A p \in OpNos :
           chain[p].version <= version /\ chain[p].token <= issued /\ chain[p].load <= Len(loads)
    /\ \A r \in Requests :
           /\ requests[r].load <= Len(loads) /\ requests[r].token <= issued
           /\ requests[r].seen \subseteq Known
           /\ requests[r].step = "idle" => requests[r].seen = {}
           /\ requests[r].step = "wait" => requests[r].load >= 1
           /\ requests[r].step # "wait" => requests[r].load = 0

(* The steps of a load that still heads for the cache.                     *)
Working == {"read", "found", "mint", "minted", "store"}

(* The load in flight is the last one, it works for the current version,   *)
(* nothing usable is cached, and no other load of this version is under    *)
(* way.                                                                    *)
InflightWorks ==
    /\ inflight \in {0, Len(loads)}
    /\ inflight # 0 => /\ loads[inflight].version = version
                       /\ loads[inflight].step \in Working
                       /\ ~Usable(cached)
    /\ \A l \in LoadNos :
           loads[l].step \in Working /\ loads[l].version = version => l = inflight

(* While a clear or a prime is in the chain nothing is cached, and every   *)
(* load and everything before it in the chain is of an older version.      *)
ChangesComeFirst ==
    /\ \A p \in OpNos : chain[p].kind # "store" =>
           /\ cached = None
           /\ \A l \in LoadNos : loads[l].version < chain[p].version
    /\ \A p, q \in OpNos :
           p < q /\ chain[q].kind # "store"
               => chain[p].version < chain[q].version

(* A store in the chain belongs to one load, which waits for it.           *)
StoresAreOfLoads ==
    /\ \A p \in OpNos : chain[p].kind = "store" =>
           /\ chain[p].load >= 1
           /\ loads[chain[p].load].step = "store"
           /\ loads[chain[p].load].version = chain[p].version
    /\ \A p, q \in OpNos :
           chain[p].kind = "store" /\ chain[q].kind = "store" /\ chain[p].load = chain[q].load
               => p = q

(* Only the first operation runs.  A store that runs has either the        *)
(* current version or a clear or prime behind it.                          *)
OnlyHeadStarts ==
    \A p \in OpNos : chain[p].started =>
        /\ p = 1
        /\ chain[p].kind = "store" =>
               \/ chain[p].version = version
               \/ \E q \in OpNos : chain[q].kind # "store"

(* A load of the current version that has read the row still agrees with   *)
(* it: no write can have ended in between.                                 *)
FoundIsRow ==
    \A l \in LoadNos :
        loads[l].step = "found" /\ loads[l].version = version => loads[l].token = row

(* A clear empties the row.  What runs, and every clear and prime, is of   *)
(* no older version than the write that reached the row last.              *)
WritesAreInOrder ==
    \A p \in OpNos :
        /\ chain[p].kind = "clear" => chain[p].token = None
        /\ chain[p].started \/ chain[p].kind # "store" => chain[p].version >= rowVersion

(* A call that was refused waits for its own clear, and a prime behind     *)
(* that clear carries a token that it has not seen.                        *)
ClearsAreAwaited ==
    /\ \A p \in OpNos : \A r \in chain[p].request :
           chain[p].kind = "clear" /\ requests[r].step = "clear"
    /\ \A p, q \in OpNos : \A r \in chain[p].request :
           /\ r \in chain[q].request => p = q
           /\ p < q /\ chain[q].kind = "prime" => chain[q].token \notin requests[r].seen

(* No token, or one that was not there at the refusal.                     *)
NewTo(t, seen) == t = None \/ t \notin seen

(* An operation that brings nothing older than the refusal into the row:   *)
(* it clears, its token was not there, or it will be skipped.              *)
OpFresh(op, seen) ==
    op.kind = "clear" \/ op.token \notin seen \/ (~op.started /\ op.version < version)

(* A load that will not give call r a token older than its refusal.        *)
LoadFresh(l, r) ==
    /\ loads[l].step \in {"done", "minted", "store"} => loads[l].token \notin requests[r].seen
    /\ loads[l].step = "found" => NewTo(loads[l].token, requests[r].seen)
    /\ loads[l].step = "follow" => loads[l].next >= requests[r].load

(* A call that was refused once and asks for a token again; the loads      *)
(* whose outcome it may get.                                               *)
Repeats(r) == requests[r].seen # {} /\ requests[r].step \in {"get", "wait"}

Expects(r, l) == l = inflight \/ (requests[r].step = "wait" /\ l >= requests[r].load)

(* While a call asks again, neither the row, the cache, the chain nor a    *)
(* load it may get the token of holds anything older than its refusal.     *)
RetriesWaitForNew ==
    \A r \in Requests :
        /\ Repeats(r) =>
               /\ NewTo(row, requests[r].seen)
               /\ NewTo(cached, requests[r].seen)
               /\ \A p \in OpNos : OpFresh(chain[p], requests[r].seen)
               /\ \A l \in LoadNos : Expects(r, l) => LoadFresh(l, r)
        /\ requests[r].seen # {} /\ requests[r].step = "use" => requests[r].token \notin requests[r].seen

(* The inductive invariant.                                                *)
TokenInv ==
    /\ Types /\ Bounded
    /\ InflightWorks /\ ChangesComeFirst /\ StoresAreOfLoads /\ OnlyHeadStarts
    /\ FoundIsRow /\ WritesAreInOrder /\ ClearsAreAwaited /\ RetriesWaitForNew
    /\ CacheAgreesWithRow

------------------------------------------------------------------------------
(* What the shapes of the steps do to the two sequences.                   *)

(* In ms the l-th load of ls has another step, token and load to follow.   *)
LoadChanged(ls, ms, l, s, t, n) ==
    /\ ms \in Seq(LoadRecords) /\ Len(ms) = Len(ls)
    /\ ms[l] = [step |-> s, version |-> ls[l].version, token |-> t, next |-> n]
    /\ \A k \in 1..Len(ls) : k # l => ms[k] = ls[k]

(* Chain d is chain c with op at its end.                                  *)
Gained(c, d, op) ==
    /\ d \in Seq(OpRecords) /\ Len(d) = Len(c) + 1
    /\ d[Len(c) + 1] = op
    /\ \A p \in 1..Len(c) : d[p] = c[p]

(* Chain d is chain c without its first operation.                         *)
Dropped(c, d) ==
    /\ d \in Seq(OpRecords) /\ Len(c) >= 1 /\ Len(d) = Len(c) - 1
    /\ \A p \in 1..Len(d) : d[p] = c[p + 1]

(* One and two fields of a load are replaced.                              *)
LEMMA RecordReplaced ==
    ASSUME NEW x \in LoadRecords, NEW s \in LoadSteps, NEW t \in Nat
    PROVE  /\ [x EXCEPT !.step = s]
                = [step |-> s, version |-> x.version, token |-> x.token, next |-> x.next]
           /\ [x EXCEPT !.step = s, !.token = t]
                = [step |-> s, version |-> x.version, token |-> t, next |-> x.next]
  <1> DEFINE y == [x EXCEPT !.step = s]
  <1>1. y = [step |-> s, version |-> x.version, token |-> x.token, next |-> x.next]
    BY DEF LoadRecords
  <1>2. [y EXCEPT !.token = t] = [step |-> s, version |-> x.version, token |-> t, next |-> x.next]
    <2> HIDE DEF y
    <2> QED  BY <1>1
  <1> QED  BY <1>1, <1>2

(* The updates of one load in the actions are changes of its step, its     *)
(* token and the load it follows.                                          *)
LEMMA LoadReplaced ==
    ASSUME NEW ls \in Seq(LoadRecords), NEW l \in 1..Len(ls),
           NEW s \in LoadSteps, NEW t \in Nat, NEW n \in Nat
    PROVE  /\ LoadChanged(ls, [ls EXCEPT ![l].step = s], l, s, ls[l].token, ls[l].next)
           /\ LoadChanged(ls, [ls EXCEPT ![l].step = s, ![l].token = t], l, s, t, ls[l].next)
           /\ LoadChanged(ls, [ls EXCEPT ![l].step = s, ![l].token = t, ![l].next = n], l, s, t, n)
  <1> DEFINE rec(u, m) == [step |-> s, version |-> ls[l].version, token |-> u, next |-> m]
  <1>1. ls[l] \in LoadRecords
    BY ElementOfSeq
  <1>2. \A u, m \in Nat : rec(u, m) \in LoadRecords
    BY <1>1 DEF LoadRecords
  <1>3. ls[l].token \in Nat /\ ls[l].next \in Nat
    BY <1>1 DEF LoadRecords
  <1>4. \A u, m \in Nat : LoadChanged(ls, [ls EXCEPT ![l] = rec(u, m)], l, s, u, m)
    <2> SUFFICES ASSUME NEW u \in Nat, NEW m \in Nat
                 PROVE  LoadChanged(ls, [ls EXCEPT ![l] = rec(u, m)], l, s, u, m)
      OBVIOUS
    <2>1. rec(u, m) \in LoadRecords
      BY <1>2
    <2> QED  BY <2>1, ExceptSeq DEF LoadChanged
  <1>5. /\ [ls EXCEPT ![l].step = s] = [ls EXCEPT ![l] = [ls[l] EXCEPT !.step = s]]
        /\ [ls EXCEPT ![l].step = s, ![l].token = t]
                = [ls EXCEPT ![l] = [ls[l] EXCEPT !.step = s, !.token = t]]
    OBVIOUS
  <1>6. [ls EXCEPT ![l].step = s, ![l].token = t, ![l].next = n]
                = [ls EXCEPT ![l] = [ls[l] EXCEPT !.step = s, !.token = t, !.next = n]]
    OBVIOUS
  <1>7. /\ [ls[l] EXCEPT !.step = s] = rec(ls[l].token, ls[l].next)
        /\ [ls[l] EXCEPT !.step = s, !.token = t] = rec(t, ls[l].next)
        /\ [ls[l] EXCEPT !.step = s, !.token = t, !.next = n] = rec(t, n)
    <2> DEFINE x == ls[l]
    <2>1. x \in LoadRecords
      BY <1>1
    <2>2. /\ [x EXCEPT !.step = s] = rec(x.token, x.next)
          /\ [x EXCEPT !.step = s, !.token = t] = rec(t, x.next)
          /\ [x EXCEPT !.step = s, !.token = t, !.next = n] = rec(t, n)
      <3> HIDE DEF x
      <3>1. [x EXCEPT !.step = s]
                = [step |-> s, version |-> x.version, token |-> x.token, next |-> x.next]
        BY <2>1, RecordReplaced
      <3>2. [x EXCEPT !.step = s, !.token = t]
                = [step |-> s, version |-> x.version, token |-> t, next |-> x.next]
        BY <2>1, RecordReplaced
      <3>3. [x EXCEPT !.step = s, !.token = t, !.next = n]
                = [step |-> s, version |-> x.version, token |-> t, next |-> n]
        <4> DEFINE z == [x EXCEPT !.step = s, !.token = t]
        <4>1. z = [step |-> s, version |-> x.version, token |-> t, next |-> x.next]
          BY <3>2
        <4>2. [z EXCEPT !.next = n] = [step |-> s, version |-> x.version, token |-> t, next |-> n]
          <5> HIDE DEF z
          <5> QED  BY <4>1
        <4> QED  BY <4>2
      <3> QED  BY <3>1, <3>2, <3>3 DEF x
    <2> QED  BY <2>2
  <1> HIDE DEF rec
  <1> QED  BY <1>3, <1>4, <1>5, <1>6, <1>7

(* The same for the loads of the state.                                    *)
LEMMA LoadStepped ==
    ASSUME Types, NEW l \in LoadNos, NEW s \in LoadSteps, NEW t \in Nat,
           loads' = [loads EXCEPT ![l].step = s, ![l].token = t]
    PROVE  LoadChanged(loads, loads', l, s, t, loads[l].next)
  <1>1. loads \in Seq(LoadRecords) /\ l \in 1..Len(loads) /\ 0 \in Nat
    BY DEF Types, LoadNos
  <1>2. LoadChanged(loads, [loads EXCEPT ![l].step = s, ![l].token = t], l, s, t, loads[l].next)
    BY <1>1, LoadReplaced
  <1> QED  BY <1>2

(* The updates of one call: it is refused, dies with the process, goes on  *)
(* when its clear has ended, or moves to any step.                         *)
LEMMA RequestRefused ==
    ASSUME NEW x \in RequestRecords, NEW t \in TokenSets
    PROVE  LET y == [x EXCEPT !.step = "clear", !.seen = t] IN
           /\ y \in RequestRecords /\ y.step = "clear" /\ y.seen = t
           /\ y.load = x.load /\ y.token = x.token
  <1> DEFINE z == [x EXCEPT !.step = "clear"]
             y == [x EXCEPT !.step = "clear", !.seen = t]
  <1>1. /\ z \in RequestRecords /\ z.step = "clear" /\ z.load = x.load /\ z.token = x.token
    BY DEF RequestRecords, RequestSteps
  <1>2. y = [z EXCEPT !.seen = t]
    OBVIOUS
  <1> HIDE DEF y, z
  <1>3. /\ y \in RequestRecords /\ y.step = z.step /\ y.seen = t
        /\ y.load = z.load /\ y.token = z.token
    BY <1>1, <1>2 DEF RequestRecords
  <1> QED  BY <1>1, <1>3 DEF y

LEMMA RequestDies ==
    ASSUME NEW x \in RequestRecords
    PROVE  LET y == [x EXCEPT !.step = "failed", !.load = 0] IN
           /\ y \in RequestRecords /\ y.step = "failed" /\ y.load = 0
           /\ y.token = x.token /\ y.seen = x.seen
  <1> DEFINE z == [x EXCEPT !.step = "failed"]
             y == [x EXCEPT !.step = "failed", !.load = 0]
  <1>1. /\ z \in RequestRecords /\ z.step = "failed" /\ z.seen = x.seen /\ z.token = x.token
    BY DEF RequestRecords, RequestSteps
  <1>2. y = [z EXCEPT !.load = 0]
    OBVIOUS
  <1> HIDE DEF y, z
  <1>3. /\ y \in RequestRecords /\ y.step = z.step /\ y.load = 0
        /\ y.seen = z.seen /\ y.token = z.token
    BY <1>1, <1>2 DEF RequestRecords
  <1> QED  BY <1>1, <1>3 DEF y

LEMMA RequestContinues ==
    ASSUME NEW x \in RequestRecords, NEW s \in {"get", "failed"}
    PROVE  LET y == [x EXCEPT !.step = s, !.token = None] IN
           /\ y \in RequestRecords /\ y.step = s /\ y.token = None
           /\ y.load = x.load /\ y.seen = x.seen
  <1> DEFINE z == [x EXCEPT !.step = s]
             y == [x EXCEPT !.step = s, !.token = None]
  <1>1. /\ z \in RequestRecords /\ z.step = s /\ z.seen = x.seen /\ z.load = x.load
    BY DEF RequestRecords, RequestSteps
  <1>2. y = [z EXCEPT !.token = None]
    OBVIOUS
  <1> HIDE DEF y, z
  <1>3. /\ y \in RequestRecords /\ y.step = z.step /\ y.token = None
        /\ y.seen = z.seen /\ y.load = z.load
    BY <1>1, <1>2 DEF RequestRecords, None
  <1> QED  BY <1>1, <1>3 DEF y

Replaced(x, s, t, n) == [x EXCEPT !.step = s, !.token = t, !.load = n]

LEMMA RequestReplaced ==
    ASSUME NEW x \in RequestRecords, NEW s \in RequestSteps, NEW t \in Nat, NEW n \in Nat
    PROVE  LET y == Replaced(x, s, t, n) IN
           /\ y \in RequestRecords /\ y.step = s /\ y.token = t /\ y.load = n
           /\ y.seen = x.seen
  <1> DEFINE u == [x EXCEPT !.step = s]
             w == [x EXCEPT !.step = s, !.token = t]
             y == [x EXCEPT !.step = s, !.token = t, !.load = n]
  <1>1. u \in RequestRecords /\ u.step = s /\ u.seen = x.seen
    BY DEF RequestRecords
  <1>2. w = [u EXCEPT !.token = t] /\ y = [w EXCEPT !.load = n]
    OBVIOUS
  <1> HIDE DEF u, w, y
  <1>3. w \in RequestRecords /\ w.step = s /\ w.token = t /\ w.seen = x.seen
    BY <1>1, <1>2 DEF RequestRecords
  <1>4. y \in RequestRecords /\ y.step = s /\ y.token = t /\ y.load = n /\ y.seen = x.seen
    BY <1>2, <1>3 DEF RequestRecords
  <1> QED  BY <1>4 DEF y, Replaced

(* An operation is appended, and the first one is taken off.               *)
LEMMA OpGained ==
    ASSUME NEW c \in Seq(OpRecords), NEW op \in OpRecords
    PROVE  Gained(c, Append(c, op), op)
  BY AppendProperties DEF Gained

LEMMA OpDropped ==
    ASSUME NEW c \in Seq(OpRecords), c # <<>>
    PROVE  Dropped(c, Tail(c)) /\ Head(c) = c[1]
  BY HeadTailProperties, EmptySeq, LenProperties DEF Dropped

(* Operation op is x under way.                                            *)
OpMarked(op, x) ==
    /\ op \in OpRecords /\ op.started
    /\ op.kind = x.kind /\ op.token = x.token /\ op.version = x.version
    /\ op.load = x.load /\ op.request = x.request

(* Starting the first operation changes nothing else of it, nor any other. *)
LEMMA OpIsMarked ==
    ASSUME NEW x \in OpRecords
    PROVE  OpMarked([x EXCEPT !.started = TRUE], x)
  BY DEF OpRecords, OpMarked

LEMMA OpStarted ==
    ASSUME NEW c \in Seq(OpRecords), c # <<>>
    PROVE  LET d == [c EXCEPT ![1].started = TRUE] IN
           /\ d \in Seq(OpRecords) /\ Len(d) = Len(c) /\ Len(c) >= 1
           /\ OpMarked(d[1], c[1])
           /\ \A p \in 1..Len(c) : p # 1 => d[p] = c[p]
  <1> DEFINE op == [c[1] EXCEPT !.started = TRUE]
  <1>1. Len(c) >= 1 /\ 1 \in 1..Len(c)
    BY EmptySeq, LenProperties
  <1>2. c[1] \in OpRecords
    BY <1>1, ElementOfSeq
  <1>3. OpMarked(op, c[1])
    <2> DEFINE x == c[1]
    <2>1. x \in OpRecords
      BY <1>2
    <2> HIDE DEF x
    <2>2. OpMarked([x EXCEPT !.started = TRUE], x)
      BY <2>1, OpIsMarked
    <2> QED  BY <2>2 DEF x
  <1>4. [c EXCEPT ![1].started = TRUE] = [c EXCEPT ![1] = op]
    OBVIOUS
  <1> HIDE DEF op
  <1>5. /\ [c EXCEPT ![1] = op] \in Seq(OpRecords) /\ Len([c EXCEPT ![1] = op]) = Len(c)
        /\ [c EXCEPT ![1] = op][1] = op
        /\ \A p \in 1..Len(c) : p # 1 => [c EXCEPT ![1] = op][p] = c[p]
    BY <1>1, <1>3, ExceptSeq DEF OpMarked
  <1> QED  BY <1>1, <1>3, <1>4, <1>5

(* get adds a load exactly when nothing is cached and none is in flight.   *)
LEMMA LoadJoins ==
    ASSUME Types, NEW ls \in Seq(LoadRecords)
    PROVE  /\ WithLoad(ls) \in Seq(LoadRecords)
           /\ Hit \/ inflight # 0 => WithLoad(ls) = ls
           /\ ~Hit /\ inflight = 0 =>
                 /\ Len(WithLoad(ls)) = Len(ls) + 1
                 /\ WithLoad(ls)[Len(ls) + 1] = NewLoad(version)
                 /\ \A l \in 1..Len(ls) : WithLoad(ls)[l] = ls[l]
  <1>1. NewLoad(version) \in LoadRecords
    BY DEF Types, NewLoad, LoadRecords, LoadSteps, None
  <1> QED  BY <1>1, AppendProperties DEF WithLoad

(* What the types say of every load, operation and request.               *)
LEMMA Elements ==
    ASSUME Types
    PROVE  /\ Len(loads) \in Nat /\ Len(chain) \in Nat
           /\ \A l \in LoadNos : loads[l] \in LoadRecords
           /\ \A p \in OpNos : chain[p] \in OpRecords
           /\ \A r \in Requests : requests[r] \in RequestRecords
  BY ElementOfSeq, LenProperties DEF Types, LoadNos, OpNos

(* The numbers among the variables, and among the fields of each record.   *)
LEMMA Numbers ==
    ASSUME Types
    PROVE  /\ issued \in Nat /\ version \in Nat /\ rowVersion \in Nat /\ cached \in Nat
           /\ row \in Nat /\ revoked \in Nat /\ aged \in Nat /\ inflight \in Nat
           /\ Len(loads) \in Nat /\ Len(chain) \in Nat
  BY Elements DEF Types

LEMMA LoadFields ==
    ASSUME Types, NEW l \in LoadNos
    PROVE  /\ l \in Nat /\ 1 <= l /\ l <= Len(loads)
           /\ loads[l].version \in Nat /\ loads[l].token \in Nat /\ loads[l].next \in Nat
  BY Elements DEF LoadRecords, LoadNos

LEMMA OpFields ==
    ASSUME Types, NEW p \in OpNos
    PROVE  /\ p \in Nat /\ 1 <= p /\ p <= Len(chain)
           /\ chain[p].token \in Nat /\ chain[p].version \in Nat /\ chain[p].load \in Nat
           /\ chain[p].request \subseteq Requests /\ chain[p].started \in BOOLEAN
           /\ chain[p].kind \in {"store", "prime", "clear"}
  BY Elements DEF OpRecords, OpNos

LEMMA RequestFields ==
    ASSUME Types, NEW r \in Requests
    PROVE  requests[r].load \in Nat /\ requests[r].token \in Nat
  BY Elements DEF RequestRecords

(* The invariant holds in a process that has just started.                 *)
LEMMA TokenStarts == TokenInit => TokenInv
  <1> SUFFICES ASSUME TokenInit PROVE TokenInv
    OBVIOUS
  <1>1. Len(loads) = 0 /\ Len(chain) = 0 /\ loads \in Seq(LoadRecords) /\ chain \in Seq(OpRecords)
    BY DEF TokenInit
  <1>2. LoadNos = {} /\ OpNos = {}
    BY <1>1 DEF LoadNos, OpNos
  <1>3. Types
    BY <1>1 DEF TokenInit, Types, RequestRecords, NewRequest, RequestSteps, TokenSets, None
  <1>4. Bounded
    BY <1>1, <1>2 DEF TokenInit, Bounded, NewRequest, None
  <1>5. /\ InflightWorks /\ ChangesComeFirst /\ StoresAreOfLoads /\ OnlyHeadStarts
        /\ FoundIsRow /\ WritesAreInOrder /\ ClearsAreAwaited
    BY <1>2 DEF TokenInit, InflightWorks, ChangesComeFirst, StoresAreOfLoads, OnlyHeadStarts,
                FoundIsRow, WritesAreInOrder, ClearsAreAwaited
  <1>6. RetriesWaitForNew /\ CacheAgreesWithRow
    BY DEF TokenInit, RetriesWaitForNew, Repeats, CacheAgreesWithRow, Usable, NewRequest
  <1> QED  BY <1>3, <1>4, <1>5, <1>6 DEF TokenInv

(* A step of one request that touches nothing else. *)
LEMMA RequestMovesKeep ==
    ASSUME TokenInv, NEW r \in Requests,
           UNCHANGED <<memory, row, issued, unprimed, rowVersion, revoked, aged>>,
           requests' \in [Requests -> RequestRecords],
           \A q \in Requests : q # r => requests'[q] = requests[q],
           requests[r].step # "clear",
           requests'[r].step \in {"get", "use", "done", "failed"},
           requests'[r].load = 0, requests'[r].token <= issued,
           requests'[r].seen = requests[r].seen,
           requests'[r].step = "get" => requests[r].seen = {},
           requests'[r].step = "use" /\ requests[r].seen # {}
               => requests'[r].token \notin requests[r].seen
    PROVE  TokenInv'
  <1>1. UNCHANGED <<cached, version, inflight, chain, loads>>
    BY DEF memory
  <1>2. Types' /\ Bounded'
    <2>1. Types'
      BY <1>1 DEF TokenInv, Types
    <2>2. \A q \in Requests :
              /\ requests'[q].load <= Len(loads) /\ requests'[q].token <= issued
              /\ requests'[q].seen \subseteq Known
              /\ requests'[q].step = "idle" => requests'[q].seen = {}
              /\ requests'[q].step = "wait" => requests'[q].load >= 1
              /\ requests'[q].step # "wait" => requests'[q].load = 0
      <3>1. Len(loads) \in Nat
        BY Numbers DEF TokenInv
      <3>2. requests[r].seen \subseteq Known
        BY DEF TokenInv, Bounded
      <3>3. ASSUME NEW q \in Requests, q # r PROVE requests'[q] = requests[q]
        BY <3>3
      <3> QED  BY <3>1, <3>2, <3>3 DEF TokenInv, Bounded
    <2>3. Bounded'
      BY <1>1, <2>2 DEF TokenInv, Bounded, LoadNos, OpNos, Known, Tokens
    <2> QED  BY <2>1, <2>3
  <1>3. /\ InflightWorks' /\ ChangesComeFirst' /\ StoresAreOfLoads' /\ OnlyHeadStarts'
        /\ FoundIsRow' /\ WritesAreInOrder' /\ CacheAgreesWithRow'
    BY <1>1 DEF TokenInv, InflightWorks, ChangesComeFirst, StoresAreOfLoads, OnlyHeadStarts,
                FoundIsRow, WritesAreInOrder, CacheAgreesWithRow, LoadNos, OpNos, Usable
  <1>4. ClearsAreAwaited'
    <2>1. \A p \in OpNos : \A q \in chain[p].request : q \in Requests /\ q # r
      BY Elements DEF TokenInv, ClearsAreAwaited, OpRecords
    <2> QED  BY <1>1, <2>1 DEF TokenInv, ClearsAreAwaited, OpNos
  <1>5. RetriesWaitForNew'
    <2> SUFFICES ASSUME NEW q \in Requests PROVE RetriesWaitForNew!(q)'
      BY DEF RetriesWaitForNew
    <2>1. CASE q = r
      BY <1>1, <2>1 DEF Repeats
    <2>2. CASE q # r
      BY <1>1, <2>2 DEF TokenInv, RetriesWaitForNew, Repeats, Expects, LoadFresh, OpFresh,
                        LoadNos, OpNos
    <2> QED  BY <2>1, <2>2
  <1> QED  BY <1>2, <1>3, <1>4, <1>5 DEF TokenInv

(* A storage call begins to ask for a token.                               *)
LEMMA StartRequestKeeps ==
    ASSUME TokenInv, NEW r \in Requests, StartRequest(r)
    PROVE  TokenInv'
  <1>1. requests[r] \in RequestRecords /\ requests \in [Requests -> RequestRecords]
    BY DEF TokenInv, Types
  <1>2. /\ requests' \in [Requests -> RequestRecords]
        /\ \A q \in Requests : q # r => requests'[q] = requests[q]
        /\ requests'[r].step = "get" /\ requests'[r].load = requests[r].load
        /\ requests'[r].token = requests[r].token /\ requests'[r].seen = requests[r].seen
    BY <1>1 DEF StartRequest, RequestRecords, RequestSteps
  <1>3. /\ requests[r].step = "idle" /\ requests[r].seen = {}
        /\ requests[r].load = 0 /\ requests[r].token <= issued
    BY DEF StartRequest, TokenInv, Bounded
  <1>4. UNCHANGED <<memory, row, issued, unprimed, rowVersion, revoked, aged>>
    BY SMTT(30) DEF StartRequest
  <1> QED  BY <1>2, <1>3, <1>4, RequestMovesKeep

(* The load that a call waits for has ended.                               *)
LEMMA RequestAnsweredKeeps ==
    ASSUME TokenInv, NEW r \in Requests, RequestAnswered(r)
    PROVE  TokenInv'
  <1> DEFINE l == requests[r].load
  <1>1. /\ requests[r] \in RequestRecords /\ requests \in [Requests -> RequestRecords]
        /\ Len(loads) \in Nat
    BY Elements DEF TokenInv, Types
  <1>2. requests[r].step = "wait" /\ l \in LoadNos /\ loads[l].step \in {"done", "failed"}
    BY <1>1 DEF RequestAnswered, TokenInv, Bounded, Settled, LoadNos, RequestRecords
  <1>3. loads[l] \in LoadRecords /\ loads[l].token <= issued
    BY <1>2, Elements DEF TokenInv, Bounded
  <1>4. /\ requests' = [requests EXCEPT
               ![r].step = IF loads[l].step = "done" THEN "use" ELSE "failed",
               ![r].token = loads[l].token, ![r].load = 0]
        /\ UNCHANGED <<memory, row, issued, unprimed, rowVersion, revoked, aged>>
    BY DEF RequestAnswered
  <1>5. requests[r].seen # {} /\ loads[l].step = "done" => loads[l].token \notin requests[r].seen
    <2>1. l >= requests[r].load
      BY <1>1 DEF RequestRecords
    <2> QED  BY <1>2, <2>1 DEF TokenInv, RetriesWaitForNew, Repeats, Expects, LoadFresh
  <1>6. loads[l].token \in Nat
    BY <1>3 DEF LoadRecords
  <1> HIDE DEF l
  <1>7. /\ requests' \in [Requests -> RequestRecords]
        /\ \A q \in Requests : q # r => requests'[q] = requests[q]
        /\ requests'[r].step = IF loads[l].step = "done" THEN "use" ELSE "failed"
        /\ requests'[r].load = 0 /\ requests'[r].token = loads[l].token
        /\ requests'[r].seen = requests[r].seen
    BY <1>1, <1>4, <1>6 DEF RequestRecords, RequestSteps
  <1> QED  BY <1>1, <1>2, <1>3, <1>4, <1>5, <1>7, RequestMovesKeep

(* The storage answers a call, or refuses it for the second time.          *)
LEMMA RequestEndsKeeps ==
    ASSUME TokenInv, NEW r \in Requests, UseToken(r) \/ UseRefusedAgain(r)
    PROVE  TokenInv'
  <1>1. requests[r] \in RequestRecords /\ requests \in [Requests -> RequestRecords]
    BY DEF TokenInv, Types
  <1>2. /\ requests' \in [Requests -> RequestRecords]
        /\ \A q \in Requests : q # r => requests'[q] = requests[q]
        /\ requests'[r].step \in {"done", "failed"} /\ requests'[r].load = requests[r].load
        /\ requests'[r].token = requests[r].token /\ requests'[r].seen = requests[r].seen
    BY <1>1 DEF UseToken, UseRefusedAgain, RequestRecords, RequestSteps
  <1>3. /\ requests[r].step = "use"
        /\ requests[r].load = 0 /\ requests[r].token <= issued
    BY DEF UseToken, UseRefusedAgain, TokenInv, Bounded
  <1>4. UNCHANGED <<memory, row, issued, unprimed, rowVersion, revoked, aged>>
    BY DEF UseToken, UseRefusedAgain
  <1> QED  BY <1>2, <1>3, <1>4, RequestMovesKeep

(***************************************************************************)
(* A change of the identity: the version moves and an operation that is    *)
(* not a store joins the chain.  Waiting calls now wait for it.            *)
(***************************************************************************)
Changes(op) ==
    /\ op \in OpRecords /\ op.kind # "store" /\ ~op.started /\ op.load = 0
    /\ op.kind = "clear" => op.token = None
    /\ op.kind = "prime" => op.token \in unprimed /\ op.request = {}
    /\ op.version = version + 1 /\ op.token <= issued
    /\ version' = version + 1 /\ inflight' = 0 /\ cached' = None
    /\ chain' = Append(chain, op)
    /\ unprimed' \subseteq unprimed
    /\ UNCHANGED <<loads, row, issued, rowVersion, revoked, aged>>
    /\ requests' \in [Requests -> RequestRecords]
    /\ \A q \in Requests :
           requests'[q].load = requests[q].load /\ requests'[q].token = requests[q].token
    /\ \A q \in Requests \ op.request : requests'[q] = requests[q]
    /\ \A q \in op.request :
           /\ requests[q].step = "use" /\ requests'[q].step = "clear"
           /\ requests'[q].seen = Known

(* Such a step keeps the invariant.                                        *)
LEMMA ChangesKeep ==
    ASSUME TokenInv, NEW op, Changes(op)
    PROVE  TokenInv'
  <1>1. /\ Types /\ Bounded
        /\ InflightWorks /\ ChangesComeFirst /\ StoresAreOfLoads /\ OnlyHeadStarts
        /\ FoundIsRow /\ WritesAreInOrder /\ ClearsAreAwaited /\ RetriesWaitForNew
        /\ CacheAgreesWithRow
    BY DEF TokenInv
  <1>2. /\ op.token \in Nat /\ op.version \in Nat /\ op.request \subseteq Requests
        /\ op.kind \in {"prime", "clear"} /\ ~op.started /\ op.load = 0
        /\ op.kind = "clear" => op.token = None
        /\ op.kind = "prime" => op.token \in unprimed /\ op.request = {}
        /\ op.version = version + 1 /\ op.token <= issued
    BY DEF Changes, OpRecords
  <1>3. /\ version' = version + 1 /\ inflight' = 0 /\ cached' = None
        /\ unprimed' \subseteq unprimed
        /\ UNCHANGED <<loads, row, issued, rowVersion, revoked, aged>>
    BY DEF Changes
  <1>4. /\ requests' \in [Requests -> RequestRecords]
        /\ \A q \in Requests :
               requests'[q].load = requests[q].load /\ requests'[q].token = requests[q].token
        /\ \A q \in Requests : q \notin op.request => requests'[q] = requests[q]
        /\ \A q \in op.request :
               /\ requests[q].step = "use" /\ requests'[q].step = "clear"
               /\ requests'[q].seen = Known
    BY DEF Changes
  <1>5. Gained(chain, chain', op)
    BY <1>1, OpGained DEF Types, Changes
  <1>6. /\ \A p \in OpNos : chain'[p] = chain[p] /\ p < Len(chain) + 1 /\ p \in Nat
        /\ chain'[Len(chain) + 1] = op /\ Len(chain) + 1 \in Nat
        /\ \A p \in OpNos' : p \in OpNos \/ p = Len(chain) + 1
        /\ \A p \in OpNos : p \in OpNos'
        /\ Len(chain) + 1 \in OpNos'
    BY SMTT(30), <1>1, <1>5, Numbers DEF Gained, OpNos
  <1>7. LoadNos' = LoadNos
    BY <1>3 DEF LoadNos
  <1>8. \A l \in LoadNos : loads[l].version < version' /\ loads[l].version <= version
    BY SMTT(30), <1>1, <1>3, Numbers, LoadFields DEF Bounded
  <1>8a. Known \subseteq Known'
    BY <1>3 DEF Known, Tokens
  <1>9. Types'
    BY <1>1, <1>3, <1>4, <1>5, Numbers DEF Types, Gained, None
  <1>10. Bounded'
    <2>1. ASSUME NEW p \in OpNos'
          PROVE  chain'[p].version <= version' /\ chain'[p].token <= issued' /\ chain'[p].load <= Len(loads)
      <3>1. CASE p \in OpNos
        <4>1. chain[p].version <= version /\ chain[p].token <= issued /\ chain[p].load <= Len(loads)
          BY <1>1, <3>1 DEF Bounded
        <4>2. chain[p].version \in Nat /\ chain[p].token \in Nat /\ version \in Nat /\ issued \in Nat
          BY <1>1, <3>1, Numbers, OpFields
        <4> QED  BY SMTT(30), <1>3, <1>6, <3>1, <4>1, <4>2
      <3>2. CASE p = Len(chain) + 1
        BY SMTT(30), <1>1, <1>2, <1>3, <1>6, <3>2, Numbers
      <3> QED  BY <1>6, <3>1, <3>2
    <2>2. ASSUME NEW r \in Requests
          PROVE  /\ requests'[r].load <= Len(loads) /\ requests'[r].token <= issued'
                 /\ requests'[r].seen \subseteq Known'
                 /\ requests'[r].step = "idle" => requests'[r].seen = {}
                 /\ requests'[r].step = "wait" => requests'[r].load >= 1
                 /\ requests'[r].step # "wait" => requests'[r].load = 0
      <3>1. /\ requests[r].load <= Len(loads) /\ requests[r].token <= issued
            /\ requests[r].seen \subseteq Known
            /\ requests[r].step = "idle" => requests[r].seen = {}
            /\ requests[r].step = "wait" => requests[r].load >= 1
            /\ requests[r].step # "wait" => requests[r].load = 0
        BY <1>1 DEF Bounded
      <3>2. requests[r].token \in Nat /\ issued \in Nat
        BY <1>1, Numbers, RequestFields
      <3>3. requests'[r].load = requests[r].load /\ requests'[r].token = requests[r].token
        BY <1>4
      <3>4. CASE r \in op.request
        <4>1. requests[r].step = "use" /\ requests'[r].step = "clear" /\ requests'[r].seen = Known
          BY <1>4, <3>4
        <4> QED  BY <1>3, <1>8a, <3>1, <3>2, <3>3, <4>1
      <3>5. CASE r \notin op.request
        <4>1. requests'[r] = requests[r]
          BY <1>4, <3>5
        <4> QED  BY <1>3, <1>8a, <3>1, <3>2, <4>1
      <3> QED  BY <3>4, <3>5
    <2>3. ASSUME NEW l \in LoadNos
          PROVE  /\ loads[l].version <= version' /\ loads[l].token <= issued'
                 /\ loads[l].next <= Len(loads)
                 /\ loads[l].step = "follow" => loads[l].next >= 1
      <3>1. /\ loads[l].token <= issued /\ loads[l].next <= Len(loads)
            /\ loads[l].step = "follow" => loads[l].next >= 1
        BY <1>1 DEF Bounded
      <3>2. loads[l].version <= version /\ loads[l].version \in Nat /\ loads[l].token \in Nat
        BY <1>1, <1>8, LoadFields
      <3>3. version \in Nat /\ issued \in Nat
        BY <1>1, Numbers
      <3> QED  BY <1>3, <3>1, <3>2, <3>3
    <2>4. /\ cached' <= issued /\ row <= issued /\ rowVersion <= version' /\ unprimed' \subseteq 1..issued
          /\ revoked <= issued /\ aged <= issued
      BY <1>1, <1>3, Numbers DEF Bounded, None
    <2> QED  BY <1>3, <1>7, <2>1, <2>2, <2>3, <2>4 DEF Bounded
  <1>11. InflightWorks' /\ CacheAgreesWithRow'
    BY <1>1, <1>3, <1>7, <1>8, Numbers, LoadFields DEF InflightWorks, CacheAgreesWithRow, Usable
  <1>12. ChangesComeFirst'
    <2>1. ASSUME NEW p \in OpNos', chain'[p].kind # "store", NEW l \in LoadNos
          PROVE  loads[l].version < chain'[p].version
      <3>1. CASE p \in OpNos
        BY <1>1, <1>6, <2>1, <3>1 DEF ChangesComeFirst
      <3>2. CASE p = Len(chain) + 1
        BY <1>2, <1>3, <1>6, <1>8, <3>2
      <3> QED  BY <1>6, <3>1, <3>2
    <2>2. ASSUME NEW p \in OpNos', NEW q \in OpNos', p < q, chain'[q].kind # "store"
          PROVE  chain'[p].version < chain'[q].version
      <3>1. p \in OpNos
        BY <1>1, <1>6, <2>2, OpFields
      <3>2. CASE q \in OpNos
        BY <1>1, <1>6, <2>2, <3>1, <3>2 DEF ChangesComeFirst
      <3>3. CASE q = Len(chain) + 1
        <4>1. chain[p].version <= version
          BY <1>1, <3>1 DEF Bounded
        <4>2. chain[p].version \in Nat /\ version \in Nat
          BY <1>1, <3>1, Numbers, OpFields
        <4>3. chain'[p] = chain[p] /\ chain'[q] = op
          BY <1>6, <3>1, <3>3
        <4> QED  BY <1>2, <4>1, <4>2, <4>3
      <3> QED  BY <1>6, <3>2, <3>3
    <2> QED  BY <1>3, <1>7, <2>1, <2>2 DEF ChangesComeFirst
  <1>13. StoresAreOfLoads'
    <2>1. \A p \in OpNos' : chain'[p].kind = "store" => p \in OpNos /\ chain'[p] = chain[p]
      BY <1>2, <1>6
    <2> QED  BY <1>1, <1>3, <2>1 DEF StoresAreOfLoads
  <1>14. FoundIsRow'
    BY SMTT(30), <1>1, <1>3, <1>7, <1>8, LoadFields, Numbers DEF FoundIsRow
  <1>15. OnlyHeadStarts'
    BY <1>1, <1>2, <1>6 DEF OnlyHeadStarts
  <1>16. WritesAreInOrder'
    <2> SUFFICES ASSUME NEW p \in OpNos'
                 PROVE  /\ chain'[p].kind = "clear" => chain'[p].token = None
                        /\ chain'[p].started \/ chain'[p].kind # "store"
                               => chain'[p].version >= rowVersion
      BY <1>3 DEF WritesAreInOrder
    <2>1. CASE p \in OpNos
      BY <1>1, <1>6, <2>1 DEF WritesAreInOrder
    <2>2. CASE p = Len(chain) + 1
      BY SMTT(30), <1>1, <1>2, <1>6, <2>2, Numbers DEF Bounded
    <2> QED  BY <1>6, <2>1, <2>2
  <1>17. ClearsAreAwaited'
    <2>1. ASSUME NEW p \in OpNos, NEW q \in chain[p].request
          PROVE  q \in Requests /\ q \notin op.request /\ requests'[q] = requests[q]
      <3>1. q \in Requests /\ requests[q].step = "clear"
        BY <1>1, OpFields DEF ClearsAreAwaited
      <3> QED  BY <1>4, <3>1
    <2>2. ASSUME NEW p \in OpNos', NEW r \in chain'[p].request
          PROVE  chain'[p].kind = "clear" /\ requests'[r].step = "clear"
      <3>1. CASE p \in OpNos
        BY <1>1, <1>6, <2>1, <2>2, <3>1 DEF ClearsAreAwaited
      <3>2. CASE p = Len(chain) + 1
        BY <1>2, <1>4, <1>6, <2>2, <3>2
      <3> QED  BY <1>6, <3>1, <3>2
    <2>3. ASSUME NEW p \in OpNos', NEW q \in OpNos', NEW r \in chain'[p].request, r \in chain'[q].request
          PROVE  p = q
      <3>1. CASE p \in OpNos
        BY <1>1, <1>6, <2>1, <2>3, <3>1 DEF ClearsAreAwaited
      <3>2. CASE p = Len(chain) + 1
        BY <1>6, <2>1, <2>3, <3>2
      <3> QED  BY <1>6, <3>1, <3>2
    <2>4. ASSUME NEW p \in OpNos', NEW q \in OpNos', NEW r \in chain'[p].request,
                 p < q, chain'[q].kind = "prime"
          PROVE  chain'[q].token \notin requests'[r].seen
      <3>1. p \in OpNos /\ r \in chain[p].request
        BY <1>1, <1>6, <2>4, OpFields
      <3>2. r \in Requests /\ requests'[r] = requests[r]
        BY <2>1, <3>1
      <3>3. CASE q \in OpNos
        BY <1>1, <1>6, <2>4, <3>1, <3>2, <3>3 DEF ClearsAreAwaited
      <3>4. CASE q = Len(chain) + 1
        <4>1. requests[r].seen \subseteq Known
          BY <1>1, <3>2 DEF Bounded
        <4>2. chain'[q] = op /\ op.token \in unprimed
          BY <1>2, <1>6, <2>4, <3>4
        <4> QED  BY <3>2, <4>1, <4>2 DEF Known
      <3> QED  BY <1>6, <3>3, <3>4
    <2> QED  BY <2>2, <2>3, <2>4 DEF ClearsAreAwaited
  <1>18. RetriesWaitForNew'
    <2> SUFFICES ASSUME NEW q \in Requests PROVE RetriesWaitForNew!(q)'
      BY DEF RetriesWaitForNew
    <2>1. CASE q \in op.request
      BY <1>4, <2>1 DEF Repeats
    <2>2. CASE q \notin op.request
      <3>1. requests'[q] = requests[q] /\ requests[q].seen \subseteq Known
        BY <1>1, <1>4, <2>2 DEF Bounded
      <3>2. ASSUME Repeats(q), NEW p \in OpNos' PROVE OpFresh(chain[p], requests[q].seen)'
        <4>1. CASE p \in OpNos
          <5>1. OpFresh(chain[p], requests[q].seen) /\ chain'[p] = chain[p]
            BY <1>1, <1>6, <3>2, <4>1 DEF RetriesWaitForNew
          <5> QED  BY SMTT(30), <1>1, <1>3, <3>1, <4>1, <5>1, Numbers, OpFields DEF OpFresh
        <4>2. CASE p = Len(chain) + 1
          <5>1. chain'[p] = op /\ (op.kind = "clear" \/ op.token \in unprimed)
            BY <1>2, <1>6, <4>2
          <5> QED  BY <3>1, <5>1 DEF OpFresh, Known
        <4> QED  BY <1>6, <4>1, <4>2
      <3>3. ASSUME Repeats(q), NEW l \in LoadNos, Expects(q, l)' PROVE LoadFresh(l, q)'
        <4>1. Expects(q, l)
          BY <1>1, <1>3, <3>1, <3>3, LoadFields DEF Expects
        <4>2. LoadFresh(l, q)
          BY <1>1, <3>3, <4>1 DEF RetriesWaitForNew
        <4> QED  BY <1>3, <3>1, <4>2 DEF LoadFresh, NewTo
      <3>4. Repeats(q)' <=> Repeats(q)
        BY <3>1 DEF Repeats
      <3>5. NewTo(cached, requests[q].seen)'
        BY <1>3 DEF NewTo
      <3> QED  BY <1>1, <1>3, <1>7, <3>1, <3>2, <3>3, <3>4, <3>5 DEF RetriesWaitForNew, NewTo
    <2> QED  BY <2>1, <2>2
  <1> QED  BY <1>9, <1>10, <1>11, <1>12, <1>13, <1>14, <1>15, <1>16, <1>17, <1>18 DEF TokenInv

(* A first 401, an unlink and a sign-in that primes are such steps.        *)
LEMMA UseRefusedKeeps ==
    ASSUME TokenInv, NEW r \in Requests, UseRefused(r)
    PROVE  TokenInv'
  <1> DEFINE op == ClearOp({r})
  <1>1. Types /\ Bounded /\ requests[r] \in RequestRecords /\ requests \in [Requests -> RequestRecords]
    BY DEF TokenInv, Types
  <1>2. issued \in Nat /\ version \in Nat /\ Known \in TokenSets
    BY <1>1, Numbers DEF Known, Tokens, TokenSets
  <1>3. /\ op \in OpRecords /\ op.kind = "clear" /\ ~op.started /\ op.load = 0
        /\ op.token = None /\ op.version = version + 1 /\ op.token <= issued
        /\ op.request = {r}
    BY <1>2 DEF ClearOp, OpRecords, None
  <1>4. requests' = [requests EXCEPT ![r].step = "clear", ![r].seen = Known] /\ requests[r].step = "use"
    BY DEF UseRefused
  <1>5. /\ requests' \in [Requests -> RequestRecords]
        /\ \A q \in Requests : q # r => requests'[q] = requests[q]
        /\ requests'[r].step = "clear" /\ requests'[r].seen = Known
        /\ requests'[r].load = requests[r].load /\ requests'[r].token = requests[r].token
    <2>1. requests' = [requests EXCEPT ![r] = [requests[r] EXCEPT !.step = "clear", !.seen = Known]]
      BY <1>4
    <2>2. /\ [requests[r] EXCEPT !.step = "clear", !.seen = Known] \in RequestRecords
          /\ [requests[r] EXCEPT !.step = "clear", !.seen = Known].step = "clear"
          /\ [requests[r] EXCEPT !.step = "clear", !.seen = Known].seen = Known
          /\ [requests[r] EXCEPT !.step = "clear", !.seen = Known].load = requests[r].load
          /\ [requests[r] EXCEPT !.step = "clear", !.seen = Known].token = requests[r].token
      <3> DEFINE x == requests[r]
      <3>1. x \in RequestRecords
        BY <1>1
      <3> HIDE DEF x
      <3>2. /\ [x EXCEPT !.step = "clear", !.seen = Known] \in RequestRecords
            /\ [x EXCEPT !.step = "clear", !.seen = Known].step = "clear"
            /\ [x EXCEPT !.step = "clear", !.seen = Known].seen = Known
            /\ [x EXCEPT !.step = "clear", !.seen = Known].load = x.load
            /\ [x EXCEPT !.step = "clear", !.seen = Known].token = x.token
        <4> DEFINE k == Known
        <4>1. k \in TokenSets
          BY <1>2
        <4> HIDE DEF k
        <4>2. LET y == [x EXCEPT !.step = "clear", !.seen = k] IN
              /\ y \in RequestRecords /\ y.step = "clear" /\ y.seen = k
              /\ y.load = x.load /\ y.token = x.token
          BY <3>1, <4>1, RequestRefused
        <4> QED  BY <4>2 DEF k
      <3> QED  BY <3>2 DEF x
    <2> QED  BY <1>1, <2>1, <2>2
  <1>6. /\ version' = version + 1 /\ inflight' = 0 /\ cached' = None
        /\ chain' = Append(chain, op)
        /\ UNCHANGED <<loads, row, issued, unprimed, rowVersion, revoked, aged>>
    BY DEF UseRefused, Forgets
  <1> HIDE DEF op
  <1>7. Changes(op)
    BY <1>2, <1>3, <1>4, <1>5, <1>6 DEF Changes
  <1> QED  BY <1>7, ChangesKeep

LEMMA UnlinkKeeps ==
    ASSUME TokenInv, Unlink
    PROVE  TokenInv'
  <1> DEFINE op == ClearOp({})
  <1>1. Types
    BY DEF TokenInv
  <1>2. issued \in Nat /\ version \in Nat
    BY <1>1, Numbers
  <1>3. /\ op \in OpRecords /\ op.kind = "clear" /\ ~op.started /\ op.load = 0
        /\ op.token = None /\ op.version = version + 1 /\ op.token <= issued
        /\ op.request = {}
    BY <1>2 DEF ClearOp, OpRecords, None
  <1>4. /\ version' = version + 1 /\ inflight' = 0 /\ cached' = None
        /\ chain' = Append(chain, op)
        /\ UNCHANGED <<loads, requests, row, issued, unprimed, rowVersion, revoked, aged>>
    BY DEF Unlink, Forgets
  <1> HIDE DEF op
  <1>5. Changes(op)
    BY <1>1, <1>2, <1>3, <1>4 DEF Changes, Types
  <1> QED  BY <1>5, ChangesKeep

LEMMA SignInPrimesKeeps ==
    ASSUME TokenInv, NEW t \in unprimed, SignInPrimes(t)
    PROVE  TokenInv'
  <1> DEFINE op == PrimeOp(t)
  <1>1. Types /\ Bounded
    BY DEF TokenInv
  <1>2. issued \in Nat /\ version \in Nat /\ t \in Nat /\ t <= issued
    BY <1>1, Numbers DEF Bounded
  <1>3. /\ op \in OpRecords /\ op.kind = "prime" /\ ~op.started /\ op.load = 0
        /\ op.token = t /\ op.version = version + 1
        /\ op.request = {}
    BY <1>2 DEF PrimeOp, OpRecords
  <1>4. /\ version' = version + 1 /\ inflight' = 0 /\ cached' = None
        /\ chain' = Append(chain, op) /\ unprimed' \subseteq unprimed
        /\ UNCHANGED <<loads, requests, row, issued, rowVersion, revoked, aged>>
    BY DEF SignInPrimes
  <1> HIDE DEF op
  <1>5. Changes(op)
    BY <1>1, <1>2, <1>3, <1>4 DEF Changes, Types
  <1> QED  BY <1>5, ChangesKeep

(* The token that a sign-in is verified with is nobody else's yet.         *)
LEMMA SignInVerifiedKeeps ==
    ASSUME TokenInv, SignInVerified
    PROVE  TokenInv'
  <1>1. /\ issued' = issued + 1 /\ unprimed' = unprimed \union {issued + 1}
        /\ UNCHANGED <<cached, version, inflight, chain, loads, requests, row, rowVersion,
                       revoked, aged>>
    BY DEF SignInVerified, memory
  <1>2. Types /\ Bounded /\ issued \in Nat
    BY Numbers DEF TokenInv
  <1>3. LoadNos' = LoadNos /\ OpNos' = OpNos
    BY <1>1 DEF LoadNos, OpNos
  <1>4. Types'
    BY <1>1, <1>2 DEF Types
  <1>5. Bounded'
    <2>1. Known \subseteq Known' /\ unprimed' \subseteq 1..issued'
      <3>1. unprimed \subseteq 1..issued
        BY <1>2 DEF Bounded
      <3>2. \A t \in 0..issued : t \in 0..issued' /\ t # issued + 1
        BY <1>1, <1>2
      <3>3. Known \subseteq Known'
        BY <1>1, <3>2 DEF Known, Tokens
      <3>4. issued + 1 \in 1..issued' /\ 1..issued \subseteq 1..issued'
        BY <1>1, <1>2
      <3> QED  BY <1>1, <3>1, <3>3, <3>4
    <2>2. \A n \in Nat : n <= issued => n <= issued'
      BY <1>1, <1>2
    <2>3. /\ cached <= issued' /\ row <= issued' /\ revoked <= issued' /\ aged <= issued'
      BY <1>2, <2>2, Numbers DEF Bounded
    <2>4. \A l \in LoadNos : loads[l].token <= issued'
      BY <1>2, <2>2, LoadFields DEF Bounded
    <2>5. \A p \in OpNos : chain[p].token <= issued'
      BY <1>2, <2>2, OpFields DEF Bounded
    <2>6. \A r \in Requests : requests[r].token <= issued' /\ requests[r].seen \subseteq Known'
      BY <1>2, <2>1, <2>2, RequestFields DEF Bounded
    <2> QED  BY <1>1, <1>2, <1>3, <2>1, <2>3, <2>4, <2>5, <2>6 DEF Bounded
  <1>6. /\ InflightWorks' /\ ChangesComeFirst' /\ StoresAreOfLoads' /\ OnlyHeadStarts'
        /\ FoundIsRow' /\ WritesAreInOrder' /\ ClearsAreAwaited' /\ CacheAgreesWithRow'
    BY <1>1, <1>3 DEF TokenInv, InflightWorks, ChangesComeFirst, StoresAreOfLoads, OnlyHeadStarts,
                      FoundIsRow, WritesAreInOrder, ClearsAreAwaited, CacheAgreesWithRow, Usable
  <1>7. RetriesWaitForNew'
    BY <1>1, <1>3 DEF TokenInv, RetriesWaitForNew, Repeats, Expects, LoadFresh, OpFresh, NewTo
  <1> QED  BY <1>4, <1>5, <1>6, <1>7 DEF TokenInv

(***************************************************************************)
(* A load moves on without touching the chain: it goes on working, or it   *)
(* ends (or has to get again) and is no longer the load in flight.         *)
(***************************************************************************)
LoadMoves(l, s, t) ==
    /\ s \in LoadSteps \ {"store", "follow"} /\ t \in Nat /\ loads[l].step # "store"
    /\ \E n \in Nat : n <= Len(loads) /\ LoadChanged(loads, loads', l, s, t, n)
    /\ issued' \in Nat /\ issued' >= issued /\ t <= issued'
    /\ UNCHANGED <<version, chain, requests, row, unprimed, rowVersion, revoked, aged>>
    /\ s \in Working => loads[l].step \in Working /\ inflight' = inflight
    /\ s \notin Working => inflight' = Released(l)
    /\ loads[l].version = version /\ s = "found" => t = row
    /\ \A r \in Requests : Repeats(r) /\ Expects(r, l) =>
           /\ s \in {"done", "minted"} => t \notin requests[r].seen
           /\ s = "found" => NewTo(t, requests[r].seen)
    /\ \/ cached' = cached
       \/ /\ cached' = row /\ loads[l].version = version
          /\ loads[l].step \in Working /\ s \notin Working

(* Such a step keeps the invariant.                                        *)
LEMMA LoadMovesKeep ==
    ASSUME TokenInv, NEW l \in LoadNos, NEW s, NEW t, LoadMoves(l, s, t)
    PROVE  TokenInv'
  <1>1. /\ Types /\ Bounded
        /\ InflightWorks /\ ChangesComeFirst /\ StoresAreOfLoads /\ OnlyHeadStarts
        /\ FoundIsRow /\ WritesAreInOrder /\ ClearsAreAwaited /\ RetriesWaitForNew
        /\ CacheAgreesWithRow
    BY DEF TokenInv
  <1>2. /\ s \in LoadSteps \ {"store", "follow"} /\ t \in Nat /\ loads[l].step # "store"
        /\ issued' \in Nat /\ issued' >= issued /\ t <= issued'
        /\ UNCHANGED <<version, chain, requests, row, unprimed, rowVersion, revoked, aged>>
        /\ s \in Working => loads[l].step \in Working /\ inflight' = inflight
        /\ s \notin Working => inflight' = Released(l)
    BY DEF LoadMoves
  <1>3. /\ loads' \in Seq(LoadRecords) /\ Len(loads') = Len(loads)
        /\ LoadNos' = LoadNos /\ OpNos' = OpNos
        /\ loads'[l].step = s /\ loads'[l].version = loads[l].version
        /\ loads'[l].token = t /\ loads'[l].next \in Nat /\ loads'[l].next <= Len(loads)
        /\ \A k \in LoadNos : k # l => loads'[k] = loads[k]
        /\ \A k \in LoadNos : loads'[k].version = loads[k].version
    BY <1>2 DEF LoadMoves, LoadChanged, LoadNos, OpNos
  <1>4. \/ cached' = cached
        \/ /\ cached' = row /\ loads[l].version = version
           /\ loads[l].step \in Working /\ s \notin Working
    BY DEF LoadMoves
  <1>5. loads[l].version = version /\ s = "found" => t = row
    BY DEF LoadMoves
  <1>6. inflight' \in {inflight, 0} /\ (s \notin Working => inflight' # l)
    <2>1. l # 0
      BY <1>1, LoadFields
    <2> QED  BY <1>2, <2>1 DEF Released
  <1>7. Types'
    BY SMTT(30), <1>1, <1>2, <1>3, <1>4, <1>6, Numbers DEF Types
  <1>8. Bounded'
    <2>1. ASSUME NEW k \in LoadNos
          PROVE  /\ loads'[k].version <= version /\ loads'[k].token <= issued'
                 /\ loads'[k].next <= Len(loads)
                 /\ loads'[k].step = "follow" => loads'[k].next >= 1
      <3>1. /\ loads[k].version <= version /\ loads[k].token <= issued
            /\ loads[k].next <= Len(loads)
            /\ loads[k].step = "follow" => loads[k].next >= 1
        BY <1>1 DEF Bounded
      <3>2. loads[k].token \in Nat /\ issued \in Nat
        BY <1>1, Numbers, LoadFields
      <3> QED  BY <1>2, <1>3, <3>1, <3>2
    <2>2. ASSUME NEW p \in OpNos
          PROVE  chain[p].version <= version /\ chain[p].token <= issued' /\ chain[p].load <= Len(loads)
      <3>1. chain[p].version <= version /\ chain[p].token <= issued /\ chain[p].load <= Len(loads)
        BY <1>1 DEF Bounded
      <3>2. chain[p].token \in Nat /\ issued \in Nat
        BY <1>1, Numbers, OpFields
      <3> QED  BY <1>2, <3>1, <3>2
    <2>3. ASSUME NEW r \in Requests
          PROVE  /\ requests[r].load <= Len(loads) /\ requests[r].token <= issued'
                 /\ requests[r].seen \subseteq Known'
                 /\ requests[r].step = "idle" => requests[r].seen = {}
                 /\ requests[r].step = "wait" => requests[r].load >= 1
                 /\ requests[r].step # "wait" => requests[r].load = 0
      <3>1. /\ requests[r].load <= Len(loads) /\ requests[r].token <= issued
            /\ requests[r].seen \subseteq Known
            /\ requests[r].step = "idle" => requests[r].seen = {}
            /\ requests[r].step = "wait" => requests[r].load >= 1
            /\ requests[r].step # "wait" => requests[r].load = 0
        BY <1>1 DEF Bounded
      <3>2. requests[r].token \in Nat /\ issued \in Nat
        BY <1>1, Numbers, RequestFields
      <3>3. Known \subseteq Known'
        BY <1>2, <3>2 DEF Known, Tokens
      <3> QED  BY <1>2, <3>1, <3>2, <3>3
    <2>4. /\ cached' <= issued' /\ row <= issued' /\ rowVersion <= version /\ unprimed \subseteq 1..issued'
          /\ revoked <= issued' /\ aged <= issued'
      BY SMTT(30), <1>1, <1>2, <1>4, Numbers DEF Bounded
    <2> QED  BY <1>2, <1>3, <2>1, <2>2, <2>3, <2>4 DEF Bounded
  <1>9. InflightWorks'
    <2>1. inflight' \in {0, Len(loads)}
      BY <1>1, <1>6 DEF InflightWorks
    <2>2. ASSUME inflight' # 0
          PROVE  inflight' = inflight /\ loads'[inflight].version = version
                 /\ loads'[inflight].step \in Working /\ ~Usable(cached)'
      <3>1. inflight' = inflight /\ inflight \in LoadNos
        BY <1>1, <1>6, <2>2, Numbers DEF InflightWorks, LoadNos
      <3>2. loads[inflight].version = version /\ loads[inflight].step \in Working /\ ~Usable(cached)
        BY <1>1, <2>2, <3>1 DEF InflightWorks
      <3>3. loads'[inflight].step \in Working
        BY <1>3, <1>6, <3>1, <3>2
      <3>4. cached' = cached
        <4>1. loads[l].version = version /\ loads[l].step \in Working => l = inflight
          BY <1>1 DEF InflightWorks
        <4> QED  BY <1>4, <1>6, <3>1, <4>1
      <3> QED  BY <1>2, <1>3, <3>1, <3>2, <3>3, <3>4 DEF Usable
    <2>3. ASSUME NEW k \in LoadNos, loads'[k].step \in Working, loads'[k].version = version
          PROVE  k = inflight'
      <3>1. loads[k].step \in Working /\ loads[k].version = version
        BY <1>2, <1>3, <2>3
      <3>2. k = inflight
        BY <1>1, <3>1 DEF InflightWorks
      <3>3. CASE s \in Working
        BY <1>2, <3>2, <3>3
      <3>4. CASE s \notin Working
        <4>1. k # l
          BY <1>3, <2>3, <3>4
        <4> QED  BY <1>2, <3>2, <3>4, <4>1 DEF Released
      <3> QED  BY <3>3, <3>4
    <2> QED  BY <1>2, <1>3, <2>1, <2>2, <2>3 DEF InflightWorks
  <1>10. ChangesComeFirst'
    <2>1. cached' # cached => \A p \in OpNos : chain[p].kind = "store"
      <3> SUFFICES ASSUME loads[l].version = version, NEW p \in OpNos PROVE chain[p].kind = "store"
        BY <1>4
      <3>1. chain[p].version <= version /\ (chain[p].kind # "store" => loads[l].version < chain[p].version)
        BY <1>1 DEF Bounded, ChangesComeFirst
      <3>2. chain[p].version \in Nat /\ version \in Nat
        BY <1>1, Numbers, OpFields
      <3> QED  BY <3>1, <3>2
    <2> QED  BY <1>1, <1>2, <1>3, <2>1 DEF ChangesComeFirst
  <1>11. StoresAreOfLoads'
    <2>1. \A p \in OpNos : chain[p].kind = "store" => chain[p].load \in LoadNos /\ chain[p].load # l
      <3> SUFFICES ASSUME NEW p \in OpNos, chain[p].kind = "store"
                   PROVE  chain[p].load \in LoadNos /\ chain[p].load # l
        OBVIOUS
      <3>1. chain[p].load >= 1 /\ loads[chain[p].load].step = "store"
        BY <1>1 DEF StoresAreOfLoads
      <3>2. chain[p].load \in Nat /\ chain[p].load <= Len(loads) /\ Len(loads) \in Nat
        BY <1>1, OpFields, Numbers DEF Bounded
      <3> QED  BY <1>2, <3>1, <3>2 DEF LoadNos
    <2> QED  BY <1>1, <1>2, <1>3, <2>1 DEF StoresAreOfLoads
  <1>12. OnlyHeadStarts' /\ ClearsAreAwaited'
    BY <1>1, <1>2, <1>3 DEF OnlyHeadStarts, ClearsAreAwaited
  <1>13. FoundIsRow' /\ WritesAreInOrder'
    BY <1>1, <1>2, <1>3, <1>5 DEF FoundIsRow, WritesAreInOrder
  <1>14. RetriesWaitForNew'
    <2> SUFFICES ASSUME NEW q \in Requests PROVE RetriesWaitForNew!(q)'
      BY DEF RetriesWaitForNew
    <2>1. requests'[q] = requests[q]
      BY <1>2
    <2>2. ASSUME Repeats(q), NEW k \in LoadNos, Expects(q, k)' PROVE LoadFresh(k, q)'
      <3>1. Expects(q, k)
        <4>1. k # 0
          BY <1>1, LoadFields
        <4> QED  BY <1>6, <2>1, <2>2, <4>1 DEF Expects
      <3>2. CASE k = l
        <4>1. /\ s \in {"done", "minted"} => t \notin requests[q].seen
              /\ s = "found" => NewTo(t, requests[q].seen)
          BY <2>2, <3>1, <3>2 DEF LoadMoves
        <4> QED  BY <1>2, <1>3, <2>1, <3>2, <4>1 DEF LoadFresh, NewTo
      <3>3. CASE k # l
        <4>1. LoadFresh(k, q)
          BY <1>1, <2>2, <3>1 DEF RetriesWaitForNew
        <4> QED  BY <1>3, <2>1, <3>3, <4>1 DEF LoadFresh, NewTo
      <3> QED  BY <3>2, <3>3
    <2>3. ASSUME Repeats(q)
          PROVE  NewTo(row, requests[q].seen)' /\ NewTo(cached, requests[q].seen)'
      BY <1>1, <1>2, <1>4, <2>1, <2>3 DEF RetriesWaitForNew, NewTo
    <2>4. ASSUME Repeats(q), NEW p \in OpNos PROVE OpFresh(chain[p], requests[q].seen)'
      BY <1>1, <1>2, <2>1, <2>4 DEF RetriesWaitForNew, OpFresh
    <2>5. Repeats(q)' <=> Repeats(q)
      BY <2>1 DEF Repeats
    <2> QED  BY <1>1, <1>3, <2>1, <2>2, <2>3, <2>4, <2>5 DEF RetriesWaitForNew
  <1>15. CacheAgreesWithRow'
    BY <1>1, <1>2, <1>4 DEF CacheAgreesWithRow, Usable
  <1> QED  BY <1>7, <1>8, <1>9, <1>10, <1>11, <1>12, <1>13, <1>14, <1>15 DEF TokenInv

(* The load that another one follows exists.                               *)
LEMMA NextBounded ==
    ASSUME TokenInv, NEW l \in LoadNos, NEW s, NEW t, LoadChanged(loads, loads', l, s, t, loads[l].next)
    PROVE  \E n \in Nat : n <= Len(loads) /\ LoadChanged(loads, loads', l, s, t, n)
  <1>1. loads[l].next \in Nat /\ loads[l].next <= Len(loads)
    BY LoadFields DEF TokenInv, Bounded
  <1> QED  BY <1>1

(* A load reads the row: what it finds is what the row holds.              *)
LEMMA LoadReadsKeeps ==
    ASSUME TokenInv, NEW l \in LoadNos, LoadReads(l)
    PROVE  TokenInv'
  <1>1. Types /\ RetriesWaitForNew /\ row \in Nat /\ issued \in Nat /\ row <= issued
    BY Numbers DEF TokenInv, Bounded
  <1>2. LoadChanged(loads, loads', l, "found", row, loads[l].next)
    <2>1. loads' = [loads EXCEPT ![l].step = "found", ![l].token = row] /\ "found" \in LoadSteps
      BY DEF LoadReads, LoadSteps
    <2> QED  BY <1>1, <2>1, LoadStepped
  <1>3. \A r \in Requests : Repeats(r) => NewTo(row, requests[r].seen)
    BY <1>1 DEF RetriesWaitForNew
  <1>4. /\ loads[l].step = "read"
        /\ UNCHANGED <<cached, version, inflight, chain, requests, row, issued, unprimed, rowVersion, revoked, aged>>
    BY DEF LoadReads
  <1>5. LoadMoves(l, "found", row)
    BY NextBounded, <1>1, <1>2, <1>3, <1>4 DEF LoadMoves, LoadSteps, Working
  <1> QED  BY <1>5, LoadMovesKeep

(* A load that found nothing usable goes on to mint.                       *)
LEMMA LoadFoundNothingKeeps ==
    ASSUME TokenInv, NEW l \in LoadNos, LoadFoundNothing(l)
    PROVE  TokenInv'
  <1>1. Types /\ issued \in Nat
    BY Numbers DEF TokenInv
  <1>2. LoadChanged(loads, loads', l, "mint", None, loads[l].next)
    <2>1. /\ loads' = [loads EXCEPT ![l].step = "mint", ![l].token = None]
          /\ "mint" \in LoadSteps /\ None \in Nat
      BY DEF LoadFoundNothing, LoadSteps, None
    <2> QED  BY <1>1, <2>1, LoadStepped
  <1>3. /\ loads[l].step = "found"
        /\ UNCHANGED <<cached, version, inflight, chain, requests, row, issued, unprimed, rowVersion, revoked, aged>>
    BY DEF LoadFoundNothing
  <1>4. LoadMoves(l, "mint", None)
    BY NextBounded, <1>1, <1>2, <1>3 DEF LoadMoves, LoadSteps, Working, None
  <1> QED  BY <1>4, LoadMovesKeep

(* Nobody has seen a minted token before.                                  *)
LEMMA LoadMintsKeeps ==
    ASSUME TokenInv, NEW l \in LoadNos, LoadMints(l)
    PROVE  TokenInv'
  <1>1. Types /\ Bounded /\ issued \in Nat
    BY Numbers DEF TokenInv
  <1>2. LoadChanged(loads, loads', l, "minted", issued + 1, loads[l].next)
    <2>1. loads' = [loads EXCEPT ![l].step = "minted", ![l].token = issued + 1]
      BY DEF LoadMints
    <2>2. "minted" \in LoadSteps /\ issued + 1 \in Nat
      BY <1>1 DEF LoadSteps
    <2> QED  BY <1>1, <2>1, <2>2, LoadStepped
  <1>3. /\ loads[l].step = "mint" /\ issued' = issued + 1
        /\ UNCHANGED <<cached, version, inflight, chain, requests, row, unprimed, rowVersion, revoked, aged>>
    BY DEF LoadMints
  <1>4. \A r \in Requests : issued + 1 \notin requests[r].seen
    <2>1. issued + 1 \notin Known
      BY <1>1 DEF Known, Tokens
    <2> QED  BY <1>1, <2>1 DEF Bounded
  <1>6. \E n \in Nat : n <= Len(loads) /\ LoadChanged(loads, loads', l, "minted", issued + 1, n)
    BY NextBounded, <1>2
  <1>7. /\ "minted" \in LoadSteps \ {"store", "follow"} /\ "minted" \in Working
        /\ "mint" \in Working
    BY DEF LoadSteps, Working
  <1>8. /\ issued + 1 \in Nat /\ issued' \in Nat /\ issued' >= issued /\ issued + 1 <= issued'
    BY <1>1, <1>3
  <1>9. LoadMoves(l, "minted", issued + 1)
    BY <1>3, <1>4, <1>6, <1>7, <1>8 DEF LoadMoves
  <1> QED  BY <1>9, LoadMovesKeep

(* The end of a load, as far as the load and the load in flight go.        *)
LEMMA LoadEndsMoves ==
    ASSUME TokenInv, NEW l \in LoadNos, NEW how \in {"done", "failed"}, NEW t \in Nat,
           LoadEnds(l, how, t)
    PROVE  /\ loads[l].version = version => LoadChanged(loads, loads', l, how, t, loads[l].next)
           /\ loads[l].version # version => LoadChanged(loads, loads', l, "again", None, loads[l].next)
           /\ inflight' = Released(l)
  <1>1. Types /\ InflightWorks
    BY DEF TokenInv
  <1>2. None \in Nat /\ how \in LoadSteps /\ "again" \in LoadSteps
    BY DEF None, LoadSteps
  <1>3. CASE loads[l].version = version
    <2>1. loads' = [loads EXCEPT ![l].step = how, ![l].token = t] /\ inflight' = Released(l)
      BY <1>3 DEF LoadEnds
    <2> QED  BY <1>1, <1>2, <1>3, <2>1, LoadStepped
  <1>4. CASE loads[l].version # version
    <2>1. inflight # l
      BY <1>1, <1>4, LoadFields DEF InflightWorks
    <2>2. loads' = [loads EXCEPT ![l].step = "again", ![l].token = None] /\ inflight' = Released(l)
      BY <1>4, <2>1 DEF LoadEnds, Released
    <2> QED  BY <1>1, <1>2, <1>4, <2>2, LoadStepped
  <1> QED  BY <1>3, <1>4

(* A load ends with the token of the row and caches it while its version   *)
(* is current.                                                             *)
LEMMA LoadFoundKeeps ==
    ASSUME TokenInv, NEW l \in LoadNos, LoadFound(l)
    PROVE  TokenInv'
  <1>1. Types /\ Bounded /\ RetriesWaitForNew /\ FoundIsRow /\ issued \in Nat
    BY Numbers DEF TokenInv
  <1>2. /\ loads[l].step = "found" /\ Usable(loads[l].token)
        /\ cached' = CachesWhenCurrent(l) /\ LoadEnds(l, "done", loads[l].token)
        /\ UNCHANGED <<version, chain, requests, row, issued, unprimed, rowVersion, revoked, aged>>
    BY DEF LoadFound
  <1>3. loads[l].token \in Nat /\ loads[l].token <= issued
    BY <1>1, LoadFields DEF Bounded
  <1>4. \A r \in Requests : Repeats(r) /\ Expects(r, l) => loads[l].token \notin requests[r].seen
    BY <1>1, <1>2 DEF RetriesWaitForNew, LoadFresh, NewTo, Usable
  <1>5. loads[l].version = version => cached' = row
    BY <1>1, <1>2 DEF FoundIsRow, CachesWhenCurrent
  <1>6. loads[l].version # version => cached' = cached
    BY <1>2 DEF CachesWhenCurrent
  <1>7. inflight' = Released(l)
    BY <1>2, <1>3, LoadEndsMoves
  <1>8. CASE loads[l].version = version
    <2>1. LoadChanged(loads, loads', l, "done", loads[l].token, loads[l].next)
      BY <1>2, <1>3, <1>8, LoadEndsMoves
    <2>2. \E n \in Nat :
              n <= Len(loads) /\ LoadChanged(loads, loads', l, "done", loads[l].token, n)
      BY NextBounded, <2>1
    <2>3. /\ "done" \in LoadSteps \ {"store", "follow"} /\ "done" \notin Working
          /\ "found" \in Working
      BY DEF LoadSteps, Working
    <2>4. issued' \in Nat /\ issued' >= issued /\ loads[l].token <= issued'
      BY <1>1, <1>2, <1>3
    <2>5. LoadMoves(l, "done", loads[l].token)
      BY <1>2, <1>3, <1>4, <1>5, <1>7, <1>8, <2>2, <2>3, <2>4 DEF LoadMoves
    <2> QED  BY <2>5, LoadMovesKeep
  <1>9. CASE loads[l].version # version
    <2>1. LoadChanged(loads, loads', l, "again", None, loads[l].next)
      BY <1>2, <1>3, <1>9, LoadEndsMoves
    <2>2. LoadMoves(l, "again", None)
      BY NextBounded, <1>1, <1>2, <1>6, <1>7, <1>9, <2>1 DEF LoadMoves, LoadSteps, Working, None
    <2> QED  BY <2>2, LoadMovesKeep
  <1> QED  BY <1>8, <1>9

(* A load ends with an error.                                              *)
LEMMA LoadFailsKeeps ==
    ASSUME TokenInv, NEW l \in LoadNos, LoadFails(l)
    PROVE  TokenInv'
  <1>1. Types /\ issued \in Nat /\ None \in Nat
    BY Numbers DEF TokenInv, None
  <1>2. /\ loads[l].step \in {"read", "found", "mint", "minted"} /\ LoadEnds(l, "failed", None)
        /\ UNCHANGED <<cached, version, chain, requests, row, issued, unprimed, rowVersion, revoked, aged>>
    BY DEF LoadFails
  <1>3. inflight' = Released(l)
    BY <1>1, <1>2, LoadEndsMoves
  <1>4. CASE loads[l].version = version
    <2>1. LoadChanged(loads, loads', l, "failed", None, loads[l].next)
      BY <1>1, <1>2, <1>4, LoadEndsMoves
    <2>2. LoadMoves(l, "failed", None)
      BY NextBounded, <1>1, <1>2, <1>3, <2>1 DEF LoadMoves, LoadSteps, Working, None
    <2> QED  BY <2>2, LoadMovesKeep
  <1>5. CASE loads[l].version # version
    <2>1. LoadChanged(loads, loads', l, "again", None, loads[l].next)
      BY <1>1, <1>2, <1>5, LoadEndsMoves
    <2>2. LoadMoves(l, "again", None)
      BY NextBounded, <1>1, <1>2, <1>3, <2>1 DEF LoadMoves, LoadSteps, Working, None
    <2> QED  BY <2>2, LoadMovesKeep
  <1> QED  BY <1>4, <1>5

(* A load ends like the one it follows.                                    *)
LEMMA LoadFollowsKeeps ==
    ASSUME TokenInv, NEW l \in LoadNos, LoadFollows(l)
    PROVE  TokenInv'
  <1> DEFINE n == loads[l].next
  <1>1. Types /\ Bounded /\ RetriesWaitForNew /\ InflightWorks /\ issued \in Nat
    BY Numbers DEF TokenInv
  <1>2. /\ loads[l].step = "follow" /\ loads[n].step \in {"done", "failed"}
        /\ loads' = [loads EXCEPT ![l].step = loads[n].step, ![l].token = loads[n].token]
        /\ inflight' = Released(l)
        /\ UNCHANGED <<cached, version, chain, requests, row, issued, unprimed, rowVersion, revoked, aged>>
    BY DEF LoadFollows, Settled
  <1>3. n \in LoadNos
    BY <1>1, <1>2, LoadFields DEF Bounded, LoadNos
  <1>4. loads[n].token \in Nat /\ loads[n].token <= issued
    BY <1>1, <1>3, LoadFields DEF Bounded
  <1>5. LoadChanged(loads, loads', l, loads[n].step, loads[n].token, n)
    <2>1. loads[n].step \in LoadSteps
      BY <1>2 DEF LoadSteps
    <2> QED  BY <1>1, <1>2, <1>4, <2>1, LoadStepped
  <1>6. l # inflight
    BY <1>1, <1>2, LoadFields DEF InflightWorks, Working
  <1>7. ASSUME NEW r \in Requests, Repeats(r), Expects(r, l), loads[n].step = "done"
        PROVE  loads[n].token \notin requests[r].seen
    <2>1. requests[r].step = "wait" /\ n >= requests[r].load
      BY <1>1, <1>2, <1>6, <1>7 DEF RetriesWaitForNew, LoadFresh, Expects
    <2> QED  BY <1>1, <1>3, <1>7, <2>1 DEF RetriesWaitForNew, LoadFresh, Expects
  <1>8. \E m \in Nat : m <= Len(loads) /\ LoadChanged(loads, loads', l, loads[n].step, loads[n].token, m)
    BY <1>5, NextBounded
  <1> HIDE DEF n
  <1>9. LoadMoves(l, loads[n].step, loads[n].token)
    BY <1>1, <1>2, <1>4, <1>7, <1>8 DEF LoadMoves, LoadSteps, Working
  <1> QED  BY <1>9, LoadMovesKeep

(***************************************************************************)
(* The part of get that finds nothing cached: the caller joins the load in *)
(* flight, or the new load, which is the last one either way.              *)
(***************************************************************************)
Follows(l, m) ==
    /\ loads[l].step = "again" /\ m.step = "follow" /\ m.version = loads[l].version
    /\ m.token = None /\ m.next = Joined

Waits(q) ==
    /\ requests[q].step = "get" /\ requests'[q].step = "wait"
    /\ requests'[q].load = Joined /\ requests'[q].seen = requests[q].seen
    /\ requests'[q].token = None

Joins(ls) ==
    /\ chain = <<>> /\ ~Hit
    /\ UNCHANGED <<cached, version, chain, row, issued, unprimed, rowVersion, revoked, aged>>
    /\ inflight' = Joined /\ loads' = WithLoad(ls)
    /\ ls \in Seq(LoadRecords) /\ Len(ls) = Len(loads)
    /\ \A l \in LoadNos : ls[l] = loads[l] \/ Follows(l, ls[l])
    /\ requests' \in [Requests -> RequestRecords]
    /\ \A q \in Requests : requests'[q] = requests[q] \/ Waits(q)

(* Such a step keeps the invariant.                                        *)
LEMMA JoinsKeep ==
    ASSUME TokenInv, NEW ls, Joins(ls)
    PROVE  TokenInv'
  <1>1. /\ Types /\ Bounded /\ InflightWorks /\ FoundIsRow /\ WritesAreInOrder
        /\ RetriesWaitForNew /\ CacheAgreesWithRow
    BY DEF TokenInv
  <1>2. /\ ~Usable(cached) /\ inflight' = Joined
        /\ UNCHANGED <<cached, version, chain, row, issued, unprimed, rowVersion, revoked, aged>>
        /\ requests' \in [Requests -> RequestRecords]
        /\ \A q \in Requests : requests'[q] = requests[q] \/ Waits(q)
        /\ ls \in Seq(LoadRecords) /\ Len(ls) = Len(loads)
        /\ \A l \in LoadNos : ls[l] = loads[l] \/ Follows(l, ls[l])
    BY DEF Joins, Hit
  <1>3. chain' = <<>> /\ Len(chain') = 0 /\ OpNos' = {}
    BY DEF Joins, OpNos
  <1>4. Len(loads) \in Nat /\ inflight \in Nat /\ inflight \in {0, Len(loads)}
    BY <1>1, Numbers DEF InflightWorks
  <1>5. /\ loads' \in Seq(LoadRecords)
        /\ inflight # 0 => loads' = ls
        /\ inflight = 0 => /\ Len(loads') = Len(ls) + 1
                           /\ loads'[Len(ls) + 1] = NewLoad(version)
                           /\ \A l \in 1..Len(ls) : loads'[l] = ls[l]
    BY <1>1, <1>2, LoadJoins DEF Joins
  <1>6. /\ Joined \in Nat /\ Joined >= 1 /\ Len(loads') = Joined /\ Joined >= Len(loads)
        /\ Joined = IF inflight # 0 THEN Len(loads) ELSE Len(loads) + 1
    BY <1>2, <1>4, <1>5 DEF Joined
  <1>7. /\ \A l \in LoadNos : loads'[l] = ls[l] /\ l \in LoadNos' /\ l \in Nat /\ l <= Joined
        /\ \A l \in LoadNos' : l \in LoadNos \/ (inflight = 0 /\ l = Joined /\ loads'[l] = NewLoad(version))
        /\ Joined \in LoadNos'
    BY <1>2, <1>4, <1>5, <1>6 DEF LoadNos
  <1>8. NewLoad(version).step = "read" /\ NewLoad(version).version = version
        /\ NewLoad(version).token = None /\ NewLoad(version).next = 0
    BY DEF NewLoad
  <1>9. /\ loads'[Joined].step \in Working /\ loads'[Joined].version = version
        /\ inflight # 0 => Joined \in LoadNos /\ Joined = inflight /\ loads'[Joined] = loads[Joined]
        /\ inflight = 0 => loads'[Joined] = NewLoad(version)
    <2>1. CASE inflight # 0
      <3>1. Joined = inflight /\ Joined \in LoadNos
        BY <1>4, <1>6, <2>1 DEF LoadNos
      <3>2. loads[Joined].step \in Working /\ loads[Joined].version = version
        BY <1>1, <2>1, <3>1 DEF InflightWorks
      <3>3. loads'[Joined] = loads[Joined]
        BY <1>2, <1>7, <3>1, <3>2 DEF Follows, Working
      <3> QED  BY <2>1, <3>1, <3>2, <3>3
    <2>2. CASE inflight = 0
      BY <1>2, <1>4, <1>5, <1>6, <1>8, <2>2 DEF Working
    <2> QED  BY <2>1, <2>2
  <1>10. Types'
    BY <1>1, <1>2, <1>3, <1>5, <1>6, Numbers DEF Types
  <1>11. Bounded'
    <2>1. ASSUME NEW l \in LoadNos'
          PROVE  /\ loads'[l].version <= version /\ loads'[l].token <= issued
                 /\ loads'[l].next <= Len(loads')
                 /\ loads'[l].step = "follow" => loads'[l].next >= 1
      <3>1. CASE l \in LoadNos
        <4>1. /\ loads[l].version <= version /\ loads[l].token <= issued
              /\ loads[l].next <= Len(loads) /\ loads[l].next \in Nat /\ issued \in Nat
              /\ loads[l].step = "follow" => loads[l].next >= 1
          BY <1>1, <3>1, LoadFields, Numbers DEF Bounded
        <4>2. CASE ls[l] = loads[l]
          <5>1. loads'[l] = loads[l] /\ Len(loads) <= Len(loads') /\ Len(loads') \in Nat
            BY <1>6, <1>7, <3>1, <4>2
          <5> QED  BY <1>4, <4>1, <5>1
        <4>3. CASE Follows(l, ls[l])
          BY <1>4, <1>6, <1>7, <3>1, <4>1, <4>3 DEF Follows, None
        <4> QED  BY <1>2, <3>1, <4>2, <4>3
      <3>2. CASE loads'[l] = NewLoad(version)
        BY <1>1, <1>6, <1>8, <3>2, Numbers DEF None
      <3> QED  BY <1>7, <3>1, <3>2
    <2>2. ASSUME NEW q \in Requests
          PROVE  /\ requests'[q].load <= Len(loads') /\ requests'[q].token <= issued
                 /\ requests'[q].seen \subseteq Known
                 /\ requests'[q].step = "idle" => requests'[q].seen = {}
                 /\ requests'[q].step = "wait" => requests'[q].load >= 1
                 /\ requests'[q].step # "wait" => requests'[q].load = 0
      <3>1. /\ requests[q].load <= Len(loads) /\ requests[q].token <= issued
            /\ requests[q].seen \subseteq Known
            /\ requests[q].step = "idle" => requests[q].seen = {}
            /\ requests[q].step = "wait" => requests[q].load >= 1
            /\ requests[q].step # "wait" => requests[q].load = 0
            /\ requests[q].load \in Nat /\ issued \in Nat
        BY <1>1, RequestFields, Numbers DEF Bounded
      <3>2. CASE requests'[q] = requests[q]
        BY <1>4, <1>6, <3>1, <3>2
      <3>3. CASE Waits(q)
        BY <1>6, <3>1, <3>3 DEF Waits, None
      <3> QED  BY <1>2, <3>2, <3>3
    <2>3. Known' = Known
      BY <1>2 DEF Known, Tokens
    <2> QED  BY <1>1, <1>2, <1>3, <2>1, <2>2, <2>3 DEF Bounded
  <1>12. InflightWorks'
    <2>1. ASSUME NEW l \in LoadNos', loads'[l].step \in Working, loads'[l].version = version
          PROVE  l = Joined
      <3>1. CASE l \in LoadNos
        <4>1. loads[l] = ls[l] /\ loads'[l] = ls[l]
          BY <1>2, <1>7, <2>1, <3>1 DEF Follows, Working
        <4>2. l = inflight /\ inflight # 0
          BY <1>1, <2>1, <3>1, <4>1, LoadFields DEF InflightWorks
        <4> QED  BY <4>2, <1>9
      <3> QED  BY <1>7, <3>1
    <2> QED  BY <1>2, <1>6, <1>9, <2>1 DEF InflightWorks, Usable
  <1>13. /\ ChangesComeFirst' /\ StoresAreOfLoads' /\ OnlyHeadStarts' /\ ClearsAreAwaited'
         /\ CacheAgreesWithRow'
    BY <1>1, <1>2, <1>3 DEF ChangesComeFirst, StoresAreOfLoads, OnlyHeadStarts, ClearsAreAwaited,
                          CacheAgreesWithRow, Usable
  <1>14. FoundIsRow' /\ WritesAreInOrder'
    <2>1. ASSUME NEW l \in LoadNos', loads'[l].step \in {"found", "minted"}
          PROVE  l \in LoadNos /\ loads'[l] = loads[l]
      BY <1>2, <1>7, <1>8, <2>1 DEF Follows
    <2> QED  BY <1>1, <1>2, <1>3, <2>1 DEF FoundIsRow, WritesAreInOrder
  <1>15. RetriesWaitForNew'
    <2> SUFFICES ASSUME NEW q \in Requests PROVE RetriesWaitForNew!(q)'
      BY DEF RetriesWaitForNew
    <2>1. requests'[q].seen = requests[q].seen /\ (requests'[q].step = "use" => requests'[q] = requests[q])
      BY <1>2 DEF Waits
    <2>2. Repeats(q)' => Repeats(q)
      BY <1>2 DEF Repeats, Waits
    <2>3. ASSUME Repeats(q)', NEW l \in LoadNos', Expects(q, l)' PROVE LoadFresh(l, q)'
      <3>1. Repeats(q) /\ requests[q].load <= Len(loads) /\ requests[q].load \in Nat
        BY <1>1, <2>2, <2>3, RequestFields DEF Bounded
      <3>2. CASE inflight = 0 /\ l = Joined
        BY <1>8, <1>9, <3>2 DEF LoadFresh
      <3>3. CASE l = Joined /\ inflight # 0
        <4>1. l \in LoadNos /\ Expects(q, l) /\ loads'[l] = loads[l] /\ loads'[l].step \in Working
          BY <1>9, <3>3 DEF Expects
        <4>2. LoadFresh(l, q)
          BY <1>1, <3>1, <4>1 DEF RetriesWaitForNew
        <4> QED  BY <2>1, <4>1, <4>2 DEF LoadFresh, NewTo, Working
      <3>4. CASE l # Joined
        <4>1. l \in LoadNos /\ l \in Nat /\ l < Joined
          BY <1>6, <1>7, <3>4
        <4>2. requests'[q] = requests[q] /\ requests[q].step = "wait" /\ l >= requests[q].load
          BY <1>2, <1>6, <2>3, <3>4, <4>1 DEF Expects, Waits
        <4>3. LoadFresh(l, q)
          BY <1>1, <3>1, <4>1, <4>2 DEF RetriesWaitForNew, Expects
        <4>4. CASE ls[l] = loads[l]
          BY <1>7, <4>1, <4>2, <4>3, <4>4 DEF LoadFresh, NewTo
        <4>5. CASE Follows(l, ls[l])
          BY <1>4, <1>6, <1>7, <3>1, <4>1, <4>2, <4>5 DEF LoadFresh, Follows
        <4> QED  BY <1>2, <4>1, <4>4, <4>5
      <3> QED  BY <3>2, <3>3, <3>4
    <2> QED  BY <1>1, <1>2, <1>3, <2>1, <2>2, <2>3 DEF RetriesWaitForNew, NewTo
  <1> QED  BY <1>10, <1>11, <1>12, <1>13, <1>14, <1>15 DEF TokenInv

(* A call gets the cached token or joins a load.                           *)
LEMMA RequestGetsKeeps ==
    ASSUME TokenInv, NEW r \in Requests, RequestGets(r)
    PROVE  TokenInv'
  <1>1. /\ Types /\ Bounded /\ RetriesWaitForNew /\ requests[r] \in RequestRecords
        /\ requests \in [Requests -> RequestRecords] /\ loads \in Seq(LoadRecords)
    BY DEF TokenInv, Types
  <1>2. /\ requests[r].step = "get" /\ chain = <<>>
        /\ requests' = [requests EXCEPT
               ![r].step = IF Hit THEN "use" ELSE "wait",
               ![r].token = IF Hit THEN cached ELSE None,
               ![r].load = IF Hit THEN 0 ELSE Joined]
        /\ loads' = WithLoad(loads) /\ inflight' = IF Hit THEN inflight ELSE Joined
        /\ UNCHANGED <<cached, version, chain, row, issued, unprimed, rowVersion, revoked, aged>>
    BY DEF RequestGets, WritesSettled
  <1>3. cached \in Nat /\ Joined \in Nat /\ None \in Nat /\ cached <= issued /\ Len(loads) \in Nat
    BY <1>1, Numbers DEF Joined, None, Bounded
  <1>4. ASSUME NEW a \in RequestSteps, NEW t \in Nat, NEW n \in Nat,
               requests' = [requests EXCEPT ![r].step = a, ![r].token = t, ![r].load = n]
        PROVE  /\ requests' \in [Requests -> RequestRecords]
               /\ \A q \in Requests : q # r => requests'[q] = requests[q]
               /\ requests'[r].step = a /\ requests'[r].token = t /\ requests'[r].load = n
               /\ requests'[r].seen = requests[r].seen
    <2> DEFINE y == Replaced(requests[r], a, t, n)
    <2>1. requests' = [requests EXCEPT ![r] = y]
      BY <1>4 DEF Replaced
    <2>2. y \in RequestRecords /\ y.step = a /\ y.token = t /\ y.load = n /\ y.seen = requests[r].seen
      BY <1>1, RequestReplaced
    <2> HIDE DEF y
    <2> QED  BY <1>1, <2>1, <2>2
  <1>5. CASE Hit
    <2>1. /\ requests' \in [Requests -> RequestRecords]
          /\ \A q \in Requests : q # r => requests'[q] = requests[q]
          /\ requests'[r].step = "use" /\ requests'[r].token = cached /\ requests'[r].load = 0
          /\ requests'[r].seen = requests[r].seen
      BY <1>2, <1>3, <1>4, <1>5 DEF RequestSteps
    <2>2. UNCHANGED <<memory, row, issued, unprimed, rowVersion, revoked, aged>>
      BY <1>1, <1>2, <1>5, LoadJoins DEF memory
    <2>3. requests[r].seen # {} => cached \notin requests[r].seen
      BY <1>1, <1>2, <1>5 DEF RetriesWaitForNew, Repeats, NewTo, Hit, Usable
    <2> QED  BY SMTT(30), <1>2, <1>3, <2>1, <2>2, <2>3, RequestMovesKeep
  <1>6. CASE ~Hit
    <2>1. /\ requests' \in [Requests -> RequestRecords]
          /\ \A q \in Requests : q # r => requests'[q] = requests[q]
          /\ requests'[r].step = "wait" /\ requests'[r].token = None /\ requests'[r].load = Joined
          /\ requests'[r].seen = requests[r].seen
      BY <1>2, <1>3, <1>4, <1>6 DEF RequestSteps
    <2>2. Joins(loads)
      BY <1>1, <1>2, <1>6, <2>1 DEF Joins, Waits
    <2> QED  BY SMTT(30), <2>2, JoinsKeep
  <1> QED  BY <1>5, <1>6

(* An outdated load does the same for those that wait for it.              *)
LEMMA LoadGetsAgainKeeps ==
    ASSUME TokenInv, NEW l \in LoadNos, LoadGetsAgain(l)
    PROVE  TokenInv'
  <1> DEFINE ls == [loads EXCEPT ![l].step = IF Hit THEN "done" ELSE "follow",
                                 ![l].token = IF Hit THEN cached ELSE None,
                                 ![l].next = IF Hit THEN 0 ELSE Joined]
             step == IF Hit THEN "done" ELSE "follow"
             token == IF Hit THEN cached ELSE None
             next == IF Hit THEN 0 ELSE Joined
  <1>1. /\ Types /\ Bounded /\ RetriesWaitForNew /\ InflightWorks /\ loads \in Seq(LoadRecords)
        /\ l \in 1..Len(loads)
    BY DEF TokenInv, Types, LoadNos
  <1>2. /\ loads[l].step = "again" /\ chain = <<>>
        /\ loads' = WithLoad(ls) /\ inflight' = IF Hit THEN Released(l) ELSE Joined
        /\ UNCHANGED <<cached, version, chain, requests, row, issued, unprimed, rowVersion, revoked, aged>>
    BY DEF LoadGetsAgain, WritesSettled
  <1>3. /\ cached \in Nat /\ Joined \in Nat /\ None \in Nat /\ cached <= issued
        /\ Len(loads) \in Nat /\ issued \in Nat
    BY <1>1, Numbers DEF Joined, None, Bounded
  <1>4. step \in LoadSteps /\ token \in Nat /\ next \in Nat
    BY <1>3 DEF LoadSteps
  <1>5. LoadChanged(loads, ls, l, step, token, next)
    <2>1. LoadChanged(loads, [loads EXCEPT ![l].step = step, ![l].token = token, ![l].next = next],
                  l, step, token, next)
      <3> HIDE DEF step, token, next
      <3> QED  BY <1>1, <1>4, LoadReplaced
    <2> QED  BY SMTT(30), <2>1
  <1> HIDE DEF ls
  <1>6. CASE Hit
    <2>1. loads' = ls /\ inflight' = Released(l)
      BY <1>1, <1>2, <1>5, <1>6, LoadJoins DEF LoadChanged
    <2>2. LoadChanged(loads, loads', l, "done", cached, 0)
      BY <1>5, <1>6, <2>1
    <2>3. \E n \in Nat : n <= Len(loads) /\ LoadChanged(loads, loads', l, "done", cached, n)
      BY <1>3, <2>2
    <2>4. \A r \in Requests : Repeats(r) => cached \notin requests[r].seen
      BY <1>1, <1>6 DEF RetriesWaitForNew, NewTo, Hit, Usable
    <2>5. LoadMoves(l, "done", cached)
      BY <1>2, <1>3, <2>1, <2>3, <2>4 DEF LoadMoves, LoadSteps, Working
    <2> QED  BY <2>5, LoadMovesKeep
  <1>7. CASE ~Hit
    <2>1. LoadChanged(loads, ls, l, "follow", None, Joined)
      BY <1>5, <1>7
    <2>2. ls \in Seq(LoadRecords) /\ Len(ls) = Len(loads) /\ Follows(l, ls[l])
          /\ \A k \in LoadNos : k # l => ls[k] = loads[k]
      BY <1>2, <2>1 DEF LoadChanged, Follows, LoadNos
    <2>3. Joins(ls)
      BY <1>1, <1>2, <1>7, <2>2 DEF Joins, Types
    <2> QED  BY <2>3, JoinsKeep
  <1> QED  BY <1>6, <1>7

(* A load hands its token to the chain of writes.                          *)
LEMMA LoadStoresKeeps ==
    ASSUME TokenInv, NEW l \in LoadNos, LoadStores(l)
    PROVE  TokenInv'
  <1> DEFINE op == StoreOp(l)
  <1>1. /\ Types /\ Bounded
        /\ InflightWorks /\ ChangesComeFirst /\ StoresAreOfLoads /\ OnlyHeadStarts
        /\ FoundIsRow /\ WritesAreInOrder /\ ClearsAreAwaited /\ RetriesWaitForNew
        /\ CacheAgreesWithRow
    BY DEF TokenInv
  <1>2. /\ loads[l].step = "minted" /\ chain' = Append(chain, op)
        /\ loads' = [loads EXCEPT ![l].step = "store"]
        /\ UNCHANGED <<cached, version, inflight, requests, row, issued, unprimed, rowVersion, revoked, aged>>
    BY DEF LoadStores
  <1>3. /\ loads[l].version \in Nat /\ loads[l].token \in Nat /\ l \in Nat /\ l >= 1 /\ l <= Len(loads)
        /\ loads[l].version <= version /\ loads[l].token <= issued
        /\ version \in Nat /\ issued \in Nat
    BY <1>1, LoadFields, Numbers DEF Bounded
  <1>4. /\ op \in OpRecords /\ op.kind = "store" /\ op.token = loads[l].token
        /\ op.version = loads[l].version /\ op.load = l /\ op.request = {} /\ ~op.started
    BY <1>3 DEF StoreOp, OpRecords
  <1> HIDE DEF op
  <1>5. Gained(chain, chain', op)
    BY <1>1, <1>2, <1>4, OpGained DEF Types
  <1>6. /\ \A p \in OpNos : chain'[p] = chain[p] /\ p < Len(chain) + 1 /\ p \in Nat
        /\ chain'[Len(chain) + 1] = op /\ Len(chain) + 1 \in Nat
        /\ \A p \in OpNos' : p \in OpNos \/ p = Len(chain) + 1
        /\ \A p \in OpNos : p \in OpNos'
        /\ Len(chain) + 1 \in OpNos'
    BY SMTT(30), <1>1, <1>5, Numbers DEF Gained, OpNos
  <1>7. LoadChanged(loads, loads', l, "store", loads[l].token, loads[l].next)
    <2>1. /\ loads \in Seq(LoadRecords) /\ l \in 1..Len(loads) /\ "store" \in LoadSteps /\ 0 \in Nat
      BY <1>1 DEF Types, LoadNos, LoadSteps
    <2>2. LoadChanged(loads, [loads EXCEPT ![l].step = "store"], l, "store", loads[l].token, loads[l].next)
      BY <2>1, LoadReplaced
    <2> QED  BY <1>2, <2>2
  <1>8. /\ loads' \in Seq(LoadRecords) /\ Len(loads') = Len(loads) /\ LoadNos' = LoadNos
        /\ \A k \in LoadNos : k # l => loads'[k] = loads[k]
        /\ loads'[l].step = "store"
        /\ \A k \in LoadNos : /\ loads'[k].version = loads[k].version
                              /\ loads'[k].token = loads[k].token
                              /\ loads'[k].next = loads[k].next
    BY <1>7 DEF LoadChanged, LoadNos
  <1>9. Types'
    BY <1>1, <1>2, <1>5, <1>8, Numbers DEF Types, Gained
  <1>10. Bounded'
    <2>1. ASSUME NEW p \in OpNos'
          PROVE  chain'[p].version <= version /\ chain'[p].token <= issued /\ chain'[p].load <= Len(loads)
      BY <1>1, <1>3, <1>4, <1>6 DEF Bounded
    <2>2. ASSUME NEW k \in LoadNos
          PROVE  /\ loads'[k].version <= version /\ loads'[k].token <= issued
                 /\ loads'[k].next <= Len(loads)
                 /\ loads'[k].step = "follow" => loads'[k].next >= 1
      BY <1>1, <1>8 DEF Bounded
    <2>3. Known' = Known
      BY <1>2 DEF Known, Tokens
    <2> QED  BY <1>1, <1>2, <1>8, <2>1, <2>2, <2>3 DEF Bounded
  <1>11. InflightWorks'
    BY <1>1, <1>2, <1>8 DEF InflightWorks, Working, Usable, LoadNos
  <1>12. ChangesComeFirst'
    <2>1. ASSUME NEW p \in OpNos', NEW q \in OpNos', p < q, chain'[q].kind # "store"
          PROVE  chain'[p].version < chain'[q].version
      <3>1. q \in OpNos /\ p \in OpNos
        BY <1>1, <1>4, <1>6, <2>1, Numbers, OpFields
      <3> QED  BY <1>1, <1>6, <2>1, <3>1 DEF ChangesComeFirst
    <2>2. ASSUME NEW p \in OpNos', chain'[p].kind # "store"
          PROVE  cached = None /\ \A k \in LoadNos : loads[k].version < chain'[p].version
      BY <1>1, <1>4, <1>6, <2>2 DEF ChangesComeFirst
    <2> QED  BY <1>2, <1>8, <2>1, <2>2 DEF ChangesComeFirst
  <1>13. StoresAreOfLoads'
    <2>1. ASSUME NEW p \in OpNos, chain[p].kind = "store"
          PROVE  chain[p].load \in LoadNos /\ chain[p].load # l
      BY <1>1, <1>2, <2>1, OpFields, Numbers DEF StoresAreOfLoads, Bounded, LoadNos
    <2>2. ASSUME NEW p \in OpNos', chain'[p].kind = "store"
          PROVE  /\ chain'[p].load >= 1 /\ loads'[chain'[p].load].step = "store"
                 /\ loads'[chain'[p].load].version = chain'[p].version
      <3>1. CASE p \in OpNos
        BY <1>1, <1>6, <1>8, <2>1, <2>2, <3>1 DEF StoresAreOfLoads
      <3>2. CASE p = Len(chain) + 1
        BY <1>3, <1>4, <1>6, <1>8, <3>2
      <3> QED  BY <1>6, <3>1, <3>2
    <2>3. ASSUME NEW p \in OpNos', NEW q \in OpNos', chain'[p].kind = "store",
                 chain'[q].kind = "store", chain'[p].load = chain'[q].load
          PROVE  p = q
      <3>1. CASE p \in OpNos /\ q \in OpNos
        BY <1>1, <1>6, <2>3, <3>1 DEF StoresAreOfLoads
      <3>2. CASE p = Len(chain) + 1 \/ q = Len(chain) + 1
        BY <1>4, <1>6, <2>1, <2>3, <3>2
      <3> QED  BY <1>6, <3>1, <3>2
    <2> QED  BY <2>2, <2>3 DEF StoresAreOfLoads
  <1>14. OnlyHeadStarts'
    <2> SUFFICES ASSUME NEW p \in OpNos', chain'[p].started
                 PROVE  /\ p = 1
                        /\ chain'[p].kind = "store" =>
                               \/ chain'[p].version = version'
                               \/ \E q \in OpNos' : chain'[q].kind # "store"
      BY DEF OnlyHeadStarts
    <2>1. p \in OpNos /\ chain'[p] = chain[p]
      BY <1>4, <1>6
    <2>2. /\ p = 1
          /\ chain[p].kind = "store" => \/ chain[p].version = version
                                        \/ \E q \in OpNos : chain[q].kind # "store"
      BY <1>1, <2>1 DEF OnlyHeadStarts
    <2>3. (\E q \in OpNos : chain[q].kind # "store") => \E q \in OpNos' : chain'[q].kind # "store"
      BY <1>6
    <2> QED  BY <1>2, <2>1, <2>2, <2>3
  <1>15. FoundIsRow'
    BY <1>1, <1>2, <1>8 DEF FoundIsRow
  <1>16. WritesAreInOrder'
    BY <1>1, <1>2, <1>4, <1>6 DEF WritesAreInOrder
  <1>17. ClearsAreAwaited'
    <2>1. ASSUME NEW p \in OpNos', NEW r \in chain'[p].request
          PROVE  p \in OpNos /\ chain'[p] = chain[p]
      BY <1>4, <1>6, <2>1
    <2>2. ASSUME NEW p \in OpNos', NEW q \in OpNos', NEW r \in chain'[p].request,
                 p < q, chain'[q].kind = "prime"
          PROVE  chain'[q].token \notin requests[r].seen
      <3>1. q \in OpNos /\ p \in OpNos
        BY <1>4, <1>6, <2>1, <2>2
      <3> QED  BY <1>1, <1>6, <2>2, <3>1 DEF ClearsAreAwaited
    <2> QED  BY <1>1, <1>2, <1>6, <2>1, <2>2 DEF ClearsAreAwaited
  <1>18. RetriesWaitForNew'
    <2> SUFFICES ASSUME NEW q \in Requests PROVE RetriesWaitForNew!(q)'
      BY DEF RetriesWaitForNew
    <2>1. requests'[q] = requests[q]
      BY <1>2
    <2>2. ASSUME Repeats(q), NEW k \in LoadNos, Expects(q, k)' PROVE LoadFresh(k, q)'
      <3>1. LoadFresh(k, q)
        BY <1>1, <1>2, <2>1, <2>2 DEF RetriesWaitForNew, Expects
      <3> QED  BY <1>2, <1>8, <2>1, <3>1 DEF LoadFresh, NewTo
    <2>3. ASSUME Repeats(q), NEW p \in OpNos' PROVE OpFresh(chain[p], requests[q].seen)'
      <3>1. CASE p \in OpNos
        BY <1>1, <1>2, <1>6, <2>1, <2>3, <3>1 DEF RetriesWaitForNew, OpFresh
      <3>2. CASE p = Len(chain) + 1 /\ loads[l].version = version
        <4>1. l = inflight
          BY <1>1, <1>2, <3>2 DEF InflightWorks, Working
        <4>2. loads[l].token \notin requests[q].seen
          BY <1>1, <1>2, <2>3, <4>1 DEF RetriesWaitForNew, Expects, LoadFresh
        <4> QED  BY <1>4, <1>6, <2>1, <3>2, <4>2 DEF OpFresh
      <3>3. CASE p = Len(chain) + 1 /\ loads[l].version # version
        BY <1>2, <1>3, <1>4, <1>6, <3>3 DEF OpFresh
      <3> QED  BY <1>6, <3>1, <3>2, <3>3
    <2>4. Repeats(q)' <=> Repeats(q)
      BY <2>1 DEF Repeats
    <2> QED  BY <1>1, <1>2, <1>8, <2>1, <2>2, <2>3, <2>4 DEF RetriesWaitForNew, NewTo
  <1>19. CacheAgreesWithRow'
    BY <1>1, <1>2 DEF CacheAgreesWithRow, Usable
  <1> QED  BY <1>9, <1>10, <1>11, <1>12, <1>13, <1>14, <1>15, <1>16, <1>17, <1>18, <1>19 DEF TokenInv

(* The first operation starts.                                             *)
LEMMA WriteStartsKeeps ==
    ASSUME TokenInv, WriteStarts
    PROVE  TokenInv'
  <1>1. /\ Types /\ Bounded
        /\ InflightWorks /\ ChangesComeFirst /\ StoresAreOfLoads /\ OnlyHeadStarts
        /\ FoundIsRow /\ WritesAreInOrder /\ ClearsAreAwaited /\ RetriesWaitForNew
        /\ CacheAgreesWithRow
    BY DEF TokenInv
  <1>2. /\ chain # <<>> /\ (Op.kind = "clear" \/ Op.version = version)
        /\ chain' = [chain EXCEPT ![1].started = TRUE]
        /\ UNCHANGED <<cached, version, inflight, loads, requests, row, issued, unprimed, rowVersion, revoked, aged>>
    BY DEF WriteStarts, Skipped
  <1>3. /\ chain' \in Seq(OpRecords) /\ Len(chain') = Len(chain) /\ Len(chain) >= 1
        /\ OpMarked(chain'[1], chain[1])
        /\ \A p \in 1..Len(chain) : p # 1 => chain'[p] = chain[p]
    BY <1>1, <1>2, OpStarted DEF Types
  <1>4. /\ OpNos' = OpNos /\ LoadNos' = LoadNos /\ 1 \in OpNos
        /\ \A p \in OpNos : p # 1 => chain'[p] = chain[p]
        /\ \A p \in OpNos :
               /\ chain'[p].kind = chain[p].kind /\ chain'[p].token = chain[p].token
               /\ chain'[p].version = chain[p].version /\ chain'[p].load = chain[p].load
               /\ chain'[p].request = chain[p].request
    BY <1>1, <1>2, <1>3, Numbers DEF OpNos, LoadNos, OpMarked
  <1>5. chain[1].kind = "clear" \/ chain[1].version = version
    BY <1>1, <1>2, OpDropped DEF Op, Types
  <1>6. Types'
    BY <1>1, <1>2, <1>3 DEF Types
  <1>7. Bounded'
    <2>1. Known' = Known
      BY <1>2 DEF Known, Tokens
    <2> QED  BY <1>1, <1>2, <1>4, <2>1 DEF Bounded
  <1>8. InflightWorks' /\ FoundIsRow' /\ CacheAgreesWithRow'
    BY <1>1, <1>2, <1>4 DEF InflightWorks, FoundIsRow, CacheAgreesWithRow, Usable
  <1>9. ChangesComeFirst'
    BY <1>1, <1>2, <1>4 DEF ChangesComeFirst
  <1>10. StoresAreOfLoads'
    BY <1>1, <1>2, <1>4 DEF StoresAreOfLoads
  <1>11. OnlyHeadStarts'
    BY <1>1, <1>2, <1>4, <1>5 DEF OnlyHeadStarts
  <1>12. WritesAreInOrder'
    <2>1. ASSUME NEW p \in OpNos
          PROVE  /\ chain'[p].kind = "clear" => chain'[p].token = None
                 /\ chain'[p].started \/ chain'[p].kind # "store" => chain'[p].version >= rowVersion
      <3>1. rowVersion <= version /\ rowVersion \in Nat /\ version \in Nat
        BY <1>1, Numbers DEF Bounded
      <3> QED  BY <1>1, <1>4, <1>5, <3>1 DEF WritesAreInOrder
    <2> QED  BY <1>2, <1>4, <2>1 DEF WritesAreInOrder
  <1>13. ClearsAreAwaited'
    BY <1>1, <1>2, <1>4 DEF ClearsAreAwaited
  <1>14. RetriesWaitForNew'
    <2> SUFFICES ASSUME NEW q \in Requests PROVE RetriesWaitForNew!(q)'
      BY DEF RetriesWaitForNew
    <2>1. requests'[q] = requests[q]
      BY <1>2
    <2>2. ASSUME Repeats(q), NEW k \in LoadNos, Expects(q, k)' PROVE LoadFresh(k, q)'
      <3>1. LoadFresh(k, q)
        BY <1>1, <1>2, <2>1, <2>2 DEF RetriesWaitForNew, Expects
      <3> QED  BY <1>2, <2>1, <3>1 DEF LoadFresh, NewTo
    <2>3. ASSUME Repeats(q), NEW p \in OpNos PROVE OpFresh(chain[p], requests[q].seen)'
      <3>1. OpFresh(chain[p], requests[q].seen)
        BY <1>1, <2>3 DEF RetriesWaitForNew
      <3>2. version \in Nat
        BY <1>1, Numbers
      <3>3. CASE p # 1
        BY <1>2, <1>4, <2>1, <3>1, <3>3 DEF OpFresh
      <3>4. CASE p = 1
        <4>1. chain[p].kind = "clear" \/ chain[p].token \notin requests[q].seen
          BY <1>5, <3>1, <3>2, <3>4 DEF OpFresh
        <4> QED  BY <1>4, <2>1, <4>1 DEF OpFresh
      <3> QED  BY <3>3, <3>4
    <2>4. Repeats(q)' <=> Repeats(q)
      BY <2>1 DEF Repeats
    <2> QED  BY <1>1, <1>2, <1>4, <2>1, <2>2, <2>3, <2>4 DEF RetriesWaitForNew, NewTo
  <1> QED  BY <1>6, <1>7, <1>8, <1>9, <1>10, <1>11, <1>12, <1>13, <1>14 DEF TokenInv

(* The storage revokes tokens, or tokens come near their expiry.           *)
LEMMA TimePassesKeeps ==
    ASSUME TokenInv, Revoke \/ Age
    PROVE  TokenInv'
  <1>1. /\ UNCHANGED <<cached, version, inflight, chain, loads, requests, row, issued, unprimed,
                   rowVersion>>
        /\ revoked' \in {revoked, issued} /\ aged' \in {aged, issued}
    BY DEF Revoke, Age, memory
  <1>2. /\ Types /\ Bounded /\ aged <= issued /\ revoked <= issued /\ aged \in Nat /\ issued \in Nat
        /\ revoked \in Nat /\ cached \in Nat /\ InflightWorks /\ CacheAgreesWithRow
    BY Numbers DEF TokenInv, Bounded
  <1>3. LoadNos' = LoadNos /\ OpNos' = OpNos
    BY <1>1 DEF LoadNos, OpNos
  <1>4. Usable(cached)' => Usable(cached)
    BY <1>1, <1>2 DEF Usable
  <1>5. Types' /\ Bounded'
    <2>1. aged' \in Nat /\ revoked' \in Nat /\ aged' <= issued /\ revoked' <= issued
      BY <1>1, <1>2
    <2>2. Known' = Known
      BY <1>1 DEF Known, Tokens
    <2> QED  BY <1>1, <1>2, <1>3, <2>1, <2>2 DEF Types, Bounded
  <1>6. InflightWorks' /\ CacheAgreesWithRow'
    BY <1>1, <1>2, <1>3, <1>4 DEF InflightWorks, CacheAgreesWithRow
  <1>7. /\ ChangesComeFirst' /\ StoresAreOfLoads' /\ OnlyHeadStarts' /\ FoundIsRow'
        /\ WritesAreInOrder' /\ ClearsAreAwaited'
    BY <1>1, <1>3 DEF TokenInv, ChangesComeFirst, StoresAreOfLoads, OnlyHeadStarts, FoundIsRow,
                      WritesAreInOrder, ClearsAreAwaited
  <1>8. RetriesWaitForNew'
    BY <1>1, <1>3 DEF TokenInv, RetriesWaitForNew, Repeats, Expects, LoadFresh, OpFresh, NewTo
  <1> QED  BY <1>5, <1>6, <1>7, <1>8 DEF TokenInv

(* The process dies; a write that was under way may reach the row.         *)
LEMMA RestartKeeps ==
    ASSUME TokenInv, Restart
    PROVE  TokenInv'
  <1>1. Types /\ Bounded
    BY DEF TokenInv
  <1>2. /\ cached' = None /\ version' = 0 /\ inflight' = 0 /\ chain' = <<>> /\ loads' = <<>>
        /\ requests' = [r \in Requests |->
               IF requests[r].step \in {"idle", "done"} THEN requests[r]
               ELSE [requests[r] EXCEPT !.step = "failed", !.load = 0]]
        /\ rowVersion' = 0 /\ unprimed' = {}
        /\ UNCHANGED <<issued, revoked, aged>>
    BY DEF Restart
  <1>3. row' \in Nat /\ row' <= issued
    <2>1. CASE chain # <<>> /\ row' = Op.token
      <3>1. Op = chain[1] /\ 1 \in OpNos
        BY <1>1, <2>1, OpDropped, Numbers DEF Types, Op, OpNos, Dropped
      <3>2. Op.token \in Nat /\ Op.token <= issued
        BY <1>1, <3>1, OpFields DEF Bounded
      <3> QED  BY <2>1, <3>2
    <2>2. CASE row' = row
      BY <1>1, <2>2, Numbers DEF Bounded
    <2> QED  BY <2>1, <2>2 DEF Restart
  <1>4. loads' = <<>> /\ chain' = <<>>
    BY <1>2
  <1>5. /\ loads' \in Seq(LoadRecords) /\ chain' \in Seq(OpRecords)
        /\ Len(loads') = 0 /\ Len(chain') = 0 /\ LoadNos' = {} /\ OpNos' = {}
    BY <1>4 DEF LoadNos, OpNos
  <1>6. ASSUME NEW r \in Requests
        PROVE  /\ requests'[r] \in RequestRecords
               /\ requests'[r].load = 0 /\ requests'[r].token <= issued
               /\ requests'[r].seen \subseteq Known
               /\ requests'[r].step = "idle" => requests'[r].seen = {}
               /\ requests'[r].step \in {"idle", "done", "failed"}
    <2>1. /\ requests[r] \in RequestRecords
          /\ requests[r].token <= issued /\ requests[r].seen \subseteq Known
          /\ requests[r].step = "idle" => requests[r].seen = {}
          /\ requests[r].step # "wait" => requests[r].load = 0
      BY <1>1, Elements DEF Bounded
    <2>2. CASE requests[r].step \in {"idle", "done"}
      <3>1. requests'[r] = requests[r]
        BY <1>2, <2>2
      <3> QED  BY <2>1, <2>2, <3>1
    <2>3. CASE requests[r].step \notin {"idle", "done"}
      <3>1. requests'[r] = [requests[r] EXCEPT !.step = "failed", !.load = 0]
        BY <1>2, <2>3
      <3>2. LET y == [requests[r] EXCEPT !.step = "failed", !.load = 0] IN
            /\ y \in RequestRecords /\ y.step = "failed" /\ y.load = 0
            /\ y.token = requests[r].token /\ y.seen = requests[r].seen
        <4> DEFINE x == requests[r]
        <4>1. x \in RequestRecords
          BY <2>1
        <4> HIDE DEF x
        <4>2. LET y == [x EXCEPT !.step = "failed", !.load = 0] IN
              /\ y \in RequestRecords /\ y.step = "failed" /\ y.load = 0
              /\ y.token = x.token /\ y.seen = x.seen
          BY <4>1, RequestDies
        <4> QED  BY <4>2 DEF x
      <3> QED  BY <2>1, <3>1, <3>2
    <2> QED  BY <2>2, <2>3
  <1>7. requests' \in [Requests -> RequestRecords]
    BY <1>2, <1>6
  <1>8. Types'
    BY <1>1, <1>2, <1>3, <1>5, <1>7, Numbers DEF Types, None
  <1>9. Bounded'
    <2>1. /\ cached' = 0 /\ version' = 0 /\ rowVersion' = 0 /\ unprimed' = {} /\ issued' = issued
          /\ revoked' = revoked /\ aged' = aged /\ Known \subseteq Known'
      BY <1>2 DEF None, Known, Tokens
    <2>3. revoked <= issued /\ aged <= issued /\ issued \in Nat
      BY <1>1, Numbers DEF Bounded
    <2>2. \A r \in Requests :
             /\ requests'[r].load = 0 /\ requests'[r].token <= issued
             /\ requests'[r].seen \subseteq Known
             /\ requests'[r].step = "idle" => requests'[r].seen = {}
             /\ requests'[r].step # "wait"
      BY <1>6
    <2> QED  BY <1>3, <1>5, <2>1, <2>2, <2>3 DEF Bounded
  <1>10. /\ InflightWorks' /\ ChangesComeFirst' /\ StoresAreOfLoads' /\ OnlyHeadStarts'
         /\ FoundIsRow' /\ WritesAreInOrder' /\ ClearsAreAwaited'
    BY <1>2, <1>5 DEF InflightWorks, ChangesComeFirst, StoresAreOfLoads, OnlyHeadStarts, FoundIsRow,
                      WritesAreInOrder, ClearsAreAwaited
  <1>11. RetriesWaitForNew' /\ CacheAgreesWithRow'
    BY <1>2, <1>6 DEF RetriesWaitForNew, Repeats, CacheAgreesWithRow, Usable
  <1> QED  BY <1>8, <1>9, <1>10, <1>11 DEF TokenInv

(***************************************************************************)
(* The end of the first write of the chain: it was done, it failed with or *)
(* without reaching the row, or it was skipped.                            *)
(***************************************************************************)
WriteEnds(ok, wrote) ==
    /\ chain # <<>> /\ chain' = Tail(chain)
    /\ \/ Op.started /\ (ok => wrote)
       \/ ~Op.started /\ Op.kind # "clear" /\ Op.version # version /\ ok /\ ~wrote
    /\ IF wrote THEN RowWritten ELSE UNCHANGED <<row, rowVersion>>
    /\ cached' = IF ok /\ wrote THEN CachesStored ELSE cached
    /\ WaiterContinues(ok)
    /\ UNCHANGED <<version, issued, unprimed, revoked, aged>>

(* The load that a store ends.                                             *)
StoreLoadEnds(ok) ==
    /\ Op.load \in LoadNos /\ loads[Op.load].step = "store"
    /\ loads[Op.load].version = Op.version
    /\ inflight' = Released(Op.load)
    /\ Op.version = version /\ ok =>
           LoadChanged(loads, loads', Op.load, "done", Op.token, loads[Op.load].next)
    /\ Op.version = version /\ ~ok =>
           LoadChanged(loads, loads', Op.load, "failed", None, loads[Op.load].next)
    /\ Op.version # version =>
           LoadChanged(loads, loads', Op.load, "again", None, loads[Op.load].next)

(* The first operation of a chain that is not empty.                       *)
LEMMA FirstOp ==
    ASSUME Types, chain # <<>>
    PROVE  Op = chain[1] /\ 1 \in OpNos
  BY OpDropped, Numbers DEF Types, Op, OpNos, Dropped

(* A store that ends, ends its own load.                                   *)
LEMMA StoreEndsItsLoad ==
    ASSUME TokenInv, NEW ok \in BOOLEAN, NEW wrote \in BOOLEAN, WriteEnds(ok, wrote), Op.kind = "store"
    PROVE  StoreLoadEnds(ok)
  <1>1. Types /\ Bounded /\ StoresAreOfLoads
    BY DEF TokenInv
  <1>2. Op = chain[1] /\ 1 \in OpNos
    BY <1>1, FirstOp DEF WriteEnds
  <1>3. /\ Op.load \in Nat /\ Op.load <= Len(loads) /\ Op.load >= 1 /\ Op.token \in Nat
        /\ loads[Op.load].step = "store" /\ loads[Op.load].version = Op.version
    BY <1>1, <1>2, OpFields DEF Bounded, StoresAreOfLoads
  <1>4. Op.load \in LoadNos /\ None \in Nat
    BY <1>1, <1>3, Numbers DEF LoadNos, None
  <1>5. LoadEnds(Op.load, IF ok THEN "done" ELSE "failed", IF ok THEN Op.token ELSE None)
    BY DEF WriteEnds, WaiterContinues
  <1>6. CASE ok
    <2>1. LoadEnds(Op.load, "done", Op.token)
      BY <1>5, <1>6
    <2> QED  BY <1>3, <1>4, <1>6, <2>1, LoadEndsMoves DEF StoreLoadEnds
  <1>7. CASE ~ok
    <2>1. LoadEnds(Op.load, "failed", None)
      BY <1>5, <1>7
    <2> QED  BY <1>3, <1>4, <1>7, <2>1, LoadEndsMoves DEF StoreLoadEnds
  <1> QED  BY <1>6, <1>7

(* What every end of a write leaves of the loads and of the chain.         *)
LoadEnded(ok, k) ==
    /\ Op.kind = "store" /\ k = Op.load
    /\ loads'[k].step \in {"done", "failed", "again"}
    /\ loads'[k].step = "done" => Op.version = version /\ loads'[k].token = Op.token
    /\ loads'[k].step # "done" => loads'[k].token = None
    /\ loads'[k].version = loads[k].version /\ loads'[k].next = loads[k].next

(* Only the load of the store moves, and it is released.                   *)
LEMMA WriteEndsLoads ==
    ASSUME TokenInv, NEW ok \in BOOLEAN, NEW wrote \in BOOLEAN, WriteEnds(ok, wrote)
    PROVE  /\ loads' \in Seq(LoadRecords) /\ Len(loads') = Len(loads) /\ LoadNos' = LoadNos
           /\ \A k \in LoadNos : loads'[k] = loads[k] \/ LoadEnded(ok, k)
           /\ Op.kind = "store" => LoadEnded(ok, Op.load)
           /\ inflight' = IF Op.kind = "store" /\ inflight = Op.load THEN 0 ELSE inflight
  <1>1. Types
    BY DEF TokenInv
  <1>2. CASE Op.kind # "store"
    <2>1. UNCHANGED <<loads, inflight>>
      BY <1>2 DEF WriteEnds, WaiterContinues
    <2> QED  BY <1>1, <1>2, <2>1 DEF Types, LoadNos
  <1>3. CASE Op.kind = "store"
    <2>1. StoreLoadEnds(ok)
      BY <1>3, StoreEndsItsLoad
    <2>2. \E s \in {"done", "failed", "again"}, t \in {Op.token, None} :
              /\ LoadChanged(loads, loads', Op.load, s, t, loads[Op.load].next)
              /\ s = "done" => Op.version = version /\ t = Op.token
              /\ s # "done" => t = None
      BY <2>1 DEF StoreLoadEnds
    <2>3. PICK s \in {"done", "failed", "again"}, t \in {Op.token, None} :
              /\ LoadChanged(loads, loads', Op.load, s, t, loads[Op.load].next)
              /\ s = "done" => Op.version = version /\ t = Op.token
              /\ s # "done" => t = None
      BY <2>2
    <2>4. /\ loads' \in Seq(LoadRecords) /\ Len(loads') = Len(loads)
          /\ loads'[Op.load] = [step |-> s, version |-> loads[Op.load].version, token |-> t,
                                next |-> loads[Op.load].next]
          /\ \A k \in 1..Len(loads) : k # Op.load => loads'[k] = loads[k]
      BY <2>3 DEF LoadChanged
    <2>5. LoadEnded(ok, Op.load)
      BY <1>3, <2>3, <2>4 DEF LoadEnded
    <2>6. inflight' = IF inflight = Op.load THEN 0 ELSE inflight
      BY <2>1 DEF StoreLoadEnds, Released
    <2> QED  BY <1>3, <2>4, <2>5, <2>6 DEF LoadNos
  <1> QED  BY <1>2, <1>3

(* The operations behind the first one move up, and none of them runs.     *)
LEMMA WriteEndsChain ==
    ASSUME TokenInv, NEW ok \in BOOLEAN, NEW wrote \in BOOLEAN, WriteEnds(ok, wrote)
    PROVE  /\ chain' \in Seq(OpRecords)
           /\ \A p \in OpNos' : /\ chain'[p] = chain[p + 1] /\ p + 1 \in OpNos
                                /\ p \in Nat /\ 1 < p + 1 /\ ~chain'[p].started
  <1>1. Types /\ OnlyHeadStarts
    BY DEF TokenInv
  <1>2. Dropped(chain, chain')
    BY <1>1, OpDropped DEF Types, WriteEnds
  <1>3. \A p \in OpNos' : chain'[p] = chain[p + 1] /\ p + 1 \in OpNos /\ p \in Nat /\ 1 < p + 1
    BY <1>1, <1>2, Numbers DEF Dropped, OpNos
  <1> QED  BY <1>1, <1>2, <1>3 DEF Dropped, OnlyHeadStarts

(* A write that reached the storage leaves no load of this version at work *)
(* and no other store of this version in the chain.                        *)
LEMMA StartedWriteIsAlone ==
    ASSUME TokenInv, NEW ok \in BOOLEAN, NEW wrote \in BOOLEAN, WriteEnds(ok, wrote), Op.started
    PROVE  /\ \A k \in LoadNos : loads'[k].step \in Working => loads'[k].version # version
           /\ \A p \in OpNos' : chain'[p].kind = "store" => chain'[p].version # version
           /\ Op.kind = "store" /\ Op.version = version => inflight = Op.load /\ inflight' = 0
           /\ Op.kind # "store" \/ Op.version # version => cached = None
  <1>1. Types /\ Bounded /\ InflightWorks /\ ChangesComeFirst /\ StoresAreOfLoads /\ OnlyHeadStarts
    BY DEF TokenInv
  <1>2. Op = chain[1] /\ 1 \in OpNos
    BY <1>1, FirstOp DEF WriteEnds
  <1>3. ASSUME NEW q \in OpNos, chain[q].kind # "store"
        PROVE  cached = None /\ \A k \in LoadNos : loads[k].version # version
    <2>1. /\ chain[q].version <= version /\ chain[q].version \in Nat /\ version \in Nat
          /\ cached = None /\ \A k \in LoadNos : loads[k].version < chain[q].version
      BY <1>1, <1>3, OpFields, Numbers DEF Bounded, ChangesComeFirst
    <2> QED  BY <1>1, <2>1, LoadFields
  <1>4. \A k \in LoadNos : loads'[k].version = loads[k].version
                          /\ (loads'[k].step \in Working => loads'[k] = loads[k])
    BY WriteEndsLoads DEF LoadEnded, Working
  <1>5. CASE Op.kind = "store" /\ Op.version = version
    <2>1. /\ Op.load \in LoadNos /\ loads[Op.load].step = "store" /\ loads[Op.load].version = version
      BY <1>5, StoreEndsItsLoad DEF StoreLoadEnds
    <2>2. \A k \in LoadNos : loads[k].step \in Working /\ loads[k].version = version => k = inflight
      BY <1>1 DEF InflightWorks
    <2>3. Op.load = inflight /\ inflight' = 0
      BY <1>5, <2>1, <2>2, WriteEndsLoads DEF Working
    <2>4. loads'[Op.load].step \notin Working
      BY <1>5, WriteEndsLoads DEF LoadEnded, Working
    <2>5. \A k \in LoadNos : loads'[k].step \in Working => loads'[k].version # version
      BY <1>4, <2>2, <2>3, <2>4
    <2>6. ASSUME NEW p \in OpNos', chain'[p].kind = "store" PROVE chain'[p].version # version
      <3>1. chain'[p] = chain[p + 1] /\ p + 1 \in OpNos /\ p + 1 # 1
        BY <2>6, WriteEndsChain
      <3>2. /\ chain[p + 1].load # Op.load /\ chain[p + 1].load \in LoadNos
            /\ loads[chain[p + 1].load].step = "store"
            /\ loads[chain[p + 1].load].version = chain[p + 1].version
        BY SMTT(30), <1>1, <1>2, <1>5, <2>6, <3>1, OpFields, Numbers DEF StoresAreOfLoads, Bounded, LoadNos
      <3> QED  BY <2>2, <2>3, <3>1, <3>2 DEF Working
    <2> QED  BY <1>5, <2>3, <2>5, <2>6
  <1>6. CASE Op.kind # "store" \/ Op.version # version
    <2>1. \E q \in OpNos : chain[q].kind # "store"
      BY <1>1, <1>2, <1>6 DEF OnlyHeadStarts
    <2>2. cached = None /\ \A k \in LoadNos : loads[k].version # version
      BY <1>3, <2>1
    <2>3. ASSUME NEW p \in OpNos', chain'[p].kind = "store" PROVE chain'[p].version # version
      <3>1. chain'[p] = chain[p + 1] /\ p + 1 \in OpNos
        BY <2>3, WriteEndsChain
      <3>2. chain[p + 1].load \in LoadNos /\ loads[chain[p + 1].load].version = chain[p + 1].version
        BY <1>1, <2>3, <3>1, OpFields, Numbers DEF StoresAreOfLoads, Bounded, LoadNos
      <3> QED  BY <2>2, <3>1, <3>2
    <2> QED  BY <1>4, <1>6, <2>2, <2>3
  <1> QED  BY <1>5, <1>6

(* The end of a write, however it ends, keeps the invariant.               *)
LEMMA WriteEndsKeep ==
    ASSUME TokenInv, NEW ok \in BOOLEAN, NEW wrote \in BOOLEAN, WriteEnds(ok, wrote)
    PROVE  TokenInv'
  <1>1. /\ Types /\ Bounded
        /\ InflightWorks /\ ChangesComeFirst /\ StoresAreOfLoads /\ OnlyHeadStarts
        /\ FoundIsRow /\ WritesAreInOrder /\ ClearsAreAwaited /\ RetriesWaitForNew
        /\ CacheAgreesWithRow
    BY DEF TokenInv
  <1>2. /\ UNCHANGED <<version, issued, unprimed, revoked, aged>>
        /\ \/ Op.started /\ (ok => wrote)
           \/ ~Op.started /\ Op.kind # "clear" /\ Op.version # version /\ ok /\ ~wrote
        /\ IF wrote THEN row' = Op.token /\ rowVersion' = Op.version
                   ELSE row' = row /\ rowVersion' = rowVersion
        /\ cached' = IF ok /\ wrote /\ Op.kind # "clear" /\ Op.version = version
                     THEN Op.token ELSE cached
    BY DEF WriteEnds, RowWritten, CachesStored
  <1>3. Op = chain[1] /\ 1 \in OpNos
    BY <1>1, FirstOp DEF WriteEnds
  <1>4. /\ Op.token \in Nat /\ Op.token <= issued /\ Op.version \in Nat /\ Op.version <= version
        /\ Op.request \subseteq Requests /\ Op.kind \in {"store", "prime", "clear"}
        /\ Op.kind = "clear" => Op.token = None
    BY <1>1, <1>3, OpFields DEF Bounded, WritesAreInOrder
  <1>5. /\ issued \in Nat /\ version \in Nat /\ row \in Nat /\ rowVersion \in Nat /\ cached \in Nat
        /\ row <= issued /\ rowVersion <= version /\ cached <= issued /\ inflight \in Nat
        /\ Len(loads) \in Nat
    BY <1>1, Numbers DEF Bounded
  <1>6. /\ loads' \in Seq(LoadRecords) /\ Len(loads') = Len(loads) /\ LoadNos' = LoadNos
        /\ \A k \in LoadNos : loads'[k] = loads[k] \/ LoadEnded(ok, k)
        /\ inflight' = IF Op.kind = "store" /\ inflight = Op.load THEN 0 ELSE inflight
    BY WriteEndsLoads
  <1>7. Op.kind = "store" => LoadEnded(ok, Op.load)
    BY WriteEndsLoads
  <1>8. /\ chain' \in Seq(OpRecords)
        /\ \A p \in OpNos' : /\ chain'[p] = chain[p + 1] /\ p + 1 \in OpNos
                             /\ p \in Nat /\ 1 < p + 1 /\ ~chain'[p].started
    BY WriteEndsChain
  <1>9. Op.started =>
           /\ \A k \in LoadNos : loads'[k].step \in Working => loads'[k].version # version
           /\ \A p \in OpNos' : chain'[p].kind = "store" => chain'[p].version # version
           /\ Op.kind = "store" /\ Op.version = version => inflight = Op.load /\ inflight' = 0
           /\ Op.kind # "store" \/ Op.version # version => cached = None
    BY StartedWriteIsAlone
  <1>10. \A k \in LoadNos : /\ loads'[k].version = loads[k].version
                            /\ loads'[k].step \in Working => loads'[k] = loads[k]
    BY <1>6 DEF LoadEnded, Working
  <1>11. requests' = [r \in Requests |->
             IF r \notin Op.request THEN requests[r]
             ELSE [requests[r] EXCEPT !.step = IF ok /\ r \notin Streams THEN "get" ELSE "failed",
                                      !.token = None]]
    BY DEF WriteEnds, WaiterContinues
  <1>12. ASSUME NEW r \in Requests
         PROVE  /\ requests'[r] \in RequestRecords
                /\ r \notin Op.request => requests'[r] = requests[r]
                /\ r \in Op.request => /\ requests[r].step = "clear" /\ Op.kind = "clear"
                                       /\ requests'[r].step \in {"get", "failed"}
                                       /\ requests'[r].step = "get" => ok
                                       /\ requests'[r].token = None
                                       /\ requests'[r].load = requests[r].load
                                       /\ requests'[r].seen = requests[r].seen
    <2>1. requests[r] \in RequestRecords
      BY <1>1, Elements
    <2>2. CASE r \notin Op.request
      BY <1>11, <2>1, <2>2
    <2>3. CASE r \in Op.request
      <3>1. requests[r].step = "clear" /\ Op.kind = "clear"
        BY <1>1, <1>3, <2>3 DEF ClearsAreAwaited
      <3> DEFINE s == IF ok /\ r \notin Streams THEN "get" ELSE "failed"
      <3>2. requests'[r] = [requests[r] EXCEPT !.step = s, !.token = None]
        BY <1>11, <2>3
      <3>3. s \in {"get", "failed"} /\ (s = "get" => ok)
        OBVIOUS
      <3> HIDE DEF s
      <3>4. LET y == [requests[r] EXCEPT !.step = s, !.token = None] IN
            /\ y \in RequestRecords /\ y.step = s /\ y.token = None
            /\ y.load = requests[r].load /\ y.seen = requests[r].seen
        <4> DEFINE x == requests[r]
        <4>1. x \in RequestRecords
          BY <2>1
        <4> HIDE DEF x
        <4>2. LET y == [x EXCEPT !.step = s, !.token = None] IN
              /\ y \in RequestRecords /\ y.step = s /\ y.token = None
              /\ y.load = x.load /\ y.seen = x.seen
          BY <3>3, <4>1, RequestContinues
        <4> QED  BY <4>2 DEF x
      <3> QED  BY <2>3, <3>1, <3>2, <3>3, <3>4
    <2> QED  BY <2>2, <2>3
  <1>13. requests' \in [Requests -> RequestRecords]
    BY <1>11, <1>12
  <1>14. Types'
    BY <1>1, <1>2, <1>4, <1>5, <1>6, <1>8, <1>13, Numbers DEF Types
  <1>15. Bounded'
    <2>1. ASSUME NEW k \in LoadNos
          PROVE  /\ loads'[k].version <= version /\ loads'[k].token <= issued
                 /\ loads'[k].next <= Len(loads)
                 /\ loads'[k].step = "follow" => loads'[k].next >= 1
      <3>1. /\ loads[k].version <= version /\ loads[k].token <= issued
            /\ loads[k].next <= Len(loads)
            /\ loads[k].step = "follow" => loads[k].next >= 1
        BY <1>1 DEF Bounded
      <3>2. CASE loads'[k] = loads[k]
        BY <3>1, <3>2
      <3>3. CASE LoadEnded(ok, k)
        BY <1>4, <1>5, <3>1, <3>3 DEF LoadEnded, None
      <3> QED  BY <1>6, <3>2, <3>3
    <2>2. ASSUME NEW p \in OpNos'
          PROVE  chain'[p].version <= version /\ chain'[p].token <= issued /\ chain'[p].load <= Len(loads)
      BY <1>1, <1>8 DEF Bounded
    <2>3. ASSUME NEW r \in Requests
          PROVE  /\ requests'[r].load <= Len(loads) /\ requests'[r].token <= issued
                 /\ requests'[r].seen \subseteq Known
                 /\ requests'[r].step = "idle" => requests'[r].seen = {}
                 /\ requests'[r].step = "wait" => requests'[r].load >= 1
                 /\ requests'[r].step # "wait" => requests'[r].load = 0
      <3>1. /\ requests[r].load <= Len(loads) /\ requests[r].token <= issued
            /\ requests[r].seen \subseteq Known
            /\ requests[r].step = "idle" => requests[r].seen = {}
            /\ requests[r].step = "wait" => requests[r].load >= 1
            /\ requests[r].step # "wait" => requests[r].load = 0
        BY <1>1 DEF Bounded
      <3>2. CASE r \in Op.request
        <4>1. /\ requests[r].step = "clear" /\ requests'[r].step \in {"get", "failed"}
              /\ requests'[r].token = 0 /\ requests'[r].load = requests[r].load
              /\ requests'[r].seen = requests[r].seen
          BY <1>12, <3>2 DEF None
        <4>2. requests[r].load = 0
          BY <3>1, <4>1
        <4> QED  BY <1>5, <3>1, <4>1, <4>2
      <3>3. CASE r \notin Op.request
        BY <1>12, <3>1, <3>3
      <3> QED  BY <3>2, <3>3
    <2>4. /\ cached' <= issued /\ row' <= issued /\ rowVersion' <= version
          /\ unprimed \subseteq 1..issued /\ revoked <= issued /\ aged <= issued /\ Known' = Known
      BY <1>1, <1>2, <1>4, <1>5 DEF Bounded, Known, Tokens
    <2> QED  BY <1>2, <1>6, <2>1, <2>2, <2>3, <2>4 DEF Bounded
  <1>16. InflightWorks'
    <2>1. ASSUME inflight' # 0
          PROVE  /\ inflight' = inflight /\ loads'[inflight].version = version
                 /\ loads'[inflight].step \in Working /\ ~Usable(cached)'
      <3>1. inflight' = inflight /\ inflight \in LoadNos /\ (Op.kind = "store" => inflight # Op.load)
        BY <1>1, <1>5, <1>6, <2>1 DEF InflightWorks, LoadNos
      <3>2. /\ loads[inflight].version = version /\ loads[inflight].step \in Working
            /\ ~Usable(cached) /\ loads'[inflight] = loads[inflight]
        BY <1>1, <1>6, <2>1, <3>1 DEF InflightWorks, LoadEnded
      <3>3. cached' = cached
        BY <1>2, <1>9, <3>1, <3>2
      <3> QED  BY <1>2, <3>1, <3>2, <3>3 DEF Usable
    <2>2. ASSUME NEW k \in LoadNos, loads'[k].step \in Working, loads'[k].version = version
          PROVE  k = inflight'
      <3>1. loads'[k] = loads[k] /\ k = inflight
        BY <1>1, <1>10, <2>2 DEF InflightWorks
      <3>2. Op.kind = "store" => k # Op.load
        BY <1>7, <2>2 DEF LoadEnded, Working
      <3> QED  BY <1>6, <3>1, <3>2
    <2>3. inflight' \in {0, Len(loads)}
      BY <1>1, <1>6 DEF InflightWorks
    <2> QED  BY <1>2, <1>6, <2>1, <2>2, <2>3 DEF InflightWorks
  <1>17. ChangesComeFirst'
    <2>1. ASSUME NEW p \in OpNos', chain'[p].kind # "store"
          PROVE  cached' = None /\ \A k \in LoadNos : loads'[k].version < chain'[p].version
      <3>1. cached = None /\ \A k \in LoadNos : loads[k].version < chain[p + 1].version
        BY <1>1, <1>8, <2>1 DEF ChangesComeFirst
      <3>2. Op.version < chain[p + 1].version /\ chain[p + 1].version <= version
        BY <1>1, <1>3, <1>8, <2>1 DEF ChangesComeFirst, Bounded
      <3>3. chain[p + 1].version \in Nat
        BY <1>1, <1>8, OpFields
      <3>4. Op.version # version
        BY <1>4, <1>5, <3>2, <3>3
      <3> QED  BY <1>2, <1>8, <1>10, <3>1, <3>4
    <2>2. ASSUME NEW p \in OpNos', NEW q \in OpNos', p < q, chain'[q].kind # "store"
          PROVE  chain'[p].version < chain'[q].version
      <3>1. p + 1 < q + 1 /\ p + 1 \in OpNos /\ q + 1 \in OpNos
        BY <1>8, <2>2
      <3> QED  BY <1>1, <1>8, <2>2, <3>1 DEF ChangesComeFirst
    <2> QED  BY <1>6, <2>1, <2>2 DEF ChangesComeFirst
  <1>18. StoresAreOfLoads'
    <2>1. ASSUME NEW p \in OpNos', chain'[p].kind = "store"
          PROVE  /\ chain'[p].load >= 1 /\ loads'[chain'[p].load].step = "store"
                 /\ loads'[chain'[p].load].version = chain'[p].version
      <3> DEFINE k == chain[p + 1].load
      <3>1. /\ chain'[p] = chain[p + 1] /\ p + 1 \in OpNos /\ p + 1 # 1
        BY <1>8
      <3>2. k >= 1 /\ k \in LoadNos /\ loads[k].step = "store" /\ loads[k].version = chain[p + 1].version
        BY <1>1, <2>1, <3>1, OpFields, Numbers DEF StoresAreOfLoads, Bounded, LoadNos
      <3>3. Op.kind = "store" => k # Op.load
        BY <1>1, <1>3, <2>1, <3>1 DEF StoresAreOfLoads
      <3>4. loads'[k] = loads[k]
        BY <1>6, <3>2, <3>3 DEF LoadEnded
      <3> QED  BY <3>1, <3>2, <3>4
    <2>2. ASSUME NEW p \in OpNos', NEW q \in OpNos', chain'[p].kind = "store",
                 chain'[q].kind = "store", chain'[p].load = chain'[q].load
          PROVE  p = q
      <3>1. p + 1 = q + 1
        BY <1>1, <1>8, <2>2 DEF StoresAreOfLoads
      <3> QED  BY <1>8, <3>1
    <2> QED  BY <2>1, <2>2 DEF StoresAreOfLoads
  <1>19. OnlyHeadStarts'
    BY <1>8 DEF OnlyHeadStarts
  <1>20. FoundIsRow'
    <2> SUFFICES ASSUME NEW k \in LoadNos, loads'[k].step = "found", loads'[k].version = version
                 PROVE  loads'[k].token = row'
      BY <1>2, <1>6 DEF FoundIsRow
    <2>1. loads'[k] = loads[k] /\ ~Op.started
      BY <1>9, <1>10 DEF Working
    <2> QED  BY <1>1, <1>2, <2>1 DEF FoundIsRow
  <1>21. WritesAreInOrder'
    <2> SUFFICES ASSUME NEW p \in OpNos'
                 PROVE  /\ chain'[p].kind = "clear" => chain'[p].token = None
                        /\ chain'[p].kind # "store" => chain'[p].version >= rowVersion'
      BY <1>8 DEF WritesAreInOrder
    <2>1. chain'[p] = chain[p + 1] /\ p + 1 \in OpNos /\ 1 < p + 1
      BY <1>8
    <2>2. /\ chain[p + 1].kind = "clear" => chain[p + 1].token = None
          /\ chain[p + 1].kind # "store" => chain[p + 1].version >= rowVersion
      BY <1>1, <2>1 DEF WritesAreInOrder
    <2>3. chain[p + 1].kind # "store" => Op.version < chain[p + 1].version
      BY <1>1, <1>3, <2>1 DEF ChangesComeFirst
    <2>4. chain[p + 1].version \in Nat
      BY <1>1, <2>1, OpFields
    <2> QED  BY <1>2, <1>4, <2>1, <2>2, <2>3, <2>4
  <1>22. ClearsAreAwaited'
    <2>1. ASSUME NEW p \in OpNos', NEW r \in chain'[p].request
          PROVE  /\ p + 1 \in OpNos /\ chain'[p] = chain[p + 1] /\ chain[p + 1].kind = "clear"
                 /\ requests'[r] = requests[r] /\ requests[r].step = "clear"
      <3>1. chain'[p] = chain[p + 1] /\ p + 1 \in OpNos /\ p + 1 # 1 /\ r \in Requests
        BY <1>1, <1>8, OpFields
      <3>2. r \notin Op.request
        BY <1>1, <1>3, <2>1, <3>1 DEF ClearsAreAwaited
      <3> QED  BY <1>1, <1>12, <2>1, <3>1, <3>2 DEF ClearsAreAwaited
    <2>2. ASSUME NEW p \in OpNos', NEW q \in OpNos', NEW r \in chain'[p].request, r \in chain'[q].request
          PROVE  p = q
      <3>1. p + 1 = q + 1
        BY <1>1, <1>8, <2>2 DEF ClearsAreAwaited
      <3> QED  BY <1>8, <3>1
    <2>3. ASSUME NEW p \in OpNos', NEW q \in OpNos', NEW r \in chain'[p].request,
                 p < q, chain'[q].kind = "prime"
          PROVE  chain'[q].token \notin requests'[r].seen
      <3>1. p + 1 < q + 1 /\ p + 1 \in OpNos /\ q + 1 \in OpNos /\ requests'[r] = requests[r]
        BY <1>8, <2>1, <2>3
      <3> QED  BY <1>1, <1>8, <2>3, <3>1 DEF ClearsAreAwaited
    <2> QED  BY <2>1, <2>2, <2>3 DEF ClearsAreAwaited
  <1>23. RetriesWaitForNew'
    <2> SUFFICES ASSUME NEW q \in Requests PROVE RetriesWaitForNew!(q)'
      BY DEF RetriesWaitForNew
    <2>1. CASE q \in Op.request
      <3>1. /\ requests[q].step = "clear" /\ Op.kind = "clear" /\ requests'[q].seen = requests[q].seen
            /\ requests'[q].step \in {"get", "failed"}
            /\ requests'[q].step = "get" => ok
        <4> USE <2>1
        <4>1. requests[q].step = "clear" /\ Op.kind = "clear"
          BY <1>12
        <4>2. requests'[q].seen = requests[q].seen
          BY <1>12
        <4>3. requests'[q].step \in {"get", "failed"}
          BY <1>12
        <4>4. requests'[q].step = "get" => ok
          BY <1>12
        <4> QED  BY <4>1, <4>2, <4>3, <4>4
      <3>2. Op.started /\ cached = None /\ cached' = None
        BY <1>2, <1>9, <3>1
      <3>3. ok => row' = None
        BY <1>2, <1>4, <3>1, <3>2
      <3>4. ASSUME NEW p \in OpNos' PROVE OpFresh(chain[p], requests[q].seen)'
        <4>1. chain'[p] = chain[p + 1] /\ p + 1 \in OpNos /\ 1 < p + 1 /\ ~chain'[p].started
          BY <1>8
        <4>2. /\ chain[p + 1].kind \in {"store", "prime", "clear"} /\ chain[p + 1].version \in Nat
              /\ chain[p + 1].version <= version
          BY <1>1, <4>1, OpFields DEF Bounded
        <4>3. chain[p + 1].kind = "prime" => chain[p + 1].token \notin requests[q].seen
          BY <1>1, <1>3, <2>1, <4>1 DEF ClearsAreAwaited
        <4>4. chain[p + 1].kind = "store" => chain[p + 1].version < version
          BY <1>5, <1>9, <3>2, <4>1, <4>2
        <4> QED  BY <1>2, <3>1, <4>1, <4>2, <4>3, <4>4 DEF OpFresh
      <3>5. ASSUME NEW k \in LoadNos, Expects(q, k)', requests'[q].step = "get" PROVE FALSE
        <4>1. k = inflight' /\ k # 0
          BY <1>1, <3>5, LoadFields DEF Expects
        <4>2. loads[k].step \in Working /\ loads[k].version = version /\ k = inflight
          BY <1>1, <1>6, <4>1 DEF InflightWorks
        <4>3. loads'[k] = loads[k]
          BY <1>6, <3>1 DEF LoadEnded
        <4> QED  BY <1>9, <3>2, <4>2, <4>3
      <3> QED  BY <1>6, <3>1, <3>2, <3>3, <3>4, <3>5 DEF Repeats, NewTo
    <2>2. CASE q \notin Op.request
      <3>1. requests'[q] = requests[q]
        BY <1>12, <2>2
      <3>2. ASSUME Repeats(q)
            PROVE  /\ NewTo(row, requests[q].seen) /\ NewTo(cached, requests[q].seen)
                   /\ OpFresh(Op, requests[q].seen)
                   /\ \A p \in OpNos : OpFresh(chain[p], requests[q].seen)
                   /\ \A k \in LoadNos : Expects(q, k) => LoadFresh(k, q)
        BY <1>1, <1>3, <3>2 DEF RetriesWaitForNew
      <3>3. ASSUME Repeats(q)
            PROVE  NewTo(row, requests[q].seen)' /\ NewTo(cached, requests[q].seen)'
        BY <1>2, <1>4, <3>1, <3>2, <3>3 DEF NewTo, OpFresh
      <3>4. ASSUME Repeats(q), NEW p \in OpNos' PROVE OpFresh(chain[p], requests[q].seen)'
        BY <1>2, <1>8, <3>1, <3>2, <3>4 DEF OpFresh
      <3>5. ASSUME Repeats(q), NEW k \in LoadNos, Expects(q, k)' PROVE LoadFresh(k, q)'
        <4>1. Expects(q, k)
          <5>1. k # 0
            BY <1>1, LoadFields
          <5> QED  BY <1>6, <3>1, <3>5, <5>1 DEF Expects
        <4>2. LoadFresh(k, q)
          BY <3>2, <3>5, <4>1
        <4>3. CASE loads'[k] = loads[k]
          BY <3>1, <4>2, <4>3 DEF LoadFresh, NewTo
        <4>4. CASE LoadEnded(ok, k)
          <5>1. loads'[k].step = "done" => Op.token \notin requests[q].seen
            BY <1>4, <1>5, <3>2, <3>5, <4>4 DEF LoadEnded, OpFresh
          <5> QED  BY <3>1, <4>4, <5>1 DEF LoadFresh, LoadEnded
        <4> QED  BY <1>6, <4>3, <4>4
      <3>6. Repeats(q)' <=> Repeats(q)
        BY <3>1 DEF Repeats
      <3> QED  BY <1>1, <1>6, <3>1, <3>3, <3>4, <3>5, <3>6 DEF RetriesWaitForNew
    <2> QED  BY <2>1, <2>2
  <1>24. CacheAgreesWithRow'
    <2>1. CASE cached' = cached /\ row' = row
      BY <1>1, <1>2, <2>1 DEF CacheAgreesWithRow, Usable
    <2>2. CASE cached' # cached
      BY <1>2, <2>2 DEF CacheAgreesWithRow
    <2>3. CASE cached' = cached /\ row' # row
      <3>1. Op.started /\ wrote
        BY <1>2, <2>3
      <3>2. CASE Op.kind # "store" \/ Op.version # version
        BY <1>9, <2>3, <3>1, <3>2 DEF CacheAgreesWithRow, Usable
      <3>3. CASE Op.kind = "store" /\ Op.version = version
        <4>1. inflight = Op.load /\ inflight # 0
          <5>1. Op.load \in LoadNos
            BY <3>3, StoreEndsItsLoad DEF StoreLoadEnds
          <5> QED  BY <1>1, <1>9, <3>1, <3>3, <5>1, LoadFields
        <4>2. ~Usable(cached)
          BY <1>1, <4>1 DEF InflightWorks
        <4> QED  BY <1>2, <2>3, <4>2 DEF CacheAgreesWithRow, Usable
      <3> QED  BY <3>2, <3>3
    <2> QED  BY <2>1, <2>2, <2>3
  <1> QED  BY <1>14, <1>15, <1>16, <1>17, <1>18, <1>19, <1>20, <1>21, <1>22, <1>23, <1>24 DEF TokenInv

(* A skipped, a finished and a failed write are such ends.                 *)
LEMMA WritesKeep ==
    ASSUME TokenInv, WriteSkipped \/ WriteDone \/ WriteFails
    PROVE  TokenInv'
  <1>1. Types /\ chain # <<>>
    BY DEF TokenInv, WriteSkipped, WriteDone, WriteFails
  <1>2. CASE WriteSkipped
    <2>1. WriteEnds(TRUE, FALSE)
      BY <1>2 DEF WriteSkipped, WriteEnds, Skipped
    <2> QED  BY <2>1, WriteEndsKeep
  <1>3. CASE WriteDone
    <2>1. WriteEnds(TRUE, TRUE)
      BY <1>3 DEF WriteDone, WriteEnds
    <2> QED  BY <2>1, WriteEndsKeep
  <1>4. CASE WriteFails
    <2>1. WriteEnds(FALSE, TRUE) \/ WriteEnds(FALSE, FALSE)
      BY <1>4 DEF WriteFails, WriteEnds
    <2> QED  BY <2>1, WriteEndsKeep
  <1> QED  BY <1>2, <1>3, <1>4

(* Every step keeps the invariant.                                         *)
LEMMA TokenInvariance == TokenSpec => []TokenInv
  <1>1. TokenInv /\ [TokenNext]_tokenVars => TokenInv'
    <2> SUFFICES ASSUME TokenInv, [TokenNext]_tokenVars PROVE TokenInv'
      OBVIOUS
    <2>1. ASSUME NEW r \in Requests, StartRequest(r) \/ RequestStep(r) PROVE TokenInv'
      BY <2>1, StartRequestKeeps, RequestGetsKeeps, RequestAnsweredKeeps, RequestEndsKeeps,
         UseRefusedKeeps DEF RequestStep
    <2>2. ASSUME NEW l \in Loads, LoadStep(l) PROVE TokenInv'
      <3>1. l \in LoadNos
        BY Elements DEF TokenInv, Types, Loads, LoadNos
      <3> QED  BY <2>2, <3>1, LoadReadsKeeps, LoadFoundKeeps, LoadFoundNothingKeeps, LoadMintsKeeps,
                  LoadStoresKeeps, LoadFailsKeeps, LoadGetsAgainKeeps, LoadFollowsKeeps DEF LoadStep
    <2>3. CASE WriteStep
      BY <2>3, WriteStartsKeeps, WritesKeep DEF WriteStep
    <2>4. CASE SignInVerified \/ (\E t \in unprimed : SignInPrimes(t))
      BY <2>4, SignInVerifiedKeeps, SignInPrimesKeeps
    <2>5. CASE Unlink \/ Revoke \/ Age \/ Restart
      BY <2>5, UnlinkKeeps, TimePassesKeeps, RestartKeeps
    <2>6. CASE UNCHANGED tokenVars
      BY <2>6 DEF tokenVars, TokenInv, Types, Bounded, InflightWorks, ChangesComeFirst,
                  StoresAreOfLoads, OnlyHeadStarts, FoundIsRow, WritesAreInOrder, ClearsAreAwaited,
                  RetriesWaitForNew, Repeats, Expects, LoadFresh, OpFresh, NewTo,
                  CacheAgreesWithRow, Usable, LoadNos, OpNos, Known, Tokens
    <2> QED  BY <2>1, <2>2, <2>3, <2>4, <2>5, <2>6 DEF TokenNext
  <1> QED  BY <1>1, TokenStarts, PTL DEF TokenSpec

(* A sequence whose elements are in a set is a sequence over that set.     *)
LEMMA SeqOver ==
    ASSUME NEW S, NEW T, NEW s \in Seq(S), \A i \in 1..Len(s) : s[i] \in T
    PROVE  s \in Seq(T)
  <1>1. Len(s) \in Nat /\ s = [i \in 1..Len(s) |-> s[i]]
    BY LenProperties
  <1>2. [i \in 1..Len(s) |-> s[i]] \in [1..Len(s) -> T]
    OBVIOUS
  <1>3. s \in [1..Len(s) -> T]
    BY <1>1, <1>2
  <1>4. [1..Len(s) -> T] \subseteq Seq(T)
    BY <1>1, SeqDef
  <1> QED  BY <1>3, <1>4

(* The parts of the token state keep their types.                          *)
THEOREM TokenTypes == TokenSpec => []TokenTypeOK
  <1>1. TokenInv => TokenTypeOK
    <2> SUFFICES ASSUME TokenInv PROVE TokenTypeOK
      OBVIOUS
    <2>1. Types /\ Bounded /\ inflight \in 0..Len(loads)
      BY Numbers DEF TokenInv, InflightWorks
    <2>2. /\ {issued, version} \subseteq Nat /\ {cached, row, revoked, aged} \subseteq Tokens
          /\ unprimed \subseteq 1..issued /\ rowVersion \in 0..version
      BY <2>1, Numbers DEF Bounded, Tokens
    <2>3. loads \in Seq([step : LoadSteps, version : 0..version, token : Tokens, next : LoadNumbers])
      <3>1. \A l \in LoadNos : loads[l] \in [step : LoadSteps, version : 0..version, token : Tokens,
                                             next : LoadNumbers]
        <4> SUFFICES ASSUME NEW l \in LoadNos
                     PROVE  loads[l] \in [step : LoadSteps, version : 0..version, token : Tokens,
                                          next : LoadNumbers]
          OBVIOUS
        <4>1. loads[l] \in LoadRecords
          BY <2>1, Elements
        <4>2. loads[l].version \in 0..version /\ loads[l].token \in Tokens /\ loads[l].next \in LoadNumbers
          BY SMTT(30), <2>1, Numbers, LoadFields DEF Bounded, Tokens, LoadNumbers
        <4>3. /\ loads[l] = [step |-> loads[l].step, version |-> loads[l].version,
                             token |-> loads[l].token, next |-> loads[l].next]
              /\ loads[l].step \in LoadSteps
          BY <4>1 DEF LoadRecords
        <4> QED  BY <4>2, <4>3
      <3> QED  BY <2>1, <3>1, SeqOver DEF Types, LoadNos
    <2>4. chain \in Seq([kind : {"store", "prime", "clear"}, token : Tokens,
                         version : 0..version, load : LoadNumbers,
                         request : SUBSET Requests, started : BOOLEAN])
      <3>1. \A p \in OpNos : chain[p] \in [kind : {"store", "prime", "clear"}, token : Tokens,
                                           version : 0..version, load : LoadNumbers,
                                           request : SUBSET Requests, started : BOOLEAN]
        <4> SUFFICES ASSUME NEW p \in OpNos
                     PROVE  chain[p] \in [kind : {"store", "prime", "clear"}, token : Tokens,
                                          version : 0..version, load : LoadNumbers,
                                          request : SUBSET Requests, started : BOOLEAN]
          OBVIOUS
        <4>1. chain[p] \in OpRecords
          BY <2>1, Elements
        <4>2. chain[p].version \in 0..version /\ chain[p].token \in Tokens /\ chain[p].load \in LoadNumbers
          BY <2>1, Numbers, OpFields DEF Bounded, Tokens, LoadNumbers
        <4>3. /\ chain[p] = [kind |-> chain[p].kind, token |-> chain[p].token,
                             version |-> chain[p].version, load |-> chain[p].load,
                             request |-> chain[p].request, started |-> chain[p].started]
              /\ chain[p].kind \in {"store", "prime", "clear"}
              /\ chain[p].request \in SUBSET Requests /\ chain[p].started \in BOOLEAN
          BY <4>1 DEF OpRecords
        <4> QED  BY <4>2, <4>3
      <3> QED  BY <2>1, <3>1, SeqOver DEF Types, OpNos
    <2>5. requests \in [Requests -> [step : RequestSteps, load : LoadNumbers,
                                     token : Tokens, seen : SUBSET Tokens]]
      <3>1. \A r \in Requests : requests[r] \in [step : RequestSteps, load : LoadNumbers,
                                                 token : Tokens, seen : SUBSET Tokens]
        <4> SUFFICES ASSUME NEW r \in Requests
                     PROVE  requests[r] \in [step : RequestSteps, load : LoadNumbers,
                                             token : Tokens, seen : SUBSET Tokens]
          OBVIOUS
        <4>1. requests[r] \in RequestRecords
          BY <2>1, Elements
        <4>2. requests[r].load \in LoadNumbers /\ requests[r].token \in Tokens
          BY <2>1, Numbers, RequestFields DEF Bounded, Tokens, LoadNumbers
        <4>3. requests[r].seen \in SUBSET Tokens
          BY <2>1 DEF Bounded, Known
        <4>4. /\ requests[r] = [step |-> requests[r].step, load |-> requests[r].load,
                                token |-> requests[r].token, seen |-> requests[r].seen]
              /\ requests[r].step \in RequestSteps
          BY <4>1 DEF RequestRecords
        <4> QED  BY <4>2, <4>3, <4>4
      <3> QED  BY <2>1, <3>1 DEF Types
    <2> QED  BY <2>1, <2>2, <2>3, <2>4, <2>5 DEF TokenTypeOK, LoadNumbers
  <1> QED  BY <1>1, TokenInvariance, PTL

(* A call that is repeated after a 401 carries none of the tokens that the *)
(* token source had at the 401.                                            *)
THEOREM RetriesAreFresh == TokenSpec => []RetryIsFresh
  <1>1. TokenInv => RetryIsFresh
    BY DEF TokenInv, RetriesWaitForNew, RetryIsFresh
  <1> QED  BY <1>1, TokenInvariance, PTL

(* A token the process still uses from memory is the one in the database.  *)
THEOREM CachedIsStored == TokenSpec => []CacheAgreesWithRow
  <1>1. TokenInv => CacheAgreesWithRow
    BY DEF TokenInv
  <1> QED  BY <1>1, TokenInvariance, PTL

(* No late write changes the row behind one of a later version.            *)
THEOREM RowsMoveForward == TokenSpec => RowMovesForward
  <1>1. TokenInv /\ [TokenNext]_tokenVars
            => [row' # row => chain # <<>> /\ Op.version >= rowVersion]_tokenVars
    <2> SUFFICES ASSUME TokenInv, TokenNext, row' # row
                 PROVE  chain # <<>> /\ Op.version >= rowVersion
      OBVIOUS
    <2>1. WriteDone \/ WriteFails \/ Restart
      BY ZenonT(60) DEF TokenNext, RequestStep, LoadStep, WriteStep, StartRequest, RequestGets, RequestAnswered,
             UseToken, UseRefused, UseRefusedAgain, LoadReads, LoadFound, LoadFoundNothing, LoadMints,
             LoadStores, LoadFails, LoadGetsAgain, LoadFollows, WriteStarts, WriteSkipped,
             SignInVerified, SignInPrimes, Unlink, Revoke, Age
    <2>2. chain # <<>> /\ Op.started
      BY <2>1 DEF WriteDone, WriteFails, Restart
    <2>3. Op = chain[1] /\ 1 \in OpNos
      BY <2>2, FirstOp DEF TokenInv
    <2> QED  BY <2>2, <2>3 DEF TokenInv, WritesAreInOrder
  <1> QED  BY <1>1, TokenInvariance, PTL DEF TokenSpec, RowMovesForward

-----------------------------------------------------------------------------
(***************************************************************************)
(* The queue of effects, for every set of workers, commits and paths,      *)
(* whatever fails and whatever other clients do: the jobs of an identity   *)
(* take effect in the order of their operations, an event follows the      *)
(* metadata it announces, and a job's metadata never undoes newer work.    *)
(*                                                                         *)
(* They rest on what an actor knows about its job while it holds the       *)
(* identity: nothing but its own steps changes the state of the identity's *)
(* jobs, none before its own is pending, and the rows it has locked, or    *)
(* found missing, stay as they are.                                        *)
(***************************************************************************)
(* The types of the state, without the bounds that EffectTypeOK adds.      *)
JobStates == {"pending", "applied", "completed", "retired"}

JobRecords ==
    [identity : EffectIdentities, from : Paths, to : Paths, source : Nat, destination : Nat,
     account : Nat, state : JobStates, superseded : BOOLEAN, backoff : BOOLEAN,
     attention : BOOLEAN, events : Nat, lost : Nat]

PayloadRecords ==
    [identity : EffectIdentities, from : Paths, to : Paths, source : Nat, destination : Nat,
     account : Nat]

ActorRecords == [step : WorkSteps \union CommitSteps, job : Nat]

EffectTypes ==
    /\ effects \in Seq(JobRecords)
    /\ metadata \in [EffectIdentities -> [Paths -> Nat]]
    /\ revision \in Nat
    /\ account \in [EffectIdentities -> Nat]
    /\ holder \in [EffectIdentities -> Actors \union {Nobody}]
    /\ rowLocks \in [EffectIdentities -> SUBSET Paths]
    /\ actor \in [Actors -> ActorRecords]
    /\ payload \in [Commits -> PayloadRecords \union {NoPayload}]

(* A row that was captured is not newer than the last revision.            *)
Captured(x) == x.source <= revision /\ x.destination <= revision

RevisionsFit ==
    /\ \A i \in EffectIdentities, p \in Paths : metadata[i][p] <= revision
    /\ \A j \in Jobs : Captured(effects[j])
    /\ \A c \in Commits : payload[c] \in PayloadRecords => Captured(payload[c])

(***************************************************************************)
(* What an actor knows of its job.  A job is at hand from its selection to *)
(* its end; the identity is held from the claim on, and by a background    *)
(* worker from the selection on.                                           *)
(***************************************************************************)
AtHand == WorkSteps \ {"next"}

Applying == {"rows", "check", "move"}

Announcing == {"publish", "complete"}

Owning == Applying \union Announcing \union {"retire"}

NoneBefore(j) ==
    \A k \in 1..(j - 1) : effects[k].identity = effects[j].identity => ~Pending(k)

Holds(a) ==
    LET j == actor[a].job IN
    /\ actor[a].step \in AtHand => j \in Jobs
    /\ j \in Jobs \union {0}
    /\ actor[a].step \in Owning \/ (At(a, "claim") /\ a \in Processes)
           => holder[effects[j].identity] = a

KnowsJob(a) ==
    LET j == actor[a].job IN
    /\ actor[a].step \in Owning => Pending(j) /\ NoneBefore(j)
    /\ actor[a].step \in Applying => effects[j].state = "pending" /\ ~effects[j].superseded
    /\ actor[a].step \in Announcing => effects[j].state = "applied"
    /\ At(a, "complete") => effects[j].events > 0

KnowsRows(a) ==
    LET j == actor[a].job
        i == effects[j].identity
    IN
    /\ actor[a].step \in {"check", "move"} => rowLocks[i] = LockedRows(j)
    /\ At(a, "move") /\ Matches(j) => metadata[i][effects[j].to] \in {0, effects[j].destination}

KnowsPayload(a) ==
    /\ actor[a].step \in CommitSteps => a \in Commits
    /\ At(a, "storage") => payload[a] \in PayloadRecords

Knows(a) == Holds(a) /\ KnowsJob(a) /\ KnowsRows(a) /\ KnowsPayload(a)

(* A job is announced as often as that was lost, but for the announcement  *)
(* that is about to commit and the one that has.                           *)
Completing(j) == \E a \in Actors : At(a, "complete") /\ actor[a].job = j

AnnouncedOnce ==
    \A j \in Jobs :
        effects[j].state # "completed" /\ ~Completing(j) => effects[j].events <= effects[j].lost

(* The inductive invariant.                                                *)
EffectInv ==
    /\ EffectTypes /\ RevisionsFit
    /\ \A a \in Actors : Knows(a)
    /\ AnnouncedOnce /\ EventFollowsMetadata /\ EffectsInOrder

------------------------------------------------------------------------------
(* The jobs are numbered from one.                                         *)
LEMMA JobNumbers ==
    ASSUME EffectTypes
    PROVE  /\ Len(effects) \in Nat /\ Jobs = 1..Len(effects) /\ 0 \notin Jobs
           /\ \A j \in Jobs : j \in Nat /\ effects[j] \in JobRecords
           /\ \A j \in Jobs, k \in Nat : 1 <= k /\ k < j => k \in Jobs
  BY LenProperties, ElementOfSeq DEF EffectTypes, Jobs

(* The fields of a job and of an actor have their types.                   *)
LEMMA JobFields ==
    ASSUME EffectTypes, NEW j \in Jobs
    PROVE  /\ effects[j].identity \in EffectIdentities
           /\ effects[j].from \in Paths /\ effects[j].to \in Paths
           /\ effects[j].source \in Nat /\ effects[j].destination \in Nat
           /\ effects[j].state \in JobStates /\ effects[j].account \in Nat
           /\ effects[j].superseded \in BOOLEAN
           /\ effects[j].events \in Nat /\ effects[j].lost \in Nat
  BY JobNumbers DEF JobRecords

LEMMA ActorFields ==
    ASSUME EffectTypes, NEW a \in Actors
    PROVE  actor[a].step \in WorkSteps \union CommitSteps /\ actor[a].job \in Nat
  BY DEF EffectTypes, ActorRecords

(* What a change of a job leaves as it was.                                *)
SameWork(x, y) ==
    /\ y.identity = x.identity /\ y.from = x.from /\ y.to = x.to
    /\ y.source = x.source /\ y.destination = x.destination /\ y.account = x.account

(* The changes of a job in the actions.                                    *)
WithState(x, s) == [x EXCEPT !.state = s]

WithEvent(x) == [x EXCEPT !.events = @ + 1]

WithLoss(x) == [x EXCEPT !.lost = @ + 1]

WithDelay(x, refused) == [x EXCEPT !.backoff = TRUE, !.attention = @ \/ refused]

WithoutDelay(x) == [x EXCEPT !.backoff = FALSE]

WithMark(x, touched) == [x EXCEPT !.superseded = @ \/ touched]

(* Each change of a job touches the fields it names and no other.          *)
LEMMA StateChanges ==
    ASSUME NEW x \in JobRecords, NEW s \in JobStates
    PROVE  /\ WithState(x, s) \in JobRecords /\ SameWork(x, WithState(x, s))
           /\ WithState(x, s).state = s /\ WithState(x, s).superseded = x.superseded
           /\ WithState(x, s).events = x.events /\ WithState(x, s).lost = x.lost
  BY DEF WithState, SameWork, JobRecords

LEMMA EventChanges ==
    ASSUME NEW x \in JobRecords
    PROVE  /\ WithEvent(x) \in JobRecords /\ SameWork(x, WithEvent(x))
           /\ WithEvent(x).state = x.state /\ WithEvent(x).superseded = x.superseded
           /\ WithEvent(x).events = x.events + 1 /\ WithEvent(x).lost = x.lost
  BY DEF WithEvent, SameWork, JobRecords

LEMMA LossChanges ==
    ASSUME NEW x \in JobRecords
    PROVE  /\ WithLoss(x) \in JobRecords /\ SameWork(x, WithLoss(x))
           /\ WithLoss(x).state = x.state /\ WithLoss(x).superseded = x.superseded
           /\ WithLoss(x).events = x.events /\ WithLoss(x).lost = x.lost + 1
  BY DEF WithLoss, SameWork, JobRecords

LEMMA DelayChanges ==
    ASSUME NEW x \in JobRecords, NEW refused \in BOOLEAN
    PROVE  /\ WithDelay(x, refused) \in JobRecords /\ SameWork(x, WithDelay(x, refused))
           /\ WithDelay(x, refused).state = x.state
           /\ WithDelay(x, refused).superseded = x.superseded
           /\ WithDelay(x, refused).events = x.events /\ WithDelay(x, refused).lost = x.lost
  <1> DEFINE u == [x EXCEPT !.backoff = TRUE]
             v == [x EXCEPT !.backoff = TRUE, !.attention = x.attention \/ refused]
  <1>1. /\ u \in JobRecords /\ SameWork(x, u) /\ u.state = x.state /\ u.superseded = x.superseded
        /\ u.events = x.events /\ u.lost = x.lost /\ u.attention = x.attention
    BY DEF JobRecords, SameWork
  <1>2. v = [u EXCEPT !.attention = x.attention \/ refused] /\ WithDelay(x, refused) = v
    BY DEF WithDelay
  <1>3. x.attention \/ refused \in BOOLEAN
    BY DEF JobRecords
  <1> HIDE DEF u
  <1>4. /\ v \in JobRecords /\ SameWork(u, v) /\ v.state = u.state /\ v.superseded = u.superseded
        /\ v.events = u.events /\ v.lost = u.lost
    BY <1>1, <1>2, <1>3 DEF JobRecords, SameWork
  <1> HIDE DEF v
  <1> QED  BY <1>1, <1>2, <1>4 DEF SameWork

LEMMA UndelayChanges ==
    ASSUME NEW x \in JobRecords
    PROVE  /\ WithoutDelay(x) \in JobRecords /\ SameWork(x, WithoutDelay(x))
           /\ WithoutDelay(x).state = x.state /\ WithoutDelay(x).superseded = x.superseded
           /\ WithoutDelay(x).events = x.events /\ WithoutDelay(x).lost = x.lost
  BY DEF WithoutDelay, SameWork, JobRecords

LEMMA MarkChanges ==
    ASSUME NEW x \in JobRecords, NEW touched \in BOOLEAN
    PROVE  /\ WithMark(x, touched) \in JobRecords /\ SameWork(x, WithMark(x, touched))
           /\ WithMark(x, touched).state = x.state
           /\ WithMark(x, touched).superseded = (x.superseded \/ touched)
           /\ WithMark(x, touched).events = x.events /\ WithMark(x, touched).lost = x.lost
  BY DEF WithMark, SameWork, JobRecords

(* Job j becomes y and the others stay.                                    *)
BecomesJob(j, y) ==
    /\ effects' \in Seq(JobRecords) /\ Len(effects') = Len(effects) /\ Jobs' = Jobs
    /\ effects'[j] = y /\ SameWork(effects[j], y)
    /\ \A k \in Jobs : k # j => effects'[k] = effects[k]

(* The update of one job in the queue is such a change.                    *)
LEMMA JobBecomes ==
    ASSUME EffectTypes, NEW j \in Jobs, NEW y \in JobRecords, SameWork(effects[j], y),
           effects' = [effects EXCEPT ![j] = y]
    PROVE  BecomesJob(j, y)
  <1>1. effects \in Seq(JobRecords) /\ j \in 1..Len(effects) /\ Jobs = 1..Len(effects)
    BY JobNumbers DEF EffectTypes
  <1>2. /\ effects' \in Seq(JobRecords) /\ Len(effects') = Len(effects)
        /\ effects'[j] = y
        /\ \A k \in 1..Len(effects) : k # j => effects'[k] = effects[k]
    BY <1>1, ExceptSeq
  <1>3. Jobs' = Jobs
    BY <1>1, <1>2, LenProperties DEF Jobs
  <1> QED  BY <1>1, <1>2, <1>3 DEF BecomesJob

(* An actor goes to step s with job n.                                     *)
LEMMA ActorGoes ==
    ASSUME EffectTypes, NEW a \in Actors, NEW s \in WorkSteps \union CommitSteps, NEW n \in Nat,
           Goes(a, s, n)
    PROVE  /\ actor' \in [Actors -> ActorRecords]
           /\ actor'[a].step = s /\ actor'[a].job = n
           /\ \A b \in Actors : b # a => actor'[b] = actor[b]
  <1>1. [step |-> s, job |-> n] \in ActorRecords
    BY DEF ActorRecords
  <1>2. actor \in [Actors -> ActorRecords]
    BY DEF EffectTypes
  <1> QED  BY <1>1, <1>2 DEF Goes

------------------------------------------------------------------------------
(***************************************************************************)
(* A step leaves an actor undisturbed if no job is forgotten or becomes    *)
(* pending again, and if the jobs and the rows of the identity it holds    *)
(* stay, but for edits of rows that are there and not locked.              *)
(***************************************************************************)
RowsEdited(i) ==
    \A p \in Paths :
        \/ metadata'[i][p] = metadata[i][p]
        \/ metadata[i][p] # 0 /\ p \notin rowLocks[i] /\ metadata'[i][p] > revision

Undisturbed(b) ==
    /\ actor'[b] = actor[b]
    /\ b \in Commits => payload'[b] = payload[b]
    /\ \A j \in Jobs : /\ j \in Jobs' /\ SameWork(effects[j], effects'[j])
                       /\ ~Pending(j) => ~Pending(j)'
    /\ \A j \in Jobs : holder[effects[j].identity] = b =>
           /\ effects'[j].state = effects[j].state
           /\ effects'[j].superseded = effects[j].superseded
           /\ effects'[j].events = effects[j].events
    /\ \A i \in EffectIdentities : holder[i] = b =>
           holder'[i] = b /\ rowLocks'[i] = rowLocks[i] /\ RowsEdited(i)

(***************************************************************************)
(* An undisturbed actor knows after the step what it knew before: of its   *)
(* rows, those it locked stay, those it found missing stay missing, and an *)
(* edited row carries a revision that nobody has captured.                 *)
(***************************************************************************)
LEMMA UndisturbedKnows ==
    ASSUME EffectInv, EffectTypes', NEW b \in Actors, Undisturbed(b)
    PROVE  Knows(b)'
  <1> SUFFICES ASSUME NEW j, j = actor[b].job, NEW i, i = effects[j].identity
               PROVE  Knows(b)'
    OBVIOUS
  <1>1. EffectTypes /\ RevisionsFit /\ Holds(b) /\ KnowsJob(b) /\ KnowsRows(b) /\ KnowsPayload(b)
    BY DEF EffectInv, Knows
  <1>2. actor'[b].job = j /\ actor'[b].step = actor[b].step
    BY DEF Undisturbed
  <1>3. 0 \notin Jobs /\ (j \in Jobs => j \in Jobs')
    BY <1>1, JobNumbers DEF Undisturbed
  <1>4. ASSUME j \in Jobs
        PROVE  /\ SameWork(effects[j], effects'[j]) /\ i \in EffectIdentities
               /\ effects'[j].identity = i
    BY <1>1, <1>4, JobFields DEF Undisturbed, SameWork
  <1>5. ASSUME j \in Jobs, holder[i] = b
        PROVE  /\ effects'[j].state = effects[j].state
               /\ effects'[j].superseded = effects[j].superseded
               /\ effects'[j].events = effects[j].events
               /\ holder'[i] = b /\ rowLocks'[i] = rowLocks[i] /\ RowsEdited(i)
    BY <1>4, <1>5 DEF Undisturbed
  <1>6. actor[b].step \in Owning => j \in Jobs /\ holder[i] = b
    BY <1>1 DEF Holds, Owning, AtHand, Applying, Announcing, WorkSteps
  <1>7. Holds(b)'
    <2>1. actor[b].step \in AtHand => j \in Jobs'
      BY <1>1, <1>3 DEF Holds
    <2>2. j \in Jobs' \union {0}
      BY <1>1, <1>3 DEF Holds
    <2>3. ASSUME actor[b].step \in Owning \/ (actor[b].step = "claim" /\ b \in Processes)
          PROVE  holder'[effects'[j].identity] = b
      <3>1. j \in Jobs /\ holder[i] = b
        BY <1>1, <2>3 DEF Holds, At, Owning, AtHand, Applying, Announcing, WorkSteps
      <3> QED  BY <1>4, <1>5, <3>1
    <2> QED  BY <1>2, <2>1, <2>2, <2>3 DEF Holds, At
  <1>8. KnowsJob(b)'
    <2>1. ASSUME actor[b].step \in Owning PROVE NoneBefore(j)'
      <3> SUFFICES ASSUME NEW k \in 1..(j - 1), effects'[k].identity = effects'[j].identity
                   PROVE  ~Pending(k)'
        BY DEF NoneBefore
      <3>1. j \in Jobs /\ k \in Jobs
        BY <1>1, <1>6, <2>1, JobNumbers
      <3>2. effects[k].identity = i
        BY <1>4, <3>1 DEF Undisturbed, SameWork
      <3>3. ~Pending(k)
        BY <1>1, <2>1, <3>2 DEF KnowsJob, NoneBefore
      <3> QED  BY <3>1, <3>3 DEF Undisturbed
    <2>2. ASSUME actor[b].step \in Owning
          PROVE  /\ Pending(j)'
                 /\ effects'[j].state = effects[j].state
                 /\ effects'[j].superseded = effects[j].superseded
                 /\ effects'[j].events = effects[j].events
      BY <1>1, <1>5, <1>6, <2>2 DEF KnowsJob, Pending
    <2>3. actor[b].step = "complete" => effects'[j].events > 0
      BY <1>1, <2>2 DEF KnowsJob, At, Owning, Announcing
    <2> QED  BY <1>1, <1>2, <2>1, <2>2, <2>3 DEF KnowsJob, Owning, At, Applying, Announcing
  <1>9. KnowsRows(b)'
    <2> SUFFICES ASSUME actor[b].step \in {"check", "move"}
                 PROVE  /\ rowLocks'[i] = LockedRows(j)'
                        /\ actor[b].step = "move" /\ Matches(j)' =>
                               metadata'[i][effects'[j].to] \in {0, effects'[j].destination}
      BY <1>2, <1>4, <1>6 DEF KnowsRows, At, Owning, Applying
    <2>1. j \in Jobs /\ holder[i] = b
      BY <1>6 DEF Owning, Applying
    <2>2. /\ rowLocks'[i] = rowLocks[i] /\ rowLocks[i] = LockedRows(j) /\ RowsEdited(i)
          /\ effects'[j].identity = i /\ effects'[j].from = effects[j].from
          /\ effects'[j].to = effects[j].to /\ effects'[j].source = effects[j].source
          /\ effects'[j].destination = effects[j].destination
      BY <1>1, <1>4, <1>5, <2>1 DEF SameWork, KnowsRows
    <2>3. /\ revision \in Nat /\ i \in EffectIdentities
          /\ \A p \in Paths : metadata[i][p] \in Nat /\ metadata'[i][p] \in Nat
          /\ effects[j].from \in Paths /\ effects[j].to \in Paths
          /\ effects[j].source \in Nat /\ effects[j].source <= revision
      BY <1>1, <2>1, JobFields DEF EffectTypes, RevisionsFit, Captured
    <2>3a. ASSUME NEW p \in Paths
          PROVE  \/ metadata'[i][p] = metadata[i][p]
                 \/ metadata[i][p] # 0 /\ p \notin rowLocks[i] /\ metadata'[i][p] > revision
      BY <2>2 DEF RowsEdited
    <2>4. \A p \in Paths : metadata'[i][p] # 0 <=> metadata[i][p] # 0
      <3> SUFFICES ASSUME NEW p \in Paths PROVE metadata'[i][p] # 0 <=> metadata[i][p] # 0
        OBVIOUS
      <3>1. metadata'[i][p] > revision /\ metadata'[i][p] \in Nat => metadata'[i][p] # 0
        BY <2>3
      <3> QED  BY <2>3, <2>3a, <3>1
    <2>5. LockedRows(j)' = LockedRows(j)
      BY <2>2, <2>4 DEF LockedRows
    <2>6. ASSUME actor[b].step = "move", Matches(j)'
          PROVE  metadata'[i][effects'[j].to] \in {0, effects'[j].destination}
      <3>1. effects[j].source # 0 /\ metadata'[i][effects[j].from] = effects[j].source
        BY <2>2, <2>6 DEF Matches, Moves
      <3>2. metadata[i][effects[j].from] = effects[j].source
        <4>1. ~(metadata'[i][effects[j].from] > revision)
          BY <2>3, <3>1
        <4> QED  BY <2>3, <2>3a, <3>1, <4>1
      <3>3. metadata[i][effects[j].to] \in {0, effects[j].destination}
        BY <1>1, <2>6, <3>1, <3>2 DEF KnowsRows, At, Matches, Moves
      <3>4. metadata[i][effects[j].to] # 0 => effects[j].to \in rowLocks[i]
        BY <2>2, <2>3, <3>3 DEF LockedRows
      <3>5. metadata'[i][effects[j].to] = metadata[i][effects[j].to]
        BY <2>2, <2>3, <3>4 DEF RowsEdited
      <3> QED  BY <2>2, <3>3, <3>5
    <2> QED  BY <2>2, <2>5, <2>6
  <1>10. KnowsPayload(b)'
    BY <1>1, <1>2 DEF KnowsPayload, Undisturbed, At, CommitSteps
  <1> QED  BY <1>7, <1>8, <1>9, <1>10 DEF Knows

(***************************************************************************)
(* A step that leaves the states and the events of all jobs keeps the      *)
(* invariant if every actor still knows what it has to.                    *)
(***************************************************************************)
LEMMA SameQueueKeeps ==
    ASSUME EffectInv, EffectTypes', RevisionsFit', \A a \in Actors : Knows(a)', Jobs' = Jobs,
           \A j \in Jobs : /\ effects'[j].identity = effects[j].identity
                           /\ effects'[j].state = effects[j].state
                           /\ effects'[j].events = effects[j].events
                           /\ effects'[j].lost = effects[j].lost,
           \A j \in Jobs : Completing(j) => Completing(j)'
    PROVE  EffectInv'
  <1>1. AnnouncedOnce' /\ EventFollowsMetadata'
    BY DEF EffectInv, AnnouncedOnce, EventFollowsMetadata
  <1>2. EffectsInOrder'
    BY DEF EffectInv, EffectsInOrder, Pending
  <1> QED  BY <1>1, <1>2 DEF EffectInv

(***************************************************************************)
(* An actor changes its job: either the job is the first pending one of    *)
(* its identity, or its state and events stay.                             *)
(***************************************************************************)
LEMMA JobStepKeeps ==
    ASSUME EffectInv, EffectTypes', RevisionsFit', NEW a \in Actors, Knows(a)',
           \A b \in Actors : b # a => Undisturbed(b),
           NEW j \in Jobs, NEW y \in JobRecords, BecomesJob(j, y),
           y.events > 0 => y.state # "pending",
           y.state = "completed" => y.events > 0,
           y.events <= 1 + y.lost,
           y.state # "completed" /\ ~Completing(j)' => y.events <= y.lost,
           At(a, "complete") => actor[a].job = j,
           NoneBefore(j) \/ (y.state = effects[j].state /\ y.events = effects[j].events),
           y.state \in {"pending", "applied"} => Pending(j)
    PROVE  EffectInv'
  <1>1. \A b \in Actors : Knows(b)'
    BY UndisturbedKnows
  <1>2. /\ Jobs' = Jobs /\ effects'[j] = y /\ y.identity = effects[j].identity
        /\ \A k \in Jobs : k # j => effects'[k] = effects[k]
    BY DEF BecomesJob, SameWork
  <1>3. EventFollowsMetadata'
    BY <1>2 DEF EffectInv, EventFollowsMetadata
  <1>4. AnnouncedOnce'
    <2> SUFFICES ASSUME NEW k \in Jobs, effects'[k].state # "completed", ~Completing(k)'
                 PROVE  effects'[k].events <= effects'[k].lost
      BY <1>2 DEF AnnouncedOnce
    <2>1. CASE k = j
      BY <1>2, <2>1
    <2>2. CASE k # j
      <3>1. ~Completing(k)
        BY <2>2 DEF Completing, Undisturbed, At
      <3> QED  BY <1>2, <2>2, <3>1 DEF EffectInv, AnnouncedOnce
    <2> QED  BY <2>1, <2>2
  <1>5. EffectsInOrder'
    <2> SUFFICES ASSUME NEW m \in Jobs, NEW k \in Jobs, k < m,
                        effects'[k].identity = effects'[m].identity, Pending(k)'
                 PROVE  effects'[m].state = "pending" /\ effects'[m].events = 0
      BY <1>2 DEF EffectsInOrder
    <2>1. effects[k].identity = effects[m].identity /\ Pending(k)
      BY <1>2 DEF Pending
    <2>2. effects[m].state = "pending" /\ effects[m].events = 0
      BY <2>1 DEF EffectInv, EffectsInOrder
    <2>3. CASE m = j
      <3>1. k \in 1..(m - 1)
        BY JobNumbers DEF EffectInv
      <3>2. ~NoneBefore(j)
        BY <2>1, <2>3, <3>1 DEF NoneBefore
      <3> QED  BY <1>2, <2>2, <2>3, <3>2
    <2>4. CASE m # j
      BY <1>2, <2>2, <2>4
    <2> QED  BY <2>3, <2>4
  <1> QED  BY <1>1, <1>3, <1>4, <1>5 DEF EffectInv

------------------------------------------------------------------------------
(* The steps of one actor that leave states and events as they are.        *)
SameJobs ==
    /\ effects' \in Seq(JobRecords) /\ Jobs' = Jobs
    /\ \A j \in Jobs : /\ SameWork(effects[j], effects'[j])
                       /\ effects'[j].state = effects[j].state
                       /\ effects'[j].superseded = effects[j].superseded
                       /\ effects'[j].events = effects[j].events
                       /\ effects'[j].lost = effects[j].lost

(* A step that does not touch the queue changes no job.                    *)
LEMMA UnchangedJobs ==
    ASSUME EffectTypes, effects' = effects
    PROVE  SameJobs
  BY DEF EffectTypes, SameJobs, SameWork, Jobs

(* Locks on the identity rows other than those of actor a stay.            *)
KeepsLocks(a) ==
    /\ holder' \in [EffectIdentities -> Actors \union {Nobody}]
    /\ rowLocks' \in [EffectIdentities -> SUBSET Paths]
    /\ \A i \in EffectIdentities : holder[i] \notin {a, Nobody} =>
           holder'[i] = holder[i] /\ rowLocks'[i] = rowLocks[i]

(***************************************************************************)
(* An actor that leaves the identity rows alone, or changes the lock of    *)
(* one that it holds or nobody does, leaves the others their locks.        *)
(***************************************************************************)
LEMMA LocksUnchanged ==
    ASSUME EffectTypes, NEW a, UNCHANGED <<holder, rowLocks>>
    PROVE  KeepsLocks(a)
  BY DEF EffectTypes, KeepsLocks

LEMMA LocksChange ==
    ASSUME EffectTypes, NEW a \in Actors, NEW i \in EffectIdentities, holder[i] \in {a, Nobody},
           NEW h \in Actors \union {Nobody}, NEW R \in SUBSET Paths,
           holder' = [holder EXCEPT ![i] = h] \/ holder' = holder,
           rowLocks' = [rowLocks EXCEPT ![i] = R] \/ rowLocks' = rowLocks
    PROVE  KeepsLocks(a)
  BY DEF EffectTypes, KeepsLocks

(* The identity is freed by the actor that had it, or had nobody before.   *)
LEMMA FreesLocks ==
    ASSUME EffectTypes, NEW a \in Actors, NEW i \in EffectIdentities, holder[i] \in {a, Nobody},
           IdentityFreed(i)
    PROVE  KeepsLocks(a)
  <1>1. /\ holder' = [holder EXCEPT ![i] = Nobody] /\ rowLocks' = [rowLocks EXCEPT ![i] = {}]
        /\ Nobody \in Actors \union {Nobody} /\ {} \in SUBSET Paths
    BY DEF IdentityFreed
  <1> QED  BY <1>1, LocksChange

(***************************************************************************)
(* If an actor moves on and changes no job, no row and no lock of others,  *)
(* it disturbs nobody, and the invariant is kept.                          *)
(***************************************************************************)
LEMMA OthersUndisturbed ==
    ASSUME EffectTypes, NEW a \in Actors, \A b \in Actors : b # a => actor'[b] = actor[b],
           SameJobs, UNCHANGED <<metadata, revision, payload>>, KeepsLocks(a),
           NEW b \in Actors, b # a
    PROVE  Undisturbed(b)
  <1>1. b # Nobody
    BY ActorsAssumption
  <1> QED  BY <1>1 DEF Undisturbed, SameJobs, KeepsLocks, RowsEdited, Pending

LEMMA MovesKeep ==
    ASSUME EffectInv, NEW a \in Actors, NEW s \in WorkSteps \union CommitSteps, NEW n \in Nat,
           Goes(a, s, n), SameJobs, UNCHANGED <<metadata, revision, account, payload>>,
           KeepsLocks(a), ~At(a, "complete"), Knows(a)'
    PROVE  EffectInv'
  <1>1. EffectTypes /\ RevisionsFit
    BY DEF EffectInv
  <1>2. /\ actor' \in [Actors -> ActorRecords]
        /\ \A b \in Actors : b # a => actor'[b] = actor[b]
    BY <1>1, ActorGoes
  <1>3. EffectTypes'
    BY <1>1, <1>2 DEF EffectTypes, SameJobs, KeepsLocks
  <1>4. RevisionsFit'
    BY <1>1 DEF RevisionsFit, Captured, SameJobs, SameWork
  <1>5. \A b \in Actors : Knows(b)'
    <2> SUFFICES ASSUME NEW b \in Actors, b # a PROVE Knows(b)'
      OBVIOUS
    <2>1. Undisturbed(b)
      BY <1>1, <1>2, OthersUndisturbed
    <2> QED  BY <1>3, <2>1, UndisturbedKnows
  <1>6. \A j \in Jobs : Completing(j) => Completing(j)'
    BY <1>2 DEF Completing, At
  <1> QED  BY <1>3, <1>4, <1>5, <1>6, SameQueueKeeps DEF SameJobs, SameWork

(* An actor between its jobs, or that has only chosen one, knows little.   *)
LEMMA KnowsLittle ==
    ASSUME NEW a \in Actors, NEW s, NEW n, actor'[a].step = s, actor'[a].job = n,
           s \in {"next", "again", "refused", "broken", "claim"} \union (CommitSteps \ {"storage"}),
           n \in Jobs' \union {0},
           s \in {"again", "refused", "broken", "claim"} => n \in Jobs',
           s = "claim" /\ a \in Processes => holder'[effects'[n].identity] = a,
           s \in CommitSteps => a \in Commits
    PROVE  Knows(a)'
  <1>1. Holds(a)'
    BY DEF Holds, At, AtHand, WorkSteps, CommitSteps, Owning, Applying, Announcing
  <1>2. KnowsJob(a)' /\ KnowsRows(a)' /\ KnowsPayload(a)'
    BY DEF KnowsJob, KnowsRows, KnowsPayload, At, AtHand, WorkSteps, CommitSteps,
           Owning, Applying, Announcing
  <1> QED  BY <1>1, <1>2 DEF Knows

(* An actor takes a job.                                                   *)
LEMMA TakesKeeps ==
    ASSUME EffectInv, NEW a \in Actors, NEW j \in Candidates(a), Takes(a, j),
           At(a, "next") \/ At(a, "again")
    PROVE  EffectInv'
  <1> DEFINE i == effects[j].identity
  <1>1. EffectTypes /\ j \in Jobs /\ j \in Nat /\ i \in EffectIdentities
    BY JobNumbers, JobFields DEF EffectInv, Candidates
  <1>2. /\ Goes(a, "claim", j) /\ UNCHANGED queueVars /\ rowLocks' = rowLocks
        /\ a \in Processes => holder[i] = Nobody /\ holder' = [holder EXCEPT ![i] = a]
        /\ a \notin Processes => holder' = holder
    BY DEF Takes, Candidates
  <1>3. KeepsLocks(a)
    <2>1. CASE a \in Processes
      <3>1. rowLocks[i] \in SUBSET Paths
        BY <1>1 DEF EffectTypes
      <3> QED  BY <1>1, <1>2, <2>1, <3>1, LocksChange
    <2>2. CASE a \notin Processes
      BY <1>1, <1>2, <2>2, LocksUnchanged
    <2> QED  BY <2>1, <2>2
  <1>4. Knows(a)'
    <2>1. actor'[a].step = "claim" /\ actor'[a].job = j
      BY <1>1, <1>2, ActorGoes DEF WorkSteps
    <2>2. a \in Processes => holder'[effects'[j].identity] = a
      BY <1>1, <1>2 DEF queueVars, EffectTypes
    <2>3. j \in Jobs'
      BY <1>1, <1>2 DEF queueVars, Jobs
    <2> QED  BY <2>1, <2>2, <2>3, KnowsLittle DEF CommitSteps
  <1>5. SameJobs /\ UNCHANGED <<metadata, revision, account, payload>> /\ ~At(a, "complete")
    BY <1>1, <1>2, UnchangedJobs DEF queueVars, At
  <1> QED  BY <1>1, <1>2, <1>3, <1>4, <1>5, MovesKeep DEF WorkSteps

(* The selection of a job, or of none.                                     *)
LEMMA SelectionsKeep ==
    ASSUME EffectInv, NEW a \in Actors,
           Select(a) \/ SelectNone(a) \/ SelectAgain(a) \/ SelectLost(a)
    PROVE  EffectInv'
  <1>1. CASE Select(a)
    BY <1>1, TakesKeeps DEF Select
  <1>2. CASE SelectAgain(a)
    BY <1>2, TakesKeeps DEF SelectAgain
  <1>3. CASE SelectNone(a) \/ SelectLost(a)
    <2> DEFINE s == IF a \in Commits THEN "admit" ELSE "next"
    <2>1. /\ Goes(a, s, 0) /\ UNCHANGED queueVars /\ UNCHANGED <<holder, rowLocks>>
          /\ ~At(a, "complete") /\ EffectTypes
      BY <1>3 DEF SelectNone, SelectLost, Idle, At, EffectInv
    <2>2. s \in {"admit", "next"} /\ (s = "admit" => a \in Commits)
      OBVIOUS
    <2> HIDE DEF s
    <2>3. actor'[a].step = s /\ actor'[a].job = 0
      BY <2>1, <2>2, ActorGoes DEF WorkSteps, CommitSteps
    <2>4. Knows(a)'
      BY <2>2, <2>3, KnowsLittle DEF CommitSteps
    <2>5. SameJobs /\ KeepsLocks(a)
      BY <2>1, UnchangedJobs, LocksUnchanged DEF queueVars
    <2> QED  BY <2>1, <2>2, <2>4, <2>5, MovesKeep DEF queueVars, WorkSteps, CommitSteps
  <1> QED  BY <1>1, <1>2, <1>3

(***************************************************************************)
(* The identity is locked: the job is gone, is refused, or starts to be    *)
(* applied, announced or retired.                                          *)
(***************************************************************************)
LEMMA TakingKeeps ==
    ASSUME EffectInv, NEW a \in Actors, ClaimGone(a) \/ Claim(a)
    PROVE  EffectInv'
  <1> SUFFICES ASSUME NEW j, j = actor[a].job, NEW i, i = effects[j].identity
               PROVE  EffectInv'
    OBVIOUS
  <1>1. EffectTypes /\ Holds(a) /\ At(a, "claim")
    BY DEF EffectInv, Knows, ClaimGone, Claim
  <1>2. j \in Jobs /\ j \in Nat /\ i \in EffectIdentities
    BY <1>1, JobNumbers, JobFields DEF Holds, At, AtHand, WorkSteps
  <1>3. holder[i] \in {a, Nobody} /\ rowLocks[i] \in SUBSET Paths
    BY <1>1, <1>2 DEF ClaimGone, Claim, HasIdentity, EffectTypes
  <1>4. SameJobs /\ UNCHANGED queueVars /\ ~At(a, "complete")
        /\ UNCHANGED <<metadata, revision, account, payload>>
    BY <1>1, UnchangedJobs DEF ClaimGone, Claim, queueVars, At
  <1>5. CASE ClaimGone(a)
    <2> DEFINE s == IF a \in Commits THEN "admit" ELSE "next"
    <2>1. Goes(a, s, 0) /\ IdentityFreed(i)
      BY <1>5 DEF ClaimGone, Idle
    <2>2. s \in {"admit", "next"} /\ (s = "admit" => a \in Commits)
      OBVIOUS
    <2> HIDE DEF s
    <2>3. actor'[a].step = s /\ actor'[a].job = 0
      BY <1>1, <2>1, <2>2, ActorGoes DEF WorkSteps, CommitSteps
    <2>4. Knows(a)'
      BY <2>2, <2>3, KnowsLittle DEF CommitSteps
    <2>5. KeepsLocks(a)
      BY <1>1, <1>2, <1>3, <2>1, FreesLocks
    <2> QED  BY <1>4, <2>1, <2>2, <2>4, <2>5, MovesKeep DEF WorkSteps, CommitSteps
  <1>6. CASE Claim(a) /\ Goes(a, "refused", j) /\ holder' = [holder EXCEPT ![i] = Nobody]
    <2>1. actor'[a].step = "refused" /\ actor'[a].job = j
      BY <1>1, <1>2, <1>6, ActorGoes DEF WorkSteps
    <2>2. Knows(a)'
      BY <1>2, <1>4, <2>1, KnowsLittle DEF CommitSteps, SameJobs
    <2>3. rowLocks' = rowLocks
      BY <1>6 DEF Claim
    <2>4. KeepsLocks(a)
      BY <1>1, <1>2, <1>3, <1>6, <2>3, LocksChange
    <2> QED  BY <1>2, <1>4, <1>6, <2>2, <2>4, MovesKeep DEF WorkSteps
  <1>7. CASE /\ Claim(a) /\ Goes(a, NextStep(j), j) /\ holder' = [holder EXCEPT ![i] = a]
             /\ ~Owned(j) \/ effects[j].state = "applied" \/ ~effects[j].superseded
    <2> DEFINE s == NextStep(j)
    <2>1. Pending(j) /\ NoneBefore(j)
      BY <1>7 DEF Claim, StillEligible, Eligible, NoneBefore
    <2>2. /\ s \in {"retire", "publish", "rows"}
          /\ s = "rows" => effects[j].state = "pending" /\ ~effects[j].superseded
          /\ s = "publish" => effects[j].state = "applied"
      BY <1>7, <2>1 DEF NextStep, Pending
    <2> HIDE DEF s
    <2>3. actor'[a].step = s /\ actor'[a].job = j
      BY <1>1, <1>2, <1>7, <2>2, ActorGoes DEF s, WorkSteps
    <2>4. rowLocks' = rowLocks /\ effects' = effects /\ holder'[i] = a
      BY <1>1, <1>2, <1>4, <1>7 DEF Claim, queueVars, EffectTypes
    <2>5. KeepsLocks(a)
      BY <1>1, <1>2, <1>3, <1>7, <2>4, LocksChange
    <2>6. Holds(a)'
      BY <1>2, <1>4, <2>2, <2>3, <2>4
         DEF Holds, At, AtHand, WorkSteps, Owning, Applying, Announcing, Jobs
    <2>7. NoneBefore(j)' /\ Pending(j)'
      BY <2>1, <2>4 DEF NoneBefore, Pending
    <2>8. KnowsJob(a)' /\ KnowsRows(a)' /\ KnowsPayload(a)'
      BY <2>2, <2>3, <2>4, <2>7
         DEF KnowsJob, KnowsRows, KnowsPayload, At, Owning, Applying, Announcing, CommitSteps
    <2>9. Knows(a)'
      BY <2>6, <2>8 DEF Knows
    <2> QED  BY <1>2, <1>4, <1>7, <2>2, <2>5, <2>9, MovesKeep DEF s, WorkSteps
  <1> QED  BY <1>5, <1>6, <1>7 DEF Claim

(* The rows of the job are locked, and its destination is checked.         *)
LEMMA RowStepsKeep ==
    ASSUME EffectInv, NEW a \in Actors, LockRows(a) \/ CheckDestination(a)
    PROVE  EffectInv'
  <1> SUFFICES ASSUME NEW j, j = actor[a].job, NEW i, i = effects[j].identity
               PROVE  EffectInv'
    OBVIOUS
  <1>1. /\ EffectTypes /\ Holds(a) /\ KnowsJob(a) /\ KnowsRows(a)
        /\ actor[a].step \in {"rows", "check"}
    BY DEF EffectInv, Knows, LockRows, CheckDestination, At
  <1>2. j \in Jobs /\ j \in Nat /\ i \in EffectIdentities
    BY <1>1, JobNumbers, JobFields DEF Holds, AtHand, WorkSteps
  <1>3. /\ holder[i] = a /\ Pending(j) /\ NoneBefore(j)
        /\ effects[j].state = "pending" /\ ~effects[j].superseded
    BY <1>1 DEF Holds, KnowsJob, Owning, Applying
  <1>4. /\ SameJobs /\ UNCHANGED queueVars /\ ~At(a, "complete") /\ effects' = effects
        /\ UNCHANGED <<metadata, revision, account, payload>>
    BY <1>1, UnchangedJobs DEF LockRows, CheckDestination, queueVars, At
  <1>5. ASSUME NEW s \in {"check", "move"}, Goes(a, s, j), holder' = holder,
               rowLocks'[i] = LockedRows(j), KeepsLocks(a),
               s = "move" /\ Matches(j)
                   => metadata[i][effects[j].to] \in {0, effects[j].destination}
        PROVE  EffectInv'
    <2>1. actor'[a].step = s /\ actor'[a].job = j
      BY <1>1, <1>2, <1>5, ActorGoes DEF WorkSteps
    <2>2. Holds(a)'
      BY <1>2, <1>3, <1>4, <1>5, <2>1
         DEF Holds, At, AtHand, WorkSteps, Owning, Applying, Announcing, Jobs
    <2>3. NoneBefore(j)' /\ Pending(j)' /\ LockedRows(j)' = LockedRows(j) /\ Matches(j)' = Matches(j)
      BY <1>3, <1>4 DEF NoneBefore, Pending, LockedRows, Matches, Moves
    <2>4. KnowsJob(a)' /\ KnowsPayload(a)'
      BY <1>3, <1>4, <2>1, <2>3
         DEF KnowsJob, KnowsPayload, At, Owning, Applying, Announcing, CommitSteps
    <2>5. KnowsRows(a)'
      BY <1>4, <1>5, <2>1, <2>3 DEF KnowsRows, At
    <2>6. Knows(a)'
      BY <2>2, <2>4, <2>5 DEF Knows
    <2> QED  BY <1>2, <1>4, <1>5, <2>6, MovesKeep DEF WorkSteps
  <1>6. CASE LockRows(a)
    <2>1. /\ rowLocks' = [rowLocks EXCEPT ![i] = LockedRows(j)] /\ holder' = holder
          /\ Goes(a, "check", j)
      BY <1>6 DEF LockRows
    <2>2. LockedRows(j) \in SUBSET Paths
      BY DEF LockedRows
    <2>3. KeepsLocks(a) /\ rowLocks'[i] = LockedRows(j)
      <3>1. Nobody \in Actors \union {Nobody}
        OBVIOUS
      <3> QED  BY <1>1, <1>2, <1>3, <2>1, <2>2, <3>1, LocksChange DEF EffectTypes
    <2> QED  BY <1>5, <2>1, <2>3
  <1>7. CASE /\ CheckDestination(a) /\ ~Collides(j) /\ Goes(a, "move", j)
             /\ UNCHANGED <<holder, rowLocks>>
    <2>1. rowLocks'[i] = LockedRows(j)
      BY <1>1, <1>7 DEF KnowsRows, CheckDestination, At
    <2>2. Matches(j) => metadata[i][effects[j].to] \in {0, effects[j].destination}
      BY <1>7 DEF Collides
    <2> QED  BY <1>1, <1>5, <1>7, <2>1, <2>2, LocksUnchanged
  <1>8. CASE CheckDestination(a) /\ Goes(a, "refused", j) /\ IdentityFreed(i)
    <2>1. actor'[a].step = "refused" /\ actor'[a].job = j
      BY <1>1, <1>2, <1>8, ActorGoes DEF WorkSteps
    <2>2. Knows(a)'
      BY <1>2, <1>4, <2>1, KnowsLittle DEF CommitSteps, SameJobs
    <2>3. KeepsLocks(a)
      BY <1>1, <1>2, <1>3, <1>8, FreesLocks
    <2> QED  BY <1>2, <1>4, <1>8, <2>2, <2>3, MovesKeep DEF WorkSteps
  <1> QED  BY <1>6, <1>7, <1>8 DEF CheckDestination

------------------------------------------------------------------------------
(* The steps of the actor that holds the identity of its job.              *)
LEMMA HolderLeavesOthers ==
    ASSUME EffectTypes, NEW a \in Actors, NEW j \in Jobs, holder[effects[j].identity] = a,
           NEW y, BecomesJob(j, y), Pending(j), KeepsLocks(a), payload' = payload,
           \A b \in Actors : b # a => actor'[b] = actor[b],
           \A i \in EffectIdentities : i # effects[j].identity => metadata'[i] = metadata[i],
           NEW b \in Actors, b # a
    PROVE  Undisturbed(b)
  <1>1. b # Nobody
    BY ActorsAssumption
  <1>2. ASSUME NEW k \in Jobs
        PROVE  /\ k \in Jobs' /\ SameWork(effects[k], effects'[k])
               /\ ~Pending(k) => ~Pending(k)'
               /\ holder[effects[k].identity] = b => effects'[k] = effects[k]
    BY DEF BecomesJob, SameWork, Pending
  <1>3. ASSUME NEW i \in EffectIdentities, holder[i] = b
        PROVE  holder'[i] = b /\ rowLocks'[i] = rowLocks[i] /\ RowsEdited(i)
    BY <1>1, <1>3 DEF KeepsLocks, RowsEdited
  <1> QED  BY <1>2, <1>3 DEF Undisturbed

(***************************************************************************)
(* While an actor holds the identity of a job, nobody else is about to     *)
(* complete that job.                                                      *)
(***************************************************************************)
LEMMA OnlyHolderCompletes ==
    ASSUME EffectInv, NEW a \in Actors, NEW j \in Jobs, holder[effects[j].identity] = a,
           Completing(j)
    PROVE  At(a, "complete")
  <1>1. PICK b \in Actors : At(b, "complete") /\ actor[b].job = j
    BY DEF Completing
  <1>2. holder[effects[j].identity] = b
    BY <1>1 DEF EffectInv, Knows, Holds, At, Owning, Announcing
  <1> QED  BY <1>1, <1>2

(* The rows of an identity move from one path to another, or change.       *)
LEMMA MovedRows ==
    ASSUME NEW held \in [Paths -> Nat], NEW from \in Paths, NEW to \in Paths, revision \in Nat,
           \A p \in Paths : held[p] <= revision
    PROVE  /\ Moved(held, from, to) \in [Paths -> Nat]
           /\ \A p \in Paths : Moved(held, from, to)[p] <= revision + 1
  <1>1. CASE held[from] = 0
    <2>1. \A p \in Paths : held[p] <= revision + 1
      <3> SUFFICES ASSUME NEW p \in Paths PROVE held[p] <= revision + 1
        OBVIOUS
      <3>1. held[p] \in Nat /\ held[p] <= revision
        OBVIOUS
      <3> QED  BY <3>1
    <2> QED  BY <1>1, <2>1 DEF Moved
  <1>2. CASE held[from] # 0
    <2> SUFFICES ASSUME NEW kept, kept = [held EXCEPT ![from] = 0],
                        NEW moved, moved = [kept EXCEPT ![to] = revision + 1]
                 PROVE  moved \in [Paths -> Nat] /\ \A p \in Paths : moved[p] <= revision + 1
      BY <1>2 DEF Moved
    <2>1. kept \in [Paths -> Nat] /\ \A p \in Paths : kept[p] = 0 \/ kept[p] = held[p]
      OBVIOUS
    <2>2. /\ moved \in [Paths -> Nat]
          /\ \A p \in Paths : moved[p] = revision + 1 \/ moved[p] = kept[p]
      <3>1. revision + 1 \in Nat
        OBVIOUS
      <3>2. kept \in [Paths -> Nat]
        BY <2>1
      <3> QED  BY <3>1, <3>2
    <2>3. ASSUME NEW p \in Paths PROVE moved[p] <= revision + 1
      <3>1. held[p] \in Nat /\ held[p] <= revision
        OBVIOUS
      <3>2. moved[p] = revision + 1 \/ moved[p] = 0 \/ moved[p] = held[p]
        BY <2>1, <2>2
      <3> QED  BY <3>1, <3>2
    <2> QED  BY <2>2, <2>3
  <1> QED  BY <1>1, <1>2

(***************************************************************************)
(* The rows of one identity are replaced, by revisions that have been      *)
(* given out.                                                              *)
(***************************************************************************)
LEMMA RowsBecome ==
    ASSUME EffectTypes, RevisionsFit, NEW i \in EffectIdentities, NEW R \in [Paths -> Nat],
           metadata' = [metadata EXCEPT ![i] = R], revision' \in {revision, revision + 1},
           \A p \in Paths : R[p] <= revision'
    PROVE  /\ metadata' \in [EffectIdentities -> [Paths -> Nat]] /\ metadata'[i] = R
           /\ \A h \in EffectIdentities : h # i => metadata'[h] = metadata[h]
           /\ revision' \in Nat /\ revision' >= revision
           /\ \A h \in EffectIdentities, p \in Paths : metadata'[h][p] <= revision'
  <1>1. /\ metadata' \in [EffectIdentities -> [Paths -> Nat]] /\ metadata'[i] = R
        /\ \A h \in EffectIdentities : h # i => metadata'[h] = metadata[h]
    BY DEF EffectTypes
  <1>2. revision' \in Nat /\ revision' >= revision /\ revision \in Nat
    BY DEF EffectTypes
  <1>3. ASSUME NEW h \in EffectIdentities, NEW p \in Paths PROVE metadata'[h][p] <= revision'
    <2>1. metadata[h][p] \in Nat /\ metadata[h][p] <= revision
      BY DEF EffectTypes, RevisionsFit
    <2>2. metadata'[h][p] = metadata[h][p] \/ metadata'[h][p] = R[p]
      BY <1>1
    <2> QED  BY <1>2, <2>1, <2>2
  <1> QED  BY <1>1, <1>2, <1>3

(* What was captured stays older than the last revision.                   *)
LEMMA CapturedKeeps ==
    ASSUME EffectTypes, RevisionsFit, revision' \in Nat, revision' >= revision, Jobs' = Jobs,
           \A j \in Jobs : SameWork(effects[j], effects'[j]), payload' = payload,
           \A h \in EffectIdentities, p \in Paths : metadata'[h][p] <= revision'
    PROVE  RevisionsFit'
  <1>1. \A x : Captured(x) /\ x.source \in Nat /\ x.destination \in Nat
                   => x.source <= revision' /\ x.destination <= revision'
    BY DEF EffectTypes, Captured
  <1>2. \A j \in Jobs' : Captured(effects[j])'
    BY <1>1, JobFields DEF RevisionsFit, Captured, SameWork
  <1>3. \A c \in Commits : payload[c] \in PayloadRecords
                          => payload[c].source \in Nat /\ payload[c].destination \in Nat
    BY DEF PayloadRecords
  <1>4. \A c \in Commits : payload'[c] \in PayloadRecords => Captured(payload[c])'
    BY <1>1, <1>3 DEF RevisionsFit, Captured
  <1> QED  BY <1>2, <1>4 DEF RevisionsFit

(* The metadata commits: the rows move and the job is marked as applied.   *)
LEMMA MoveRowsKeeps ==
    ASSUME EffectInv, NEW a \in Actors, MoveRows(a)
    PROVE  EffectInv'
  <1> SUFFICES ASSUME NEW j, j = actor[a].job, NEW i, i = effects[j].identity,
                      NEW y, y = WithState(effects[j], "applied")
               PROVE  EffectInv'
    OBVIOUS
  <1>1. EffectTypes /\ RevisionsFit /\ Holds(a) /\ KnowsJob(a) /\ actor[a].step = "move"
    BY DEF EffectInv, Knows, MoveRows, At
  <1>2. j \in Jobs /\ j \in Nat /\ i \in EffectIdentities
        /\ effects[j].from \in Paths /\ effects[j].to \in Paths /\ effects[j] \in JobRecords
        /\ effects[j].events \in Nat /\ effects[j].lost \in Nat
    BY <1>1, JobNumbers, JobFields DEF Holds, AtHand, WorkSteps
  <1>3. /\ holder[i] = a /\ Pending(j) /\ NoneBefore(j)
        /\ effects[j].state = "pending" /\ ~effects[j].superseded
    BY <1>1 DEF Holds, KnowsJob, Owning, Applying
  <1>4. /\ y \in JobRecords /\ SameWork(effects[j], y)
        /\ y.state = "applied" /\ y.events = effects[j].events /\ y.lost = effects[j].lost
    BY <1>2, StateChanges DEF JobStates
  <1>5. /\ Goes(a, "again", j) /\ IdentityFreed(i) /\ UNCHANGED <<account, payload>>
        /\ metadata' = IF Matches(j)
                       THEN [metadata EXCEPT
                                ![i] = Moved(metadata[i], effects[j].from, effects[j].to)]
                       ELSE metadata
        /\ revision' = IF Matches(j) THEN revision + 1 ELSE revision
        /\ effects' = [effects EXCEPT ![j] = y]
    BY DEF MoveRows, WithState
  <1>6. BecomesJob(j, y)
    BY <1>1, <1>2, <1>4, <1>5, JobBecomes
  <1>7. KeepsLocks(a)
    BY <1>1, <1>2, <1>3, <1>5, FreesLocks
  <1>8. /\ actor' \in [Actors -> ActorRecords] /\ actor'[a].step = "again" /\ actor'[a].job = j
        /\ \A b \in Actors : b # a => actor'[b] = actor[b]
    BY <1>1, <1>2, <1>5, ActorGoes DEF WorkSteps
  <1>9. Knows(a)'
    BY <1>2, <1>6, <1>8, KnowsLittle DEF BecomesJob, CommitSteps
  <1>10. effects[j].from \in Paths /\ effects[j].to \in Paths
    BY <1>1, <1>2, JobFields
  <1>11. /\ metadata' \in [EffectIdentities -> [Paths -> Nat]] /\ revision' \in Nat
         /\ revision' >= revision
         /\ \A h \in EffectIdentities : h # i => metadata'[h] = metadata[h]
         /\ \A h \in EffectIdentities, p \in Paths : metadata'[h][p] <= revision'
    <2>1. CASE Matches(j)
      <3> PICK R : R = Moved(metadata[i], effects[j].from, effects[j].to)
        OBVIOUS
      <3>1. /\ metadata[i] \in [Paths -> Nat] /\ revision \in Nat
            /\ \A p \in Paths : metadata[i][p] <= revision
        BY <1>1, <1>2 DEF EffectTypes, RevisionsFit
      <3>2. R \in [Paths -> Nat] /\ \A p \in Paths : R[p] <= revision + 1
        BY <1>10, <3>1, MovedRows
      <3>3. metadata' = [metadata EXCEPT ![i] = R] /\ revision' = revision + 1
        BY <1>5, <2>1
      <3> QED  BY <1>1, <1>2, <3>2, <3>3, RowsBecome
    <2>2. CASE ~Matches(j)
      BY <1>1, <1>5, <2>2 DEF EffectTypes, RevisionsFit
    <2> QED  BY <2>1, <2>2
  <1>12. EffectTypes'
    BY <1>1, <1>5, <1>6, <1>7, <1>8, <1>11 DEF EffectTypes, KeepsLocks, BecomesJob
  <1>13. RevisionsFit'
    <2>1. \A k \in Jobs : SameWork(effects[k], effects'[k])
      BY <1>4, <1>6 DEF BecomesJob, SameWork
    <2> QED  BY <1>1, <1>5, <1>6, <1>11, <2>1, CapturedKeeps DEF BecomesJob
  <1>14. \A b \in Actors : b # a => Undisturbed(b)
    BY <1>1, <1>2, <1>3, <1>5, <1>6, <1>7, <1>8, <1>11, HolderLeavesOthers
  <1>15. ~At(a, "complete") /\ ~Completing(j)
    BY <1>1, <1>2, <1>3, OnlyHolderCompletes DEF At
  <1>16. effects[j].events <= effects[j].lost
    BY <1>2, <1>3, <1>15 DEF EffectInv, AnnouncedOnce
  <1>17. y.events <= 1 + y.lost
    BY <1>2, <1>4, <1>16
  <1> QED  BY <1>2, <1>3, <1>4, <1>6, <1>9, <1>12, <1>13, <1>14, <1>15, <1>16, <1>17, JobStepKeeps

(* What else the holder does to its job leaves rows and revisions alone.   *)
LEMMA HolderTypes ==
    ASSUME EffectInv, NEW a \in Actors, NEW j \in Jobs, NEW y \in JobRecords, BecomesJob(j, y),
           KeepsLocks(a), UNCHANGED <<metadata, revision, account, payload>>,
           actor' \in [Actors -> ActorRecords]
    PROVE  EffectTypes' /\ RevisionsFit'
  <1>1. EffectTypes /\ RevisionsFit
    BY DEF EffectInv
  <1>2. EffectTypes'
    BY <1>1 DEF EffectTypes, KeepsLocks, BecomesJob
  <1>3. RevisionsFit'
    BY <1>1 DEF RevisionsFit, Captured, BecomesJob, SameWork
  <1> QED  BY <1>2, <1>3

(***************************************************************************)
(* The event is announced inside the transaction that will complete the    *)
(* job: one announcement more than were lost, until it commits or breaks.  *)
(***************************************************************************)
LEMMA PublishKeeps ==
    ASSUME EffectInv, NEW a \in Actors, PublishEvent(a)
    PROVE  EffectInv'
  <1> SUFFICES ASSUME NEW j, j = actor[a].job, NEW i, i = effects[j].identity,
                      NEW y, y = WithEvent(effects[j])
               PROVE  EffectInv'
    OBVIOUS
  <1>1. EffectTypes /\ Holds(a) /\ KnowsJob(a) /\ actor[a].step = "publish"
    BY DEF EffectInv, Knows, PublishEvent, At
  <1>2. j \in Jobs /\ j \in Nat /\ i \in EffectIdentities /\ effects[j] \in JobRecords
        /\ effects[j].events \in Nat /\ effects[j].lost \in Nat
    BY <1>1, JobNumbers, JobFields DEF Holds, AtHand, WorkSteps
  <1>3. holder[i] = a /\ Pending(j) /\ NoneBefore(j) /\ effects[j].state = "applied"
    BY <1>1 DEF Holds, KnowsJob, Owning, Announcing
  <1>4. /\ y \in JobRecords /\ SameWork(effects[j], y)
        /\ y.state = "applied" /\ y.events = effects[j].events + 1 /\ y.lost = effects[j].lost
    BY <1>2, <1>3, EventChanges
  <1>5. /\ Goes(a, "complete", j) /\ UNCHANGED <<holder, rowLocks>>
        /\ UNCHANGED <<metadata, revision, account, payload>>
        /\ effects' = [effects EXCEPT ![j] = y]
    BY DEF PublishEvent, WithEvent
  <1>6. BecomesJob(j, y) /\ KeepsLocks(a)
    BY <1>1, <1>2, <1>4, <1>5, JobBecomes, LocksUnchanged
  <1>7. /\ actor' \in [Actors -> ActorRecords] /\ actor'[a].step = "complete" /\ actor'[a].job = j
        /\ \A b \in Actors : b # a => actor'[b] = actor[b]
    BY <1>1, <1>2, <1>5, ActorGoes DEF WorkSteps
  <1>8. ~At(a, "complete") /\ ~Completing(j) /\ Completing(j)'
    BY <1>1, <1>2, <1>3, <1>7, OnlyHolderCompletes DEF At, Completing
  <1>9. effects[j].events <= effects[j].lost
    BY <1>2, <1>3, <1>8 DEF EffectInv, AnnouncedOnce
  <1>10. y.events <= 1 + y.lost /\ y.events > 0
    BY <1>2, <1>4, <1>9
  <1>11. /\ effects'[j] = y /\ y.identity = i
         /\ \A k \in Jobs : k # j => effects'[k] = effects[k]
    BY <1>4, <1>6 DEF BecomesJob, SameWork
  <1>12. Knows(a)'
    <2>1. Holds(a)'
      BY <1>2, <1>3, <1>5, <1>6, <1>7, <1>11
         DEF Holds, At, AtHand, WorkSteps, Owning, Applying, Announcing, BecomesJob
    <2>2. NoneBefore(j)'
      <3> SUFFICES ASSUME NEW k \in 1..(j - 1), effects'[k].identity = i PROVE ~Pending(k)'
        BY <1>11 DEF NoneBefore
      <3>1. k \in Jobs /\ k # j
        BY <1>1, <1>2, JobNumbers
      <3>2. ~Pending(k)
        BY <1>3, <1>11, <3>1 DEF NoneBefore
      <3> QED  BY <1>11, <3>1, <3>2 DEF Pending
    <2>3. KnowsJob(a)' /\ KnowsRows(a)' /\ KnowsPayload(a)'
      BY <1>4, <1>7, <1>10, <1>11, <2>2
         DEF KnowsJob, KnowsRows, KnowsPayload, At, Owning, Applying, Announcing,
             Pending, CommitSteps
    <2> QED  BY <2>1, <2>3 DEF Knows
  <1>13. EffectTypes' /\ RevisionsFit'
    BY <1>2, <1>4, <1>5, <1>6, <1>7, HolderTypes
  <1>14. \A b \in Actors : b # a => Undisturbed(b)
    BY <1>1, <1>2, <1>3, <1>5, <1>6, <1>7, HolderLeavesOthers
  <1> QED  BY <1>2, <1>3, <1>4, <1>6, <1>8, <1>10, <1>12, <1>13, <1>14, JobStepKeeps

(***************************************************************************)
(* The job is completed, or retired because its identity has another       *)
(* account.                                                                *)
(***************************************************************************)
LEMMA SettleKeeps ==
    ASSUME EffectInv, NEW a \in Actors, SettleEffect(a)
    PROVE  EffectInv'
  <1> SUFFICES ASSUME NEW j, j = actor[a].job, NEW i, i = effects[j].identity,
                      NEW s, s = IF At(a, "complete") THEN "completed" ELSE "retired",
                      NEW y, y = WithState(effects[j], s)
               PROVE  EffectInv'
    OBVIOUS
  <1>1. EffectTypes /\ Holds(a) /\ KnowsJob(a) /\ actor[a].step \in {"complete", "retire"}
    BY DEF EffectInv, Knows, SettleEffect, At
  <1>2. j \in Jobs /\ j \in Nat /\ i \in EffectIdentities /\ effects[j] \in JobRecords
        /\ effects[j].events \in Nat /\ effects[j].lost \in Nat
    BY <1>1, JobNumbers, JobFields DEF Holds, AtHand, WorkSteps
  <1>3. /\ holder[i] = a /\ Pending(j) /\ NoneBefore(j)
        /\ At(a, "complete") => effects[j].events > 0
    BY <1>1 DEF Holds, KnowsJob, Owning, Announcing
  <1>4. /\ y \in JobRecords /\ SameWork(effects[j], y) /\ s \in {"completed", "retired"}
        /\ y.state = s /\ y.events = effects[j].events /\ y.lost = effects[j].lost
    BY <1>2, StateChanges DEF JobStates
  <1>5. /\ Goes(a, "next", 0) /\ IdentityFreed(i)
        /\ UNCHANGED <<metadata, revision, account, payload>>
        /\ effects' = [effects EXCEPT ![j] = y]
    BY DEF SettleEffect, WithState
  <1>6. BecomesJob(j, y) /\ KeepsLocks(a)
    BY <1>1, <1>2, <1>3, <1>4, <1>5, JobBecomes, FreesLocks
  <1>7. /\ actor' \in [Actors -> ActorRecords] /\ actor'[a].step = "next" /\ actor'[a].job = 0
        /\ \A b \in Actors : b # a => actor'[b] = actor[b]
    BY <1>1, <1>5, ActorGoes DEF WorkSteps
  <1>8. Knows(a)'
    BY <1>7, KnowsLittle DEF CommitSteps
  <1>9. EffectTypes' /\ RevisionsFit'
    BY <1>2, <1>4, <1>5, <1>6, <1>7, HolderTypes
  <1>10. \A b \in Actors : b # a => Undisturbed(b)
    BY <1>1, <1>2, <1>3, <1>5, <1>6, <1>7, HolderLeavesOthers
  <1>11. effects[j].events <= 1 + effects[j].lost
    BY <1>2 DEF EffectInv, EventFollowsMetadata
  <1>12. s = "retired" => effects[j].events <= effects[j].lost
    <2> SUFFICES ASSUME s = "retired" PROVE effects[j].events <= effects[j].lost
      OBVIOUS
    <2>1. ~Completing(j)
      BY <1>2, <1>3, OnlyHolderCompletes
    <2>2. effects[j].state # "completed"
      BY <1>3 DEF Pending
    <2> QED  BY <1>2, <2>1, <2>2 DEF EffectInv, AnnouncedOnce
  <1>13. /\ y.events > 0 => y.state # "pending"
         /\ y.state = "completed" => y.events > 0
         /\ y.events <= 1 + y.lost
         /\ y.state # "completed" => y.events <= y.lost
         /\ y.state \notin {"pending", "applied"}
    BY <1>3, <1>4, <1>11, <1>12
  <1> QED  BY <1>2, <1>3, <1>4, <1>6, <1>8, <1>9, <1>10, <1>13, JobStepKeeps

(* A transaction breaks, with or without its process.                      *)
LEMMA BreakdownsKeep ==
    ASSUME EffectInv, NEW a \in Actors, Break(a) \/ Crash(a)
    PROVE  EffectInv'
  <1> SUFFICES ASSUME NEW j, j = actor[a].job, NEW i, i = effects[j].identity
               PROVE  EffectInv'
    OBVIOUS
  <1>1. /\ EffectTypes /\ Holds(a) /\ KnowsJob(a) /\ EventLost(a) /\ RolledBack(a)
        /\ UNCHANGED <<metadata, revision, account, payload>>
    BY DEF EffectInv, Knows, Break, Crash
  <1>2. PICK s \in {"broken", "gone", "next"}, n \in {0, j} :
            /\ Goes(a, s, n)
            /\ s = "broken" => n = j /\ InTransaction(a)
            /\ s = "gone" => a \in Commits
            /\ s # "broken" => n = 0
    BY DEF Break, Crash
  <1>3. InTransaction(a) \/ At(a, "complete") => j \in Jobs /\ j \in Nat /\ i \in EffectIdentities
    BY <1>1, JobNumbers, JobFields DEF Holds, InTransaction, At, AtHand, WorkSteps
  <1>4. n \in Nat /\ s \in WorkSteps \union CommitSteps
    BY <1>2, <1>3 DEF WorkSteps, CommitSteps
  <1>5. /\ actor' \in [Actors -> ActorRecords] /\ actor'[a].step = s /\ actor'[a].job = n
        /\ \A b \in Actors : b # a => actor'[b] = actor[b]
    BY <1>1, <1>2, <1>4, ActorGoes
  <1>6. KeepsLocks(a)
    <2>1. CASE InTransaction(a) /\ holder[i] = a
      BY <1>1, <1>3, <2>1, FreesLocks DEF RolledBack
    <2>2. CASE ~(InTransaction(a) /\ holder[i] = a)
      BY <1>1, <2>2, LocksUnchanged DEF RolledBack
    <2> QED  BY <2>1, <2>2
  <1>7. Jobs' = Jobs => Knows(a)'
    BY <1>2, <1>3, <1>5, KnowsLittle DEF CommitSteps
  <1>8. CASE ~At(a, "complete")
    <2>1. SameJobs
      BY <1>1, <1>8, UnchangedJobs DEF EventLost
    <2> QED  BY <1>1, <1>2, <1>4, <1>6, <1>7, <1>8, <2>1, MovesKeep DEF SameJobs
  <1>9. CASE At(a, "complete")
    <2> SUFFICES ASSUME NEW y, y = WithLoss(effects[j]) PROVE EffectInv'
      OBVIOUS
    <2>1. /\ j \in Jobs /\ effects[j] \in JobRecords /\ effects[j].events \in Nat
          /\ effects[j].lost \in Nat
      BY <1>1, <1>3, <1>9, JobNumbers, JobFields
    <2>2. holder[i] = a /\ Pending(j) /\ NoneBefore(j) /\ effects[j].state = "applied"
      BY <1>1, <1>9 DEF Holds, KnowsJob, Owning, Announcing, At
    <2>3. /\ y \in JobRecords /\ SameWork(effects[j], y)
          /\ y.state = "applied" /\ y.events = effects[j].events /\ y.lost = effects[j].lost + 1
      BY <2>1, <2>2, LossChanges
    <2>4. effects' = [effects EXCEPT ![j] = y]
      BY <1>1, <1>9 DEF EventLost, WithLoss
    <2>5. BecomesJob(j, y)
      BY <1>1, <2>1, <2>3, <2>4, JobBecomes
    <2>6. EffectTypes' /\ RevisionsFit' /\ Knows(a)'
      BY <1>1, <1>5, <1>6, <1>7, <2>1, <2>3, <2>5, HolderTypes DEF BecomesJob
    <2>7. \A b \in Actors : b # a => Undisturbed(b)
      BY <1>1, <1>5, <1>6, <2>1, <2>2, <2>5, HolderLeavesOthers
    <2>8. effects[j].events <= 1 + effects[j].lost
      BY <2>1 DEF EffectInv, EventFollowsMetadata
    <2>9. y.events <= y.lost /\ y.events <= 1 + y.lost
      BY <2>1, <2>3, <2>8
    <2> QED  BY <2>1, <2>2, <2>3, <2>5, <2>6, <2>7, <2>9, JobStepKeeps
  <1> QED  BY <1>8, <1>9

(* A job is put off, which changes neither its state nor its events.       *)
LEMMA BecomesSame ==
    ASSUME EffectTypes, NEW j \in Jobs, NEW y, BecomesJob(j, y),
           y.state = effects[j].state, y.superseded = effects[j].superseded,
           y.events = effects[j].events, y.lost = effects[j].lost
    PROVE  SameJobs
  BY DEF SameJobs, BecomesJob, SameWork

(***************************************************************************)
(* After a refused or broken transaction only the delay of the job         *)
(* changes.                                                                *)
(***************************************************************************)
LEMMA PutOffKeeps ==
    ASSUME EffectInv, NEW a \in Actors, PutOff(a)
    PROVE  EffectInv'
  <1> SUFFICES ASSUME NEW j, j = actor[a].job, NEW y, y = WithDelay(effects[j], At(a, "refused"))
               PROVE  EffectInv'
    OBVIOUS
  <1>1. EffectTypes /\ Holds(a) /\ actor[a].step \in {"refused", "broken"}
    BY DEF EffectInv, Knows, PutOff, At
  <1>2. j \in Jobs /\ effects[j] \in JobRecords
    BY <1>1, JobNumbers DEF Holds, AtHand, WorkSteps
  <1>3. /\ Goes(a, "next", 0) /\ UNCHANGED <<metadata, revision, account, payload>>
        /\ UNCHANGED <<holder, rowLocks>>
    BY DEF PutOff
  <1>4. effects' = effects \/ effects' = [effects EXCEPT ![j] = y]
    BY DEF PutOff, WithDelay
  <1>5. SameJobs
    <2>1. CASE effects' = effects
      BY <1>1, <2>1, UnchangedJobs
    <2>2. CASE effects' = [effects EXCEPT ![j] = y]
      <3>1. At(a, "refused") \in BOOLEAN
        BY DEF At
      <3>2. /\ y \in JobRecords /\ SameWork(effects[j], y)
            /\ y.state = effects[j].state /\ y.superseded = effects[j].superseded
            /\ y.events = effects[j].events /\ y.lost = effects[j].lost
        BY <1>2, <3>1, DelayChanges
      <3> QED  BY <1>1, <1>2, <2>2, <3>2, JobBecomes, BecomesSame
    <2> QED  BY <1>4, <2>1, <2>2
  <1>6. actor'[a].step = "next" /\ actor'[a].job = 0
    BY <1>1, <1>3, ActorGoes DEF WorkSteps
  <1>7. Knows(a)' /\ KeepsLocks(a) /\ ~At(a, "complete")
    BY <1>1, <1>3, <1>6, KnowsLittle, LocksUnchanged DEF CommitSteps, At
  <1> QED  BY <1>3, <1>5, <1>7, MovesKeep DEF WorkSteps

------------------------------------------------------------------------------
(***************************************************************************)
(* Steps of no actor: whatever the others see changes in a way that leaves *)
(* each actor undisturbed.                                                 *)
(***************************************************************************)
LEMMA UndisturbedKeeps ==
    ASSUME EffectInv, EffectTypes', RevisionsFit', Jobs' = Jobs, actor' = actor,
           \A b \in Actors : Undisturbed(b),
           \A j \in Jobs : /\ SameWork(effects[j], effects'[j])
                           /\ effects'[j].state = effects[j].state
                           /\ effects'[j].events = effects[j].events
                           /\ effects'[j].lost = effects[j].lost
    PROVE  EffectInv'
  <1>1. \A a \in Actors : Knows(a)'
    BY UndisturbedKnows
  <1>2. \A j \in Jobs : Completing(j) => Completing(j)'
    BY DEF Completing, At
  <1> QED  BY <1>1, <1>2, SameQueueKeeps DEF SameWork

(* A retry delay passes.                                                   *)
LEMMA RetryKeeps ==
    ASSUME EffectInv, NEW j \in Jobs, RetryDue(j)
    PROVE  EffectInv'
  <1> SUFFICES ASSUME NEW y, y = WithoutDelay(effects[j]) PROVE EffectInv'
    OBVIOUS
  <1>1. EffectTypes /\ RevisionsFit /\ effects[j] \in JobRecords
    BY JobNumbers DEF EffectInv
  <1>2. /\ effects' = [effects EXCEPT ![j] = y] /\ actor' = actor
        /\ UNCHANGED <<metadata, revision, account, payload, holder, rowLocks>>
    BY DEF RetryDue, WithoutDelay
  <1>3. SameJobs
    <2>1. /\ y \in JobRecords /\ SameWork(effects[j], y)
          /\ y.state = effects[j].state /\ y.superseded = effects[j].superseded
          /\ y.events = effects[j].events /\ y.lost = effects[j].lost
      BY <1>1, UndelayChanges
    <2> QED  BY <1>1, <1>2, <2>1, JobBecomes, BecomesSame
  <1>4. EffectTypes'
    BY <1>1, <1>2, <1>3 DEF EffectTypes, SameJobs
  <1>5. RevisionsFit'
    BY <1>1, <1>2, <1>3 DEF RevisionsFit, Captured, SameJobs, SameWork
  <1>6. \A b \in Actors : Undisturbed(b)
    BY <1>2, <1>3 DEF Undisturbed, SameJobs, RowsEdited, Pending
  <1> QED  BY <1>2, <1>3, <1>4, <1>5, <1>6, UndisturbedKeeps DEF SameJobs

(* A row is edited, if it is not locked, or inserted.                      *)
LEMMA EditKeeps ==
    ASSUME EffectInv, NEW i \in EffectIdentities, NEW p \in Paths, Edit(i, p)
    PROVE  EffectInv'
  <1> SUFFICES ASSUME NEW R, R = [metadata[i] EXCEPT ![p] = revision + 1] PROVE EffectInv'
    OBVIOUS
  <1>1. /\ EffectTypes /\ RevisionsFit /\ revision \in Nat /\ metadata[i] \in [Paths -> Nat]
        /\ \A q \in Paths : metadata[i][q] <= revision
    BY DEF EffectInv, EffectTypes, RevisionsFit
  <1>2. /\ metadata' = [metadata EXCEPT ![i] = R] /\ revision' = revision + 1 /\ actor' = actor
        /\ effects' = effects /\ UNCHANGED <<account, payload, holder, rowLocks>>
        /\ holder[i] = Nobody \/ (metadata[i][p] # 0 /\ p \notin rowLocks[i])
    BY DEF Edit
  <1>3. /\ R \in [Paths -> Nat] /\ R[p] = revision + 1
        /\ \A q \in Paths : q # p => R[q] = metadata[i][q]
    <2>1. revision + 1 \in Nat
      BY <1>1
    <2> QED  BY <1>1, <2>1
  <1>4. \A q \in Paths : R[q] <= revision + 1
    <2> SUFFICES ASSUME NEW q \in Paths PROVE R[q] <= revision + 1
      OBVIOUS
    <2>1. metadata[i][q] \in Nat /\ metadata[i][q] <= revision
      BY <1>1
    <2> QED  BY <1>1, <1>3, <2>1
  <1>5. /\ metadata' \in [EffectIdentities -> [Paths -> Nat]] /\ metadata'[i] = R
        /\ \A h \in EffectIdentities : h # i => metadata'[h] = metadata[h]
        /\ revision' \in Nat /\ revision' >= revision
        /\ \A h \in EffectIdentities, q \in Paths : metadata'[h][q] <= revision'
    BY <1>1, <1>2, <1>3, <1>4, RowsBecome
  <1>6. SameJobs
    BY <1>1, <1>2, UnchangedJobs
  <1>7. EffectTypes' /\ RevisionsFit'
    <2>1. EffectTypes'
      BY <1>1, <1>2, <1>5 DEF EffectTypes
    <2> QED  BY <1>1, <1>2, <1>5, <1>6, <2>1, CapturedKeeps DEF SameJobs
  <1>8. R[p] > revision
    BY <1>1, <1>3
  <1>9. \A b \in Actors : Undisturbed(b)
    <2> SUFFICES ASSUME NEW b \in Actors PROVE Undisturbed(b)
      OBVIOUS
    <2>1. b # Nobody
      BY ActorsAssumption
    <2>2. \A h \in EffectIdentities : holder[h] = b => RowsEdited(h)
      BY <1>2, <1>3, <1>5, <1>8, <2>1 DEF RowsEdited
    <2> QED  BY <1>2, <1>6, <2>2 DEF Undisturbed, SameJobs, Pending
  <1> QED  BY <1>2, <1>6, <1>7, <1>9, UndisturbedKeeps DEF SameJobs

(* A path change marks jobs of its identity, all others stay.              *)
LEMMA SupersededJobs ==
    ASSUME EffectTypes, NEW i \in EffectIdentities, NEW touched, NEW exempt,
           effects' = Superseded(i, touched, exempt)
    PROVE  /\ effects' \in Seq(JobRecords) /\ Jobs' = Jobs
           /\ \A j \in Jobs :
                  /\ SameWork(effects[j], effects'[j])
                  /\ effects'[j].state = effects[j].state
                  /\ effects'[j].events = effects[j].events
                  /\ effects'[j].lost = effects[j].lost
                  /\ effects[j].identity # i => effects'[j].superseded = effects[j].superseded
  <1>1. ASSUME NEW j \in Jobs
        PROVE  /\ effects'[j] \in JobRecords
               /\ SameWork(effects[j], effects'[j])
               /\ effects'[j].state = effects[j].state
               /\ effects'[j].events = effects[j].events
               /\ effects'[j].lost = effects[j].lost
               /\ effects[j].identity # i => effects'[j].superseded = effects[j].superseded
    <2> PICK marked \in BOOLEAN :
             /\ marked = (/\ effects[j].state = "pending" /\ Moves(effects[j])
                          /\ effects[j].identity = i
                          /\ effects[j].to \in touched
                          /\ <<effects[j].from, effects[j].to>> \notin exempt)
      OBVIOUS
    <2>1. effects'[j] = WithMark(effects[j], marked)
      BY DEF Superseded, WithMark
    <2>2. effects[j] \in JobRecords /\ effects[j].superseded \in BOOLEAN
      BY JobNumbers, JobFields
    <2>3. effects[j].identity # i => marked = FALSE
      OBVIOUS
    <2>4. /\ WithMark(effects[j], marked) \in JobRecords
          /\ SameWork(effects[j], WithMark(effects[j], marked))
          /\ WithMark(effects[j], marked).state = effects[j].state
          /\ WithMark(effects[j], marked).events = effects[j].events
          /\ WithMark(effects[j], marked).lost = effects[j].lost
          /\ WithMark(effects[j], marked).superseded = (effects[j].superseded \/ marked)
      BY <2>2, MarkChanges
    <2>5. marked = FALSE => (effects[j].superseded \/ marked) = effects[j].superseded
      BY <2>2
    <2> QED  BY <2>1, <2>3, <2>4, <2>5
  <1>2. Jobs' = Jobs
    BY DEF Jobs, Superseded
  <1>3. effects' \in [1..Len(effects) -> JobRecords] /\ Len(effects) \in Nat
    BY <1>1, JobNumbers DEF Superseded
  <1>4. [1..Len(effects) -> JobRecords] \subseteq Seq(JobRecords)
    BY <1>3, SeqDef
  <1> QED  BY <1>1, <1>2, <1>3, <1>4

(* The rows of an identity nobody holds change and its jobs are marked.    *)
LEMMA PathChangeKeeps ==
    ASSUME EffectInv, NEW i \in EffectIdentities, holder[i] = Nobody, NEW R \in [Paths -> Nat],
           metadata' = [metadata EXCEPT ![i] = R], revision' \in {revision, revision + 1},
           \A p \in Paths : R[p] <= revision',
           NEW touched, NEW exempt, effects' = Superseded(i, touched, exempt),
           actor' = actor, UNCHANGED <<account, payload, holder, rowLocks>>
    PROVE  EffectInv'
  <1>1. EffectTypes /\ RevisionsFit
    BY DEF EffectInv
  <1>2. /\ effects' \in Seq(JobRecords) /\ Jobs' = Jobs
        /\ \A j \in Jobs :
               /\ SameWork(effects[j], effects'[j])
               /\ effects'[j].state = effects[j].state
               /\ effects'[j].events = effects[j].events
               /\ effects'[j].lost = effects[j].lost
               /\ effects[j].identity # i => effects'[j].superseded = effects[j].superseded
    BY <1>1, SupersededJobs
  <1>3. /\ metadata' \in [EffectIdentities -> [Paths -> Nat]]
        /\ \A h \in EffectIdentities : h # i => metadata'[h] = metadata[h]
        /\ revision' \in Nat /\ revision' >= revision
        /\ \A h \in EffectIdentities, p \in Paths : metadata'[h][p] <= revision'
    BY <1>1, RowsBecome
  <1>4. EffectTypes'
    BY <1>1, <1>2, <1>3 DEF EffectTypes
  <1>5. RevisionsFit'
    BY <1>1, <1>2, <1>3, CapturedKeeps
  <1>6. ASSUME NEW b \in Actors PROVE Undisturbed(b)
    <2>1. b # Nobody
      BY ActorsAssumption
    <2>2. \A h \in EffectIdentities : holder[h] = b => RowsEdited(h)
      BY <1>3, <2>1 DEF RowsEdited
    <2>3. \A j \in Jobs : holder[effects[j].identity] = b => effects[j].identity # i
      BY <2>1
    <2> QED  BY <1>2, <2>2, <2>3 DEF Undisturbed, Pending
  <1> QED  BY <1>2, <1>4, <1>5, <1>6, UndisturbedKeeps

(* A path is moved or deleted by another client.                           *)
LEMMA PathStepsKeep ==
    ASSUME EffectInv, NEW i \in EffectIdentities, NEW p \in Paths, NEW q \in Paths,
           MovePath(i, p, q) \/ DeletePath(i, p)
    PROVE  EffectInv'
  <1>1. /\ revision \in Nat /\ metadata[i] \in [Paths -> Nat]
        /\ \A r \in Paths : metadata[i][r] <= revision
    BY DEF EffectInv, EffectTypes, RevisionsFit
  <1>2. CASE MovePath(i, p, q)
    <2> PICK R : R = Moved(metadata[i], p, q)
      OBVIOUS
    <2>1. R \in [Paths -> Nat] /\ \A r \in Paths : R[r] <= revision + 1
      BY <1>1, MovedRows
    <2>2. /\ metadata' = [metadata EXCEPT ![i] = R] /\ revision' = revision + 1 /\ actor' = actor
          /\ effects' = Superseded(i, {p, q}, {<<p, q>>}) /\ holder[i] = Nobody
          /\ UNCHANGED <<account, payload, holder, rowLocks>>
      BY <1>2 DEF MovePath
    <2> QED  BY <2>1, <2>2, PathChangeKeeps
  <1>3. CASE DeletePath(i, p)
    <2> PICK R : R = [metadata[i] EXCEPT ![p] = 0]
      OBVIOUS
    <2>1. R \in [Paths -> Nat] /\ \A r \in Paths : R[r] <= revision
      BY <1>1
    <2>2. /\ metadata' = [metadata EXCEPT ![i] = R] /\ revision' = revision /\ actor' = actor
          /\ effects' = Superseded(i, {p}, {}) /\ holder[i] = Nobody
          /\ UNCHANGED <<account, payload, holder, rowLocks>>
      BY <1>3 DEF DeletePath
    <2> QED  BY <2>1, <2>2, PathChangeKeeps
  <1> QED  BY <1>2, <1>3

(* An identity is linked to another account, or nothing happens.           *)
LEMMA RelinkKeeps ==
    ASSUME EffectInv, account' \in [EffectIdentities -> Nat],
           UNCHANGED <<effects, metadata, revision, holder, rowLocks, actor, payload>>
    PROVE  EffectInv'
  <1>1. EffectTypes /\ RevisionsFit
    BY DEF EffectInv
  <1>2. SameJobs
    BY <1>1, UnchangedJobs
  <1>3. EffectTypes' /\ RevisionsFit'
    BY <1>1 DEF EffectTypes, RevisionsFit, Captured, Jobs
  <1>4. \A b \in Actors : Undisturbed(b)
    BY <1>2 DEF Undisturbed, SameJobs, RowsEdited, Pending
  <1> QED  BY <1>2, <1>3, <1>4, UndisturbedKeeps DEF SameJobs

------------------------------------------------------------------------------
(* The steps of a commit.                                                  *)
LEMMA AdmissionKeeps ==
    ASSUME EffectInv, NEW c \in Commits, Begin(c) \/ Admit(c)
    PROVE  EffectInv'
  <1>1. EffectTypes /\ c \in Actors
    BY DEF EffectInv, Actors
  <1>2. /\ effects' = effects /\ UNCHANGED <<metadata, revision, account, payload>>
        /\ UNCHANGED <<holder, rowLocks>> /\ ~At(c, "complete")
    BY DEF Begin, Admit, queueVars, At
  <1>3. PICK s \in {"next", "gone", "capture"} : Goes(c, s, 0)
    <2>1. CASE Begin(c)
      BY <2>1 DEF Begin
    <2>2. CASE Admit(c) /\ \E j \in Jobs : Pending(j) /\ Serves(c, j)
      BY <2>2 DEF Admit
    <2>3. CASE Admit(c) /\ ~(\E j \in Jobs : Pending(j) /\ Serves(c, j))
      BY <2>3 DEF Admit
    <2> QED  BY <2>1, <2>2, <2>3
  <1>4. actor'[c].step = s /\ actor'[c].job = 0 /\ s \in WorkSteps \union CommitSteps
    BY <1>1, <1>3, ActorGoes DEF WorkSteps, CommitSteps
  <1>5. Knows(c)'
    BY <1>1, <1>4, KnowsLittle DEF CommitSteps
  <1>6. SameJobs /\ KeepsLocks(c)
    BY <1>1, <1>2, UnchangedJobs, LocksUnchanged
  <1> QED  BY <1>1, <1>2, <1>3, <1>4, <1>5, <1>6, MovesKeep

(* A commit captures the rows at both of its paths.                        *)
LEMMA CaptureKeeps ==
    ASSUME EffectInv, NEW c \in Commits, Capture(c)
    PROVE  EffectInv'
  <1> SUFFICES ASSUME NEW r, r = Rename[c], NEW held, held = metadata[r.identity],
                      NEW moves, moves = (r.from # r.to /\ held[r.from] # 0),
                      NEW x, x = IF moves THEN held[r.from] ELSE 0,
                      NEW y, y = IF moves THEN held[r.to] ELSE 0,
                      NEW p, p = [identity |-> r.identity, from |-> r.from, to |-> r.to,
                                  source |-> x, destination |-> y,
                                  account |-> account[r.identity]]
               PROVE  EffectInv'
    OBVIOUS
  <1>1. EffectTypes /\ RevisionsFit /\ c \in Actors /\ At(c, "capture")
    BY DEF EffectInv, Actors, Capture
  <1>2. /\ Goes(c, "storage", 0) /\ payload' = [payload EXCEPT ![c] = p]
        /\ UNCHANGED <<effects, metadata, revision, account, holder, rowLocks>>
    BY DEF Capture
  <1>3. /\ r.identity \in EffectIdentities /\ r.from \in Paths /\ r.to \in Paths
        /\ held[r.from] \in Nat /\ held[r.to] \in Nat /\ account[r.identity] \in Nat
        /\ held[r.from] <= revision /\ held[r.to] <= revision /\ revision \in Nat
    <2>1. r.identity \in EffectIdentities /\ r.from \in Paths /\ r.to \in Paths
      BY RenameAssumption DEF EffectIdentities
    <2> QED  BY <1>1, <2>1 DEF EffectTypes, RevisionsFit
  <1>4. x \in Nat /\ y \in Nat /\ x <= revision /\ y <= revision
    <2>1. x = held[r.from] \/ x = 0
      OBVIOUS
    <2>2. y = held[r.to] \/ y = 0
      OBVIOUS
    <2> QED  BY <1>3, <2>1, <2>2
  <1>5. p \in PayloadRecords /\ Captured(p)'
    BY <1>2, <1>3, <1>4 DEF PayloadRecords, Captured
  <1>6. /\ actor' \in [Actors -> ActorRecords] /\ actor'[c].step = "storage" /\ actor'[c].job = 0
        /\ \A b \in Actors : b # c => actor'[b] = actor[b]
    BY <1>1, <1>2, ActorGoes DEF CommitSteps
  <1>7. /\ payload' \in [Commits -> PayloadRecords \union {NoPayload}] /\ payload'[c] = p
        /\ \A b \in Commits : b # c => payload'[b] = payload[b]
    BY <1>1, <1>2, <1>5 DEF EffectTypes
  <1>8. EffectTypes'
    BY <1>1, <1>2, <1>6, <1>7 DEF EffectTypes
  <1>9. RevisionsFit'
    <2>1. \A b \in Commits : payload'[b] \in PayloadRecords => Captured(payload[b])'
      BY <1>1, <1>2, <1>5, <1>7 DEF RevisionsFit, Captured
    <2>2. (\A i \in EffectIdentities, q \in Paths : metadata[i][q] <= revision)'
      BY <1>1, <1>2 DEF RevisionsFit
    <2>3. (\A j \in Jobs : Captured(effects[j]))'
      BY <1>1, <1>2 DEF RevisionsFit, Captured, Jobs
    <2> QED  BY <2>1, <2>2, <2>3 DEF RevisionsFit
  <1>10. SameJobs
    BY <1>1, <1>2, UnchangedJobs
  <1>11. Knows(c)'
    <2>1. Holds(c)'
      BY <1>6 DEF Holds, At, AtHand, WorkSteps, Owning, Applying, Announcing
    <2>2. KnowsJob(c)' /\ KnowsRows(c)' /\ KnowsPayload(c)'
      BY <1>5, <1>6, <1>7
         DEF KnowsJob, KnowsRows, KnowsPayload, At, Owning, Applying, Announcing
    <2> QED  BY <2>1, <2>2 DEF Knows
  <1>12. \A a \in Actors : Knows(a)'
    <2> SUFFICES ASSUME NEW b \in Actors, b # c PROVE Knows(b)'
      BY <1>11
    <2>1. Undisturbed(b)
      BY <1>2, <1>6, <1>7, <1>10 DEF Undisturbed, SameJobs, RowsEdited, Pending
    <2> QED  BY <1>8, <2>1, UndisturbedKnows
  <1>13. \A j \in Jobs : Completing(j) => Completing(j)'
    BY <1>1, <1>6 DEF Completing, At
  <1> QED  BY <1>8, <1>9, <1>10, <1>12, <1>13, SameQueueKeeps DEF SameJobs, SameWork

(* A completed commit queues its job, behind all others.                   *)
LEMMA QueuedJobs ==
    ASSUME EffectTypes, NEW y \in JobRecords, effects' = Append(effects, y)
    PROVE  /\ effects' \in Seq(JobRecords) /\ Jobs' = Jobs \union {Len(effects) + 1}
           /\ Len(effects) + 1 \notin Jobs /\ effects'[Len(effects) + 1] = y
           /\ \A j \in Jobs : j <= Len(effects) /\ effects'[j] = effects[j]
  <1>1. effects \in Seq(JobRecords) /\ Jobs = 1..Len(effects) /\ Len(effects) \in Nat
    BY JobNumbers DEF EffectTypes
  <1>2. /\ effects' \in Seq(JobRecords) /\ Len(effects') = Len(effects) + 1
        /\ \A j \in 1..Len(effects) : effects'[j] = effects[j]
        /\ effects'[Len(effects) + 1] = y
    BY <1>1, AppendProperties
  <1>3. Jobs' = 1..(Len(effects) + 1)
    BY <1>2, LenProperties DEF Jobs
  <1> QED  BY <1>1, <1>2, <1>3

(* The job of a payload is pending and unannounced.                        *)
LEMMA NewJobs ==
    ASSUME NEW p \in PayloadRecords
    PROVE  /\ Job(p) \in JobRecords /\ Job(p).state = "pending" /\ Job(p).superseded = FALSE
           /\ Job(p).events = 0 /\ Job(p).lost = 0
           /\ Job(p).source = p.source /\ Job(p).destination = p.destination
  BY DEF PayloadRecords, JobRecords, Job, JobStates

(***************************************************************************)
(* A commit ends: its job, if the account is still the same, comes behind  *)
(* all others, so that it precedes none that is visible.                   *)
(***************************************************************************)
LEMMA CompletionKeeps ==
    ASSUME EffectInv, NEW c \in Commits, Complete(c)
    PROVE  EffectInv'
  <1> SUFFICES ASSUME NEW p, p = payload[c] PROVE EffectInv'
    OBVIOUS
  <1>1. /\ EffectTypes /\ RevisionsFit /\ c \in Actors /\ At(c, "storage")
        /\ p \in PayloadRecords /\ Captured(p)
    <2>1. EffectTypes /\ RevisionsFit /\ c \in Actors /\ At(c, "storage")
      BY DEF EffectInv, Actors, Complete
    <2>2. p \in PayloadRecords
      BY <2>1 DEF EffectInv, Knows, KnowsPayload
    <2> QED  BY <2>1, <2>2 DEF RevisionsFit
  <1>2. /\ Goes(c, "gone", 0) /\ payload' = [payload EXCEPT ![c] = NoPayload]
        /\ UNCHANGED <<metadata, revision, account, holder, rowLocks>>
        /\ effects' = Append(effects, Job(p)) \/ effects' = effects
    BY DEF Complete
  <1>3. /\ actor' \in [Actors -> ActorRecords] /\ actor'[c].step = "gone" /\ actor'[c].job = 0
        /\ \A b \in Actors : b # c => actor'[b] = actor[b]
    BY <1>1, <1>2, ActorGoes DEF CommitSteps
  <1>4. /\ payload' \in [Commits -> PayloadRecords \union {NoPayload}]
        /\ payload'[c] = NoPayload
        /\ \A b \in Commits : b # c => payload'[b] = payload[b]
    BY <1>1, <1>2 DEF EffectTypes
  <1>5. ASSUME NEW b \in Commits, payload'[b] \in PayloadRecords PROVE Captured(payload[b])'
    <2>1. NoPayload \notin PayloadRecords
      BY DEF NoPayload, PayloadRecords
    <2> QED  BY <1>1, <1>2, <1>4, <1>5, <2>1 DEF RevisionsFit, Captured
  <1>6. Knows(c)'
    BY <1>1, <1>3, KnowsLittle DEF CommitSteps
  <1>7. \A j : Completing(j)' <=> Completing(j)
    BY <1>1, <1>3 DEF Completing, At
  <1>8. CASE effects' = effects
    <2>1. SameJobs
      BY <1>1, <1>8, UnchangedJobs
    <2>2. EffectTypes' /\ RevisionsFit'
      BY <1>1, <1>2, <1>3, <1>4, <1>5, <1>8 DEF EffectTypes, RevisionsFit, Captured, Jobs
    <2>3. \A a \in Actors : Knows(a)'
      <3> SUFFICES ASSUME NEW b \in Actors, b # c PROVE Knows(b)'
        BY <1>6
      <3>1. Undisturbed(b)
        BY <1>2, <1>3, <1>4, <2>1 DEF Undisturbed, SameJobs, RowsEdited, Pending
      <3> QED  BY <2>2, <3>1, UndisturbedKnows
    <2> QED  BY <1>7, <2>1, <2>2, <2>3, SameQueueKeeps DEF SameJobs, SameWork
  <1>9. CASE effects' = Append(effects, Job(p))
    <2> PICK n : n = Len(effects) + 1
      OBVIOUS
    <2>1. /\ Job(p) \in JobRecords /\ Job(p).state = "pending"
          /\ Job(p).events = 0 /\ Job(p).lost = 0
          /\ Job(p).source = p.source /\ Job(p).destination = p.destination
      BY <1>1, NewJobs
    <2>2. /\ effects' \in Seq(JobRecords) /\ Jobs' = Jobs \union {n} /\ n \notin Jobs
          /\ effects'[n] = Job(p)
          /\ \A j \in Jobs : j < n /\ effects'[j] = effects[j]
      <3>1. Len(effects) \in Nat /\ \A j \in Jobs : j \in Nat
        BY <1>1, JobNumbers
      <3>2. /\ effects' \in Seq(JobRecords) /\ Jobs' = Jobs \union {n} /\ n \notin Jobs
            /\ effects'[n] = Job(p)
            /\ \A j \in Jobs : j <= Len(effects) /\ effects'[j] = effects[j]
        BY <1>1, <1>9, <2>1, QueuedJobs
      <3>3. \A j \in Jobs : j < n
        BY <3>1, <3>2
      <3> QED  BY <3>2, <3>3
    <2>3. EffectTypes'
      BY <1>1, <1>2, <1>3, <1>4, <2>2 DEF EffectTypes
    <2>4. RevisionsFit'
      <3>1. ASSUME NEW j \in Jobs' PROVE Captured(effects[j])'
        <4>1. CASE j \in Jobs
          BY <1>1, <1>2, <2>2, <4>1 DEF RevisionsFit, Captured
        <4>2. CASE j = n
          BY <1>1, <1>2, <2>1, <2>2, <4>2 DEF Captured
        <4> QED  BY <2>2, <4>1, <4>2
      <3>2. (\A i \in EffectIdentities, q \in Paths : metadata[i][q] <= revision)'
        BY <1>1, <1>2 DEF RevisionsFit
      <3> QED  BY <1>5, <3>1, <3>2 DEF RevisionsFit
    <2>5. \A a \in Actors : Knows(a)'
      <3> SUFFICES ASSUME NEW b \in Actors, b # c PROVE Knows(b)'
        BY <1>6
      <3>1. Undisturbed(b)
        BY <1>2, <1>3, <1>4, <2>2 DEF Undisturbed, SameWork, RowsEdited, Pending
      <3> QED  BY <2>3, <3>1, UndisturbedKnows
    <2>6. AnnouncedOnce'
      BY <1>7, <2>1, <2>2 DEF EffectInv, AnnouncedOnce
    <2>7. EventFollowsMetadata'
      BY <2>1, <2>2 DEF EffectInv, EventFollowsMetadata
    <2>8. EffectsInOrder'
      <3> SUFFICES ASSUME NEW j \in Jobs', NEW k \in Jobs', k < j,
                          effects'[k].identity = effects'[j].identity, Pending(k)'
                   PROVE  effects'[j].state = "pending" /\ effects'[j].events = 0
        BY DEF EffectsInOrder
      <3>1. CASE j = n
        BY <2>1, <2>2, <3>1
      <3>2. CASE j \in Jobs
        <4>1. k \in Jobs
          <5>1. k # n
            BY <1>1, <2>2, <3>2, JobNumbers
          <5> QED  BY <2>2, <5>1
        <4> QED  BY <2>2, <3>2, <4>1 DEF EffectInv, EffectsInOrder, Pending
      <3> QED  BY <2>2, <3>1, <3>2
    <2> QED  BY <2>3, <2>4, <2>5, <2>6, <2>7, <2>8 DEF EffectInv
  <1> QED  BY <1>2, <1>8, <1>9

------------------------------------------------------------------------------
(***************************************************************************)
(* The invariant holds at the start, every step keeps it, and so it always *)
(* holds.                                                                  *)
(***************************************************************************)
LEMMA EffectsStart == EffectInit => EffectInv
  <1> SUFFICES ASSUME EffectInit PROVE EffectInv
    OBVIOUS
  <1>1. EffectTypes
    <2>1. effects \in Seq(JobRecords) /\ revision \in Nat
      BY DEF EffectInit
    <2>2. metadata \in [EffectIdentities -> [Paths -> Nat]]
      BY DEF EffectInit
    <2>3. /\ account \in [EffectIdentities -> Nat]
          /\ holder \in [EffectIdentities -> Actors \union {Nobody}]
          /\ rowLocks \in [EffectIdentities -> SUBSET Paths]
          /\ payload \in [Commits -> PayloadRecords \union {NoPayload}]
      BY DEF EffectInit
    <2>4. actor \in [Actors -> ActorRecords]
      BY DEF EffectInit, ActorRecords, WorkSteps, CommitSteps
    <2> QED  BY <2>1, <2>2, <2>3, <2>4 DEF EffectTypes
  <1>2. Jobs = {}
    BY DEF EffectInit, Jobs
  <1>3. RevisionsFit
    <2>1. NoPayload \notin PayloadRecords
      BY DEF NoPayload, PayloadRecords
    <2>2. \A i \in EffectIdentities, p \in Paths : metadata[i][p] <= revision
      BY DEF EffectInit
    <2> QED  BY <1>2, <2>1, <2>2 DEF RevisionsFit, EffectInit
  <1>4. ASSUME NEW a \in Actors PROVE Knows(a)
    <2>1. /\ actor[a].step \in {"new", "next"} /\ actor[a].job = 0
          /\ actor[a].step = "new" => a \in Commits
      BY DEF EffectInit
    <2>2. Holds(a)
      BY <2>1 DEF Holds, At, AtHand, WorkSteps, Owning, Applying, Announcing
    <2>3. KnowsJob(a) /\ KnowsRows(a) /\ KnowsPayload(a)
      BY <2>1 DEF KnowsJob, KnowsRows, KnowsPayload, At, Owning, Applying, Announcing, CommitSteps
    <2> QED  BY <2>2, <2>3 DEF Knows
  <1> QED  BY <1>1, <1>2, <1>3, <1>4
           DEF EffectInv, AnnouncedOnce, EventFollowsMetadata, EffectsInOrder

LEMMA EffectsStep == EffectInv /\ [EffectNext]_effectVars => EffectInv'
  <1> SUFFICES ASSUME EffectInv, [EffectNext]_effectVars PROVE EffectInv'
    OBVIOUS
  <1>1. ASSUME NEW a \in Actors, Work(a) PROVE EffectInv'
    BY <1>1, SelectionsKeep, TakingKeeps, RowStepsKeep, MoveRowsKeeps, PublishKeeps, SettleKeeps,
       PutOffKeeps DEF Work
  <1>2. ASSUME NEW a \in Actors, Break(a) \/ Crash(a) PROVE EffectInv'
    BY <1>2, BreakdownsKeep
  <1>3. ASSUME NEW c \in Commits, CommitStep(c) PROVE EffectInv'
    BY <1>3, AdmissionKeeps, CaptureKeeps, CompletionKeeps DEF CommitStep
  <1>4. ASSUME NEW j \in Jobs, RetryDue(j) PROVE EffectInv'
    BY <1>4, RetryKeeps
  <1>5. ASSUME NEW i \in EffectIdentities, NEW p \in Paths, Edit(i, p) \/ DeletePath(i, p)
        PROVE  EffectInv'
    BY <1>5, EditKeeps, PathStepsKeep
  <1>6. ASSUME NEW i \in EffectIdentities, NEW p \in Paths, NEW q \in Paths, MovePath(i, p, q)
        PROVE  EffectInv'
    BY <1>6, PathStepsKeep
  <1>7. ASSUME NEW i \in EffectIdentities, Relink(i) PROVE EffectInv'
    <2>1. account' \in [EffectIdentities -> Nat]
      BY <1>7 DEF EffectInv, EffectTypes, Relink
    <2> QED  BY <1>7, <2>1, RelinkKeeps DEF Relink
  <1>8. ASSUME UNCHANGED effectVars PROVE EffectInv'
    <2>1. account' \in [EffectIdentities -> Nat]
      BY <1>8 DEF EffectInv, EffectTypes, effectVars
    <2> QED  BY <1>8, <2>1, RelinkKeeps DEF effectVars
  <1> QED  BY <1>1, <1>2, <1>3, <1>4, <1>5, <1>6, <1>7, <1>8 DEF EffectNext

LEMMA EffectInvariance == EffectSpec => []EffectInv
  BY EffectsStart, EffectsStep, PTL DEF EffectSpec

------------------------------------------------------------------------------
(* A sequence whose elements are in a set is a sequence over that set.     *)
LEMMA EffectsOver ==
    ASSUME NEW S, NEW T, NEW s \in Seq(S), \A i \in 1..Len(s) : s[i] \in T
    PROVE  s \in Seq(T)
  <1>1. Len(s) \in Nat /\ s = [i \in 1..Len(s) |-> s[i]]
    BY LenProperties
  <1>2. [i \in 1..Len(s) |-> s[i]] \in [1..Len(s) -> T]
    OBVIOUS
  <1>3. s \in [1..Len(s) -> T]
    BY <1>1, <1>2
  <1>4. [1..Len(s) -> T] \subseteq Seq(T)
    BY <1>1, SeqDef
  <1> QED  BY <1>3, <1>4

(***************************************************************************)
(* Every part of the queue and its processing has its type; no revision a  *)
(* row has or a job has captured is later than the last one given out.     *)
(***************************************************************************)
THEOREM EffectTypesHold == EffectSpec => []EffectTypeOK
  <1>1. EffectInv => EffectTypeOK
    <2> SUFFICES ASSUME EffectInv PROVE EffectTypeOK
      OBVIOUS
    <2>1. EffectTypes /\ RevisionsFit /\ revision \in Nat
      BY DEF EffectInv, EffectTypes
    <2>2. ASSUME NEW n \in Nat, n <= revision PROVE n \in 0..revision
      BY <2>1, <2>2
    <2>3. effects \in Seq(JobType)
      <3>1. ASSUME NEW j \in Jobs PROVE effects[j] \in JobType
        <4>1. /\ effects[j] \in JobRecords /\ effects[j].source \in Nat
              /\ effects[j].destination \in Nat
          BY <2>1, JobNumbers, JobFields
        <4>2. effects[j].source \in 0..revision /\ effects[j].destination \in 0..revision
          BY <2>1, <2>2, <4>1 DEF RevisionsFit, Captured
        <4> QED  BY <4>1, <4>2 DEF JobRecords, JobType, JobStates
      <3> QED  BY <2>1, <3>1, JobNumbers, EffectsOver DEF EffectTypes
    <2>4. metadata \in [EffectIdentities -> [Paths -> 0..revision]]
      <3>1. ASSUME NEW i \in EffectIdentities PROVE metadata[i] \in [Paths -> 0..revision]
        BY <2>1, <2>2 DEF EffectTypes, RevisionsFit
      <3> QED  BY <2>1, <3>1 DEF EffectTypes
    <2>5. ASSUME NEW a \in Actors
          PROVE  /\ actor[a].job \in Jobs \union {0}
                 /\ actor[a].step \in WorkSteps \union
                       (IF a \in Commits THEN CommitSteps ELSE {})
      <3>1. Holds(a) /\ KnowsPayload(a) /\ actor[a].step \in WorkSteps \union CommitSteps
        BY <2>1, ActorFields DEF EffectInv, Knows
      <3> QED  BY <3>1 DEF Holds, KnowsPayload
    <2> QED  BY <2>1, <2>3, <2>4, <2>5 DEF EffectTypeOK, EffectTypes
  <1> QED  BY <1>1, EffectInvariance, PTL

(***************************************************************************)
(* While a job of an identity is pending nothing of a later one of the     *)
(* identity is visible: it has neither moved metadata nor been announced.  *)
(***************************************************************************)
THEOREM EffectsAreInOrder == EffectSpec => []EffectsInOrder
  <1>1. EffectInv => EffectsInOrder
    BY DEF EffectInv
  <1> QED  BY <1>1, EffectInvariance, PTL

(***************************************************************************)
(* An announced job's metadata is committed, a completed job has been      *)
(* announced, and no job is announced more often than its announcements    *)
(* were lost, but for once.                                                *)
(***************************************************************************)
THEOREM EventsFollowMetadata == EffectSpec => []EventFollowsMetadata
  <1>1. EffectInv => EventFollowsMetadata
    BY DEF EffectInv
  <1> QED  BY <1>1, EffectInvariance, PTL

------------------------------------------------------------------------------
(* Only the job that is changed is another afterwards.                     *)
LEMMA OneJobChanges ==
    ASSUME EffectTypes, NEW j \in Jobs, NEW k, NEW y, effects' = [effects EXCEPT ![k] = y]
    PROVE  effects'[j] = effects[j] \/ (j = k /\ effects'[j] = y)
  BY DEF Jobs, EffectTypes

(* A pending job is applied in one action only: that which moves its rows. *)
Applies(j) == effects[j].state = "pending" /\ effects'[j].state = "applied"

(* Every other action leaves the state of a pending job or settles it.     *)
LEMMA OnlyMovesApply ==
    ASSUME EffectInv, EffectNext, NEW j \in Jobs, Applies(j)
    PROVE  \E a \in Actors : MoveRows(a) /\ actor[a].job = j
  <1> SUFFICES ASSUME \A a \in Actors : MoveRows(a) => actor[a].job # j PROVE FALSE
    OBVIOUS
  <1>1. EffectTypes /\ effects[j] \in JobRecords /\ effects'[j] # effects[j]
    BY JobNumbers DEF EffectInv, Applies
  <1>2. ASSUME NEW k, NEW y, effects' = [effects EXCEPT ![k] = y],
               k = j => y.state = effects[k].state \/ y.state # "applied"
        PROVE  FALSE
    BY <1>1, <1>2, OneJobChanges DEF Applies
  <1>3. effects' # effects
    BY <1>1
  <1>4. ASSUME NEW a \in Actors, Work(a) PROVE FALSE
    <2> SUFFICES ASSUME NEW k, k = actor[a].job PROVE FALSE
      OBVIOUS
    <2>1. CASE MoveRows(a)
      <3>1. effects' = [effects EXCEPT ![k] = WithState(effects[k], "applied")] /\ k # j
        BY <2>1 DEF MoveRows, WithState
      <3> QED  BY <1>2, <3>1
    <2>2. CASE PublishEvent(a)
      <3>1. effects' = [effects EXCEPT ![k] = WithEvent(effects[k])]
        BY <2>2 DEF PublishEvent, WithEvent
      <3> QED  BY <1>1, <1>2, <3>1, EventChanges
    <2>3. CASE SettleEffect(a)
      <3> PICK s \in {"completed", "retired"} :
               effects' = [effects EXCEPT ![k] = WithState(effects[k], s)]
        BY <2>3 DEF SettleEffect, WithState
      <3>1. k = j => WithState(effects[k], s).state = s
        BY <1>1, StateChanges DEF JobStates
      <3> QED  BY <1>2, <3>1
    <2>4. CASE PutOff(a)
      <3>1. effects' = [effects EXCEPT ![k] = WithDelay(effects[k], At(a, "refused"))]
        BY <1>3, <2>4 DEF PutOff, WithDelay
      <3>2. At(a, "refused") \in BOOLEAN
        BY DEF At
      <3>3. k = j => WithDelay(effects[k], At(a, "refused")).state = effects[k].state
        BY <1>1, <3>2, DelayChanges
      <3> QED  BY <1>2, <3>1, <3>3
    <2>5. CASE ~(MoveRows(a) \/ PublishEvent(a) \/ SettleEffect(a) \/ PutOff(a))
      BY <1>3, <1>4, <2>5
         DEF Work, Select, SelectNone, SelectAgain, SelectLost, Takes, ClaimGone, Claim, LockRows,
             CheckDestination, queueVars
    <2> QED  BY <2>1, <2>2, <2>3, <2>4, <2>5
  <1>5. ASSUME NEW a \in Actors, Break(a) \/ Crash(a) PROVE FALSE
    <2> SUFFICES ASSUME NEW k, k = actor[a].job PROVE FALSE
      OBVIOUS
    <2>1. effects' = [effects EXCEPT ![k] = WithLoss(effects[k])]
      BY <1>3, <1>5 DEF Break, Crash, EventLost, WithLoss
    <2> QED  BY <1>1, <1>2, <2>1, LossChanges
  <1>6. ASSUME NEW c \in Commits, CommitStep(c) PROVE FALSE
    <2>1. CASE Complete(c)
      <3>1. effects' = Append(effects, Job(payload[c]))
        BY <1>3, <2>1 DEF Complete
      <3>2. effects'[j] = effects[j]
        BY <1>1, <3>1 DEF EffectTypes, Jobs
      <3> QED  BY <1>1, <3>2
    <2>2. CASE Begin(c) \/ Admit(c) \/ Capture(c)
      BY <1>3, <2>2 DEF Begin, Admit, Capture, queueVars
    <2> QED  BY <1>6, <2>1, <2>2 DEF CommitStep
  <1>7. ASSUME NEW k \in Jobs, RetryDue(k) PROVE FALSE
    <2>1. effects' = [effects EXCEPT ![k] = WithoutDelay(effects[k])]
      BY <1>7 DEF RetryDue, WithoutDelay
    <2> QED  BY <1>1, <1>2, <2>1, UndelayChanges
  <1>8. ASSUME NEW i \in EffectIdentities, NEW touched, NEW exempt,
               effects' = Superseded(i, touched, exempt)
        PROVE  FALSE
    <2>1. effects'[j].state = effects[j].state
      BY <1>1, <1>8, SupersededJobs
    <2> QED  BY <2>1 DEF Applies
  <1>9. ASSUME NEW i \in EffectIdentities, NEW p \in Paths, Edit(i, p) \/ DeletePath(i, p)
        PROVE  FALSE
    BY <1>3, <1>8, <1>9 DEF Edit, DeletePath
  <1>10. ASSUME NEW i \in EffectIdentities, NEW p \in Paths, NEW q \in Paths, MovePath(i, p, q)
         PROVE  FALSE
    BY <1>8, <1>10 DEF MovePath
  <1>11. ASSUME NEW i \in EffectIdentities, Relink(i) PROVE FALSE
    BY <1>3, <1>11 DEF Relink
  <1> QED  BY <1>4, <1>5, <1>6, <1>7, <1>9, <1>10, <1>11 DEF EffectNext

(***************************************************************************)
(* When a job's metadata commits, no later path change has superseded it,  *)
(* the row it moved is the one captured, and so is the row it replaced, if *)
(* there was one: the check of the destination and the move are two steps, *)
(* and the rows that are locked or missing stay so in between.             *)
(***************************************************************************)
THEOREM RecoveryUndoesNothing == EffectSpec => RecoveryKeepsNewerWork
  <1> DEFINE Kept(j) ==
             /\ ~effects[j].superseded
             /\ metadata'[effects[j].identity] # metadata[effects[j].identity] =>
                   /\ metadata[effects[j].identity][effects[j].from] = effects[j].source
                   /\ metadata[effects[j].identity][effects[j].to] \in {0, effects[j].destination}
  <1>1. ASSUME EffectInv, EffectNext, NEW j \in Jobs, Applies(j) PROVE Kept(j)
    <2> PICK a \in Actors : MoveRows(a) /\ actor[a].job = j
      BY <1>1, OnlyMovesApply
    <2> SUFFICES ASSUME NEW i, i = effects[j].identity PROVE Kept(j)
      OBVIOUS
    <2>1. /\ KnowsJob(a) /\ KnowsRows(a) /\ At(a, "move")
      BY <1>1 DEF EffectInv, Knows, MoveRows
    <2>2. ~effects[j].superseded
      BY <2>1 DEF KnowsJob, At, Applying
    <2>3. ASSUME metadata'[i] # metadata[i] PROVE Matches(j)
      BY <2>3 DEF MoveRows
    <2>4. Matches(j) => metadata[i][effects[j].from] = effects[j].source
                        /\ metadata[i][effects[j].to] \in {0, effects[j].destination}
      BY <2>1 DEF KnowsRows, Matches
    <2> QED  BY <2>2, <2>3, <2>4
  <1>2. EffectInv /\ [EffectNext]_effectVars
        => [\A j \in Jobs :
               LET job == effects[j] IN
               job.state = "pending" /\ effects'[j].state = "applied" =>
                   /\ ~job.superseded
                   /\ metadata'[job.identity] # metadata[job.identity] =>
                          /\ metadata[job.identity][job.from] = job.source
                          /\ metadata[job.identity][job.to] \in {0, job.destination}]_effectVars
    BY <1>1 DEF Applies
  <1> QED  BY <1>2, EffectInvariance, PTL DEF EffectSpec, RecoveryKeepsNewerWork

------------------------------------------------------------------------------
(***************************************************************************)
(* What an actor knows of the account: while it moves rows or announces it *)
(* is still the one that wrote the file, and it is another one while the   *)
(* actor retires the job.  Linking an identity to another account waits    *)
(* for its lock.                                                           *)
(***************************************************************************)
KnowsAccount(a) ==
    LET j == actor[a].job IN
    /\ actor[a].step \in Applying \union Announcing => Owned(j)
    /\ At(a, "retire") => ~Owned(j)

AccountsKnown == \A a \in Actors : KnowsAccount(a)

(* Every job stays in the queue and stays the work it is.                  *)
JobsStay == \A j \in Jobs : j \in Jobs' /\ SameWork(effects[j], effects'[j])

LEMMA BecomingStays ==
    ASSUME NEW j \in Jobs, NEW y, BecomesJob(j, y)
    PROVE  JobsStay
  BY DEF JobsStay, BecomesJob, SameWork

LEMMA SameJobsStay ==
    ASSUME SameJobs
    PROVE  JobsStay
  BY DEF JobsStay, SameJobs

(* The account of a job is the current one as long as no account changes.  *)
LEMMA OwnedStays ==
    ASSUME JobsStay, account' = account, NEW j \in Jobs
    PROVE  Owned(j)' <=> Owned(j)
  BY DEF JobsStay, SameWork, Owned

(* Who applies, announces or retires a job has one and holds its identity. *)
LEMMA OwnersHold ==
    ASSUME EffectInv, NEW a \in Actors, actor[a].step \in Owning
    PROVE  /\ actor[a].job \in Jobs
           /\ holder[effects[actor[a].job].identity] = a
  BY DEF EffectInv, Knows, Holds, Owning, AtHand, WorkSteps, Applying, Announcing

(* An actor goes on to a job that it knows the account of.                 *)
LEMMA AccountsKeep ==
    ASSUME EffectInv, AccountsKnown, account' = account, JobsStay,
           NEW a \in Actors, NEW s \in WorkSteps \union CommitSteps, NEW n \in Nat, Goes(a, s, n),
           s \in Applying \union Announcing => n \in Jobs /\ Owned(n),
           s = "retire" => n \in Jobs /\ ~Owned(n)
    PROVE  AccountsKnown'
  <1>1. /\ actor'[a].step = s /\ actor'[a].job = n
        /\ \A b \in Actors : b # a => actor'[b] = actor[b]
    BY ActorGoes DEF EffectInv
  <1>2. KnowsAccount(a)'
    BY <1>1, OwnedStays DEF KnowsAccount, At
  <1>3. ASSUME NEW b \in Actors, b # a PROVE KnowsAccount(b)'
    <2> PICK m : m = actor[b].job
      OBVIOUS
    <2>1. actor'[b] = actor[b] /\ KnowsAccount(b)
      BY <1>1, <1>3 DEF AccountsKnown
    <2>2. actor[b].step \in Owning => (Owned(m)' <=> Owned(m))
      BY OwnersHold, OwnedStays
    <2> QED  BY <2>1, <2>2 DEF KnowsAccount, At, Owning
  <1> QED  BY <1>2, <1>3 DEF AccountsKnown

------------------------------------------------------------------------------
(* How a change of one job shows in the log.                               *)
LEMMA LogBecomes ==
    ASSUME NEW j \in Jobs, NEW y, BecomesJob(j, y)
    PROVE  QueueLog' = [QueueLog EXCEPT ![j] = Entry(y)]
  BY DEF BecomesJob, QueueLog

LEMMA LogStays ==
    ASSUME SameJobs
    PROVE  QueueLog' = QueueLog
  BY DEF SameJobs, QueueLog, Entry, SameWork

LEMMA EntryChanges ==
    ASSUME NEW x \in JobRecords, NEW s \in JobStates
    PROVE  Entry(WithState(x, s)) = [Entry(x) EXCEPT !.state = s]
  BY DEF JobRecords, Entry, WithState

LEMMA EntryTells ==
    ASSUME NEW x \in JobRecords
    PROVE  /\ Entry(WithEvent(x)) = [Entry(x) EXCEPT !.told = @ + 1]
           /\ Entry(WithLoss(x)) = Entry(x)
  BY DEF JobRecords, Entry, WithEvent, WithLoss

(* What the log says of a job.                                             *)
LEMMA LogReads ==
    ASSUME NEW j \in Jobs
    PROVE  /\ QueueLog[j].identity = effects[j].identity
           /\ QueueLog[j].from = effects[j].from /\ QueueLog[j].to = effects[j].to
           /\ QueueLog[j].source = effects[j].source
           /\ QueueLog[j].destination = effects[j].destination
           /\ QueueLog[j].account = effects[j].account
           /\ QueueLog[j].state = effects[j].state
           /\ QueueLog[j].overtaken = effects[j].superseded
           /\ QueueLog[j].told = effects[j].events
           /\ QueueLog[j] = Entry(effects[j])
  BY DEF QueueLog, Entry

(* The first pending job of its identity is the first one in the log.      *)
LEMMA FirstInLog ==
    ASSUME EffectTypes, NEW j \in Jobs, Pending(j), NoneBefore(j)
    PROVE  Log!First(j)
  <1>1. Log!Waits(j)
    BY LogReads DEF Log!Waits, Pending
  <1>2. \A k \in 1..(j - 1) : k \in Jobs
    BY JobNumbers
  <1>3. \A k \in 1..(j - 1) : QueueLog[k].identity = QueueLog[j].identity => ~Log!Waits(k)
    BY <1>2, LogReads DEF Log!Waits, Pending, NoneBefore
  <1> QED  BY <1>1, <1>3 DEF Log!First

LEMMA SameAccountInLog ==
    ASSUME NEW j \in Jobs
    PROVE  Log!SameAccount(j) <=> Owned(j)
  BY LogReads DEF Log!SameAccount, Owned

------------------------------------------------------------------------------
(***************************************************************************)
(* A step of the queue is a step of the log, or the log does not see it;   *)
(* and the actors know the accounts after it.                              *)
(***************************************************************************)
LogStep == [Log!Next]_(Log!vars) /\ AccountsKnown'

(* The log sees no step that leaves its entries, the rows and the accounts. *)
LEMMA UnseenSteps ==
    ASSUME QueueLog' = QueueLog, UNCHANGED <<metadata, revision, account>>, AccountsKnown'
    PROVE  LogStep
  BY DEF LogStep, Log!vars

(* An actor moves on and changes no job.                                   *)
LEMMA QuietMoves ==
    ASSUME EffectInv, AccountsKnown, SameJobs, UNCHANGED <<metadata, revision, account>>,
           NEW a \in Actors, NEW s \in WorkSteps \union CommitSteps, NEW n \in Nat, Goes(a, s, n),
           s \in Applying \union Announcing => n \in Jobs /\ Owned(n),
           s = "retire" => n \in Jobs /\ ~Owned(n)
    PROVE  LogStep
  BY SameJobsStay, AccountsKeep, LogStays, UnseenSteps

LEMMA SelectionsAreUnseen ==
    ASSUME EffectInv, AccountsKnown, NEW a \in Actors,
           Select(a) \/ SelectNone(a) \/ SelectAgain(a) \/ SelectLost(a) \/ ClaimGone(a)
    PROVE  LogStep
  <1>1. /\ effects' = effects /\ UNCHANGED <<metadata, revision, account>> /\ EffectTypes
    BY DEF Select, SelectNone, SelectAgain, SelectLost, ClaimGone, Takes, queueVars, EffectInv
  <1>2. SameJobs
    BY <1>1, UnchangedJobs
  <1>3. PICK s \in {"claim", "admit", "next"}, n \in Jobs \union {0} : Goes(a, s, n)
    <2>1. CASE Select(a)
      BY <2>1 DEF Select, Takes, Candidates
    <2>2. CASE SelectAgain(a)
      BY <2>2 DEF SelectAgain, Takes, Candidates
    <2>3. CASE SelectNone(a) \/ SelectLost(a) \/ ClaimGone(a)
      <3>1. Idle(a)
        BY <2>3 DEF SelectNone, SelectLost, ClaimGone
      <3>2. CASE a \in Commits
        BY <3>1, <3>2 DEF Idle
      <3>3. CASE a \notin Commits
        BY <3>1, <3>3 DEF Idle
      <3> QED  BY <3>2, <3>3
    <2> QED  BY <2>1, <2>2, <2>3
  <1>4. n \in Nat
    BY <1>1, <1>3, JobNumbers
  <1> QED
    BY <1>1, <1>2, <1>3, <1>4, QuietMoves DEF WorkSteps, CommitSteps, Applying, Announcing

(* The job is claimed: the account is read under the lock.                 *)
LEMMA ClaimIsUnseen ==
    ASSUME EffectInv, AccountsKnown, NEW a \in Actors, Claim(a)
    PROVE  LogStep
  <1> PICK j : j = actor[a].job
    OBVIOUS
  <1>1. /\ effects' = effects /\ UNCHANGED <<metadata, revision, account>> /\ EffectTypes
        /\ Holds(a) /\ At(a, "claim")
    BY DEF Claim, queueVars, EffectInv, Knows
  <1>2. SameJobs /\ j \in Jobs /\ j \in Nat
    BY <1>1, UnchangedJobs, JobNumbers DEF Holds, At, AtHand, WorkSteps
  <1>3. PICK s \in {"refused", NextStep(j)} : Goes(a, s, j)
    BY DEF Claim
  <1>4. /\ NextStep(j) \in {"retire", "publish", "rows"}
        /\ NextStep(j) = "retire" <=> ~Owned(j)
    BY DEF NextStep
  <1> QED
    BY <1>1, <1>2, <1>3, <1>4, QuietMoves DEF WorkSteps, CommitSteps, Applying, Announcing

LEMMA RowStepsAreUnseen ==
    ASSUME EffectInv, AccountsKnown, NEW a \in Actors, LockRows(a) \/ CheckDestination(a)
    PROVE  LogStep
  <1> PICK j : j = actor[a].job
    OBVIOUS
  <1>1. /\ effects' = effects /\ UNCHANGED <<metadata, revision, account>> /\ EffectTypes
        /\ actor[a].step \in Applying
    BY DEF LockRows, CheckDestination, queueVars, EffectInv, At, Applying
  <1>2. SameJobs /\ j \in Jobs /\ j \in Nat /\ Owned(j)
    BY <1>1, UnchangedJobs, JobNumbers, OwnersHold DEF AccountsKnown, KnowsAccount, Owning
  <1>3. PICK s \in {"check", "move", "refused"} : Goes(a, s, j)
    BY DEF LockRows, CheckDestination
  <1> QED
    BY <1>1, <1>2, <1>3, QuietMoves DEF WorkSteps, CommitSteps, Applying, Announcing

LEMMA DelaysAreUnseen ==
    ASSUME EffectInv, AccountsKnown, NEW a \in Actors, PutOff(a)
    PROVE  LogStep
  <1> PICK j, y : j = actor[a].job /\ y = WithDelay(effects[j], At(a, "refused"))
    OBVIOUS
  <1>1. EffectTypes /\ Holds(a) /\ actor[a].step \in {"refused", "broken"}
    BY DEF EffectInv, Knows, PutOff, At
  <1>2. j \in Jobs /\ effects[j] \in JobRecords
    BY <1>1, JobNumbers DEF Holds, AtHand, WorkSteps
  <1>3. /\ Goes(a, "next", 0) /\ UNCHANGED <<metadata, revision, account>>
        /\ effects' = effects \/ effects' = [effects EXCEPT ![j] = y]
    BY DEF PutOff, WithDelay
  <1>4. CASE effects' = effects
    BY <1>1, <1>3, <1>4, UnchangedJobs, QuietMoves DEF WorkSteps, Applying, Announcing
  <1>5. CASE effects' = [effects EXCEPT ![j] = y]
    <2>1. At(a, "refused") \in BOOLEAN
      BY DEF At
    <2>2. /\ y \in JobRecords /\ SameWork(effects[j], y)
          /\ y.state = effects[j].state /\ y.superseded = effects[j].superseded
          /\ y.events = effects[j].events /\ y.lost = effects[j].lost
      BY <1>2, <2>1, DelayChanges
    <2>3. SameJobs
      BY <1>1, <1>2, <1>5, <2>2, JobBecomes, BecomesSame
    <2> QED  BY <1>3, <2>3, QuietMoves DEF WorkSteps, Applying, Announcing
  <1> QED  BY <1>3, <1>4, <1>5

LEMMA AdmissionsAreUnseen ==
    ASSUME EffectInv, AccountsKnown, NEW c \in Commits, Begin(c) \/ Admit(c) \/ Capture(c)
    PROVE  LogStep
  <1>1. /\ effects' = effects /\ UNCHANGED <<metadata, revision, account>> /\ EffectTypes
        /\ c \in Actors
    BY DEF Begin, Admit, Capture, queueVars, EffectInv, Actors
  <1>2. PICK s \in {"next", "gone", "capture", "storage"} : Goes(c, s, 0)
    <2>1. CASE Begin(c) \/ Capture(c)
      BY <2>1 DEF Begin, Capture
    <2>2. CASE Admit(c) /\ \E j \in Jobs : Pending(j) /\ Serves(c, j)
      BY <2>2 DEF Admit
    <2>3. CASE Admit(c) /\ ~(\E j \in Jobs : Pending(j) /\ Serves(c, j))
      BY <2>3 DEF Admit
    <2> QED  BY <2>1, <2>2, <2>3
  <1> QED
    BY <1>1, <1>2, UnchangedJobs, QuietMoves DEF WorkSteps, CommitSteps, Applying, Announcing

(* A delay passes: no actor moves.                                         *)
LEMMA AccountsStay ==
    ASSUME EffectInv, AccountsKnown, JobsStay, account' = account, actor' = actor
    PROVE  AccountsKnown'
  <1> SUFFICES ASSUME NEW b \in Actors, NEW m, m = actor[b].job PROVE KnowsAccount(b)'
    BY DEF AccountsKnown
  <1>1. actor[b].step \in Owning => (Owned(m)' <=> Owned(m))
    BY OwnersHold, OwnedStays
  <1> QED  BY <1>1 DEF AccountsKnown, KnowsAccount, At, Owning

LEMMA RetriesAreUnseen ==
    ASSUME EffectInv, AccountsKnown, NEW j \in Jobs, RetryDue(j)
    PROVE  LogStep
  <1> PICK y : y = WithoutDelay(effects[j])
    OBVIOUS
  <1>1. EffectTypes /\ effects[j] \in JobRecords
    BY JobNumbers DEF EffectInv
  <1>2. /\ effects' = [effects EXCEPT ![j] = y] /\ actor' = actor
        /\ UNCHANGED <<metadata, revision, account>>
    BY DEF RetryDue, WithoutDelay
  <1>3. /\ y \in JobRecords /\ SameWork(effects[j], y)
        /\ y.state = effects[j].state /\ y.superseded = effects[j].superseded
        /\ y.events = effects[j].events /\ y.lost = effects[j].lost
    BY <1>1, UndelayChanges
  <1>4. SameJobs
    BY <1>1, <1>2, <1>3, JobBecomes, BecomesSame
  <1> QED  BY <1>2, <1>4, SameJobsStay, AccountsStay, LogStays, UnseenSteps

------------------------------------------------------------------------------
(***************************************************************************)
(* The steps that the log sees.  The rows move in one step: what is moved  *)
(* and what it replaces are what was captured, and no path change came     *)
(* between.                                                                *)
(***************************************************************************)
LEMMA MovedInLog ==
    ASSUME NEW held \in [Paths -> Nat], NEW from \in Paths, NEW to \in Paths, held[from] # 0
    PROVE  Moved(held, from, to) = Log!Moved(held, from, to)
  BY DEF Moved, Log!Moved

LEMMA MoveIsApplied ==
    ASSUME EffectInv, AccountsKnown, NEW a \in Actors, MoveRows(a)
    PROVE  LogStep
  <1> PICK j : j = actor[a].job
    OBVIOUS
  <1> PICK i, y : i = effects[j].identity /\ y = WithState(effects[j], "applied")
    OBVIOUS
  <1>1. /\ EffectTypes /\ KnowsJob(a) /\ KnowsRows(a) /\ At(a, "move")
        /\ actor[a].step \in Owning /\ actor[a].step \in Applying
    BY DEF EffectInv, Knows, MoveRows, At, Applying, Owning
  <1>2. /\ j \in Jobs /\ j \in Nat /\ effects[j] \in JobRecords /\ i \in EffectIdentities
        /\ effects[j].from \in Paths /\ effects[j].to \in Paths
    BY <1>1, OwnersHold, JobNumbers, JobFields
  <1>3. /\ Pending(j) /\ NoneBefore(j) /\ Owned(j)
        /\ effects[j].state = "pending" /\ ~effects[j].superseded
        /\ Matches(j) => metadata[i][effects[j].to] \in {0, effects[j].destination}
    BY <1>1 DEF KnowsJob, KnowsRows, AccountsKnown, KnowsAccount
  <1>4. /\ Goes(a, "again", j) /\ account' = account
        /\ effects' = [effects EXCEPT ![j] = y]
        /\ metadata' = IF Matches(j)
                       THEN [metadata EXCEPT ![i] =
                                Moved(metadata[i], effects[j].from, effects[j].to)]
                       ELSE metadata
        /\ revision' = IF Matches(j) THEN revision + 1 ELSE revision
    BY DEF MoveRows, WithState
  <1>5. y \in JobRecords /\ SameWork(effects[j], y) /\ BecomesJob(j, y)
    BY <1>1, <1>2, <1>4, StateChanges, JobBecomes DEF JobStates
  <1>6. QueueLog' = [QueueLog EXCEPT ![j].state = "applied"]
    BY <1>2, <1>5, LogBecomes, LogReads, EntryChanges DEF JobStates
  <1>7. Log!First(j) /\ Log!SameAccount(j)
    BY <1>1, <1>2, <1>3, FirstInLog, SameAccountInLog
  <1>8. (QueueLog[j].source # 0 /\ metadata[i][QueueLog[j].from] = QueueLog[j].source)
        <=> Matches(j)
    BY <1>2, LogReads DEF Matches, Moves
  <1>9. Matches(j) => Moved(metadata[i], effects[j].from, effects[j].to)
                      = Log!Moved(metadata[i], QueueLog[j].from, QueueLog[j].to)
    <2>1. metadata[i] \in [Paths -> Nat]
      BY <1>1, <1>2 DEF EffectTypes
    <2>2. Matches(j) => metadata[i][effects[j].from] # 0
      BY DEF Matches, Moves
    <2> QED  BY <1>2, <2>1, <2>2, MovedInLog, LogReads
  <1>10. Log!Apply(j)
    BY <1>2, <1>3, <1>4, <1>6, <1>7, <1>8, <1>9, LogReads DEF Log!Apply
  <1>11. AccountsKnown'
    BY <1>2, <1>4, <1>5, BecomingStays, AccountsKeep DEF WorkSteps, Applying, Announcing
  <1> QED  BY <1>2, <1>10, <1>11 DEF LogStep, Log!Next, QueueLog

LEMMA EventIsTold ==
    ASSUME EffectInv, AccountsKnown, NEW a \in Actors, PublishEvent(a)
    PROVE  LogStep
  <1> PICK j, y : j = actor[a].job /\ y = WithEvent(effects[j])
    OBVIOUS
  <1>1. /\ EffectTypes /\ KnowsJob(a) /\ At(a, "publish")
        /\ actor[a].step \in Owning /\ actor[a].step \in Announcing
    BY DEF EffectInv, Knows, PublishEvent, At, Announcing, Owning
  <1>2. j \in Jobs /\ j \in Nat /\ effects[j] \in JobRecords
    BY <1>1, OwnersHold, JobNumbers
  <1>3. Pending(j) /\ NoneBefore(j) /\ Owned(j) /\ effects[j].state = "applied"
    BY <1>1 DEF KnowsJob, AccountsKnown, KnowsAccount
  <1>4. /\ Goes(a, "complete", j) /\ UNCHANGED <<metadata, revision, account>>
        /\ effects' = [effects EXCEPT ![j] = y]
    BY DEF PublishEvent, WithEvent
  <1>5. y \in JobRecords /\ SameWork(effects[j], y) /\ BecomesJob(j, y)
    BY <1>1, <1>2, <1>4, EventChanges, JobBecomes
  <1>6. QueueLog' = [QueueLog EXCEPT ![j].told = @ + 1]
    <2>1. QueueLog' = [QueueLog EXCEPT ![j] = Entry(y)]
      BY <1>2, <1>5, LogBecomes
    <2>2. Entry(y) = [QueueLog[j] EXCEPT !.told = @ + 1]
      BY <1>2, LogReads, EntryTells
    <2> QED  BY <1>2, <2>1, <2>2 DEF QueueLog
  <1>7. Log!Tell(j)
    BY <1>1, <1>2, <1>3, <1>4, <1>6, FirstInLog, SameAccountInLog, LogReads DEF Log!Tell
  <1>8. AccountsKnown'
    BY <1>2, <1>3, <1>4, <1>5, BecomingStays, AccountsKeep DEF WorkSteps, Applying, Announcing
  <1> QED  BY <1>2, <1>7, <1>8 DEF LogStep, Log!Next, QueueLog

LEMMA SettlingEndsIt ==
    ASSUME EffectInv, AccountsKnown, NEW a \in Actors, SettleEffect(a)
    PROVE  LogStep
  <1> PICK j : j = actor[a].job
    OBVIOUS
  <1> PICK s, y : /\ s = IF At(a, "complete") THEN "completed" ELSE "retired"
                  /\ y = WithState(effects[j], s)
    OBVIOUS
  <1>1. /\ EffectTypes /\ KnowsJob(a) /\ KnowsAccount(a)
        /\ actor[a].step \in Owning /\ actor[a].step \in {"complete", "retire"}
    BY DEF EffectInv, Knows, SettleEffect, At, Announcing, Owning, AccountsKnown
  <1>2. /\ j \in Jobs /\ j \in Nat /\ effects[j] \in JobRecords /\ s \in JobStates
        /\ effects[j].events \in Nat
    BY <1>1, OwnersHold, JobNumbers, JobFields DEF JobStates
  <1>3. Pending(j) /\ NoneBefore(j)
    BY <1>1 DEF KnowsJob
  <1>4. /\ Goes(a, "next", 0) /\ UNCHANGED <<metadata, revision, account>>
        /\ effects' = [effects EXCEPT ![j] = y]
    BY DEF SettleEffect, WithState
  <1>5. y \in JobRecords /\ SameWork(effects[j], y) /\ BecomesJob(j, y)
    BY <1>1, <1>2, <1>4, StateChanges, JobBecomes
  <1>6. QueueLog' = [QueueLog EXCEPT ![j].state = s]
    BY <1>2, <1>5, LogBecomes, LogReads, EntryChanges
  <1>7. Log!First(j)
    BY <1>1, <1>2, <1>3, FirstInLog
  <1>8. ASSUME actor[a].step = "complete" PROVE Log!Conclude(j)
    <2>1. Owned(j) /\ effects[j].state = "applied" /\ effects[j].events > 0 /\ s = "completed"
      BY <1>1, <1>8 DEF KnowsJob, KnowsAccount, Announcing, At
    <2> QED
      BY <1>2, <1>4, <1>6, <1>7, <2>1, SameAccountInLog, LogReads DEF Log!Conclude
  <1>9. ASSUME actor[a].step = "retire" PROVE Log!Retire(j)
    <2>1. ~Owned(j) /\ s = "retired"
      BY <1>1, <1>9 DEF KnowsAccount, At
    <2> QED  BY <1>2, <1>4, <1>6, <1>7, <2>1, SameAccountInLog DEF Log!Retire
  <1>10. AccountsKnown'
    BY <1>2, <1>4, <1>5, BecomingStays, AccountsKeep DEF WorkSteps, Applying, Announcing
  <1>11. Log!Conclude(j) \/ Log!Retire(j)
    BY <1>1, <1>8, <1>9
  <1> QED  BY <1>2, <1>10, <1>11 DEF LogStep, Log!Next, QueueLog

(* An announcement whose transaction breaks is lost, and told all the same. *)
LEMMA BreakdownsAreUnseen ==
    ASSUME EffectInv, AccountsKnown, NEW a \in Actors, Break(a) \/ Crash(a)
    PROVE  LogStep
  <1> PICK j, y : j = actor[a].job /\ y = WithLoss(effects[j])
    OBVIOUS
  <1>1. /\ EffectTypes /\ Holds(a) /\ UNCHANGED <<metadata, revision, account>>
    BY DEF EffectInv, Knows, Break, Crash
  <1>2. j \in Jobs /\ j \in Nat /\ effects[j] \in JobRecords
    BY <1>1, JobNumbers DEF Holds, Break, Crash, InTransaction, AtHand, WorkSteps
  <1>3. PICK s \in {"broken", "gone", "next"}, n \in {0, j} : Goes(a, s, n)
    <2>1. CASE Break(a)
      BY <2>1 DEF Break
    <2>2. CASE Crash(a) /\ a \in Commits
      BY <2>2 DEF Crash
    <2>3. CASE Crash(a) /\ a \notin Commits
      BY <2>3 DEF Crash
    <2> QED  BY <2>1, <2>2, <2>3
  <1>4. CASE effects' = effects
    <2>1. SameJobs
      BY <1>1, <1>4, UnchangedJobs
    <2> QED
      BY <1>1, <1>2, <1>3, <2>1, QuietMoves DEF WorkSteps, CommitSteps, Applying, Announcing
  <1>5. CASE effects' = [effects EXCEPT ![j] = y]
    <2>1. y \in JobRecords /\ SameWork(effects[j], y) /\ BecomesJob(j, y)
      BY <1>1, <1>2, <1>5, LossChanges, JobBecomes
    <2>2. QueueLog' = QueueLog
      <3>1. QueueLog' = [QueueLog EXCEPT ![j] = QueueLog[j]]
        BY <1>2, <2>1, LogBecomes, LogReads, EntryTells
      <3> QED  BY <3>1 DEF QueueLog
    <2>3. AccountsKnown'
      BY <1>1, <1>2, <1>3, <2>1, BecomingStays, AccountsKeep
         DEF WorkSteps, CommitSteps, Applying, Announcing
    <2> QED  BY <1>1, <2>2, <2>3, UnseenSteps
  <1> QED  BY <1>4, <1>5 DEF Break, Crash, EventLost, WithLoss

(* A commit that ends for the account it began with queues its job.        *)
LEMMA CompletionQueues ==
    ASSUME EffectInv, AccountsKnown, NEW c \in Commits, Complete(c)
    PROVE  LogStep
  <1> PICK p, n : p = payload[c] /\ n = Len(effects) + 1
    OBVIOUS
  <1>1. /\ EffectTypes /\ c \in Actors /\ p \in PayloadRecords /\ Captured(p)
        /\ revision \in Nat
    <2>1. EffectTypes /\ RevisionsFit /\ c \in Actors /\ At(c, "storage") /\ revision \in Nat
      BY DEF EffectInv, EffectTypes, Actors, Complete
    <2>2. p \in PayloadRecords
      BY <2>1 DEF EffectInv, Knows, KnowsPayload
    <2> QED  BY <2>1, <2>2 DEF RevisionsFit
  <1>2. /\ Goes(c, "gone", 0) /\ UNCHANGED <<metadata, revision, account>>
        /\ \/ effects' = effects
           \/ effects' = Append(effects, Job(p)) /\ account[p.identity] = p.account
    BY DEF Complete
  <1>3. CASE effects' = effects
    <2>1. SameJobs
      BY <1>1, <1>3, UnchangedJobs
    <2> QED
      BY <1>1, <1>2, <2>1, QuietMoves DEF WorkSteps, CommitSteps, Applying, Announcing
  <1>4. CASE effects' = Append(effects, Job(p)) /\ account[p.identity] = p.account
    <2>1. /\ p.identity \in EffectIdentities /\ p.from \in Paths /\ p.to \in Paths
          /\ p.source \in 0..revision /\ p.destination \in 0..revision
      BY <1>1 DEF PayloadRecords, Captured
    <2>2. Job(p) \in JobRecords
      BY <1>1, NewJobs
    <2>3. /\ Jobs' = Jobs \union {n} /\ n \notin Jobs /\ effects'[n] = Job(p)
          /\ \A j \in Jobs : effects'[j] = effects[j]
      BY <1>1, <1>4, <2>2, QueuedJobs
    <2>4. Jobs = 1..Len(effects) /\ Len(effects) \in Nat
      BY <1>1, JobNumbers
    <2>5. Entry(Job(p)) = Log!New(p.identity, p.from, p.to, p.source, p.destination)
      BY <1>4 DEF Entry, Job, Log!New
    <2>6. QueueLog' = Append(QueueLog, Entry(Job(p)))
      <3>1. /\ DOMAIN QueueLog = 1..Len(effects) /\ Len(QueueLog) = Len(effects)
            /\ QueueLog \in Seq({Entry(effects[j]) : j \in Jobs})
        BY <2>4 DEF QueueLog
      <3>2. QueueLog' = [j \in 1..(Len(effects) + 1) |->
                            IF j = n THEN Entry(Job(p)) ELSE QueueLog[j]]
        BY <2>3, <2>4 DEF QueueLog
      <3>3. Append(QueueLog, Entry(Job(p))) =
                [j \in 1..(Len(effects) + 1) |->
                            IF j = n THEN Entry(Job(p)) ELSE QueueLog[j]]
        BY <2>4, <3>1
      <3> QED  BY <3>2, <3>3
    <2>7. Log!Queue(p.identity)
      <3>1. Len(QueueLog') = Len(QueueLog) + 1
        BY <2>3, <2>4 DEF QueueLog
      <3> QED  BY <1>2, <2>1, <2>5, <2>6, <3>1 DEF Log!Queue
    <2>8. JobsStay
      BY <2>3 DEF JobsStay, SameWork
    <2>9. AccountsKnown'
      BY <1>1, <1>2, <2>8, AccountsKeep DEF WorkSteps, CommitSteps, Applying, Announcing
    <2> QED  BY <2>1, <2>7, <2>9 DEF LogStep, Log!Next
  <1> QED  BY <1>2, <1>3, <1>4

------------------------------------------------------------------------------
(* Other clients.                                                          *)
LEMMA EditsAreSeen ==
    ASSUME EffectInv, AccountsKnown, NEW i \in EffectIdentities, NEW p \in Paths, Edit(i, p)
    PROVE  LogStep
  <1>1. effects' = effects /\ actor' = actor /\ account' = account /\ SameJobs
    BY UnchangedJobs DEF Edit, EffectInv
  <1>2. AccountsKnown' /\ QueueLog' = QueueLog
    BY <1>1, SameJobsStay, AccountsStay, LogStays
  <1>3. Log!Edit(i, p)
    BY <1>1, <1>2 DEF Edit, Log!Edit
  <1> QED  BY <1>2, <1>3 DEF LogStep, Log!Next

LEMMA OvertakenInLog ==
    ASSUME EffectTypes, NEW i \in EffectIdentities, NEW touched, NEW exempt,
           effects' = Superseded(i, touched, exempt)
    PROVE  Log!Overtake(i, touched, exempt) /\ JobsStay
  <1>1. Jobs' = Jobs /\ JobsStay
    BY SupersededJobs DEF JobsStay
  <1>2. ASSUME NEW j \in Jobs
        PROVE  Entry(effects'[j]) =
                   [QueueLog[j] EXCEPT !.overtaken = @ \/
                       /\ QueueLog[j].state = "pending" /\ QueueLog[j].source # 0
                       /\ QueueLog[j].identity = i /\ QueueLog[j].to \in touched
                       /\ <<QueueLog[j].from, QueueLog[j].to>> \notin exempt]
    <2> PICK marked :
            marked = (/\ effects[j].state = "pending" /\ Moves(effects[j])
                      /\ effects[j].identity = i
                      /\ effects[j].to \in touched
                      /\ <<effects[j].from, effects[j].to>> \notin exempt)
      OBVIOUS
    <2>1. effects'[j] = [effects[j] EXCEPT !.superseded = effects[j].superseded \/ marked]
      BY DEF Superseded
    <2>2. /\ QueueLog[j].overtaken = effects[j].superseded
          /\ QueueLog[j] = Entry(effects[j])
          /\ marked = (/\ QueueLog[j].state = "pending" /\ QueueLog[j].source # 0
                       /\ QueueLog[j].identity = i
                       /\ QueueLog[j].to \in touched
                       /\ <<QueueLog[j].from, QueueLog[j].to>> \notin exempt)
      BY LogReads DEF Moves
    <2>3. effects[j] \in JobRecords
      BY JobNumbers
    <2>4. Entry(effects'[j]) =
              [Entry(effects[j]) EXCEPT !.overtaken = effects[j].superseded \/ marked]
      <3> HIDE DEF Jobs
      <3> PICK m : m = (effects[j].superseded \/ marked)
        OBVIOUS
      <3> QED  BY <2>1, <2>3 DEF Entry, JobRecords
    <2> QED  BY <2>2, <2>4
  <1>3. DOMAIN QueueLog = Jobs
    BY DEF QueueLog
  <1> QED  BY <1>1, <1>2, <1>3 DEF Log!Overtake, QueueLog

LEMMA PathChangesAreSeen ==
    ASSUME EffectInv, AccountsKnown, NEW i \in EffectIdentities, NEW p \in Paths, NEW q \in Paths,
           MovePath(i, p, q) \/ DeletePath(i, p)
    PROVE  LogStep
  <1>1. EffectTypes /\ actor' = actor /\ account' = account /\ metadata[i] \in [Paths -> Nat]
    BY DEF EffectInv, EffectTypes, MovePath, DeletePath
  <1>2. CASE MovePath(i, p, q)
    <2>1. Log!Overtake(i, {p, q}, {<<p, q>>}) /\ JobsStay
      BY <1>1, <1>2, OvertakenInLog DEF MovePath
    <2>2. metadata' = IF metadata[i][p] = 0 THEN metadata
                      ELSE [metadata EXCEPT ![i] = Log!Moved(metadata[i], p, q)]
      <3>1. metadata' = [metadata EXCEPT ![i] = Moved(metadata[i], p, q)]
        BY <1>2 DEF MovePath
      <3>2. CASE metadata[i][p] = 0
        BY <1>1, <3>1, <3>2 DEF Moved, EffectTypes
      <3>3. CASE metadata[i][p] # 0
        BY <1>1, <3>1, <3>3, MovedInLog
      <3> QED  BY <3>2, <3>3
    <2>3. Log!MovePath(i, p, q)
      BY <1>1, <1>2, <2>1, <2>2 DEF MovePath, Log!MovePath
    <2> QED  BY <1>1, <2>1, <2>3, AccountsStay DEF LogStep, Log!Next
  <1>3. CASE DeletePath(i, p)
    <2>1. Log!Overtake(i, {p}, {}) /\ JobsStay
      BY <1>1, <1>3, OvertakenInLog DEF DeletePath
    <2>2. Log!DeletePath(i, p)
      BY <1>1, <1>3, <2>1 DEF DeletePath, Log!DeletePath
    <2> QED  BY <1>1, <2>1, <2>2, AccountsStay DEF LogStep, Log!Next
  <1> QED  BY <1>2, <1>3

(* Who knows the account holds the identity, so another one is linked.     *)
LEMMA RelinksAreSeen ==
    ASSUME EffectInv, AccountsKnown, NEW i \in EffectIdentities, Relink(i)
    PROVE  LogStep
  <1>1. /\ effects' = effects /\ actor' = actor /\ SameJobs /\ EffectTypes
        /\ holder[i] = Nobody /\ account' = [account EXCEPT ![i] = @ + 1]
    BY UnchangedJobs DEF Relink, EffectInv
  <1>2. ASSUME NEW b \in Actors PROVE KnowsAccount(b)'
    <2> PICK m : m = actor[b].job
      OBVIOUS
    <2>1. actor[b].step \in Owning => m \in Jobs /\ effects[m].identity # i
      BY <1>1, OwnersHold, ActorsAssumption
    <2>2. actor[b].step \in Owning => (Owned(m)' <=> Owned(m))
      BY <1>1, <2>1, JobFields DEF Owned, EffectTypes
    <2> QED  BY <1>1, <2>2 DEF AccountsKnown, KnowsAccount, At, Owning
  <1>3. Log!Relink(i)
    BY <1>1, LogStays DEF Relink, Log!Relink
  <1> QED  BY <1>2, <1>3 DEF LogStep, Log!Next, AccountsKnown

------------------------------------------------------------------------------
LEMMA StepsAreLogSteps ==
    EffectInv /\ AccountsKnown /\ [EffectNext]_effectVars => LogStep
  <1> SUFFICES ASSUME EffectInv, AccountsKnown, [EffectNext]_effectVars PROVE LogStep
    OBVIOUS
  <1>1. ASSUME NEW a \in Actors, Work(a) PROVE LogStep
    BY <1>1, SelectionsAreUnseen, ClaimIsUnseen, RowStepsAreUnseen, MoveIsApplied, EventIsTold,
       SettlingEndsIt, DelaysAreUnseen DEF Work
  <1>2. ASSUME NEW a \in Actors, Break(a) \/ Crash(a) PROVE LogStep
    BY <1>2, BreakdownsAreUnseen
  <1>3. ASSUME NEW c \in Commits, CommitStep(c) PROVE LogStep
    BY <1>3, AdmissionsAreUnseen, CompletionQueues DEF CommitStep
  <1>4. ASSUME NEW j \in Jobs, RetryDue(j) PROVE LogStep
    BY <1>4, RetriesAreUnseen
  <1>5. ASSUME NEW i \in EffectIdentities, NEW p \in Paths, Edit(i, p) \/ DeletePath(i, p)
        PROVE  LogStep
    BY <1>5, EditsAreSeen, PathChangesAreSeen
  <1>6. ASSUME NEW i \in EffectIdentities, NEW p \in Paths, NEW q \in Paths, MovePath(i, p, q)
        PROVE  LogStep
    BY <1>6, PathChangesAreSeen
  <1>7. ASSUME NEW i \in EffectIdentities, Relink(i) PROVE LogStep
    BY <1>7, RelinksAreSeen
  <1>8. ASSUME UNCHANGED effectVars PROVE LogStep
    <2>1. /\ effects' = effects /\ actor' = actor /\ UNCHANGED <<metadata, revision, account>>
          /\ SameJobs
      BY <1>8, UnchangedJobs DEF effectVars, EffectInv
    <2> QED  BY <2>1, SameJobsStay, AccountsStay, LogStays, UnseenSteps
  <1> QED  BY <1>1, <1>2, <1>3, <1>4, <1>5, <1>6, <1>7, <1>8 DEF EffectNext

(***************************************************************************)
(* For every set of workers, commits and paths and whatever breaks, the    *)
(* queue implements EffectLog: the jobs of an identity take effect one     *)
(* after the other, the metadata of each in one step and only while its    *)
(* rows are the captured ones, and nothing is applied or announced for an  *)
(* account that the identity no longer has.                                *)
(***************************************************************************)
THEOREM QueueIsAnEffectLog == EffectSpec => ImplementsEffectLog
  <1>1. EffectInit => Log!Init /\ AccountsKnown
    <2> SUFFICES ASSUME EffectInit PROVE Log!Init /\ AccountsKnown
      OBVIOUS
    <2>1. QueueLog = <<>>
      BY DEF EffectInit, QueueLog, Jobs
    <2>2. Log!Init
      BY <2>1 DEF EffectInit, Log!Init
    <2>3. AccountsKnown
      BY DEF EffectInit, AccountsKnown, KnowsAccount, At, Applying, Announcing
    <2> QED  BY <2>2, <2>3
  <1>2. EffectInv /\ AccountsKnown /\ [EffectNext]_effectVars => [Log!Next]_(Log!vars)
    BY StepsAreLogSteps DEF LogStep
  <1>3. EffectInv /\ AccountsKnown /\ [EffectNext]_effectVars => AccountsKnown'
    BY StepsAreLogSteps DEF LogStep
  <1> QED
    BY <1>1, <1>2, <1>3, EffectInvariance, PTL DEF EffectSpec, ImplementsEffectLog, Log!Spec

===============================================================================
