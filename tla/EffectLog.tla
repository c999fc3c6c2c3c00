------------------------------- MODULE EffectLog -------------------------------
(***************************************************************************)
(* What the queue of effects promises, whatever its workers, transactions, *)
(* locks, retries and crashes do: the jobs of an identity take effect one  *)
(* after the other in the order of their operations, each one's metadata   *)
(* moves in a single step that other clients' edits come before or after,  *)
(* then it is announced, then it is over; and nothing of a job is applied  *)
(* or announced for an account other than the one that wrote the file.     *)
(* What packages/db/src/repos/desktop-effects.ts and desktop.ts amount to; *)
(* DesktopEffects, which has their steps, implements it.                   *)
(***************************************************************************)
EXTENDS Naturals, Sequences

CONSTANTS Identities, Paths

(***************************************************************************)
(* log: the jobs in the order of their operations.                         *)
(* rows: the revision of the metadata at each path, 0 without any.         *)
(* revision: the last one given out.                                       *)
(* account: how often each identity has been linked to another account.    *)
(***************************************************************************)
VARIABLES log, rows, revision, account

vars == <<log, rows, revision, account>>

Init ==
    /\ log = <<>>
    /\ rows \in [Identities -> [Paths -> {0, 1}]]
    /\ revision = 1
    /\ account = [i \in Identities |-> 0]

(* A job as it is queued: it moves the revision `source` from one path to  *)
(* another, over the revision `destination`; nothing if `source` is 0.     *)
New(i, from, to, source, destination) ==
    [identity |-> i, from |-> from, to |-> to, source |-> source,
     destination |-> destination, account |-> account[i],
     state |-> "pending", overtaken |-> FALSE, told |-> 0]

(* The log grows by one job.                                               *)
Queue(i) ==
    /\ Len(log') = Len(log) + 1
    /\ \E from, to \in Paths, source, destination \in 0..revision :
           log' = Append(log, New(i, from, to, source, destination))
    /\ UNCHANGED <<rows, revision, account>>

-----------------------------------------------------------------------------
Waits(j) == log[j].state \in {"pending", "applied"}

(* The first job of its identity that is not over. *)
First(j) ==
    /\ Waits(j)
    /\ \A k \in 1..(j - 1) : log[k].identity = log[j].identity => ~Waits(k)

SameAccount(j) == log[j].account = account[log[j].identity]

Moved(old, from, to) ==
    [p \in Paths |-> IF p = to THEN revision + 1 ELSE IF p = from THEN 0 ELSE old[p]]

(* What was captured moves if it is still there; newer work is not undone. *)
Apply(j) ==
    LET job == log[j]
        old == rows[job.identity]
        moves == job.source # 0 /\ old[job.from] = job.source
    IN  /\ First(j) /\ SameAccount(j)
        /\ job.state = "pending" /\ ~job.overtaken
        /\ moves => old[job.to] \in {0, job.destination}
        /\ rows' = IF moves THEN [rows EXCEPT ![job.identity] = Moved(old, job.from, job.to)]
                   ELSE rows
        /\ revision' = IF moves THEN revision + 1 ELSE revision
        /\ log' = [log EXCEPT ![j].state = "applied"]
        /\ UNCHANGED account

Tell(j) ==
    /\ First(j) /\ SameAccount(j) /\ log[j].state = "applied"
    /\ log' = [log EXCEPT ![j].told = @ + 1]
    /\ UNCHANGED <<rows, revision, account>>

Conclude(j) ==
    /\ First(j) /\ SameAccount(j) /\ log[j].state = "applied" /\ log[j].told > 0
    /\ log' = [log EXCEPT ![j].state = "completed"]
    /\ UNCHANGED <<rows, revision, account>>

(* The identity is another account's by now. *)
Retire(j) ==
    /\ First(j) /\ ~SameAccount(j)
    /\ log' = [log EXCEPT ![j].state = "retired"]
    /\ UNCHANGED <<rows, revision, account>>

-----------------------------------------------------------------------------
(***************************************************************************)
(* Other clients edit rows, move and delete paths and link identities to   *)
(* other accounts.  A path change overtakes the pending jobs that would    *)
(* move something there, but for one that makes the same move.             *)
(***************************************************************************)
Edit(i, p) ==
    /\ revision' = revision + 1
    /\ rows' = [rows EXCEPT ![i][p] = revision + 1]
    /\ UNCHANGED <<log, account>>

Overtake(i, touched, same) ==
    log' = [j \in DOMAIN log |->
                [log[j] EXCEPT !.overtaken = @ \/
                    /\ log[j].state = "pending" /\ log[j].source # 0
                    /\ log[j].identity = i /\ log[j].to \in touched
                    /\ <<log[j].from, log[j].to>> \notin same]]

MovePath(i, from, to) ==
    /\ revision' = revision + 1
    /\ rows' = IF rows[i][from] = 0 THEN rows
               ELSE [rows EXCEPT ![i] = Moved(@, from, to)]
    /\ Overtake(i, {from, to}, {<<from, to>>})
    /\ UNCHANGED account

DeletePath(i, p) ==
    /\ rows' = [rows EXCEPT ![i][p] = 0]
    /\ Overtake(i, {p}, {})
    /\ UNCHANGED <<revision, account>>

Relink(i) ==
    /\ account' = [account EXCEPT ![i] = @ + 1]
    /\ UNCHANGED <<log, rows, revision>>

-----------------------------------------------------------------------------
Next ==
    \/ \E i \in Identities : Queue(i) \/ Relink(i)
    \/ \E j \in DOMAIN log : Apply(j) \/ Tell(j) \/ Conclude(j) \/ Retire(j)
    \/ \E i \in Identities, p \in Paths :
           \/ Edit(i, p) \/ DeletePath(i, p)
           \/ \E q \in Paths : MovePath(i, p, q)

Spec == Init /\ [][Next]_vars
===============================================================================
