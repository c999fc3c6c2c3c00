------------------------------ MODULE JobService ------------------------------
(***************************************************************************)
(* What the runner of long jobs promises to those who submit, list, watch  *)
(* and cancel them, whatever its queues, counters, promises and timers do: *)
(* each identity's jobs start in the order they were submitted, at most    *)
(* Concurrency at a time, and one that can start does so in the step that  *)
(* lets it; a job that has settled stays as it is; it is announced with    *)
(* its outcome and no other, and can be looked up until then; and only     *)
(* what was asked to stop is cancelled.  Specified from the interface and  *)
(* the comments of apps/api/src/jobs/runner.ts; JobRunner implements it.   *)
(***************************************************************************)
EXTENDS Naturals, FiniteSets, Sequences

CONSTANTS Identities, Concurrency, MaxJobs, Submissions

Jobs == 1..Submissions

Settled == {"done", "failed", "cancelled"}

(***************************************************************************)
(* owner: whose each accepted job is, in the order they were accepted.     *)
(* state: "none" until a job is accepted, then what it is in.              *)
(* asked: the jobs somebody asked to stop.                                 *)
(* announced: the state the subscribers heard of last.                     *)
(* listed: the jobs that can be looked up and cancelled.                   *)
(***************************************************************************)
VARIABLES owner, state, asked, announced, listed

vars == <<owner, state, asked, announced, listed>>

Init ==
    /\ owner = <<>>
    /\ state = [j \in Jobs |-> "none"]
    /\ asked = {}
    /\ announced = [j \in Jobs |-> "none"]
    /\ listed = {}

In(i, s) == {j \in 1..Len(owner) : owner[j] = i /\ state[j] = s}

(* The job of i that has waited longest, as a set of one job at most.      *)
Oldest(i) == {j \in In(i, "queued") : \A k \in In(i, "queued") : j <= k}

Forgettable == {j \in listed : state[j] \in Settled /\ announced[j] = state[j]}

(***************************************************************************)
(* A job is taken on if there is room for it, which forgetting may make.   *)
(***************************************************************************)
Accept(i) ==
    LET new == Len(owner) + 1
        first == IF Cardinality(In(i, "running")) < Concurrency
                 THEN "running" ELSE "queued"
    IN  /\ new \in Jobs
        /\ owner' = Append(owner, i)
        /\ state' = [state EXCEPT ![new] = first]
        /\ announced' = [announced EXCEPT ![new] = first]
        /\ \E gone \in SUBSET Forgettable :
              /\ Cardinality(listed \ gone) < MaxJobs
              /\ listed' = (listed \ gone) \union {new}
        /\ UNCHANGED asked

(* A job ends, and the next of its owner starts with the same step.        *)
Finish(j, outcome) ==
    LET next == Oldest(owner[j]) IN
    /\ state[j] = "running"
    /\ outcome = "cancelled" => j \in asked
    /\ outcome = "failed" => j \notin asked
    /\ state' = [k \in Jobs |-> IF k \in next THEN "running"
                                ELSE IF k = j THEN outcome ELSE state[k]]
    /\ \E told \in BOOLEAN :
          announced' = [k \in Jobs |-> IF k \in next THEN "running"
                                       ELSE IF k = j /\ told THEN outcome ELSE announced[k]]
    /\ UNCHANGED <<owner, asked, listed>>

Announce(j) ==
    /\ state[j] \in Settled /\ announced[j] \notin Settled
    /\ announced' = [announced EXCEPT ![j] = state[j]]
    /\ UNCHANGED <<owner, state, asked, listed>>

Ask(j) ==
    /\ j \in listed /\ state[j] = "running"
    /\ asked' = asked \union {j}
    /\ UNCHANGED <<owner, state, announced, listed>>

(* A job that has not started is cancelled by the request itself.          *)
Withdraw(j) ==
    /\ j \in listed /\ state[j] = "queued"
    /\ asked' = asked \union {j}
    /\ state' = [state EXCEPT ![j] = "cancelled"]
    /\ \E told \in BOOLEAN :
          announced' = IF told THEN [announced EXCEPT ![j] = "cancelled"] ELSE announced
    /\ UNCHANGED <<owner, listed>>

Forget ==
    /\ \E gone \in SUBSET Forgettable : listed' = listed \ gone
    /\ UNCHANGED <<owner, state, asked, announced>>

Next ==
    \/ \E i \in Identities : Accept(i)
    \/ \E j \in Jobs :
        \/ \E outcome \in Settled : Finish(j, outcome)
        \/ Announce(j) \/ Ask(j) \/ Withdraw(j)
    \/ Forget

Spec == Init /\ [][Next]_vars
===============================================================================
