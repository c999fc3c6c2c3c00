------------------------------ MODULE MCRequests ------------------------------
(***************************************************************************)
(* Five parts of the API that share no state, checked together like those  *)
(* of MCServices: long jobs, commits that meet at one path, publications   *)
(* under a WebDAV lease, one AI chat, and the connection that listens to   *)
(* the indexer.                                                            *)
(***************************************************************************)
EXTENDS MCDesktopPublish, MCJobRunner, AiChat, IndexerListener,
        WebdavLease

CONSTANTS k1, k2

VARIABLE part

Parts == {"jobs", "commits", "leases", "chat", "listener"}

(* While a request is handled, replies may go on, or nothing else moves.   *)
AloneOrWithReplies == {{}, {"replies"}}

WithReplies == {{"replies"}}

(* A save under one lease, any publication under the other.                *)
SaveMeetsAny == {(k1 :> "save") @@ (k2 :> use) : use \in {"save", "create", "folder"}}

SaveMeetsSave == (k1 :> "save") @@ (k2 :> "save")

(* Bound: only the second job, if any, is bob's.                           *)
SecondOfBob == \A n \in 1..Len(inputs') : inputs'[n].identity = bob => n = 2

(* Bound: only the first job leaves work behind when it throws.            *)
OnlyTheFirstLeavesWork == \A j \in JobIds : step'[j] = "left" => j = 1

RequestsInit ==
    /\ part \in Parts
    /\ JobInit /\ Init /\ LeaseInit /\ ChatInit /\ ListenerInit
    /\ part # "commits" => live.content = Original /\ kind \in [Writers -> {"save"}]
    /\ part # "leases" => uses = SaveMeetsSave /\ resource = NoLease
    /\ part # "chat" => meets = {}

RequestsNext ==
    \/ /\ part = "jobs" /\ JobNext /\ SecondOfBob /\ OnlyTheFirstLeavesWork
       /\ UNCHANGED <<part, vars, leaseVars, chatVars, listenerVars>>
    \/ /\ part = "commits" /\ Next
       /\ UNCHANGED <<part, jobVars, leaseVars, chatVars, listenerVars>>
    \/ /\ part = "leases" /\ LeaseNext
       /\ UNCHANGED <<part, jobVars, vars, chatVars, listenerVars>>
    \/ /\ part = "chat" /\ ChatNext
       /\ UNCHANGED <<part, jobVars, vars, leaseVars, listenerVars>>
    \/ /\ part = "listener" /\ ListenerNext
       /\ UNCHANGED <<part, jobVars, vars, leaseVars, chatVars>>

requestsVars == <<part, jobVars, vars, leaseVars, chatVars, listenerVars>>

(***************************************************************************)
(* The fairness of each part, asked of the one that was chosen.            *)
(***************************************************************************)
RequestsFairness ==
    /\ \A j \in JobIds : WF_jobVars(part = "jobs" /\ Callback(j))
    /\ \A w \in Writers :
        /\ WF_vars(part = "commits" /\ Prepare(w))
        /\ WF_vars(part = "commits" /\ Claim(w))
        /\ WF_vars(part = "commits" /\ Step(w))
    /\ \A l \in Leases :
        /\ WF_leaseVars(part = "leases" /\ LeaseStep(l))
        /\ WF_leaseVars(part = "leases" /\ RenewalStep(l))
    /\ WF_chatVars(part = "chat" /\ ChatWork)
    /\ WF_listenerVars(part = "listener" /\ ListenerWork)

RequestsSpec == RequestsInit /\ [][RequestsNext]_requestsVars /\ RequestsFairness

(* The state of the part that moves has its type, as its module says.      *)
RequestsTypeOK ==
    CASE part = "jobs" -> JobTypeOK
      [] part = "commits" -> TypeOK
      [] part = "leases" -> LeaseTypeOK
      [] part = "chat" -> ChatTypeOK
      [] part = "listener" -> ListenerTypeOK

(***************************************************************************)
(* What was begun comes to its end: every accepted job has a terminal      *)
(* event and leaves memory, every commit ends, every lease frees the       *)
(* storage, every reply and every request of a chat ends, and the indexer  *)
(* is listened to until the API stops.                                     *)
(***************************************************************************)
EveryRequestSettles ==
    EveryJobSettles /\ EveryCommitEnds /\ LeasesSettle /\ ChatSettles /\ ListenerSettles
===============================================================================
