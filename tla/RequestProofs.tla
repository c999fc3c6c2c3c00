----------------------------- MODULE RequestProofs -----------------------------
(***************************************************************************)
(* Proofs about what the API does on request: the job runner, for every    *)
(* set of identities, concurrency limit, capacity and number of            *)
(* submissions; the AI chat, for every number of requests and calls; the   *)
(* listener of the indexer's notifications; and the WebDAV write lease.    *)
(*                                                                         *)
(* The job runner's slot accounting is exact, no slot idles while a job    *)
(* waits, no unsettled job is dropped from the map, a terminal event is    *)
(* durable and final, and the runner implements JobService.  JobIndInv     *)
(* (JobRunner) is the inductive invariant: the slot counter alone is not   *)
(* inductive, because refilling a slot takes the head of a queue, which    *)
(* must be a queued job of that identity, and finishing a job must take it *)
(* from the running set exactly once.  The other parts name theirs.        *)
(***************************************************************************)
EXTENDS JobRunner, AiChat, IndexerListener, WebdavLease, FiniteSetTheorems, SequenceTheorems, TLAPS

(* Splicing one entry out of a queue keeps the others in their order.      *)
LEMMA SpliceProperties ==
    ASSUME NEW S, NEW q \in Seq(S), NEW n \in 1..Len(q)
    PROVE  /\ Splice(q, n) \in Seq(S)
           /\ Len(Splice(q, n)) = Len(q) - 1
           /\ \A k \in 1..(Len(q) - 1) :
                Splice(q, n)[k] = IF k < n THEN q[k] ELSE q[k + 1]
  <1> DEFINE a == SubSeq(q, 1, n - 1)
             b == SubSeq(q, n + 1, Len(q))
  <1>0. Len(q) \in Nat /\ \A k \in 1..Len(q) : q[k] \in S
    BY LenProperties, ElementOfSeq
  <1>1. /\ a \in Seq(S) /\ Len(a) = n - 1
        /\ \A k \in 1..(n - 1) : a[k] = q[k]
    <2>1. n - 1 \in Int /\ \A k \in 1..(n - 1) : q[k] \in S
      BY <1>0
    <2> QED  BY <1>0, <2>1, SubSeqProperties
  <1>2. /\ b \in Seq(S) /\ Len(b) = Len(q) - n
        /\ \A k \in 1..(Len(q) - n) : b[k] = q[n + k]
    <2>1. n + 1 \in Int /\ Len(q) \in Int /\ \A k \in (n + 1)..Len(q) : q[k] \in S
      BY <1>0
    <2> QED  BY <1>0, <2>1, SubSeqProperties
  <1>3. /\ a \o b \in Seq(S) /\ Len(a \o b) = Len(a) + Len(b)
        /\ \A k \in 1..(Len(a) + Len(b)) :
             (a \o b)[k] = IF k <= Len(a) THEN a[k] ELSE b[k - Len(a)]
    BY <1>1, <1>2, ConcatProperties
  <1>4. Splice(q, n) = a \o b
    BY DEF Splice
  <1> HIDE DEF a, b
  <1>5. \A k \in 1..(Len(q) - 1) :
           (a \o b)[k] = IF k < n THEN q[k] ELSE q[k + 1]
    <2> TAKE k \in 1..(Len(q) - 1)
    <2>1. CASE k < n
      BY <1>0, <1>1, <1>2, <1>3, <2>1
    <2>2. CASE ~(k < n)
      <3>1. k - Len(a) \in 1..(Len(q) - n) /\ n + (k - Len(a)) = k + 1
        BY <1>0, <1>1, <2>2
      <3>2. (a \o b)[k] = b[k - Len(a)]
        BY <1>0, <1>1, <1>2, <1>3, <2>2
      <3> QED  BY <1>2, <2>2, <3>1, <3>2
    <2> QED  BY <2>1, <2>2
  <1>6. Len(a \o b) = Len(q) - 1
    BY <1>0, <1>1, <1>2, <1>3
  <1> QED  BY <1>3, <1>4, <1>5, <1>6, Zenon

(* The running jobs of an identity form a finite set.                      *)
LEMMA RunningIsFinite ==
    ASSUME JobTypeOK, NEW i \in Identities
    PROVE  IsFiniteSet(Running(i)) /\ Cardinality(Running(i)) \in Nat
  <1>1. Len(inputs) \in Nat
    BY LenProperties DEF JobTypeOK
  <1>2. IsFiniteSet(1..Len(inputs))
    BY <1>1, FS_Interval
  <1>3. Running(i) \in SUBSET (1..Len(inputs))
    BY DEF Running, Of, Accepted
  <1> QED  BY <1>2, <1>3, FS_Subset, FS_CardinalityType

THEOREM InitIndInv == JobInit => JobIndInv
  <1> SUFFICES ASSUME JobInit PROVE JobIndInv
    OBVIOUS
  <1>1. inputs = <<>> /\ Len(inputs) = 0 /\ Accepted = {}
    BY DEF JobInit, Accepted
  <1>2. JobTypeOK
    <2>1. inputs \in Seq(Inputs) /\ Len(inputs) <= Submissions
      BY <1>1, SubmissionsAssumption
    <2> QED  BY <2>1 DEF JobInit, JobTypeOK, JobStates
  <1>3. \A i \in Identities : Running(i) = {} /\ Queued(i) = {}
    BY <1>1 DEF Running, Queued, Of
  <1>4. SlotsMatchRunningJobs
    <2>1. Cardinality({}) = 0
      BY FS_EmptySet
    <2>2. \A i \in Identities : runningCounts[i] = 0
      BY DEF JobInit
    <2>3. \A i \in Identities : Cardinality(Running(i)) = 0
      BY <1>3, <2>1
    <2> QED  BY <2>2, <2>3, ConcurrencyAssumption DEF SlotsMatchRunningJobs
  <1>5. QueuesAreExact
    BY <1>3 DEF JobInit, QueuesAreExact
  <1>6. SlotsAreRefilled
    BY DEF JobInit, SlotsAreRefilled
  <1>7. JobsAreCoherent
    BY <1>1 DEF JobInit, JobsAreCoherent, Terminal
  <1>8. UnsettledJobsAreHeld
    BY <1>1 DEF UnsettledJobsAreHeld
  <1> QED  BY <1>2, <1>4, <1>5, <1>6, <1>7, <1>8 DEF JobIndInv

-----------------------------------------------------------------------------
(* Facts about one accepted job, read off the inductive invariant.         *)
LEMMA AcceptedJob ==
    ASSUME JobIndInv, NEW j \in JobIds, jobState[j] # "none"
    PROVE  /\ j \in Accepted
           /\ inputs[j] \in Inputs
           /\ inputs[j].identity \in Identities
           /\ inputs[j].onOutcome \in BOOLEAN
           /\ j \in Of(inputs[j].identity)
  <1>1. j \in Accepted
    BY DEF JobIndInv, JobsAreCoherent
  <1>2. inputs[j] \in Inputs
    BY <1>1, ElementOfSeq DEF JobIndInv, JobTypeOK, Accepted
  <1>3. inputs[j].identity \in Identities /\ inputs[j].onOutcome \in BOOLEAN
    BY <1>2, InputsAssumption
  <1> QED  BY <1>1, <1>2, <1>3 DEF Of

(* The accepted jobs are among the job ids.                                *)
LEMMA AcceptedAreJobs ==
    ASSUME JobIndInv PROVE Accepted \subseteq JobIds
  <1>1. Len(inputs) \in Nat /\ Len(inputs) <= Submissions
    BY LenProperties DEF JobIndInv, JobTypeOK
  <1> QED  BY <1>1, SubmissionsAssumption DEF Accepted, JobIds

(* The slots of an identity whose jobs keep their state keep their count.  *)
LEMMA UntouchedStates ==
    ASSUME JobIndInv, UNCHANGED <<jobState, inputs, queues, runningCounts>>
    PROVE  /\ SlotsMatchRunningJobs'
           /\ QueuesAreExact'
           /\ SlotsAreRefilled'
  <1>1. Accepted' = Accepted /\ \A i : Of(i)' = Of(i)
    BY DEF Accepted, Of
  <1>2. \A i : Running(i)' = Running(i) /\ Queued(i)' = Queued(i)
    BY <1>1 DEF Running, Queued
  <1> QED
    BY <1>2 DEF JobIndInv, SlotsMatchRunningJobs, QueuesAreExact, SlotsAreRefilled

(* An identity whose queue and whose queued jobs stay as they are keeps an  *)
(* exact queue, whatever happens to the others.                            *)
LEMMA UntouchedQueue ==
    ASSUME JobIndInv, NEW k \in Identities,
           queues'[k] = queues[k], Queued(k)' = Queued(k)
    PROVE  /\ \A n \in 1..Len(queues'[k]) : queues'[k][n] \in Queued(k)'
           /\ \A l \in Queued(k)' : \E n \in 1..Len(queues'[k]) : queues'[k][n] = l
           /\ \A m, n \in 1..Len(queues'[k]) : m < n => queues'[k][m] < queues'[k][n]
  <1>1. /\ \A n \in 1..Len(queues[k]) : queues[k][n] \in Queued(k)
        /\ \A l \in Queued(k) : \E n \in 1..Len(queues[k]) : queues[k][n] = l
        /\ \A m, n \in 1..Len(queues[k]) : m < n => queues[k][m] < queues[k][n]
    BY DEF JobIndInv, QueuesAreExact
  <1> HIDE DEF JobIndInv
  <1> QED  BY <1>1

(* Capacity pruning takes only settled jobs out of the map.                *)
LEMMA EvictedAreSettled ==
    ASSUME NEW j \in Evicted
    PROVE  j \in jobs /\ ~historyPending[j] /\ jobState[j] \in Terminal
  BY DEF Evicted, Evictable

LEMMA SubmitRefusedStep ==
    ASSUME JobIndInv, SubmitRefused PROVE JobIndInv'
  <1> USE DEF SubmitRefused
  <1>1. SlotsMatchRunningJobs' /\ QueuesAreExact' /\ SlotsAreRefilled'
    BY UntouchedStates
  <1>2. JobTypeOK'
    BY DEF JobIndInv, JobTypeOK
  <1>3. Accepted' = Accepted
    BY DEF Accepted
  <1>4. JobsAreCoherent'
    BY <1>3 DEF JobIndInv, JobsAreCoherent
  <1>5. UnsettledJobsAreHeld'
    <2>1. \A j \in Evicted : ~(jobState[j] \in {"queued", "running"} \/ historyPending[j])
      BY EvictedAreSettled DEF Terminal
    <2> QED  BY <1>3, <2>1 DEF JobIndInv, UnsettledJobsAreHeld
  <1> QED  BY <1>1, <1>2, <1>4, <1>5 DEF JobIndInv

LEMMA AuthorizedStep ==
    ASSUME JobIndInv, NEW j \in JobIds, Authorized(j) PROVE JobIndInv'
  <1> USE DEF Authorized
  <1>1. SlotsMatchRunningJobs' /\ QueuesAreExact' /\ SlotsAreRefilled'
    BY UntouchedStates
  <1>2. JobTypeOK'
    BY DEF JobIndInv, JobTypeOK
  <1>3. Accepted' = Accepted
    BY DEF Accepted
  <1>4. JobsAreCoherent'
    BY <1>3 DEF JobIndInv, JobTypeOK, JobsAreCoherent
  <1>5. UnsettledJobsAreHeld'
    BY <1>3 DEF JobIndInv, UnsettledJobsAreHeld
  <1> QED  BY <1>1, <1>2, <1>4, <1>5 DEF JobIndInv

LEMMA RecordedStep ==
    ASSUME JobIndInv, NEW j \in JobIds, Recorded(j) PROVE JobIndInv'
  <1> USE DEF Recorded
  <1>1. SlotsMatchRunningJobs' /\ QueuesAreExact' /\ SlotsAreRefilled'
    BY UntouchedStates
  <1>2. JobTypeOK'
    BY DEF JobIndInv, JobTypeOK
  <1>3. Accepted' = Accepted
    BY DEF Accepted
  <1>4. JobsAreCoherent'
    <2>1. /\ jobState[j] \in Terminal
          /\ \A k \in JobIds :
                /\ historyPending'[k] = IF k = j THEN FALSE ELSE historyPending[k]
                /\ step'[k] = IF k = j THEN "idle" ELSE step[k]
      BY DEF JobIndInv, JobTypeOK, JobsAreCoherent
    <2>2. \A k \in timers' : jobState'[k] \in Terminal /\ ~historyPending'[k]
      BY <2>1 DEF JobIndInv, JobTypeOK, JobsAreCoherent
    <2>3. \A k \in JobIds : (step'[k] \in {"authorize", "run"}) <=> (jobState'[k] = "running")
      BY <2>1 DEF JobIndInv, JobsAreCoherent, Terminal
    <2> QED  BY <1>3, <2>1, <2>2, <2>3 DEF JobIndInv, JobsAreCoherent
  <1>5. UnsettledJobsAreHeld'
    <2>1. \A k \in Accepted : historyPending'[k] => historyPending[k]
      BY <1>2 DEF JobIndInv, JobTypeOK, Accepted
    <2> QED  BY <1>3, <2>1 DEF JobIndInv, UnsettledJobsAreHeld
  <1> QED  BY <1>1, <1>2, <1>4, <1>5 DEF JobIndInv

LEMMA ReportStep ==
    ASSUME JobIndInv, NEW j \in JobIds, Report(j) PROVE JobIndInv'
  <1> USE DEF Report
  <1>1. SlotsMatchRunningJobs' /\ QueuesAreExact' /\ SlotsAreRefilled'
    BY UntouchedStates
  <1>2. JobTypeOK'
    BY DEF JobIndInv, JobTypeOK
  <1>3. Accepted' = Accepted
    BY DEF Accepted
  <1>4. JobsAreCoherent'
    BY <1>3 DEF JobIndInv, JobsAreCoherent
  <1>5. UnsettledJobsAreHeld'
    BY <1>3 DEF JobIndInv, UnsettledJobsAreHeld
  <1> QED  BY <1>1, <1>2, <1>4, <1>5 DEF JobIndInv

LEMMA RetentionPruneStep ==
    ASSUME JobIndInv, NEW j \in JobIds, RetentionPrune(j) PROVE JobIndInv'
  <1> USE DEF RetentionPrune
  <1>1. SlotsMatchRunningJobs' /\ QueuesAreExact' /\ SlotsAreRefilled'
    BY UntouchedStates
  <1>2. JobTypeOK'
    BY DEF JobIndInv, JobTypeOK
  <1>3. Accepted' = Accepted
    BY DEF Accepted
  <1>4. JobsAreCoherent'
    BY <1>3 DEF JobIndInv, JobsAreCoherent
  <1>5. UnsettledJobsAreHeld'
    <2>1. jobState[j] \in Terminal /\ ~historyPending[j]
      BY DEF JobIndInv, JobsAreCoherent
    <2> QED  BY <1>3, <2>1 DEF JobIndInv, UnsettledJobsAreHeld, Terminal
  <1> QED  BY <1>1, <1>2, <1>4, <1>5 DEF JobIndInv

LEMMA CancelRunningStep ==
    ASSUME JobIndInv, NEW j \in JobIds, CancelRunning(j) PROVE JobIndInv'
  <1> USE DEF CancelRunning
  <1>1. SlotsMatchRunningJobs' /\ QueuesAreExact' /\ SlotsAreRefilled'
    BY UntouchedStates
  <1>2. JobTypeOK'
    BY DEF JobIndInv, JobTypeOK
  <1>3. Accepted' = Accepted
    BY DEF Accepted
  <1>4. JobsAreCoherent'
    BY <1>3 DEF JobIndInv, JobsAreCoherent
  <1>5. UnsettledJobsAreHeld'
    BY <1>3 DEF JobIndInv, UnsettledJobsAreHeld
  <1> QED  BY <1>1, <1>2, <1>4, <1>5 DEF JobIndInv
(***************************************************************************)
(* A job that finishes while it runs gives its slot to the head of its     *)
(* identity's queue, or back.                                              *)
(***************************************************************************)
LEMMA FinishRunningStep ==
    ASSUME JobIndInv, NEW j \in JobIds, jobState[j] = "running",
           NEW outcome \in Terminal, NEW behind \in {"idle", "left"},
           FinishRunning(j, outcome, behind)
    PROVE  JobIndInv'
  <1>0. PICK i \in Identities : i = inputs[j].identity
    BY AcceptedJob
  <1> DEFINE freed == IF runningCounts[i] = 0 THEN 0 ELSE runningCounts[i] - 1
             started == NextQueued(freed, queues[i])
  <1>1. /\ j \in Accepted /\ i \in Identities /\ j \in Running(i)
        /\ inputs[j].onOutcome \in BOOLEAN
    BY <1>0, AcceptedJob DEF Running
  <1>2. /\ queues[i] \in Seq(JobIds) /\ Len(queues[i]) \in Nat
        /\ runningCounts[i] \in Nat
        /\ Accepted' = Accepted /\ \A k : Of(k)' = Of(k)
    BY <1>1, LenProperties DEF JobIndInv, JobTypeOK, FinishRunning, Accepted, Of
  <1>3. runningCounts[i] >= 1 /\ freed = runningCounts[i] - 1
    <2>1. Running(i) # {} /\ IsFiniteSet(Running(i)) /\ Cardinality(Running(i)) \in Nat
      BY <1>1, RunningIsFinite DEF JobIndInv
    <2>2. Cardinality(Running(i)) # 0
      BY <2>1, FS_EmptySet
    <2> QED  BY <1>1, <1>2, <2>1, <2>2 DEF JobIndInv, SlotsMatchRunningJobs
  <1>4. \/ queues[i] = <<>> /\ started = {}
        \/ /\ queues[i] # <<>> /\ started = {queues[i][1]}
           /\ Len(queues[i]) >= 1
           /\ queues[i][1] \in Queued(i) /\ queues[i][1] # j
           /\ queues[i][1] \in JobIds
           /\ runningCounts[i] = Concurrency
    <2>1. CASE queues[i] = <<>>
      BY <2>1 DEF NextQueued
    <2>2. CASE queues[i] # <<>>
      <3>1. Len(queues[i]) >= 1 /\ Head(queues[i]) = queues[i][1]
        BY <1>2, <2>2
      <3>2. runningCounts[i] = Concurrency
        BY <1>1, <1>2, <2>2, ConcurrencyAssumption
           DEF JobIndInv, SlotsAreRefilled, SlotsMatchRunningJobs
      <3>3. started = {queues[i][1]}
        BY <1>3, <2>2, <3>1, <3>2, ConcurrencyAssumption DEF NextQueued
      <3>4. queues[i][1] \in Queued(i)
        BY <1>1, <3>1 DEF JobIndInv, QueuesAreExact
      <3>5. queues[i][1] # j /\ queues[i][1] \in JobIds
        BY <1>2, <3>1, <3>4 DEF Queued
      <3> QED  BY <2>2, <3>1, <3>2, <3>3, <3>4, <3>5
    <2> QED  BY <2>1, <2>2
  <1>5. started \subseteq Queued(i) /\ j \notin started /\ started \subseteq JobIds
    BY <1>4
  <1>6. /\ jobState' = [k \in JobIds |->
                       IF k \in started THEN "running"
                       ELSE IF k = j THEN outcome ELSE jobState[k]]
        /\ step' = [k \in JobIds |->
                       IF k \in started THEN FirstStep(inputs[k])
                       ELSE IF k = j THEN behind ELSE step[k]]
        /\ queues' = [queues EXCEPT ![i] = IF started = {} THEN @ ELSE Tail(@)]
        /\ runningCounts' = [runningCounts EXCEPT ![i] =
                       IF started = {} THEN freed ELSE freed + 1]
        /\ lastEvent' = [k \in JobIds |->
                       IF k \in started THEN "running"
                       ELSE IF k = j /\ AnnouncedAtOnce(j) THEN outcome
                       ELSE lastEvent[k]]
        /\ jobs' = jobs /\ inputs' = inputs /\ aborted' = aborted
    BY <1>0 DEF FinishRunning
  <1>7. /\ historyPending' = [historyPending EXCEPT ![j] = inputs[j].onOutcome]
        /\ timers' = IF inputs[j].onOutcome THEN timers ELSE timers \union {j}
    BY DEF FinishRunning, SettleJob
  <1> HIDE DEF started, freed
  <1>8. JobTypeOK'
    <2>1. jobState' \in [JobIds -> JobStates \union {"none"}]
      BY <1>6 DEF JobIndInv, JobTypeOK, JobStates
    <2>2. lastEvent' \in [JobIds -> JobStates \union {"none"}]
      BY <1>6 DEF JobIndInv, JobTypeOK, JobStates
    <2>3. step' \in [JobIds -> {"idle", "authorize", "run", "left"}]
      BY <1>6 DEF JobIndInv, JobTypeOK, FirstStep
    <2>4. queues' \in [Identities -> Seq(JobIds)]
      <3>1. started # {} => Tail(queues[i]) \in Seq(JobIds)
        BY <1>2, <1>4, HeadTailProperties
      <3> QED  BY <1>6, <3>1 DEF JobIndInv, JobTypeOK
    <2>5. runningCounts' \in [Identities -> Nat]
      BY <1>2, <1>3, <1>6 DEF JobIndInv, JobTypeOK
    <2>6. historyPending' \in [JobIds -> BOOLEAN]
      BY <1>1, <1>7 DEF JobIndInv, JobTypeOK
    <2>7. timers' \subseteq JobIds
      BY <1>7 DEF JobIndInv, JobTypeOK
    <2> QED  BY <1>6, <2>1, <2>2, <2>3, <2>4, <2>5, <2>6, <2>7 DEF JobIndInv, JobTypeOK
  <1>9. /\ Running(i)' = (Running(i) \ {j}) \union started
        /\ Queued(i)' = Queued(i) \ started
        /\ \A k \in Identities \ {i} : Running(k)' = Running(k) /\ Queued(k)' = Queued(k)
    <2>1. \A k \in Accepted : k \in JobIds
      BY AcceptedAreJobs
    <2>2. \A k \in started : k \in Of(i)
      BY <1>5 DEF Queued
    <2>3. \A k \in Identities \ {i} : j \notin Of(k) /\ \A l \in started : l \notin Of(k)
      BY <1>0, <2>2 DEF Of
    <2>4. \A k : Of(k) \subseteq Accepted
      BY DEF Of
    <2>5. \A k \in JobIds : jobState'[k] = IF k \in started THEN "running"
                                ELSE IF k = j THEN outcome ELSE jobState[k]
      BY <1>6
    <2>6. outcome # "running" /\ outcome # "queued"
      BY DEF Terminal
    <2>7. Running(i)' = (Running(i) \ {j}) \union started
      BY <1>1, <1>2, <2>1, <2>2, <2>4, <2>5, <2>6 DEF Running
    <2>8. Queued(i)' = Queued(i) \ started
      BY <1>1, <1>2, <2>1, <2>4, <2>5, <2>6 DEF Queued
    <2>9. ASSUME NEW k \in Identities \ {i}
          PROVE  Running(k)' = Running(k) /\ Queued(k)' = Queued(k)
      BY <1>2, <2>1, <2>3, <2>4, <2>5 DEF Running, Queued
    <2> QED  BY <2>7, <2>8, <2>9
  <1>10. SlotsMatchRunningJobs'
    <2>1. /\ IsFiniteSet(Running(i)) /\ Cardinality(Running(i)) = runningCounts[i]
          /\ runningCounts[i] <= Concurrency
      BY <1>1, RunningIsFinite DEF JobIndInv, SlotsMatchRunningJobs
    <2>2. /\ IsFiniteSet(Running(i) \ {j})
          /\ Cardinality(Running(i) \ {j}) = runningCounts[i] - 1
      BY <1>1, <2>1, FS_RemoveElement
    <2>3. CASE started = {}
      <3>1. Running(i)' = Running(i) \ {j}
        BY <1>9, <2>3
      <3>2. runningCounts'[i] = runningCounts[i] - 1
        BY <1>1, <1>3, <1>6, <2>3 DEF JobIndInv, JobTypeOK
      <3>3. \A k \in Identities \ {i} : runningCounts'[k] = runningCounts[k]
        BY <1>6 DEF JobIndInv, JobTypeOK
      <3>4. /\ runningCounts'[i] = Cardinality(Running(i)')
            /\ runningCounts'[i] <= Concurrency
        BY <1>2, <2>1, <2>2, <3>1, <3>2, ConcurrencyAssumption
      <3> QED
        BY <1>9, <3>3, <3>4 DEF JobIndInv, SlotsMatchRunningJobs
    <2>4. CASE started # {}
      <3> DEFINE h == queues[i][1]
      <3>1. started = {h} /\ h \in Queued(i) /\ h # j
        BY <1>4, <2>4
      <3>2. h \notin Running(i)
        BY <3>1 DEF Queued, Running
      <3>3. Cardinality(Running(i)') = runningCounts[i]
        <4>1. Running(i)' = (Running(i) \ {j}) \union {h} /\ h \notin Running(i) \ {j}
          BY <1>9, <3>1, <3>2
        <4> DEFINE T == Running(i) \ {j}
        <4>2. IsFiniteSet(T) /\ Cardinality(T) = runningCounts[i] - 1
          BY <2>2
        <4> HIDE DEF T
        <4>3. Cardinality(T \union {h}) = IF h \in T THEN Cardinality(T) ELSE Cardinality(T) + 1
          BY <4>2, FS_AddElement
        <4>4. Cardinality(T \union {h}) = runningCounts[i]
          BY <1>2, <4>1, <4>2, <4>3 DEF T
        <4> QED  BY <4>1, <4>4 DEF T
      <3>4. runningCounts'[i] = runningCounts[i]
        BY <1>1, <1>2, <1>3, <1>6, <2>4 DEF JobIndInv, JobTypeOK
      <3>5. \A k \in Identities \ {i} : runningCounts'[k] = runningCounts[k]
        BY <1>6 DEF JobIndInv, JobTypeOK
      <3> QED
        BY <1>9, <2>1, <3>3, <3>4, <3>5 DEF JobIndInv, SlotsMatchRunningJobs
    <2> QED  BY <2>3, <2>4
  <1>11. QueuesAreExact'
    <2>1. \A k \in Identities \ {i} : queues'[k] = queues[k]
      BY <1>6 DEF JobIndInv, JobTypeOK
    <2>2. CASE started = {}
      <3>1. queues' = queues /\ Queued(i)' = Queued(i)
        BY <1>6, <1>9, <2>2 DEF JobIndInv, JobTypeOK
      <3>2. \A k \in Identities : queues'[k] = queues[k] /\ Queued(k)' = Queued(k)
        BY <1>9, <3>1
      <3>3. ASSUME NEW k \in Identities
            PROVE  /\ \A n \in 1..Len(queues'[k]) : queues'[k][n] \in Queued(k)'
                   /\ \A l \in Queued(k)' : \E n \in 1..Len(queues'[k]) : queues'[k][n] = l
                   /\ \A m, n \in 1..Len(queues'[k]) : m < n => queues'[k][m] < queues'[k][n]
        <4>1. queues'[k] = queues[k] /\ Queued(k)' = Queued(k)
          BY <3>2
        <4> QED  BY <4>1, UntouchedQueue
      <3> QED  BY <3>3 DEF QueuesAreExact
    <2>3. CASE started # {}
      <3> DEFINE q == queues[i]
      <3>1. /\ queues'[i] = Tail(q) /\ q # <<>> /\ started = {q[1]} /\ Len(q) >= 1
        BY <1>1, <1>4, <1>6, <2>3 DEF JobIndInv, JobTypeOK
      <3>2. /\ Len(Tail(q)) = Len(q) - 1
            /\ \A n \in 1..Len(Tail(q)) : Tail(q)[n] = q[n + 1]
        BY <1>2, <3>1, HeadTailProperties
      <3>3. /\ \A n \in 1..Len(q) : q[n] \in Queued(i)
            /\ \A k \in Queued(i) : \E n \in 1..Len(q) : q[n] = k
            /\ \A m, n \in 1..Len(q) : m < n => q[m] < q[n]
        BY <1>1 DEF JobIndInv, QueuesAreExact
      <3>4. \A n \in 1..Len(Tail(q)) : Tail(q)[n] \in Queued(i)'
        <4> TAKE n \in 1..Len(Tail(q))
        <4>1. n + 1 \in 1..Len(q) /\ 1 \in 1..Len(q) /\ 1 < n + 1
          BY <1>2, <3>1, <3>2
        <4>2. q[1] < q[n + 1] /\ q[n + 1] \in Queued(i) /\ q[1] \in JobIds /\ q[n + 1] \in JobIds
          BY <1>2, <3>3, <4>1, ElementOfSeq
        <4>3. q[n + 1] # q[1]
          BY <4>2 DEF JobIds
        <4> QED  BY <1>9, <3>1, <3>2, <4>2, <4>3
      <3>5. \A k \in Queued(i)' : \E n \in 1..Len(Tail(q)) : Tail(q)[n] = k
        <4> TAKE k \in Queued(i)'
        <4>1. k \in Queued(i) /\ k # q[1]
          BY <1>9, <3>1
        <4>2. PICK n \in 1..Len(q) : q[n] = k
          BY <3>3, <4>1
        <4>3. n - 1 \in 1..Len(Tail(q)) /\ (n - 1) + 1 = n
          BY <1>2, <3>2, <4>1, <4>2
        <4>4. Tail(q)[n - 1] = k
          BY <3>2, <4>2, <4>3
        <4> QED  BY <4>3, <4>4
      <3>6. \A m, n \in 1..Len(Tail(q)) : m < n => Tail(q)[m] < Tail(q)[n]
        <4> TAKE m, n \in 1..Len(Tail(q))
        <4>1. m + 1 \in 1..Len(q) /\ n + 1 \in 1..Len(q) /\ (m < n => m + 1 < n + 1)
          BY <1>2, <3>2
        <4> QED  BY <3>2, <3>3, <4>1
      <3>7. \A k \in Identities \ {i} :
              /\ \A n \in 1..Len(queues'[k]) : queues'[k][n] \in Queued(k)'
              /\ \A l \in Queued(k)' : \E n \in 1..Len(queues'[k]) : queues'[k][n] = l
              /\ \A m, n \in 1..Len(queues'[k]) : m < n => queues'[k][m] < queues'[k][n]
        <4> TAKE k \in Identities \ {i}
        <4>1. queues'[k] = queues[k] /\ Queued(k)' = Queued(k)
          BY <1>9, <2>1
        <4> QED  BY <4>1, UntouchedQueue
      <3> HIDE DEF q
      <3> QED
        BY <3>1, <3>4, <3>5, <3>6, <3>7 DEF QueuesAreExact
    <2> QED  BY <2>2, <2>3
  <1>12. SlotsAreRefilled'
    <2>1. \A k \in Identities \ {i} : queues'[k] = queues[k] /\ runningCounts'[k] = runningCounts[k]
      BY <1>6 DEF JobIndInv, JobTypeOK
    <2>2. started = {} => queues'[i] = <<>>
      BY <1>1, <1>4, <1>6 DEF JobIndInv, JobTypeOK
    <2>3. started # {} => runningCounts'[i] = Concurrency
      BY <1>1, <1>2, <1>3, <1>4, <1>6 DEF JobIndInv, JobTypeOK
    <2> QED
      BY <2>1, <2>2, <2>3, ConcurrencyAssumption DEF JobIndInv, SlotsAreRefilled
  <1>13. JobsAreCoherent'
    <2>1. \A k \in started : jobState[k] = "queued"
      BY <1>5 DEF Queued
    <2>2. \A k \in JobIds : historyPending'[k] =
                 IF k = j THEN inputs[j].onOutcome ELSE historyPending[k]
      BY <1>7 DEF JobIndInv, JobTypeOK
    <2>3. outcome # "running" /\ outcome # "none"
      BY DEF Terminal
    <2>4. \A k \in JobIds : (jobState'[k] = "none") <=> (k \notin Accepted')
      BY <1>1, <1>2, <1>6, <2>1, <2>3 DEF JobIndInv, JobsAreCoherent
    <2>5. \A k \in JobIds : (step'[k] \in {"authorize", "run"}) <=> (jobState'[k] = "running")
      BY <1>6, <2>3 DEF JobIndInv, JobsAreCoherent, FirstStep
    <2>6. \A k \in JobIds : historyPending'[k] \/ step'[k] = "left" => jobState'[k] \in Terminal
      BY <1>5, <1>6, <2>1, <2>2, <2>5 DEF JobIndInv, JobsAreCoherent, Terminal
    <2>7. \A k \in timers' : jobState'[k] \in Terminal /\ ~historyPending'[k]
      BY <1>5, <1>6, <1>7, <2>1, <2>2 DEF JobIndInv, JobTypeOK, JobsAreCoherent, Terminal
    <2>8. jobs' \subseteq Accepted'
      BY <1>2, <1>6 DEF JobIndInv, JobsAreCoherent
    <2> QED  BY <2>4, <2>5, <2>6, <2>7, <2>8 DEF JobsAreCoherent
  <1>14. UnsettledJobsAreHeld'
    <2>1. \A k \in Accepted : k \in JobIds
      BY AcceptedAreJobs
    <2>2. j \in jobs /\ started \subseteq jobs
      BY <1>1, <1>5 DEF JobIndInv, UnsettledJobsAreHeld, Queued, Of
    <2>3. \A k \in JobIds : k # j => historyPending'[k] = historyPending[k]
      BY <1>7 DEF JobIndInv, JobTypeOK
    <2> QED
      BY <1>2, <1>6, <2>1, <2>2, <2>3 DEF JobIndInv, UnsettledJobsAreHeld
  <1> QED
    BY <1>8, <1>10, <1>11, <1>12, <1>13, <1>14 DEF JobIndInv
(***************************************************************************)
(* An accepted submission starts at once when its identity has a free      *)
(* slot, because then nothing waits before it; otherwise it queues last.   *)
(***************************************************************************)
LEMMA SubmitStep ==
    ASSUME JobIndInv, NEW in \in Inputs, Submit(in)
    PROVE  JobIndInv'
  <1>0. PICK i \in Identities : i = in.identity
    BY InputsAssumption
  <1> DEFINE j == Len(inputs) + 1
             q == queues[i]
             started == NextQueued(runningCounts[i], Append(q, j))
  <1>1. /\ Len(inputs) \in Nat /\ inputs \in Seq(Inputs)
        /\ j \in JobIds /\ j \notin Accepted
        /\ q \in Seq(JobIds) /\ Len(q) \in Nat /\ runningCounts[i] \in Nat
    BY LenProperties, SubmissionsAssumption DEF JobIndInv, JobTypeOK, Submit, Enqueued, JobIds, Accepted
  <1>2. /\ inputs' = Append(inputs, in)
        /\ Len(inputs') = j
        /\ Accepted' = Accepted \union {j}
        /\ inputs'[j] = in
        /\ \A k \in Accepted : inputs'[k] = inputs[k]
    <2>1. inputs' = Append(inputs, in)
      BY DEF Submit, Enqueued
    <2> QED  BY <1>1, <2>1, AppendProperties DEF Accepted
  <1>3. /\ Append(q, j) \in Seq(JobIds)
        /\ Len(Append(q, j)) = Len(q) + 1
        /\ \A n \in 1..Len(q) : Append(q, j)[n] = q[n]
        /\ Append(q, j)[Len(q) + 1] = j
    BY <1>1, AppendProperties
  <1>4. \/ /\ runningCounts[i] < Concurrency /\ q = <<>>
           /\ started = {j} /\ Tail(Append(q, j)) = <<>>
        \/ runningCounts[i] = Concurrency /\ started = {}
    <2>1. CASE runningCounts[i] < Concurrency
      <3>1. q = <<>>
        BY <2>1 DEF JobIndInv, SlotsAreRefilled
      <3>2. Append(q, j) = <<j>>
        BY <3>1
      <3> QED  BY <2>1, <3>1, <3>2 DEF NextQueued
    <2>2. CASE ~(runningCounts[i] < Concurrency)
      BY <1>1, <2>2, ConcurrencyAssumption
         DEF NextQueued, JobIndInv, SlotsMatchRunningJobs
    <2> QED  BY <2>1, <2>2
  <1>5. /\ jobState' = [k \in JobIds |-> IF k \in started THEN "running"
                       ELSE IF k = j THEN "queued" ELSE jobState[k]]
        /\ lastEvent' = [k \in JobIds |-> IF k \in started THEN "running"
                       ELSE IF k = j THEN "queued" ELSE lastEvent[k]]
        /\ step' = [k \in JobIds |->
                       IF k \in started THEN FirstStep(Append(inputs, in)[k]) ELSE step[k]]
        /\ queues' = [queues EXCEPT ![i] =
                       IF started = {} THEN Append(q, j) ELSE Tail(Append(q, j))]
        /\ runningCounts' = [runningCounts EXCEPT ![i] =
                       IF started = {} THEN @ ELSE @ + 1]
        /\ jobs' = (jobs \ Evicted) \union {j}
        /\ UNCHANGED <<aborted, historyPending, timers>>
    BY <1>0 DEF Submit, Enqueued
  <1> HIDE DEF started, j, q
  <1>6. started \subseteq {j} /\ Accepted \subseteq JobIds
    BY <1>4, AcceptedAreJobs
  <1>7. JobTypeOK'
    <2>1. jobState' \in [JobIds -> JobStates \union {"none"}]
      BY <1>5 DEF JobIndInv, JobTypeOK, JobStates
    <2>2. lastEvent' \in [JobIds -> JobStates \union {"none"}]
      BY <1>5 DEF JobIndInv, JobTypeOK, JobStates
    <2>3. step' \in [JobIds -> {"idle", "authorize", "run", "left"}]
      BY <1>5 DEF JobIndInv, JobTypeOK, FirstStep
    <2>4. queues' \in [Identities -> Seq(JobIds)]
      <3>1. started # {} => Tail(Append(q, j)) \in Seq(JobIds)
        BY <1>4, EmptySeq
      <3> QED  BY <1>3, <1>5, <3>1 DEF JobIndInv, JobTypeOK
    <2>5. runningCounts' \in [Identities -> Nat]
      BY <1>1, <1>5 DEF JobIndInv, JobTypeOK
    <2>6. inputs' \in Seq(Inputs) /\ Len(inputs') <= Submissions
      BY <1>1, <1>2, AppendProperties, SubmissionsAssumption DEF JobIds
    <2>7. jobs' \subseteq JobIds
      BY <1>1, <1>5 DEF JobIndInv, JobTypeOK
    <2> QED  BY <1>5, <2>1, <2>2, <2>3, <2>4, <2>5, <2>6, <2>7 DEF JobIndInv, JobTypeOK
  <1>8. /\ \A k \in JobIds : jobState'[k] = IF k \in started THEN "running"
                               ELSE IF k = j THEN "queued" ELSE jobState[k]
        /\ Of(i)' = Of(i) \union {j} /\ j \notin Of(i)
        /\ \A k \in Identities \ {i} : Of(k)' = Of(k)
        /\ \A k : Of(k) \subseteq Accepted
    <2>1. \A k : Of(k) \subseteq Accepted
      BY DEF Of
    <2>2. Of(i)' = Of(i) \union {j} /\ j \notin Of(i)
      BY <1>0, <1>1, <1>2 DEF Of
    <2>3. \A k \in Identities \ {i} : Of(k)' = Of(k)
      BY <1>0, <1>1, <1>2 DEF Of
    <2> QED  BY <1>5, <2>1, <2>2, <2>3
  <1>9. /\ Running(i)' = Running(i) \union started
        /\ Queued(i)' = Queued(i) \union ({j} \ started)
        /\ \A k \in Identities \ {i} : Running(k)' = Running(k) /\ Queued(k)' = Queued(k)
    <2>1. Running(i)' = Running(i) \union started
      BY <1>1, <1>6, <1>8 DEF Running
    <2>2. Queued(i)' = Queued(i) \union ({j} \ started)
      BY <1>1, <1>6, <1>8 DEF Queued
    <2>3. ASSUME NEW k \in Identities \ {i}
          PROVE  Running(k)' = Running(k) /\ Queued(k)' = Queued(k)
      BY <1>1, <1>6, <1>8 DEF Running, Queued
    <2> QED  BY <2>1, <2>2, <2>3
  <1>10. \A k \in Identities \ {i} : queues'[k] = queues[k] /\ runningCounts'[k] = runningCounts[k]
    BY <1>5 DEF JobIndInv, JobTypeOK
  <1>11. SlotsMatchRunningJobs'
    <2>1. /\ IsFiniteSet(Running(i)) /\ Cardinality(Running(i)) = runningCounts[i]
      BY RunningIsFinite DEF JobIndInv, SlotsMatchRunningJobs
    <2>2. j \notin Running(i)
      BY <1>8 DEF Running
    <2>3. CASE started = {}
      <3>1. Running(i)' = Running(i) /\ runningCounts'[i] = runningCounts[i]
        BY <1>5, <1>9, <2>3 DEF JobIndInv, JobTypeOK
      <3> QED  BY <1>9, <1>10, <3>1 DEF JobIndInv, SlotsMatchRunningJobs
    <2>4. CASE started = {j}
      <3>1. Running(i)' = Running(i) \union {j} /\ runningCounts'[i] = runningCounts[i] + 1
        BY <1>5, <1>9, <2>4 DEF JobIndInv, JobTypeOK
      <3>2. Cardinality(Running(i) \union {j}) = runningCounts[i] + 1
        BY <2>1, <2>2, FS_AddElement
      <3>3. runningCounts[i] + 1 <= Concurrency
        BY <1>1, <1>4, <2>4, ConcurrencyAssumption
      <3>4. /\ runningCounts'[i] = Cardinality(Running(i)')
            /\ runningCounts'[i] <= Concurrency
        BY <3>1, <3>2, <3>3
      <3> QED  BY <1>9, <1>10, <3>4 DEF JobIndInv, SlotsMatchRunningJobs
    <2> QED  BY <1>4, <2>3, <2>4
  <1>12. QueuesAreExact'
    <2>1. \A k \in Identities \ {i} :
              /\ \A n \in 1..Len(queues'[k]) : queues'[k][n] \in Queued(k)'
              /\ \A l \in Queued(k)' : \E n \in 1..Len(queues'[k]) : queues'[k][n] = l
              /\ \A m, n \in 1..Len(queues'[k]) : m < n => queues'[k][m] < queues'[k][n]
      <3> TAKE k \in Identities \ {i}
      <3>1. queues'[k] = queues[k] /\ Queued(k)' = Queued(k)
        BY <1>9, <1>10
      <3> QED  BY <3>1, UntouchedQueue
    <2>2. /\ \A n \in 1..Len(q) : q[n] \in Queued(i)
          /\ \A k \in Queued(i) : \E n \in 1..Len(q) : q[n] = k
          /\ \A m, n \in 1..Len(q) : m < n => q[m] < q[n]
      BY DEF JobIndInv, QueuesAreExact, q
    <2>3. CASE started = {j}
      <3>1. queues'[i] = <<>> /\ Queued(i)' = Queued(i)
        BY <1>4, <1>5, <1>9, <2>3 DEF JobIndInv, JobTypeOK
      <3>2. Queued(i) = {}
        BY <1>4, <2>2, <2>3
      <3> QED  BY <2>1, <3>1, <3>2 DEF QueuesAreExact
    <2>4. CASE started = {}
      <3> DEFINE r == Append(q, j)
      <3>1. queues'[i] = r /\ Queued(i)' = Queued(i) \union {j}
        BY <1>5, <1>9, <2>4 DEF JobIndInv, JobTypeOK
      <3>2. \A k \in Queued(i) : k < j
        BY <1>1 DEF Queued, Of, Accepted, j
      <3>3. /\ Len(r) = Len(q) + 1 /\ r[Len(q) + 1] = j
            /\ \A n \in 1..Len(q) : r[n] = q[n]
        BY <1>3
      <3> HIDE DEF r
      <3>4. \A n \in 1..Len(r) : r[n] \in Queued(i)'
        BY <1>1, <2>2, <3>1, <3>3
      <3>5. \A k \in Queued(i)' : \E n \in 1..Len(r) : r[n] = k
        <4> TAKE k \in Queued(i)'
        <4>1. CASE k = j
          BY <1>1, <3>3, <4>1
        <4>2. CASE k \in Queued(i)
          BY <1>1, <2>2, <3>3, <4>2
        <4> QED  BY <3>1, <4>1, <4>2
      <3>6. \A m, n \in 1..Len(r) : m < n => r[m] < r[n]
        <4> SUFFICES ASSUME NEW m \in 1..Len(r), NEW n \in 1..Len(r), m < n
                     PROVE  r[m] < r[n]
          OBVIOUS
        <4>1. m \in 1..Len(q)
          BY <1>1, <3>3
        <4>2. CASE n = Len(q) + 1
          BY <2>2, <3>2, <3>3, <4>1, <4>2
        <4>3. CASE n # Len(q) + 1
          <5>1. n \in 1..Len(q)
            BY <1>1, <3>3, <4>3
          <5> QED  BY <2>2, <3>3, <4>1, <5>1
        <4> QED  BY <4>2, <4>3
      <3> QED  BY <2>1, <3>1, <3>4, <3>5, <3>6 DEF QueuesAreExact
    <2> QED  BY <1>4, <2>3, <2>4
  <1>13. SlotsAreRefilled'
    <2>1. started = {} => runningCounts'[i] = Concurrency
      BY <1>4, <1>5 DEF JobIndInv, JobTypeOK
    <2>2. started # {} => queues'[i] = <<>>
      BY <1>4, <1>5 DEF JobIndInv, JobTypeOK
    <2> QED
      BY <1>10, <2>1, <2>2, ConcurrencyAssumption DEF JobIndInv, SlotsAreRefilled
  <1>14. j \notin timers /\ ~historyPending[j] /\ jobState[j] = "none"
        /\ step[j] \notin {"authorize", "run", "left"}
    BY <1>1 DEF JobIndInv, JobsAreCoherent, Terminal
  <1>15. JobsAreCoherent'
    <2>1. \A k \in JobIds : (jobState'[k] = "none") <=> (k \notin Accepted')
      BY <1>2, <1>6, <1>8 DEF JobIndInv, JobsAreCoherent
    <2>2. \A k \in JobIds : (step'[k] \in {"authorize", "run"}) <=> (jobState'[k] = "running")
      BY <1>5, <1>6, <1>8, <1>14 DEF JobIndInv, JobsAreCoherent, FirstStep
    <2>3. \A k \in JobIds : historyPending'[k] \/ step'[k] = "left" => jobState'[k] \in Terminal
      BY <1>5, <1>6, <1>8, <1>14, <2>2 DEF JobIndInv, JobsAreCoherent
    <2>4. jobs' \subseteq Accepted'
      BY <1>2, <1>5 DEF JobIndInv, JobsAreCoherent
    <2>5. \A k \in timers' : jobState'[k] \in Terminal /\ ~historyPending'[k]
      BY <1>5, <1>6, <1>8, <1>14 DEF JobIndInv, JobTypeOK, JobsAreCoherent
    <2> QED  BY <2>1, <2>2, <2>3, <2>4, <2>5 DEF JobsAreCoherent
  <1>16. UnsettledJobsAreHeld'
    <2>1. \A k \in Evicted : ~(jobState[k] \in {"queued", "running"} \/ historyPending[k])
      BY EvictedAreSettled DEF Terminal
    <2>2. \A k \in Accepted : k # j /\ jobState'[k] = jobState[k]
      BY <1>1, <1>6, <1>8
    <2> QED
      BY <1>2, <1>5, <2>1, <2>2 DEF JobIndInv, UnsettledJobsAreHeld
  <1> QED
    BY <1>7, <1>11, <1>12, <1>13, <1>15, <1>16 DEF JobIndInv
(***************************************************************************)
(* Cancelling a queued job takes exactly that job out of its queue, and    *)
(* touches no slot.                                                        *)
(***************************************************************************)
LEMMA CancelQueuedStep ==
    ASSUME JobIndInv, NEW j \in JobIds, CancelQueued(j)
    PROVE  JobIndInv'
  <1>0. PICK i \in Identities : i = inputs[j].identity
    BY AcceptedJob DEF CancelQueued
  <1> DEFINE q == queues[i]
  <1>1. /\ jobState[j] = "queued" /\ j \in jobs /\ j \in Accepted /\ j \in Queued(i)
        /\ inputs[j].onOutcome \in BOOLEAN
    BY <1>0, AcceptedJob DEF CancelQueued, Queued
  <1>2. /\ q \in Seq(JobIds) /\ Len(q) \in Nat
        /\ \A n \in 1..Len(q) : q[n] \in Queued(i) /\ q[n] \in JobIds
        /\ \A k \in Queued(i) : \E n \in 1..Len(q) : q[n] = k
        /\ \A m, n \in 1..Len(q) : m < n => q[m] < q[n]
    BY LenProperties, ElementOfSeq DEF JobIndInv, JobTypeOK, QueuesAreExact
  <1>3. PICK p \in 1..Len(q) : q[p] = j /\ Without(q, j) = Splice(q, p)
    <2>1. \E n \in 1..Len(q) : q[n] = j
      BY <1>1, <1>2
    <2> QED  BY <2>1 DEF Without
  <1> DEFINE r == Splice(q, p)
  <1>4. /\ r \in Seq(JobIds) /\ Len(r) = Len(q) - 1
        /\ \A k \in 1..(Len(q) - 1) : r[k] = IF k < p THEN q[k] ELSE q[k + 1]
    <2> HIDE DEF q
    <2> QED  BY <1>2, SpliceProperties
  <1>5. /\ aborted' = [aborted EXCEPT ![j] = TRUE]
        /\ jobState' = [jobState EXCEPT ![j] = "cancelled"]
        /\ queues' = [queues EXCEPT ![i] = r]
        /\ lastEvent' = IF AnnouncedAtOnce(j) THEN [lastEvent EXCEPT ![j] = "cancelled"]
                        ELSE lastEvent
        /\ UNCHANGED <<jobs, step, inputs, runningCounts>>
    BY <1>0, <1>3 DEF CancelQueued
  <1>6. /\ historyPending' = [historyPending EXCEPT ![j] = inputs[j].onOutcome]
        /\ timers' = IF inputs[j].onOutcome THEN timers ELSE timers \union {j}
    BY DEF CancelQueued, SettleJob
  <1> HIDE DEF q, r
  <1>7. /\ Accepted' = Accepted /\ \A k : Of(k)' = Of(k) /\ Of(k) \subseteq Accepted
        /\ Accepted \subseteq JobIds
    BY <1>5, AcceptedAreJobs DEF Accepted, Of
  <1>8. JobTypeOK'
    <2>1. jobState' \in [JobIds -> JobStates \union {"none"}]
      BY <1>5 DEF JobIndInv, JobTypeOK, JobStates, Terminal
    <2>2. lastEvent' \in [JobIds -> JobStates \union {"none"}]
      BY <1>5 DEF JobIndInv, JobTypeOK, JobStates, Terminal
    <2>3. queues' \in [Identities -> Seq(JobIds)]
      BY <1>4, <1>5 DEF JobIndInv, JobTypeOK
    <2>4. historyPending' \in [JobIds -> BOOLEAN] /\ timers' \subseteq JobIds
      BY <1>1, <1>6 DEF JobIndInv, JobTypeOK
    <2>5. aborted' \in [JobIds -> BOOLEAN]
      BY <1>5 DEF JobIndInv, JobTypeOK
    <2> QED  BY <1>5, <2>1, <2>2, <2>3, <2>4, <2>5 DEF JobIndInv, JobTypeOK
  <1>9. \A k \in JobIds : jobState'[k] = IF k = j THEN "cancelled" ELSE jobState[k]
    BY <1>5 DEF JobIndInv, JobTypeOK
  <1>10. /\ \A k \in Identities : Running(k)' = Running(k)
         /\ Queued(i)' = Queued(i) \ {j}
         /\ \A k \in Identities \ {i} : Queued(k)' = Queued(k)
    <2>1. ASSUME NEW k \in Identities PROVE Running(k)' = Running(k)
      BY <1>1, <1>7, <1>9 DEF Running
    <2>2. Queued(i)' = Queued(i) \ {j}
      BY <1>1, <1>7, <1>9 DEF Queued
    <2>3. ASSUME NEW k \in Identities \ {i} PROVE Queued(k)' = Queued(k)
      <3>1. j \notin Of(k)
        BY <1>0 DEF Of
      <3> QED  BY <1>7, <1>9, <3>1 DEF Queued
    <2> QED  BY <2>1, <2>2, <2>3
  <1>11. SlotsMatchRunningJobs'
    BY <1>5, <1>10 DEF JobIndInv, SlotsMatchRunningJobs
  <1>12. QueuesAreExact'
    <2>1. /\ queues'[i] = r
          /\ \A k \in Identities \ {i} : queues'[k] = queues[k]
      BY <1>5 DEF JobIndInv, JobTypeOK
    <2>2. \A k \in Identities \ {i} :
              /\ \A n \in 1..Len(queues'[k]) : queues'[k][n] \in Queued(k)'
              /\ \A l \in Queued(k)' : \E n \in 1..Len(queues'[k]) : queues'[k][n] = l
              /\ \A m, n \in 1..Len(queues'[k]) : m < n => queues'[k][m] < queues'[k][n]
      <3> TAKE k \in Identities \ {i}
      <3>1. queues'[k] = queues[k] /\ Queued(k)' = Queued(k)
        BY <1>10, <2>1
      <3> QED  BY <3>1, UntouchedQueue
    <2>3. \A n \in 1..Len(r) : r[n] \in Queued(i)'
      <3> TAKE n \in 1..Len(r)
      <3>1. n \in 1..Len(q) /\ n + 1 \in 1..Len(q) /\ n \in 1..(Len(q) - 1)
        BY <1>2, <1>4
      <3>2. CASE n < p
        BY <1>2, <1>3, <1>4, <1>10, <3>1, <3>2 DEF JobIds
      <3>3. CASE ~(n < p)
        <4>1. p < n + 1
          BY <3>1, <3>3
        <4>2. q[p] < q[n + 1] /\ q[n + 1] \in Queued(i)
          BY <1>2, <3>1, <4>1
        <4> QED  BY <1>2, <1>3, <1>4, <1>10, <3>1, <3>3, <4>2 DEF JobIds
      <3> QED  BY <3>2, <3>3
    <2>4. \A k \in Queued(i)' : \E n \in 1..Len(r) : r[n] = k
      <3> TAKE k \in Queued(i)'
      <3>1. k \in Queued(i) /\ k # j
        BY <1>10
      <3>2. PICK n \in 1..Len(q) : q[n] = k
        BY <1>2, <3>1
      <3>3. n # p
        BY <1>3, <3>1, <3>2
      <3>4. CASE n < p
        <4>1. n \in 1..Len(r) /\ n \in 1..(Len(q) - 1)
          BY <1>2, <1>4, <3>4
        <4> QED  BY <1>4, <3>2, <3>4, <4>1
      <3>5. CASE p < n
        <4>1. n - 1 \in 1..Len(r) /\ n - 1 \in 1..(Len(q) - 1) /\ ~(n - 1 < p) /\ (n - 1) + 1 = n
          BY <1>2, <1>4, <3>5
        <4>2. r[n - 1] = q[n]
          BY <1>4, <4>1
        <4> QED  BY <3>2, <4>1, <4>2
      <3> QED  BY <3>3, <3>4, <3>5
    <2>5. \A m, n \in 1..Len(r) : m < n => r[m] < r[n]
      <3> SUFFICES ASSUME NEW m \in 1..Len(r), NEW n \in 1..Len(r), m < n
                   PROVE  r[m] < r[n]
        OBVIOUS
      <3>1. /\ m \in 1..Len(q) /\ m + 1 \in 1..Len(q) /\ m \in 1..(Len(q) - 1)
            /\ n \in 1..Len(q) /\ n + 1 \in 1..Len(q) /\ n \in 1..(Len(q) - 1)
        BY <1>2, <1>4
      <3>2. CASE n < p
        BY <1>2, <1>4, <3>1, <3>2
      <3>3. CASE ~(n < p) /\ m < p
        <4>1. q[m] < q[n + 1]
          BY <1>2, <3>1
        <4> QED  BY <1>4, <3>1, <3>3, <4>1
      <3>4. CASE ~(m < p)
        <4>1. m + 1 < n + 1 /\ ~(n < p)
          BY <3>1, <3>4
        <4>2. q[m + 1] < q[n + 1]
          BY <1>2, <3>1, <4>1
        <4> QED  BY <1>4, <3>1, <3>4, <4>1, <4>2
      <3> QED  BY <3>2, <3>3, <3>4
    <2>6. /\ \A n \in 1..Len(queues'[i]) : queues'[i][n] \in Queued(i)'
          /\ \A l \in Queued(i)' : \E n \in 1..Len(queues'[i]) : queues'[i][n] = l
          /\ \A m, n \in 1..Len(queues'[i]) : m < n => queues'[i][m] < queues'[i][n]
      BY <2>1, <2>3, <2>4, <2>5
    <2> QED  BY <2>2, <2>6 DEF QueuesAreExact
  <1>13. SlotsAreRefilled'
    <2>1. q # <<>>
      BY <1>2, <1>3
    <2>2. ~(runningCounts[i] < Concurrency)
      BY <2>1 DEF JobIndInv, SlotsAreRefilled, q
    <2> QED
      BY <1>5, <2>2 DEF JobIndInv, JobTypeOK, SlotsAreRefilled
  <1>14. \A k \in JobIds : historyPending'[k] =
                 IF k = j THEN inputs[j].onOutcome ELSE historyPending[k]
    BY <1>6 DEF JobIndInv, JobTypeOK
  <1>15. JobsAreCoherent'
    <2>1. \A k \in JobIds : (jobState'[k] = "none") <=> (k \notin Accepted')
      BY <1>1, <1>7, <1>9 DEF JobIndInv, JobsAreCoherent
    <2>2. \A k \in JobIds : (step'[k] \in {"authorize", "run"}) <=> (jobState'[k] = "running")
      BY <1>1, <1>5, <1>9 DEF JobIndInv, JobsAreCoherent
    <2>3. \A k \in JobIds : historyPending'[k] \/ step'[k] = "left" => jobState'[k] \in Terminal
      BY <1>1, <1>5, <1>9, <1>14 DEF JobIndInv, JobsAreCoherent, Terminal
    <2>4. \A k \in timers' : jobState'[k] \in Terminal /\ ~historyPending'[k]
      <3> TAKE k \in timers'
      <3>1. k \in JobIds
        BY <1>8 DEF JobTypeOK
      <3>2. CASE k = j
        <4>1. ~inputs[j].onOutcome
          BY <1>1, <1>6, <3>2 DEF JobIndInv, JobsAreCoherent, Terminal
        <4> QED  BY <1>9, <1>14, <3>2, <4>1 DEF Terminal
      <3>3. CASE k # j
        BY <1>6, <1>9, <1>14, <3>1, <3>3 DEF JobIndInv, JobsAreCoherent
      <3> QED  BY <3>2, <3>3
    <2>5. jobs' \subseteq Accepted'
      BY <1>5, <1>7 DEF JobIndInv, JobsAreCoherent
    <2> QED  BY <2>1, <2>2, <2>3, <2>4, <2>5 DEF JobsAreCoherent
  <1>16. UnsettledJobsAreHeld'
    BY <1>1, <1>5, <1>7, <1>9, <1>14 DEF JobIndInv, UnsettledJobsAreHeld
  <1> QED
    BY <1>8, <1>11, <1>12, <1>13, <1>15, <1>16 DEF JobIndInv
-----------------------------------------------------------------------------
(***************************************************************************)
(* Every callback of the runner preserves the inductive invariant.         *)
(***************************************************************************)
THEOREM NextIndInv == JobIndInv /\ [JobNext]_jobVars => JobIndInv'
  <1> SUFFICES ASSUME JobIndInv, [JobNext]_jobVars PROVE JobIndInv'
    OBVIOUS
  <1>1. CASE \E in \in Inputs : Submit(in)
    BY <1>1, SubmitStep
  <1>2. CASE SubmitRefused
    BY <1>2, SubmitRefusedStep
  <1>3. ASSUME NEW j \in JobIds, Authorized(j) PROVE JobIndInv'
    BY <1>3, AuthorizedStep
  <1>4. ASSUME NEW j \in JobIds, Refused(j) \/ RunResolves(j) \/ RunThrows(j)
        PROVE  JobIndInv'
    <2>1. jobState[j] = "running"
      BY <1>4 DEF Refused, RunResolves, RunThrows, JobIndInv, JobsAreCoherent
    <2>2. PICK outcome \in Terminal, behind \in {"idle", "left"} :
            FinishRunning(j, outcome, behind)
      BY <1>4 DEF Refused, RunResolves, RunThrows, ThrownOutcome, Terminal
    <2> QED  BY <2>1, <2>2, FinishRunningStep
  <1>5. ASSUME NEW j \in JobIds, Recorded(j) PROVE JobIndInv'
    BY <1>5, RecordedStep
  <1>6. ASSUME NEW j \in JobIds, RetentionPrune(j) PROVE JobIndInv'
    BY <1>6, RetentionPruneStep
  <1>7. ASSUME NEW j \in JobIds, CancelRunning(j) PROVE JobIndInv'
    BY <1>7, CancelRunningStep
  <1>8. ASSUME NEW j \in JobIds, CancelQueued(j) PROVE JobIndInv'
    BY <1>8, CancelQueuedStep
  <1>10. ASSUME NEW j \in JobIds, Report(j) PROVE JobIndInv'
    BY <1>10, ReportStep
  <1>9. CASE UNCHANGED jobVars
    <2>1. SlotsMatchRunningJobs' /\ QueuesAreExact' /\ SlotsAreRefilled'
      BY <1>9, UntouchedStates DEF jobVars
    <2>2. Accepted' = Accepted
      BY <1>9 DEF jobVars, Accepted
    <2> QED
      BY <1>9, <2>1, <2>2
         DEF jobVars, JobIndInv, JobTypeOK, JobsAreCoherent, UnsettledJobsAreHeld
  <1> QED
    BY <1>1, <1>2, <1>3, <1>4, <1>5, <1>6, <1>7, <1>8, <1>9, <1>10 DEF JobNext

(* Every reachable state of the runner satisfies the inductive invariant.  *)
THEOREM JobInvariance == JobSpec => []JobIndInv
  BY InitIndInv, NextIndInv, PTL DEF JobSpec

(***************************************************************************)
(* The runner's variables keep their types (JobTypeOK).                       *)
(***************************************************************************)
THEOREM JobTypesHold == JobSpec => []JobTypeOK
  <1>1. JobIndInv => JobTypeOK
    BY DEF JobIndInv
  <1> QED  BY JobInvariance, <1>1, PTL

(***************************************************************************)
(* For every concurrency limit, runningCounts is exactly the number of     *)
(* jobs in state running and never exceeds the limit: finishJob releases a *)
(* slot once for every start.                                              *)
(***************************************************************************)
THEOREM SlotAccounting == JobSpec => []SlotsMatchRunningJobs
  <1>1. JobIndInv => SlotsMatchRunningJobs
    BY DEF JobIndInv
  <1> QED  BY JobInvariance, <1>1, PTL

(***************************************************************************)
(* A queued job never waits beside a free slot of its identity: neither    *)
(* finishing a job nor cancelling a queued one strands the queue.          *)
(***************************************************************************)
THEOREM WorkConservation == JobSpec => []NoIdleSlotWhileQueued
  <1>1. JobIndInv => NoIdleSlotWhileQueued
    <2> SUFFICES ASSUME JobIndInv, NEW i \in Identities, NEW j \in Queued(i)
                 PROVE  Cardinality(Running(i)) >= Concurrency
      BY DEF NoIdleSlotWhileQueued
    <2>1. PICK n \in 1..Len(queues[i]) : queues[i][n] = j
      BY DEF JobIndInv, QueuesAreExact
    <2>2. queues[i] # <<>>
      BY <2>1
    <2>3. ~(runningCounts[i] < Concurrency)
      BY <2>2 DEF JobIndInv, SlotsAreRefilled
    <2> QED
      BY <2>3, ConcurrencyAssumption DEF JobIndInv, JobTypeOK, SlotsMatchRunningJobs
  <1> QED  BY JobInvariance, <1>1, PTL

(***************************************************************************)
(* A job that waits, runs, or has an outcome still being written stays in  *)
(* the map, whatever capacity pruning and retention timers do.             *)
(***************************************************************************)
THEOREM NoUnsettledJobIsDropped == JobSpec => []UnsettledJobsAreHeld
  <1>1. JobIndInv => UnsettledJobsAreHeld
    BY DEF JobIndInv
  <1> QED  BY JobInvariance, <1>1, PTL
-----------------------------------------------------------------------------
(* An event of a job that begins or goes on is no terminal one.            *)
LEMMA DurableAfterSubmit ==
    ASSUME JobIndInv, OnlyLateReportsPrecedeHistory, NEW in \in Inputs, Submit(in)
    PROVE  OnlyLateReportsPrecedeHistory'
  <1> DEFINE j == Len(inputs) + 1
             i == in.identity
             queue == Enqueued(queues[i], j)
             started == NextQueued(runningCounts[i], queue)
             Now(k, old) == IF k \in started THEN "running"
                            ELSE IF k = j THEN "queued" ELSE old
  <1>1. /\ inputs' = Append(inputs, in)
        /\ jobState' = [k \in JobIds |-> Now(k, jobState[k])]
        /\ lastEvent' = [k \in JobIds |-> Now(k, lastEvent[k])]
        /\ historyPending' = historyPending
        /\ step' = [k \in JobIds |->
                       IF k \in started THEN FirstStep(inputs'[k]) ELSE step[k]]
    BY DEF Submit, Enqueued
  <1>2. Accepted' = Accepted \union {j} /\ Accepted' \subseteq JobIds
    <2>1. inputs \in Seq(Inputs) /\ Len(inputs) < Submissions
      BY DEF JobIndInv, JobTypeOK, Submit, Enqueued
    <2>2. Len(inputs') = Len(inputs) + 1 /\ Len(inputs) \in Nat
      BY <1>1, <2>1, LenProperties, AppendProperties
    <2> QED  BY <2>1, <2>2, SubmissionsAssumption DEF Accepted, JobIds
  <1> HIDE DEF started, j
  <1> SUFFICES ASSUME NEW k \in Accepted', lastEvent'[k] \in Terminal
               PROVE  /\ lastEvent'[k] = jobState'[k]
                      /\ historyPending'[k] => step'[k] = "left"
    BY DEF OnlyLateReportsPrecedeHistory
  <1>3. k \notin started /\ k # j
    BY <1>1, <1>2 DEF Terminal
  <1>4. /\ k \in Accepted /\ step'[k] = step[k]
        /\ lastEvent'[k] = lastEvent[k] /\ jobState'[k] = jobState[k]
    BY <1>1, <1>2, <1>3
  <1> QED  BY <1>1, <1>4 DEF OnlyLateReportsPrecedeHistory

(* A job that still has to settle has published no terminal event.         *)
LEMMA UnsettledIsSilent ==
    ASSUME JobIndInv, OnlyLateReportsPrecedeHistory, NEW j \in JobIds,
           jobState[j] \in {"queued", "running"}
    PROVE  j \in Accepted /\ lastEvent[j] \notin Terminal
  <1>1. j \in Accepted
    BY DEF JobIndInv, JobsAreCoherent
  <1> QED  BY <1>1 DEF OnlyLateReportsPrecedeHistory, Terminal

LEMMA DurableAfterFinish ==
    ASSUME JobIndInv, OnlyLateReportsPrecedeHistory, NEW j \in JobIds,
           jobState[j] = "running", NEW outcome \in Terminal,
           NEW behind \in {"idle", "left"}, FinishRunning(j, outcome, behind)
    PROVE  OnlyLateReportsPrecedeHistory'
  <1> DEFINE i == inputs[j].identity
             freed == IF runningCounts[i] = 0 THEN 0 ELSE runningCounts[i] - 1
             started == NextQueued(freed, queues[i])
  <1>1. /\ jobState' = [k \in JobIds |->
                       IF k \in started THEN "running"
                       ELSE IF k = j THEN outcome ELSE jobState[k]]
        /\ lastEvent' = [k \in JobIds |->
                       IF k \in started THEN "running"
                       ELSE IF k = j /\ AnnouncedAtOnce(j) THEN outcome
                       ELSE lastEvent[k]]
        /\ historyPending' = [historyPending EXCEPT ![j] = inputs[j].onOutcome]
        /\ step' = [k \in JobIds |->
                       IF k \in started THEN FirstStep(inputs[k])
                       ELSE IF k = j THEN behind ELSE step[k]]
        /\ inputs' = inputs
    BY DEF FinishRunning, SettleJob
  <1>2. /\ Accepted' = Accepted /\ Accepted \subseteq JobIds
        /\ inputs[j].onOutcome \in BOOLEAN
        /\ historyPending \in [JobIds -> BOOLEAN]
    BY <1>1, AcceptedAreJobs, AcceptedJob DEF Accepted, JobIndInv, JobTypeOK
  <1>3. lastEvent[j] \notin Terminal
    BY UnsettledIsSilent
  <1> HIDE DEF started
  <1> SUFFICES ASSUME NEW k \in Accepted, lastEvent'[k] \in Terminal
               PROVE  /\ lastEvent'[k] = jobState'[k]
                      /\ historyPending'[k] => step'[k] = "left"
    BY <1>2 DEF OnlyLateReportsPrecedeHistory
  <1>4. k \in JobIds /\ k \notin started
    BY <1>1, <1>2 DEF Terminal
  <1>5. CASE k = j
    BY <1>1, <1>2, <1>3, <1>4, <1>5 DEF AnnouncedAtOnce
  <1>6. CASE k # j
    BY <1>1, <1>2, <1>4, <1>6 DEF OnlyLateReportsPrecedeHistory
  <1> QED  BY <1>5, <1>6

LEMMA DurableAfterCancel ==
    ASSUME JobIndInv, OnlyLateReportsPrecedeHistory, NEW j \in JobIds, CancelQueued(j)
    PROVE  OnlyLateReportsPrecedeHistory'
  <1>1. /\ jobState' = [jobState EXCEPT ![j] = "cancelled"]
        /\ lastEvent' = IF AnnouncedAtOnce(j) THEN [lastEvent EXCEPT ![j] = "cancelled"]
                        ELSE lastEvent
        /\ historyPending' = [historyPending EXCEPT ![j] = inputs[j].onOutcome]
        /\ inputs' = inputs /\ jobState[j] = "queued" /\ step' = step
    BY DEF CancelQueued, SettleJob
  <1>2. /\ Accepted' = Accepted /\ Accepted \subseteq JobIds
        /\ inputs[j].onOutcome \in BOOLEAN
        /\ lastEvent[j] \notin Terminal
    BY <1>1, AcceptedAreJobs, AcceptedJob, UnsettledIsSilent DEF Accepted
  <1> QED
    BY <1>1, <1>2 DEF OnlyLateReportsPrecedeHistory, AnnouncedAtOnce, JobIndInv, JobTypeOK

(***************************************************************************)
(* A terminal event names the state the job keeps, and finishing publishes *)
(* it only after onOutcome has settled, whatever cancels, refilled slots   *)
(* or late history writes come in between: one that leaves earlier is the  *)
(* report of work that a throwing run left behind                          *)
(* (OnlyLateReportsPrecedeHistory).                                        *)
(***************************************************************************)
THEOREM TerminalEventsAreTrue == JobSpec => []OnlyLateReportsPrecedeHistory
  <1>1. JobInit => OnlyLateReportsPrecedeHistory
    <2> SUFFICES ASSUME JobInit PROVE Accepted = {}
      BY DEF OnlyLateReportsPrecedeHistory
    <2> QED  BY DEF JobInit, Accepted
  <1>2. JobIndInv /\ OnlyLateReportsPrecedeHistory /\ [JobNext]_jobVars => OnlyLateReportsPrecedeHistory'
    <2> SUFFICES ASSUME JobIndInv, OnlyLateReportsPrecedeHistory, [JobNext]_jobVars
                 PROVE  OnlyLateReportsPrecedeHistory'
      OBVIOUS
    <2>0. Accepted \subseteq JobIds
      BY AcceptedAreJobs
    <2>1. ASSUME NEW in \in Inputs, Submit(in) PROVE OnlyLateReportsPrecedeHistory'
      BY <2>1, DurableAfterSubmit
    <2>2. ASSUME NEW j \in JobIds, Refused(j) \/ RunResolves(j) \/ RunThrows(j)
          PROVE  OnlyLateReportsPrecedeHistory'
      <3>1. jobState[j] = "running"
        BY <2>2 DEF Refused, RunResolves, RunThrows, JobIndInv, JobsAreCoherent
      <3>2. PICK outcome \in Terminal, behind \in {"idle", "left"} :
              FinishRunning(j, outcome, behind)
        BY <2>2 DEF Refused, RunResolves, RunThrows, ThrownOutcome, Terminal
      <3> QED  BY <3>1, <3>2, DurableAfterFinish
    <2>3. ASSUME NEW j \in JobIds, Recorded(j) PROVE OnlyLateReportsPrecedeHistory'
      BY <2>0, <2>3 DEF Recorded, OnlyLateReportsPrecedeHistory, Accepted, JobIndInv, JobTypeOK
    <2>4. ASSUME NEW j \in JobIds, CancelQueued(j) PROVE OnlyLateReportsPrecedeHistory'
      BY <2>4, DurableAfterCancel
    <2>5. CASE \/ SubmitRefused \/ UNCHANGED jobVars
              \/ \E j \in JobIds : RetentionPrune(j) \/ CancelRunning(j)
      BY <2>5 DEF SubmitRefused, RetentionPrune, CancelRunning, jobVars,
                  OnlyLateReportsPrecedeHistory, Accepted
    <2>6. ASSUME NEW j \in JobIds, Authorized(j) PROVE OnlyLateReportsPrecedeHistory'
      <3>1. jobState[j] = "running" /\ lastEvent[j] \notin Terminal
        BY <2>6, UnsettledIsSilent DEF Authorized, JobIndInv, JobsAreCoherent
      <3> QED  BY <2>0, <2>6, <3>1 DEF Authorized, OnlyLateReportsPrecedeHistory,
                                       Accepted, JobIndInv, JobTypeOK
    <2>7. ASSUME NEW j \in JobIds, Report(j) PROVE OnlyLateReportsPrecedeHistory'
      BY <2>0, <2>7 DEF Report, OnlyLateReportsPrecedeHistory, Accepted, JobIndInv, JobTypeOK
    <2> QED  BY <2>1, <2>2, <2>3, <2>4, <2>5, <2>6, <2>7 DEF JobNext
  <1> QED  BY JobInvariance, <1>1, <1>2, PTL DEF JobSpec

-----------------------------------------------------------------------------
(***************************************************************************)
(* The runner implements JobService.  The queue of an identity, sorted     *)
(* because jobs enter it at its end only, has at its head the job of that  *)
(* identity that waited longest; and what capacity pruning and the timers  *)
(* drop has been announced, because a settled job whose outcome is durable *)
(* has told it: SettledIsAnnounced.                                        *)
(***************************************************************************)
SettledIsAnnounced ==
    \A j \in Accepted :
        jobState[j] \in Terminal /\ ~historyPending[j] => lastEvent[j] = jobState[j]

ServiceInv == JobIndInv /\ OnlyLateReportsPrecedeHistory /\ SettledIsAnnounced

(* What a submission makes of the job it accepts.                          *)
LEMMA SubmitStarts ==
    ASSUME JobIndInv, NEW in \in Inputs, Submit(in),
           NEW j, j = Len(inputs) + 1,
           NEW i, i = in.identity,
           NEW first, first = IF runningCounts[i] < Concurrency THEN "running" ELSE "queued"
    PROVE  /\ i \in Identities /\ j \in JobIds /\ j \notin Accepted /\ Len(inputs) \in Nat
           /\ inputs \in Seq(Inputs) /\ inputs' = Append(inputs, in)
           /\ Accepted' = Accepted \union {j}
           /\ jobState' = [jobState EXCEPT ![j] = first]
           /\ lastEvent' = [lastEvent EXCEPT ![j] = first]
  <1> DEFINE q == queues[i]
             started == NextQueued(runningCounts[i], Append(q, j))
  <1>1. /\ i \in Identities /\ Len(inputs) \in Nat /\ inputs \in Seq(Inputs)
        /\ j \in JobIds /\ j \notin Accepted
        /\ q \in Seq(JobIds) /\ inputs' = Append(inputs, in)
    BY InputsAssumption, LenProperties, SubmissionsAssumption
       DEF JobIndInv, JobTypeOK, Submit, JobIds, Accepted
  <1>2. Accepted' = Accepted \union {j}
    <2>1. Len(inputs') = j
      BY <1>1, AppendProperties
    <2> QED  BY <1>1, <2>1 DEF Accepted
  <1>3. started = IF runningCounts[i] < Concurrency THEN {j} ELSE {}
    <2>1. CASE runningCounts[i] < Concurrency
      <3>1. q = <<>>
        BY <1>1, <2>1 DEF JobIndInv, SlotsAreRefilled
      <3>2. Append(q, j) = <<j>>
        BY <3>1
      <3> QED  BY <2>1, <3>2 DEF NextQueued
    <2>2. CASE ~(runningCounts[i] < Concurrency)
      BY <2>2 DEF NextQueued
    <2> QED  BY <2>1, <2>2
  <1>4. /\ jobState' = [k \in JobIds |-> IF k \in started THEN "running"
                       ELSE IF k = j THEN "queued" ELSE jobState[k]]
        /\ lastEvent' = [k \in JobIds |-> IF k \in started THEN "running"
                       ELSE IF k = j THEN "queued" ELSE lastEvent[k]]
    BY DEF Submit, Enqueued
  <1>5. DOMAIN jobState = JobIds /\ DOMAIN lastEvent = JobIds
    BY DEF JobIndInv, JobTypeOK
  <1> HIDE DEF started, q
  <1>6. \A k \in JobIds : /\ jobState'[k] = IF k = j THEN first ELSE jobState[k]
                          /\ lastEvent'[k] = IF k = j THEN first ELSE lastEvent[k]
    BY <1>3, <1>4
  <1> QED  BY <1>1, <1>2, <1>4, <1>5, <1>6

(* The job that is next in a queue, if one waits.                          *)
NextIn(i) == IF queues[i] = <<>> THEN {} ELSE {Head(queues[i])}

(* What a finish makes of the job and of the one that takes its slot.      *)
LEMMA FinishStarts ==
    ASSUME JobIndInv, NEW j \in JobIds, jobState[j] = "running",
           NEW outcome \in Terminal, NEW behind \in {"idle", "left"},
           FinishRunning(j, outcome, behind),
           NEW next, next = NextIn(inputs[j].identity)
    PROVE  /\ inputs[j].identity \in Identities /\ j \in Accepted /\ inputs[j].onOutcome \in BOOLEAN
           /\ jobState' = [k \in JobIds |-> IF k \in next THEN "running"
                              ELSE IF k = j THEN outcome ELSE jobState[k]]
           /\ lastEvent' = [k \in JobIds |-> IF k \in next THEN "running"
                              ELSE IF k = j /\ AnnouncedAtOnce(j) THEN outcome
                              ELSE lastEvent[k]]
           /\ historyPending' = [historyPending EXCEPT ![j] = inputs[j].onOutcome]
           /\ UNCHANGED <<jobs, inputs, aborted>>
  <1> DEFINE i == inputs[j].identity
             freed == IF runningCounts[i] = 0 THEN 0 ELSE runningCounts[i] - 1
             started == NextQueued(freed, queues[i])
  <1>1. i \in Identities /\ j \in Accepted /\ inputs[j].onOutcome \in BOOLEAN
    BY AcceptedJob
  <1>2. freed < Concurrency
    <2>1. runningCounts[i] \in Nat /\ runningCounts[i] <= Concurrency
      BY <1>1 DEF JobIndInv, JobTypeOK, SlotsMatchRunningJobs
    <2> QED  BY <2>1, ConcurrencyAssumption
  <1>3. started = next
    BY <1>2 DEF NextQueued, NextIn
  <1>4. /\ jobState' = [k \in JobIds |-> IF k \in started THEN "running"
                           ELSE IF k = j THEN outcome ELSE jobState[k]]
        /\ lastEvent' = [k \in JobIds |-> IF k \in started THEN "running"
                           ELSE IF k = j /\ AnnouncedAtOnce(j) THEN outcome
                           ELSE lastEvent[k]]
        /\ historyPending' = [historyPending EXCEPT ![j] = inputs[j].onOutcome]
        /\ UNCHANGED <<jobs, inputs, aborted>>
    BY DEF FinishRunning, SettleJob
  <1> HIDE DEF started
  <1> QED  BY <1>1, <1>3, <1>4

LEMMA AnnouncedKept ==
    ASSUME JobIndInv, SettledIsAnnounced, [JobNext]_jobVars
    PROVE  SettledIsAnnounced'
  <1>0. Accepted \subseteq JobIds
    BY AcceptedAreJobs
  <1>1. ASSUME NEW in \in Inputs, Submit(in) PROVE SettledIsAnnounced'
    <2> DEFINE j == Len(inputs) + 1
               first == IF runningCounts[in.identity] < Concurrency THEN "running" ELSE "queued"
    <2>1. /\ j \in JobIds /\ j \notin Accepted /\ Accepted' = Accepted \union {j}
          /\ jobState' = [jobState EXCEPT ![j] = first]
          /\ lastEvent' = [lastEvent EXCEPT ![j] = first]
      BY <1>1, SubmitStarts
    <2>2. historyPending' = historyPending /\ first \notin Terminal
      BY <1>1 DEF Submit, Terminal
    <2> HIDE DEF j, first
    <2> QED  BY <1>0, <2>1, <2>2 DEF SettledIsAnnounced, JobIndInv, JobTypeOK
  <1>2. ASSUME NEW j \in JobIds, NEW outcome \in Terminal, NEW behind \in {"idle", "left"},
               FinishRunning(j, outcome, behind), jobState[j] = "running"
        PROVE  SettledIsAnnounced'
    <2>1. PICK next : next = NextIn(inputs[j].identity)
      OBVIOUS
    <2>2. /\ inputs[j].onOutcome \in BOOLEAN
          /\ jobState' = [k \in JobIds |-> IF k \in next THEN "running"
                              ELSE IF k = j THEN outcome ELSE jobState[k]]
          /\ lastEvent' = [k \in JobIds |-> IF k \in next THEN "running"
                              ELSE IF k = j /\ AnnouncedAtOnce(j) THEN outcome
                              ELSE lastEvent[k]]
          /\ historyPending' = [historyPending EXCEPT ![j] = inputs[j].onOutcome]
          /\ UNCHANGED <<jobs, inputs, aborted>>
      BY <1>2, <2>1, FinishStarts
    <2>3. Accepted' = Accepted
      BY <2>2 DEF Accepted
    <2> SUFFICES ASSUME NEW k \in Accepted, jobState'[k] \in Terminal, ~historyPending'[k]
                 PROVE  lastEvent'[k] = jobState'[k]
      BY <2>3 DEF SettledIsAnnounced
    <2>4. k \in JobIds /\ k \notin next
      BY <1>0, <2>2 DEF Terminal
    <2>5. CASE k = j
      BY <2>2, <2>4, <2>5 DEF AnnouncedAtOnce, JobIndInv, JobTypeOK
    <2>6. CASE k # j
      BY <2>2, <2>4, <2>6 DEF SettledIsAnnounced, JobIndInv, JobTypeOK
    <2> QED  BY <2>5, <2>6
  <1>3. ASSUME NEW j \in JobIds, Refused(j) \/ RunResolves(j) \/ RunThrows(j)
        PROVE  SettledIsAnnounced'
    <2>1. jobState[j] = "running"
      BY <1>3 DEF Refused, RunResolves, RunThrows, JobIndInv, JobsAreCoherent
    <2>2. PICK outcome \in Terminal, behind \in {"idle", "left"} :
            FinishRunning(j, outcome, behind)
      BY <1>3 DEF Refused, RunResolves, RunThrows, ThrownOutcome, Terminal
    <2> QED  BY <1>2, <2>1, <2>2
  <1>4. ASSUME NEW j \in JobIds, Recorded(j) PROVE SettledIsAnnounced'
    BY <1>0, <1>4 DEF Recorded, SettledIsAnnounced, Accepted, JobIndInv, JobTypeOK
  <1>5. ASSUME NEW j \in JobIds, CancelQueued(j) PROVE SettledIsAnnounced'
    <2>1. /\ jobState' = [jobState EXCEPT ![j] = "cancelled"]
          /\ lastEvent' = IF AnnouncedAtOnce(j) THEN [lastEvent EXCEPT ![j] = "cancelled"]
                          ELSE lastEvent
          /\ historyPending' = [historyPending EXCEPT ![j] = inputs[j].onOutcome]
          /\ inputs' = inputs /\ Accepted' = Accepted
      BY <1>5 DEF CancelQueued, SettleJob, Accepted
    <2> QED  BY <1>0, <2>1 DEF SettledIsAnnounced, AnnouncedAtOnce, JobIndInv, JobTypeOK
  <1>6. CASE \/ SubmitRefused \/ UNCHANGED jobVars
            \/ \E j \in JobIds : Authorized(j) \/ RetentionPrune(j) \/ CancelRunning(j)
    BY <1>6 DEF SubmitRefused, Authorized, RetentionPrune, CancelRunning, jobVars,
                SettledIsAnnounced, Accepted
  <1>7. ASSUME NEW j \in JobIds, Report(j) PROVE SettledIsAnnounced'
    BY <1>0, <1>7 DEF Report, SettledIsAnnounced, Accepted, JobIndInv, JobTypeOK
  <1> QED  BY <1>1, <1>3, <1>4, <1>5, <1>6, <1>7 DEF JobNext

(***************************************************************************)
(* The refinement mapping.                                                 *)
(***************************************************************************)
LEMMA OwnersAre ==
    ASSUME JobTypeOK
    PROVE  /\ Owners \in Seq(Identities) /\ Len(Owners) = Len(inputs)
           /\ \A n \in Accepted : Owners[n] = inputs[n].identity
  <1>1. Len(inputs) \in Nat /\ \A n \in 1..Len(inputs) : inputs[n] \in Inputs
    BY LenProperties, ElementOfSeq DEF JobTypeOK
  <1>2. Owners \in [1..Len(inputs) -> Identities]
    BY <1>1, InputsAssumption DEF Owners, Accepted
  <1>3. Owners \in Seq(Identities)
    BY <1>1, <1>2, SeqDef
  <1>4. Len(Owners) = Len(inputs)
    BY <1>1, <1>2, <1>3, LenProperties
  <1> QED  BY <1>3, <1>4 DEF Owners

LEMMA OwnersGrow ==
    ASSUME JobTypeOK, NEW in \in Inputs, inputs' = Append(inputs, in)
    PROVE  Owners' = Append(Owners, in.identity)
  <1>1. /\ Owners \in Seq(Identities) /\ Len(Owners) = Len(inputs) /\ Len(inputs) \in Nat
        /\ \A n \in 1..Len(inputs) : Owners[n] = inputs[n].identity
        /\ inputs \in Seq(Inputs) /\ in.identity \in Identities
    BY OwnersAre, LenProperties, InputsAssumption DEF Accepted, JobTypeOK
  <1>2. /\ inputs' \in Seq(Inputs) /\ Len(inputs') = Len(inputs) + 1
        /\ \A n \in 1..Len(inputs) : inputs'[n] = inputs[n]
        /\ inputs'[Len(inputs) + 1] = in
    BY <1>1, AppendProperties
  <1>3. /\ Append(Owners, in.identity) \in Seq(Identities)
        /\ Len(Append(Owners, in.identity)) = Len(inputs) + 1
        /\ \A n \in 1..Len(inputs) : Append(Owners, in.identity)[n] = Owners[n]
        /\ Append(Owners, in.identity)[Len(inputs) + 1] = in.identity
    BY <1>1, AppendProperties
  <1>4. Owners' = [n \in 1..(Len(inputs) + 1) |-> inputs'[n].identity]
    BY <1>2 DEF Owners, Accepted
  <1>5. \A n \in 1..(Len(inputs) + 1) :
            inputs'[n].identity = Append(Owners, in.identity)[n]
    <2> TAKE n \in 1..(Len(inputs) + 1)
    <2>1. n = Len(inputs) + 1 \/ n \in 1..Len(inputs)
      BY <1>1
    <2> QED  BY <1>1, <1>2, <1>3, <2>1
  <1>6. DOMAIN Append(Owners, in.identity) = 1..(Len(inputs) + 1)
    BY <1>3, LenProperties
  <1>7. Append(Owners, in.identity) =
            [n \in 1..(Len(inputs) + 1) |-> Append(Owners, in.identity)[n]]
    BY <1>3, <1>6, LenProperties
  <1> QED  BY <1>4, <1>5, <1>7

LEMMA OwnersStay == ASSUME inputs' = inputs PROVE Owners' = Owners
  BY DEF Owners, Accepted

(* Whose jobs the service sees in which state.                             *)
LEMMA WhoseJobs ==
    ASSUME JobTypeOK, NEW i \in Identities
    PROVE  Service!In(i, "running") = Running(i) /\ Service!In(i, "queued") = Queued(i)
  BY OwnersAre DEF Service!In, Running, Queued, Of, Accepted

(* The head of a queue is the job that waited longest.                     *)
LEMMA LongestWaiting ==
    ASSUME JobIndInv, NEW i \in Identities
    PROVE  Service!Oldest(i) = NextIn(i)
  <1> DEFINE q == queues[i]
  <1>1. /\ q \in Seq(JobIds) /\ Len(q) \in Nat /\ Queued(i) \subseteq Nat
        /\ \A n \in 1..Len(q) : q[n] \in Queued(i)
        /\ \A k \in Queued(i) : \E n \in 1..Len(q) : q[n] = k
        /\ \A m, n \in 1..Len(q) : m < n => q[m] < q[n]
    BY LenProperties DEF JobIndInv, JobTypeOK, QueuesAreExact, Queued, Of, Accepted
  <1>2. Service!Oldest(i) = {k \in Queued(i) : \A l \in Queued(i) : k <= l}
    BY WhoseJobs DEF Service!Oldest, JobIndInv
  <1>3. CASE q = <<>>
    <2>1. Queued(i) = {}
      BY <1>1, <1>3
    <2> QED  BY <1>2, <1>3, <2>1 DEF NextIn
  <1>4. CASE q # <<>>
    <2>1. 1 \in 1..Len(q) /\ Head(q) = q[1]
      BY <1>1, <1>4, EmptySeq
    <2>2. \A l \in Queued(i) : q[1] <= l /\ (l <= q[1] => l = q[1])
      <3> TAKE l \in Queued(i)
      <3>1. PICK n \in 1..Len(q) : q[n] = l
        BY <1>1
      <3>2. n = 1 \/ q[1] < q[n]
        BY <1>1, <2>1
      <3>3. q[1] \in Nat /\ l \in Nat
        BY <1>1, <2>1
      <3> QED  BY <3>1, <3>2, <3>3
    <2>3. q[1] \in Queued(i)
      BY <1>1, <2>1
    <2> QED  BY <1>2, <1>4, <2>1, <2>2, <2>3 DEF NextIn
  <1> QED  BY <1>3, <1>4

(* The service may forget what capacity may evict.                         *)
LEMMA ForgettableJobs ==
    ASSUME ServiceInv PROVE Evictable \subseteq Service!Forgettable
  <1>1. \A j \in jobs : j \in Accepted
    BY DEF ServiceInv, JobIndInv, JobsAreCoherent
  <1> QED
    BY <1>1 DEF ServiceInv, SettledIsAnnounced,
                Service!Forgettable, Service!Settled, Evictable, Terminal

(* The service and the runner count alike.                                 *)
LEMMA SameCount == \A S : Service!Cardinality(S) = Cardinality(S)
  BY Zenon DEF Service!Cardinality, Cardinality

-----------------------------------------------------------------------------
LEMMA SubmitAccepts ==
    ASSUME ServiceInv, NEW in \in Inputs, Submit(in)
    PROVE  Service!Next
  <1> DEFINE j == Len(inputs) + 1
             i == in.identity
             first == IF runningCounts[i] < Concurrency THEN "running" ELSE "queued"
  <1>1. /\ i \in Identities /\ j \in JobIds /\ Len(inputs) \in Nat
        /\ inputs' = Append(inputs, in)
        /\ jobState' = [jobState EXCEPT ![j] = first]
        /\ lastEvent' = [lastEvent EXCEPT ![j] = first]
    BY SubmitStarts DEF ServiceInv
  <1>2. /\ HasRoom /\ jobs' = (jobs \ Evicted) \union {j} /\ UNCHANGED aborted
    BY DEF Submit
  <1>3. Owners' = Append(Owners, i) /\ Len(Owners) + 1 = j
    BY <1>1, OwnersGrow, OwnersAre DEF ServiceInv, JobIndInv
  <1>4. Evicted \in SUBSET Service!Forgettable
    BY ForgettableJobs DEF Evicted
  <1>5. runningCounts[i] = Cardinality(Service!In(i, "running"))
    BY <1>1, WhoseJobs DEF ServiceInv, JobIndInv, SlotsMatchRunningJobs
  <1>6. Asked' = Asked
    BY <1>2 DEF Asked
  <1> HIDE DEF i
  <1>7. Service!Accept(i)
    <2>1. first = IF Service!Cardinality(Service!In(i, "running")) < Concurrency
                  THEN "running" ELSE "queued"
      BY <1>5, SameCount
    <2>2. j \in Service!Jobs
      BY <1>1 DEF Service!Jobs, JobIds
    <2>3. Service!Cardinality(jobs \ Evicted) < MaxJobs
      BY <1>2, SameCount DEF HasRoom
    <2>4. \E gone \in SUBSET Service!Forgettable :
              /\ Service!Cardinality(jobs \ gone) < MaxJobs
              /\ jobs' = (jobs \ gone) \union {j}
      BY <1>2, <1>4, <2>3
    <2> HIDE DEF first, j
    <2> QED  BY <1>1, <1>3, <1>6, <2>1, <2>2, <2>4 DEF Service!Accept
  <1> QED  BY <1>1, <1>7 DEF Service!Next

LEMMA FinishFinishes ==
    ASSUME ServiceInv, NEW j \in JobIds, jobState[j] = "running",
           NEW outcome \in Terminal, NEW behind \in {"idle", "left"},
           FinishRunning(j, outcome, behind),
           outcome = "cancelled" => aborted[j],
           outcome = "failed" => ~aborted[j]
    PROVE  Service!Next
  <1>1. PICK i : i = inputs[j].identity
    OBVIOUS
  <1>2. PICK next : next = NextIn(i)
    OBVIOUS
  <1>3. /\ i \in Identities /\ j \in Accepted
        /\ jobState' = [k \in JobIds |-> IF k \in next THEN "running"
                              ELSE IF k = j THEN outcome ELSE jobState[k]]
        /\ lastEvent' = [k \in JobIds |-> IF k \in next THEN "running"
                              ELSE IF k = j /\ AnnouncedAtOnce(j) THEN outcome
                              ELSE lastEvent[k]]
        /\ UNCHANGED <<jobs, inputs, aborted>>
    BY <1>1, <1>2, FinishStarts DEF ServiceInv
  <1>4. Owners[j] = i /\ Owners' = Owners /\ Asked' = Asked
    BY <1>1, <1>3, OwnersAre, OwnersStay DEF ServiceInv, JobIndInv, Asked
  <1>5. next = Service!Oldest(Owners[j])
    BY <1>2, <1>3, <1>4, LongestWaiting DEF ServiceInv
  <1>6. /\ j \in Service!Jobs /\ outcome \in Service!Settled /\ Service!Jobs = JobIds
        /\ AnnouncedAtOnce(j) \in BOOLEAN
        /\ outcome = "cancelled" => j \in Asked
        /\ outcome = "failed" => j \notin Asked
    BY <1>3 DEF Service!Jobs, JobIds, Service!Settled, Terminal, Asked, AnnouncedAtOnce
  <1>7. Service!Finish(j, outcome)
    BY <1>3, <1>4, <1>5, <1>6 DEF Service!Finish
  <1> QED  BY <1>6, <1>7 DEF Service!Next

LEMMA NothingForTheService ==
    ASSUME UNCHANGED <<inputs, jobState, aborted, lastEvent, jobs>>
    PROVE  UNCHANGED Service!vars
  BY OwnersStay DEF Service!vars, Asked

(* The event that follows a late report only repeats it.                   *)
LEMMA OutcomeAnnounced ==
    ASSUME ServiceInv, NEW j \in JobIds, Recorded(j) \/ Report(j)
    PROVE  Service!Next \/ UNCHANGED Service!vars
  <1>1. /\ lastEvent' = [lastEvent EXCEPT ![j] = jobState[j]]
        /\ UNCHANGED <<jobs, jobState, inputs, aborted>>
    BY DEF Recorded, Report
  <1>2. jobState[j] \in Terminal /\ j \in Accepted
    BY DEF Recorded, Report, ServiceInv, JobIndInv, JobsAreCoherent, Terminal
  <1>3. Owners' = Owners /\ Asked' = Asked
    BY <1>1, OwnersStay DEF Asked
  <1>4. CASE lastEvent[j] \in Terminal
    <2>1. lastEvent' = lastEvent
      BY <1>1, <1>2, <1>4 DEF ServiceInv, OnlyLateReportsPrecedeHistory, JobIndInv, JobTypeOK
    <2> QED  BY <1>1, <2>1, NothingForTheService
  <1>5. CASE lastEvent[j] \notin Terminal
    <2>1. Service!Announce(j)
      BY <1>1, <1>2, <1>3, <1>5 DEF Service!Announce, Service!Settled, Terminal
    <2> QED  BY <2>1 DEF Service!Next, Service!Jobs, JobIds
  <1> QED  BY <1>4, <1>5

LEMMA CancelAsks ==
    ASSUME ServiceInv, NEW j \in JobIds, CancelRunning(j)
    PROVE  Service!Next
  <1>1. /\ j \in jobs /\ jobState[j] = "running"
        /\ aborted' = [aborted EXCEPT ![j] = TRUE]
        /\ UNCHANGED <<jobs, jobState, inputs, lastEvent>>
    BY DEF CancelRunning
  <1>2. Owners' = Owners
    BY <1>1, OwnersStay
  <1>3. Asked' = Asked \union {j}
    BY <1>1 DEF Asked, ServiceInv, JobIndInv, JobTypeOK
  <1>4. Service!Ask(j)
    BY <1>1, <1>2, <1>3 DEF Service!Ask
  <1> QED  BY <1>4 DEF Service!Next, Service!Jobs, JobIds

LEMMA CancelWithdraws ==
    ASSUME ServiceInv, NEW j \in JobIds, CancelQueued(j)
    PROVE  Service!Next
  <1>1. /\ j \in jobs /\ jobState[j] = "queued"
        /\ aborted' = [aborted EXCEPT ![j] = TRUE]
        /\ jobState' = [jobState EXCEPT ![j] = "cancelled"]
        /\ lastEvent' = IF AnnouncedAtOnce(j) THEN [lastEvent EXCEPT ![j] = "cancelled"]
                        ELSE lastEvent
        /\ UNCHANGED <<jobs, inputs>>
    BY DEF CancelQueued
  <1>2. Owners' = Owners
    BY <1>1, OwnersStay
  <1>3. Asked' = Asked \union {j}
    BY <1>1 DEF Asked, ServiceInv, JobIndInv, JobTypeOK
  <1>4. \E told \in BOOLEAN :
            lastEvent' = IF told THEN [lastEvent EXCEPT ![j] = "cancelled"] ELSE lastEvent
    BY <1>1
  <1>5. Service!Withdraw(j)
    BY <1>1, <1>2, <1>3, <1>4 DEF Service!Withdraw
  <1> QED  BY <1>5 DEF Service!Next, Service!Jobs, JobIds

(* Pruning and the timers forget what has been announced, or nothing.      *)
LEMMA PruningForgets ==
    ASSUME ServiceInv, NEW gone \in SUBSET Evictable, jobs' = jobs \ gone,
           UNCHANGED <<jobState, inputs, aborted, lastEvent>>
    PROVE  Service!Next
  <1>1. Owners' = Owners /\ Asked' = Asked
    BY OwnersStay DEF Asked
  <1>2. gone \in SUBSET Service!Forgettable
    BY ForgettableJobs
  <1> QED  BY <1>1, <1>2 DEF Service!Next, Service!Forget

LEMMA TimerForgets ==
    ASSUME ServiceInv, NEW j \in JobIds, RetentionPrune(j)
    PROVE  Service!Next
  <1>1. /\ j \in timers /\ jobs' = jobs \ {j}
        /\ UNCHANGED <<jobState, inputs, aborted, lastEvent>>
    BY DEF RetentionPrune
  <1>2. jobState[j] \in Terminal /\ ~historyPending[j]
    BY <1>1 DEF ServiceInv, JobIndInv, JobsAreCoherent
  <1>3. {j} \intersect jobs \in SUBSET Evictable /\ jobs' = jobs \ ({j} \intersect jobs)
    BY <1>1, <1>2 DEF Evictable
  <1> QED  BY <1>1, <1>3, PruningForgets

(***************************************************************************)
(* Whatever is submitted, refused, cancelled, recorded or pruned, in any   *)
(* order of callbacks and for every concurrency and capacity, the runner   *)
(* is a JobService (ImplementsJobService): jobs of an identity start in    *)
(* the order of their submission, in the step that frees their slot.       *)
(***************************************************************************)
THEOREM RunnerIsAJobService == JobSpec => ImplementsJobService
  <1>1. JobInit => Service!Init
    <2> SUFFICES ASSUME JobInit PROVE Service!Init
      OBVIOUS
    <2>1. inputs = <<>> /\ Accepted = {}
      BY DEF JobInit, Accepted
    <2>2. Owners = <<>>
      BY <2>1 DEF Owners
    <2>3. Asked = {}
      BY DEF JobInit, Asked
    <2> QED  BY <2>2, <2>3 DEF JobInit, Service!Init, Service!Jobs, JobIds
  <1>2. JobInit => SettledIsAnnounced
    BY DEF JobInit, SettledIsAnnounced, Accepted
  <1>3. JobIndInv /\ SettledIsAnnounced /\ [JobNext]_jobVars => SettledIsAnnounced'
    BY AnnouncedKept
  <1>4. ServiceInv /\ [JobNext]_jobVars => [Service!Next]_Service!vars
    <2> SUFFICES ASSUME ServiceInv, [JobNext]_jobVars
                 PROVE  Service!Next \/ UNCHANGED Service!vars
      OBVIOUS
    <2>1. CASE \E in \in Inputs : Submit(in)
      BY <2>1, SubmitAccepts
    <2>2. CASE SubmitRefused
      <3>1. /\ jobs' = jobs \ Evicted /\ Evicted \in SUBSET Evictable
            /\ UNCHANGED <<jobState, inputs, aborted, lastEvent>>
        BY <2>2 DEF SubmitRefused, Evicted
      <3> QED  BY <3>1, PruningForgets
    <2>3. ASSUME NEW j \in JobIds, Refused(j) \/ RunResolves(j) \/ RunThrows(j)
          PROVE  Service!Next
      <3>1. jobState[j] = "running"
        BY <2>3 DEF Refused, RunResolves, RunThrows, ServiceInv, JobIndInv, JobsAreCoherent
      <3>2. PICK outcome \in Terminal, behind \in {"idle", "left"} :
                /\ FinishRunning(j, outcome, behind)
                /\ outcome = "cancelled" => aborted[j]
                /\ outcome = "failed" => ~aborted[j]
        BY <2>3 DEF Refused, RunResolves, RunThrows, ThrownOutcome, Terminal
      <3> QED  BY <3>1, <3>2, FinishFinishes
    <2>4. ASSUME NEW j \in JobIds, Authorized(j) PROVE UNCHANGED Service!vars
      BY <2>4, NothingForTheService DEF Authorized
    <2>5. ASSUME NEW j \in JobIds,
                 RetentionPrune(j) \/ CancelRunning(j) \/ CancelQueued(j)
          PROVE  Service!Next
      BY <2>5, TimerForgets, CancelAsks, CancelWithdraws
    <2>7. ASSUME NEW j \in JobIds, Recorded(j) \/ Report(j)
          PROVE  Service!Next \/ UNCHANGED Service!vars
      BY <2>7, OutcomeAnnounced
    <2>6. CASE UNCHANGED jobVars
      BY <2>6, NothingForTheService DEF jobVars
    <2> QED  BY <2>1, <2>2, <2>3, <2>4, <2>5, <2>6, <2>7 DEF JobNext
  <1>5. JobIndInv /\ OnlyLateReportsPrecedeHistory /\ SettledIsAnnounced => ServiceInv
    BY DEF ServiceInv
  <1> QED
    BY JobInvariance, TerminalEventsAreTrue, <1>1, <1>2, <1>3, <1>4, <1>5, PTL
       DEF JobSpec, ImplementsJobService, Service!Spec

-----------------------------------------------------------------------------
(***************************************************************************)
(* The AI chat.  ChatInv gives every variable its type and every reference *)
(* something to refer to.  While requests do not meet, SoloInv: one        *)
(* request and one reply at most are at work, the reply that of the        *)
(* conversation in memory; beyond its stop a request is at work alone;     *)
(* what a request has read of a reply agrees with what was decided since.  *)
(* While nothing meets a request, AloneInv also follows every call of the  *)
(* assistant: from the reply that sees to it, through the conversation     *)
(* that waits for it or holds it back and the request that collects it,    *)
(* to the provider.                                                        *)
(***************************************************************************)
CardSets == SUBSET Cards

ShownParts == [Cards -> CardStates]

Conversations == [pending : CardSets, held : CardSets, turn : Nat, array : Nat,
                  owed : CardSets]

TurnSteps == {"ask", "provider", "calls", "failing", "ended"}

Turns == [conv : Nat, message : Messages, results : CardSets, shown : ShownParts,
          step : TurnSteps, calls : CardSets, proposed : CardSets, aborted : BOOLEAN]

RequestSteps == {"new", "stop", "wait", "cancel", "decline", "collect", "append", "reply",
                 "start", "read", "apply", "write", "go", "done"}

Choices == {"applied", "failed", "declined"}

ChatRequests == [step : RequestSteps, conv : Nat, message : Messages \union {NoMessage},
                 before : ShownParts, card : Cards, choice : Choices, results : CardSets,
                 awaits : Nat]

Lines == [role : {"user", "assistant"}, of : Messages]

(* Every variable has its type, and what refers to a turn or to a          *)
(* conversation refers to one that there is.                               *)
ChatTypes ==
    /\ meets \in Meetings
    /\ transcript \in Seq(Lines)
    /\ parts \in [Messages -> ShownParts]
    /\ conversations \in Seq(Conversations)
    /\ turns \in Seq(Turns)
    /\ asking \in [Asking -> ChatRequests]
    /\ drawn \in 0..MaxCalls

ChatBound ==
    /\ liveChat \in 0..Len(conversations)
    /\ \A c \in 1..Len(conversations) :
        conversations[c].turn <= Len(turns) /\ conversations[c].array <= Len(turns)
    /\ \A n \in 1..Len(turns) :
        /\ turns[n].conv \in 1..Len(conversations)
        /\ conversations[turns[n].conv].array # 0
    /\ \A r \in Asking :
        /\ asking[r].conv <= Len(conversations)
        /\ asking[r].awaits <= Len(turns)
        /\ asking[r].step \in {"apply", "write", "go"} => asking[r].message # NoMessage

ChatInv == ChatTypes /\ ChatBound

-----------------------------------------------------------------------------
LEMMA ChatNumbers ==
  /\ MaxCalls \in Nat \ {0} /\ MaxRequests \in Nat /\ 1 \in Cards
  /\ Cards \subseteq Nat /\ Messages \subseteq Nat \ {0} /\ Asking = Messages
  BY ChatBounds DEF Cards, Messages, Asking

LEMMA CardSetParts ==
  /\ {} \in CardSets
  /\ \A x \in CardSets, y \in CardSets : x \union y \in CardSets /\ x \ y \in CardSets
  /\ \A k \in Cards : {k} \in CardSets
  /\ \A x \in CardSets : x \subseteq Cards
  BY DEF CardSets

LEMMA NothingShown == NoCards \in ShownParts
  BY DEF NoCards, ShownParts, CardStates

LEMMA OneShown ==
  ASSUME NEW shown \in ShownParts, NEW k \in Cards, NEW state \in CardStates
  PROVE  /\ [shown EXCEPT ![k] = state] \in ShownParts
         /\ \A l \in Cards : [shown EXCEPT ![k] = state][l] = IF l = k THEN state ELSE shown[l]
  BY DEF ShownParts

LEMMA NewTypes ==
  /\ NewConversation \in Conversations
  /\ NewRequest \in ChatRequests
  /\ Answered \in ChatRequests
  /\ Answered = [step |-> "done", conv |-> 0, message |-> NoMessage, before |-> NoCards,
                 card |-> 1, choice |-> "declined", results |-> {}, awaits |-> 0]
  <1>1. NewConversation \in Conversations
    BY CardSetParts DEF NewConversation, Conversations
  <1>2. Answered = [step |-> "done", conv |-> 0, message |-> NoMessage, before |-> NoCards,
                    card |-> 1, choice |-> "declined", results |-> {}, awaits |-> 0]
    BY DEF Answered, NewRequest
  <1>3. NewRequest \in ChatRequests
    BY ChatNumbers, CardSetParts, NothingShown
       DEF NewRequest, ChatRequests, RequestSteps, Choices
  <1>4. Answered \in ChatRequests
    BY <1>2, ChatNumbers, CardSetParts, NothingShown DEF ChatRequests, RequestSteps, Choices
  <1>5. QED
    BY <1>1, <1>2, <1>3, <1>4

(* A sequence of which one element is replaced, and one that grows.        *)
LEMMA ElementReplaced ==
  ASSUME NEW S, NEW s \in Seq(S), NEW i \in 1..Len(s), NEW x \in S, NEW t,
         t = [s EXCEPT ![i] = x]
  PROVE  /\ t \in Seq(S) /\ Len(t) = Len(s) /\ DOMAIN t = 1..Len(s)
         /\ t[i] = x
         /\ \A j \in 1..Len(s) : t[j] = IF j = i THEN x ELSE s[j]
  OBVIOUS

LEMMA ElementAppended ==
  ASSUME NEW S, NEW s \in Seq(S), NEW x \in S, NEW t, t = Append(s, x)
  PROVE  /\ t \in Seq(S) /\ Len(t) = Len(s) + 1
         /\ t[Len(t)] = x
         /\ \A j \in 1..Len(s) : t[j] = s[j]
  OBVIOUS

LEMMA TurnFields ==
  ASSUME NEW t \in Turns
  PROVE  /\ t.conv \in Nat /\ t.message \in Messages /\ t.results \in CardSets
         /\ t.shown \in ShownParts /\ t.step \in TurnSteps /\ t.calls \in CardSets
         /\ t.proposed \in CardSets /\ t.aborted \in BOOLEAN
  BY DEF Turns

LEMMA ConversationFields ==
  ASSUME NEW c \in Conversations
  PROVE  /\ c.pending \in CardSets /\ c.held \in CardSets /\ c.turn \in Nat
         /\ c.array \in Nat /\ c.owed \in CardSets
  BY DEF Conversations

LEMMA RequestFields ==
  ASSUME NEW q \in ChatRequests
  PROVE  /\ q.step \in RequestSteps /\ q.conv \in Nat
         /\ q.message \in Messages \union {NoMessage}
         /\ q.before \in ShownParts /\ q.card \in Cards /\ q.choice \in Choices
         /\ q.results \in CardSets /\ q.awaits \in Nat
  BY DEF ChatRequests

LEMMA NewTurnType ==
  ASSUME NEW c \in Nat, NEW m \in Messages, NEW results \in CardSets, NEW shown \in ShownParts
  PROVE  /\ NewTurn(c, m, results, shown) \in Turns
         /\ NewTurn(c, m, results, shown) =
              [conv |-> c, message |-> m, results |-> results, shown |-> shown,
               step |-> "ask", calls |-> {}, proposed |-> {}, aborted |-> FALSE]
  BY CardSetParts DEF NewTurn, Turns, TurnSteps

LEMMA EndedTurn ==
  ASSUME NEW t \in Turns
  PROVE  /\ Ended(t) \in Turns
         /\ Ended(t).conv = t.conv /\ Ended(t).message = t.message
         /\ Ended(t).step = "ended" /\ Ended(t).calls = {} /\ Ended(t).shown = t.shown
  BY NewTurnType, TurnFields, CardSetParts DEF Ended, NewTurn, Turns, TurnSteps

LEMMA TypesBegin == ChatInit => ChatInv
  <1> SUFFICES ASSUME ChatInit PROVE ChatInv
    OBVIOUS
  <1>1. parts \in [Messages -> ShownParts]
    BY NothingShown DEF ChatInit
  <1>2. asking \in [Asking -> ChatRequests] /\ \A r \in Asking : asking[r] = NewRequest
    BY NewTypes DEF ChatInit
  <1>3. ChatTypes
    BY <1>1, <1>2, ChatNumbers DEF ChatInit, ChatTypes
  <1>4. NewRequest.conv = 0 /\ NewRequest.awaits = 0 /\ NewRequest.step = "new"
    BY DEF NewRequest
  <1>5. ChatBound
    BY <1>2, <1>4 DEF ChatInit, ChatBound
  <1>6. QED
    BY <1>3, <1>5 DEF ChatInv

-----------------------------------------------------------------------------
(* What a step of turn n does: turn n becomes t and its conversation c.    *)
TurnBecomes(n, t, c) ==
    /\ turns' = [turns EXCEPT ![n] = t]
    /\ conversations' = [conversations EXCEPT ![turns[n].conv] = c]
    /\ t.conv = turns[n].conv /\ t.message = turns[n].message
    /\ c.array = conversations[turns[n].conv].array
    /\ asking' = asking /\ transcript' = transcript /\ meets' = meets

Conv(n) == conversations[turns[n].conv]

LEMMA TurnTypes ==
  ASSUME ChatInv, NEW n \in 1..Len(turns), NEW t \in Turns, NEW c \in Conversations,
         TurnBecomes(n, t, c), c.turn \in {Conv(n).turn, 0},
         parts' \in [Messages -> ShownParts], liveChat' \in {liveChat, 0},
         drawn' \in 0..MaxCalls
  PROVE  ChatInv'
  <1> USE DEF ChatInv
  <1> DEFINE d == turns[n].conv
  <1>1. turns \in Seq(Turns) /\ conversations \in Seq(Conversations) /\ d \in 1..Len(conversations)
    BY DEF ChatTypes, ChatBound
  <1>2. /\ turns' \in Seq(Turns) /\ Len(turns') = Len(turns)
        /\ \A i \in 1..Len(turns) : turns'[i] = IF i = n THEN t ELSE turns[i]
    BY <1>1, ElementReplaced DEF TurnBecomes
  <1>3. /\ conversations' \in Seq(Conversations) /\ Len(conversations') = Len(conversations)
        /\ \A i \in 1..Len(conversations) :
             conversations'[i] = IF i = d THEN c ELSE conversations[i]
    BY <1>1, ElementReplaced DEF TurnBecomes
  <1>4. ChatTypes'
    BY <1>2, <1>3 DEF ChatTypes, TurnBecomes
  <1>5. \A i \in 1..Len(conversations') :
          conversations'[i].turn <= Len(turns') /\ conversations'[i].array <= Len(turns')
    BY <1>1, <1>2, <1>3 DEF ChatBound, TurnBecomes, Conv
  <1>6. \A i \in 1..Len(turns') :
          /\ turns'[i].conv \in 1..Len(conversations')
          /\ conversations'[turns'[i].conv].array # 0
    BY <1>1, <1>2, <1>3 DEF ChatBound, TurnBecomes
  <1>7. ChatBound'
    BY <1>2, <1>3, <1>5, <1>6 DEF ChatBound, TurnBecomes
  <1>8. QED
    BY <1>4, <1>7

(* The conversation keeps everything but what it owes.                     *)
SameConversation(n, c) ==
    /\ c.turn = Conv(n).turn /\ c.pending = Conv(n).pending /\ c.held = Conv(n).held

SameShown(n, t) == t.shown = turns[n].shown /\ t.aborted = turns[n].aborted

LEMMA ConvTypes ==
  ASSUME ChatInv, NEW n \in 1..Len(turns)
  PROVE  /\ turns \in Seq(Turns) /\ conversations \in Seq(Conversations)
         /\ turns[n] \in Turns /\ Conv(n) \in Conversations
         /\ turns[n].conv \in 1..Len(conversations)
         /\ turns = [turns EXCEPT ![n] = turns[n]]
         /\ conversations = [conversations EXCEPT ![turns[n].conv] = Conv(n)]
  <1>1. turns \in Seq(Turns) /\ conversations \in Seq(Conversations)
        /\ turns[n].conv \in 1..Len(conversations)
    BY DEF ChatInv, ChatTypes, ChatBound
  <1>2. \A S : \A s \in Seq(S) : \A i \in 1..Len(s) : s[i] \in S /\ s = [s EXCEPT ![i] = s[i]]
    OBVIOUS
  <1>3. QED
    BY <1>1, <1>2 DEF Conv

LEMMA AsksMoves ==
  ASSUME ChatInv, NEW n \in 1..Len(turns), TurnAsks(n)
  PROVE  \E t \in Turns, c \in Conversations :
           /\ TurnBecomes(n, t, c) /\ SameConversation(n, c) /\ SameShown(n, t)
           /\ t.step = "provider" /\ t.results = {} /\ t.calls = turns[n].calls
           /\ t.proposed = turns[n].proposed
           /\ c.owed = Conv(n).owed \ turns[n].results
           /\ parts' = parts /\ liveChat' = liveChat /\ drawn' = drawn
  <1> DEFINE t == [turns[n] EXCEPT !.step = "provider", !.results = {}]
             c == [Conv(n) EXCEPT !.owed = @ \ turns[n].results]
  <1>1. turns[n] \in Turns /\ Conv(n) \in Conversations
    BY ConvTypes
  <1>2. t \in Turns /\ t.conv = turns[n].conv /\ t.message = turns[n].message
        /\ SameShown(n, t) /\ t.step = "provider" /\ t.results = {}
        /\ t.calls = turns[n].calls /\ t.proposed = turns[n].proposed
    BY <1>1, CardSetParts DEF Turns, TurnSteps, SameShown
  <1>3. c \in Conversations /\ SameConversation(n, c) /\ c.array = Conv(n).array
        /\ c.owed = Conv(n).owed \ turns[n].results
    BY <1>1, CardSetParts, TurnFields DEF Conversations, SameConversation
  <1>4. turns' = [turns EXCEPT ![n] = t]
    BY ConvTypes DEF TurnAsks
  <1>5. conversations' = [conversations EXCEPT ![turns[n].conv] = c]
    BY ConvTypes DEF TurnAsks, Conv
  <1>6. TurnBecomes(n, t, c)
    BY <1>2, <1>3, <1>4, <1>5 DEF TurnBecomes, TurnAsks, Conv
  <1>7. QED
    BY <1>2, <1>3, <1>6 DEF TurnAsks

LEMMA AnsweredMoves ==
  ASSUME ChatInv, NEW n \in 1..Len(turns), TurnAnswered(n)
  PROVE  \E t \in Turns, c \in Conversations :
           /\ TurnBecomes(n, t, c) /\ SameConversation(n, c) /\ SameShown(n, t)
           /\ t.step = "calls" /\ t.results = turns[n].results
           /\ drawn' \in drawn..MaxCalls /\ t.calls = drawn+1..drawn'
           /\ t.proposed = turns[n].proposed
           /\ c.owed = Conv(n).owed \union t.calls
           /\ parts' = parts /\ liveChat' = liveChat
  <1> DEFINE calls == drawn+1..drawn'
             t == [turns[n] EXCEPT !.step = "calls", !.calls = calls]
             c == [Conv(n) EXCEPT !.owed = @ \union calls]
  <1>0. drawn \in 0..MaxCalls /\ drawn' \in drawn..MaxCalls
    BY DEF TurnAnswered, ChatInv, ChatTypes
  <1>1. turns[n] \in Turns /\ Conv(n) \in Conversations
    BY ConvTypes
  <1>a. calls \in CardSets
    BY <1>0, ChatNumbers DEF CardSets, Cards
  <1> HIDE DEF calls
  <1>2. t \in Turns /\ t.conv = turns[n].conv /\ t.message = turns[n].message
        /\ SameShown(n, t) /\ t.step = "calls" /\ t.results = turns[n].results
        /\ t.calls = calls /\ t.proposed = turns[n].proposed
    BY <1>1, <1>a DEF Turns, TurnSteps, SameShown
  <1>3. c \in Conversations /\ SameConversation(n, c) /\ c.array = Conv(n).array
        /\ c.owed = Conv(n).owed \union calls
    BY <1>1, <1>a, CardSetParts DEF Conversations, SameConversation
  <1>4. turns' = [turns EXCEPT ![n] = t]
    BY ConvTypes DEF TurnAnswered, calls
  <1>5. conversations' = [conversations EXCEPT ![turns[n].conv] = c]
    BY ConvTypes DEF TurnAnswered, Conv, calls
  <1>6. TurnBecomes(n, t, c)
    BY <1>2, <1>3, <1>4, <1>5 DEF TurnBecomes, TurnAnswered, Conv
  <1>7. t.calls = drawn+1..drawn'
    BY <1>2 DEF calls
  <1>8. parts' = parts /\ liveChat' = liveChat
    BY DEF TurnAnswered
  <1> HIDE DEF t, c
  <1>9. QED
    BY <1>0, <1>2, <1>3, <1>6, <1>7, <1>8

LEMMA ProposedMoves ==
  ASSUME ChatInv, NEW n \in 1..Len(turns), NEW k \in Cards, CardProposed(n, k)
  PROVE  \E t \in Turns, c \in Conversations :
           /\ TurnBecomes(n, t, c) /\ c = Conv(n)
           /\ t.step = "calls" /\ t.results = turns[n].results
           /\ t.calls = turns[n].calls \ {k} /\ t.proposed = turns[n].proposed \union {k}
           /\ t.shown = [turns[n].shown EXCEPT ![k] = "pending"]
           /\ parts' = [parts EXCEPT ![turns[n].message] = t.shown]
           /\ liveChat' = liveChat /\ drawn' = drawn
  <1> DEFINE shown == [turns[n].shown EXCEPT ![k] = "pending"]
             t == [turns[n] EXCEPT !.calls = @ \ {k}, !.proposed = @ \union {k},
                                   !.shown = shown]
  <1>1. turns[n] \in Turns /\ Conv(n) \in Conversations
    BY ConvTypes
  <1>a. shown \in ShownParts
    BY <1>1, TurnFields, OneShown DEF CardStates
  <1> HIDE DEF shown
  <1>2. t \in Turns /\ t.conv = turns[n].conv /\ t.message = turns[n].message
        /\ t.step = turns[n].step /\ t.results = turns[n].results /\ t.shown = shown
        /\ t.calls = turns[n].calls \ {k} /\ t.proposed = turns[n].proposed \union {k}
    BY <1>1, <1>a, CardSetParts DEF Turns
  <1>3. t.step = "calls"
    BY <1>2 DEF CardProposed
  <1>4. turns' = [turns EXCEPT ![n] = t]
    BY ConvTypes DEF CardProposed, shown
  <1>5. conversations' = [conversations EXCEPT ![turns[n].conv] = Conv(n)]
    BY ConvTypes DEF CardProposed
  <1>6. TurnBecomes(n, t, Conv(n))
    BY <1>2, <1>4, <1>5 DEF TurnBecomes, CardProposed, Conv
  <1>7. parts' = [parts EXCEPT ![turns[n].message] = shown] /\ liveChat' = liveChat /\ drawn' = drawn
    BY DEF CardProposed, shown
  <1>8. shown = [turns[n].shown EXCEPT ![k] = "pending"]
    BY DEF shown
  <1> HIDE DEF t
  <1>9. QED
    BY <1>1, <1>2, <1>3, <1>6, <1>7, <1>8

LEMMA RefusedMoves ==
  ASSUME ChatInv, NEW n \in 1..Len(turns), NEW k \in Cards, CallRefused(n, k)
  PROVE  \E t \in Turns, c \in Conversations :
           /\ TurnBecomes(n, t, c) /\ c = Conv(n) /\ SameShown(n, t)
           /\ t.step = "calls" /\ t.results = turns[n].results \union {k}
           /\ t.calls = turns[n].calls \ {k} /\ t.proposed = turns[n].proposed
           /\ parts' = parts /\ liveChat' = liveChat /\ drawn' = drawn
  <1> DEFINE t == [turns[n] EXCEPT !.calls = @ \ {k}, !.results = @ \union {k}]
  <1>1. turns[n] \in Turns /\ Conv(n) \in Conversations
    BY ConvTypes
  <1>2. t \in Turns /\ t.conv = turns[n].conv /\ t.message = turns[n].message
        /\ t.step = turns[n].step /\ t.results = turns[n].results \union {k}
        /\ t.calls = turns[n].calls \ {k} /\ t.proposed = turns[n].proposed
        /\ SameShown(n, t)
    BY <1>1, CardSetParts DEF Turns, SameShown
  <1>3. t.step = "calls"
    BY <1>2 DEF CallRefused
  <1>4. turns' = [turns EXCEPT ![n] = t]
    BY ConvTypes DEF CallRefused
  <1>5. conversations' = [conversations EXCEPT ![turns[n].conv] = Conv(n)]
    BY ConvTypes DEF CallRefused
  <1>6. TurnBecomes(n, t, Conv(n))
    BY <1>2, <1>4, <1>5 DEF TurnBecomes, CallRefused, Conv
  <1>7. QED
    BY <1>1, <1>2, <1>3, <1>6 DEF CallRefused

(* A reply without cards asks the provider again, or else it ends.         *)
LEMMA PausesMoves ==
  ASSUME ChatInv, NEW n \in 1..Len(turns), TurnPauses(n)
  PROVE  \E t \in Turns, c \in Conversations :
           /\ TurnBecomes(n, t, c)
           /\ parts' = parts /\ liveChat' = liveChat /\ drawn' = drawn
           /\ t.shown = turns[n].shown /\ t.calls = {}
           /\ \/ /\ turns[n].proposed = {} /\ t.step = "ask" /\ t.proposed = {}
                 /\ t.results = turns[n].results /\ c = Conv(n)
              \/ /\ turns[n].proposed # {} \/ turns[n].results = {}
                 /\ t.step = "ended" /\ c.turn = 0
                 /\ c.pending = Conv(n).pending \union turns[n].proposed
                 /\ c.held = IF turns[n].proposed = {} THEN Conv(n).held
                             ELSE turns[n].results
                 /\ c.owed = Conv(n).owed
  <1>0. /\ turns[n] \in Turns /\ Conv(n) \in Conversations
        /\ turns \in Seq(Turns) /\ conversations \in Seq(Conversations)
        /\ turns[n].conv \in 1..Len(conversations)
        /\ conversations = [conversations EXCEPT ![turns[n].conv] = Conv(n)]
    BY ConvTypes
  <1>a. parts' = parts /\ liveChat' = liveChat /\ drawn' = drawn /\ turns[n].calls = {}
    BY DEF TurnPauses
  <1>b. asking' = asking /\ transcript' = transcript /\ meets' = meets
    BY DEF TurnPauses
  <1>1. CASE turns[n].proposed = {} /\ turns[n].results # {}
    <2> DEFINE t == [turns[n] EXCEPT !.step = "ask"]
    <2>1. t \in Turns /\ t.conv = turns[n].conv /\ t.message = turns[n].message
          /\ t.step = "ask" /\ t.results = turns[n].results /\ t.shown = turns[n].shown
          /\ t.calls = turns[n].calls /\ t.proposed = turns[n].proposed
      BY <1>0 DEF Turns, TurnSteps
    <2>2. turns' = [turns EXCEPT ![n] = t] /\ conversations' = conversations
      BY <1>0, <1>1 DEF TurnPauses
    <2>3. TurnBecomes(n, t, Conv(n))
      BY <1>0, <1>b, <2>1, <2>2 DEF TurnBecomes, Conv
    <2> HIDE DEF t
    <2>4. QED
      BY <1>0, <1>1, <1>a, <2>1, <2>3
  <1>2. CASE ~(turns[n].proposed = {} /\ turns[n].results # {})
    <2> DEFINE t == Ended(turns[n])
               held == IF turns[n].proposed = {} THEN Conv(n).held ELSE turns[n].results
               c == [Conv(n) EXCEPT !.pending = @ \union turns[n].proposed,
                                    !.held = held, !.turn = 0]
    <2>1. t \in Turns /\ t.conv = turns[n].conv /\ t.message = turns[n].message
          /\ t.step = "ended" /\ t.calls = {}
      BY <1>0, EndedTurn
    <2>2. t.shown = turns[n].shown
      BY DEF Ended, NewTurn
    <2>3. held \in CardSets
      BY <1>0, TurnFields, ConversationFields
    <2> HIDE DEF t, held
    <2>4. c \in Conversations /\ c.array = Conv(n).array /\ c.turn = 0
          /\ c.pending = Conv(n).pending \union turns[n].proposed
          /\ c.held = held /\ c.owed = Conv(n).owed
      BY <1>0, <2>3, CardSetParts, TurnFields DEF Conversations
    <2>5. turns' = [turns EXCEPT ![n] = t]
      BY <1>2 DEF TurnPauses, t
    <2>6. conversations' = [conversations EXCEPT ![turns[n].conv] = c]
      BY ZenonT(60), <1>0, <1>2 DEF TurnPauses, held, Conv
    <2>7. TurnBecomes(n, t, c)
      BY <1>b, <2>1, <2>4, <2>5, <2>6 DEF TurnBecomes, Conv
    <2>8. held = IF turns[n].proposed = {} THEN Conv(n).held ELSE turns[n].results
      BY DEF held
    <2> HIDE DEF c
    <2>9. QED
      BY <1>2, <1>a, <2>1, <2>2, <2>4, <2>7, <2>8
  <1>3. QED
    BY <1>1, <1>2

LEMMA FailsMoves ==
  ASSUME ChatInv, NEW n \in 1..Len(turns), TurnFails(n)
  PROVE  \E t \in Turns, c \in Conversations :
           /\ TurnBecomes(n, t, c) /\ c = Conv(n) /\ SameShown(n, t)
           /\ t.step = "failing" /\ t.calls = turns[n].calls
           /\ parts' = [parts EXCEPT ![turns[n].message] = turns[Conv(n).array].shown]
           /\ liveChat' = liveChat /\ drawn' = drawn
  <1> DEFINE t == [turns[n] EXCEPT !.step = "failing"]
  <1>1. turns[n] \in Turns /\ Conv(n) \in Conversations
    BY ConvTypes
  <1>2. t \in Turns /\ t.conv = turns[n].conv /\ t.message = turns[n].message
        /\ t.step = "failing" /\ t.calls = turns[n].calls /\ SameShown(n, t)
    BY <1>1 DEF Turns, SameShown, TurnSteps
  <1>3. turns' = [turns EXCEPT ![n] = t]
    BY ConvTypes DEF TurnFails
  <1>4. conversations' = [conversations EXCEPT ![turns[n].conv] = Conv(n)]
    BY ConvTypes DEF TurnFails
  <1>5. TurnBecomes(n, t, Conv(n))
    BY <1>2, <1>3, <1>4 DEF TurnBecomes, TurnFails, Conv
  <1>6. QED
    BY <1>1, <1>2, <1>5 DEF TurnFails, Conv

LEMMA GivesUpMoves ==
  ASSUME ChatInv, NEW n \in 1..Len(turns), TurnGivesUp(n)
  PROVE  \E t \in Turns, c \in Conversations :
           /\ TurnBecomes(n, t, c) /\ c.turn = 0
           /\ t.step = "ended" /\ t.calls = {} /\ t.shown = turns[n].shown
           /\ parts' = parts /\ liveChat' = 0 /\ drawn' = drawn
  <1> DEFINE t == Ended(turns[n])
             c == [Conv(n) EXCEPT !.turn = 0]
  <1>1. turns[n] \in Turns /\ Conv(n) \in Conversations
    BY ConvTypes
  <1>2. t \in Turns /\ t.conv = turns[n].conv /\ t.message = turns[n].message
        /\ t.step = "ended" /\ t.calls = {} /\ t.shown = turns[n].shown
    BY <1>1, EndedTurn
  <1> HIDE DEF t
  <1>3. c \in Conversations /\ c.array = Conv(n).array /\ c.turn = 0
    BY <1>1 DEF Conversations
  <1>4. turns' = [turns EXCEPT ![n] = t]
    BY DEF TurnGivesUp, t
  <1>5. conversations' = [conversations EXCEPT ![turns[n].conv] = c]
    BY ConvTypes DEF TurnGivesUp, Conv
  <1>6. TurnBecomes(n, t, c)
    BY <1>2, <1>3, <1>4, <1>5 DEF TurnBecomes, TurnGivesUp, Conv
  <1>7. QED
    BY <1>2, <1>3, <1>6 DEF TurnGivesUp

LEMMA TurnStepTypes ==
  ASSUME ChatInv, NEW n \in 1..Len(turns), TurnStep(n)
  PROVE  ChatInv'
  <1>0. /\ parts \in [Messages -> ShownParts] /\ drawn \in 0..MaxCalls
        /\ turns[n] \in Turns /\ turns[n].message \in Messages
    BY ConvTypes, TurnFields DEF ChatInv, ChatTypes
  <1>1. CASE TurnAsks(n)
    BY <1>0, <1>1, AsksMoves, TurnTypes DEF SameConversation
  <1>2. CASE TurnAnswered(n)
    <2>1. drawn' \in 0..MaxCalls
      BY <1>0, <1>2, ChatNumbers DEF TurnAnswered
    <2>2. QED
      BY <1>0, <1>2, <2>1, AnsweredMoves, TurnTypes DEF SameConversation
  <1>3. ASSUME NEW k \in Cards, CardProposed(n, k) PROVE ChatInv'
    <2>1. PICK t \in Turns, c \in Conversations :
           /\ TurnBecomes(n, t, c) /\ c = Conv(n)
           /\ parts' = [parts EXCEPT ![turns[n].message] = t.shown]
           /\ liveChat' = liveChat /\ drawn' = drawn
      BY <1>3, ProposedMoves
    <2>2. parts' \in [Messages -> ShownParts]
      BY <1>0, <2>1, TurnFields
    <2>3. QED
      BY <1>0, <2>1, <2>2, TurnTypes
  <1>4. ASSUME NEW k \in Cards, CallRefused(n, k) PROVE ChatInv'
    BY <1>0, <1>4, RefusedMoves, TurnTypes
  <1>5. CASE TurnPauses(n)
    BY <1>0, <1>5, PausesMoves, TurnTypes
  <1>6. CASE TurnFails(n)
    <2>1. PICK t \in Turns, c \in Conversations :
           /\ TurnBecomes(n, t, c) /\ c = Conv(n)
           /\ parts' = [parts EXCEPT ![turns[n].message] = turns[Conv(n).array].shown]
           /\ liveChat' = liveChat /\ drawn' = drawn
      BY <1>6, FailsMoves
    <2>2. Conv(n).array \in 1..Len(turns)
      BY ConvTypes, ConversationFields DEF ChatInv, ChatBound, Conv
    <2>3. turns[Conv(n).array] \in Turns
      BY <2>2, ConvTypes
    <2>4. parts' \in [Messages -> ShownParts]
      BY <1>0, <2>1, <2>3, TurnFields
    <2>5. QED
      BY <1>0, <2>1, <2>4, TurnTypes
  <1>7. CASE TurnGivesUp(n)
    BY <1>0, <1>7, GivesUpMoves, TurnTypes
  <1>8. QED
    BY <1>1, <1>2, <1>3, <1>4, <1>5, <1>6, <1>7 DEF TurnStep

Active(n) == turns[n].step # "ended"

Quietly == {"decline", "collect", "append", "reply", "start", "read", "apply", "write", "go"}

Remembering == {"collect", "read", "apply", "write", "go"}

(* One request at most is at work, and one reply, the newest, of the       *)
(* conversation in memory; beyond its stop, a request is at work alone.    *)
OneAtWork ==
    /\ \A r, s \in Asking : UnderWay(r) /\ UnderWay(s) => r = s
    /\ \A n \in 1..Len(turns) : Active(n) =>
        /\ n = Len(turns) /\ turns[n].conv = liveChat
        /\ conversations[liveChat].turn = n /\ conversations[liveChat].array = n
    /\ \A r \in Asking : asking[r].step \in Quietly =>
          \A n \in 1..Len(turns) : ~Active(n)
    /\ \A r \in Asking : asking[r].step \in {"wait", "cancel"} => asking[r].awaits = Len(turns)
    /\ \A r \in Asking : asking[r].step \in Remembering => asking[r].conv = liveChat

(* Only a request that is done has cards, and a reply shows what is stored. *)
Shown ==
    /\ \A i \in 1..Len(transcript) : transcript[i].role = "assistant" =>
          asking[transcript[i].of].step \in {"start", "done"}
    /\ \A m \in Messages : parts[m] # NoCards => asking[m].step = "done"
    /\ \A r \in Asking : asking[r].message # NoMessage => asking[asking[r].message].step = "done"
    /\ \A n \in 1..Len(turns) : Active(n) =>
        /\ asking[turns[n].message].step = "done"
        /\ parts[turns[n].message] = turns[n].shown

(* A call that has not been made, or not been seen to, shows no card yet.  *)
Fresh ==
    /\ \A n \in 1..Len(turns) : \A k \in turns[n].calls : k <= drawn
    /\ \A k \in Cards :
        k > drawn \/ (\E n \in 1..Len(turns) : Active(n) /\ k \in turns[n].calls) =>
           /\ \A m \in Messages : parts[m][k] = "none"
           /\ \A r \in Asking : asking[r].before[k] = "none"

(* What a request has read agrees with what has been decided.              *)
Known ==
  \A r \in Asking :
    /\ asking[r].message # NoMessage
       /\ asking[r].step \in {"stop", "wait", "decline", "apply", "write"} =>
         \A k \in Cards : parts[asking[r].message][k] \in Choices =>
            asking[r].before[k] = parts[asking[r].message][k]
    /\ asking[r].step \in {"apply", "write"} => asking[r].before[asking[r].card] = "pending"
    /\ asking[r].step = "go" => parts[asking[r].message] = Decided(r)

SoloInv == OneAtWork /\ Shown /\ Fresh /\ Known

DecisionsStay ==
    \A m \in Messages, k \in Cards : parts[m][k] \in Choices => parts'[m][k] = parts[m][k]

(* A step of a reply shows one card more at most, and stores it.           *)
ShowsAtMostOne(n, t) ==
    /\ \A m \in Messages : m # turns[n].message => parts'[m] = parts[m]
    /\ parts'[turns[n].message] = t.shown
    /\ \A k \in Cards : t.shown[k] # turns[n].shown[k] =>
         k \in turns[n].calls /\ t.shown[k] = "pending" /\ k \notin t.calls

CallsMove(n, t) ==
    /\ drawn' \in drawn..MaxCalls
    /\ \A k \in t.calls : k <= drawn'
    /\ \A k \in t.calls : k > drawn \/ k \in turns[n].calls

LEMMA TurnsAre ==
  ASSUME ChatInv, NEW n \in 1..Len(turns), NEW t \in Turns, NEW c \in Conversations,
         TurnBecomes(n, t, c)
  PROVE  /\ Len(turns') = Len(turns) /\ Len(conversations') = Len(conversations)
         /\ turns'[n] = t
         /\ \A i \in 1..Len(turns) : i # n => turns'[i] = turns[i]
         /\ turns[n].conv \in 1..Len(conversations)
         /\ conversations'[turns[n].conv] = c
         /\ \A i \in 1..Len(conversations) : i # turns[n].conv => conversations'[i] = conversations[i]
  <1>1. turns \in Seq(Turns) /\ conversations \in Seq(Conversations)
        /\ turns[n].conv \in 1..Len(conversations)
    BY ConvTypes
  <1>2. QED
    BY <1>1, ElementReplaced DEF TurnBecomes

LEMMA TurnKeepsSolo ==
  ASSUME ChatInv, SoloInv, NEW n \in 1..Len(turns), NEW t \in Turns, NEW c \in Conversations,
         TurnBecomes(n, t, c), Active(n), ShowsAtMostOne(n, t), CallsMove(n, t),
         t.step # "ended" => c.turn = Conv(n).turn /\ liveChat' = liveChat,
         t.step = "ended" => t.calls = {}
  PROVE  SoloInv' /\ DecisionsStay
  <1>0. /\ Len(turns') = Len(turns) /\ turns'[n] = t
        /\ \A i \in 1..Len(turns) : i # n => turns'[i] = turns[i]
        /\ conversations'[turns[n].conv] = c
    BY TurnsAre
  <1>1. turns[n].message \in Messages /\ asking' = asking /\ transcript' = transcript
        /\ t.message = turns[n].message /\ t.conv = turns[n].conv
        /\ c.array = Conv(n).array /\ turns[n].conv = liveChat
        /\ n = Len(turns)
    BY ConvTypes, TurnFields DEF TurnBecomes, SoloInv, OneAtWork
  <1>2. \A i \in 1..Len(turns) : i # n => ~Active(i) /\ ~Active(i)'
    BY <1>0 DEF SoloInv, OneAtWork, Active
  <1>3. OneAtWork'
    BY <1>0, <1>1, <1>2 DEF SoloInv, OneAtWork, Active, UnderWay, Conv, Quietly, Remembering
  <1>4. Shown'
    BY <1>0, <1>1, <1>2, ChatNumbers DEF SoloInv, Shown, Active, ShowsAtMostOne
  <1>5. \A k \in Cards : k \in turns[n].calls => parts[turns[n].message][k] = "none"
    BY <1>1 DEF SoloInv, Fresh
  <1>6. turns[n].shown = parts[turns[n].message]
    BY DEF SoloInv, Shown
  <1>7. \A m \in Messages, k \in Cards : parts'[m][k] # parts[m][k] =>
          parts[m][k] = "none" /\ parts'[m][k] = "pending" /\ m = turns[n].message /\ k \in turns[n].calls /\ k \notin t.calls
    BY <1>5, <1>6 DEF ShowsAtMostOne
  <1>8. Fresh'
    <2>1. \A i \in 1..Len(turns') : \A k \in turns'[i].calls : k <= drawn'
      <3> SUFFICES ASSUME NEW i \in 1..Len(turns), NEW k \in turns'[i].calls PROVE k <= drawn'
        BY <1>0
      <3>1. CASE i = n
        BY <1>0, <3>1 DEF CallsMove
      <3>2. CASE i # n
        <4>1. turns[i] \in Turns
          BY ConvTypes
        <4>2. k \in turns[i].calls /\ turns[i].calls \subseteq Nat
          BY <1>0, <3>2, <4>1, TurnFields, ChatNumbers, CardSetParts
        <4>3. k <= drawn
          BY <4>2 DEF SoloInv, Fresh
        <4>4. drawn \in Nat /\ drawn' \in drawn..MaxCalls
          BY ChatNumbers DEF CallsMove, ChatInv, ChatTypes
        <4>5. QED
          BY <4>2, <4>3, <4>4, ChatNumbers
      <3>3. QED
        BY <3>1, <3>2
    <2>2. ASSUME NEW k \in Cards,
                 k > drawn' \/ (\E i \in 1..Len(turns') : Active(i)' /\ k \in turns'[i].calls)
          PROVE  /\ \A m \in Messages : parts'[m][k] = "none"
                 /\ \A r \in Asking : asking'[r].before[k] = "none"
      <3>1. k > drawn' => k > drawn /\ k \notin turns[n].calls
        BY ChatNumbers DEF CallsMove, ChatInv, ChatTypes, SoloInv, Fresh
      <3>2. k > drawn' \/ k \in t.calls
        BY <1>0, <1>2, <2>2 DEF Active
      <3>3. k > drawn \/ (\E i \in 1..Len(turns) : Active(i) /\ k \in turns[i].calls)
        BY <3>1, <3>2 DEF CallsMove
      <3>4. /\ \A m \in Messages : parts[m][k] = "none"
            /\ \A r \in Asking : asking[r].before[k] = "none"
        BY <3>3 DEF SoloInv, Fresh
      <3>5. QED
        BY <1>1, <1>7, <3>1, <3>2, <3>4
    <2>3. QED
      BY <2>1, <2>2 DEF Fresh
  <1>9. Known'
    <2> SUFFICES ASSUME NEW r \in Asking
                 PROVE  /\ asking[r].message # NoMessage
                           /\ asking[r].step \in {"stop", "wait", "decline", "apply", "write"} =>
                             \A k \in Cards : parts'[asking[r].message][k] \in Choices =>
                                asking[r].before[k] = parts'[asking[r].message][k]
                        /\ asking[r].step \in {"apply", "write"} =>
                             asking[r].before[asking[r].card] = "pending"
                        /\ asking[r].step # "go"
      BY <1>1 DEF Known, Decided
    <2>1. asking[r].step # "go"
      BY DEF SoloInv, OneAtWork, Quietly
    <2>2. asking[r].message \in Messages \union {NoMessage}
      BY RequestFields DEF ChatInv, ChatTypes
    <2>3. \A m \in Messages, k \in Cards : parts'[m][k] \in Choices => parts'[m][k] = parts[m][k]
      BY <1>7 DEF Choices
    <2>4. QED
      BY <2>1, <2>2, <2>3 DEF SoloInv, Known
  <1>10. DecisionsStay
    BY <1>7 DEF DecisionsStay, Choices
  <1>11. QED
    BY <1>3, <1>4, <1>8, <1>9, <1>10 DEF SoloInv

LEMMA StoredIsShown ==
  ASSUME ChatInv, SoloInv, NEW n \in 1..Len(turns), Active(n), parts' = parts,
         NEW t \in Turns, t.shown = turns[n].shown
  PROVE  ShowsAtMostOne(n, t)
  BY DEF ShowsAtMostOne, SoloInv, Shown

LEMMA NoNewCalls ==
  ASSUME ChatInv, SoloInv, NEW n \in 1..Len(turns), drawn' = drawn,
         NEW t \in Turns, t.calls \subseteq turns[n].calls
  PROVE  CallsMove(n, t)
  BY ChatNumbers DEF CallsMove, SoloInv, Fresh, ChatInv, ChatTypes

LEMMA TurnStepSolo ==
  ASSUME ChatInv, SoloInv, NEW n \in 1..Len(turns), TurnStep(n)
  PROVE  SoloInv' /\ DecisionsStay
  <1>1. Active(n)
    BY DEF TurnStep, TurnAsks, TurnAnswered, CardProposed, CallRefused, TurnPauses,
       TurnFails, TurnGivesUp, Active
  <1>2. CASE TurnAsks(n)
    <2>1. PICK t \in Turns, c \in Conversations :
            /\ TurnBecomes(n, t, c) /\ SameConversation(n, c) /\ SameShown(n, t)
            /\ t.step = "provider" /\ t.calls = turns[n].calls
            /\ parts' = parts /\ liveChat' = liveChat /\ drawn' = drawn
      BY <1>2, AsksMoves
    <2>2. ShowsAtMostOne(n, t) /\ CallsMove(n, t)
      BY <1>1, <2>1, StoredIsShown, NoNewCalls DEF SameShown
    <2>3. QED
      BY <1>1, <2>1, <2>2, TurnKeepsSolo DEF SameConversation
  <1>3. CASE TurnAnswered(n)
    <2>1. PICK t \in Turns, c \in Conversations :
            /\ TurnBecomes(n, t, c) /\ SameConversation(n, c) /\ SameShown(n, t)
            /\ t.step = "calls" /\ drawn' \in drawn..MaxCalls /\ t.calls = drawn+1..drawn'
            /\ parts' = parts /\ liveChat' = liveChat
      BY <1>3, AnsweredMoves
    <2>2. ShowsAtMostOne(n, t)
      BY <1>1, <2>1, StoredIsShown DEF SameShown
    <2>3. CallsMove(n, t)
      BY <2>1, ChatNumbers DEF CallsMove, ChatInv, ChatTypes
    <2>4. QED
      BY <1>1, <2>1, <2>2, <2>3, TurnKeepsSolo DEF SameConversation
  <1>4. ASSUME NEW k \in Cards, CardProposed(n, k) PROVE SoloInv' /\ DecisionsStay
    <2>1. PICK t \in Turns, c \in Conversations :
            /\ TurnBecomes(n, t, c) /\ c = Conv(n)
            /\ t.step = "calls" /\ t.calls = turns[n].calls \ {k}
            /\ t.shown = [turns[n].shown EXCEPT ![k] = "pending"]
            /\ parts' = [parts EXCEPT ![turns[n].message] = t.shown]
            /\ liveChat' = liveChat /\ drawn' = drawn
      BY <1>4, ProposedMoves
    <2>2. turns[n].shown \in ShownParts /\ turns[n].message \in Messages /\ parts \in [Messages -> ShownParts]
      BY ConvTypes, TurnFields DEF ChatInv, ChatTypes
    <2>3. \A l \in Cards : t.shown[l] = IF l = k THEN "pending" ELSE turns[n].shown[l]
      BY <2>1, <2>2 DEF ShownParts
    <2>4. k \in turns[n].calls
      BY <1>4 DEF CardProposed
    <2>5. ShowsAtMostOne(n, t)
      BY <2>1, <2>2, <2>3, <2>4 DEF ShowsAtMostOne
    <2>6. CallsMove(n, t)
      BY <2>1, NoNewCalls
    <2>7. QED
      BY <1>1, <2>1, <2>5, <2>6, TurnKeepsSolo
  <1>5. ASSUME NEW k \in Cards, CallRefused(n, k) PROVE SoloInv' /\ DecisionsStay
    <2>1. PICK t \in Turns, c \in Conversations :
            /\ TurnBecomes(n, t, c) /\ c = Conv(n) /\ SameShown(n, t)
            /\ t.step = "calls" /\ t.calls = turns[n].calls \ {k}
            /\ parts' = parts /\ liveChat' = liveChat /\ drawn' = drawn
      BY <1>5, RefusedMoves
    <2>2. ShowsAtMostOne(n, t) /\ CallsMove(n, t)
      BY <1>1, <2>1, StoredIsShown, NoNewCalls DEF SameShown
    <2>3. QED
      BY <1>1, <2>1, <2>2, TurnKeepsSolo
  <1>6. CASE TurnPauses(n)
    <2>1. PICK t \in Turns, c \in Conversations :
            /\ TurnBecomes(n, t, c) /\ t.shown = turns[n].shown /\ t.calls = {}
            /\ parts' = parts /\ liveChat' = liveChat /\ drawn' = drawn
            /\ t.step # "ended" => c = Conv(n)
      BY <1>6, PausesMoves
    <2>2. ShowsAtMostOne(n, t) /\ CallsMove(n, t)
      BY <1>1, <2>1, StoredIsShown, NoNewCalls
    <2>3. QED
      BY <1>1, <2>1, <2>2, TurnKeepsSolo
  <1>7. CASE TurnFails(n)
    <2>1. PICK t \in Turns, c \in Conversations :
            /\ TurnBecomes(n, t, c) /\ c = Conv(n) /\ SameShown(n, t)
            /\ t.step = "failing" /\ t.calls = turns[n].calls
            /\ parts' = [parts EXCEPT ![turns[n].message] = turns[Conv(n).array].shown]
            /\ liveChat' = liveChat /\ drawn' = drawn
      BY <1>7, FailsMoves
    <2>2. Conv(n).array = n /\ parts[turns[n].message] = turns[n].shown
      BY <1>1 DEF SoloInv, OneAtWork, Shown, Conv
    <2>3. parts' = parts
      BY <2>1, <2>2 DEF ChatInv, ChatTypes
    <2>4. ShowsAtMostOne(n, t) /\ CallsMove(n, t)
      BY <1>1, <2>1, <2>3, StoredIsShown, NoNewCalls DEF SameShown
    <2>5. QED
      BY <1>1, <2>1, <2>4, TurnKeepsSolo
  <1>8. CASE TurnGivesUp(n)
    <2>1. PICK t \in Turns, c \in Conversations :
            /\ TurnBecomes(n, t, c) /\ t.step = "ended" /\ t.calls = {}
            /\ t.shown = turns[n].shown
            /\ parts' = parts /\ liveChat' = 0 /\ drawn' = drawn
      BY <1>8, GivesUpMoves
    <2>2. ShowsAtMostOne(n, t) /\ CallsMove(n, t)
      BY <1>1, <2>1, StoredIsShown, NoNewCalls
    <2>3. QED
      BY <1>1, <2>1, <2>2, TurnKeepsSolo
  <1>9. QED
    BY <1>2, <1>3, <1>4, <1>5, <1>6, <1>7, <1>8 DEF TurnStep

TurnsAlike ==
    /\ turns' \in Seq(Turns) /\ Len(turns') = Len(turns)
    /\ \A i \in 1..Len(turns) :
        /\ turns'[i].conv = turns[i].conv /\ turns'[i].message = turns[i].message
        /\ turns'[i].results = turns[i].results /\ turns'[i].shown = turns[i].shown
        /\ turns'[i].step = turns[i].step /\ turns'[i].calls = turns[i].calls
        /\ turns'[i].proposed = turns[i].proposed

ConversationsAlike ==
    /\ conversations' \in Seq(Conversations) /\ Len(conversations') = Len(conversations)
    /\ \A c \in 1..Len(conversations) :
        /\ conversations'[c].turn = conversations[c].turn
        /\ conversations'[c].array = conversations[c].array
        /\ conversations'[c].owed = conversations[c].owed

(* What a step of request r does beside its own record, which becomes q.   *)
RequestBecomes(r, q) ==
    /\ asking' = [asking EXCEPT ![r] = q]
    /\ TurnsAlike /\ ConversationsAlike
    /\ liveChat' = liveChat /\ drawn' = drawn /\ meets' = meets

SoundRequest(q) ==
    /\ q.conv <= Len(conversations) /\ q.awaits <= Len(turns)
    /\ q.step \in {"apply", "write", "go"} => q.message # NoMessage

LEMMA NothingAlike ==
  ASSUME ChatInv
  PROVE  /\ turns' = turns => TurnsAlike
         /\ conversations' = conversations => ConversationsAlike
  BY DEF ChatInv, ChatTypes, TurnsAlike, ConversationsAlike

LEMMA TurnReplaced ==
  ASSUME turns \in Seq(Turns), NEW x \in 1..Len(turns), NEW u \in Turns,
         turns' = [turns EXCEPT ![x] = u]
  PROVE  /\ turns' \in Seq(Turns) /\ Len(turns') = Len(turns)
         /\ \A i \in 1..Len(turns) : turns'[i] = IF i = x THEN u ELSE turns[i]
  BY ElementReplaced

Aborts(x) == turns' = [turns EXCEPT ![x].aborted = TRUE]

LEMMA AbortedAlike ==
  ASSUME ChatInv, NEW x \in 1..Len(turns), Aborts(x)
  PROVE  TurnsAlike
  <1> DEFINE u == [turns[x] EXCEPT !.aborted = TRUE]
  <1>1. turns \in Seq(Turns) /\ turns[x] \in Turns
    BY ConvTypes
  <1>2. u \in Turns /\ u.conv = turns[x].conv /\ u.message = turns[x].message
        /\ u.results = turns[x].results /\ u.shown = turns[x].shown
        /\ u.step = turns[x].step /\ u.calls = turns[x].calls
        /\ u.proposed = turns[x].proposed
    BY <1>1 DEF Turns
  <1>3. turns' = [turns EXCEPT ![x] = u]
    BY DEF Aborts
  <1> HIDE DEF u
  <1>4. /\ turns' \in Seq(Turns) /\ Len(turns') = Len(turns)
        /\ \A i \in 1..Len(turns) : turns'[i] = IF i = x THEN u ELSE turns[i]
    BY <1>1, <1>2, <1>3, TurnReplaced
  <1>5. QED
    BY <1>2, <1>4 DEF TurnsAlike

(* A conversation of which only the pending and held calls change.         *)
LEMMA CollectedAlike ==
  ASSUME ChatInv, NEW c \in 1..Len(conversations), NEW p \in CardSets, NEW h \in CardSets,
         conversations' = [conversations EXCEPT ![c].pending = p, ![c].held = h]
  PROVE  /\ ConversationsAlike
         /\ conversations'[c].pending = p /\ conversations'[c].held = h
  <1> DEFINE d == [conversations[c] EXCEPT !.pending = p, !.held = h]
  <1>1. conversations \in Seq(Conversations) /\ conversations[c] \in Conversations
    BY DEF ChatInv, ChatTypes
  <1>2. d \in Conversations /\ d.turn = conversations[c].turn
        /\ d.array = conversations[c].array /\ d.owed = conversations[c].owed
        /\ d.pending = p /\ d.held = h
    BY <1>1 DEF Conversations
  <1>3. conversations' = [conversations EXCEPT ![c] = d]
    BY <1>1
  <1> HIDE DEF d
  <1>4. /\ conversations' \in Seq(Conversations) /\ Len(conversations') = Len(conversations)
        /\ \A i \in 1..Len(conversations) : conversations'[i] = IF i = c THEN d ELSE conversations[i]
    BY SMTT(30), <1>1, <1>2, <1>3, ElementReplaced
  <1>5. QED
    BY <1>2, <1>4 DEF ConversationsAlike

LEMMA RequestTypes ==
  ASSUME ChatInv, NEW r \in Asking, NEW q \in ChatRequests, RequestBecomes(r, q),
         SoundRequest(q), parts' \in [Messages -> ShownParts], transcript' \in Seq(Lines)
  PROVE  ChatInv'
  <1>1. asking \in [Asking -> ChatRequests]
    BY DEF ChatInv, ChatTypes
  <1>2. /\ asking' \in [Asking -> ChatRequests]
        /\ \A s \in Asking : asking'[s] = IF s = r THEN q ELSE asking[s]
    BY <1>1 DEF RequestBecomes
  <1>3. ChatTypes'
    BY <1>2 DEF ChatInv, ChatTypes, RequestBecomes, TurnsAlike, ConversationsAlike
  <1>4. \A i \in 1..Len(turns') :
          /\ turns'[i].conv \in 1..Len(conversations')
          /\ conversations'[turns'[i].conv].array # 0
    <2> SUFFICES ASSUME NEW i \in 1..Len(turns)
                 PROVE  /\ turns'[i].conv \in 1..Len(conversations')
                        /\ conversations'[turns'[i].conv].array # 0
      BY DEF RequestBecomes, TurnsAlike
    <2>1. turns[i].conv \in 1..Len(conversations) /\ conversations[turns[i].conv].array # 0
      BY DEF ChatInv, ChatBound
    <2>2. turns'[i].conv = turns[i].conv
      BY DEF RequestBecomes, TurnsAlike
    <2>3. QED
      BY <2>1, <2>2 DEF RequestBecomes, ConversationsAlike
  <1>5. \A c \in 1..Len(conversations') :
          conversations'[c].turn <= Len(turns') /\ conversations'[c].array <= Len(turns')
    BY DEF ChatInv, ChatBound, RequestBecomes, TurnsAlike, ConversationsAlike
  <1>6. ChatBound'
    BY <1>2, <1>4, <1>5 DEF ChatInv, ChatBound, RequestBecomes, TurnsAlike,
       ConversationsAlike, SoundRequest
  <1>7. QED
    BY <1>3, <1>6 DEF ChatInv

-----------------------------------------------------------------------------
NobodyElse(r) == \A s \in Asking : s # r => ~UnderWay(s)

NothingWritten == \A n \in 1..Len(turns) : ~Active(n)

(* The record agrees with OneAtWork, Shown and Known.                      *)
AloneRequest(r, q) ==
    /\ q.step # "new"
    /\ q.step \in Quietly => NothingWritten
    /\ q.step \in {"wait", "cancel"} => q.awaits = Len(turns)
    /\ q.step \in Remembering => q.conv = liveChat
    /\ asking[r].step = "start" => q.step = "done"
    /\ q.message # NoMessage => asking[q.message].step = "done"

KnownRequest(q) ==
    /\ q.message # NoMessage
       /\ q.step \in {"stop", "wait", "decline", "apply", "write"} =>
         \A k \in Cards : parts'[q.message][k] \in Choices =>
            q.before[k] = parts'[q.message][k]
    /\ q.step \in {"apply", "write"} => q.before[q.card] = "pending"
    /\ q.step = "go" => parts'[q.message] = [q.before EXCEPT ![q.card] = q.choice]

OldLines(r, q) ==
    \A i \in 1..Len(transcript') : transcript'[i].role = "assistant" =>
        \/ i \in 1..Len(transcript) /\ transcript'[i] = transcript[i]
        \/ transcript'[i].of = r /\ q.step = "start"

OldCards(q) ==
    /\ \A m \in Messages : parts'[m] = parts[m] \/ (asking[m].step = "done" /\ NothingWritten)
    /\ \A k \in Cards :
        (\A m \in Messages : parts[m][k] = "none") /\ (\A s \in Asking : asking[s].before[k] = "none") =>
            q.before[k] = "none" /\ \A m \in Messages : parts'[m][k] = "none"

LEMMA RequestKeepsSolo ==
  ASSUME ChatInv, SoloInv, NEW r \in Asking, NEW q \in ChatRequests, RequestBecomes(r, q),
         asking[r].step # "done", NobodyElse(r),
         AloneRequest(r, q), KnownRequest(q), OldLines(r, q), OldCards(q)
  PROVE  SoloInv'
  <1>1. asking \in [Asking -> ChatRequests] /\ turns \in Seq(Turns)
    BY DEF ChatInv, ChatTypes
  <1>2. \A s \in Asking : asking'[s] = IF s = r THEN q ELSE asking[s]
    BY <1>1 DEF RequestBecomes
  <1>3. \A s \in Asking : s # r => asking[s].step \in {"new", "done"}
    BY DEF NobodyElse, UnderWay
  <1>4. \A i \in 1..Len(turns) : (Active(i)' <=> Active(i)) /\ turns[i] \in Turns
    BY <1>1 DEF RequestBecomes, TurnsAlike, Active
  <1>5. \A i \in 1..Len(turns) : Active(i) => turns[i].conv \in 1..Len(conversations)
    BY DEF ChatInv, ChatBound
  <1>6. OneAtWork'
    <2>1. \A s, u \in Asking : UnderWay(s)' /\ UnderWay(u)' => s = u
      BY <1>2, <1>3 DEF UnderWay
    <2>2. \A i \in 1..Len(turns') : Active(i)' =>
        /\ i = Len(turns') /\ turns'[i].conv = liveChat'
        /\ conversations'[liveChat'].turn = i /\ conversations'[liveChat'].array = i
      BY <1>4, <1>5 DEF SoloInv, OneAtWork, RequestBecomes, TurnsAlike, ConversationsAlike
    <2>3. \A s \in Asking : asking'[s].step \in Quietly =>
          \A i \in 1..Len(turns') : ~Active(i)'
      BY <1>2, <1>3, <1>4 DEF AloneRequest, NothingWritten, RequestBecomes, TurnsAlike, Quietly
    <2>4. \A s \in Asking : asking'[s].step \in {"wait", "cancel"} => asking'[s].awaits = Len(turns')
      BY <1>2, <1>3 DEF AloneRequest, RequestBecomes, TurnsAlike
    <2>5. \A s \in Asking : asking'[s].step \in Remembering => asking'[s].conv = liveChat'
      BY <1>2, <1>3 DEF AloneRequest, RequestBecomes, Remembering
    <2>6. QED
      BY <2>1, <2>2, <2>3, <2>4, <2>5 DEF OneAtWork
  <1>7. Shown'
    <2>0. \A m \in Messages : asking[m].step = "done" => asking'[m].step = "done"
      BY <1>2, ChatNumbers
    <2>1. \A i \in 1..Len(transcript') : transcript'[i].role = "assistant" =>
          asking'[transcript'[i].of].step \in {"start", "done"}
      <3> SUFFICES ASSUME NEW i \in 1..Len(transcript'), transcript'[i].role = "assistant"
                   PROVE  asking'[transcript'[i].of].step \in {"start", "done"}
        OBVIOUS
      <3>1. CASE i \in 1..Len(transcript) /\ transcript'[i] = transcript[i]
        <4>1. transcript[i].of \in Asking
          <5>1. transcript[i] \in Lines
            BY <3>1 DEF ChatInv, ChatTypes
          <5>2. QED
            BY <5>1, ChatNumbers DEF Lines
        <4>2. asking[transcript[i].of].step \in {"start", "done"}
          BY <3>1 DEF SoloInv, Shown
        <4>3. QED
          BY <1>2, <3>1, <4>1, <4>2 DEF AloneRequest
      <3>2. CASE transcript'[i].of = r /\ q.step = "start"
        BY <1>2, <3>2
      <3>3. QED
        BY <3>1, <3>2 DEF OldLines
    <2>2. \A m \in Messages : parts'[m] # NoCards => asking'[m].step = "done"
      BY <2>0 DEF OldCards, SoloInv, Shown
    <2>3. \A s \in Asking : asking'[s].message # NoMessage => asking'[asking'[s].message].step = "done"
      <3>1. \A s \in Asking : asking'[s].message \in Messages \union {NoMessage}
        BY <1>1, <1>2, RequestFields
      <3>2. QED
        BY <1>2, <2>0, <3>1 DEF AloneRequest, SoloInv, Shown
    <2>4. \A i \in 1..Len(turns') : Active(i)' =>
        /\ asking'[turns'[i].message].step = "done"
        /\ parts'[turns'[i].message] = turns'[i].shown
      <3> SUFFICES ASSUME NEW i \in 1..Len(turns), Active(i)
                   PROVE  /\ asking'[turns'[i].message].step = "done"
                          /\ parts'[turns'[i].message] = turns'[i].shown
        BY <1>4 DEF RequestBecomes, TurnsAlike
      <3>1. turns[i].message \in Messages
        BY <1>4, TurnFields
      <3>2. parts'[turns[i].message] = parts[turns[i].message]
        BY <3>1 DEF OldCards, NothingWritten
      <3>3. turns'[i].message = turns[i].message /\ turns'[i].shown = turns[i].shown
        BY DEF RequestBecomes, TurnsAlike
      <3>4. QED
        BY <2>0, <3>1, <3>2, <3>3 DEF SoloInv, Shown
    <2>5. QED
      BY <2>1, <2>2, <2>3, <2>4 DEF Shown
  <1>8. Fresh'
    <2>1. \A i \in 1..Len(turns) : turns'[i].calls = turns[i].calls
      BY DEF RequestBecomes, TurnsAlike
    <2>2. \A i \in 1..Len(turns') : \A k \in turns'[i].calls : k <= drawn'
      BY <2>1 DEF RequestBecomes, TurnsAlike, SoloInv, Fresh
    <2>3. ASSUME NEW k \in Cards,
                 k > drawn' \/ (\E i \in 1..Len(turns') : Active(i)' /\ k \in turns'[i].calls)
          PROVE  /\ \A m \in Messages : parts'[m][k] = "none"
                 /\ \A s \in Asking : asking'[s].before[k] = "none"
      <3>1. k > drawn \/ (\E i \in 1..Len(turns) : Active(i) /\ k \in turns[i].calls)
        BY <1>4, <2>1, <2>3 DEF RequestBecomes, TurnsAlike
      <3>2. /\ \A m \in Messages : parts[m][k] = "none"
            /\ \A s \in Asking : asking[s].before[k] = "none"
        BY <3>1 DEF SoloInv, Fresh
      <3>3. QED
        BY <1>2, <3>2 DEF OldCards
    <2>4. QED
      BY <2>2, <2>3 DEF Fresh
  <1>9. Known'
    <2> SUFFICES ASSUME NEW s \in Asking
                 PROVE  /\ asking'[s].message # NoMessage
                           /\ asking'[s].step \in {"stop", "wait", "decline", "apply", "write"} =>
                             \A k \in Cards : parts'[asking'[s].message][k] \in Choices =>
                                asking'[s].before[k] = parts'[asking'[s].message][k]
                        /\ asking'[s].step \in {"apply", "write"} =>
                             asking'[s].before[asking'[s].card] = "pending"
                        /\ asking'[s].step = "go" =>
                             parts'[asking'[s].message] =
                                [asking'[s].before EXCEPT ![asking'[s].card] = asking'[s].choice]
      BY DEF Known, Decided
    <2>1. CASE s = r
      BY <1>2, <2>1 DEF KnownRequest
    <2>2. CASE s # r
      BY <1>2, <1>3, <2>2
    <2>3. QED
      BY <2>1, <2>2
  <1>10. QED
    BY <1>6, <1>7, <1>8, <1>9 DEF SoloInv

(* A step that stores no card, of a request that has read no other.        *)
LEMMA NoCardStored ==
  ASSUME parts' = parts, NEW r \in Asking, NEW q, q.before = asking[r].before
  PROVE  DecisionsStay /\ OldCards(q)
  BY DEF DecisionsStay, OldCards

LEMMA NoLineAdded ==
  ASSUME transcript' = transcript, NEW r, NEW q
  PROVE  OldLines(r, q)
  BY DEF OldLines

(* Requests of which some fields change.                                   *)
LEMMA StepChanged ==
  ASSUME ChatInv, NEW r \in Asking, NEW at \in RequestSteps, at # "done", Goes(r, at)
  PROVE  \E q \in ChatRequests :
           /\ asking' = [asking EXCEPT ![r] = q] /\ q.step = at
           /\ q.conv = asking[r].conv /\ q.message = asking[r].message
           /\ q.before = asking[r].before /\ q.card = asking[r].card
           /\ q.choice = asking[r].choice /\ q.results = asking[r].results
           /\ q.awaits = asking[r].awaits
  <1> DEFINE q == [asking[r] EXCEPT !.step = at]
  <1>1. asking \in [Asking -> ChatRequests] /\ asking[r] \in ChatRequests
    BY DEF ChatInv, ChatTypes
  <1>2. /\ q \in ChatRequests /\ q.step = at
        /\ q.conv = asking[r].conv /\ q.message = asking[r].message
        /\ q.before = asking[r].before /\ q.card = asking[r].card
        /\ q.choice = asking[r].choice /\ q.results = asking[r].results
        /\ q.awaits = asking[r].awaits
    BY <1>1 DEF ChatRequests
  <1>3. asking' = [asking EXCEPT ![r] = q]
    BY DEF Goes
  <1> HIDE DEF q
  <1>4. QED
    BY <1>2, <1>3

WaitSet(r, at, n) ==
    asking' = [asking EXCEPT ![r].step = at, ![r].awaits = n]

LEMMA WaitChanged ==
  ASSUME ChatInv, NEW r \in Asking, NEW at \in RequestSteps, NEW n \in Nat,
         WaitSet(r, at, n)
  PROVE  \E q \in ChatRequests :
           /\ asking' = [asking EXCEPT ![r] = q]
           /\ q.step = at /\ q.awaits = n /\ q.conv = asking[r].conv
           /\ q.message = asking[r].message /\ q.before = asking[r].before
           /\ q.card = asking[r].card /\ q.choice = asking[r].choice
           /\ q.results = asking[r].results
  <1> DEFINE q == [asking[r] EXCEPT !.step = at, !.awaits = n]
  <1>1. asking \in [Asking -> ChatRequests] /\ asking[r] \in ChatRequests
    BY DEF ChatInv, ChatTypes
  <1>2. /\ q \in ChatRequests
        /\ q.step = at /\ q.awaits = n /\ q.conv = asking[r].conv
        /\ q.message = asking[r].message /\ q.before = asking[r].before
        /\ q.card = asking[r].card /\ q.choice = asking[r].choice
        /\ q.results = asking[r].results
    BY <1>1 DEF ChatRequests
  <1>3. asking' = [asking EXCEPT ![r] = q]
    BY <1>1 DEF WaitSet
  <1> HIDE DEF q
  <1>4. QED
    BY <1>2, <1>3

MessageSet(r, at, m, b) ==
    asking' = [asking EXCEPT ![r].step = at, ![r].message = m, ![r].before = b]

LEMMA MessageRead ==
  ASSUME ChatInv, NEW r \in Asking, NEW at \in RequestSteps,
         NEW m \in Messages \union {NoMessage}, NEW b \in ShownParts,
         MessageSet(r, at, m, b)
  PROVE  \E q \in ChatRequests :
           /\ asking' = [asking EXCEPT ![r] = q]
           /\ q.step = at /\ q.message = m /\ q.before = b /\ q.conv = asking[r].conv
           /\ q.card = asking[r].card /\ q.choice = asking[r].choice
           /\ q.results = asking[r].results /\ q.awaits = asking[r].awaits
  <1> DEFINE q == [asking[r] EXCEPT !.step = at, !.message = m, !.before = b]
  <1>1. asking \in [Asking -> ChatRequests] /\ asking[r] \in ChatRequests
    BY DEF ChatInv, ChatTypes
  <1>2. /\ q \in ChatRequests
        /\ q.step = at /\ q.message = m /\ q.before = b /\ q.conv = asking[r].conv
        /\ q.card = asking[r].card /\ q.choice = asking[r].choice
        /\ q.results = asking[r].results /\ q.awaits = asking[r].awaits
    BY <1>1 DEF ChatRequests
  <1>3. asking' = [asking EXCEPT ![r] = q]
    BY <1>1 DEF MessageSet
  <1> HIDE DEF q
  <1>4. QED
    BY <1>2, <1>3

MessageSets(r, m, b, at) ==
    asking' = [asking EXCEPT ![r].message = m, ![r].before = b, ![r].step = at]

LEMMA MessageFound ==
  ASSUME ChatInv, NEW r \in Asking, NEW at \in RequestSteps,
         NEW m \in Messages \union {NoMessage}, NEW b \in ShownParts,
         MessageSets(r, m, b, at)
  PROVE  \E q \in ChatRequests :
           /\ asking' = [asking EXCEPT ![r] = q]
           /\ q.message = m /\ q.before = b /\ q.step = at /\ q.conv = asking[r].conv
           /\ q.card = asking[r].card /\ q.choice = asking[r].choice
           /\ q.results = asking[r].results /\ q.awaits = asking[r].awaits
  <1> DEFINE q == [asking[r] EXCEPT !.message = m, !.before = b, !.step = at]
  <1>1. asking \in [Asking -> ChatRequests] /\ asking[r] \in ChatRequests
    BY DEF ChatInv, ChatTypes
  <1>2. /\ q \in ChatRequests
        /\ q.message = m /\ q.before = b /\ q.step = at /\ q.conv = asking[r].conv
        /\ q.card = asking[r].card /\ q.choice = asking[r].choice
        /\ q.results = asking[r].results /\ q.awaits = asking[r].awaits
    BY <1>1 DEF ChatRequests
  <1>3. asking' = [asking EXCEPT ![r] = q]
    BY <1>1 DEF MessageSets
  <1> HIDE DEF q
  <1>4. QED
    BY <1>2, <1>3

ConversationSet(r, at, c) ==
    asking' = [asking EXCEPT ![r].step = at, ![r].conv = c]

LEMMA ConversationTaken ==
  ASSUME ChatInv, NEW r \in Asking, NEW at \in RequestSteps, NEW c \in Nat,
         ConversationSet(r, at, c)
  PROVE  \E q \in ChatRequests :
           /\ asking' = [asking EXCEPT ![r] = q]
           /\ q.step = at /\ q.conv = c /\ q.message = asking[r].message
           /\ q.before = asking[r].before /\ q.card = asking[r].card
           /\ q.choice = asking[r].choice /\ q.results = asking[r].results
           /\ q.awaits = asking[r].awaits
  <1> DEFINE q == [asking[r] EXCEPT !.step = at, !.conv = c]
  <1>1. asking \in [Asking -> ChatRequests] /\ asking[r] \in ChatRequests
    BY DEF ChatInv, ChatTypes
  <1>2. /\ q \in ChatRequests
        /\ q.step = at /\ q.conv = c /\ q.message = asking[r].message
        /\ q.before = asking[r].before /\ q.card = asking[r].card
        /\ q.choice = asking[r].choice /\ q.results = asking[r].results
        /\ q.awaits = asking[r].awaits
    BY <1>1 DEF ChatRequests
  <1>3. asking' = [asking EXCEPT ![r] = q]
    BY <1>1 DEF ConversationSet
  <1> HIDE DEF q
  <1>4. QED
    BY <1>2, <1>3

ResultsSet(r, at, c) ==
    asking' = [asking EXCEPT ![r].step = at, ![r].results = c]

LEMMA ResultsTaken ==
  ASSUME ChatInv, NEW r \in Asking, NEW at \in RequestSteps, NEW c \in CardSets,
         ResultsSet(r, at, c)
  PROVE  \E q \in ChatRequests :
           /\ asking' = [asking EXCEPT ![r] = q]
           /\ q.step = at /\ q.results = c /\ q.conv = asking[r].conv
           /\ q.message = asking[r].message /\ q.before = asking[r].before
           /\ q.card = asking[r].card /\ q.choice = asking[r].choice
           /\ q.awaits = asking[r].awaits
  <1> DEFINE q == [asking[r] EXCEPT !.step = at, !.results = c]
  <1>1. asking \in [Asking -> ChatRequests] /\ asking[r] \in ChatRequests
    BY DEF ChatInv, ChatTypes
  <1>2. /\ q \in ChatRequests
        /\ q.step = at /\ q.results = c /\ q.conv = asking[r].conv
        /\ q.message = asking[r].message /\ q.before = asking[r].before
        /\ q.card = asking[r].card /\ q.choice = asking[r].choice
        /\ q.awaits = asking[r].awaits
    BY <1>1 DEF ChatRequests
  <1>3. asking' = [asking EXCEPT ![r] = q]
    BY <1>1 DEF ResultsSet
  <1> HIDE DEF q
  <1>4. QED
    BY <1>2, <1>3

ChoiceSet(r, at, c) ==
    asking' = [asking EXCEPT ![r].step = at, ![r].choice = c]

LEMMA ChoiceMade ==
  ASSUME ChatInv, NEW r \in Asking, NEW at \in RequestSteps, NEW c \in Choices,
         ChoiceSet(r, at, c)
  PROVE  \E q \in ChatRequests :
           /\ asking' = [asking EXCEPT ![r] = q]
           /\ q.step = at /\ q.choice = c /\ q.conv = asking[r].conv
           /\ q.message = asking[r].message /\ q.before = asking[r].before
           /\ q.card = asking[r].card /\ q.results = asking[r].results
           /\ q.awaits = asking[r].awaits
  <1> DEFINE q == [asking[r] EXCEPT !.step = at, !.choice = c]
  <1>1. asking \in [Asking -> ChatRequests] /\ asking[r] \in ChatRequests
    BY DEF ChatInv, ChatTypes
  <1>2. /\ q \in ChatRequests
        /\ q.step = at /\ q.choice = c /\ q.conv = asking[r].conv
        /\ q.message = asking[r].message /\ q.before = asking[r].before
        /\ q.card = asking[r].card /\ q.results = asking[r].results
        /\ q.awaits = asking[r].awaits
    BY <1>1 DEF ChatRequests
  <1>3. asking' = [asking EXCEPT ![r] = q]
    BY <1>1 DEF ChoiceSet
  <1> HIDE DEF q
  <1>4. QED
    BY <1>2, <1>3

CardSet(r, at, n, k, c) ==
    asking' = [asking EXCEPT ![r].step = at, ![r].conv = n, ![r].card = k, ![r].choice = c]

LEMMA CardPicked ==
  ASSUME ChatInv, NEW r \in Asking, NEW at \in RequestSteps,
         NEW n \in Nat, NEW k \in Cards, NEW c \in Choices,
         CardSet(r, at, n, k, c)
  PROVE  \E q \in ChatRequests :
           /\ asking' = [asking EXCEPT ![r] = q]
           /\ q.step = at /\ q.conv = n /\ q.card = k /\ q.choice = c
           /\ q.message = asking[r].message /\ q.before = asking[r].before
           /\ q.results = asking[r].results /\ q.awaits = asking[r].awaits
  <1> DEFINE q == [asking[r] EXCEPT !.step = at, !.conv = n, !.card = k, !.choice = c]
  <1>1. asking \in [Asking -> ChatRequests] /\ asking[r] \in ChatRequests
    BY DEF ChatInv, ChatTypes
  <1>2. /\ q \in ChatRequests
        /\ q.step = at /\ q.conv = n /\ q.card = k /\ q.choice = c
        /\ q.message = asking[r].message /\ q.before = asking[r].before
        /\ q.results = asking[r].results /\ q.awaits = asking[r].awaits
    BY <1>1 DEF ChatRequests
  <1>3. asking' = [asking EXCEPT ![r] = q]
    BY <1>1 DEF CardSet
  <1> HIDE DEF q
  <1>4. QED
    BY <1>2, <1>3

LEMMA LastReplyIs ==
  ASSUME ChatInv
  PROVE  /\ LastReply \in Messages \union {NoMessage}
         /\ LastReply # NoMessage =>
              /\ Len(transcript) \in 1..Len(transcript)
              /\ transcript[Len(transcript)].role = "assistant"
              /\ transcript[Len(transcript)].of = LastReply
         /\ (IF LastReply = NoMessage THEN NoCards ELSE parts[LastReply]) \in ShownParts
  <1>1. transcript \in Seq(Lines)
    BY DEF ChatInv, ChatTypes
  <1>2. transcript # <<>> => Len(transcript) \in 1..Len(transcript)
                             /\ transcript[Len(transcript)] \in Lines
    BY <1>1
  <1>3. LastReply \in Messages \union {NoMessage}
    BY <1>2 DEF LastReply, Lines
  <1>4. QED
    BY <1>2, <1>3, NothingShown DEF LastReply, ChatInv, ChatTypes

(* The steps of a request that change nothing but its record, and at most  *)
(* abort a reply.                                                          *)
Unmoved == parts' = parts /\ transcript' = transcript /\ conversations' = conversations

SameRequest(p, q) ==
    q.message = p.message /\ q.before = p.before /\ q.card = p.card /\ q.choice = p.choice

Answers(r) ==
    \/ At(r, "stop") \/ At(r, "cancel") \/ At(r, "read") \/ At(r, "apply")
    \/ MayBegin(r)
    \/ /\ At(r, "go")
       /\ \/ asking[r].conv = 0
          \/ asking[r].card \notin conversations[asking[r].conv].pending

Reads(r, q) ==
    /\ MayBegin(r) /\ q.step = "stop" /\ q.message = LastReply
    /\ q.before = IF LastReply = NoMessage THEN NoCards ELSE parts[LastReply]
    /\ q.results = asking[r].results

Waits(r, q) ==
    /\ At(r, "stop") /\ q.step = "wait" /\ q.awaits = Len(turns)
    /\ SameRequest(asking[r], q) /\ q.results = asking[r].results

Declines(r, q) ==
    /\ \/ At(r, "stop") /\ ~Writing(liveChat)
       \/ At(r, "wait") /\ turns[asking[r].awaits].step = "ended"
    /\ q.step = "decline"
    /\ SameRequest(asking[r], q) /\ q.results = asking[r].results

GoesToAppend(r, q) ==
    /\ \/ At(r, "decline") /\ Waiting(asking[r].before) = {}
       \/ At(r, "collect") /\ asking[r].conv = 0
    /\ q.step = "append"
    /\ SameRequest(asking[r], q) /\ q.results = asking[r].results

Picks(r, q) ==
    /\ MayBegin(r) /\ ~Writing(liveChat)
    /\ q.step = "read" /\ q.conv = liveChat
    /\ q.message = asking[r].message /\ q.before = asking[r].before
    /\ q.results = asking[r].results

Finds(r, q) ==
    /\ At(r, "read")
    /\ LastReply # NoMessage /\ parts[LastReply][q.card] = "pending"
    /\ q.step \in {"apply", "write"} /\ q.conv = asking[r].conv
    /\ q.message = LastReply /\ q.before = parts[LastReply]
    /\ q.results = asking[r].results

Applies(r, q) ==
    /\ At(r, "apply") /\ q.step = "write" /\ q.conv = asking[r].conv
    /\ q.message = asking[r].message /\ q.before = asking[r].before
    /\ q.card = asking[r].card /\ q.results = asking[r].results

Cancels(r, q) ==
    /\ MayBegin(r) /\ q.step = "cancel" /\ q.awaits = Len(turns)
    /\ SameRequest(asking[r], q) /\ q.results = asking[r].results

QuietStep(r) ==
    \/ SendReads(r) \/ SendRefused(r) \/ SendStops(r) \/ Stopped(r, "wait", "decline")
    \/ SendDeclines(r) /\ Waiting(asking[r].before) = {}
    \/ SendCollects(r) /\ asking[r].conv = 0
    \/ \E k \in Cards, choice \in {"applied", "declined"} : ActBegins(r, k, choice)
    \/ ActReads(r) \/ ActApplies(r) \/ CancelBegins(r) \/ CancelStops(r)
    \/ ActGoesOn(r) /\ (asking[r].conv = 0
                        \/ asking[r].card \notin conversations[asking[r].conv].pending)

QuietForm(r, q) ==
    \/ q = Answered /\ Answers(r)
    \/ Reads(r, q) \/ Waits(r, q) \/ Declines(r, q) \/ GoesToAppend(r, q)
    \/ Picks(r, q) \/ Finds(r, q) \/ Applies(r, q) \/ Cancels(r, q)

LEMMA AskingIs ==
  ASSUME ChatInv, NEW r \in Asking
  PROVE  /\ asking \in [Asking -> ChatRequests] /\ asking[r] \in ChatRequests
         /\ liveChat \in Nat /\ liveChat <= Len(conversations) /\ Len(turns) \in Nat
         /\ asking[r].conv <= Len(conversations) /\ asking[r].awaits <= Len(turns)
  BY DEF ChatInv, ChatTypes, ChatBound

LEMMA AnsweredForm ==
  ASSUME ChatInv, NEW r \in Asking, Goes(r, "done")
  PROVE  asking' = [asking EXCEPT ![r] = Answered]
  BY DEF Goes

LEMMA BecomesQuietly ==
  ASSUME ChatInv, NEW r \in Asking, NEW q \in ChatRequests,
         asking' = [asking EXCEPT ![r] = q], TurnsAlike, Unmoved,
         liveChat' = liveChat, drawn' = drawn, meets' = meets, QuietForm(r, q), SoundRequest(q)
  PROVE  \E p \in ChatRequests :
            RequestBecomes(r, p) /\ SoundRequest(p) /\ Unmoved /\ QuietForm(r, p)
  BY NothingAlike DEF RequestBecomes, Unmoved

LEMMA AnsweredIsSound ==
  ChatInv => SoundRequest(Answered)
  <1>1. Answered.conv = 0 /\ Answered.awaits = 0 /\ Answered.step = "done"
    BY NewTypes
  <1>2. QED
    BY <1>1 DEF SoundRequest, ChatInv, ChatTypes

LEMMA StopMoves ==
  ASSUME ChatInv, Writing(liveChat), NEW r \in Asking, NEW w \in RequestSteps,
         NEW o, StopTurn(r, w, o)
  PROVE  /\ TurnsAlike
         /\ WaitSet(r, w, Len(turns))
  <1> DEFINE x == conversations[liveChat].turn
  <1>1. conversations \in Seq(Conversations) /\ liveChat \in 1..Len(conversations) /\ turns \in Seq(Turns)
    BY DEF ChatInv, ChatTypes, ChatBound, Writing
  <1>2. x \in Nat /\ x # 0
    BY <1>1, ConversationFields DEF Writing
  <1>3. x \in 1..Len(turns)
    BY <1>1, <1>2 DEF ChatInv, ChatBound
  <1>4. turns' = [turns EXCEPT ![x].aborted = TRUE]
    BY DEF StopTurn
  <1> HIDE DEF x
  <1>5. Aborts(x)
    BY <1>4 DEF Aborts
  <1>6. TurnsAlike
    BY <1>3, <1>5, AbortedAlike
  <1>7. WaitSet(r, w, Len(turns))
    BY DEF StopTurn, WaitSet
  <1>8. QED
    BY <1>6, <1>7

LEMMA QuietMoves ==
  ASSUME ChatInv, NEW r \in Asking, QuietStep(r)
  PROVE  \E p \in ChatRequests :
            RequestBecomes(r, p) /\ SoundRequest(p) /\ Unmoved /\ QuietForm(r, p)
  <1> DEFINE G == \E p \in ChatRequests :
                     RequestBecomes(r, p) /\ SoundRequest(p) /\ Unmoved /\ QuietForm(r, p)
  <1> SUFFICES G
    OBVIOUS
  <1> HIDE DEF G
  <1>a. /\ asking \in [Asking -> ChatRequests] /\ asking[r] \in ChatRequests
        /\ liveChat \in Nat /\ liveChat <= Len(conversations) /\ Len(turns) \in Nat
        /\ asking[r].conv <= Len(conversations) /\ asking[r].awaits <= Len(turns)
    BY AskingIs
  <1>b. ASSUME Goes(r, "done"), Unmoved, turns' = turns, liveChat' = liveChat,
               drawn' = drawn, meets' = meets, Answers(r)
        PROVE  G
    <2>1. QuietForm(r, Answered) /\ SoundRequest(Answered) /\ Answered \in ChatRequests
      BY <1>b, AnsweredIsSound, NewTypes DEF QuietForm
    <2>2. asking' = [asking EXCEPT ![r] = Answered] /\ TurnsAlike
      BY <1>b, AnsweredForm, NothingAlike
    <2>3. QED
      BY <1>b, <2>1, <2>2, BecomesQuietly DEF G
  <1>1. CASE SendReads(r)
    <2> DEFINE b == IF LastReply = NoMessage THEN NoCards ELSE parts[LastReply]
    <2>1. b \in ShownParts /\ LastReply \in Messages \union {NoMessage}
      BY LastReplyIs
    <2>2. MessageSet(r, "stop", LastReply, b)
      BY <1>1 DEF SendReads, MessageSet
    <2> HIDE DEF b
    <2>3. PICK q \in ChatRequests :
           /\ asking' = [asking EXCEPT ![r] = q]
           /\ q.step = "stop" /\ q.message = LastReply /\ q.before = b
           /\ q.conv = asking[r].conv
           /\ q.results = asking[r].results /\ q.awaits = asking[r].awaits
      BY <2>1, <2>2, MessageRead DEF RequestSteps
    <2>4. QuietForm(r, q)
      BY <1>1, <2>3 DEF QuietForm, Reads, SendReads, b
    <2>5. SoundRequest(q)
      BY <1>a, <2>3 DEF SoundRequest
    <2>6. TurnsAlike /\ Unmoved /\ liveChat' = liveChat /\ drawn' = drawn /\ meets' = meets
      BY <1>1, NothingAlike DEF SendReads, Unmoved
    <2>7. QED
      BY <2>3, <2>4, <2>5, <2>6, BecomesQuietly DEF G
  <1>2. CASE SendRefused(r)
    BY <1>2, <1>b DEF SendRefused, Answers, Unmoved
  <1>3. CASE SendStops(r) /\ Writing(liveChat)
    <2>1. TurnsAlike /\ WaitSet(r, "wait", Len(turns))
      BY <1>3, StopMoves DEF SendStops, RequestSteps
    <2>2. PICK q \in ChatRequests :
           /\ asking' = [asking EXCEPT ![r] = q]
           /\ q.step = "wait" /\ q.awaits = Len(turns)
           /\ q.conv = asking[r].conv /\ SameRequest(asking[r], q)
           /\ q.results = asking[r].results
      BY <1>a, <2>1, WaitChanged DEF RequestSteps, SameRequest
    <2>3. QuietForm(r, q) /\ SoundRequest(q)
      BY <1>3, <1>a, <2>2 DEF QuietForm, Waits, SendStops, SoundRequest
    <2>4. Unmoved /\ liveChat' = liveChat /\ drawn' = drawn /\ meets' = meets
      BY <1>3 DEF SendStops, Unmoved
    <2>5. QED
      BY <2>1, <2>2, <2>3, <2>4, BecomesQuietly DEF G
  <1>4. CASE SendStops(r) /\ ~Writing(liveChat)
    <2>1. Goes(r, "decline")
      BY <1>4 DEF SendStops, StopTurn
    <2>2. PICK q \in ChatRequests :
           /\ asking' = [asking EXCEPT ![r] = q]
           /\ q.step = "decline" /\ q.awaits = asking[r].awaits
           /\ q.conv = asking[r].conv /\ SameRequest(asking[r], q)
           /\ q.results = asking[r].results
      BY <2>1, StepChanged DEF RequestSteps, SameRequest
    <2>3. QuietForm(r, q) /\ SoundRequest(q)
      BY <1>4, <1>a, <2>2 DEF QuietForm, Declines, SendStops, SoundRequest
    <2>4. TurnsAlike /\ Unmoved /\ liveChat' = liveChat /\ drawn' = drawn /\ meets' = meets
      BY <1>4, NothingAlike DEF SendStops, StopTurn, Unmoved
    <2>5. QED
      BY <2>2, <2>3, <2>4, BecomesQuietly DEF G
  <1>5. CASE Stopped(r, "wait", "decline")
    <2>1. WaitSet(r, "decline", 0)
      BY <1>5 DEF Stopped, WaitSet
    <2>2. PICK q \in ChatRequests :
           /\ asking' = [asking EXCEPT ![r] = q]
           /\ q.step = "decline" /\ q.awaits = 0
           /\ q.conv = asking[r].conv /\ SameRequest(asking[r], q)
           /\ q.results = asking[r].results
      BY <2>1, WaitChanged DEF RequestSteps, SameRequest
    <2>3. QuietForm(r, q) /\ SoundRequest(q)
      BY <1>5, <1>a, <2>2 DEF QuietForm, Declines, Stopped, SoundRequest
    <2>4. TurnsAlike /\ Unmoved /\ liveChat' = liveChat /\ drawn' = drawn /\ meets' = meets
      BY <1>5, NothingAlike DEF Stopped, Unmoved
    <2>5. QED
      BY <2>2, <2>3, <2>4, BecomesQuietly DEF G
  <1>6. CASE \/ SendDeclines(r) /\ Waiting(asking[r].before) = {}
             \/ SendCollects(r) /\ asking[r].conv = 0
    <2>1. Goes(r, "append")
      BY <1>6 DEF SendDeclines, SendCollects
    <2>2. PICK q \in ChatRequests :
           /\ asking' = [asking EXCEPT ![r] = q]
           /\ q.step = "append" /\ q.awaits = asking[r].awaits
           /\ q.conv = asking[r].conv /\ SameRequest(asking[r], q)
           /\ q.results = asking[r].results
      BY <2>1, StepChanged DEF RequestSteps, SameRequest
    <2>3. QuietForm(r, q) /\ SoundRequest(q)
      BY <1>6, <1>a, <2>2 DEF QuietForm, GoesToAppend, SendDeclines, SendCollects, SoundRequest
    <2>4. TurnsAlike /\ Unmoved /\ liveChat' = liveChat /\ drawn' = drawn /\ meets' = meets
      BY <1>6, NothingAlike DEF SendDeclines, SendCollects, Unmoved
    <2>5. QED
      BY <2>2, <2>3, <2>4, BecomesQuietly DEF G
  <1>7. ASSUME NEW k \in Cards, NEW choice \in {"applied", "declined"}, ActBegins(r, k, choice)
        PROVE  G
    <2>1. CASE ~MayAct
      BY <1>7, <1>b, <2>1 DEF ActBegins, Answers, Unmoved
    <2>2. CASE MayAct
      <3>1. CardSet(r, "read", liveChat, k, choice)
        BY <1>7, <2>2 DEF ActBegins, CardSet
      <3>2. PICK q \in ChatRequests :
           /\ asking' = [asking EXCEPT ![r] = q]
           /\ q.step = "read" /\ q.conv = liveChat
           /\ q.message = asking[r].message /\ q.before = asking[r].before
           /\ q.results = asking[r].results /\ q.awaits = asking[r].awaits
        BY <1>a, <3>1, CardPicked DEF RequestSteps, Choices
      <3>3. QuietForm(r, q) /\ SoundRequest(q)
        BY <1>7, <1>a, <2>2, <3>2 DEF QuietForm, Picks, ActBegins, MayAct, SoundRequest
      <3>4. TurnsAlike /\ Unmoved /\ liveChat' = liveChat /\ drawn' = drawn /\ meets' = meets
        BY <1>7, NothingAlike DEF ActBegins, Unmoved
      <3>5. QED
        BY <3>2, <3>3, <3>4, BecomesQuietly DEF G
    <2>3. QED
      BY <2>1, <2>2
  <1>8. CASE ActReads(r)
    <2> DEFINE found == LastReply # NoMessage /\ parts[LastReply][asking[r].card] = "pending"
    <2>1. CASE ~found
      BY <1>8, <1>b, <2>1 DEF ActReads, Answers, Unmoved
    <2>2. CASE found
      <3> DEFINE at == IF asking[r].choice = "applied" THEN "apply" ELSE "write"
      <3>0. at \in RequestSteps /\ at \in {"apply", "write"}
        BY DEF RequestSteps
      <3>1. parts[LastReply] \in ShownParts /\ LastReply \in Messages \union {NoMessage}
        BY <2>2, LastReplyIs
      <3>2. MessageSets(r, LastReply, parts[LastReply], at)
        BY <1>8, <2>2 DEF ActReads, MessageSets
      <3> HIDE DEF at
      <3>3. PICK q \in ChatRequests :
           /\ asking' = [asking EXCEPT ![r] = q]
           /\ q.step = at /\ q.message = LastReply /\ q.before = parts[LastReply]
           /\ q.conv = asking[r].conv /\ q.card = asking[r].card
           /\ q.results = asking[r].results /\ q.awaits = asking[r].awaits
        BY <3>0, <3>1, <3>2, MessageFound
      <3>4. QuietForm(r, q) /\ SoundRequest(q)
        BY <1>8, <1>a, <2>2, <3>0, <3>3 DEF QuietForm, Finds, ActReads, SoundRequest
      <3>5. TurnsAlike /\ Unmoved /\ liveChat' = liveChat /\ drawn' = drawn /\ meets' = meets
        BY <1>8, NothingAlike DEF ActReads, Unmoved
      <3>6. QED
        BY <3>3, <3>4, <3>5, BecomesQuietly DEF G
    <2>3. QED
      BY <2>1, <2>2
  <1>9. CASE ActApplies(r)
    <2>1. CASE Goes(r, "done")
      BY <1>9, <1>b, <2>1 DEF ActApplies, Answers, Unmoved
    <2>2. ASSUME NEW outcome \in {"applied", "failed"},
                 ChoiceSet(r, "write", outcome)
          PROVE  G
      <3>1. PICK q \in ChatRequests :
           /\ asking' = [asking EXCEPT ![r] = q]
           /\ q.step = "write" /\ q.message = asking[r].message /\ q.before = asking[r].before
           /\ q.conv = asking[r].conv /\ q.card = asking[r].card
           /\ q.results = asking[r].results /\ q.awaits = asking[r].awaits
        BY <2>2, ChoiceMade DEF RequestSteps, Choices
      <3>2. asking[r].message # NoMessage
        BY <1>9 DEF ActApplies, At, ChatInv, ChatBound
      <3>3. QuietForm(r, q) /\ SoundRequest(q)
        BY <1>9, <1>a, <3>1, <3>2 DEF QuietForm, Applies, ActApplies, SoundRequest
      <3>4. TurnsAlike /\ Unmoved /\ liveChat' = liveChat /\ drawn' = drawn /\ meets' = meets
        BY <1>9, NothingAlike DEF ActApplies, Unmoved
      <3>5. QED
        BY <3>1, <3>3, <3>4, BecomesQuietly DEF G
    <2>3. QED
      BY <1>9, <2>1, <2>2 DEF ActApplies, ChoiceSet
  <1>10. CASE CancelBegins(r) /\ Writing(liveChat)
    <2>1. TurnsAlike /\ WaitSet(r, "cancel", Len(turns))
      BY <1>10, StopMoves DEF CancelBegins, RequestSteps
    <2>2. PICK q \in ChatRequests :
           /\ asking' = [asking EXCEPT ![r] = q]
           /\ q.step = "cancel" /\ q.awaits = Len(turns)
           /\ q.conv = asking[r].conv /\ SameRequest(asking[r], q)
           /\ q.results = asking[r].results
      BY <1>a, <2>1, WaitChanged DEF RequestSteps, SameRequest
    <2>3. QuietForm(r, q) /\ SoundRequest(q)
      BY <1>10, <1>a, <2>2 DEF QuietForm, Cancels, CancelBegins, SoundRequest
    <2>4. Unmoved /\ liveChat' = liveChat /\ drawn' = drawn /\ meets' = meets
      BY <1>10 DEF CancelBegins, Unmoved
    <2>5. QED
      BY <2>1, <2>2, <2>3, <2>4, BecomesQuietly DEF G
  <1>11. CASE CancelBegins(r) /\ ~Writing(liveChat)
    BY <1>11, <1>b DEF CancelBegins, StopTurn, Answers, Unmoved
  <1>12. CASE CancelStops(r)
    <2>1. Goes(r, "done")
      BY <1>12 DEF CancelStops, Stopped, Goes
    <2>2. QED
      BY <1>12, <1>b, <2>1 DEF CancelStops, Stopped, Answers, Unmoved
  <1>13. CASE ActGoesOn(r) /\ (asking[r].conv = 0
                        \/ asking[r].card \notin conversations[asking[r].conv].pending)
    BY <1>13, <1>b DEF ActGoesOn, Answers, Unmoved
  <1>14. QED
    BY <1>1, <1>2, <1>3, <1>4, <1>5, <1>6, <1>7, <1>8, <1>9, <1>10, <1>11, <1>12, <1>13
       DEF QuietStep

Solo == "requests" \notin meets

LEMMA NobodyElseWorks ==
  ASSUME SoloInv, Solo, NEW r \in Asking, UnderWay(r) \/ MayBegin(r)
  PROVE  NobodyElse(r) /\ asking[r].step # "done"
  BY DEF SoloInv, OneAtWork, Solo, MayBegin, IsNext, NobodyElse, UnderWay

LEMMA RepliesAreDone ==
  ASSUME ChatInv, SoloInv, NEW r \in Asking, NobodyElse(r), asking[r].step # "start",
         LastReply # NoMessage
  PROVE  LastReply \in Messages /\ asking[LastReply].step = "done"
  <1>1. LastReply \in Messages
    BY LastReplyIs
  <1>2. asking[LastReply].step \in {"start", "done"}
    BY LastReplyIs DEF SoloInv, Shown
  <1>3. LastReply # r => asking[LastReply].step \in {"new", "done"}
    BY <1>1, ChatNumbers DEF NobodyElse, UnderWay
  <1>4. QED
    BY <1>1, <1>2, <1>3

LEMMA QuietTypes ==
  ASSUME ChatInv, NEW r \in Asking, QuietStep(r)
  PROVE  ChatInv'
  BY QuietMoves, RequestTypes DEF ChatInv, ChatTypes, Unmoved

LEMMA QuietIsAlone ==
  ASSUME ChatInv, SoloInv, NEW r \in Asking, NEW q \in ChatRequests, QuietForm(r, q),
         NobodyElse(r)
  PROVE  AloneRequest(r, q)
  <1> USE DEF AloneRequest, Quietly, Remembering, At, SameRequest
  <1>0. asking[r].message # NoMessage => asking[asking[r].message].step = "done"
    BY DEF SoloInv, Shown
  <1>a. asking[r].step \in Quietly => NothingWritten
    BY DEF SoloInv, OneAtWork, NothingWritten
  <1>c. asking[r].step \in Remembering => asking[r].conv = liveChat
    BY DEF SoloInv, OneAtWork
  <1>b. ~Writing(liveChat) => NothingWritten
    <2> SUFFICES ASSUME NEW n \in 1..Len(turns), Active(n) PROVE Writing(liveChat)
      BY DEF NothingWritten
    <2>1. turns[n].conv = liveChat /\ conversations[liveChat].turn = n
      BY DEF SoloInv, OneAtWork
    <2>2. turns[n].conv # 0
      BY DEF ChatInv, ChatBound
    <2>3. QED
      BY <2>1, <2>2 DEF Writing
  <1>1. CASE q = Answered
    BY <1>1, NewTypes DEF NoMessage
  <1>2. CASE Reads(r, q)
    BY <1>2, RepliesAreDone DEF Reads, MayBegin, IsNext
  <1>3. CASE Waits(r, q)
    BY <1>0, <1>3 DEF Waits
  <1>4. CASE Declines(r, q)
    <2>1. NothingWritten
      <3>1. CASE At(r, "stop") /\ ~Writing(liveChat)
        BY <1>b, <3>1
      <3>2. CASE At(r, "wait") /\ turns[asking[r].awaits].step = "ended"
        BY <3>2 DEF SoloInv, OneAtWork, NothingWritten, Active
      <3>3. QED
        BY <1>4, <3>1, <3>2 DEF Declines
    <2>2. QED
      BY <1>0, <1>4, <2>1 DEF Declines
  <1>5. CASE GoesToAppend(r, q)
    BY <1>0, <1>a, <1>5 DEF GoesToAppend
  <1>6. CASE Picks(r, q)
    BY <1>0, <1>b, <1>6 DEF Picks, MayBegin, IsNext
  <1>7. CASE Finds(r, q)
    BY <1>a, <1>c, <1>7, RepliesAreDone DEF Finds
  <1>8. CASE Applies(r, q)
    BY <1>0, <1>a, <1>c, <1>8 DEF Applies
  <1>9. CASE Cancels(r, q)
    BY <1>0, <1>9 DEF Cancels, MayBegin, IsNext
  <1>10. QED
    BY <1>1, <1>2, <1>3, <1>4, <1>5, <1>6, <1>7, <1>8, <1>9 DEF QuietForm

LEMMA QuietIsKnown ==
  ASSUME ChatInv, SoloInv, NEW r \in Asking, NEW q \in ChatRequests, QuietForm(r, q), Unmoved
  PROVE  KnownRequest(q) /\ OldCards(q)
  <1> USE DEF KnownRequest, At, SameRequest, Unmoved
  <1>0. /\ asking[r].message # NoMessage
           /\ asking[r].step \in {"stop", "wait", "decline", "apply", "write"} =>
             \A k \in Cards : parts[asking[r].message][k] \in Choices =>
                asking[r].before[k] = parts[asking[r].message][k]
        /\ asking[r].step \in {"apply", "write"} =>
             asking[r].before[asking[r].card] = "pending"
    BY DEF SoloInv, Known
  <1>a. q.before = asking[r].before => OldCards(q)
    BY NoCardStored
  <1>b. \A k \in Cards : NoCards[k] = "none"
    BY DEF NoCards
  <1>1. CASE q = Answered
    BY <1>1, <1>b, NewTypes DEF NoMessage, OldCards
  <1>2. CASE Reads(r, q)
    <2>1. KnownRequest(q)
      BY <1>2 DEF Reads
    <2>2. OldCards(q)
      BY <1>2, <1>b, LastReplyIs DEF Reads, OldCards
    <2>3. QED
      BY <2>1, <2>2
  <1>3. CASE Waits(r, q)
    BY <1>0, <1>a, <1>3 DEF Waits
  <1>4. CASE Declines(r, q)
    BY <1>0, <1>a, <1>4 DEF Declines
  <1>5. CASE GoesToAppend(r, q)
    BY <1>a, <1>5 DEF GoesToAppend
  <1>6. CASE Picks(r, q)
    BY <1>a, <1>6 DEF Picks
  <1>7. CASE Finds(r, q)
    <2>1. KnownRequest(q)
      BY <1>7 DEF Finds
    <2>2. OldCards(q)
      BY <1>7, LastReplyIs DEF Finds, OldCards
    <2>3. QED
      BY <2>1, <2>2
  <1>8. CASE Applies(r, q)
    BY <1>0, <1>a, <1>8 DEF Applies
  <1>9. CASE Cancels(r, q)
    BY <1>a, <1>9 DEF Cancels
  <1>10. QED
    BY <1>1, <1>2, <1>3, <1>4, <1>5, <1>6, <1>7, <1>8, <1>9 DEF QuietForm

LEMMA QuietWorks ==
  ASSUME NEW r \in Asking, NEW q, QuietForm(r, q)
  PROVE  UnderWay(r) \/ MayBegin(r)
  BY DEF QuietForm, Answers, Reads, Waits, Declines, GoesToAppend, Picks, Finds, Applies,
     Cancels, UnderWay, At

LEMMA QuietSolo ==
  ASSUME ChatInv, SoloInv, Solo, NEW r \in Asking, QuietStep(r)
  PROVE  SoloInv' /\ DecisionsStay
  <1>1. PICK q \in ChatRequests :
            RequestBecomes(r, q) /\ SoundRequest(q) /\ Unmoved /\ QuietForm(r, q)
    BY QuietMoves
  <1>2. NobodyElse(r) /\ asking[r].step # "done"
    BY <1>1, QuietWorks, NobodyElseWorks
  <1>3. AloneRequest(r, q) /\ KnownRequest(q) /\ OldCards(q)
    BY <1>1, <1>2, QuietIsAlone, QuietIsKnown
  <1>4. OldLines(r, q)
    BY <1>1, NoLineAdded DEF Unmoved
  <1>5. QED
    BY <1>1, <1>2, <1>3, <1>4, RequestKeepsSolo DEF DecisionsStay, Unmoved

(* The steps of a request that store cards, add to the transcript, or take *)
(* the calls that the conversation keeps.                                  *)
Withdraws(r, q) ==
    /\ At(r, "decline") /\ Waiting(asking[r].before) # {}
    /\ q.step = "collect" /\ q.conv = liveChat
    /\ SameRequest(asking[r], q) /\ q.results = asking[r].results
    /\ parts' = [parts EXCEPT ![asking[r].message] = Declined(asking[r].before)]
    /\ transcript' = transcript /\ conversations' = conversations

Collects(r, q) ==
    /\ At(r, "collect") /\ asking[r].conv # 0
    /\ q.step = "append" /\ q.results = Owing(asking[r].conv)
    /\ SameRequest(asking[r], q)
    /\ conversations'[asking[r].conv].pending = {}
    /\ conversations'[asking[r].conv].held = {}
    /\ parts' = parts /\ transcript' = transcript

Says(r, q) ==
    /\ \/ At(r, "append") /\ q.step = "reply"
          /\ transcript' = Append(transcript, [role |-> "user", of |-> r])
       \/ At(r, "reply") /\ q.step = "start"
          /\ transcript' = Append(transcript, [role |-> "assistant", of |-> r])
    /\ SameRequest(asking[r], q) /\ q.results = asking[r].results
    /\ parts' = parts /\ conversations' = conversations

Writes(r, q) ==
    /\ At(r, "write") /\ q.step = "go" /\ q.conv = asking[r].conv
    /\ SameRequest(asking[r], q) /\ q.results = asking[r].results
    /\ parts' = [parts EXCEPT ![asking[r].message] = Decided(r)]
    /\ transcript' = transcript /\ conversations' = conversations

Left(r) == conversations[asking[r].conv].pending \ {asking[r].card}

GoesOnWaiting(r, q) ==
    /\ At(r, "go") /\ asking[r].conv # 0
    /\ asking[r].card \in conversations[asking[r].conv].pending
    /\ Left(r) # {} /\ q = Answered
    /\ conversations'[asking[r].conv].pending = Left(r)
    /\ conversations'[asking[r].conv].held =
         conversations[asking[r].conv].held \union {asking[r].card}
    /\ parts' = parts /\ transcript' = transcript

LoudForm(r, q) ==
    Withdraws(r, q) \/ Collects(r, q) \/ Says(r, q) \/ Writes(r, q) \/ GoesOnWaiting(r, q)

LoudStep(r) ==
    \/ SendDeclines(r) /\ Waiting(asking[r].before) # {}
    \/ SendCollects(r) /\ asking[r].conv # 0
    \/ SendAppends(r)
    \/ ActWrites(r)
    \/ /\ ActGoesOn(r) /\ asking[r].conv # 0
       /\ asking[r].card \in conversations[asking[r].conv].pending
       /\ Left(r) # {}

LEMMA DeclinedShows ==
  ASSUME NEW shown \in ShownParts
  PROVE  /\ Declined(shown) \in ShownParts
         /\ \A k \in Cards : /\ Declined(shown)[k] # "pending"
                             /\ shown[k] # "pending" => Declined(shown)[k] = shown[k]
  BY DEF ShownParts, Declined, CardStates

LEMMA DecidedShows ==
  ASSUME ChatInv, NEW r \in Asking
  PROVE  /\ Decided(r) \in ShownParts
         /\ \A k \in Cards : Decided(r)[k] = IF k = asking[r].card THEN asking[r].choice
                                             ELSE asking[r].before[k]
  <1>1. asking[r].before \in ShownParts /\ asking[r].card \in Cards /\ asking[r].choice \in Choices
    BY AskingIs, RequestFields
  <1>2. asking[r].choice \in CardStates
    BY <1>1 DEF Choices, CardStates
  <1>3. QED
    BY <1>1, <1>2, OneShown DEF Decided

LEMMA LoudMoves ==
  ASSUME ChatInv, NEW r \in Asking, LoudStep(r)
  PROVE  \E q \in ChatRequests : RequestBecomes(r, q) /\ SoundRequest(q) /\ LoudForm(r, q)
  <1>a. /\ asking \in [Asking -> ChatRequests] /\ asking[r] \in ChatRequests
        /\ liveChat \in Nat /\ liveChat <= Len(conversations) /\ Len(turns) \in Nat
        /\ asking[r].conv <= Len(conversations) /\ asking[r].awaits <= Len(turns)
        /\ asking[r].conv \in Nat /\ asking[r].card \in Cards
    BY AskingIs, RequestFields
  <1>b. asking[r].conv # 0 => /\ asking[r].conv \in 1..Len(conversations)
                              /\ conversations[asking[r].conv] \in Conversations
    BY <1>a DEF ChatInv, ChatTypes
  <1>1. CASE SendDeclines(r) /\ Waiting(asking[r].before) # {}
    <2>1. ConversationSet(r, "collect", liveChat)
      BY <1>1 DEF SendDeclines, ConversationSet
    <2>2. PICK q \in ChatRequests :
           /\ asking' = [asking EXCEPT ![r] = q]
           /\ q.step = "collect" /\ q.conv = liveChat /\ q.awaits = asking[r].awaits
           /\ SameRequest(asking[r], q) /\ q.results = asking[r].results
      BY <1>a, <2>1, ConversationTaken DEF RequestSteps, SameRequest
    <2>3. RequestBecomes(r, q)
      BY <1>1, <2>2, NothingAlike DEF SendDeclines, RequestBecomes
    <2>4. SoundRequest(q) /\ LoudForm(r, q)
      BY <1>1, <1>a, <2>2 DEF SendDeclines, LoudForm, Withdraws, SoundRequest
    <2>5. QED
      BY <2>3, <2>4
  <1>2. CASE SendCollects(r) /\ asking[r].conv # 0
    <2> DEFINE c == asking[r].conv
    <2>1. ResultsSet(r, "append", Owing(c))
      BY <1>2 DEF SendCollects, ResultsSet
    <2>2. Owing(c) \in CardSets
      BY <1>2, <1>b, ConversationFields, CardSetParts DEF Owing
    <2>3. PICK q \in ChatRequests :
           /\ asking' = [asking EXCEPT ![r] = q]
           /\ q.step = "append" /\ q.conv = c /\ q.awaits = asking[r].awaits
           /\ SameRequest(asking[r], q) /\ q.results = Owing(c)
      BY <2>1, <2>2, ResultsTaken DEF RequestSteps, SameRequest
    <2>4. conversations' = [conversations EXCEPT ![c].pending = {}, ![c].held = {}]
      BY <1>2 DEF SendCollects
    <2>5. ConversationsAlike /\ conversations'[c].pending = {} /\ conversations'[c].held = {}
      BY <1>2, <1>b, <2>4, CollectedAlike, CardSetParts
    <2>6. RequestBecomes(r, q)
      BY <1>2, <2>3, <2>5, NothingAlike DEF SendCollects, RequestBecomes
    <2>7. SoundRequest(q) /\ LoudForm(r, q)
      BY <1>2, <1>a, <2>3, <2>5 DEF SendCollects, LoudForm, Collects, SoundRequest
    <2>8. QED
      BY <2>6, <2>7
  <1>3. ASSUME NEW from \in {"append", "reply"}, NEW to \in {"reply", "start"},
               NEW who \in {"user", "assistant"},
               from = "append" => to = "reply" /\ who = "user",
               from = "reply" => to = "start" /\ who = "assistant",
               At(r, from), Goes(r, to), transcript' = Append(transcript, [role |-> who, of |-> r]),
               SendAppends(r)
        PROVE  \E q \in ChatRequests : RequestBecomes(r, q) /\ SoundRequest(q) /\ LoudForm(r, q)
    <2>1. PICK q \in ChatRequests :
           /\ asking' = [asking EXCEPT ![r] = q]
           /\ q.step = to /\ q.conv = asking[r].conv /\ q.awaits = asking[r].awaits
           /\ SameRequest(asking[r], q) /\ q.results = asking[r].results
      BY <1>3, StepChanged DEF RequestSteps, SameRequest
    <2>2. RequestBecomes(r, q)
      BY <1>3, <2>1, NothingAlike DEF SendAppends, RequestBecomes
    <2>3. SoundRequest(q)
      BY <1>3, <1>a, <2>1 DEF SoundRequest
    <2>4. LoudForm(r, q)
      BY <1>3, <2>1 DEF SendAppends, LoudForm, Says
    <2>5. QED
      BY <2>2, <2>3, <2>4
  <1>4. CASE SendAppends(r)
    BY <1>3, <1>4 DEF SendAppends
  <1>5. CASE ActWrites(r)
    <2>1. PICK q \in ChatRequests :
           /\ asking' = [asking EXCEPT ![r] = q]
           /\ q.step = "go" /\ q.conv = asking[r].conv /\ q.awaits = asking[r].awaits
           /\ SameRequest(asking[r], q) /\ q.results = asking[r].results
      BY <1>5, StepChanged DEF RequestSteps, SameRequest, ActWrites
    <2>2. RequestBecomes(r, q)
      BY <1>5, <2>1, NothingAlike DEF ActWrites, RequestBecomes
    <2>3. asking[r].message # NoMessage
      BY <1>5 DEF ActWrites, At, ChatInv, ChatBound
    <2>4. SoundRequest(q) /\ LoudForm(r, q)
      BY <1>5, <1>a, <2>1, <2>3 DEF ActWrites, LoudForm, Writes, SoundRequest, SameRequest
    <2>5. QED
      BY <2>2, <2>4
  <1>6. CASE /\ ActGoesOn(r) /\ asking[r].conv # 0
             /\ asking[r].card \in conversations[asking[r].conv].pending
             /\ Left(r) # {}
    <2> DEFINE c == asking[r].conv
               h == conversations[c].held \union {asking[r].card}
    <2>1. Left(r) \in CardSets /\ h \in CardSets
      BY <1>6, <1>a, <1>b, ConversationFields, CardSetParts DEF Left
    <2>2. conversations' = [conversations EXCEPT ![c].pending = Left(r), ![c].held = h]
      BY <1>6 DEF ActGoesOn, Left
    <2>3. UNCHANGED <<meets, transcript, parts, liveChat, drawn, turns>>
      BY <1>6 DEF ActGoesOn, Left
    <2> HIDE DEF h
    <2>4. ConversationsAlike /\ conversations'[c].pending = Left(r) /\ conversations'[c].held = h
      BY <1>6, <1>b, <2>1, <2>2, CollectedAlike
    <2>5. asking' = [asking EXCEPT ![r] = Answered] /\ Answered \in ChatRequests
          /\ SoundRequest(Answered)
      BY <1>6, AnsweredForm, NewTypes, AnsweredIsSound DEF ActGoesOn
    <2>6. RequestBecomes(r, Answered)
      BY <2>3, <2>4, <2>5, NothingAlike DEF RequestBecomes
    <2>7. LoudForm(r, Answered)
      BY <1>6, <2>3, <2>4 DEF LoudForm, GoesOnWaiting, ActGoesOn, h
    <2>8. QED
      BY <2>5, <2>6, <2>7
  <1>7. QED
    BY <1>1, <1>2, <1>4, <1>5, <1>6 DEF LoudStep

LEMMA LoudData ==
  ASSUME ChatInv, NEW r \in Asking, NEW q \in ChatRequests, LoudForm(r, q)
  PROVE  parts' \in [Messages -> ShownParts] /\ transcript' \in Seq(Lines)
  <1>1. asking[r].before \in ShownParts
    BY AskingIs, RequestFields
  <1>2. Declined(asking[r].before) \in ShownParts /\ Decided(r) \in ShownParts
    BY <1>1, DeclinedShows, DecidedShows
  <1>3. parts \in [Messages -> ShownParts] /\ transcript \in Seq(Lines)
    BY DEF ChatInv, ChatTypes
  <1>4. \A who \in {"user", "assistant"} : [role |-> who, of |-> r] \in Lines
    BY ChatNumbers DEF Lines
  <1>5. \A l \in Lines : Append(transcript, l) \in Seq(Lines)
    BY <1>3
  <1>6. QED
    BY <1>2, <1>3, <1>4, <1>5 DEF LoudForm, Withdraws, Collects, Says, Writes, GoesOnWaiting

LEMMA LoudTypes ==
  ASSUME ChatInv, NEW r \in Asking, LoudStep(r)
  PROVE  ChatInv'
  BY LoudMoves, LoudData, RequestTypes

LEMMA LoudIsAlone ==
  ASSUME ChatInv, SoloInv, NEW r \in Asking, NEW q \in ChatRequests, LoudForm(r, q)
  PROVE  AloneRequest(r, q) /\ NothingWritten /\ UnderWay(r)
  <1>1. asking[r].step \in Quietly
    BY DEF LoudForm, Withdraws, Collects, Says, Writes, GoesOnWaiting, At, Quietly
  <1>2. NothingWritten /\ UnderWay(r)
    BY <1>1 DEF SoloInv, OneAtWork, NothingWritten, UnderWay, Quietly
  <1>3. asking[r].message # NoMessage => asking[asking[r].message].step = "done"
    BY DEF SoloInv, Shown
  <1>4. Answered.step = "done" /\ Answered.message = NoMessage
    BY NewTypes
  <1>5. asking[r].step \in Remembering => asking[r].conv = liveChat
    BY DEF SoloInv, OneAtWork
  <1>6. QED
    BY <1>2, <1>3, <1>4, <1>5 DEF LoudForm, Withdraws, Collects, Says, Writes, GoesOnWaiting, At,
       AloneRequest, SameRequest, Remembering

LEMMA LoudIsKnown ==
  ASSUME ChatInv, SoloInv, NEW r \in Asking, NEW q \in ChatRequests, LoudForm(r, q)
  PROVE  KnownRequest(q) /\ OldCards(q) /\ OldLines(r, q) /\ DecisionsStay
  <1> USE DEF At, SameRequest
  <1>0. /\ asking[r].before \in ShownParts /\ asking[r].message \in Messages \union {NoMessage}
        /\ asking[r].card \in Cards /\ asking[r].choice \in Choices
        /\ parts \in [Messages -> ShownParts]
    BY AskingIs, RequestFields DEF ChatInv, ChatTypes
  <1>a. /\ asking[r].message # NoMessage
           /\ asking[r].step \in {"stop", "wait", "decline", "apply", "write"} =>
             \A k \in Cards : parts[asking[r].message][k] \in Choices =>
                asking[r].before[k] = parts[asking[r].message][k]
        /\ asking[r].step \in {"apply", "write"} =>
             asking[r].before[asking[r].card] = "pending"
    BY DEF SoloInv, Known
  <1>b. NothingWritten
    BY LoudIsAlone
  <1>c. asking[r].message # NoMessage => asking[asking[r].message].step = "done"
    BY DEF SoloInv, Shown
  <1>1. CASE Withdraws(r, q)
    <2>1. KnownRequest(q) /\ OldLines(r, q)
      BY <1>1, NoLineAdded DEF Withdraws, KnownRequest
    <2> DEFINE d == Declined(asking[r].before)
    <2>2. d \in ShownParts /\ \A k \in Cards : asking[r].before[k] # "pending" => d[k] = asking[r].before[k]
      BY <1>0, DeclinedShows
    <2>3. \A m \in Messages : parts'[m] = IF m = asking[r].message THEN d ELSE parts[m]
      BY <1>0, <1>1 DEF Withdraws
    <2> HIDE DEF d
    <2>4. OldCards(q)
      BY <1>0, <1>1, <1>b, <1>c, <2>2, <2>3, ChatNumbers DEF Withdraws, OldCards, NoMessage
    <2>5. DecisionsStay
      BY <1>0, <1>1, <1>a, <2>2, <2>3, ChatNumbers
         DEF Withdraws, DecisionsStay, Choices, NoMessage
    <2>6. QED
      BY <2>1, <2>4, <2>5
  <1>2. CASE Collects(r, q)
    BY <1>2, NoLineAdded, NoCardStored DEF Collects, KnownRequest
  <1>3. CASE Says(r, q)
    <2>1. KnownRequest(q) /\ OldCards(q) /\ DecisionsStay
      BY <1>3, NoCardStored DEF Says, KnownRequest
    <2>2. transcript \in Seq(Lines)
      BY DEF ChatInv, ChatTypes
    <2>3. ASSUME NEW l, transcript' = Append(transcript, l), NEW i \in 1..Len(transcript')
          PROVE  (i \in 1..Len(transcript) /\ transcript'[i] = transcript[i]) \/ transcript'[i] = l
      BY <2>2, <2>3
    <2>4. OldLines(r, q)
      BY <1>3, <2>3 DEF Says, OldLines
    <2>5. QED
      BY <2>1, <2>4
  <1>4. CASE Writes(r, q)
    <2>0. asking[r].message # NoMessage /\ asking[r].message \in Messages
      BY <1>0, <1>4 DEF Writes, ChatInv, ChatBound
    <2> DEFINE d == Decided(r)
    <2>1. d \in ShownParts /\ \A k \in Cards : d[k] = IF k = asking[r].card THEN asking[r].choice
                                                 ELSE asking[r].before[k]
      BY DecidedShows
    <2>2. \A m \in Messages : parts'[m] = IF m = asking[r].message THEN d ELSE parts[m]
      BY <1>0, <1>4 DEF Writes
    <2>3. KnownRequest(q) /\ OldLines(r, q)
      BY <1>4, <2>0, <2>2, NoLineAdded DEF Writes, KnownRequest, Decided
    <2> HIDE DEF d
    <2>4. OldCards(q)
      BY <1>0, <1>4, <1>a, <1>b, <1>c, <2>0, <2>1, <2>2, ChatNumbers DEF Writes, OldCards
    <2>5. DecisionsStay
      BY <1>0, <1>4, <1>a, <2>0, <2>1, <2>2 DEF Writes, DecisionsStay, Choices
    <2>6. QED
      BY <2>3, <2>4, <2>5
  <1>5. CASE GoesOnWaiting(r, q)
    <2>1. Answered.step = "done" /\ Answered.message = NoMessage
          /\ \A k \in Cards : Answered.before[k] = "none"
      BY NewTypes DEF NoCards
    <2>2. QED
      BY <1>5, <2>1, NoLineAdded DEF GoesOnWaiting, KnownRequest, OldCards, DecisionsStay
  <1>6. QED
    BY <1>1, <1>2, <1>3, <1>4, <1>5 DEF LoudForm

LEMMA LoudSolo ==
  ASSUME ChatInv, SoloInv, Solo, NEW r \in Asking, LoudStep(r)
  PROVE  SoloInv' /\ DecisionsStay
  <1>1. PICK q \in ChatRequests : RequestBecomes(r, q) /\ SoundRequest(q) /\ LoudForm(r, q)
    BY LoudMoves
  <1>2. AloneRequest(r, q) /\ UnderWay(r) /\ KnownRequest(q) /\ OldCards(q) /\ OldLines(r, q)
        /\ DecisionsStay
    BY <1>1, LoudIsAlone, LoudIsKnown
  <1>3. NobodyElse(r) /\ asking[r].step # "done"
    BY <1>2, NobodyElseWorks
  <1>4. QED
    BY <1>1, <1>2, <1>3, RequestKeepsSolo

(* A request ends with a new reply of conversation c, of message m.        *)
TurnBegins(r, c, m, results, shown) ==
    /\ turns' = Append(turns, NewTurn(c, m, results, shown))
    /\ conversations' \in Seq(Conversations)
    /\ Len(conversations) <= Len(conversations') /\ c \in 1..Len(conversations')
    /\ conversations'[c].turn = Len(turns) + 1 /\ conversations'[c].array = Len(turns) + 1
    /\ \A d \in 1..Len(conversations') : d # c =>
         d \in 1..Len(conversations) /\ conversations'[d] = conversations[d]
    /\ asking' = [asking EXCEPT ![r] = Answered]
    /\ parts' = parts /\ transcript' = transcript /\ drawn' = drawn /\ meets' = meets

LEMMA TurnAdded ==
  ASSUME NEW s \in Seq(Turns), NEW t \in Turns, NEW u, u = Append(s, t)
  PROVE  /\ u \in Seq(Turns) /\ Len(u) = Len(s) + 1 /\ u[Len(s) + 1] = t
         /\ \A i \in 1..Len(s) : u[i] = s[i]
         /\ 1..Len(u) = 1..Len(s) \union {Len(s) + 1}
  OBVIOUS

LEMMA BeginsTypes ==
  ASSUME ChatInv, NEW r \in Asking, NEW c \in Nat, NEW m \in Messages,
         NEW results \in CardSets, NEW shown \in ShownParts,
         TurnBegins(r, c, m, results, shown), liveChat' \in {liveChat, c}
  PROVE  ChatInv'
  <1> USE DEF ChatInv, TurnBegins
  <1> DEFINE t == NewTurn(c, m, results, shown)
  <1>1. t \in Turns /\ t.conv = c
    BY NewTurnType
  <1> HIDE DEF t
  <1>2. turns \in Seq(Turns) /\ Len(turns) \in Nat /\ turns' = Append(turns, t)
    BY DEF ChatTypes, t
  <1>3. /\ turns' \in Seq(Turns) /\ Len(turns') = Len(turns) + 1 /\ turns'[Len(turns) + 1] = t
        /\ \A i \in 1..Len(turns) : turns'[i] = turns[i]
        /\ 1..Len(turns') = 1..Len(turns) \union {Len(turns) + 1}
    BY <1>1, <1>2, TurnAdded
  <1>4. asking \in [Asking -> ChatRequests] /\ Answered \in ChatRequests
        /\ Answered.conv = 0 /\ Answered.awaits = 0 /\ Answered.step = "done"
    BY NewTypes DEF ChatTypes
  <1>5. /\ asking' \in [Asking -> ChatRequests]
        /\ \A s \in Asking : asking'[s] = IF s = r THEN Answered ELSE asking[s]
    BY <1>4
  <1>6. ChatTypes'
    BY <1>3, <1>5 DEF ChatTypes
  <1>7. \A d \in 1..Len(conversations') :
          conversations'[d].turn <= Len(turns') /\ conversations'[d].array <= Len(turns')
    <2> SUFFICES ASSUME NEW d \in 1..Len(conversations')
                 PROVE  conversations'[d].turn <= Len(turns') /\ conversations'[d].array <= Len(turns')
      OBVIOUS
    <2>1. CASE d = c
      BY <1>2, <1>3, <2>1
    <2>2. CASE d # c
      <3>1. /\ d \in 1..Len(conversations) /\ conversations'[d] = conversations[d]
            /\ conversations[d].turn <= Len(turns) /\ conversations[d].array <= Len(turns)
        BY <2>2 DEF ChatBound
      <3>2. conversations[d] \in Conversations
        BY <3>1 DEF ChatTypes
      <3>3. conversations[d].turn \in Nat /\ conversations[d].array \in Nat
        BY <3>2, ConversationFields
      <3>4. QED
        BY <1>2, <1>3, <3>1, <3>3
    <2>3. QED
      BY <2>1, <2>2
  <1>8. ASSUME NEW i \in 1..Len(turns')
        PROVE  /\ turns'[i].conv \in 1..Len(conversations')
               /\ conversations'[turns'[i].conv].array # 0
    <2>1. CASE i = Len(turns) + 1
      BY <1>1, <1>2, <1>3, <2>1
    <2>2. CASE i \in 1..Len(turns)
      <3>1. turns'[i] = turns[i] /\ turns[i].conv \in 1..Len(conversations)
            /\ conversations[turns[i].conv].array # 0
        BY <1>3, <2>2 DEF ChatBound
      <3>2. turns[i].conv \in 1..Len(conversations')
        BY <3>1 DEF ChatTypes
      <3>3. PICK d : d = turns[i].conv
        OBVIOUS
      <3>4. conversations'[d].array # 0
        <4>1. CASE d = c
          BY <1>2, <4>1
        <4>2. CASE d # c
          BY <3>1, <3>2, <3>3, <4>2
        <4>3. QED
          BY <4>1, <4>2
      <3>5. QED
        BY <3>1, <3>2, <3>3, <3>4
    <2>3. QED
      BY <1>3, <2>1, <2>2
  <1>9. \A s \in Asking :
        /\ asking'[s].conv <= Len(conversations') /\ asking'[s].awaits <= Len(turns')
        /\ asking'[s].step \in {"apply", "write", "go"} => asking'[s].message # NoMessage
    <2> SUFFICES ASSUME NEW s \in Asking, s # r
                 PROVE /\ asking[s].conv <= Len(conversations') /\ asking[s].awaits <= Len(turns')
                       /\ asking[s].step \in {"apply", "write", "go"} => asking[s].message # NoMessage
      BY <1>3, <1>4, <1>5, <1>2 DEF ChatTypes
    <2>1. asking[s].conv <= Len(conversations) /\ asking[s].awaits <= Len(turns)
          /\ (asking[s].step \in {"apply", "write", "go"} => asking[s].message # NoMessage)
          /\ asking[s].conv \in Nat /\ asking[s].awaits \in Nat
      BY AskingIs, RequestFields DEF ChatBound
    <2>2. Len(conversations) \in Nat /\ Len(conversations') \in Nat
      BY DEF ChatTypes
    <2>3. QED
      BY <1>2, <1>3, <2>1, <2>2
  <1>10. liveChat' \in 0..Len(conversations')
    BY DEF ChatBound, ChatTypes
  <1>11. ChatBound'
    BY <1>7, <1>8, <1>9, <1>10 DEF ChatBound
  <1>12. QED
    BY <1>6, <1>11

LEMMA BeginsSolo ==
  ASSUME ChatInv, SoloInv, NEW r \in Asking, NEW c \in Nat, NEW m \in Messages,
         NEW results \in CardSets, NEW shown \in ShownParts,
         TurnBegins(r, c, m, results, shown), liveChat' = c,
         NobodyElse(r), NothingWritten, asking[r].step # "done",
         m = r \/ asking[m].step = "done", parts[m] = shown
  PROVE  SoloInv' /\ DecisionsStay
  <1> USE DEF TurnBegins
  <1> DEFINE t == NewTurn(c, m, results, shown)
  <1>1. t \in Turns /\ t.conv = c /\ t.message = m /\ t.shown = shown /\ t.calls = {}
    BY NewTurnType
  <1> HIDE DEF t
  <1>2. turns \in Seq(Turns) /\ Len(turns) \in Nat /\ turns' = Append(turns, t)
    BY DEF t, ChatInv, ChatTypes
  <1>3. /\ turns' \in Seq(Turns) /\ Len(turns') = Len(turns) + 1 /\ turns'[Len(turns) + 1] = t
        /\ \A i \in 1..Len(turns) : turns'[i] = turns[i]
        /\ 1..Len(turns') = 1..Len(turns) \union {Len(turns) + 1}
    BY <1>1, <1>2, TurnAdded
  <1>4. asking \in [Asking -> ChatRequests] /\ Answered \in ChatRequests
        /\ Answered.message = NoMessage /\ Answered.step = "done" /\ Answered.before = NoCards
    BY NewTypes DEF ChatInv, ChatTypes
  <1>5. \A s \in Asking : asking'[s] = IF s = r THEN Answered ELSE asking[s]
    BY <1>4
  <1>6. \A s \in Asking : asking'[s].step \in {"new", "done"}
    BY <1>4, <1>5 DEF NobodyElse, UnderWay
  <1>7. \A i \in 1..Len(turns) : ~Active(i)'
    BY <1>3 DEF NothingWritten, Active
  <1>8. OneAtWork'
    <2>1. \A s \in Asking : ~UnderWay(s)'
      BY <1>6 DEF UnderWay
    <2>2. \A i \in 1..Len(turns') : Active(i)' =>
        /\ i = Len(turns') /\ turns'[i].conv = liveChat'
        /\ conversations'[liveChat'].turn = i /\ conversations'[liveChat'].array = i
      BY <1>1, <1>3, <1>7
    <2>3. QED
      BY <1>6, <2>1, <2>2 DEF OneAtWork, Quietly, Remembering
  <1>9. \A s \in Messages : asking[s].step = "done" => asking'[s].step = "done"
    BY <1>4, <1>5, ChatNumbers
  <1>10. Shown'
    <2>1. \A i \in 1..Len(transcript') : transcript'[i].role = "assistant" =>
          asking'[transcript'[i].of].step \in {"start", "done"}
      <3> SUFFICES ASSUME NEW i \in 1..Len(transcript), transcript[i].role = "assistant"
                   PROVE  asking'[transcript[i].of].step \in {"start", "done"}
        OBVIOUS
      <3>1. transcript[i] \in Lines
        BY DEF ChatInv, ChatTypes
      <3>2. transcript[i].of \in Asking
        BY <3>1, ChatNumbers DEF Lines
      <3>3. asking[transcript[i].of].step \in {"start", "done"}
        BY DEF SoloInv, Shown
      <3>4. QED
        BY <1>4, <1>5, <3>2, <3>3
    <2>2. \A n \in Messages : parts'[n] # NoCards => asking'[n].step = "done"
      BY <1>9 DEF SoloInv, Shown
    <2>3. \A s \in Asking : asking'[s].message # NoMessage => asking'[asking'[s].message].step = "done"
      <3>1. \A s \in Asking : asking[s].message \in Messages \union {NoMessage}
        BY <1>4, RequestFields
      <3>2. QED
        BY <1>4, <1>5, <1>9, <3>1 DEF SoloInv, Shown
    <2>4. \A i \in 1..Len(turns') : Active(i)' =>
        /\ asking'[turns'[i].message].step = "done"
        /\ parts'[turns'[i].message] = turns'[i].shown
      BY <1>1, <1>3, <1>4, <1>5, <1>7, <1>9
    <2>5. QED
      BY <2>1, <2>2, <2>3, <2>4 DEF Shown
  <1>11. Fresh'
    <2>1. \A i \in 1..Len(turns') : \A k \in turns'[i].calls : k <= drawn'
      BY <1>1, <1>3 DEF SoloInv, Fresh
    <2>2. ASSUME NEW k \in Cards,
                 k > drawn' \/ (\E i \in 1..Len(turns') : Active(i)' /\ k \in turns'[i].calls)
          PROVE  /\ \A n \in Messages : parts'[n][k] = "none"
                 /\ \A s \in Asking : asking'[s].before[k] = "none"
      <3>1. k > drawn
        BY <1>1, <1>3, <1>7, <2>2
      <3>2. /\ \A n \in Messages : parts[n][k] = "none"
            /\ \A s \in Asking : asking[s].before[k] = "none"
        BY <3>1 DEF SoloInv, Fresh
      <3>3. QED
        BY <1>4, <1>5, <3>2 DEF NoCards
    <2>3. QED
      BY <2>1, <2>2 DEF Fresh
  <1>12. Known'
    BY <1>6 DEF Known
  <1>13. DecisionsStay
    BY DEF DecisionsStay
  <1>14. QED
    BY <1>8, <1>10, <1>11, <1>12, <1>13 DEF SoloInv

-----------------------------------------------------------------------------
Turned(u, s, c, n) == u = [s EXCEPT ![c].turn = n, ![c].array = n]

LEMMA ConversationTurned ==
  ASSUME NEW s \in Seq(Conversations), NEW c \in 1..Len(s), NEW n \in Nat, NEW u,
         Turned(u, s, c, n)
  PROVE  /\ u \in Seq(Conversations) /\ Len(u) = Len(s)
         /\ u[c].turn = n /\ u[c].array = n
         /\ u[c].pending = s[c].pending /\ u[c].held = s[c].held /\ u[c].owed = s[c].owed
         /\ \A d \in 1..Len(s) : d # c => u[d] = s[d]
  <1> DEFINE v == [s[c] EXCEPT !.turn = n, !.array = n]
  <1>1. s[c] \in Conversations
    OBVIOUS
  <1>2. v \in Conversations /\ v.turn = n /\ v.array = n
        /\ v.pending = s[c].pending /\ v.held = s[c].held /\ v.owed = s[c].owed
    BY <1>1 DEF Conversations
  <1>3. u = [s EXCEPT ![c] = v]
    BY DEF Turned
  <1> HIDE DEF v
  <1>4. /\ u \in Seq(Conversations) /\ Len(u) = Len(s) /\ u[c] = v
        /\ \A d \in 1..Len(s) : u[d] = IF d = c THEN v ELSE s[d]
    BY <1>2, <1>3, ElementReplaced
  <1>5. QED
    BY <1>2, <1>4

Emptied(u, s, c) == u = [s EXCEPT ![c].pending = {}, ![c].held = {}]

LEMMA ConversationCleared ==
  ASSUME NEW s \in Seq(Conversations), NEW c \in 1..Len(s), NEW u,
         Emptied(u, s, c)
  PROVE  /\ u \in Seq(Conversations) /\ Len(u) = Len(s)
         /\ u[c].pending = {} /\ u[c].held = {} /\ u[c].owed = s[c].owed
         /\ \A d \in 1..Len(s) : d # c => u[d] = s[d]
  <1> DEFINE v == [s[c] EXCEPT !.pending = {}, !.held = {}]
  <1>1. s[c] \in Conversations
    OBVIOUS
  <1>2. v \in Conversations /\ v.pending = {} /\ v.held = {} /\ v.owed = s[c].owed
    BY <1>1, CardSetParts DEF Conversations
  <1>3. u = [s EXCEPT ![c] = v]
    BY DEF Emptied
  <1> HIDE DEF v
  <1>4. /\ u \in Seq(Conversations) /\ Len(u) = Len(s) /\ u[c] = v
        /\ \A d \in 1..Len(s) : u[d] = IF d = c THEN v ELSE s[d]
    BY <1>2, <1>3, ElementReplaced
  <1>5. QED
    BY <1>2, <1>4

(* send: the first reply of a message.                                     *)
LEMMA StartsMoves ==
  ASSUME ChatInv, NEW r \in Asking, SendStarts(r)
  PROVE  \E c \in Nat :
           /\ TurnBegins(r, c, r, asking[r].results, NoCards) /\ liveChat' = c
           /\ asking[r].step = "start"
           /\ \/ liveChat = 0 /\ conversations'[c].pending = {} /\ conversations'[c].held = {}
                 /\ conversations'[c].owed = {}
              \/ liveChat # 0 /\ c = liveChat
                 /\ conversations'[c].pending = conversations[c].pending
                 /\ conversations'[c].held = conversations[c].held
                 /\ conversations'[c].owed = conversations[c].owed
  <1>1. /\ conversations \in Seq(Conversations) /\ turns \in Seq(Turns) /\ Len(turns) \in Nat
        /\ Len(conversations) \in Nat /\ liveChat \in 0..Len(conversations)
    BY DEF ChatInv, ChatTypes, ChatBound
  <1>2. /\ asking[r].step = "start" /\ asking' = [asking EXCEPT ![r] = Answered]
        /\ parts' = parts /\ transcript' = transcript /\ drawn' = drawn /\ meets' = meets
    BY AnsweredForm DEF SendStarts, At
  <1>3. CASE liveChat # 0
    <2>1. /\ turns' = Append(turns, NewTurn(liveChat, r, asking[r].results, NoCards))
          /\ conversations' = [conversations EXCEPT ![liveChat].turn = Len(turns) + 1,
                                                    ![liveChat].array = Len(turns) + 1]
          /\ liveChat' = liveChat
      BY <1>3 DEF SendStarts, StartTurn
    <2>2. liveChat \in 1..Len(conversations) /\ Len(turns) + 1 \in Nat
      BY <1>1, <1>3
    <2>3. PICK u : u = conversations'
      OBVIOUS
    <2>4. /\ u \in Seq(Conversations) /\ Len(u) = Len(conversations)
          /\ u[liveChat].turn = Len(turns) + 1 /\ u[liveChat].array = Len(turns) + 1
          /\ u[liveChat].pending = conversations[liveChat].pending
          /\ u[liveChat].held = conversations[liveChat].held
          /\ u[liveChat].owed = conversations[liveChat].owed
          /\ \A d \in 1..Len(conversations) : d # liveChat => u[d] = conversations[d]
      <3>1. Turned(u, conversations, liveChat, Len(turns) + 1)
        BY <2>1, <2>3 DEF Turned
      <3>2. QED
        BY <1>1, <2>2, <3>1, ConversationTurned
    <2>5. TurnBegins(r, liveChat, r, asking[r].results, NoCards)
      BY <1>1, <1>2, <2>1, <2>2, <2>3, <2>4 DEF TurnBegins
    <2>6. QED
      BY <1>1, <1>2, <1>3, <2>1, <2>3, <2>4, <2>5
  <1>4. CASE liveChat = 0
    <2> DEFINE c == Len(conversations) + 1
    <2>1. PICK s : s = Append(conversations, NewConversation)
      OBVIOUS
    <2>2. /\ turns' = Append(turns, NewTurn(c, r, asking[r].results, NoCards))
          /\ conversations' = [s EXCEPT ![c].turn = Len(turns) + 1, ![c].array = Len(turns) + 1]
          /\ liveChat' = c
      BY <1>4, <2>1 DEF SendStarts, StartTurn
    <2>3. /\ s \in Seq(Conversations) /\ Len(s) = c /\ s[c] = NewConversation
          /\ \A d \in 1..Len(conversations) : s[d] = conversations[d]
      BY <1>1, <2>1, ElementAppended, NewTypes
    <2>4. c \in 1..Len(s) /\ c \in Nat /\ Len(turns) + 1 \in Nat
      BY <1>1, <2>3
    <2>5. PICK u : u = conversations'
      OBVIOUS
    <2>6. /\ u \in Seq(Conversations) /\ Len(u) = Len(s)
          /\ u[c].turn = Len(turns) + 1 /\ u[c].array = Len(turns) + 1
          /\ u[c].pending = s[c].pending /\ u[c].held = s[c].held /\ u[c].owed = s[c].owed
          /\ \A d \in 1..Len(s) : d # c => u[d] = s[d]
      <3>1. Turned(u, s, c, Len(turns) + 1)
        BY <2>2, <2>5 DEF Turned
      <3>2. QED
        BY <2>3, <2>4, <3>1, ConversationTurned
    <2>7. NewConversation.pending = {} /\ NewConversation.held = {} /\ NewConversation.owed = {}
      BY DEF NewConversation
    <2>8. \A d \in 1..c : d # c => d \in 1..Len(conversations)
      BY <1>1
    <2>9. PICK x : x = c
      OBVIOUS
    <2>10. /\ u \in Seq(Conversations) /\ Len(conversations) <= Len(u) /\ x \in 1..Len(u) /\ x \in Nat
           /\ u[x].turn = Len(turns) + 1 /\ u[x].array = Len(turns) + 1
           /\ u[x].pending = {} /\ u[x].held = {} /\ u[x].owed = {}
      BY <1>1, <2>3, <2>4, <2>6, <2>7, <2>9
    <2>11. \A d \in 1..Len(u) : d # x => d \in 1..Len(conversations) /\ u[d] = conversations[d]
      BY <1>1, <2>3, <2>6, <2>8, <2>9
    <2>12. turns' = Append(turns, NewTurn(x, r, asking[r].results, NoCards)) /\ liveChat' = x
      BY <2>2, <2>9
    <2>13. conversations' = u
      BY <2>5
    <2> HIDE DEF c
    <2>14. TurnBegins(r, x, r, asking[r].results, NoCards)
      BY <1>2, <2>10, <2>11, <2>12, <2>13 DEF TurnBegins
    <2>15. QED
      BY <1>2, <1>4, <2>10, <2>12, <2>13, <2>14
  <1>5. QED
    BY <1>3, <1>4

ActStarts(r) ==
    /\ ActGoesOn(r) /\ asking[r].conv # 0
    /\ asking[r].card \in conversations[asking[r].conv].pending
    /\ Left(r) = {}

(* act: the reply goes on with the results of all its calls.               *)
LEMMA GoesOnMoves ==
  ASSUME ChatInv, NEW r \in Asking, ActStarts(r)
  PROVE  \E c \in Nat, results \in CardSets :
           /\ c = asking[r].conv
           /\ results = conversations[c].held \union {asking[r].card}
           /\ TurnBegins(r, c, asking[r].message, results, Decided(r))
           /\ liveChat' = liveChat /\ asking[r].step = "go" /\ asking[r].message \in Messages
           /\ conversations'[c].pending = {} /\ conversations'[c].held = {}
           /\ conversations'[c].owed = conversations[c].owed
  <1> DEFINE c == asking[r].conv
  <1>1. /\ conversations \in Seq(Conversations) /\ turns \in Seq(Turns) /\ Len(turns) \in Nat
        /\ Len(conversations) \in Nat
    BY DEF ChatInv, ChatTypes, ChatBound
  <1>2. /\ c \in 1..Len(conversations) /\ c \in Nat /\ asking[r].card \in Cards
        /\ asking[r].message \in Messages \union {NoMessage}
    BY AskingIs, RequestFields, <1>1 DEF ActStarts
  <1>3. asking[r].step = "go" /\ asking[r].message \in Messages
    BY <1>2 DEF ActStarts, ActGoesOn, At, ChatInv, ChatBound
  <1>4. conversations[c].held \union {asking[r].card} \in CardSets
    <2>1. conversations[c] \in Conversations
      BY <1>1, <1>2
    <2>2. QED
      BY <1>2, <2>1, ConversationFields, CardSetParts
  <1>5. PICK s : s = [conversations EXCEPT ![c].pending = {}, ![c].held = {}]
    OBVIOUS
  <1>6. PICK u : u = conversations'
    OBVIOUS
  <1>7. /\ turns' = Append(turns, NewTurn(c, asking[r].message,
                               conversations[c].held \union {asking[r].card}, Decided(r)))
        /\ conversations' = [s EXCEPT ![c].turn = Len(turns) + 1, ![c].array = Len(turns) + 1]
    BY <1>5 DEF ActStarts, Left, ActGoesOn, StartTurn
  <1>8. /\ asking' = [asking EXCEPT ![r] = Answered] /\ liveChat' = liveChat
        /\ parts' = parts /\ transcript' = transcript /\ drawn' = drawn /\ meets' = meets
    BY AnsweredForm DEF ActStarts, ActGoesOn
  <1>9. /\ s \in Seq(Conversations) /\ Len(s) = Len(conversations)
        /\ s[c].pending = {} /\ s[c].held = {} /\ s[c].owed = conversations[c].owed
        /\ \A d \in 1..Len(conversations) : d # c => s[d] = conversations[d]
    <2>1. Emptied(s, conversations, c)
      BY <1>5 DEF Emptied
    <2>2. QED
      BY <1>1, <1>2, <2>1, ConversationCleared
  <1>10. /\ u \in Seq(Conversations) /\ Len(u) = Len(s)
         /\ u[c].turn = Len(turns) + 1 /\ u[c].array = Len(turns) + 1
         /\ u[c].pending = s[c].pending /\ u[c].held = s[c].held /\ u[c].owed = s[c].owed
         /\ \A d \in 1..Len(s) : d # c => u[d] = s[d]
    <2>1. Turned(u, s, c, Len(turns) + 1)
      BY <1>6, <1>7 DEF Turned
    <2>2. c \in 1..Len(s) /\ Len(turns) + 1 \in Nat
      BY <1>1, <1>2, <1>9
    <2>3. QED
      BY <1>9, <2>1, <2>2, ConversationTurned
  <1>11. TurnBegins(r, c, asking[r].message,
                    conversations[c].held \union {asking[r].card}, Decided(r))
    BY <1>1, <1>2, <1>6, <1>7, <1>8, <1>9, <1>10 DEF TurnBegins
  <1>12. QED
    BY <1>2, <1>3, <1>4, <1>6, <1>8, <1>9, <1>10, <1>11

LEMMA NewTurnTypes ==
  ASSUME ChatInv, NEW r \in Asking, SendStarts(r) \/ ActStarts(r)
  PROVE  ChatInv'
  <1>1. CASE SendStarts(r)
    <2>1. PICK c \in Nat : TurnBegins(r, c, r, asking[r].results, NoCards) /\ liveChat' = c
      BY <1>1, StartsMoves
    <2>2. asking[r].results \in CardSets /\ NoCards \in ShownParts /\ r \in Messages
      BY AskingIs, RequestFields, NothingShown, ChatNumbers
    <2>3. QED
      BY <2>1, <2>2, BeginsTypes
  <1>2. CASE ActStarts(r)
    <2>1. Decided(r) \in ShownParts
      BY DecidedShows
    <2>2. PICK c \in Nat, results \in CardSets :
            /\ TurnBegins(r, c, asking[r].message, results, Decided(r))
            /\ liveChat' = liveChat /\ asking[r].message \in Messages
      BY <1>2, GoesOnMoves
    <2>3. QED
      BY <2>1, <2>2, BeginsTypes
  <1>3. QED
    BY <1>1, <1>2

LEMMA NewTurnSolo ==
  ASSUME ChatInv, SoloInv, Solo, NEW r \in Asking, SendStarts(r) \/ ActStarts(r)
  PROVE  SoloInv' /\ DecisionsStay
  <1>0. asking[r].step \in {"start", "go"}
    BY StartsMoves, GoesOnMoves
  <1>1. NobodyElse(r) /\ asking[r].step # "done"
    BY <1>0, NobodyElseWorks DEF UnderWay
  <1>2. NothingWritten
    BY <1>0 DEF SoloInv, OneAtWork, Quietly, NothingWritten
  <1>3. CASE SendStarts(r)
    <2>1. PICK c \in Nat : TurnBegins(r, c, r, asking[r].results, NoCards) /\ liveChat' = c
                           /\ asking[r].step = "start"
      BY <1>3, StartsMoves
    <2>2. asking[r].results \in CardSets /\ NoCards \in ShownParts /\ r \in Messages
      BY AskingIs, RequestFields, NothingShown, ChatNumbers
    <2>3. parts[r] = NoCards
      BY <2>1, <2>2 DEF SoloInv, Shown
    <2>4. QED
      BY <1>1, <1>2, <2>1, <2>2, <2>3, BeginsSolo
  <1>4. CASE ActStarts(r)
    <2>1. asking[r].step = "go" /\ asking[r].message \in Messages
      BY <1>4, GoesOnMoves
    <2>2. asking[r].conv = liveChat /\ parts[asking[r].message] = Decided(r)
          /\ asking[asking[r].message].step = "done"
      BY <2>1, ChatNumbers DEF SoloInv, OneAtWork, Remembering, Known, Shown, NoMessage
    <2>3. Decided(r) \in ShownParts
      BY DecidedShows
    <2>4. PICK c \in Nat, results \in CardSets :
            /\ c = asking[r].conv
            /\ TurnBegins(r, c, asking[r].message, results, Decided(r))
            /\ liveChat' = liveChat
      BY <1>4, GoesOnMoves
    <2>5. liveChat' = c
      BY <2>2, <2>4
    <2>6. QED
      BY <1>1, <1>2, <2>1, <2>2, <2>3, <2>4, <2>5, BeginsSolo
  <1>5. QED
    BY <1>3, <1>4

-----------------------------------------------------------------------------
LEMMA SweptTypes == ChatInv /\ ChatSwept => ChatInv'
  <1> SUFFICES ASSUME ChatInv, ChatSwept PROVE ChatInv'
    OBVIOUS
  <1>1. /\ liveChat' = 0
        /\ UNCHANGED <<meets, transcript, parts, conversations, turns, asking, drawn>>
    BY DEF ChatSwept
  <1>2. ChatTypes'
    BY <1>1 DEF ChatInv, ChatTypes
  <1>3. Len(conversations) \in Nat
    BY LenProperties DEF ChatInv, ChatTypes
  <1>4. liveChat' \in 0..Len(conversations')
    BY <1>1, <1>3
  <1>5. ChatBound'
    BY <1>1, <1>4 DEF ChatInv, ChatBound
  <1> QED  BY <1>2, <1>5 DEF ChatInv

LEMMA SweptSolo ==
  ASSUME ChatInv, SoloInv, ChatSwept
  PROVE  SoloInv' /\ DecisionsStay /\ NothingWritten
  <1> USE DEF ChatSwept
  <1>1. NothingWritten
    <2> SUFFICES ASSUME NEW n \in 1..Len(turns), Active(n) PROVE FALSE
      BY DEF NothingWritten
    <2>1. conversations[liveChat].turn = n
      BY DEF SoloInv, OneAtWork
    <2>2. QED
      BY <2>1
  <1>2. OneAtWork'
    BY <1>1 DEF SoloInv, OneAtWork, NothingWritten, Active, UnderWay, Remembering
  <1>3. Shown'
    BY DEF SoloInv, Shown, Active
  <1>4. Fresh'
    BY DEF SoloInv, Fresh, Active
  <1>5. Known'
    BY DEF SoloInv, Known, Decided
  <1>6. QED
    BY <1>1, <1>2, <1>3, <1>4, <1>5 DEF SoloInv, DecisionsStay

LEMMA RestartTurns ==
  ASSUME ChatInv, NEW r \in Asking, ChatRestarts(r)
  PROVE  /\ turns' \in Seq(Turns) /\ Len(turns') = Len(turns)
         /\ \A n \in 1..Len(turns) :
             /\ turns'[n].conv = turns[n].conv /\ turns'[n].message = turns[n].message
             /\ turns'[n].step = "ended" /\ turns'[n].calls = {}
         /\ asking' \in [Asking -> ChatRequests]
         /\ \A s \in Asking : asking'[s] = IF s = r \/ UnderWay(s) THEN Answered ELSE asking[s]
  <1>1. turns \in Seq(Turns) /\ Len(turns) \in Nat /\ asking \in [Asking -> ChatRequests]
    BY DEF ChatInv, ChatTypes
  <1>2. turns' = [n \in 1..Len(turns) |-> Ended(turns[n])]
    BY DEF ChatRestarts
  <1>3. \A n \in 1..Len(turns) : turns[n] \in Turns /\ Ended(turns[n]) \in Turns
    BY <1>1, EndedTurn
  <1>4. turns' \in Seq(Turns) /\ Len(turns') = Len(turns)
    BY <1>1, <1>2, <1>3
  <1>5. \A n \in 1..Len(turns) :
             /\ turns'[n].conv = turns[n].conv /\ turns'[n].message = turns[n].message
             /\ turns'[n].step = "ended" /\ turns'[n].calls = {}
    BY <1>2, <1>3, EndedTurn
  <1>6. /\ asking' \in [Asking -> ChatRequests]
        /\ \A s \in Asking : asking'[s] = IF s = r \/ UnderWay(s) THEN Answered ELSE asking[s]
    BY <1>1, NewTypes DEF ChatRestarts
  <1>7. QED
    BY <1>4, <1>5, <1>6

LEMMA RestartTypes ==
  ASSUME ChatInv, NEW r \in Asking, ChatRestarts(r)
  PROVE  ChatInv'
  <1>1. /\ turns' \in Seq(Turns) /\ Len(turns') = Len(turns)
        /\ \A n \in 1..Len(turns) :
             /\ turns'[n].conv = turns[n].conv
        /\ asking' \in [Asking -> ChatRequests]
        /\ \A s \in Asking : asking'[s] = IF s = r \/ UnderWay(s) THEN Answered ELSE asking[s]
    BY RestartTurns
  <1>2. ChatTypes'
    BY <1>1 DEF ChatInv, ChatTypes, ChatRestarts
  <1>3. Answered.conv = 0 /\ Answered.awaits = 0 /\ Answered.step = "done"
    BY NewTypes
  <1>4. \A s \in Asking :
        /\ asking'[s].conv <= Len(conversations') /\ asking'[s].awaits <= Len(turns')
        /\ asking'[s].step \in {"apply", "write", "go"} => asking'[s].message # NoMessage
    BY <1>1, <1>3 DEF ChatInv, ChatBound, ChatTypes, ChatRestarts
  <1>5. ChatBound'
    BY <1>1, <1>4 DEF ChatInv, ChatBound, ChatTypes, ChatRestarts
  <1>6. QED
    BY <1>2, <1>5 DEF ChatInv

LEMMA RestartSolo ==
  ASSUME ChatInv, SoloInv, NEW r \in Asking, ChatRestarts(r)
  PROVE  SoloInv' /\ DecisionsStay
  <1>1. /\ Len(turns') = Len(turns)
        /\ \A n \in 1..Len(turns) :
             turns'[n].step = "ended" /\ turns'[n].calls = {}
        /\ \A s \in Asking : asking'[s] = IF s = r \/ UnderWay(s) THEN Answered ELSE asking[s]
    BY RestartTurns
  <1>2. UNCHANGED <<transcript, parts, conversations, drawn>> /\ liveChat' = 0
    BY DEF ChatRestarts
  <1>3. /\ Answered.message = NoMessage /\ Answered.step = "done" /\ Answered.before = NoCards
        /\ \A k \in Cards : NoCards[k] = "none"
    BY NewTypes DEF NoCards
  <1>4. \A s \in Asking : asking'[s].step \in {"new", "done"}
    BY <1>1, <1>3 DEF UnderWay
  <1>5. \A n \in 1..Len(turns') : ~Active(n)'
    BY <1>1 DEF Active
  <1>6. \A s \in Asking : asking[s].step \in {"start", "done"} => asking'[s].step = "done"
    BY <1>1, <1>3 DEF UnderWay
  <1>7. OneAtWork'
    BY <1>4, <1>5 DEF OneAtWork, UnderWay, Quietly, Remembering
  <1>8. Shown'
    <2>1. \A i \in 1..Len(transcript') : transcript'[i].role = "assistant" =>
          asking'[transcript'[i].of].step \in {"start", "done"}
      <3> SUFFICES ASSUME NEW i \in 1..Len(transcript), transcript[i].role = "assistant"
                   PROVE  asking'[transcript[i].of].step \in {"start", "done"}
        BY <1>2
      <3>1. transcript[i] \in Lines
        BY DEF ChatInv, ChatTypes
      <3>2. transcript[i].of \in Asking
        BY <3>1, ChatNumbers DEF Lines
      <3>3. QED
        BY <1>6, <3>2 DEF SoloInv, Shown
    <2>2. \A n \in Messages : parts'[n] # NoCards => asking'[n].step = "done"
      BY <1>2, <1>6, ChatNumbers DEF SoloInv, Shown
    <2>3. \A s \in Asking : asking'[s].message # NoMessage => asking'[asking'[s].message].step = "done"
      <3>1. \A s \in Asking : asking[s].message \in Messages \union {NoMessage}
        BY AskingIs, RequestFields
      <3>2. SUFFICES ASSUME NEW s \in Asking, asking'[s].message # NoMessage
                     PROVE  asking'[asking'[s].message].step = "done"
        OBVIOUS
      <3>3. asking'[s] = asking[s]
        BY <1>1, <1>3, <3>2
      <3>4. asking[s].message \in Asking
        BY <3>1, <3>2, <3>3, ChatNumbers
      <3>5. asking[asking[s].message].step = "done"
        BY <3>2, <3>3 DEF SoloInv, Shown
      <3>6. QED
        BY <1>6, <3>3, <3>4, <3>5
    <2>4. QED
      BY <1>5, <2>1, <2>2, <2>3 DEF Shown
  <1>9. Fresh'
    BY <1>1, <1>2, <1>3, <1>5 DEF SoloInv, Fresh
  <1>10. Known'
    BY <1>4 DEF Known
  <1>11. QED
    BY <1>2, <1>7, <1>8, <1>9, <1>10 DEF SoloInv, DecisionsStay

(* What a step may be.                                                     *)
LEMMA StepsOfChat ==
  ASSUME ChatInv, [ChatNext]_chatVars
  PROVE  \/ UNCHANGED chatVars \/ ChatSwept
         \/ \E n \in 1..Len(turns) : TurnStep(n)
         \/ \E r \in Asking : QuietStep(r) \/ LoudStep(r) \/ SendStarts(r)
                              \/ ActStarts(r) \/ ChatRestarts(r)
  <1>0. SUFFICES ASSUME ChatNext
                 PROVE  \/ ChatSwept
                        \/ \E n \in 1..Len(turns) : TurnStep(n)
                        \/ \E r \in Asking : QuietStep(r) \/ LoudStep(r) \/ SendStarts(r)
                                             \/ ActStarts(r) \/ ChatRestarts(r)
    OBVIOUS
  <1>1. ASSUME NEW r \in Asking, SendStep(r)
        PROVE  QuietStep(r) \/ LoudStep(r) \/ SendStarts(r)
    BY <1>1 DEF SendStep, QuietStep, LoudStep
  <1>2. ASSUME NEW r \in Asking, ActStep(r)
        PROVE  QuietStep(r) \/ LoudStep(r) \/ ActStarts(r)
    BY <1>2 DEF ActStep, QuietStep, LoudStep, ActStarts
  <1>3. ASSUME NEW r \in Asking, CancelStops(r) \/ SendReads(r) \/ CancelBegins(r)
        PROVE  QuietStep(r)
    BY <1>3 DEF QuietStep
  <1>4. ASSUME NEW r \in Asking, NEW k \in 1..drawn, NEW choice \in {"applied", "declined"},
               ActBegins(r, k, choice)
        PROVE  QuietStep(r)
    <2>1. k \in Cards
      BY ChatNumbers DEF ChatInv, ChatTypes, Cards
    <2>2. QED
      BY <1>4, <2>1 DEF QuietStep
  <1>5. QED
    BY <1>0, <1>1, <1>2, <1>3, <1>4 DEF ChatNext, ChatWork

LEMMA SoloBegins == ChatInit => SoloInv
  <1> SUFFICES ASSUME ChatInit PROVE SoloInv
    OBVIOUS
  <1>1. \A r \in Asking : asking[r].step = "new" /\ asking[r].message = NoMessage
                          /\ asking[r].before = NoCards
    BY DEF ChatInit, NewRequest
  <1>2. turns = <<>> /\ transcript = <<>> /\ \A m \in Messages : parts[m] = NoCards
    BY DEF ChatInit
  <1>3. \A k \in Cards : NoCards[k] = "none"
    BY DEF NoCards
  <1>4. OneAtWork
    BY <1>1, <1>2 DEF OneAtWork, UnderWay, Quietly, Remembering
  <1>5. Shown
    BY <1>1, <1>2 DEF Shown
  <1>6. Fresh
    BY <1>1, <1>2, <1>3 DEF Fresh
  <1>7. Known
    BY <1>1 DEF Known
  <1>8. QED
    BY <1>4, <1>5, <1>6, <1>7 DEF SoloInv

LEMMA ChatKeepsTypes == ChatInv /\ [ChatNext]_chatVars => ChatInv'
  <1> SUFFICES ASSUME ChatInv, [ChatNext]_chatVars PROVE ChatInv'
    OBVIOUS
  <1>1. CASE UNCHANGED chatVars
    BY <1>1 DEF ChatInv, ChatTypes, ChatBound, chatVars
  <1>2. CASE ChatSwept
    BY <1>2, SweptTypes
  <1>3. ASSUME NEW n \in 1..Len(turns), TurnStep(n) PROVE ChatInv'
    BY <1>3, TurnStepTypes
  <1>4. ASSUME NEW r \in Asking, QuietStep(r) PROVE ChatInv'
    BY <1>4, QuietTypes
  <1>5. ASSUME NEW r \in Asking, LoudStep(r) PROVE ChatInv'
    BY <1>5, LoudTypes
  <1>6. ASSUME NEW r \in Asking, SendStarts(r) \/ ActStarts(r) PROVE ChatInv'
    BY <1>6, NewTurnTypes
  <1>7. ASSUME NEW r \in Asking, ChatRestarts(r) PROVE ChatInv'
    BY <1>7, RestartTypes
  <1>8. QED
    BY <1>1, <1>2, <1>3, <1>4, <1>5, <1>6, <1>7, StepsOfChat

LEMMA ChatKeepsSolo ==
  ASSUME ChatInv, SoloInv, Solo, [ChatNext]_chatVars
  PROVE  SoloInv' /\ DecisionsStay
  <1>1. CASE UNCHANGED chatVars
    BY <1>1 DEF SoloInv, DecisionsStay, OneAtWork, Shown, Fresh, Known, Active, UnderWay,
       Decided, chatVars
  <1>2. CASE ChatSwept
    BY <1>2, SweptSolo
  <1>3. ASSUME NEW n \in 1..Len(turns), TurnStep(n) PROVE SoloInv' /\ DecisionsStay
    BY <1>3, TurnStepSolo
  <1>4. ASSUME NEW r \in Asking, QuietStep(r) PROVE SoloInv' /\ DecisionsStay
    BY <1>4, QuietSolo
  <1>5. ASSUME NEW r \in Asking, LoudStep(r) PROVE SoloInv' /\ DecisionsStay
    BY <1>5, LoudSolo
  <1>6. ASSUME NEW r \in Asking, SendStarts(r) \/ ActStarts(r) PROVE SoloInv' /\ DecisionsStay
    BY <1>6, NewTurnSolo
  <1>7. ASSUME NEW r \in Asking, ChatRestarts(r) PROVE SoloInv' /\ DecisionsStay
    BY <1>7, RestartSolo
  <1>8. QED
    BY <1>1, <1>2, <1>3, <1>4, <1>5, <1>6, <1>7, StepsOfChat

LEMMA MeetsStays == [ChatNext]_chatVars => meets' = meets
  BY ZenonT(60) DEF ChatNext, ChatWork, TurnStep, TurnAsks, TurnAnswered, TurnPauses, TurnFails,
     TurnGivesUp, CardProposed, CallRefused, SendStep, SendRefused, SendStops, Stopped,
     SendDeclines, SendCollects, SendAppends, SendStarts, ActStep, ActReads, ActApplies,
     ActWrites, ActGoesOn, CancelStops, SendReads, CancelBegins, ChatRestarts, ActBegins,
     ChatSwept, chatVars

(* A sequence of which every element is in a smaller set.                  *)
LEMMA ChatSeqOver ==
  ASSUME NEW S, NEW T, NEW s \in Seq(S), \A i \in 1..Len(s) : s[i] \in T
  PROVE  s \in Seq(T)
  OBVIOUS

LEMMA TypesAreChatTypes == ChatInv => ChatTypeOK
  <1> SUFFICES ASSUME ChatInv PROVE ChatTypeOK
    OBVIOUS
  <1>0. Len(turns) \in Nat /\ Len(conversations) \in Nat
    BY DEF ChatInv, ChatTypes
  <1> DEFINE C == [pending : SUBSET Cards, held : SUBSET Cards,
                   turn : 0..Len(turns), array : 0..Len(turns), owed : SUBSET Cards]
             T == [conv : 1..Len(conversations), message : Messages,
                   results : SUBSET Cards, shown : [Cards -> CardStates],
                   step : {"ask", "provider", "calls", "failing", "ended"},
                   calls : SUBSET Cards, proposed : SUBSET Cards, aborted : BOOLEAN]
             R == [step : {"new", "stop", "wait", "cancel", "decline", "collect", "append",
                           "reply", "start", "read", "apply", "write", "go", "done"},
                   conv : 0..Len(conversations), message : Messages \union {NoMessage},
                   before : [Cards -> CardStates], card : Cards,
                   choice : {"applied", "failed", "declined"}, results : SUBSET Cards,
                   awaits : 0..Len(turns)]
  <1>1. ASSUME NEW i \in 1..Len(conversations) PROVE conversations[i] \in C
    <2>1. conversations[i] \in Conversations
      BY DEF ChatInv, ChatTypes
    <2>2. conversations[i].turn \in 0..Len(turns) /\ conversations[i].array \in 0..Len(turns)
      BY <1>0, <2>1, ConversationFields DEF ChatInv, ChatBound
    <2>3. QED
      BY <2>1, <2>2 DEF Conversations, CardSets
  <1>2. conversations \in Seq(C)
    BY <1>1, ChatSeqOver DEF ChatInv, ChatTypes
  <1>3. ASSUME NEW i \in 1..Len(turns) PROVE turns[i] \in T
    <2>1. turns[i] \in Turns
      BY DEF ChatInv, ChatTypes
    <2>2. turns[i].conv \in 1..Len(conversations)
      BY DEF ChatInv, ChatBound
    <2>3. QED
      BY <2>1, <2>2 DEF Turns, CardSets, ShownParts, TurnSteps
  <1>4. turns \in Seq(T)
    BY <1>3, ChatSeqOver DEF ChatInv, ChatTypes
  <1>5. ASSUME NEW r \in Asking PROVE asking[r] \in R
    <2>1. asking[r] \in ChatRequests
      BY DEF ChatInv, ChatTypes
    <2>2. asking[r].conv \in 0..Len(conversations) /\ asking[r].awaits \in 0..Len(turns)
      BY <1>0, <2>1, RequestFields DEF ChatInv, ChatBound
    <2>3. QED
      BY <2>1, <2>2 DEF ChatRequests, CardSets, ShownParts, RequestSteps, Choices
  <1>6. asking \in [Asking -> R]
    BY <1>5 DEF ChatInv, ChatTypes
  <1>7. transcript \in Seq([role : {"user", "assistant"}, of : Messages])
        /\ parts \in [Messages -> [Cards -> CardStates]]
        /\ meets \in Meetings /\ drawn \in 0..MaxCalls /\ liveChat \in 0..Len(conversations)
    BY DEF ChatInv, ChatTypes, ChatBound, Lines, ShownParts
  <1> HIDE DEF C, T, R
  <1>8. QED
    BY <1>2, <1>4, <1>6, <1>7 DEF ChatTypeOK, C, T, R

-----------------------------------------------------------------------------
(* Every variable of the chat has its type in every state.                 *)
THEOREM ChatTypesHold == ChatSpec => []ChatTypeOK
  <1>1. ChatSpec => []ChatInv
    BY TypesBegin, ChatKeepsTypes, PTL DEF ChatSpec
  <1>2. QED
    BY <1>1, TypesAreChatTypes, PTL

SoloOrMet == ChatInv /\ (Solo => SoloInv)

LEMMA SoloHolds == ChatSpec => []SoloOrMet
  <1>1. ChatInit => SoloOrMet
    BY TypesBegin, SoloBegins DEF SoloOrMet
  <1>2. SoloOrMet /\ [ChatNext]_chatVars => SoloOrMet'
    <2> SUFFICES ASSUME SoloOrMet, [ChatNext]_chatVars, Solo' PROVE SoloInv'
      BY ChatKeepsTypes DEF SoloOrMet
    <2>1. Solo
      BY MeetsStays DEF Solo
    <2>2. QED
      BY <2>1, ChatKeepsSolo DEF SoloOrMet
  <1>3. QED
    BY <1>1, <1>2, PTL DEF ChatSpec

(* What a person decided about a card is what every later state of the     *)
(* stored reply shows, as long as requests do not meet.                    *)
THEOREM DecisionsAreKept == ChatSpec => CardsAreFinal
  <1>1. SoloOrMet /\ [ChatNext]_chatVars =>
          [ "requests" \notin meets =>
              \A m \in Messages, k \in Cards :
                parts[m][k] \in {"applied", "failed", "declined"} =>
                  parts'[m][k] = parts[m][k] ]_chatVars
    BY ChatKeepsSolo DEF SoloOrMet, Solo, DecisionsStay, Choices
  <1>2. QED
    BY <1>1, SoloHolds, PTL DEF ChatSpec, CardsAreFinal

(* From the time a request has collected what is owed until it goes on.    *)
Collected == {"append", "reply", "start"}

(* What a request has read is still so, and it has collected nothing yet,  *)
(* or all that the conversation owes.                                      *)
Present ==
  \A r \in Asking :
    /\ asking[r].step \in {"stop", "wait", "decline", "collect", "append", "apply", "write", "go"} =>
         asking[r].message = LastReply
    /\ asking[r].step \in {"stop", "wait", "decline", "apply", "write"} =>
         asking[r].before = IF LastReply = NoMessage THEN NoCards ELSE parts[LastReply]
    /\ asking[r].step = "start" => LastReply = r
    /\ asking[r].step \notin Collected => asking[r].results = {}

(* There is a conversation in memory only if there is a reply to go on from. *)
Continued == liveChat # 0 => LastReply # NoMessage \/ \E r \in Asking : asking[r].step = "reply"

(* The calls that reply t still has to see to are what conversation c owes. *)
Owes(t, c) ==
    /\ t.step # "failing" => c.pending = {} /\ c.held = {} /\ Waiting(t.shown) = t.proposed
    /\ t.step = "ask" => c.owed = t.results /\ t.proposed = {}
    /\ t.step = "provider" => c.owed = {} /\ t.results = {} /\ t.proposed = {}
    /\ t.step = "calls" => c.owed = t.calls \union t.proposed \union t.results

Pursues(n) == turns[n].message = LastReply /\ Owes(turns[n], conversations[liveChat])

Going == \A n \in 1..Len(turns) : Active(n) => Pursues(n)

NoneAt(steps) == \A r \in Asking : asking[r].step \notin steps

(* With no reply being written, the conversation owes what waits for the   *)
(* person and what is held back, and the cards of the last reply wait.     *)
Resting ==
    liveChat # 0 /\ NothingWritten =>
        /\ NoneAt(Collected) =>
             conversations[liveChat].owed
               = conversations[liveChat].pending \union conversations[liveChat].held
        /\ NoneAt(Collected \union {"collect", "go"}) =>
             /\ conversations[liveChat].pending = Waiting(parts[LastReply])
             /\ conversations[liveChat].pending = {} => conversations[liveChat].held = {}

Sending ==
  \A r \in Asking : asking[r].step \in Collected =>
    /\ liveChat = 0 => asking[r].results = {}
    /\ liveChat # 0 =>
        /\ conversations[liveChat].pending = {} /\ conversations[liveChat].held = {}
        /\ conversations[liveChat].owed = asking[r].results

Answering ==
  \A r \in Asking : asking[r].step = "go" /\ liveChat # 0 =>
    /\ asking[r].card \in conversations[liveChat].pending
    /\ conversations[liveChat].pending \ {asking[r].card} = Waiting(parts[asking[r].message])

AloneInv == Present /\ Continued /\ Going /\ Resting /\ Sending /\ Answering

-----------------------------------------------------------------------------
Rests(t, c) ==
    /\ c.pending = Waiting(t.shown) /\ c.owed = c.pending \union c.held
    /\ c.pending = {} => c.held = {}

NobodyWorks == \A r \in Asking : ~UnderWay(r)

LEMMA WhoWrites ==
  ASSUME ChatInv, SoloInv, AloneInv, NEW n \in 1..Len(turns), Active(n)
  PROVE  /\ n = Len(turns) /\ turns[n].conv = liveChat /\ liveChat # 0
         /\ Conv(n) = conversations[liveChat] /\ Conv(n).array = n
         /\ NoneAt(Quietly)
         /\ turns[n].message = LastReply /\ LastReply \in Messages
         /\ parts[LastReply] = turns[n].shown
         /\ Owes(turns[n], Conv(n))
  <1>1. /\ n = Len(turns) /\ turns[n].conv = liveChat /\ conversations[liveChat].array = n
    BY DEF SoloInv, OneAtWork
  <1>2. liveChat # 0
    BY <1>1 DEF ChatInv, ChatBound
  <1>3. NoneAt(Quietly)
    BY DEF SoloInv, OneAtWork, NoneAt
  <1>4. turns[n].message = LastReply /\ Owes(turns[n], conversations[liveChat])
    BY DEF AloneInv, Going, Pursues
  <1>5. LastReply \in Messages
    BY <1>4, ConvTypes, TurnFields
  <1>6. parts[LastReply] = turns[n].shown
    BY <1>4 DEF SoloInv, Shown
  <1>7. QED
    BY <1>1, <1>2, <1>3, <1>4, <1>5, <1>6 DEF Conv

LEMMA TurnKeepsAlone ==
  ASSUME ChatInv, SoloInv, AloneInv, NEW n \in 1..Len(turns), Active(n),
         NEW t \in Turns, NEW c \in Conversations, TurnBecomes(n, t, c),
         parts' = parts \/ NobodyWorks, parts' \in [Messages -> ShownParts],
         parts'[LastReply] = t.shown, liveChat' \in {liveChat, 0},
         t.step # "ended" => liveChat' = liveChat /\ Owes(t, c),
         t.step = "ended" /\ liveChat' # 0 => Rests(t, c)
  PROVE  AloneInv'
  <1>1. /\ n = Len(turns) /\ turns[n].conv = liveChat /\ liveChat # 0
        /\ NoneAt(Quietly)
        /\ turns[n].message = LastReply /\ LastReply \in Messages
    BY WhoWrites
  <1>2. turns \in Seq(Turns) /\ conversations \in Seq(Conversations)
        /\ liveChat \in 1..Len(conversations)
    BY <1>1, ConvTypes
  <1>3. Len(turns') = Len(turns) /\ \A i \in 1..Len(turns) : turns'[i] = IF i = n THEN t ELSE turns[i]
    BY <1>2, ElementReplaced DEF TurnBecomes
  <1>4. conversations'[liveChat] = c
    BY <1>1, <1>2, ElementReplaced DEF TurnBecomes
  <1>5. LastReply' = LastReply /\ asking' = asking /\ t.message = LastReply
    BY <1>1 DEF TurnBecomes, LastReply
  <1>6. \A i \in 1..Len(turns) : Active(i) => i = n
    BY DEF SoloInv, OneAtWork
  <1>7. Present'
    <2>1. CASE parts' = parts
      BY <1>5, <2>1 DEF AloneInv, Present
    <2>2. CASE NobodyWorks
      <3>1. \A r \in Asking : asking[r].step \in {"new", "done"}
        BY <2>2 DEF NobodyWorks, UnderWay
      <3>2. QED
        BY <1>5, <3>1 DEF AloneInv, Present, Collected
    <2>3. QED
      BY <2>1, <2>2
  <1>8. Continued'
    BY <1>5 DEF AloneInv, Continued
  <1>9. Going'
    <2> SUFFICES ASSUME NEW i \in 1..Len(turns'), Active(i)' PROVE Pursues(i)'
      BY DEF Going
    <2>1. i = n
      BY <1>3, <1>6 DEF Active
    <2>2. turns'[n] = t /\ t.step # "ended"
      BY <1>3, <2>1 DEF Active
    <2>3. Owes(t, c) /\ conversations'[liveChat'] = c
      BY <1>4, <2>2
    <2>4. QED
      BY <1>5, <2>1, <2>2, <2>3 DEF Pursues
  <1>10. Resting'
    <2> SUFFICES ASSUME liveChat' # 0, NothingWritten' PROVE Resting'
      BY DEF Resting
    <2>1. t.step = "ended" /\ liveChat' = liveChat
      BY <1>3 DEF NothingWritten, Active
    <2>2. Rests(t, c) /\ conversations'[liveChat'] = c /\ parts'[LastReply'] = t.shown
      BY <1>4, <1>5, <2>1
    <2>3. QED
      BY <2>2 DEF Resting, Rests
  <1>11. Sending' /\ Answering'
    BY <1>1, <1>5 DEF NoneAt, Quietly, Collected, Sending, Answering
  <1>12. QED
    BY <1>7, <1>8, <1>9, <1>10, <1>11 DEF AloneInv


LEMMA TurnStepAlone ==
  ASSUME ChatInv, SoloInv, AloneInv, meets = {}, NEW n \in 1..Len(turns), TurnStep(n)
  PROVE  AloneInv'
  <1>0. Active(n)
    BY DEF TurnStep, TurnAsks, TurnAnswered, CardProposed, CallRefused, TurnPauses,
       TurnFails, TurnGivesUp, Active
  <1>a. /\ parts[LastReply] = turns[n].shown /\ Conv(n).array = n
        /\ LastReply \in Messages /\ turns[n].message = LastReply
        /\ Owes(turns[n], Conv(n)) /\ parts \in [Messages -> ShownParts]
        /\ turns[n] \in Turns /\ Conv(n) \in Conversations
    BY <1>0, WhoWrites, ConvTypes DEF ChatInv, ChatTypes
  <1>1. CASE TurnAsks(n)
    <2>1. PICK t \in Turns, c \in Conversations :
           /\ TurnBecomes(n, t, c) /\ SameConversation(n, c) /\ SameShown(n, t)
           /\ t.step = "provider" /\ t.results = {} /\ t.proposed = turns[n].proposed
           /\ c.owed = Conv(n).owed \ turns[n].results
           /\ parts' = parts /\ liveChat' = liveChat
      BY <1>1, AsksMoves
    <2>2. Owes(t, c)
      BY <1>1, <1>a, <2>1 DEF TurnAsks, Owes, SameConversation, SameShown
    <2>3. QED
      BY <1>0, <1>a, <2>1, <2>2, TurnKeepsAlone DEF SameShown
  <1>2. CASE TurnAnswered(n)
    <2>1. PICK t \in Turns, c \in Conversations :
           /\ TurnBecomes(n, t, c) /\ SameConversation(n, c) /\ SameShown(n, t)
           /\ t.step = "calls" /\ t.results = turns[n].results /\ t.proposed = turns[n].proposed
           /\ c.owed = Conv(n).owed \union t.calls
           /\ parts' = parts /\ liveChat' = liveChat
      BY <1>2, AnsweredMoves
    <2>2. Owes(t, c)
      BY <1>2, <1>a, <2>1 DEF TurnAnswered, Owes, SameConversation, SameShown
    <2>3. QED
      BY <1>0, <1>a, <2>1, <2>2, TurnKeepsAlone DEF SameShown
  <1>3. ASSUME NEW k \in Cards, CardProposed(n, k) PROVE AloneInv'
    <2>1. PICK t \in Turns, c \in Conversations :
           /\ TurnBecomes(n, t, c) /\ c = Conv(n)
           /\ t.step = "calls" /\ t.results = turns[n].results
           /\ t.calls = turns[n].calls \ {k} /\ t.proposed = turns[n].proposed \union {k}
           /\ t.shown = [turns[n].shown EXCEPT ![k] = "pending"]
           /\ parts' = [parts EXCEPT ![turns[n].message] = t.shown]
           /\ liveChat' = liveChat
      BY <1>3, ProposedMoves
    <2>2. turns[n].step = "calls" /\ k \in turns[n].calls /\ NobodyWorks
      BY <1>3 DEF CardProposed, Undisturbed, NobodyWorks
    <2>3. Waiting(t.shown) = Waiting(turns[n].shown) \union {k}
      <3>1. turns[n].shown \in ShownParts /\ "pending" \in CardStates
        BY <1>a, TurnFields DEF CardStates
      <3>2. \A l \in Cards : t.shown[l] = IF l = k THEN "pending" ELSE turns[n].shown[l]
        BY <2>1, <3>1, OneShown
      <3>3. QED
        BY <3>2 DEF Waiting
    <2>4. Owes(t, c)
      BY <1>a, <2>1, <2>2, <2>3 DEF Owes
    <2>5. parts' \in [Messages -> ShownParts] /\ parts'[LastReply] = t.shown
      BY <1>a, <2>1, TurnFields
    <2>6. QED
      BY <1>0, <2>1, <2>2, <2>4, <2>5, TurnKeepsAlone
  <1>4. ASSUME NEW k \in Cards, CallRefused(n, k) PROVE AloneInv'
    <2>1. PICK t \in Turns, c \in Conversations :
           /\ TurnBecomes(n, t, c) /\ c = Conv(n) /\ SameShown(n, t)
           /\ t.step = "calls" /\ t.results = turns[n].results \union {k}
           /\ t.calls = turns[n].calls \ {k} /\ t.proposed = turns[n].proposed
           /\ parts' = parts /\ liveChat' = liveChat
      BY <1>4, RefusedMoves
    <2>2. turns[n].step = "calls" /\ k \in turns[n].calls
      BY <1>4 DEF CallRefused
    <2>3. Owes(t, c)
      BY <1>a, <2>1, <2>2 DEF Owes, SameShown
    <2>4. QED
      BY <1>0, <1>a, <2>1, <2>3, TurnKeepsAlone DEF SameShown
  <1>5. CASE TurnPauses(n)
    <2>1. PICK t \in Turns, c \in Conversations :
           /\ TurnBecomes(n, t, c) /\ parts' = parts /\ liveChat' = liveChat
           /\ t.shown = turns[n].shown
           /\ \/ /\ turns[n].proposed = {} /\ t.step = "ask" /\ t.proposed = {}
                 /\ t.results = turns[n].results /\ c = Conv(n)
              \/ /\ turns[n].proposed # {} \/ turns[n].results = {}
                 /\ t.step = "ended" /\ c.turn = 0
                 /\ c.pending = Conv(n).pending \union turns[n].proposed
                 /\ c.held = IF turns[n].proposed = {} THEN Conv(n).held
                             ELSE turns[n].results
                 /\ c.owed = Conv(n).owed
      BY <1>5, PausesMoves
    <2>2. turns[n].step = "calls" /\ turns[n].calls = {}
      BY <1>5 DEF TurnPauses
    <2>3. t.step # "ended" => Owes(t, c)
      BY <1>a, <2>1, <2>2 DEF Owes
    <2>4. t.step = "ended" => Rests(t, c)
      BY <1>a, <2>1, <2>2 DEF Owes, Rests
    <2>5. QED
      BY <1>0, <1>a, <2>1, <2>3, <2>4, TurnKeepsAlone
  <1>6. CASE TurnFails(n)
    <2>1. PICK t \in Turns, c \in Conversations :
           /\ TurnBecomes(n, t, c) /\ SameShown(n, t) /\ t.step = "failing"
           /\ parts' = [parts EXCEPT ![turns[n].message] = turns[Conv(n).array].shown]
           /\ liveChat' = liveChat
      BY <1>6, FailsMoves
    <2>2. parts' = parts /\ parts'[LastReply] = t.shown
      BY <1>a, <2>1 DEF SameShown
    <2>3. Owes(t, c)
      BY <2>1 DEF Owes
    <2>4. QED
      BY <1>0, <1>a, <2>1, <2>2, <2>3, TurnKeepsAlone
  <1>7. CASE TurnGivesUp(n)
    <2>1. PICK t \in Turns, c \in Conversations :
           /\ TurnBecomes(n, t, c) /\ t.step = "ended" /\ t.shown = turns[n].shown
           /\ parts' = parts /\ liveChat' = 0
      BY <1>7, GivesUpMoves
    <2>2. QED
      BY <1>0, <1>a, <2>1, TurnKeepsAlone
  <1>8. QED
    BY <1>1, <1>2, <1>3, <1>4, <1>5, <1>6, <1>7 DEF TurnStep

(* The record that request r comes to agrees with the parts of AloneInv.   *)
PresentRecord(r, q) ==
    /\ q.step \in {"stop", "wait", "decline", "collect", "append", "apply", "write", "go"} =>
         q.message = LastReply'
    /\ q.step \in {"stop", "wait", "decline", "apply", "write"} =>
         q.before = IF LastReply' = NoMessage THEN NoCards ELSE parts'[LastReply']
    /\ q.step = "start" => LastReply' = r
    /\ q.step \notin Collected => q.results = {}

RestingRecord(q) ==
    liveChat # 0 /\ NothingWritten =>
        /\ q.step \notin Collected =>
             conversations'[liveChat].owed
               = conversations'[liveChat].pending \union conversations'[liveChat].held
        /\ q.step \notin Collected \union {"collect", "go"} =>
             /\ conversations'[liveChat].pending = Waiting(parts'[LastReply'])
             /\ conversations'[liveChat].pending = {} => conversations'[liveChat].held = {}

SendingRecord(q) ==
    q.step \in Collected =>
      /\ liveChat = 0 => q.results = {}
      /\ liveChat # 0 =>
          /\ conversations'[liveChat].pending = {} /\ conversations'[liveChat].held = {}
          /\ conversations'[liveChat].owed = q.results

AnsweringRecord(q) ==
    q.step = "go" /\ liveChat # 0 =>
      /\ q.card \in conversations'[liveChat].pending
      /\ conversations'[liveChat].pending \ {q.card} = Waiting(parts'[q.message])

LEMMA RequestKeepsAlone ==
  ASSUME ChatInv, SoloInv, AloneInv, NEW r \in Asking, NEW q \in ChatRequests,
         RequestBecomes(r, q), NobodyElse(r), PresentRecord(r, q),
         liveChat # 0 => LastReply' # NoMessage \/ q.step = "reply",
         NothingWritten \/ (conversations' = conversations /\ LastReply' = LastReply),
         RestingRecord(q), SendingRecord(q), AnsweringRecord(q)
  PROVE  AloneInv'
  <1>1. asking \in [Asking -> ChatRequests] /\ turns \in Seq(Turns)
    BY DEF ChatInv, ChatTypes
  <1>2. \A s \in Asking : asking'[s] = IF s = r THEN q ELSE asking[s]
    BY <1>1 DEF RequestBecomes
  <1>3. \A s \in Asking : s # r => asking'[s].step \in {"new", "done"} /\ asking'[s].results = {}
    <2>1. \A s \in Asking : s # r => asking[s].step \in {"new", "done"}
      BY DEF NobodyElse, UnderWay
    <2>2. QED
      BY <1>2, <2>1 DEF AloneInv, Present, Collected
  <1>4. asking'[r] = q /\ liveChat' = liveChat
    BY <1>2 DEF RequestBecomes
  <1>5. Len(turns') = Len(turns) /\ \A i \in 1..Len(turns) : Active(i)' <=> Active(i)
    BY DEF RequestBecomes, TurnsAlike, Active
  <1>6. Present'
    <2> SUFFICES ASSUME NEW s \in Asking PROVE
        /\ asking'[s].step \in {"stop", "wait", "decline", "collect", "append", "apply", "write", "go"} =>
             asking'[s].message = LastReply'
        /\ asking'[s].step \in {"stop", "wait", "decline", "apply", "write"} =>
             asking'[s].before = IF LastReply' = NoMessage THEN NoCards ELSE parts'[LastReply']
        /\ asking'[s].step = "start" => LastReply' = s
        /\ asking'[s].step \notin Collected => asking'[s].results = {}
      BY DEF Present
    <2>1. CASE s = r
      BY <1>4, <2>1 DEF PresentRecord
    <2>2. CASE s # r
      BY <1>3, <2>2
    <2>3. QED
      BY <2>1, <2>2
  <1>7. Continued'
    BY <1>4 DEF Continued
  <1>8. Going'
    <2> SUFFICES ASSUME NEW i \in 1..Len(turns), Active(i) PROVE Pursues(i)'
      BY <1>5 DEF Going
    <2>1. conversations' = conversations /\ LastReply' = LastReply /\ liveChat' = liveChat
      BY <1>4 DEF NothingWritten
    <2>2. turns[i].message = LastReply /\ Owes(turns[i], conversations[liveChat])
      BY DEF AloneInv, Going, Pursues
    <2>3. /\ turns'[i].message = turns[i].message
          /\ turns'[i].results = turns[i].results /\ turns'[i].shown = turns[i].shown
          /\ turns'[i].step = turns[i].step /\ turns'[i].calls = turns[i].calls
          /\ turns'[i].proposed = turns[i].proposed
      BY DEF RequestBecomes, TurnsAlike
    <2>4. Owes(turns'[i], conversations[liveChat])
      BY <2>2, <2>3 DEF Owes
    <2>5. QED
      BY <2>1, <2>2, <2>3, <2>4 DEF Pursues
  <1>9. NothingWritten' => NothingWritten
    BY <1>5 DEF NothingWritten
  <1>10. Resting'
    <2>1. NoneAt(Collected)' => q.step \notin Collected
      BY <1>4 DEF NoneAt
    <2>2. NoneAt(Collected \union {"collect", "go"})' => q.step \notin Collected \union {"collect", "go"}
      BY <1>4 DEF NoneAt
    <2>3. QED
      BY <1>4, <1>9, <2>1, <2>2 DEF Resting, RestingRecord
  <1>11. Sending' /\ Answering'
    <2>1. \A s \in Asking : asking'[s].step \in Collected \union {"go"} => s = r
      BY <1>3 DEF Collected
    <2>2. QED
      BY <1>4, <2>1 DEF Sending, Answering, SendingRecord, AnsweringRecord
  <1>12. QED
    BY <1>6, <1>7, <1>8, <1>10, <1>11 DEF AloneInv

(* What AloneInv says of the only request at work.                         *)
LEMMA AloneIs ==
  ASSUME AloneInv, NEW r \in Asking, NobodyElse(r)
  PROVE  /\ liveChat # 0 /\ NothingWritten /\ asking[r].step \notin Collected =>
              conversations[liveChat].owed
                = conversations[liveChat].pending \union conversations[liveChat].held
         /\ liveChat # 0 /\ NothingWritten
            /\ asking[r].step \notin Collected \union {"collect", "go"} =>
              /\ conversations[liveChat].pending = Waiting(parts[LastReply])
              /\ conversations[liveChat].pending = {} => conversations[liveChat].held = {}
         /\ liveChat # 0 /\ asking[r].step # "reply" => LastReply # NoMessage
  <1>1. \A s \in Asking : s # r => asking[s].step \in {"new", "done"}
    BY DEF NobodyElse, UnderWay
  <1>2. asking[r].step \notin Collected => NoneAt(Collected)
    BY <1>1 DEF NoneAt, Collected
  <1>3. asking[r].step \notin Collected \union {"collect", "go"} => NoneAt(Collected \union {"collect", "go"})
    BY <1>1 DEF NoneAt, Collected
  <1>4. asking[r].step # "reply" => ~ \E s \in Asking : asking[s].step = "reply"
    BY <1>1
  <1>5. QED
    BY <1>2, <1>3, <1>4 DEF AloneInv, Resting, Continued

LEMMA QuietAlone ==
  ASSUME ChatInv, SoloInv, AloneInv, Solo, NEW r \in Asking, QuietStep(r)
  PROVE  AloneInv'
  <1>1. PICK q \in ChatRequests :
            RequestBecomes(r, q) /\ SoundRequest(q) /\ Unmoved /\ QuietForm(r, q)
    BY QuietMoves
  <1>2. NobodyElse(r) /\ asking[r].step # "done"
    BY <1>1, NobodyElseWorks
       DEF QuietForm, Answers, Reads, Waits, Declines, GoesToAppend, Picks, Finds, Applies,
           Cancels, At, UnderWay
  <1>3. /\ LastReply' = LastReply /\ parts' = parts /\ conversations' = conversations
    BY <1>1 DEF Unmoved, LastReply
  <1>4. asking[r].step \in {"decline", "collect", "read", "apply", "write", "go"} => NothingWritten
    BY DEF SoloInv, OneAtWork, NothingWritten, Quietly
  <1>5. asking[r].step \in {"collect", "go"} => asking[r].conv = liveChat
    BY DEF SoloInv, OneAtWork, Remembering
  <1>6. asking[r].step = "go" => asking[r].card \in conversations[liveChat].pending \/ liveChat = 0
    BY DEF AloneInv, Answering
  <1>7. /\ asking[r].step \in {"stop", "wait", "decline", "collect", "append", "apply", "write", "go"} =>
             asking[r].message = LastReply
        /\ asking[r].step \in {"stop", "wait", "decline", "apply", "write"} =>
             asking[r].before = IF LastReply = NoMessage THEN NoCards ELSE parts[LastReply]
        /\ asking[r].step \notin Collected => asking[r].results = {}
    BY DEF AloneInv, Present
  <1>8. asking[r].step \notin Collected
    BY <1>1 DEF QuietForm, Answers, Reads, Waits, Declines, GoesToAppend, Picks, Finds, Applies,
           Cancels, At, MayBegin, IsNext, Collected
  <1>9. asking[r].step \in {"collect", "go"} => liveChat = 0
    BY <1>1, <1>5, <1>6, NewTypes
       DEF QuietForm, Answers, Reads, Waits, Declines, GoesToAppend, Picks, Finds, Applies,
           Cancels, At, MayBegin, IsNext, SameRequest
  <1>10. PresentRecord(r, q)
    BY <1>1, <1>3, <1>7, <1>8, NewTypes
       DEF QuietForm, Reads, Waits, Declines, GoesToAppend, Picks, Finds, Applies,
           Cancels, At, MayBegin, IsNext, SameRequest, PresentRecord, Collected
  <1>11. q.step # "append" => q.step \notin Collected \union {"go", "collect"}
    BY <1>1, NewTypes
       DEF QuietForm, Reads, Waits, Declines, GoesToAppend, Picks, Finds, Applies,
           Cancels, Collected
  <1>12. RestingRecord(q)
    BY <1>2, <1>3, <1>8, <1>9, AloneIs DEF RestingRecord
  <1>13. SendingRecord(q)
    <2> SUFFICES ASSUME q.step = "append" PROVE SendingRecord(q)
      BY <1>11 DEF SendingRecord
    <2>1. GoesToAppend(r, q)
      BY <1>1, NewTypes
         DEF QuietForm, Reads, Waits, Declines, Picks, Finds, Applies, Cancels
    <2>2. q.results = {}
      BY <1>7, <1>8, <2>1 DEF GoesToAppend
    <2>3. CASE liveChat = 0
      BY <2>2, <2>3 DEF SendingRecord
    <2>4. CASE liveChat # 0
      <3>1. asking[r].step = "decline" /\ Waiting(asking[r].before) = {}
        BY <1>9, <2>1, <2>4 DEF GoesToAppend, At
      <3>2. LastReply # NoMessage /\ asking[r].before = parts[LastReply] /\ NothingWritten
        BY <1>2, <1>4, <1>7, <2>4, <3>1, AloneIs
      <3>3. /\ conversations[liveChat].pending = Waiting(parts[LastReply])
            /\ conversations[liveChat].pending = {} => conversations[liveChat].held = {}
            /\ conversations[liveChat].owed
                = conversations[liveChat].pending \union conversations[liveChat].held
        BY <1>2, <1>8, <2>4, <3>1, <3>2, AloneIs
      <3>4. QED
        BY <1>3, <2>2, <2>4, <3>1, <3>2, <3>3 DEF SendingRecord
    <2>5. QED
      BY <2>3, <2>4
  <1>14. AnsweringRecord(q)
    BY <1>11 DEF AnsweringRecord
  <1>15. liveChat # 0 => LastReply' # NoMessage
    BY <1>2, <1>3, <1>8, AloneIs DEF Collected
  <1>16. QED
    BY <1>1, <1>2, <1>3, <1>10, <1>12, <1>13, <1>14, <1>15, RequestKeepsAlone

LEMMA LastLine ==
  ASSUME ChatInv, NEW who \in {"user", "assistant"}, NEW r \in Asking,
         transcript' = Append(transcript, [role |-> who, of |-> r])
  PROVE  LastReply' = IF who = "assistant" THEN r ELSE NoMessage
  <1> DEFINE x == [role |-> who, of |-> r]
  <1>1. transcript \in Seq(Lines)
    BY DEF ChatInv, ChatTypes
  <1>2. x \in Lines /\ x.role = who /\ x.of = r
    BY ChatNumbers DEF Lines
  <1> HIDE DEF x
  <1>3. transcript' = Append(transcript, x)
    BY DEF x
  <1>4. transcript' # <<>> /\ transcript'[Len(transcript')] = x
    BY <1>1, <1>2, <1>3
  <1>5. QED
    BY <1>2, <1>4 DEF LastReply

LEMMA LoudAlone ==
  ASSUME ChatInv, SoloInv, AloneInv, Solo, NEW r \in Asking, LoudStep(r)
  PROVE  AloneInv'
  <1> USE DEF At
  <1>1. PICK q \in ChatRequests : RequestBecomes(r, q) /\ SoundRequest(q) /\ LoudForm(r, q)
    BY LoudMoves
  <1>2. NobodyElse(r)
    BY <1>1, NobodyElseWorks
       DEF LoudForm, Withdraws, Collects, Says, Writes, GoesOnWaiting, UnderWay
  <1>3. NothingWritten
    BY <1>1 DEF LoudForm, Withdraws, Collects, Says, Writes, GoesOnWaiting,
                SoloInv, OneAtWork, NothingWritten, Quietly
  <1>4. asking[r].step \in {"collect", "write", "go"} => asking[r].conv = liveChat
    BY DEF SoloInv, OneAtWork, Remembering
  <1>5. /\ asking[r].step \in {"stop", "wait", "decline", "collect", "append", "apply", "write", "go"} =>
             asking[r].message = LastReply
        /\ asking[r].step \in {"stop", "wait", "decline", "apply", "write"} =>
             asking[r].before = IF LastReply = NoMessage THEN NoCards ELSE parts[LastReply]
        /\ asking[r].step \notin Collected => asking[r].results = {}
    BY DEF AloneInv, Present
  <1>6. liveChat # 0 => /\ liveChat \in 1..Len(conversations)
                        /\ conversations[liveChat] \in Conversations
                        /\ conversations'[liveChat].owed = conversations[liveChat].owed
    BY <1>1, AskingIs DEF RequestBecomes, ConversationsAlike, ChatInv, ChatTypes
  <1>7. ASSUME PresentRecord(r, q), liveChat # 0 => LastReply' # NoMessage \/ q.step = "reply",
               RestingRecord(q), SendingRecord(q), AnsweringRecord(q)
        PROVE  AloneInv'
    BY <1>1, <1>2, <1>3, <1>7, RequestKeepsAlone
  <1>8. CASE Withdraws(r, q)
    <2>1. LastReply' = LastReply /\ conversations' = conversations
      BY <1>8 DEF Withdraws, LastReply
    <2>2. PresentRecord(r, q)
      BY <1>5, <1>8, <2>1 DEF Withdraws, SameRequest, PresentRecord, Collected
    <2>3. RestingRecord(q)
      BY <1>2, <1>8, <2>1, AloneIs DEF Withdraws, RestingRecord, Collected
    <2>4. SendingRecord(q) /\ AnsweringRecord(q)
      BY <1>8 DEF Withdraws, SendingRecord, AnsweringRecord, Collected
    <2>5. liveChat # 0 => LastReply' # NoMessage
      BY <1>2, <1>8, <2>1, AloneIs DEF Withdraws
    <2>6. QED
      BY <1>7, <2>2, <2>3, <2>4, <2>5
  <1>9. CASE Collects(r, q)
    <2>1. LastReply' = LastReply /\ liveChat # 0 /\ asking[r].conv = liveChat
      BY <1>4, <1>9 DEF Collects, LastReply
    <2>2. PresentRecord(r, q)
      BY <1>5, <1>9, <2>1 DEF Collects, SameRequest, PresentRecord, Collected
    <2>3. conversations[liveChat].owed
            = conversations[liveChat].pending \union conversations[liveChat].held
      BY <1>2, <1>3, <1>9, <2>1, AloneIs DEF Collects, Collected
    <2>4. q.results = conversations'[liveChat].owed
      BY <1>6, <1>9, <2>1, <2>3 DEF Collects, Owing
    <2>5. SendingRecord(q) /\ RestingRecord(q) /\ AnsweringRecord(q)
      BY <1>9, <2>1, <2>4 DEF Collects, SendingRecord, RestingRecord, AnsweringRecord, Collected
    <2>6. LastReply' # NoMessage
      BY <1>2, <1>9, <2>1, AloneIs DEF Collects
    <2>7. QED
      BY <1>7, <2>2, <2>5, <2>6
  <1>10. CASE Says(r, q)
    <2>1. asking[r].step \in Collected /\ q.step \in Collected /\ q.step \in {"reply", "start"}
          /\ q.results = asking[r].results /\ conversations' = conversations
      BY <1>10 DEF Says, Collected
    <2>2. /\ q.step = "start" => LastReply' = r
          /\ q.step # "reply" => LastReply' # NoMessage
      <3>1. q.step = "start" => transcript' = Append(transcript, [role |-> "assistant", of |-> r])
        BY <1>10 DEF Says
      <3>2. q.step = "start" => LastReply' = r
        BY <3>1, LastLine
      <3>3. r # NoMessage
        BY ChatNumbers DEF NoMessage
      <3>4. QED
        BY <2>1, <3>2, <3>3
    <2>3. PresentRecord(r, q)
      BY <2>1, <2>2 DEF PresentRecord
    <2>4. SendingRecord(q)
      BY <2>1 DEF AloneInv, Sending, SendingRecord
    <2>5. RestingRecord(q) /\ AnsweringRecord(q)
      BY <2>1 DEF RestingRecord, AnsweringRecord
    <2>6. QED
      BY <1>7, <2>2, <2>3, <2>4, <2>5
  <1>11. CASE Writes(r, q)
    <2>1. /\ LastReply' = LastReply /\ conversations' = conversations
          /\ asking[r].step = "write" /\ q.step = "go" /\ q.message = LastReply
          /\ q.card = asking[r].card /\ q.results = {}
      BY <1>5, <1>11 DEF Writes, LastReply, SameRequest, Collected
    <2>2. PresentRecord(r, q)
      BY <2>1 DEF PresentRecord, Collected
    <2>3. RestingRecord(q)
      BY <1>2, <2>1, AloneIs DEF RestingRecord, Collected
    <2>4. SendingRecord(q)
      BY <2>1 DEF SendingRecord, Collected
    <2>5. LastReply # NoMessage
      BY <1>5, <2>1 DEF ChatInv, ChatBound
    <2>6. AnsweringRecord(q)
      <3> SUFFICES ASSUME liveChat # 0
                   PROVE  /\ q.card \in conversations[liveChat].pending
                          /\ conversations[liveChat].pending \ {q.card} = Waiting(parts'[q.message])
        BY <2>1 DEF AnsweringRecord
      <3>1. conversations[liveChat].pending = Waiting(parts[LastReply])
        BY <1>2, <1>3, <2>1, AloneIs DEF Collected
      <3>2. asking[r].before = parts[LastReply] /\ asking[r].before[asking[r].card] = "pending"
        BY <1>5, <2>1, <2>5 DEF SoloInv, Known
      <3>3. asking[r].card \in Cards /\ asking[r].choice # "pending"
        BY AskingIs, RequestFields DEF Choices
      <3>4. parts'[LastReply] = Decided(r)
        <4>1. LastReply \in Messages /\ parts \in [Messages -> ShownParts]
          BY <2>5, LastReplyIs DEF ChatInv, ChatTypes
        <4>2. parts' = [parts EXCEPT ![LastReply] = Decided(r)]
          BY <1>5, <1>11, <2>1 DEF Writes
        <4>3. QED
          BY <4>1, <4>2
      <3>5. \A k \in Cards : Decided(r)[k] = IF k = asking[r].card THEN asking[r].choice
                                             ELSE asking[r].before[k]
        BY DecidedShows
      <3>6. QED
        BY <2>1, <3>1, <3>2, <3>3, <3>4, <3>5 DEF Waiting
    <2>7. QED
      BY <1>7, <2>1, <2>2, <2>3, <2>4, <2>5, <2>6
  <1>12. CASE GoesOnWaiting(r, q)
    <2>1. /\ LastReply' = LastReply /\ parts' = parts /\ q.step = "done" /\ q.results = {}
          /\ liveChat # 0 /\ asking[r].step = "go" /\ asking[r].conv = liveChat
      BY <1>4, <1>12, NewTypes DEF GoesOnWaiting, LastReply
    <2>2. PresentRecord(r, q) /\ SendingRecord(q) /\ AnsweringRecord(q)
      BY <2>1 DEF PresentRecord, SendingRecord, AnsweringRecord, Collected
    <2>3. /\ conversations'[liveChat].pending = Left(r) /\ Left(r) # {}
          /\ conversations'[liveChat].held = conversations[liveChat].held \union {asking[r].card}
          /\ asking[r].card \in conversations[liveChat].pending
          /\ Left(r) = conversations[liveChat].pending \ {asking[r].card}
      BY <1>12, <2>1 DEF GoesOnWaiting, Left
    <2>4. conversations[liveChat].owed
            = conversations[liveChat].pending \union conversations[liveChat].held
      BY <1>2, <1>3, <2>1, AloneIs DEF Collected
    <2>5. Left(r) = Waiting(parts[LastReply])
      BY <1>5, <2>1, <2>3 DEF AloneInv, Answering
    <2>6. RestingRecord(q)
      BY <1>6, <2>1, <2>3, <2>4, <2>5 DEF RestingRecord
    <2>7. LastReply' # NoMessage
      BY <1>2, <2>1, AloneIs
    <2>8. QED
      BY <1>7, <2>2, <2>6, <2>7
  <1>13. QED
    BY <1>1, <1>8, <1>9, <1>10, <1>11, <1>12 DEF LoudForm

LEMMA BeginsAlone ==
  ASSUME ChatInv, SoloInv, AloneInv, NEW r \in Asking, NEW c \in Nat, NEW m \in Messages,
         NEW results \in CardSets, NEW shown \in ShownParts,
         TurnBegins(r, c, m, results, shown), liveChat' = c,
         NobodyElse(r), NothingWritten, LastReply = m, Waiting(shown) = {},
         conversations'[c].pending = {}, conversations'[c].held = {},
         conversations'[c].owed = results
  PROVE  AloneInv'
  <1> USE DEF TurnBegins
  <1> DEFINE t == NewTurn(c, m, results, shown)
  <1>1. t \in Turns /\ t.message = m /\ t.shown = shown /\ t.step = "ask" /\ t.results = results
        /\ t.proposed = {}
    BY NewTurnType
  <1> HIDE DEF t
  <1>2. turns \in Seq(Turns) /\ Len(turns) \in Nat /\ turns' = Append(turns, t)
    BY DEF t, ChatInv, ChatTypes
  <1>3. /\ Len(turns') = Len(turns) + 1 /\ turns'[Len(turns) + 1] = t
        /\ \A i \in 1..Len(turns) : turns'[i] = turns[i]
        /\ 1..Len(turns') = 1..Len(turns) \union {Len(turns) + 1}
    BY <1>1, <1>2, TurnAdded
  <1>4. asking \in [Asking -> ChatRequests] /\ Answered.step = "done" /\ Answered.results = {}
    BY NewTypes DEF ChatInv, ChatTypes
  <1>5. \A s \in Asking : asking'[s].step \in {"new", "done"} /\ asking'[s].results = {}
    <2>1. \A s \in Asking : s # r => asking[s].step \in {"new", "done"} /\ asking[s].results = {}
      BY DEF NobodyElse, UnderWay, AloneInv, Present, Collected
    <2>2. QED
      BY <1>4, <2>1
  <1>6. LastReply' = m /\ m # NoMessage
    BY ChatNumbers DEF LastReply, NoMessage
  <1>7. \A i \in 1..Len(turns) : ~Active(i)'
    BY <1>3 DEF NothingWritten, Active
  <1>8. ~NothingWritten'
    <2>1. PICK n : n = Len(turns) + 1
      OBVIOUS
    <2>2. n \in 1..Len(turns') /\ turns'[n].step # "ended"
      BY <1>1, <1>2, <1>3, <2>1
    <2>3. QED
      BY <2>2 DEF NothingWritten, Active
  <1>9. Present' /\ Sending' /\ Answering'
    BY <1>5 DEF Present, Sending, Answering, Collected
  <1>10. Continued'
    BY <1>6 DEF Continued
  <1>11. Going'
    <2> SUFFICES ASSUME NEW i \in 1..Len(turns'), Active(i)' PROVE Pursues(i)'
      BY DEF Going
    <2>1. turns'[i] = t
      BY <1>3, <1>7
    <2>2. Owes(t, conversations'[c])
      BY <1>1 DEF Owes
    <2>3. QED
      BY <1>1, <1>6, <2>1, <2>2 DEF Pursues
  <1>12. Resting'
    BY <1>8 DEF Resting
  <1>13. QED
    BY <1>9, <1>10, <1>11, <1>12 DEF AloneInv

LEMMA NewTurnAlone ==
  ASSUME ChatInv, SoloInv, AloneInv, Solo, NEW r \in Asking, SendStarts(r) \/ ActStarts(r)
  PROVE  AloneInv'
  <1>0. asking[r].step \in {"start", "go"}
    BY StartsMoves, GoesOnMoves
  <1>1. NobodyElse(r)
    BY <1>0, NobodyElseWorks DEF UnderWay
  <1>2. NothingWritten
    BY <1>0 DEF SoloInv, OneAtWork, Quietly, NothingWritten
  <1>3. CASE SendStarts(r)
    <2>1. PICK c \in Nat :
            /\ TurnBegins(r, c, r, asking[r].results, NoCards) /\ liveChat' = c
            /\ asking[r].step = "start"
            /\ \/ liveChat = 0 /\ conversations'[c].pending = {} /\ conversations'[c].held = {}
                  /\ conversations'[c].owed = {}
               \/ liveChat # 0 /\ c = liveChat
                  /\ conversations'[c].pending = conversations[c].pending
                  /\ conversations'[c].held = conversations[c].held
                  /\ conversations'[c].owed = conversations[c].owed
      BY <1>3, StartsMoves
    <2>2. asking[r].results \in CardSets /\ NoCards \in ShownParts /\ r \in Messages
      BY AskingIs, RequestFields, NothingShown, ChatNumbers
    <2>3. LastReply = r
      BY <2>1 DEF AloneInv, Present
    <2>4. /\ liveChat = 0 => asking[r].results = {}
          /\ liveChat # 0 =>
              /\ conversations[liveChat].pending = {} /\ conversations[liveChat].held = {}
              /\ conversations[liveChat].owed = asking[r].results
      BY <2>1 DEF AloneInv, Sending, Collected
    <2>5. Waiting(NoCards) = {}
      BY DEF Waiting, NoCards
    <2>6. conversations'[c].pending = {} /\ conversations'[c].held = {}
          /\ conversations'[c].owed = asking[r].results
      BY <2>1, <2>4
    <2>7. QED
      BY <1>1, <1>2, <2>1, <2>2, <2>3, <2>5, <2>6, BeginsAlone
  <1>4. CASE ActStarts(r)
    <2>1. PICK c \in Nat, results \in CardSets :
           /\ c = asking[r].conv
           /\ results = conversations[c].held \union {asking[r].card}
           /\ TurnBegins(r, c, asking[r].message, results, Decided(r))
           /\ liveChat' = liveChat /\ asking[r].step = "go" /\ asking[r].message \in Messages
           /\ conversations'[c].pending = {} /\ conversations'[c].held = {}
           /\ conversations'[c].owed = conversations[c].owed
      BY <1>4, GoesOnMoves
    <2>2. c = liveChat /\ c # 0 /\ parts[asking[r].message] = Decided(r)
      <3>1. asking[r].message # NoMessage
        BY <2>1, ChatNumbers DEF NoMessage
      <3>2. QED
        BY <1>4, <2>1, <3>1 DEF SoloInv, OneAtWork, Remembering, Known, ActStarts
    <2>3. Decided(r) \in ShownParts
      BY DecidedShows
    <2>4. /\ asking[r].card \in conversations[c].pending
          /\ conversations[c].pending \ {asking[r].card} = {}
          /\ conversations[c].pending \ {asking[r].card} = Waiting(parts[asking[r].message])
      BY <1>4, <2>1, <2>2 DEF ActStarts, Left, AloneInv, Answering
    <2>5. conversations[c].owed = conversations[c].pending \union conversations[c].held
      BY <1>1, <1>2, <2>1, <2>2, AloneIs DEF Collected
    <2>6. conversations'[c].owed = results /\ Waiting(Decided(r)) = {}
      BY <2>1, <2>2, <2>4, <2>5
    <2>7. LastReply = asking[r].message
      BY <2>1 DEF AloneInv, Present
    <2>8. QED
      BY <1>1, <1>2, <2>1, <2>2, <2>3, <2>6, <2>7, BeginsAlone
  <1>5. QED
    BY <1>3, <1>4

LEMMA SweptAlone ==
  ASSUME ChatInv, SoloInv, AloneInv, ChatSwept
  PROVE  AloneInv'
  <1>1. NothingWritten
    BY SweptSolo
  <1>2. \A r \in Asking : asking[r].step \in {"new", "done"}
    BY DEF ChatSwept, UnderWay
  <1>3. liveChat' = 0 /\ asking' = asking /\ turns' = turns
        /\ LastReply' = LastReply /\ parts' = parts
    BY DEF ChatSwept, LastReply
  <1>4. Present' /\ Sending' /\ Answering'
    BY <1>2, <1>3 DEF AloneInv, Present, Sending, Answering, Collected
  <1>5. Continued' /\ Resting'
    BY <1>3 DEF Continued, Resting
  <1>6. Going'
    BY <1>1, <1>3 DEF Going, NothingWritten, Active
  <1>7. QED
    BY <1>4, <1>5, <1>6 DEF AloneInv

LEMMA RestartAlone ==
  ASSUME ChatInv, AloneInv, NEW r \in Asking, ChatRestarts(r)
  PROVE  AloneInv'
  <1>1. /\ Len(turns') = Len(turns)
        /\ \A n \in 1..Len(turns) : turns'[n].step = "ended"
        /\ \A s \in Asking : asking'[s] = IF s = r \/ UnderWay(s) THEN Answered ELSE asking[s]
    BY RestartTurns
  <1>2. liveChat' = 0
    BY DEF ChatRestarts
  <1>3. \A s \in Asking : asking'[s].step \in {"new", "done"} /\ asking'[s].results = {}
    BY <1>1, NewTypes DEF UnderWay, AloneInv, Present, Collected
  <1>4. Present' /\ Sending' /\ Answering'
    BY <1>3 DEF Present, Sending, Answering, Collected
  <1>5. Continued' /\ Resting'
    BY <1>2 DEF Continued, Resting
  <1>6. Going'
    BY <1>1 DEF Going, Active
  <1>7. QED
    BY <1>4, <1>5, <1>6 DEF AloneInv

LEMMA AloneBegins == ChatInit => AloneInv
  <1> SUFFICES ASSUME ChatInit PROVE AloneInv
    OBVIOUS
  <1>1. liveChat = 0 /\ turns = <<>>
        /\ \A r \in Asking : asking[r].step = "new" /\ asking[r].results = {}
    BY DEF ChatInit, NewRequest
  <1>2. QED
    BY <1>1 DEF AloneInv, Present, Continued, Going, Resting, Sending, Answering, Collected

LEMMA ChatKeepsAlone ==
  ASSUME ChatInv, SoloInv, AloneInv, meets = {}, [ChatNext]_chatVars
  PROVE  AloneInv'
  <1>0. Solo
    BY DEF Solo
  <1>1. CASE UNCHANGED chatVars
    <2>1. LastReply' = LastReply
      BY <1>1 DEF chatVars, LastReply
    <2>2. QED
      BY <1>1, <2>1 DEF AloneInv, Present, Continued, Going, Pursues, Resting, NoneAt,
         NothingWritten, Sending, Answering, Active, chatVars
  <1>2. CASE ChatSwept
    BY <1>2, SweptAlone
  <1>3. ASSUME NEW n \in 1..Len(turns), TurnStep(n) PROVE AloneInv'
    BY <1>3, TurnStepAlone
  <1>4. ASSUME NEW r \in Asking, QuietStep(r) PROVE AloneInv'
    BY <1>0, <1>4, QuietAlone
  <1>5. ASSUME NEW r \in Asking, LoudStep(r) PROVE AloneInv'
    BY <1>0, <1>5, LoudAlone
  <1>6. ASSUME NEW r \in Asking, SendStarts(r) \/ ActStarts(r) PROVE AloneInv'
    BY <1>0, <1>6, NewTurnAlone
  <1>7. ASSUME NEW r \in Asking, ChatRestarts(r) PROVE AloneInv'
    BY <1>7, RestartAlone
  <1>8. QED
    BY <1>1, <1>2, <1>3, <1>4, <1>5, <1>6, <1>7, StepsOfChat

AloneOrMet == SoloOrMet /\ (meets = {} => AloneInv)

(* What the invariants say of the calls and of a chat at which nobody works. *)
LEMMA AloneAnswers == AloneOrMet => CardsCanBeAnswered
  <1> SUFFICES ASSUME ChatInv, SoloInv, AloneInv PROVE
        /\ EveryCallIsAnswered
        /\ ChatIdle /\ liveChat # 0 =>
            LET c == conversations[liveChat] IN
            /\ LastReply # NoMessage => c.pending = Waiting(parts[LastReply])
            /\ c.owed = c.pending \union c.held
    BY DEF AloneOrMet, SoloOrMet, Solo, CardsCanBeAnswered
  <1>1. EveryCallIsAnswered
    <2> SUFFICES ASSUME NEW n \in 1..Len(turns), turns[n].step = "provider"
                 PROVE  conversations[turns[n].conv].owed = {}
      BY DEF EveryCallIsAnswered
    <2>1. Owes(turns[n], Conv(n))
      BY WhoWrites DEF Active
    <2>2. QED
      BY <2>1 DEF Owes, Conv
  <1>2. ASSUME ChatIdle, liveChat # 0
        PROVE  /\ conversations[liveChat].pending = Waiting(parts[LastReply])
               /\ conversations[liveChat].owed
                    = conversations[liveChat].pending \union conversations[liveChat].held
    <2>1. NothingWritten
      BY <1>2 DEF ChatIdle, NothingWritten, Active
    <2>2. \A r \in Asking : asking[r].step \in {"new", "done"}
      BY <1>2 DEF ChatIdle, UnderWay
    <2>3. NoneAt(Collected) /\ NoneAt(Collected \union {"collect", "go"})
      BY <2>2 DEF NoneAt, Collected
    <2>4. QED
      BY <1>2, <2>1, <2>3 DEF AloneInv, Resting
  <1>3. QED
    BY <1>1, <1>2

(* While no request meets another or a reply that moves, the provider is   *)
(* asked only when every call has its result, and the cards of the last    *)
(* reply are just those that the conversation in memory waits for.         *)
THEOREM CardsAreAnswerable == ChatSpec => []CardsCanBeAnswered
  <1>1. ChatInit => (meets = {} => AloneInv)
    BY AloneBegins
  <1>2. SoloOrMet /\ (meets = {} => AloneInv) /\ [ChatNext]_chatVars
          => (meets = {} => AloneInv)'
    <2> SUFFICES ASSUME SoloOrMet, meets = {} => AloneInv, [ChatNext]_chatVars, meets' = {}
                 PROVE  AloneInv'
      OBVIOUS
    <2>1. meets = {}
      BY MeetsStays
    <2>2. SoloInv
      BY <2>1 DEF SoloOrMet, Solo
    <2>3. QED
      BY <2>1, <2>2, ChatKeepsAlone DEF SoloOrMet
  <1>3. ChatSpec => [](meets = {} => AloneInv)
    BY <1>1, <1>2, SoloHolds, PTL DEF ChatSpec
  <1>4. QED
    BY <1>3, SoloHolds, AloneAnswers, PTL DEF AloneOrMet

-----------------------------------------------------------------------------
(***************************************************************************)
(* The listener.  Which connections may be open follows from what is being *)
(* established: the one of last time until it is closed, none while the    *)
(* next one connects, and then that one.  Once stop has closed the current *)
(* one, only what is still being established may be open, and stop waits   *)
(* for that.                                                               *)
(***************************************************************************)
OnlyOneOpen ==
    /\ client # 0 => closing = 0 /\ phase = "started"
    /\ establishing = "no" => open \subseteq {client, closing}
    /\ establishing = "close" => client = 0 /\ open \subseteq {closing}
    /\ establishing = "connect" => open = {} /\ created > 0
    /\ establishing \in {"listen", "end", "failed"} => open \subseteq {created}

StopEndsIt ==
    /\ phase = "new" => establishing = "no" /\ closing = 0 /\ ~retry
    /\ phase # "started" => ~timer
    /\ phase = "started" /\ closing # 0 => establishing = "close"
    /\ establishing \in {"connect", "listen"} /\ phase = "started" => client = created
    /\ establishing \in {"connect", "listen"} /\ phase = "closing" => closing = created
    /\ establishing = "listen" /\ phase = "connecting" => open = {}
    /\ establishing = "end" => phase # "started"
    /\ establishing = "no" /\ phase \in {"connecting", "draining", "stopped"} => open = {}
    /\ phase \in {"draining", "stopped"} => establishing = "no"
    /\ phase = "stopped" => payloads = 0 /\ ~handling

ListenerInv ==
    /\ ListenerTypeOK /\ payloads <= arrived
    /\ OnlyOneOpen /\ StopEndsIt

LEMMA ListenerBegins == ListenerInit => ListenerInv
  <1> SUFFICES ASSUME ListenerInit PROVE ListenerInv
    OBVIOUS
  <1>1. ListenerTypeOK /\ payloads <= arrived
    <2>1. open \subseteq 1..created /\ client \in 0..created /\ closing \in 0..created
      BY DEF ListenerInit
    <2>2. /\ payloads \in 0..MaxPayloads /\ arrived \in 0..MaxPayloads /\ breaks \in 0..MaxBreaks
          /\ payloads <= arrived
      BY ListenerBounds DEF ListenerInit
    <2> QED  BY <2>1, <2>2 DEF ListenerInit, ListenerTypeOK
  <1>2. OnlyOneOpen /\ StopEndsIt
    BY DEF ListenerInit, OnlyOneOpen, StopEndsIt
  <1> QED  BY <1>1, <1>2 DEF ListenerInv

(* Steps of the connection, of its retries, of announcements and of stop.  *)
LEMMA ConnectionKeeps ==
    ASSUME ListenerInv,
           PreviousClosed \/ Connected \/ Listened \/ ConnectRejects \/ NewOneEnded \/ Breaks
    PROVE  ListenerInv'
  <1> USE ListenerBounds
  <1>1. CASE PreviousClosed
    BY <1>1 DEF PreviousClosed, Creates, StoppedListening, ListenerInv, ListenerTypeOK,
                OnlyOneOpen, StopEndsIt
  <1>2. CASE Connected
    <2>1. ListenerTypeOK' /\ payloads' <= arrived'
      BY <1>2 DEF Connected, StoppedListening, ListenerInv, ListenerTypeOK, OnlyOneOpen
    <2>2. OnlyOneOpen'
      BY <1>2 DEF Connected, StoppedListening, ListenerInv, ListenerTypeOK, OnlyOneOpen, StopEndsIt
    <2>3. StopEndsIt'
      BY <1>2 DEF Connected, StoppedListening, ListenerInv, ListenerTypeOK, OnlyOneOpen, StopEndsIt
    <2> QED  BY <2>1, <2>2, <2>3 DEF ListenerInv
  <1>6. CASE Listened
    <2>1. ListenerTypeOK' /\ payloads' <= arrived'
      BY <1>6 DEF Listened, StoppedListening, ListenerInv, ListenerTypeOK
    <2>2. OnlyOneOpen'
      BY <1>6 DEF Listened, StoppedListening, ListenerInv, ListenerTypeOK, OnlyOneOpen, StopEndsIt
    <2>3. StopEndsIt'
      BY <1>6 DEF Listened, StoppedListening, ListenerInv, ListenerTypeOK, OnlyOneOpen, StopEndsIt
    <2> QED  BY <2>1, <2>2, <2>3 DEF ListenerInv
  <1>3. CASE ConnectRejects
    BY <1>3 DEF ConnectRejects, ListenerInv, ListenerTypeOK, OnlyOneOpen, StopEndsIt
  <1>4. CASE NewOneEnded
    BY <1>4 DEF NewOneEnded, Schedules, StoppedListening, ListenerInv, ListenerTypeOK,
                OnlyOneOpen, StopEndsIt
  <1>5. CASE Breaks
    <2>1. ListenerTypeOK' /\ payloads' <= arrived'
      <3>1. breaks' \in 0..MaxBreaks
        BY <1>5 DEF Breaks, ListenerInv, ListenerTypeOK
      <3>2. open' \subseteq 1..created
        BY <1>5 DEF Breaks, ListenerInv, ListenerTypeOK
      <3>3. reconnectPending' \in BOOLEAN /\ timer' \in BOOLEAN
        BY <1>5 DEF Breaks, Schedules, ListenerInv, ListenerTypeOK
      <3> QED  BY <1>5, <3>1, <3>2, <3>3 DEF Breaks, ListenerInv, ListenerTypeOK
    <2>2. OnlyOneOpen'
      BY <1>5 DEF Breaks, Schedules, StoppedListening, ListenerInv, ListenerTypeOK, OnlyOneOpen, StopEndsIt
    <2>3. StopEndsIt'
      BY <1>5 DEF Breaks, Schedules, StoppedListening, ListenerInv, ListenerTypeOK, OnlyOneOpen, StopEndsIt
    <2> QED  BY <2>1, <2>2, <2>3 DEF ListenerInv
  <1> QED  BY <1>1, <1>2, <1>3, <1>4, <1>5, <1>6

LEMMA RetriesKeep ==
    ASSUME ListenerInv, ListenerStarts \/ TimerFires \/ RetryConnects
    PROVE  ListenerInv'
  <1> USE ListenerBounds
  <1>1. CASE ListenerStarts
    BY <1>1 DEF ListenerStarts, Establishes, Creates, StoppedListening, ListenerInv,
                ListenerTypeOK, OnlyOneOpen, StopEndsIt
  <1>2. CASE TimerFires
    BY <1>2 DEF TimerFires, StoppedListening, ListenerInv, ListenerTypeOK, OnlyOneOpen, StopEndsIt
  <1>3. CASE RetryConnects
    <2>1. ListenerTypeOK' /\ payloads' <= arrived'
      <3>1. /\ created \in Nat /\ client \in 0..created /\ closing \in 0..created
        BY DEF ListenerInv, ListenerTypeOK
      <3>2. /\ created' \in Nat /\ created' >= created
            /\ client' \in 0..created' /\ closing' \in 0..created'
            /\ establishing' \in {"no", "close", "connect"}
        <4>1. CASE StoppedListening
          BY <1>3, <3>1, <4>1 DEF RetryConnects
        <4>2. CASE ~StoppedListening /\ client = 0
          <5>1. /\ created' = created + 1 /\ client' = created + 1 /\ closing' = closing
                /\ establishing' = "connect"
            BY <1>3, <4>2 DEF RetryConnects, Establishes, Creates
          <5> QED  BY <3>1, <5>1
        <4>3. CASE ~StoppedListening /\ client # 0
          <5>1. /\ created' = created /\ client' = 0 /\ closing' = client
                /\ establishing' = "close"
            BY <1>3, <4>3 DEF RetryConnects, Establishes
          <5> QED  BY <3>1, <5>1
        <4> QED  BY <4>1, <4>2, <4>3
      <3>3. open' \subseteq 1..created'
        BY <1>3, <3>2 DEF RetryConnects, ListenerInv, ListenerTypeOK
      <3>4. reconnectPending' \in BOOLEAN
        BY <1>3 DEF RetryConnects, ListenerInv, ListenerTypeOK
      <3> QED  BY <1>3, <3>2, <3>3, <3>4 DEF RetryConnects, ListenerInv, ListenerTypeOK
    <2>2. OnlyOneOpen'
      BY <1>3 DEF RetryConnects, Establishes, Creates, StoppedListening, ListenerInv, ListenerTypeOK, OnlyOneOpen, StopEndsIt
    <2>3. StopEndsIt'
      BY <1>3 DEF RetryConnects, Establishes, Creates, StoppedListening, ListenerInv, ListenerTypeOK, OnlyOneOpen, StopEndsIt
    <2> QED  BY <2>1, <2>2, <2>3 DEF ListenerInv
  <1> QED  BY <1>1, <1>2, <1>3

LEMMA PayloadsKeep ==
    ASSUME ListenerInv, PayloadArrives \/ PayloadTaken \/ PayloadHandled
    PROVE  ListenerInv'
  <1> USE ListenerBounds
  <1>1. CASE PayloadArrives
    <2>1. ListenerTypeOK' /\ payloads' <= arrived'
      BY <1>1 DEF PayloadArrives, StoppedListening, ListenerInv, ListenerTypeOK
    <2>2. OnlyOneOpen'
      BY <1>1 DEF PayloadArrives, StoppedListening, ListenerInv, ListenerTypeOK, OnlyOneOpen, StopEndsIt
    <2>3. StopEndsIt'
      BY <1>1 DEF PayloadArrives, StoppedListening, ListenerInv, ListenerTypeOK, OnlyOneOpen, StopEndsIt
    <2> QED  BY <2>1, <2>2, <2>3 DEF ListenerInv
  <1>2. CASE PayloadTaken
    <2>1. ListenerTypeOK' /\ payloads' <= arrived'
      BY <1>2 DEF PayloadTaken, StoppedListening, ListenerInv, ListenerTypeOK
    <2>2. OnlyOneOpen'
      BY <1>2 DEF PayloadTaken, StoppedListening, ListenerInv, ListenerTypeOK, OnlyOneOpen, StopEndsIt
    <2>3. StopEndsIt'
      BY <1>2 DEF PayloadTaken, StoppedListening, ListenerInv, ListenerTypeOK, OnlyOneOpen, StopEndsIt
    <2> QED  BY <2>1, <2>2, <2>3 DEF ListenerInv
  <1>3. CASE PayloadHandled
    <2>1. ListenerTypeOK' /\ payloads' <= arrived'
      BY <1>3 DEF PayloadHandled, ListenerInv, ListenerTypeOK
    <2>2. OnlyOneOpen'
      BY <1>3 DEF PayloadHandled, ListenerInv, ListenerTypeOK, OnlyOneOpen, StopEndsIt
    <2>3. StopEndsIt'
      BY <1>3 DEF PayloadHandled, ListenerInv, ListenerTypeOK, OnlyOneOpen, StopEndsIt
    <2> QED  BY <2>1, <2>2, <2>3 DEF ListenerInv
  <1> QED  BY <1>1, <1>2, <1>3

LEMMA StopKeeps ==
    ASSUME ListenerInv, StopBegins \/ StopCloses \/ StopWaits \/ StopReturns
    PROVE  ListenerInv'
  <1> USE ListenerBounds
  <1>1. CASE StopBegins
    BY <1>1 DEF StopBegins, ListenerInv, ListenerTypeOK, OnlyOneOpen, StopEndsIt
  <1>2. CASE StopCloses
    BY <1>2 DEF StopCloses, ListenerInv, ListenerTypeOK, OnlyOneOpen, StopEndsIt
  <1>3. CASE StopWaits
    <2>1. ListenerTypeOK' /\ payloads' <= arrived'
      BY <1>3 DEF StopWaits, ConnectingOver, ListenerInv, ListenerTypeOK
    <2>2. OnlyOneOpen'
      BY <1>3 DEF StopWaits, ConnectingOver, ListenerInv, ListenerTypeOK, OnlyOneOpen, StopEndsIt
    <2>3. StopEndsIt'
      BY <1>3 DEF StopWaits, ConnectingOver, ListenerInv, ListenerTypeOK, OnlyOneOpen, StopEndsIt
    <2> QED  BY <2>1, <2>2, <2>3 DEF ListenerInv
  <1>4. CASE StopReturns
    <2>1. ListenerTypeOK' /\ payloads' <= arrived'
      BY <1>4 DEF StopReturns, ListenerInv, ListenerTypeOK
    <2>2. OnlyOneOpen'
      BY <1>4 DEF StopReturns, ListenerInv, ListenerTypeOK, OnlyOneOpen, StopEndsIt
    <2>3. StopEndsIt'
      BY <1>4 DEF StopReturns, ListenerInv, ListenerTypeOK, OnlyOneOpen, StopEndsIt
    <2> QED  BY <2>1, <2>2, <2>3 DEF ListenerInv
  <1> QED  BY <1>1, <1>2, <1>3, <1>4

LEMMA ListenerInvariance == ListenerSpec => []ListenerInv
  <1>1. ListenerInv /\ [ListenerNext]_listenerVars => ListenerInv'
    <2>1. ASSUME ListenerInv, UNCHANGED listenerVars PROVE ListenerInv'
      BY <2>1 DEF listenerVars, ListenerInv, ListenerTypeOK, OnlyOneOpen, StopEndsIt
    <2> QED  BY <2>1, ConnectionKeeps, RetriesKeep, PayloadsKeep, StopKeeps
             DEF ListenerNext, ListenerWork
  <1> QED  BY <1>1, ListenerBegins, PTL DEF ListenerSpec

(* The listener holds one connection, and none after stop.                 *)
THEOREM OneConnection == ListenerSpec => []OneListener
  <1>1. ListenerInv => OneListener
    <2> SUFFICES ASSUME ListenerInv PROVE OneListener
      OBVIOUS
    <2>1. \E c : open \subseteq {c}
      <3>1. establishing # "no" => open \subseteq {closing} \/ open \subseteq {created}
        BY DEF ListenerInv, ListenerTypeOK, OnlyOneOpen
      <3>2. establishing = "no" => open \subseteq {client} \/ open \subseteq {closing}
        BY DEF ListenerInv, ListenerTypeOK, OnlyOneOpen
      <3> QED  BY <3>1, <3>2
    <2> PICK c : open \subseteq {c}
      BY <2>1
    <2>2. Cardinality(open) <= 1
      <3>1. IsFiniteSet({c}) /\ Cardinality({c}) = 1
        BY FS_Singleton
      <3>2. Cardinality(open) <= Cardinality({c})
        BY <3>1, FS_Subset
      <3> QED  BY <3>1, <3>2
    <2> QED  BY <2>2 DEF ListenerInv, StopEndsIt, OneListener
  <1> QED  BY <1>1, ListenerInvariance, PTL

-----------------------------------------------------------------------------
(***************************************************************************)
(* WebDAV leases.  A request to lock arrives at most once, before anything *)
(* is proved under the lease; so who has the lock has had it since its     *)
(* proof, and meanwhile nothing but its own publication reaches the path.  *)
(***************************************************************************)
LeaseRecords ==
    [step : {"new", "lock", "granted", "unlock", "end", "done"} \union Working,
     proved : {0, NoLease} \union Leases \union Outside,
     renewal : {"none", "asked", "unfit"}, aborted : BOOLEAN]

Locking(l) == <<l, "lock">> \in davRequests

Publishing(l) == <<l, "publish">> \in davRequests

RequestsFit ==
    \A l \in Leases :
        /\ Locking(l) => lease[l].step \in {"lock", "done"} /\ ~Publishing(l)
        /\ Publishing(l) => lease[l].step \in {"sent", "end", "unlock", "done"}

Proved(l) == lease[l].step = "proved" \/ Publishing(l)

ProofsStand ==
    \A l \in Leases :
        Proved(l) =>
            /\ davLock = l => resource = lease[l].proved
            /\ uses[l] # "save" => lease[l].proved = NoLease

LeaseInv == LeaseTypeOK /\ RequestsFit /\ ProofsStand

LEMMA LeasesStart == LeaseInit => LeaseInv
  <1> SUFFICES ASSUME LeaseInit PROVE LeaseInv
    OBVIOUS
  <1>1. lease \in [Leases -> LeaseRecords]
    BY DEF LeaseInit, LeaseRecords
  <1>2. losses \in 0..MaxLosses /\ outside \in 0..MaxOutside
    BY LeaseAssumption DEF LeaseInit
  <1>3. LeaseTypeOK
    BY <1>1, <1>2 DEF LeaseInit, LeaseTypeOK, LeaseRecords
  <1>4. RequestsFit /\ ProofsStand
    BY DEF LeaseInit, RequestsFit, ProofsStand, Proved, Locking, Publishing
  <1> QED  BY <1>3, <1>4 DEF LeaseInv

(* The lease of l changes to step s, with proof p.                          *)
LeaseSteps == {"new", "lock", "granted", "unlock", "end", "done"} \union Working

LeaseBecomes(l, s, p) ==
    /\ lease' \in [Leases -> LeaseRecords]
    /\ lease'[l].step = s /\ lease'[l].proved = p
    /\ \A m \in Leases : m # l => lease'[m] = lease[m]

LEMMA RecordStep ==
    ASSUME NEW x \in LeaseRecords, NEW s \in LeaseSteps
    PROVE  /\ [x EXCEPT !.step = s] \in LeaseRecords
           /\ [x EXCEPT !.step = s].step = s /\ [x EXCEPT !.step = s].proved = x.proved
  BY DEF LeaseRecords, LeaseSteps

LEMMA RecordRenewal ==
    ASSUME NEW x \in LeaseRecords, NEW r \in {"none", "asked", "unfit"}
    PROVE  /\ [x EXCEPT !.renewal = r] \in LeaseRecords
           /\ [x EXCEPT !.renewal = r].step = x.step
           /\ [x EXCEPT !.renewal = r].proved = x.proved
  BY DEF LeaseRecords

LEMMA RecordEnd ==
    ASSUME NEW x \in LeaseRecords, NEW a \in BOOLEAN
    PROVE  /\ [x EXCEPT !.aborted = a] \in LeaseRecords
           /\ [x EXCEPT !.aborted = a].step = x.step
           /\ [x EXCEPT !.aborted = a].proved = x.proved
  BY DEF LeaseRecords

LEMMA RecordProof ==
    ASSUME NEW x \in LeaseRecords, NEW p \in {0, NoLease} \union Leases \union Outside
    PROVE  /\ [x EXCEPT !.proved = p] \in LeaseRecords
           /\ [x EXCEPT !.proved = p].step = x.step
           /\ [x EXCEPT !.proved = p].proved = p
  BY DEF LeaseRecords

LEMMA LeaseReplaced ==
    ASSUME lease \in [Leases -> LeaseRecords], NEW l \in Leases, NEW y \in LeaseRecords,
           lease' = [lease EXCEPT ![l] = y]
    PROVE  LeaseBecomes(l, y.step, y.proved)
  BY DEF LeaseBecomes

(* The changes of leases in the actions are of this form.                  *)
LEMMA LeaseChanges ==
    ASSUME lease \in [Leases -> LeaseRecords], NEW l \in Leases, NEW s \in LeaseSteps,
           NEW a \in BOOLEAN, NEW r \in {"none", "asked", "unfit"},
           NEW p \in {0, NoLease} \union Leases \union Outside
    PROVE  /\ LeaseGoes(l, s) => LeaseBecomes(l, s, lease[l].proved)
           /\ lease' = [lease EXCEPT ![l].renewal = r]
                  => LeaseBecomes(l, lease[l].step, lease[l].proved)
           /\ lease' = [lease EXCEPT ![l].renewal = r, ![l].aborted = a]
                  => LeaseBecomes(l, lease[l].step, lease[l].proved)
           /\ lease' = [lease EXCEPT ![l].step = s, ![l].aborted = a]
                  => LeaseBecomes(l, s, lease[l].proved)
           /\ lease' = [lease EXCEPT ![l].proved = p, ![l].step = s] => LeaseBecomes(l, s, p)
  <1> PICK x : x = lease[l]
    OBVIOUS
  <1>1. x \in LeaseRecords
    OBVIOUS
  <1>2. LeaseGoes(l, s) => lease' = [lease EXCEPT ![l] = [x EXCEPT !.step = s]]
    BY DEF LeaseGoes
  <1>3. lease' = [lease EXCEPT ![l].renewal = r]
            => lease' = [lease EXCEPT ![l] = [x EXCEPT !.renewal = r]]
    OBVIOUS
  <1>4. lease' = [lease EXCEPT ![l].renewal = r, ![l].aborted = a]
            => lease' = [lease EXCEPT ![l] = [x EXCEPT !.renewal = r, !.aborted = a]]
    OBVIOUS
  <1>5. lease' = [lease EXCEPT ![l].step = s, ![l].aborted = a]
            => lease' = [lease EXCEPT ![l] = [x EXCEPT !.step = s, !.aborted = a]]
    OBVIOUS
  <1>6. lease' = [lease EXCEPT ![l].proved = p, ![l].step = s]
            => lease' = [lease EXCEPT ![l] = [x EXCEPT !.proved = p, !.step = s]]
    OBVIOUS
  <1>7. LeaseGoes(l, s) => LeaseBecomes(l, s, x.proved)
    <2> PICK y : y = [x EXCEPT !.step = s]
      OBVIOUS
    <2>1. y \in LeaseRecords /\ y.step = s /\ y.proved = x.proved
      BY <1>1, RecordStep
    <2> QED  BY <1>2, <2>1, LeaseReplaced
  <1>8. lease' = [lease EXCEPT ![l].renewal = r] => LeaseBecomes(l, x.step, x.proved)
    <2> PICK y : y = [x EXCEPT !.renewal = r]
      OBVIOUS
    <2>1. y \in LeaseRecords /\ y.step = x.step /\ y.proved = x.proved
      BY <1>1, RecordRenewal
    <2> QED  BY <1>3, <2>1, LeaseReplaced
  <1>9. lease' = [lease EXCEPT ![l].renewal = r, ![l].aborted = a]
            => LeaseBecomes(l, x.step, x.proved)
    <2> PICK u : u = [x EXCEPT !.renewal = r]
      OBVIOUS
    <2> PICK y : y = [u EXCEPT !.aborted = a]
      OBVIOUS
    <2>1. u \in LeaseRecords /\ u.step = x.step /\ u.proved = x.proved
      BY <1>1, RecordRenewal
    <2>2. y \in LeaseRecords /\ y.step = x.step /\ y.proved = x.proved
      BY <2>1, RecordEnd
    <2>3. y = [x EXCEPT !.renewal = r, !.aborted = a]
      OBVIOUS
    <2>4. lease' = [lease EXCEPT ![l].renewal = r, ![l].aborted = a]
              => lease' = [lease EXCEPT ![l] = y]
      BY <1>4, <2>3
    <2>5. lease' = [lease EXCEPT ![l] = y] => LeaseBecomes(l, y.step, y.proved)
      BY <2>2, LeaseReplaced
    <2> QED  BY <2>2, <2>4, <2>5
  <1>10. lease' = [lease EXCEPT ![l].step = s, ![l].aborted = a] => LeaseBecomes(l, s, x.proved)
    <2> PICK u : u = [x EXCEPT !.step = s]
      OBVIOUS
    <2> PICK y : y = [u EXCEPT !.aborted = a]
      OBVIOUS
    <2>1. u \in LeaseRecords /\ u.step = s /\ u.proved = x.proved
      BY <1>1, RecordStep
    <2>2. y \in LeaseRecords /\ y.step = s /\ y.proved = x.proved
      BY <2>1, RecordEnd
    <2>3. y = [x EXCEPT !.step = s, !.aborted = a]
      OBVIOUS
    <2>4. lease' = [lease EXCEPT ![l].step = s, ![l].aborted = a]
              => lease' = [lease EXCEPT ![l] = y]
      BY <1>5, <2>3
    <2>5. lease' = [lease EXCEPT ![l] = y] => LeaseBecomes(l, y.step, y.proved)
      BY <2>2, LeaseReplaced
    <2> QED  BY <2>2, <2>4, <2>5
  <1>11. lease' = [lease EXCEPT ![l].proved = p, ![l].step = s] => LeaseBecomes(l, s, p)
    <2> PICK u : u = [x EXCEPT !.proved = p]
      OBVIOUS
    <2> PICK y : y = [u EXCEPT !.step = s]
      OBVIOUS
    <2>1. u \in LeaseRecords /\ u.step = x.step /\ u.proved = p
      BY <1>1, RecordProof
    <2>2. y \in LeaseRecords /\ y.step = s /\ y.proved = p
      BY <2>1, RecordStep
    <2>3. y = [x EXCEPT !.proved = p, !.step = s]
      OBVIOUS
    <2>4. lease' = [lease EXCEPT ![l].proved = p, ![l].step = s]
              => lease' = [lease EXCEPT ![l] = y]
      BY <1>6, <2>3
    <2>5. lease' = [lease EXCEPT ![l] = y] => LeaseBecomes(l, y.step, y.proved)
      BY <2>2, LeaseReplaced
    <2> QED  BY <2>2, <2>4, <2>5
  <1> QED  BY <1>7, <1>8, <1>9, <1>10, <1>11

(***************************************************************************)
(* A step in which lease l goes from one step to another keeps the         *)
(* invariant if no request but its own goes or comes, and if the lock and  *)
(* the path change only while l has the lock, nobody has it, or the proof  *)
(* of who has it is untouched.                                             *)
(***************************************************************************)
LEMMA LeaseStepKeeps ==
    ASSUME LeaseInv, NEW l \in Leases, NEW s, NEW p, LeaseBecomes(l, s, p), uses' = uses,
           resource' \in Leases \union {0, NoLease} \union Outside,
           davLock' \in Leases \union {NoLease},
           losses' \in 0..MaxLosses, outside' \in 0..MaxOutside,
           davRequests' \subseteq Leases \X {"lock", "publish"},
           \A m \in Leases : m # l =>
               /\ (Locking(m)' <=> Locking(m)) /\ (Publishing(m)' <=> Publishing(m))
               /\ davLock' = m => davLock = m /\ resource' = resource,
           Locking(l)' => s \in {"lock", "done"} /\ ~Publishing(l)',
           Publishing(l)' => s \in {"sent", "end", "unlock", "done"},
           s = "proved" \/ Publishing(l)' =>
               /\ davLock' = l => resource' = p
               /\ uses[l] # "save" => p = NoLease
    PROVE  LeaseInv'
  <1>1. LeaseTypeOK'
    BY DEF LeaseInv, LeaseTypeOK, LeaseBecomes, LeaseRecords
  <1>2. RequestsFit'
    BY DEF LeaseInv, RequestsFit, LeaseBecomes
  <1>3. ProofsStand'
    BY DEF LeaseInv, ProofsStand, LeaseBecomes, Proved
  <1> QED  BY <1>1, <1>2, <1>3 DEF LeaseInv

(* What the invariant says of one lease.                                   *)
LEMMA LeaseFacts ==
    ASSUME LeaseInv, NEW l \in Leases
    PROVE  /\ lease \in [Leases -> LeaseRecords]
           /\ lease[l].step \in LeaseSteps /\ lease[l].aborted \in BOOLEAN
           /\ lease[l].renewal \in {"none", "asked", "unfit"}
           /\ lease[l].proved \in {0, NoLease} \union Leases \union Outside
           /\ resource \in Leases \union {0, NoLease} \union Outside
           /\ davLock \in Leases \union {NoLease}
           /\ davRequests \subseteq Leases \X {"lock", "publish"}
           /\ losses \in 0..MaxLosses /\ outside \in 0..MaxOutside
           /\ Locking(l) => lease[l].step \in {"lock", "done"} /\ ~Publishing(l)
           /\ Publishing(l) => lease[l].step \in {"sent", "end", "unlock", "done"}
           /\ lease[l].step = "proved" \/ Publishing(l) =>
                  /\ davLock = l => resource = lease[l].proved
                  /\ uses[l] # "save" => lease[l].proved = NoLease
  <1>1. lease \in [Leases -> LeaseRecords]
    BY DEF LeaseInv, LeaseTypeOK, LeaseRecords
  <1>2. /\ lease[l].step \in LeaseSteps /\ lease[l].aborted \in BOOLEAN
        /\ lease[l].renewal \in {"none", "asked", "unfit"}
        /\ lease[l].proved \in {0, NoLease} \union Leases \union Outside
    BY <1>1 DEF LeaseRecords, LeaseSteps
  <1> QED  BY <1>1, <1>2 DEF LeaseInv, LeaseTypeOK, RequestsFit, ProofsStand, Proved

LEMMA LossCounted ==
    ASSUME LeaseInv, Loses \/ losses' = losses
    PROVE  losses' \in 0..MaxLosses
  BY LeaseAssumption DEF LeaseInv, LeaseTypeOK, Loses

(* A lease goes on, and no request leaves or arrives.                      *)
LEMMA LeaseMovesKeep ==
    ASSUME LeaseInv, NEW l \in Leases, NEW s, NEW p, LeaseBecomes(l, s, p),
           UNCHANGED <<uses, resource, davRequests, outside>>,
           davLock' \in {davLock, NoLease}, Loses \/ losses' = losses,
           Locking(l) => s \in {"lock", "done"},
           Publishing(l) => s \in {"sent", "end", "unlock", "done"} /\ p = lease[l].proved,
           s = "proved" =>
               /\ davLock = l => resource = p
               /\ uses[l] # "save" => p = NoLease
    PROVE  LeaseInv'
  <1>1. losses' \in 0..MaxLosses
    BY LossCounted
  <1>2. \A m \in Leases : /\ Locking(m)' <=> Locking(m)
                          /\ Publishing(m)' <=> Publishing(m)
                          /\ davLock' = m => davLock = m
    BY LeaseAssumption DEF Locking, Publishing
  <1> QED  BY <1>1, <1>2, LeaseFacts, LeaseStepKeeps

LEMMA QuietStepsKeep ==
    ASSUME LeaseInv, NEW l \in Leases,
           LeaseBegins(l) \/ LeaseUnfit(l) \/ LockUnanswered(l) \/ PublicationAnswered(l)
               \/ WorkThrows(l) \/ LeaseEnds(l) \/ LeaseUnlocks(l)
    PROVE  LeaseInv'
  <1>1. /\ UNCHANGED <<uses, resource, davRequests, outside>> /\ davLock' \in {davLock, NoLease}
        /\ Loses \/ losses' = losses
    BY DEF LeaseBegins, LeaseUnfit, LockUnanswered, PublicationAnswered, WorkThrows, LeaseEnds,
           LeaseUnlocks, DavUnlocked
  <1>2. PICK s \in LeaseSteps :
            /\ LeaseBecomes(l, s, lease[l].proved)
            /\ Locking(l) => s \in {"lock", "done"}
            /\ Publishing(l) => s \in {"sent", "end", "unlock", "done"}
            /\ s # "proved"
    <2>1. ASSUME NEW s \in LeaseSteps, LeaseGoes(l, s) PROVE LeaseBecomes(l, s, lease[l].proved)
      BY <2>1, LeaseFacts, LeaseChanges
    <2>2. CASE LeaseBegins(l)
      BY <2>1, <2>2, LeaseFacts DEF LeaseBegins, LeaseSteps, Working
    <2>3. CASE LeaseUnfit(l)
      BY <2>1, <2>3, LeaseFacts DEF LeaseUnfit, LeaseSteps
    <2>4. CASE LockUnanswered(l)
      BY <2>1, <2>4, LeaseFacts DEF LockUnanswered, LeaseSteps
    <2>5. CASE PublicationAnswered(l)
      BY <2>1, <2>5, LeaseFacts DEF PublicationAnswered, LeaseSteps
    <2>6. CASE WorkThrows(l)
      BY <2>1, <2>6, LeaseFacts DEF WorkThrows, LeaseSteps, Working
    <2>7. CASE LeaseEnds(l)
      <3>1. LeaseBecomes(l, "unlock", lease[l].proved)
        BY <2>7, LeaseFacts, LeaseChanges DEF LeaseEnds, LeaseSteps
      <3> QED  BY <2>7, <3>1, LeaseFacts DEF LeaseEnds, LeaseSteps
    <2>8. CASE LeaseUnlocks(l)
      BY <2>1, <2>8, LeaseFacts DEF LeaseUnlocks, LeaseSteps
    <2> QED  BY <2>2, <2>3, <2>4, <2>5, <2>6, <2>7, <2>8
  <1> QED  BY <1>1, <1>2, LeaseMovesKeep

(* The interval's renewals.                                                *)
LEMMA RenewalsKeep ==
    ASSUME LeaseInv, NEW l \in Leases, Renews(l) \/ RenewalStep(l)
    PROVE  LeaseInv'
  <1>1. /\ UNCHANGED <<uses, resource, davRequests, outside>> /\ davLock' \in {davLock, NoLease}
        /\ Loses \/ losses' = losses
    BY DEF Renews, RenewalStep, RenewalAnswered, RenewalUnlocks, DavUnlocked
  <1>2. LeaseBecomes(l, lease[l].step, lease[l].proved)
    <2>1. ASSUME NEW r \in {"none", "asked", "unfit"}, lease' = [lease EXCEPT ![l].renewal = r]
          PROVE  LeaseBecomes(l, lease[l].step, lease[l].proved)
      BY <2>1, LeaseFacts, LeaseChanges
    <2>2. ASSUME NEW r \in {"none", "asked", "unfit"}, NEW a \in BOOLEAN,
                 lease' = [lease EXCEPT ![l].renewal = r, ![l].aborted = a]
          PROVE  LeaseBecomes(l, lease[l].step, lease[l].proved)
      BY <2>2, LeaseFacts, LeaseChanges
    <2>3. CASE Renews(l)
      BY <2>1, <2>3 DEF Renews
    <2>4. CASE RenewalAnswered(l)
      <3>1. (lease[l].aborted \/ davLock # l) \in BOOLEAN
        BY LeaseFacts
      <3> QED  BY <2>1, <2>2, <2>4, <3>1 DEF RenewalAnswered
    <2>5. CASE RenewalUnlocks(l)
      BY <2>2, <2>5 DEF RenewalUnlocks
    <2> QED  BY <2>3, <2>4, <2>5 DEF RenewalStep
  <1> QED  BY <1>1, <1>2, LeaseFacts, LeaseMovesKeep

(* The last look before a publication: what is proved is what is there.    *)
LEMMA ProvingKeeps ==
    ASSUME LeaseInv, NEW l \in Leases, LeaseProves(l)
    PROVE  LeaseInv'
  <1> PICK s \in {"proved", "end"} :
          /\ lease' = [lease EXCEPT ![l].proved = resource, ![l].step = s]
          /\ s = "proved" /\ uses[l] # "save" => resource = NoLease
    BY DEF LeaseProves
  <1>1. LeaseBecomes(l, s, resource)
    BY LeaseFacts, LeaseChanges DEF LeaseSteps, Working
  <1>2. ~Locking(l) /\ ~Publishing(l)
    BY LeaseFacts DEF LeaseProves
  <1> QED  BY <1>1, <1>2, LeaseMovesKeep DEF LeaseProves

(* Requests leave, and arrive.                                             *)
LEMMA RequestsLeave ==
    ASSUME LeaseInv, NEW l \in Leases, LeaseAsks(l) \/ LeasePublishes(l)
    PROVE  LeaseInv'
  <1>1. CASE LeaseAsks(l)
    <2>1. LeaseBecomes(l, "lock", lease[l].proved)
      BY <1>1, LeaseFacts, LeaseChanges DEF LeaseAsks, LeaseSteps
    <2>2. ~Publishing(l) /\ ~Publishing(l)'
      BY <1>1, LeaseFacts DEF LeaseAsks, Publishing
    <2>3. davRequests' \subseteq Leases \X {"lock", "publish"}
      BY <1>1, LeaseFacts DEF LeaseAsks
    <2>4. \A m \in Leases : m # l =>
              /\ (Locking(m)' <=> Locking(m)) /\ (Publishing(m)' <=> Publishing(m))
              /\ davLock' = m => davLock = m /\ resource' = resource
      <3>1. davRequests' = davRequests \union {<<l, "lock">>}
        BY <1>1 DEF LeaseAsks
      <3>2. \A m \in Leases : m # l =>
                (Locking(m)' <=> Locking(m)) /\ (Publishing(m)' <=> Publishing(m))
        BY <3>1 DEF Locking, Publishing
      <3> QED  BY <1>1, <3>2 DEF LeaseAsks
    <2>5. /\ UNCHANGED <<uses, losses, outside>>
          /\ resource' \in Leases \union {0, NoLease} \union Outside
          /\ davLock' \in Leases \union {NoLease}
      BY <1>1, LeaseFacts DEF LeaseAsks
    <2> QED  BY <2>1, <2>2, <2>3, <2>4, <2>5, LeaseFacts, LeaseStepKeeps
  <1>2. CASE LeasePublishes(l)
    <2>1. LeaseBecomes(l, "sent", lease[l].proved)
      BY <1>2, LeaseFacts, LeaseChanges DEF LeasePublishes, LeaseSteps, Working
    <2>2. ~Locking(l) /\ ~Locking(l)'
      BY <1>2, LeaseFacts DEF LeasePublishes, Locking
    <2>3. davRequests' \subseteq Leases \X {"lock", "publish"}
      BY <1>2, LeaseFacts DEF LeasePublishes
    <2>4. \A m \in Leases : m # l =>
              /\ (Locking(m)' <=> Locking(m)) /\ (Publishing(m)' <=> Publishing(m))
              /\ davLock' = m => davLock = m /\ resource' = resource
      <3>1. davRequests' = davRequests \union {<<l, "publish">>}
        BY <1>2 DEF LeasePublishes
      <3>2. \A m \in Leases : m # l =>
                (Locking(m)' <=> Locking(m)) /\ (Publishing(m)' <=> Publishing(m))
        BY <3>1 DEF Locking, Publishing
      <3> QED  BY <1>2, <3>2 DEF LeasePublishes
    <2>5. /\ UNCHANGED <<uses, losses, outside>>
          /\ resource' \in Leases \union {0, NoLease} \union Outside
          /\ davLock' \in Leases \union {NoLease}
      BY <1>2, LeaseFacts DEF LeasePublishes
    <2>6. /\ davLock' = l => resource' = lease[l].proved
          /\ uses[l] # "save" => lease[l].proved = NoLease
      BY <1>2, LeaseFacts DEF LeasePublishes
    <2> QED  BY <2>1, <2>2, <2>3, <2>4, <2>5, <2>6, LeaseFacts, LeaseStepKeeps
  <1> QED  BY <1>1, <1>2

LEMMA RequestsArrive ==
    ASSUME LeaseInv, NEW l \in Leases, LockArrives(l) \/ PublicationArrives(l)
    PROVE  LeaseInv'
  <1>1. CASE LockArrives(l)
    <2>1. PICK s \in LeaseSteps :
              LeaseBecomes(l, s, lease[l].proved) /\ s \in {"granted", "done"}
      <3>1. Locking(l) /\ lease[l].step \in {"lock", "done"}
        BY <1>1, LeaseFacts DEF LockArrives, Locking
      <3>2. CASE lease[l].step = "lock"
        BY <1>1, <3>2, LeaseFacts, LeaseChanges DEF LockArrives, LeaseSteps
      <3>3. CASE lease[l].step = "done"
        BY <1>1, <3>3, LeaseFacts DEF LockArrives, LeaseBecomes, LeaseSteps
      <3> QED  BY <3>1, <3>2, <3>3
    <2>2. ~Publishing(l) /\ ~Publishing(l)' /\ ~Locking(l)'
      BY <1>1, LeaseFacts DEF LockArrives, Publishing, Locking
    <2>3. /\ davRequests' \subseteq Leases \X {"lock", "publish"}
          /\ davLock' \in Leases \union {NoLease}
          /\ \A m \in Leases : m # l => (davLock' = m => davLock = m)
      BY <1>1, LeaseFacts, LeaseAssumption DEF LockArrives
    <2>4. \A m \in Leases : m # l =>
              /\ (Locking(m)' <=> Locking(m)) /\ (Publishing(m)' <=> Publishing(m))
              /\ davLock' = m => davLock = m /\ resource' = resource
      <3>1. davRequests' = davRequests \ {<<l, "lock">>}
        BY <1>1 DEF LockArrives
      <3>2. \A m \in Leases : m # l =>
                (Locking(m)' <=> Locking(m)) /\ (Publishing(m)' <=> Publishing(m))
        BY <3>1 DEF Locking, Publishing
      <3> QED  BY <1>1, <2>3, <3>2 DEF LockArrives
    <2>5. /\ UNCHANGED <<uses, losses, outside>>
          /\ resource' \in Leases \union {0, NoLease} \union Outside
          /\ davLock' \in Leases \union {NoLease}
      BY <1>1, <2>3, LeaseFacts DEF LockArrives
    <2> QED  BY <2>1, <2>2, <2>3, <2>4, <2>5, LeaseFacts, LeaseStepKeeps
  <1>2. CASE PublicationArrives(l)
    <2>1. LeaseBecomes(l, lease[l].step, lease[l].proved)
      BY <1>2, LeaseFacts DEF PublicationArrives, LeaseBecomes
    <2>2. /\ Publishing(l) /\ ~Publishing(l)' /\ ~Locking(l)'
          /\ lease[l].step # "proved"
      BY <1>2, LeaseFacts DEF PublicationArrives, Publishing, Locking
    <2>3. /\ davRequests' \subseteq Leases \X {"lock", "publish"}
          /\ resource' \in Leases \union {0, NoLease} \union Outside
          /\ \A m \in Leases : m # l => (davLock' = m => resource' = resource)
      BY <1>2, LeaseFacts, LeaseAssumption DEF PublicationArrives, TokenHolds
    <2>4. \A m \in Leases : m # l =>
              /\ (Locking(m)' <=> Locking(m)) /\ (Publishing(m)' <=> Publishing(m))
              /\ davLock' = m => davLock = m /\ resource' = resource
      <3>1. davRequests' = davRequests \ {<<l, "publish">>}
        BY <1>2 DEF PublicationArrives
      <3>2. \A m \in Leases : m # l =>
                (Locking(m)' <=> Locking(m)) /\ (Publishing(m)' <=> Publishing(m))
        BY <3>1 DEF Locking, Publishing
      <3> QED  BY <1>2, <2>3, <3>2 DEF PublicationArrives
    <2>5. /\ UNCHANGED <<uses, losses, outside>>
          /\ resource' \in Leases \union {0, NoLease} \union Outside
          /\ davLock' \in Leases \union {NoLease}
      BY <1>2, <2>3, LeaseFacts DEF PublicationArrives
    <2> QED  BY <2>1, <2>2, <2>3, <2>4, <2>5, LeaseFacts, LeaseStepKeeps
  <1> QED  BY <1>1, <1>2

LEMMA OutsideCounted ==
    ASSUME LeaseInv, outside < MaxOutside, outside' = outside + 1
    PROVE  outside' \in 1..MaxOutside
  <1>1. MaxOutside \in Nat /\ outside \in 0..MaxOutside
    BY LeaseAssumption DEF LeaseInv, LeaseTypeOK
  <1> QED  BY <1>1

(* The server ends a lock; a client without one writes.                    *)
LEMMA WorldKeeps ==
    ASSUME LeaseInv, OutsideWrites \/ \E l \in Leases : LeaseRunsOut(l)
    PROVE  LeaseInv'
  <1>1. ASSUME NEW l \in Leases, LeaseRunsOut(l) PROVE LeaseInv'
    <2>1. LeaseBecomes(l, lease[l].step, lease[l].proved)
      BY <1>1, LeaseFacts DEF LeaseRunsOut, LeaseBecomes
    <2>2. /\ UNCHANGED <<uses, resource, davRequests, outside>> /\ davLock' \in {davLock, NoLease}
          /\ Loses \/ losses' = losses
      BY <1>1 DEF LeaseRunsOut
    <2> QED  BY <2>1, <2>2, LeaseFacts, LeaseMovesKeep
  <1>2. CASE OutsideWrites
    <2>1. outside' \in 1..MaxOutside /\ resource' \in {outside', NoLease}
      BY <1>2, OutsideCounted DEF OutsideWrites
    <2>2. LeaseTypeOK'
      <3>1. outside' \in 0..MaxOutside /\ resource' \in {NoLease} \union Outside
        BY <2>1 DEF Outside
      <3> QED  BY <1>2, <3>1 DEF OutsideWrites, LeaseInv, LeaseTypeOK
    <2>3. RequestsFit'
      BY <1>2 DEF OutsideWrites, LeaseInv, RequestsFit, Locking, Publishing
    <2>4. ProofsStand'
      BY <1>2, LeaseAssumption DEF OutsideWrites, LeaseInv, ProofsStand, Proved, Publishing
    <2> QED  BY <2>2, <2>3, <2>4 DEF LeaseInv
  <1> QED  BY <1>1, <1>2

LEMMA LeasesStep == LeaseInv /\ [LeaseNext]_leaseVars => LeaseInv'
  <1>1. ASSUME LeaseInv, UNCHANGED leaseVars PROVE LeaseInv'
    BY <1>1 DEF leaseVars, LeaseInv, LeaseTypeOK, RequestsFit, ProofsStand, Proved, Locking,
                Publishing
  <1>2. ASSUME LeaseInv, LeaseNext PROVE LeaseInv'
    BY <1>2, QuietStepsKeep, RenewalsKeep, ProvingKeeps, RequestsLeave, RequestsArrive, WorldKeeps
       DEF LeaseNext, LeaseStep
  <1> QED  BY <1>1, <1>2

LEMMA LeaseInvariance == LeaseSpec => []LeaseInv
  BY LeasesStart, LeasesStep, PTL DEF LeaseSpec

(* The state of the leases, the path and the server keeps its type.        *)
THEOREM LeaseTypes == LeaseSpec => []LeaseTypeOK
  <1>1. LeaseInv => LeaseTypeOK
    BY DEF LeaseInv
  <1> QED  BY <1>1, LeaseInvariance, PTL

(***************************************************************************)
(* A publication replaces what its lease found at the path, whenever its   *)
(* request arrives: past the end of its lease, the lock of another or the  *)
(* write of a client without one, it changes nothing.                      *)
(***************************************************************************)
THEOREM PublicationsReplaceWhatTheyProved == LeaseSpec => ReplacesWhatItProved
  <1>1. ASSUME LeaseInv, LeaseNext, NEW l \in Leases, resource' = l, resource # l
        PROVE  resource = lease[l].proved
    <2>1. PublicationArrives(l)
      <3>1. ~OutsideWrites
        <4> SUFFICES ASSUME OutsideWrites PROVE FALSE
          OBVIOUS
        <4>1. resource' \in 0..MaxOutside \/ resource' = NoLease
          BY <1>1, OutsideCounted DEF OutsideWrites
        <4>2. l \notin 0..MaxOutside /\ l # NoLease
          BY LeaseAssumption
        <4> QED  BY <1>1, <4>1, <4>2
      <3>2. ASSUME NEW m \in Leases, PublicationArrives(m) PROVE m = l
        BY <1>1, <3>2 DEF PublicationArrives
      <3> QED
        BY <1>1, <3>1, <3>2
           DEF LeaseNext, LeaseStep, LeaseAsks, LockArrives, LeaseBegins, LockUnanswered,
               LeaseUnfit, LeaseProves, LeasePublishes, PublicationAnswered, WorkThrows, LeaseEnds,
               LeaseUnlocks, LeaseRunsOut, Renews, RenewalStep, RenewalAnswered, RenewalUnlocks
    <2>2. Publishing(l) /\ TokenHolds(l) /\ (uses[l] = "save" \/ resource = NoLease)
      BY <1>1, <2>1 DEF PublicationArrives, Publishing
    <2>3. CASE davLock = l
      BY <1>1, <2>2, <2>3, LeaseFacts
    <2>4. CASE davLock # l
      BY <1>1, <2>2, <2>4, LeaseFacts DEF TokenHolds
    <2> QED  BY <2>3, <2>4
  <1>2. LeaseInv /\ [LeaseNext]_leaseVars
        => [\A l \in Leases :
               resource' = l /\ resource # l => resource = lease[l].proved]_leaseVars
    BY <1>1
  <1> QED  BY <1>2, LeaseInvariance, PTL DEF LeaseSpec, ReplacesWhatItProved
================================================================================
