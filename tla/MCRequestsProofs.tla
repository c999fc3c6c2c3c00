--------------------------- MODULE MCRequestsProofs --------------------------
(***************************************************************************)
(* The parts of the API that MCRequests checks together, like the services *)
(* in MCServicesProofs: a run of all of them is a run of each.             *)
(***************************************************************************)
EXTENDS MCRequests, RequestProofs, DesktopPublishProofs

(* Each part steps by itself or stands still.                              *)
THEOREM EveryPartBehaves ==
    RequestsSpec => JobSpec /\ Spec /\ LeaseSpec /\ ChatSpec /\ ListenerSpec
  <1>1. RequestsInit => JobInit /\ Init /\ LeaseInit /\ ChatInit /\ ListenerInit
    BY DEF RequestsInit
  <1>2. [RequestsNext]_requestsVars =>
            /\ [JobNext]_jobVars /\ [Next]_vars /\ [LeaseNext]_leaseVars
            /\ [ChatNext]_chatVars /\ [ListenerNext]_listenerVars
    BY DEF RequestsNext, requestsVars
  <1> QED
    BY <1>1, <1>2, PTL DEF RequestsSpec, JobSpec, Spec, LeaseSpec, ChatSpec, ListenerSpec

(***************************************************************************)
(* The state of every part keeps its type, whichever of them moves and     *)
(* whatever the values of the constants.                                   *)
(***************************************************************************)
THEOREM RequestsTypesHold == RequestsSpec => []RequestsTypeOK
  <1>1. /\ JobTypeOK /\ TypeOK /\ LeaseTypeOK /\ ChatTypeOK /\ ListenerTypeOK
        /\ part \in Parts
        => RequestsTypeOK
    BY DEF RequestsTypeOK, Parts
  <1>2. RequestsSpec => [](part \in Parts)
    <2>1. RequestsInit => part \in Parts
      BY DEF RequestsInit
    <2>2. part \in Parts /\ [RequestsNext]_requestsVars => (part \in Parts)'
      BY DEF RequestsNext, requestsVars
    <2> QED  BY <2>1, <2>2, PTL DEF RequestsSpec
  <1>3. ListenerSpec => []ListenerTypeOK
    <2>1. ListenerInv => ListenerTypeOK
      BY DEF ListenerInv
    <2> QED  BY <2>1, ListenerInvariance, PTL DEF ListenerSpec
  <1> QED
    BY <1>1, <1>2, <1>3, EveryPartBehaves, JobTypesHold, TypeCorrectness, LeaseTypes,
       ChatTypesHold, PTL

(***************************************************************************)
(* What each part promises it keeps beside the others: slots are counted   *)
(* and refilled, unsettled jobs are held and announced once durable, jobs  *)
(* are served as a JobService serves them; a commit may be retried; a      *)
(* publication replaces what it proved; cards are decided once and can be  *)
(* answered; and one connection at most listens.                           *)
(***************************************************************************)
THEOREM RequestsKeepTheirPromises ==
    RequestsSpec =>
        /\ [](SlotsMatchRunningJobs /\ NoIdleSlotWhileQueued)
        /\ [](UnsettledJobsAreHeld /\ OnlyLateReportsPrecedeHistory)
        /\ ImplementsJobService
        /\ [](RetryIsSafe /\ CardsCanBeAnswered /\ OneListener)
        /\ ReplacesWhatItProved
        /\ CardsAreFinal
  BY EveryPartBehaves, SlotAccounting, WorkConservation, NoUnsettledJobIsDropped,
     TerminalEventsAreTrue, RunnerIsAJobService, RetrySafety, CardsAreAnswerable,
     OneConnection, PublicationsReplaceWhatTheyProved, DecisionsAreKept, PTL
==============================================================================
