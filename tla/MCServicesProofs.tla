--------------------------- MODULE MCServicesProofs --------------------------
(***************************************************************************)
(* The services that MCServices checks together: a run of all of them is a *)
(* run of each, because they share no state, so what is proved of one      *)
(* alone holds in their company.                                           *)
(***************************************************************************)
EXTENDS MCServices, DatabaseProofs, WorkerProofs

(* No service sees another: each steps by itself or stands still, so it    *)
(* does what it would do alone.                                            *)
THEOREM EveryServiceBehaves ==
    ServicesSpec => /\ TokenSpec /\ LockSpec /\ EffectSpec /\ WopiSpec
                    /\ OcrSpec /\ RuntimeSpec /\ BackupSpec /\ IndexSpec
  <1>1. ServicesInit => /\ TokenInit /\ LockInit /\ EffectInit /\ WopiInit
                        /\ OcrInit /\ RuntimeInit /\ BackupInit /\ IndexInit
    BY DEF ServicesInit
  <1>2. [ServicesNext]_servicesVars =>
            /\ [TokenNext]_tokenVars /\ [LockNext]_lockVars /\ [EffectNext]_effectVars
            /\ [WopiNext]_wopiVars /\ [OcrNext]_ocrVars /\ [RuntimeNext]_runtimeVars
            /\ [BackupNext]_backupVars /\ [IndexNext]_indexVars
    BY DEF ServicesNext, servicesVars
  <1> QED
    BY <1>1, <1>2, PTL
       DEF ServicesSpec, TokenSpec, LockSpec, EffectSpec, WopiSpec, OcrSpec, RuntimeSpec,
           BackupSpec, IndexSpec

(***************************************************************************)
(* The state of every service keeps its type, whichever of them moves and  *)
(* whatever the values of the constants.                                   *)
(***************************************************************************)
THEOREM ServicesTypesHold == ServicesSpec => []ServicesTypeOK
  <1>1. /\ TokenTypeOK /\ LockTypeOK /\ EffectTypeOK /\ WopiTypeOK /\ OcrTypeOK
        /\ RuntimeTypeOK /\ BackupTypeOK /\ IndexTypeOK /\ service \in Services
        => ServicesTypeOK
    BY DEF ServicesTypeOK, Services
  <1>2. ServicesSpec => [](service \in Services)
    <2>1. ServicesInit => service \in Services
      BY DEF ServicesInit
    <2>2. service \in Services /\ [ServicesNext]_servicesVars => (service \in Services)'
      BY DEF ServicesNext, servicesVars
    <2> QED  BY <2>1, <2>2, PTL DEF ServicesSpec
  <1> QED
    BY <1>1, <1>2, EveryServiceBehaves, TokenTypes, LockTypesHold, EffectTypesHold, WopiTypes,
       OcrTypesHold, RuntimeTypes, BackupTypesHold, IndexTypesHold, PTL

(***************************************************************************)
(* Each safety property of the other services holds of them together, with *)
(* nothing assumed of the constants but what their modules do.             *)
(***************************************************************************)
THEOREM ServicesKeepTheirPromises ==
    ServicesSpec =>
        /\ [](RetryIsFresh /\ CacheAgreesWithRow /\ PublishesAlone /\ LeasesAreKept)
        /\ [](EffectsInOrder /\ EventFollowsMetadata /\ OffWithinWindow)
        /\ [](CompleteMeansVerified /\ ScanRepairsIndex)
        /\ RowMovesForward /\ RefusedOnlyBehindPublications /\ RecoveryKeepsNewerWork
        /\ SaveKeepsItsLock /\ NothingPinnedIsRemoved /\ ImplementsEffectLog
  <1>1. ServicesSpec =>
            [](RetryIsFresh /\ CacheAgreesWithRow /\ PublishesAlone /\ EffectsInOrder
               /\ EventFollowsMetadata /\ LeasesAreKept /\ OffWithinWindow
               /\ CompleteMeansVerified /\ ScanRepairsIndex)
    BY EveryServiceBehaves, RetriesAreFresh, CachedIsStored, OnePublicationAtATime,
       EffectsAreInOrder, EventsFollowMetadata, GrantedLeasesAreKept, WorkerStopsInTime,
       CompleteIsVerified, ScansRepair, PTL
  <1>2. ServicesSpec =>
            /\ RowMovesForward /\ RefusedOnlyBehindPublications /\ RecoveryKeepsNewerWork
            /\ SaveKeepsItsLock /\ NothingPinnedIsRemoved /\ ImplementsEffectLog
    BY EveryServiceBehaves, RowsMoveForward, WaitersLeaveThePool, RecoveryUndoesNothing,
       SavesKeepTheirLocks, PinnedIsKept, QueueIsAnEffectLog
  <1> QED  BY <1>1, <1>2, PTL

(* So do those of OCR, if nobody overlaps a rewrite.                       *)
THEOREM OcrKeepsItsPromises ==
    ASSUME Overlaps = {}
    PROVE  ServicesSpec => []OriginalsAreKept /\ RestoreStands /\ SavesSurviveRestores
  <1>1. OcrSpec => []OriginalsAreKept
    BY ReplacedFilesAreKept
  <1>2. OcrSpec => RestoreStands
    BY RestoresAreFinal
  <1>3. OcrSpec => SavesSurviveRestores
    BY NothingSavedIsLost
  <1> QED  BY EveryServiceBehaves, <1>1, <1>2, <1>3
==============================================================================
