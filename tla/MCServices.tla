----------------------------- MODULE MCServices -----------------------------
(***************************************************************************)
(* Eight services that share no state, checked together: which one moves   *)
(* is chosen at the start and the others stay as they begin.  Interleaving *)
(* them would multiply the states and add no behaviour that a property of  *)
(* one of them could tell apart.                                           *)
(***************************************************************************)
EXTENDS TokenSource, PublishLock, DesktopEffects, WopiLocks,
        OcrOriginals, RuntimeWorker, BackupEngine, IndexWatcher, TLC

CONSTANTS r1, r2, a1, a2, b1, A, B, w1, w2, c1, c2, pa, pb, s1, s2, x, y,
          doc, sheet, v1, v2, q1

VARIABLE service

Services == {"tokens", "publishing", "effects", "office", "ocr", "runtime",
             "backups", "indexing"}

(* Two commits of one identity and one of another. *)
CallerOwner == (a1 :> A) @@ (a2 :> A) @@ (b1 :> B)

(* A rename, then a save of the file it made. *)
RenameThenSave ==
    (c1 :> [identity |-> A, from |-> pa, to |-> pb])
    @@ (c2 :> [identity |-> A, from |-> pb, to |-> pb])

(* An editor of doc meets another editor, a save or a copy onto doc. *)
Asking(kind, file, id, old, target) ==
    [kind |-> kind, file |-> file, id |-> id, old |-> old, target |-> target]

Editors == {Asking("lock", doc, x, x, sheet), Asking("refresh", doc, x, x, sheet),
            Asking("unlock", doc, x, x, sheet), Asking("relock", doc, x, y, sheet)}

TheyMeet == {Asking("lock", doc, y, x, sheet), Asking("lock", sheet, y, x, doc),
             Asking("put", doc, x, x, sheet)}

Onlookers == {Asking("put", sheet, x, x, doc), Asking("copy", sheet, x, x, doc)}

OfficeScripts ==
    {(s1 :> e) @@ (s2 :> m) : e \in Editors, m \in TheyMeet}
    \union {(s1 :> Asking("lock", doc, x, x, sheet)) @@ (s2 :> m) : m \in Onlookers}

OfficeRests ==
    LET script == CHOOSE s \in OfficeScripts : TRUE IN
    /\ rows = [file \in OfficeFiles |-> NoRow]
    /\ request = [r \in WopiRequests |-> NewWopiRequest(script[r])]

ServicesInit ==
    /\ service \in Services
    /\ TokenInit /\ LockInit /\ EffectInit /\ WopiInit /\ OcrInit /\ RuntimeInit
    /\ BackupInit /\ IndexInit
    /\ service # "office" => OfficeRests
    /\ service # "ocr" => live = Saved(v1)

(***************************************************************************)
(* Bounds of what happens in one behaviour, beside those of the modules:   *)
(* either both calls are made, with one disturbance, or one of them with   *)
(* all; and three changes of files and mishaps together.                   *)
(***************************************************************************)
OneCallOrOneDisturbance == disturbances' <= 1 \/ requests'[r2].step = "idle"

MaxIndexEvents == 3

FewIndexEvents == changes' + mishaps' <= MaxIndexEvents

ServicesNext ==
    \/ /\ service = "tokens" /\ TokenNext /\ OneCallOrOneDisturbance
       /\ UNCHANGED <<service, lockVars, effectVars, wopiVars, ocrVars, runtimeVars,
                      backupVars, indexVars>>
    \/ /\ service = "publishing" /\ LockNext
       /\ UNCHANGED <<service, tokenVars, effectVars, wopiVars, ocrVars, runtimeVars,
                      backupVars, indexVars>>
    \/ /\ service = "effects" /\ EffectNext
       /\ UNCHANGED <<service, tokenVars, lockVars, wopiVars, ocrVars, runtimeVars,
                      backupVars, indexVars>>
    \/ /\ service = "office" /\ WopiNext
       /\ UNCHANGED <<service, tokenVars, lockVars, effectVars, ocrVars, runtimeVars,
                      backupVars, indexVars>>
    \/ /\ service = "ocr" /\ OcrNext
       /\ UNCHANGED <<service, tokenVars, lockVars, effectVars, wopiVars, runtimeVars,
                      backupVars, indexVars>>
    \/ /\ service = "runtime" /\ RuntimeNext
       /\ UNCHANGED <<service, tokenVars, lockVars, effectVars, wopiVars, ocrVars,
                      backupVars, indexVars>>
    \/ /\ service = "backups" /\ BackupNext
       /\ UNCHANGED <<service, tokenVars, lockVars, effectVars, wopiVars, ocrVars,
                      runtimeVars, indexVars>>
    \/ /\ service = "indexing" /\ IndexNext /\ FewIndexEvents
       /\ UNCHANGED <<service, tokenVars, lockVars, effectVars, wopiVars, ocrVars,
                      runtimeVars, backupVars>>

servicesVars == <<service, tokenVars, lockVars, effectVars, wopiVars, ocrVars,
                  runtimeVars, backupVars, indexVars>>

(***************************************************************************)
(* The fairness of each service, asked of the one that was chosen.         *)
(***************************************************************************)
ServicesFairness ==
    /\ WF_tokenVars(service = "tokens" /\ TokenWork)
    /\ WF_lockVars(service = "publishing" /\ LockWork)
    /\ \A a \in Actors : WF_effectVars(service = "effects" /\ Work(a))
    /\ \A j \in 1..Cardinality(Commits) :
        SF_effectVars(service = "effects" /\ j \in Jobs /\ RetryDue(j))
    /\ WF_wopiVars(service = "office" /\ WopiWork)
    /\ WF_ocrVars(service = "ocr" /\ OcrWork)
    /\ WF_runtimeVars(service = "runtime" /\ PollAnswers)
    /\ WF_backupVars(service = "backups" /\ BackupWork)
    /\ WF_indexVars(service = "indexing" /\ (ReaderTakes \/ DebouncePasses))
    /\ WF_indexVars(service = "indexing" /\ Dispatch)
    /\ WF_indexVars(service = "indexing" /\ ScanStep)
    /\ \A t \in PoolThreads \union {Scanner} :
        WF_indexVars(service = "indexing" /\ JobStep(t))

ServicesSpec == ServicesInit /\ [][ServicesNext]_servicesVars /\ ServicesFairness

(* The state of the service that moves has its type, as its module says.   *)
ServicesTypeOK ==
    CASE service = "tokens" -> TokenTypeOK
      [] service = "publishing" -> LockTypeOK
      [] service = "effects" -> EffectTypeOK
      [] service = "office" -> WopiTypeOK
      [] service = "ocr" -> OcrTypeOK
      [] service = "runtime" -> RuntimeTypeOK
      [] service = "backups" -> BackupTypeOK
      [] service = "indexing" -> IndexTypeOK

(***************************************************************************)
(* Whatever each service was asked for comes to its end: storage calls and *)
(* commits are answered, effects run, editors and restores get an answer,  *)
(* a worker runs exactly if its feature is on, and the index is repaired.  *)
(***************************************************************************)
EveryServiceSettles ==
    /\ EveryRequestAnswers /\ EveryCallerAnswers /\ EffectsSettle
    /\ EveryOfficeRequestAnswers /\ OcrSettles /\ WorkerFollowsFeatures /\ BackupSettles
    /\ IndexSettles
=============================================================================
