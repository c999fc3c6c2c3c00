---------------------------- MODULE WorkerProofs -----------------------------
(***************************************************************************)
(* Proofs about locks, the advisory lock of a publication and the locks of *)
(* Office documents, and about what works beside the requests: OCR, which  *)
(* rewrites users' files, the controller that keeps the AI runtime's       *)
(* worker, the worker of backups, and the watcher and the scan that keep   *)
(* the index.                                                              *)
(***************************************************************************)
EXTENDS PublishLock, WopiLocks, OcrOriginals, RuntimeWorker, BackupEngine, IndexWatcher,
        FiniteSetTheorems, SequenceTheorems, WellFoundedInduction, TLAPS

(***************************************************************************)
(* Proofs, for every set of revisions and requests and all bounds, of what *)
(* OCR promises about users' files, on the assumption the module names: no *)
(* user saves the file and nobody deletes its original while a rewrite is  *)
(* committed.  (Run ocr_edit shows what happens without it.)               *)
(*                                                                         *)
(* What makes them inductive is that a commit knows the file it works on:  *)
(* it is an undecided file a user saved, it is still at the path, and by   *)
(* the time it is replaced its copy and its sidecar are there.             *)
(***************************************************************************)

PassSteps == {"idle", "ocr", "keep", "map", "replace", "record"}

RestoreLocked == {"copy", "swap", "record"}

RestoreSteps == RestoreLocked \union {"new", "refused", "restored", "gone"}

OcrTypes ==
    /\ live \in Files \union {NoFile}
    /\ ocrLog \in [Files -> {"none", "left", "ocred", "restored"}]
    /\ kept \in [Revisions -> Files \union {NoFile}]
    /\ mapped \subseteq Revisions
    /\ fileLock \in Restorers \union {NoOne, "pass"}
    /\ pass \in [step : PassSteps, file : Files \union {NoFile}]
    /\ restore \in [Restorers -> [step : RestoreSteps, id : Revisions \union {NoOne},
                                  consent : BOOLEAN, saw : Files \union {NoFile}]]
    /\ touched \in BOOLEAN
    /\ rewritten \subseteq Files
    /\ bounds \in [passes : Nat, edits : Nat, deletes : Nat, crashes : Nat]

PassHasFile == pass.step # "idle" => pass.file \in Files

PassHasLock == Committing \/ pass.step = "record" <=> fileLock = "pass"

RestoresHaveLock ==
    \A r \in Restorers : restore[r].step \in RestoreLocked <=> fileLock = r

RestoresHaveId ==
    \A r \in Restorers : restore[r].step \in RestoreLocked => restore[r].id \in Revisions

CopiesAreRight == \A v \in Revisions : kept[v] \in {NoFile, Saved(v)}

(* What a commit knows of its file.                                        *)
CommitKnows ==
    Committing =>
        /\ live = pass.file /\ live = Saved(pass.file.rev)
        /\ ocrLog[pass.file] = "none"
        /\ pass.step # "keep" => kept[pass.file.rev] = live
        /\ pass.step = "replace" => pass.file.rev \in mapped

(* What a restore knows of the file it is about to replace.                *)
RestoreKnows ==
    \A r \in Restorers :
        restore[r].step \in {"copy", "swap"} /\ ~touched =>
            /\ live = restore[r].saw
            /\ \/ restore[r].consent
               \/ live = Saved(restore[r].id) \/ live = Searchable(restore[r].id)

OcrInv ==
    /\ OcrTypes /\ PassHasFile /\ PassHasLock /\ RestoresHaveLock /\ RestoresHaveId
    /\ CopiesAreRight /\ CommitKnows /\ RestoreKnows /\ OriginalsAreKept

USE OcrAssumption, OcrNames

LEMMA FileFacts ==
    /\ \A v \in Revisions :
        /\ Saved(v) \in Files /\ Saved(v).rev = v /\ Saved(v).text = FALSE
        /\ Searchable(v) \in Files /\ Searchable(v).rev = v /\ Searchable(v).text = TRUE
    /\ \A file \in Files : file.rev \in Revisions /\ (~file.text => file = Saved(file.rev))
  BY DEF Saved, Searchable, Files

LEMMA OcrStarts == OcrInit => OcrInv
  <1> SUFFICES ASSUME OcrInit PROVE OcrInv
    OBVIOUS
  <1>1. live \in Files
    BY FileFacts DEF OcrInit
  <1>2. OcrTypes
    BY <1>1 DEF OcrInit, OcrTypes, IdlePass, NotAsked, PassSteps, RestoreSteps, RestoreLocked
  <1>3. /\ pass.step = "idle" /\ ~Committing
        /\ \A r \in Restorers : restore[r].step \notin RestoreLocked
    BY DEF OcrInit, IdlePass, NotAsked, RestoreLocked, Committing
  <1>4. PassHasFile /\ PassHasLock /\ RestoresHaveLock /\ RestoresHaveId /\ CommitKnows
    BY <1>3 DEF OcrInit, PassHasFile, PassHasLock, RestoresHaveLock, RestoresHaveId, CommitKnows
  <1>5. RestoreKnows
    BY <1>3 DEF RestoreKnows, RestoreLocked
  <1>6. CopiesAreRight /\ OriginalsAreKept
    BY DEF OcrInit, CopiesAreRight, OriginalsAreKept
  <1> QED  BY <1>2, <1>4, <1>5, <1>6 DEF OcrInv

(* While a commit is under way no restore is, and the other way round.     *)
LEMMA OneAtATime ==
    ASSUME OcrInv, NEW r \in Restorers, restore[r].step \in RestoreLocked
    PROVE  /\ pass.step \in {"idle", "ocr"} /\ ~Committing
           /\ \A q \in Restorers : restore[q].step \in RestoreLocked => q = r
  BY DEF OcrInv, OcrTypes, PassSteps, PassHasLock, RestoresHaveLock, Committing

(* The step of a pass that is not committing: it takes or drops a file.    *)
LEMMA PassMovesKeep ==
    ASSUME OcrInv, PassReads \/ PassSkips \/ PassNoticesEdit
    PROVE  OcrInv'
  <1>1. /\ UNCHANGED <<live, ocrLog, kept, mapped, fileLock, restore, touched, rewritten>>
        /\ ~Committing /\ pass.step # "record"
        /\ bounds' \in [passes : Nat, edits : Nat, deletes : Nat, crashes : Nat]
    BY DEF PassReads, PassSkips, PassNoticesEdit, OutputArrives, Committing, Spend, OcrInv, OcrTypes
  <1>2. /\ pass' \in [step : PassSteps, file : Files \union {NoFile}]
        /\ pass'.step \in {"idle", "ocr"}
        /\ pass'.step = "ocr" => pass'.file \in Files
    BY DEF PassReads, PassSkips, PassNoticesEdit, IdlePass, PassSteps, OcrInv, OcrTypes
  <1>3. OcrTypes' /\ PassHasFile' /\ RestoresHaveLock' /\ RestoresHaveId'
    BY <1>1, <1>2 DEF OcrInv, OcrTypes, PassHasFile, RestoresHaveLock, RestoresHaveId
  <1>4. ~Committing' /\ pass'.step # "record"
    BY <1>2 DEF Committing
  <1>5. PassHasLock' /\ CommitKnows'
    BY <1>1, <1>4 DEF OcrInv, PassHasLock, CommitKnows
  <1>6. CopiesAreRight' /\ RestoreKnows' /\ OriginalsAreKept'
    BY <1>1 DEF OcrInv, CopiesAreRight, RestoreKnows, OriginalsAreKept
  <1> QED  BY <1>3, <1>5, <1>6 DEF OcrInv

LEMMA PassLeavesKeeps ==
    ASSUME OcrInv, PassLeaves
    PROVE  OcrInv'
  <1>1. /\ ocrLog' = [ocrLog EXCEPT ![pass.file] = "left"] /\ pass' = IdlePass
        /\ UNCHANGED <<live, kept, mapped, fileLock, restore, touched, rewritten, bounds>>
        /\ ~Committing /\ pass.step # "record"
    BY DEF PassLeaves, OutputArrives, Committing
  <1>2. pass' = [step |-> "idle", file |-> NoFile] /\ ~Committing'
    BY <1>1 DEF IdlePass, Committing
  <1>3. OcrTypes'
    <2>1. ocrLog' \in [Files -> {"none", "left", "ocred", "restored"}]
      BY <1>1 DEF OcrInv, OcrTypes
    <2> QED  BY <1>1, <1>2, <2>1 DEF OcrInv, OcrTypes, PassSteps
  <1>4. PassHasFile' /\ PassHasLock' /\ CommitKnows'
    BY <1>1, <1>2 DEF OcrInv, PassHasFile, PassHasLock, CommitKnows
  <1>5. /\ RestoresHaveLock' /\ RestoresHaveId'
        /\ CopiesAreRight' /\ RestoreKnows' /\ OriginalsAreKept'
    BY <1>1 DEF OcrInv, RestoresHaveLock, RestoresHaveId, CopiesAreRight, RestoreKnows,
                OriginalsAreKept
  <1> QED  BY <1>3, <1>4, <1>5 DEF OcrInv

(* With the lock and the file still there, undecided and without text.     *)
LEMMA RewriteBeginsKeeps ==
    ASSUME OcrInv, RewriteBegins
    PROVE  OcrInv'
  <1>1. /\ pass.step = "ocr" /\ fileLock = NoOne /\ ~pass.file.text /\ live = pass.file
        /\ ocrLog[pass.file] = "none"
        /\ fileLock' = "pass" /\ pass' = [pass EXCEPT !.step = "keep"]
        /\ UNCHANGED <<live, ocrLog, kept, mapped, restore, touched, rewritten, bounds>>
    BY DEF RewriteBegins, OutputArrives, DecidedMeanwhile
  <1>2. pass.file \in Files /\ pass.file = Saved(pass.file.rev)
    BY <1>1, FileFacts DEF OcrInv, PassHasFile
  <1>3. /\ pass' \in [step : PassSteps, file : Files \union {NoFile}]
        /\ pass'.step = "keep" /\ pass'.file = pass.file
    BY <1>1 DEF OcrInv, OcrTypes, PassSteps
  <1>4. OcrTypes'
    BY <1>1, <1>3 DEF OcrInv, OcrTypes
  <1>5. Committing' /\ PassHasFile' /\ PassHasLock' /\ CommitKnows'
    BY <1>1, <1>2, <1>3 DEF Committing, PassHasFile, PassHasLock, CommitKnows
  <1>6. RestoresHaveLock' /\ RestoresHaveId'
    BY <1>1 DEF OcrInv, RestoresHaveLock, RestoresHaveId
  <1>7. CopiesAreRight' /\ RestoreKnows' /\ OriginalsAreKept'
    BY <1>1 DEF OcrInv, CopiesAreRight, RestoreKnows, OriginalsAreKept
  <1> QED  BY <1>4, <1>5, <1>6, <1>7 DEF OcrInv

(* The copy is of the file that will be replaced.                          *)
LEMMA KeepsOriginalKeeps ==
    ASSUME OcrInv, KeepsOriginal
    PROVE  OcrInv'
  <1> DEFINE id == pass.file.rev
  <1>1. /\ pass.step = "keep" /\ live # NoFile
        /\ kept' = IF kept[id] = NoFile THEN [kept EXCEPT ![id] = live] ELSE kept
        /\ pass' = [pass EXCEPT !.step = "map"]
        /\ UNCHANGED <<live, ocrLog, mapped, fileLock, restore, touched, rewritten, bounds>>
    BY DEF KeepsOriginal, AfterCopy
  <1>2. /\ id \in Revisions /\ live = pass.file /\ live = Saved(id)
        /\ ocrLog[pass.file] = "none" /\ Committing
    BY <1>1, FileFacts DEF OcrInv, PassHasFile, CommitKnows, Committing
  <1>3. kept' = [kept EXCEPT ![id] = live]
    BY <1>1, <1>2 DEF OcrInv, OcrTypes, CopiesAreRight
  <1>4. /\ pass' \in [step : PassSteps, file : Files \union {NoFile}]
        /\ pass'.step = "map" /\ pass'.file = pass.file
    BY <1>1 DEF OcrInv, OcrTypes, PassSteps
  <1>5. OcrTypes'
    BY <1>1, <1>2, <1>3, <1>4 DEF OcrInv, OcrTypes
  <1>6. kept'[id] = live /\ Committing'
    BY <1>2, <1>3, <1>4 DEF OcrInv, OcrTypes, Committing
  <1>7. PassHasFile' /\ PassHasLock' /\ CommitKnows'
    BY <1>1, <1>2, <1>4, <1>6 DEF OcrInv, PassHasFile, PassHasLock, CommitKnows
  <1>8. RestoresHaveLock' /\ RestoresHaveId' /\ RestoreKnows'
    BY <1>1 DEF OcrInv, RestoresHaveLock, RestoresHaveId, RestoreKnows
  <1>9. CopiesAreRight'
    BY <1>2, <1>3 DEF OcrInv, OcrTypes, CopiesAreRight
  <1>10. OriginalsAreKept'
    <2> SUFFICES ASSUME NEW file \in rewritten
                 PROVE  kept'[file.rev] = file /\ file.rev \in mapped
      BY <1>1 DEF OriginalsAreKept
    <2>1. /\ kept[file.rev] = file /\ file.rev \in mapped
          /\ file \in Files /\ file.rev \in Revisions
      BY FileFacts DEF OcrInv, OcrTypes, OriginalsAreKept
    <2>2. file.rev = id => file = live
      BY <1>2, <2>1 DEF OcrInv, CopiesAreRight
    <2> QED  BY <1>3, <2>1, <2>2 DEF OcrInv, OcrTypes
  <1> QED  BY <1>5, <1>7, <1>8, <1>9, <1>10 DEF OcrInv

LEMMA WritesSidecarKeeps ==
    ASSUME OcrInv, WritesSidecar
    PROVE  OcrInv'
  <1> DEFINE id == pass.file.rev
  <1>1. /\ pass.step = "map" /\ mapped' = mapped \union {id}
        /\ pass' = [pass EXCEPT !.step = "replace"]
        /\ UNCHANGED <<live, ocrLog, kept, fileLock, restore, touched, rewritten, bounds>>
    BY DEF WritesSidecar
  <1>2. /\ id \in Revisions /\ live = pass.file /\ live = Saved(id)
        /\ ocrLog[pass.file] = "none" /\ kept[id] = live /\ Committing
    BY <1>1, FileFacts DEF OcrInv, PassHasFile, CommitKnows, Committing
  <1>3. /\ pass' \in [step : PassSteps, file : Files \union {NoFile}]
        /\ pass'.step = "replace" /\ pass'.file = pass.file
    BY <1>1 DEF OcrInv, OcrTypes, PassSteps
  <1>4. OcrTypes'
    BY <1>1, <1>2, <1>3 DEF OcrInv, OcrTypes
  <1>5. PassHasFile' /\ PassHasLock' /\ CommitKnows'
    BY <1>1, <1>2, <1>3 DEF OcrInv, PassHasFile, PassHasLock, CommitKnows, Committing
  <1>6. /\ RestoresHaveLock' /\ RestoresHaveId'
        /\ CopiesAreRight' /\ RestoreKnows' /\ OriginalsAreKept'
    BY <1>1 DEF OcrInv, RestoresHaveLock, RestoresHaveId, CopiesAreRight, RestoreKnows,
                OriginalsAreKept
  <1> QED  BY <1>4, <1>5, <1>6 DEF OcrInv

LEMMA RewriteFailsKeeps ==
    ASSUME OcrInv, RewriteFails
    PROVE  OcrInv'
  <1>1. /\ pass' = IdlePass /\ fileLock' = NoOne /\ fileLock = "pass"
        /\ UNCHANGED <<live, ocrLog, kept, mapped, restore, touched, rewritten, bounds>>
    BY DEF RewriteFails, OcrInv, PassHasLock, Committing
  <1>2. pass' = [step |-> "idle", file |-> NoFile] /\ ~Committing'
    BY <1>1 DEF IdlePass, Committing
  <1>3. OcrTypes'
    BY <1>1, <1>2 DEF OcrInv, OcrTypes, PassSteps
  <1>4. PassHasFile' /\ PassHasLock' /\ CommitKnows'
    BY <1>1, <1>2 DEF PassHasFile, PassHasLock, CommitKnows
  <1>5. /\ RestoresHaveLock' /\ RestoresHaveId'
        /\ CopiesAreRight' /\ RestoreKnows' /\ OriginalsAreKept'
    BY <1>1 DEF OcrInv, RestoresHaveLock, RestoresHaveId, CopiesAreRight, RestoreKnows,
                OriginalsAreKept
  <1> QED  BY <1>3, <1>4, <1>5 DEF OcrInv

(* What is replaced has its copy and its sidecar.                          *)
LEMMA PassReplacesKeeps ==
    ASSUME OcrInv, PassReplaces
    PROVE  OcrInv'
  <1> DEFINE id == pass.file.rev
  <1>1. /\ pass.step = "replace" /\ live' = Searchable(id)
        /\ rewritten' = rewritten \union ({live} \ {NoFile})
        /\ touched' = TRUE /\ pass' = [pass EXCEPT !.step = "record"]
        /\ UNCHANGED <<ocrLog, kept, mapped, fileLock, restore, bounds>>
    BY DEF PassReplaces
  <1>2. /\ id \in Revisions /\ live = Saved(id) /\ kept[id] = live /\ id \in mapped
        /\ Committing
    BY <1>1, FileFacts DEF OcrInv, PassHasFile, CommitKnows, Committing
  <1>3. /\ pass' \in [step : PassSteps, file : Files \union {NoFile}]
        /\ pass'.step = "record" /\ pass'.file = pass.file /\ ~Committing'
    BY <1>1 DEF OcrInv, OcrTypes, PassSteps, Committing
  <1>4. OcrTypes'
    BY <1>1, <1>2, <1>3, FileFacts DEF OcrInv, OcrTypes
  <1>5. PassHasFile' /\ PassHasLock' /\ CommitKnows'
    BY <1>1, <1>2, <1>3 DEF OcrInv, PassHasFile, PassHasLock, CommitKnows
  <1>6. /\ RestoresHaveLock' /\ RestoresHaveId' /\ CopiesAreRight' /\ RestoreKnows'
    BY <1>1 DEF OcrInv, RestoresHaveLock, RestoresHaveId, CopiesAreRight, RestoreKnows
  <1>7. OriginalsAreKept'
    BY <1>1, <1>2, FileFacts DEF OcrInv, OriginalsAreKept
  <1> QED  BY <1>4, <1>5, <1>6, <1>7 DEF OcrInv

LEMMA PassRecordsKeeps ==
    ASSUME OcrInv, PassRecords
    PROVE  OcrInv'
  <1>1. /\ pass.step = "record" /\ fileLock = "pass"
        /\ ocrLog' = IF live = NoFile THEN ocrLog ELSE [ocrLog EXCEPT ![live] = "ocred"]
        /\ pass' = IdlePass /\ fileLock' = NoOne
        /\ UNCHANGED <<live, kept, mapped, restore, touched, rewritten, bounds>>
    BY DEF PassRecords, OcrInv, PassHasLock
  <1>2. pass' = [step |-> "idle", file |-> NoFile] /\ ~Committing'
    BY <1>1 DEF IdlePass, Committing
  <1>3. OcrTypes'
    <2>1. ocrLog' \in [Files -> {"none", "left", "ocred", "restored"}]
      BY <1>1 DEF OcrInv, OcrTypes
    <2> QED  BY <1>1, <1>2, <2>1 DEF OcrInv, OcrTypes, PassSteps
  <1>4. PassHasFile' /\ PassHasLock' /\ CommitKnows'
    BY <1>1, <1>2 DEF PassHasFile, PassHasLock, CommitKnows
  <1>5. /\ RestoresHaveLock' /\ RestoresHaveId'
        /\ CopiesAreRight' /\ RestoreKnows' /\ OriginalsAreKept'
    BY <1>1 DEF OcrInv, RestoresHaveLock, RestoresHaveId, CopiesAreRight, RestoreKnows,
                OriginalsAreKept
  <1> QED  BY <1>3, <1>4, <1>5 DEF OcrInv

(* A restore that is let through has the caller's consent, or the file is  *)
(* the one OCR made or the one it would bring back.                        *)
LEMMA NotRefused ==
    ASSUME NEW v \in Revisions, NEW consent \in BOOLEAN, ~Refused(v, consent)
    PROVE  consent \/ live = Saved(v) \/ live = Searchable(v)
  <1> SUFFICES ASSUME live # Saved(v), live # Searchable(v) PROVE consent
    OBVIOUS
  <1>1. StateFor(v) \in {"missing", "changed"}
    BY Zenon DEF StateFor
  <1> QED  BY <1>1 DEF Refused

LEMMA RestoreInspectsKeeps ==
    ASSUME OcrInv, NEW r \in Restorers, NEW v \in Revisions, NEW consent \in BOOLEAN,
           RestoreInspects(r, v, consent)
    PROVE  OcrInv'
  <1>1. /\ fileLock = NoOne /\ ~Refused(v, consent)
        /\ restore' = [restore EXCEPT ![r] =
                [step |-> "copy", id |-> v, consent |-> consent, saw |-> live]]
        /\ fileLock' = r /\ touched' = FALSE
        /\ UNCHANGED <<live, ocrLog, kept, mapped, pass, rewritten, bounds>>
    BY DEF RestoreInspects
  <1>2. /\ \A q \in Restorers : restore[q].step \notin RestoreLocked
        /\ ~Committing /\ pass.step # "record"
    BY <1>1 DEF OcrInv, RestoresHaveLock, PassHasLock
  <1>3. \A q \in Restorers :
            restore'[q] = IF q = r
                          THEN [step |-> "copy", id |-> v, consent |-> consent, saw |-> live]
                          ELSE restore[q]
    BY <1>1 DEF OcrInv, OcrTypes
  <1>4. OcrTypes'
    BY <1>1 DEF OcrInv, OcrTypes, RestoreSteps, RestoreLocked
  <1>5. PassHasFile' /\ PassHasLock' /\ CommitKnows'
    BY <1>1, <1>2 DEF OcrInv, PassHasFile, PassHasLock, CommitKnows, Committing
  <1>6. RestoresHaveLock' /\ RestoresHaveId'
    BY <1>1, <1>2, <1>3 DEF RestoresHaveLock, RestoresHaveId, RestoreLocked
  <1>7. RestoreKnows'
    BY <1>1, <1>2, <1>3, NotRefused DEF RestoreKnows, RestoreLocked
  <1>8. CopiesAreRight' /\ OriginalsAreKept'
    BY <1>1 DEF OcrInv, CopiesAreRight, OriginalsAreKept
  <1> QED  BY <1>4, <1>5, <1>6, <1>7, <1>8 DEF OcrInv

(* A step of a restore that leaves the files alone.                        *)
LEMMA RestoreMoves ==
    ASSUME OcrInv, NEW r \in Restorers, NEW s \in RestoreSteps, Restoring(r, s),
           UNCHANGED <<live, ocrLog, kept, mapped, pass, touched, rewritten, bounds>>,
           \/ s = "swap" /\ restore[r].step = "copy" /\ fileLock' = fileLock
           \/ s = "refused" /\ restore[r].step \in RestoreLocked /\ fileLock' = NoOne
           \/ s = "refused" /\ restore[r].step = "new" /\ fileLock' = fileLock
    PROVE  OcrInv'
  <1>1. restore' = [restore EXCEPT ![r].step = s]
    BY DEF Restoring
  <1>2. restore' = [restore EXCEPT ![r] = [restore[r] EXCEPT !.step = s]]
    BY <1>1 DEF OcrInv, OcrTypes
  <1>3. OcrTypes'
    BY <1>2 DEF OcrInv, OcrTypes
  <1>4. \A q \in Restorers :
            /\ restore'[q].step = IF q = r THEN s ELSE restore[q].step
            /\ restore'[q].id = restore[q].id /\ restore'[q].consent = restore[q].consent
            /\ restore'[q].saw = restore[q].saw
    BY <1>2 DEF OcrInv, OcrTypes
  <1>5. PassHasFile' /\ CommitKnows'
    BY DEF OcrInv, PassHasFile, CommitKnows, Committing
  <1>6. restore[r].step \in RestoreLocked => fileLock = r
    BY DEF OcrInv, RestoresHaveLock
  <1>7. PassHasLock'
    BY <1>6 DEF OcrInv, PassHasLock, Committing, RestoreLocked
  <1>8. RestoresHaveLock'
    BY <1>4, <1>6 DEF OcrInv, RestoresHaveLock, RestoreLocked
  <1>9. RestoresHaveId' /\ RestoreKnows'
    BY <1>4 DEF OcrInv, RestoresHaveId, RestoreKnows, RestoreLocked
  <1>10. CopiesAreRight' /\ OriginalsAreKept'
    BY DEF OcrInv, CopiesAreRight, OriginalsAreKept
  <1> QED  BY <1>3, <1>5, <1>7, <1>8, <1>9, <1>10 DEF OcrInv

LEMMA RestoreSwapsKeeps ==
    ASSUME OcrInv, NEW r \in Restorers, RestoreSwaps(r)
    PROVE  OcrInv'
  <1>1. /\ restore[r].step = "swap" /\ restore' = [restore EXCEPT ![r].step = "record"]
        /\ live' = Saved(restore[r].id)
        /\ UNCHANGED <<ocrLog, kept, mapped, fileLock, pass, touched, rewritten, bounds>>
    BY DEF RestoreSwaps, Restoring
  <1>2. restore[r].step \in RestoreLocked /\ fileLock = r /\ restore[r].id \in Revisions
    BY <1>1 DEF OcrInv, RestoresHaveLock, RestoresHaveId, RestoreLocked
  <1>3. ~Committing /\ \A q \in Restorers : restore[q].step \in RestoreLocked => q = r
    BY <1>2, OneAtATime
  <1>4. restore' = [restore EXCEPT ![r] = [restore[r] EXCEPT !.step = "record"]]
    BY <1>1 DEF OcrInv, OcrTypes
  <1>5. OcrTypes'
    <2>1. restore' \in [Restorers -> [step : RestoreSteps, id : Revisions \union {NoOne},
                                      consent : BOOLEAN, saw : Files \union {NoFile}]]
      BY <1>4 DEF OcrInv, OcrTypes, RestoreSteps, RestoreLocked
    <2>2. live' \in Files
      BY <1>1, <1>2, FileFacts
    <2> QED  BY <1>1, <2>1, <2>2 DEF OcrInv, OcrTypes
  <1>6. \A q \in Restorers :
            /\ restore'[q].step = IF q = r THEN "record" ELSE restore[q].step
            /\ restore'[q].id = restore[q].id
    BY <1>4 DEF OcrInv, OcrTypes
  <1>7. PassHasFile' /\ PassHasLock' /\ CommitKnows'
    BY <1>1, <1>3 DEF OcrInv, PassHasFile, PassHasLock, CommitKnows, Committing
  <1>8. RestoresHaveLock' /\ RestoresHaveId'
    BY <1>1, <1>2, <1>6 DEF OcrInv, RestoresHaveLock, RestoresHaveId, RestoreLocked
  <1>9. RestoreKnows'
    BY <1>3, <1>6 DEF RestoreKnows, RestoreLocked
  <1>10. CopiesAreRight' /\ OriginalsAreKept'
    BY <1>1 DEF OcrInv, CopiesAreRight, OriginalsAreKept
  <1> QED  BY <1>5, <1>7, <1>8, <1>9, <1>10 DEF OcrInv

LEMMA RestoreRecordsKeeps ==
    ASSUME OcrInv, NEW r \in Restorers, RestoreRecords(r)
    PROVE  OcrInv'
  <1>1. /\ restore[r].step = "record" /\ restore' = [restore EXCEPT ![r].step = "restored"]
        /\ ocrLog' = [ocrLog EXCEPT ![Saved(restore[r].id)] = "restored"]
        /\ fileLock' = NoOne
        /\ UNCHANGED <<live, kept, mapped, pass, touched, rewritten, bounds>>
    BY DEF RestoreRecords, Restoring
  <1>2. restore[r].step \in RestoreLocked /\ fileLock = r
    BY <1>1 DEF OcrInv, RestoresHaveLock, RestoreLocked
  <1>3. /\ ~Committing /\ pass.step # "record"
        /\ \A q \in Restorers : restore[q].step \in RestoreLocked => q = r
    BY <1>2, OneAtATime
  <1>4. restore' = [restore EXCEPT ![r] = [restore[r] EXCEPT !.step = "restored"]]
    BY <1>1 DEF OcrInv, OcrTypes
  <1>5. OcrTypes'
    <2>1. restore' \in [Restorers -> [step : RestoreSteps, id : Revisions \union {NoOne},
                                      consent : BOOLEAN, saw : Files \union {NoFile}]]
      BY <1>4 DEF OcrInv, OcrTypes, RestoreSteps, RestoreLocked
    <2>2. ocrLog' \in [Files -> {"none", "left", "ocred", "restored"}]
      BY <1>1 DEF OcrInv, OcrTypes
    <2> QED  BY <1>1, <2>1, <2>2 DEF OcrInv, OcrTypes
  <1>6. \A q \in Restorers :
            /\ restore'[q].step = IF q = r THEN "restored" ELSE restore[q].step
            /\ restore'[q].id = restore[q].id
    BY <1>4 DEF OcrInv, OcrTypes
  <1>7. PassHasFile' /\ PassHasLock' /\ CommitKnows'
    BY <1>1, <1>3 DEF OcrInv, PassHasFile, PassHasLock, CommitKnows, Committing
  <1>8. RestoresHaveLock' /\ RestoresHaveId'
    BY <1>1, <1>3, <1>6 DEF OcrInv, RestoresHaveLock, RestoresHaveId, RestoreLocked
  <1>9. RestoreKnows'
    BY <1>3, <1>6 DEF RestoreKnows, RestoreLocked
  <1>10. CopiesAreRight' /\ OriginalsAreKept'
    BY <1>1 DEF OcrInv, CopiesAreRight, OriginalsAreKept
  <1> QED  BY <1>5, <1>7, <1>8, <1>9, <1>10 DEF OcrInv

(* An original that is deleted takes its part of the history with it.      *)
LEMMA DeletesKeep ==
    ASSUME OcrInv, Overlaps = {}, NEW v \in Revisions, DeletesOriginal(v)
    PROVE  OcrInv'
  <1>1. /\ kept[v] # NoFile /\ ~Committing
        /\ kept' = [kept EXCEPT ![v] = NoFile] /\ mapped' = mapped \ {v}
        /\ rewritten' = rewritten \ {kept[v]}
        /\ UNCHANGED <<live, ocrLog, fileLock, pass, restore, touched>>
        /\ bounds' = [bounds EXCEPT !["deletes"] = @ + 1]
    BY DEF DeletesOriginal, Spend
  <1>2. OcrTypes'
    BY <1>1 DEF OcrInv, OcrTypes
  <1>3. PassHasFile' /\ PassHasLock' /\ CommitKnows' /\ RestoresHaveLock' /\ RestoresHaveId'
        /\ RestoreKnows'
    BY <1>1 DEF OcrInv, PassHasFile, PassHasLock, CommitKnows, Committing, RestoresHaveLock,
                RestoresHaveId, RestoreKnows
  <1>4. \A u \in Revisions : kept'[u] = IF u = v THEN NoFile ELSE kept[u]
    BY <1>1 DEF OcrInv, OcrTypes
  <1>5. CopiesAreRight'
    BY <1>4 DEF OcrInv, CopiesAreRight
  <1>6. OriginalsAreKept'
    <2> SUFFICES ASSUME NEW file \in rewritten, file # kept[v]
                 PROVE  kept'[file.rev] = file /\ file.rev \in mapped'
      BY <1>1 DEF OriginalsAreKept
    <2>1. kept[file.rev] = file /\ file.rev \in mapped /\ file.rev \in Revisions
      BY FileFacts DEF OcrInv, OcrTypes, OriginalsAreKept
    <2> QED  BY <1>1, <1>4, <2>1
  <1> QED  BY <1>2, <1>3, <1>5, <1>6 DEF OcrInv

LEMMA EditsKeep ==
    ASSUME OcrInv, Overlaps = {}, UserEdits
    PROVE  OcrInv'
  <1>1. /\ ~Committing /\ touched' = TRUE
        /\ live' \in {Saved(v) : v \in Revisions} \union {NoFile}
        /\ UNCHANGED <<ocrLog, kept, mapped, fileLock, pass, restore, rewritten>>
        /\ bounds' = [bounds EXCEPT !["edits"] = @ + 1]
    BY DEF UserEdits, Spend
  <1>2. live' \in Files \union {NoFile}
    BY <1>1, FileFacts
  <1>3. OcrTypes'
    BY <1>1, <1>2 DEF OcrInv, OcrTypes
  <1>4. PassHasFile' /\ PassHasLock' /\ CommitKnows' /\ RestoresHaveLock' /\ RestoresHaveId'
        /\ RestoreKnows'
    BY <1>1 DEF OcrInv, PassHasFile, PassHasLock, CommitKnows, Committing, RestoresHaveLock,
                RestoresHaveId, RestoreKnows
  <1>5. CopiesAreRight' /\ OriginalsAreKept'
    BY <1>1 DEF OcrInv, CopiesAreRight, OriginalsAreKept
  <1> QED  BY <1>3, <1>4, <1>5 DEF OcrInv

LEMMA StopsKeep ==
    ASSUME OcrInv, OcrStops
    PROVE  OcrInv'
  <1>1. /\ pass' = IdlePass /\ fileLock' = NoOne
        /\ restore' = [r \in Restorers |-> [restore[r] EXCEPT !.step = Stopped(@)]]
        /\ UNCHANGED <<live, ocrLog, kept, mapped, touched, rewritten>>
        /\ bounds' = [bounds EXCEPT !["crashes"] = @ + 1]
    BY DEF OcrStops, Spend
  <1>2. pass' = [step |-> "idle", file |-> NoFile] /\ ~Committing'
    BY <1>1 DEF IdlePass, Committing
  <1>3. ASSUME NEW r \in Restorers
        PROVE  /\ restore'[r] = [restore[r] EXCEPT !.step = Stopped(restore[r].step)]
               /\ Stopped(restore[r].step) \in RestoreSteps \ RestoreLocked
    BY <1>1 DEF OcrInv, OcrTypes, Stopped, RestoreSteps, RestoreLocked
  <1>4. restore' \in [Restorers -> [step : RestoreSteps, id : Revisions \union {NoOne},
                                    consent : BOOLEAN, saw : Files \union {NoFile}]]
    <2>1. ASSUME NEW r \in Restorers, NEW s \in RestoreSteps
          PROVE  [restore[r] EXCEPT !.step = s] \in
                     [step : RestoreSteps, id : Revisions \union {NoOne},
                      consent : BOOLEAN, saw : Files \union {NoFile}]
      BY DEF OcrInv, OcrTypes
    <2> QED  BY <1>1, <1>3, <2>1
  <1>5. OcrTypes'
    BY <1>1, <1>2, <1>4 DEF OcrInv, OcrTypes, PassSteps
  <1>6. \A r \in Restorers : restore'[r].step \notin RestoreLocked
    <2>1. ASSUME NEW r \in Restorers
          PROVE  [restore[r] EXCEPT !.step = Stopped(restore[r].step)].step
                     = Stopped(restore[r].step)
      BY DEF OcrInv, OcrTypes
    <2> QED  BY <1>3, <2>1
  <1>7. PassHasFile' /\ PassHasLock' /\ CommitKnows' /\ RestoresHaveLock' /\ RestoresHaveId'
        /\ RestoreKnows'
    BY <1>1, <1>2, <1>6 DEF PassHasFile, PassHasLock, CommitKnows, RestoresHaveLock,
                RestoresHaveId, RestoreKnows, RestoreLocked
  <1>8. CopiesAreRight' /\ OriginalsAreKept'
    BY <1>1 DEF OcrInv, CopiesAreRight, OriginalsAreKept
  <1> QED  BY <1>5, <1>7, <1>8 DEF OcrInv

(* Each step of the pass, the restores, the users and the service.         *)
LEMMA OcrStep ==
    ASSUME OcrInv, Overlaps = {}, [OcrNext]_ocrVars
    PROVE  OcrInv'
  <1>1. CASE PassReads \/ PassSkips \/ PassNoticesEdit
    BY <1>1, PassMovesKeep
  <1>2. CASE PassLeaves \/ RewriteBegins
    BY <1>2, PassLeavesKeeps, RewriteBeginsKeeps
  <1>3. CASE KeepsOriginal \/ WritesSidecar \/ RewriteFails
    BY <1>3, KeepsOriginalKeeps, WritesSidecarKeeps, RewriteFailsKeeps
  <1>4. CASE PassReplaces \/ PassRecords
    BY <1>4, PassReplacesKeeps, PassRecordsKeeps
  <1>5. ASSUME NEW r \in Restorers, RestoreRefused(r) PROVE OcrInv'
    BY <1>5, RestoreMoves DEF RestoreRefused, RestoreSteps
  <1>6. ASSUME NEW r \in Restorers, NEW v \in Revisions, NEW consent \in BOOLEAN,
               RestoreInspects(r, v, consent)
        PROVE  OcrInv'
    BY <1>6, RestoreInspectsKeeps
  <1>7. ASSUME NEW r \in Restorers, RestoreCopies(r) PROVE OcrInv'
    BY <1>7, RestoreMoves DEF RestoreCopies, RestoreSteps, RestoreLocked
  <1>8. ASSUME NEW r \in Restorers, RestoreGivesUp(r) PROVE OcrInv'
    BY <1>8, RestoreMoves DEF RestoreGivesUp, RestoreSteps, RestoreLocked
  <1>9. ASSUME NEW r \in Restorers, RestoreSwaps(r) \/ RestoreRecords(r) PROVE OcrInv'
    BY <1>9, RestoreSwapsKeeps, RestoreRecordsKeeps
  <1>10. ASSUME NEW v \in Revisions, DeletesOriginal(v) PROVE OcrInv'
    BY <1>10, DeletesKeep
  <1>11. CASE UserEdits \/ OcrStops
    BY <1>11, EditsKeep, StopsKeep
  <1>12. CASE UNCHANGED ocrVars
    BY <1>12 DEF ocrVars, OcrInv, OcrTypes, PassHasFile, PassHasLock, CommitKnows, Committing,
             RestoresHaveLock, RestoresHaveId, RestoreKnows, CopiesAreRight, OriginalsAreKept
  <1> QED
    BY <1>1, <1>2, <1>3, <1>4, <1>5, <1>6, <1>7, <1>8, <1>9, <1>10, <1>11, <1>12
       DEF OcrNext, PassStep, RestoreStep

(***************************************************************************)
(* Who replaces the file: the pass what it has kept, a restore what it has *)
(* been let replace, and everybody else counts as a user.                  *)
(***************************************************************************)
LEMMA WhoReplaces ==
    ASSUME OcrInv, [OcrNext]_ocrVars, live' # live
    PROVE  \/ PassReplaces
           \/ \E r \in Restorers : RestoreSwaps(r)
           \/ UserEdits
  BY DEF OcrNext, ocrVars, PassReads, PassStep, PassSkips, PassLeaves, PassNoticesEdit,
         RewriteBegins, KeepsOriginal, WritesSidecar, RewriteFails, PassRecords,
         RestoreRefused, RestoreStep, RestoreCopies, RestoreGivesUp, RestoreRecords,
         RestoreInspects, DeletesOriginal, OcrStops

(***************************************************************************)
(* What OCR replaced can be restored until somebody deletes it, for all    *)
(* files, requests and crashes, if commits are not overlapped.             *)
(***************************************************************************)
THEOREM ReplacedFilesAreKept ==
    ASSUME Overlaps = {}
    PROVE  OcrSpec => []OriginalsAreKept
  <1>1. OcrSpec => []OcrInv
    BY OcrStarts, OcrStep, PTL DEF OcrSpec
  <1>2. OcrInv => OriginalsAreKept
    BY DEF OcrInv
  <1> QED  BY <1>1, <1>2, PTL

(***************************************************************************)
(* A pass that read the file before a restore does not undo it.            *)
(***************************************************************************)
THEOREM RestoresAreFinal ==
    ASSUME Overlaps = {}
    PROVE  OcrSpec => RestoreStands
  <1>1. OcrSpec => []OcrInv
    BY OcrStarts, OcrStep, PTL DEF OcrSpec
  <1>2. ASSUME OcrInv, [OcrNext]_ocrVars
        PROVE  [\A v \in Revisions :
                    live = Saved(v) /\ ocrLog[live] = "restored" => live' # Searchable(v)]_ocrVars
    <2> SUFFICES ASSUME NEW v \in Revisions, live = Saved(v), ocrLog[live] = "restored"
                 PROVE  live' # Searchable(v)
      OBVIOUS
    <2>1. Saved(v) # Searchable(v) /\ \A u \in Revisions : Saved(u) # Searchable(v)
      BY FileFacts
    <2>2. NoFile # Searchable(v)
      BY FileFacts
    <2>3. CASE live' = live
      BY <1>2, <2>1, <2>3
    <2>4. CASE PassReplaces
      BY <1>2, <2>4 DEF PassReplaces, OcrInv, CommitKnows, Committing
    <2>5. ASSUME NEW r \in Restorers, RestoreSwaps(r) PROVE live' # Searchable(v)
      BY <1>2, <2>1, <2>5 DEF RestoreSwaps, OcrInv, RestoresHaveId, RestoreLocked
    <2>6. CASE UserEdits
      BY <2>1, <2>2, <2>6 DEF UserEdits
    <2> QED  BY <1>2, <2>3, <2>4, <2>5, <2>6, WhoReplaces
  <1> QED  BY <1>1, <1>2, PTL DEF OcrSpec, RestoreStands

(***************************************************************************)
(* The service replaces what a user saved only if it keeps it, or if the   *)
(* caller of a restore saw it and agreed.                                  *)
(***************************************************************************)
THEOREM NothingSavedIsLost ==
    ASSUME Overlaps = {}
    PROVE  OcrSpec => SavesSurviveRestores
  <1>1. OcrSpec => []OcrInv
    BY OcrStarts, OcrStep, PTL DEF OcrSpec
  <1>2. ASSUME OcrInv, [OcrNext]_ocrVars
        PROVE  [live # NoFile /\ live' # live /\ bounds'.edits = bounds.edits =>
                    \/ live.text
                    \/ kept[live.rev] = live /\ live.rev \in mapped
                    \/ \E r \in Restorers :
                          fileLock = r /\ restore[r].consent /\ restore[r].saw = live]_ocrVars
    <2> SUFFICES ASSUME live # NoFile, live' # live, bounds'.edits = bounds.edits
                 PROVE  \/ live.text
                        \/ kept[live.rev] = live /\ live.rev \in mapped
                        \/ \E r \in Restorers :
                              fileLock = r /\ restore[r].consent /\ restore[r].saw = live
      OBVIOUS
    <2>1. PassReplaces => kept[live.rev] = live /\ live.rev \in mapped
      <3> SUFFICES ASSUME PassReplaces PROVE kept[live.rev] = live /\ live.rev \in mapped
        OBVIOUS
      <3>1. pass.step = "replace" /\ Committing
        BY DEF PassReplaces, Committing
      <3> QED  BY <1>2, <3>1 DEF OcrInv, CommitKnows
    <2>2. ASSUME NEW r \in Restorers, RestoreSwaps(r)
          PROVE  live.text \/ (fileLock = r /\ restore[r].consent /\ restore[r].saw = live)
      <3>1. restore[r].step = "swap" /\ ~touched /\ live' = Saved(restore[r].id)
        BY <2>2 DEF RestoreSwaps, Unchanged
      <3>2. fileLock = r /\ restore[r].id \in Revisions
        BY <1>2, <3>1 DEF OcrInv, RestoresHaveLock, RestoresHaveId, RestoreLocked
      <3>3. live = restore[r].saw /\ (restore[r].consent \/ live = Searchable(restore[r].id))
        BY <1>2, <3>1 DEF OcrInv, RestoreKnows
      <3> QED  BY <3>2, <3>3, FileFacts
    <2>3. ~UserEdits
      <3> SUFFICES ASSUME UserEdits PROVE FALSE
        OBVIOUS
      <3>1. bounds' = [bounds EXCEPT !["edits"] = @ + 1]
        BY DEF UserEdits, Spend
      <3> QED  BY <1>2, <3>1 DEF OcrInv, OcrTypes
    <2> QED  BY <1>2, <2>1, <2>2, <2>3, WhoReplaces
  <1> QED  BY <1>1, <1>2, PTL DEF OcrSpec, SavesSurviveRestores

(***************************************************************************)
(* The locks need no assumption on who overlaps: the pass and the restores *)
(* exclude each other whatever users do to the file meanwhile.             *)
(***************************************************************************)
OcrLocks == OcrTypes /\ PassHasFile /\ PassHasLock /\ RestoresHaveLock /\ RestoresHaveId

LEMMA OcrLocksStart == OcrInit => OcrLocks
  BY OcrStarts DEF OcrInv, OcrLocks

(* Whoever leaves the pass, the restores and the lock alone.               *)
LEMMA OthersKeepLocks ==
    ASSUME OcrLocks, UNCHANGED <<fileLock, pass, restore>>, OcrTypes'
    PROVE  OcrLocks'
  BY DEF OcrLocks, PassHasFile, PassHasLock, RestoresHaveLock, RestoresHaveId, Committing

(* A pass that moves on with its file, in the section or out of it.        *)
LEMMA PassKeepsLocks ==
    ASSUME OcrLocks, UNCHANGED restore, OcrTypes',
           pass' = IdlePass \/ pass'.file \in Files,
           fileLock \in {NoOne, "pass"}, fileLock' \in {NoOne, "pass"},
           fileLock' = "pass" <=> pass'.step \in {"keep", "map", "replace", "record"}
    PROVE  OcrLocks'
  <1>1. PassHasFile'
    BY DEF IdlePass, PassHasFile
  <1>2. PassHasLock'
    BY DEF PassHasLock, Committing
  <1>3. \A r \in Restorers : restore[r].step \notin RestoreLocked
    BY DEF OcrLocks, RestoresHaveLock
  <1>4. RestoresHaveLock' /\ RestoresHaveId'
    BY <1>3 DEF RestoresHaveLock, RestoresHaveId
  <1> QED  BY <1>1, <1>2, <1>4 DEF OcrLocks

(* What a pass does to the files and to the log keeps their types.         *)
LEMMA PassKeepsLocksAndTypes ==
    ASSUME OcrLocks, PassReads \/ PassStep
    PROVE  OcrLocks'
  <1>1. CASE PassReads \/ PassSkips \/ PassNoticesEdit
    <2>1. /\ UNCHANGED <<live, ocrLog, kept, mapped, fileLock, restore, touched, rewritten>>
          /\ bounds' \in [passes : Nat, edits : Nat, deletes : Nat, crashes : Nat]
          /\ pass.step \in {"idle", "ocr"}
      BY <1>1 DEF PassReads, PassSkips, PassNoticesEdit, OutputArrives, Spend, OcrLocks, OcrTypes
    <2>2. /\ pass' \in [step : PassSteps, file : Files \union {NoFile}]
          /\ pass'.step \in {"idle", "ocr"}
          /\ pass'.step = "ocr" => pass'.file \in Files
      BY <1>1 DEF PassReads, PassSkips, PassNoticesEdit, IdlePass, PassSteps, OcrLocks, OcrTypes
    <2>3. OcrTypes' /\ PassHasFile' /\ RestoresHaveLock' /\ RestoresHaveId'
      BY <2>1, <2>2 DEF OcrLocks, OcrTypes, PassHasFile, RestoresHaveLock, RestoresHaveId
    <2>4. PassHasLock'
      BY <2>1, <2>2 DEF OcrLocks, PassHasLock, Committing
    <2> QED  BY <2>3, <2>4 DEF OcrLocks
  <1>2. CASE PassLeaves
    <2>1. /\ fileLock = NoOne /\ pass' = IdlePass
          /\ ocrLog' \in [Files -> {"none", "left", "ocred", "restored"}]
          /\ UNCHANGED <<live, kept, mapped, fileLock, restore, touched, rewritten, bounds>>
      BY <1>2 DEF PassLeaves, OutputArrives, OcrLocks, OcrTypes
    <2>2. OcrTypes'
      BY <2>1 DEF OcrLocks, OcrTypes, IdlePass, PassSteps
    <2> QED  BY <2>1, <2>2, PassKeepsLocks DEF IdlePass
  <1>3. CASE RewriteBegins
    <2>1. /\ fileLock = NoOne /\ fileLock' = "pass" /\ pass.file \in Files
          /\ pass' \in [step : PassSteps, file : Files \union {NoFile}]
          /\ pass'.file = pass.file /\ pass'.step = "keep"
          /\ UNCHANGED <<live, ocrLog, kept, mapped, restore, touched, rewritten, bounds>>
      BY <1>3 DEF RewriteBegins, OutputArrives, OcrLocks, OcrTypes, PassSteps, PassHasFile
    <2>2. OcrTypes'
      BY <2>1 DEF OcrLocks, OcrTypes
    <2> QED  BY <2>1, <2>2, PassKeepsLocks
  <1>4. ASSUME KeepsOriginal \/ WritesSidecar \/ RewriteFails \/ PassReplaces \/ PassRecords
        PROVE  fileLock = "pass" /\ pass.file \in Files /\ pass.file.rev \in Revisions
    BY <1>4, FileFacts
       DEF KeepsOriginal, WritesSidecar, RewriteFails, PassReplaces, PassRecords, OcrLocks,
           PassHasLock, PassHasFile, Committing
  <1>5. CASE KeepsOriginal
    <2>1. /\ pass' \in [step : PassSteps, file : Files \union {NoFile}]
          /\ pass'.file = pass.file /\ pass'.step = "map"
          /\ kept' \in [Revisions -> Files \union {NoFile}]
          /\ UNCHANGED <<live, ocrLog, mapped, fileLock, restore, touched, rewritten, bounds>>
      BY <1>4, <1>5 DEF KeepsOriginal, AfterCopy, OcrLocks, OcrTypes, PassSteps
    <2>2. OcrTypes'
      BY <2>1 DEF OcrLocks, OcrTypes
    <2> QED  BY <1>4, <1>5, <2>1, <2>2, PassKeepsLocks
  <1>6. CASE WritesSidecar
    <2>1. /\ pass' \in [step : PassSteps, file : Files \union {NoFile}]
          /\ pass'.file = pass.file /\ pass'.step = "replace"
          /\ mapped' \subseteq Revisions
          /\ UNCHANGED <<live, ocrLog, kept, fileLock, restore, touched, rewritten, bounds>>
      BY <1>4, <1>6 DEF WritesSidecar, OcrLocks, OcrTypes, PassSteps
    <2>2. OcrTypes'
      BY <2>1 DEF OcrLocks, OcrTypes
    <2> QED  BY <1>4, <1>6, <2>1, <2>2, PassKeepsLocks
  <1>7. CASE RewriteFails
    <2>1. /\ pass' = IdlePass /\ fileLock' = NoOne
          /\ UNCHANGED <<live, ocrLog, kept, mapped, restore, touched, rewritten, bounds>>
      BY <1>7 DEF RewriteFails
    <2>2. OcrTypes'
      BY <2>1 DEF OcrLocks, OcrTypes, IdlePass, PassSteps
    <2> QED  BY <1>4, <1>7, <2>1, <2>2, OcrNames, PassKeepsLocks DEF IdlePass
  <1>8. CASE PassReplaces
    <2>1. /\ pass' \in [step : PassSteps, file : Files \union {NoFile}]
          /\ pass'.file = pass.file /\ pass'.step = "record"
          /\ live' \in Files /\ touched' = TRUE /\ rewritten' \subseteq Files
          /\ UNCHANGED <<ocrLog, kept, mapped, fileLock, restore, bounds>>
      BY ZenonT(60), <1>4, <1>8, FileFacts DEF PassReplaces, OcrLocks, OcrTypes, PassSteps
    <2>2. OcrTypes'
      BY <2>1 DEF OcrLocks, OcrTypes
    <2> QED  BY <1>4, <1>8, <2>1, <2>2, PassKeepsLocks
  <1>9. CASE PassRecords
    <2>1. /\ pass' = IdlePass /\ fileLock' = NoOne
          /\ ocrLog' \in [Files -> {"none", "left", "ocred", "restored"}]
          /\ UNCHANGED <<live, kept, mapped, restore, touched, rewritten, bounds>>
      BY <1>4, <1>9, FileFacts DEF PassRecords, OcrLocks, OcrTypes
    <2>2. OcrTypes'
      BY <2>1 DEF OcrLocks, OcrTypes, IdlePass, PassSteps
    <2> QED  BY <1>4, <1>9, <2>1, <2>2, OcrNames, PassKeepsLocks DEF IdlePass
  <1> QED
    BY <1>1, <1>2, <1>3, <1>5, <1>6, <1>7, <1>8, <1>9 DEF PassStep

(* A restore that moves to a step, with the lock it needs there.           *)
LEMMA RestoreKeepsLocks ==
    ASSUME OcrLocks, NEW r \in Restorers, NEW asked,
           asked \in [step : RestoreSteps, id : Revisions \union {NoOne},
                      consent : BOOLEAN, saw : Files \union {NoFile}],
           restore' = [restore EXCEPT ![r] = asked],
           asked.step \in RestoreLocked => asked.id \in Revisions,
           fileLock \in {NoOne, r},
           fileLock' = IF asked.step \in RestoreLocked THEN r ELSE NoOne,
           live' \in Files \union {NoFile}, touched' \in BOOLEAN,
           ocrLog' \in [Files -> {"none", "left", "ocred", "restored"}],
           UNCHANGED <<kept, mapped, pass, rewritten, bounds>>
    PROVE  OcrLocks'
  <1>1. \A q \in Restorers : restore'[q] = IF q = r THEN asked ELSE restore[q]
    BY DEF OcrLocks, OcrTypes
  <1>2. OcrTypes' /\ PassHasFile'
    BY DEF OcrLocks, OcrTypes, PassHasFile
  <1>3. fileLock # "pass" /\ fileLock' # "pass"
    BY OcrNames
  <1>4. PassHasLock'
    BY <1>3 DEF OcrLocks, PassHasLock, Committing
  <1>5. \A q \in Restorers : q # r => restore[q].step \notin RestoreLocked
    BY DEF OcrLocks, RestoresHaveLock
  <1>6. RestoresHaveLock' /\ RestoresHaveId'
    BY <1>1, <1>5 DEF RestoresHaveLock, RestoresHaveId
  <1> QED  BY <1>2, <1>4, <1>6 DEF OcrLocks

LEMMA RestoresKeepLocks ==
    ASSUME OcrLocks, NEW r \in Restorers,
           \/ RestoreRefused(r) \/ RestoreStep(r)
           \/ \E v \in Revisions, consent \in BOOLEAN : RestoreInspects(r, v, consent)
    PROVE  OcrLocks'
  <1> DEFINE asked == restore'[r]
             moved(s) == [restore[r] EXCEPT !.step = s]
  <1>1. ASSUME NEW s \in RestoreSteps, Restoring(r, s)
        PROVE  /\ restore' = [restore EXCEPT ![r] = moved(s)]
               /\ moved(s) \in [step : RestoreSteps, id : Revisions \union {NoOne},
                                consent : BOOLEAN, saw : Files \union {NoFile}]
               /\ moved(s).step = s /\ moved(s).id = restore[r].id
    BY <1>1 DEF Restoring, OcrLocks, OcrTypes
  <1>2. restore[r].step \in RestoreLocked => fileLock = r /\ restore[r].id \in Revisions
    BY DEF OcrLocks, RestoresHaveLock, RestoresHaveId
  <1>3. CASE RestoreRefused(r) \/ RestoreGivesUp(r)
    <2>1. /\ Restoring(r, "refused") /\ fileLock' = NoOne /\ fileLock \in {NoOne, r}
          /\ UNCHANGED <<live, ocrLog, kept, mapped, pass, touched, rewritten, bounds>>
      BY <1>2, <1>3 DEF RestoreRefused, RestoreGivesUp, RestoreLocked
    <2>2. "refused" \in RestoreSteps \ RestoreLocked
      BY DEF RestoreSteps, RestoreLocked
    <2> HIDE DEF moved
    <2> QED  BY <1>1, <2>1, <2>2, RestoreKeepsLocks DEF OcrLocks, OcrTypes
  <1>4. CASE RestoreCopies(r)
    <2>1. /\ Restoring(r, "swap") /\ fileLock' = r /\ fileLock = r /\ restore[r].id \in Revisions
          /\ UNCHANGED <<live, ocrLog, kept, mapped, pass, touched, rewritten, bounds>>
      BY <1>2, <1>4 DEF RestoreCopies, RestoreLocked
    <2>2. "swap" \in RestoreSteps /\ "swap" \in RestoreLocked
      BY DEF RestoreSteps, RestoreLocked
    <2> HIDE DEF moved
    <2> QED  BY <1>1, <2>1, <2>2, RestoreKeepsLocks DEF OcrLocks, OcrTypes
  <1>5. CASE RestoreSwaps(r)
    <2>1. /\ Restoring(r, "record") /\ fileLock' = r /\ fileLock = r
          /\ restore[r].id \in Revisions /\ live' \in Files
          /\ UNCHANGED <<ocrLog, kept, mapped, pass, touched, rewritten, bounds>>
      BY <1>2, <1>5, FileFacts DEF RestoreSwaps, RestoreLocked
    <2>2. "record" \in RestoreSteps /\ "record" \in RestoreLocked
      BY DEF RestoreSteps, RestoreLocked
    <2> HIDE DEF moved
    <2> QED  BY <1>1, <2>1, <2>2, RestoreKeepsLocks DEF OcrLocks, OcrTypes
  <1>6. CASE RestoreRecords(r)
    <2>1. /\ Restoring(r, "restored") /\ fileLock' = NoOne /\ fileLock = r
          /\ ocrLog' \in [Files -> {"none", "left", "ocred", "restored"}]
          /\ UNCHANGED <<live, kept, mapped, pass, touched, rewritten, bounds>>
      BY <1>2, <1>6 DEF RestoreRecords, RestoreLocked, OcrLocks, OcrTypes
    <2>2. "restored" \in RestoreSteps \ RestoreLocked
      BY DEF RestoreSteps, RestoreLocked
    <2> HIDE DEF moved
    <2> QED  BY <1>1, <2>1, <2>2, RestoreKeepsLocks DEF OcrLocks, OcrTypes
  <1>7. ASSUME NEW v \in Revisions, NEW consent \in BOOLEAN, RestoreInspects(r, v, consent)
        PROVE  OcrLocks'
    <2> DEFINE opened == [step |-> "copy", id |-> v, consent |-> consent, saw |-> live]
    <2>1. /\ restore' = [restore EXCEPT ![r] = opened]
          /\ fileLock = NoOne /\ fileLock' = r /\ touched' = FALSE
          /\ UNCHANGED <<live, ocrLog, kept, mapped, pass, rewritten, bounds>>
      BY <1>7 DEF RestoreInspects
    <2>2. /\ opened \in [step : RestoreSteps, id : Revisions \union {NoOne},
                         consent : BOOLEAN, saw : Files \union {NoFile}]
          /\ opened.step \in RestoreLocked /\ opened.id = v
      BY DEF OcrLocks, OcrTypes, RestoreSteps, RestoreLocked
    <2> HIDE DEF opened
    <2> QED  BY <2>1, <2>2, RestoreKeepsLocks DEF OcrLocks, OcrTypes
  <1> QED  BY <1>3, <1>4, <1>5, <1>6, <1>7 DEF RestoreStep

LEMMA OcrLocksKept == OcrLocks /\ [OcrNext]_ocrVars => OcrLocks'
  <1> SUFFICES ASSUME OcrLocks, [OcrNext]_ocrVars PROVE OcrLocks'
    OBVIOUS
  <1>1. CASE PassReads \/ PassStep
    BY <1>1, PassKeepsLocksAndTypes
  <1>2. ASSUME NEW r \in Restorers,
               \/ RestoreRefused(r) \/ RestoreStep(r)
               \/ \E v \in Revisions, consent \in BOOLEAN : RestoreInspects(r, v, consent)
        PROVE  OcrLocks'
    BY <1>2, RestoresKeepLocks
  <1>3. ASSUME NEW v \in Revisions, DeletesOriginal(v) PROVE OcrLocks'
    <2>1. /\ kept' \in [Revisions -> Files \union {NoFile}]
          /\ mapped' \subseteq Revisions /\ rewritten' \subseteq Files
          /\ bounds' \in [passes : Nat, edits : Nat, deletes : Nat, crashes : Nat]
          /\ UNCHANGED <<live, ocrLog, fileLock, pass, restore, touched>>
      BY <1>3 DEF DeletesOriginal, Spend, OcrLocks, OcrTypes
    <2>2. OcrTypes'
      BY <2>1 DEF OcrLocks, OcrTypes
    <2> QED  BY <2>1, <2>2, OthersKeepLocks
  <1>4. CASE UserEdits
    <2>1. /\ live' \in Files \union {NoFile} /\ touched' = TRUE
          /\ bounds' \in [passes : Nat, edits : Nat, deletes : Nat, crashes : Nat]
          /\ UNCHANGED <<ocrLog, kept, mapped, fileLock, pass, restore, rewritten>>
      BY <1>4, FileFacts DEF UserEdits, Spend, OcrLocks, OcrTypes
    <2>2. OcrTypes'
      BY <2>1 DEF OcrLocks, OcrTypes
    <2> QED  BY <2>1, <2>2, OthersKeepLocks
  <1>5. CASE OcrStops
    <2>1. /\ pass' = IdlePass /\ fileLock' = NoOne
          /\ bounds' \in [passes : Nat, edits : Nat, deletes : Nat, crashes : Nat]
          /\ restore' = [r \in Restorers |-> [restore[r] EXCEPT !.step = Stopped(@)]]
          /\ UNCHANGED <<live, ocrLog, kept, mapped, touched, rewritten>>
      BY <1>5 DEF OcrStops, Spend, OcrLocks, OcrTypes
    <2>2. ASSUME NEW r \in Restorers
          PROVE  /\ restore'[r] \in [step : RestoreSteps, id : Revisions \union {NoOne},
                                     consent : BOOLEAN, saw : Files \union {NoFile}]
                 /\ restore'[r].step \notin RestoreLocked
      <3>1. /\ restore'[r] = [restore[r] EXCEPT !.step = Stopped(restore[r].step)]
            /\ Stopped(restore[r].step) \in RestoreSteps \ RestoreLocked
        BY <2>1 DEF Stopped, OcrLocks, OcrTypes, RestoreSteps, RestoreLocked
      <3>2. ASSUME NEW s \in RestoreSteps
            PROVE  /\ [restore[r] EXCEPT !.step = s].step = s
                   /\ [restore[r] EXCEPT !.step = s] \in
                          [step : RestoreSteps, id : Revisions \union {NoOne},
                           consent : BOOLEAN, saw : Files \union {NoFile}]
        BY DEF OcrLocks, OcrTypes
      <3> QED  BY <3>1, <3>2
    <2>3. DOMAIN restore' = Restorers /\ restore' = [r \in Restorers |-> restore'[r]]
      BY <2>1
    <2>4. OcrTypes'
      BY <2>1, <2>2, <2>3 DEF OcrLocks, OcrTypes, IdlePass, PassSteps
    <2> QED
      BY <2>1, <2>2, <2>4, OcrNames
         DEF OcrLocks, PassHasFile, PassHasLock, RestoresHaveLock, RestoresHaveId, IdlePass,
             Committing
  <1>6. CASE UNCHANGED ocrVars
    BY <1>6 DEF ocrVars, OcrLocks, OcrTypes, PassHasFile, PassHasLock, Committing,
                RestoresHaveLock, RestoresHaveId
  <1> QED  BY <1>1, <1>2, <1>3, <1>4, <1>5, <1>6 DEF OcrNext

(* Whoever overlaps: every file, copy and request keeps its type, and the  *)
(* lock is the pass's exactly while it commits and a restore's while it    *)
(* replaces.                                                               *)
LEMMA OcrTypesFollow == OcrLocks => OcrTypeOK
  BY DEF OcrLocks, OcrTypes, OcrTypeOK, PassHasLock, RestoresHaveLock, RestoreLocked

THEOREM OcrTypesHold == OcrSpec => []OcrTypeOK
  BY OcrLocksStart, OcrLocksKept, OcrTypesFollow, PTL DEF OcrSpec

------------------------------------------------------------------------------
(***************************************************************************)
(* Proofs, for every number of tries, windows, saves and outages, that the *)
(* controller's state keeps its types and that a worker nobody wants stops *)
(* within the unreachable window.  That is not inductive: what bounds the  *)
(* time a worker outlives its document is the age of the document the      *)
(* controller last saw, which a running worker keeps below the window.     *)
(***************************************************************************)

WindowInv ==
    /\ document.wanted => offFor = 0
    /\ child => offFor <= age /\ age < UnreachableAfter

USE RuntimeAssumption

(* The controller starts with no worker and the oldest of documents.       *)
LEMMA RuntimeStarts == RuntimeInit => RuntimeTypeOK /\ WindowInv
  <1> SUFFICES ASSUME RuntimeInit PROVE RuntimeTypeOK /\ WindowInv
    OBVIOUS
  <1>1. document \in [revision : 0 .. MaxSaves, wanted : BOOLEAN]
    BY DEF RuntimeInit
  <1>2. child \in BOOLEAN
    BY DEF RuntimeInit
  <1>3. known \in 0 .. NoRevision /\ tries \in 0 .. MaxStarts /\ latched \in 0 .. Unlatched
    BY DEF RuntimeInit, NoRevision, Unlatched
  <1>4. /\ age \in 0 .. UnreachableAfter /\ offFor \in 0 .. UnreachableAfter + 1
        /\ outages \in 0 .. MaxOutages /\ exits \in 0 .. MaxExits
    BY DEF RuntimeInit
  <1>5. WindowInv
    BY DEF RuntimeInit, WindowInv
  <1> QED  BY <1>1, <1>2, <1>3, <1>4, <1>5 DEF RuntimeTypeOK

(* What a poll adds to the ages and the latch is within their bounds.      *)
LEMMA PollTypes ==
    ASSUME RuntimeTypeOK
    PROVE  /\ Older \in 0 .. UnreachableAfter /\ Older <= age + 1
           /\ Older < UnreachableAfter => Older = age + 1
           /\ Waited \in 0 .. Unlatched
           /\ TriesNow \in 0 .. MaxStarts
           /\ LatchNow \in 0 .. Unlatched
  <1>1. age \in 0 .. UnreachableAfter /\ latched \in 0 .. RetryAfter + 1 /\ tries \in 0 .. MaxStarts
    BY DEF RuntimeTypeOK, Unlatched
  <1>2. Older \in 0 .. UnreachableAfter /\ Older <= age + 1
    BY <1>1 DEF Older, Capped
  <1>3. Older < UnreachableAfter => Older = age + 1
    BY <1>1 DEF Older, Capped
  <1>4. Waited \in 0 .. Unlatched
    BY <1>1 DEF Waited, Capped, Unlatched
  <1> QED  BY <1>1, <1>2, <1>3, <1>4 DEF TriesNow, LatchNow, Unlatched

(* The history counts on while the document does not want the worker.      *)
LEMMA OffTypes ==
    ASSUME RuntimeTypeOK, OffLonger
    PROVE  /\ offFor' \in 0 .. UnreachableAfter + 1 /\ offFor' <= offFor + 1
           /\ document.wanted => offFor' = 0
  <1>1. offFor \in 0 .. UnreachableAfter + 1
    BY DEF RuntimeTypeOK
  <1>2. offFor' = IF document.wanted THEN 0 ELSE Capped(offFor + 1, UnreachableAfter + 1)
    BY DEF OffLonger
  <1>3. Capped(offFor + 1, UnreachableAfter + 1) \in 0 .. UnreachableAfter + 1
        /\ Capped(offFor + 1, UnreachableAfter + 1) <= offFor + 1
    BY <1>1 DEF Capped
  <1> QED  BY <1>1, <1>2, <1>3

(* A save keeps both: a document that stops wanting the worker starts the  *)
(* clock at nought.                                                        *)
LEMMA SaveKeeps ==
    ASSUME RuntimeTypeOK, WindowInv, NEW wanted \in BOOLEAN, OwnerSaves(wanted)
    PROVE  RuntimeTypeOK' /\ WindowInv'
  <1>1. /\ document' = [revision |-> document.revision + 1, wanted |-> wanted]
        /\ document.revision \in 0 .. MaxSaves /\ document.revision < MaxSaves
        /\ offFor' = IF wanted THEN 0 ELSE offFor
        /\ UNCHANGED <<child, known, tries, latched, age, outages, exits>>
    BY DEF OwnerSaves, RuntimeTypeOK
  <1>2. document' \in [revision : 0 .. MaxSaves, wanted : BOOLEAN] /\ document'.wanted = wanted
    BY <1>1
  <1>3. RuntimeTypeOK'
    BY <1>1, <1>2 DEF RuntimeTypeOK, NoRevision, Unlatched
  <1>4. WindowInv'
    BY <1>1, <1>2 DEF WindowInv, RuntimeTypeOK
  <1> QED  BY <1>3, <1>4

(* A poll that fails ages both clocks alike, and a worker survives it only *)
(* while the document is younger than the window.                          *)
LEMMA FailureKeeps ==
    ASSUME RuntimeTypeOK, WindowInv, NEW reached \in BOOLEAN, PollFails(reached)
    PROVE  RuntimeTypeOK' /\ WindowInv'
  <1>1. /\ outages < MaxOutages /\ outages' = outages + 1
        /\ age' = Older /\ latched' = Waited
        /\ child' = (child /\ Older < Patience(reached))
        /\ OffLonger /\ UNCHANGED <<document, known, tries, exits>>
    BY DEF PollFails
  <1>2. Patience(reached) \in Nat /\ Patience(reached) <= UnreachableAfter
    BY DEF Patience
  <1>3. RuntimeTypeOK'
    BY <1>1, PollTypes, OffTypes DEF RuntimeTypeOK, NoRevision
  <1>4. ASSUME child' PROVE offFor' <= age' /\ age' < UnreachableAfter
    <2>1. child /\ Older < Patience(reached)
      BY <1>1, <1>4
    <2>2. Older < UnreachableAfter /\ Older = age + 1
      BY <1>2, <2>1, PollTypes DEF RuntimeTypeOK
    <2>3. offFor' <= offFor + 1 /\ offFor <= age
      BY <1>1, <2>1, OffTypes DEF WindowInv
    <2> QED  BY <1>1, <2>2, <2>3, OffTypes DEF RuntimeTypeOK
  <1>5. document'.wanted => offFor' = 0
    BY <1>1, OffTypes
  <1> QED  BY <1>3, <1>4, <1>5 DEF WindowInv

(* An answer leaves a worker only where the document wants one.            *)
LEMMA AnswerKeeps ==
    ASSUME RuntimeTypeOK, WindowInv, PollAnswers
    PROVE  RuntimeTypeOK' /\ WindowInv'
  <1>1. /\ age' = 0 /\ known' = document.revision
        /\ OffLonger /\ UNCHANGED <<document, outages>>
    BY DEF PollAnswers, Rests, Latches, Starts, Answered
  <1>2. child' \in BOOLEAN /\ (child' => document.wanted)
    BY DEF PollAnswers, Rests, Latches, Starts, RuntimeTypeOK
  <1>3. tries' \in 0 .. MaxStarts
    BY PollTypes DEF PollAnswers, Rests, Latches, Starts
  <1>4. latched' \in 0 .. Unlatched
    BY PollTypes DEF PollAnswers, Rests, Latches, Starts, Unlatched
  <1>5. exits' \in 0 .. MaxExits
    BY DEF PollAnswers, Rests, Latches, Starts, RuntimeTypeOK
  <1>6. RuntimeTypeOK'
    BY <1>1, <1>2, <1>3, <1>4, <1>5, OffTypes DEF RuntimeTypeOK, NoRevision, Unlatched
  <1>7. WindowInv'
    BY <1>1, <1>2, OffTypes DEF WindowInv
  <1> QED  BY <1>6, <1>7

(* Each step of the controller and of its surroundings keeps both.         *)
LEMMA RuntimeStep ==
    ASSUME RuntimeTypeOK, WindowInv, [RuntimeNext]_runtimeVars
    PROVE  RuntimeTypeOK' /\ WindowInv'
  <1>1. CASE \E wanted \in BOOLEAN : OwnerSaves(wanted)
    BY <1>1, SaveKeeps
  <1>2. CASE \E reached \in BOOLEAN : PollFails(reached)
    BY <1>2, FailureKeeps
  <1>3. CASE PollAnswers
    BY <1>3, AnswerKeeps
  <1>4. CASE ChildExits
    <2>1. /\ child' = FALSE /\ exits < MaxExits /\ exits' = exits + 1
          /\ UNCHANGED <<document, known, tries, latched, age, offFor, outages>>
      BY <1>4 DEF ChildExits
    <2>2. exits' \in 0 .. MaxExits
      BY <2>1 DEF RuntimeTypeOK
    <2>3. RuntimeTypeOK'
      BY <2>1, <2>2 DEF RuntimeTypeOK, NoRevision, Unlatched
    <2>4. WindowInv'
      BY <2>1 DEF WindowInv
    <2> QED  BY <2>3, <2>4
  <1>5. CASE UNCHANGED runtimeVars
    BY <1>5 DEF runtimeVars, RuntimeTypeOK, WindowInv, NoRevision, Unlatched
  <1> QED  BY <1>1, <1>2, <1>3, <1>4, <1>5 DEF RuntimeNext

(* The controller's state has its type, for all its settings.              *)
THEOREM RuntimeTypes == RuntimeSpec => []RuntimeTypeOK
  <1>1. RuntimeSpec => [](RuntimeTypeOK /\ WindowInv)
    BY RuntimeStarts, RuntimeStep, PTL DEF RuntimeSpec
  <1> QED  BY <1>1, PTL

(***************************************************************************)
(* A worker whose document no longer wants it stops within the unreachable *)
(* window, for all settings whose stale window is no longer than that one, *)
(* and whichever polls fail.                                               *)
(***************************************************************************)
THEOREM WorkerStopsInTime == RuntimeSpec => []OffWithinWindow
  <1>1. RuntimeSpec => [](RuntimeTypeOK /\ WindowInv)
    BY RuntimeStarts, RuntimeStep, PTL DEF RuntimeSpec
  <1>2. RuntimeTypeOK /\ WindowInv => OffWithinWindow
    BY DEF RuntimeTypeOK, WindowInv, OffWithinWindow
  <1> QED  BY <1>1, <1>2, PTL

-----------------------------------------------------------------------------
(***************************************************************************)
(* Backups, for every number of processes, destinations and captures.      *)
(* While there is one archive, the object at a destination stays what it   *)
(* became when it was first put there; so what a worker found delivered    *)
(* while it went through the destinations is still so when it finishes.    *)
(* That the row of a delivery says so too needs that one worker alone      *)
(* executes, which is true until one loses its lock at work.               *)
(***************************************************************************)
RunRecords ==
    [state : RunStates, lease : BackupWorkers \union {NoWorker}, artifact : BOOLEAN,
     sha : 0 .. MaxCaptures, pinned : BOOLEAN]

DestinationSets == SUBSET Destinations

EngineRecords ==
    [step : WorkerSteps, aborted : BOOLEAN, failed : BOOLEAN, left : DestinationSets]

RemovalRecords ==
    [step : {"idle", "copy", "record", "commit"}, left : DestinationSets,
     retained : BOOLEAN]

DeliveryStates == {"pending", "complete", "failed", "deleted"}

BackupTypes ==
    /\ backup \in RunRecords /\ backup.sha <= captures
    /\ engine \in [BackupWorkers -> EngineRecords]
    /\ removal \in RemovalRecords
    /\ delivery \in [Destinations -> DeliveryStates]
    /\ remote \in [Destinations -> 0 .. MaxCaptures]
    /\ \A d \in Destinations : remote[d] <= captures
    /\ captures \in 0 .. MaxCaptures /\ spool \in 0 .. captures
    /\ workerLock \in BackupWorkers \union {NoWorker}
    /\ rowLock \in {"free", "spool", "removal"}
    /\ keyed \subseteq Destinations
    /\ pendingAsk \subseteq {"cancel", "retry"}
    /\ \A w \in BackupWorkers : engine[w].step = "marker" => engine[w].left # {}
    /\ removal.step = "record" => removal.left # {}
    /\ removal.step # "idle" => removed

Erasing(w) == engine[w].step \in {"erase", "erased"}

RowHeld ==
    /\ rowLock = "removal" <=> removal.step # "idle"
    /\ rowLock = "spool" => \E w \in BackupWorkers : Erasing(w)
    /\ \A w \in BackupWorkers : Erasing(w) => rowLock = "spool"
    /\ \A v, w \in BackupWorkers : Erasing(v) /\ Erasing(w) => v = w
    /\ rowLock # "free" => ~backup.pinned

OneExecutes ==
    ~lost => \A w \in BackupWorkers :
                engine[w].step \in Executing => workerLock = w /\ backup.state # "complete"

OneArchive ==
    captures <= 1 =>
        /\ \A w \in BackupWorkers :
              engine[w].step = "record" => captures = 1 /\ backup.sha = 0
        /\ \A v, w \in BackupWorkers :
              engine[v].step = "record" /\ engine[w].step = "record" => v = w
        /\ \A d \in Destinations : remote[d] # 0 => remote[d] = backup.sha

Verified(d) == remote[d] # 0 /\ (lost \/ delivery[d] = "complete")

Deliveries ==
    captures <= 1 /\ ~removed =>
        /\ \A d \in Destinations : delivery[d] = "complete" => remote[d] # 0
        /\ \A w \in BackupWorkers :
              /\ engine[w].step = "marker" => remote[First(engine[w].left)] # 0
              /\ engine[w].step \in {"deliver", "marker"} /\ ~engine[w].failed =>
                    \A d \in Destinations \ engine[w].left : Verified(d)
        /\ backup.state = "complete" => \A d \in Destinations : Verified(d)

BackupInv == BackupTypes /\ RowHeld /\ OneExecutes /\ OneArchive /\ Deliveries

(***************************************************************************)
(* The first of the destinations that are left is one of them.             *)
(***************************************************************************)
LEMMA NaturalsHaveOrder ==
    \E less : /\ IsWellFoundedOn(less, Nat)
              /\ \A d \in Nat : \A e \in Nat : <<e, d>> \notin less => d <= e
  <1>1. ASSUME NEW d \in Nat, NEW e \in Nat PROVE e < d \/ d <= e
    OBVIOUS
  <1>2. ASSUME NEW d \in Nat, NEW e \in Nat PROVE e < d => <<e, d>> \in OpToRel(<, Nat)
    BY DEF OpToRel
  <1> QED  BY <1>1, <1>2, NatLessThanWellFounded

LEMMA FirstIsLeft ==
    ASSUME NEW left, left \subseteq Destinations, left # {}
    PROVE  First(left) \in left
  <1>1. left \subseteq Nat
    BY BackupAssumption DEF Destinations
  <1>2. PICK less : /\ IsWellFoundedOn(less, Nat)
                    /\ \A d \in Nat : \A e \in Nat : <<e, d>> \notin less => d <= e
    BY NaturalsHaveOrder
  <1>3. \E d \in left : \A e \in left : <<e, d>> \notin less
    BY <1>1, <1>2, WFMin
  <1>4. \E d \in left : \A e \in left : d <= e
    BY <1>1, <1>2, <1>3
  <1> QED  BY <1>4 DEF First

LEMMA BackupsStart == BackupInit => BackupInv
  <1> SUFFICES ASSUME BackupInit PROVE BackupInv
    OBVIOUS
  <1>1. MaxCaptures \in Nat
    BY BackupAssumption
  <1>2. captures = 0 /\ spool = 0 /\ captures \in 0 .. MaxCaptures /\ spool \in 0 .. captures
    BY <1>1 DEF BackupInit
  <1>3. backup \in RunRecords /\ backup.sha <= captures
    BY <1>1, <1>2 DEF BackupInit, RunRecords, RunStates
  <1>4. engine \in [BackupWorkers -> EngineRecords] /\ removal \in RemovalRecords
    BY DEF BackupInit, EngineRecords, RemovalRecords, Resting, NoRemoval, WorkerSteps,
           DestinationSets
  <1>5. /\ delivery \in [Destinations -> DeliveryStates]
        /\ remote \in [Destinations -> 0 .. MaxCaptures]
        /\ \A d \in Destinations : remote[d] <= captures
    BY <1>1, <1>2 DEF BackupInit, DeliveryStates
  <1>6. BackupTypes
    BY <1>2, <1>3, <1>4, <1>5 DEF BackupInit, BackupTypes, Resting, NoRemoval
  <1>7. RowHeld /\ OneExecutes /\ OneArchive
    BY DEF BackupInit, RowHeld, OneExecutes, OneArchive, Resting, NoRemoval, Erasing, Executing
  <1>8. Deliveries
    BY DEF BackupInit, Deliveries, Resting, NoRemoval
  <1> QED  BY <1>6, <1>7, <1>8 DEF BackupInv

(***************************************************************************)
(* What a step makes of a process and of the row.                          *)
(***************************************************************************)
EngineBecomes(w, s, f, l) ==
    /\ engine' \in [BackupWorkers -> EngineRecords]
    /\ engine'[w].step = s /\ engine'[w].failed = f /\ engine'[w].left = l
    /\ \A v \in BackupWorkers : v # w => engine'[v] = engine[v]

RunBecomes(st, sh, p) ==
    backup' \in RunRecords /\ backup'.state = st /\ backup'.sha = sh /\ backup'.pinned = p

LEMMA StepSet ==
    ASSUME NEW x \in EngineRecords, NEW s \in WorkerSteps, NEW y, y = [x EXCEPT !.step = s]
    PROVE  y \in EngineRecords /\ y.step = s /\ y.failed = x.failed /\ y.left = x.left
  BY DEF EngineRecords

LEMMA AbortedSet ==
    ASSUME NEW x \in EngineRecords, NEW y, y = [x EXCEPT !.aborted = TRUE]
    PROVE  y \in EngineRecords /\ y.step = x.step /\ y.failed = x.failed /\ y.left = x.left
  BY DEF EngineRecords

LEMMA FailedSet ==
    ASSUME NEW x \in EngineRecords, NEW y, y = [x EXCEPT !.failed = TRUE]
    PROVE  y \in EngineRecords /\ y.step = x.step /\ y.failed = TRUE /\ y.left = x.left
  BY DEF EngineRecords

LEMMA EngineReplaced ==
    ASSUME engine \in [BackupWorkers -> EngineRecords], NEW w \in BackupWorkers,
           NEW y \in EngineRecords, engine' = [engine EXCEPT ![w] = y]
    PROVE  EngineBecomes(w, y.step, y.failed, y.left)
  BY DEF EngineBecomes

LEMMA EngineEnters ==
    ASSUME engine \in [BackupWorkers -> EngineRecords], NEW w \in BackupWorkers,
           NEW s \in WorkerSteps, Enters(w, s)
    PROVE  EngineBecomes(w, s, engine[w].failed, engine[w].left)
  <1> PICK y : y = [engine[w] EXCEPT !.step = s]
    OBVIOUS
  <1>1. engine' = [engine EXCEPT ![w] = y]
    BY DEF Enters
  <1>2. /\ y \in EngineRecords /\ y.step = s
        /\ y.failed = engine[w].failed /\ y.left = engine[w].left
    BY StepSet
  <1> QED  BY <1>1, <1>2, EngineReplaced

LEMMA EngineAborts ==
    ASSUME engine \in [BackupWorkers -> EngineRecords], NEW w \in BackupWorkers,
           engine' = [engine EXCEPT ![w].aborted = TRUE]
    PROVE  EngineBecomes(w, engine[w].step, engine[w].failed, engine[w].left)
  <1> PICK y : y = [engine[w] EXCEPT !.aborted = TRUE]
    OBVIOUS
  <1>1. engine' = [engine EXCEPT ![w] = y]
    OBVIOUS
  <1>2. /\ y \in EngineRecords /\ y.step = engine[w].step
        /\ y.failed = engine[w].failed /\ y.left = engine[w].left
    BY AbortedSet
  <1> QED  BY <1>1, <1>2, EngineReplaced

LEMMA EngineLists ==
    ASSUME engine \in [BackupWorkers -> EngineRecords], NEW w \in BackupWorkers,
           NEW s \in WorkerSteps, NEW l \in DestinationSets
    PROVE  engine' = [engine EXCEPT ![w].step = s, ![w].left = l]
               => EngineBecomes(w, s, engine[w].failed, l)
  <1> PICK x : x = [engine[w] EXCEPT !.step = s]
    OBVIOUS
  <1> PICK y : y = [x EXCEPT !.left = l]
    OBVIOUS
  <1>1. engine' = [engine EXCEPT ![w].step = s, ![w].left = l]
            => engine' = [engine EXCEPT ![w] = y]
    OBVIOUS
  <1>2. x \in EngineRecords /\ x.step = s /\ x.failed = engine[w].failed
    BY StepSet
  <1>3. y \in EngineRecords /\ y.step = s /\ y.failed = engine[w].failed /\ y.left = l
    BY <1>2 DEF EngineRecords
  <1>4. engine' = [engine EXCEPT ![w] = y] => EngineBecomes(w, y.step, y.failed, y.left)
    BY <1>3, EngineReplaced
  <1> QED  BY <1>1, <1>3, <1>4

LEMMA EngineFails ==
    ASSUME engine \in [BackupWorkers -> EngineRecords], NEW w \in BackupWorkers,
           NEW s \in WorkerSteps, NEW l \in DestinationSets
    PROVE  engine' = [engine EXCEPT ![w].step = s, ![w].failed = TRUE, ![w].left = l]
               => EngineBecomes(w, s, TRUE, l)
  <1> PICK x : x = [engine[w] EXCEPT !.step = s]
    OBVIOUS
  <1> PICK z : z = [x EXCEPT !.failed = TRUE]
    OBVIOUS
  <1> PICK y : y = [z EXCEPT !.left = l]
    OBVIOUS
  <1>1. engine' = [engine EXCEPT ![w].step = s, ![w].failed = TRUE, ![w].left = l]
            => engine' = [engine EXCEPT ![w] = y]
    OBVIOUS
  <1>2. x \in EngineRecords /\ x.step = s
    BY StepSet
  <1>3. z \in EngineRecords /\ z.step = s /\ z.failed = TRUE
    BY <1>2, FailedSet
  <1>4. y \in EngineRecords /\ y.step = s /\ y.failed = TRUE /\ y.left = l
    BY <1>3 DEF EngineRecords
  <1>5. engine' = [engine EXCEPT ![w] = y] => EngineBecomes(w, y.step, y.failed, y.left)
    BY <1>4, EngineReplaced
  <1> QED  BY <1>1, <1>4, <1>5

LEMMA EngineRests ==
    ASSUME engine \in [BackupWorkers -> EngineRecords], NEW w \in BackupWorkers
    PROVE  /\ engine' = [engine EXCEPT ![w] = Resting] => EngineBecomes(w, "idle", FALSE, {})
           /\ GoesOn(w) => EngineBecomes(w, "verify", FALSE, {})
  <1>1. Resting \in EngineRecords /\ Resting.step = "idle" /\ Resting.failed = FALSE /\ Resting.left = {}
    BY DEF Resting, EngineRecords, WorkerSteps, DestinationSets
  <1>2. engine' = [engine EXCEPT ![w] = Resting] => EngineBecomes(w, "idle", FALSE, {})
    <2>1. engine' = [engine EXCEPT ![w] = Resting]
              => EngineBecomes(w, Resting.step, Resting.failed, Resting.left)
      BY <1>1, EngineReplaced
    <2> QED  BY <1>1, <2>1
  <1>3. GoesOn(w) => EngineBecomes(w, "verify", FALSE, {})
    <2> PICK y : y = [Resting EXCEPT !.step = "verify"]
      OBVIOUS
    <2>1. y \in EngineRecords /\ y.step = "verify" /\ y.failed = FALSE /\ y.left = {}
      BY <1>1, StepSet DEF WorkerSteps
    <2>2. GoesOn(w) => engine' = [engine EXCEPT ![w] = y]
      BY DEF GoesOn
    <2>3. engine' = [engine EXCEPT ![w] = y] => EngineBecomes(w, y.step, y.failed, y.left)
      BY <2>1, EngineReplaced
    <2> QED  BY <2>1, <2>2, <2>3
  <1> QED  BY <1>2, <1>3

LEMMA RunForms ==
    ASSUME NEW x \in RunRecords, NEW st \in RunStates, NEW sh \in 0 .. MaxCaptures,
           NEW p \in BOOLEAN
    PROVE  /\ backup' = x => RunBecomes(x.state, x.sha, x.pinned)
           /\ backup' = [x EXCEPT !.state = st] => RunBecomes(st, x.sha, x.pinned)
           /\ backup' = [x EXCEPT !.state = st, !.artifact = TRUE, !.sha = sh]
                  => RunBecomes(st, sh, x.pinned)
           /\ backup' = [x EXCEPT !.artifact = FALSE] => RunBecomes(x.state, x.sha, x.pinned)
           /\ backup' = [x EXCEPT !.pinned = p] => RunBecomes(x.state, x.sha, p)
  BY DEF RunBecomes, RunRecords

LEMMA RunClaimed ==
    ASSUME NEW x \in RunRecords, NEW w \in BackupWorkers, backup' = [x EXCEPT !.lease = w]
    PROVE  RunBecomes(x.state, x.sha, x.pinned)
  BY DEF RunBecomes, RunRecords

(* The types, the parts of them that steps need.                           *)
LEMMA BackupFacts ==
    ASSUME BackupInv
    PROVE  /\ backup \in RunRecords /\ engine \in [BackupWorkers -> EngineRecords]
           /\ removal \in RemovalRecords /\ delivery \in [Destinations -> DeliveryStates]
           /\ remote \in [Destinations -> 0 .. MaxCaptures]
           /\ keyed \subseteq Destinations /\ pendingAsk \subseteq {"cancel", "retry"}
           /\ workerLock \in BackupWorkers \union {NoWorker}
           /\ rowLock \in {"free", "spool", "removal"}
           /\ backup.state \in RunStates /\ backup.pinned \in BOOLEAN
           /\ \A w \in BackupWorkers :
                 /\ engine[w] \in EngineRecords /\ engine[w].step \in WorkerSteps
                 /\ engine[w].left \in DestinationSets
                 /\ engine[w].left \subseteq Destinations
                 /\ engine[w].step = "marker" => engine[w].left # {}
  <1>1. /\ backup \in RunRecords /\ engine \in [BackupWorkers -> EngineRecords]
        /\ removal \in RemovalRecords /\ delivery \in [Destinations -> DeliveryStates]
        /\ remote \in [Destinations -> 0 .. MaxCaptures]
        /\ keyed \subseteq Destinations /\ pendingAsk \subseteq {"cancel", "retry"}
        /\ workerLock \in BackupWorkers \union {NoWorker}
        /\ rowLock \in {"free", "spool", "removal"}
        /\ \A w \in BackupWorkers : engine[w].step = "marker" => engine[w].left # {}
    BY DEF BackupInv, BackupTypes
  <1>2. backup.state \in RunStates /\ backup.pinned \in BOOLEAN
    BY <1>1 DEF RunRecords
  <1>3. \A w \in BackupWorkers :
            /\ engine[w] \in EngineRecords /\ engine[w].step \in WorkerSteps
            /\ engine[w].left \in DestinationSets
    BY <1>1 DEF EngineRecords
  <1>4. \A w \in BackupWorkers : engine[w].left \subseteq Destinations
    BY <1>3 DEF DestinationSets
  <1> QED  BY <1>1, <1>2, <1>3, <1>4

LEMMA CaptureFacts ==
    ASSUME BackupInv
    PROVE  /\ MaxCaptures \in Nat /\ captures \in Nat /\ captures <= MaxCaptures
           /\ spool \in Nat /\ spool <= captures /\ spool \in 0 .. MaxCaptures
           /\ backup.sha \in Nat /\ backup.sha <= captures
           /\ \A d \in Destinations : remote[d] \in Nat /\ remote[d] <= captures
  <1>1. MaxCaptures \in Nat
    BY BackupAssumption
  <1>2. captures \in 0 .. MaxCaptures /\ spool \in 0 .. captures
    BY DEF BackupInv, BackupTypes
  <1>3. backup.sha \in 0 .. MaxCaptures /\ backup.sha <= captures
    BY DEF BackupInv, BackupTypes, RunRecords
  <1>4. \A d \in Destinations : remote[d] \in 0 .. MaxCaptures /\ remote[d] <= captures
    BY DEF BackupInv, BackupTypes
  <1> QED  BY <1>1, <1>2, <1>3, <1>4

(***************************************************************************)
(* A step of one process keeps the invariant, if it touches no delivery    *)
(* and if what it says of its deliveries, and the row of the run, is       *)
(* founded on what it knew before.                                         *)
(***************************************************************************)
Founded(w, s, f, l, st, sh) ==
    /\ s \in Executing =>
          /\ st # "complete" \/ lost
          /\ \/ workerLock' = w /\ workerLock \in {w, NoWorker}
             \/ engine[w].step \in Executing /\ workerLock' = workerLock
    /\ st = "complete" =>
          \/ backup.state = "complete"
          \/ engine[w].step = "deliver" /\ engine[w].left = {} /\ ~engine[w].failed
    /\ s = "record" => engine[w].step = "record"
    /\ sh # backup.sha => engine[w].step = "record" /\ sh = spool /\ s # "record"
    /\ s = "marker" => engine[w].step = "marker" /\ l = engine[w].left
    /\ s = "deliver" /\ ~f =>
          \/ l = ToDeliver
          \/ engine[w].step = "deliver" /\ ~engine[w].failed /\ l = engine[w].left

LEMMA TurnKeeps ==
    ASSUME BackupInv, NEW w \in BackupWorkers, NEW s \in WorkerSteps, NEW f, NEW l,
           EngineBecomes(w, s, f, l), NEW st, NEW sh, RunBecomes(st, sh, backup.pinned),
           UNCHANGED <<delivery, keyed, remote, removal, captures, lost, removed, pendingAsk>>,
           spool' \in {0, spool}, workerLock' \in {workerLock, w, NoWorker},
           workerLock' # workerLock => workerLock \in {w, NoWorker},
           f = engine[w].failed \/ s \notin {"deliver", "marker"},
           rowLock' \in {"free", "spool", "removal"}, RowHeld', Founded(w, s, f, l, st, sh)
    PROVE  BackupInv'
  <1>1. BackupTypes'
    <2>1. captures' \in 0 .. MaxCaptures /\ spool' \in 0 .. captures'
      BY CaptureFacts
    <2>2. backup'.sha <= captures'
      BY CaptureFacts DEF RunBecomes, Founded
    <2>3. \A v \in BackupWorkers : engine'[v].step = "marker" => engine'[v].left # {}
      BY BackupFacts DEF EngineBecomes, Founded
    <2>4. /\ backup' \in RunRecords /\ engine' \in [BackupWorkers -> EngineRecords]
          /\ workerLock' \in BackupWorkers \union {NoWorker}
      BY BackupFacts DEF RunBecomes, EngineBecomes
    <2> QED  BY <2>1, <2>2, <2>3, <2>4 DEF BackupInv, BackupTypes
  <1>2. OneExecutes'
    <2> SUFFICES ASSUME ~lost, NEW v \in BackupWorkers, engine'[v].step \in Executing
                 PROVE  workerLock' = v /\ backup'.state # "complete"
      BY DEF OneExecutes
    <2>1. CASE v = w
      BY <2>1 DEF EngineBecomes, RunBecomes, Founded, BackupInv, OneExecutes
    <2>2. CASE v # w
      <3>1. workerLock = v /\ backup.state # "complete"
        BY <2>2 DEF EngineBecomes, BackupInv, OneExecutes
      <3>2. engine[w].step \notin Executing /\ v # NoWorker
        BY <2>2, <3>1, BackupAssumption DEF BackupInv, OneExecutes, BackupWorkers, NoWorker
      <3>3. st # "complete"
        BY <3>1, <3>2 DEF Founded, Executing
      <3> QED  BY <2>2, <3>1, <3>2, <3>3 DEF RunBecomes
    <2> QED  BY <2>1, <2>2
  <1>3. OneArchive'
    <2> SUFFICES ASSUME captures <= 1 PROVE OneArchive'
      BY DEF OneArchive
    <2>1. \A v \in BackupWorkers : engine'[v].step = "record" => engine[v].step = "record"
      BY DEF EngineBecomes, Founded
    <2>2. /\ \A v \in BackupWorkers :
                engine[v].step = "record" => captures = 1 /\ backup.sha = 0
          /\ \A v \in BackupWorkers : engine[v].step = "record" /\ engine[w].step = "record"
                                          => v = w
          /\ \A u, v \in BackupWorkers : engine[v].step = "record" /\ engine[u].step = "record"
                                          => v = u
          /\ \A d \in Destinations : remote[d] # 0 => remote[d] = backup.sha
      BY DEF BackupInv, OneArchive
    <2>3. CASE sh = backup.sha
      BY <2>1, <2>2, <2>3 DEF OneArchive, RunBecomes
    <2>4. CASE sh # backup.sha
      <3>1. engine[w].step = "record" /\ s # "record" /\ backup.sha = 0
        BY <2>2, <2>4 DEF Founded
      <3>2. \A v \in BackupWorkers : engine'[v].step # "record"
        BY <2>1, <2>2, <3>1 DEF EngineBecomes
      <3>3. \A d \in Destinations : remote[d] = 0
        BY <2>2, <3>1, CaptureFacts
      <3> QED  BY <3>2, <3>3 DEF OneArchive
    <2> QED  BY <2>3, <2>4
  <1>4. Deliveries'
    <2> SUFFICES ASSUME captures <= 1, ~removed PROVE Deliveries'
      BY DEF Deliveries
    <2>1. /\ \A d \in Destinations : delivery[d] = "complete" => remote[d] # 0
          /\ \A v \in BackupWorkers :
                /\ engine[v].step = "marker" => remote[First(engine[v].left)] # 0
                /\ engine[v].step \in {"deliver", "marker"} /\ ~engine[v].failed =>
                      \A d \in Destinations \ engine[v].left : Verified(d)
          /\ backup.state = "complete" => \A d \in Destinations : Verified(d)
      BY DEF BackupInv, Deliveries
    <2>2. \A d \in Destinations : Verified(d)' <=> Verified(d)
      BY DEF Verified
    <2>3. ASSUME NEW v \in BackupWorkers, engine'[v].step = "marker"
          PROVE  remote[First(engine'[v].left)] # 0
      BY <2>1, <2>3 DEF EngineBecomes, Founded
    <2>4. ASSUME NEW v \in BackupWorkers, engine'[v].step \in {"deliver", "marker"},
                 ~engine'[v].failed, NEW d \in Destinations \ engine'[v].left
          PROVE  Verified(d)
      <3>1. CASE v # w
        BY <2>1, <2>4, <3>1 DEF EngineBecomes
      <3>2. CASE v = w
        <4>1. CASE l = ToDeliver
          BY <2>1, <2>4, <3>2, <4>1 DEF EngineBecomes, ToDeliver, Verified
        <4>2. CASE /\ engine[w].step \in {"deliver", "marker"} /\ ~engine[w].failed
                   /\ l = engine[w].left
          BY <2>1, <2>4, <3>2, <4>2 DEF EngineBecomes
        <4> QED  BY <2>4, <3>2, <4>1, <4>2 DEF EngineBecomes, Founded
      <3> QED  BY <3>1, <3>2
    <2>5. ASSUME backup'.state = "complete", NEW d \in Destinations PROVE Verified(d)
      BY <2>1, <2>5 DEF RunBecomes, Founded
    <2> QED  BY <2>1, <2>2, <2>3, <2>4, <2>5 DEF Deliveries
  <1> QED  BY <1>1, <1>2, <1>3, <1>4 DEF BackupInv

(* The row stays with whom it is with.                                      *)
LEMMA RowStays ==
    ASSUME BackupInv, NEW w \in BackupWorkers, NEW s, NEW f, NEW l, EngineBecomes(w, s, f, l),
           NEW st, NEW sh, RunBecomes(st, sh, backup.pinned), UNCHANGED <<rowLock, removal>>,
           engine[w].step \notin {"erase", "erased"}, s \notin {"erase", "erased"}
    PROVE  RowHeld'
  <1>1. \A v \in BackupWorkers : Erasing(v)' <=> Erasing(v)
    BY DEF EngineBecomes, Erasing
  <1> QED  BY <1>1 DEF BackupInv, RowHeld, RunBecomes

(* The steps of a worker that leave deliveries and captures alone.          *)
LEMMA QuietTurn ==
    ASSUME BackupInv, NEW w \in BackupWorkers, NEW s \in WorkerSteps, NEW f, NEW l,
           EngineBecomes(w, s, f, l), NEW st, NEW sh, RunBecomes(st, sh, backup.pinned),
           UNCHANGED <<delivery, keyed, remote, rowLock, owners, captures, lost, removed>>,
           spool' \in {0, spool}, workerLock' \in {workerLock, w, NoWorker},
           workerLock' # workerLock => workerLock \in {w, NoWorker},
           f = engine[w].failed \/ s \notin {"deliver", "marker"},
           engine[w].step \notin {"erase", "erased"}, s \notin {"erase", "erased"},
           Founded(w, s, f, l, st, sh)
    PROVE  BackupInv'
  <1>1. RowHeld'
    BY RowStays DEF owners
  <1>2. rowLock' \in {"free", "spool", "removal"}
    BY BackupFacts
  <1> QED  BY <1>1, <1>2, TurnKeeps DEF owners

LEMMA RunUnchanged ==
    ASSUME BackupInv, backup' = backup
    PROVE  RunBecomes(backup.state, backup.sha, backup.pinned)
  BY BackupFacts DEF RunBecomes

(* What a step of a lease holder makes of the row, whoever has the lease.  *)
LEMMA RunSets ==
    ASSUME BackupInv, NEW w \in BackupWorkers, NEW st \in RunStates,
           RunSet(w, [backup EXCEPT !.state = st])
    PROVE  \/ RunBecomes(backup.state, backup.sha, backup.pinned)
           \/ RunBecomes(st, backup.sha, backup.pinned)
  <1>1. backup \in RunRecords /\ backup.sha \in 0 .. MaxCaptures /\ backup.pinned \in BOOLEAN
    BY DEF BackupInv, BackupTypes, RunRecords
  <1> QED  BY <1>1, RunForms DEF RunSet

LEMMA TicksKeep ==
    ASSUME BackupInv, NEW w \in BackupWorkers,
           TickBegins(w) \/ NothingQueued(w) \/ LockIsGone(w) \/ LooksForVerification(w)
    PROVE  BackupInv'
  <1>1. RunBecomes(backup.state, backup.sha, backup.pinned)
    BY RunUnchanged DEF TickBegins, NothingQueued, LockIsGone, LooksForVerification
  <1>2. /\ UNCHANGED <<delivery, keyed, remote, rowLock, owners, captures, lost, removed>>
        /\ spool' \in {0, spool} /\ workerLock' \in {workerLock, w, NoWorker}
        /\ workerLock' # workerLock => workerLock \in {w, NoWorker}
        /\ engine[w].step \notin {"erase", "erased"}
    BY DEF TickBegins, NothingQueued, LockIsGone, LooksForVerification, backupBounds
  <1>3. PICK s \in {"recover", "verify", "idle", "clean"} :
            \E f, l : EngineBecomes(w, s, f, l)
    BY BackupFacts, EngineEnters, EngineRests
       DEF TickBegins, NothingQueued, LockIsGone, LooksForVerification, WorkerSteps
  <1>4. PICK f, l : EngineBecomes(w, s, f, l)
    BY <1>3
  <1>5. Founded(w, s, f, l, backup.state, backup.sha)
    BY DEF Founded, Executing
  <1>6. s \in WorkerSteps
    BY DEF WorkerSteps
  <1> QED  BY <1>1, <1>2, <1>4, <1>5, <1>6, QuietTurn

LEMMA ClaimsKeep ==
    ASSUME BackupInv, NEW w \in BackupWorkers, RecoversAbandoned(w) \/ Claims(w)
    PROVE  BackupInv'
  <1>1. PICK st \in RunStates :
            /\ RunBecomes(st, backup.sha, backup.pinned)
            /\ st = "complete" => backup.state = "complete" /\ RecoversAbandoned(w)
    <2>1. backup \in RunRecords /\ backup.sha \in 0 .. MaxCaptures /\ backup.state \in RunStates
          /\ backup.pinned \in BOOLEAN
      BY DEF BackupInv, BackupTypes, RunRecords
    <2>2. CASE RecoversAbandoned(w)
      <3> PICK st \in RunStates : /\ st \in {backup.state, "queued", "failed"}
                                  /\ backup' = [backup EXCEPT !.state = st]
        BY <2>1, <2>2 DEF RecoversAbandoned, RunStates, InProgress
      <3>1. RunBecomes(st, backup.sha, backup.pinned)
        BY <2>1, RunForms
      <3> QED  BY <2>2, <3>1
    <2>3. CASE Claims(w)
      BY <2>1, <2>3, RunClaimed DEF Claims
    <2> QED  BY <2>2, <2>3
  <1>2. /\ UNCHANGED <<delivery, keyed, remote, rowLock, owners, captures, lost, removed>>
        /\ spool' \in {0, spool} /\ workerLock' = workerLock /\ workerLock = w
        /\ engine[w].step \in {"recover", "claim"}
    BY DEF RecoversAbandoned, Claims, backupBounds
  <1>3. PICK s \in {"claim", "list", "prepare"} :
            /\ EngineBecomes(w, s, engine[w].failed, engine[w].left)
            /\ RecoversAbandoned(w) => s = "claim"
    BY BackupFacts, EngineEnters DEF RecoversAbandoned, Claims, WorkerSteps, Executing
  <1>4. Founded(w, s, engine[w].failed, engine[w].left, st, backup.sha)
    <2>1. RecoversAbandoned(w) => s = "claim"
      BY <1>3
    <2>2. s \in Executing => st # "complete"
      BY <1>1, <2>1 DEF Executing
    <2> QED  BY <1>1, <1>2, <2>2 DEF Founded
  <1>5. s \in WorkerSteps
    BY DEF WorkerSteps, Executing
  <1> QED  BY <1>1, <1>2, <1>3, <1>4, <1>5, QuietTurn

LEMMA CapturesKeep ==
    ASSUME BackupInv, NEW w \in BackupWorkers,
           Prepares(w) \/ CaptureFails(w) \/ RecordsArchive(w) \/ ListsDeliveries(w)
    PROVE  BackupInv'
  <1>1. /\ UNCHANGED <<delivery, keyed, remote, rowLock, owners, captures, lost, removed>>
        /\ spool' = spool /\ workerLock' = workerLock
        /\ engine[w].step \in Executing /\ engine[w].step \notin {"erase", "erased", "deliver"}
    BY DEF Prepares, CaptureFails, RecordsArchive, ListsDeliveries, backupBounds, Trouble,
           Executing
  <1>2. PICK st \in RunStates, sh \in 0 .. MaxCaptures :
            /\ RunBecomes(st, sh, backup.pinned)
            /\ st = "complete" => st = backup.state
            /\ sh # backup.sha => RecordsArchive(w) /\ sh = spool
    <2>1. backup \in RunRecords /\ backup.sha \in 0 .. MaxCaptures /\ backup.state \in RunStates
          /\ backup.pinned \in BOOLEAN /\ spool \in 0 .. MaxCaptures
      BY CaptureFacts DEF BackupInv, BackupTypes, RunRecords
    <2>2. CASE Prepares(w)
      <3>1. "capturing" \in RunStates
        BY DEF RunStates, InProgress
      <3> QED  BY <2>1, <2>2, <3>1, RunSets DEF Prepares
    <2>3. CASE CaptureFails(w) \/ ListsDeliveries(w)
      BY <2>1, <2>3, RunUnchanged DEF CaptureFails, ListsDeliveries
    <2>4. CASE RecordsArchive(w)
      <3>1. "transferring" \in RunStates
        BY DEF RunStates, InProgress
      <3>2. CASE backup' = [backup EXCEPT !.state = "transferring", !.artifact = TRUE,
                                         !.sha = spool]
        BY <2>1, <2>4, <3>1, <3>2, RunForms
      <3>3. CASE backup' = backup
        BY <2>1, <3>3, RunUnchanged
      <3> QED  BY <2>4, <3>2, <3>3 DEF RecordsArchive, RunSet
    <2> QED  BY <2>2, <2>3, <2>4
  <1>3. PICK s \in {"capture", "settle", "list", "deliver"}, l \in DestinationSets :
            /\ EngineBecomes(w, s, engine[w].failed, l)
            /\ s = "deliver" => l = ToDeliver
    <2>1. CASE Prepares(w) \/ CaptureFails(w) \/ RecordsArchive(w)
      BY <2>1, BackupFacts, EngineEnters
         DEF Prepares, CaptureFails, RecordsArchive, WorkerSteps, Executing
    <2>2. CASE ListsDeliveries(w)
      <3>1. ToDeliver \in DestinationSets /\ "deliver" \in WorkerSteps
        BY DEF ToDeliver, DestinationSets, WorkerSteps, Executing
      <3>2. EngineBecomes(w, "deliver", engine[w].failed, ToDeliver)
        BY <2>2, <3>1, BackupFacts, EngineLists DEF ListsDeliveries
      <3> QED  BY <3>1, <3>2
    <2> QED  BY <2>1, <2>2
  <1>4. Founded(w, s, engine[w].failed, l, st, sh)
    <2>1. s \in Executing => st # "complete" \/ lost
      BY <1>1, <1>2 DEF BackupInv, OneExecutes
    <2>2. RecordsArchive(w) => engine[w].step = "record"
      BY DEF RecordsArchive
    <2> QED  BY <1>1, <1>2, <1>3, <2>1, <2>2 DEF Founded
  <1>5. s \in WorkerSteps
    BY DEF WorkerSteps, Executing
  <1> QED  BY <1>1, <1>2, <1>3, <1>4, <1>5, QuietTurn

LEMMA TurnsEnd ==
    ASSUME BackupInv, NEW w \in BackupWorkers,
           Finishes(w) \/ StopsDelivering(w) \/ Settles(w) \/ EndsAborted(w)
    PROVE  BackupInv'
  <1>1. /\ UNCHANGED <<delivery, keyed, remote, rowLock, owners, captures, lost, removed>>
        /\ spool' = spool /\ workerLock' = workerLock
        /\ engine[w].step \in Executing /\ engine[w].step \notin {"erase", "erased"}
    BY DEF Finishes, StopsDelivering, Settles, EndsAborted, backupBounds, Trouble, Executing
  <1>2. PICK st \in RunStates :
            /\ RunBecomes(st, backup.sha, backup.pinned)
            /\ st = "complete" =>
                  \/ st = backup.state
                  \/ Finishes(w) /\ ~engine[w].failed
            /\ StopsDelivering(w) \/ EndsAborted(w) => st = backup.state
    <2>1. backup.state \in RunStates
      BY BackupFacts
    <2>2. CASE Finishes(w)
      <3> PICK outcome \in Outcomes(w) : RunSet(w, [backup EXCEPT !.state = outcome])
        BY <2>2 DEF Finishes
      <3>1. outcome \in RunStates /\ (outcome = "complete" => ~engine[w].failed)
        BY DEF Outcomes, RunStates
      <3>2. StopsDelivering(w) \/ EndsAborted(w) => backup' = backup
        BY DEF StopsDelivering, EndsAborted
      <3> QED  BY <2>1, <2>2, <3>1, <3>2, RunSets, RunUnchanged
    <2>3. CASE StopsDelivering(w) \/ EndsAborted(w)
      BY <2>1, <2>3, RunUnchanged DEF StopsDelivering, EndsAborted
    <2>4. CASE Settles(w)
      <3> PICK st \in {"cancelled", "failed"} : RunSet(w, [backup EXCEPT !.state = st])
        BY <2>4 DEF Settles
      <3>1. st \in RunStates /\ st # "complete"
        BY DEF RunStates
      <3>2. StopsDelivering(w) \/ EndsAborted(w) => backup' = backup
        BY DEF StopsDelivering, EndsAborted
      <3> QED  BY <2>1, <3>1, <3>2, RunSets, RunUnchanged
    <2> QED  BY <2>2, <2>3, <2>4
  <1>3. \E s, f, l :
            /\ EngineBecomes(w, s, f, l) /\ s \in WorkerSteps
            /\ \/ s \in {"verify", "settle"}
               \/ s = engine[w].step /\ f = engine[w].failed /\ l = engine[w].left
            /\ s \in Executing => StopsDelivering(w) \/ EndsAborted(w)
            /\ s \notin {"erase", "erased"}
    <2>1. {"verify", "settle"} \subseteq WorkerSteps /\ "verify" \notin Executing
      BY DEF WorkerSteps, Executing
    <2>2. CASE Finishes(w) \/ Settles(w)
      <3>1. EngineBecomes(w, "verify", FALSE, {})
        BY <2>2, BackupFacts, EngineRests DEF Finishes, Settles
      <3>2. "verify" \in WorkerSteps /\ "verify" \notin Executing
        BY <2>1
      <3> WITNESS "verify", FALSE, {}
      <3> QED  BY <3>1, <3>2
    <2>3. CASE StopsDelivering(w)
      BY <2>1, <2>3, BackupFacts, EngineEnters DEF StopsDelivering
    <2>4. CASE EndsAborted(w)
      BY <1>1, <2>4, BackupFacts, EngineAborts DEF EndsAborted
    <2> QED  BY <2>2, <2>3, <2>4
  <1> PICK s, f, l :
          /\ EngineBecomes(w, s, f, l) /\ s \in WorkerSteps
          /\ \/ s \in {"verify", "settle"}
             \/ s = engine[w].step /\ f = engine[w].failed /\ l = engine[w].left
          /\ s \in Executing => StopsDelivering(w) \/ EndsAborted(w)
          /\ s \notin {"erase", "erased"}
    BY <1>3
  <1>4. Founded(w, s, f, l, st, backup.sha)
    <2>1. s \in Executing => st = backup.state
      BY <1>2, <1>3
    <2>2. s \in Executing => st # "complete" \/ lost
      BY <1>1, <2>1 DEF BackupInv, OneExecutes
    <2>3. Finishes(w) => engine[w].step = "deliver" /\ engine[w].left = {}
      BY DEF Finishes
    <2> QED  BY <1>1, <1>2, <2>2, <2>3 DEF Founded
  <1> QED  BY <1>1, <1>2, <1>4, QuietTurn

(* A worker rests: its tick ends, or its process dies.                     *)
LEMMA RestsKeep ==
    ASSUME BackupInv, NEW w \in BackupWorkers, TickEnds(w) \/ WorkerDies(w)
    PROVE  BackupInv'
  <1>1. RunBecomes(backup.state, backup.sha, backup.pinned)
    BY RunUnchanged DEF TickEnds, WorkerDies
  <1>2. EngineBecomes(w, "idle", FALSE, {}) /\ "idle" \in WorkerSteps
    BY BackupFacts, EngineRests DEF TickEnds, WorkerDies, WorkerSteps
  <1>3. /\ UNCHANGED <<delivery, keyed, remote, owners, captures, lost, removed>>
        /\ spool' \in {0, spool} /\ workerLock' \in {workerLock, w, NoWorker}
        /\ workerLock' # workerLock => workerLock \in {w, NoWorker}
    BY DEF TickEnds, WorkerDies, Freed, Trouble, backupBounds
  <1>4. Founded(w, "idle", FALSE, {}, backup.state, backup.sha)
    BY DEF Founded, Executing
  <1>5. CASE ~Erasing(w)
    <2>1. rowLock' = rowLock
      BY <1>5 DEF TickEnds, WorkerDies, Erasing
    <2> QED  BY <1>1, <1>2, <1>3, <1>4, <1>5, <2>1, QuietTurn DEF Erasing
  <1>6. CASE Erasing(w)
    <2>1. rowLock' = "free" /\ rowLock = "spool"
      BY <1>6 DEF TickEnds, WorkerDies, Erasing, BackupInv, RowHeld
    <2>2. \A v \in BackupWorkers : ~Erasing(v)'
      BY <1>2, <1>6 DEF EngineBecomes, Erasing, BackupInv, RowHeld
    <2>3. RowHeld'
      BY <1>3, <2>1, <2>2 DEF RowHeld, BackupInv, owners
    <2> QED  BY <1>1, <1>2, <1>3, <1>4, <2>1, <2>3, TurnKeeps DEF owners
  <1> QED  BY <1>5, <1>6

(* cleanSpool, while it has the row.                                       *)
LEMMA CleaningKeeps ==
    ASSUME BackupInv, NEW w \in BackupWorkers,
           LocksSpool(w) \/ ErasesSpool(w) \/ RecordsErasure(w)
    PROVE  BackupInv'
  <1>1. RunBecomes(backup.state, backup.sha, backup.pinned)
    BY BackupFacts, CaptureFacts, RunUnchanged, RunForms
       DEF LocksSpool, ErasesSpool, RecordsErasure
  <1>2. /\ UNCHANGED <<delivery, keyed, remote, owners, captures, lost, removed>>
        /\ spool' \in {0, spool} /\ workerLock' = workerLock
    BY DEF LocksSpool, ErasesSpool, RecordsErasure, backupBounds
  <1>3. PICK s \in {"erase", "erased", "sweep"} :
            /\ EngineBecomes(w, s, engine[w].failed, engine[w].left)
            /\ LocksSpool(w) => s = "erase"
            /\ ErasesSpool(w) => s = "erased"
            /\ RecordsErasure(w) => s = "sweep"
    <2>1. {"erase", "erased", "sweep"} \subseteq WorkerSteps
      BY DEF WorkerSteps
    <2> QED
      BY <2>1, BackupFacts, EngineEnters DEF LocksSpool, ErasesSpool, RecordsErasure
  <1>4. Founded(w, s, engine[w].failed, engine[w].left, backup.state, backup.sha)
    BY DEF Founded, Executing
  <1>5. RowHeld' /\ rowLock' \in {"free", "spool", "removal"}
    <2>1. /\ \A v \in BackupWorkers : v # w => (Erasing(v)' <=> Erasing(v))
          /\ Erasing(w)' <=> s \in {"erase", "erased"}
      BY <1>3 DEF EngineBecomes, Erasing
    <2>2. /\ rowLock = "removal" <=> removal.step # "idle"
          /\ rowLock = "spool" => \E v \in BackupWorkers : Erasing(v)
          /\ \A v \in BackupWorkers : Erasing(v) => rowLock = "spool"
          /\ \A u, v \in BackupWorkers : Erasing(u) /\ Erasing(v) => u = v
          /\ rowLock # "free" => ~backup.pinned
      BY DEF BackupInv, RowHeld
    <2>3. CASE LocksSpool(w)
      <3>1. rowLock = "free" /\ rowLock' = "spool" /\ ~backup.pinned /\ s = "erase"
        BY <1>3, <2>3 DEF LocksSpool, MayErase
      <3>2. \A v \in BackupWorkers : Erasing(v)' <=> v = w
        BY <2>1, <2>2, <3>1
      <3> QED  BY <1>1, <1>2, <2>2, <3>1, <3>2 DEF RowHeld, RunBecomes, owners
    <2>4. CASE ErasesSpool(w)
      <3>1. Erasing(w) /\ rowLock' = rowLock /\ s = "erased"
        BY <1>3, <2>4 DEF ErasesSpool, Erasing
      <3>2. \A v \in BackupWorkers : Erasing(v)' <=> Erasing(v)
        BY <2>1, <3>1
      <3> QED  BY <1>1, <1>2, <2>2, <3>1, <3>2, BackupFacts DEF RowHeld, RunBecomes, owners
    <2>5. CASE RecordsErasure(w)
      <3>1. Erasing(w) /\ rowLock' = "free" /\ s = "sweep"
        BY <1>3, <2>5 DEF RecordsErasure, Erasing
      <3>2. (\A v \in BackupWorkers : ~Erasing(v)') /\ removal.step = "idle"
        BY <2>1, <2>2, <3>1
      <3> QED  BY <1>1, <1>2, <3>1, <3>2 DEF RowHeld, RunBecomes, owners
    <2> QED  BY <2>3, <2>4, <2>5
  <1>6. s \in WorkerSteps
    BY DEF WorkerSteps
  <1> QED  BY <1>1, <1>2, <1>3, <1>4, <1>5, <1>6, TurnKeeps DEF owners

(***************************************************************************)
(* The steps that capture and deliver.                                     *)
(***************************************************************************)
LEMMA WorkersStay ==
    ASSUME BackupInv, NEW w \in BackupWorkers, NEW s, NEW f, NEW l, EngineBecomes(w, s, f, l),
           UNCHANGED <<backup, workerLock, lost>>, engine[w].step \in Executing
    PROVE  OneExecutes'
  BY DEF BackupInv, OneExecutes, EngineBecomes

LEMMA CapturingKeeps ==
    ASSUME BackupInv, NEW w \in BackupWorkers, Captures(w)
    PROVE  BackupInv'
  <1>1. EngineBecomes(w, "record", engine[w].failed, engine[w].left)
    BY BackupFacts, EngineEnters DEF Captures, WorkerSteps, Executing
  <1>2. /\ captures' = captures + 1 /\ spool' = captures + 1 /\ engine[w].step = "capture"
        /\ UNCHANGED <<backup, delivery, keyed, remote, workerLock, rowLock, owners, lost, removed>>
    BY DEF Captures
  <1>3. /\ captures' \in 0 .. MaxCaptures /\ spool' \in 0 .. captures'
        /\ backup.sha <= captures' /\ \A d \in Destinations : remote[d] <= captures'
    BY CaptureFacts DEF Captures
  <1>4. BackupTypes'
    <2>1. engine' \in [BackupWorkers -> EngineRecords]
      BY <1>1 DEF EngineBecomes
    <2>2. \A v \in BackupWorkers : engine'[v].step = "marker" => engine'[v].left # {}
      BY <1>1, BackupFacts DEF EngineBecomes
    <2>3. UNCHANGED <<removal, pendingAsk>>
      BY <1>2 DEF owners
    <2> QED  BY <1>2, <1>3, <2>1, <2>2, <2>3 DEF BackupInv, BackupTypes
  <1>5. RowHeld'
    BY <1>1, <1>2, RunUnchanged, RowStays DEF owners
  <1>6. OneExecutes'
    BY <1>1, <1>2, WorkersStay DEF Executing
  <1>7. OneArchive'
    <2> SUFFICES ASSUME captures' <= 1 PROVE OneArchive'
      BY DEF OneArchive
    <2>1. captures = 0 /\ captures' = 1 /\ backup.sha = 0
      BY <1>2, CaptureFacts
    <2>2. \A d \in Destinations : remote[d] = 0
      BY <2>1, CaptureFacts
    <2>3. \A v \in BackupWorkers : engine[v].step # "record"
      BY <2>1 DEF BackupInv, OneArchive
    <2>4. \A v \in BackupWorkers : engine'[v].step = "record" => v = w
      BY <1>1, <2>3 DEF EngineBecomes
    <2> QED  BY <1>2, <2>1, <2>2, <2>4 DEF OneArchive
  <1>8. Deliveries'
    <2> SUFFICES ASSUME captures' <= 1, ~removed PROVE Deliveries'
      BY <1>2 DEF Deliveries
    <2>1. captures <= 1
      BY <1>2, CaptureFacts
    <2>2. /\ \A d \in Destinations : delivery[d] = "complete" => remote[d] # 0
          /\ \A v \in BackupWorkers :
                /\ engine[v].step = "marker" => remote[First(engine[v].left)] # 0
                /\ engine[v].step \in {"deliver", "marker"} /\ ~engine[v].failed =>
                      \A d \in Destinations \ engine[v].left : Verified(d)
          /\ backup.state = "complete" => \A d \in Destinations : Verified(d)
      BY <2>1 DEF BackupInv, Deliveries
    <2>3. \A d \in Destinations : Verified(d)' <=> Verified(d)
      BY <1>2 DEF Verified
    <2>4. \A v \in BackupWorkers :
              engine'[v].step \in {"deliver", "marker"} => engine'[v] = engine[v]
      BY <1>1 DEF EngineBecomes
    <2> QED  BY <1>2, <2>2, <2>3, <2>4 DEF Deliveries, owners
  <1> QED  BY <1>4, <1>5, <1>6, <1>7, <1>8 DEF BackupInv

LEMMA PuttingKeeps ==
    ASSUME BackupInv, NEW w \in BackupWorkers, Puts(w)
    PROVE  BackupInv'
  <1> PICK d : d = First(engine[w].left)
    OBVIOUS
  <1> PICK s \in {"marker", "deliver"} :
          s = IF remote[d] \in {0, spool} THEN "marker" ELSE engine[w].step
    BY DEF Puts
  <1>1. /\ UNCHANGED <<backup, delivery, keyed, spool, workerLock, rowLock, owners, captures, lost,
                       removed>>
        /\ spool # 0 /\ spool = backup.sha /\ engine[w].step = "deliver" /\ engine[w].left # {}
        /\ remote' = [remote EXCEPT ![d] = IF remote[d] \in {0, spool} THEN spool ELSE 0]
    BY DEF Puts, backupBounds
  <1>2. d \in Destinations
    BY <1>1, BackupFacts, FirstIsLeft
  <1>3. EngineBecomes(w, s, engine[w].failed, engine[w].left)
    <2>1. Enters(w, s)
      BY DEF Puts, Enters
    <2>2. s \in WorkerSteps
      BY DEF WorkerSteps, Executing
    <2> QED  BY <2>1, <2>2, BackupFacts, EngineEnters
  <1>4. BackupTypes'
    <2>1. engine' \in [BackupWorkers -> EngineRecords]
      BY <1>3 DEF EngineBecomes
    <2>2. \A v \in BackupWorkers : engine'[v].step = "marker" => engine'[v].left # {}
      BY <1>1, <1>3, BackupFacts DEF EngineBecomes
    <2>3. /\ remote' \in [Destinations -> 0 .. MaxCaptures]
          /\ \A e \in Destinations : remote'[e] <= captures
      BY <1>1, <1>2, BackupFacts, CaptureFacts
    <2>4. UNCHANGED <<removal, pendingAsk>>
      BY <1>1 DEF owners
    <2> QED  BY <1>1, <2>1, <2>2, <2>3, <2>4 DEF BackupInv, BackupTypes
  <1>5. RowHeld'
    BY <1>1, <1>3, RunUnchanged, RowStays DEF owners
  <1>6. OneExecutes'
    BY <1>1, <1>3, WorkersStay DEF Executing
  <1>7. OneArchive'
    <2> SUFFICES ASSUME captures <= 1 PROVE OneArchive'
      BY <1>1 DEF OneArchive
    <2>1. \A v \in BackupWorkers : engine'[v].step = "record" => engine[v].step = "record"
      BY <1>3 DEF EngineBecomes
    <2>2. \A e \in Destinations : remote[e] # 0 => remote[e] = backup.sha
      BY DEF BackupInv, OneArchive
    <2>3. \A e \in Destinations : remote'[e] # 0 => remote'[e] = backup.sha
      BY <1>1, <1>2, <2>2, BackupFacts
    <2> QED  BY <1>1, <2>1, <2>3 DEF BackupInv, OneArchive
  <1>8. Deliveries'
    <2> SUFFICES ASSUME captures <= 1, ~removed PROVE Deliveries'
      BY <1>1 DEF Deliveries
    <2>1. /\ \A e \in Destinations : delivery[e] = "complete" => remote[e] # 0
          /\ \A v \in BackupWorkers :
                /\ engine[v].step = "marker" => remote[First(engine[v].left)] # 0
                /\ engine[v].step \in {"deliver", "marker"} /\ ~engine[v].failed =>
                      \A e \in Destinations \ engine[v].left : Verified(e)
          /\ backup.state = "complete" => \A e \in Destinations : Verified(e)
      BY DEF BackupInv, Deliveries
    <2>2. spool = 1 /\ remote[d] \in {0, 1}
      BY <1>1, <1>2, CaptureFacts
    <2>3. remote'[d] = 1 /\ \A e \in Destinations : e # d => remote'[e] = remote[e]
      BY <1>1, <1>2, <2>2, BackupFacts
    <2>4. \A e \in Destinations : remote[e] # 0 => remote'[e] # 0
      BY <2>3
    <2>5. \A e \in Destinations : Verified(e) => Verified(e)'
      BY <1>1, <2>4 DEF Verified
    <2>6. ASSUME NEW v \in BackupWorkers, engine'[v].step = "marker"
          PROVE  remote'[First(engine'[v].left)] # 0
      <3>1. CASE v = w
        BY <1>3, <2>3, <3>1 DEF EngineBecomes
      <3>2. CASE v # w
        <4>1. engine'[v] = engine[v] /\ engine[v].step = "marker"
          BY <1>3, <2>6, <3>2 DEF EngineBecomes
        <4>2. First(engine[v].left) \in Destinations
          BY <4>1, BackupFacts, FirstIsLeft
        <4> QED  BY <2>1, <2>4, <4>1, <4>2
      <3> QED  BY <3>1, <3>2
    <2>7. ASSUME NEW v \in BackupWorkers, engine'[v].step \in {"deliver", "marker"},
                 ~engine'[v].failed, NEW e \in Destinations \ engine'[v].left
          PROVE  Verified(e)'
      <3>1. /\ engine[v].step \in {"deliver", "marker"} /\ ~engine[v].failed
            /\ engine'[v].left = engine[v].left
        BY <1>1, <1>3, <2>7 DEF EngineBecomes
      <3> QED  BY <2>1, <2>5, <2>7, <3>1
    <2> QED  BY <1>1, <2>1, <2>4, <2>5, <2>6, <2>7 DEF Deliveries, owners
  <1> QED  BY <1>4, <1>5, <1>6, <1>7, <1>8 DEF BackupInv

(* A delivery ends, done or failed.                                        *)
LEMMA DeliveringKeeps ==
    ASSUME BackupInv, NEW w \in BackupWorkers, Delivers(w) \/ DeliveryFails(w)
    PROVE  BackupInv'
  <1> PICK d : d = First(engine[w].left)
    OBVIOUS
  <1> PICK l : l = engine[w].left \ {d}
    OBVIOUS
  <1>1. /\ UNCHANGED <<backup, spool, remote, workerLock, rowLock, owners, captures, lost, removed>>
        /\ engine[w].step \in {"deliver", "marker"}
        /\ Delivers(w) => engine[w].step = "marker"
        /\ engine[w].step = "deliver" => engine[w].left # {}
    BY DEF Delivers, DeliveryFails, backupBounds, Trouble
  <1>2. d \in Destinations /\ d \in engine[w].left
    BY <1>1, BackupFacts, FirstIsLeft
  <1>3. l \in DestinationSets
    BY BackupFacts DEF DestinationSets
  <1>4. \/ /\ delivery' = [delivery EXCEPT ![d] = "complete"] /\ keyed' = keyed \union {d}
           /\ EngineBecomes(w, "deliver", engine[w].failed, l) /\ engine[w].step = "marker"
        \/ /\ delivery' = [delivery EXCEPT ![d] = "failed"] /\ keyed' = keyed
           /\ \E s \in {"deliver", "settle"} : EngineBecomes(w, s, TRUE, l)
    <2>1. {"deliver", "settle"} \subseteq WorkerSteps
      BY DEF WorkerSteps, Executing
    <2>2. CASE Delivers(w)
      <3>1. engine' = [engine EXCEPT ![w].step = "deliver", ![w].left = l]
        BY <2>2 DEF Delivers
      <3>2. EngineBecomes(w, "deliver", engine[w].failed, l)
        BY <1>3, <2>1, <3>1, BackupFacts, EngineLists
      <3> QED  BY <1>1, <2>2, <3>2 DEF Delivers
    <2>3. CASE DeliveryFails(w)
      <3> PICK s \in {"deliver", "settle"} : s = IF engine[w].aborted THEN "settle" ELSE "deliver"
        OBVIOUS
      <3>1. engine' = [engine EXCEPT ![w].step = s, ![w].failed = TRUE, ![w].left = l]
        BY <2>3 DEF DeliveryFails
      <3>2. EngineBecomes(w, s, TRUE, l)
        BY <1>3, <2>1, <3>1, BackupFacts, EngineFails
      <3> QED  BY <2>3, <3>2 DEF DeliveryFails
    <2> QED  BY <2>2, <2>3
  <1>5. PICK s \in {"deliver", "settle"}, f \in {TRUE, engine[w].failed} :
            /\ EngineBecomes(w, s, f, l)
            /\ \/ /\ delivery' = [delivery EXCEPT ![d] = "complete"] /\ keyed' = keyed \union {d}
                  /\ engine[w].step = "marker"
               \/ delivery' = [delivery EXCEPT ![d] = "failed"] /\ keyed' = keyed /\ f = TRUE
            /\ f = engine[w].failed \/ f = TRUE
    BY <1>4
  <1>6. BackupTypes'
    <2>1. engine' \in [BackupWorkers -> EngineRecords]
      BY <1>5 DEF EngineBecomes
    <2>2. \A v \in BackupWorkers : engine'[v].step = "marker" => engine'[v].left # {}
      BY <1>5, BackupFacts DEF EngineBecomes
    <2>3. delivery' \in [Destinations -> DeliveryStates] /\ keyed' \subseteq Destinations
      BY <1>2, <1>5, BackupFacts DEF DeliveryStates
    <2>4. UNCHANGED <<removal, pendingAsk>>
      BY <1>1 DEF owners
    <2> QED  BY <1>1, <2>1, <2>2, <2>3, <2>4 DEF BackupInv, BackupTypes
  <1>7. RowHeld'
    BY <1>1, <1>5, RunUnchanged, RowStays DEF owners
  <1>8. OneExecutes'
    BY <1>1, <1>5, WorkersStay DEF Executing
  <1>9. OneArchive'
    <2>1. \A v \in BackupWorkers : engine'[v].step = "record" => engine[v].step = "record"
      BY <1>5 DEF EngineBecomes
    <2> QED  BY <1>1, <2>1 DEF BackupInv, OneArchive
  <1>10. Deliveries'
    <2> SUFFICES ASSUME captures <= 1, ~removed PROVE Deliveries'
      BY <1>1 DEF Deliveries
    <2>1. /\ \A e \in Destinations : delivery[e] = "complete" => remote[e] # 0
          /\ \A v \in BackupWorkers :
                /\ engine[v].step = "marker" => remote[First(engine[v].left)] # 0
                /\ engine[v].step \in {"deliver", "marker"} /\ ~engine[v].failed =>
                      \A e \in Destinations \ engine[v].left : Verified(e)
          /\ backup.state = "complete" => \A e \in Destinations : Verified(e)
      BY DEF BackupInv, Deliveries
    <2>2. \A e \in Destinations : e # d => (Verified(e) => Verified(e)') /\ delivery'[e] = delivery[e]
      BY <1>1, <1>2, <1>5, BackupFacts DEF Verified
    <2>3. delivery'[d] = "complete" => Verified(d)'
      BY <1>1, <1>2, <1>5, <2>1, BackupFacts DEF Verified
    <2>4. f = TRUE \/ delivery'[d] = "complete"
      BY <1>2, <1>5, BackupFacts
    <2>5. \A e \in Destinations : delivery'[e] = "complete" => remote'[e] # 0
      BY <1>1, <2>1, <2>2, <2>3 DEF Verified
    <2>6. lost => \A e \in Destinations : Verified(e) => Verified(e)'
      BY <1>1 DEF Verified
    <2>7. ~lost => \A v \in BackupWorkers : engine[v].step \in Executing => v = w
      BY <1>1 DEF BackupInv, OneExecutes, Executing
    <2>8. ~lost => backup.state # "complete"
      BY <1>1 DEF BackupInv, OneExecutes, Executing
    <2>9. ASSUME NEW v \in BackupWorkers, engine'[v].step = "marker"
          PROVE  remote'[First(engine'[v].left)] # 0
      BY <1>1, <1>5, <2>1, <2>9 DEF EngineBecomes
    <2>10. ASSUME NEW v \in BackupWorkers, engine'[v].step \in {"deliver", "marker"},
                  ~engine'[v].failed, NEW e \in Destinations \ engine'[v].left
           PROVE  Verified(e)'
      <3>1. CASE v = w
        <4>1. ~f /\ ~engine[w].failed /\ engine'[w].left = l
          BY <1>5, <2>10, <3>1 DEF EngineBecomes
        <4>2. CASE e = d
          BY <2>3, <2>4, <4>1, <4>2
        <4>3. CASE e # d
          <5>1. Verified(e)
            BY <1>1, <2>1, <2>10, <3>1, <4>1, <4>3
          <5> QED  BY <2>2, <4>3, <5>1
        <4> QED  BY <4>2, <4>3
      <3>2. CASE v # w
        <4>1. engine'[v] = engine[v]
          BY <1>5, <3>2 DEF EngineBecomes
        <4>2. engine[v].step \in Executing
          BY <2>10, <4>1 DEF Executing
        <4>3. lost
          BY <2>7, <3>2, <4>2
        <4>4. Verified(e)
          BY <2>1, <2>10, <4>1
        <4> QED  BY <2>6, <4>3, <4>4
      <3> QED  BY <3>1, <3>2
    <2>11. backup.state = "complete" => \A e \in Destinations : Verified(e)'
      BY <2>1, <2>6, <2>8
    <2> QED  BY <1>1, <2>1, <2>5, <2>9, <2>10, <2>11 DEF Deliveries, owners
  <1> QED  BY <1>6, <1>7, <1>8, <1>9, <1>10 DEF BackupInv

(* The lock's connection is lost, maybe while its worker executes.         *)
LEMMA LockLost ==
    ASSUME BackupInv, NEW w \in BackupWorkers, LosesLock(w)
    PROVE  BackupInv'
  <1>1. /\ UNCHANGED <<backup, delivery, keyed, spool, remote, engine, rowLock, removal, pendingAsk,
                       captures, removed>>
        /\ workerLock = w /\ workerLock' = NoWorker
        /\ lost => lost'
        /\ ~lost' => ~lost /\ engine[w].step \notin Executing
    BY DEF LosesLock, Freed, owners
  <1>2. BackupTypes' /\ RowHeld'
    BY <1>1 DEF BackupInv, BackupTypes, RowHeld, Erasing
  <1>3. OneExecutes' /\ OneArchive'
    BY <1>1 DEF BackupInv, OneExecutes, OneArchive
  <1>4. \A d \in Destinations : Verified(d) => Verified(d)'
    BY <1>1 DEF Verified
  <1>5. Deliveries'
    BY <1>1, <1>4 DEF BackupInv, Deliveries
  <1> QED  BY <1>2, <1>3, <1>5 DEF BackupInv

(***************************************************************************)
(* What the owner does, and a removal.                                     *)
(***************************************************************************)
LEMMA OwnerTurn ==
    ASSUME BackupInv, NEW st \in RunStates, NEW p, RunBecomes(st, backup.sha, p),
           st = "complete" => backup.state = "complete",
           UNCHANGED <<engine, workerLock, keyed, captures, lost>>, spool' \in {0, spool},
           removal' \in RemovalRecords, removal'.step = "record" => removal'.left # {},
           delivery' \in [Destinations -> DeliveryStates],
           remote' \in [Destinations -> 0 .. MaxCaptures],
           \A d \in Destinations : remote'[d] \in {0, remote[d]},
           pendingAsk' \subseteq {"cancel", "retry"},
           rowLock' \in {"free", "spool", "removal"}, RowHeld',
           ~removed' => ~removed /\ UNCHANGED <<delivery, remote>> /\ removal'.step = "idle"
    PROVE  BackupInv'
  <1>1. BackupTypes'
    <2>1. spool' \in 0 .. captures' /\ captures' \in 0 .. MaxCaptures
      BY CaptureFacts
    <2>2. backup'.sha <= captures' /\ backup' \in RunRecords
      BY CaptureFacts DEF RunBecomes
    <2>3. \A d \in Destinations : remote'[d] <= captures'
      BY CaptureFacts
    <2> QED  BY <2>1, <2>2, <2>3 DEF BackupInv, BackupTypes
  <1>2. OneExecutes'
    BY DEF BackupInv, OneExecutes, RunBecomes
  <1>3. OneArchive'
    BY DEF BackupInv, OneArchive, RunBecomes
  <1>4. Deliveries'
    <2> SUFFICES ASSUME captures <= 1, ~removed' PROVE Deliveries'
      BY DEF Deliveries
    <2>1. \A d \in Destinations : Verified(d)' <=> Verified(d)
      BY DEF Verified
    <2> QED  BY <2>1 DEF BackupInv, Deliveries, RunBecomes
  <1> QED  BY <1>1, <1>2, <1>3, <1>4 DEF BackupInv

LEMMA FreeRow ==
    ASSUME BackupInv, UNCHANGED <<engine, rowLock, removal>>,
           rowLock = "free" \/ backup'.pinned = backup.pinned
    PROVE  RowHeld'
  BY DEF BackupInv, RowHeld, Erasing

LEMMA OwnersKeep ==
    ASSUME BackupInv,
           \/ QueueRun \/ DayPasses \/ (\E ask \in {"cancel", "retry"} : OwnerReads(ask))
           \/ (\E ask \in {"cancel", "retry"} : OwnerWrites(ask))
           \/ \E p \in BOOLEAN : Pins(p)
    PROVE  BackupInv'
  <1>1. /\ UNCHANGED <<engine, workerLock, keyed, captures, lost, spool, removal, delivery, remote,
                       removed, rowLock>>
        /\ pendingAsk' \subseteq {"cancel", "retry"}
    BY BackupFacts DEF QueueRun, DayPasses, OwnerReads, OwnerWrites, Pins, OwnerAsks, owners,
                       backupBounds
  <1>2. PICK st \in RunStates, p \in BOOLEAN :
            /\ RunBecomes(st, backup.sha, p)
            /\ st = "complete" => backup.state = "complete"
            /\ rowLock = "free" \/ p = backup.pinned
    <2>1. backup \in RunRecords /\ backup.sha \in 0 .. MaxCaptures /\ backup.state \in RunStates
          /\ backup.pinned \in BOOLEAN
      BY DEF BackupInv, BackupTypes, RunRecords
    <2>2. {"queued", "cancelled"} \subseteq RunStates
      BY DEF RunStates, InProgress
    <2>3. CASE QueueRun
      BY ZenonT(60), <2>1, <2>2, <2>3, RunForms DEF QueueRun
    <2>4. CASE DayPasses \/ \E ask \in {"cancel", "retry"} : OwnerReads(ask)
      BY <2>1, <2>4, RunUnchanged DEF DayPasses, OwnerReads
    <2>5. CASE \E ask \in {"cancel", "retry"} : OwnerWrites(ask)
      <3> PICK st \in {"queued", "cancelled"} : backup' = [backup EXCEPT !.state = st]
        BY <2>5 DEF OwnerWrites
      <3> QED  BY <2>1, <2>2, RunForms
    <2>6. CASE \E p \in BOOLEAN : Pins(p)
      <3> PICK p \in BOOLEAN : Pins(p)
        BY <2>6
      <3>1. RunBecomes(backup.state, backup.sha, p)
        BY <2>1, RunForms DEF Pins
      <3> QED  BY <2>1, <3>1 DEF Pins
    <2> QED  BY <2>3, <2>4, <2>5, <2>6
  <1>3. RowHeld'
    BY <1>1, <1>2, FreeRow DEF RunBecomes
  <1>4. ~removed => removal.step = "idle"
    BY DEF BackupInv, BackupTypes
  <1>5. removal.step = "record" => removal.left # {}
    BY DEF BackupInv, BackupTypes
  <1> QED  BY <1>1, <1>2, <1>3, <1>4, <1>5, BackupFacts, OwnerTurn

LEMMA RemovalRow ==
    ASSUME BackupInv, UNCHANGED engine, rowLock # "spool", rowLock' \in {"free", "removal"},
           rowLock' = "removal" <=> removal'.step # "idle", ~backup'.pinned \/ rowLock' = "free"
    PROVE  RowHeld'
  <1>1. \A w \in BackupWorkers : ~Erasing(w) /\ ~Erasing(w)'
    BY DEF BackupInv, RowHeld, Erasing
  <1> QED  BY <1>1 DEF RowHeld

LEMMA RemovalForms ==
    ASSUME NEW x \in RemovalRecords, NEW s \in {"idle", "copy", "record", "commit"},
           NEW l \in DestinationSets
    PROVE  /\ [x EXCEPT !.step = s] \in RemovalRecords /\ [x EXCEPT !.step = s].step = s
           /\ [x EXCEPT !.step = s].left = x.left
           /\ [x EXCEPT !.left = l, !.retained = TRUE] \in RemovalRecords
           /\ [x EXCEPT !.left = l, !.retained = TRUE].step = x.step
           /\ [x EXCEPT !.step = s, !.left = l] \in RemovalRecords
           /\ [x EXCEPT !.step = s, !.left = l].step = s
           /\ [step |-> s, left |-> l, retained |-> FALSE] \in RemovalRecords
  BY DEF RemovalRecords

LEMMA RemovalsKeep ==
    ASSUME BackupInv, RemovalBegins \/ RemovalStep \/ RemovalFails \/ CopyIsRetained
    PROVE  BackupInv'
  <1>1. /\ backup \in RunRecords /\ backup.sha \in 0 .. MaxCaptures /\ backup.state \in RunStates
        /\ backup.pinned \in BOOLEAN
    BY DEF BackupInv, BackupTypes, RunRecords
  <1>2. RunBecomes(backup.state, backup.sha, backup.pinned)
    <2>1. CASE backup' = backup
      BY <2>1, RunUnchanged
    <2>2. CASE backup' = [backup EXCEPT !.artifact = FALSE]
      BY <1>1, <2>2, RunForms
    <2> QED
      BY <2>1, <2>2 DEF RemovalBegins, RemovalStep, RemovalFails, CopyIsRetained, RemovesCopy,
                        RecordsRemoval, RemovesFile, RemovalEnds
  <1>3. /\ UNCHANGED <<engine, workerLock, keyed, captures, lost, pendingAsk>>
        /\ spool' \in {0, spool}
    BY DEF RemovalBegins, RemovalStep, RemovalFails, CopyIsRetained, RemovesCopy,
           RecordsRemoval, RemovesFile, RemovalEnds, backupBounds, Trouble
  <1>4. /\ removal \in RemovalRecords /\ removal.left \in DestinationSets
        /\ removal.left \subseteq Destinations
        /\ removal.step \in {"idle", "copy", "record", "commit"}
        /\ removal.step # "idle" => removed /\ rowLock = "removal" /\ ~backup.pinned
    <2>1. removal \in RemovalRecords /\ (removal.step # "idle" => removed)
      BY DEF BackupInv, BackupTypes
    <2>2. removal.left \in DestinationSets /\ removal.step \in {"idle", "copy", "record", "commit"}
      BY <2>1 DEF RemovalRecords
    <2>3. removal.left \subseteq Destinations
      BY <2>2 DEF DestinationSets
    <2> QED  BY <2>1, <2>2, <2>3 DEF BackupInv, RowHeld
  <1>5. /\ removal' \in RemovalRecords
        /\ removal'.step = "record" => removal'.left # {}
    <2>1. CASE RemovalBegins
      <3> PICK l : l = {d \in keyed : delivery[d] # "deleted"}
        OBVIOUS
      <3>1. l \in DestinationSets
        BY BackupFacts DEF DestinationSets
      <3>2. removal' = [step |-> "copy", left |-> l, retained |-> FALSE]
        BY <2>1 DEF RemovalBegins
      <3> QED  BY <1>4, <3>1, <3>2, RemovalForms
    <2>2. CASE RemovesCopy
      BY <1>4, <2>2, RemovalForms DEF RemovesCopy
    <2>3. CASE RecordsRemoval \/ CopyIsRetained
      <3> PICK l : l = removal.left \ {First(removal.left)}
        OBVIOUS
      <3>1. l \in DestinationSets
        BY <1>4 DEF DestinationSets
      <3>2. CASE RecordsRemoval
        <4>1. removal' = [removal EXCEPT !.step = "copy", !.left = l]
          BY <3>2 DEF RecordsRemoval
        <4> QED  BY <1>4, <3>1, <4>1, RemovalForms
      <3>3. CASE CopyIsRetained
        <4>1. removal' = [removal EXCEPT !.left = l, !.retained = TRUE] /\ removal.step = "copy"
          BY <3>3 DEF CopyIsRetained
        <4>2. removal'.step = "copy" /\ removal' \in RemovalRecords
          BY <1>4, <3>1, <4>1 DEF RemovalRecords
        <4> QED  BY <4>2
      <3> QED  BY <2>3, <3>2, <3>3
    <2>4. CASE RemovesFile
      BY <1>4, <2>4, RemovalForms DEF RemovesFile
    <2>5. CASE RemovalEnds \/ RemovalFails
      <3>1. {} \in DestinationSets
        BY DEF DestinationSets
      <3>2. removal' = [step |-> "idle", left |-> {}, retained |-> FALSE]
        BY <2>5 DEF RemovalEnds, RemovalFails, NoRemoval
      <3> QED  BY <1>4, <3>1, <3>2, RemovalForms
    <2> QED  BY <2>1, <2>2, <2>3, <2>4, <2>5 DEF RemovalStep
  <1>6. /\ delivery' \in [Destinations -> DeliveryStates]
        /\ remote' \in [Destinations -> 0 .. MaxCaptures]
        /\ \A d \in Destinations : remote'[d] \in {0, remote[d]}
    <2>1. 0 \in 0 .. MaxCaptures
      BY BackupAssumption
    <2> QED
      BY <2>1, BackupFacts
         DEF RemovalBegins, RemovalStep, RemovalFails, CopyIsRetained, RemovesCopy,
             RecordsRemoval, RemovesFile, RemovalEnds, DeliveryStates
  <1>7. removed'
    BY <1>4 DEF RemovalBegins, RemovalStep, RemovalFails, CopyIsRetained, RemovesCopy,
                RecordsRemoval, RemovesFile, RemovalEnds, backupBounds, Trouble
  <1>8. RowHeld' /\ rowLock' \in {"free", "spool", "removal"}
    <2>1. rowLock # "spool"
      BY <1>4 DEF RemovalBegins, RemovalStep, RemovalFails, CopyIsRetained, RemovesCopy,
                  RecordsRemoval, RemovesFile, RemovalEnds
    <2>2. \/ rowLock' = "free" /\ removal'.step = "idle"
          \/ rowLock' = "removal" /\ removal'.step # "idle" /\ ~backup.pinned
      <3>1. CASE RemovalBegins
        BY <3>1 DEF RemovalBegins, MayRemove
      <3>2. CASE RemovalEnds \/ RemovalFails
        BY <3>2 DEF RemovalEnds, RemovalFails, NoRemoval
      <3>3. CASE RemovesCopy \/ RemovesFile
        BY <1>4, <3>3, RemovalForms DEF RemovesCopy, RemovesFile
      <3>4. CASE RecordsRemoval
        BY <1>4, <3>4 DEF RecordsRemoval, RemovalRecords
      <3>5. CASE CopyIsRetained
        BY <1>4, <3>5 DEF CopyIsRetained, RemovalRecords
      <3> QED  BY <3>1, <3>2, <3>3, <3>4, <3>5 DEF RemovalStep
    <2> QED  BY <1>2, <1>3, <2>1, <2>2, RemovalRow DEF RunBecomes
  <1> QED  BY <1>1, <1>2, <1>3, <1>5, <1>6, <1>7, <1>8, BackupFacts, OwnerTurn

LEMMA BackupsStep == BackupInv /\ [BackupNext]_backupVars => BackupInv'
  <1>1. ASSUME BackupInv, UNCHANGED backupVars PROVE BackupInv'
    BY <1>1 DEF backupVars, BackupInv, BackupTypes, RowHeld, OneExecutes, OneArchive, Deliveries,
                Verified, Erasing
  <1>2. ASSUME BackupInv, NEW w \in BackupWorkers, WorkerStep(w) PROVE BackupInv'
    BY <1>2, TicksKeep, ClaimsKeep, CapturesKeep, TurnsEnd, RestsKeep, CleaningKeeps,
       CapturingKeeps, PuttingKeeps, DeliveringKeeps DEF WorkerStep
  <1>3. ASSUME BackupInv, BackupNext PROVE BackupInv'
    BY <1>2, <1>3, RestsKeep, LockLost, OwnersKeep, RemovalsKeep DEF BackupNext, OwnerStep
  <1> QED  BY <1>1, <1>3

LEMMA BackupInvariance == BackupSpec => []BackupInv
  BY BackupsStart, BackupsStep, PTL DEF BackupSpec

(* The run's row, its deliveries and every process keep their types, and   *)
(* the row is locked by who works in it.                                   *)
THEOREM BackupTypesHold == BackupSpec => []BackupTypeOK
  <1>1. ASSUME BackupInv PROVE BackupTypeOK
    <2>1. /\ backup.state \in RunStates /\ {backup.artifact, backup.pinned} \subseteq BOOLEAN
          /\ backup.sha \in 0 .. MaxCaptures
      BY <1>1 DEF BackupInv, BackupTypes, RunRecords
    <2>2. {spool, backup.sha} \subseteq 0 .. MaxCaptures
      BY <1>1, <2>1, CaptureFacts
    <2> QED
      BY <1>1, <2>1, <2>2, BackupFacts
         DEF BackupTypeOK, BackupInv, BackupTypes, RowHeld, Erasing, DeliveryStates
  <1> QED  BY <1>1, BackupInvariance, PTL

(***************************************************************************)
(* Complete means verified: whatever stopped and was resumed, a run that   *)
(* says complete has its archive at every destination, and every delivery  *)
(* says so unless a worker lost its lock at work.                          *)
(***************************************************************************)
THEOREM CompleteIsVerified == BackupSpec => []CompleteMeansVerified
  <1>1. ASSUME BackupInv PROVE CompleteMeansVerified
    <2> SUFFICES ASSUME backup.state = "complete", ~removed, captures = 1, NEW d \in Destinations
                 PROVE  remote[d] = backup.sha /\ (lost \/ delivery[d] = "complete")
      BY DEF CompleteMeansVerified
    <2>1. Verified(d)
      BY <1>1 DEF BackupInv, Deliveries
    <2> QED  BY <1>1, <2>1 DEF Verified, BackupInv, OneArchive
  <1> QED  BY <1>1, BackupInvariance, PTL

(***************************************************************************)
(* A pinned backup loses neither its file nor a verified copy, whatever    *)
(* chose it before the pin.                                                *)
(***************************************************************************)
THEOREM PinnedIsKept == BackupSpec => NothingPinnedIsRemoved
  <1>1. ASSUME BackupInv, BackupNext, backup.pinned, captures = 1
        PROVE  /\ backup.artifact /\ spool # 0 => spool' = spool
               /\ \A d \in Destinations :
                     delivery[d] = "complete" /\ remote[d] # 0 => remote'[d] = remote[d]
    <2>1. /\ removal.step = "idle"
          /\ \A w \in BackupWorkers : engine[w].step \notin {"erase", "erased"}
      BY <1>1 DEF BackupInv, RowHeld, Erasing
    <2>2. ASSUME NEW w \in BackupWorkers, TickEnds(w) PROVE spool' = spool /\ remote' = remote
      BY <1>1, <2>2 DEF TickEnds, Spoiled
    <2>3. ASSUME NEW w \in BackupWorkers, Captures(w) PROVE spool = 0 /\ remote' = remote
      BY <2>3 DEF Captures
    <2>4. ASSUME NEW w \in BackupWorkers, Puts(w), NEW d \in Destinations, remote[d] # 0
          PROVE  spool' = spool /\ remote'[d] = remote[d]
      <3>1. spool = 1 /\ remote[d] = 1
        BY <1>1, <2>4, CaptureFacts DEF Puts
      <3>2. remote \in [Destinations -> 0 .. MaxCaptures]
        BY <1>1, BackupFacts
      <3> QED  BY <2>4, <3>1, <3>2 DEF Puts
    <2>5. ASSUME NEW w \in BackupWorkers, WorkerStep(w), ~TickEnds(w), ~Captures(w), ~Puts(w)
          PROVE  spool' = spool /\ remote' = remote
      BY <2>1, <2>5
         DEF WorkerStep, TickBegins, RecoversAbandoned, Claims, NothingQueued, LockIsGone, Prepares,
             CaptureFails, RecordsArchive, ListsDeliveries, Delivers, Finishes, StopsDelivering,
             Settles, EndsAborted, LooksForVerification, LocksSpool, ErasesSpool, RecordsErasure,
             DeliveryFails
    <2>6. ASSUME NEW w \in BackupWorkers, Puts(w) PROVE spool' = spool
      BY <2>6 DEF Puts
    <2>7. ASSUME \/ \E w \in BackupWorkers : WorkerDies(w) \/ LosesLock(w)
                 \/ QueueRun \/ DayPasses \/ RemovalBegins \/ RemovalStep \/ RemovalFails
                 \/ CopyIsRetained \/ OwnerStep
                 \/ (\E ask \in {"cancel", "retry"} : OwnerReads(ask))
                 \/ \E pinned \in BOOLEAN : Pins(pinned)
          PROVE  spool' = spool /\ remote' = remote
      BY <2>1, <2>7
         DEF WorkerDies, LosesLock, QueueRun, DayPasses, RemovalBegins, RemovalStep, RemovesCopy,
             RecordsRemoval, RemovesFile, RemovalEnds, RemovalFails, CopyIsRetained, OwnerStep,
             OwnerReads, OwnerWrites, Pins
    <2> QED  BY <1>1, <2>2, <2>3, <2>4, <2>5, <2>6, <2>7 DEF BackupNext
  <1>2. BackupInv /\ [BackupNext]_backupVars
        => [backup.pinned /\ captures = 1 =>
               /\ backup.artifact /\ spool # 0 => spool' = spool
               /\ \A d \in Destinations :
                     delivery[d] = "complete" /\ remote[d] # 0 => remote'[d] = remote[d]]_backupVars
    BY <1>1
  <1> QED  BY <1>2, BackupInvariance, PTL DEF BackupSpec, NothingPinnedIsRemoved

-----------------------------------------------------------------------------
(***************************************************************************)
(* The index, for every number of names, threads and changes.              *)
(***************************************************************************)
IndexThreads == PoolThreads \union {Scanner}

Versions == 0 .. changes

IndexRows == [live : BOOLEAN, mtime : Versions, sha : Versions, text : Versions,
              status : {"none", "pending", "done", "error"}]

FileEvents ==
    [kind : {"touched"}, name : Names] \union [kind : {"moved"}, name : Names, to : Names]

FileMoves == [from : Names, to : Names, age : {"young", "old"}]

FileJobs == [step : {"idle", "wait", "reading", "gone", "failing"}, name : Names, st : Versions]

FilesFound == [name : Names, st : Versions \ {NoVersion}]

NameSets == SUBSET Names

FlushRecords ==
    [step : {"idle", "moves", "rename", "gone"}, moves : Seq(FileMoves), due : NameSets,
     submitted : BOOLEAN, gone : Names \union {NoVersion}]

ScanRecords ==
    [step : {"idle", "walk"}, next : 1 .. FileCount + 1, manifest : [Names -> Versions],
     unseen : NameSets, backlog : Seq(FilesFound), clean : BOOLEAN]

FileTypes ==
    /\ changes \in 0 .. MaxChanges
    /\ disk \in [Names -> Versions]
    /\ index \in [Names -> IndexRows]
    /\ fresh \in NameSets
    /\ scanned \in BOOLEAN /\ torn \in BOOLEAN

WatchTypes ==
    /\ unread \in Seq(FileEvents)
    /\ due \in [Names -> {"none", "young", "old"}]
    /\ moves \in Seq(FileMoves)
    /\ poolQueue \in Seq(Names)
    /\ flush \in FlushRecords
    /\ flush.step = "gone" => flush.gone \in Names
    /\ flush.step = "rename" => flush.moves # <<>>

JobTypes ==
    /\ thread \in [IndexThreads -> FileJobs]
    /\ \A t \in IndexThreads :
        thread[t].step \in {"wait", "reading"} => thread[t].st # NoVersion
    /\ scan \in ScanRecords

IndexTypes == FileTypes /\ WatchTypes /\ JobTypes

LEMMA IndexBounds ==
    /\ FileCount \in Nat \ {0} /\ PoolWorkers \in Nat \ {0}
    /\ MaxChanges \in Nat \ {0} /\ MaxMishaps \in Nat \ {0}
  BY IndexAssumption

LEMMA SeqGrows ==
    ASSUME NEW S, NEW T, S \subseteq T, NEW s \in Seq(S)
    PROVE  s \in Seq(T)
  <1>1. DOMAIN s = 1 .. Len(s) /\ Len(s) \in Nat /\ \A i \in 1 .. Len(s) : s[i] \in T
    OBVIOUS
  <1>2. s = [i \in 1 .. Len(s) |-> s[i]]
    OBVIOUS
  <1> QED  BY <1>1, <1>2

LEMMA SeqParts ==
    ASSUME NEW S, NEW s \in Seq(S), NEW taken \in 0 .. Len(s)
    PROVE  SubSeq(s, 1, taken) \in Seq(S) /\ SubSeq(s, taken + 1, Len(s)) \in Seq(S)
  OBVIOUS

LEMMA SeqOfLength ==
    ASSUME NEW S, NEW length \in Nat, NEW s \in [1 .. length -> S]
    PROVE  s \in Seq(S)
  OBVIOUS

LEMMA TypesBegin == IndexInit => IndexTypes
  <1> SUFFICES ASSUME IndexInit PROVE IndexTypes
    OBVIOUS
  <1> USE IndexBounds
  <1>1. FileTypes
    <2>1. changes = 1 /\ Versions = {0, 1} /\ NoVersion = 0
      BY DEF IndexInit, Versions, NoVersion
    <2>2. disk \in [Names -> Versions]
      BY <2>1 DEF IndexInit
    <2>3. NoIndexRow \in IndexRows
      BY <2>1 DEF NoIndexRow, IndexRows
    <2>4. PICK row \in IndexRows :
              row = [live |-> TRUE, mtime |-> 1, sha |-> 1, text |-> 1, status |-> "done"]
      BY <2>1 DEF IndexRows
    <2>5. index = [n \in Names |-> IF n = 1 THEN row ELSE NoIndexRow]
      BY <2>4 DEF IndexInit
    <2>6. index \in [Names -> IndexRows]
      BY <2>3, <2>4, <2>5
    <2>7. changes \in 0 .. MaxChanges /\ fresh \in NameSets
      BY <2>1 DEF IndexInit, NameSets
    <2>8. scanned \in BOOLEAN /\ torn \in BOOLEAN
      BY DEF IndexInit
    <2> QED  BY <2>2, <2>6, <2>7, <2>8 DEF FileTypes
  <1>2. WatchTypes
    BY DEF IndexInit, WatchTypes, FlushRecords, NotFlushing, NameSets, NoVersion
  <1>3. JobTypes
    <2>1. 1 \in Names /\ NoVersion \in Versions /\ 1 \in 1 .. FileCount + 1
      BY DEF IndexInit, Names, Versions, NoVersion
    <2>2. NoFileJob \in FileJobs
      BY <2>1 DEF NoFileJob, FileJobs
    <2>3. NotScanning \in ScanRecords
      BY <2>1 DEF NotScanning, ScanRecords, NameSets
    <2> QED  BY <2>2, <2>3 DEF IndexInit, JobTypes, IndexThreads, NoFileJob
  <1> QED  BY <1>1, <1>2, <1>3 DEF IndexTypes

(* What is known of versions stays known when a file changes.              *)
LEMMA FileChangeTypes ==
    ASSUME IndexTypes, FileChange
    PROVE  IndexTypes'
  <1> USE IndexBounds
  <1>1. PICK event \in FileEvents : Changed(event)
    BY DEF FileChange, FileWritten, FileRemoved, FileMoved, FileEvents
  <1>2. changes' = changes + 1 /\ changes' \in 0 .. MaxChanges /\ changes \in Nat
    BY SMTT(30), <1>1 DEF Changed, IndexTypes, FileTypes
  <1>3. Versions \subseteq Versions' /\ changes + 1 \in Versions' /\ NoVersion \in Versions'
    BY <1>2 DEF Versions, NoVersion
  <1>4. disk' \in [Names -> Versions']
    <2>1. disk \in [Names -> Versions']
      BY <1>3 DEF IndexTypes, FileTypes
    <2> QED  BY <1>3, <2>1 DEF FileChange, FileWritten, FileRemoved, FileMoved
  <1>5. FileTypes'
    <2>1. index \in [Names -> IndexRows']
      BY <1>3 DEF IndexTypes, FileTypes, IndexRows
    <2> QED  BY <1>1, <1>2, <1>4, <2>1 DEF FileTypes, Changed, IndexTypes
  <1>6. WatchTypes'
    BY <1>1 DEF WatchTypes, Changed, IndexTypes
  <1>7. JobTypes'
    <2>1. thread \in [IndexThreads -> FileJobs']
      BY <1>3 DEF IndexTypes, JobTypes, FileJobs
    <2>2. scan \in ScanRecords'
      <3>1. FilesFound \subseteq FilesFound'
        BY <1>3 DEF FilesFound
      <3>2. scan.backlog \in Seq(FilesFound)
        BY DEF IndexTypes, JobTypes, ScanRecords
      <3>3. scan.backlog \in Seq(FilesFound')
        BY <3>1, <3>2, SeqGrows
      <3> QED  BY <1>3, <3>3 DEF IndexTypes, JobTypes, ScanRecords
    <2>3. scan' \in ScanRecords'
      BY <1>1, <2>2 DEF Changed, ScanRecords
    <2> QED  BY <1>1, <2>1, <2>3 DEF JobTypes, Changed, IndexTypes
  <1> QED  BY <1>5, <1>6, <1>7 DEF IndexTypes

(* The watcher's own state.                                                *)
LEMMA WatchTypesKept ==
    ASSUME IndexTypes,
           KernelDropsEvent \/ RenameFails \/ ReaderTakes \/ DebouncePasses \/ FlushBegins
           \/ LooksForJobs \/ FlushEnds \/ \E n \in Names : SubmitsJob(n) \/ FindsNoFile(n)
    PROVE  WatchTypes'
  <1> USE IndexBounds DEF IndexTypes, WatchTypes
  <1>1. CASE KernelDropsEvent
    BY SMTT(30), <1>1 DEF KernelDropsEvent, Front
  <1>2. CASE RenameFails
    <2>1. flush.moves \in Seq(FileMoves) /\ flush.moves # <<>>
      BY <1>2 DEF RenameFails, FlushRecords
    <2>2. Tail(flush.moves) \in Seq(FileMoves)
      BY <2>1
    <2>3. flush' \in FlushRecords /\ flush'.step = "moves"
      BY <1>2, <2>2 DEF RenameFails, FlushRecords
    <2> QED  BY <1>2, <2>3 DEF RenameFails, watchVars
  <1>3. CASE ReaderTakes
    <2>1. Head(unread) \in FileEvents /\ unread' \in Seq(FileEvents)
      BY <1>3 DEF ReaderTakes
    <2>2. CASE Head(unread).kind = "touched"
      <3>1. Head(unread).name \in Names
        BY <2>1 DEF FileEvents
      <3> QED  BY <1>3, <2>1, <2>2, <3>1 DEF ReaderTakes
    <2>3. CASE Head(unread).kind # "touched"
      <3>1. Head(unread).name \in Names /\ Head(unread).to \in Names
        BY <2>1, <2>3 DEF FileEvents
      <3>2. moves' \in Seq(FileMoves)
        <4>1. PICK move \in FileMoves :
                  move = [from |-> Head(unread).name, to |-> Head(unread).to, age |-> "young"]
          BY <3>1 DEF FileMoves
        <4>2. moves' = Append(moves, move)
          BY <1>3, <2>3, <4>1 DEF ReaderTakes
        <4> QED  BY <4>2
      <3>3. due' \in [Names -> {"none", "young", "old"}]
        BY <1>3, <2>3, <3>1 DEF ReaderTakes, Rekeyed
      <3> QED  BY <1>3, <2>1, <3>2, <3>3 DEF ReaderTakes
    <2> QED  BY <2>2, <2>3
  <1>4. CASE DebouncePasses
    <2>1. due' \in [Names -> {"none", "young", "old"}]
      BY <1>4 DEF DebouncePasses, Aged
    <2>2. \A i \in 1 .. Len(moves) : [moves[i] EXCEPT !.age = "old"] \in FileMoves
      <3>1. \A i \in 1 .. Len(moves) : moves[i] \in FileMoves
        OBVIOUS
      <3> QED  BY <3>1 DEF FileMoves
    <2>3. moves' \in Seq(FileMoves)
      <3>1. Len(moves) \in Nat
        OBVIOUS
      <3>2. moves' \in [1 .. Len(moves) -> FileMoves]
        BY ZenonT(60), <1>4, <2>2 DEF DebouncePasses
      <3> QED  BY <3>1, <3>2, SeqOfLength
    <2> QED  BY <1>4, <2>1, <2>3 DEF DebouncePasses
  <1>5. CASE FlushBegins
    <2>1. PICK taken \in 0 .. Len(moves) :
              /\ flush' = [NotFlushing EXCEPT !.step = "moves",
                              !.moves = SubSeq(moves, 1, taken), !.due = {n \in Names : Old(n)}]
              /\ moves' = SubSeq(moves, taken + 1, Len(moves))
      BY <1>5 DEF FlushBegins
    <2>2. SubSeq(moves, 1, taken) \in Seq(FileMoves) /\ moves' \in Seq(FileMoves)
      <3>1. moves \in Seq(FileMoves)
        OBVIOUS
      <3> QED  BY <2>1, <3>1, SeqParts
    <2>3. {n \in Names : Old(n)} \in NameSets
      BY DEF NameSets
    <2>4. due' \in [Names -> {"none", "young", "old"}]
      BY <1>5 DEF FlushBegins
    <2>5. flush' \in FlushRecords /\ flush'.step = "moves"
      BY <2>1, <2>2, <2>3 DEF FlushRecords, NotFlushing
    <2> QED  BY <1>5, <2>2, <2>4, <2>5 DEF FlushBegins
  <1>6. CASE LooksForJobs
    <2>1. Submitted(Head(flush.moves).from) \in BOOLEAN
      BY DEF Submitted
    <2> QED  BY <1>6, <2>1 DEF LooksForJobs, FlushRecords, watchVars
  <1>7. CASE FlushEnds
    BY <1>7 DEF FlushEnds, FlushRecords, NotFlushing, NameSets, watchVars
  <1>8. ASSUME NEW n \in Names, SubmitsJob(n) PROVE WatchTypes'
    <2>1. poolQueue' \in Seq(Names)
      BY <1>8 DEF SubmitsJob
    <2>2. flush.due \ {n} \in NameSets
      BY DEF NameSets, FlushRecords
    <2> QED  BY <1>8, <2>1, <2>2 DEF SubmitsJob, FlushRecords, watchVars
  <1>9. ASSUME NEW n \in Names, FindsNoFile(n) PROVE WatchTypes'
    <2>1. flush.due \ {n} \in NameSets
      BY DEF NameSets, FlushRecords
    <2> QED  BY ZenonT(60), <1>9, <2>1 DEF FindsNoFile, FlushRecords, watchVars
  <1> QED  BY <1>1, <1>2, <1>3, <1>4, <1>5, <1>6, <1>7, <1>8, <1>9

(* Rows that are moved, dropped or written by a job.                       *)
LEMMA GoneTypes ==
    ASSUME IndexTypes, NEW names
    PROVE  Gone(names) \in [Names -> IndexRows]
  <1> SUFFICES ASSUME NEW n \in Names, index[n].live
               PROVE  [index[n] EXCEPT !.live = FALSE, !.text = NoVersion] \in IndexRows
    BY DEF Gone, IndexTypes, FileTypes
  <1>1. index[n] \in IndexRows /\ NoVersion \in Versions
    BY IndexBounds DEF IndexTypes, FileTypes, Versions, NoVersion
  <1> QED  BY <1>1 DEF IndexRows

LEMMA FlushWritesTypes ==
    ASSUME IndexTypes, RenamesRow \/ FlushDeletesRow
    PROVE  FileTypes' /\ WatchTypes'
  <1>1. CASE RenamesRow
    <2> PICK move : move = Head(flush.moves)
      OBVIOUS
    <2>1. flush.moves \in Seq(FileMoves) /\ flush.moves # <<>>
      BY <1>1 DEF RenamesRow, IndexTypes, WatchTypes, FlushRecords
    <2>2. Tail(flush.moves) \in Seq(FileMoves) /\ move \in FileMoves
      BY <2>1
    <2>3. move.from \in Names /\ move.to \in Names
      BY <2>2 DEF FileMoves
    <2>4. index' \in [Names -> IndexRows]
      <3>1. NoIndexRow \in IndexRows
        BY IndexBounds DEF IndexTypes, FileTypes, Versions, NoVersion, NoIndexRow, IndexRows
      <3>2. index' = Renamed(move.from, move.to)
        BY <1>1 DEF RenamesRow
      <3> QED  BY <2>3, <3>1, <3>2 DEF Renamed, IndexTypes, FileTypes
    <2>5. fresh' \in NameSets
      BY SMTT(30), <1>1, <2>3 DEF RenamesRow, NameSets, IndexTypes, FileTypes
    <2>6. FileTypes'
      BY <1>1, <2>4, <2>5 DEF RenamesRow, fileVars, IndexTypes, FileTypes, Versions, IndexRows
    <2>7. flush' \in FlushRecords /\ flush'.step = "moves"
      <3>1. PICK left : left = IF flush.submitted \/ ~index[move.from].live
                               THEN flush.due \union {move.to} ELSE flush.due
        OBVIOUS
      <3>2. left \in NameSets
        BY <2>3, <3>1 DEF NameSets, IndexTypes, WatchTypes, FlushRecords
      <3>3. flush' = [flush EXCEPT !.step = "moves", !.moves = Tail(@), !.due = left]
        BY <1>1, <3>1 DEF RenamesRow, IndexTypes, WatchTypes, FlushRecords
      <3> QED  BY <2>2, <3>2, <3>3 DEF IndexTypes, WatchTypes, FlushRecords
    <2> QED  BY <1>1, <2>6, <2>7 DEF RenamesRow, watchVars, IndexTypes, WatchTypes
  <1>2. CASE FlushDeletesRow
    <2>1. index' \in [Names -> IndexRows]
      BY <1>2, GoneTypes DEF FlushDeletesRow
    <2>2. FileTypes'
      BY <1>2, <2>1 DEF FlushDeletesRow, fileVars, IndexTypes, FileTypes, Versions, IndexRows
    <2>3. WatchTypes'
      BY <1>2 DEF FlushDeletesRow, watchVars, IndexTypes, WatchTypes, FlushRecords
    <2> QED  BY <2>2, <2>3
  <1> QED  BY <1>1, <1>2

LEMMA JobStepTypes ==
    ASSUME IndexTypes, NEW t \in IndexThreads, JobStep(t)
    PROVE  IndexTypes'
  <1> USE IndexBounds
  <1> PICK n : n = thread[t].name
    OBVIOUS
  <1>1. n \in Names /\ thread[t].st \in Versions /\ index[n] \in IndexRows /\ disk[n] \in Versions
    BY DEF IndexTypes, JobTypes, FileJobs, FileTypes
  <1>2. NoVersion \in Versions /\ 1 \in Names
    BY DEF IndexTypes, FileTypes, Versions, NoVersion, Names
  <1>3. UNCHANGED <<changes, disk, unread, due, moves, flush>> /\ torn' \in BOOLEAN
    BY DEF JobStep, JobStarts, JobDeletesRow, SkipsFile, BeginsFile, ExtractsText, ExtractionFails,
           JobRaises, MarksError, fileVars, watchVars, IndexTypes, FileTypes
  <1>10. scan' \in ScanRecords /\ scanned' \in BOOLEAN
    <2>1. CASE JobRaises(t)
      BY <2>1 DEF JobRaises, IndexTypes, JobTypes, ScanRecords
    <2>2. CASE UNCHANGED <<scan, scanned>>
      BY <2>2 DEF IndexTypes, FileTypes, JobTypes
    <2> QED  BY <2>1, <2>2 DEF JobStep, JobStarts, JobDeletesRow, SkipsFile, BeginsFile,
                               ExtractsText, ExtractionFails, MarksError
  <1>4. index' \in [Names -> IndexRows] /\ fresh' \in NameSets
    <2>1. CASE JobStarts(t) \/ SkipsFile(t) \/ JobRaises(t)
      BY <2>1 DEF JobStarts, SkipsFile, JobRaises, IndexTypes, FileTypes
    <2>2. CASE JobDeletesRow(t)
      BY <2>2, GoneTypes DEF JobDeletesRow, IndexTypes, FileTypes
    <2>3. CASE BeginsFile(t)
      <3>1. PICK row \in IndexRows : row = [live |-> TRUE, mtime |-> thread[t].st, sha |-> disk[n],
                                             text |-> NoVersion, status |-> "pending"]
        BY <1>1, <1>2 DEF IndexRows
      <3>2. index' = index \/ index' = [index EXCEPT ![n] = row]
        BY <2>3, <3>1 DEF BeginsFile
      <3>3. fresh' = fresh \/ fresh' = fresh \union {n}
        BY <2>3 DEF BeginsFile
      <3> QED  BY <1>1, <3>2, <3>3 DEF IndexTypes, FileTypes, NameSets
    <2>4. CASE ExtractsText(t)
      <3>1. PICK row : row = [index[n] EXCEPT !.text = disk[n],
                                 !.status = IF disk[n] = NoVersion THEN "error" ELSE "done"]
        OBVIOUS
      <3>2. row \in IndexRows
        BY <1>1, <3>1 DEF IndexRows
      <3>3. index' = [index EXCEPT ![n] = row]
        BY <1>1, <2>4, <3>1 DEF ExtractsText, IndexTypes, FileTypes
      <3> QED  BY <1>1, <2>4, <3>2, <3>3 DEF ExtractsText, IndexTypes, FileTypes
    <2>5. CASE ExtractionFails(t) \/ MarksError(t)
      <3>1. PICK row : row = [index[n] EXCEPT !.status = "error"]
        OBVIOUS
      <3>2. row \in IndexRows
        BY <1>1, <3>1 DEF IndexRows
      <3>3. index' = index \/ index' = [index EXCEPT ![n] = row]
        BY <1>1, <2>5, <3>1 DEF ExtractionFails, MarksError, IndexTypes, FileTypes
      <3> QED  BY <1>1, <2>5, <3>2, <3>3 DEF ExtractionFails, MarksError, IndexTypes, FileTypes
    <2> QED  BY <2>1, <2>2, <2>3, <2>4, <2>5 DEF JobStep
  <1>5. FileTypes'
    BY <1>3, <1>4, <1>10 DEF IndexTypes, FileTypes, Versions, IndexRows
  <1>6. poolQueue' \in Seq(Names)
    <2>1. CASE JobStarts(t)
      <3>1. poolQueue \in Seq(Names) /\ poolQueue # <<>> /\ poolQueue' = Tail(poolQueue)
        BY <2>1 DEF JobStarts, IndexTypes, WatchTypes
      <3> QED  BY <3>1
    <2>2. CASE ~JobStarts(t)
      <3>1. poolQueue' = poolQueue
        BY <2>2 DEF JobStep, JobDeletesRow, SkipsFile, BeginsFile, ExtractsText,
                    ExtractionFails, JobRaises, MarksError
      <3> QED  BY <3>1 DEF IndexTypes, WatchTypes
    <2> QED  BY <2>1, <2>2
  <1>7. WatchTypes'
    BY <1>3, <1>6 DEF IndexTypes, WatchTypes, FlushRecords
  <1>8. PICK job \in FileJobs :
            /\ thread' = [thread EXCEPT ![t] = job]
            /\ job.step \in {"wait", "reading"} => job.st # NoVersion
    <2>1. NoFileJob \in FileJobs /\ NoFileJob.step = "idle"
      BY <1>2 DEF NoFileJob, FileJobs
    <2>2. CASE \/ JobDeletesRow(t) \/ SkipsFile(t) \/ ExtractsText(t)
               \/ ExtractionFails(t) \/ MarksError(t)
      BY <2>1, <2>2 DEF JobDeletesRow, SkipsFile, ExtractsText, ExtractionFails, MarksError
    <2>3. CASE JobStarts(t)
      <3>1. Head(poolQueue) \in Names
        BY <2>3 DEF JobStarts, IndexTypes, WatchTypes
      <3>2. PICK job : job = [step |-> IF disk[Head(poolQueue)] = NoVersion THEN "gone" ELSE "wait",
                              name |-> Head(poolQueue), st |-> disk[Head(poolQueue)]]
        OBVIOUS
      <3>3. job \in FileJobs /\ (job.step \in {"wait", "reading"} => job.st # NoVersion)
        BY <3>1, <3>2 DEF FileJobs, IndexTypes, FileTypes
      <3>4. thread' = [thread EXCEPT ![t] = job]
        BY <2>3, <3>2 DEF JobStarts
      <3> QED  BY <3>3, <3>4
    <2>4. CASE BeginsFile(t) \/ JobRaises(t)
      <3>1. thread[t] \in FileJobs /\ thread[t].st # NoVersion
        BY <2>4 DEF BeginsFile, JobRaises, IndexTypes, JobTypes
      <3>2. PICK failed, reading : /\ failed = [thread[t] EXCEPT !.step = "failing"]
                                   /\ reading = [thread[t] EXCEPT !.step = "reading"]
        OBVIOUS
      <3>3. /\ failed \in FileJobs /\ failed.step = "failing"
            /\ reading \in FileJobs /\ reading.st # NoVersion
        BY <3>1, <3>2 DEF FileJobs
      <3>4. thread' = [thread EXCEPT ![t] = failed] \/ thread' = [thread EXCEPT ![t] = reading]
        BY <2>4, <3>2 DEF BeginsFile, JobRaises, IndexTypes, JobTypes
      <3> QED  BY <3>3, <3>4
    <2> QED  BY <2>2, <2>3, <2>4 DEF JobStep
  <1>9. JobTypes'
    <2>1. thread' \in [IndexThreads -> FileJobs]
      BY <1>8 DEF IndexTypes, JobTypes
    <2>2. \A u \in IndexThreads :
              thread'[u].step \in {"wait", "reading"} => thread'[u].st # NoVersion
      BY <1>8 DEF IndexTypes, JobTypes
    <2> QED  BY <1>3, <1>10, <2>1, <2>2 DEF JobTypes, FileJobs, ScanRecords, FilesFound, Versions
  <1> QED  BY <1>5, <1>7, <1>9 DEF IndexTypes

LEMMA ScanStepTypes ==
    ASSUME IndexTypes, ScanStep
    PROVE  IndexTypes'
  <1> USE IndexBounds
  <1>1. /\ UNCHANGED <<changes, disk, unread, due, moves, flush, poolQueue, torn>>
        /\ scanned' \in BOOLEAN
    BY DEF ScanStep, ScanBegins, WalkVisits, ScanJobStarts, ScanSweeps, fileVars, watchVars,
           IndexTypes, FileTypes, JobTypes, ScanRecords
  <1>2. index' \in [Names -> IndexRows] /\ fresh' \in NameSets
    BY SMTT(30), GoneTypes
                 DEF ScanStep, ScanBegins, WalkVisits, ScanJobStarts, ScanSweeps, IndexTypes,
                     FileTypes, NameSets
  <1>3. FileTypes' /\ WatchTypes'
    BY <1>1, <1>2 DEF IndexTypes, FileTypes, WatchTypes, Versions, IndexRows
  <1>4. NotScanning \in ScanRecords
    BY DEF NotScanning, ScanRecords, NameSets, NoVersion, IndexTypes, FileTypes, Versions
  <1>5. scan' \in ScanRecords
    <2>1. CASE ScanBegins
      <3>1. PICK listed, there, clean :
                /\ listed = [n \in Names |-> IF UnchangedInDb(index[n], index[n].mtime)
                                           THEN index[n].mtime ELSE NoVersion]
                /\ there = {n \in Names : index[n].live}
                /\ clean = Applied
        OBVIOUS
      <3>2. listed \in [Names -> Versions]
        BY <3>1 DEF IndexTypes, FileTypes, IndexRows, Versions, NoVersion
      <3>3. there \in NameSets /\ clean \in BOOLEAN
        BY <3>1 DEF NameSets, Applied
      <3>4. scan' = [NotScanning EXCEPT !.step = "walk", !.clean = clean, !.manifest = listed,
                                        !.unseen = there]
        BY <2>1, <3>1 DEF ScanBegins
      <3> QED  BY <1>4, <3>2, <3>3, <3>4 DEF ScanRecords
    <2>2. CASE WalkVisits
      <3> PICK n : n = scan.next
        OBVIOUS
      <3>1. n \in Names /\ n + 1 \in 1 .. FileCount + 1 /\ disk[n] \in Versions
        <4>1. n \in Names /\ disk \in [Names -> Versions]
          BY <2>2 DEF WalkVisits, IndexTypes, FileTypes
        <4>2. n \in 1 .. FileCount /\ FileCount \in Nat
          BY <4>1 DEF Names
        <4> QED  BY <4>1, <4>2
      <3>2. PICK unseen : unseen = IF disk[n] = NoVersion THEN scan.unseen ELSE scan.unseen \ {n}
        OBVIOUS
      <3>3. unseen \in NameSets
        BY <3>2 DEF NameSets, IndexTypes, JobTypes, ScanRecords
      <3>4. PICK backlog : backlog = IF disk[n] \in {NoVersion, scan.manifest[n]} THEN scan.backlog
                                     ELSE Append(scan.backlog, [name |-> n, st |-> disk[n]])
        OBVIOUS
      <3>5. backlog \in Seq(FilesFound)
        <4>1. scan.backlog \in Seq(FilesFound)
          BY DEF IndexTypes, JobTypes, ScanRecords
        <4>2. CASE disk[n] \in {NoVersion, scan.manifest[n]}
          BY <3>4, <4>1, <4>2
        <4>3. CASE disk[n] \notin {NoVersion, scan.manifest[n]}
          <5>1. PICK found \in FilesFound : found = [name |-> n, st |-> disk[n]]
            BY <3>1, <4>3 DEF FilesFound
          <5> QED  BY <3>4, <4>1, <4>3, <5>1
        <4> QED  BY <4>2, <4>3
      <3>6. scan' = [scan EXCEPT !.next = n + 1, !.unseen = unseen, !.backlog = backlog]
        BY <2>2, <3>2, <3>4 DEF WalkVisits, IndexTypes, JobTypes, ScanRecords
      <3> QED  BY <3>1, <3>3, <3>5, <3>6 DEF IndexTypes, JobTypes, ScanRecords
    <2>3. CASE ScanJobStarts
      <3>1. Tail(scan.backlog) \in Seq(FilesFound)
        BY <2>3 DEF ScanJobStarts, IndexTypes, JobTypes, ScanRecords
      <3> QED  BY <2>3, <3>1 DEF ScanJobStarts, IndexTypes, JobTypes, ScanRecords
    <2>4. CASE ScanSweeps
      BY <1>4, <2>4 DEF ScanSweeps
    <2> QED  BY <2>1, <2>2, <2>3, <2>4 DEF ScanStep
  <1>6. /\ thread' \in [IndexThreads -> FileJobs]
        /\ \A t \in IndexThreads :
               thread'[t].step \in {"wait", "reading"} => thread'[t].st # NoVersion
    <2>1. CASE thread' = thread
      BY <2>1 DEF IndexTypes, JobTypes
    <2>2. CASE ScanJobStarts
      <3>1. PICK found : found = Head(scan.backlog)
        OBVIOUS
      <3>2. scan.backlog \in Seq(FilesFound) /\ scan.backlog # <<>>
        BY <2>2 DEF ScanJobStarts, IndexTypes, JobTypes, ScanRecords
      <3>3. found \in FilesFound
        BY <3>1, <3>2
      <3>4. PICK job \in FileJobs : job = [step |-> "wait", name |-> found.name, st |-> found.st]
        BY <3>3 DEF FilesFound, FileJobs
      <3>5. job.st # NoVersion
        BY <3>3, <3>4 DEF FilesFound
      <3>6. thread' = [thread EXCEPT ![Scanner] = job]
        BY <2>2, <3>1, <3>4 DEF ScanJobStarts
      <3> QED  BY <3>5, <3>6 DEF IndexTypes, JobTypes
    <2> QED  BY <2>1, <2>2 DEF ScanStep, ScanBegins, WalkVisits, ScanSweeps
  <1>7. JobTypes'
    BY <1>1, <1>5, <1>6 DEF JobTypes, FileJobs, ScanRecords, FilesFound, Versions
  <1> QED  BY <1>3, <1>7 DEF IndexTypes

LEMMA IndexTypesKept ==
    ASSUME IndexTypes, [IndexNext]_indexVars
    PROVE  IndexTypes'
  <1>1. CASE UNCHANGED indexVars
    BY <1>1 DEF indexVars, IndexTypes, FileTypes, WatchTypes, JobTypes, Versions, IndexRows,
                FileJobs, ScanRecords, FilesFound
  <1>2. CASE FileChange
    BY <1>2, FileChangeTypes
  <1>3. CASE RenamesRow \/ FlushDeletesRow
    <2>1. FileTypes' /\ WatchTypes'
      BY <1>3, FlushWritesTypes
    <2>2. UNCHANGED <<changes, thread, scan>>
      BY <1>3 DEF RenamesRow, FlushDeletesRow, fileVars
    <2> QED  BY <2>1, <2>2 DEF IndexTypes, JobTypes, FileJobs, ScanRecords, FilesFound, Versions
  <1>4. ASSUME KernelDropsEvent \/ RenameFails \/ ReaderTakes \/ DebouncePasses \/ FlushBegins
               \/ LooksForJobs \/ FlushEnds \/ \E n \in Names : SubmitsJob(n) \/ FindsNoFile(n)
        PROVE  IndexTypes'
    <2>1. WatchTypes'
      BY <1>4, WatchTypesKept
    <2>2. UNCHANGED <<disk, changes, index, thread, scan, fresh, scanned, torn>>
      BY <1>4 DEF KernelDropsEvent, RenameFails, ReaderTakes, DebouncePasses, FlushBegins,
                  LooksForJobs, FlushEnds, SubmitsJob, FindsNoFile, fileVars
    <2> QED  BY SMTT(30), <2>1, <2>2 DEF IndexTypes, FileTypes, JobTypes, FileJobs, ScanRecords, FilesFound,
                               Versions, IndexRows
  <1>5. CASE ScanStep
    BY <1>5, ScanStepTypes
  <1>6. ASSUME NEW t \in IndexThreads, JobStep(t) PROVE IndexTypes'
    BY <1>6, JobStepTypes
  <1> QED  BY <1>1, <1>2, <1>3, <1>4, <1>5, <1>6 DEF IndexNext, Dispatch, IndexThreads

-----------------------------------------------------------------------------
(***************************************************************************)
(* Rows are honest: one that names a version still in some file has its    *)
(* digest, and its text unless it is pending or says that reading it ended *)
(* in an error; but for a file torn from a job.  While a job reads a file  *)
(* nobody else does, and the row stays the one the job wrote.              *)
(***************************************************************************)
Alive(version) == version # NoVersion /\ \E n \in Names : disk[n] = version

Whole(row) ==
    /\ row.sha = row.mtime
    /\ \/ row.status = "done" /\ row.text = row.mtime
       \/ row.status = "error" /\ row.text \in {NoVersion, row.mtime}
       \/ row.status = "pending" /\ row.text = NoVersion

Honest(row) ==
    row.live =>
        /\ row.mtime # NoVersion
        /\ ~torn /\ Alive(row.mtime) => Whole(row)

Reading(t, n) == thread[t].step = "reading" /\ thread[t].name = n

(* A row under a job that read the version `st' of the file.               *)
Begun(row, st) == row.live => row.mtime = st

RowsAreHonest == \A n \in Names : Honest(index[n])

ReadersAreAlone ==
    \A n \in Names : \A t, u \in IndexThreads : Reading(t, n) /\ Reading(u, n) => t = u

ReadersOwnRows ==
    \A n \in Names : \A t \in IndexThreads : Reading(t, n) => Begun(index[n], thread[t].st)

JobsInv == RowsAreHonest /\ ReadersAreAlone /\ ReadersOwnRows

LEMMA JobsBegin == IndexInit => JobsInv
  <1> SUFFICES ASSUME IndexInit PROVE JobsInv
    OBVIOUS
  <1>1. \A t \in IndexThreads : thread[t].step = "idle"
    BY DEF IndexInit, IndexThreads, NoFileJob
  <1>2. \A n \in Names : Honest(index[n])
    BY DEF IndexInit, Honest, Whole, NoIndexRow, NoVersion
  <1> QED  BY <1>1, <1>2 DEF JobsInv, RowsAreHonest, ReadersAreAlone, ReadersOwnRows, Reading

(***************************************************************************)
(* Steps that write no row but drop some, and let no job begin to read.    *)
(***************************************************************************)
LEMMA JobsKept ==
    ASSUME IndexTypes, JobsInv, torn' = torn,
           \A version \in Versions : Alive(version)' => Alive(version),
           \A n \in Names : index'[n].live => index'[n] = index[n],
           \A t \in IndexThreads : thread'[t].step = "reading" => thread'[t] = thread[t]
    PROVE  JobsInv'
  <1>1. \A n \in Names : index[n].mtime \in Versions
    BY DEF IndexTypes, FileTypes, IndexRows
  <1>3. RowsAreHonest'
    <2> SUFFICES ASSUME NEW n \in Names, index'[n].live PROVE Honest(index[n])'
      BY DEF RowsAreHonest, Honest
    <2>1. index'[n] = index[n] /\ Honest(index[n])
      BY DEF JobsInv, RowsAreHonest
    <2>2. Alive(index[n].mtime)' => Alive(index[n].mtime)
      BY <1>1, <2>1 DEF Alive
    <2> QED  BY <2>1, <2>2 DEF Honest, Whole
  <1>4. \A t \in IndexThreads : \A n \in Names :
            Reading(t, n)' => Reading(t, n) /\ thread'[t] = thread[t]
    BY DEF Reading
  <1>5. ReadersAreAlone'
    BY <1>4 DEF JobsInv, ReadersAreAlone
  <1>6. ReadersOwnRows'
    <2> SUFFICES ASSUME NEW n \in Names, NEW t \in IndexThreads, Reading(t, n)', index'[n].live
                 PROVE  Begun(index[n], thread[t].st)'
      BY DEF ReadersOwnRows, Begun
    <2>1. Reading(t, n) /\ thread'[t] = thread[t] /\ index'[n] = index[n]
      BY <1>4
    <2>2. Begun(index[n], thread[t].st)
      BY <2>1 DEF JobsInv, ReadersOwnRows
    <2> QED  BY <2>1, <2>2 DEF Begun
  <1> QED  BY <1>3, <1>5, <1>6 DEF JobsInv

(* A file that changes gets a version no row and no job has.               *)
LEMMA ChangesKeepJobs ==
    ASSUME IndexTypes, JobsInv, FileChange
    PROVE  JobsInv'
  <1>1. UNCHANGED <<index, thread, torn>>
    BY DEF FileChange, FileWritten, FileRemoved, FileMoved, Changed
  <1>2. \A version \in Versions : Alive(version)' => Alive(version)
    <2> SUFFICES ASSUME NEW version \in Versions, version # NoVersion,
                        NEW n \in Names, disk'[n] = version
                 PROVE  \E m \in Names : disk[m] = version
      BY DEF Alive
    <2>1. version # changes + 1
      BY IndexBounds DEF Versions, IndexTypes, FileTypes
    <2> QED  BY <2>1 DEF FileChange, FileWritten, FileRemoved, FileMoved, IndexTypes, FileTypes
  <1> QED  BY <1>1, <1>2, JobsKept

LEMMA DroppedRows ==
    ASSUME IndexTypes, NEW names
    PROVE  \A n \in Names : Gone(names)[n] = index[n] \/ ~Gone(names)[n].live
  <1>1. \A n \in Names : index[n] \in IndexRows
    BY DEF IndexTypes, FileTypes
  <1> QED  BY <1>1 DEF Gone, IndexRows

LEMMA WatcherKeepsJobs ==
    ASSUME IndexTypes, JobsInv,
           \/ KernelDropsEvent \/ RenameFails \/ ReaderTakes \/ DebouncePasses \/ ScanStep
           \/ FlushBegins \/ LooksForJobs \/ FlushDeletesRow \/ FlushEnds
           \/ \E n \in Names : SubmitsJob(n) \/ FindsNoFile(n)
    PROVE  JobsInv'
  <1>1. UNCHANGED <<disk, changes, torn>>
    BY ZenonT(60) DEF KernelDropsEvent, RenameFails, ReaderTakes, DebouncePasses, ScanStep, ScanBegins,
           WalkVisits, ScanJobStarts, ScanSweeps, FlushBegins, LooksForJobs, FlushDeletesRow,
           FlushEnds, SubmitsJob, FindsNoFile, fileVars
  <1>2. \A n \in Names : index'[n].live => index'[n] = index[n]
    <2>1. CASE index' = index
      BY <2>1
    <2>2. CASE FlushDeletesRow \/ ScanSweeps
      BY SMTT(30), <2>2, DroppedRows DEF FlushDeletesRow, ScanSweeps
    <2> QED  BY <2>1, <2>2 DEF KernelDropsEvent, RenameFails, ReaderTakes, DebouncePasses,
           ScanStep, ScanBegins, WalkVisits, ScanJobStarts, FlushBegins, LooksForJobs,
           FlushEnds, SubmitsJob, FindsNoFile
  <1>3. \A t \in IndexThreads : thread'[t].step = "reading" => thread'[t] = thread[t]
    <2>1. CASE thread' = thread
      BY <2>1
    <2>2. CASE ScanJobStarts
      BY <2>2 DEF ScanJobStarts, IndexTypes, JobTypes
    <2> QED  BY <2>1, <2>2 DEF KernelDropsEvent, RenameFails, ReaderTakes, DebouncePasses,
           ScanStep, ScanBegins, WalkVisits, ScanSweeps, FlushBegins, LooksForJobs,
           FlushDeletesRow, FlushEnds, SubmitsJob, FindsNoFile
  <1>4. \A version \in Versions : Alive(version)' => Alive(version)
    BY <1>1 DEF Alive
  <1> QED  BY SMTT(30), <1>1, <1>2, <1>3, <1>4, JobsKept

(* A rename waits for the readers of both names.                           *)
LEMMA RenameKeepsJobs ==
    ASSUME IndexTypes, JobsInv, RenamesRow
    PROVE  JobsInv'
  <1> PICK move : move = Head(flush.moves)
    OBVIOUS
  <1>1. UNCHANGED <<disk, changes, torn, thread>> /\ index' = Renamed(move.from, move.to)
        /\ ~Locked(move.from) /\ ~Locked(move.to)
    BY DEF RenamesRow, fileVars
  <1>2. move.from \in Names /\ move.to \in Names
    <2>1. flush.moves \in Seq(FileMoves) /\ flush.moves # <<>>
      BY DEF RenamesRow, IndexTypes, WatchTypes, FlushRecords
    <2>2. move \in FileMoves
      BY <2>1
    <2> QED  BY <2>2 DEF FileMoves
  <1>3. \A n \in Names : \/ index'[n] = index[n]
                         \/ n = move.to /\ index'[n] = index[move.from]
                         \/ n = move.from /\ index'[n] = NoIndexRow
    BY SMTT(30), <1>1, <1>2 DEF Renamed, IndexTypes, FileTypes
  <1>4. RowsAreHonest'
    <2> SUFFICES ASSUME NEW n \in Names PROVE Honest(index[n])'
      BY DEF RowsAreHonest
    <2>1. \E m \in Names : index'[n] = index[m] \/ ~index'[n].live
      BY <1>2, <1>3 DEF NoIndexRow
    <2> QED  BY <1>1, <2>1 DEF JobsInv, RowsAreHonest, Honest, Alive, Whole
  <1>5. \A n \in Names : \A t \in IndexThreads : Reading(t, n) => index'[n] = index[n]
    BY <1>1, <1>3 DEF Locked, Reading, IndexThreads
  <1>6. ReadersOwnRows'
    BY <1>1, <1>5 DEF JobsInv, ReadersOwnRows, Begun, Reading
  <1>7. ReadersAreAlone'
    BY <1>1 DEF JobsInv, ReadersAreAlone, Reading
  <1> QED  BY <1>4, <1>6, <1>7 DEF JobsInv

LEMMA OtherJobsKeep ==
    ASSUME IndexTypes, JobsInv, NEW t \in IndexThreads,
           JobStarts(t) \/ JobDeletesRow(t) \/ SkipsFile(t) \/ JobRaises(t)
    PROVE  JobsInv'
  <1>1. UNCHANGED <<disk, changes, torn>>
    BY DEF JobStarts, JobDeletesRow, SkipsFile, JobRaises, fileVars
  <1>2. \A n \in Names : index'[n].live => index'[n] = index[n]
    BY DroppedRows DEF JobStarts, JobDeletesRow, SkipsFile, JobRaises
  <1>3. \A u \in IndexThreads : thread'[u].step = "reading" => thread'[u] = thread[u]
    BY DEF JobStarts, JobDeletesRow, SkipsFile, JobRaises, NoFileJob, IndexTypes, JobTypes, FileJobs
  <1>4. \A version \in Versions : Alive(version)' => Alive(version)
    BY <1>1 DEF Alive
  <1> QED  BY <1>1, <1>2, <1>3, <1>4, JobsKept

(***************************************************************************)
(* What a step of one job leaves: the rows of other names, and the other   *)
(* threads.                                                                *)
(***************************************************************************)
LEMMA JobsOfOthersKept ==
    ASSUME IndexTypes, JobsInv, NEW t \in IndexThreads, NEW n \in Names,
           UNCHANGED <<disk, changes>>, torn => torn', torn' \in BOOLEAN,
           \A m \in Names \ {n} : index'[m] = index[m],
           \A u \in IndexThreads \ {t} : thread'[u] = thread[u] /\ ~Reading(u, n),
           \A m \in Names \ {n} : ~Reading(t, m)',
           Honest(index[n])',
           Reading(t, n)' => Begun(index[n], thread[t].st)'
    PROVE  JobsInv'
  <1>1. RowsAreHonest'
    <2> SUFFICES ASSUME NEW m \in Names, m # n PROVE Honest(index[m])'
      BY DEF RowsAreHonest
    <2> QED  BY DEF JobsInv, RowsAreHonest, Honest, Alive, Whole
  <1>2. \A u \in IndexThreads, m \in Names : Reading(u, m)' =>
            \/ u = t /\ m = n
            \/ u # t /\ m # n /\ Reading(u, m) /\ thread'[u] = thread[u]
    <2> SUFFICES ASSUME NEW u \in IndexThreads, NEW m \in Names, Reading(u, m)'
                 PROVE  \/ u = t /\ m = n
                        \/ u # t /\ m # n /\ Reading(u, m) /\ thread'[u] = thread[u]
      OBVIOUS
    <2>1. CASE u = t
      BY <2>1
    <2>2. CASE u # t
      <3>1. thread'[u] = thread[u] /\ ~Reading(u, n)
        BY <2>2
      <3>2. Reading(u, m)
        BY <3>1 DEF Reading
      <3> QED  BY <2>2, <3>1, <3>2
    <2> QED  BY <2>1, <2>2
  <1>3. ReadersAreAlone'
    BY <1>2 DEF JobsInv, ReadersAreAlone
  <1>4. ReadersOwnRows'
    <2> SUFFICES ASSUME NEW m \in Names, NEW u \in IndexThreads, Reading(u, m)'
                 PROVE  Begun(index[m], thread[u].st)'
      BY DEF ReadersOwnRows
    <2>1. CASE u = t /\ m = n
      BY <2>1
    <2>2. CASE u # t /\ m # n /\ Reading(u, m) /\ thread'[u] = thread[u]
      <3>1. Begun(index[m], thread[u].st)
        BY <2>2 DEF JobsInv, ReadersOwnRows
      <3>2. index'[m] = index[m] /\ thread'[u] = thread[u]
        BY <2>2
      <3> QED  BY <3>1, <3>2 DEF Begun
    <2> QED  BY <1>2, <2>1, <2>2
  <1> QED  BY <1>1, <1>3, <1>4 DEF JobsInv

LEMMA BeginningKeepsJobs ==
    ASSUME IndexTypes, JobsInv, NEW t \in IndexThreads, BeginsFile(t)
    PROVE  JobsInv'
  <1> PICK n : n = thread[t].name
    OBVIOUS
  <1> PICK st : st = thread[t].st
    OBVIOUS
  <1>1. n \in Names /\ st \in Versions /\ st # NoVersion /\ thread[t].step = "wait"
    BY DEF BeginsFile, IndexTypes, JobTypes, FileJobs
  <1>2. /\ UNCHANGED <<disk, changes>>
        /\ torn' = (torn \/ Elsewhere(n, st))
        /\ \A u \in IndexThreads : ~Reading(u, n)
    BY DEF BeginsFile, fileVars, Locked, Reading, IndexThreads
  <1>3. torn \in BOOLEAN /\ torn' \in BOOLEAN
    BY <1>2 DEF Elsewhere, IndexTypes, FileTypes
  <1>4. CASE disk[n] = NoVersion
    <2>1. torn'
      BY <1>1, <1>2, <1>4 DEF Elsewhere
    <2>2. index' = index
      BY <1>4 DEF BeginsFile
    <2>3. /\ thread'[t].step = "failing"
          /\ \A u \in IndexThreads \ {t} : thread'[u] = thread[u]
      BY <1>4 DEF BeginsFile, IndexTypes, JobTypes, FileJobs
    <2>4. Honest(index[n])'
      BY <1>1, <2>1, <2>2 DEF JobsInv, RowsAreHonest, Honest
    <2>5. \A m \in Names : ~Reading(t, m)'
      BY <2>3 DEF Reading
    <2> QED  BY <1>1, <1>2, <1>3, <2>1, <2>2, <2>3, <2>4, <2>5, JobsOfOthersKept
  <1>5. CASE disk[n] # NoVersion
    <2>1. PICK row : row = [live |-> TRUE, mtime |-> st, sha |-> disk[n], text |-> NoVersion,
                            status |-> "pending"]
      OBVIOUS
    <2>2. index' = [index EXCEPT ![n] = row]
      BY <1>5, <2>1 DEF BeginsFile
    <2>3. index'[n] = row /\ \A m \in Names \ {n} : index'[m] = index[m]
      BY <1>1, <2>2 DEF IndexTypes, FileTypes
    <2>4. /\ thread'[t].step = "reading" /\ thread'[t].name = n /\ thread'[t].st = st
          /\ \A u \in IndexThreads \ {t} : thread'[u] = thread[u]
      BY <1>5 DEF BeginsFile, IndexTypes, JobTypes, FileJobs
    <2>5. ~torn' => (Alive(st)' => disk[n] = st)
      BY <1>1, <1>2 DEF Elsewhere, Alive
    <2>6. Honest(index[n])'
      BY <1>1, <2>1, <2>3, <2>5 DEF Honest, Whole
    <2>7. Begun(index[n], thread[t].st)'
      BY <2>1, <2>3, <2>4 DEF Begun
    <2>8. \A m \in Names \ {n} : ~Reading(t, m)'
      BY <2>4 DEF Reading
    <2> QED  BY <1>1, <1>2, <1>3, <2>3, <2>4, <2>6, <2>7, <2>8, JobsOfOthersKept
  <1> QED  BY <1>4, <1>5

LEMMA ExtractingKeepsJobs ==
    ASSUME IndexTypes, JobsInv, NEW t \in IndexThreads, ExtractsText(t)
    PROVE  JobsInv'
  <1> PICK n : n = thread[t].name
    OBVIOUS
  <1> PICK st : st = thread[t].st
    OBVIOUS
  <1>1. n \in Names /\ st \in Versions /\ st # NoVersion /\ Reading(t, n)
    BY DEF ExtractsText, IndexTypes, JobTypes, FileJobs, Reading
  <1>2. /\ UNCHANGED <<disk, changes>>
        /\ torn' = (torn \/ Elsewhere(n, st))
        /\ thread'[t].step = "idle"
        /\ \A u \in IndexThreads \ {t} : thread'[u] = thread[u]
    BY DEF ExtractsText, fileVars, NoFileJob, IndexTypes, JobTypes
  <1>3. torn \in BOOLEAN /\ torn' \in BOOLEAN
    BY <1>2 DEF Elsewhere, IndexTypes, FileTypes
  <1>4. \A u \in IndexThreads \ {t} : ~Reading(u, n)
    BY <1>1 DEF JobsInv, ReadersAreAlone
  <1>5. index[n] \in IndexRows
    BY <1>1 DEF IndexTypes, FileTypes
  <1>6. PICK row : row = [index[n] EXCEPT !.text = disk[n],
                             !.status = IF disk[n] = NoVersion THEN "error" ELSE "done"]
    OBVIOUS
  <1>7. index' = [index EXCEPT ![n] = row]
    BY <1>1, <1>6 DEF ExtractsText, IndexTypes, FileTypes
  <1>8. index'[n] = row /\ \A m \in Names \ {n} : index'[m] = index[m]
    BY <1>1, <1>7 DEF IndexTypes, FileTypes
  <1>9. /\ row.live = index[n].live /\ row.mtime = index[n].mtime /\ row.sha = index[n].sha
        /\ row.text = disk[n] /\ row.status = IF disk[n] = NoVersion THEN "error" ELSE "done"
    BY <1>5, <1>6 DEF IndexRows
  <1>10. Honest(index[n])'
    <2> SUFFICES ASSUME row.live PROVE Honest(row)'
      BY <1>8 DEF Honest
    <2>1. Begun(index[n], st) /\ Honest(index[n])
      BY <1>1 DEF JobsInv, ReadersOwnRows, RowsAreHonest
    <2>2. row.mtime = st /\ (~torn /\ Alive(st) => row.sha = st)
      BY <1>9, <2>1 DEF Begun, Honest, Whole
    <2>3. ~torn' /\ Alive(st)' => ~torn /\ Alive(st) /\ disk[n] = st
      BY <1>1, <1>2 DEF Elsewhere, Alive
    <2> QED  BY <1>1, <1>9, <2>2, <2>3 DEF Honest, Whole
  <1>11. \A m \in Names : ~Reading(t, m)'
    BY <1>2 DEF Reading
  <1> QED  BY <1>1, <1>2, <1>3, <1>4, <1>8, <1>10, <1>11, JobsOfOthersKept

(* An error leaves what the row says of the version, and is marked with no *)
(* lock held when a job has raised.                                        *)
LEMMA ErrorsKeepJobs ==
    ASSUME IndexTypes, JobsInv, NEW t \in IndexThreads, ExtractionFails(t) \/ MarksError(t)
    PROVE  JobsInv'
  <1>1. thread[t].name \in Names
    BY DEF IndexTypes, JobTypes, FileJobs
  <1>2. /\ UNCHANGED <<disk, changes, torn>>
        /\ thread'[t].step = "idle"
        /\ \A u \in IndexThreads \ {t} : thread'[u] = thread[u]
    BY DEF ExtractionFails, MarksError, fileVars, NoFileJob, IndexTypes, JobTypes
  <1>3. \A m \in Names :
            /\ index'[m].live = index[m].live /\ index'[m].mtime = index[m].mtime
            /\ index'[m].sha = index[m].sha /\ index'[m].text = index[m].text
            /\ index'[m].status \in {index[m].status, "error"}
    BY <1>1 DEF ExtractionFails, MarksError, IndexTypes, FileTypes, IndexRows
  <1>4. RowsAreHonest'
    <2> SUFFICES ASSUME NEW m \in Names PROVE Honest(index[m])'
      BY DEF RowsAreHonest
    <2>1. Honest(index[m])
      BY DEF JobsInv, RowsAreHonest
    <2>2. Whole(index[m]) => Whole(index'[m])
      BY <1>3 DEF Whole
    <2> QED  BY <1>2, <1>3, <2>1, <2>2 DEF Honest, Whole, Alive
  <1>5. \A u \in IndexThreads : \A m \in Names :
            Reading(u, m)' => Reading(u, m) /\ thread'[u] = thread[u]
    BY <1>2 DEF Reading
  <1>6. ReadersAreAlone'
    BY <1>5 DEF JobsInv, ReadersAreAlone
  <1>7. ReadersOwnRows'
    BY <1>3, <1>5 DEF JobsInv, ReadersOwnRows, Begun
  <1> QED  BY <1>4, <1>6, <1>7 DEF JobsInv

LEMMA JobsInvKept ==
    ASSUME IndexTypes, JobsInv, [IndexNext]_indexVars
    PROVE  JobsInv'
  <1>1. CASE UNCHANGED indexVars
    BY <1>1 DEF indexVars, JobsInv, RowsAreHonest, ReadersAreAlone, ReadersOwnRows,
                Honest, Begun, Whole, Reading, Alive
  <1>2. ASSUME NEW t \in IndexThreads, JobStep(t) PROVE JobsInv'
    BY <1>2, OtherJobsKeep, BeginningKeepsJobs, ExtractingKeepsJobs, ErrorsKeepJobs DEF JobStep
  <1> QED  BY <1>1, <1>2, ChangesKeepJobs, WatcherKeepsJobs, RenameKeepsJobs
           DEF IndexNext, Dispatch, IndexThreads

-----------------------------------------------------------------------------
(***************************************************************************)
(* A scan that began with nothing left to apply.  While it goes on and no  *)
(* file changes, the watcher has nothing to do.  Each file the walk has    *)
(* passed waits for the scan's worker, is at it, or has its row right; and *)
(* what the manifest says of the files ahead is so.                        *)
(***************************************************************************)
Right(n) == RowIs(n) /\ (torn \/ TextIs(n) \/ TextFailed(n))

CleanScan == scan.step = "walk" /\ scan.clean

InBacklog(n) == \E i \in 1 .. Len(scan.backlog) : scan.backlog[i].name = n

AtScanner(n) == thread[Scanner].step # "idle" /\ thread[Scanner].name = n

Listed(row) == IF UnchangedInDb(row, row.mtime) THEN row.mtime ELSE NoVersion

ScanRests == scan.step = "idle" => scan.backlog = <<>> /\ thread[Scanner].step = "idle"

NothingToApply == CleanScan \/ scanned => Applied

ScansWhatIsThere ==
    CleanScan =>
        /\ \A i \in 1 .. Len(scan.backlog) : scan.backlog[i].st = disk[scan.backlog[i].name]
        /\ thread[Scanner].step # "idle" =>
            /\ thread[Scanner].step \in {"wait", "reading"}
            /\ thread[Scanner].st = disk[thread[Scanner].name]
            /\ thread[Scanner].step = "reading" => index[thread[Scanner].name].live
        /\ \A n \in fresh : disk[n] # NoVersion

(* What a clean scan owes to a name.                                       *)
Ahead(n) == ~InBacklog(n) /\ ~AtScanner(n) /\ scan.manifest[n] = Listed(index[n])

Passed(n) == n \notin scan.unseen /\ (InBacklog(n) \/ AtScanner(n) \/ Right(n))

ScanMissesNothing ==
    CleanScan =>
        \A n \in Names :
            /\ disk[n] = NoVersion /\ index[n].live => n \in scan.unseen
            /\ disk[n] # NoVersion /\ n < scan.next => Passed(n)
            /\ n >= scan.next => Ahead(n)

Repaired ==
    scanned => (scan.step = "walk" => scan.clean) /\ \A n \in Names : Right(n)

ScanInv ==
    ScanRests /\ NothingToApply /\ ScansWhatIsThere /\ ScanMissesNothing /\ Repaired

LEMMA ScanInvBegins == IndexInit => ScanInv
  <1> SUFFICES ASSUME IndexInit PROVE ScanInv
    OBVIOUS
  <1>1. /\ scan.step = "idle" /\ scan.backlog = <<>>
        /\ \A t \in PoolThreads \union {Scanner} : thread[t].step = "idle"
    BY DEF IndexInit, NotScanning, NoFileJob
  <1>2. Applied
    BY <1>1 DEF IndexInit, Applied, NotFlushing
  <1>3. \A n \in Names : RowIs(n) /\ TextIs(n)
    BY DEF IndexInit, RowIs, TextIs, NoIndexRow, NoVersion
  <1> QED  BY <1>1, <1>2, <1>3 DEF ScanInv, ScanRests, NothingToApply, ScansWhatIsThere,
                  ScanMissesNothing, Repaired, CleanScan, Right

(* A step after which no scan is clean and nothing counts as repaired.     *)
LEMMA NothingClaimed ==
    ASSUME ScanRests', ~CleanScan', ~scanned'
    PROVE  ScanInv'
  BY DEF ScanInv, NothingToApply, ScansWhatIsThere, ScanMissesNothing, Repaired

LEMMA ChangesKeepScan ==
    ASSUME IndexTypes, ScanInv, FileChange
    PROVE  ScanInv'
  <1>1. /\ scanned' = FALSE /\ scan' = [scan EXCEPT !.clean = FALSE] /\ thread' = thread
    BY DEF FileChange, FileWritten, FileRemoved, FileMoved, Changed
  <1>2. scan \in ScanRecords
    BY DEF IndexTypes, JobTypes
  <1>3. scan'.clean = FALSE /\ scan'.step = scan.step /\ scan'.backlog = scan.backlog
    BY <1>1, <1>2 DEF ScanRecords
  <1> QED  BY <1>1, <1>3, NothingClaimed DEF ScanInv, ScanRests, CleanScan

(* A job that raises takes back what the scan would have claimed.          *)
LEMMA RaisingKeepsScan ==
    ASSUME IndexTypes, ScanInv, NEW t \in IndexThreads, JobRaises(t)
    PROVE  ScanInv'
  <1>1. /\ scanned' = FALSE /\ scan' = [scan EXCEPT !.clean = FALSE]
        /\ thread[t].step # "idle" /\ thread' = [thread EXCEPT ![t].step = "failing"]
    BY DEF JobRaises
  <1>2. scan \in ScanRecords /\ thread \in [IndexThreads -> FileJobs]
    BY DEF IndexTypes, JobTypes
  <1>3. scan'.clean = FALSE /\ scan'.step = scan.step /\ scan'.backlog = scan.backlog
    BY <1>1, <1>2 DEF ScanRecords
  <1>4. scan.step = "idle" => thread'[Scanner].step = "idle"
    BY SMTT(30), <1>1, <1>2 DEF ScanInv, ScanRests
  <1> QED  BY <1>1, <1>3, <1>4, NothingClaimed DEF ScanInv, ScanRests, CleanScan

(* The watcher moves only when there is something to apply.                *)
LEMMA WatcherKeepsScan ==
    ASSUME IndexTypes, ScanInv,
           \/ KernelDropsEvent \/ RenameFails \/ ReaderTakes \/ DebouncePasses \/ Dispatch
           \/ \E t \in PoolThreads : JobStep(t) /\ ~JobRaises(t)
    PROVE  ScanInv'
  <1>1. UNCHANGED <<scan, scanned>> /\ thread'[Scanner] = thread[Scanner]
    <2>1. Scanner \notin PoolThreads
      BY DEF Scanner, PoolThreads
    <2> QED  BY <2>1 DEF KernelDropsEvent, RenameFails, ReaderTakes, DebouncePasses, Dispatch,
        FlushBegins, LooksForJobs, RenamesRow, FlushDeletesRow, FlushEnds, SubmitsJob, FindsNoFile,
        JobStep, JobStarts, JobDeletesRow, SkipsFile, BeginsFile, ExtractsText, ExtractionFails,
        MarksError, IndexTypes, JobTypes, IndexThreads
  <1>2. ~Applied
    <2>1. CASE KernelDropsEvent \/ ReaderTakes
      BY <2>1 DEF KernelDropsEvent, ReaderTakes, Applied
    <2>2. CASE RenameFails \/ LooksForJobs \/ RenamesRow \/ FlushDeletesRow \/ FlushEnds
      BY <2>2 DEF RenameFails, LooksForJobs, RenamesRow, FlushDeletesRow, FlushEnds, Applied
    <2>3. CASE \E n \in Names : SubmitsJob(n) \/ FindsNoFile(n)
      BY <2>3 DEF SubmitsJob, FindsNoFile, Applied
    <2>4. CASE DebouncePasses
      BY SMTT(30), <2>4 DEF DebouncePasses, Applied
    <2>5. CASE FlushBegins
      BY <2>5 DEF FlushBegins, Old, Applied
    <2>6. ASSUME NEW t \in PoolThreads, JobStep(t), ~JobRaises(t) PROVE ~Applied
      BY <2>6 DEF JobStep, JobStarts, JobDeletesRow, SkipsFile, BeginsFile, ExtractsText,
                  ExtractionFails, MarksError, Applied
    <2> QED  BY <2>1, <2>2, <2>3, <2>4, <2>5, <2>6 DEF Dispatch
  <1>3. ~CleanScan' /\ ~scanned'
    BY <1>1, <1>2 DEF ScanInv, NothingToApply, CleanScan
  <1> QED  BY <1>1, <1>3, NothingClaimed DEF ScanInv, ScanRests

LEMMA StaysApplied ==
    ASSUME Applied, UNCHANGED <<unread, moves, poolQueue, due, flush>>,
           \A t \in PoolThreads : thread'[t] = thread[t]
    PROVE  Applied'
  BY DEF Applied

(* A row of the version that is there is right when its job has ended.     *)
LEMMA SettledRowsAreRight ==
    ASSUME IndexTypes, JobsInv, NEW n \in Names, disk[n] # NoVersion,
           UnchangedInDb(index[n], disk[n])
    PROVE  Right(n)
  <1>1. index[n].live /\ index[n].mtime = disk[n] /\ index[n].status # "pending"
    BY DEF UnchangedInDb
  <1>2. Alive(disk[n])
    BY DEF Alive
  <1>3. ~torn => Whole(index[n])
    BY <1>1, <1>2 DEF JobsInv, RowsAreHonest, Honest
  <1> QED  BY <1>1, <1>3 DEF Right, RowIs, TextIs, TextFailed, Whole

LEMMA ScanBeginsWell ==
    ASSUME IndexTypes, ScanInv, ScanBegins
    PROVE  ScanInv'
  <1> PICK listed, there, clean :
          /\ listed = [n \in Names |-> Listed(index[n])]
          /\ there = {n \in Names : index[n].live}
          /\ clean = Applied
    OBVIOUS
  <1>1. scan' = [NotScanning EXCEPT !.step = "walk", !.clean = clean, !.manifest = listed,
                                    !.unseen = there]
    BY DEF ScanBegins, Listed
  <1>2. /\ scan'.step = "walk" /\ scan'.clean = clean /\ scan'.manifest = listed
        /\ scan'.unseen = there /\ scan'.backlog = <<>> /\ scan'.next = 1
    BY <1>1 DEF NotScanning
  <1>3. /\ UNCHANGED <<disk, index, thread, scanned, torn, unread, due, moves, flush, poolQueue>>
        /\ fresh' = {} /\ thread[Scanner].step = "idle"
    BY DEF ScanBegins, fileVars, watchVars, ScanInv, ScanRests
  <1>4. Applied => Applied'
    BY <1>3, StaysApplied
  <1>5. NothingToApply'
    BY <1>2, <1>3, <1>4 DEF NothingToApply, CleanScan, ScanInv
  <1>6. ScansWhatIsThere'
    BY <1>2, <1>3 DEF ScansWhatIsThere
  <1>7. ScanMissesNothing'
    <2> SUFFICES ASSUME NEW n \in Names
                 PROVE  (disk[n] = NoVersion /\ index[n].live => n \in there) /\ Ahead(n)' /\ ~(n < 1)
      BY <1>2, <1>3 DEF ScanMissesNothing
    <2>1. ~InBacklog(n)' /\ ~AtScanner(n)'
      BY <1>2, <1>3 DEF InBacklog, AtScanner
    <2>2. scan'.manifest[n] = Listed(index[n])
      BY <1>2
    <2> QED  BY <1>3, <2>1, <2>2 DEF Ahead, Names, Listed, UnchangedInDb
  <1>8. Repaired'
    <2> SUFFICES ASSUME scanned PROVE clean /\ \A n \in Names : Right(n)'
      BY <1>2, <1>3 DEF Repaired
    <2>1. Applied /\ \A n \in Names : Right(n)
      BY DEF ScanInv, NothingToApply, Repaired
    <2> QED  BY <1>3, <2>1 DEF Right, RowIs, TextIs, TextFailed
  <1> QED  BY <1>2, <1>5, <1>6, <1>7, <1>8 DEF ScanInv, ScanRests

LEMMA WalkKeepsScan ==
    ASSUME IndexTypes, JobsInv, ScanInv, WalkVisits
    PROVE  ScanInv'
  <1> USE IndexBounds
  <1> PICK n : n = scan.next
    OBVIOUS
  <1>1. n \in Names /\ disk[n] \in Versions /\ scan.step = "walk" /\ scan \in ScanRecords
    BY DEF WalkVisits, IndexTypes, FileTypes, JobTypes
  <1> PICK unseen : unseen = IF disk[n] = NoVersion THEN scan.unseen ELSE scan.unseen \ {n}
    OBVIOUS
  <1> PICK backlog : backlog = IF disk[n] \in {NoVersion, scan.manifest[n]} THEN scan.backlog
                               ELSE Append(scan.backlog, [name |-> n, st |-> disk[n]])
    OBVIOUS
  <1>2. scan' = [scan EXCEPT !.next = n + 1, !.unseen = unseen, !.backlog = backlog]
    BY <1>1 DEF WalkVisits, ScanRecords
  <1>3. /\ scan'.step = "walk" /\ scan'.clean = scan.clean /\ scan'.manifest = scan.manifest
        /\ scan'.unseen = unseen /\ scan'.backlog = backlog /\ scan'.next = n + 1
    BY <1>1, <1>2 DEF ScanRecords
  <1>4. UNCHANGED <<disk, index, thread, fresh, scanned, torn, unread, due, moves, flush, poolQueue>>
    BY DEF WalkVisits, fileVars, watchVars
  <1>5. scan.backlog \in Seq(FilesFound)
    BY <1>1 DEF ScanRecords
  <1>6. \A i \in 1 .. Len(backlog) : \/ i \in 1 .. Len(scan.backlog) /\ backlog[i] = scan.backlog[i]
                                     \/ backlog[i].name = n /\ backlog[i].st = disk[n]
    BY <1>5
  <1>7. \A m \in Names : InBacklog(m) => InBacklog(m)'
    <2> SUFFICES ASSUME NEW m \in Names, NEW i \in 1 .. Len(scan.backlog),
                        scan.backlog[i].name = m
                 PROVE  \E j \in 1 .. Len(backlog) : backlog[j].name = m
      BY <1>3 DEF InBacklog
    <2>1. i \in 1 .. Len(backlog) /\ backlog[i] = scan.backlog[i]
      BY <1>5
    <2> QED  BY <2>1
  <1>8. \A m \in Names : InBacklog(m)' => InBacklog(m) \/ m = n
    BY <1>3, <1>6 DEF InBacklog
  <1>9. NothingToApply'
    BY <1>1, <1>3, <1>4, StaysApplied DEF NothingToApply, CleanScan, ScanInv
  <1>10. \A m \in Names : (Right(m) <=> Right(m)') /\ (AtScanner(m) <=> AtScanner(m)')
    BY <1>4 DEF Right, RowIs, TextIs, TextFailed, AtScanner
  <1>11. ScansWhatIsThere'
    <2> SUFFICES ASSUME CleanScan'
                 PROVE  \A i \in 1 .. Len(backlog) : backlog[i].st = disk[backlog[i].name]
      BY <1>1, <1>3, <1>4 DEF ScansWhatIsThere, CleanScan, ScanInv
    <2> QED  BY SMTT(30), <1>1, <1>3, <1>6 DEF ScanInv, ScansWhatIsThere, CleanScan
  <1>12. ASSUME CleanScan PROVE ScanMissesNothing'
    <2>1. \A m \in Names :
              /\ disk[m] = NoVersion /\ index[m].live => m \in scan.unseen
              /\ disk[m] # NoVersion /\ m < n => Passed(m)
              /\ m >= n => Ahead(m)
      BY <1>12 DEF ScanInv, ScanMissesNothing
    <2>2. disk[n] # NoVersion => n \notin unseen /\ (InBacklog(n)' \/ Right(n))
      <3> SUFFICES ASSUME disk[n] # NoVersion PROVE InBacklog(n)' \/ Right(n)
        OBVIOUS
      <3>1. CASE disk[n] = scan.manifest[n]
        <4>1. Listed(index[n]) = disk[n]
          BY <1>1, <2>1, <3>1 DEF Ahead, Names
        <4>2. UnchangedInDb(index[n], disk[n])
          BY <4>1 DEF Listed
        <4> QED  BY <1>1, <4>2, SettledRowsAreRight
      <3>2. CASE disk[n] # scan.manifest[n]
        <4>1. PICK found : found = [name |-> n, st |-> disk[n]]
          OBVIOUS
        <4>2. backlog = Append(scan.backlog, found) /\ found.name = n
          BY <3>2, <4>1
        <4>3. Len(backlog) \in 1 .. Len(backlog) /\ backlog[Len(backlog)].name = n
          BY <1>5, <4>2
        <4> QED  BY <1>3, <4>3 DEF InBacklog
      <3> QED  BY <3>1, <3>2
    <2> SUFFICES ASSUME NEW m \in Names
                 PROVE  /\ disk[m] = NoVersion /\ index[m].live => m \in unseen
                        /\ disk[m] # NoVersion /\ m < n + 1 => Passed(m)'
                        /\ m >= n + 1 => Ahead(m)'
      BY <1>3, <1>4 DEF ScanMissesNothing
    <2>3. disk[m] = NoVersion /\ index[m].live => m \in unseen
      BY <2>1
    <2>4. ASSUME disk[m] # NoVersion, m < n + 1 PROVE Passed(m)'
      <3>1. CASE m = n
        BY <1>3, <1>10, <2>2, <2>4, <3>1 DEF Passed
      <3>2. CASE m # n
        <4>1. m < n
          BY <1>1, <2>4, <3>2 DEF Names
        <4>2. Passed(m)
          BY <2>1, <2>4, <4>1
        <4> QED  BY <1>3, <1>7, <1>10, <4>2 DEF Passed
      <3> QED  BY <3>1, <3>2
    <2>5. ASSUME m >= n + 1 PROVE Ahead(m)'
      <3>1. m >= n /\ m # n
        BY <1>1, <2>5 DEF Names
      <3>2. Ahead(m)
        BY <2>1, <3>1
      <3>3. ~InBacklog(m)' /\ ~AtScanner(m)'
        BY <1>8, <1>10, <3>1, <3>2 DEF Ahead
      <3> QED  BY <1>3, <1>4, <3>2, <3>3 DEF Ahead, Listed, UnchangedInDb
    <2> QED  BY <2>3, <2>4, <2>5
  <1>13. ScanMissesNothing'
    BY <1>1, <1>3, <1>12 DEF ScanMissesNothing, CleanScan
  <1>14. Repaired'
    BY <1>1, <1>3, <1>4, <1>10 DEF ScanInv, Repaired
  <1> QED  BY <1>3, <1>9, <1>11, <1>13, <1>14 DEF ScanInv, ScanRests

LEMMA ScanJobStartsWell ==
    ASSUME IndexTypes, JobsInv, ScanInv, ScanJobStarts
    PROVE  ScanInv'
  <1> PICK found : found = Head(scan.backlog)
    OBVIOUS
  <1>1. /\ scan \in ScanRecords /\ scan.backlog \in Seq(FilesFound) /\ scan.backlog # <<>>
        /\ thread[Scanner].step = "idle" /\ scan.step = "walk"
    BY DEF ScanJobStarts, IndexTypes, JobTypes, ScanRecords, ScanInv, ScanRests
  <1>2. found \in FilesFound /\ 1 \in 1 .. Len(scan.backlog) /\ scan.backlog[1] = found
    BY <1>1
  <1>3. scan' = [scan EXCEPT !.backlog = Tail(scan.backlog)]
    BY <1>1 DEF ScanJobStarts, ScanRecords
  <1>4. /\ scan'.step = "walk" /\ scan'.clean = scan.clean /\ scan'.manifest = scan.manifest
        /\ scan'.unseen = scan.unseen /\ scan'.next = scan.next
        /\ scan'.backlog = Tail(scan.backlog)
    BY <1>1, <1>3 DEF ScanRecords
  <1>5. PICK job : job = [step |-> "wait", name |-> found.name, st |-> found.st]
    OBVIOUS
  <1>6. thread' = [thread EXCEPT ![Scanner] = job]
    BY <1>5 DEF ScanJobStarts
  <1>7. thread'[Scanner] = job /\ \A t \in PoolThreads : thread'[t] = thread[t]
    BY <1>6, IndexBounds DEF IndexTypes, JobTypes, IndexThreads, Scanner, PoolThreads
  <1>8. UNCHANGED <<disk, index, fresh, scanned, torn, unread, due, moves, flush, poolQueue>>
    BY DEF ScanJobStarts, fileVars, watchVars
  <1>9. /\ \A i \in 1 .. Len(Tail(scan.backlog)) :
              i + 1 \in 1 .. Len(scan.backlog) /\ Tail(scan.backlog)[i] = scan.backlog[i + 1]
        /\ \A i \in 2 .. Len(scan.backlog) :
              i - 1 \in 1 .. Len(Tail(scan.backlog)) /\ Tail(scan.backlog)[i - 1] = scan.backlog[i]
    BY <1>1
  <1>10. \A m \in Names : /\ InBacklog(m) <=> InBacklog(m)' \/ AtScanner(m)'
                          /\ ~AtScanner(m)
    <2> SUFFICES ASSUME NEW m \in Names PROVE InBacklog(m) <=> InBacklog(m)' \/ AtScanner(m)'
      BY <1>1 DEF AtScanner
    <2>1. AtScanner(m)' <=> found.name = m
      BY <1>5, <1>7 DEF AtScanner
    <2>2. InBacklog(m)' <=> \E i \in 1 .. Len(Tail(scan.backlog)) : Tail(scan.backlog)[i].name = m
      BY <1>4 DEF InBacklog
    <2>3. ASSUME InBacklog(m) PROVE InBacklog(m)' \/ AtScanner(m)'
      <3>1. PICK i \in 1 .. Len(scan.backlog) : scan.backlog[i].name = m
        BY <2>3 DEF InBacklog
      <3>2. CASE i = 1
        BY <1>2, <2>1, <3>1, <3>2
      <3>3. CASE i # 1
        <4>1. i \in 2 .. Len(scan.backlog)
          BY <3>3
        <4> QED  BY <1>9, <2>2, <3>1, <4>1
      <3> QED  BY <3>2, <3>3
    <2>4. ASSUME AtScanner(m)' PROVE InBacklog(m)
      BY <1>2, <2>1, <2>4 DEF InBacklog
    <2>5. ASSUME InBacklog(m)' PROVE InBacklog(m)
      BY <1>9, <2>2, <2>5 DEF InBacklog
    <2> QED  BY <2>3, <2>4, <2>5
  <1>11. \A m \in Names : Right(m) <=> Right(m)'
    BY <1>8 DEF Right, RowIs, TextIs, TextFailed
  <1>12. NothingToApply'
    BY <1>1, <1>4, <1>7, <1>8, StaysApplied DEF NothingToApply, CleanScan, ScanInv
  <1>13. ASSUME CleanScan PROVE ScansWhatIsThere'
    <2>1. \A i \in 1 .. Len(scan.backlog) : scan.backlog[i].st = disk[scan.backlog[i].name]
      BY <1>13 DEF ScanInv, ScansWhatIsThere
    <2>2. \A i \in 1 .. Len(Tail(scan.backlog)) :
              Tail(scan.backlog)[i].st = disk[Tail(scan.backlog)[i].name]
      <3> SUFFICES ASSUME NEW i \in 1 .. Len(Tail(scan.backlog))
                   PROVE  Tail(scan.backlog)[i].st = disk[Tail(scan.backlog)[i].name]
        OBVIOUS
      <3>1. i + 1 \in 1 .. Len(scan.backlog) /\ Tail(scan.backlog)[i] = scan.backlog[i + 1]
        BY <1>9
      <3>2. scan.backlog[i + 1].st = disk[scan.backlog[i + 1].name]
        BY <2>1, <3>1
      <3> QED  BY <3>1, <3>2
    <2>3. found.st = disk[found.name]
      BY <1>2, <2>1
    <2>4. \A n \in fresh : disk[n] # NoVersion
      BY <1>13 DEF ScanInv, ScansWhatIsThere
    <2>5. job.step = "wait" /\ job.name = found.name /\ job.st = found.st
      BY <1>5
    <2> QED  BY <1>4, <1>7, <1>8, <2>2, <2>3, <2>4, <2>5 DEF ScansWhatIsThere
  <1>14. ASSUME CleanScan PROVE ScanMissesNothing'
    <2>1. \A m \in Names :
              /\ disk[m] = NoVersion /\ index[m].live => m \in scan.unseen
              /\ disk[m] # NoVersion /\ m < scan.next => Passed(m)
              /\ m >= scan.next => Ahead(m)
      BY <1>14 DEF ScanInv, ScanMissesNothing
    <2> SUFFICES ASSUME NEW m \in Names
                 PROVE  /\ Passed(m) => Passed(m)'
                        /\ Ahead(m) => Ahead(m)'
      BY <1>4, <1>8, <2>1 DEF ScanMissesNothing
    <2>2. Passed(m) => Passed(m)'
      BY <1>4, <1>10, <1>11 DEF Passed
    <2>3. Ahead(m) => Ahead(m)'
      BY <1>4, <1>8, <1>10 DEF Ahead, Listed, UnchangedInDb
    <2> QED  BY <2>2, <2>3
  <1>15. Repaired'
    BY <1>1, <1>4, <1>8, <1>11 DEF ScanInv, Repaired
  <1> QED  BY <1>1, <1>4, <1>12, <1>13, <1>14, <1>15 DEF ScanInv, ScanRests, CleanScan,
                  ScansWhatIsThere, ScanMissesNothing

(* The sweep: what was not seen and not written since is not there.        *)
LEMMA SweepRepairs ==
    ASSUME IndexTypes, JobsInv, ScanInv, ScanSweeps
    PROVE  ScanInv'
  <1>1. /\ scan.step = "walk" /\ scan.next \notin Names /\ scan.backlog = <<>>
        /\ thread[Scanner].step = "idle" /\ scan \in ScanRecords
        /\ index' = Gone(Vanished) /\ scanned' = scan.clean /\ scan' = NotScanning
    BY DEF ScanSweeps, IndexTypes, JobTypes
  <1>2. UNCHANGED <<disk, thread, fresh, torn, unread, due, moves, flush, poolQueue>>
    BY DEF ScanSweeps, fileVars, watchVars
  <1>3. scan'.step = "idle" /\ scan'.backlog = <<>>
    BY <1>1 DEF NotScanning
  <1>4. \A m \in Names : m < scan.next
    BY <1>1, IndexBounds DEF ScanRecords, Names
  <1>5. ASSUME scan.clean, NEW m \in Names PROVE Right(m)'
    <2>1. /\ disk[m] = NoVersion /\ index[m].live => m \in scan.unseen
          /\ disk[m] # NoVersion => Passed(m)
          /\ m \in fresh => disk[m] # NoVersion
      BY <1>1, <1>4, <1>5 DEF ScanInv, ScanMissesNothing, ScansWhatIsThere, CleanScan
    <2>2. index[m] \in IndexRows
      BY DEF IndexTypes, FileTypes
    <2>3. CASE disk[m] = NoVersion
      <3>1. ~index'[m].live
        BY <1>1, <2>1, <2>2, <2>3 DEF Gone, Vanished, IndexRows
      <3> QED  BY <1>2, <2>3, <3>1 DEF Right, RowIs, TextIs, TextFailed
    <2>4. CASE disk[m] # NoVersion
      <3>1. m \notin scan.unseen /\ Right(m)
        BY <1>1, <2>1, <2>4 DEF Passed, InBacklog, AtScanner
      <3>2. index'[m] = index[m]
        BY <1>1, <3>1 DEF Gone, Vanished
      <3> QED  BY <1>2, <3>1, <3>2 DEF Right, RowIs, TextIs, TextFailed
    <2> QED  BY <2>3, <2>4
  <1>6. Repaired'
    BY <1>1, <1>3, <1>5 DEF Repaired
  <1>7. NothingToApply'
    BY <1>1, <1>2, <1>3, StaysApplied DEF NothingToApply, CleanScan, ScanInv
  <1> QED  BY <1>1, <1>2, <1>3, <1>6, <1>7 DEF ScanInv, ScanRests, ScansWhatIsThere,
                  ScanMissesNothing, CleanScan

(***************************************************************************)
(* The scan's worker, in a clean scan, is at a file that is there.         *)
(***************************************************************************)
LEMMA ScannerKeepsScan ==
    ASSUME IndexTypes, JobsInv, JobsInv', ScanInv, JobStep(Scanner), ~JobRaises(Scanner)
    PROVE  ScanInv'
  <1> PICK n : n = thread[Scanner].name
    OBVIOUS
  <1>1. /\ Scanner \in IndexThreads /\ Scanner \notin PoolThreads
        /\ n \in Names /\ thread[Scanner].step # "idle"
    BY DEF IndexThreads, Scanner, PoolThreads, IndexTypes, JobTypes, FileJobs, JobStep, JobStarts,
           JobDeletesRow, SkipsFile, BeginsFile, ExtractsText, ExtractionFails, MarksError
  <1>2. UNCHANGED <<disk, changes, scan, scanned, unread, due, moves, flush, poolQueue>>
        /\ \A t \in PoolThreads : thread'[t] = thread[t]
    BY <1>1 DEF JobStep, JobStarts, JobDeletesRow, SkipsFile, BeginsFile, ExtractsText,
                ExtractionFails, MarksError, fileVars, watchVars, IndexTypes, JobTypes, IndexThreads
  <1>3. scan.step = "walk"
    BY <1>1 DEF ScanInv, ScanRests, IndexTypes, JobTypes, ScanRecords
  <1>4. CASE ~CleanScan
    <2>1. ~scanned
      BY <1>3, <1>4 DEF ScanInv, Repaired, CleanScan
    <2> QED  BY <1>2, <1>3, <1>4, <2>1, NothingClaimed DEF ScanRests, CleanScan
  <1>5. CASE CleanScan
    <2>1. /\ thread[Scanner].step \in {"wait", "reading"}
          /\ thread[Scanner].st = disk[n] /\ disk[n] # NoVersion
          /\ thread[Scanner].step = "reading" => index[n].live
          /\ \A m \in fresh : disk[m] # NoVersion
          /\ \A i \in 1 .. Len(scan.backlog) : scan.backlog[i].st = disk[scan.backlog[i].name]
      BY <1>1, <1>5 DEF ScanInv, ScansWhatIsThere, IndexTypes, JobTypes
    <2>2. /\ \A m \in Names \ {n} : index'[m] = index[m]
          /\ torn' = torn
          /\ index'[n].live <=> index[n].live \/ thread'[Scanner].step = "reading"
          /\ fresh' \subseteq fresh \union {n}
      <3>1. ~Elsewhere(n, thread[Scanner].st)
        BY <2>1 DEF Elsewhere
      <3>2. CASE SkipsFile(Scanner)
        BY <1>1, <3>2 DEF SkipsFile, NoFileJob, IndexTypes, JobTypes
      <3>3. CASE BeginsFile(Scanner)
        <4>1. PICK row : row = [live |-> TRUE, mtime |-> thread[Scanner].st, sha |-> disk[n],
                                text |-> NoVersion, status |-> "pending"]
          OBVIOUS
        <4>2. /\ index' = [index EXCEPT ![n] = row] /\ fresh' = fresh \union {n}
              /\ thread' = [thread EXCEPT ![Scanner].step = "reading"]
              /\ torn' = (torn \/ Elsewhere(n, thread[Scanner].st))
          BY <2>1, <3>3, <4>1 DEF BeginsFile
        <4>3. thread'[Scanner].step = "reading"
          BY <1>1, <4>2 DEF IndexTypes, JobTypes, FileJobs
        <4> QED  BY <1>1, <3>1, <4>1, <4>2, <4>3 DEF IndexTypes, FileTypes
      <3>4. CASE ExtractsText(Scanner)
        <4>1. /\ \A m \in Names : m # n => index'[m] = index[m]
              /\ index'[n].live = index[n].live
          BY <1>1, <3>4 DEF ExtractsText, IndexTypes, FileTypes, IndexRows
        <4>2. thread'[Scanner].step = "idle" /\ fresh' = fresh
              /\ torn' = (torn \/ Elsewhere(n, thread[Scanner].st))
          BY <1>1, <3>4 DEF ExtractsText, NoFileJob, IndexTypes, JobTypes
        <4> QED  BY <3>1, <4>1, <4>2 DEF IndexTypes, FileTypes
      <3>5. CASE ExtractionFails(Scanner)
        <4>1. /\ \A m \in Names : m # n => index'[m] = index[m]
              /\ index'[n].live = index[n].live
          BY <1>1, <3>5 DEF ExtractionFails, IndexTypes, FileTypes, IndexRows
        <4>2. thread'[Scanner].step = "idle" /\ fresh' = fresh /\ torn' = torn
          BY <1>1, <3>5 DEF ExtractionFails, NoFileJob, IndexTypes, JobTypes
        <4> QED  BY <4>1, <4>2 DEF IndexTypes, FileTypes
      <3> QED  BY <2>1, <3>2, <3>3, <3>4, <3>5 DEF JobStep, JobStarts, JobDeletesRow, MarksError
    <2>3. /\ thread'[Scanner].step \in {"idle", "reading"}
          /\ thread'[Scanner].step = "reading" => thread'[Scanner].name = n /\ thread'[Scanner].st = disk[n]
      BY <1>1, <2>1 DEF JobStep, JobStarts, JobDeletesRow, MarksError, SkipsFile, BeginsFile,
                        ExtractsText, ExtractionFails, NoFileJob, IndexTypes, JobTypes, FileJobs
    <2>4. thread'[Scanner].step = "idle" => Right(n)'
      <3>1. CASE SkipsFile(Scanner)
        <4>1. UnchangedInDb(index[n], disk[n]) /\ index' = index
          BY <2>1, <3>1 DEF SkipsFile
        <4>2. Right(n)
          BY <1>1, <2>1, <4>1, SettledRowsAreRight
        <4> QED  BY <1>2, <2>2, <4>1, <4>2 DEF Right, RowIs, TextIs, TextFailed
      <3>2. CASE BeginsFile(Scanner)
        BY <1>1, <2>1, <3>2 DEF BeginsFile, IndexTypes, JobTypes, FileJobs
      <3>3. CASE ExtractsText(Scanner)
        <4>1. Reading(Scanner, n) /\ index[n].live /\ Alive(disk[n])
          BY <1>1, <2>1, <3>3 DEF ExtractsText, Reading, Alive
        <4>2. Begun(index[n], disk[n]) /\ Honest(index[n])
          BY <1>1, <2>1, <4>1 DEF JobsInv, ReadersOwnRows, RowsAreHonest
        <4>3. /\ index'[n].live = index[n].live /\ index'[n].mtime = index[n].mtime
              /\ index'[n].sha = index[n].sha /\ index'[n].text = disk[n]
              /\ index'[n].status = "done"
          BY <1>1, <2>1, <3>3 DEF ExtractsText, IndexTypes, FileTypes, IndexRows
        <4> QED  BY <1>2, <2>1, <2>2, <4>1, <4>2, <4>3
                 DEF Begun, Honest, Whole, Right, RowIs, TextIs, TextFailed
      <3>4. CASE ExtractionFails(Scanner)
        <4>1. Reading(Scanner, n) /\ index[n].live /\ Alive(disk[n])
          BY <1>1, <2>1, <3>4 DEF ExtractionFails, Reading, Alive
        <4>2. Begun(index[n], disk[n]) /\ Honest(index[n])
          BY <1>1, <2>1, <4>1 DEF JobsInv, ReadersOwnRows, RowsAreHonest
        <4>3. /\ index'[n].live = index[n].live /\ index'[n].mtime = index[n].mtime
              /\ index'[n].sha = index[n].sha /\ index'[n].text = index[n].text
              /\ index'[n].status = "error"
          BY <1>1, <2>1, <3>4 DEF ExtractionFails, IndexTypes, FileTypes, IndexRows
        <4> QED  BY <1>2, <2>1, <2>2, <4>1, <4>2, <4>3
                 DEF Begun, Honest, Whole, Right, RowIs, TextIs, TextFailed
      <3> QED  BY <2>1, <3>1, <3>2, <3>3, <3>4 DEF JobStep, JobStarts, JobDeletesRow, MarksError
    <2>5. \A m \in Names : m # n => (Right(m) <=> Right(m)') /\ ~AtScanner(m) /\ ~AtScanner(m)'
      BY <1>2, <2>2, <2>3 DEF Right, RowIs, TextIs, TextFailed, AtScanner
    <2>6. \A m \in Names : InBacklog(m) <=> InBacklog(m)'
      BY <1>2 DEF InBacklog
    <2>7. NothingToApply'
      BY <1>2, <1>3, StaysApplied DEF NothingToApply, CleanScan, ScanInv
    <2>8. ScansWhatIsThere'
      BY <1>1, <1>2, <2>1, <2>2, <2>3 DEF ScansWhatIsThere
    <2>9. \A m \in Names :
              /\ disk[m] = NoVersion /\ index[m].live => m \in scan.unseen
              /\ disk[m] # NoVersion /\ m < scan.next => Passed(m)
              /\ m >= scan.next => Ahead(m)
      BY <1>5 DEF ScanInv, ScanMissesNothing
    <2>10. n < scan.next /\ n \notin scan.unseen
      <3>1. AtScanner(n) /\ n \in Nat /\ scan.next \in Nat
        BY <1>1, IndexBounds DEF AtScanner, Names, IndexTypes, JobTypes, ScanRecords
      <3>2. n < scan.next
        BY <1>1, <2>9, <3>1 DEF Ahead
      <3> QED  BY <1>1, <2>1, <2>9, <3>2 DEF Passed
    <2>11. ScanMissesNothing'
      <3> SUFFICES ASSUME NEW m \in Names
                   PROVE  /\ disk[m] = NoVersion /\ index'[m].live => m \in scan.unseen
                          /\ disk[m] # NoVersion /\ m < scan.next => Passed(m)'
                          /\ m >= scan.next => Ahead(m)'
        BY <1>2 DEF ScanMissesNothing
      <3>1. CASE m = n
        <4>1. AtScanner(n)' \/ Right(n)'
          BY <2>3, <2>4 DEF AtScanner
        <4>2. ~(n >= scan.next)
          BY <1>1, <2>10, IndexBounds DEF Names, IndexTypes, JobTypes, ScanRecords
        <4> QED  BY <1>2, <2>1, <2>10, <3>1, <4>1, <4>2 DEF Passed
      <3>2. CASE m # n
        <4>1. index'[m] = index[m]
          BY <2>2, <3>2
        <4>2. Passed(m) => Passed(m)'
          BY <1>2, <2>5, <2>6, <3>2 DEF Passed
        <4>3. Ahead(m) => Ahead(m)'
          BY <1>2, <2>5, <2>6, <3>2, <4>1 DEF Ahead, Listed, UnchangedInDb
        <4> QED  BY <2>9, <4>1, <4>2, <4>3
      <3> QED  BY <3>1, <3>2
    <2>12. Repaired'
      <3> SUFFICES ASSUME scanned, NEW m \in Names PROVE Right(m)'
        BY <1>2, <1>3, <1>5 DEF Repaired, CleanScan
      <3>1. Right(m) /\ Right(n)
        BY <1>1 DEF ScanInv, Repaired
      <3>2. CASE m # n
        BY <2>5, <3>1, <3>2
      <3>3. CASE m = n
        <4>1. CASE thread'[Scanner].step = "idle"
          BY <2>4, <3>3, <4>1
        <4>2. CASE thread'[Scanner].step = "reading"
          <5>1. BeginsFile(Scanner)
            <6>1. ASSUME SkipsFile(Scanner) \/ ExtractsText(Scanner) \/ ExtractionFails(Scanner)
                  PROVE  FALSE
              <7>1. thread' = [thread EXCEPT ![Scanner] = NoFileJob]
                BY <6>1 DEF SkipsFile, ExtractsText, ExtractionFails
              <7> QED  BY <1>1, <4>2, <7>1 DEF NoFileJob, IndexTypes, JobTypes
            <6> QED  BY <2>1, <6>1 DEF JobStep, JobStarts, JobDeletesRow, MarksError
          <5>2. torn
            BY <2>1, <3>1, <5>1 DEF BeginsFile, UnchangedInDb, Right, RowIs, TextIs, TextFailed
          <5>3. index'[n].mtime = disk[n] /\ index'[n].live
            BY <1>1, <2>1, <5>1 DEF BeginsFile, IndexTypes, FileTypes
          <5> QED  BY <1>2, <2>1, <2>2, <3>3, <5>2, <5>3 DEF Right, RowIs
        <4> QED  BY <2>3, <4>1, <4>2
      <3> QED  BY <3>2, <3>3
    <2> QED  BY <1>2, <1>3, <2>7, <2>8, <2>11, <2>12 DEF ScanInv, ScanRests
  <1> QED  BY <1>4, <1>5

IndexInv == IndexTypes /\ JobsInv /\ ScanInv

LEMMA IndexInvariance == IndexSpec => []IndexInv
  <1>1. IndexInit => IndexInv
    BY TypesBegin, JobsBegin, ScanInvBegins DEF IndexInv
  <1>2. ASSUME IndexInv, [IndexNext]_indexVars PROVE IndexInv'
    <2>1. IndexTypes' /\ JobsInv'
      BY <1>2, IndexTypesKept, JobsInvKept DEF IndexInv
    <2>2. ScanInv'
      <3>1. CASE UNCHANGED indexVars
        BY <1>2, <3>1 DEF indexVars, IndexInv, ScanInv, ScanRests, NothingToApply, Applied,
              ScansWhatIsThere, ScanMissesNothing, Repaired, CleanScan, InBacklog, AtScanner,
              Listed, Ahead, Passed, Right, RowIs, TextIs, TextFailed, UnchangedInDb
      <3>2. CASE ScanStep
        BY <1>2, <3>2, ScanBeginsWell, WalkKeepsScan, ScanJobStartsWell, SweepRepairs
           DEF ScanStep, IndexInv
      <3>3. CASE JobStep(Scanner) /\ ~JobRaises(Scanner)
        BY <1>2, <2>1, <3>3, ScannerKeepsScan DEF IndexInv
      <3>4. ASSUME NEW t \in IndexThreads, JobRaises(t) PROVE ScanInv'
        BY <1>2, <3>4, RaisingKeepsScan DEF IndexInv
      <3> QED  BY <1>2, <3>1, <3>2, <3>3, <3>4, ChangesKeepScan, WatcherKeepsScan
               DEF IndexNext, IndexInv, IndexThreads
    <2> QED  BY <2>1, <2>2 DEF IndexInv
  <1> QED  BY <1>1, <1>2, PTL DEF IndexSpec

(* The state of the watcher, the scan and the index keeps its type.        *)
THEOREM IndexTypesHold == IndexSpec => []IndexTypeOK
  <1>1. ASSUME IndexInv PROVE IndexTypeOK
    <2>1. changes \in 0 .. MaxChanges /\ MaxChanges \in Nat
      BY <1>1, IndexBounds DEF IndexInv, IndexTypes, FileTypes
    <2>2. Versions \subseteq 0 .. MaxChanges
      BY <2>1 DEF Versions
    <2>3. disk \in [Names -> 0 .. MaxChanges]
      BY <1>1, <2>2 DEF IndexInv, IndexTypes, FileTypes
    <2>4. \A n \in Names :
              /\ index[n].live \in BOOLEAN
              /\ {index[n].mtime, index[n].sha, index[n].text} \subseteq 0 .. MaxChanges
              /\ index[n].status \in {"none", "pending", "done", "error"}
      BY <1>1, <2>2 DEF IndexInv, IndexTypes, FileTypes, IndexRows
    <2>5. /\ \A n \in Names : due[n] \in {"none", "young", "old"}
          /\ flush.step \in {"idle", "moves", "rename", "gone"}
          /\ flush.due \subseteq Names
          /\ scan.unseen \subseteq Names /\ fresh \subseteq Names
      BY <1>1 DEF IndexInv, IndexTypes, FileTypes, WatchTypes, JobTypes, FlushRecords, ScanRecords,
                  NameSets
    <2>6. \A t, u \in IndexThreads :
              t # u /\ thread[t].step = "reading" /\ thread[u].step = "reading"
                  => thread[t].name # thread[u].name
      <3>1. \A t \in IndexThreads : thread[t].name \in Names
        BY <1>1 DEF IndexInv, IndexTypes, JobTypes, FileJobs
      <3> QED  BY <1>1, <3>1 DEF IndexInv, JobsInv, ReadersAreAlone, Reading
    <2> QED  BY <2>3, <2>4, <2>5, <2>6 DEF IndexTypeOK, IndexThreads
  <1> QED  BY <1>1, IndexInvariance, PTL

(***************************************************************************)
(* For any number of names and threads, whatever was lost, reordered or    *)
(* overtaken: a scan that finds nothing left to apply leaves each row as   *)
(* the file is; with its text, or with the error that reading this version *)
(* ended in; unless a file was torn from a job.                            *)
(***************************************************************************)
THEOREM ScansRepair == IndexSpec => []ScanRepairsIndex
  <1>1. ASSUME IndexInv PROVE ScanRepairsIndex
    BY <1>1 DEF IndexInv, ScanInv, Repaired, Right, ScanRepairsIndex
  <1> QED  BY <1>1, IndexInvariance, PTL

------------------------------------------------------------------------------
(***************************************************************************)
(* Proofs, for every set of callers and identities, every size of the pool *)
(* and every number of sessions that die, that the lock's state keeps its  *)
(* type and that two commits of one identity publish at the same time only *)
(* if the session of one of them has died.                                 *)
(*                                                                         *)
(* The latter needs what pins a lock to its caller: no two callers have    *)
(* one connection, no two connections have one identity, and a caller in   *)
(* its section has the lock as long as its session lives.                  *)
(***************************************************************************)

(* The steps at which a caller has a connection, and those of its section. *)
Connected == {"ask", "held", "refused", "run", "unlock", "unlocked"}

Holding == {"held", "run", "unlock"}

LockTypes ==
    /\ caller \in [Callers -> CallerSteps]
    /\ client \in [Callers -> Connections \union {NoConnection}]
    /\ attempts \in [Callers -> 0..MaxAttempts]
    /\ locks \in [Connections -> [PublishIdentities -> {0, 1}]]
    /\ alive \in [Connections -> BOOLEAN]
    /\ closing \subseteq PublishIdentities
    /\ drops \in 0..Drops

ConnectedInStep ==
    \A c \in Callers : caller[c] \in Connected <=> client[c] # NoConnection

TriesLeft ==
    \A c \in Callers :
        caller[c] \in {"idle", "connect", "sleep"} => attempts[c] < MaxAttempts

ClientsApart ==
    \A c, d \in Callers : client[c] = client[d] /\ client[c] # NoConnection => c = d

LocksHaveCallers ==
    \A k \in Connections, i \in PublishIdentities :
        locks[k][i] # 0 =>
            \E c \in Callers : client[c] = k /\ Owner[c] = i /\ caller[c] \in Holding

CallersHaveLocks ==
    \A c \in Callers :
        caller[c] \in Holding /\ alive[client[c]] => locks[client[c]][Owner[c]] # 0

LocksApart ==
    \A k, l \in Connections, i \in PublishIdentities :
        locks[k][i] # 0 /\ locks[l][i] # 0 => k = l

LockInv ==
    /\ LockTypes /\ ConnectedInStep /\ TriesLeft /\ ClientsApart
    /\ LocksHaveCallers /\ CallersHaveLocks /\ LocksApart

USE OwnerAssumption, PoolSizeAssumption, AttemptsAssumption

LEMMA Facts ==
    /\ NoConnection \notin Connections
    /\ Holding \subseteq Connected /\ Connected \subseteq CallerSteps
    /\ \A c \in Callers : Owner[c] \in PublishIdentities
    /\ Unlocked \in [PublishIdentities -> {0, 1}]
    /\ \A i \in PublishIdentities : Unlocked[i] = 0
  BY DEF NoConnection, Connections, Holding, Connected, CallerSteps,
         PublishIdentities, Unlocked

LEMMA LockStarts == LockInit => LockInv
  <1> SUFFICES ASSUME LockInit PROVE LockInv
    OBVIOUS
  <1>1. LockTypes
    BY Facts DEF LockInit, LockTypes, CallerSteps
  <1>2. ConnectedInStep /\ TriesLeft /\ ClientsApart
    BY DEF LockInit, ConnectedInStep, TriesLeft, ClientsApart, Connected
  <1>3. LocksHaveCallers /\ CallersHaveLocks /\ LocksApart
    BY Facts DEF LockInit, LocksHaveCallers, CallersHaveLocks, LocksApart, Holding
  <1> QED  BY <1>1, <1>2, <1>3 DEF LockInv

(* A caller goes on, and neither connections nor locks change hands.       *)
LEMMA MovesOn ==
    ASSUME LockInv, NEW c \in Callers, NEW s \in CallerSteps,
           caller' = [caller EXCEPT ![c] = s],
           caller[c] \in Connected <=> s \in Connected,
           caller[c] \in Holding <=> s \in Holding,
           s \in {"idle", "connect", "sleep"} => attempts[c] < MaxAttempts,
           UNCHANGED <<client, attempts, locks, alive, closing, drops>>
    PROVE  LockInv'
  <1>1. LockTypes'
    BY DEF LockInv, LockTypes
  <1>2. \A d \in Callers : caller'[d] = IF d = c THEN s ELSE caller[d]
    BY DEF LockInv, LockTypes
  <1>3. ConnectedInStep' /\ TriesLeft' /\ ClientsApart'
    BY <1>2 DEF LockInv, ConnectedInStep, TriesLeft, ClientsApart
  <1>4. LocksHaveCallers' /\ CallersHaveLocks' /\ LocksApart'
    BY <1>2 DEF LockInv, LocksHaveCallers, CallersHaveLocks, LocksApart
  <1> QED  BY <1>1, <1>3, <1>4 DEF LockInv

(* A caller outside its section gives its connection back.                 *)
LEMMA GivesBack ==
    ASSUME LockInv, NEW c \in Callers, NEW s \in CallerSteps,
           caller' = [caller EXCEPT ![c] = s],
           caller[c] \notin Holding, s \notin Connected,
           s \in {"idle", "connect", "sleep"} => attempts[c] < MaxAttempts,
           GivenBack(c), UNCHANGED <<attempts, drops>>
    PROVE  LockInv'
  <1>1. /\ client' = [client EXCEPT ![c] = NoConnection]
        /\ UNCHANGED <<locks, alive, closing>>
    BY DEF GivenBack
  <1>2. LockTypes'
    BY <1>1 DEF LockInv, LockTypes
  <1>3. \A d \in Callers :
            /\ caller'[d] = IF d = c THEN s ELSE caller[d]
            /\ client'[d] = IF d = c THEN NoConnection ELSE client[d]
    BY <1>1 DEF LockInv, LockTypes
  <1>4. ConnectedInStep' /\ TriesLeft' /\ ClientsApart'
    BY <1>3 DEF LockInv, ConnectedInStep, TriesLeft, ClientsApart
  <1>5. s \notin Holding
    BY Facts
  <1>6. LocksHaveCallers' /\ CallersHaveLocks' /\ LocksApart'
    BY <1>1, <1>3, <1>5 DEF LockInv, LocksHaveCallers, CallersHaveLocks, LocksApart
  <1> QED  BY <1>2, <1>4, <1>6 DEF LockInv

(* A session is destroyed with the locks it has.                           *)
LEMMA Destroys ==
    ASSUME LockInv, NEW c \in Callers, NEW s \in CallerSteps,
           caller' = [caller EXCEPT ![c] = s],
           caller[c] \in Connected, s \notin Connected,
           s \notin {"idle", "connect", "sleep"},
           Destroyed(c), UNCHANGED <<attempts, drops>>
    PROVE  LockInv'
  <1> DEFINE k == client[c]
  <1>1. /\ client' = [client EXCEPT ![c] = NoConnection]
        /\ locks' = [locks EXCEPT ![k] = Unlocked]
        /\ alive' = [alive EXCEPT ![k] = TRUE]
        /\ closing' = closing \union {i \in PublishIdentities : locks[k][i] > 0}
    BY DEF Destroyed
  <1>2. k \in Connections
    BY DEF LockInv, LockTypes, ConnectedInStep
  <1>3. LockTypes'
    BY <1>1, <1>2, Facts DEF LockInv, LockTypes
  <1>4. \A d \in Callers :
            /\ caller'[d] = IF d = c THEN s ELSE caller[d]
            /\ client'[d] = IF d = c THEN NoConnection ELSE client[d]
    BY <1>1 DEF LockInv, LockTypes
  <1>5. \A l \in Connections :
            /\ locks'[l] = IF l = k THEN Unlocked ELSE locks[l]
            /\ alive'[l] = IF l = k THEN TRUE ELSE alive[l]
    BY <1>1, <1>2 DEF LockInv, LockTypes
  <1>6. ConnectedInStep' /\ TriesLeft' /\ ClientsApart'
    BY <1>4 DEF LockInv, ConnectedInStep, TriesLeft, ClientsApart
  <1>7. \A d \in Callers \ {c} : client[d] # k
    BY <1>2, Facts DEF LockInv, ClientsApart
  <1>8. LocksHaveCallers'
    <2> SUFFICES ASSUME NEW l \in Connections, NEW i \in PublishIdentities, locks'[l][i] # 0
                 PROVE  \E d \in Callers :
                            client'[d] = l /\ Owner[d] = i /\ caller'[d] \in Holding
      BY DEF LocksHaveCallers
    <2>1. l # k /\ locks[l][i] # 0
      BY <1>5, Facts
    <2>2. PICK d \in Callers : client[d] = l /\ Owner[d] = i /\ caller[d] \in Holding
      BY <2>1 DEF LockInv, LocksHaveCallers
    <2> QED  BY <1>4, <2>1, <2>2
  <1>9. CallersHaveLocks'
    <2> SUFFICES ASSUME NEW d \in Callers, caller'[d] \in Holding, alive'[client'[d]]
                 PROVE  locks'[client'[d]][Owner[d]] # 0
      BY DEF CallersHaveLocks
    <2>1. d # c /\ caller[d] \in Holding /\ client'[d] = client[d]
      BY <1>4, Facts
    <2>2. client[d] # k /\ client[d] \in Connections
      BY <1>7, <2>1, Facts DEF LockInv, LockTypes, ConnectedInStep
    <2>3. alive[client[d]] /\ locks'[client[d]] = locks[client[d]]
      BY <1>5, <2>1, <2>2
    <2> QED  BY <2>1, <2>3 DEF LockInv, CallersHaveLocks
  <1>10. LocksApart'
    <2>1. \A l \in Connections, i \in PublishIdentities :
              locks'[l][i] # 0 => locks[l][i] # 0
      BY <1>5, Facts
    <2> QED  BY <2>1 DEF LockInv, LocksApart
  <1> QED  BY <1>3, <1>6, <1>8, <1>9, <1>10 DEF LockInv

(* A free connection of the pool is checked out: its session has no lock.  *)
LEMMA Connects ==
    ASSUME LockInv, NEW c \in Callers, Connect(c)
    PROVE  LockInv'
  <1>1. PICK k \in Connections \ CheckedOut :
            /\ client' = [client EXCEPT ![c] = k]
            /\ alive' = [alive EXCEPT ![k] = TRUE]
    BY DEF Connect
  <1>2. /\ caller[c] = "connect"
        /\ caller' = [caller EXCEPT ![c] = "ask"]
        /\ attempts' = [attempts EXCEPT ![c] = @ + 1]
        /\ UNCHANGED <<locks, closing, drops>>
    BY DEF Connect
  <1>3. attempts[c] + 1 \in 0..MaxAttempts
    BY <1>2 DEF LockInv, LockTypes, TriesLeft
  <1>4. LockTypes'
    BY <1>1, <1>2, <1>3 DEF LockInv, LockTypes, CallerSteps
  <1>5. \A d \in Callers :
            /\ caller'[d] = IF d = c THEN "ask" ELSE caller[d]
            /\ client'[d] = IF d = c THEN k ELSE client[d]
            /\ d # c => attempts'[d] = attempts[d]
            /\ client[d] # k
    BY <1>1, <1>2, Facts DEF LockInv, LockTypes, CheckedOut
  <1>6. "ask" \in Connected /\ "ask" \notin Holding /\ "connect" \notin Holding
    BY DEF Connected, Holding
  <1>7. ConnectedInStep' /\ ClientsApart'
    BY <1>1, <1>5, <1>6, Facts DEF LockInv, ConnectedInStep, ClientsApart
  <1>8. TriesLeft'
    BY <1>5 DEF LockInv, TriesLeft
  <1>9. \A l \in Connections : l # k => alive'[l] = alive[l]
    BY <1>1 DEF LockInv, LockTypes
  <1>10. LocksHaveCallers' /\ LocksApart'
    BY <1>2, <1>5, <1>6 DEF LockInv, LocksHaveCallers, LocksApart
  <1>11. CallersHaveLocks'
    <2> SUFFICES ASSUME NEW d \in Callers, caller'[d] \in Holding, alive'[client'[d]]
                 PROVE  locks'[client'[d]][Owner[d]] # 0
      BY DEF CallersHaveLocks
    <2>1. d # c /\ caller[d] \in Holding /\ client'[d] = client[d]
      BY <1>5, <1>6
    <2>2. client[d] # k /\ client[d] \in Connections
      BY <1>5, <2>1, Facts DEF LockInv, LockTypes, ConnectedInStep
    <2> QED  BY <1>2, <1>9, <2>1, <2>2 DEF LockInv, CallersHaveLocks
  <1> QED  BY <1>4, <1>7, <1>8, <1>10, <1>11 DEF LockInv

(* The database gives the lock only if no other session has the identity.  *)
LEMMA AsksKeep ==
    ASSUME LockInv, NEW c \in Callers, Ask(c)
    PROVE  LockInv'
  <1> DEFINE i == Owner[c]
             k == client[c]
  <1>1. caller[c] = "ask" /\ alive[k] /\ UNCHANGED <<client, attempts, alive, closing, drops>>
    BY DEF Ask
  <1>2. k \in Connections /\ i \in PublishIdentities
    BY <1>1, Facts DEF LockInv, LockTypes, ConnectedInStep, Connected
  <1>3. CASE HeldElsewhere(i, k)
    <2>1. caller' = [caller EXCEPT ![c] = "refused"] /\ UNCHANGED locks
      BY <1>3 DEF Ask
    <2> QED  BY <1>1, <2>1, MovesOn DEF Connected, Holding, CallerSteps
  <1>4. CASE ~HeldElsewhere(i, k)
    <2>1. /\ caller' = [caller EXCEPT ![c] = "held"]
          /\ locks' = [locks EXCEPT ![k][i] = @ + 1]
      BY <1>4 DEF Ask
    <2>2. locks[k][i] = 0
      <3>1. \A d \in Callers : client[d] = k => d = c
        BY <1>2, Facts DEF LockInv, ClientsApart
      <3> QED  BY <1>1, <1>2, <3>1 DEF LockInv, LocksHaveCallers, Holding
    <2>3. locks' = [locks EXCEPT ![k] = [locks[k] EXCEPT ![i] = 1]]
      BY <1>2, <2>1, <2>2 DEF LockInv, LockTypes
    <2>4. LockTypes'
      BY <1>1, <1>2, <2>1, <2>3 DEF LockInv, LockTypes, CallerSteps
    <2>5. \A l \in Connections, j \in PublishIdentities :
              locks'[l][j] = IF l = k /\ j = i THEN 1 ELSE locks[l][j]
      BY <1>2, <2>3 DEF LockInv, LockTypes
    <2>6. \A d \in Callers : caller'[d] = IF d = c THEN "held" ELSE caller[d]
      BY <2>1 DEF LockInv, LockTypes
    <2>7. "held" \in Holding /\ "held" \in Connected /\ "ask" \in Connected
          /\ "ask" \notin Holding
      BY DEF Holding, Connected
    <2>8. ConnectedInStep' /\ TriesLeft' /\ ClientsApart'
      BY <1>1, <2>6, <2>7 DEF LockInv, ConnectedInStep, TriesLeft, ClientsApart
    <2>9. LocksHaveCallers'
      BY <1>1, <1>2, <2>5, <2>6, <2>7 DEF LockInv, LocksHaveCallers
    <2>10. CallersHaveLocks'
      <3> SUFFICES ASSUME NEW d \in Callers, caller'[d] \in Holding, alive'[client'[d]]
                   PROVE  locks'[client'[d]][Owner[d]] # 0
        BY DEF CallersHaveLocks
      <3>1. CASE d = c
        BY <1>1, <1>2, <2>5, <3>1
      <3>2. CASE d # c
        <4>1. caller[d] \in Holding /\ client[d] \in Connections /\ Owner[d] \in PublishIdentities
          BY <2>6, <3>2, Facts DEF LockInv, LockTypes, ConnectedInStep
        <4>2. locks[client[d]][Owner[d]] # 0
          BY <1>1, <4>1 DEF LockInv, CallersHaveLocks
        <4> QED  BY <1>1, <2>5, <4>1, <4>2
      <3> QED  BY <3>1, <3>2
    <2>11. LocksApart'
      <3>1. \A l \in Connections : l # k => locks[l][i] = 0
        BY <1>2, <1>4 DEF HeldElsewhere, LockInv, LockTypes
      <3> QED  BY <1>2, <2>5, <3>1 DEF LockInv, LocksApart
    <2> QED  BY <2>4, <2>8, <2>9, <2>10, <2>11 DEF LockInv
  <1> QED  BY <1>3, <1>4

(* pg_advisory_unlock: the caller leaves its section as the lock goes.     *)
LEMMA Unlocks ==
    ASSUME LockInv, NEW c \in Callers, Unlock(c)
    PROVE  LockInv'
  <1> DEFINE i == Owner[c]
             k == client[c]
  <1>1. /\ caller[c] = "unlock" /\ alive[k]
        /\ caller' = [caller EXCEPT ![c] = "unlocked"]
        /\ UNCHANGED <<client, attempts, alive, closing, drops>>
    BY DEF Unlock
  <1>2. k \in Connections /\ i \in PublishIdentities
    BY <1>1, Facts DEF LockInv, LockTypes, ConnectedInStep, Connected
  <1>3. locks[k][i] = 1
    BY <1>1, <1>2 DEF LockInv, LockTypes, CallersHaveLocks, Holding
  <1>4. locks' = [locks EXCEPT ![k] = [locks[k] EXCEPT ![i] = 0]]
    BY <1>2, <1>3 DEF Unlock, LockInv, LockTypes
  <1>5. LockTypes'
    BY <1>1, <1>2, <1>4 DEF LockInv, LockTypes, CallerSteps
  <1>6. \A l \in Connections, j \in PublishIdentities :
            locks'[l][j] = IF l = k /\ j = i THEN 0 ELSE locks[l][j]
    BY <1>2, <1>4 DEF LockInv, LockTypes
  <1>7. \A d \in Callers : caller'[d] = IF d = c THEN "unlocked" ELSE caller[d]
    BY <1>1 DEF LockInv, LockTypes
  <1>8. "unlocked" \notin Holding /\ "unlocked" \in Connected /\ "unlock" \in Connected
    BY DEF Holding, Connected
  <1>9. ConnectedInStep' /\ TriesLeft' /\ ClientsApart'
    BY <1>1, <1>7, <1>8 DEF LockInv, ConnectedInStep, TriesLeft, ClientsApart
  <1>10. LocksHaveCallers'
    <2> SUFFICES ASSUME NEW l \in Connections, NEW j \in PublishIdentities, locks'[l][j] # 0
                 PROVE  \E d \in Callers :
                            client'[d] = l /\ Owner[d] = j /\ caller'[d] \in Holding
      BY DEF LocksHaveCallers
    <2>1. ~(l = k /\ j = i) /\ locks[l][j] # 0
      BY <1>6
    <2>2. PICK d \in Callers : client[d] = l /\ Owner[d] = j /\ caller[d] \in Holding
      BY <2>1 DEF LockInv, LocksHaveCallers
    <2> QED  BY <1>1, <1>7, <2>1, <2>2
  <1>11. CallersHaveLocks'
    <2> SUFFICES ASSUME NEW d \in Callers, caller'[d] \in Holding, alive'[client'[d]]
                 PROVE  locks'[client'[d]][Owner[d]] # 0
      BY DEF CallersHaveLocks
    <2>1. d # c /\ caller[d] \in Holding
      BY <1>7, <1>8
    <2>2. client[d] \in Connections /\ client[d] # k /\ Owner[d] \in PublishIdentities
      BY <1>2, <2>1, Facts DEF LockInv, LockTypes, ConnectedInStep, ClientsApart
    <2>3. locks[client[d]][Owner[d]] # 0
      BY <1>1, <2>1 DEF LockInv, CallersHaveLocks
    <2> QED  BY <1>1, <1>6, <2>2, <2>3
  <1>12. LocksApart'
    BY <1>6 DEF LockInv, LocksApart
  <1> QED  BY <1>5, <1>9, <1>10, <1>11, <1>12 DEF LockInv

(* A session dies with its locks; its caller keeps the connection.         *)
LEMMA Dies ==
    ASSUME LockInv, NEW k \in Connections, SessionDies(k)
    PROVE  LockInv'
  <1>1. /\ drops < Drops /\ drops' = drops + 1
        /\ alive' = [alive EXCEPT ![k] = FALSE]
        /\ locks' = [locks EXCEPT ![k] = Unlocked]
        /\ UNCHANGED <<caller, client, attempts, closing>>
    BY DEF SessionDies
  <1>2. LockTypes'
    <2>1. drops' \in 0..Drops
      BY <1>1 DEF LockInv, LockTypes
    <2> QED  BY <1>1, <2>1, Facts DEF LockInv, LockTypes
  <1>3. \A l \in Connections :
            /\ locks'[l] = IF l = k THEN Unlocked ELSE locks[l]
            /\ alive'[l] = IF l = k THEN FALSE ELSE alive[l]
    BY <1>1 DEF LockInv, LockTypes
  <1>4. ConnectedInStep' /\ TriesLeft' /\ ClientsApart'
    BY <1>1 DEF LockInv, ConnectedInStep, TriesLeft, ClientsApart
  <1>5. LocksHaveCallers' /\ LocksApart'
    BY <1>1, <1>3, Facts DEF LockInv, LocksHaveCallers, LocksApart
  <1>6. CallersHaveLocks'
    <2> SUFFICES ASSUME NEW d \in Callers, caller[d] \in Holding, alive'[client[d]]
                 PROVE  locks'[client[d]][Owner[d]] # 0
      BY <1>1 DEF CallersHaveLocks
    <2>1. client[d] \in Connections
      BY Facts DEF LockInv, LockTypes, ConnectedInStep
    <2>2. client[d] # k /\ alive[client[d]] /\ locks'[client[d]] = locks[client[d]]
      BY <1>3, <2>1
    <2> QED  BY <2>2 DEF LockInv, CallersHaveLocks
  <1> QED  BY <1>2, <1>4, <1>5, <1>6 DEF LockInv

(* Every step of the callers, the sessions and the database keeps it.      *)
LEMMA LockStep ==
    ASSUME LockInv, [LockNext]_lockVars
    PROVE  LockInv'
  <1>1. ASSUME NEW c \in Callers, Call(c) PROVE LockInv'
    <2>1. "idle" \notin Connected /\ "connect" \notin Connected /\ "idle" \notin Holding
          /\ "connect" \notin Holding /\ "connect" \in CallerSteps
      BY DEF Connected, Holding, CallerSteps
    <2>2. attempts[c] < MaxAttempts
      BY <1>1 DEF Call, LockInv, TriesLeft
    <2> QED  BY <1>1, <2>1, <2>2, MovesOn DEF Call
  <1>2. ASSUME NEW c \in Callers, Connect(c) PROVE LockInv'
    BY <1>2, Connects
  <1>3. ASSUME NEW c \in Callers, CheckoutTimesOut(c) PROVE LockInv'
    BY <1>3, MovesOn DEF CheckoutTimesOut, Connected, Holding, CallerSteps
  <1>4. ASSUME NEW c \in Callers, Ask(c) PROVE LockInv'
    BY <1>4, AsksKeep
  <1>5. ASSUME NEW c \in Callers, AskFails(c) PROVE LockInv'
    BY <1>5, Destroys DEF AskFails, Connected, CallerSteps
  <1>6. ASSUME NEW c \in Callers, Publish(c) PROVE LockInv'
    BY <1>6, MovesOn DEF Publish, WhilePublishing, Connected, Holding, CallerSteps
  <1>7. ASSUME NEW c \in Callers, Wait(c) PROVE LockInv'
    BY <1>7, GivesBack DEF Wait, WhileWaiting, Connected, Holding, CallerSteps
  <1>8. ASSUME NEW c \in Callers, GiveUp(c) PROVE LockInv'
    BY <1>8, GivesBack DEF GiveUp, Connected, Holding, CallerSteps
  <1>9. ASSUME NEW c \in Callers, Wake(c) PROVE LockInv'
    <2>1. attempts[c] < MaxAttempts
      BY <1>9 DEF Wake, LockInv, TriesLeft
    <2> QED  BY <1>9, <2>1, MovesOn DEF Wake, Connected, Holding, CallerSteps
  <1>10. ASSUME NEW c \in Callers, RunEnds(c) PROVE LockInv'
    BY <1>10, MovesOn DEF RunEnds, Connected, Holding, CallerSteps
  <1>11. ASSUME NEW c \in Callers, Unlock(c) PROVE LockInv'
    BY <1>11, Unlocks
  <1>12. ASSUME NEW c \in Callers, Release(c) PROVE LockInv'
    BY <1>12, GivesBack DEF Release, Connected, Holding, CallerSteps
  <1>13. ASSUME NEW c \in Callers, UnlockFails(c) PROVE LockInv'
    BY <1>13, Destroys DEF UnlockFails, AfterFailedUnlock, Connected, CallerSteps
  <1>14. ASSUME NEW k \in Connections, SessionDies(k) PROVE LockInv'
    BY <1>14, Dies
  <1>15. CASE SessionCloses
    BY <1>15 DEF SessionCloses, LockInv, LockTypes, ConnectedInStep, TriesLeft, ClientsApart,
                LocksHaveCallers, CallersHaveLocks, LocksApart
  <1>16. CASE UNCHANGED lockVars
    BY <1>16 DEF lockVars, LockInv, LockTypes, ConnectedInStep, TriesLeft, ClientsApart,
                LocksHaveCallers, CallersHaveLocks, LocksApart
  <1> QED
    BY <1>1, <1>2, <1>3, <1>4, <1>5, <1>6, <1>7, <1>8, <1>9, <1>10, <1>11, <1>12, <1>13,
       <1>14, <1>15, <1>16 DEF LockNext, CallerStep

(***************************************************************************)
(* The lock's state has its type and every lock has its caller, for all    *)
(* callers, pools and deaths of sessions.                                  *)
(***************************************************************************)
THEOREM LockTypesHold == LockSpec => []LockTypeOK
  <1>1. LockSpec => []LockInv
    BY LockStarts, LockStep, PTL DEF LockSpec
  <1>2. LockInv => LockTypeOK
    BY DEF LockInv, LockTypes, LocksHaveCallers, LockTypeOK, Holding
  <1> QED  BY <1>1, <1>2, PTL

(***************************************************************************)
(* Two commits of one identity publish at once only if one's session died, *)
(* for all callers and pools, and whichever queries fail.                  *)
(***************************************************************************)
THEOREM OnePublicationAtATime == LockSpec => []PublishesAlone
  <1>1. LockSpec => []LockInv
    BY LockStarts, LockStep, PTL DEF LockSpec
  <1>2. LockInv => PublishesAlone
    <2> SUFFICES ASSUME LockInv, NEW c \in Callers, NEW d \in Callers,
                        c # d, Owner[c] = Owner[d], caller[c] = "run", caller[d] = "run",
                        \A e \in {c, d} : client[e] = NoConnection \/ alive[client[e]]
                 PROVE  FALSE
      BY DEF PublishesAlone
    <2>1. client[c] \in Connections /\ client[d] \in Connections
      BY DEF LockInv, LockTypes, ConnectedInStep, Connected
    <2>2. locks[client[c]][Owner[c]] # 0 /\ locks[client[d]][Owner[c]] # 0
      BY <2>1, Facts DEF LockInv, CallersHaveLocks, Holding
    <2>3. client[c] = client[d]
      BY <2>1, <2>2, Facts DEF LockInv, LocksApart
    <2> QED  BY <2>1, <2>3, Facts DEF LockInv, ClientsApart
  <1> QED  BY <1>1, <1>2, PTL

(***************************************************************************)
(* A pool all of whose connections are in publications has one of its      *)
(* callers in each: they are as many as its connections.                   *)
(***************************************************************************)
LEMMA PublishersFillThePool ==
    ASSUME LockInv, CheckedOut = Connections,
           \A d \in Callers : client[d] # NoConnection => caller[d] \in Lasting
    PROVE  Cardinality({d \in Callers : caller[d] = "run"}) >= PoolSize
  <1> PICK publishing : publishing = {d \in Callers : caller[d] = "run"}
    OBVIOUS
  <1> PICK connection : connection = [d \in publishing |-> client[d]]
    OBVIOUS
  <1>1. IsFiniteSet(Connections) /\ Cardinality(Connections) = PoolSize
    <2>1. 1 \in Int /\ PoolSize \in Int /\ ~(1 > PoolSize) /\ PoolSize - 1 + 1 = PoolSize
      BY PoolSizeAssumption
    <2>2. /\ IsFiniteSet(1 .. PoolSize)
          /\ Cardinality(1 .. PoolSize) = IF 1 > PoolSize THEN 0 ELSE PoolSize - 1 + 1
      BY <2>1, FS_Interval
    <2> QED  BY <2>1, <2>2 DEF Connections
  <1>2. \A d \in publishing : client[d] \in Connections
    BY DEF LockInv, LockTypes, ConnectedInStep, Connected
  <1>3. \A d, e \in publishing : client[d] = client[e] => d = e
    BY <1>2, Facts DEF LockInv, ClientsApart
  <1>4. connection \in [publishing -> Connections] /\ \A d, e \in publishing : connection[d] = connection[e] => d = e
    BY <1>2, <1>3
  <1>5. \A k \in Connections : \E d \in publishing : client[d] = k
    <2> SUFFICES ASSUME NEW k \in Connections PROVE \E d \in publishing : client[d] = k
      OBVIOUS
    <2>1. PICK d \in Callers : client[d] = k /\ client[d] # NoConnection
      BY DEF CheckedOut
    <2>2. caller[d] \in Lasting /\ caller[d] \in Connected
      BY <2>1 DEF LockInv, ConnectedInStep
    <2>3. caller[d] = "run"
      BY <2>2 DEF Lasting, Connected
    <2> QED  BY <2>1, <2>3
  <1>6. connection \in Injection(publishing, Connections)
    BY <1>4 DEF Injection, IsInjective
  <1>7. connection \in Surjection(publishing, Connections)
    BY <1>4, <1>5 DEF Surjection
  <1>8. IsFiniteSet(publishing) /\ Cardinality(publishing) \in Nat
    BY <1>1, <1>6, FS_Injection, FS_CardinalityType
  <1>9. PoolSize <= Cardinality(publishing)
    BY <1>1, <1>7, <1>8, FS_Surjection
  <1> QED  BY <1>8, <1>9

(***************************************************************************)
(* Callers that wait for an identity cost the others no connection: who is *)
(* refused one finds as many publications as the pool has connections.     *)
(***************************************************************************)
THEOREM WaitersLeaveThePool == LockSpec => RefusedOnlyBehindPublications
  <1>1. ASSUME LockInv, LockNext, NEW c \in Callers, caller[c] = "connect", caller'[c] = "busy"
        PROVE  Cardinality({d \in Callers : caller[d] = "run"}) >= PoolSize
    <2>1. CheckoutTimesOut(c)
      <3>1. caller \in [Callers -> CallerSteps]
        BY <1>1 DEF LockInv, LockTypes
      <3> QED
        BY ZenonT(60), <1>1, <3>1
           DEF LockNext, CallerStep, Call, Connect, Ask, AskFails, Publish, Wait, GiveUp, Wake,
               Unlock, Release, UnlockFails, RunEnds, SessionDies, SessionCloses, CheckoutTimesOut
    <2> QED  BY <1>1, <2>1, PublishersFillThePool DEF CheckoutTimesOut
  <1>2. LockInv /\ [LockNext]_lockVars
        => [\A c \in Callers :
               caller[c] = "connect" /\ caller'[c] = "busy"
                   => Cardinality({d \in Callers : caller[d] = "run"}) >= PoolSize]_lockVars
    BY <1>1
  <1>3. LockSpec => []LockInv
    BY LockStarts, LockStep, PTL DEF LockSpec
  <1> QED  BY <1>2, <1>3, PTL DEF LockSpec, RefusedOnlyBehindPublications

------------------------------------------------------------------------------
(***************************************************************************)
(* Proofs, for every set of files, lock ids and requests, whatever they    *)
(* ask and however they fail, that the lease of an Office lock stays in    *)
(* the table until it ends and that a save keeps the lock it was checked   *)
(* against.                                                                *)
(*                                                                         *)
(* The table is right because a request decides on what it has read: it    *)
(* holds the lock of its file from before it reads the row to its end, and *)
(* the rows others remove meanwhile are over.                              *)
(***************************************************************************)
USE WopiNumbersAssumption, WopiRequestsAssumption

(* The type of one request.                                                *)
WopiRequestType == [step : WopiSteps, now : 0..LastTick, seen : LockRowType, asks : WopiInputs]

(* Where a request is tells what it asks for and which file lock it holds. *)
HoldsItsFile(r) ==
    /\ Is(r, "gate") \/ Is(r, "upload") => Asks(r).kind \in {"put", "copy"}
    /\ Is(r, "target") \/ Is(r, "check") => Asks(r).kind = "copy"
    /\ Is(r, "write") => Asks(r).kind \in LockKinds
    /\ Is(r, "prune") \/ Is(r, "write") => fileLocks[Asks(r).file] = r
    /\ Is(r, "check") => fileLocks[Asks(r).target] = r
    /\ Is(r, "upload") => fileLocks[SavedFile(r)] = r

(* A row whose time is over grants nothing any more.                       *)
Ended(entry) == entry.until <= tick

(* A row that was deleted and not committed is over for good.              *)
PrunedAreOver == \A r \in WopiRequests : \A f \in pruned[r] : Ended(rows[f])

(* What a lock request decides on is the row, or it and the row are over.  *)
SeenIsRow ==
    \A r \in WopiRequests : Is(r, "write") =>
        \/ request[r].seen = rows[Asks(r).file]
        \/ Ended(request[r].seen) /\ Ended(rows[Asks(r).file])

(* The inductive invariant.                                                *)
WopiInv ==
    /\ WopiTypeOK
    /\ \A r \in WopiRequests : HoldsItsFile(r) /\ request[r].now <= tick
    /\ PrunedAreOver
    /\ SeenIsRow
    /\ LeasesAreKept

(* The expiry of a row is a number, also of the row that is missing.       *)
LEMMA RowTypes ==
    /\ NoRow \in LockRowType /\ NoRow.until = 0
    /\ \A entry \in LockRowType : entry.until \in Nat
  BY DEF NoRow, LockRowType

(* The parts of the state and of each request, read off the type           *)
(* invariant.                                                              *)
LEMMA WopiNumbers ==
    ASSUME WopiTypeOK
    PROVE  /\ tick \in Nat /\ LockTTL \in Nat
           /\ \A f \in OfficeFiles : rows[f] \in LockRowType /\ rows[f].until \in Nat
           /\ \A f \in OfficeFiles : \A x \in LockIds : believed[f][x] \in Nat
           /\ \A r \in WopiRequests :
                  /\ request[r] \in WopiRequestType /\ request[r].now \in Nat
                  /\ request[r].seen \in LockRowType /\ request[r].seen.until \in Nat
                  /\ Asks(r).file \in OfficeFiles /\ Asks(r).target \in OfficeFiles
                  /\ Asks(r).id \in LockIds /\ Asks(r).old \in LockIds
                  /\ SavedFile(r) \in OfficeFiles
  BY RowTypes DEF WopiTypeOK, WopiRequestType, WopiInputs, Asks, SavedFile

(* Request r goes to step s, with the clock n and the row z it has read.   *)
RequestMoved(r, s, n, z) ==
    /\ request' \in [WopiRequests -> WopiRequestType]
    /\ \A q \in WopiRequests : q # r => request'[q] = request[q]
    /\ request'[r].step = s /\ request'[r].now = n /\ request'[r].seen = z
    /\ request'[r].asks = request[r].asks

(* The three updates of a request in the actions.                          *)
WithStep(x, s) == [x EXCEPT !.step = s]

WithClock(x, s, n) == [x EXCEPT !.step = s, !.now = n]

WithRow(x, s, z) == [x EXCEPT !.step = s, !.seen = z]

(* What they do to the fields of one request.                              *)
LEMMA RecordMoves ==
    ASSUME NEW x \in WopiRequestType, NEW s \in WopiSteps, NEW n \in 0..LastTick, NEW z \in LockRowType
    PROVE  /\ WithStep(x, s) \in WopiRequestType /\ WithStep(x, s).step = s
           /\ WithStep(x, s).now = x.now /\ WithStep(x, s).seen = x.seen
           /\ WithStep(x, s).asks = x.asks
           /\ WithClock(x, s, n) \in WopiRequestType /\ WithClock(x, s, n).step = s
           /\ WithClock(x, s, n).now = n /\ WithClock(x, s, n).seen = x.seen
           /\ WithClock(x, s, n).asks = x.asks
           /\ WithRow(x, s, z) \in WopiRequestType /\ WithRow(x, s, z).step = s
           /\ WithRow(x, s, z).now = x.now /\ WithRow(x, s, z).seen = z
           /\ WithRow(x, s, z).asks = x.asks
  <1> DEFINE u == [x EXCEPT !.step = s]
             v == [x EXCEPT !.step = s, !.now = n]
             w == [x EXCEPT !.step = s, !.seen = z]
  <1>1. /\ u \in WopiRequestType /\ u.step = s
        /\ u.now = x.now /\ u.seen = x.seen /\ u.asks = x.asks
    BY DEF WopiRequestType
  <1>2. v = [u EXCEPT !.now = n] /\ w = [u EXCEPT !.seen = z]
    OBVIOUS
  <1> HIDE DEF u, v, w
  <1>3. /\ v \in WopiRequestType /\ v.step = s
        /\ v.now = n /\ v.seen = x.seen /\ v.asks = x.asks
    BY <1>1, <1>2 DEF WopiRequestType
  <1>4. /\ w \in WopiRequestType /\ w.step = s
        /\ w.now = x.now /\ w.seen = z /\ w.asks = x.asks
    BY <1>1, <1>2 DEF WopiRequestType
  <1>5. WithStep(x, s) = u /\ WithClock(x, s, n) = v /\ WithRow(x, s, z) = w
    BY DEF u, v, w, WithStep, WithClock, WithRow
  <1> QED  BY <1>1, <1>3, <1>4, <1>5

(* What the actions do to all requests.                                    *)
LEMMA RequestMoves ==
    ASSUME WopiTypeOK, NEW r \in WopiRequests, NEW s \in WopiSteps,
           NEW n \in 0..LastTick, NEW z \in LockRowType
    PROVE  /\ request' = Goto(r, s) => RequestMoved(r, s, request[r].now, request[r].seen)
           /\ request' = [request EXCEPT ![r].step = s, ![r].now = n] => RequestMoved(r, s, n, request[r].seen)
           /\ request' = [request EXCEPT ![r].step = s, ![r].seen = z]
                  => RequestMoved(r, s, request[r].now, z)
  <1> DEFINE x == request[r]
  <1>1. x \in WopiRequestType /\ request \in [WopiRequests -> WopiRequestType]
    BY DEF WopiTypeOK, WopiRequestType
  <1>2. /\ Goto(r, s) = [request EXCEPT ![r] = WithStep(x, s)]
        /\ [request EXCEPT ![r].step = s, ![r].now = n]
               = [request EXCEPT ![r] = WithClock(x, s, n)]
        /\ [request EXCEPT ![r].step = s, ![r].seen = z]
               = [request EXCEPT ![r] = WithRow(x, s, z)]
    BY DEF Goto, WithStep, WithClock, WithRow
  <1> HIDE DEF x
  <1>3. ASSUME NEW y \in WopiRequestType, request' = [request EXCEPT ![r] = y], y.asks = x.asks
        PROVE  RequestMoved(r, y.step, y.now, y.seen)
    <2>1. request' \in [WopiRequests -> WopiRequestType] /\ request'[r] = y
      BY <1>1, <1>3
    <2>2. \A q \in WopiRequests : q # r => request'[q] = request[q]
      BY <1>1, <1>3
    <2> QED  BY <1>3, <2>1, <2>2 DEF RequestMoved, x
  <1>4. request' = [request EXCEPT ![r] = WithStep(x, s)] => RequestMoved(r, s, x.now, x.seen)
    <2>1. WithStep(x, s) \in WopiRequestType /\ WithStep(x, s).asks = x.asks
      BY <1>1, RecordMoves
    <2>2. /\ WithStep(x, s).step = s
          /\ WithStep(x, s).now = x.now /\ WithStep(x, s).seen = x.seen
      BY <1>1, RecordMoves
    <2> QED  BY <1>3, <2>1, <2>2
  <1>5. request' = [request EXCEPT ![r] = WithClock(x, s, n)] => RequestMoved(r, s, n, x.seen)
    <2>1. WithClock(x, s, n) \in WopiRequestType /\ WithClock(x, s, n).asks = x.asks
      BY <1>1, RecordMoves
    <2>2. /\ WithClock(x, s, n).step = s
          /\ WithClock(x, s, n).now = n /\ WithClock(x, s, n).seen = x.seen
      BY <1>1, RecordMoves
    <2> QED  BY <1>3, <2>1, <2>2
  <1>6. request' = [request EXCEPT ![r] = WithRow(x, s, z)] => RequestMoved(r, s, x.now, z)
    <2>1. WithRow(x, s, z) \in WopiRequestType /\ WithRow(x, s, z).asks = x.asks
      BY <1>1, RecordMoves
    <2>2. /\ WithRow(x, s, z).step = s
          /\ WithRow(x, s, z).now = x.now /\ WithRow(x, s, z).seen = z
      BY <1>1, RecordMoves
    <2> QED  BY <1>3, <2>1, <2>2
  <1> QED  BY <1>2, <1>4, <1>5, <1>6 DEF x

(* The requests that do not move keep what they hold.                      *)
LEMMA BystandersHold ==
    ASSUME WopiInv, NEW r \in WopiRequests, NEW s, NEW n, NEW z, RequestMoved(r, s, n, z),
           NEW q \in WopiRequests, q # r,
           \A f \in OfficeFiles : fileLocks[f] = q => fileLocks'[f] = q
    PROVE  HoldsItsFile(q)'
  <1>1. HoldsItsFile(q) /\ request'[q] = request[q]
    BY DEF WopiInv, RequestMoved
  <1>2. Asks(q).file \in OfficeFiles /\ Asks(q).target \in OfficeFiles /\ SavedFile(q) \in OfficeFiles
    BY WopiNumbers DEF WopiInv
  <1> QED  BY <1>1, <1>2 DEF HoldsItsFile, Is, Asks, SavedFile

(***************************************************************************)
(* The end of a transaction.  It may have written the row of its file,     *)
(* which nobody else has pruned, and removed rows that are over.           *)
(***************************************************************************)
RowsKept(r) ==
    \A f \in OfficeFiles :
        \/ rows'[f] = rows[f]
        \/ Ended(rows[f]) /\ rows'[f] = NoRow
        \/ Is(r, "write") /\ f = Asks(r).file /\ RowLockers(r, f) = {}

(* Such a step keeps the invariant.                                        *)
LEMMA EndKeeps ==
    ASSUME WopiInv, NEW r \in WopiRequests, NEW s \in {"ok", "conflict", "error"},
           InTransit(r), request' = Goto(r, s), LocksEnd(r), tick' = tick, aborts' \in 0..Aborts,
           rows' \in [OfficeFiles -> LockRowType], believed' \in [OfficeFiles -> [LockIds -> Nat]],
           RowsKept(r), LeasesAreKept'
    PROVE  WopiInv'
  <1>1. WopiTypeOK /\ RequestMoved(r, s, request[r].now, request[r].seen)
    <2>1. s \in WopiSteps /\ request[r].seen \in LockRowType /\ request[r].now \in 0..LastTick
      BY WopiNumbers DEF WopiInv, WopiSteps, WopiTypeOK
    <2> QED  BY <2>1, RequestMoves DEF WopiInv
  <1>2. /\ gate' = IF gate = r THEN NobodyLocks ELSE gate
        /\ fileLocks' = [f \in OfficeFiles |-> IF fileLocks[f] = r THEN NobodyLocks ELSE fileLocks[f]]
        /\ pruned' = [pruned EXCEPT ![r] = {}]
    BY DEF LocksEnd
  <1>3. pruned'[r] = {} /\ \A q \in WopiRequests : q # r => pruned'[q] = pruned[q]
    BY <1>1, <1>2 DEF WopiTypeOK
  <1>4. WopiTypeOK'
    <2>1. ASSUME NEW q \in WopiRequests,
                 q \in {gate'} \union {fileLocks'[f] : f \in OfficeFiles} \/ pruned'[q] # {}
          PROVE  InTransit(q)'
      <3>1. q # r
        BY <1>2, <1>3, <2>1
      <3>2. q \in {gate} \union {fileLocks[f] : f \in OfficeFiles} \/ pruned[q] # {}
        BY <1>2, <1>3, <2>1, <3>1
      <3>3. InTransit(q)
        BY <1>1, <3>2 DEF WopiTypeOK
      <3> QED  BY <1>1, <3>1, <3>3 DEF InTransit, Is, RequestMoved
    <2>2. /\ gate' \in WopiRequests \union {NobodyLocks}
          /\ fileLocks' \in [OfficeFiles -> WopiRequests \union {NobodyLocks}]
          /\ pruned' \in [WopiRequests -> SUBSET OfficeFiles]
      BY <1>1, <1>2 DEF WopiTypeOK
    <2>3. request' \in [WopiRequests -> WopiRequestType] /\ tick' \in 0..LastTick
      BY <1>1 DEF WopiTypeOK, RequestMoved
    <2> QED  BY <2>1, <2>2, <2>3 DEF WopiTypeOK, WopiRequestType
  <1>5. ASSUME NEW q \in WopiRequests PROVE HoldsItsFile(q)' /\ request'[q].now <= tick'
    <2>1. CASE q = r
      BY <1>1, <2>1 DEF HoldsItsFile, Is, RequestMoved, WopiInv
    <2>2. CASE q # r
      <3>1. HoldsItsFile(q)'
        BY <1>1, <1>2, <2>2, BystandersHold
      <3> QED  BY <1>1, <2>2, <3>1 DEF RequestMoved, WopiInv
    <2> QED  BY <2>1, <2>2
  <1>6. PrunedAreOver'
    <2> SUFFICES ASSUME NEW q \in WopiRequests, NEW f \in pruned'[q] PROVE rows'[f].until <= tick
      BY DEF PrunedAreOver, Ended
    <2>1. q # r /\ f \in pruned[q] /\ f \in OfficeFiles
      BY <1>1, <1>3 DEF WopiTypeOK
    <2>2. rows[f].until <= tick
      BY <2>1 DEF WopiInv, PrunedAreOver, Ended
    <2>3. RowLockers(r, f) # {}
      BY <2>1 DEF RowLockers
    <2> QED  BY <1>1, <2>1, <2>2, <2>3, WopiNumbers, RowTypes DEF RowsKept
  <1>7. SeenIsRow'
    <2> SUFFICES ASSUME NEW q \in WopiRequests, request'[q].step = "write"
                 PROVE  \/ request'[q].seen = rows'[request'[q].asks.file]
                        \/ request'[q].seen.until <= tick /\ rows'[request'[q].asks.file].until <= tick
      BY DEF SeenIsRow, Is, Asks, Ended
    <2>1. q # r /\ request'[q] = request[q] /\ Is(q, "write")
      BY <1>1 DEF RequestMoved, Is
    <2> DEFINE f == Asks(q).file
    <2>2. f \in OfficeFiles /\ fileLocks[f] = q
      BY <1>1, <2>1, WopiNumbers DEF WopiInv, HoldsItsFile
    <2>3. ~(Is(r, "write") /\ f = Asks(r).file)
      BY <2>1, <2>2 DEF WopiInv, HoldsItsFile
    <2>4. request[q].seen = rows[f] \/ (request[q].seen.until <= tick /\ rows[f].until <= tick)
      BY <2>1 DEF WopiInv, SeenIsRow, Ended
    <2>5. rows'[f] = rows[f] \/ (rows[f].until <= tick /\ rows'[f] = NoRow)
      BY <2>2, <2>3 DEF RowsKept, Ended
    <2>6. request'[q].asks.file = f
      BY <2>1 DEF Asks
    <2> HIDE DEF f
    <2> QED  BY <1>1, <2>1, <2>4, <2>5, <2>6, WopiNumbers, RowTypes
  <1> QED  BY <1>4, <1>5, <1>6, <1>7 DEF WopiInv

(* Removing rows that are over takes no lease away.                        *)
LEMMA PruningKeepsLeases ==
    ASSUME WopiInv, tick' = tick, believed' = believed,
           \A f \in OfficeFiles : rows'[f] = rows[f] \/ (Ended(rows[f]) /\ rows'[f] = NoRow)
    PROVE  LeasesAreKept'
  <1> SUFFICES ASSUME NEW f \in OfficeFiles, NEW x \in LockIds, believed[f][x] > tick
               PROVE  rows'[f] = [id |-> x, until |-> believed[f][x]]
    BY DEF LeasesAreKept
  <1>1. rows[f] = [id |-> x, until |-> believed[f][x]]
    BY DEF WopiInv, LeasesAreKept
  <1>2. believed[f][x] \in Nat /\ tick \in Nat
    BY WopiNumbers DEF WopiInv
  <1>3. ~Ended(rows[f])
    BY <1>1, <1>2 DEF Ended
  <1> QED  BY <1>1, <1>3

(* A refused save, a deadlock and a failure roll the transaction back.     *)
LEMMA RollbackKeeps ==
    ASSUME WopiInv, NEW r \in WopiRequests, CheckRefuses(r) \/ DeadlockVictim(r) \/ Abort(r)
    PROVE  WopiInv'
  <1>1. /\ request' = Goto(r, "conflict") \/ request' = Goto(r, "error")
        /\ LocksEnd(r) /\ UNCHANGED <<rows, believed, tick>>
        /\ aborts' \in 0..Aborts
    BY DEF CheckRefuses, DeadlockVictim, Abort, Fails, WopiInv, WopiTypeOK
  <1>2. InTransit(r)
    BY DEF CheckRefuses, DeadlockVictim, Abort, InTransit, Is
  <1>3. rows' \in [OfficeFiles -> LockRowType] /\ believed' \in [OfficeFiles -> [LockIds -> Nat]]
    BY <1>1 DEF WopiInv, WopiTypeOK
  <1>4. RowsKept(r) /\ LeasesAreKept'
    BY <1>1, PruningKeepsLeases DEF RowsKept
  <1> QED  BY <1>1, <1>2, <1>3, <1>4, EndKeeps

(* A refused lock request and a save that ends commit only their pruning.  *)
LEMMA CommitKeeps ==
    ASSUME WopiInv, NEW r \in WopiRequests, RefuseLock(r) \/ SaveEnds(r)
    PROVE  WopiInv'
  <1>1. /\ request' = Goto(r, "conflict") \/ request' = Goto(r, "ok")
        /\ LocksEnd(r) /\ UNCHANGED <<believed, tick, aborts>>
        /\ rows' = RowsWithoutPruned(r)
    BY DEF RefuseLock, SaveEnds
  <1>2. InTransit(r)
    BY DEF RefuseLock, SaveEnds, InTransit, Is
  <1>3. /\ rows' \in [OfficeFiles -> LockRowType] /\ believed' \in [OfficeFiles -> [LockIds -> Nat]]
        /\ aborts' \in 0..Aborts
    BY <1>1, RowTypes DEF WopiInv, WopiTypeOK, RowsWithoutPruned
  <1>4. \A f \in OfficeFiles : rows'[f] = rows[f] \/ (Ended(rows[f]) /\ rows'[f] = NoRow)
    BY <1>1 DEF WopiInv, PrunedAreOver, RowsWithoutPruned
  <1>5. RowsKept(r) /\ LeasesAreKept'
    BY <1>1, <1>4, PruningKeepsLeases DEF RowsKept
  <1> QED  BY <1>1, <1>2, <1>3, <1>5, EndKeeps

(***************************************************************************)
(* The lock row is written: whoever else believed in a lease of the file   *)
(* lost it, for the row that was read is the live one or none is.          *)
(***************************************************************************)
LEMMA GrantKeepsLeases ==
    ASSUME WopiInv, NEW r \in WopiRequests, WriteLock(r)
    PROVE  LeasesAreKept'
  <1> DEFINE a == Asks(r)
             entry == request[r].seen
  <1>1. /\ tick \in Nat /\ request[r].now \in Nat /\ request[r].now <= tick /\ tick' = tick
        /\ entry.until \in Nat /\ a.file \in OfficeFiles /\ a.id \in LockIds /\ a.old \in LockIds
        /\ \A f \in OfficeFiles : \A x \in LockIds : believed[f][x] \in Nat
        /\ \A f \in OfficeFiles : rows[f].until \in Nat
    BY WopiNumbers DEF WopiInv, WriteLock
  <1>2. entry = rows[a.file] \/ (entry.until <= tick /\ rows[a.file].until <= tick)
    BY DEF WriteLock, WopiInv, SeenIsRow, Ended
  <1>3. a.kind \in LockKinds
    BY DEF WriteLock, WopiInv, HoldsItsFile
  <1>4. \A f \in OfficeFiles, x \in LockIds :
            believed[f][x] > tick => rows[f] = [id |-> x, until |-> believed[f][x]]
    BY DEF WopiInv, LeasesAreKept
  <1>5. /\ rows \in [OfficeFiles -> LockRowType]
        /\ believed \in [OfficeFiles -> [LockIds -> Nat]]
    BY DEF WopiInv, WopiTypeOK
  <1>6. ASSUME NEW x \in LockIds, x # a.id, ~(a.kind = "relock" /\ x = a.old)
        PROVE  believed[a.file][x] <= tick
    <2> SUFFICES ASSUME believed[a.file][x] > tick PROVE FALSE
      BY <1>1
    <2>1. rows[a.file] = [id |-> x, until |-> believed[a.file][x]]
      BY <1>1, <1>4
    <2>2. rows[a.file].until > tick /\ rows[a.file].id = x
      BY <2>1
    <2>3. entry = rows[a.file]
      BY <1>1, <1>2, <2>2
    <2>4. entry # NoRow
      BY <1>1, <2>2, <2>3, RowTypes
    <2>5. LiveAt(entry, request[r].now)
      BY <1>1, <2>2, <2>3, <2>4 DEF LiveAt
    <2>6. entry.id = IF a.kind = "relock" THEN a.old ELSE a.id
      BY <2>5 DEF WriteLock, Matched
    <2> QED  BY <1>6, <2>2, <2>3, <2>6
  <1>7. ASSUME NEW f \in OfficeFiles, f # a.file
        PROVE  /\ believed'[f] = believed[f]
               /\ rows'[f] = rows[f] \/ rows[f].until <= tick
    <2>1. believed'[f] = believed[f]
      BY <1>5, <1>7 DEF WriteLock, Granted
    <2>2. rows'[f] = IF f \in pruned[r] THEN NoRow ELSE rows[f]
      BY <1>7 DEF WriteLock, Granted, RowsWithoutPruned
    <2>3. f \in pruned[r] => rows[f].until <= tick
      BY DEF WopiInv, PrunedAreOver, Ended
    <2> QED  BY <2>1, <2>2, <2>3
  <1>8. CASE a.kind = "unlock"
    <2>1. believed'[a.file] = [believed[a.file] EXCEPT ![a.id] = 0]
      BY <1>1, <1>5, <1>8 DEF WriteLock, Granted
    <2>2. \A x \in LockIds : believed'[a.file][x] = IF x = a.id THEN 0 ELSE believed[a.file][x]
      BY <1>1, <1>5, <2>1
    <2>3. \A x \in LockIds : believed'[a.file][x] <= tick
      BY <1>1, <1>6, <1>8, <2>2
    <2> HIDE DEF a
    <2> SUFFICES ASSUME NEW f \in OfficeFiles, NEW x \in LockIds, believed'[f][x] > tick
                 PROVE  rows'[f] = [id |-> x, until |-> believed'[f][x]]
      BY <1>1 DEF LeasesAreKept
    <2>4. f # a.file
      BY <1>1, <2>2, <2>3
    <2>5. believed[f][x] > tick /\ believed'[f] = believed[f]
      BY <1>7, <2>4
    <2>6. rows[f] = [id |-> x, until |-> believed[f][x]]
      BY <1>4, <2>5
    <2> QED  BY <1>1, <1>7, <2>4, <2>5, <2>6
  <1>9. CASE a.kind # "unlock"
    <2> DEFINE until == request[r].now + LockTTL
    <2>1. /\ rows'[a.file] = [id |-> a.id, until |-> until]
          /\ believed'[a.file] = [x \in LockIds |-> IF x = a.id THEN until
                                   ELSE IF a.kind = "relock" /\ x = a.old THEN 0
                                   ELSE believed[a.file][x]]
      BY <1>1, <1>5, <1>9 DEF WriteLock, Granted, RowsWithoutPruned
    <2>2. \A x \in LockIds : x # a.id => believed'[a.file][x] <= tick
      BY <1>1, <1>6, <2>1
    <2>3. believed'[a.file][a.id] = until
      BY <1>1, <2>1
    <2> HIDE DEF a, until
    <2> SUFFICES ASSUME NEW f \in OfficeFiles, NEW x \in LockIds, believed'[f][x] > tick
                 PROVE  rows'[f] = [id |-> x, until |-> believed'[f][x]]
      BY <1>1 DEF LeasesAreKept
    <2>4. CASE f = a.file /\ x = a.id
      BY <2>1, <2>3, <2>4
    <2>5. CASE f = a.file /\ x # a.id
      <3>1. believed'[f][x] \in Nat
        BY <1>1, <2>1, <2>5
      <3> QED  BY <1>1, <2>2, <2>5, <3>1
    <2>6. CASE f # a.file
      <3>1. believed[f][x] > tick /\ believed'[f] = believed[f]
        BY <1>7, <2>6
      <3>2. rows[f] = [id |-> x, until |-> believed[f][x]]
        BY <1>4, <3>1
      <3> QED  BY <1>1, <1>7, <2>6, <3>1, <3>2
    <2> QED  BY <2>4, <2>5, <2>6
  <1> QED  BY <1>8, <1>9

(* A granted lock request keeps the invariant.                             *)
LEMMA GrantKeeps ==
    ASSUME WopiInv, NEW r \in WopiRequests, WriteLock(r)
    PROVE  WopiInv'
  <1> DEFINE a == Asks(r)
             until == request[r].now + LockTTL
  <1>1. /\ request' = Goto(r, "ok") /\ LocksEnd(r) /\ UNCHANGED <<tick, aborts>>
        /\ Is(r, "write") /\ InTransit(r) /\ RowLockers(r, a.file) = {}
    BY DEF WriteLock, InTransit, Is
  <1>2. /\ a.file \in OfficeFiles /\ a.id \in LockIds /\ until \in Nat
        /\ rows \in [OfficeFiles -> LockRowType]
        /\ believed \in [OfficeFiles -> [LockIds -> Nat]]
    BY WopiNumbers DEF WopiInv, WopiTypeOK
  <1>3. [id |-> a.id, until |-> until] \in LockRowType
    BY <1>2 DEF LockRowType
  <1>4. RowsWithoutPruned(r) \in [OfficeFiles -> LockRowType]
    BY <1>2, RowTypes DEF RowsWithoutPruned
  <1>5. rows' \in [OfficeFiles -> LockRowType] /\ believed' \in [OfficeFiles -> [LockIds -> Nat]]
    <2>1. CASE a.kind = "unlock"
      <3>1. rows' = [RowsWithoutPruned(r) EXCEPT ![a.file] = NoRow]
        BY <2>1 DEF WriteLock, Granted
      <3>2. believed' = [believed EXCEPT ![a.file] = [believed[a.file] EXCEPT ![a.id] = 0]]
        BY <2>1 DEF WriteLock, Granted
      <3>3. [believed[a.file] EXCEPT ![a.id] = 0] \in [LockIds -> Nat]
        BY <1>2
      <3> HIDE DEF a
      <3> QED  BY <1>2, <1>4, <3>1, <3>2, <3>3, RowTypes
    <2>2. CASE a.kind # "unlock"
      <3>1. rows' = [RowsWithoutPruned(r) EXCEPT ![a.file] = [id |-> a.id, until |-> until]]
        BY <2>2 DEF WriteLock, Granted
      <3>2. believed' = [believed EXCEPT ![a.file] =
                [x \in LockIds |-> IF x = a.id THEN until
                                   ELSE IF a.kind = "relock" /\ x = a.old THEN 0
                                   ELSE believed[a.file][x]]]
        BY <1>2, <2>2 DEF WriteLock, Granted
      <3> HIDE DEF a, until
      <3> QED  BY <1>2, <1>3, <1>4, <3>1, <3>2
    <2> QED  BY <2>1, <2>2
  <1>6. RowsKept(r)
    <2> SUFFICES ASSUME NEW f \in OfficeFiles, f # a.file
                 PROVE  rows'[f] = rows[f] \/ (Ended(rows[f]) /\ rows'[f] = NoRow)
      BY <1>1 DEF RowsKept
    <2>1. rows'[f] = IF f \in pruned[r] THEN NoRow ELSE rows[f]
      BY DEF WriteLock, Granted, RowsWithoutPruned
    <2> QED  BY <2>1 DEF WopiInv, PrunedAreOver
  <1>7. LeasesAreKept'
    BY GrantKeepsLeases
  <1>8. aborts' \in 0..Aborts
    BY <1>1 DEF WopiInv, WopiTypeOK
  <1> QED  BY <1>1, <1>5, <1>6, <1>7, <1>8, EndKeeps

(***************************************************************************)
(* A step within a transaction: it may take the gate, a file lock that is  *)
(* free, and prune rows that are over.                                     *)
(***************************************************************************)
LEMMA GoesOnKeeps ==
    ASSUME WopiInv, NEW r \in WopiRequests, NEW s \in WopiSteps \ {"new", "ok", "conflict", "error"},
           NEW n \in 0..LastTick, n <= tick, NEW z \in LockRowType, RequestMoved(r, s, n, z),
           gate' \in {gate, r},
           \/ fileLocks' = fileLocks
           \/ \E f \in OfficeFiles : FileLockFree(r, f) /\ fileLocks' = [fileLocks EXCEPT ![f] = r],
           pruned' \in [WopiRequests -> SUBSET OfficeFiles],
           \A q \in WopiRequests : q # r => pruned'[q] = pruned[q],
           \A f \in pruned'[r] : Ended(rows[f]),
           UNCHANGED <<rows, believed, tick, aborts>>,
           HoldsItsFile(r)',
           s = "write" => \/ z = rows[Asks(r).file]
                          \/ Ended(z) /\ Ended(rows[Asks(r).file])
    PROVE  WopiInv'
  <1>1. WopiTypeOK
    BY DEF WopiInv
  <1>2. /\ fileLocks' \in [OfficeFiles -> WopiRequests \union {NobodyLocks}]
        /\ \A q \in WopiRequests : q # r => \A f \in OfficeFiles : fileLocks[f] = q <=> fileLocks'[f] = q
    BY <1>1 DEF WopiTypeOK, FileLockFree
  <1>3. WopiTypeOK'
    <2>1. ASSUME NEW q \in WopiRequests,
                 q \in {gate'} \union {fileLocks'[f] : f \in OfficeFiles} \/ pruned'[q] # {}
          PROVE  InTransit(q)'
      <3>1. CASE q = r
        BY <3>1 DEF InTransit, Is, RequestMoved
      <3>2. CASE q # r
        <4>1. q \in {gate} \union {fileLocks[f] : f \in OfficeFiles} \/ pruned[q] # {}
          BY <1>2, <2>1, <3>2
        <4>2. InTransit(q)
          BY <1>1, <4>1 DEF WopiTypeOK
        <4> QED  BY <3>2, <4>2 DEF InTransit, Is, RequestMoved
      <3> QED  BY <3>1, <3>2
    <2>2. request' \in [WopiRequests -> WopiRequestType]
      BY DEF RequestMoved
    <2>3. gate' \in WopiRequests \union {NobodyLocks}
      BY <1>1 DEF WopiTypeOK
    <2> QED  BY <1>1, <1>2, <2>1, <2>2, <2>3 DEF WopiTypeOK, WopiRequestType
  <1>4. ASSUME NEW q \in WopiRequests PROVE HoldsItsFile(q)' /\ request'[q].now <= tick'
    <2>1. CASE q = r
      BY <2>1 DEF RequestMoved
    <2>2. CASE q # r
      <3>1. HoldsItsFile(q)'
        BY <1>2, <2>2, BystandersHold
      <3> QED  BY <2>2, <3>1 DEF RequestMoved, WopiInv
    <2> QED  BY <2>1, <2>2
  <1>5. PrunedAreOver'
    <2> SUFFICES ASSUME NEW q \in WopiRequests, NEW f \in pruned'[q] PROVE Ended(rows[f])
      BY DEF PrunedAreOver, Ended
    <2> QED  BY DEF WopiInv, PrunedAreOver
  <1>6. SeenIsRow'
    <2> SUFFICES ASSUME NEW q \in WopiRequests, request'[q].step = "write"
                 PROVE  \/ request'[q].seen = rows[request'[q].asks.file]
                        \/ Ended(request'[q].seen) /\ Ended(rows[request'[q].asks.file])
      BY DEF SeenIsRow, Is, Asks, Ended
    <2>1. CASE q = r
      BY <2>1 DEF RequestMoved, Asks
    <2>2. CASE q # r
      BY <2>2 DEF RequestMoved, WopiInv, SeenIsRow, Is, Asks
    <2> QED  BY <2>1, <2>2
  <1>7. LeasesAreKept'
    BY PruningKeepsLeases
  <1> QED  BY <1>3, <1>4, <1>5, <1>6, <1>7 DEF WopiInv

(* A request arrives, takes the gate or takes the lock of a file.          *)
LEMMA ArrivalsKeep ==
    ASSUME WopiInv, NEW r \in WopiRequests, Arrive(r) \/ TakeGate(r) \/ TakeFileLock(r)
    PROVE  WopiInv'
  <1>1. /\ WopiTypeOK /\ HoldsItsFile(r) /\ request[r].now <= tick /\ tick \in 0..LastTick
        /\ request[r].now \in 0..LastTick /\ request[r].seen \in LockRowType
        /\ pruned' = pruned /\ UNCHANGED <<rows, believed, tick, aborts>>
    BY WopiNumbers DEF WopiInv, WopiTypeOK, Arrive, TakeGate, TakeFileLock
  <1>2. /\ pruned' \in [WopiRequests -> SUBSET OfficeFiles]
        /\ \A q \in WopiRequests : q # r => pruned'[q] = pruned[q]
        /\ \A f \in pruned'[r] : Ended(rows[f])
    BY <1>1 DEF WopiInv, WopiTypeOK, PrunedAreOver
  <1>3. CASE Arrive(r)
    <2>1. PICK s \in {"gate", "file"} :
              /\ request' = [request EXCEPT ![r].step = s, ![r].now = tick]
              /\ s = "gate" => Asks(r).kind \in {"put", "copy"}
      BY <1>3 DEF Arrive
    <2>2. RequestMoved(r, s, tick, request[r].seen)
      BY ZenonT(60), <1>1, <2>1, RequestMoves DEF WopiSteps
    <2>3. HoldsItsFile(r)'
      BY <2>1, <2>2 DEF HoldsItsFile, RequestMoved, Is, Asks
    <2>4. tick <= tick /\ gate' = gate /\ fileLocks' = fileLocks /\ s # "write"
          /\ s \in WopiSteps \ {"new", "ok", "conflict", "error"}
      BY <1>1, <1>3, <2>1 DEF Arrive, WopiSteps
    <2> QED  BY <1>1, <1>2, <2>2, <2>3, <2>4, GoesOnKeeps
  <1>4. CASE TakeGate(r)
    <2>1. PICK s \in {"file", "target"} :
              request' = Goto(r, s) /\ (s = "target" => Asks(r).kind = "copy")
      BY <1>4 DEF TakeGate
    <2>2. RequestMoved(r, s, request[r].now, request[r].seen)
      BY <1>1, <2>1, RequestMoves DEF WopiSteps
    <2>3. HoldsItsFile(r)'
      BY <2>1, <2>2 DEF HoldsItsFile, RequestMoved, Is, Asks
    <2>4. gate' = r /\ fileLocks' = fileLocks /\ s # "write"
          /\ s \in WopiSteps \ {"new", "ok", "conflict", "error"}
      BY <1>4, <2>1 DEF TakeGate, WopiSteps
    <2> QED  BY <1>1, <1>2, <2>2, <2>3, <2>4, GoesOnKeeps
  <1>5. CASE TakeFileLock(r)
    <2> DEFINE f == IF Is(r, "file") THEN Asks(r).file ELSE Asks(r).target
               s == IF Is(r, "file") THEN "prune" ELSE "check"
    <2>1. /\ request' = Goto(r, s) /\ fileLocks' = [fileLocks EXCEPT ![f] = r]
          /\ FileLockFree(r, f) /\ f \in OfficeFiles /\ gate' = gate
          /\ Is(r, "file") \/ Is(r, "target")
      BY <1>1, <1>5, WopiNumbers DEF TakeFileLock
    <2>2. RequestMoved(r, s, request[r].now, request[r].seen)
      BY <1>1, <2>1, RequestMoves DEF WopiSteps
    <2>3. fileLocks'[f] = r
      BY <1>1, <2>1 DEF WopiTypeOK
    <2>4. HoldsItsFile(r)'
      <3>1. CASE Is(r, "file")
        BY <2>2, <2>3, <3>1 DEF HoldsItsFile, RequestMoved, Is, Asks
      <3>2. CASE ~Is(r, "file")
        BY <1>1, <2>1, <2>2, <2>3, <3>2 DEF HoldsItsFile, RequestMoved, Is, Asks
      <3> QED  BY <3>1, <3>2
    <2>5. s # "write" /\ s \in WopiSteps \ {"new", "ok", "conflict", "error"}
      BY DEF WopiSteps
    <2> HIDE DEF f, s
    <2> QED  BY <1>1, <1>2, <2>1, <2>2, <2>4, <2>5, GoesOnKeeps
  <1> QED  BY <1>3, <1>4, <1>5

(* What a prune deletes is over, and it reads the row or finds it over.    *)
LEMMA PruneProperties ==
    ASSUME WopiInv, NEW r \in WopiRequests, NEW f \in OfficeFiles, NEW now \in Nat, now <= tick,
           NEW seen, PrunesAndReads(r, f, now, seen)
    PROVE  /\ pruned' \in [WopiRequests -> SUBSET OfficeFiles]
           /\ \A q \in WopiRequests : q # r => pruned'[q] = pruned[q]
           /\ \A g \in pruned'[r] : Ended(rows[g])
           /\ seen = rows[f] \/ (Ended(seen) /\ Ended(rows[f]))
           /\ seen \in LockRowType
  <1>1. PICK S \in Prunes(r, now) :
            /\ pruned' = [pruned EXCEPT ![r] = @ \union S]
            /\ seen = IF f \in pruned'[r] THEN NoRow ELSE rows[f]
    BY DEF PrunesAndReads
  <1>2. S \subseteq OfficeFiles /\ \A g \in S : Over(rows[g], now)
    BY DEF Prunes
  <1>3. /\ tick \in Nat /\ pruned \in [WopiRequests -> SUBSET OfficeFiles]
        /\ \A g \in OfficeFiles : rows[g] \in LockRowType /\ rows[g].until \in Nat
    BY WopiNumbers DEF WopiInv, WopiTypeOK
  <1>4. pruned'[r] = pruned[r] \union S
    BY <1>1, <1>3
  <1>5. \A g \in pruned'[r] : Ended(rows[g])
    <2>1. \A g \in S : Ended(rows[g])
      BY <1>2, <1>3 DEF Over, Ended
    <2> QED  BY <1>4, <2>1 DEF WopiInv, PrunedAreOver
  <1>6. Ended(NoRow)
    BY <1>3, RowTypes DEF Ended
  <1> QED  BY <1>1, <1>2, <1>3, <1>5, <1>6, RowTypes

(* A prune keeps the invariant, before a lock request and before a save.   *)
LEMMA PrunesKeep ==
    ASSUME WopiInv, NEW r \in WopiRequests, PruneForLock(r) \/ CheckLock(r)
    PROVE  WopiInv'
  <1> DEFINE lock == PruneForLock(r)
             f == IF Is(r, "check") THEN Asks(r).target ELSE Asks(r).file
             now == IF lock THEN request[r].now ELSE tick
             s == IF lock THEN "write" ELSE AfterCheck(r)
  <1>1. PICK seen \in RowsSeen :
            /\ PrunesAndReads(r, f, now, seen)
            /\ request' = [request EXCEPT ![r].step = s, ![r].seen = seen]
    BY DEF PruneForLock, CheckLock, Is
  <1>2. /\ WopiTypeOK /\ HoldsItsFile(r) /\ request[r].now <= tick /\ tick \in Nat
        /\ request[r].now \in Nat /\ request[r].now \in 0..LastTick /\ f \in OfficeFiles
        /\ UNCHANGED <<rows, gate, fileLocks, believed, tick, aborts>>
        /\ now \in Nat /\ now <= tick
    BY WopiNumbers DEF WopiInv, WopiTypeOK, PruneForLock, CheckLock
  <1>3. s \in {"write", "target", "upload"}
    BY DEF AfterCheck
  <1>4. /\ s = "write" => lock /\ f = Asks(r).file /\ Is(r, "prune") /\ Asks(r).kind \in LockKinds
        /\ s = "target" => Is(r, "prune") /\ Asks(r).kind = "copy"
        /\ s = "upload" => \/ Is(r, "prune") /\ Asks(r).kind = "put"
                           \/ Is(r, "check")
    BY DEF PruneForLock, CheckLock, AfterCheck, Is
  <1> HIDE DEF lock, f, now, s
  <1>5. /\ pruned' \in [WopiRequests -> SUBSET OfficeFiles]
        /\ \A q \in WopiRequests : q # r => pruned'[q] = pruned[q]
        /\ \A g \in pruned'[r] : Ended(rows[g])
        /\ seen = rows[f] \/ (Ended(seen) /\ Ended(rows[f]))
        /\ seen \in LockRowType
    BY <1>1, <1>2, PruneProperties
  <1>6. RequestMoved(r, s, request[r].now, seen) /\ s \in WopiSteps \ {"new", "ok", "conflict", "error"}
    <2>1. s \in WopiSteps /\ s \notin {"new", "ok", "conflict", "error"}
      BY <1>3 DEF WopiSteps
    <2>2. request' = [request EXCEPT ![r].step = s, ![r].seen = seen]
      BY <1>1
    <2> QED  BY <1>2, <1>5, <2>1, <2>2, RequestMoves
  <1>7. HoldsItsFile(r)'
    <2>1. request'[r].asks = request[r].asks /\ request'[r].step = s /\ fileLocks' = fileLocks
      BY <1>2, <1>6 DEF RequestMoved
    <2> QED  BY <1>2, <1>3, <1>4, <2>1 DEF HoldsItsFile, Is, Asks, SavedFile
  <1> QED  BY <1>2, <1>4, <1>5, <1>6, <1>7, GoesOnKeeps

(* Time passes: what was over stays over.                                  *)
LEMMA TickKeeps ==
    ASSUME WopiInv, Tick
    PROVE  WopiInv'
  <1>1. /\ tick' = tick + 1 /\ tick \in Nat /\ tick' \in 0..LastTick
        /\ UNCHANGED <<rows, request, gate, fileLocks, pruned, believed, aborts>>
    BY WopiNumbers DEF Tick, WopiInv, WopiTypeOK
  <1>2. \A entry \in LockRowType : Ended(entry) => entry.until <= tick'
    BY <1>1, RowTypes DEF Ended
  <1>3. WopiTypeOK'
    BY <1>1 DEF WopiInv, WopiTypeOK, InTransit, Is
  <1>4. \A r \in WopiRequests : HoldsItsFile(r)' /\ request'[r].now <= tick'
    BY <1>1, WopiNumbers DEF WopiInv, HoldsItsFile, Is, Asks, SavedFile
  <1>5. PrunedAreOver' /\ SeenIsRow'
    <2>1. \A r \in WopiRequests : \A f \in pruned[r] : rows[f] \in LockRowType
      BY DEF WopiInv, WopiTypeOK
    <2>2. \A r \in WopiRequests : request[r].seen \in LockRowType /\ rows[Asks(r).file] \in LockRowType
      BY WopiNumbers DEF WopiInv
    <2>3. PrunedAreOver'
      BY <1>1, <1>2, <2>1 DEF WopiInv, PrunedAreOver, Ended
    <2>4. SeenIsRow'
      BY <1>1, <1>2, <2>2 DEF WopiInv, SeenIsRow, Ended, Is, Asks
    <2> QED  BY <2>3, <2>4
  <1>6. LeasesAreKept'
    BY <1>1, WopiNumbers DEF WopiInv, LeasesAreKept
  <1> QED  BY <1>3, <1>4, <1>5, <1>6 DEF WopiInv

(* The invariant holds at the start, whatever locks the table has.         *)
LEMMA WopiStarts == WopiInit => WopiInv
  <1> SUFFICES ASSUME WopiInit PROVE WopiInv
    OBVIOUS
  <1>1. PICK held \in [OfficeFiles -> {0, LockTTL} \union {-1}], x \in LockIds :
            rows = [f \in OfficeFiles |-> IF held[f] = -1 THEN NoRow ELSE [id |-> x, until |-> held[f]]]
    BY DEF WopiInit
  <1>2. PICK script \in WopiScripts : request = [r \in WopiRequests |-> NewWopiRequest(script[r])]
    BY DEF WopiInit
  <1>3. /\ gate = NobodyLocks /\ fileLocks = [f \in OfficeFiles |-> NobodyLocks]
        /\ pruned = [r \in WopiRequests |-> {}]
        /\ believed = [f \in OfficeFiles |-> [y \in LockIds |-> IF rows[f].id = y THEN rows[f].until ELSE 0]]
        /\ tick = 0 /\ aborts = 0
    BY DEF WopiInit
  <1>4. rows \in [OfficeFiles -> LockRowType]
    <2>1. \A f \in OfficeFiles : held[f] # -1 => [id |-> x, until |-> held[f]] \in LockRowType
      BY DEF LockRowType
    <2> QED  BY <1>1, <2>1, RowTypes
  <1>5. ASSUME NEW r \in WopiRequests
        PROVE  /\ request[r] \in WopiRequestType
               /\ request[r].step = "new" /\ request[r].now = 0
    <2>1. script[r] \in WopiInputs
      BY WopiScriptsAssumption
    <2>2. request[r] = [step |-> "new", now |-> 0, seen |-> NoRow, asks |-> script[r]]
      BY <1>2 DEF NewWopiRequest
    <2>3. 0 \in 0..LastTick
      OBVIOUS
    <2> QED  BY <2>1, <2>2, <2>3, RowTypes DEF WopiRequestType, WopiSteps
  <1>6. believed \in [OfficeFiles -> [LockIds -> Nat]]
    BY <1>3, <1>4, RowTypes
  <1>7. WopiTypeOK
    <2>1. request \in [WopiRequests -> WopiRequestType]
      BY <1>2, <1>5
    <2>2. \A r \in WopiRequests :
              ~(r \in {gate} \union {fileLocks[f] : f \in OfficeFiles} \/ pruned[r] # {})
      BY <1>3
    <2> QED  BY <1>3, <1>4, <1>6, <2>1, <2>2 DEF WopiTypeOK, WopiRequestType
  <1>8. \A r \in WopiRequests : HoldsItsFile(r) /\ request[r].now <= tick
    BY <1>3, <1>5 DEF HoldsItsFile, Is
  <1>9. PrunedAreOver /\ SeenIsRow
    BY <1>3, <1>5 DEF PrunedAreOver, SeenIsRow, Is
  <1>10. LeasesAreKept
    <2> SUFFICES ASSUME NEW f \in OfficeFiles, NEW y \in LockIds, believed[f][y] > 0
                 PROVE  rows[f] = [id |-> y, until |-> believed[f][y]]
      BY <1>3 DEF LeasesAreKept
    <2>1. believed[f][y] = IF rows[f].id = y THEN rows[f].until ELSE 0
      BY <1>3
    <2>2. rows[f].id = y /\ believed[f][y] = rows[f].until /\ rows[f] # NoRow
      BY <2>1, RowTypes
    <2>3. rows[f] = [id |-> x, until |-> held[f]]
      BY <1>1, <2>2
    <2> QED  BY <2>2, <2>3
  <1> QED  BY <1>7, <1>8, <1>9, <1>10 DEF WopiInv

(* Every step keeps the invariant.                                         *)
LEMMA WopiInvariance == WopiSpec => []WopiInv
  <1>1. WopiInv /\ [WopiNext]_wopiVars => WopiInv'
    <2> SUFFICES ASSUME WopiInv, [WopiNext]_wopiVars PROVE WopiInv'
      OBVIOUS
    <2>1. ASSUME NEW r \in WopiRequests, Arrive(r) \/ WopiStep(r) \/ Abort(r) PROVE WopiInv'
      BY <2>1, ArrivalsKeep, PrunesKeep, GrantKeeps, CommitKeeps, RollbackKeeps DEF WopiStep
    <2>2. CASE Tick
      BY <2>2, TickKeeps
    <2>3. CASE UNCHANGED wopiVars
      BY <2>3 DEF wopiVars, WopiInv, WopiTypeOK, HoldsItsFile, PrunedAreOver, SeenIsRow, Ended,
                  LeasesAreKept, InTransit, Is, Asks, SavedFile
    <2> QED  BY <2>1, <2>2, <2>3 DEF WopiNext
  <1> QED  BY <1>1, WopiStarts, PTL DEF WopiSpec

(* The locks and their requests keep their types, and only a request under *)
(* way holds the gate, a file lock or a row.                               *)
THEOREM WopiTypes == WopiSpec => []WopiTypeOK
  <1>1. WopiInv => WopiTypeOK
    BY DEF WopiInv
  <1> QED  BY <1>1, WopiInvariance, PTL

(* The lease of an editor stays in the table until it ends or is given up. *)
THEOREM GrantedLeasesAreKept == WopiSpec => []LeasesAreKept
  <1>1. WopiInv => LeasesAreKept
    BY DEF WopiInv
  <1> QED  BY <1>1, WopiInvariance, PTL

(* While a save is uploaded nobody locks, refreshes or unlocks its file:   *)
(* the row of the lock it was checked against stays, or leaves the table   *)
(* in a prune because its lease has run out.                               *)
THEOREM SavesKeepTheirLocks == WopiSpec => SaveKeepsItsLock
  <1>1. WopiInv /\ [WopiNext]_wopiVars =>
            [\A r \in WopiRequests :
                 Is(r, "upload") /\ request'[r].step = "upload"
                     => \/ rows'[SavedFile(r)] = rows[SavedFile(r)]
                        \/ Over(rows[SavedFile(r)], tick) /\ rows'[SavedFile(r)] = NoRow]_wopiVars
    <2> SUFFICES ASSUME WopiInv, WopiNext, NEW r \in WopiRequests, Is(r, "upload"), rows' # rows
                 PROVE  \/ rows'[SavedFile(r)] = rows[SavedFile(r)]
                        \/ Over(rows[SavedFile(r)], tick) /\ rows'[SavedFile(r)] = NoRow
      OBVIOUS
    <2>1. PICK q \in WopiRequests : WriteLock(q) \/ RefuseLock(q) \/ SaveEnds(q)
      BY DEF WopiNext, WopiStep, Arrive, TakeGate, TakeFileLock, PruneForLock, CheckLock,
             CheckRefuses, DeadlockVictim, Abort, Fails, Tick
    <2> DEFINE f == SavedFile(r)
    <2>2. f \in OfficeFiles /\ fileLocks[f] = r
      BY WopiNumbers DEF WopiInv, HoldsItsFile
    <2>3. WriteLock(q) => f # Asks(q).file
      BY <2>2 DEF WopiInv, HoldsItsFile, WriteLock, Is
    <2>4. \/ RowsWithoutPruned(q)[f] = rows[f]
          \/ Over(rows[f], tick) /\ RowsWithoutPruned(q)[f] = NoRow
      <3>1. f \in pruned[q] => rows[f].until <= tick
        BY <2>2 DEF WopiInv, PrunedAreOver, Ended
      <3> QED  BY <2>2, <3>1 DEF RowsWithoutPruned, Over
    <2>5. WriteLock(q) => rows'[f] = RowsWithoutPruned(q)[f]
      BY <2>2, <2>3 DEF WriteLock, Granted, RowsWithoutPruned
    <2> QED  BY <2>1, <2>4, <2>5 DEF RefuseLock, SaveEnds
  <1> QED  BY <1>1, WopiInvariance, PTL DEF WopiSpec, SaveKeepsItsLock
===============================================================================
