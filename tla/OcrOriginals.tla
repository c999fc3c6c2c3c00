----------------------------- MODULE OcrOriginals -----------------------------
(***************************************************************************)
(* The OCR service rewrites users' PDFs in place and keeps the bytes it    *)
(* replaces, from services/ocr: the pass of runner.py, the restore and the *)
(* deletion of kept originals of restore.py, and the decisions of          *)
(* originals.py.  One path; users save, delete or put back what is there   *)
(* without taking any lock.                                                *)
(*                                                                         *)
(* A revision stands for its size and mtime, so equal keys mean equal      *)
(* bytes; the OCR output of a revision has its mtime and another size.     *)
(* A check and the system call right after it are one step.  ocrmypdf      *)
(* reads the file as it starts.  The setting keep_originals is on, and     *)
(* originals without a sidecar stay unresolved.                            *)
(***************************************************************************)
EXTENDS Naturals, FiniteSets

CONSTANTS
    Revisions,   \* what users save at the path
    Restorers,   \* restore requests, one attempt each
    NoFile, NoOne,
    Overlaps,    \* "edit", "delete": who may act while a rewrite is committed
    MaxPasses,   \* bound: files a pass sends to ocrmypdf
    MaxEdits,    \* bound: saves, deletions and copies put back by users
    MaxDeletes,  \* bound: originals deleted or pruned
    MaxCrashes   \* bound: stops of the service

ASSUME OcrAssumption ==
    /\ Overlaps \subseteq {"edit", "delete"}
    /\ {MaxPasses, MaxEdits, MaxDeletes, MaxCrashes} \subseteq Nat

Saved(v) == [rev |-> v, text |-> FALSE]

Searchable(v) == [rev |-> v, text |-> TRUE]

Files == [rev : Revisions, text : BOOLEAN]

ASSUME OcrNames ==
    /\ NoFile \notin Files
    /\ NoOne \notin Restorers \union {"pass"} /\ "pass" \notin Restorers

(***************************************************************************)
(* live: the file at the path.  ocrLog: the done-log's status of each key. *)
(* kept, mapped: the originals directory, and the sidecars beside it.      *)
(* fileLock: the Postgres lock of the path.                                *)
(* pass: the step of the file under way and what stat said of it.          *)
(* restore: per request its step, original, consent and what it saw.       *)
(* touched: the file changed since the restore in its section looked.      *)
(* rewritten: history, what OCR replaced and nobody has deleted since.     *)
(***************************************************************************)
VARIABLES
    live, ocrLog, kept, mapped, fileLock, pass, restore, touched, rewritten,
    bounds

ocrVars == <<live, ocrLog, kept, mapped, fileLock, pass, restore, touched,
             rewritten, bounds>>

IdlePass == [step |-> "idle", file |-> NoFile]

NotAsked == [step |-> "new", id |-> NoOne, consent |-> FALSE, saw |-> NoFile]

OcrInit ==
    /\ live \in {Saved(v) : v \in Revisions}
    /\ ocrLog = [file \in Files |-> "none"]
    /\ kept = [v \in Revisions |-> NoFile]
    /\ mapped = {}
    /\ fileLock = NoOne
    /\ pass = IdlePass
    /\ restore = [r \in Restorers |-> NotAsked]
    /\ touched = FALSE
    /\ rewritten = {}
    /\ bounds = [passes |-> 0, edits |-> 0, deletes |-> 0, crashes |-> 0]

Committing == pass.step \in {"keep", "map", "replace"}

Spend(kind, most) ==
    /\ bounds[kind] < most
    /\ bounds' = [bounds EXCEPT ![kind] = @ + 1]

-----------------------------------------------------------------------------
(* The file is not recorded as done: ocrmypdf starts on it, with no lock.  *)
PassReads ==
    /\ pass.step = "idle"
    /\ live # NoFile /\ ocrLog[live] = "none"
    /\ Spend("passes", MaxPasses)
    /\ pass' = [step |-> "ocr", file |-> live]
    /\ UNCHANGED <<live, ocrLog, kept, mapped, fileLock, restore, touched, rewritten>>

(***************************************************************************)
(* With the file lock: somebody, a restore, decided this key meanwhile.    *)
(***************************************************************************)
DecidedMeanwhile_Cached == FALSE

DecidedMeanwhile == ocrLog[pass.file] # "none"

OutputArrives == pass.step = "ocr" /\ fileLock = NoOne

PassSkips ==
    /\ OutputArrives /\ DecidedMeanwhile
    /\ pass' = IdlePass
    /\ UNCHANGED <<live, ocrLog, kept, mapped, fileLock, restore, touched,
                   rewritten, bounds>>

(* Text, signature, encryption, timeout or failure: only recorded.         *)
PassLeaves ==
    /\ OutputArrives /\ ~DecidedMeanwhile
    /\ ocrLog' = [ocrLog EXCEPT ![pass.file] = "left"]
    /\ pass' = IdlePass
    /\ UNCHANGED <<live, kept, mapped, fileLock, restore, touched, rewritten, bounds>>

(* "Source changed while OCR was running".                                 *)
PassNoticesEdit ==
    /\ OutputArrives /\ ~DecidedMeanwhile
    /\ ~pass.file.text /\ live # pass.file
    /\ pass' = IdlePass
    /\ UNCHANGED <<live, ocrLog, kept, mapped, fileLock, restore, touched,
                   rewritten, bounds>>

RewriteBegins ==
    /\ OutputArrives /\ ~DecidedMeanwhile
    /\ ~pass.file.text /\ live = pass.file
    /\ fileLock' = "pass"
    /\ pass' = [pass EXCEPT !.step = "keep"]
    /\ UNCHANGED <<live, ocrLog, kept, mapped, restore, touched, rewritten, bounds>>

(***************************************************************************)
(* apply_rewrite: the copy, unless one is there under this name, then the  *)
(* sidecar with its digest, each synced, then the swap.                    *)
(***************************************************************************)
AfterCopy_Swap == "replace"

AfterCopy == "map"

KeepsOriginal ==
    LET id == pass.file.rev IN
    /\ pass.step = "keep" /\ live # NoFile
    /\ kept' = IF kept[id] = NoFile THEN [kept EXCEPT ![id] = live] ELSE kept
    /\ pass' = [pass EXCEPT !.step = AfterCopy]
    /\ UNCHANGED <<live, ocrLog, mapped, fileLock, restore, touched, rewritten, bounds>>

WritesSidecar ==
    /\ pass.step = "map" /\ kept[pass.file.rev] # NoFile
    /\ mapped' = mapped \union {pass.file.rev}
    /\ pass' = [pass EXCEPT !.step = "replace"]
    /\ UNCHANGED <<live, ocrLog, kept, fileLock, restore, touched, rewritten, bounds>>

(* The file to copy, or the copy to describe, is gone: the pass ends.      *)
RewriteFails ==
    /\ \/ pass.step = "keep" /\ live = NoFile
       \/ pass.step = "map" /\ kept[pass.file.rev] = NoFile
    /\ pass' = IdlePass /\ fileLock' = NoOne
    /\ UNCHANGED <<live, ocrLog, kept, mapped, restore, touched, rewritten, bounds>>

PassReplaces ==
    /\ pass.step = "replace"
    /\ live' = Searchable(pass.file.rev)
    /\ rewritten' = rewritten \union ({live} \ {NoFile})
    /\ touched' = TRUE
    /\ pass' = [pass EXCEPT !.step = "record"]
    /\ UNCHANGED <<ocrLog, kept, mapped, fileLock, restore, bounds>>

(* What is recorded is the path as it is now, looked at once more: after a *)
(* user's save, that save.  With the file gone nothing is recorded.        *)
PassRecords ==
    /\ pass.step = "record"
    /\ ocrLog' = IF live = NoFile THEN ocrLog ELSE [ocrLog EXCEPT ![live] = "ocred"]
    /\ pass' = IdlePass /\ fileLock' = NoOne
    /\ UNCHANGED <<live, kept, mapped, restore, touched, rewritten, bounds>>

-----------------------------------------------------------------------------
(* classify_state and restore_refusal.                                     *)
StateFor(v) ==
    CASE live = NoFile -> "missing"
      [] live = Saved(v) -> "restored"
      [] live = Searchable(v) /\ ocrLog[live] = "ocred" -> "ocred"
      [] OTHER -> "changed"

Refused(v, consent) == StateFor(v) \in {"missing", "changed"} /\ ~consent

Restoring(r, step) ==
    restore' = [restore EXCEPT ![r].step = step]

RestoreRefused(r) ==
    /\ restore[r].step = "new" /\ fileLock = NoOne
    /\ \E v \in mapped : kept[v] # NoFile /\ Refused(v, FALSE)
    /\ Restoring(r, "refused")
    /\ UNCHANGED <<live, ocrLog, kept, mapped, fileLock, pass, touched, rewritten, bounds>>

RestoreInspects(r, v, consent) ==
    /\ restore[r].step = "new" /\ fileLock = NoOne
    /\ v \in mapped /\ kept[v] # NoFile /\ ~Refused(v, consent)
    /\ restore' = [restore EXCEPT ![r] =
            [step |-> "copy", id |-> v, consent |-> consent, saw |-> live]]
    /\ fileLock' = r
    /\ touched' = FALSE
    /\ UNCHANGED <<live, ocrLog, kept, mapped, pass, rewritten, bounds>>

RestoreCopies(r) ==
    /\ restore[r].step = "copy" /\ kept[restore[r].id] # NoFile
    /\ Restoring(r, "swap")
    /\ UNCHANGED <<live, ocrLog, kept, mapped, fileLock, pass, touched, rewritten, bounds>>

(***************************************************************************)
(* The version, down to inode and ctime, is compared right before the swap.*)
(***************************************************************************)
Unchanged_Listed(r) == TRUE

Unchanged(r) == ~touched

RestoreSwaps(r) ==
    /\ restore[r].step = "swap" /\ Unchanged(r)
    /\ live' = Saved(restore[r].id)
    /\ Restoring(r, "record")
    /\ UNCHANGED <<ocrLog, kept, mapped, fileLock, pass, touched, rewritten, bounds>>

RestoreGivesUp(r) ==
    /\ \/ restore[r].step = "copy" /\ kept[restore[r].id] = NoFile
       \/ restore[r].step = "swap" /\ ~Unchanged(r)
    /\ Restoring(r, "refused")
    /\ fileLock' = NoOne
    /\ UNCHANGED <<live, ocrLog, kept, mapped, pass, touched, rewritten, bounds>>

RestoreRecords(r) ==
    /\ restore[r].step = "record"
    /\ ocrLog' = [ocrLog EXCEPT ![Saved(restore[r].id)] = "restored"]
    /\ Restoring(r, "restored")
    /\ fileLock' = NoOne
    /\ UNCHANGED <<live, kept, mapped, pass, touched, rewritten, bounds>>

-----------------------------------------------------------------------------
(* delete_original, also by prune_originals: it takes no file lock.        *)
DeletesOriginal(v) ==
    /\ kept[v] # NoFile
    /\ Committing => "delete" \in Overlaps
    /\ Spend("deletes", MaxDeletes)
    /\ kept' = [kept EXCEPT ![v] = NoFile]
    /\ mapped' = mapped \ {v}
    /\ rewritten' = rewritten \ {kept[v]}
    /\ UNCHANGED <<live, ocrLog, fileLock, pass, restore, touched>>

(* A user saves or deletes the file, or puts an older revision back.       *)
UserEdits ==
    /\ Committing => "edit" \in Overlaps
    /\ Spend("edits", MaxEdits)
    /\ live' \in {Saved(v) : v \in Revisions} \union {NoFile}
    /\ touched' = TRUE
    /\ UNCHANGED <<ocrLog, kept, mapped, fileLock, pass, restore, rewritten>>

(* The service stops; Postgres frees its locks.                            *)
Stopped(step) == IF step \in {"copy", "swap", "record"} THEN "gone" ELSE step

OcrStops ==
    /\ Spend("crashes", MaxCrashes)
    /\ pass' = IdlePass /\ fileLock' = NoOne
    /\ restore' = [r \in Restorers |->
                      [restore[r] EXCEPT !.step = Stopped(@)]]
    /\ UNCHANGED <<live, ocrLog, kept, mapped, touched, rewritten>>

PassStep ==
    \/ PassSkips \/ PassLeaves \/ PassNoticesEdit \/ RewriteBegins
    \/ KeepsOriginal \/ WritesSidecar \/ RewriteFails
    \/ PassReplaces \/ PassRecords

RestoreStep(r) ==
    \/ RestoreCopies(r) \/ RestoreSwaps(r)
    \/ RestoreGivesUp(r) \/ RestoreRecords(r)

OcrNext ==
    \/ PassReads \/ PassStep
    \/ \E r \in Restorers :
        \/ RestoreRefused(r) \/ RestoreStep(r)
        \/ \E v \in Revisions, consent \in BOOLEAN : RestoreInspects(r, v, consent)
    \/ \E v \in Revisions : DeletesOriginal(v)
    \/ UserEdits \/ OcrStops

(* Subprocesses end or are killed, copies end, Postgres answers.           *)
OcrWork == PassStep \/ \E r \in Restorers : RestoreStep(r)

OcrFairness == WF_ocrVars(OcrWork)

OcrSpec == OcrInit /\ [][OcrNext]_ocrVars

-----------------------------------------------------------------------------
OcrTypeOK ==
    /\ live \in Files \union {NoFile}
    /\ ocrLog \in [Files -> {"none", "left", "ocred", "restored"}]
    /\ kept \in [Revisions -> Files \union {NoFile}]
    /\ mapped \subseteq Revisions
    /\ fileLock \in Restorers \union {NoOne, "pass"}
    /\ pass.file \in Files \union {NoFile}
    /\ Committing \/ pass.step = "record" <=> fileLock = "pass"
    /\ \A r \in Restorers :
        restore[r].step \in {"copy", "swap", "record"} <=> fileLock = r
    /\ touched \in BOOLEAN
    /\ rewritten \subseteq Files

(***************************************************************************)
(* "Every rewrite copies the pre-OCR bytes": whatever a rewrite replaced   *)
(* is among the originals, with a sidecar that lets it be restored, until  *)
(* somebody deletes it, wherever the service stops.                        *)
(***************************************************************************)
OriginalsAreKept ==
    \A file \in rewritten : kept[file.rev] = file /\ file.rev \in mapped

(***************************************************************************)
(* "a pass that started before a restore cannot undo it": a file recorded  *)
(* as restored is not made searchable again.                               *)
(***************************************************************************)
RestoreStands ==
    [][\A v \in Revisions :
          live = Saved(v) /\ ocrLog[live] = "restored" => live' # Searchable(v)]_ocrVars

(***************************************************************************)
(* Nothing a user saved is replaced by the service unless it is kept as an *)
(* original, or the caller of a restore saw that very file and agreed.     *)
(***************************************************************************)
SavesSurviveRestores ==
    [][live # NoFile /\ live' # live /\ bounds'.edits = bounds.edits =>
          \/ live.text
          \/ kept[live.rev] = live /\ live.rev \in mapped
          \/ \E r \in Restorers :
                fileLock = r /\ restore[r].consent /\ restore[r].saw = live]_ocrVars

(* Every rewrite and every restore comes to an end and frees the file.     *)
OcrSettles == <>[](fileLock = NoOne /\ pass.step = "idle")
=============================================================================
