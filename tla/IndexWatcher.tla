----------------------------- MODULE IndexWatcher -----------------------------
(***************************************************************************)
(* How changes of files reach the index: the inotify watcher of one root   *)
(* (services/indexer/src/fdrive_indexer/watcher.py) with its reader, its   *)
(* dispatcher and its workers, beside the periodic scan and what both do   *)
(* to a file (indexer.py) and its row (db.py).                             *)
(*                                                                         *)
(* The files of one directory, all of one extension.  A version stands for *)
(* bytes, size and mtime at once.  Text stands for all that is derived.    *)
(***************************************************************************)
EXTENDS Naturals, Sequences, SequencesExt

CONSTANTS
    FileCount,       \* names a file can have, in the order of a walk
    PoolWorkers,     \* threads of the watcher's pool
    MaxChanges,      \* bound: changes made to the files, the first included
    MaxMishaps       \* bound: events lost, renames, reads and extractions that fail

ASSUME IndexAssumption ==
    {FileCount, PoolWorkers, MaxChanges, MaxMishaps} \subseteq Nat \ {0}

Names == 1 .. FileCount

Scanner == 0

PoolThreads == 1 .. PoolWorkers

NoVersion == 0

NoIndexRow == [live |-> FALSE, mtime |-> NoVersion, sha |-> NoVersion,
               text |-> NoVersion, status |-> "none"]

(***************************************************************************)
(* disk: the version each name has.  index: the rows.                      *)
(* unread: what inotify has told and the reader not yet read.  due, moves: *)
(* _pending and _renames with their age, young until the debounce is over. *)
(* flush: the dispatcher.  poolQueue: jobs not started.  thread: what each *)
(* thread of the pool, and the scan's worker, does to which file, and the  *)
(* version it was when the thread looked.                                  *)
(* scan: the walk; fresh: rows written since it began.                     *)
(* scanned: a scan that began with nothing left to apply has ended, and    *)
(* since it began no file has changed and no job has raised.               *)
(* torn: history, a file was read that was moved or removed after the job  *)
(* had looked at it.                                                       *)
(***************************************************************************)
VARIABLES
    disk, index, unread, due, moves, flush, poolQueue, thread, scan, fresh,
    scanned, torn, changes, mishaps

indexVars == <<disk, index, unread, due, moves, flush, poolQueue, thread, scan,
               fresh, scanned, torn, changes, mishaps>>

fileVars == <<disk, changes, mishaps>>

watchVars == <<unread, due, moves>>

NotFlushing == [step |-> "idle", moves |-> <<>>, due |-> {}, submitted |-> FALSE,
                gone |-> NoVersion]

NotScanning == [step |-> "idle", next |-> 1, manifest |-> [n \in Names |-> NoVersion],
                unseen |-> {}, backlog |-> <<>>, clean |-> FALSE]

NoFileJob == [step |-> "idle", name |-> 1, st |-> NoVersion]

(* One file, indexed by a scan.                                            *)
IndexInit ==
    /\ disk = [n \in Names |-> IF n = 1 THEN 1 ELSE NoVersion]
    /\ index = [n \in Names |-> IF n = 1
                THEN [live |-> TRUE, mtime |-> 1, sha |-> 1, text |-> 1, status |-> "done"]
                ELSE NoIndexRow]
    /\ unread = <<>>
    /\ due = [n \in Names |-> "none"]
    /\ moves = <<>>
    /\ flush = NotFlushing
    /\ poolQueue = <<>>
    /\ thread = [t \in PoolThreads \union {Scanner} |-> NoFileJob]
    /\ scan = NotScanning
    /\ fresh = {}
    /\ scanned = TRUE /\ torn = FALSE
    /\ changes = 1 /\ mishaps = 0

Mishap ==
    /\ mishaps < MaxMishaps
    /\ mishaps' = mishaps + 1

-----------------------------------------------------------------------------
(* Somebody writes, removes or moves a file.                               *)
Changed(event) ==
    /\ changes < MaxChanges
    /\ changes' = changes + 1
    /\ unread' = Append(unread, event)
    /\ scan' = [scan EXCEPT !.clean = FALSE]
    /\ scanned' = FALSE
    /\ UNCHANGED <<index, due, moves, flush, poolQueue, thread, fresh, torn, mishaps>>

FileWritten(n) ==
    /\ Changed([kind |-> "touched", name |-> n])
    /\ disk' = [disk EXCEPT ![n] = changes + 1]

FileRemoved(n) ==
    /\ disk[n] # NoVersion
    /\ Changed([kind |-> "touched", name |-> n])
    /\ disk' = [disk EXCEPT ![n] = NoVersion]

FileMoved(n, m) ==
    /\ disk[n] # NoVersion /\ n # m
    /\ Changed([kind |-> "moved", name |-> n, to |-> m])
    /\ disk' = [disk EXCEPT ![n] = NoVersion, ![m] = disk[n]]

(* The kernel's queue overflows.                                           *)
KernelDropsEvent ==
    /\ unread # <<>>
    /\ Mishap
    /\ unread' = Front(unread)
    /\ UNCHANGED <<disk, index, due, moves, flush, poolQueue, thread, scan, fresh,
                   scanned, torn, changes>>

-----------------------------------------------------------------------------
(***************************************************************************)
(* The reader: _on_event.  What waits for a name follows it when moved.    *)
(***************************************************************************)
Rekeyed(n, m) ==
    IF due[n] = "none" THEN due ELSE [due EXCEPT ![m] = due[n], ![n] = "none"]

ReaderTakes ==
    LET event == Head(unread) IN
    /\ unread # <<>>
    /\ unread' = Tail(unread)
    /\ IF event.kind = "touched"
       THEN due' = [due EXCEPT ![event.name] = "young"] /\ UNCHANGED moves
       ELSE /\ moves' = Append(moves, [from |-> event.name, to |-> event.to, age |-> "young"])
            /\ due' = Rekeyed(event.name, event.to)
    /\ UNCHANGED <<fileVars, index, flush, poolQueue, thread, scan, fresh, scanned, torn>>

Aged(age) == IF age = "young" THEN "old" ELSE age

DebouncePasses ==
    /\ \E n \in Names : due[n] = "young"
       \/ \E i \in 1 .. Len(moves) : moves[i].age = "young"
    /\ due' = [n \in Names |-> Aged(due[n])]
    /\ moves' = [i \in 1 .. Len(moves) |-> [moves[i] EXCEPT !.age = "old"]]
    /\ UNCHANGED <<fileVars, unread, index, flush, poolQueue, thread, scan, fresh,
                   scanned, torn>>

-----------------------------------------------------------------------------
(***************************************************************************)
(* _flush.  It takes what is old, renames rows, then looks at each name.   *)
(***************************************************************************)
Old(n) == due[n] = "old"

IsOld(move) == move.age = "old"

(* The moves are in the order they arrived in, the old ones before the rest. *)
LeadingOld(taken) ==
    /\ \A i \in 1 .. taken : IsOld(moves[i])
    /\ taken < Len(moves) => ~IsOld(moves[taken + 1])

FlushBegins ==
    /\ flush.step = "idle"
    /\ (\E n \in Names : Old(n)) \/ (moves # <<>> /\ IsOld(Head(moves)))
    /\ \E taken \in 0 .. Len(moves) :
        /\ LeadingOld(taken)
        /\ flush' = [NotFlushing EXCEPT !.step = "moves",
                        !.moves = SubSeq(moves, 1, taken), !.due = {n \in Names : Old(n)}]
        /\ moves' = SubSeq(moves, taken + 1, Len(moves))
    /\ due' = [n \in Names |-> IF Old(n) THEN "none" ELSE due[n]]
    /\ UNCHANGED <<fileVars, unread, index, poolQueue, thread, scan, fresh, scanned, torn>>

(* The path locks are held while a file is read.                           *)
Locked(n) == \E t \in PoolThreads \union {Scanner} :
    thread[t].step = "reading" /\ thread[t].name = n

(* _submitted_under: jobs of the pool that wait or run.                    *)
Submitted(n) ==
    \/ \E i \in 1 .. Len(poolQueue) : poolQueue[i] = n
    \/ \E t \in PoolThreads : thread[t].step # "idle" /\ thread[t].name = n

LooksForJobs ==
    /\ flush.step = "moves" /\ flush.moves # <<>>
    /\ flush' = [flush EXCEPT !.step = "rename", !.submitted = Submitted(Head(flush.moves).from)]
    /\ UNCHANGED <<fileVars, watchVars, index, poolQueue, thread, scan, fresh, scanned, torn>>

(* rename_paths: the row moves, unless there is none.                      *)
Renamed(from, to) ==
    IF index[from].live
    THEN [index EXCEPT ![to] = index[from], ![from] = NoIndexRow]
    ELSE index

RenamesRow ==
    LET move == Head(flush.moves) IN
    /\ flush.step = "rename"
    /\ ~Locked(move.from) /\ ~Locked(move.to)
    /\ index' = Renamed(move.from, move.to)
    /\ fresh' = IF index[move.from].live THEN fresh \union {move.to} ELSE fresh
    /\ flush' = [flush EXCEPT !.step = "moves", !.moves = Tail(@),
                    !.due = IF flush.submitted \/ ~index[move.from].live
                            THEN @ \union {move.to} ELSE @]
    /\ UNCHANGED <<fileVars, watchVars, poolQueue, thread, scan, scanned, torn>>

RenameFails ==
    /\ flush.step = "rename"
    /\ Mishap
    /\ flush' = [flush EXCEPT !.step = "moves", !.moves = Tail(@)]
    /\ UNCHANGED <<disk, changes, watchVars, index, poolQueue, thread, scan, fresh,
                   scanned, torn>>

(* A job that waits already will see what is there.                        *)
SubmitsJob(n) ==
    /\ flush.step = "moves" /\ flush.moves = <<>>
    /\ n \in flush.due /\ disk[n] # NoVersion
    /\ flush' = [flush EXCEPT !.due = @ \ {n}]
    /\ poolQueue' = IF \E i \in 1 .. Len(poolQueue) : poolQueue[i] = n
                    THEN poolQueue ELSE Append(poolQueue, n)
    /\ UNCHANGED <<fileVars, watchVars, index, thread, scan, fresh, scanned, torn>>

FindsNoFile(n) ==
    /\ flush.step = "moves" /\ flush.moves = <<>>
    /\ n \in flush.due /\ disk[n] = NoVersion
    /\ flush' = [flush EXCEPT !.step = "gone", !.gone = n, !.due = @ \ {n}]
    /\ UNCHANGED <<fileVars, watchVars, index, poolQueue, thread, scan, fresh, scanned, torn>>

(* mark_deleted                                                            *)
Gone(names) ==
    [n \in Names |-> IF n \in names /\ index[n].live
                     THEN [index[n] EXCEPT !.live = FALSE, !.text = NoVersion]
                     ELSE index[n]]

FlushDeletesRow ==
    /\ flush.step = "gone" /\ ~Locked(flush.gone)
    /\ index' = Gone({flush.gone})
    /\ flush' = [flush EXCEPT !.step = "moves"]
    /\ UNCHANGED <<fileVars, watchVars, poolQueue, thread, scan, fresh, scanned, torn>>

FlushEnds ==
    /\ flush.step = "moves" /\ flush.moves = <<>> /\ flush.due = {}
    /\ flush' = NotFlushing
    /\ UNCHANGED <<fileVars, watchVars, index, poolQueue, thread, scan, fresh, scanned, torn>>

-----------------------------------------------------------------------------
(***************************************************************************)
(* A job: _index, then process_file under the path's lock.                 *)
(***************************************************************************)
JobStarts(t) ==
    /\ t # Scanner /\ thread[t].step = "idle" /\ poolQueue # <<>>
    /\ poolQueue' = Tail(poolQueue)
    /\ LET n == Head(poolQueue) IN
       thread' = [thread EXCEPT ![t] =
                     [step |-> IF disk[n] = NoVersion THEN "gone" ELSE "wait",
                      name |-> n, st |-> disk[n]]]
    /\ UNCHANGED <<fileVars, watchVars, index, flush, scan, fresh, scanned, torn>>

JobDeletesRow(t) ==
    /\ thread[t].step = "gone" /\ ~Locked(thread[t].name)
    /\ index' = Gone({thread[t].name})
    /\ thread' = [thread EXCEPT ![t] = NoFileJob]
    /\ UNCHANGED <<fileVars, watchVars, flush, poolQueue, scan, fresh, scanned, torn>>

UnchangedInDb_Deleted(row, st) == row.mtime = st /\ row.status # "pending"

UnchangedInDb(row, st) == row.live /\ row.mtime = st /\ row.status # "pending"

SkipsFile(t) ==
    /\ thread[t].step = "wait" /\ ~Locked(thread[t].name)
    /\ UnchangedInDb(index[thread[t].name], thread[t].st)
    /\ thread' = [thread EXCEPT ![t] = NoFileJob]
    /\ UNCHANGED <<fileVars, watchVars, index, flush, poolQueue, scan, fresh, scanned, torn>>

(* What is read is not the file the job has looked at.                     *)
Elsewhere(n, st) == disk[n] # st /\ (disk[n] = NoVersion \/ \E m \in Names : disk[m] = st)

(* The digest is read, and upsert_file writes the row of what was looked at.*)
BeginsFile(t) ==
    LET n == thread[t].name IN
    /\ thread[t].step = "wait" /\ ~Locked(n)
    /\ ~UnchangedInDb(index[n], thread[t].st)
    /\ IF disk[n] = NoVersion
       THEN /\ thread' = [thread EXCEPT ![t].step = "failing"]
            /\ UNCHANGED <<index, fresh>>
       ELSE /\ index' = [index EXCEPT ![n] =
                            [live |-> TRUE, mtime |-> thread[t].st, sha |-> disk[n],
                             text |-> NoVersion, status |-> "pending"]]
            /\ fresh' = fresh \union {n}
            /\ thread' = [thread EXCEPT ![t].step = "reading"]
    /\ torn' = (torn \/ Elsewhere(n, thread[t].st))
    /\ UNCHANGED <<fileVars, watchVars, flush, poolQueue, scan, scanned>>

(* Text is extracted from what is there then, if anything is.              *)
ExtractsText(t) ==
    LET n == thread[t].name IN
    /\ thread[t].step = "reading"
    /\ index' = [index EXCEPT ![n].text = disk[n],
                              ![n].status = IF disk[n] = NoVersion THEN "error" ELSE "done"]
    /\ torn' = (torn \/ Elsewhere(n, thread[t].st))
    /\ thread' = [thread EXCEPT ![t] = NoFileJob]
    /\ UNCHANGED <<fileVars, watchVars, flush, poolQueue, scan, fresh, scanned>>

(* The extractor returns a failure: the service is down or too slow, or    *)
(* the file is corrupt or encrypted.  It becomes the row's, under the size *)
(* and time of this version: unchanged_in_db will skip it.                 *)
ExtractionFails(t) ==
    LET n == thread[t].name IN
    /\ thread[t].step = "reading"
    /\ Mishap
    /\ index' = [index EXCEPT ![n].status = "error"]
    /\ thread' = [thread EXCEPT ![t] = NoFileJob]
    /\ UNCHANGED <<disk, changes, watchVars, flush, poolQueue, scan, fresh, scanned, torn>>

(* The file cannot be read, or something raises later: safe_process        *)
(* catches it.                                                             *)
JobRaises(t) ==
    /\ \/ thread[t].step = "wait" /\ ~Locked(thread[t].name)
           /\ ~UnchangedInDb(index[thread[t].name], thread[t].st)
       \/ thread[t].step = "reading"
    /\ Mishap
    /\ thread' = [thread EXCEPT ![t].step = "failing"]
    /\ scan' = [scan EXCEPT !.clean = FALSE]
    /\ scanned' = FALSE
    /\ UNCHANGED <<disk, changes, watchVars, index, flush, poolQueue, fresh, torn>>

(* safe_process: mark_file_error, when the lock has been released.         *)
MarksError(t) ==
    LET n == thread[t].name IN
    /\ thread[t].step = "failing"
    /\ index' = IF index[n] = NoIndexRow THEN index ELSE [index EXCEPT ![n].status = "error"]
    /\ thread' = [thread EXCEPT ![t] = NoFileJob]
    /\ UNCHANGED <<fileVars, watchVars, flush, poolQueue, scan, fresh, scanned, torn>>

JobStep(t) ==
    JobStarts(t) \/ JobDeletesRow(t) \/ SkipsFile(t) \/ BeginsFile(t) \/ ExtractsText(t)
    \/ ExtractionFails(t) \/ JobRaises(t) \/ MarksError(t)

-----------------------------------------------------------------------------
(***************************************************************************)
(* scan_once: the manifest, the walk with its worker, and the sweep.       *)
(***************************************************************************)
Applied ==
    /\ unread = <<>> /\ moves = <<>> /\ poolQueue = <<>>
    /\ \A n \in Names : due[n] = "none"
    /\ flush.step = "idle"
    /\ \A t \in PoolThreads : thread[t].step = "idle"

ScanBegins ==
    /\ scan.step = "idle"
    /\ scan' = [NotScanning EXCEPT !.step = "walk", !.clean = Applied,
                   !.manifest = [n \in Names |-> IF UnchangedInDb(index[n], index[n].mtime)
                                                 THEN index[n].mtime ELSE NoVersion],
                   !.unseen = {n \in Names : index[n].live}]
    /\ fresh' = {}
    /\ UNCHANGED <<fileVars, watchVars, index, flush, poolQueue, thread, scanned, torn>>

WalkVisits ==
    LET n == scan.next IN
    /\ scan.step = "walk" /\ n \in Names
    /\ scan' = [scan EXCEPT !.next = n + 1,
                   !.unseen = IF disk[n] = NoVersion THEN @ ELSE @ \ {n},
                   !.backlog = IF disk[n] \in {NoVersion, scan.manifest[n]} THEN @
                               ELSE Append(@, [name |-> n, st |-> disk[n]])]
    /\ UNCHANGED <<fileVars, watchVars, index, flush, poolQueue, thread, fresh, scanned, torn>>

ScanJobStarts ==
    /\ scan.backlog # <<>> /\ thread[Scanner].step = "idle"
    /\ scan' = [scan EXCEPT !.backlog = Tail(@)]
    /\ thread' = [thread EXCEPT ![Scanner] = [step |-> "wait", name |-> Head(scan.backlog).name,
                                              st |-> Head(scan.backlog).st]]
    /\ UNCHANGED <<fileVars, watchVars, index, flush, poolQueue, fresh, scanned, torn>>

(* sweep_vanished spares the rows that were written since.                 *)
Vanished == scan.unseen \ fresh

ScanSweeps ==
    /\ scan.step = "walk" /\ scan.next \notin Names
    /\ scan.backlog = <<>> /\ thread[Scanner].step = "idle"
    /\ index' = Gone(Vanished)
    /\ scanned' = scan.clean
    /\ scan' = NotScanning
    /\ UNCHANGED <<fileVars, watchVars, flush, poolQueue, thread, fresh, torn>>

-----------------------------------------------------------------------------
Dispatch ==
    \/ FlushBegins \/ LooksForJobs \/ RenamesRow \/ FlushDeletesRow \/ FlushEnds
    \/ \E n \in Names : SubmitsJob(n) \/ FindsNoFile(n)

ScanStep == ScanBegins \/ WalkVisits \/ ScanJobStarts \/ ScanSweeps

FileChange ==
    \/ \E n \in Names : FileWritten(n) \/ FileRemoved(n)
    \/ \E n, m \in Names : FileMoved(n, m)

IndexNext ==
    \/ FileChange \/ KernelDropsEvent \/ RenameFails
    \/ ReaderTakes \/ DebouncePasses \/ Dispatch \/ ScanStep
    \/ \E t \in PoolThreads \union {Scanner} : JobStep(t)

(***************************************************************************)
(* Each thread of the process goes on by itself.                           *)
(***************************************************************************)
IndexFairness ==
    /\ WF_indexVars(ReaderTakes \/ DebouncePasses)
    /\ WF_indexVars(Dispatch)
    /\ WF_indexVars(ScanStep)
    /\ \A t \in PoolThreads \union {Scanner} : WF_indexVars(JobStep(t))

IndexSpec == IndexInit /\ [][IndexNext]_indexVars

IndexFairSpec == IndexSpec /\ IndexFairness

-----------------------------------------------------------------------------
(* Every part has its type.                                                *)
IndexTypeOK ==
    /\ disk \in [Names -> 0 .. MaxChanges]
    /\ \A n \in Names :
        /\ index[n].live \in BOOLEAN
        /\ {index[n].mtime, index[n].sha, index[n].text} \subseteq 0 .. MaxChanges
        /\ index[n].status \in {"none", "pending", "done", "error"}
        /\ due[n] \in {"none", "young", "old"}
    /\ flush.step \in {"idle", "moves", "rename", "gone"}
    /\ flush.due \subseteq Names
    /\ \A n \in Names : \A t, u \in PoolThreads \union {Scanner} :
        t # u /\ thread[t].step = "reading" /\ thread[u].step = "reading"
            => thread[t].name # thread[u].name
    /\ scan.unseen \subseteq Names /\ fresh \subseteq Names

(* The row of a name says what is there, and its text is of that.          *)
RowIs(n) ==
    /\ index[n].live <=> disk[n] # NoVersion
    /\ index[n].live => index[n].mtime = disk[n]

TextIs(n) ==
    index[n].live => index[n].sha = disk[n] /\ index[n].text = disk[n] /\ index[n].status = "done"

(* The row says that its version could not be read, and has no other text. *)
TextFailed(n) ==
    /\ index[n].sha = disk[n] /\ index[n].status = "error"
    /\ index[n].text \in {NoVersion, disk[n]}

(***************************************************************************)
(* Whatever was lost, reordered or overtaken before, a scan that finds     *)
(* nothing left to apply leaves each row as the file is; with its text, or *)
(* with the error that reading this version ended in, which no scan tries  *)
(* again; unless a file was moved or removed while a job was at it.        *)
(***************************************************************************)
ScanRepairsIndex ==
    scanned => \A n \in Names : RowIs(n) /\ (torn \/ TextIs(n) \/ TextFailed(n))

(***************************************************************************)
(* "What is applied is decided by what is on disk at apply time, not by    *)
(* event order": with all events applied and none lost, the index has what *)
(* is on disk, without waiting for the next scan.                          *)
(***************************************************************************)
WatcherCatchesUp ==
    Applied /\ mishaps = 0 /\ ~torn /\ scan.step = "idle" => \A n \in Names : RowIs(n) /\ TextIs(n)

(* All changes are applied in the end, and a scan has come after them.     *)
IndexSettles == <>[](Applied /\ scanned)
=============================================================================
