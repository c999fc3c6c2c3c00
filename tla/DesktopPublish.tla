---------------------------- MODULE DesktopPublish ----------------------------
(***************************************************************************)
(* The publication of desktop commits that meet at one path of a storage   *)
(* without write leases: saves and moves to the Trash of the file there,   *)
(* and creations of a file by that name.  From commit() and resolve() in   *)
(* apps/api/src/desktop/writes.ts, under the per-identity lock of          *)
(* packages/db/src/repos/desktop-publish-lock.ts, whose polling and pool   *)
(* are left out.                                                           *)
(*                                                                         *)
(* Each await that reads or changes shared state is a step.  All contents  *)
(* have one size, so that a stat tells versions apart by modification time *)
(* alone, in whole seconds.  A desktop operation has one commit request at *)
(* a time.  Renaming, and moves other than to the Trash, are left out.     *)
(***************************************************************************)
EXTENDS Naturals

CONSTANTS
    Writers,     \* desktop operations; an operation also names its bytes
    Others,      \* contents other clients write
    Original,    \* contents the path may have at first
    Absent, Damaged, None,
    KindsTried,  \* kinds of operation that take part
    Racy,        \* may other clients write between the proof and the rename?
    Faults,      \* what may go wrong
    MaxFaults,   \* bound: faults in one behaviour
    MaxWrites,   \* bound: writes by other clients
    MaxTime      \* bound: seconds that pass

FaultKinds == {"error", "damage", "lost", "late", "crash", "resolve"}

Contents == {Original} \union Writers \union Others

Kinds == {"save", "create", "trash"}

ASSUME PublishAssumption ==
    /\ Absent \notin Contents \union {Damaged, None}
    /\ Damaged \notin Contents \union {None}
    /\ None \notin Contents \union {"ready", "conflict", "uncertain"}
    /\ Original \notin Writers \union Others /\ Writers \cap Others = {}
    /\ KindsTried \subseteq Kinds
    /\ Racy \in BOOLEAN
    /\ Faults \subseteq FaultKinds
    /\ MaxFaults \in Nat /\ MaxWrites \in Nat /\ MaxTime \in Nat

(***************************************************************************)
(* live: what is at the path, its modification time, and (history) how     *)
(* often it changed.                                                       *)
(* registered: the item the saves name is still at the path.               *)
(* base, state: of each operation, the version its client saw and its row. *)
(* pc, outcome: the step of its commit, and the state a commit that ends   *)
(* without a receipt is about to record.                                   *)
(* witness, staged: the modification time observed, and of the upload.     *)
(* kept: the recovery copy of a save, or what a move put in the Trash.     *)
(* retained: the recovery copy is from an earlier attempt.                 *)
(* holder: who has the publish lock.                                       *)
(* inFlight: rename requests given up on that the storage still has.       *)
(* published, seen, erased: (history) the operations whose rename landed,  *)
(* the contents that ever were at the path, and those that another client  *)
(* replaced.                                                               *)
(***************************************************************************)
VARIABLES
    live, registered, now, kind, base, state, pc, outcome, witness, staged,
    kept, retained, holder, inFlight, published, seen, erased, faults, writes

attempt == <<pc, outcome, witness, staged, retained>>
history == <<published, seen, erased>>
world == <<live, registered, inFlight, history, kind, base>>
budget == <<now, faults, writes>>
vars == <<world, state, attempt, kept, holder, budget>>

States == {"new", "ready", "committing", "conflict", "uncertain", "completed",
           "cancelled"}

Steps == {"idle", "stat", "digest", "witness", "stage", "lock", "free", "guard",
          "copy", "prove", "recheck", "rename", "unlock", "registry", "complete",
          "settle"}

Version == [content : Contents \union {Absent}, stamp : Nat, number : Nat]

Init ==
    /\ live \in [content : {Original, Absent}, stamp : {0}, number : {0}]
    /\ registered = TRUE
    /\ now = 0
    /\ kind \in [Writers -> KindsTried]
    /\ base = [w \in Writers |-> live]
    /\ state = [w \in Writers |-> "new"]
    /\ pc = [w \in Writers |-> "idle"]
    /\ outcome = [w \in Writers |-> None]
    /\ witness = [w \in Writers |-> 0]
    /\ staged = [w \in Writers |-> 0]
    /\ kept = [w \in Writers |-> None]
    /\ retained = [w \in Writers |-> FALSE]
    /\ holder = None
    /\ inFlight = {}
    /\ published = {}
    /\ seen = {live.content} \ {Absent}
    /\ erased = {}
    /\ faults = 0 /\ writes = 0

Fault(what) ==
    /\ what \in Faults
    /\ faults < MaxFaults
    /\ faults' = faults + 1
    /\ UNCHANGED <<now, writes>>

GoesTo(w, step) ==
    /\ pc' = [pc EXCEPT ![w] = step]
    /\ UNCHANGED <<outcome, witness, staged, retained>>

\* The error leaves the lock's callback, if it is inside, and reaches commit()'s
\* catch with the state to record.
Ends(w, result) ==
    /\ pc' = [pc EXCEPT ![w] = IF holder = w THEN "unlock" ELSE "settle"]
    /\ outcome' = [outcome EXCEPT ![w] = result]
    /\ UNCHANGED <<witness, staged, retained>>

\* What a commit keeps in memory is gone when it is over.
Forgotten(w) ==
    /\ pc' = [pc EXCEPT ![w] = "idle"]
    /\ outcome' = [outcome EXCEPT ![w] = None]
    /\ witness' = [witness EXCEPT ![w] = 0]
    /\ retained' = [retained EXCEPT ![w] = FALSE]
    /\ UNCHANGED staged

(***************************************************************************)
(* An operation is reserved against what its client last saw.  The upload  *)
(* of its bytes is module DesktopUpload.                                   *)
(***************************************************************************)
Prepare(w) ==
    /\ state[w] = "new"
    /\ kind[w] # "create" => live.content # Absent /\ registered
    /\ base' = [base EXCEPT ![w] = live]
    /\ state' = [state EXCEPT ![w] = "ready"]
    /\ UNCHANGED <<live, registered, inFlight, history, kind, attempt, kept, holder,
                   budget>>

Claim(w) ==
    /\ state[w] = "ready" /\ pc[w] = "idle"
    /\ state' = [state EXCEPT ![w] = "committing"]
    /\ GoesTo(w, "stat")
    /\ UNCHANGED <<world, kept, holder, budget>>

(***************************************************************************)
(* A creation needs the name free.  Anything else needs its item: gone, or *)
(* in the Trash, is an error to retry, and other metadata than the base's  *)
(* a conflict.                                                             *)
(***************************************************************************)
CheckName(w) ==
    /\ pc[w] = "stat" /\ kind[w] = "create"
    /\ IF live.content = Absent THEN GoesTo(w, "stage") ELSE Ends(w, "conflict")
    /\ UNCHANGED <<world, state, kept, holder, budget>>

CheckMetadata(w) ==
    /\ pc[w] = "stat" /\ kind[w] # "create"
    /\ \/ (live.content = Absent \/ ~registered) /\ Ends(w, "ready")
       \/ /\ live.content # Absent /\ registered
          /\ IF live.stamp # base[w].stamp THEN Ends(w, "conflict")
             ELSE GoesTo(w, "digest")
    /\ UNCHANGED <<world, state, kept, holder, budget>>

\* A move's base need not name contents.
CheckContent(w) ==
    /\ pc[w] = "digest"
    /\ \/ live.content = base[w].content /\ GoesTo(w, "witness")
       \/ live.content \notin {base[w].content, Absent} /\ Ends(w, "conflict")
       \/ live.content = Absent /\ Ends(w, "ready")
       \/ kind[w] = "trash" /\ GoesTo(w, "witness")
    /\ UNCHANGED <<world, state, kept, holder, budget>>

Witness(w) ==
    /\ pc[w] = "witness"
    /\ IF live.content = Absent
       THEN Ends(w, "ready")
       ELSE /\ pc' = [pc EXCEPT ![w] = IF kind[w] = "trash" THEN "lock" ELSE "stage"]
            /\ witness' = [witness EXCEPT ![w] = live.stamp]
            /\ UNCHANGED <<outcome, staged, retained>>
    /\ UNCHANGED <<world, state, kept, holder, budget>>

\* The bytes are uploaded next to the recovery copy and verified there, if the
\* operation is still this commit's.
Stage(w) ==
    /\ pc[w] = "stage"
    /\ IF state[w] = "committing"
       THEN /\ pc' = [pc EXCEPT ![w] = "lock"]
            /\ staged' = [staged EXCEPT ![w] = now]
            /\ UNCHANGED <<outcome, witness, retained>>
       ELSE Ends(w, "ready")
    /\ UNCHANGED <<world, state, kept, holder, budget>>

Acquire_Unserialized(w) ==
    /\ pc[w] = "lock"
    /\ holder' = w
    /\ GoesTo(w, CASE kind[w] = "save" -> "copy"
                   [] kind[w] = "create" -> "free"
                   [] kind[w] = "trash" -> "recheck")
    /\ UNCHANGED <<world, state, kept, budget>>

Acquire(w) ==
    /\ pc[w] = "lock" /\ holder = None
    /\ holder' = w
    /\ GoesTo(w, CASE kind[w] = "save" -> "copy"
                   [] kind[w] = "create" -> "free"
                   [] kind[w] = "trash" -> "recheck")
    /\ UNCHANGED <<world, state, kept, budget>>

Busy(w) ==
    /\ pc[w] = "lock" /\ holder # None
    /\ Ends(w, "ready")
    /\ UNCHANGED <<world, state, kept, holder, budget>>

StillFree(w) ==
    /\ pc[w] = "free"
    /\ IF live.content = Absent THEN GoesTo(w, "guard") ELSE Ends(w, "conflict")
    /\ UNCHANGED <<world, state, kept, holder, budget>>

\* The provider's own look before a rename that must not overwrite.
Guard(w) ==
    /\ pc[w] = "guard"
    /\ IF live.content = Absent THEN GoesTo(w, "rename") ELSE Ends(w, "ready")
    /\ UNCHANGED <<world, state, kept, holder, budget>>

Copies(w, copy) ==
    /\ kept' = [kept EXCEPT ![w] = copy]
    /\ GoesTo(w, "prove")

Copy(w) ==
    /\ pc[w] = "copy"
    /\ \/ /\ kept[w] # None
          /\ pc' = [pc EXCEPT ![w] = "prove"]
          /\ retained' = [retained EXCEPT ![w] = TRUE]
          /\ UNCHANGED <<outcome, witness, staged, kept>>
       \/ kept[w] = None /\ live.content # Absent /\ Copies(w, live.content)
       \/ kept[w] = None /\ live.content = Absent /\ Ends(w, "ready") /\ UNCHANGED kept
    /\ UNCHANGED <<world, state, holder, budget>>

\* The copy comes out cut short, with an error or without.
CopyDamaged(w) ==
    /\ pc[w] = "copy" /\ kept[w] = None /\ live.content # Absent
    /\ Fault("damage")
    /\ \/ Copies(w, Damaged)
       \/ kept' = [kept EXCEPT ![w] = Damaged] /\ Ends(w, "ready")
    /\ UNCHANGED <<world, state, holder>>

Prove_TrustsRetained(w) ==
    /\ pc[w] = "prove"
    /\ IF kept[w] # base[w].content /\ live.content # base[w].content
       THEN Ends(w, "conflict")
       ELSE IF kept[w] # base[w].content THEN Ends(w, "ready")
       ELSE GoesTo(w, "recheck")
    /\ UNCHANGED <<world, state, kept, holder, budget>>

Prove_CopyUnverified(w) ==
    /\ pc[w] = "prove"
    /\ IF live.content # base[w].content THEN Ends(w, "conflict") ELSE GoesTo(w, "recheck")
    /\ UNCHANGED <<world, state, kept, holder, budget>>

Prove_CopyDecides(w) ==
    /\ pc[w] = "prove"
    /\ IF kept[w] # base[w].content \/ (retained[w] /\ live.content # base[w].content)
       THEN Ends(w, "conflict")
       ELSE GoesTo(w, "recheck")
    /\ UNCHANGED <<world, state, kept, holder, budget>>

(***************************************************************************)
(* The digest of the recovery copy, and where that proves nothing about    *)
(* the path as it is now, of the path.                                     *)
(***************************************************************************)
Prove(w) ==
    /\ pc[w] = "prove"
    /\ IF (retained[w] \/ kept[w] # base[w].content) /\ live.content # base[w].content
       THEN Ends(w, "conflict")
       ELSE IF kept[w] # base[w].content THEN Ends(w, "ready")
       ELSE GoesTo(w, "recheck")
    /\ UNCHANGED <<world, state, kept, holder, budget>>

Recheck(w) ==
    /\ pc[w] = "recheck"
    /\ IF live.content = Absent \/ live.stamp # witness[w]
       THEN Ends(w, "conflict")
       ELSE GoesTo(w, "rename")
    /\ UNCHANGED <<world, state, kept, holder, budget>>

(***************************************************************************)
(* The rename at the storage.  A renamed upload has the time of its upload *)
(* on a file system and the time of the rename on a store that copies.  A  *)
(* move to the Trash of a file that is gone does nothing.                  *)
(***************************************************************************)
Arrives(content, stamp) ==
    /\ live' = [content |-> content, stamp |-> stamp, number |-> live.number + 1]
    /\ seen' = seen \union ({content} \ {Absent})

Lands(w) ==
    /\ published' = published \union {w}
    /\ UNCHANGED <<registered, kind, base, erased>>
    /\ \/ /\ kind[w] # "trash"
          /\ \E stamp \in {staged[w], now} : Arrives(w, stamp)
          /\ UNCHANGED kept
       \/ /\ kind[w] = "trash" /\ live.content # Absent
          /\ kept' = [kept EXCEPT ![w] = live.content]
          /\ Arrives(Absent, now)

NoEffect == UNCHANGED <<live, registered, kind, base, history, kept>>

Rename(w) ==
    /\ pc[w] = "rename"
    /\ \/ Lands(w) /\ GoesTo(w, "unlock")
       \/ kind[w] = "trash" /\ live.content = Absent /\ NoEffect /\ Ends(w, "uncertain")
    /\ UNCHANGED <<inFlight, state, holder, budget>>

RenameLost_Retryable(w) ==
    /\ pc[w] = "rename"
    /\ Fault("lost")
    /\ Lands(w) \/ NoEffect
    /\ Ends(w, "ready")
    /\ UNCHANGED <<inFlight, state, holder>>

\* The request fails without an answer, whether or not the storage did it.
RenameLost(w) ==
    /\ pc[w] = "rename"
    /\ Fault("lost")
    /\ Lands(w) \/ NoEffect
    /\ Ends(w, "uncertain")
    /\ UNCHANGED <<inFlight, state, holder>>

\* The request times out and the storage does it later.
RenameLate(w) ==
    /\ pc[w] = "rename"
    /\ Fault("late")
    /\ inFlight' = inFlight \union {w}
    /\ NoEffect
    /\ Ends(w, "uncertain")
    /\ UNCHANGED <<state, holder>>

LateRename(w) ==
    /\ w \in inFlight
    /\ inFlight' = inFlight \ {w}
    /\ Lands(w) \/ (kind[w] = "trash" /\ live.content = Absent /\ NoEffect)
    /\ UNCHANGED <<state, attempt, holder, budget>>

Unlock(w) ==
    /\ pc[w] = "unlock"
    /\ holder' = None
    /\ GoesTo(w, IF outcome[w] = None THEN "registry" ELSE "settle")
    /\ UNCHANGED <<world, state, kept, budget>>

\* The item follows the file it names, and a published file is looked at once
\* more for the receipt.
Registry(w) ==
    /\ pc[w] = "registry"
    /\ registered' = (registered /\ kind[w] # "trash")
    /\ IF kind[w] # "trash" /\ live.content = Absent
       THEN Ends(w, "uncertain")
       ELSE GoesTo(w, "complete")
    /\ UNCHANGED <<live, inFlight, history, kind, base, state, kept, holder, budget>>

Complete(w) ==
    /\ pc[w] = "complete"
    /\ IF state[w] = "committing"
       THEN state' = [state EXCEPT ![w] = "completed"] /\ Forgotten(w)
       ELSE UNCHANGED state /\ Ends(w, "uncertain")
    /\ UNCHANGED <<world, kept, holder, budget>>

Settle(w) ==
    /\ pc[w] = "settle"
    /\ state' = [state EXCEPT ![w] = IF @ = "committing" THEN outcome[w] ELSE @]
    /\ Forgotten(w)
    /\ UNCHANGED <<world, kept, holder, budget>>

(***************************************************************************)
(* A call of the step under way fails: the storage's, the database's, or   *)
(* the authority that was revoked.  Once the storage was asked to rename,  *)
(* the provider's own look before it included, nobody may retry.           *)
(***************************************************************************)
CallFails(w) ==
    /\ pc[w] \notin {"idle", "rename", "unlock", "settle"}
    /\ Fault("error")
    /\ Ends(w, IF pc[w] \in {"guard", "registry", "complete"} THEN "uncertain" ELSE "ready")
    /\ UNCHANGED <<world, state, kept, holder>>

\* The process stops: its database session, and the lock with it, is gone.
Crash(w) ==
    /\ pc[w] # "idle"
    /\ Fault("crash")
    /\ holder' = IF holder = w THEN None ELSE holder
    /\ Forgotten(w)
    /\ UNCHANGED <<world, state, kept>>

(***************************************************************************)
(* An administrator settles a commit without a receipt, which may still be *)
(* at work, on what the storage shows.                                     *)
(***************************************************************************)
Shows(w) == IF kind[w] = "trash" THEN w \in published ELSE live.content = w

ResolvePublished(w) ==
    /\ state[w] \in {"uncertain", "committing"}
    /\ Shows(w)
    /\ Fault("resolve")
    /\ state' = [state EXCEPT ![w] = "completed"]
    /\ registered' = (registered /\ kind[w] # "trash")
    /\ UNCHANGED <<live, inFlight, history, kind, base, attempt, kept, holder>>

ResolveDiscarded(w) ==
    /\ state[w] \in {"uncertain", "committing"}
    /\ Fault("resolve")
    /\ state' = [state EXCEPT ![w] = "cancelled"]
    /\ UNCHANGED <<world, attempt, kept, holder>>

(***************************************************************************)
(* Other clients take no lock.  The accepted risk is that one writes after *)
(* a commit has proven the path and before its rename.                     *)
(***************************************************************************)
Proven ==
    \E w \in Writers :
        pc[w] \in {"guard", "recheck", "rename"} \/ (pc[w] = "prove" /\ ~retained[w])

Other(content) ==
    /\ writes < MaxWrites /\ writes' = writes + 1
    /\ Racy \/ ~Proven
    /\ content # live.content
    /\ Arrives(content, now)
    /\ erased' = erased \union ({live.content} \ {Absent})
    /\ UNCHANGED <<registered, inFlight, published, kind, base, state, attempt, kept,
                   holder, now, faults>>

Tick ==
    /\ now < MaxTime
    /\ now' = now + 1
    /\ UNCHANGED <<world, state, attempt, kept, holder, faults, writes>>

Step(w) ==
    \/ CheckName(w) \/ CheckMetadata(w) \/ CheckContent(w) \/ Witness(w) \/ Stage(w)
    \/ Acquire(w) \/ Busy(w) \/ StillFree(w) \/ Guard(w) \/ Copy(w) \/ Prove(w)
    \/ Recheck(w) \/ Rename(w) \/ Unlock(w) \/ Registry(w) \/ Complete(w) \/ Settle(w)

PromptFailure(w) ==
    \/ CopyDamaged(w) \/ RenameLost(w) \/ CallFails(w) \/ Crash(w)
    \/ ResolvePublished(w) \/ ResolveDiscarded(w)

Failure(w) == PromptFailure(w) \/ RenameLate(w)

PromptNext ==
    \/ \E w \in Writers : Prepare(w) \/ Claim(w) \/ Step(w) \/ PromptFailure(w)
    \/ \E content \in Others \union {Original, Absent} : Other(content)
    \/ Tick

Next == PromptNext \/ \E w \in Writers : RenameLate(w) \/ LateRename(w)

(* The storage performs a rename while its request waits, or never.        *)
PromptSpec == Init /\ [][PromptNext]_vars

Spec == Init /\ [][Next]_vars

(***************************************************************************)
(* A commit under way runs on, and a client retries what is ready.         *)
(***************************************************************************)
FairSpec ==
    Spec /\ \A w \in Writers : WF_vars(Prepare(w)) /\ WF_vars(Claim(w)) /\ WF_vars(Step(w))

-------------------------------------------------------------------------------
(***************************************************************************)
(* Every variable has its type.                                            *)
(***************************************************************************)
TypeOK ==
    /\ live \in Version
    /\ registered \in BOOLEAN
    /\ now \in Nat /\ faults \in Nat /\ writes \in Nat
    /\ kind \in [Writers -> Kinds]
    /\ base \in [Writers -> Version]
    /\ state \in [Writers -> States]
    /\ pc \in [Writers -> Steps]
    /\ outcome \in [Writers -> {"ready", "conflict", "uncertain", None}]
    /\ witness \in [Writers -> Nat]
    /\ staged \in [Writers -> Nat]
    /\ kept \in [Writers -> Contents \union {Damaged, None}]
    /\ retained \in [Writers -> BOOLEAN]
    /\ holder \in Writers \union {None}
    /\ inFlight \subseteq Writers
    /\ published \subseteq Writers
    /\ seen \subseteq Contents /\ erased \subseteq Contents

\* The commits of one file are atomic saves (writes.ts 878-927): every one
\* replaces exactly what its client based it on or does not happen, and is
\* refused only if somebody changed the file.
Recoverable == {kept[w] : w \in {x \in published : kind[x] # "create"}}

Status(w) ==
    CASE w \in published -> "done"
      [] w \notin published /\ state[w] = "new" -> "new"
      [] w \notin published /\ state[w] = "conflict" -> "refused"
      [] w \notin published /\ state[w] = "cancelled" -> "dropped"
      [] OTHER -> "open"

Atomic == INSTANCE AtomicSave WITH
    file <- [content |-> live.content, number |-> live.number],
    recoverable <- Recoverable,
    base <- [w \in Writers |-> [content |-> base[w].content, number |-> base[w].number]],
    status <- [w \in Writers |-> Status(w)]

ImplementsAtomicSave == Atomic!Spec

\* Whatever was at the path at some time is still there, in a recovery copy or
\* in the Trash, unless a client outside fdrive replaced it (writes.ts 936-945).
NothingLost == seen \subseteq {live.content} \union Recoverable \union erased

\* What can be retried, or was given back as a conflict, has published nothing
\* and never will (writes.ts 1067-1077).
RetryIsSafe ==
    \A w \in Writers :
        state[w] \in {"new", "ready", "conflict"} => w \notin published \union inFlight

\* A completed operation was published, and a completed save has kept the
\* version that its client replaced (writes.ts 896-922).
CompletedIsRecoverable ==
    \A w \in Writers :
        state[w] = "completed" =>
            w \in published /\ (kind[w] = "save" => kept[w] = base[w].content)

\* A conflict makes the client fork the file, so it is reported only if the file
\* changed after all (writes.ts 902-908).
ConflictIsReal == \A w \in Writers : state[w] = "conflict" => Atomic!Changed(w)

\* However commits interleave, contend, fail or crash, each comes to an end: it is
\* completed or a conflict, or waits for an administrator, or its file is gone
\* (writes.ts 1067-1077).
EveryCommitEnds ==
    \A w \in Writers :
        state[w] = "ready" ~> \/ state[w] \in {"completed", "conflict", "uncertain"}
                              \/ state[w] = "committing" /\ pc[w] = "idle"
                              \/ kind[w] # "create" /\ (live.content = Absent \/ ~registered)
===============================================================================
