------------------------------ MODULE AtomicSave ------------------------------
(***************************************************************************)
(* What the desktop commits of one file promise together: each is one      *)
(* indivisible step or none.  A save replaces exactly the contents it was  *)
(* based on and leaves them recoverable, a creation never replaces         *)
(* anything, a move to the Trash takes whatever is there with it, and an   *)
(* operation is refused as a conflict only when the file really changed.   *)
(* Specified from commit() in apps/api/src/desktop/writes.ts and           *)
(* docs/plans/STOCK-SFTPGO-WRITES.md; DesktopPublish implements it.        *)
(***************************************************************************)
EXTENDS Naturals

CONSTANTS Writers, Others, Original, Absent

Contents == {Original} \union Writers \union Others

Kinds == {"save", "create", "trash"}

Version == [content : Contents \union {Absent}, number : Nat]

(***************************************************************************)
(* file: the contents at the path and how often they have changed.         *)
(* recoverable: the contents kept in recovery copies and in the Trash.     *)
(* base: the version an operation was prepared against.                    *)
(* status: "new", "open", "done", "refused" or "dropped".                  *)
(***************************************************************************)
VARIABLES file, recoverable, kind, base, status

vars == <<file, recoverable, kind, base, status>>

Init ==
    /\ file \in [content : {Original, Absent}, number : {0}]
    /\ recoverable = {}
    /\ kind \in [Writers -> Kinds]
    /\ base = [w \in Writers |-> file]
    /\ status = [w \in Writers |-> "new"]

Holds(content) == file' = [content |-> content, number |-> file.number + 1]

Prepare(w) ==
    /\ status[w] = "new"
    /\ base' = [base EXCEPT ![w] = file]
    /\ status' = [status EXCEPT ![w] = "open"]
    /\ UNCHANGED <<file, recoverable, kind>>

Save(w) ==
    /\ status[w] \in {"open", "dropped"} /\ kind[w] = "save"
    /\ file.content = base[w].content
    /\ Holds(w)
    /\ recoverable' = recoverable \union {file.content}
    /\ status' = [status EXCEPT ![w] = "done"]
    /\ UNCHANGED <<kind, base>>

Create(w) ==
    /\ status[w] \in {"open", "dropped"} /\ kind[w] = "create"
    /\ file.content = Absent
    /\ Holds(w)
    /\ status' = [status EXCEPT ![w] = "done"]
    /\ UNCHANGED <<recoverable, kind, base>>

Trash(w) ==
    /\ status[w] \in {"open", "dropped"} /\ kind[w] = "trash"
    /\ file.content # Absent
    /\ Holds(Absent)
    /\ recoverable' = recoverable \union {file.content}
    /\ status' = [status EXCEPT ![w] = "done"]
    /\ UNCHANGED <<kind, base>>

(***************************************************************************)
(* Somebody changed the file since the operation was prepared, or the name *)
(* it was to create was taken already.                                     *)
(***************************************************************************)
Changed(w) ==
    \/ file.number # base[w].number
    \/ kind[w] = "create" /\ base[w].content # Absent

Refuse(w) ==
    /\ status[w] = "open"
    /\ Changed(w)
    /\ status' = [status EXCEPT ![w] = "refused"]
    /\ UNCHANGED <<file, recoverable, kind, base>>

\* An administrator gives an operation up without touching the file.  A commit
\* still at work may publish all the same.
Drop(w) ==
    /\ status[w] = "open"
    /\ status' = [status EXCEPT ![w] = "dropped"]
    /\ UNCHANGED <<file, recoverable, kind, base>>

\* A client that fdrive does not mediate.
Other(content) ==
    /\ Holds(content)
    /\ UNCHANGED <<recoverable, kind, base, status>>

Next ==
    \/ \E w \in Writers :
        Prepare(w) \/ Save(w) \/ Create(w) \/ Trash(w) \/ Refuse(w) \/ Drop(w)
    \/ \E content \in Others \union {Original, Absent} : Other(content)

Spec == Init /\ [][Next]_vars
===============================================================================
