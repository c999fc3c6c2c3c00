------------------------------ MODULE WebdavLease ------------------------------
(***************************************************************************)
(* The write leases of a WebDAV storage: withWebdavWriteLease of           *)
(* packages/webdav/src/write-lease.ts, and the publications of desktop     *)
(* writes that run in one (apps/api/src/desktop/writes.ts).                *)
(*                                                                         *)
(* One path.  A lease is an exclusive lock of the whole endpoint under a   *)
(* token of its own, so it stands for its token and for what it publishes. *)
(* Requests may arrive after their sender has given them up.  The server   *)
(* is Apache's mod_dav: a lock is over when it says so, also while its     *)
(* owner sleeps, and a condition on a resource that is not locked and not  *)
(* the request's own is not looked at.                                     *)
(***************************************************************************)
EXTENDS Integers, FiniteSets

CONSTANTS
    Leases,        \* calls of withWebdavWriteLease
    LeaseUses,     \* what each publishes: "save", "create" or "folder"
    NoLease,       \* the endpoint is not locked, nothing is at the path
    MaxLosses,     \* bound: lost answers, unfit locks, leases cut short
    MaxOutside     \* bound: writes of clients that take no lease

ASSUME LeaseAssumption ==
    /\ LeaseUses \subseteq [Leases -> {"save", "create", "folder"}]
    /\ NoLease \notin Leases /\ Leases \intersect (0..MaxOutside) = {}
    /\ {MaxLosses, MaxOutside} \subseteq Nat

Outside == 1..MaxOutside

(***************************************************************************)
(* resource: who wrote what is at the path, NoLease if nothing is there.   *)
(* davLock: whose token the endpoint is locked with.  lease: per call its  *)
(* step, what it found at the path, its renewal and whether it is aborted. *)
(* davRequests: what is on its way to the server.  losses, outside: spent. *)
(***************************************************************************)
VARIABLES uses, resource, davLock, lease, davRequests, losses, outside

leaseVars == <<uses, resource, davLock, lease, davRequests, losses, outside>>

LeaseInit ==
    /\ uses \in LeaseUses
    /\ resource \in {0, NoLease}
    /\ davLock = NoLease
    /\ lease = [l \in Leases |-> [step |-> "new", proved |-> NoLease,
                                  renewal |-> "none", aborted |-> FALSE]]
    /\ davRequests = {}
    /\ losses = 0
    /\ outside = 0

Loses == losses < MaxLosses /\ losses' = losses + 1

LeaseGoes(l, step) == lease' = [lease EXCEPT ![l].step = step]

-----------------------------------------------------------------------------
(* lock: asked once, and refused while anybody holds the endpoint.         *)
LeaseAsks(l) ==
    /\ lease[l].step = "new"
    /\ LeaseGoes(l, "lock")
    /\ davRequests' = davRequests \union {<<l, "lock">>}
    /\ UNCHANGED <<uses, resource, davLock, losses, outside>>

LockArrives(l) ==
    /\ <<l, "lock">> \in davRequests
    /\ davRequests' = davRequests \ {<<l, "lock">>}
    /\ davLock' = IF davLock = NoLease THEN l ELSE davLock
    /\ IF lease[l].step = "lock"
       THEN LeaseGoes(l, IF davLock = NoLease THEN "granted" ELSE "done")
       ELSE UNCHANGED lease
    /\ UNCHANGED <<uses, resource, losses, outside>>

LeaseBegins(l) ==
    /\ lease[l].step = "granted"
    /\ LeaseGoes(l, "work")
    /\ UNCHANGED <<uses, resource, davLock, davRequests, losses, outside>>

(* A lock that is too short or not exclusive is given back before any work. *)
LeaseUnfit(l) ==
    /\ lease[l].step = "granted"
    /\ Loses
    /\ LeaseGoes(l, "unlock")
    /\ UNCHANGED <<uses, resource, davLock, davRequests, outside>>

LockUnanswered(l) ==
    /\ lease[l].step \in {"lock", "granted"}
    /\ Loses
    /\ LeaseGoes(l, "done")
    /\ UNCHANGED <<uses, resource, davLock, davRequests, outside>>

-----------------------------------------------------------------------------
(* The interval: one renewal at a time, none once the work is over.        *)
Working == {"work", "proved", "sent"}

Renews(l) ==
    /\ lease[l].step \in Working
    /\ lease[l].renewal = "none" /\ ~lease[l].aborted
    /\ lease' = [lease EXCEPT ![l].renewal = "asked"]
    /\ UNCHANGED <<uses, resource, davLock, davRequests, losses, outside>>

RenewalAnswered(l) ==
    /\ lease[l].renewal = "asked"
    /\ \/ lease' = [lease EXCEPT ![l].renewal = "none", ![l].aborted = @ \/ davLock # l]
          /\ UNCHANGED losses
       \/ lease' = [lease EXCEPT ![l].renewal = "none", ![l].aborted = TRUE] /\ Loses
       \/ lease' = [lease EXCEPT ![l].renewal = "unfit"] /\ Loses
    /\ UNCHANGED <<uses, resource, davLock, davRequests, outside>>

DavUnlocked(l) == davLock' = IF davLock = l THEN NoLease ELSE davLock

(* A renewal that grants too little unlocks at once, under the running work. *)
RenewalUnlocks(l) ==
    /\ lease[l].renewal = "unfit"
    /\ DavUnlocked(l)
    /\ lease' = [lease EXCEPT ![l].renewal = "none", ![l].aborted = TRUE]
    /\ UNCHANGED <<uses, resource, davRequests, losses, outside>>

-----------------------------------------------------------------------------
(* The last look before a publication: the proof of a save, the free name  *)
(* of a creation.                                                          *)
LeaseProves(l) ==
    /\ lease[l].step = "work" /\ ~lease[l].aborted
    /\ lease' = [lease EXCEPT
          ![l].proved = resource,
          ![l].step = IF uses[l] = "save" <=> resource # NoLease THEN "proved" ELSE "end"]
    /\ UNCHANGED <<uses, resource, davLock, davRequests, losses, outside>>

(* scopedFetch: the request leaves with the lease's token as its condition. *)
LeasePublishes(l) ==
    /\ lease[l].step = "proved" /\ ~lease[l].aborted
    /\ LeaseGoes(l, "sent")
    /\ davRequests' = davRequests \union {<<l, "publish">>}
    /\ UNCHANGED <<uses, resource, davLock, losses, outside>>

(***************************************************************************)
(* A move is conditional on the token of what it moves and, if it may      *)
(* overwrite, of what it replaces.  A new folder has no token of its own:  *)
(* it is conditional on that of the root, which is not looked at when      *)
(* nobody has locked it.                                                   *)
(***************************************************************************)
TokenHolds_RootOnly(l) == davLock \in {l, NoLease}

TokenHolds(l) == IF uses[l] = "folder" THEN davLock \in {l, NoLease} ELSE davLock = l

PublicationArrives(l) ==
    /\ <<l, "publish">> \in davRequests
    /\ davRequests' = davRequests \ {<<l, "publish">>}
    /\ resource' = IF TokenHolds(l) /\ (uses[l] = "save" \/ resource = NoLease)
                   THEN l ELSE resource
    /\ UNCHANGED <<uses, davLock, lease, losses, outside>>

PublicationAnswered(l) ==
    /\ lease[l].step = "sent"
    /\ <<l, "publish">> \notin davRequests
    /\ LeaseGoes(l, "end")
    /\ UNCHANGED <<uses, resource, davLock, davRequests, losses, outside>>

(* Aborted, or a request that takes too long: the work throws.             *)
WorkThrows(l) ==
    /\ lease[l].step \in Working
    /\ (lease[l].aborted /\ UNCHANGED losses) \/ Loses
    /\ LeaseGoes(l, "end")
    /\ UNCHANGED <<uses, resource, davLock, davRequests, outside>>

-----------------------------------------------------------------------------
(* finally: no more requests, the last renewal is awaited, then unlock.    *)
LeaseEnds(l) ==
    /\ lease[l].step = "end" /\ lease[l].renewal = "none"
    /\ lease' = [lease EXCEPT ![l].step = "unlock", ![l].aborted = TRUE]
    /\ UNCHANGED <<uses, resource, davLock, davRequests, losses, outside>>

LeaseUnlocks(l) ==
    /\ lease[l].step = "unlock"
    /\ LeaseGoes(l, "done")
    /\ \/ DavUnlocked(l) /\ UNCHANGED losses
       \/ Loses /\ UNCHANGED davLock
    /\ UNCHANGED <<uses, resource, davRequests, outside>>

(* The server ends a lock that is not renewed, or not in time.             *)
LeaseRunsOut(l) ==
    /\ davLock = l
    /\ (lease[l].step = "done" /\ UNCHANGED losses) \/ Loses
    /\ davLock' = NoLease
    /\ UNCHANGED <<uses, resource, lease, davRequests, outside>>

(* A client without a lease writes or deletes while nobody has locked.     *)
OutsideWrites ==
    /\ davLock = NoLease
    /\ outside < MaxOutside /\ outside' = outside + 1
    /\ resource' \in {outside', NoLease} \ {resource}
    /\ UNCHANGED <<uses, davLock, lease, davRequests, losses>>

RenewalStep(l) == RenewalAnswered(l) \/ RenewalUnlocks(l)

LeaseStep(l) ==
    \/ LockArrives(l) \/ LeaseBegins(l) \/ LockUnanswered(l) \/ LeaseUnfit(l)
    \/ LeaseProves(l) \/ LeasePublishes(l) \/ PublicationArrives(l)
    \/ PublicationAnswered(l) \/ WorkThrows(l)
    \/ LeaseEnds(l) \/ LeaseUnlocks(l) \/ LeaseRunsOut(l)

LeaseNext ==
    \/ \E l \in Leases : LeaseAsks(l) \/ LeaseStep(l) \/ Renews(l) \/ RenewalStep(l)
    \/ OutsideWrites

LeaseSpec == LeaseInit /\ [][LeaseNext]_leaseVars

-----------------------------------------------------------------------------
LeaseTypeOK ==
    /\ uses \in LeaseUses
    /\ resource \in Leases \union {0, NoLease} \union Outside
    /\ davLock \in Leases \union {NoLease}
    /\ lease \in [Leases -> [step : {"new", "lock", "granted", "unlock", "end", "done"}
                                        \union Working,
                             proved : {0, NoLease} \union Leases \union Outside,
                             renewal : {"none", "asked", "unfit"}, aborted : BOOLEAN]]
    /\ davRequests \subseteq Leases \X {"lock", "publish"}
    /\ losses \in 0..MaxLosses /\ outside \in 0..MaxOutside

(***************************************************************************)
(* What a publication replaces is what its lease found there: a request    *)
(* that is delayed beyond the end of its lease, past the lock of another   *)
(* or the write of a client without one, changes nothing it has not seen.  *)
(***************************************************************************)
ReplacesWhatItProved ==
    [][\A l \in Leases :
          resource' = l /\ resource # l => resource = lease[l].proved]_leaseVars

(* Every lease ends, and with or without its unlock the endpoint is free.  *)
LeasesSettle ==
    <>[](davLock = NoLease /\ \A l \in Leases : lease[l].step \in {"new", "done"})
===============================================================================
