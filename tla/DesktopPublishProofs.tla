------------------------- MODULE DesktopPublishProofs -------------------------
(***************************************************************************)
(* Proofs about DesktopPublish, for any number of operations, contents,    *)
(* faults and seconds, whatever other clients write and the storage does   *)
(* late; then, without those two, that it implements AtomicSave.           *)
(***************************************************************************)
EXTENDS DesktopPublish, TLAPS

Section == {"free", "guard", "copy", "prove", "recheck", "rename", "unlock"}

Sent == published \union inFlight

(***************************************************************************)
(* Where a commit is tells its kind, who holds the lock, what its row can  *)
(* be, and whether its rename was sent.                                    *)
(***************************************************************************)
Control(w) ==
    /\ pc[w] \in Section => holder = w
    /\ pc[w] \in {"free", "guard"} => kind[w] = "create"
    /\ pc[w] \in {"copy", "prove"} => kind[w] = "save"
    /\ pc[w] \in {"digest", "witness", "recheck"} => kind[w] # "create"
    /\ pc[w] = "stage" => kind[w] # "trash"
    /\ pc[w] \notin {"unlock", "settle"} => outcome[w] = None
    /\ pc[w] = "settle" => outcome[w] # None
    /\ pc[w] # "idle" => state[w] \in {"committing", "cancelled", "completed"}
    /\ w \in Sent => /\ state[w] \notin {"new", "ready", "conflict"}
                     /\ pc[w] \in {"idle", "unlock", "registry", "complete", "settle"}
                     /\ outcome[w] \in {None, "uncertain"}
    /\ pc[w] \in {"registry", "complete"} => w \in published
    /\ pc[w] = "unlock" /\ outcome[w] = None => w \in published
    /\ state[w] = "completed" => w \in published

(***************************************************************************)
(* What a commit knows of the path compared with what is there.            *)
(***************************************************************************)
Data(w) ==
    /\ base[w].number <= live.number
    /\ base[w].number = live.number => base[w] = live
    /\ kind[w] # "create" /\ state[w] # "new" => base[w].content # Absent
    /\ kind[w] = "save" /\ (w \in Sent \/ pc[w] \in {"recheck", "rename"}) =>
          kept[w] = base[w].content
    /\ kind[w] # "create" /\ pc[w] \in {"stage", "lock", "copy", "prove", "recheck"} =>
          witness[w] = base[w].stamp \/ live.number # base[w].number
    /\ outcome[w] = "conflict" \/ state[w] = "conflict" => Atomic!Changed(w)
    /\ live.content = w => w \in published

Inv ==
    /\ TypeOK
    /\ \A w \in Writers : Control(w)
    /\ \A w \in Writers : Data(w)

(***************************************************************************)
(* The three ways a commit moves on, operation by operation.               *)
(***************************************************************************)
LEMMA GoesOn ==
  ASSUME TypeOK, NEW w \in Writers, NEW step \in Steps, GoesTo(w, step)
  PROVE  /\ pc' \in [Writers -> Steps]
         /\ pc'[w] = step /\ \A v \in Writers \ {w} : pc'[v] = pc[v]
         /\ outcome' = outcome /\ witness' = witness
         /\ staged' = staged /\ retained' = retained
BY DEF TypeOK, GoesTo

LEMMA EndsWith ==
  ASSUME TypeOK, NEW w \in Writers, NEW result \in {"ready", "conflict", "uncertain"},
         Ends(w, result)
  PROVE  /\ pc' \in [Writers -> Steps]
         /\ holder = w => pc'[w] = "unlock"
         /\ holder # w => pc'[w] = "settle"
         /\ \A v \in Writers \ {w} : pc'[v] = pc[v]
         /\ outcome' \in [Writers -> {"ready", "conflict", "uncertain", None}]
         /\ outcome'[w] = result
         /\ \A v \in Writers \ {w} : outcome'[v] = outcome[v]
         /\ witness' = witness /\ staged' = staged /\ retained' = retained
BY DEF TypeOK, Ends, Steps

LEMMA IsForgotten ==
  ASSUME TypeOK, NEW w \in Writers, Forgotten(w)
  PROVE  /\ pc' \in [Writers -> Steps]
         /\ pc'[w] = "idle" /\ \A v \in Writers \ {w} : pc'[v] = pc[v]
         /\ outcome' \in [Writers -> {"ready", "conflict", "uncertain", None}]
         /\ outcome'[w] = None
         /\ \A v \in Writers \ {w} : outcome'[v] = outcome[v]
         /\ witness' \in [Writers -> Nat]
         /\ \A v \in Writers \ {w} : witness'[v] = witness[v]
         /\ retained' \in [Writers -> BOOLEAN]
         /\ \A v \in Writers \ {w} : retained'[v] = retained[v]
         /\ staged' = staged
BY DEF TypeOK, Forgotten, Steps

LEMMA Landed ==
  ASSUME TypeOK, NEW w \in Writers, Lands(w)
  PROVE  /\ published' = published \union {w}
         /\ UNCHANGED <<registered, kind, base, erased>>
         /\ live' \in Version /\ live'.number = live.number + 1
         /\ seen' \subseteq Contents
         /\ kind[w] # "trash" => live'.content = w /\ kept' = kept
         /\ kind[w] = "trash" => live'.content = Absent /\ live.content # Absent
         /\ kept' \in [Writers -> Contents \union {Damaged, None}]
         /\ \A v \in Writers \ {w} : kept'[v] = kept[v]
BY PublishAssumption DEF TypeOK, Lands, Arrives, Version, Contents

(***************************************************************************)
(* Control of an operation that does not itself move.                      *)
(***************************************************************************)
LEMMA Bystander ==
  ASSUME NEW v \in Writers, Control(v),
         pc'[v] = pc[v], outcome'[v] = outcome[v], state'[v] = state[v],
         kind' = kind, holder = v => holder' = v,
         v \in published' <=> v \in published, v \in inFlight' <=> v \in inFlight
  PROVE  Control(v)'
BY DEF Control, Sent

(* Types are kept by the steps of a commit. *)
LEMMA StepsType ==
  ASSUME NEW w \in Writers, Inv, Step(w)
  PROVE  TypeOK'
<1> USE PublishAssumption DEF Inv, TypeOK, Contents, Kinds, States, Steps,
  Version, vars, world, history, attempt, budget
<1>1. CASE CheckName(w)
  BY <1>1, GoesOn, EndsWith DEF CheckName
<1>2. CASE CheckMetadata(w)
  BY <1>2, GoesOn, EndsWith DEF CheckMetadata
<1>3. CASE CheckContent(w)
  BY <1>3, GoesOn, EndsWith DEF CheckContent
<1>4. CASE Witness(w)
  <2>1. CASE live.content = Absent
    BY <2>1, <1>4, EndsWith DEF Witness
  <2>2. CASE live.content # Absent
    BY <2>2, <1>4, EndsWith DEF Witness
  <2> QED
    BY <2>1, <2>2
<1>5. CASE Stage(w)
  BY <1>5, EndsWith DEF Stage
<1>6. CASE Acquire(w)
  BY <1>6, GoesOn DEF Acquire
<1>7. CASE Busy(w)
  BY <1>7, EndsWith DEF Busy
<1>8. CASE StillFree(w)
  BY <1>8, GoesOn, EndsWith DEF StillFree
<1>9. CASE Guard(w)
  BY <1>9, GoesOn, EndsWith DEF Guard
<1>10. CASE Copy(w)
  <2>1. pc' \in [Writers -> Steps] /\ retained' \in [Writers -> BOOLEAN]
    <3>1. CASE kept[w] # None
      <4>1. /\ pc' = [pc EXCEPT ![w] = "prove"]
            /\ retained' = [retained EXCEPT ![w] = TRUE]
        BY <1>10, <3>1 DEF Copy
      <4> QED
        BY <4>1
    <3>2. CASE kept[w] = None
      BY <1>10, <3>2, GoesOn, EndsWith DEF Copy, Copies
    <3> QED
      BY <3>1, <3>2
  <2>2. kept' \in [Writers -> Contents \union {Damaged, None}]
    BY <1>10 DEF Copy, Copies
  <2>3. /\ outcome' \in [Writers -> {"ready", "conflict", "uncertain", None}]
        /\ witness' = witness /\ staged' = staged
    BY <1>10, GoesOn, EndsWith DEF Copy, Copies
  <2> QED
    BY <1>10, <2>1, <2>2, <2>3 DEF Copy
<1>11. CASE Prove(w)
  BY <1>11, GoesOn, EndsWith DEF Prove
<1>12. CASE Recheck(w)
  BY <1>12, GoesOn, EndsWith DEF Recheck
<1>13. CASE Rename(w)
  BY <1>13, GoesOn, EndsWith, Landed DEF Rename, NoEffect
<1>14. CASE Unlock(w)
  BY <1>14, GoesOn DEF Unlock
<1>15. CASE Registry(w)
  BY <1>15, GoesOn, EndsWith DEF Registry
<1>16. CASE Complete(w)
  BY SMTT(30), <1>16, IsForgotten, EndsWith DEF Complete
<1>17. CASE Settle(w)
  BY <1>17, IsForgotten DEF Settle, Control
<1> QED
  BY <1>1, <1>2, <1>3, <1>4, <1>5, <1>6, <1>7, <1>8, <1>9, <1>10, <1>11,
    <1>12, <1>13, <1>14, <1>15, <1>16, <1>17 DEF Step

(* Types are kept by what goes wrong. *)
LEMMA FailuresType ==
  ASSUME NEW w \in Writers, Inv, Failure(w)
  PROVE  TypeOK'
<1> USE PublishAssumption DEF Inv, TypeOK, Contents, Kinds, States, Steps,
  Version, vars, world, history, attempt, budget
<1>1. CASE CopyDamaged(w)
  BY SMTT(30), <1>1, GoesOn, EndsWith DEF CopyDamaged, Copies, Fault
<1>2. CASE RenameLost(w)
  BY <1>2, EndsWith, Landed DEF RenameLost, NoEffect, Fault
<1>3. CASE RenameLate(w)
  BY <1>3, EndsWith DEF RenameLate, NoEffect, Fault
<1>4. CASE CallFails(w)
  BY <1>4, EndsWith DEF CallFails, Fault
<1>5. CASE Crash(w)
  BY <1>5, IsForgotten DEF Crash, Fault
<1>6. CASE ResolvePublished(w)
  BY <1>6 DEF ResolvePublished, Fault, Shows
<1>7. CASE ResolveDiscarded(w)
  BY <1>7 DEF ResolveDiscarded, Fault
<1> QED
  BY <1>1, <1>2, <1>3, <1>4, <1>5, <1>6, <1>7 DEF Failure, PromptFailure

(* Types are kept by clients, the storage and the clock. *)
LEMMA WorldType ==
  ASSUME NEW w \in Writers, Inv,
         NEW content \in Others \union {Original, Absent},
         Prepare(w) \/ Claim(w) \/ LateRename(w) \/ Other(content) \/ Tick
  PROVE  TypeOK'
<1> USE PublishAssumption DEF Inv, TypeOK, Contents, Kinds, States, Steps,
  Version, vars, world, history, attempt, budget
<1>1. CASE Prepare(w)
  BY <1>1 DEF Prepare
<1>2. CASE Claim(w)
  BY <1>2, GoesOn DEF Claim
<1>3. CASE LateRename(w)
  BY <1>3, Landed DEF LateRename, NoEffect
<1>4. CASE Other(content)
  BY <1>4 DEF Other, Arrives
<1>5. CASE Tick
  BY <1>5 DEF Tick
<1> QED
  BY <1>1, <1>2, <1>3, <1>4, <1>5

(* An operation's own Control is kept by the steps of a commit. *)
LEMMA StepsOwn ==
  ASSUME NEW w \in Writers, TypeOK, Control(w), Data(w), Step(w)
  PROVE  Control(w)'
<1> USE PublishAssumption DEF Control, Section, Sent, Steps, Contents, vars, world, history, attempt, budget
<1>1. CASE CheckName(w)
  BY <1>1, GoesOn, EndsWith DEF CheckName
<1>2. CASE CheckMetadata(w)
  BY <1>2, GoesOn, EndsWith DEF CheckMetadata
<1>3. CASE CheckContent(w)
  BY <1>3, GoesOn, EndsWith DEF CheckContent
<1>4. CASE Witness(w)
  <2>1. CASE live.content = Absent
    BY <2>1, <1>4, EndsWith DEF Witness, TypeOK
  <2>2. CASE live.content # Absent
    BY <2>2, <1>4, EndsWith DEF Witness, TypeOK
  <2> QED
    BY <2>1, <2>2
<1>5. CASE Stage(w)
  <2>1. CASE state[w] = "committing"
    BY <2>1, <1>5, EndsWith DEF Stage, TypeOK
  <2>2. CASE state[w] # "committing"
    BY <2>2, <1>5, EndsWith DEF Stage, TypeOK
  <2> QED
    BY <2>1, <2>2
<1>6. CASE Acquire(w)
  <2>1. CASE kind[w] = "save"
    BY <2>1, <1>6, GoesOn DEF Acquire
  <2>2. CASE kind[w] = "create"
    BY <2>2, <1>6, GoesOn DEF Acquire
  <2>3. CASE kind[w] = "trash"
    BY <2>3, <1>6, GoesOn DEF Acquire
  <2> QED
    BY <1>6, <2>1, <2>2, <2>3 DEF TypeOK, Kinds
<1>7. CASE Busy(w)
  BY <1>7, EndsWith DEF Busy
<1>8. CASE StillFree(w)
  BY <1>8, GoesOn, EndsWith DEF StillFree
<1>9. CASE Guard(w)
  BY <1>9, GoesOn, EndsWith DEF Guard
<1>10. CASE Copy(w)
  <2>1. CASE kept[w] # None
    BY <2>1, <1>10, GoesOn, EndsWith DEF Copy, Copies, TypeOK
  <2>2. CASE kept[w] = None /\ live.content # Absent
    BY <2>2, <1>10, GoesOn, EndsWith DEF Copy, Copies, TypeOK
  <2>3. CASE kept[w] = None /\ live.content = Absent
    BY <2>3, <1>10, GoesOn, EndsWith DEF Copy, Copies, TypeOK
  <2> QED
    BY <2>1, <2>2, <2>3
<1>11. CASE Prove(w)
  BY <1>11, GoesOn, EndsWith DEF Prove
<1>12. CASE Recheck(w)
  BY <1>12, GoesOn, EndsWith DEF Recheck
<1>13. CASE Rename(w)
  BY <1>13, GoesOn, EndsWith, Landed DEF Rename, NoEffect
<1>14. CASE Unlock(w)
  <2>1. CASE outcome[w] = None
    BY <2>1, <1>14, GoesOn DEF Unlock
  <2>2. CASE outcome[w] # None
    BY <2>2, <1>14, GoesOn DEF Unlock
  <2> QED
    BY <2>1, <2>2
<1>15. CASE Registry(w)
  BY <1>15, GoesOn, EndsWith DEF Registry
<1>16. CASE Complete(w)
  BY <1>16, IsForgotten, EndsWith DEF Complete, TypeOK
<1>17. CASE Settle(w)
  BY <1>17, IsForgotten DEF Settle, TypeOK
<1> QED
  BY <1>1, <1>2, <1>3, <1>4, <1>5, <1>6, <1>7, <1>8, <1>9, <1>10, <1>11,
    <1>12, <1>13, <1>14, <1>15, <1>16, <1>17 DEF Step

(* An operation's own Control is kept by what goes wrong. *)
LEMMA FailuresOwn ==
  ASSUME NEW w \in Writers, TypeOK, Control(w), Data(w), Failure(w)
  PROVE  Control(w)'
<1> USE PublishAssumption DEF Control, Section, Sent, Steps, Contents, vars, world, history, attempt, budget
<1>1. CASE CopyDamaged(w)
  BY <1>1, GoesOn, EndsWith DEF CopyDamaged, Copies, Fault
<1>2. CASE RenameLost(w)
  BY <1>2, EndsWith, Landed DEF RenameLost, NoEffect, Fault
<1>3. CASE RenameLate(w)
  BY <1>3, EndsWith DEF RenameLate, NoEffect, Fault
<1>4. CASE CallFails(w)
  BY <1>4, EndsWith DEF CallFails, Fault
<1>5. CASE Crash(w)
  BY <1>5, IsForgotten DEF Crash, Fault
<1>6. CASE ResolvePublished(w)
  BY <1>6 DEF ResolvePublished, Fault, Shows, TypeOK, Data
<1>7. CASE ResolveDiscarded(w)
  BY <1>7 DEF ResolveDiscarded, Fault, TypeOK
<1> QED
  BY <1>1, <1>2, <1>3, <1>4, <1>5, <1>6, <1>7 DEF Failure, PromptFailure

(* An operation's own Control is kept by clients, the storage and the clock. *)
LEMMA WorldOwn ==
  ASSUME NEW w \in Writers, TypeOK, Control(w), Data(w),
         NEW content \in Others \union {Original, Absent},
         Prepare(w) \/ Claim(w) \/ LateRename(w) \/ Other(content) \/ Tick
  PROVE  Control(w)'
<1> USE PublishAssumption DEF Control, Section, Sent, Steps, Contents, vars, world, history, attempt, budget
<1>1. CASE Prepare(w)
  BY <1>1 DEF Prepare, TypeOK
<1>2. CASE Claim(w)
  BY <1>2, GoesOn DEF Claim, TypeOK
<1>3. CASE LateRename(w)
  BY <1>3, Landed DEF LateRename, NoEffect
<1>4. CASE Other(content)
  BY <1>4 DEF Other, Arrives
<1>5. CASE Tick
  BY <1>5 DEF Tick
<1> QED
  BY <1>1, <1>2, <1>3, <1>4, <1>5

(* The Control of the other operations is kept by the steps of a commit. *)
LEMMA StepsControl ==
  ASSUME NEW w \in Writers, Inv, Step(w),
         NEW v \in Writers \ {w}
  PROVE  Control(v)'
<1> USE PublishAssumption DEF Inv, Steps, Sent, Contents, vars, world, history, attempt, budget
<1>1. CASE CheckName(w)
  BY <1>1, GoesOn, EndsWith, Bystander DEF CheckName
<1>2. CASE CheckMetadata(w)
  BY <1>2, GoesOn, EndsWith, Bystander DEF CheckMetadata
<1>3. CASE CheckContent(w)
  BY <1>3, GoesOn, EndsWith, Bystander DEF CheckContent
<1>4. CASE Witness(w)
  <2>1. CASE live.content = Absent
    BY <2>1, <1>4, EndsWith, Bystander DEF Witness, TypeOK
  <2>2. CASE live.content # Absent
    BY <2>2, <1>4, EndsWith, Bystander DEF Witness, TypeOK
  <2> QED
    BY <2>1, <2>2
<1>5. CASE Stage(w)
  <2>1. CASE state[w] = "committing"
    BY <2>1, <1>5, EndsWith, Bystander DEF Stage, TypeOK
  <2>2. CASE state[w] # "committing"
    BY <2>2, <1>5, EndsWith, Bystander DEF Stage, TypeOK
  <2> QED
    BY <2>1, <2>2
<1>6. CASE Acquire(w)
  <2>1. CASE kind[w] = "save"
    BY <2>1, <1>6, GoesOn, Bystander DEF Acquire
  <2>2. CASE kind[w] = "create"
    BY <2>2, <1>6, GoesOn, Bystander DEF Acquire
  <2>3. CASE kind[w] = "trash"
    BY <2>3, <1>6, GoesOn, Bystander DEF Acquire
  <2> QED
    BY <1>6, <2>1, <2>2, <2>3 DEF TypeOK, Kinds
<1>7. CASE Busy(w)
  BY <1>7, EndsWith, Bystander DEF Busy
<1>8. CASE StillFree(w)
  BY <1>8, GoesOn, EndsWith, Bystander DEF StillFree
<1>9. CASE Guard(w)
  BY <1>9, GoesOn, EndsWith, Bystander DEF Guard
<1>10. CASE Copy(w)
  <2>1. CASE kept[w] # None
    BY <2>1, <1>10, GoesOn, EndsWith, Bystander DEF Copy, Copies, TypeOK
  <2>2. CASE kept[w] = None /\ live.content # Absent
    BY <2>2, <1>10, GoesOn, EndsWith, Bystander DEF Copy, Copies, TypeOK
  <2>3. CASE kept[w] = None /\ live.content = Absent
    BY <2>3, <1>10, GoesOn, EndsWith, Bystander DEF Copy, Copies, TypeOK
  <2> QED
    BY <2>1, <2>2, <2>3
<1>11. CASE Prove(w)
  BY <1>11, GoesOn, EndsWith, Bystander DEF Prove
<1>12. CASE Recheck(w)
  BY <1>12, GoesOn, EndsWith, Bystander DEF Recheck
<1>13. CASE Rename(w)
  BY <1>13, GoesOn, EndsWith, Landed, Bystander DEF Rename, NoEffect
<1>14. CASE Unlock(w)
  <2>1. holder = w
    BY <1>14 DEF Unlock, Control, Section
  <2>2. pc'[v] = pc[v] /\ outcome' = outcome
    <3>1. CASE outcome[w] = None
      BY <1>14, <3>1, GoesOn DEF Unlock
    <3>2. CASE outcome[w] # None
      BY <1>14, <3>2, GoesOn DEF Unlock
    <3> QED
      BY <3>1, <3>2
  <2> QED
    BY <1>14, <2>1, <2>2, Bystander DEF Unlock
<1>15. CASE Registry(w)
  BY <1>15, GoesOn, EndsWith, Bystander DEF Registry
<1>16. CASE Complete(w)
  BY <1>16, IsForgotten, EndsWith, Bystander DEF Complete, TypeOK
<1>17. CASE Settle(w)
  BY <1>17, IsForgotten, Bystander DEF Settle, TypeOK
<1> QED
  BY <1>1, <1>2, <1>3, <1>4, <1>5, <1>6, <1>7, <1>8, <1>9, <1>10, <1>11,
    <1>12, <1>13, <1>14, <1>15, <1>16, <1>17 DEF Step

(* The Control of the other operations is kept by what goes wrong. *)
LEMMA FailuresControl ==
  ASSUME NEW w \in Writers, Inv, Failure(w),
         NEW v \in Writers \ {w}
  PROVE  Control(v)'
<1> USE PublishAssumption DEF Inv, Steps, Sent, Contents, vars, world, history, attempt, budget
<1>1. CASE CopyDamaged(w)
  BY <1>1, GoesOn, EndsWith, Bystander DEF CopyDamaged, Copies, Fault
<1>2. CASE RenameLost(w)
  BY <1>2, EndsWith, Landed, Bystander DEF RenameLost, NoEffect, Fault
<1>3. CASE RenameLate(w)
  BY <1>3, EndsWith, Bystander DEF RenameLate, NoEffect, Fault
<1>4. CASE CallFails(w)
  BY <1>4, EndsWith, Bystander DEF CallFails, Fault
<1>5. CASE Crash(w)
  BY <1>5, IsForgotten, Bystander DEF Crash, Fault
<1>6. CASE ResolvePublished(w)
  BY <1>6, Bystander DEF ResolvePublished, Fault, Shows, TypeOK
<1>7. CASE ResolveDiscarded(w)
  BY <1>7, Bystander DEF ResolveDiscarded, Fault, TypeOK
<1> QED
  BY <1>1, <1>2, <1>3, <1>4, <1>5, <1>6, <1>7 DEF Failure, PromptFailure

(* The Control of the other operations is kept by clients, the storage and the clock. *)
LEMMA WorldControl ==
  ASSUME NEW w \in Writers, Inv,
         NEW content \in Others \union {Original, Absent},
         Prepare(w) \/ Claim(w) \/ LateRename(w) \/ Other(content) \/ Tick,
         NEW v \in Writers \ {w}
  PROVE  Control(v)'
<1> USE PublishAssumption DEF Inv, Steps, Sent, Contents, vars, world, history, attempt, budget
<1>1. CASE Prepare(w)
  BY <1>1, Bystander DEF Prepare, TypeOK
<1>2. CASE Claim(w)
  BY <1>2, GoesOn, Bystander DEF Claim, TypeOK
<1>3. CASE LateRename(w)
  BY <1>3, Landed, Bystander DEF LateRename, NoEffect
<1>4. CASE Other(content)
  BY <1>4, Bystander DEF Other, Arrives
<1>5. CASE Tick
  BY <1>5, Bystander DEF Tick
<1> QED
  BY <1>1, <1>2, <1>3, <1>4, <1>5

(* Data is kept by the steps of a commit. *)
LEMMA StepsData ==
  ASSUME NEW w \in Writers, Inv, Step(w),
         NEW v \in Writers
  PROVE  Data(v)'
<1> USE PublishAssumption DEF Inv, TypeOK, Control, Data, Atomic!Changed, Section, Sent,
  Contents, Kinds, States, Steps, Version, vars, world, history, attempt, budget
<1>1. CASE CheckName(w)
  BY <1>1, GoesOn, EndsWith DEF CheckName
<1>2. CASE CheckMetadata(w)
  BY <1>2, GoesOn, EndsWith DEF CheckMetadata
<1>3. CASE CheckContent(w)
  BY <1>3, GoesOn, EndsWith DEF CheckContent
<1>4. CASE Witness(w)
  <2>1. CASE live.content = Absent
    BY <2>1, <1>4, EndsWith DEF Witness
  <2>2. CASE live.content # Absent
    BY <2>2, <1>4, EndsWith DEF Witness
  <2> QED
    BY <2>1, <2>2
<1>5. CASE Stage(w)
  BY <1>5, EndsWith DEF Stage
<1>6. CASE Acquire(w)
  BY <1>6, GoesOn DEF Acquire
<1>7. CASE Busy(w)
  BY <1>7, EndsWith DEF Busy
<1>8. CASE StillFree(w)
  BY <1>8, GoesOn, EndsWith DEF StillFree
<1>9. CASE Guard(w)
  BY <1>9, GoesOn, EndsWith DEF Guard
<1>10. CASE Copy(w)
  <2>1. CASE kept[w] # None
    BY <2>1, <1>10, GoesOn, EndsWith DEF Copy, Copies
  <2>2. CASE kept[w] = None /\ live.content # Absent
    BY <2>2, <1>10, GoesOn, EndsWith DEF Copy, Copies
  <2>3. CASE kept[w] = None /\ live.content = Absent
    BY <2>3, <1>10, GoesOn, EndsWith DEF Copy, Copies
  <2> QED
    BY <2>1, <2>2, <2>3
<1>11. CASE Prove(w)
  BY <1>11, GoesOn, EndsWith DEF Prove
<1>12. CASE Recheck(w)
  <2>1. CASE live.content # Absent /\ live.stamp = witness[w]
    BY <2>1, <1>12, GoesOn DEF Recheck
  <2>2. CASE live.content = Absent \/ live.stamp # witness[w]
    <3>1. Ends(w, "conflict")
      BY <1>12, <2>2 DEF Recheck
    <3>2. live.number # base[w].number
      <4>1. pc[w] = "recheck" /\ kind[w] # "create" /\ state[w] # "new"
        BY <1>12 DEF Recheck
      <4>2. /\ base[w].content # Absent
            /\ witness[w] = base[w].stamp \/ live.number # base[w].number
            /\ base[w].number = live.number => base[w] = live
        BY <4>1
      <4> QED
        BY <2>2, <4>2
    <3>3. CASE v = w
      BY <1>12, <3>1, <3>2, <3>3, EndsWith DEF Recheck
    <3>4. CASE v # w
      BY <1>12, <3>1, <3>4, EndsWith DEF Recheck
    <3> QED
      BY <3>3, <3>4
  <2> QED
    BY <2>1, <2>2
<1>13. CASE Rename(w)
  BY <1>13, GoesOn, EndsWith, Landed DEF Rename, NoEffect
<1>14. CASE Unlock(w)
  BY <1>14, GoesOn DEF Unlock
<1>15. CASE Registry(w)
  BY <1>15, GoesOn, EndsWith DEF Registry
<1>16. CASE Complete(w)
  BY SMTT(30), <1>16, IsForgotten, EndsWith DEF Complete
<1>17. CASE Settle(w)
  BY <1>17, IsForgotten DEF Settle
<1> QED
  BY <1>1, <1>2, <1>3, <1>4, <1>5, <1>6, <1>7, <1>8, <1>9, <1>10, <1>11,
    <1>12, <1>13, <1>14, <1>15, <1>16, <1>17 DEF Step

(* Data is kept by what goes wrong. *)
LEMMA FailuresData ==
  ASSUME NEW w \in Writers, Inv, Failure(w),
         NEW v \in Writers
  PROVE  Data(v)'
<1> USE PublishAssumption DEF Inv, TypeOK, Control, Data, Atomic!Changed, Section, Sent,
  Contents, Kinds, States, Steps, Version, vars, world, history, attempt, budget
<1>1. CASE CopyDamaged(w)
  BY <1>1, GoesOn, EndsWith DEF CopyDamaged, Copies, Fault
<1>2. CASE RenameLost(w)
  BY <1>2, EndsWith, Landed DEF RenameLost, NoEffect, Fault
<1>3. CASE RenameLate(w)
  BY <1>3, EndsWith DEF RenameLate, NoEffect, Fault
<1>4. CASE CallFails(w)
  BY <1>4, EndsWith DEF CallFails, Fault
<1>5. CASE Crash(w)
  BY <1>5, IsForgotten DEF Crash, Fault
<1>6. CASE ResolvePublished(w)
  BY <1>6 DEF ResolvePublished, Fault, Shows
<1>7. CASE ResolveDiscarded(w)
  BY <1>7 DEF ResolveDiscarded, Fault
<1> QED
  BY <1>1, <1>2, <1>3, <1>4, <1>5, <1>6, <1>7 DEF Failure, PromptFailure

(* Data is kept by clients, the storage and the clock. *)
LEMMA WorldData ==
  ASSUME NEW w \in Writers, Inv,
         NEW content \in Others \union {Original, Absent},
         Prepare(w) \/ Claim(w) \/ LateRename(w) \/ Other(content) \/ Tick,
         NEW v \in Writers
  PROVE  Data(v)'
<1> USE PublishAssumption DEF Inv, TypeOK, Control, Data, Atomic!Changed, Section, Sent,
  Contents, Kinds, States, Steps, Version, vars, world, history, attempt, budget
<1>1. CASE Prepare(w)
  <2>1. CASE v = w
    <3>1. base'[w] = live /\ live' = live
      BY <1>1 DEF Prepare
    <3>2. state'[w] = "ready"
      BY <1>1 DEF Prepare
    <3>3. pc[w] = "idle" /\ w \notin Sent /\ outcome[w] = None
      BY <1>1 DEF Prepare
    <3>4. kind[w] # "create" => live.content # Absent
      BY <1>1 DEF Prepare
    <3>5. /\ kind' = kind /\ kept' = kept /\ published' = published
          /\ pc' = pc /\ outcome' = outcome /\ inFlight' = inFlight
      BY <1>1 DEF Prepare
    <3>6. live.number <= live.number
      OBVIOUS
    <3>7. live.content = w => w \in published
      <4>1. Data(w)
        BY DEF Inv
      <4> QED
        BY <4>1
    <3> HIDE DEF Inv, TypeOK, Control
    <3> QED
      BY <2>1, <3>1, <3>2, <3>3, <3>4, <3>5, <3>6, <3>7
  <2>2. CASE v # w
    BY <2>2, <1>1 DEF Prepare
  <2> QED
    BY <2>1, <2>2
<1>2. CASE Claim(w)
  BY <1>2, GoesOn DEF Claim
<1>3. CASE LateRename(w)
  BY <1>3, Landed DEF LateRename, NoEffect
<1>4. CASE Other(content)
  BY <1>4 DEF Other, Arrives
<1>5. CASE Tick
  BY <1>5 DEF Tick
<1> QED
  BY <1>1, <1>2, <1>3, <1>4, <1>5

LEMMA Initially == Init => Inv
<1> SUFFICES ASSUME Init
             PROVE  Inv
  OBVIOUS
<1> USE PublishAssumption DEF Init
<1>1. TypeOK
  <2>1. live \in Version
    BY DEF Version, Contents
  <2>2. kind \in [Writers -> Kinds]
    BY DEF Kinds
  <2>3. seen \subseteq Contents
    BY <2>1 DEF Version
  <2> QED
    BY <2>1, <2>2, <2>3 DEF TypeOK, States, Steps
<1>2. ASSUME NEW w \in Writers
      PROVE  Control(w)
  BY DEF Control, Section, Sent
<1>3. ASSUME NEW w \in Writers
      PROVE  Data(w)
  BY DEF Data, Sent, Contents
<1> QED
  BY <1>1, <1>2, <1>3 DEF Inv

LEMMA Inductive == Inv /\ [Next]_vars => Inv'
<1> SUFFICES ASSUME Inv, [Next]_vars
             PROVE  Inv'
  OBVIOUS
<1>1. CASE UNCHANGED vars
  <2>1. TypeOK'
    BY <1>1 DEF Inv, TypeOK, vars, world, history, attempt, budget
  <2>2. ASSUME NEW w \in Writers
        PROVE  Control(w)'
    BY <1>1 DEF Inv, Control, Sent, vars, world, history, attempt, budget
  <2>3. ASSUME NEW w \in Writers
        PROVE  Data(w)'
    BY <1>1 DEF Inv, Data, Atomic!Changed, Sent, vars, world, history, attempt, budget
  <2> QED
    BY <2>1, <2>2, <2>3 DEF Inv
<1>2. ASSUME NEW w \in Writers, Step(w)
      PROVE  Inv'
  <2>1. Control(w)'
    BY <1>2, StepsOwn DEF Inv
  <2> QED
    BY <1>2, <2>1, StepsType, StepsControl, StepsData DEF Inv
<1>3. ASSUME NEW w \in Writers, Failure(w)
      PROVE  Inv'
  <2>1. Control(w)'
    BY <1>3, FailuresOwn DEF Inv
  <2> QED
    BY <1>3, <2>1, FailuresType, FailuresControl, FailuresData DEF Inv
<1>4. ASSUME NEW w \in Writers, Prepare(w) \/ Claim(w) \/ LateRename(w)
      PROVE  Inv'
  <2>1. Control(w)'
    BY <1>4, WorldOwn DEF Inv
  <2> QED
    BY <1>4, <2>1, WorldType, WorldControl, WorldData DEF Inv
<1>5. ASSUME NEW content \in Others \union {Original, Absent}, Other(content) \/ Tick
      PROVE  Inv'
  <2>1. ASSUME NEW v \in Writers
        PROVE  Control(v)' /\ Data(v)'
    BY <1>5, WorldOwn, WorldData DEF Inv
  <2>2. TypeOK'
    BY <1>5 DEF Other, Tick, Arrives, Inv, TypeOK, vars, world, history, attempt,
       budget, Contents, Version
  <2> QED
    BY <2>1, <2>2 DEF Inv
<1> QED
  BY <1>1, <1>2, <1>3, <1>4, <1>5 DEF Next, PromptNext, Failure

LEMMA Invariance == Spec => []Inv
BY Initially, Inductive, PTL DEF Spec

(***************************************************************************)
(* Every variable keeps its type, whatever goes wrong.                     *)
(***************************************************************************)
THEOREM TypeCorrectness == Spec => []TypeOK
<1>1. Inv => TypeOK
  BY DEF Inv
<1> QED
  BY <1>1, Invariance, PTL

(***************************************************************************)
(* A commit that is retried, or ended in a conflict, has sent no rename,   *)
(* with any number of operations, faults and other writers.                *)
(***************************************************************************)
THEOREM RetrySafety == Spec => []RetryIsSafe
<1>1. Inv => RetryIsSafe
  BY DEF Inv, Control, Sent, RetryIsSafe
<1> QED
  BY <1>1, Invariance, PTL

(***************************************************************************)
(* A completed operation was published, and a completed save has the       *)
(* version its client replaced, also when others write meanwhile.          *)
(***************************************************************************)
THEOREM RecoverySafety == Spec => []CompletedIsRecoverable
<1>1. Inv => CompletedIsRecoverable
  BY DEF Inv, Control, Data, Sent, CompletedIsRecoverable
<1> QED
  BY <1>1, Invariance, PTL

(***************************************************************************)
(* No conflict is reported for a file that nobody changed.                 *)
(***************************************************************************)
THEOREM ConflictsAreReal == Spec => []ConflictIsReal
<1>1. Inv => ConflictIsReal
  BY DEF Inv, Data, ConflictIsReal
<1> QED
  BY <1>1, Invariance, PTL

------------------------------------------------------------------------------
(***************************************************************************)
(* DesktopPublish implements AtomicSave, and loses no version of the file, *)
(* for any number of operations, contents, faults, writes and seconds, as  *)
(* long as other clients stay out of the proof window and the storage      *)
(* finishes no rename after its request was given up.                      *)
(***************************************************************************)
Fenced == Racy = FALSE /\ "late" \notin Faults

(***************************************************************************)
(* What the section has established about the path still holds.            *)
(***************************************************************************)
Fence(w) ==
    /\ pc[w] \in {"guard", "rename"} /\ kind[w] = "create" => live.content = Absent
    /\ pc[w] \in {"recheck", "rename"} /\ kind[w] = "save" => live.content = base[w].content
    /\ pc[w] = "rename" /\ kind[w] = "trash" => live.content # Absent
    /\ pc[w] = "prove" /\ ~retained[w] /\ kept[w] = base[w].content =>
          live.content = base[w].content

FencedInv ==
    /\ Inv
    /\ inFlight = {}
    /\ \A w \in Writers : Fence(w)
    /\ NothingLost

(***************************************************************************)
(* A step is quiet if neither the file nor what is recoverable changes; the*)
(* one that is not is the rename.                                          *)
(***************************************************************************)
Quiet ==
    /\ UNCHANGED <<live, kind, base, published, seen, erased, inFlight>>
    /\ \A x \in published : kept'[x] = kept[x]

Publishes(w) ==
    /\ pc[w] = "rename" /\ Lands(w)
    /\ UNCHANGED <<state, inFlight>>
    /\ pc'[w] = "unlock"

\* Only the rename of a commit is not quiet.
LEMMA StepsEffect ==
  ASSUME NEW w \in Writers, Inv, Step(w)
  PROVE  Quiet \/ Publishes(w)
<1> USE DEF Inv, Control, Sent, Section, world, history, Quiet
<1>1. CASE CheckName(w)
  BY <1>1 DEF CheckName
<1>2. CASE CheckMetadata(w)
  BY <1>2 DEF CheckMetadata
<1>3. CASE CheckContent(w)
  BY <1>3 DEF CheckContent
<1>4. CASE Witness(w)
  BY <1>4 DEF Witness
<1>5. CASE Stage(w)
  BY <1>5 DEF Stage
<1>6. CASE Acquire(w)
  BY <1>6 DEF Acquire
<1>7. CASE Busy(w)
  BY <1>7 DEF Busy
<1>8. CASE StillFree(w)
  BY <1>8 DEF StillFree
<1>9. CASE Guard(w)
  BY <1>9 DEF Guard
<1>10. CASE Copy(w)
  <2>1. w \notin published
    BY <1>10 DEF Copy
  <2>2. \A x \in Writers \ {w} : kept'[x] = kept[x]
    BY <1>10 DEF Copy, Copies, TypeOK
  <2> QED
    BY <1>10, <2>1, <2>2 DEF Copy, TypeOK
<1>11. CASE Prove(w)
  BY <1>11 DEF Prove
<1>12. CASE Recheck(w)
  BY <1>12 DEF Recheck
<1>13. CASE Rename(w)
  <2>1. CASE Lands(w) /\ GoesTo(w, "unlock")
    <3>1. pc'[w] = "unlock"
      BY <2>1 DEF GoesTo, TypeOK
    <3> QED
      BY <1>13, <2>1, <3>1 DEF Rename, Publishes
  <2>2. CASE NoEffect
    BY <1>13, <2>2 DEF Rename, NoEffect
  <2> QED
    BY <1>13, <2>1, <2>2 DEF Rename
<1>14. CASE Unlock(w)
  BY <1>14 DEF Unlock
<1>15. CASE Registry(w)
  BY <1>15 DEF Registry
<1>16. CASE Complete(w)
  BY <1>16 DEF Complete
<1>17. CASE Settle(w)
  BY <1>17 DEF Settle
<1> QED
  BY <1>1, <1>2, <1>3, <1>4, <1>5, <1>6, <1>7, <1>8, <1>9, <1>10, <1>11,
    <1>12, <1>13, <1>14, <1>15, <1>16, <1>17 DEF Step

\* Nothing that goes wrong is, but a rename whose answer is lost.
LEMMA FailuresEffect ==
  ASSUME NEW w \in Writers, Fenced, Inv, Failure(w)
  PROVE  Quiet \/ Publishes(w)
<1> USE DEF Inv, Control, Sent, Section, world, history, Quiet
<1>1. CASE CopyDamaged(w)
  <2>1. w \notin published
    BY <1>1 DEF CopyDamaged
  <2>2. \A x \in Writers \ {w} : kept'[x] = kept[x]
    BY <1>1 DEF CopyDamaged, Copies, TypeOK
  <2> QED
    BY <1>1, <2>1, <2>2 DEF CopyDamaged, TypeOK
<1>2. CASE RenameLost(w)
  <2>1. pc'[w] = "unlock"
    BY <1>2, EndsWith DEF RenameLost
  <2> QED
    BY <1>2, <2>1 DEF RenameLost, NoEffect, Publishes
<1>3. CASE RenameLate(w)
  BY <1>3 DEF RenameLate, Fault, Fenced
<1>4. CASE CallFails(w)
  BY <1>4 DEF CallFails
<1>5. CASE Crash(w)
  BY <1>5 DEF Crash
<1>6. CASE ResolvePublished(w)
  BY <1>6 DEF ResolvePublished
<1>7. CASE ResolveDiscarded(w)
  BY <1>7 DEF ResolveDiscarded
<1> QED
  BY <1>1, <1>2, <1>3, <1>4, <1>5, <1>6, <1>7 DEF Failure, PromptFailure

\* An operation's commit leaves the others' alone.
LEMMA StepsAside ==
  ASSUME NEW w \in Writers, Inv, NEW v \in Writers \ {w}, Step(w)
  PROVE  pc'[v] = pc[v] /\ kept'[v] = kept[v] /\ retained'[v] = retained[v]
<1> USE DEF Inv, TypeOK, Control, Data, world, attempt, Steps
<1>1. CASE CheckName(w)
  BY <1>1, GoesOn, EndsWith DEF CheckName
<1>2. CASE CheckMetadata(w)
  BY <1>2, GoesOn, EndsWith DEF CheckMetadata
<1>3. CASE CheckContent(w)
  BY <1>3, GoesOn, EndsWith DEF CheckContent
<1>4. CASE Witness(w)
  BY <1>4, GoesOn, EndsWith DEF Witness
<1>5. CASE Stage(w)
  BY <1>5, GoesOn, EndsWith DEF Stage
<1>6. CASE Acquire(w)
  <2>1. CASE kind[w] = "save"
    BY <2>1, <1>6, GoesOn DEF Acquire
  <2>2. CASE kind[w] = "create"
    BY <2>2, <1>6, GoesOn DEF Acquire
  <2>3. CASE kind[w] = "trash"
    BY <2>3, <1>6, GoesOn DEF Acquire
  <2> QED
    BY <1>6, <2>1, <2>2, <2>3 DEF Kinds
<1>7. CASE Busy(w)
  BY <1>7, GoesOn, EndsWith DEF Busy
<1>8. CASE StillFree(w)
  BY <1>8, GoesOn, EndsWith DEF StillFree
<1>9. CASE Guard(w)
  BY <1>9, GoesOn, EndsWith DEF Guard
<1>10. CASE Copy(w)
  BY <1>10, GoesOn, EndsWith DEF Copy, Copies
<1>11. CASE Prove(w)
  BY <1>11, GoesOn, EndsWith DEF Prove
<1>12. CASE Recheck(w)
  BY <1>12, GoesOn, EndsWith DEF Recheck
<1>13. CASE Rename(w)
  BY <1>13, GoesOn, EndsWith, Landed DEF Rename, NoEffect
<1>14. CASE Unlock(w)
  BY <1>14, GoesOn DEF Unlock
<1>15. CASE Registry(w)
  BY <1>15, GoesOn, EndsWith DEF Registry
<1>16. CASE Complete(w)
  BY <1>16, IsForgotten, EndsWith DEF Complete
<1>17. CASE Settle(w)
  BY <1>17, IsForgotten DEF Settle
<1> QED
  BY <1>1, <1>2, <1>3, <1>4, <1>5, <1>6, <1>7, <1>8, <1>9, <1>10, <1>11,
     <1>12, <1>13, <1>14, <1>15, <1>16, <1>17 DEF Step

\* So does its failure.
LEMMA FailuresAside ==
  ASSUME NEW w \in Writers, Inv, NEW v \in Writers \ {w}, Failure(w)
  PROVE  pc'[v] = pc[v] /\ kept'[v] = kept[v] /\ retained'[v] = retained[v]
<1> USE DEF Inv, TypeOK, Control, Data, world, attempt, Steps
<1>1. CASE CopyDamaged(w)
  BY <1>1, GoesOn, EndsWith DEF CopyDamaged, Copies
<1>2. CASE RenameLost(w)
  BY <1>2, EndsWith, Landed DEF RenameLost, NoEffect
<1>3. CASE RenameLate(w)
  BY <1>3, GoesOn, EndsWith DEF RenameLate, NoEffect
<1>4. CASE CallFails(w)
  BY <1>4, GoesOn, EndsWith DEF CallFails
<1>5. CASE Crash(w)
  BY <1>5, IsForgotten DEF Crash
<1>6. CASE ResolvePublished(w)
  BY <1>6 DEF ResolvePublished
<1>7. CASE ResolveDiscarded(w)
  BY <1>7 DEF ResolveDiscarded
<1> QED
  BY <1>1, <1>2, <1>3, <1>4, <1>5, <1>6, <1>7 DEF Failure, PromptFailure

\* What a commit relies on is what it has checked.
LEMMA StepsFence ==
  ASSUME NEW w \in Writers, FencedInv, Step(w)
  PROVE  Fence(w)'
<1> USE PublishAssumption DEF FencedInv, Fence, Inv, TypeOK, Control, Data, world, attempt, Section, Contents, Version, Steps
<1>1. CASE CheckName(w)
  BY <1>1, GoesOn, EndsWith DEF CheckName
<1>2. CASE CheckMetadata(w)
  BY <1>2, GoesOn, EndsWith DEF CheckMetadata
<1>3. CASE CheckContent(w)
  BY <1>3, GoesOn, EndsWith DEF CheckContent
<1>4. CASE Witness(w)
  BY SMTT(30), <1>4, GoesOn, EndsWith DEF Witness
<1>5. CASE Stage(w)
  BY <1>5, GoesOn, EndsWith DEF Stage
<1>6. CASE Acquire(w)
  <2>1. CASE kind[w] = "save"
    BY <2>1, <1>6, GoesOn DEF Acquire
  <2>2. CASE kind[w] = "create"
    BY <2>2, <1>6, GoesOn DEF Acquire
  <2>3. CASE kind[w] = "trash"
    BY <2>3, <1>6, GoesOn DEF Acquire
  <2> QED
    BY <1>6, <2>1, <2>2, <2>3 DEF Kinds
<1>7. CASE Busy(w)
  BY <1>7, GoesOn, EndsWith DEF Busy
<1>8. CASE StillFree(w)
  BY <1>8, GoesOn, EndsWith DEF StillFree
<1>9. CASE Guard(w)
  BY <1>9, GoesOn, EndsWith DEF Guard
<1>10. CASE Copy(w)
  BY <1>10, GoesOn, EndsWith DEF Copy, Copies
<1>11. CASE Prove(w)
  BY <1>11, GoesOn, EndsWith DEF Prove
<1>12. CASE Recheck(w)
  BY <1>12, GoesOn, EndsWith DEF Recheck
<1>13. CASE Rename(w)
  BY <1>13, GoesOn, EndsWith, Landed DEF Rename, NoEffect
<1>14. CASE Unlock(w)
  BY <1>14, GoesOn DEF Unlock
<1>15. CASE Registry(w)
  BY <1>15, GoesOn, EndsWith DEF Registry
<1>16. CASE Complete(w)
  BY <1>16, IsForgotten, EndsWith DEF Complete
<1>17. CASE Settle(w)
  BY <1>17, IsForgotten DEF Settle
<1> QED
  BY <1>1, <1>2, <1>3, <1>4, <1>5, <1>6, <1>7, <1>8, <1>9, <1>10, <1>11,
     <1>12, <1>13, <1>14, <1>15, <1>16, <1>17 DEF Step

\* A commit that fails relies on nothing.
LEMMA FailuresFence ==
  ASSUME NEW w \in Writers, FencedInv, Failure(w)
  PROVE  Fence(w)'
<1> USE PublishAssumption DEF FencedInv, Fence, Inv, TypeOK, Control, Data, world, attempt, Section, Contents, Version, Steps
<1>1. CASE CopyDamaged(w)
  BY <1>1, GoesOn, EndsWith DEF CopyDamaged, Copies
<1>2. CASE RenameLost(w)
  BY <1>2, EndsWith, Landed DEF RenameLost, NoEffect
<1>3. CASE RenameLate(w)
  BY <1>3, GoesOn, EndsWith DEF RenameLate, NoEffect
<1>4. CASE CallFails(w)
  BY <1>4, GoesOn, EndsWith DEF CallFails
<1>5. CASE Crash(w)
  BY <1>5, IsForgotten DEF Crash
<1>6. CASE ResolvePublished(w)
  BY <1>6 DEF ResolvePublished
<1>7. CASE ResolveDiscarded(w)
  BY <1>7 DEF ResolveDiscarded
<1> QED
  BY <1>1, <1>2, <1>3, <1>4, <1>5, <1>6, <1>7 DEF Failure, PromptFailure

\* The rename of a commit is one step of AtomicSave, and what it replaces is kept.
LEMMA PublicationIsAtomic ==
  ASSUME NEW w \in Writers, FencedInv, Publishes(w)
  PROVE  /\ Atomic!Save(w) \/ Atomic!Create(w) \/ Atomic!Trash(w)
         /\ NothingLost'
<1>1. /\ w \notin published /\ published' = published \union {w}
      /\ kind' = kind /\ base' = base /\ erased' = erased /\ state' = state
      /\ live'.number = live.number + 1
      /\ live'.content = IF kind[w] = "trash" THEN Absent ELSE w
      /\ seen' = seen \union ({live'.content} \ {Absent})
      /\ \A v \in Writers \ {w} : kept'[v] = kept[v]
      /\ kept'[w] = IF kind[w] = "trash" THEN live.content ELSE kept[w]
  <2>1. w \notin published /\ state' = state
    BY DEF FencedInv, Inv, Control, Sent, Publishes
  <2>2. seen' = seen \union ({live'.content} \ {Absent})
    BY DEF Publishes, Lands, Arrives
  <2>3. kind[w] = "trash" => kept'[w] = live.content
    BY DEF Publishes, Lands, FencedInv, Inv, TypeOK
  <2> QED
    BY <2>1, <2>2, <2>3, Landed DEF Publishes, FencedInv, Inv
<1>2. /\ kind[w] = "save" => live.content = base[w].content /\ kept[w] = live.content
      /\ kind[w] = "create" => live.content = Absent
      /\ kind[w] = "trash" => live.content # Absent
  BY DEF FencedInv, Fence, Inv, Data, Publishes
<1>3. state[w] \in {"committing", "cancelled", "completed"}
  BY DEF FencedInv, Inv, Control, Publishes
<1>4. /\ Status(w) \in {"open", "dropped"} /\ Status(w)' = "done"
      /\ \A v \in Writers \ {w} : Status(v)' = Status(v)
  BY <1>1, <1>3 DEF Status, FencedInv, Inv, Control
<1>5. Recoverable' = IF kind[w] = "create" THEN Recoverable
                     ELSE Recoverable \union {live.content}
  <2> DEFINE Saved(x) == x \in published /\ kind[x] # "create"
  <2>1. \A x \in Writers \ {w} : kept'[x] = kept[x] /\ (Saved(x)' <=> Saved(x))
    BY <1>1
  <2>2. ~Saved(w) /\ (Saved(w)' <=> kind[w] # "create")
    BY <1>1
  <2>3. kind[w] # "create" => kept'[w] = live.content
    BY <1>1, <1>2 DEF FencedInv, Inv, TypeOK, Kinds
  <2>4. published \subseteq Writers /\ published' \subseteq Writers
    BY <1>1 DEF FencedInv, Inv, TypeOK
  <2>5. Recoverable = {kept[x] : x \in {y \in Writers : Saved(y)}}
    BY <2>4 DEF Recoverable
  <2>6. Recoverable' = {kept'[x] : x \in {y \in Writers : Saved(y)'}}
    BY <2>4 DEF Recoverable
  <2> HIDE DEF Saved
  <2> QED
    BY <2>1, <2>2, <2>3, <2>5, <2>6
<1>6. kind[w] \in Kinds
  BY DEF FencedInv, Inv, TypeOK
<1>7. NothingLost'
  BY <1>1, <1>5, <1>2, PublishAssumption DEF NothingLost, FencedInv, Inv, TypeOK
<1>8. [x \in Writers |-> Status(x)]'
          = [[x \in Writers |-> Status(x)] EXCEPT ![w] = "done"]
  BY <1>4
<1>9. [x \in Writers |-> Status(x)][w] \in {"open", "dropped"}
  BY <1>4
<1>10. UNCHANGED <<kind, [x \in Writers |-> [content |-> base[x].content,
                                            number |-> base[x].number]]>>
  BY <1>1
<1>11. Atomic!Holds(live'.content)
  BY <1>1 DEF Atomic!Holds
<1>12. [x \in Writers |-> [content |-> base[x].content, number |-> base[x].number]][w].content
          = base[w].content
  OBVIOUS
<1>13. CASE kind[w] = "save"
  <2>1. Atomic!Holds(w)
    BY <1>1, <1>11, <1>13
  <2>2. /\ [content |-> live.content, number |-> live.number].content = base[w].content
        /\ Recoverable' = Recoverable
               \union {[content |-> live.content, number |-> live.number].content}
    BY <1>2, <1>5, <1>13
  <2> QED
    BY <1>8, <1>9, <1>10, <1>12, <1>13, <2>1, <2>2, <1>7 DEF Atomic!Save
<1>14. CASE kind[w] = "create"
  <2>1. Atomic!Holds(w)
    BY <1>1, <1>11, <1>14
  <2>2. /\ [content |-> live.content, number |-> live.number].content = Absent
        /\ UNCHANGED Recoverable
    BY <1>2, <1>5, <1>14
  <2> QED
    BY <1>8, <1>9, <1>10, <1>14, <2>1, <2>2, <1>7 DEF Atomic!Create
<1>15. CASE kind[w] = "trash"
  <2>1. Atomic!Holds(Absent)
    BY <1>1, <1>11, <1>15
  <2>2. /\ [content |-> live.content, number |-> live.number].content # Absent
        /\ Recoverable' = Recoverable
               \union {[content |-> live.content, number |-> live.number].content}
    BY <1>2, <1>5, <1>15
  <2> QED
    BY <1>8, <1>9, <1>10, <1>15, <2>1, <2>2, <1>7 DEF Atomic!Trash
<1> QED
  BY <1>6, <1>7, <1>13, <1>14, <1>15 DEF Kinds

\* The rows that other steps change are refused by a conflict and dropped by an
\* administrator, or it does not show.
LEMMA RowsChange ==
  ASSUME NEW w \in Writers, Inv, Claim(w) \/ Step(w) \/ Failure(w), UNCHANGED published
  PROVE  /\ \A v \in Writers \ {w} : Status(v)' = Status(v)
         /\ \/ Status(w)' = Status(w)
            \/ Status(w) = "open" /\ Status(w)' = "refused" /\ Atomic!Changed(w)
            \/ Status(w) = "open" /\ Status(w)' = "dropped"
<1> USE DEF Inv, TypeOK, Control, Data, Sent
<1>1. CASE UNCHANGED state
  BY <1>1 DEF Status
<1>2. CASE Claim(w)
  <2>1. state' = [state EXCEPT ![w] = "committing"] /\ state[w] = "ready"
    BY <1>2 DEF Claim
  <2> QED
    BY <2>1 DEF Status
<1>3. CASE Complete(w)
  <2>1. w \in published /\ \A v \in Writers \ {w} : state'[v] = state[v]
    BY <1>3 DEF Complete
  <2> QED
    BY <2>1 DEF Status
<1>4. CASE Settle(w)
  <2>1. state' = [state EXCEPT ![w] = IF @ = "committing" THEN outcome[w] ELSE @]
    BY <1>4 DEF Settle
  <2>2. outcome[w] \in {"ready", "conflict", "uncertain"}
    BY <1>4 DEF Settle
  <2> QED
    BY <2>1, <2>2 DEF Status
<1>5. CASE ResolvePublished(w)
  <2>1. w \in published /\ \A v \in Writers \ {w} : state'[v] = state[v]
    BY <1>5 DEF ResolvePublished, Shows
  <2> QED
    BY <2>1 DEF Status
<1>6. CASE ResolveDiscarded(w)
  <2>1. /\ state' = [state EXCEPT ![w] = "cancelled"]
        /\ state[w] \in {"uncertain", "committing"}
    BY <1>6 DEF ResolveDiscarded
  <2> QED
    BY <2>1 DEF Status
<1>7. CASE Step(w) /\ ~Complete(w) /\ ~Settle(w)
  <2>1. UNCHANGED state
    BY <1>7 DEF Step, CheckName, CheckMetadata, CheckContent, Witness, Stage, Acquire,
       Busy, StillFree, Guard, Copy, Prove, Recheck, Rename, Unlock, Registry
  <2> QED
    BY <1>1, <2>1
<1>8. CASE Failure(w) /\ ~ResolvePublished(w) /\ ~ResolveDiscarded(w)
  <2>1. UNCHANGED state
    BY <1>8 DEF Failure, PromptFailure, CopyDamaged, RenameLost, RenameLate, CallFails, Crash
  <2> QED
    BY <1>1, <2>1
<1> QED
  BY <1>2, <1>3, <1>4, <1>5, <1>6, <1>7, <1>8

\* A quiet step leaves the file and what is recoverable alone.
LEMMA QuietKeeps ==
  ASSUME Quiet, NothingLost
  PROVE  /\ UNCHANGED <<[content |-> live.content, number |-> live.number],
                        Recoverable, kind,
                        [x \in Writers |-> [content |-> base[x].content,
                                            number |-> base[x].number]]>>
         /\ NothingLost'
<1>1. Recoverable' = Recoverable
  BY DEF Quiet, Recoverable
<1> QED
  BY <1>1 DEF Quiet, NothingLost

LEMMA QuietIsAtomic ==
  ASSUME NEW w \in Writers, Inv, NothingLost, Quiet, Claim(w) \/ Step(w) \/ Failure(w)
  PROVE  Atomic!Refuse(w) \/ Atomic!Drop(w) \/ UNCHANGED Atomic!vars
<1>1. UNCHANGED published
  BY DEF Quiet
<1>2. \A v \in Writers \ {w} : Status(v)' = Status(v)
  BY <1>1, RowsChange
<1>3. CASE Status(w)' = Status(w)
  <2>1. UNCHANGED [x \in Writers |-> Status(x)]
    BY <1>2, <1>3
  <2> QED
    BY <2>1, QuietKeeps DEF Atomic!vars
<1>4. CASE Status(w) = "open" /\ Status(w)' = "refused" /\ Atomic!Changed(w)
  <2>1. [x \in Writers |-> Status(x)]'
          = [[x \in Writers |-> Status(x)] EXCEPT ![w] = "refused"]
    BY <1>2, <1>4
  <2>2. [x \in Writers |-> Status(x)][w] = "open"
    BY <1>4
  <2> QED
    BY <1>4, <2>1, <2>2, QuietKeeps DEF Atomic!Refuse
<1>5. CASE Status(w) = "open" /\ Status(w)' = "dropped"
  <2>1. [x \in Writers |-> Status(x)]'
          = [[x \in Writers |-> Status(x)] EXCEPT ![w] = "dropped"]
    BY <1>2, <1>5
  <2>2. [x \in Writers |-> Status(x)][w] = "open"
    BY <1>5
  <2> QED
    BY <2>1, <2>2, QuietKeeps DEF Atomic!Drop
<1> QED
  BY <1>1, RowsChange, <1>3, <1>4, <1>5

\* Another operation's fence stands: its commit is not at work in the section, or
\* nothing happened at the path.
LEMMA FenceAside ==
  ASSUME NEW w \in Writers, NEW v \in Writers \ {w}, FencedInv,
         pc'[v] = pc[v] /\ kept'[v] = kept[v] /\ retained'[v] = retained[v],
         Quiet \/ Publishes(w)
  PROVE  Fence(v)'
<1>1. CASE Quiet
  BY <1>1 DEF Quiet, FencedInv, Fence
<1>2. CASE Publishes(w)
  <2>1. pc[v] \notin Section
    BY <1>2 DEF FencedInv, Inv, Control, Section, Publishes
  <2> QED
    BY <2>1 DEF Fence, Section
<1> QED
  BY <1>1, <1>2

\* A commit's step, going well or not, keeps the invariant and is one of AtomicSave.
LEMMA CommitRefines ==
  ASSUME NEW w \in Writers, Fenced, FencedInv, Inv', Step(w) \/ Failure(w)
  PROVE  FencedInv' /\ [Atomic!Next]_(Atomic!vars)
<1>1. Inv /\ NothingLost
  BY DEF FencedInv
<1>2. Quiet \/ Publishes(w)
  BY <1>1, StepsEffect, FailuresEffect
<1>3. \A v \in Writers : Fence(v)'
  <2>1. Fence(w)'
    BY StepsFence, FailuresFence
  <2>2. ASSUME NEW v \in Writers \ {w}
        PROVE  Fence(v)'
    BY <1>1, <1>2, FenceAside, StepsAside, FailuresAside
  <2> QED
    BY <2>1, <2>2
<1>4. inFlight' = {}
  BY <1>2 DEF FencedInv, Quiet, Publishes
<1>5. CASE Quiet
  BY <1>1, <1>3, <1>4, <1>5, QuietKeeps, QuietIsAtomic DEF FencedInv, Atomic!Next
<1>6. CASE Publishes(w)
  BY <1>3, <1>4, <1>6, PublicationIsAtomic DEF FencedInv, Atomic!Next
<1> QED
  BY <1>2, <1>5, <1>6

LEMMA PrepareRefines ==
  ASSUME NEW w \in Writers, FencedInv, Inv', Prepare(w)
  PROVE  FencedInv' /\ [Atomic!Next]_(Atomic!vars)
<1>1. /\ state[w] = "new" /\ w \notin published /\ pc[w] = "idle"
      /\ base' = [base EXCEPT ![w] = live] /\ state' = [state EXCEPT ![w] = "ready"]
      /\ UNCHANGED <<live, inFlight, published, seen, erased, kind, pc, kept, retained>>
  BY DEF Prepare, FencedInv, Inv, Control, Sent, history, attempt
<1>2. Recoverable' = Recoverable
  BY <1>1 DEF Recoverable
<1>3. FencedInv'
  BY <1>1, <1>2 DEF FencedInv, Fence, NothingLost, Inv, TypeOK
<1>4. Status(w) = "new" /\ Status(w)' = "open"
  BY <1>1 DEF Status, FencedInv, Inv, TypeOK
<1>5. \A v \in Writers \ {w} : Status(v)' = Status(v)
  BY <1>1 DEF Status, FencedInv, Inv, TypeOK
<1>6. [x \in Writers |-> Status(x)]' = [[x \in Writers |-> Status(x)] EXCEPT ![w] = "open"]
  BY <1>4, <1>5
<1>7. [x \in Writers |-> Status(x)][w] = "new"
  BY <1>4
<1>8. base \in [Writers -> Version]
  BY DEF FencedInv, Inv, TypeOK
<1>9. [x \in Writers |-> [content |-> base[x].content, number |-> base[x].number]]'
        = [[x \in Writers |-> [content |-> base[x].content, number |-> base[x].number]]
             EXCEPT ![w] = [content |-> live.content, number |-> live.number]]
  BY <1>1, <1>8
<1>10. UNCHANGED <<[content |-> live.content, number |-> live.number], Recoverable, kind>>
  BY <1>1, <1>2
<1>11. Atomic!Prepare(w)
  BY <1>6, <1>7, <1>9, <1>10 DEF Atomic!Prepare
<1> QED
  BY <1>3, <1>11 DEF Atomic!Next

LEMMA ClaimRefines ==
  ASSUME NEW w \in Writers, FencedInv, Inv', Claim(w)
  PROVE  FencedInv' /\ [Atomic!Next]_(Atomic!vars)
<1>1. Quiet
  BY DEF Claim, Quiet, world, history
<1>2. Inv /\ NothingLost
  BY DEF FencedInv
<1>3. /\ pc'[w] = "stat" /\ \A v \in Writers \ {w} : pc'[v] = pc[v]
      /\ kept' = kept /\ retained' = retained
  BY <1>2, GoesOn DEF Claim, Inv, Steps
<1>4. \A v \in Writers : Fence(v)'
  BY <1>1, <1>3 DEF FencedInv, Fence, Quiet
<1> QED
  BY <1>1, <1>2, <1>4, QuietKeeps, QuietIsAtomic DEF FencedInv, Atomic!Next, Quiet

\* Another client, outside the proof window.
LEMMA OtherRefines ==
  ASSUME NEW content \in Others \union {Original, Absent}, Fenced, FencedInv, Inv',
         Other(content)
  PROVE  FencedInv' /\ [Atomic!Next]_(Atomic!vars)
<1>1. /\ live' = [content |-> content, stamp |-> now, number |-> live.number + 1]
      /\ seen' = seen \union ({content} \ {Absent})
      /\ erased' = erased \union ({live.content} \ {Absent})
      /\ UNCHANGED <<inFlight, published, kind, base, state, pc, kept, retained>>
  BY DEF Other, Arrives, attempt
<1>2. Recoverable' = Recoverable
  BY <1>1 DEF Recoverable
<1>3. ~Proven
  BY DEF Other, Fenced
<1>4. \A v \in Writers : Fence(v)'
  BY <1>1, <1>3 DEF Fence, Proven
<1>5. NothingLost'
  BY <1>1, <1>2, PublishAssumption DEF NothingLost, FencedInv, Inv, TypeOK, Contents
<1>6. UNCHANGED [x \in Writers |-> Status(x)]
  BY <1>1 DEF Status
<1>7. Atomic!Other(content)
  BY <1>1, <1>2, <1>6 DEF Atomic!Other, Atomic!Holds
<1> QED
  BY <1>1, <1>4, <1>5, <1>7 DEF FencedInv, Atomic!Next

LEMMA StutterRefines ==
  ASSUME FencedInv, Inv', Tick \/ UNCHANGED vars
  PROVE  FencedInv' /\ [Atomic!Next]_(Atomic!vars)
<1>1. UNCHANGED <<live, inFlight, published, seen, erased, kind, base, state, pc, kept,
                  retained>>
  BY DEF Tick, vars, world, history, attempt
<1>2. UNCHANGED [x \in Writers |-> Status(x)]
  BY <1>1 DEF Status
<1>3. Quiet
  BY <1>1 DEF Quiet
<1>4. \A v \in Writers : Fence(v)'
  BY <1>1 DEF FencedInv, Fence
<1> QED
  BY <1>1, <1>2, <1>3, <1>4, QuietKeeps DEF FencedInv, Atomic!vars

LEMMA StartsAtomic == Init => FencedInv /\ Atomic!Init
<1> SUFFICES ASSUME Init
             PROVE  FencedInv /\ Atomic!Init
  OBVIOUS
<1>1. Inv
  BY Initially
<1>2. Recoverable = {}
  BY DEF Init, Recoverable
<1>3. FencedInv
  BY <1>1, <1>2 DEF Init, FencedInv, Fence, NothingLost
<1>4. \A w \in Writers : Status(w) = "new"
  BY DEF Init, Status
<1>5. [content |-> live.content, number |-> live.number]
        \in [content : {Original, Absent}, number : {0}]
  BY DEF Init
<1>6. kind \in [Writers -> Atomic!Kinds]
  BY PublishAssumption DEF Init, Kinds, Atomic!Kinds
<1>7. [x \in Writers |-> [content |-> base[x].content, number |-> base[x].number]]
        = [x \in Writers |-> [content |-> live.content, number |-> live.number]]
  BY DEF Init
<1> QED
  BY <1>2, <1>3, <1>4, <1>5, <1>6, <1>7 DEF Atomic!Init

LEMMA EveryStepRefines ==
  ASSUME Fenced, FencedInv, [Next]_vars
  PROVE  FencedInv' /\ [Atomic!Next]_(Atomic!vars)
<1>1. Inv'
  BY Inductive DEF FencedInv
<1>2. ASSUME NEW w \in Writers, LateRename(w)
      PROVE  FALSE
  BY <1>2 DEF LateRename, FencedInv
<1> QED
  BY <1>1, <1>2, CommitRefines, PrepareRefines, ClaimRefines, OtherRefines,
     StutterRefines DEF Next, PromptNext, Failure

(***************************************************************************)
(* Every commit is one atomic save, creation or move, or nothing.          *)
(***************************************************************************)
THEOREM CommitsAreAtomic ==
  ASSUME Fenced
  PROVE  Spec => ImplementsAtomicSave
<1>1. FencedInv /\ [Next]_vars => FencedInv' /\ [Atomic!Next]_(Atomic!vars)
  BY EveryStepRefines
<1> QED
  BY <1>1, StartsAtomic, PTL DEF Spec, ImplementsAtomicSave, Atomic!Spec

(***************************************************************************)
(* No version of the file that fdrive replaced or took away is ever lost.  *)
(***************************************************************************)
THEOREM NothingIsLost ==
  ASSUME Fenced
  PROVE  Spec => []NothingLost
<1>1. FencedInv /\ [Next]_vars => FencedInv'
  BY EveryStepRefines
<1>2. FencedInv => NothingLost
  BY DEF FencedInv
<1> QED
  BY <1>1, <1>2, StartsAtomic, PTL DEF Spec
==============================================================================
