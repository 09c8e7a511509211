------------------------ MODULE RecoveryPointsProofs ------------------------
(***************************************************************************)
(* Proofs about the recovery points of a project, for any policies, any    *)
(* number of generations and of published files.                           *)
(***************************************************************************)
EXTENDS RecoveryPoints, FiniteSetTheorems, TLAPS

USE DEF NoFile

LEMMA Bounds ==
  /\ MaxGeneration \in Nat /\ MaxTime \in Nat /\ MaxFile \in Nat
  /\ MaxCollisions \in Nat \ {0}
  /\ \A p \in Policy \cup {Unset} : p.enabled \in BOOLEAN /\ Interval(p) \in Nat
<1>1. ASSUME NEW p \in Policy \cup {Unset} PROVE p.enabled \in BOOLEAN /\ p.interval \in Nat
  <2>1. CASE p = Unset
    BY <2>1 DEF Unset
  <2>2. CASE p \in Policy
    BY <2>2, RecoveryAssumption
  <2> QED BY <2>1, <2>2
<1>2. ASSUME NEW p \in Policy \cup {Unset} PROVE Interval(p) \in Nat
  BY <1>1 DEF Interval
<1> QED BY <1>1, <1>2, RecoveryAssumption

LEMMA EmptyTyped == Empty \in Names
BY Bounds DEF Empty, Names

LEMMA IdleTyped == NoCall \in Call /\ NoPoint \in Point /\ NoChoice \in Choice
<1>1. NoCall \in Call
  <2>1. 0 \in 0..(MaxCollisions - 1) /\ 0 \in 0..MaxGeneration /\ 0 \in 0..MaxFile
    BY Bounds
  <2> QED BY <2>1 DEF NoCall, Call
<1>2. NoPoint \in Point
  BY Bounds DEF NoPoint, Point
<1>3. NoChoice \in Choice
  <2>1. 0 \in 0..MaxGeneration /\ 0 \in 0..MaxFile
    BY Bounds
  <2>2. [g \in Generation |-> NoFile] \in Names
    BY <2>1 DEF Names
  <2>3. NoNames \in [tombstones : SUBSET Generation, artifacts : SUBSET Generation]
    BY DEF NoNames
  <2> QED BY <2>1, <2>2, <2>3 DEF NoChoice, Choice
<1> QED BY <1>1, <1>2, <1>3

-----------------------------------------------------------------------------
(* What the steps of the directory do. *)

\* A name is set or removed in the directory.
LEMMA SetTyped ==
  ASSUME NEW d \in Names, NEW g, NEW f \in 0..MaxFile
  PROVE  [d EXCEPT ![g] = f] \in Names
BY DEF Names

LEMMA NoFileTyped == NoFile \in 0..MaxFile
BY Bounds

LEMMA InitTyped == Init => TypeOK
<1> SUFFICES ASSUME Init PROVE TypeOK
  OBVIOUS
<1> USE DEF Init
<1>1. DirectoryOK
  <2>1. 0 \in 0..MaxGeneration
    BY Bounds
  <2> QED BY <2>1, EmptyTyped DEF DirectoryOK
<1>2. AutosaveOK
  <2>1. 0 \in 0..Interval(Unset)
    BY Bounds DEF Unset, Interval
  <2> QED BY <2>1, IdleTyped DEF AutosaveOK, Stages
<1>3. RecoveryOK
  BY EmptyTyped, IdleTyped DEF RecoveryOK, Steps
<1> QED BY <1>1, <1>2, <1>3 DEF TypeOK

LEMMA ChangeTyped ==
  ASSUME DirectoryOK, NEW a \in Names, NEW t \in Names, Change(a, t)
  PROVE  /\ artifact' \in Names /\ tombstone' \in Names
         /\ disk' \subseteq Names \X Names /\ << artifact', tombstone' >> \in disk'
BY DEF DirectoryOK, Change

LEMMA SyncTyped ==
  ASSUME DirectoryOK, SyncDirectory
  PROVE  /\ artifact' \in Names /\ tombstone' \in Names
         /\ disk' \subseteq Names \X Names /\ << artifact', tombstone' >> \in disk'
BY DEF DirectoryOK, SyncDirectory

LEMMA RemoveTyped ==
  ASSUME DirectoryOK, NEW g, Remove(g)
  PROVE  /\ artifact' \in Names /\ tombstone' \in Names
         /\ disk' \subseteq Names \X Names /\ << artifact', tombstone' >> \in disk'
<1>1. [tombstone EXCEPT ![g] = NoFile] \in Names /\ artifact \in Names
  BY SetTyped, NoFileTyped DEF DirectoryOK
<1> QED BY <1>1, ChangeTyped DEF Remove

LEMMA AppearTyped ==
  ASSUME DirectoryOK, NEW f \in File, NEW g \in Generation, Appear(f, g), UNCHANGED fate
  PROVE  DirectoryOK'
<1>1. [artifact EXCEPT ![g] = f] \in Names /\ tombstone \in Names
  <2>1. f \in 0..MaxFile
    BY Bounds DEF File
  <2> QED BY <2>1, SetTyped DEF DirectoryOK
<1>2. named' \in [File -> 0..MaxGeneration]
  BY Bounds DEF Appear, DirectoryOK, Generation
<1> QED BY <1>1, <1>2, ChangeTyped DEF Appear, DirectoryOK

\* A name is taken from the directory.
LEMMA TakeTyped ==
  ASSUME DirectoryOK, NEW g, NEW t \in Names, UNCHANGED named,
         Change([artifact EXCEPT ![g] = NoFile], t),
         fate' = fate \/ fate' = [fate EXCEPT ![artifact[g]] = "taken"]
  PROVE  DirectoryOK'
<1>1. [artifact EXCEPT ![g] = NoFile] \in Names
  BY SetTyped, NoFileTyped DEF DirectoryOK
<1>2. fate' \in [File -> {"unknown", "published", "taken", "dismissed"}]
  BY DEF DirectoryOK
<1> QED BY <1>1, <1>2, ChangeTyped DEF DirectoryOK

-----------------------------------------------------------------------------
(* Types: the directory. *)

LEMMA DirectoryStep ==
  ASSUME TypeOK, [Next]_vars
  PROVE  DirectoryOK'
<1> USE DEF TypeOK
<1>1. ASSUME UNCHANGED << directory, named, fate >>
      PROVE  DirectoryOK'
  BY <1>1 DEF directory, DirectoryOK
<1>2. CASE AutosaveStep
  <2>1. CASE \E p \in Policy : Configure(p)
    BY <2>1, <1>1 DEF Configure
  <2>2. CASE \E time \in 0..MaxTime : TickEarly(time) \/ TickUnchanged(time) \/ TickDue(time)
    BY <2>2, <1>1 DEF TickEarly, TickUnchanged, TickDue, Observed, Publish
  <2>3. CASE SaveNow \/ Prune
    BY <2>3, <1>1 DEF SaveNow, Publish, Prune
  <2>4. CASE Link
    BY <2>4, AppearTyped DEF Link, AutosaveOK
  <2>5. CASE Collide \/ Fail
    BY <2>5, <1>1 DEF Collide, Fail
  <2>6. CASE Published
    <3>1. fate' \in [File -> {"unknown", "published", "taken", "dismissed"}]
      BY <2>6 DEF Published, PointPublished, DirectoryOK
    <3> QED BY <2>6, <3>1, SyncTyped DEF Published, DirectoryOK
  <2>7. CASE PruneOldest
    <3>1. Change([artifact EXCEPT ![Lowest(call.todo)] = NoFile], tombstone)
      BY <2>7 DEF PruneOldest
    <3> QED BY <2>7, <3>1, TakeTyped DEF PruneOldest, DirectoryOK
  <2>8. CASE PruneDone
    BY <2>8, SyncTyped DEF PruneDone, DirectoryOK
  <2> QED BY <1>2, <2>1, <2>2, <2>3, <2>4, <2>5, <2>6, <2>7, <2>8 DEF AutosaveStep
<1>3. CASE RecoveryStep
  <2>1. CASE Discover \/ Identify \/ Inspect \/ PublishCatalog
    BY <2>1, <1>1 DEF Discover, Identify, Inspect, PublishCatalog, AutosaveKept
  <2>2. CASE DropTombstone
    <3>1. CASE Remove(Lowest(choice.names.tombstones))
      BY <2>2, <3>1, RemoveTyped DEF DropTombstone, AutosaveKept, DirectoryOK
    <3> QED BY <2>2, <3>1, <1>1 DEF DropTombstone, AutosaveKept
  <2>3. CASE \E g \in Generation : Restore(g) \/ Dismiss(g)
    BY <2>3, <1>1 DEF Restore, Dismiss, AutosaveKept
  <2>4. CASE LoadCandidate \/ CommitRestore \/ GiveUp
    BY <2>4, <1>1 DEF LoadCandidate, CommitRestore, Adopt, GiveUp, AutosaveKept
  <2>5. CASE Entomb
    <3> DEFINE g == choice.generation
    <3>1. [tombstone EXCEPT ![g] = artifact[g]] \in Names
      <4>1. g \in Generation /\ artifact[g] \in 0..MaxFile
        BY <2>5 DEF Entomb, Managed, DirectoryOK, Names
      <4> QED BY <4>1, SetTyped DEF DirectoryOK
    <3> QED BY <2>5, <3>1, TakeTyped DEF Entomb, AutosaveKept
  <2>6. CASE SyncTombstone
    BY <2>6, SyncTyped DEF SyncTombstone, AutosaveKept, DirectoryOK
  <2>7. CASE Bury
    <3> DEFINE g == choice.generation
    <3>1. fate' \in [File -> {"unknown", "published", "taken", "dismissed"}]
      BY <2>7 DEF Bury, DirectoryOK
    <3>2. CASE Remove(g)
      BY <2>7, <3>1, <3>2, RemoveTyped DEF Bury, AutosaveKept, DirectoryOK
    <3>3. CASE UNCHANGED directory
      BY <2>7, <3>1, <3>3 DEF Bury, AutosaveKept, DirectoryOK, directory
    <3> QED BY <2>7, <3>2, <3>3 DEF Bury
  <2> QED BY <1>3, <2>1, <2>2, <2>3, <2>4, <2>5, <2>6, <2>7 DEF RecoveryStep
<1>4. CASE Edit
  BY <1>4, <1>1 DEF Edit
<1>5. CASE PublishedElsewhere
  BY <1>5, AppearTyped DEF PublishedElsewhere
<1>6. CASE \E g \in Generation : DismissedElsewhere(g)
  BY <1>6, TakeTyped DEF DismissedElsewhere, DirectoryOK
<1>7. CASE Killed
  BY <1>7, <1>1 DEF Killed, Restarted
<1>8. CASE PowerLoss
  BY <1>8 DEF PowerLoss, Restarted, DirectoryOK
<1>9. CASE UNCHANGED vars
  BY <1>9, <1>1 DEF vars
<1> QED BY <1>2, <1>3, <1>4, <1>5, <1>6, <1>7, <1>8, <1>9 DEF Next

-----------------------------------------------------------------------------
(* Types: the autosave controller. *)

LEMMA PruneTyped ==
  ASSUME NEW op \in {"configure", "prune"}, NEW p \in Policy \cup {Unset}, StartPrune(op, p)
  PROVE  stage' \in {"idle", "prune"} /\ call' \in Call
<1>1. Surplus(p.retention) \in SUBSET Generation
  BY DEF Surplus, Managed
<1>2. [NoCall EXCEPT !.op = op, !.policy = p, !.todo = Surplus(p.retention)] \in Call
  BY <1>1, IdleTyped DEF Call
<1> QED BY <1>2, IdleTyped DEF StartPrune

LEMMA TakeOverTyped ==
  ASSUME NEW p \in Policy \cup {Unset}, TakeOver(p)
  PROVE  policy' \in Policy \cup {Unset} /\ remaining' \in 0..Interval(policy')
BY Bounds DEF TakeOver

LEMMA PublishTyped ==
  ASSUME AutosaveOK, NEW op \in {"tick", "save_now"}, Publish(op)
  PROVE  AutosaveOK'
<1>1. call' \in Call /\ call'.generation \in Generation
  <2>1. NextGeneration \in 0..MaxGeneration
    BY Bounds DEF Publish, Generation
  <2>2. [NoCall EXCEPT !.op = op, !.current = TRUE, !.generation = NextGeneration] \in Call
    BY <2>1, IdleTyped DEF Call
  <2>3. NoCall.generation = 0 /\ DOMAIN NoCall = {"op", "policy", "current", "attempts", "generation", "file", "todo"}
    BY DEF NoCall
  <2>4. call'.generation = NextGeneration
    BY DEF Publish, NoCall
  <2> QED BY <2>2, <2>4 DEF Publish
<1> QED BY <1>1 DEF Publish, AutosaveOK, schedule, Stages

\* The call keeps its type when the project moves on.
LEMMA MovedTyped ==
  ASSUME AutosaveOK, Moved \/ UNCHANGED << lastPeriodic, call >>,
         UNCHANGED << policy, remaining, stage >>
  PROVE  AutosaveOK'
<1>1. CASE Moved
  <2>1. call' \in Call
    BY <1>1 DEF Moved, AutosaveOK, Call
  <2>2. call'.generation = call.generation
    BY <1>1 DEF Moved, AutosaveOK, Call
  <2> QED BY <1>1, <2>1, <2>2, IdleTyped DEF Moved, AutosaveOK
<1> QED BY <1>1 DEF AutosaveOK

LEMMA AutosaveOKStep ==
  ASSUME TypeOK, [Next]_vars
  PROVE  AutosaveOK'
<1> USE DEF TypeOK
<1>1. ASSUME UNCHANGED autosave
      PROVE  AutosaveOK'
  BY <1>1 DEF autosave, schedule, AutosaveOK
<1>2. ASSUME Restarted
      PROVE  AutosaveOK'
  <2>1. 0 \in 0..Interval(Unset)
    BY Bounds DEF Unset, Interval
  <2> QED BY <1>2, <2>1, IdleTyped DEF Restarted, AutosaveOK, Stages
<1>3. CASE AutosaveStep
  <2>1. ASSUME NEW p \in Policy, Configure(p)
        PROVE  AutosaveOK'
    <3>1. stage' \in {"idle", "prune"} /\ call' \in Call
      BY <2>1, PruneTyped DEF Configure
    <3>2. policy' \in Policy \cup {Unset} /\ remaining' \in 0..Interval(policy')
      BY <2>1, TakeOverTyped DEF Configure, AutosaveOK
    <3> QED BY <2>1, <3>1, <3>2 DEF Configure, AutosaveOK, Stages
  <2>2. ASSUME NEW time \in 0..MaxTime, TickEarly(time) \/ TickUnchanged(time)
        PROVE  AutosaveOK'
    <3>1. remaining' \in 0..Interval(policy)
      <4>1. Interval(policy) \in Nat /\ time \in Nat
        BY Bounds DEF AutosaveOK
      <4>2. CASE TickEarly(time) /\ policy.enabled
        BY <4>1, <4>2 DEF TickEarly, Observed, Due, AutosaveOK
      <4>3. CASE TickEarly(time) /\ ~policy.enabled
        BY <4>1, <4>3 DEF TickEarly, Observed
      <4>4. CASE TickUnchanged(time)
        BY <4>1, <4>4 DEF TickUnchanged, Observed
      <4> QED BY <2>2, <4>2, <4>3, <4>4
    <3> QED BY <2>2, <3>1 DEF TickEarly, TickUnchanged, Observed, AutosaveOK
  <2>3. ASSUME NEW time \in 0..MaxTime, TickDue(time)
        PROVE  AutosaveOK'
    BY <2>3, PublishTyped DEF TickDue
  <2>4. CASE SaveNow
    BY <2>4, PublishTyped DEF SaveNow
  <2>5. CASE Prune
    <3>1. stage' \in {"idle", "prune"} /\ call' \in Call
      BY <2>5, PruneTyped DEF Prune, AutosaveOK
    <3> QED BY <2>5, <3>1 DEF Prune, AutosaveOK, Stages, schedule
  <2>6. CASE Link
    <3>1. PICK f \in File : call' = [call EXCEPT !.file = f, !.attempts = 0]
      BY <2>6 DEF Link
    <3>2. f \in 0..MaxFile /\ 0 \in 0..(MaxCollisions - 1)
      BY Bounds DEF File
    <3>3. call' \in Call
      BY <3>1, <3>2 DEF AutosaveOK, Call
    <3> QED BY <2>6, <3>3 DEF Link, AutosaveOK, Stages, schedule
  <2>7. CASE Collide
    <3>1. call.attempts + 1 \in 0..(MaxCollisions - 1) /\ NextGeneration \in 0..MaxGeneration
      <4>1. call.attempts \in 0..(MaxCollisions - 1)
        BY DEF AutosaveOK, Call
      <4> QED BY <2>7, <4>1, Bounds DEF Collide, Generation
    <3>2. call' \in Call
      BY <2>7, <3>1 DEF Collide, AutosaveOK, Call
    <3>3. call'.generation = NextGeneration
      BY <2>7 DEF Collide, AutosaveOK, Call
    <3> QED BY <2>7, <3>2, <3>3 DEF Collide, AutosaveOK, schedule
  <2>8. CASE Published
    <3>1. stage' \in {"idle", "prune"} /\ call' \in Call
      BY <2>8, PruneTyped DEF Published, AutosaveOK
    <3>2. remaining' \in 0..Interval(policy)
      BY <2>8, Bounds DEF Published, PointPublished, AutosaveOK
    <3>3. lastPeriodic' \in Point
      BY <2>8, IdleTyped DEF Published, PointPublished, AutosaveOK, Point, Call
    <3> QED BY <2>8, <3>1, <3>2, <3>3 DEF Published, AutosaveOK, Stages
  <2>9. CASE PruneOldest
    <3>1. call' \in Call
      BY <2>9 DEF PruneOldest, AutosaveOK, Call
    <3> QED BY <2>9, <3>1 DEF PruneOldest, AutosaveOK, schedule
  <2>10. CASE PruneDone
    <3>1. policy' \in Policy \cup {Unset} /\ remaining' \in 0..Interval(policy')
      BY <2>10, TakeOverTyped DEF PruneDone, AutosaveOK, Call
    <3> QED BY <2>10, <3>1, IdleTyped DEF PruneDone, AutosaveOK, Stages
  <2>11. CASE Fail
    BY <2>11, IdleTyped DEF Fail, AutosaveOK, Stages, schedule
  <2> QED BY <1>3, <2>1, <2>2, <2>3, <2>4, <2>5, <2>6, <2>7, <2>8, <2>9, <2>10, <2>11
          DEF AutosaveStep
<1>4. CASE RecoveryStep
  <2>1. CASE CommitRestore
    BY <2>1, MovedTyped DEF CommitRestore, Adopt
  <2>2. CASE ~CommitRestore
    BY <1>4, <2>2, <1>1 DEF RecoveryStep, Discover, DropTombstone, Identify, Inspect, PublishCatalog,
       Restore, Dismiss, LoadCandidate, Entomb, SyncTombstone, Bury, GiveUp, AutosaveKept
  <2> QED BY <2>1, <2>2
<1>5. CASE Edit
  BY <1>5, MovedTyped DEF Edit
<1>6. CASE PublishedElsewhere \/ \E g \in Generation : DismissedElsewhere(g)
  BY <1>6, <1>1 DEF PublishedElsewhere, DismissedElsewhere
<1>7. CASE Killed \/ PowerLoss
  BY <1>7, <1>2 DEF Killed, PowerLoss
<1>8. CASE UNCHANGED vars
  BY <1>8, <1>1 DEF vars
<1> QED BY <1>3, <1>4, <1>5, <1>6, <1>7, <1>8 DEF Next

-----------------------------------------------------------------------------
(* Types: the recovery controller. *)

LEMMA RecoveryOKStep ==
  ASSUME TypeOK, [Next]_vars
  PROVE  RecoveryOK'
<1> USE DEF TypeOK
<1>1. ASSUME UNCHANGED recovery
      PROVE  RecoveryOK'
  BY <1>1 DEF recovery, RecoveryOK
<1>2. ASSUME Restarted
      PROVE  RecoveryOK'
  BY <1>2, IdleTyped, EmptyTyped DEF Restarted, RecoveryOK, Steps
<1>3. ASSUME choice' \in Choice, step' \in Steps, UNCHANGED << catalog, entries >>
      PROVE  RecoveryOK'
  BY <1>3 DEF RecoveryOK
<1>4. CASE AutosaveStep
  BY <1>4, <1>1 DEF AutosaveStep, Configure, TickEarly, TickUnchanged, TickDue, Observed, Publish,
     SaveNow, Prune, Link, Collide, Published, PruneOldest, PruneDone, Fail
<1>5. CASE RecoveryStep
  <2>1. CASE Discover
    <3>1. [tombstones |-> {g \in Generation : tombstone[g] # NoFile}, artifacts |-> Managed]
            \in [tombstones : SUBSET Generation, artifacts : SUBSET Generation]
      BY DEF Managed
    <3>2. choice' \in Choice
      BY <2>1, <3>1, IdleTyped DEF Discover, Choice
    <3> QED BY <2>1, <3>2, <1>3 DEF Discover, Steps
  <2>2. CASE DropTombstone
    <3>1. choice' \in Choice
      BY <2>2 DEF DropTombstone, RecoveryOK, Choice
    <3> QED BY <2>2, <3>1, <1>3 DEF DropTombstone, RecoveryOK
  <2>3. CASE Identify
    <3> DEFINE g == Lowest(choice.names.artifacts)
    <3>1. g \in 0..MaxGeneration /\ artifact[g] \in 0..MaxFile
      BY <2>3, Bounds DEF Identify, Managed, Generation, DirectoryOK, Names
    <3>2. [choice.entries EXCEPT ![g] = artifact[g]] \in Names
      BY <3>1, SetTyped DEF RecoveryOK, Choice
    <3>3. choice' \in Choice
      BY <2>3, <3>1, <3>2 DEF Identify, RecoveryOK, Choice
    <3> QED BY <2>3, <3>3, <1>3 DEF Identify, Steps
  <2>4. CASE Inspect
    <3> DEFINE g == choice.generation
    <3>1. CASE choice' = choice
      BY <2>4, <3>1, <1>3 DEF Inspect, RecoveryOK, Steps
    <3>2. CASE choice' = [choice EXCEPT !.listed[g] = artifact[g]]
      <4>1. [choice.listed EXCEPT ![g] = artifact[g]] \in Names
        BY DEF RecoveryOK, Choice, DirectoryOK, Names
      <4>2. choice' \in Choice
        BY <3>2, <4>1 DEF RecoveryOK, Choice
      <4> QED BY <2>4, <4>2, <1>3 DEF Inspect, Steps
    <3> QED BY <2>4, <3>1, <3>2 DEF Inspect
  <2>5. CASE PublishCatalog
    <3>1. catalog.revision \in {0, 1} /\ NextRevision \in {0, 1}
      BY DEF RecoveryOK, NextRevision
    <3>2. catalog' \in [revision : {0, 1}, listed : Names] /\ entries' \in Names
      BY <2>5, <3>1 DEF PublishCatalog, RecoveryOK, Choice
    <3> QED BY <2>5, <3>2, IdleTyped DEF PublishCatalog, RecoveryOK, Steps
  <2>6. ASSUME NEW g \in Generation, Restore(g)
        PROVE  RecoveryOK'
    <3>1. g \in 0..MaxGeneration /\ catalog.listed[g] \in 0..MaxFile
      BY Bounds DEF Generation, RecoveryOK, Names
    <3>2. choice' \in Choice
      BY <2>6, <3>1, IdleTyped DEF Restore, Choice
    <3> QED BY <2>6, <3>2, <1>3 DEF Restore, Steps
  <2>7. ASSUME NEW g \in Generation, Dismiss(g)
        PROVE  RecoveryOK'
    <3>1. g \in 0..MaxGeneration
      BY Bounds DEF Generation
    <3>2. choice' \in Choice
      BY <2>7, <3>1, IdleTyped DEF Dismiss, Choice
    <3> QED BY <2>7, <3>2, <1>3 DEF Dismiss, Steps
  <2>8. CASE LoadCandidate
    <3>1. artifact[choice.generation] \in 0..MaxFile
      BY <2>8 DEF LoadCandidate, Managed, DirectoryOK, Names
    <3>2. choice' \in Choice
      BY <2>8, <3>1 DEF LoadCandidate, RecoveryOK, Choice
    <3> QED BY <2>8, <3>2, <1>3 DEF LoadCandidate, Steps
  <2>9. CASE CommitRestore \/ GiveUp
    BY <2>9, IdleTyped, <1>3 DEF CommitRestore, Adopt, GiveUp, Steps
  <2>10. CASE Entomb \/ SyncTombstone
    BY <2>10 DEF Entomb, SyncTombstone, RecoveryOK, Steps
  <2>11. CASE Bury
    <3>1. NextRevision \in {0, 1}
      BY DEF RecoveryOK, NextRevision
    <3>2. entries' \in Names /\ [catalog.listed EXCEPT ![choice.generation] = NoFile] \in Names
      BY <2>11, SetTyped, NoFileTyped DEF Bury, RecoveryOK
    <3> QED BY <2>11, <3>1, <3>2, IdleTyped DEF Bury, RecoveryOK, Steps
  <2> QED BY <1>5, <2>1, <2>2, <2>3, <2>4, <2>5, <2>6, <2>7, <2>8, <2>9, <2>10, <2>11
          DEF RecoveryStep
<1>6. CASE Edit \/ PublishedElsewhere \/ \E g \in Generation : DismissedElsewhere(g)
  BY <1>6, <1>1 DEF Edit, PublishedElsewhere, DismissedElsewhere
<1>7. CASE Killed \/ PowerLoss
  BY <1>7, <1>2 DEF Killed, PowerLoss
<1>8. CASE UNCHANGED vars
  BY <1>8, <1>1 DEF vars
<1> QED BY <1>4, <1>5, <1>6, <1>7, <1>8 DEF Next

LEMMA TypeStep == TypeOK /\ [Next]_vars => TypeOK'
BY DirectoryStep, AutosaveOKStep, RecoveryOKStep DEF TypeOK

\* The directory, both controllers and their commands stay in their ranges, the
\* deadline is never further away than the policy's interval, and the directory
\* there is is one a power loss may bring back.
THEOREM TypeCorrect == Spec => []TypeOK
BY InitTyped, TypeStep, PTL DEF Spec

-----------------------------------------------------------------------------
(* Why a restore cannot take over another candidate.  A name is used again, *)
(* but for another file: a file that is not under a name any more is never  *)
(* under it again, as long as the process lives.                            *)

\* A file that has been seen was published before.
Known(f) == f # NoFile => named[f] # 0
KnownDirectories == \A d \in disk : \A g \in Generation : Known(d[1][g])
KnownIdentities  == \A g \in Generation : Known(entries[g]) /\ Known(choice.entries[g])

\* Once a name has not the identity that was taken, it never has it again.
Differs(f, e, g) == f # NoFile /\ e # NoFile /\ f # e => artifact[g] # e
Agree(listed, identities) == \A g \in Generation : Differs(listed[g], identities[g], g)

SurveyInv ==
  /\ Agree(choice.listed, choice.entries)
  /\ \A g \in choice.names.artifacts : choice.listed[g] = NoFile
  /\ step = "identified" =>
       choice.generation \in Generation /\ choice.generation \notin choice.names.artifacts

CatalogInv == Agree(catalog.listed, entries)

RestoreInv ==
  LET g == choice.generation IN
  step \in {"checked", "loaded"} =>
    /\ g \in Generation
    /\ Differs(choice.shown, entries[g], g)
    /\ step = "loaded" => Differs(choice.loaded, entries[g], g) /\ choice.loaded # NoFile

KnownInv == KnownDirectories /\ KnownIdentities
IInv == KnownInv /\ SurveyInv /\ CatalogInv /\ RestoreInv

LEMMA InitIInv == Init => IInv
BY DEF Init, IInv, KnownInv, KnownDirectories, KnownIdentities, Known, SurveyInv, CatalogInv,
   RestoreInv, Agree, Differs, NoChoice, NoNames, Empty

\* The directory there is is one of those a power loss may bring back.
LEMMA KnownArtifact ==
  ASSUME TypeOK, KnownInv, NEW g \in Generation
  PROVE  Known(artifact[g])
<1>1. << artifact, tombstone >> \in disk
  BY DEF TypeOK, DirectoryOK
<1>2. << artifact, tombstone >>[1] = artifact
  OBVIOUS
<1> QED BY <1>1, <1>2 DEF KnownInv, KnownDirectories

\* A step of the directory: files keep their generation, a name gets a new file,
\* or loses the one it has, or keeps it.
Onward ==
  /\ \A f \in File : named[f] # 0 => named'[f] # 0
  /\ \A g \in Generation :
       \/ artifact'[g] \in {artifact[g], NoFile}
       \/ artifact'[g] \in File /\ named[artifact'[g]] = 0 /\ named'[artifact'[g]] # 0
  /\ disk' \subseteq disk \cup {<< artifact', tombstone' >>}

LEMMA AppearOnward ==
  ASSUME DirectoryOK, NEW f \in File, NEW g \in Generation, Appear(f, g)
  PROVE  Onward
<1>1. named' = [named EXCEPT ![f] = g] /\ named[f] = 0 /\ g # 0
  BY Bounds DEF Appear, Generation
<1>2. artifact' = [artifact EXCEPT ![g] = f] /\ disk' = disk \cup {<< artifact', tombstone' >>}
  BY DEF Appear, Change
<1>3. \A h \in File : named[h] # 0 => named'[h] # 0
  BY <1>1 DEF DirectoryOK
<1>4. ASSUME NEW h \in Generation
      PROVE  \/ artifact'[h] \in {artifact[h], NoFile}
             \/ artifact'[h] \in File /\ named[artifact'[h]] = 0 /\ named'[artifact'[h]] # 0
  BY <1>1, <1>2 DEF DirectoryOK, Names
<1> QED BY <1>2, <1>3, <1>4 DEF Onward

LEMMA TakeOnward ==
  ASSUME DirectoryOK, NEW g, NEW t, Change([artifact EXCEPT ![g] = NoFile], t), UNCHANGED named
  PROVE  Onward
<1>1. \A h \in Generation : artifact'[h] \in {artifact[h], NoFile}
  BY DEF Change, DirectoryOK, Names
<1> QED BY <1>1 DEF Onward, Change

LEMMA KeepOnward ==
  ASSUME DirectoryOK, UNCHANGED << artifact, named >>,
         disk' \subseteq disk \cup {<< artifact', tombstone' >>}
  PROVE  Onward
BY DEF Onward

LEMMA NextOnward ==
  ASSUME TypeOK, [Next]_vars, ~(Killed \/ PowerLoss)
  PROVE  Onward
<1> USE DEF TypeOK
<1>1. ASSUME UNCHANGED << directory, named >>
      PROVE  Onward
  BY <1>1, KeepOnward DEF directory
<1>2. ASSUME UNCHANGED named, SyncDirectory
      PROVE  Onward
  BY <1>2, KeepOnward DEF SyncDirectory
<1>3. ASSUME UNCHANGED named, NEW g, Remove(g)
      PROVE  Onward
  BY <1>3, KeepOnward DEF Remove, Change
<1>4. CASE AutosaveStep
  <2>1. CASE \E p \in Policy : Configure(p)
    BY <2>1, <1>1 DEF Configure
  <2>2. CASE \E time \in 0..MaxTime : TickEarly(time) \/ TickUnchanged(time) \/ TickDue(time)
    BY <2>2, <1>1 DEF TickEarly, TickUnchanged, TickDue, Observed, Publish
  <2>3. CASE SaveNow \/ Prune \/ Collide \/ Fail
    BY <2>3, <1>1 DEF SaveNow, Publish, Prune, Collide, Fail
  <2>4. CASE Link
    BY <2>4, AppearOnward DEF Link, AutosaveOK
  <2>5. CASE Published \/ PruneDone
    BY <2>5, <1>2 DEF Published, PruneDone
  <2>6. CASE PruneOldest
    BY <2>6, TakeOnward DEF PruneOldest
  <2> QED BY <1>4, <2>1, <2>2, <2>3, <2>4, <2>5, <2>6 DEF AutosaveStep
<1>5. CASE RecoveryStep
  <2>1. CASE Discover \/ Identify \/ Inspect \/ PublishCatalog \/ LoadCandidate \/ CommitRestore \/ GiveUp
    BY <2>1, <1>1 DEF Discover, Identify, Inspect, PublishCatalog, LoadCandidate, CommitRestore,
       Adopt, GiveUp, AutosaveKept
  <2>2. CASE \E g \in Generation : Restore(g) \/ Dismiss(g)
    BY <2>2, <1>1 DEF Restore, Dismiss, AutosaveKept
  <2>3. CASE DropTombstone
    BY <2>3, <1>1, <1>3 DEF DropTombstone, AutosaveKept
  <2>4. CASE Entomb
    BY <2>4, TakeOnward DEF Entomb, AutosaveKept
  <2>5. CASE SyncTombstone
    BY <2>5, <1>2 DEF SyncTombstone, AutosaveKept
  <2>6. CASE Bury
    BY <2>6, <1>1, <1>3 DEF Bury, AutosaveKept
  <2> QED BY <1>5, <2>1, <2>2, <2>3, <2>4, <2>5, <2>6 DEF RecoveryStep
<1>6. CASE Edit
  BY <1>6, <1>1 DEF Edit
<1>7. CASE PublishedElsewhere
  BY <1>7, AppearOnward DEF PublishedElsewhere
<1>8. CASE \E g \in Generation : DismissedElsewhere(g)
  BY <1>8, TakeOnward DEF DismissedElsewhere
<1>9. CASE Killed \/ PowerLoss
  BY <1>9
<1>10. CASE UNCHANGED vars
  BY <1>10, <1>1 DEF vars
<1> QED BY <1>4, <1>5, <1>6, <1>7, <1>8, <1>9, <1>10 DEF Next

\* Seen files stay seen, and a name never gets back a file it has lost.
LEMMA NeverBack ==
  ASSUME TypeOK, KnownInv, Onward, NEW g \in Generation, NEW e \in 0..MaxFile, Known(e)
  PROVE  Known(e)' /\ (artifact[g] # e /\ e # NoFile => artifact'[g] # e)
<1>1. e # NoFile => e \in File /\ named[e] # 0
  BY Bounds DEF Known, File
<1> QED BY <1>1 DEF Onward, Known

LEMMA KnownDirectoriesKept ==
  ASSUME TypeOK, KnownInv, Onward
  PROVE  KnownDirectories'
<1>1. ASSUME NEW d \in disk, NEW g \in Generation
      PROVE  Known(d[1][g])'
  <2>1. Known(d[1][g]) /\ d[1][g] \in 0..MaxFile
    BY DEF TypeOK, DirectoryOK, Names, KnownInv, KnownDirectories
  <2> QED BY <2>1, NeverBack DEF Known
<1>2. ASSUME NEW g \in Generation
      PROVE  Known(artifact[g])'
  <2>1. Known(artifact[g]) /\ artifact[g] \in 0..MaxFile
    BY KnownArtifact DEF TypeOK, DirectoryOK, Names
  <2>2. CASE artifact'[g] \in {artifact[g], NoFile}
    BY <2>1, <2>2, NeverBack DEF Known
  <2>3. CASE artifact'[g] \in File /\ named'[artifact'[g]] # 0
    BY <2>3 DEF Known
  <2> QED BY <2>2, <2>3 DEF Onward
<1>3. << artifact', tombstone' >>[1] = artifact'
  OBVIOUS
<1> QED BY <1>1, <1>2, <1>3 DEF KnownDirectories, Onward

\* What differed goes on to differ.
LEMMA DiffersOn ==
  ASSUME TypeOK, KnownInv, Onward, NEW g \in Generation, NEW f, NEW e \in 0..MaxFile, Known(e),
         Differs(f, e, g)
  PROVE  f # NoFile /\ e # NoFile /\ f # e => artifact'[g] # e
BY NeverBack DEF Differs

LEMMA IdentitiesTyped ==
  ASSUME TypeOK, NEW g \in Generation
  PROVE  /\ entries[g] \in 0..MaxFile /\ choice.entries[g] \in 0..MaxFile
         /\ artifact[g] \in 0..MaxFile
BY DEF TypeOK, DirectoryOK, RecoveryOK, Choice, Names

LEMMA IdentitiesKnown ==
  ASSUME TypeOK, IInv, Onward, NEW g \in Generation
  PROVE  /\ Known(entries[g]) /\ Known(choice.entries[g])
         /\ Known(entries[g])' \/ entries'[g] # entries[g]
         /\ Known(choice.entries[g])' \/ choice'.entries[g] # choice.entries[g]
         /\ Known(artifact[g])
<1>1. Known(entries[g]) /\ Known(choice.entries[g]) /\ Known(artifact[g])
  BY KnownArtifact DEF IInv, KnownInv, KnownIdentities
<1>2. /\ entries[g] # NoFile => named'[entries[g]] # 0
      /\ choice.entries[g] # NoFile => named'[choice.entries[g]] # 0
  BY <1>1, IdentitiesTyped, NeverBack DEF IInv, Known
<1> QED BY <1>1, <1>2 DEF Known

\* A command of the recovery controller, seen from the catalogue.
LEMMA CatalogKept ==
  ASSUME TypeOK, IInv, Onward, UNCHANGED << catalog, entries >>
  PROVE  CatalogInv' /\ \A g \in Generation : Known(entries[g])'
<1> SUFFICES ASSUME NEW g \in Generation
             PROVE  Differs(catalog.listed[g], entries[g], g)' /\ Known(entries[g])'
  BY DEF CatalogInv, Agree
<1>1. Differs(catalog.listed[g], entries[g], g)
  BY DEF IInv, CatalogInv, Agree
<1> QED BY <1>1, DiffersOn, IdentitiesTyped, IdentitiesKnown DEF Differs, IInv

\* The survey that is being made, or made ready for its publication.
LEMMA SurveyKept ==
  ASSUME TypeOK, IInv, Onward,
         UNCHANGED << choice, step >>
         \/ /\ choice'.listed = choice.listed /\ choice'.entries = choice.entries
            /\ choice'.names.artifacts \subseteq choice.names.artifacts
            /\ step' # "identified"
  PROVE  SurveyInv' /\ \A g \in Generation : Known(choice.entries[g])'
<1>1. ASSUME NEW g \in Generation
      PROVE  Differs(choice.listed[g], choice.entries[g], g)' /\ Known(choice.entries[g])'
  <2>1. Differs(choice.listed[g], choice.entries[g], g)
    BY DEF IInv, SurveyInv, Agree
  <2> QED BY <2>1, DiffersOn, IdentitiesTyped, IdentitiesKnown DEF Differs, IInv
<1>2. \A g \in choice'.names.artifacts : choice'.listed[g] = NoFile
  BY DEF IInv, SurveyInv
<1>3. (step = "identified" =>
         choice.generation \in Generation /\ choice.generation \notin choice.names.artifacts)'
  BY DEF IInv, SurveyInv
<1> QED BY <1>1, <1>2, <1>3 DEF SurveyInv, Agree

\* No survey is being made.
LEMMA SurveyOver ==
  ASSUME choice'.listed = NoChoice.listed, choice'.entries = NoChoice.entries,
         choice'.names = NoNames, step' # "identified"
  PROVE  SurveyInv' /\ \A g \in Generation : Known(choice.entries[g])'
BY DEF SurveyInv, Agree, Differs, Known, NoChoice, NoNames

LEMMA RestoreKept ==
  ASSUME TypeOK, IInv, Onward, UNCHANGED << choice, entries, step >>
  PROVE  RestoreInv'
<1> DEFINE g == choice.generation
<1> SUFFICES ASSUME step \in {"checked", "loaded"}
             PROVE  /\ g \in Generation
                    /\ Differs(choice.shown, entries[g], g)'
                    /\ step = "loaded" => Differs(choice.loaded, entries[g], g)' /\ choice.loaded # NoFile
  BY DEF RestoreInv
<1>1. /\ g \in Generation /\ Differs(choice.shown, entries[g], g)
      /\ step = "loaded" => Differs(choice.loaded, entries[g], g) /\ choice.loaded # NoFile
  BY DEF IInv, RestoreInv
<1> QED BY <1>1, DiffersOn, IdentitiesTyped, IdentitiesKnown DEF Differs, IInv

LEMMA RestoreOver ==
  ASSUME step' \notin {"checked", "loaded"}
  PROVE  RestoreInv'
BY DEF RestoreInv

\* The recovery controller does nothing.
LEMMA QuietKeeps ==
  ASSUME TypeOK, IInv, Onward, UNCHANGED recovery
  PROVE  IInv'
<1>1. KnownDirectories'
  BY KnownDirectoriesKept DEF IInv
<1> QED BY <1>1, CatalogKept, SurveyKept, RestoreKept DEF recovery, IInv, KnownInv, KnownIdentities

\* The recovery controller gets the state of a new process.
LEMMA RestartKeeps ==
  ASSUME IInv, Restarted, disk' \subseteq disk
  PROVE  IInv'
<1>1. KnownDirectories'
  BY DEF Restarted, IInv, KnownInv, KnownDirectories, Known
<1> QED BY <1>1, SurveyOver, RestoreOver
        DEF Restarted, IInv, KnownInv, KnownIdentities, Known, CatalogInv, Agree, Differs, Empty,
            NoChoice

LEMMA RecoveryKeeps ==
  ASSUME TypeOK, IInv, Onward, RecoveryStep
  PROVE  IInv'
<1>1. KnownDirectories'
  BY KnownDirectoriesKept DEF IInv
<1>2. ASSUME SurveyInv' /\ (\A g \in Generation : Known(choice.entries[g])'),
             CatalogInv' /\ (\A g \in Generation : Known(entries[g])'), RestoreInv'
      PROVE  IInv'
  BY <1>1, <1>2 DEF IInv, KnownInv, KnownIdentities
<1>3. CASE Discover
  <2>1. /\ choice'.listed = NoChoice.listed /\ choice'.entries = NoChoice.entries
        /\ step' = "names" /\ UNCHANGED << catalog, entries >>
    BY <1>3 DEF Discover, NoChoice
  <2>2. SurveyInv' /\ \A g \in Generation : Known(choice.entries[g])'
    <3>1. choice'.names.artifacts \subseteq Generation
      BY <1>3 DEF Discover, NoChoice, Managed
    <3> QED BY <2>1, <3>1 DEF SurveyInv, Agree, Differs, Known, NoChoice
  <2> QED BY <2>1, <2>2, <1>2, CatalogKept, RestoreOver
<1>4. CASE DropTombstone
  <2>1. /\ choice'.listed = choice.listed /\ choice'.entries = choice.entries
        /\ choice'.names.artifacts = choice.names.artifacts
        /\ step' = "names" /\ UNCHANGED << catalog, entries >>
    BY <1>4 DEF DropTombstone, TypeOK, RecoveryOK, Choice
  <2> QED BY <2>1, <1>2, SurveyKept, CatalogKept, RestoreOver
<1>5. CASE Identify
  <2> DEFINE left == choice.names.artifacts
             g == Lowest(left)
  <2>1. g \in Generation /\ g \in left /\ step' = "identified" /\ UNCHANGED << artifact, named, catalog, entries >>
    BY <1>5 DEF Identify, Managed, directory, AutosaveKept
  <2>2. /\ choice'.generation = g /\ choice'.listed = choice.listed
        /\ choice'.entries = [choice.entries EXCEPT ![g] = artifact[g]]
        /\ choice'.names.artifacts = left \ {g}
    BY <1>5 DEF Identify, TypeOK, RecoveryOK, Choice
  <2>3. choice.listed[g] = NoFile
    BY <2>1 DEF IInv, SurveyInv
  <2>4. ASSUME NEW h \in Generation
        PROVE  Differs(choice.listed[h], choice.entries[h], h)' /\ Known(choice.entries[h])'
    <3>1. Differs(choice.listed[h], choice.entries[h], h) /\ Known(choice.entries[h]) /\ Known(artifact[h])
      BY IdentitiesKnown DEF IInv, SurveyInv, Agree
    <3>2. CASE h = g
      BY <3>1, <3>2, <2>1, <2>2, <2>3 DEF Differs, Known, TypeOK, RecoveryOK, Choice, Names
    <3>3. CASE h # g
      BY <3>1, <3>3, <2>1, <2>2 DEF Differs, Known, TypeOK, RecoveryOK, Choice, Names
    <3> QED BY <3>2, <3>3
  <2>5. SurveyInv' /\ \A h \in Generation : Known(choice.entries[h])'
    BY <2>1, <2>2, <2>4 DEF SurveyInv, Agree, IInv
  <2> QED BY <2>1, <2>5, <1>2, CatalogKept, RestoreOver
<1>6. CASE Inspect
  <2> DEFINE g == choice.generation
  <2>1. g \in Generation /\ g \notin choice.names.artifacts
    BY <1>6 DEF Inspect, IInv, SurveyInv
  <2>2. step' = "names" /\ UNCHANGED << artifact, named, catalog, entries >>
    BY <1>6 DEF Inspect, directory, AutosaveKept
  <2>3. CASE choice' = choice
    BY <2>2, <2>3, <1>2, SurveyKept, CatalogKept, RestoreOver
  <2>4. CASE choice' = [choice EXCEPT !.listed[g] = artifact[g]]
    <3>1. /\ choice'.listed = [choice.listed EXCEPT ![g] = artifact[g]]
          /\ choice'.entries = choice.entries /\ choice'.names = choice.names
      BY <2>4 DEF TypeOK, RecoveryOK, Choice
    <3>2. ASSUME NEW h \in Generation
          PROVE  Differs(choice.listed[h], choice.entries[h], h)' /\ Known(choice.entries[h])'
      <4>1. Differs(choice.listed[h], choice.entries[h], h) /\ Known(choice.entries[h])
        BY IdentitiesKnown DEF IInv, SurveyInv, Agree
      <4> QED BY <4>1, <2>2, <3>1 DEF Differs, Known, TypeOK, RecoveryOK, Choice, Names
    <3>3. ASSUME NEW h \in choice'.names.artifacts
          PROVE  choice'.listed[h] = NoFile
      BY <2>1, <3>1 DEF IInv, SurveyInv, TypeOK, RecoveryOK, Choice, Names
    <3>4. SurveyInv' /\ \A h \in Generation : Known(choice.entries[h])'
      BY <2>2, <3>2, <3>3 DEF SurveyInv, Agree
    <3> QED BY <2>2, <3>4, <1>2, CatalogKept, RestoreOver
  <2> QED BY <1>6, <2>3, <2>4 DEF Inspect
<1>7. CASE PublishCatalog
  <2>1. /\ catalog'.listed = choice.listed /\ entries' = choice.entries
        /\ choice' = NoChoice /\ step' = "idle" /\ UNCHANGED << artifact, named >>
    BY <1>7 DEF PublishCatalog, directory, AutosaveKept
  <2>2. CatalogInv' /\ \A g \in Generation : Known(entries[g])'
    BY <2>1 DEF IInv, KnownInv, KnownIdentities, SurveyInv, CatalogInv, Agree, Differs, Known
  <2> QED BY <2>1, <2>2, <1>2, SurveyOver, RestoreOver DEF NoChoice
<1>8. ASSUME NEW g \in Generation, Restore(g)
      PROVE  IInv'
  <2>1. /\ choice' = [NoChoice EXCEPT !.generation = g, !.shown = catalog.listed[g]]
        /\ step' = "checked" /\ UNCHANGED << artifact, catalog, entries >>
    BY <1>8 DEF Restore, directory
  <2>2. /\ choice'.generation = g /\ choice'.shown = catalog.listed[g]
        /\ choice'.listed = NoChoice.listed /\ choice'.entries = NoChoice.entries
        /\ choice'.names = NoNames
    BY <2>1 DEF NoChoice
  <2>3. RestoreInv'
    BY <2>1, <2>2 DEF RestoreInv, Differs, IInv, CatalogInv, Agree
  <2> QED BY <2>1, <2>2, <2>3, <1>2, SurveyOver, CatalogKept
<1>9. ASSUME NEW g \in Generation, Dismiss(g)
      PROVE  IInv'
  <2>1. /\ choice'.listed = NoChoice.listed /\ choice'.entries = NoChoice.entries
        /\ choice'.names = NoNames
        /\ step' = "reserved" /\ UNCHANGED << catalog, entries >>
    BY <1>9 DEF Dismiss, NoChoice
  <2> QED BY <2>1, <1>2, SurveyOver, CatalogKept, RestoreOver
<1>10. CASE LoadCandidate
  <2> DEFINE g == choice.generation
  <2>1. /\ step = "checked" /\ step' = "loaded" /\ artifact[g] # NoFile
        /\ choice' = [choice EXCEPT !.loaded = artifact[g]]
        /\ UNCHANGED << artifact, catalog, entries >>
    BY <1>10 DEF LoadCandidate, directory, Managed
  <2>2. /\ choice'.generation = g /\ choice'.shown = choice.shown
        /\ choice'.loaded = artifact[g] /\ choice'.names = choice.names
        /\ choice'.listed = choice.listed /\ choice'.entries = choice.entries
    BY <2>1 DEF TypeOK, RecoveryOK, Choice
  <2>3. RestoreInv'
    BY <2>1, <2>2 DEF RestoreInv, Differs, IInv
  <2> QED BY <2>1, <2>2, <2>3, <1>2, SurveyKept, CatalogKept
<1>11. CASE CommitRestore \/ GiveUp
  <2>1. choice' = NoChoice /\ step' = "idle" /\ UNCHANGED << catalog, entries >>
    BY <1>11 DEF CommitRestore, Adopt, GiveUp
  <2> QED BY <2>1, <1>2, SurveyOver, CatalogKept, RestoreOver DEF NoChoice
<1>12. CASE Entomb \/ SyncTombstone
  <2>1. step' \in {"renamed", "entombed"} /\ UNCHANGED << choice, catalog, entries >>
    BY <1>12 DEF Entomb, SyncTombstone
  <2> QED BY <2>1, <1>2, SurveyKept, CatalogKept, RestoreOver
<1>13. CASE Bury
  <2> DEFINE g == choice.generation
  <2>1. /\ catalog'.listed = [catalog.listed EXCEPT ![g] = NoFile]
        /\ entries' = [entries EXCEPT ![g] = NoFile]
        /\ choice' = NoChoice /\ step' = "idle" /\ UNCHANGED named
    BY <1>13 DEF Bury, AutosaveKept
  <2>2. ASSUME NEW h \in Generation
        PROVE  Differs(catalog.listed[h], entries[h], h)' /\ Known(entries[h])'
    <3>1. CASE h = g
      BY <2>1, <3>1 DEF Differs, Known, TypeOK, RecoveryOK, Names
    <3>2. CASE h # g
      <4>1. entries'[h] = entries[h] /\ catalog'.listed[h] = catalog.listed[h]
        BY <2>1, <3>2 DEF TypeOK, RecoveryOK, Names
      <4>2. Differs(catalog.listed[h], entries[h], h)
        BY DEF IInv, CatalogInv, Agree
      <4> QED BY <4>1, <4>2, DiffersOn, IdentitiesTyped, IdentitiesKnown DEF Differs, IInv, Known
    <3> QED BY <3>1, <3>2
  <2>3. CatalogInv' /\ \A h \in Generation : Known(entries[h])'
    BY <2>2 DEF CatalogInv, Agree
  <2> QED BY <2>1, <2>3, <1>2, SurveyOver, RestoreOver DEF NoChoice
<1> QED BY <1>3, <1>4, <1>5, <1>6, <1>7, <1>8, <1>9, <1>10, <1>11, <1>12, <1>13 DEF RecoveryStep

LEMMA StepIInv == TypeOK /\ IInv /\ [Next]_vars => IInv'
<1> SUFFICES ASSUME TypeOK, IInv, [Next]_vars
             PROVE  IInv'
  OBVIOUS
<1>1. CASE Killed \/ PowerLoss
  BY <1>1, RestartKeeps DEF Killed, PowerLoss, directory
<1>2. CASE ~(Killed \/ PowerLoss)
  <2>1. Onward
    BY <1>2, NextOnward
  <2>2. CASE RecoveryStep
    BY <2>1, <2>2, RecoveryKeeps
  <2>3. CASE AutosaveStep
    <3>1. UNCHANGED recovery
      BY <2>3 DEF AutosaveStep, Configure, TickEarly, TickUnchanged, TickDue, Observed, Publish,
         SaveNow, Prune, Link, Collide, Published, PruneOldest, PruneDone, Fail
    <3> QED BY <2>1, <3>1, QuietKeeps
  <2>4. CASE Edit \/ PublishedElsewhere \/ (\E g \in Generation : DismissedElsewhere(g)) \/ UNCHANGED vars
    <3>1. UNCHANGED recovery
      BY <2>4 DEF Edit, PublishedElsewhere, DismissedElsewhere, vars
    <3> QED BY <2>1, <3>1, QuietKeeps
  <2> QED BY <1>2, <2>2, <2>3, <2>4 DEF Next
<1> QED BY <1>1, <1>2

-----------------------------------------------------------------------------
(* What follows for the user. *)

\* The file that was read is the one the catalogue listed.
LEMMA RestoredIsShown ==
  ASSUME IInv, CommitRestore, choice.shown # NoFile
  PROVE  choice.loaded = choice.shown
<1> DEFINE g == choice.generation
<1>1. step = "loaded" /\ entries[g] # NoFile /\ artifact[g] = entries[g]
  BY DEF CommitRestore, Revalidated
<1>2. /\ g \in Generation /\ Differs(choice.shown, entries[g], g)
      /\ Differs(choice.loaded, entries[g], g) /\ choice.loaded # NoFile
  BY <1>1 DEF IInv, RestoreInv
<1> QED BY <1>1, <1>2 DEF Differs

\* The catalogue changes under a new revision only.
LEMMA RevisionTells ==
  ASSUME TypeOK, [Next]_vars, ~Restarted, catalog'.revision = catalog.revision
  PROVE  entries' = entries /\ Listed(catalog') = Listed(catalog)
<1>1. ASSUME UNCHANGED << catalog, entries >>
      PROVE  entries' = entries /\ Listed(catalog') = Listed(catalog)
  BY <1>1
<1>2. CASE AutosaveStep
  BY <1>2, <1>1 DEF AutosaveStep, Configure, TickEarly, TickUnchanged, TickDue, Observed, Publish,
     SaveNow, Prune, Link, Collide, Published, PruneOldest, PruneDone, Fail, recovery
<1>3. CASE RecoveryStep
  <2>1. CASE PublishCatalog
    <3>1. ~CatalogChanged /\ catalog'.listed = choice.listed /\ entries' = choice.entries
      BY <2>1 DEF PublishCatalog
    <3>2. Listed(catalog') = Listed(choice)
      BY <3>1 DEF Listed
    <3> QED BY <3>1, <3>2 DEF CatalogChanged
  <2>2. CASE Bury
    <3>1. catalog'.revision = (catalog.revision + 1) % 2
      BY <2>2 DEF Bury, NextRevision
    <3>2. catalog.revision \in {0, 1}
      BY DEF TypeOK, RecoveryOK
    <3>3. (0 + 1) % 2 = 1 /\ (1 + 1) % 2 = 0
      OBVIOUS
    <3> QED BY <3>1, <3>2, <3>3
  <2>3. CASE RecoveryStep /\ ~PublishCatalog /\ ~Bury
    BY <2>3, <1>1 DEF RecoveryStep, Discover, DropTombstone, Identify, Inspect, Restore, Dismiss,
       LoadCandidate, CommitRestore, Adopt, Entomb, SyncTombstone, GiveUp
  <2> QED BY <1>3, <2>1, <2>2, <2>3
<1>4. CASE Edit \/ PublishedElsewhere \/ (\E g \in Generation : DismissedElsewhere(g)) \/ UNCHANGED vars
  BY <1>4, <1>1 DEF Edit, PublishedElsewhere, DismissedElsewhere, vars, recovery
<1>5. CASE Killed \/ PowerLoss
  BY <1>5 DEF Killed, PowerLoss
<1> QED BY <1>2, <1>3, <1>4, <1>5 DEF Next

\* A restore takes over exactly the candidate that the catalogue of the given
\* revision listed, whatever is published, pruned or dismissed between the checks
\* and the reads, and the catalogue never changes silently.
THEOREM RestoresListed == Spec => RestoresWhatWasListed
<1>1. IInv /\ [Next]_vars => [CommitRestore /\ choice.shown # NoFile => choice.loaded = choice.shown]_vars
  BY RestoredIsShown
<1>2. TypeOK /\ [Next]_vars => [catalog'.revision = catalog.revision /\ ~Restarted
                                  => entries' = entries /\ Listed(catalog') = Listed(catalog)]_vars
  BY RevisionTells
<1> QED BY InitTyped, TypeStep, InitIInv, StepIInv, <1>1, <1>2, PTL DEF Spec, RestoresWhatWasListed

-----------------------------------------------------------------------------
(* Why a report stays true.                                                *)

\* A set of numbers has a least one.
LEMMA HasLowest ==
  ASSUME NEW S \in SUBSET Nat, S # {}
  PROVE  Lowest(S) \in S /\ \A h \in S : Lowest(S) <= h
<1> DEFINE T == {1..n : n \in S}
<1>1. T # {} /\ T \subseteq FiniteSubsetsOf(Nat)
  <2>1. ASSUME NEW n \in S
        PROVE  1..n \in FiniteSubsetsOf(Nat)
    <3>1. IsFiniteSet(1..n)
      BY FS_Interval
    <3> QED BY <3>1 DEF FiniteSubsetsOf
  <2> QED BY <2>1
<1>2. PICK x \in T : \A y \in T : << y, x >> \notin StrictSubsetOrdering(Nat)
  <2> HIDE DEF T
  <2> QED BY <1>1, FS_StrictSubsetOrderingWellFounded, WFMin
<1>3. PICK g \in S : x = 1..g
  OBVIOUS
<1>4. ASSUME NEW h \in S, h < g
      PROVE  FALSE
  <2>1. 1..h \subseteq 1..g /\ g \in 1..g /\ g \notin 1..h
    BY <1>4
  <2>2. << 1..h, 1..g >> \in (SUBSET Nat) \X (SUBSET Nat)
    OBVIOUS
  <2>3. << 1..h, 1..g >> \in StrictSubsetOrdering(Nat)
    BY <2>1, <2>2 DEF StrictSubsetOrdering
  <2> QED BY <2>3, <1>2, <1>3
<1>5. \A h \in S : g <= h
  BY <1>4
<1> QED BY <1>5 DEF Lowest

\* The next generation is free.
LEMMA NextIsFree == NextGeneration \notin Managed
<1> SUFFICES ASSUME Managed # {}, NextGeneration \in Managed
             PROVE  FALSE
  BY DEF NextGeneration
<1> DEFINE T == {MaxGeneration - g : g \in Managed}
<1>1. Managed \subseteq Generation /\ Generation \subseteq Nat
  BY Bounds DEF Managed, Generation
<1>2. T \in SUBSET Nat /\ T # {}
  BY <1>1, Bounds DEF Generation
<1>3. PICK m \in Managed : \A g \in Managed : MaxGeneration - m <= MaxGeneration - g
  <2>1. Lowest(T) \in T /\ \A n \in T : Lowest(T) <= n
    <3> HIDE DEF T
    <3> QED BY <1>2, HasLowest
  <2> QED BY <2>1
<1>4. \A g \in Managed : g <= m
  BY <1>1, <1>3, Bounds
<1>5. Above(Managed, m) = {}
  <2>1. ASSUME NEW h \in Managed
        PROVE  ~(h > m)
    <3>1. h \in Nat /\ m \in Nat /\ h <= m
      BY <1>1, <1>4
    <3> QED BY <3>1
  <2> QED BY <2>1 DEF Above
<1>6. PICK n \in Managed : NextGeneration = 1 + n /\ Above(Managed, n) = {}
  BY <1>5 DEF NextGeneration
<1> QED BY <1>1, <1>6 DEF Above

\* No policy retains fewer recovery points than the least.
LEMMA LeastIsLeast ==
  ASSUME NEW p \in Policy
  PROVE  LeastRetention \in Nat /\ LeastRetention <= p.retention
<1> DEFINE S == {q.retention : q \in Policy}
<1>1. S \in SUBSET Nat /\ S # {}
  BY RecoveryAssumption
<1>2. Lowest(S) \in S /\ \A n \in S : Lowest(S) <= n
  <2> HIDE DEF S
  <2> QED BY <1>1, HasLowest
<1>3. Lowest(S) \in S /\ \A q \in Policy : Lowest(S) <= q.retention
  BY <1>2
<1> QED BY <1>1, <1>3 DEF LeastRetention

-----------------------------------------------------------------------------

Here == << artifact, tombstone >>
Newer(n, d) == {h \in Present(d) \cup Taken : named[h] > n}
Enough(n, d) == Cardinality(Newer(n, d)) >= LeastRetention

\* What the property says of one directory.
Evident(d) ==
  /\ \A f \in With({"published"}) : f \in Present(d) \/ Superseded(f, d)
  /\ With({"dismissed"}) \cap Present(d) = {}

\* A file is under the generation it was published for only, or in its tombstone.
NamesHeld ==
  \A d \in disk : \A g \in Generation :
    /\ d[1][g] # NoFile => named[d[1][g]] = g
    /\ d[2][g] # NoFile => named[d[2][g]] = g /\ \A h \in Generation : d[1][h] # d[2][g]

\* Only files that were published, under some policy, are reported.
Reported ==
  \A f \in File : fate[f] # "unknown" => named[f] # 0 /\ (fate[f] = "published" => Policy # {})

\* What autosave goes on to remove has as many newer ones as any policy retains.
PruneInv == \A g \in call.todo : Policy # {} /\ Enough(g, Here)

\* What it is about to report is there, or was dismissed.
LinkInv ==
  /\ stage \in {"link", "linked"} => policy # Unset
  /\ stage = "linked" => call.file \in Present(Here) \cup Taken

\* What recovery is about to report as dismissed is in no directory that may come back.
DismissInv ==
  LET g == choice.generation IN
  /\ step \in {"renamed", "entombed"} => g \in Generation
  /\ step = "entombed" /\ tombstone[g] # NoFile => \A d \in disk : tombstone[g] \notin Present(d)

Held == NamesHeld /\ Reported /\ ReportsAreEvidence
EvidenceInv == Held /\ PruneInv /\ LinkInv /\ DismissInv

LEMMA EvidentDirectories == ReportsAreEvidence <=> \A d \in disk : Evident(d)
BY DEF ReportsAreEvidence, Evident

LEMMA UnsetIsNoPolicy == Unset \notin Policy
BY RecoveryAssumption DEF Unset

LEMMA FilesFinite ==
  ASSUME DirectoryOK, NEW d \in Names \X Names
  PROVE  /\ Present(d) \cup Taken \subseteq File /\ IsFiniteSet(Present(d) \cup Taken)
         /\ \A n : Newer(n, d) \subseteq File /\ IsFiniteSet(Newer(n, d)) /\ Cardinality(Newer(n, d)) \in Nat
<1>1. Present(d) \cup Taken \subseteq File
  BY Bounds DEF Present, Taken, With, Names, File
<1>2. IsFiniteSet(File)
  BY Bounds, FS_Interval DEF File
<1>3. IsFiniteSet(Present(d) \cup Taken)
  BY <1>1, <1>2, FS_Subset
<1>4. ASSUME NEW n
      PROVE  Newer(n, d) \subseteq File /\ IsFiniteSet(Newer(n, d)) /\ Cardinality(Newer(n, d)) \in Nat
  <2>1. Newer(n, d) \subseteq File
    BY <1>1 DEF Newer
  <2> QED BY <2>1, <1>2, FS_Subset, FS_CardinalityType
<1> QED BY <1>1, <1>3, <1>4

\* Newer recovery points that are kept or dismissed remain enough.
LEMMA EnoughOn ==
  ASSUME DirectoryOK, DirectoryOK', NEW d \in Names \X Names, NEW e \in Names \X Names,
         NEW n, NEW m, Policy # {}, Enough(n, d), Newer(n, d) \subseteq Newer(m, e)'
  PROVE  Enough(m, e)'
<1>1. Cardinality(Newer(n, d)) \in Nat
  BY FilesFinite
<1>2. IsFiniteSet(Newer(m, e)') /\ Cardinality(Newer(m, e)') \in Nat
  <2>1. Present(e) \cup Taken' \subseteq File
    BY Bounds DEF Present, Taken, With, Names, File, DirectoryOK
  <2>2. Newer(m, e)' \subseteq File
    BY <2>1 DEF Newer
  <2>3. IsFiniteSet(File)
    BY Bounds, FS_Interval DEF File
  <2> QED BY <2>2, <2>3, FS_Subset, FS_CardinalityType
<1>3. Cardinality(Newer(n, d)) <= Cardinality(Newer(m, e)')
  BY <1>2, FS_Subset
<1>4. LeastRetention \in Nat
  BY LeastIsLeast
<1> QED BY <1>1, <1>2, <1>3, <1>4 DEF Enough

\* What is reported of a directory carries over to one that lacks none of its files.
LEMMA EvidentOn ==
  ASSUME DirectoryOK, DirectoryOK', Reported,
         NEW d \in Names \X Names, NEW e \in Names \X Names, Evident(d),
         \A h \in Present(d) \cup Taken : h \in Present(e) \cup Taken' /\ named'[h] = named[h],
         \A f \in With({"published"})' : f \in With({"published"}) /\ named'[f] = named[f],
         With({"dismissed"})' \cap Present(e) = {}
  PROVE  Evident(e)'
<1> SUFFICES ASSUME NEW f \in With({"published"})', f \notin Present(e), f \notin Taken'
             PROVE  Enough(named[f], e)'
  BY DEF Evident, Superseded, Enough, Newer
<1>1. f \in With({"published"}) /\ f \notin Present(d) /\ f \notin Taken
  OBVIOUS
<1>2. Enough(named[f], d)
  BY <1>1 DEF Evident, Superseded, Enough, Newer
<1>3. Policy # {}
  BY <1>1 DEF Reported, With
<1>4. Newer(named[f], d) \subseteq Newer(named[f], e)'
  BY DEF Newer
<1> QED BY <1>2, <1>3, <1>4, EnoughOn

\* The directory there is.
LEMMA HereHeld ==
  ASSUME TypeOK, Held
  PROVE  /\ Here \in disk /\ Here \in Names \X Names /\ Here[1] = artifact /\ Here[2] = tombstone
         /\ Evident(Here)
         /\ Present(Here) = {artifact[g] : g \in Generation} \ {NoFile}
         /\ \A h \in Present(Here) \cup Taken : h \in File /\ named[h] # 0
         /\ \A g \in Generation :
              /\ artifact[g] # NoFile => named[artifact[g]] = g
              /\ tombstone[g] # NoFile =>
                   named[tombstone[g]] = g /\ \A h \in Generation : artifact[h] # tombstone[g]
<1>1. /\ Here \in disk /\ Here \in Names \X Names /\ Here[1] = artifact /\ Here[2] = tombstone
      /\ Present(Here) = {artifact[g] : g \in Generation} \ {NoFile}
  BY DEF TypeOK, DirectoryOK, Here, Present
<1>2. \A g \in Generation :
        /\ artifact[g] # NoFile => named[artifact[g]] = g
        /\ tombstone[g] # NoFile =>
             named[tombstone[g]] = g /\ \A h \in Generation : artifact[h] # tombstone[g]
  BY <1>1 DEF Held, NamesHeld
<1>3. ASSUME NEW h \in Present(Here) \cup Taken
      PROVE  h \in File /\ named[h] # 0
  <2>1. h \in File
    BY <1>1, FilesFinite DEF TypeOK
  <2>2. CASE h \in Present(Here)
    BY <1>1, <1>2, <2>1, <2>2, Bounds DEF Generation
  <2>3. CASE h \in Taken
    BY <2>1, <2>3 DEF Taken, With, Held, Reported
  <2> QED BY <2>1, <2>2, <2>3
<1> QED BY <1>1, <1>2, <1>3, EvidentDirectories DEF Held

\* The directories that may come back are as before, or lack a tombstone.
Still ==
  \A e \in disk' : \E d \in disk : e[1] = d[1] /\ \A g \in Generation : e[2][g] \in {d[2][g], NoFile}

LEMMA StillHeld ==
  ASSUME TypeOK, Held, Still, UNCHANGED << named, fate >>
  PROVE  Held'
<1>1. NamesHeld'
  BY DEF Held, NamesHeld, Still
<1>2. ReportsAreEvidence'
  <2>1. ASSUME NEW e \in disk'
        PROVE  Evident(e)'
    <3>1. PICK d \in disk : e[1] = d[1]
      BY DEF Still
    <3>2. Evident(d) /\ Present(e) = Present(d)
      BY <3>1, EvidentDirectories DEF Held, Present
    <3>3. With({"published"})' = With({"published"}) /\ With({"dismissed"})' = With({"dismissed"}) /\ Taken' = Taken
      BY DEF With, Taken
    <3> QED BY <3>2, <3>3 DEF Evident, Superseded
  <2> QED BY <2>1 DEF ReportsAreEvidence, Evident
<1> QED BY <1>1, <1>2 DEF Held, Reported

LEMMA SyncStill == TypeOK /\ SyncDirectory => Still
BY DEF TypeOK, DirectoryOK, SyncDirectory, Still

LEMMA SameStill == UNCHANGED disk => Still
BY DEF Still

LEMMA RemoveStill ==
  ASSUME TypeOK, NEW g, Remove(g)
  PROVE  Still /\ artifact' = artifact
<1> DEFINE gone == [tombstone EXCEPT ![g] = NoFile]
<1>1. \A h \in Generation : gone[h] \in {tombstone[h], NoFile}
  BY DEF TypeOK, DirectoryOK, Names
<1>2. disk' \subseteq disk \cup {<< artifact, gone >>} /\ artifact' = artifact
  BY DEF Remove, Change
<1>3. << artifact, tombstone >> \in disk
  BY DEF TypeOK, DirectoryOK
<1> HIDE DEF gone
<1>4. ASSUME NEW e \in disk'
      PROVE  \E d \in disk : e[1] = d[1] /\ \A h \in Generation : e[2][h] \in {d[2][h], NoFile}
  <2>1. CASE e \in disk
    BY <2>1
  <2>2. CASE e = << artifact, gone >>
    <3>1. e[1] = << artifact, tombstone >>[1] /\ e[2] = gone /\ << artifact, tombstone >>[2] = tombstone
      BY <2>2
    <3> QED BY <3>1, <1>1, <1>3
  <2> QED BY <1>2, <2>1, <2>2
<1> QED BY <1>2, <1>4 DEF Still

\* A file appears under a free name.
LEMMA AppearHeld ==
  ASSUME TypeOK, DirectoryOK', Held, NEW f \in File, NEW g \in Generation, artifact[g] = NoFile,
         Appear(f, g), UNCHANGED fate
  PROVE  Held'
<1>e. PICK e \in Names \X Names : e = << artifact', tombstone' >>
  BY DEF DirectoryOK
<1>1. /\ named[f] = 0 /\ named' = [named EXCEPT ![f] = g] /\ g # 0 /\ f # NoFile
      /\ artifact' = [artifact EXCEPT ![g] = f] /\ tombstone' = tombstone
      /\ disk' = disk \cup {e}
  BY <1>e, Bounds DEF Appear, Change, Generation, File
<1>2. /\ named'[f] = g /\ \A h \in File : named[h] # 0 => named'[h] = named[h]
      /\ \A h \in Generation : artifact'[h] = IF h = g THEN f ELSE artifact[h]
  BY <1>1 DEF TypeOK, DirectoryOK, Names
<1>3. ASSUME NEW d \in disk, NEW h \in Generation
      PROVE  /\ d[1][h] # NoFile => d[1][h] \in File /\ named[d[1][h]] = h /\ named[d[1][h]] # 0
             /\ d[2][h] # NoFile => d[2][h] \in File /\ named[d[2][h]] = h /\ named[d[2][h]] # 0
  <2>1. d[1] \in Names /\ d[2] \in Names
    BY DEF TypeOK, DirectoryOK
  <2>2. d[1][h] \in 0..MaxFile /\ d[2][h] \in 0..MaxFile
    BY <2>1 DEF Names
  <2>3. h # 0 /\ \A i \in 0..MaxFile : i # NoFile => i \in File
    BY Bounds DEF File, Generation
  <2>4. /\ d[1][h] # NoFile => named[d[1][h]] = h
        /\ d[2][h] # NoFile => named[d[2][h]] = h
    BY DEF Held, NamesHeld
  <2> QED BY <2>2, <2>3, <2>4
<1>4. e[1] = artifact' /\ e[2] = tombstone /\ e \in Names \X Names
  BY <1>e, <1>1
<1>5. NamesHeld'
  <2>1. ASSUME NEW d \in disk, NEW h \in Generation
        PROVE  /\ d[1][h] # NoFile => named'[d[1][h]] = h
               /\ d[2][h] # NoFile => named'[d[2][h]] = h /\ \A i \in Generation : d[1][i] # d[2][h]
    BY <1>2, <1>3 DEF Held, NamesHeld
  <2>2. ASSUME NEW h \in Generation
        PROVE  /\ artifact'[h] # NoFile => named'[artifact'[h]] = h
               /\ tombstone[h] # NoFile =>
                    named'[tombstone[h]] = h /\ \A i \in Generation : artifact'[i] # tombstone[h]
    <3>1. Here \in disk /\ Here[1] = artifact /\ Here[2] = tombstone
      BY HereHeld
    <3>2. /\ artifact[h] # NoFile => named'[artifact[h]] = h
          /\ tombstone[h] # NoFile =>
               named'[tombstone[h]] = h /\ tombstone[h] # f /\ \A i \in Generation : artifact[i] # tombstone[h]
      BY <2>1, <3>1, <1>1, <1>3
    <3> QED BY <3>2, <1>2
  <2>3. ASSUME NEW h \in Generation
        PROVE  /\ e[1][h] # NoFile => named'[e[1][h]] = h
               /\ e[2][h] # NoFile => named'[e[2][h]] = h /\ \A i \in Generation : e[1][i] # e[2][h]
    BY <2>2, <1>4
  <2> QED BY <2>1, <2>3, <1>1 DEF NamesHeld
<1>6. Reported'
  BY <1>1, <1>2 DEF Held, Reported
<1>7. /\ With({"published"})' = With({"published"}) /\ With({"dismissed"})' = With({"dismissed"})
      /\ Taken' = Taken
      /\ \A h \in File : fate[h] # "unknown" => named'[h] = named[h] /\ h # f
  BY <1>1, <1>2 DEF With, Taken, Held, Reported
<1>8. ASSUME NEW d \in disk
      PROVE  \A h \in Present(d) \cup Taken : named'[h] = named[h]
  <2>1. \A h \in Present(d) : named'[h] = named[h]
    BY <1>2, <1>3 DEF Present
  <2>2. \A h \in Taken : named'[h] = named[h]
    BY <1>7 DEF Taken, With
  <2> QED BY <2>1, <2>2
<1>9. \A h \in With({"published"}) : named'[h] = named[h]
  BY <1>7 DEF With
<1>10. ASSUME NEW d \in disk
       PROVE  Evident(d)'
  <2>1. Evident(d) /\ d \in Names \X Names
    BY EvidentDirectories DEF Held, TypeOK, DirectoryOK
  <2>2. With({"dismissed"}) \cap Present(d) = {}
    BY <2>1 DEF Evident
  <2> QED BY <2>1, <2>2, <1>7, <1>8, <1>9, EvidentOn DEF TypeOK, Held
<1>11. Evident(e)'
  <2>1. Evident(Here) /\ Here \in disk /\ Here \in Names \X Names
        /\ Present(Here) = {artifact[h] : h \in Generation} \ {NoFile}
    BY HereHeld
  <2>2. Present(e) = Present(Here) \cup {f}
    <3>1. Present(e) = {artifact'[h] : h \in Generation} \ {NoFile}
      BY <1>4 DEF Present
    <3> QED BY <3>1, <2>1, <1>1, <1>2
  <2>3. With({"dismissed"}) \cap Present(e) = {}
    <3>1. f \notin With({"dismissed"})
      BY <1>7 DEF With
    <3> QED BY <3>1, <2>1, <2>2 DEF Evident
  <2>4. \A h \in Present(Here) \cup Taken : h \in Present(e) \cup Taken' /\ named'[h] = named[h]
    BY <2>1, <2>2, <1>7, <1>8
  <2>5. \A h \in With({"published"})' : h \in With({"published"}) /\ named'[h] = named[h]
    BY <1>7, <1>9
  <2>6. With({"dismissed"})' \cap Present(e) = {}
    BY <2>3, <1>7
  <2> QED BY <2>1, <2>4, <2>5, <2>6, <1>4, EvidentOn DEF TypeOK, Held
<1>12. ReportsAreEvidence'
  BY <1>1, <1>10, <1>11 DEF ReportsAreEvidence, Evident
<1> QED BY <1>5, <1>6, <1>12 DEF Held

\* A file loses its name, because there are enough newer ones or a dismissal
\* takes it.
LEMMA LeaveHeld ==
  ASSUME TypeOK, DirectoryOK', Held, NEW g \in Managed, NEW t \in Names,
         UNCHANGED named, Change([artifact EXCEPT ![g] = NoFile], t),
         \/ fate' = fate /\ t = tombstone /\ Policy # {} /\ Enough(g, Here)
         \/ /\ fate' = [fate EXCEPT ![artifact[g]] = "taken"]
            /\ \A h \in Generation : t[h] = tombstone[h] \/ (h = g /\ t[h] = artifact[g])
  PROVE  Held'
<1> DEFINE f == artifact[g]
<1>e. PICK e \in Names \X Names : e = << artifact', tombstone' >>
  BY DEF DirectoryOK
<1>1. /\ g \in Generation /\ f \in Present(Here) /\ f \in File /\ f # NoFile /\ named[f] = g
      /\ named[f] # 0 /\ g \in Nat
  BY HereHeld, Bounds DEF Managed, Generation
<1>2. /\ e[1] = [artifact EXCEPT ![g] = NoFile] /\ e[2] = t /\ disk' = disk \cup {e}
      /\ \A h \in Generation : e[1][h] = IF h = g THEN NoFile ELSE artifact[h]
  BY <1>e DEF Change, TypeOK, DirectoryOK, Names
<1>3. Present(e) = Present(Here) \ {f}
  <2>1. Present(e) = {e[1][h] : h \in Generation} \ {NoFile}
    BY DEF Present
  <2>2. \A h \in Generation : artifact[h] = f => h = g
    BY <1>1, HereHeld
  <2> QED BY <2>1, <2>2, <1>1, <1>2, HereHeld
<1>4. NamesHeld'
  <2>1. ASSUME NEW h \in Generation
        PROVE  /\ e[1][h] # NoFile => named[e[1][h]] = h
               /\ e[2][h] # NoFile => named[e[2][h]] = h /\ \A i \in Generation : e[1][i] # e[2][h]
    <3>1. e[1][h] # NoFile => named[e[1][h]] = h
      BY <1>2, HereHeld
    <3>2. CASE t[h] = tombstone[h]
      <4>1. tombstone[h] # NoFile => \A i \in Generation : e[1][i] # tombstone[h]
        BY <1>2, HereHeld
      <4> QED BY <3>1, <3>2, <4>1, <1>2, HereHeld
    <3>3. CASE h = g /\ t[h] = f
      <4>1. \A i \in Generation : e[1][i] # f
        BY <1>1, <1>2, HereHeld
      <4> QED BY <3>1, <3>3, <4>1, <1>1, <1>2
    <3> QED BY <3>2, <3>3
  <2>2. ASSUME NEW d \in disk, NEW h \in Generation
        PROVE  /\ d[1][h] # NoFile => named[d[1][h]] = h
               /\ d[2][h] # NoFile => named[d[2][h]] = h /\ \A i \in Generation : d[1][i] # d[2][h]
    BY DEF Held, NamesHeld
  <2>3. disk' = disk \cup {e} /\ named' = named
    BY <1>2
  <2> QED BY <2>1, <2>2, <2>3 DEF NamesHeld
<1>5. Reported'
  BY <1>1 DEF Held, Reported, TypeOK, DirectoryOK
<1>6. /\ Taken \subseteq Taken' /\ With({"published"})' \subseteq With({"published"})
      /\ With({"dismissed"})' \subseteq With({"dismissed"})
  BY <1>1 DEF With, Taken, TypeOK, DirectoryOK
<1>7. ASSUME NEW d \in disk
      PROVE  Evident(d)'
  <2>1. Evident(d) /\ d \in Names \X Names
    BY EvidentDirectories DEF Held, TypeOK, DirectoryOK
  <2>2. With({"dismissed"})' \cap Present(d) = {}
    BY <2>1, <1>6 DEF Evident
  <2>3. \A h \in Present(d) \cup Taken : h \in Present(d) \cup Taken' /\ named'[h] = named[h]
    BY <1>6
  <2>4. \A h \in With({"published"})' : h \in With({"published"}) /\ named'[h] = named[h]
    BY <1>6
  <2> QED BY <2>1, <2>2, <2>3, <2>4, EvidentOn DEF TypeOK, Held
<1>8. With({"dismissed"})' \cap Present(e) = {}
  BY <1>3, <1>6, HereHeld DEF Evident
<1>9. Evident(e)'
  <2>1. CASE fate' = [fate EXCEPT ![f] = "taken"]
    <3>1. f \in Taken'
      BY <2>1, <1>1 DEF Taken, With, TypeOK, DirectoryOK
    <3>2. \A h \in Present(Here) \cup Taken : h \in Present(e) \cup Taken' /\ named'[h] = named[h]
      BY <3>1, <1>3, <1>6
    <3>3. \A h \in With({"published"})' : h \in With({"published"}) /\ named'[h] = named[h]
      BY <1>6
    <3> QED BY <3>2, <3>3, <1>8, HereHeld, EvidentOn DEF TypeOK, Held
  <2>2. CASE fate' = fate /\ Policy # {} /\ Enough(g, Here)
    <3>1. ASSUME NEW i \in With({"published"})', i \notin Present(e), i \notin Taken'
          PROVE  Enough(named[i], e)'
      <4>1. /\ i \in File /\ named[i] \in Nat /\ Taken' = Taken /\ i \in With({"published"})
            /\ \A h \in Present(Here) \cup Taken : named[h] \in Nat
        BY <2>2, Bounds, HereHeld DEF With, Taken, TypeOK, DirectoryOK
      <4>2. CASE named[i] >= g
        <5>1. Newer(named[i], Here) \subseteq Newer(named[i], e)'
          BY <4>1, <4>2, <1>1, <1>3 DEF Newer
        <5>2. CASE i = f
          <6>1. Newer(g, Here) \subseteq Newer(named[i], e)'
            BY <5>1, <5>2, <1>1
          <6> QED BY <6>1, <2>2, <1>1, HereHeld, EnoughOn DEF TypeOK
        <5>3. CASE i # f
          <6>1. Enough(named[i], Here)
            BY <4>1, <5>3, <1>3, <3>1, HereHeld DEF Evident, Superseded, Enough, Newer
          <6> QED BY <6>1, <5>1, <2>2, HereHeld, EnoughOn DEF TypeOK
        <5> QED BY <5>2, <5>3
      <4>3. CASE ~(named[i] >= g)
        <5>1. Newer(g, Here) \subseteq Newer(named[i], e)'
          BY <4>1, <4>3, <1>1, <1>3 DEF Newer
        <5> QED BY <5>1, <2>2, HereHeld, EnoughOn DEF TypeOK
      <4> QED BY <4>2, <4>3
    <3> QED BY <3>1, <1>8 DEF Evident, Superseded, Enough, Newer
  <2> QED BY <2>1, <2>2
<1>10. ReportsAreEvidence'
  BY <1>2, <1>7, <1>9 DEF ReportsAreEvidence, Evident
<1> QED BY <1>4, <1>5, <1>10 DEF Held

\* A report of autosave: its recovery point is there, or was dismissed.
LEMMA PublishHeld ==
  ASSUME TypeOK, DirectoryOK', Held, NEW f \in Present(Here) \cup Taken, Policy # {},
         UNCHANGED named, SyncDirectory,
         fate' = IF fate[f] = "unknown" THEN [fate EXCEPT ![f] = "published"] ELSE fate
  PROVE  Held' /\ Taken' = Taken
<1>1. disk' = {Here} /\ f \in File /\ named[f] # 0
  BY HereHeld DEF SyncDirectory, Here
<1>2. Taken' = Taken /\ With({"published"})' \subseteq With({"published"}) \cup {f}
      /\ With({"dismissed"})' = With({"dismissed"})
  BY <1>1 DEF Taken, With, TypeOK, DirectoryOK
<1>3. NamesHeld'
  BY <1>1, HereHeld DEF Held, NamesHeld
<1>4. Reported'
  BY <1>1 DEF Held, Reported, TypeOK, DirectoryOK
<1>5. PICK e \in Names \X Names : e = Here
  BY HereHeld
<1>6. Evident(e)'
  <2>1. ASSUME NEW i \in With({"published"})', i \notin Present(e), i \notin Taken'
        PROVE  Cardinality({h \in Present(e) \cup Taken' : named'[h] > named'[i]}) >= LeastRetention
    <3>1. i \in With({"published"})
      BY <2>1, <1>2, <1>5
    <3> QED BY <3>1, <2>1, <1>2, <1>5, HereHeld DEF Evident, Superseded
  <2>2. With({"dismissed"})' \cap Present(e) = {}
    BY <1>2, <1>5, HereHeld DEF Evident
  <2> QED BY <2>1, <2>2 DEF Evident, Superseded
<1>7. ReportsAreEvidence'
  BY <1>1, <1>5, <1>6 DEF ReportsAreEvidence, Evident
<1> QED BY <1>2, <1>3, <1>4, <1>7 DEF Held

\* A report of recovery: what it dismissed is in no directory that may come back.
LEMMA BuryHeld ==
  ASSUME TypeOK, DirectoryOK', Held, Still, UNCHANGED named, NEW t,
         fate' = [fate EXCEPT ![t] = "dismissed"],
         t \in File => named[t] # 0 /\ \A d \in disk : t \notin Present(d)
  PROVE  Held' /\ Taken \subseteq Taken'
<1>1. /\ Taken \subseteq Taken' /\ With({"published"})' \subseteq With({"published"})
      /\ With({"dismissed"})' \subseteq With({"dismissed"}) \cup {t}
  BY DEF Taken, With, TypeOK, DirectoryOK
<1>2. NamesHeld'
  BY DEF Held, NamesHeld, Still
<1>3. Reported'
  BY DEF Held, Reported, TypeOK, DirectoryOK
<1>4. ASSUME NEW e \in disk'
      PROVE  Evident(e)'
  <2>1. PICK d \in disk : e[1] = d[1]
    BY DEF Still
  <2>2. Evident(d) /\ Present(e) = Present(d) /\ d \in Names \X Names /\ e \in Names \X Names
    BY <2>1, EvidentDirectories DEF Held, Present, TypeOK, DirectoryOK
  <2>3. With({"dismissed"})' \cap Present(e) = {}
    <3>1. t \in Present(d) => t \in File
      BY <2>2, FilesFinite DEF TypeOK
    <3> QED BY <3>1, <2>2, <1>1 DEF Evident
  <2>4. \A h \in Present(d) \cup Taken : h \in Present(e) \cup Taken' /\ named'[h] = named[h]
    BY <2>2, <1>1
  <2>5. \A h \in With({"published"})' : h \in With({"published"}) /\ named'[h] = named[h]
    BY <1>1
  <2> QED BY <2>2, <2>3, <2>4, <2>5, EvidentOn DEF TypeOK, Held
<1>5. ReportsAreEvidence'
  BY <1>4 DEF ReportsAreEvidence, Evident
<1> QED BY <1>1, <1>2, <1>3, <1>5 DEF Held

-----------------------------------------------------------------------------

\* The recovery points there are, and those that a dismissal took, remain so.
Kept == \A h \in Present(Here) \cup Taken : h \in (Present(Here) \cup Taken)' /\ named'[h] = named[h]

LEMMA SameKept ==
  ASSUME Taken \subseteq Taken', UNCHANGED << artifact, named >>
  PROVE  Kept
BY DEF Kept, Present, Here

LEMMA AppearKept ==
  ASSUME TypeOK, DirectoryOK', Held, NEW f \in File, NEW g \in Generation, artifact[g] = NoFile,
         Appear(f, g), UNCHANGED fate
  PROVE  Kept
<1>1. /\ named[f] = 0 /\ named' = [named EXCEPT ![f] = g]
      /\ artifact' = [artifact EXCEPT ![g] = f]
  BY DEF Appear, Change
<1>2. \A h \in Present(Here) \cup Taken : named'[h] = named[h]
  BY <1>1, HereHeld DEF TypeOK, DirectoryOK
<1>3. Taken' = Taken
  BY DEF Taken, With
<1>4. \A h \in Generation : artifact[h] # NoFile => artifact'[h] = artifact[h]
  BY <1>1 DEF TypeOK, DirectoryOK, Names
<1>5. Present(Here)' = {artifact'[h] : h \in Generation} \ {NoFile}
  BY DEF Present, Here
<1> QED BY <1>2, <1>3, <1>4, <1>5, HereHeld DEF Kept

LEMMA TakeKept ==
  ASSUME TypeOK, DirectoryOK', Held, NEW g \in Managed, UNCHANGED named,
         artifact' = [artifact EXCEPT ![g] = NoFile],
         fate' = [fate EXCEPT ![artifact[g]] = "taken"]
  PROVE  Kept
<1>1. Taken' = Taken \cup {artifact[g]}
  <2>1. artifact[g] \in File
    BY HereHeld DEF Managed
  <2> QED BY <2>1 DEF Taken, With, TypeOK, DirectoryOK
<1>2. \A h \in Generation : artifact[h] # NoFile => artifact'[h] = artifact[h] \/ artifact[h] = artifact[g]
  BY DEF TypeOK, DirectoryOK, Names
<1>3. Present(Here)' = {artifact'[h] : h \in Generation} \ {NoFile}
  BY DEF Present, Here
<1> QED BY <1>1, <1>2, <1>3, HereHeld DEF Kept

\* What a prune will remove has enough newer ones, and goes on to have them.
LEMMA PruneKept ==
  ASSUME TypeOK, DirectoryOK', Held, Kept,
         \A g \in call'.todo : Policy # {} /\ Enough(g, Here)
  PROVE  PruneInv'
<1> SUFFICES ASSUME NEW g \in call'.todo
             PROVE  Policy # {} /\ Enough(g, Here)'
  BY DEF PruneInv
<1>1. PICK d \in Names \X Names : d = Here
  BY HereHeld
<1>2. PICK e \in Names \X Names : e = << artifact', tombstone' >>
  BY DEF DirectoryOK
<1>3. Newer(g, d) \subseteq Newer(g, e)'
  BY <1>1, <1>2 DEF Newer, Kept, Here
<1>4. Enough(g, e)'
  BY <1>1, <1>3, EnoughOn DEF TypeOK
<1> QED BY <1>2, <1>4 DEF Enough, Newer, Here

LEMMA SurplusEnough ==
  ASSUME TypeOK, Held, NEW p \in Policy, NEW g \in Surplus(p.retention)
  PROVE  Policy # {} /\ Enough(g, Here)
<1> DEFINE S == Above(Managed, g)
           T == Newer(g, Here)
           m == [h \in S |-> artifact[h]]
<1>1. \A h \in S : h \in Generation /\ h > g /\ artifact[h] # NoFile /\ named[artifact[h]] = h
  BY HereHeld DEF Above, Managed
<1>2. m \in Injection(S, T)
  <2>1. m \in [S -> T]
    BY <1>1, HereHeld DEF Newer
  <2>2. \A h, i \in S : m[h] = m[i] => h = i
    BY <1>1
  <2> QED BY <2>1, <2>2 DEF Injection, IsInjective
<1>3. IsFiniteSet(T) /\ Cardinality(T) \in Nat
  BY FilesFinite, HereHeld DEF TypeOK
<1>4. Cardinality(S) <= Cardinality(T) /\ Cardinality(S) \in Nat
  <2> HIDE DEF S, T, m
  <2> QED BY <1>2, <1>3, FS_Injection, FS_CardinalityType
<1>5. Cardinality(S) >= p.retention /\ p.retention \in Nat
  BY RecoveryAssumption DEF Surplus
<1>6. LeastRetention \in Nat /\ LeastRetention <= p.retention
  BY LeastIsLeast
<1> QED BY <1>3, <1>4, <1>5, <1>6 DEF Enough

LEMMA StartEnough ==
  ASSUME TypeOK, Held, NEW p \in Policy, NEW op, StartPrune(op, p)
  PROVE  \A g \in call'.todo : Policy # {} /\ Enough(g, Here)
<1>1. CASE Surplus(p.retention) = {}
  BY <1>1 DEF StartPrune, NoCall
<1>2. CASE Surplus(p.retention) # {}
  <2>1. call' = [NoCall EXCEPT !.op = op, !.policy = p, !.todo = Surplus(p.retention)]
    BY <1>2 DEF StartPrune
  <2>2. call'.todo = Surplus(p.retention)
    BY <2>1 DEF NoCall
  <2> QED BY <2>2, SurplusEnough
<1> QED BY <1>1, <1>2

\* Its directories bring back no file but those that may come back already, or
\* one nobody has seen.
Brought ==
  \A e \in disk' : \E d \in disk : Present(e) \subseteq Present(d) \cup {f \in File : named[f] = 0}

LEMMA StillBrought == Still => Brought
BY DEF Still, Brought, Present

LEMMA AppearBrought ==
  ASSUME TypeOK, Held, NEW f \in File, NEW g \in Generation, Appear(f, g)
  PROVE  Brought
<1> DEFINE a == [artifact EXCEPT ![g] = f]
<1>1. disk' = disk \cup {<< a, tombstone >>} /\ named[f] = 0
  BY DEF Appear, Change
<1>2. \A h \in Generation : a[h] \in {artifact[h], f}
  BY DEF TypeOK, DirectoryOK, Names
<1>3. << a, tombstone >>[1] = a
  OBVIOUS
<1>4. Present(<< a, tombstone >>) \subseteq Present(Here) \cup {h \in File : named[h] = 0}
  <2> HIDE DEF a
  <2> QED BY <1>1, <1>2, <1>3, HereHeld DEF Present
<1> QED BY <1>1, <1>4, HereHeld DEF Brought

LEMMA LeaveBrought ==
  ASSUME TypeOK, Held, NEW g, NEW t, Change([artifact EXCEPT ![g] = NoFile], t)
  PROVE  Brought
<1> DEFINE a == [artifact EXCEPT ![g] = NoFile]
<1>1. disk' = disk \cup {<< a, t >>}
  BY DEF Change
<1>2. \A h \in Generation : a[h] \in {artifact[h], NoFile}
  BY DEF TypeOK, DirectoryOK, Names
<1>3. << a, t >>[1] = a
  OBVIOUS
<1>4. Present(<< a, t >>) \subseteq Present(Here)
  <2> HIDE DEF a
  <2> QED BY <1>2, <1>3, HereHeld DEF Present
<1> QED BY <1>1, <1>4, HereHeld DEF Brought

LEMMA DismissKept ==
  ASSUME TypeOK, Held, DismissInv, Brought, UNCHANGED << step, choice, tombstone >>
  PROVE  DismissInv'
<1> DEFINE g == choice.generation
<1> SUFFICES ASSUME step = "entombed", tombstone[g] # NoFile, NEW e \in disk', tombstone[g] \in Present(e)
             PROVE  FALSE
  BY DEF DismissInv
<1>1. g \in Generation /\ \A d \in disk : tombstone[g] \notin Present(d)
  BY DEF DismissInv
<1>2. named[tombstone[g]] # 0
  BY <1>1, HereHeld, Bounds DEF Generation
<1> QED BY <1>1, <1>2 DEF Brought

LEMMA DismissOver == step' \notin {"renamed", "entombed"} => DismissInv'
BY DEF DismissInv

LEMMA LinkKept ==
  ASSUME LinkInv, Kept, UNCHANGED << policy, stage >>, call'.file = call.file
  PROVE  LinkInv'
BY DEF LinkInv, Kept

LEMMA LinkOver == stage' \notin {"link", "linked"} => LinkInv'
BY DEF LinkInv

\* The files there are stay.
LEMMA StillEvidence ==
  ASSUME TypeOK, DirectoryOK', EvidenceInv, Still, UNCHANGED << artifact, named, fate >>,
         call'.todo \subseteq call.todo, LinkInv', DismissInv'
  PROVE  EvidenceInv'
<1>1. Held' /\ Kept
  BY StillHeld, SameKept DEF EvidenceInv, Taken, With
<1> QED BY <1>1, PruneKept DEF EvidenceInv, PruneInv

\* The autosave controller does nothing to them.
LEMMA RecoveryQuiet ==
  ASSUME TypeOK, DirectoryOK', EvidenceInv, Still, UNCHANGED << artifact, named, fate, policy, stage >>,
         call'.todo = call.todo, call'.file = call.file, DismissInv'
  PROVE  EvidenceInv'
<1>1. Kept
  BY SameKept DEF Taken, With
<1>2. LinkInv'
  BY <1>1, LinkKept DEF EvidenceInv
<1> QED BY <1>2, StillEvidence

LEMMA AppearEvidence ==
  ASSUME TypeOK, DirectoryOK', EvidenceInv, NEW f \in File, NEW g \in Generation,
         g \notin Managed, Appear(f, g), UNCHANGED << fate, step, choice >>,
         call'.todo = call.todo, LinkInv'
  PROVE  EvidenceInv'
<1>1. artifact[g] = NoFile /\ UNCHANGED tombstone
  BY DEF Managed, Appear, Change
<1>2. Held' /\ Kept /\ Brought
  BY <1>1, AppearHeld, AppearKept, AppearBrought DEF EvidenceInv
<1> QED BY <1>1, <1>2, PruneKept, DismissKept DEF EvidenceInv, PruneInv

\* A dismissal takes a file.
LEMMA TakeEvidence ==
  ASSUME TypeOK, DirectoryOK', EvidenceInv, NEW g \in Managed, NEW t \in Names,
         UNCHANGED << named, autosave >>, Change([artifact EXCEPT ![g] = NoFile], t),
         fate' = [fate EXCEPT ![artifact[g]] = "taken"],
         \A h \in Generation : t[h] = tombstone[h] \/ (h = g /\ t[h] = artifact[g]),
         DismissInv'
  PROVE  EvidenceInv'
<1>1. artifact' = [artifact EXCEPT ![g] = NoFile]
  BY DEF Change
<1>2. Held' /\ Kept
  BY <1>1, LeaveHeld, TakeKept DEF EvidenceInv
<1>3. UNCHANGED << policy, stage, call >>
  BY DEF autosave, schedule
<1> QED BY <1>2, <1>3, PruneKept, LinkKept DEF EvidenceInv, PruneInv

LEMMA RestartEvidence ==
  ASSUME TypeOK, DirectoryOK', EvidenceInv, Restarted, disk' \subseteq disk
  PROVE  EvidenceInv'
<1>1. Still
  BY DEF Still
<1>2. Held'
  BY <1>1, StillHeld DEF Restarted, EvidenceInv
<1>3. PruneInv'
  BY DEF Restarted, PruneInv, NoCall
<1> QED BY <1>2, <1>3, LinkOver, DismissOver DEF Restarted, EvidenceInv

\* Autosave removes the oldest of those that have enough newer ones.
LEMMA PruneEvidence ==
  ASSUME TypeOK, DirectoryOK', EvidenceInv, PruneOldest
  PROVE  EvidenceInv'
<1> DEFINE g == Lowest(call.todo)
<1>1. /\ g \in Managed /\ call.todo # {} /\ stage' = "prune"
      /\ Change([artifact EXCEPT ![g] = NoFile], tombstone)
      /\ UNCHANGED << named, fate, step, choice >>
  BY DEF PruneOldest, recovery
<1>2. call'.todo = call.todo \ {g}
  BY DEF PruneOldest, TypeOK, AutosaveOK, Call
<1>3. call.todo \in SUBSET Nat
  BY Bounds DEF TypeOK, AutosaveOK, Call, Generation
<1>4. g \in call.todo /\ g \in Nat /\ \A h \in call.todo : h \in Nat /\ g <= h
  BY <1>1, <1>3, HasLowest
<1>5. Policy # {} /\ Enough(g, Here) /\ tombstone \in Names
  BY <1>4 DEF EvidenceInv, PruneInv, TypeOK, DirectoryOK
<1>6. Held' /\ Brought /\ UNCHANGED tombstone
  <2> HIDE DEF g
  <2> QED BY <1>1, <1>5, LeaveHeld, LeaveBrought DEF EvidenceInv, Change
<1>7. PruneInv'
  <2> SUFFICES ASSUME NEW n \in call'.todo
               PROVE  Policy # {} /\ Enough(n, Here)'
    BY DEF PruneInv
  <2>1. n \in call.todo /\ n \in Nat /\ n > g /\ Enough(n, Here)
    BY <1>2, <1>4 DEF EvidenceInv, PruneInv
  <2>2. PICK d \in Names \X Names : d = Here
    BY HereHeld DEF EvidenceInv
  <2>3. PICK e \in Names \X Names : e = << artifact', tombstone' >>
    BY DEF DirectoryOK
  <2>4. Newer(n, d) \subseteq Newer(n, e)'
    <3>1. Taken' = Taken /\ named' = named
      BY <1>1 DEF Taken, With
    <3>2. \A h \in Generation : h # g => artifact'[h] = artifact[h]
      <4> HIDE DEF g
      <4> QED BY <1>1 DEF Change, TypeOK, DirectoryOK, Names
    <3>3. \A i \in Generation : artifact[i] # NoFile /\ named[artifact[i]] > n => i # g
      BY <2>1, <1>4, HereHeld DEF EvidenceInv
    <3>4. Present(e) = {artifact'[h] : h \in Generation} \ {NoFile}
      BY <2>3 DEF Present
    <3>5. Present(d) = {artifact[h] : h \in Generation} \ {NoFile}
      BY <2>2, HereHeld DEF EvidenceInv
    <3> HIDE DEF g
    <3> QED BY <3>1, <3>2, <3>3, <3>4, <3>5 DEF Newer
  <2>5. Enough(n, e)'
    BY <2>1, <2>2, <2>4, <1>5, EnoughOn DEF TypeOK
  <2> QED BY <2>3, <2>5, <1>5 DEF Enough, Newer, Here
<1> QED BY <1>1, <1>6, <1>7, LinkOver, DismissKept DEF EvidenceInv

LEMMA InitEvidence == Init => EvidenceInv
<1> SUFFICES ASSUME Init PROVE EvidenceInv
  OBVIOUS
<1> USE DEF Init
<1>1. \A d \in disk : d[1] = Empty /\ d[2] = Empty
  OBVIOUS
<1>2. NamesHeld
  BY <1>1 DEF NamesHeld, Empty
<1>3. Reported /\ With({"published"}) = {} /\ With({"dismissed"}) = {}
  BY DEF Reported, With
<1>4. ReportsAreEvidence
  BY <1>3 DEF ReportsAreEvidence
<1>5. PruneInv /\ LinkInv /\ DismissInv
  BY DEF PruneInv, LinkInv, DismissInv, NoCall
<1> QED BY <1>2, <1>3, <1>4, <1>5 DEF EvidenceInv, Held

LEMMA DirectorySame == UNCHANGED directory => Still /\ UNCHANGED << artifact, tombstone, disk >>
BY DEF directory, Still

LEMMA AutosaveEvidence ==
  ASSUME TypeOK, TypeOK', EvidenceInv, AutosaveStep
  PROVE  EvidenceInv'
<1> USE DEF TypeOK
<1>1. UNCHANGED << step, choice >>
  <2>1. UNCHANGED recovery
    BY DEF AutosaveStep, Configure, TickEarly, TickUnchanged, TickDue, Observed, Publish,
       SaveNow, Prune, Link, Collide, Published, PruneOldest, PruneDone, Fail
  <2> QED BY <2>1 DEF recovery
<1>2. ASSUME Still, UNCHANGED << artifact, tombstone, named, fate >>,
             \A g \in call'.todo : Policy # {} /\ Enough(g, Here), LinkInv'
      PROVE  EvidenceInv'
  <2>1. Held' /\ Kept
    BY <1>2, StillHeld, SameKept DEF EvidenceInv, Taken, With
  <2>2. DismissInv'
    BY <1>1, <1>2, StillBrought, DismissKept DEF EvidenceInv
  <2> QED BY <2>1, <2>2, <1>2, PruneKept DEF EvidenceInv
<1>3. ASSUME UNCHANGED << directory, named, fate >>,
             \A g \in call'.todo : Policy # {} /\ Enough(g, Here), LinkInv'
      PROVE  EvidenceInv'
  BY <1>2, <1>3, DirectorySame
<1>4. \A g \in call.todo : Policy # {} /\ Enough(g, Here)
  BY DEF EvidenceInv, PruneInv
<1>5. NoCall.todo = {}
  BY DEF NoCall
<1>6. ASSUME NEW op, Publish(op), policy # Unset
      PROVE  EvidenceInv'
  <2>1. call'.todo = {}
    BY <1>6 DEF Publish, NoCall
  <2>2. LinkInv'
    BY <1>6 DEF Publish, LinkInv, schedule
  <2> QED BY <1>6, <2>1, <2>2, <1>3 DEF Publish
<1>7. ASSUME NEW p \in Policy, Configure(p)
      PROVE  EvidenceInv'
  <2>1. stage' \in {"idle", "prune"}
    BY <1>7 DEF Configure, StartPrune
  <2> QED BY <2>1, <1>3, <1>7, StartEnough, LinkOver DEF Configure, EvidenceInv
<1>8. ASSUME NEW time \in 0..MaxTime, TickEarly(time) \/ TickUnchanged(time)
      PROVE  EvidenceInv'
  <2>1. UNCHANGED << directory, named, fate, policy, stage, call >> /\ stage' = "idle"
    BY <1>8 DEF TickEarly, TickUnchanged, Observed
  <2> QED BY <2>1, <1>3, <1>4, LinkOver
<1>9. ASSUME NEW time \in 0..MaxTime, TickDue(time)
      PROVE  EvidenceInv'
  <2>1. policy # Unset
    BY <1>9 DEF TickDue, Due, Unset
  <2> QED BY <2>1, <1>6, <1>9 DEF TickDue
<1>10. CASE SaveNow
  BY <1>6, <1>10 DEF SaveNow
<1>11. CASE Prune
  <2>1. policy \in Policy /\ stage' \in {"idle", "prune"}
    BY <1>11 DEF Prune, StartPrune, AutosaveOK
  <2> QED BY <2>1, <1>3, <1>11, StartEnough, LinkOver DEF Prune, EvidenceInv
<1>12. CASE Link
  <2>1. PICK f \in File : /\ Appear(f, call.generation)
                          /\ call' = [call EXCEPT !.file = f, !.attempts = 0]
    BY <1>12, Zenon DEF Link
  <2>2. call'.todo = call.todo /\ call'.file = f
    BY <2>1 DEF AutosaveOK, Call
  <2>3. /\ call.generation \in Generation /\ call.generation \notin Managed
        /\ policy' = policy /\ policy # Unset /\ UNCHANGED fate
    BY <1>12 DEF Link, AutosaveOK, EvidenceInv, LinkInv, schedule
  <2>4. f \in Present(Here)'
    <3>1. artifact'[call.generation] = f /\ f # NoFile
      BY <2>1, <2>3, Bounds DEF Appear, Change, DirectoryOK, Names, File
    <3> QED BY <3>1, <2>3 DEF Present, Here
  <2>5. LinkInv'
    BY <2>2, <2>3, <2>4 DEF LinkInv
  <2> QED BY <2>1, <2>2, <2>3, <2>5, <1>1, AppearEvidence
<1>13. CASE Collide
  <2>1. call'.todo = call.todo /\ call'.file = call.file
    BY <1>13 DEF Collide, AutosaveOK, Call
  <2>2. UNCHANGED << directory, named, fate, policy, stage >>
    BY <1>13 DEF Collide, schedule
  <2>3. LinkInv'
    BY <2>1, <2>2 DEF LinkInv, EvidenceInv, directory, Here, Present, Taken, With
  <2> QED BY <2>1, <2>2, <2>3, <1>3, <1>4
<1>14. CASE Published
  <2>1. /\ StartPrune("prune", policy) /\ SyncDirectory /\ UNCHANGED << named, policy >>
        /\ stage = "linked"
        /\ fate' = IF fate[call.file] = "unknown" THEN [fate EXCEPT ![call.file] = "published"] ELSE fate
    BY <1>14 DEF Published, PointPublished
  <2>2. policy \in Policy /\ call.file \in Present(Here) \cup Taken
    BY <2>1 DEF EvidenceInv, LinkInv, AutosaveOK
  <2>3. Held' /\ Kept
    BY <2>1, <2>2, PublishHeld, SameKept DEF EvidenceInv, SyncDirectory
  <2>4. DismissInv'
    BY <2>1, <1>1, SyncStill, StillBrought, DismissKept DEF EvidenceInv, SyncDirectory
  <2>5. PruneInv'
    BY <2>1, <2>2, <2>3, StartEnough, PruneKept DEF EvidenceInv
  <2>6. LinkInv'
    <3>1. stage' \in {"idle", "prune"}
      BY <2>1 DEF StartPrune
    <3> QED BY <3>1, LinkOver
  <2> QED BY <2>3, <2>4, <2>5, <2>6 DEF EvidenceInv
<1>15. CASE PruneOldest
  BY <1>15, PruneEvidence
<1>16. CASE PruneDone
  <2>1. SyncDirectory /\ UNCHANGED << named, fate >> /\ stage' = "idle" /\ call' = NoCall
    BY <1>16 DEF PruneDone
  <2> QED BY <2>1, <1>2, <1>5, SyncStill, LinkOver DEF SyncDirectory
<1>17. CASE Fail
  BY <1>17, <1>3, <1>5, LinkOver DEF Fail
<1> QED BY <1>7, <1>8, <1>9, <1>10, <1>11, <1>12, <1>13, <1>14, <1>15, <1>16, <1>17 DEF AutosaveStep

LEMMA RecoveryEvidence ==
  ASSUME TypeOK, TypeOK', EvidenceInv, RecoveryStep
  PROVE  EvidenceInv'
<1> USE DEF TypeOK
<1>1. CASE ~CommitRestore
  <2>1. UNCHANGED << named, autosave >> /\ UNCHANGED << policy, stage, call >>
    <3>1. AutosaveKept
      BY <1>1 DEF RecoveryStep, Discover, DropTombstone, Identify, Inspect, PublishCatalog, Restore,
         Dismiss, LoadCandidate, Entomb, SyncTombstone, Bury, GiveUp
    <3> QED BY <3>1 DEF AutosaveKept, autosave, schedule
  <2>2. ASSUME UNCHANGED << directory, fate >>, step' \notin {"renamed", "entombed"}
        PROVE  EvidenceInv'
    BY <2>1, <2>2, DirectorySame, RecoveryQuiet, DismissOver
  <2>3. CASE Discover \/ Identify \/ Inspect \/ PublishCatalog \/ LoadCandidate \/ GiveUp
    BY <2>2, <2>3 DEF Discover, Identify, Inspect, PublishCatalog, LoadCandidate, GiveUp
  <2>4. CASE \E g \in Generation : Restore(g) \/ Dismiss(g)
    BY <2>2, <2>4 DEF Restore, Dismiss
  <2>5. CASE DropTombstone
    <3>1. UNCHANGED fate /\ step' = "names"
      BY <2>5 DEF DropTombstone
    <3>2. Still /\ UNCHANGED artifact
      BY <2>5, RemoveStill, DirectorySame DEF DropTombstone
    <3> QED BY <2>1, <3>1, <3>2, RecoveryQuiet, DismissOver
  <2>6. CASE Entomb
    <3> DEFINE g == choice.generation
               t == [tombstone EXCEPT ![g] = artifact[g]]
    <3>1. /\ g \in Managed /\ g \in Generation /\ step' = "renamed" /\ UNCHANGED choice
          /\ Change([artifact EXCEPT ![g] = NoFile], t)
          /\ fate' = [fate EXCEPT ![artifact[g]] = "taken"]
      BY <2>6 DEF Entomb, Managed
    <3>2. t \in Names
      BY <3>1, SetTyped DEF DirectoryOK, Names
    <3>3. \A h \in Generation : t[h] = tombstone[h] \/ (h = g /\ t[h] = artifact[g])
      BY DEF DirectoryOK, Names
    <3>4. DismissInv'
      BY <3>1 DEF DismissInv
    <3> HIDE DEF t, g
    <3> QED BY <2>1, <3>1, <3>2, <3>3, <3>4, TakeEvidence
  <2>7. CASE SyncTombstone
    <3>1. SyncDirectory /\ UNCHANGED << choice, fate >> /\ step = "renamed" /\ step' = "entombed"
      BY <2>7 DEF SyncTombstone
    <3>2. DismissInv'
      <4> DEFINE g == choice.generation
      <4>1. g \in Generation
        BY <3>1 DEF EvidenceInv, DismissInv
      <4>2. disk' = {Here} /\ tombstone' = tombstone
        BY <3>1 DEF SyncDirectory, Here
      <4>3. tombstone[g] # NoFile => tombstone[g] \notin Present(Here)
        BY <4>1, HereHeld DEF EvidenceInv
      <4> QED BY <3>1, <4>1, <4>2, <4>3 DEF DismissInv
    <3> QED BY <2>1, <3>1, <3>2, SyncStill, RecoveryQuiet DEF SyncDirectory
  <2>8. CASE Bury
    <3> DEFINE t == tombstone[choice.generation]
    <3>1. /\ step = "entombed" /\ step' = "idle"
          /\ fate' = [fate EXCEPT ![t] = "dismissed"]
      BY <2>8 DEF Bury
    <3>2. Still /\ UNCHANGED artifact
      BY <2>8, RemoveStill, DirectorySame DEF Bury
    <3>3. t \in File => named[t] # 0 /\ \A d \in disk : t \notin Present(d)
      <4>1. choice.generation \in Generation /\ choice.generation # 0
        BY <3>1, Bounds DEF EvidenceInv, DismissInv, Generation
      <4>2. t \in File => t # NoFile
        BY Bounds DEF File
      <4> QED BY <3>1, <4>1, <4>2, HereHeld DEF EvidenceInv, DismissInv
    <3>4. Held' /\ Kept
      <4> HIDE DEF t
      <4> QED BY <2>1, <3>1, <3>2, <3>3, BuryHeld, SameKept DEF EvidenceInv
    <3> QED BY <2>1, <3>1, <3>4, PruneKept, LinkKept, DismissOver DEF EvidenceInv, PruneInv
  <2> QED BY <1>1, <2>3, <2>4, <2>5, <2>6, <2>7, <2>8 DEF RecoveryStep
<1>2. CASE CommitRestore
  <2>1. /\ UNCHANGED << directory, named, fate, policy, stage >> /\ step' = "idle"
        /\ Moved \/ UNCHANGED << lastPeriodic, call >>
    BY <1>2 DEF CommitRestore, Adopt
  <2>2. call'.todo = call.todo /\ call'.file = call.file
    BY <2>1 DEF Moved, AutosaveOK, Call
  <2> QED BY <2>1, <2>2, DirectorySame, RecoveryQuiet, DismissOver
<1> QED BY <1>1, <1>2

LEMMA StepEvidence == TypeOK /\ TypeOK' /\ EvidenceInv /\ [Next]_vars => EvidenceInv'
<1> SUFFICES ASSUME TypeOK, TypeOK', EvidenceInv, [Next]_vars
             PROVE  EvidenceInv'
  OBVIOUS
<1> USE DEF TypeOK
<1>1. CASE AutosaveStep
  BY <1>1, AutosaveEvidence
<1>2. CASE RecoveryStep
  BY <1>2, RecoveryEvidence
<1>3. CASE Edit
  <2>1. UNCHANGED << directory, named, fate, policy, stage, step >> /\ step = "idle" /\ Moved
    BY <1>3 DEF Edit, recovery
  <2>2. call'.todo = call.todo /\ call'.file = call.file
    BY <2>1 DEF Moved, AutosaveOK, Call
  <2> QED BY <2>1, <2>2, DirectorySame, RecoveryQuiet, DismissOver
<1>4. CASE PublishedElsewhere
  <2>1. PICK f \in File : Appear(f, NextGeneration)
    BY <1>4 DEF PublishedElsewhere
  <2>2. /\ NextGeneration \in Generation /\ NextGeneration \notin Managed
        /\ UNCHANGED << fate, step, choice, policy, stage, call >>
    BY <1>4, NextIsFree DEF PublishedElsewhere, autosave, schedule, recovery
  <2>3. LinkInv'
    <3>1. artifact[NextGeneration] = NoFile
      BY <2>2 DEF Managed
    <3>2. Kept
      BY <2>1, <2>2, <3>1, AppearKept DEF EvidenceInv
    <3> QED BY <2>2, <3>2, LinkKept DEF EvidenceInv
  <2> QED BY <2>1, <2>2, <2>3, AppearEvidence
<1>5. ASSUME NEW g \in Generation, DismissedElsewhere(g)
      PROVE  EvidenceInv'
  <2>1. /\ g \in Managed /\ Change([artifact EXCEPT ![g] = NoFile], tombstone)
        /\ fate' = [fate EXCEPT ![artifact[g]] = "taken"]
        /\ UNCHANGED << named, autosave >> /\ UNCHANGED << step, choice >>
    BY <1>5 DEF DismissedElsewhere, recovery
  <2>2. DismissInv'
    BY <2>1, LeaveBrought, DismissKept DEF EvidenceInv, Change
  <2>3. tombstone \in Names
    BY DEF DirectoryOK
  <2> QED BY <2>1, <2>2, <2>3, TakeEvidence
<1>6. CASE Killed \/ PowerLoss
  BY <1>6, RestartEvidence DEF Killed, PowerLoss, directory
<1>7. CASE UNCHANGED vars
  <2>1. UNCHANGED << directory, named, fate, policy, stage, call, step, choice >>
    BY <1>7 DEF vars, autosave, schedule, recovery
  <2>2. DismissInv'
    BY <2>1, DirectorySame, StillBrought, DismissKept DEF EvidenceInv
  <2> QED BY <2>1, <2>2, DirectorySame, RecoveryQuiet
<1> QED BY <1>1, <1>2, <1>3, <1>4, <1>5, <1>6, <1>7 DEF Next

\* What the controllers report stays true at whatever instant the machine stops:
\* a published recovery point is there unless it was dismissed or there are
\* newer ones, and a dismissed one does not come back.
THEOREM ReportsHold == Spec => []ReportsAreEvidence
<1>1. EvidenceInv => ReportsAreEvidence
  BY DEF EvidenceInv, Held
<1> QED BY InitTyped, TypeStep, InitEvidence, StepEvidence, <1>1, PTL DEF Spec
=============================================================================
