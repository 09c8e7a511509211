------------------------- MODULE ProjectSaveProofs -------------------------
(* Theorems about ProjectSave, for every set of sessions and names, every  *)
(* choice of commands and every bound on the files.                        *)
EXTENDS ProjectSave, TLAPS

USE DEF directory, authority, File, NoFile, Stage, Unpublished, Published, Holding, Flushed

LEMMA InitIInv == Init => IInv
  BY SaveAssumption DEF Init, IInv, Types, OldOrNew, CandidateInv, LockInv, AuthorityInv,
     PublicationRebinds, NoPlan, NoSession

LEMMA OpenStep ==
  ASSUME IInv, NEW s \in Session, NEW p \in Path, NEW mayWrite \in BOOLEAN, Open(s, p, mayWrite)
  PROVE  IInv'
  <1> USE SaveAssumption DEF IInv, NoSession, Open, Readable
  <1>1. Types'
    BY DEF Types
  <1>2. OldOrNew'
    BY DEF Types, OldOrNew, CandidateInv
  <1>3. CandidateInv'
    BY DEF Types, OldOrNew, CandidateInv
  <1>4. LockInv'
    BY DEF Types, LockInv, AuthorityInv
  <1>5. AuthorityInv'
    BY SMTT(60) DEF Types, CandidateInv, LockInv, AuthorityInv
  <1>6. PublicationRebinds'
    BY DEF Types, AuthorityInv, PublicationRebinds
  <1> QED
    BY <1>1, <1>2, <1>3, <1>4, <1>5, <1>6

LEMMA PlanStep ==
  ASSUME IInv, NEW s \in Session, NEW c \in Command, NEW p \in Path, Plan(s, c, p)
  PROVE  IInv'
  <1> USE SaveAssumption DEF IInv, NoSession, Plan, Permitted, Destination, Aliases, Mode, Readable
  <1>1. Types'
    BY DEF Types
  <1>2. OldOrNew'
    BY DEF Types, OldOrNew, CandidateInv
  <1>3. CandidateInv'
    BY SMTT(60) DEF Types, OldOrNew, CandidateInv
  <1>4. LockInv'
    BY DEF Types, LockInv, AuthorityInv
  <1>5. AuthorityInv'
    <2>1. plan'[s].destination = p /\ (plan'[s].aliases <=> active[s] = p)
      BY DEF Types
    <2>2. active[s] = p => writable[s]
      BY SaveAssumption
    <2>3. \A t \in Session : t # s =>
            plan'[t] = plan[t] /\ stage'[t] = stage[t] /\ outcome'[t] = outcome[t]
      BY DEF Types
    <2>4. stage'[s] = "prepared" /\ outcome'[s] = "none"
      BY DEF Types
    <2>5. UNCHANGED << active, accepted, writable, at >>
      OBVIOUS
    <2> HIDE DEF Plan, Permitted, Mode, Aliases, Destination
    <2> QED
      BY <2>1, <2>2, <2>3, <2>4, <2>5 DEF AuthorityInv, Types
  <1>6. PublicationRebinds'
    BY DEF Types, AuthorityInv, PublicationRebinds
  <1> QED
    BY <1>1, <1>2, <1>3, <1>4, <1>5, <1>6

LEMMA ReserveStep ==
  ASSUME IInv, NEW s \in Session, Reserve(s)
  PROVE  IInv'
  <1> USE SaveAssumption DEF IInv, NoSession, Reserve, Moves
  <1>1. Types'
    <2>1. PICK f \in File : file[f] = "free" /\ plan' = [plan EXCEPT ![s].candidate = f]
                            /\ file' = [file EXCEPT ![f] = "partial"]
                            /\ candidates' = candidates \cup {f}
                            /\ candidatesDisk' = candidatesDisk \cup {f}
      OBVIOUS
    <2>2. plan[s] \in [destination : Path \cup {Memory}, mode : {"replace", "absent"},
                        rebind : BOOLEAN, aliases : BOOLEAN,
                        expected : File \cup {NoFile}, candidate : File \cup {NoFile}]
      BY DEF Types
    <2>3. plan'[s] \in [destination : Path \cup {Memory}, mode : {"replace", "absent"},
                        rebind : BOOLEAN, aliases : BOOLEAN,
                        expected : File \cup {NoFile}, candidate : File \cup {NoFile}]
      <3>1. plan'[s] = [plan[s] EXCEPT !.candidate = f]
        BY <2>1 DEF Types
      <3> HIDE DEF IInv, Reserve
      <3> QED
        BY <2>2, <3>1
    <2>4. plan' \in [Session -> [destination : Path \cup {Memory}, mode : {"replace", "absent"},
                        rebind : BOOLEAN, aliases : BOOLEAN,
                        expected : File \cup {NoFile}, candidate : File \cup {NoFile}]]
      BY <2>1, <2>3 DEF Types
    <2> QED
      BY <2>1, <2>4 DEF Types
  <1>2. OldOrNew'
    BY DEF Types, OldOrNew, CandidateInv
  <1>3. CandidateInv'
    BY DEF Types, OldOrNew, CandidateInv
  <1>4. LockInv'
    BY DEF Types, LockInv, AuthorityInv
  <1>5. AuthorityInv'
    BY SMTT(60) DEF Types, CandidateInv, LockInv, AuthorityInv
  <1>6. PublicationRebinds'
    <2>1. outcome'[s] = "none"
      BY DEF AuthorityInv
    <2>2. \A t \in Session : t # s => plan'[t] = plan[t]
      BY DEF Types
    <2> QED
      BY <2>1, <2>2 DEF Types, PublicationRebinds
  <1> QED
    BY <1>1, <1>2, <1>3, <1>4, <1>5, <1>6

LEMMA BuildStep ==
  ASSUME IInv, NEW s \in Session, Build(s)
  PROVE  IInv'
  <1> USE SaveAssumption DEF IInv, NoSession, Build, Moves
  <1>1. Types'
    BY DEF Types
  <1>2. OldOrNew'
    BY DEF Types, OldOrNew, CandidateInv
  <1>3. CandidateInv'
    BY DEF Types, OldOrNew, CandidateInv
  <1>4. LockInv'
    BY DEF Types, LockInv, AuthorityInv
  <1>5. AuthorityInv'
    BY DEF Types, CandidateInv, LockInv, AuthorityInv
  <1>6. PublicationRebinds'
    BY DEF Types, AuthorityInv, PublicationRebinds
  <1> QED
    BY <1>1, <1>2, <1>3, <1>4, <1>5, <1>6

LEMMA SyncCandidateStep ==
  ASSUME IInv, NEW s \in Session, SyncCandidate(s)
  PROVE  IInv'
  <1> USE SaveAssumption DEF IInv, NoSession, SyncCandidate, Moves, Synced, SyncDirectory
  <1>1. Types'
    <2>1. atDisk' \in [Path -> SUBSET (File \cup {NoFile})] /\ candidatesDisk' \subseteq File
      BY DEF Types
    <2>2. file' \in [File -> {"free", "partial", "whole", "durable", "torn"}] /\ stage' \in [Session -> Stage]
      BY DEF Types, Stage
    <2>3. UNCHANGED << at, candidates, active, accepted, writable, plan, lock, outcome, displaced >>
      BY DEF authority
    <2> HIDE DEF SyncCandidate, Moves, Synced, SyncDirectory
    <2> QED
      BY <2>1, <2>2, <2>3 DEF Types
  <1>2. OldOrNew'
    BY DEF Types, OldOrNew, CandidateInv
  <1>3. CandidateInv'
    BY SMTT(60) DEF Types, OldOrNew, CandidateInv
  <1>4. LockInv'
    BY DEF Types, LockInv, AuthorityInv
  <1>5. AuthorityInv'
    BY DEF Types, CandidateInv, LockInv, AuthorityInv
  <1>6. PublicationRebinds'
    BY DEF Types, AuthorityInv, PublicationRebinds
  <1> QED
    BY <1>1, <1>2, <1>3, <1>4, <1>5, <1>6

LEMMA AcquireLockStep ==
  ASSUME IInv, NEW s \in Session, AcquireLock(s)
  PROVE  IInv'
  <1> USE SaveAssumption DEF IInv, NoSession, AcquireLock, Moves
  <1>1. Types'
    BY DEF Types
  <1>2. OldOrNew'
    BY DEF Types, OldOrNew, CandidateInv
  <1>3. CandidateInv'
    BY DEF Types, OldOrNew, CandidateInv
  <1>4. LockInv'
    BY DEF Types, LockInv, AuthorityInv
  <1>5. AuthorityInv'
    BY DEF Types, CandidateInv, LockInv, AuthorityInv
  <1>6. PublicationRebinds'
    BY DEF Types, AuthorityInv, PublicationRebinds
  <1> QED
    BY <1>1, <1>2, <1>3, <1>4, <1>5, <1>6

LEMMA VerifyStep ==
  ASSUME IInv, NEW s \in Session, Verify(s)
  PROVE  IInv'
  <1> USE SaveAssumption DEF IInv, NoSession, Verify, Moves, Unchanged
  <1>1. Types'
    BY DEF Types
  <1>2. OldOrNew'
    BY DEF Types, OldOrNew, CandidateInv
  <1>3. CandidateInv'
    BY DEF Types, OldOrNew, CandidateInv
  <1>4. LockInv'
    BY DEF Types, LockInv, AuthorityInv
  <1>5. AuthorityInv'
    BY DEF Types, CandidateInv, LockInv, AuthorityInv
  <1>6. PublicationRebinds'
    BY DEF Types, AuthorityInv, PublicationRebinds
  <1> QED
    BY <1>1, <1>2, <1>3, <1>4, <1>5, <1>6

LEMMA RenameStep ==
  ASSUME IInv, NEW s \in Session, Rename(s)
  PROVE  IInv'
  <1> USE SaveAssumption DEF IInv, NoSession, Rename, Moves, Bind, Accept, Unlocked
  <1>1. Types'
    <2>1. plan[s].destination \in Path /\ plan[s].candidate \in File
      BY DEF Types, AuthorityInv, CandidateInv
    <2>2. at' \in [Path -> File \cup {NoFile}]
      BY <2>1 DEF Types
    <2>3. atDisk' \in [Path -> SUBSET (File \cup {NoFile})]
      BY <2>1 DEF Types
    <2>4. active' \in [Session -> Path \cup {Memory}]
      BY <2>1 DEF Types
    <2>5. accepted' \in [Session -> File \cup {NoFile}] /\ writable' \in [Session -> BOOLEAN]
      BY <2>1 DEF Types
    <2>6. displaced' \subseteq File /\ candidates' \subseteq File
      <3>1. /\ displaced \subseteq File /\ candidates \subseteq File
            /\ at[plan[s].destination] \in File \cup {NoFile}
        BY <2>1 DEF Types
      <3>2. /\ displaced' = displaced \cup ({at[plan[s].destination]} \ {NoFile})
            /\ candidates' = candidates \ {plan[s].candidate}
        OBVIOUS
      <3> HIDE DEF IInv, Rename
      <3> QED
        BY <3>1, <3>2
    <2>7. lock' \in [Path -> Session \cup {NoSession}]
      BY DEF Types
    <2> QED
      BY <2>2, <2>3, <2>4, <2>5, <2>6, <2>7 DEF Types
  <1>2. OldOrNew'
    BY DEF Types, OldOrNew, CandidateInv
  <1>3. CandidateInv'
    BY DEF Types, OldOrNew, CandidateInv
  <1>4. LockInv'
    BY DEF Types, LockInv, AuthorityInv
  <1>5. AuthorityInv'
    BY SMTT(60) DEF Types, CandidateInv, LockInv, AuthorityInv
  <1>6. PublicationRebinds'
    BY DEF Types, AuthorityInv, PublicationRebinds
  <1> QED
    BY <1>1, <1>2, <1>3, <1>4, <1>5, <1>6

LEMMA LinkStep ==
  ASSUME IInv, NEW s \in Session, Link(s)
  PROVE  IInv'
  <1> USE SaveAssumption DEF IInv, NoSession, Link, Moves, Bind, Accept
  <1>1. Types'
    <2>1. plan[s].destination \in Path /\ plan[s].candidate \in File
      BY DEF Types, AuthorityInv, CandidateInv
    <2>2. at' \in [Path -> File \cup {NoFile}]
      BY <2>1 DEF Types
    <2>3. atDisk' \in [Path -> SUBSET (File \cup {NoFile})]
      BY <2>1 DEF Types
    <2>4. active' \in [Session -> Path \cup {Memory}]
      BY <2>1 DEF Types
    <2>5. accepted' \in [Session -> File \cup {NoFile}] /\ writable' \in [Session -> BOOLEAN]
      BY <2>1 DEF Types
    <2>6. displaced' \subseteq File /\ candidates' \subseteq File
      BY <2>1 DEF Types
    <2>7. lock' \in [Path -> Session \cup {NoSession}]
      BY DEF Types
    <2> QED
      BY <2>2, <2>3, <2>4, <2>5, <2>6, <2>7 DEF Types
  <1>2. OldOrNew'
    BY DEF Types, OldOrNew, CandidateInv
  <1>3. CandidateInv'
    BY DEF Types, OldOrNew, CandidateInv
  <1>4. LockInv'
    BY DEF Types, LockInv, AuthorityInv
  <1>5. AuthorityInv'
    BY SMTT(60) DEF Types, CandidateInv, LockInv, AuthorityInv
  <1>6. PublicationRebinds'
    BY DEF Types, AuthorityInv, PublicationRebinds
  <1> QED
    BY <1>1, <1>2, <1>3, <1>4, <1>5, <1>6

LEMMA SyncPublishedStep ==
  ASSUME IInv, NEW s \in Session, SyncPublished(s)
  PROVE  IInv'
  <1> USE SaveAssumption DEF IInv, NoSession, SyncPublished, Moves, Synced
  <1>1. Types'
    BY DEF Types
  <1>2. OldOrNew'
    BY DEF Types, OldOrNew, CandidateInv
  <1>3. CandidateInv'
    <2>1. file' = file
      BY DEF Types, OldOrNew, AuthorityInv
    <2>2. plan' = plan /\ stage' = [stage EXCEPT ![s] = "published_synced"]
      OBVIOUS
    <2>3. Types /\ CandidateInv /\ stage[s] = "published"
      OBVIOUS
    <2> HIDE DEF IInv, SyncPublished
    <2> QED
      BY <2>1, <2>2, <2>3 DEF Types, CandidateInv, Flushed, Stage
  <1>4. LockInv'
    BY DEF Types, LockInv, AuthorityInv
  <1>5. AuthorityInv'
    BY DEF Types, CandidateInv, LockInv, AuthorityInv
  <1>6. PublicationRebinds'
    BY DEF Types, AuthorityInv, PublicationRebinds
  <1> QED
    BY <1>1, <1>2, <1>3, <1>4, <1>5, <1>6

LEMMA SyncParentStep ==
  ASSUME IInv, NEW s \in Session, SyncParent(s)
  PROVE  IInv'
  <1> USE SaveAssumption DEF IInv, NoSession, SyncParent, Moves, SyncDirectory, Finish
  <1>1. Types'
    <2>1. Types
      OBVIOUS
    <2>2. PICK st \in {"idle", "parent_synced"} : stage' = [stage EXCEPT ![s] = st]
      OBVIOUS
    <2>3. outcome' = outcome \/ outcome' = [outcome EXCEPT ![s] = "ok"]
      OBVIOUS
    <2>4. /\ atDisk' = [p \in Path |-> {at[p]}] /\ candidatesDisk' = candidates
          /\ UNCHANGED << at, candidates, file, active, accepted, writable, plan, lock, displaced >>
      BY DEF authority
    <2> HIDE DEF IInv, SyncParent
    <2>5. stage' \in [Session -> Stage] /\ outcome' \in [Session -> {"none", "ok", "not_published", "published"}]
      BY <2>1, <2>2, <2>3 DEF Types, Stage
    <2>6. atDisk' \in [Path -> SUBSET (File \cup {NoFile})]
      BY <2>1, <2>4 DEF Types
    <2> QED
      BY <2>1, <2>4, <2>5, <2>6 DEF Types
  <1>2. OldOrNew'
    BY DEF Types, OldOrNew, CandidateInv
  <1>3. CandidateInv'
    <2>1. PICK st \in {"idle", "parent_synced"} : stage' = [stage EXCEPT ![s] = st]
      OBVIOUS
    <2>2. stage[s] = "published_synced" /\ UNCHANGED << plan, file >>
      OBVIOUS
    <2> HIDE DEF SyncParent
    <2> QED
      BY <2>1, <2>2 DEF Types, CandidateInv
  <1>4. LockInv'
    <2>1. PICK st \in {"idle", "parent_synced"} : stage' = [stage EXCEPT ![s] = st]
      OBVIOUS
    <2>2. stage[s] = "published_synced" /\ UNCHANGED << plan, lock >>
      OBVIOUS
    <2> HIDE DEF SyncParent
    <2> QED
      BY <2>1, <2>2 DEF Types, LockInv
  <1>5. AuthorityInv'
    BY DEF Types, CandidateInv, LockInv, AuthorityInv
  <1>6. PublicationRebinds'
    BY DEF Types, AuthorityInv, PublicationRebinds
  <1> QED
    BY <1>1, <1>2, <1>3, <1>4, <1>5, <1>6

LEMMA RemoveCandidateStep ==
  ASSUME IInv, NEW s \in Session, RemoveCandidate(s)
  PROVE  IInv'
  <1> USE SaveAssumption DEF IInv, NoSession, RemoveCandidate, Moves
  <1>1. Types'
    BY DEF Types
  <1>2. OldOrNew'
    BY DEF Types, OldOrNew, CandidateInv
  <1>3. CandidateInv'
    BY DEF Types, OldOrNew, CandidateInv
  <1>4. LockInv'
    BY DEF Types, LockInv, AuthorityInv
  <1>5. AuthorityInv'
    BY DEF Types, CandidateInv, LockInv, AuthorityInv
  <1>6. PublicationRebinds'
    BY DEF Types, AuthorityInv, PublicationRebinds
  <1> QED
    BY <1>1, <1>2, <1>3, <1>4, <1>5, <1>6

LEMMA SyncCleanupStep ==
  ASSUME IInv, NEW s \in Session, SyncCleanup(s)
  PROVE  IInv'
  <1> USE SaveAssumption DEF IInv, NoSession, SyncCleanup, SyncDirectory, Finish
  <1>1. Types'
    BY DEF Types
  <1>2. OldOrNew'
    BY DEF Types, OldOrNew, CandidateInv
  <1>3. CandidateInv'
    BY DEF Types, OldOrNew, CandidateInv
  <1>4. LockInv'
    BY DEF Types, LockInv, AuthorityInv
  <1>5. AuthorityInv'
    BY DEF Types, CandidateInv, LockInv, AuthorityInv
  <1>6. PublicationRebinds'
    BY DEF Types, AuthorityInv, PublicationRebinds
  <1> QED
    BY <1>1, <1>2, <1>3, <1>4, <1>5, <1>6

LEMMA FailUnpublishedStep ==
  ASSUME IInv, NEW s \in Session, FailUnpublished(s)
  PROVE  IInv'
  <1> USE SaveAssumption DEF IInv, NoSession, FailUnpublished, Finish, Unlocked
  <1>1. Types'
    BY DEF Types
  <1>2. OldOrNew'
    BY DEF Types, OldOrNew, CandidateInv
  <1>3. CandidateInv'
    BY DEF Types, OldOrNew, CandidateInv
  <1>4. LockInv'
    BY DEF Types, LockInv, AuthorityInv
  <1>5. AuthorityInv'
    BY DEF Types, CandidateInv, LockInv, AuthorityInv
  <1>6. PublicationRebinds'
    BY DEF Types, AuthorityInv, PublicationRebinds
  <1> QED
    BY <1>1, <1>2, <1>3, <1>4, <1>5, <1>6

LEMMA FailPublishedStep ==
  ASSUME IInv, NEW s \in Session, FailPublished(s)
  PROVE  IInv'
  <1> USE SaveAssumption DEF IInv, NoSession, FailPublished, Finish
  <1>1. Types'
    BY DEF Types
  <1>2. OldOrNew'
    BY DEF Types, OldOrNew, CandidateInv
  <1>3. CandidateInv'
    BY DEF Types, OldOrNew, CandidateInv
  <1>4. LockInv'
    BY DEF Types, LockInv, AuthorityInv
  <1>5. AuthorityInv'
    BY DEF Types, CandidateInv, LockInv, AuthorityInv
  <1>6. PublicationRebinds'
    BY DEF Types, AuthorityInv, PublicationRebinds
  <1> QED
    BY <1>1, <1>2, <1>3, <1>4, <1>5, <1>6

LEMMA KilledStep ==
  ASSUME IInv, NEW s \in Session, Killed(s)
  PROVE  IInv'
  <1> USE SaveAssumption DEF IInv, NoSession, Killed, Restarted, NoPlan
  <1>1. Types'
    BY DEF Types
  <1>2. OldOrNew'
    BY DEF Types, OldOrNew, CandidateInv
  <1>3. CandidateInv'
    BY DEF Types, OldOrNew, CandidateInv
  <1>4. LockInv'
    BY DEF Types, LockInv, AuthorityInv
  <1>5. AuthorityInv'
    BY DEF Types, CandidateInv, LockInv, AuthorityInv
  <1>6. PublicationRebinds'
    BY DEF Types, AuthorityInv, PublicationRebinds
  <1> QED
    BY <1>1, <1>2, <1>3, <1>4, <1>5, <1>6

LEMMA PowerLossStep ==
  ASSUME IInv, PowerLoss
  PROVE  IInv'
  <1> USE SaveAssumption DEF IInv, NoSession, PowerLoss, Restarted, NoPlan
  <1>1. Types'
    BY DEF Types
  <1>2. OldOrNew'
    <2>1. \A p \in Path : at'[p] \in atDisk[p] /\ atDisk'[p] = {at'[p]}
      BY DEF Types
    <2>2. \A f \in File : file[f] = "durable" => file'[f] = "durable"
      BY DEF Types
    <2>3. \A p \in Path : at'[p] \in File \cup {NoFile}
      BY DEF Types
    <2> HIDE DEF PowerLoss
    <2> QED
      BY <2>1, <2>2, <2>3 DEF OldOrNew
  <1>3. CandidateInv'
    BY DEF Types, OldOrNew, CandidateInv
  <1>4. LockInv'
    BY DEF Types, LockInv, AuthorityInv
  <1>5. AuthorityInv'
    BY DEF Types, CandidateInv, LockInv, AuthorityInv
  <1>6. PublicationRebinds'
    BY DEF Types, AuthorityInv, PublicationRebinds
  <1> QED
    BY <1>1, <1>2, <1>3, <1>4, <1>5, <1>6

LEMMA DeleteStep ==
  ASSUME IInv, NEW p \in Path, Delete(p)
  PROVE  IInv'
  <1> USE SaveAssumption DEF IInv, NoSession, Delete, Bind
  <1>1. Types'
    <2>1. at' \in [Path -> File \cup {NoFile}]
      BY DEF Types
    <2>2. atDisk' \in [Path -> SUBSET (File \cup {NoFile})]
      <3>1. atDisk \in [Path -> SUBSET (File \cup {NoFile})]
        BY DEF Types
      <3>2. atDisk' = [atDisk EXCEPT ![p] = @ \cup {NoFile}]
        OBVIOUS
      <3> HIDE DEF IInv, Delete, Bind
      <3> QED
        BY <3>1, <3>2
    <2>3. displaced' \subseteq File
      <3>1. at[p] \in File \cup {NoFile} /\ displaced \subseteq File
        BY DEF Types
      <3>2. displaced' = displaced \cup ({at[p]} \ {NoFile})
        OBVIOUS
      <3> HIDE DEF IInv, Delete, Bind
      <3> QED
        BY <3>1, <3>2
    <2>4. UNCHANGED << candidates, candidatesDisk, file, active, accepted, writable,
                      stage, plan, lock, outcome >>
      BY DEF authority
    <2>5. Types
      OBVIOUS
    <2> HIDE DEF IInv, Delete, Bind
    <2> QED
      BY <2>1, <2>2, <2>3, <2>4, <2>5 DEF Types
  <1>2. OldOrNew'
    BY DEF Types, OldOrNew, CandidateInv
  <1>3. CandidateInv'
    BY DEF Types, OldOrNew, CandidateInv
  <1>4. LockInv'
    BY DEF Types, LockInv, AuthorityInv
  <1>5. AuthorityInv'
    BY DEF Types, CandidateInv, LockInv, AuthorityInv
  <1>6. PublicationRebinds'
    BY DEF Types, AuthorityInv, PublicationRebinds
  <1> QED
    BY <1>1, <1>2, <1>3, <1>4, <1>5, <1>6

LEMMA Inductive == IInv /\ [Next]_vars => IInv'
  <1> SUFFICES ASSUME IInv, [Next]_vars PROVE IInv'
    OBVIOUS
  <1>1. ASSUME NEW s \in Session, NEW p \in Path, NEW mayWrite \in BOOLEAN, Open(s, p, mayWrite)
        PROVE  IInv'
    BY <1>1, OpenStep
  <1>2. ASSUME NEW s \in Session, NEW c \in Command, NEW p \in Path, Plan(s, c, p)
        PROVE  IInv'
    BY <1>2, PlanStep
  <1>3. ASSUME NEW s \in Session, SaveStep(s)
        PROVE  IInv'
    BY <1>3, ReserveStep, BuildStep, SyncCandidateStep, AcquireLockStep, VerifyStep, RenameStep,
       LinkStep, SyncPublishedStep, SyncParentStep, RemoveCandidateStep, SyncCleanupStep,
       FailUnpublishedStep, FailPublishedStep DEF SaveStep
  <1>4. ASSUME NEW s \in Session, Killed(s)
        PROVE  IInv'
    BY <1>4, KilledStep
  <1>5. ASSUME PowerLoss PROVE IInv'
    BY <1>5, PowerLossStep
  <1>6. ASSUME NEW p \in Path, Delete(p) PROVE IInv'
    BY <1>6, DeleteStep
  <1>7. CASE UNCHANGED vars
    BY SMTT(60), <1>7 DEF vars, IInv, Types, OldOrNew, CandidateInv, LockInv, AuthorityInv, PublicationRebinds
  <1> QED
    BY <1>1, <1>2, <1>3, <1>4, <1>5, <1>6, <1>7 DEF Next

LEMMA Invariant == Spec => []IInv
  BY InitIInv, Inductive, PTL DEF Spec

(* The state stays in its ranges and a writer lock is held exactly by the   *)
(* saves that are publishing, whichever way they end (the lock guard of     *)
(* publish_candidate).                                                      *)
THEOREM TypeCorrect == Spec => []TypeOK
  <1>1. IInv => TypeOK
    <2> SUFFICES ASSUME IInv, NEW s \in Session
                 PROVE  stage[s] \in Holding <=> \E p \in Path : lock[p] = s
      BY DEF TypeOK, IInv
    <2>1. stage[s] \in Holding => plan[s].destination \in Path /\ lock[plan[s].destination] = s
      BY DEF IInv, LockInv, AuthorityInv
    <2>2. \A p \in Path : lock[p] = s => stage[s] \in Holding
      BY SaveAssumption DEF IInv, LockInv, NoSession
    <2> QED
      BY <2>1, <2>2
  <1> QED
    BY <1>1, Invariant, PTL

(* At every instant, and after a power loss at that instant, each project   *)
(* name is free or names a complete flushed project (the order of           *)
(* sync_candidate and publish_candidate).                                   *)
THEOREM OldOrNewAlways == Spec => []OldOrNew
  BY Invariant, PTL DEF IInv

(* A publication moves the session's authority to what it published, also   *)
(* when a later step of the save fails (publish_candidate before            *)
(* finalize_publication).                                                   *)
THEOREM RebindsAlways == Spec => []PublicationRebinds
  BY Invariant, PTL DEF IInv

(* No lost update: a save replaces its active project only while it is the  *)
(* generation the session accepted (the recheck under the writer lock).     *)
THEOREM NoLostUpdate == Spec => ReplacesOnlyAccepted
  <1>1. IInv /\ [Next]_vars =>
          [\A s \in Session : Renames(s) /\ plan[s].aliases
             => at[plan[s].destination] = accepted[s]]_vars
    BY DEF IInv, AuthorityInv, Renames
  <1> QED
    BY <1>1, Invariant, PTL DEF Spec, ReplacesOnlyAccepted

-----------------------------------------------------------------------------
(* What a save reports is evidence. *)

\* A file that was never reserved is nowhere, and no two saves have one file.
FreshInv ==
  /\ \A f \in File : file[f] = "free" =>
       /\ f \notin candidates \cup candidatesDisk \cup displaced
       /\ \A s \in Session : plan[s].candidate # f
  /\ \A s, t \in Session : plan[s].candidate # NoFile /\ plan[s].candidate = plan[t].candidate => s = t

\* c is nowhere in the directory; c is what d names unless it was displaced; no
\* candidate name has c.
Nowhere(c)   == \A p \in Path : c \notin atDisk[p] \cup {at[p]}
Placed(c, d) == c \in displaced \/ at[d] = c
Durable(c, d) == c \in displaced \/ (at[d] = c /\ atDisk[d] = {c})
Removed(c)   == c \notin candidates
Gone(c)      == c \notin candidates \cup candidatesDisk

\* What is true of session s's save at each stage, and of its outcome.
Fine(s) ==
  LET c == plan[s].candidate
      d == plan[s].destination
  IN /\ (stage[s] \in Unpublished \/ outcome[s] = "not_published") /\ c # NoFile => Nowhere(c)
     /\ stage[s] \in Published => Placed(c, d)
     /\ \/ stage[s] \in {"published", "published_synced"} /\ plan[s].mode = "replace"
        \/ stage[s] = "candidate_cleaned"
        => Removed(c)
     /\ outcome[s] = "ok" => c \in File /\ d \in Path /\ Gone(c) /\ Durable(c, d)

EvidenceInv == FreshInv /\ \A s \in Session : Fine(s)

\* What a step that does not take c for itself does to it.
Kind(c, d) ==
  c \in File =>
    /\ Nowhere(c) => Nowhere(c)'
    /\ d \in Path /\ Placed(c, d) => Placed(c, d)'
    /\ d \in Path /\ Durable(c, d) => Durable(c, d)'
    /\ Removed(c) => Removed(c)'
    /\ Gone(c) => Gone(c)'

\* The steps of the directory, seen by a file c with the name d.
LEMMA KindStill ==
  ASSUME UNCHANGED << at, candidates, atDisk, candidatesDisk, displaced >>, NEW c, NEW d
  PROVE  Kind(c, d)
  BY DEF Kind, Nowhere, Placed, Durable, Removed, Gone

LEMMA KindSync ==
  ASSUME SyncDirectory, UNCHANGED << at, candidates, displaced >>, NEW c, NEW d
  PROVE  Kind(c, d)
  BY DEF SyncDirectory, Kind, Nowhere, Placed, Durable, Removed, Gone

LEMMA KindBind ==
  ASSUME Types, NEW p \in Path, NEW f, Bind(p, f), UNCHANGED candidatesDisk,
         candidates' \subseteq candidates, NEW c, NEW d, c # f
  PROVE  Kind(c, d)
  <1> SUFFICES ASSUME c \in File
               PROVE  /\ Nowhere(c) => Nowhere(c)'
                      /\ d \in Path /\ Placed(c, d) => Placed(c, d)'
                      /\ d \in Path /\ Durable(c, d) => Durable(c, d)'
                      /\ Removed(c) => Removed(c)'
                      /\ Gone(c) => Gone(c)'
    BY DEF Kind
  <1>1. at' = [at EXCEPT ![p] = f] /\ displaced' = displaced \cup ({at[p]} \ {NoFile})
    BY DEF Bind
  <1>2. \A q \in Path : /\ q = p => at'[q] = f /\ atDisk'[q] = atDisk[q] \cup {f}
                        /\ q # p => at'[q] = at[q] /\ atDisk'[q] = atDisk[q]
    BY DEF Bind, Types
  <1>3. c # NoFile /\ (at[p] = c => c \in displaced')
    BY <1>1, SaveAssumption
  <1>4. Nowhere(c) => Nowhere(c)'
    <2> SUFFICES ASSUME Nowhere(c), NEW q \in Path PROVE c \notin atDisk'[q] /\ c # at'[q]
      BY DEF Nowhere
    <2>1. c \notin atDisk[q] /\ c # at[q]
      BY DEF Nowhere
    <2> QED
      BY <1>2, <2>1
  <1>5. /\ d \in Path /\ Placed(c, d) => Placed(c, d)'
        /\ d \in Path /\ Durable(c, d) => Durable(c, d)'
    BY <1>1, <1>2, <1>3 DEF Placed, Durable
  <1> QED
    BY <1>4, <1>5 DEF Removed, Gone

LEMMA KindCandidates ==
  ASSUME UNCHANGED << at, atDisk, displaced >>, NEW c, NEW d,
         c \notin candidates' \ candidates, c \notin candidatesDisk' \ candidatesDisk
  PROVE  Kind(c, d)
  BY DEF Kind, Nowhere, Placed, Durable, Removed, Gone

\* A save keeps what is true of it while a step is kind to its candidate, as far
\* as its stage and its outcome say no more than before.
LEMMA FineKept ==
  ASSUME IInv, NEW t \in Session, Fine(t), NEW c, NEW d,
         c = plan[t].candidate, d = plan[t].destination, Kind(c, d), plan'[t] = plan[t],
         stage'[t] \in Unpublished => stage[t] \in Unpublished,
         outcome'[t] = "not_published" => outcome[t] = "not_published" \/ stage[t] \in Unpublished,
         stage'[t] \in Published => stage[t] \in Published,
         stage'[t] \in {"published", "published_synced"}
           => stage[t] \in {"published", "published_synced"},
         stage'[t] = "candidate_cleaned" => stage[t] = "candidate_cleaned",
         outcome'[t] = "ok" => outcome[t] = "ok"
  PROVE  Fine(t)'
  <1>1. c \in File \cup {NoFile}
    BY DEF IInv, Types
  <1>2. stage[t] \in Published \/ outcome[t] = "ok" => c \in File /\ d \in Path
    BY DEF IInv, CandidateInv, AuthorityInv, Fine
  <1>3. /\ (stage'[t] \in Unpublished \/ outcome'[t] = "not_published") /\ c # NoFile => Nowhere(c)'
        /\ stage'[t] \in Published => Placed(c, d)'
        /\ outcome'[t] = "ok" => c \in File /\ d \in Path /\ Gone(c)' /\ Durable(c, d)'
    BY <1>1, <1>2 DEF Fine, Kind
  <1>4. \/ stage'[t] \in {"published", "published_synced"} /\ plan[t].mode = "replace"
        \/ stage'[t] = "candidate_cleaned"
        => Removed(c)'
    BY <1>2 DEF Fine, Kind
  <1>5. c = plan'[t].candidate /\ d = plan'[t].destination /\ plan'[t].mode = plan[t].mode
    OBVIOUS
  <1> QED
    BY <1>3, <1>4, <1>5 DEF Fine

LEMMA OthersFine ==
  ASSUME IInv, EvidenceInv, NEW s,
         \A t \in Session : t # s => plan'[t] = plan[t] /\ stage'[t] = stage[t] /\ outcome'[t] = outcome[t],
         \A c, d : (\E t \in Session : t # s /\ c = plan[t].candidate) => Kind(c, d)
  PROVE  \A t \in Session : t # s => Fine(t)'
  <1> SUFFICES ASSUME NEW t \in Session, t # s PROVE Fine(t)'
    OBVIOUS
  <1>1. PICK c, d : c = plan[t].candidate /\ d = plan[t].destination
    OBVIOUS
  <1>2. Kind(c, d) /\ Fine(t)
    BY <1>1 DEF EvidenceInv
  <1> QED
    BY <1>1, <1>2, FineKept

LEMMA FreshKept ==
  ASSUME FreshInv,
         \A f \in File : file'[f] = "free" =>
           /\ file[f] = "free"
           /\ f \in candidates' \cup candidatesDisk' \cup displaced'
                => f \in candidates \cup candidatesDisk \cup displaced,
         \A s \in Session : plan'[s].candidate \in {plan[s].candidate, NoFile}
  PROVE  FreshInv'
  <1>1. \A f \in File : file'[f] = "free" =>
          /\ f \notin candidates' \cup candidatesDisk' \cup displaced'
          /\ \A s \in Session : plan'[s].candidate # f
    BY SaveAssumption DEF FreshInv
  <1>2. \A s, t \in Session : plan'[s].candidate # NoFile /\ plan'[s].candidate = plan'[t].candidate => s = t
    BY DEF FreshInv
  <1> QED
    BY <1>1, <1>2 DEF FreshInv

\* Neither a session without a save and a report nor one that has reserved
\* nothing claims anything.
LEMMA FineIdle ==
  ASSUME NEW s \in Session, outcome'[s] = "none",
         stage'[s] = "idle" \/ (stage'[s] = "prepared" /\ plan'[s].candidate = NoFile)
  PROVE  Fine(s)'
  BY DEF Fine

\* The steps of one save that take no name: the file they own keeps its place.
LEMMA SaveKeeps ==
  ASSUME IInv, EvidenceInv, NEW s \in Session,
         \A t \in Session : t # s => plan'[t] = plan[t] /\ stage'[t] = stage[t] /\ outcome'[t] = outcome[t],
         \A f \in File : file'[f] = "free" => file[f] = "free",
         UNCHANGED << at, displaced >>, candidates' \subseteq candidates,
         \/ UNCHANGED << atDisk, candidatesDisk >>
         \/ SyncDirectory /\ candidates' = candidates,
         plan'[s].candidate \in {plan[s].candidate, NoFile}
  PROVE  /\ FreshInv'
         /\ \A t \in Session : t # s => Fine(t)'
         /\ \A c, d : Kind(c, d)
  <1>1. FreshInv'
    <2>1. candidates' \cup candidatesDisk' \cup displaced' \subseteq candidates \cup candidatesDisk \cup displaced
      BY DEF SyncDirectory
    <2>2. \A t \in Session : plan'[t].candidate \in {plan[t].candidate, NoFile}
      OBVIOUS
    <2> QED
      BY <2>1, <2>2, FreshKept DEF EvidenceInv
  <1>2. ASSUME NEW c, NEW d PROVE Kind(c, d)
    BY KindSync, KindCandidates
  <1>3. \A t \in Session : t # s => Fine(t)'
    BY <1>2, OthersFine
  <1> QED
    BY <1>1, <1>2, <1>3

\* Such a step of a save, as far as its own stage and outcome claim no more.
LEMMA QuietEvidence ==
  ASSUME IInv, EvidenceInv, NEW s \in Session,
         \A t \in Session : t # s => plan'[t] = plan[t] /\ stage'[t] = stage[t] /\ outcome'[t] = outcome[t],
         \A f \in File : file'[f] = "free" => file[f] = "free",
         UNCHANGED << at, displaced >>, candidates' \subseteq candidates,
         \/ UNCHANGED << atDisk, candidatesDisk >>
         \/ SyncDirectory /\ candidates' = candidates,
         plan'[s] = plan[s],
         stage'[s] \in Unpublished => stage[s] \in Unpublished,
         outcome'[s] = "not_published" => outcome[s] = "not_published" \/ stage[s] \in Unpublished,
         stage'[s] \in Published => stage[s] \in Published,
         stage'[s] \in {"published", "published_synced"} => stage[s] \in {"published", "published_synced"},
         stage'[s] = "candidate_cleaned" => stage[s] = "candidate_cleaned",
         outcome'[s] = "ok" => outcome[s] = "ok"
  PROVE  EvidenceInv'
  <1>1. /\ FreshInv'
        /\ \A t \in Session : t # s => Fine(t)'
        /\ \A c, d : Kind(c, d)
    BY SaveKeeps
  <1>2. PICK c, d : c = plan[s].candidate /\ d = plan[s].destination
    OBVIOUS
  <1>3. Fine(s)'
    BY <1>1, <1>2, FineKept DEF EvidenceInv
  <1> QED
    BY <1>1, <1>3 DEF EvidenceInv

LEMMA StartEvidence ==
  ASSUME IInv, EvidenceInv, NEW s \in Session,
         \/ \E p \in Path, mayWrite \in BOOLEAN : Open(s, p, mayWrite)
         \/ \E c \in Command, p \in Path : Plan(s, c, p)
         \/ Killed(s)
  PROVE  EvidenceInv'
  <1>1. /\ \A t \in Session : t # s => plan'[t] = plan[t] /\ stage'[t] = stage[t] /\ outcome'[t] = outcome[t]
        /\ UNCHANGED << at, candidates, atDisk, candidatesDisk, file, displaced >>
        /\ outcome'[s] = "none"
        /\ plan'[s].candidate \in {plan[s].candidate, NoFile}
        /\ stage'[s] = "idle" \/ (stage'[s] = "prepared" /\ plan'[s].candidate = NoFile)
    <2>1. CASE \E p \in Path, mayWrite \in BOOLEAN : Open(s, p, mayWrite)
      BY <2>1 DEF Open, IInv, Types
    <2>2. CASE \E c \in Command, p \in Path : Plan(s, c, p)
      BY <2>2 DEF Plan, IInv, Types
    <2>3. CASE Killed(s)
      BY <2>3 DEF Killed, Restarted, NoPlan, IInv, Types
    <2> QED
      BY <2>1, <2>2, <2>3
  <1>2. FreshInv' /\ \A t \in Session : t # s => Fine(t)'
    BY <1>1, SaveKeeps
  <1>3. Fine(s)'
    BY <1>1, FineIdle
  <1> QED
    BY <1>2, <1>3 DEF EvidenceInv

LEMMA ReserveEvidence ==
  ASSUME IInv, EvidenceInv, NEW s \in Session, Reserve(s)
  PROVE  EvidenceInv'
  <1>1. PICK f \in File : /\ file[f] = "free"
                          /\ file' = [file EXCEPT ![f] = "partial"]
                          /\ plan' = [plan EXCEPT ![s].candidate = f]
                          /\ candidates' = candidates \cup {f}
                          /\ candidatesDisk' = candidatesDisk \cup {f}
    BY DEF Reserve
  <1>2. /\ UNCHANGED << at, atDisk, outcome, displaced >>
        /\ stage' = [stage EXCEPT ![s] = "candidate_reserved"] /\ stage[s] = "prepared"
    BY DEF Reserve, Moves
  <1>3. /\ \A t \in Session : t # s => plan'[t] = plan[t] /\ stage'[t] = stage[t] /\ outcome'[t] = outcome[t]
        /\ plan'[s].candidate = f /\ stage'[s] = "candidate_reserved"
        /\ file'[f] = "partial"
        /\ \A g \in File : g # f => file'[g] = file[g]
    BY <1>1, <1>2 DEF IInv, Types
  <1>4. \A t \in Session : plan[t].candidate # f
    BY <1>1 DEF EvidenceInv, FreshInv
  <1>5. FreshInv'
    <2>1. \A g \in File : file'[g] = "free" => g # f /\ file[g] = "free"
      BY <1>3
    <2>2. \A g \in File : file'[g] = "free" =>
            /\ g \notin candidates' \cup candidatesDisk' \cup displaced'
            /\ \A t \in Session : plan'[t].candidate # g
      BY <1>1, <1>2, <1>3, <2>1 DEF EvidenceInv, FreshInv
    <2>3. \A t, u \in Session : plan'[t].candidate # NoFile /\ plan'[t].candidate = plan'[u].candidate => t = u
      BY <1>3, <1>4 DEF EvidenceInv, FreshInv
    <2> QED
      BY <2>2, <2>3 DEF FreshInv
  <1>6. ASSUME NEW c, NEW d, \E t \in Session : c = plan[t].candidate PROVE Kind(c, d)
    <2>1. c # f
      BY <1>4, <1>6
    <2> QED
      BY <1>1, <1>2, <2>1, KindCandidates
  <1>7. \A t \in Session : t # s => Fine(t)'
    BY <1>3, <1>6, OthersFine
  <1>8. Fine(s)'
    <2>1. Nowhere(f)'
      BY <1>1, <1>2, SaveAssumption DEF IInv, OldOrNew, Nowhere
    <2>2. outcome'[s] = "none"
      BY <1>2 DEF IInv, AuthorityInv
    <2> QED
      BY <1>3, <2>1, <2>2 DEF Fine
  <1> QED
    BY <1>5, <1>7, <1>8 DEF EvidenceInv

LEMMA MovesEvidence ==
  ASSUME IInv, EvidenceInv, NEW s \in Session,
         Build(s) \/ SyncCandidate(s) \/ AcquireLock(s) \/ Verify(s) \/ SyncPublished(s)
  PROVE  EvidenceInv'
  <1>1. /\ UNCHANGED << plan, outcome, at, candidates, displaced >>
        /\ UNCHANGED << atDisk, candidatesDisk >> \/ SyncDirectory
    BY DEF Build, SyncCandidate, AcquireLock, Verify, SyncPublished
  <1>2. /\ \A t \in Session : t # s => stage'[t] = stage[t]
        /\ \/ stage[s] \in Unpublished /\ stage'[s] \in Unpublished
           \/ stage[s] = "published" /\ stage'[s] = "published_synced"
    BY DEF Build, SyncCandidate, AcquireLock, Verify, SyncPublished, Moves, IInv, Types
  <1>3. \A f \in File : file'[f] = "free" => file[f] = "free"
    BY DEF Build, SyncCandidate, AcquireLock, Verify, SyncPublished, Synced, IInv, Types
  <1> QED
    BY <1>1, <1>2, <1>3, QuietEvidence

LEMMA FailEvidence ==
  ASSUME IInv, EvidenceInv, NEW s \in Session, FailUnpublished(s) \/ FailPublished(s)
  PROVE  EvidenceInv'
  <1>1. /\ UNCHANGED << plan, file, at, atDisk, candidatesDisk, displaced >>
        /\ candidates' \subseteq candidates
    BY DEF FailUnpublished, FailPublished
  <1>2. /\ \A t \in Session : t # s => stage'[t] = stage[t] /\ outcome'[t] = outcome[t]
        /\ stage'[s] = "idle"
        /\ \/ stage[s] \in Unpublished /\ outcome'[s] = "not_published"
           \/ outcome'[s] = "published"
    BY DEF FailUnpublished, FailPublished, Finish, IInv, Types
  <1> QED
    BY <1>1, <1>2, QuietEvidence

LEMMA PublishEvidence ==
  ASSUME IInv, EvidenceInv, NEW s \in Session, Rename(s) \/ Link(s)
  PROVE  EvidenceInv'
  <1> DEFINE f == plan[s].candidate
             p == plan[s].destination
  <1>1. /\ Bind(p, f) /\ UNCHANGED << file, plan, outcome, candidatesDisk >>
        /\ \/ candidates' = candidates \ {f}
           \/ plan[s].mode = "absent" /\ candidates' = candidates
        /\ \A t \in Session : t # s => stage'[t] = stage[t]
        /\ stage[s] \in Unpublished \ {"prepared"} /\ stage'[s] = "published"
    BY DEF Rename, Link, Moves, IInv, Types
  <1>2. f \in File /\ p \in Path /\ outcome[s] = "none"
    BY <1>1 DEF IInv, CandidateInv, AuthorityInv
  <1>3. /\ at'[p] = f /\ displaced' \subseteq displaced \cup {at[p]}
        /\ at[p] \in File => file[at[p]] # "free"
    <2>1. at[p] \in File => file[at[p]] # "free"
      BY <1>2, SaveAssumption DEF IInv, OldOrNew
    <2> QED
      BY <1>1, <1>2, <2>1 DEF Bind, IInv, Types
  <1>4. FreshInv'
    <2>1. \A g \in File : file'[g] = "free" =>
            /\ file[g] = "free"
            /\ g \in candidates' \cup candidatesDisk' \cup displaced'
                 => g \in candidates \cup candidatesDisk \cup displaced
      BY <1>1, <1>3
    <2> QED
      BY <1>1, <2>1, FreshKept DEF EvidenceInv
  <1>5. \A t \in Session : t # s => plan[t].candidate # f
    BY <1>2, SaveAssumption DEF EvidenceInv, FreshInv
  <1>6. ASSUME NEW c, NEW d, \E t \in Session : t # s /\ c = plan[t].candidate PROVE Kind(c, d)
    <2>1. c # f
      BY <1>5, <1>6
    <2>2. PICK q, g : q = p /\ g = f
      OBVIOUS
    <2>3. Bind(q, g) /\ q \in Path /\ c # g
      BY <1>1, <1>2, <2>1, <2>2
    <2> QED
      BY <1>1, <2>3, KindBind DEF IInv
  <1>7. \A t \in Session : t # s => Fine(t)'
    BY <1>1, <1>6, OthersFine
  <1>8. Fine(s)'
    <2>1. plan'[s] = plan[s] /\ outcome'[s] = "none"
      BY <1>1, <1>2
    <2>2. plan[s].mode = "replace" => f \notin candidates'
      BY <1>1
    <2> QED
      BY <1>1, <1>3, <2>1, <2>2 DEF Fine, Placed, Removed
  <1> QED
    BY <1>4, <1>7, <1>8 DEF EvidenceInv

LEMMA FinishEvidence ==
  ASSUME IInv, EvidenceInv, NEW s \in Session, SyncParent(s) \/ RemoveCandidate(s) \/ SyncCleanup(s)
  PROVE  EvidenceInv'
  <1> DEFINE f == plan[s].candidate
             p == plan[s].destination
  <1>1. /\ UNCHANGED << file, plan, at, displaced >> /\ candidates' \subseteq candidates
        /\ \/ UNCHANGED << atDisk, candidatesDisk >>
           \/ SyncDirectory /\ candidates' = candidates
        /\ \A t \in Session : t # s => stage'[t] = stage[t] /\ outcome'[t] = outcome[t]
    BY DEF SyncParent, RemoveCandidate, SyncCleanup, Moves, Finish, IInv, Types
  <1>2. stage[s] \in Published /\ outcome[s] = "none" /\ f \in File /\ p \in Path
    BY DEF SyncParent, RemoveCandidate, SyncCleanup, Moves, IInv, CandidateInv, AuthorityInv
  <1>3. /\ FreshInv'
        /\ \A t \in Session : t # s => Fine(t)'
        /\ \A c, d : Kind(c, d)
    BY <1>1, SaveKeeps
  <1>4. f \in displaced \/ at[p] = f
    BY <1>2 DEF EvidenceInv, Fine, Placed
  <1>5. CASE stage'[s] = "parent_synced" \/ stage'[s] = "candidate_cleaned"
    <2>1. outcome'[s] = "none" /\ (stage'[s] = "candidate_cleaned" => f \notin candidates')
      BY <1>2, <1>5 DEF SyncParent, RemoveCandidate, SyncCleanup, Moves, Finish, IInv, Types
    <2>2. Fine(s)'
      BY <1>1, <1>4, <1>5, <2>1 DEF Fine, Placed, Removed
    <2> QED
      BY <1>3, <2>2 DEF EvidenceInv
  <1>6. CASE stage'[s] = "idle"
    <2>1. /\ SyncDirectory /\ candidates' = candidates /\ outcome'[s] = "ok"
          /\ f \notin candidates
      <3>1. CASE SyncParent(s)
        BY <1>6, <3>1 DEF SyncParent, Moves, Finish, IInv, Types, EvidenceInv, Fine, Removed
      <3>2. CASE SyncCleanup(s)
        BY <3>2 DEF SyncCleanup, Finish, IInv, Types, EvidenceInv, Fine, Removed
      <3>3. ~RemoveCandidate(s)
        BY <1>6 DEF RemoveCandidate, Moves, IInv, Types
      <3> QED
        BY <3>1, <3>2, <3>3
    <2>2. atDisk'[p] = {at[p]} /\ candidatesDisk' = candidates
      BY <1>2, <2>1 DEF SyncDirectory
    <2>3. Fine(s)'
      BY <1>1, <1>2, <1>4, <1>6, <2>1, <2>2 DEF Fine, Gone, Durable
    <2> QED
      BY <1>3, <2>3 DEF EvidenceInv
  <1> QED
    BY <1>5, <1>6 DEF SyncParent, RemoveCandidate, SyncCleanup, Moves, Finish, IInv, Types

LEMMA PowerLossEvidence ==
  ASSUME IInv, EvidenceInv, PowerLoss
  PROVE  EvidenceInv'
  <1>1. /\ \A s \in Session : stage'[s] = "idle" /\ outcome'[s] = "none" /\ plan'[s].candidate = NoFile
        /\ candidates' = candidatesDisk /\ UNCHANGED << candidatesDisk, displaced >>
        /\ \A f \in File : file'[f] = "free" => file[f] = "free"
    BY DEF PowerLoss, Restarted, NoPlan, IInv, Types
  <1>2. FreshInv'
    BY <1>1, FreshKept DEF EvidenceInv
  <1>3. \A s \in Session : Fine(s)'
    BY <1>1, FineIdle
  <1> QED
    BY <1>2, <1>3 DEF EvidenceInv

LEMMA DeleteEvidence ==
  ASSUME IInv, EvidenceInv, NEW p \in Path, Delete(p)
  PROVE  EvidenceInv'
  <1>1. Bind(p, NoFile) /\ UNCHANGED << candidates, candidatesDisk, file, plan, stage, outcome >>
    BY DEF Delete
  <1>2. /\ displaced' \subseteq displaced \cup {at[p]}
        /\ at[p] \in File => file[at[p]] # "free"
    BY <1>1, SaveAssumption DEF Bind, IInv, OldOrNew
  <1>3. FreshInv'
    <2>1. \A g \in File : file'[g] = "free" =>
            /\ file[g] = "free"
            /\ g \in candidates' \cup candidatesDisk' \cup displaced'
                 => g \in candidates \cup candidatesDisk \cup displaced
      BY <1>1, <1>2
    <2> QED
      BY <1>1, <2>1, FreshKept DEF EvidenceInv
  <1>4. ASSUME NEW c, NEW d PROVE Kind(c, d)
    <2>1. CASE c \in File
      <3>1. c # NoFile
        BY <2>1, SaveAssumption
      <3> QED
        BY <1>1, <3>1, KindBind DEF IInv
    <2> QED
      BY <2>1 DEF Kind
  <1>5. \A s \in Session : Fine(s)'
    BY <1>1, <1>4, OthersFine, SaveAssumption
  <1> QED
    BY <1>3, <1>5 DEF EvidenceInv

LEMMA EvidenceInductive == IInv /\ EvidenceInv /\ [Next]_vars => EvidenceInv'
  <1> SUFFICES ASSUME IInv, EvidenceInv, [Next]_vars PROVE EvidenceInv'
    OBVIOUS
  <1>1. ASSUME NEW s \in Session,
               \/ \E p \in Path, mayWrite \in BOOLEAN : Open(s, p, mayWrite)
               \/ \E c \in Command, p \in Path : Plan(s, c, p)
               \/ Killed(s)
        PROVE  EvidenceInv'
    BY <1>1, StartEvidence
  <1>2. ASSUME NEW s \in Session, SaveStep(s) PROVE EvidenceInv'
    BY <1>2, ReserveEvidence, MovesEvidence, PublishEvidence, FinishEvidence, FailEvidence DEF SaveStep
  <1>3. CASE PowerLoss
    BY <1>3, PowerLossEvidence
  <1>4. ASSUME NEW p \in Path, Delete(p) PROVE EvidenceInv'
    BY <1>4, DeleteEvidence
  <1>5. CASE UNCHANGED vars
    BY <1>5 DEF vars, EvidenceInv, FreshInv, Fine, Nowhere, Placed, Removed, Gone, Durable
  <1> QED
    BY <1>1, <1>2, <1>3, <1>4, <1>5 DEF Next

(* What a save reports is what is on disk: of a success the published file, *)
(* of a failure before publication nothing, whatever fails, is killed or    *)
(* loses power (finalize_publication, cleanup_precommit).                   *)
THEOREM ReportsTrue == Spec => []OutcomeIsEvidence
  <1>1. Init => EvidenceInv
    BY SaveAssumption DEF Init, EvidenceInv, FreshInv, Fine, NoPlan
  <1>2. EvidenceInv => OutcomeIsEvidence
    BY DEF EvidenceInv, Fine, Nowhere, Gone, Durable, OutcomeIsEvidence
  <1> QED
    BY <1>1, <1>2, EvidenceInductive, Invariant, PTL DEF Spec

-----------------------------------------------------------------------------
(* The store. *)

\* What a save knows of its session while it has published nothing, and that its
\* candidate never had a project name.
StoreInv ==
  \A s \in Session : stage[s] \in Unpublished =>
    /\ plan[s].aliases <=> active[s] = plan[s].destination
    /\ plan[s].aliases => plan[s].mode = "replace" /\ ~plan[s].rebind
    /\ plan[s].candidate # NoFile => plan[s].candidate \notin displaced

\* A step of one session that displaces nothing but what a name has.
LEMMA OthersStore ==
  ASSUME IInv, EvidenceInv, StoreInv, NEW s,
         \A t \in Session : t # s =>
           plan'[t] = plan[t] /\ stage'[t] = stage[t] /\ active'[t] = active[t],
         displaced' = displaced \/ \E p \in Path : displaced' \subseteq displaced \cup {at[p]}
  PROVE  \A t \in Session : t # s => (stage'[t] \in Unpublished =>
           /\ plan'[t].aliases <=> active'[t] = plan'[t].destination
           /\ plan'[t].aliases => plan'[t].mode = "replace" /\ ~plan'[t].rebind
           /\ plan'[t].candidate # NoFile => plan'[t].candidate \notin displaced')
  BY DEF StoreInv, EvidenceInv, Fine, Nowhere

\* Every step keeps it: an authority moves only when its session has published, and
\* what is displaced had a name, which a candidate before its publication has not.
LEMMA StoreInductive ==
  ASSUME IInv, EvidenceInv, StoreInv, [Next]_vars
  PROVE  StoreInv'
  <1>1. ASSUME NEW s \in Session,
               \/ \E p \in Path, mayWrite \in BOOLEAN : Open(s, p, mayWrite)
               \/ FailUnpublished(s) \/ FailPublished(s) \/ Killed(s)
        PROVE  StoreInv'
    <2>1. /\ \A t \in Session : t # s =>
               plan'[t] = plan[t] /\ stage'[t] = stage[t] /\ active'[t] = active[t]
          /\ stage'[s] = "idle" /\ displaced' = displaced
      <3>1. CASE \E p \in Path, mayWrite \in BOOLEAN : Open(s, p, mayWrite)
        BY <3>1 DEF Open, IInv, Types
      <3>2. CASE FailUnpublished(s) \/ FailPublished(s)
        BY <3>2 DEF FailUnpublished, FailPublished, Finish, IInv, Types
      <3>3. CASE Killed(s)
        BY <3>3 DEF Killed, Restarted, IInv, Types
      <3> QED
        BY <1>1, <3>1, <3>2, <3>3
    <2> QED
      BY <2>1, OthersStore DEF StoreInv
  <1>2. ASSUME NEW s \in Session, NEW c \in Command, NEW p \in Path, Plan(s, c, p)
        PROVE  StoreInv'
    <2>1. /\ \A t \in Session : t # s =>
               plan'[t] = plan[t] /\ stage'[t] = stage[t] /\ active'[t] = active[t]
          /\ active' = active /\ displaced' = displaced
      BY <1>2 DEF Plan, IInv, Types
    <2>2. /\ plan'[s].aliases <=> active[s] = p
          /\ plan'[s].rebind <=> c \in {"save_as_replace", "save_as_absent"} /\ active[s] # p
          /\ plan'[s].destination = p /\ plan'[s].candidate = NoFile
      BY <1>2 DEF Plan, Aliases, IInv, Types
    <2>3. plan'[s].mode = Mode(s, c, p)
      BY <1>2 DEF Plan, IInv, Types
    <2>4. plan'[s].aliases => plan'[s].mode = "replace" /\ ~plan'[s].rebind
      BY <2>2, <2>3 DEF Mode, Aliases
    <2> QED
      BY <2>1, <2>2, <2>4, OthersStore DEF StoreInv
  <1>3. ASSUME NEW s \in Session, Reserve(s)
        PROVE  StoreInv'
    <2>1. PICK f \in File : file[f] = "free" /\ plan' = [plan EXCEPT ![s].candidate = f]
      BY <1>3 DEF Reserve
    <2>2. f \notin displaced
      BY <2>1 DEF EvidenceInv, FreshInv
    <2>3. /\ stage[s] = "prepared" /\ active' = active /\ displaced' = displaced
          /\ \A t \in Session : t # s => plan'[t] = plan[t] /\ stage'[t] = stage[t]
          /\ plan'[s].candidate = f /\ plan'[s].aliases = plan[s].aliases /\ plan'[s].mode = plan[s].mode
          /\ plan'[s].rebind = plan[s].rebind /\ plan'[s].destination = plan[s].destination
      BY <1>3, <2>1 DEF Reserve, Moves, IInv, Types
    <2> QED
      BY <2>2, <2>3, OthersStore DEF StoreInv
  <1>4. ASSUME NEW s \in Session,
               \/ Build(s) \/ SyncCandidate(s) \/ AcquireLock(s) \/ Verify(s)
               \/ SyncPublished(s) \/ SyncParent(s) \/ RemoveCandidate(s) \/ SyncCleanup(s)
        PROVE  StoreInv'
    <2>1. /\ UNCHANGED << plan, active, displaced >>
          /\ \A t \in Session : t # s => stage'[t] = stage[t]
          /\ stage'[s] \in Unpublished => stage[s] \in Unpublished
      BY <1>4 DEF Build, SyncCandidate, AcquireLock, Verify, SyncPublished, SyncParent,
                  RemoveCandidate, SyncCleanup, Moves, Finish, IInv, Types
    <2> QED
      BY <2>1 DEF StoreInv
  <1>5. ASSUME NEW s \in Session, Rename(s) \/ Link(s)
        PROVE  StoreInv'
    <2>1. stage[s] \in Flushed /\ plan[s].destination \in Path
      BY <1>5 DEF Rename, Link, Moves, IInv, AuthorityInv
    <2>2. /\ plan' = plan /\ stage'[s] = "published"
          /\ \A t \in Session : t # s => stage'[t] = stage[t] /\ active'[t] = active[t]
          /\ displaced' \subseteq displaced \cup {at[plan[s].destination]}
      BY <1>5 DEF Rename, Link, Moves, Accept, Bind, IInv, Types
    <2>3. \E p \in Path : displaced' \subseteq displaced \cup {at[p]}
      BY <2>1, <2>2
    <2> QED
      BY <2>2, <2>3, OthersStore DEF StoreInv
  <1>6. CASE PowerLoss
    BY <1>6 DEF PowerLoss, Restarted, StoreInv
  <1>7. ASSUME NEW p \in Path, Delete(p)
        PROVE  StoreInv'
    <2>1. /\ UNCHANGED << plan, stage, active >>
          /\ displaced' \subseteq displaced \cup {at[p]}
      BY <1>7 DEF Delete, Bind
    <2> QED
      BY <2>1 DEF StoreInv, EvidenceInv, Fine, Nowhere
  <1>8. CASE UNCHANGED vars
    BY <1>8 DEF vars, StoreInv
  <1> QED
    BY <1>1, <1>2, <1>3, <1>4, <1>5, <1>6, <1>7, <1>8 DEF Next, SaveStep

\* What a name shows is what it names: no name is torn.
LEMMA ShownIsNamed ==
  ASSUME IInv, IInv'
  PROVE  Value = at /\ Maybe = atDisk /\ Value' = at' /\ Maybe' = atDisk'
  <1>1. /\ \A p \in Path : Content(at[p]) = at[p] /\ \A f \in atDisk[p] : Content(f) = f
        /\ at = [p \in Path |-> at[p]] /\ atDisk = [p \in Path |-> atDisk[p]]
    BY DEF IInv, Types, OldOrNew, Content
  <1>2. /\ \A p \in Path : Content(at[p])' = at'[p] /\ \A f \in atDisk'[p] : Content(f)' = f
        /\ at' = [p \in Path |-> at'[p]] /\ atDisk' = [p \in Path |-> atDisk'[p]]
    BY DEF IInv, Types, OldOrNew, Content
  <1>3. /\ \A p \in Path : {Content(f) : f \in atDisk[p]} = atDisk[p]
        /\ \A p \in Path : {Content(f) : f \in atDisk[p]}' = atDisk'[p]
    BY <1>1, <1>2
  <1>4. Value = at /\ Value' = at'
    BY <1>1, <1>2 DEF Value
  <1>5. Maybe = atDisk /\ Maybe' = atDisk'
    BY <1>1, <1>2, <1>3 DEF Maybe
  <1> QED
    BY <1>4, <1>5

\* A step of one session is one of one client.
LEMMA OneClient ==
  ASSUME NEW s \in Session,
         \A t \in Session : t # s => plan'[t] = plan[t] /\ stage'[t] = stage[t] /\ outcome'[t] = outcome[t]
  PROVE  /\ Request' = [Request EXCEPT ![s] = Request'[s]]
         /\ Stored' = [Stored EXCEPT ![s] = Stored'[s]]
  <1>1. \A t \in Session : t # s => Request'[t] = Request[t]
    BY DEF Request
  <1>2. \A t \in Session : t # s => Stored'[t] = Stored[t]
    BY <1>1 DEF Stored
  <1>3. /\ Request = [t \in Session |-> Request[t]] /\ Request' = [t \in Session |-> Request'[t]]
        /\ Stored = [t \in Session |-> Stored[t]] /\ Stored' = [t \in Session |-> Stored'[t]]
    BY DEF Request, Stored
  <1> QED
    BY <1>1, <1>2, <1>3

\* What the client of session s has been told.
LEMMA RequestOf ==
  ASSUME IInv, NEW s \in Session
  PROVE  /\ stage[s] = "idle" => Request[s] = outcome[s]
         /\ stage[s] \in Unpublished => Request[s] = "asked"
         /\ stage[s] \in Published => Request[s] = "stored"
         /\ Store!Busy(s) <=> stage[s] # "idle"
         /\ Stored[s] = IF Request[s] \in {"stored", "ok", "published"}
                          THEN [name |-> plan[s].destination, project |-> plan[s].candidate]
                          ELSE Store!Nothing
  BY DEF IInv, Types, Request, Stored, Store!Busy, Store!Nothing

\* A step that leaves the directory and the authorities alone, and the stage, but
\* within what is not published or within what is.
LEMMA Stutters ==
  ASSUME IInv, IInv', NEW s \in Session, UNCHANGED << at, atDisk, displaced, authority, outcome >>,
         \A t \in Session : t # s => plan'[t] = plan[t] /\ stage'[t] = stage[t],
         \/ stage[s] \in Unpublished /\ stage'[s] \in Unpublished
         \/ stage[s] \in Published /\ stage'[s] \in Published /\ plan'[s] = plan[s]
  PROVE  UNCHANGED Store!vars
  <1>1. UNCHANGED << Value, Maybe, Base >>
    BY ShownIsNamed DEF Base
  <1>2. Request'[s] = Request[s]
    BY DEF Request
  <1>3. Stored'[s] = Stored[s]
    BY <1>2 DEF Stored, Request
  <1>4. UNCHANGED << Request, Stored >>
    <2>1. /\ Request' = [Request EXCEPT ![s] = Request'[s]]
          /\ Stored' = [Stored EXCEPT ![s] = Stored'[s]]
      BY OneClient
    <2> QED
      BY <1>2, <1>3, <2>1 DEF Request, Stored
  <1> QED
    BY <1>1, <1>4 DEF Store!vars

\* The steps of a save that neither publish nor sync the directory are not seen.
LEMMA QuietStores ==
  ASSUME IInv, IInv', NEW s \in Session,
         \/ Reserve(s) \/ Build(s) \/ AcquireLock(s) \/ Verify(s) \/ SyncPublished(s) \/ RemoveCandidate(s)
  PROVE  UNCHANGED Store!vars
  <1>1. UNCHANGED << at, atDisk, displaced, authority, outcome >>
    BY DEF Reserve, Build, AcquireLock, Verify, SyncPublished, RemoveCandidate
  <1>2. \A t \in Session : t # s => plan'[t] = plan[t] /\ stage'[t] = stage[t]
    BY DEF Reserve, Build, AcquireLock, Verify, SyncPublished, RemoveCandidate, Moves, IInv, Types
  <1>3. \/ stage[s] \in Unpublished /\ stage'[s] \in Unpublished
        \/ stage[s] \in Published /\ stage'[s] \in Published /\ plan'[s] = plan[s]
    BY DEF Reserve, Build, AcquireLock, Verify, SyncPublished, RemoveCandidate, Moves, IInv, Types
  <1> QED
    BY <1>1, <1>2, <1>3, Stutters

\* Opening, planning, failing and dying.
LEMMA OpenStores ==
  ASSUME IInv, IInv', NEW s \in Session, NEW p \in Path, NEW w \in BOOLEAN, Open(s, p, w)
  PROVE  Store!Open(s, p, w)
  <1>1. /\ UNCHANGED << at, atDisk, displaced, stage, plan >>
        /\ stage[s] = "idle" /\ at[p] # NoFile
        /\ \A t \in Session : t # s => outcome'[t] = outcome[t]
        /\ outcome'[s] = "none" /\ stage'[s] = "idle"
    BY DEF Open, Readable, IInv, Types
  <1>2. Request'[s] = "none" /\ Stored'[s] = Store!Nothing
    BY <1>1 DEF Request, Stored, Store!Nothing
  <1>3. Store!Becomes(s, "none", Store!Nothing)
    BY <1>1, <1>2, OneClient DEF Store!Becomes
  <1>4. Base' = [Base EXCEPT ![s] = [name |-> p, project |-> at[p], writes |-> w]]
    BY DEF Open, Base, IInv, Types
  <1>5. Value' = Value /\ Maybe' = Maybe /\ Value[p] = at[p]
    BY <1>1, ShownIsNamed
  <1> QED
    BY <1>1, <1>3, <1>4, <1>5, RequestOf DEF Store!Open

\* Planning a command is what the store sees as the request.
LEMMA PlanStores ==
  ASSUME IInv, IInv', NEW s \in Session, NEW c \in Command, NEW p \in Path, Plan(s, c, p)
  PROVE  Store!Ask(s)
  <1>1. /\ UNCHANGED << at, atDisk, displaced, active, accepted, writable >>
        /\ stage[s] = "idle" /\ stage'[s] = "prepared"
        /\ \A t \in Session : t # s => plan'[t] = plan[t] /\ stage'[t] = stage[t] /\ outcome'[t] = outcome[t]
    BY DEF Plan, IInv, Types
  <1>2. Request'[s] = "asked" /\ Stored'[s] = Store!Nothing
    BY <1>1 DEF Request, Stored, Store!Nothing
  <1>3. Store!Becomes(s, "asked", Store!Nothing)
    BY <1>1, <1>2, OneClient DEF Store!Becomes
  <1>4. UNCHANGED << Value, Maybe, Base >>
    BY <1>1, ShownIsNamed DEF Base
  <1> QED
    BY <1>1, <1>3, <1>4, RequestOf DEF Store!Ask

\* A failure is told as one before or after the publication.
LEMMA FailStores ==
  ASSUME IInv, IInv', NEW s \in Session, FailUnpublished(s) \/ FailPublished(s)
  PROVE  Store!Fail(s)
  <1>1. /\ UNCHANGED << at, atDisk, displaced, active, accepted, writable, plan >>
        /\ stage'[s] = "idle"
        /\ \A t \in Session : t # s => plan'[t] = plan[t] /\ stage'[t] = stage[t] /\ outcome'[t] = outcome[t]
    BY DEF FailUnpublished, FailPublished, Finish, IInv, Types
  <1>2. \/ Request[s] = "asked" /\ Request'[s] = "not_published"
        \/ Request[s] = "stored" /\ Request'[s] = "published"
    <2>1. Request'[s] = outcome'[s]
      BY <1>1 DEF Request
    <2>2. \/ stage[s] \in Unpublished /\ outcome'[s] = "not_published"
          \/ stage[s] \in Published /\ outcome'[s] = "published"
      BY DEF FailUnpublished, FailPublished, Finish, IInv, Types
    <2> QED
      BY <2>1, <2>2, RequestOf
  <1>3. Stored'[s] = Stored[s]
    BY <1>1, <1>2 DEF Stored
  <1>4. Request' = [Request EXCEPT ![s] = Request'[s]] /\ Stored' = Stored
    <2>1. /\ Request' = [Request EXCEPT ![s] = Request'[s]]
          /\ Stored' = [Stored EXCEPT ![s] = Stored'[s]]
      BY <1>1, OneClient
    <2> QED
      BY <1>3, <2>1 DEF Stored
  <1>5. UNCHANGED << Value, Maybe, Base >>
    BY <1>1, ShownIsNamed DEF Base
  <1> QED
    BY <1>1, <1>2, <1>4, <1>5 DEF Store!Fail

\* A killed process forgets its authority and its request.
LEMMA KilledStores ==
  ASSUME IInv, IInv', NEW s \in Session, Killed(s)
  PROVE  Store!Kill(s)
  <1>1. /\ UNCHANGED << at, atDisk, displaced >>
        /\ stage[s] # "idle" /\ stage'[s] = "idle" /\ outcome'[s] = "none"
        /\ \A t \in Session : t # s => plan'[t] = plan[t] /\ stage'[t] = stage[t] /\ outcome'[t] = outcome[t]
    BY DEF Killed, Restarted, IInv, Types
  <1>2. Request'[s] = "none" /\ Stored'[s] = Store!Nothing
    BY <1>1 DEF Request, Stored, Store!Nothing
  <1>3. Store!Becomes(s, "none", Store!Nothing)
    BY <1>1, <1>2, OneClient DEF Store!Becomes
  <1>4. Base' = [Base EXCEPT ![s] = Store!NoBase]
    BY DEF Killed, Restarted, Base, Store!NoBase, IInv, Types
  <1>5. UNCHANGED << Value, Maybe >>
    BY <1>1, ShownIsNamed
  <1> QED
    BY <1>1, <1>3, <1>4, <1>5, RequestOf DEF Store!Kill

\* The syncs: of the candidate, of a hard link, and those a success is reported after.
LEMMA SyncStores ==
  ASSUME IInv, IInv', NEW s \in Session, SyncDirectory, UNCHANGED << at, displaced, authority, plan >>,
         \A t \in Session : t # s => stage'[t] = stage[t] /\ outcome'[t] = outcome[t],
         \/ outcome' = outcome /\ stage[s] \in Unpublished /\ stage'[s] \in Unpublished
         \/ outcome' = outcome /\ stage[s] \in Published /\ stage'[s] \in Published
         \/ stage[s] \in Published /\ stage'[s] = "idle" /\ outcome'[s] = "ok"
  PROVE  Store!Sync \/ Store!Confirm(s)
  <1>1. Value' = Value /\ Base' = Base
    BY ShownIsNamed DEF Base
  <1>2. Store!Synchronise
    BY ShownIsNamed DEF SyncDirectory, Store!Synchronise
  <1>3. /\ Request' = [Request EXCEPT ![s] = Request'[s]]
        /\ Stored' = [Stored EXCEPT ![s] = Stored'[s]]
    BY OneClient
  <1>4. CASE \/ stage[s] \in Unpublished /\ stage'[s] \in Unpublished
             \/ stage[s] \in Published /\ stage'[s] \in Published
    <2>1. Request'[s] = Request[s]
      BY <1>4 DEF Request
    <2>2. Stored'[s] = Stored[s]
      BY <2>1 DEF Stored
    <2>3. Request' = Request /\ Stored' = Stored
      BY <1>3, <2>1, <2>2 DEF Request, Stored
    <2> QED
      BY <1>1, <1>2, <2>3 DEF Store!Sync
  <1>5. CASE stage[s] \in Published /\ stage'[s] = "idle" /\ outcome'[s] = "ok"
    <2>1. Request[s] = "stored" /\ Request'[s] = "ok"
      BY <1>5 DEF Request
    <2>2. Stored'[s] = Stored[s]
      BY <2>1 DEF Stored
    <2>3. Request' = [Request EXCEPT ![s] = "ok"] /\ Stored' = Stored
      BY <1>3, <2>1, <2>2 DEF Stored
    <2> QED
      BY <1>1, <1>2, <2>1, <2>3 DEF Store!Confirm
  <1> QED
    BY <1>4, <1>5

\* A sync of the directory that ends a save tells the client; another one does not.
LEMMA FinishStores ==
  ASSUME IInv, IInv', NEW s \in Session, SyncCandidate(s) \/ SyncParent(s) \/ SyncCleanup(s)
  PROVE  Store!Sync \/ Store!Confirm(s)
  <1>1. SyncDirectory /\ UNCHANGED << at, displaced, authority, plan >>
    BY DEF SyncCandidate, SyncParent, SyncCleanup
  <1>2. \A t \in Session : t # s => stage'[t] = stage[t] /\ outcome'[t] = outcome[t]
    BY DEF SyncCandidate, SyncParent, SyncCleanup, Moves, Finish, IInv, Types
  <1>3. \/ outcome' = outcome /\ stage[s] \in Unpublished /\ stage'[s] \in Unpublished
        \/ outcome' = outcome /\ stage[s] \in Published /\ stage'[s] \in Published
        \/ stage[s] \in Published /\ stage'[s] = "idle" /\ outcome'[s] = "ok"
    BY DEF SyncCandidate, SyncParent, SyncCleanup, Moves, Finish, IInv, Types
  <1> QED
    BY <1>1, <1>2, <1>3, SyncStores

\* The rename or the link is the one step that changes the store, and of the active
\* project it replaces what was accepted.
LEMMA PublishStores ==
  ASSUME IInv, IInv', EvidenceInv, StoreInv, NEW s \in Session, Rename(s) \/ Link(s)
  PROVE  Store!Store(s, plan[s].destination, plan[s].candidate)
  <1> DEFINE f == plan[s].candidate
             p == plan[s].destination
  <1>1. /\ Bind(p, f) /\ Accept(s) /\ plan' = plan /\ outcome' = outcome
        /\ \A t \in Session : t # s => stage'[t] = stage[t]
        /\ stage[s] \in Unpublished \ {"prepared"} /\ stage'[s] = "published"
    BY DEF Rename, Link, Moves, IInv, Types
  <1>2. f \in File /\ p \in Path /\ f # NoFile /\ p # Memory
    BY <1>1, SaveAssumption DEF IInv, CandidateInv, AuthorityInv
  <1>3. f \notin displaced /\ \A q \in Path : f # at[q] /\ f \notin atDisk[q]
    BY <1>1, <1>2 DEF StoreInv, EvidenceInv, Fine, Nowhere
  <1>4. /\ plan[s].aliases <=> active[s] = p
        /\ plan[s].aliases => plan[s].mode = "replace" /\ ~plan[s].rebind
    BY <1>1 DEF StoreInv
  <1>5. plan[s].aliases => writable[s] /\ accepted[s] = at[p]
    BY <1>1, <1>4 DEF Rename, Link, Moves, IInv, AuthorityInv
  <1>6. Store!Put(p, f)
    BY <1>1, ShownIsNamed DEF Bind, Store!Put
  <1>7. Request[s] = "asked" /\ Request'[s] = "stored"
    BY <1>1 DEF Request
  <1>8. Stored'[s] = [name |-> p, project |-> f]
    BY <1>1, <1>7 DEF Stored
  <1>9. Store!Becomes(s, "stored", [name |-> p, project |-> f])
    BY <1>1, <1>7, <1>8, OneClient DEF Store!Becomes
  <1>10. /\ Base[s].name = active[s] /\ Base[s].project = accepted[s] /\ Base[s].writes = writable[s]
         /\ Base[s].name = p => Base[s].writes /\ Base[s].project = Value[p]
    BY <1>4, <1>5, ShownIsNamed DEF Base, IInv, Types
  <1>11. \/ Base' = [Base EXCEPT ![s] = [name |-> p, project |-> f, writes |-> TRUE]]
         \/ Base[s].name # p /\ UNCHANGED Base
    <2>1. CASE plan[s].rebind \/ plan[s].aliases
      <3>1. /\ active'[s] = p /\ accepted'[s] = f /\ writable'[s] = TRUE
            /\ \A t \in Session : t # s =>
                 active'[t] = active[t] /\ accepted'[t] = accepted[t] /\ writable'[t] = writable[t]
        BY <1>1, <1>4, <1>5, <2>1 DEF Accept, IInv, Types
      <3> QED
        BY <3>1 DEF Base
    <2>2. CASE ~plan[s].rebind /\ ~plan[s].aliases
      BY <1>1, <1>4, <1>10, <2>2 DEF Accept, Base
    <2> QED
      BY <2>1, <2>2
  <1> HIDE DEF f, p
  <1>12. f \notin displaced /\ \A q \in Path : f # Value[q] /\ f \notin Maybe[q]
    BY <1>3, ShownIsNamed
  <1> QED
    BY <1>6, <1>7, <1>9, <1>10, <1>11, <1>12 DEF Store!Store, f, p

\* A power loss leaves each name one of the files it may be, and no process.
LEMMA PowerLossStores ==
  ASSUME IInv, IInv', PowerLoss
  PROVE  Store!PowerLoss
  <1>1. /\ at' \in [Path -> File \cup {NoFile}] /\ \A p \in Path : at'[p] \in atDisk[p]
        /\ atDisk' = [p \in Path |-> {at'[p]}] /\ displaced' = displaced
    BY DEF PowerLoss
  <1>2. /\ Value' \in [Path -> File \cup {NoFile}] /\ \A p \in Path : Value'[p] \in Maybe[p]
        /\ Maybe' = [p \in Path |-> {Value'[p]}]
    BY <1>1, ShownIsNamed
  <1>3. \A s \in Session : /\ active'[s] = Memory /\ accepted'[s] = NoFile /\ writable'[s] = TRUE
                           /\ stage'[s] = "idle" /\ outcome'[s] = "none"
    BY DEF PowerLoss, Restarted
  <1>4. Base' = [s \in Session |-> Store!NoBase]
    BY <1>3 DEF Base, Store!NoBase
  <1>5. Request' = [s \in Session |-> "none"]
    BY <1>3 DEF Request
  <1>6. Stored' = [s \in Session |-> Store!Nothing]
    BY <1>5 DEF Stored, Store!Nothing
  <1> QED
    BY <1>1, <1>2, <1>4, <1>5, <1>6 DEF Store!PowerLoss

\* A deletion outside the program takes a project from its name.
LEMMA DeleteStores ==
  ASSUME IInv, IInv', NEW p \in Path, Delete(p)
  PROVE  Store!Remove(p)
  <1>1. Value[p] # NoFile /\ Store!Put(p, NoFile)
    BY ShownIsNamed DEF Delete, Bind, Store!Put
  <1>2. UNCHANGED << Base, Request, Stored >>
    BY DEF Delete, Base, Request, Stored
  <1> QED
    BY <1>1, <1>2 DEF Store!Remove

\* Every step of a save is one step of the store or none.
LEMMA StoreStep == IInv /\ IInv' /\ EvidenceInv /\ StoreInv /\ [Next]_vars => [Store!Next]_(Store!vars)
  <1> SUFFICES ASSUME IInv, IInv', EvidenceInv, StoreInv, [Next]_vars
               PROVE  Store!Next \/ UNCHANGED Store!vars
    OBVIOUS
  <1>1. ASSUME NEW s \in Session, NEW p \in Path, NEW w \in BOOLEAN, Open(s, p, w) PROVE Store!Next
    BY <1>1, OpenStores DEF Store!Next
  <1>2. ASSUME NEW s \in Session, NEW c \in Command, NEW p \in Path, Plan(s, c, p) PROVE Store!Next
    BY <1>2, PlanStores DEF Store!Next
  <1>3. ASSUME NEW s \in Session,
               \/ Reserve(s) \/ Build(s) \/ AcquireLock(s) \/ Verify(s)
               \/ SyncPublished(s) \/ RemoveCandidate(s)
        PROVE  UNCHANGED Store!vars
    BY <1>3, QuietStores
  <1>4. ASSUME NEW s \in Session,
               \/ SyncCandidate(s) \/ SyncParent(s) \/ SyncCleanup(s)
               \/ FailUnpublished(s) \/ FailPublished(s) \/ Killed(s)
        PROVE  Store!Next
    BY <1>4, FinishStores, FailStores, KilledStores DEF Store!Next
  <1>5. ASSUME NEW s \in Session, Rename(s) \/ Link(s) PROVE Store!Next
    <2>1. plan[s].destination \in Path /\ plan[s].candidate \in File
      BY <1>5 DEF Rename, Link, Moves, IInv, AuthorityInv, CandidateInv
    <2>2. Store!Store(s, plan[s].destination, plan[s].candidate)
      BY <1>5, PublishStores
    <2> QED
      BY <2>1, <2>2 DEF Store!Next
  <1>6. CASE PowerLoss
    BY <1>6, PowerLossStores DEF Store!Next
  <1>7. ASSUME NEW p \in Path, Delete(p) PROVE Store!Next
    BY <1>7, DeleteStores DEF Store!Next
  <1>8. CASE UNCHANGED vars
    BY <1>8, ShownIsNamed DEF vars, Store!vars, Base, Request, Stored
  <1> QED
    BY <1>1, <1>2, <1>3, <1>4, <1>5, <1>6, <1>7, <1>8 DEF Next, SaveStep

(* The save protocol implements the store, for every set of sessions and    *)
(* names: candidates, writer locks, generation checks and syncs add up to   *)
(* one step that replaces what its client has seen, and no crash, failure   *)
(* or other process shows a name anything else (execute_save_command).      *)
THEOREM Implements == Spec => ImplementsStore
  <1>1. Init => EvidenceInv /\ StoreInv
    BY SaveAssumption DEF Init, EvidenceInv, FreshInv, Fine, StoreInv, NoPlan
  <1>2. Init => Store!Init
    <2> SUFFICES ASSUME Init PROVE Store!Init
      OBVIOUS
    <2>1. /\ at \in [Path -> File \cup {NoFile}] /\ atDisk = [p \in Path |-> {at[p]}]
          /\ \A p \in Path : Content(at[p]) = at[p]
      BY SaveAssumption DEF Init, Content
    <2>2. Value = at /\ Maybe = [p \in Path |-> {Value[p]}]
      BY <2>1 DEF Value, Maybe
    <2>3. Base = [s \in Session |-> Store!NoBase] /\ displaced = {}
      BY DEF Init, Base, Store!NoBase
    <2>4. Request = [s \in Session |-> "none"]
      BY DEF Init, Request
    <2>5. Stored = [s \in Session |-> Store!Nothing]
      BY <2>4 DEF Stored, Store!Nothing
    <2> QED
      BY <2>1, <2>2, <2>3, <2>4, <2>5 DEF Store!Init
  <1>3. IInv /\ EvidenceInv /\ StoreInv /\ [Next]_vars => StoreInv'
    BY StoreInductive
  <1> QED
    BY <1>1, <1>2, <1>3, StoreStep, EvidenceInductive, Invariant, PTL DEF Spec, ImplementsStore, Store!Spec
=============================================================================
