---------------------------- MODULE ProjectSave ----------------------------
(***************************************************************************)
(* Publication of a project file in superi-project (src/save.rs and the    *)
(* file authority of src/persist.rs).  A session holds an authority over   *)
(* its active project; save, save-as, copy and backup all build a complete *)
(* candidate file and then publish it, either by renaming it over the      *)
(* destination under the destination's writer lock or, where the           *)
(* destination must be absent, by hard-linking it to that name.  Sessions  *)
(* are separate processes on one directory, any call may fail, a process   *)
(* may be killed, and the machine may lose power between any two steps.    *)
(*                                                                         *)
(* A file is written once, by the save that reserved it, so the identity   *)
(* of a file stands for the generation (digest, length, modification time, *)
(* device and inode) that the code compares.                               *)
(***************************************************************************)
EXTENDS Naturals

CONSTANTS Session,   \* processes, each with one ProjectDatabase
          Path,      \* names a project can be published under
          Original,  \* Original[p]: the file p names at the start, if any
          Command,   \* the save commands the sessions give
          MaxFile,   \* bound: files that are ever reserved
          Memory     \* active path of an in-memory project

ASSUME SaveAssumption ==
  /\ Command \subseteq {"save", "save_as_replace", "save_as_absent", "copy_replace", "copy_absent"}
  /\ MaxFile \in Nat
  /\ Original \in [Path -> 0..MaxFile]
  /\ Memory \notin Path
  /\ "none" \notin Session

File   == 1..MaxFile
NoFile == 0
Stage  == {"idle", "prepared", "candidate_reserved", "database_closed", "candidate_synced",
           "writer_locked", "verified", "published", "published_synced", "parent_synced",
           "candidate_cleaned"}
Unpublished == {"prepared", "candidate_reserved", "database_closed", "candidate_synced",
                "writer_locked", "verified"}
Published == {"published", "published_synced", "parent_synced", "candidate_cleaned"}

VARIABLES
  at, candidates,         \* the directory: project names, and candidate names in it
  atDisk, candidatesDisk, \* what each project name may be, and the candidate names there may be, after a power loss
  file,                   \* file[f]: free, partial, whole, durable or torn
  active, accepted, writable,  \* a session's authority: path, generation, mode
  stage, plan,            \* a session's save in progress
  lock,                   \* lock[p]: the session that holds p's writer lock
  \* --- read by properties only ---
  outcome,                \* how a session's last save ended
  displaced               \* files that lost their project name

directory == << at, candidates, atDisk, candidatesDisk >>
authority == << active, accepted, writable >>
vars == << directory, file, authority, stage, plan, lock, outcome, displaced >>

NoPlan == [destination |-> Memory, mode |-> "replace", rebind |-> FALSE, aliases |-> FALSE,
           expected |-> NoFile, candidate |-> NoFile]
NoSession == "none"

Init ==
  /\ at = Original
  /\ candidates = {}
  /\ atDisk = [p \in Path |-> {at[p]}]
  /\ candidatesDisk = {}
  /\ file = [f \in File |-> IF \E p \in Path : Original[p] = f THEN "durable" ELSE "free"]
  /\ active = [s \in Session |-> Memory]
  /\ accepted = [s \in Session |-> NoFile]
  /\ writable = [s \in Session |-> TRUE]
  /\ stage = [s \in Session |-> "idle"]
  /\ plan = [s \in Session |-> NoPlan]
  /\ lock = [p \in Path |-> NoSession]
  /\ outcome = [s \in Session |-> "none"]
  /\ displaced = {}

-----------------------------------------------------------------------------
(* The directory. *)

\* A name is given a new file, or none: a power loss before the next sync of
\* the directory may show any of the files it has had since the last one.
Bind(p, f) ==
  /\ at' = [at EXCEPT ![p] = f]
  /\ atDisk' = [atDisk EXCEPT ![p] = @ \cup {f}]
  /\ displaced' = displaced \cup ({at[p]} \ {NoFile})

\* sync_parent.
SyncDirectory_Forgotten == UNCHANGED << atDisk, candidatesDisk >>
SyncDirectory ==
  /\ atDisk' = [p \in Path |-> {at[p]}]
  /\ candidatesDisk' = candidates

\* sync_file.
Synced(f) == IF file[f] = "whole" THEN [file EXCEPT ![f] = "durable"] ELSE file

-----------------------------------------------------------------------------
(* A session's authority. *)

Readable(p) == at[p] # NoFile /\ file[at[p]] \in {"whole", "durable"}

\* ProjectDatabase::open and open_read_only: the project is validated and its
\* generation, observed before and after, becomes the accepted one.
Open(s, p, mayWrite) ==
  /\ stage[s] = "idle"
  /\ Readable(p)
  /\ active' = [active EXCEPT ![s] = p]
  /\ accepted' = [accepted EXCEPT ![s] = at[p]]
  /\ writable' = [writable EXCEPT ![s] = mayWrite]
  /\ outcome' = [outcome EXCEPT ![s] = "none"]
  /\ UNCHANGED << directory, file, stage, plan, lock, displaced >>

-----------------------------------------------------------------------------
(* plan_command. *)

Destination(s, c, p) == IF c = "save" THEN p = active[s] /\ writable[s] ELSE TRUE

Aliases(s, p) == active[s] = p

\* What each command may not do.
Permitted(s, c, p) ==
  /\ Destination(s, c, p)
  /\ c \in {"copy_replace", "copy_absent"} => ~Aliases(s, p)
  /\ c \in {"save_as_replace", "save_as_absent"} /\ Aliases(s, p) => writable[s]

\* The collision rule: replacing the active project is always a replacement.
Mode(s, c, p) ==
  IF c \in {"save_as_absent", "copy_absent"} /\ ~Aliases(s, p) THEN "absent" ELSE "replace"

Plan(s, c, p) ==
  /\ stage[s] = "idle"
  /\ Permitted(s, c, p)
  /\ Mode(s, c, p) = "absent" => at[p] = NoFile
  /\ ~Aliases(s, p) /\ at[p] # NoFile => Readable(p)
  /\ stage' = [stage EXCEPT ![s] = "prepared"]
  /\ plan' = [plan EXCEPT ![s] =
       [destination |-> p, mode |-> Mode(s, c, p), aliases |-> Aliases(s, p),
        rebind |-> c \in {"save_as_replace", "save_as_absent"} /\ ~Aliases(s, p),
        expected |-> at[p], candidate |-> NoFile]]
  /\ outcome' = [outcome EXCEPT ![s] = "none"]
  /\ UNCHANGED << directory, file, authority, lock, displaced >>

-----------------------------------------------------------------------------
(* Building the candidate. *)

Moves(s, from, to) == stage[s] = from /\ stage' = [stage EXCEPT ![s] = to]

\* reserve_candidate: a file of a name no other save has.
Reserve(s) ==
  /\ Moves(s, "prepared", "candidate_reserved")
  /\ \E f \in File :
       /\ file[f] = "free" /\ \A g \in 1..(f - 1) : file[g] # "free"
       /\ file' = [file EXCEPT ![f] = "partial"]
       /\ plan' = [plan EXCEPT ![s].candidate = f]
       /\ candidates' = candidates \cup {f}
       /\ candidatesDisk' = candidatesDisk \cup {f}
  /\ UNCHANGED << at, atDisk, authority, lock, outcome, displaced >>

\* build_candidate up to the closed database: the candidate reproduces the
\* snapshot.  That SQLite flushed it is not relied on.
Build(s) ==
  /\ Moves(s, "candidate_reserved", "database_closed")
  /\ file' = [file EXCEPT ![plan[s].candidate] = "whole"]
  /\ UNCHANGED << directory, authority, plan, lock, outcome, displaced >>

\* sync_candidate and sync_candidate_parent.
SyncCandidate_Unflushed(s) ==
  /\ Moves(s, "database_closed", "candidate_synced")
  /\ SyncDirectory
  /\ UNCHANGED << file, at, candidates, authority, plan, lock, outcome, displaced >>
SyncCandidate(s) ==
  /\ Moves(s, "database_closed", "candidate_synced")
  /\ file' = Synced(plan[s].candidate)
  /\ SyncDirectory
  /\ UNCHANGED << at, candidates, authority, plan, lock, outcome, displaced >>

-----------------------------------------------------------------------------
(* publish_candidate. *)

\* DestinationWriterLock::try_acquire; it does not wait.
AcquireLock_Shared(s) ==
  LET p == plan[s].destination IN
  /\ Moves(s, "candidate_synced", "writer_locked")
  /\ plan[s].mode = "replace"
  /\ lock' = [lock EXCEPT ![p] = s]
  /\ UNCHANGED << directory, file, authority, plan, outcome, displaced >>
AcquireLock(s) ==
  LET p == plan[s].destination IN
  /\ Moves(s, "candidate_synced", "writer_locked")
  /\ plan[s].mode = "replace"
  /\ lock[p] = NoSession
  /\ lock' = [lock EXCEPT ![p] = s]
  /\ UNCHANGED << directory, file, authority, plan, outcome, displaced >>

\* validate_active_generation and validate_destination_expectation.
Unchanged(s, observed) ==
  /\ plan[s].aliases => observed = accepted[s]
  /\ observed = plan[s].expected

Verify(s) ==
  /\ Moves(s, "writer_locked", "verified")
  /\ Unchanged(s, at[plan[s].destination])
  /\ UNCHANGED << directory, file, authority, plan, lock, outcome, displaced >>

\* rebind_after_save_as and accept_saved_generation.
Accept_KeepsGeneration(s) ==
  /\ active' = IF plan[s].rebind THEN [active EXCEPT ![s] = plan[s].destination] ELSE active
  /\ accepted' = IF plan[s].rebind THEN [accepted EXCEPT ![s] = plan[s].candidate] ELSE accepted
  /\ writable' = IF plan[s].rebind THEN [writable EXCEPT ![s] = TRUE] ELSE writable
Accept(s) ==
  /\ active' = IF plan[s].rebind THEN [active EXCEPT ![s] = plan[s].destination] ELSE active
  /\ accepted' = IF plan[s].rebind \/ plan[s].aliases
                 THEN [accepted EXCEPT ![s] = plan[s].candidate] ELSE accepted
  /\ writable' = IF plan[s].rebind THEN [writable EXCEPT ![s] = TRUE] ELSE writable

Unlocked(s) == [p \in Path |-> IF lock[p] = s THEN NoSession ELSE lock[p]]

\* fs::rename: the candidate's name becomes the destination.
Rename(s) ==
  LET f == plan[s].candidate IN
  /\ Moves(s, "verified", "published")
  /\ Bind(plan[s].destination, f)
  /\ candidates' = candidates \ {f}
  /\ Accept(s)
  /\ lock' = Unlocked(s)
  /\ UNCHANGED << candidatesDisk, file, plan, outcome >>

\* fs::hard_link, without the lock: fails if the name is taken.
Link(s) ==
  /\ Moves(s, "candidate_synced", "published")
  /\ plan[s].mode = "absent"
  /\ at[plan[s].destination] = NoFile
  /\ Bind(plan[s].destination, plan[s].candidate)
  /\ Accept(s)
  /\ UNCHANGED << candidates, candidatesDisk, file, plan, lock, outcome >>

-----------------------------------------------------------------------------
(* finalize_publication. *)

Finish(s, how) ==
  /\ stage' = [stage EXCEPT ![s] = "idle"]
  /\ outcome' = [outcome EXCEPT ![s] = how]

\* sync_published_project opens the destination by name.
SyncPublished(s) ==
  LET p == plan[s].destination IN
  /\ Moves(s, "published", "published_synced")
  /\ at[p] # NoFile
  /\ file' = Synced(at[p])
  /\ UNCHANGED << directory, authority, plan, lock, outcome, displaced >>

\* sync_published_parent: the last step of a replacement.
SyncParent(s) ==
  /\ stage[s] = "published_synced"
  /\ SyncDirectory
  /\ IF plan[s].mode = "replace"
       THEN Finish(s, "ok")
       ELSE Moves(s, "published_synced", "parent_synced") /\ UNCHANGED outcome
  /\ UNCHANGED << at, candidates, file, authority, plan, lock, displaced >>

\* remove_published_candidate, then sync_candidate_cleanup.
RemoveCandidate(s) ==
  /\ Moves(s, "parent_synced", "candidate_cleaned")
  /\ candidates' = candidates \ {plan[s].candidate}
  /\ UNCHANGED << at, atDisk, candidatesDisk, file, authority, plan, lock, outcome, displaced >>

SyncCleanup(s) ==
  /\ stage[s] = "candidate_cleaned"
  /\ SyncDirectory
  /\ Finish(s, "ok")
  /\ UNCHANGED << at, candidates, file, authority, plan, lock, displaced >>

-----------------------------------------------------------------------------
(* Failure. *)

\* A failed call, a refused lock or a stale generation before publication:
\* cleanup_precommit removes the candidate, or fails to.
FailUnpublished(s) ==
  /\ stage[s] \in Unpublished
  /\ Finish(s, "not_published")
  /\ \E gone \in {{}, {plan[s].candidate}} : candidates' = candidates \ gone
  /\ lock' = Unlocked(s)
  /\ UNCHANGED << at, atDisk, candidatesDisk, file, authority, plan, displaced >>

\* A failure after publication: nothing is undone.
FailPublished(s) ==
  /\ stage[s] \in Published
  /\ Finish(s, "published")
  /\ UNCHANGED << directory, file, authority, plan, lock, displaced >>

Restarted(S) ==
  /\ active' = [s \in Session |-> IF s \in S THEN Memory ELSE active[s]]
  /\ accepted' = [s \in Session |-> IF s \in S THEN NoFile ELSE accepted[s]]
  /\ writable' = [s \in Session |-> IF s \in S THEN TRUE ELSE writable[s]]
  /\ stage' = [s \in Session |-> IF s \in S THEN "idle" ELSE stage[s]]
  /\ plan' = [s \in Session |-> IF s \in S THEN NoPlan ELSE plan[s]]
  /\ lock' = [p \in Path |-> IF lock[p] \in S THEN NoSession ELSE lock[p]]
  /\ outcome' = [s \in Session |-> IF s \in S THEN "none" ELSE outcome[s]]

\* A process is killed; the system drops its locks.
Killed(s) ==
  /\ stage[s] # "idle"
  /\ Restarted({s})
  /\ UNCHANGED << directory, file, displaced >>

\* Power loss: every name shows one of the files it may have on disk, and a
\* file that was never flushed is torn.  Nothing reads a candidate name that
\* is left over, so all that there may be are kept.
PowerLoss ==
  /\ \E after \in {e \in [Path -> File \cup {NoFile}] : \A p \in Path : e[p] \in atDisk[p]} :
       /\ at' = after
       /\ atDisk' = [p \in Path |-> {after[p]}]
  /\ file' = [f \in File |-> IF file[f] \in {"partial", "whole"} THEN "torn" ELSE file[f]]
  /\ candidates' = candidatesDisk
  /\ Restarted(Session)
  /\ UNCHANGED << candidatesDisk, displaced >>

\* Somebody deletes a project.  A deletion between a save's verification and
\* its rename comes from a program that ignores the writer lock, which the
\* documentation of the crate excludes.
Delete(p) ==
  /\ at[p] # NoFile
  /\ lock[p] = NoSession
  /\ Bind(p, NoFile)
  /\ UNCHANGED << candidates, candidatesDisk, file, authority, stage, plan, lock, outcome >>

-----------------------------------------------------------------------------
SaveStep(s) ==
  \/ Reserve(s) \/ Build(s) \/ SyncCandidate(s)
  \/ AcquireLock(s) \/ Verify(s) \/ Rename(s) \/ Link(s)
  \/ SyncPublished(s) \/ SyncParent(s) \/ RemoveCandidate(s) \/ SyncCleanup(s)
  \/ FailUnpublished(s) \/ FailPublished(s)

Next ==
  \/ \E s \in Session :
       \/ \E p \in Path, mayWrite \in BOOLEAN : Open(s, p, mayWrite)
       \/ \E c \in Command, p \in Path : Plan(s, c, p)
       \/ SaveStep(s)
       \/ Killed(s)
  \/ PowerLoss
  \/ \E p \in Path : Delete(p)

Spec == Init /\ [][Next]_vars

-----------------------------------------------------------------------------
(* Properties. *)

Types ==
  /\ at \in [Path -> File \cup {NoFile}]
  /\ candidates \subseteq File
  /\ atDisk \in [Path -> SUBSET (File \cup {NoFile})]
  /\ candidatesDisk \subseteq File
  /\ file \in [File -> {"free", "partial", "whole", "durable", "torn"}]
  /\ active \in [Session -> Path \cup {Memory}]
  /\ accepted \in [Session -> File \cup {NoFile}]
  /\ writable \in [Session -> BOOLEAN]
  /\ stage \in [Session -> Stage]
  /\ plan \in [Session -> [destination : Path \cup {Memory}, mode : {"replace", "absent"},
                           rebind : BOOLEAN, aliases : BOOLEAN,
                           expected : File \cup {NoFile}, candidate : File \cup {NoFile}]]
  /\ lock \in [Path -> Session \cup {NoSession}]
  /\ outcome \in [Session -> {"none", "ok", "not_published", "published"}]
  /\ displaced \subseteq File

\* The directory, the files, the authorities and the saves in progress stay in
\* their ranges, and a writer lock is held by a save that is publishing, and
\* by no other, however a save ends.
TypeOK ==
  /\ Types
  /\ \A s \in Session : stage[s] \in {"writer_locked", "verified"} <=> \E p \in Path : lock[p] = s

\* Old or new, never a part: whatever instant the machine stops at, every
\* project name that is there afterwards is a complete flushed project.
OldOrNew ==
  \A p \in Path : \A f \in atDisk[p] \cup {at[p]} : f = NoFile \/ file[f] = "durable"

\* The outcome is evidence.  Of a success: the file the save published is what
\* its destination names, on disk too, unless somebody has replaced or deleted it
\* since, and its candidate name cannot come back.  Of a save that reports that it
\* published nothing: no project name has its candidate, now or after a power loss.
OutcomeIsEvidence ==
  \A s \in Session :
    /\ outcome[s] = "ok" =>
         /\ plan[s].candidate \notin candidatesDisk
         /\ \/ plan[s].candidate \in displaced
            \/ atDisk[plan[s].destination] = {plan[s].candidate}
    /\ outcome[s] = "not_published" /\ plan[s].candidate # NoFile
         => \A p \in Path : plan[s].candidate \notin atDisk[p] \cup {at[p]}

\* A save of the active project, or a save-as, moves the authority to what it
\* published even when a later step of it fails, so the session's next save is
\* not refused as stale because of its own (src/save.rs publish_candidate).
PublicationRebinds ==
  \A s \in Session : outcome[s] \in {"ok", "published"} /\ (plan[s].rebind \/ plan[s].aliases)
    => /\ active[s] = plan[s].destination
       /\ accepted[s] = plan[s].candidate
       /\ writable[s]

Renames(s) == stage[s] = "verified" /\ stage'[s] = "published"

\* No lost update: a save replaces its active project only while that is still
\* the generation the session accepted when it opened or last saved it; a
\* stale or missing active file is never overwritten or recreated.
ReplacesOnlyAccepted ==
  [][\A s \in Session : Renames(s) /\ plan[s].aliases
       => at[plan[s].destination] = accepted[s]]_vars

\* A session's save as its client sees it: a request, and what it stored.  A name
\* with a file that is not a flushed project would have no project to show.
Torn == MaxFile + 1
Content(f) == IF f = NoFile \/ file[f] = "durable" THEN f ELSE Torn

Value == [p \in Path |-> Content(at[p])]
Maybe == [p \in Path |-> {Content(f) : f \in atDisk[p]}]

Base == [s \in Session |->
  [name |-> active[s], project |-> accepted[s], writes |-> writable[s]]]

Request == [s \in Session |->
  IF stage[s] = "idle" THEN outcome[s] ELSE IF stage[s] \in Published THEN "stored" ELSE "asked"]

Stored == [s \in Session |->
  IF Request[s] \in {"stored", "ok", "published"}
    THEN [name |-> plan[s].destination, project |-> plan[s].candidate]
    ELSE [name |-> Memory, project |-> NoFile]]

Store == INSTANCE ProjectStore WITH
  Name <- Path, Project <- File, Client <- Session, None <- NoFile, Unnamed <- Memory,
  value <- Value, maybe <- Maybe, replaced <- displaced,
  base <- Base, request <- Request, stored <- Stored

\* Candidates, locks, generations and the order of the syncs implement a store that
\* is changed in one step, by a client who has seen what it replaces.
ImplementsStore == Store!Spec

-----------------------------------------------------------------------------
(* What a save in progress relies on; ProjectSaveProofs shows it inductive. *)

Holding == {"writer_locked", "verified"}
Flushed == {"candidate_synced", "writer_locked", "verified"}

\* A candidate is built by one save and is flushed before it can be published.
CandidateInv ==
  /\ \A s \in Session :
       /\ stage[s] \in Stage \ {"idle", "prepared"} => plan[s].candidate \in File
       /\ stage[s] = "candidate_reserved" => file[plan[s].candidate] = "partial"
       /\ stage[s] = "database_closed" => file[plan[s].candidate] = "whole"
       /\ stage[s] \in Flushed => file[plan[s].candidate] = "durable"
  /\ \A s, t \in Session :
       /\ {stage[s], stage[t]} \subseteq {"candidate_reserved", "database_closed"}
       /\ s # t
       => plan[s].candidate # plan[t].candidate

\* A writer lock belongs to the save that is publishing under it.
LockInv ==
  /\ \A p \in Path : lock[p] # NoSession =>
       stage[lock[p]] \in Holding /\ plan[lock[p]].destination = p
  /\ \A s \in Session : stage[s] \in Holding => lock[plan[s].destination] = s

\* A save of the active project is planned by its writer, who has accepted a
\* generation, and once verified nobody else changes that name.
AuthorityInv ==
  \A s \in Session :
    /\ active[s] # Memory => accepted[s] \in File
    /\ stage[s] # "idle" => outcome[s] = "none" /\ plan[s].destination \in Path
    /\ stage[s] \in Unpublished /\ plan[s].aliases =>
         active[s] = plan[s].destination /\ writable[s]
    /\ stage[s] = "verified" /\ plan[s].aliases => at[plan[s].destination] = accepted[s]
    /\ stage[s] \in Published /\ (plan[s].rebind \/ plan[s].aliases) =>
         /\ active[s] = plan[s].destination
         /\ accepted[s] = plan[s].candidate
         /\ writable[s]

IInv == Types /\ OldOrNew /\ CandidateInv /\ LockInv /\ AuthorityInv /\ PublicationRebinds
=============================================================================
