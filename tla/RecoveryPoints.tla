--------------------------- MODULE RecoveryPoints ---------------------------
(***************************************************************************)
(* The recovery points of one project in superi-project: the autosave      *)
(* controller (src/autosave.rs), which the host runs on its background     *)
(* thread, and the recovery controller (src/recovery.rs), which the engine *)
(* thread drives (superi-engine src/project_recovery.rs), share a          *)
(* directory and nothing else.  Another process on the same project may    *)
(* publish there too, a call may fail, the process may be killed and the   *)
(* machine may lose power between any two steps.                           *)
(*                                                                         *)
(* A recovery point is written once, under a generation nobody has; its    *)
(* complete content is the concern of ProjectSave.  The identity of a file *)
(* stands for its content and for the metadata the code compares.          *)
(***************************************************************************)
EXTENDS Naturals, FiniteSets

CONSTANTS Policy,         \* the autosave policies the host configures
          MaxGeneration,  \* the largest generation number
          MaxCollisions,  \* publications tried before autosave gives up
          MaxTime,        \* bound: time between two observations
          MaxFile         \* bound: recovery points that are ever published

ASSUME RecoveryAssumption ==
  /\ Policy \subseteq [enabled : BOOLEAN, interval : Nat \ {0}, retention : Nat \ {0}]
  /\ {MaxGeneration, MaxTime, MaxFile} \subseteq Nat
  /\ MaxCollisions \in Nat \ {0}

Generation == 1..MaxGeneration
File       == 1..MaxFile
NoFile     == 0
Names      == [Generation -> 0..MaxFile]
Unset      == [enabled |-> FALSE, interval |-> 0, retention |-> 0]

VARIABLES
  artifact, tombstone,    \* the directory: autosave-g<n>.superi and .autosave-dismissed-g<n>.superi
  disk,                   \* the directories a power loss may bring back
  named,                  \* named[f]: the generation f was published under, 0 if it was not yet
  policy, remaining, lastPeriodic,  \* the autosave controller; remaining: from last_elapsed to next_due
  stage, call,            \* its command in progress
  catalog, entries,       \* the recovery controller; its only ever compared with the one before, modulo 2
  step, choice,           \* its command in progress
  \* --- read by properties only ---
  fate                    \* fate[f]: autosave reported f as published, a dismissal took it or reported it

directory == << artifact, tombstone, disk >>
schedule  == << policy, remaining, lastPeriodic >>
autosave  == << schedule, stage, call >>
recovery  == << catalog, entries, step, choice >>
vars == << directory, named, autosave, recovery, fate >>

NoCall   == [op |-> "none", policy |-> Unset, current |-> FALSE, attempts |-> 0,
             generation |-> 0, file |-> NoFile, todo |-> {}]
NoPoint  == [generation |-> 0, file |-> NoFile]
NoNames  == [tombstones |-> {}, artifacts |-> {}]
NoChoice == [generation |-> 0, shown |-> NoFile, loaded |-> NoFile, names |-> NoNames,
             entries |-> [g \in Generation |-> NoFile],
             listed |-> [g \in Generation |-> NoFile]]
Empty    == [g \in Generation |-> NoFile]

Init ==
  /\ artifact = Empty /\ tombstone = Empty
  /\ disk = {<< Empty, Empty >>}
  /\ policy = Unset /\ remaining = 0 /\ lastPeriodic = NoPoint
  /\ stage = "idle" /\ call = NoCall
  /\ catalog = [revision |-> 0, listed |-> Empty]
  /\ entries = Empty
  /\ step = "idle" /\ choice = NoChoice
  /\ named = [f \in File |-> 0]
  /\ fate = [f \in File |-> "unknown"]

-----------------------------------------------------------------------------
(* The directory. *)

Managed == {g \in Generation : artifact[g] # NoFile}
Lowest(S) == CHOOSE g \in S : \A h \in S : g <= h
Above(S, g) == {h \in S : h > g}

\* A name is linked, renamed or removed: until the next sync a power loss may
\* bring back any of the directories there have been since the last one.
Change(a, t) ==
  /\ artifact' = a /\ tombstone' = t
  /\ disk' = disk \cup {<< a, t >>}

SyncDirectory ==
  /\ disk' = {<< artifact, tombstone >>}
  /\ UNCHANGED << artifact, tombstone >>

\* A tombstone is removed and the directory synced, if the sync does not fail.
Remove(g) ==
  LET gone == [tombstone EXCEPT ![g] = NoFile] IN
  \/ artifact' = artifact /\ tombstone' = gone /\ disk' = {<< artifact, gone >>}
  \/ Change(artifact, gone)

\* The generation after the highest there is.
NextGeneration == IF Managed = {} THEN 1 ELSE 1 + CHOOSE g \in Managed : Above(Managed, g) = {}

\* A recovery point appears under generation g.
Appear(f, g) ==
  /\ named[f] = 0 /\ \A h \in 1..(f - 1) : named[h] # 0
  /\ Change([artifact EXCEPT ![g] = f], tombstone)
  /\ named' = [named EXCEPT ![f] = g]

-----------------------------------------------------------------------------
(* Commands of the autosave controller. *)

\* scheduled_deadline, as the time from the observation to the deadline.
Interval(p) == IF p.enabled THEN p.interval ELSE 0

\* All but the newest that a policy retains.
Surplus(n) == {g \in Managed : Cardinality(Above(Managed, g)) >= n}

\* prune_managed lists what it will remove first; with nothing to remove it is
\* over at once.
StartPrune(op, p) ==
  IF Surplus(p.retention) = {}
    THEN stage' = "idle" /\ call' = NoCall
    ELSE /\ stage' = "prune"
         /\ call' = [NoCall EXCEPT !.op = op, !.policy = p, !.todo = Surplus(p.retention)]

TakeOver(p) == policy' = p /\ remaining' = Interval(p)

\* configure prunes for the new policy before it takes it over.
Configure(p) ==
  /\ stage = "idle"
  /\ StartPrune("configure", p)
  /\ IF stage' = "idle" THEN TakeOver(p) ELSE UNCHANGED << policy, remaining >>
  /\ UNCHANGED << directory, named, lastPeriodic, recovery, fate >>

Prune ==
  /\ stage = "idle" /\ policy # Unset
  /\ StartPrune("prune", policy)
  /\ UNCHANGED << directory, named, schedule, recovery, fate >>

\* The time since the last observation has reached the deadline.
Due(time) == policy.enabled /\ time >= remaining

Observed(left) ==
  /\ stage = "idle" /\ policy # Unset
  /\ remaining' = left
  /\ UNCHANGED << directory, named, policy, lastPeriodic, stage, call, recovery, fate >>

\* A tick of a disabled policy, or before the deadline.
TickEarly(time) ==
  /\ ~Due(time)
  /\ Observed(IF policy.enabled THEN remaining - time ELSE 0)

\* The last periodic recovery point is of the project's revision (Moved forgets
\* one that is not) and still there.
PeriodicExists == lastPeriodic.generation \in Managed

TickUnchanged(time) ==
  /\ Due(time) /\ PeriodicExists
  /\ Observed(Interval(policy))

\* publish takes the next generation and saves without replacing anything.
Publish(op) ==
  /\ stage = "idle" /\ NextGeneration \in Generation
  /\ stage' = "link"
  /\ call' = [NoCall EXCEPT !.op = op, !.current = TRUE, !.generation = NextGeneration]
  /\ UNCHANGED << directory, named, schedule, recovery, fate >>

TickDue(time) == Due(time) /\ ~PeriodicExists /\ Publish("tick")

SaveNow == policy # Unset /\ Publish("save_now")

-----------------------------------------------------------------------------
(* Their steps. *)

Link ==
  /\ stage = "link" /\ call.generation \notin Managed
  /\ \E f \in File :
       /\ Appear(f, call.generation)
       /\ call' = [call EXCEPT !.file = f, !.attempts = 0]
  /\ stage' = "linked"
  /\ UNCHANGED << schedule, recovery, fate >>

\* A conflict: scan and try again, up to the bound.
Collide ==
  /\ stage = "link" /\ call.generation \in Managed
  /\ call.attempts + 1 < MaxCollisions /\ NextGeneration \in Generation
  /\ call' = [call EXCEPT !.attempts = @ + 1, !.generation = NextGeneration]
  /\ UNCHANGED << directory, named, schedule, stage, recovery, fate >>

PointPublished ==
  /\ fate' = IF fate[call.file] = "unknown" THEN [fate EXCEPT ![call.file] = "published"] ELSE fate
  /\ remaining' = Interval(policy)
  /\ lastPeriodic' = IF call.op # "tick" THEN lastPeriodic
                     ELSE IF call.current THEN [generation |-> call.generation, file |-> call.file]
                     ELSE NoPoint

\* The save has synced the directory: the recovery point is published, and the
\* schedule moves on before anything is pruned.
Published_Unsynced ==
  /\ stage = "linked" /\ call.generation \in Managed
  /\ StartPrune("prune", policy)
  /\ PointPublished
  /\ UNCHANGED << directory, named, policy, recovery >>
Published ==
  /\ stage = "linked" /\ call.generation \in Managed
  /\ SyncDirectory
  /\ PointPublished
  /\ StartPrune("prune", policy)
  /\ UNCHANGED << named, policy, recovery >>

\* remove_file; it fails, and the prune with it, if the name is gone.
PruneOldest ==
  LET g == Lowest(call.todo) IN
  /\ stage = "prune" /\ call.todo # {} /\ g \in Managed
  /\ Change([artifact EXCEPT ![g] = NoFile], tombstone)
  /\ call' = [call EXCEPT !.todo = @ \ {g}]
  /\ UNCHANGED << named, schedule, stage, recovery, fate >>

PruneDone ==
  /\ stage = "prune" /\ call.todo = {}
  /\ SyncDirectory
  /\ IF call.op = "configure" THEN TakeOver(call.policy) ELSE UNCHANGED << policy, remaining >>
  /\ stage' = "idle" /\ call' = NoCall
  /\ UNCHANGED << named, lastPeriodic, recovery, fate >>

\* Any call of publish or of prune_managed fails, or the generations or the
\* attempts are used up; what was done stays, what was not taken over is not.
Fail ==
  /\ stage # "idle"
  /\ stage' = "idle" /\ call' = NoCall
  /\ UNCHANGED << directory, named, schedule, recovery, fate >>

-----------------------------------------------------------------------------
(* The recovery controller: discover. *)

AutosaveKept == UNCHANGED << named, autosave >>

\* read_dir: the names there are now; a missing directory shows none.
Discover ==
  /\ step = "idle"
  /\ step' = "names"
  /\ choice' = [NoChoice EXCEPT
       !.names = [tombstones |-> {g \in Generation : tombstone[g] # NoFile}, artifacts |-> Managed]]
  /\ AutosaveKept
  /\ UNCHANGED << directory, catalog, entries, fate >>

\* A tombstone is removed and the directory synced; a failure is a finding.
DropTombstone ==
  LET left == choice.names.tombstones
      g == Lowest(left)
  IN
  /\ step = "names" /\ left # {}
  /\ choice' = [choice EXCEPT !.names.tombstones = left \ {g}]
  /\ Remove(g) \/ UNCHANGED directory
  /\ AutosaveKept
  /\ UNCHANGED << step, catalog, entries, fate >>

\* The identity of a candidate is taken before it is read.
Identify ==
  LET left == choice.names.artifacts
      g == Lowest(left)
  IN
  /\ step = "names" /\ choice.names.tombstones = {} /\ left # {} /\ g \in left \cap Managed
  /\ step' = "identified"
  /\ choice' = [choice EXCEPT !.generation = g, !.entries[g] = artifact[g],
                              !.names.artifacts = left \ {g}]
  /\ AutosaveKept
  /\ UNCHANGED << directory, catalog, entries, fate >>

\* A candidate that cannot be read is a finding instead.
Inspect ==
  LET g == choice.generation IN
  /\ step = "identified"
  /\ step' = "names"
  /\ choice' \in {choice, [choice EXCEPT !.listed[g] = artifact[g]]}
  /\ AutosaveKept
  /\ UNCHANGED << directory, catalog, entries, fate >>

\* publish_catalog: the revision moves if what is listed or an identity has
\* changed; candidates of two files may look the same, and findings, that are
\* left out, may move it as well.
Listed(c) == {g \in Generation : c.listed[g] # NoFile}
CatalogChanged == Listed(choice) # Listed(catalog) \/ choice.entries # entries

NextRevision == (catalog.revision + 1) % 2

PublishCatalog ==
  /\ step = "names" /\ choice.names = NoNames
  /\ \E next \in {catalog.revision, NextRevision} :
       /\ CatalogChanged => next # catalog.revision
       /\ catalog' = [revision |-> next, listed |-> choice.listed]
  /\ entries' = choice.entries
  /\ step' = "idle" /\ choice' = NoChoice
  /\ AutosaveKept
  /\ UNCHANGED << directory, fate >>

-----------------------------------------------------------------------------
(* Restore and dismiss, of a generation picked from the catalogue. *)

\* revalidated_entry: the file is still the one the catalogue knows.
Revalidated(g) == entries[g] # NoFile /\ artifact[g] = entries[g]

\* load_candidate_for_restore checks the file and then reads it.
Restore(g) ==
  /\ step = "idle" /\ Revalidated(g)
  /\ step' = "checked"
  /\ choice' = [NoChoice EXCEPT !.generation = g, !.shown = catalog.listed[g]]
  /\ AutosaveKept
  /\ UNCHANGED << directory, catalog, entries, fate >>

LoadCandidate ==
  LET g == choice.generation IN
  /\ step = "checked" /\ g \in Managed
  /\ step' = "loaded" /\ choice' = [choice EXCEPT !.loaded = artifact[g]]
  /\ AutosaveKept
  /\ UNCHANGED << directory, catalog, entries, fate >>

\* The project has a new revision: the last periodic recovery point, and the one
\* that is being published, are not of it and never will be again.
Moved == lastPeriodic' = NoPoint /\ call' = [call EXCEPT !.current = FALSE]

\* compare checks the file again, and reads it for the report; the open project
\* takes the content over, under a new revision unless it is the same.
Adopt ==
  /\ Moved \/ UNCHANGED << lastPeriodic, call >>
  /\ step' = "idle" /\ choice' = NoChoice
  /\ UNCHANGED << directory, named, policy, remaining, stage, catalog, entries, fate >>
CommitRestore_NotCompared == step = "loaded" /\ Adopt
CommitRestore == step = "loaded" /\ Revalidated(choice.generation) /\ Adopt

Dismiss(g) ==
  /\ step = "idle"
  /\ Revalidated(g) /\ tombstone[g] = NoFile
  /\ step' = "reserved" /\ choice' = [NoChoice EXCEPT !.generation = g]
  /\ AutosaveKept
  /\ UNCHANGED << directory, catalog, entries, fate >>

\* fs::rename takes whatever the name is by now.
Entomb ==
  LET g == choice.generation IN
  /\ step = "reserved" /\ g \in Managed
  /\ Change([artifact EXCEPT ![g] = NoFile], [tombstone EXCEPT ![g] = artifact[g]])
  /\ fate' = [fate EXCEPT ![artifact[g]] = "taken"]
  /\ step' = "renamed"
  /\ AutosaveKept
  /\ UNCHANGED << catalog, entries, choice >>

SyncTombstone ==
  /\ step = "renamed" /\ step' = "entombed"
  /\ SyncDirectory
  /\ AutosaveKept
  /\ UNCHANGED << catalog, entries, choice, fate >>

\* The tombstone is removed and the directory synced; a failure is a finding,
\* the dismissal stands.
Bury ==
  LET g == choice.generation IN
  /\ step = "entombed"
  /\ Remove(g) \/ UNCHANGED directory
  /\ catalog' = [revision |-> NextRevision, listed |-> [catalog.listed EXCEPT ![g] = NoFile]]
  /\ entries' = [entries EXCEPT ![g] = NoFile]
  /\ fate' = [fate EXCEPT ![tombstone[g]] = "dismissed"]
  /\ step' = "idle" /\ choice' = NoChoice
  /\ AutosaveKept

\* A call fails, a file is gone or has changed, or the project does not take it.
GiveUp ==
  /\ step # "idle"
  /\ step' = "idle" /\ choice' = NoChoice
  /\ AutosaveKept
  /\ UNCHANGED << directory, catalog, entries, fate >>

-----------------------------------------------------------------------------
(* The rest of the system. *)

\* The engine thread runs one command at a time.
Edit ==
  /\ step = "idle"
  /\ Moved
  /\ UNCHANGED << directory, named, policy, remaining, stage, recovery, fate >>

\* Another process on the same project publishes the next generation, or
\* dismisses one.
PublishedElsewhere ==
  /\ NextGeneration \in Generation
  /\ \E f \in File : Appear(f, NextGeneration)
  /\ UNCHANGED << autosave, recovery, fate >>

DismissedElsewhere(g) ==
  /\ g \in Managed
  /\ Change([artifact EXCEPT ![g] = NoFile], tombstone)
  /\ fate' = [fate EXCEPT ![artifact[g]] = "taken"]
  /\ UNCHANGED << named, autosave, recovery >>

Restarted ==
  /\ policy' = Unset /\ remaining' = 0 /\ lastPeriodic' = NoPoint
  /\ stage' = "idle" /\ call' = NoCall
  /\ catalog' = [revision |-> 0, listed |-> Empty]
  /\ entries' = Empty
  /\ step' = "idle" /\ choice' = NoChoice
  /\ UNCHANGED << named, fate >>

Killed ==
  /\ policy # Unset \/ stage # "idle" \/ step # "idle"
  /\ Restarted
  /\ UNCHANGED directory

\* The directory comes back as it was at some moment since its last sync.
PowerLoss ==
  /\ \E d \in disk :
       artifact' = d[1] /\ tombstone' = d[2] /\ disk' = {d}
  /\ Restarted

AutosaveStep ==
  \/ \E p \in Policy : Configure(p)
  \/ \E time \in 0..MaxTime : TickEarly(time) \/ TickUnchanged(time) \/ TickDue(time)
  \/ SaveNow \/ Prune
  \/ Link \/ Collide \/ Published \/ PruneOldest \/ PruneDone \/ Fail

RecoveryStep ==
  \/ Discover \/ DropTombstone \/ Identify \/ Inspect \/ PublishCatalog
  \/ \E g \in Generation : Restore(g) \/ Dismiss(g)
  \/ LoadCandidate \/ CommitRestore
  \/ Entomb \/ SyncTombstone \/ Bury
  \/ GiveUp

Next ==
  \/ AutosaveStep
  \/ RecoveryStep
  \/ Edit
  \/ PublishedElsewhere
  \/ \E g \in Generation : DismissedElsewhere(g)
  \/ Killed
  \/ PowerLoss

Spec == Init /\ [][Next]_vars

-----------------------------------------------------------------------------
(* Properties. *)

Stages == {"idle", "link", "linked", "prune"}
Steps  == {"idle", "names", "identified", "checked", "loaded", "reserved", "renamed", "entombed"}

Point == [generation : 0..MaxGeneration, file : 0..MaxFile]
Call  == [op : {"none", "configure", "prune", "tick", "save_now"}, policy : Policy \cup {Unset},
          current : BOOLEAN, attempts : 0..(MaxCollisions - 1),
          generation : 0..MaxGeneration, file : 0..MaxFile, todo : SUBSET Generation]
Choice == [generation : 0..MaxGeneration, shown : 0..MaxFile, loaded : 0..MaxFile,
           names : [tombstones : SUBSET Generation, artifacts : SUBSET Generation],
           entries : Names, listed : Names]

DirectoryOK ==
  /\ artifact \in Names /\ tombstone \in Names
  /\ disk \subseteq Names \X Names /\ << artifact, tombstone >> \in disk
  /\ named \in [File -> 0..MaxGeneration]
  /\ fate \in [File -> {"unknown", "published", "taken", "dismissed"}]

AutosaveOK ==
  /\ policy \in Policy \cup {Unset} /\ lastPeriodic \in Point
  /\ remaining \in 0..Interval(policy)
  /\ stage \in Stages /\ call \in Call
  /\ stage = "link" => call.generation \in Generation

RecoveryOK ==
  /\ catalog \in [revision : {0, 1}, listed : Names] /\ entries \in Names
  /\ step \in Steps /\ choice \in Choice

\* The state stays in its ranges, the deadline is never further away than the
\* policy's interval, and the directory there is is one that a power loss may
\* bring back.
TypeOK == DirectoryOK /\ AutosaveOK /\ RecoveryOK

Present(d) == {d[1][g] : g \in Generation} \ {NoFile}

LeastRetention == CHOOSE n \in {p.retention : p \in Policy} : \A p \in Policy : n <= p.retention

With(fates) == {f \in File : fate[f] \in fates}
Taken == With({"taken", "dismissed"})

\* A recovery point is gone for good reason: a dismissal took it, or there are,
\* or a dismissal took, as many higher generations as any policy retains.
Superseded(f, d) ==
  \/ f \in Taken
  \/ Cardinality({h \in Present(d) \cup Taken : named[h] > named[f]}) >= LeastRetention

\* What the controllers report stays true whatever instant the machine stops
\* at: what autosave reported as published is there, unless it was dismissed or
\* pruned for newer ones; what recovery reported as dismissed does not come back.
ReportsAreEvidence ==
  \A d \in disk :
    /\ \A f \in With({"published"}) : f \in Present(d) \/ Superseded(f, d)
    /\ With({"dismissed"}) \cap Present(d) = {}

\* A restore takes over the candidate that the catalogue of the revision the user
\* gave listed, although it is checked and read by name, and pruned, dismissed and
\* published names are used again meanwhile.
RestoresWhatWasListed ==
  /\ [][CommitRestore /\ choice.shown # NoFile => choice.loaded = choice.shown]_vars
  /\ [][catalog'.revision = catalog.revision /\ ~Restarted
         => entries' = entries /\ Listed(catalog') = Listed(catalog)]_vars
=============================================================================
