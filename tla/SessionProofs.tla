---------------------------- MODULE SessionProofs ----------------------------
(* Theorems about the two modules of superi-session.                       *)
(*                                                                         *)
(* ApplicationLifecycle: a lifetime begins only for the request that asked *)
(* for it, whatever the number of clients.  The engine thread restarts     *)
(* because of the intent it finds and not because of a request: what has to*)
(* be kept is that an intent somebody asked for is that of the last request*)
(* that returned, except while a client is in the middle of its own.       *)
(*                                                                         *)
(* EditorSession: what an answer says of an edit is true of the file, for  *)
(* any edits and any capacity of the channel.  What has to be kept is that *)
(* a command is in one place only, at the end of its queue, and that the   *)
(* session's memory is ahead of the file by that command and nothing else. *)
EXTENDS ApplicationLifecycle, EditorSession, FiniteSetTheorems, TLAPS

\* Nobody here asks for pauses or for sleep, so that a wake would lead to normal work.
Reachable ==
  /\ phase \in {"starting", "running", "stopping", "stopped", "failed"}
  /\ wakeTarget = "running"

IntentIsAsked ==
  /\ owner = NoOne /\ intent \in Requested => asked = intent
  /\ \A c \in Client : owner = c =>
       /\ intent \in Requested
       /\ call[c].state = "locked"
       /\ call[c].previous \in Requested => asked = call[c].previous

\* The generation is the newest that was started, or one to come.
StartedBehind == started <= generation

CoordOK == Coordinator!TypeOK /\ Reachable
IInv == CoordOK /\ LocalOK /\ IntentIsAsked /\ StartedBehind

-----------------------------------------------------------------------------
(* The coordinator with one participant. *)

\* A shutdown never leads back to starting.
LEMMA ShutDownTypes ==
  ASSUME CoordOK, ShutDownCoordinator
  PROVE  CoordOK' /\ (phase' = "starting" => phase = "starting")
  BY ApplicationAssumption
  DEF CoordOK, ShutDownCoordinator, Reachable, coord, Coordinator!TypeOK, Coordinator!RequestShutdown,
      Coordinator!Begin, Coordinator!Publish, Coordinator!Completed, Coordinator!Phase,
      Coordinator!Transitional, Coordinator!Stable, Coordinator!Intent

LEMMA RestartTypes ==
  ASSUME CoordOK, RestartCoordinator
  PROVE  CoordOK'
  BY ApplicationAssumption
  DEF CoordOK, RestartCoordinator, Reachable, Coordinator!TypeOK, Coordinator!RequestRestart,
      Coordinator!Begin, Coordinator!Publish, Coordinator!Completed, Coordinator!Intend, Coordinator!Phase,
      Coordinator!Transitional, Coordinator!Stable, Coordinator!Intent

LEMMA AcknowledgeTypes ==
  ASSUME CoordOK, Coordinator!Acknowledge(Engine)
  PROVE  /\ CoordOK'
         /\ phase' = phase \/ phase' \in {"running", "stopped"}
         /\ revision < MaxRevision => phase' \in {"running", "stopped"}
  BY ApplicationAssumption
  DEF CoordOK, Reachable, Coordinator!TypeOK, Coordinator!Acknowledge, Coordinator!CompleteTransition,
      Coordinator!Publish, Coordinator!Completed, Coordinator!Current, Coordinator!Phase,
      Coordinator!Transitional, Coordinator!Stable, Coordinator!Intent

LEMMA FailTypes ==
  ASSUME CoordOK, Coordinator!Fail(Engine)
  PROVE  CoordOK' /\ phase' = "failed"
  BY ApplicationAssumption
  DEF CoordOK, Reachable, Coordinator!TypeOK, Coordinator!Fail, Coordinator!Publish, Coordinator!Phase,
      Coordinator!Transitional, Coordinator!Stable, Coordinator!Intent

LEMMA LocksOnly ==
  ASSUME CoordOK, UNCHANGED coord
  PROVE  CoordOK'
  BY DEF CoordOK, Reachable, coord, Coordinator!TypeOK

-----------------------------------------------------------------------------
(* The invariant. *)

\* The application starts in normal operation with nobody in the owner mutex.
LEMMA InitIInv == Init => IInv
  <1> SUFFICES ASSUME Init PROVE IInv
    OBVIOUS
  <1>1. CoordOK
    BY ApplicationAssumption
    DEF Init, Coordinator!Init, CoordOK, Reachable, Coordinator!TypeOK, Coordinator!Phase,
        Coordinator!Transitional, Coordinator!Stable, Coordinator!Intent
  <1>2. LocalOK
    BY DEF Init, LocalOK, Idle, Call, Goal
  <1>3. IntentIsAsked /\ StartedBehind
    BY ApplicationAssumption DEF Init, IntentIsAsked, StartedBehind, Requested
  <1> QED
    BY <1>1, <1>2, <1>3 DEF IInv

\* What a client does.
LEMMA ClientKeeps ==
  ASSUME IInv, NEW c \in Client, ClientStep(c)
  PROVE  IInv'
  <1>1. CASE CheckRecovery(c)
    <2>1. CoordOK'
      BY <1>1, LocksOnly DEF CheckRecovery, IInv
    <2>2. LocalOK' /\ IntentIsAsked' /\ StartedBehind'
      BY <1>1 DEF CheckRecovery, IInv, LocalOK, IntentIsAsked, StartedBehind, own, eng, Call, Idle
    <2> QED
      BY <2>1, <2>2 DEF IInv
  <1>2. ASSUME NEW goal \in Requested, BeginIntent(c, goal) PROVE IInv'
    <2>1. CoordOK'
      BY <1>2, LocksOnly DEF BeginIntent, IInv
    <2>2. phase \in Coordinator!Phase
      BY DEF IInv, CoordOK, Coordinator!TypeOK
    <2>3. LocalOK'
      BY <1>2, <2>2 DEF BeginIntent, IInv, LocalOK, eng, Call, Goal, Requested
    <2>4. IntentIsAsked' /\ StartedBehind'
      BY <1>2, ApplicationAssumption DEF BeginIntent, IInv, LocalOK, IntentIsAsked, StartedBehind, eng
    <2> QED
      BY <2>1, <2>3, <2>4 DEF IInv
  <1>3. CASE EndIntent(c)
    <2>1. CoordOK'
      BY <1>3, ShutDownTypes, RestartTypes DEF EndIntent, IInv
    <2>2. generation' \in Nat /\ generation' >= generation
      BY <1>3 DEF EndIntent, NextGeneration, IInv, LocalOK
    <2>3. started' \in {started, generation'}
      BY <1>3 DEF EndIntent, NoteStart
    <2>4. LocalOK' /\ StartedBehind'
      BY <1>3, <2>2, <2>3 DEF EndIntent, IInv, LocalOK, StartedBehind, IntentIsAsked, eng, Call, Idle
    <2>5. IntentIsAsked'
      BY <1>3, ApplicationAssumption DEF EndIntent, IInv, IntentIsAsked
    <2> QED
      BY <2>1, <2>4, <2>5 DEF IInv
  <1>4. CASE AbandonIntent(c)
    <2>1. CoordOK'
      BY <1>4 DEF AbandonIntent, IInv, CoordOK, Reachable, Coordinator!TypeOK
    <2>2. call[c].previous \in Goal
      BY <1>4 DEF AbandonIntent, IInv, IntentIsAsked, LocalOK, Call
    <2>3. LocalOK'
      BY <1>4, <2>2 DEF AbandonIntent, IInv, LocalOK, eng, Call, Idle
    <2>4. IntentIsAsked' /\ StartedBehind'
      BY <1>4, ApplicationAssumption DEF AbandonIntent, IInv, IntentIsAsked, StartedBehind
    <2> QED
      BY <2>1, <2>3, <2>4 DEF IInv
  <1> QED
    BY <1>1, <1>2, <1>3, <1>4 DEF ClientStep

\* What the engine thread does without the owner mutex.
LEMMA ThreadKeeps ==
  ASSUME IInv, Poll \/ Link \/ TearDown \/ EngineFails \/ AcknowledgeObserved \/ Disconnected
  PROVE  IInv'
  <1>1. CoordOK'
    <2>1. CASE Poll
      BY <2>1 DEF Poll, IInv, CoordOK, Reachable, Coordinator!TypeOK
    <2>2. CASE Link \/ TearDown
      BY <2>2, LocksOnly DEF Link, TearDown, IInv
    <2>3. CASE EngineFails \/ Disconnected
      BY <2>3, FailTypes, LocksOnly DEF EngineFails, Disconnected, IInv
    <2>4. CASE AcknowledgeObserved
      BY <2>4, AcknowledgeTypes, LocksOnly DEF AcknowledgeObserved, IInv
    <2> QED
      BY <2>1, <2>2, <2>3, <2>4
  <1>2. /\ UNCHANGED << owner, intent, generation, call, asked, started >>
        /\ terminal' \in BOOLEAN /\ linked' \in BOOLEAN
    BY DEF Poll, Link, TearDown, EngineFails, AcknowledgeObserved, Disconnected, own, eng, IInv, LocalOK
  <1>3. acknowledged' \in {"none", "running", "stopped"}
    BY AcknowledgeTypes
    DEF Poll, Link, TearDown, EngineFails, AcknowledgeObserved, Disconnected, eng, IInv, LocalOK
  <1>4. at' \in {"poll", "link", "teardown", "acknowledge", "after", "exited"}
    BY DEF Poll, Turn, Link, TearDown, EngineFails, AcknowledgeObserved, Disconnected, IInv, LocalOK
  <1> QED
    BY <1>1, <1>2, <1>3, <1>4 DEF IInv, LocalOK, IntentIsAsked, StartedBehind

\* What it does under the owner mutex.
LEMMA AfterKeeps ==
  ASSUME IInv, AfterAcknowledgement
  PROVE  IInv'
  <1>1. CoordOK'
    <2>1. CASE failure' = NoFailure /\ UNCHANGED << phase, revision, pending, wakeTarget, signal, seen, acked, intended >>
      BY <2>1 DEF IInv, CoordOK, Reachable, Coordinator!TypeOK
    <2> QED
      BY <2>1, RestartTypes, LocksOnly DEF AfterAcknowledgement, IInv
  <1>2. generation' \in Nat /\ generation' >= generation
    BY DEF AfterAcknowledgement, NextGeneration, IInv, LocalOK
  <1>3. started' \in {started, generation'}
    BY DEF AfterAcknowledgement, NoteStart
  <1>4. intent' \in {intent, "run"} /\ owner = NoOne
    BY DEF AfterAcknowledgement, GoalReached
  <1>5. LocalOK' /\ StartedBehind'
    BY <1>2, <1>3, <1>4 DEF AfterAcknowledgement, IInv, LocalOK, StartedBehind, Goal
  <1>6. IntentIsAsked'
    BY <1>4, ApplicationAssumption DEF AfterAcknowledgement, IInv, IntentIsAsked, Requested
  <1> QED
    BY <1>1, <1>5, <1>6 DEF IInv

\* Clients and engine thread together.
LEMMA StepIInv == IInv /\ [Next]_vars => IInv'
  <1> SUFFICES ASSUME IInv, [Next]_vars PROVE IInv'
    OBVIOUS
  <1>1. CASE UNCHANGED vars
    <2>1. CoordOK'
      BY <1>1, LocksOnly DEF vars, IInv
    <2> QED
      BY <1>1, <2>1 DEF vars, own, eng, IInv, LocalOK, IntentIsAsked, StartedBehind
  <1> QED
    BY <1>1, ClientKeeps, ThreadKeeps, AfterKeeps DEF Next, EngineThread

\* Every step of the clients and of run_engine_control keeps the invariant.
THEOREM Inductive == Spec => []IInv
  BY InitIInv, StepIInv, PTL DEF Spec

-----------------------------------------------------------------------------
(* Every value the two halves of the application's lifecycle can take.       *)
THEOREM TypeCorrect == Spec => []TypeOK
  <1>1. IInv => TypeOK
    BY DEF IInv, CoordOK, LocalOK, TypeOK
  <1> QED
    BY <1>1, Inductive, PTL

(* A lifetime begins only if the last request that returned asked for one,   *)
(* and in a generation that no earlier lifetime had, however clients and the *)
(* engine thread overlap between the two mutexes.                            *)
THEOREM StartsAsAsked == Spec => StartsOnlyIfAsked
  <1>1. IInv /\ [Next]_vars => [phase' = "starting" /\ phase # "starting"
                                => asked' \in Again /\ generation' > started]_vars
    <2> SUFFICES ASSUME IInv, Next, phase' = "starting", phase # "starting"
                 PROVE  asked' \in Again /\ generation' > started
      BY DEF vars, coord
    <2>1. ASSUME NEW c \in Client, ClientStep(c) PROVE asked' \in Again /\ generation' > started
      <3>1. EndIntent(c)
        BY <2>1 DEF ClientStep, CheckRecovery, BeginIntent, AbandonIntent, coord
      <3>2. ~ShutDownCoordinator
        BY ShutDownTypes DEF IInv
      <3> QED
        BY <3>1, <3>2 DEF EndIntent, NextGeneration, IInv, StartedBehind, LocalOK
    <2>2. CASE EngineThread \/ Disconnected
      <3>1. CASE AfterAcknowledgement
        <4>1. RestartDue /\ generation' = generation + 1 /\ asked' = asked /\ owner = NoOne
          BY <3>1 DEF AfterAcknowledgement, coord, NextGeneration
        <4>2. asked = intent /\ intent \in Again
          BY <4>1 DEF RestartDue, Again, Requested, IInv, IntentIsAsked
        <4> QED
          BY <4>1, <4>2 DEF IInv, StartedBehind, LocalOK
      <3>2. CASE EngineFails \/ Disconnected
        BY <3>2, FailTypes DEF EngineFails, Disconnected, IInv, coord
      <3>3. CASE AcknowledgeObserved
        BY <3>3, AcknowledgeTypes DEF AcknowledgeObserved, IInv, coord
      <3> QED
        BY <2>2, <3>1, <3>2, <3>3 DEF EngineThread, Poll, Link, TearDown, coord
    <2> QED
      BY <2>1, <2>2 DEF Next
  <1> QED
    BY <1>1, Inductive, PTL DEF Spec, StartsOnlyIfAsked

-----------------------------------------------------------------------------
(* The coordinator's part of the application is a Lifecycle of one participant. *)

\* A request, an acknowledgement or a failure is one step of the coordinator; one
\* that is refused for want of revisions is a step that changes no phase.
LEMMA CoordinatorStep == IInv /\ [Next]_vars => [Coordinator!Next]_(Coordinator!vars)
  <1> SUFFICES ASSUME IInv, [Next]_vars PROVE Coordinator!Next \/ UNCHANGED Coordinator!vars
    OBVIOUS
  <1>1. wakeTarget = "running" /\ revision \in 0 .. MaxRevision
    BY DEF IInv, CoordOK, Reachable, Coordinator!TypeOK
  <1>2. UNCHANGED coord => UNCHANGED Coordinator!vars
    BY DEF coord, Coordinator!vars, Coordinator!coordVars
  <1>3. Coordinator!Fail(Engine) \/ Coordinator!Acknowledge(Engine) => Coordinator!Next
    BY DEF Coordinator!Next, Coordinator!ParticipantStep
  <1>4. ShutDownCoordinator \/ RestartCoordinator => Coordinator!Next \/ UNCHANGED Coordinator!vars
    BY <1>2 DEF ShutDownCoordinator, RestartCoordinator, Coordinator!Next, Coordinator!Request
  <1>5. ASSUME phase = "stopped", revision = MaxRevision, failure' = NoFailure,
               UNCHANGED << phase, revision, pending, wakeTarget, signal, seen, acked, intended >>
        PROVE  Coordinator!Next
    <2>1. Coordinator!RequestRestart
      BY <1>1, <1>5, ApplicationAssumption
      DEF Coordinator!RequestRestart, Coordinator!Begin, Coordinator!Intend
    <2> QED
      BY <2>1 DEF Coordinator!Next, Coordinator!Request
  <1>6. ASSUME NEW c \in Client, ClientStep(c) PROVE Coordinator!Next \/ UNCHANGED Coordinator!vars
    <2>1. CASE CheckRecovery(c) \/ \E goal \in Requested : BeginIntent(c, goal)
      BY <1>2, <2>1 DEF CheckRecovery, BeginIntent
    <2>2. CASE EndIntent(c)
      BY <1>4, <2>2 DEF EndIntent
    <2>3. CASE AbandonIntent(c)
      BY <1>2, <1>5, <2>3 DEF AbandonIntent, coord
    <2> QED
      BY <1>6, <2>1, <2>2, <2>3 DEF ClientStep
  <1>7. CASE Poll
    BY <1>7 DEF Poll, Coordinator!Next, Coordinator!ParticipantStep, Coordinator!Load, Coordinator!vars,
                Coordinator!coordVars, IInv, CoordOK, Coordinator!TypeOK
  <1>8. CASE Link \/ TearDown \/ EngineFails \/ Disconnected \/ AcknowledgeObserved
    BY <1>2, <1>3, <1>8 DEF Link, TearDown, EngineFails, Disconnected, AcknowledgeObserved
  <1>9. CASE AfterAcknowledgement
    BY <1>2, <1>4, <1>5, <1>9 DEF AfterAcknowledgement
  <1>10. CASE UNCHANGED vars
    BY <1>2, <1>10 DEF vars
  <1> QED
    BY <1>6, <1>7, <1>8, <1>9, <1>10 DEF Next, EngineThread

\* The application uses the coordinator as Lifecycle describes it, refusals at the
\* last revision included.
THEOREM ImplementsCoordinator == Spec => Coordinator!Spec
  <1>1. Init => Coordinator!Init
    BY DEF Init
  <1> QED
    BY <1>1, CoordinatorStep, Inductive, PTL DEF Spec, Coordinator!Spec

Facts == INSTANCE LifecycleProofs WITH Participant <- {Engine}

\* Facts is the coordinator, with what LifecycleProofs shows of it.
LEMMA SameCoordinator ==
  /\ Coordinator!Spec => Facts!Spec
  /\ Facts!Unanimous => Coordinator!Unanimous
  /\ Facts!FailureEndsLifetime => Coordinator!FailureEndsLifetime
  /\ Facts!RevisionCoversChanges => Coordinator!RevisionCoversChanges
  <1>1. Coordinator!Spec => Facts!Spec
    <2>1. Coordinator!Init => Facts!Init
      BY DEF Coordinator!Init, Facts!Init
    <2>2. [Coordinator!Next]_(Coordinator!vars) => [Facts!Next]_(Facts!vars)
      BY DEF Coordinator!Next, Coordinator!Request, Coordinator!RequestPause,
          Coordinator!RequestResume, Coordinator!RequestSleep, Coordinator!RequestWake,
          Coordinator!RequestShutdown, Coordinator!RequestRestart,
          Coordinator!ParticipantStep, Coordinator!Load, Coordinator!Acknowledge,
          Coordinator!Fail, Coordinator!Begin, Coordinator!Publish, Coordinator!Intend,
          Coordinator!Completed, Coordinator!Current, Coordinator!CompleteTransition,
          Coordinator!Transitional, Coordinator!vars, Coordinator!coordVars, Facts!Next,
          Facts!Request, Facts!RequestPause, Facts!RequestResume, Facts!RequestSleep,
          Facts!RequestWake, Facts!RequestShutdown, Facts!RequestRestart,
          Facts!ParticipantStep, Facts!Load, Facts!Acknowledge, Facts!Fail, Facts!Begin,
          Facts!Publish, Facts!Intend, Facts!Completed, Facts!Current,
          Facts!CompleteTransition, Facts!Transitional, Facts!vars, Facts!coordVars
    <2> QED
      BY <2>1, <2>2, PTL DEF Coordinator!Spec, Facts!Spec
  <1>2. Facts!Unanimous => Coordinator!Unanimous
    BY DEF Coordinator!Unanimous, Coordinator!Transitional, Coordinator!Stable,
           Facts!Unanimous, Facts!Transitional, Facts!Stable
  <1>3. Facts!FailureEndsLifetime => Coordinator!FailureEndsLifetime
    BY DEF Coordinator!FailureEndsLifetime, Facts!FailureEndsLifetime
  <1>4. Facts!RevisionCoversChanges => Coordinator!RevisionCoversChanges
    BY PTL DEF Coordinator!RevisionCoversChanges, Coordinator!vars, Coordinator!coordVars,
               Facts!RevisionCoversChanges, Facts!vars, Facts!coordVars
  <1> QED
    BY <1>1, <1>2, <1>3, <1>4

\* So what LifecycleProofs shows of every lifecycle is true of the application's:
\* the engine is not taken for running or for stopped by an acknowledgement of an
\* older phase, a failure is not forgotten before the next restart, and a revision
\* stands for one phase and one failure.
THEOREM ApplicationLifecycleIsSound ==
  Spec => [](Coordinator!Unanimous /\ Coordinator!FailureEndsLifetime)
            /\ Coordinator!RevisionCoversChanges
  <1>1. Facts!Spec => []Facts!Unanimous
    BY Facts!AcknowledgedByAll, ApplicationAssumption
  <1>2. Facts!Spec => []Facts!FailureEndsLifetime
    BY Facts!FailureIsFinal, ApplicationAssumption
  <1>3. Facts!Spec => Facts!RevisionCoversChanges
    BY Facts!NoABA, ApplicationAssumption
  <1> QED
    BY <1>1, <1>2, <1>3, SameCoordinator, ImplementsCoordinator, PTL

-----------------------------------------------------------------------------
(* EditorSession. *)

WorkIsTaken == work = None <=> serving = "idle"

NewestHoldsLease ==
  /\ lease # None =>
       \/ reply = None /\ queue # << >> /\ queue[Len(queue)] = lease
       \/ reply = None /\ queue = << >> /\ work = lease
       \/ reply # None /\ queue = << >> /\ work = None
  /\ \A i \in 1 .. Len(queue) : queue[i].edit # None => i = Len(queue) /\ queue[i] = lease
  /\ work # None /\ work.edit # None => queue = << >> /\ work = lease

InFlight ==
  lease # None =>
    /\ file \in during
    /\ reply # None /\ reply.result = "ok" /\ lease.edit = None => reply.project \in during
    /\ lease.edit # None =>
         /\ fate[lease.edit] = "unmade"
         /\ lease.edit \in file => reply # None /\ reply.result # "refused"
         /\ reply # None /\ reply.result = "ok" => lease.edit \in file

SessionKept ==
  /\ session = None => serving \in {"idle", "find"}
  /\ session # None =>
       session.memory = IF serving \in {"open", "replace"} THEN session.durable \cup {work.edit}
                        ELSE session.durable
  /\ serving \in {"open", "replace"} => work.edit # None
  /\ serving = "execute" /\ lease # None /\ queue = << >> => session.durable \in during

Places == WorkIsTaken /\ NewestHoldsLease
EditorInv == EditorTypeOK /\ Places /\ InFlight /\ SessionKept /\ AnswersHold

USE DEF Project, Request, Session, Answer

LEMMA Revisions == \A p \in Project : Revision(p) \in Nat
  BY EditorAssumption, FS_Subset, FS_CardinalityType DEF Revision

\* A project nobody has edited, and no request.
LEMMA EditorInitInv == EditorInit => EditorInv
  BY EditorAssumption
  DEF EditorInit, EditorInv, EditorTypeOK, Places, WorkIsTaken, NewestHoldsLease, InFlight, SessionKept,
      AnswersHold

-----------------------------------------------------------------------------
(* What more than one action does. *)

LEMMA FreshFacts ==
  ASSUME EditorTypeOK, NEW e \in Fresh
  PROVE  e \in Edit /\ e # None /\ fate[e] = "unmade" /\ e \notin file /\ (lease # None => e # lease.edit)
  BY EditorAssumption DEF Fresh, EditorTypeOK

\* The desktop hands over a request.
LEMMA BeginKeeps ==
  ASSUME EditorInv, NEW e \in Fresh \cup {None}, Begin(e)
  PROVE  EditorInv'
  <1> USE DEF EditorInv
  <1> DEFINE r == [edit |-> e, route |-> active]
  <1>1. r \in Request /\ r # None /\ r.edit = e
    BY EditorAssumption, FreshFacts DEF EditorTypeOK
  <1>2. /\ lease = None /\ lease' = r /\ queue' = Append(queue, r) /\ reply' = None /\ during' = {file}
        /\ UNCHANGED << file, active, fate, engine, session, serving, work >> /\ Len(queue) < Capacity
    BY DEF Begin, thread
  <1> HIDE DEF r
  <1>3. /\ queue' \in Seq(Request) /\ Len(queue') = Len(queue) + 1 /\ queue' # << >>
        /\ queue'[Len(queue')] = r /\ \A i \in 1 .. Len(queue) : queue'[i] = queue[i]
    BY <1>1, <1>2 DEF EditorTypeOK
  <1>4. EditorTypeOK'
    BY <1>1, <1>2, <1>3, EditorAssumption DEF EditorTypeOK
  <1>5. ASSUME NEW i \in 1 .. Len(queue) PROVE queue[i].edit = None
    <2>1. queue[i] \in Request
      <3> HIDE DEF Request
      <3>1. queue \in Seq(Request)
        BY DEF EditorTypeOK
      <3> QED
        BY <3>1
    <2>2. queue[i] # lease
      BY <1>2, <2>1, EditorAssumption
    <2> QED
      BY <2>2 DEF Places, NewestHoldsLease
  <1>6. work # None => work.edit = None
    BY <1>2 DEF Places, NewestHoldsLease
  <1>7. WorkIsTaken' /\ NewestHoldsLease'
    <2>1. ASSUME NEW i \in 1 .. Len(queue'), queue'[i].edit # None PROVE i = Len(queue') /\ queue'[i] = lease'
      BY <1>2, <1>3, <1>5, <2>1 DEF EditorTypeOK
    <2> QED
      BY <1>1, <1>2, <1>3, <1>6, <2>1 DEF Places, WorkIsTaken, NewestHoldsLease
  <1>8. InFlight'
    BY <1>1, <1>2, FreshFacts DEF InFlight
  <1>9. SessionKept' /\ AnswersHold'
    BY <1>2, <1>3 DEF SessionKept, AnswersHold
  <1> QED
    BY <1>4, <1>7, <1>8, <1>9 DEF Places

\* A query that is given up leaves its request in the queue or in the engine's hands.
LEMMA TimeOutKeeps ==
  ASSUME EditorInv, TimeOut
  PROVE  EditorInv'
  <1> USE DEF EditorInv
  <1>1. /\ lease # None /\ lease.edit = None /\ lease' = None
        /\ UNCHANGED << file, active, fate, queue, engine, session, serving, work, reply, during >>
    BY DEF TimeOut, thread
  <1>2. EditorTypeOK'
    BY <1>1 DEF EditorTypeOK
  <1>3. Places'
    BY <1>1 DEF Places, WorkIsTaken, NewestHoldsLease
  <1>4. InFlight' /\ SessionKept' /\ AnswersHold'
    BY <1>1 DEF InFlight, SessionKept, AnswersHold
  <1> QED
    BY <1>2, <1>3, <1>4

\* The lease ends and its edit, if it has one, has the fate that the answer names.
LEMMA ToldKeeps ==
  ASSUME EditorInv, lease # None, reply # None, NEW how \in {"ok", "refused", "unsure"}, Told(how),
         active' \in Nat,
         lease.edit # None => /\ how = "ok" => lease.edit \in file
                              /\ how = "refused" => lease.edit \notin file
  PROVE  EditorInv'
  <1> USE DEF EditorInv
  <1>1. /\ lease' = None
        /\ fate' = IF lease.edit = None THEN fate ELSE [fate EXCEPT ![lease.edit] = how]
        /\ UNCHANGED << file, queue, engine, session, serving, work, reply, during >>
    BY DEF Told, thread
  <1>2. lease.edit \in Edit \cup {None} /\ queue = << >> /\ work = None
    BY DEF EditorTypeOK, Places, NewestHoldsLease
  <1>3. EditorTypeOK'
    BY <1>1, <1>2 DEF EditorTypeOK
  <1>4. Places'
    BY <1>1, <1>2 DEF Places, WorkIsTaken, NewestHoldsLease
  <1>5. AnswersHold'
    BY <1>1, <1>2 DEF AnswersHold, EditorTypeOK
  <1>6. InFlight' /\ SessionKept'
    BY <1>1 DEF InFlight, SessionKept
  <1> QED
    BY <1>3, <1>4, <1>5, <1>6

\* Whatever accept makes of the answer.
LEMMA AnsweredKeeps ==
  ASSUME EditorInv, Answered
  PROVE  EditorInv'
  <1>1. lease # None /\ reply # None /\ active \in Nat /\ Revision(file) \in Nat
    BY Revisions DEF Answered, EditorInv, EditorTypeOK
  <1>2. CASE reply.result = "ok" /\ lease.edit = None /\ Told("ok") /\ UNCHANGED active
    BY <1>1, <1>2, ToldKeeps
  <1>3. CASE /\ reply.result = "ok" /\ lease.edit # None
             /\ active' = Revision(file) /\ Told("ok")
    <2>1. lease.edit \in file
      BY <1>1, <1>3 DEF EditorInv, InFlight
    <2> QED
      BY <1>1, <1>3, <2>1, ToldKeeps
  <1>4. CASE reply.result = "ok" /\ lease.edit # None /\ Told("unsure") /\ UNCHANGED active
    BY <1>1, <1>4, ToldKeeps
  <1>5. CASE reply.result \in {"refused", "unsure"} /\ Told(reply.result) /\ UNCHANGED active
    <2>1. reply.result = "refused" /\ lease.edit # None => lease.edit \notin file
      BY <1>1 DEF EditorInv, InFlight
    <2> QED
      BY <1>1, <1>5, <2>1, ToldKeeps
  <1> QED
    BY <1>2, <1>3, <1>4, <1>5 DEF Answered

LEMMA ReopenKeeps ==
  ASSUME EditorInv, Reopen
  PROVE  EditorInv'
  <1> USE DEF EditorInv
  <1>1. /\ active' = Revision(file) /\ Revision(file) \in Nat
        /\ UNCHANGED << file, lease, fate, queue, engine, session, serving, work, reply, during >>
    BY Revisions DEF Reopen, thread, EditorTypeOK
  <1>2. EditorTypeOK'
    BY <1>1 DEF EditorTypeOK
  <1>3. Places'
    BY <1>1 DEF Places, WorkIsTaken, NewestHoldsLease
  <1>4. InFlight' /\ SessionKept' /\ AnswersHold'
    BY <1>1 DEF InFlight, SessionKept, AnswersHold
  <1> QED
    BY <1>2, <1>3, <1>4

\* Somebody publishes an edit that nobody else has made.
LEMMA OtherEdit ==
  ASSUME EditorInv, NEW e \in Fresh, Write(file \cup {e}), fate' = [fate EXCEPT ![e] = "ok"],
         active' \in Nat, UNCHANGED << lease, queue, engine, session, serving, work, reply >>
  PROVE  EditorInv'
  <1> USE DEF EditorInv
  <1>1. e \in Edit /\ e # None /\ fate[e] = "unmade" /\ e \notin file /\ (lease # None => e # lease.edit)
    BY FreshFacts
  <1>2. file' = file \cup {e} /\ during \subseteq during' /\ (lease # None => file' \in during')
        /\ during' \subseteq during \cup {file'}
    BY DEF Write
  <1>3. EditorTypeOK'
    BY <1>1, <1>2 DEF EditorTypeOK
  <1>4. Places'
    BY DEF Places, WorkIsTaken, NewestHoldsLease
  <1>5. AnswersHold'
    BY <1>1, <1>2 DEF AnswersHold, EditorTypeOK
  <1>6. InFlight'
    BY <1>1, <1>2 DEF InFlight, EditorTypeOK
  <1>7. SessionKept'
    BY <1>2 DEF SessionKept
  <1> QED
    BY <1>3, <1>4, <1>5, <1>6, <1>7

\* Everything the desktop and other processes do.
LEMMA DesktopKeeps ==
  ASSUME EditorInv,
         \/ \E edit \in Fresh \cup {None} : Begin(edit)
         \/ TimeOut \/ Answered \/ Reopen
         \/ \E e \in Fresh : LocalEdit(e) \/ ForeignEdit(e)
  PROVE  EditorInv'
  <1>1. CASE \E edit \in Fresh \cup {None} : Begin(edit)
    BY <1>1, BeginKeeps
  <1>2. CASE TimeOut \/ Answered \/ Reopen
    BY <1>2, TimeOutKeeps, AnsweredKeeps, ReopenKeeps
  <1>3. ASSUME NEW e \in Fresh, LocalEdit(e) PROVE EditorInv'
    <2>1. file \cup {e} \in Project
      BY FreshFacts DEF EditorInv, EditorTypeOK
    <2>2. active' \in Nat
      BY <1>3, <2>1, Revisions DEF LocalEdit, Write
    <2> QED
      BY <1>3, <2>2, OtherEdit DEF LocalEdit, thread
  <1>4. ASSUME NEW e \in Fresh, ForeignEdit(e) PROVE EditorInv'
    BY <1>4, OtherEdit DEF ForeignEdit, thread, EditorInv, EditorTypeOK
  <1> QED
    BY <1>1, <1>2, <1>3, <1>4

-----------------------------------------------------------------------------
(* The engine-control thread. *)

\* Linking changes no request; without a dispatcher there is no session.
LEMMA DispatcherKeeps ==
  ASSUME EditorInv, LinkDispatcher \/ DropDispatcher
  PROVE  EditorInv'
  <1> USE DEF EditorInv
  <1>1. /\ serving = "idle" /\ session' \in {session, None} /\ engine' \in {"linked", "unlinked"}
        /\ UNCHANGED << file, active, lease, fate, queue, serving, work, reply, during >>
    BY DEF LinkDispatcher, DropDispatcher, desktop
  <1>2. EditorTypeOK'
    BY <1>1 DEF EditorTypeOK
  <1>3. Places'
    BY <1>1 DEF Places, WorkIsTaken, NewestHoldsLease
  <1>4. InFlight' /\ SessionKept' /\ AnswersHold'
    BY <1>1 DEF InFlight, SessionKept, AnswersHold
  <1> QED
    BY <1>2, <1>3, <1>4

\* The channel is closed and what waits in it is answered with a refusal.
LEMMA ReturnKeeps ==
  ASSUME EditorInv, Return
  PROVE  EditorInv'
  <1> USE DEF EditorInv
  <1> DEFINE closed == [result |-> "refused", project |-> None]
  <1>1. closed \in Answer /\ closed # None /\ closed.result = "refused"
    BY EditorAssumption
  <1>2. /\ serving = "idle" /\ session' = None /\ engine' = "returned" /\ queue' = << >>
        /\ reply' = IF queue = << >> THEN reply ELSE closed
        /\ UNCHANGED << file, active, lease, fate, serving, work, during >>
    BY DEF Return, desktop
  <1> HIDE DEF closed
  <1>3. EditorTypeOK'
    BY <1>1, <1>2, EditorAssumption DEF EditorTypeOK
  <1>4. work = None
    BY <1>2 DEF Places, WorkIsTaken
  <1>5. Places'
    BY <1>1, <1>2, <1>4 DEF Places, WorkIsTaken, NewestHoldsLease
  <1>6. InFlight'
    BY <1>1, <1>2 DEF InFlight, Places, NewestHoldsLease
  <1>7. SessionKept' /\ AnswersHold'
    BY <1>2 DEF SessionKept, AnswersHold
  <1> QED
    BY <1>3, <1>5, <1>6, <1>7

\* The request in hand is of no more use for a lease that was begun after it.
LEMMA OwnRequest ==
  ASSUME EditorInv, work # None, lease # None, queue = << >>
  PROVE  work = lease /\ reply = None
  BY DEF EditorInv, Places, NewestHoldsLease

\* The oldest request is taken: a command only if it is the last.
LEMMA TakeKeeps ==
  ASSUME EditorInv, Take
  PROVE  EditorInv'
  <1> USE DEF EditorInv
  <1>1. /\ serving = "idle" /\ queue # << >> /\ serving' = "find" /\ work' = Head(queue) /\ queue' = Tail(queue)
        /\ UNCHANGED << file, active, lease, fate, engine, session, reply, during >>
    BY DEF Take, desktop
  <1>2. /\ Len(queue) \in Nat \ {0} /\ work' = queue[1] /\ work' \in Request /\ work' # None
        /\ queue' \in Seq(Request) /\ Len(queue') = Len(queue) - 1
        /\ \A i \in 1 .. Len(queue') : queue'[i] = queue[i + 1]
    <2> HIDE DEF Request
    <2>1. queue \in Seq(Request)
      BY DEF EditorTypeOK
    <2>2. Len(queue) \in Nat \ {0} /\ work' = queue[1] /\ work' \in Request
      BY <1>1, <2>1
    <2>3. /\ queue' \in Seq(Request) /\ Len(queue') = Len(queue) - 1
          /\ \A i \in 1 .. Len(queue') : queue'[i] = queue[i + 1]
      BY <1>1, <2>1
    <2> QED
      BY <2>2, <2>3, EditorAssumption
  <1>3. EditorTypeOK'
    BY <1>1, <1>2, EditorAssumption DEF EditorTypeOK
  <1>4. queue' = << >> <=> Len(queue) = 1
    BY <1>2
  <1>5. WorkIsTaken'
    BY <1>1, <1>2 DEF WorkIsTaken
  <1>6. lease # None => reply = None /\ queue[Len(queue)] = lease
    BY <1>1 DEF Places, NewestHoldsLease
  <1>7. lease # None => \/ queue' # << >> /\ queue'[Len(queue')] = lease
                        \/ queue' = << >> /\ work' = lease
    BY <1>2, <1>4, <1>6
  <1>8. ASSUME NEW i \in 1 .. Len(queue'), queue'[i].edit # None PROVE i = Len(queue') /\ queue'[i] = lease
    <2>1. i + 1 \in 1 .. Len(queue) /\ queue[i + 1].edit # None
      BY <1>2, <1>8
    <2>2. i + 1 = Len(queue) /\ queue[i + 1] = lease
      BY <2>1 DEF Places, NewestHoldsLease
    <2>3. i \in Nat /\ queue'[i] = queue[i + 1]
      BY <1>2
    <2> QED
      BY <1>2, <2>2, <2>3
  <1>9. work'.edit # None => queue' = << >> /\ work' = lease
    BY <1>2, <1>4 DEF Places, NewestHoldsLease
  <1>10. NewestHoldsLease'
    BY <1>1, <1>6, <1>7, <1>8, <1>9 DEF NewestHoldsLease
  <1>11. InFlight' /\ SessionKept' /\ AnswersHold'
    BY <1>1 DEF InFlight, SessionKept, AnswersHold
  <1> QED
    BY <1>3, <1>5, <1>10, <1>11 DEF Places

\* A step that goes on with the request in hand.
LEMMA GoesOnKeeps ==
  ASSUME EditorInv, serving # "idle", serving' \in {"match", "execute", "open", "replace"},
         session' \in Session, SessionKept',
         UNCHANGED << file, active, lease, fate, queue, engine, work, reply, during >>
  PROVE  EditorInv'
  <1> USE DEF EditorInv
  <1>1. EditorTypeOK'
    BY DEF EditorTypeOK
  <1>2. Places'
    BY DEF Places, WorkIsTaken, NewestHoldsLease
  <1>3. InFlight' /\ AnswersHold'
    BY DEF InFlight, AnswersHold
  <1> QED
    BY <1>1, <1>2, <1>3

\* A step that ends with an answer: what the answer claims is true of the file.
LEMMA RespondKeeps ==
  ASSUME EditorInv, work # None, NEW result \in {"ok", "refused", "unsure"},
         NEW project \in Project \cup {None}, Respond(result, project),
         session' \in Session \cup {None}, session' # None => session'.memory = session'.durable,
         file' \in Project, file \subseteq file', during' \in SUBSET Project, during \subseteq during',
         lease # None => file' \in during',
         \A e \in Edit : e \in file' \ file => e = work.edit /\ result # "refused",
         result = "ok" /\ work.edit = None /\ lease # None /\ queue = << >> => project \in during',
         result = "ok" /\ work.edit # None => work.edit \in file',
         UNCHANGED << active, lease, fate, queue, engine >>
  PROVE  EditorInv'
  <1> USE DEF EditorInv
  <1> DEFINE a == [result |-> result, project |-> project]
  <1>1. a \in Answer /\ a # None /\ a.result = result /\ a.project = project
    BY EditorAssumption
  <1>2. /\ serving' = "idle" /\ work' = None
        /\ reply' = IF lease # None /\ queue = << >> THEN a ELSE reply
    BY DEF Respond
  <1> HIDE DEF a
  <1>3. lease # None /\ queue = << >> => work = lease /\ reply = None
    BY OwnRequest
  <1>4. work.edit # None => queue = << >> /\ work = lease /\ lease # None
    BY DEF Places, NewestHoldsLease
  <1>5. EditorTypeOK'
    BY <1>1, <1>2 DEF EditorTypeOK
  <1>6. Places'
    BY <1>1, <1>2, <1>3, <1>4 DEF Places, WorkIsTaken, NewestHoldsLease
  <1>7. InFlight'
    <2> SUFFICES ASSUME lease # None PROVE InFlight'
      BY DEF InFlight
    <2>1. lease.edit \in Edit \cup {None}
      BY DEF EditorTypeOK
    <2>2. CASE queue = << >>
      BY <1>1, <1>2, <1>3, <2>1, <2>2, EditorAssumption DEF InFlight
    <2>3. CASE queue # << >>
      <3>1. work.edit = None /\ \A e \in Edit : e \notin file' \ file
        BY <1>4, <2>3, EditorAssumption
      <3> QED
        BY <1>2, <2>1, <2>3, <3>1 DEF InFlight
    <2> QED
      BY <2>2, <2>3
  <1>8. SessionKept'
    BY <1>2 DEF SessionKept
  <1>9. AnswersHold'
    <2> SUFFICES ASSUME NEW e \in Edit
                 PROVE  (fate[e] = "ok" => e \in file') /\ (fate[e] = "refused" => e \notin file')
      BY DEF AnswersHold
    <2>1. CASE e \in file' \ file
      <3>1. e = work.edit /\ e # None
        BY <2>1, EditorAssumption
      <3> QED
        BY <1>4, <2>1, <3>1 DEF InFlight
    <2>2. CASE e \notin file' \ file
      BY <2>2 DEF AnswersHold
    <2> QED
      BY <2>1, <2>2
  <1> QED
    BY <1>5, <1>6, <1>7, <1>8, <1>9

\* A request that is refused before the file was replaced.
LEMMA RefuseKeeps ==
  ASSUME EditorInv, serving # "idle", Refuse("refused"), UNCHANGED << file, active, lease, fate, queue, engine, during >>
  PROVE  EditorInv'
  <1>1. work # None /\ work.edit \in Edit \cup {None} /\ (serving \in {"open", "replace"} => work.edit # None)
    BY DEF EditorInv, EditorTypeOK, Places, WorkIsTaken, SessionKept
  <1>2. session' \in {session, None} /\ (session' # None => session'.memory = session'.durable)
    BY <1>1 DEF Refuse, Retained, EditorInv, SessionKept
  <1>3. session' \in Session \cup {None} /\ Respond("refused", None)
    BY <1>2 DEF Refuse, EditorInv, EditorTypeOK
  <1>4. lease # None => file \in during
    BY DEF EditorInv, InFlight
  <1> QED
    BY <1>1, <1>2, <1>3, <1>4, RespondKeeps DEF EditorInv, EditorTypeOK

LEMMA FindKeeps ==
  ASSUME EditorInv, Find
  PROVE  EditorInv'
  <1> USE DEF EditorInv
  <1>1. serving = "find" /\ UNCHANGED << file, active, lease, fate, queue, engine, during >>
    BY DEF Find, desktop
  <1>2. CASE MatchesRoute /\ serving' = "match" /\ UNCHANGED << session, work, reply >>
    <2>1. session' \in Session /\ SessionKept'
      BY <1>1, <1>2 DEF MatchesRoute, EditorTypeOK, SessionKept
    <2> QED
      BY <1>1, <1>2, <2>1, GoesOnKeeps
  <1>3. CASE /\ session' = [durable |-> file, memory |-> file]
             /\ serving' = "match" /\ UNCHANGED << work, reply >>
    <2>1. session' \in Session /\ session'.memory = session'.durable
      BY <1>3 DEF EditorTypeOK
    <2>2. SessionKept'
      BY <1>3, <2>1, EditorAssumption DEF SessionKept
    <2> QED
      BY <1>1, <1>3, <2>1, <2>2, GoesOnKeeps
  <1>4. CASE Refuse("refused")
    BY <1>1, <1>4, RefuseKeeps
  <1> QED
    BY <1>2, <1>3, <1>4 DEF Find

LEMMA MatchKeeps ==
  ASSUME EditorInv, RequireDurableMatch
  PROVE  EditorInv'
  <1> USE DEF EditorInv
  <1>1. serving = "match" /\ UNCHANGED << file, active, lease, fate, queue, engine, during >>
    BY DEF RequireDurableMatch, desktop
  <1>2. CASE DurableMatch /\ serving' = "execute" /\ UNCHANGED << session, work, reply >>
    <2>1. session' \in Session
      BY <1>1, <1>2 DEF EditorTypeOK, SessionKept
    <2>2. lease # None => session.durable \in during
      BY <1>2 DEF InFlight, DurableMatch
    <2>3. SessionKept'
      BY <1>1, <1>2, <2>2 DEF SessionKept
    <2> QED
      BY <1>1, <1>2, <2>1, <2>3, GoesOnKeeps
  <1>3. CASE Refuse("refused")
    BY <1>1, <1>3, RefuseKeeps
  <1> QED
    BY <1>2, <1>3 DEF RequireDurableMatch

LEMMA ExecuteKeeps ==
  ASSUME EditorInv, Execute
  PROVE  EditorInv'
  <1> USE DEF EditorInv
  <1>1. serving = "execute" /\ UNCHANGED << file, active, lease, fate, queue, engine, during >>
    BY DEF Execute, desktop
  <1>2. session \in Session /\ session # None /\ session.memory = session.durable /\ work \in Request /\ work # None
    BY <1>1, EditorAssumption DEF EditorTypeOK, SessionKept, Places, WorkIsTaken
  <1>3. CASE Refuse("refused")
    BY <1>1, <1>3, RefuseKeeps
  <1>4. CASE work.edit = None /\ UNCHANGED session /\ Respond("ok", session.memory)
    <2>1. lease # None /\ queue = << >> => session.memory \in during
      BY <1>1, <1>2 DEF SessionKept
    <2>2. session.memory \in Project /\ (lease # None => file \in during)
      BY <1>2 DEF InFlight
    <2> QED
      BY <1>1, <1>2, <1>4, <2>1, <2>2, RespondKeeps DEF EditorTypeOK
  <1>5. CASE /\ work.edit # None /\ session' = [session EXCEPT !.memory = @ \cup {work.edit}]
             /\ serving' = "open" /\ UNCHANGED << work, reply >>
    <2>1. work.edit \in Edit
      BY <1>2, <1>5
    <2>2. session' \in Session /\ session'.memory = session.durable \cup {work.edit} /\ session'.durable = session.durable
      BY <1>2, <1>5, <2>1
    <2>3. SessionKept'
      BY <1>5, <2>2, EditorAssumption DEF SessionKept
    <2> QED
      BY <1>1, <1>5, <2>2, <2>3, GoesOnKeeps
  <1> QED
    BY <1>3, <1>4, <1>5 DEF Execute

LEMMA OpenKeeps ==
  ASSUME EditorInv, Open
  PROVE  EditorInv'
  <1> USE DEF EditorInv
  <1>1. serving = "open" /\ UNCHANGED << file, active, lease, fate, queue, engine, during >>
    BY DEF Open, desktop
  <1>2. CASE serving' = "replace" /\ UNCHANGED << session, work, reply >>
    <2>1. session' \in Session /\ SessionKept'
      BY <1>1, <1>2 DEF EditorTypeOK, SessionKept
    <2> QED
      BY <1>1, <1>2, <2>1, GoesOnKeeps
  <1>3. CASE Refuse("refused")
    BY <1>1, <1>3, RefuseKeeps
  <1> QED
    BY <1>2, <1>3 DEF Open

LEMMA ReplaceKeeps ==
  ASSUME EditorInv, Replace
  PROVE  EditorInv'
  <1> USE DEF EditorInv
  <1>1. serving = "replace" /\ UNCHANGED << active, lease, fate, queue, engine >>
    BY DEF Replace, desktop
  <1>2. CASE Refuse("refused") /\ UNCHANGED << file, during >>
    BY <1>1, <1>2, RefuseKeeps
  <1>3. CASE /\ StillWhatWasOpened /\ Write(session.memory)
             /\ \/ /\ session' = [session EXCEPT !.durable = session.memory]
                   /\ Respond("ok", session.memory)
                \/ Refuse("unsure")
    <2>1. /\ session \in Session /\ session # None /\ work \in Request /\ work # None
          /\ work.edit \in Edit /\ work.edit # None
          /\ session.memory = session.durable \cup {work.edit}
      BY <1>1, EditorAssumption DEF EditorTypeOK, SessionKept, Places, WorkIsTaken
    <2>2. /\ file' = file \cup {work.edit} /\ file' \in Project /\ session.memory = file'
          /\ during' \in SUBSET Project /\ during \subseteq during' /\ (lease # None => file' \in during')
      BY <1>3, <2>1 DEF StillWhatWasOpened, Write, EditorTypeOK
    <2>3. CASE session' = [session EXCEPT !.durable = session.memory] /\ Respond("ok", session.memory)
      <3>1. session' \in Session /\ session'.memory = session'.durable
        BY <2>1, <2>3
      <3> QED
        BY <1>1, <2>1, <2>2, <2>3, <3>1, RespondKeeps
    <2>4. CASE Refuse("unsure")
      <3>1. session' \in Session \cup {None} /\ (session' # None => session'.memory = session'.durable)
        BY <2>1, <2>4 DEF Refuse, Retained
      <3>2. Respond("unsure", None)
        BY <2>4 DEF Refuse
      <3> QED
        BY <1>1, <2>1, <2>2, <3>1, <3>2, RespondKeeps
    <2> QED
      BY <1>3, <2>3, <2>4
  <1> QED
    BY <1>2, <1>3 DEF Replace

\* All of them together.
LEMMA EditorStepInv == EditorInv /\ [EditorNext]_editorVars => EditorInv'
  <1> SUFFICES ASSUME EditorInv, [EditorNext]_editorVars PROVE EditorInv'
    OBVIOUS
  <1>1. CASE \/ \E edit \in Fresh \cup {None} : Begin(edit)
             \/ TimeOut \/ Answered \/ Reopen
             \/ \E e \in Fresh : LocalEdit(e) \/ ForeignEdit(e)
    BY <1>1, DesktopKeeps
  <1>2. CASE LinkDispatcher \/ DropDispatcher \/ Return
    BY <1>2, DispatcherKeeps, ReturnKeeps
  <1>3. CASE ServeRequest
    BY <1>3, TakeKeeps, FindKeeps, MatchKeeps, ExecuteKeeps, OpenKeeps, ReplaceKeeps DEF ServeRequest
  <1>4. CASE UNCHANGED editorVars
    <2> USE <1>4 DEF EditorInv, editorVars, desktop, thread
    <2>1. EditorTypeOK' /\ Places'
      BY DEF EditorTypeOK, Places, WorkIsTaken, NewestHoldsLease
    <2>2. InFlight' /\ SessionKept' /\ AnswersHold'
      BY DEF InFlight, SessionKept, AnswersHold
    <2> QED
      BY <2>1, <2>2
  <1> QED
    BY <1>1, <1>2, <1>3, <1>4 DEF EditorNext

\* Every step of the desktop, of the engine-control thread and of the other processes
\* keeps the invariant, for any edits and any capacity of the connection.
THEOREM EditorInductive == EditorSpec => []EditorInv
  BY EditorInitInv, EditorStepInv, PTL DEF EditorSpec

\* The file, the queue within its capacity, the retained session and the answer of
\* execute_request are of their types.
THEOREM EditorTypes == EditorSpec => []EditorTypeOK
  BY EditorInductive, PTL DEF EditorInv

\* An edit whose author was told that it is saved stays in the file, and one that was
\* refused never gets there, although execute_request keeps the session it was executed
\* in and other processes publish between any two of its steps.
THEOREM AnswersAreKept == EditorSpec => []AnswersHold
  BY EditorInductive, PTL DEF EditorInv

\* require_durable_match makes an answer current: the project it is taken from is one
\* the file has been since the query took the lease, also if an earlier query timed out.
THEOREM AnsweredFromTheFile == EditorSpec => []ReadsAreCurrent
  <1>1. EditorInv => ReadsAreCurrent
    BY DEF EditorInv, InFlight, ReadsAreCurrent
  <1> QED
    BY <1>1, EditorInductive, PTL
=============================================================================
