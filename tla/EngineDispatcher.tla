-------------------------- MODULE EngineDispatcher --------------------------
(***************************************************************************)
(* The engine's serialized command owner (superi-engine/src/dispatcher.rs) *)
(* around the subsystem lifecycle: the failure records of its error        *)
(* coordinator (src/error.rs) and the routing of recoveries, the bounded   *)
(* queue of state events, the one-command bridge to the playback thread,   *)
(* and the readiness of logical export jobs for teardown.                  *)
(*                                                                         *)
(* Every command runs on the engine-control thread and is one action.  A   *)
(* dispatch collects a waiting playback completion first; since inspecting *)
(* commands do only that, a command that finds one is Collect followed by  *)
(* the command.  Sequence numbers are left out: they count the events, and *)
(* a reserved number is still the next one when no event came before it.   *)
(* The queue is drained whole, so of its events their number is kept.      *)
(***************************************************************************)
EXTENDS EngineLifecycle

CONSTANTS
  Required,        \* Required[w]: subsystems that work w needs ready
  Export,          \* the subsystem whose teardown waits for export jobs
  Faulty,          \* bound: subsystems whose owner ever reports a failure
  MaxEvents,       \* MAX_PENDING_ENGINE_EVENTS
  MayDrop          \* whether the playback owner may drop its executor

Work == {"playback", "rendering", "export"}

ASSUME DispatcherAssumption ==
  /\ Required \in [Work -> SUBSET Subsystem]
  /\ Export \in Subsystem
  /\ Faulty \subseteq Subsystem
  /\ MaxEvents \in Nat \ {0}
  /\ MayDrop \in BOOLEAN

VARIABLES
  active,      \* active[s]: the failure the error coordinator holds for s
  recovery,    \* pending_recovery: [subsystem, live], live while its token
               \* is the outstanding lifecycle action
  events,      \* events[k]: queued state events of kind k
  pending,     \* pending_playback: [permit, stage] of the bridge's command
  executor,    \* "attached" or "gone"
  openJobs     \* ~logical_jobs_final

vars == << lc, active, recovery, events, pending, executor, openJobs >>

EventKind == {"playback", "state"}
NoEvents == [k \in EventKind |-> 0]

Disposition == {"none", "recoverable", "restart"}
DispositionOf(f) == IF f = "terminal" THEN "restart" ELSE "recoverable"

Init ==
  /\ EngineInit
  /\ active = [s \in Subsystem |-> "none"]
  /\ recovery = None
  /\ events = NoEvents
  /\ pending = None
  /\ executor = "attached"
  /\ openJobs = FALSE

-----------------------------------------------------------------------------
(* The event queue and the bridge. *)

\* A completion is waiting in the bridge; or none will ever come, and every
\* dispatch and drain fails.
Arrived == pending # None /\ pending.stage = "done"
Severed == pending # None /\ pending.stage = "queued" /\ executor = "gone"

Room == events["playback"] + events["state"] < MaxEvents
Push(kind) == events' = [events EXCEPT ![kind] = @ + 1]

\* A command that emits a state event is refused while a playback command, which
\* reserved the next event, is pending, and while the queue is full.
Emits_Overtakes ==
  /\ Room
  /\ Push("state")
Emits ==
  /\ pending = None
  /\ Room
  /\ Push("state")

\* enqueue_playback_command.
EnqueuePlayback(inspect) ==
  /\ pending = None
  /\ Room
  /\ ~inspect => Admits(Required["playback"])
  /\ executor = "attached"
  /\ pending' = [permit |-> IF inspect THEN None ELSE lc, stage |-> "queued"]
  /\ UNCHANGED << lc, active, recovery, events, executor, openJobs >>

\* PlaybackCommandExecutor::execute_next; the transport's failure travels as
\* evidence in the completion.
ExecuteNext ==
  /\ pending # None /\ pending.stage = "queued"
  /\ executor = "attached"
  /\ pending' = [pending EXCEPT !.stage = "done"]
  /\ UNCHANGED << lc, active, recovery, events, executor, openJobs >>

DropExecutor ==
  /\ MayDrop
  /\ executor = "attached"
  /\ executor' = "gone"
  /\ UNCHANGED << lc, active, recovery, events, pending, openJobs >>

Collect_KeepsPending ==
  /\ Arrived
  /\ Room
  /\ Push("playback")
  /\ UNCHANGED << lc, active, recovery, pending, executor, openJobs >>

\* collect_playback_completion.  Without room the completion is gone and its
\* command stays pending.
Collect ==
  /\ Arrived
  /\ IF Room
       THEN Push("playback") /\ pending' = None
       ELSE pending' = [pending EXCEPT !.stage = "lost"] /\ UNCHANGED events
  /\ UNCHANGED << lc, active, recovery, executor, openJobs >>

\* drain_events and discard_playback_events, which both collect first.
DrainEvents ==
  /\ ~Severed
  /\ Arrived => Room
  /\ events # NoEvents \/ Arrived
  /\ events' = NoEvents
  /\ pending' = IF Arrived THEN None ELSE pending
  /\ UNCHANGED << lc, active, recovery, executor, openJobs >>

DiscardPlaybackEvents ==
  /\ ~Severed
  /\ Arrived => Room
  /\ events' = [events EXCEPT !["playback"] = 0]
  /\ pending' = IF Arrived THEN None ELSE pending
  /\ UNCHANGED << lc, active, recovery, executor, openJobs >>

\* Project, settings, audio and scenario commands, and what they do elsewhere.
ProjectCommand ==
  /\ Emits
  /\ UNCHANGED << lc, active, recovery, pending, executor, openJobs >>

\* Submit, resume or retry an export job; and the poll or cancellation that
\* leaves every job in a final state.
AdmitExport ==
  /\ Emits
  /\ Admits(Required["export"])
  /\ openJobs' = TRUE
  /\ UNCHANGED << lc, active, recovery, pending, executor >>

SettleExports ==
  /\ Emits
  /\ openJobs
  /\ openJobs' = FALSE
  /\ UNCHANGED << lc, active, recovery, pending, executor >>

-----------------------------------------------------------------------------
(* Lifecycle and recovery commands. *)

\* The token a pending recovery holds goes stale with the action it names.
Tokens == recovery' = IF recovery # None /\ lc'.action # lc.action
                        THEN [recovery EXCEPT !.live = FALSE] ELSE recovery

Lifecycle == Emits /\ UNCHANGED << pending, executor, openJobs >>

\* A report about the outstanding action is routed to the pending recovery, and
\* refused when that holds the token of another action.
Routed == recovery # None => recovery.live

\* require_export_teardown_ready.
ExportReady(s) == s = Export /\ lc.action.kind = "stopping" => ~openJobs

\* CompleteLifecycleAction and CompleteRecovery.
OwnerCompletes(s) ==
  /\ Lifecycle
  /\ lc.action # None
  /\ Routed
  /\ ExportReady(s)
  /\ Complete(s)
  /\ recovery' = None
  /\ active' = IF recovery = None THEN active
               ELSE [active EXCEPT ![recovery.subsystem] = "none"]

\* FailLifecycleAction and FailRecovery, which keeps a failure record.
OwnerFails(s, f) ==
  /\ Lifecycle
  /\ lc.action # None
  /\ Routed
  /\ Fail(s, f)
  /\ recovery' = None
  /\ active' = IF recovery = None THEN active
               ELSE [active EXCEPT ![recovery.subsystem] = DispositionOf(f)]

ReportFailure(s, f) ==
  /\ Lifecycle
  /\ active[s] = "none"
  /\ ReportRuntimeFailure(s, f)
  /\ active' = [active EXCEPT ![s] = DispositionOf(f)]
  /\ UNCHANGED recovery

\* BeginRecovery and BeginClassifiedRecovery.
StartRecovery_AnyRecord(s) ==
  /\ Lifecycle
  /\ BeginRecovery(s)
  /\ recovery' = [subsystem |-> s, live |-> TRUE]
  /\ UNCHANGED active
StartRecovery(s) ==
  /\ Lifecycle
  /\ active[s] = "recoverable"
  /\ BeginRecovery(s)
  /\ recovery' = [subsystem |-> s, live |-> TRUE]
  /\ UNCHANGED active

Request(Handle) == Lifecycle /\ Handle /\ Tokens /\ UNCHANGED active

Sleep == Request(BeginSleep)
Wake == Request(BeginWake)
Shutdown == Request(BeginShutdown(FALSE))
Restart == Request(BeginShutdown(TRUE) \/ BeginRestart)

-----------------------------------------------------------------------------
Owner(s) == OwnerCompletes(s) \/ (s \in Faulty /\ \E f \in Class : OwnerFails(s, f))

Next ==
  \/ \E s \in Subsystem : Owner(s)
  \/ \E s \in Faulty : StartRecovery(s) \/ \E f \in Class : ReportFailure(s, f)
  \/ Sleep \/ Wake \/ Shutdown \/ Restart
  \/ ProjectCommand \/ AdmitExport \/ SettleExports
  \/ \E inspect \in BOOLEAN : EnqueuePlayback(inspect)
  \/ ExecuteNext \/ DropExecutor \/ Collect \/ DrainEvents \/ DiscardPlaybackEvents

Spec == Init /\ [][Next]_vars

\* The playback thread turns while it lives, events are drained, and an owner
\* repeats a report that was refused for a moment; so does who settles exports.
FairSpec ==
  /\ Spec
  /\ WF_vars(ExecuteNext) /\ WF_vars(Collect) /\ WF_vars(DrainEvents)
  /\ SF_vars(SettleExports) /\ SF_vars(\E s \in Subsystem : Owner(s))
-----------------------------------------------------------------------------
(* Properties. *)

TypeOK ==
  /\ EngineTypeOK
  /\ active \in [Subsystem -> Disposition]
  /\ recovery \in [subsystem : Subsystem, live : BOOLEAN] \cup {None}
  /\ events \in [EventKind -> Nat] /\ events["playback"] + events["state"] <= MaxEvents
  /\ pending \in [permit : State \cup {None}, stage : {"queued", "done", "lost"}] \cup {None}
  /\ executor \in {"attached", "gone"}
  /\ openJobs \in BOOLEAN

\* What an accepted playback command holds is good until its completion is
\* collected: room for its event, and a permit of the engine as it still is.
ReservationHolds ==
  pending # None =>
    /\ Room /\ pending.stage # "lost"
    /\ pending.permit # None => pending.permit = lc /\ Admits(Required["playback"])

\* A recovery action is outstanding exactly while the dispatcher holds its token
\* and the coordinator the recoverable failure it is for, so that a report of it
\* always reaches both.
RecoveryIsTracked ==
  /\ lc.action # None /\ lc.action.kind = "recovering"
       => recovery = [subsystem |-> lc.action.subsystem, live |-> TRUE]
  /\ recovery # None /\ recovery.live
       => /\ lc.action = [subsystem |-> recovery.subsystem, kind |-> "recovering"]
          /\ active[recovery.subsystem] = "recoverable"

\* A subsystem that lost its resources while others owned what is built on it
\* lost them to a sleep whose preparation those others had failed: teardown,
\* rollback and every mix of requests with them respect the dependencies.
ReleasesInOrder ==
  [][\A s \in Subsystem : lc.owns[s] /\ ~lc'.owns[s] =>
       \A t \in Owners(lc) \ {s} : s \in Dependencies[t] =>
         lc.phase = "preparing_sleep" /\ lc.state[t] = "degraded"]_vars

\* Every transition ends, unless a recovery was called off by a shutdown or the
\* playback owner went away with a command.
Stale == recovery # None /\ ~recovery.live
TransitionSettles ==
  \A ph \in {"starting", "preparing_sleep", "waking", "stopping"} :
    lc.phase = ph ~> (lc.phase # ph \/ Stale \/ Severed)

\* An accepted playback command ends in its event or with its executor.
PlaybackSettles == pending # None ~> (pending = None \/ executor = "gone")

\* BeginShutdown: "Begin deterministic reverse shutdown" -- and end it.
ShutdownCompletes == lc.phase = "stopping" ~> lc.phase # "stopping"
=============================================================================
