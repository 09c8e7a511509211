--------------------------- MODULE EngineLifecycle ---------------------------
(***************************************************************************)
(* The subsystem lifecycle of superi-engine (src/lifecycle.rs): one state  *)
(* machine, owned by the engine-control thread, that hands the owners of   *)
(* the engine's subsystems one action at a time (acquire, recover,         *)
(* prepare for sleep, wake, release) in the order of their dependencies.   *)
(*                                                                         *)
(* The whole state is the record lc.  A handler is an operator on such a   *)
(* record that constrains lc', because every handler edits the state and   *)
(* then schedules the next action in the same call.                        *)
(*                                                                         *)
(* Left out: the revision counters (an action is outstanding or it is not, *)
(* so a completion names the outstanding one or is refused), the diagnostic*)
(* text of failures, and the published snapshot, which is lc itself.       *)
(***************************************************************************)
EXTENDS Integers

CONSTANTS
  Subsystem,       \* EngineSubsystem
  Rank,            \* Rank[s]: the position of s in EngineSubsystem::ALL
  Dependencies,    \* Dependencies[s]: what s is built on
  Participates,    \* subsystems with sleep and wake actions
  Retains,         \* subsystems that keep their resources during sleep
  None             \* no outstanding action

\* A kind of action is named by the state its subsystem has meanwhile.
Kind == {"initializing", "recovering", "preparing_sleep", "waking", "stopping"}
Action == [subsystem : Subsystem, kind : Kind]

First(s, S) == s \in S /\ \A t \in S : Rank[s] <= Rank[t]
Last(s, S)  == s \in S /\ \A t \in S : Rank[t] <= Rank[s]

\* EngineSubsystem::ALL is an array, in which validate_dependency_plan finds every
\* dependency before its consumer; what sleep releases, nothing that stays needs.
ASSUME PlanAssumption ==
  /\ Rank \in [Subsystem -> Nat]
  /\ \A S \in SUBSET Subsystem : S # {} => (\E s \in S : First(s, S)) /\ (\E s \in S : Last(s, S))
  /\ Dependencies \in [Subsystem -> SUBSET Subsystem]
  /\ \A s \in Subsystem : \A d \in Dependencies[s] : Rank[d] < Rank[s]
  /\ Participates \subseteq Subsystem
  /\ \A s \in Subsystem : \A d \in Dependencies[s] :
       d \in Participates \ Retains => s \in Participates \ Retains
  /\ None \notin Action

RecordState == Kind \cup {"offline", "ready", "degraded", "sleeping", "failed"}
Failure == {"none", "nonterminal", "terminal"}   \* by its recoverability
Mode == {"starting", "running", "recovering", "preparing_sleep", "sleeping",
         "waking", "stopping", "rolling_back", "idle"}
Phase == {"starting", "running", "preparing_sleep", "sleeping", "waking",
          "stopping", "stopped", "failed"}

State == [phase : Phase,                         \* of the coordinator
          mode : Mode,
          state : [Subsystem -> RecordState],
          owns : [Subsystem -> BOOLEAN],         \* owns_resources
          failure : [Subsystem -> Failure],
          action : Action \cup {None},           \* current_action
          sleepPending : SUBSET Subsystem,
          wakePending : SUBSET Subsystem,
          attempted : SUBSET Subsystem,          \* teardown_attempted
          restart : BOOLEAN]                     \* restart_after_stop

VARIABLE lc

-----------------------------------------------------------------------------
(* The state of the subsystems. *)

Owners(e) == {s \in Subsystem : e.owns[s]}

DependenciesReady(e, s) ==
  \A d \in Dependencies[s] : e.owns[d] /\ e.state[d] = "ready"

OwnedDependent_None(e, d) == FALSE
OwnedDependent(e, d) == \E s \in Owners(e) \ {d} : d \in Dependencies[s]

\* restore_stable_state, for a subsystem whose sleep or wake is called off.
Stable(e, s) ==
  IF e.failure[s] = "terminal" THEN "failed"
  ELSE IF e.failure[s] = "nonterminal" THEN "degraded"
  ELSE IF e.owns[s] THEN "ready" ELSE "sleeping"

Issue(e, s, kind) ==
  [e EXCEPT !.state[s] = kind, !.action = [subsystem |-> s, kind |-> kind]]

\* The engine is the coordinator's only participant, so acknowledging the phase
\* it observes completes it.
Reached == [starting |-> "running", waking |-> "running",
            preparing_sleep |-> "sleeping", stopping |-> "stopped"]
Acknowledge(e, phase, mode) ==
  IF e.phase \notin DOMAIN Reached THEN e
  ELSE IF Reached[e.phase] # phase THEN [e EXCEPT !.phase = Reached[e.phase]]
  ELSE [e EXCEPT !.phase = phase, !.mode = mode]

\* LifecycleParticipant::fail.
FailLifetime(e) == [e EXCEPT !.phase = IF e.phase = "stopped" THEN "stopped" ELSE "failed"]

-----------------------------------------------------------------------------
(* Scheduling: each of these ends a handler that left the state e. *)

Scheduled(e) == lc' = e

ScheduleInitialization(e) ==
  LET idle  == {s \in Subsystem : ~e.owns[s] /\ e.state[s] = "offline"}
      ready == {s \in idle : DependenciesReady(e, s)}
  IN IF idle = {} THEN Scheduled(Acknowledge(e, "running", "running"))
     ELSE IF ready = {} THEN Scheduled(e)                   \* no progress: an error
     ELSE \E s \in ready :
            First(s, ready) /\ Scheduled(Issue([e EXCEPT !.failure[s] = "none"], s, "initializing"))

ScheduleSleep(e) ==
  \/ \E s \in e.sleepPending :
       Last(s, e.sleepPending) /\ Scheduled(Issue(e, s, "preparing_sleep"))
  \/ e.sleepPending = {} /\ Scheduled(Acknowledge(e, "sleeping", "sleeping"))

ScheduleWake(e) ==
  \/ \E s \in e.wakePending : First(s, e.wakePending) /\ Scheduled(Issue(e, s, "waking"))
  \/ e.wakePending = {} /\ Scheduled(Acknowledge(e, "running", "running"))

Fresh(restart) ==
  [phase |-> "starting", mode |-> "starting",
   state |-> [s \in Subsystem |-> "offline"], owns |-> [s \in Subsystem |-> FALSE],
   failure |-> [s \in Subsystem |-> "none"], action |-> None,
   sleepPending |-> {}, wakePending |-> {}, attempted |-> {}, restart |-> restart]

\* start_new_lifetime and request_restart, which want a stopped coordinator.
StartLifetime(e) ==
  IF e.phase = "stopped" THEN ScheduleInitialization(Fresh(e.restart)) ELSE Scheduled(e)

\* Nothing is owned any more: the end of schedule_next_teardown.
TornDown(e) ==
  LET stopped == IF e.phase = "stopping" THEN Acknowledge(e, "stopped", "idle")
                 ELSE [e EXCEPT !.mode = "idle"]
  IN IF e.mode = "stopping"
       THEN IF stopped.restart THEN StartLifetime([stopped EXCEPT !.restart = FALSE])
            ELSE Scheduled(stopped)
     ELSE IF e.mode = "rolling_back" THEN Scheduled([e EXCEPT !.mode = "idle"])
     ELSE Scheduled(e)

\* A subsystem whose teardown failed keeps what it owns, and so does everything
\* it is built on.
ScheduleTeardown(e) ==
  LET due == {s \in Owners(e) \ e.attempted : ~OwnedDependent(e, s)}
      f   == [e EXCEPT !.action = None]
  IN \/ \E s \in due : Last(s, due) /\ Scheduled(Issue(e, s, "stopping"))
     \/ due = {} /\ Owners(e) # {} /\ Scheduled([f EXCEPT !.mode = "idle"])
     \/ Owners(e) = {} /\ TornDown(f)

-----------------------------------------------------------------------------
(* complete_action and fail_action, for the outstanding action. *)

ModesOf == [initializing |-> {"starting"}, recovering |-> {"recovering"},
            preparing_sleep |-> {"preparing_sleep"}, waking |-> {"waking"},
            stopping |-> {"stopping", "rolling_back"}]

\* The checks between an action and the state it is reported to; what a
\* failure's report does not check is true of it all the same.
Coherent(e) ==
  LET s == e.action.subsystem
      k == e.action.kind
  IN /\ e.mode \in ModesOf[k]
     /\ e.state[s] = k
     /\ k = "preparing_sleep" => s \in e.sleepPending
     /\ k = "waking" => s \in e.wakePending

\* invalid_state loses the action, and nothing follows it.
Report(kind, s, Handle) ==
  /\ lc.action = [subsystem |-> s, kind |-> kind]
  /\ IF Coherent(lc) THEN Handle ELSE Scheduled([lc EXCEPT !.action = None])

Taken(s, state, owned, failure) ==
  [lc EXCEPT !.action = None, !.state[s] = state, !.owns[s] = owned, !.failure[s] = failure]

CompleteInitialize(s) ==
  Report("initializing", s,
    ScheduleInitialization(Taken(s, "ready", TRUE, "none")))

CompleteRecover(s) ==
  Report("recovering", s,
    Scheduled([Taken(s, "ready", TRUE, "none") EXCEPT !.mode = "running"]))

\* The failure a degraded subsystem goes to sleep with is kept.
CompletePrepareSleep_Again(s) ==
  Report("preparing_sleep", s, ScheduleSleep(Taken(s, "sleeping", s \in Retains, lc.failure[s])))
CompletePrepareSleep(s) ==
  Report("preparing_sleep", s,
    ScheduleSleep([Taken(s, "sleeping", s \in Retains, lc.failure[s])
                        EXCEPT !.sleepPending = @ \ {s}]))

CompleteWake(s) ==
  Report("waking", s,
    ScheduleWake([Taken(s, "ready", TRUE, "none") EXCEPT !.wakePending = @ \ {s}]))

CompleteTeardown(s) ==
  Report("stopping", s,
    ScheduleTeardown([Taken(s, "offline", FALSE, "none") EXCEPT !.attempted = @ \cup {s}]))

\* The failure is terminal or it is not.
Class == {"nonterminal", "terminal"}
Unusable(f) == IF f = "terminal" THEN "failed" ELSE "degraded"

\* A failed initialization ends the lifetime and rolls back what is there.
FailInitialize(s, f) ==
  Report("initializing", s,
    ScheduleTeardown([FailLifetime(Taken(s, "failed", FALSE, f))
                           EXCEPT !.mode = "rolling_back", !.attempted = {}]))

FailRecover(s, f) ==
  Report("recovering", s,
    LET e == Taken(s, Unusable(f), lc.owns[s], f)
       IN Scheduled(IF f = "terminal" THEN [FailLifetime(e) EXCEPT !.mode = "idle"]
                    ELSE [e EXCEPT !.mode = "running"]))

FailPrepareSleep(s, f) ==
  Report("preparing_sleep", s,
    LET e == [Taken(s, Unusable(f), TRUE, f) EXCEPT !.sleepPending = @ \ {s}]
       IN IF f = "terminal"
            THEN Scheduled([FailLifetime(e) EXCEPT !.mode = "idle", !.sleepPending = {}])
            ELSE ScheduleSleep(e))

FailWake_NotOwned(s, f) ==
  Report("waking", s,
    LET e == [Taken(s, Unusable(f), FALSE, f) EXCEPT !.wakePending = @ \ {s}]
       IN IF f = "terminal"
            THEN Scheduled([FailLifetime(e) EXCEPT !.mode = "idle", !.wakePending = {}])
            ELSE ScheduleWake(e))
FailWake(s, f) ==
  Report("waking", s,
    LET e == [Taken(s, Unusable(f), TRUE, f) EXCEPT !.wakePending = @ \ {s}]
       IN IF f = "terminal"
            THEN Scheduled([FailLifetime(e) EXCEPT !.mode = "idle", !.wakePending = {}])
            ELSE ScheduleWake(e))

FailTeardown(s, f) ==
  Report("stopping", s,
    ScheduleTeardown([FailLifetime(Taken(s, "failed", TRUE, f)) EXCEPT !.attempted = @ \cup {s}]))

Complete(s) == CompleteInitialize(s) \/ CompleteRecover(s) \/ CompletePrepareSleep(s)
                 \/ CompleteWake(s) \/ CompleteTeardown(s)
Fail(s, f) == FailInitialize(s, f) \/ FailRecover(s, f) \/ FailPrepareSleep(s, f)
                \/ FailWake(s, f) \/ FailTeardown(s, f)

-----------------------------------------------------------------------------
(* Requests of the engine's owner.  A refused one changes nothing and is not
   listed; one that finds the engine already there is accepted. *)

Working == lc.phase = "running" /\ lc.mode = "running" /\ lc.action = None

ReportRuntimeFailure(s, f) ==
  /\ Working
  /\ lc.state[s] = "ready" /\ lc.owns[s]
  /\ LET e == [lc EXCEPT !.state[s] = Unusable(f), !.failure[s] = f]
     IN Scheduled(IF f = "terminal" THEN [FailLifetime(e) EXCEPT !.mode = "idle"] ELSE e)

BeginRecovery(s) ==
  /\ Working
  /\ lc.state[s] = "degraded"
  /\ DependenciesReady(lc, s)
  /\ Scheduled(Issue([lc EXCEPT !.mode = "recovering"], s, "recovering"))

\* cancel_transition_action.
CallOff(e) ==
  IF e.action = None THEN e
  ELSE [e EXCEPT !.action = None, !.state[e.action.subsystem] = Stable(e, e.action.subsystem)]
Only(kind) == lc.action = None \/ lc.action.kind = kind

BeginSleep ==
  \/ lc.phase \in {"preparing_sleep", "sleeping"} /\ Scheduled(lc)
  \/ /\ \/ Working
        \/ lc.phase = "waking" /\ lc.mode = "waking" /\ Only("waking")
     /\ ScheduleSleep([CallOff(lc) EXCEPT
                         !.phase = "preparing_sleep", !.mode = "preparing_sleep",
                         !.wakePending = {}, !.sleepPending = Participates \cap Owners(lc)])

BeginWake ==
  \/ lc.phase = "waking" /\ lc.mode = "waking" /\ Scheduled(lc)
  \/ /\ \/ Working
        \/ lc.phase = "sleeping" /\ lc.mode = "sleeping"
        \/ /\ lc.phase = "preparing_sleep" /\ lc.mode = "preparing_sleep"
           /\ Only("preparing_sleep")
     /\ ScheduleWake([(IF lc.phase = "preparing_sleep" THEN CallOff(lc) ELSE lc) EXCEPT
                        !.phase = "waking", !.mode = "waking",
                        !.sleepPending = {}, !.wakePending = Participates])

\* cancel_pending_action.
Cancelled_KeepsState(e) == [e EXCEPT !.action = None]
Cancelled(e) ==
  LET s == e.action.subsystem
      g == [e EXCEPT !.action = None]
  IN IF e.action = None THEN e
     ELSE IF e.action.kind = "initializing"
       THEN [g EXCEPT !.state[s] = "offline", !.owns[s] = FALSE]
     ELSE IF e.action.kind = "recovering"
       THEN [g EXCEPT !.state[s] = "degraded", !.owns[s] = TRUE]
     ELSE IF e.action.kind = "stopping"
       THEN [g EXCEPT !.state[s] = IF e.failure[s] # "none" THEN "failed" ELSE "ready",
                      !.owns[s] = TRUE]
     ELSE [g EXCEPT !.state[s] = Stable(e, s)]

\* Volatile subsystems that are asleep have nothing to tear down.
PutOffline(e) ==
  LET gone == {s \in Subsystem : ~e.owns[s] /\ e.state[s] \in {"preparing_sleep", "sleeping", "waking"}}
  IN [e EXCEPT !.state = [s \in Subsystem |-> IF s \in gone THEN "offline" ELSE e.state[s]],
               !.failure = [s \in Subsystem |-> IF s \in gone THEN "none" ELSE e.failure[s]]]

TearingDown == lc.mode = "stopping" /\ lc.action # None

\* begin_shutdown and, for any engine that has not stopped, begin_restart.  A
\* teardown under way goes on; it learns of a restart but not of a shutdown.
BeginShutdown(restart) ==
  \/ lc.phase = "stopped" /\ ~restart /\ Scheduled(lc)
  \/ /\ lc.phase # "stopped" /\ TearingDown
     /\ Scheduled([lc EXCEPT !.restart = @ \/ restart])
  \/ /\ lc.phase # "stopped" /\ ~TearingDown
     /\ ScheduleTeardown([PutOffline(Cancelled(lc)) EXCEPT
                            !.sleepPending = {}, !.wakePending = {}, !.attempted = {},
                            !.phase = "stopping", !.mode = "stopping", !.restart = restart])

BeginRestart ==
  lc.phase = "stopped" /\ StartLifetime([lc EXCEPT !.restart = FALSE])

-----------------------------------------------------------------------------
(* Work is admitted by the published state alone. *)

Admits(required) == lc.phase = "running" /\ \A s \in required : lc.state[s] = "ready"

EngineInit == \E s \in Subsystem :
                /\ First(s, {t \in Subsystem : Dependencies[t] = {}})
                /\ lc = Issue(Fresh(FALSE), s, "initializing")

EngineNext ==
  \/ \E s \in Subsystem :
       Complete(s) \/ BeginRecovery(s)
         \/ \E f \in Class : Fail(s, f) \/ ReportRuntimeFailure(s, f)
  \/ BeginSleep \/ BeginWake \/ BeginRestart
  \/ \E restart \in BOOLEAN : BeginShutdown(restart)

EngineSpec == EngineInit /\ [][EngineNext]_lc

-----------------------------------------------------------------------------
(* Properties of the state. *)

EngineTypeOK == lc \in State

\* The action handed out is always one its report will be accepted for, and a
\* subsystem is in a passing state exactly while it holds that action: no
\* request, however timed, leaves a subsystem waiting for a report nobody owes.
ActionIsCoherent ==
  /\ lc.action # None => Coherent(lc)
  /\ \A s \in Subsystem :
       lc.state[s] \in Kind => lc.action = [subsystem |-> s, kind |-> lc.state[s]]

\* Progress is always owed by somebody: outside the resting modes an action is
\* outstanding, and the coordinator's phase is the one the mode works for.
PhaseOfMode ==
  /\ lc.action = None => lc.mode \in {"running", "sleeping", "idle"}
  /\ lc.mode = "idle" => lc.phase \in {"failed", "stopped"}
  /\ lc.mode = "rolling_back" => lc.phase = "failed"
  /\ lc.mode = "stopping" => lc.phase \in {"stopping", "failed"}
  /\ lc.mode = "recovering" => lc.phase = "running"
  /\ lc.mode \in {"starting", "running", "preparing_sleep", "sleeping", "waking"}
       => lc.phase = lc.mode

\* An engine that says it runs owns every subsystem, after any mix of sleeps,
\* wakes called off, failures and recoveries; one that is stopped owns nothing.
OwnershipFollowsPhase ==
  /\ lc.phase = "running" => Owners(lc) = Subsystem
  /\ lc.phase = "stopped" => Owners(lc) = {}
  /\ \A s \in Subsystem : lc.state[s] = "ready" => lc.owns[s]
=============================================================================
