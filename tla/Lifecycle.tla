----------------------------- MODULE Lifecycle -----------------------------
(***************************************************************************)
(* The lifecycle coordinator of superi-concurrency (src/lifecycle.rs).     *)
(* A fixed set of participants acknowledges every transitional phase under *)
(* the revision it was published with.  All of the coordinator's state is  *)
(* behind one mutex, so a request, an acknowledgement or a failure is one  *)
(* action; a participant reads the lock-free signal in one step and acts   *)
(* on what it read in a later one, when the signal may have moved on.      *)
(***************************************************************************)
EXTENDS Integers

CONSTANTS Participant,   \* registered participants
          MaxRevision,   \* MAX_REVISION: 56 bits beside the 8 of the phase
          NoFailure      \* no retained failure

ASSUME LifecycleAssumption ==
  /\ MaxRevision \in Nat \ {0}
  /\ NoFailure \notin Participant

Transitional == {"starting", "pausing", "resuming", "preparing_sleep", "waking", "stopping"}
Stable == {"running", "paused", "sleeping", "stopped"}
Phase  == Transitional \cup Stable \cup {"failed"}
Intent == {"running", "paused"}

VARIABLES
  phase, revision,   \* the current phase and its revision
  pending,           \* participants that have not acknowledged it
  wakeTarget,        \* wake_target: where a completed wake leads
  failure,           \* the participant whose failure is retained
  signal,            \* << phase, revision >> in the atomic word
  seen,              \* seen[p]: the signal p last loaded
  \* --- history, read by properties only ---
  acked,             \* acked[p]: revision of p's last counted acknowledgement
  intended           \* what the last accepted pause, resume or start asked for

coordVars == << phase, revision, pending, wakeTarget, failure, signal >>
vars == << coordVars, seen, acked, intended >>

Init ==
  /\ phase = IF Participant = {} THEN "running" ELSE "starting"
  /\ revision = 0
  /\ pending = Participant
  /\ wakeTarget = "running"
  /\ failure = NoFailure
  /\ signal = << phase, 0 >>
  /\ seen = [p \in Participant |-> << phase, 0 >>]
  /\ acked = [p \in Participant |-> -1]
  /\ intended = "running"

-----------------------------------------------------------------------------
(* Transitions. *)

\* Where complete_transition leads from a transitional phase.
Completed_ForgetsPause(ph, target) ==
  IF ph \in {"starting", "resuming", "waking"} THEN "running"
  ELSE IF ph = "pausing" THEN "paused"
  ELSE IF ph = "preparing_sleep" THEN "sleeping" ELSE "stopped"
Completed(ph, target) ==
  IF ph \in {"starting", "resuming"} THEN "running"
  ELSE IF ph = "pausing" THEN "paused"
  ELSE IF ph = "preparing_sleep" THEN "sleeping"
  ELSE IF ph = "waking" THEN target ELSE "stopped"

\* The state after a critical section that ends in a changed state.
Publish(ph, n, owing) ==
  /\ phase' = ph /\ revision' = n /\ pending' = owing
  /\ signal' = << ph, n >>

\* begin_transition.  With the revisions used up the request is refused after
\* its caller has set wake_target and failure; without participants the phase
\* completes at once, unless the second revision is the one that is missing.
Begin(ph, target, f) ==
  /\ wakeTarget' = target
  /\ failure' = f
  /\ \/ /\ revision = MaxRevision
        /\ UNCHANGED << phase, revision, pending, signal >>
     \/ /\ revision < MaxRevision
        /\ Participant # {}
        /\ Publish(ph, revision + 1, Participant)
     \/ /\ revision + 1 = MaxRevision
        /\ Participant = {}
        /\ phase' = ph /\ revision' = revision + 1 /\ pending' = {}
        /\ UNCHANGED signal
     \/ /\ revision + 1 < MaxRevision
        /\ Participant = {}
        /\ Publish(Completed(ph, target), revision + 2, {})
  /\ UNCHANGED << seen, acked >>

\* A refused request leaves the intent alone.
Intend(i) == intended' = IF revision < MaxRevision THEN i ELSE intended

\* Requests that find the coordinator already there, or are in conflict with
\* its phase, change nothing and are not listed.
RequestPause ==
  /\ \/ /\ phase \in {"running", "starting", "resuming"}
        /\ Begin("pausing", wakeTarget, failure)
     \/ /\ phase = "waking"
        /\ Begin("waking", "paused", failure)
  /\ Intend("paused")

RequestResume ==
  /\ \/ /\ phase \in {"paused", "pausing"}
        /\ Begin("resuming", wakeTarget, failure)
     \/ /\ phase = "waking"
        /\ Begin("waking", "running", failure)
  /\ Intend("running")

RequestSleep ==
  /\ \/ /\ phase \in {"starting", "running", "resuming"}
        /\ Begin("preparing_sleep", "running", failure)
     \/ /\ phase \in {"pausing", "paused"}
        /\ Begin("preparing_sleep", "paused", failure)
     \/ /\ phase = "waking"
        /\ Begin("preparing_sleep", wakeTarget, failure)
  /\ UNCHANGED intended

RequestWake ==
  /\ \/ /\ phase \in {"preparing_sleep", "sleeping"}
        /\ Begin("waking", wakeTarget, failure)
     \/ /\ phase \in {"starting", "running", "resuming"}
        /\ Begin("waking", "running", failure)
     \/ /\ phase \in {"pausing", "paused"}
        /\ Begin("waking", "paused", failure)
  /\ UNCHANGED intended

RequestShutdown ==
  /\ phase \notin {"stopping", "stopped"}
  /\ Begin("stopping", wakeTarget, failure)
  /\ UNCHANGED intended

RequestRestart_KeepsFailure ==
  phase = "stopped" /\ Begin("starting", "running", failure) /\ Intend("running")
RequestRestart ==
  /\ phase = "stopped"
  /\ Begin("starting", "running", NoFailure)
  /\ Intend("running")

Request == RequestPause \/ RequestResume \/ RequestSleep \/ RequestWake
             \/ RequestShutdown \/ RequestRestart

-----------------------------------------------------------------------------
(* Participants. *)

\* LifecycleSignal::load.
Load(p) ==
  /\ seen[p] # signal
  /\ seen' = [seen EXCEPT ![p] = signal]
  /\ UNCHANGED << coordVars, acked, intended >>

\* The transition acknowledged must be the current one.
Current_AnyRevision(token) == token[1] = phase
Current(token) == token = << phase, revision >>

\* complete_transition, or its refusal after pending was already emptied.
CompleteTransition_Forgotten == pending' = {} /\ UNCHANGED << phase, revision, signal >>
CompleteTransition ==
  \/ /\ revision < MaxRevision
     /\ Publish(Completed(phase, wakeTarget), revision + 1, {})
  \/ /\ revision = MaxRevision
     /\ pending' = {}
     /\ UNCHANGED << phase, revision, signal >>

\* acknowledge with the snapshot p loaded; repeats and stale tokens are refused.
Acknowledge(p) ==
  /\ Current(seen[p])
  /\ phase \in Transitional
  /\ p \in pending
  /\ acked' = [acked EXCEPT ![p] = seen[p][2]]
  /\ IF pending = {p}
       THEN CompleteTransition
       ELSE /\ pending' = pending \ {p}
            /\ UNCHANGED << phase, revision, signal >>
  /\ UNCHANGED << wakeTarget, failure, seen, intended >>

\* fail carries no revision: it ends whatever lifetime it meets.
Fail_SameRevision(p) ==
  /\ phase # "stopped"
  /\ Publish("failed", revision, {})
  /\ failure' = p
  /\ UNCHANGED << wakeTarget, seen, acked, intended >>
Fail(p) ==
  /\ phase # "stopped"
  /\ revision < MaxRevision
  /\ Publish("failed", revision + 1, {})
  /\ failure' = p
  /\ UNCHANGED << wakeTarget, seen, acked, intended >>

ParticipantStep(p) == Load(p) \/ Acknowledge(p)

Next == Request \/ \E p \in Participant : ParticipantStep(p) \/ Fail(p)

Spec == Init /\ [][Next]_vars

\* Participants keep polling the signal and acknowledge what they load; nobody
\* has to make a request or fail.
FairSpec == Spec /\ \A p \in Participant : WF_vars(Load(p)) /\ WF_vars(Acknowledge(p))
-----------------------------------------------------------------------------
(* Properties. *)

TypeOK ==
  /\ phase \in Phase
  /\ revision \in 0 .. MaxRevision
  /\ pending \subseteq Participant
  /\ wakeTarget \in Intent
  /\ failure \in Participant \cup {NoFailure}
  /\ signal \in Phase \X (0 .. MaxRevision)
  /\ seen \in [Participant -> Phase \X (0 .. MaxRevision)]
  /\ acked \in [Participant -> -1 .. MaxRevision]
  /\ intended \in Intent

\* Late work never completes a newer request: a transitional phase is waiting
\* for exactly the participants that have not acknowledged its own revision, and
\* a stable phase is entered only when all of them acknowledged the one before.
Unanimous ==
  /\ phase \in Transitional => pending = {p \in Participant : acked[p] # revision}
  /\ phase \in Stable => \A p \in Participant : acked[p] = revision - 1

\* A failure prevents normal work for the rest of the lifetime: until a restart
\* the coordinator is failed or being torn down, whoever acknowledges what.
FailureEndsLifetime ==
  /\ failure # NoFailure => phase \in {"failed", "stopping", "stopped"}
  /\ phase = "failed" => failure # NoFailure

\* Sleeping and waking, in any order and interrupted at any point, lead back to
\* what the last pause, resume or start asked for.
WakeHonoursIntent == phase \in Intent => phase = intended

\* Why it does: the target kept through sleep is the intent, and every other
\* phase on the way knows where it leads.
IntentKept ==
  /\ phase \in {"starting", "resuming", "running"} => intended = "running"
  /\ phase \in {"pausing", "paused"} => intended = "paused"
  /\ phase \in {"preparing_sleep", "sleeping", "waking"} /\ revision < MaxRevision
       => wakeTarget = intended

\* The lock-free word is the locked state, until the revisions are used up.
SignalTracksState == revision < MaxRevision => signal = << phase, revision >>

\* Nobody has acknowledged a revision that was not published.
AcksBehind == \A p \in Participant : acked[p] <= revision

IInv == TypeOK /\ Unanimous /\ AcksBehind /\ FailureEndsLifetime /\ IntentKept /\ SignalTracksState

\* No ABA for wait_for_change: whoever finds the revision it knew has missed no
\* phase and no failure.
RevisionCoversChanges ==
  [][revision < MaxRevision /\ << phase, failure >>' # << phase, failure >>
       => revision' > revision]_vars

\* A transition settles once its participants keep polling, unless it is
\* replaced until the revisions run out.
TransitionSettles ==
  phase \in Transitional ~> (phase \notin Transitional \/ revision = MaxRevision)
=============================================================================
