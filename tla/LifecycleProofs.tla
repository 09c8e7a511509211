-------------------------- MODULE LifecycleProofs --------------------------
(* Theorems about Lifecycle, for every set of participants and every bound *)
(* on the revisions.                                                       *)
EXTENDS Lifecycle, TLAPS

USE DEF coordVars, Transitional, Stable, Phase, Intent

LEMMA InitIInv == Init => IInv
  <1> SUFFICES ASSUME Init PROVE IInv
    OBVIOUS
  <1> USE LifecycleAssumption
  <1>1. TypeOK
    <2>1. phase \in Phase /\ 0 \in 0 .. MaxRevision /\ -1 \in -1 .. MaxRevision
      BY DEF Init
    <2>2. << phase, 0 >> \in Phase \X (0 .. MaxRevision)
      BY <2>1
    <2>3. acked \in [Participant -> -1 .. MaxRevision]
      BY <2>1 DEF Init
    <2>4. seen \in [Participant -> Phase \X (0 .. MaxRevision)]
      BY <2>2 DEF Init
    <2> QED
      BY <2>1, <2>2, <2>3, <2>4 DEF Init, TypeOK
  <1>2. \A p \in Participant : acked[p] = -1
    BY DEF Init
  <1>3. Unanimous /\ AcksBehind
    BY <1>2 DEF Init, Unanimous, AcksBehind
  <1> QED
    BY <1>1, <1>3 DEF Init, IInv, FailureEndsLifetime, IntentKept, SignalTracksState

(* What every begin_transition leaves behind, whichever request made it: the *)
(* caller's own part is the phase it may start from and the intent it states.*)
LEMMA BeginType ==
  ASSUME TypeOK, NEW ph \in Transitional, NEW target \in Intent,
         NEW f \in Participant \cup {NoFailure}, Begin(ph, target, f), intended' \in Intent
  PROVE  TypeOK'
  BY LifecycleAssumption DEF TypeOK, Begin, Publish, Completed

LEMMA BeginUnanimous ==
  ASSUME TypeOK, Unanimous, AcksBehind, NEW ph \in Transitional, NEW target \in Intent,
         NEW f, Begin(ph, target, f)
  PROVE  Unanimous' /\ AcksBehind'
  <1>1. AcksBehind'
    BY DEF TypeOK, AcksBehind, Begin, Publish
  <1>2. CASE revision = MaxRevision
    <2>1. UNCHANGED << phase, revision, pending, acked >>
      BY <1>2, LifecycleAssumption DEF TypeOK, Begin, Publish
    <2> QED
      BY <1>1, <2>1 DEF Unanimous
  <1>3. CASE revision < MaxRevision /\ Participant # {}
    <2>1. phase' = ph /\ revision' = revision + 1 /\ pending' = Participant /\ acked' = acked
      BY <1>3 DEF Begin, Publish, TypeOK
    <2>2. ASSUME NEW p \in Participant PROVE acked[p] # revision + 1
      <3>1. acked[p] \in Int /\ revision \in Int /\ acked[p] <= revision
        BY LifecycleAssumption DEF TypeOK, AcksBehind
      <3> QED
        BY <3>1
    <2> QED
      BY <1>1, <2>1, <2>2 DEF Unanimous
  <1>4. CASE revision < MaxRevision /\ Participant = {}
    <2>1. pending' = {}
      BY <1>4, LifecycleAssumption DEF Begin, Publish, TypeOK
    <2> QED
      BY <1>1, <1>4, <2>1 DEF Unanimous
  <1> QED
    BY <1>1, <1>2, <1>3, <1>4, LifecycleAssumption DEF TypeOK

LEMMA BeginSignal ==
  ASSUME TypeOK, SignalTracksState, NEW ph, NEW target, NEW f, Begin(ph, target, f)
  PROVE  SignalTracksState'
  BY LifecycleAssumption DEF TypeOK, SignalTracksState, Begin, Publish

(* One lemma per kind of step. *)
LEMMA RequestStep ==
  ASSUME IInv, Request
  PROVE  IInv'
  <1> USE DEF IInv
  <1>1. ASSUME RequestPause PROVE IInv'
    <2>1. wakeTarget \in Intent /\ failure \in Participant \cup {NoFailure} /\ intended' \in Intent
      BY <1>1 DEF RequestPause, TypeOK, Intend
    <2>2. TypeOK' /\ Unanimous' /\ AcksBehind' /\ SignalTracksState'
      BY <1>1, <2>1, BeginType, BeginUnanimous, BeginSignal DEF RequestPause
    <2>3. FailureEndsLifetime'
      BY <1>1, LifecycleAssumption DEF RequestPause, Begin, Publish, Completed, FailureEndsLifetime, TypeOK
    <2>4. IntentKept'
      BY <1>1, LifecycleAssumption DEF RequestPause, Begin, Publish, Completed, IntentKept, Intend, TypeOK
    <2> QED
      BY <2>2, <2>3, <2>4
  <1>2. ASSUME RequestResume PROVE IInv'
    <2>1. wakeTarget \in Intent /\ failure \in Participant \cup {NoFailure} /\ intended' \in Intent
      BY <1>2 DEF RequestResume, TypeOK, Intend
    <2>2. TypeOK' /\ Unanimous' /\ AcksBehind' /\ SignalTracksState'
      BY <1>2, <2>1, BeginType, BeginUnanimous, BeginSignal DEF RequestResume
    <2>3. FailureEndsLifetime'
      BY <1>2, LifecycleAssumption DEF RequestResume, Begin, Publish, Completed, FailureEndsLifetime, TypeOK
    <2>4. IntentKept'
      BY <1>2, LifecycleAssumption DEF RequestResume, Begin, Publish, Completed, IntentKept, Intend, TypeOK
    <2> QED
      BY <2>2, <2>3, <2>4
  <1>3. ASSUME RequestSleep PROVE IInv'
    <2>1. wakeTarget \in Intent /\ failure \in Participant \cup {NoFailure} /\ intended' \in Intent
      BY <1>3 DEF RequestSleep, TypeOK
    <2>2. TypeOK' /\ Unanimous' /\ AcksBehind' /\ SignalTracksState'
      BY <1>3, <2>1, BeginType, BeginUnanimous, BeginSignal DEF RequestSleep
    <2>3. FailureEndsLifetime'
      BY <1>3, LifecycleAssumption DEF RequestSleep, Begin, Publish, Completed, FailureEndsLifetime, TypeOK
    <2>4. IntentKept'
      BY <1>3, LifecycleAssumption DEF RequestSleep, Begin, Publish, Completed, IntentKept, TypeOK
    <2> QED
      BY <2>2, <2>3, <2>4
  <1>4. ASSUME RequestWake PROVE IInv'
    <2>1. wakeTarget \in Intent /\ failure \in Participant \cup {NoFailure} /\ intended' \in Intent
      BY <1>4 DEF RequestWake, TypeOK
    <2>2. TypeOK' /\ Unanimous' /\ AcksBehind' /\ SignalTracksState'
      BY <1>4, <2>1, BeginType, BeginUnanimous, BeginSignal DEF RequestWake
    <2>3. FailureEndsLifetime'
      BY <1>4, LifecycleAssumption DEF RequestWake, Begin, Publish, Completed, FailureEndsLifetime, TypeOK
    <2>4. IntentKept'
      BY <1>4, LifecycleAssumption DEF RequestWake, Begin, Publish, Completed, IntentKept, TypeOK
    <2> QED
      BY <2>2, <2>3, <2>4
  <1>5. ASSUME RequestShutdown PROVE IInv'
    <2>1. wakeTarget \in Intent /\ failure \in Participant \cup {NoFailure} /\ intended' \in Intent
      BY <1>5 DEF RequestShutdown, TypeOK
    <2>2. TypeOK' /\ Unanimous' /\ AcksBehind' /\ SignalTracksState'
      BY <1>5, <2>1, BeginType, BeginUnanimous, BeginSignal DEF RequestShutdown
    <2>3. FailureEndsLifetime'
      BY <1>5, LifecycleAssumption DEF RequestShutdown, Begin, Publish, Completed, FailureEndsLifetime, TypeOK
    <2>4. IntentKept'
      BY <1>5, LifecycleAssumption DEF RequestShutdown, Begin, Publish, Completed, IntentKept, TypeOK
    <2> QED
      BY <2>2, <2>3, <2>4
  <1>6. ASSUME RequestRestart PROVE IInv'
    <2>1. NoFailure \in Participant \cup {NoFailure} /\ intended' \in Intent
      BY <1>6 DEF RequestRestart, TypeOK, Intend
    <2>2. TypeOK' /\ Unanimous' /\ AcksBehind' /\ SignalTracksState'
      BY <1>6, <2>1, BeginType, BeginUnanimous, BeginSignal DEF RequestRestart
    <2>3. FailureEndsLifetime'
      BY <1>6, LifecycleAssumption DEF RequestRestart, Begin, Publish, Completed, FailureEndsLifetime, TypeOK
    <2>4. IntentKept'
      BY <1>6, LifecycleAssumption DEF RequestRestart, Begin, Publish, Completed, IntentKept, Intend, TypeOK
    <2> QED
      BY <2>2, <2>3, <2>4
  <1> QED
    BY <1>1, <1>2, <1>3, <1>4, <1>5, <1>6 DEF Request

LEMMA AcknowledgeStep ==
  ASSUME IInv, NEW p \in Participant, Acknowledge(p)
  PROVE  IInv'
  <1> USE DEF IInv
  <1>1. seen[p][2] = revision /\ revision \in 0 .. MaxRevision /\ acked' = [acked EXCEPT ![p] = revision]
    BY DEF Acknowledge, Current, TypeOK
  <1>2. \A q \in Participant : acked'[q] = IF q = p THEN revision ELSE acked[q]
    BY <1>1 DEF TypeOK
  <1>3. CASE pending = {p}
    <2>1. \A q \in Participant : acked'[q] = revision
      BY <1>2, <1>3 DEF Unanimous, Acknowledge
    <2>2. CompleteTransition
      BY <1>3 DEF Acknowledge
    <2>3. CASE revision < MaxRevision
      <3>1. /\ phase' = Completed(phase, wakeTarget) /\ phase' \in Stable
            /\ revision' = revision + 1 /\ revision + 1 \in 0 .. MaxRevision
            /\ pending' = {} /\ signal' = << phase', revision' >>
        BY <2>2, <2>3, <1>1, LifecycleAssumption DEF CompleteTransition, Publish, Completed, Acknowledge, TypeOK
      <3>2. UNCHANGED << wakeTarget, failure, seen, intended >>
        BY DEF Acknowledge
      <3>3. TypeOK'
        BY <1>1, <3>1, <3>2, LifecycleAssumption DEF TypeOK
      <3>4. Unanimous' /\ AcksBehind'
        BY <1>1, <2>1, <3>1, LifecycleAssumption DEF Unanimous, AcksBehind
      <3>5. FailureEndsLifetime'
        BY <3>1, <3>2 DEF FailureEndsLifetime, Completed, Acknowledge
      <3>6. IntentKept'
        BY <2>3, <3>1, <3>2 DEF IntentKept, Completed, Acknowledge
      <3> QED
        BY <3>1, <3>3, <3>4, <3>5, <3>6 DEF SignalTracksState
    <2>4. CASE revision = MaxRevision
      <3>1. pending' = {} /\ UNCHANGED << phase, revision, signal, wakeTarget, failure, seen, intended >>
        BY <2>2, <2>4, LifecycleAssumption DEF CompleteTransition, Acknowledge
      <3> QED
        BY <1>1, <1>2, <2>1, <2>4, <3>1, LifecycleAssumption
        DEF TypeOK, Unanimous, AcksBehind, FailureEndsLifetime, IntentKept, SignalTracksState, Acknowledge
    <2> QED
      BY <2>3, <2>4, <1>1, LifecycleAssumption
  <1>4. CASE pending # {p}
    <2>1. pending' = pending \ {p} /\ UNCHANGED << phase, revision, signal, wakeTarget, failure, seen, intended >>
      BY <1>4 DEF Acknowledge
    <2>2. Unanimous' /\ AcksBehind'
      BY <1>1, <1>2, <2>1, LifecycleAssumption DEF Unanimous, AcksBehind, Acknowledge
    <2> QED
      BY <1>1, <2>1, <2>2, LifecycleAssumption
      DEF TypeOK, FailureEndsLifetime, IntentKept, SignalTracksState
  <1> QED
    BY <1>3, <1>4

LEMMA StepIInv == IInv /\ [Next]_vars => IInv'
  <1> SUFFICES ASSUME IInv, [Next]_vars PROVE IInv'
    OBVIOUS
  <1>1. CASE Request
    BY <1>1, RequestStep
  <1>2. ASSUME NEW p \in Participant, Load(p) PROVE IInv'
    BY <1>2 DEF IInv, Load, TypeOK, Unanimous, AcksBehind, FailureEndsLifetime, IntentKept, SignalTracksState
  <1>3. ASSUME NEW p \in Participant, Acknowledge(p) PROVE IInv'
    BY <1>3, AcknowledgeStep
  <1>4. ASSUME NEW p \in Participant, Fail(p) PROVE IInv'
    BY <1>4, LifecycleAssumption
    DEF IInv, Fail, Publish, TypeOK, Unanimous, AcksBehind, FailureEndsLifetime, IntentKept, SignalTracksState
  <1>5. CASE UNCHANGED vars
    BY <1>5 DEF vars, IInv, TypeOK, Unanimous, AcksBehind, FailureEndsLifetime, IntentKept, SignalTracksState
  <1> QED
    BY <1>1, <1>2, <1>3, <1>4, <1>5 DEF Next, ParticipantStep

(* The coordinator's inductive invariant. *)
THEOREM Inductive == Spec => []IInv
  BY InitIInv, StepIInv, PTL DEF Spec

(* What the coordinator publishes and keeps is of its type, also when the     *)
(* revisions are used up.                                                    *)
THEOREM TypeCorrect == Spec => []TypeOK
  BY Inductive, PTL DEF IInv

(* No acknowledgement of an older transition completes a newer one, however  *)
(* requests, acknowledgements and failures overlap.                          *)
THEOREM AcknowledgedByAll == Spec => []Unanimous
  BY Inductive, PTL DEF IInv

(* A lifetime that failed does no normal work again before a restart.        *)
THEOREM FailureIsFinal == Spec => []FailureEndsLifetime
  BY Inductive, PTL DEF IInv

(* Sleep and wake requests, in any order, never lose a pause or a resume.    *)
THEOREM IntentSurvivesSleep == Spec => []WakeHonoursIntent
  <1>1. IInv => WakeHonoursIntent
    BY DEF IInv, IntentKept, WakeHonoursIntent
  <1> QED
    BY <1>1, Inductive, PTL

(* A reader of the revision misses no change of phase or failure.            *)
THEOREM NoABA == Spec => RevisionCoversChanges
  <1>1. IInv /\ [Next]_vars /\ revision < MaxRevision /\ << phase, failure >>' # << phase, failure >>
          => revision' > revision
    BY LifecycleAssumption
    DEF IInv, TypeOK, Next, Request, RequestPause, RequestResume, RequestSleep, RequestWake,
        RequestShutdown, RequestRestart, Begin, Publish, ParticipantStep, Load, Acknowledge,
        CompleteTransition, Fail, vars
  <1> QED
    BY <1>1, Inductive, PTL DEF Spec, RevisionCoversChanges
=============================================================================
