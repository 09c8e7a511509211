------------------------ MODULE EngineDispatcherProofs ------------------------
(***************************************************************************)
(* Proofs about EngineLifecycle and EngineDispatcher, for every dependency *)
(* plan that PlanAssumption allows.                                        *)
(*                                                                         *)
(* A handler edits the lifecycle and ends in one of four schedulers.  Each *)
(* scheduler has a predicate (BeforeInit, BeforeSleep, BeforeWake,         *)
(* BeforeTeardown) that its callers establish, and one lemma says that     *)
(* from there it reaches Good, the inductive invariant of the lifecycle.   *)
(***************************************************************************)
EXTENDS EngineDispatcher, TLAPS

-----------------------------------------------------------------------------
(* The inductive invariant, of a lifecycle e. *)

Fits(e) ==
  /\ e.action # None => Coherent(e)
  /\ \A s \in Subsystem :
       e.state[s] \in Kind => e.action = [subsystem |-> s, kind |-> e.state[s]]

PhaseFits(e) ==
  /\ e.action = None => e.mode \in {"running", "sleeping", "idle"}
  /\ e.mode = "idle" => e.phase \in {"failed", "stopped"}
  /\ e.mode = "rolling_back" => e.phase = "failed"
  /\ e.mode = "stopping" => e.phase \in {"stopping", "failed"}
  /\ e.mode = "recovering" => e.phase = "running"
  /\ e.mode \in {"starting", "running", "preparing_sleep", "sleeping", "waking"}
       => e.phase = e.mode

\* An initialization finds what was acquired before it ready.
Initializes(e) ==
  e.mode = "starting" =>
    \A s \in Subsystem :
      \/ e.owns[s] /\ e.state[s] = "ready"
      \/ ~e.owns[s] /\ e.state[s] \in {"offline", "initializing"}

\* What sleep does not release is owned all along, what it has not released yet
\* is pending or was spared by a failure, and a wake asks for all the rest.
Sleeps(e) ==
  /\ e.phase \in {"preparing_sleep", "sleeping", "waking"} =>
       \A s \in Subsystem \ Participates : e.owns[s]
  /\ e.sleepPending # {} => e.mode = "preparing_sleep"
  /\ e.wakePending # {} => e.mode = "waking"
  /\ e.sleepPending \subseteq Owners(e) \cap Participates
  /\ e.action # None /\ e.action.kind = "preparing_sleep"
       => Last(e.action.subsystem, e.sleepPending)
  /\ e.phase = "preparing_sleep" =>
       \A t \in Owners(e) \cap (Participates \ Retains) :
         t \notin e.sleepPending => e.state[t] = "degraded"
  /\ e.phase = "waking" => \A s \in Subsystem : s \in e.wakePending \/ e.owns[s]

\* Until a release fails, teardown asks for nothing that is still owned again.
TearsDown(e) ==
  /\ e.mode = "stopping" /\ e.phase = "stopping" => e.attempted \cap Owners(e) = {}
  /\ e.action # None /\ e.action.kind = "stopping" => ~OwnedDependent(e, e.action.subsystem)

OwnsByPhase(e) ==
  /\ e.phase = "running" => Owners(e) = Subsystem
  /\ e.phase = "stopped" => Owners(e) = {}
  /\ \A s \in Subsystem : e.state[s] = "ready" => e.owns[s]

Good(e) ==
  /\ e \in State
  /\ Fits(e)
  /\ PhaseFits(e)
  /\ Initializes(e)
  /\ Sleeps(e)
  /\ TearsDown(e)
  /\ OwnsByPhase(e)

-----------------------------------------------------------------------------
(* What a handler leaves for its scheduler. *)

Settled(e) ==
  /\ e \in State
  /\ e.action = None
  /\ \A s \in Subsystem : e.state[s] \notin Kind /\ (e.state[s] = "ready" => e.owns[s])

BeforeInit(e) ==
  /\ Settled(e)
  /\ e.phase = "starting" /\ e.mode = "starting"
  /\ e.sleepPending = {} /\ e.wakePending = {}
  /\ \A s \in Subsystem :
       \/ e.owns[s] /\ e.state[s] = "ready"
       \/ ~e.owns[s] /\ e.state[s] = "offline"

BeforeSleep(e) ==
  /\ Settled(e)
  /\ e.phase = "preparing_sleep" /\ e.mode = "preparing_sleep"
  /\ e.wakePending = {}
  /\ \A s \in Subsystem \ Participates : e.owns[s]
  /\ e.sleepPending \subseteq Owners(e) \cap Participates
  /\ \A t \in Owners(e) \cap (Participates \ Retains) :
       t \notin e.sleepPending => e.state[t] = "degraded"

BeforeWake(e) ==
  /\ Settled(e)
  /\ e.phase = "waking" /\ e.mode = "waking"
  /\ e.sleepPending = {}
  /\ \A s \in Subsystem \ Participates : e.owns[s]
  /\ \A s \in Subsystem : s \in e.wakePending \/ e.owns[s]

BeforeTeardown(e) ==
  /\ Settled(e)
  /\ \/ e.mode = "stopping" /\ e.phase \in {"stopping", "failed"}
     \/ e.mode = "rolling_back" /\ e.phase = "failed"
  /\ e.sleepPending = {} /\ e.wakePending = {}
  /\ e.phase = "stopping" => e.attempted \cap Owners(e) = {}

\* What a scheduler does besides reaching Good.
Kept(e, f) ==
  /\ \A s \in Subsystem : e.owns[s] => f.owns[s]
  /\ f.action # None => f.action.kind # "recovering"

-----------------------------------------------------------------------------
(* Facts about the operators. *)

\* Issuing an action touches its subsystem's state and the action alone.
LEMMA IssueFields ==
  ASSUME NEW e \in State, NEW s \in Subsystem, NEW kind \in Kind
  PROVE  LET f == Issue(e, s, kind)
         IN /\ f \in State
            /\ f.action = [subsystem |-> s, kind |-> kind]
            /\ f.state = [e.state EXCEPT ![s] = kind]
            /\ f.phase = e.phase /\ f.mode = e.mode /\ f.owns = e.owns
            /\ f.failure = e.failure /\ f.restart = e.restart
            /\ f.sleepPending = e.sleepPending /\ f.wakePending = e.wakePending
            /\ f.attempted = e.attempted
<1> DEFINE f == Issue(e, s, kind)
<1>1. /\ f.action = [subsystem |-> s, kind |-> kind]
      /\ f.state = [e.state EXCEPT ![s] = kind]
      /\ f.phase = e.phase /\ f.mode = e.mode /\ f.owns = e.owns
      /\ f.failure = e.failure /\ f.restart = e.restart
      /\ f.sleepPending = e.sleepPending /\ f.wakePending = e.wakePending
      /\ f.attempted = e.attempted
  BY DEF Issue, State
<1>2. /\ [subsystem |-> s, kind |-> kind] \in Action
      /\ [e.state EXCEPT ![s] = kind] \in [Subsystem -> RecordState]
  BY DEF State, Action, RecordState
<1>3. f \in State
  BY <1>2 DEF Issue, State
<1> QED
  BY <1>1, <1>3

\* Every nonempty set of subsystems has one that none of its members is built on,
\* and one that is built on none of its members.
LEMMA PlanFacts ==
  ASSUME NEW s \in Subsystem, NEW d \in Dependencies[s]
  PROVE  /\ d \in Subsystem /\ d # s
         /\ \A S \in SUBSET Subsystem : d \in S => ~First(s, S)
         /\ \A S \in SUBSET Subsystem : s \in S => ~Last(d, S)
<1>1. d \in Subsystem /\ Rank[d] < Rank[s] /\ Rank[d] \in Nat /\ Rank[s] \in Nat
  BY PlanAssumption
<1> QED
  BY <1>1 DEF First, Last

-----------------------------------------------------------------------------
(* The schedulers. *)

LEMMA ScheduleSleepGood ==
  ASSUME NEW e, BeforeSleep(e), ScheduleSleep(e)
  PROVE  Good(lc') /\ Kept(e, lc')
<1>1. CASE e.sleepPending = {}
  <2>1. lc' = [e EXCEPT !.phase = "sleeping", !.mode = "sleeping"]
    BY <1>1 DEF ScheduleSleep, Scheduled, Acknowledge, Reached, BeforeSleep
  <2>2. lc' \in State
    BY <2>1 DEF BeforeSleep, Settled, State, Phase, Mode
  <2>3. /\ lc'.phase = "sleeping" /\ lc'.mode = "sleeping" /\ lc'.action = None
        /\ lc'.owns = e.owns /\ lc'.state = e.state
        /\ lc'.sleepPending = {} /\ lc'.wakePending = {}
    BY <2>1, <1>1 DEF BeforeSleep, Settled, State
  <2> QED
    BY <1>1, <2>2, <2>3 DEF BeforeSleep, Settled, Good, Fits, PhaseFits, Initializes, Sleeps,
         TearsDown, OwnsByPhase, Owners, Kept
<1>2. CASE e.sleepPending # {}
  <2>1. PICK s \in e.sleepPending : Last(s, e.sleepPending) /\ lc' = Issue(e, s, "preparing_sleep")
    BY <1>2 DEF ScheduleSleep, Scheduled
  <2>2. s \in Subsystem /\ e.owns[s] /\ e \in State
    BY DEF BeforeSleep, Settled, Owners
  <2>3. /\ lc' \in State
        /\ lc'.action = [subsystem |-> s, kind |-> "preparing_sleep"]
        /\ lc'.state = [e.state EXCEPT ![s] = "preparing_sleep"]
        /\ lc'.phase = "preparing_sleep" /\ lc'.mode = "preparing_sleep" /\ lc'.owns = e.owns
        /\ lc'.sleepPending = e.sleepPending /\ lc'.wakePending = {}
    <3>1. "preparing_sleep" \in Kind
      BY DEF Kind
    <3>2. /\ e.phase = "preparing_sleep" /\ e.mode = "preparing_sleep" /\ e.wakePending = {}
      BY DEF BeforeSleep
    <3> QED
      BY <2>1, <2>2, <3>1, <3>2, IssueFields
  <2>4. \A t \in Subsystem : lc'.state[t] = IF t = s THEN "preparing_sleep" ELSE e.state[t]
    BY <2>2, <2>3 DEF State
  <2>5. lc'.action # None
    BY <2>2, <2>3, PlanAssumption DEF Action, Kind
  <2>6. Fits(lc')
    BY <2>2, <2>3, <2>4, <2>5 DEF Fits, Coherent, ModesOf, BeforeSleep, Settled
  <2>7. PhaseFits(lc') /\ Initializes(lc') /\ TearsDown(lc')
    BY <2>3, <2>5 DEF PhaseFits, Initializes, TearsDown
  <2>8. Sleeps(lc')
    BY <2>1, <2>3, <2>4 DEF Sleeps, BeforeSleep, Owners
  <2>9. OwnsByPhase(lc') /\ Kept(e, lc')
    BY <2>2, <2>3, <2>4 DEF OwnsByPhase, Kept, BeforeSleep, Settled
  <2> QED
    BY <2>3, <2>6, <2>7, <2>8, <2>9 DEF Good
<1> QED
  BY <1>1, <1>2

LEMMA ScheduleWakeGood ==
  ASSUME NEW e, BeforeWake(e), ScheduleWake(e)
  PROVE  Good(lc') /\ Kept(e, lc')
<1>1. CASE e.wakePending = {}
  <2>1. lc' = [e EXCEPT !.phase = "running", !.mode = "running"]
    BY <1>1 DEF ScheduleWake, Scheduled, Acknowledge, Reached, BeforeWake
  <2>2. lc' \in State
    BY <2>1 DEF BeforeWake, Settled, State, Phase, Mode
  <2>3. /\ lc'.phase = "running" /\ lc'.mode = "running" /\ lc'.action = None
        /\ lc'.owns = e.owns /\ lc'.state = e.state
        /\ lc'.sleepPending = {} /\ lc'.wakePending = {}
    BY <2>1, <1>1 DEF BeforeWake, Settled, State
  <2> QED
    BY <1>1, <2>2, <2>3 DEF BeforeWake, Settled, Good, Fits, PhaseFits, Initializes, Sleeps,
         TearsDown, OwnsByPhase, Owners, Kept
<1>2. CASE e.wakePending # {}
  <2>1. PICK s \in e.wakePending : lc' = Issue(e, s, "waking")
    BY <1>2 DEF ScheduleWake, Scheduled
  <2>2. s \in Subsystem /\ e \in State
    BY DEF BeforeWake, Settled, State
  <2>3. /\ lc' \in State
        /\ lc'.action = [subsystem |-> s, kind |-> "waking"]
        /\ lc'.state = [e.state EXCEPT ![s] = "waking"]
        /\ lc'.phase = "waking" /\ lc'.mode = "waking" /\ lc'.owns = e.owns
        /\ lc'.sleepPending = {} /\ lc'.wakePending = e.wakePending
    <3>1. "waking" \in Kind
      BY DEF Kind
    <3>2. /\ e.phase = "waking" /\ e.mode = "waking" /\ e.sleepPending = {}
      BY DEF BeforeWake
    <3> QED
      BY <2>1, <2>2, <3>1, <3>2, IssueFields
  <2>4. \A t \in Subsystem : lc'.state[t] = IF t = s THEN "waking" ELSE e.state[t]
    BY <2>2, <2>3 DEF State
  <2>5. lc'.action # None
    BY <2>2, <2>3, PlanAssumption DEF Action, Kind
  <2>6. Fits(lc')
    BY <2>2, <2>3, <2>4, <2>5 DEF Fits, Coherent, ModesOf, BeforeWake, Settled
  <2>7. PhaseFits(lc') /\ Initializes(lc') /\ TearsDown(lc')
    BY <2>3, <2>5 DEF PhaseFits, Initializes, TearsDown
  <2>8. Sleeps(lc')
    BY <2>3 DEF Sleeps, BeforeWake
  <2>9. OwnsByPhase(lc') /\ Kept(e, lc')
    BY <2>2, <2>3, <2>4 DEF OwnsByPhase, Kept, BeforeWake, Settled
  <2> QED
    BY <2>3, <2>6, <2>7, <2>8, <2>9 DEF Good
<1> QED
  BY <1>1, <1>2

\* There is always a subsystem to acquire next: the first idle one is built on
\* subsystems that are no longer idle.
LEMMA ScheduleInitializationGood ==
  ASSUME NEW e, BeforeInit(e), ScheduleInitialization(e)
  PROVE  Good(lc') /\ Kept(e, lc')
<1> DEFINE idle  == {s \in Subsystem : ~e.owns[s] /\ e.state[s] = "offline"}
           ready == {s \in idle : DependenciesReady(e, s)}
<1>1. CASE idle = {}
  <2>1. lc' = [e EXCEPT !.phase = "running", !.mode = "running"]
    BY <1>1 DEF ScheduleInitialization, Scheduled, Acknowledge, Reached, BeforeInit
  <2>2. lc' \in State
    BY <2>1 DEF BeforeInit, Settled, State, Phase, Mode
  <2>3. /\ lc'.phase = "running" /\ lc'.mode = "running" /\ lc'.action = None
        /\ lc'.owns = e.owns /\ lc'.state = e.state
        /\ lc'.sleepPending = {} /\ lc'.wakePending = {}
    BY <2>1, <1>1 DEF BeforeInit, Settled, State
  <2>4. \A s \in Subsystem : lc'.owns[s]
    BY <1>1, <2>3 DEF BeforeInit
  <2> QED
    BY <2>2, <2>3, <2>4 DEF BeforeInit, Settled, Good, Fits, PhaseFits, Initializes, Sleeps,
         TearsDown, OwnsByPhase, Owners, Kept
<1>2. CASE idle # {}
  <2>1. ready # {}
    <3>1. PICK s \in Subsystem : First(s, idle)
      <4>1. idle \in SUBSET Subsystem
        OBVIOUS
      <4>2. \E s \in idle : First(s, idle)
        <5> HIDE DEF idle
        <5> QED
          BY <1>2, <4>1, PlanAssumption
      <4> QED
        BY <4>1, <4>2
    <3>2. ASSUME NEW d \in Dependencies[s]
          PROVE  e.owns[d] /\ e.state[d] = "ready"
      <4>1. d \in Subsystem /\ d \notin idle
        BY <3>1, PlanFacts
      <4> QED
        BY <4>1 DEF BeforeInit
    <3> QED
      BY <3>1, <3>2 DEF DependenciesReady, First
  <2>2. PICK s \in ready : lc' = Issue([e EXCEPT !.failure[s] = "none"], s, "initializing")
    BY <1>2, <2>1 DEF ScheduleInitialization, Scheduled
  <2> DEFINE g == [e EXCEPT !.failure[s] = "none"]
  <2>3. /\ s \in Subsystem /\ ~e.owns[s] /\ e \in State
        /\ g \in State /\ g.action = e.action /\ g.state = e.state /\ g.owns = e.owns
        /\ g.phase = "starting" /\ g.mode = "starting"
        /\ g.sleepPending = {} /\ g.wakePending = {}
    BY DEF BeforeInit, Settled, State, Failure
  <2>4. /\ lc' \in State
        /\ lc'.action = [subsystem |-> s, kind |-> "initializing"]
        /\ lc'.state = [e.state EXCEPT ![s] = "initializing"]
        /\ lc'.phase = "starting" /\ lc'.mode = "starting" /\ lc'.owns = e.owns
        /\ lc'.sleepPending = {} /\ lc'.wakePending = {}
    <3>1. lc' = Issue(g, s, "initializing") /\ "initializing" \in Kind
      BY <2>2 DEF Kind
    <3> HIDE DEF g, ready, idle
    <3> QED
      BY <2>3, <3>1, IssueFields
  <2>5. \A t \in Subsystem : lc'.state[t] = IF t = s THEN "initializing" ELSE e.state[t]
    BY <2>3, <2>4 DEF State
  <2>6. lc'.action # None
    BY <2>3, <2>4, PlanAssumption DEF Action, Kind
  <2> HIDE DEF ready, g
  <2>7. Fits(lc')
    BY <2>3, <2>4, <2>5, <2>6 DEF Fits, Coherent, ModesOf, BeforeInit, Settled
  <2>8. PhaseFits(lc') /\ Sleeps(lc') /\ TearsDown(lc')
    BY <2>4, <2>6 DEF PhaseFits, Sleeps, TearsDown
  <2>9. Initializes(lc')
    BY <2>3, <2>4, <2>5 DEF Initializes, BeforeInit
  <2>10. OwnsByPhase(lc') /\ Kept(e, lc')
    BY <2>3, <2>4, <2>5 DEF OwnsByPhase, Kept, BeforeInit, Settled
  <2> QED
    BY <2>4, <2>7, <2>8, <2>9, <2>10 DEF Good
<1> QED
  BY <1>1, <1>2

\* Of the subsystems that are owned, the last has no owned dependent.
LEMMA LastOwner ==
  ASSUME NEW e \in State, Owners(e) # {}
  PROVE  \E s \in Owners(e) : ~OwnedDependent(e, s)
<1>1. PICK s \in Subsystem : Last(s, Owners(e))
  BY PlanAssumption DEF Owners, Last
<1>2. \A t \in Subsystem : s \in Dependencies[t] => t \notin Owners(e)
  BY <1>1, PlanFacts DEF Owners
<1> QED
  BY <1>1, <1>2 DEF OwnedDependent, Last, Owners

\* A fresh lifetime is ready for its first initialization.
LEMMA FreshBeforeInit == BeforeInit(Fresh(FALSE))
BY DEF BeforeInit, Settled, Fresh, State, Phase, Mode, RecordState, Failure, Kind

\* An engine at rest that has failed or stopped, and owns what its phase says.
LEMMA RestGood ==
  ASSUME NEW e, NEW f, Settled(e), f \in State,
         f.action = None, f.state = e.state, f.owns = e.owns,
         f.mode = "idle", f.sleepPending = {}, f.wakePending = {},
         \/ f.phase = "failed"
         \/ f.phase = "stopped" /\ Owners(e) = {}
  PROVE  Good(f) /\ Kept(e, f)
BY DEF Settled, Good, Fits, PhaseFits, Initializes, Sleeps, TearsDown, OwnsByPhase, Owners, Kept

LEMMA ScheduleTeardownGood ==
  ASSUME NEW e, BeforeTeardown(e), ScheduleTeardown(e)
  PROVE  Good(lc') /\ Kept(e, lc')
<1> DEFINE due == {s \in Owners(e) \ e.attempted : ~OwnedDependent(e, s)}
           f   == [e EXCEPT !.action = None]
<1>0. e \in State /\ Settled(e) /\ f = e
  BY DEF BeforeTeardown, Settled, State
<1>1. CASE \E s \in due : lc' = Issue(e, s, "stopping")
  <2>1. PICK s \in due : lc' = Issue(e, s, "stopping")
    BY <1>1
  <2>2. s \in Subsystem /\ e.owns[s] /\ ~OwnedDependent(e, s) /\ "stopping" \in Kind
    BY DEF Owners, Kind
  <2>3. /\ lc' \in State
        /\ lc'.action = [subsystem |-> s, kind |-> "stopping"]
        /\ lc'.state = [e.state EXCEPT ![s] = "stopping"]
        /\ lc'.phase = e.phase /\ lc'.mode = e.mode /\ lc'.owns = e.owns
        /\ lc'.sleepPending = e.sleepPending /\ lc'.wakePending = e.wakePending
        /\ lc'.attempted = e.attempted
    <3> HIDE DEF due, f
    <3> QED
      BY <1>0, <2>1, <2>2, IssueFields
  <2> HIDE DEF due, f
  <2>4. \A t \in Subsystem : lc'.state[t] = IF t = s THEN "stopping" ELSE e.state[t]
    BY <1>0, <2>2, <2>3 DEF State
  <2>5. lc'.action # None
    BY <2>2, <2>3, PlanAssumption DEF Action
  <2>6. Fits(lc')
    BY <2>2, <2>3, <2>4, <2>5 DEF Fits, Coherent, ModesOf, BeforeTeardown, Settled
  <2>7. PhaseFits(lc') /\ Initializes(lc') /\ Sleeps(lc')
    BY <2>3, <2>5 DEF PhaseFits, Initializes, Sleeps, BeforeTeardown
  <2>8. TearsDown(lc')
    BY <2>2, <2>3 DEF TearsDown, BeforeTeardown, OwnedDependent, Owners
  <2>9. OwnsByPhase(lc') /\ Kept(e, lc')
    BY <2>2, <2>3, <2>4 DEF OwnsByPhase, Kept, BeforeTeardown, Settled
  <2> QED
    BY <2>3, <2>6, <2>7, <2>8, <2>9 DEF Good
<1>2. CASE due = {} /\ Owners(e) # {} /\ lc' = [f EXCEPT !.mode = "idle"]
  <2>1. e.phase = "failed"
    BY <1>0, <1>2, LastOwner DEF BeforeTeardown
  <2>2. lc' \in State
    BY <1>0, <1>2 DEF State, Mode
  <2>3. /\ lc'.phase = "failed" /\ lc'.mode = "idle" /\ lc'.action = None
        /\ lc'.state = e.state /\ lc'.owns = e.owns
        /\ lc'.sleepPending = {} /\ lc'.wakePending = {}
    BY <1>0, <1>2, <2>1 DEF BeforeTeardown, State
  <2> QED
    BY <1>0, <2>2, <2>3, RestGood
<1>3. CASE Owners(e) = {} /\ TornDown(f)
  <2> DEFINE g == [e EXCEPT !.phase = IF e.phase = "stopping" THEN "stopped" ELSE "failed",
                            !.mode = "idle"]
             h == [g EXCEPT !.restart = FALSE]
  <2>1. /\ g \in State /\ g.action = None /\ g.state = e.state /\ g.owns = e.owns
        /\ g.mode = "idle" /\ g.sleepPending = {} /\ g.wakePending = {}
        /\ g.phase \in {"failed", "stopped"}
    BY <1>0 DEF BeforeTeardown, Settled, State, Phase, Mode
  <2>2. /\ h \in State /\ h.action = None /\ h.state = e.state /\ h.owns = e.owns
        /\ h.mode = "idle" /\ h.sleepPending = {} /\ h.wakePending = {}
        /\ h.phase = g.phase /\ h.restart = FALSE
    BY <2>1 DEF State
  <2>3. \/ lc' = g
        \/ lc' = h /\ h.phase = "failed"
        \/ ScheduleInitialization(Fresh(FALSE))
    <3>1. CASE e.mode = "rolling_back"
      <4>1. e.phase = "failed"
        BY <3>1 DEF BeforeTeardown
      <4>2. lc' = [e EXCEPT !.mode = "idle"]
        BY <1>0, <1>3, <3>1 DEF TornDown, Scheduled
      <4> QED
        BY <1>0, <4>1, <4>2 DEF State
    <3>2. CASE e.mode = "stopping"
      <4> DEFINE stopped == IF e.phase = "stopping" THEN Acknowledge(e, "stopped", "idle")
                            ELSE [e EXCEPT !.mode = "idle"]
      <4>1. stopped = g
        <5>1. CASE e.phase = "stopping"
          BY <1>0, <5>1 DEF Acknowledge, Reached, State
        <5>2. CASE e.phase = "failed"
          BY <1>0, <5>2 DEF State
        <5> QED
          BY <3>2, <5>1, <5>2 DEF BeforeTeardown
      <4>2. IF stopped.restart THEN StartLifetime([stopped EXCEPT !.restart = FALSE])
            ELSE Scheduled(stopped)
        BY <1>0, <1>3, <3>2 DEF TornDown
      <4>3. IF g.restart THEN StartLifetime(h) ELSE lc' = g
        <5> HIDE DEF g, stopped
        <5> QED
          BY <4>1, <4>2 DEF Scheduled
      <4> HIDE DEF g, h, stopped
      <4> QED
        BY <2>1, <2>2, <4>3 DEF StartLifetime, Scheduled
    <3> QED
      BY <3>1, <3>2 DEF BeforeTeardown
  <2>4. CASE lc' = g
    BY <1>0, <1>3, <2>1, <2>4, RestGood
  <2>5. CASE lc' = h /\ h.phase = "failed"
    BY <1>0, <2>2, <2>5, RestGood
  <2>6. CASE ScheduleInitialization(Fresh(FALSE))
    <3>1. Good(lc') /\ Kept(Fresh(FALSE), lc')
      BY <2>6, FreshBeforeInit, ScheduleInitializationGood
    <3> QED
      BY <1>3, <3>1 DEF Kept, Owners
  <2> QED
    BY <2>3, <2>4, <2>5, <2>6
<1> QED
  BY <1>0, <1>1, <1>2, <1>3 DEF ScheduleTeardown, Scheduled

-----------------------------------------------------------------------------
(* The handlers.  Each of them reaches Good, releases in order and hands out *)
(* no recovery but by BeginRecovery.                                         *)

InOrder ==
  \A s \in Subsystem : lc.owns[s] /\ ~lc'.owns[s] =>
    \A t \in Owners(lc) \ {s} : s \in Dependencies[t] =>
      lc.phase = "preparing_sleep" /\ lc.state[t] = "degraded"

NoNewRecovery == lc'.action # None => lc'.action.kind # "recovering"

\* The outstanding action is coherent, so that its report is handled.
LEMMA Reported ==
  ASSUME Good(lc), NEW s \in Subsystem, NEW kind \in Kind,
         lc.action = [subsystem |-> s, kind |-> kind]
  PROVE  /\ lc.action # None /\ lc.action.subsystem = s /\ lc.action.kind = kind
         /\ lc \in State /\ Coherent(lc)
         /\ lc.mode \in ModesOf[kind] /\ lc.state[s] = kind
         /\ \A t \in Subsystem : t # s => lc.state[t] \notin Kind
<1>1. lc.action # None /\ lc.action.subsystem = s /\ lc.action.kind = kind
  BY PlanAssumption DEF Action
<1>2. lc \in State /\ Coherent(lc)
  BY <1>1 DEF Good, Fits
<1>3. lc.mode \in ModesOf[kind] /\ lc.state[s] = kind
  BY <1>1, <1>2 DEF Coherent
<1>4. ASSUME NEW t \in Subsystem, lc.state[t] \in Kind
      PROVE  t = s
  <2>1. lc.action = [subsystem |-> t, kind |-> lc.state[t]]
    BY <1>4 DEF Good, Fits
  <2> QED
    BY <1>1, <2>1
<1> QED
  BY <1>1, <1>2, <1>3, <1>4

\* A handler that takes ownership from nobody and goes to its scheduler.
LEMMA KeptInOrder ==
  ASSUME NEW e, Kept(e, lc'), \A s \in Subsystem : lc.owns[s] => e.owns[s]
  PROVE  InOrder /\ NoNewRecovery
BY DEF Kept, InOrder, NoNewRecovery

LEMMA CompleteInitializeGood ==
  ASSUME Good(lc), NEW s \in Subsystem, CompleteInitialize(s)
  PROVE  Good(lc') /\ InOrder /\ NoNewRecovery
<1> DEFINE e == Taken(s, "ready", TRUE, "none")
<1>1. /\ lc.action = [subsystem |-> s, kind |-> "initializing"]
      /\ lc \in State /\ lc.mode = "starting"
      /\ \A t \in Subsystem : t # s => lc.state[t] \notin Kind
  BY Reported DEF CompleteInitialize, Report, Kind, ModesOf
<1>2. ScheduleInitialization(e)
  BY <1>1, Reported DEF CompleteInitialize, Report, Kind
<1>3. /\ e.action = None
      /\ e.phase = lc.phase /\ e.mode = lc.mode
      /\ e.sleepPending = lc.sleepPending /\ e.wakePending = lc.wakePending
      /\ e \in State
  BY <1>1 DEF Taken, State, RecordState, Failure
<1>4. \A t \in Subsystem : /\ e.state[t] = IF t = s THEN "ready" ELSE lc.state[t]
                           /\ e.owns[t] <=> t = s \/ lc.owns[t]
  BY <1>1 DEF Taken, State
<1> HIDE DEF e
<1>5. lc.phase = "starting" /\ lc.sleepPending = {} /\ lc.wakePending = {}
  BY <1>1 DEF Good, PhaseFits, Sleeps
<1>6. BeforeInit(e)
  BY <1>1, <1>3, <1>4, <1>5 DEF BeforeInit, Settled, Good, Initializes, Kind
<1>7. Good(lc') /\ Kept(e, lc')
  BY <1>2, <1>6, ScheduleInitializationGood
<1> QED
  BY <1>4, <1>7, KeptInOrder

LEMMA CompletePrepareSleepGood ==
  ASSUME Good(lc), NEW s \in Subsystem, CompletePrepareSleep(s)
  PROVE  Good(lc') /\ InOrder /\ NoNewRecovery
<1> DEFINE f == Taken(s, "sleeping", s \in Retains, lc.failure[s])
           e == [f EXCEPT !.sleepPending = @ \ {s}]
<1>1. /\ lc.action = [subsystem |-> s, kind |-> "preparing_sleep"]
      /\ lc \in State /\ lc.mode = "preparing_sleep" /\ s \in lc.sleepPending
      /\ \A t \in Subsystem : t # s => lc.state[t] \notin Kind
  <2>1. lc.action = [subsystem |-> s, kind |-> "preparing_sleep"] /\ "preparing_sleep" \in Kind
    BY DEF CompletePrepareSleep, Report, Kind
  <2>2. /\ lc \in State /\ Coherent(lc) /\ lc.mode \in ModesOf["preparing_sleep"]
        /\ lc.action.subsystem = s /\ lc.action.kind = "preparing_sleep"
        /\ \A t \in Subsystem : t # s => lc.state[t] \notin Kind
    BY <2>1, Reported
  <2> QED
    BY <2>1, <2>2 DEF Coherent, ModesOf
<1>2. ScheduleSleep(e)
  BY <1>1, Reported DEF CompletePrepareSleep, Report, Kind
<1>3. /\ f.action = None
      /\ f.phase = lc.phase /\ f.mode = lc.mode
      /\ f.sleepPending = lc.sleepPending /\ f.wakePending = lc.wakePending
  BY <1>1 DEF Taken, State
<1>4. f \in State
  <2>1. [lc.owns EXCEPT ![s] = s \in Retains] \in [Subsystem -> BOOLEAN]
    BY <1>1 DEF State
  <2> QED
    BY <1>1, <2>1 DEF Taken, State, RecordState, Failure
<1>5. /\ \A t \in Subsystem : f.state[t] = IF t = s THEN "sleeping" ELSE lc.state[t]
      /\ \A t \in Subsystem : f.owns[t] <=> IF t = s THEN s \in Retains ELSE lc.owns[t]
  BY <1>1 DEF Taken, State
<1> HIDE DEF f
<1>e. /\ e \in State /\ e.action = None /\ e.state = f.state /\ e.owns = f.owns
      /\ e.phase = lc.phase /\ e.mode = lc.mode
      /\ e.sleepPending = lc.sleepPending \ {s} /\ e.wakePending = lc.wakePending
  BY <1>3, <1>4 DEF State
<1> HIDE DEF e
<1>6. lc.phase = "preparing_sleep" /\ lc.wakePending = {} /\ s \in Participates
  BY <1>1 DEF Good, PhaseFits, Sleeps
<1>7. Settled(e)
  BY <1>1, <1>5, <1>e DEF Settled, Good, OwnsByPhase, Kind
<1>8. e.sleepPending \subseteq Owners(e) \cap Participates
  BY <1>5, <1>e DEF Good, Sleeps, Owners
<1>9. \A t \in Owners(e) \cap (Participates \ Retains) :
        t \notin e.sleepPending => e.state[t] = "degraded"
  BY <1>5, <1>6, <1>e DEF Good, Sleeps, Owners
<1>10. BeforeSleep(e)
  BY <1>1, <1>5, <1>6, <1>7, <1>8, <1>9, <1>e DEF BeforeSleep, Good, Sleeps
<1>11. Good(lc') /\ Kept(e, lc')
  BY <1>2, <1>10, ScheduleSleepGood
<1>12. ASSUME lc.owns[s], s \notin Retains, NEW t \in Owners(lc), s \in Dependencies[t]
       PROVE  lc.state[t] = "degraded"
  <2>1. Last(s, lc.sleepPending)
    <3>1. lc.action # None /\ lc.action.subsystem = s /\ lc.action.kind = "preparing_sleep"
      BY <1>1, PlanAssumption DEF Action, Kind
    <3> QED
      BY <3>1 DEF Good, Sleeps
  <2>2. t \notin lc.sleepPending /\ t \in Participates \ Retains
    BY <1>1, <1>6, <1>12, <2>1, PlanFacts, PlanAssumption DEF Owners, State
  <2> QED
    BY <1>6, <1>12, <2>2 DEF Good, Sleeps
<1> QED
  BY <1>5, <1>6, <1>11, <1>12, <1>e DEF Kept, InOrder, NoNewRecovery

LEMMA CompleteWakeGood ==
  ASSUME Good(lc), NEW s \in Subsystem, CompleteWake(s)
  PROVE  Good(lc') /\ InOrder /\ NoNewRecovery
<1> DEFINE f == Taken(s, "ready", TRUE, "none")
           e == [f EXCEPT !.wakePending = @ \ {s}]
<1>1. /\ lc.action = [subsystem |-> s, kind |-> "waking"]
      /\ lc \in State /\ lc.mode = "waking"
      /\ \A t \in Subsystem : t # s => lc.state[t] \notin Kind
  BY Reported DEF CompleteWake, Report, Kind, ModesOf
<1>2. ScheduleWake(e)
  BY <1>1, Reported DEF CompleteWake, Report, Kind
<1>3. /\ f.action = None
      /\ f.phase = lc.phase /\ f.mode = lc.mode
      /\ f.sleepPending = lc.sleepPending /\ f.wakePending = lc.wakePending
  BY <1>1 DEF Taken, State
<1>4. f \in State
  BY <1>1 DEF Taken, State, RecordState, Failure
<1>5. /\ \A t \in Subsystem : f.state[t] = IF t = s THEN "ready" ELSE lc.state[t]
      /\ \A t \in Subsystem : f.owns[t] <=> t = s \/ lc.owns[t]
  BY <1>1 DEF Taken, State
<1> HIDE DEF f
<1>e. /\ e \in State /\ e.action = None /\ e.state = f.state /\ e.owns = f.owns
      /\ e.phase = lc.phase /\ e.mode = lc.mode
      /\ e.wakePending = lc.wakePending \ {s} /\ e.sleepPending = lc.sleepPending
  BY <1>3, <1>4 DEF State
<1> HIDE DEF e
<1>6. lc.phase = "waking" /\ lc.sleepPending = {}
  BY <1>1 DEF Good, PhaseFits, Sleeps
<1>7. Settled(e)
  BY <1>1, <1>5, <1>e DEF Settled, Good, OwnsByPhase, Kind
<1>8. BeforeWake(e)
  BY <1>1, <1>5, <1>6, <1>7, <1>e DEF BeforeWake, Good, Sleeps
<1>9. Good(lc') /\ Kept(e, lc')
  BY <1>2, <1>8, ScheduleWakeGood
<1> QED
  BY <1>5, <1>9, <1>e, KeptInOrder

\* A release that is handed out has no owned dependent.
LEMMA CompleteTeardownGood ==
  ASSUME Good(lc), NEW s \in Subsystem, CompleteTeardown(s)
  PROVE  Good(lc') /\ InOrder /\ NoNewRecovery
<1> DEFINE f == Taken(s, "offline", FALSE, "none")
           e == [f EXCEPT !.attempted = @ \cup {s}]
<1>1. /\ lc.action = [subsystem |-> s, kind |-> "stopping"]
      /\ lc \in State /\ lc.mode \in {"stopping", "rolling_back"}
      /\ ~OwnedDependent(lc, s)
      /\ \A t \in Subsystem : t # s => lc.state[t] \notin Kind
  <2>1. lc.action = [subsystem |-> s, kind |-> "stopping"] /\ "stopping" \in Kind
    BY DEF CompleteTeardown, Report, Kind
  <2>2. /\ lc \in State /\ lc.mode \in ModesOf["stopping"] /\ lc.action # None
        /\ lc.action.subsystem = s /\ lc.action.kind = "stopping"
        /\ \A t \in Subsystem : t # s => lc.state[t] \notin Kind
    BY <2>1, Reported
  <2> QED
    BY <2>1, <2>2 DEF ModesOf, Good, TearsDown
<1>2. ScheduleTeardown(e)
  BY <1>1, Reported DEF CompleteTeardown, Report, Kind
<1>3. /\ f.action = None
      /\ f.phase = lc.phase /\ f.mode = lc.mode /\ f.attempted = lc.attempted
      /\ f.sleepPending = lc.sleepPending /\ f.wakePending = lc.wakePending
  BY <1>1 DEF Taken, State
<1>4. f \in State
  BY <1>1 DEF Taken, State, RecordState, Failure
<1>5. /\ \A t \in Subsystem : f.state[t] = IF t = s THEN "offline" ELSE lc.state[t]
      /\ \A t \in Subsystem : f.owns[t] <=> t # s /\ lc.owns[t]
  BY <1>1 DEF Taken, State
<1> HIDE DEF f
<1>6. /\ e \in State /\ e.action = None /\ e.state = f.state /\ e.owns = f.owns
      /\ e.phase = lc.phase /\ e.mode = lc.mode /\ e.attempted = lc.attempted \cup {s}
      /\ e.sleepPending = lc.sleepPending /\ e.wakePending = lc.wakePending
  BY <1>3, <1>4 DEF State
<1> HIDE DEF e
<1>7. Settled(e)
  BY <1>1, <1>5, <1>6 DEF Settled, Good, OwnsByPhase, Kind
<1>8. BeforeTeardown(e)
  <2>1. \/ lc.mode = "stopping" /\ lc.phase \in {"stopping", "failed"}
        \/ lc.mode = "rolling_back" /\ lc.phase = "failed"
    BY <1>1 DEF Good, PhaseFits
  <2>2. lc.sleepPending = {} /\ lc.wakePending = {}
    BY <1>1 DEF Good, Sleeps
  <2>3. e.phase = "stopping" => e.attempted \cap Owners(e) = {}
    BY <1>5, <1>6, <2>1 DEF Good, TearsDown, Owners
  <2> QED
    BY <1>6, <1>7, <2>1, <2>2, <2>3 DEF BeforeTeardown
<1>9. Good(lc') /\ Kept(e, lc')
  BY <1>2, <1>8, ScheduleTeardownGood
<1> QED
  BY <1>1, <1>5, <1>6, <1>9 DEF Kept, InOrder, NoNewRecovery, OwnedDependent

LEMMA CompleteRecoverGood ==
  ASSUME Good(lc), NEW s \in Subsystem, CompleteRecover(s)
  PROVE  Good(lc') /\ InOrder /\ NoNewRecovery
<1> DEFINE f == Taken(s, "ready", TRUE, "none")
<1>1. /\ lc.action = [subsystem |-> s, kind |-> "recovering"]
      /\ lc \in State /\ lc.mode = "recovering"
      /\ \A t \in Subsystem : t # s => lc.state[t] \notin Kind
  BY Reported DEF CompleteRecover, Report, Kind, ModesOf
<1>2. lc' = [f EXCEPT !.mode = "running"]
  BY <1>1, Reported DEF CompleteRecover, Report, Kind, Scheduled
<1>3. /\ f.action = None /\ f.phase = lc.phase
      /\ f.sleepPending = lc.sleepPending /\ f.wakePending = lc.wakePending
      /\ f \in State
  BY <1>1 DEF Taken, State, RecordState, Failure
<1>4. \A t \in Subsystem : /\ f.state[t] = IF t = s THEN "ready" ELSE lc.state[t]
                           /\ f.owns[t] <=> t = s \/ lc.owns[t]
  BY <1>1 DEF Taken, State
<1> HIDE DEF f
<1>5. /\ lc' \in State /\ lc'.action = None /\ lc'.state = f.state /\ lc'.owns = f.owns
      /\ lc'.phase = lc.phase /\ lc'.mode = "running"
      /\ lc'.sleepPending = lc.sleepPending /\ lc'.wakePending = lc.wakePending
  BY <1>2, <1>3 DEF State, Mode
<1>6. lc.phase = "running" /\ lc.sleepPending = {} /\ lc.wakePending = {}
  BY <1>1 DEF Good, PhaseFits, Sleeps
<1>7. \A t \in Subsystem : lc'.owns[t] /\ lc'.state[t] \notin Kind
  BY <1>1, <1>4, <1>5, <1>6 DEF Good, OwnsByPhase, Owners, Kind
<1>8. Good(lc')
  BY <1>5, <1>6, <1>7 DEF Good, Fits, PhaseFits, Initializes, Sleeps, TearsDown, OwnsByPhase, Owners
<1> QED
  BY <1>5, <1>7, <1>8 DEF InOrder, NoNewRecovery

LEMMA CompleteGood ==
  ASSUME Good(lc), NEW s \in Subsystem, Complete(s)
  PROVE  Good(lc') /\ InOrder /\ NoNewRecovery
BY CompleteInitializeGood, CompleteRecoverGood, CompletePrepareSleepGood, CompleteWakeGood,
   CompleteTeardownGood DEF Complete

LEMMA UnusableState ==
  ASSUME NEW f \in Class
  PROVE  Unusable(f) \in {"failed", "degraded"} /\ Unusable(f) \in RecordState /\ f \in Failure
BY DEF Unusable, Class, RecordState, Failure

LEMMA FailInitializeGood ==
  ASSUME Good(lc), NEW s \in Subsystem, NEW fl \in Class, FailInitialize(s, fl)
  PROVE  Good(lc') /\ InOrder /\ NoNewRecovery
<1> DEFINE f == Taken(s, "failed", FALSE, fl)
           e == [FailLifetime(f) EXCEPT !.mode = "rolling_back", !.attempted = {}]
<1>1. /\ lc.action = [subsystem |-> s, kind |-> "initializing"]
      /\ lc \in State /\ lc.mode = "starting" /\ lc.state[s] = "initializing"
      /\ \A t \in Subsystem : t # s => lc.state[t] \notin Kind
  BY Reported DEF FailInitialize, Report, Kind, ModesOf
<1>2. ScheduleTeardown(e)
  BY <1>1, Reported DEF FailInitialize, Report, Kind
<1>3. /\ f.action = None /\ f.phase = lc.phase
      /\ f.sleepPending = lc.sleepPending /\ f.wakePending = lc.wakePending
  BY <1>1 DEF Taken, State
<1>4. f \in State
  BY <1>1, UnusableState DEF Taken, State, RecordState
<1>5. /\ \A t \in Subsystem : f.state[t] = IF t = s THEN "failed" ELSE lc.state[t]
      /\ \A t \in Subsystem : f.owns[t] <=> t # s /\ lc.owns[t]
  BY <1>1 DEF Taken, State
<1>6. lc.phase = "starting" /\ lc.sleepPending = {} /\ lc.wakePending = {} /\ ~lc.owns[s]
  BY <1>1 DEF Good, PhaseFits, Sleeps, Initializes
<1> HIDE DEF f
<1>7. /\ e \in State /\ e.action = None /\ e.state = f.state /\ e.owns = f.owns
      /\ e.phase = "failed" /\ e.mode = "rolling_back"
      /\ e.sleepPending = {} /\ e.wakePending = {}
  BY <1>3, <1>4, <1>6 DEF FailLifetime, State, Phase, Mode
<1> HIDE DEF e
<1>8. BeforeTeardown(e)
  BY <1>1, <1>5, <1>7 DEF BeforeTeardown, Settled, Good, OwnsByPhase, Kind
<1>9. Good(lc') /\ Kept(e, lc')
  BY <1>2, <1>8, ScheduleTeardownGood
<1> QED
  BY <1>5, <1>6, <1>7, <1>9, KeptInOrder

LEMMA FailTeardownGood ==
  ASSUME Good(lc), NEW s \in Subsystem, NEW fl \in Class, FailTeardown(s, fl)
  PROVE  Good(lc') /\ InOrder /\ NoNewRecovery
<1> DEFINE f == Taken(s, "failed", TRUE, fl)
           e == [FailLifetime(f) EXCEPT !.attempted = @ \cup {s}]
<1>1. /\ lc.action = [subsystem |-> s, kind |-> "stopping"]
      /\ lc \in State /\ lc.mode \in {"stopping", "rolling_back"}
      /\ \A t \in Subsystem : t # s => lc.state[t] \notin Kind
  BY Reported DEF FailTeardown, Report, Kind, ModesOf
<1>2. ScheduleTeardown(e)
  BY <1>1, Reported DEF FailTeardown, Report, Kind
<1>3. /\ f.action = None /\ f.phase = lc.phase /\ f.mode = lc.mode
      /\ f.sleepPending = lc.sleepPending /\ f.wakePending = lc.wakePending
  BY <1>1 DEF Taken, State
<1>4. f \in State
  BY <1>1, UnusableState DEF Taken, State, RecordState
<1>5. /\ \A t \in Subsystem : f.state[t] = IF t = s THEN "failed" ELSE lc.state[t]
      /\ \A t \in Subsystem : f.owns[t] <=> t = s \/ lc.owns[t]
  BY <1>1 DEF Taken, State
<1>6. lc.phase \in {"stopping", "failed"} /\ lc.sleepPending = {} /\ lc.wakePending = {}
  BY <1>1 DEF Good, PhaseFits, Sleeps
<1> HIDE DEF f
<1>7. /\ e \in State /\ e.action = None /\ e.state = f.state /\ e.owns = f.owns
      /\ e.phase = "failed" /\ e.mode = lc.mode
      /\ e.sleepPending = {} /\ e.wakePending = {}
  BY <1>3, <1>4, <1>6 DEF FailLifetime, State, Phase, Mode
<1> HIDE DEF e
<1>8. BeforeTeardown(e)
  BY <1>1, <1>5, <1>7 DEF BeforeTeardown, Settled, Good, OwnsByPhase, Kind
<1>9. Good(lc') /\ Kept(e, lc')
  BY <1>2, <1>8, ScheduleTeardownGood
<1> QED
  BY <1>5, <1>7, <1>9, KeptInOrder

LEMMA FailRecoverGood ==
  ASSUME Good(lc), NEW s \in Subsystem, NEW fl \in Class, FailRecover(s, fl)
  PROVE  Good(lc') /\ InOrder /\ NoNewRecovery
<1> DEFINE e == Taken(s, Unusable(fl), lc.owns[s], fl)
<1>1. /\ lc.action = [subsystem |-> s, kind |-> "recovering"]
      /\ lc \in State /\ lc.mode = "recovering"
      /\ \A t \in Subsystem : t # s => lc.state[t] \notin Kind
  BY Reported DEF FailRecover, Report, Kind, ModesOf
<1>2. lc' = IF fl = "terminal" THEN [FailLifetime(e) EXCEPT !.mode = "idle"]
            ELSE [e EXCEPT !.mode = "running"]
  BY <1>1, Reported DEF FailRecover, Report, Kind, Scheduled
<1>3. /\ e.action = None /\ e.phase = lc.phase
      /\ e.sleepPending = lc.sleepPending /\ e.wakePending = lc.wakePending
  BY <1>1 DEF Taken, State
<1>4. e \in State
  BY <1>1, UnusableState DEF Taken, State
<1>5. /\ \A t \in Subsystem : e.state[t] = IF t = s THEN Unusable(fl) ELSE lc.state[t]
      /\ \A t \in Subsystem : e.owns[t] <=> lc.owns[t]
  BY <1>1 DEF Taken, State
<1>6. lc.phase = "running" /\ lc.sleepPending = {} /\ lc.wakePending = {}
  BY <1>1 DEF Good, PhaseFits, Sleeps
<1> HIDE DEF e
<1>7. /\ lc' \in State /\ lc'.action = None /\ lc'.state = e.state /\ lc'.owns = e.owns
      /\ lc'.sleepPending = {} /\ lc'.wakePending = {}
      /\ \/ lc'.phase = "failed" /\ lc'.mode = "idle"
         \/ lc'.phase = "running" /\ lc'.mode = "running"
  BY <1>2, <1>3, <1>4, <1>6 DEF FailLifetime, State, Phase, Mode
<1>8. \A t \in Subsystem : lc'.owns[t] /\ lc'.state[t] \notin Kind
  BY <1>1, <1>5, <1>6, <1>7, UnusableState DEF Good, OwnsByPhase, Owners, Kind
<1>9. Good(lc')
  BY <1>7, <1>8 DEF Good, Fits, PhaseFits, Initializes, Sleeps, TearsDown, OwnsByPhase, Owners
<1> QED
  BY <1>7, <1>8, <1>9 DEF InOrder, NoNewRecovery

\* What a failed sleep preparation does not release stays degraded.
LEMMA FailPrepareSleepGood ==
  ASSUME Good(lc), NEW s \in Subsystem, NEW fl \in Class, FailPrepareSleep(s, fl)
  PROVE  Good(lc') /\ InOrder /\ NoNewRecovery
<1> DEFINE f == Taken(s, Unusable(fl), TRUE, fl)
           e == [f EXCEPT !.sleepPending = @ \ {s}]
           g == [FailLifetime(e) EXCEPT !.mode = "idle", !.sleepPending = {}]
<1>1. /\ lc.action = [subsystem |-> s, kind |-> "preparing_sleep"]
      /\ lc \in State /\ lc.mode = "preparing_sleep"
      /\ \A t \in Subsystem : t # s => lc.state[t] \notin Kind
  BY Reported DEF FailPrepareSleep, Report, Kind, ModesOf
<1>2. IF fl = "terminal" THEN lc' = g ELSE ScheduleSleep(e)
  BY <1>1, Reported DEF FailPrepareSleep, Report, Kind, Scheduled
<1>3. /\ f.action = None
      /\ f.phase = lc.phase /\ f.mode = lc.mode
      /\ f.sleepPending = lc.sleepPending /\ f.wakePending = lc.wakePending
  BY <1>1 DEF Taken, State
<1>4. f \in State
  BY <1>1, UnusableState DEF Taken, State
<1>5. /\ \A t \in Subsystem : f.state[t] = IF t = s THEN Unusable(fl) ELSE lc.state[t]
      /\ \A t \in Subsystem : f.owns[t] <=> t = s \/ lc.owns[t]
  BY <1>1 DEF Taken, State
<1>6. lc.phase = "preparing_sleep" /\ lc.wakePending = {}
  BY <1>1 DEF Good, PhaseFits, Sleeps
<1> HIDE DEF f
<1>7. /\ e \in State /\ e.action = None /\ e.state = f.state /\ e.owns = f.owns
      /\ e.phase = lc.phase /\ e.mode = lc.mode
      /\ e.sleepPending = lc.sleepPending \ {s} /\ e.wakePending = lc.wakePending
  BY <1>3, <1>4 DEF State
<1> HIDE DEF e
<1>8. Settled(e)
  BY <1>1, <1>5, <1>7, UnusableState DEF Settled, Good, OwnsByPhase, Kind
<1>9. CASE fl = "terminal"
  <2>1. /\ g \in State /\ g.action = None /\ g.state = e.state /\ g.owns = e.owns
        /\ g.phase = "failed" /\ g.mode = "idle"
        /\ g.sleepPending = {} /\ g.wakePending = {}
    BY <1>6, <1>7 DEF FailLifetime, State, Phase, Mode
  <2>2. Good(g) /\ Kept(e, g)
    BY <1>8, <2>1, RestGood
  <2> QED
    BY <1>2, <1>5, <1>7, <1>9, <2>2, KeptInOrder
<1>10. CASE fl # "terminal"
  <2>1. e.sleepPending \subseteq Owners(e) \cap Participates
    BY <1>5, <1>7 DEF Good, Sleeps, Owners
  <2>2. \A t \in Owners(e) \cap (Participates \ Retains) :
          t \notin e.sleepPending => e.state[t] = "degraded"
    BY <1>5, <1>6, <1>7, <1>10 DEF Good, Sleeps, Owners, Unusable
  <2>3. BeforeSleep(e)
    BY <1>1, <1>5, <1>6, <1>7, <1>8, <2>1, <2>2 DEF BeforeSleep, Good, Sleeps
  <2>4. Good(lc') /\ Kept(e, lc')
    BY <1>2, <1>10, <2>3, ScheduleSleepGood
  <2> QED
    BY <1>5, <1>7, <2>4, KeptInOrder
<1> QED
  BY <1>9, <1>10

LEMMA FailWakeGood ==
  ASSUME Good(lc), NEW s \in Subsystem, NEW fl \in Class, FailWake(s, fl)
  PROVE  Good(lc') /\ InOrder /\ NoNewRecovery
<1> DEFINE f == Taken(s, Unusable(fl), TRUE, fl)
           e == [f EXCEPT !.wakePending = @ \ {s}]
           g == [FailLifetime(e) EXCEPT !.mode = "idle", !.wakePending = {}]
<1>1. /\ lc.action = [subsystem |-> s, kind |-> "waking"]
      /\ lc \in State /\ lc.mode = "waking"
      /\ \A t \in Subsystem : t # s => lc.state[t] \notin Kind
  BY Reported DEF FailWake, Report, Kind, ModesOf
<1>2. IF fl = "terminal" THEN lc' = g ELSE ScheduleWake(e)
  BY <1>1, Reported DEF FailWake, Report, Kind, Scheduled
<1>3. /\ f.action = None
      /\ f.phase = lc.phase /\ f.mode = lc.mode
      /\ f.sleepPending = lc.sleepPending /\ f.wakePending = lc.wakePending
  BY <1>1 DEF Taken, State
<1>4. f \in State
  BY <1>1, UnusableState DEF Taken, State
<1>5. /\ \A t \in Subsystem : f.state[t] = IF t = s THEN Unusable(fl) ELSE lc.state[t]
      /\ \A t \in Subsystem : f.owns[t] <=> t = s \/ lc.owns[t]
  BY <1>1 DEF Taken, State
<1>6. lc.phase = "waking" /\ lc.sleepPending = {}
  BY <1>1 DEF Good, PhaseFits, Sleeps
<1> HIDE DEF f
<1>7. /\ e \in State /\ e.action = None /\ e.state = f.state /\ e.owns = f.owns
      /\ e.phase = lc.phase /\ e.mode = lc.mode
      /\ e.sleepPending = lc.sleepPending /\ e.wakePending = lc.wakePending \ {s}
  BY <1>3, <1>4 DEF State
<1> HIDE DEF e
<1>8. Settled(e)
  BY <1>1, <1>5, <1>7, UnusableState DEF Settled, Good, OwnsByPhase, Kind
<1>9. CASE fl = "terminal"
  <2>1. /\ g \in State /\ g.action = None /\ g.state = e.state /\ g.owns = e.owns
        /\ g.phase = "failed" /\ g.mode = "idle"
        /\ g.sleepPending = {} /\ g.wakePending = {}
    BY <1>6, <1>7 DEF FailLifetime, State, Phase, Mode
  <2>2. Good(g) /\ Kept(e, g)
    BY <1>8, <2>1, RestGood
  <2> QED
    BY <1>2, <1>5, <1>7, <1>9, <2>2, KeptInOrder
<1>10. CASE fl # "terminal"
  <2>1. BeforeWake(e)
    BY <1>1, <1>5, <1>6, <1>7, <1>8 DEF BeforeWake, Good, Sleeps
  <2>2. Good(lc') /\ Kept(e, lc')
    BY <1>2, <1>10, <2>1, ScheduleWakeGood
  <2> QED
    BY <1>5, <1>7, <2>2, KeptInOrder
<1> QED
  BY <1>9, <1>10

LEMMA FailGood ==
  ASSUME Good(lc), NEW s \in Subsystem, NEW fl \in Class, Fail(s, fl)
  PROVE  Good(lc') /\ InOrder /\ NoNewRecovery
BY FailInitializeGood, FailRecoverGood, FailPrepareSleepGood, FailWakeGood, FailTeardownGood
   DEF Fail

-----------------------------------------------------------------------------
(* The requests. *)

LEMMA IdleSettled ==
  ASSUME Good(lc), lc.action = None
  PROVE  Settled(lc)
BY PlanAssumption DEF Good, Fits, Settled, OwnsByPhase, Action

\* Only a mode that works for something has an action.
LEMMA RestingIsIdle ==
  ASSUME Good(lc), lc.mode \in {"running", "sleeping", "idle"}
  PROVE  lc.action = None
<1> SUFFICES ASSUME lc.action # None PROVE FALSE
  OBVIOUS
<1>1. lc.mode \in ModesOf[lc.action.kind] /\ lc.action.kind \in Kind
  BY DEF Good, Fits, Coherent, State, Action
<1> QED
  BY <1>1 DEF ModesOf, Kind

\* A sleep or a wake that is called off leaves its subsystem where it was.
LEMMA CallOffSettled ==
  ASSUME Good(lc), NEW e, e = CallOff(lc)
  PROVE  /\ Settled(e) /\ e.owns = lc.owns
         /\ e.phase = lc.phase /\ e.mode = lc.mode
         /\ e.sleepPending = lc.sleepPending /\ e.wakePending = lc.wakePending
<1>1. CASE lc.action = None
  BY <1>1, IdleSettled DEF CallOff
<1>2. CASE lc.action # None
  <2> DEFINE s == lc.action.subsystem
  <2>1. /\ lc \in State /\ s \in Subsystem
        /\ \A t \in Subsystem : t # s => lc.state[t] \notin Kind
    BY <1>2 DEF Good, Fits, State, Action
  <2>2. /\ Stable(lc, s) \in {"failed", "degraded", "ready", "sleeping"}
        /\ Stable(lc, s) = "ready" => lc.owns[s]
    BY DEF Stable
  <2>3. e = [lc EXCEPT !.action = None, !.state[s] = Stable(lc, s)]
    BY <1>2 DEF CallOff
  <2> HIDE DEF s
  <2>4. /\ e.action = None /\ e.owns = lc.owns
        /\ e.phase = lc.phase /\ e.mode = lc.mode
        /\ e.sleepPending = lc.sleepPending /\ e.wakePending = lc.wakePending
        /\ \A t \in Subsystem : e.state[t] = IF t = s THEN Stable(lc, s) ELSE lc.state[t]
    BY <2>1, <2>3 DEF State
  <2>5. e \in State
    <3>1. [lc.state EXCEPT ![s] = Stable(lc, s)] \in [Subsystem -> RecordState]
      BY <2>1, <2>2 DEF State, RecordState
    <3> QED
      BY <2>1, <2>3, <3>1 DEF State
  <2> QED
    BY <2>1, <2>2, <2>4, <2>5 DEF Settled, Good, OwnsByPhase, Kind
<1> QED
  BY <1>1, <1>2

LEMMA BeginSleepGood ==
  ASSUME Good(lc), BeginSleep
  PROVE  Good(lc') /\ InOrder /\ NoNewRecovery
<1> DEFINE c == CallOff(lc)
           e == [c EXCEPT !.phase = "preparing_sleep", !.mode = "preparing_sleep",
                          !.wakePending = {}, !.sleepPending = Participates \cap Owners(lc)]
<1>1. CASE lc.phase \in {"preparing_sleep", "sleeping"} /\ Scheduled(lc)
  <2>1. lc' = lc
    BY <1>1 DEF Scheduled
  <2>2. lc.mode # "recovering"
    BY <1>1 DEF Good, PhaseFits
  <2>3. lc.action # None => lc.action.kind # "recovering"
    BY <2>2 DEF Good, Fits, Coherent, ModesOf
  <2> QED
    BY <2>1, <2>3 DEF InOrder, NoNewRecovery
<1>2. CASE ScheduleSleep(e) /\ lc.phase \in {"running", "waking"}
  <2>1. /\ Settled(c) /\ c.owns = lc.owns
    BY CallOffSettled
  <2> HIDE DEF c
  <2>2. /\ e \in State /\ e.action = None /\ e.state = c.state /\ e.owns = c.owns
        /\ e.phase = "preparing_sleep" /\ e.mode = "preparing_sleep"
        /\ e.wakePending = {} /\ e.sleepPending = Participates \cap Owners(lc)
    BY <2>1, PlanAssumption DEF Settled, State, Phase, Mode
  <2> HIDE DEF e
  <2>3. Settled(e)
    BY <2>1, <2>2 DEF Settled
  <2>4. \A s \in Subsystem \ Participates : e.owns[s]
    BY <1>2, <2>1, <2>2 DEF Good, Sleeps, OwnsByPhase, Owners
  <2>5. BeforeSleep(e)
    BY <2>1, <2>2, <2>3, <2>4 DEF BeforeSleep, Owners
  <2>6. Good(lc') /\ Kept(e, lc')
    BY <1>2, <2>5, ScheduleSleepGood
  <2> QED
    BY <2>1, <2>2, <2>6, KeptInOrder
<1> QED
  BY <1>1, <1>2 DEF BeginSleep, Working

LEMMA BeginWakeGood ==
  ASSUME Good(lc), BeginWake
  PROVE  Good(lc') /\ InOrder /\ NoNewRecovery
<1> DEFINE c == IF lc.phase = "preparing_sleep" THEN CallOff(lc) ELSE lc
           e == [c EXCEPT !.phase = "waking", !.mode = "waking",
                          !.sleepPending = {}, !.wakePending = Participates]
<1>1. CASE lc.phase = "waking" /\ lc.mode = "waking" /\ Scheduled(lc)
  <2>1. lc' = lc
    BY <1>1 DEF Scheduled
  <2>2. lc.action # None => lc.action.kind # "recovering"
    BY <1>1 DEF Good, Fits, Coherent, ModesOf
  <2> QED
    BY <2>1, <2>2 DEF InOrder, NoNewRecovery
<1>2. CASE /\ ScheduleWake(e)
           /\ \/ Working
              \/ lc.phase = "sleeping" /\ lc.mode = "sleeping"
              \/ lc.phase = "preparing_sleep"
  <2>1. Settled(c) /\ c.owns = lc.owns
    BY <1>2, CallOffSettled, IdleSettled, RestingIsIdle DEF Working
  <2>2. \A s \in Subsystem : s \in Participates \/ lc.owns[s]
    BY <1>2 DEF Good, Sleeps, OwnsByPhase, Owners, Working
  <2> HIDE DEF c
  <2>3. /\ e \in State /\ e.action = None /\ e.state = c.state /\ e.owns = c.owns
        /\ e.phase = "waking" /\ e.mode = "waking"
        /\ e.sleepPending = {} /\ e.wakePending = Participates
    BY <2>1, PlanAssumption DEF Settled, State, Phase, Mode
  <2> HIDE DEF e
  <2>4. BeforeWake(e)
    BY <2>1, <2>2, <2>3 DEF BeforeWake, Settled
  <2>5. Good(lc') /\ Kept(e, lc')
    BY <1>2, <2>4, ScheduleWakeGood
  <2> QED
    BY <2>1, <2>3, <2>5, KeptInOrder
<1> QED
  BY <1>1, <1>2 DEF BeginWake

LEMMA BeginRestartGood ==
  ASSUME Good(lc), BeginRestart
  PROVE  Good(lc') /\ InOrder /\ NoNewRecovery
<1> DEFINE h == [lc EXCEPT !.restart = FALSE]
<1>1. lc.phase = "stopped" /\ StartLifetime(h)
  BY DEF BeginRestart
<1>2. h.phase = "stopped" /\ h.restart = FALSE
  BY <1>1 DEF Good, State
<1>3. ScheduleInitialization(Fresh(FALSE))
  BY <1>1, <1>2 DEF StartLifetime
<1>4. Good(lc') /\ Kept(Fresh(FALSE), lc')
  BY <1>3, FreshBeforeInit, ScheduleInitializationGood
<1> QED
  BY <1>1, <1>4 DEF Good, OwnsByPhase, Owners, Kept, InOrder, NoNewRecovery

\* Whatever a shutdown cancels, nothing is left passing and nobody loses anything.
LEMMA CancelledSettled ==
  ASSUME Good(lc), NEW e, e = Cancelled(lc)
  PROVE  Settled(e) /\ \A s \in Subsystem : lc.owns[s] => e.owns[s]
<1>1. CASE lc.action = None
  BY <1>1, IdleSettled DEF Cancelled
<1>2. CASE lc.action # None
  <2> DEFINE s == lc.action.subsystem
             k == lc.action.kind
  <2>1. /\ lc \in State /\ s \in Subsystem /\ k \in Kind
        /\ \A t \in Subsystem : t # s => lc.state[t] \notin Kind
    BY <1>2 DEF Good, Fits, State, Action
  <2>2. lc.mode \in ModesOf[k] /\ lc.state[s] = k
    BY <1>2 DEF Good, Fits, Coherent
  <2> HIDE DEF s, k
  <2>3. SUFFICES ASSUME NEW st \in RecordState \ Kind, NEW own \in BOOLEAN,
                        st = "ready" => own, lc.owns[s] => own,
                        e = [lc EXCEPT !.action = None, !.state[s] = st, !.owns[s] = own]
                 PROVE  Settled(e) /\ \A t \in Subsystem : lc.owns[t] => e.owns[t]
    <3> DEFINE With(st, own) == [lc EXCEPT !.action = None, !.state[s] = st, !.owns[s] = own]
    <3>1. \E st \in RecordState \ Kind, own \in BOOLEAN :
             (st = "ready" => own) /\ (lc.owns[s] => own) /\ e = With(st, own)
      <4>1. CASE k = "initializing"
        <5>1. ~lc.owns[s]
          <6>1. ModesOf["initializing"] = {"starting"}
            BY DEF ModesOf
          <6>2. lc.mode = "starting" /\ lc.state[s] = "initializing"
            BY <2>2, <4>1, <6>1
          <6> QED
            BY <2>1, <6>2 DEF Good, Initializes
        <5>2. e = With("offline", FALSE)
          BY <1>2, <4>1 DEF Cancelled, s, k
        <5> QED
          BY <5>1, <5>2 DEF RecordState, Kind
      <4>2. CASE k = "recovering"
        <5>1. e = With("degraded", TRUE)
          BY <1>2, <4>2 DEF Cancelled, s, k
        <5> QED
          BY <5>1 DEF RecordState, Kind
      <4>3. CASE k = "stopping"
        <5>1. e = With("failed", TRUE) \/ e = With("ready", TRUE)
          BY <1>2, <4>3 DEF Cancelled, s, k
        <5>2. {"failed", "ready"} \subseteq RecordState \ Kind /\ TRUE \in BOOLEAN
          BY DEF RecordState, Kind
        <5> HIDE DEF With
        <5> QED
          BY <5>1, <5>2, Zenon
      <4>4. CASE k \in {"preparing_sleep", "waking"}
        <5>1. e = [lc EXCEPT !.action = None, !.state[s] = Stable(lc, s)]
          BY <1>2, <4>4 DEF Cancelled, s, k
        <5>2. e = With(Stable(lc, s), lc.owns[s])
          <6>1. [lc.owns EXCEPT ![s] = lc.owns[s]] = lc.owns
            BY <2>1 DEF State
          <6>2. lc = [lc EXCEPT !.owns = lc.owns]
            BY <2>1 DEF State
          <6> QED
            BY <2>1, <5>1, <6>1, <6>2, ZenonT(60) DEF State
        <5>3. Stable(lc, s) \in RecordState \ Kind /\ (Stable(lc, s) = "ready" => lc.owns[s])
          BY DEF Stable, RecordState, Kind
        <5>4. lc.owns[s] \in BOOLEAN
          BY <2>1 DEF State
        <5> HIDE DEF With
        <5> QED
          BY <5>2, <5>3, <5>4, Zenon
      <4> QED
        BY <2>1, <4>1, <4>2, <4>3, <4>4 DEF Kind
    <3> QED
      BY <3>1
  <2>4. /\ [lc.state EXCEPT ![s] = st] \in [Subsystem -> RecordState]
        /\ [lc.owns EXCEPT ![s] = own] \in [Subsystem -> BOOLEAN]
    BY <2>1 DEF State
  <2>5. e \in State /\ e.action = None
    BY <2>1, <2>3, <2>4 DEF State
  <2>6. /\ \A t \in Subsystem : e.state[t] = IF t = s THEN st ELSE lc.state[t]
        /\ \A t \in Subsystem : e.owns[t] <=> IF t = s THEN own ELSE lc.owns[t]
    BY <2>1, <2>3 DEF State
  <2> QED
    BY <2>1, <2>3, <2>5, <2>6 DEF Settled, Good, OwnsByPhase
<1> QED
  BY <1>1, <1>2

LEMMA PutOfflineSettled ==
  ASSUME NEW c, Settled(c), NEW e, e = PutOffline(c)
  PROVE  Settled(e) /\ e.owns = c.owns
<1> DEFINE gone == {s \in Subsystem : ~c.owns[s] /\ c.state[s] \in {"preparing_sleep", "sleeping", "waking"}}
           st == [s \in Subsystem |-> IF s \in gone THEN "offline" ELSE c.state[s]]
           fl == [s \in Subsystem |-> IF s \in gone THEN "none" ELSE c.failure[s]]
<1>1. e = [c EXCEPT !.state = st, !.failure = fl]
  BY DEF PutOffline
<1>2. st \in [Subsystem -> RecordState] /\ fl \in [Subsystem -> Failure]
  BY DEF Settled, State, RecordState, Failure
<1>3. \A s \in Subsystem : st[s] = "offline" \/ st[s] = c.state[s]
  OBVIOUS
<1> HIDE DEF st, fl
<1>4. e \in State /\ e.action = None /\ e.owns = c.owns /\ e.state = st
  BY <1>1, <1>2 DEF Settled, State
<1> QED
  BY <1>3, <1>4 DEF Settled, Kind

LEMMA BeginShutdownGood ==
  ASSUME Good(lc), NEW restart \in BOOLEAN, BeginShutdown(restart)
  PROVE  Good(lc') /\ InOrder /\ NoNewRecovery
<1> DEFINE c == Cancelled(lc)
           p == PutOffline(c)
           e == [p EXCEPT !.sleepPending = {}, !.wakePending = {}, !.attempted = {},
                          !.phase = "stopping", !.mode = "stopping", !.restart = restart]
<1>1. CASE lc.phase = "stopped" /\ Scheduled(lc)
  <2>1. lc.action = None /\ lc' = lc
    BY <1>1, RestingIsIdle DEF Scheduled, Good, PhaseFits, State, Mode
  <2> QED
    BY <2>1 DEF InOrder, NoNewRecovery
<1>2. CASE TearingDown /\ Scheduled([lc EXCEPT !.restart = @ \/ restart])
  <2>1. lc \in State /\ lc.mode = "stopping" /\ lc.action # None
    BY <1>2 DEF TearingDown, Good
  <2>2. lc.action.kind # "recovering"
    BY <2>1 DEF Good, Fits, Coherent, ModesOf
  <2>3. /\ lc'.phase = lc.phase /\ lc'.mode = lc.mode /\ lc'.state = lc.state
        /\ lc'.owns = lc.owns /\ lc'.failure = lc.failure /\ lc'.action = lc.action
        /\ lc'.sleepPending = lc.sleepPending /\ lc'.wakePending = lc.wakePending
        /\ lc'.attempted = lc.attempted
    BY <1>2, <2>1 DEF Scheduled, State
  <2>4. lc' \in State
    <3>1. (lc.restart \/ restart) \in BOOLEAN
      OBVIOUS
    <3>2. lc' = [lc EXCEPT !.restart = (lc.restart \/ restart)]
      BY <1>2 DEF Scheduled
    <3> QED
      BY <2>1, <3>1, <3>2 DEF State
  <2>5. Good(lc')
    BY <2>3, <2>4 DEF Good, Fits, Coherent, PhaseFits, Initializes, Sleeps, TearsDown,
         OwnsByPhase, Owners, OwnedDependent
  <2> QED
    BY <2>2, <2>3, <2>5 DEF InOrder, NoNewRecovery
<1>3. CASE ScheduleTeardown(e)
  <2>1. Settled(p) /\ p.owns = c.owns /\ \A s \in Subsystem : lc.owns[s] => c.owns[s]
    BY CancelledSettled, PutOfflineSettled
  <2> HIDE DEF p, c
  <2>2. /\ e.action = None /\ e.state = p.state /\ e.owns = p.owns
        /\ e.sleepPending = {} /\ e.wakePending = {} /\ e.attempted = {}
        /\ e.phase = "stopping" /\ e.mode = "stopping"
    BY <2>1 DEF Settled, State
  <2>3. e \in State
    BY <2>1 DEF Settled, State, Phase, Mode
  <2> HIDE DEF e
  <2>4. BeforeTeardown(e)
    BY <2>1, <2>2, <2>3 DEF BeforeTeardown, Settled
  <2>5. Good(lc') /\ Kept(e, lc')
    BY <1>3, <2>4, ScheduleTeardownGood
  <2> QED
    BY <2>1, <2>2, <2>5, KeptInOrder
<1> QED
  BY <1>1, <1>2, <1>3 DEF BeginShutdown

LEMMA ReportRuntimeFailureGood ==
  ASSUME Good(lc), NEW s \in Subsystem, NEW fl \in Class, ReportRuntimeFailure(s, fl)
  PROVE  Good(lc') /\ InOrder /\ NoNewRecovery /\ lc'.action = None
<1> DEFINE e == [lc EXCEPT !.state[s] = Unusable(fl), !.failure[s] = fl]
<1>1. lc \in State /\ lc.phase = "running" /\ lc.mode = "running" /\ lc.action = None
  BY DEF ReportRuntimeFailure, Working, Good
<1>2. lc' = IF fl = "terminal" THEN [FailLifetime(e) EXCEPT !.mode = "idle"] ELSE e
  BY DEF ReportRuntimeFailure, Scheduled
<1>3. /\ e.action = None /\ e.phase = lc.phase /\ e.mode = lc.mode /\ e.owns = lc.owns
      /\ e.sleepPending = lc.sleepPending /\ e.wakePending = lc.wakePending
      /\ e \in State
  BY <1>1, UnusableState DEF State
<1>4. \A t \in Subsystem : e.state[t] = IF t = s THEN Unusable(fl) ELSE lc.state[t]
  BY <1>1 DEF State
<1> HIDE DEF e
<1>5. \A t \in Subsystem : lc.owns[t] /\ lc.state[t] \notin Kind
  BY <1>1, IdleSettled DEF Settled, Good, OwnsByPhase, Owners
<1>6. \A t \in Subsystem : e.state[t] \notin Kind
  BY <1>4, <1>5, UnusableState DEF Kind
<1>7. lc.sleepPending = {} /\ lc.wakePending = {}
  BY <1>1 DEF Good, Sleeps
<1>8. /\ lc' \in State /\ lc'.action = None /\ lc'.state = e.state /\ lc'.owns = lc.owns
      /\ lc'.sleepPending = {} /\ lc'.wakePending = {}
      /\ \/ lc'.phase = "failed" /\ lc'.mode = "idle"
         \/ lc'.phase = "running" /\ lc'.mode = "running"
  BY <1>1, <1>2, <1>3, <1>7 DEF FailLifetime, State, Phase, Mode
<1>9. Good(lc')
  BY <1>5, <1>6, <1>8 DEF Good, Fits, PhaseFits, Initializes, Sleeps, TearsDown, OwnsByPhase, Owners
<1> QED
  BY <1>8, <1>9 DEF InOrder, NoNewRecovery

\* A recovery is handed out while the engine runs and owns everything.
LEMMA BeginRecoveryGood ==
  ASSUME Good(lc), NEW s \in Subsystem, BeginRecovery(s)
  PROVE  /\ Good(lc') /\ InOrder
         /\ lc.action = None /\ lc'.action = [subsystem |-> s, kind |-> "recovering"]
<1> DEFINE g == [lc EXCEPT !.mode = "recovering"]
<1>1. /\ lc \in State /\ lc.phase = "running" /\ lc.mode = "running" /\ lc.action = None
      /\ lc' = Issue(g, s, "recovering")
  BY DEF BeginRecovery, Working, Good, Scheduled
<1>2. /\ g \in State /\ g.state = lc.state /\ g.owns = lc.owns /\ g.phase = "running"
      /\ g.mode = "recovering" /\ "recovering" \in Kind
      /\ g.sleepPending = lc.sleepPending /\ g.wakePending = lc.wakePending
  BY <1>1 DEF State, Mode, Kind
<1> HIDE DEF g
<1>3. /\ lc' \in State
      /\ lc'.action = [subsystem |-> s, kind |-> "recovering"]
      /\ lc'.state = [lc.state EXCEPT ![s] = "recovering"]
      /\ lc'.phase = "running" /\ lc'.mode = "recovering" /\ lc'.owns = lc.owns
      /\ lc'.sleepPending = lc.sleepPending /\ lc'.wakePending = lc.wakePending
  BY <1>1, <1>2, IssueFields
<1>4. \A t \in Subsystem : lc'.state[t] = IF t = s THEN "recovering" ELSE lc.state[t]
  BY <1>1, <1>3 DEF State
<1>5. lc'.action # None
  BY <1>3, PlanAssumption DEF Action, Kind
<1>6. \A t \in Subsystem : lc.owns[t] /\ lc.state[t] \notin Kind
  BY <1>1, IdleSettled DEF Settled, Good, OwnsByPhase, Owners
<1>7. Fits(lc')
  <2>1. "recovering" \notin {"preparing_sleep", "waking"} /\ ModesOf["recovering"] = {"recovering"}
    BY DEF ModesOf
  <2> QED
    BY <1>3, <1>4, <1>5, <1>6, <2>1 DEF Fits, Coherent
<1>8. PhaseFits(lc') /\ Initializes(lc') /\ TearsDown(lc') /\ OwnsByPhase(lc')
  BY <1>3, <1>4, <1>5, <1>6 DEF PhaseFits, Initializes, TearsDown, OwnsByPhase, Owners
<1>9. Sleeps(lc')
  BY <1>1, <1>3 DEF Good, Sleeps
<1> QED
  BY <1>1, <1>3, <1>7, <1>8, <1>9 DEF Good, InOrder

LEMMA EngineInitGood ==
  ASSUME EngineInit
  PROVE  Good(lc) /\ (lc.action # None => lc.action.kind # "recovering")
<1> DEFINE g == Fresh(FALSE)
<1>1. PICK s \in Subsystem :
        /\ First(s, {t \in Subsystem : Dependencies[t] = {}})
        /\ lc = Issue(g, s, "initializing")
  BY DEF EngineInit
<1>2. /\ g \in State
      /\ g.phase = "starting" /\ g.mode = "starting"
      /\ g.sleepPending = {} /\ g.wakePending = {}
      /\ \A t \in Subsystem : ~g.owns[t] /\ g.state[t] = "offline"
  BY DEF Fresh, State, Phase, Mode, RecordState, Failure
<1> HIDE DEF g
<1>3. "initializing" \in Kind
  BY DEF Kind
<1>4. /\ lc \in State
      /\ lc.action = [subsystem |-> s, kind |-> "initializing"]
      /\ lc.state = [g.state EXCEPT ![s] = "initializing"]
      /\ lc.phase = "starting" /\ lc.mode = "starting" /\ lc.owns = g.owns
      /\ lc.sleepPending = {} /\ lc.wakePending = {}
  BY <1>1, <1>2, <1>3, IssueFields
<1>5. \A t \in Subsystem : /\ lc.state[t] = IF t = s THEN "initializing" ELSE "offline"
                           /\ ~lc.owns[t]
  <2>1. g.state \in [Subsystem -> RecordState]
    BY <1>2 DEF State
  <2> QED
    BY <1>2, <1>4, <2>1
<1>6. lc.action # None
  BY <1>3, <1>4, PlanAssumption DEF Action
<1>7. Fits(lc)
  <2>1. ModesOf["initializing"] = {"starting"}
    BY DEF ModesOf
  <2> QED
    BY <1>4, <1>5, <1>6, <2>1 DEF Fits, Coherent, Kind
<1>8. PhaseFits(lc) /\ Initializes(lc) /\ Sleeps(lc) /\ TearsDown(lc) /\ OwnsByPhase(lc)
  BY <1>4, <1>5, <1>6 DEF PhaseFits, Initializes, Sleeps, TearsDown, OwnsByPhase
<1> QED
  BY <1>4, <1>7, <1>8 DEF Good

-----------------------------------------------------------------------------
(* The dispatcher. *)

DispatcherTypes ==
  /\ active \in [Subsystem -> Disposition]
  /\ recovery \in [subsystem : Subsystem, live : BOOLEAN] \cup {None}
  /\ events \in [EventKind -> Nat] /\ events["playback"] + events["state"] <= MaxEvents
  /\ pending \in [permit : State \cup {None}, stage : {"queued", "done", "lost"}] \cup {None}
  /\ executor \in {"attached", "gone"}
  /\ openJobs \in BOOLEAN

IInv ==
  /\ Good(lc)
  /\ DispatcherTypes
  /\ RecoveryIsTracked
  /\ ReservationHolds

\* The lifecycle's part of a step.
LEMMA LifecycleStep ==
  ASSUME Good(lc), [Next]_vars
  PROVE  Good(lc') /\ InOrder
<1>1. ASSUME NEW s \in Subsystem, Owner(s)
      PROVE  Good(lc') /\ InOrder
  BY <1>1, CompleteGood, FailGood DEF Owner, OwnerCompletes, OwnerFails
<1>2. ASSUME NEW s \in Faulty, StartRecovery(s) \/ \E f \in Class : ReportFailure(s, f)
      PROVE  Good(lc') /\ InOrder
  BY <1>2, BeginRecoveryGood, ReportRuntimeFailureGood, DispatcherAssumption
     DEF StartRecovery, ReportFailure
<1>3. ASSUME Sleep \/ Wake \/ Shutdown \/ Restart
      PROVE  Good(lc') /\ InOrder
  BY <1>3, BeginSleepGood, BeginWakeGood, BeginShutdownGood, BeginRestartGood
     DEF Sleep, Wake, Shutdown, Restart, Request
<1>4. CASE lc' = lc
  BY <1>4 DEF InOrder
<1> QED
  BY <1>1, <1>2, <1>3, <1>4
     DEF Next, vars, ProjectCommand, AdmitExport, SettleExports, EnqueuePlayback, ExecuteNext,
         DropExecutor, Collect, DrainEvents, DiscardPlaybackEvents

\* A command that pushes an event finds room and no pending playback command.
LEMMA EmitsKeeps ==
  ASSUME DispatcherTypes, Emits, UNCHANGED pending
  PROVE  /\ events' \in [EventKind -> Nat] /\ events'["playback"] + events'["state"] <= MaxEvents
         /\ ReservationHolds'
<1>1. events["playback"] \in Nat /\ events["state"] \in Nat /\ MaxEvents \in Nat
  BY DispatcherAssumption DEF DispatcherTypes, EventKind
<1>2. events' = [events EXCEPT !["state"] = @ + 1] /\ events["playback"] + events["state"] < MaxEvents
  BY DEF Emits, Push, Room
<1>3. events' \in [EventKind -> Nat]
  BY <1>1, <1>2 DEF DispatcherTypes, EventKind
<1>4. events'["playback"] = events["playback"] /\ events'["state"] = events["state"] + 1
  BY <1>2 DEF DispatcherTypes, EventKind
<1> QED
  BY <1>1, <1>2, <1>3, <1>4 DEF Emits, ReservationHolds

\* No lifecycle action, no live token.
LEMMA NoActionNoToken ==
  ASSUME RecoveryIsTracked, DispatcherTypes, lc.action = None
  PROVE  recovery # None => ~recovery.live
BY PlanAssumption DEF RecoveryIsTracked, DispatcherTypes, Action, Kind

LEMMA OwnerPreserves ==
  ASSUME IInv, NEW s \in Subsystem, Owner(s)
  PROVE  DispatcherTypes' /\ RecoveryIsTracked' /\ ReservationHolds'
<1>1. Emits /\ UNCHANGED << pending, executor, openJobs >>
  BY DEF Owner, OwnerCompletes, OwnerFails, Lifecycle
<1>2. /\ events' \in [EventKind -> Nat] /\ events'["playback"] + events'["state"] <= MaxEvents
      /\ ReservationHolds'
  BY <1>1, EmitsKeeps DEF IInv
<1>3. recovery' = None
  BY DEF Owner, OwnerCompletes, OwnerFails
<1>4. active' \in [Subsystem -> Disposition]
  BY DEF Owner, OwnerCompletes, OwnerFails, IInv, DispatcherTypes, Disposition, DispositionOf
<1>5. DispatcherTypes'
  BY <1>1, <1>2, <1>3, <1>4 DEF IInv, DispatcherTypes
<1>6. NoNewRecovery
  BY CompleteGood, FailGood DEF IInv, Owner, OwnerCompletes, OwnerFails
<1>7. RecoveryIsTracked'
  BY <1>3, <1>6 DEF RecoveryIsTracked, NoNewRecovery
<1> QED
  BY <1>2, <1>5, <1>7

LEMMA ReportFailurePreserves ==
  ASSUME IInv, NEW s \in Subsystem, NEW f \in Class, ReportFailure(s, f)
  PROVE  DispatcherTypes' /\ RecoveryIsTracked' /\ ReservationHolds'
<1>1. Emits /\ UNCHANGED << pending, executor, openJobs, recovery >>
  BY DEF ReportFailure, Lifecycle
<1>2. /\ events' \in [EventKind -> Nat] /\ events'["playback"] + events'["state"] <= MaxEvents
      /\ ReservationHolds'
  BY <1>1, EmitsKeeps DEF IInv
<1>3. active' \in [Subsystem -> Disposition]
  BY DEF ReportFailure, IInv, DispatcherTypes, Disposition, DispositionOf
<1>4. DispatcherTypes'
  BY <1>1, <1>2, <1>3 DEF IInv, DispatcherTypes
<1>5. lc.action = None /\ lc'.action = None
  BY ReportRuntimeFailureGood DEF IInv, ReportFailure, ReportRuntimeFailure, Working
<1>6. RecoveryIsTracked'
  BY <1>1, <1>5, NoActionNoToken DEF IInv, RecoveryIsTracked
<1> QED
  BY <1>2, <1>4, <1>6

LEMMA StartRecoveryPreserves ==
  ASSUME IInv, NEW s \in Subsystem, StartRecovery(s)
  PROVE  DispatcherTypes' /\ RecoveryIsTracked' /\ ReservationHolds'
<1>1. /\ Emits /\ UNCHANGED << pending, executor, openJobs, active >>
      /\ active[s] = "recoverable" /\ recovery' = [subsystem |-> s, live |-> TRUE]
  BY DEF StartRecovery, Lifecycle
<1>2. /\ events' \in [EventKind -> Nat] /\ events'["playback"] + events'["state"] <= MaxEvents
      /\ ReservationHolds'
  BY <1>1, EmitsKeeps DEF IInv
<1>3. DispatcherTypes'
  BY <1>1, <1>2 DEF IInv, DispatcherTypes
<1>4. lc'.action = [subsystem |-> s, kind |-> "recovering"]
  BY BeginRecoveryGood DEF IInv, StartRecovery
<1>5. RecoveryIsTracked'
  BY <1>1, <1>4 DEF RecoveryIsTracked
<1> QED
  BY <1>2, <1>3, <1>5

LEMMA RequestPreserves ==
  ASSUME IInv, Sleep \/ Wake \/ Shutdown \/ Restart
  PROVE  DispatcherTypes' /\ RecoveryIsTracked' /\ ReservationHolds'
<1>1. Emits /\ UNCHANGED << pending, executor, openJobs, active >> /\ Tokens
  BY DEF Sleep, Wake, Shutdown, Restart, Request, Lifecycle
<1>2. /\ events' \in [EventKind -> Nat] /\ events'["playback"] + events'["state"] <= MaxEvents
      /\ ReservationHolds'
  BY <1>1, EmitsKeeps DEF IInv
<1>3. \/ recovery' = recovery /\ (recovery = None \/ lc'.action = lc.action)
      \/ recovery # None /\ recovery' = [recovery EXCEPT !.live = FALSE]
  BY <1>1 DEF Tokens
<1>4. recovery' \in [subsystem : Subsystem, live : BOOLEAN] \cup {None}
  BY <1>3 DEF IInv, DispatcherTypes
<1>5. DispatcherTypes'
  BY <1>1, <1>2, <1>4 DEF IInv, DispatcherTypes
<1>6. NoNewRecovery
  BY BeginSleepGood, BeginWakeGood, BeginShutdownGood, BeginRestartGood
     DEF IInv, Sleep, Wake, Shutdown, Restart, Request
<1>7. recovery' # None => ~recovery'.live
  <2>1. CASE recovery' = recovery /\ recovery # None /\ lc'.action = lc.action
    <3> SUFFICES ASSUME recovery.live PROVE FALSE
      BY <2>1
    <3>1. lc.action = [subsystem |-> recovery.subsystem, kind |-> "recovering"]
      BY <2>1 DEF IInv, RecoveryIsTracked
    <3>2. lc.action # None
      BY <2>1, <3>1, PlanAssumption DEF IInv, DispatcherTypes, Action, Kind
    <3> QED
      BY <1>6, <2>1, <3>1, <3>2 DEF NoNewRecovery
  <2>2. CASE recovery # None /\ recovery' = [recovery EXCEPT !.live = FALSE]
    BY <2>2 DEF IInv, DispatcherTypes
  <2> QED
    BY <1>3, <2>1, <2>2
<1>8. RecoveryIsTracked'
  BY <1>6, <1>7 DEF RecoveryIsTracked, NoNewRecovery
<1> QED
  BY <1>2, <1>5, <1>8

\* What leaves the lifecycle and the failure records alone.
LEMMA QueuePreserves ==
  ASSUME IInv, UNCHANGED << lc, active, recovery >>,
         \/ ProjectCommand \/ AdmitExport \/ SettleExports
         \/ \E inspect \in BOOLEAN : EnqueuePlayback(inspect)
         \/ ExecuteNext \/ DropExecutor \/ Collect \/ DrainEvents \/ DiscardPlaybackEvents
  PROVE  DispatcherTypes' /\ RecoveryIsTracked' /\ ReservationHolds'
<1> DEFINE EventsFit == /\ events' \in [EventKind -> Nat]
                        /\ events'["playback"] + events'["state"] <= MaxEvents
<1>0. /\ events \in [EventKind -> Nat] /\ events["playback"] \in Nat /\ events["state"] \in Nat
      /\ events["playback"] + events["state"] <= MaxEvents
      /\ MaxEvents \in Nat \ {0}
  BY DispatcherAssumption DEF IInv, DispatcherTypes, EventKind
<1>1. RecoveryIsTracked'
  BY DEF IInv, RecoveryIsTracked
<1>2. active' \in [Subsystem -> Disposition] /\ recovery' \in [subsystem : Subsystem, live : BOOLEAN] \cup {None}
  BY DEF IInv, DispatcherTypes
<1>3. CASE ProjectCommand \/ AdmitExport \/ SettleExports
  <2>1. /\ Emits /\ UNCHANGED << pending, executor >> /\ openJobs' \in BOOLEAN
    BY <1>3 DEF ProjectCommand, AdmitExport, SettleExports, IInv, DispatcherTypes
  <2>2. EventsFit
    BY <2>1, EmitsKeeps DEF IInv
  <2>4. ReservationHolds'
    BY <2>1, EmitsKeeps DEF IInv
  <2>3. DispatcherTypes'
    BY <1>2, <2>1, <2>2 DEF IInv, DispatcherTypes
  <2> QED
    BY <1>1, <2>3, <2>4
<1>4. ASSUME NEW inspect \in BOOLEAN, EnqueuePlayback(inspect)
      PROVE  DispatcherTypes' /\ ReservationHolds'
  <2>1. /\ Room /\ UNCHANGED << events, executor, openJobs >>
        /\ pending' = [permit |-> IF inspect THEN None ELSE lc, stage |-> "queued"]
        /\ ~inspect => Admits(Required["playback"])
    BY <1>4 DEF EnqueuePlayback
  <2>2. pending' \in [permit : State \cup {None}, stage : {"queued", "done", "lost"}]
    BY <2>1 DEF IInv, Good
  <2>3. DispatcherTypes'
    BY <1>2, <2>1, <2>2 DEF IInv, DispatcherTypes
  <2>4. pending'.permit # None => pending'.permit = lc /\ Admits(Required["playback"])
    BY <2>1
  <2>5. Admits(Required["playback"])' = Admits(Required["playback"]) /\ lc' = lc /\ Room' = Room
    BY <2>1 DEF Admits, Room
  <2> QED
    BY <2>1, <2>3, <2>4, <2>5 DEF ReservationHolds
<1>5. CASE ExecuteNext
  <2>1. /\ UNCHANGED << lc, events, executor, openJobs >>
        /\ pending # None /\ pending' = [pending EXCEPT !.stage = "done"]
    BY <1>5 DEF ExecuteNext
  <2>2. /\ pending' \in [permit : State \cup {None}, stage : {"queued", "done", "lost"}]
        /\ pending'.permit = pending.permit /\ pending'.stage = "done"
    BY <2>1 DEF IInv, DispatcherTypes
  <2>3. DispatcherTypes'
    BY <1>2, <2>1, <2>2 DEF IInv, DispatcherTypes
  <2>4. Admits(Required["playback"])' = Admits(Required["playback"]) /\ lc' = lc /\ Room' = Room
    BY <2>1 DEF Admits, Room
  <2> QED
    BY <1>1, <2>1, <2>2, <2>3, <2>4 DEF IInv, ReservationHolds
<1>6. CASE DropExecutor
  <2>1. UNCHANGED << lc, events, pending, openJobs >> /\ executor' = "gone"
    BY <1>6 DEF DropExecutor
  <2> QED
    BY <1>1, <1>2, <2>1 DEF IInv, DispatcherTypes, ReservationHolds, Admits, Room
<1>7. CASE Collect
  <2>1. Room /\ pending # None
    BY <1>7 DEF Collect, Arrived, IInv, ReservationHolds
  <2>2. /\ UNCHANGED << executor, openJobs >> /\ pending' = None
        /\ events' = [events EXCEPT !["playback"] = @ + 1]
    BY <1>7, <2>1 DEF Collect, Push, Room
  <2>3. events' \in [EventKind -> Nat]
    BY <1>0, <2>2 DEF EventKind
  <2>4. events'["playback"] = events["playback"] + 1 /\ events'["state"] = events["state"]
    BY <1>0, <2>2 DEF EventKind
  <2>5. EventsFit
    BY <1>0, <2>1, <2>3, <2>4 DEF Room
  <2> QED
    BY <1>1, <1>2, <2>2, <2>5 DEF IInv, DispatcherTypes, ReservationHolds
<1>8. CASE DrainEvents \/ DiscardPlaybackEvents
  <2>1. /\ UNCHANGED << lc, executor, openJobs >>
        /\ pending' = pending \/ pending' = None
        /\ events' = NoEvents \/ events' = [events EXCEPT !["playback"] = 0]
    BY <1>8 DEF DrainEvents, DiscardPlaybackEvents
  <2>2. /\ events' \in [EventKind -> Nat]
        /\ events'["playback"] = 0 /\ events'["state"] \in {0, events["state"]}
    BY <1>0, <2>1 DEF NoEvents, EventKind
  <2>3. /\ EventsFit
        /\ Room => events'["playback"] + events'["state"] < MaxEvents
    BY <1>0, <2>2 DEF Room
  <2>4. DispatcherTypes'
    BY <1>2, <2>1, <2>3 DEF IInv, DispatcherTypes
  <2>5. ReservationHolds'
    BY <2>1, <2>3 DEF IInv, ReservationHolds, Admits, Room
  <2> QED
    BY <1>1, <2>4, <2>5
<1> QED
  BY <1>1, <1>3, <1>4, <1>5, <1>6, <1>7, <1>8

\* The invariant is inductive.
LEMMA Initially == Init => IInv
<1> SUFFICES ASSUME Init PROVE IInv
  OBVIOUS
<1>1. Good(lc) /\ (lc.action # None => lc.action.kind # "recovering")
  BY EngineInitGood DEF Init
<1>2. events = NoEvents /\ MaxEvents \in Nat
  BY DispatcherAssumption DEF Init
<1>3. DispatcherTypes
  <2>1. /\ events \in [EventKind -> Nat] /\ events["playback"] = 0 /\ events["state"] = 0
    BY <1>2 DEF NoEvents, EventKind
  <2>2. events["playback"] + events["state"] <= MaxEvents
    BY <1>2, <2>1
  <2>3. active \in [Subsystem -> Disposition]
    BY DEF Init, Disposition
  <2> QED
    BY <2>1, <2>2, <2>3 DEF Init, DispatcherTypes
<1> QED
  BY <1>1, <1>3 DEF Init, IInv, RecoveryIsTracked, ReservationHolds

LEMMA Preserved == IInv /\ [Next]_vars => IInv'
<1> SUFFICES ASSUME IInv, [Next]_vars PROVE IInv'
  OBVIOUS
<1>1. Good(lc')
  BY LifecycleStep DEF IInv
<1>2. ASSUME NEW s \in Subsystem, Owner(s)
      PROVE  DispatcherTypes' /\ RecoveryIsTracked' /\ ReservationHolds'
  BY <1>2, OwnerPreserves
<1>3. ASSUME NEW s \in Faulty, StartRecovery(s) \/ \E f \in Class : ReportFailure(s, f)
      PROVE  DispatcherTypes' /\ RecoveryIsTracked' /\ ReservationHolds'
  BY <1>3, StartRecoveryPreserves, ReportFailurePreserves, DispatcherAssumption
<1>4. ASSUME Sleep \/ Wake \/ Shutdown \/ Restart
      PROVE  DispatcherTypes' /\ RecoveryIsTracked' /\ ReservationHolds'
  BY <1>4, RequestPreserves
<1>5. ASSUME \/ ProjectCommand \/ AdmitExport \/ SettleExports
             \/ \E inspect \in BOOLEAN : EnqueuePlayback(inspect)
             \/ ExecuteNext \/ DropExecutor \/ Collect \/ DrainEvents \/ DiscardPlaybackEvents
      PROVE  DispatcherTypes' /\ RecoveryIsTracked' /\ ReservationHolds'
  <2>1. UNCHANGED << lc, active, recovery >>
    BY <1>5 DEF ProjectCommand, AdmitExport, SettleExports, EnqueuePlayback, ExecuteNext,
         DropExecutor, Collect, DrainEvents, DiscardPlaybackEvents
  <2> QED
    BY <1>5, <2>1, QueuePreserves
<1>6. ASSUME UNCHANGED vars
      PROVE  DispatcherTypes' /\ RecoveryIsTracked' /\ ReservationHolds'
  BY <1>6 DEF vars, IInv, DispatcherTypes, RecoveryIsTracked, ReservationHolds, Admits, Room
<1>7. DispatcherTypes' /\ RecoveryIsTracked' /\ ReservationHolds'
  BY <1>2, <1>3, <1>4, <1>5, <1>6 DEF Next
<1> QED
  BY <1>1, <1>7 DEF IInv

THEOREM Inductive == Spec => []IInv
BY Initially, Preserved, PTL DEF Spec

-----------------------------------------------------------------------------
(* The properties. *)

\* Types: EngineLifecycle's record and the dispatcher's own state.
THEOREM TypeCorrect == Spec => []TypeOK
<1>1. IInv => TypeOK
  BY DEF IInv, Good, DispatcherTypes, TypeOK, EngineTypeOK
<1> QED
  BY <1>1, Inductive, PTL

\* No request leaves a subsystem in a passing state without its action, or an
\* action whose report is refused (complete_action, cancel_pending_action).
THEOREM AlwaysCoherent == Spec => []ActionIsCoherent
<1>1. IInv => ActionIsCoherent
  BY DEF IInv, Good, Fits, ActionIsCoherent
<1> QED
  BY <1>1, Inductive, PTL

\* Outside the resting modes an action is outstanding: progress is always owed.
THEOREM SomebodyOwes == Spec => []PhaseOfMode
<1>1. IInv => PhaseOfMode
  BY DEF IInv, Good, PhaseFits, PhaseOfMode
<1> QED
  BY <1>1, Inductive, PTL

\* A running engine owns every subsystem and a stopped one none.
THEOREM OwnershipAlways == Spec => []OwnershipFollowsPhase
<1>1. IInv => OwnershipFollowsPhase
  BY DEF IInv, Good, OwnsByPhase, OwnershipFollowsPhase
<1> QED
  BY <1>1, Inductive, PTL

\* A recovery token is live exactly while its action is outstanding.
THEOREM RecoveryTracked == Spec => []RecoveryIsTracked
<1>1. IInv => RecoveryIsTracked
  BY DEF IInv
<1> QED
  BY <1>1, Inductive, PTL

\* The event and the permit reserved for a playback command stay good.
THEOREM ReservationAlways == Spec => []ReservationHolds
<1>1. IInv => ReservationHolds
  BY DEF IInv
<1> QED
  BY <1>1, Inductive, PTL

\* Dependencies outlive what is built on them, but for a failed sleep.
THEOREM AlwaysInOrder == Spec => ReleasesInOrder
<1>1. IInv /\ [Next]_vars =>
        [\A s \in Subsystem : lc.owns[s] /\ ~lc'.owns[s] =>
           \A t \in Owners(lc) \ {s} : s \in Dependencies[t] =>
             lc.phase = "preparing_sleep" /\ lc.state[t] = "degraded"]_vars
  BY LifecycleStep DEF IInv, InOrder
<1> QED
  BY <1>1, Inductive, PTL DEF Spec, ReleasesInOrder
=============================================================================
