------------------------ MODULE ApplicationLifecycle ------------------------
(***************************************************************************)
(* The desktop application's lifecycle (superi-session/src/lifecycle.rs)   *)
(* over a Lifecycle coordinator with one participant, and the thread that  *)
(* is this participant: run_engine_control of superi-session/src/engine.rs.*)
(*                                                                         *)
(* Two locks protect two halves of the state: the coordinator's mutex and  *)
(* the owner mutex around intent and generation.  A client holds the owner *)
(* mutex over two coordinator calls; the engine thread acknowledges first  *)
(* and takes the owner mutex afterwards, with the snapshot it got then.    *)
(***************************************************************************)
EXTENDS Integers

CONSTANTS Client,       \* threads that call the request methods
          Engine,       \* the headless-engine participant
          MaxRevision,  \* the coordinator's bound on revisions
          NoFailure, NoOne

ASSUME ApplicationAssumption ==
  /\ MaxRevision \in Nat \ {0}
  /\ NoFailure # Engine
  /\ NoOne \notin Client

VARIABLES
  phase, revision, pending, wakeTarget, failure, signal, seen, acked, intended,
  \* --- ApplicationLifecycle ---
  owner,       \* who holds the owner mutex
  intent,      \* the application's goal
  generation,  \* engine_generation
  terminal,    \* is the retained failure's recoverability terminal?
  \* --- clients ---
  call,        \* call[c]: the request c is in, with what it read
  \* --- the engine thread ---
  at,          \* where run_engine_control is
  linked,      \* it owns a command dispatcher
  acknowledged,\* the phase its last acknowledgement led to
  \* --- history, read by properties only ---
  asked,       \* the last request that returned Ok
  started      \* the generation of the last start

coord == << phase, revision, pending, wakeTarget, failure, signal, seen, acked, intended >>
own   == << owner, intent, generation >>
eng   == << at, linked, acknowledged >>
vars  == << coord, own, terminal, call, eng, asked, started >>

Coordinator == INSTANCE Lifecycle WITH Participant <- {Engine}

Goal == {"start", "run", "shutdown", "restart", "recover"}
Requested == {"shutdown", "restart", "recover"}
Again == {"restart", "recover"}
Idle == [state |-> "idle"]
Call == [state : {"idle", "checked"}]
          \cup [state : {"locked"}, previous : Goal, phase : Coordinator!Phase]

Init ==
  /\ Coordinator!Init
  /\ owner = NoOne /\ intent = "start" /\ generation = 1
  /\ terminal = FALSE
  /\ call = [c \in Client |-> Idle]
  /\ at = "poll" /\ linked = FALSE /\ acknowledged = "none"
  /\ asked = "none" /\ started = 1

NextGeneration(g) == g + 1

\* A coordinator step that may begin a lifetime.
NoteStart == started' = IF phase' = "starting" /\ phase # "starting" THEN generation' ELSE started

-----------------------------------------------------------------------------
(* Clients. *)

\* request_recovery looks at the failure before it takes the owner mutex.
CheckRecovery(c) ==
  /\ call[c] = Idle
  /\ failure # NoFailure /\ phase = "failed" /\ ~terminal
  /\ call' = [call EXCEPT ![c] = [state |-> "checked"]]
  /\ UNCHANGED << coord, own, terminal, eng, asked, started >>

\* request_intent as far as its look at the phase.
BeginIntent(c, goal) ==
  /\ owner = NoOne
  /\ call[c].state = IF goal = "recover" THEN "checked" ELSE "idle"
  /\ owner' = c
  /\ intent' = goal
  /\ call' = [call EXCEPT ![c] = [state |-> "locked", previous |-> intent, phase |-> phase]]
  /\ UNCHANGED << coord, generation, terminal, eng, asked, started >>

\* The coordinator's answer to request_shutdown and request_restart.
ShutDownCoordinator ==
  \/ /\ phase \in {"stopping", "stopped"}
     /\ UNCHANGED coord
  \/ /\ revision < MaxRevision
     /\ Coordinator!RequestShutdown
RestartCoordinator == revision < MaxRevision /\ Coordinator!RequestRestart

\* The second half: one coordinator request, then the mutex is released.
EndIntent(c) ==
  /\ owner = c
  /\ \/ /\ intent = "shutdown" \/ call[c].phase # "stopped"
        /\ ShutDownCoordinator
        /\ UNCHANGED generation
     \/ /\ intent \in Again /\ call[c].phase = "stopped"
        /\ RestartCoordinator
        /\ generation' = NextGeneration(generation)
  /\ asked' = intent
  /\ owner' = NoOne
  /\ call' = [call EXCEPT ![c] = Idle]
  /\ NoteStart
  /\ UNCHANGED << intent, terminal, eng >>

\* The coordinator refuses: the owner state goes back to what it was.
AbandonIntent(c) ==
  /\ owner = c
  /\ revision = MaxRevision
  /\ phase # "stopping"
  /\ phase = "stopped" => intent \in Again /\ call[c].phase = "stopped"
  /\ intent' = call[c].previous
  /\ owner' = NoOne
  /\ call' = [call EXCEPT ![c] = Idle]
  /\ failure' = IF phase = "stopped" THEN NoFailure ELSE failure
  /\ UNCHANGED << phase, revision, pending, wakeTarget, signal, seen, acked, intended,
                  generation, terminal, eng, asked, started >>

-----------------------------------------------------------------------------
(* The engine thread. *)

Token == seen[Engine]

\* Where the match on the loaded phase leads.
Turn_NoTearDown(ph) ==
  IF ph = "starting" THEN "link" ELSE IF ph = "stopped" THEN "exited" ELSE "poll"
Turn(ph) ==
  IF ph = "starting" THEN "link"
  ELSE IF ph = "stopping" THEN "teardown"
  ELSE IF ph = "stopped" THEN "exited" ELSE "poll"

\* Top of the loop: load the signal and match on its phase.
Poll ==
  /\ at = "poll"
  /\ seen' = [seen EXCEPT ![Engine] = signal]
  /\ at' = Turn(signal[1])
  /\ UNCHANGED << phase, revision, pending, wakeTarget, failure, signal, acked, intended,
                  own, terminal, call, linked, acknowledged, asked, started >>

\* Serving requests, the thread finds that the connection's owner is gone.
Disconnected ==
  /\ at = "poll" /\ Token[1] \in {"running", "failed"}
  /\ \/ /\ Coordinator!Fail(Engine)
        /\ terminal' = TRUE
     \/ /\ phase = "stopped" \/ revision = MaxRevision
        /\ UNCHANGED << coord, terminal >>
  /\ at' = "exited"
  /\ UNCHANGED << own, call, linked, acknowledged, asked, started >>

\* EngineCommandDispatcher::new, unless a dispatcher is still there.
Link ==
  /\ at = "link"
  /\ linked' = TRUE
  /\ at' = "acknowledge"
  /\ UNCHANGED << coord, own, terminal, call, acknowledged, asked, started >>

\* stop_dispatcher, if there is one.
TearDown ==
  /\ at = "teardown"
  /\ linked' = FALSE
  /\ at' = "acknowledge"
  /\ UNCHANGED << coord, own, terminal, call, acknowledged, asked, started >>

\* Either of them fails: the failure ends whatever lifetime is current by now.
EngineFails ==
  /\ \/ at = "link" /\ ~linked
     \/ at = "teardown" /\ linked
  /\ linked' = FALSE
  /\ \/ /\ Coordinator!Fail(Engine)
        /\ \E final \in BOOLEAN : terminal' = final
        /\ at' = "poll"
     \/ /\ phase = "stopped" \/ revision = MaxRevision
        /\ UNCHANGED << coord, terminal >>
        /\ at' = "exited"
  /\ UNCHANGED << own, call, acknowledged, asked, started >>

\* participant.acknowledge(observed): Ok, stale, or refused for good.
AcknowledgeObserved ==
  /\ at = "acknowledge"
  /\ \/ /\ revision < MaxRevision
        /\ Coordinator!Acknowledge(Engine)
        /\ acknowledged' = phase'
        /\ at' = "after"
     \/ /\ ~Coordinator!Current(Token)
        /\ UNCHANGED << coord, acknowledged >>
        /\ at' = "poll"
     \/ /\ revision = MaxRevision
        /\ Coordinator!Acknowledge(Engine)
        /\ UNCHANGED acknowledged
        /\ at' = "exited"
  /\ UNCHANGED << own, terminal, call, linked, asked, started >>

\* What the acknowledgement's snapshot and the intent of now amount to.
RestartDue_Always == acknowledged = "stopped"
RestartDue == acknowledged = "stopped" /\ intent \in Again
GoalReached == IF acknowledged = "running" THEN "run" ELSE intent

\* after_engine_acknowledgement.  The snapshot was taken before the owner mutex:
\* by now a client may have moved the coordinator on.
AfterAcknowledgement ==
  /\ at = "after"
  /\ owner = NoOne
  /\ intent' = GoalReached
  /\ \/ /\ acknowledged = "running"
        /\ at' = "poll"
        /\ UNCHANGED << coord, generation >>
     \/ /\ RestartDue
        /\ generation' = NextGeneration(generation)
        /\ \/ RestartCoordinator
           \/ phase # "stopped" /\ UNCHANGED coord
           \/ /\ phase = "stopped" /\ revision = MaxRevision
              /\ failure' = NoFailure
              /\ UNCHANGED << phase, revision, pending, wakeTarget, signal, seen, acked, intended >>
        /\ at' = "poll"
     \/ /\ acknowledged = "stopped" /\ ~RestartDue
        /\ at' = IF intent = "shutdown" THEN "exited" ELSE "poll"
        /\ UNCHANGED << coord, generation >>
  /\ NoteStart
  /\ UNCHANGED << owner, terminal, call, linked, acknowledged, asked >>

EngineThread == Poll \/ Link \/ TearDown \/ EngineFails \/ AcknowledgeObserved \/ AfterAcknowledgement

ClientStep(c) ==
  \/ CheckRecovery(c)
  \/ \E goal \in Requested : BeginIntent(c, goal)
  \/ EndIntent(c) \/ AbandonIntent(c)

Next == EngineThread \/ Disconnected \/ \E c \in Client : ClientStep(c)

Spec == Init /\ [][Next]_vars

\* The engine thread runs, and a client that took the owner mutex finishes.
\* The mutex is free between two requests of a person, so that the thread that
\* waits for it gets it although requests keep coming.
FairSpec ==
  /\ Spec
  /\ WF_vars(EngineThread) /\ SF_vars(AfterAcknowledgement)
  /\ \A c \in Client : WF_vars(EndIntent(c) \/ AbandonIntent(c))
-----------------------------------------------------------------------------
(* Properties. *)

LocalOK ==
  /\ owner \in Client \cup {NoOne}
  /\ intent \in Goal
  /\ generation \in Nat /\ started \in Nat
  /\ terminal \in BOOLEAN /\ linked \in BOOLEAN
  /\ call \in [Client -> Call]
  /\ at \in {"poll", "link", "teardown", "acknowledge", "after", "exited"}
  /\ acknowledged \in {"none", "running", "stopped"}
  /\ asked \in Requested \cup {"none"}

TypeOK == Coordinator!TypeOK /\ LocalOK

\* A lifetime begins only if the last request that returned asked for one, so that
\* an accepted shutdown is not undone by the restart it overtook; and it begins in a
\* generation no earlier lifetime had, whoever starts it.
StartsOnlyIfAsked ==
  [][phase' = "starting" /\ phase # "starting"
       => asked' \in Again /\ generation' > started]_vars

\* Nobody in the middle of a request and the engine thread between two turns.
Quiet == owner = NoOne /\ at \in {"poll", "exited"}

\* With no request left the engine settles: up, down, failed, or out of revisions.
EngineSettles ==
  phase \in {"starting", "stopping"} /\ at # "exited" ~>
    \/ phase \in {"running", "stopped", "failed"}
    \/ at = "exited" \/ revision = MaxRevision

\* "Requests orderly engine teardown followed by a fresh engine generation."
RestartIsHonoured ==
  ~ (Quiet /\ phase = "stopped" /\ revision < MaxRevision /\ asked \in Again /\ at = "exited")
=============================================================================
