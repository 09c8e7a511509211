----------------------------- MODULE WorkerPool -----------------------------
(***************************************************************************)
(* The bounded work-stealing pool of superi-concurrency                    *)
(* (open/crates/superi-concurrency/src/jobs/pool.rs), the weighted         *)
(* priority cycle it shares with PriorityScheduler (jobs/priority.rs) and  *)
(* the cooperative cancellation and deadline of JobControl (jobs.rs).      *)
(*                                                                         *)
(* Threads: the owner that builds, shuts down or drops the pool, one       *)
(* client per submission, N workers.  Everything under the pool's one      *)
(* mutex is one action; what a thread does after unlocking (notify_one,    *)
(* notify_all, the job's closure, sending the result, recording the        *)
(* completion) is an action of its own.                                    *)
(*                                                                         *)
(* A Task is one submission: a closure, its JobControl and its one-shot    *)
(* handle.  Two tasks may carry the same job identity.                     *)
(***************************************************************************)
EXTENDS Integers, Sequences, FiniteSets

CONSTANTS N,           \* worker_count
          Capacity,    \* queue_capacity
          Task,        \* submissions that may be outstanding at once
          Id,          \* job identities
          IdOf,        \* the identity each task is submitted under
          PriorityOf,  \* the priority class each task is submitted under
          Deadlined,   \* tasks whose JobControl carries a deadline
          Cancellable, \* tasks whose cancellation token somebody retains
          Returns,     \* what closures may return, see BodyResult
          Reuse,       \* may a client submit again once its handle is spent?
          MaxCount,    \* where the u64 dispatch counters saturate
          NoTask       \* not a task

Priority == {"background", "export", "playback", "interactive"}

\* What a closure may return: a value, an error by category, or a panic.
BodyResult == {"value", "error", "cancelled_error", "timeout_error", "panic"}

ASSUME PoolAssumption ==
  /\ N \in Nat \ {0}
  /\ Capacity \in Nat \ {0}
  /\ IsFiniteSet(Task)
  /\ NoTask \notin Task
  /\ IdOf \in [Task -> Id]
  /\ PriorityOf \in [Task -> Priority]
  /\ Deadlined \subseteq Task /\ Cancellable \subseteq Task
  /\ Returns \subseteq BodyResult /\ Returns # {}
  /\ Reuse \in BOOLEAN
  /\ MaxCount \in Nat

Worker == 0 .. N - 1

\* The weighted service cycle: 8 interactive, 4 playback, 2 export, 1 background.
ServicePattern ==
  << "interactive", "playback", "interactive", "export",
     "interactive", "playback", "interactive", "background",
     "interactive", "playback", "interactive", "export",
     "interactive", "playback", "interactive" >>

Cycle == 15

\* The class of the j-th slot from cursor position c.
SlotFrom(c, j) == ServicePattern[((c + j) % Cycle) + 1]

\* Where the cycle resumes after serving slot k.
Advance(c, k) == (c + k + 1) % Cycle

\* The public bound on dispatches of other classes while a class stays queued.
MaximumWaitingDispatches(p) ==
  CASE p = "background"  -> 14
    [] p = "export"      -> 7
    [] p = "playback"    -> 3
    [] p = "interactive" -> 1

Terminal == {"succeeded", "failed", "cancelled", "deadline_exceeded"}

\* submit's classification of what the closure returned (outcome_from_error).
OutcomeOf(r) ==
  IF r = "value" THEN "succeeded"
  ELSE IF r = "cancelled_error" THEN "cancelled"
  ELSE IF r = "timeout_error" THEN "deadline_exceeded" ELSE "failed"

NextOwner(w) == (w + 1) % N

SaturatingIncrement(n) == IF n < MaxCount THEN n + 1 ELSE n

VARIABLES
  \* --- PoolState, guarded by the mutex ---
  queues,       \* queues[w][p]: FIFO of worker w's local class p
  queuedIds,    \* identity index of every queued job
  nextOwner,    \* round-robin preferred worker of the next submission
  cursor,       \* position in ServicePattern
  active,       \* active_workers
  maxActive,    \* maximum_active_workers
  owned, stolen, completed,   \* saturating dispatch accounting
  accepting,    \* accepting_jobs
  \* --- threads ---
  phase,        \* the owner: spawning, open, closing, joining, closed
  pc,           \* pc[w]: where worker w is in worker_loop
  held,         \* held[w]: the task worker w dispatched
  verdict,      \* verdict[w]: the outcome worker w is about to send
  client,       \* client[t]: the submitter of t
  result,       \* result[t]: what sits in t's one-shot channel
  cancelled,    \* cancelled[t]: t's cancellation token
  expired,      \* expired[t]: t's deadline has passed
  \* --- history, read by properties only ---
  bypassed,     \* bypassed[p]: other classes' dispatches while p stayed queued
  doomed        \* doomed[t]: t was cancelled while it was still queued

countVars == << owned, stolen, completed >>
poolVars  == << queues, queuedIds, nextOwner, cursor, active, maxActive,
                owned, stolen, completed, accepting >>
workerVars == << pc, held, verdict >>
jobVars   == << client, result, cancelled, expired, doomed >>
vars      == << poolVars, phase, workerVars, jobVars, bypassed >>

WorkerState == {"absent", "scan", "waiting", "begin", "body", "publish",
                "retire", "notify", "exited"}
ClientState == {"idle", "notifying", "holding", "dropped", "spent"}

-----------------------------------------------------------------------------
(* Views of the queue state. *)

QueuedIn(w)    == UNION {{queues[w][p][i] : i \in DOMAIN queues[w][p]} : p \in Priority}
QueuedTasks    == UNION {QueuedIn(w) : w \in Worker}
ClassQueued(p) == \E w \in Worker : queues[w][p] # << >>

\* Popping the oldest job of a local class, by its owner or by a thief.
Without(v, p) == [queues EXCEPT ![v][p] = Tail(@)]

\* What enqueue requires of a submission.
Admits_AnyIdentity(t) == accepting /\ Cardinality(queuedIds) < Capacity
Admits(t) ==
  /\ accepting
  /\ Cardinality(queuedIds) < Capacity
  /\ IdOf[t] \notin queuedIds

\* Condition::notify_one and notify_all; waiters are the workers in "waiting".
WakeOne_UnlessAwake ==
  IF \A w \in Worker : pc[w] = "waiting"
    THEN \E w \in Worker : pc' = [pc EXCEPT ![w] = "scan"]
    ELSE UNCHANGED pc
WakeOne ==
  IF \E w \in Worker : pc[w] = "waiting"
    THEN \E w \in Worker : /\ pc[w] = "waiting"
                           /\ pc' = [pc EXCEPT ![w] = "scan"]
    ELSE UNCHANGED pc

WakeAll_Nobody == UNCHANGED pc
WakeAll == pc' = [w \in Worker |-> IF pc[w] = "waiting" THEN "scan" ELSE pc[w]]

Init ==
  /\ queues = [w \in Worker |-> [p \in Priority |-> << >>]]
  /\ queuedIds = {}
  /\ nextOwner = 0
  /\ cursor = 0
  /\ active = 0 /\ maxActive = 0
  /\ owned = 0 /\ stolen = 0 /\ completed = 0
  /\ accepting = TRUE
  /\ phase = "spawning"
  /\ pc = [w \in Worker |-> "absent"]
  /\ held = [w \in Worker |-> NoTask]
  /\ verdict = [w \in Worker |-> "none"]
  /\ client = [t \in Task |-> "idle"]
  /\ result = [t \in Task |-> "none"]
  /\ cancelled = [t \in Task |-> FALSE]
  /\ expired = [t \in Task |-> FALSE]
  /\ bypassed = [p \in Priority |-> 0]
  /\ doomed = [t \in Task |-> FALSE]

-----------------------------------------------------------------------------
(* The owner: BoundedWorkerPool::new, shutdown and Drop. *)

\* One thread of the spawn loop starts; the last one makes the pool usable.
Spawn(w) ==
  /\ phase = "spawning"
  /\ pc[w] = "absent"
  /\ \A v \in 0 .. w - 1 : pc[v] # "absent"
  /\ pc' = [pc EXCEPT ![w] = "scan"]
  /\ phase' = IF w = N - 1 THEN "open" ELSE phase
  /\ UNCHANGED << poolVars, held, verdict, jobVars, bypassed >>

\* A spawn fails, or the open pool is shut down or dropped: no new jobs.
BeginShutdown ==
  /\ phase \in {"spawning", "open"}
  /\ phase = "open" => \A t \in Task : client[t] # "notifying"
  /\ accepting' = FALSE
  /\ phase' = "closing"
  /\ UNCHANGED << queues, queuedIds, nextOwner, cursor, active, maxActive,
                  countVars, workerVars, jobVars, bypassed >>

NotifyShutdown ==
  /\ phase = "closing"
  /\ WakeAll
  /\ phase' = "joining"
  /\ UNCHANGED << poolVars, held, verdict, jobVars, bypassed >>

JoinWorkers ==
  /\ phase = "joining"
  /\ \A w \in Worker : pc[w] \in {"absent", "exited"}
  /\ phase' = "closed"
  /\ UNCHANGED << poolVars, workerVars, jobVars, bypassed >>

-----------------------------------------------------------------------------
(* Clients: BoundedWorkerPool::submit, JobTaskHandle, JobCancellationToken. *)

\* submit up to the unlock.  A refused submission changes nothing.
Submit(t) ==
  /\ phase = "open"
  /\ client[t] = "idle"
  /\ Admits(t)
  /\ queuedIds' = queuedIds \cup {IdOf[t]}
  /\ queues' = [queues EXCEPT ![nextOwner][PriorityOf[t]] = Append(@, t)]
  /\ nextOwner' = NextOwner(nextOwner)
  /\ client' = [client EXCEPT ![t] = "notifying"]
  /\ UNCHANGED << cursor, active, maxActive, countVars, accepting, phase,
                  workerVars, result, cancelled, expired, doomed, bypassed >>

\* submit after the unlock: wake one sleeping worker, return the handle.
NotifyOne(t) ==
  /\ client[t] = "notifying"
  /\ client' = [client EXCEPT ![t] = "holding"]
  /\ WakeOne
  /\ UNCHANGED << poolVars, phase, held, verdict, result, cancelled, expired,
                  doomed, bypassed >>

\* Where a submission ends once its result is consumed or dropped: a reusing
\* client builds a new job with a fresh control, otherwise the task is over.
Retired == IF Reuse THEN "idle" ELSE "spent"
Release(t) ==
  /\ client' = [client EXCEPT ![t] = Retired]
  /\ result' = [result EXCEPT ![t] = "none"]
  /\ cancelled' = [cancelled EXCEPT ![t] = FALSE]
  /\ expired' = [expired EXCEPT ![t] = FALSE]
  /\ doomed' = [doomed EXCEPT ![t] = FALSE]

\* try_completion or wait receives the one result.
Observe(t) ==
  /\ client[t] = "holding"
  /\ result[t] # "none"
  /\ Release(t)
  /\ UNCHANGED << poolVars, phase, workerVars, bypassed >>

\* The handle is dropped; a result already in the channel goes with it.
DropHandle(t) ==
  /\ client[t] = "holding"
  /\ IF result[t] # "none"
       THEN Release(t)
       ELSE /\ client' = [client EXCEPT ![t] = "dropped"]
            /\ UNCHANGED << result, cancelled, expired, doomed >>
  /\ UNCHANGED << poolVars, phase, workerVars, bypassed >>

Live(t) == client[t] \in {"notifying", "holding", "dropped"}

\* Any holder of the token requests cancellation; it is never reset.
Cancel(t) ==
  /\ t \in Cancellable
  /\ Live(t)
  /\ ~cancelled[t]
  /\ cancelled' = [cancelled EXCEPT ![t] = TRUE]
  /\ doomed' = [doomed EXCEPT ![t] = t \in QueuedTasks]
  /\ UNCHANGED << poolVars, phase, workerVars, client, result, expired, bypassed >>

\* The monotonic clock passes the task's deadline.
Expire(t) ==
  /\ t \in Deadlined
  /\ Live(t)
  /\ ~expired[t]
  /\ expired' = [expired EXCEPT ![t] = TRUE]
  /\ UNCHANGED << poolVars, phase, workerVars, client, result, cancelled, doomed, bypassed >>

-----------------------------------------------------------------------------
(* Workers: PoolState::take and worker_loop. *)

\* take stops at the first slot, from the cursor on, whose class is queued.
ServedSlot_AnyClass(k) == ClassQueued(SlotFrom(cursor, k))
ServedSlot(k) ==
  /\ ClassQueued(SlotFrom(cursor, k))
  /\ \A j \in 0 .. k - 1 : ~ClassQueued(SlotFrom(cursor, j))

\* The worker's own queue if it has the class, else the nearest victim's.
Nearest(w, p, d) ==
  /\ queues[(w + d) % N][p] # << >>
  /\ \A e \in 0 .. d - 1 : queues[(w + e) % N][p] = << >>

\* take and record_dispatch, under the mutex.
Dispatch(w) ==
  /\ pc[w] = "scan"
  /\ queuedIds # {}
  /\ \E k \in 0 .. Cycle - 1, d \in 0 .. N - 1 :
       LET p == SlotFrom(cursor, k)
           v == (w + d) % N
           t == Head(queues[v][p])
       IN /\ ServedSlot(k)
          /\ Nearest(w, p, d)
          /\ cursor' = Advance(cursor, k)
          /\ queues' = Without(v, p)
          /\ queuedIds' = queuedIds \ {IdOf[t]}
          /\ held' = [held EXCEPT ![w] = t]
          /\ owned'  = IF v = w THEN SaturatingIncrement(owned) ELSE owned
          /\ stolen' = IF v # w THEN SaturatingIncrement(stolen) ELSE stolen
          /\ bypassed' = [q \in Priority |->
               IF q = p \/ ~ClassQueued(q) THEN 0 ELSE bypassed[q] + 1]
  /\ active' = active + 1
  /\ maxActive' = IF active + 1 > maxActive THEN active + 1 ELSE maxActive
  /\ pc' = [pc EXCEPT ![w] = "begin"]
  /\ UNCHANGED << nextOwner, completed, accepting, phase, verdict, jobVars >>

NothingToTake_AfterShutdown == ~accepting \/ queuedIds = {}
NothingToTake == queuedIds = {} \/ \A p \in Priority : ~ClassQueued(p)

\* Nothing queued and still accepting: wait, releasing the mutex.
Sleep(w) ==
  /\ pc[w] = "scan"
  /\ NothingToTake
  /\ accepting
  /\ pc' = [pc EXCEPT ![w] = "waiting"]
  /\ UNCHANGED << poolVars, phase, held, verdict, jobVars, bypassed >>

\* A condition variable may wake a waiter without a notification.
SpuriousWake(w) ==
  /\ pc[w] = "waiting"
  /\ pc' = [pc EXCEPT ![w] = "scan"]
  /\ UNCHANGED << poolVars, phase, held, verdict, jobVars, bypassed >>

\* Nothing queued and no longer accepting: the thread returns.
Exit(w) ==
  /\ pc[w] = "scan"
  /\ NothingToTake
  /\ ~accepting
  /\ pc' = [pc EXCEPT ![w] = "exited"]
  /\ UNCHANGED << poolVars, phase, held, verdict, jobVars, bypassed >>

\* JobControl::interruption: cancellation first, then the deadline.
Interruption_DeadlineFirst(t) ==
  IF expired[t] THEN "deadline_exceeded" ELSE IF cancelled[t] THEN "cancelled" ELSE "none"
Interruption(t) ==
  IF cancelled[t] THEN "cancelled" ELSE IF expired[t] THEN "deadline_exceeded" ELSE "none"

\* context.check("begin_job"): an interrupted job never enters its closure.
BeginJob(w) ==
  /\ pc[w] = "begin"
  /\ verdict' = [verdict EXCEPT ![w] = Interruption(held[w])]
  /\ pc' = [pc EXCEPT ![w] = IF Interruption(held[w]) = "none" THEN "body" ELSE "publish"]
  /\ UNCHANGED << poolVars, phase, held, jobVars, bypassed >>

\* The closure returns or panics, at its own time.
RunBody(w) ==
  /\ pc[w] = "body"
  /\ \E r \in Returns : verdict' = [verdict EXCEPT ![w] = OutcomeOf(r)]
  /\ pc' = [pc EXCEPT ![w] = "publish"]
  /\ UNCHANGED << poolVars, phase, held, jobVars, bypassed >>

\* sender.send(execution): lost when the handle is gone.
Publish(w) ==
  /\ pc[w] = "publish"
  /\ IF client[held[w]] = "dropped"
       THEN Release(held[w])
       ELSE /\ result' = [result EXCEPT ![held[w]] = verdict[w]]
            /\ UNCHANGED << client, cancelled, expired, doomed >>
  /\ held' = [held EXCEPT ![w] = NoTask]
  /\ verdict' = [verdict EXCEPT ![w] = "none"]
  /\ pc' = [pc EXCEPT ![w] = "retire"]
  /\ UNCHANGED << poolVars, phase, bypassed >>

ActiveAfterCompletion_Kept == active
ActiveAfterCompletion == IF active > 0 THEN active - 1 ELSE 0

\* record_completion, under the mutex.
RecordCompletion(w) ==
  /\ pc[w] = "retire"
  /\ active' = ActiveAfterCompletion
  /\ completed' = SaturatingIncrement(completed)
  /\ pc' = [pc EXCEPT ![w] = "notify"]
  /\ UNCHANGED << queues, queuedIds, nextOwner, cursor, maxActive, owned, stolen,
                  accepting, phase, held, verdict, jobVars, bypassed >>

\* work_available.notify_all(), then back to the top of the loop.
NotifyAll(w) ==
  /\ pc[w] = "notify"
  /\ pc' = [v \in Worker |-> IF v = w \/ pc[v] = "waiting" THEN "scan" ELSE pc[v]]
  /\ UNCHANGED << poolVars, phase, held, verdict, jobVars, bypassed >>

-----------------------------------------------------------------------------
Owner == BeginShutdown \/ NotifyShutdown \/ JoinWorkers \/ \E w \in Worker : Spawn(w)

Client(t) == Submit(t) \/ NotifyOne(t) \/ Observe(t) \/ DropHandle(t) \/ Cancel(t) \/ Expire(t)

\* One turn of worker_loop that does not depend on the condition variable.
WorkerStep(w) ==
  Dispatch(w) \/ Sleep(w) \/ Exit(w) \/ BeginJob(w) \/ RunBody(w)
    \/ Publish(w) \/ RecordCompletion(w) \/ NotifyAll(w)

Done == phase = "closed" /\ UNCHANGED vars

Next ==
  \/ Owner
  \/ \E t \in Task : Client(t)
  \/ \E w \in Worker : WorkerStep(w) \/ SpuriousWake(w)
  \/ Done

Spec == Init /\ [][Next]_vars

\* Threads that can run do run, and closures return: the owner finishes a
\* started construction or shutdown, a submitter finishes its call.  Nothing
\* promises a submission, a shutdown, a cancellation or a spurious wake-up.
Fairness ==
  /\ WF_vars(NotifyShutdown \/ JoinWorkers)
  /\ \A t \in Task : WF_vars(NotifyOne(t))
  /\ \A w \in Worker : WF_vars(WorkerStep(w)) /\ WF_vars(Spawn(w))

FairSpec == Spec /\ Fairness
-----------------------------------------------------------------------------
(* Properties. *)

TypeOK ==
  /\ queues \in [Worker -> [Priority -> Seq(Task)]]
  /\ queuedIds \subseteq Id
  /\ nextOwner \in Worker
  /\ cursor \in 0 .. Cycle - 1
  /\ active \in Nat /\ maxActive \in Nat
  /\ owned \in 0 .. MaxCount /\ stolen \in 0 .. MaxCount /\ completed \in 0 .. MaxCount
  /\ accepting \in BOOLEAN
  /\ phase \in {"spawning", "open", "closing", "joining", "closed"}
  /\ pc \in [Worker -> WorkerState]
  /\ held \in [Worker -> Task \cup {NoTask}]
  /\ verdict \in [Worker -> Terminal \cup {"none"}]
  /\ client \in [Task -> ClientState]
  /\ result \in [Task -> Terminal \cup {"none"}]
  /\ cancelled \in [Task -> BOOLEAN]
  /\ expired \in [Task -> BOOLEAN]
  /\ bypassed \in [Priority -> Nat]
  /\ doomed \in [Task -> BOOLEAN]

Executing(w) == pc[w] \in {"begin", "body", "publish"}
Counted(w)   == pc[w] \in {"begin", "body", "publish", "retire"}
HeldTasks    == {held[w] : w \in {v \in Worker : Executing(v)}}

\* Every place in the local queues: worker, class, position.
Places == {x \in Worker \X Priority \X (1 .. Cardinality(Task)) :
             x[3] \in DOMAIN queues[x[1]][x[2]]}
TaskAt(x) == queues[x[1]][x[2]][x[3]]

\* No accepted job is lost or run twice by stealing, dropping or cancelling: a
\* submission without a result is queued or in the hands of exactly one worker.
\* The pool's identity index names exactly the queued jobs, and no identity is
\* queued twice in any local queue: the debug assertions of record_dispatch and
\* next_job_for ("pool identity index must match local queues").
ExactlyOnePlace ==
  /\ \A t \in Task : (Live(t) /\ result[t] = "none") <=> t \in QueuedTasks \cup HeldTasks
  /\ QueuedTasks \cap HeldTasks = {}
  /\ \A v, w \in Worker : (Executing(v) /\ Executing(w) /\ held[v] = held[w]) => v = w
  /\ queuedIds = {IdOf[t] : t \in QueuedTasks}
  /\ \A x, y \in Places : IdOf[TaskAt(x)] = IdOf[TaskAt(y)] => x = y
  /\ \A x \in Places : PriorityOf[TaskAt(x)] = x[2]

\* No lost wake-up, and no worker sleeps through work: while one waits, the queued
\* jobs are covered by workers about to look and by notifications still to be
\* delivered (submit notifies after it has released the mutex).
WorkConserving ==
  (\E w \in Worker : pc[w] = "waiting") =>
    Cardinality(QueuedTasks) <= Cardinality({w \in Worker : pc[w] = "scan"})
                              + Cardinality({t \in Task : client[t] = "notifying"})

\* The starvation bound of JobPriority::maximum_waiting_dispatches, kept across
\* all local queues by the one global service cursor.
StarvationBound ==
  \A p \in Priority : ClassQueued(p) => bypassed[p] <= MaximumWaitingDispatches(p)

\* shutdown returns only after every accepted job was dispatched, ran to a
\* terminal result and was counted out.
ShutdownDrains ==
  phase = "closed" =>
    /\ queuedIds = {} /\ QueuedTasks = {}
    /\ active = 0
    /\ \A t \in Task : Live(t) => client[t] = "holding" /\ result[t] # "none"

\* A job cancelled while it was still queued never runs its closure, whatever
\* worker steals it, and reports cancellation even if its deadline passed too.
CancelledWhileQueuedNeverRuns ==
  /\ \A w \in Worker : pc[w] = "body" => ~doomed[held[w]]
  /\ \A t \in Task : doomed[t] => result[t] \in {"none", "cancelled"}

\* The pool seen by its clients: which jobs wait, run, have a result, are over.
Stage == [t \in Task |->
  CASE t \in QueuedTasks   -> "pending"
    [] t \in HeldTasks     -> "running"
    [] result[t] # "none"  -> "finished"
    [] client[t] = "spent" -> "over"
    [] OTHER               -> "fresh"]

Mode == CASE phase \in {"spawning", "open"}   -> "open"
          [] phase \in {"closing", "joining"} -> "closing"
          [] phase = "closed"                 -> "closed"

Executor == INSTANCE JobExecutor WITH Again <- Reuse, stage <- Stage, mode <- Mode

\* Local queues, stealing, dropped handles and the shutdown protocol implement
\* the bounded executor: a submission is accepted within the capacity, started by
\* one worker, answered once, and closing waits for all of them.
ImplementsExecutor == Executor!Spec

\* A failed construction or a shutdown terminates, for every worker drains and
\* joins; and of finitely many submissions each accepted one reaches a result.
EverythingTerminates ==
  /\ phase = "closing" ~> phase = "closed"
  /\ \A t \in Task : client[t] = "notifying" ~> (result[t] # "none" \/ client[t] = Retired)
=============================================================================
