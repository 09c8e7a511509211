----------------------------- MODULE ExportJobs -----------------------------
(***************************************************************************)
(* The logical export queue of superi-engine (src/export_jobs.rs) over the *)
(* bounded executor that WorkerPool implements.  A logical job outlives    *)
(* the attempts the executor runs for it: it waits for prerequisites, is   *)
(* paused, resumed, retried and cancelled.  One engine-control thread owns *)
(* the queue and visits the jobs one after another, in the order of their  *)
(* identities, while the workers go on.                                    *)
(***************************************************************************)
EXTENDS Integers, FiniteSets

CONSTANTS Job,         \* job identities, in BTreeMap order
          N, Capacity, \* worker_count and pending_capacity
          Retained     \* retained_capacity

ASSUME ExportAssumption ==
  /\ Job \subseteq Nat /\ IsFiniteSet(Job)
  /\ N \in Nat \ {0} /\ Capacity \in Nat \ {0} /\ Retained \in Nat \ {0}

Deciding == {"waiting", "pending"}                          \* no attempt yet
Active   == {"queued", "running", "pausing", "cancelling"}  \* an attempt is out
Status   == Deciding \cup Active
              \cup {"paused", "failed", "cancelled", "dependency_failed", "completed"}
Failure  == {"none", "recoverable", "terminal"}
Outcome  == {"succeeded", "recoverable", "terminal"}        \* stopped or late: recoverable
Verdict  == {"succeeded", "failed", "cancelled", "dependency_failed"}

VARIABLES
  retained,            \* keys of the job map
  status, deps, known, \* known[j][d]: what j's tracker recorded of d
  failure, result,     \* the retained failure; whether a result is retained
  intent,              \* what the control asked of the active attempt
  started, outcome,    \* what the worker tells of the attempt
  stage, mode,         \* the executor: an attempt's stage; open, closing, closed
  op,                  \* the control's call: idle, poll, settle, shutdown or gone
  at, todo,            \* where it is in it, and the jobs still to visit
  changed, passes      \* pass_changes > 0; passes left of refresh_until_stable

records == << retained, status, deps, known, failure, result, intent >>
worker  == << started, outcome, stage, mode >>
control == << op, at, todo, changed, passes >>
vars    == << records, worker, control >>

Pool == INSTANCE JobExecutor WITH Task <- Job, Again <- TRUE

Init ==
  /\ retained = {}
  /\ status = [j \in Job |-> "waiting"]
  /\ deps = [j \in Job |-> {}]
  /\ known = [j \in Job |-> [d \in Job |-> "unknown"]]
  /\ failure = [j \in Job |-> "none"]
  /\ result = [j \in Job |-> FALSE]
  /\ intent = [j \in Job |-> "none"]
  /\ started = [j \in Job |-> FALSE]
  /\ outcome = [j \in Job |-> "succeeded"]
  /\ Pool!Init
  /\ op = "idle" /\ at = "done" /\ todo = {} /\ changed = FALSE /\ passes = 0

-----------------------------------------------------------------------------
(* The workers. *)

Start(j) == Pool!Start(j) /\ UNCHANGED << records, started, outcome, control >>

\* The tokens of an attempt are set together with its intent, never without.
Asked(j) == intent[j] # "none"

\* The closure is entered, unless begin_job found the attempt cancelled.
EnterBody(j) ==
  /\ stage[j] = "running" /\ ~started[j] /\ ~Asked(j)
  /\ started' = [started EXCEPT ![j] = TRUE]
  /\ UNCHANGED << records, outcome, stage, mode, control >>

\* The result is published: the executor's, or the cancellation begin_job found.
FinishBody(j) ==
  /\ Pool!Finish(j)
  /\ started[j] \/ Asked(j)
  /\ \E o \in IF started[j] THEN Outcome ELSE {"recoverable"} :
       outcome' = [outcome EXCEPT ![j] = o]
  /\ UNCHANGED << records, started, control >>

WorkerStep(j) == Start(j) \/ EnterBody(j) \/ FinishBody(j)

Drained == Pool!Drained /\ UNCHANGED << records, started, outcome, control >>

-----------------------------------------------------------------------------
(* The state of one job. *)

Sets(j, s) == status' = [status EXCEPT ![j] = s]

\* logical_terminal_state, and record_is_final.
Terminal(j) ==
  IF j \notin retained THEN "unknown"
  ELSE IF status[j] = "completed" THEN "succeeded"
  ELSE IF status[j] \in {"cancelled", "dependency_failed"} THEN status[j]
  ELSE IF status[j] = "failed" /\ failure[j] = "terminal" THEN "failed"
  ELSE "unknown"

IsFinal_NotCompleted(j) == Terminal(j) \notin {"unknown", "succeeded"}
IsFinal(j) == Terminal(j) # "unknown"

\* finish_attempt: a request in flight outranks whatever the attempt returned.
Settled(i, o) ==
  IF i = "pause" THEN "paused" ELSE IF i = "cancel" THEN "cancelled"
  ELSE IF o = "succeeded" THEN "completed" ELSE "failed"
HasResult_Late(i, o) == o = "succeeded"
HasResult(i, o) == i = "none" /\ o = "succeeded"
FailureOf(o) == IF o = "succeeded" THEN "none" ELSE o

FinishAttempt(j) ==
  LET i == intent[j]  o == outcome[j]
  IN  /\ Sets(j, Settled(i, o))
      /\ result' = [result EXCEPT ![j] = HasResult(i, o)]
      /\ failure' = [failure EXCEPT ![j] =
           IF i = "cancel" THEN @ ELSE IF i = "pause" THEN "none" ELSE FailureOf(o)]

\* A request to the active attempt, whose tokens are set.
Interrupt(j, i, s) == intent' = [intent EXCEPT ![j] = i] /\ Sets(j, s)

-----------------------------------------------------------------------------
(* How a call goes on. *)

Undecided == {j \in retained : status[j] \in Deciding}
Attempts  == {j \in retained : stage[j] # "fresh"}

Goes(o, where) == op' = o /\ at' = where /\ todo' = {} /\ changed' = FALSE /\ passes' = 0
Returns == Goes("idle", "done")

\* refresh_until_stable makes a pass more than there are jobs, if it has to.
Passes_One(n) == 1
Passes(n) == n + 1

Refreshing(o, jobs, undecided) ==
  /\ op' = o /\ at' = "refresh" /\ todo' = undecided
  /\ changed' = FALSE /\ passes' = Passes(Cardinality(jobs)) - 1

\* Whose turn it is.
Foremost(j) == j \in todo /\ \A k \in todo : j <= k

\* poll: alone, or as the first half of pause, resume, retry, cancel and remove.
Poll ==
  /\ op = "idle"
  /\ op' = "poll" /\ at' = "observe" /\ todo' = Attempts
  /\ UNCHANGED << records, worker, changed, passes >>

\* The handles, one by one: a result, or the news that the closure has begun.
Observe(j) ==
  /\ at = "observe" /\ Foremost(j)
  /\ \/ /\ Pool!Collect(j)
        /\ FinishAttempt(j)
        /\ started' = [started EXCEPT ![j] = FALSE]
        /\ outcome' = [outcome EXCEPT ![j] = "succeeded"]
        /\ intent' = [intent EXCEPT ![j] = "none"]
     \/ /\ stage[j] # "finished"
        /\ IF intent[j] = "none" /\ started[j] /\ status[j] = "queued"
             THEN Sets(j, "running") ELSE UNCHANGED status
        /\ UNCHANGED << failure, result, intent, worker >>
  /\ todo' = todo \ {j}
  /\ UNCHANGED << retained, deps, known, op, at, changed, passes >>

\* Every handle has been looked at.
Observed ==
  /\ at = "observe" /\ todo = {}
  /\ \/ op = "shutdown" /\ Goes("gone", "done")
     \/ op = "poll" /\ Refreshing(op, retained, Undecided)
  /\ UNCHANGED << records, worker >>

\* What the tracker of j knows after it was told every prerequisite that is final,
\* and whether it refuses one.
Told(j) == [d \in Job |-> IF d \in deps[j] /\ IsFinal(d) THEN Terminal(d) ELSE known[j][d]]
Contradicted(j) == \E d \in deps[j] : known[j][d] \notin {"unknown", Told(j)[d]}

\* dependency_status.
Blocked(j) == \E d \in deps[j] : Told(j)[d] \notin {"unknown", "succeeded"}
Ready_IfTold(j) == \A d \in deps[j] : Told(j)[d] # "unknown"
Ready(j)   == \A d \in deps[j] : Told(j)[d] = "succeeded"

Becomes(j, s) == Sets(j, s) /\ changed' = (changed \/ s # status[j])

\* dispatch: a full executor leaves the job pending.
Dispatch(j) ==
  IF Cardinality(Pool!In("pending")) < Capacity
    THEN /\ Pool!Accept(j)
         /\ Becomes(j, "queued")
         /\ failure' = [failure EXCEPT ![j] = "none"]
         /\ result' = [result EXCEPT ![j] = FALSE]
    ELSE Becomes(j, "pending") /\ UNCHANGED << failure, result, stage, mode >>

\* One job of one pass: it is told, and dispatched, sent back to wait or given up.
Refresh(j) ==
  /\ at = "refresh" /\ Foremost(j)
  /\ IF Contradicted(j)
       THEN Returns /\ UNCHANGED << status, known, failure, result, stage, mode >>
       ELSE /\ known' = [known EXCEPT ![j] = Told(j)]
            /\ \/ Ready(j) /\ Dispatch(j)
               \/ /\ ~Ready(j) /\ ~Blocked(j)
                  /\ Becomes(j, "waiting")
                  /\ UNCHANGED << failure, result, stage, mode >>
               \/ /\ ~Ready(j) /\ Blocked(j)
                  /\ Becomes(j, "dependency_failed")
                  /\ result' = [result EXCEPT ![j] = FALSE]
                  /\ UNCHANGED << failure, stage, mode >>
            /\ todo' = todo \ {j}
            /\ UNCHANGED << op, at, passes >>
  /\ UNCHANGED << retained, deps, intent, started, outcome >>

\* The end of a pass: another one, or the second half of the call, or its return.
Refreshed ==
  LET again == changed /\ passes > 0
  IN  /\ at = "refresh" /\ todo = {}
      /\ \/ /\ again
            /\ todo' = Undecided /\ changed' = FALSE /\ passes' = passes - 1
            /\ UNCHANGED << op, at >>
         \/ ~again /\ op = "poll" /\ Goes(op, "act")
         \/ ~again /\ op = "settle" /\ Returns
      /\ UNCHANGED << records, worker >>

-----------------------------------------------------------------------------
(* The calls.  What pause, cancel, resume, retry and remove do once they have  *)
(* polled; of a job in any other state they do nothing but return an error.    *)

\* submit does not poll; the new job depends on older retained jobs only.
Submit(j, D) ==
  /\ op = "idle"
  /\ Cardinality(retained) < Retained
  /\ j \notin retained /\ D \subseteq retained
  /\ retained' = retained \cup {j}
  /\ deps' = [deps EXCEPT ![j] = D]
  /\ Sets(j, IF D = {} THEN "pending" ELSE "waiting")
  /\ Refreshing("settle", retained', Undecided \cup {j})
  /\ UNCHANGED << known, failure, result, intent, worker >>

Error == at = "act" /\ Returns /\ UNCHANGED << records, worker >>

Interruptible_Cancelling == {"queued", "running", "cancelling"}
Interruptible == {"queued", "running"}

Pause(j) ==
  /\ at = "act" /\ j \in retained
  /\ \/ status[j] \in Interruptible /\ Interrupt(j, "pause", "pausing")
     \/ status[j] \in Deciding /\ Sets(j, "paused") /\ UNCHANGED intent
  /\ Returns
  /\ UNCHANGED << retained, deps, known, failure, result, worker >>

Retryable(j) == status[j] = "failed" /\ failure[j] # "terminal"

Cancel(j) ==
  /\ at = "act" /\ j \in retained
  /\ \/ /\ status[j] \in {"queued", "running", "pausing"}
        /\ Interrupt(j, "cancel", "cancelling")
        /\ UNCHANGED result
     \/ /\ status[j] \in Deciding \cup {"paused"} \/ Retryable(j)
        /\ Sets(j, "cancelled")
        /\ result' = [result EXCEPT ![j] = FALSE]
        /\ UNCHANGED intent
  /\ Returns
  /\ UNCHANGED << retained, deps, known, failure, worker >>

\* resume and retry: reset_for_attempt, and a fresh decision.
RunAgain(j) ==
  /\ at = "act" /\ j \in retained
  /\ status[j] = "paused" \/ Retryable(j)
  /\ Sets(j, "waiting")
  /\ failure' = [failure EXCEPT ![j] = "none"]
  /\ result' = [result EXCEPT ![j] = FALSE]
  /\ Refreshing("settle", retained, Undecided \cup {j})
  /\ UNCHANGED << retained, deps, known, intent, worker >>

Named_Never(j) == FALSE
Named(j) == \E k \in retained \ {j} : j \in deps[k]

Remove(j) ==
  /\ at = "act" /\ j \in retained
  /\ IsFinal(j) /\ ~Named(j)
  /\ retained' = retained \ {j}
  /\ Sets(j, "waiting")
  /\ deps' = [deps EXCEPT ![j] = {}]
  /\ known' = [known EXCEPT ![j] = [d \in Job |-> "unknown"]]
  /\ failure' = [failure EXCEPT ![j] = "none"]
  /\ result' = [result EXCEPT ![j] = FALSE]
  /\ Returns
  /\ UNCHANGED << intent, worker >>

\* shutdown cancels what is unfinished and closes the executor ...
Shutdown ==
  LET unfinished == {j \in retained : stage[j] = "fresh" /\ ~IsFinal(j)}
  IN  /\ op = "idle"
      /\ status' = [j \in Job |-> IF j \in Attempts THEN "cancelling"
                                  ELSE IF j \in unfinished THEN "cancelled" ELSE status[j]]
      /\ result' = [j \in Job |-> result[j] /\ j \notin unfinished]
      /\ intent' = [j \in Job |-> IF j \in Attempts THEN "cancel" ELSE intent[j]]
      /\ Pool!Close
      /\ Goes("shutdown", "join")
      /\ UNCHANGED << retained, deps, known, failure, started, outcome >>

\* ... waits for the workers, and looks at every handle once.
Join ==
  /\ at = "join" /\ mode = "closed"
  /\ at' = "observe" /\ todo' = Attempts
  /\ UNCHANGED << records, worker, op, changed, passes >>

-----------------------------------------------------------------------------

Control ==
  \/ Observed \/ Refreshed \/ Error \/ Join
  \/ \E j \in Job : Observe(j) \/ Refresh(j)

Next ==
  \/ Control \/ Poll \/ Shutdown \/ Drained
  \/ \E j \in Job : Start(j) \/ EnterBody(j) \/ FinishBody(j)
  \/ \E j \in Job : Pause(j) \/ Cancel(j) \/ RunAgain(j) \/ Remove(j)
  \/ \E j \in Job : \E D \in SUBSET Job : Submit(j, D)

Spec == Init /\ [][Next]_vars

\* The control thread goes on with its call and polls again, workers run, exports
\* return.  Nobody has to submit, ask or shut down.
FairSpec ==
  /\ Spec
  /\ WF_vars(Control) /\ WF_vars(Poll) /\ WF_vars(Drained)
  /\ \A j \in Job : WF_vars(WorkerStep(j))

-----------------------------------------------------------------------------
(* Properties. *)

Types ==
  /\ retained \subseteq Job
  /\ status \in [Job -> Status]
  /\ deps \in [Job -> SUBSET Job]
  /\ known \in [Job -> [Job -> Verdict \cup {"unknown"}]]
  /\ failure \in [Job -> Failure] /\ result \in [Job -> BOOLEAN]
  /\ intent \in [Job -> {"none", "pause", "cancel"}]
  /\ started \in [Job -> BOOLEAN] /\ outcome \in [Job -> Outcome]
  /\ op \in {"idle", "poll", "settle", "shutdown", "gone"}
  /\ at \in {"done", "observe", "refresh", "act", "join"}
  /\ todo \subseteq retained /\ changed \in BOOLEAN
  /\ stage \in [Job -> {"fresh", "pending", "running", "finished"}]
  /\ mode \in {"open", "closing", "closed"}

\* The jobs stay within the retained capacity, and the passes of refresh_until_stable
\* below the bound of its loop.
Bounds ==
  /\ Cardinality(retained) <= Retained
  /\ passes \in 0 .. Cardinality(retained)

\* Every variable keeps its type, and failures are classified.
TypeOK == Types /\ Bounds

\* A status tells the truth: one that claims an attempt owns one, and only such a
\* status does ("active status owns an attempt", as pause and cancel `expect`); a
\* request is shown while it is in flight; a result is retained for completed jobs
\* alone, so that a success that races a pause or a cancel publishes nothing.
StatusIsTrue ==
  \A j \in Job :
    /\ stage[j] # "fresh" <=> j \in retained /\ status[j] \in Active
    /\ intent[j] = "pause" <=> status[j] = "pausing"
    /\ intent[j] = "cancel" <=> status[j] = "cancelling"
    /\ result[j] <=> status[j] = "completed"

\* An attempt is out only while every prerequisite of its job is retained and has
\* completed, whatever was retried, removed and resubmitted meanwhile.
PrerequisitesFirst ==
  \A j \in Job : stage[j] # "fresh" =>
    \A d \in deps[j] : d \in retained /\ status[d] = "completed"

\* What a tracker has recorded is what the prerequisite is: record's refusal of a
\* second, different verdict never fails a refresh, since an identity is not given
\* up while somebody depends on it.
HistoryAgrees ==
  \A j \in retained : \A d \in deps[j] :
    d \in retained /\ known[j][d] \in {"unknown", Terminal(d)}

\* A job that is not retained has left nothing behind for the next of its name.
Unborn ==
  \A j \in Job \ retained :
    /\ status[j] = "waiting" /\ deps[j] = {}
    /\ \A d \in Job : known[j][d] = "unknown"

\* A refresh only visits jobs that are undecided.
OnlyUndecided == at = "refresh" => todo \subseteq Undecided

IInv == TypeOK /\ StatusIsTrue /\ PrerequisitesFirst /\ HistoryAgrees /\ Unborn /\ OnlyUndecided

\* A final job stays as it is until it is removed; shutdown, retry and cancel do
\* not touch it.
FinalIsFinal ==
  [][\A j \in retained : Terminal(j) # "unknown" /\ j \in retained' =>
       status'[j] = status[j] /\ failure'[j] = failure[j] /\ result'[j] = result[j]]_vars

\* When a call's refresh returns, the verdicts have travelled down every chain of
\* dependencies: nobody is left undecided by prerequisites that are all decided.
PollSettles ==
  [][at = "refresh" /\ at' # "refresh" =>
       \A j \in Undecided' :
         LET told == {d \in deps[j] : Terminal(d)' # "unknown"}
         IN  /\ \A d \in told : Terminal(d)' = "succeeded"
             /\ status'[j] = "pending" <=> told = deps[j]]_vars

\* What was asked for comes about: a cancelled attempt ends as a cancelled job
\* although pauses go on arriving, and a shutdown returns and leaves every retained
\* job final.
RequestsSettle ==
  /\ \A j \in Job : status[j] = "cancelling" ~> status[j] = "cancelled"
  /\ op = "shutdown" ~> op = "gone" /\ \A j \in retained : Terminal(j) # "unknown"
=============================================================================
