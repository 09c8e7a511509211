-------------------------- MODULE ExportJobsProofs --------------------------
(***************************************************************************)
(* Proofs about ExportJobs, for any number of jobs, workers and places.    *)
(***************************************************************************)
EXTENDS ExportJobs, FiniteSetTheorems, TLAPS

USE DEF Deciding, Active, Status, Failure, Outcome, Verdict

LEMMA Finite ==
  ASSUME NEW S \in SUBSET Job
  PROVE  IsFiniteSet(S) /\ Cardinality(S) \in Nat
  BY ExportAssumption, FS_Subset, FS_CardinalityType

\* A Boolean entry of a function.
LEMMA SetEntry ==
  ASSUME NEW f \in [Job -> BOOLEAN], NEW j \in Job, NEW b \in BOOLEAN,
         NEW g, g = [f EXCEPT ![j] = b]
  PROVE  /\ g \in [Job -> BOOLEAN]
         /\ g[j] = b
         /\ \A k \in Job : k # j => g[k] = f[k]
  BY Zenon

\* What keeps the trackers right: nothing is forgotten, no verdict is taken back.
Lasting ==
  /\ retained' = retained /\ deps' = deps
  /\ \A d \in Job : Terminal(d) # "unknown" => Terminal(d)' = Terminal(d)

LEMMA LastingAgrees ==
  ASSUME Types, HistoryAgrees, Lasting, known' = known
  PROVE  HistoryAgrees'
  BY DEF Types, HistoryAgrees, Lasting

\* And what keeps attempts behind their prerequisites.
LEMMA LastingPrerequisites ==
  ASSUME Types, HistoryAgrees, PrerequisitesFirst, Lasting, NEW j \in Job,
         \A k \in Job : k # j /\ stage[k] = "fresh" => stage'[k] = "fresh",
         stage'[j] # "fresh" => \A d \in deps[j] : d \in retained /\ status[d] = "completed"
  PROVE  PrerequisitesFirst'
  <1>1. \A d \in Job : d \in retained /\ status[d] = "completed" => status'[d] = "completed"
    BY DEF Lasting, Terminal
  <1> QED  BY <1>1 DEF Types, PrerequisitesFirst, Lasting

\* A step that leaves the records alone, and every job with or without an attempt
\* as it was, keeps what relates them.
LEMMA QuietKeeps ==
  ASSUME IInv, UNCHANGED records, Types', Bounds', OnlyUndecided',
         \A j \in Job : stage'[j] = "fresh" <=> stage[j] = "fresh"
  PROVE  IInv'
<1>1. StatusIsTrue'
  BY DEF IInv, StatusIsTrue, records
<1>2. PrerequisitesFirst'
  BY DEF IInv, PrerequisitesFirst, records
<1>3. HistoryAgrees'
  BY DEF IInv, HistoryAgrees, Terminal, records
<1>4. Unborn'
  BY DEF IInv, Unborn, records
<1> QED  BY <1>1, <1>2, <1>3, <1>4 DEF IInv, TypeOK

\* A worker takes an attempt.
LEMMA StartKeeps ==
  ASSUME IInv, NEW j \in Job, Start(j)
  PROVE  IInv'
<1>1. Types'
  BY DEF IInv, TypeOK, Types, Start, Pool!Start, Pool!Move, records, worker, control
<1>2. Bounds'
  BY Finite, ExportAssumption DEF IInv, TypeOK, Types, Bounds, Passes, Start, Pool!Start, Pool!Move, records, worker, control
<1>3. OnlyUndecided'
  BY DEF IInv, TypeOK, Types, OnlyUndecided, Undecided, Start, Pool!Start, Pool!Move, records, worker, control
<1>4. UNCHANGED records /\ \A k \in Job : stage'[k] = "fresh" <=> stage[k] = "fresh"
  BY DEF IInv, TypeOK, Types, Start, Pool!Start, Pool!Move, records, worker
<1> QED  BY <1>1, <1>2, <1>3, <1>4, QuietKeeps

\* A worker enters the closure.
LEMMA EnterBodyKeeps ==
  ASSUME IInv, NEW j \in Job, EnterBody(j)
  PROVE  IInv'
<1>1. Types'
  BY DEF IInv, TypeOK, Types, EnterBody, records, worker, control
<1>2. Bounds'
  BY Finite, ExportAssumption DEF IInv, TypeOK, Types, Bounds, Passes, EnterBody, records, worker, control
<1>3. OnlyUndecided'
  BY DEF IInv, TypeOK, Types, OnlyUndecided, Undecided, EnterBody, records, worker, control
<1>4. UNCHANGED records /\ \A k \in Job : stage'[k] = "fresh" <=> stage[k] = "fresh"
  BY DEF IInv, TypeOK, Types, EnterBody, records, worker
<1> QED  BY <1>1, <1>2, <1>3, <1>4, QuietKeeps

\* A worker publishes an outcome.
LEMMA FinishBodyKeeps ==
  ASSUME IInv, NEW j \in Job, FinishBody(j)
  PROVE  IInv'
<1>1. Types'
  BY DEF IInv, TypeOK, Types, FinishBody, Pool!Finish, Pool!Move, records, worker, control
<1>2. Bounds'
  BY Finite, ExportAssumption DEF IInv, TypeOK, Types, Bounds, Passes, FinishBody, Pool!Finish, Pool!Move, records, worker, control
<1>3. OnlyUndecided'
  BY DEF IInv, TypeOK, Types, OnlyUndecided, Undecided, FinishBody, Pool!Finish, Pool!Move, records, worker, control
<1>4. UNCHANGED records /\ \A k \in Job : stage'[k] = "fresh" <=> stage[k] = "fresh"
  BY DEF IInv, TypeOK, Types, FinishBody, Pool!Finish, Pool!Move, records, worker
<1> QED  BY <1>1, <1>2, <1>3, <1>4, QuietKeeps

\* The workers are gone.
LEMMA DrainedKeeps ==
  ASSUME IInv, Drained
  PROVE  IInv'
<1>1. Types'
  BY DEF IInv, TypeOK, Types, Drained, Pool!Drained, records, worker, control
<1>2. Bounds'
  BY Finite, ExportAssumption DEF IInv, TypeOK, Types, Bounds, Passes, Drained, Pool!Drained, records, worker, control
<1>3. OnlyUndecided'
  BY DEF IInv, TypeOK, Types, OnlyUndecided, Undecided, Drained, Pool!Drained, records, worker, control
<1>4. UNCHANGED records /\ \A k \in Job : stage'[k] = "fresh" <=> stage[k] = "fresh"
  BY DEF IInv, TypeOK, Types, Drained, Pool!Drained, records, worker
<1> QED  BY <1>1, <1>2, <1>3, <1>4, QuietKeeps

\* A call begins.
LEMMA PollKeeps ==
  ASSUME IInv, Poll
  PROVE  IInv'
<1>1. Types'
  BY DEF IInv, TypeOK, Types, Poll, Attempts, records, worker, control
<1>2. Bounds'
  BY Finite, ExportAssumption DEF IInv, TypeOK, Types, Bounds, Passes, Poll, Attempts, records, worker, control
<1>3. OnlyUndecided'
  BY DEF IInv, TypeOK, Types, OnlyUndecided, Undecided, Poll, Attempts, records, worker, control
<1>4. UNCHANGED records /\ \A k \in Job : stage'[k] = "fresh" <=> stage[k] = "fresh"
  BY DEF IInv, TypeOK, Types, Poll, records, worker
<1> QED  BY <1>1, <1>2, <1>3, <1>4, QuietKeeps

\* A handle is looked at.
LEMMA ObserveKeeps ==
  ASSUME IInv, NEW j \in Job, Observe(j)
  PROVE  IInv'
<1> USE DEF IInv, TypeOK
<1>1. /\ at = "observe" /\ at' = at /\ op' = op /\ passes' = passes /\ changed' = changed
      /\ retained' = retained /\ deps' = deps /\ known' = known
      /\ j \in todo /\ todo' = todo \ {j}
  BY DEF Observe, Foremost
<1>2. CASE stage[j] = "finished"
  <2>1. /\ stage' = [stage EXCEPT ![j] = "fresh"] /\ mode' = mode
        /\ FinishAttempt(j)
        /\ started' = [started EXCEPT ![j] = FALSE]
        /\ outcome' = [outcome EXCEPT ![j] = "succeeded"]
        /\ intent' = [intent EXCEPT ![j] = "none"]
    BY <1>2 DEF Observe, Pool!Collect, Pool!Move, Pool!After
  <2>2. PICK b \in BOOLEAN : /\ result' = [result EXCEPT ![j] = b]
                             /\ b <=> Settled(intent[j], outcome[j]) = "completed"
    BY <2>1 DEF FinishAttempt, HasResult, Settled, Types
  <2>3. /\ result' \in [Job -> BOOLEAN] /\ result'[j] = b
        /\ \A k \in Job : k # j => result'[k] = result[k]
    BY <2>2, SetEntry DEF Types
  <2>4. /\ status' = [status EXCEPT ![j] = Settled(intent[j], outcome[j])]
        /\ Settled(intent[j], outcome[j]) \in {"paused", "cancelled", "completed", "failed"}
    BY <2>1 DEF FinishAttempt, Sets, Settled
  <2>5. failure' \in [Job -> Failure] /\ \A k \in Job : k # j => failure'[k] = failure[k]
    BY <2>1 DEF FinishAttempt, FailureOf, Types
  <2>6. Types'
    BY <1>1, <2>1, <2>3, <2>4, <2>5 DEF Types
  <2>7. StatusIsTrue'
    BY <1>1, <2>1, <2>2, <2>3, <2>4 DEF Types, StatusIsTrue
  <2>8. Lasting
    BY <1>1, <1>2, <2>4, <2>5 DEF Lasting, Terminal, Types, StatusIsTrue
  <2>9. PrerequisitesFirst'
    BY <1>2, <2>1, <2>8, LastingPrerequisites DEF Types
  <2>10. Unborn'
    BY <1>1, <2>4 DEF Types, Unborn
  <2> QED
    BY <1>1, <2>6, <2>7, <2>8, <2>9, <2>10, LastingAgrees DEF Bounds, OnlyUndecided
<1>3. CASE stage[j] # "finished"
  <2>1. /\ failure' = failure /\ result' = result /\ intent' = intent
        /\ started' = started /\ outcome' = outcome /\ stage' = stage /\ mode' = mode
        /\ \/ status[j] = "queued" /\ status' = [status EXCEPT ![j] = "running"]
           \/ status' = status
    BY <1>3 DEF Observe, Pool!Collect, Pool!Move, Sets, worker
  <2>2. Types' /\ StatusIsTrue'
    BY <1>1, <2>1 DEF Types, StatusIsTrue
  <2>3. Lasting
    BY <1>1, <2>1 DEF Lasting, Terminal, Types
  <2>4. PrerequisitesFirst'
    BY <1>1, <2>1, <2>3, LastingPrerequisites DEF Types, PrerequisitesFirst
  <2>5. Unborn'
    BY <1>1, <2>1 DEF Types, Unborn
  <2> QED
    BY <1>1, <2>1, <2>2, <2>3, <2>4, <2>5, LastingAgrees DEF Bounds, OnlyUndecided
<1> QED  BY <1>2, <1>3

\* The poll of the handles is over.
LEMMA ObservedKeeps ==
  ASSUME IInv, Observed
  PROVE  IInv'
<1>1. Types'
  BY DEF IInv, TypeOK, Types, Observed, Undecided, Goes, Refreshing, records, worker, control
<1>2. Bounds'
  BY Finite, ExportAssumption DEF IInv, TypeOK, Types, Bounds, Passes, Observed, Undecided, Goes, Refreshing, records, worker, control
<1>3. OnlyUndecided'
  BY DEF IInv, TypeOK, Types, OnlyUndecided, Undecided, Observed, Undecided, Goes, Refreshing, records, worker, control
<1>4. UNCHANGED records /\ \A k \in Job : stage'[k] = "fresh" <=> stage[k] = "fresh"
  BY DEF IInv, TypeOK, Types, Observed, Goes, Refreshing, records, worker
<1> QED  BY <1>1, <1>2, <1>3, <1>4, QuietKeeps

\* What a tracker has been told is what its prerequisites are.
LEMMA ToldIsTrue ==
  ASSUME Types, HistoryAgrees, NEW j \in retained, NEW d \in deps[j]
  PROVE  /\ d \in Job /\ d \in retained
         /\ Told(j)[d] \in {"unknown", Terminal(d)}
         /\ Told(j) \in [Job -> Verdict \cup {"unknown"}]
  <1>1. d \in Job /\ d \in retained /\ j \in Job
    BY DEF Types, HistoryAgrees
  <1>2. \A e \in Job : Terminal(e) \in Verdict \cup {"unknown"}
    BY DEF Terminal, Types
  <1> QED  BY <1>1, <1>2 DEF Told, IsFinal, Types, HistoryAgrees

\* A job is told and decided.
LEMMA RefreshKeeps ==
  ASSUME IInv, NEW j \in Job, Refresh(j)
  PROVE  IInv'
<1> USE DEF IInv, TypeOK
<1>1. /\ at = "refresh" /\ j \in todo /\ j \in retained /\ status[j] \in Deciding
      /\ retained' = retained /\ deps' = deps /\ intent' = intent
      /\ started' = started /\ outcome' = outcome
  BY DEF Refresh, Foremost, Types, OnlyUndecided, Undecided
<1>2. stage[j] = "fresh" /\ Terminal(j) = "unknown" /\ result[j] = FALSE
  BY <1>1 DEF Types, StatusIsTrue, Terminal
<1>3. CASE Contradicted(j)
  <2>1. /\ Returns /\ status' = status /\ known' = known /\ failure' = failure
        /\ result' = result /\ stage' = stage /\ mode' = mode
    BY <1>3 DEF Refresh
  <2>2. Types' /\ OnlyUndecided'
    BY <1>1, <2>1 DEF Types, OnlyUndecided, Returns, Goes
  <2>3. Bounds'
    BY <1>1, <2>1, Finite DEF Types, Bounds, Returns, Goes
  <2> QED
    BY <1>1, <2>1, <2>2, <2>3, QuietKeeps DEF records
<1>4. CASE ~Contradicted(j)
  <2>1. /\ known' = [known EXCEPT ![j] = Told(j)]
        /\ todo' = todo \ {j} /\ op' = op /\ at' = at /\ passes' = passes
    BY <1>4 DEF Refresh
  <2>2. PICK s \in {"queued", "pending", "waiting", "dependency_failed"} :
          /\ Becomes(j, s)
          /\ s = "queued" => /\ Ready(j) /\ Pool!Accept(j)
                             /\ failure' = [failure EXCEPT ![j] = "none"]
          /\ s # "queued" => failure' = failure /\ stage' = stage /\ mode' = mode
          /\ result' = result \/ result' = [result EXCEPT ![j] = FALSE]
    BY <1>4 DEF Refresh, Dispatch
  <2>3. status' = [status EXCEPT ![j] = s] /\ changed' \in BOOLEAN
    BY <2>2 DEF Becomes, Sets
  <2>4. /\ s = "queued" => stage' = [stage EXCEPT ![j] = "pending"]
        /\ s # "queued" => stage' = stage
        /\ mode' = mode
    BY <2>2 DEF Pool!Accept, Pool!Move
  <2>5. result' \in [Job -> BOOLEAN] /\ \A k \in Job : result'[k] = result[k]
    <3>1. CASE result' = result
      BY <3>1 DEF Types
    <3>2. CASE result' = [result EXCEPT ![j] = FALSE]
      <4>1. /\ result' \in [Job -> BOOLEAN] /\ result'[j] = FALSE
            /\ \A k \in Job : k # j => result'[k] = result[k]
        BY <3>2, SetEntry DEF Types
      <4> QED  BY <4>1, <1>2
    <3> QED  BY <2>2, <3>1, <3>2
  <2>6. failure' \in [Job -> Failure] /\ \A k \in Job : k # j => failure'[k] = failure[k]
    BY <2>2 DEF Types
  <2>7. \A d \in Job : Terminal(d) \in Verdict \cup {"unknown"}
    BY DEF Terminal, Types
  <2>8. Told(j) \in [Job -> Verdict \cup {"unknown"}]
    BY <1>1, <2>7 DEF Told, Types
  <2>9. Types'
    <3>1. Types /\ s \in Status
      BY DEF Status
    <3>2. /\ status' \in [Job -> Status]
          /\ stage' \in [Job -> {"fresh", "pending", "running", "finished"}]
      <4>1. status \in [Job -> Status] /\ stage \in [Job -> {"fresh", "pending", "running", "finished"}]
        BY DEF Types
      <4> HIDE DEF IInv, Refresh
      <4> QED
        BY <4>1, <3>1, <2>3, <2>4
    <3> HIDE DEF IInv, Refresh
    <3> QED
      BY <1>1, <2>1, <2>3, <2>4, <2>5, <2>6, <2>8, <3>1, <3>2 DEF Types
  <2>10. StatusIsTrue'
    BY <1>1, <1>2, <2>3, <2>4, <2>5 DEF Types, StatusIsTrue
  <2>11. Lasting
    BY <1>1, <1>2, <2>3, <2>6 DEF Lasting, Terminal, Types
  <2>12. PrerequisitesFirst'
    <3>1. s = "queued" => \A d \in deps[j] : d \in retained /\ status[d] = "completed"
      BY <1>1, <2>2, ToldIsTrue DEF Ready, Terminal
    <3> QED  BY <1>2, <2>4, <2>11, <3>1, LastingPrerequisites DEF Types
  <2>13. HistoryAgrees'
    <3>1. \A k \in retained : \A d \in deps[k] :
            d \in Job /\ d \in retained /\ known'[k][d] \in {"unknown", Terminal(d)}
      BY <1>1, <2>1, ToldIsTrue DEF Types, HistoryAgrees
    <3> QED  BY <1>1, <2>11, <3>1 DEF HistoryAgrees, Lasting
  <2>14. Unborn'
    BY <1>1, <2>1, <2>3 DEF Types, Unborn
  <2>15. OnlyUndecided'
    BY <1>1, <2>1, <2>3 DEF Types, OnlyUndecided, Undecided
  <2> QED
    BY <1>1, <2>1, <2>9, <2>10, <2>12, <2>13, <2>14, <2>15 DEF Bounds
<1> QED  BY <1>3, <1>4

\* A pass is over.
LEMMA RefreshedKeeps ==
  ASSUME IInv, Refreshed
  PROVE  IInv'
<1>1. Types'
  BY DEF IInv, TypeOK, Types, Refreshed, Undecided, Returns, Goes, records, worker, control
<1>2. Bounds'
  BY Finite, ExportAssumption DEF IInv, TypeOK, Types, Bounds, Passes, Refreshed, Undecided, Returns, Goes, records, worker, control
<1>3. OnlyUndecided'
  BY DEF IInv, TypeOK, Types, OnlyUndecided, Undecided, Refreshed, Undecided, Returns, Goes, records, worker, control
<1>4. UNCHANGED records /\ \A k \in Job : stage'[k] = "fresh" <=> stage[k] = "fresh"
  BY DEF IInv, TypeOK, Types, Refreshed, Returns, Goes, records, worker
<1> QED  BY <1>1, <1>2, <1>3, <1>4, QuietKeeps

\* A call fails.
LEMMA ErrorKeeps ==
  ASSUME IInv, Error
  PROVE  IInv'
<1>1. Types'
  BY DEF IInv, TypeOK, Types, Error, Returns, Goes, records, worker, control
<1>2. Bounds'
  BY Finite, ExportAssumption DEF IInv, TypeOK, Types, Bounds, Passes, Error, Returns, Goes, records, worker, control
<1>3. OnlyUndecided'
  BY DEF IInv, TypeOK, Types, OnlyUndecided, Undecided, Error, Returns, Goes, records, worker, control
<1>4. UNCHANGED records /\ \A k \in Job : stage'[k] = "fresh" <=> stage[k] = "fresh"
  BY DEF IInv, TypeOK, Types, Error, Returns, Goes, records, worker
<1> QED  BY <1>1, <1>2, <1>3, <1>4, QuietKeeps

\* A job is admitted.
LEMMA SubmitKeeps ==
  ASSUME IInv, NEW j \in Job, NEW D \in SUBSET Job, Submit(j, D)
  PROVE  IInv'
<1>1. Types'
  BY DEF IInv, TypeOK, Types, Submit, Refreshing, Undecided, Sets, records, worker, control
<1>2. Bounds'
  <2>1. /\ retained' = retained \cup {j} /\ j \notin retained /\ passes' = Cardinality(retained')
        /\ Cardinality(retained) < Retained /\ retained \in SUBSET Job /\ retained' \in SUBSET Job
    <3>1. /\ retained' = retained \cup {j} /\ j \notin retained
          /\ Cardinality(retained) < Retained /\ retained \in SUBSET Job /\ retained' \in SUBSET Job
      BY DEF Submit, IInv, TypeOK, Types
    <3>2. passes' = Passes(Cardinality(retained')) - 1
      BY DEF Submit, Refreshing
    <3>3. Cardinality(retained') \in Nat
      BY <3>1, Finite
    <3> QED  BY <3>1, <3>2, <3>3 DEF Passes
  <2>2. Cardinality(retained') = Cardinality(retained) + 1
    BY <2>1, Finite, FS_AddElement
  <2> QED  BY <2>1, <2>2, Finite, ExportAssumption DEF Bounds
<1>3. StatusIsTrue'
  <2>1. /\ retained' = retained \cup {j} /\ j \notin retained
        /\ stage' = stage /\ intent' = intent /\ result' = result
        /\ status' \in [Job -> Status] /\ status'[j] \in Deciding
        /\ \A k \in Job : k # j => status'[k] = status[k]
    BY DEF Submit, Sets, IInv, TypeOK, Types, worker
  <2>2. stage[j] = "fresh" /\ intent[j] = "none" /\ ~result[j]
    BY <2>1 DEF IInv, TypeOK, Types, StatusIsTrue, Unborn
  <2> QED  BY <2>1, <2>2 DEF IInv, StatusIsTrue
<1>4. PrerequisitesFirst'
  BY DEF IInv, TypeOK, Types, StatusIsTrue, PrerequisitesFirst, Submit, Refreshing, Undecided, Sets, records, worker, control
<1>5. HistoryAgrees'
  <2>1. /\ retained' = retained \cup {j} /\ j \notin retained /\ D \subseteq retained
        /\ deps' = [deps EXCEPT ![j] = D] /\ known' = known /\ failure' = failure
        /\ \A k \in Job : k # j => status'[k] = status[k]
    BY DEF Submit, Sets, IInv, TypeOK, Types
  <2>2. \A d \in retained : Terminal(d)' = Terminal(d)
    BY <2>1 DEF Terminal, IInv, TypeOK, Types
  <2>3. \A k \in retained : \A d \in deps'[k] :
          d \in retained /\ known'[k][d] \in {"unknown", Terminal(d)}
    BY <2>1 DEF IInv, TypeOK, Types, HistoryAgrees
  <2>4. \A d \in deps'[j] : d \in retained /\ known'[j][d] = "unknown"
    BY <2>1 DEF IInv, TypeOK, Types, Unborn
  <2> QED  BY <2>1, <2>2, <2>3, <2>4 DEF HistoryAgrees
<1>6. Unborn'
  BY DEF IInv, TypeOK, Types, Unborn, Submit, Refreshing, Undecided, Sets, records, worker, control
<1>7. OnlyUndecided'
  BY DEF IInv, TypeOK, Types, OnlyUndecided, Undecided, Submit, Refreshing, Undecided, Sets, records, worker, control
<1> QED  BY <1>1, <1>2, <1>3, <1>4, <1>5, <1>6, <1>7 DEF IInv, TypeOK

\* A pause.
LEMMA PauseKeeps ==
  ASSUME IInv, NEW j \in Job, Pause(j)
  PROVE  IInv'
<1>1. Types'
  <2>1. /\ j \in retained
        /\ status' = [status EXCEPT ![j] = "pausing"] \/ status' = [status EXCEPT ![j] = "paused"]
        /\ intent' = [intent EXCEPT ![j] = "pause"] \/ intent' = intent
    BY DEF Pause, Interrupt, Sets
  <2>2. status' \in [Job -> Status]
    BY <2>1 DEF IInv, TypeOK, Types
  <2>3. intent' \in [Job -> {"none", "pause", "cancel"}]
    BY <2>1 DEF IInv, TypeOK, Types
  <2> QED  BY <2>2, <2>3 DEF Pause, Returns, Goes, worker, IInv, TypeOK, Types
<1>2. Bounds'
  BY Finite, ExportAssumption DEF IInv, TypeOK, Types, Bounds, Passes, Pause, Interrupt, Interruptible, Deciding, Sets, Returns, Goes, records, worker, control
<1>3. StatusIsTrue'
  BY DEF IInv, TypeOK, Types, StatusIsTrue, Pause, Interrupt, Interruptible, Deciding, Sets, Returns, Goes, records, worker, control
<1>4. PrerequisitesFirst'
  BY DEF IInv, TypeOK, Types, StatusIsTrue, PrerequisitesFirst, Pause, Interrupt, Interruptible, Deciding, Sets, Returns, Goes, records, worker, control
<1>5. HistoryAgrees'
  BY DEF IInv, TypeOK, Types, HistoryAgrees, Terminal, Pause, Interrupt, Interruptible, Deciding, Sets, Returns, Goes, records, worker, control
<1>6. Unborn'
  BY DEF IInv, TypeOK, Types, Unborn, Pause, Interrupt, Interruptible, Deciding, Sets, Returns, Goes, records, worker, control
<1>7. OnlyUndecided'
  BY DEF IInv, TypeOK, Types, OnlyUndecided, Undecided, Pause, Interrupt, Interruptible, Deciding, Sets, Returns, Goes, records, worker, control
<1> QED  BY <1>1, <1>2, <1>3, <1>4, <1>5, <1>6, <1>7 DEF IInv, TypeOK

\* A cancellation.
LEMMA CancelKeeps ==
  ASSUME IInv, NEW j \in Job, Cancel(j)
  PROVE  IInv'
<1>1. Types'
  <2>1. /\ j \in retained
        /\ \/ status' = [status EXCEPT ![j] = "cancelling"]
           \/ status' = [status EXCEPT ![j] = "cancelled"]
        /\ intent' = [intent EXCEPT ![j] = "cancel"] \/ intent' = intent
    BY DEF Cancel, Interrupt, Sets
  <2>2. result' \in [Job -> BOOLEAN]
    <3>1. result' = result \/ result' = [result EXCEPT ![j] = FALSE]
      BY DEF Cancel
    <3> QED  BY <3>1, SetEntry DEF IInv, TypeOK, Types
  <2>3. status' \in [Job -> Status] /\ intent' \in [Job -> {"none", "pause", "cancel"}]
    BY <2>1 DEF IInv, TypeOK, Types
  <2> QED  BY <2>2, <2>3 DEF Cancel, Returns, Goes, worker, IInv, TypeOK, Types
<1>2. Bounds'
  BY Finite, ExportAssumption DEF IInv, TypeOK, Types, Bounds, Passes, Cancel, Interrupt, Retryable, Deciding, Sets, Returns, Goes, records, worker, control
<1>3. StatusIsTrue'
  BY DEF IInv, TypeOK, Types, StatusIsTrue, Cancel, Interrupt, Retryable, Deciding, Sets, Returns, Goes, records, worker, control
<1>4. PrerequisitesFirst'
  BY DEF IInv, TypeOK, Types, StatusIsTrue, PrerequisitesFirst, Cancel, Interrupt, Retryable, Deciding, Sets, Returns, Goes, records, worker, control
<1>5. HistoryAgrees'
  BY DEF IInv, TypeOK, Types, HistoryAgrees, Terminal, Cancel, Interrupt, Retryable, Deciding, Sets, Returns, Goes, records, worker, control
<1>6. Unborn'
  BY DEF IInv, TypeOK, Types, Unborn, Cancel, Interrupt, Retryable, Deciding, Sets, Returns, Goes, records, worker, control
<1>7. OnlyUndecided'
  BY DEF IInv, TypeOK, Types, OnlyUndecided, Undecided, Cancel, Interrupt, Retryable, Deciding, Sets, Returns, Goes, records, worker, control
<1> QED  BY <1>1, <1>2, <1>3, <1>4, <1>5, <1>6, <1>7 DEF IInv, TypeOK

\* A resume or a retry.
LEMMA RunAgainKeeps ==
  ASSUME IInv, NEW j \in Job, RunAgain(j)
  PROVE  IInv'
<1>1. Types'
  BY DEF IInv, TypeOK, Types, RunAgain, Retryable, Refreshing, Undecided, Sets, records, worker, control
<1>2. Bounds'
  BY Finite, ExportAssumption DEF IInv, TypeOK, Types, Bounds, Passes, RunAgain, Retryable, Refreshing, Undecided, Sets, records, worker, control
<1>3. StatusIsTrue'
  BY DEF IInv, TypeOK, Types, StatusIsTrue, RunAgain, Retryable, Refreshing, Undecided, Sets, records, worker, control
<1>4. PrerequisitesFirst'
  BY DEF IInv, TypeOK, Types, StatusIsTrue, PrerequisitesFirst, RunAgain, Retryable, Refreshing, Undecided, Sets, records, worker, control
<1>5. HistoryAgrees'
  BY DEF IInv, TypeOK, Types, HistoryAgrees, Terminal, RunAgain, Retryable, Refreshing, Undecided, Sets, records, worker, control
<1>6. Unborn'
  BY DEF IInv, TypeOK, Types, Unborn, RunAgain, Retryable, Refreshing, Undecided, Sets, records, worker, control
<1>7. OnlyUndecided'
  BY DEF IInv, TypeOK, Types, OnlyUndecided, Undecided, RunAgain, Retryable, Refreshing, Undecided, Sets, records, worker, control
<1> QED  BY <1>1, <1>2, <1>3, <1>4, <1>5, <1>6, <1>7 DEF IInv, TypeOK

\* A removal.
LEMMA RemoveKeeps ==
  ASSUME IInv, NEW j \in Job, Remove(j)
  PROVE  IInv'
<1>1. Types'
  BY DEF IInv, TypeOK, Types, Remove, IsFinal, Named, Sets, Returns, Goes, records, worker, control
<1>2. Bounds'
  <2>1. /\ retained' = retained \ {j} /\ j \in retained /\ passes' = 0
        /\ retained \in SUBSET Job /\ Cardinality(retained) <= Retained
    BY DEF Remove, Returns, Goes, IInv, TypeOK, Types, Bounds
  <2>2. Cardinality(retained') = Cardinality(retained) - 1
    BY <2>1, Finite, FS_RemoveElement
  <2>3. Cardinality(retained') \in Nat
    BY <2>1, Finite
  <2> QED  BY <2>1, <2>2, <2>3, Finite, ExportAssumption DEF Bounds
<1>3. StatusIsTrue'
  <2>1. /\ retained' = retained \ {j} /\ j \in retained /\ Terminal(j) # "unknown"
        /\ stage' = stage /\ intent' = intent /\ status'[j] = "waiting"
        /\ \A k \in Job : k # j => status'[k] = status[k]
    BY DEF Remove, Sets, IsFinal, IInv, TypeOK, Types, worker
  <2>2. stage[j] = "fresh" /\ intent[j] = "none"
    BY <2>1 DEF IInv, TypeOK, Types, StatusIsTrue, Terminal
  <2>3. /\ result'[j] = FALSE
        /\ \A k \in Job : k # j => result'[k] = result[k]
    BY SetEntry DEF Remove, IInv, TypeOK, Types
  <2> QED  BY <2>1, <2>2, <2>3 DEF IInv, StatusIsTrue
<1>4. PrerequisitesFirst'
  BY DEF IInv, TypeOK, Types, StatusIsTrue, PrerequisitesFirst, Remove, IsFinal, Named, Sets, Returns, Goes, records, worker, control
<1>5. HistoryAgrees'
  BY SMTT(60) DEF IInv, TypeOK, Types, HistoryAgrees, Terminal, Remove, IsFinal, Named, Sets, Returns, Goes, records, worker, control
<1>6. Unborn'
  BY DEF IInv, TypeOK, Types, Unborn, Remove, IsFinal, Named, Sets, Returns, Goes, records, worker, control
<1>7. OnlyUndecided'
  BY DEF IInv, TypeOK, Types, OnlyUndecided, Undecided, Remove, IsFinal, Named, Sets, Returns, Goes, records, worker, control
<1> QED  BY <1>1, <1>2, <1>3, <1>4, <1>5, <1>6, <1>7 DEF IInv, TypeOK

\* A shutdown.
LEMMA ShutdownKeeps ==
  ASSUME IInv, Shutdown
  PROVE  IInv'
<1>1. Types'
  BY DEF IInv, TypeOK, Types, Shutdown, Attempts, IsFinal, Pool!Close, Goes, records, worker, control
<1>2. Bounds'
  BY Finite, ExportAssumption DEF IInv, TypeOK, Types, Bounds, Passes, Shutdown, Attempts, IsFinal, Pool!Close, Goes, records, worker, control
<1>3. StatusIsTrue'
  BY DEF IInv, TypeOK, Types, StatusIsTrue, Shutdown, Attempts, IsFinal, Pool!Close, Goes, records, worker, control
<1>4. PrerequisitesFirst'
  <2>1. /\ retained' = retained /\ deps' = deps /\ stage' = stage
        /\ \A d \in Job : status[d] = "completed" => status'[d] = "completed"
    BY DEF Shutdown, Attempts, IsFinal, Terminal, Pool!Close, IInv, TypeOK, Types, StatusIsTrue
  <2> QED  BY <2>1 DEF IInv, TypeOK, Types, PrerequisitesFirst
<1>5. HistoryAgrees'
  <2>1. /\ retained' = retained /\ deps' = deps /\ known' = known /\ failure' = failure
        /\ \A d \in retained : Terminal(d) # "unknown" => status'[d] = status[d]
    BY DEF Shutdown, Attempts, IsFinal, Terminal, IInv, TypeOK, Types, StatusIsTrue
  <2>2. Lasting
    BY <2>1 DEF Lasting, Terminal, IInv, TypeOK, Types
  <2> QED  BY <2>1, <2>2, LastingAgrees DEF IInv, TypeOK
<1>6. Unborn'
  BY DEF IInv, TypeOK, Types, Unborn, Shutdown, Attempts, IsFinal, Pool!Close, Goes, records, worker, control
<1>7. OnlyUndecided'
  BY DEF IInv, TypeOK, Types, OnlyUndecided, Undecided, Shutdown, Attempts, IsFinal, Pool!Close, Goes, records, worker, control
<1> QED  BY <1>1, <1>2, <1>3, <1>4, <1>5, <1>6, <1>7 DEF IInv, TypeOK

\* Shutdown has joined the workers.
LEMMA JoinKeeps ==
  ASSUME IInv, Join
  PROVE  IInv'
<1>1. Types'
  BY DEF IInv, TypeOK, Types, Join, Attempts, records, worker, control
<1>2. Bounds'
  BY Finite, ExportAssumption DEF IInv, TypeOK, Types, Bounds, Passes, Join, Attempts, records, worker, control
<1>3. OnlyUndecided'
  BY DEF IInv, TypeOK, Types, OnlyUndecided, Undecided, Join, Attempts, records, worker, control
<1>4. UNCHANGED records /\ \A k \in Job : stage'[k] = "fresh" <=> stage[k] = "fresh"
  BY DEF IInv, TypeOK, Types, Join, records, worker
<1> QED  BY <1>1, <1>2, <1>3, <1>4, QuietKeeps

-----------------------------------------------------------------------------

\* Nothing is retained at first.
LEMMA InitHolds == Init => IInv
<1> SUFFICES ASSUME Init PROVE IInv
  OBVIOUS
<1>1. retained = {} /\ todo = {} /\ Cardinality(retained) = 0 /\ passes = 0
  BY FS_EmptySet DEF Init
<1>2. TypeOK
  <2>1. result \in [Job -> BOOLEAN] /\ started \in [Job -> BOOLEAN]
    BY Zenon DEF Init
  <2>2. known \in [Job -> [Job -> Verdict \cup {"unknown"}]]
    BY DEF Init
  <2>3. Types
    BY <1>1, <2>1, <2>2 DEF Init, Types, Pool!Init
  <2>4. Bounds
    BY <1>1, ExportAssumption DEF Bounds
  <2> QED  BY <2>3, <2>4 DEF TypeOK
<1>3. StatusIsTrue /\ PrerequisitesFirst /\ HistoryAgrees /\ Unborn /\ OnlyUndecided
  BY <1>1
  DEF Init, StatusIsTrue, PrerequisitesFirst, HistoryAgrees, Unborn, OnlyUndecided, Pool!Init
<1> QED  BY <1>2, <1>3 DEF IInv

\* No step breaks the invariant.
LEMMA StepKeeps == IInv /\ [Next]_vars => IInv'
<1> SUFFICES ASSUME IInv, [Next]_vars PROVE IInv'
  OBVIOUS
<1>1. CASE Control
  BY <1>1, ObservedKeeps, RefreshedKeeps, ErrorKeeps, JoinKeeps, ObserveKeeps, RefreshKeeps
  DEF Control
<1>2. CASE Poll \/ Shutdown \/ Drained
  BY <1>2, PollKeeps, ShutdownKeeps, DrainedKeeps
<1>3. CASE \E j \in Job : Start(j) \/ EnterBody(j) \/ FinishBody(j)
  BY <1>3, StartKeeps, EnterBodyKeeps, FinishBodyKeeps
<1>4. CASE \E j \in Job : Pause(j) \/ Cancel(j) \/ RunAgain(j) \/ Remove(j)
  BY <1>4, PauseKeeps, CancelKeeps, RunAgainKeeps, RemoveKeeps
<1>5. CASE \E j \in Job : \E D \in SUBSET Job : Submit(j, D)
  BY <1>5, SubmitKeeps
<1>6. CASE UNCHANGED vars
  BY <1>6 DEF vars, records, worker, control, IInv, TypeOK, Types, Bounds, StatusIsTrue,
              PrerequisitesFirst, HistoryAgrees, Terminal, Unborn, OnlyUndecided, Undecided
<1> QED  BY <1>1, <1>2, <1>3, <1>4, <1>5, <1>6 DEF Next

\* The inductive invariant of the export queue: the status of every job, the
\* attempts the executor has of it and what its dependents recorded of it agree,
\* between any two steps of the control thread and the workers.
THEOREM Inductive == Spec => []IInv
<1> QED  BY InitHolds, StepKeeps, PTL DEF Spec

\* Every variable keeps its type; the jobs stay within the retained capacity and
\* refresh_until_stable within its passes, whatever is submitted and removed.
THEOREM TypeCorrect == Spec => []TypeOK
<1>1. IInv => TypeOK
  BY DEF IInv
<1> QED  BY <1>1, Inductive, PTL

\* A status that claims an attempt owns one and no other does, so the `expect`s of
\* pause and cancel never panic; a result is retained for completed jobs alone.
THEOREM StatusTrue == Spec => []StatusIsTrue
<1>1. IInv => StatusIsTrue
  BY DEF IInv
<1> QED  BY <1>1, Inductive, PTL

\* No attempt is out whose prerequisites have not all completed, and none of them
\* is taken back, retried or removed while it is.
THEOREM PrerequisitesBefore == Spec => []PrerequisitesFirst
<1>1. IInv => PrerequisitesFirst
  BY DEF IInv
<1> QED  BY <1>1, Inductive, PTL

\* No dependency tracker is ever told a second, different verdict: the conflict
\* that DependencyTracker::record reports cannot happen through the queue.
THEOREM TrackersAgree == Spec => []HistoryAgrees
<1>1. IInv => HistoryAgrees
  BY DEF IInv
<1> QED  BY <1>1, Inductive, PTL

\* A tracker that agrees with its prerequisites takes their verdicts.
LEMMA NoContradiction == IInv => \A j \in retained : ~Contradicted(j)
  <1> SUFFICES ASSUME IInv, NEW j \in retained PROVE ~Contradicted(j)
    OBVIOUS
  <1>1. \A d \in deps[j] : d \in Job /\ known[j][d] \in {"unknown", Terminal(d)}
    BY DEF IInv, TypeOK, Types, HistoryAgrees
  <1> QED  BY <1>1 DEF Contradicted, Told, IsFinal

\* refresh_until_stable is never cut short: whatever a retained job's tracker would
\* be told of its prerequisites now, it does not refuse.
THEOREM NeverContradicted == Spec => [](\A j \in retained : ~Contradicted(j))
  BY NoContradiction, Inductive, PTL

\* An entry that an assignment leaves alone.
LEMMA OtherEntry ==
  ASSUME NEW f \in [Job -> BOOLEAN], NEW j \in Job, NEW k \in Job, j # k,
         NEW g, NEW b, g = [f EXCEPT ![k] = b]
  PROVE  g[j] = f[j]
  BY Zenon

\* A final job is left alone by every step but its removal.
LEMMA FinalStays ==
  ASSUME IInv, [Next]_vars, NEW j \in retained, Terminal(j) # "unknown", j \in retained'
  PROVE  status'[j] = status[j] /\ failure'[j] = failure[j] /\ result'[j] = result[j]
<1> DEFINE Same == status'[j] = status[j] /\ failure'[j] = failure[j] /\ result'[j] = result[j]
<1> USE DEF IInv, TypeOK
<1>1. /\ j \in Job /\ stage[j] = "fresh"
      /\ status[j] \in {"completed", "cancelled", "dependency_failed", "failed"}
      /\ status[j] = "failed" => failure[j] = "terminal"
  BY DEF Types, StatusIsTrue, Terminal
<1>2. CASE UNCHANGED records
  BY <1>2 DEF records
<1>3. ASSUME NEW k \in Job, Observe(k) PROVE Same
  <2>1. CASE stage[k] = "finished"
    <3>1. k # j /\ FinishAttempt(k)
      BY <1>1, <1>3, <2>1 DEF Observe
    <3>2. PICK b : result' = [result EXCEPT ![k] = b]
      BY <3>1 DEF FinishAttempt
    <3>3. result'[j] = result[j]
      BY <1>1, <3>1, <3>2, OtherEntry DEF Types
    <3> QED  BY <1>1, <3>1, <3>3 DEF FinishAttempt, Sets, Types
  <2>2. CASE stage[k] # "finished"
    BY <1>1, <1>3, <2>2 DEF Observe, Pool!Collect, Pool!Move, Sets, Types
  <2> QED  BY <2>1, <2>2
<1>4. ASSUME NEW k \in Job, Refresh(k) PROVE Same
  <2>1. k # j
    BY <1>1, <1>4 DEF Refresh, Foremost, OnlyUndecided, Undecided
  <2>2. /\ failure' = failure \/ failure' = [failure EXCEPT ![k] = "none"]
        /\ result' = result \/ result' = [result EXCEPT ![k] = FALSE]
        /\ status' = status \/ \E s : status' = [status EXCEPT ![k] = s]
    BY <1>4 DEF Refresh, Dispatch, Becomes, Sets
  <2>3. result'[j] = result[j]
    BY <1>1, <2>1, <2>2, OtherEntry DEF Types
  <2> QED  BY <1>1, <2>1, <2>2, <2>3 DEF Types
<1>5. ASSUME NEW k \in Job, Pause(k) \/ Cancel(k) \/ RunAgain(k) \/ Remove(k) PROVE Same
  <2>1. k # j
    BY <1>1, <1>5 DEF Pause, Cancel, RunAgain, Remove, Interruptible, Retryable
  <2>2. /\ failure' = failure \/ failure' = [failure EXCEPT ![k] = "none"]
        /\ result' = result \/ result' = [result EXCEPT ![k] = FALSE]
        /\ \E s : status' = [status EXCEPT ![k] = s]
    BY <1>5 DEF Pause, Cancel, RunAgain, Remove, Interrupt, Sets
  <2>3. result'[j] = result[j]
    BY <1>1, <2>1, <2>2, OtherEntry DEF Types
  <2> QED  BY <1>1, <2>1, <2>2, <2>3 DEF Types
<1>6. ASSUME NEW k \in Job, NEW D \in SUBSET Job, Submit(k, D) PROVE Same
  BY <1>1, <1>6 DEF Submit, Sets, Types
<1>7. CASE Shutdown
  <2>1. j \notin Attempts /\ IsFinal(j)
    BY <1>1 DEF Attempts, IsFinal
  <2>2. status'[j] = status[j] /\ failure' = failure
    BY <1>1, <1>7, <2>1 DEF Shutdown
  <2>3. result'[j] = result[j]
    BY <1>1, <1>7, <2>1, Zenon DEF Shutdown, Types
  <2> QED  BY <2>2, <2>3
<1>8. CASE Observed \/ Refreshed \/ Error \/ Join \/ Poll \/ Drained
  BY <1>2, <1>8 DEF Observed, Refreshed, Error, Join, Poll, Drained
<1>9. CASE \E k \in Job : Start(k) \/ EnterBody(k) \/ FinishBody(k)
  BY <1>2, <1>9 DEF Start, EnterBody, FinishBody
<1>10. CASE UNCHANGED vars
  BY <1>2, <1>10 DEF vars
<1> QED
  BY <1>3, <1>4, <1>5, <1>6, <1>7, <1>8, <1>9, <1>10 DEF Next, Control

\* A final job keeps its verdict, its failure and its result until it is removed:
\* no retry, resume, pause, cancellation or shutdown takes them back.
THEOREM FinalJobsStay == Spec => FinalIsFinal
<1>1. ASSUME IInv, [Next]_vars
      PROVE  \A j \in retained : Terminal(j) # "unknown" /\ j \in retained' =>
               status'[j] = status[j] /\ failure'[j] = failure[j] /\ result'[j] = result[j]
  BY <1>1, FinalStays
<1> QED  BY <1>1, Inductive, PTL DEF FinalIsFinal, Spec

-----------------------------------------------------------------------------
(* The executor under the queue. *)

\* A step of a worker is the executor's own, and the control touches the executor
\* only to hand it an attempt while there is room, to take a result and to close it.
LEMMA ExecutorStep == [Next]_vars => [Pool!Next]_(Pool!vars)
<1> SUFFICES ASSUME [Next]_vars PROVE Pool!Next \/ UNCHANGED Pool!vars
  OBVIOUS
<1>1. UNCHANGED << stage, mode >> => UNCHANGED Pool!vars
  BY DEF Pool!vars
<1>2. ASSUME NEW j \in Job, Start(j) \/ FinishBody(j) PROVE Pool!Next
  BY <1>2 DEF Start, FinishBody, Pool!Next
<1>3. ASSUME NEW j \in Job, Observe(j) PROVE Pool!Next \/ UNCHANGED << stage, mode >>
  BY <1>3 DEF Observe, Pool!Next, worker
<1>4. ASSUME NEW j \in Job, Refresh(j) PROVE Pool!Next \/ UNCHANGED << stage, mode >>
  BY <1>4 DEF Refresh, Dispatch, Pool!Next
<1>5. CASE Shutdown \/ Drained
  BY <1>5 DEF Shutdown, Drained, Pool!Next
<1>6. CASE Observed \/ Refreshed \/ Error \/ Join \/ Poll
  BY <1>1, <1>6 DEF Observed, Refreshed, Error, Join, Poll, worker
<1>7. ASSUME NEW j \in Job, EnterBody(j) \/ Pause(j) \/ Cancel(j) \/ RunAgain(j) \/ Remove(j)
      PROVE  UNCHANGED << stage, mode >>
  BY <1>7 DEF EnterBody, Pause, Cancel, RunAgain, Remove, worker
<1>8. ASSUME NEW j \in Job, NEW D \in SUBSET Job, Submit(j, D) PROVE UNCHANGED << stage, mode >>
  BY <1>8 DEF Submit, worker
<1>9. CASE UNCHANGED vars
  BY <1>1, <1>9 DEF vars, worker
<1> QED  BY <1>1, <1>2, <1>3, <1>4, <1>5, <1>6, <1>7, <1>8, <1>9 DEF Next, Control

\* The queue uses the bounded executor as JobExecutor describes it, which is what
\* WorkerPool implements.
THEOREM UsesExecutor == Spec => Pool!Spec
<1>1. Init => Pool!Init
  BY DEF Init
<1> QED  BY <1>1, ExecutorStep, PTL DEF Spec, Pool!Spec

-----------------------------------------------------------------------------
(* The shutdown. *)

\* Where the control can be in which call.
CallInv ==
  /\ op \in {"idle", "gone"} => at = "done"
  /\ op = "poll" => at \in {"observe", "refresh", "act"}
  /\ op = "settle" => at = "refresh"
  /\ op = "shutdown" => at \in {"join", "observe"}

\* From the shutdown on every job is final or has a cancelled attempt; once the
\* executor is closed the attempts are over, and each is looked at.
ClosingInv ==
  /\ mode = "closed" => \A j \in Job : stage[j] \in {"fresh", "finished"}
  /\ op \in {"shutdown", "gone"} =>
       /\ mode # "open"
       /\ \A j \in retained : Terminal(j) # "unknown" \/ status[j] = "cancelling"
       /\ at # "join" => mode = "closed" /\ Attempts \subseteq todo
       /\ op = "gone" => todo = {}

LEMMA ShutdownInit == Init => CallInv /\ ClosingInv
  BY DEF Init, CallInv, ClosingInv, Pool!Init

LEMMA CallStep == CallInv /\ [Next]_vars => CallInv'
<1> SUFFICES ASSUME CallInv, [Next]_vars PROVE CallInv'
  OBVIOUS
<1> USE DEF CallInv
<1>1. CASE Observed \/ Refreshed \/ Error \/ Join \/ Poll \/ Shutdown \/ Drained
  BY <1>1 DEF Observed, Refreshed, Error, Join, Poll, Shutdown, Drained, Goes, Returns, Refreshing, control
<1>2. ASSUME NEW j \in Job, Observe(j) \/ Refresh(j) \/ Start(j) \/ EnterBody(j) \/ FinishBody(j)
      PROVE  CallInv'
  BY <1>2 DEF Observe, Refresh, Start, EnterBody, FinishBody, Goes, Returns, control
<1>3. ASSUME NEW j \in Job, Pause(j) \/ Cancel(j) \/ RunAgain(j) \/ Remove(j) PROVE CallInv'
  BY <1>3 DEF Pause, Cancel, RunAgain, Remove, Goes, Returns, Refreshing
<1>4. ASSUME NEW j \in Job, NEW D \in SUBSET Job, Submit(j, D) PROVE CallInv'
  BY <1>4 DEF Submit, Refreshing
<1>5. CASE UNCHANGED vars
  BY <1>5 DEF vars, control
<1> QED  BY <1>1, <1>2, <1>3, <1>4, <1>5 DEF Next, Control

LEMMA ClosingStep == IInv /\ IInv' /\ CallInv /\ ClosingInv /\ [Next]_vars => ClosingInv'
<1> SUFFICES ASSUME IInv, IInv', CallInv, ClosingInv, [Next]_vars PROVE ClosingInv'
  OBVIOUS
<1> USE DEF IInv, TypeOK, Types
<1>1. CASE \E j \in Job : Start(j) \/ FinishBody(j)
  <2> PICK j \in Job : Start(j) \/ FinishBody(j)
    BY <1>1
  <2>1. /\ UNCHANGED << records, control, mode >> /\ stage[j] \in {"pending", "running"}
        /\ stage' = [stage EXCEPT ![j] = IF Start(j) THEN "running" ELSE "finished"]
    BY DEF Start, FinishBody, Pool!Start, Pool!Finish, Pool!Move
  <2>2. mode # "closed" /\ Attempts' = Attempts
    BY <2>1 DEF ClosingInv, Attempts, records
  <2> QED  BY <2>1, <2>2 DEF ClosingInv, CallInv, Terminal, records, control
<1>2. CASE Drained
  <2>1. /\ UNCHANGED << records, control, stage >> /\ mode # "open" /\ mode' = "closed"
        /\ \A j \in Job : stage[j] \notin {"pending", "running"}
    BY <1>2 DEF Drained, Pool!Drained, Pool!In
  <2> QED  BY <2>1 DEF ClosingInv, Attempts, Terminal, records, control
<1>3. CASE \E j \in Job : EnterBody(j)
  BY <1>3 DEF EnterBody, ClosingInv, Attempts, Terminal, records, control
<1>4. CASE \E j \in Job : Observe(j)
  <2> PICK j \in Job : Observe(j)
    BY <1>4
  <2>1. /\ at = "observe" /\ j \in todo /\ j \in retained /\ todo' = todo \ {j}
        /\ UNCHANGED << retained, mode, op, at >>
        /\ \A k \in Job : k # j => status'[k] = status[k] /\ failure'[k] = failure[k] /\ stage'[k] = stage[k]
    BY DEF Observe, Foremost, FinishAttempt, Sets, Pool!Collect, Pool!Move, worker
  <2>2. stage'[j] = IF stage[j] = "finished" THEN "fresh" ELSE stage[j]
    BY DEF Observe, Pool!Collect, Pool!Move, Pool!After, worker
  <2>3. CASE op \notin {"shutdown", "gone"}
    BY <2>1, <2>2, <2>3 DEF ClosingInv
  <2>4. CASE op \in {"shutdown", "gone"}
    <3>1. mode = "closed" /\ stage[j] \in {"fresh", "finished"} /\ stage'[j] = "fresh"
      BY <2>1, <2>2, <2>4 DEF ClosingInv
    <3>2. Attempts' \subseteq todo'
      BY <2>1, <2>4, <3>1 DEF ClosingInv, Attempts
    <3>3. Terminal(j)' # "unknown"
      <4>1. CASE stage[j] = "finished"
        <5>1. status[j] = "cancelling" /\ intent[j] = "cancel"
          BY <2>1, <2>4, <4>1 DEF ClosingInv, StatusIsTrue, Terminal, Active
        <5>2. status'[j] = "cancelled"
          BY <4>1, <5>1 DEF Observe, FinishAttempt, Sets, Settled
        <5> QED  BY <2>1, <5>2 DEF Terminal
      <4>2. CASE stage[j] = "fresh"
        <5>1. status[j] \notin Active
          BY <2>1, <4>2 DEF StatusIsTrue
        <5>2. status'[j] = status[j] /\ failure'[j] = failure[j]
          BY <4>2, <5>1 DEF Observe, Pool!Collect, Pool!Move, Active
        <5> QED  BY <2>1, <2>4, <5>1, <5>2 DEF ClosingInv, Terminal, Active
      <4> QED  BY <3>1, <4>1, <4>2
    <3>4. \A k \in retained : k # j => Terminal(k)' = Terminal(k) /\ status'[k] = status[k]
      BY <2>1 DEF Terminal
    <3>5. \A k \in Job : stage'[k] \in {"fresh", "finished"}
      BY <2>1, <3>1 DEF ClosingInv
    <3>6. \A k \in retained : Terminal(k)' # "unknown" \/ status'[k] = "cancelling"
      BY <2>4, <3>3, <3>4 DEF ClosingInv
    <3>7. op' # "gone"
      BY <2>1, <2>4 DEF CallInv
    <3> QED  BY <2>1, <2>4, <3>1, <3>2, <3>5, <3>6, <3>7 DEF ClosingInv
  <2> QED  BY <2>3, <2>4
<1>5. CASE Join
  BY <1>5 DEF Join, ClosingInv, CallInv, Attempts, Terminal, records, worker
<1>6. CASE Observed
  BY <1>6 DEF Observed, Goes, Refreshing, ClosingInv, CallInv, Attempts, Terminal, records, worker
<1>7. CASE Shutdown
  <2>1. /\ retained' = retained /\ failure' = failure /\ stage' = stage /\ mode' = "closing"
        /\ op' = "shutdown" /\ at' = "join"
        /\ status' = [j \in Job |-> IF j \in Attempts THEN "cancelling"
                                   ELSE IF j \in {k \in retained : stage[k] = "fresh" /\ ~IsFinal(k)}
                                     THEN "cancelled" ELSE status[j]]
    BY <1>7 DEF Shutdown, Pool!Close, Goes
  <2>2. ASSUME NEW j \in retained PROVE Terminal(j)' # "unknown" \/ status'[j] = "cancelling"
    <3>1. j \in Attempts \/ stage[j] = "fresh"
      BY DEF Attempts
    <3> QED  BY <2>1, <3>1 DEF Terminal, IsFinal, Attempts
  <2> QED  BY <2>1, <2>2 DEF ClosingInv
<1>8. CASE Refreshed \/ Error \/ Poll
  <2>1. op \notin {"shutdown", "gone"} /\ op' \notin {"shutdown", "gone"} /\ UNCHANGED worker
    BY <1>8 DEF Refreshed, Error, Poll, CallInv, Goes, Returns
  <2> QED  BY <2>1 DEF ClosingInv, worker
<1>9. ASSUME NEW j \in Job, Pause(j) \/ Cancel(j) \/ RunAgain(j) \/ Remove(j) PROVE ClosingInv'
  <2>1. op' \notin {"shutdown", "gone"} /\ UNCHANGED worker
    BY <1>9 DEF Pause, Cancel, RunAgain, Remove, Goes, Returns, Refreshing
  <2> QED  BY <2>1 DEF ClosingInv, worker
<1>10. ASSUME NEW j \in Job, NEW D \in SUBSET Job, Submit(j, D) PROVE ClosingInv'
  BY <1>10 DEF Submit, Refreshing, ClosingInv, worker
<1>11. ASSUME NEW j \in Job, Refresh(j) PROVE ClosingInv'
  <2>1. op \notin {"shutdown", "gone"} /\ op' \notin {"shutdown", "gone"}
    BY <1>11 DEF Refresh, CallInv, Goes, Returns
  <2>2. /\ stage' = stage \/ (mode = "open" /\ \E s : stage' = [stage EXCEPT ![j] = s])
        /\ mode' = mode
    BY <1>11 DEF Refresh, Dispatch, Pool!Accept, Pool!Move
  <2> QED  BY <2>1, <2>2 DEF ClosingInv
<1>12. CASE UNCHANGED vars
  BY <1>12 DEF vars, ClosingInv, Attempts, Terminal, records, worker, control
<1> QED
  BY <1>1, <1>2, <1>3, <1>4, <1>5, <1>6, <1>7, <1>8, <1>9, <1>10, <1>11, <1>12 DEF Next, Control

\* A shutdown that has returned leaves every retained job final and no attempt that
\* nobody looked at, although a worker may finish one after it was cancelled.
THEOREM ShutdownIsFinal ==
  Spec => [](op = "gone" => Attempts = {} /\ \A j \in retained : Terminal(j) # "unknown")
<1>1. IInv /\ CallInv /\ ClosingInv =>
        (op = "gone" => Attempts = {} /\ \A j \in retained : Terminal(j) # "unknown")
  BY DEF IInv, TypeOK, Types, StatusIsTrue, CallInv, ClosingInv, Attempts, Active
<1> QED  BY <1>1, Inductive, ShutdownInit, CallStep, ClosingStep, PTL DEF Spec

-----------------------------------------------------------------------------
(* The passes of refresh_until_stable. *)

\* dependency_status of j as the prerequisites are now, and its status according to it.
Decided(j) ==
  LET told == {d \in deps[j] : Terminal(d) # "unknown"}
  IN  /\ \A d \in told : Terminal(d) = "succeeded"
      /\ status[j] = "pending" <=> told = deps[j]

Visited == Undecided \ todo

\* A pass that changed nothing has decided everybody it visited.  One that changed
\* something has too, unless it failed a job: that job is one less for the passes left.
PassInv ==
  at = "refresh" =>
    /\ ~changed => \A j \in Visited : Decided(j)
    /\ \/ \A j \in Undecided : Decided(j)
       \/ (\A j \in Visited : Decided(j)) /\ Cardinality(Undecided) <= passes
       \/ Cardinality(Undecided) < passes

\* A refresh begins with more passes than there are jobs to decide.
LEMMA RefreshBegins ==
  ASSUME IInv', at' = "refresh", todo' = Undecided',
         passes' = Passes(Cardinality(retained')) - 1
  PROVE  PassInv'
<1>1. Undecided' \subseteq retained' /\ retained' \in SUBSET Job
  BY DEF IInv, TypeOK, Types, Undecided
<1>2. /\ Cardinality(Undecided') \in Nat /\ Cardinality(retained') \in Nat
      /\ Cardinality(Undecided') <= Cardinality(retained')
  BY <1>1, Finite, FS_Subset, FS_CardinalityType
<1>3. Visited' = {} /\ Cardinality(Undecided') <= passes'
  BY <1>2 DEF Passes, Visited
<1> QED  BY <1>3 DEF PassInv

\* One job of one pass.
LEMMA RefreshDecides ==
  ASSUME IInv, PassInv, NEW j \in Job, Refresh(j), ~Contradicted(j)
  PROVE  PassInv'
<1> USE DEF IInv, TypeOK
<1>1. /\ at = "refresh" /\ j \in todo /\ j \in Undecided /\ retained' = retained /\ deps' = deps
      /\ todo' = todo \ {j} /\ at' = at /\ passes' = passes
  BY DEF Refresh, Foremost, OnlyUndecided
<1>2. PICK s \in {"queued", "pending", "waiting", "dependency_failed"} :
        /\ Becomes(j, s)
        /\ s # "queued" => failure' = failure
        /\ \A k \in Job : k # j => failure'[k] = failure[k]
        /\ s \in {"queued", "pending"} => Ready(j)
        /\ s = "waiting" => ~Ready(j) /\ ~Blocked(j)
        /\ s = "dependency_failed" => Blocked(j)
  BY DEF Refresh, Dispatch, Types
<1>3. /\ status' = [status EXCEPT ![j] = s] /\ status[j] \in Deciding /\ j \in retained
      /\ changed' = (changed \/ s # status[j])
  BY <1>1, <1>2 DEF Becomes, Sets, Undecided
<1>4. \A d \in deps[j] : d \in Job /\ Told(j)[d] = Terminal(d)
  BY <1>3 DEF Types, HistoryAgrees, Told, IsFinal
\* Nobody else's verdict changes, and that of j only if it fails.
<1>5. \A d \in Job : d # j \/ s # "dependency_failed" => Terminal(d)' = Terminal(d)
  BY <1>1, <1>2, <1>3 DEF Terminal, Types
<1>6. Undecided' = IF s \in Deciding THEN Undecided ELSE Undecided \ {j}
  BY <1>1, <1>3 DEF Undecided, Types
<1>7. /\ IsFiniteSet(Undecided) /\ Cardinality(Undecided) \in Nat /\ passes \in Nat
      /\ Cardinality(Undecided \ {j}) \in Nat
      /\ Cardinality(Undecided \ {j}) = Cardinality(Undecided) - 1
  <2>1. Undecided \in SUBSET Job /\ Cardinality(retained) \in Nat
    BY Finite DEF Undecided, Types
  <2> QED
    BY <1>1, <2>1, Finite, FS_RemoveElement DEF Bounds
<1>8. CASE s = "dependency_failed"
  <2>1. Cardinality(Undecided') = Cardinality(Undecided) - 1
    BY <1>6, <1>7, <1>8
  <2>2. changed' = TRUE /\ ~Decided(j)
    <3>1. \E d \in deps[j] : Terminal(d) \notin {"unknown", "succeeded"}
      BY <1>2, <1>4, <1>8 DEF Blocked
    <3> QED
      BY <1>3, <1>8, <3>1 DEF Decided
  <2>3. Cardinality(Undecided) <= passes
    BY <1>1, <1>7, <2>2 DEF PassInv
  <2>4. Cardinality(Undecided') < passes'
    BY <1>1, <1>7, <2>1, <2>3
  <2> QED
    BY <2>2, <2>4 DEF PassInv
<1>9. CASE s # "dependency_failed"
  <2>1. \A d \in Job : Terminal(d)' = Terminal(d)
    BY <1>5, <1>9
  <2>2. ASSUME NEW k \in Undecided', k # j, Decided(k) PROVE Decided(k)'
    <3>1. k \in Job /\ deps[k] \subseteq Job /\ deps'[k] = deps[k] /\ status'[k] = status[k]
      BY <1>1, <1>3, <1>6, <2>2 DEF Types, Undecided
    <3> QED
      BY <2>1, <2>2, <3>1 DEF Decided
  <2>3. s # "queued" => Decided(j)'
    <3>1. j \in Job /\ deps[j] \subseteq Job /\ deps'[j] = deps[j] /\ status'[j] = s
      BY <1>1, <1>3 DEF Types
    <3>2. CASE s = "pending"
      BY <1>2, <1>4, <2>1, <3>1, <3>2 DEF Decided, Ready
    <3>3. CASE s = "waiting"
      <4>1. /\ \A d \in deps[j] : Terminal(d) \in {"unknown", "succeeded"}
            /\ \E d \in deps[j] : Terminal(d) # "succeeded"
        BY <1>2, <1>4, <3>3 DEF Ready, Blocked
      <4> QED
        BY <2>1, <3>1, <3>3, <4>1 DEF Decided
    <3> QED
      BY <1>9, <3>2, <3>3
  <2>4. s = "queued" => j \notin Undecided'
    BY <1>6
  <2>5. Visited' \subseteq Visited \cup {j} /\ Undecided' \subseteq Undecided
    BY <1>1, <1>6 DEF Visited
  <2>6. Cardinality(Undecided') \in Nat /\ Cardinality(Undecided') <= Cardinality(Undecided)
    BY <1>6, <1>7
  <2>7. (\A k \in Visited : Decided(k)) => \A k \in Visited' : Decided(k)'
    BY <2>2, <2>3, <2>4, <2>5 DEF Visited
  <2>8. (\A k \in Undecided : Decided(k)) => \A k \in Undecided' : Decided(k)'
    BY <2>2, <2>3, <2>4, <2>5
  <2>9. changed' = FALSE => changed = FALSE
    BY <1>3 DEF Types
  <2>10. at = "refresh" /\ at' = "refresh" /\ passes' = passes
    BY <1>1
  <2>11. CASE \A k \in Undecided : Decided(k)
    BY <2>5, <2>8, <2>11 DEF PassInv, Visited
  <2>12. CASE (\A k \in Visited : Decided(k)) /\ Cardinality(Undecided) <= passes
    BY <1>7, <2>6, <2>7, <2>10, <2>12 DEF PassInv
  <2>13. CASE Cardinality(Undecided) < passes
    BY <1>7, <2>6, <2>7, <2>9, <2>10, <2>13 DEF PassInv
  <2> QED
    BY <2>10, <2>11, <2>12, <2>13 DEF PassInv
<1> QED  BY <1>8, <1>9

\* A pass ends with everybody decided, or with a pass left for those who are not.
LEMMA PassEnds ==
  ASSUME IInv, PassInv, Refreshed
  PROVE  /\ PassInv'
         /\ at' # "refresh" => \A k \in Undecided : Decided(k)
<1> USE DEF IInv, TypeOK
<1>1. at = "refresh" /\ Visited = Undecided /\ UNCHANGED records
  BY DEF Refreshed, Visited
<1>2. Undecided' = Undecided /\ \A k \in Undecided : Decided(k)' <=> Decided(k)
  BY <1>1 DEF records, Undecided, Decided, Terminal
<1>3. Cardinality(Undecided) \in Nat /\ passes \in Nat
  <2>1. Undecided \in SUBSET Job /\ Cardinality(retained) \in Nat
    BY Finite DEF Undecided, Types
  <2> QED
    BY <2>1, Finite DEF Bounds
<1>4. (\A k \in Undecided : Decided(k)) \/ (changed /\ Cardinality(Undecided) < passes)
  BY <1>1, <1>3 DEF PassInv, Types
<1>5. CASE changed /\ passes > 0
  <2>1. at' = "refresh" /\ todo' = Undecided /\ passes' = passes - 1
    BY <1>1, <1>5 DEF Refreshed
  <2>2. Visited' = {}
    BY <1>2, <2>1 DEF Visited
  <2> QED
    BY <1>2, <1>3, <1>4, <2>1, <2>2 DEF PassInv
<1>6. CASE ~(changed /\ passes > 0)
  <2>1. \A k \in Undecided : Decided(k)
    BY <1>3, <1>4, <1>6
  <2>2. at' # "refresh"
    BY <1>6 DEF Refreshed, Goes, Returns
  <2> QED
    BY <2>1, <2>2 DEF PassInv
<1> QED  BY <1>5, <1>6

\* A step that leaves records and control alone.
LEMMA PassRests ==
  ASSUME PassInv, UNCHANGED << records, control >>
  PROVE  PassInv'
  BY DEF PassInv, Visited, Undecided, Decided, Terminal, records, control

\* Every other step of the control begins a refresh, or is not in one.
LEMMA PassStep ==
  ASSUME IInv, IInv', CallInv, PassInv, \A j \in retained : ~Contradicted(j), [Next]_vars
  PROVE  /\ PassInv'
         /\ at = "refresh" /\ at' # "refresh" =>
              UNCHANGED records /\ \A k \in Undecided : Decided(k)
<1>1. ASSUME Observed
      PROVE  PassInv' /\ at # "refresh"
  <2>1. CASE op = "poll"
    <3>1. /\ at = "observe" /\ UNCHANGED records /\ at' = "refresh" /\ todo' = Undecided
          /\ passes' = Passes(Cardinality(retained)) - 1
      BY <1>1, <2>1 DEF Observed, Refreshing
    <3>2. retained' = retained /\ Undecided' = Undecided
      BY <3>1 DEF records, Undecided
    <3> QED  BY <3>1, <3>2, RefreshBegins
  <2>2. CASE op # "poll"
    BY <1>1, <2>2 DEF Observed, Goes, PassInv
  <2>3. at # "refresh"
    BY <1>1 DEF Observed
  <2> QED  BY <2>1, <2>2, <2>3
<1>2. ASSUME NEW j \in Job, Refresh(j)
      PROVE  PassInv' /\ at' = "refresh"
  <2>1. j \in retained
    BY <1>2 DEF Refresh, Foremost, IInv, TypeOK, Types
  <2>2. ~Contradicted(j)
    BY <2>1
  <2> QED  BY <1>2, <2>2, RefreshDecides DEF Refresh
<1>3. CASE Refreshed
  <2>1. UNCHANGED records
    BY <1>3 DEF Refreshed
  <2> QED  BY <1>3, <2>1, PassEnds
<1>4. ASSUME NEW j \in Job, NEW D \in SUBSET Job, Submit(j, D)
      PROVE  PassInv' /\ at' = "refresh"
  <2>1. /\ at' = "refresh" /\ todo' = Undecided \cup {j} /\ retained' = retained \cup {j}
        /\ passes' = Passes(Cardinality(retained')) - 1
        /\ \E s \in Deciding : status' = [status EXCEPT ![j] = s]
    BY <1>4 DEF Submit, Refreshing, Sets
  <2>2. Undecided' = Undecided \cup {j}
    BY <2>1 DEF Undecided, IInv, TypeOK, Types
  <2> QED  BY <2>1, <2>2, RefreshBegins
<1>5. ASSUME NEW j \in Job, RunAgain(j)
      PROVE  PassInv' /\ at' = "refresh"
  <2>1. /\ at' = "refresh" /\ todo' = Undecided \cup {j} /\ retained' = retained /\ j \in retained
        /\ passes' = Passes(Cardinality(retained')) - 1
        /\ status' = [status EXCEPT ![j] = "waiting"]
    BY <1>5 DEF RunAgain, Refreshing, Sets
  <2>2. Undecided' = Undecided \cup {j}
    BY <2>1 DEF Undecided, IInv, TypeOK, Types
  <2> QED  BY <2>1, <2>2, RefreshBegins
<1>6. ASSUME NEW j \in Job, Start(j) \/ EnterBody(j) \/ FinishBody(j)
      PROVE  UNCHANGED << records, control >>
  BY <1>6 DEF Start, EnterBody, FinishBody
<1>7. ASSUME Drained \/ UNCHANGED vars
      PROVE  UNCHANGED << records, control >>
  BY <1>7 DEF Drained, vars, control
<1>8. ASSUME NEW j \in Job, Observe(j) \/ Pause(j) \/ Cancel(j) \/ Remove(j)
      PROVE  at # "refresh" /\ at' # "refresh"
  BY <1>8 DEF Observe, Pause, Cancel, Remove, Returns, Goes
<1>9. ASSUME Poll \/ Error \/ Join \/ Shutdown
      PROVE  at # "refresh" /\ at' # "refresh"
  BY <1>9 DEF CallInv, Poll, Error, Join, Shutdown, Returns, Goes
<1>10. ASSUME UNCHANGED << records, control >>
       PROVE  PassInv' /\ at' = at
  BY <1>10, PassRests DEF control
<1>11. ASSUME at' # "refresh"
       PROVE  PassInv'
  BY <1>11 DEF PassInv
<1> QED
  BY <1>1, <1>2, <1>3, <1>4, <1>5, <1>6, <1>7, <1>8, <1>9, <1>10, <1>11 DEF Next, Control

\* When refresh_until_stable returns, the verdicts have travelled down every chain of
\* prerequisites, whatever their order: the bound of its loop is enough for any number
\* of jobs, so that it never ends because of the bound with something left to tell.
THEOREM RefreshSettles == Spec => PollSettles
<1>1. Init => PassInv
  BY DEF Init, PassInv
<1>3. IInv /\ IInv' /\ CallInv /\ PassInv /\ [Next]_vars => PassInv'
  BY NoContradiction, PassStep
<1>4. ASSUME IInv, IInv', CallInv, PassInv, [Next]_vars, at = "refresh", at' # "refresh"
      PROVE  \A j \in Undecided' :
               LET told == {d \in deps[j] : Terminal(d)' # "unknown"}
               IN  /\ \A d \in told : Terminal(d)' = "succeeded"
                   /\ status'[j] = "pending" <=> told = deps[j]
  <2>1. UNCHANGED records /\ \A j \in Undecided : Decided(j)
    BY NoContradiction, <1>4, PassStep
  <2>2. Undecided' = Undecided /\ status' = status /\ \A d \in Job : Terminal(d)' = Terminal(d)
    BY <2>1 DEF records, Undecided, Terminal
  <2>3. \A j \in Undecided : deps[j] \subseteq Job
    BY <1>4 DEF IInv, TypeOK, Types, Undecided
  <2> QED  BY <2>1, <2>2, <2>3 DEF Decided
<1>5. IInv /\ IInv' /\ CallInv /\ PassInv /\ [Next]_vars =>
        (at = "refresh" /\ at' # "refresh" =>
           \A j \in Undecided' :
             LET told == {d \in deps[j] : Terminal(d)' # "unknown"}
             IN  /\ \A d \in told : Terminal(d)' = "succeeded"
                 /\ status'[j] = "pending" <=> told = deps[j])
  BY <1>4
<1> QED
  BY <1>1, <1>3, <1>5, Inductive, ShutdownInit, CallStep, PTL DEF PollSettles, Spec
=============================================================================
