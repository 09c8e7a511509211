-------------------------- MODULE WorkerPoolProofs --------------------------
(* Theorems about WorkerPool, for every number of workers, every capacity and *)
(* every set of submissions.                                                  *)
EXTENDS WorkerPool, TLAPS, FiniteSetTheorems

LEMMA WorkerFacts ==
  /\ 0 \in Worker
  /\ \A w \in Worker : NextOwner(w) \in Worker
  /\ \A w \in Worker, d \in 0 .. N - 1 : (w + d) % N \in Worker
  BY PoolAssumption DEF Worker, NextOwner

LEMMA CycleFacts ==
  /\ \A c \in 0 .. Cycle - 1, k \in 0 .. Cycle - 1 :
       /\ Advance(c, k) \in 0 .. Cycle - 1
       /\ SlotFrom(c, k) \in Priority
  BY DEF Cycle, Advance, SlotFrom, ServicePattern, Priority

LEMMA InitTypeOK == Init => TypeOK
  <1> SUFFICES ASSUME Init PROVE TypeOK
    OBVIOUS
  <1>1. queues \in [Worker -> [Priority -> Seq(Task)]]
    BY DEF Init
  <1> QED
    BY <1>1, PoolAssumption, WorkerFacts
    DEF Init, TypeOK, WorkerState, ClientState, Cycle

LEMMA ReleaseType ==
  ASSUME TypeOK, NEW t \in Task \cup {NoTask}, Release(t)
  PROVE  /\ client' \in [Task -> ClientState]
         /\ result' \in [Task -> Terminal \cup {"none"}]
         /\ cancelled' \in [Task -> BOOLEAN]
         /\ expired' \in [Task -> BOOLEAN]
         /\ doomed' \in [Task -> BOOLEAN]
  BY DEF TypeOK, Release, Retired, ClientState

LEMMA StepTypeOK == TypeOK /\ [Next]_vars => TypeOK'
  <1> SUFFICES ASSUME TypeOK, [Next]_vars PROVE TypeOK'
    OBVIOUS
  <1> USE DEF poolVars, countVars, workerVars, jobVars
  <1>1. ASSUME NEW w \in Worker, Spawn(w) PROVE TypeOK'
    BY <1>1 DEF TypeOK, Spawn, WorkerState
  <1>2. CASE BeginShutdown
    BY <1>2 DEF TypeOK, BeginShutdown
  <1>3. CASE NotifyShutdown
    BY <1>3 DEF TypeOK, NotifyShutdown, WakeAll, WorkerState
  <1>4. CASE JoinWorkers
    BY <1>4 DEF TypeOK, JoinWorkers
  <1>5. ASSUME NEW t \in Task, Submit(t) PROVE TypeOK'
    <2>1. queues' \in [Worker -> [Priority -> Seq(Task)]]
      <3>1. PriorityOf[t] \in Priority
        BY PoolAssumption
      <3>2. Append(queues[nextOwner][PriorityOf[t]], t) \in Seq(Task)
        BY <3>1 DEF TypeOK
      <3> QED
        BY <1>5, <3>1, <3>2 DEF TypeOK, Submit
    <2>2. nextOwner' \in Worker
      BY <1>5, WorkerFacts DEF TypeOK, Submit
    <2>3. queuedIds' \subseteq Id
      <3>1. queuedIds \subseteq Id
        BY DEF TypeOK
      <3>2. IdOf[t] \in Id
        BY PoolAssumption
      <3>3. queuedIds' = queuedIds \cup {IdOf[t]}
        BY <1>5 DEF Submit
      <3> HIDE DEF TypeOK
      <3> QED
        BY <3>1, <3>2, <3>3
    <2> QED
      BY <1>5, <2>1, <2>2, <2>3 DEF TypeOK, Submit, ClientState
  <1>6. ASSUME NEW t \in Task, NotifyOne(t) PROVE TypeOK'
    BY <1>6 DEF TypeOK, NotifyOne, WakeOne, ClientState, WorkerState
  <1>7. ASSUME NEW t \in Task, Observe(t) PROVE TypeOK'
    BY <1>7, ReleaseType DEF TypeOK, Observe
  <1>8. ASSUME NEW t \in Task, DropHandle(t) PROVE TypeOK'
    BY <1>8, ReleaseType DEF TypeOK, DropHandle, ClientState
  <1>9. ASSUME NEW t \in Task, Cancel(t) PROVE TypeOK'
    BY <1>9 DEF TypeOK, Cancel
  <1>10. ASSUME NEW t \in Task, Expire(t) PROVE TypeOK'
    BY <1>10 DEF TypeOK, Expire
  <1>11. ASSUME NEW w \in Worker, Dispatch(w) PROVE TypeOK'
    <2>1. PICK k \in 0 .. Cycle - 1, d \in 0 .. N - 1 :
            LET p == SlotFrom(cursor, k)
                v == (w + d) % N
                t == Head(queues[v][p])
            IN /\ ServedSlot(k)
               /\ Nearest(w, p, d)
               /\ cursor' = Advance(cursor, k)
               /\ queues' = Without(v, p)
               /\ queuedIds' = queuedIds \ {IdOf[t]}
               /\ held' = [held EXCEPT ![w] = t]
               /\ owned'  = IF v = w THEN SaturatingIncrement(owned) ELSE owned
               /\ stolen' = IF v # w THEN SaturatingIncrement(stolen) ELSE stolen
               /\ bypassed' = [q \in Priority |->
                    IF q = p \/ ~ClassQueued(q) THEN 0 ELSE bypassed[q] + 1]
      BY <1>11 DEF Dispatch
    <2> DEFINE p == SlotFrom(cursor, k)
               v == (w + d) % N
               t == Head(queues[v][p])
    <2>2. p \in Priority /\ v \in Worker
      BY WorkerFacts, CycleFacts DEF TypeOK
    <2>3. queues[v][p] \in Seq(Task) /\ queues[v][p] # << >>
      BY <2>1, <2>2 DEF TypeOK, Nearest
    <2>4. t \in Task /\ Tail(queues[v][p]) \in Seq(Task)
      BY <2>3
    <2>5. queues' \in [Worker -> [Priority -> Seq(Task)]]
      BY <2>1, <2>2, <2>4 DEF TypeOK, Without
    <2>6. cursor' \in 0 .. Cycle - 1
      BY <2>1, CycleFacts DEF TypeOK
    <2>7. held' \in [Worker -> Task \cup {NoTask}]
      BY <2>1, <2>4 DEF TypeOK
    <2>8. owned' \in 0 .. MaxCount /\ stolen' \in 0 .. MaxCount
      BY SMTT(60), <2>1, PoolAssumption DEF TypeOK, SaturatingIncrement
    <2>9. bypassed' \in [Priority -> Nat]
      BY SMTT(60), <2>1 DEF TypeOK
    <2>10. queuedIds' \subseteq Id
      BY <2>1 DEF TypeOK
    <2>11. active' \in Nat /\ maxActive' \in Nat
      BY SMTT(60), <1>11 DEF TypeOK, Dispatch
    <2>12. pc' \in [Worker -> WorkerState]
      BY <1>11 DEF TypeOK, Dispatch, WorkerState
    <2>13. UNCHANGED << nextOwner, completed, accepting, phase, verdict, jobVars >>
      BY <1>11 DEF Dispatch
    <2> QED
      BY <2>5, <2>6, <2>7, <2>8, <2>9, <2>10, <2>11, <2>12, <2>13 DEF TypeOK
  <1>12. ASSUME NEW w \in Worker, Sleep(w) PROVE TypeOK'
    BY <1>12 DEF TypeOK, Sleep, WorkerState
  <1>13. ASSUME NEW w \in Worker, SpuriousWake(w) PROVE TypeOK'
    BY <1>13 DEF TypeOK, SpuriousWake, WorkerState
  <1>14. ASSUME NEW w \in Worker, Exit(w) PROVE TypeOK'
    BY <1>14 DEF TypeOK, Exit, WorkerState
  <1>15. ASSUME NEW w \in Worker, BeginJob(w) PROVE TypeOK'
    BY <1>15 DEF TypeOK, BeginJob, Interruption, Terminal, WorkerState
  <1>16. ASSUME NEW w \in Worker, RunBody(w) PROVE TypeOK'
    BY <1>16 DEF TypeOK, RunBody, OutcomeOf, Terminal, WorkerState
  <1>17. ASSUME NEW w \in Worker, Publish(w) PROVE TypeOK'
    <2>1. held[w] \in Task \cup {NoTask} /\ verdict[w] \in Terminal \cup {"none"}
      BY DEF TypeOK
    <2>2. /\ client' \in [Task -> ClientState]
          /\ result' \in [Task -> Terminal \cup {"none"}]
          /\ cancelled' \in [Task -> BOOLEAN]
          /\ expired' \in [Task -> BOOLEAN]
          /\ doomed' \in [Task -> BOOLEAN]
      BY <1>17, <2>1, ReleaseType DEF TypeOK, Publish
    <2> QED
      BY <1>17, <2>1, <2>2 DEF TypeOK, Publish, WorkerState
  <1>18. ASSUME NEW w \in Worker, RecordCompletion(w) PROVE TypeOK'
    BY <1>18, PoolAssumption
    DEF TypeOK, RecordCompletion, ActiveAfterCompletion, SaturatingIncrement, WorkerState
  <1>19. ASSUME NEW w \in Worker, NotifyAll(w) PROVE TypeOK'
    BY <1>19 DEF TypeOK, NotifyAll, WorkerState
  <1>20. CASE UNCHANGED vars
    BY <1>20 DEF TypeOK, vars
  <1> QED
    BY <1>1, <1>2, <1>3, <1>4, <1>5, <1>6, <1>7, <1>8, <1>9, <1>10, <1>11, <1>12,
       <1>13, <1>14, <1>15, <1>16, <1>17, <1>18, <1>19, <1>20
    DEF Next, Owner, Client, WorkerStep, Done

(* Every variable of the pool keeps its type: in particular the cursor stays  *)
(* inside the service pattern and nobody ever indexes a queue that is absent. *)
THEOREM TypeCorrect == Spec => []TypeOK
  BY InitTypeOK, StepTypeOK, PTL DEF Spec
-----------------------------------------------------------------------------
(* The starvation bound.  StarvationBound alone is not inductive: the next    *)
(* dispatch may be one too many.  What is preserved is a quota: a queued      *)
(* class has spent at most its bound less the slots still before its next one.*)

WaitsFor(p, k) == \A j \in 0 .. k - 1 : SlotFrom(cursor, j) # p

QuotaInv ==
  \A p \in Priority :
    IF ClassQueued(p)
      THEN \A k \in 0 .. Cycle - 1 :
             WaitsFor(p, k) => bypassed[p] + k <= MaximumWaitingDispatches(p)
      ELSE bypassed[p] = 0

(* ServicePattern meets the published bounds: from every cursor position each *)
(* class has a slot no further away than maximum_waiting_dispatches.          *)
LEMMA SlotWithinBound ==
  ASSUME NEW c \in 0 .. Cycle - 1, NEW p \in Priority
  PROVE  /\ MaximumWaitingDispatches(p) \in 0 .. Cycle - 1
         /\ \E j \in 0 .. MaximumWaitingDispatches(p) : SlotFrom(c, j) = p
  <1> USE DEF Cycle, SlotFrom, ServicePattern, MaximumWaitingDispatches
  <1>1. CASE p = "interactive"
    <2>1. SlotFrom(c, 0) = p \/ SlotFrom(c, 1) = p
      BY <1>1
    <2> QED
      BY <1>1, <2>1
  <1>2. CASE p = "playback"
    <2>1. \E j \in 0 .. 3 : SlotFrom(c, j) = p
      BY <1>2
    <2> QED
      BY <1>2, <2>1
  <1>3. CASE p = "export"
    <2>1. \E j \in 0 .. 7 : SlotFrom(c, j) = p
      BY <1>3
    <2> QED
      BY <1>3, <2>1
  <1>4. CASE p = "background"
    <2>1. SlotFrom(c, IF c <= 7 THEN 7 - c ELSE 22 - c) = p
      BY <1>4
    <2> QED
      BY <1>4, <2>1
  <1> QED
    BY <1>1, <1>2, <1>3, <1>4 DEF Priority

LEMMA SlotShift ==
  ASSUME NEW c \in 0 .. Cycle - 1, NEW k \in 0 .. Cycle - 1, NEW j \in 0 .. Cycle - 1
  PROVE  SlotFrom(Advance(c, k), j) = SlotFrom(c, k + 1 + j)
  <1>1. (((c + k + 1) % Cycle) + j) % Cycle = (c + (k + 1 + j)) % Cycle
    BY DEF Cycle
  <1> QED
    BY <1>1 DEF SlotFrom, Advance

(* A class that waits for k slots has its next slot within the bound. *)
LEMMA WaitBound ==
  ASSUME TypeOK, NEW p \in Priority, NEW k \in 0 .. Cycle - 1, WaitsFor(p, k)
  PROVE  k <= MaximumWaitingDispatches(p)
  <1>1. PICK j \in 0 .. MaximumWaitingDispatches(p) : SlotFrom(cursor, j) = p
    BY SlotWithinBound DEF TypeOK
  <1>2. ~ (j \in 0 .. k - 1)
    BY <1>1 DEF WaitsFor
  <1> QED
    BY <1>1, <1>2, SlotWithinBound DEF Cycle

LEMMA InitQuota == Init => QuotaInv
  BY DEF Init, QuotaInv, ClassQueued

LEMMA StepQuota == TypeOK /\ TypeOK' /\ QuotaInv /\ [Next]_vars => QuotaInv'
  <1> SUFFICES ASSUME TypeOK, TypeOK', QuotaInv, [Next]_vars PROVE QuotaInv'
    OBVIOUS
  <1>1. CASE UNCHANGED << queues, cursor, bypassed >>
    BY <1>1 DEF QuotaInv, ClassQueued, WaitsFor
  <1>2. ASSUME NEW t \in Task, Submit(t) PROVE QuotaInv'
    <2> SUFFICES ASSUME NEW p \in Priority
                 PROVE  IF ClassQueued(p)'
                          THEN \A k \in 0 .. Cycle - 1 :
                                 WaitsFor(p, k)' => bypassed'[p] + k <= MaximumWaitingDispatches(p)
                          ELSE bypassed'[p] = 0
      BY DEF QuotaInv
    <2>1. cursor' = cursor /\ bypassed' = bypassed
      BY <1>2 DEF Submit
    <2>2. ClassQueued(p) => ClassQueued(p)'
      <3>1. ASSUME NEW w \in Worker, queues[w][p] # << >>
            PROVE  queues'[w][p] # << >>
        <4>1. PriorityOf[t] \in Priority /\ nextOwner \in Worker
          BY PoolAssumption DEF TypeOK
        <4>2. queues[w][p] \in Seq(Task)
          BY DEF TypeOK
        <4>3. Append(queues[w][p], t) # << >>
          BY <4>2
        <4>4. queues'[w][p] \in {queues[w][p], Append(queues[w][p], t)}
          BY <1>2, <4>1 DEF Submit, TypeOK
        <4> QED
          BY <3>1, <4>3, <4>4
      <3> QED
        BY <3>1 DEF ClassQueued
    <2>3. CASE ClassQueued(p)
      BY <2>1, <2>2, <2>3 DEF QuotaInv, WaitsFor
    <2>4. CASE ~ClassQueued(p)
      <3>1. bypassed[p] = 0
        BY <2>4 DEF QuotaInv
      <3>2. ASSUME NEW k \in 0 .. Cycle - 1, WaitsFor(p, k)
            PROVE  k <= MaximumWaitingDispatches(p)
        BY <3>2, WaitBound
      <3> QED
        BY <2>1, <3>1, <3>2 DEF WaitsFor
    <2> QED
      BY <2>3, <2>4
  <1>3. ASSUME NEW w \in Worker, Dispatch(w) PROVE QuotaInv'
    <2>1. PICK m \in 0 .. Cycle - 1, d \in 0 .. N - 1 :
            LET q == SlotFrom(cursor, m)
            IN /\ ServedSlot(m)
               /\ cursor' = Advance(cursor, m)
               /\ queues' = Without((w + d) % N, q)
               /\ bypassed' = [p \in Priority |->
                    IF p = q \/ ~ClassQueued(p) THEN 0 ELSE bypassed[p] + 1]
      BY <1>3 DEF Dispatch
    <2> DEFINE q == SlotFrom(cursor, m)
    <2> SUFFICES ASSUME NEW p \in Priority
                 PROVE  IF ClassQueued(p)'
                          THEN \A k \in 0 .. Cycle - 1 :
                                 WaitsFor(p, k)' => bypassed'[p] + k <= MaximumWaitingDispatches(p)
                          ELSE bypassed'[p] = 0
      BY DEF QuotaInv
    <2>2. q \in Priority /\ (w + d) % N \in Worker /\ cursor' \in 0 .. Cycle - 1
      BY WorkerFacts, CycleFacts DEF TypeOK
    <2>3. p # q => (ClassQueued(p)' <=> ClassQueued(p))
      BY <2>1, <2>2 DEF ClassQueued, TypeOK, Without
    <2>4. ASSUME NEW k \in 0 .. Cycle - 1, WaitsFor(p, k)'
          PROVE  k <= MaximumWaitingDispatches(p)
      <3>1. PICK j \in 0 .. MaximumWaitingDispatches(p) : SlotFrom(cursor', j) = p
        BY <2>2, SlotWithinBound
      <3>2. ~ (j \in 0 .. k - 1)
        BY <2>4, <3>1 DEF WaitsFor
      <3> QED
        BY <3>1, <3>2, SlotWithinBound DEF Cycle
    <2>5. CASE p = q
      <3>1. bypassed'[p] = 0
        BY <2>1, <2>5
      <3> QED
        BY <3>1, <2>4, SlotWithinBound
    <2>6. CASE p # q /\ ~ClassQueued(p)
      BY <2>1, <2>3, <2>6
    <2>7. CASE p # q /\ ClassQueued(p)
      <3>1. bypassed'[p] = bypassed[p] + 1
        BY <2>1, <2>7
      <3>2. WaitsFor(p, m + 1)
        BY <2>1, <2>7 DEF WaitsFor, ServedSlot, Cycle
      <3>3. ASSUME NEW k \in 0 .. Cycle - 1, WaitsFor(p, k)'
            PROVE  bypassed'[p] + k <= MaximumWaitingDispatches(p)
        <4>1. ASSUME NEW j \in 0 .. m + k, j \in 0 .. Cycle - 1
              PROVE  SlotFrom(cursor, j) # p
          <5>1. CASE j <= m
            BY <3>2, <4>1, <5>1 DEF WaitsFor, Cycle
          <5>2. CASE j > m
            <6>1. j - m - 1 \in 0 .. k - 1 /\ j - m - 1 \in 0 .. Cycle - 1
              BY <4>1, <5>2 DEF Cycle
            <6>2. SlotFrom(cursor', j - m - 1) = SlotFrom(cursor, m + 1 + (j - m - 1))
              BY <2>1, <6>1, SlotShift DEF TypeOK
            <6>3. m + 1 + (j - m - 1) = j
              BY <4>1
            <6> QED
              BY <3>3, <6>1, <6>2, <6>3 DEF WaitsFor
          <5> QED
            BY <4>1, <5>1, <5>2 DEF Cycle
        <4>2. m + 1 + k \in 0 .. Cycle - 1
          <5>1. PICK j \in 0 .. MaximumWaitingDispatches(p) : SlotFrom(cursor, j) = p
            BY SlotWithinBound DEF TypeOK
          <5>2. j \in 0 .. Cycle - 1
            BY <5>1, SlotWithinBound DEF Cycle
          <5>3. ~ (j \in 0 .. m + k)
            BY <4>1, <5>1, <5>2
          <5> QED
            BY <5>2, <5>3 DEF Cycle
        <4>3. WaitsFor(p, m + 1 + k)
          BY <4>1, <4>2 DEF WaitsFor, Cycle
        <4>4. bypassed[p] + (m + 1 + k) <= MaximumWaitingDispatches(p)
          BY <2>7, <4>2, <4>3 DEF QuotaInv
        <4> QED
          <5> DEFINE b == bypassed[p]
                     M == MaximumWaitingDispatches(p)
          <5>1. b \in Nat /\ M \in Nat
            <6>1. M \in 0 .. Cycle - 1
              BY SlotWithinBound DEF TypeOK
            <6>2. b \in Nat
              BY DEF TypeOK
            <6> HIDE DEF b, M
            <6> QED
              BY <6>1, <6>2 DEF Cycle
          <5>2. b + (m + 1 + k) <= M /\ m \in Nat /\ k \in Nat
            BY <4>4 DEF Cycle
          <5> HIDE DEF b, M
          <5>3. b + 1 + k <= M
            BY <5>1, <5>2
          <5> QED
            BY <3>1, <5>3 DEF b, M
      <3> QED
        BY <2>3, <2>7, <3>3
    <2> QED
      BY <2>5, <2>6, <2>7
  <1> QED
    BY <1>1, <1>2, <1>3
    DEF Next, Owner, Client, WorkerStep, Done, vars, poolVars, countVars, workerVars, jobVars,
        Spawn, BeginShutdown, NotifyShutdown, JoinWorkers, NotifyOne, Observe, DropHandle,
        Cancel, Expire, Sleep, SpuriousWake, Exit, BeginJob, RunBody, Publish,
        RecordCompletion, NotifyAll

(* For every number of workers and every stream of submissions: while a class *)
(* stays queued, at most maximum_waiting_dispatches jobs of other classes are *)
(* dispatched before one of its own, whoever owns the queues they come from.  *)
THEOREM Starvation == Spec => []StarvationBound
  <1>1. TypeOK /\ QuotaInv => StarvationBound
    <2> SUFFICES ASSUME TypeOK, QuotaInv, NEW p \in Priority, ClassQueued(p)
                 PROVE  bypassed[p] <= MaximumWaitingDispatches(p)
      BY DEF StarvationBound
    <2>1. 0 \in 0 .. Cycle - 1 /\ WaitsFor(p, 0)
      BY DEF WaitsFor, Cycle
    <2>2. bypassed[p] + 0 <= MaximumWaitingDispatches(p)
      BY <2>1 DEF QuotaInv
    <2> QED
      BY <2>2 DEF TypeOK
  <1> QED
    BY <1>1, InitQuota, StepQuota, TypeCorrect, PTL DEF Spec

-----------------------------------------------------------------------------
(* Where jobs are: the local queues, under any stealing. *)

\* No identity is queued twice, each job is in the queue of its class, and the
\* index names exactly the queued jobs.
QueueInv ==
  /\ \A v, u \in Worker, p, q \in Priority :
       \A i \in DOMAIN queues[v][p], j \in DOMAIN queues[u][q] :
         IdOf[queues[v][p][i]] = IdOf[queues[u][q][j]] => v = u /\ p = q /\ i = j
  /\ \A v \in Worker, p \in Priority :
       \A i \in DOMAIN queues[v][p] : PriorityOf[queues[v][p][i]] = p
  /\ queuedIds = {IdOf[t] : t \in QueuedTasks}

LEMMA QueuedMember ==
  \A t : t \in QueuedTasks <=>
    \E v \in Worker, p \in Priority : \E i \in DOMAIN queues[v][p] : t = queues[v][p][i]
  BY DEF QueuedTasks, QueuedIn

LEMMA QueuedAreTasks == TypeOK => QueuedTasks \subseteq Task
  <1> SUFFICES ASSUME TypeOK, NEW t \in QueuedTasks PROVE t \in Task
    OBVIOUS
  <1>1. PICK v \in Worker, p \in Priority : \E i \in DOMAIN queues[v][p] : t = queues[v][p][i]
    BY QueuedMember
  <1>2. queues[v][p] \in Seq(Task)
    BY DEF TypeOK
  <1> QED
    BY <1>1, <1>2

LEMMA AppendFacts ==
  ASSUME NEW s \in Seq(Task), NEW t \in Task
  PROVE  /\ DOMAIN Append(s, t) = DOMAIN s \cup {Len(s) + 1}
         /\ Len(s) + 1 \notin DOMAIN s
         /\ \A i \in DOMAIN s : Append(s, t)[i] = s[i]
         /\ Append(s, t)[Len(s) + 1] = t
  <1>1. Len(s) \in Nat /\ DOMAIN s = 1 .. Len(s) /\ DOMAIN Append(s, t) = 1 .. Len(s) + 1
    OBVIOUS
  <1>2. 1 .. Len(s) + 1 = (1 .. Len(s)) \cup {Len(s) + 1} /\ Len(s) + 1 \notin 1 .. Len(s)
    BY <1>1
  <1>3. Append(s, t)[Len(s) + 1] = t
    OBVIOUS
  <1>4. \A i \in 1 .. Len(s) : Append(s, t)[i] = s[i]
    OBVIOUS
  <1> QED
    BY <1>1, <1>2, <1>3, <1>4

LEMMA TailFacts ==
  ASSUME NEW s \in Seq(Task), s # << >>
  PROVE  /\ 1 \in DOMAIN s /\ s[1] = Head(s)
         /\ \A i \in DOMAIN Tail(s) : i + 1 \in DOMAIN s /\ Tail(s)[i] = s[i + 1] /\ i \in Nat \ {0}
         /\ \A i \in DOMAIN s : i # 1 => i - 1 \in DOMAIN Tail(s) /\ Tail(s)[i - 1] = s[i]
  <1>1. Len(s) \in Nat \ {0} /\ DOMAIN s = 1 .. Len(s) /\ DOMAIN Tail(s) = 1 .. Len(s) - 1
    OBVIOUS
  <1>2. s[1] = Head(s) /\ 1 \in DOMAIN s
    BY <1>1
  <1>3. \A i \in 1 .. Len(s) - 1 : Tail(s)[i] = s[i + 1]
    OBVIOUS
  <1>4. \A i \in 1 .. Len(s) - 1 : i + 1 \in 1 .. Len(s) /\ i \in Nat \ {0}
    BY <1>1
  <1>5. \A i \in 1 .. Len(s) : i # 1 => i - 1 \in 1 .. Len(s) - 1 /\ (i - 1) + 1 = i
    BY <1>1
  <1> QED
    BY <1>1, <1>2, <1>3, <1>4, <1>5

\* A submission adds its job, which was nowhere in the queues.
LEMMA SubmitQueue ==
  ASSUME TypeOK, QueueInv, NEW t \in Task, Submit(t)
  PROVE  /\ QueueInv'
         /\ t \notin QueuedTasks
         /\ QueuedTasks' = QueuedTasks \cup {t}
  <1> DEFINE w == nextOwner
             c == PriorityOf[t]
             s == queues[w][c]
  <1>1. w \in Worker /\ c \in Priority /\ s \in Seq(Task)
    BY PoolAssumption DEF TypeOK
  <1>2. /\ queues' = [queues EXCEPT ![w][c] = Append(s, t)]
        /\ queuedIds' = queuedIds \cup {IdOf[t]}
        /\ IdOf[t] \notin queuedIds
    BY DEF Submit, Admits
  <1>3. queues'[w][c] = Append(s, t)
    BY <1>1, <1>2 DEF TypeOK
  <1>4. \A v \in Worker, p \in Priority : v # w \/ p # c => queues'[v][p] = queues[v][p]
    BY <1>1, <1>2 DEF TypeOK
  <1>5. /\ DOMAIN Append(s, t) = DOMAIN s \cup {Len(s) + 1}
        /\ Len(s) + 1 \notin DOMAIN s
        /\ \A i \in DOMAIN s : Append(s, t)[i] = s[i]
        /\ Append(s, t)[Len(s) + 1] = t
    BY <1>1, AppendFacts
  <1> DEFINE last == Len(s) + 1
             a == Append(s, t)
  <1> HIDE DEF s, a, last
  <1>6. \A v \in Worker, p \in Priority : \A i \in DOMAIN queues'[v][p] :
          \/ i \in DOMAIN queues[v][p] /\ queues'[v][p][i] = queues[v][p][i]
          \/ v = w /\ p = c /\ i = last /\ queues'[v][p][i] = t
    BY <1>3, <1>4, <1>5 DEF s, a, last
  <1>7. \A v \in Worker, p \in Priority : \A i \in DOMAIN queues[v][p] :
          i \in DOMAIN queues'[v][p] /\ queues'[v][p][i] = queues[v][p][i]
    BY <1>3, <1>4, <1>5 DEF s, a, last
  <1>8. last \in DOMAIN queues'[w][c] /\ queues'[w][c][last] = t
    BY <1>3, <1>5 DEF a, last, s
  <1>9. \A v \in Worker, p \in Priority : \A i \in DOMAIN queues[v][p] : IdOf[queues[v][p][i]] # IdOf[t]
    BY <1>2, QueuedMember DEF QueueInv
  <1>10. t \notin QueuedTasks
    BY <1>2 DEF QueueInv
  <1>11. QueuedTasks' = QueuedTasks \cup {t}
    <2>1. ASSUME NEW x \in QueuedTasks' PROVE x \in QueuedTasks \cup {t}
      <3>1. PICK v \in Worker, p \in Priority : \E i \in DOMAIN queues'[v][p] : x = queues'[v][p][i]
        BY <2>1 DEF QueuedTasks, QueuedIn
      <3> QED
        BY <3>1, <1>6, QueuedMember
    <2>2. ASSUME NEW x \in QueuedTasks \cup {t} PROVE x \in QueuedTasks'
      <3>1. \E v \in Worker, p \in Priority : \E i \in DOMAIN queues'[v][p] : x = queues'[v][p][i]
        BY <2>2, <1>1, <1>7, <1>8, QueuedMember
      <3> QED
        BY <3>1 DEF QueuedTasks, QueuedIn
    <2> QED
      BY <2>1, <2>2
  <1>12. (\A v, u \in Worker, p, q \in Priority :
            \A i \in DOMAIN queues[v][p], j \in DOMAIN queues[u][q] :
              IdOf[queues[v][p][i]] = IdOf[queues[u][q][j]] => v = u /\ p = q /\ i = j)'
    BY <1>6, <1>9 DEF QueueInv
  <1>13. (\A v \in Worker, p \in Priority :
            \A i \in DOMAIN queues[v][p] : PriorityOf[queues[v][p][i]] = p)'
    BY <1>6 DEF QueueInv
  <1>14. queuedIds' = {IdOf[x] : x \in QueuedTasks'}
    BY <1>2, <1>11 DEF QueueInv
  <1> QED
    BY <1>10, <1>11, <1>12, <1>13, <1>14 DEF QueueInv

\* A dispatch takes one job out of the queues, whoever's they are.
LEMMA DispatchQueue ==
  ASSUME TypeOK, QueueInv, NEW w \in Worker, Dispatch(w)
  PROVE  /\ QueueInv'
         /\ held'[w] \in QueuedTasks
         /\ held' = [held EXCEPT ![w] = held'[w]]
         /\ QueuedTasks' = QueuedTasks \ {held'[w]}
  <1>1. PICK k \in 0 .. Cycle - 1, d \in 0 .. N - 1 :
          LET p == SlotFrom(cursor, k)
              v == (w + d) % N
              t == Head(queues[v][p])
          IN /\ Nearest(w, p, d)
             /\ queues' = Without(v, p)
             /\ queuedIds' = queuedIds \ {IdOf[t]}
             /\ held' = [held EXCEPT ![w] = t]
    BY DEF Dispatch
  <1> DEFINE c == SlotFrom(cursor, k)
             o == (w + d) % N
             s == queues[o][c]
             t == Head(s)
  <1>2. c \in Priority /\ o \in Worker
    BY WorkerFacts, CycleFacts DEF TypeOK
  <1>3. s \in Seq(Task) /\ s # << >>
    BY <1>1, <1>2 DEF TypeOK, Nearest
  <1>4. /\ queues' = [queues EXCEPT ![o][c] = Tail(s)]
        /\ queuedIds' = queuedIds \ {IdOf[t]}
        /\ held' = [held EXCEPT ![w] = t]
    BY <1>1 DEF Without
  <1> DEFINE tail == Tail(s)
  <1>5. /\ 1 \in DOMAIN s /\ s[1] = t
        /\ \A i \in DOMAIN tail : i + 1 \in DOMAIN s /\ tail[i] = s[i + 1] /\ i \in Nat \ {0}
        /\ \A i \in DOMAIN s : i # 1 => i - 1 \in DOMAIN tail /\ tail[i - 1] = s[i]
    BY <1>3, TailFacts
  <1> HIDE DEF c, o
  <1>6. queues'[o][c] = tail /\ queues[o][c] = s
    BY <1>2, <1>4 DEF TypeOK
  <1>7. \A v \in Worker, p \in Priority : v # o \/ p # c => queues'[v][p] = queues[v][p]
    BY <1>2, <1>4 DEF TypeOK
  <1> DEFINE Was(v, p, i) == IF v = o /\ p = c THEN i + 1 ELSE i
  <1> HIDE DEF s, t, tail
  <1>8. ASSUME NEW v \in Worker, NEW p \in Priority, NEW i \in DOMAIN queues'[v][p]
        PROVE  /\ Was(v, p, i) \in DOMAIN queues[v][p]
               /\ queues'[v][p][i] = queues[v][p][Was(v, p, i)]
               /\ v = o /\ p = c => i \in Nat \ {0} /\ Was(v, p, i) # 1
    <2>1. CASE v = o /\ p = c
      <3>1. i \in DOMAIN tail
        BY <2>1, <1>6
      <3>2. i + 1 \in DOMAIN s /\ tail[i] = s[i + 1] /\ i \in Nat \ {0}
        BY <3>1, <1>5
      <3>3. i + 1 # 1
        BY <3>2
      <3> QED
        BY <2>1, <3>2, <3>3, <1>6
    <2>2. CASE ~(v = o /\ p = c)
      BY <2>2, <1>7
    <2> QED
      BY <2>1, <2>2
  <1>9. ASSUME NEW v \in Worker, NEW p \in Priority, NEW i \in DOMAIN queues[v][p]
        PROVE  \/ v = o /\ p = c /\ i = 1 /\ queues[v][p][i] = t
               \/ \E j \in DOMAIN queues'[v][p] : queues'[v][p][j] = queues[v][p][i]
    <2>1. CASE v = o /\ p = c
      <3>1. i \in DOMAIN s
        BY <2>1, <1>6
      <3>2. CASE i = 1
        BY <2>1, <3>2, <1>5, <1>6
      <3>3. CASE i # 1
        <4>1. i - 1 \in DOMAIN tail /\ tail[i - 1] = s[i]
          BY <3>1, <3>3, <1>5
        <4> QED
          BY <2>1, <4>1, <1>6
      <3> QED
        BY <3>2, <3>3
    <2>2. CASE ~(v = o /\ p = c)
      BY <2>2, <1>7
    <2> QED
      BY <2>1, <2>2
  <1>10. t \in QueuedTasks
    BY <1>2, <1>5, QueuedMember DEF s
  <1>11. \A v \in Worker, p \in Priority : \A i \in DOMAIN queues[v][p] :
           IdOf[queues[v][p][i]] = IdOf[t] => v = o /\ p = c /\ i = 1
    BY <1>2, <1>5 DEF QueueInv, s
  <1>12. QueuedTasks' = QueuedTasks \ {t}
    <2>1. ASSUME NEW x \in QueuedTasks' PROVE x \in QueuedTasks \ {t}
      <3>1. PICK v \in Worker, p \in Priority : \E i \in DOMAIN queues'[v][p] : x = queues'[v][p][i]
        BY <2>1 DEF QueuedTasks, QueuedIn
      <3>2. PICK i \in DOMAIN queues'[v][p] : x = queues'[v][p][i]
        BY <3>1
      <3>3. x = queues[v][p][Was(v, p, i)] /\ Was(v, p, i) \in DOMAIN queues[v][p]
        BY <3>2, <1>8
      <3>4. x # t
        BY <3>2, <3>3, <1>8, <1>11
      <3> HIDE DEF Was
      <3> QED
        BY <3>3, <3>4, QueuedMember
    <2>2. ASSUME NEW x \in QueuedTasks \ {t} PROVE x \in QueuedTasks'
      <3>1. \E v \in Worker, p \in Priority : \E i \in DOMAIN queues'[v][p] : x = queues'[v][p][i]
        BY <2>2, <1>9, QueuedMember
      <3> QED
        BY <3>1 DEF QueuedTasks, QueuedIn
    <2> QED
      BY <2>1, <2>2
  <1>13. ASSUME NEW v \in Worker, NEW u \in Worker, NEW p \in Priority, NEW q \in Priority,
                NEW i \in DOMAIN queues'[v][p], NEW j \in DOMAIN queues'[u][q],
                IdOf[queues'[v][p][i]] = IdOf[queues'[u][q][j]]
         PROVE  v = u /\ p = q /\ i = j
    <2>1. v = u /\ p = q /\ Was(v, p, i) = Was(u, q, j)
      <3> HIDE DEF Was
      <3> QED
        BY <1>8, <1>13 DEF QueueInv
    <2> QED
      BY <1>8, <2>1
  <1>14. (\A v \in Worker, p \in Priority :
            \A i \in DOMAIN queues[v][p] : PriorityOf[queues[v][p][i]] = p)'
    <2> HIDE DEF Was
    <2> QED
      BY <1>8 DEF QueueInv
  <1>15. queuedIds' = {IdOf[x] : x \in QueuedTasks'}
    <2>1. \A x \in QueuedTasks : IdOf[x] = IdOf[t] => x = t
      BY <1>5, <1>11, QueuedMember DEF s
    <2> QED
      BY <1>4, <1>10, <1>12, <2>1 DEF QueueInv
  <1>16. held'[w] = t
    BY <1>4 DEF TypeOK
  <1> QED
    BY <1>4, <1>10, <1>12, <1>13, <1>14, <1>15, <1>16 DEF QueueInv

LEMMA QueuesKept ==
  ASSUME UNCHANGED << queues, queuedIds >>
  PROVE  QueuedTasks' = QueuedTasks /\ (QueueInv => QueueInv')
  <1>1. QueuedTasks' = QueuedTasks
    BY DEF QueuedTasks, QueuedIn
  <1> QED
    BY <1>1 DEF QueueInv

-----------------------------------------------------------------------------
(* Whose hands jobs are in. *)

\* A queued job and one in the hands of a worker has a submission without a
\* result, and such a submission is in one of these places.
HandsInv ==
  /\ \A t \in QueuedTasks : Live(t) /\ result[t] = "none"
  /\ \A w \in Worker : Executing(w) =>
       held[w] \in Task \ QueuedTasks /\ Live(held[w]) /\ result[held[w]] = "none"
  /\ \A v, w \in Worker : Executing(v) /\ Executing(w) /\ held[v] = held[w] => v = w
  /\ \A t \in Task : Live(t) /\ result[t] = "none" =>
       t \in QueuedTasks \/ \E w \in Worker : Executing(w) /\ held[w] = t
  /\ \A w \in Worker : pc[w] = "publish" => verdict[w] # "none"
  /\ \A t \in Task : ~Live(t) \/ client[t] = "dropped" => result[t] = "none"

\* What a cancellation in the queue leads to.
DoomInv ==
  /\ \A t \in Task : doomed[t] => cancelled[t] /\ Live(t) /\ result[t] \in {"none", "cancelled"}
  /\ \A w \in Worker : pc[w] = "body" => ~doomed[held[w]]
  /\ \A w \in Worker : pc[w] = "publish" /\ doomed[held[w]] => verdict[w] = "cancelled"

\* How far the owner is, and what that says of workers and clients.
OwnerInv ==
  /\ accepting <=> phase \in {"spawning", "open"}
  /\ phase = "spawning" => \A t \in Task : client[t] = "idle"
  /\ phase # "open" => \A t \in Task : client[t] # "notifying"
  /\ phase = "open" => \A w \in Worker : pc[w] # "absent"
  /\ phase = "closed" => \A w \in Worker : pc[w] \in {"absent", "exited"}
  /\ \A w \in Worker : pc[w] = "exited" => ~accepting
  /\ \A w \in Worker : pc[w] \in {"absent", "exited"} => QueuedTasks = {}

PlaceInv == HandsInv /\ DoomInv /\ OwnerInv

\* Steps that leave the jobs and the queues alone and take no worker into or out
\* of a job.
LEMMA QuietStep ==
  ASSUME PlaceInv, QueueInv, UNCHANGED << queues, queuedIds, held, verdict, jobVars >>,
         \A w \in Worker : pc'[w] # pc[w] =>
           ~Executing(w) /\ pc'[w] \notin {"begin", "body", "publish"}
  PROVE  QueueInv' /\ HandsInv' /\ DoomInv'
  <1>1. QueuedTasks' = QueuedTasks /\ QueueInv'
    BY QueuesKept
  <1>2. UNCHANGED << client, result, cancelled, doomed, held, verdict >>
    BY DEF jobVars
  <1>3. \A w \in Worker : /\ Executing(w)' <=> Executing(w)
                          /\ pc'[w] = "body" <=> pc[w] = "body"
                          /\ pc'[w] = "publish" <=> pc[w] = "publish"
    BY DEF Executing
  <1>4. \A t : Live(t)' <=> Live(t)
    BY <1>2 DEF Live
  <1> USE DEF PlaceInv
  <1>5. HandsInv'
    BY <1>1, <1>2, <1>3, <1>4 DEF HandsInv
  <1>6. DoomInv'
    BY <1>2, <1>3, <1>4 DEF DoomInv
  <1> QED
    BY <1>1, <1>5, <1>6

LEMMA InitPlace == Init => QueueInv /\ PlaceInv
  <1> SUFFICES ASSUME Init PROVE QueueInv /\ PlaceInv
    OBVIOUS
  <1>1. \A v \in Worker, p \in Priority : DOMAIN queues[v][p] = {}
    BY DEF Init
  <1>2. QueuedTasks = {}
    BY <1>1, QueuedMember
  <1>3. QueueInv
    BY <1>1, <1>2 DEF QueueInv, Init
  <1>4. HandsInv /\ DoomInv /\ OwnerInv
    BY <1>2 DEF HandsInv, DoomInv, OwnerInv, Init, Live, Executing
  <1> QED
    BY <1>3, <1>4 DEF PlaceInv

\* The owner's steps.
LEMMA OwnerPlace ==
  ASSUME TypeOK, QueueInv, PlaceInv, Owner
  PROVE  QueueInv' /\ PlaceInv'
  <1> USE DEF poolVars, workerVars
  <1>1. ASSUME NEW w \in Worker, Spawn(w) PROVE QueueInv' /\ PlaceInv'
    <2>1. QueueInv' /\ HandsInv' /\ DoomInv'
      BY <1>1, QuietStep DEF Spawn, TypeOK, Executing
    <2>2. QueuedTasks' = QueuedTasks
      BY <1>1, QueuesKept DEF Spawn
    <2>3. QueuedTasks = {}
      BY <1>1, QueuedAreTasks DEF Spawn, PlaceInv, OwnerInv, HandsInv, Live
    <2>4. \A v \in Worker : v = w \/ v \in 0 .. w - 1 \/ w # N - 1
      BY PoolAssumption DEF Worker
    <2>5. OwnerInv'
      BY <1>1, <2>2, <2>3, <2>4 DEF Spawn, PlaceInv, OwnerInv, TypeOK, jobVars
    <2> QED
      BY <2>1, <2>5 DEF PlaceInv
  <1>2. CASE BeginShutdown
    <2>1. QueueInv' /\ HandsInv' /\ DoomInv'
      BY <1>2, QuietStep DEF BeginShutdown
    <2>2. QueuedTasks' = QueuedTasks
      BY <1>2, QueuesKept DEF BeginShutdown
    <2>3. OwnerInv'
      BY <1>2, <2>2 DEF BeginShutdown, PlaceInv, OwnerInv, jobVars
    <2> QED
      BY <2>1, <2>3 DEF PlaceInv
  <1>3. CASE NotifyShutdown
    <2>1. QueueInv' /\ HandsInv' /\ DoomInv'
      BY <1>3, QuietStep DEF NotifyShutdown, WakeAll, Executing
    <2>2. QueuedTasks' = QueuedTasks
      BY <1>3, QueuesKept DEF NotifyShutdown
    <2>3. OwnerInv'
      BY <1>3, <2>2 DEF NotifyShutdown, WakeAll, PlaceInv, OwnerInv, jobVars
    <2> QED
      BY <2>1, <2>3 DEF PlaceInv
  <1>4. CASE JoinWorkers
    <2>1. QueueInv' /\ HandsInv' /\ DoomInv'
      BY <1>4, QuietStep DEF JoinWorkers
    <2>2. QueuedTasks' = QueuedTasks
      BY <1>4, QueuesKept DEF JoinWorkers
    <2>3. OwnerInv'
      BY <1>4, <2>2 DEF JoinWorkers, PlaceInv, OwnerInv, jobVars
    <2> QED
      BY <2>1, <2>3 DEF PlaceInv
  <1> QED
    BY <1>1, <1>2, <1>3, <1>4 DEF Owner

\* A submission over: its handle is spent and everything about it reset.
LEMMA ReleaseFacts ==
  ASSUME TypeOK, NEW t \in Task, Release(t)
  PROVE  /\ \A u \in Task : u # t => /\ Live(u)' <=> Live(u)
                                     /\ client'[u] = client[u] /\ result'[u] = result[u]
                                     /\ cancelled'[u] = cancelled[u] /\ doomed'[u] = doomed[u]
         /\ client'[t] \in {"idle", "spent"} /\ ~Live(t)'
         /\ result'[t] = "none" /\ ~doomed'[t]
  BY DEF TypeOK, Release, Retired, Live

\* The submission of a job that is nowhere any more may go.
LEMMA ReleasePlace ==
  ASSUME TypeOK, QueueInv, PlaceInv, NEW t \in Task, Release(t),
         UNCHANGED << queues, queuedIds, pc, held, verdict, phase, accepting >>,
         result[t] # "none"
  PROVE  QueueInv' /\ PlaceInv'
  <1>1. QueuedTasks' = QueuedTasks /\ QueueInv'
    BY QueuesKept
  <1>2. \A w \in Worker : /\ Executing(w)' <=> Executing(w)
                          /\ Executing(w) => held[w] # t /\ held[w] \in Task
    BY DEF PlaceInv, HandsInv, Executing
  <1>3. t \notin QueuedTasks /\ QueuedTasks \subseteq Task
    BY QueuedAreTasks DEF PlaceInv, HandsInv
  <1>4. HandsInv'
    BY <1>1, <1>2, <1>3, ReleaseFacts DEF PlaceInv, HandsInv
  <1>5. DoomInv'
    BY <1>2, ReleaseFacts DEF PlaceInv, DoomInv, Executing
  <1>6. OwnerInv'
    <2>1. \A u \in Task : client'[u] # "notifying" \/ client'[u] = client[u]
      BY ReleaseFacts
    <2>2. phase # "spawning"
      BY DEF PlaceInv, OwnerInv, HandsInv, Live
    <2> QED
      BY <1>1, <2>1, <2>2 DEF PlaceInv, OwnerInv
  <1> QED
    BY <1>1, <1>4, <1>5, <1>6 DEF PlaceInv

\* The clients' steps.
LEMMA ClientPlace ==
  ASSUME TypeOK, QueueInv, PlaceInv, NEW t \in Task, Client(t)
  PROVE  QueueInv' /\ PlaceInv'
  <1> USE DEF poolVars, workerVars
  <1>0. QueuedTasks \subseteq Task
    BY QueuedAreTasks
  <1>1. CASE Submit(t)
    <2>1. QueueInv' /\ t \notin QueuedTasks /\ QueuedTasks' = QueuedTasks \cup {t}
      BY <1>1, SubmitQueue
    <2>2. /\ UNCHANGED << pc, held, verdict, result, cancelled, doomed, phase, accepting >>
          /\ client' = [client EXCEPT ![t] = "notifying"]
          /\ phase = "open" /\ client[t] = "idle"
      BY <1>1 DEF Submit
    <2>3. \A u \in Task : /\ u # t => client'[u] = client[u] /\ (Live(u)' <=> Live(u))
                          /\ u = t => client'[u] = "notifying" /\ Live(u)' /\ ~Live(u)
      BY <2>2 DEF TypeOK, Live
    <2>4. \A w \in Worker : /\ Executing(w)' <=> Executing(w)
                            /\ Executing(w) => held[w] # t /\ held[w] \in Task
      BY <2>2, <2>3 DEF PlaceInv, HandsInv, Executing
    <2>5. HandsInv'
      BY <2>1, <2>2, <2>3, <2>4, <1>0 DEF PlaceInv, HandsInv
    <2>6. DoomInv'
      BY <2>2, <2>3 DEF PlaceInv, DoomInv
    <2>7. OwnerInv'
      BY <2>1, <2>2, <2>3 DEF PlaceInv, OwnerInv
    <2> QED
      BY <2>1, <2>5, <2>6, <2>7 DEF PlaceInv
  <1>2. CASE NotifyOne(t)
    <2>1. /\ UNCHANGED << queues, queuedIds, held, verdict, result, cancelled, doomed, phase, accepting >>
          /\ client' = [client EXCEPT ![t] = "holding"]
          /\ client[t] = "notifying"
          /\ \A w \in Worker : pc'[w] # pc[w] => pc[w] = "waiting" /\ pc'[w] = "scan"
      BY <1>2 DEF NotifyOne, WakeOne, TypeOK
    <2>2. \A u \in Task : /\ u # t => client'[u] = client[u]
                          /\ u = t => client'[u] = "holding" /\ client[u] = "notifying"
                          /\ Live(u)' <=> Live(u)
      BY <2>1 DEF TypeOK, Live
    <2>3. \A w \in Worker : /\ Executing(w)' <=> Executing(w)
                            /\ pc'[w] = "body" <=> pc[w] = "body"
                            /\ pc'[w] = "publish" <=> pc[w] = "publish"
                            /\ pc'[w] = "absent" <=> pc[w] = "absent"
                            /\ pc'[w] = "exited" <=> pc[w] = "exited"
      BY <2>1 DEF Executing
    <2>4. QueuedTasks' = QueuedTasks /\ QueueInv'
      BY <2>1, QueuesKept
    <2>5. HandsInv'
      BY <2>1, <2>2, <2>3, <2>4, <1>0 DEF PlaceInv, HandsInv
    <2>6. DoomInv'
      BY <2>1, <2>2, <2>3 DEF PlaceInv, DoomInv
    <2>7. OwnerInv'
      BY <2>1, <2>2, <2>3, <2>4 DEF PlaceInv, OwnerInv
    <2> QED
      BY <2>4, <2>5, <2>6, <2>7 DEF PlaceInv
  <1>3. CASE Observe(t)
    BY <1>3, ReleasePlace DEF Observe
  <1>4. CASE DropHandle(t) /\ result[t] # "none"
    BY <1>4, ReleasePlace DEF DropHandle
  <1>5. CASE DropHandle(t) /\ result[t] = "none"
    <2>1. /\ UNCHANGED << queues, queuedIds, pc, held, verdict, result, cancelled, doomed, phase, accepting >>
          /\ client' = [client EXCEPT ![t] = "dropped"]
          /\ client[t] = "holding"
      BY <1>5 DEF DropHandle
    <2>2. \A u \in Task : /\ u # t => client'[u] = client[u]
                          /\ u = t => client'[u] = "dropped" /\ client[u] = "holding"
                          /\ Live(u)' <=> Live(u)
      BY <2>1 DEF TypeOK, Live
    <2>3. \A w \in Worker : Executing(w)' <=> Executing(w)
      BY <2>1 DEF Executing
    <2>4. QueuedTasks' = QueuedTasks /\ QueueInv'
      BY <2>1, QueuesKept
    <2>5. HandsInv'
      BY <1>5, <2>1, <2>2, <2>3, <2>4, <1>0 DEF PlaceInv, HandsInv
    <2>6. DoomInv'
      BY <2>1, <2>2 DEF PlaceInv, DoomInv
    <2>7. OwnerInv'
      BY <2>1, <2>2, <2>4 DEF PlaceInv, OwnerInv
    <2> QED
      BY <2>4, <2>5, <2>6, <2>7 DEF PlaceInv
  <1>6. CASE Cancel(t) \/ Expire(t)
    <2>1. /\ UNCHANGED << queues, queuedIds, pc, held, verdict, client, result, phase, accepting >>
          /\ \A u \in Task : u # t => cancelled'[u] = cancelled[u] /\ doomed'[u] = doomed[u]
          /\ \/ cancelled'[t] = cancelled[t] /\ doomed'[t] = doomed[t]
             \/ /\ cancelled'[t] = TRUE /\ Live(t)
                /\ doomed'[t] = (t \in QueuedTasks)
      BY <1>6 DEF Cancel, Expire, TypeOK
    <2>2. QueuedTasks' = QueuedTasks /\ QueueInv'
      BY <2>1, QueuesKept
    <2>3. /\ \A u \in Task : Live(u)' <=> Live(u)
          /\ \A w \in Worker : Executing(w)' <=> Executing(w)
      BY <2>1 DEF Executing, Live
    <2>4. HandsInv'
      BY <2>1, <2>2, <2>3, <1>0 DEF PlaceInv, HandsInv
    <2>5. \A w \in Worker : Executing(w) => held[w] \in Task \ QueuedTasks
      BY DEF PlaceInv, HandsInv
    <2>6. \A u \in Task : doomed'[u] => doomed[u] \/ u \in QueuedTasks
      BY <2>1
    <2>7. \A u \in QueuedTasks : result[u] = "none"
      BY DEF PlaceInv, HandsInv
    <2>8. DoomInv'
      <3>1. \A u \in Task : doomed'[u] => cancelled'[u] /\ Live(u)' /\ result'[u] \in {"none", "cancelled"}
        BY <2>1, <2>3, <2>7 DEF PlaceInv, DoomInv
      <3>2. \A w \in Worker : Executing(w) => (doomed'[held[w]] => doomed[held[w]])
        BY <2>5, <2>6
      <3> QED
        BY <2>1, <3>1, <3>2 DEF PlaceInv, DoomInv, Executing
    <2>9. OwnerInv'
      BY <2>1, <2>2 DEF PlaceInv, OwnerInv
    <2> QED
      BY <2>2, <2>4, <2>8, <2>9 DEF PlaceInv
  <1> QED
    BY <1>1, <1>2, <1>3, <1>4, <1>5, <1>6 DEF Client, DropHandle

\* A worker that is in the pool moves on; the owner and the clients do not notice.
LEMMA WorkerOwner ==
  ASSUME TypeOK, PlaceInv, NEW w \in Worker,
         UNCHANGED << phase, accepting >>, QueuedTasks' \subseteq QueuedTasks,
         \A t \in Task : client'[t] = client[t] \/ (client[t] # "idle" /\ client'[t] \in {"idle", "spent"}),
         pc[w] \notin {"absent", "exited"},
         pc'[w] = "absent" => FALSE, pc'[w] = "exited" => ~accepting /\ QueuedTasks = {},
         \A v \in Worker : v # w => \/ pc'[v] = pc[v]
                                    \/ pc[v] = "waiting" /\ pc'[v] = "scan"
  PROVE  OwnerInv'
  <1> USE DEF PlaceInv
  <1>1. \A v \in Worker : pc'[v] # "absent" \/ (pc[v] = "absent" /\ v # w)
    OBVIOUS
  <1>2. \A v \in Worker : pc'[v] = "exited" => pc[v] = "exited" \/ (~accepting /\ QueuedTasks = {})
    OBVIOUS
  <1>3. phase # "closed"
    BY DEF OwnerInv
  <1>4. phase = "spawning" => \A t \in Task : client'[t] = "idle"
    BY DEF OwnerInv
  <1>5. phase # "open" => \A t \in Task : client'[t] # "notifying"
    BY DEF OwnerInv
  <1> QED
    BY <1>1, <1>2, <1>3, <1>4, <1>5 DEF OwnerInv

LEMMA NothingQueued ==
  ASSUME TypeOK, QueueInv, NothingToTake
  PROVE  QueuedTasks = {}
  <1>1. CASE queuedIds = {}
    BY <1>1 DEF QueueInv
  <1>2. CASE \A p \in Priority : ~ClassQueued(p)
    <2>1. \A v \in Worker, p \in Priority : DOMAIN queues[v][p] = {}
      BY <1>2 DEF ClassQueued
    <2> QED
      BY <2>1, QueuedMember
  <1> QED
    BY <1>1, <1>2 DEF NothingToTake

\* The workers' steps.
LEMMA WorkerPlace ==
  ASSUME TypeOK, QueueInv, PlaceInv, NEW w \in Worker, WorkerStep(w) \/ SpuriousWake(w)
  PROVE  QueueInv' /\ PlaceInv'
  <1> USE DEF poolVars
  <1>0. QueuedTasks \subseteq Task
    BY QueuedAreTasks
  <1>1. CASE Dispatch(w)
    <2> DEFINE t == held'[w]
    <2>1. /\ QueueInv' /\ t \in QueuedTasks
          /\ held' = [held EXCEPT ![w] = t]
          /\ QueuedTasks' = QueuedTasks \ {t}
      BY <1>1, DispatchQueue
    <2>2. /\ UNCHANGED << verdict, client, result, cancelled, doomed, phase, accepting >>
          /\ pc[w] = "scan" /\ pc' = [pc EXCEPT ![w] = "begin"]
      BY <1>1 DEF Dispatch, jobVars
    <2> HIDE DEF t
    <2>3. /\ \A v \in Worker : v # w => pc'[v] = pc[v] /\ held'[v] = held[v] /\ (Executing(v)' <=> Executing(v))
          /\ Executing(w)' /\ ~Executing(w) /\ pc'[w] = "begin" /\ held'[w] = t
      BY <2>1, <2>2 DEF TypeOK, Executing
    <2>4. \A u : Live(u)' <=> Live(u)
      BY <2>2 DEF Live
    <2>5. HandsInv'
      <3>1. \A v \in Worker : Executing(v) => held[v] # t
        BY <2>1 DEF PlaceInv, HandsInv
      <3>2. (\A v \in Worker : Executing(v) =>
               held[v] \in Task \ QueuedTasks /\ Live(held[v]) /\ result[held[v]] = "none")'
        BY <1>0, <2>1, <2>2, <2>3, <2>4 DEF PlaceInv, HandsInv
      <3>3. (\A v, u \in Worker : Executing(v) /\ Executing(u) /\ held[v] = held[u] => v = u)'
        BY <2>3, <3>1 DEF PlaceInv, HandsInv
      <3>4. (\A u \in Task : Live(u) /\ result[u] = "none" =>
               u \in QueuedTasks \/ \E v \in Worker : Executing(v) /\ held[v] = u)'
        BY <2>1, <2>2, <2>3, <2>4 DEF PlaceInv, HandsInv
      <3>5. (\A u \in QueuedTasks : Live(u) /\ result[u] = "none")'
        BY <2>1, <2>2, <2>4 DEF PlaceInv, HandsInv
      <3>6. \A v \in Worker : pc'[v] = "publish" => verdict'[v] # "none"
        BY <2>2, <2>3 DEF PlaceInv, HandsInv
      <3>7. (\A u \in Task : ~Live(u) \/ client[u] = "dropped" => result[u] = "none")'
        BY <2>2, <2>4 DEF PlaceInv, HandsInv
      <3> QED
        BY <3>2, <3>3, <3>4, <3>5, <3>6, <3>7 DEF HandsInv
    <2>6. DoomInv'
      BY <2>2, <2>3, <2>4 DEF PlaceInv, DoomInv
    <2>7. OwnerInv'
      BY <2>1, <2>2, <2>3, WorkerOwner
    <2> QED
      BY <2>1, <2>5, <2>6, <2>7 DEF PlaceInv
  <1>2. CASE Sleep(w) \/ Exit(w) \/ SpuriousWake(w)
    <2>1. /\ UNCHANGED << queues, queuedIds, held, verdict, jobVars, phase, accepting >>
          /\ pc[w] \in {"scan", "waiting"} /\ pc'[w] \in {"scan", "waiting", "exited"}
          /\ pc'[w] = "exited" => ~accepting /\ NothingToTake
          /\ \A v \in Worker : v # w => pc'[v] = pc[v]
      BY <1>2 DEF Sleep, Exit, SpuriousWake, TypeOK
    <2>2. QueueInv' /\ HandsInv' /\ DoomInv'
      BY <2>1, QuietStep DEF Executing
    <2>3. QueuedTasks' = QueuedTasks
      BY <2>1, QueuesKept
    <2>4. OwnerInv'
      BY <2>1, <2>3, NothingQueued, WorkerOwner DEF jobVars
    <2> QED
      BY <2>2, <2>4 DEF PlaceInv
  <1>3. CASE BeginJob(w) \/ RunBody(w)
    <2>1. /\ UNCHANGED << queues, queuedIds, held, client, result, cancelled, doomed, phase, accepting >>
          /\ pc[w] \in {"begin", "body"} /\ pc'[w] \in {"body", "publish"}
          /\ \A v \in Worker : v # w => pc'[v] = pc[v] /\ verdict'[v] = verdict[v]
          /\ pc'[w] = "publish" => verdict'[w] # "none"
          /\ pc[w] = "begin" /\ cancelled[held[w]] => pc'[w] = "publish" /\ verdict'[w] = "cancelled"
      BY <1>3 DEF BeginJob, RunBody, TypeOK, Interruption, OutcomeOf, jobVars
    <2>2. pc[w] = "body" => pc'[w] = "publish"
      BY <1>3 DEF BeginJob, RunBody, TypeOK
    <2>3. QueuedTasks' = QueuedTasks /\ QueueInv'
      BY <2>1, QueuesKept
    <2>4. /\ \A v \in Worker : Executing(v)' <=> Executing(v)
          /\ Executing(w)
          /\ \A u : Live(u)' <=> Live(u)
      BY <2>1 DEF Executing, Live
    <2>5. HandsInv'
      BY <2>1, <2>3, <2>4 DEF PlaceInv, HandsInv
    <2>6. held[w] \in Task
      BY <2>4 DEF PlaceInv, HandsInv
    <2>7. DoomInv'
      BY <2>1, <2>2, <2>4, <2>6 DEF PlaceInv, DoomInv
    <2>8. OwnerInv'
      BY <2>1, <2>3, WorkerOwner
    <2> QED
      BY <2>3, <2>5, <2>7, <2>8 DEF PlaceInv
  <1>4. CASE Publish(w)
    <2>1. /\ UNCHANGED << queues, queuedIds, phase, accepting >>
          /\ pc[w] = "publish"
          /\ pc'[w] = "retire"
          /\ \A v \in Worker : v # w => pc'[v] = pc[v] /\ verdict'[v] = verdict[v] /\ held'[v] = held[v]
      BY <1>4 DEF Publish, TypeOK
    <2>2. QueuedTasks' = QueuedTasks /\ QueueInv'
      BY <2>1, QueuesKept
    <2>3. /\ \A v \in Worker : v # w => (Executing(v)' <=> Executing(v))
          /\ Executing(w) /\ ~Executing(w)'
      BY <2>1 DEF Executing
    <2>4. PICK t \in Task : /\ t = held[w] /\ t \notin QueuedTasks
                           /\ Live(t) /\ result[t] = "none" /\ verdict[w] # "none"
      BY <2>1, <2>3 DEF PlaceInv, HandsInv
    <2>5. \A u \in Task : u # t => /\ client'[u] = client[u] /\ result'[u] = result[u]
                                   /\ cancelled'[u] = cancelled[u] /\ doomed'[u] = doomed[u]
                                   /\ Live(u)' <=> Live(u)
      BY <1>4, <2>4, ReleaseFacts DEF Publish, TypeOK, Live
    <2>6. \/ /\ client[t] = "dropped" /\ client'[t] \in {"idle", "spent"} /\ ~Live(t)'
             /\ result'[t] = "none" /\ ~doomed'[t]
          \/ /\ client[t] # "dropped" /\ client'[t] = client[t] /\ Live(t)'
             /\ result'[t] = verdict[w] /\ cancelled'[t] = cancelled[t] /\ doomed'[t] = doomed[t]
      BY <1>4, <2>4, ReleaseFacts DEF Publish, TypeOK, Live
    <2>7. \A v \in Worker : v # w /\ Executing(v) => held[v] \in Task /\ held[v] # t
      BY <2>3, <2>4 DEF PlaceInv, HandsInv
    <2>8. HandsInv'
      <3>1. (\A u \in QueuedTasks : Live(u) /\ result[u] = "none")'
        BY <1>0, <2>2, <2>4, <2>5 DEF PlaceInv, HandsInv
      <3>2. (\A v \in Worker : Executing(v) =>
               held[v] \in Task \ QueuedTasks /\ Live(held[v]) /\ result[held[v]] = "none")'
        BY <2>1, <2>2, <2>3, <2>5, <2>7 DEF PlaceInv, HandsInv
      <3>3. (\A v, u \in Worker : Executing(v) /\ Executing(u) /\ held[v] = held[u] => v = u)'
        BY <2>1, <2>3 DEF PlaceInv, HandsInv
      <3>4. (\A u \in Task : Live(u) /\ result[u] = "none" =>
               u \in QueuedTasks \/ \E v \in Worker : Executing(v) /\ held[v] = u)'
        <4>1. ~(Live(t) /\ result[t] = "none")'
          BY <2>4, <2>6
        <4>2. ASSUME NEW u \in Task, u # t, (Live(u) /\ result[u] = "none")'
              PROVE  u \in QueuedTasks \/ \E v \in Worker : Executing(v)' /\ held'[v] = u
          <5>1. u \in QueuedTasks \/ \E v \in Worker : Executing(v) /\ held[v] = u
            BY <4>2, <2>5 DEF PlaceInv, HandsInv
          <5> QED
            BY <4>2, <5>1, <2>1, <2>2, <2>3, <2>4
        <4> QED
          BY <4>1, <4>2, <2>2
      <3>5. \A v \in Worker : pc'[v] = "publish" => verdict'[v] # "none"
        BY <2>1 DEF PlaceInv, HandsInv
      <3>6. (\A u \in Task : ~Live(u) \/ client[u] = "dropped" => result[u] = "none")'
        BY <2>5, <2>6 DEF PlaceInv, HandsInv
      <3> QED
        BY <3>1, <3>2, <3>3, <3>4, <3>5, <3>6 DEF HandsInv
    <2>9. DoomInv'
      <3>1. doomed[t] => verdict[w] = "cancelled"
        BY <2>1, <2>4 DEF PlaceInv, DoomInv
      <3>2. \A u \in Task : doomed'[u] => cancelled'[u] /\ Live(u)' /\ result'[u] \in {"none", "cancelled"}
        BY <2>4, <2>5, <2>6, <3>1 DEF PlaceInv, DoomInv
      <3>3. \A v \in Worker : v # w /\ Executing(v) => doomed'[held'[v]] = doomed[held[v]]
        BY <2>1, <2>5, <2>7
      <3> QED
        BY <2>1, <3>2, <3>3 DEF PlaceInv, DoomInv, Executing
    <2>10. \A u \in Task : client'[u] = client[u] \/ (client[u] # "idle" /\ client'[u] \in {"idle", "spent"})
      BY <2>5, <2>6
    <2>11. OwnerInv'
      BY <2>1, <2>2, <2>10, WorkerOwner
    <2> QED
      BY <2>2, <2>8, <2>9, <2>11 DEF PlaceInv
  <1>5. CASE RecordCompletion(w) \/ NotifyAll(w)
    <2>1. /\ UNCHANGED << queues, queuedIds, held, verdict, jobVars, phase, accepting >>
          /\ pc[w] \in {"retire", "notify"} /\ pc'[w] \in {"notify", "scan"}
          /\ \A v \in Worker : v # w => pc'[v] = pc[v] \/ (pc[v] = "waiting" /\ pc'[v] = "scan")
      BY <1>5 DEF RecordCompletion, NotifyAll, TypeOK
    <2>2. QueueInv' /\ HandsInv' /\ DoomInv'
      BY <2>1, QuietStep DEF Executing
    <2>3. QueuedTasks' = QueuedTasks
      BY <2>1, QueuesKept
    <2>4. OwnerInv'
      BY <2>1, <2>3, WorkerOwner DEF jobVars
    <2> QED
      BY <2>2, <2>4 DEF PlaceInv
  <1> QED
    BY <1>1, <1>2, <1>3, <1>4, <1>5 DEF WorkerStep

LEMMA StepPlace == TypeOK /\ QueueInv /\ PlaceInv /\ [Next]_vars => QueueInv' /\ PlaceInv'
  <1> SUFFICES ASSUME TypeOK, QueueInv, PlaceInv, [Next]_vars PROVE QueueInv' /\ PlaceInv'
    OBVIOUS
  <1>1. CASE Owner
    BY <1>1, OwnerPlace
  <1>2. CASE \E t \in Task : Client(t)
    BY <1>2, ClientPlace
  <1>3. CASE \E w \in Worker : WorkerStep(w) \/ SpuriousWake(w)
    BY <1>3, WorkerPlace
  <1>4. CASE UNCHANGED vars
    <2>1. UNCHANGED << queues, queuedIds, held, verdict, jobVars, pc, phase, accepting >>
      BY <1>4 DEF vars, poolVars, workerVars
    <2>2. QueueInv' /\ HandsInv' /\ DoomInv' /\ QueuedTasks' = QueuedTasks
      BY <2>1, QuietStep, QueuesKept
    <2>3. OwnerInv'
      BY <2>1, <2>2 DEF PlaceInv, OwnerInv, jobVars
    <2> QED
      BY <2>2, <2>3 DEF PlaceInv
  <1> QED
    BY <1>1, <1>2, <1>3, <1>4 DEF Next, Done

-----------------------------------------------------------------------------
(* The count of active workers. *)

CountedWorkers == {w \in Worker : Counted(w)}

CountInv == active = Cardinality(CountedWorkers)

LEMMA CountedFinite == IsFiniteSet(CountedWorkers)
  <1>1. IsFiniteSet(Worker)
    BY PoolAssumption, FS_Interval DEF Worker
  <1> QED
    BY <1>1, FS_Subset DEF CountedWorkers

LEMMA CountKept ==
  ASSUME CountInv, active' = active, \A w \in Worker : Counted(w)' <=> Counted(w)
  PROVE  CountInv'
  <1>1. CountedWorkers' = CountedWorkers
    BY DEF CountedWorkers
  <1> QED
    BY <1>1 DEF CountInv

LEMMA InitCount == Init => CountInv
  <1> SUFFICES ASSUME Init PROVE CountInv
    OBVIOUS
  <1>1. CountedWorkers = {}
    BY DEF CountedWorkers, Counted, Init
  <1> QED
    BY <1>1, FS_EmptySet DEF CountInv, Init

LEMMA StepCount == TypeOK /\ CountInv /\ [Next]_vars => CountInv'
  <1> SUFFICES ASSUME TypeOK, CountInv, [Next]_vars PROVE CountInv'
    OBVIOUS
  <1> USE DEF poolVars, workerVars
  <1>1. ASSUME NEW w \in Worker, Dispatch(w) PROVE CountInv'
    <2>1. w \notin CountedWorkers
      BY <1>1 DEF CountedWorkers, Counted, Dispatch
    <2>2. CountedWorkers' = CountedWorkers \cup {w}
      BY <1>1 DEF CountedWorkers, Counted, Dispatch, TypeOK
    <2>3. Cardinality(CountedWorkers') = Cardinality(CountedWorkers) + 1
      BY <2>1, <2>2, CountedFinite, FS_AddElement
    <2> QED
      BY <1>1, <2>3 DEF CountInv, Dispatch
  <1>2. ASSUME NEW w \in Worker, RecordCompletion(w) PROVE CountInv'
    <2>1. w \in CountedWorkers
      BY <1>2 DEF CountedWorkers, Counted, RecordCompletion
    <2>2. CountedWorkers' = CountedWorkers \ {w}
      BY <1>2 DEF CountedWorkers, Counted, RecordCompletion, TypeOK
    <2>3. Cardinality(CountedWorkers') = Cardinality(CountedWorkers) - 1
      BY <2>1, <2>2, CountedFinite, FS_RemoveElement
    <2>4. Cardinality(CountedWorkers) \in Nat /\ Cardinality(CountedWorkers) # 0
      BY <2>1, CountedFinite, FS_CardinalityType, FS_EmptySet
    <2> QED
      BY <1>2, <2>3, <2>4 DEF CountInv, RecordCompletion, ActiveAfterCompletion
  <1>3. CASE Owner
    <2>1. active' = active
      BY <1>3 DEF Owner, Spawn, BeginShutdown, NotifyShutdown, JoinWorkers
    <2>2. \A w \in Worker : Counted(w)' <=> Counted(w)
      BY <1>3 DEF Owner, Spawn, BeginShutdown, NotifyShutdown, JoinWorkers, WakeAll, Counted, TypeOK
    <2> QED
      BY <2>1, <2>2, CountKept
  <1>4. ASSUME NEW t \in Task, Client(t) PROVE CountInv'
    <2>1. active' = active
      BY <1>4 DEF Client, Submit, NotifyOne, Observe, DropHandle, Cancel, Expire
    <2>2. \A w \in Worker : pc'[w] = pc[w] \/ (pc[w] = "waiting" /\ pc'[w] = "scan")
      BY <1>4 DEF Client, Submit, NotifyOne, WakeOne, Observe, DropHandle, Cancel, Expire, TypeOK
    <2>3. \A w \in Worker : Counted(w)' <=> Counted(w)
      BY <2>2 DEF Counted
    <2> QED
      BY <2>1, <2>3, CountKept
  <1>5. ASSUME NEW w \in Worker,
               Sleep(w) \/ Exit(w) \/ BeginJob(w) \/ RunBody(w) \/ Publish(w) \/ NotifyAll(w) \/ SpuriousWake(w)
        PROVE  CountInv'
    <2>1. active' = active
      BY <1>5 DEF Sleep, Exit, BeginJob, RunBody, Publish, NotifyAll, SpuriousWake
    <2>2. \A v \in Worker : Counted(v)' <=> Counted(v)
      BY <1>5 DEF Sleep, Exit, BeginJob, RunBody, Publish, NotifyAll, SpuriousWake, Counted, TypeOK
    <2> QED
      BY <2>1, <2>2, CountKept
  <1>6. CASE UNCHANGED vars
    BY <1>6, CountKept DEF vars, Counted
  <1> QED
    BY <1>1, <1>2, <1>3, <1>4, <1>5, <1>6 DEF Next, WorkerStep, Done

-----------------------------------------------------------------------------
(* What follows for the clients. *)

\* The places of jobs, inductively.
LEMMA PlaceInductive == Spec => [](QueueInv /\ PlaceInv)
  <1> QED
    BY InitPlace, StepPlace, TypeCorrect, PTL DEF Spec

\* No accepted job is lost, held twice or run twice; the index, the queues and
\* the classes agree (pool.rs next_job_for, record_dispatch).
THEOREM OnePlace == Spec => []ExactlyOnePlace
  <1>1. TypeOK /\ QueueInv /\ PlaceInv => ExactlyOnePlace
    <2> SUFFICES ASSUME TypeOK, QueueInv, HandsInv PROVE ExactlyOnePlace
      BY DEF PlaceInv
    <2>0. QueuedTasks \subseteq Task
      BY QueuedAreTasks
    <2>1. \A t \in Task : (Live(t) /\ result[t] = "none") <=> t \in QueuedTasks \cup HeldTasks
      BY <2>0 DEF HandsInv, HeldTasks
    <2>2. QueuedTasks \cap HeldTasks = {}
      BY DEF HandsInv, HeldTasks
    <2>3. \A v, w \in Worker : (Executing(v) /\ Executing(w) /\ held[v] = held[w]) => v = w
      BY DEF HandsInv
    <2>4. \A x \in Places : /\ x[1] \in Worker /\ x[2] \in Priority /\ x[3] \in DOMAIN queues[x[1]][x[2]]
                            /\ x = << x[1], x[2], x[3] >>
      <3> SUFFICES ASSUME NEW x \in Places
                   PROVE  /\ x[1] \in Worker /\ x[2] \in Priority /\ x[3] \in DOMAIN queues[x[1]][x[2]]
                          /\ x = << x[1], x[2], x[3] >>
        OBVIOUS
      <3>1. PICK v \in Worker, p \in Priority, i \in 1 .. Cardinality(Task) : x = << v, p, i >>
        BY DEF Places
      <3>2. x[3] \in DOMAIN queues[x[1]][x[2]]
        BY DEF Places
      <3>3. x[1] = v /\ x[2] = p /\ x[3] = i
        BY <3>1
      <3> QED
        BY <3>1, <3>2, <3>3
    <2>5. ASSUME NEW x \in Places, NEW y \in Places, IdOf[TaskAt(x)] = IdOf[TaskAt(y)] PROVE x = y
      <3>1. /\ x[1] \in Worker /\ x[2] \in Priority /\ x[3] \in DOMAIN queues[x[1]][x[2]]
            /\ y[1] \in Worker /\ y[2] \in Priority /\ y[3] \in DOMAIN queues[y[1]][y[2]]
        BY <2>4
      <3>2. IdOf[queues[x[1]][x[2]][x[3]]] = IdOf[queues[y[1]][y[2]][y[3]]]
        BY <2>5 DEF TaskAt
      <3>3. x[1] = y[1] /\ x[2] = y[2] /\ x[3] = y[3]
        BY <3>1, <3>2 DEF QueueInv
      <3>4. x = << x[1], x[2], x[3] >> /\ y = << y[1], y[2], y[3] >>
        BY <2>4
      <3> QED
        BY <3>3, <3>4
    <2>6. \A x \in Places : PriorityOf[TaskAt(x)] = x[2]
      BY <2>4 DEF QueueInv, TaskAt
    <2> QED
      BY <2>1, <2>2, <2>3, <2>5, <2>6 DEF ExactlyOnePlace, QueueInv
  <1> QED
    BY <1>1, PlaceInductive, TypeCorrect, PTL

\* A job cancelled in the queue never runs its closure (pool.rs worker_loop,
\* begin_job), whichever worker takes it.
THEOREM CancelledNeverRuns == Spec => []CancelledWhileQueuedNeverRuns
  <1>1. PlaceInv => CancelledWhileQueuedNeverRuns
    BY DEF PlaceInv, DoomInv, CancelledWhileQueuedNeverRuns
  <1> QED
    BY <1>1, PlaceInductive, PTL

\* shutdown and Drop return only when every accepted job has had its result.
THEOREM Drained == Spec => []ShutdownDrains
  <1>1. QueueInv /\ PlaceInv /\ CountInv => ShutdownDrains
    <2> SUFFICES ASSUME QueueInv, HandsInv, OwnerInv, CountInv, phase = "closed"
                 PROVE  /\ queuedIds = {} /\ QueuedTasks = {}
                        /\ active = 0
                        /\ \A t \in Task : Live(t) => client[t] = "holding" /\ result[t] # "none"
      BY DEF PlaceInv, ShutdownDrains
    <2>1. \A w \in Worker : pc[w] \in {"absent", "exited"}
      BY DEF OwnerInv
    <2>2. QueuedTasks = {}
      BY <2>1, WorkerFacts DEF OwnerInv
    <2>3. queuedIds = {}
      BY <2>2 DEF QueueInv
    <2>4. CountedWorkers = {}
      BY <2>1 DEF CountedWorkers, Counted
    <2>5. active = 0
      BY <2>4, FS_EmptySet DEF CountInv
    <2>6. \A w \in Worker : ~Executing(w)
      BY <2>1 DEF Executing
    <2>7. \A t \in Task : Live(t) => client[t] = "holding" /\ result[t] # "none"
      BY <2>2, <2>6 DEF HandsInv, OwnerInv, Live
    <2> QED
      BY <2>2, <2>3, <2>5, <2>7
  <1>2. Spec => []CountInv
    BY InitCount, StepCount, TypeCorrect, PTL DEF Spec
  <1> QED
    BY <1>1, <1>2, PlaceInductive, PTL

-----------------------------------------------------------------------------
(* The wake-ups: queued jobs against looking workers and open notifications. *)

Scanning  == {w \in Worker : pc[w] = "scan"}
Notifying == {t \in Task : client[t] = "notifying"}

LEMMA WakeFinite ==
  TypeOK => /\ IsFiniteSet(Scanning) /\ IsFiniteSet(Notifying) /\ IsFiniteSet(QueuedTasks)
            /\ Cardinality(Scanning) \in Nat /\ Cardinality(Notifying) \in Nat
            /\ Cardinality(QueuedTasks) \in Nat
  <1> SUFFICES ASSUME TypeOK
               PROVE  /\ IsFiniteSet(Scanning) /\ IsFiniteSet(Notifying) /\ IsFiniteSet(QueuedTasks)
                      /\ Cardinality(Scanning) \in Nat /\ Cardinality(Notifying) \in Nat
                      /\ Cardinality(QueuedTasks) \in Nat
    OBVIOUS
  <1>1. IsFiniteSet(Worker) /\ IsFiniteSet(Task)
    BY PoolAssumption, FS_Interval DEF Worker
  <1>2. Scanning \in SUBSET Worker /\ Notifying \in SUBSET Task /\ QueuedTasks \in SUBSET Task
    BY QueuedAreTasks DEF Scanning, Notifying
  <1>3. IsFiniteSet(Scanning) /\ IsFiniteSet(Notifying) /\ IsFiniteSet(QueuedTasks)
    BY <1>1, <1>2, FS_Subset
  <1> QED
    BY <1>3, FS_CardinalityType

\* A step that wakes w, or none, and leaves the jobs and submitters as they are.
LEMMA WakeKept ==
  ASSUME TypeOK, WorkConserving, QueuedTasks' = QueuedTasks, Notifying' = Notifying,
         \/ Scanning' = Scanning
         \/ \E w \in Worker : Scanning' = Scanning \cup {w},
         \A v \in Worker : pc'[v] = "waiting" => pc[v] = "waiting"
  PROVE  WorkConserving'
  <1>1. Cardinality(Scanning') \in Nat /\ Cardinality(Scanning') >= Cardinality(Scanning)
    <2>1. CASE Scanning' = Scanning
      BY <2>1, WakeFinite
    <2>2. ASSUME NEW w \in Worker, Scanning' = Scanning \cup {w}
          PROVE  Cardinality(Scanning') \in Nat /\ Cardinality(Scanning') >= Cardinality(Scanning)
      <3>1. Cardinality(Scanning \cup {w}) \in {Cardinality(Scanning), Cardinality(Scanning) + 1}
        BY WakeFinite, FS_AddElement
      <3> QED
        BY <2>2, <3>1, WakeFinite
    <2> QED
      BY <2>1, <2>2
  <1>2. SUFFICES ASSUME \E v \in Worker : pc'[v] = "waiting"
                 PROVE  Cardinality(QueuedTasks') <= Cardinality(Scanning') + Cardinality(Notifying')
    BY DEF WorkConserving, Scanning, Notifying
  <1>3. Cardinality(QueuedTasks) <= Cardinality(Scanning) + Cardinality(Notifying)
    BY <1>2 DEF WorkConserving, Scanning, Notifying
  <1> QED
    BY <1>1, <1>3, WakeFinite

LEMMA StepWake == TypeOK /\ TypeOK' /\ QueueInv /\ WorkConserving /\ [Next]_vars => WorkConserving'
  <1> SUFFICES ASSUME TypeOK, TypeOK', QueueInv, WorkConserving, [Next]_vars PROVE WorkConserving'
    OBVIOUS
  <1> USE DEF poolVars, workerVars
  <1>0. ASSUME \A v \in Worker : pc'[v] # "waiting" PROVE WorkConserving'
    BY <1>0 DEF WorkConserving
  <1>1. CASE Owner
    <2>1. QueuedTasks' = QueuedTasks /\ Notifying' = Notifying
      BY <1>1, QueuesKept DEF Owner, Spawn, BeginShutdown, NotifyShutdown, JoinWorkers, jobVars, Notifying
    <2>2. ASSUME NEW w \in Worker, Spawn(w) PROVE WorkConserving'
      <3>1. /\ Scanning' = Scanning \cup {w}
            /\ \A v \in Worker : pc'[v] = "waiting" => pc[v] = "waiting"
        BY <2>2 DEF Spawn, Scanning, TypeOK
      <3> QED
        BY <2>1, <3>1, WakeKept
    <2>3. CASE NotifyShutdown
      BY <2>3, <1>0 DEF NotifyShutdown, WakeAll
    <2>4. CASE BeginShutdown \/ JoinWorkers
      <3>1. pc' = pc
        BY <2>4 DEF BeginShutdown, JoinWorkers
      <3> QED
        BY <2>1, <3>1, WakeKept DEF Scanning
    <2> QED
      BY <1>1, <2>2, <2>3, <2>4 DEF Owner
  <1>2. ASSUME NEW t \in Task, Submit(t) PROVE WorkConserving'
    <2>1. t \notin QueuedTasks /\ QueuedTasks' = QueuedTasks \cup {t}
      BY <1>2, SubmitQueue
    <2>2. t \notin Notifying /\ Notifying' = Notifying \cup {t}
      BY <1>2 DEF Submit, Notifying, TypeOK
    <2>3. pc' = pc /\ Scanning' = Scanning
      BY <1>2 DEF Submit, Scanning
    <2>4. /\ Cardinality(QueuedTasks') = Cardinality(QueuedTasks) + 1
          /\ Cardinality(Notifying') = Cardinality(Notifying) + 1
      BY <2>1, <2>2, WakeFinite, FS_AddElement
    <2>5. SUFFICES ASSUME \E v \in Worker : pc'[v] = "waiting"
                   PROVE  Cardinality(QueuedTasks') <= Cardinality(Scanning') + Cardinality(Notifying')
      BY DEF WorkConserving, Scanning, Notifying
    <2>6. Cardinality(QueuedTasks) <= Cardinality(Scanning) + Cardinality(Notifying)
      BY <2>3, <2>5 DEF WorkConserving, Scanning, Notifying
    <2> QED
      BY <2>3, <2>4, <2>6, WakeFinite
  <1>3. ASSUME NEW t \in Task, NotifyOne(t) PROVE WorkConserving'
    <2>1. CASE \A v \in Worker : pc[v] # "waiting"
      BY <1>3, <2>1, <1>0 DEF NotifyOne, WakeOne
    <2>2. CASE \E v \in Worker : pc[v] = "waiting"
      <3>1. PICK w \in Worker : pc[w] = "waiting" /\ pc' = [pc EXCEPT ![w] = "scan"]
        BY <1>3, <2>2 DEF NotifyOne, WakeOne
      <3>2. w \notin Scanning /\ Scanning' = Scanning \cup {w}
        BY <3>1 DEF Scanning, TypeOK
      <3>3. t \in Notifying /\ Notifying' = Notifying \ {t}
        BY <1>3 DEF NotifyOne, Notifying, TypeOK
      <3>4. QueuedTasks' = QueuedTasks
        BY <1>3, QueuesKept DEF NotifyOne
      <3>5. /\ Cardinality(Scanning') = Cardinality(Scanning) + 1
            /\ Cardinality(Notifying') = Cardinality(Notifying) - 1
        BY <3>2, <3>3, WakeFinite, FS_AddElement, FS_RemoveElement
      <3>6. Cardinality(QueuedTasks) <= Cardinality(Scanning) + Cardinality(Notifying)
        BY <2>2 DEF WorkConserving, Scanning, Notifying
      <3>7. Cardinality(QueuedTasks') <= Cardinality(Scanning') + Cardinality(Notifying')
        BY <3>4, <3>5, <3>6, WakeFinite
      <3> QED
        BY <3>7 DEF WorkConserving, Scanning, Notifying
    <2> QED
      BY <2>1, <2>2
  <1>4. ASSUME NEW t \in Task, Observe(t) \/ DropHandle(t) \/ Cancel(t) \/ Expire(t)
        PROVE  WorkConserving'
    <2>1. QueuedTasks' = QueuedTasks /\ pc' = pc /\ Scanning' = Scanning
      BY <1>4, QueuesKept DEF Observe, DropHandle, Cancel, Expire, Scanning
    <2>2. Notifying' = Notifying
      BY <1>4 DEF Observe, DropHandle, Cancel, Expire, Release, Retired, Notifying, TypeOK
    <2> QED
      BY <2>1, <2>2, WakeKept
  <1>5. ASSUME NEW w \in Worker, Dispatch(w) PROVE WorkConserving'
    <2>1. PICK t \in QueuedTasks : QueuedTasks' = QueuedTasks \ {t}
      BY <1>5, DispatchQueue
    <2>2. w \in Scanning /\ Scanning' = Scanning \ {w}
      BY <1>5 DEF Dispatch, Scanning, TypeOK
    <2>3. /\ Notifying' = Notifying
          /\ \A v \in Worker : pc'[v] = "waiting" => pc[v] = "waiting"
      BY <1>5 DEF Dispatch, jobVars, Notifying, TypeOK
    <2>4. /\ Cardinality(QueuedTasks') = Cardinality(QueuedTasks) - 1
          /\ Cardinality(Scanning') = Cardinality(Scanning) - 1
      BY <2>1, <2>2, WakeFinite, FS_RemoveElement
    <2>5. SUFFICES ASSUME \E v \in Worker : pc'[v] = "waiting"
                   PROVE  Cardinality(QueuedTasks') <= Cardinality(Scanning') + Cardinality(Notifying')
      BY DEF WorkConserving, Scanning, Notifying
    <2>6. Cardinality(QueuedTasks) <= Cardinality(Scanning) + Cardinality(Notifying)
      BY <2>3, <2>5 DEF WorkConserving, Scanning, Notifying
    <2> QED
      BY <2>3, <2>4, <2>6, WakeFinite
  <1>6. ASSUME NEW w \in Worker, Sleep(w) \/ Exit(w) PROVE WorkConserving'
    <2>1. QueuedTasks' = {}
      BY <1>6, NothingQueued, QueuesKept DEF Sleep, Exit
    <2>2. /\ Cardinality(QueuedTasks') = 0
          /\ Cardinality(Scanning') \in Nat /\ Cardinality(Notifying') \in Nat
      <3>1. (TypeOK => Cardinality(Scanning) \in Nat /\ Cardinality(Notifying) \in Nat)'
        BY WakeFinite, PTL
      <3> QED
        BY <2>1, <3>1, FS_EmptySet
    <2>3. Cardinality(QueuedTasks') <= Cardinality(Scanning') + Cardinality(Notifying')
      BY <2>2
    <2> QED
      BY <2>3 DEF WorkConserving, Scanning, Notifying
  <1>7. ASSUME NEW w \in Worker, SpuriousWake(w) PROVE WorkConserving'
    <2>1. /\ Scanning' = Scanning \cup {w} /\ Notifying' = Notifying
          /\ \A v \in Worker : pc'[v] = "waiting" => pc[v] = "waiting"
      BY <1>7 DEF SpuriousWake, Scanning, Notifying, jobVars, TypeOK
    <2>2. QueuedTasks' = QueuedTasks
      BY <1>7, QueuesKept DEF SpuriousWake
    <2> QED
      BY <2>1, <2>2, WakeKept
  <1>8. ASSUME NEW w \in Worker, BeginJob(w) \/ RunBody(w) \/ Publish(w) \/ RecordCompletion(w)
        PROVE  WorkConserving'
    <2>1. /\ Scanning' = Scanning
          /\ \A v \in Worker : pc'[v] = "waiting" => pc[v] = "waiting"
      BY <1>8 DEF BeginJob, RunBody, Publish, RecordCompletion, Scanning, TypeOK
    <2>2. Notifying' = Notifying
      BY <1>8 DEF BeginJob, RunBody, Publish, RecordCompletion, Release, Retired, Notifying, jobVars, TypeOK
    <2>3. QueuedTasks' = QueuedTasks
      BY <1>8, QueuesKept DEF BeginJob, RunBody, Publish, RecordCompletion
    <2> QED
      BY <2>1, <2>2, <2>3, WakeKept
  <1>9. ASSUME NEW w \in Worker, NotifyAll(w) PROVE WorkConserving'
    BY <1>9, <1>0 DEF NotifyAll
  <1>10. CASE UNCHANGED vars
    <2>1. QueuedTasks' = QueuedTasks
      BY <1>10, QueuesKept DEF vars
    <2> QED
      BY <1>10, <2>1 DEF vars, jobVars, WorkConserving
  <1> QED
    BY <1>1, <1>2, <1>3, <1>4, <1>5, <1>6, <1>7, <1>8, <1>9, <1>10 DEF Next, Client, WorkerStep, Done

\* No wake-up is lost (pool.rs submit, worker_loop, shutdown): while a worker
\* sleeps, every queued job has a worker about to look or a notification coming.
THEOREM WakesCover == Spec => []WorkConserving
  <1>1. Init => WorkConserving
    BY DEF Init, WorkConserving
  <1>2. Spec => []QueueInv
    BY PlaceInductive, PTL
  <1> QED
    BY <1>1, <1>2, StepWake, TypeCorrect, PTL DEF Spec

-----------------------------------------------------------------------------
(* The pool implements the bounded executor its clients see. *)

\* Where a submission is, read off the queues, the workers and its channel.
StageRead ==
  \A t \in Task :
    /\ Stage[t] = "pending"  <=> t \in QueuedTasks
    /\ Stage[t] = "running"  <=> t \in HeldTasks
    /\ Stage[t] = "finished" <=> result[t] # "none"
    /\ Stage[t] = "over"     <=> client[t] = "spent"
    /\ Stage[t] = "fresh"    <=> client[t] = "idle"

LEMMA StageFacts == TypeOK /\ HandsInv => StageRead
  <1> SUFFICES ASSUME TypeOK, HandsInv, NEW t \in Task
               PROVE  /\ Stage[t] = "pending"  <=> t \in QueuedTasks
                      /\ Stage[t] = "running"  <=> t \in HeldTasks
                      /\ Stage[t] = "finished" <=> result[t] # "none"
                      /\ Stage[t] = "over"     <=> client[t] = "spent"
                      /\ Stage[t] = "fresh"    <=> client[t] = "idle"
    BY DEF StageRead
  <1>1. t \in QueuedTasks => t \notin HeldTasks /\ Live(t) /\ result[t] = "none"
    BY DEF HandsInv, HeldTasks
  <1>2. t \in HeldTasks => Live(t) /\ result[t] = "none"
    BY DEF HandsInv, HeldTasks
  <1>3. result[t] # "none" => Live(t)
    BY DEF HandsInv
  <1>4. Live(t) => t \in QueuedTasks \/ t \in HeldTasks \/ result[t] # "none"
    BY DEF HandsInv, HeldTasks
  <1>5. client[t] \in {"idle", "spent"} <=> ~Live(t)
    BY DEF TypeOK, ClientState, Live
  <1>6. Stage[t] = CASE t \in QueuedTasks   -> "pending"
                     [] t \in HeldTasks     -> "running"
                     [] result[t] # "none"  -> "finished"
                     [] client[t] = "spent" -> "over"
                     [] OTHER               -> "fresh"
    BY DEF Stage
  <1> QED
    BY <1>1, <1>2, <1>3, <1>4, <1>5, <1>6

LEMMA StageKept ==
  ASSUME NEW t \in Task, t \in QueuedTasks' <=> t \in QueuedTasks,
         t \in HeldTasks' <=> t \in HeldTasks,
         result'[t] # "none" <=> result[t] # "none",
         client'[t] = "spent" <=> client[t] = "spent"
  PROVE  Stage'[t] = Stage[t]
  BY DEF Stage

LEMMA StageMoves ==
  ASSUME NEW t \in Task, NEW s, Mode' = Mode,
         \A u \in Task : u # t => Stage'[u] = Stage[u], Stage'[t] = s
  PROVE  Executor!Move(t, Stage[t], s)
  <1>1. Stage' = [u \in Task |-> Stage'[u]] /\ Stage = [u \in Task |-> Stage[u]]
    BY DEF Stage
  <1>2. Stage' = [Stage EXCEPT ![t] = s]
    BY <1>1
  <1> QED
    BY <1>2 DEF Executor!Move

LEMMA StageStutters ==
  ASSUME \A u \in Task : Stage'[u] = Stage[u], Mode' = Mode
  PROVE  UNCHANGED Executor!vars
  <1>1. Stage' = [u \in Task |-> Stage'[u]] /\ Stage = [u \in Task |-> Stage[u]]
    BY DEF Stage
  <1>2. Stage' = Stage
    BY <1>1
  <1> QED
    BY <1>2 DEF Executor!vars

\* The identity index counts the queued jobs: no two share an identity.
LEMMA IndexCounts ==
  ASSUME TypeOK, QueueInv
  PROVE  Cardinality(QueuedTasks) = Cardinality(queuedIds)
  <1> DEFINE f == [t \in QueuedTasks |-> IdOf[t]]
  <1>1. f \in Surjection(QueuedTasks, queuedIds)
    BY DEF QueueInv, Surjection
  <1>2. \A t, u \in QueuedTasks : IdOf[t] = IdOf[u] => t = u
    <2> SUFFICES ASSUME NEW t \in QueuedTasks, NEW u \in QueuedTasks, IdOf[t] = IdOf[u] PROVE t = u
      OBVIOUS
    <2>1. PICK v \in Worker, p \in Priority : \E i \in DOMAIN queues[v][p] : t = queues[v][p][i]
      BY QueuedMember
    <2>2. PICK i \in DOMAIN queues[v][p] : t = queues[v][p][i]
      BY <2>1
    <2>3. PICK x \in Worker, q \in Priority : \E j \in DOMAIN queues[x][q] : u = queues[x][q][j]
      BY QueuedMember
    <2>4. PICK j \in DOMAIN queues[x][q] : u = queues[x][q][j]
      BY <2>3
    <2>5. v = x /\ p = q /\ i = j
      BY <2>2, <2>4 DEF QueueInv
    <2> QED
      BY <2>2, <2>4, <2>5
  <1>3. f \in Injection(QueuedTasks, queuedIds)
    BY <1>1, <1>2 DEF Injection, IsInjective, Surjection
  <1> HIDE DEF f
  <1> QED
    BY <1>1, <1>3, WakeFinite, FS_Surjection

\* A worker about to dispatch leaves room among the N executing ones.
LEMMA HeldBound ==
  ASSUME NEW w \in Worker, ~Executing(w)
  PROVE  Cardinality(HeldTasks) < N
  <1> DEFINE E == {v \in Worker : Executing(v)}
             f == [v \in E |-> held[v]]
  <1>1. IsFiniteSet(Worker) /\ Cardinality(Worker) = N /\ N \in Nat
    BY PoolAssumption, FS_Interval DEF Worker
  <1>2. IsFiniteSet(Worker \ {w}) /\ Cardinality(Worker \ {w}) = N - 1
    BY <1>1, FS_RemoveElement
  <1>3. E \in SUBSET (Worker \ {w})
    OBVIOUS
  <1>4. f \in Surjection(E, HeldTasks)
    BY DEF HeldTasks, Surjection
  <1> HIDE DEF f, E
  <1>5. IsFiniteSet(E) /\ Cardinality(E) <= N - 1
    BY <1>2, <1>3, FS_Subset
  <1>6. IsFiniteSet(HeldTasks) /\ Cardinality(HeldTasks) <= Cardinality(E)
    BY <1>4, <1>5, FS_Surjection
  <1>7. Cardinality(E) \in Nat /\ Cardinality(HeldTasks) \in Nat
    BY <1>5, <1>6, FS_CardinalityType
  <1> QED
    BY <1>1, <1>5, <1>6, <1>7

LEMMA InFacts ==
  ASSUME TypeOK, HandsInv
  PROVE  Executor!In("pending") = QueuedTasks /\ Executor!In("running") = HeldTasks
  <1>1. QueuedTasks \subseteq Task /\ HeldTasks \subseteq Task
    BY QueuedAreTasks DEF HandsInv, HeldTasks
  <1> QED
    BY <1>1, StageFacts DEF StageRead, Executor!In

\* The instance counts as this module does.
LEMMA SameCount == \A S : Executor!Cardinality(S) = Cardinality(S)
  BY DEF Executor!Cardinality, Cardinality

LEMMA NextMove ==
  ASSUME NEW t \in Task, \E s : \/ Stage[t] = "running" /\ s \in {"finished", Executor!After} /\ Executor!Move(t, "running", s)
                                \/ Stage[t] = "finished" /\ s = Executor!After /\ Executor!Move(t, "finished", s)
  PROVE  Executor!Next
  BY DEF Executor!Next, Executor!Finish, Executor!Abandon, Executor!Collect

\* Taking or dropping a result, or publishing to nobody, ends the submission.
LEMMA ReleaseStage ==
  ASSUME TypeOK, HandsInv, StageRead', NEW t \in Task, Release(t), Mode' = Mode,
         QueuedTasks' = QueuedTasks,
         \A u \in Task : u # t => (u \in HeldTasks' <=> u \in HeldTasks),
         Stage[t] \in {"running", "finished"}
  PROVE  Executor!Next
  <1>1. \A u \in Task : u # t => Stage'[u] = Stage[u]
    BY ReleaseFacts, StageKept
  <1>2. Stage'[t] = Executor!After
    <2>1. (Stage[t] = "over" <=> client[t] = "spent")' /\ (Stage[t] = "fresh" <=> client[t] = "idle")'
      BY DEF StageRead
    <2>2. client'[t] = IF Reuse THEN "idle" ELSE "spent"
      BY DEF Release, Retired, TypeOK
    <2> QED
      BY <2>1, <2>2 DEF Executor!After
  <1>3. Executor!Move(t, Stage[t], Executor!After)
    BY <1>1, <1>2, StageMoves
  <1> QED
    BY <1>3, NextMove

LEMMA OwnerImplements ==
  ASSUME TypeOK, QueueInv, HandsInv, OwnerInv, Owner
  PROVE  Executor!Next \/ UNCHANGED Executor!vars
  <1> USE DEF poolVars, workerVars, jobVars
  <1>1. QueuedTasks' = QueuedTasks
    BY QueuesKept DEF Owner, Spawn, BeginShutdown, NotifyShutdown, JoinWorkers
  <1>2. \A w \in Worker : Executing(w)' <=> Executing(w)
    BY DEF Owner, Spawn, BeginShutdown, NotifyShutdown, JoinWorkers, WakeAll, Executing, TypeOK
  <1>3. HeldTasks' = HeldTasks
    BY <1>2 DEF Owner, Spawn, BeginShutdown, NotifyShutdown, JoinWorkers, HeldTasks
  <1>4. \A t \in Task : Stage'[t] = Stage[t]
    BY <1>1, <1>3, StageKept DEF Owner, Spawn, BeginShutdown, NotifyShutdown, JoinWorkers
  <1>5. Stage' = Stage
    <2>1. Stage' = [u \in Task |-> Stage'[u]] /\ Stage = [u \in Task |-> Stage[u]]
      BY DEF Stage
    <2> QED
      BY <2>1, <1>4
  <1>6. CASE BeginShutdown
    BY <1>5, <1>6 DEF BeginShutdown, Mode, Executor!Next, Executor!Close
  <1>7. CASE NotifyShutdown \/ \E w \in Worker : Spawn(w)
    <2>1. Mode' = Mode
      BY <1>7 DEF NotifyShutdown, Spawn, Mode
    <2> QED
      BY <1>4, <2>1, StageStutters
  <1>8. CASE JoinWorkers
    <2>1. \A w \in Worker : pc[w] \in {"absent", "exited"}
      BY <1>8 DEF JoinWorkers
    <2>2. QueuedTasks = {} /\ HeldTasks = {}
      BY <2>1, WorkerFacts DEF OwnerInv, HeldTasks, Executing
    <2>3. Mode = "closing" /\ Mode' = "closed"
      BY <1>8 DEF JoinWorkers, Mode
    <2> QED
      BY <1>5, <2>2, <2>3, InFacts DEF Executor!Next, Executor!Drained
  <1> QED
    BY <1>6, <1>7, <1>8 DEF Owner

LEMMA ClientImplements ==
  ASSUME TypeOK, QueueInv, HandsInv, StageRead', NEW t \in Task, Client(t)
  PROVE  Executor!Next \/ UNCHANGED Executor!vars
  <1> USE DEF poolVars, workerVars, jobVars
  <1>1. CASE Submit(t)
    <2>1. QueuedTasks' = QueuedTasks \cup {t}
      BY <1>1, SubmitQueue
    <2>2. /\ Executor!In("pending") = QueuedTasks
          /\ Cardinality(QueuedTasks) < Capacity
      BY <1>1, InFacts, IndexCounts DEF Submit, Admits
    <2>3. HeldTasks' = HeldTasks
      BY <1>1 DEF Submit, HeldTasks, Executing
    <2>4. \A u \in Task : u # t => Stage'[u] = Stage[u]
      BY <1>1, <2>1, <2>3, StageKept DEF Submit, TypeOK
    <2>5. Stage[t] = "fresh"
      BY <1>1, StageFacts DEF StageRead, Submit
    <2>6. Stage'[t] = "pending"
      BY <2>1 DEF StageRead
    <2>7. Mode = "open" /\ Mode' = Mode
      BY <1>1 DEF Submit, Mode
    <2>8. Executor!Move(t, "fresh", "pending")
      BY <2>4, <2>5, <2>6, <2>7, StageMoves
    <2>9. Executor!Accept(t)
      BY <2>2, <2>7, <2>8, SameCount DEF Executor!Accept
    <2> QED
      BY <2>9 DEF Executor!Next
  <1>2. CASE NotifyOne(t) \/ Cancel(t) \/ Expire(t) \/ (DropHandle(t) /\ result[t] = "none")
    <2>1. QueuedTasks' = QueuedTasks /\ Mode' = Mode
      BY <1>2, QueuesKept DEF NotifyOne, Cancel, Expire, DropHandle, Mode
    <2>2. \A w \in Worker : Executing(w)' <=> Executing(w)
      BY <1>2 DEF NotifyOne, WakeOne, Cancel, Expire, DropHandle, Executing, TypeOK
    <2>3. HeldTasks' = HeldTasks
      BY <1>2, <2>2 DEF NotifyOne, Cancel, Expire, DropHandle, HeldTasks
    <2>4. \A u \in Task : /\ result'[u] = result[u]
                          /\ client'[u] = "spent" <=> client[u] = "spent"
      BY <1>2 DEF NotifyOne, Cancel, Expire, DropHandle, TypeOK
    <2> QED
      BY <2>1, <2>3, <2>4, StageKept, StageStutters
  <1>3. CASE Observe(t) \/ (DropHandle(t) /\ result[t] # "none")
    <2>1. Release(t) /\ UNCHANGED << poolVars, phase, workerVars >> /\ result[t] # "none"
      BY <1>3 DEF Observe, DropHandle
    <2>2. QueuedTasks' = QueuedTasks /\ Mode' = Mode
      BY <2>1, QueuesKept DEF Mode
    <2>3. HeldTasks' = HeldTasks
      BY <2>1 DEF HeldTasks, Executing
    <2>4. Stage[t] = "finished"
      BY <2>1, StageFacts DEF StageRead
    <2> QED
      BY <2>1, <2>2, <2>3, <2>4, ReleaseStage
  <1> QED
    BY <1>1, <1>2, <1>3 DEF Client

LEMMA WorkerImplements ==
  ASSUME TypeOK, QueueInv, HandsInv, StageRead', NEW w \in Worker,
         WorkerStep(w) \/ SpuriousWake(w)
  PROVE  Executor!Next \/ UNCHANGED Executor!vars
  <1> USE DEF poolVars, workerVars, jobVars
  <1>1. CASE Dispatch(w)
    <2> DEFINE t == held'[w]
    <2>1. /\ t \in QueuedTasks /\ t \in Task
          /\ held' = [held EXCEPT ![w] = t]
          /\ QueuedTasks' = QueuedTasks \ {t}
      BY <1>1, DispatchQueue, QueuedAreTasks
    <2>2. pc[w] = "scan" /\ pc' = [pc EXCEPT ![w] = "begin"] /\ UNCHANGED << client, result, phase >>
      BY <1>1 DEF Dispatch
    <2> HIDE DEF t
    <2>3. /\ ~Executing(w) /\ Executing(w)' /\ held'[w] = t
          /\ \A v \in Worker : v # w => held'[v] = held[v] /\ (Executing(v)' <=> Executing(v))
      BY <2>1, <2>2 DEF Executing, TypeOK
    <2>4. HeldTasks' = HeldTasks \cup {t}
      BY <2>3 DEF HeldTasks
    <2>5. \A u \in Task : u # t => Stage'[u] = Stage[u]
      BY <2>1, <2>2, <2>4, StageKept
    <2>6. Stage[t] = "pending"
      BY <2>1, StageFacts DEF StageRead
    <2>7. Stage'[t] = "running"
      BY <2>1, <2>4 DEF StageRead
    <2>8. Mode' = Mode
      BY <2>2 DEF Mode
    <2>9. Executor!Move(t, "pending", "running")
      BY <2>1, <2>5, <2>6, <2>7, <2>8, StageMoves
    <2>10. Cardinality(Executor!In("running")) < N
      BY <2>3, HeldBound, InFacts
    <2>11. Executor!Start(t)
      BY <2>9, <2>10, SameCount DEF Executor!Start
    <2> QED
      BY <2>1, <2>11 DEF Executor!Next
  <1>2. CASE \/ Sleep(w) \/ Exit(w) \/ SpuriousWake(w) \/ BeginJob(w) \/ RunBody(w)
             \/ RecordCompletion(w) \/ NotifyAll(w)
    <2>1. QueuedTasks' = QueuedTasks /\ Mode' = Mode
      BY <1>2, QueuesKept DEF Sleep, Exit, SpuriousWake, BeginJob, RunBody, RecordCompletion, NotifyAll, Mode
    <2>2. \A v \in Worker : Executing(v)' <=> Executing(v)
      BY <1>2 DEF Sleep, Exit, SpuriousWake, BeginJob, RunBody, RecordCompletion, NotifyAll, Executing, TypeOK
    <2>3. HeldTasks' = HeldTasks
      BY <1>2, <2>2 DEF Sleep, Exit, SpuriousWake, BeginJob, RunBody, RecordCompletion, NotifyAll, HeldTasks
    <2>4. UNCHANGED << client, result >>
      BY <1>2 DEF Sleep, Exit, SpuriousWake, BeginJob, RunBody, RecordCompletion, NotifyAll
    <2> QED
      BY <2>1, <2>3, <2>4, StageKept, StageStutters
  <1>3. CASE Publish(w)
    <2>1. /\ QueuedTasks' = QueuedTasks /\ Mode' = Mode
          /\ pc[w] = "publish" /\ Executing(w)
      BY <1>3, QueuesKept DEF Publish, Mode, Executing
    <2>2. PICK t \in Task : /\ t = held[w] /\ t \in HeldTasks /\ t \notin QueuedTasks
                            /\ result[t] = "none" /\ verdict[w] # "none" /\ client[t] # "spent"
      BY <2>1 DEF HandsInv, HeldTasks, Live
    <2>3. /\ \A v \in Worker : v # w => held'[v] = held[v] /\ (Executing(v)' <=> Executing(v))
          /\ ~Executing(w)'
      BY <1>3 DEF Publish, Executing, TypeOK
    <2>4. \A u \in Task : u # t => (u \in HeldTasks' <=> u \in HeldTasks)
      BY <2>2, <2>3 DEF HeldTasks
    <2>5. Stage[t] = "running"
      BY <2>2, StageFacts DEF StageRead
    <2>6. CASE client[t] = "dropped"
      <3>1. Release(t)
        BY <1>3, <2>2, <2>6 DEF Publish
      <3> QED
        BY <2>1, <2>4, <2>5, <3>1, ReleaseStage
    <2>7. CASE client[t] # "dropped"
      <3>1. result' = [result EXCEPT ![t] = verdict[w]] /\ client' = client
        BY <1>3, <2>2, <2>7 DEF Publish
      <3>2. \A u \in Task : u # t => Stage'[u] = Stage[u]
        BY <2>1, <2>4, <3>1, StageKept DEF TypeOK
      <3>3. result'[t] # "none"
        BY <2>2, <3>1 DEF TypeOK
      <3>4. Stage'[t] = "finished"
        BY <3>3 DEF StageRead
      <3>5. Executor!Move(t, "running", "finished")
        BY <2>1, <2>5, <3>2, <3>4, StageMoves
      <3> QED
        BY <2>5, <3>5, NextMove
    <2> QED
      BY <2>6, <2>7
  <1> QED
    BY <1>1, <1>2, <1>3 DEF WorkerStep

\* Every step of the pool is a step of the executor, or none.
LEMMA StepImplements ==
  TypeOK /\ TypeOK' /\ QueueInv /\ PlaceInv /\ PlaceInv' /\ [Next]_vars
    => [Executor!Next]_(Executor!vars)
  <1> SUFFICES ASSUME TypeOK, TypeOK', QueueInv, PlaceInv, PlaceInv', [Next]_vars
               PROVE  Executor!Next \/ UNCHANGED Executor!vars
    OBVIOUS
  <1>0. HandsInv /\ OwnerInv /\ HandsInv'
    BY DEF PlaceInv
  <1>00. StageRead'
    <2>1. (TypeOK /\ HandsInv => StageRead)'
      BY StageFacts, PTL
    <2> QED
      BY <1>0, <2>1
  <1>1. CASE Owner
    BY <1>0, <1>1, OwnerImplements
  <1>2. CASE \E t \in Task : Client(t)
    BY <1>0, <1>00, <1>2, ClientImplements
  <1>3. CASE \E w \in Worker : WorkerStep(w) \/ SpuriousWake(w)
    BY <1>0, <1>00, <1>3, WorkerImplements
  <1>4. CASE UNCHANGED vars
    <2>1. QueuedTasks' = QueuedTasks
      BY <1>4, QueuesKept DEF vars, poolVars
    <2>2. HeldTasks' = HeldTasks /\ Mode' = Mode
      BY <1>4 DEF vars, workerVars, HeldTasks, Executing, Mode
    <2> QED
      BY <1>4, <2>1, <2>2, StageKept, StageStutters DEF vars, jobVars
  <1> QED
    BY <1>1, <1>2, <1>3, <1>4 DEF Next, Done

\* Local queues, stealing, dropped handles and the shutdown protocol implement
\* the bounded executor of JobExecutor, for every pool.
THEOREM Implements == Spec => ImplementsExecutor
  <1>1. Init => Executor!Init
    <2> SUFFICES ASSUME Init PROVE Executor!Init
      OBVIOUS
    <2>1. QueuedTasks = {}
      BY DEF Init, QueuedTasks, QueuedIn
    <2>2. HeldTasks = {}
      BY DEF Init, HeldTasks, Executing
    <2>3. Stage = [t \in Task |-> "fresh"]
      BY <2>1, <2>2 DEF Init, Stage
    <2> QED
      BY <2>3 DEF Init, Mode, Executor!Init
  <1> QED
    BY <1>1, StepImplements, PlaceInductive, TypeCorrect, PTL
    DEF Spec, ImplementsExecutor, Executor!Spec
=============================================================================
