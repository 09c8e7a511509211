SPECIFICATION FairSpec
CONSTANTS
  N = 2
  Capacity = 2
  t1 = t1
  t2 = t2
  t3 = t3
  i1 = i1
  i2 = i2
  Task = {t1, t2}
  Id = {i1, i2}
  IdOf <- PairId
  PriorityOf <- PairPriority
  Deadlined = {t1}
  Cancellable = {t1, t2}
  Returns = {"value", "error", "cancelled_error", "timeout_error", "panic"}
  Reuse = FALSE
  MaxCount = 0
  NoTask = NoTask
INVARIANTS
  CancelledWhileQueuedNeverRuns
PROPERTIES
  EverythingTerminates
