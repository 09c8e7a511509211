SPECIFICATION Spec
CONSTANTS
  N = 2
  Capacity = 2
  t1 = t1
  t2 = t2
  t3 = t3
  i1 = i1
  i2 = i2
  Task = {t1, t2, t3}
  Id = {i1, i2}
  IdOf <- MixedId
  PriorityOf <- MixedPriority
  Deadlined = {}
  Cancellable = {}
  Returns = {"value"}
  Reuse = FALSE
  MaxCount = 2
  NoTask = NoTask
INVARIANTS
  ExactlyOnePlace
  WorkConserving
  StarvationBound
  ShutdownDrains
PROPERTIES
  ImplementsExecutor
