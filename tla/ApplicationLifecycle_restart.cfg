\* One client is enough to lose a restart.
\* CHECK_DEADLOCK FALSE: the engine thread may exit.
SPECIFICATION Spec
CONSTANTS
  Engine = engine
  NoFailure = NoFailure
  NoOne = NoOne
  Client = {c1}
  MaxRevision = 9
INVARIANTS
  RestartIsHonoured
CHECK_DEADLOCK FALSE
