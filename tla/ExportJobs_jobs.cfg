\* Three jobs, so that a chain of prerequisites needs more than one pass, on one
\* worker with one waiting place, so that a ready job can find the pool full.
\* CHECK_DEADLOCK FALSE: a queue that has been shut down answers nothing any more.
CONSTANTS
  Job = {1, 2, 3}
  N = 1
  Capacity = 1
  Retained = 3
SPECIFICATION FairSpec
INVARIANTS StatusIsTrue PrerequisitesFirst HistoryAgrees
PROPERTIES FinalIsFinal PollSettles RequestsSettle
CHECK_DEADLOCK FALSE
