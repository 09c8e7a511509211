\* Two participants, so that one can be late; seven revisions let a pause be
\* overtaken by a sleep, that by a wake, and a failure end in a restart.
\* CHECK_DEADLOCK FALSE: the coordinator stops when its revisions are used up.
SPECIFICATION FairSpec
CONSTANTS
  Participant = {p1, p2}
  MaxRevision = 7
  NoFailure = NoFailure
INVARIANTS
  Unanimous
  FailureEndsLifetime
  WakeHonoursIntent
PROPERTIES
  RevisionCoversChanges
  TransitionSettles
CHECK_DEADLOCK FALSE
