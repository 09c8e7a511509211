\* All six subsystems; the devices and playback, which is built on them, may
\* fail in every way.  A queue of one event shows every reservation.
\* CHECK_DEADLOCK FALSE: when the playback owner goes away with a command, no
\* dispatch and no drain succeeds any more.
SPECIFICATION FairSpec
CONSTANTS
  None = None
  Subsystem <- MCSubsystem
  Rank <- MCRank
  Dependencies <- MCDependencies
  Participates <- MCParticipates
  Retains <- MCRetains
  Required <- MCRequired
  Export = "export"
  Faulty = {"devices", "playback"}
  MaxEvents = 1
  MayDrop = TRUE
INVARIANTS
  ActionIsCoherent
  OwnershipFollowsPhase
  ReservationHolds
  RecoveryIsTracked
PROPERTIES
  ReleasesInOrder
  TransitionSettles
  PlaybackSettles
CHECK_DEADLOCK FALSE
