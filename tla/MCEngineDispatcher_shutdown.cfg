\* One subsystem that may fail is enough, and the playback owner stays.
SPECIFICATION FairSpec
CONSTANTS
  None = None
  Subsystem <- MCSubsystem
  Rank <- MCRank
  Dependencies <- MCDependencies
  Participates <- MCParticipates
  Retains <- MCRetains
  Required <- MCRequired
  Export = "export"
  Faulty = {"playback"}
  MaxEvents = 1
  MayDrop = FALSE
PROPERTIES
  ShutdownCompletes
