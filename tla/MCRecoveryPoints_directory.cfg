SPECIFICATION Spec
CONSTANTS
  MaxGeneration = 2
  MaxTime = 1
  MaxCollisions = 2
  MaxFile = 2
  Policy <- Policies
INVARIANTS ReportsAreEvidence
PROPERTIES RestoresWhatWasListed
