SPECIFICATION FairSpec
CONSTANTS
  t1 = t1
  t2 = t2
  cache = cache
  ai = ai
  gpu = gpu
  Thread = {t1, t2}
  Class = {cache, ai, gpu}
  Size = {1, 2}
  Total = 3
  Rank <- CacheFirst
  Hard <- Ceilings
  Protected <- Floors
  Nobody = Nobody
  NoRequest = NoRequest
INVARIANTS
  HardLimits
  EvidenceIsExact
PROPERTIES
  DegradesOnlyAfterAsking
  AdmissionSettles
