SPECIFICATION FairSpec
CONSTANTS
  RateLimit = 2
  MaxBack = 1
  MaxHeight = 3
  MaxScrapes = 2
  MaxFaults = 2
INVARIANTS LagExplained TornIsCounted
PROPERTIES CatchesUp
