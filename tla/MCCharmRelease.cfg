SPECIFICATION Spec
CONSTANTS
  Version <- TwoCommits
  Documented = {1, 2}
  Channels = {edge}
  Jobs = {j1, j2}
  MaxRuns = 2
  MaxReruns = 1
  MaxReleases = 2
SYMMETRY JobSymmetry
INVARIANTS PublishedWasTested ProvenanceTruthful AttachedAgree
CHECK_DEADLOCK FALSE
