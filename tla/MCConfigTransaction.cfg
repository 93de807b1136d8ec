SPECIFICATION Spec
CONSTANTS
  k0 = k0 k1 = k1 k2 = k2 a1 = a1 a2 = a2 bad = bad none = none v1 = v1 v2 = v2
  p0 = p0 p1 = p1 p2 = p2 o1 = o1 o2 = o2
  NoCreds = k0
  NoReleases <- NoRelease
  NoProxyVersion = p0
  Broken <- BrokenValues
  Absent = Absent
  InitConfigs <- Deployed
  Configs <- Targets
  FaultKinds <- Commands
  MaxFaults = 2
  MaxChanges = 2
INVARIANTS TypeOK HostMatchesStored
PROPERTIES CommitProves RollbackRestores ProxyChangeSparesNode
