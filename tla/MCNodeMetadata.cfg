SPECIFICATION FairSpec
CONSTANTS
  Configs <- SomeConfigs
  ConfFiles <- SomeConfFiles
  MaxChanges = 2
  MaxFaults = 2
INVARIANTS ListensWhereDialled DescribesNode
PROPERTIES Settles
