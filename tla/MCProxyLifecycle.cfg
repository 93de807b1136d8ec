SPECIFICATION FairSpec
CONSTANTS
  MaxConns = 2
INVARIANTS ErrorsReported NothingLeftRunning
PROPERTIES Terminates
