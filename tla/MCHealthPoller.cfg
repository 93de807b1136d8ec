SPECIFICATION PollerFairSpec
CONSTANTS
  Interval = 2
  Timeout = 6
  Credentials = TRUE
INVARIANTS ReadersAgree Fresh
PROPERTIES Stops
