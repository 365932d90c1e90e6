SPECIFICATION FairPollerSpec
CONSTANTS
  MaxFlips = 3
  MaxLapses = 2
INVARIANTS
  NoFalseTimeout
PROPERTIES
  PollingEnds
  WantedIsNoticed
