CONSTANTS
  j1 = j1
  Jobs <- OneJob
  MAX_PENDING_JOBS = 1
  Durations = {0, 6000, 10000}
  MaxFaults = 6
SPECIFICATION FairSpec
INVARIANTS NoHammer
PROPERTIES PausedStaysDown Reconnects
