\* Three fetch frames at a limit of two, one lost connection.
SPECIFICATION FairWorker
CONSTANTS
  j1 = j1
  j2 = j2
  j3 = j3
  Jobs <- ThreeJobs
  MAX_PENDING_JOBS = 2
  Durations = {0}
  MaxFaults = 1
  ProfileResetJobs = 2
INVARIANTS
  PendingExact
  AnsweredOnce
  ReadyzHonest
  WaitIsBounded
  NothingLeftRunning
  WorkerInv
PROPERTIES
  FramesAnswered
