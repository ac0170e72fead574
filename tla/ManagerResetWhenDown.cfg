CONSTANTS
  j1 = j1
  j2 = j2
  j3 = j3
  Jobs <- TwoJobs
  Engines = {1, 2, 3, 4}
  NoJob = NoJob
  NoEngine = NoEngine
  ProfileResetJobs = 1
  MaxFaults = 1
SPECIFICATION Spec
PROPERTIES ResetWhenDown
