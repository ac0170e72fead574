CONSTANTS
  j1 = j1
  j2 = j2
  j3 = j3
  Jobs <- ThreeJobs
  Engines = {1, 2, 3, 4, 5, 6}
  NoJob = NoJob
  NoEngine = NoEngine
  ProfileResetJobs = 1
  MaxFaults = 2
SPECIFICATION Spec
SYMMETRY JobSymmetry
INVARIANTS OneLaunch StackOwnership SidNearJar OneFirefox IndInv
PROPERTIES CleanReset CrawlStartsUp NoLaunchAfterClose
