\* Three crawls, one page crash.
SPECIFICATION Spec
CONSTANTS
  MaxCrawls = 3
  MaxCrashes = 1
  NoNav = NoNav
INVARIANTS
  BodyIsOwn
  StatusIsOwn
  ReasonIsOwn
  LeftoverAbsorbed
\* The last crawl of the bound may be over.
CHECK_DEADLOCK FALSE
