\* Every boundary of the private networks, in one to four parts and as IPv6.
SPECIFICATION Spec
CONSTANTS
  Frames <- AllFrames
  Proxies <- AllProxies
  Answers <- AllAnswers
INVARIANTS
  JobOK
  NoPrivateCrawl
  PublicServed
CHECK_DEADLOCK FALSE
