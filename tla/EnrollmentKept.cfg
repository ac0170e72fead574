CONSTANTS
  k1 = k1
  k2 = k2
  env = env
  foreign = foreign
  Keys <- TwoKeys
  Overrides <- OneOverride
  Invalid = Invalid
  Foreign = foreign
  None = None
  Torn = Torn
  RETRIES = 1
  MaxStarts = 3
  MaxTokens = 2
  DiskFails = TRUE
SPECIFICATION FairSpec
INVARIANTS ServesOwnToken StaysPaired TokenIsCurrent
PROPERTIES IdentityKept StartEnds
