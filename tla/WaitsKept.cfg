CONSTANTS
  QUIET = 2
  POLL = 1
  PAUSE = 1
  READ = 2
  GRACE = 1
  Caps <- SomeCaps
  Budgets <- SomeBudgets
  Selectors = 3
  Contents = 3
SPECIFICATION FairSpec
INVARIANTS SettleKept ProbeKept
PROPERTIES SettleEnds SettleRunsOut
