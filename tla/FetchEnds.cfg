CONSTANTS
  NAVIGATION_TIMEOUT = 60
  SETTLE_DEFAULT = 10
  SETTLE_MAX = 50
  DETECT_DEFAULT = 2
  DETECT_MAX = 50
  GRACE = 2
  RETRY_GOTO = 2
  RETRY_EXTRACT = 1
  RESETTLE = 4
  DRAIN = 1
  PROBE_PAUSE = 1
  POLL_BUDGET = 10
  POLL_SLEEP = 1
  JSON_TIMEOUT = 60
  SettleTimes = {0, 4, 60}
  DetectTimes = {0, 60}
  UntimedTimes = {0, 6}
SPECIFICATION FairSpec
PROPERTIES SelectorTimesOut
