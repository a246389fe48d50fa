CONSTANTS
  HostOnly = FALSE
  Accounts = {1, 2}
  Keyed = {}
  Requests = {r1, r2}
  Local = FALSE
  MaxScore = 0
  Short = 1
  Long = 2
  CardIds = {x1}
  MaxCardEdits = 2
  MaxCardErrors = 1
  MaxInFlight = 3
  Rows = {w1, w2}
  Fast = 1
  Slow = 2
  FullRound = 2
  Pause = 1
  LongestPause = 1
  Unchanged = 2
  Nothing = Nothing
SPECIFICATION LiveSpec
CHECK_DEADLOCK FALSE
INVARIANT RoundsOnTime
PROPERTIES ProxySettles CardsKeepUp SyncsEnd
