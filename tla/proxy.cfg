CONSTANTS
  HostOnly = FALSE
  Accounts = {1, 2}
  Keyed = {2}
  Requests = {r1, r2}
  Local = TRUE
  MaxScore = 1
  Short = 1
  Long = 2
  MaxItems = 2
  MaxParts = 2
  MaxAhead = 1
  ModelNames <- Names
  MaxAsks = 2
  Slots = {s1}
  Proxies = {p1}
  MaxSessions = 1
  MaxFetches = 2
  MaxSettings = 1
  Officials = {1}
  Shared = {2, 3}
  MaxReplies = 3
SPECIFICATION ProxySpec
CHECK_DEADLOCK FALSE
SYMMETRY Symmetry
INVARIANTS ProxyTypeOK StickyNotCooling AnswersArrive AskedAsWished RequestsGoTheirWay
PROPERTIES FailsLast AsksSelectionFirst SwitchesToQuota
