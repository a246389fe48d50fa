CONSTANTS
  Accounts = {e1, e2}
  Changing = {e1}
  None = None
  Foreign = Foreign
  MaxTokens = 2
  MaxTurns = 1
  MaxFailures = 1
  Relays = {p1}
  Files = {e1, e2}
  Choices = {c1, c2}
  Absent = Absent
  MaxEdits = 2
  MaxFaults = 1
  MaxChanges = 3
  MaxSlips = 1
  CardIds = {e1, e2}
  MaxCardEdits = 2
  MaxCardErrors = 1
  MaxInFlight = 2
  MaxTunnels = 3
  MaxTunnelFaults = 3
  MaxEnds = 1
  Spaces = {e1, e2}
  MaxSpaceEdits = 2
  MaxSignIns = 2
  Copools = {e1, e2}
  Threads = {e1, e2}
  MaxCalls = 3
  Others = {e1, e2}
  NoLogin = NoLogin
  MaxMoves = 1
  MaxRefused = 2
  MaxReplaced = 1
  Profiles = {p, q}
  Providers = {a}
  MaxLines = 3
  MaxSwitches = 2
SPECIFICATION ServicesSpec
CHECK_DEADLOCK FALSE
INVARIANTS ServicesTypeOK OfficialRestored FilesAgree ListedHasPassword LeftoversAreKnown SignInFreed ReplacedWhereRead
PROPERTIES SavesAreAtomic RemovalWins DismissalsStand SectionsKept SwitchTakesEffect
