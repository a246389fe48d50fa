CONSTANTS
  Accounts = {a1}
  Stored = {a1}
  Deletable = {a1}
  Lists = {l1}
  RenewalChoices = {"once"}
  Unreadable = FALSE
  None = None
  MaxAlternates = 1
  MaxGen = 3
  MaxSignIns = 0
  MaxFaults = 1
  MaxCrashes = 0
  People = {e1}
  Nobody = Nobody
  MaxCards = 2
  MaxGranted = 2
  MaxRoutes = 1
  Scenes = {"refreshing", "naming"}
SPECIFICATION SceneSpec
CHECK_DEADLOCK FALSE
INVARIANT SceneTypeOK
PROPERTIES LoginsSettle RenewalReachesClaude IdentifiedOnce UsableKept
