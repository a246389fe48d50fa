CONSTANTS
  Accounts = {a1, a2}
  Stored = {a1, a2}
  Deletable = {}
  Lists = {l1}
  RenewalChoices = {}
  Unreadable = TRUE
  None = None
  MaxAlternates = 1
  MaxGen = 2
  MaxSignIns = 1
  MaxFaults = 1
  MaxCrashes = 1
  People = {e1}
  Nobody = Nobody
  MaxCards = 2
  MaxGranted = 1
  MaxRoutes = 1
  Scenes = {"renewing", "switching"}
SPECIFICATION SceneSpec
CHECK_DEADLOCK FALSE
SYMMETRY Symmetry
INVARIANT LiveWhole
PROPERTIES OtherPoolLoginsStayOut
