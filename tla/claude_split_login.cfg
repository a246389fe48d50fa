CONSTANTS
  Accounts = {a1, a2}
  Stored = {a1, a2}
  Deletable = {}
  Lists = {l1}
  RenewalChoices = {}
  Unreadable = FALSE
  None = None
  MaxAlternates = 3
  MaxGen = 2
  MaxSignIns = 0
  MaxFaults = 0
  MaxCrashes = 0
SPECIFICATION Spec
CHECK_DEADLOCK FALSE
PROPERTY OtherPoolLoginsStayOut
