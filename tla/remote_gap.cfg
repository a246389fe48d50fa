CONSTANTS
  Accounts = {a1}
  Stored = {a1}
  Syncs = {s1}
  Tasks = {t1}
  None = None
  MaxAttempts = 3
  MaxGen = 2
  MaxEdits = 0
  MaxStops = 0
SPECIFICATION Spec
CHECK_DEADLOCK FALSE
PROPERTY UploadKeepsRenewals
