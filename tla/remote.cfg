CONSTANTS
  Accounts = {a1}
  Stored = {a1}
  Syncs = {s1}
  Tasks = {t1, t2}
  None = None
  MaxAttempts = 3
  MaxGen = 3
  MaxEdits = 1
  MaxStops = 1
  ServerIds = {e1, e2}
  Sites <- MachineSites
  Wrong = Wrong
  Forms <- CardForms
  Jobs = {j1, j2}
  MaxSaves = 2
  MaxMishaps = 1
SPECIFICATION HalvesSpec
CHECK_DEADLOCK FALSE
SYMMETRY Symmetry
INVARIANT RemotesKept
PROPERTIES CheckedUploadMerged NewestKept PoolMovesForward
