CONSTANTS
  HostOnly = FALSE
  Accounts = {a1, a2}
  Refreshes = {r1}
  Attempts = {q1}
  Choices = {"once"}
  Providers = {p1}
  None = None
  MaxGen = 3
  MaxCard = 2
  MaxSignIns = 1
  MaxFaults = 1
SPECIFICATION SceneSpec
SYMMETRY Symmetry
INVARIANTS RenewalKept WaitingNotContacted SelectionFollowsLive
PROPERTIES LateAnswerNeverReverts RenewalNeverMovesLive
