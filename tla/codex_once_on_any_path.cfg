CONSTANTS
  HostOnly = FALSE
  Accounts = {a1}
  Refreshes = {r1}
  Attempts = {q1}
  Choices = {"once"}
  Providers = {}
  None = None
  MaxGen = 3
  MaxCard = 1
  MaxSignIns = 0
  MaxFaults = 0
SPECIFICATION Spec
PROPERTIES OnceIsUsedUp
