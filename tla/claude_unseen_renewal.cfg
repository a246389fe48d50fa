CONSTANTS
  People = {e1}
  Nobody = Nobody
  MaxAlternates = 3
  MaxCards = 2
  MaxGranted = 2
  MaxRoutes = 1
SPECIFICATION IdentitiesSpec
CHECK_DEADLOCK FALSE
PROPERTY RenewalsReachCode
