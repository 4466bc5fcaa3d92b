SPECIFICATION FairSpec
CONSTANTS
  Parts <- TwoParts
  Releases = {1, 2, 3}
  AllowDowngrade = FALSE
  MaxFaults = 2
  MaxChanges = 2
INVARIANTS TypeOK Recoverable RunningTreeWhole ReportedInstalled
PROPERTIES ComesUp
CHECK_DEADLOCK FALSE
