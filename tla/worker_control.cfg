SPECIFICATION FairSpec
CONSTANTS
  Orders <- MCOrders
  MaxConcurrency = 1
  MaxClicks = 2
  MaxFaults = 1
INVARIANTS TypeOK QuarantineNeverRuns IncidentsAreOwned
PROPERTIES QuarantineIsObeyed Converges DownIsReported IncidentsEnd
CHECK_DEADLOCK FALSE
