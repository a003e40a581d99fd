SPECIFICATION FairSpec
CONSTANTS
  r1 = r1
  r2 = r2
  d1 = d1
  d2 = d2
  NoRecipient = NoRecipient
  Recipient = {r1, r2}
  Dispatcher = {d1}
  BatchSize = 1
  EventKind = {"bounced"}
  MaxRetries = 0
  MaxClicks = 1
  MaxDeaths = 1
INVARIANT Driven
PROPERTIES OutcomeSurvives EventuallyAtRest
CHECK_DEADLOCK FALSE
