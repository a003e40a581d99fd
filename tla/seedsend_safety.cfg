SPECIFICATION Spec
CONSTANTS
  r1 = r1
  r2 = r2
  d1 = d1
  d2 = d2
  NoRecipient = NoRecipient
  Recipient = {r1, r2}
  Dispatcher = {d1, d2}
  BatchSize = 2
  EventKind = {}
  MaxRetries = 1
  MaxClicks = 0
  MaxDeaths = 2
SYMMETRY Symmetry
INVARIANTS TypeOK MailsBounded LateMailsBounded LedgerSettled
CHECK_DEADLOCK FALSE
