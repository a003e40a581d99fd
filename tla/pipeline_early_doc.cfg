SPECIFICATION Spec
CONSTANTS
  a = a
  b = b
  c = c
  Email = {a, b}
  Cached = {}
  HardInvalid = {}
  Flapping = {}
  Domain <- Domains
  ChunkSize = 1
  MaxAttempts = 2
  MaxProbeAttempts = 1
  ProbeSettings = {FALSE}
  RetrySettings = {TRUE}
  CacheOnlySettings = {FALSE}
  EarlyResults = TRUE
  Deaths = {}
  Administered = FALSE
  MaxParses = 1
  FailingChunks = {1, 2, 3, 4, 5, 6}
INVARIANT DeliveredOnce
CHECK_DEADLOCK FALSE
