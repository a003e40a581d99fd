SPECIFICATION Spec
CONSTANTS
  a = a
  b = b
  c = c
  Email = {a, b, c}
  Cached = {}
  HardInvalid = {c}
  Flapping = {}
  Domain <- Domains
  ChunkSize = 2
  MaxAttempts = 2
  MaxProbeAttempts = 1
  ProbeSettings = {TRUE}
  RetrySettings = {TRUE}
  CacheOnlySettings = {FALSE}
  EarlyResults = FALSE
  Deaths = {"probe_saved", "finalizing"}
  Administered = TRUE
  MaxParses = 2
  FailingChunks = {1}
INVARIANTS TypeOK DeliveredOnce OneOwner
CHECK_DEADLOCK FALSE
