SPECIFICATION FairSpec
CONSTANTS
  a = a
  b = b
  c = c
  Email = {a, b, c}
  Cached = {c}
  HardInvalid = {b}
  Flapping = {}
  Domain <- Domains
  ChunkSize = 1
  MaxAttempts = 2
  MaxProbeAttempts = 2
  ProbeSettings = {TRUE}
  RetrySettings = {TRUE, FALSE}
  CacheOnlySettings = {TRUE, FALSE}
  EarlyResults = FALSE
  Deaths = {"prepared"}
  Administered = FALSE
  MaxParses = 2
  FailingChunks = {1, 3}
INVARIANTS OneOwner FinalizationComes
PROPERTIES JobKeepsContract EventuallyFinal
CHECK_DEADLOCK FALSE
