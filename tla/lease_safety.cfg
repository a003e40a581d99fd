SPECIFICATION Spec
CONSTANTS
  c1 = c1
  c2 = c2
  w1 = w1
  w2 = w2
  w3 = w3
  v1 = v1
  v2 = v2
  Chunk = {c1, c2}
  Worker = {w1, w2}
  Verdict = {v1, v2}
  NoWorker = NoWorker
  NoVerdict = NoVerdict
  MaxAttempts = 2
  Stage <- MCStage
  Capability <- AllCapable
  OperatorChunks = {}
  SlowChunks = {c1}
  MaxOperatorActions = 0
SYMMETRY Symmetry
INVARIANTS TypeOK ExclusiveProcessing ResultIsOneVerification WorkingWorkerHoldsLease AttemptsBounded ProcessingHasLease AttemptHeldOnce
PROPERTIES QuietLifecycle AbandonedStays
CHECK_DEADLOCK FALSE
