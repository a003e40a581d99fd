SPECIFICATION Spec
CONSTANTS
  c1 = c1
  c2 = c2
  w1 = w1
  w2 = w2
  w3 = w3
  v1 = v1
  v2 = v2
  Chunk = {c1}
  Worker = {w1, w2, w3}
  Verdict = {v1, v2}
  NoWorker = NoWorker
  NoVerdict = NoVerdict
  MaxAttempts = 2
  Stage <- ProbeOnly
  Capability <- AllCapable
  OperatorChunks = {c1}
  SlowChunks = {}
  MaxOperatorActions = 1
SYMMETRY Symmetry
INVARIANTS WorkersBoundedByClicks CompletedHasResult
CHECK_DEADLOCK FALSE
