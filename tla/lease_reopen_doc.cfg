SPECIFICATION Spec
CONSTANTS
  c1 = c1
  c2 = c2
  w1 = w1
  w2 = w2
  w3 = w3
  v1 = v1
  v2 = v2
  Chunk = {c1}
  Worker = {w1, w2}
  Verdict = {v1}
  NoWorker = NoWorker
  NoVerdict = NoVerdict
  MaxAttempts = 2
  Stage <- ScreeningOnly
  Capability <- AllCapable
  OperatorChunks = {}
  SlowChunks = {c1}
  MaxOperatorActions = 0
PROPERTY CompletedIsFinal
CHECK_DEADLOCK FALSE
