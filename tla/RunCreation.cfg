SPECIFICATION Spec
CONSTANTS
  Calls = {1, 2, 3}
  NoKey = NoKey
  Keys = {k}
  Prompts = {1, 4}
  PoolMax = 2
  MaxQueueSize = 1
  MaxFaults = 1
INVARIANTS KeyNamesOneRun DefaultTurnsInOrder ContextIsNewestPart NoCircularWait NothingElseIsAwaited
\* Every call may have been answered and every run have ended.
CHECK_DEADLOCK FALSE
