SPECIFICATION MCFairSpec
CONSTANTS
  n1 = n1
  c1 = c1
  Writers = {n1, c1}
  NlSessions = {n1}
  CodegenSessions = {c1}
  Imports = {i1}
  Executions = {e1}
  MaxDeletes = 1
  MaxFaults = 1
  MaxTasks = 3
  None = None
INVARIANTS OneRunPerSession ImportsAwaitVerification FlowSurvives
PROPERTIES SessionsRest
\* The requests are bounded.
CHECK_DEADLOCK FALSE
