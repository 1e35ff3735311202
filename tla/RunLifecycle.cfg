SPECIFICATION MCFairSpec
CONSTANTS
  r1 = r1
  r2 = r2
  w1 = w1
  p1 = p1
  Runs = {r1, r2}
  Workspaces = {w1}
  Profiles = {p1}
  WorkspaceOf <- MCWorkspaceOf
  ProfileOf <- MCProfileOf
  GlobalConcurrency = 2
  ProfileConcurrency <- MCProfileConcurrency
  MaxQueueSize = 1
  MaxRestarts = 1
INVARIANTS InFlightWithinLimits RowsMatchMemory ShutdownSettlesRuns
PROPERTIES KeepsContract WorkspaceOrder EveryRunEnds ShutdownEnds
\* Every run may have ended, and none is created twice: the daemon may come to rest.
CHECK_DEADLOCK FALSE
