SPECIFICATION QueueSpec
CONSTANTS
  r1 = r1
  r2 = r2
  r3 = r3
  r4 = r4
  w1 = w1
  w2 = w2
  w3 = w3
  p1 = p1
  p2 = p2
  Runs = {r1, r2, r3, r4}
  Workspaces = {w1, w2, w3}
  Profiles = {p1, p2}
  WorkspaceOf <- MCWorkspaceOf
  ProfileOf <- MCProfileOf
  GlobalConcurrency = 2
  ProfileConcurrency <- MCProfileConcurrency
INVARIANTS SelectionIsTheLoop
PROPERTIES DispatchIsMaximal
\* Every run ends and none is created again: the scheduler may come to rest.
CHECK_DEADLOCK FALSE
