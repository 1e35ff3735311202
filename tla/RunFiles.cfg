SPECIFICATION Spec
CONSTANTS
  MaxLogBytes = 2
  MaxOutput = 3
  MaxFaults = 1
  BundleLayout = 7
  MaxReviewBundleBytes = 12
  MaxUploads = 1
  Files = {"report"}
  Rules = {1, 2, 3}
  Required = {1, 2}
  Pattern <- MCPattern
  Priority <- MCPriority
INVARIANTS ClosedLogsAreWhole BundleOfEndedRunIsFinal SuccessShowsTheRequired UploadsLeaveNothing
\* The run ends.
CHECK_DEADLOCK FALSE
