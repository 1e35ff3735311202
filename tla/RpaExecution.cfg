SPECIFICATION FairSpec
CONSTANTS
  Subscribers = {s1}
  MaxLines = 2
  MaxEvents = 1
  MaxFaults = 2
INVARIANTS StreamsAreComplete SuccessIsEarned
PROPERTIES ExecutionsEnd
\* The execution ends.
CHECK_DEADLOCK FALSE
