SPECIFICATION StreamSpec
CONSTANTS
  InactivityTimeout = TRUE
  Clients = {c1}
  BufferSize = 2
  MaxEvents = 3
INVARIANTS TimersAreExact OnlyTrimmedEventsAreMissed
PROPERTIES KeepsRunnerContract StreamsEnd
\* The stream of a finished run is dropped, and its child is closed.
CHECK_DEADLOCK FALSE
