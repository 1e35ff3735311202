SPECIFICATION PageSpec
CONSTANTS
  MaxStarts = 3
  MaxReconnects = 1
  Scenes <- MCScenes
INVARIANTS PackagesRoundTrip RunsWhatTheFormShows ReportsAreEarned
PROPERTIES VerificationIsReported
\* The user need do nothing more, and the page comes to rest.
CHECK_DEADLOCK FALSE
