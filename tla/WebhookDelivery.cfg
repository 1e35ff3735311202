SPECIFICATION FairSpec
CONSTANTS
  Deliveries = {d1, d2}
  MaxAttempts = 2
  ClaimLimit = 2
  Concurrency = 1
  LockTicks = 1
  BackoffTicks = 1
  MaxFaults = 1
  MaxQueries = 1
INVARIANTS NoDeliverySleeps
PROPERTIES KeepsDeliveryContract DeliveriesEndUnlessDeaf
\* No more deliveries are created once every one is, and the worker may come to rest.
CHECK_DEADLOCK FALSE
