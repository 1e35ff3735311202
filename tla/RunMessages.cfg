SPECIFICATION FairSpec
CONSTANTS
  Messages = {1, 2}
  MaxMessages = 2
  MaxBlocks = 3
INVARIANTS ToldOnce RowsFollowMessages EndedMessagesAreWhole
PROPERTIES OutputIsStored
\* The run ends.
CHECK_DEADLOCK FALSE
