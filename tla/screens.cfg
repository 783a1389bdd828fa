SPECIFICATION FairScreensSpec
CONSTANTS
  MaxLinks = 6
  MaxFeed = 2
  MaxAsked = 1
INVARIANTS
  OneGameConnection
PROPERTIES
  CloseIsNoticed
CHECK_DEADLOCK FALSE
