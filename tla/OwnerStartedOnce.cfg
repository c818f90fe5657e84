SPECIFICATION OwnerSpec
CONSTANTS
  MaxRefreshes = 3
  Backlog = 6
  MaxTries = 21
  MaxFaults = 0
PROPERTY OwnerStartedOnce
