SPECIFICATION OwnerSpec
CONSTANTS
  MaxRefreshes = 3
  Backlog = 2
  MaxTries = 2
  MaxFaults = 1
PROPERTY ServingOwnerIsKept
PROPERTY EnsureEnds
