SPECIFICATION OwnerSpec
CONSTANTS
  MaxRefreshes = 3
  Backlog = 2
  MaxTries = 2
  MaxFaults = 2
INVARIANT OwnerTypeOK
PROPERTY ServingOwnerIsKept
PROPERTY EnsureEnds
