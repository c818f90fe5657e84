SPECIFICATION IngestSpec
CONSTANTS
  Account = {a1, a2}
  Nobody = Nobody
  MaxTabs = 1
  MaxJobs = 2
  MaxFaults = 1
INVARIANT IngestTypeOK
PROPERTIES
  StatusMovesOn
  UndisturbedJobEnds
