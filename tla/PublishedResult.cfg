SPECIFICATION IngestSpec
CONSTANTS
  Account = {a1}
  Nobody = Nobody
  MaxTabs = 1
  MaxJobs = 1
  MaxFaults = 0
PROPERTY PublishedStays
