SPECIFICATION EvidenceSpec
CONSTANTS
  Session = {s1, s2}
  Free = Free
  MaxReports = 2
  MaxSaves = 2
PROPERTIES
  ReadClaimsAreKept
  RestIsKept
  AppliesEnd
