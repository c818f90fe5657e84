SPECIFICATION VisibilitySpec
CONSTANTS
  Listings <- McListings
  NPages = 2
  SourceOf <- McSourceOf
  NVersions = 2
  Html <- McHtml
  Account = {a1}
  Page = {p1}
  Sale = {s1}
  NumberOf <- McNumberOf
  ItemOf <- McItemOf
INVARIANTS
  SkippedIsAttached
  StagedByItsPage
  NothingParsedIsLost
  QueueIsComplement
PROPERTY ManualStays
