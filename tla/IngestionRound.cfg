SPECIFICATION RoundSpec
CONSTANTS
  Listings <- McListings
  NPages = 2
  SourceOf <- McSourceOf
  NVersions = 1
  Html <- McHtml
  Rounds = {r1, r2}
  NoRound = NoRound
  MaxCommands = 2
INVARIANTS
  EvidenceCoversOwn
  SuccessorsReportOnce
  QuietRoundAddsUp
