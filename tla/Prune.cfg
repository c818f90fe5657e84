SPECIFICATION WarehouseSpec
CONSTANTS
  Listings <- McListings
  NPages = 3
  SourceOf <- McSourceOf
  NVersions = 2
  Html <- McHtml
INVARIANT PruneTakesCompleteSnapshot
