CONSTANTS
  north = north
  south = south
  young = young
  o1 = o1
  o2 = o2
  o3 = o3
  code = code
  Instance = instance
  Jobs <- LateJobs
  Options <- MCOptions
  Dimension <- MCDimension
  OptionsOf <- MCOptionsOf
  LowerCase <- MCLowerCase
  Codes = {code}
  MaxAttempts = 1
  MaxRedeliveries = 1
  MaxLosses = 0
  Unreliable <- Nowhere
  Late <- Nowhere
  LateDeliveries = TRUE
  Filters <- MCFilters
SPECIFICATION FairSpec
INVARIANTS
  RelationshipsAreUpserted
