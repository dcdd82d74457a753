CONSTANTS
  north = north
  south = south
  young = young
  o1 = o1
  o2 = o2
  o3 = o3
  code = code
  Instance = instance
  Jobs <- ImportJobs
  Options <- MCOptions
  Dimension <- MCDimension
  OptionsOf <- MCOptionsOf
  LowerCase <- MCLowerCase
  Codes = {code}
  MaxAttempts = 2
  MaxRedeliveries = 1
  MaxLosses = 1
  Unreliable <- AllButEdges
  Late <- AllButDrops
  LateDeliveries = FALSE
  Filters <- MCFilters
SPECIFICATION FairSpec
INVARIANTS
  ImportIsExact
  FilteredRowsAreExact
PROPERTIES
  EveryRequestCounts
  CallsEnd
