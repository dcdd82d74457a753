CONSTANTS
  Options = {"leaf", "area", "county", "young", "UK"}
  Dimension <- MCDimension
  LowerCase <- MCLowerCase
  OptionsOf <- MCOptionsOf
  Codes = {"leaf"}
  Nodes <- MCNodes
  Parent <- MCParent
  Hierarchical = "geography"
  Workloads <- MCWorkloads
  MaxRetries = 2
  MaxRedeliveries = 1
  MaxLosses = 1
SPECIFICATION FairSpec
INVARIANTS
  TypeOK
  ReportIsExact
  DimensionsAreExact
  ObservationsAreExact
PROPERTIES
  ImplementsInstanceHierarchy
  EveryStepCounts
  CallsEnd
