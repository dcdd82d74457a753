CONSTANTS
  DriverChoices = {"neo4j", "neptune", "mock", "none"}
  Workloads <- MCWorkloads
  PoolSize = 1
  Sizes = {2, 3}
  Databases <- MCDatabases
  MaxEdits = 1
  MaxResponses = 2
  MaxNews = 1
SPECIFICATION FairSpec
INVARIANTS
  NothingStaysOpen
  StreamIsExact
  AnswersAreRight
PROPERTIES
  CallsEnd
