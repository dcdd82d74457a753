SPECIFICATION Spec
CONSTANTS
  root = root
  area = area
  leaf = leaf
  other = other
  stray = stray
  newest = i1
  Nodes = {root, area, leaf, other}
  Parent <- Tree
  Ordered = {leaf, area}
  Instances = {i1}
  Program <- NewOnly
  Strays = {stray}
  BatchSize = 2
  MaxAttempts = 2
  Unreliable <- Losable
  Refusable <- AllOperations
INVARIANTS
  ReadsAreFinal
  FinishedIsReadable
PROPERTIES
  BuildsAdvance
  BuildersEnd
  ImplementsInstanceHierarchy
