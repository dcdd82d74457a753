SPECIFICATION Spec
CONSTANTS
  root = root
  area = area
  leaf = leaf
  other = other
  stray = stray
  newest = i1
  Nodes = {root, leaf}
  Parent <- Edge
  Ordered = {leaf, root}
  Instances = {i1}
  Program <- NewOnly
  Strays = {stray}
  BatchSize = 1
  MaxAttempts = 2
  Unreliable <- Clones
  Refusable <- NoOperation
INVARIANT OneClonePerNode
