SPECIFICATION Spec
CONSTANTS
  root = root
  area = area
  leaf = leaf
  other = other
  stray = stray
  newest = i1
  Nodes = {root, area, leaf}
  Parent <- Chain
  Ordered = {leaf, area}
  Instances = {i1, i2}
  Program <- NewAndOld
  Strays = {stray}
  BatchSize = 2
  MaxAttempts = 1
  Unreliable <- NoOperation
  Refusable <- NoOperation
INVARIANTS
  TypeOK
  HierarchyIsComplete
  HierarchiesAreApart
PROPERTIES
  ImplementsInstanceHierarchy
