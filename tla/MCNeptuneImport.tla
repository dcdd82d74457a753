--------------------------- MODULE MCNeptuneImport ---------------------------
EXTENDS NeptuneImport

CONSTANTS north, south, young,  \* the options of two dimensions
          o1, o2, o3,           \* observations
          code

MCOptions   == {north, south, young}
MCDimension == [d \in MCOptions |-> IF d = young THEN "age" ELSE "geography"]
MCOptionsOf == [o \in {o1, o2, o3} |-> IF o = o2 THEN {south, young} ELSE {north, young}]
MCLowerCase == [d \in MCOptions |-> d]

Job(op, arg, copy) == [op |-> op, arg |-> arg, copy |-> copy]

\* Two services create the instance and insert north at the same time.
ImportJobs ==
  { Job("CreateInstance", <<>>, 1), Job("CreateInstance", <<>>, 2),
    Job("InsertDimension", <<north>>, 1), Job("InsertDimension", <<north>>, 2),
    Job("InsertDimension", <<south>>, 1), Job("InsertDimension", <<young>>, 1),
    Job("CreateCodeRelationship", <<code>>, 1),
    Job("InsertObservationBatch", <<o1, o2>>, 1), Job("InsertObservationBatch", <<o3>>, 1),
    Job("SetInstanceIsPublished", <<>>, 1) }

LateJobs ==
  { Job("CreateInstance", <<>>, 1), Job("InsertDimension", <<north>>, 1),
    Job("InsertDimension", <<young>>, 1), Job("InsertObservationBatch", <<o1>>, 1),
    Job("InsertObservationBatch", <<o3, o3>>, 1) }

MCFilters == { <<g, a>> : g \in SUBSET {north, south}, a \in SUBSET {young} }

\* All statements but the one that adds the edges of observations.
AllButEdges ==
  { "checkInstance", "createInstance", "getDimension", "dropDimension", "createDimension",
    "createDimensionEdge", "getCode", "createCodeEdge", "setProperties", "getObservations",
    "getObservationsEdges", "dropObservations", "addObservationNodes" }
Nowhere == {}

\* Late, a drop takes away what has been inserted since.
AllButDrops ==
  { "createInstance", "createDimension", "createDimensionEdge", "createCodeEdge", "setProperties",
    "addObservationNodes" }
==============================================================================
