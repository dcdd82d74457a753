------------------------------ MODULE MCNeoStore ------------------------------
(* A few sets of jobs that meet on the same part of the graph; each        *)
(* behaviour of the run is about one of them.                              *)
EXTENDS NeoStore

MCDimension == [o \in {"leaf", "area", "county", "young", "UK"} |->
                  CASE o = "young" -> "age" [] o = "UK" -> "Nation" [] OTHER -> "geography"]
MCLowerCase == [d \in {"geography", "age", "Nation"} |-> IF d = "Nation" THEN "nation" ELSE d]
MCOptionsOf == [r \in {"r1", "r2", "r3", "r4"} |->
                  CASE r = "r1" -> {"leaf", "young"} [] r = "r4" -> {"UK"} [] OTHER -> {"young"}]

\* The generic hierarchy: root over area and county, leaf in area.
MCNodes  == {"root", "area", "county", "leaf"}
MCParent == { <<"leaf", "area">>, <<"area", "root">>, <<"county", "root">> }

Job(op, arg, copy) == [op |-> op, arg |-> arg, copy |-> copy]
CreateOnce   == Job("CreateInstance", <<>>, 1)
Insert(o)    == Job("InsertDimension", <<o>>, 1)
Batch(rows)  == Job("InsertObservationBatch", rows, 1)
Build        == Job("BuildHierarchy", <<>>, 1)

\* Three services insert options of one dimension, two of them the same.
SameDimension ==
  { CreateOnce, Insert("leaf"), Insert("area"), Job("InsertDimension", <<"leaf">>, 2) }

\* Two batches with a row in common.
OverlappingBatches ==
  { CreateOnce, Job("CreateInstanceConstraint", <<>>, 1), Insert("young"),
    Batch(<<"r2", "r3">>), Batch(<<"r3">>) }

\* A row that is there twice in its batch; rows that differ in their dimensions.
TwiceInBatch ==
  { CreateOnce, Job("CreateInstanceConstraint", <<>>, 1), Insert("young"), Batch(<<"r3", "r3">>) }
MoreFirst == { CreateOnce, Insert("leaf"), Insert("young"), Batch(<<"r1", "r3">>) }
LessFirst == { CreateOnce, Insert("leaf"), Insert("young"), Batch(<<"r3", "r1">>) }

\* A row with two options; a row whose dimension has an upper-case name; no row.
TwoOptions   == { CreateOnce, Insert("leaf"), Insert("young"), Batch(<<"r1">>) }
OtherBatches == { CreateOnce, Insert("UK"), Batch(<<"r4">>), Batch(<<>>) }

\* CREATE makes an instance node whether there is one or not.
TwoInstances ==
  { CreateOnce, Job("CreateInstance", <<>>, 2), Job("AddDimensions", <<>>, 1),
    Job("SetInstanceIsPublished", <<>>, 1), Job("AddVersionDetailsToInstance", <<>>, 1) }
TwoNodes == { CreateOnce, Job("CreateInstance", <<>>, 2), Insert("young"), Batch(<<"r3">>) }

TwoLinks ==
  { CreateOnce, Job("CreateCodeRelationship", <<"leaf">>, 1),
    Job("CreateCodeRelationship", <<"leaf">>, 2), Job("CreateCodeRelationship", <<"none">>, 1) }

Hierarchy(data) == {CreateOnce, Build} \cup { Insert(o) : o \in data }

MCWorkloads ==
  { SameDimension, OverlappingBatches, TwiceInBatch, MoreFirst, LessFirst, TwoOptions, OtherBatches,
    TwoInstances, TwoNodes, TwoLinks,
    Hierarchy({"leaf"}), Hierarchy({"area"}), Hierarchy({"leaf", "county"}),
    Hierarchy({"leaf", "area"}) }
==============================================================================
