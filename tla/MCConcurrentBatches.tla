------------------------- MODULE MCConcurrentBatches -------------------------
(* Items are numbers; neighbours share a result entry, so that results of  *)
(* different chunks overlap.                                               *)
EXTENDS ConcurrentBatches

CONSTANT NumItems
MCItems == 1..NumItems
MCYield == [i \in MCItems |-> {i, i + 1}]
==============================================================================
