-------------------------- MODULE MCHierarchyBuilder --------------------------
EXTENDS HierarchyBuilder

\* A tree of three levels: leaf below area below root, and other below root.
CONSTANTS root, area, leaf, other, stray

Tree  == { <<leaf, area>>, <<area, root>>, <<other, root>> }
Chain == { <<leaf, area>>, <<area, root>> }
Edge  == { <<leaf, root>> }

NewOnly == [i \in Instances |-> NewProgram]

CONSTANT newest
NewAndOld == [i \in Instances |-> IF i = newest THEN NewProgram ELSE OldProgram]

\* Two of the repeatable operations: the ones whose statements write what is read.
Losable == {"CloneOrderFromIDs", "SetNumberOfChildrenFromIDs"}
AllOperations == Operations
Clones == {"CloneNodesFromIDs(data)"}
NoOperation == {}
==============================================================================
