--------------------------- MODULE InstanceHierarchy ---------------------------
(***************************************************************************)
(* What building instance hierarchies promises: the hierarchy of an        *)
(* instance appears once, as the part of the generic hierarchy that has    *)
(* data or lies above data, and then never changes; or the build fails.    *)
(***************************************************************************)
EXTENDS Integers, FiniteSets

CONSTANTS Instances, Nodes, Parent, Ordered,
          Ancestors(_, _),  \* what hasParent reaches
          Sorted            \* the instances whose builder copies the order

VARIABLES data,      \* the codes each instance has data for
          hierarchy  \* what has become of the hierarchy of each instance

vars == <<data, hierarchy>>

Induced(codes, order) ==
  LET kept  == codes \cup Ancestors(Parent, codes)
      edges == Parent \cap (kept \X kept)
  IN  [ state    |-> "ready",
        nodes    |-> kept,
        edges    |-> edges,
        hasData  |-> codes,
        children |-> [n \in kept |-> Cardinality({ e \in edges : e[2] = n })],
        ordered  |-> order ]

Absent == [state |-> "absent"]
Failed == [state |-> "failed"]

Init ==
  /\ data \in [Instances -> SUBSET Nodes]
  /\ hierarchy = [i \in Instances |-> Absent]

Finish(i) ==
  /\ hierarchy[i] = Absent
  /\ \E order \in SUBSET (Ordered \cap (data[i] \cup Ancestors(Parent, data[i]))) :
       /\ i \in Sorted => order = Ordered \cap (data[i] \cup Ancestors(Parent, data[i]))
       /\ hierarchy' = [hierarchy EXCEPT ![i] = Induced(data[i], order)]
  /\ UNCHANGED data

Fail(i) ==
  /\ hierarchy[i] = Absent
  /\ hierarchy' = [hierarchy EXCEPT ![i] = Failed]
  /\ UNCHANGED data

Next == \E i \in Instances : Finish(i) \/ Fail(i)

Spec == Init /\ [][Next]_vars
==============================================================================
