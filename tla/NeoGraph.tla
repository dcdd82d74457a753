------------------------------- MODULE NeoGraph -------------------------------
(***************************************************************************)
(* The Cypher statements of the neo4j driver (neo4j/query/query.go), on    *)
(* the graph of one instance: what the import operations and the hierarchy *)
(* operations send.  A statement is a transaction: it is executed as a     *)
(* whole or, when it would break a unique constraint, not at all.          *)
(*                                                                         *)
(* The queries use neo4j 3 syntax, where creating a constraint that exists *)
(* already does nothing.  Nodes of one label are told apart by a number:   *)
(* CREATE adds a node even when there is one like it.                      *)
(***************************************************************************)
EXTENDS Integers, FiniteSets, Functions

CONSTANTS Options,      \* dimension options; the code of an option is the option
          Dimension,    \* the dimension of each option
          LowerCase,    \* the lower-case name of each dimension
          OptionsOf,    \* the options of each observation
          Codes,        \* codes of the code lists
          Nodes,        \* the codes of the generic hierarchy
          Parent,       \* pairs <<n, p>>: n hasParent p in the generic hierarchy
          Hierarchical  \* the dimension the hierarchy is built for

\* An observation has one option for each of its dimensions, and the services
\* send no observation without options: its statement would not be Cypher.
ASSUME NeoGraphAssumption ==
  /\ IsFiniteSet(Nodes) /\ Parent \subseteq Nodes \X Nodes
  /\ DOMAIN Dimension = Options
  /\ \A o \in Options : Dimension[o] \in DOMAIN LowerCase
  /\ \A r \in DOMAIN OptionsOf : OptionsOf[r] \subseteq Options /\ IsFiniteSet(OptionsOf[r])
  /\ Dimension \in [Options -> DOMAIN LowerCase \ {"observation", "hierarchy"}]
  /\ \A r \in DOMAIN OptionsOf :
       /\ OptionsOf[r] # {}
       /\ \A o, p \in OptionsOf[r] : LowerCase[Dimension[o]] = LowerCase[Dimension[p]] => o = p

Generic == INSTANCE HierarchyGraph WITH Ordered <- {}

Ancestors(R, S) == Generic!Ancestors(R, S)
Fresh(taken)    == Generic!Fresh(taken)

Observations == DOMAIN OptionsOf

\* An option node is <<value, ID, instance>> with the instance it is linked to
\* by HAS_DIMENSION, an observation <<rowIndex, k>>, a hierarchy node <<code, k>>.
EmptyGraph ==
  [ instances |-> {}, properties |-> {}, inDataset |-> {}, constraints |-> {},
    options |-> {}, observations |-> {}, isValueOf |-> {},
    nodes |-> {}, hasParent |-> {}, hasData |-> {}, remain |-> {}, children |-> <<>> ]

------------------------------------------------------------------------------
(* Constraints: created unless the nodes that exist break them.            *)

\* No two nodes of the label a constraint c is on have the same value.
Unique(g, c) ==
  CASE c = "observation" -> \A u, v \in g.observations : u[1] = v[1] => u = v
    [] c = "hierarchy"   -> \A u, v \in g.nodes : u[1] = v[1] => u = v
    [] OTHER             -> \A u, v \in g.options : u[1] = v[1] /\ Dimension[u[1]] = c => u = v

Constrain(g, c) == [g EXCEPT !.constraints = @ \cup {c}]

\* Executing a statement that turns g into h breaks a constraint.
Breaks(h) == \E c \in h.constraints : ~Unique(h, c)

------------------------------------------------------------------------------
(* Import.                                                                 *)

\* CREATE: with no look at what exists, and no constraint on instances.
CreateInstance(g) == [g EXCEPT !.instances = @ \cup {Fresh(@)}]

\* MATCH finds every node of the instance.
SetProperties(g, op) == [g EXCEPT !.properties = @ \cup (g.instances \X {op})]

CreateCodeRelationship(g, code) ==
  [g EXCEPT !.inDataset = @ \cup
     { <<code, i, Fresh({ e[3] : e \in { f \in @ : f[1] = code /\ f[2] = i } })>>
       : i \in IF code \in Codes THEN g.instances ELSE {} }]

\* One option node for every node of the instance.
NewOptions(g, o) ==
  { <<o, Cardinality(g.options) + i, i>> : i \in g.instances }

InsertDimension(g, o) == [g EXCEPT !.options = @ \cup NewOptions(g, o)]

\* The option nodes row.dim matches: the ID, and the label with the name of
\* the dimension in lower case.
Matched(g, o, id) ==
  { n \in g.options : n[2] = id /\ Dimension[n[1]] = LowerCase[Dimension[o]] }

\* The names a row has in the parameters of the statement.
Names(r) == { LowerCase[Dimension[o]] : o \in OptionsOf[r] }

\* UNWIND the rows, MATCH the options of a row, CREATE the observation and its
\* links, as often as the row is in the batch.  The statement names the
\* dimensions of the first row: a row that has no option for one of them, or
\* has one that is not matched, is passed over, and other options are left out.
InsertObservations(g, rows, ids) ==
  LET names    == Names(rows[1])
      named(r) == { o \in OptionsOf[r] : LowerCase[Dimension[o]] \in names }
      found    == { r \in Range(rows) : /\ names \subseteq Names(r)
                                       /\ \A o \in named(r) : Matched(g, o, ids[o]) # {} }
      there(r) == Cardinality({ v \in g.observations : v[1] = r })
      times(r) == Cardinality({ i \in DOMAIN rows : rows[i] = r })
      nodes(r) == { <<r, there(r) + k>> : k \in 1..times(r) }
  IN  [g EXCEPT !.observations = @ \cup UNION { nodes(r) : r \in found },
                !.isValueOf = @ \cup
                   UNION { nodes(r) \X UNION { Matched(g, o, ids[o]) : o \in named(r) } : r \in found }]

------------------------------------------------------------------------------
(* Hierarchy.                                                              *)

\* MERGE with hasData:false in the pattern: a node that has been given data is
\* not found, and another one would be created.
CloneNodes(g) ==
  LET found(n) == \E v \in g.nodes \ g.hasData : v[1] = n
  IN  [g EXCEPT !.nodes = @ \cup
         { <<n, Fresh({ v[2] : v \in { u \in g.nodes : u[1] = n } })>> : n \in { m \in Nodes : ~found(m) } }]

CloneRelationships(g) ==
  [g EXCEPT !.hasParent = @ \cup { e \in g.nodes \X g.nodes : <<e[1][1], e[2][1]>> \in Parent }]

SetNumberOfChildren(g) ==
  [g EXCEPT !.children = [v \in g.nodes |-> Cardinality({ e \in g.hasParent : e[2] = v })]]

\* A node whose code is the value of an option has data.
SetHasData(g) ==
  [g EXCEPT !.hasData = @ \cup
     { v \in g.nodes : \E n \in g.options : n[1] = v[1] /\ Dimension[n[1]] = Hierarchical }]

MarkNodesToRemain_parentsOnly(g) ==
  [g EXCEPT !.remain = @ \cup UNION { {e[1], e[2]} : e \in { f \in g.hasParent : f[1] \in g.hasData } }]

\* (parent)<-[:hasParent*]-(child with data): both ends of every such path.
MarkNodesToRemain(g) ==
  [g EXCEPT !.remain = @ \cup Ancestors(g.hasParent, g.hasData)
                         \cup { e[1] : e \in { f \in g.hasParent : f[1] \in g.hasData } }]

\* DETACH DELETE
RemoveNodesNotMarkedToRemain(g) ==
  LET gone == g.nodes \ g.remain
  IN  [g EXCEPT !.nodes = @ \ gone,
                !.hasParent = { e \in @ : e[1] \notin gone /\ e[2] \notin gone },
                !.hasData = @ \ gone,
                !.children = [v \in DOMAIN @ \ gone |-> @[v]]]

RemoveRemainMarker(g) == [g EXCEPT !.remain = {}]

------------------------------------------------------------------------------
(* Reads.                                                                  *)

InstanceExists(g) == Cardinality(g.instances) >= 1

CountInsertedObservations(g) == Cardinality(g.observations)

CountNodes(g) == Cardinality(g.nodes)

HierarchyExists(g) == g.nodes # {}

NotFound == [status |-> "ErrNotFound"]

\* A property that is missing reads as zero (mapper.getint64Property).
Element(g, v) ==
  [ id |-> v[1], hasData |-> v \in g.hasData,
    noOfChildren |-> IF v \in DOMAIN g.children THEN g.children[v] ELSE 0 ]

\* Of several rows the last is kept; the children are found by code, and none
\* is no error.
queryResponse(g, vs) ==
  IF vs = {} THEN NotFound
  ELSE LET v == CHOOSE u \in vs : TRUE
       IN  [ status |-> "ok", element |-> Element(g, v), breadcrumbs |-> {},
             children |-> { Element(g, e[1]) : e \in { f \in g.hasParent : f[2][1] = v[1] } } ]

GetHierarchyRoot(g) == queryResponse(g, { v \in g.nodes : \A e \in g.hasParent : e[1] # v })

\* getAncestry finds no row for a root, and that is an error here.
GetHierarchyElement(g, code) ==
  LET same == { v \in g.nodes : v[1] = code }
      up   == Ancestors(g.hasParent, same)
  IN  IF same = {} \/ up = {} THEN NotFound
      ELSE [queryResponse(g, same) EXCEPT !.breadcrumbs = { Element(g, v) : v \in up }]
==============================================================================
