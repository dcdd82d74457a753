---------------------------- MODULE HierarchyGraph ----------------------------
(***************************************************************************)
(* The statements the Neptune driver executes on hierarchies               *)
(* (neptune/query/query.go, sent by neptune/hierarchy.go and mapper.go),   *)
(* as operators on the graph.  Neptune executes a statement atomically.    *)
(*                                                                         *)
(* A generic node stands for its code too.  A vertex of an instance        *)
(* hierarchy is <<i, n, k>>: instance i, clone of generic node n, and k    *)
(* tells the clones of one node apart.  An edge is <<child, parent, k>>;   *)
(* Gremlin's addE adds an edge even when there is one already.             *)
(***************************************************************************)
EXTENDS Integers, FiniteSets

CONSTANTS Nodes,   \* the generic hierarchy nodes of the code list
          Parent,  \* pairs <<n, p>>: n hasParent p in the generic hierarchy
          Ordered  \* nodes whose code has an order in the code list

ASSUME GenericAssumption ==
  /\ IsFiniteSet(Nodes)
  /\ Parent \subseteq Nodes \X Nodes
  /\ Ordered \subseteq Nodes

\* What out('hasParent') reaches from S, repeated and emitted on the way: the
\* least set that holds the parents of S and of its own members.
Ancestors(R, S) ==
  LET targets == { e[2] : e \in R }
      Closed(T) == \A e \in R : e[1] \in S \cup T => e[2] \in T
  IN  { x \in targets : \A T \in SUBSET targets : Closed(T) => x \in T }

EmptyGraph ==
  [ vertices |-> {}, cloneOf |-> {}, edges |-> {}, hasData |-> {},
    remain |-> {}, ordered |-> {}, children |-> <<>>, hasCode |-> {} ]

OfInstance(g, i) == { v \in g.vertices : v[1] = i }

\* The least number that tells a new vertex or edge from those there are.
Fresh(taken) == CHOOSE k \in 1..(Cardinality(taken) + 1) :
                  k \notin taken /\ \A j \in 1..(k - 1) : j \in taken

------------------------------------------------------------------------------
(* Writes.                                                                 *)

\* addV ... addE('clone_of'), for every generic node in ids.
CloneVertices(g, i, ids, data) ==
  LET new == { <<i, n, Fresh({ v[3] : v \in { u \in g.vertices : u[1] = i /\ u[2] = n } })>>
               : n \in ids }
  IN  [g EXCEPT !.vertices = @ \cup new,
                !.cloneOf = @ \cup new,
                !.hasData = IF data THEN @ \cup new ELSE @]

\* coalesce(outE('hasCode'), addE('hasCode')): at most one edge is added.
CreateHasCodeEdges(g, ids) == [g EXCEPT !.hasCode = @ \cup ids]

\* in('clone_of') is not restricted to an instance.
CloneOrder(g, ids) ==
  [g EXCEPT !.ordered = @ \cup { v \in g.cloneOf : v[2] \in ids \cap g.hasCode \cap Ordered }]

CloneRelationships_anyInstance(g, i, ids) ==
  LET pairs == { e \in g.cloneOf \X g.cloneOf :
                   /\ e[1][1] = i
                   /\ e[1][2] \in ids
                   /\ <<e[1][2], e[2][2]>> \in Parent }
  IN  [g EXCEPT !.edges = @ \cup
        { <<e[1], e[2], Fresh({ f[3] : f \in { h \in g.edges : h[1] = e[1] /\ h[2] = e[2] } })>>
          : e \in pairs }]

CloneRelationships(g, i, ids) ==
  LET pairs == { e \in g.cloneOf \X g.cloneOf :
                   /\ e[1][1] = i /\ e[2][1] = i
                   /\ e[1][2] \in ids
                   /\ <<e[1][2], e[2][2]>> \in Parent }
  IN  [g EXCEPT !.edges = @ \cup
        { <<e[1], e[2], Fresh({ f[3] : f \in { h \in g.edges : h[1] = e[1] /\ h[2] = e[2] } })>>
          : e \in pairs }]

SetNumberOfChildren_onlyParents(g, vs) ==
  [g EXCEPT !.children =
     [ v \in DOMAIN @ \cup (vs \cap { e[2] : e \in g.edges }) |->
         IF v \in vs THEN Cardinality({ e \in g.edges : e[2] = v }) ELSE @[v] ]]

\* The count is taken over in('hasParent'), parallel edges included.
SetNumberOfChildren(g, vs) ==
  [g EXCEPT !.children =
     [ v \in DOMAIN @ \cup (vs \cap g.vertices) |->
         IF v \in vs THEN Cardinality({ e \in g.edges : e[2] = v }) ELSE @[v] ]]

RemoveCloneMarkers(g, vs) == [g EXCEPT !.cloneOf = @ \ vs]

\* The code reads the codes that have data and flags the vertices in a second
\* statement; which codes have data does not change while hierarchies are built.
SetHasData(g, i, codes) ==
  [g EXCEPT !.hasData = @ \cup { v \in OfInstance(g, i) : v[2] \in codes }]

\* The vertices with data and, along hasParent, all above them.
MarkNodesToRemain(g, i) ==
  LET data == OfInstance(g, i) \cap g.hasData
  IN  [g EXCEPT !.remain = @ \cup data \cup Ancestors(g.edges, data)]

RemoveNodesNotMarkedToRemain_dangling(g, i) ==
  LET gone == OfInstance(g, i) \ g.remain
  IN  [g EXCEPT !.vertices = @ \ gone, !.cloneOf = @ \ gone, !.hasData = @ \ gone]

\* drop() removes a vertex with its edges and properties.
RemoveNodesNotMarkedToRemain(g, i) ==
  LET gone == OfInstance(g, i) \ g.remain
  IN  [g EXCEPT !.vertices = @ \ gone,
                !.cloneOf = @ \ gone,
                !.edges = { e \in @ : e[1] \notin gone /\ e[2] \notin gone },
                !.hasData = @ \ gone,
                !.ordered = @ \ gone,
                !.children = [v \in DOMAIN @ \ gone |-> @[v]]]

RemoveRemainMarker_none(g, i) == g

RemoveRemainMarker(g, i) == [g EXCEPT !.remain = @ \ OfInstance(g, i)]

------------------------------------------------------------------------------
(* Reads.                                                                  *)

\* A code without a generic node has no ID, and that is no error.
GetGenericHierarchyNodeIDs(codes) == codes \cap Nodes

GetGenericHierarchyAncestriesIDs(codes) == Ancestors(Parent, codes)

\* getVertex on the result of a query: exactly one vertex, or an error.
TheVertex(vs) ==
  CASE vs = {}              -> [status |-> "ErrNotFound"]
    [] Cardinality(vs) = 1  -> [status |-> "ok", vertex |-> CHOOSE v \in vs : TRUE]
    [] OTHER                -> [status |-> "several"]

HierarchyExists(g, i) == OfInstance(g, i) # {}

CountNodes(g, i) == Cardinality(OfInstance(g, i))

Same(g, i, code) == { v \in OfInstance(g, i) : v[2] = code }

Roots(g, i) == { v \in OfInstance(g, i) : \A e \in g.edges : e[1] # v }

\* convertVertexToElement: what is shown of a vertex, which needs a number of
\* children; the order is optional.
Convertible(g, v) == v \in DOMAIN g.children

Element(g, v) ==
  [ id |-> v[2], noOfChildren |-> g.children[v], hasData |-> v \in g.hasData,
    ordered |-> v \in g.ordered ]

Unreadable == [status |-> "error"]

\* buildHierarchyNode reads in up to four statements, the last three of which
\* find vertices by code.  First, the vertex itself:
ReadVertex(g, found) ==
  CASE found.status # "ok"           -> found
    [] ~Convertible(g, found.vertex) -> Unreadable
    [] OTHER -> [ status |-> "ok", element |-> Element(g, found.vertex),
                  children |-> {}, breadcrumbs |-> {} ]

ChildEdges(g, i, code) == { e \in g.edges : e[2] \in Same(g, i, code) }

CountChildrenWithOrder(g, i, code) ==
  Cardinality({ e \in ChildEdges(g, i, code) : e[1] \in g.ordered })

\* The children, once for every edge.  To order them by order fails the
\* traversal when one has none.
ReadChildren(g, i, answer, byOrder) ==
  LET down == ChildEdges(g, i, answer.element.id)
  IN  IF \A e \in down : Convertible(g, e[1]) /\ (byOrder => e[1] \in g.ordered)
      THEN [answer EXCEPT !.children = { <<Element(g, e[1]), e[1][3], e[3]>> : e \in down }]
      ELSE Unreadable

buildBreadcrumbs(g, i, answer) ==
  LET crumbs == Ancestors(g.edges, Same(g, i, answer.element.id))
  IN  IF \A v \in crumbs : Convertible(g, v)
      THEN [answer EXCEPT !.breadcrumbs = { Element(g, v) : v \in crumbs }]
      ELSE Unreadable

\* All of it at one time.
HierarchyNode(g, i, found, wantBreadcrumbs) ==
  LET first    == ReadVertex(g, found)
      code     == first.element.id
      children == IF first.status = "ok" /\ first.element.noOfChildren > 0
                  THEN ReadChildren(g, i, first, CountChildrenWithOrder(g, i, code) > 0)
                  ELSE first
  IN  IF children.status = "ok" /\ wantBreadcrumbs
      THEN buildBreadcrumbs(g, i, children) ELSE children

GetHierarchyRoot(g, i) == HierarchyNode(g, i, TheVertex(Roots(g, i)), FALSE)

GetHierarchyElement(g, i, code) == HierarchyNode(g, i, TheVertex(Same(g, i, code)), TRUE)
==============================================================================
