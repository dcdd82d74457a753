------------------------ MODULE HierarchyBuilderProofs ------------------------
(***************************************************************************)
(* Proofs about HierarchyBuilder, for any number of builders, codes and    *)
(* batches.                                                                *)
(*                                                                         *)
(* The first part holds whatever operations the programs call in whatever  *)
(* order, and whatever is refused, lost, sent again or executed late: the  *)
(* types, and that no hierarchy is ever linked with another one.           *)
(*                                                                         *)
(* The second part is about builders that follow one of the two programs   *)
(* and lose only answers of repeatable operations: what they have made of  *)
(* the graph at every step, hence that finished hierarchies are complete,  *)
(* that what is read of them is final, that the building implements        *)
(* InstanceHierarchy, and that hierarchies built from codes can be read.   *)
(***************************************************************************)
EXTENDS HierarchyBuilder, FiniteSetLemmas

------------------------------------------------------------------------------
(* The number that tells a new vertex or edge from those there are.        *)

\* There is one for any finite set: a new element is never an old one.
LEMMA FreshIsNew ==
  ASSUME NEW taken, IsFiniteSet(taken)
  PROVE  Fresh(taken) \in Nat \ {0} /\ Fresh(taken) \notin taken
PROOF
<1>1. /\ Fresh(taken) \in 1..(Cardinality(taken) + 1)
      /\ Fresh(taken) \notin taken
  BY LeastFreeNumber DEF Fresh
<1> QED
  BY <1>1, FS_CardinalityType

------------------------------------------------------------------------------
(* What every statement leaves of a graph.                                 *)

\* Sets that hold vertices, and the edges of one hierarchy each.
VerticesOf(g) == {g.cloneOf, g.hasData, g.remain, g.ordered, DOMAIN g.children}

Apart(g) == \A e \in g.edges : e[1][1] = e[2][1]

IsGraph(g) ==
  /\ g = [ vertices |-> g.vertices, cloneOf |-> g.cloneOf, edges |-> g.edges, hasData |-> g.hasData,
           remain |-> g.remain, ordered |-> g.ordered, children |-> g.children, hasCode |-> g.hasCode ]
  /\ g.vertices \subseteq Vertices /\ IsFiniteSet(g.vertices)
  /\ g.edges \subseteq g.vertices \X g.vertices \X (Nat \ {0}) /\ IsFiniteSet(g.edges)
  /\ \A V \in VerticesOf(g) : V \subseteq g.vertices
  /\ \A v \in DOMAIN g.children : g.children[v] \in Nat
  /\ g.hasCode \subseteq Nodes
  /\ Apart(g)

LEMMA MakeGraph ==
  ASSUME NEW V, NEW C, NEW E, NEW D, NEW R, NEW O, NEW K, NEW H,
         V \subseteq Vertices, IsFiniteSet(V),
         E \subseteq V \X V \X (Nat \ {0}), IsFiniteSet(E), \A e \in E : e[1][1] = e[2][1],
         C \subseteq V, D \subseteq V, R \subseteq V, O \subseteq V, H \subseteq Nodes,
         DOMAIN K \subseteq V, \A v \in DOMAIN K : K[v] \in Nat
  PROVE  IsGraph([ vertices |-> V, cloneOf |-> C, edges |-> E, hasData |-> D,
                   remain |-> R, ordered |-> O, children |-> K, hasCode |-> H ])
BY DEF IsGraph, VerticesOf, Apart

LEMMA PartsOfGraph ==
  ASSUME NEW g, IsGraph(g)
  PROVE  /\ g.vertices \subseteq Vertices /\ IsFiniteSet(g.vertices)
         /\ g.edges \subseteq g.vertices \X g.vertices \X (Nat \ {0}) /\ IsFiniteSet(g.edges)
         /\ \A e \in g.edges : e[1][1] = e[2][1]
         /\ g.cloneOf \subseteq g.vertices /\ g.hasData \subseteq g.vertices
         /\ g.remain \subseteq g.vertices /\ g.ordered \subseteq g.vertices
         /\ g.hasCode \subseteq Nodes
         /\ DOMAIN g.children \subseteq g.vertices /\ \A v \in DOMAIN g.children : g.children[v] \in Nat
BY DEF IsGraph, VerticesOf, Apart

LEMMA GraphIsOK == IsGraph(graph) => GraphOK /\ HierarchiesAreApart
BY DEF IsGraph, GraphOK, HierarchiesAreApart, Apart, VerticesOf

LEMMA CloneVerticesKeeps ==
  ASSUME NEW g, IsGraph(g), NEW i \in Instances, NEW ns, ns \subseteq Nodes, NEW b
  PROVE  IsGraph(CloneVertices(g, i, ns, b))
PROOF
<1> DEFINE taken(n) == { v[3] : v \in { u \in g.vertices : u[1] = i /\ u[2] = n } }
           new == { <<i, n, Fresh(taken(n))>> : n \in ns }
           h == CloneVertices(g, i, ns, b)
<1>1. h = [g EXCEPT !.vertices = @ \cup new, !.cloneOf = @ \cup new,
                    !.hasData = IF b THEN @ \cup new ELSE @]
  BY DEF CloneVertices
<1>2. ASSUME NEW n PROVE IsFiniteSet(taken(n))
  <2> DEFINE same == { u \in g.vertices : u[1] = i /\ u[2] = n }
             f == [v \in same |-> v[3]]
  <2>1. IsFiniteSet(same)
    BY FS_Subset DEF IsGraph
  <2>2. IsFiniteSet({ f[v] : v \in same })
    BY <2>1, FiniteImage
  <2>3. { f[v] : v \in same } = taken(n)
    OBVIOUS
  <2> QED
    BY <2>2, <2>3
<1>3. \A n \in ns : Fresh(taken(n)) \in Nat \ {0}
  BY <1>2, FreshIsNew
<1> HIDE DEF taken
<1>4. new \subseteq Vertices
  BY <1>3 DEF Vertices
<1>5. IsFiniteSet(new)
  <2> DEFINE f == [n \in ns |-> <<i, n, Fresh(taken(n))>>]
  <2>1. IsFiniteSet(ns)
    BY GenericAssumption, FS_Subset
  <2>2. IsFiniteSet({ f[n] : n \in ns })
    BY <2>1, FiniteImage
  <2> QED
    BY <2>2
<1>6. IsFiniteSet(g.vertices \cup new)
  BY <1>5, FS_Union DEF IsGraph
<1> HIDE DEF new, h
<1>7. h = [ vertices |-> g.vertices \cup new, cloneOf |-> g.cloneOf \cup new, edges |-> g.edges,
            hasData |-> IF b THEN g.hasData \cup new ELSE g.hasData, remain |-> g.remain,
            ordered |-> g.ordered, children |-> g.children, hasCode |-> g.hasCode ]
  BY <1>1 DEF IsGraph
<1>8. /\ g.vertices \cup new \subseteq Vertices
      /\ g.edges \subseteq (g.vertices \cup new) \X (g.vertices \cup new) \X (Nat \ {0})
      /\ g.cloneOf \cup new \subseteq g.vertices \cup new
      /\ (IF b THEN g.hasData \cup new ELSE g.hasData) \subseteq g.vertices \cup new
      /\ g.remain \subseteq g.vertices \cup new /\ g.ordered \subseteq g.vertices \cup new
      /\ DOMAIN g.children \subseteq g.vertices \cup new
  BY <1>4, PartsOfGraph
<1>9. IsGraph(h)
  BY <1>6, <1>7, <1>8, MakeGraph, PartsOfGraph
<1> QED
  BY <1>9 DEF h

LEMMA CloneRelationshipsKeeps ==
  ASSUME NEW g, IsGraph(g), NEW i, NEW ns
  PROVE  IsGraph(CloneRelationships(g, i, ns))
PROOF
<1> DEFINE pairs == { e \in g.cloneOf \X g.cloneOf :
                        /\ e[1][1] = i /\ e[2][1] = i
                        /\ e[1][2] \in ns
                        /\ <<e[1][2], e[2][2]>> \in Parent }
           taken(e) == { f[3] : f \in { h \in g.edges : h[1] = e[1] /\ h[2] = e[2] } }
           new == { <<e[1], e[2], Fresh(taken(e))>> : e \in pairs }
           q == CloneRelationships(g, i, ns)
<1>1. q = [g EXCEPT !.edges = @ \cup new]
  BY DEF CloneRelationships
<1>2. ASSUME NEW e PROVE IsFiniteSet(taken(e))
  <2> DEFINE same == { h \in g.edges : h[1] = e[1] /\ h[2] = e[2] }
             f == [h \in same |-> h[3]]
  <2>1. IsFiniteSet(same)
    BY FS_Subset DEF IsGraph
  <2>2. DOMAIN f = same
    OBVIOUS
  <2>3. { f[h] : h \in same } = taken(e)
    OBVIOUS
  <2> HIDE DEF f, same, taken
  <2>4. IsFiniteSet({ f[h] : h \in same })
    BY <2>1, <2>2, FiniteImage
  <2> QED
    BY <2>3, <2>4
<1>3. \A e \in pairs : Fresh(taken(e)) \in Nat \ {0}
  BY <1>2, FreshIsNew
<1>4. g.cloneOf \subseteq g.vertices /\ IsFiniteSet(g.vertices)
  BY DEF IsGraph, VerticesOf
<1>5. IsFiniteSet(pairs)
  <2>1. IsFiniteSet(g.cloneOf)
    BY <1>4, FS_Subset
  <2>2. IsFiniteSet(g.cloneOf \X g.cloneOf)
    BY <2>1, FS_Product
  <2> QED
    BY <2>2, FS_Subset
<1>6. IsFiniteSet(new)
  <2> DEFINE f == [e \in pairs |-> <<e[1], e[2], Fresh(taken(e))>>]
  <2> HIDE DEF pairs, taken
  <2>1. IsFiniteSet({ f[e] : e \in pairs })
    BY <1>5, FiniteImage
  <2>2. { f[e] : e \in pairs } = new
    OBVIOUS
  <2> QED
    BY <2>1, <2>2
<1> HIDE DEF taken
<1>7. ASSUME NEW x \in new PROVE x \in g.vertices \X g.vertices \X (Nat \ {0}) /\ x[1][1] = x[2][1]
  <2>1. PICK e \in pairs : x = <<e[1], e[2], Fresh(taken(e))>>
    OBVIOUS
  <2>2. e[1] \in g.vertices /\ e[2] \in g.vertices /\ e[1][1] = e[2][1]
    BY <1>4
  <2> QED
    BY <1>3, <2>1, <2>2
<1>8. IsFiniteSet(g.edges \cup new)
  BY <1>6, FS_Union DEF IsGraph
<1> HIDE DEF new, q
<1>9. q = [ vertices |-> g.vertices, cloneOf |-> g.cloneOf, edges |-> g.edges \cup new,
            hasData |-> g.hasData, remain |-> g.remain,
            ordered |-> g.ordered, children |-> g.children, hasCode |-> g.hasCode ]
  BY <1>1 DEF IsGraph
<1>10. /\ g.edges \cup new \subseteq g.vertices \X g.vertices \X (Nat \ {0})
       /\ \A e \in g.edges \cup new : e[1][1] = e[2][1]
  BY <1>7, PartsOfGraph
<1>11. IsGraph(q)
  BY <1>8, <1>9, <1>10, MakeGraph, PartsOfGraph
<1> QED
  BY <1>11 DEF q

LEMMA SetNumberOfChildrenKeeps ==
  ASSUME NEW g, IsGraph(g), NEW vs
  PROVE  IsGraph(SetNumberOfChildren(g, vs))
PROOF
<1> DEFINE count(v) == Cardinality({ e \in g.edges : e[2] = v })
           counts == [ v \in DOMAIN g.children \cup (vs \cap g.vertices) |->
                         IF v \in vs THEN count(v) ELSE g.children[v] ]
           q == SetNumberOfChildren(g, vs)
<1>1. q = [g EXCEPT !.children = counts]
  BY DEF SetNumberOfChildren
<1>2. ASSUME NEW v PROVE count(v) \in Nat
  BY FS_Subset, FS_CardinalityType DEF IsGraph
<1> HIDE DEF count
<1>3. \A v \in DOMAIN counts : counts[v] \in Nat
  BY <1>2 DEF IsGraph
<1>4. DOMAIN counts \subseteq g.vertices
  BY DEF IsGraph, VerticesOf
<1> HIDE DEF counts, q
<1>5. q = [ vertices |-> g.vertices, cloneOf |-> g.cloneOf, edges |-> g.edges,
            hasData |-> g.hasData, remain |-> g.remain,
            ordered |-> g.ordered, children |-> counts, hasCode |-> g.hasCode ]
  BY <1>1 DEF IsGraph
<1>6. IsGraph(q)
  BY <1>3, <1>4, <1>5, MakeGraph, PartsOfGraph
<1> QED
  BY <1>6 DEF q

LEMMA RemoveNodesKeeps ==
  ASSUME NEW g, IsGraph(g), NEW i
  PROVE  IsGraph(RemoveNodesNotMarkedToRemain(g, i))
PROOF
<1> DEFINE gone == OfInstance(g, i) \ g.remain
           edges == { e \in g.edges : e[1] \notin gone /\ e[2] \notin gone }
           counts == [v \in DOMAIN g.children \ gone |-> g.children[v]]
           q == RemoveNodesNotMarkedToRemain(g, i)
<1>1. q = [g EXCEPT !.vertices = @ \ gone, !.cloneOf = @ \ gone, !.edges = edges,
                    !.hasData = @ \ gone, !.ordered = @ \ gone, !.children = counts]
  BY DEF RemoveNodesNotMarkedToRemain
<1>2. gone \cap g.remain = {}
  OBVIOUS
<1> HIDE DEF gone
<1>3. q = [ vertices |-> g.vertices \ gone, cloneOf |-> g.cloneOf \ gone, edges |-> edges,
            hasData |-> g.hasData \ gone, remain |-> g.remain,
            ordered |-> g.ordered \ gone, children |-> counts, hasCode |-> g.hasCode ]
  BY <1>1 DEF IsGraph
<1>4. IsFiniteSet(g.vertices \ gone) /\ IsFiniteSet(edges)
  BY FS_Subset DEF IsGraph
<1>5. /\ edges \subseteq (g.vertices \ gone) \X (g.vertices \ gone) \X (Nat \ {0})
      /\ \A e \in edges : e[1][1] = e[2][1]
  BY DEF IsGraph, Apart
<1>6. DOMAIN counts = DOMAIN g.children \ gone /\ \A v \in DOMAIN counts : counts[v] \in Nat
  BY DEF IsGraph
<1> HIDE DEF counts, edges, q
<1>7. /\ g.vertices \ gone \subseteq Vertices /\ g.cloneOf \ gone \subseteq g.vertices \ gone
      /\ g.hasData \ gone \subseteq g.vertices \ gone /\ g.ordered \ gone \subseteq g.vertices \ gone
      /\ g.remain \subseteq g.vertices \ gone /\ DOMAIN counts \subseteq g.vertices \ gone
  BY <1>2, <1>6, PartsOfGraph
<1>8. IsGraph(q)
  BY <1>3, <1>4, <1>5, <1>6, <1>7, MakeGraph, PartsOfGraph
<1> QED
  BY <1>8 DEF q

LEMMA CreateHasCodeEdgesKeeps ==
  ASSUME NEW g, IsGraph(g), NEW ns, ns \subseteq Nodes
  PROVE  IsGraph(CreateHasCodeEdges(g, ns))
PROOF
<1> DEFINE q == CreateHasCodeEdges(g, ns)
<1>0. q = [g EXCEPT !.hasCode = @ \cup ns]
  BY DEF CreateHasCodeEdges
<1>1. q = [ vertices |-> g.vertices, cloneOf |-> g.cloneOf, edges |-> g.edges, hasData |-> g.hasData,
            remain |-> g.remain, ordered |-> g.ordered, children |-> g.children,
            hasCode |-> g.hasCode \cup ns ]
  <2> HIDE DEF q
  <2> QED
    BY <1>0 DEF IsGraph
<1> HIDE DEF q
<1>2. IsGraph(q)
  BY <1>1, MakeGraph, PartsOfGraph
<1> QED
  BY <1>2 DEF q

LEMMA CloneOrderKeeps ==
  ASSUME NEW g, IsGraph(g), NEW ns
  PROVE  IsGraph(CloneOrder(g, ns))
PROOF
<1> DEFINE more == { v \in g.cloneOf : v[2] \in ns \cap g.hasCode \cap Ordered }
           q == CloneOrder(g, ns)
<1>0. q = [g EXCEPT !.ordered = @ \cup more]
  BY DEF CloneOrder
<1>1. q = [ vertices |-> g.vertices, cloneOf |-> g.cloneOf, edges |-> g.edges, hasData |-> g.hasData,
            remain |-> g.remain, ordered |-> g.ordered \cup more, children |-> g.children,
            hasCode |-> g.hasCode ]
  <2> HIDE DEF q, more
  <2> QED
    BY <1>0 DEF IsGraph
<1>2. g.ordered \cup more \subseteq g.vertices
  BY PartsOfGraph
<1> HIDE DEF more, q
<1>3. IsGraph(q)
  BY <1>1, <1>2, MakeGraph, PartsOfGraph
<1> QED
  BY <1>3 DEF q

LEMMA RemoveCloneMarkersKeeps ==
  ASSUME NEW g, IsGraph(g), NEW vs
  PROVE  IsGraph(RemoveCloneMarkers(g, vs))
PROOF
<1> DEFINE q == RemoveCloneMarkers(g, vs)
<1>0. q = [g EXCEPT !.cloneOf = @ \ vs]
  BY DEF RemoveCloneMarkers
<1>1. q = [ vertices |-> g.vertices, cloneOf |-> g.cloneOf \ vs, edges |-> g.edges, hasData |-> g.hasData,
            remain |-> g.remain, ordered |-> g.ordered, children |-> g.children,
            hasCode |-> g.hasCode ]
  <2> HIDE DEF q
  <2> QED
    BY <1>0 DEF IsGraph
<1>2. g.cloneOf \ vs \subseteq g.vertices
  BY PartsOfGraph
<1> HIDE DEF q
<1>3. IsGraph(q)
  BY <1>1, <1>2, MakeGraph, PartsOfGraph
<1> QED
  BY <1>3 DEF q

LEMMA SetHasDataKeeps ==
  ASSUME NEW g, IsGraph(g), NEW i, NEW codes
  PROVE  IsGraph(SetHasData(g, i, codes))
PROOF
<1> DEFINE more == { v \in OfInstance(g, i) : v[2] \in codes }
           q == SetHasData(g, i, codes)
<1>0. q = [g EXCEPT !.hasData = @ \cup more]
  BY DEF SetHasData
<1>1. q = [ vertices |-> g.vertices, cloneOf |-> g.cloneOf, edges |-> g.edges,
            hasData |-> g.hasData \cup more,
            remain |-> g.remain, ordered |-> g.ordered, children |-> g.children,
            hasCode |-> g.hasCode ]
  <2> HIDE DEF q, more
  <2> QED
    BY <1>0 DEF IsGraph
<1>2. g.hasData \cup more \subseteq g.vertices
  BY PartsOfGraph DEF OfInstance
<1> HIDE DEF more, q
<1>3. IsGraph(q)
  BY <1>1, <1>2, MakeGraph, PartsOfGraph
<1> QED
  BY <1>3 DEF q

\* What is above a vertex along the edges of a graph is in that graph.
LEMMA MarkNodesToRemainKeeps ==
  ASSUME NEW g, IsGraph(g), NEW i
  PROVE  IsGraph(MarkNodesToRemain(g, i))
PROOF
<1> DEFINE kept == OfInstance(g, i) \cap g.hasData
           above == Ancestors(g.edges, kept)
           q == MarkNodesToRemain(g, i)
<1>0. q = [g EXCEPT !.remain = @ \cup kept \cup above]
  BY DEF MarkNodesToRemain
<1>1. q = [ vertices |-> g.vertices, cloneOf |-> g.cloneOf, edges |-> g.edges, hasData |-> g.hasData,
            remain |-> g.remain \cup kept \cup above, ordered |-> g.ordered,
            children |-> g.children, hasCode |-> g.hasCode ]
  <2> HIDE DEF q, kept, above
  <2> QED
    BY <1>0 DEF IsGraph
<1>2. above \subseteq { e[2] : e \in g.edges }
  BY DEF Ancestors
<1>3. { e[2] : e \in g.edges } \subseteq g.vertices
  BY PartsOfGraph
<1>4. kept \subseteq g.vertices
  BY PartsOfGraph
<1> HIDE DEF kept, above, q
<1>5. g.remain \cup kept \cup above \subseteq g.vertices
  BY <1>2, <1>3, <1>4, PartsOfGraph
<1>6. IsGraph(q)
  BY <1>1, <1>5, MakeGraph, PartsOfGraph
<1> QED
  BY <1>6 DEF q

LEMMA RemoveRemainMarkerKeeps ==
  ASSUME NEW g, IsGraph(g), NEW i
  PROVE  IsGraph(RemoveRemainMarker(g, i))
PROOF
<1> DEFINE q == RemoveRemainMarker(g, i)
<1>0. q = [g EXCEPT !.remain = @ \ OfInstance(g, i)]
  BY DEF RemoveRemainMarker
<1>1. q = [ vertices |-> g.vertices, cloneOf |-> g.cloneOf, edges |-> g.edges, hasData |-> g.hasData,
            remain |-> g.remain \ OfInstance(g, i), ordered |-> g.ordered,
            children |-> g.children, hasCode |-> g.hasCode ]
  <2> HIDE DEF q
  <2> QED
    BY <1>0 DEF IsGraph
<1>2. g.remain \ OfInstance(g, i) \subseteq g.vertices
  BY PartsOfGraph
<1> HIDE DEF q
<1>3. IsGraph(q)
  BY <1>1, <1>2, MakeGraph, PartsOfGraph
<1> QED
  BY <1>3 DEF q

\* The operations whose batches hold generic nodes.
OfNodes ==
  Batched \ { "GetGenericHierarchyNodeIDs", "GetGenericHierarchyAncestriesIDs",
              "SetNumberOfChildrenFromIDs", "RemoveCloneEdgesFromSourceIDs" }

Fits(op, c) == op \in OfNodes => c \subseteq Nodes

\* Whatever the operation, executed when and as often as may be.
LEMMA ExecuteKeeps ==
  ASSUME NEW g, IsGraph(g), NEW i \in Instances, NEW op, NEW c, Fits(op, c)
  PROVE  IsGraph(Execute(g, i, op, c))
PROOF
<1>1. CASE op = "CreateHasCodeEdges"
  BY <1>1, CreateHasCodeEdgesKeeps DEF Execute, Fits, OfNodes, Batched
<1>2. CASE op = "CloneNodes"
  BY <1>2, CloneVerticesKeeps DEF Execute
<1>3. CASE op = "CloneNodesFromIDs(data)"
  BY <1>3, CloneVerticesKeeps DEF Execute, Fits, OfNodes, Batched
<1>4. CASE op = "CloneNodesFromIDs(ancestries)"
  BY <1>4, CloneVerticesKeeps DEF Execute, Fits, OfNodes, Batched
<1>5. CASE op = "CloneOrderFromIDs"
  BY <1>5, CloneOrderKeeps DEF Execute
<1>6. CASE op \in {"CloneRelationships", "CloneRelationshipsFromIDs"}
  BY <1>6, CloneRelationshipsKeeps DEF Execute
<1>7. CASE op \in {"RemoveCloneEdges", "RemoveCloneEdgesFromSourceIDs"}
  BY <1>7, RemoveCloneMarkersKeeps DEF Execute
<1>8. CASE op \in {"SetNumberOfChildren", "SetNumberOfChildrenFromIDs"}
  BY <1>8, SetNumberOfChildrenKeeps DEF Execute
<1>9. CASE op = "SetHasData"
  BY <1>9, SetHasDataKeeps DEF Execute
<1>10. CASE op = "MarkNodesToRemain"
  BY <1>10, MarkNodesToRemainKeeps DEF Execute
<1>11. CASE op = "RemoveNodesNotMarkedToRemain"
  BY <1>11, RemoveNodesKeeps DEF Execute
<1>12. CASE op = "RemoveRemainMarker"
  BY <1>12, RemoveRemainMarkerKeeps DEF Execute
<1>13. CASE op \notin { "CreateHasCodeEdges", "CloneNodes", "CloneNodesFromIDs(data)",
                        "CloneNodesFromIDs(ancestries)", "CloneOrderFromIDs", "CloneRelationships",
                        "CloneRelationshipsFromIDs", "RemoveCloneEdges",
                        "RemoveCloneEdgesFromSourceIDs", "SetNumberOfChildren",
                        "SetNumberOfChildrenFromIDs", "SetHasData", "MarkNodesToRemain",
                        "RemoveNodesNotMarkedToRemain", "RemoveRemainMarker" }
  BY <1>13 DEF Execute
<1> QED
  BY <1>1, <1>2, <1>3, <1>4, <1>5, <1>6, <1>7, <1>8, <1>9, <1>10, <1>11, <1>12, <1>13

------------------------------------------------------------------------------
(* The inductive invariant.                                                *)

Shapes ==
  /\ step \in [Instances -> Nat \ {0}]
  /\ ids \in [Instances -> [ nodes : SUBSET Nodes, ancestries : SUBSET Nodes,
                             clones : SUBSET Vertices ]]
  /\ left = [i \in Instances |-> left[i]]
  /\ data \in [Instances -> SUBSET Nodes]
  /\ phase \in [Instances -> Phases]
  /\ err \in [Instances -> BOOLEAN]

\* A statement that is under way, or was given up as lost, holds what the
\* operation it belongs to is about.
OnTheWay ==
  /\ \A i \in Instances : \A c \in DOMAIN left[i] :
       left[i][c] \in 1..MaxAttempts /\ Fits(Operation(i), c)
  /\ \A r \in late : r[1] \in Instances /\ r[2] \in Unreliable /\ Fits(r[2], r[3])

ReadPositions == {"none", "order", "children", "breadcrumbs", "answered"}

IsRead(r) ==
  \/ r = NoRead
  \/ /\ r = [ at |-> r.at, of |-> r.of, breadcrumbs |-> r.breadcrumbs, byOrder |-> r.byOrder,
              answer |-> r.answer ]
     /\ r.at \in ReadPositions /\ r.of \in Instances

IInv == IsGraph(graph) /\ Shapes /\ OnTheWay /\ IsRead(reader)

LEMMA IInvIsEnough == IInv => TypeOK /\ HierarchiesAreApart
PROOF
<1> SUFFICES ASSUME IInv PROVE TypeOK /\ HierarchiesAreApart
  OBVIOUS
<1>1. GraphOK /\ HierarchiesAreApart
  BY GraphIsOK DEF IInv
<1>2. ASSUME NEW i \in Instances
      PROVE  /\ step[i] \in Nat \ {0}
             /\ \A c \in DOMAIN left[i] : left[i][c] \in 1..MaxAttempts
             /\ ids[i].nodes \cup ids[i].ancestries \subseteq Nodes
             /\ ids[i].clones \subseteq Vertices
  BY DEF IInv, Shapes, OnTheWay
<1>3. /\ reader.at \in {"none", "order", "children", "breadcrumbs", "answered"}
      /\ reader.at # "none" => reader.of \in Instances
  BY DEF IInv, IsRead, NoRead, ReadPositions
<1> QED
  BY <1>1, <1>2, <1>3 DEF TypeOK, IInv, Shapes, OnTheWay

LEMMA TargetsFit ==
  ASSUME IInv, NEW i \in Instances, NEW op \in OfNodes
  PROVE  Targets(i, op) \subseteq Nodes
BY DEF IInv, Shapes, Targets, OfNodes, Batched

\* What Ancestors finds of the generic hierarchy is in it.
LEMMA AncestorsOfNodes ==
  ASSUME NEW S PROVE Ancestors(Parent, S) \subseteq Nodes
BY GenericAssumption DEF Ancestors

LEMMA InitKeeps == Init => IInv
PROOF
<1> SUFFICES ASSUME Init PROVE IInv
  OBVIOUS
<1>1. IsGraph(graph)
  <2>1. IsFiniteSet({})
    BY FS_EmptySet
  <2>2. DOMAIN graph.children = {}
    BY DEF Init, EmptyGraph
  <2> QED
    BY <2>1, <2>2 DEF Init, EmptyGraph, IsGraph, VerticesOf, Apart
<1>2. Shapes
  BY DEF Init, Shapes, Phases
<1>3. OnTheWay
  <2>1. \A i \in Instances : DOMAIN left[i] = {}
    BY DEF Init
  <2> QED
    BY <2>1 DEF Init, OnTheWay
<1> QED
  BY <1>1, <1>2, <1>3 DEF IInv, Init, IsRead

LEMMA CallKeeps ==
  ASSUME IInv, NEW i \in Instances, Call(i)
  PROVE  IInv'
PROOF
<1> USE DEF IInv
<1>1. PICK P \in Statements(i, Operation(i)) :
        left' = [left EXCEPT ![i] = [c \in P |-> MaxAttempts]]
  BY DEF Call
<1>2. IsGraph(graph)'
  BY DEF Call, IsGraph, VerticesOf, Apart, Vertices
<1>3. Shapes'
  BY <1>1 DEF Call, Shapes, Phases, Vertices
<1>4. ASSUME NEW c \in P PROVE Fits(Operation(i), c)
  <2> SUFFICES ASSUME Operation(i) \in OfNodes PROVE c \subseteq Nodes
    BY DEF Fits
  <2>1. Operation(i) \in Batched
    BY DEF OfNodes
  <2>2. c \subseteq Targets(i, Operation(i))
    BY <2>1 DEF Statements, Batches
  <2>3. Targets(i, Operation(i)) \subseteq Nodes
    BY TargetsFit
  <2> QED
    BY <2>2, <2>3
<1>5. ASSUME NEW j \in Instances, NEW c \in DOMAIN left'[j]
      PROVE  left'[j][c] \in 1..MaxAttempts /\ Fits(Operation(j), c)
  <2>1. CASE j = i
    <3>1. left'[j] = [d \in P |-> MaxAttempts]
      BY <1>1, <2>1 DEF Shapes
    <3> QED
      BY <1>4, <1>5, <2>1, <3>1, BuilderAssumption
  <2>2. CASE j # i
    BY <1>1, <1>5, <2>2 DEF Shapes, OnTheWay
  <2> QED
    BY <2>1, <2>2
<1>6. OnTheWay'
  BY <1>5 DEF OnTheWay, Call, Operation
<1>20. IsRead(reader)'
  BY DEF Call, IsRead, NoRead
<1> QED
  BY <1>2, <1>3, <1>6, <1>20

\* Settling a statement, or counting one attempt less, leaves the others.
LEMMA LeftKeeps ==
  ASSUME IInv, NEW i \in Instances, NEW c \in DOMAIN left[i], UNCHANGED step,
         \/ left' = Settled(i, c)
         \/ left' = [left EXCEPT ![i][c] = @ - 1] /\ left[i][c] > 1
  PROVE  /\ left' = [j \in Instances |-> left'[j]]
         /\ \A j \in Instances : \A d \in DOMAIN left'[j] :
              left'[j][d] \in 1..MaxAttempts /\ Fits(Operation(j)', d)
PROOF
<1> USE DEF IInv
<1>1. left' = [j \in Instances |-> left'[j]]
  BY DEF Shapes, Settled
<1>2. ASSUME NEW j \in Instances, NEW d \in DOMAIN left'[j]
      PROVE  left'[j][d] \in 1..MaxAttempts /\ Fits(Operation(j), d)
  <2>1. CASE j # i
    BY <1>2, <2>1 DEF Shapes, OnTheWay, Settled
  <2>2. CASE j = i /\ left' = Settled(i, c)
    <3>1. left'[i] = [e \in DOMAIN left[i] \ {c} |-> left[i][e]]
      BY <2>2 DEF Shapes, Settled, Restrict
    <3> QED
      BY <1>2, <2>2, <3>1 DEF OnTheWay
  <2>3. CASE j = i /\ left' = [left EXCEPT ![i][c] = @ - 1] /\ left[i][c] > 1
    <3>1. left'[i] = [left[i] EXCEPT ![c] = @ - 1]
      BY <2>3 DEF Shapes
    <3>2. d \in DOMAIN left[i] /\ left'[i][d] = (IF d = c THEN left[i][c] - 1 ELSE left[i][d])
      BY <1>2, <2>3, <3>1
    <3>3. left[i][c] \in 1..MaxAttempts /\ left[i][d] \in 1..MaxAttempts /\ Fits(Operation(i), d)
      BY <3>2 DEF OnTheWay
    <3> QED
      BY <2>3, <3>2, <3>3, BuilderAssumption
  <2> QED
    BY <2>1, <2>2, <2>3
<1>3. \A j \in Instances : Operation(j)' = Operation(j)
  BY DEF Operation
<1> QED
  BY <1>1, <1>2, <1>3

LEMMA AnswerKeeps ==
  ASSUME IInv, NEW i \in Instances, Answer(i)
  PROVE  IInv'
PROOF
<1> USE DEF IInv
<1>1. PICK c \in DOMAIN left[i] :
        /\ graph' = Execute(graph, i, Operation(i), c)
        /\ ids' = [ids EXCEPT ![i] = Learn(i, Operation(i), c)]
        /\ left' = Settled(i, c)
  BY DEF Answer
<1>2. Fits(Operation(i), c)
  BY DEF OnTheWay
<1>3. IsGraph(Execute(graph, i, Operation(i), c))
  BY <1>2, ExecuteKeeps
<1>4. IsGraph(graph)'
  BY <1>1, <1>3 DEF IsGraph, VerticesOf, Apart, Vertices
<1>5. Learn(i, Operation(i), c) \in
        [ nodes : SUBSET Nodes, ancestries : SUBSET Nodes, clones : SUBSET Vertices ]
  <2>1. ids[i] \in [ nodes : SUBSET Nodes, ancestries : SUBSET Nodes, clones : SUBSET Vertices ]
    BY DEF Shapes
  <2>2. CASE Operation(i) = "GetGenericHierarchyNodeIDs"
    BY <1>2, <2>1, <2>2 DEF Learn, Fits, OfNodes, Batched, GetGenericHierarchyNodeIDs
  <2>3. CASE Operation(i) = "GetGenericHierarchyAncestriesIDs"
    <3>1. GetGenericHierarchyAncestriesIDs(c) \subseteq Nodes
      BY AncestorsOfNodes DEF GetGenericHierarchyAncestriesIDs
    <3> QED
      BY <2>1, <2>3, <3>1 DEF Learn
  <2>4. CASE Operation(i) = "GetHierarchyNodeIDs"
    <3>1. OfInstance(graph, i) \subseteq Vertices
      BY PartsOfGraph DEF OfInstance
    <3> QED
      BY <2>1, <2>4, <3>1 DEF Learn
  <2>5. CASE Operation(i) \notin { "GetGenericHierarchyNodeIDs", "GetGenericHierarchyAncestriesIDs",
                                   "GetHierarchyNodeIDs" }
    BY <2>1, <2>5 DEF Learn
  <2> QED
    BY <2>2, <2>3, <2>4, <2>5
<1>6. UNCHANGED step
  BY DEF Answer
<1>7. /\ left' = [j \in Instances |-> left'[j]]
      /\ \A j \in Instances : \A d \in DOMAIN left'[j] :
           left'[j][d] \in 1..MaxAttempts /\ Fits(Operation(j)', d)
  BY <1>1, <1>6, LeftKeeps
<1>8. ids' \in [Instances -> [ nodes : SUBSET Nodes, ancestries : SUBSET Nodes,
                               clones : SUBSET Vertices ]]
  BY <1>1, <1>5 DEF Shapes
<1>9. Shapes'
  BY <1>7, <1>8 DEF Answer, Shapes, Vertices
<1>10. OnTheWay'
  BY <1>7 DEF Answer, OnTheWay
<1>20. IsRead(reader)'
  BY DEF Answer, IsRead, NoRead
<1> QED
  BY <1>4, <1>9, <1>10, <1>20

LEMMA RefuseKeeps ==
  ASSUME IInv, NEW i \in Instances, Refuse(i)
  PROVE  IInv'
PROOF
<1> USE DEF IInv
<1>1. PICK c \in DOMAIN left[i] : left' = Settled(i, c)
  BY DEF Refuse
<1>2. UNCHANGED step
  BY DEF Refuse
<1>3. /\ left' = [j \in Instances |-> left'[j]]
      /\ \A j \in Instances : \A d \in DOMAIN left'[j] :
           left'[j][d] \in 1..MaxAttempts /\ Fits(Operation(j)', d)
  BY <1>1, <1>2, LeftKeeps
<1>4. IsGraph(graph)'
  BY DEF Refuse, IsGraph, VerticesOf, Apart, Vertices
<1>5. Shapes'
  BY <1>3 DEF Refuse, Shapes, Vertices
<1>6. OnTheWay'
  BY <1>3 DEF Refuse, OnTheWay
<1>20. IsRead(reader)'
  BY DEF Refuse, IsRead, NoRead
<1> QED
  BY <1>4, <1>5, <1>6, <1>20

LEMMA LoseKeeps ==
  ASSUME IInv, NEW i \in Instances, Lose(i)
  PROVE  IInv'
PROOF
<1> USE DEF IInv
<1>1. PICK c \in DOMAIN left[i] :
        /\ \/ graph' = Execute(graph, i, Operation(i), c) /\ UNCHANGED late
           \/ /\ late' = late \cup {<<i, Operation(i), c, left[i][c]>>}
              /\ UNCHANGED graph
           \/ UNCHANGED <<graph, late>>
        /\ IF left[i][c] > 1
           THEN left' = [left EXCEPT ![i][c] = @ - 1] /\ UNCHANGED err
           ELSE left' = Settled(i, c) /\ err' = [err EXCEPT ![i] = TRUE]
  BY DEF Lose
<1>2. Fits(Operation(i), c)
  BY DEF OnTheWay
<1>3. IsGraph(Execute(graph, i, Operation(i), c))
  BY <1>2, ExecuteKeeps
<1>4. graph' \in {graph, Execute(graph, i, Operation(i), c)}
  BY <1>1
<1>5. IsGraph(graph)'
  BY <1>3, <1>4 DEF IsGraph, VerticesOf, Apart, Vertices
<1>6. UNCHANGED step
  BY DEF Lose
<1>7. /\ left' = [j \in Instances |-> left'[j]]
      /\ \A j \in Instances : \A d \in DOMAIN left'[j] :
           left'[j][d] \in 1..MaxAttempts /\ Fits(Operation(j)', d)
  BY <1>1, <1>6, LeftKeeps
<1>8. err' \in [Instances -> BOOLEAN]
  BY <1>1 DEF Shapes
<1>9. Shapes'
  BY <1>7, <1>8 DEF Lose, Shapes, Vertices
<1>10. ASSUME NEW r \in late'
       PROVE  r[1] \in Instances /\ r[2] \in Unreliable /\ Fits(r[2], r[3])
  BY <1>1, <1>2, <1>10 DEF Lose, OnTheWay
<1>11. OnTheWay'
  BY <1>7, <1>10 DEF OnTheWay
<1>20. IsRead(reader)'
  BY DEF Lose, IsRead, NoRead
<1> QED
  BY <1>5, <1>9, <1>11, <1>20

LEMMA ExecuteLateKeeps ==
  ASSUME IInv, ExecuteLate
  PROVE  IInv'
PROOF
<1> USE DEF IInv
<1>1. PICK r \in late : graph' = Execute(graph, r[1], r[2], r[3]) /\ late' = late \ {r}
  BY DEF ExecuteLate
<1>2. r[1] \in Instances /\ Fits(r[2], r[3])
  BY DEF OnTheWay
<1>3. IsGraph(Execute(graph, r[1], r[2], r[3]))
  BY <1>2, ExecuteKeeps
<1>4. IsGraph(graph)'
  BY <1>1, <1>3 DEF IsGraph, VerticesOf, Apart, Vertices
<1>5. Shapes'
  BY DEF ExecuteLate, Shapes, Vertices
<1>6. OnTheWay'
  BY <1>1 DEF ExecuteLate, OnTheWay, Operation
<1>20. IsRead(reader)'
  BY DEF ExecuteLate, IsRead, NoRead
<1> QED
  BY <1>4, <1>5, <1>6, <1>20

LEMMA ReturnKeeps ==
  ASSUME IInv, NEW i \in Instances, Return(i)
  PROVE  IInv'
PROOF
<1> USE DEF IInv
<1>1. IsGraph(graph)'
  BY DEF Return, IsGraph, VerticesOf, Apart, Vertices
<1>2. /\ step' \in [Instances -> Nat \ {0}]
      /\ \A j \in Instances : j # i => step'[j] = step[j]
  <2>1. step' = step \/ step' = [step EXCEPT ![i] = step[i] + 1]
    BY Zenon DEF Return
  <2> QED
    BY <2>1 DEF Shapes
<1>3. phase' \in [Instances -> Phases]
  BY DEF Return, Shapes, Phases
<1>4. Shapes'
  BY <1>2, <1>3 DEF Return, Shapes, Vertices
<1>5. DOMAIN left[i] = {}
  BY DEF Return
<1>6. OnTheWay'
  BY <1>2, <1>5 DEF Return, OnTheWay, Operation
<1>20. IsRead(reader)'
  BY DEF Return, IsRead, NoRead
<1> QED
  BY <1>1, <1>4, <1>6, <1>20

\* A reader changes nothing but what it has read.
LEMMA ReaderKeeps ==
  ASSUME IInv, Reader
  PROVE  IInv'
PROOF
<1> USE DEF IInv
<1>1. UNCHANGED <<graph, data, step, phase, left, err, ids, late>>
  BY DEF Reader, BeginRead, ReadOrder, ReadTheChildren, ReadBreadcrumbs, EndRead
<1>2. IsGraph(graph)'
  BY <1>1 DEF IsGraph, VerticesOf, Apart, Vertices
<1>3. Shapes' /\ OnTheWay'
  BY <1>1 DEF Shapes, OnTheWay, Operation, Vertices
<1>4. ASSUME NEW r, IsRead(r), r # NoRead, NEW a, NEW next \in ReadPositions, Proceed(r, a, next)
      PROVE  IsRead(reader')
  <2>1. CASE reader' = NoRead
    BY <2>1 DEF IsRead
  <2>2. CASE reader' = [r EXCEPT !.at = next, !.answer = a]
    <3> DEFINE q == reader'
    <3>1. q = [r EXCEPT !.at = next, !.answer = a]
      BY <2>2
    <3> HIDE DEF q
    <3>2. q = [ at |-> next, of |-> r.of, breadcrumbs |-> r.breadcrumbs, byOrder |-> r.byOrder,
                answer |-> a ]
      BY <1>4, <3>1 DEF IsRead
    <3>3. IsRead(q)
      BY <1>4, <3>2 DEF IsRead
    <3> QED
      BY <3>3 DEF q
  <2> QED
    BY <1>4, <2>1, <2>2 DEF Proceed
<1>5. ASSUME NEW i \in Instances, BeginRead(i) PROVE IsRead(reader')
  <2>1. PICK read : LET first == ReadVertex(graph, TheVertex(read[1]))
                        r     == [ at |-> "none", of |-> i, breadcrumbs |-> read[2],
                                   byOrder |-> FALSE, answer |-> first ]
                    IN  Proceed(r, first, IF first.element.noOfChildren > 0
                                          THEN "order" ELSE AfterChildren(r))
    BY <1>5 DEF BeginRead
  <2> DEFINE first == ReadVertex(graph, TheVertex(read[1]))
             r     == [ at |-> "none", of |-> i, breadcrumbs |-> read[2], byOrder |-> FALSE,
                        answer |-> first ]
             next  == IF first.element.noOfChildren > 0 THEN "order" ELSE AfterChildren(r)
  <2>2. Proceed(r, first, next)
    BY <2>1
  <2>3. next \in ReadPositions
    BY DEF AfterChildren, ReadPositions
  <2> HIDE DEF first, next
  <2>4. IsRead(r) /\ r # NoRead
    BY DEF IsRead, ReadPositions, NoRead
  <2> QED
    BY <1>4, <2>2, <2>3, <2>4
<1>6. ASSUME ReadOrder PROVE IsRead(reader')
  <2> DEFINE q == reader'
             count == CountChildrenWithOrder(graph, reader.of, reader.answer.element.id) > 0
  <2>1. q = [reader EXCEPT !.at = "children", !.byOrder = count] /\ reader # NoRead
    BY <1>6 DEF ReadOrder, NoRead
  <2> HIDE DEF q, count
  <2>2. q = [ at |-> "children", of |-> reader.of, breadcrumbs |-> reader.breadcrumbs,
              byOrder |-> count, answer |-> reader.answer ]
    BY <2>1 DEF IsRead
  <2>3. IsRead(q)
    BY <2>1, <2>2 DEF IsRead, ReadPositions
  <2> QED
    BY <2>3 DEF q
<1>7. ASSUME ReadTheChildren PROVE IsRead(reader')
  <2>1. reader # NoRead /\ AfterChildren(reader) \in ReadPositions
    BY <1>7 DEF ReadTheChildren, NoRead, AfterChildren, ReadPositions
  <2> QED
    BY <1>4, <1>7, <2>1 DEF ReadTheChildren
<1>8. ASSUME ReadBreadcrumbs PROVE IsRead(reader')
  <2>1. reader # NoRead /\ "answered" \in ReadPositions
    BY <1>8 DEF ReadBreadcrumbs, NoRead, ReadPositions
  <2> QED
    BY <1>4, <1>8, <2>1 DEF ReadBreadcrumbs
<1>9. ASSUME EndRead PROVE IsRead(reader')
  BY <1>9 DEF EndRead, IsRead
<1>10. IsRead(reader')
  BY <1>5, <1>6, <1>7, <1>8, <1>9 DEF Reader
<1>11. IsRead(reader)'
  BY <1>10 DEF IsRead, NoRead
<1> QED
  BY <1>2, <1>3, <1>11

LEMMA StutterKeeps ==
  ASSUME IInv, UNCHANGED vars
  PROVE  IInv'
PROOF
<1> USE DEF IInv, vars
<1>1. IsGraph(graph)'
  BY DEF IsGraph, VerticesOf, Apart, Vertices
<1>2. Shapes' /\ OnTheWay' /\ IsRead(reader)'
  BY DEF Shapes, OnTheWay, Operation, Vertices, IsRead, NoRead
<1> QED
  BY <1>1, <1>2

\* Every step, of any builder or of the database, keeps the invariant.
THEOREM Inductive == Spec => []IInv
PROOF
<1>1. Init => IInv
  BY InitKeeps
<1>2. IInv /\ [Next]_vars => IInv'
  <2> SUFFICES ASSUME IInv, [Next]_vars PROVE IInv'
    OBVIOUS
  <2>1. ASSUME NEW i \in Instances, Builder(i) PROVE IInv'
    BY <2>1, CallKeeps, AnswerKeeps, RefuseKeeps, LoseKeeps, ReturnKeeps DEF Builder
  <2>2. CASE ExecuteLate
    BY <2>2, ExecuteLateKeeps
  <2>3. CASE Reader
    BY <2>3, ReaderKeeps
  <2>4. CASE Finished \/ UNCHANGED vars
    BY <2>4, StutterKeeps DEF Finished
  <2> QED
    BY <2>1, <2>2, <2>3, <2>4 DEF Next
<1> QED
  BY <1>1, <1>2, PTL DEF Spec

\* The variables keep their types, and the graph is one: no edge and no
\* property of a vertex that has been dropped, by any operation in any order.
THEOREM TypeCorrect == Spec => []TypeOK
BY Inductive, IInvIsEnough, PTL

\* No hierarchy ever gets a link into another one, however many builders run,
\* whatever they call, and whatever is executed twice or late.
THEOREM HierarchiesNeverMeet == Spec => []HierarchiesAreApart
BY Inductive, IInvIsEnough, PTL

------------------------------------------------------------------------------
(* Builds come to an end.                                                  *)

\* A builder that goes on is within its program.
Within == \A i \in Instances : phase[i] \in {"calling", "running"} => step[i] <= Len(Program[i])

LEMMA ProgramLengths == \A i \in Instances : Len(Program[i]) \in Nat
PROOF BY BuilderAssumption

LEMMA WithinHolds == Spec => []Within
PROOF
<1>1. Init => Within
  BY ProgramLengths, BuilderAssumption DEF Init, Within
<1>2. IInv /\ Within /\ [Next]_vars => Within'
  <2> SUFFICES ASSUME IInv, Within, [Next]_vars PROVE Within'
    OBVIOUS
  <2>1. ASSUME NEW i \in Instances, Call(i) PROVE Within'
    BY <2>1 DEF Call, Within, IInv, Shapes
  <2>2. ASSUME NEW i \in Instances, Return(i) PROVE Within'
    <3>1. \A k \in Instances \ {i} : step'[k] = step[k] /\ phase'[k] = phase[k]
      BY <2>2 DEF Return, IInv, Shapes
    <3>2. /\ step[i] \in Nat \ {0} /\ step[i] <= Len(Program[i]) /\ Len(Program[i]) \in Nat
          /\ step \in [Instances -> Nat \ {0}] /\ phase \in [Instances -> Phases]
      BY <2>2, ProgramLengths DEF Return, Within, IInv, Shapes
    <3>3. \/ phase'[i] \in {"done", "failed"}
          \/ step'[i] = step[i] + 1 /\ step[i] # Len(Program[i])
      BY <2>2, <3>2 DEF Return
    <3>4. phase'[i] \in {"calling", "running"} => step'[i] <= Len(Program[i])
      BY <3>2, <3>3
    <3> QED
      BY <3>1, <3>4 DEF Within
  <2>3. CASE UNCHANGED <<step, phase>>
    BY <2>3 DEF Within
  <2> QED
    BY <2>1, <2>2, <2>3
    DEF Next, Builder, Answer, Refuse, Lose, ExecuteLate, Reader, BeginRead, ReadOrder,
        ReadTheChildren, ReadBreadcrumbs, EndRead, Finished, vars
<1> QED
  BY <1>1, <1>2, Inductive, PTL DEF Spec

\* Where the builder of i is says how much it has left.
LEMMA PointsAreNumbers ==
  ASSUME IInv, Within, NEW i \in Instances
  PROVE  /\ phase[i] = "calling" => PointsLeft(i) \in Nat /\ PointsLeft(i) >= 2
         /\ phase[i] = "running" => PointsLeft(i) \in Nat /\ PointsLeft(i) >= 1
         /\ PointsLeft(i) \in Nat
PROOF
<1>1. step[i] \in Nat /\ Len(Program[i]) \in Nat /\ phase[i] \in Phases
  BY ProgramLengths DEF IInv, Shapes
<1> QED
  BY <1>1 DEF PointsLeft, Within, Phases

LEMMA CallAdvances ==
  ASSUME IInv, Within, NEW i \in Instances, Call(i)
  PROVE  Advances(i)
PROOF
<1>1. step'[i] = step[i] /\ phase[i] = "calling" /\ phase'[i] = "running"
  BY DEF Call, IInv, Shapes
<1>2. step[i] \in Nat /\ Len(Program[i]) \in Nat /\ step[i] <= Len(Program[i])
  BY <1>1, ProgramLengths DEF IInv, Shapes, Within
<1>3. PointsLeft(i)' \in 0..(PointsLeft(i) - 1)
  BY <1>1, <1>2 DEF PointsLeft
<1> QED
  BY <1>3 DEF Advances

LEMMA ReturnAdvances ==
  ASSUME IInv, Within, NEW i \in Instances, Return(i)
  PROVE  Advances(i)
PROOF
<1>1. phase[i] = "running" /\ phase \in [Instances -> Phases] /\ step \in [Instances -> Nat \ {0}]
  BY DEF Return, IInv, Shapes
<1>2. step[i] \in Nat /\ Len(Program[i]) \in Nat /\ step[i] <= Len(Program[i])
  BY <1>1, ProgramLengths DEF Within
<1>3. \/ phase'[i] \in {"done", "failed"}
      \/ phase'[i] = "calling" /\ step'[i] = step[i] + 1 /\ step[i] # Len(Program[i])
  BY <1>1 DEF Return
<1>4. PointsLeft(i)' \in 0..(PointsLeft(i) - 1)
  BY <1>1, <1>2, <1>3 DEF PointsLeft
<1> QED
  BY <1>4 DEF Advances

\* A statement is settled, or has one attempt less.
LEMMA SettlingAdvances ==
  ASSUME IInv, NEW i \in Instances, NEW c \in DOMAIN left[i], UNCHANGED <<step, phase>>,
         \/ left' = Settled(i, c)
         \/ left' = [left EXCEPT ![i][c] = @ - 1] /\ left[i][c] > 1
  PROVE  /\ Advances(i)
         /\ \A k \in Instances \ {i} : left'[k] = left[k]
PROOF
<1>1. \A k \in Instances \ {i} : left'[k] = left[k]
  BY DEF IInv, Shapes, Settled
<1>2. PointsLeft(i)' = PointsLeft(i)
  BY DEF PointsLeft
<1>3. \A d \in DOMAIN left[i] : left[i][d] \in Nat
  BY BuilderAssumption DEF IInv, OnTheWay
<1>4. CASE left' = Settled(i, c)
  <2>1. left'[i] = [e \in DOMAIN left[i] \ {c} |-> left[i][e]]
    BY <1>4 DEF IInv, Shapes, Settled, Restrict
  <2>2. DOMAIN left'[i] = DOMAIN left[i] \ {c}
    BY <2>1
  <2>3. \A d \in DOMAIN left'[i] : left'[i][d] <= left[i][d]
    BY <1>3, <2>1
  <2>4. left'[i] # left[i]
    BY <2>2
  <2> QED
    BY <1>1, <1>2, <2>2, <2>3, <2>4 DEF Advances
<1>5. CASE left' = [left EXCEPT ![i][c] = @ - 1] /\ left[i][c] > 1
  <2>1. left'[i] = [left[i] EXCEPT ![c] = @ - 1]
    BY <1>5 DEF IInv, Shapes
  <2>2. /\ DOMAIN left'[i] = DOMAIN left[i] /\ left'[i][c] = left[i][c] - 1
        /\ \A d \in DOMAIN left[i] \ {c} : left'[i][d] = left[i][d]
    BY <2>1
  <2>3. \A d \in DOMAIN left'[i] : left'[i][d] <= left[i][d]
    BY <1>3, <2>2
  <2>4. left'[i] # left[i]
    BY <1>3, <2>2
  <2> QED
    BY <1>1, <1>2, <2>2, <2>3, <2>4 DEF Advances
<1> QED
  BY <1>4, <1>5

LEMMA BuilderAdvances ==
  ASSUME IInv, Within, NEW i \in Instances, Builder(i)
  PROVE  Advances(i) /\ \A k \in Instances \ {i} : Rests(k)
PROOF
<1>1. CASE Call(i)
  <2>1. \A k \in Instances \ {i} : Rests(k)
    BY <1>1 DEF Call, Rests, IInv, Shapes
  <2> QED
    BY <1>1, <2>1, CallAdvances
<1>2. CASE Return(i)
  <2>1. \A k \in Instances \ {i} : step'[k] = step[k] /\ phase'[k] = phase[k]
    BY <1>2 DEF Return, IInv, Shapes
  <2>2. \A k \in Instances \ {i} : Rests(k)
    BY <1>2, <2>1 DEF Return, Rests
  <2> QED
    BY <1>2, <2>2, ReturnAdvances
<1>3. CASE Answer(i) \/ Refuse(i) \/ Lose(i)
  <2>1. UNCHANGED <<step, phase>>
    BY <1>3 DEF Answer, Refuse, Lose
  <2>2. PICK c \in DOMAIN left[i] :
          \/ left' = Settled(i, c)
          \/ left' = [left EXCEPT ![i][c] = @ - 1] /\ left[i][c] > 1
    BY <1>3 DEF Answer, Refuse, Lose
  <2>3. Advances(i) /\ \A k \in Instances \ {i} : left'[k] = left[k]
    BY <2>1, <2>2, SettlingAdvances
  <2>4. \A k \in Instances \ {i} : err'[k] = err[k]
    BY <1>3 DEF Answer, Refuse, Lose, IInv, Shapes
  <2>5. \A k \in Instances \ {i} : ids'[k] = ids[k]
    BY <1>3 DEF Answer, Refuse, Lose, IInv, Shapes
  <2> QED
    BY <2>1, <2>3, <2>4, <2>5 DEF Rests
<1> QED
  BY <1>1, <1>2, <1>3 DEF Builder

\* Every step that is not a read brings the end of one build nearer or is a
\* late execution that does not come again, whatever is refused or lost.
THEOREM BuildsComeToAnEnd == Spec => BuildsAdvance
PROOF
<1>1. ASSUME IInv, Within, [Next]_vars
      PROVE  [\/ \E i \in Instances : Advances(i) /\ \A k \in Instances \ {i} : Rests(k)
              \/ /\ \A k \in Instances : Rests(k)
                 /\ late' \in (SUBSET late) \ {late} \/ UNCHANGED <<graph, late>>]_vars
  <2>1. ASSUME NEW i \in Instances, Builder(i)
        PROVE  Advances(i) /\ \A k \in Instances \ {i} : Rests(k)
    BY <1>1, <2>1, BuilderAdvances
  <2>2. CASE ExecuteLate
    <3>1. PICK r \in late : late' = late \ {r}
      BY <2>2 DEF ExecuteLate
    <3>2. late' \in (SUBSET late) \ {late}
      BY <3>1
    <3>3. \A k \in Instances : Rests(k)
      BY <2>2 DEF ExecuteLate, Rests
    <3> QED
      BY <3>2, <3>3
  <2>3. CASE Reader
    <3>1. UNCHANGED <<graph, step, phase, left, err, ids, late>>
      BY <2>3 DEF Reader, BeginRead, ReadOrder, ReadTheChildren, ReadBreadcrumbs, EndRead
    <3>2. \A k \in Instances : Rests(k)
      BY <3>1 DEF Rests
    <3> QED
      BY <3>1, <3>2
  <2>4. CASE UNCHANGED vars
    BY <2>4
  <2> QED
    BY <1>1, <2>1, <2>2, <2>3, <2>4 DEF Next, Finished
<1> QED
  BY <1>1, Inductive, WithinHolds, PTL DEF BuildsAdvance, Spec

------------------------------------------------------------------------------
(* What the two programs have made of the graph, step by step.  From here  *)
(* on every builder calls one of them, and the operations whose answers    *)
(* get lost are among those that may be repeated.                          *)

WellBuilt ==
  /\ \A i \in Instances : Program[i] \in {NewProgram, OldProgram}
  /\ Unreliable \subseteq Repeatable

IsNew(i) == Program[i] = NewProgram

\* The first clone of each node of N, and the first edge for each pair of R.
Lift(i, N) == { <<i, n, 1>> : n \in N }
LiftEdges(i, R) == { <<<<i, r[1], 1>>, <<i, r[2], 1>>, 1>> : r \in R }

\* What belongs to the hierarchy of i.
Of(i, V) == { v \in V : v[1] = i }
EdgesOf(i, E) == { e \in E : e[1][1] = i }

KeptEdges(i) == { r \in Parent : r[1] \in Kept(i) }

\* What the batches of each operation hold, all of them together.
Want(i) ==
  IF IsNew(i)
  THEN << GetCodesWithData(i), GetCodesWithData(i), Kept(i), data[i], Kept(i) \ data[i], Kept(i), Kept(i), {},
          Lift(i, Kept(i)), Lift(i, Kept(i)) >>
  ELSE [s \in 1..8 |-> {}]

\* What operation s has been done for, and the operations that have been done.
Covered(i, s) ==
  IF step[i] > s THEN Want(i)[s]
  ELSE IF step[i] = s /\ phase[i] # "calling" THEN Want(i)[s] \ UNION DOMAIN left[i] ELSE {}

Progress(i) == [s \in 1..10 |-> Covered(i, s)]

Passed(i) ==
  { s \in 1..10 : step[i] > s \/ (step[i] = s /\ phase[i] # "calling" /\ DOMAIN left[i] = {}) }

\* The hierarchy the ID-based program is building, at step n.
NewShape(g, i, C, n) ==
  /\ C[3] \subseteq g.hasCode
  /\ Of(i, g.vertices) = Lift(i, C[4] \cup C[5])
  /\ n <= 9 => Of(i, g.cloneOf) = Lift(i, C[4] \cup C[5])
  /\ g.cloneOf \cap C[10] = {}
  /\ Of(i, g.hasData) = Lift(i, C[4])
  /\ Of(i, g.remain) = {}
  /\ Lift(i, C[6] \cap Ordered) \subseteq g.ordered
  /\ EdgesOf(i, g.edges) = LiftEdges(i, { r \in Parent : r[1] \in C[7] })
  /\ C[9] \subseteq DOMAIN g.children

\* The hierarchy the trimming program is building, at step n.
OldShape(g, i, D, n) ==
  /\ Of(i, g.vertices) = Lift(i, IF 6 \in D THEN Kept(i) ELSE IF 1 \in D THEN Nodes ELSE {})
  /\ 1 \notin D => Of(i, g.cloneOf) = {}
  /\ 1 \in D /\ n <= 2 => Of(i, g.cloneOf) = Lift(i, Nodes)
  /\ 3 \in D => Of(i, g.cloneOf) = {}
  /\ EdgesOf(i, g.edges) =
       LiftEdges(i, IF 6 \in D THEN KeptEdges(i) ELSE IF 2 \in D THEN Parent ELSE {})
  /\ n <= 3 => Of(i, g.hasData) = {}
  /\ Of(i, g.hasData) \subseteq Lift(i, data[i])
  /\ 4 \in D => Of(i, g.hasData) = Lift(i, data[i])
  /\ 5 \notin D => Of(i, g.remain) = {}
  /\ 5 \in D /\ n <= 6 => Of(i, g.remain) = Lift(i, Kept(i))
  /\ 7 \in D => Of(i, g.remain) = {}
  /\ 8 \in D => Lift(i, Kept(i)) \subseteq DOMAIN g.children

\* What the builder has been told.
Told(i) ==
  /\ ids[i].nodes = Covered(i, 1) \cap Nodes
  /\ ids[i].ancestries = Ancestors(Parent, Covered(i, 2))
  /\ 8 \in Passed(i) => ids[i].clones = Lift(i, Kept(i))

\* A hierarchy that is complete but for the counts and the clone_of edges.
Final(g, i) ==
  /\ Of(i, g.vertices) = Lift(i, Kept(i))
  /\ EdgesOf(i, g.edges) = LiftEdges(i, KeptEdges(i))
  /\ Of(i, g.hasData) = Lift(i, data[i])
  /\ Of(i, g.remain) = {}
  /\ IF IsNew(i) THEN Of(i, g.ordered) = Lift(i, Kept(i) \cap Ordered) ELSE Of(i, g.cloneOf) = {}

Below(i, n) == Cardinality({ c \in Kept(i) : <<c, n>> \in Parent })

Counted(g, i) == \A v \in DOMAIN g.children : v[1] = i => g.children[v] = Below(i, v[2])

Uncounted(g, i) == \A v \in DOMAIN g.children : v[1] # i

\* The builder is at the counts or after them.
Built(i) == step[i] >= IF IsNew(i) THEN 9 ELSE 8

\* Where a builder is, and what of its operation is left to be done.
Position(i) ==
  /\ step[i] \in 1..Len(Program[i])
  /\ phase[i] = "calling" => ~err[i]
  /\ phase[i] = "done" => ~err[i] /\ step[i] = Len(Program[i]) /\ DOMAIN left[i] = {}
  /\ phase[i] # "calling" =>
       /\ \A c \in DOMAIN left[i] : c \subseteq Want(i)[step[i]]
       /\ \A c, d \in DOMAIN left[i] : c # d => c \cap d = {}

\* An operation that failed leaves what it likes, but for the counts.
Stage(i) ==
  /\ ~err[i] => IF IsNew(i) THEN Told(i) /\ NewShape(graph, i, Progress(i), step[i])
                ELSE OldShape(graph, i, Passed(i), step[i])
  /\ Built(i) => Final(graph, i) /\ Counted(graph, i)
  /\ ~Built(i) => Uncounted(graph, i)

\* A statement given up as lost was one the builder has sent.
Sent(r) == \E s \in 1..step[r[1]] : r[2] = Program[r[1]][s] /\ r[3] \subseteq Want(r[1])[s]

BuildInv ==
  /\ \A v \in graph.ordered : v[2] \in Ordered
  /\ \A r \in late : Sent(r)
  /\ \A i \in Instances : Position(i) /\ Stage(i)

\* Nothing of the hierarchy of i is different, but that it may have got more
\* of its order.
SameFor(i, g, h) ==
  /\ Of(i, h.vertices) = Of(i, g.vertices) /\ Of(i, h.cloneOf) = Of(i, g.cloneOf)
  /\ EdgesOf(i, h.edges) = EdgesOf(i, g.edges)
  /\ Of(i, h.hasData) = Of(i, g.hasData) /\ Of(i, h.remain) = Of(i, g.remain)
  /\ Of(i, DOMAIN h.children) = Of(i, DOMAIN g.children)
  /\ \A v \in Of(i, DOMAIN g.children) : h.children[v] = g.children[v]

OrderGrows(i, g, h) ==
  /\ Of(i, g.ordered) \subseteq h.ordered
  /\ \A v \in Of(i, h.ordered) : v \in g.ordered \/ (v \in g.cloneOf /\ v[2] \in Ordered)
  /\ g.hasCode \subseteq h.hasCode

LEMMA FreshOfNone == Fresh({}) = 1
PROOF
<1>1. Cardinality({}) = 0 /\ IsFiniteSet({})
  BY FS_EmptySet
<1>2. Fresh({}) \in 1..(0 + 1)
  <2>1. \E k \in 1..(0 + 1) : k \notin {} /\ \A j \in 1..(k - 1) : j \in {}
    OBVIOUS
  <2> QED
    BY <1>1, <2>1 DEF Fresh
<1> QED
  BY <1>2
------------------------------------------------------------------------------
(* What Ancestors reaches: a least closed set, so that two of them are     *)
(* compared without following a path.                                      *)

LEMMA AncestorsClosed ==
  ASSUME NEW R, NEW S, NEW e \in R, e[1] \in S \cup Ancestors(R, S)
  PROVE  e[2] \in Ancestors(R, S)
BY DEF Ancestors

LEMMA AncestorsLeast ==
  ASSUME NEW R, NEW S, NEW T, \A e \in R : e[1] \in S \cup T => e[2] \in T
  PROVE  Ancestors(R, S) \subseteq T
PROOF
<1> DEFINE targets == { e[2] : e \in R }
           U == T \cap targets
<1>1. \A e \in R : e[1] \in S \cup U => e[2] \in U
  OBVIOUS
<1>2. U \in SUBSET targets
  OBVIOUS
<1> QED
  BY <1>1, <1>2 DEF Ancestors

\* The ancestries of batches are those of all of them together.
LEMMA AncestorsOfUnion ==
  ASSUME NEW R, NEW S, NEW T
  PROVE  Ancestors(R, S \cup T) = Ancestors(R, S) \cup Ancestors(R, T)
PROOF
<1> DEFINE A(X) == Ancestors(R, X)
<1>1. \A e \in R : e[1] \in (S \cup T) \cup (A(S) \cup A(T)) => e[2] \in A(S) \cup A(T)
  BY AncestorsClosed
<1>2. \A e \in R : e[1] \in S \cup A(S \cup T) => e[2] \in A(S \cup T)
  BY AncestorsClosed
<1>3. \A e \in R : e[1] \in T \cup A(S \cup T) => e[2] \in A(S \cup T)
  BY AncestorsClosed
<1>4. A(S \cup T) \subseteq A(S) \cup A(T)
  BY <1>1, AncestorsLeast
<1>5. A(S) \subseteq A(S \cup T) /\ A(T) \subseteq A(S \cup T)
  BY <1>2, <1>3, AncestorsLeast
<1> QED
  BY <1>4, <1>5

LEMMA AncestorsOfNone ==
  ASSUME NEW R PROVE Ancestors(R, {}) = {}
BY AncestorsLeast

\* A part of the relation that keeps all there is above S is enough.
LEMMA AncestorsWithin ==
  ASSUME NEW R, NEW K, \A e \in R : e[1] \in K => e[2] \in K, NEW S, S \subseteq K
  PROVE  Ancestors({ r \in R : r[1] \in K }, S) = Ancestors(R, S) /\ Ancestors(R, S) \subseteq K
PROOF
<1> DEFINE Q == { r \in R : r[1] \in K }
<1>1. Ancestors(R, S) \subseteq K
  BY AncestorsLeast
<1>2. \A e \in Q : e[1] \in S \cup Ancestors(R, S) => e[2] \in Ancestors(R, S)
  BY AncestorsClosed
<1>3. Ancestors(Q, S) \subseteq Ancestors(R, S)
  BY <1>2, AncestorsLeast
<1>4. \A e \in R : e[1] \in S \cup Ancestors(Q, S) => e[2] \in Ancestors(Q, S)
  <2> SUFFICES ASSUME NEW e \in R, e[1] \in S \cup Ancestors(Q, S) PROVE e[2] \in Ancestors(Q, S)
    OBVIOUS
  <2>1. e \in Q
    BY <1>1, <1>3
  <2> QED
    BY <2>1, AncestorsClosed
<1>5. Ancestors(R, S) \subseteq Ancestors(Q, S)
  BY <1>4, AncestorsLeast
<1> QED
  BY <1>1, <1>3, <1>5

\* What is kept of a code list is closed upwards.
LEMMA KeptIsClosed ==
  ASSUME NEW i
  PROVE  /\ \A r \in Parent : r[1] \in Kept(i) => r[2] \in Kept(i)
         /\ KeptEdges(i) = Parent \cap (Kept(i) \X Kept(i))
PROOF
<1>1. \A r \in Parent : r[1] \in Kept(i) => r[2] \in Kept(i)
  BY AncestorsClosed DEF Kept
<1> QED
  BY <1>1, GenericAssumption DEF KeptEdges

\* Codes without a generic node have nothing above them.
LEMMA AncestorsOfCodes ==
  ASSUME NEW i
  PROVE  Ancestors(Parent, GetCodesWithData(i)) = Ancestors(Parent, data[i])
PROOF
<1>1. \A e \in Parent : e[1] \notin Strays
  BY GenericAssumption, BuilderAssumption
<1>2. Ancestors(Parent, Strays) \subseteq {}
  <2>1. \A e \in Parent : e[1] \in Strays \cup {} => e[2] \in {}
    BY <1>1
  <2> QED
    BY <2>1, AncestorsLeast
<1> QED
  BY <1>2, AncestorsOfUnion DEF GetCodesWithData

\* No vertex is a clone of such a code.
LEMMA SetHasDataOfNodes ==
  ASSUME NEW g, IsGraph(g), NEW i
  PROVE  SetHasData(g, i, GetCodesWithData(i)) = SetHasData(g, i, data[i])
PROOF
<1>1. \A v \in OfInstance(g, i) : v[2] \in Nodes
  BY PartsOfGraph DEF OfInstance, Vertices
<1>2. { v \in OfInstance(g, i) : v[2] \in GetCodesWithData(i) } =
      { v \in OfInstance(g, i) : v[2] \in data[i] }
  BY <1>1, BuilderAssumption DEF GetCodesWithData
<1> QED
  BY <1>2 DEF SetHasData

LEMMA KeptAreNodes ==
  ASSUME IInv, NEW i \in Instances
  PROVE  Kept(i) \subseteq Nodes /\ data[i] \subseteq Nodes /\ IsFiniteSet(Kept(i))
BY AncestorsOfNodes, GenericAssumption, FS_Subset DEF Kept, IInv, Shapes

------------------------------------------------------------------------------
(* Hierarchies lifted from the generic one: the first clone of each node.  *)

LEMMA InLift ==
  ASSUME NEW i, NEW N, NEW v
  PROVE  v \in Lift(i, N) <=> v = <<i, v[2], 1>> /\ v[2] \in N
BY DEF Lift

LEMMA InLiftEdges ==
  ASSUME NEW i, NEW R, R \subseteq Parent, NEW e
  PROVE  /\ e \in LiftEdges(i, R) =>
              /\ e = <<<<i, e[1][2], 1>>, <<i, e[2][2], 1>>, 1>>
              /\ <<e[1][2], e[2][2]>> \in R
         /\ \A a, b : <<a, b>> \in R => <<<<i, a, 1>>, <<i, b, 1>>, 1>> \in LiftEdges(i, R)
BY GenericAssumption DEF LiftEdges

LEMMA LiftUnion ==
  ASSUME NEW i, NEW N, NEW M
  PROVE  Lift(i, N \cup M) = Lift(i, N) \cup Lift(i, M)
BY DEF Lift

LEMMA LiftOfUnion ==
  ASSUME NEW i, NEW N, NEW M
  PROVE  /\ Lift(i, N \cup M) = Lift(i, N) \cup Lift(i, M)
         /\ Lift(i, N \cap M) = Lift(i, N) \cap Lift(i, M)
         /\ Lift(i, N \ M) = Lift(i, N) \ Lift(i, M)
         /\ Lift(i, {}) = {}
         /\ Lift(i, N) \subseteq Lift(i, M) <=> N \subseteq M
         /\ { v[2] : v \in Lift(i, N) } = N
PROOF
<1>1. Lift(i, N \cup M) = Lift(i, N) \cup Lift(i, M)
  BY DEF Lift
<1>2. Lift(i, N \cap M) = Lift(i, N) \cap Lift(i, M)
  BY DEF Lift
<1>3. Lift(i, N \ M) = Lift(i, N) \ Lift(i, M)
  BY DEF Lift
<1>4. Lift(i, {}) = {}
  BY DEF Lift
<1>5. \A n : <<i, n, 1>> \in Lift(i, N) <=> n \in N
  BY DEF Lift
<1>6. \A n : <<i, n, 1>> \in Lift(i, M) <=> n \in M
  BY DEF Lift
<1>7. Lift(i, N) \subseteq Lift(i, M) <=> N \subseteq M
  BY <1>5, <1>6 DEF Lift
<1>8. { v[2] : v \in Lift(i, N) } = N
  <2>1. \A n \in N : <<i, n, 1>> \in Lift(i, N) /\ <<i, n, 1>>[2] = n
    BY DEF Lift
  <2>2. \A v \in Lift(i, N) : v[2] \in N
    BY DEF Lift
  <2> QED
    BY <2>1, <2>2
<1> QED
  BY <1>1, <1>2, <1>3, <1>4, <1>7, <1>8

\* What is above some clones of a hierarchy are the clones of what is above.
LEMMA AncestorsOfLift ==
  ASSUME NEW i, NEW E, NEW R, R \subseteq Parent, EdgesOf(i, E) = LiftEdges(i, R), NEW N
  PROVE  Ancestors(E, Lift(i, N)) = Lift(i, Ancestors(R, N))
PROOF
<1> DEFINE A == Ancestors(R, N)
           B == Ancestors(E, Lift(i, N))
           C == { n \in Nodes : <<i, n, 1>> \in B }
<1>1. \A e \in E : e[1] \in Lift(i, N) \cup Lift(i, A) => e[2] \in Lift(i, A)
  <2> SUFFICES ASSUME NEW e \in E, e[1] \in Lift(i, N) \cup Lift(i, A) PROVE e[2] \in Lift(i, A)
    OBVIOUS
  <2>1. e[1][1] = i /\ e[1][2] \in N \cup A
    BY InLift
  <2>2. e \in LiftEdges(i, R)
    BY <2>1 DEF EdgesOf
  <2>3. e = <<<<i, e[1][2], 1>>, <<i, e[2][2], 1>>, 1>> /\ <<e[1][2], e[2][2]>> \in R
    BY <2>2, InLiftEdges
  <2> DEFINE r == <<e[1][2], e[2][2]>>
  <2>4. r[2] \in A
    <3>1. r \in R /\ r[1] \in N \cup A
      BY <2>1, <2>3
    <3> HIDE DEF r
    <3> QED
      BY <3>1, AncestorsClosed
  <2> QED
    BY <2>3, <2>4 DEF Lift
<1>2. B \subseteq Lift(i, A)
  BY <1>1, AncestorsLeast
<1>3. \A r \in R : r[1] \in N \cup C => r[2] \in C
  <2> SUFFICES ASSUME NEW r \in R, r[1] \in N \cup C PROVE r[2] \in C
    OBVIOUS
  <2> DEFINE e == <<<<i, r[1], 1>>, <<i, r[2], 1>>, 1>>
  <2>1. e \in E
    BY DEF EdgesOf, LiftEdges
  <2>2. e[1] \in Lift(i, N) \cup B /\ e[2] = <<i, r[2], 1>>
    BY DEF Lift
  <2>3. e[2] \in B
    <3> HIDE DEF e
    <3> QED
      BY <2>1, <2>2, AncestorsClosed
  <2> QED
    BY <2>2, <2>3, GenericAssumption
<1>4. A \subseteq C
  BY <1>3, AncestorsLeast
<1> QED
  BY <1>2, <1>4 DEF Lift
------------------------------------------------------------------------------
(* What the statements do to a graph, field by field.                      *)

LEMMA CloneVerticesDoes ==
  ASSUME NEW g, IsGraph(g), NEW i, NEW ns, NEW b, NEW h, h = CloneVertices(g, i, ns, b)
  PROVE  /\ h.edges = g.edges /\ h.remain = g.remain /\ h.ordered = g.ordered
         /\ h.children = g.children /\ h.hasCode = g.hasCode
         /\ \E new : /\ \A v \in new : v[1] = i
                     /\ h.vertices = g.vertices \cup new /\ h.cloneOf = g.cloneOf \cup new
                     /\ h.hasData \in {g.hasData, g.hasData \cup new}
PROOF
<1> DEFINE taken(n) == { v[3] : v \in { u \in g.vertices : u[1] = i /\ u[2] = n } }
           new == { <<i, n, Fresh(taken(n))>> : n \in ns }
<1>1. h = [g EXCEPT !.vertices = @ \cup new, !.cloneOf = @ \cup new,
                    !.hasData = IF b THEN @ \cup new ELSE @]
  BY DEF CloneVertices
<1>2. \A v \in new : v[1] = i
  <2> HIDE DEF taken
  <2> QED
    OBVIOUS
<1> HIDE DEF new
<1>3. /\ h.edges = g.edges /\ h.remain = g.remain /\ h.ordered = g.ordered
      /\ h.children = g.children /\ h.hasCode = g.hasCode
      /\ h.vertices = g.vertices \cup new /\ h.cloneOf = g.cloneOf \cup new
      /\ h.hasData \in {g.hasData, g.hasData \cup new}
  BY <1>1 DEF IsGraph
<1>4. \E x : /\ \A v \in x : v[1] = i
             /\ h.vertices = g.vertices \cup x /\ h.cloneOf = g.cloneOf \cup x
             /\ h.hasData \in {g.hasData, g.hasData \cup x}
  <2> WITNESS new
  <2> QED
    BY <1>2, <1>3
<1> QED
  BY <1>3, <1>4

LEMMA CloneRelationshipsDoes ==
  ASSUME NEW g, IsGraph(g), NEW i, NEW ns, NEW h, h = CloneRelationships(g, i, ns)
  PROVE  /\ h.vertices = g.vertices /\ h.cloneOf = g.cloneOf /\ h.hasData = g.hasData
         /\ h.remain = g.remain /\ h.ordered = g.ordered
         /\ h.children = g.children /\ h.hasCode = g.hasCode
         /\ \E new : (\A e \in new : e[1][1] = i) /\ h.edges = g.edges \cup new
PROOF
<1> DEFINE pairs == { e \in g.cloneOf \X g.cloneOf :
                        /\ e[1][1] = i /\ e[2][1] = i
                        /\ e[1][2] \in ns
                        /\ <<e[1][2], e[2][2]>> \in Parent }
           taken(e) == { f[3] : f \in { k \in g.edges : k[1] = e[1] /\ k[2] = e[2] } }
           new == { <<e[1], e[2], Fresh(taken(e))>> : e \in pairs }
<1>1. h = [g EXCEPT !.edges = @ \cup new]
  BY DEF CloneRelationships
<1>2. \A e \in new : e[1][1] = i
  <2>1. \A e \in pairs : e[1][1] = i
    OBVIOUS
  <2> HIDE DEF taken, pairs
  <2> QED
    BY <2>1
<1> HIDE DEF new
<1>3. /\ h.vertices = g.vertices /\ h.cloneOf = g.cloneOf /\ h.hasData = g.hasData
      /\ h.remain = g.remain /\ h.ordered = g.ordered
      /\ h.children = g.children /\ h.hasCode = g.hasCode /\ h.edges = g.edges \cup new
  BY <1>1 DEF IsGraph
<1>4. \E x : (\A e \in x : e[1][1] = i) /\ h.edges = g.edges \cup x
  <2> WITNESS new
  <2> QED
    BY <1>2, <1>3
<1> QED
  BY <1>3, <1>4

LEMMA SetNumberOfChildrenDoes ==
  ASSUME NEW g, IsGraph(g), NEW vs, NEW h, h = SetNumberOfChildren(g, vs)
  PROVE  /\ h.vertices = g.vertices /\ h.cloneOf = g.cloneOf /\ h.hasData = g.hasData
         /\ h.edges = g.edges /\ h.remain = g.remain /\ h.ordered = g.ordered
         /\ h.hasCode = g.hasCode
         /\ DOMAIN h.children = DOMAIN g.children \cup (vs \cap g.vertices)
         /\ \A v \in DOMAIN h.children : v \notin vs => h.children[v] = g.children[v]
PROOF
<1> DEFINE count(v) == Cardinality({ e \in g.edges : e[2] = v })
           counts == [ v \in DOMAIN g.children \cup (vs \cap g.vertices) |->
                         IF v \in vs THEN count(v) ELSE g.children[v] ]
<1>1. h = [g EXCEPT !.children = counts]
  BY DEF SetNumberOfChildren
<1> HIDE DEF count
<1>2. /\ DOMAIN counts = DOMAIN g.children \cup (vs \cap g.vertices)
      /\ \A v \in DOMAIN counts : v \notin vs => counts[v] = g.children[v]
  OBVIOUS
<1> HIDE DEF counts
<1>3. /\ h.vertices = g.vertices /\ h.cloneOf = g.cloneOf /\ h.hasData = g.hasData
      /\ h.edges = g.edges /\ h.remain = g.remain /\ h.ordered = g.ordered
      /\ h.hasCode = g.hasCode /\ h.children = counts
  BY <1>1 DEF IsGraph
<1> QED
  BY <1>2, <1>3

LEMMA SetNumberOfChildrenCounts ==
  ASSUME NEW g, IsGraph(g), NEW vs, NEW h, h = SetNumberOfChildren(g, vs),
         NEW v \in DOMAIN h.children, v \in vs
  PROVE  h.children[v] = Cardinality({ e \in g.edges : e[2] = v })
PROOF
<1> DEFINE count(w) == Cardinality({ e \in g.edges : e[2] = w })
           counts == [ w \in DOMAIN g.children \cup (vs \cap g.vertices) |->
                         IF w \in vs THEN count(w) ELSE g.children[w] ]
<1>1. h = [g EXCEPT !.children = counts]
  BY DEF SetNumberOfChildren
<1> HIDE DEF count
<1>2. \A w \in DOMAIN counts : w \in vs => counts[w] = count(w)
  OBVIOUS
<1> HIDE DEF counts
<1>3. h.children = counts
  BY <1>1 DEF IsGraph
<1>4. h.children[v] = count(v)
  BY <1>2, <1>3
<1> QED
  BY <1>4 DEF count

LEMMA RemoveNodesDoes ==
  ASSUME NEW g, IsGraph(g), NEW i, NEW gone, gone = OfInstance(g, i) \ g.remain,
         NEW h, h = RemoveNodesNotMarkedToRemain(g, i)
  PROVE  /\ h.vertices = g.vertices \ gone /\ h.cloneOf = g.cloneOf \ gone
         /\ h.hasData = g.hasData \ gone /\ h.ordered = g.ordered \ gone
         /\ h.edges = { e \in g.edges : e[1] \notin gone /\ e[2] \notin gone }
         /\ h.remain = g.remain /\ h.hasCode = g.hasCode
         /\ h.children = [v \in DOMAIN g.children \ gone |-> g.children[v]]
PROOF
<1> DEFINE edges == { e \in g.edges : e[1] \notin gone /\ e[2] \notin gone }
           counts == [v \in DOMAIN g.children \ gone |-> g.children[v]]
<1>1. h = [g EXCEPT !.vertices = @ \ gone, !.cloneOf = @ \ gone, !.edges = edges,
                    !.hasData = @ \ gone, !.ordered = @ \ gone, !.children = counts]
  BY DEF RemoveNodesNotMarkedToRemain
<1> HIDE DEF edges, counts
<1>2. /\ h.vertices = g.vertices \ gone /\ h.cloneOf = g.cloneOf \ gone
      /\ h.hasData = g.hasData \ gone /\ h.ordered = g.ordered \ gone
      /\ h.edges = edges /\ h.remain = g.remain /\ h.hasCode = g.hasCode /\ h.children = counts
  BY <1>1 DEF IsGraph
<1> QED
  BY <1>2 DEF edges, counts

\* The statements that write one property or marker.
LEMMA CreateHasCodeEdgesDoes ==
  ASSUME NEW g, IsGraph(g), NEW ns, NEW h, h = CreateHasCodeEdges(g, ns)
  PROVE  /\ h.vertices = g.vertices /\ h.cloneOf = g.cloneOf /\ h.hasData = g.hasData
         /\ h.edges = g.edges /\ h.remain = g.remain /\ h.ordered = g.ordered
         /\ h.children = g.children /\ h.hasCode = g.hasCode \cup ns
BY DEF CreateHasCodeEdges, IsGraph

LEMMA CloneOrderDoes ==
  ASSUME NEW g, IsGraph(g), NEW ns, NEW h, h = CloneOrder(g, ns)
  PROVE  /\ h.vertices = g.vertices /\ h.cloneOf = g.cloneOf /\ h.hasData = g.hasData
         /\ h.edges = g.edges /\ h.remain = g.remain
         /\ h.ordered = g.ordered \cup { v \in g.cloneOf : v[2] \in ns \cap g.hasCode \cap Ordered }
         /\ h.children = g.children /\ h.hasCode = g.hasCode
PROOF
<1> DEFINE new == { v \in g.cloneOf : v[2] \in ns \cap g.hasCode \cap Ordered }
<1>1. h = [g EXCEPT !.ordered = @ \cup new]
  BY DEF CloneOrder
<1> HIDE DEF new
<1>2. /\ h.vertices = g.vertices /\ h.cloneOf = g.cloneOf /\ h.hasData = g.hasData
      /\ h.edges = g.edges /\ h.remain = g.remain /\ h.ordered = g.ordered \cup new
      /\ h.children = g.children /\ h.hasCode = g.hasCode
  BY <1>1 DEF IsGraph
<1> QED
  BY <1>2 DEF new

LEMMA RemoveCloneMarkersDoes ==
  ASSUME NEW g, IsGraph(g), NEW vs, NEW h, h = RemoveCloneMarkers(g, vs)
  PROVE  /\ h.vertices = g.vertices /\ h.cloneOf = g.cloneOf \ vs /\ h.hasData = g.hasData
         /\ h.edges = g.edges /\ h.remain = g.remain /\ h.ordered = g.ordered
         /\ h.children = g.children /\ h.hasCode = g.hasCode
BY DEF RemoveCloneMarkers, IsGraph

LEMMA SetHasDataDoes ==
  ASSUME NEW g, IsGraph(g), NEW i, NEW codes, NEW h, h = SetHasData(g, i, codes)
  PROVE  /\ h.vertices = g.vertices /\ h.cloneOf = g.cloneOf
         /\ h.hasData = g.hasData \cup { v \in OfInstance(g, i) : v[2] \in codes }
         /\ h.edges = g.edges /\ h.remain = g.remain /\ h.ordered = g.ordered
         /\ h.children = g.children /\ h.hasCode = g.hasCode
PROOF
<1> DEFINE new == { v \in OfInstance(g, i) : v[2] \in codes }
<1>1. h = [g EXCEPT !.hasData = @ \cup new]
  BY DEF SetHasData
<1> HIDE DEF new
<1>2. /\ h.vertices = g.vertices /\ h.cloneOf = g.cloneOf /\ h.hasData = g.hasData \cup new
      /\ h.edges = g.edges /\ h.remain = g.remain /\ h.ordered = g.ordered
      /\ h.children = g.children /\ h.hasCode = g.hasCode
  BY <1>1 DEF IsGraph
<1> QED
  BY <1>2 DEF new

LEMMA MarkNodesToRemainDoes ==
  ASSUME NEW g, IsGraph(g), NEW i, NEW kept, kept = OfInstance(g, i) \cap g.hasData,
         NEW h, h = MarkNodesToRemain(g, i)
  PROVE  /\ h.vertices = g.vertices /\ h.cloneOf = g.cloneOf /\ h.hasData = g.hasData
         /\ h.edges = g.edges /\ h.remain = g.remain \cup kept \cup Ancestors(g.edges, kept)
         /\ h.ordered = g.ordered /\ h.children = g.children /\ h.hasCode = g.hasCode
PROOF
<1> DEFINE above == Ancestors(g.edges, kept)
<1>1. h = [g EXCEPT !.remain = @ \cup kept \cup above]
  BY DEF MarkNodesToRemain
<1> HIDE DEF above
<1>2. /\ h.vertices = g.vertices /\ h.cloneOf = g.cloneOf /\ h.hasData = g.hasData
      /\ h.edges = g.edges /\ h.remain = g.remain \cup kept \cup above
      /\ h.ordered = g.ordered /\ h.children = g.children /\ h.hasCode = g.hasCode
  BY <1>1 DEF IsGraph
<1> QED
  BY <1>2 DEF above

LEMMA RemoveRemainMarkerDoes ==
  ASSUME NEW g, IsGraph(g), NEW i, NEW h, h = RemoveRemainMarker(g, i)
  PROVE  /\ h.vertices = g.vertices /\ h.cloneOf = g.cloneOf /\ h.hasData = g.hasData
         /\ h.edges = g.edges /\ h.remain = g.remain \ OfInstance(g, i)
         /\ h.ordered = g.ordered /\ h.children = g.children /\ h.hasCode = g.hasCode
BY DEF RemoveRemainMarker, IsGraph

\* The first clone of a node is clone 1, and so is the first edge between two.
LEMMA FirstClones ==
  ASSUME NEW g, IsGraph(g), NEW i, NEW W, Of(i, g.vertices) = Lift(i, W), NEW ns, ns \cap W = {},
         NEW op, NEW c,
         \/ op = "CloneNodes" /\ ns = Nodes
         \/ op = "CloneNodesFromIDs(data)" /\ ns = c
         \/ op = "CloneNodesFromIDs(ancestries)" /\ ns = c,
         NEW h, h = Execute(g, i, op, c)
  PROVE  /\ h.vertices = g.vertices \cup Lift(i, ns) /\ h.cloneOf = g.cloneOf \cup Lift(i, ns)
         /\ op = "CloneNodesFromIDs(data)" => h.hasData = g.hasData \cup Lift(i, ns)
         /\ op # "CloneNodesFromIDs(data)" => h.hasData = g.hasData
         /\ h.edges = g.edges /\ h.remain = g.remain /\ h.ordered = g.ordered
         /\ h.children = g.children /\ h.hasCode = g.hasCode
PROOF
<1> DEFINE taken(n) == { v[3] : v \in { u \in g.vertices : u[1] = i /\ u[2] = n } }
           new == { <<i, n, Fresh(taken(n))>> : n \in ns }
<1>1. ASSUME NEW n \in ns PROVE Fresh(taken(n)) = 1
  <2>1. taken(n) = {}
    <3> SUFFICES ASSUME NEW u \in g.vertices, u[1] = i, u[2] = n PROVE FALSE
      OBVIOUS
    <3>1. u \in Lift(i, W)
      BY DEF Of
    <3> QED
      BY <3>1, InLift
  <2> QED
    BY <2>1, FreshOfNone
<1> HIDE DEF taken
<1>2. new = Lift(i, ns)
  BY <1>1 DEF Lift
<1>3. CASE op = "CloneNodesFromIDs(data)"
  <2>1. h = CloneVertices(g, i, ns, TRUE)
    BY <1>3 DEF Execute
  <2>2. h = [g EXCEPT !.vertices = @ \cup new, !.cloneOf = @ \cup new, !.hasData = @ \cup new]
    BY <2>1 DEF CloneVertices, taken
  <2> HIDE DEF new
  <2> QED
    BY <1>2, <1>3, <2>2 DEF IsGraph
<1>4. CASE op # "CloneNodesFromIDs(data)"
  <2>1. h = CloneVertices(g, i, ns, FALSE)
    BY <1>4 DEF Execute
  <2>2. h = [g EXCEPT !.vertices = @ \cup new, !.cloneOf = @ \cup new, !.hasData = @]
    BY <2>1 DEF CloneVertices, taken
  <2> HIDE DEF new
  <2> QED
    BY <1>2, <1>4, <2>2 DEF IsGraph
<1> QED
  BY <1>3, <1>4

LEMMA FirstEdges ==
  ASSUME NEW g, IsGraph(g), NEW i, NEW K, Of(i, g.cloneOf) = Lift(i, K),
         \A r \in Parent : r[1] \in K => r[2] \in K,
         NEW R, R \subseteq Parent, EdgesOf(i, g.edges) = LiftEdges(i, R),
         NEW ns, ns \subseteq K, \A r \in R : r[1] \notin ns,
         NEW h, h = CloneRelationships(g, i, ns)
  PROVE  h.edges = g.edges \cup LiftEdges(i, { r \in Parent : r[1] \in ns })
PROOF
<1> DEFINE pairs == { e \in g.cloneOf \X g.cloneOf :
                        /\ e[1][1] = i /\ e[2][1] = i
                        /\ e[1][2] \in ns
                        /\ <<e[1][2], e[2][2]>> \in Parent }
           taken(e) == { f[3] : f \in { k \in g.edges : k[1] = e[1] /\ k[2] = e[2] } }
           new == { <<e[1], e[2], Fresh(taken(e))>> : e \in pairs }
           up == { r \in Parent : r[1] \in ns }
<1>1. h.edges = g.edges \cup new
  <2>1. h = [g EXCEPT !.edges = @ \cup new]
    BY DEF CloneRelationships
  <2> HIDE DEF new
  <2> QED
    BY <2>1 DEF IsGraph
<1>2. ASSUME NEW e \in pairs PROVE Fresh(taken(e)) = 1
  <2>1. taken(e) = {}
    <3> SUFFICES ASSUME NEW f \in g.edges, f[1] = e[1], f[2] = e[2] PROVE FALSE
      OBVIOUS
    <3>1. f \in LiftEdges(i, R)
      BY DEF EdgesOf
    <3>2. <<f[1][2], f[2][2]>> \in R
      BY <3>1, InLiftEdges
    <3> QED
      BY <3>2
  <2> QED
    BY <2>1, FreshOfNone
<1>3. new = { <<e[1], e[2], 1>> : e \in pairs }
  <2> HIDE DEF taken, pairs
  <2> QED
    BY <1>2
<1>4. ASSUME NEW e \in pairs PROVE <<e[1], e[2], 1>> \in LiftEdges(i, up)
  <2>1. e[1] \in Lift(i, K) /\ e[2] \in Lift(i, K)
    BY <1>4 DEF Of
  <2>2. e[1] = <<i, e[1][2], 1>> /\ e[2] = <<i, e[2][2], 1>>
    BY <2>1, InLift
  <2>3. <<e[1][2], e[2][2]>> \in up
    BY <1>4
  <2>4. <<<<i, e[1][2], 1>>, <<i, e[2][2], 1>>, 1>> \in LiftEdges(i, up)
    BY <2>3, InLiftEdges
  <2> QED
    BY <2>2, <2>4
<1>5. ASSUME NEW d \in LiftEdges(i, up) PROVE \E e \in pairs : d = <<e[1], e[2], 1>>
  <2> DEFINE e == <<d[1], d[2]>>
  <2>1. d = <<<<i, d[1][2], 1>>, <<i, d[2][2], 1>>, 1>> /\ <<d[1][2], d[2][2]>> \in up
    BY <1>5, InLiftEdges
  <2>2. d[1][2] \in K /\ d[2][2] \in K
    BY <2>1
  <2>3. <<i, d[1][2], 1>> \in g.cloneOf /\ <<i, d[2][2], 1>> \in g.cloneOf
    BY <2>2 DEF Of, Lift
  <2>4. d[1] \in g.cloneOf /\ d[2] \in g.cloneOf /\ d[1][1] = i /\ d[2][1] = i
    BY <2>1, <2>3
  <2>5. e \in pairs /\ d = <<e[1], e[2], 1>>
    BY <2>1, <2>4
  <2> QED
    BY <2>5
<1>6. new = LiftEdges(i, up)
  <2> HIDE DEF pairs
  <2> QED
    BY <1>3, <1>4, <1>5
<1> QED
  BY <1>1, <1>6
------------------------------------------------------------------------------
(* A statement of one builder and the hierarchy of another.                *)

\* The operations whose batches hold clones.
OfClones == {"SetNumberOfChildrenFromIDs", "RemoveCloneEdgesFromSourceIDs"}

LEMMA OthersUntouched ==
  ASSUME NEW g, IsGraph(g), NEW i, NEW j, i # j, NEW op, NEW c,
         op \in OfClones => \A v \in c : v[1] = i,
         NEW h, h = Execute(g, i, op, c)
  PROVE  SameFor(j, g, h) /\ OrderGrows(j, g, h)
PROOF
<1> USE DEF SameFor, OrderGrows, Of, EdgesOf, OfClones
<1>1. CASE op = "CreateHasCodeEdges"
  <2>1. h = CreateHasCodeEdges(g, c)
    BY <1>1 DEF Execute
  <2> QED
    BY <2>1, CreateHasCodeEdgesDoes
<1>2. CASE op \in {"CloneNodes", "CloneNodesFromIDs(data)", "CloneNodesFromIDs(ancestries)"}
  <2>1. PICK ns, b : h = CloneVertices(g, i, ns, b)
    BY <1>2 DEF Execute
  <2>2. PICK new : /\ \A v \in new : v[1] = i
                   /\ h.vertices = g.vertices \cup new /\ h.cloneOf = g.cloneOf \cup new
                   /\ h.hasData \in {g.hasData, g.hasData \cup new}
    BY <2>1, CloneVerticesDoes
  <2>3. /\ h.edges = g.edges /\ h.remain = g.remain /\ h.ordered = g.ordered
        /\ h.children = g.children /\ h.hasCode = g.hasCode
    BY <2>1, CloneVerticesDoes
  <2> QED
    BY <2>2, <2>3
<1>3. CASE op = "CloneOrderFromIDs"
  <2>1. h = CloneOrder(g, c)
    BY <1>3 DEF Execute
  <2> QED
    BY <2>1, CloneOrderDoes
<1>4. CASE op \in {"CloneRelationships", "CloneRelationshipsFromIDs"}
  <2>1. PICK ns : h = CloneRelationships(g, i, ns)
    BY <1>4 DEF Execute
  <2>2. PICK new : (\A e \in new : e[1][1] = i) /\ h.edges = g.edges \cup new
    BY <2>1, CloneRelationshipsDoes
  <2>3. /\ h.vertices = g.vertices /\ h.cloneOf = g.cloneOf /\ h.hasData = g.hasData
        /\ h.remain = g.remain /\ h.ordered = g.ordered
        /\ h.children = g.children /\ h.hasCode = g.hasCode
    BY <2>1, CloneRelationshipsDoes
  <2> QED
    BY <2>2, <2>3
<1>5. CASE op \in {"RemoveCloneEdges", "RemoveCloneEdgesFromSourceIDs"}
  <2>1. \A v \in OfInstance(g, i) : v[1] = i
    BY DEF OfInstance
  <2>2. PICK vs : h = RemoveCloneMarkers(g, vs) /\ \A v \in vs : v[1] = i
    <3>1. CASE op = "RemoveCloneEdges"
      BY <2>1, <3>1 DEF Execute
    <3>2. CASE op = "RemoveCloneEdgesFromSourceIDs"
      BY <3>2 DEF Execute
    <3> QED
      BY <1>5, <3>1, <3>2
  <2> QED
    BY <2>2, RemoveCloneMarkersDoes
<1>6. CASE op \in {"SetNumberOfChildren", "SetNumberOfChildrenFromIDs"}
  <2>1. PICK vs : h = SetNumberOfChildren(g, vs) /\ \A v \in vs : v[1] = i
    BY <1>6 DEF Execute, OfInstance
  <2>2. /\ h.vertices = g.vertices /\ h.cloneOf = g.cloneOf /\ h.hasData = g.hasData
        /\ h.edges = g.edges /\ h.remain = g.remain /\ h.ordered = g.ordered
        /\ h.hasCode = g.hasCode
        /\ DOMAIN h.children = DOMAIN g.children \cup (vs \cap g.vertices)
        /\ \A v \in DOMAIN h.children : v \notin vs => h.children[v] = g.children[v]
    BY <2>1, SetNumberOfChildrenDoes
  <2> QED
    BY <2>1, <2>2
<1>7. CASE op = "SetHasData"
  <2>1. h = SetHasData(g, i, data[i])
    BY <1>7, SetHasDataOfNodes DEF Execute
  <2> QED
    BY <2>1, SetHasDataDoes DEF OfInstance
<1>8. CASE op = "MarkNodesToRemain"
  <2> DEFINE kept == OfInstance(g, i) \cap g.hasData
             above == Ancestors(g.edges, kept)
  <2>1. h = MarkNodesToRemain(g, i) /\ kept = OfInstance(g, i) \cap g.hasData
    BY <1>8 DEF Execute
  <2>2. /\ h.vertices = g.vertices /\ h.cloneOf = g.cloneOf /\ h.hasData = g.hasData
        /\ h.edges = g.edges /\ h.remain = g.remain \cup kept \cup above
        /\ h.ordered = g.ordered /\ h.children = g.children /\ h.hasCode = g.hasCode
    <3> HIDE DEF kept
    <3> QED
      BY <2>1, MarkNodesToRemainDoes DEF above
  <2>3. \A v \in kept : v[1] = i
    BY DEF OfInstance
  <2>4. \A v \in above : v[1] = i
    <3> DEFINE T == { v \in g.vertices : v[1] = i }
    <3>1. \A e \in g.edges : e[1] \in kept \cup T => e[2] \in T
      BY <2>3, PartsOfGraph
    <3>2. above \subseteq T
      BY <3>1, AncestorsLeast
    <3> QED
      BY <3>2
  <2> HIDE DEF kept, above
  <2> QED
    BY <2>2, <2>3, <2>4
<1>9. CASE op = "RemoveNodesNotMarkedToRemain"
  <2> DEFINE gone == OfInstance(g, i) \ g.remain
  <2>1. h = RemoveNodesNotMarkedToRemain(g, i) /\ gone = OfInstance(g, i) \ g.remain
    BY <1>9 DEF Execute
  <2>2. /\ h.vertices = g.vertices \ gone /\ h.cloneOf = g.cloneOf \ gone
        /\ h.hasData = g.hasData \ gone /\ h.ordered = g.ordered \ gone
        /\ h.edges = { e \in g.edges : e[1] \notin gone /\ e[2] \notin gone }
        /\ h.remain = g.remain /\ h.hasCode = g.hasCode
        /\ h.children = [v \in DOMAIN g.children \ gone |-> g.children[v]]
    <3> HIDE DEF gone
    <3> QED
      BY <2>1, RemoveNodesDoes
  <2>3. \A v \in gone : v[1] = i
    BY DEF OfInstance
  <2> HIDE DEF gone
  <2>4. \A e \in g.edges : e[1][1] = j => e[1] \notin gone /\ e[2] \notin gone
    BY <2>3, PartsOfGraph
  <2> QED
    BY <2>2, <2>3, <2>4
<1>10. CASE op = "RemoveRemainMarker"
  <2>1. h = RemoveRemainMarker(g, i)
    BY <1>10 DEF Execute
  <2> QED
    BY <2>1, RemoveRemainMarkerDoes DEF OfInstance
<1>11. CASE op \notin { "CreateHasCodeEdges", "CloneNodes", "CloneNodesFromIDs(data)",
                        "CloneNodesFromIDs(ancestries)", "CloneOrderFromIDs", "CloneRelationships",
                        "CloneRelationshipsFromIDs", "RemoveCloneEdges",
                        "RemoveCloneEdgesFromSourceIDs", "SetNumberOfChildren",
                        "SetNumberOfChildrenFromIDs", "SetHasData", "MarkNodesToRemain",
                        "RemoveNodesNotMarkedToRemain", "RemoveRemainMarker" }
  <2>1. h = g
    BY <1>11 DEF Execute
  <2> QED
    BY <2>1
<1> QED
  BY <1>1, <1>2, <1>3, <1>4, <1>5, <1>6, <1>7, <1>8, <1>9, <1>10, <1>11
------------------------------------------------------------------------------
(* The two programs.                                                       *)

LEMMA TheNewProgram ==
  ASSUME NEW i, IsNew(i)
  PROVE  /\ Len(Program[i]) = 10
         /\ Program[i][1] = "GetGenericHierarchyNodeIDs"
         /\ Program[i][2] = "GetGenericHierarchyAncestriesIDs"
         /\ Program[i][3] = "CreateHasCodeEdges"
         /\ Program[i][4] = "CloneNodesFromIDs(data)"
         /\ Program[i][5] = "CloneNodesFromIDs(ancestries)"
         /\ Program[i][6] = "CloneOrderFromIDs"
         /\ Program[i][7] = "CloneRelationshipsFromIDs"
         /\ Program[i][8] = "GetHierarchyNodeIDs"
         /\ Program[i][9] = "SetNumberOfChildrenFromIDs"
         /\ Program[i][10] = "RemoveCloneEdgesFromSourceIDs"
         /\ Want(i)[1] = GetCodesWithData(i) /\ Want(i)[2] = GetCodesWithData(i)
         /\ Want(i)[3] = Kept(i)
         /\ Want(i)[4] = data[i] /\ Want(i)[5] = Kept(i) \ data[i]
         /\ Want(i)[6] = Kept(i) /\ Want(i)[7] = Kept(i) /\ Want(i)[8] = {}
         /\ Want(i)[9] = Lift(i, Kept(i)) /\ Want(i)[10] = Lift(i, Kept(i))
BY DEF IsNew, NewProgram, Want

LEMMA TheOldProgram ==
  ASSUME WellBuilt, NEW i \in Instances, ~IsNew(i)
  PROVE  /\ Len(Program[i]) = 8
         /\ Program[i][1] = "CloneNodes"
         /\ Program[i][2] = "CloneRelationships"
         /\ Program[i][3] = "RemoveCloneEdges"
         /\ Program[i][4] = "SetHasData"
         /\ Program[i][5] = "MarkNodesToRemain"
         /\ Program[i][6] = "RemoveNodesNotMarkedToRemain"
         /\ Program[i][7] = "RemoveRemainMarker"
         /\ Program[i][8] = "SetNumberOfChildren"
         /\ \A s \in 1..8 : Want(i)[s] = {}
BY DEF WellBuilt, IsNew, OldProgram, Want

LEMMA WhoSorts ==
  ASSUME WellBuilt, NEW i \in Instances
  PROVE  i \in Sorted <=> IsNew(i)
PROOF
<1>1. CASE IsNew(i)
  <2>1. Program[i][6] = "CloneOrderFromIDs" /\ Len(Program[i]) = 10
    BY <1>1, TheNewProgram
  <2>2. 6 \in DOMAIN Program[i]
    BY <2>1, BuilderAssumption
  <2> QED
    BY <1>1, <2>1, <2>2 DEF Sorted
<1>2. CASE ~IsNew(i)
  <2>1. Len(Program[i]) = 8 /\ \A s \in 1..8 : Program[i][s] # "CloneOrderFromIDs"
    BY <1>2, TheOldProgram
  <2>2. DOMAIN Program[i] = 1..8
    BY <2>1, BuilderAssumption
  <2> QED
    BY <1>2, <2>1, <2>2 DEF Sorted
<1> QED
  BY <1>1, <1>2

\* The batches are apart, and together they hold everything.
LEMMA BatchesArePartition ==
  ASSUME NEW S, NEW n, NEW P \in Batches(S, n)
  PROVE  UNION P = S /\ \A c, d \in P : c # d => c \cap d = {}
PROOF
<1> DEFINE m == (Cardinality(S) + n - 1) \div n
           batch(f, k) == { x \in S : f[x] = k }
<1>1. PICK f \in [S -> 1..m] : P = { batch(f, k) : k \in 1..m }
  BY DEF Batches
<1> HIDE DEF m
<1>2. \A x \in S : f[x] \in 1..m
  BY <1>1
<1>3. \A c \in P : \E k \in 1..m : c = batch(f, k)
  BY <1>1
<1>4. \A k \in 1..m : batch(f, k) \in P
  BY <1>1
<1>5. UNION P \subseteq S
  BY <1>3
<1>6. ASSUME NEW x \in S PROVE x \in UNION P
  <2>1. batch(f, f[x]) \in P /\ x \in batch(f, f[x])
    BY <1>2, <1>4
  <2> QED
    BY <2>1
<1>7. ASSUME NEW c \in P, NEW d \in P, NEW x \in c, x \in d PROVE c = d
  BY <1>3, <1>7
<1> QED
  BY <1>5, <1>6, <1>7

------------------------------------------------------------------------------
(* The shapes, and the statements of other builders.                       *)

LEMMA NewShapeHolds ==
  ASSUME NEW i, NEW g, NEW h, NEW C, NEW n, NEW m, NewShape(g, i, C, n), m <= 9 => n <= 9,
         SameFor(i, g, h), OrderGrows(i, g, h),
         \A v \in C[9] \cup C[10] : v[1] = i
  PROVE  NewShape(h, i, C, m)
PROOF
<1>1. C[3] \subseteq h.hasCode /\ Of(i, h.vertices) = Lift(i, C[4] \cup C[5])
  BY DEF NewShape, SameFor, OrderGrows
<1>2. m <= 9 => Of(i, h.cloneOf) = Lift(i, C[4] \cup C[5])
  BY DEF NewShape, SameFor
<1>3. h.cloneOf \cap C[10] = {}
  BY DEF NewShape, SameFor, Of
<1>4. Of(i, h.hasData) = Lift(i, C[4]) /\ Of(i, h.remain) = {}
  BY DEF NewShape, SameFor
<1>5. Lift(i, C[6] \cap Ordered) \subseteq h.ordered
  <2> SUFFICES ASSUME NEW v \in Lift(i, C[6] \cap Ordered) PROVE v \in h.ordered
    OBVIOUS
  <2>1. v[1] = i /\ v \in g.ordered
    BY InLift DEF NewShape
  <2> QED
    BY <2>1 DEF OrderGrows, Of
<1>6. EdgesOf(i, h.edges) = LiftEdges(i, { r \in Parent : r[1] \in C[7] })
  BY DEF NewShape, SameFor
<1>7. C[9] \subseteq DOMAIN h.children
  <2> SUFFICES ASSUME NEW v \in C[9] PROVE v \in DOMAIN h.children
    OBVIOUS
  <2>1. v \in Of(i, DOMAIN g.children)
    BY DEF NewShape, Of
  <2> QED
    BY <2>1 DEF SameFor, Of
<1> QED
  BY <1>1, <1>2, <1>3, <1>4, <1>5, <1>6, <1>7 DEF NewShape

LEMMA OldShapeHolds ==
  ASSUME NEW i, NEW g, NEW h, NEW D, NEW n \in Nat, NEW m \in Nat, OldShape(g, i, D, n), n <= m,
         SameFor(i, g, h)
  PROVE  OldShape(h, i, D, m)
PROOF
<1>1. ASSUME 8 \in D PROVE Lift(i, Kept(i)) \subseteq DOMAIN h.children
  <2> SUFFICES ASSUME NEW v \in Lift(i, Kept(i)) PROVE v \in DOMAIN h.children
    OBVIOUS
  <2>1. v \in Of(i, DOMAIN g.children)
    BY <1>1, InLift DEF OldShape, Of
  <2> QED
    BY <2>1 DEF SameFor, Of
<1> QED
  BY <1>1 DEF OldShape, SameFor

LEMMA FinalHolds ==
  ASSUME NEW i, NEW g, NEW h, IsGraph(h), Final(g, i), Counted(g, i),
         SameFor(i, g, h), OrderGrows(i, g, h), \A v \in h.ordered : v[2] \in Ordered
  PROVE  /\ Final(h, i) /\ Counted(h, i)
         /\ Of(i, h.ordered) = Of(i, g.ordered)
         /\ Of(i, DOMAIN g.children) \subseteq DOMAIN h.children
PROOF
<1>1. Of(i, h.ordered) = Of(i, g.ordered)
  <2>1. Of(i, g.ordered) \subseteq Of(i, h.ordered)
    BY DEF OrderGrows, Of
  <2>2. CASE IsNew(i)
    <3>1. Of(i, h.ordered) \subseteq Of(i, h.vertices)
      BY PartsOfGraph DEF Of
    <3>2. Of(i, h.ordered) \subseteq Lift(i, Kept(i))
      BY <3>1 DEF SameFor, Final
    <3>3. \A v \in Of(i, h.ordered) : v[2] \in Ordered
      BY DEF Of
    <3>4. Of(i, h.ordered) \subseteq Lift(i, Kept(i) \cap Ordered)
      BY <3>2, <3>3, InLift
    <3> QED
      BY <2>1, <2>2, <3>4 DEF Final
  <2>3. CASE ~IsNew(i)
    BY <2>1, <2>3 DEF Final, OrderGrows, Of
  <2> QED
    BY <2>2, <2>3
<1>2. Final(h, i)
  BY <1>1 DEF Final, SameFor
<1>3. Counted(h, i)
  BY DEF Counted, SameFor, Of
<1> QED
  BY <1>1, <1>2, <1>3 DEF SameFor, Of

LEMMA UncountedHolds ==
  ASSUME NEW i, NEW g, NEW h, Uncounted(g, i), SameFor(i, g, h)
  PROVE  Uncounted(h, i)
BY DEF Uncounted, SameFor, Of
------------------------------------------------------------------------------
(* A repeatable statement executed once more, or late.                     *)

\* The stored count of a vertex of a complete hierarchy.
LEMMA CountIsBelow ==
  ASSUME IInv, NEW g, IsGraph(g), NEW i \in Instances, Final(g, i), NEW v \in g.vertices, v[1] = i
  PROVE  Cardinality({ e \in g.edges : e[2] = v }) = Below(i, v[2])
PROOF
<1> DEFINE n == v[2]
           S == { c \in Kept(i) : <<c, n>> \in Parent }
           f == [c \in S |-> <<<<i, c, 1>>, v, 1>>]
           E == { e \in g.edges : e[2] = v }
<1>1. v = <<i, n, 1>> /\ n \in Kept(i)
  BY InLift DEF Final, Of
<1>2. IsFiniteSet(S) /\ DOMAIN f = S
  BY KeptAreNodes, FS_Subset
<1>3. \A c, d \in S : f[c] = f[d] => c = d
  OBVIOUS
<1>4. ASSUME NEW c \in S PROVE f[c] \in E
  <2>1. <<c, n>> \in KeptEdges(i) /\ KeptEdges(i) \subseteq Parent
    BY DEF KeptEdges
  <2>2. <<<<i, c, 1>>, <<i, n, 1>>, 1>> \in LiftEdges(i, KeptEdges(i))
    BY <2>1, InLiftEdges
  <2>3. <<<<i, c, 1>>, <<i, n, 1>>, 1>> \in g.edges
    BY <2>2 DEF Final, EdgesOf
  <2> QED
    BY <1>1, <2>3
<1>5. ASSUME NEW e \in E PROVE \E c \in S : e = f[c]
  <2>1. e \in EdgesOf(i, g.edges)
    BY PartsOfGraph DEF EdgesOf
  <2>2. e \in LiftEdges(i, KeptEdges(i)) /\ KeptEdges(i) \subseteq Parent
    BY <2>1 DEF Final, KeptEdges
  <2>3. e = <<<<i, e[1][2], 1>>, <<i, e[2][2], 1>>, 1>> /\ <<e[1][2], e[2][2]>> \in KeptEdges(i)
    BY <2>2, InLiftEdges
  <2>4. e[1][2] \in S
    BY <2>3 DEF KeptEdges
  <2>5. e = <<<<i, e[1][2], 1>>, v, 1>>
    BY <2>3
  <2> QED
    BY <2>4, <2>5
<1>6. { f[c] : c \in S } = E
  <2> HIDE DEF f, E, S
  <2> QED
    BY <1>4, <1>5
<1>7. Cardinality({ f[c] : c \in S }) = Cardinality(S)
  <2> HIDE DEF f, S
  <2> QED
    BY <1>2, <1>3, SameSize
<1> QED
  BY <1>6, <1>7 DEF Below

\* Only nodes whose code has an order get one.
LEMMA OrderIsOfCodes ==
  ASSUME NEW g, IsGraph(g), NEW i, NEW op, NEW c, NEW h, h = Execute(g, i, op, c)
  PROVE  \A v \in h.ordered : v \in g.ordered \/ v[2] \in Ordered
PROOF
<1>1. CASE op = "CreateHasCodeEdges"
  BY <1>1, CreateHasCodeEdgesDoes DEF Execute
<1>2. CASE op \in {"CloneNodes", "CloneNodesFromIDs(data)", "CloneNodesFromIDs(ancestries)"}
  <2>1. \E ns, b : h = CloneVertices(g, i, ns, b)
    BY <1>2 DEF Execute
  <2> QED
    BY <2>1, CloneVerticesDoes
<1>3. CASE op = "CloneOrderFromIDs"
  BY <1>3, CloneOrderDoes DEF Execute
<1>4. CASE op \in {"CloneRelationships", "CloneRelationshipsFromIDs"}
  <2>1. \E ns : h = CloneRelationships(g, i, ns)
    BY <1>4 DEF Execute
  <2> QED
    BY <2>1, CloneRelationshipsDoes
<1>5. CASE op \in {"RemoveCloneEdges", "RemoveCloneEdgesFromSourceIDs"}
  <2>1. \E vs : h = RemoveCloneMarkers(g, vs)
    BY <1>5 DEF Execute
  <2> QED
    BY <2>1, RemoveCloneMarkersDoes
<1>6. CASE op \in {"SetNumberOfChildren", "SetNumberOfChildrenFromIDs"}
  <2>1. \E vs : h = SetNumberOfChildren(g, vs)
    BY <1>6 DEF Execute
  <2> QED
    BY <2>1, SetNumberOfChildrenDoes
<1>7. CASE op = "SetHasData"
  BY <1>7, SetHasDataDoes DEF Execute
<1>8. CASE op = "MarkNodesToRemain"
  <2>1. h = MarkNodesToRemain(g, i)
    BY <1>8 DEF Execute
  <2>2. PICK kept : kept = OfInstance(g, i) \cap g.hasData
    OBVIOUS
  <2> QED
    BY <2>1, <2>2, MarkNodesToRemainDoes
<1>9. CASE op = "RemoveNodesNotMarkedToRemain"
  <2> DEFINE gone == OfInstance(g, i) \ g.remain
             edges == { e \in g.edges : e[1] \notin gone /\ e[2] \notin gone }
             counts == [v \in DOMAIN g.children \ gone |-> g.children[v]]
  <2>1. h = [g EXCEPT !.vertices = @ \ gone, !.cloneOf = @ \ gone, !.edges = edges,
                      !.hasData = @ \ gone, !.ordered = @ \ gone, !.children = counts]
    BY <1>9 DEF Execute, RemoveNodesNotMarkedToRemain
  <2> HIDE DEF gone, edges, counts
  <2>2. h.ordered = g.ordered \ gone
    BY <2>1 DEF IsGraph
  <2> QED
    BY <2>2
<1>10. CASE op = "RemoveRemainMarker"
  BY <1>10, RemoveRemainMarkerDoes DEF Execute
<1>11. CASE op \notin { "CreateHasCodeEdges", "CloneNodes", "CloneNodesFromIDs(data)",
                        "CloneNodesFromIDs(ancestries)", "CloneOrderFromIDs", "CloneRelationships",
                        "CloneRelationshipsFromIDs", "RemoveCloneEdges",
                        "RemoveCloneEdgesFromSourceIDs", "SetNumberOfChildren",
                        "SetNumberOfChildrenFromIDs", "SetHasData", "MarkNodesToRemain",
                        "RemoveNodesNotMarkedToRemain", "RemoveRemainMarker" }
  BY <1>11 DEF Execute
<1> QED
  BY <1>1, <1>2, <1>3, <1>4, <1>5, <1>6, <1>7, <1>8, <1>9, <1>10, <1>11

LEMMA NewShapeRepeats ==
  ASSUME NEW g, IsGraph(g), NEW i, IsNew(i), NEW C, NEW n \in 1..10, NewShape(g, i, C, n),
         NEW s \in 1..n, Program[i][s] \in Repeatable, NEW c,
         NEW h, h = Execute(g, i, Program[i][s], c)
  PROVE  NewShape(h, i, C, n)
PROOF
<1> DEFINE op == Program[i][s]
<1>1. CASE op \in {"GetGenericHierarchyNodeIDs", "GetGenericHierarchyAncestriesIDs",
                   "GetHierarchyNodeIDs"}
  <2>1. h = g
    BY <1>1 DEF Execute
  <2> QED
    BY <2>1
<1>2. CASE op = "CreateHasCodeEdges"
  <2>1. h = CreateHasCodeEdges(g, c)
    BY <1>2 DEF Execute
  <2>2. /\ h.vertices = g.vertices /\ h.cloneOf = g.cloneOf /\ h.hasData = g.hasData
        /\ h.edges = g.edges /\ h.remain = g.remain /\ h.ordered = g.ordered
        /\ h.children = g.children /\ g.hasCode \subseteq h.hasCode
    BY <2>1, CreateHasCodeEdgesDoes
  <2> QED
    BY <2>2 DEF NewShape
<1>3. CASE op = "CloneOrderFromIDs"
  <2>1. h = CloneOrder(g, c)
    BY <1>3 DEF Execute
  <2>2. /\ h.vertices = g.vertices /\ h.cloneOf = g.cloneOf /\ h.hasData = g.hasData
        /\ h.edges = g.edges /\ h.remain = g.remain /\ g.ordered \subseteq h.ordered
        /\ h.children = g.children /\ h.hasCode = g.hasCode
    BY <2>1, CloneOrderDoes
  <2> QED
    BY <2>2 DEF NewShape
<1>4. CASE op = "SetNumberOfChildrenFromIDs"
  <2>1. h = SetNumberOfChildren(g, c)
    BY <1>4 DEF Execute
  <2>2. /\ h.vertices = g.vertices /\ h.cloneOf = g.cloneOf /\ h.hasData = g.hasData
        /\ h.edges = g.edges /\ h.remain = g.remain /\ h.ordered = g.ordered
        /\ h.hasCode = g.hasCode /\ DOMAIN g.children \subseteq DOMAIN h.children
    BY <2>1, SetNumberOfChildrenDoes
  <2> QED
    BY <2>2 DEF NewShape
<1>5. CASE op = "RemoveCloneEdgesFromSourceIDs"
  <2>1. s = 10 /\ n = 10
    BY <1>5, TheNewProgram
  <2>2. h = RemoveCloneMarkers(g, c)
    BY <1>5 DEF Execute
  <2>3. /\ h.vertices = g.vertices /\ h.cloneOf \subseteq g.cloneOf /\ h.hasData = g.hasData
        /\ h.edges = g.edges /\ h.remain = g.remain /\ h.ordered = g.ordered
        /\ h.children = g.children /\ h.hasCode = g.hasCode
    BY <2>2, RemoveCloneMarkersDoes
  <2> QED
    BY <2>1, <2>3 DEF NewShape
<1>6. op \in { "GetGenericHierarchyNodeIDs", "GetGenericHierarchyAncestriesIDs",
               "GetHierarchyNodeIDs", "CreateHasCodeEdges", "CloneOrderFromIDs",
               "SetNumberOfChildrenFromIDs", "RemoveCloneEdgesFromSourceIDs" }
  BY TheNewProgram DEF Repeatable
<1> QED
  BY <1>1, <1>2, <1>3, <1>4, <1>5, <1>6

LEMMA OldShapeRepeats ==
  ASSUME WellBuilt, NEW g, IsGraph(g), NEW i \in Instances, ~IsNew(i), NEW D, NEW n \in 1..8,
         D \subseteq 1..n, 1..(n - 1) \subseteq D, OldShape(g, i, D, n),
         NEW s \in 1..n, Program[i][s] \in Repeatable, NEW c,
         NEW h, h = Execute(g, i, Program[i][s], c)
  PROVE  OldShape(h, i, D, n)
PROOF
<1> DEFINE op == Program[i][s]
<1>1. CASE op = "RemoveCloneEdges"
  <2>1. s = 3 /\ n >= 3 /\ 1 \in D
    BY <1>1, TheOldProgram
  <2>2. h = RemoveCloneMarkers(g, OfInstance(g, i))
    BY <1>1 DEF Execute
  <2>3. /\ h.vertices = g.vertices /\ h.cloneOf \subseteq g.cloneOf /\ h.hasData = g.hasData
        /\ h.edges = g.edges /\ h.remain = g.remain /\ h.ordered = g.ordered
        /\ h.children = g.children /\ h.hasCode = g.hasCode
    BY <2>2, RemoveCloneMarkersDoes
  <2>4. Of(i, h.cloneOf) \subseteq Of(i, g.cloneOf)
    BY <2>3 DEF Of
  <2> QED
    BY <2>1, <2>3, <2>4 DEF OldShape
<1>2. CASE op = "SetHasData"
  <2> DEFINE new == { v \in OfInstance(g, i) : v[2] \in data[i] }
  <2>1. s = 4 /\ n >= 4 /\ 1 \in D
    BY <1>2, TheOldProgram
  <2>2. h = SetHasData(g, i, data[i])
    BY <1>2, SetHasDataOfNodes DEF Execute
  <2>3. /\ h.vertices = g.vertices /\ h.cloneOf = g.cloneOf /\ h.hasData = g.hasData \cup new
        /\ h.edges = g.edges /\ h.remain = g.remain /\ h.ordered = g.ordered
        /\ h.children = g.children /\ h.hasCode = g.hasCode
    BY <2>2, SetHasDataDoes
  <2>4. new \subseteq Lift(i, data[i])
    <3>1. OfInstance(g, i) = Of(i, g.vertices)
      BY DEF OfInstance, Of
    <3>2. \A v \in Of(i, g.vertices) : v = <<i, v[2], 1>>
      BY InLift DEF OldShape
    <3> QED
      BY <3>1, <3>2, InLift
  <2> HIDE DEF new
  <2>5. Of(i, h.hasData) \subseteq Lift(i, data[i]) /\ Of(i, g.hasData) \subseteq Of(i, h.hasData)
    BY <2>3, <2>4 DEF OldShape, Of
  <2> QED
    BY <2>1, <2>3, <2>5 DEF OldShape
<1>3. CASE op = "RemoveRemainMarker"
  <2>1. s = 7 /\ n >= 7
    BY <1>3, TheOldProgram
  <2>2. h = RemoveRemainMarker(g, i)
    BY <1>3 DEF Execute
  <2>3. /\ h.vertices = g.vertices /\ h.cloneOf = g.cloneOf /\ h.hasData = g.hasData
        /\ h.edges = g.edges /\ h.remain \subseteq g.remain
        /\ h.ordered = g.ordered /\ h.children = g.children /\ h.hasCode = g.hasCode
    BY <2>2, RemoveRemainMarkerDoes
  <2>4. Of(i, h.remain) \subseteq Of(i, g.remain)
    BY <2>3 DEF Of
  <2> QED
    BY <2>1, <2>3, <2>4 DEF OldShape
<1>4. CASE op = "SetNumberOfChildren"
  <2>1. h = SetNumberOfChildren(g, OfInstance(g, i))
    BY <1>4 DEF Execute
  <2>2. /\ h.vertices = g.vertices /\ h.cloneOf = g.cloneOf /\ h.hasData = g.hasData
        /\ h.edges = g.edges /\ h.remain = g.remain /\ h.ordered = g.ordered
        /\ h.hasCode = g.hasCode /\ DOMAIN g.children \subseteq DOMAIN h.children
    BY <2>1, SetNumberOfChildrenDoes
  <2> QED
    BY <2>2 DEF OldShape
<1>5. op \in {"RemoveCloneEdges", "SetHasData", "RemoveRemainMarker", "SetNumberOfChildren"}
  BY TheOldProgram DEF Repeatable
<1> QED
  BY <1>1, <1>2, <1>3, <1>4, <1>5

\* A complete hierarchy stays what it is.
LEMMA FinalRepeats ==
  ASSUME IInv, NEW g, IsGraph(g), NEW i \in Instances, Final(g, i), Counted(g, i),
         NEW op \in Repeatable, NEW c, NEW h, h = Execute(g, i, op, c), IsGraph(h),
         \A v \in h.ordered : v[2] \in Ordered
  PROVE  /\ Final(h, i) /\ Counted(h, i)
         /\ Of(i, h.ordered) = Of(i, g.ordered)
         /\ Of(i, DOMAIN g.children) \subseteq DOMAIN h.children
PROOF
<1>1. CASE op \in {"GetGenericHierarchyNodeIDs", "GetGenericHierarchyAncestriesIDs",
                   "GetHierarchyNodeIDs"}
  <2>1. h = g
    BY <1>1 DEF Execute
  <2> QED
    BY <2>1 DEF Of
<1>2. CASE op = "CreateHasCodeEdges"
  <2>1. h = CreateHasCodeEdges(g, c)
    BY <1>2 DEF Execute
  <2>2. /\ h.vertices = g.vertices /\ h.cloneOf = g.cloneOf /\ h.hasData = g.hasData
        /\ h.edges = g.edges /\ h.remain = g.remain /\ h.ordered = g.ordered
        /\ h.children = g.children
    BY <2>1, CreateHasCodeEdgesDoes
  <2> QED
    BY <2>2 DEF Final, Counted, Of
<1>3. CASE op = "CloneOrderFromIDs"
  <2>1. h = CloneOrder(g, c)
    BY <1>3 DEF Execute
  <2>2. SameFor(i, g, h) /\ OrderGrows(i, g, h)
    BY <2>1, CloneOrderDoes DEF SameFor, OrderGrows, Of
  <2> QED
    BY <2>2, FinalHolds
<1>4. CASE op \in {"SetNumberOfChildren", "SetNumberOfChildrenFromIDs"}
  <2>1. PICK vs : h = SetNumberOfChildren(g, vs)
    BY <1>4 DEF Execute
  <2>2. /\ h.vertices = g.vertices /\ h.cloneOf = g.cloneOf /\ h.hasData = g.hasData
        /\ h.edges = g.edges /\ h.remain = g.remain /\ h.ordered = g.ordered
        /\ DOMAIN h.children = DOMAIN g.children \cup (vs \cap g.vertices)
        /\ \A v \in DOMAIN h.children : v \notin vs => h.children[v] = g.children[v]
    BY <2>1, SetNumberOfChildrenDoes
  <2>3. ASSUME NEW v \in DOMAIN h.children, v[1] = i PROVE h.children[v] = Below(i, v[2])
    <3>1. CASE v \in vs
      <4>1. v \in g.vertices
        BY <2>2, PartsOfGraph
      <4>2. h.children[v] = Cardinality({ e \in g.edges : e[2] = v })
        BY <2>1, <3>1, SetNumberOfChildrenCounts
      <4> QED
        BY <2>3, <4>1, <4>2, CountIsBelow
    <3>2. CASE v \notin vs
      BY <2>2, <2>3, <3>2 DEF Counted
    <3> QED
      BY <3>1, <3>2
  <2>4. Final(h, i)
    BY <2>2 DEF Final
  <2> QED
    BY <2>2, <2>3, <2>4 DEF Counted, Of
<1>5. CASE op \in {"RemoveCloneEdges", "RemoveCloneEdgesFromSourceIDs"}
  <2>1. PICK vs : h = RemoveCloneMarkers(g, vs)
    BY <1>5 DEF Execute
  <2>2. Of(i, h.cloneOf) \subseteq Of(i, g.cloneOf)
    BY <2>1, RemoveCloneMarkersDoes DEF Of
  <2>3. /\ h.vertices = g.vertices /\ h.hasData = g.hasData
        /\ h.edges = g.edges /\ h.remain = g.remain /\ h.ordered = g.ordered
        /\ h.children = g.children
    BY <2>1, RemoveCloneMarkersDoes
  <2> QED
    BY <2>2, <2>3 DEF Final, Counted, Of
<1>6. CASE op = "SetHasData"
  <2> DEFINE new == { v \in OfInstance(g, i) : v[2] \in data[i] }
  <2>1. h = SetHasData(g, i, data[i])
    BY <1>6, SetHasDataOfNodes DEF Execute
  <2>2. /\ h.vertices = g.vertices /\ h.cloneOf = g.cloneOf /\ h.hasData = g.hasData \cup new
        /\ h.edges = g.edges /\ h.remain = g.remain /\ h.ordered = g.ordered
        /\ h.children = g.children
    BY <2>1, SetHasDataDoes
  <2>3. new \subseteq Lift(i, data[i])
    <3>1. OfInstance(g, i) = Of(i, g.vertices)
      BY DEF OfInstance, Of
    <3>2. \A v \in Of(i, g.vertices) : v = <<i, v[2], 1>>
      BY InLift DEF Final
    <3> QED
      BY <3>1, <3>2, InLift
  <2> HIDE DEF new
  <2>4. Of(i, h.hasData) = Lift(i, data[i])
    BY <2>2, <2>3 DEF Final, Of
  <2> QED
    BY <2>2, <2>4 DEF Final, Counted, Of
<1>7. CASE op = "RemoveRemainMarker"
  <2>1. h = RemoveRemainMarker(g, i)
    BY <1>7 DEF Execute
  <2>2. Of(i, h.remain) \subseteq Of(i, g.remain)
    BY <2>1, RemoveRemainMarkerDoes DEF Of
  <2>3. /\ h.vertices = g.vertices /\ h.cloneOf = g.cloneOf /\ h.hasData = g.hasData
        /\ h.edges = g.edges /\ h.ordered = g.ordered /\ h.children = g.children
    BY <2>1, RemoveRemainMarkerDoes
  <2> QED
    BY <2>2, <2>3 DEF Final, Counted, Of
<1> QED
  BY <1>1, <1>2, <1>3, <1>4, <1>5, <1>6, <1>7 DEF Repeatable
------------------------------------------------------------------------------
(* What an operation of the program does to the shape.                     *)

LEMMA OfUnion ==
  ASSUME NEW i, NEW S, NEW N
  PROVE  Of(i, S \cup Lift(i, N)) = Of(i, S) \cup Lift(i, N)
PROOF
<1>1. \A v \in Lift(i, N) : v[1] = i
  BY DEF Lift
<1> HIDE DEF Lift
<1> QED
  BY <1>1 DEF Of

LEMMA EdgesOfUnion ==
  ASSUME NEW i, NEW E, NEW R
  PROVE  EdgesOf(i, E \cup LiftEdges(i, R)) = EdgesOf(i, E) \cup LiftEdges(i, R)
PROOF
<1>1. \A e \in LiftEdges(i, R) : e[1][1] = i
  BY DEF LiftEdges
<1> HIDE DEF LiftEdges
<1> QED
  BY <1>1 DEF EdgesOf

LEMMA LiftEdgesUnion ==
  ASSUME NEW i, NEW R, NEW T
  PROVE  LiftEdges(i, R \cup T) = LiftEdges(i, R) \cup LiftEdges(i, T)
BY DEF LiftEdges

\* Operation n is done for c too.
Grows(C, B, n, c) == \A s \in 1..10 : B[s] = IF s = n THEN C[s] \cup c ELSE C[s]

LEMMA GrownParts ==
  ASSUME NEW C, NEW B, NEW n, NEW c, Grows(C, B, n, c)
  PROVE  /\ n = 3 => B[3] = C[3] \cup c
         /\ n = 4 => B[4] = C[4] \cup c
         /\ n = 5 => B[5] = C[5] \cup c
         /\ n = 6 => B[6] = C[6] \cup c
         /\ n = 7 => B[7] = C[7] \cup c
         /\ n = 9 => B[9] = C[9] \cup c
         /\ n = 10 => B[10] = C[10] \cup c
         /\ \A s \in {3, 4, 5, 6, 7, 9, 10} : n # s => B[s] = C[s]
BY DEF Grows

LEMMA NewShapeAfterReading ==
  ASSUME NEW g, NEW i, NEW C, NEW n \in {1, 2, 8}, NewShape(g, i, C, n),
         NEW c, NEW B, Grows(C, B, n, c)
  PROVE  NewShape(g, i, B, n)
PROOF
<1>1. /\ B[3] = C[3] /\ B[4] = C[4] /\ B[5] = C[5] /\ B[6] = C[6]
      /\ B[7] = C[7] /\ B[9] = C[9] /\ B[10] = C[10]
  BY GrownParts
<1> QED
  BY <1>1 DEF NewShape

LEMMA NewShapeAfterCodeEdges ==
  ASSUME NEW g, IsGraph(g), NEW i, NEW C, NewShape(g, i, C, 3),
         NEW c, NEW h, h = CreateHasCodeEdges(g, c), NEW B, Grows(C, B, 3, c)
  PROVE  NewShape(h, i, B, 3)
PROOF
<1>1. /\ B[3] = C[3] \cup c /\ B[4] = C[4] /\ B[5] = C[5] /\ B[6] = C[6]
      /\ B[7] = C[7] /\ B[9] = C[9] /\ B[10] = C[10]
  BY GrownParts
<1>2. /\ h.vertices = g.vertices /\ h.cloneOf = g.cloneOf /\ h.hasData = g.hasData
      /\ h.edges = g.edges /\ h.remain = g.remain /\ h.ordered = g.ordered
      /\ h.children = g.children /\ h.hasCode = g.hasCode \cup c
  BY CreateHasCodeEdgesDoes
<1> QED
  BY <1>1, <1>2 DEF NewShape

LEMMA NewShapeAfterDataClones ==
  ASSUME NEW g, IsGraph(g), NEW i, NEW C, NewShape(g, i, C, 4), C[10] = {},
         NEW c, c \cap (C[4] \cup C[5]) = {},
         NEW h, h = Execute(g, i, "CloneNodesFromIDs(data)", c), NEW B, Grows(C, B, 4, c)
  PROVE  NewShape(h, i, B, 4)
PROOF
<1> DEFINE W == C[4] \cup C[5]
           N == B[4] \cup B[5]
<1>1. /\ B[3] = C[3] /\ B[4] = C[4] \cup c /\ B[5] = C[5] /\ B[6] = C[6]
      /\ B[7] = C[7] /\ B[9] = C[9] /\ B[10] = {}
  BY GrownParts
<1>2. /\ Of(i, g.vertices) = Lift(i, W) /\ Of(i, g.cloneOf) = Lift(i, W)
      /\ Of(i, g.hasData) = Lift(i, C[4])
  BY DEF NewShape
<1>3. N = W \cup c /\ c \cap W = {}
  BY <1>1
<1>4. /\ C[3] \subseteq g.hasCode /\ Of(i, g.remain) = {}
      /\ Lift(i, C[6] \cap Ordered) \subseteq g.ordered
      /\ EdgesOf(i, g.edges) = LiftEdges(i, { r \in Parent : r[1] \in C[7] })
      /\ C[9] \subseteq DOMAIN g.children
  BY DEF NewShape
<1> HIDE DEF W, N
<1>5. /\ h.vertices = g.vertices \cup Lift(i, c) /\ h.cloneOf = g.cloneOf \cup Lift(i, c)
      /\ h.hasData = g.hasData \cup Lift(i, c)
      /\ h.edges = g.edges /\ h.remain = g.remain /\ h.ordered = g.ordered
      /\ h.children = g.children /\ h.hasCode = g.hasCode
  BY <1>2, <1>3, FirstClones
<1>6. /\ Of(i, h.vertices) = Lift(i, N) /\ Of(i, h.cloneOf) = Lift(i, N)
      /\ Of(i, h.hasData) = Lift(i, B[4])
  <2>1. Lift(i, N) = Lift(i, W) \cup Lift(i, c)
    BY <1>3, LiftUnion
  <2>2. /\ Of(i, g.vertices \cup Lift(i, c)) = Of(i, g.vertices) \cup Lift(i, c)
        /\ Of(i, g.cloneOf \cup Lift(i, c)) = Of(i, g.cloneOf) \cup Lift(i, c)
    BY OfUnion
  <2>3. /\ Of(i, g.hasData \cup Lift(i, c)) = Of(i, g.hasData) \cup Lift(i, c)
        /\ Lift(i, C[4] \cup c) = Lift(i, C[4]) \cup Lift(i, c)
    BY OfUnion, LiftUnion
  <2> QED
    BY <1>1, <1>2, <1>5, <2>1, <2>2, <2>3
<1> QED
  BY <1>1, <1>4, <1>5, <1>6 DEF NewShape, N

LEMMA NewShapeAfterOtherClones ==
  ASSUME NEW g, IsGraph(g), NEW i, NEW C, NewShape(g, i, C, 5), C[10] = {},
         NEW c, c \cap (C[4] \cup C[5]) = {},
         NEW h, h = Execute(g, i, "CloneNodesFromIDs(ancestries)", c), NEW B, Grows(C, B, 5, c)
  PROVE  NewShape(h, i, B, 5)
PROOF
<1> DEFINE W == C[4] \cup C[5]
           N == B[4] \cup B[5]
<1>1. /\ B[3] = C[3] /\ B[4] = C[4] /\ B[5] = C[5] \cup c /\ B[6] = C[6]
      /\ B[7] = C[7] /\ B[9] = C[9] /\ B[10] = {}
  BY GrownParts
<1>2. /\ Of(i, g.vertices) = Lift(i, W) /\ Of(i, g.cloneOf) = Lift(i, W)
      /\ Of(i, g.hasData) = Lift(i, C[4])
  BY DEF NewShape
<1>3. N = W \cup c /\ c \cap W = {}
  BY <1>1
<1>4. /\ C[3] \subseteq g.hasCode /\ Of(i, g.remain) = {}
      /\ Lift(i, C[6] \cap Ordered) \subseteq g.ordered
      /\ EdgesOf(i, g.edges) = LiftEdges(i, { r \in Parent : r[1] \in C[7] })
      /\ C[9] \subseteq DOMAIN g.children
  BY DEF NewShape
<1> HIDE DEF W, N
<1>5. /\ h.vertices = g.vertices \cup Lift(i, c) /\ h.cloneOf = g.cloneOf \cup Lift(i, c)
      /\ h.hasData = g.hasData
      /\ h.edges = g.edges /\ h.remain = g.remain /\ h.ordered = g.ordered
      /\ h.children = g.children /\ h.hasCode = g.hasCode
  BY <1>2, <1>3, FirstClones
<1>6. /\ Of(i, h.vertices) = Lift(i, N) /\ Of(i, h.cloneOf) = Lift(i, N)
      /\ Of(i, h.hasData) = Lift(i, B[4])
  <2>1. Lift(i, N) = Lift(i, W) \cup Lift(i, c)
    BY <1>3, LiftUnion
  <2>2. /\ Of(i, g.vertices \cup Lift(i, c)) = Of(i, g.vertices) \cup Lift(i, c)
        /\ Of(i, g.cloneOf \cup Lift(i, c)) = Of(i, g.cloneOf) \cup Lift(i, c)
    BY OfUnion
  <2> QED
    BY <1>1, <1>2, <1>5, <2>1, <2>2
<1> QED
  BY <1>1, <1>4, <1>5, <1>6 DEF NewShape, N

LEMMA NewShapeAfterOrder ==
  ASSUME NEW g, IsGraph(g), NEW i, NEW C, NewShape(g, i, C, 6),
         NEW c, c \subseteq C[3], c \subseteq C[4] \cup C[5],
         NEW h, h = CloneOrder(g, c), NEW B, Grows(C, B, 6, c)
  PROVE  NewShape(h, i, B, 6)
PROOF
<1> DEFINE new == { v \in g.cloneOf : v[2] \in c \cap g.hasCode \cap Ordered }
<1>1. /\ B[3] = C[3] /\ B[4] = C[4] /\ B[5] = C[5] /\ B[6] = C[6] \cup c
      /\ B[7] = C[7] /\ B[9] = C[9] /\ B[10] = C[10]
  BY GrownParts
<1>2. /\ h.vertices = g.vertices /\ h.cloneOf = g.cloneOf /\ h.hasData = g.hasData
      /\ h.edges = g.edges /\ h.remain = g.remain /\ h.ordered = g.ordered \cup new
      /\ h.children = g.children /\ h.hasCode = g.hasCode
  BY CloneOrderDoes
<1>3. /\ C[3] \subseteq g.hasCode /\ Of(i, g.cloneOf) = Lift(i, C[4] \cup C[5])
      /\ Lift(i, C[6] \cap Ordered) \subseteq g.ordered
  BY DEF NewShape
<1>4. Lift(i, c \cap Ordered) \subseteq new
  <2> SUFFICES ASSUME NEW v \in Lift(i, c \cap Ordered) PROVE v \in new
    OBVIOUS
  <2>1. v = <<i, v[2], 1>> /\ v[2] \in c /\ v[2] \in Ordered
    BY InLift
  <2>2. v \in Lift(i, C[4] \cup C[5])
    BY <2>1, InLift
  <2>3. v \in g.cloneOf
    BY <1>3, <2>2 DEF Of
  <2> QED
    BY <1>3, <2>1, <2>3
<1>5. Lift(i, B[6] \cap Ordered) = Lift(i, C[6] \cap Ordered) \cup Lift(i, c \cap Ordered)
  <2>1. B[6] \cap Ordered = (C[6] \cap Ordered) \cup (c \cap Ordered)
    BY <1>1
  <2> QED
    BY <2>1, LiftUnion
<1> HIDE DEF new
<1>6. Lift(i, B[6] \cap Ordered) \subseteq h.ordered
  BY <1>2, <1>3, <1>4, <1>5
<1> QED
  BY <1>1, <1>2, <1>6 DEF NewShape

LEMMA NewShapeAfterRelationships ==
  ASSUME NEW g, IsGraph(g), NEW i, NEW C, NewShape(g, i, C, 7), C[4] \cup C[5] = Kept(i),
         NEW c, c \subseteq Kept(i), c \cap C[7] = {},
         NEW h, h = CloneRelationships(g, i, c), NEW B, Grows(C, B, 7, c)
  PROVE  NewShape(h, i, B, 7)
PROOF
<1> DEFINE up(X) == { r \in Parent : r[1] \in X }
<1>1. /\ B[3] = C[3] /\ B[4] = C[4] /\ B[5] = C[5] /\ B[6] = C[6]
      /\ B[7] = C[7] \cup c /\ B[9] = C[9] /\ B[10] = C[10]
  BY GrownParts
<1>2. /\ h.vertices = g.vertices /\ h.cloneOf = g.cloneOf /\ h.hasData = g.hasData
      /\ h.remain = g.remain /\ h.ordered = g.ordered
      /\ h.children = g.children /\ h.hasCode = g.hasCode
  BY CloneRelationshipsDoes
<1>3. Of(i, g.cloneOf) = Lift(i, Kept(i)) /\ EdgesOf(i, g.edges) = LiftEdges(i, up(C[7]))
  <2>1. Of(i, g.cloneOf) = Lift(i, C[4] \cup C[5])
    BY DEF NewShape
  <2>2. EdgesOf(i, g.edges) = LiftEdges(i, up(C[7]))
    BY DEF NewShape
  <2> QED
    BY <2>1, <2>2
<1>4. up(C[7]) \subseteq Parent /\ (\A r \in up(C[7]) : r[1] \notin c)
  OBVIOUS
<1>5. \A r \in Parent : r[1] \in Kept(i) => r[2] \in Kept(i)
  BY KeptIsClosed
<1>6. up(C[7]) \cup up(c) = up(B[7])
  BY <1>1
<1>7. h.edges = g.edges \cup LiftEdges(i, up(c))
  <2>1. PICK R : R = up(C[7])
    OBVIOUS
  <2>2. /\ EdgesOf(i, g.edges) = LiftEdges(i, R) /\ R \subseteq Parent
        /\ \A r \in R : r[1] \notin c
    BY <1>3, <1>4, <2>1
  <2>3. PICK K : K = Kept(i)
    OBVIOUS
  <2>4. /\ Of(i, g.cloneOf) = Lift(i, K) /\ c \subseteq K
        /\ \A r \in Parent : r[1] \in K => r[2] \in K
    BY <1>3, <1>5, <2>3
  <2>5. h.edges = g.edges \cup LiftEdges(i, { r \in Parent : r[1] \in c })
    BY <2>2, <2>4, FirstEdges
  <2> QED
    BY <2>5
<1>8. EdgesOf(i, h.edges) = LiftEdges(i, up(B[7]))
  <2> HIDE DEF up
  <2> QED
    <3>1. EdgesOf(i, g.edges \cup LiftEdges(i, up(c))) = EdgesOf(i, g.edges) \cup LiftEdges(i, up(c))
      BY EdgesOfUnion
    <3>2. LiftEdges(i, up(C[7])) \cup LiftEdges(i, up(c)) = LiftEdges(i, up(C[7]) \cup up(c))
      BY LiftEdgesUnion
    <3> QED
      BY <1>3, <1>6, <1>7, <3>1, <3>2
<1> QED
  BY <1>1, <1>2, <1>8 DEF NewShape

LEMMA NewShapeAfterCounts ==
  ASSUME NEW g, IsGraph(g), NEW i, NEW C, NewShape(g, i, C, 9),
         NEW c, c \subseteq Lift(i, C[4] \cup C[5]),
         NEW h, h = SetNumberOfChildren(g, c), NEW B, Grows(C, B, 9, c)
  PROVE  NewShape(h, i, B, 9)
PROOF
<1>1. /\ B[3] = C[3] /\ B[4] = C[4] /\ B[5] = C[5] /\ B[6] = C[6]
      /\ B[7] = C[7] /\ B[9] = C[9] \cup c /\ B[10] = C[10]
  BY GrownParts
<1>2. /\ h.vertices = g.vertices /\ h.cloneOf = g.cloneOf /\ h.hasData = g.hasData
      /\ h.edges = g.edges /\ h.remain = g.remain /\ h.ordered = g.ordered
      /\ h.hasCode = g.hasCode
      /\ DOMAIN h.children = DOMAIN g.children \cup (c \cap g.vertices)
  BY SetNumberOfChildrenDoes
<1>3. c \subseteq g.vertices
  BY DEF NewShape, Of
<1>4. B[9] \subseteq DOMAIN h.children
  BY <1>1, <1>2, <1>3 DEF NewShape
<1> QED
  BY <1>1, <1>2, <1>4 DEF NewShape

LEMMA NewShapeAfterMarkers ==
  ASSUME NEW g, IsGraph(g), NEW i, NEW C, NewShape(g, i, C, 10),
         NEW c, NEW h, h = RemoveCloneMarkers(g, c), NEW B, Grows(C, B, 10, c)
  PROVE  NewShape(h, i, B, 10)
PROOF
<1>1. /\ B[3] = C[3] /\ B[4] = C[4] /\ B[5] = C[5] /\ B[6] = C[6]
      /\ B[7] = C[7] /\ B[9] = C[9] /\ B[10] = C[10] \cup c
  BY GrownParts
<1>2. /\ h.vertices = g.vertices /\ h.cloneOf = g.cloneOf \ c /\ h.hasData = g.hasData
      /\ h.edges = g.edges /\ h.remain = g.remain /\ h.ordered = g.ordered
      /\ h.children = g.children /\ h.hasCode = g.hasCode
  BY RemoveCloneMarkersDoes
<1>3. h.cloneOf \cap B[10] = {}
  BY <1>1, <1>2 DEF NewShape
<1> QED
  BY <1>1, <1>2, <1>3 DEF NewShape

LEMMA NewShapeGrows ==
  ASSUME NEW g, IsGraph(g), NEW i, IsNew(i), NEW C, NEW n \in 1..10, NewShape(g, i, C, n),
         \A s \in 1..10 : s < n => C[s] = Want(i)[s], \A s \in 1..10 : s > n => C[s] = {},
         NEW c, c \subseteq Want(i)[n], c \cap C[n] = {},
         NEW h, h = Execute(g, i, Program[i][n], c), NEW B, Grows(C, B, n, c)
  PROVE  NewShape(h, i, B, n)
PROOF
<1>1. CASE n \in {1, 2, 8}
  <2>1. h = g
    BY <1>1, TheNewProgram DEF Execute
  <2> QED
    BY <1>1, <2>1, NewShapeAfterReading
<1>2. CASE n = 3
  <2>0. Program[i][n] = "CreateHasCodeEdges"
    BY <1>2, TheNewProgram
  <2>1. h = CreateHasCodeEdges(g, c)
    BY <2>0 DEF Execute
  <2> QED
    BY <1>2, <2>1, NewShapeAfterCodeEdges
<1>3. CASE n = 4
  <2>0. Program[i][n] = "CloneNodesFromIDs(data)"
    BY <1>3, TheNewProgram
  <2>1. h = Execute(g, i, "CloneNodesFromIDs(data)", c)
    BY <2>0
  <2>2. C[5] = {} /\ C[10] = {} /\ c \cap C[4] = {}
    BY <1>3
  <2> QED
    BY <1>3, <2>1, <2>2, NewShapeAfterDataClones
<1>4. CASE n = 5
  <2>0. Program[i][n] = "CloneNodesFromIDs(ancestries)"
    BY <1>4, TheNewProgram
  <2>1. h = Execute(g, i, "CloneNodesFromIDs(ancestries)", c)
    BY <2>0
  <2>2. C[4] = data[i] /\ C[10] = {} /\ c \cap C[5] = {} /\ c \subseteq Kept(i) \ data[i]
    BY <1>4, TheNewProgram
  <2>3. c \cap (C[4] \cup C[5]) = {}
    BY <2>2
  <2> QED
    BY <1>4, <2>1, <2>2, <2>3, NewShapeAfterOtherClones
<1>5. CASE n = 6
  <2>0. Program[i][n] = "CloneOrderFromIDs"
    BY <1>5, TheNewProgram
  <2>1. h = CloneOrder(g, c)
    BY <2>0 DEF Execute
  <2>2. C[3] = Kept(i) /\ C[4] = data[i] /\ C[5] = Kept(i) \ data[i] /\ c \subseteq Kept(i)
    BY <1>5, TheNewProgram
  <2>3. c \subseteq C[3] /\ c \subseteq C[4] \cup C[5]
    BY <2>2
  <2> QED
    BY <1>5, <2>1, <2>3, NewShapeAfterOrder
<1>6. CASE n = 7
  <2>0. Program[i][n] = "CloneRelationshipsFromIDs"
    BY <1>6, TheNewProgram
  <2>1. h = CloneRelationships(g, i, c)
    BY <2>0 DEF Execute
  <2>2. C[4] = data[i] /\ C[5] = Kept(i) \ data[i] /\ c \subseteq Kept(i) /\ c \cap C[7] = {}
    BY <1>6, TheNewProgram
  <2>3. C[4] \cup C[5] = Kept(i)
    BY <2>2 DEF Kept
  <2> QED
    BY <1>6, <2>1, <2>2, <2>3, NewShapeAfterRelationships
<1>7. CASE n = 9
  <2>0. Program[i][n] = "SetNumberOfChildrenFromIDs"
    BY <1>7, TheNewProgram
  <2>1. h = SetNumberOfChildren(g, c)
    BY <2>0 DEF Execute
  <2>2. C[4] = data[i] /\ C[5] = Kept(i) \ data[i] /\ c \subseteq Lift(i, Kept(i))
    BY <1>7, TheNewProgram
  <2>3. C[4] \cup C[5] = Kept(i)
    BY <2>2 DEF Kept
  <2> QED
    BY <1>7, <2>1, <2>2, <2>3, NewShapeAfterCounts
<1>8. CASE n = 10
  <2>0. Program[i][n] = "RemoveCloneEdgesFromSourceIDs"
    BY <1>8, TheNewProgram
  <2>1. h = RemoveCloneMarkers(g, c)
    BY <2>0 DEF Execute
  <2> QED
    BY <1>8, <2>1, NewShapeAfterMarkers
<1> QED
  BY <1>1, <1>2, <1>3, <1>4, <1>5, <1>6, <1>7, <1>8
------------------------------------------------------------------------------
(* The same for the trimming program.                                      *)

LEMMA OldShapeAfterClones ==
  ASSUME NEW g, IsGraph(g), NEW i, OldShape(g, i, 1..0, 1),
         NEW c, NEW h, h = Execute(g, i, "CloneNodes", c)
  PROVE  OldShape(h, i, 1..1, 1)
PROOF
<1>1. /\ Of(i, g.vertices) = Lift(i, {}) /\ Of(i, g.cloneOf) = {}
      /\ EdgesOf(i, g.edges) = LiftEdges(i, {})
      /\ Of(i, g.hasData) = {} /\ Of(i, g.remain) = {}
  BY DEF OldShape
<1>2. /\ h.vertices = g.vertices \cup Lift(i, Nodes) /\ h.cloneOf = g.cloneOf \cup Lift(i, Nodes)
      /\ h.hasData = g.hasData /\ h.edges = g.edges /\ h.remain = g.remain
  BY <1>1, FirstClones
<1>3. Of(i, h.vertices) = Lift(i, Nodes) /\ Of(i, h.cloneOf) = Lift(i, Nodes)
  <2>1. /\ Of(i, g.vertices \cup Lift(i, Nodes)) = Of(i, g.vertices) \cup Lift(i, Nodes)
        /\ Of(i, g.cloneOf \cup Lift(i, Nodes)) = Of(i, g.cloneOf) \cup Lift(i, Nodes)
    BY OfUnion
  <2>2. Lift(i, {}) = {}
    BY DEF Lift
  <2> QED
    BY <1>1, <1>2, <2>1, <2>2
<1> QED
  BY <1>1, <1>2, <1>3 DEF OldShape

LEMMA OldShapeAfterRelationships ==
  ASSUME NEW g, IsGraph(g), NEW i, OldShape(g, i, 1..1, 2),
         NEW h, h = CloneRelationships(g, i, Nodes)
  PROVE  OldShape(h, i, 1..2, 2)
PROOF
<1>1. /\ Of(i, g.vertices) = Lift(i, Nodes) /\ Of(i, g.cloneOf) = Lift(i, Nodes)
      /\ EdgesOf(i, g.edges) = LiftEdges(i, {})
      /\ Of(i, g.hasData) = {} /\ Of(i, g.remain) = {}
  BY DEF OldShape
<1>2. /\ h.vertices = g.vertices /\ h.cloneOf = g.cloneOf /\ h.hasData = g.hasData
      /\ h.remain = g.remain
  BY CloneRelationshipsDoes
<1>3. h.edges = g.edges \cup LiftEdges(i, Parent)
  <2>1. PICK R : R = {}
    OBVIOUS
  <2>2. /\ EdgesOf(i, g.edges) = LiftEdges(i, R) /\ R \subseteq Parent
        /\ \A r \in R : r[1] \notin Nodes
    BY <1>1, <2>1
  <2>3. \A r \in Parent : r[1] \in Nodes /\ r[2] \in Nodes
    BY GenericAssumption
  <2>4. h.edges = g.edges \cup LiftEdges(i, { r \in Parent : r[1] \in Nodes })
    BY <1>1, <2>2, <2>3, FirstEdges
  <2>5. { r \in Parent : r[1] \in Nodes } = Parent
    BY <2>3
  <2> QED
    BY <2>4, <2>5
<1>4. EdgesOf(i, h.edges) = LiftEdges(i, Parent)
  <2>1. EdgesOf(i, g.edges \cup LiftEdges(i, Parent)) = EdgesOf(i, g.edges) \cup LiftEdges(i, Parent)
    BY EdgesOfUnion
  <2>2. LiftEdges(i, {}) = {}
    BY DEF LiftEdges
  <2> QED
    BY <1>1, <1>3, <2>1, <2>2
<1> QED
  BY <1>1, <1>2, <1>4 DEF OldShape

LEMMA OldShapeAfterMarkers ==
  ASSUME NEW g, IsGraph(g), NEW i, OldShape(g, i, 1..2, 3),
         NEW h, h = RemoveCloneMarkers(g, OfInstance(g, i))
  PROVE  OldShape(h, i, 1..3, 3)
PROOF
<1>1. /\ h.vertices = g.vertices /\ h.cloneOf = g.cloneOf \ OfInstance(g, i)
      /\ h.hasData = g.hasData /\ h.edges = g.edges /\ h.remain = g.remain
  BY RemoveCloneMarkersDoes
<1>2. Of(i, h.cloneOf) = {}
  BY <1>1, PartsOfGraph DEF Of, OfInstance
<1> QED
  BY <1>1, <1>2 DEF OldShape

LEMMA OldShapeAfterData ==
  ASSUME NEW g, IsGraph(g), NEW i, OldShape(g, i, 1..3, 4), data[i] \subseteq Nodes,
         NEW h, h = SetHasData(g, i, data[i])
  PROVE  OldShape(h, i, 1..4, 4)
PROOF
<1> DEFINE new == { v \in OfInstance(g, i) : v[2] \in data[i] }
<1>1. /\ h.vertices = g.vertices /\ h.cloneOf = g.cloneOf /\ h.hasData = g.hasData \cup new
      /\ h.edges = g.edges /\ h.remain = g.remain
  BY SetHasDataDoes
<1>2. Of(i, g.vertices) = Lift(i, Nodes) /\ Of(i, g.hasData) \subseteq Lift(i, data[i])
  BY DEF OldShape
<1>3. new = Lift(i, data[i])
  <2>1. ASSUME NEW v PROVE v \in new <=> v \in Lift(i, data[i])
    BY <1>2, InLift DEF Of, OfInstance
  <2> HIDE DEF new
  <2> QED
    BY <2>1
<1>4. Of(i, h.hasData) = Lift(i, data[i])
  <2>1. Of(i, g.hasData \cup Lift(i, data[i])) = Of(i, g.hasData) \cup Lift(i, data[i])
    BY OfUnion
  <2> HIDE DEF new
  <2> QED
    BY <1>1, <1>2, <1>3, <2>1
<1> HIDE DEF new
<1> QED
  BY <1>1, <1>4 DEF OldShape

LEMMA OldShapeAfterMarking ==
  ASSUME NEW g, IsGraph(g), NEW i, OldShape(g, i, 1..4, 5), data[i] \subseteq Nodes,
         NEW h, h = MarkNodesToRemain(g, i)
  PROVE  OldShape(h, i, 1..5, 5)
PROOF
<1>1. /\ Of(i, g.vertices) = Lift(i, Nodes) /\ Of(i, g.hasData) = Lift(i, data[i])
      /\ EdgesOf(i, g.edges) = LiftEdges(i, Parent) /\ Of(i, g.remain) = {}
  BY DEF OldShape
<1>2. PICK kept : kept = OfInstance(g, i) \cap g.hasData
  OBVIOUS
<1>3. kept = Lift(i, data[i])
  BY <1>1, <1>2, PartsOfGraph DEF Of, OfInstance
<1>4. /\ h.vertices = g.vertices /\ h.cloneOf = g.cloneOf /\ h.hasData = g.hasData
      /\ h.edges = g.edges /\ h.remain = g.remain \cup kept \cup Ancestors(g.edges, kept)
  BY <1>2, MarkNodesToRemainDoes
<1>5. kept \cup Ancestors(g.edges, kept) = Lift(i, Kept(i))
  <2>1. Ancestors(g.edges, Lift(i, data[i])) = Lift(i, Ancestors(Parent, data[i]))
    BY <1>1, AncestorsOfLift
  <2>2. Lift(i, Kept(i)) = Lift(i, data[i]) \cup Lift(i, Ancestors(Parent, data[i]))
    BY LiftUnion DEF Kept
  <2> QED
    BY <1>3, <2>1, <2>2
<1>6. Of(i, h.remain) = Lift(i, Kept(i))
  <2>1. h.remain = g.remain \cup Lift(i, Kept(i))
    BY <1>4, <1>5
  <2>2. Of(i, g.remain \cup Lift(i, Kept(i))) = Of(i, g.remain) \cup Lift(i, Kept(i))
    BY OfUnion
  <2> QED
    BY <1>1, <2>1, <2>2
<1> QED
  BY <1>4, <1>6 DEF OldShape

LEMMA OldShapeAfterTrimming ==
  ASSUME NEW g, IsGraph(g), NEW i, OldShape(g, i, 1..5, 6),
         data[i] \subseteq Nodes, Kept(i) \subseteq Nodes,
         NEW h, h = RemoveNodesNotMarkedToRemain(g, i)
  PROVE  OldShape(h, i, 1..6, 6)
PROOF
<1>1. /\ Of(i, g.vertices) = Lift(i, Nodes) /\ Of(i, g.cloneOf) = {}
      /\ EdgesOf(i, g.edges) = LiftEdges(i, Parent)
      /\ Of(i, g.hasData) = Lift(i, data[i]) /\ Of(i, g.remain) = Lift(i, Kept(i))
  BY DEF OldShape
<1>2. PICK gone : gone = OfInstance(g, i) \ g.remain
  OBVIOUS
<1>3. /\ h.vertices = g.vertices \ gone /\ h.cloneOf = g.cloneOf \ gone
      /\ h.hasData = g.hasData \ gone /\ h.remain = g.remain
      /\ h.edges = { e \in g.edges : e[1] \notin gone /\ e[2] \notin gone }
  BY <1>2 DEF RemoveNodesNotMarkedToRemain, IsGraph
<1>4. \A v \in Lift(i, Nodes) : v \in gone <=> v[2] \notin Kept(i)
  BY <1>1, <1>2, InLift DEF Of, OfInstance
<1>5. Of(i, h.vertices) = Lift(i, Kept(i))
  <2>1. ASSUME NEW v PROVE v \in Of(i, h.vertices) <=> v \in Lift(i, Kept(i))
    BY <1>1, <1>3, <1>4, InLift DEF Of
  <2> QED
    BY <2>1
<1>6. Of(i, h.hasData) = Lift(i, data[i])
  <2>1. data[i] \subseteq Kept(i)
    BY DEF Kept
  <2>2. ASSUME NEW v PROVE v \in Of(i, h.hasData) <=> v \in Lift(i, data[i])
    BY <1>1, <1>3, <1>4, <2>1, InLift DEF Of
  <2> QED
    BY <2>2
<1>7. EdgesOf(i, h.edges) = LiftEdges(i, KeptEdges(i))
  <2>1. KeptEdges(i) = Parent \cap (Kept(i) \X Kept(i)) /\ KeptEdges(i) \subseteq Parent
    BY KeptIsClosed
  <2>2. ASSUME NEW e \in EdgesOf(i, h.edges) PROVE e \in LiftEdges(i, KeptEdges(i))
    <3>1. e \in LiftEdges(i, Parent) /\ e[1] \notin gone /\ e[2] \notin gone
      BY <1>1, <1>3 DEF EdgesOf
    <3>2. e = <<<<i, e[1][2], 1>>, <<i, e[2][2], 1>>, 1>> /\ <<e[1][2], e[2][2]>> \in Parent
      BY <3>1, InLiftEdges
    <3>3. e[1] \in Lift(i, Nodes) /\ e[2] \in Lift(i, Nodes)
      BY <3>2, InLift, GenericAssumption
    <3>4. <<e[1][2], e[2][2]>> \in KeptEdges(i)
      BY <1>4, <2>1, <3>1, <3>2, <3>3
    <3> QED
      BY <2>1, <3>2, <3>4, InLiftEdges
  <2>3. ASSUME NEW e \in LiftEdges(i, KeptEdges(i)) PROVE e \in EdgesOf(i, h.edges)
    <3>1. e = <<<<i, e[1][2], 1>>, <<i, e[2][2], 1>>, 1>> /\ <<e[1][2], e[2][2]>> \in KeptEdges(i)
      BY <2>1, InLiftEdges
    <3>2. <<e[1][2], e[2][2]>> \in Parent /\ e[1][2] \in Kept(i) /\ e[2][2] \in Kept(i)
      BY <2>1, <3>1
    <3>3. e \in LiftEdges(i, Parent)
      BY <3>1, <3>2, InLiftEdges
    <3>4. e[1] \in Lift(i, Nodes) /\ e[2] \in Lift(i, Nodes)
      BY <3>1, <3>2, InLift
    <3>5. e[1] \notin gone /\ e[2] \notin gone
      BY <1>4, <3>2, <3>4
    <3> QED
      BY <1>1, <1>3, <3>3, <3>5 DEF EdgesOf
  <2> QED
    BY <2>2, <2>3
<1>8. Of(i, h.cloneOf) = {}
  BY <1>1, <1>3 DEF Of
<1> QED
  BY <1>1, <1>3, <1>5, <1>6, <1>7, <1>8 DEF OldShape

LEMMA OldShapeAfterUnmarking ==
  ASSUME NEW g, IsGraph(g), NEW i, OldShape(g, i, 1..6, 7),
         NEW h, h = RemoveRemainMarker(g, i)
  PROVE  OldShape(h, i, 1..7, 7)
PROOF
<1>1. /\ h.vertices = g.vertices /\ h.cloneOf = g.cloneOf /\ h.hasData = g.hasData
      /\ h.edges = g.edges /\ h.remain = g.remain \ OfInstance(g, i)
  BY RemoveRemainMarkerDoes
<1>2. Of(i, h.remain) = {}
  BY <1>1, PartsOfGraph DEF Of, OfInstance
<1> QED
  BY <1>1, <1>2 DEF OldShape

LEMMA OldShapeAfterCounts ==
  ASSUME NEW g, IsGraph(g), NEW i, OldShape(g, i, 1..7, 8),
         NEW h, h = SetNumberOfChildren(g, OfInstance(g, i))
  PROVE  OldShape(h, i, 1..8, 8)
PROOF
<1>1. PICK vs : vs = OfInstance(g, i)
  OBVIOUS
<1>2. /\ h.vertices = g.vertices /\ h.cloneOf = g.cloneOf /\ h.hasData = g.hasData
      /\ h.edges = g.edges /\ h.remain = g.remain
      /\ DOMAIN h.children = DOMAIN g.children \cup (vs \cap g.vertices)
  BY <1>1, SetNumberOfChildrenDoes
<1>3. Of(i, g.vertices) = Lift(i, Kept(i))
  BY DEF OldShape
<1>4. Lift(i, Kept(i)) \subseteq DOMAIN h.children
  BY <1>1, <1>2, <1>3 DEF Of, OfInstance
<1> QED
  BY <1>2, <1>4 DEF OldShape

LEMMA OldShapeGrows ==
  ASSUME WellBuilt, IInv, NEW g, IsGraph(g), NEW i \in Instances, ~IsNew(i),
         NEW n \in 1..8, OldShape(g, i, 1..(n - 1), n),
         NEW c, NEW h, h = Execute(g, i, Program[i][n], c)
  PROVE  OldShape(h, i, 1..n, n)
PROOF
<1>1. CASE n = 1
  <2>1. h = Execute(g, i, "CloneNodes", c)
    BY <1>1, TheOldProgram
  <2> QED
    BY <1>1, <2>1, OldShapeAfterClones
<1>2. CASE n = 2
  <2>1. Program[i][n] = "CloneRelationships"
    BY <1>2, TheOldProgram
  <2>2. h = CloneRelationships(g, i, Nodes)
    BY <2>1 DEF Execute
  <2> QED
    BY <1>2, <2>2, OldShapeAfterRelationships
<1>3. CASE n = 3
  <2>1. Program[i][n] = "RemoveCloneEdges"
    BY <1>3, TheOldProgram
  <2>2. h = RemoveCloneMarkers(g, OfInstance(g, i))
    BY <2>1 DEF Execute
  <2> QED
    BY <1>3, <2>2, OldShapeAfterMarkers
<1>4. CASE n = 4
  <2>1. Program[i][n] = "SetHasData"
    BY <1>4, TheOldProgram
  <2>2. h = SetHasData(g, i, data[i])
    BY <2>1, SetHasDataOfNodes DEF Execute
  <2> QED
    BY <1>4, <2>2, KeptAreNodes, OldShapeAfterData
<1>5. CASE n = 5
  <2>1. Program[i][n] = "MarkNodesToRemain"
    BY <1>5, TheOldProgram
  <2>2. h = MarkNodesToRemain(g, i)
    BY <2>1 DEF Execute
  <2> QED
    BY <1>5, <2>2, KeptAreNodes, OldShapeAfterMarking
<1>6. CASE n = 6
  <2>1. Program[i][n] = "RemoveNodesNotMarkedToRemain"
    BY <1>6, TheOldProgram
  <2>2. h = RemoveNodesNotMarkedToRemain(g, i)
    BY <2>1 DEF Execute
  <2> QED
    BY <1>6, <2>2, KeptAreNodes, OldShapeAfterTrimming
<1>7. CASE n = 7
  <2>1. Program[i][n] = "RemoveRemainMarker"
    BY <1>7, TheOldProgram
  <2>2. h = RemoveRemainMarker(g, i)
    BY <2>1 DEF Execute
  <2> QED
    BY <1>7, <2>2, OldShapeAfterUnmarking
<1>8. CASE n = 8
  <2>1. Program[i][n] = "SetNumberOfChildren"
    BY <1>8, TheOldProgram
  <2>2. h = SetNumberOfChildren(g, OfInstance(g, i))
    BY <2>1 DEF Execute
  <2> QED
    BY <1>8, <2>2, OldShapeAfterCounts
<1> QED
  BY <1>1, <1>2, <1>3, <1>4, <1>5, <1>6, <1>7, <1>8

------------------------------------------------------------------------------
(* Before the counts everything else is there.                             *)

LEMMA NewIsFinal ==
  ASSUME NEW g, IsGraph(g), \A v \in g.ordered : v[2] \in Ordered, NEW i, IsNew(i),
         NEW C, NEW n, NewShape(g, i, C, n),
         C[4] = data[i], C[5] = Kept(i) \ data[i], C[6] = Kept(i), C[7] = Kept(i)
  PROVE  Final(g, i)
PROOF
<1>1. C[4] \cup C[5] = Kept(i)
  BY DEF Kept
<1>2. /\ Of(i, g.vertices) = Lift(i, Kept(i)) /\ Of(i, g.hasData) = Lift(i, data[i])
      /\ Of(i, g.remain) = {} /\ Lift(i, Kept(i) \cap Ordered) \subseteq g.ordered
  BY <1>1 DEF NewShape
<1>3. EdgesOf(i, g.edges) = LiftEdges(i, KeptEdges(i))
  BY DEF NewShape, KeptEdges
<1>4. Of(i, g.ordered) = Lift(i, Kept(i) \cap Ordered)
  <2>1. g.ordered \subseteq g.vertices
    BY PartsOfGraph
  <2>2. ASSUME NEW v PROVE v \in Of(i, g.ordered) <=> v \in Lift(i, Kept(i) \cap Ordered)
    BY <1>2, <2>1, InLift DEF Of
  <2> QED
    BY <2>2
<1> QED
  BY <1>2, <1>3, <1>4 DEF Final

LEMMA OldIsFinal ==
  ASSUME NEW g, NEW i, ~IsNew(i), NEW D, NEW n, OldShape(g, i, D, n), 1..7 \subseteq D
  PROVE  Final(g, i)
PROOF
<1>1. 1 \in D /\ 2 \in D /\ 3 \in D /\ 4 \in D /\ 6 \in D /\ 7 \in D
  OBVIOUS
<1> QED
  BY <1>1 DEF OldShape, Final

\* Nothing but the counts gives a vertex a number of children.
LEMMA UncountedBefore ==
  ASSUME NEW g, IsGraph(g), NEW i, Uncounted(g, i), NEW op, NEW c,
         op \notin {"SetNumberOfChildren", "SetNumberOfChildrenFromIDs"},
         NEW h, h = Execute(g, i, op, c)
  PROVE  Uncounted(h, i)
PROOF
<1> SUFFICES DOMAIN h.children \subseteq DOMAIN g.children
  BY DEF Uncounted
<1>1. CASE op = "CreateHasCodeEdges"
  BY <1>1, CreateHasCodeEdgesDoes DEF Execute
<1>2. CASE op \in {"CloneNodes", "CloneNodesFromIDs(data)", "CloneNodesFromIDs(ancestries)"}
  <2>1. PICK ns, b : h = CloneVertices(g, i, ns, b)
    BY <1>2 DEF Execute
  <2> QED
    BY <2>1, CloneVerticesDoes
<1>3. CASE op = "CloneOrderFromIDs"
  BY <1>3, CloneOrderDoes DEF Execute
<1>4. CASE op \in {"CloneRelationships", "CloneRelationshipsFromIDs"}
  <2>1. PICK ns : h = CloneRelationships(g, i, ns)
    BY <1>4 DEF Execute
  <2> QED
    BY <2>1, CloneRelationshipsDoes
<1>5. CASE op \in {"RemoveCloneEdges", "RemoveCloneEdgesFromSourceIDs"}
  <2>1. PICK vs : h = RemoveCloneMarkers(g, vs)
    BY <1>5 DEF Execute
  <2> QED
    BY <2>1, RemoveCloneMarkersDoes
<1>6. CASE op = "SetHasData"
  BY <1>6, SetHasDataDoes DEF Execute
<1>7. CASE op = "MarkNodesToRemain"
  <2>1. h = MarkNodesToRemain(g, i)
    BY <1>7 DEF Execute
  <2> QED
    BY <2>1 DEF MarkNodesToRemain, IsGraph
<1>8. CASE op = "RemoveNodesNotMarkedToRemain"
  <2>1. h = RemoveNodesNotMarkedToRemain(g, i)
    BY <1>8 DEF Execute
  <2> QED
    BY <2>1 DEF RemoveNodesNotMarkedToRemain, IsGraph
<1>9. CASE op = "RemoveRemainMarker"
  BY <1>9, RemoveRemainMarkerDoes DEF Execute
<1>10. CASE op \notin { "CreateHasCodeEdges", "CloneNodes", "CloneNodesFromIDs(data)",
                        "CloneNodesFromIDs(ancestries)", "CloneOrderFromIDs", "CloneRelationships",
                        "CloneRelationshipsFromIDs", "RemoveCloneEdges",
                        "RemoveCloneEdgesFromSourceIDs", "SetHasData", "MarkNodesToRemain",
                        "RemoveNodesNotMarkedToRemain", "RemoveRemainMarker" }
  BY <1>10 DEF Execute
<1> QED
  BY <1>1, <1>2, <1>3, <1>4, <1>5, <1>6, <1>7, <1>8, <1>9, <1>10

------------------------------------------------------------------------------
(* What a step leaves of it all.                                           *)

LEMMA Frozen ==
  ASSUME UNCHANGED data, NEW i
  PROVE  Kept(i)' = Kept(i) /\ Want(i)' = Want(i) /\ KeptEdges(i)' = KeptEdges(i)
PROOF
<1>1. Kept(i)' = Kept(i)
  BY DEF Kept
<1>2. Want(i)' = Want(i)
  BY <1>1 DEF Want, GetCodesWithData
<1>3. KeptEdges(i)' = KeptEdges(i)
  BY <1>1 DEF KeptEdges
<1> QED
  BY <1>1, <1>2, <1>3

LEMMA StageAfter ==
  ASSUME UNCHANGED data, NEW i,
         ~err'[i] /\ IsNew(i) => Told(i)' /\ NewShape(graph', i, Progress(i)', step'[i]),
         ~err'[i] /\ ~IsNew(i) => OldShape(graph', i, Passed(i)', step'[i]),
         Built(i)' => Final(graph', i) /\ Counted(graph', i),
         ~Built(i)' => Uncounted(graph', i)
  PROVE  Stage(i)'
PROOF
<1>1. Kept(i)' = Kept(i) /\ Want(i)' = Want(i) /\ KeptEdges(i)' = KeptEdges(i)
  BY Frozen
<1>2. IsNew(i)' <=> IsNew(i)
  BY DEF IsNew
<1>3. Uncounted(graph', i) => Uncounted(graph, i)'
  BY DEF Uncounted
<1>4. Counted(graph', i) => Counted(graph, i)'
  BY <1>1 DEF Counted, Below
<1>5. Final(graph', i) => Final(graph, i)'
  BY <1>1, <1>2 DEF Final
<1>6. NewShape(graph', i, Progress(i)', step'[i]) => NewShape(graph, i, Progress(i), step[i])'
  BY DEF NewShape
<1>7. OldShape(graph', i, Passed(i)', step'[i]) => OldShape(graph, i, Passed(i), step[i])'
  BY <1>1 DEF OldShape
<1> QED
  BY <1>2, <1>3, <1>4, <1>5, <1>6, <1>7 DEF Stage

LEMMA ProgressParts ==
  ASSUME NEW i, NEW s \in 1..10
  PROVE  Progress(i)[s] = Covered(i, s) /\ Covered(i, s) \subseteq Want(i)[s]
BY DEF Progress, Covered

LEMMA SameProgress ==
  ASSUME UNCHANGED data, NEW i, step'[i] = step[i], phase'[i] = phase[i],
         DOMAIN (left'[i]) = DOMAIN (left[i])
  PROVE  /\ Progress(i)' = Progress(i) /\ Passed(i)' = Passed(i)
         /\ Told(i) /\ ids'[i] = ids[i] => Told(i)'
PROOF
<1>1. Kept(i)' = Kept(i) /\ Want(i)' = Want(i)
  BY Frozen
<1>2. \A s : Covered(i, s)' = Covered(i, s)
  BY <1>1 DEF Covered
<1>3. Progress(i)' = Progress(i)
  BY <1>2 DEF Progress
<1>4. Passed(i)' = Passed(i)
  BY DEF Passed
<1>5. Told(i) /\ ids'[i] = ids[i] => Told(i)'
  BY <1>1, <1>2, <1>4 DEF Told
<1> QED
  BY <1>3, <1>4, <1>5

LEMMA PositionSame ==
  ASSUME UNCHANGED data, NEW i, Position(i), step'[i] = step[i], phase'[i] = phase[i],
         left'[i] = left[i], err'[i] = err[i]
  PROVE  Position(i)'
PROOF
<1>1. Want(i)' = Want(i)
  BY Frozen
<1> QED
  BY <1>1 DEF Position

LEMMA OthersKeep ==
  ASSUME WellBuilt, IInv, BuildInv, IsGraph(graph'), \A v \in graph'.ordered : v[2] \in Ordered,
         NEW j \in Instances, UNCHANGED data,
         step'[j] = step[j], phase'[j] = phase[j], left'[j] = left[j], err'[j] = err[j],
         ids'[j] = ids[j],
         SameFor(j, graph, graph'), OrderGrows(j, graph, graph')
  PROVE  Position(j)' /\ Stage(j)'
PROOF
<1>1. Position(j)'
  BY PositionSame DEF BuildInv
<1>2. /\ Progress(j)' = Progress(j) /\ Passed(j)' = Passed(j)
      /\ Told(j) => Told(j)'
  BY SameProgress
<1>3. Stage(j)
  BY DEF BuildInv
<1>4. step[j] \in Nat
  BY DEF IInv, Shapes
<1>5. ASSUME ~err'[j], IsNew(j) PROVE Told(j)' /\ NewShape(graph', j, Progress(j)', step'[j])
  <2>1. Told(j) /\ NewShape(graph, j, Progress(j), step[j])
    BY <1>3, <1>5 DEF Stage
  <2>2. \A v \in Progress(j)[9] \cup Progress(j)[10] : v[1] = j
    BY <1>5, ProgressParts, TheNewProgram, InLift
  <2>3. NewShape(graph', j, Progress(j), step[j])
    BY <2>1, <2>2, NewShapeHolds
  <2> QED
    BY <1>2, <2>1, <2>3
<1>6. ASSUME ~err'[j], ~IsNew(j) PROVE OldShape(graph', j, Passed(j)', step'[j])
  <2>1. OldShape(graph, j, Passed(j), step[j])
    BY <1>3, <1>6 DEF Stage
  <2>2. OldShape(graph', j, Passed(j), step[j])
    BY <1>4, <2>1, OldShapeHolds
  <2> QED
    BY <1>2, <2>2
<1>7. Built(j)' <=> Built(j)
  BY DEF Built, IsNew
<1>8. Built(j)' => Final(graph', j) /\ Counted(graph', j)
  <2>1. Built(j) => Final(graph, j) /\ Counted(graph, j)
    BY <1>3 DEF Stage
  <2> QED
    BY <1>7, <2>1, FinalHolds
<1>9. ~Built(j)' => Uncounted(graph', j)
  <2>1. ~Built(j) => Uncounted(graph, j)
    BY <1>3 DEF Stage
  <2> QED
    BY <1>7, <2>1, UncountedHolds
<1> QED
  BY <1>1, <1>5, <1>6, <1>8, <1>9, StageAfter
------------------------------------------------------------------------------
(* The steps.                                                              *)

LEMMA BuildInit ==
  ASSUME WellBuilt, Init
  PROVE  BuildInv
PROOF
<1>1. (\A v \in graph.ordered : v[2] \in Ordered) /\ (\A r \in late : Sent(r))
  BY DEF Init, EmptyGraph
<1>2. ASSUME NEW i \in Instances PROVE Position(i) /\ Stage(i)
  <2>1. Len(Program[i]) \in {8, 10} /\ Program[i] # <<>>
    <3>1. Len(Program[i]) \in {8, 10}
      <4>1. CASE IsNew(i)
        BY <4>1, TheNewProgram
      <4>2. CASE ~IsNew(i)
        BY <4>2, TheOldProgram
      <4> QED
        BY <4>1, <4>2
    <3>2. Len(<<>>) = 0
      OBVIOUS
    <3> QED
      BY <3>1, <3>2
  <2>2. step[i] = 1 /\ phase[i] = "calling" /\ err[i] = FALSE
    BY <2>1 DEF Init
  <2>3. Position(i)
    BY <2>1, <2>2 DEF Position
  <2>4. ids[i].nodes = {} /\ ids[i].ancestries = {}
    BY DEF Init
  <2>5. \A s \in 1..10 : Covered(i, s) = {}
    BY <2>2 DEF Covered
  <2>6. Passed(i) = {}
    BY <2>2 DEF Passed
  <2>7. Told(i)
    BY <2>4, <2>5, <2>6, AncestorsOfNone DEF Told
  <2>8. graph = EmptyGraph
    BY DEF Init
  <2>9. /\ Of(i, graph.vertices) = {} /\ Of(i, graph.cloneOf) = {} /\ graph.cloneOf = {}
        /\ Of(i, graph.hasData) = {} /\ Of(i, graph.remain) = {}
        /\ EdgesOf(i, graph.edges) = {} /\ DOMAIN graph.children = {}
    BY <2>8 DEF Of, EdgesOf, EmptyGraph
  <2>10. /\ Progress(i)[3] = {} /\ Progress(i)[4] = {} /\ Progress(i)[5] = {}
         /\ Progress(i)[6] = {} /\ Progress(i)[7] = {} /\ Progress(i)[9] = {}
         /\ Progress(i)[10] = {}
    BY <2>5, ProgressParts
  <2>11. Lift(i, {}) = {} /\ LiftEdges(i, {}) = {}
    BY DEF Lift, LiftEdges
  <2>12. NewShape(graph, i, Progress(i), step[i])
    <3>1. { r \in Parent : r[1] \in Progress(i)[7] } = {}
      BY <2>10
    <3>2. Progress(i)[4] \cup Progress(i)[5] = {} /\ Progress(i)[6] \cap Ordered = {}
      BY <2>10
    <3> QED
      BY <2>9, <2>10, <2>11, <3>1, <3>2 DEF NewShape
  <2>13. OldShape(graph, i, Passed(i), step[i])
    BY <2>6, <2>9, <2>11 DEF OldShape
  <2>14. ~Built(i) /\ Uncounted(graph, i)
    BY <2>2, <2>9 DEF Built, Uncounted
  <2> QED
    BY <2>3, <2>7, <2>12, <2>13, <2>14 DEF Stage
<1> QED
  BY <1>1, <1>2 DEF BuildInv

\* What an operation is given is what it is there for.
LEMMA WhatIsAsked ==
  ASSUME WellBuilt, IInv, BuildInv, NEW i \in Instances, phase[i] = "calling",
         NEW P \in Statements(i, Operation(i))
  PROVE  /\ UNION P = Want(i)[step[i]]
         /\ \A c, d \in P : c # d => c \cap d = {}
         /\ ~IsNew(i) \/ step[i] = 8 => P # {}
PROOF
<1>1. Position(i) /\ Stage(i) /\ ~err[i]
  BY DEF BuildInv, Position
<1>2. Operation(i) \notin Batched => P = {{}}
  BY DEF Statements, Whole
<1>3. Operation(i) \in Batched =>
        UNION P = Targets(i, Operation(i)) /\ \A c, d \in P : c # d => c \cap d = {}
  BY BatchesArePartition DEF Statements
<1>4. CASE ~IsNew(i)
  <2>1. step[i] \in 1..8
    BY <1>1, <1>4, TheOldProgram DEF Position
  <2>2. Operation(i) \notin Batched
    BY <1>4, <2>1, TheOldProgram DEF Operation, Batched
  <2>3. Want(i)[step[i]] = {}
    BY <1>4, <2>1, TheOldProgram
  <2> QED
    BY <1>2, <2>2, <2>3
<1>5. CASE IsNew(i)
  <2>1. step[i] \in 1..10 /\ Told(i)
    BY <1>1, <1>5, TheNewProgram DEF Position, Stage
  <2>2. CASE step[i] = 8
    <3>1. Operation(i) \notin Batched /\ Want(i)[step[i]] = {}
      BY <1>5, <2>2, TheNewProgram DEF Operation, Batched
    <3> QED
      BY <1>2, <3>1
  <2>3. CASE step[i] # 8
    <3>1. Operation(i) \in Batched
      BY <1>5, <2>1, <2>3, TheNewProgram DEF Operation, Batched
    <3>2. Targets(i, Operation(i)) = Want(i)[step[i]]
      <4>1. CASE step[i] \in {1, 2}
        <5>1. Operation(i) \in {"GetGenericHierarchyNodeIDs", "GetGenericHierarchyAncestriesIDs"}
          BY <1>5, <4>1, TheNewProgram DEF Operation
        <5>2. Targets(i, Operation(i)) = GetCodesWithData(i)
          BY <5>1 DEF Targets
        <5> QED
          BY <1>5, <4>1, <5>2, TheNewProgram
      <4>2. CASE step[i] > 2
        <5>1. Covered(i, 1) = GetCodesWithData(i) /\ Covered(i, 2) = GetCodesWithData(i)
          <6>1. step[i] > 1 /\ step[i] > 2
            BY <2>1, <4>2
          <6>2. Covered(i, 1) = Want(i)[1] /\ Covered(i, 2) = Want(i)[2]
            BY <6>1 DEF Covered
          <6> QED
            BY <1>5, <6>2, TheNewProgram
        <5>2. ids[i].nodes = data[i] /\ ids[i].ancestries = Ancestors(Parent, data[i])
          <6>1. GetCodesWithData(i) \cap Nodes = data[i]
            BY KeptAreNodes, BuilderAssumption DEF GetCodesWithData
          <6> QED
            BY <2>1, <5>1, <6>1, AncestorsOfCodes DEF Told
        <5>3. CASE step[i] \in {3, 6, 7}
          <6>1. Operation(i) \in { "CreateHasCodeEdges", "CloneOrderFromIDs",
                                   "CloneRelationshipsFromIDs" }
            BY <1>5, <5>3, TheNewProgram DEF Operation
          <6>2. Targets(i, Operation(i)) = ids[i].nodes \cup ids[i].ancestries
            BY <6>1 DEF Targets
          <6>3. Want(i)[step[i]] = Kept(i)
            BY <1>5, <5>3, TheNewProgram
          <6> QED
            BY <5>2, <6>2, <6>3 DEF Kept
        <5>4. CASE step[i] = 4
          <6>1. Operation(i) = "CloneNodesFromIDs(data)"
            BY <1>5, <5>4, TheNewProgram DEF Operation
          <6>2. Targets(i, Operation(i)) = ids[i].nodes
            BY <6>1 DEF Targets
          <6> QED
            BY <1>5, <5>2, <5>4, <6>2, TheNewProgram
        <5>5. CASE step[i] = 5
          <6>1. Operation(i) = "CloneNodesFromIDs(ancestries)"
            BY <1>5, <5>5, TheNewProgram DEF Operation
          <6>2. Targets(i, Operation(i)) = ids[i].ancestries \ ids[i].nodes
            BY <6>1 DEF Targets
          <6>3. Want(i)[step[i]] = Kept(i) \ data[i]
            BY <1>5, <5>5, TheNewProgram
          <6> QED
            BY <5>2, <6>2, <6>3 DEF Kept
        <5>6. CASE step[i] \in {9, 10}
          <6>1. Operation(i) \in {"SetNumberOfChildrenFromIDs", "RemoveCloneEdgesFromSourceIDs"}
            BY <1>5, <5>6, TheNewProgram DEF Operation
          <6>2. Targets(i, Operation(i)) = ids[i].clones
            BY <6>1 DEF Targets
          <6>3. 8 \in Passed(i)
            BY <5>6 DEF Passed
          <6>4. ids[i].clones = Lift(i, Kept(i))
            BY <2>1, <6>3 DEF Told
          <6> QED
            BY <1>5, <5>6, <6>2, <6>4, TheNewProgram
        <5> QED
          BY <2>1, <2>3, <4>2, <5>3, <5>4, <5>5, <5>6
      <4> QED
        BY <2>1, <4>1, <4>2
    <3> QED
      BY <1>3, <1>5, <2>3, <3>1, <3>2
  <2> QED
    BY <2>2, <2>3
<1> QED
  BY <1>4, <1>5

LEMMA SameForItself ==
  ASSUME NEW i, NEW g
  PROVE  SameFor(i, g, g) /\ OrderGrows(i, g, g)
BY DEF SameFor, OrderGrows, Of

\* A step that leaves the graph alone, and every builder but that of i.
LEMMA OnlyOne ==
  ASSUME WellBuilt, IInv, BuildInv, NEW i \in Instances, UNCHANGED <<graph, data>>,
         \A j \in Instances \ {i} :
           /\ step'[j] = step[j] /\ phase'[j] = phase[j] /\ left'[j] = left[j]
           /\ err'[j] = err[j] /\ ids'[j] = ids[j],
         \A r \in late' : Sent(r)',
         Position(i)' /\ Stage(i)'
  PROVE  BuildInv'
PROOF
<1>1. IsGraph(graph') /\ \A v \in graph'.ordered : v[2] \in Ordered
  BY DEF IInv, BuildInv
<1>2. ASSUME NEW j \in Instances, j # i PROVE Position(j)' /\ Stage(j)'
  <2>1. SameFor(j, graph, graph') /\ OrderGrows(j, graph, graph')
    BY SameForItself
  <2> QED
    BY <1>1, <1>2, <2>1, OthersKeep
<1> QED
  BY <1>1, <1>2 DEF BuildInv

LEMMA SentStays ==
  ASSUME IInv, BuildInv, UNCHANGED data, late' \subseteq late,
         \A j \in Instances : step'[j] \in Nat /\ step'[j] >= step[j]
  PROVE  \A r \in late' : Sent(r)'
PROOF
<1> SUFFICES ASSUME NEW r \in late' PROVE Sent(r)'
  OBVIOUS
<1>1. Sent(r) /\ r[1] \in Instances
  BY DEF BuildInv, IInv, OnTheWay
<1>2. Want(r[1])' = Want(r[1])
  BY Frozen
<1>3. step[r[1]] \in Nat
  BY <1>1 DEF IInv, Shapes
<1>4. 1..step[r[1]] \subseteq 1..step'[r[1]]
  BY <1>1, <1>3
<1> QED
  BY <1>1, <1>2, <1>4 DEF Sent

LEMMA CallBuilds ==
  ASSUME WellBuilt, IInv, BuildInv, NEW i \in Instances, Call(i)
  PROVE  BuildInv'
PROOF
<1>1. PICK P \in Statements(i, Operation(i)) : left' = [left EXCEPT ![i] = [c \in P |-> MaxAttempts]]
  BY DEF Call
<1>2. /\ phase[i] = "calling" /\ phase' = [phase EXCEPT ![i] = "running"]
      /\ UNCHANGED <<graph, data, step, err, ids, late>>
  BY DEF Call
<1>3. DOMAIN (left'[i]) = P /\ phase'[i] = "running"
  BY <1>1, <1>2 DEF IInv, Shapes
<1>4. /\ UNION P = Want(i)[step[i]] /\ \A c, d \in P : c # d => c \cap d = {}
      /\ ~IsNew(i) \/ step[i] = 8 => P # {}
  BY <1>2, WhatIsAsked
<1>5. Position(i) /\ Stage(i) /\ ~err[i]
  BY <1>2 DEF BuildInv, Position
<1>6. Kept(i)' = Kept(i) /\ Want(i)' = Want(i)
  BY <1>2, Frozen
<1>7. Position(i)'
  BY <1>2, <1>3, <1>4, <1>5, <1>6 DEF Position
<1>8. step[i] \in Nat
  BY DEF IInv, Shapes
<1>9. \A s \in 1..10 : Covered(i, s)' = Covered(i, s)
  BY <1>2, <1>3, <1>4, <1>6, <1>8 DEF Covered
<1>10. Progress(i)' = Progress(i)
  BY <1>9 DEF Progress
<1>11. ~IsNew(i) \/ 8 \in Passed(i)' => Passed(i)' = Passed(i) \/ (IsNew(i) /\ 8 \in Passed(i))
  BY <1>2, <1>3, <1>4, <1>8 DEF Passed
<1>12. Stage(i)'
  <2>1. ASSUME IsNew(i) PROVE Told(i)' /\ NewShape(graph', i, Progress(i)', step'[i])
    <3>1. Told(i) /\ NewShape(graph, i, Progress(i), step[i])
      BY <1>5, <2>1 DEF Stage
    <3>2. 8 \in Passed(i)' => 8 \in Passed(i)
      BY <1>11
    <3> QED
      BY <1>2, <1>6, <1>9, <1>10, <3>1, <3>2 DEF Told
  <2>2. ASSUME ~IsNew(i) PROVE OldShape(graph', i, Passed(i)', step'[i])
    BY <1>2, <1>5, <1>11, <2>2 DEF Stage
  <2>3. Built(i)' <=> Built(i)
    BY <1>2 DEF Built, IsNew
  <2>4. /\ Built(i) => Final(graph, i) /\ Counted(graph, i)
        /\ ~Built(i) => Uncounted(graph, i)
    BY <1>5 DEF Stage
  <2> QED
    BY <1>2, <2>1, <2>2, <2>3, <2>4, StageAfter
<1>13. \A r \in late' : Sent(r)'
  <2>1. \A j \in Instances : step'[j] \in Nat /\ step'[j] >= step[j]
    BY <1>2 DEF IInv, Shapes
  <2> QED
    BY <1>2, <2>1, SentStays
<1>14. \A j \in Instances \ {i} :
         /\ step'[j] = step[j] /\ phase'[j] = phase[j] /\ left'[j] = left[j]
         /\ err'[j] = err[j] /\ ids'[j] = ids[j]
  BY <1>1, <1>2 DEF IInv, Shapes
<1> QED
  BY <1>2, <1>7, <1>12, <1>13, <1>14, OnlyOne
\* From the counts on, a builder sends nothing that may not be repeated.
LEMMA BuiltRepeats ==
  ASSUME WellBuilt, BuildInv, NEW i \in Instances, Built(i),
         NEW op, NEW s \in 1..step[i], op = Program[i][s], s = step[i] \/ op \in Repeatable
  PROVE  op \in Repeatable
PROOF
<1>1. Position(i)
  BY DEF BuildInv
<1>2. CASE op \in Repeatable
  BY <1>2
<1>3. CASE s = step[i]
  <2>1. CASE IsNew(i)
    <3>1. s >= 9
      BY <1>3, <2>1 DEF Built
    <3>2. s \in 1..Len(Program[i])
      BY <1>1, <1>3 DEF Position
    <3>3. s \in {9, 10}
      <4>1. Len(Program[i]) = 10
        BY <2>1, TheNewProgram
      <4> QED
        BY <3>1, <3>2, <4>1
    <3> QED
      BY <2>1, <3>3, TheNewProgram DEF Repeatable
  <2>2. CASE ~IsNew(i)
    <3>1. s = 8
      BY <1>1, <1>3, <2>2, TheOldProgram DEF Built, Position
    <3> QED
      BY <2>2, <3>1, TheOldProgram DEF Repeatable
  <2> QED
    BY <2>1, <2>2
<1> QED
  BY <1>2, <1>3

\* Statement c of the operation of i is executed.
LEMMA OwnGraph ==
  ASSUME WellBuilt, IInv, BuildInv, NEW i \in Instances, IsGraph(graph'),
         NEW op, NEW s \in 1..step[i], op = Program[i][s], s = step[i] \/ op \in Repeatable,
         NEW c, graph' = Execute(graph, i, op, c)
  PROVE  /\ \A v \in graph'.ordered : v[2] \in Ordered
         /\ Built(i) => Final(graph', i) /\ Counted(graph', i)
         /\ ~Built(i) => Uncounted(graph', i)
PROOF
<1>1. \A v \in graph'.ordered : v[2] \in Ordered
  BY OrderIsOfCodes DEF BuildInv, IInv
<1>2. Position(i) /\ Stage(i)
  BY DEF BuildInv
<1>3. Built(i) => op \in Repeatable
  BY BuiltRepeats
<1>4. ASSUME ~Built(i) PROVE op \notin {"SetNumberOfChildren", "SetNumberOfChildrenFromIDs"}
  <2>1. CASE IsNew(i)
    <3>1. s \in 1..8
      BY <1>2, <1>4, <2>1, TheNewProgram DEF Built, Position
    <3> QED
      BY <2>1, <3>1, TheNewProgram
  <2>2. CASE ~IsNew(i)
    <3>1. s \in 1..7
      BY <1>2, <1>4, <2>2, TheOldProgram DEF Built, Position
    <3> QED
      BY <2>2, <3>1, TheOldProgram
  <2> QED
    BY <2>1, <2>2
<1>5. Built(i) => Final(graph', i) /\ Counted(graph', i)
  <2> SUFFICES ASSUME Built(i) PROVE Final(graph', i) /\ Counted(graph', i)
    OBVIOUS
  <2>1. Final(graph, i) /\ Counted(graph, i) /\ IsGraph(graph)
    BY <1>2 DEF Stage, IInv
  <2> QED
    BY <1>1, <1>3, <2>1, FinalRepeats
<1>6. ~Built(i) => Uncounted(graph', i)
  <2> SUFFICES ASSUME ~Built(i) PROVE Uncounted(graph', i)
    OBVIOUS
  <2>1. Uncounted(graph, i) /\ IsGraph(graph)
    BY <1>2 DEF Stage, IInv
  <2> QED
    BY <1>4, <2>1, UncountedBefore
<1> QED
  BY <1>1, <1>5, <1>6

\* The hierarchies of the others are left alone.
LEMMA OtherGraphs ==
  ASSUME WellBuilt, IInv, NEW i \in Instances, NEW s, NEW op, op = Program[i][s],
         IsNew(i) => s \in 1..10, ~IsNew(i) => s \in 1..8,
         NEW c, c \subseteq Want(i)[s], graph' = Execute(graph, i, op, c), NEW j, j # i
  PROVE  SameFor(j, graph, graph') /\ OrderGrows(j, graph, graph')
PROOF
<1>1. op \in OfClones => \A v \in c : v[1] = i
  <2>1. CASE IsNew(i)
    <3> SUFFICES ASSUME op \in OfClones PROVE \A v \in c : v[1] = i
      OBVIOUS
    <3>1. s \in {9, 10}
      BY <2>1, TheNewProgram DEF OfClones
    <3>2. c \subseteq Lift(i, Kept(i))
      BY <2>1, <3>1, TheNewProgram
    <3> QED
      BY <3>2, InLift
  <2>2. CASE ~IsNew(i)
    <3>1. c = {}
      BY <2>2, TheOldProgram
    <3> QED
      BY <3>1
  <2> QED
    BY <2>1, <2>2
<1>2. IsGraph(graph) /\ i # j
  BY DEF IInv
<1>3. SameFor(j, graph, graph')
  BY <1>1, <1>2, OthersUntouched
<1>4. OrderGrows(j, graph, graph')
  BY <1>1, <1>2, OthersUntouched
<1> QED
  BY <1>3, <1>4

\* The batches that are left without c.
LEMMA OneLess ==
  ASSUME IInv, NEW i \in Instances, NEW c \in DOMAIN left[i], left' = Settled(i, c)
  PROVE  /\ DOMAIN (left'[i]) = DOMAIN (left[i]) \ {c}
         /\ \A j \in Instances \ {i} : left'[j] = left[j]
BY DEF Settled, Restrict, IInv, Shapes

LEMMA WhatIsLeft ==
  ASSUME WellBuilt, IInv, BuildInv, NEW i \in Instances, phase[i] = "running",
         NEW c \in DOMAIN left[i]
  PROVE  /\ step[i] \in 1..Len(Program[i])
         /\ IsNew(i) => step[i] \in 1..10
         /\ ~IsNew(i) => step[i] \in 1..8
         /\ c \subseteq Want(i)[step[i]]
         /\ ~IsNew(i) => Passed(i) = 1..(step[i] - 1) /\ DOMAIN left[i] = {c}
PROOF
<1>1. Position(i)
  BY DEF BuildInv
<1>2. step[i] \in 1..Len(Program[i]) /\ c \subseteq Want(i)[step[i]]
  BY <1>1 DEF Position
<1>3. (IsNew(i) => step[i] \in 1..10) /\ (~IsNew(i) => step[i] \in 1..8)
  BY <1>2, TheNewProgram, TheOldProgram
<1>4. ASSUME ~IsNew(i) PROVE Passed(i) = 1..(step[i] - 1) /\ DOMAIN left[i] = {c}
  <2>1. Want(i)[step[i]] = {}
    BY <1>3, <1>4, TheOldProgram
  <2>2. \A d \in DOMAIN left[i] : d = {}
    BY <1>1, <2>1 DEF Position
  <2>3. Passed(i) = 1..(step[i] - 1)
    BY <1>3, <1>4 DEF Passed
  <2> QED
    BY <2>2, <2>3
<1> QED
  BY <1>2, <1>3, <1>4
\* The operation of i is done for batch c too.
LEMMA ProgressGrows ==
  ASSUME WellBuilt, IInv, BuildInv, UNCHANGED <<data, step, phase>>, NEW i \in Instances, IsNew(i),
         phase[i] = "running",
         NEW c \in DOMAIN left[i], DOMAIN (left'[i]) = DOMAIN (left[i]) \ {c}
  PROVE  /\ Grows(Progress(i), Progress(i)', step[i], c)
         /\ \A s \in 1..10 : s < step[i] => Progress(i)[s] = Want(i)[s]
         /\ \A s \in 1..10 : s > step[i] => Progress(i)[s] = {}
         /\ c \cap Progress(i)[step[i]] = {}
         /\ \A s \in 1..10 : Covered(i, s)' = IF s = step[i] THEN Covered(i, s) \cup c ELSE Covered(i, s)
PROOF
<1>1. step[i] \in 1..10 /\ c \subseteq Want(i)[step[i]]
  BY WhatIsLeft
<1>2. Want(i)' = Want(i)
  BY Frozen
<1>3. \A d \in DOMAIN left[i] : d # c => d \cap c = {}
  BY DEF BuildInv, Position
<1>4. Covered(i, step[i])' = Covered(i, step[i]) \cup c
  <2>1. Covered(i, step[i]) = Want(i)[step[i]] \ UNION DOMAIN left[i]
    BY <1>1 DEF Covered
  <2>2. Covered(i, step[i])' = Want(i)[step[i]] \ UNION (DOMAIN left[i] \ {c})
    BY <1>1, <1>2 DEF Covered
  <2>3. UNION (DOMAIN left[i] \ {c}) = (UNION DOMAIN left[i]) \ c
    BY <1>3
  <2> QED
    BY <1>1, <2>1, <2>2, <2>3
<1>5. ASSUME NEW s \in 1..10, s # step[i] PROVE Covered(i, s)' = Covered(i, s)
  BY <1>2, <1>5 DEF Covered
<1>6. \A s \in 1..10 : Progress(i)'[s] = Covered(i, s)' /\ Progress(i)[s] = Covered(i, s)
  BY DEF Progress
<1>7. \A s \in 1..10 : Covered(i, s)' = IF s = step[i] THEN Covered(i, s) \cup c ELSE Covered(i, s)
  BY <1>4, <1>5
<1>8. Grows(Progress(i), Progress(i)', step[i], c)
  BY <1>6, <1>7 DEF Grows
<1>9. \A s \in 1..10 : s < step[i] => Progress(i)[s] = Want(i)[s]
  BY <1>1, <1>6 DEF Covered
<1>10. \A s \in 1..10 : s > step[i] => Progress(i)[s] = {}
  BY <1>1, <1>6 DEF Covered
<1>11. c \cap Progress(i)[step[i]] = {}
  BY <1>1, <1>6 DEF Covered
<1> QED
  BY <1>7, <1>8, <1>9, <1>10, <1>11

LEMMA AnswerTells ==
  ASSUME WellBuilt, IInv, BuildInv, UNCHANGED <<data, step, phase>>, NEW i \in Instances, IsNew(i),
         ~err[i], phase[i] = "running",
         NEW c \in DOMAIN left[i], DOMAIN (left'[i]) = DOMAIN (left[i]) \ {c},
         ids'[i] = Learn(i, Operation(i), c)
  PROVE  Told(i)'
PROOF
<1>1. step[i] \in 1..10
  BY WhatIsLeft
<1>2. Told(i) /\ NewShape(graph, i, Progress(i), step[i])
  BY DEF BuildInv, Stage
<1>3. /\ \A s \in 1..10 : s < step[i] => Progress(i)[s] = Want(i)[s]
      /\ \A s \in 1..10 : Covered(i, s)' = IF s = step[i] THEN Covered(i, s) \cup c ELSE Covered(i, s)
  BY ProgressGrows
<1>4. Kept(i)' = Kept(i)
  BY Frozen
<1>5. step[i] # 8 => (8 \in Passed(i)' => 8 \in Passed(i))
  BY <1>1 DEF Passed
<1>6. CASE step[i] = 1
  <2>1. Operation(i) = "GetGenericHierarchyNodeIDs"
    BY <1>6, TheNewProgram DEF Operation
  <2>2. ids'[i] = [ids[i] EXCEPT !.nodes = @ \cup GetGenericHierarchyNodeIDs(c)]
    BY <2>1 DEF Learn
  <2>3. ids'[i].nodes = ids[i].nodes \cup (c \cap Nodes) /\ ids'[i].ancestries = ids[i].ancestries
    BY <2>2 DEF IInv, Shapes, GetGenericHierarchyNodeIDs
  <2>4. Covered(i, 1)' = Covered(i, 1) \cup c /\ Covered(i, 2)' = Covered(i, 2)
    BY <1>3, <1>6
  <2>5. 8 \notin Passed(i)'
    BY <1>6 DEF Passed
  <2> QED
    BY <1>2, <2>3, <2>4, <2>5 DEF Told
<1>7. CASE step[i] = 2
  <2>1. Operation(i) = "GetGenericHierarchyAncestriesIDs"
    BY <1>7, TheNewProgram DEF Operation
  <2>2. ids'[i] = [ids[i] EXCEPT !.ancestries = @ \cup GetGenericHierarchyAncestriesIDs(c)]
    BY <2>1 DEF Learn
  <2>3. /\ ids'[i].nodes = ids[i].nodes
        /\ ids'[i].ancestries = ids[i].ancestries \cup Ancestors(Parent, c)
    BY <2>2 DEF IInv, Shapes, GetGenericHierarchyAncestriesIDs
  <2>4. Covered(i, 1)' = Covered(i, 1) /\ Covered(i, 2)' = Covered(i, 2) \cup c
    BY <1>3, <1>7
  <2>5. 8 \notin Passed(i)'
    BY <1>7 DEF Passed
  <2>6. ids'[i].ancestries = Ancestors(Parent, Covered(i, 2) \cup c)
    BY <1>2, <2>3, AncestorsOfUnion DEF Told
  <2> QED
    BY <1>2, <2>3, <2>4, <2>5, <2>6 DEF Told
<1>8. CASE step[i] = 8
  <2>1. Operation(i) = "GetHierarchyNodeIDs"
    BY <1>8, TheNewProgram DEF Operation
  <2>2. ids'[i] = [ids[i] EXCEPT !.clones = OfInstance(graph, i)]
    BY <2>1 DEF Learn
  <2>3. /\ ids'[i].nodes = ids[i].nodes /\ ids'[i].ancestries = ids[i].ancestries
        /\ ids'[i].clones = OfInstance(graph, i)
    BY <2>2 DEF IInv, Shapes
  <2>4. Covered(i, 1)' = Covered(i, 1) /\ Covered(i, 2)' = Covered(i, 2)
    BY <1>3, <1>8
  <2>5. OfInstance(graph, i) = Lift(i, Kept(i))
    <3>1. Progress(i)[4] = data[i] /\ Progress(i)[5] = Kept(i) \ data[i]
      BY <1>3, <1>8, TheNewProgram
    <3>2. Progress(i)[4] \cup Progress(i)[5] = Kept(i)
      BY <3>1 DEF Kept
    <3> QED
      BY <1>2, <3>2 DEF NewShape, Of, OfInstance
  <2> QED
    BY <1>2, <1>4, <2>3, <2>4, <2>5 DEF Told
<1>9. CASE step[i] \notin {1, 2, 8}
  <2>1. Operation(i) \notin { "GetGenericHierarchyNodeIDs", "GetGenericHierarchyAncestriesIDs",
                              "GetHierarchyNodeIDs" }
    BY <1>1, <1>9, TheNewProgram DEF Operation
  <2>2. ids'[i] = ids[i]
    BY <2>1 DEF Learn
  <2>3. Covered(i, 1)' = Covered(i, 1) /\ Covered(i, 2)' = Covered(i, 2)
    BY <1>3, <1>9
  <2> QED
    BY <1>2, <1>4, <1>5, <1>9, <2>2, <2>3 DEF Told
<1> QED
  BY <1>6, <1>7, <1>8, <1>9

\* The batches left of i are still batches of its operation.
LEMMA FewerLeft ==
  ASSUME IInv, BuildInv, UNCHANGED data, NEW i \in Instances, phase[i] = "running",
         step'[i] = step[i], phase'[i] = phase[i], DOMAIN (left'[i]) \subseteq DOMAIN (left[i])
  PROVE  Position(i)'
PROOF
<1>1. Position(i) /\ Want(i)' = Want(i)
  BY Frozen DEF BuildInv
<1> QED
  BY <1>1 DEF Position

LEMMA AnswerBuilds ==
  ASSUME WellBuilt, IInv, IInv', BuildInv, NEW i \in Instances, Answer(i)
  PROVE  BuildInv'
PROOF
<1>1. PICK c \in DOMAIN left[i] : /\ graph' = Execute(graph, i, Operation(i), c)
                                  /\ ids' = [ids EXCEPT ![i] = Learn(i, Operation(i), c)]
                                  /\ left' = Settled(i, c)
  BY DEF Answer
<1>2. phase[i] = "running" /\ UNCHANGED <<data, step, phase, err, late, reader>>
  BY DEF Answer
<1>3. /\ step[i] \in 1..Len(Program[i]) /\ c \subseteq Want(i)[step[i]]
      /\ IsNew(i) => step[i] \in 1..10
      /\ ~IsNew(i) => step[i] \in 1..8
  BY <1>2, WhatIsLeft
<1>4. /\ DOMAIN (left'[i]) = DOMAIN (left[i]) \ {c}
      /\ \A j \in Instances \ {i} : left'[j] = left[j]
  BY <1>1, OneLess
<1>5. ids'[i] = Learn(i, Operation(i), c) /\ \A j \in Instances \ {i} : ids'[j] = ids[j]
  BY <1>1 DEF IInv, Shapes
<1>6. IsGraph(graph) /\ IsGraph(graph') /\ step[i] \in Nat \ {0}
  BY DEF IInv, Shapes
<1>7. Position(i)'
  BY <1>2, <1>4, FewerLeft
<1>8. /\ \A v \in graph'.ordered : v[2] \in Ordered
      /\ Built(i) => Final(graph', i) /\ Counted(graph', i)
      /\ ~Built(i) => Uncounted(graph', i)
  <2>1. PICK s : s = step[i]
    OBVIOUS
  <2>2. PICK op : op = Program[i][s]
    OBVIOUS
  <2>3. s \in 1..step[i] /\ graph' = Execute(graph, i, op, c)
    BY <1>1, <1>6, <2>1, <2>2 DEF Operation
  <2> QED
    BY <1>6, <2>1, <2>2, <2>3, OwnGraph
<1>9. Built(i)' <=> Built(i)
  BY <1>2 DEF Built, IsNew
<1>10. ASSUME ~err[i], IsNew(i) PROVE Told(i)' /\ NewShape(graph', i, Progress(i)', step'[i])
  <2>1. Told(i)'
    BY <1>2, <1>4, <1>5, <1>10, AnswerTells
  <2>2. /\ Grows(Progress(i), Progress(i)', step[i], c)
        /\ \A s \in 1..10 : s < step[i] => Progress(i)[s] = Want(i)[s]
        /\ \A s \in 1..10 : s > step[i] => Progress(i)[s] = {}
        /\ c \cap Progress(i)[step[i]] = {}
    BY <1>2, <1>4, <1>10, ProgressGrows
  <2>3. NewShape(graph, i, Progress(i), step[i])
    BY <1>10 DEF BuildInv, Stage
  <2>4. graph' = Execute(graph, i, Program[i][step[i]], c)
    BY <1>1 DEF Operation
  <2>5. NewShape(graph', i, Progress(i)', step[i])
    BY <1>3, <1>6, <1>10, <2>2, <2>3, <2>4, NewShapeGrows
  <2> QED
    BY <1>2, <2>1, <2>5
<1>11. ASSUME ~err[i], ~IsNew(i) PROVE OldShape(graph', i, Passed(i)', step'[i])
  <2>1. Passed(i) = 1..(step[i] - 1) /\ DOMAIN left[i] = {c}
    BY <1>2, <1>11, WhatIsLeft
  <2>2. OldShape(graph, i, 1..(step[i] - 1), step[i])
    BY <1>11, <2>1 DEF BuildInv, Stage
  <2>3. graph' = Execute(graph, i, Program[i][step[i]], c)
    BY <1>1 DEF Operation
  <2>4. OldShape(graph', i, 1..step[i], step[i])
    BY <1>3, <1>6, <1>11, <2>2, <2>3, OldShapeGrows
  <2>5. Passed(i)' = 1..step[i]
    BY <1>2, <1>3, <1>4, <1>11, <2>1 DEF Passed
  <2> QED
    BY <1>2, <2>4, <2>5
<1>12. Stage(i)'
  BY <1>2, <1>8, <1>9, <1>10, <1>11, StageAfter
<1>13. ASSUME NEW j \in Instances, j # i PROVE Position(j)' /\ Stage(j)'
  <2>1. SameFor(j, graph, graph') /\ OrderGrows(j, graph, graph')
    BY <1>1, <1>3, <1>13, OtherGraphs DEF Operation
  <2> QED
    BY <1>2, <1>4, <1>5, <1>6, <1>8, <1>13, <2>1, OthersKeep
<1>14. \A r \in late' : Sent(r)'
  <2>1. \A j \in Instances : step'[j] \in Nat /\ step'[j] >= step[j]
    BY <1>2 DEF IInv, Shapes
  <2> QED
    BY <1>2, <2>1, SentStays
<1> QED
  BY <1>7, <1>8, <1>12, <1>13, <1>14 DEF BuildInv
LEMMA RefuseBuilds ==
  ASSUME WellBuilt, IInv, BuildInv, NEW i \in Instances, Refuse(i)
  PROVE  BuildInv'
PROOF
<1>1. PICK c \in DOMAIN left[i] : left' = Settled(i, c)
  BY DEF Refuse
<1>2. /\ phase[i] = "running" /\ err' = [err EXCEPT ![i] = TRUE]
      /\ UNCHANGED <<graph, data, step, phase, ids, late, reader>>
  BY DEF Refuse
<1>3. /\ DOMAIN (left'[i]) = DOMAIN (left[i]) \ {c}
      /\ \A j \in Instances \ {i} : left'[j] = left[j]
  BY <1>1, OneLess
<1>4. err'[i] /\ \A j \in Instances \ {i} : err'[j] = err[j]
  BY <1>2 DEF IInv, Shapes
<1>5. Position(i)'
  BY <1>2, <1>3, FewerLeft
<1>6. Stage(i)'
  <2>1. Built(i)' <=> Built(i)
    BY <1>2 DEF Built, IsNew
  <2>2. /\ Built(i) => Final(graph, i) /\ Counted(graph, i)
        /\ ~Built(i) => Uncounted(graph, i)
    BY DEF BuildInv, Stage
  <2> QED
    BY <1>2, <1>4, <2>1, <2>2, StageAfter
<1>7. \A r \in late' : Sent(r)'
  <2>1. \A j \in Instances : step'[j] \in Nat /\ step'[j] >= step[j]
    BY <1>2 DEF IInv, Shapes
  <2> QED
    BY <1>2, <2>1, SentStays
<1> QED
  BY <1>2, <1>3, <1>4, <1>5, <1>6, <1>7, OnlyOne

\* A repeated statement, early or late, changes nothing of what there is.
LEMMA RepeatKeepsShape ==
  ASSUME WellBuilt, IInv, BuildInv, NEW i \in Instances, ~err[i],
         NEW s \in 1..step[i], NEW op \in Repeatable, op = Program[i][s],
         NEW c, graph' = Execute(graph, i, op, c)
  PROVE  /\ IsNew(i) => NewShape(graph', i, Progress(i), step[i])
         /\ ~IsNew(i) => OldShape(graph', i, Passed(i), step[i])
PROOF
<1>1. Position(i) /\ Stage(i) /\ IsGraph(graph) /\ step[i] \in 1..Len(Program[i])
  BY DEF BuildInv, IInv, Position
<1>2. ASSUME IsNew(i) PROVE NewShape(graph', i, Progress(i), step[i])
  <2>1. step[i] \in 1..10 /\ NewShape(graph, i, Progress(i), step[i])
    <3>1. Len(Program[i]) = 10
      BY <1>2, TheNewProgram
    <3> QED
      BY <1>1, <1>2, <3>1 DEF Stage
  <2>2. Program[i][s] \in Repeatable /\ graph' = Execute(graph, i, Program[i][s], c)
    OBVIOUS
  <2> QED
    BY <1>1, <1>2, <2>1, <2>2, NewShapeRepeats
<1>3. ASSUME ~IsNew(i) PROVE OldShape(graph', i, Passed(i), step[i])
  <2>1. step[i] \in 1..8 /\ OldShape(graph, i, Passed(i), step[i])
    BY <1>1, <1>3, TheOldProgram DEF Stage
  <2>2. Passed(i) \subseteq 1..step[i] /\ 1..(step[i] - 1) \subseteq Passed(i)
    BY <2>1 DEF Passed
  <2>3. Program[i][s] \in Repeatable /\ graph' = Execute(graph, i, Program[i][s], c)
    OBVIOUS
  <2> QED
    BY <1>1, <1>3, <2>1, <2>2, <2>3, OldShapeRepeats
<1> QED
  BY <1>2, <1>3

\* A statement of an operation of i, of the current one or an earlier one, is
\* executed without an answer.
LEMMA UnansweredBuilds ==
  ASSUME WellBuilt, IInv, IInv', BuildInv, NEW i \in Instances,
         NEW s \in 1..step[i], NEW op \in Repeatable, op = Program[i][s],
         NEW c, c \subseteq Want(i)[s], graph' = Execute(graph, i, op, c),
         UNCHANGED <<data, step, phase, ids>>, late' \subseteq late,
         \A j \in Instances \ {i} : left'[j] = left[j] /\ err'[j] = err[j],
         DOMAIN (left'[i]) \subseteq DOMAIN (left[i]),
         phase[i] = "running" \/ (left'[i] = left[i] /\ err'[i] = err[i]),
         ~err'[i] => DOMAIN (left'[i]) = DOMAIN (left[i]) /\ ~err[i]
  PROVE  BuildInv'
PROOF
<1>1. IsGraph(graph) /\ IsGraph(graph') /\ step[i] \in Nat \ {0}
  BY DEF IInv, Shapes
<1>2. /\ \A v \in graph'.ordered : v[2] \in Ordered
      /\ Built(i) => Final(graph', i) /\ Counted(graph', i)
      /\ ~Built(i) => Uncounted(graph', i)
  BY <1>1, OwnGraph
<1>3. Position(i)'
  <2>1. CASE phase[i] = "running"
    BY <2>1, FewerLeft
  <2>2. CASE left'[i] = left[i] /\ err'[i] = err[i]
    BY <2>2, PositionSame DEF BuildInv
  <2> QED
    BY <2>1, <2>2
<1>4. Stage(i)'
  <2>1. Built(i)' <=> Built(i)
    BY DEF Built, IsNew
  <2>2. ASSUME ~err'[i] PROVE /\ Progress(i)' = Progress(i) /\ Passed(i)' = Passed(i)
                              /\ Told(i) => Told(i)'
    BY <2>2, SameProgress
  <2>3. ASSUME ~err'[i], IsNew(i) PROVE Told(i)' /\ NewShape(graph', i, Progress(i)', step'[i])
    <3>1. Told(i)
      BY <2>3 DEF BuildInv, Stage
    <3>2. NewShape(graph', i, Progress(i), step[i])
      BY <2>3, RepeatKeepsShape
    <3> QED
      BY <2>2, <2>3, <3>1, <3>2
  <2>4. ASSUME ~err'[i], ~IsNew(i) PROVE OldShape(graph', i, Passed(i)', step'[i])
    <3>1. OldShape(graph', i, Passed(i), step[i])
      BY <2>4, RepeatKeepsShape
    <3> QED
      BY <2>2, <2>4, <3>1
  <2> QED
    BY <1>2, <2>1, <2>3, <2>4, StageAfter
<1>5. ASSUME NEW j \in Instances, j # i PROVE Position(j)' /\ Stage(j)'
  <2>1. s \in 1..Len(Program[i])
    BY <1>1 DEF BuildInv, Position
  <2>2. (IsNew(i) => s \in 1..10) /\ (~IsNew(i) => s \in 1..8)
    BY <2>1, TheNewProgram, TheOldProgram
  <2>3. SameFor(j, graph, graph') /\ OrderGrows(j, graph, graph')
    BY <1>5, <2>2, OtherGraphs
  <2> QED
    BY <1>1, <1>2, <1>5, <2>3, OthersKeep
<1>6. \A r \in late' : Sent(r)'
  <2>1. \A j \in Instances : step'[j] \in Nat /\ step'[j] >= step[j]
    BY DEF IInv, Shapes
  <2> QED
    BY <2>1, SentStays
<1> QED
  BY <1>2, <1>3, <1>4, <1>5, <1>6 DEF BuildInv

LEMMA ExecuteLateBuilds ==
  ASSUME WellBuilt, IInv, IInv', BuildInv, ExecuteLate
  PROVE  BuildInv'
PROOF
<1>1. PICK r \in late : graph' = Execute(graph, r[1], r[2], r[3]) /\ late' = late \ {r}
  BY DEF ExecuteLate
<1>2. UNCHANGED <<data, step, phase, left, err, ids, reader>>
  BY DEF ExecuteLate
<1>3. r[1] \in Instances /\ r[2] \in Repeatable
  BY DEF IInv, OnTheWay, WellBuilt
<1>4. PICK s \in 1..step[r[1]] : r[2] = Program[r[1]][s] /\ r[3] \subseteq Want(r[1])[s]
  BY DEF BuildInv, Sent
<1>5. PICK i \in Instances, op \in Repeatable, c \in {r[3]} : i = r[1] /\ op = r[2]
  BY <1>3
<1>6. /\ s \in 1..step[i] /\ op = Program[i][s] /\ c \subseteq Want(i)[s]
      /\ graph' = Execute(graph, i, op, c)
  BY <1>1, <1>4, <1>5
<1> QED
  BY <1>1, <1>2, <1>6, UnansweredBuilds

LEMMA LoseBuilds ==
  ASSUME WellBuilt, IInv, IInv', BuildInv, NEW i \in Instances, Lose(i)
  PROVE  BuildInv'
PROOF
<1>1. PICK c \in DOMAIN left[i] :
        /\ \/ graph' = Execute(graph, i, Operation(i), c) /\ UNCHANGED late
           \/ late' = late \cup {<<i, Operation(i), c, left[i][c]>>} /\ UNCHANGED graph
           \/ UNCHANGED <<graph, late>>
        /\ \/ left[i][c] > 1 /\ left' = [left EXCEPT ![i][c] = @ - 1] /\ UNCHANGED err
           \/ left' = Settled(i, c) /\ err' = [err EXCEPT ![i] = TRUE]
  BY DEF Lose
<1>2. /\ phase[i] = "running" /\ Operation(i) \in Unreliable
      /\ UNCHANGED <<data, step, phase, ids, reader>>
  BY DEF Lose
<1>3. /\ \A j \in Instances \ {i} : left'[j] = left[j] /\ err'[j] = err[j]
      /\ DOMAIN (left'[i]) \subseteq DOMAIN (left[i])
      /\ ~err'[i] => DOMAIN (left'[i]) = DOMAIN (left[i]) /\ ~err[i]
  <2>1. CASE left' = [left EXCEPT ![i][c] = @ - 1] /\ UNCHANGED err
    BY <2>1 DEF IInv, Shapes
  <2>2. CASE left' = Settled(i, c) /\ err' = [err EXCEPT ![i] = TRUE]
    BY <2>2, OneLess DEF IInv, Shapes
  <2> QED
    BY <1>1, <2>1, <2>2
<1>4. step[i] \in Nat \ {0} /\ c \subseteq Want(i)[step[i]] /\ Operation(i) \in Repeatable
  BY <1>2, WhatIsLeft DEF IInv, Shapes, WellBuilt
<1>5. PICK s \in 1..step[i], op \in Repeatable : s = step[i] /\ op = Operation(i)
  BY <1>4
<1>6. op = Program[i][s] /\ c \subseteq Want(i)[s]
  BY <1>4, <1>5 DEF Operation
<1>7. CASE graph' = Execute(graph, i, Operation(i), c) /\ UNCHANGED late
  <2>1. graph' = Execute(graph, i, op, c) /\ late' \subseteq late
    BY <1>5, <1>7
  <2>2. UNCHANGED <<data, step, phase, ids>> /\ phase[i] = "running"
    BY <1>2
  <2> QED
    BY <1>3, <1>6, <2>1, <2>2, UnansweredBuilds
<1>8. CASE UNCHANGED graph /\ late' \subseteq late \cup {<<i, Operation(i), c, left[i][c]>>}
  <2>1. Position(i)'
    BY <1>2, <1>3, FewerLeft
  <2>2. Stage(i)'
    <3>1. Built(i)' <=> Built(i)
      BY <1>2 DEF Built, IsNew
    <3>2. Stage(i)
      BY DEF BuildInv
    <3>3. ASSUME ~err'[i] PROVE /\ Progress(i)' = Progress(i) /\ Passed(i)' = Passed(i)
                                /\ Told(i) => Told(i)'
      BY <1>2, <1>3, <3>3, SameProgress
    <3>4. ASSUME ~err'[i], IsNew(i) PROVE Told(i)' /\ NewShape(graph', i, Progress(i)', step'[i])
      BY <1>2, <1>3, <1>8, <3>2, <3>3, <3>4 DEF Stage
    <3>5. ASSUME ~err'[i], ~IsNew(i) PROVE OldShape(graph', i, Passed(i)', step'[i])
      BY <1>2, <1>3, <1>8, <3>2, <3>3, <3>5 DEF Stage
    <3>6. /\ Built(i) => Final(graph', i) /\ Counted(graph', i)
          /\ ~Built(i) => Uncounted(graph', i)
      BY <1>8, <3>2 DEF Stage
    <3> QED
      BY <1>2, <3>1, <3>4, <3>5, <3>6, StageAfter
  <2>3. \A r \in late' : Sent(r)'
    <3> SUFFICES ASSUME NEW r \in late' PROVE Sent(r)'
      OBVIOUS
    <3>1. Sent(r)
      <4>1. CASE r \in late
        BY <4>1 DEF BuildInv
      <4>2. CASE r = <<i, Operation(i), c, left[i][c]>>
        <5>1. r[1] = i /\ r[2] = Program[i][s] /\ r[3] \subseteq Want(i)[s]
          BY <1>5, <1>6, <4>2
        <5> QED
          BY <5>1 DEF Sent
      <4> QED
        BY <1>8, <4>1, <4>2
    <3>2. Want(r[1])' = Want(r[1])
      BY <1>2, Frozen
    <3> QED
      BY <1>2, <3>1, <3>2 DEF Sent
  <2> QED
    BY <1>2, <1>3, <1>8, <2>1, <2>2, <2>3, OnlyOne
<1> QED
  BY <1>1, <1>7, <1>8
LEMMA ReturnBuilds ==
  ASSUME WellBuilt, IInv, BuildInv, NEW i \in Instances, Return(i)
  PROVE  BuildInv'
PROOF
<1>1. /\ phase[i] = "running" /\ left[i] = <<>>
      /\ UNCHANGED <<graph, data, left, err, ids, late, reader>>
  BY DEF Return
<1>2. Position(i) /\ Stage(i) /\ DOMAIN left[i] = {}
  BY <1>1 DEF BuildInv
<1>3. /\ step[i] \in 1..Len(Program[i])
      /\ IsNew(i) => Len(Program[i]) = 10 /\ step[i] \in 1..10
      /\ ~IsNew(i) => Len(Program[i]) = 8 /\ step[i] \in 1..8
  BY <1>2, TheNewProgram, TheOldProgram DEF Position
<1>4. Kept(i)' = Kept(i) /\ Want(i)' = Want(i)
  BY <1>1, Frozen
<1>5. \/ /\ phase' = [phase EXCEPT ![i] = "failed"] /\ err[i] /\ UNCHANGED step
      \/ /\ phase' = [phase EXCEPT ![i] = "done"] /\ ~err[i] /\ step[i] = Len(Program[i])
         /\ UNCHANGED step
      \/ /\ phase' = [phase EXCEPT ![i] = "calling"] /\ ~err[i] /\ step[i] # Len(Program[i])
         /\ step' = [step EXCEPT ![i] = @ + 1]
  BY DEF Return
<1>6. \A j \in Instances \ {i} : step'[j] = step[j] /\ phase'[j] = phase[j]
  BY <1>5 DEF IInv, Shapes
<1>7. \A r \in late' : Sent(r)'
  <2>1. \A j \in Instances : step'[j] \in Nat /\ step'[j] >= step[j]
    BY <1>5 DEF IInv, Shapes
  <2> QED
    BY <1>1, <2>1, SentStays
<1>8. CASE phase'[i] = "failed" /\ err[i] /\ UNCHANGED step
  <2>1. Position(i)'
    BY <1>1, <1>2, <1>8 DEF Position
  <2>2. Stage(i)'
    <3>1. Built(i)' <=> Built(i)
      BY <1>8 DEF Built, IsNew
    <3>2. /\ Built(i) => Final(graph', i) /\ Counted(graph', i)
          /\ ~Built(i) => Uncounted(graph', i)
      BY <1>1, <1>2 DEF Stage
    <3> QED
      BY <1>1, <1>8, <3>1, <3>2, StageAfter
  <2> QED
    BY <1>1, <1>6, <1>7, <2>1, <2>2, OnlyOne
<1>9. CASE phase'[i] = "done" /\ ~err[i] /\ step[i] = Len(Program[i]) /\ UNCHANGED step
  <2>1. Position(i)'
    BY <1>1, <1>2, <1>9 DEF Position
  <2>2. /\ Progress(i)' = Progress(i) /\ Passed(i)' = Passed(i) /\ (Told(i) => Told(i)')
    <3>1. \A s : Covered(i, s)' = Covered(i, s)
      BY <1>1, <1>4, <1>9 DEF Covered
    <3>2. Passed(i)' = Passed(i)
      BY <1>1, <1>9 DEF Passed
    <3> QED
      BY <1>1, <1>4, <3>1, <3>2 DEF Progress, Told
  <2>3. Stage(i)'
    <3>1. Built(i)' <=> Built(i)
      BY <1>9 DEF Built, IsNew
    <3>2. /\ Built(i) => Final(graph', i) /\ Counted(graph', i)
          /\ ~Built(i) => Uncounted(graph', i)
      BY <1>1, <1>2 DEF Stage
    <3>3. ASSUME IsNew(i) PROVE Told(i)' /\ NewShape(graph', i, Progress(i)', step'[i])
      BY <1>1, <1>2, <1>9, <2>2, <3>3 DEF Stage
    <3>4. ASSUME ~IsNew(i) PROVE OldShape(graph', i, Passed(i)', step'[i])
      BY <1>1, <1>2, <1>9, <2>2, <3>4 DEF Stage
    <3> QED
      BY <1>1, <3>1, <3>2, <3>3, <3>4, StageAfter
  <2> QED
    BY <1>1, <1>6, <1>7, <2>1, <2>3, OnlyOne
<1>10. CASE phase'[i] = "calling" /\ ~err[i] /\ step[i] # Len(Program[i]) /\ step'[i] = step[i] + 1
  <2>1. Position(i)'
    BY <1>1, <1>3, <1>10 DEF Position
  <2>2. \A s \in 1..10 : Covered(i, s)' = Covered(i, s)
    <3> SUFFICES ASSUME NEW s \in 1..10 PROVE Covered(i, s)' = Covered(i, s)
      OBVIOUS
    <3>1. CASE s < step[i]
      <4>1. step'[i] > s
        BY <1>3, <1>10, <3>1
      <4> QED
        BY <1>4, <3>1, <4>1 DEF Covered
    <3>2. CASE s = step[i]
      <4>1. step'[i] > s /\ ~(step[i] > s)
        BY <1>3, <1>10, <3>2
      <4>2. Covered(i, s)' = Want(i)[s]
        BY <1>4, <4>1 DEF Covered
      <4>3. Covered(i, s) = Want(i)[s] \ UNION {}
        BY <1>1, <1>2, <3>2, <4>1 DEF Covered
      <4> QED
        BY <4>2, <4>3
    <3>3. CASE s > step[i]
      <4>1. ~(step[i] > s) /\ ~(step'[i] > s) /\ step[i] # s
        BY <1>3, <1>10, <3>3
      <4> QED
        BY <1>10, <4>1 DEF Covered
    <3> QED
      BY <1>3, <3>1, <3>2, <3>3
  <2>3. Progress(i)' = Progress(i)
    BY <2>2 DEF Progress
  <2>4. Passed(i)' = Passed(i) /\ Passed(i) = { s \in 1..10 : s <= step[i] }
    BY <1>1, <1>2, <1>3, <1>10 DEF Passed
  <2>5. ASSUME IsNew(i) PROVE /\ Told(i)' /\ NewShape(graph, i, Progress(i), step[i])
                              /\ NewShape(graph', i, Progress(i)', step'[i])
    <3>1. Told(i) /\ NewShape(graph, i, Progress(i), step[i])
      BY <1>2, <1>10, <2>5 DEF Stage
    <3>2. Told(i)'
      BY <1>1, <1>4, <2>2, <2>4, <3>1 DEF Told
    <3>3. step'[i] <= 9 => step[i] <= 9
      BY <1>3, <1>10
    <3>4. \A v \in Progress(i)[9] \cup Progress(i)[10] : v[1] = i
      BY <2>5, ProgressParts, TheNewProgram, InLift
    <3>5. NewShape(graph, i, Progress(i), step'[i])
      BY <3>1, <3>3, <3>4, SameForItself, NewShapeHolds
    <3> QED
      BY <1>1, <2>3, <3>1, <3>2, <3>5
  <2>6. ASSUME ~IsNew(i) PROVE /\ OldShape(graph, i, Passed(i), step[i])
                               /\ OldShape(graph', i, Passed(i)', step'[i])
    <3>1. OldShape(graph, i, Passed(i), step[i])
      BY <1>2, <1>10, <2>6 DEF Stage
    <3>2. step[i] \in Nat /\ step'[i] \in Nat /\ step[i] <= step'[i]
      BY <1>3, <1>10
    <3>3. OldShape(graph, i, Passed(i), step'[i])
      BY <3>1, <3>2, SameForItself, OldShapeHolds
    <3> QED
      BY <1>1, <2>4, <3>1, <3>3
  <2>7. /\ Built(i)' => Final(graph', i) /\ Counted(graph', i)
        /\ ~Built(i)' => Uncounted(graph', i)
    <3>1. CASE Built(i)
      <4>1. Built(i)'
        BY <1>3, <1>10, <3>1 DEF Built, IsNew
      <4> QED
        BY <1>1, <1>2, <3>1, <4>1 DEF Stage
    <3>2. CASE ~Built(i)
      <4>1. Uncounted(graph', i) /\ Counted(graph', i)
        BY <1>1, <1>2, <3>2 DEF Stage, Uncounted, Counted
      <4>2. ASSUME Built(i)' PROVE Final(graph', i)
        <5>1. CASE IsNew(i)
          <6>1. step[i] = 8
            BY <1>3, <1>10, <3>2, <4>2, <5>1 DEF Built, IsNew
          <6>2. /\ Progress(i)[4] = data[i] /\ Progress(i)[5] = Kept(i) \ data[i]
                /\ Progress(i)[6] = Kept(i) /\ Progress(i)[7] = Kept(i)
            <7>1. \A s \in 4..7 : Covered(i, s) = Want(i)[s]
              BY <6>1 DEF Covered
            <7>2. \A s \in 4..7 : Progress(i)[s] = Want(i)[s]
              BY <7>1, ProgressParts
            <7> QED
              BY <5>1, <7>2, TheNewProgram
          <6>3. NewShape(graph, i, Progress(i), step[i]) /\ IsGraph(graph)
            BY <2>5, <5>1 DEF IInv
          <6>4. \A v \in graph.ordered : v[2] \in Ordered
            BY DEF BuildInv
          <6>5. Final(graph, i)
            BY <5>1, <6>2, <6>3, <6>4, NewIsFinal
          <6> QED
            BY <1>1, <6>5
        <5>2. CASE ~IsNew(i)
          <6>1. step[i] = 7
            BY <1>3, <1>10, <3>2, <4>2, <5>2 DEF Built, IsNew
          <6>2. 1..7 \subseteq Passed(i)
            BY <2>4, <6>1
          <6>3. Final(graph, i)
            BY <2>6, <5>2, <6>2, OldIsFinal
          <6> QED
            BY <1>1, <6>3
        <5> QED
          BY <5>1, <5>2
      <4> QED
        BY <4>1, <4>2
    <3> QED
      BY <3>1, <3>2
  <2>8. Stage(i)'
    BY <1>1, <2>5, <2>6, <2>7, StageAfter
  <2> QED
    BY <1>1, <1>6, <1>7, <2>1, <2>8, OnlyOne
<1> QED
  BY <1>5, <1>8, <1>9, <1>10 DEF IInv, Shapes

LEMMA ElseBuilds ==
  ASSUME WellBuilt, IInv, BuildInv, UNCHANGED <<graph, data, step, phase, left, err, ids, late>>
  PROVE  BuildInv'
PROOF
<1>1. ASSUME NEW j \in Instances PROVE Position(j)' /\ Stage(j)'
  <2>1. SameFor(j, graph, graph') /\ OrderGrows(j, graph, graph')
    BY SameForItself
  <2>2. IsGraph(graph') /\ \A v \in graph'.ordered : v[2] \in Ordered
    BY DEF IInv, BuildInv
  <2> QED
    BY <2>1, <2>2, OthersKeep
<1>2. \A r \in late' : Sent(r)'
  <2>1. \A j \in Instances : step'[j] \in Nat /\ step'[j] >= step[j]
    BY DEF IInv, Shapes
  <2> QED
    BY <2>1, SentStays
<1> QED
  BY <1>1, <1>2 DEF BuildInv

LEMMA BuildStep ==
  ASSUME WellBuilt, IInv, IInv', BuildInv, [Next]_vars
  PROVE  BuildInv'
PROOF
<1>1. ASSUME NEW i \in Instances, Builder(i) PROVE BuildInv'
  BY <1>1, CallBuilds, AnswerBuilds, RefuseBuilds, LoseBuilds, ReturnBuilds DEF Builder
<1>2. CASE ExecuteLate
  BY <1>2, ExecuteLateBuilds
<1>3. CASE Reader
  <2>1. UNCHANGED <<graph, data, step, phase, left, err, ids, late>>
    BY <1>3 DEF Reader, BeginRead, ReadOrder, ReadTheChildren, ReadBreadcrumbs, EndRead
  <2> QED
    BY <2>1, ElseBuilds
<1>4. CASE Finished \/ UNCHANGED vars
  <2>1. UNCHANGED <<graph, data, step, phase, left, err, ids, late>>
    BY <1>4 DEF Finished, vars
  <2> QED
    BY <2>1, ElseBuilds
<1> QED
  BY <1>1, <1>2, <1>3, <1>4 DEF Next

LEMMA AlwaysBuilding ==
  ASSUME WellBuilt
  PROVE  Spec => []BuildInv
PROOF
<1>1. Init => BuildInv
  BY BuildInit
<1>2. IInv /\ IInv' /\ BuildInv /\ [Next]_vars => BuildInv'
  BY BuildStep
<1> QED
  BY <1>1, <1>2, Inductive, PTL DEF Spec
------------------------------------------------------------------------------
(* A finished hierarchy.                                                   *)

\* What Final and Counted leave open, once the build has ended well.
Ready(i) ==
  /\ Built(i) /\ Final(graph, i) /\ Counted(graph, i)
  /\ Lift(i, Kept(i)) \subseteq DOMAIN graph.children
  /\ Of(i, graph.cloneOf) = {}

LEMMA DoneIsReady ==
  ASSUME WellBuilt, IInv, BuildInv, NEW i \in Instances, Done(i)
  PROVE  Ready(i)
PROOF
<1>1. Position(i) /\ Stage(i)
  BY DEF BuildInv
<1>2. ~err[i] /\ step[i] = Len(Program[i]) /\ DOMAIN left[i] = {} /\ phase[i] = "done"
  BY <1>1 DEF Position, Done
<1>3. IsGraph(graph)
  BY DEF IInv
<1>4. CASE IsNew(i)
  <2>1. step[i] = 10
    BY <1>2, <1>4, TheNewProgram
  <2>2. Built(i)
    BY <2>1, <1>4 DEF Built
  <2>3. Final(graph, i) /\ Counted(graph, i)
    BY <2>2, <1>1 DEF Stage
  <2>4. NewShape(graph, i, Progress(i), 10)
    BY <1>1, <1>2, <1>4, <2>1 DEF Stage
  <2>5. Want(i)[9] = Lift(i, Kept(i)) /\ Want(i)[10] = Lift(i, Kept(i))
    BY <1>4 DEF Want
  <2>6. Covered(i, 9) = Lift(i, Kept(i))
    BY <2>1, <2>5 DEF Covered
  <2>7. Covered(i, 10) = Lift(i, Kept(i))
    BY <2>1, <2>5, <1>2 DEF Covered
  <2>8. Progress(i)[9] = Lift(i, Kept(i)) /\ Progress(i)[10] = Lift(i, Kept(i))
    BY <2>6, <2>7, ProgressParts
  <2>9. graph.cloneOf \cap Lift(i, Kept(i)) = {} /\ Lift(i, Kept(i)) \subseteq DOMAIN graph.children
    BY <2>4, <2>8 DEF NewShape
  <2>10. Of(i, graph.cloneOf) \subseteq Of(i, graph.vertices)
    BY <1>3, PartsOfGraph DEF Of
  <2>11. Of(i, graph.cloneOf) \subseteq Lift(i, Kept(i))
    BY <2>10, <2>3 DEF Final
  <2>12. Of(i, graph.cloneOf) = {}
    BY <2>9, <2>11 DEF Of
  <2> QED
    BY <2>2, <2>3, <2>9, <2>12 DEF Ready
<1>5. CASE ~IsNew(i)
  <2>1. step[i] = 8
    BY <1>2, <1>5, TheOldProgram
  <2>2. Built(i)
    BY <2>1, <1>5 DEF Built
  <2>3. Final(graph, i) /\ Counted(graph, i)
    BY <2>2, <1>1 DEF Stage
  <2>4. OldShape(graph, i, Passed(i), 8)
    BY <1>1, <1>2, <1>5, <2>1 DEF Stage
  <2>5. 8 \in Passed(i)
    BY <1>2, <2>1 DEF Passed
  <2>6. Lift(i, Kept(i)) \subseteq DOMAIN graph.children
    BY <2>4, <2>5 DEF OldShape
  <2>7. Of(i, graph.cloneOf) = {}
    BY <2>3, <1>5 DEF Final
  <2> QED
    BY <2>2, <2>3, <2>6, <2>7 DEF Ready
<1> QED
  BY <1>4, <1>5

\* The vertices and the edges of i, found the way the queries find them.
LEMMA PartsOfFinal ==
  ASSUME NEW g, IsGraph(g), NEW i, Final(g, i)
  PROVE  /\ OfInstance(g, i) = Lift(i, Kept(i))
         /\ { e \in g.edges : e[1] \in OfInstance(g, i) } = LiftEdges(i, KeptEdges(i))
         /\ { e \in g.edges : e[2] \in OfInstance(g, i) } = LiftEdges(i, KeptEdges(i))
         /\ OfInstance(g, i) \cap g.hasData = Lift(i, data[i])
         /\ OfInstance(g, i) \cap g.remain = {}
         /\ OfInstance(g, i) \cap g.ordered = Of(i, g.ordered)
         /\ OfInstance(g, i) \cap g.cloneOf = Of(i, g.cloneOf)
PROOF
<1>1. OfInstance(g, i) = Of(i, g.vertices)
  BY DEF OfInstance, Of
<1>2. \A e \in g.edges : e[1] \in g.vertices /\ e[2] \in g.vertices /\ e[1][1] = e[2][1]
  BY PartsOfGraph
<1>3. { e \in g.edges : e[1] \in OfInstance(g, i) } = EdgesOf(i, g.edges)
  BY <1>2 DEF OfInstance, EdgesOf
<1>4. { e \in g.edges : e[2] \in OfInstance(g, i) } = EdgesOf(i, g.edges)
  BY <1>2 DEF OfInstance, EdgesOf
<1>5. \A S \in {g.hasData, g.remain, g.ordered, g.cloneOf} : OfInstance(g, i) \cap S = Of(i, S)
  <2>1. \A S \in {g.hasData, g.remain, g.ordered, g.cloneOf} : S \subseteq g.vertices
    BY PartsOfGraph
  <2> QED
    BY <2>1 DEF OfInstance, Of
<1> QED
  BY <1>1, <1>3, <1>4, <1>5 DEF Final

LEMMA CodesOfEdges ==
  ASSUME NEW i, NEW R, R \subseteq Parent
  PROVE  { <<e[1][2], e[2][2]>> : e \in LiftEdges(i, R) } = R
PROOF
<1> DEFINE C == { <<e[1][2], e[2][2]>> : e \in LiftEdges(i, R) }
<1>1. C \subseteq R
  BY InLiftEdges
<1>2. ASSUME NEW r \in R PROVE r \in C
  <2> DEFINE e == <<<<i, r[1], 1>>, <<i, r[2], 1>>, 1>>
  <2>1. e \in LiftEdges(i, R)
    BY DEF LiftEdges
  <2>2. <<e[1][2], e[2][2]>> = r
    BY GenericAssumption
  <2> QED
    BY <2>1, <2>2
<1> QED
  BY <1>1, <1>2

LEMMA CodesOfLift ==
  ASSUME NEW i, NEW N, NEW S, S = Lift(i, N)
  PROVE  { v[2] : v \in S } = N
BY LiftOfUnion

LEMMA SizeOfLift ==
  ASSUME NEW i, NEW N, IsFiniteSet(N)
  PROVE  Cardinality(Lift(i, N)) = Cardinality(N)
PROOF
<1> DEFINE f == [n \in N |-> <<i, n, 1>>]
<1>1. DOMAIN f = N /\ \A x, y \in N : f[x] = f[y] => x = y
  OBVIOUS
<1>2. Cardinality({ f[n] : n \in N }) = Cardinality(N)
  <2> HIDE DEF f
  <2> QED
    BY <1>1, SameSize
<1>3. { f[n] : n \in N } = Lift(i, N)
  BY DEF Lift
<1> QED
  BY <1>2, <1>3

LEMMA SizeOfLiftEdges ==
  ASSUME NEW i, NEW R, R \subseteq Parent, IsFiniteSet(R)
  PROVE  Cardinality(LiftEdges(i, R)) = Cardinality(R)
PROOF
<1> DEFINE f == [r \in R |-> <<<<i, r[1], 1>>, <<i, r[2], 1>>, 1>>]
<1>1. DOMAIN f = R
  OBVIOUS
<1>2. ASSUME NEW x \in R, NEW y \in R, f[x] = f[y] PROVE x = y
  <2>1. x[1] = y[1] /\ x[2] = y[2]
    BY <1>2
  <2>2. x = <<x[1], x[2]>> /\ y = <<y[1], y[2]>>
    BY GenericAssumption
  <2> QED
    BY <2>1, <2>2
<1>3. Cardinality({ f[r] : r \in R }) = Cardinality(R)
  <2> HIDE DEF f
  <2> QED
    BY <1>1, <1>2, SameSize
<1>4. { f[r] : r \in R } = LiftEdges(i, R)
  BY DEF LiftEdges
<1> QED
  BY <1>3, <1>4

LEMMA ReadyIsComplete ==
  ASSUME WellBuilt, IInv, BuildInv
  PROVE  HierarchyIsComplete
PROOF
<1> SUFFICES ASSUME NEW i \in Instances, Done(i)
             PROVE  LET V == OfInstance(graph, i)
                        E == { e \in graph.edges : e[1] \in V }
                        codes(W) == { v[2] : v \in V \cap W }
                    IN  /\ codes(V) = Kept(i)
                        /\ Cardinality(V) = Cardinality(Kept(i))
                        /\ { <<e[1][2], e[2][2]>> : e \in E } = Parent \cap (Kept(i) \X Kept(i))
                        /\ Cardinality(E) = Cardinality(Parent \cap (Kept(i) \X Kept(i)))
                        /\ codes(graph.hasData) = data[i]
                        /\ i \in Sorted => codes(graph.ordered) = Kept(i) \cap Ordered
                        /\ V \cap (graph.cloneOf \cup graph.remain) = {}
  BY DEF HierarchyIsComplete
<1> DEFINE V == OfInstance(graph, i)
           E == { e \in graph.edges : e[1] \in V }
<1>1. IsGraph(graph) /\ Ready(i)
  BY DoneIsReady DEF IInv
<1>2. Final(graph, i) /\ Of(i, graph.cloneOf) = {}
  BY <1>1 DEF Ready
<1>3. /\ V = Lift(i, Kept(i)) /\ E = LiftEdges(i, KeptEdges(i))
      /\ V \cap graph.hasData = Lift(i, data[i]) /\ V \cap graph.remain = {}
      /\ V \cap graph.ordered = Of(i, graph.ordered) /\ V \cap graph.cloneOf = {}
  BY <1>1, <1>2, PartsOfFinal
<1>4. KeptEdges(i) = Parent \cap (Kept(i) \X Kept(i)) /\ KeptEdges(i) \subseteq Parent
  BY KeptIsClosed
<1>5. IsFiniteSet(Kept(i)) /\ IsFiniteSet(KeptEdges(i))
  <2>1. IsFiniteSet(Parent)
    <3>1. IsFiniteSet(Nodes \X Nodes)
      BY GenericAssumption, FS_Product
    <3> QED
      BY <3>1, FS_Subset, GenericAssumption
  <2> QED
    BY <2>1, <1>4, FS_Subset, KeptAreNodes
<1>6. { v[2] : v \in V \cap V } = Kept(i) /\ Cardinality(V) = Cardinality(Kept(i))
  <2>1. V \cap V = Lift(i, Kept(i))
    BY <1>3
  <2> HIDE DEF V
  <2> QED
    BY <1>3, <1>5, <2>1, CodesOfLift, SizeOfLift
<1>7. { <<e[1][2], e[2][2]>> : e \in E } = KeptEdges(i) /\ Cardinality(E) = Cardinality(KeptEdges(i))
  <2> HIDE DEF E
  <2> QED
    BY <1>3, <1>4, <1>5, CodesOfEdges, SizeOfLiftEdges
<1>8. { v[2] : v \in V \cap graph.hasData } = data[i]
  BY <1>3, CodesOfLift
<1>9. i \in Sorted => { v[2] : v \in V \cap graph.ordered } = Kept(i) \cap Ordered
  <2> SUFFICES ASSUME i \in Sorted PROVE { v[2] : v \in V \cap graph.ordered } = Kept(i) \cap Ordered
    OBVIOUS
  <2>1. IsNew(i)
    BY WhoSorts
  <2>2. V \cap graph.ordered = Lift(i, Kept(i) \cap Ordered)
    BY <1>2, <1>3, <2>1 DEF Final
  <2> QED
    BY <2>2, CodesOfLift
<1>10. V \cap (graph.cloneOf \cup graph.remain) = {}
  BY <1>3
<1> HIDE DEF V, E
<1> QED
  BY <1>4, <1>6, <1>7, <1>8, <1>9, <1>10 DEF V, E

\* Builders that follow either program finish complete hierarchies.
THEOREM FinishedHierarchiesAreComplete ==
  ASSUME WellBuilt
  PROVE  Spec => []HierarchyIsComplete
PROOF
<1>1. IInv /\ BuildInv => HierarchyIsComplete
  BY ReadyIsComplete
<1> QED
  BY <1>1, Inductive, AlwaysBuilding, PTL
------------------------------------------------------------------------------
(* From the counts on, a hierarchy is what it will be: whatever the        *)
(* builders do, its order stays, and no vertex loses its count.            *)

\* A step leaves the graph alone or executes a statement some builder has sent.
LEMMA WhatAStepExecutes ==
  ASSUME WellBuilt, IInv, BuildInv, [Next]_vars
  PROVE  /\ UNCHANGED data
         /\ \A j \in Instances : step'[j] >= step[j]
         /\ \/ UNCHANGED graph
            \/ \E j \in Instances : \E s \in 1..step[j] : \E c \in SUBSET (Want(j)[s]) :
                 /\ s = step[j] \/ Program[j][s] \in Repeatable
                 /\ graph' = Execute(graph, j, Program[j][s], c)
PROOF
<1> DEFINE Executed == \E j \in Instances : \E s \in 1..step[j] : \E c \in SUBSET (Want(j)[s]) :
                         /\ s = step[j] \/ Program[j][s] \in Repeatable
                         /\ graph' = Execute(graph, j, Program[j][s], c)
<1>1. UNCHANGED data
  BY DEF Next, Builder, Call, Answer, Refuse, Lose, Return, ExecuteLate, Reader, BeginRead,
         ReadOrder, ReadTheChildren, ReadBreadcrumbs, EndRead, Finished, vars
<1>2. step \in [Instances -> Nat \ {0}]
  BY DEF IInv, Shapes
<1>3. \A j \in Instances : step'[j] >= step[j]
  <2>1. CASE \E i \in Instances : Return(i)
    <3>1. PICK i \in Instances : Return(i)
      BY <2>1
    <3>2. step' = step \/ step' = [step EXCEPT ![i] = @ + 1]
      BY <3>1 DEF Return
    <3> QED
      BY <1>2, <3>2
  <2>2. CASE ~ \E i \in Instances : Return(i)
    <3>1. step' = step
      BY <2>2 DEF Next, Builder, Call, Answer, Refuse, Lose, ExecuteLate, Reader, BeginRead,
             ReadOrder, ReadTheChildren, ReadBreadcrumbs, EndRead, Finished, vars
    <3> QED
      BY <1>2, <3>1
  <2> QED
    BY <2>1, <2>2
<1>4. ASSUME NEW i \in Instances, phase[i] = "running", NEW c \in DOMAIN left[i],
             graph' = Execute(graph, i, Operation(i), c)
      PROVE  Executed
  <2>1. c \in SUBSET (Want(i)[step[i]])
    BY <1>4, WhatIsLeft
  <2>2. step[i] \in 1..step[i]
    BY <1>2
  <2> QED
    BY <1>4, <2>1, <2>2 DEF Operation
<1>5. ASSUME NEW r \in late, graph' = Execute(graph, r[1], r[2], r[3]) PROVE Executed
  <2>1. r[1] \in Instances /\ r[2] \in Repeatable
    BY DEF IInv, OnTheWay, WellBuilt
  <2>2. PICK s \in 1..step[r[1]] : r[2] = Program[r[1]][s] /\ r[3] \subseteq Want(r[1])[s]
    BY DEF BuildInv, Sent
  <2>3. r[3] \in SUBSET (Want(r[1])[s]) /\ Program[r[1]][s] \in Repeatable
    BY <2>1, <2>2
  <2>4. graph' = Execute(graph, r[1], Program[r[1]][s], r[3])
    BY <1>5, <2>2
  <2> QED
    BY <2>1, <2>2, <2>3, <2>4
<1> HIDE DEF Executed
<1>6. UNCHANGED graph \/ Executed
  <2>1. ASSUME NEW i \in Instances, Answer(i) PROVE Executed
    BY <1>4, <2>1 DEF Answer
  <2>2. ASSUME NEW i \in Instances, Lose(i) PROVE UNCHANGED graph \/ Executed
    BY <1>4, <2>2 DEF Lose
  <2>3. ExecuteLate => Executed
    BY <1>5 DEF ExecuteLate
  <2>4. CASE \E i \in Instances : Call(i) \/ Refuse(i) \/ Return(i)
    BY <2>4 DEF Call, Refuse, Return
  <2>5. CASE Reader \/ Finished \/ UNCHANGED vars
    BY <2>5 DEF Reader, BeginRead, ReadOrder, ReadTheChildren, ReadBreadcrumbs, EndRead, Finished, vars
  <2> QED
    BY <2>1, <2>2, <2>3, <2>4, <2>5 DEF Next, Builder
<1> QED
  BY <1>1, <1>3, <1>6 DEF Executed

LEMMA BuiltStays ==
  ASSUME WellBuilt, IInv, IInv', BuildInv, BuildInv', [Next]_vars, NEW i \in Instances, Built(i)
  PROVE  /\ Built(i)'
         /\ Of(i, graph'.ordered) = Of(i, graph.ordered)
         /\ Of(i, DOMAIN graph.children) \subseteq DOMAIN graph'.children
PROOF
<1>1. /\ UNCHANGED data
      /\ \A j \in Instances : step'[j] >= step[j]
      /\ \/ UNCHANGED graph
         \/ \E j \in Instances : \E s \in 1..step[j] : \E c \in SUBSET (Want(j)[s]) :
              /\ s = step[j] \/ Program[j][s] \in Repeatable
              /\ graph' = Execute(graph, j, Program[j][s], c)
  BY WhatAStepExecutes
<1>2. step[i] \in Nat /\ step'[i] \in Nat
  BY DEF IInv, Shapes
<1>3. Built(i)'
  <2>1. step'[i] >= step[i]
    BY <1>1
  <2>2. CASE IsNew(i)
    BY <1>2, <2>1, <2>2 DEF Built, IsNew
  <2>3. CASE ~IsNew(i)
    BY <1>2, <2>1, <2>3 DEF Built, IsNew
  <2> QED
    BY <2>2, <2>3
<1>4. /\ IsGraph(graph) /\ IsGraph(graph') /\ Final(graph, i) /\ Counted(graph, i)
      /\ \A v \in graph'.ordered : v[2] \in Ordered
  BY DEF IInv, BuildInv, Stage
<1>5. CASE UNCHANGED graph
  BY <1>3, <1>5 DEF Of
<1>6. CASE ~UNCHANGED graph
  <2>1. PICK j \in Instances : \E s \in 1..step[j] : \E c \in SUBSET (Want(j)[s]) :
              /\ s = step[j] \/ Program[j][s] \in Repeatable
              /\ graph' = Execute(graph, j, Program[j][s], c)
    BY <1>1, <1>6
  <2>2. PICK s \in 1..step[j] : \E c \in SUBSET (Want(j)[s]) :
              /\ s = step[j] \/ Program[j][s] \in Repeatable
              /\ graph' = Execute(graph, j, Program[j][s], c)
    BY <2>1
  <2>3. PICK c \in SUBSET (Want(j)[s]) : /\ s = step[j] \/ Program[j][s] \in Repeatable
                                         /\ graph' = Execute(graph, j, Program[j][s], c)
    BY <2>2
  <2>4. PICK op \in {Program[j][s]} : op = Program[j][s]
    OBVIOUS
  <2>5. graph' = Execute(graph, j, op, c) /\ (s = step[j] \/ op \in Repeatable)
    BY <2>3, <2>4
  <2>6. CASE j = i
    <3>1. op \in Repeatable
      BY <2>4, <2>5, <2>6, BuiltRepeats
    <3> QED
      BY <1>3, <1>4, <2>5, <2>6, <3>1, FinalRepeats
  <2>7. CASE j # i
    <3>1. step[j] \in 1..Len(Program[j]) /\ step[j] \in Nat
      BY DEF BuildInv, Position
    <3>2. s \in 1..Len(Program[j])
      BY <3>1
    <3>3. (IsNew(j) => s \in 1..10) /\ (~IsNew(j) => s \in 1..8)
      BY <3>2, TheNewProgram, TheOldProgram
    <3>4. SameFor(i, graph, graph') /\ OrderGrows(i, graph, graph')
      BY <2>3, <2>4, <2>5, <2>7, <3>3, OtherGraphs
    <3> QED
      BY <1>3, <1>4, <3>4, FinalHolds
  <2> QED
    BY <2>6, <2>7
<1> QED
  BY <1>5, <1>6
------------------------------------------------------------------------------
(* What is read of a hierarchy that is final and counted.                  *)

LEMMA SameOfFinal ==
  ASSUME NEW g, NEW i, Final(g, i), NEW n \in Kept(i)
  PROVE  Same(g, i, n) = {<<i, n, 1>>} /\ Same(g, i, n) = Lift(i, {n})
PROOF
<1>1. OfInstance(g, i) = Lift(i, Kept(i))
  BY DEF Final, OfInstance, Of
<1>2. ASSUME NEW v PROVE v \in Same(g, i, n) <=> v = <<i, n, 1>>
  BY <1>1, InLift DEF Same
<1>3. Same(g, i, n) = {<<i, n, 1>>}
  BY <1>2
<1> QED
  BY <1>3 DEF Lift

LEMMA FinalElements ==
  ASSUME WellBuilt, NEW i \in Instances, Final(graph, i), Counted(graph, i),
         NEW n \in Kept(i), Convertible(graph, <<i, n, 1>>)
  PROVE  Element(graph, <<i, n, 1>>) = FinalElement(i, n)
PROOF
<1> DEFINE v == <<i, n, 1>>
<1>1. v \in DOMAIN graph.children /\ v[1] = i /\ v[2] = n
  BY DEF Convertible
<1>2. graph.children[v] = Below(i, n)
  BY <1>1 DEF Counted
<1>3. v \in graph.hasData <=> n \in data[i]
  <2>1. Of(i, graph.hasData) = Lift(i, data[i])
    BY DEF Final
  <2>2. v \in Of(i, graph.hasData) <=> v \in graph.hasData
    BY <1>1 DEF Of
  <2>3. v \in Lift(i, data[i]) <=> n \in data[i]
    BY InLift
  <2> QED
    BY <2>1, <2>2, <2>3
<1>4. i \in Sorted => (v \in graph.ordered <=> n \in Ordered)
  <2> SUFFICES ASSUME i \in Sorted PROVE v \in graph.ordered <=> n \in Ordered
    OBVIOUS
  <2>1. Of(i, graph.ordered) = Lift(i, Kept(i) \cap Ordered)
    BY WhoSorts DEF Final
  <2>2. v \in Of(i, graph.ordered) <=> v \in graph.ordered
    BY <1>1 DEF Of
  <2>3. v \in Lift(i, Kept(i) \cap Ordered) <=> n \in Ordered
    BY InLift
  <2> QED
    BY <2>1, <2>2, <2>3
<1>5. v \in graph.ordered <=> Same(graph, i, n) \cap graph.ordered # {}
  <2>1. Same(graph, i, n) = {v}
    BY SameOfFinal
  <2> HIDE DEF v
  <2> QED
    BY <2>1
<1>6. FinalElement(i, n) =
        [ id |-> n, noOfChildren |-> Below(i, n), hasData |-> v \in graph.hasData,
          ordered |-> v \in graph.ordered ]
  <2>1. (n \in data[i]) = (v \in graph.hasData)
    BY <1>3
  <2>2. (IF i \in Sorted THEN n \in Ordered ELSE Same(graph, i, n) \cap graph.ordered # {})
          = (v \in graph.ordered)
    BY <1>4, <1>5
  <2> HIDE DEF v
  <2> QED
    BY <2>1, <2>2 DEF FinalElement, Below
<1>7. Element(graph, v) =
        [ id |-> n, noOfChildren |-> Below(i, n), hasData |-> v \in graph.hasData,
          ordered |-> v \in graph.ordered ]
  BY <1>1, <1>2 DEF Element
<1> QED
  BY <1>6, <1>7

\* What a read gets of the children of a node.
ShownChildren(i, n) ==
  { <<FinalElement(i, c), 1, 1>> : c \in { k \in Kept(i) : <<k, n>> \in Parent } }

ShownBreadcrumbs(i, n) == { FinalElement(i, a) : a \in Ancestors(Parent, {n}) }

LEMMA FinalChildEdges ==
  ASSUME IInv, NEW i \in Instances, Final(graph, i), NEW n \in Kept(i)
  PROVE  /\ \A c \in Kept(i) : <<c, n>> \in Parent =>
              <<<<i, c, 1>>, <<i, n, 1>>, 1>> \in ChildEdges(graph, i, n)
         /\ \A e \in ChildEdges(graph, i, n) :
              /\ e = <<<<i, e[1][2], 1>>, <<i, n, 1>>, 1>>
              /\ e[1][2] \in Kept(i) /\ <<e[1][2], n>> \in Parent
PROOF
<1>1. EdgesOf(i, graph.edges) = LiftEdges(i, KeptEdges(i)) /\ KeptEdges(i) \subseteq Parent
  BY DEF Final, KeptEdges
<1>2. Same(graph, i, n) = {<<i, n, 1>>}
  BY SameOfFinal
<1>3. ASSUME NEW c \in Kept(i), <<c, n>> \in Parent
      PROVE  <<<<i, c, 1>>, <<i, n, 1>>, 1>> \in ChildEdges(graph, i, n)
  <2> DEFINE e == <<<<i, c, 1>>, <<i, n, 1>>, 1>>
  <2>1. <<c, n>> \in KeptEdges(i)
    BY <1>3 DEF KeptEdges
  <2>2. e \in LiftEdges(i, KeptEdges(i))
    BY <1>1, <2>1, InLiftEdges
  <2>3. e \in graph.edges
    BY <1>1, <2>2 DEF EdgesOf
  <2> QED
    BY <1>2, <2>3 DEF ChildEdges
<1>4. ASSUME NEW e \in ChildEdges(graph, i, n)
      PROVE  /\ e = <<<<i, e[1][2], 1>>, <<i, n, 1>>, 1>>
             /\ e[1][2] \in Kept(i) /\ <<e[1][2], n>> \in Parent
  <2>1. e \in graph.edges /\ e[2] = <<i, n, 1>>
    BY <1>2 DEF ChildEdges
  <2>2. e[1][1] = i
    BY <2>1, PartsOfGraph DEF IInv
  <2>3. e \in LiftEdges(i, KeptEdges(i))
    BY <1>1, <2>1, <2>2 DEF EdgesOf
  <2>4. e = <<<<i, e[1][2], 1>>, <<i, e[2][2], 1>>, 1>> /\ <<e[1][2], e[2][2]>> \in KeptEdges(i)
    BY <1>1, <2>3, InLiftEdges
  <2> QED
    BY <2>1, <2>4 DEF KeptEdges
<1> QED
  BY <1>3, <1>4

LEMMA FinalChildren ==
  ASSUME WellBuilt, IInv, NEW i \in Instances, Final(graph, i), Counted(graph, i),
         NEW n \in Kept(i), \A e \in ChildEdges(graph, i, n) : Convertible(graph, e[1])
  PROVE  { <<Element(graph, e[1]), e[1][3], e[3]>> : e \in ChildEdges(graph, i, n) }
           = ShownChildren(i, n)
PROOF
<1> DEFINE D == ChildEdges(graph, i, n)
           S == { k \in Kept(i) : <<k, n>> \in Parent }
           shown(e) == <<Element(graph, e[1]), e[1][3], e[3]>>
<1>1. ASSUME NEW e \in D PROVE e[1][2] \in S /\ shown(e) = <<FinalElement(i, e[1][2]), 1, 1>>
  <2>1. /\ e = <<<<i, e[1][2], 1>>, <<i, n, 1>>, 1>>
        /\ e[1][2] \in Kept(i) /\ <<e[1][2], n>> \in Parent
    BY FinalChildEdges
  <2>2. e[1] = <<i, e[1][2], 1>> /\ e[1][3] = 1 /\ e[3] = 1
    BY <2>1
  <2>3. Element(graph, <<i, e[1][2], 1>>) = FinalElement(i, e[1][2])
    BY <2>1, <2>2, FinalElements
  <2>4. Element(graph, e[1]) = FinalElement(i, e[1][2])
    BY <2>2, <2>3
  <2> QED
    BY <2>1, <2>2, <2>4
<1>2. ASSUME NEW c \in S PROVE \E e \in D : e[1][2] = c
  <2>1. <<<<i, c, 1>>, <<i, n, 1>>, 1>> \in D
    BY FinalChildEdges
  <2> QED
    BY <2>1
<1> HIDE DEF D, S, shown
<1>3. { shown(e) : e \in D } = { <<FinalElement(i, c), 1, 1>> : c \in S }
  <2>1. ASSUME NEW c \in S PROVE <<FinalElement(i, c), 1, 1>> \in { shown(e) : e \in D }
    BY <1>1, <1>2
  <2>2. ASSUME NEW e \in D PROVE shown(e) \in { <<FinalElement(i, c), 1, 1>> : c \in S }
    BY <1>1
  <2> QED
    BY <2>1, <2>2
<1> QED
  BY <1>3 DEF D, S, shown, ShownChildren

LEMMA FinalBreadcrumbs ==
  ASSUME WellBuilt, IInv, NEW i \in Instances, Final(graph, i), Counted(graph, i), NEW n \in Kept(i)
  PROVE  /\ Ancestors(graph.edges, Same(graph, i, n)) = Lift(i, Ancestors(Parent, {n}))
         /\ Ancestors(Parent, {n}) \subseteq Kept(i)
         /\ (\A v \in Lift(i, Ancestors(Parent, {n})) : Convertible(graph, v)) =>
              { Element(graph, v) : v \in Lift(i, Ancestors(Parent, {n})) } = ShownBreadcrumbs(i, n)
PROOF
<1> DEFINE A == Ancestors(Parent, {n})
<1>1. EdgesOf(i, graph.edges) = LiftEdges(i, KeptEdges(i)) /\ KeptEdges(i) \subseteq Parent
  BY DEF Final, KeptEdges
<1>2. \A r \in Parent : r[1] \in Kept(i) => r[2] \in Kept(i)
  BY KeptIsClosed
<1>3. Ancestors(KeptEdges(i), {n}) = A /\ A \subseteq Kept(i)
  BY <1>2, AncestorsWithin DEF KeptEdges
<1>4. Ancestors(graph.edges, Lift(i, {n})) = Lift(i, A)
  BY <1>1, <1>3, AncestorsOfLift
<1>5. Same(graph, i, n) = Lift(i, {n})
  BY SameOfFinal
<1>6. ASSUME \A v \in Lift(i, A) : Convertible(graph, v)
      PROVE  { Element(graph, v) : v \in Lift(i, A) } = ShownBreadcrumbs(i, n)
  <2>1. ASSUME NEW a \in A
        PROVE  <<i, a, 1>> \in Lift(i, A) /\ Element(graph, <<i, a, 1>>) = FinalElement(i, a)
    BY <1>3, <1>6, FinalElements DEF Lift
  <2>2. ASSUME NEW v \in Lift(i, A) PROVE v[2] \in A /\ v = <<i, v[2], 1>>
    BY InLift
  <2> HIDE DEF A
  <2>3. ASSUME NEW v \in Lift(i, A) PROVE Element(graph, v) \in { FinalElement(i, a) : a \in A }
    <3>1. Element(graph, v) = FinalElement(i, v[2])
      BY <2>1, <2>2
    <3> QED
      BY <2>2, <3>1
  <2>4. ASSUME NEW a \in A PROVE FinalElement(i, a) \in { Element(graph, v) : v \in Lift(i, A) }
    <3>1. Element(graph, <<i, a, 1>>) \in { Element(graph, v) : v \in Lift(i, A) }
      BY <2>1
    <3> QED
      BY <2>1, <3>1
  <2>5. { Element(graph, v) : v \in Lift(i, A) } = { FinalElement(i, a) : a \in A }
    BY <2>3, <2>4
  <2> QED
    BY <2>5 DEF ShownBreadcrumbs, A
<1> QED
  BY <1>3, <1>4, <1>5, <1>6
------------------------------------------------------------------------------
(* What a read has got so far is what the finished hierarchy will show.    *)

ReadSoFar(r, i, n) ==
  /\ Built(i) /\ n \in Kept(i) /\ r.breadcrumbs \in BOOLEAN
  /\ r.answer = [ status |-> "ok", element |-> FinalElement(i, n), children |-> r.answer.children,
                  breadcrumbs |-> r.answer.breadcrumbs ]
  /\ r.at \in {"order", "children"} => r.answer.children = {}
  /\ r.at \in {"breadcrumbs", "answered"} => r.answer.children = ShownChildren(i, n)
  /\ r.at = "breadcrumbs" => r.breadcrumbs
  /\ ~(r.at = "answered" /\ r.breadcrumbs) => r.answer.breadcrumbs = {}
  /\ r.at = "answered" /\ r.breadcrumbs => r.answer.breadcrumbs = ShownBreadcrumbs(i, n)

ReadInv == reader.at # "none" => ReadSoFar(reader, reader.of, reader.answer.element.id)

LEMMA ReadIsFinal ==
  ASSUME ReadInv
  PROVE  ReadsAreFinal
PROOF
<1> SUFFICES ASSUME reader.at = "answered"
             PROVE  LET n == reader.answer.element.id
                    IN  /\ n \in Kept(reader.of)
                        /\ reader.answer = FinalNode(reader.of, n, reader.breadcrumbs)
  BY DEF ReadsAreFinal
<1> DEFINE i == reader.of
           n == reader.answer.element.id
<1>1. ReadSoFar(reader, i, n)
  BY DEF ReadInv
<1>2. n \in Kept(i)
  BY <1>1 DEF ReadSoFar
<1>3. /\ reader.answer = [ status |-> "ok", element |-> FinalElement(i, n),
                           children |-> reader.answer.children,
                           breadcrumbs |-> reader.answer.breadcrumbs ]
      /\ reader.answer.children = ShownChildren(i, n)
      /\ reader.answer.breadcrumbs =
           IF reader.breadcrumbs THEN ShownBreadcrumbs(i, n) ELSE {}
  BY <1>1 DEF ReadSoFar
<1>4. reader.answer = FinalNode(i, n, reader.breadcrumbs)
  <2> HIDE DEF i, n
  <2> QED
    BY <1>3 DEF FinalNode, ShownChildren, ShownBreadcrumbs
<1> QED
  BY <1>2, <1>4

LEMMA ReadStays ==
  ASSUME WellBuilt, IInv, IInv', BuildInv, BuildInv', [Next]_vars,
         NEW i \in Instances, NEW n, NEW r, ReadSoFar(r, i, n)
  PROVE  ReadSoFar(r, i, n)'
PROOF
<1>1. Built(i)
  BY DEF ReadSoFar
<1>2. Built(i)' /\ Of(i, graph'.ordered) = Of(i, graph.ordered)
  BY <1>1, BuiltStays
<1>3. UNCHANGED data
  BY WhatAStepExecutes
<1>4. Kept(i)' = Kept(i)
  BY <1>3, Frozen
<1>5. ASSUME NEW m PROVE FinalElement(i, m)' = FinalElement(i, m)
  <2>1. Same(graph, i, m) \cap graph.ordered = { v \in Of(i, graph.ordered) : v[2] = m }
    BY PartsOfGraph DEF Same, OfInstance, Of, IInv
  <2>2. Same(graph', i, m) \cap graph'.ordered = { v \in Of(i, graph'.ordered) : v[2] = m }
    BY PartsOfGraph DEF Same, OfInstance, Of, IInv
  <2>3. Same(graph', i, m) \cap graph'.ordered = Same(graph, i, m) \cap graph.ordered
    BY <1>2, <2>1, <2>2
  <2> QED
    BY <1>3, <1>4, <2>3 DEF FinalElement
<1>6. ShownChildren(i, n)' = ShownChildren(i, n)
  BY <1>4, <1>5 DEF ShownChildren
<1>7. ShownBreadcrumbs(i, n)' = ShownBreadcrumbs(i, n)
  BY <1>5 DEF ShownBreadcrumbs
<1> QED
  BY <1>2, <1>4, <1>5, <1>6, <1>7 DEF ReadSoFar

\* A vertex that can be shown is one of a hierarchy that is final.
LEMMA ReadVertexFinds ==
  ASSUME WellBuilt, IInv, BuildInv, NEW i \in Instances, NEW vs, vs \subseteq OfInstance(graph, i),
         NEW first, first = ReadVertex(graph, TheVertex(vs)), first.status = "ok"
  PROVE  /\ Built(i)
         /\ \E n \in Kept(i) :
              first = [ status |-> "ok", element |-> FinalElement(i, n), children |-> {},
                        breadcrumbs |-> {} ]
PROOF
<1> DEFINE found == TheVertex(vs)
<1>4. found.status = "ok" => \E v \in vs : found.vertex = v
  <2> DEFINE chosen == CHOOSE v \in vs : TRUE
  <2>1. vs # {} => chosen \in vs
    OBVIOUS
  <2>2. CASE vs = {}
    <3>1. found = [status |-> "ErrNotFound"]
      BY <2>2, FS_EmptySet DEF TheVertex
    <3> QED
      BY <3>1
  <2>3. CASE vs # {} /\ Cardinality(vs) = 1
    <3>1. found = [status |-> "ok", vertex |-> chosen]
      BY <2>3 DEF TheVertex
    <3> HIDE DEF chosen
    <3> QED
      BY <2>1, <2>3, <3>1
  <2>4. CASE vs # {} /\ Cardinality(vs) # 1
    <3>1. found = [status |-> "several"]
      BY <2>4 DEF TheVertex
    <3> QED
      BY <3>1
  <2> QED
    BY <2>2, <2>3, <2>4
<1>1. found.status = "ok" /\ Convertible(graph, found.vertex)
  BY DEF ReadVertex, Unreadable
<1>2. first = [ status |-> "ok", element |-> Element(graph, found.vertex), children |-> {},
                breadcrumbs |-> {} ]
  BY <1>1 DEF ReadVertex
<1>3. found.vertex \in vs
  BY <1>1, <1>4
<1> HIDE DEF found
<1>5. PICK v \in OfInstance(graph, i) : v = found.vertex
  BY <1>3
<1>6. v[1] = i /\ v \in DOMAIN graph.children
  BY <1>1, <1>5 DEF OfInstance, Convertible
<1>7. Built(i)
  BY <1>6 DEF BuildInv, Stage, Uncounted
<1>8. Final(graph, i) /\ Counted(graph, i)
  BY <1>7 DEF BuildInv, Stage
<1>9. v = <<i, v[2], 1>> /\ v[2] \in Kept(i)
  <2>1. v \in Lift(i, Kept(i))
    BY <1>5, <1>8 DEF Final, OfInstance, Of
  <2> QED
    BY <2>1, InLift
<1>10. PICK n \in Kept(i) : n = v[2] /\ v = <<i, n, 1>>
  BY <1>9
<1>11. Element(graph, v) = FinalElement(i, n)
  <2>1. Convertible(graph, <<i, n, 1>>)
    BY <1>6, <1>10 DEF Convertible
  <2> QED
    BY <1>8, <1>10, <2>1, FinalElements
<1>12. first = [ status |-> "ok", element |-> FinalElement(i, n), children |-> {},
                 breadcrumbs |-> {} ]
  BY <1>2, <1>5, <1>11
<1> QED
  BY <1>7, <1>12
LEMMA BeginReadReads ==
  ASSUME WellBuilt, IInv, BuildInv, NEW i \in Instances, BeginRead(i)
  PROVE  \E n \in Kept(i) : /\ reader'.of = i /\ reader'.answer.element.id = n
                            /\ ReadSoFar(reader', i, n)
PROOF
<1>1. PICK read \in { <<Roots(graph, i), FALSE>> } \cup { <<Same(graph, i, n), TRUE>> : n \in Nodes } :
        LET first == ReadVertex(graph, TheVertex(read[1]))
            r     == [ at |-> "none", of |-> i, breadcrumbs |-> read[2], byOrder |-> FALSE,
                       answer |-> first ]
        IN  /\ first.status = "ok"
            /\ Proceed(r, first, IF first.element.noOfChildren > 0 THEN "order" ELSE AfterChildren(r))
  BY DEF BeginRead
<1> DEFINE first == ReadVertex(graph, TheVertex(read[1]))
           r     == [ at |-> "none", of |-> i, breadcrumbs |-> read[2], byOrder |-> FALSE,
                      answer |-> first ]
           next  == IF first.element.noOfChildren > 0 THEN "order" ELSE AfterChildren(r)
<1>2. first.status = "ok" /\ Proceed(r, first, next)
  BY <1>1
<1>3. read[2] \in BOOLEAN /\ read[1] \subseteq OfInstance(graph, i)
  <2> DEFINE no == FALSE
             yes == TRUE
             sames == { <<Same(graph, i, n), yes>> : n \in Nodes }
  <2>1. no \in BOOLEAN /\ yes \in BOOLEAN
    OBVIOUS
  <2>2. read \in { <<Roots(graph, i), no>> } \cup sames
    OBVIOUS
  <2> HIDE DEF no, yes
  <2>3. CASE read = <<Roots(graph, i), no>>
    BY <2>1, <2>3 DEF Roots
  <2>4. CASE read \in sames
    <3>1. PICK n \in Nodes : read = <<Same(graph, i, n), yes>>
      BY <2>4
    <3> QED
      BY <2>1, <3>1 DEF Same
  <2> QED
    BY <2>2, <2>3, <2>4
<1> HIDE DEF first
<1>5. Built(i) /\ \E n \in Kept(i) :
        first = [ status |-> "ok", element |-> FinalElement(i, n), children |-> {},
                  breadcrumbs |-> {} ]
  <2> DEFINE vs == read[1]
  <2>1. vs \subseteq OfInstance(graph, i) /\ first = ReadVertex(graph, TheVertex(vs))
    BY <1>3 DEF first
  <2> HIDE DEF vs
  <2> QED
    BY <1>2, <2>1, ReadVertexFinds
<1>6. PICK n \in Kept(i) : first = [ status |-> "ok", element |-> FinalElement(i, n),
                                     children |-> {}, breadcrumbs |-> {} ]
  BY <1>5
<1>7. FinalElement(i, n).id = n /\ FinalElement(i, n).noOfChildren = Below(i, n)
  BY DEF FinalElement, Below
<1>8. next \in {"order", "breadcrumbs", "answered"}
  BY DEF AfterChildren
<1>9. next # "order" => ShownChildren(i, n) = {}
  <2> SUFFICES ASSUME next # "order" PROVE ShownChildren(i, n) = {}
    OBVIOUS
  <2> DEFINE S == { c \in Kept(i) : <<c, n>> \in Parent }
  <2>1. ~(Below(i, n) > 0)
    BY <1>6, <1>7
  <2>2. IsFiniteSet(S)
    BY KeptAreNodes, FS_Subset
  <2>3. S = {}
    <3>1. Below(i, n) = Cardinality(S)
      BY DEF Below
    <3>2. Cardinality(S) \in Nat
      BY <2>2, FS_CardinalityType
    <3> HIDE DEF S
    <3> QED
      BY <2>1, <2>2, <3>1, <3>2, FS_EmptySet
  <2> QED
    BY <2>3 DEF ShownChildren
<1>10. (next = "breadcrumbs" => read[2]) /\ (next = "answered" => ~read[2])
  BY DEF AfterChildren
<1> HIDE DEF next
<1>11. reader' = [ at |-> next, of |-> i, breadcrumbs |-> read[2], byOrder |-> FALSE,
                   answer |-> first ]
  BY <1>2 DEF Proceed
<1>12. reader'.of = i /\ reader'.answer.element.id = n
  BY <1>6, <1>7, <1>11
<1>13. ReadSoFar(reader', i, n)
  <2>1. /\ reader'.at = next /\ reader'.breadcrumbs = read[2] /\ reader'.answer = first
        /\ first.children = {} /\ first.breadcrumbs = {}
    BY <1>6, <1>11
  <2> QED
    BY <1>3, <1>5, <1>6, <1>8, <1>9, <1>10, <2>1 DEF ReadSoFar
<1> QED
  BY <1>12, <1>13

\* The other statements of a read, n being the node that is read.
LEMMA ProceedReads ==
  ASSUME WellBuilt, IInv, BuildInv, NEW i \in Instances, i = reader.of, reader # NoRead,
         NEW n, n = reader.answer.element.id, ReadSoFar(reader, i, n),
         ReadOrder \/ ReadTheChildren \/ ReadBreadcrumbs
  PROVE  \/ reader' = NoRead
         \/ reader'.of = i /\ reader'.answer.element.id = n /\ ReadSoFar(reader', i, n)
PROOF
<1>1. reader = [ at |-> reader.at, of |-> i, breadcrumbs |-> reader.breadcrumbs,
                 byOrder |-> reader.byOrder, answer |-> reader.answer ]
  BY DEF IInv, IsRead
<1>2. Built(i) /\ n \in Kept(i) /\ reader.breadcrumbs \in BOOLEAN
  BY DEF ReadSoFar
<1>3. reader.answer = [ status |-> "ok", element |-> FinalElement(i, n),
                        children |-> reader.answer.children,
                        breadcrumbs |-> reader.answer.breadcrumbs ]
  BY DEF ReadSoFar
<1>4. Final(graph, i) /\ Counted(graph, i)
  BY <1>2 DEF BuildInv, Stage
<1>5. FinalElement(i, n).id = n
  BY DEF FinalElement
<1>6. CASE ReadOrder
  <2> DEFINE count == CountChildrenWithOrder(graph, reader.of, reader.answer.element.id) > 0
  <2>1. reader' = [reader EXCEPT !.at = "children", !.byOrder = count] /\ reader.at = "order"
    BY <1>6 DEF ReadOrder
  <2> HIDE DEF count
  <2>2. reader' = [ at |-> "children", of |-> i, breadcrumbs |-> reader.breadcrumbs,
                    byOrder |-> count, answer |-> reader.answer ]
    BY <1>1, <2>1
  <2>3. /\ reader'.at = "children" /\ reader'.of = i /\ reader'.answer = reader.answer
        /\ reader'.breadcrumbs = reader.breadcrumbs
    BY <2>2
  <2>4. reader.answer.children = {} /\ reader.answer.breadcrumbs = {}
    BY <2>1 DEF ReadSoFar
  <2> QED
    BY <1>2, <1>3, <2>3, <2>4 DEF ReadSoFar
<1>7. CASE ReadTheChildren
  <2> DEFINE answer == ReadChildren(graph, reader.of, reader.answer, reader.byOrder)
             next == AfterChildren(reader)
  <2>1. Proceed(reader, answer, next) /\ reader.at = "children"
    BY <1>7 DEF ReadTheChildren
  <2>2. CASE answer.status # "ok"
    BY <2>1, <2>2 DEF Proceed
  <2>3. CASE answer.status = "ok"
    <3> DEFINE shown == { <<Element(graph, e[1]), e[1][3], e[3]>> : e \in ChildEdges(graph, i, n) }
    <3>1. /\ \A e \in ChildEdges(graph, i, n) : Convertible(graph, e[1])
          /\ answer = [reader.answer EXCEPT !.children = shown]
      BY <2>3 DEF ReadChildren, Unreadable
    <3>2. shown = ShownChildren(i, n)
      BY <1>2, <1>4, <3>1, FinalChildren
    <3> HIDE DEF answer, shown
    <3>3. reader.answer.breadcrumbs = {}
      BY <2>1 DEF ReadSoFar
    <3>4. answer = [ status |-> "ok", element |-> FinalElement(i, n),
                     children |-> ShownChildren(i, n), breadcrumbs |-> {} ]
      BY <1>3, <3>1, <3>2, <3>3
    <3>5. /\ next \in {"breadcrumbs", "answered"}
          /\ (next = "breadcrumbs" => reader.breadcrumbs) /\ (next = "answered" => ~reader.breadcrumbs)
      BY <1>2 DEF AfterChildren
    <3> HIDE DEF next
    <3>6. reader' = [reader EXCEPT !.at = next, !.answer = answer]
      BY <2>1, <2>3 DEF Proceed
    <3>7. reader' = [ at |-> next, of |-> i, breadcrumbs |-> reader.breadcrumbs,
                      byOrder |-> reader.byOrder, answer |-> answer ]
      BY <1>1, <3>6
    <3>8. /\ reader'.at = next /\ reader'.of = i /\ reader'.answer = answer
          /\ reader'.breadcrumbs = reader.breadcrumbs
          /\ answer.children = ShownChildren(i, n) /\ answer.breadcrumbs = {}
          /\ answer.element = FinalElement(i, n)
      BY <3>4, <3>7
    <3>9. ReadSoFar(reader', i, n)
      BY <1>2, <3>4, <3>5, <3>8 DEF ReadSoFar
    <3> QED
      BY <1>5, <3>8, <3>9
  <2> QED
    BY <2>2, <2>3
<1>8. CASE ReadBreadcrumbs
  <2> DEFINE answer == buildBreadcrumbs(graph, reader.of, reader.answer)
  <2>1. Proceed(reader, answer, "answered") /\ reader.at = "breadcrumbs"
    BY <1>8 DEF ReadBreadcrumbs
  <2>2. CASE answer.status # "ok"
    BY <2>1, <2>2 DEF Proceed
  <2>3. CASE answer.status = "ok"
    <3> DEFINE above == Ancestors(graph.edges, Same(graph, i, n))
               shown == { Element(graph, v) : v \in above }
    <3>1. /\ \A v \in above : Convertible(graph, v)
          /\ answer = [reader.answer EXCEPT !.breadcrumbs = shown]
      BY <2>3 DEF buildBreadcrumbs, Unreadable
    <3>2. shown = ShownBreadcrumbs(i, n)
      <4>1. above = Lift(i, Ancestors(Parent, {n}))
        BY <1>2, <1>4, FinalBreadcrumbs
      <4>2. \A v \in Lift(i, Ancestors(Parent, {n})) : Convertible(graph, v)
        BY <3>1, <4>1
      <4>3. { Element(graph, v) : v \in Lift(i, Ancestors(Parent, {n})) } = ShownBreadcrumbs(i, n)
        BY <1>2, <1>4, <4>2, FinalBreadcrumbs
      <4> HIDE DEF above
      <4> QED
        BY <4>1, <4>3
    <3> HIDE DEF answer, shown
    <3>3. reader.answer.children = ShownChildren(i, n) /\ reader.breadcrumbs
      BY <2>1 DEF ReadSoFar
    <3>4. answer = [ status |-> "ok", element |-> FinalElement(i, n),
                     children |-> ShownChildren(i, n), breadcrumbs |-> ShownBreadcrumbs(i, n) ]
      BY <1>3, <3>1, <3>2, <3>3
    <3>5. reader' = [reader EXCEPT !.at = "answered", !.answer = answer]
      BY <2>1, <2>3 DEF Proceed
    <3>6. reader' = [ at |-> "answered", of |-> i, breadcrumbs |-> reader.breadcrumbs,
                      byOrder |-> reader.byOrder, answer |-> answer ]
      BY <1>1, <3>5
    <3>7. /\ reader'.at = "answered" /\ reader'.of = i /\ reader'.answer = answer
          /\ reader'.breadcrumbs = reader.breadcrumbs
          /\ answer.children = ShownChildren(i, n) /\ answer.breadcrumbs = ShownBreadcrumbs(i, n)
          /\ answer.element = FinalElement(i, n)
      BY <3>4, <3>6
    <3>8. ReadSoFar(reader', i, n)
      BY <1>2, <3>3, <3>4, <3>7 DEF ReadSoFar
    <3> QED
      BY <1>5, <3>7, <3>8
  <2> QED
    BY <2>2, <2>3
<1> QED
  BY <1>6, <1>7, <1>8
LEMMA ReadStep ==
  ASSUME WellBuilt, IInv, IInv', BuildInv, BuildInv', ReadInv, [Next]_vars
  PROVE  ReadInv'
PROOF
<1>1. ASSUME NEW i \in Instances, NEW n, ReadSoFar(reader', i, n),
             reader'.of = i, reader'.answer.element.id = n
      PROVE  ReadInv'
  <2>1. PICK r : r = reader'
    OBVIOUS
  <2>2. ReadSoFar(r, i, n)
    BY <1>1, <2>1
  <2>3. ReadSoFar(r, i, n)'
    BY <2>2, ReadStays
  <2> QED
    BY <1>1, <2>1, <2>3 DEF ReadInv, ReadSoFar
<1>2. reader' = NoRead => ReadInv'
  BY DEF ReadInv, NoRead
<1>3. reader.at # "none" => reader # NoRead /\ reader.of \in Instances
  BY DEF IInv, IsRead, NoRead
<1>4. CASE UNCHANGED reader
  <2>1. CASE reader.at = "none"
    BY <1>4, <2>1 DEF ReadInv
  <2>2. CASE reader.at # "none"
    <3>1. PICK i \in Instances, n \in {reader.answer.element.id} : i = reader.of
      BY <1>3, <2>2
    <3>2. ReadSoFar(reader', i, n)
      BY <1>4, <2>2, <3>1 DEF ReadInv
    <3> QED
      BY <1>1, <1>4, <3>1, <3>2
  <2> QED
    BY <2>1, <2>2
<1>5. ASSUME NEW i \in Instances, BeginRead(i) PROVE ReadInv'
  <2>1. PICK n \in Kept(i) : /\ reader'.of = i /\ reader'.answer.element.id = n
                             /\ ReadSoFar(reader', i, n)
    BY <1>5, BeginReadReads
  <2> QED
    BY <1>1, <2>1
<1>6. CASE ReadOrder \/ ReadTheChildren \/ ReadBreadcrumbs
  <2>1. reader.at # "none"
    BY <1>6 DEF ReadOrder, ReadTheChildren, ReadBreadcrumbs
  <2>2. PICK i \in Instances, n \in {reader.answer.element.id} : i = reader.of
    BY <1>3, <2>1
  <2>3. n = reader.answer.element.id /\ ReadSoFar(reader, i, n)
    BY <2>1, <2>2 DEF ReadInv
  <2>4. \/ reader' = NoRead
        \/ reader'.of = i /\ reader'.answer.element.id = n /\ ReadSoFar(reader', i, n)
    BY <1>3, <1>6, <2>1, <2>2, <2>3, ProceedReads
  <2> QED
    BY <1>1, <1>2, <2>4
<1>7. EndRead => ReadInv'
  BY <1>2 DEF EndRead
<1>8. CASE Reader
  BY <1>5, <1>6, <1>7, <1>8 DEF Reader
<1>9. CASE ~Reader
  <2>1. UNCHANGED reader
    BY <1>9 DEF Next, Builder, Call, Answer, Refuse, Lose, Return, ExecuteLate, Finished, vars
  <2> QED
    BY <1>4, <2>1
<1> QED
  BY <1>8, <1>9

\* A read that is answered without an error, whenever it was begun and whatever
\* the builders did between its statements, has got what the finished
\* hierarchy will show of the node.
THEOREM ReadsAnswerTheFinal ==
  ASSUME WellBuilt
  PROVE  Spec => []ReadsAreFinal
PROOF
<1>1. Init => ReadInv
  BY DEF Init, ReadInv, NoRead
<1>2. IInv /\ IInv' /\ BuildInv /\ BuildInv' /\ ReadInv /\ [Next]_vars => ReadInv'
  BY ReadStep
<1>3. ReadInv => ReadsAreFinal
  BY ReadIsFinal
<1> QED
  BY <1>1, <1>2, <1>3, Inductive, AlwaysBuilding, PTL DEF Spec
------------------------------------------------------------------------------
(* Refinement: what a finished hierarchy looks like, as a whole.           *)

\* The instance has its own copy of FiniteSets.
LEMMA SameCardinality == \A S : Abstract!Cardinality(S) = Cardinality(S)
BY DEF Abstract!Cardinality, Cardinality

\* The order that a hierarchy has got.
OrderOf(i) == { v[2] : v \in Of(i, graph.ordered) }

LEMMA EdgesBelow ==
  ASSUME IInv, NEW i \in Instances, NEW n \in Kept(i)
  PROVE  Cardinality({ e \in Parent \cap (Kept(i) \X Kept(i)) : e[2] = n }) = Below(i, n)
PROOF
<1> DEFINE S == { c \in Kept(i) : <<c, n>> \in Parent }
           f == [c \in S |-> <<c, n>>]
<1>1. IsFiniteSet(S)
  BY KeptAreNodes, FS_Subset
<1>2. DOMAIN f = S /\ \A x, y \in S : f[x] = f[y] => x = y
  OBVIOUS
<1>3. Cardinality({ f[c] : c \in S }) = Cardinality(S)
  <2> HIDE DEF f, S
  <2> QED
    BY <1>1, <1>2, SameSize
<1>4. { f[c] : c \in S } = { e \in Parent \cap (Kept(i) \X Kept(i)) : e[2] = n }
  <2>1. ASSUME NEW c \in S PROVE f[c] \in Parent \cap (Kept(i) \X Kept(i)) /\ f[c][2] = n
    OBVIOUS
  <2>2. ASSUME NEW e \in Parent \cap (Kept(i) \X Kept(i)), e[2] = n
        PROVE  e[1] \in S /\ f[e[1]] = e
    BY <2>2
  <2> HIDE DEF f, S
  <2> QED
    BY <2>1, <2>2
<1> QED
  BY <1>3, <1>4 DEF Below

LEMMA ViewOfReady ==
  ASSUME WellBuilt, IInv, BuildInv, NEW i \in Instances, Ready(i)
  PROVE  /\ View(i) = Abstract!Induced(data[i], OrderOf(i))
         /\ OrderOf(i) \subseteq Ordered \cap Kept(i)
         /\ i \in Sorted => OrderOf(i) = Ordered \cap Kept(i)
PROOF
<1> DEFINE V == OfInstance(graph, i)
           E == { e \in graph.edges : e[1] \in V }
           K == Kept(i)
           edges == Parent \cap (K \X K)
<1>1. IsGraph(graph) /\ Final(graph, i) /\ Counted(graph, i) /\ Lift(i, K) \subseteq DOMAIN graph.children
  BY DEF IInv, Ready
<1>2. /\ V = Lift(i, K) /\ E = LiftEdges(i, KeptEdges(i))
      /\ V \cap graph.hasData = Lift(i, data[i]) /\ V \cap graph.ordered = Of(i, graph.ordered)
  BY <1>1, PartsOfFinal
<1>3. KeptEdges(i) = edges /\ KeptEdges(i) \subseteq Parent
  BY KeptIsClosed
<1>4. { v[2] : v \in V } = K
  <2> HIDE DEF V
  <2> QED
    BY <1>2, CodesOfLift
<1>5. { <<e[1][2], e[2][2]>> : e \in E } = edges
  <2> HIDE DEF E, edges
  <2> QED
    BY <1>2, <1>3, CodesOfEdges
<1>6. { v[2] : v \in V \cap graph.hasData } = data[i]
  BY <1>2, CodesOfLift
<1>7. { v[2] : v \in V \cap graph.ordered } = OrderOf(i)
  <2> HIDE DEF V
  <2> QED
    BY <1>2 DEF OrderOf
<1>8. [n \in K |-> graph.children[CHOOSE v \in V : v[2] = n]] =
        [n \in K |-> Cardinality({ e \in edges : e[2] = n })]
  <2> SUFFICES ASSUME NEW n \in K
               PROVE  graph.children[CHOOSE v \in V : v[2] = n] = Cardinality({ e \in edges : e[2] = n })
    OBVIOUS
  <2> DEFINE v == CHOOSE w \in V : w[2] = n
  <2>1. <<i, n, 1>> \in V /\ <<i, n, 1>>[2] = n
    BY <1>2, InLift
  <2>2. v \in V /\ v[2] = n
    BY <2>1
  <2> HIDE DEF v
  <2>3. v = <<i, n, 1>>
    BY <1>2, <2>2, InLift
  <2>4. v \in DOMAIN graph.children /\ v[1] = i
    BY <1>1, <1>2, <2>2, <2>3
  <2>5. graph.children[v] = Below(i, n)
    BY <1>1, <2>2, <2>4 DEF Counted
  <2> HIDE DEF V
  <2>6. Cardinality({ e \in edges : e[2] = n }) = Below(i, n)
    BY EdgesBelow
  <2> QED
    BY <2>5, <2>6 DEF v
<1>9. View(i) = [ state |-> "ready", nodes |-> K, edges |-> edges, hasData |-> data[i],
                  children |-> [n \in K |-> Cardinality({ e \in edges : e[2] = n })],
                  ordered |-> OrderOf(i) ]
  <2> HIDE DEF edges, K
  <2> QED
    BY <1>4, <1>5, <1>6, <1>7, <1>8 DEF View
<1>10. Abstract!Induced(data[i], OrderOf(i)) =
         [ state |-> "ready", nodes |-> K, edges |-> edges, hasData |-> data[i],
           children |-> [n \in K |-> Cardinality({ e \in edges : e[2] = n })],
           ordered |-> OrderOf(i) ]
  BY SameCardinality DEF Abstract!Induced, Kept
<1>11. OrderOf(i) \subseteq Ordered \cap K
  <2> SUFFICES ASSUME NEW v \in Of(i, graph.ordered) PROVE v[2] \in Ordered \cap K
    BY DEF OrderOf
  <2>1. v \in graph.ordered /\ v \in V
    BY <1>2
  <2>2. v[2] \in K
    BY <1>2, <2>1, InLift
  <2> QED
    BY <2>1, <2>2 DEF BuildInv
<1>12. i \in Sorted => OrderOf(i) = Ordered \cap K
  <2> SUFFICES ASSUME i \in Sorted PROVE OrderOf(i) = Ordered \cap K
    OBVIOUS
  <2>1. Of(i, graph.ordered) = Lift(i, K \cap Ordered)
    BY <1>1, WhoSorts DEF Final
  <2>2. OrderOf(i) = K \cap Ordered
    <3> HIDE DEF K
    <3> QED
      BY <2>1, CodesOfLift DEF OrderOf
  <2> QED
    BY <2>2
<1> QED
  BY <1>9, <1>10, <1>11, <1>12
\* What the hierarchy of i has become, for those who look at it from outside.
Seen(i) ==
  CASE Done(i) -> View(i)
    [] phase[i] = "failed" -> [state |-> "failed"]
    [] OTHER -> [state |-> "absent"]

LEMMA SeenByPhase ==
  ASSUME NEW i
  PROVE  /\ Done(i) => Seen(i) = View(i)
         /\ phase[i] = "failed" => Seen(i) = Abstract!Failed
         /\ phase[i] \notin {"done", "failed"} => Seen(i) = Abstract!Absent
BY DEF Seen, Done, Abstract!Failed, Abstract!Absent

LEMMA ViewsOfDone ==
  WellBuilt /\ IInv /\ BuildInv =>
    \A i \in Instances : Done(i) => View(i) = Abstract!Induced(data[i], OrderOf(i))
BY DoneIsReady, ViewOfReady

LEMMA ViewsOfDoneNext ==
  (WellBuilt /\ IInv /\ BuildInv)' =>
    (\A i \in Instances : Done(i) => View(i) = Abstract!Induced(data[i], OrderOf(i)))'
BY ViewsOfDone, PTL

LEMMA OrdersOfDone ==
  WellBuilt /\ IInv /\ BuildInv =>
    \A i \in Instances : Done(i) =>
      /\ OrderOf(i) \subseteq Ordered \cap Kept(i)
      /\ i \in Sorted => OrderOf(i) = Ordered \cap Kept(i)
BY DoneIsReady, ViewOfReady

LEMMA OrdersOfDoneNext ==
  (WellBuilt /\ IInv /\ BuildInv)' =>
    (\A i \in Instances : Done(i) =>
      /\ OrderOf(i) \subseteq Ordered \cap Kept(i)
      /\ i \in Sorted => OrderOf(i) = Ordered \cap Kept(i))'
BY OrdersOfDone, PTL

\* As long as its builder neither finishes nor fails, it looks the same.
LEMMA SeenStays ==
  ASSUME WellBuilt, IInv, IInv', BuildInv, BuildInv', [Next]_vars, NEW i \in Instances,
         phase'[i] = phase[i] \/ {phase[i], phase'[i]} \cap {"done", "failed"} = {}
  PROVE  Seen(i)' = Seen(i)
PROOF
<1>1. CASE Done(i)
  <2>1. Done(i)' /\ phase'[i] = "done"
    BY <1>1 DEF Done
  <2>2. Ready(i)
    BY <1>1, DoneIsReady
  <2>3. View(i) = Abstract!Induced(data[i], OrderOf(i))
    BY <1>1, ViewsOfDone
  <2>4. View(i)' = Abstract!Induced(data'[i], OrderOf(i)')
    BY <2>1, ViewsOfDoneNext
  <2>5. UNCHANGED data
    BY WhatAStepExecutes
  <2>6. OrderOf(i)' = OrderOf(i)
    BY <2>2, BuiltStays DEF OrderOf, Ready
  <2>7. View(i)' = View(i)
    BY <2>3, <2>4, <2>5, <2>6
  <2> QED
    BY <1>1, <2>1, <2>7 DEF Seen, Done
<1>2. CASE ~Done(i)
  BY <1>2 DEF Seen, Done
<1> QED
  BY <1>1, <1>2
LEMMA RefinementInit ==
  ASSUME WellBuilt, Init
  PROVE  Abstract!Init
PROOF
<1>1. \A i \in Instances : phase[i] = "calling"
  <2> SUFFICES ASSUME NEW i \in Instances PROVE phase[i] = "calling"
    OBVIOUS
  <2>1. Program[i] # <<>>
    <3>1. Len(Program[i]) # 0
      BY TheNewProgram, TheOldProgram
    <3> QED
      BY <3>1
  <2> QED
    BY <2>1 DEF Init
<1>2. [i \in Instances |-> Seen(i)] = [i \in Instances |-> Abstract!Absent]
  BY <1>1, SeenByPhase
<1> QED
  BY <1>2 DEF Init, Abstract!Init, Seen

\* Between two steps every other hierarchy looks the same.
LEMMA RefinementStep ==
  ASSUME WellBuilt, IInv, IInv', BuildInv, BuildInv', [Next]_vars
  PROVE  [Abstract!Next]_<<data, [i \in Instances |-> Seen(i)]>>
PROOF
<1> DEFINE S == [i \in Instances |-> Seen(i)]
<1>1. UNCHANGED data
  BY WhatAStepExecutes
<1>2. phase \in [Instances -> Phases]
  BY DEF IInv, Shapes
<1>3. ASSUME NEW i \in Instances, Return(i), phase' = [phase EXCEPT ![i] = "done"]
      PROVE  Abstract!Finish(i)
  <2>1. phase[i] = "running" /\ phase'[i] = "done"
    BY <1>2, <1>3 DEF Return
  <2>2. \A j \in Instances \ {i} : Seen(j)' = Seen(j)
    BY <1>2, <1>3, SeenStays
  <2>3. Done(i)'
    BY <2>1 DEF Done
  <2>4. View(i)' = Abstract!Induced(data'[i], OrderOf(i)')
    BY <2>3, ViewsOfDoneNext
  <2> DEFINE order == OrderOf(i)'
             kept == data[i] \cup Ancestors(Parent, data[i])
  <2>5. order \subseteq Ordered \cap kept /\ (i \in Sorted => order = Ordered \cap kept)
    <3>1. (OrderOf(i) \subseteq Ordered \cap Kept(i))'
      BY <2>3, OrdersOfDoneNext
    <3>2. (i \in Sorted => OrderOf(i) = Ordered \cap Kept(i))'
      BY <2>3, OrdersOfDoneNext
    <3> QED
      BY <1>1, <3>1, <3>2 DEF Kept, Sorted
  <2>6. S[i] = Abstract!Absent
    BY <2>1, SeenByPhase
  <2>7. S' = [S EXCEPT ![i] = Abstract!Induced(data[i], order)]
    <3>1. Seen(i)' = Abstract!Induced(data[i], order)
      <4>1. Seen(i)' = View(i)'
        BY <2>1 DEF Seen, Done
      <4>2. View(i)' = Abstract!Induced(data[i], OrderOf(i)')
        BY <1>1, <2>4
      <4> QED
        BY <4>1, <4>2
    <3> HIDE DEF order
    <3> QED
      BY <2>2, <3>1
  <2> HIDE DEF order
  <2> QED
    BY <1>1, <2>5, <2>6, <2>7 DEF Abstract!Finish, Seen
<1>4. ASSUME NEW i \in Instances, Return(i), phase' = [phase EXCEPT ![i] = "failed"]
      PROVE  Abstract!Fail(i)
  <2>1. phase[i] = "running" /\ phase'[i] = "failed"
    BY <1>2, <1>4 DEF Return
  <2>2. \A j \in Instances \ {i} : Seen(j)' = Seen(j)
    BY <1>2, <1>4, SeenStays
  <2>3. S[i] = Abstract!Absent
    BY <2>1, SeenByPhase
  <2>4. S' = [S EXCEPT ![i] = Abstract!Failed]
    <3>1. Seen(i)' = Abstract!Failed
      BY <2>1 DEF Seen, Done, Abstract!Failed
    <3> QED
      BY <2>2, <3>1
  <2> QED
    BY <1>1, <2>3, <2>4 DEF Abstract!Fail, Seen
<1>5. CASE \E i \in Instances : /\ Return(i)
                                /\ \/ phase' = [phase EXCEPT ![i] = "done"]
                                   \/ phase' = [phase EXCEPT ![i] = "failed"]
  BY <1>3, <1>4, <1>5 DEF Abstract!Next
<1>6. CASE ~ \E i \in Instances : /\ Return(i)
                                  /\ \/ phase' = [phase EXCEPT ![i] = "done"]
                                     \/ phase' = [phase EXCEPT ![i] = "failed"]
  <2>1. ASSUME NEW j \in Instances
        PROVE  phase'[j] = phase[j] \/ {phase[j], phase'[j]} \cap {"done", "failed"} = {}
    <3>1. CASE \E i \in Instances : Return(i)
      <4>1. PICK i \in Instances : Return(i)
        BY <3>1
      <4>2. phase' = [phase EXCEPT ![i] = "calling"] /\ phase[i] = "running"
        BY <1>6, <4>1 DEF Return
      <4> QED
        BY <1>2, <4>2
    <3>2. CASE \E i \in Instances : Call(i)
      <4>1. PICK i \in Instances : phase' = [phase EXCEPT ![i] = "running"] /\ phase[i] = "calling"
        BY <3>2 DEF Call
      <4> QED
        BY <1>2, <4>1
    <3>3. CASE ~ \E i \in Instances : Return(i) \/ Call(i)
      <4>1. UNCHANGED phase
        BY <3>3 DEF Next, Builder, Answer, Refuse, Lose, ExecuteLate, Reader, BeginRead,
               ReadOrder, ReadTheChildren, ReadBreadcrumbs, EndRead, Finished, vars
      <4> QED
        BY <4>1
    <3> QED
      BY <3>1, <3>2, <3>3
  <2>2. \A j \in Instances : Seen(j)' = Seen(j)
    BY <2>1, SeenStays
  <2> QED
    BY <1>1, <2>2
<1> QED
  BY <1>5, <1>6

\* Builders that follow either program, several at once and one statement at a
\* time, look like finishing or failing in one step each.
THEOREM BuildingImplementsTheHierarchy ==
  ASSUME WellBuilt
  PROVE  Spec => ImplementsInstanceHierarchy
PROOF
<1>1. Init => Abstract!Init
  BY RefinementInit
<1>2. IInv /\ IInv' /\ BuildInv /\ BuildInv' /\ [Next]_vars =>
        [Abstract!Next]_<<data, [i \in Instances |-> Seen(i)]>>
  BY RefinementStep
<1> QED
  BY <1>1, <1>2, Inductive, AlwaysBuilding, PTL
     DEF Spec, ImplementsInstanceHierarchy, Abstract!Spec, Abstract!vars, Seen
------------------------------------------------------------------------------
(* A finished hierarchy can be read.                                       *)

\* The statements of a read, one after the other with nothing in between.
LEMMA NodeOfOne ==
  ASSUME NEW g, NEW i, NEW v, v \in DOMAIN g.children, NEW vs, vs = {v}
  PROVE  ReadVertex(g, TheVertex(vs)) =
           [ status |-> "ok", element |-> Element(g, v), children |-> {}, breadcrumbs |-> {} ]
PROOF
<1> DEFINE chosen == CHOOSE w \in vs : TRUE
<1>1. vs # {} /\ Cardinality(vs) = 1
  BY FS_Singleton
<1>2. chosen = v
  OBVIOUS
<1>3. TheVertex(vs) = [status |-> "ok", vertex |-> v]
  <2>1. TheVertex(vs) = [status |-> "ok", vertex |-> chosen]
    BY <1>1 DEF TheVertex
  <2> HIDE DEF chosen
  <2> QED
    BY <1>2, <2>1
<1> DEFINE found == TheVertex(vs)
<1>4. found.status = "ok" /\ found.vertex = v
  BY <1>3
<1> HIDE DEF found, chosen
<1>5. ReadVertex(g, found) =
        [ status |-> "ok", element |-> Element(g, v), children |-> {}, breadcrumbs |-> {} ]
  BY <1>4 DEF ReadVertex, Convertible
<1> QED
  BY <1>5 DEF found

\* Unless some children of n have an order and some have none, its children
\* are read, ordered or not.
LEMMA ChildrenOfReady ==
  ASSUME WellBuilt, IInv, BuildInv, NEW i \in Instances, IsNew(i), Ready(i), NEW n \in Kept(i),
         NEW first, first = [ status |-> "ok", element |-> FinalElement(i, n), children |-> {},
                              breadcrumbs |-> {} ],
         NEW byOrder, byOrder = (CountChildrenWithOrder(graph, i, n) > 0)
  PROVE  /\ MixedOrder(i, n) => ReadChildren(graph, i, first, byOrder) = Unreadable
         /\ ~MixedOrder(i, n) =>
              ReadChildren(graph, i, first, byOrder) =
                [ status |-> "ok", element |-> FinalElement(i, n),
                  children |-> ShownChildren(i, n), breadcrumbs |-> {} ]
PROOF
<1> DEFINE down == ChildEdges(graph, i, n)
           S == { c \in Kept(i) : <<c, n>> \in Parent }
           T == { e \in down : e[1] \in graph.ordered }
<1>1. /\ IsGraph(graph) /\ Final(graph, i) /\ Counted(graph, i)
      /\ Lift(i, Kept(i)) \subseteq DOMAIN graph.children
      /\ Of(i, graph.ordered) = Lift(i, Kept(i) \cap Ordered)
  BY DEF Ready, IInv, Final
<1>2. ASSUME NEW e \in down
      PROVE  e = <<<<i, e[1][2], 1>>, <<i, n, 1>>, 1>> /\ e[1][2] \in S
  BY <1>1, FinalChildEdges
<1>3. ASSUME NEW c \in S PROVE <<<<i, c, 1>>, <<i, n, 1>>, 1>> \in down
  BY <1>1, FinalChildEdges
<1>4. ASSUME NEW c \in Kept(i) PROVE <<i, c, 1>> \in graph.ordered <=> c \in Ordered
  <2>1. <<i, c, 1>> \in Of(i, graph.ordered) <=> c \in Ordered
    BY <1>1, InLift
  <2> QED
    BY <2>1 DEF Of
<1>5. ASSUME NEW c \in Kept(i) PROVE Convertible(graph, <<i, c, 1>>)
  BY <1>1, InLift DEF Convertible
<1>6. \A e \in down : Convertible(graph, e[1]) /\ (e[1] \in graph.ordered <=> e[1][2] \in Ordered)
  <2> SUFFICES ASSUME NEW e \in down
               PROVE  Convertible(graph, e[1]) /\ (e[1] \in graph.ordered <=> e[1][2] \in Ordered)
    OBVIOUS
  <2>1. PICK c \in Kept(i) : e[1] = <<i, c, 1>> /\ c = e[1][2]
    <3>1. e = <<<<i, e[1][2], 1>>, <<i, n, 1>>, 1>> /\ e[1][2] \in Kept(i)
      BY <1>2
    <3>2. e[1] = <<i, e[1][2], 1>>
      BY <3>1
    <3> QED
      BY <3>1, <3>2
  <2> QED
    BY <1>4, <1>5, <2>1
<1>7. byOrder <=> T # {}
  <2>1. IsFiniteSet(T)
    <3>1. T \subseteq graph.edges
      BY DEF ChildEdges
    <3> QED
      BY <1>1, <3>1, FS_Subset, PartsOfGraph
  <2>2. CountChildrenWithOrder(graph, i, n) = Cardinality(T)
    BY DEF CountChildrenWithOrder
  <2>3. Cardinality(T) \in Nat /\ (Cardinality(T) = 0 <=> T = {})
    <3> HIDE DEF T
    <3> QED
      BY <2>1, FS_CardinalityType, FS_EmptySet
  <2> DEFINE count == CountChildrenWithOrder(graph, i, n)
  <2>4. count \in Nat /\ (count > 0 <=> T # {})
    <3> HIDE DEF T
    <3> QED
      BY <2>2, <2>3
  <2>5. byOrder = (count > 0)
    OBVIOUS
  <2>6. byOrder <=> count > 0
    <3> HIDE DEF count
    <3> QED
      BY <2>5
  <2> HIDE DEF T, count
  <2> QED
    BY <2>4, <2>6
<1>8. MixedOrder(i, n) <=> (S \cap Ordered # {} /\ S \ Ordered # {})
  BY DEF MixedOrder
<1>9. T # {} <=> S \cap Ordered # {}
  BY <1>2, <1>3, <1>6
<1>10. (\A e \in down : e[1] \in graph.ordered) <=> S \ Ordered = {}
  BY <1>2, <1>3, <1>6
<1> DEFINE Sorts == \A e \in down : Convertible(graph, e[1]) /\ (byOrder => e[1] \in graph.ordered)
           shown == { <<Element(graph, e[1]), e[1][3], e[3]>> : e \in down }
<1>11. Sorts <=> ~MixedOrder(i, n)
  <2> HIDE DEF down, S, T
  <2>1. Sorts <=> (byOrder => \A e \in down : e[1] \in graph.ordered)
    BY <1>6
  <2>2. byOrder \in BOOLEAN
    OBVIOUS
  <2> HIDE DEF Sorts
  <2> QED
    BY <1>7, <1>8, <1>9, <1>10, <2>1, <2>2
<1>12. first.element.id = n
  BY DEF FinalElement
<1>13. shown = ShownChildren(i, n)
  BY <1>1, <1>6, FinalChildren
<1>14. Sorts => ReadChildren(graph, i, first, byOrder) = [first EXCEPT !.children = shown]
  BY <1>12 DEF ReadChildren
<1>15. ~Sorts => ReadChildren(graph, i, first, byOrder) = Unreadable
  BY <1>12 DEF ReadChildren
<1> HIDE DEF Sorts, shown, down
<1>16. [first EXCEPT !.children = shown] =
         [ status |-> "ok", element |-> FinalElement(i, n), children |-> ShownChildren(i, n),
           breadcrumbs |-> {} ]
  BY <1>13
<1> QED
  BY <1>11, <1>14, <1>15, <1>16

LEMMA SizeOfShown ==
  ASSUME IInv, NEW i \in Instances, NEW n
  PROVE  Cardinality(ShownChildren(i, n)) = Below(i, n)
PROOF
<1> DEFINE S == { c \in Kept(i) : <<c, n>> \in Parent }
           f == [c \in S |-> <<FinalElement(i, c), 1, 1>>]
<1>1. IsFiniteSet(S)
  BY KeptAreNodes, FS_Subset
<1>2. \A c : FinalElement(i, c).id = c
  BY DEF FinalElement
<1>3. DOMAIN f = S /\ \A x, y \in S : f[x] = f[y] => x = y
  <2>1. ASSUME NEW x \in S, NEW y \in S, f[x] = f[y] PROVE x = y
    <3>1. FinalElement(i, x) = FinalElement(i, y)
      BY <2>1
    <3> QED
      BY <1>2, <3>1
  <2> QED
    BY <2>1
<1>4. Cardinality({ f[c] : c \in S }) = Cardinality(S)
  <2> HIDE DEF f, S
  <2> QED
    BY <1>1, <1>3, SameSize
<1>5. { f[c] : c \in S } = ShownChildren(i, n)
  BY DEF ShownChildren
<1> QED
  BY <1>4, <1>5 DEF Below
LEMMA ChildrenAreRead ==
  ASSUME WellBuilt, IInv, BuildInv, NEW i \in Instances, IsNew(i), Ready(i), NEW n \in Kept(i),
         NEW vs, vs = {<<i, n, 1>>}, NEW first, first = ReadVertex(graph, TheVertex(vs)),
         NEW byOrder, byOrder = (CountChildrenWithOrder(graph, i, first.element.id) > 0),
         NEW children, NEW goesOn, goesOn <=> first.status = "ok" /\ first.element.noOfChildren > 0,
         goesOn => children = ReadChildren(graph, i, first, byOrder),
         ~goesOn => children = first
  PROVE  /\ MixedOrder(i, n) => children = Unreadable
         /\ ~MixedOrder(i, n) =>
              children = [ status |-> "ok", element |-> FinalElement(i, n),
                           children |-> ShownChildren(i, n), breadcrumbs |-> {} ]
PROOF
<1> DEFINE S == { c \in Kept(i) : <<c, n>> \in Parent }
<1>1. /\ Final(graph, i) /\ Counted(graph, i) /\ <<i, n, 1>> \in DOMAIN graph.children
  BY InLift DEF Ready
<1>2. first = [ status |-> "ok", element |-> FinalElement(i, n), children |-> {},
                breadcrumbs |-> {} ]
  <2>1. Element(graph, <<i, n, 1>>) = FinalElement(i, n)
    BY <1>1, FinalElements DEF Convertible
  <2> QED
    BY <1>1, <2>1, NodeOfOne
<1>3. FinalElement(i, n).id = n /\ FinalElement(i, n).noOfChildren = Below(i, n)
  BY DEF FinalElement, Below
<1>4. /\ first.status = "ok" /\ first.element.noOfChildren = Below(i, n) /\ first.element.id = n
  BY <1>2, <1>3
<1>5. IsFiniteSet(S) /\ Below(i, n) = Cardinality(S)
  BY KeptAreNodes, FS_Subset DEF Below
<1>6. Below(i, n) \in Nat /\ (Below(i, n) = 0 <=> S = {})
  <2> HIDE DEF S
  <2> QED
    BY <1>5, FS_CardinalityType, FS_EmptySet
<1>7. CASE Below(i, n) > 0
  <2>1. children = ReadChildren(graph, i, first, byOrder)
    BY <1>4, <1>7
  <2>2. byOrder = (CountChildrenWithOrder(graph, i, n) > 0)
    BY <1>4
  <2>3. /\ MixedOrder(i, n) => ReadChildren(graph, i, first, byOrder) = Unreadable
        /\ ~MixedOrder(i, n) =>
             ReadChildren(graph, i, first, byOrder) =
               [ status |-> "ok", element |-> FinalElement(i, n),
                 children |-> ShownChildren(i, n), breadcrumbs |-> {} ]
    BY <1>2, <2>2, ChildrenOfReady
  <2> QED
    BY <2>1, <2>3
<1>8. CASE Below(i, n) = 0
  <2>1. S = {}
    BY <1>6, <1>8
  <2>2. ~MixedOrder(i, n)
    BY <2>1 DEF MixedOrder
  <2>3. ShownChildren(i, n) = {}
    BY <2>1 DEF ShownChildren
  <2>4. children = first
    BY <1>4, <1>8
  <2> QED
    BY <1>2, <2>2, <2>3, <2>4
<1> QED
  BY <1>6, <1>7, <1>8

\* A code list has one root.
SingleRoot ==
  \A m, n \in Nodes :
    (\A p \in Nodes : <<m, p>> \notin Parent) /\ (\A p \in Nodes : <<n, p>> \notin Parent) => m = n

LEMMA RootOfReady ==
  ASSUME SingleRoot, IInv, NEW i \in Instances, Final(graph, i), NEW n \in Kept(i),
         \A p \in Nodes : <<n, p>> \notin Parent
  PROVE  Roots(graph, i) = {<<i, n, 1>>}
PROOF
<1>1. OfInstance(graph, i) = Lift(i, Kept(i)) /\ EdgesOf(i, graph.edges) = LiftEdges(i, KeptEdges(i))
  BY DEF Final, OfInstance, Of
<1>2. Kept(i) \subseteq Nodes
  BY KeptAreNodes
<1>3. KeptEdges(i) \subseteq Parent
  BY DEF KeptEdges
<1>4. <<i, n, 1>> \in Roots(graph, i)
  <2>1. ASSUME NEW e \in graph.edges, e[1] = <<i, n, 1>> PROVE FALSE
    <3>1. e \in LiftEdges(i, KeptEdges(i))
      BY <1>1, <2>1 DEF EdgesOf
    <3>2. e = <<<<i, e[1][2], 1>>, <<i, e[2][2], 1>>, 1>> /\ <<e[1][2], e[2][2]>> \in Parent
      BY <1>3, <3>1, InLiftEdges
    <3>3. <<n, e[2][2]>> \in Parent
      BY <2>1, <3>2
    <3> QED
      BY <3>3, GenericAssumption
  <2>2. <<i, n, 1>> \in OfInstance(graph, i)
    BY <1>1, InLift
  <2> QED
    BY <2>1, <2>2 DEF Roots
<1>5. ASSUME NEW v \in Roots(graph, i) PROVE v = <<i, n, 1>>
  <2>1. v = <<i, v[2], 1>> /\ v[2] \in Kept(i)
    BY <1>1, InLift DEF Roots
  <2>2. PICK m \in Kept(i) : v = <<i, m, 1>>
    BY <2>1
  <2>3. ASSUME NEW p \in Nodes, <<m, p>> \in Parent PROVE FALSE
    <3> DEFINE e == <<<<i, m, 1>>, <<i, p, 1>>, 1>>
    <3>1. <<m, p>> \in KeptEdges(i)
      BY <2>3 DEF KeptEdges
    <3>2. e \in LiftEdges(i, KeptEdges(i))
      BY <1>3, <3>1, InLiftEdges
    <3>3. e \in graph.edges /\ e[1] = v
      BY <1>1, <2>2, <3>2 DEF EdgesOf
    <3> QED
      BY <3>3 DEF Roots
  <2>4. m = n
    BY <1>2, <2>3 DEF SingleRoot
  <2> QED
    BY <2>2, <2>4
<1> QED
  BY <1>4, <1>5

LEMMA ReadyIsReadable ==
  ASSUME WellBuilt, \A i \in Instances : IsNew(i), SingleRoot, IInv, BuildInv
  PROVE  FinishedIsReadable
PROOF
<1> SUFFICES ASSUME NEW i \in Instances, Done(i), NEW n \in Kept(i)
             PROVE  LET r      == GetHierarchyElement(graph, i, n)
                        isRoot == \A p \in Nodes : <<n, p>> \notin Parent
                    IN  IF MixedOrder(i, n) THEN r = Unreadable
                        ELSE /\ r.status = "ok" /\ r.element.noOfChildren = Cardinality(r.children)
                             /\ isRoot => GetHierarchyRoot(graph, i).status = "ok"
  BY DEF FinishedIsReadable
<1>1. Ready(i)
  BY DoneIsReady
<1>2. /\ Final(graph, i) /\ Counted(graph, i) /\ Lift(i, Kept(i)) \subseteq DOMAIN graph.children
  BY <1>1 DEF Ready
<1> DEFINE vs == {<<i, n, 1>>}
           first == ReadVertex(graph, TheVertex(vs))
           byOrder == CountChildrenWithOrder(graph, i, first.element.id) > 0
           goesOn == first.status = "ok" /\ first.element.noOfChildren > 0
           children == IF goesOn THEN ReadChildren(graph, i, first, byOrder) ELSE first
           node == [ status |-> "ok", element |-> FinalElement(i, n),
                     children |-> ShownChildren(i, n), breadcrumbs |-> {} ]
           above == Ancestors(graph.edges, Same(graph, i, n))
           crumbs == { Element(graph, v) : v \in above }
           r == GetHierarchyElement(graph, i, n)
<1>3. (MixedOrder(i, n) => children = Unreadable) /\ (~MixedOrder(i, n) => children = node)
  <2> HIDE DEF vs, first, byOrder, goesOn, children
  <2>1. vs = {<<i, n, 1>>}
    BY DEF vs
  <2>2. first = ReadVertex(graph, TheVertex(vs))
    BY DEF first
  <2>3. byOrder = (CountChildrenWithOrder(graph, i, first.element.id) > 0)
    BY DEF byOrder
  <2>4. goesOn <=> first.status = "ok" /\ first.element.noOfChildren > 0
    BY DEF goesOn
  <2>5. goesOn => children = ReadChildren(graph, i, first, byOrder)
    BY DEF children
  <2>6. ~goesOn => children = first
    BY DEF children
  <2> QED
    BY <1>1, <2>1, <2>2, <2>3, <2>4, <2>5, <2>6, ChildrenAreRead
<1>4. Same(graph, i, n) = vs
  BY <1>2, SameOfFinal
<1>5. r = IF children.status = "ok" THEN buildBreadcrumbs(graph, i, children) ELSE children
  BY <1>4 DEF GetHierarchyElement, HierarchyNode
<1>6. ASSUME \A p \in Nodes : <<n, p>> \notin Parent PROVE GetHierarchyRoot(graph, i) = children
  <2>1. Roots(graph, i) = vs
    BY <1>2, <1>6, RootOfReady
  <2> QED
    BY <2>1 DEF GetHierarchyRoot, HierarchyNode
<1>7. Unreadable.status = "error"
  BY DEF Unreadable
<1>8. FinalElement(i, n).id = n /\ FinalElement(i, n).noOfChildren = Below(i, n)
  BY DEF FinalElement, Below
<1>9. \A v \in above : Convertible(graph, v)
  <2>1. above = Lift(i, Ancestors(Parent, {n})) /\ Ancestors(Parent, {n}) \subseteq Kept(i)
    BY <1>2, FinalBreadcrumbs
  <2>2. above \subseteq Lift(i, Kept(i))
    <3> DEFINE A == Ancestors(Parent, {n})
    <3>1. above = Lift(i, A) /\ A \subseteq Kept(i)
      BY <2>1
    <3> HIDE DEF above, A
    <3> QED
      BY <3>1, InLift DEF Lift
  <2> QED
    BY <1>2, <2>2 DEF Convertible
<1>10. Cardinality(ShownChildren(i, n)) = Below(i, n)
  BY SizeOfShown
<1>11. CASE MixedOrder(i, n)
  <2>1. children = Unreadable
    BY <1>3, <1>11
  <2>2. r = Unreadable
    <3> HIDE DEF children, r
    <3> QED
      BY <1>5, <1>7, <2>1
  <2> QED
    BY <1>11, <2>2
<1>12. CASE ~MixedOrder(i, n)
  <2>1. children = node
    BY <1>3, <1>12
  <2> HIDE DEF children, r
  <2>2. children.status = "ok" /\ children.element.id = n
    BY <1>8, <2>1
  <2>3. buildBreadcrumbs(graph, i, children) = [children EXCEPT !.breadcrumbs = crumbs]
    BY <1>9, <2>2 DEF buildBreadcrumbs
  <2> HIDE DEF crumbs
  <2>4. r = [ status |-> "ok", element |-> FinalElement(i, n),
              children |-> ShownChildren(i, n), breadcrumbs |-> crumbs ]
    BY <1>5, <2>1, <2>2, <2>3
  <2>5. r.status = "ok" /\ r.element.noOfChildren = Cardinality(r.children)
    BY <1>8, <1>10, <2>4
  <2> QED
    BY <1>6, <1>12, <2>2, <2>5 DEF r
<1> QED
  BY <1>11, <1>12

\* When all builders follow the ID-based program and the code list has one root,
\* every node of a finished hierarchy can be read, but for those of which some
\* children have an order and some have none.
THEOREM FinishedHierarchiesAreReadable ==
  ASSUME WellBuilt, \A i \in Instances : IsNew(i), SingleRoot
  PROVE  Spec => []FinishedIsReadable
PROOF
<1>1. IInv /\ BuildInv => FinishedIsReadable
  BY ReadyIsReadable
<1> QED
  BY <1>1, Inductive, AlwaysBuilding, PTL
==============================================================================
