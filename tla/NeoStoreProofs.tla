---------------------------- MODULE NeoStoreProofs ----------------------------
(***************************************************************************)
(* Proofs about NeoStore, for any sets of jobs, however they interleave,   *)
(* are disturbed, lose the connection and are delivered again: what the    *)
(* import leaves in the graph, and how far a build of the hierarchy has    *)
(* got, up to the refinement of InstanceHierarchy.                         *)
(***************************************************************************)
EXTENDS NeoStore, FiniteSetLemmas

------------------------------------------------------------------------------
(* The inductive invariant.                                                *)

IsGraph(g) ==
  g = [ instances |-> g.instances, properties |-> g.properties, inDataset |-> g.inDataset,
        constraints |-> g.constraints, options |-> g.options, observations |-> g.observations,
        isValueOf |-> g.isValueOf, nodes |-> g.nodes, hasParent |-> g.hasParent,
        hasData |-> g.hasData, remain |-> g.remain, children |-> g.children ]

DimensionPositions == {"cacheDimension", "createUniqueConstraint", "insertDimension"}
Resting == {"absent", "waiting", "done", "failed"}

\* Only the insertion of a dimension is at its positions, and at no others.
PosInv ==
  \A j \in Jobs :
    /\ pos[j] \in DimensionPositions => j.op = "InsertDimension"
    /\ j.op = "InsertDimension" => pos[j] \in DimensionPositions \cup Resting

\* The statement a job is at has not been executed yet.
NotYet == \A j \in Jobs : pos[j] \notin Resting => executed[j] = 0

Creating(d) == \E j \in Jobs : pos[j] = "createUniqueConstraint" /\ Dimension[Option(j)] = d

\* A dimension in the cache has its constraint, or is about to get it, or could
\* not get it.
CacheInv ==
  /\ \A j \in Inserting("InsertDimension") :
       /\ pos[j] \in {"createUniqueConstraint", "insertDimension", "done"} =>
            Dimension[Option(j)] \in cache
       /\ pos[j] = "done" => \E n \in graph.options : n[1] = Option(j)
  /\ \A d \in cache \ unconstrained : d \in graph.constraints \/ Creating(d)

IInv == TypeOK /\ IsGraph(graph) /\ ReportIsExact /\ PosInv /\ NotYet /\ CacheInv

------------------------------------------------------------------------------
(* The statements: none takes an option or a constraint away, and none     *)
(* leaves a relationship behind.                                           *)

Keeps(g, h) ==
  /\ IsGraph(h) /\ Linked(h)
  /\ g.options \subseteq h.options /\ h.constraints = g.constraints

LEMMA ConstrainKeeps ==
  ASSUME NEW g, IsGraph(g), Linked(g), NEW c
  PROVE  /\ IsGraph(Constrain(g, c)) /\ Linked(Constrain(g, c))
         /\ Constrain(g, c).options = g.options
         /\ Constrain(g, c).constraints = g.constraints \cup {c}
<1>1. Constrain(g, c) = [g EXCEPT !.constraints = g.constraints \cup {c}]
  BY DEF Constrain
<1> QED
  BY <1>1 DEF IsGraph, Linked

LEMMA CreateInstanceKeeps ==
  ASSUME NEW g, IsGraph(g), Linked(g)
  PROVE  Keeps(g, CreateInstance(g))
<1> DEFINE I == g.instances \cup {Fresh(g.instances)}
<1>1. CreateInstance(g) = [g EXCEPT !.instances = I]
  BY DEF CreateInstance
<1> HIDE DEF I
<1> QED
  BY <1>1 DEF Keeps, IsGraph, Linked

LEMMA SetPropertiesKeeps ==
  ASSUME NEW g, IsGraph(g), Linked(g), NEW op
  PROVE  Keeps(g, SetProperties(g, op))
<1> DEFINE P == g.properties \cup (g.instances \X {op})
<1>1. SetProperties(g, op) = [g EXCEPT !.properties = P]
  BY DEF SetProperties
<1> HIDE DEF P
<1> QED
  BY <1>1 DEF Keeps, IsGraph, Linked

LEMMA CreateCodeRelationshipKeeps ==
  ASSUME NEW g, IsGraph(g), Linked(g), NEW code
  PROVE  Keeps(g, CreateCodeRelationship(g, code))
<1> DEFINE new == { <<code, i, Fresh({ e[3] : e \in { f \in g.inDataset : f[1] = code /\ f[2] = i } })>>
                    : i \in IF code \in Codes THEN g.instances ELSE {} }
           D == g.inDataset \cup new
<1>1. CreateCodeRelationship(g, code) = [g EXCEPT !.inDataset = D]
  BY DEF CreateCodeRelationship
<1> HIDE DEF D
<1> QED
  BY <1>1 DEF Keeps, IsGraph, Linked

LEMMA InsertDimensionKeeps ==
  ASSUME NEW g, IsGraph(g), Linked(g), NEW o
  PROVE  /\ Keeps(g, InsertDimension(g, o))
         /\ InsertDimension(g, o).options = g.options \cup NewOptions(g, o)
<1>1. InsertDimension(g, o) = [g EXCEPT !.options = g.options \cup NewOptions(g, o)]
  BY DEF InsertDimension
<1> QED
  BY <1>1 DEF Keeps, IsGraph, Linked

\* Observations are linked to the options that were matched.
LEMMA InsertObservationsKeeps ==
  ASSUME NEW g, IsGraph(g), Linked(g), NEW rows, NEW known
  PROVE  Keeps(g, InsertObservations(g, rows, known))
<1> DEFINE names == Names(rows[1])
           named(r) == { o \in OptionsOf[r] : LowerCase[Dimension[o]] \in names }
           found == { r \in Range(rows) : /\ names \subseteq Names(r)
                                         /\ \A o \in named(r) : Matched(g, o, known[o]) # {} }
           there(r) == Cardinality({ v \in g.observations : v[1] = r })
           times(r) == Cardinality({ i \in DOMAIN rows : rows[i] = r })
           nodes(r) == { <<r, there(r) + k>> : k \in 1..times(r) }
           V == UNION { nodes(r) : r \in found }
           options(r) == UNION { Matched(g, o, known[o]) : o \in named(r) }
           L == UNION { nodes(r) \X options(r) : r \in found }
<1>1. InsertObservations(g, rows, known) =
        [g EXCEPT !.observations = g.observations \cup V, !.isValueOf = g.isValueOf \cup L]
  BY DEF InsertObservations
<1>2. ASSUME NEW r \in found
      PROVE  options(r) \subseteq g.options
  BY DEF Matched
<1> HIDE DEF options, nodes, found
<1>3. \A l \in L : l[1] \in V /\ l[2] \in g.options
  BY <1>2
<1> HIDE DEF V, L
<1> QED
  BY <1>1, <1>3 DEF Keeps, IsGraph, Linked

LEMMA CloneNodesKeeps ==
  ASSUME NEW g, IsGraph(g), Linked(g)
  PROVE  Keeps(g, CloneNodes(g))
<1> DEFINE found(n) == \E v \in g.nodes \ g.hasData : v[1] = n
           new == { <<n, Fresh({ v[2] : v \in { u \in g.nodes : u[1] = n } })>>
                    : n \in { m \in Nodes : ~found(m) } }
           N == g.nodes \cup new
<1>1. CloneNodes(g) = [g EXCEPT !.nodes = N]
  BY DEF CloneNodes
<1>2. g.nodes \subseteq N
  OBVIOUS
<1> HIDE DEF N
<1>3. g.nodes \X g.nodes \subseteq N \X N
  BY <1>2
<1> QED
  BY <1>1, <1>2, <1>3 DEF Keeps, IsGraph, Linked

LEMMA CloneRelationshipsKeeps ==
  ASSUME NEW g, IsGraph(g), Linked(g)
  PROVE  Keeps(g, CloneRelationships(g))
<1> DEFINE new == { e \in g.nodes \X g.nodes : <<e[1][1], e[2][1]>> \in Parent }
<1>1. CloneRelationships(g) = [g EXCEPT !.hasParent = g.hasParent \cup new]
  BY DEF CloneRelationships
<1>2. new \subseteq g.nodes \X g.nodes
  OBVIOUS
<1> HIDE DEF new
<1> QED
  BY <1>1, <1>2 DEF Keeps, IsGraph, Linked

LEMMA SetNumberOfChildrenKeeps ==
  ASSUME NEW g, IsGraph(g), Linked(g)
  PROVE  Keeps(g, SetNumberOfChildren(g))
<1> DEFINE C == [v \in g.nodes |-> Cardinality({ e \in g.hasParent : e[2] = v })]
<1>1. SetNumberOfChildren(g) = [g EXCEPT !.children = C]
  BY DEF SetNumberOfChildren
<1> HIDE DEF C
<1> QED
  BY <1>1 DEF Keeps, IsGraph, Linked

LEMMA SetHasDataKeeps ==
  ASSUME NEW g, IsGraph(g), Linked(g)
  PROVE  Keeps(g, SetHasData(g))
<1> DEFINE new == { v \in g.nodes :
                      \E n \in g.options : n[1] = v[1] /\ Dimension[n[1]] = Hierarchical }
<1>1. SetHasData(g) = [g EXCEPT !.hasData = g.hasData \cup new]
  BY DEF SetHasData
<1>2. new \subseteq g.nodes
  OBVIOUS
<1> HIDE DEF new
<1> QED
  BY <1>1, <1>2 DEF Keeps, IsGraph, Linked

\* What is marked is an end of a relationship.
LEMMA MarkNodesToRemainKeeps ==
  ASSUME NEW g, IsGraph(g), Linked(g)
  PROVE  Keeps(g, MarkNodesToRemain(g))
<1> DEFINE above == Ancestors(g.hasParent, g.hasData)
           below == { e[1] : e \in { f \in g.hasParent : f[1] \in g.hasData } }
<1>1. MarkNodesToRemain(g) = [g EXCEPT !.remain = g.remain \cup above \cup below]
  BY DEF MarkNodesToRemain
<1>2. below \subseteq g.nodes
  BY DEF Linked
<1>3. above \subseteq { e[2] : e \in g.hasParent }
  BY DEF Ancestors, Generic!Ancestors
<1>4. above \subseteq g.nodes
  BY <1>3 DEF Linked
<1> HIDE DEF above, below
<1> QED
  BY <1>1, <1>2, <1>4 DEF Keeps, IsGraph, Linked

\* With a node go its relationships and what was known about it.
LEMMA RemoveNodesKeeps ==
  ASSUME NEW g, IsGraph(g), Linked(g)
  PROVE  Keeps(g, RemoveNodesNotMarkedToRemain(g))
<1> DEFINE gone == g.nodes \ g.remain
           E == { e \in g.hasParent : e[1] \notin gone /\ e[2] \notin gone }
           C == [v \in DOMAIN g.children \ gone |-> g.children[v]]
<1>1. RemoveNodesNotMarkedToRemain(g) =
        [g EXCEPT !.nodes = g.nodes \ gone, !.hasParent = E,
                  !.hasData = g.hasData \ gone, !.children = C]
  BY DEF RemoveNodesNotMarkedToRemain
<1>2. g.remain \subseteq g.nodes \ gone
  BY DEF Linked
<1>3. E \subseteq (g.nodes \ gone) \X (g.nodes \ gone)
  BY DEF Linked
<1> HIDE DEF gone, E, C
<1> QED
  BY <1>1, <1>2, <1>3 DEF Keeps, IsGraph, Linked

LEMMA RemoveRemainMarkerKeeps ==
  ASSUME NEW g, IsGraph(g), Linked(g)
  PROVE  Keeps(g, RemoveRemainMarker(g))
<1>1. RemoveRemainMarker(g) = [g EXCEPT !.remain = {}]
  BY DEF RemoveRemainMarker
<1> QED
  BY <1>1 DEF Keeps, IsGraph, Linked

------------------------------------------------------------------------------
(* Whatever statement a job is at.                                         *)

Labels == {"observation", "hierarchy"} \cup DOMAIN LowerCase

\* Only a constraint statement adds a constraint.
Added(j) ==
  CASE pos[j] = "createInstanceConstraint"  -> {"observation"}
    [] pos[j] = "createHierarchyConstraint" -> {"hierarchy"}
    [] pos[j] = "createUniqueConstraint"    -> {Dimension[Option(j)]}
    [] OTHER                                -> {}

LEMMA OptionsHaveDimensions ==
  ASSUME NEW j \in Inserting("InsertDimension")
  PROVE  /\ Option(j) \in Options
         /\ Dimension[Option(j)] \in DOMAIN LowerCase
         /\ Dimension[Option(j)] \notin {"observation", "hierarchy"}
<1>1. j \in Jobs /\ j.op = "InsertDimension"
  BY DEF Inserting
<1>2. Option(j) \in Options
  BY <1>1, NeoStoreAssumption DEF Option
<1> QED
  BY <1>2, NeoGraphAssumption

LEMMA ExecutedKeeps ==
  ASSUME IInv, NEW j \in Jobs, Sent(j)
  PROVE  /\ IsGraph(Executed(j)) /\ Linked(Executed(j))
         /\ graph.options \subseteq Executed(j).options
         /\ Executed(j).constraints = graph.constraints \cup Added(j)
<1>1. IsGraph(graph) /\ Linked(graph)
  BY DEF IInv, TypeOK
<1>2. CASE pos[j] = "createInstanceConstraint"
  <2>1. Executed(j) = Constrain(graph, "observation") /\ Added(j) = {"observation"}
    BY <1>2 DEF Executed, Added
  <2> QED
    BY <1>1, <2>1, ConstrainKeeps
<1>3. CASE pos[j] = "createHierarchyConstraint"
  <2>1. Executed(j) = Constrain(graph, "hierarchy") /\ Added(j) = {"hierarchy"}
    BY <1>3 DEF Executed, Added
  <2> QED
    BY <1>1, <2>1, ConstrainKeeps
<1>4. CASE pos[j] = "createUniqueConstraint"
  <2>1. /\ Executed(j) = Constrain(graph, Dimension[Option(j)])
        /\ Added(j) = {Dimension[Option(j)]}
    BY <1>4 DEF Executed, Added
  <2> QED
    BY <1>1, <2>1, ConstrainKeeps
<1>5. CASE pos[j] \notin {"createInstanceConstraint", "createHierarchyConstraint", "createUniqueConstraint"}
  <2>1. Added(j) = {}
    BY <1>5 DEF Added
  <2> SUFFICES Keeps(graph, Executed(j))
    BY <2>1 DEF Keeps
  <2>2. CASE pos[j] = "createInstance"
    <3>1. Executed(j) = CreateInstance(graph)
      BY <2>2 DEF Executed
    <3> QED
      BY <1>1, <3>1, CreateInstanceKeeps
  <2>3. CASE pos[j] = "insertDimension"
    <3>1. Executed(j) = InsertDimension(graph, Option(j))
      BY <2>3 DEF Executed
    <3> QED
      BY <1>1, <3>1, InsertDimensionKeeps
  <2>4. CASE pos[j] = "createCodeRelationship"
    <3>1. Executed(j) = CreateCodeRelationship(graph, Option(j))
      BY <2>4 DEF Executed
    <3> QED
      BY <1>1, <3>1, CreateCodeRelationshipKeeps
  <2>5. CASE pos[j] = "setProperties"
    <3>1. Executed(j) = SetProperties(graph, j.op)
      BY <2>5 DEF Executed
    <3> QED
      BY <1>1, <3>1, SetPropertiesKeeps
  <2>6. CASE pos[j] = "insertObservations"
    <3>1. Executed(j) = InsertObservations(graph, j.arg, ids)
      BY <2>6 DEF Executed
    <3> QED
      BY <1>1, <3>1, InsertObservationsKeeps
  <2>7. CASE pos[j] = "cloneNodes"
    <3>1. Executed(j) = CloneNodes(graph)
      BY <2>7 DEF Executed
    <3> QED
      BY <1>1, <3>1, CloneNodesKeeps
  <2>8. CASE pos[j] = "cloneRelationships"
    <3>1. Executed(j) = CloneRelationships(graph)
      BY <2>8 DEF Executed
    <3> QED
      BY <1>1, <3>1, CloneRelationshipsKeeps
  <2>9. CASE pos[j] = "setHasData"
    <3>1. Executed(j) = SetHasData(graph)
      BY <2>9 DEF Executed
    <3> QED
      BY <1>1, <3>1, SetHasDataKeeps
  <2>10. CASE pos[j] = "markNodesToRemain"
    <3>1. Executed(j) = MarkNodesToRemain(graph)
      BY <2>10 DEF Executed
    <3> QED
      BY <1>1, <3>1, MarkNodesToRemainKeeps
  <2>11. CASE pos[j] = "removeNodesNotMarkedToRemain"
    <3>1. Executed(j) = RemoveNodesNotMarkedToRemain(graph)
      BY <2>11 DEF Executed
    <3> QED
      BY <1>1, <3>1, RemoveNodesKeeps
  <2>12. CASE pos[j] = "removeRemainMarker"
    <3>1. Executed(j) = RemoveRemainMarker(graph)
      BY <2>12 DEF Executed
    <3> QED
      BY <1>1, <3>1, RemoveRemainMarkerKeeps
  <2>13. CASE pos[j] = "setNumberOfChildren"
    <3>1. Executed(j) = SetNumberOfChildren(graph)
      BY <2>13 DEF Executed
    <3> QED
      BY <1>1, <3>1, SetNumberOfChildrenKeeps
  <2>14. pos[j] \in Positions \ (Resting \cup {"cacheDimension", "createParams"})
    BY DEF IInv, TypeOK, Sent, Ended, Local, Resting
  <2> QED
    BY <1>5, <2>2, <2>3, <2>4, <2>5, <2>6, <2>7, <2>8, <2>9, <2>10, <2>11, <2>12, <2>13, <2>14 DEF Positions, Resting
<1> QED
  BY <1>2, <1>3, <1>4, <1>5

------------------------------------------------------------------------------
(* The steps.                                                              *)

Outcomes == {"none", "error", "ErrNonRetriable", "ErrAttemptsExceededLimit"}

\* The operation tries again, or ends with an error that tells which it was.
Handled(j, error) ==
  /\ attempt' \in [Jobs -> 1..MaxRetries]
  /\ \/ pos' = pos /\ outcome' = outcome /\ error = "Neo.TransientError"
     \/ /\ pos' = [pos EXCEPT ![j] = "failed"]
        /\ \E o \in Outcomes : /\ outcome' = [outcome EXCEPT ![j] = o]
                               /\ o = "ErrAttemptsExceededLimit" => error = "Neo.TransientError"

LEMMA HandleErrorOK ==
  ASSUME IInv, NEW j \in Jobs, NEW error, HandleError(j, error)
  PROVE  Handled(j, error)
<1> DEFINE final == checkAttempts(error, attempt[j])
<1>1. attempt \in [Jobs -> 1..MaxRetries] /\ MaxRetries \in Nat
  BY NeoStoreAssumption DEF IInv, TypeOK
<1>2. final \in Outcomes /\ (final = "ErrAttemptsExceededLimit" => error = "Neo.TransientError")
  BY DEF checkAttempts, isTransientError, Outcomes
<1>3. final = "none" => error = "Neo.TransientError" /\ attempt[j] < MaxRetries
  BY <1>1 DEF checkAttempts, isTransientError
<1>4. CASE ~Retries(j)
  <2>1. Fail(j, "error")
    BY <1>4 DEF HandleError
  <2> QED
    BY <2>1, <1>1 DEF Fail, Handled, Outcomes
<1>5. CASE Retries(j) /\ final = "none"
  <2>1. Retry(j)
    BY <1>5 DEF HandleError
  <2> HIDE DEF final
  <2>2. attempt[j] + 1 \in 1..MaxRetries
    BY <1>1, <1>3, <1>5
  <2> QED
    BY <2>1, <2>2, <1>1, <1>3, <1>5 DEF Retry, Handled
<1>6. CASE Retries(j) /\ final # "none"
  <2>1. Fail(j, IF j.op = "BuildHierarchy" THEN final ELSE "error")
    BY <1>6 DEF HandleError
  <2> HIDE DEF final
  <2> QED
    BY <2>1, <1>1, <1>2 DEF Fail, Handled, Outcomes
<1> QED
  BY <1>4, <1>5, <1>6

\* A call begins at a position of its operation, and has not ended well yet.
LEMMA FirstStatementOK ==
  ASSUME NEW j \in Jobs
  PROVE  /\ FirstStatement(j) \in Positions
         /\ FirstStatement(j) # "done"
         /\ FirstStatement(j) \in DimensionPositions <=> j.op = "InsertDimension"
         /\ j.op = "InsertDimension" => FirstStatement(j) = "cacheDimension"
BY DEF FirstStatement, Positions, DimensionPositions

LEMMA DeliverOK ==
  ASSUME IInv, NEW j \in Jobs, Deliver(j)
  PROVE  IInv'
<1> DEFINE p == FirstStatement(j)
<1>1. /\ p \in Positions /\ p # "done"
      /\ p \in DimensionPositions <=> j.op = "InsertDimension"
      /\ j.op = "InsertDimension" => p = "cacheDimension"
  BY FirstStatementOK
<1> HIDE DEF p
<1>2. /\ pos \in [Jobs -> Positions] /\ attempt \in [Jobs -> 1..MaxRetries]
      /\ outcome \in [Jobs -> Outcomes] /\ executed \in [Jobs -> 0..1]
      /\ redelivered \in 0..MaxRedeliveries
      /\ MaxRetries \in Nat \ {0} /\ MaxRedeliveries \in Nat
  BY NeoStoreAssumption DEF IInv, TypeOK, Outcomes
<1>3. /\ pos' = [pos EXCEPT ![j] = p] /\ attempt' = [attempt EXCEPT ![j] = 1]
      /\ executed' = [executed EXCEPT ![j] = 0]
      /\ \E o \in {"error", "none"} : outcome' = [outcome EXCEPT ![j] = o]
      /\ UNCHANGED <<graph, cache, unconstrained, ids, built, lost>>
  BY DEF Deliver, p
<1>4. redelivered' \in 0..MaxRedeliveries
  BY <1>2 DEF Deliver
<1>5. TypeOK'
  <2>1. pos' \in [Jobs -> Positions] /\ attempt' \in [Jobs -> 1..MaxRetries]
    BY <1>1, <1>2, <1>3
  <2>2. outcome' \in [Jobs -> Outcomes] /\ executed' \in [Jobs -> 0..1]
    BY <1>2, <1>3 DEF Outcomes
  <2> QED
    BY <1>3, <1>4, <2>1, <2>2 DEF IInv, TypeOK, Linked, Constrained, Unique, Outcomes
<1>6. ReportIsExact' /\ NotYet'
  BY <1>1, <1>2, <1>3 DEF IInv, ReportIsExact, NotYet
<1>7. PosInv'
  BY <1>1, <1>2, <1>3 DEF IInv, PosInv
<1>8. CacheInv'
  <2>1. pos[j] # "createUniqueConstraint"
    BY DEF Deliver, Ended
  <2> QED
    BY <1>1, <1>2, <1>3, <2>1 DEF IInv, CacheInv, Creating, Inserting, DimensionPositions
<1> QED
  BY <1>3, <1>5, <1>6, <1>7, <1>8 DEF IInv, IsGraph

LEMMA CacheDimensionOK ==
  ASSUME IInv, NEW j \in Jobs, CacheDimension(j)
  PROVE  IInv'
<1> DEFINE d == Dimension[Option(j)]
           p == IF d \in cache THEN "insertDimension" ELSE "createUniqueConstraint"
<1>1. /\ pos \in [Jobs -> Positions] /\ executed[j] = 0
      /\ pos[j] = "cacheDimension" /\ j \in Inserting("InsertDimension")
  BY DEF IInv, TypeOK, CacheDimension, PosInv, NotYet, DimensionPositions, Resting, Inserting
<1>2. d \in DOMAIN LowerCase
  BY <1>1, OptionsHaveDimensions
<1>3. /\ pos' = [pos EXCEPT ![j] = p] /\ cache' = cache \cup {d}
      /\ UNCHANGED <<graph, attempt, outcome, executed, unconstrained, ids, built, redelivered, lost>>
  BY DEF CacheDimension
<1>4. /\ p \in Positions \ Resting /\ p \in DimensionPositions /\ p # "cacheDimension"
      /\ d \in cache \/ p = "createUniqueConstraint"
  BY DEF Positions, Resting, DimensionPositions
<1> HIDE DEF p, d
<1>5. TypeOK'
  BY <1>1, <1>2, <1>3, <1>4 DEF IInv, TypeOK, Linked, Constrained, Unique
<1>6. ReportIsExact' /\ NotYet'
  BY <1>1, <1>3, <1>4 DEF IInv, ReportIsExact, NotYet, Resting
<1>7. PosInv'
  BY <1>1, <1>3, <1>4 DEF IInv, PosInv, Inserting
<1>8. CacheInv'
  <2>1. ASSUME NEW k \in Inserting("InsertDimension")
        PROVE  /\ pos'[k] \in {"createUniqueConstraint", "insertDimension", "done"} =>
                    Dimension[Option(k)] \in cache'
               /\ pos'[k] = "done" => \E n \in graph'.options : n[1] = Option(k)
    BY <1>1, <1>3, <1>4 DEF IInv, CacheInv, Inserting, d, Resting
  <2>2. ASSUME NEW e \in cache' \ unconstrained'
        PROVE  e \in graph'.constraints \/ Creating(e)'
    <3>1. CASE e \in cache
      BY <1>1, <1>3, <3>1 DEF IInv, CacheInv, Creating
    <3>2. CASE e = d /\ e \notin cache
      BY <1>1, <1>3, <1>4, <3>2 DEF Creating, d
    <3> QED
      BY <1>3, <3>1, <3>2
  <2> QED
    BY <2>1, <2>2 DEF CacheInv, Inserting
<1> QED
  BY <1>3, <1>5, <1>6, <1>7, <1>8 DEF IInv, IsGraph

\* A statement has been answered with an error, or not at all: h is the graph
\* it leaves.
LEMMA HandledKeeps ==
  ASSUME IInv, NEW j \in Jobs, pos[j] \notin Resting, NEW error, Handled(j, error),
         NoteConstraint(j), NEW h, graph' = h,
         IsGraph(h), Linked(h), Constrained(h),
         graph.options \subseteq h.options, graph.constraints \subseteq h.constraints,
         \/ executed' = executed
         \/ executed' = [executed EXCEPT ![j] = @ + 1] /\ error = "connection",
         UNCHANGED <<cache, ids, built, redelivered>>, lost' \in 0..MaxLosses
  PROVE  IInv'
<1>1. /\ pos \in [Jobs -> Positions] /\ executed[j] = 0 /\ executed \in [Jobs -> 0..1]
      /\ outcome \in [Jobs -> Outcomes]
  BY DEF IInv, TypeOK, NotYet, Outcomes
<1>2. pos' = pos \/ pos' = [pos EXCEPT ![j] = "failed"]
  BY DEF Handled
<1>3. \/ unconstrained' = unconstrained /\ pos[j] # "createUniqueConstraint"
      \/ unconstrained' = unconstrained \cup {Dimension[Option(j)]} /\ pos[j] = "createUniqueConstraint"
  BY DEF NoteConstraint
<1>4. unconstrained' \subseteq cache'
  <2>1. CASE pos[j] = "createUniqueConstraint"
    BY <1>3, <2>1 DEF IInv, TypeOK, PosInv, CacheInv, Inserting, DimensionPositions
  <2> QED
    BY <1>3, <2>1 DEF IInv, TypeOK
<1>5. TypeOK'
  <2>1. pos' \in [Jobs -> Positions]
    BY <1>1, <1>2 DEF Positions
  <2>2. executed' \in [Jobs -> 0..1]
    BY <1>1
  <2>3. attempt' \in [Jobs -> 1..MaxRetries] /\ outcome' \in [Jobs -> Outcomes]
    BY <1>1 DEF Handled
  <2>4. /\ ids' \in [Options -> {0} \cup { n[2] : n \in graph'.options }]
        /\ \A o \in Options : ids'[o] = 0 \/ \E n \in graph'.options : n[1] = o /\ n[2] = ids'[o]
    <3>1. { n[2] : n \in graph.options } \subseteq { n[2] : n \in graph'.options }
      OBVIOUS
    <3> QED
      BY <3>1 DEF IInv, TypeOK
  <2>5. Linked(graph)' /\ Constrained(graph)'
    BY DEF Linked, Constrained, Unique
  <2> QED
    BY <1>4, <2>1, <2>2, <2>3, <2>4, <2>5 DEF IInv, TypeOK, Outcomes
<1>6. ReportIsExact'
  BY <1>1, <1>2 DEF IInv, ReportIsExact, Handled, Resting
<1>7. NotYet' /\ PosInv'
  BY <1>1, <1>2 DEF IInv, NotYet, PosInv, Handled, Resting, DimensionPositions
<1>8. CacheInv'
  <2>1. ASSUME NEW k \in Inserting("InsertDimension")
        PROVE  /\ pos'[k] \in {"createUniqueConstraint", "insertDimension", "done"} =>
                    Dimension[Option(k)] \in cache'
               /\ pos'[k] = "done" => \E n \in graph'.options : n[1] = Option(k)
    BY <1>1, <1>2 DEF IInv, CacheInv, Inserting
  <2>2. ASSUME NEW d \in cache' \ unconstrained'
        PROVE  d \in graph'.constraints \/ Creating(d)'
    <3>1. d \in graph.constraints \/ Creating(d)
      BY <1>3 DEF IInv, CacheInv
    <3>2. CASE Creating(d)
      <4>1. PICK k \in Jobs : pos[k] = "createUniqueConstraint" /\ Dimension[Option(k)] = d
        BY <3>2 DEF Creating
      <4>2. k # j
        BY <4>1, <1>3
      <4> QED
        BY <4>1, <4>2, <1>1, <1>2 DEF Creating
    <3> QED
      BY <3>1, <3>2
  <2> QED
    BY <2>1, <2>2 DEF CacheInv, Inserting
<1> QED
  BY <1>5, <1>6, <1>7, <1>8 DEF IInv, IsGraph

LEMMA CreateParamsOK ==
  ASSUME IInv, NEW j \in Jobs, CreateParams(j)
  PROVE  IInv'
<1>1. /\ pos \in [Jobs -> Positions] /\ executed[j] = 0 /\ pos[j] = "createParams"
      /\ outcome \in [Jobs -> Outcomes] /\ j.op # "InsertDimension"
  BY DEF IInv, TypeOK, CreateParams, NotYet, Resting, Outcomes, PosInv, DimensionPositions
<1>2. \E p \in {"insertObservations", "failed"}, o \in {outcome[j], "error"} :
        pos' = [pos EXCEPT ![j] = p] /\ outcome' = [outcome EXCEPT ![j] = o]
  BY <1>1 DEF CreateParams, Fail
<1>3. UNCHANGED <<graph, attempt, executed, cache, unconstrained, ids, built, redelivered, lost>>
  BY DEF CreateParams, Fail
<1>4. TypeOK'
  <2>1. pos' \in [Jobs -> Positions]
    BY <1>1, <1>2 DEF Positions
  <2>2. outcome' \in [Jobs -> Outcomes]
    BY <1>1, <1>2 DEF Outcomes
  <2> QED
    BY <1>3, <2>1, <2>2 DEF IInv, TypeOK, Linked, Constrained, Unique, Outcomes
<1>5. ReportIsExact' /\ NotYet' /\ PosInv'
  BY <1>1, <1>2, <1>3 DEF IInv, ReportIsExact, NotYet, PosInv, Resting, DimensionPositions
<1>6. CacheInv'
  BY <1>1, <1>2, <1>3 DEF IInv, CacheInv, Creating, Inserting
<1> QED
  BY <1>3, <1>4, <1>5, <1>6 DEF IInv, IsGraph

\* Where an operation goes on to; the insertion of a dimension ends well only
\* when there is an instance node.
LEMMA AfterOK ==
  ASSUME IInv, NEW j \in Jobs, Sent(j), NEW p \in After(j)
  PROVE  /\ p \in Positions
         /\ j.op = "InsertDimension" /\ pos[j] = "createUniqueConstraint" => p = "insertDimension"
         /\ j.op = "InsertDimension" /\ pos[j] = "insertDimension" => p \in {"done", "failed"}
         /\ j.op = "InsertDimension" /\ p = "done" =>
              pos[j] = "insertDimension" /\ graph.instances # {}
         /\ j.op = "InsertDimension" => pos[j] \in {"createUniqueConstraint", "insertDimension"}
         /\ j.op # "InsertDimension" => p \notin DimensionPositions
<1>1. pos[j] \in Positions \ (Resting \cup {"cacheDimension", "createParams"})
  BY DEF IInv, TypeOK, Sent, Ended, Local, Resting
<1>2. /\ pos[j] \in DimensionPositions => j.op = "InsertDimension"
      /\ j.op = "InsertDimension" => pos[j] \in DimensionPositions \cup Resting
  BY DEF IInv, PosInv
<1>3. CASE pos[j] = "createUniqueConstraint"
  BY <1>2, <1>3 DEF After, Positions, DimensionPositions
<1>4. CASE pos[j] = "insertDimension"
  BY <1>2, <1>4 DEF After, CheckRows, Positions, DimensionPositions
<1>5. CASE pos[j] \notin {"createUniqueConstraint", "insertDimension"}
  <2>1. j.op # "InsertDimension"
    BY <1>1, <1>2, <1>5 DEF DimensionPositions, Resting
  <2>2. p \in Positions /\ p \notin DimensionPositions
    <3>1. CheckRowsAffected(j) \subseteq {"done", "failed"}
      BY DEF CheckRowsAffected
    <3>2. checkPropertiesSet(j) \subseteq {"done", "failed"}
      BY DEF checkPropertiesSet
    <3>3. CheckBatch(j) \subseteq {"done", "failed"}
      BY DEF CheckBatch
    <3> QED
      BY <1>1, <1>5, <3>1, <3>2, <3>3 DEF After, Positions, DimensionPositions
  <2> QED
    BY <2>1, <2>2
<1> QED
  BY <1>3, <1>4, <1>5

\* What is executed without breaking a constraint leaves a graph in which all
\* constraints hold.
LEMMA ExecutedConstrained ==
  ASSUME IInv, NEW j \in Jobs, Sent(j), ~Breaks(Executed(j))
  PROVE  Constrained(Executed(j))
<1>1. Executed(j).constraints = graph.constraints \cup Added(j)
  BY ExecutedKeeps
<1>2. Added(j) \subseteq Labels
  <2>1. CASE pos[j] = "createUniqueConstraint"
    <3>1. j \in Inserting("InsertDimension")
      BY <2>1 DEF IInv, PosInv, Inserting, DimensionPositions
    <3> QED
      BY <2>1, <3>1, OptionsHaveDimensions DEF Added, Labels
  <2> QED
    BY <2>1 DEF Added, Labels
<1> QED
  BY <1>1, <1>2 DEF IInv, TypeOK, Constrained, Breaks, Labels

\* The ID that becomes known is that of a new node of the option.
LEMMA KnownIDsOK ==
  ASSUME IInv, NEW j \in Jobs, Sent(j), NEW p, NEW known \in KnownIDs(j, p)
  PROVE  /\ known \in [Options -> {0} \cup { n[2] : n \in Executed(j).options }]
         /\ \A o \in Options : known[o] = 0 \/ \E n \in Executed(j).options : n[1] = o /\ n[2] = known[o]
<1>1. /\ graph.options \subseteq Executed(j).options
      /\ ids \in [Options -> {0} \cup { n[2] : n \in graph.options }]
      /\ \A o \in Options : ids[o] = 0 \/ \E n \in graph.options : n[1] = o /\ n[2] = ids[o]
  BY ExecutedKeeps DEF IInv, TypeOK
<1>2. CASE pos[j] = "insertDimension" /\ p = "done"
  <2>1. Option(j) \in Options
    BY <1>2, OptionsHaveDimensions DEF IInv, PosInv, Inserting, DimensionPositions
  <2>2. Executed(j).options = graph.options \cup NewOptions(graph, Option(j))
    BY <1>2, InsertDimensionKeeps DEF Executed, IInv, TypeOK
  <2>3. PICK n \in NewOptions(graph, Option(j)) : known = [ids EXCEPT ![Option(j)] = n[2]]
    BY <1>2 DEF KnownIDs
  <2>4. n[1] = Option(j)
    BY <2>3 DEF NewOptions
  <2>5. n \in Executed(j).options
    BY <2>2, <2>3
  <2>6. n[2] \in { m[2] : m \in Executed(j).options }
    BY <2>5
  <2>7. { m[2] : m \in graph.options } \subseteq { m[2] : m \in Executed(j).options }
    BY <1>1
  <2>8. known \in [Options -> {0} \cup { m[2] : m \in Executed(j).options }]
    BY <1>1, <2>1, <2>3, <2>6, <2>7
  <2> QED
    BY <1>1, <2>1, <2>3, <2>4, <2>5, <2>8
<1>3. CASE ~(pos[j] = "insertDimension" /\ p = "done")
  <2>1. known = ids
    BY <1>3 DEF KnownIDs
  <2>2. { m[2] : m \in graph.options } \subseteq { m[2] : m \in Executed(j).options }
    BY <1>1
  <2> QED
    BY <1>1, <2>1, <2>2
<1> QED
  BY <1>2, <1>3

LEMMA AnswerOK ==
  ASSUME IInv, NEW j \in Jobs, Answer(j)
  PROVE  IInv'
<1>1. PICK p \in After(j) :
        /\ pos' = [pos EXCEPT ![j] = p]
        /\ outcome' = [outcome EXCEPT ![j] = IF p = "failed" THEN "error" ELSE "none"]
        /\ executed' = [executed EXCEPT ![j] = IF p \in {"done", "failed"} THEN @ + 1 ELSE 0]
        /\ ids' \in KnownIDs(j, p)
        /\ built' = (built \/ (j.op = "BuildHierarchy" /\ p = "done"))
  BY DEF Answer
<1>2. /\ Sent(j) /\ ~Breaks(Executed(j)) /\ graph' = Executed(j)
      /\ attempt' = [attempt EXCEPT ![j] = 1]
      /\ UNCHANGED <<cache, unconstrained, redelivered, lost>>
  BY DEF Answer
<1>3. /\ p \in Positions
      /\ j.op = "InsertDimension" /\ pos[j] = "createUniqueConstraint" => p = "insertDimension"
      /\ j.op = "InsertDimension" /\ pos[j] = "insertDimension" => p \in {"done", "failed"}
      /\ j.op = "InsertDimension" /\ p = "done" => pos[j] = "insertDimension" /\ graph.instances # {}
      /\ j.op = "InsertDimension" => pos[j] \in {"createUniqueConstraint", "insertDimension"}
      /\ j.op # "InsertDimension" => p \notin DimensionPositions
  BY <1>1, <1>2, AfterOK
<1>4. /\ pos \in [Jobs -> Positions] /\ executed \in [Jobs -> 0..1] /\ executed[j] = 0
      /\ outcome \in [Jobs -> Outcomes] /\ attempt \in [Jobs -> 1..MaxRetries]
      /\ MaxRetries \in Nat \ {0}
  BY <1>2, NeoStoreAssumption DEF IInv, TypeOK, NotYet, Sent, Ended, Resting, Outcomes
<1>5. /\ IsGraph(graph') /\ Linked(graph') /\ Constrained(graph')
      /\ graph.options \subseteq graph'.options
      /\ graph'.constraints = graph.constraints \cup Added(j)
  BY <1>2, ExecutedKeeps, ExecutedConstrained
<1>6. TypeOK'
  <2>1. pos' \in [Jobs -> Positions] /\ attempt' \in [Jobs -> 1..MaxRetries]
    BY <1>1, <1>2, <1>3, <1>4
  <2>2. outcome' \in [Jobs -> Outcomes]
    BY <1>1, <1>4 DEF Outcomes
  <2>3. executed' \in [Jobs -> 0..1]
    BY <1>1, <1>4
  <2>4. /\ ids' \in [Options -> {0} \cup { n[2] : n \in graph'.options }]
        /\ \A o \in Options : ids'[o] = 0 \/ \E n \in graph'.options : n[1] = o /\ n[2] = ids'[o]
    BY <1>1, <1>2, KnownIDsOK
  <2>5. built' \in BOOLEAN
    BY <1>1 DEF IInv, TypeOK
  <2>6. Linked(graph)' /\ Constrained(graph)'
    BY <1>5 DEF Linked, Constrained, Unique
  <2> QED
    BY <1>2, <2>1, <2>2, <2>3, <2>4, <2>5, <2>6 DEF IInv, TypeOK, Outcomes
<1>7. ReportIsExact' /\ NotYet'
  BY <1>1, <1>4 DEF IInv, ReportIsExact, NotYet, Resting
<1>8. PosInv'
  BY <1>1, <1>3, <1>4 DEF IInv, PosInv, Resting, DimensionPositions
<1>9. CacheInv'
  <2>1. ASSUME NEW k \in Inserting("InsertDimension")
        PROVE  /\ pos'[k] \in {"createUniqueConstraint", "insertDimension", "done"} =>
                    Dimension[Option(k)] \in cache'
               /\ pos'[k] = "done" => \E n \in graph'.options : n[1] = Option(k)
    <3>1. CASE k = j
      <4>1. k \in Jobs /\ j.op = "InsertDimension"
        BY <3>1 DEF Inserting
      <4>2. Dimension[Option(k)] \in cache'
        BY <1>2, <1>3, <3>1, <4>1 DEF IInv, CacheInv
      <4>3. pos'[k] = "done" => \E n \in graph'.options : n[1] = Option(k)
        <5> SUFFICES ASSUME p = "done"
                     PROVE  \E n \in graph'.options : n[1] = Option(k)
          BY <1>1, <1>4, <3>1, <4>1
        <5>1. pos[j] = "insertDimension" /\ graph.instances # {}
          BY <1>3, <4>1
        <5>2. graph'.options = graph.options \cup NewOptions(graph, Option(j))
          BY <1>2, <5>1, InsertDimensionKeeps DEF Executed, IInv, TypeOK
        <5>3. \E n \in NewOptions(graph, Option(j)) : n[1] = Option(j)
          <6>1. PICK i \in graph.instances : TRUE
            BY <5>1
          <6> DEFINE new == <<Option(j), Cardinality(graph.options) + i, i>>
          <6>2. new \in NewOptions(graph, Option(j))
            BY <6>1 DEF NewOptions
          <6>3. new[1] = Option(j)
            OBVIOUS
          <6> QED
            BY <6>2, <6>3
        <5> QED
          BY <3>1, <5>2, <5>3
      <4> QED
        BY <4>2, <4>3
    <3>2. CASE k # j
      <4>1. k \in Jobs /\ pos'[k] = pos[k]
        BY <1>1, <1>4, <3>2 DEF Inserting
      <4> QED
        BY <1>2, <1>5, <4>1 DEF IInv, CacheInv
    <3> QED
      BY <3>1, <3>2
  <2>2. ASSUME NEW d \in cache' \ unconstrained'
        PROVE  d \in graph'.constraints \/ Creating(d)'
    <3>1. d \in graph.constraints \/ Creating(d)
      BY <1>2 DEF IInv, CacheInv
    <3>2. CASE d \in graph.constraints
      BY <1>5, <3>2
    <3>3. CASE Creating(d)
      <4>1. PICK k \in Jobs : pos[k] = "createUniqueConstraint" /\ Dimension[Option(k)] = d
        BY <3>3 DEF Creating
      <4>2. CASE k = j
        BY <1>5, <4>1, <4>2 DEF Added
      <4>3. CASE k # j
        BY <1>1, <1>4, <4>1, <4>3 DEF Creating
      <4> QED
        BY <4>2, <4>3
    <3> QED
      BY <3>1, <3>2, <3>3
  <2> QED
    BY <2>1, <2>2 DEF CacheInv, Inserting
<1> QED
  BY <1>5, <1>6, <1>7, <1>8, <1>9 DEF IInv, IsGraph

LEMMA ErrorOK ==
  ASSUME IInv, NEW j \in Jobs, Refuse(j) \/ Disturb(j) \/ Lose(j)
  PROVE  IInv'
<1>1. /\ Sent(j) /\ pos[j] \notin Resting
      /\ IsGraph(graph) /\ Linked(graph) /\ Constrained(graph) /\ lost \in 0..MaxLosses
      /\ MaxLosses \in Nat
  BY NeoStoreAssumption DEF Refuse, Disturb, Lose, Sent, Ended, Resting, IInv, TypeOK
<1>2. CASE Refuse(j) \/ Disturb(j)
  <2>1. PICK error \in {"Neo.ClientError", "Neo.TransientError"} : HandleError(j, error)
    BY <1>2 DEF Refuse, Disturb
  <2>2. /\ NoteConstraint(j) /\ executed' = executed /\ graph' = graph /\ lost' \in 0..MaxLosses
        /\ UNCHANGED <<cache, ids, built, redelivered>>
    BY <1>1, <1>2 DEF Refuse, Disturb
  <2>3. Handled(j, error)
    BY <2>1, HandleErrorOK
  <2> QED
    BY <1>1, <2>2, <2>3, HandledKeeps
<1>3. CASE Lose(j)
  <2>1. /\ HandleError(j, "connection") /\ NoteConstraint(j)
        /\ UNCHANGED <<cache, ids, built, redelivered>> /\ lost' \in 0..MaxLosses
    BY <1>1, <1>3 DEF Lose
  <2>2. Handled(j, "connection")
    BY <2>1, HandleErrorOK
  <2>3. CASE graph' = graph /\ executed' = executed
    BY <1>1, <2>1, <2>2, <2>3, HandledKeeps
  <2>4. CASE /\ ~Breaks(Executed(j)) /\ graph' = Executed(j)
             /\ executed' = [executed EXCEPT ![j] = @ + 1]
    <3>1. /\ IsGraph(Executed(j)) /\ Linked(Executed(j)) /\ Constrained(Executed(j))
          /\ graph.options \subseteq Executed(j).options
          /\ graph.constraints \subseteq Executed(j).constraints
      BY <1>1, <2>4, ExecutedKeeps, ExecutedConstrained
    <3> QED
      BY <1>1, <2>1, <2>2, <2>4, <3>1, HandledKeeps
  <2> QED
    BY <1>3, <2>3, <2>4 DEF Lose
<1> QED
  BY <1>2, <1>3

LEMMA InitOK ==
  ASSUME Init
  PROVE  IInv
<1>1. \E W \in Workloads : pos = [j \in Jobs |-> IF j \in W THEN "waiting" ELSE "absent"]
  BY DEF Init
<1>2. \A j \in Jobs : pos[j] \in {"absent", "waiting"}
  BY <1>1
<1>3. pos \in [Jobs -> Positions]
  BY <1>1 DEF Positions
<1>4. /\ graph = EmptyGraph /\ attempt = [j \in Jobs |-> 1] /\ outcome = [j \in Jobs |-> "none"]
      /\ executed = [j \in Jobs |-> 0] /\ cache = {} /\ unconstrained = {}
      /\ ids = [o \in Options |-> 0] /\ built = FALSE /\ redelivered = 0 /\ lost = 0
  BY DEF Init
<1>5. IsGraph(graph) /\ Linked(graph) /\ Constrained(graph)
  BY <1>4 DEF EmptyGraph, IsGraph, Linked, Constrained
<1>6. TypeOK
  <2>1. attempt \in [Jobs -> 1..MaxRetries] /\ redelivered \in 0..MaxRedeliveries /\ lost \in 0..MaxLosses
    BY <1>4, NeoStoreAssumption
  <2>2. outcome \in [Jobs -> {"none", "error", "ErrNonRetriable", "ErrAttemptsExceededLimit"}]
    BY <1>4
  <2>3. executed \in [Jobs -> 0..1] /\ ids \in [Options -> {0} \cup { n[2] : n \in graph.options }]
    BY <1>4
  <2>4. \A o \in Options : ids[o] = 0
    BY <1>4
  <2> QED
    BY <1>3, <1>4, <1>5, <2>1, <2>2, <2>3, <2>4 DEF TypeOK
<1>7. ReportIsExact /\ PosInv /\ NotYet
  BY <1>2, <1>4 DEF ReportIsExact, PosInv, NotYet, Resting, DimensionPositions
<1>8. CacheInv
  BY <1>2, <1>4 DEF CacheInv, Inserting
<1> QED
  BY <1>5, <1>6, <1>7, <1>8 DEF IInv

LEMMA NextOK ==
  ASSUME IInv, [Next]_vars
  PROVE  IInv'
<1>1. ASSUME NEW j \in Jobs, Deliver(j)
      PROVE  IInv'
  BY <1>1, DeliverOK
<1>2. ASSUME NEW j \in Jobs, Step(j)
      PROVE  IInv'
  BY <1>2, CacheDimensionOK, CreateParamsOK, AnswerOK, ErrorOK DEF Step
<1>3. CASE UNCHANGED vars
  <2>1. /\ UNCHANGED <<graph, pos, attempt, outcome, executed, cache, unconstrained, ids, built>>
        /\ UNCHANGED <<redelivered, lost>>
    BY <1>3 DEF vars
  <2>2. TypeOK' /\ IsGraph(graph)'
    BY <2>1 DEF IInv, TypeOK, Linked, Constrained, Unique, IsGraph
  <2>3. ReportIsExact' /\ PosInv' /\ NotYet' /\ CacheInv'
    BY <2>1 DEF IInv, ReportIsExact, PosInv, NotYet, CacheInv, Creating, Inserting
  <2> QED
    BY <2>2, <2>3 DEF IInv
<1> QED
  BY <1>1, <1>2, <1>3 DEF Next, Idle

\* The invariant is inductive.
THEOREM Invariance == Spec => []IInv
<1>1. Init => IInv
  BY InitOK
<1>2. IInv /\ [Next]_vars => IInv'
  BY NextOK
<1> QED
  BY <1>1, <1>2, PTL DEF Spec

------------------------------------------------------------------------------
(* What follows from it.                                                   *)

\* The variables keep their types, all constraints hold at all times, and what
\* the services know of an option is the ID of one of its nodes (neo4j.go,
\* dimension.go).
THEOREM TypeCorrect == Spec => []TypeOK
<1>1. IInv => TypeOK
  BY DEF IInv
<1> QED
  BY <1>1, Invariance, PTL

\* checkAttempts and isTransientError never have a statement executed twice in
\* one call, and ErrAttemptsExceededLimit is true.
THEOREM ReportsAreExact == Spec => []ReportIsExact
<1>1. IInv => ReportIsExact
  BY DEF IInv
<1> QED
  BY <1>1, Invariance, PTL

\* The dimension cache and the constraint: an option that is reported as
\* inserted is there once, when the calls for its dimension have ended.
THEOREM DimensionsStayExact == Spec => []DimensionsAreExact
<1>1. IInv => DimensionsAreExact
  <2> SUFFICES ASSUME IInv, NEW j \in Inserting("InsertDimension"), pos[j] = "done",
                      \A k \in { i \in Inserting("InsertDimension") :
                                   Dimension[Option(i)] = Dimension[Option(j)] } :
                        Ended(k) \/ pos[k] \in {"absent", "waiting"},
                      Dimension[Option(j)] \notin unconstrained
               PROVE  Cardinality({ n \in graph.options : n[1] = Option(j) }) = 1
    BY DEF DimensionsAreExact
  <2> DEFINE d == Dimension[Option(j)]
             N == { n \in graph.options : n[1] = Option(j) }
  <2>1. d \in cache
    BY DEF IInv, CacheInv
  <2>2. PICK n \in graph.options : n[1] = Option(j)
    BY DEF IInv, CacheInv
  <2>3. ~Creating(d)
    <3> SUFFICES ASSUME NEW k \in Jobs, pos[k] = "createUniqueConstraint", Dimension[Option(k)] = d
                 PROVE  FALSE
      BY DEF Creating
    <3>1. k \in Inserting("InsertDimension")
      BY DEF IInv, PosInv, Inserting, DimensionPositions
    <3> QED
      BY <3>1 DEF Ended
  <2>4. d \in graph.constraints
    BY <2>1, <2>3 DEF IInv, CacheInv
  <2>5. \A u, v \in N : u = v
    <3>1. Unique(graph, d)
      BY <2>4 DEF IInv, TypeOK, Constrained
    <3>2. d \notin {"observation", "hierarchy"}
      BY OptionsHaveDimensions
    <3> QED
      BY <3>1, <3>2 DEF Unique
  <2>6. N = {n}
    BY <2>2, <2>5
  <2> QED
    BY <2>6, FS_Singleton
<1> QED
  BY <1>1, Invariance, PTL

------------------------------------------------------------------------------
(* Calls come to an end: what is left of a call, by the steps that may     *)
(* follow and the attempts left at the statement it is at.                 *)

Left(p, a) == Weight(StepsAfter(p), MaxRetries, MaxRetries + 1 - a)

LEMMA StepsAtPosition ==
  ASSUME NEW p \in Positions
  PROVE  /\ StepsAfter(p) \in 0..8
         /\ StepsAfter(p) = 0 <=> p \in Resting
BY DEF Positions, Resting, StepsAfter

\* A position that fewer steps follow, or an attempt more.
LEMMA StepsFall ==
  ASSUME NEW p \in Positions, NEW a \in 1..MaxRetries, NEW q \in Positions, NEW b \in 1..MaxRetries
  PROVE  /\ Left(p, a) \in 0..(8 * MaxRetries)
         /\ StepsAfter(q) < StepsAfter(p) => Left(q, b) \in 0..(Left(p, a) - 1)
         /\ p \notin Resting /\ a < b => Left(p, b) \in 0..(Left(p, a) - 1)
<1>1. StepsAfter(p) \in 0..8 /\ StepsAfter(q) \in 0..8 /\ (p \notin Resting => StepsAfter(p) > 0)
  BY StepsAtPosition
<1>2. PICK ta \in 1..MaxRetries, tb \in 1..MaxRetries :
        ta = MaxRetries + 1 - a /\ tb = MaxRetries + 1 - b /\ (a < b => tb < ta)
  BY NeoStoreAssumption
<1>3. /\ Left(p, a) = Weight(StepsAfter(p), MaxRetries, ta)
      /\ Left(q, b) = Weight(StepsAfter(q), MaxRetries, tb)
      /\ Left(p, b) = Weight(StepsAfter(p), MaxRetries, tb)
  BY <1>2 DEF Left
<1>4. MaxRetries \in Nat /\ 8 \in Nat
  BY NeoStoreAssumption
<1>5. Left(p, a) \in 0..(8 * MaxRetries)
  BY <1>1, <1>3, <1>4, WeightFalls
<1>6. StepsAfter(q) < StepsAfter(p) => Left(q, b) \in 0..(Left(p, a) - 1)
  BY <1>1, <1>3, <1>4, WeightFalls
<1>7. p \notin Resting /\ a < b => Left(p, b) \in 0..(Left(p, a) - 1)
  <2> SUFFICES ASSUME p \notin Resting, a < b PROVE Left(p, b) \in 0..(Left(p, a) - 1)
    OBVIOUS
  <2>1. StepsAfter(p) > 0 /\ tb < ta
    BY <1>1, <1>2
  <2>2. Weight(StepsAfter(p), MaxRetries, tb) \in 0..(Weight(StepsAfter(p), MaxRetries, ta) - 1)
    BY <1>1, <1>4, <2>1, WeightFalls
  <2> QED
    BY <1>3, <2>2
<1> QED
  BY <1>5, <1>6, <1>7

\* An operation goes on to a statement that fewer follow.
LEMMA AfterIsLater ==
  ASSUME IInv, NEW j \in Jobs, Sent(j), NEW p \in After(j)
  PROVE  p \in Positions /\ StepsAfter(p) < StepsAfter(pos[j])
<1>1. pos[j] \in Positions /\ pos[j] \notin Resting /\ p \in Positions
  BY AfterOK DEF IInv, TypeOK, Sent, Ended, Resting
<1>2. CASE p \in {"done", "failed"}
  BY <1>1, <1>2, StepsAtPosition DEF StepsAfter
<1>3. CASE p \notin {"done", "failed"}
  <2>1. /\ CheckRows \subseteq {"done", "failed"} /\ CheckBatch(j) \subseteq {"done", "failed"}
        /\ CheckRowsAffected(j) \subseteq {"done", "failed"}
        /\ checkPropertiesSet(j) \subseteq {"done", "failed"}
    BY DEF CheckRows, CheckRowsAffected, checkPropertiesSet, CheckBatch
  <2> QED
    BY <1>1, <1>3, <2>1 DEF After, StepsAfter
<1> QED
  BY <1>1, <1>2, <1>3

\* The other calls are left alone, and j moves to position p and attempt a.
LEMMA StepsMove ==
  ASSUME TypeOK, NEW j \in Jobs, NEW p, NEW a,
         pos' = [pos EXCEPT ![j] = p], attempt' = [attempt EXCEPT ![j] = a]
  PROVE  /\ \A k \in Jobs \ {j} : StepsLeft(k)' = StepsLeft(k)
         /\ StepsLeft(j) = Left(pos[j], attempt[j])
         /\ StepsLeft(j)' = Left(p, a)
<1>1. \A k \in Jobs \ {j} : pos'[k] = pos[k] /\ attempt'[k] = attempt[k]
  BY DEF TypeOK
<1>2. pos'[j] = p /\ attempt'[j] = a
  BY DEF TypeOK
<1>3. \A k \in Jobs \ {j} : StepsLeft(k)' = StepsLeft(k)
  BY <1>1 DEF StepsLeft
<1> QED
  BY <1>2, <1>3 DEF StepsLeft, Left, Weight

\* What a step of a call under way comes to.
Counts(j) ==
  /\ \A k \in Jobs \ {j} : StepsLeft(k)' = StepsLeft(k)
  /\ StepsLeft(j)' \in 0..(StepsLeft(j) - 1)

\* It goes on, or ends, or tries once more.
LEMMA MoveCounts ==
  ASSUME TypeOK, NEW j \in Jobs, pos[j] \notin Resting,
         NEW p \in Positions, NEW a \in 1..MaxRetries,
         pos' = [pos EXCEPT ![j] = p], attempt' = [attempt EXCEPT ![j] = a],
         StepsAfter(p) < StepsAfter(pos[j]) \/ (p = pos[j] /\ attempt[j] < a)
  PROVE  Counts(j)
<1>1. pos[j] \in Positions /\ attempt[j] \in 1..MaxRetries
  BY DEF TypeOK
<1>2. Left(p, a) \in 0..(Left(pos[j], attempt[j]) - 1)
  BY <1>1, StepsFall
<1> QED
  BY <1>2, StepsMove DEF Counts

LEMMA LocalCounts ==
  ASSUME IInv, NEW j \in Jobs, CacheDimension(j) \/ CreateParams(j)
  PROVE  Counts(j)
<1>1. /\ pos[j] \in {"cacheDimension", "createParams"} /\ pos[j] \notin Resting
      /\ attempt[j] \in 1..MaxRetries /\ attempt = [attempt EXCEPT ![j] = attempt[j]]
  BY DEF IInv, TypeOK, CacheDimension, CreateParams, Resting
<1>2. PICK p \in {"insertDimension", "createUniqueConstraint", "insertObservations", "failed"} :
        /\ pos' = [pos EXCEPT ![j] = p] /\ attempt' = attempt
        /\ p = "createUniqueConstraint" => pos[j] = "cacheDimension"
  BY DEF CacheDimension, CreateParams, Fail
<1>3. p \in Positions /\ StepsAfter(p) < StepsAfter(pos[j])
  BY <1>1, <1>2 DEF StepsAfter, Positions
<1> QED
  BY <1>1, <1>2, <1>3, MoveCounts DEF IInv

LEMMA AnswerCounts ==
  ASSUME IInv, NEW j \in Jobs, Answer(j)
  PROVE  Counts(j)
<1>1. Sent(j) /\ pos[j] \notin Resting /\ 1 \in 1..MaxRetries
  BY NeoStoreAssumption DEF Answer, Sent, Ended, Resting
<1>2. PICK p \in After(j) : pos' = [pos EXCEPT ![j] = p]
  BY DEF Answer
<1>3. attempt' = [attempt EXCEPT ![j] = 1]
  BY DEF Answer
<1> QED
  BY <1>1, <1>2, <1>3, AfterIsLater, MoveCounts DEF IInv

LEMMA ErrorCounts ==
  ASSUME IInv, NEW j \in Jobs, NEW error, Sent(j), HandleError(j, error)
  PROVE  Counts(j)
<1>1. /\ pos[j] \in Positions /\ pos[j] \notin Resting
      /\ attempt[j] \in 1..MaxRetries /\ MaxRetries \in Nat
      /\ pos = [pos EXCEPT ![j] = pos[j]] /\ attempt = [attempt EXCEPT ![j] = attempt[j]]
  BY NeoStoreAssumption DEF IInv, TypeOK, Sent, Ended, Resting
<1>2. CASE pos' = [pos EXCEPT ![j] = "failed"] /\ attempt' = attempt
  <2>1. "failed" \in Positions /\ StepsAfter("failed") < StepsAfter(pos[j])
    BY <1>1, StepsAtPosition DEF Positions, Resting
  <2> QED
    BY <1>1, <1>2, <2>1, MoveCounts DEF IInv
<1>3. CASE attempt[j] < MaxRetries /\ Retry(j)
  <2>1. attempt[j] + 1 \in 1..MaxRetries /\ attempt[j] < attempt[j] + 1
    BY <1>1, <1>3
  <2>2. attempt' = [attempt EXCEPT ![j] = attempt[j] + 1] /\ pos' = [pos EXCEPT ![j] = pos[j]]
    BY <1>1, <1>3 DEF Retry
  <2> QED
    BY <1>1, <2>1, <2>2, MoveCounts DEF IInv
<1>4. \E e : Fail(j, e) \/ (checkAttempts(error, attempt[j]) = "none" /\ Retry(j))
  BY DEF HandleError
<1>5. checkAttempts(error, attempt[j]) = "none" => attempt[j] < MaxRetries
  BY <1>1 DEF checkAttempts
<1> QED
  BY <1>2, <1>3, <1>4, <1>5 DEF Fail

LEMMA DeliverCounts ==
  ASSUME IInv, NEW j \in Jobs, Deliver(j)
  PROVE  /\ \A k \in Jobs \ {j} : StepsLeft(k)' = StepsLeft(k)
         /\ StepsLeft(j) = 0
         /\ StepsLeft(j)' \in 0..(8 * MaxRetries)
<1>1. pos[j] \in Resting /\ FirstStatement(j) \in Positions /\ 1 \in 1..MaxRetries
  BY FirstStatementOK, NeoStoreAssumption DEF Deliver, Ended, Resting
<1>2. pos' = [pos EXCEPT ![j] = FirstStatement(j)] /\ attempt' = [attempt EXCEPT ![j] = 1]
  BY DEF Deliver
<1>3. StepsLeft(j) = 0
  BY <1>1 DEF StepsLeft, StepsAfter, Resting
<1>4. Left(FirstStatement(j), 1) \in 0..(8 * MaxRetries)
  BY <1>1, StepsFall
<1> QED
  BY <1>2, <1>3, <1>4, StepsMove DEF IInv

\* Every step of a call brings its end nearer, however its statements are
\* disturbed: a call sends at most 8 * MaxRetries statements.
THEOREM CallsComeToAnEnd == Spec => EveryStepCounts
<1>1. ASSUME IInv, [Next]_vars
      PROVE  [\E j \in Jobs :
                /\ \A k \in Jobs \ {j} : StepsLeft(k)' = StepsLeft(k)
                /\ \/ StepsLeft(j) = 0 /\ StepsLeft(j)' \in 0..(8 * MaxRetries)
                   \/ StepsLeft(j)' \in 0..(StepsLeft(j) - 1)]_vars
  <2>1. ASSUME NEW j \in Jobs, Step(j) PROVE Counts(j)
    <3>1. CASE CacheDimension(j) \/ CreateParams(j)
      BY <1>1, <3>1, LocalCounts
    <3>2. CASE Answer(j)
      BY <1>1, <3>2, AnswerCounts
    <3>3. CASE Refuse(j) \/ Disturb(j) \/ Lose(j)
      <4>1. Sent(j) /\ \E error : HandleError(j, error)
        BY <3>3 DEF Refuse, Disturb, Lose
      <4> QED
        BY <1>1, <4>1, ErrorCounts
    <3> QED
      BY <2>1, <3>1, <3>2, <3>3 DEF Step
  <2>2. ASSUME NEW j \in Jobs, Deliver(j)
        PROVE  /\ \A k \in Jobs \ {j} : StepsLeft(k)' = StepsLeft(k)
               /\ StepsLeft(j) = 0
               /\ StepsLeft(j)' \in 0..(8 * MaxRetries)
    BY <1>1, <2>2, DeliverCounts
  <2> QED
    BY <1>1, <2>1, <2>2 DEF Next, Idle, Counts
<1> QED
  BY <1>1, Invariance, PTL DEF EveryStepCounts, Spec

------------------------------------------------------------------------------
(* Observations.  What a statement leaves of them and of the numbers that  *)
(* tell nodes apart.                                                       *)

LinksOf(g, v) == { l[2] : l \in { m \in g.isValueOf : m[1] = v } }

\* An observation is linked to nodes of its options only, and to one of each.
Exact(g, v) ==
  /\ v[1] \in Observations
  /\ \A n \in LinksOf(g, v) : n[1] \in OptionsOf[v[1]]
  /\ \A n, m \in LinksOf(g, v) : n[1] = m[1] => n = m

\* An observation is linked to each of its options.
Whole(g, v) == \A o \in OptionsOf[v[1]] : \E n \in LinksOf(g, v) : n[1] = o

\* How many observations of row r there are.
Count(g, r) == Cardinality({ v \in g.observations : v[1] = r })

\* Nodes of instances and observations are counted, IDs of options are unique.
Numbered(g) ==
  /\ IsFiniteSet(g.instances) /\ IsFiniteSet(g.options) /\ IsFiniteSet(g.observations)
  /\ g.instances = 1..Cardinality(g.instances)
  /\ \A n \in g.options : n[2] \in 1..Cardinality(g.options)
  /\ \A n, m \in g.options : n[2] = m[2] => n = m
  /\ \A v \in g.observations : Exact(g, v) /\ v[2] \in 1..Count(g, v[1])

\* Observations and their links stay.
Grows(g, h) == g.observations \subseteq h.observations /\ g.isValueOf \subseteq h.isValueOf

LEMMA WholeStays ==
  ASSUME NEW g, NEW h, Grows(g, h), NEW v, Whole(g, v)
  PROVE  Whole(h, v)
BY DEF Grows, Whole, LinksOf

\* What Numbered is about.
SameParts(g, h) ==
  /\ h.instances = g.instances /\ h.options = g.options
  /\ h.observations = g.observations /\ h.isValueOf = g.isValueOf

LEMMA SamePartsNumbered ==
  ASSUME NEW g, NEW h, Numbered(g), SameParts(g, h)
  PROVE  Numbered(h) /\ h.observations = g.observations /\ Grows(g, h)
BY DEF SameParts, Numbered, Exact, LinksOf, Count, Grows

LEMMA NewNumber ==
  ASSUME NEW taken, IsFiniteSet(taken)
  PROVE  Fresh(taken) \in 1..(Cardinality(taken) + 1) /\ Fresh(taken) \notin taken
<1>1. Generic!Cardinality(taken) = Cardinality(taken)
  BY DEF Generic!Cardinality, Cardinality
<1>2. Fresh(taken) = CHOOSE k \in 1..(Cardinality(taken) + 1) :
                       k \notin taken /\ \A j \in 1..(k - 1) : j \in taken
  BY <1>1 DEF Fresh, Generic!Fresh
<1> QED
  BY <1>2, LeastFreeNumber

\* The next instance node has the next number.
LEMMA CreateInstanceNumbered ==
  ASSUME NEW g, IsGraph(g), Numbered(g)
  PROVE  /\ Numbered(CreateInstance(g))
         /\ CreateInstance(g).observations = g.observations
         /\ Grows(g, CreateInstance(g))
<1> DEFINE c == Cardinality(g.instances)
           I == g.instances \cup {Fresh(g.instances)}
           h == CreateInstance(g)
<1>1. c \in Nat /\ IsFiniteSet(g.instances) /\ g.instances = 1..c
  BY FS_CardinalityType DEF Numbered
<1>2. Fresh(g.instances) \in 1..(c + 1) /\ Fresh(g.instances) \notin g.instances
  BY <1>1, NewNumber
<1>3. I = 1..(c + 1)
  <2> HIDE DEF c
  <2>1. Fresh(g.instances) = c + 1
    BY <1>1, <1>2
  <2> QED
    BY <1>1, <2>1
<1>4. IsFiniteSet(I) /\ Cardinality(I) = c + 1
  BY <1>1, <1>2, FS_AddElement
<1>5. h = [g EXCEPT !.instances = I]
  BY DEF CreateInstance
<1> HIDE DEF I, h, c
<1>6. /\ h.instances = I /\ h.options = g.options
      /\ h.observations = g.observations /\ h.isValueOf = g.isValueOf
  BY <1>5 DEF IsGraph
<1>7. Numbered(h) /\ Grows(g, h)
  BY <1>3, <1>4, <1>6 DEF Numbered, Exact, LinksOf, Count, Grows
<1> QED
  BY <1>6, <1>7 DEF h

\* New options get the numbers that follow, one for every instance node.
LEMMA InsertDimensionNumbered ==
  ASSUME NEW g, IsGraph(g), Numbered(g), NEW o
  PROVE  /\ Numbered(InsertDimension(g, o))
         /\ InsertDimension(g, o).observations = g.observations
         /\ Grows(g, InsertDimension(g, o))
         /\ \A n \in NewOptions(g, o) : n[2] # 0
<1> DEFINE c == Cardinality(g.options)
           k == Cardinality(g.instances)
           f == [i \in g.instances |-> <<o, c + i, i>>]
           N == NewOptions(g, o)
           h == InsertDimension(g, o)
<1>1. /\ c \in Nat /\ k \in Nat /\ IsFiniteSet(g.instances) /\ IsFiniteSet(g.options)
      /\ g.instances = 1..k
  BY FS_CardinalityType DEF Numbered
<1>2. N = { f[i] : i \in g.instances }
  BY DEF NewOptions
<1>3. \A i, j \in g.instances : f[i] = f[j] => i = j
  OBVIOUS
<1>4. DOMAIN f = g.instances
  OBVIOUS
<1>5. IsFiniteSet(N) /\ Cardinality(N) = k
  <2> HIDE DEF f, N
  <2> QED
    BY <1>1, <1>2, <1>3, <1>4, FiniteImage, SameSize
<1>6. \A n \in N : n[2] \in (c + 1)..(c + k)
  <2> HIDE DEF c, k
  <2>1. \A i \in g.instances : f[i][2] = c + i
    OBVIOUS
  <2> HIDE DEF N, f
  <2> QED
    BY <1>1, <1>2, <2>1
<1>7. \A n, m \in N : n[2] = m[2] => n = m
  <2> HIDE DEF c, k
  <2>1. \A i \in g.instances : f[i] = <<o, c + i, i>> /\ i \in Nat
    BY <1>1
  <2> HIDE DEF N, f
  <2> QED
    BY <1>1, <1>2, <2>1
<1>8. \A n \in g.options : n[2] \in 1..c
  BY DEF Numbered
<1>9. IsFiniteSet(g.options \cup N) /\ Cardinality(g.options \cup N) = c + k
  <2> HIDE DEF N, c, k
  <2>1. g.options \cap N = {}
    BY <1>1, <1>6, <1>8
  <2>2. IsFiniteSet(g.options \cup N) /\ Cardinality(g.options \cup N) = c + k - Cardinality({})
    BY <1>1, <1>5, <2>1, FS_Union DEF c
  <2> QED
    BY <1>1, <2>2, FS_EmptySet
<1>10. h = [g EXCEPT !.options = g.options \cup N]
  BY DEF InsertDimension
<1>11. \A n \in N : n[2] # 0
  BY <1>1, <1>6
<1>12. \A n, m \in g.options : n[2] = m[2] => n = m
  BY DEF Numbered
<1> HIDE DEF N, h, c, k
<1>13. /\ h.instances = g.instances /\ h.options = g.options \cup N
       /\ h.observations = g.observations /\ h.isValueOf = g.isValueOf
  BY <1>10 DEF IsGraph
<1>14. \A n \in h.options : n[2] \in 1..(c + k)
  BY <1>1, <1>6, <1>8, <1>13
<1>15. \A n, m \in h.options : n[2] = m[2] => n = m
  BY <1>1, <1>6, <1>7, <1>8, <1>12, <1>13
<1>16. Numbered(h)
  <2>1. /\ IsFiniteSet(h.instances) /\ IsFiniteSet(h.options) /\ IsFiniteSet(h.observations)
        /\ h.instances = 1..Cardinality(h.instances)
    BY <1>9, <1>13 DEF Numbered
  <2>2. \A n \in h.options : n[2] \in 1..Cardinality(h.options)
    BY <1>9, <1>13, <1>14
  <2>3. \A v \in h.observations : Exact(h, v) /\ v[2] \in 1..Count(h, v[1])
    <3>1. \A v : LinksOf(h, v) = LinksOf(g, v)
      BY <1>13 DEF LinksOf
    <3>2. \A r : Count(h, r) = Count(g, r)
      BY <1>13 DEF Count
    <3> QED
      BY <1>13, <3>1, <3>2 DEF Numbered, Exact
  <2> QED
    BY <1>15, <2>1, <2>2, <2>3 DEF Numbered
<1>17. Grows(g, h)
  BY <1>13 DEF Grows
<1> QED
  BY <1>11, <1>13, <1>16, <1>17 DEF h, N

\* The observations that are created are linked to options of their rows, and to
\* all of them when the row has the dimensions of the first one; the ID of an
\* option matches one node, or none, in which case the row is passed over.
LEMMA InsertObservationsNumbered ==
  ASSUME NEW g, IsGraph(g), Linked(g), Numbered(g),
         NEW rows \in Seq(Observations), NEW known,
         \A o \in Options : known[o] = 0 \/ \E n \in g.options : n[1] = o /\ n[2] = known[o]
  PROVE  /\ Numbered(InsertObservations(g, rows, known))
         /\ Grows(g, InsertObservations(g, rows, known))
         /\ \A v \in InsertObservations(g, rows, known).observations \ g.observations :
              /\ v[1] \in Range(rows)
              /\ Names(v[1]) = Names(rows[1]) => Whole(InsertObservations(g, rows, known), v)
         /\ \A r \in Range(rows) :
              HasLowerCase(r) /\ Names(r) = Names(rows[1]) /\ (\A o \in OptionsOf[r] : known[o] # 0) =>
                \E v \in InsertObservations(g, rows, known).observations : v[1] = r
<1> DEFINE names == Names(rows[1])
           named(r) == { o \in OptionsOf[r] : LowerCase[Dimension[o]] \in names }
           batch == Range(rows)
           found == { r \in batch : /\ names \subseteq Names(r)
                                    /\ \A o \in named(r) : Matched(g, o, known[o]) # {} }
           times(r) == Cardinality({ i \in DOMAIN rows : rows[i] = r })
           nodes(r) == { <<r, Count(g, r) + k>> : k \in 1..times(r) }
           V == UNION { nodes(r) : r \in found }
           options(r) == UNION { Matched(g, o, known[o]) : o \in named(r) }
           L == UNION { nodes(r) \X options(r) : r \in found }
           h == InsertObservations(g, rows, known)
           of(G, r) == { v \in G : v[1] = r }
<1>1. h = [g EXCEPT !.observations = g.observations \cup V, !.isValueOf = g.isValueOf \cup L]
  BY DEF InsertObservations, Count
<1>2. /\ batch \subseteq Observations /\ IsFiniteSet(batch) /\ IsFiniteSet(DOMAIN rows)
      /\ \A r \in batch : OptionsOf[r] \subseteq Options
  <2>1. DOMAIN rows = 1..Len(rows) /\ Len(rows) \in Nat /\ batch = { rows[i] : i \in DOMAIN rows }
    BY DEF Range
  <2>2. IsFiniteSet(DOMAIN rows)
    BY <2>1, FS_Interval
  <2>3. batch \subseteq Observations
    BY <2>1
  <2>4. IsFiniteSet(batch)
    BY <2>1, <2>2, FiniteImage
  <2> QED
    BY <2>2, <2>3, <2>4, NeoGraphAssumption DEF Observations
<1>3. ASSUME NEW r \in batch, NEW o \in OptionsOf[r], NEW n \in Matched(g, o, known[o])
      PROVE  n \in g.options /\ n[1] = o /\ n[2] = known[o]
  <2>1. n \in g.options /\ n[2] = known[o] /\ o \in Options
    BY <1>2 DEF Matched
  <2>2. n[2] # 0
    BY <2>1, FS_CardinalityType DEF Numbered
  <2>3. PICK m \in g.options : m[1] = o /\ m[2] = known[o]
    BY <2>1, <2>2
  <2>4. n = m
    BY <2>1, <2>3 DEF Numbered
  <2> QED
    BY <2>1, <2>3, <2>4
<1>4. ASSUME NEW r \in batch, HasLowerCase(r), Names(r) = names, \A o \in OptionsOf[r] : known[o] # 0
      PROVE  r \in found
  <2> SUFFICES ASSUME NEW o \in OptionsOf[r] PROVE Matched(g, o, known[o]) # {}
    BY <1>4
  <2>1. PICK n \in g.options : n[1] = o /\ n[2] = known[o]
    BY <1>2, <1>4
  <2>2. Dimension[n[1]] = LowerCase[Dimension[o]]
    BY <1>4, <2>1 DEF HasLowerCase
  <2>3. n \in Matched(g, o, known[o])
    BY <2>1, <2>2 DEF Matched
  <2> QED
    BY <2>3
<1>5. ASSUME NEW r \in batch
      PROVE  /\ Count(g, r) \in Nat /\ times(r) \in Nat /\ times(r) > 0
             /\ IsFiniteSet(of(g.observations, r))
  <2> DEFINE I == { i \in DOMAIN rows : rows[i] = r }
  <2>1. IsFiniteSet(of(g.observations, r)) /\ IsFiniteSet(I)
    BY <1>2, FS_Subset DEF Numbered
  <2>2. I # {}
    BY DEF Range
  <2> HIDE DEF I
  <2>3. Cardinality(I) \in Nat /\ Cardinality(I) # 0
    BY <2>1, <2>2, FS_CardinalityType, FS_EmptySet
  <2>4. Count(g, r) \in Nat
    BY <2>1, FS_CardinalityType DEF Count
  <2> QED
    BY <2>1, <2>3, <2>4 DEF I
<1>6. ASSUME NEW r \in batch
      PROVE  /\ IsFiniteSet(nodes(r)) /\ Cardinality(nodes(r)) = times(r)
             /\ \A v \in nodes(r) : v[1] = r /\ v[2] \in (Count(g, r) + 1)..(Count(g, r) + times(r))
             /\ \E v \in nodes(r) : TRUE
             /\ nodes(r) \cap g.observations = {}
  <2> DEFINE c == Count(g, r)
             t == times(r)
             f == [k \in 1..t |-> <<r, c + k>>]
             N == nodes(r)
  <2>1. c \in Nat /\ t \in Nat /\ t > 0
    BY <1>5
  <2> HIDE DEF c, t
  <2>2. N = { f[k] : k \in 1..t } /\ DOMAIN f = 1..t
    BY DEF c, t
  <2>3. \A k, m \in 1..t : f[k] = f[m] => k = m
    BY <2>1
  <2>4. \A k \in 1..t : f[k][1] = r /\ f[k][2] \in (c + 1)..(c + t)
    BY <2>1
  <2>5. IsFiniteSet(1..t) /\ Cardinality(1..t) = t
    BY <2>1, FS_Interval
  <2> HIDE DEF f, N
  <2>6. IsFiniteSet(N) /\ Cardinality(N) = t
    <3> DEFINE K == 1..t
    <3>1. IsFiniteSet(K) /\ Cardinality(K) = t /\ N = { f[k] : k \in K } /\ DOMAIN f = K
      BY <2>2, <2>5
    <3>2. \A k, m \in K : f[k] = f[m] => k = m
      BY <2>3
    <3> HIDE DEF K
    <3> QED
      BY <3>1, <3>2, FiniteImage, SameSize
  <2>7. \A v \in N : v[1] = r /\ v[2] \in (c + 1)..(c + t)
    BY <2>2, <2>4
  <2>8. f[1] \in N
    BY <2>1, <2>2
  <2>9. \A v \in g.observations : v[1] = r => v[2] \in 1..c
    BY DEF Numbered, c
  <2>10. N \cap g.observations = {}
    BY <2>1, <2>7, <2>9
  <2> QED
    BY <2>6, <2>7, <2>8, <2>10 DEF N, c, t
<1>7. /\ \A r \in found : r \in batch /\ \A o \in named(r) : Matched(g, o, known[o]) # {}
      /\ \A v \in V : \E r \in found : v \in nodes(r)
      /\ \A r \in found : nodes(r) \subseteq V
      /\ \A l \in L : \E r \in found : l[1] \in nodes(r) /\ l[2] \in options(r)
      /\ \A r \in found : \A v \in nodes(r) : \A n \in options(r) : <<v, n>> \in L
  <2>1. \A r \in found : r \in batch /\ \A o \in named(r) : Matched(g, o, known[o]) # {}
    OBVIOUS
  <2> HIDE DEF found, nodes, options
  <2>2. /\ \A v \in V : \E r \in found : v \in nodes(r)
        /\ \A r \in found : nodes(r) \subseteq V
    OBVIOUS
  <2>3. ASSUME NEW l \in L
        PROVE  \E r \in found : l[1] \in nodes(r) /\ l[2] \in options(r)
    <3>1. PICK r \in found : l \in nodes(r) \X options(r)
      OBVIOUS
    <3> QED
      BY <3>1
  <2>4. ASSUME NEW r \in found, NEW v \in nodes(r), NEW n \in options(r)
        PROVE  <<v, n>> \in L
    <3>1. <<v, n>> \in nodes(r) \X options(r)
      OBVIOUS
    <3> QED
      BY <3>1
  <2> QED
    BY <2>1, <2>2, <2>3, <2>4
<1>8. \A r \in batch : /\ \A n \in options(r) : \E o \in OptionsOf[r] : n \in Matched(g, o, known[o])
                       /\ \A o \in named(r) : Matched(g, o, known[o]) \subseteq options(r)
  OBVIOUS
<1>9. \A r : Names(r) = names => named(r) = OptionsOf[r]
  BY DEF Names
<1>10. IsFiniteSet(V)
  <2> DEFINE f == [r \in found |-> nodes(r)]
             S == { f[r] : r \in found }
  <2>1. IsFiniteSet(found)
    BY <1>2, FS_Subset
  <2>2. \A r \in found : IsFiniteSet(f[r])
    BY <1>6, <1>7
  <2>3. V = UNION S /\ DOMAIN f = found
    <3> HIDE DEF found, nodes
    <3>1. S = { nodes(r) : r \in found }
      OBVIOUS
    <3> QED
      BY <3>1
  <2> HIDE DEF f, V, found
  <2>4. IsFiniteSet(S) /\ \A T \in S : IsFiniteSet(T)
    BY <2>1, <2>2, <2>3, FiniteImage
  <2> QED
    BY <2>3, <2>4, FS_UNION
<1> HIDE DEF found, nodes, V, options, named, L, h, batch, times, names
<1>11. /\ h.instances = g.instances /\ h.options = g.options
       /\ h.observations = g.observations \cup V /\ h.isValueOf = g.isValueOf \cup L
  BY <1>1 DEF IsGraph
<1>12. Grows(g, h)
  BY <1>11 DEF Grows
<1>13. ASSUME NEW v \in g.observations
       PROVE  Exact(h, v)
  <2>1. \A l \in L : l[1] # v
    BY <1>6, <1>7
  <2>2. LinksOf(h, v) = LinksOf(g, v)
    BY <1>11, <2>1 DEF LinksOf
  <2> QED
    BY <2>2 DEF Numbered, Exact
<1>14. ASSUME NEW r \in found, NEW v \in nodes(r)
       PROVE  /\ Exact(h, v) /\ v[1] = r
              /\ Names(r) = names => Whole(h, v)
  <2>1. r \in batch /\ v[1] = r
    BY <1>6, <1>7
  <2>2. \A l \in g.isValueOf : l[1] # v
    BY <1>6, <2>1 DEF Linked
  <2>3. \A s \in found : v \in nodes(s) => s = r
    BY <1>6, <1>7, <2>1
  <2>4. LinksOf(h, v) = options(r)
    <3>1. ASSUME NEW l \in L, l[1] = v
          PROVE  l[2] \in options(r)
      BY <1>7, <2>3, <3>1
    <3>2. ASSUME NEW n \in options(r)
          PROVE  n \in LinksOf(h, v)
      <4>1. <<v, n>> \in h.isValueOf
        BY <1>7, <1>11
      <4>2. <<v, n>>[1] = v /\ <<v, n>>[2] = n
        OBVIOUS
      <4> QED
        BY <4>1, <4>2 DEF LinksOf
    <3> QED
      BY <1>11, <2>2, <3>1, <3>2 DEF LinksOf
  <2>5. \A n \in options(r) : n \in g.options /\ n[1] \in OptionsOf[r] /\ n[2] = known[n[1]]
    BY <1>3, <1>8, <2>1
  <2>6. \A n, m \in options(r) : n[1] = m[1] => n = m
    BY <2>5 DEF Numbered
  <2>7. Exact(h, v)
    BY <1>2, <2>1, <2>4, <2>5, <2>6 DEF Exact
  <2>8. ASSUME Names(r) = names
        PROVE  Whole(h, v)
    <3>1. ASSUME NEW o \in OptionsOf[r]
          PROVE  \E n \in options(r) : n[1] = o
      <4>1. o \in named(r)
        BY <1>9, <2>8
      <4>2. PICK n : n \in Matched(g, o, known[o])
        BY <1>7, <4>1
      <4>3. n \in options(r)
        BY <1>8, <2>1, <4>1, <4>2
      <4> QED
        BY <1>3, <2>1, <4>2, <4>3
    <3> QED
      BY <2>1, <2>4, <3>1 DEF Whole
  <2> QED
    BY <2>1, <2>7, <2>8
<1>15. ASSUME NEW v \in h.observations
       PROVE  v[2] \in 1..Count(h, v[1])
  <2> DEFINE r == v[1]
             old == of(g.observations, r)
             new == of(h.observations, r)
  <2>1. CASE r \in found
    <3>1. r \in batch
      BY <1>7, <2>1
    <3>2. new = old \cup nodes(r)
      <4>1. ASSUME NEW u \in V, u[1] = r
            PROVE  u \in nodes(r)
        BY <1>6, <1>7, <4>1
      <4>2. \A u \in nodes(r) : u \in V /\ u[1] = r
        BY <1>6, <1>7, <2>1
      <4> HIDE DEF r
      <4> QED
        BY <1>11, <4>1, <4>2
    <3>3. /\ Count(g, r) \in Nat /\ times(r) \in Nat /\ IsFiniteSet(old)
          /\ Count(g, r) = Cardinality(old)
      BY <1>5, <3>1 DEF Count
    <3>4. /\ IsFiniteSet(nodes(r)) /\ Cardinality(nodes(r)) = times(r)
          /\ \A u \in nodes(r) : u[2] \in (Count(g, r) + 1)..(Count(g, r) + times(r))
          /\ nodes(r) \cap g.observations = {}
      BY <1>6, <3>1
    <3>5. old \cap nodes(r) = {}
      BY <3>4
    <3>6. v \in new /\ Count(h, r) = Cardinality(new)
      BY DEF Count
    <3>7. \A u \in old : u[2] \in 1..Count(g, r)
      BY DEF Numbered
    <3> HIDE DEF old, new, r
    <3>8. Cardinality(new) = Cardinality(old) + Cardinality(nodes(r)) - Cardinality({})
      BY <3>2, <3>3, <3>4, <3>5, FS_Union
    <3>9. Count(h, r) = Count(g, r) + times(r)
      BY <3>3, <3>4, <3>6, <3>8, FS_EmptySet
    <3>10. v \in old \/ v \in nodes(r)
      BY <3>2, <3>6
    <3>11. v[2] \in 1..Count(h, r)
      BY <3>3, <3>4, <3>7, <3>9, <3>10
    <3> QED
      BY <3>11 DEF r
  <2>2. CASE r \notin found
    <3>1. new = old
      BY <1>6, <1>7, <1>11, <2>2
    <3>2. v \in old
      BY <3>1
    <3>3. Count(h, r) = Count(g, r)
      BY <3>1 DEF Count
    <3> QED
      BY <3>2, <3>3 DEF Numbered
  <2> QED
    BY <2>1, <2>2
<1>16. Numbered(h)
  <2>1. IsFiniteSet(h.observations)
    <3>1. IsFiniteSet(g.observations)
      BY DEF Numbered
    <3>2. IsFiniteSet(g.observations \cup V)
      BY <1>10, <3>1, FS_Union
    <3> QED
      BY <1>11, <3>2
  <2>2. \A v \in h.observations : Exact(h, v)
    BY <1>7, <1>11, <1>13, <1>14
  <2> QED
    BY <1>11, <1>15, <2>1, <2>2 DEF Numbered
<1>17. ASSUME NEW v \in h.observations \ g.observations
       PROVE  v[1] \in batch /\ (Names(v[1]) = names => Whole(h, v))
  <2>1. PICK r \in found : v \in nodes(r)
    BY <1>7, <1>11
  <2> QED
    BY <1>7, <1>14, <2>1
<1>18. ASSUME NEW r \in batch, HasLowerCase(r), Names(r) = names, \A o \in OptionsOf[r] : known[o] # 0
       PROVE  \E v \in h.observations : v[1] = r
  <2>1. r \in found
    BY <1>4, <1>18
  <2>2. PICK v \in nodes(r) : TRUE
    BY <1>6, <1>18
  <2>3. v \in h.observations
    BY <1>7, <1>11, <2>1, <2>2
  <2> QED
    BY <1>14, <2>1, <2>3
<1> QED
  BY <1>12, <1>16, <1>17, <1>18 DEF h, batch, names

\* Constraints, properties, links of codes and the hierarchy are other parts.
LEMMA OtherParts ==
  ASSUME NEW g, IsGraph(g), NEW x
  PROVE  /\ SameParts(g, Constrain(g, x)) /\ SameParts(g, SetProperties(g, x))
         /\ SameParts(g, CreateCodeRelationship(g, x))
         /\ SameParts(g, CloneNodes(g)) /\ SameParts(g, CloneRelationships(g))
         /\ SameParts(g, SetHasData(g)) /\ SameParts(g, MarkNodesToRemain(g))
         /\ SameParts(g, RemoveNodesNotMarkedToRemain(g))
         /\ SameParts(g, RemoveRemainMarker(g)) /\ SameParts(g, SetNumberOfChildren(g))
<1>1. \A c : SameParts(g, [g EXCEPT !.constraints = c])
  BY DEF SameParts, IsGraph
<1>2. \A c : SameParts(g, [g EXCEPT !.properties = c]) /\ SameParts(g, [g EXCEPT !.inDataset = c])
  BY DEF SameParts, IsGraph
<1>3. \A c : SameParts(g, [g EXCEPT !.nodes = c]) /\ SameParts(g, [g EXCEPT !.hasParent = c])
  BY DEF SameParts, IsGraph
<1>4. \A c : /\ SameParts(g, [g EXCEPT !.hasData = c]) /\ SameParts(g, [g EXCEPT !.remain = c])
             /\ SameParts(g, [g EXCEPT !.children = c])
  BY DEF SameParts, IsGraph
<1>5. \A a, b, c, d :
        SameParts(g, [g EXCEPT !.nodes = a, !.hasParent = b, !.hasData = c, !.children = d])
  BY DEF SameParts, IsGraph
<1>6. SameParts(g, Constrain(g, x)) /\ SameParts(g, SetProperties(g, x))
  BY <1>1, <1>2 DEF Constrain, SetProperties
<1>7. SameParts(g, CreateCodeRelationship(g, x))
  BY <1>2 DEF CreateCodeRelationship
<1>8. SameParts(g, CloneNodes(g)) /\ SameParts(g, CloneRelationships(g))
  BY <1>3 DEF CloneNodes, CloneRelationships
<1>9. SameParts(g, SetHasData(g)) /\ SameParts(g, MarkNodesToRemain(g))
  BY <1>4 DEF SetHasData, MarkNodesToRemain
<1>10. SameParts(g, RemoveNodesNotMarkedToRemain(g))
  BY <1>5 DEF RemoveNodesNotMarkedToRemain
<1>11. SameParts(g, RemoveRemainMarker(g)) /\ SameParts(g, SetNumberOfChildren(g))
  BY <1>4 DEF RemoveRemainMarker, SetNumberOfChildren
<1> QED
  BY <1>6, <1>7, <1>8, <1>9, <1>10, <1>11

------------------------------------------------------------------------------
(* Observations: the steps.                                                *)

BatchPositions == {"createParams", "insertObservations"}

Situated ==
  \A j \in Jobs :
    /\ pos[j] \in BatchPositions => j.op = "InsertObservationBatch"
    /\ j.op = "InsertObservationBatch" => pos[j] \in BatchPositions \cup Resting
    /\ j.op = "CreateInstanceConstraint" => pos[j] \in {"createInstanceConstraint"} \cup Resting

\* A statement that inserts has the IDs of all options of its rows.
Known == \A j \in Jobs : pos[j] = "insertObservations" => ~Missing(j)

\* The rows of j are there, as far as they must be.
Inserted(j, observations) ==
  \A r \in Range(j.arg) :
    HasLowerCase(r) /\ LikeFirst(j, r) => \E v \in observations : v[1] = r

Reported ==
  /\ \A j \in Batches : pos[j] = "done" => Inserted(j, graph.observations)
  /\ \A j \in Inserting("CreateInstanceConstraint") :
       pos[j] = "done" => "observation" \in graph.constraints

\* Every batch with row r begins with a row of the same dimensions.
Regular(r) == \A j \in Batches : pos[j] # "absent" /\ r \in Range(j.arg) => LikeFirst(j, r)

WholeInv == \A v \in graph.observations : Regular(v[1]) => Whole(graph, v)

ObsInv == Numbered(graph) /\ Situated /\ Known /\ Reported /\ WholeInv

\* Observations that are new in graph h are rows of job j, whole if they can be.
New(j, h) ==
  \A v \in h.observations \ graph.observations :
    /\ j.op = "InsertObservationBatch" /\ v[1] \in Range(j.arg)
    /\ LikeFirst(j, v[1]) => Whole(h, v)

LEMMA ExecutedNumbered ==
  ASSUME IInv, ObsInv, NEW j \in Jobs, Sent(j)
  PROVE  /\ Numbered(Executed(j)) /\ Grows(graph, Executed(j)) /\ New(j, Executed(j))
         /\ pos[j] = "insertObservations" => Inserted(j, Executed(j).observations)
<1>1. IsGraph(graph) /\ Linked(graph) /\ Numbered(graph)
  BY DEF IInv, TypeOK, ObsInv
<1>2. CASE pos[j] = "insertObservations"
  <2> DEFINE h == InsertObservations(graph, j.arg, ids)
  <2>1. Executed(j) = h
    BY <1>2 DEF Executed
  <2>2. j.op = "InsertObservationBatch" /\ j.arg \in Seq(Observations)
    BY <1>2, NeoStoreAssumption DEF ObsInv, Situated, BatchPositions
  <2>3. \A o \in Options : ids[o] = 0 \/ \E n \in graph.options : n[1] = o /\ n[2] = ids[o]
    BY DEF IInv, TypeOK
  <2>4. \A r \in Range(j.arg) : \A o \in OptionsOf[r] : ids[o] # 0
    BY <1>2 DEF ObsInv, Known, Missing
  <2>5. /\ Numbered(h) /\ Grows(graph, h)
        /\ \A v \in h.observations \ graph.observations :
             v[1] \in Range(j.arg) /\ (Names(v[1]) = Names(j.arg[1]) => Whole(h, v))
        /\ \A r \in Range(j.arg) :
             HasLowerCase(r) /\ Names(r) = Names(j.arg[1]) /\ (\A o \in OptionsOf[r] : ids[o] # 0) =>
               \E v \in h.observations : v[1] = r
    BY <1>1, <2>2, <2>3, InsertObservationsNumbered
  <2> HIDE DEF h
  <2>6. New(j, h) /\ Inserted(j, h.observations)
    BY <2>2, <2>4, <2>5 DEF New, Inserted, LikeFirst
  <2> QED
    BY <2>1, <2>5, <2>6
<1>3. CASE pos[j] = "createInstance"
  <2>1. Executed(j) = CreateInstance(graph)
    BY <1>3 DEF Executed
  <2> QED
    BY <1>1, <1>3, <2>1, CreateInstanceNumbered DEF New
<1>4. CASE pos[j] = "insertDimension"
  <2>1. Executed(j) = InsertDimension(graph, Option(j))
    BY <1>4 DEF Executed
  <2> QED
    BY <1>1, <1>4, <2>1, InsertDimensionNumbered DEF New
<1>5. CASE pos[j] \notin {"insertObservations", "createInstance", "insertDimension"}
  <2>1. pos[j] \in Positions \ (Resting \cup {"cacheDimension", "createParams"})
    BY DEF IInv, TypeOK, Sent, Ended, Local, Resting
  <2>2. SameParts(graph, Executed(j))
    BY <1>1, <1>5, <2>1, OtherParts DEF Executed, Positions, Resting
  <2> QED
    BY <1>1, <1>5, <2>2, SamePartsNumbered DEF New
<1> QED
  BY <1>2, <1>3, <1>4, <1>5

\* A job moves to p, and nothing of the others is lost.
LEMMA MoveOK ==
  ASSUME IInv, ObsInv, NEW j \in Jobs, NEW p, pos' = [pos EXCEPT ![j] = p],
         pos[j] # "absent", Numbered(graph'), Grows(graph, graph'), New(j, graph'),
         graph.constraints \subseteq graph'.constraints,
         \A o \in Options : ids[o] # 0 => ids'[o] # 0,
         p \in BatchPositions => j.op = "InsertObservationBatch",
         j.op = "InsertObservationBatch" => p \in BatchPositions \cup Resting,
         j.op = "CreateInstanceConstraint" => p \in {"createInstanceConstraint"} \cup Resting,
         p # "absent", p = "insertObservations" => ~Missing(j),
         j.op = "InsertObservationBatch" /\ p = "done" => Inserted(j, graph'.observations),
         j.op = "CreateInstanceConstraint" /\ p = "done" => "observation" \in graph'.constraints
  PROVE  ObsInv'
<1>1. pos \in [Jobs -> Positions]
  BY DEF IInv, TypeOK
<1>2. pos'[j] = p /\ \A k \in Jobs \ {j} : pos'[k] = pos[k]
  BY <1>1
<1>3. Situated'
  BY <1>2 DEF ObsInv, Situated
<1>4. Known'
  <2> SUFFICES ASSUME NEW k \in Jobs, pos'[k] = "insertObservations"
               PROVE  ~Missing(k)'
    BY DEF Known
  <2>1. ~Missing(k)
    BY <1>2 DEF ObsInv, Known
  <2>2. k.op = "InsertObservationBatch"
    BY <1>3 DEF Situated, BatchPositions
  <2>3. \A r \in Range(k.arg) : OptionsOf[r] \subseteq Options
    BY <2>2, NeoStoreAssumption, NeoGraphAssumption DEF Observations, Range
  <2> QED
    BY <2>1, <2>3 DEF Missing
<1>5. Reported'
  <2>1. ASSUME NEW k \in Jobs, k.op = "InsertObservationBatch", pos'[k] = "done"
        PROVE  Inserted(k, graph'.observations)
    <3>1. CASE k = j
      BY <1>2, <2>1, <3>1
    <3>2. CASE k # j
      <4>1. Inserted(k, graph.observations)
        BY <1>2, <2>1, <3>2 DEF ObsInv, Reported, Batches, Inserting
      <4> QED
        BY <4>1 DEF Inserted, Grows
    <3> QED
      BY <3>1, <3>2
  <2>2. ASSUME NEW k \in Jobs, k.op = "CreateInstanceConstraint", pos'[k] = "done"
        PROVE  "observation" \in graph'.constraints
    BY <1>2, <2>2 DEF ObsInv, Reported, Inserting
  <2> QED
    BY <2>1, <2>2 DEF Reported, Batches, Inserting
<1>6. WholeInv'
  <2> SUFFICES ASSUME NEW v \in graph'.observations, Regular(v[1])'
               PROVE  Whole(graph', v)
    BY DEF WholeInv, Whole, LinksOf
  <2>1. CASE v \in graph.observations
    <3>1. \A k \in Jobs : pos[k] # "absent" => pos'[k] # "absent"
      BY <1>2
    <3>2. Regular(v[1])
      BY <3>1 DEF Regular, LikeFirst, Batches, Inserting
    <3>3. Whole(graph, v)
      BY <2>1, <3>2 DEF ObsInv, WholeInv
    <3> QED
      BY <3>3, WholeStays
  <2>2. CASE v \notin graph.observations
    <3>1. /\ j.op = "InsertObservationBatch" /\ v[1] \in Range(j.arg)
          /\ LikeFirst(j, v[1]) => Whole(graph', v)
      BY <2>2 DEF New
    <3>2. LikeFirst(j, v[1])
      BY <1>2, <3>1 DEF Regular, LikeFirst, Batches, Inserting
    <3> QED
      BY <3>1, <3>2
  <2> QED
    BY <2>1, <2>2
<1> QED
  BY <1>3, <1>4, <1>5, <1>6 DEF ObsInv

LEMMA DeliverObs ==
  ASSUME IInv, ObsInv, NEW j \in Jobs, Deliver(j)
  PROVE  ObsInv'
<1> DEFINE p == FirstStatement(j)
<1>1. /\ p \in BatchPositions => j.op = "InsertObservationBatch"
      /\ j.op = "InsertObservationBatch" => p \in BatchPositions \cup Resting
      /\ j.op = "CreateInstanceConstraint" => p \in {"createInstanceConstraint"} \cup Resting
      /\ p # "insertObservations" /\ p # "done" /\ p # "absent"
  BY DEF FirstStatement, BatchPositions, Resting
<1>2. pos' = [pos EXCEPT ![j] = p] /\ graph' = graph /\ ids' = ids /\ pos[j] # "absent"
  BY DEF Deliver, Ended
<1> HIDE DEF p
<1>3. Numbered(graph') /\ Grows(graph, graph') /\ New(j, graph')
  BY <1>2 DEF ObsInv, Grows, New
<1> QED
  BY <1>1, <1>2, <1>3, MoveOK

LEMMA LocalObs ==
  ASSUME IInv, ObsInv, NEW j \in Jobs, CacheDimension(j) \/ CreateParams(j)
  PROVE  ObsInv'
<1>1. /\ graph' = graph /\ ids' = ids /\ pos[j] # "absent"
      /\ Numbered(graph') /\ Grows(graph, graph') /\ New(j, graph')
  BY DEF CacheDimension, CreateParams, ObsInv, Grows, New
<1>2. CASE CacheDimension(j)
  <2>1. PICK p \in {"insertDimension", "createUniqueConstraint"} : pos' = [pos EXCEPT ![j] = p]
    BY <1>2 DEF CacheDimension
  <2>2. j.op = "InsertDimension"
    BY <1>2 DEF CacheDimension, IInv, PosInv, DimensionPositions
  <2>3. p \notin BatchPositions /\ p # "insertObservations" /\ p # "done" /\ p # "absent"
    BY DEF BatchPositions
  <2> QED
    BY <1>1, <2>1, <2>2, <2>3, MoveOK
<1>3. CASE CreateParams(j)
  <2>1. PICK p \in {"insertObservations", "failed"} :
          pos' = [pos EXCEPT ![j] = p] /\ (p = "insertObservations" => ~Missing(j))
    BY <1>3 DEF CreateParams, Fail
  <2>2. j.op = "InsertObservationBatch"
    BY <1>3 DEF CreateParams, ObsInv, Situated, BatchPositions
  <2>3. p \in BatchPositions \cup Resting /\ p # "done" /\ p # "absent"
    BY <2>1 DEF BatchPositions, Resting
  <2> QED
    BY <1>1, <2>1, <2>2, <2>3, MoveOK
<1> QED
  BY <1>2, <1>3

\* A statement that is answered: what is known stays known.
LEMMA AnswerObs ==
  ASSUME IInv, ObsInv, NEW j \in Jobs, Answer(j)
  PROVE  ObsInv'
<1>1. PICK p \in After(j) : pos' = [pos EXCEPT ![j] = p] /\ ids' \in KnownIDs(j, p)
  BY DEF Answer
<1>2. Sent(j) /\ graph' = Executed(j)
  BY DEF Answer
<1>3. /\ Numbered(graph') /\ Grows(graph, graph') /\ New(j, graph') /\ pos[j] # "absent"
      /\ pos[j] = "insertObservations" => Inserted(j, graph'.observations)
  BY <1>2, ExecutedNumbered DEF Sent
<1>4. graph'.constraints = graph.constraints \cup Added(j)
  BY <1>2, ExecutedKeeps
<1>5. \A o \in Options : ids[o] # 0 => ids'[o] # 0
  <2>1. CASE ids' = ids
    BY <2>1
  <2>2. CASE ids' # ids
    <3>1. PICK n \in NewOptions(graph, Option(j)) : ids' = [ids EXCEPT ![Option(j)] = n[2]]
      BY <1>1, <2>2 DEF KnownIDs
    <3>2. n[2] # 0
      BY InsertDimensionNumbered DEF IInv, ObsInv
    <3>3. DOMAIN ids = Options
      BY DEF IInv, TypeOK
    <3> QED
      BY <3>1, <3>2, <3>3
  <2> QED
    BY <2>1, <2>2
<1>6. pos[j] \in Positions \ (Resting \cup {"cacheDimension", "createParams"})
  BY <1>2 DEF IInv, TypeOK, Sent, Ended, Local, Resting
<1>7. p \notin BatchPositions /\ p # "absent"
  <2>1. CheckRowsAffected(j) \subseteq {"done", "failed"}
    BY DEF CheckRowsAffected
  <2>2. checkPropertiesSet(j) \subseteq {"done", "failed"}
    BY DEF checkPropertiesSet
  <2>3. CheckBatch(j) \subseteq {"done", "failed"} /\ CheckRows \subseteq {"done", "failed"}
    BY DEF CheckBatch, CheckRows
  <2> QED
    BY <1>1, <2>1, <2>2, <2>3 DEF After, BatchPositions
<1>8. CASE j.op = "InsertObservationBatch"
  <2>1. pos[j] = "insertObservations"
    BY <1>6, <1>8 DEF ObsInv, Situated, BatchPositions
  <2>2. p \in {"done", "failed"}
    BY <1>1, <2>1 DEF After, CheckBatch
  <2> QED
    BY <1>1, <1>3, <1>4, <1>5, <1>8, <2>1, <2>2, MoveOK DEF Resting
<1>9. CASE j.op = "CreateInstanceConstraint"
  <2>1. pos[j] = "createInstanceConstraint"
    BY <1>6, <1>9 DEF ObsInv, Situated
  <2>2. p = "done" /\ "observation" \in graph'.constraints
    BY <1>1, <1>4, <2>1 DEF After, Added
  <2> QED
    BY <1>1, <1>3, <1>4, <1>5, <1>7, <1>9, <2>2, MoveOK DEF Resting, BatchPositions
<1>10. CASE j.op \notin {"InsertObservationBatch", "CreateInstanceConstraint"}
  BY <1>1, <1>3, <1>4, <1>5, <1>7, <1>10, MoveOK DEF BatchPositions
<1> QED
  BY <1>8, <1>9, <1>10

\* A statement that is not answered well is at most executed.
LEMMA ErrorObs ==
  ASSUME IInv, ObsInv, NEW j \in Jobs, Refuse(j) \/ Disturb(j) \/ Lose(j)
  PROVE  ObsInv'
<1>1. Sent(j) /\ ids' = ids
  BY DEF Refuse, Disturb, Lose
<1>2. graph' = graph \/ graph' = Executed(j)
  BY DEF Refuse, Disturb, Lose
<1>3. /\ Numbered(graph') /\ Grows(graph, graph') /\ New(j, graph') /\ pos[j] # "absent"
      /\ graph.constraints \subseteq graph'.constraints
  <2>1. pos[j] # "absent"
    BY <1>1 DEF Sent
  <2>2. CASE graph' = graph
    BY <2>1, <2>2 DEF ObsInv, Grows, New
  <2>3. CASE graph' = Executed(j)
    BY <1>1, <2>1, <2>3, ExecutedNumbered, ExecutedKeeps
  <2> QED
    BY <1>2, <2>2, <2>3
<1>4. \E error : HandleError(j, error)
  BY DEF Refuse, Disturb, Lose
<1>5. pos' = pos \/ pos' = [pos EXCEPT ![j] = "failed"]
  BY <1>4, HandleErrorOK DEF Handled
<1>6. CASE pos' = [pos EXCEPT ![j] = "failed"]
  <2>1. "failed" \in Resting /\ "failed" \notin BatchPositions /\ "failed" # "absent"
    BY DEF Resting, BatchPositions
  <2> QED
    BY <1>1, <1>3, <1>6, <2>1, MoveOK
<1>7. CASE pos' = pos
  <2>1. /\ pos' = [pos EXCEPT ![j] = pos[j]] /\ pos[j] # "done"
    BY <1>1, <1>7 DEF IInv, TypeOK, Sent, Ended
  <2>2. /\ pos[j] \in BatchPositions => j.op = "InsertObservationBatch"
        /\ j.op = "InsertObservationBatch" => pos[j] \in BatchPositions \cup Resting
        /\ j.op = "CreateInstanceConstraint" => pos[j] \in {"createInstanceConstraint"} \cup Resting
        /\ pos[j] = "insertObservations" => ~Missing(j)
    BY DEF ObsInv, Situated, Known
  <2> QED
    BY <1>1, <1>3, <2>1, <2>2, MoveOK
<1> QED
  BY <1>5, <1>6, <1>7

LEMMA InitObs ==
  ASSUME Init
  PROVE  ObsInv
<1>1. /\ graph.instances = {} /\ graph.options = {} /\ graph.observations = {}
  BY DEF Init, EmptyGraph
<1>2. \A j \in Jobs : pos[j] \in {"absent", "waiting"}
  BY DEF Init
<1>3. Numbered(graph)
  <2>1. IsFiniteSet({}) /\ Cardinality({}) = 0
    BY FS_EmptySet
  <2> QED
    BY <1>1, <2>1 DEF Numbered
<1>4. Situated /\ Known /\ Reported /\ WholeInv
  BY <1>1, <1>2 DEF Situated, Known, Reported, Resting, BatchPositions, Batches, Inserting, WholeInv
<1> QED
  BY <1>3, <1>4 DEF ObsInv

LEMMA NextObs ==
  ASSUME IInv, ObsInv, [Next]_vars
  PROVE  ObsInv'
<1>1. ASSUME NEW j \in Jobs, Deliver(j)
      PROVE  ObsInv'
  BY <1>1, DeliverObs
<1>2. ASSUME NEW j \in Jobs, Step(j)
      PROVE  ObsInv'
  BY <1>2, LocalObs, AnswerObs, ErrorObs DEF Step
<1>3. CASE UNCHANGED vars
  <2>1. graph' = graph /\ pos' = pos /\ ids' = ids
    BY <1>3 DEF vars
  <2> QED
    BY <2>1 DEF ObsInv, Situated, Known, Missing, Reported, WholeInv, Regular
<1> QED
  BY <1>1, <1>2, <1>3 DEF Next, Idle

\* The invariant about observations is inductive, next to that of the types.
THEOREM ObservationInvariance == Spec => [](IInv /\ ObsInv)
<1>1. Init => ObsInv
  BY InitObs
<1>2. IInv /\ ObsInv /\ [Next]_vars => ObsInv'
  BY NextObs
<1> QED
  BY <1>1, <1>2, Invariance, PTL DEF Spec

\* InsertObservationBatch (observation.go): an observation is linked to one node
\* of each of its options; the rows of a batch that ended well are there, where
\* the dimensions have lower-case names; both if the rows have the dimensions of
\* the first row of their batch; and under the constraint of the instance
\* CountInsertedObservations is the number of rows.
THEOREM ObservationsStayExact == Spec => []ObservationsAreExact
<1>1. IInv /\ ObsInv => ObservationsAreExact
  <2> SUFFICES ASSUME IInv, ObsInv PROVE ObservationsAreExact
    OBVIOUS
  <2>1. ASSUME NEW v \in graph.observations
        PROVE  LET links    == LinksOf(graph, v)
                   linkedTo == { n[1] : n \in links }
               IN  /\ linkedTo \subseteq OptionsOf[v[1]] /\ Cardinality(links) = Cardinality(linkedTo)
                   /\ Regular(v[1]) => linkedTo = OptionsOf[v[1]]
    <3> DEFINE links == LinksOf(graph, v)
               linkedTo == { n[1] : n \in links }
               f == [n \in links |-> n[1]]
    <3>1. Exact(graph, v)
      BY DEF ObsInv, Numbered
    <3>2. Regular(v[1]) => Whole(graph, v)
      BY DEF ObsInv, WholeInv
    <3> HIDE DEF links
    <3>3. linkedTo \subseteq OptionsOf[v[1]]
      BY <3>1 DEF Exact, links
    <3>4. Regular(v[1]) => linkedTo = OptionsOf[v[1]]
      BY <3>2, <3>3 DEF Whole, links
    <3>5. \A n, m \in links : f[n] = f[m] => n = m
      BY <3>1 DEF Exact, links
    <3>6. IsFiniteSet(linkedTo)
      BY <3>1, <3>3, NeoGraphAssumption, FS_Subset DEF Exact, Observations
    <3>7. Cardinality(links) = Cardinality(linkedTo)
      <4>1. f \in Injection(links, linkedTo) /\ f \in Surjection(links, linkedTo)
        BY <3>5 DEF Injection, IsInjective, Surjection
      <4> QED
        BY <3>6, <4>1, FS_Injection
    <3> QED
      BY <3>3, <3>4, <3>7 DEF links
  <2>2. ASSUME NEW j \in Inserting("CreateInstanceConstraint"), pos[j] = "done"
        PROVE  CountInsertedObservations(graph) = Cardinality({ v[1] : v \in graph.observations })
    <3> DEFINE f == [v \in graph.observations |-> v[1]]
    <3>1. Unique(graph, "observation")
      BY <2>2 DEF ObsInv, Reported, IInv, TypeOK, Constrained
    <3>2. \A u, v \in graph.observations : f[u] = f[v] => u = v
      BY <3>1 DEF Unique
    <3>3. IsFiniteSet(graph.observations) /\ DOMAIN f = graph.observations
      BY DEF ObsInv, Numbered
    <3>4. { v[1] : v \in graph.observations } = { f[v] : v \in graph.observations }
      OBVIOUS
    <3> HIDE DEF f
    <3>5. Cardinality({ f[v] : v \in graph.observations }) = Cardinality(graph.observations)
      BY <3>2, <3>3, SameSize
    <3> QED
      BY <3>4, <3>5 DEF CountInsertedObservations
  <2>3. \A j \in Batches : pos[j] = "done" =>
          \A r \in Range(j.arg) :
            HasLowerCase(r) /\ LikeFirst(j, r) => \E v \in graph.observations : v[1] = r
    BY DEF ObsInv, Reported, Inserted
  <2> QED
    BY <2>1, <2>2, <2>3 DEF ObservationsAreExact, LinksOf, Regular
<1> QED
  BY <1>1, ObservationInvariance, PTL
------------------------------------------------------------------------------
(* The hierarchy: how far its graph has got.                               *)

\* What a build makes of generic nodes and edges.
Clones(S)     == { <<n, 1>> : n \in S }
CloneEdges(R) == { <<<<e[1], 1>>, <<e[2], 1>>>> : e \in R }

\* What remains of the generic hierarchy, when C has data.
Kept(C)   == C \cup Ancestors(Parent, C)
Within(C) == Parent \cap (Kept(C) \X Kept(C))

Empty(g) == g.nodes = {} /\ g.hasParent = {} /\ g.hasData = {} /\ g.remain = {}

Cloned(g) ==
  /\ g.nodes = Clones(Nodes) /\ g.hasParent \in {{}, CloneEdges(Parent)}
  /\ g.hasData = {} /\ g.remain = {}

Populated(g, C) ==
  /\ g.nodes = Clones(Nodes) /\ g.hasParent = CloneEdges(Parent)
  /\ g.hasData = Clones(C) /\ g.remain \in {{}, Clones(Kept(C))}

Trimmed(g, C) ==
  /\ g.nodes = Clones(Kept(C)) /\ g.hasParent = CloneEdges(Within(C))
  /\ g.hasData = Clones(C) /\ g.remain \in {{}, Clones(Kept(C))}

Finished(g, C) ==
  /\ Trimmed(g, C)
  /\ g.children = [v \in g.nodes |-> Cardinality({ e \in g.hasParent : e[2] = v })]

Building(g, C) == Empty(g) \/ Cloned(g) \/ Populated(g, C) \/ Trimmed(g, C)

Statements ==
  { "cloneNodes", "cloneRelationships", "setHasData", "markNodesToRemain",
    "removeNodesNotMarkedToRemain", "removeRemainMarker", "setNumberOfChildren" }
BuildPositions == {"createHierarchyConstraint"} \cup Statements

\* A build that is at statement p has done what comes before it.
ReadyFor(p, g, C) ==
  /\ p \in Statements => "hierarchy" \in g.constraints
  /\ p = "cloneRelationships" => Cloned(g)
  /\ p = "setHasData" => Cloned(g) /\ g.hasParent = CloneEdges(Parent)
  /\ p = "markNodesToRemain" => Populated(g, C)
  /\ p = "removeNodesNotMarkedToRemain" => Populated(g, C) /\ g.remain = Clones(Kept(C))
  /\ p = "removeRemainMarker" => Trimmed(g, C)
  /\ p = "setNumberOfChildren" => Trimmed(g, C) /\ g.remain = {}

\* The codes of the options that have been inserted for the hierarchy.
HierarchyCodes(g) == { n[1] : n \in { m \in g.options : Dimension[m[1]] = Hierarchical } }

Builds(j) == j.op = "BuildHierarchy"

\* The codes the jobs of W insert for the hierarchy.
DataOf(W) == { Option(j) : j \in { k \in W : k.op = "InsertDimension" /\ Dimension[Option(k)] = Hierarchical } }

BuildInv ==
  /\ \E W \in Workloads : \A j \in Jobs : pos[j] # "absent" <=> j \in W
  /\ \A j \in Jobs : /\ pos[j] \in BuildPositions => Builds(j)
                     /\ Builds(j) => pos[j] \in BuildPositions \cup Resting
  /\ HierarchyCodes(graph) \subseteq DataCodes
  /\ \A j \in Jobs :
       /\ pos[j] \in BuildPositions =>
            DataCodes \subseteq HierarchyCodes(graph) /\ ReadyFor(pos[j], graph, DataCodes)
       /\ pos[j] \in Statements \ {"cloneNodes"} => ~built
  /\ Building(graph, DataCodes)
  /\ ~Empty(graph) \/ built => \E j \in Jobs : Builds(j) /\ pos[j] # "absent"
  /\ built => Finished(graph, DataCodes)

\* Some of C lies below another node.
Grounded(C) == \E c \in C : \E e \in Parent : e[1] = c

\* The generic hierarchy has one root, above all other nodes.
IsRoot(r) ==
  /\ r \in Nodes /\ \A e \in Parent : e[1] # r
  /\ \A n \in Nodes \ {r} : r \in Ancestors(Parent, {n})

\* What a build relies on: the generic hierarchy has one root; the options that
\* are inserted for the hierarchy are nodes of it, and one of them at least is
\* not its root where there is a build; one service builds.
Buildable ==
  /\ \E r \in Nodes : IsRoot(r)
  /\ \A j, k \in Jobs : Builds(j) /\ Builds(k) => j = k
  /\ \A W \in Workloads : /\ DataOf(W) \subseteq Nodes
                          /\ (\E j \in W : Builds(j)) => Grounded(DataOf(W))
------------------------------------------------------------------------------
(* What Ancestors reaches, and clones.                                     *)

\* What is above is above what lies below it.
LEMMA AncestorsClosed ==
  ASSUME NEW R, NEW S, NEW e \in R, e[1] \in S \cup Ancestors(R, S)
  PROVE  e[2] \in Ancestors(R, S)
BY DEF Ancestors, Generic!Ancestors

\* And nothing else is above: a set that is closed upwards holds all of it.
LEMMA AncestorsLeast ==
  ASSUME NEW R, NEW S, NEW T, \A e \in R : e[1] \in S \cup T => e[2] \in T
  PROVE  Ancestors(R, S) \subseteq T
PROOF
<1> DEFINE targets == { e[2] : e \in R }
           U == T \cap targets
<1>1. \A e \in R : e[1] \in S \cup U => e[2] \in U
  OBVIOUS
<1>2. U \in SUBSET targets
  OBVIOUS
<1> QED
  BY <1>1, <1>2 DEF Ancestors, Generic!Ancestors

\* There is nothing above S exactly if no edge leaves it.
LEMMA NothingAbove ==
  ASSUME NEW R, NEW S
  PROVE  Ancestors(R, S) = {} <=> \A e \in R : e[1] \notin S
PROOF
<1>1. ASSUME NEW e \in R, e[1] \in S PROVE Ancestors(R, S) # {}
  BY <1>1, AncestorsClosed
<1>2. ASSUME \A e \in R : e[1] \notin S PROVE Ancestors(R, S) \subseteq {}
  <2>1. \A e \in R : e[1] \in S \cup {} => e[2] \in {}
    BY <1>2
  <2> QED
    BY <2>1, AncestorsLeast
<1> QED
  BY <1>1, <1>2

\* More has more above it.
LEMMA AncestorsOfMore ==
  ASSUME NEW R, NEW S, NEW T, S \subseteq T
  PROVE  Ancestors(R, S) \subseteq Ancestors(R, T)
PROOF
<1>1. \A e \in R : e[1] \in S \cup Ancestors(R, T) => e[2] \in Ancestors(R, T)
  BY AncestorsClosed
<1> QED
  BY <1>1, AncestorsLeast

\* What is above generic nodes are generic nodes.
LEMMA AncestorsOfNodes ==
  ASSUME NEW S PROVE Ancestors(Parent, S) \subseteq Nodes
PROOF
<1>1. \A e \in Parent : e[2] \in Nodes
  BY NeoGraphAssumption
<1> QED
  BY <1>1, AncestorsLeast

\* Clones tell their generic nodes.
LEMMA InClones ==
  ASSUME NEW S
  PROVE  /\ \A v \in Clones(S) : v[1] \in S /\ v = <<v[1], 1>>
         /\ \A n : <<n, 1>> \in Clones(S) <=> n \in S
BY DEF Clones

\* And so do the edges between them.
LEMMA InCloneEdges ==
  ASSUME NEW R, R \subseteq Parent
  PROVE  /\ \A e \in CloneEdges(R) : /\ <<e[1][1], e[2][1]>> \in R /\ e[1] = <<e[1][1], 1>> /\ e[2] = <<e[2][1], 1>>
                                     /\ e = <<<<e[1][1], 1>>, <<e[2][1], 1>>>>
         /\ \A n, p : <<<<n, 1>>, <<p, 1>>>> \in CloneEdges(R) <=> <<n, p>> \in R
PROOF
<1>1. \A r \in R : r = <<r[1], r[2]>>
  BY NeoGraphAssumption
<1> QED
  BY <1>1 DEF CloneEdges

\* What is above some clones are the clones of what is above.
LEMMA AncestorsOfClones ==
  ASSUME NEW R, R \subseteq Parent, NEW N
  PROVE  Ancestors(CloneEdges(R), Clones(N)) = Clones(Ancestors(R, N))
PROOF
<1> DEFINE A == Ancestors(R, N)
           E == CloneEdges(R)
           B == Ancestors(E, Clones(N))
           D == { n \in Nodes : <<n, 1>> \in B }
<1>1. \A e \in E : e[1] \in Clones(N) \cup Clones(A) => e[2] \in Clones(A)
  <2> SUFFICES ASSUME NEW e \in E, e[1] \in Clones(N) \cup Clones(A) PROVE e[2] \in Clones(A)
    OBVIOUS
  <2> DEFINE r == <<e[1][1], e[2][1]>>
  <2>1. r \in R /\ r[1] = e[1][1] /\ r[2] = e[2][1] /\ e[2] = <<e[2][1], 1>>
    BY InCloneEdges
  <2>2. e[1][1] \in N \cup A
    BY InClones
  <2> HIDE DEF r
  <2>3. r[2] \in A
    BY <2>1, <2>2, AncestorsClosed
  <2> QED
    BY <2>1, <2>3, InClones
<1>2. B \subseteq Clones(A)
  BY <1>1, AncestorsLeast
<1>3. \A r \in R : r[1] \in N \cup D => r[2] \in D
  <2> SUFFICES ASSUME NEW r \in R, r[1] \in N \cup D PROVE r[2] \in D
    OBVIOUS
  <2> DEFINE e == <<<<r[1], 1>>, <<r[2], 1>>>>
  <2>1. r = <<r[1], r[2]>> /\ r[2] \in Nodes
    BY NeoGraphAssumption
  <2>2. e \in E
    BY <2>1, InCloneEdges
  <2>3. e[1] \in Clones(N) \cup B /\ e[2] = <<r[2], 1>>
    BY InClones
  <2> HIDE DEF e
  <2>4. e[2] \in B
    BY <2>2, <2>3, AncestorsClosed
  <2> QED
    BY <2>1, <2>3, <2>4
<1>4. A \subseteq D
  BY <1>3, AncestorsLeast
<1> QED
  BY <1>2, <1>4, InClones

\* What remains is closed upwards, and within the generic hierarchy.
LEMMA KeptClosed ==
  ASSUME NEW C, C \subseteq Nodes
  PROVE  /\ Kept(C) \subseteq Nodes /\ IsFiniteSet(Kept(C)) /\ Within(C) \subseteq Parent
         /\ \A e \in Parent : e[1] \in Kept(C) => e[2] \in Kept(C) /\ e \in Within(C)
PROOF
<1>1. Kept(C) \subseteq Nodes
  BY AncestorsOfNodes DEF Kept
<1>2. IsFiniteSet(Kept(C))
  BY <1>1, NeoGraphAssumption, FS_Subset
<1>3. \A e \in Parent : e[1] \in Kept(C) => e[2] \in Kept(C)
  BY AncestorsClosed DEF Kept
<1>4. \A e \in Parent : e = <<e[1], e[2]>>
  BY NeoGraphAssumption
<1> QED
  BY <1>1, <1>2, <1>3, <1>4 DEF Within

\* Under one root, what remains holds the root, and every other node that
\* remains has a parent.
LEMMA KeptUnderRoot ==
  ASSUME NEW r, IsRoot(r), NEW C, C \subseteq Nodes, Grounded(C)
  PROVE  /\ r \in Kept(C)
         /\ \A n \in Nodes \ {r} : \E e \in Parent : e[1] = n
         /\ Kept(C) = Ancestors(Parent, C) \cup { c \in C : \E e \in Parent : e[1] = c }
PROOF
<1>1. \A n \in Nodes \ {r} : \E e \in Parent : e[1] = n
  <2> SUFFICES ASSUME NEW n \in Nodes \ {r} PROVE \E e \in Parent : e[1] = n
    OBVIOUS
  <2>1. Ancestors(Parent, {n}) # {}
    BY DEF IsRoot
  <2> QED
    BY <2>1, NothingAbove
<1>2. PICK c \in C : \E e \in Parent : e[1] = c
  BY DEF Grounded
<1>3. c \in Nodes \ {r}
  BY <1>2 DEF IsRoot
<1>4. r \in Ancestors(Parent, {c})
  BY <1>3 DEF IsRoot
<1>5. r \in Ancestors(Parent, C)
  <2>1. {c} \subseteq C
    OBVIOUS
  <2> QED
    BY <1>4, <2>1, AncestorsOfMore
<1> QED
  BY <1>1, <1>5 DEF Kept
------------------------------------------------------------------------------
(* What the statements make of the hierarchy.                              *)

SameHierarchy(g, h) ==
  /\ h.nodes = g.nodes /\ h.hasParent = g.hasParent /\ h.hasData = g.hasData
  /\ h.remain = g.remain /\ h.children = g.children

\* A graph with the same hierarchy is at the same stage.
LEMMA SameHierarchyBuilding ==
  ASSUME NEW g, NEW h, SameHierarchy(g, h), NEW C
  PROVE  /\ Building(g, C) => Building(h, C)
         /\ Empty(g) => Empty(h)
         /\ Cloned(g) => Cloned(h)
         /\ Populated(g, C) => Populated(h, C)
         /\ Trimmed(g, C) => Trimmed(h, C)
         /\ Finished(g, C) => Finished(h, C)
BY DEF SameHierarchy, Building, Empty, Cloned, Populated, Trimmed, Finished

\* The statements of the import leave the hierarchy alone.
LEMMA ImportStatements ==
  ASSUME NEW g, IsGraph(g), NEW x, NEW y
  PROVE  /\ SameHierarchy(g, Constrain(g, x)) /\ SameHierarchy(g, CreateInstance(g))
         /\ SameHierarchy(g, SetProperties(g, x)) /\ SameHierarchy(g, CreateCodeRelationship(g, x))
         /\ SameHierarchy(g, InsertDimension(g, x)) /\ SameHierarchy(g, InsertObservations(g, x, y))
PROOF
<1>1. \A c : /\ SameHierarchy(g, [g EXCEPT !.constraints = c]) /\ SameHierarchy(g, [g EXCEPT !.instances = c])
             /\ SameHierarchy(g, [g EXCEPT !.properties = c]) /\ SameHierarchy(g, [g EXCEPT !.inDataset = c])
             /\ SameHierarchy(g, [g EXCEPT !.options = c])
  BY DEF SameHierarchy, IsGraph
<1>2. \A c, d : SameHierarchy(g, [g EXCEPT !.observations = c, !.isValueOf = d])
  BY DEF SameHierarchy, IsGraph
<1>3. SameHierarchy(g, Constrain(g, x)) /\ SameHierarchy(g, CreateInstance(g)) /\ SameHierarchy(g, SetProperties(g, x))
  BY <1>1 DEF Constrain, CreateInstance, SetProperties
<1>4. SameHierarchy(g, CreateCodeRelationship(g, x)) /\ SameHierarchy(g, InsertDimension(g, x))
  BY <1>1 DEF CreateCodeRelationship, InsertDimension
<1>5. SameHierarchy(g, InsertObservations(g, x, y))
  BY <1>2 DEF InsertObservations
<1> QED
  BY <1>3, <1>4, <1>5

\* The first clone of a node has the number one.
LEMMA FirstNumber == Fresh({}) = 1
PROOF
<1>1. IsFiniteSet({}) /\ Cardinality({}) = 0
  BY FS_EmptySet
<1>2. Fresh({}) \in 1..(Cardinality({}) + 1)
  BY <1>1, NewNumber
<1> QED
  BY <1>1, <1>2

\* CloneNodes on an empty graph makes one clone of every generic node.
LEMMA CloneNodesFirst ==
  ASSUME NEW g, IsGraph(g), Empty(g)
  PROVE  Cloned(CloneNodes(g))
PROOF
<1> DEFINE num(n) == Fresh({ v[2] : v \in { u \in g.nodes : u[1] = n } })
           found(n) == \E v \in g.nodes \ g.hasData : v[1] = n
           N == g.nodes \cup { <<n, num(n)>> : n \in { m \in Nodes : ~found(m) } }
<1>1. CloneNodes(g) = [g EXCEPT !.nodes = N]
  BY DEF CloneNodes
<1>2. ASSUME NEW n PROVE num(n) = 1 /\ ~found(n)
  <2>1. { v[2] : v \in { u \in g.nodes : u[1] = n } } = {}
    BY DEF Empty
  <2>2. num(n) = 1
    BY <2>1, FirstNumber
  <2> QED
    BY <2>2 DEF Empty
<1> HIDE DEF num, found
<1>3. N = Clones(Nodes)
  BY <1>2 DEF Empty, Clones
<1> HIDE DEF N
<1> QED
  BY <1>1, <1>3 DEF Cloned, Empty, IsGraph

\* As long as no node has data, all clones are found.
LEMMA CloneNodesAgain ==
  ASSUME NEW g, IsGraph(g), Cloned(g)
  PROVE  Cloned(CloneNodes(g))
PROOF
<1> DEFINE num(n) == Fresh({ v[2] : v \in { u \in g.nodes : u[1] = n } })
           found(n) == \E v \in g.nodes \ g.hasData : v[1] = n
           N == g.nodes \cup { <<n, num(n)>> : n \in { m \in Nodes : ~found(m) } }
<1>1. CloneNodes(g) = [g EXCEPT !.nodes = N]
  BY DEF CloneNodes
<1>2. ASSUME NEW n \in Nodes PROVE found(n)
  <2>1. <<n, 1>> \in g.nodes \ g.hasData
    BY DEF Cloned, Clones
  <2> QED
    BY <2>1
<1> HIDE DEF num, found
<1>3. N = g.nodes
  BY <1>2
<1> HIDE DEF N
<1> QED
  BY <1>1, <1>3 DEF Cloned, IsGraph

\* A clone that has data is not found, and the constraint refuses another one.
LEMMA CloneNodesRefused ==
  ASSUME NEW g, IsGraph(g), "hierarchy" \in g.constraints, NEW C, C \subseteq Nodes, C # {},
         g.hasData = Clones(C), Clones(C) \subseteq g.nodes, g.nodes \subseteq Clones(Nodes)
  PROVE  Breaks(CloneNodes(g))
PROOF
<1> DEFINE num(n) == Fresh({ v[2] : v \in { u \in g.nodes : u[1] = n } })
           found(n) == \E v \in g.nodes \ g.hasData : v[1] = n
           N == g.nodes \cup { <<n, num(n)>> : n \in { m \in Nodes : ~found(m) } }
           h == CloneNodes(g)
<1>1. h = [g EXCEPT !.nodes = N]
  BY DEF CloneNodes
<1>2. PICK c \in C : TRUE
  OBVIOUS
<1>3. <<c, 1>> \in g.nodes /\ <<c, 1>> \in g.hasData
  BY <1>2, InClones
<1>4. ~found(c)
  <2> SUFFICES ASSUME NEW v \in g.nodes \ g.hasData, v[1] = c PROVE FALSE
    OBVIOUS
  <2>1. v = <<c, 1>>
    BY InClones
  <2> QED
    BY <1>3, <2>1
<1>5. num(c) # 1
  <2> DEFINE T == { v[2] : v \in { u \in g.nodes : u[1] = c } }
  <2>1. T = {1}
    <3>1. \A v \in g.nodes : v[2] = 1
      BY InClones
    <3>2. <<c, 1>> \in { u \in g.nodes : u[1] = c }
      BY <1>3
    <3> QED
      BY <3>1, <3>2
  <2>2. IsFiniteSet(T)
    BY <2>1, FS_Singleton
  <2>3. Fresh(T) \notin T
    BY <2>2, NewNumber
  <2> QED
    BY <2>1, <2>3
<1> HIDE DEF num, found
<1>6. <<c, num(c)>> \in N /\ <<c, 1>> \in N
  BY <1>2, <1>3, <1>4
<1> HIDE DEF N, h
<1>7. h.nodes = N /\ h.constraints = g.constraints
  BY <1>1 DEF IsGraph
<1>8. ~Unique(h, "hierarchy")
  BY <1>5, <1>6, <1>7 DEF Unique
<1> QED
  BY <1>7, <1>8 DEF Breaks, h

\* CloneRelationships makes all edges, however often it is executed.
LEMMA CloneRelationshipsDone ==
  ASSUME NEW g, IsGraph(g), Cloned(g)
  PROVE  /\ Cloned(CloneRelationships(g))
         /\ CloneRelationships(g).hasParent = CloneEdges(Parent)
PROOF
<1> DEFINE new == { e \in g.nodes \X g.nodes : <<e[1][1], e[2][1]>> \in Parent }
           P == g.hasParent \cup new
<1>1. CloneRelationships(g) = [g EXCEPT !.hasParent = P]
  BY DEF CloneRelationships
<1>2. new = CloneEdges(Parent)
  <2>1. ASSUME NEW e \in new PROVE e \in CloneEdges(Parent)
    <3>1. e = <<e[1], e[2]>> /\ e[1] \in Clones(Nodes) /\ e[2] \in Clones(Nodes) /\ <<e[1][1], e[2][1]>> \in Parent
      BY DEF Cloned
    <3>2. e[1] = <<e[1][1], 1>> /\ e[2] = <<e[2][1], 1>>
      BY <3>1, InClones
    <3>3. <<<<e[1][1], 1>>, <<e[2][1], 1>>>> \in CloneEdges(Parent)
      BY <3>1, InCloneEdges
    <3> QED
      BY <3>1, <3>2, <3>3
  <2>2. ASSUME NEW e \in CloneEdges(Parent) PROVE e \in new
    <3>1. PICK r \in Parent : e = <<<<r[1], 1>>, <<r[2], 1>>>>
      BY <2>2 DEF CloneEdges
    <3>2. r = <<r[1], r[2]>> /\ r[1] \in Nodes /\ r[2] \in Nodes
      BY NeoGraphAssumption
    <3>3. e[1] \in g.nodes /\ e[2] \in g.nodes /\ <<e[1][1], e[2][1]>> = r
      BY <3>1, <3>2, InClones DEF Cloned
    <3> QED
      BY <3>1, <3>3
  <2> QED
    BY <2>1, <2>2
<1> HIDE DEF new
<1>3. P = CloneEdges(Parent)
  BY <1>2 DEF Cloned
<1> HIDE DEF P
<1> QED
  BY <1>1, <1>3 DEF Cloned, IsGraph

\* SetHasData marks the clones of the codes of the options.
LEMMA SetHasDataDone ==
  ASSUME NEW g, IsGraph(g), Cloned(g), g.hasParent = CloneEdges(Parent),
         NEW C, C \subseteq Nodes, HierarchyCodes(g) = C
  PROVE  Populated(SetHasData(g), C)
PROOF
<1> DEFINE new == { v \in g.nodes : \E n \in g.options : n[1] = v[1] /\ Dimension[n[1]] = Hierarchical }
           H == g.hasData \cup new
<1>1. SetHasData(g) = [g EXCEPT !.hasData = H]
  BY DEF SetHasData
<1>2. new = Clones(C)
  <2>1. ASSUME NEW v \in new PROVE v \in Clones(C)
    <3>1. v \in Clones(Nodes) /\ v[1] \in HierarchyCodes(g)
      BY DEF Cloned, HierarchyCodes
    <3>2. v = <<v[1], 1>>
      BY <3>1, InClones
    <3>3. <<v[1], 1>> \in Clones(C)
      BY <3>1, InClones
    <3> QED
      BY <3>2, <3>3
  <2>2. ASSUME NEW v \in Clones(C) PROVE v \in new
    <3>1. v[1] \in C /\ v = <<v[1], 1>>
      BY <2>2, InClones
    <3>2. <<v[1], 1>> \in Clones(Nodes)
      BY <3>1, InClones
    <3>3. v[1] \in HierarchyCodes(g)
      BY <3>1
    <3>4. \E n \in g.options : n[1] = v[1] /\ Dimension[n[1]] = Hierarchical
      BY <3>3 DEF HierarchyCodes
    <3> QED
      BY <3>1, <3>2, <3>4 DEF Cloned
  <2> QED
    BY <2>1, <2>2
<1> HIDE DEF new
<1>3. H = Clones(C)
  BY <1>2 DEF Cloned
<1> HIDE DEF H
<1> QED
  BY <1>1, <1>3 DEF Cloned, Populated, IsGraph

\* MarkNodesToRemain marks what has data or lies above it.
LEMMA MarkNodesDone ==
  ASSUME NEW g, IsGraph(g), NEW C, C \subseteq Nodes, Grounded(C), \E r \in Nodes : IsRoot(r),
         Populated(g, C)
  PROVE  LET h == MarkNodesToRemain(g)
         IN  Populated(h, C) /\ h.remain = Clones(Kept(C))
PROOF
<1> DEFINE above == Ancestors(g.hasParent, g.hasData)
           below == { e[1] : e \in { f \in g.hasParent : f[1] \in g.hasData } }
           M == g.remain \cup above \cup below
<1>1. MarkNodesToRemain(g) = [g EXCEPT !.remain = M]
  BY DEF MarkNodesToRemain
<1>2. PICK r \in Nodes : IsRoot(r)
  OBVIOUS
<1>3. above = Clones(Ancestors(Parent, C))
  BY AncestorsOfClones DEF Populated
<1>4. below = Clones({ c \in C : \E e \in Parent : e[1] = c })
  <2> DEFINE B == { c \in C : \E e \in Parent : e[1] = c }
  <2>1. ASSUME NEW v \in below PROVE v \in Clones(B)
    <3>1. PICK e \in g.hasParent : v = e[1] /\ e[1] \in Clones(C)
      BY <2>1 DEF Populated
    <3>2. <<e[1][1], e[2][1]>> \in Parent /\ e[1] = <<e[1][1], 1>>
      BY <3>1, InCloneEdges DEF Populated
    <3>3. e[1][1] \in C
      BY <3>1, InClones
    <3>4. e[1][1] \in B
      BY <3>2, <3>3
    <3> HIDE DEF B
    <3>5. <<e[1][1], 1>> \in Clones(B)
      BY <3>4, InClones
    <3> QED
      BY <3>1, <3>2, <3>5
  <2>2. ASSUME NEW v \in Clones(B) PROVE v \in below
    <3>1. v[1] \in B /\ v = <<v[1], 1>>
      BY <2>2, InClones
    <3>2. PICK e \in Parent : e[1] = v[1]
      BY <3>1
    <3>3. e = <<e[1], e[2]>>
      BY NeoGraphAssumption
    <3> DEFINE f == <<<<e[1], 1>>, <<e[2], 1>>>>
    <3>4. f \in CloneEdges(Parent) /\ f[1] = v
      BY <3>1, <3>2, <3>3, InCloneEdges
    <3>5. v \in Clones(C)
      BY <3>1, InClones
    <3> HIDE DEF f
    <3> QED
      BY <3>4, <3>5 DEF Populated
  <2> QED
    BY <2>1, <2>2
<1> HIDE DEF above, below
<1>5. Kept(C) = Ancestors(Parent, C) \cup { c \in C : \E e \in Parent : e[1] = c }
  BY <1>2, KeptUnderRoot
<1>6. \A S, T : Clones(S) \cup Clones(T) = Clones(S \cup T)
  BY DEF Clones
<1>7. above \cup below = Clones(Kept(C))
  BY <1>3, <1>4, <1>5, <1>6
<1>8. g.remain \subseteq Clones(Kept(C))
  BY DEF Populated
<1>9. M = Clones(Kept(C))
  BY <1>7, <1>8
<1> HIDE DEF M
<1> QED
  BY <1>1, <1>9 DEF Populated, IsGraph

\* RemoveNodesNotMarkedToRemain leaves what is marked, with its edges.
LEMMA RemoveNodesDone ==
  ASSUME NEW g, IsGraph(g), NEW C, C \subseteq Nodes, Populated(g, C), g.remain = Clones(Kept(C))
  PROVE  Trimmed(RemoveNodesNotMarkedToRemain(g), C)
PROOF
<1> DEFINE gone == g.nodes \ g.remain
           E == { e \in g.hasParent : e[1] \notin gone /\ e[2] \notin gone }
           D == [v \in DOMAIN g.children \ gone |-> g.children[v]]
           N == g.nodes \ gone
           H == g.hasData \ gone
<1>1. RemoveNodesNotMarkedToRemain(g) =
        [g EXCEPT !.nodes = N, !.hasParent = E, !.hasData = H, !.children = D]
  BY DEF RemoveNodesNotMarkedToRemain
<1>2. Kept(C) \subseteq Nodes /\ C \subseteq Kept(C)
  BY KeptClosed DEF Kept
<1>3. Clones(Kept(C)) \subseteq Clones(Nodes) /\ Clones(C) \subseteq Clones(Kept(C))
  BY <1>2 DEF Clones
<1>4. N = Clones(Kept(C)) /\ H = Clones(C)
  BY <1>3 DEF Populated
<1>5. E = CloneEdges(Within(C))
  <2>1. ASSUME NEW e \in E PROVE e \in CloneEdges(Within(C))
    <3>1. e \in CloneEdges(Parent)
      BY DEF Populated
    <3>2. /\ <<e[1][1], e[2][1]>> \in Parent /\ e[1] = <<e[1][1], 1>> /\ e[2] = <<e[2][1], 1>>
          /\ e = <<<<e[1][1], 1>>, <<e[2][1], 1>>>>
      BY <3>1, InCloneEdges
    <3> DEFINE s == <<e[1][1], e[2][1]>>
    <3>3. s[1] \in Nodes /\ s[2] \in Nodes /\ s[1] = e[1][1] /\ s[2] = e[2][1]
      BY <3>2, NeoGraphAssumption
    <3>4. e[1] \in g.nodes /\ e[2] \in g.nodes
      BY <3>2, <3>3, InClones DEF Populated
    <3>5. e[1] \in Clones(Kept(C))
      BY <3>4
    <3>6. s[1] \in Kept(C)
      BY <3>3, <3>5, InClones
    <3> HIDE DEF s
    <3>7. s \in Within(C)
      BY <3>2, <3>6, KeptClosed DEF s
    <3>8. Within(C) \subseteq Parent
      BY KeptClosed
    <3> QED
      BY <3>2, <3>7, <3>8, InCloneEdges DEF s
  <2>2. ASSUME NEW e \in CloneEdges(Within(C)) PROVE e \in E
    <3>1. PICK s \in Within(C) : e = <<<<s[1], 1>>, <<s[2], 1>>>>
      BY <2>2 DEF CloneEdges
    <3>2. s \in Parent /\ s[1] \in Kept(C) /\ s[2] \in Kept(C)
      BY <3>1 DEF Within
    <3>3. e \in g.hasParent
      BY <3>1, <3>2 DEF Populated, CloneEdges
    <3>4. e[1] \in g.remain /\ e[2] \in g.remain
      BY <3>1, <3>2, InClones
    <3> QED
      BY <3>3, <3>4
  <2> QED
    BY <2>1, <2>2
<1> HIDE DEF N, E, H, D
<1> QED
  BY <1>1, <1>4, <1>5 DEF Trimmed, Populated, IsGraph

\* RemoveRemainMarker leaves all else.
LEMMA RemoveMarkerDone ==
  ASSUME NEW g, IsGraph(g), NEW C, Trimmed(g, C)
  PROVE  Trimmed(RemoveRemainMarker(g), C) /\ RemoveRemainMarker(g).remain = {}
BY DEF RemoveRemainMarker, Trimmed, IsGraph

\* SetNumberOfChildren finishes the hierarchy.
LEMMA SetNumberDone ==
  ASSUME NEW g, IsGraph(g), NEW C, Trimmed(g, C), g.remain = {}
  PROVE  Finished(SetNumberOfChildren(g), C)
PROOF
<1> DEFINE D == [v \in g.nodes |-> Cardinality({ e \in g.hasParent : e[2] = v })]
<1>1. SetNumberOfChildren(g) = [g EXCEPT !.children = D]
  BY DEF SetNumberOfChildren
<1>2. /\ SetNumberOfChildren(g).nodes = g.nodes /\ SetNumberOfChildren(g).hasParent = g.hasParent
      /\ SetNumberOfChildren(g).hasData = g.hasData /\ SetNumberOfChildren(g).remain = g.remain
      /\ SetNumberOfChildren(g).children = D
  <2> HIDE DEF D
  <2> QED
    BY <1>1 DEF IsGraph
<1> HIDE DEF D
<1> QED
  BY <1>2 DEF Trimmed, Finished, D
------------------------------------------------------------------------------
(* The steps of a build.                                                   *)

\* The codes with data are nodes, and where there is a build not its root alone.
LEMMA WhatIsGiven ==
  ASSUME Buildable, BuildInv
  PROVE  /\ DataCodes \subseteq Nodes
         /\ \A j \in Jobs : Builds(j) /\ pos[j] # "absent" => Grounded(DataCodes)
PROOF
<1>1. PICK W \in Workloads : \A j \in Jobs : pos[j] # "absent" <=> j \in W
  BY DEF BuildInv
<1>2. W \subseteq Jobs
  BY DEF Jobs
<1>3. DataCodes = DataOf(W)
  BY <1>1, <1>2 DEF DataCodes, DataOf, Inserting
<1> QED
  BY <1>1, <1>3 DEF Buildable

\* Which jobs there are does not change.
LEMMA DataStays ==
  ASSUME IInv, BuildInv, NEW j \in Jobs, NEW p, pos' = [pos EXCEPT ![j] = p],
         pos[j] # "absent", p # "absent"
  PROVE  /\ \A k \in Jobs : pos'[k] # "absent" <=> pos[k] # "absent"
         /\ DataCodes' = DataCodes
         /\ \E W \in Workloads : \A k \in Jobs : pos'[k] # "absent" <=> k \in W
PROOF
<1>1. pos \in [Jobs -> Positions]
  BY DEF IInv, TypeOK
<1>2. \A k \in Jobs : pos'[k] # "absent" <=> pos[k] # "absent"
  BY <1>1
<1>3. DataCodes' = DataCodes
  BY <1>2 DEF DataCodes, Inserting
<1>4. \E W \in Workloads : \A k \in Jobs : pos'[k] # "absent" <=> k \in W
  <2>1. PICK W \in Workloads : \A k \in Jobs : pos[k] # "absent" <=> k \in W
    BY DEF BuildInv
  <2> QED
    BY <1>2, <2>1
<1> QED
  BY <1>2, <1>3, <1>4

\* More options and constraints are no harm to a build.
LEMMA StillReady ==
  ASSUME NEW g, NEW h, SameHierarchy(g, h), g.constraints \subseteq h.constraints, NEW p, NEW C, ReadyFor(p, g, C)
  PROVE  ReadyFor(p, h, C)
BY DEF SameHierarchy, ReadyFor, Cloned, Populated, Trimmed

\* A job moves to p.
LEMMA BuildMove ==
  ASSUME IInv, BuildInv, Buildable, NEW j \in Jobs, NEW p, pos' = [pos EXCEPT ![j] = p],
         pos[j] # "absent", p # "absent",
         HierarchyCodes(graph) \subseteq HierarchyCodes(graph'), HierarchyCodes(graph') \subseteq DataCodes,
         graph.constraints \subseteq graph'.constraints,
         p \in BuildPositions => Builds(j), Builds(j) => p \in BuildPositions \cup Resting,
         ~Builds(j) => SameHierarchy(graph, graph') /\ built' = built,
         Building(graph', DataCodes),
         p \in BuildPositions => DataCodes \subseteq HierarchyCodes(graph') /\ ReadyFor(p, graph', DataCodes),
         p \in Statements \ {"cloneNodes"} => ~built',
         built' => Finished(graph', DataCodes)
  PROVE  BuildInv'
PROOF
<1>1. pos \in [Jobs -> Positions]
  BY DEF IInv, TypeOK
<1>2. pos'[j] = p /\ \A k \in Jobs \ {j} : pos'[k] = pos[k]
  BY <1>1
<1>3. /\ \A k \in Jobs : pos'[k] # "absent" <=> pos[k] # "absent"
      /\ DataCodes' = DataCodes
      /\ \E W \in Workloads : \A k \in Jobs : pos'[k] # "absent" <=> k \in W
  BY DataStays
<1>4. ASSUME NEW k \in Jobs
      PROVE  /\ pos'[k] \in BuildPositions => Builds(k)
             /\ Builds(k) => pos'[k] \in BuildPositions \cup Resting
  BY <1>2 DEF BuildInv
<1>5. ASSUME NEW k \in Jobs, pos'[k] \in BuildPositions
      PROVE  DataCodes \subseteq HierarchyCodes(graph') /\ ReadyFor(pos'[k], graph', DataCodes)
  <2>1. CASE k = j
    BY <1>2, <1>5, <2>1
  <2>2. CASE k # j
    <3>1. pos[k] = pos'[k] /\ Builds(k)
      BY <1>2, <1>4, <1>5, <2>2
    <3>2. ~Builds(j)
      BY <2>2, <3>1 DEF Buildable
    <3>3. SameHierarchy(graph, graph')
      BY <3>2
    <3>4. DataCodes \subseteq HierarchyCodes(graph) /\ ReadyFor(pos[k], graph, DataCodes)
      BY <1>5, <3>1 DEF BuildInv
    <3> QED
      BY <3>1, <3>3, <3>4, StillReady
  <2> QED
    BY <2>1, <2>2
<1>6. ASSUME NEW k \in Jobs, pos'[k] \in Statements \ {"cloneNodes"} PROVE ~built'
  <2>1. CASE k = j
    BY <1>2, <1>6, <2>1
  <2>2. CASE k # j
    <3>1. pos[k] = pos'[k] /\ pos'[k] \in BuildPositions
      BY <1>2, <1>6, <2>2 DEF BuildPositions
    <3>2. Builds(k)
      BY <1>4, <3>1
    <3>3. ~Builds(j)
      BY <2>2, <3>2 DEF Buildable
    <3>4. ~built
      BY <1>6, <3>1 DEF BuildInv
    <3> QED
      BY <3>3, <3>4
  <2> QED
    BY <2>1, <2>2
<1>7. ~Empty(graph') \/ built' => \E k \in Jobs : Builds(k) /\ pos'[k] # "absent"
  <2>1. CASE Builds(j)
    BY <1>2, <2>1
  <2>2. CASE ~Builds(j)
    <3>1. (Empty(graph) => Empty(graph')) /\ built' = built
      BY <2>2 DEF SameHierarchy, Empty
    <3> QED
      BY <1>3, <3>1 DEF BuildInv
  <2> QED
    BY <2>1, <2>2
<1> QED
  <2>1. HierarchyCodes(graph)' = HierarchyCodes(graph')
    BY DEF HierarchyCodes
  <2>2. \A k \in Jobs : Builds(k)' <=> Builds(k)
    BY DEF Builds
  <2>3. /\ \A C : Building(graph, C)' <=> Building(graph', C)
        /\ \A C : Finished(graph, C)' <=> Finished(graph', C)
    BY DEF Building, Finished, Trimmed, Populated, Cloned, Empty
  <2> QED
    BY <1>3, <1>4, <1>5, <1>6, <1>7 DEF BuildInv

\* The options for the hierarchy are those that jobs have inserted.
LEMMA CodesExecuted ==
  ASSUME IInv, BuildInv, NEW j \in Jobs, Sent(j)
  PROVE  /\ HierarchyCodes(graph) \subseteq HierarchyCodes(Executed(j))
         /\ HierarchyCodes(Executed(j)) \subseteq DataCodes
PROOF
<1>1. IsGraph(graph) /\ Linked(graph) /\ HierarchyCodes(graph) \subseteq DataCodes
  BY DEF IInv, TypeOK, BuildInv
<1>2. graph.options \subseteq Executed(j).options
  BY ExecutedKeeps
<1>3. HierarchyCodes(graph) \subseteq HierarchyCodes(Executed(j))
  BY <1>2 DEF HierarchyCodes
<1>4. CASE pos[j] = "insertDimension"
  <2>1. Executed(j) = InsertDimension(graph, Option(j))
    BY <1>4 DEF Executed
  <2>2. Executed(j).options = graph.options \cup NewOptions(graph, Option(j))
    BY <1>1, <2>1, InsertDimensionKeeps
  <2>3. \A n \in NewOptions(graph, Option(j)) : n[1] = Option(j)
    BY DEF NewOptions
  <2>4. j \in Inserting("InsertDimension") /\ pos[j] # "absent"
    BY <1>4 DEF IInv, PosInv, DimensionPositions, Inserting
  <2>5. Dimension[Option(j)] = Hierarchical => Option(j) \in DataCodes
    BY <2>4 DEF DataCodes
  <2>6. ASSUME NEW n \in Executed(j).options, Dimension[n[1]] = Hierarchical PROVE n[1] \in DataCodes
    <3>1. CASE n \in graph.options
      BY <1>1, <2>6, <3>1 DEF HierarchyCodes
    <3>2. CASE n \in NewOptions(graph, Option(j))
      BY <2>3, <2>5, <2>6, <3>2
    <3> QED
      BY <2>2, <3>1, <3>2
  <2> QED
    BY <1>3, <2>6 DEF HierarchyCodes
<1>5. CASE pos[j] # "insertDimension"
  <2>1. pos[j] \in Positions \ (Resting \cup {"cacheDimension", "createParams"})
    BY DEF IInv, TypeOK, Sent, Ended, Local, Resting
  <2>2. Executed(j).options = graph.options
    <3>1. CASE pos[j] = "createInstance"
      <4>1. Executed(j) = [graph EXCEPT !.instances = @ \cup {Fresh(@)}]
        BY <3>1 DEF Executed, CreateInstance
      <4> QED
        BY <1>1, <4>1 DEF IsGraph
    <3>2. CASE pos[j] = "insertObservations"
      <4>1. Executed(j) = InsertObservations(graph, j.arg, ids)
        BY <3>2 DEF Executed
      <4>2. \A c, d : [graph EXCEPT !.observations = c, !.isValueOf = d].options = graph.options
        BY <1>1 DEF IsGraph
      <4> QED
        BY <4>1, <4>2 DEF InsertObservations
    <3>3. CASE pos[j] \notin {"createInstance", "insertObservations"}
      <4>1. SameParts(graph, Executed(j))
        BY <1>1, <1>5, <2>1, <3>3, OtherParts DEF Executed, Positions, Resting
      <4> QED
        BY <4>1 DEF SameParts
    <3> QED
      BY <3>1, <3>2, <3>3
  <2> QED
    BY <1>1, <2>2 DEF HierarchyCodes
<1> QED
  BY <1>4, <1>5

\* Whatever is not part of a build leaves the hierarchy alone.
LEMMA OthersExecuted ==
  ASSUME IInv, BuildInv, NEW j \in Jobs, Sent(j), pos[j] \notin Statements
  PROVE  SameHierarchy(graph, Executed(j))
PROOF
<1>1. IsGraph(graph)
  BY DEF IInv
<1>2. pos[j] \in Positions \ (Resting \cup {"cacheDimension", "createParams"} \cup Statements)
  BY DEF IInv, TypeOK, Sent, Ended, Local, Resting
<1> QED
  BY <1>1, <1>2, ImportStatements DEF Executed, Positions, Resting, Statements

\* A statement of a build leads to where the next one is sent from.
LEMMA BuildExecuted ==
  ASSUME IInv, BuildInv, Buildable, NEW j \in Jobs, Builds(j), Sent(j), ~Breaks(Executed(j)), NEW p \in After(j)
  PROVE  /\ Building(Executed(j), DataCodes)
         /\ p \in BuildPositions \cup {"done"} /\ (p \in BuildPositions => ReadyFor(p, Executed(j), DataCodes))
         /\ p = "done" => pos[j] = "setNumberOfChildren" /\ Finished(Executed(j), DataCodes)
         /\ p \in Statements \ {"cloneNodes"} => ~built
         /\ built => pos[j] = "createHierarchyConstraint"
PROOF
<1> DEFINE C == DataCodes
           h == Executed(j)
<1>1. IsGraph(graph)
  BY DEF IInv
<1>2. C \subseteq Nodes /\ Grounded(C) /\ C # {}
  <2>1. pos[j] # "absent"
    BY DEF Sent
  <2>2. C \subseteq Nodes /\ Grounded(C)
    BY <2>1, WhatIsGiven
  <2> QED
    BY <2>2 DEF Grounded
<1>3. pos[j] \in BuildPositions
  BY DEF BuildInv, Sent, Ended, Resting
<1>4. /\ C = HierarchyCodes(graph) /\ ReadyFor(pos[j], graph, C) /\ Building(graph, C)
      /\ pos[j] \in Statements \ {"cloneNodes"} => ~built
      /\ built => Finished(graph, C)
  BY <1>3 DEF BuildInv
<1>5. h.constraints = graph.constraints \cup Added(j)
  BY ExecutedKeeps
<1>6. pos[j] \in Statements => "hierarchy" \in h.constraints
  BY <1>4, <1>5 DEF ReadyFor
<1> HIDE DEF C
<1>7. CASE pos[j] = "createHierarchyConstraint"
  <2>1. p = "cloneNodes"
    BY <1>7 DEF After
  <2>2. SameHierarchy(graph, h)
    BY <1>7, OthersExecuted DEF Statements
  <2>3. Building(h, C)
    BY <1>4, <2>2, SameHierarchyBuilding
  <2>4. "hierarchy" \in h.constraints
    BY <1>5, <1>7 DEF Added
  <2> HIDE DEF h
  <2>5. ReadyFor(p, h, C)
    BY <2>1, <2>4 DEF ReadyFor
  <2> QED
    BY <1>7, <2>1, <2>3, <2>5 DEF BuildPositions, Statements, h, C
<1>8. CASE pos[j] = "cloneNodes"
  <2>1. p = "cloneRelationships" /\ h = CloneNodes(graph)
    BY <1>8 DEF After, Executed
  <2>2. "hierarchy" \in graph.constraints
    BY <1>4, <1>8 DEF ReadyFor, Statements
  <2>3. ~(Populated(graph, C) \/ Trimmed(graph, C))
    <3> SUFFICES ASSUME Populated(graph, C) \/ Trimmed(graph, C) PROVE FALSE
      OBVIOUS
    <3>1. Clones(C) \subseteq Clones(Kept(C)) /\ Clones(Kept(C)) \subseteq Clones(Nodes)
      BY <1>2, KeptClosed DEF Clones, Kept
    <3>2. graph.hasData = Clones(C) /\ Clones(C) \subseteq graph.nodes /\ graph.nodes \subseteq Clones(Nodes)
      BY <3>1 DEF Populated, Trimmed
    <3> QED
      BY <1>1, <1>2, <2>1, <2>2, <3>2, CloneNodesRefused
  <2>4. Empty(graph) \/ Cloned(graph)
    BY <1>4, <2>3 DEF Building
  <2>5. Cloned(h)
    BY <1>1, <2>1, <2>4, CloneNodesFirst, CloneNodesAgain
  <2>6. ~built
    BY <1>4, <2>3 DEF Finished
  <2>7. "hierarchy" \in h.constraints
    BY <1>6, <1>8 DEF Statements
  <2> HIDE DEF h
  <2>8. ReadyFor(p, h, C) /\ Building(h, C)
    BY <2>1, <2>5, <2>7 DEF ReadyFor, Building
  <2> QED
    BY <2>1, <2>6, <2>8 DEF BuildPositions, Statements, h, C
<1>9. CASE pos[j] = "cloneRelationships"
  <2>1. p = "setHasData" /\ h = CloneRelationships(graph) /\ ~built
    BY <1>4, <1>9 DEF After, Executed, Statements
  <2>2. Cloned(graph) /\ "hierarchy" \in h.constraints
    BY <1>4, <1>6, <1>9 DEF ReadyFor, Statements
  <2>3. Cloned(h) /\ h.hasParent = CloneEdges(Parent)
    BY <1>1, <2>1, <2>2, CloneRelationshipsDone
  <2> HIDE DEF h
  <2>4. ReadyFor(p, h, C) /\ Building(h, C)
    BY <2>1, <2>2, <2>3 DEF ReadyFor, Building
  <2> QED
    BY <2>1, <2>4 DEF BuildPositions, Statements, h, C
<1>10. CASE pos[j] = "setHasData"
  <2>1. p = "markNodesToRemain" /\ h = SetHasData(graph) /\ ~built
    BY <1>4, <1>10 DEF After, Executed, Statements
  <2>2. Cloned(graph) /\ graph.hasParent = CloneEdges(Parent) /\ "hierarchy" \in h.constraints
    BY <1>4, <1>6, <1>10 DEF ReadyFor, Statements
  <2>3. Populated(h, C)
    BY <1>1, <1>2, <1>4, <2>1, <2>2, SetHasDataDone
  <2> HIDE DEF h
  <2>4. ReadyFor(p, h, C) /\ Building(h, C)
    BY <2>1, <2>2, <2>3 DEF ReadyFor, Building
  <2> QED
    BY <2>1, <2>4 DEF BuildPositions, Statements, h, C
<1>11. CASE pos[j] = "markNodesToRemain"
  <2>1. p = "removeNodesNotMarkedToRemain" /\ h = MarkNodesToRemain(graph) /\ ~built
    BY <1>4, <1>11 DEF After, Executed, Statements
  <2>2. Populated(graph, C) /\ "hierarchy" \in h.constraints
    BY <1>4, <1>6, <1>11 DEF ReadyFor, Statements
  <2>3. Populated(h, C) /\ h.remain = Clones(Kept(C))
    BY <1>1, <1>2, <2>1, <2>2, MarkNodesDone DEF Buildable
  <2> HIDE DEF h
  <2>4. ReadyFor(p, h, C) /\ Building(h, C)
    BY <2>1, <2>2, <2>3 DEF ReadyFor, Building
  <2> QED
    BY <2>1, <2>4 DEF BuildPositions, Statements, h, C
<1>12. CASE pos[j] = "removeNodesNotMarkedToRemain"
  <2>1. p = "removeRemainMarker" /\ h = RemoveNodesNotMarkedToRemain(graph) /\ ~built
    BY <1>4, <1>12 DEF After, Executed, Statements
  <2>2. Populated(graph, C) /\ graph.remain = Clones(Kept(C)) /\ "hierarchy" \in h.constraints
    BY <1>4, <1>6, <1>12 DEF ReadyFor, Statements
  <2>3. Trimmed(h, C)
    BY <1>1, <1>2, <2>1, <2>2, RemoveNodesDone
  <2> HIDE DEF h
  <2>4. ReadyFor(p, h, C) /\ Building(h, C)
    BY <2>1, <2>2, <2>3 DEF ReadyFor, Building
  <2> QED
    BY <2>1, <2>4 DEF BuildPositions, Statements, h, C
<1>13. CASE pos[j] = "removeRemainMarker"
  <2>1. p = "setNumberOfChildren" /\ h = RemoveRemainMarker(graph) /\ ~built
    BY <1>4, <1>13 DEF After, Executed, Statements
  <2>2. Trimmed(graph, C) /\ "hierarchy" \in h.constraints
    BY <1>4, <1>6, <1>13 DEF ReadyFor, Statements
  <2>3. Trimmed(h, C) /\ h.remain = {}
    BY <1>1, <2>1, <2>2, RemoveMarkerDone
  <2> HIDE DEF h
  <2>4. ReadyFor(p, h, C) /\ Building(h, C)
    BY <2>1, <2>2, <2>3 DEF ReadyFor, Building
  <2> QED
    BY <2>1, <2>4 DEF BuildPositions, Statements, h, C
<1>14. CASE pos[j] = "setNumberOfChildren"
  <2>1. p = "done" /\ h = SetNumberOfChildren(graph) /\ ~built
    BY <1>4, <1>14 DEF After, Executed, Statements
  <2>2. Trimmed(graph, C) /\ graph.remain = {}
    BY <1>4, <1>14 DEF ReadyFor
  <2>3. Finished(h, C)
    BY <1>1, <2>1, <2>2, SetNumberDone
  <2> HIDE DEF h
  <2>4. Building(h, C)
    BY <2>3 DEF Finished, Building
  <2> QED
    BY <1>14, <2>1, <2>3, <2>4 DEF BuildPositions, Statements, h, C
<1> QED
  BY <1>3, <1>7, <1>8, <1>9, <1>10, <1>11, <1>12, <1>13, <1>14 DEF BuildPositions, Statements

\* The hierarchy of a graph is the same as itself.
LEMMA SameIsSame == \A g : SameHierarchy(g, g)
BY DEF SameHierarchy

\* A build begins when all options of its hierarchy are there.
LEMMA DeliverBuild ==
  ASSUME IInv, BuildInv, Buildable, NEW j \in Jobs, Deliver(j)
  PROVE  BuildInv'
PROOF
<1> DEFINE p == FirstStatement(j)
<1>1. /\ pos' = [pos EXCEPT ![j] = p] /\ graph' = graph /\ built' = built
      /\ pos[j] = "waiting" \/ Ended(j)
  BY DEF Deliver
<1>2. pos[j] # "absent" /\ p # "absent"
  BY <1>1 DEF Ended, FirstStatement
<1>3. p \in BuildPositions <=> Builds(j)
  BY DEF FirstStatement, BuildPositions, Statements, Builds
<1>4. Builds(j) => p = "createHierarchyConstraint"
  BY DEF FirstStatement, Builds
<1>5. HierarchyCodes(graph) \subseteq DataCodes /\ Building(graph, DataCodes) /\ (built => Finished(graph, DataCodes))
  BY DEF BuildInv
<1>6. Builds(j) => DataCodes \subseteq HierarchyCodes(graph) /\ ReadyFor(p, graph, DataCodes)
  <2> SUFFICES ASSUME Builds(j)
               PROVE  DataCodes \subseteq HierarchyCodes(graph) /\ ReadyFor(p, graph, DataCodes)
    OBVIOUS
  <2>1. ReadyFor(p, graph, DataCodes)
    BY <1>4 DEF ReadyFor, Statements
  <2>2. ASSUME NEW k \in Inserting("InsertDimension"), pos[k] # "absent", Dimension[Option(k)] = Hierarchical
        PROVE  Option(k) \in HierarchyCodes(graph)
    <3>1. k \in Jobs /\ k.op = "InsertDimension"
      BY DEF Inserting
    <3>2. pos[k] = "done"
      BY <2>2, <3>1 DEF Deliver, Builds
    <3>3. \E n \in graph.options : n[1] = Option(k)
      BY <3>2 DEF IInv, CacheInv
    <3> QED
      BY <2>2, <3>3 DEF HierarchyCodes
  <2> QED
    BY <2>1, <2>2 DEF DataCodes
<1>7. p \notin Statements
  BY <1>3, <1>4 DEF BuildPositions, Statements
<1> HIDE DEF p
<1>8. SameHierarchy(graph, graph')
  BY <1>1, SameIsSame
<1> QED
  BY <1>1, <1>2, <1>3, <1>5, <1>6, <1>7, <1>8, BuildMove

\* A job that moves and leaves the graph as it is.
LEMMA QuietMove ==
  ASSUME IInv, BuildInv, Buildable, NEW j \in Jobs, NEW p, pos' = [pos EXCEPT ![j] = p],
         pos[j] # "absent", p # "absent", p \notin BuildPositions, Builds(j) => p \in Resting,
         graph' = graph, built' = built
  PROVE  BuildInv'
PROOF
<1>1. HierarchyCodes(graph) \subseteq DataCodes /\ Building(graph, DataCodes) /\ (built => Finished(graph, DataCodes))
  BY DEF BuildInv
<1>2. p \notin Statements
  BY DEF BuildPositions
<1>3. SameHierarchy(graph, graph')
  BY SameIsSame
<1> QED
  BY <1>1, <1>2, <1>3, BuildMove

\* A service that looks into its cache or at its rows leaves a build alone.
LEMMA LocalBuild ==
  ASSUME IInv, BuildInv, Buildable, NEW j \in Jobs, CacheDimension(j) \/ CreateParams(j)
  PROVE  BuildInv'
PROOF
<1>1. graph' = graph /\ built' = built
  BY DEF CacheDimension, CreateParams
<1>2. PICK p \in {"insertDimension", "createUniqueConstraint", "insertObservations", "failed"} :
        pos' = [pos EXCEPT ![j] = p]
  BY DEF CacheDimension, CreateParams, Fail
<1>3. pos[j] \in {"cacheDimension", "createParams"}
  BY DEF CacheDimension, CreateParams
<1>4. ~Builds(j)
  BY <1>3 DEF BuildInv, BuildPositions, Statements, Resting
<1>5. p # "absent" /\ p \notin BuildPositions /\ pos[j] # "absent"
  BY <1>3 DEF BuildPositions, Statements
<1> QED
  BY <1>1, <1>2, <1>4, <1>5, QuietMove

\* What other jobs come to.
LEMMA OthersGoOn ==
  ASSUME IInv, BuildInv, NEW j \in Jobs, ~Builds(j), Sent(j), NEW p \in After(j)
  PROVE  p # "absent" /\ p \notin BuildPositions /\ pos[j] \notin BuildPositions
PROOF
<1>1. pos[j] \in Positions \ (Resting \cup {"cacheDimension", "createParams"}) /\ pos[j] \notin BuildPositions
  BY DEF IInv, TypeOK, Sent, Ended, Local, Resting, BuildInv
<1>2. CheckRowsAffected(j) \subseteq {"done", "failed"}
  BY DEF CheckRowsAffected
<1>3. checkPropertiesSet(j) \subseteq {"done", "failed"}
  BY DEF checkPropertiesSet
<1>4. CheckBatch(j) \subseteq {"done", "failed"} /\ CheckRows \subseteq {"done", "failed"}
  BY DEF CheckBatch, CheckRows
<1> QED
  BY <1>1, <1>2, <1>3, <1>4 DEF After, BuildPositions, Statements

\* An answer takes a build one statement further.
LEMMA AnswerBuild ==
  ASSUME IInv, BuildInv, Buildable, NEW j \in Jobs, Answer(j)
  PROVE  BuildInv'
PROOF
<1>1. PICK p \in After(j) : /\ pos' = [pos EXCEPT ![j] = p]
                            /\ built' = (built \/ (j.op = "BuildHierarchy" /\ p = "done"))
  BY DEF Answer
<1>2. Sent(j) /\ graph' = Executed(j) /\ ~Breaks(Executed(j)) /\ pos[j] # "absent"
  BY DEF Answer, Sent
<1>3. HierarchyCodes(graph) \subseteq HierarchyCodes(graph') /\ HierarchyCodes(graph') \subseteq DataCodes
  BY <1>2, CodesExecuted
<1>4. graph.constraints \subseteq graph'.constraints
  BY <1>2, ExecutedKeeps
<1>5. Building(graph, DataCodes) /\ (built => Finished(graph, DataCodes))
  BY DEF BuildInv
<1>6. CASE Builds(j)
  <2>1. /\ Building(graph', DataCodes)
        /\ p \in BuildPositions \cup {"done"} /\ (p \in BuildPositions => ReadyFor(p, graph', DataCodes))
        /\ p = "done" => pos[j] = "setNumberOfChildren" /\ Finished(graph', DataCodes)
        /\ p \in Statements \ {"cloneNodes"} => ~built
        /\ built => pos[j] = "createHierarchyConstraint"
    BY <1>2, <1>6, BuildExecuted
  <2>2. pos[j] \in BuildPositions
    BY <1>2, <1>6 DEF BuildInv, Sent, Ended, Resting
  <2>3. DataCodes \subseteq HierarchyCodes(graph')
    BY <1>3, <2>2 DEF BuildInv
  <2>4. p # "absent" /\ p \in BuildPositions \cup Resting /\ (p \in Statements => p # "done")
    BY <2>1 DEF BuildPositions, Statements, Resting
  <2>5. built' => Finished(graph', DataCodes)
    <3>1. CASE built
      <4>1. pos[j] \notin Statements
        BY <2>1, <3>1 DEF Statements
      <4>2. SameHierarchy(graph, graph')
        BY <1>2, <4>1, OthersExecuted
      <4> QED
        BY <1>5, <3>1, <4>2, SameHierarchyBuilding
    <3>2. CASE ~built
      BY <1>1, <2>1, <3>2
    <3> QED
      BY <3>1, <3>2
  <2>6. p \in Statements \ {"cloneNodes"} => ~built'
    BY <1>1, <2>1, <2>4
  <2> QED
    BY <1>1, <1>2, <1>3, <1>4, <1>6, <2>1, <2>3, <2>4, <2>5, <2>6, BuildMove
<1>7. CASE ~Builds(j)
  <2>1. p # "absent" /\ p \notin BuildPositions /\ pos[j] \notin BuildPositions
    BY <1>2, <1>7, OthersGoOn
  <2>2. SameHierarchy(graph, graph') /\ p \notin Statements
    BY <1>2, <2>1, OthersExecuted DEF BuildPositions
  <2>3. built' = built
    BY <1>1, <1>7 DEF Builds, IInv, TypeOK
  <2>4. Building(graph', DataCodes) /\ (built' => Finished(graph', DataCodes))
    BY <1>5, <2>2, <2>3, SameHierarchyBuilding
  <2> QED
    BY <1>1, <1>2, <1>3, <1>4, <1>7, <2>1, <2>2, <2>3, <2>4, BuildMove
<1> QED
  BY <1>6, <1>7

\* A statement that is not answered well is at most executed, and then the
\* build ends: nobody knows what it has done.
LEMMA ErrorBuild ==
  ASSUME IInv, BuildInv, Buildable, NEW j \in Jobs, Refuse(j) \/ Disturb(j) \/ Lose(j)
  PROVE  BuildInv'
PROOF
<1>1. Sent(j) /\ built' = built /\ pos[j] # "absent"
  BY DEF Refuse, Disturb, Lose, Sent
<1>2. \/ graph' = graph /\ (\E error : HandleError(j, error))
      \/ graph' = Executed(j) /\ ~Breaks(Executed(j)) /\ HandleError(j, "connection")
  BY DEF Refuse, Disturb, Lose
<1>3. "failed" \notin BuildPositions /\ "failed" \in Resting
  BY DEF BuildPositions, Statements, Resting
<1>4. CASE graph' = graph
  <2>1. pos' = pos \/ pos' = [pos EXCEPT ![j] = "failed"]
    <3>1. \E error : HandleError(j, error)
      BY <1>2
    <3> QED
      BY <3>1, HandleErrorOK DEF Handled
  <2>2. CASE pos' = pos
    BY <1>1, <1>4, <2>2 DEF BuildInv, DataCodes, Inserting
  <2>3. CASE pos' = [pos EXCEPT ![j] = "failed"]
    BY <1>1, <1>3, <1>4, <2>3, QuietMove
  <2> QED
    BY <2>1, <2>2, <2>3
<1>5. CASE graph' = Executed(j) /\ ~Breaks(Executed(j)) /\ HandleError(j, "connection")
  <2>1. pos' = [pos EXCEPT ![j] = "failed"]
    BY <1>5, HandleErrorOK DEF Handled
  <2>2. HierarchyCodes(graph) \subseteq HierarchyCodes(graph') /\ HierarchyCodes(graph') \subseteq DataCodes
    BY <1>1, <1>5, CodesExecuted
  <2>3. graph.constraints \subseteq graph'.constraints
    BY <1>1, <1>5, ExecutedKeeps
  <2>4. CASE pos[j] \notin Statements
    <3>1. SameHierarchy(graph, graph')
      BY <1>1, <1>5, <2>4, OthersExecuted
    <3>2. Building(graph', DataCodes) /\ (built' => Finished(graph', DataCodes))
      BY <1>1, <3>1, SameHierarchyBuilding DEF BuildInv
    <3> QED
      BY <1>1, <1>3, <2>1, <2>2, <2>3, <3>1, <3>2, BuildMove DEF BuildPositions
  <2>5. CASE pos[j] \in Statements
    <3>1. Builds(j)
      BY <2>5 DEF BuildInv, BuildPositions
    <3>2. PICK p \in After(j) : TRUE
      BY <2>5 DEF After, Statements
    <3>3. Building(graph', DataCodes) /\ ~built'
      <4>1. Building(Executed(j), DataCodes) /\ (built => pos[j] = "createHierarchyConstraint")
        BY <1>1, <1>5, <3>1, BuildExecuted
      <4> QED
        BY <1>1, <1>5, <2>5, <4>1 DEF Statements
    <3> QED
      BY <1>1, <1>3, <2>1, <2>2, <2>3, <3>1, <3>3, BuildMove DEF BuildPositions
  <2> QED
    BY <2>4, <2>5
<1> QED
  BY <1>2, <1>4, <1>5

\* There is no hierarchy at first.
LEMMA InitBuild ==
  ASSUME Init PROVE BuildInv
PROOF
<1>1. PICK W \in Workloads : pos = [j \in Jobs |-> IF j \in W THEN "waiting" ELSE "absent"]
  BY DEF Init
<1>2. \A j \in Jobs : pos[j] # "absent" <=> j \in W
  BY <1>1
<1>3. \A j \in Jobs : pos[j] \in {"waiting", "absent"}
  BY <1>1
<1>4. /\ graph.options = {} /\ graph.nodes = {} /\ graph.hasParent = {} /\ graph.hasData = {}
      /\ graph.remain = {} /\ ~built
  BY DEF Init, EmptyGraph
<1>5. Empty(graph) /\ HierarchyCodes(graph) = {}
  BY <1>4 DEF Empty, HierarchyCodes
<1>6. {"waiting", "absent"} \subseteq Resting /\ "waiting" \notin BuildPositions /\ "absent" \notin BuildPositions
  BY DEF Resting, BuildPositions, Statements
<1> QED
  BY <1>2, <1>3, <1>4, <1>5, <1>6 DEF BuildInv, Building, BuildPositions

\* No step breaks the invariant of builds.
LEMMA NextBuild ==
  ASSUME IInv, BuildInv, Buildable, [Next]_vars
  PROVE  BuildInv'
PROOF
<1>1. ASSUME NEW j \in Jobs, Deliver(j) PROVE BuildInv'
  BY <1>1, DeliverBuild
<1>2. ASSUME NEW j \in Jobs, Step(j) PROVE BuildInv'
  BY <1>2, LocalBuild, AnswerBuild, ErrorBuild DEF Step
<1>3. CASE UNCHANGED vars
  <2>1. graph' = graph /\ pos' = pos /\ built' = built
    BY <1>3 DEF vars
  <2> QED
    BY <2>1 DEF BuildInv, DataCodes, Inserting
<1> QED
  BY <1>1, <1>2, <1>3 DEF Next, Idle
------------------------------------------------------------------------------
(* What the reads show of a finished hierarchy.                            *)

\* An element and its children, of the hierarchy that C induces.
KeptElement(C, n) ==
  [ id |-> n, hasData |-> n \in C,
    noOfChildren |-> Cardinality({ e \in Within(C) : e[2] = n }) ]
Below(C, n) == { KeptElement(C, e[1]) : e \in { f \in Within(C) : f[2] = n } }

\* The edges to a node are as many as those to its clone.
LEMMA EdgesTo ==
  ASSUME NEW C, C \subseteq Nodes, NEW n
  PROVE  Cardinality({ e \in CloneEdges(Within(C)) : e[2] = <<n, 1>> }) =
           Cardinality({ e \in Within(C) : e[2] = n })
PROOF
<1> DEFINE R == { e \in Within(C) : e[2] = n }
           E == { e \in CloneEdges(Within(C)) : e[2] = <<n, 1>> }
           f == [ e \in R |-> <<<<e[1], 1>>, <<e[2], 1>>>> ]
<1>1. Within(C) \subseteq Parent /\ IsFiniteSet(Kept(C))
  BY KeptClosed
<1>2. IsFiniteSet(R)
  <2>1. IsFiniteSet(Kept(C) \X Kept(C))
    BY <1>1, FS_Product
  <2>2. R \subseteq Kept(C) \X Kept(C)
    BY DEF Within
  <2> QED
    BY <2>1, <2>2, FS_Subset
<1>3. \A x, y \in R : f[x] = f[y] => x = y
  <2>1. \A x \in R : x = <<x[1], x[2]>>
    BY <1>1, NeoGraphAssumption
  <2> SUFFICES ASSUME NEW x \in R, NEW y \in R, f[x] = f[y] PROVE x = y
    OBVIOUS
  <2>2. <<<<x[1], 1>>, <<x[2], 1>>>> = <<<<y[1], 1>>, <<y[2], 1>>>>
    OBVIOUS
  <2>3. x[1] = y[1] /\ x[2] = y[2]
    BY <2>2
  <2> QED
    BY <2>1, <2>3
<1>4. { f[x] : x \in R } = E
  <2>1. ASSUME NEW x \in R PROVE f[x] \in E
    BY <1>1, <2>1 DEF CloneEdges
  <2>2. ASSUME NEW e \in E PROVE \E x \in R : e = f[x]
    <3>1. PICK x \in Within(C) : e = <<<<x[1], 1>>, <<x[2], 1>>>>
      BY DEF CloneEdges
    <3>2. x \in R
      BY <3>1
    <3> QED
      BY <3>1, <3>2
  <2> HIDE DEF R, E, f
  <2> QED
    BY <2>1, <2>2
<1> HIDE DEF R, f
<1>5. DOMAIN f = R
  BY DEF f
<1>6. Cardinality({ f[x] : x \in R }) = Cardinality(R)
  BY <1>2, <1>3, <1>5, SameSize
<1> QED
  BY <1>4, <1>6 DEF R

\* An element of a finished hierarchy, as it is read.
LEMMA ElementOfFinished ==
  ASSUME NEW g, NEW C, C \subseteq Nodes, Finished(g, C), NEW n \in Kept(C)
  PROVE  <<n, 1>> \in g.nodes /\ Element(g, <<n, 1>>) = KeptElement(C, n)
PROOF
<1>1. <<n, 1>> \in g.nodes /\ (<<n, 1>> \in g.hasData <=> n \in C)
  BY InClones DEF Finished, Trimmed
<1>2. g.children[<<n, 1>>] = Cardinality({ e \in g.hasParent : e[2] = <<n, 1>> })
  BY <1>1 DEF Finished
<1>3. g.hasParent = CloneEdges(Within(C)) /\ DOMAIN g.children = g.nodes
  BY DEF Finished, Trimmed
<1>4. g.children[<<n, 1>>] = Cardinality({ e \in CloneEdges(Within(C)) : e[2] = <<n, 1>> })
  BY <1>2, <1>3
<1>5. g.children[<<n, 1>>] = Cardinality({ e \in Within(C) : e[2] = n })
  <2>1. Cardinality({ e \in CloneEdges(Within(C)) : e[2] = <<n, 1>> }) =
          Cardinality({ e \in Within(C) : e[2] = n })
    BY EdgesTo
  <2> QED
    BY <1>4, <2>1
<1> QED
  BY <1>1, <1>3, <1>5 DEF Element, KeptElement

\* And the answer to a query that finds it.
LEMMA ResponseOfFinished ==
  ASSUME NEW g, NEW C, C \subseteq Nodes, Finished(g, C), NEW n \in Kept(C), NEW vs, vs = {<<n, 1>>}
  PROVE  queryResponse(g, vs) =
           [ status |-> "ok", element |-> KeptElement(C, n), breadcrumbs |-> {}, children |-> Below(C, n) ]
PROOF
<1> DEFINE v == CHOOSE u \in vs : TRUE
<1>1. vs # {} /\ v = <<n, 1>>
  OBVIOUS
<1>2. queryResponse(g, vs) =
        [ status |-> "ok", element |-> Element(g, v), breadcrumbs |-> {},
          children |-> { Element(g, e[1]) : e \in { f \in g.hasParent : f[2][1] = v[1] } } ]
  BY <1>1 DEF queryResponse
<1> HIDE DEF v
<1>3. Element(g, v) = KeptElement(C, n) /\ v[1] = n
  BY <1>1, ElementOfFinished
<1> DEFINE S == { Element(g, e[1]) : e \in { f \in g.hasParent : f[2][1] = n } }
<1>4. S = Below(C, n)
  <2>1. g.hasParent = CloneEdges(Within(C)) /\ Within(C) \subseteq Parent
    BY KeptClosed DEF Finished, Trimmed
  <2>2. ASSUME NEW e \in Within(C) PROVE e[1] \in Kept(C)
    BY <2>2 DEF Within
  <2>3. ASSUME NEW e \in g.hasParent, e[2][1] = n
        PROVE  \E f \in Within(C) : f[2] = n /\ Element(g, e[1]) = KeptElement(C, f[1])
    <3>1. PICK f \in Within(C) : e = <<<<f[1], 1>>, <<f[2], 1>>>>
      BY <2>1 DEF CloneEdges
    <3>2. f[2] = n /\ e[1] = <<f[1], 1>> /\ f[1] \in Kept(C)
      BY <2>2, <2>3, <3>1
    <3> QED
      BY <3>2, ElementOfFinished
  <2>4. ASSUME NEW f \in Within(C), f[2] = n
        PROVE  \E e \in g.hasParent : e[2][1] = n /\ Element(g, e[1]) = KeptElement(C, f[1])
    <3> DEFINE e == <<<<f[1], 1>>, <<f[2], 1>>>>
    <3>1. e \in g.hasParent /\ e[2][1] = n /\ e[1] = <<f[1], 1>>
      BY <2>1, <2>4 DEF CloneEdges
    <3>2. Element(g, e[1]) = KeptElement(C, f[1])
      BY <2>2, <3>1, ElementOfFinished
    <3> QED
      BY <3>1, <3>2
  <2> QED
    BY <2>3, <2>4 DEF Below
<1> QED
  BY <1>2, <1>3, <1>4

\* The root is what GetHierarchyRoot finds; the other nodes that remain are
\* what GetHierarchyElement finds.
LEMMA NodesOfFinished ==
  ASSUME NEW g, NEW C, C \subseteq Nodes, Finished(g, C), NEW r, IsRoot(r), Grounded(C)
  PROVE  /\ { v \in g.nodes : \A e \in g.hasParent : e[1] # v } = {<<r, 1>>}
         /\ \A n \in Nodes :
              LET same == { v \in g.nodes : v[1] = n }
                  up   == Ancestors(g.hasParent, same)
              IN  /\ n \in Kept(C) => same = {<<n, 1>>}
                  /\ n \in Kept(C) /\ n # r => up # {}
                  /\ n \notin Kept(C) => same = {}
                  /\ n = r => up = {}
PROOF
<1>1. /\ g.nodes = Clones(Kept(C)) /\ g.hasParent = CloneEdges(Within(C)) /\ Within(C) \subseteq Parent
      /\ \A e \in Parent : e[1] \in Kept(C) => e \in Within(C)
  BY KeptClosed DEF Finished, Trimmed
<1>2. r \in Kept(C) /\ \A n \in Nodes \ {r} : \E e \in Parent : e[1] = n
  BY KeptUnderRoot
<1>3. ASSUME NEW n \in Kept(C)
      PROVE  (\E e \in g.hasParent : e[1] = <<n, 1>>) <=> n # r
  <2>1. ASSUME NEW e \in g.hasParent, e[1] = <<n, 1>> PROVE n # r
    <3>1. PICK f \in Within(C) : e = <<<<f[1], 1>>, <<f[2], 1>>>>
      BY <1>1 DEF CloneEdges
    <3>2. f[1] = n /\ f \in Parent
      BY <1>1, <2>1, <3>1
    <3> QED
      BY <3>2 DEF IsRoot
  <2>2. ASSUME n # r PROVE \E e \in g.hasParent : e[1] = <<n, 1>>
    <3>1. n \in Nodes
      BY KeptClosed
    <3>2. PICK f \in Parent : f[1] = n
      BY <1>2, <2>2, <3>1
    <3>3. f \in Within(C)
      BY <1>1, <3>2
    <3>4. <<<<f[1], 1>>, <<f[2], 1>>>> \in g.hasParent
      BY <1>1, <3>3 DEF CloneEdges
    <3> QED
      BY <3>2, <3>4
  <2> QED
    BY <2>1, <2>2
<1>4. { v \in g.nodes : \A e \in g.hasParent : e[1] # v } = {<<r, 1>>}
  <2>1. \A v \in g.nodes : v[1] \in Kept(C) /\ v = <<v[1], 1>>
    BY <1>1, InClones
  <2>2. <<r, 1>> \in g.nodes
    BY <1>1, <1>2, InClones
  <2> QED
    BY <1>3, <1>2, <2>1, <2>2
<1>5. ASSUME NEW n \in Nodes, NEW same, same = { v \in g.nodes : v[1] = n },
             NEW up, up = Ancestors(g.hasParent, same)
      PROVE  /\ n \in Kept(C) => same = {<<n, 1>>}
             /\ n \in Kept(C) /\ n # r => up # {}
             /\ n \notin Kept(C) => same = {}
             /\ n = r => up = {}
  <2>1. /\ \A v \in g.nodes : v[1] \in Kept(C) /\ v = <<v[1], 1>>
        /\ n \in Kept(C) => <<n, 1>> \in g.nodes
    BY <1>1, InClones
  <2>2. n \in Kept(C) => same = {<<n, 1>>}
    BY <1>5, <2>1
  <2>3. n \notin Kept(C) => same = {}
    BY <1>5, <2>1
  <2>4. up = {} <=> \A e \in g.hasParent : e[1] \notin same
    BY <1>5, NothingAbove
  <2>5. ASSUME n \in Kept(C) PROVE up = {} <=> n = r
    BY <1>3, <2>2, <2>4, <2>5
  <2> QED
    BY <1>2, <2>2, <2>3, <2>5
<1> QED
  BY <1>4, <1>5

\* What the reads answer: one element for every node that remains.
LEMMA AnswersOfFinished ==
  ASSUME NEW g, NEW C, C \subseteq Nodes, Finished(g, C), NEW r, IsRoot(r), Grounded(C),
         NEW answers,
         answers = { a \in {GetHierarchyRoot(g)} \cup { GetHierarchyElement(g, n) : n \in Nodes } :
                       a.status = "ok" }
  PROVE  /\ \A a \in answers : /\ a.element.id \in Kept(C)
                               /\ a.element = KeptElement(C, a.element.id)
                               /\ a.children = Below(C, a.element.id)
         /\ \A n \in Kept(C) : \E a \in answers : a.element.id = n
PROOF
<1> DEFINE good(a) == /\ a.element.id \in Kept(C)
                      /\ a.element = KeptElement(C, a.element.id)
                      /\ a.children = Below(C, a.element.id)
<1>1. r \in Kept(C) /\ r \in Nodes /\ Kept(C) \subseteq Nodes
  BY KeptUnderRoot, KeptClosed DEF IsRoot
<1>2. \A n : KeptElement(C, n).id = n
  BY DEF KeptElement
<1>3. GetHierarchyRoot(g).status = "ok" /\ GetHierarchyRoot(g).element.id = r /\ good(GetHierarchyRoot(g))
  <2> DEFINE top == { v \in g.nodes : \A e \in g.hasParent : e[1] # v }
  <2>1. top = {<<r, 1>>}
    BY NodesOfFinished
  <2>2. GetHierarchyRoot(g) = queryResponse(g, top)
    BY DEF GetHierarchyRoot
  <2> HIDE DEF top
  <2>3. GetHierarchyRoot(g) =
          [ status |-> "ok", element |-> KeptElement(C, r), breadcrumbs |-> {}, children |-> Below(C, r) ]
    BY <1>1, <2>1, <2>2, ResponseOfFinished
  <2> QED
    BY <1>1, <1>2, <2>3
<1>4. ASSUME NEW n \in Nodes, NEW x, x = GetHierarchyElement(g, n)
      PROVE  /\ n \in Kept(C) \ {r} => x.status = "ok" /\ x.element.id = n /\ good(x)
             /\ ~(n \in Kept(C) \ {r}) => x.status # "ok"
  <2> DEFINE same == { v \in g.nodes : v[1] = n }
             up   == Ancestors(g.hasParent, same)
             B    == { Element(g, v) : v \in up }
  <2>1. /\ n \in Kept(C) => same = {<<n, 1>>}
        /\ n \in Kept(C) /\ n # r => up # {}
        /\ n \notin Kept(C) => same = {}
        /\ n = r => up = {}
    BY NodesOfFinished
  <2>2. /\ same = {} \/ up = {} => x = NotFound
        /\ ~(same = {} \/ up = {}) => x = [queryResponse(g, same) EXCEPT !.breadcrumbs = B]
    BY <1>4 DEF GetHierarchyElement
  <2> HIDE DEF same, up, B
  <2>3. ASSUME n \in Kept(C) \ {r}
        PROVE  x.status = "ok" /\ x.element.id = n /\ good(x)
    <3>1. queryResponse(g, same) =
            [ status |-> "ok", element |-> KeptElement(C, n), breadcrumbs |-> {}, children |-> Below(C, n) ]
      BY <2>1, <2>3, ResponseOfFinished
    <3>2. x = [queryResponse(g, same) EXCEPT !.breadcrumbs = B]
      BY <2>1, <2>2, <2>3
    <3>3. x.status = "ok" /\ x.element = KeptElement(C, n) /\ x.children = Below(C, n)
      BY <3>1, <3>2
    <3> QED
      BY <1>2, <2>3, <3>3
  <2>4. ASSUME ~(n \in Kept(C) \ {r}) PROVE x.status # "ok"
    <3>1. x = NotFound
      BY <2>1, <2>2, <2>4
    <3> QED
      BY <3>1 DEF NotFound
  <2> QED
    BY <2>3, <2>4
<1>5. ASSUME NEW a \in answers PROVE good(a)
  <2>1. CASE a = GetHierarchyRoot(g)
    BY <1>3, <2>1
  <2>2. CASE a # GetHierarchyRoot(g)
    <3>1. a.status = "ok" /\ \E n \in Nodes : a = GetHierarchyElement(g, n)
      BY <2>2
    <3>2. PICK n \in Nodes : a = GetHierarchyElement(g, n)
      BY <3>1
    <3> HIDE DEF good
    <3> QED
      BY <1>4, <3>1, <3>2
  <2> QED
    BY <2>1, <2>2
<1>6. ASSUME NEW n \in Kept(C) PROVE \E a \in answers : a.element.id = n
  <2>1. CASE n = r
    BY <1>3, <2>1
  <2>2. CASE n # r
    <3>1. n \in Nodes
      BY <1>1
    <3>2. GetHierarchyElement(g, n).status = "ok" /\ GetHierarchyElement(g, n).element.id = n
      BY <1>4, <2>2, <3>1
    <3> QED
      BY <3>1, <3>2
  <2> QED
    BY <2>1, <2>2
<1> QED
  BY <1>5, <1>6

\* The number of nodes is the number of those that remain.
LEMMA CountOfFinished ==
  ASSUME NEW g, NEW C, C \subseteq Nodes, Finished(g, C)
  PROVE  CountNodes(g) = Cardinality(Kept(C))
PROOF
<1> DEFINE f == [n \in Kept(C) |-> <<n, 1>>]
<1>1. g.nodes = { f[n] : n \in Kept(C) }
  BY DEF Finished, Trimmed, Clones
<1>2. IsFiniteSet(Kept(C))
  BY KeptClosed
<1>3. \A x, y \in Kept(C) : f[x] = f[y] => x = y
  OBVIOUS
<1>4. DOMAIN f = Kept(C)
  OBVIOUS
<1> HIDE DEF f
<1> QED
  BY <1>1, <1>2, <1>3, <1>4, SameSize DEF CountNodes

\* The instance has its own copy of FiniteSets.
LEMMA SameCardinality == \A S : Abstract!Cardinality(S) = Cardinality(S)
BY DEF Abstract!Cardinality, Cardinality

\* A finished hierarchy is shown as the abstract one.
LEMMA ViewOfFinished ==
  ASSUME built, DataCodes \subseteq Nodes, Finished(graph, DataCodes),
         NEW r, IsRoot(r), Grounded(DataCodes)
  PROVE  View = Abstract!Induced(DataCodes, {})
PROOF
<1> DEFINE C == DataCodes
           answers == { a \in {GetHierarchyRoot(graph)} \cup { GetHierarchyElement(graph, n) : n \in Nodes } :
                          a.status = "ok" }
           read  == { a.element.id : a \in answers }
           of(n) == CHOOSE a \in answers : a.element.id = n
           edges == UNION { { <<c.id, a.element.id>> : c \in a.children } : a \in answers }
           withData == { n \in read : of(n).element.hasData }
           numbers  == [n \in read |-> of(n).element.noOfChildren]
           kept   == DataCodes \cup Ancestors(Parent, DataCodes)
           within == Parent \cap (kept \X kept)
           counts == [n \in kept |-> Cardinality({ e \in within : e[2] = n })]
<1>1. /\ \A a \in answers : /\ a.element.id \in Kept(C)
                            /\ a.element = KeptElement(C, a.element.id)
                            /\ a.children = Below(C, a.element.id)
      /\ \A n \in Kept(C) : \E a \in answers : a.element.id = n
  <2> HIDE DEF answers
  <2>1. answers = { a \in {GetHierarchyRoot(graph)} \cup { GetHierarchyElement(graph, n) : n \in Nodes } :
                      a.status = "ok" }
    BY DEF answers
  <2> QED
    BY <2>1, AnswersOfFinished
<1>2. View = IF ~(HierarchyExists(graph) /\ CountNodes(graph) = Cardinality(read))
             THEN [state |-> "unreadable"]
             ELSE [ state |-> "ready", nodes |-> read, edges |-> edges, hasData |-> withData,
                    children |-> numbers, ordered |-> {} ]
  BY DEF View
<1>3. Abstract!Induced(DataCodes, {}) =
        [ state |-> "ready", nodes |-> kept, edges |-> within, hasData |-> DataCodes,
          children |-> counts, ordered |-> {} ]
  BY SameCardinality DEF Abstract!Induced
<1>4. kept = Kept(C) /\ within = Within(C)
  BY DEF Kept, Within
<1> HIDE DEF answers
<1>5. read = Kept(C)
  BY <1>1
<1>6. HierarchyExists(graph) /\ CountNodes(graph) = Cardinality(read)
  <2>1. <<r, 1>> \in graph.nodes
    BY KeptUnderRoot, ElementOfFinished
  <2> HIDE DEF read
  <2> QED
    BY <1>5, <2>1, CountOfFinished DEF HierarchyExists
<1>7. ASSUME NEW n \in Kept(C) PROVE of(n).element = KeptElement(C, n)
  <2>1. of(n) \in answers /\ of(n).element.id = n
    BY <1>1
  <2> HIDE DEF of
  <2> QED
    BY <1>1, <2>1
<1> HIDE DEF of
<1>8. withData = DataCodes
  <2>1. DataCodes \subseteq Kept(C)
    BY DEF Kept
  <2>2. ASSUME NEW n \in Kept(C) PROVE of(n).element.hasData <=> n \in C
    <3>1. KeptElement(C, n).hasData <=> n \in C
      BY DEF KeptElement
    <3> QED
      BY <1>7, <3>1
  <2>3. withData = { n \in Kept(C) : of(n).element.hasData }
    BY <1>5
  <2> HIDE DEF withData, read
  <2> QED
    BY <2>1, <2>2, <2>3
<1>9. numbers = counts
  <2>1. ASSUME NEW n \in Kept(C)
        PROVE  of(n).element.noOfChildren = Cardinality({ e \in Within(C) : e[2] = n })
    <3>1. KeptElement(C, n).noOfChildren = Cardinality({ e \in Within(C) : e[2] = n })
      BY DEF KeptElement
    <3> QED
      BY <1>7, <3>1
  <2>2. numbers = [n \in Kept(C) |-> of(n).element.noOfChildren]
    BY <1>5
  <2>3. counts = [n \in Kept(C) |-> Cardinality({ e \in Within(C) : e[2] = n })]
    BY <1>4
  <2> HIDE DEF numbers, counts, read
  <2> QED
    BY <2>1, <2>2, <2>3
<1>10. edges = within
  <2>1. \A e \in Within(C) : e = <<e[1], e[2]>> /\ e[2] \in Kept(C)
    BY DEF Within
  <2>2. ASSUME NEW a \in answers, NEW c \in a.children PROVE <<c.id, a.element.id>> \in Within(C)
    <3>1. c \in Below(C, a.element.id)
      BY <1>1, <2>2
    <3>2. PICK f \in Within(C) : f[2] = a.element.id /\ c = KeptElement(C, f[1])
      BY <3>1 DEF Below
    <3>3. c.id = f[1]
      BY <3>2 DEF KeptElement
    <3> QED
      BY <2>1, <3>2, <3>3
  <2>3. ASSUME NEW e \in Within(C) PROVE e \in edges
    <3>1. PICK a \in answers : a.element.id = e[2]
      BY <1>1, <2>1
    <3>2. KeptElement(C, e[1]) \in a.children
      BY <1>1, <3>1 DEF Below
    <3>3. PICK c \in a.children : c = KeptElement(C, e[1])
      BY <3>2
    <3>4. c.id = e[1]
      BY <3>3 DEF KeptElement
    <3>5. e = <<c.id, a.element.id>>
      BY <2>1, <3>1, <3>4
    <3> QED
      BY <3>5
  <2>4. edges \subseteq Within(C)
    BY <2>2
  <2> HIDE DEF edges
  <2> QED
    BY <1>4, <2>3, <2>4
<1>11. View = [ state |-> "ready", nodes |-> read, edges |-> edges, hasData |-> withData,
                children |-> numbers, ordered |-> {} ]
  <2> HIDE DEF read, edges, withData, numbers
  <2> QED
    BY <1>2, <1>6
<1>12. read = kept
  BY <1>4, <1>5
<1> HIDE DEF read, edges, withData, numbers, kept, within, counts
<1> QED
  BY <1>3, <1>8, <1>9, <1>10, <1>11, <1>12

\* Once a build has ended well the reads show the abstract hierarchy, and no
\* hierarchy before that.
Shown ==
  /\ built => View = Abstract!Induced(DataCodes, {})
  /\ ~built => View = Abstract!Absent

\* The invariant of builds says what is shown.
LEMMA HierarchyIsShown ==
  ASSUME Buildable, BuildInv PROVE Shown
PROOF
<1>1. ASSUME built PROVE View = Abstract!Induced(DataCodes, {})
  <2>1. Finished(graph, DataCodes)
    BY <1>1 DEF BuildInv
  <2>2. PICK r \in Nodes : IsRoot(r)
    BY DEF Buildable
  <2>3. DataCodes \subseteq Nodes
    BY WhatIsGiven
  <2>4. \E j \in Jobs : Builds(j) /\ pos[j] # "absent"
    BY <1>1 DEF BuildInv
  <2>5. Grounded(DataCodes)
    BY <2>4, WhatIsGiven
  <2> QED
    BY <1>1, <2>1, <2>2, <2>3, <2>5, ViewOfFinished
<1>2. ASSUME ~built PROVE View = Abstract!Absent
  BY <1>2 DEF View, Abstract!Absent
<1> QED
  BY <1>1, <1>2 DEF Shown
------------------------------------------------------------------------------
(* The refinement.                                                         *)

\* What there is data for is settled by the jobs, and a build that has ended
\* well has ended well.
LEMMA DataNeverChanges ==
  ASSUME IInv, BuildInv, Buildable, [Next]_vars
  PROVE  DataCodes' = DataCodes /\ built' \in BOOLEAN /\ (built => built')
PROOF
<1>1. built \in BOOLEAN
  BY DEF IInv, TypeOK
<1>2. CASE UNCHANGED <<pos, built>>
  BY <1>1, <1>2 DEF DataCodes, Inserting
<1>3. ASSUME NEW j \in Jobs, Deliver(j) PROVE DataCodes' = DataCodes /\ built' = built
  <2>1. pos[j] # "absent"
    BY <1>3 DEF Deliver, Ended
  <2>2. FirstStatement(j) # "absent"
    BY DEF FirstStatement
  <2> QED
    BY <1>3, <2>1, <2>2, DataStays DEF Deliver
<1>4. ASSUME NEW j \in Jobs, CacheDimension(j) \/ CreateParams(j)
      PROVE  DataCodes' = DataCodes /\ built' = built
  <2>1. PICK p \in {"insertDimension", "createUniqueConstraint", "insertObservations", "failed"} :
          pos' = [pos EXCEPT ![j] = p]
    BY <1>4 DEF CacheDimension, CreateParams, Fail
  <2>2. pos[j] # "absent" /\ p # "absent" /\ built' = built
    BY <1>4 DEF CacheDimension, CreateParams
  <2> QED
    BY <2>1, <2>2, DataStays
<1>5. ASSUME NEW j \in Jobs, Answer(j)
      PROVE  DataCodes' = DataCodes /\ built' \in BOOLEAN /\ (built => built')
  <2>1. PICK p \in After(j) : /\ pos' = [pos EXCEPT ![j] = p]
                              /\ built' = (built \/ (j.op = "BuildHierarchy" /\ p = "done"))
    BY <1>5 DEF Answer
  <2>2. Sent(j) /\ ~Breaks(Executed(j)) /\ pos[j] # "absent"
    BY <1>5 DEF Answer, Sent
  <2>3. p # "absent"
    <3>1. CASE Builds(j)
      BY <2>2, <3>1, BuildExecuted DEF BuildPositions, Statements
    <3>2. CASE ~Builds(j)
      BY <2>2, <3>2, OthersGoOn
    <3> QED
      BY <3>1, <3>2
  <2>4. DataCodes' = DataCodes
    BY <2>1, <2>2, <2>3, DataStays
  <2> QED
    BY <1>1, <2>1, <2>4
<1>6. ASSUME NEW j \in Jobs, Refuse(j) \/ Disturb(j) \/ Lose(j)
      PROVE  DataCodes' = DataCodes /\ built' = built
  <2>1. pos[j] # "absent" /\ built' = built /\ \E error : HandleError(j, error)
    BY <1>6 DEF Refuse, Disturb, Lose, Sent
  <2>2. pos' = pos \/ pos' = [pos EXCEPT ![j] = "failed"]
    BY <2>1, HandleErrorOK DEF Handled
  <2>3. CASE pos' = pos
    BY <2>1, <2>3 DEF DataCodes, Inserting
  <2>4. CASE pos' = [pos EXCEPT ![j] = "failed"]
    BY <2>1, <2>4, DataStays
  <2> QED
    BY <2>2, <2>3, <2>4
<1> QED
  BY <1>1, <1>2, <1>3, <1>4, <1>5, <1>6 DEF Next, Step, Idle, vars

\* Before the first statement no hierarchy is shown.
LEMMA RefinementInit ==
  ASSUME Init, Buildable, BuildInv
  PROVE  Abstract!Init
PROOF
<1>1. DataCodes \subseteq Nodes
  BY WhatIsGiven
<1>2. View = Abstract!Absent
  BY HierarchyIsShown DEF Init, Shown
<1> QED
  BY <1>1, <1>2 DEF Abstract!Init

\* The answer to the last statement of the first build that ends well lets the
\* whole hierarchy appear; no other step changes what is shown.
LEMMA RefinementStep ==
  ASSUME IInv, BuildInv, Buildable, Shown, Shown', [Next]_vars
  PROVE  [Abstract!Next]_<<[i \in {"instance"} |-> DataCodes], [i \in {"instance"} |-> View]>>
PROOF
<1>1. DataCodes' = DataCodes /\ built' \in BOOLEAN /\ (built => built')
  BY DataNeverChanges
<1> DEFINE D == [i \in {"instance"} |-> DataCodes]
           H == [i \in {"instance"} |-> View]
<1>2. /\ built' => View' = Abstract!Induced(DataCodes, {})
      /\ ~built' => View' = Abstract!Absent
  <2>1. (built => View = Abstract!Induced(DataCodes, {}))' /\ (~built => View = Abstract!Absent)'
    BY DEF Shown
  <2> QED
    BY <1>1, <2>1
<1>3. CASE built' = built
  <2>1. View' = View
    BY <1>2, <1>3 DEF Shown
  <2> QED
    BY <1>1, <2>1
<1>4. CASE built' # built
  <2>1. View = Abstract!Absent /\ View' = Abstract!Induced(DataCodes, {})
    <3>1. built \in BOOLEAN
      BY DEF IInv, TypeOK
    <3>2. ~built /\ built'
      BY <1>1, <1>4, <3>1
    <3> QED
      BY <1>2, <3>2 DEF Shown
  <2>2. H["instance"] = Abstract!Absent /\ D' = D
    BY <1>1, <2>1
  <2>3. H' = [H EXCEPT !["instance"] = Abstract!Induced(D["instance"], {})]
    BY <2>1
  <2>4. Abstract!Finish("instance")
    BY <2>2, <2>3 DEF Abstract!Finish
  <2> QED
    BY <2>4 DEF Abstract!Next
<1> QED
  BY <1>3, <1>4

\* However the calls are disturbed: the graph of the hierarchy is, statement by
\* statement, what one build from the generic hierarchy has made of it.
THEOREM BuildInvariance ==
  ASSUME Buildable
  PROVE  Spec => [](IInv /\ BuildInv)
PROOF
<1>1. Init => BuildInv
  BY InitBuild
<1>2. IInv /\ BuildInv /\ [Next]_vars => BuildInv'
  BY NextBuild
<1> QED
  BY <1>1, <1>2, Invariance, PTL DEF Spec

\* CreateInstanceHierarchyConstraint to SetNumberOfChildren (hierarchy_writer.go)
\* and the reads of hierarchy.go: the nine statements of a build, repeated,
\* retried, rolled back or lost, look like one step in which the hierarchy of
\* the abstract specification appears, and stays.
THEOREM StoreImplementsTheHierarchy ==
  ASSUME Buildable
  PROVE  Spec => ImplementsInstanceHierarchy
PROOF
<1>1. Init => Abstract!Init
  BY InitBuild, RefinementInit
<1>2. IInv /\ BuildInv /\ Shown /\ Shown' /\ [Next]_vars =>
        [Abstract!Next]_<<[i \in {"instance"} |-> DataCodes], [i \in {"instance"} |-> View]>>
  BY RefinementStep
<1>3. BuildInv => Shown
  BY HierarchyIsShown
<1> QED
  BY <1>1, <1>2, <1>3, BuildInvariance, PTL
     DEF Spec, ImplementsInstanceHierarchy, Abstract!Spec, Abstract!vars
==============================================================================
