-------------------------- MODULE NeptuneImportProofs --------------------------
(***************************************************************************)
(* Proofs about NeptuneImport, for any jobs, delivered and retried in any  *)
(* order; and, for jobs that make a pipeline, that the import is exact.    *)
(***************************************************************************)
EXTENDS NeptuneImport, FiniteSetLemmas, TLAPS

------------------------------------------------------------------------------
(* The inductive invariant: TypeOK, and what the position of a job says    *)
(* about its operation and its argument.                                   *)

IsGraph(g) == g = [vertices |-> g.vertices, edges |-> g.edges, properties |-> g.properties]

DimensionPositions   == {"getDimension", "dropDimension", "createDimension", "createDimensionEdge"}
ObservationPositions == {"getObservations", "getObservationsEdges", "dropObservations",
                         "addObservationNodes", "addObservationEdges"}

PosInv ==
  \A j \in Jobs :
    /\ pos[j] \in DimensionPositions => j.op = "InsertDimension"
    /\ pos[j] \in ObservationPositions => j.op = "InsertObservationBatch"
    /\ pos[j] = "createCodeEdge" => Option(j) \in Codes

Allowed(j, p) ==
  /\ p \in Positions
  /\ p \in DimensionPositions => j.op = "InsertDimension"
  /\ p \in ObservationPositions => j.op = "InsertObservationBatch"
  /\ p = "createCodeEdge" => Option(j) \in Codes

\* A statement that may still be executed is one its job has been at.
LateInv == \A s \in late : Allowed(s.job, s.at)

IInv == TypeOK /\ IsGraph(graph) /\ PosInv /\ LateInv

------------------------------------------------------------------------------
(* The statements keep a graph a graph.                                    *)

Vertices == {Instance} \cup Options \cup Observations

LEMMA GraphFromParts ==
  ASSUME NEW V \in SUBSET Vertices, NEW E, NEW P,
         \A e \in E : e[1] \in V \cup Codes /\ e[2] \in V,
         NEW h, h = [vertices |-> V, edges |-> E, properties |-> P]
  PROVE  IsGraph(h) /\ GraphOK(h)
<1>1. h.vertices = V /\ h.edges = E /\ h.properties = P
  OBVIOUS
<1>2. DOMAIN h = {"vertices", "edges", "properties"}
  OBVIOUS
<1> QED
  BY <1>1, <1>2 DEF IsGraph, GraphOK, Vertices

\* New vertices take no edge away.
LEMMA AddVerticesOK ==
  ASSUME NEW g, IsGraph(g), GraphOK(g),
         NEW V \in SUBSET Vertices
  PROVE  IsGraph(AddVertices(g, V)) /\ GraphOK(AddVertices(g, V))
<1>1. AddVertices(g, V) =
        [vertices |-> g.vertices \cup V, edges |-> g.edges, properties |-> g.properties]
  BY DEF AddVertices, IsGraph
<1>2. g.vertices \cup V \in SUBSET Vertices
  BY DEF GraphOK, Vertices
<1>3. \A e \in g.edges : e[1] \in (g.vertices \cup V) \cup Codes /\ e[2] \in g.vertices \cup V
  BY DEF GraphOK
<1> QED
  BY <1>1, <1>2, <1>3, GraphFromParts

\* Edges are added only between vertices there are, or from a code.
LEMMA AddEdgesOK ==
  ASSUME NEW g, IsGraph(g), GraphOK(g), NEW pairs,
         \A p \in pairs : p[1] \in g.vertices \cup Codes /\ p[2] \in g.vertices
  PROVE  IsGraph(AddEdges(g, pairs)) /\ GraphOK(AddEdges(g, pairs))
<1> DEFINE number(p) == Cardinality(Between(g, p[1], {p[2]})) + 1
           new == { <<p[1], p[2], number(p)>> : p \in pairs }
<1>1. AddEdges(g, pairs) = [g EXCEPT !.edges = g.edges \cup new]
  BY DEF AddEdges
<1> HIDE DEF number
<1>2. \A e \in new : e[1] \in g.vertices \cup Codes /\ e[2] \in g.vertices
  <2> SUFFICES ASSUME NEW p \in pairs
               PROVE  p[1] \in g.vertices \cup Codes /\ p[2] \in g.vertices
    OBVIOUS
  <2> QED
    OBVIOUS
<1> HIDE DEF new
<1>5. AddEdges(g, pairs) =
        [vertices |-> g.vertices, edges |-> g.edges \cup new, properties |-> g.properties]
  BY <1>1 DEF IsGraph
<1>3. g.vertices \in SUBSET Vertices
  BY DEF GraphOK, Vertices
<1>4. \A e \in g.edges \cup new : e[1] \in g.vertices \cup Codes /\ e[2] \in g.vertices
  BY <1>2 DEF GraphOK
<1> QED
  BY <1>3, <1>4, <1>5, GraphFromParts

\* With the vertices go all their edges.
LEMMA DropVerticesOK ==
  ASSUME NEW g, IsGraph(g), GraphOK(g), NEW V
  PROVE  IsGraph(DropVertices(g, V)) /\ GraphOK(DropVertices(g, V))
<1> DEFINE kept == { e \in g.edges : e[1] \notin V /\ e[2] \notin V }
<1>1. DropVertices(g, V) = [g EXCEPT !.vertices = g.vertices \ V, !.edges = kept]
  BY DEF DropVertices
<1>2. g.vertices \ V \in SUBSET Vertices
  BY DEF GraphOK, Vertices
<1>3. \A e \in kept : e[1] \in (g.vertices \ V) \cup Codes /\ e[2] \in g.vertices \ V
  BY DEF GraphOK
<1> HIDE DEF kept
<1>4. DropVertices(g, V) =
        [vertices |-> g.vertices \ V, edges |-> kept, properties |-> g.properties]
  BY <1>1 DEF IsGraph
<1> QED
  BY <1>2, <1>3, <1>4, GraphFromParts

\* The elements of a batch are observations.
LEMMA BatchElements ==
  ASSUME NEW batch \in Seq(Observations)
  PROVE  Range(batch) \subseteq Observations
BY DEF Range

LEMMA AddObservationEdgesOK ==
  ASSUME NEW g, IsGraph(g), GraphOK(g), NEW batch \in Seq(Observations)
  PROVE  IsGraph(addObservationEdges(g, batch)) /\ GraphOK(addObservationEdges(g, batch))
<1> DEFINE reached == { i \in DOMAIN batch : \A k \in 1..i : batch[k] \in g.vertices }
           pairs == UNION { { <<batch[i], LowerCase[o]>> : o \in OptionsOf[batch[i]] } : i \in reached }
<1>1. CASE dimIDs(batch) \subseteq g.vertices
  <2>1. \A p \in pairs : p[1] \in g.vertices \cup Codes /\ p[2] \in g.vertices
    <3> SUFFICES ASSUME NEW i \in reached, NEW o \in OptionsOf[batch[i]]
                 PROVE  batch[i] \in g.vertices /\ LowerCase[o] \in g.vertices
      OBVIOUS
    <3>1. i \in DOMAIN batch /\ i \in 1..i
      OBVIOUS
    <3>2. batch[i] \in g.vertices
      BY <3>1
    <3>3. LowerCase[o] \in dimIDs(batch)
      BY <3>1 DEF dimIDs, Range
    <3> QED
      BY <3>2, <3>3, <1>1
  <2>2. addObservationEdges(g, batch) = AddEdges(g, pairs)
    BY <1>1 DEF addObservationEdges
  <2> HIDE DEF pairs
  <2> QED
    BY <2>1, <2>2, AddEdgesOK
<1>2. CASE ~(dimIDs(batch) \subseteq g.vertices)
  BY <1>2 DEF addObservationEdges
<1> QED
  BY <1>1, <1>2

\* Whatever statement it is.
LEMMA StatementOK ==
  ASSUME IInv, NEW j \in Jobs, NEW p, Allowed(j, p), NEW seen
  PROVE  IsGraph(Executed(p, j, seen)) /\ GraphOK(Executed(p, j, seen))
<1>1. IsGraph(graph) /\ GraphOK(graph)
  BY DEF IInv, TypeOK
<1>2. CASE p = "dropDimension"
  BY <1>1, <1>2, DropVerticesOK DEF Executed, DropDimension
<1>3. CASE p = "createDimensionEdge"
  <2>1. Executed(p, j, seen) = CreateDimensionToInstanceRelationship(graph, Option(j))
    BY <1>3 DEF Executed
  <2>2. CASE {Option(j), Instance} \subseteq graph.vertices
    BY <1>1, <2>1, <2>2, AddEdgesOK DEF CreateDimensionToInstanceRelationship
  <2>3. CASE ~({Option(j), Instance} \subseteq graph.vertices)
    BY <1>1, <2>1, <2>3 DEF CreateDimensionToInstanceRelationship
  <2> QED
    BY <2>2, <2>3
<1>4. CASE p = "dropObservations"
  BY <1>1, <1>4, DropVerticesOK DEF Executed
<1>5. CASE p = "addObservationEdges"
  <2>1. j.arg \in Seq(Observations)
    BY <1>1, <1>5, ImportAssumption DEF Allowed, ObservationPositions, Observations
  <2> QED
    BY <1>1, <1>5, <2>1, AddObservationEdgesOK DEF Executed
<1>6. CASE p = "createCodeEdge"
  <2>1. Option(j) \in Codes
    BY <1>1, <1>6 DEF Allowed
  <2>2. CASE InstanceExists
    <3>1. Executed(p, j, seen) = AddEdges(graph, {<<Option(j), Instance>>})
      BY <1>6, <2>2 DEF Executed
    <3> QED
      BY <1>1, <2>1, <2>2, <3>1, AddEdgesOK DEF InstanceExists
  <2>3. CASE ~InstanceExists
    BY <1>1, <1>6, <2>3 DEF Executed
  <2> QED
    BY <2>2, <2>3
<1>7. CASE p = "setProperties"
  <2>1. Executed(p, j, seen) = SetProperties(graph, j.op)
    BY <1>7 DEF Executed
  <2> QED
    BY <1>1, <2>1 DEF SetProperties, IsGraph, GraphOK
<1>8. CASE p \notin {"dropDimension", "createDimensionEdge", "dropObservations",
                          "addObservationEdges", "createCodeEdge", "setProperties"}
  <2>1. Executed(p, j, seen) = AddVertices(graph, Created(p, j))
    BY <1>8 DEF Executed
  <2>2. Created(p, j) \in SUBSET Vertices
    <3>1. CASE p = "createDimension"
      BY <1>1, <3>1, ImportAssumption DEF Allowed, DimensionPositions, Created, Option, Vertices
    <3>2. CASE p = "addObservationNodes"
      <4>1. j.arg \in Seq(Observations)
        BY <1>1, <3>2, ImportAssumption DEF Allowed, ObservationPositions, Observations
      <4> QED
        BY <3>2, <4>1, BatchElements DEF Created, Vertices
    <3>3. CASE p \notin {"createDimension", "addObservationNodes"}
      BY <3>3 DEF Created, Vertices
    <3> QED
      BY <3>1, <3>2, <3>3
  <2> QED
    BY <1>1, <2>1, <2>2, AddVerticesOK
<1> QED
  BY <1>2, <1>3, <1>4, <1>5, <1>6, <1>7, <1>8

\* The one that job j is at.
LEMMA ExecutedOK ==
  ASSUME IInv, NEW j \in Jobs
  PROVE  /\ Allowed(j, pos[j])
         /\ IsGraph(Executed(pos[j], j, found[j])) /\ GraphOK(Executed(pos[j], j, found[j]))
<1>1. Allowed(j, pos[j])
  BY DEF IInv, TypeOK, PosInv, Allowed
<1> QED
  BY <1>1, StatementOK

------------------------------------------------------------------------------
(* Where an operation goes next.                                           *)

LEMMA AfterOK ==
  ASSUME NEW j \in Jobs, NEW p, p = After(j) \/ p = FirstStatement(j) \/ p = "failed"
  PROVE  Allowed(j, p)
<1> USE DEF Allowed, DimensionPositions, ObservationPositions, Positions
<1>1. CASE p = "failed"
  BY <1>1
<1>2. CASE p = FirstStatement(j)
  BY <1>2 DEF FirstStatement
<1>3. CASE p = After(j)
  <2>1. CASE j.op = "CreateInstance"
    <3>1. After(j) = AfterCreateInstance(j)
      BY <2>1 DEF After
    <3> QED
      BY <1>3, <3>1 DEF AfterCreateInstance
  <2>2. CASE j.op = "InsertDimension"
    <3>1. After(j) = AfterInsertDimension(j)
      BY <2>2 DEF After
    <3> QED
      BY <1>3, <2>2, <3>1 DEF AfterInsertDimension
  <2>3. CASE j.op = "CreateCodeRelationship"
    <3>1. After(j) = AfterCreateCodeRelationship(j)
      BY <2>3 DEF After
    <3> QED
      BY <1>3, <3>1 DEF AfterCreateCodeRelationship
  <2>4. CASE j.op = "InsertObservationBatch"
    <3>1. After(j) = AfterInsertObservationBatch(j)
      BY <2>4 DEF After
    <3> QED
      BY <1>3, <2>4, <3>1 DEF AfterInsertObservationBatch
  <2>5. CASE j.op \notin {"CreateInstance", "InsertDimension", "CreateCodeRelationship",
                          "InsertObservationBatch"}
    BY <1>3, <2>5 DEF After
  <2> QED
    BY <2>1, <2>2, <2>3, <2>4, <2>5
<1> QED
  BY <1>1, <1>2, <1>3

\* The position of j may change to one of these, the others stay.
LEMMA PosMove ==
  ASSUME IInv, NEW j \in Jobs, NEW p, pos' = [pos EXCEPT ![j] = p],
         p = After(j) \/ p = FirstStatement(j) \/ p = "failed"
  PROVE  PosInv' /\ pos' \in [Jobs -> Positions]
<1>1. pos \in [Jobs -> Positions] /\ PosInv
  BY DEF IInv, TypeOK
<1>2. pos' \in [Jobs -> Positions] /\ pos'[j] = p /\ \A k \in Jobs \ {j} : pos'[k] = pos[k]
  BY <1>1, AfterOK DEF Allowed
<1>3. ASSUME NEW k \in Jobs
      PROVE  /\ pos'[k] \in DimensionPositions => k.op = "InsertDimension"
             /\ pos'[k] \in ObservationPositions => k.op = "InsertObservationBatch"
             /\ pos'[k] = "createCodeEdge" => Option(k) \in Codes
  <2>1. CASE k = j
    BY <1>2, <2>1, AfterOK DEF Allowed
  <2>2. CASE k # j
    BY <1>1, <1>2, <2>2 DEF PosInv
  <2> QED
    BY <2>1, <2>2
<1> QED
  BY <1>2, <1>3 DEF PosInv, Option

------------------------------------------------------------------------------
THEOREM InitIInv == Init => IInv
<1> SUFFICES ASSUME Init PROVE IInv
  OBVIOUS
<1>1. IsGraph(graph) /\ GraphOK(graph)
  BY DEF Init, EmptyGraph, IsGraph, GraphOK
<1>2. PosInv
  BY DEF Init, PosInv, DimensionPositions, ObservationPositions
<1>3. tries \in [Jobs -> 1..MaxAttempts] /\ found \in [Jobs -> SUBSET Observations]
  BY ImportAssumption DEF Init
<1>5. pos \in [Jobs -> Positions]
  BY DEF Init, Positions
<1>4. redelivered \in 0..MaxRedeliveries /\ lost \in 0..MaxLosses /\ cache = {} /\ late = {}
  BY ImportAssumption DEF Init
<1> QED
  BY <1>1, <1>2, <1>3, <1>4, <1>5 DEF IInv, TypeOK, LateInv

\* Nothing more is late.
LEMMA LateStays ==
  ASSUME IInv, late' \subseteq late
  PROVE  /\ LateInv'
         /\ late' \subseteq [nth : 1..MaxLosses, at : Late, job : Jobs, seen : SUBSET Observations]
BY DEF IInv, TypeOK, LateInv, Allowed, Option

LEMMA DeliverStep ==
  ASSUME IInv, NEW j \in Jobs, Deliver(j)
  PROVE  IInv'
<1>1. PosInv' /\ pos' \in [Jobs -> Positions]
  BY PosMove DEF Deliver
<1>2. tries' \in [Jobs -> 1..MaxAttempts] /\ redelivered' \in 0..MaxRedeliveries
  BY ImportAssumption DEF IInv, TypeOK, Deliver
<1>3. LateInv' /\ late' \subseteq [nth : 1..MaxLosses, at : Late, job : Jobs, seen : SUBSET Observations]
  BY LateStays DEF Deliver
<1> QED
  BY <1>1, <1>2, <1>3 DEF IInv, TypeOK, Deliver

LEMMA AnswerStep ==
  ASSUME IInv, NEW j \in Jobs, Answer(j)
  PROVE  IInv'
<1>1. PosInv' /\ pos' \in [Jobs -> Positions]
  BY PosMove DEF Answer
<1>2. tries' \in [Jobs -> 1..MaxAttempts]
  BY ImportAssumption DEF IInv, TypeOK, Answer
<1>3. IsGraph(graph)' /\ GraphOK(graph')
  BY ExecutedOK DEF Answer, IsGraph
<1>4. found' \in [Jobs -> SUBSET Observations]
  <2>1. found \in [Jobs -> SUBSET Observations]
    BY DEF IInv, TypeOK
  <2>2. CASE pos[j] = "getObservations"
    <3>1. j.arg \in Seq(Observations)
      BY <2>2, ImportAssumption DEF IInv, PosInv, ObservationPositions, Observations
    <3>2. Range(j.arg) \cap graph.vertices \in SUBSET Observations
      BY <3>1, BatchElements
    <3> QED
      BY <2>1, <2>2, <3>2 DEF Answer
  <2>3. CASE pos[j] # "getObservations"
    BY <2>1, <2>3 DEF Answer
  <2> QED
    BY <2>2, <2>3
<1>5. cache' \subseteq { Dimension[o] : o \in Options }
  <2>1. cache \subseteq { Dimension[o] : o \in Options }
    BY DEF IInv, TypeOK
  <2>2. pos[j] = "createDimensionEdge" => Option(j) \in Options
    BY ImportAssumption DEF IInv, PosInv, DimensionPositions, Option
  <2> QED
    BY <2>1, <2>2 DEF Answer
<1>6. redelivered' \in 0..MaxRedeliveries /\ lost' \in 0..MaxLosses
  BY DEF IInv, TypeOK, Answer
<1>7. LateInv' /\ late' \subseteq [nth : 1..MaxLosses, at : Late, job : Jobs, seen : SUBSET Observations]
  BY LateStays DEF Answer
<1> QED
  BY <1>1, <1>2, <1>3, <1>4, <1>5, <1>6, <1>7 DEF IInv, TypeOK

LEMMA RetryStep ==
  ASSUME IInv, NEW j \in Jobs, Retry(j)
  PROVE  PosInv' /\ pos' \in [Jobs -> Positions] /\ tries' \in [Jobs -> 1..MaxAttempts]
<1>1. tries \in [Jobs -> 1..MaxAttempts] /\ pos \in [Jobs -> Positions]
  BY DEF IInv, TypeOK
<1>2. CASE tries[j] > 1
  <2>1. tries' = [tries EXCEPT ![j] = tries[j] - 1] /\ pos' = pos
    BY <1>2 DEF Retry
  <2>2. tries[j] - 1 \in 1..MaxAttempts
    BY <1>1, <1>2, ImportAssumption
  <2>3. PosInv'
    BY <2>1 DEF IInv, PosInv, Option
  <2> QED
    BY <1>1, <2>1, <2>2, <2>3
<1>3. CASE ~(tries[j] > 1)
  BY <1>1, <1>3, PosMove DEF Retry
<1> QED
  BY <1>2, <1>3

LEMMA RefuseStep ==
  ASSUME IInv, NEW j \in Jobs, Refuse(j)
  PROVE  IInv'
<1>1. PosInv' /\ pos' \in [Jobs -> Positions] /\ tries' \in [Jobs -> 1..MaxAttempts]
  BY RetryStep DEF Refuse
<1>2. UNCHANGED <<graph, lost, redelivered, found, cache>>
  BY DEF Refuse, Retry
<1>3. LateInv' /\ late' \subseteq [nth : 1..MaxLosses, at : Late, job : Jobs, seen : SUBSET Observations]
  BY LateStays DEF Refuse
<1> QED
  BY <1>1, <1>2, <1>3 DEF IInv, TypeOK

LEMMA LoseStep ==
  ASSUME IInv, NEW j \in Jobs, Lose(j)
  PROVE  IInv'
<1>1. PosInv' /\ pos' \in [Jobs -> Positions] /\ tries' \in [Jobs -> 1..MaxAttempts]
  BY RetryStep DEF Lose
<1>2. UNCHANGED <<redelivered, found, cache>>
  BY DEF Lose, Retry
<1>3. IsGraph(graph)' /\ GraphOK(graph')
  BY ExecutedOK DEF Lose, IInv, TypeOK, IsGraph
<1>4. lost' \in 0..MaxLosses
  BY ImportAssumption DEF IInv, TypeOK, Lose
<1>5. LateInv' /\ late' \subseteq [nth : 1..MaxLosses, at : Late, job : Jobs, seen : SUBSET Observations]
  <2>1. CASE late' \subseteq late
    BY <2>1, LateStays
  <2>2. CASE ~(late' \subseteq late)
    <3> DEFINE s == [nth |-> lost', at |-> pos[j], job |-> j, seen |-> found[j]]
    <3>1. late' = late \cup {s} /\ pos[j] \in Late
      BY <2>2 DEF Lose
    <3>2. lost' \in 1..MaxLosses
      BY ImportAssumption DEF IInv, TypeOK, Lose
    <3>3. found[j] \in SUBSET Observations
      BY DEF IInv, TypeOK
    <3>4. s \in [nth : 1..MaxLosses, at : Late, job : Jobs, seen : SUBSET Observations]
      BY <3>1, <3>2, <3>3
    <3>5. s.at = pos[j] /\ s.job = j
      OBVIOUS
    <3>6. Allowed(s.job, s.at)
      BY <3>5, ExecutedOK
    <3> HIDE DEF s
    <3>7. late \subseteq [nth : 1..MaxLosses, at : Late, job : Jobs, seen : SUBSET Observations] /\ LateInv
      BY DEF IInv, TypeOK
    <3> QED
      BY <3>1, <3>4, <3>6, <3>7 DEF LateInv, Allowed, Option
  <2> QED
    BY <2>1, <2>2
<1> QED
  BY <1>1, <1>2, <1>3, <1>4, <1>5 DEF IInv, TypeOK

\* What is late is a statement with its job.
LEMMA LateStatement ==
  ASSUME IInv, NEW s \in late
  PROVE  s.job \in Jobs /\ s.at \in Late /\ Allowed(s.job, s.at)
BY DEF IInv, TypeOK, LateInv

LEMMA ExecuteLateStep ==
  ASSUME IInv, NEW s \in late, ExecuteLate(s)
  PROVE  IInv'
<1>1. LateInv' /\ late' \subseteq [nth : 1..MaxLosses, at : Late, job : Jobs, seen : SUBSET Observations]
  BY LateStays DEF ExecuteLate
<1>2. IsGraph(graph)' /\ GraphOK(graph')
  <2>1. s.job \in Jobs /\ Allowed(s.job, s.at)
    BY LateStatement
  <2>2. /\ IsGraph(Executed(s.at, s.job, s.seen)) /\ GraphOK(Executed(s.at, s.job, s.seen))
        /\ IsGraph(graph) /\ GraphOK(graph)
    BY <2>1, StatementOK DEF IInv, TypeOK
  <2> QED
    BY <2>2 DEF ExecuteLate, IsGraph
<1>3. UNCHANGED <<pos, tries, redelivered, lost, found, cache>>
  BY DEF ExecuteLate
<1>4. PosInv'
  BY <1>3 DEF IInv, PosInv, Option
<1> QED
  BY <1>1, <1>2, <1>3, <1>4 DEF IInv, TypeOK

THEOREM Inductive == Spec => []IInv
<1>1. ASSUME IInv, [Next]_vars
      PROVE  IInv'
  <2>1. ASSUME NEW j \in Jobs, Deliver(j) PROVE IInv'
    BY <1>1, <2>1, DeliverStep
  <2>2. ASSUME NEW j \in Jobs, Answer(j) PROVE IInv'
    BY <1>1, <2>2, AnswerStep
  <2>3. ASSUME NEW j \in Jobs, Refuse(j) PROVE IInv'
    BY <1>1, <2>3, RefuseStep
  <2>4. ASSUME NEW j \in Jobs, Lose(j) PROVE IInv'
    BY <1>1, <2>4, LoseStep
  <2>5. CASE UNCHANGED vars
    <3>1. LateInv' /\ UNCHANGED late
      BY <1>1, <2>5, LateStays DEF vars
    <3> QED
      BY <1>1, <2>5, <3>1 DEF vars, IInv, TypeOK, IsGraph, PosInv, Option
  <2>6. ASSUME NEW s \in late, ExecuteLate(s) PROVE IInv'
    BY <1>1, <2>6, ExecuteLateStep
  <2> QED
    BY <1>1, <2>1, <2>2, <2>3, <2>4, <2>5, <2>6 DEF Next, Idle
<1> QED
  BY InitIInv, <1>1, PTL DEF Spec

------------------------------------------------------------------------------
\* Every variable keeps its type, attempts, losses and deliveries keep their
\* limits, and no edge is ever left of a vertex that InsertDimension or
\* InsertObservationBatch has dropped, whatever runs at the same time.
THEOREM TypeCorrect == Spec => []TypeOK
<1>1. IInv => TypeOK
  BY DEF IInv
<1> QED
  BY Inductive, <1>1, PTL

------------------------------------------------------------------------------
(* Calls come to an end: what is left of a call, by the statements that may *)
(* follow and the attempts left for the current one.                       *)

Requests(s, t) == Weight(s, MaxAttempts, t)

\* A position that fewer statements follow, or an attempt less.
LEMMA RequestsFall ==
  ASSUME NEW s \in 0..5, NEW t \in 1..MaxAttempts, NEW s2 \in 0..5, NEW t2 \in 1..MaxAttempts
  PROVE  /\ Requests(s, t) \in 0..(5 * MaxAttempts)
         /\ s2 < s => Requests(s2, t2) \in 0..(Requests(s, t) - 1)
         /\ s > 0 /\ t2 < t => Requests(s, t2) \in 0..(Requests(s, t) - 1)
BY WeightFalls, ImportAssumption DEF Requests

LEMMA LeftAtPosition ==
  ASSUME NEW p \in Positions
  PROVE  /\ StatementsLeft(p) \in 0..5
         /\ StatementsLeft(p) = 0 <=> p \in {"waiting", "done", "failed"}
BY DEF Positions, StatementsLeft

\* An operation goes on to a statement that fewer follow.
LEMMA AfterIsLater ==
  ASSUME NEW j \in Jobs, pos[j] \in Positions \ {"waiting", "done", "failed"},
         NEW p, p = After(j) \/ p = "failed"
  PROVE  StatementsLeft(p) < StatementsLeft(pos[j])
<1>1. CASE p \in {"done", "failed"}
  BY <1>1, LeftAtPosition DEF StatementsLeft
<1>2. CASE p \notin {"done", "failed"}
  <2>1. p = After(j)
    BY <1>2
  <2>2. CASE j.op = "CreateInstance"
    BY <1>2, <2>1, <2>2 DEF After, AfterCreateInstance, StatementsLeft
  <2>3. CASE j.op = "InsertDimension"
    BY <1>2, <2>1, <2>3 DEF After, AfterInsertDimension, StatementsLeft
  <2>4. CASE j.op = "CreateCodeRelationship"
    BY <1>2, <2>1, <2>4 DEF After, AfterCreateCodeRelationship, StatementsLeft
  <2>5. CASE j.op = "InsertObservationBatch"
    BY <1>2, <2>1, <2>5 DEF After, AfterInsertObservationBatch, StatementsLeft
  <2> QED
    BY <1>2, <2>1, <2>2, <2>3, <2>4, <2>5 DEF After
<1> QED
  BY <1>1, <1>2

\* The other calls are left alone, and j moves to position p with t attempts.
LEMMA RequestsMove ==
  ASSUME TypeOK, NEW j \in Jobs, NEW p, NEW t,
         pos' = [pos EXCEPT ![j] = p], tries' = [tries EXCEPT ![j] = t]
  PROVE  /\ \A k \in Jobs \ {j} : RequestsLeft(k)' = RequestsLeft(k)
         /\ RequestsLeft(j) = Requests(StatementsLeft(pos[j]), tries[j])
         /\ RequestsLeft(j)' = Requests(StatementsLeft(p), t)
<1>1. \A k \in Jobs \ {j} : pos'[k] = pos[k] /\ tries'[k] = tries[k]
  BY DEF TypeOK
<1>2. pos'[j] = p /\ tries'[j] = t
  BY DEF TypeOK
<1>3. \A k \in Jobs \ {j} : RequestsLeft(k)' = RequestsLeft(k)
  BY <1>1 DEF RequestsLeft
<1> QED
  BY <1>2, <1>3 DEF RequestsLeft, Requests, Weight

\* What a step of a call under way comes to.
Counts(j) ==
  /\ \A k \in Jobs \ {j} : RequestsLeft(k)' = RequestsLeft(k)
  /\ RequestsLeft(j)' \in 0..(RequestsLeft(j) - 1)

LEMMA AnswerCounts ==
  ASSUME TypeOK, NEW j \in Jobs, Answer(j)
  PROVE  Counts(j)
<1>1. /\ pos[j] \in Positions \ {"waiting", "done", "failed"}
      /\ tries[j] \in 1..MaxAttempts /\ MaxAttempts \in 1..MaxAttempts
  BY ImportAssumption DEF TypeOK, Answer, Ended
<1>2. pos' = [pos EXCEPT ![j] = After(j)] /\ tries' = [tries EXCEPT ![j] = MaxAttempts]
  BY DEF Answer
<1>3. StatementsLeft(After(j)) < StatementsLeft(pos[j])
  BY <1>1, AfterIsLater
<1>4. StatementsLeft(After(j)) \in 0..5 /\ StatementsLeft(pos[j]) \in 0..5
  BY <1>1, LeftAtPosition, AfterOK DEF Allowed
<1>5. Requests(StatementsLeft(After(j)), MaxAttempts) \in 0..(Requests(StatementsLeft(pos[j]), tries[j]) - 1)
  BY <1>1, <1>3, <1>4, RequestsFall
<1> QED
  BY <1>2, <1>5, RequestsMove DEF Counts

LEMMA RetryCounts ==
  ASSUME TypeOK, NEW j \in Jobs, Retry(j), pos[j] \notin {"waiting", "done", "failed"}
  PROVE  Counts(j)
<1>1. /\ pos[j] \in Positions /\ tries[j] \in 1..MaxAttempts
      /\ pos = [pos EXCEPT ![j] = pos[j]] /\ tries = [tries EXCEPT ![j] = tries[j]]
  BY DEF TypeOK
<1>2. StatementsLeft(pos[j]) \in 1..5
  BY <1>1, LeftAtPosition
<1>3. CASE tries[j] > 1
  <2>1. pos' = [pos EXCEPT ![j] = pos[j]] /\ tries' = [tries EXCEPT ![j] = tries[j] - 1]
    BY <1>1, <1>3 DEF Retry
  <2>2. tries[j] - 1 \in 1..MaxAttempts /\ tries[j] - 1 < tries[j]
    BY <1>1, <1>3, ImportAssumption
  <2>3. Requests(StatementsLeft(pos[j]), tries[j] - 1) \in 0..(Requests(StatementsLeft(pos[j]), tries[j]) - 1)
    BY <1>1, <1>2, <2>2, RequestsFall
  <2> QED
    BY <2>1, <2>3, RequestsMove DEF Counts
<1>4. CASE ~(tries[j] > 1)
  <2>1. pos' = [pos EXCEPT ![j] = "failed"] /\ tries' = [tries EXCEPT ![j] = tries[j]]
    BY <1>1, <1>4 DEF Retry
  <2>2. StatementsLeft("failed") = 0
    BY DEF StatementsLeft
  <2>3. Requests(StatementsLeft("failed"), tries[j]) \in 0..(Requests(StatementsLeft(pos[j]), tries[j]) - 1)
    BY <1>1, <1>2, <2>2, RequestsFall
  <2> QED
    BY <2>1, <2>3, RequestsMove DEF Counts
<1> QED
  BY <1>3, <1>4

LEMMA DeliverCounts ==
  ASSUME TypeOK, NEW j \in Jobs, Deliver(j)
  PROVE  /\ \A k \in Jobs \ {j} : RequestsLeft(k)' = RequestsLeft(k)
         /\ RequestsLeft(j) = 0
         /\ RequestsLeft(j)' \in 0..(5 * MaxAttempts)
<1>1. /\ pos' = [pos EXCEPT ![j] = FirstStatement(j)]
      /\ tries' = [tries EXCEPT ![j] = MaxAttempts] /\ MaxAttempts \in 1..MaxAttempts
  BY ImportAssumption DEF Deliver
<1>2. StatementsLeft(pos[j]) = 0
  BY DEF Deliver, Ended, StatementsLeft
<1>3. StatementsLeft(FirstStatement(j)) \in 0..5
  BY LeftAtPosition, AfterOK DEF Allowed
<1>4. Requests(StatementsLeft(FirstStatement(j)), MaxAttempts) \in 0..(5 * MaxAttempts)
  BY <1>1, <1>3, RequestsFall
<1>5. Requests(StatementsLeft(pos[j]), tries[j]) = 0
  BY <1>2 DEF Requests, Weight
<1> QED
  BY <1>1, <1>4, <1>5, RequestsMove

\* Every request a call sends brings its end nearer, whatever the other calls
\* have made of the graph meanwhile: a call sends at most 5 * MaxAttempts.
THEOREM CallsComeToAnEnd == Spec => EveryRequestCounts
<1>1. ASSUME TypeOK, [Next]_vars
      PROVE  [\/ \E j \in Jobs :
                   /\ \A k \in Jobs \ {j} : RequestsLeft(k)' = RequestsLeft(k)
                   /\ \/ RequestsLeft(j) = 0 /\ RequestsLeft(j)' \in 0..(5 * MaxAttempts)
                      \/ RequestsLeft(j)' \in 0..(RequestsLeft(j) - 1)
              \/ /\ late' \subseteq late /\ late' # late
                 /\ \A k \in Jobs : RequestsLeft(k)' = RequestsLeft(k)]_vars
  <2>1. ASSUME NEW j \in Jobs, Answer(j) PROVE Counts(j)
    BY <1>1, <2>1, AnswerCounts
  <2>2. ASSUME NEW j \in Jobs, Refuse(j) \/ Lose(j) PROVE Counts(j)
    <3>1. pos[j] \notin {"waiting", "done", "failed"} /\ Retry(j)
      BY <2>2, ImportAssumption DEF Refuse, Lose, Ended
    <3> QED
      BY <1>1, <3>1, RetryCounts
  <2>3. ASSUME NEW j \in Jobs, Deliver(j)
        PROVE  /\ \A k \in Jobs \ {j} : RequestsLeft(k)' = RequestsLeft(k)
               /\ RequestsLeft(j) = 0
               /\ RequestsLeft(j)' \in 0..(5 * MaxAttempts)
    BY <1>1, <2>3, DeliverCounts
  <2>4. ASSUME NEW s \in late, ExecuteLate(s)
        PROVE  /\ late' \subseteq late /\ late' # late
               /\ \A k \in Jobs : RequestsLeft(k)' = RequestsLeft(k)
    BY <2>4 DEF ExecuteLate, RequestsLeft
  <2> QED
    BY <1>1, <2>1, <2>2, <2>3, <2>4 DEF Next, Idle, Counts
<1> QED
  BY <1>1, TypeCorrect, PTL DEF EveryRequestCounts, Spec

------------------------------------------------------------------------------
(* The import is exact, for jobs that make a pipeline: the stages follow   *)
(* each other, there is an instance, every option of an observation is     *)
(* inserted, no two batches share an observation, the statement that adds  *)
(* the edges of a batch is answered when it is executed, and no vertex is  *)
(* dropped late.                                                           *)

Dims      == { Option(j) : j \in Inserting("InsertDimension") }
Batches   == Inserting("InsertObservationBatch")
Inserted  == UNION { Range(j.arg) : j \in Batches }
Callers(d) == { j \in Inserting("InsertDimension") : Option(j) = d }
From(g, o) == { e \in g.edges : e[1] = o }

Resting == {"waiting", "done", "failed"}

Pipeline ==
  /\ ~LateDeliveries
  /\ Unreliable \cap (Resting \cup {"addObservationEdges"}) = {}
  /\ Late \cap {"dropDimension", "dropObservations"} = {}
  /\ \E j \in Jobs : j.op = "CreateInstance"
  /\ \A d \in Options : LowerCase[d] = d
  /\ Instance \notin Options \cup Observations \cup Codes
  /\ Options \cap Observations = {} /\ Codes \cap (Options \cup Observations) = {}
  /\ \A o \in Inserted : OptionsOf[o] \subseteq Dims
  /\ \A j, k \in Batches : j # k => Range(j.arg) \cap Range(k.arg) = {}

\* The positions of an operation.
Home(j) ==
  CASE j.op = "CreateInstance"         -> {"checkInstance", "createInstance"}
    [] j.op = "InsertDimension"        -> DimensionPositions
    [] j.op = "CreateCodeRelationship" -> {"getCode", "createCodeEdge"}
    [] j.op = "InsertObservationBatch" -> ObservationPositions
    [] OTHER                           -> {"setProperties"}

\* Each operation is at its own positions, and the stages follow each other.
Ordered ==
  /\ \A j \in Jobs : pos[j] \in Home(j) \cup Resting
  /\ \A j, k \in Jobs : Stage(k) < Stage(j) /\ pos[j] # "waiting" => pos[k] = "done"

\* Of the callers of a dimension the last one to drop its vertex is the one
\* that creates it again and links it.
DimensionInv ==
  \A d \in Dims :
    /\ (\A j \in Callers(d) : pos[j] \in {"createDimensionEdge", "done"}) => d \in graph.vertices
    /\ (\A j \in Callers(d) : pos[j] = "done") => Between(graph, d, {Instance}) # {}

\* The observations of a batch have no edges before the statement that adds
\* them, and exactly those of their options afterwards.
BatchOK(j) ==
  /\ found[j] \subseteq Range(j.arg)
  /\ pos[j] \in {"addObservationEdges", "done"} => Range(j.arg) \subseteq graph.vertices
  /\ pos[j] = "addObservationEdges" => \A o \in Range(j.arg) : From(graph, o) = {}
  /\ pos[j] = "done" => \A o \in Range(j.arg) : From(graph, o) = { <<o, d, 1>> : d \in OptionsOf[o] }

BatchInv == \A j \in Batches : BatchOK(j)

\* What a job has left behind, of that which is never taken away again.
LeftBehind(j) ==
  pos[j] = "done" =>
    /\ j.op = "CreateInstance" => Instance \in graph.vertices
    /\ j.op = "InsertDimension" => Dimension[Option(j)] \in cache
    /\ j.op = "CreateCodeRelationship" =>
         Option(j) \in Codes /\ Between(graph, Option(j), {Instance}) # {}
    /\ Stage(j) = 4 => j.op \in graph.properties

GrowingInv ==
  /\ graph.vertices \subseteq {Instance} \cup Dims \cup Inserted
  /\ cache \subseteq { Dimension[d] : d \in Dims }
  /\ \A j \in Jobs : LeftBehind(j)

ExactInv == Ordered /\ DimensionInv /\ BatchInv /\ GrowingInv

------------------------------------------------------------------------------
(* What the jobs work on.                                                  *)

LEMMA Arguments ==
  /\ Dims \subseteq Options
  /\ \A j \in Batches : j.arg \in Seq(Observations) /\ Range(j.arg) \subseteq Observations
  /\ Inserted \subseteq Observations
<1>1. Dims \subseteq Options
  BY ImportAssumption DEF Dims, Inserting, Option
<1>2. ASSUME NEW j \in Batches
      PROVE  j.arg \in Seq(Observations) /\ Range(j.arg) \subseteq Observations
  <2>1. j.arg \in Seq(Observations)
    BY ImportAssumption DEF Batches, Inserting, Observations
  <2> QED
    BY <2>1, BatchElements
<1> QED
  BY <1>1, <1>2 DEF Inserted

LEMMA Stages ==
  ASSUME NEW j \in Jobs
  PROVE  /\ Stage(j) \in 1..4
         /\ j.op = "CreateInstance" <=> Stage(j) = 1
         /\ j.op = "InsertDimension" => Stage(j) = 2
         /\ j.op = "CreateCodeRelationship" => Stage(j) = 2
         /\ j.op = "InsertObservationBatch" <=> Stage(j) = 3
BY DEF Stage

\* Under way in its stage, a job has all before it done and none after it begun.
LEMMA StageHeld ==
  ASSUME Ordered, NEW j \in Jobs, pos[j] \notin Resting, NEW k \in Jobs
  PROVE  /\ Stage(k) < Stage(j) => pos[k] = "done"
         /\ Stage(j) < Stage(k) => pos[k] = "waiting"
BY DEF Ordered, Resting

\* At which statement a job is tells its operation.
LEMMA AtHome ==
  ASSUME Ordered, NEW j \in Jobs
  PROVE  /\ pos[j] \in {"checkInstance", "createInstance"} => j.op = "CreateInstance"
         /\ pos[j] \in DimensionPositions => j.op = "InsertDimension"
         /\ pos[j] \in {"getCode", "createCodeEdge"} => j.op = "CreateCodeRelationship"
         /\ pos[j] \in ObservationPositions => j.op = "InsertObservationBatch"
         /\ pos[j] = "setProperties" => Stage(j) \in {2, 4}
<1>1. pos[j] \in Home(j) \cup Resting
  BY DEF Ordered
<1> QED
  BY <1>1 DEF Home, Resting, DimensionPositions, ObservationPositions, Stage

------------------------------------------------------------------------------
(* The statements, part by part.                                           *)

LEMMA AddVerticesParts ==
  ASSUME NEW g, IsGraph(g), NEW V
  PROVE  LET h == AddVertices(g, V)
         IN  h.vertices = g.vertices \cup V /\ h.edges = g.edges /\ h.properties = g.properties
BY DEF AddVertices, IsGraph

LEMMA AddEdgesParts ==
  ASSUME NEW g, IsGraph(g), NEW pairs
  PROVE  LET h == AddEdges(g, pairs)
         IN  /\ h.vertices = g.vertices /\ h.properties = g.properties
             /\ h.edges = g.edges \cup
                  { <<p[1], p[2], Cardinality(Between(g, p[1], {p[2]})) + 1>> : p \in pairs }
<1> DEFINE new == { <<p[1], p[2], Cardinality(Between(g, p[1], {p[2]})) + 1>> : p \in pairs }
<1>1. AddEdges(g, pairs) = [g EXCEPT !.edges = g.edges \cup new]
  BY DEF AddEdges
<1> SUFFICES LET h == AddEdges(g, pairs)
             IN  h.vertices = g.vertices /\ h.properties = g.properties /\ h.edges = g.edges \cup new
  OBVIOUS
<1> HIDE DEF new
<1> QED
  BY <1>1 DEF IsGraph

LEMMA AddEdgesAdds ==
  ASSUME NEW g, IsGraph(g), NEW pairs
  PROVE  LET h == AddEdges(g, pairs)
         IN  g.edges \subseteq h.edges /\ \A e \in h.edges \ g.edges : \E p \in pairs : e[1] = p[1]
<1> DEFINE number(p) == Cardinality(Between(g, p[1], {p[2]})) + 1
           new == { <<p[1], p[2], number(p)>> : p \in pairs }
<1>1. AddEdges(g, pairs).edges = g.edges \cup new
  BY AddEdgesParts
<1> HIDE DEF number
<1>2. \A e \in new : \E p \in pairs : e[1] = p[1]
  <2> SUFFICES ASSUME NEW p \in pairs PROVE \E q \in pairs : p[1] = q[1]
    OBVIOUS
  <2> QED
    OBVIOUS
<1> HIDE DEF new
<1> QED
  BY <1>1, <1>2

LEMMA DropVerticesParts ==
  ASSUME NEW g, IsGraph(g), NEW V
  PROVE  LET h == DropVertices(g, V)
         IN  /\ h.vertices = g.vertices \ V /\ h.properties = g.properties
             /\ h.edges = { e \in g.edges : e[1] \notin V /\ e[2] \notin V }
<1> DEFINE kept == { e \in g.edges : e[1] \notin V /\ e[2] \notin V }
<1>1. DropVertices(g, V) = [g EXCEPT !.vertices = g.vertices \ V, !.edges = kept]
  BY DEF DropVertices
<1> HIDE DEF kept
<1>2. LET h == DropVertices(g, V)
      IN  h.vertices = g.vertices \ V /\ h.properties = g.properties /\ h.edges = kept
  BY <1>1 DEF IsGraph
<1> QED
  BY <1>2 DEF kept

------------------------------------------------------------------------------
(* What the statement of job j leaves of that which others have done.      *)

Keeps(j) ==
  /\ Instance \in graph.vertices => Instance \in graph'.vertices
  /\ graph'.vertices \subseteq {Instance} \cup Dims \cup Inserted
  /\ graph.properties \subseteq graph'.properties
  /\ \A c \in Codes : Between(graph, c, {Instance}) \subseteq Between(graph', c, {Instance})
  /\ \A d \in Dims :
       \/ pos[j] = "dropDimension" /\ Option(j) = d
       \/ /\ d \in graph.vertices => d \in graph'.vertices
          /\ Between(graph, d, {Instance}) \subseteq Between(graph', d, {Instance})
  /\ \A k \in Batches \ {j} : pos[k] # "waiting" => \A o \in Range(k.arg) :
       /\ o \in graph.vertices => o \in graph'.vertices
       /\ (\A e \in From(graph, o) : e[2] \in Options) => From(graph', o) = From(graph, o)

\* Nothing is taken away, and no edge is added from what others work on.
LEMMA KeepsWhenGrowing ==
  ASSUME Pipeline, NEW j \in Jobs,
         graph.vertices \subseteq graph'.vertices,
         graph'.vertices \subseteq {Instance} \cup Dims \cup Inserted,
         graph.properties \subseteq graph'.properties,
         graph.edges \subseteq graph'.edges,
         \A e \in graph'.edges \ graph.edges :
            e[1] \in Options \cup Codes \/ (j \in Batches /\ e[1] \in Range(j.arg))
  PROVE  Keeps(j)
<1>1. \A v : Between(graph, v, {Instance}) \subseteq Between(graph', v, {Instance})
  BY DEF Between
<1>2. ASSUME NEW k \in Batches \ {j}, NEW o \in Range(k.arg)
      PROVE  From(graph', o) = From(graph, o)
  <2>1. o \in Observations
    BY Arguments
  <2>2. o \notin Options \cup Codes
    BY <2>1 DEF Pipeline
  <2>3. ~(j \in Batches /\ o \in Range(j.arg))
    BY DEF Pipeline
  <2> QED
    BY <2>2, <2>3 DEF From
<1> QED
  BY <1>1, <1>2 DEF Keeps

LEMMA KeepsWhenSame ==
  ASSUME Pipeline, GrowingInv, NEW j \in Jobs, graph' = graph
  PROVE  Keeps(j)
BY KeepsWhenGrowing DEF GrowingInv

LEMMA KeepsWhenExecuted ==
  ASSUME Pipeline, IInv, ExactInv, NEW j \in Jobs, pos[j] \notin Resting, graph' = Executed(pos[j], j, found[j])
  PROVE  Keeps(j)
<1>1. IsGraph(graph) /\ Ordered /\ GrowingInv /\ BatchInv
  BY DEF IInv, ExactInv
<1>2. graph.vertices \subseteq {Instance} \cup Dims \cup Inserted
  BY <1>1 DEF GrowingInv
<1>3. CASE pos[j] = "dropDimension"
  <2>1. j.op = "InsertDimension"
    BY <1>1, <1>3, AtHome DEF DimensionPositions
  <2>2. Option(j) \in Dims /\ Option(j) \in Options
    BY <2>1, Arguments DEF Dims, Inserting
  <2>3. /\ graph'.vertices = graph.vertices \ {Option(j)} /\ graph'.properties = graph.properties
        /\ graph'.edges = { e \in graph.edges : e[1] \notin {Option(j)} /\ e[2] \notin {Option(j)} }
    BY <1>1, <1>3, DropVerticesParts DEF Executed, DropDimension
  <2>4. Option(j) # Instance /\ Option(j) \notin Codes
    BY <2>2 DEF Pipeline
  <2>5. \A v : v # Option(j) => Between(graph, v, {Instance}) \subseteq Between(graph', v, {Instance})
    BY <2>3, <2>4 DEF Between
  <2>6. ASSUME NEW k \in Batches \ {j} PROVE pos[k] = "waiting"
    <3>1. k \in Jobs /\ k.op = "InsertObservationBatch"
      BY DEF Batches, Inserting
    <3> QED
      BY <1>1, <1>3, <2>1, <3>1, Stages, StageHeld
  <2>7. \A d \in Dims : Option(j) # d => (d \in graph.vertices => d \in graph'.vertices)
    BY <2>3
  <2> QED
    BY <1>2, <1>3, <2>3, <2>4, <2>5, <2>6, <2>7 DEF Keeps
<1>4. CASE pos[j] = "dropObservations"
  <2>1. j \in Batches
    BY <1>1, <1>4, AtHome DEF ObservationPositions, Batches, Inserting
  <2>2. found[j] \subseteq Range(j.arg) /\ found[j] \subseteq Observations
    BY <1>1, <2>1, Arguments DEF BatchInv, BatchOK
  <2>3. /\ graph'.vertices = graph.vertices \ found[j] /\ graph'.properties = graph.properties
        /\ graph'.edges = { e \in graph.edges : e[1] \notin found[j] /\ e[2] \notin found[j] }
    BY <1>1, <1>4, DropVerticesParts DEF Executed
  <2>4. Instance \notin found[j] /\ found[j] \cap Codes = {} /\ found[j] \cap Options = {}
    BY <2>2 DEF Pipeline
  <2>5. \A v : v \notin found[j] => Between(graph, v, {Instance}) \subseteq Between(graph', v, {Instance})
    BY <2>3, <2>4 DEF Between
  <2>6. ASSUME NEW k \in Batches \ {j}, NEW o \in Range(k.arg)
        PROVE  /\ o \in graph.vertices => o \in graph'.vertices
               /\ (\A e \in From(graph, o) : e[2] \in Options) => From(graph', o) = From(graph, o)
    <3>1. o \notin found[j]
      BY <2>1, <2>2 DEF Pipeline
    <3> QED
      BY <2>3, <2>4, <3>1 DEF From
  <2> QED
    BY <1>2, <2>3, <2>4, <2>5, <2>6, Arguments DEF Keeps
<1>5. CASE pos[j] \in {"createDimensionEdge", "createCodeEdge"}
  <2>1. CASE graph' = graph
    BY <1>1, <2>1, KeepsWhenSame
  <2>2. CASE graph' = AddEdges(graph, {<<Option(j), Instance>>})
    <3>1. Option(j) \in Options \cup Codes
      <4>1. CASE pos[j] = "createDimensionEdge"
        BY <1>1, <4>1, AtHome, Arguments DEF DimensionPositions, Dims, Inserting
      <4>2. CASE pos[j] = "createCodeEdge"
        BY <4>2 DEF IInv, PosInv
      <4> QED
        BY <1>5, <4>1, <4>2
    <3>2. graph'.vertices = graph.vertices /\ graph'.properties = graph.properties
      BY <1>1, <2>2, AddEdgesParts
    <3>3. graph.edges \subseteq graph'.edges /\ \A e \in graph'.edges \ graph.edges : e[1] = Option(j)
      BY <1>1, <2>2, AddEdgesAdds
    <3> QED
      BY <1>2, <3>1, <3>2, <3>3, KeepsWhenGrowing
  <2>3. graph' = graph \/ graph' = AddEdges(graph, {<<Option(j), Instance>>})
    BY <1>5 DEF Executed, CreateDimensionToInstanceRelationship
  <2> QED
    BY <2>1, <2>2, <2>3
<1>6. CASE pos[j] = "addObservationEdges"
  <2>1. j \in Batches
    BY <1>1, <1>6, AtHome DEF ObservationPositions, Batches, Inserting
  <2>2. CASE graph' = graph
    BY <1>1, <2>2, KeepsWhenSame
  <2>3. CASE graph' # graph
    <3> DEFINE reached == { i \in DOMAIN j.arg : \A k \in 1..i : j.arg[k] \in graph.vertices }
               pairs == UNION { { <<j.arg[i], LowerCase[o]>> : o \in OptionsOf[j.arg[i]] } : i \in reached }
    <3>1. graph' = AddEdges(graph, pairs)
      BY <1>6, <2>3 DEF Executed, addObservationEdges
    <3>2. \A p \in pairs : p[1] \in Range(j.arg)
      BY DEF Range
    <3> HIDE DEF pairs
    <3>3. graph'.vertices = graph.vertices /\ graph'.properties = graph.properties
      BY <1>1, <3>1, AddEdgesParts
    <3>4. graph.edges \subseteq graph'.edges /\ \A e \in graph'.edges \ graph.edges : e[1] \in Range(j.arg)
      BY <1>1, <3>1, <3>2, AddEdgesAdds
    <3> QED
      BY <1>2, <2>1, <3>3, <3>4, KeepsWhenGrowing
  <2> QED
    BY <2>2, <2>3
<1>7. CASE pos[j] = "setProperties"
  <2>1. graph' = SetProperties(graph, j.op)
    BY <1>7 DEF Executed
  <2>2. /\ graph'.vertices = graph.vertices /\ graph'.edges = graph.edges
        /\ graph.properties \subseteq graph'.properties
    BY <1>1, <2>1 DEF SetProperties, IsGraph
  <2> QED
    BY <1>2, <2>2, KeepsWhenGrowing
<1>8. CASE pos[j] \notin {"dropDimension", "createDimensionEdge", "dropObservations",
                          "addObservationEdges", "createCodeEdge", "setProperties"}
  <2>1. /\ graph'.vertices = graph.vertices \cup Created(pos[j], j) /\ graph'.edges = graph.edges
        /\ graph'.properties = graph.properties
    BY <1>1, <1>8, AddVerticesParts DEF Executed
  <2>2. Created(pos[j], j) \subseteq {Instance} \cup Dims \cup Inserted
    BY <1>1, AtHome DEF Created, DimensionPositions, ObservationPositions, Dims, Inserted, Batches, Inserting
  <2> QED
    BY <1>2, <2>1, <2>2, KeepsWhenGrowing
<1> QED
  BY <1>3, <1>4, <1>5, <1>6, <1>7, <1>8

------------------------------------------------------------------------------
(* A step of job j, which goes to position p.                              *)

LEMMA Move ==
  ASSUME Pipeline, IInv, ExactInv, NEW j \in Jobs, NEW p, pos' = [pos EXCEPT ![j] = p], Keeps(j),
         p \in Home(j) \cup {"done", "failed"},
         \A k \in Jobs : Stage(k) < Stage(j) => pos[k] = "done",
         p = "done" \/ \A k \in Jobs : Stage(j) < Stage(k) => pos[k] = "waiting",
         pos[j] = "dropDimension" => p \notin {"createDimensionEdge", "done"},
         j.op = "InsertDimension" /\ p \in {"createDimensionEdge", "done"} =>
           pos[j] \in {"createDimensionEdge", "done"} \/ Option(j) \in graph'.vertices,
         j.op = "InsertDimension" /\ p = "done"
           /\ (\A k \in Callers(Option(j)) : k # j => pos[k] = "done") =>
           Between(graph', Option(j), {Instance}) # {},
         j \in Batches => BatchOK(j)',
         LeftBehind(j)',
         cache \subseteq cache', cache' \subseteq { Dimension[d] : d \in Dims },
         \A k \in Jobs : k # j => found'[k] = found[k]
  PROVE  ExactInv'
<1>1. Ordered /\ DimensionInv /\ BatchInv /\ GrowingInv
  BY DEF ExactInv
<1>2. pos'[j] = p /\ \A k \in Jobs : k # j => pos'[k] = pos[k]
  BY DEF IInv, TypeOK
<1>3. Ordered'
  <2>1. \A k \in Jobs : pos'[k] \in Home(k) \cup Resting
    BY <1>1, <1>2 DEF Ordered, Resting
  <2>2. ASSUME NEW k \in Jobs, NEW l \in Jobs, Stage(l) < Stage(k), pos'[k] # "waiting"
        PROVE  pos'[l] = "done"
    <3>1. CASE k = j
      BY <1>2, <2>2, <3>1, Stages
    <3>2. CASE k # j /\ l = j
      BY <1>2, <2>2, <3>2
    <3>3. CASE k # j /\ l # j
      BY <1>1, <1>2, <2>2, <3>3 DEF Ordered
    <3> QED
      BY <3>1, <3>2, <3>3
  <2>3. \A k, l \in Jobs : Stage(l) < Stage(k) /\ pos'[k] # "waiting" => pos'[l] = "done"
    BY <2>2
  <2>4. \A k \in Jobs : Home(k)' = Home(k) /\ Stage(k)' = Stage(k)
    BY DEF Home, Stage
  <2> QED
    BY <2>1, <2>3, <2>4 DEF Ordered
<1>4. DimensionInv'
  <2> SUFFICES ASSUME NEW d \in Dims
               PROVE  /\ (\A k \in Callers(d) : pos'[k] \in {"createDimensionEdge", "done"}) => d \in graph'.vertices
                      /\ (\A k \in Callers(d) : pos'[k] = "done") => Between(graph', d, {Instance}) # {}
    BY DEF DimensionInv, Dims, Callers, Inserting, Between, Option
  <2>1. Callers(d) \subseteq Jobs
    BY DEF Callers, Inserting
  <2>2. CASE j \in Callers(d)
    <3>1. j.op = "InsertDimension" /\ Option(j) = d
      BY <2>2 DEF Callers, Inserting
    <3>2. ASSUME \A k \in Callers(d) : pos'[k] \in {"createDimensionEdge", "done"}
          PROVE  d \in graph'.vertices
      <4>1. p \in {"createDimensionEdge", "done"}
        BY <1>2, <2>2, <3>2
      <4>2. CASE pos[j] \in {"createDimensionEdge", "done"}
        <5>1. \A k \in Callers(d) : pos[k] \in {"createDimensionEdge", "done"}
          BY <1>2, <2>1, <3>2, <4>2
        <5>2. d \in graph.vertices /\ pos[j] # "dropDimension"
          BY <1>1, <4>2, <5>1 DEF DimensionInv
        <5> QED
          BY <5>2 DEF Keeps
      <4> QED
        BY <3>1, <4>1, <4>2
    <3>3. ASSUME \A k \in Callers(d) : pos'[k] = "done"
          PROVE  Between(graph', d, {Instance}) # {}
      BY <1>2, <2>1, <2>2, <3>1, <3>3
    <3> QED
      BY <3>2, <3>3
  <2>3. CASE j \notin Callers(d)
    <3>1. ~(pos[j] = "dropDimension" /\ Option(j) = d)
      BY <1>1, <2>3, AtHome DEF DimensionPositions, Callers, Inserting
    <3>2. /\ d \in graph.vertices => d \in graph'.vertices
          /\ Between(graph, d, {Instance}) \subseteq Between(graph', d, {Instance})
      BY <3>1 DEF Keeps
    <3>3. \A k \in Callers(d) : pos'[k] = pos[k]
      BY <1>2, <2>1, <2>3
    <3> QED
      BY <1>1, <3>2, <3>3 DEF DimensionInv
  <2> QED
    BY <2>2, <2>3
<1>5. BatchInv'
  <2>1. ASSUME NEW k \in Batches, k # j
        PROVE  BatchOK(k)'
    <3>1. k \in Jobs /\ pos'[k] = pos[k] /\ found'[k] = found[k] /\ BatchOK(k)
      BY <1>1, <1>2, <2>1 DEF Batches, Inserting, BatchInv
    <3>2. CASE pos[k] = "waiting"
      BY <3>1, <3>2 DEF BatchOK, Range
    <3>3. CASE pos[k] # "waiting"
      <4>1. ASSUME NEW o \in Range(k.arg)
            PROVE  /\ o \in graph.vertices => o \in graph'.vertices
                   /\ pos[k] \in {"addObservationEdges", "done"} => From(graph', o) = From(graph, o)
        <5>1. /\ o \in graph.vertices => o \in graph'.vertices
              /\ (\A e \in From(graph, o) : e[2] \in Options) => From(graph', o) = From(graph, o)
          BY <2>1, <3>3, <4>1 DEF Keeps
        <5>2. OptionsOf[o] \subseteq Options
          BY <4>1, Arguments DEF Pipeline, Inserted
        <5>3. pos[k] = "addObservationEdges" => From(graph, o) = {}
          BY <3>1, <4>1 DEF BatchOK
        <5>4. pos[k] = "done" => From(graph, o) = { <<o, d, 1>> : d \in OptionsOf[o] }
          BY <3>1, <4>1 DEF BatchOK
        <5>5. \A e \in { <<o, d, 1>> : d \in OptionsOf[o] } : e[2] \in Options
          BY <5>2
        <5> QED
          BY <5>1, <5>3, <5>4, <5>5
      <4>2. found'[k] \subseteq Range(k.arg)
        BY <3>1 DEF BatchOK
      <4>3. pos'[k] \in {"addObservationEdges", "done"} => Range(k.arg) \subseteq graph'.vertices
        BY <3>1, <4>1 DEF BatchOK
      <4>4. pos'[k] = "addObservationEdges" => \A o \in Range(k.arg) : From(graph', o) = {}
        BY <3>1, <4>1 DEF BatchOK
      <4>5. pos'[k] = "done" =>
              \A o \in Range(k.arg) : From(graph', o) = { <<o, d, 1>> : d \in OptionsOf[o] }
        BY <3>1, <4>1 DEF BatchOK
      <4> QED
        BY <4>2, <4>3, <4>4, <4>5 DEF BatchOK, Range, From
    <3> QED
      BY <3>2, <3>3
  <2>2. \A k \in Batches : BatchOK(k)'
    BY <2>1
  <2> QED
    BY <2>2 DEF BatchInv, Batches, Inserting
<1>6. GrowingInv'
  <2>1. ASSUME NEW k \in Jobs, k # j
        PROVE  LeftBehind(k)'
    <3>1. pos'[k] = pos[k] /\ LeftBehind(k)
      BY <1>1, <1>2, <2>1 DEF GrowingInv
    <3>2. pos[k] = "done" /\ k.op = "CreateCodeRelationship" =>
            Option(k) \in Codes /\ Between(graph', Option(k), {Instance}) # {}
      BY <3>1 DEF LeftBehind, Keeps
    <3>3. pos[k] = "done" =>
            /\ k.op = "CreateInstance" => Instance \in graph'.vertices
            /\ k.op = "InsertDimension" => Dimension[Option(k)] \in cache'
            /\ Stage(k) = 4 => k.op \in graph'.properties
      BY <3>1 DEF LeftBehind, Keeps
    <3>4. Option(k)' = Option(k) /\ Stage(k)' = Stage(k)
      BY DEF Option, Stage
    <3> QED
      BY <3>1, <3>2, <3>3, <3>4 DEF LeftBehind, Between
  <2>2. graph'.vertices \subseteq {Instance} \cup Dims \cup Inserted
    BY DEF Keeps
  <2>3. \A k \in Jobs : LeftBehind(k)'
    BY <2>1
  <2> QED
    BY <2>2, <2>3 DEF GrowingInv, Dims, Inserted, Batches, Inserting, Option, Range
<1> QED
  BY <1>3, <1>4, <1>5, <1>6 DEF ExactInv

------------------------------------------------------------------------------
\* A message that arrives.
LEMMA DeliverExact ==
  ASSUME Pipeline, IInv, ExactInv, NEW j \in Jobs, Deliver(j)
  PROVE  ExactInv'
<1> DEFINE p == FirstStatement(j)
<1>1. pos' = [pos EXCEPT ![j] = p] /\ graph' = graph /\ found' = found /\ cache' = cache
  BY DEF Deliver
<1>2. pos[j] \in {"waiting", "done", "failed"}
  BY DEF Deliver, Ended
<1>3. Keeps(j)
  BY <1>1, KeepsWhenSame DEF ExactInv
<1>4. /\ p \in Home(j) \cup {"done"}
      /\ j.op = "InsertDimension" => p = "getDimension"
      /\ p = "done" => j.op = "InsertObservationBatch" /\ j.arg = <<>>
      /\ p # "addObservationEdges"
  BY DEF FirstStatement, Home, DimensionPositions, ObservationPositions
<1>5. /\ \A k \in Jobs : Stage(k) < Stage(j) => pos[k] = "done"
      /\ \A k \in Jobs : Stage(j) < Stage(k) => pos[k] = "waiting"
  BY Stages DEF Deliver, Pipeline
<1>6. pos'[j] = p
  BY <1>1 DEF IInv, TypeOK
<1>7. j \in Batches => BatchOK(j)'
  <2>1. j \in Batches => BatchOK(j)
    BY DEF ExactInv, BatchInv
  <2>2. j.arg = <<>> => Range(j.arg) = {}
    BY DEF Range
  <2> QED
    BY <1>1, <1>4, <1>6, <2>1, <2>2 DEF BatchOK, Range
<1>8. LeftBehind(j)'
  BY <1>4, <1>6, Stages DEF LeftBehind, Stage
<1>9. cache' \subseteq { Dimension[d] : d \in Dims }
  BY <1>1 DEF ExactInv, GrowingInv
<1> HIDE DEF p
<1> QED
  BY <1>1, <1>2, <1>3, <1>4, <1>5, <1>7, <1>8, <1>9, Move

\* A statement that is sent again, or given up; executed or not.
LEMMA StayExact ==
  ASSUME Pipeline, IInv, ExactInv, NEW j \in Jobs, pos[j] \notin Resting,
         NEW p, p \in {pos[j], "failed"}, pos' = [pos EXCEPT ![j] = p],
         graph' \in {graph, Executed(pos[j], j, found[j])}, found' = found, cache' = cache,
         pos[j] = "addObservationEdges" => graph' = graph
  PROVE  ExactInv'
<1>1. Keeps(j)
  BY KeepsWhenSame, KeepsWhenExecuted DEF ExactInv
<1>2. p \in Home(j) \cup {"failed"} /\ p # "done"
  BY DEF ExactInv, Ordered, Resting
<1>3. /\ \A k \in Jobs : Stage(k) < Stage(j) => pos[k] = "done"
      /\ \A k \in Jobs : Stage(j) < Stage(k) => pos[k] = "waiting"
  BY StageHeld DEF ExactInv
<1>4. pos'[j] = p
  BY DEF IInv, TypeOK
<1>5. j \in Batches => BatchOK(j)'
  <2>1. j \in Batches => BatchOK(j)
    BY DEF ExactInv, BatchInv
  <2> QED
    BY <1>2, <1>4, <2>1 DEF BatchOK, Range, From
<1>6. LeftBehind(j)'
  BY <1>2, <1>4 DEF LeftBehind
<1>7. cache' \subseteq { Dimension[d] : d \in Dims }
  BY DEF ExactInv, GrowingInv
<1> QED
  BY <1>1, <1>2, <1>3, <1>5, <1>6, <1>7, Move

LEMMA RefuseExact ==
  ASSUME Pipeline, IInv, ExactInv, NEW j \in Jobs, Refuse(j)
  PROVE  ExactInv'
<1>1. pos[j] \notin Resting
  BY DEF Refuse, Ended, Resting
<1>2. \E p \in {pos[j], "failed"} : pos' = [pos EXCEPT ![j] = p]
  BY DEF Refuse, Retry, IInv, TypeOK
<1>3. graph' = graph /\ found' = found /\ cache' = cache
  BY DEF Refuse, Retry
<1> QED
  BY <1>1, <1>2, <1>3, StayExact

LEMMA LoseExact ==
  ASSUME Pipeline, IInv, ExactInv, NEW j \in Jobs, Lose(j)
  PROVE  ExactInv'
<1>1. \E p \in {pos[j], "failed"} : pos' = [pos EXCEPT ![j] = p]
  BY DEF Lose, Retry, IInv, TypeOK
<1>2. pos[j] \notin Resting \cup {"addObservationEdges"}
  BY DEF Lose, Pipeline
<1>3. graph' \in {graph, Executed(pos[j], j, found[j])} /\ found' = found /\ cache' = cache
  BY DEF Lose, Retry
<1> QED
  BY <1>1, <1>2, <1>3, StayExact

\* More of the graph, and nothing from an observation.
LEMMA GrowingIsExact ==
  ASSUME Pipeline, ExactInv, UNCHANGED <<pos, found, cache>>,
         graph.vertices \subseteq graph'.vertices,
         graph'.vertices \subseteq {Instance} \cup Dims \cup Inserted,
         graph.properties \subseteq graph'.properties,
         graph.edges \subseteq graph'.edges,
         \A e \in graph'.edges \ graph.edges : e[1] \in Options \cup Codes
  PROVE  ExactInv'
<1>1. Ordered /\ DimensionInv /\ BatchInv /\ GrowingInv
  BY DEF ExactInv
<1>2. \A v : Between(graph, v, {Instance}) \subseteq Between(graph', v, {Instance})
  BY DEF Between
<1>3. Ordered'
  BY <1>1 DEF Ordered, Home, Stage
<1>4. DimensionInv'
  <2> SUFFICES ASSUME NEW d \in Dims
               PROVE  /\ (\A k \in Callers(d) : pos[k] \in {"createDimensionEdge", "done"}) => d \in graph'.vertices
                      /\ (\A k \in Callers(d) : pos[k] = "done") => Between(graph', d, {Instance}) # {}
    BY DEF DimensionInv, Dims, Callers, Inserting, Between, Option
  <2> QED
    BY <1>1, <1>2 DEF DimensionInv
<1>5. BatchInv'
  <2>1. ASSUME NEW k \in Batches PROVE BatchOK(k)'
    <3>1. BatchOK(k)
      BY <1>1 DEF BatchInv
    <3>2. \A o \in Range(k.arg) : o \notin Options \cup Codes
      BY Arguments DEF Pipeline
    <3>3. \A o \in Range(k.arg) : From(graph', o) = From(graph, o)
      BY <3>2 DEF From
    <3> QED
      BY <3>1, <3>3 DEF BatchOK, Range, From
  <2> QED
    BY <2>1 DEF BatchInv, Batches, Inserting
<1>6. GrowingInv'
  <2>1. ASSUME NEW k \in Jobs PROVE LeftBehind(k)'
    <3>1. LeftBehind(k)
      BY <1>1 DEF GrowingInv
    <3>2. pos[k] = "done" /\ k.op = "CreateCodeRelationship" =>
            Option(k) \in Codes /\ Between(graph', Option(k), {Instance}) # {}
      BY <1>2, <3>1 DEF LeftBehind
    <3> QED
      BY <3>1, <3>2 DEF LeftBehind, Between, Option, Stage
  <2>2. graph'.vertices \subseteq {Instance} \cup Dims \cup Inserted /\ cache' \subseteq { Dimension[d] : d \in Dims }
    BY <1>1 DEF GrowingInv
  <2> QED
    BY <2>1, <2>2 DEF GrowingInv, Dims, Inserted, Batches, Inserting, Option, Range
<1> QED
  BY <1>3, <1>4, <1>5, <1>6 DEF ExactInv

\* A statement that is executed late only adds to the graph.
LEMMA ExecuteLateExact ==
  ASSUME Pipeline, IInv, ExactInv, NEW s \in late, ExecuteLate(s)
  PROVE  ExactInv'
<1> DEFINE p == s.at
           j == s.job
           G == Executed(p, j, s.seen)
<1>1. IsGraph(graph) /\ UNCHANGED <<pos, found, cache>> /\ graph' \in {graph, G}
  BY DEF ExecuteLate, IInv
<1>2. j \in Jobs /\ Allowed(j, p) /\ p \notin {"dropDimension", "dropObservations", "addObservationEdges"}
  BY LateStatement, ImportAssumption DEF Pipeline
<1>3. graph.vertices \subseteq {Instance} \cup Dims \cup Inserted
  BY DEF ExactInv, GrowingInv
<1> DEFINE grown(g) ==
             /\ graph.vertices \subseteq g.vertices /\ g.vertices \subseteq {Instance} \cup Dims \cup Inserted
             /\ graph.properties \subseteq g.properties
             /\ graph.edges \subseteq g.edges
             /\ \A e \in g.edges \ graph.edges : e[1] \in Options \cup Codes
<1>4. grown(graph)
  BY <1>3
<1> HIDE DEF p, j
<1>5. grown(G)
  <2>1. CASE p \in {"createDimensionEdge", "createCodeEdge"}
    <3>1. CASE G = graph
      BY <1>4, <3>1
    <3>2. CASE G = AddEdges(graph, {<<Option(j), Instance>>})
      <4>1. Option(j) \in Options \cup Codes
        BY <1>2, <2>1, ImportAssumption DEF Allowed, DimensionPositions, Option
      <4>2. G.vertices = graph.vertices /\ G.properties = graph.properties
        BY <1>1, <3>2, AddEdgesParts
      <4>3. graph.edges \subseteq G.edges /\ \A e \in G.edges \ graph.edges : e[1] = Option(j)
        BY <1>1, <3>2, AddEdgesAdds
      <4> HIDE DEF G
      <4> QED
        BY <1>3, <4>1, <4>2, <4>3
    <3>3. G = graph \/ G = AddEdges(graph, {<<Option(j), Instance>>})
      BY <2>1 DEF Executed, CreateDimensionToInstanceRelationship
    <3> QED
      BY <3>1, <3>2, <3>3
  <2>2. CASE p = "setProperties"
    <3>1. G = SetProperties(graph, j.op)
      BY <2>2 DEF Executed
    <3>2. /\ G.vertices = graph.vertices /\ G.edges = graph.edges
          /\ graph.properties \subseteq G.properties
      BY <1>1, <3>1 DEF SetProperties, IsGraph
    <3> HIDE DEF G
    <3> QED
      BY <1>3, <3>2
  <2>3. CASE p \notin {"createDimensionEdge", "createCodeEdge", "setProperties"}
    <3>1. G = AddVertices(graph, Created(p, j))
      BY <1>2, <2>3 DEF Executed
    <3>2. /\ G.vertices = graph.vertices \cup Created(p, j) /\ G.edges = graph.edges
          /\ G.properties = graph.properties
      BY <1>1, <3>1, AddVerticesParts
    <3>3. Created(p, j) \subseteq {Instance} \cup Dims \cup Inserted
      BY <1>2 DEF Allowed, Created, DimensionPositions, ObservationPositions, Dims, Inserted, Batches, Inserting
    <3> HIDE DEF G
    <3> QED
      BY <1>3, <3>2, <3>3
  <2> QED
    BY <2>1, <2>2, <2>3
<1> HIDE DEF G
<1>6. grown(graph')
  BY <1>1, <1>4, <1>5
<1> QED
  BY <1>1, <1>6, GrowingIsExact

------------------------------------------------------------------------------
(* A statement that is answered.                                           *)

\* After the first stage the instance is there.
LEMMA InstanceThere ==
  ASSUME Pipeline, ExactInv, NEW j \in Jobs, pos[j] \notin Resting, Stage(j) # 1
  PROVE  Instance \in graph.vertices
<1>1. PICK k \in Jobs : k.op = "CreateInstance"
  BY DEF Pipeline
<1>2. pos[k] = "done"
  BY <1>1, Stages, StageHeld DEF ExactInv
<1> QED
  BY <1>1, <1>2 DEF ExactInv, GrowingInv, LeftBehind

\* After the second stage all dimensions are.
LEMMA DimensionsThere ==
  ASSUME ExactInv, NEW j \in Batches, pos[j] \notin Resting
  PROVE  Dims \subseteq graph.vertices
<1> SUFFICES ASSUME NEW d \in Dims PROVE d \in graph.vertices
  OBVIOUS
<1>1. j \in Jobs /\ Stage(j) = 3
  BY Stages DEF Batches, Inserting
<1>2. \A k \in Callers(d) : pos[k] = "done"
  BY <1>1, Stages, StageHeld DEF ExactInv, Callers, Inserting
<1> QED
  BY <1>2 DEF ExactInv, DimensionInv

\* The edge of an option or a code to the instance.
LEMMA EdgeAdded ==
  ASSUME NEW g, IsGraph(g), NEW o
  PROVE  Between(AddEdges(g, {<<o, Instance>>}), o, {Instance}) # {}
<1> DEFINE pairs == {<<o, Instance>>}
           n == Cardinality(Between(g, o, {Instance})) + 1
           new == { <<p[1], p[2], Cardinality(Between(g, p[1], {p[2]})) + 1>> : p \in pairs }
<1>1. <<o, Instance, n>> \in new
  OBVIOUS
<1> HIDE DEF pairs
<1>2. AddEdges(g, pairs).edges = g.edges \cup new
  BY AddEdgesParts
<1> HIDE DEF n, new
<1>3. <<o, Instance, n>> \in Between(AddEdges(g, pairs), o, {Instance})
  BY <1>1, <1>2 DEF Between
<1> QED
  BY <1>3 DEF pairs

\* The edges of a batch: one for each observation and each of its options.
LEMMA BatchEdgesAdded ==
  ASSUME Pipeline, IInv, ExactInv, NEW j \in Batches, pos[j] = "addObservationEdges",
         NEW h, h = Executed(pos[j], j, found[j])
  PROVE  /\ h.vertices = graph.vertices
         /\ \A o \in Range(j.arg) : From(h, o) = { <<o, d, 1>> : d \in OptionsOf[o] }
<1> DEFINE batch == j.arg
           reached == { i \in DOMAIN batch : \A k \in 1..i : batch[k] \in graph.vertices }
           pairs == UNION { { <<batch[i], LowerCase[o]>> : o \in OptionsOf[batch[i]] } : i \in reached }
           new == { <<p[1], p[2], Cardinality(Between(graph, p[1], {p[2]})) + 1>> : p \in pairs }
<1>1. IsGraph(graph) /\ BatchOK(j)
  BY DEF IInv, ExactInv, BatchInv
<1>2. Range(batch) \subseteq graph.vertices /\ \A o \in Range(batch) : From(graph, o) = {}
  BY <1>1 DEF BatchOK
<1>3. batch \in Seq(Observations) /\ Range(batch) \subseteq Inserted
  BY Arguments DEF Inserted
<1>4. \A o \in Range(batch) : \A d \in OptionsOf[o] : d \in Dims /\ LowerCase[d] = d
  BY <1>3, Arguments DEF Pipeline
<1>5. dimIDs(batch) \subseteq graph.vertices
  <2>1. Dims \subseteq graph.vertices
    BY DimensionsThere DEF Resting
  <2>2. dimIDs(batch) \subseteq Dims
    BY <1>4 DEF dimIDs
  <2> QED
    BY <2>1, <2>2
<1>6. reached = DOMAIN batch
  <2>1. \A i \in DOMAIN batch : \A k \in 1..i : k \in DOMAIN batch
    BY <1>3
  <2> QED
    BY <1>2, <2>1 DEF Range
<1>7. \A p : p \in pairs <=> \E o \in Range(batch) : \E d \in OptionsOf[o] : p = <<o, d>>
  <2>1. \A i \in DOMAIN batch : batch[i] \in Range(batch)
    BY DEF Range
  <2>2. ASSUME NEW p \in pairs
        PROVE  \E o \in Range(batch) : \E d \in OptionsOf[o] : p = <<o, d>>
    <3>1. PICK i \in DOMAIN batch : \E o \in OptionsOf[batch[i]] : p = <<batch[i], LowerCase[o]>>
      BY <1>6, <2>2
    <3> QED
      BY <1>4, <2>1, <3>1
  <2>3. ASSUME NEW o \in Range(batch), NEW d \in OptionsOf[o]
        PROVE  <<o, d>> \in pairs
    <3>1. PICK i \in DOMAIN batch : o = batch[i]
      BY DEF Range
    <3>2. <<o, d>> = <<batch[i], LowerCase[d]>> /\ d \in OptionsOf[batch[i]]
      BY <1>4, <3>1
    <3> QED
      BY <1>6, <3>2
  <2> QED
    BY <2>2, <2>3
<1>8. h = AddEdges(graph, pairs)
  BY <1>5 DEF Executed, addObservationEdges
<1> HIDE DEF pairs
<1>9. h.vertices = graph.vertices /\ h.edges = graph.edges \cup new
  <2>1. IsGraph(graph)
    BY <1>1
  <2>2. AddEdges(graph, pairs).vertices = graph.vertices
    BY <2>1, AddEdgesParts
  <2>3. AddEdges(graph, pairs).edges = graph.edges \cup new
    BY <2>1, AddEdgesParts
  <2> QED
    BY <1>8, <2>2, <2>3
<1>10. \A o \in Range(batch) : \A d : Cardinality(Between(graph, o, {d})) + 1 = 1
  <2> SUFFICES ASSUME NEW o \in Range(batch), NEW d
               PROVE  Cardinality(Between(graph, o, {d})) + 1 = 1
    OBVIOUS
  <2>1. Between(graph, o, {d}) = {}
    BY <1>2 DEF Between, From
  <2>2. Cardinality(Between(graph, o, {d})) = 0
    BY <2>1, FS_EmptySet
  <2> QED
    BY <2>2
<1>11. new = { <<p[1], p[2], 1>> : p \in pairs }
  <2>1. \A p \in pairs : p[1] \in Range(batch)
    BY <1>7
  <2> QED
    BY <1>10, <2>1
<1> HIDE DEF new, batch
<1>12. ASSUME NEW o \in Range(batch)
       PROVE  From(h, o) = { <<o, d, 1>> : d \in OptionsOf[o] }
  <2>1. From(h, o) = { e \in new : e[1] = o }
    BY <1>2, <1>9 DEF From
  <2>2. ASSUME NEW e \in new, e[1] = o PROVE e \in { <<o, d, 1>> : d \in OptionsOf[o] }
    BY <1>7, <1>11, <2>2
  <2>3. ASSUME NEW d \in OptionsOf[o] PROVE <<o, d, 1>> \in new
    <3>1. <<o, d>> \in pairs
      BY <1>7
    <3>2. <<o, d, 1>> = << <<o, d>>[1], <<o, d>>[2], 1>>
      OBVIOUS
    <3> QED
      BY <1>11, <3>1, <3>2
  <2> QED
    BY <2>1, <2>2, <2>3
<1> QED
  BY <1>9, <1>12 DEF batch

\* Where an operation goes.
LEMMA AfterHome ==
  ASSUME Ordered, NEW j \in Jobs, pos[j] \notin Resting
  PROVE  After(j) \in Home(j) \cup {"done", "failed"}
<1>1. pos[j] \in Home(j)
  BY DEF Ordered
<1> QED
  BY <1>1 DEF Home, After, AfterCreateInstance, AfterInsertDimension, AfterCreateCodeRelationship,
              AfterInsertObservationBatch, DimensionPositions, ObservationPositions

LEMMA AnswerBatch ==
  ASSUME Pipeline, IInv, ExactInv, NEW j \in Batches, Answer(j)
  PROVE  BatchOK(j)'
<1>1. j \in Jobs /\ j.op = "InsertObservationBatch" /\ BatchOK(j) /\ IsGraph(graph)
  BY DEF Batches, Inserting, ExactInv, BatchInv, IInv
<1>2. pos[j] \notin Resting /\ pos[j] \in ObservationPositions
  BY <1>1 DEF Answer, Ended, ExactInv, Ordered, Resting, Home
<1>3. pos'[j] = AfterInsertObservationBatch(j) /\ graph' = Executed(pos[j], j, found[j])
  BY <1>1 DEF Answer, After, IInv, TypeOK
<1>4. found'[j] \subseteq Range(j.arg)
  BY <1>1 DEF Answer, BatchOK, IInv, TypeOK
<1>5. CASE pos[j] = "addObservationNodes"
  <2>1. pos'[j] = "addObservationEdges"
    BY <1>3, <1>5 DEF AfterInsertObservationBatch
  <2>2. graph'.vertices = graph.vertices \cup Range(j.arg) /\ graph'.edges = graph.edges
    BY <1>1, <1>3, <1>5, AddVerticesParts DEF Executed, Created
  <2>3. ASSUME NEW o \in Range(j.arg) PROVE From(graph', o) = {}
    <3>1. o \notin graph.vertices
      BY <1>5 DEF Answer, Refused, Created
    <3>2. o \notin Codes
      BY Arguments DEF Pipeline
    <3> QED
      BY <2>2, <3>1, <3>2 DEF From, IInv, TypeOK, GraphOK
  <2> QED
    BY <1>4, <2>1, <2>2, <2>3 DEF BatchOK, Range, From
<1>6. CASE pos[j] = "addObservationEdges"
  <2>1. pos'[j] = "done"
    BY <1>3, <1>6 DEF AfterInsertObservationBatch
  <2>2. /\ graph'.vertices = graph.vertices
        /\ \A o \in Range(j.arg) : From(graph', o) = { <<o, d, 1>> : d \in OptionsOf[o] }
    BY <1>3, <1>6, BatchEdgesAdded
  <2>3. Range(j.arg) \subseteq graph'.vertices
    BY <1>1, <1>6, <2>2 DEF BatchOK
  <2> QED
    BY <1>4, <2>1, <2>2, <2>3 DEF BatchOK, Range, From
<1>7. CASE pos[j] \notin {"addObservationNodes", "addObservationEdges"}
  <2>1. pos'[j] \notin {"addObservationEdges", "done"}
    BY <1>2, <1>3, <1>7 DEF AfterInsertObservationBatch, ObservationPositions
  <2> QED
    BY <1>4, <2>1 DEF BatchOK, Range
<1> QED
  BY <1>5, <1>6, <1>7

LEMMA AnswerLeavesBehind ==
  ASSUME Pipeline, IInv, ExactInv, NEW j \in Jobs, Answer(j)
  PROVE  LeftBehind(j)'
<1> SUFFICES ASSUME pos'[j] = "done" PROVE LeftBehind(j)'
  BY DEF LeftBehind
<1>1. IsGraph(graph) /\ Ordered /\ pos[j] \notin Resting
  BY DEF IInv, ExactInv, Answer, Ended, Resting
<1>2. After(j) = "done" /\ graph' = Executed(pos[j], j, found[j])
  BY DEF Answer, IInv, TypeOK
<1>3. CASE j.op = "CreateInstance"
  <2>1. pos[j] \in {"checkInstance", "createInstance"}
    BY <1>1, <1>3 DEF Ordered, Home
  <2>2. graph'.vertices = graph.vertices \cup Created(pos[j], j)
    BY <1>1, <1>2, <2>1, AddVerticesParts DEF Executed
  <2>3. Instance \in graph'.vertices
    BY <1>2, <1>3, <2>1, <2>2 DEF After, AfterCreateInstance, InstanceExists, Created
  <2> QED
    BY <1>3, <2>3 DEF LeftBehind, Stage
<1>4. CASE j.op = "InsertDimension"
  <2>1. pos[j] = "createDimensionEdge"
    BY <1>1, <1>2, <1>4 DEF Ordered, Home, DimensionPositions, After, AfterInsertDimension
  <2>2. Dimension[Option(j)] \in cache'
    BY <2>1 DEF Answer
  <2> QED
    BY <1>4, <2>2 DEF LeftBehind, Stage, Option
<1>5. CASE j.op = "CreateCodeRelationship"
  <2>1. pos[j] = "createCodeEdge"
    BY <1>1, <1>2, <1>5 DEF Ordered, Home, After, AfterCreateCodeRelationship
  <2>2. Option(j) \in Codes
    BY <2>1 DEF IInv, PosInv
  <2>3. Instance \in graph.vertices
    BY <1>1, <1>5, Stages, InstanceThere
  <2>4. graph' = AddEdges(graph, {<<Option(j), Instance>>})
    BY <1>2, <2>1, <2>3 DEF Executed, InstanceExists
  <2>5. Between(graph', Option(j), {Instance}) # {}
    BY <1>1, <2>4, EdgeAdded
  <2> QED
    BY <1>5, <2>2, <2>5 DEF LeftBehind, Stage, Option, Between
<1>6. CASE Stage(j) = 4
  <2>1. pos[j] = "setProperties"
    BY <1>1, <1>6 DEF Ordered, Home, Stage
  <2>2. Instance \in graph.vertices
    BY <1>1, <1>6, InstanceThere
  <2>3. graph' = [graph EXCEPT !.properties = @ \cup {j.op}]
    BY <1>2, <2>1, <2>2 DEF Executed, SetProperties
  <2>4. j.op \in graph'.properties
    BY <1>1, <2>3 DEF IsGraph
  <2> QED
    BY <1>6, <2>4, Stages DEF LeftBehind, Stage
<1>7. CASE j.op \notin {"CreateInstance", "InsertDimension", "CreateCodeRelationship"} /\ Stage(j) # 4
  BY <1>7 DEF LeftBehind, Stage
<1> QED
  BY <1>3, <1>4, <1>5, <1>6, <1>7

LEMMA AnswerExact ==
  ASSUME Pipeline, IInv, ExactInv, NEW j \in Jobs, Answer(j)
  PROVE  ExactInv'
<1> DEFINE p == After(j)
<1>1. /\ pos' = [pos EXCEPT ![j] = p] /\ graph' = Executed(pos[j], j, found[j])
      /\ pos[j] \notin Resting /\ Ordered /\ IsGraph(graph)
  BY DEF Answer, Ended, Resting, ExactInv, IInv
<1>2. Keeps(j)
  BY <1>1, KeepsWhenExecuted
<1>3. p \in Home(j) \cup {"done", "failed"}
  BY <1>1, AfterHome
<1>4. /\ \A k \in Jobs : Stage(k) < Stage(j) => pos[k] = "done"
      /\ \A k \in Jobs : Stage(j) < Stage(k) => pos[k] = "waiting"
  BY <1>1, StageHeld
<1>5. ASSUME j.op = "InsertDimension"
      PROVE  /\ p = "createDimensionEdge" => pos[j] = "createDimension"
             /\ p = "done" => pos[j] = "createDimensionEdge"
  <2>1. pos[j] \in DimensionPositions /\ p = AfterInsertDimension(j)
    BY <1>1, <1>5 DEF Ordered, Home, After
  <2> QED
    BY <2>1 DEF DimensionPositions, AfterInsertDimension
<1>6. pos[j] = "dropDimension" => p \notin {"createDimensionEdge", "done"}
  BY <1>1, <1>5, AtHome DEF DimensionPositions
<1>7. j.op = "InsertDimension" /\ p \in {"createDimensionEdge", "done"} =>
        pos[j] \in {"createDimensionEdge", "done"} \/ Option(j) \in graph'.vertices
  <2>1. pos[j] = "createDimension" => Option(j) \in graph'.vertices
    BY <1>1, AddVerticesParts DEF Executed, Created
  <2> QED
    BY <1>5, <2>1
<1>8. ASSUME j.op = "InsertDimension", p = "done", \A k \in Callers(Option(j)) : k # j => pos[k] = "done"
      PROVE  Between(graph', Option(j), {Instance}) # {}
  <2>1. pos[j] = "createDimensionEdge"
    BY <1>5, <1>8
  <2>2. Option(j) \in Dims
    BY <1>8 DEF Dims, Inserting
  <2>3. Option(j) \in graph.vertices
    BY <1>8, <2>1, <2>2 DEF ExactInv, DimensionInv
  <2>4. Instance \in graph.vertices
    BY <1>1, <1>8, Stages, InstanceThere
  <2>5. graph' = AddEdges(graph, {<<Option(j), Instance>>})
    BY <1>1, <2>1, <2>3, <2>4 DEF Executed, CreateDimensionToInstanceRelationship
  <2> QED
    BY <1>1, <2>5, EdgeAdded
<1>9. j \in Batches => BatchOK(j)'
  BY AnswerBatch
<1>10. LeftBehind(j)'
  BY AnswerLeavesBehind
<1>11. cache \subseteq cache' /\ cache' \subseteq { Dimension[d] : d \in Dims }
  <2>1. pos[j] = "createDimensionEdge" => Option(j) \in Dims
    BY <1>1, AtHome DEF DimensionPositions, Dims, Inserting
  <2>2. cache \subseteq { Dimension[d] : d \in Dims }
    BY DEF ExactInv, GrowingInv
  <2> QED
    BY <2>1, <2>2 DEF Answer
<1>12. \A k \in Jobs : k # j => found'[k] = found[k]
  BY DEF Answer, IInv, TypeOK
<1> HIDE DEF p
<1> QED
  BY <1>1, <1>2, <1>3, <1>4, <1>6, <1>7, <1>8, <1>9, <1>10, <1>11, <1>12, Move

------------------------------------------------------------------------------
THEOREM InitExact == Init => ExactInv
<1> SUFFICES ASSUME Init PROVE ExactInv
  OBVIOUS
<1>1. \A j \in Jobs : pos[j] = "waiting" /\ found[j] = {}
  BY DEF Init
<1>2. Ordered
  BY <1>1 DEF Ordered, Resting
<1>3. DimensionInv
  <2>1. \A d \in Dims : \E j \in Callers(d) : pos[j] = "waiting"
    BY <1>1 DEF Dims, Callers, Inserting
  <2> QED
    BY <2>1 DEF DimensionInv
<1>4. BatchInv
  BY <1>1 DEF BatchInv, BatchOK, Batches, Inserting
<1>5. GrowingInv
  BY <1>1 DEF GrowingInv, LeftBehind, Init, EmptyGraph
<1> QED
  BY <1>2, <1>3, <1>4, <1>5 DEF ExactInv

THEOREM ExactInvariance == ASSUME Pipeline PROVE Spec => [](IInv /\ ExactInv)
<1>1. ASSUME IInv, ExactInv, [Next]_vars
      PROVE  ExactInv'
  <2>1. ASSUME NEW j \in Jobs, Deliver(j) PROVE ExactInv'
    BY <1>1, <2>1, DeliverExact
  <2>2. ASSUME NEW j \in Jobs, Answer(j) PROVE ExactInv'
    BY <1>1, <2>2, AnswerExact
  <2>3. ASSUME NEW j \in Jobs, Refuse(j) PROVE ExactInv'
    BY <1>1, <2>3, RefuseExact
  <2>4. ASSUME NEW j \in Jobs, Lose(j) PROVE ExactInv'
    BY <1>1, <2>4, LoseExact
  <2>5. CASE UNCHANGED vars
    <3>1. graph' = graph /\ UNCHANGED <<pos, found, cache>>
      BY <2>5 DEF vars
    <3>2. graph.vertices \subseteq {Instance} \cup Dims \cup Inserted
      BY <1>1 DEF ExactInv, GrowingInv
    <3> QED
      BY <1>1, <3>1, <3>2, GrowingIsExact
  <2>6. ASSUME NEW s \in late, ExecuteLate(s) PROVE ExactInv'
    BY <1>1, <2>6, ExecuteLateExact
  <2> QED
    BY <1>1, <2>1, <2>2, <2>3, <2>4, <2>5, <2>6 DEF Next, Idle
<1>2. Init => ExactInv
  BY InitExact
<1> QED
  BY <1>1, <1>2, Inductive, PTL DEF Spec

\* One edge, or none.
LEMMA OneEdge ==
  ASSUME NEW o, NEW D, From(graph, o) = { <<o, d, 1>> : d \in D }, NEW d
  PROVE  Cardinality(Between(graph, o, {d})) = (IF d \in D THEN 1 ELSE 0)
<1>1. Between(graph, o, {d}) = { e \in From(graph, o) : e[2] = d }
  BY DEF Between, From
<1>2. CASE d \in D
  <2>1. Between(graph, o, {d}) = {<<o, d, 1>>}
    BY <1>1, <1>2
  <2> QED
    BY <1>2, <2>1, FS_Singleton
<1>3. CASE d \notin D
  <2>1. Between(graph, o, {d}) = {}
    BY <1>1, <1>3
  <2> QED
    BY <1>3, <2>1, FS_EmptySet
<1> QED
  BY <1>2, <1>3

LEMMA ExactWhenDone ==
  ASSUME Pipeline, ExactInv PROVE ImportIsExact
<1> SUFFICES ASSUME \A j \in Jobs : pos[j] = "done"
             PROVE  /\ graph.vertices = {Instance} \cup Dims \cup Inserted
                    /\ \A o \in Inserted, d \in Dims :
                         Cardinality(Between(graph, o, {d})) = (IF d \in OptionsOf[o] THEN 1 ELSE 0)
                    /\ \A d \in Dims : Between(graph, d, {Instance}) # {}
                    /\ \A j \in Inserting("CreateCodeRelationship") : Between(graph, Option(j), {Instance}) # {}
                    /\ \A j \in Jobs : Stage(j) = 4 => j.op \in graph.properties
                    /\ cache = { Dimension[d] : d \in Dims }
  BY DEF ImportIsExact, Dims, Inserted, Batches
<1>1. DimensionInv /\ BatchInv /\ GrowingInv /\ \A j \in Jobs : LeftBehind(j)
  BY DEF ExactInv, GrowingInv
<1>2. \A d \in Dims : \A j \in Callers(d) : pos[j] = "done"
  BY DEF Callers, Inserting
<1>3. \A d \in Dims : d \in graph.vertices /\ Between(graph, d, {Instance}) # {}
  BY <1>1, <1>2 DEF DimensionInv
<1>4. ASSUME NEW o \in Inserted
      PROVE  o \in graph.vertices /\ From(graph, o) = { <<o, d, 1>> : d \in OptionsOf[o] }
  <2>1. PICK j \in Batches : o \in Range(j.arg)
    BY DEF Inserted
  <2>2. BatchOK(j) /\ pos[j] = "done"
    BY <1>1 DEF BatchInv, Batches, Inserting
  <2> QED
    BY <2>1, <2>2 DEF BatchOK
<1>5. Instance \in graph.vertices
  BY <1>1 DEF Pipeline, LeftBehind
<1>6. graph.vertices = {Instance} \cup Dims \cup Inserted
  BY <1>1, <1>3, <1>4, <1>5 DEF GrowingInv
<1>7. \A d \in Dims : Dimension[d] \in cache
  BY <1>1 DEF Dims, Inserting, LeftBehind
<1>8. cache = { Dimension[d] : d \in Dims }
  BY <1>1, <1>7 DEF GrowingInv
<1>9. \A j \in Inserting("CreateCodeRelationship") : Between(graph, Option(j), {Instance}) # {}
  BY <1>1 DEF Inserting, LeftBehind
<1>10. \A j \in Jobs : Stage(j) = 4 => j.op \in graph.properties
  BY <1>1 DEF LeftBehind
<1>11. \A o \in Inserted, d \in Dims :
         Cardinality(Between(graph, o, {d})) = (IF d \in OptionsOf[o] THEN 1 ELSE 0)
  BY <1>4, OneEdge
<1> QED
  BY <1>3, <1>6, <1>8, <1>9, <1>10, <1>11

\* Whatever is delivered again, refused, lost or interleaved: when all messages
\* of a pipeline have been handled, the graph is exactly the import, with every
\* observation linked once to each of its options.
THEOREM ImportStaysExact == ASSUME Pipeline PROVE Spec => []ImportIsExact
<1>1. IInv /\ ExactInv => ImportIsExact
  BY ExactWhenDone
<1> QED
  BY <1>1, ExactInvariance, PTL

------------------------------------------------------------------------------
(* The rows that are read with a filter, which has the options of one      *)
(* dimension at each of its places; an observation has one option of a     *)
(* dimension.                                                              *)

ByDimension ==
  /\ \A f \in Filters :
       /\ f \in Seq(SUBSET Options)
       /\ \A i, k \in DOMAIN f : \A c \in f[i], d \in f[k] : Dimension[c] = Dimension[d] <=> i = k
  /\ \A o \in Inserted : \A c, d \in OptionsOf[o] : Dimension[c] = Dimension[d] => c = d

\* The places of filter f at which there are options, and those but the first
\* at which o has one of them.
Full(f)    == { i \in DOMAIN f : f[i] # {} }
Rest(f)    == Full(f) \ {1}
Hits(f, o) == { i \in Rest(f) : f[i] \cap OptionsOf[o] # {} }

\* An observation has an edge for each place of the filter at which it has an
\* option.
LEMMA AdditionalEdges ==
  ASSUME ByDimension, NEW f \in Filters, NEW o \in Inserted,
         From(graph, o) = { <<o, d, 1>> : d \in OptionsOf[o] }
  PROVE  /\ IsFiniteSet(Rest(f)) /\ IsFiniteSet(Hits(f, o))
         /\ Cardinality(Between(graph, o, UNION { f[i] : i \in Rest(f) })) = Cardinality(Hits(f, o))
<1> DEFINE options == UNION { f[i] : i \in Rest(f) }
           edge == [i \in Hits(f, o) |-> <<o, CHOOSE d \in f[i] \cap OptionsOf[o] : TRUE, 1>>]
<1>1. f \in Seq(SUBSET Options)
  BY DEF ByDimension
<1>2. IsFiniteSet(Rest(f)) /\ IsFiniteSet(Hits(f, o))
  <2>1. DOMAIN f = 1..Len(f) /\ Len(f) \in Nat
    BY <1>1
  <2>2. IsFiniteSet(DOMAIN f)
    BY <2>1, FS_Interval
  <2>3. Rest(f) \in SUBSET DOMAIN f /\ Hits(f, o) \in SUBSET DOMAIN f
    BY DEF Rest, Full, Hits
  <2> QED
    BY <2>2, <2>3, FS_Subset
<1>3. ASSUME NEW i \in Hits(f, o)
      PROVE  \E d \in f[i] \cap OptionsOf[o] : edge[i] = <<o, d, 1>>
  BY DEF Hits
<1>4. \A i \in Hits(f, o) : i \in Rest(f) /\ i \in DOMAIN f
  BY DEF Hits, Rest, Full
<1>5. \A i, k \in Hits(f, o) : edge[i] = edge[k] => i = k
  <2> SUFFICES ASSUME NEW i \in Hits(f, o), NEW k \in Hits(f, o), edge[i] = edge[k] PROVE i = k
    OBVIOUS
  <2>1. PICK c \in f[i] \cap OptionsOf[o] : edge[i] = <<o, c, 1>>
    BY <1>3
  <2>2. PICK d \in f[k] \cap OptionsOf[o] : edge[k] = <<o, d, 1>>
    BY <1>3
  <2>3. <<o, c, 1>> = <<o, d, 1>>
    BY <2>1, <2>2 DEF edge
  <2>4. c = d
    BY <2>3
  <2> QED
    BY <1>4, <2>4 DEF ByDimension
<1>6. Between(graph, o, options) = { e \in From(graph, o) : e[2] \in options }
  BY DEF Between, From
<1>7. Between(graph, o, options) = { edge[i] : i \in Hits(f, o) }
  <2>1. ASSUME NEW e \in Between(graph, o, options)
        PROVE  \E i \in Hits(f, o) : e = edge[i]
    <3>1. PICK d \in OptionsOf[o] : e = <<o, d, 1>> /\ d \in options
      BY <1>6
    <3>2. PICK i \in Rest(f) : d \in f[i]
      BY <3>1
    <3>3. i \in Hits(f, o)
      BY <3>2 DEF Hits
    <3>4. PICK c \in f[i] \cap OptionsOf[o] : edge[i] = <<o, c, 1>>
      BY <1>3, <3>3
    <3>5. c = d
      BY <1>4, <3>2, <3>3, <3>4 DEF ByDimension
    <3> QED
      BY <3>1, <3>3, <3>4, <3>5
  <2>2. ASSUME NEW i \in Hits(f, o)
        PROVE  edge[i] \in Between(graph, o, options)
    <3>1. PICK d \in f[i] \cap OptionsOf[o] : edge[i] = <<o, d, 1>>
      BY <1>3
    <3>2. d \in options
      BY <1>4, <3>1
    <3> HIDE DEF edge, options
    <3>3. <<o, d, 1>> \in From(graph, o)
      BY <3>1
    <3> QED
      BY <1>6, <3>1, <3>2, <3>3
  <2> HIDE DEF edge, options
  <2> QED
    BY <2>1, <2>2
<1>8. DOMAIN edge = Hits(f, o)
  OBVIOUS
<1> HIDE DEF edge
<1>9. Cardinality({ edge[i] : i \in Hits(f, o) }) = Cardinality(Hits(f, o))
  BY <1>2, <1>5, <1>8, SameSize
<1> QED
  BY <1>2, <1>7, <1>9

\* Of the first dimension there is one edge, or none.
LEMMA FirstEdges ==
  ASSUME ByDimension, NEW f \in Filters, 1 \in DOMAIN f, NEW o \in Inserted,
         From(graph, o) = { <<o, d, 1>> : d \in OptionsOf[o] }
  PROVE  Cardinality(Between(graph, o, f[1])) = (IF f[1] \cap OptionsOf[o] # {} THEN 1 ELSE 0)
<1>1. Between(graph, o, f[1]) = { e \in From(graph, o) : e[2] \in f[1] }
  BY DEF Between, From
<1>2. CASE f[1] \cap OptionsOf[o] # {}
  <2>1. PICK d \in f[1] \cap OptionsOf[o] : TRUE
    BY <1>2
  <2>2. \A c \in f[1] \cap OptionsOf[o] : c = d
    BY <2>1 DEF ByDimension
  <2>3. Between(graph, o, f[1]) = {<<o, d, 1>>}
    BY <1>1, <2>1, <2>2
  <2> QED
    BY <1>2, <2>3, FS_Singleton
<1>3. CASE f[1] \cap OptionsOf[o] = {}
  <2>1. Between(graph, o, f[1]) = {}
    BY <1>1, <1>3
  <2> QED
    BY <1>3, <2>1, FS_EmptySet
<1> QED
  BY <1>2, <1>3

LEMMA ExactRows ==
  ASSUME ByDimension, NEW f \in Filters, NEW o \in Inserted, o \in graph.vertices,
         From(graph, o) = { <<o, d, 1>> : d \in OptionsOf[o] },
         IsQuery(buildObservationsQuery(f))
  PROVE  Rows(graph, buildObservationsQuery(f), o) = (IF Selects(f, o) THEN 1 ELSE 0)
<1> DEFINE q == buildObservationsQuery(f)
           additional == UNION { f[i] : i \in Rest(f) }
<1>1. /\ q.all = IsEmpty(f) /\ q.first = (IF 1 \in Full(f) THEN f[1] ELSE {})
      /\ q.additional = additional /\ q.dimensions = Cardinality(Rest(f))
  BY DEF buildObservationsQuery, Full, Rest
<1>2. q.all \/ q.first # {}
  BY DEF IsQuery
<1> HIDE DEF q
<1>3. CASE q.all
  <2>1. Rows(graph, q, o) = Cardinality({o} \cap graph.vertices)
    BY <1>3 DEF Rows
  <2>2. {o} \cap graph.vertices = {o}
    OBVIOUS
  <2>3. Rows(graph, q, o) = 1
    BY <2>1, <2>2, FS_Singleton
  <2>4. Selects(f, o)
    BY <1>1, <1>3 DEF IsEmpty, Selects
  <2> QED
    BY <2>3, <2>4 DEF q
<1>4. CASE ~q.all
  <2>1. 1 \in Full(f) /\ 1 \in DOMAIN f /\ q.first = f[1]
    BY <1>1, <1>2, <1>4 DEF Full
  <2>2. Cardinality(Between(graph, o, q.first)) = (IF f[1] \cap OptionsOf[o] # {} THEN 1 ELSE 0)
    BY <2>1, FirstEdges
  <2>3. /\ IsFiniteSet(Rest(f)) /\ IsFiniteSet(Hits(f, o))
        /\ Cardinality(Between(graph, o, q.additional)) = Cardinality(Hits(f, o))
    BY <1>1, AdditionalEdges
  <2>4. Hits(f, o) \in SUBSET Rest(f)
    BY DEF Hits
  <2>5. q.dimensions = 0 => Rest(f) = {}
    BY <1>1, <2>3, FS_EmptySet
  <2>6. Cardinality(Hits(f, o)) = Cardinality(Rest(f)) <=> Hits(f, o) = Rest(f)
    BY <2>3, <2>4, FS_Subset
  <2>7. q.dimensions = 0 \/ Cardinality(Between(graph, o, q.additional)) = q.dimensions
          <=> Hits(f, o) = Rest(f)
    BY <1>1, <2>3, <2>4, <2>5, <2>6
  <2>8. Rows(graph, q, o) =
          (IF Hits(f, o) = Rest(f) THEN Cardinality(Between(graph, o, q.first)) ELSE 0)
    BY <1>4, <2>7 DEF Rows
  <2>9. Selects(f, o) <=> Hits(f, o) = Rest(f) /\ f[1] \cap OptionsOf[o] # {}
    BY <2>1 DEF Selects, Hits, Rest, Full
  <2>10. Rows(graph, q, o) = (IF Selects(f, o) THEN 1 ELSE 0)
    BY <2>2, <2>8, <2>9
  <2> QED
    BY <2>10 DEF q
<1> QED
  BY <1>3, <1>4

\* Whatever is being imported at the time: a batch that has been inserted is
\* read row by row, each once for the filters that select it and never for the
\* others.
THEOREM FilteredRowsStayExact ==
  ASSUME Pipeline, ByDimension PROVE Spec => []FilteredRowsAreExact
<1>1. ASSUME ExactInv PROVE FilteredRowsAreExact
  <2> SUFFICES ASSUME NEW j \in Batches, pos[j] = "done", NEW o \in Range(j.arg), NEW f \in Filters,
                      IsQuery(buildObservationsQuery(f))
               PROVE  Rows(graph, buildObservationsQuery(f), o) = (IF Selects(f, o) THEN 1 ELSE 0)
    BY DEF FilteredRowsAreExact, Batches
  <2>1. BatchOK(j) /\ o \in Inserted
    BY <1>1 DEF ExactInv, BatchInv, Inserted
  <2>2. o \in graph.vertices /\ From(graph, o) = { <<o, d, 1>> : d \in OptionsOf[o] }
    BY <2>1 DEF BatchOK
  <2> QED
    BY <2>1, <2>2, ExactRows
<1>2. IInv /\ ExactInv => FilteredRowsAreExact
  BY <1>1
<1> QED
  BY <1>2, ExactInvariance, PTL
==============================================================================
