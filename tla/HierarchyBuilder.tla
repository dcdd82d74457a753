--------------------------- MODULE HierarchyBuilder ---------------------------
(***************************************************************************)
(* Building instance hierarchies: for every instance a builder calls the   *)
(* operations of neptune/hierarchy.go in the order Program[i].  An         *)
(* operation that takes IDs sends one statement per batch, the batches in  *)
(* any order and whatever becomes of the others (BatchProcessing); any     *)
(* other sends one statement.  A statement is sent again when its answer   *)
(* is lost, whether or not the database executed or will execute it        *)
(* (AtLeastOnce).  The builders share the graph.  Meanwhile an application *)
(* reads hierarchies, statement by statement (mapper.go).                  *)
(***************************************************************************)
EXTENDS HierarchyGraph, Sequences, Functions

CONSTANTS Instances,
          Strays,       \* codes there is data for, but no generic hierarchy node
          Program,      \* Program[i]: the operations the builder of i calls
          BatchSize,    \* n.batchSizeReader, n.batchSizeWriter
          MaxAttempts,  \* retries of a statement
          Unreliable,   \* the operations whose answers may get lost
          Refusable     \* the operations the database may refuse

ASSUME BuilderAssumption ==
  /\ BatchSize \in Nat \ {0}
  /\ MaxAttempts \in Nat \ {0}
  /\ IsFiniteSet(Strays) /\ Strays \cap Nodes = {}
  /\ \A i \in Instances : Program[i] \in Seq(STRING)

VARIABLES graph,  \* everything stored in Neptune
          data,   \* the generic nodes each instance has data for
          step,   \* the builder of i is at Program[i][step[i]]
          phase,  \* "calling", "running", "done" or "failed"
          left,   \* left[i][c]: attempts left for a statement without answer
          err,    \* some statement of the current operation has failed
          ids,    \* what the builder has been told: nodes, ancestries, clones
          late,   \* statements given up as lost that may still be executed
          reader  \* a read: the statement it is at, and its answer so far

vars == <<graph, data, step, phase, left, err, ids, late, reader>>

Phases == {"calling", "running", "done", "failed"}

Operation(i) == Program[i][step[i]]

GetCodesWithData(i) == data[i] \cup Strays

\* The IDs (or codes) an operation is given; what the caller must not clone
\* twice it leaves out of the ancestries.
Batched == {"GetGenericHierarchyNodeIDs", "GetGenericHierarchyAncestriesIDs",
            "CreateHasCodeEdges", "CloneNodesFromIDs(data)", "CloneNodesFromIDs(ancestries)",
            "CloneOrderFromIDs", "CloneRelationshipsFromIDs",
            "SetNumberOfChildrenFromIDs", "RemoveCloneEdgesFromSourceIDs"}

Targets(i, op) ==
  CASE op \in {"GetGenericHierarchyNodeIDs", "GetGenericHierarchyAncestriesIDs"} -> GetCodesWithData(i)
    [] op = "CloneNodesFromIDs(data)" -> ids[i].nodes
    [] op = "CloneNodesFromIDs(ancestries)" -> ids[i].ancestries \ ids[i].nodes
    [] op \in {"SetNumberOfChildrenFromIDs", "RemoveCloneEdgesFromSourceIDs"} -> ids[i].clones
    [] OTHER -> ids[i].nodes \cup ids[i].ancestries

\* The ways to cut S into batches of n, the last of which may be smaller.
Batches(S, n) ==
  LET m == (Cardinality(S) + n - 1) \div n
      batch(f, k) == { x \in S : f[x] = k }
      whole(f) == \A k \in 1..(m - 1) : Cardinality(batch(f, k)) = n
  IN  { { batch(f, k) : k \in 1..m } : f \in { g \in [S -> 1..m] : whole(g) } }

Whole == {{}}  \* the one statement of an operation without batches

Statements(i, op) ==
  IF op \notin Batched THEN {Whole}
  ELSE Batches(Targets(i, op), IF op = "CreateHasCodeEdges" THEN 1 ELSE BatchSize)

\* The graph after statement c of operation op.
Execute(g, i, op, c) ==
  CASE op = "CreateHasCodeEdges"            -> CreateHasCodeEdges(g, c)
    [] op = "CloneNodes"                    -> CloneVertices(g, i, Nodes, FALSE)
    [] op = "CloneNodesFromIDs(data)"       -> CloneVertices(g, i, c, TRUE)
    [] op = "CloneNodesFromIDs(ancestries)" -> CloneVertices(g, i, c, FALSE)
    [] op = "CloneOrderFromIDs"             -> CloneOrder(g, c)
    [] op = "CloneRelationships"            -> CloneRelationships(g, i, Nodes)
    [] op = "CloneRelationshipsFromIDs"     -> CloneRelationships(g, i, c)
    [] op = "RemoveCloneEdges"              -> RemoveCloneMarkers(g, OfInstance(g, i))
    [] op = "RemoveCloneEdgesFromSourceIDs" -> RemoveCloneMarkers(g, c)
    [] op = "SetNumberOfChildren"           -> SetNumberOfChildren(g, OfInstance(g, i))
    [] op = "SetNumberOfChildrenFromIDs"    -> SetNumberOfChildren(g, c)
    [] op = "SetHasData"                    -> SetHasData(g, i, GetCodesWithData(i))
    [] op = "MarkNodesToRemain"             -> MarkNodesToRemain(g, i)
    [] op = "RemoveNodesNotMarkedToRemain"  -> RemoveNodesNotMarkedToRemain(g, i)
    [] op = "RemoveRemainMarker"            -> RemoveRemainMarker(g, i)
    [] OTHER                                -> g

\* What the builder of i knows once statement c of op has been answered.
Learn(i, op, c) ==
  CASE op = "GetGenericHierarchyNodeIDs" ->
         [ids[i] EXCEPT !.nodes = @ \cup GetGenericHierarchyNodeIDs(c)]
    [] op = "GetGenericHierarchyAncestriesIDs" ->
         [ids[i] EXCEPT !.ancestries = @ \cup GetGenericHierarchyAncestriesIDs(c)]
    [] op = "GetHierarchyNodeIDs" -> [ids[i] EXCEPT !.clones = OfInstance(graph, i)]
    [] OTHER -> ids[i]

\* From the codes that have data, in batches.
NewProgram ==
  << "GetGenericHierarchyNodeIDs", "GetGenericHierarchyAncestriesIDs", "CreateHasCodeEdges",
     "CloneNodesFromIDs(data)", "CloneNodesFromIDs(ancestries)", "CloneOrderFromIDs",
     "CloneRelationshipsFromIDs", "GetHierarchyNodeIDs", "SetNumberOfChildrenFromIDs",
     "RemoveCloneEdgesFromSourceIDs" >>

\* From the whole generic hierarchy, trimmed.  CloneRelationships calls
\* RemoveCloneEdges itself.
OldProgram ==
  << "CloneNodes", "CloneRelationships", "RemoveCloneEdges", "SetHasData", "MarkNodesToRemain",
     "RemoveNodesNotMarkedToRemain", "RemoveRemainMarker", "SetNumberOfChildren" >>

\* The operations of the programs whose statements do no harm when they are
\* executed twice or late.
Repeatable ==
  { "GetGenericHierarchyNodeIDs", "GetGenericHierarchyAncestriesIDs", "CreateHasCodeEdges",
    "CloneOrderFromIDs", "GetHierarchyNodeIDs", "SetNumberOfChildrenFromIDs",
    "RemoveCloneEdgesFromSourceIDs", "RemoveCloneEdges", "SetHasData", "RemoveRemainMarker",
    "SetNumberOfChildren" }

NoRead == [at |-> "none"]

------------------------------------------------------------------------------
Init ==
  /\ graph = EmptyGraph
  /\ data \in [Instances -> SUBSET Nodes]
  /\ step = [i \in Instances |-> 1]
  /\ phase = [i \in Instances |-> IF Program[i] = <<>> THEN "done" ELSE "calling"]
  /\ left = [i \in Instances |-> <<>>]
  /\ err = [i \in Instances |-> FALSE]
  /\ ids = [i \in Instances |-> [nodes |-> {}, ancestries |-> {}, clones |-> {}]]
  /\ late = {}
  /\ reader = NoRead

Call(i) ==
  /\ phase[i] = "calling"
  /\ phase' = [phase EXCEPT ![i] = "running"]
  /\ \E P \in Statements(i, Operation(i)) :
       left' = [left EXCEPT ![i] = [c \in P |-> MaxAttempts]]
  /\ UNCHANGED <<graph, data, step, err, ids, late, reader>>

Settled_sentAgain(i, c) == [left EXCEPT ![i][c] = MaxAttempts]

Settled(i, c) == [left EXCEPT ![i] = Restrict(@, DOMAIN @ \ {c})]

\* A statement is executed and answered.
Answer(i) ==
  /\ phase[i] = "running"
  /\ \E c \in DOMAIN left[i] :
       /\ graph' = Execute(graph, i, Operation(i), c)
       /\ ids' = [ids EXCEPT ![i] = Learn(i, Operation(i), c)]
       /\ left' = Settled(i, c)
  /\ UNCHANGED <<data, step, phase, err, late, reader>>

\* The database refuses a statement; that is not retried.
Refuse(i) ==
  /\ phase[i] = "running"
  /\ Operation(i) \in Refusable
  /\ \E c \in DOMAIN left[i] : left' = Settled(i, c)
  /\ err' = [err EXCEPT ![i] = TRUE]
  /\ UNCHANGED <<graph, data, step, phase, ids, late, reader>>

\* No answer: the statement was executed, will be, or never reaches the
\* database.  It is sent again while attempts are left.
Lose(i) ==
  /\ phase[i] = "running"
  /\ Operation(i) \in Unreliable
  /\ \E c \in DOMAIN left[i] :
       /\ \/ graph' = Execute(graph, i, Operation(i), c) /\ UNCHANGED late
          \/ /\ late' = late \cup {<<i, Operation(i), c, left[i][c]>>}
             /\ UNCHANGED graph
          \/ UNCHANGED <<graph, late>>
       /\ IF left[i][c] > 1
          THEN left' = [left EXCEPT ![i][c] = @ - 1] /\ UNCHANGED err
          ELSE left' = Settled(i, c) /\ err' = [err EXCEPT ![i] = TRUE]
  /\ UNCHANGED <<data, step, phase, ids, reader>>

ExecuteLate ==
  /\ \E r \in late :
       /\ graph' = Execute(graph, r[1], r[2], r[3])
       /\ late' = late \ {r}
  /\ UNCHANGED <<data, step, phase, left, err, ids, reader>>

Return_ignoringErrors(i) ==
  /\ phase[i] = "running"
  /\ left[i] = <<>>
  /\ IF step[i] = Len(Program[i])
     THEN phase' = [phase EXCEPT ![i] = "done"] /\ UNCHANGED step
     ELSE /\ phase' = [phase EXCEPT ![i] = "calling"]
          /\ step' = [step EXCEPT ![i] = @ + 1]
  /\ UNCHANGED <<graph, data, left, err, ids, late, reader>>

Return_onlyWithoutError(i) == ~err[i] /\ Return_ignoringErrors(i)

\* The operation returns when no batch is left; an error ends the build.
Return(i) ==
  /\ phase[i] = "running"
  /\ left[i] = <<>>
  /\ CASE err[i] -> phase' = [phase EXCEPT ![i] = "failed"] /\ UNCHANGED step
       [] ~err[i] /\ step[i] = Len(Program[i]) ->
            phase' = [phase EXCEPT ![i] = "done"] /\ UNCHANGED step
       [] OTHER -> /\ phase' = [phase EXCEPT ![i] = "calling"]
                   /\ step' = [step EXCEPT ![i] = @ + 1]
  /\ UNCHANGED <<graph, data, left, err, ids, late, reader>>

------------------------------------------------------------------------------
(* Reads.                                                                  *)

\* A statement of the read is answered; an error ends the read.
Proceed(r, answer, next) ==
  reader' = IF answer.status = "ok" THEN [r EXCEPT !.at = next, !.answer = answer] ELSE NoRead

AfterChildren(r) == IF r.breadcrumbs THEN "breadcrumbs" ELSE "answered"

\* GetHierarchyRoot or GetHierarchyElement; the root has no breadcrumbs.
BeginRead(i) ==
  /\ reader = NoRead
  /\ \E read \in { <<Roots(graph, i), FALSE>> } \cup { <<Same(graph, i, n), TRUE>> : n \in Nodes } :
       LET first == ReadVertex(graph, TheVertex(read[1]))
           r     == [ at |-> "none", of |-> i, breadcrumbs |-> read[2], byOrder |-> FALSE,
                      answer |-> first ]
       IN  /\ first.status = "ok"
           /\ Proceed(r, first, IF first.element.noOfChildren > 0 THEN "order" ELSE AfterChildren(r))
  /\ UNCHANGED <<graph, data, step, phase, left, err, ids, late>>

ReadOrder ==
  /\ reader.at = "order"
  /\ reader' = [reader EXCEPT !.at = "children",
                  !.byOrder = CountChildrenWithOrder(graph, reader.of, reader.answer.element.id) > 0]
  /\ UNCHANGED <<graph, data, step, phase, left, err, ids, late>>

ReadTheChildren ==
  /\ reader.at = "children"
  /\ Proceed(reader, ReadChildren(graph, reader.of, reader.answer, reader.byOrder), AfterChildren(reader))
  /\ UNCHANGED <<graph, data, step, phase, left, err, ids, late>>

ReadBreadcrumbs ==
  /\ reader.at = "breadcrumbs"
  /\ Proceed(reader, buildBreadcrumbs(graph, reader.of, reader.answer), "answered")
  /\ UNCHANGED <<graph, data, step, phase, left, err, ids, late>>

EndRead ==
  /\ reader.at = "answered"
  /\ reader' = NoRead
  /\ UNCHANGED <<graph, data, step, phase, left, err, ids, late>>

Reader ==
  \/ \E i \in Instances : BeginRead(i)
  \/ ReadOrder \/ ReadTheChildren \/ ReadBreadcrumbs \/ EndRead

------------------------------------------------------------------------------
Ended(i) == phase[i] \in {"done", "failed"}

Finished == (\A i \in Instances : Ended(i)) /\ UNCHANGED vars

Builder(i) == Call(i) \/ Answer(i) \/ Refuse(i) \/ Lose(i) \/ Return(i)

Next == (\E i \in Instances : Builder(i)) \/ ExecuteLate \/ Reader \/ Finished

\* A builder keeps calling, and every statement sent is answered or lost.
Fairness == \A i \in Instances : WF_vars(Builder(i))

Spec == Init /\ [][Next]_vars /\ Fairness
------------------------------------------------------------------------------
Operations ==
  Batched \cup { "CloneNodes", "CloneRelationships", "RemoveCloneEdges", "GetHierarchyNodeIDs",
                 "SetNumberOfChildren", "SetHasData", "MarkNodesToRemain",
                 "RemoveNodesNotMarkedToRemain", "RemoveRemainMarker" }

Vertices == Instances \X Nodes \X (Nat \ {0})

GraphOK ==
  /\ graph.vertices \subseteq Vertices
  /\ graph.edges \subseteq graph.vertices \X graph.vertices \X (Nat \ {0})
  /\ \A V \in {graph.cloneOf, graph.hasData, graph.remain, graph.ordered, DOMAIN graph.children} :
       V \subseteq graph.vertices
  /\ \A v \in DOMAIN graph.children : graph.children[v] \in Nat
  /\ graph.hasCode \subseteq Nodes

\* The variables keep their types.  In the graph no edge and no property is
\* left of a vertex that has been dropped.
TypeOK ==
  /\ GraphOK
  /\ data \in [Instances -> SUBSET Nodes]
  /\ phase \in [Instances -> Phases]
  /\ err \in [Instances -> BOOLEAN]
  /\ \A i \in Instances :
       /\ step[i] \in Nat \ {0}
       /\ \A c \in DOMAIN left[i] : left[i][c] \in 1..MaxAttempts
       /\ ids[i].nodes \cup ids[i].ancestries \subseteq Nodes
       /\ ids[i].clones \subseteq Vertices
  /\ \A r \in late : r[1] \in Instances /\ r[2] \in Unreliable
  /\ reader.at \in {"none", "order", "children", "breadcrumbs", "answered"}
  /\ reader.at # "none" => reader.of \in Instances

Done(i) == phase[i] = "done"

Kept(i) == data[i] \cup Ancestors(Parent, data[i])

Sorted == { i \in Instances : \E s \in DOMAIN Program[i] : Program[i][s] = "CloneOrderFromIDs" }

\* A finished hierarchy has exactly one clone of every generic node with data
\* or above data, one edge for every generic one between them, the flag
\* hasData on the right vertices, and, if its builder copies it, the order on
\* those whose code has one.  No clone_of edge and no remain property is left.
HierarchyIsComplete ==
  \A i \in Instances : Done(i) =>
    LET V == OfInstance(graph, i)
        E == { e \in graph.edges : e[1] \in V }
        codes(W) == { v[2] : v \in V \cap W }
    IN  /\ codes(V) = Kept(i)
        /\ Cardinality(V) = Cardinality(Kept(i))
        /\ { <<e[1][2], e[2][2]>> : e \in E } = Parent \cap (Kept(i) \X Kept(i))
        /\ Cardinality(E) = Cardinality(Parent \cap (Kept(i) \X Kept(i)))
        /\ codes(graph.hasData) = data[i]
        /\ i \in Sorted => codes(graph.ordered) = Kept(i) \cap Ordered
        /\ V \cap (graph.cloneOf \cup graph.remain) = {}

\* CloneNodesFromIDs "creates a clone for each one" of the IDs it is given
\* (neptune/query/query.go, CloneHierarchyNodesFromIDs): one, not several.
OneClonePerNode ==
  \A i \in Instances : Done(i) =>
    \A u, v \in OfInstance(graph, i) : u[2] = v[2] => u = v

\* No hierarchy ever gets a link into another one (the label in the queries).
HierarchiesAreApart == \A e \in graph.edges : e[1][1] = e[2][1]

\* What is shown of node n once the hierarchy is finished.  A builder that does
\* not copy the order may still find one copied by another.
FinalElement(i, n) ==
  [ id           |-> n,
    noOfChildren |-> Cardinality({ c \in Kept(i) : <<c, n>> \in Parent }),
    hasData      |-> n \in data[i],
    ordered      |-> IF i \in Sorted THEN n \in Ordered
                     ELSE Same(graph, i, n) \cap graph.ordered # {} ]

FinalNode(i, n, wantBreadcrumbs) ==
  [ status      |-> "ok",
    element     |-> FinalElement(i, n),
    children    |-> { <<FinalElement(i, c), 1, 1>> : c \in { k \in Kept(i) : <<k, n>> \in Parent } },
    breadcrumbs |-> IF wantBreadcrumbs
                    THEN { FinalElement(i, a) : a \in Ancestors(Parent, {n}) } ELSE {} ]

\* GetHierarchyElement and GetHierarchyRoot may be called while the hierarchy
\* is built, or after the build has failed, and the builders go on between
\* their statements: whenever they answer without an error, they answer what
\* they will of the finished hierarchy.
ReadsAreFinal ==
  reader.at = "answered" =>
    LET n == reader.answer.element.id
    IN  n \in Kept(reader.of) /\ reader.answer = FinalNode(reader.of, n, reader.breadcrumbs)

\* Some children of n have an order and some have none.
MixedOrder(i, n) ==
  LET down == { c \in Kept(i) : <<c, n>> \in Parent }
  IN  down \cap Ordered # {} /\ down \ Ordered # {}

\* Every node of a finished hierarchy can be read, by its code or as the root;
\* the stored count is the number of children a read finds, so that
\* buildHierarchyNode never meets its "child count mismatch".  Not so a node of
\* which some children have an order and some have none: that read fails.
FinishedIsReadable ==
  \A i \in Instances : Done(i) =>
    \A n \in Kept(i) :
      LET r      == GetHierarchyElement(graph, i, n)
          isRoot == \A p \in Nodes : <<n, p>> \notin Parent
      IN  IF MixedOrder(i, n) THEN r = Unreadable
          ELSE /\ r.status = "ok" /\ r.element.noOfChildren = Cardinality(r.children)
               /\ isRoot => GetHierarchyRoot(graph, i).status = "ok"

\* The calls and returns the builder of i has left at most.
PointsLeft(i) ==
  CASE phase[i] = "calling" -> 2 * (Len(Program[i]) - step[i]) + 2
    [] phase[i] = "running" -> 2 * (Len(Program[i]) - step[i]) + 1
    [] OTHER                -> 0

\* It gets to a later call or return, or a statement is settled or has one
\* attempt less, and none has one more.
Advances(i) ==
  \/ PointsLeft(i)' \in 0..(PointsLeft(i) - 1)
  \/ /\ PointsLeft(i)' = PointsLeft(i)
     /\ DOMAIN left'[i] \subseteq DOMAIN left[i]
     /\ \A c \in DOMAIN left'[i] : left'[i][c] <= left[i][c]
     /\ left'[i] # left[i]

Rests(i) == UNCHANGED <<step[i], phase[i], left[i], err[i], ids[i]>>

\* Whatever is refused, lost or executed late: a step that is not a read brings
\* the end of one build nearer and leaves the other builders alone, or executes
\* a statement that was given up as lost and does not come again.
BuildsAdvance ==
  [][\/ \E i \in Instances : Advances(i) /\ \A k \in Instances \ {i} : Rests(k)
     \/ /\ \A k \in Instances : Rests(k)
        /\ late' \in (SUBSET late) \ {late} \/ UNCHANGED <<graph, late>>]_vars

\* Every build ends, finished or failed: each operation sends finitely many
\* statements, finitely often.
BuildersEnd == \A i \in Instances : <>Ended(i)

------------------------------------------------------------------------------
\* The hierarchy of i as its readers know it.
View(i) ==
  LET V == OfInstance(graph, i)
  IN  [ state    |-> "ready",
        nodes    |-> { v[2] : v \in V },
        edges    |-> { <<e[1][2], e[2][2]>> : e \in { f \in graph.edges : f[1] \in V } },
        hasData  |-> { v[2] : v \in V \cap graph.hasData },
        children |-> [n \in { v[2] : v \in V } |-> graph.children[CHOOSE v \in V : v[2] = n]],
        ordered  |-> { v[2] : v \in V \cap graph.ordered } ]

Abstract == INSTANCE InstanceHierarchy WITH
  hierarchy <- [i \in Instances |->
                  CASE Done(i) -> View(i)
                    [] phase[i] = "failed" -> [state |-> "failed"]
                    [] OTHER -> [state |-> "absent"]]

\* Both ways of building, one operation at a time and several builders at
\* once, look like finishing or failing in one step; what is finished stays.
ImplementsInstanceHierarchy == Abstract!Spec
==============================================================================
