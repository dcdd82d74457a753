------------------------------- MODULE NeoStore -------------------------------
(***************************************************************************)
(* One instance in neo4j: the operations of neo4j/dimension.go,            *)
(* instance.go, observation.go and hierarchy_writer.go, each a sequence of *)
(* statements (module NeoGraph), called by services for the messages       *)
(* (jobs) they receive.  A job may be delivered again.                     *)
(*                                                                         *)
(* A statement is executed and answered; or it fails for a while, or for   *)
(* good, and is rolled back; or the connection is lost, and nobody knows   *)
(* whether it was executed.  The operations that retry (checkAttempts)     *)
(* tell these apart by the error (isTransientError).                       *)
(***************************************************************************)
EXTENDS NeoGraph, Sequences

CONSTANTS Workloads,       \* sets of jobs [op, arg, copy]: what the services are asked to do
          MaxRetries,      \* n.maxRetries
          MaxRedeliveries, \* bound: how often jobs are delivered again
          MaxLosses        \* bound: how often the connection is lost

Jobs == UNION Workloads

ASSUME NeoStoreAssumption ==
  /\ MaxRetries \in Nat \ {0} /\ {MaxRedeliveries, MaxLosses} \subseteq Nat
  /\ \A j \in Jobs : j.op = "InsertDimension" => j.arg[1] \in Options
  /\ \A j \in Jobs : j.op = "InsertObservationBatch" => j.arg \in Seq(Observations)

VARIABLES graph,
          pos,         \* the statement each job is at
          attempt,     \* the attempt it is sent in
          outcome,     \* the error each job returned
          executed,    \* history: executions of the statement each job is at, or ended with
          cache,       \* the dimensions in the services' cache map
          unconstrained, \* history: dimensions whose constraint could not be created
          ids,         \* the node IDs of options the services know; 0 when they do not
          built,       \* history: a hierarchy build has ended well
          redelivered, \* how often jobs have been delivered again
          lost         \* how often the connection has been lost

vars == <<graph, pos, attempt, outcome, executed, cache, unconstrained, ids, built, redelivered, lost>>

Option(j) == j.arg[1]
Ended(j)  == pos[j] \in {"done", "failed"}
Local(j)  == pos[j] \in {"cacheDimension", "createParams"}
Sent(j)   == pos[j] \notin {"absent", "waiting"} /\ ~Ended(j) /\ ~Local(j)

NothingUnderWay == \A j \in Jobs : pos[j] \in {"absent", "waiting"} \/ Ended(j)

FirstStatement(j) ==
  CASE j.op = "CreateInstance"           -> "createInstance"
    [] j.op = "CreateInstanceConstraint" -> "createInstanceConstraint"
    [] j.op = "InsertDimension"          -> "cacheDimension"
    [] j.op = "CreateCodeRelationship"   -> "createCodeRelationship"
    [] j.op = "InsertObservationBatch"   -> IF j.arg = <<>> THEN "failed" ELSE "createParams"
    [] j.op = "BuildHierarchy"           -> "createHierarchyConstraint"
    [] OTHER                             -> "setProperties"

------------------------------------------------------------------------------
(* The statement a job is at.                                              *)

Executed(j) ==
  CASE pos[j] = "createInstance"               -> CreateInstance(graph)
    [] pos[j] = "createInstanceConstraint"     -> Constrain(graph, "observation")
    [] pos[j] = "createUniqueConstraint"       -> Constrain(graph, Dimension[Option(j)])
    [] pos[j] = "insertDimension"              -> InsertDimension(graph, Option(j))
    [] pos[j] = "createCodeRelationship"       -> CreateCodeRelationship(graph, Option(j))
    [] pos[j] = "setProperties"                -> SetProperties(graph, j.op)
    [] pos[j] = "insertObservations"           -> InsertObservations(graph, j.arg, ids)
    [] pos[j] = "createHierarchyConstraint"    -> Constrain(graph, "hierarchy")
    [] pos[j] = "cloneNodes"                   -> CloneNodes(graph)
    [] pos[j] = "cloneRelationships"           -> CloneRelationships(graph)
    [] pos[j] = "setHasData"                   -> SetHasData(graph)
    [] pos[j] = "markNodesToRemain"            -> MarkNodesToRemain(graph)
    [] pos[j] = "removeNodesNotMarkedToRemain" -> RemoveNodesNotMarkedToRemain(graph)
    [] pos[j] = "removeRemainMarker"           -> RemoveRemainMarker(graph)
    [] pos[j] = "setNumberOfChildren"          -> SetNumberOfChildren(graph)

\* insertDimension reads one row: none is ErrNotFound; for a second one the
\* error is WithMessage(nil), which is no error.
CheckRows == IF graph.instances = {} THEN {"failed"} ELSE {"done"}

\* CreateCodeRelationship wants one row affected.
CheckRowsAffected(j) ==
  IF Option(j) \in Codes /\ Cardinality(graph.instances) = 1 THEN {"done"} ELSE {"failed"}

\* checkPropertiesSet: the properties of one node.  AddDimensions does not look.
checkPropertiesSet(j) ==
  IF j.op = "AddDimensions" \/ Cardinality(graph.instances) = 1 THEN {"done"} ELSE {"failed"}

\* InsertObservationBatch only logs the number; when nothing was created the
\* client may have no statistics, and that is an error.
CheckBatch(j) == IF Executed(j) = graph THEN {"done", "failed"} ELSE {"done"}

After(j) ==
  CASE pos[j] = "createUniqueConstraint"       -> {"insertDimension"}
    [] pos[j] = "insertDimension"              -> CheckRows
    [] pos[j] = "createCodeRelationship"       -> CheckRowsAffected(j)
    [] pos[j] = "setProperties"                -> checkPropertiesSet(j)
    [] pos[j] = "insertObservations"           -> CheckBatch(j)
    [] pos[j] = "createHierarchyConstraint"    -> {"cloneNodes"}
    [] pos[j] = "cloneNodes"                   -> {"cloneRelationships"}
    [] pos[j] = "cloneRelationships"           -> {"setHasData"}
    [] pos[j] = "setHasData"                   -> {"markNodesToRemain"}
    [] pos[j] = "markNodesToRemain"            -> {"removeNodesNotMarkedToRemain"}
    [] pos[j] = "removeNodesNotMarkedToRemain" -> {"removeRemainMarker"}
    [] pos[j] = "removeRemainMarker"           -> {"setNumberOfChildren"}
    [] OTHER                                   -> {"done"}

------------------------------------------------------------------------------
(* Errors.                                                                 *)

isTransientError_any(error) == TRUE

isTransientError(error) == error = "Neo.TransientError"

checkAttempts_offByOne(error, n) ==
  IF ~isTransientError(error) THEN "ErrNonRetriable"
  ELSE IF n > MaxRetries THEN "ErrAttemptsExceededLimit" ELSE "none"

checkAttempts(error, n) ==
  IF ~isTransientError(error) THEN "ErrNonRetriable"
  ELSE IF n >= MaxRetries THEN "ErrAttemptsExceededLimit" ELSE "none"

\* The operations of the hierarchy and InsertObservationBatch retry.
Retries(j) == j.op \in {"BuildHierarchy", "InsertObservationBatch"}

Fail(j, error) ==
  /\ pos' = [pos EXCEPT ![j] = "failed"]
  /\ outcome' = [outcome EXCEPT ![j] = error]
  /\ UNCHANGED attempt

Retry_fromStart(j) ==
  /\ attempt' = [attempt EXCEPT ![j] = @ + 1]
  /\ pos' = [pos EXCEPT ![j] = FirstStatement(j)]
  /\ UNCHANGED outcome

\* The operation calls itself.
Retry(j) ==
  /\ attempt' = [attempt EXCEPT ![j] = @ + 1]
  /\ UNCHANGED <<pos, outcome>>

\* InsertObservationBatch returns the statement's error, not the final one.
HandleError(j, error) ==
  LET final == checkAttempts(error, attempt[j])
  IN  \/ ~Retries(j) /\ Fail(j, "error")
      \/ Retries(j) /\ final = "none" /\ Retry(j)
      \/ /\ Retries(j) /\ final # "none"
         /\ Fail(j, IF j.op = "BuildHierarchy" THEN final ELSE "error")

------------------------------------------------------------------------------
Init ==
  /\ graph = EmptyGraph
  /\ \E W \in Workloads : pos = [j \in Jobs |-> IF j \in W THEN "waiting" ELSE "absent"]
  /\ attempt = [j \in Jobs |-> 1]
  /\ outcome = [j \in Jobs |-> "none"]
  /\ executed = [j \in Jobs |-> 0]
  /\ cache = {} /\ unconstrained = {}
  /\ ids = [o \in Options |-> 0]
  /\ built = FALSE
  /\ redelivered = 0 /\ lost = 0

\* A message arrives, for the first time or again.  A hierarchy is built when
\* all dimensions have been inserted, and by one service at a time.
Deliver(j) ==
  /\ \/ pos[j] = "waiting" /\ UNCHANGED redelivered
     \/ Ended(j) /\ redelivered < MaxRedeliveries /\ redelivered' = redelivered + 1
  /\ j.op = "BuildHierarchy" =>
       \A k \in Jobs : k.op = "InsertDimension" => pos[k] \in {"absent", "done"}
  /\ pos' = [pos EXCEPT ![j] = FirstStatement(j)]
  /\ attempt' = [attempt EXCEPT ![j] = 1]
  /\ outcome' = [outcome EXCEPT ![j] = IF FirstStatement(j) = "failed" THEN "error" ELSE "none"]
  /\ executed' = [executed EXCEPT ![j] = 0]
  /\ UNCHANGED <<graph, cache, unconstrained, ids, built, lost>>

CacheDimension_exists(j) ==
  /\ pos[j] = "cacheDimension"
  /\ pos' = [pos EXCEPT ![j] = "insertDimension"]
  /\ cache' = cache \cup {Dimension[Option(j)]}
  /\ UNCHANGED <<graph, attempt, outcome, executed, unconstrained, ids, built, redelivered, lost>>

\* Only the call that adds the label creates the constraint; the others go on.
CacheDimension(j) ==
  /\ pos[j] = "cacheDimension"
  /\ pos' = [pos EXCEPT ![j] = IF Dimension[Option(j)] \in cache
                               THEN "insertDimension" ELSE "createUniqueConstraint"]
  /\ cache' = cache \cup {Dimension[Option(j)]}
  /\ UNCHANGED <<graph, attempt, outcome, executed, unconstrained, ids, built, redelivered, lost>>

Missing_ignored(j) == FALSE

Missing(j) == \E r \in Range(j.arg) : \E o \in OptionsOf[r] : ids[o] = 0

CreateParams_waits(j) ==
  /\ pos[j] = "createParams" /\ ~Missing(j)
  /\ pos' = [pos EXCEPT ![j] = "insertObservations"]
  /\ UNCHANGED <<graph, attempt, outcome, executed, cache, unconstrained, ids, built, redelivered, lost>>

\* Without the ID of an option of any row there is no statement.
CreateParams(j) ==
  /\ pos[j] = "createParams"
  /\ IF Missing(j) THEN Fail(j, "error")
     ELSE pos' = [pos EXCEPT ![j] = "insertObservations"] /\ UNCHANGED <<attempt, outcome>>
  /\ UNCHANGED <<graph, executed, cache, unconstrained, ids, built, redelivered, lost>>

\* The ID of the (first) node that is created becomes known.
KnownIDs(j, p) ==
  IF pos[j] = "insertDimension" /\ p = "done"
  THEN LET o == Option(j)
       IN  { [ids EXCEPT ![o] = n[2]] : n \in NewOptions(graph, o) }
  ELSE {ids}

\* The statement is executed and answered.
Answer(j) ==
  /\ Sent(j) /\ ~Breaks(Executed(j))
  /\ graph' = Executed(j)
  /\ \E p \in After(j) :
       /\ pos' = [pos EXCEPT ![j] = p]
       /\ outcome' = [outcome EXCEPT ![j] = IF p = "failed" THEN "error" ELSE "none"]
       /\ executed' = [executed EXCEPT ![j] = IF p \in {"done", "failed"} THEN @ + 1 ELSE 0]
       /\ ids' \in KnownIDs(j, p)
       /\ built' = (built \/ (j.op = "BuildHierarchy" /\ p = "done"))
  /\ attempt' = [attempt EXCEPT ![j] = 1]
  /\ UNCHANGED <<cache, unconstrained, redelivered, lost>>

\* The dimension stays in the cache when its constraint could not be created.
NoteConstraint(j) ==
  unconstrained' = IF pos[j] = "createUniqueConstraint"
                   THEN unconstrained \cup {Dimension[Option(j)]} ELSE unconstrained

\* The statement would break a constraint: Neo.ClientError.
Refuse(j) ==
  /\ Sent(j) /\ Breaks(Executed(j))
  /\ HandleError(j, "Neo.ClientError")
  /\ NoteConstraint(j)
  /\ UNCHANGED <<graph, executed, cache, ids, built, redelivered, lost>>

\* The statement fails for a while, as it does in a deadlock: rolled back.
Disturb(j) ==
  /\ Sent(j)
  /\ HandleError(j, "Neo.TransientError")
  /\ NoteConstraint(j)
  /\ UNCHANGED <<graph, executed, cache, ids, built, redelivered, lost>>

\* The connection is lost, after the execution or before it.
Lose(j) ==
  /\ Sent(j) /\ lost < MaxLosses
  /\ \/ graph' = graph /\ UNCHANGED executed
     \/ /\ ~Breaks(Executed(j))
        /\ graph' = Executed(j)
        /\ executed' = [executed EXCEPT ![j] = @ + 1]
  /\ HandleError(j, "connection")
  /\ NoteConstraint(j)
  /\ lost' = lost + 1
  /\ UNCHANGED <<cache, ids, built, redelivered>>

\* Between messages the services wait.
Idle == NothingUnderWay /\ UNCHANGED vars

Step(j) == CacheDimension(j) \/ CreateParams(j) \/ Answer(j) \/ Refuse(j) \/ Disturb(j) \/ Lose(j)

Next == (\E j \in Jobs : Deliver(j) \/ Step(j)) \/ Idle

Spec == Init /\ [][Next]_vars

\* A call that has begun goes on.
FairSpec == Spec /\ \A j \in Jobs : WF_vars(Step(j))
------------------------------------------------------------------------------
Positions ==
  { "absent", "waiting", "done", "failed", "createInstance", "createInstanceConstraint",
    "cacheDimension", "createUniqueConstraint", "insertDimension", "createCodeRelationship",
    "setProperties", "createParams", "insertObservations", "createHierarchyConstraint",
    "cloneNodes", "cloneRelationships", "setHasData", "markNodesToRemain",
    "removeNodesNotMarkedToRemain", "removeRemainMarker", "setNumberOfChildren" }

\* No relationship is left of a node that has been deleted.
Linked(g) ==
  /\ \A l \in g.isValueOf : l[1] \in g.observations /\ l[2] \in g.options
  /\ g.hasParent \subseteq g.nodes \X g.nodes
  /\ g.hasData \subseteq g.nodes /\ g.remain \subseteq g.nodes

Constrained(g) ==
  /\ g.constraints \subseteq {"observation", "hierarchy"} \cup DOMAIN LowerCase
  /\ \A c \in g.constraints : Unique(g, c)

\* The variables keep their types, every constraint holds of the graph, no
\* relationship is left of a node that has been deleted, and the node IDs the
\* services know are those of the options they know them for.
TypeOK ==
  /\ Linked(graph) /\ Constrained(graph)
  /\ pos \in [Jobs -> Positions]
  /\ attempt \in [Jobs -> 1..MaxRetries]
  /\ outcome \in [Jobs -> {"none", "error", "ErrNonRetriable", "ErrAttemptsExceededLimit"}]
  /\ executed \in [Jobs -> 0..1]
  /\ cache \subseteq DOMAIN LowerCase /\ unconstrained \subseteq cache
  /\ ids \in [Options -> {0} \cup { n[2] : n \in graph.options }]
  /\ \A o \in Options : ids[o] = 0 \/ \E n \in graph.options : n[1] = o /\ n[2] = ids[o]
  /\ built \in BOOLEAN
  /\ redelivered \in 0..MaxRedeliveries /\ lost \in 0..MaxLosses

\* The last statement of a call that ends well was executed once, however often
\* it was sent; ErrAttemptsExceededLimit says that it was not executed at all.
ReportIsExact ==
  \A j \in Jobs :
    /\ executed[j] <= 1
    /\ pos[j] = "done" => executed[j] = 1 /\ outcome[j] = "none"
    /\ outcome[j] = "ErrAttemptsExceededLimit" => executed[j] = 0

Inserting(op) == { j \in Jobs : j.op = op }

\* However the services that insert options of one dimension interleave: when
\* they have ended, an option that one of them reports as inserted is there
\* once, unless the dimension's constraint could not be created.
DimensionsAreExact ==
  \A j \in Inserting("InsertDimension") :
    LET same == { k \in Inserting("InsertDimension") : Dimension[Option(k)] = Dimension[Option(j)] }
    IN  /\ pos[j] = "done"
        /\ \A k \in same : Ended(k) \/ pos[k] \in {"absent", "waiting"}
        /\ Dimension[Option(j)] \notin unconstrained
        => Cardinality({ n \in graph.options : n[1] = Option(j) }) = 1

Batches         == Inserting("InsertObservationBatch")
HasLowerCase(r) == \A o \in OptionsOf[r] : LowerCase[Dimension[o]] = Dimension[o]

\* Row r has the dimensions of the first row of j.
LikeFirst(j, r) == Names(r) = Names(j.arg[1])

\* Every observation is linked to one node of each of its options and to
\* nothing else; a batch that is reported as inserted is there as a whole,
\* if the dimensions have lower-case names; and under the instance's constraint
\* the number of observations is the number of rows.  What holds of a row whose
\* dimensions are not those of its batch's first row is less: it is linked to
\* no option twice, and to none but its own.
ObservationsAreExact ==
  /\ \A v \in graph.observations :
       LET links    == { l[2] : l \in { m \in graph.isValueOf : m[1] = v } }
           linkedTo == { n[1] : n \in links }
       IN  /\ linkedTo \subseteq OptionsOf[v[1]] /\ Cardinality(links) = Cardinality(linkedTo)
           /\ (\A j \in Batches : pos[j] # "absent" /\ v[1] \in Range(j.arg) => LikeFirst(j, v[1]))
              => linkedTo = OptionsOf[v[1]]
  /\ \A j \in Batches : pos[j] = "done" =>
       \A r \in Range(j.arg) :
         HasLowerCase(r) /\ LikeFirst(j, r) => \E v \in graph.observations : v[1] = r
  /\ (\E j \in Inserting("CreateInstanceConstraint") : pos[j] = "done") =>
       CountInsertedObservations(graph) = Cardinality({ v[1] : v \in graph.observations })

\* The codes the build of the hierarchy has data for: those of all options.
DataCodes ==
  { Option(j) : j \in { k \in Inserting("InsertDimension") :
                          pos[k] # "absent" /\ Dimension[Option(k)] = Hierarchical } }

\* The hierarchy as the driver's reads show it, once a build has ended well.
View ==
  LET answers == { a \in {GetHierarchyRoot(graph)} \cup { GetHierarchyElement(graph, n) : n \in Nodes } :
                     a.status = "ok" }
      read    == { a.element.id : a \in answers }
      of(n)   == CHOOSE a \in answers : a.element.id = n
  IN  IF ~built THEN [state |-> "absent"]
      ELSE IF ~(HierarchyExists(graph) /\ CountNodes(graph) = Cardinality(read))
      THEN [state |-> "unreadable"]
      ELSE [ state    |-> "ready",
             nodes    |-> read,
             edges    |-> UNION { { <<c.id, a.element.id>> : c \in a.children } : a \in answers },
             hasData  |-> { n \in read : of(n).element.hasData },
             children |-> [n \in read |-> of(n).element.noOfChildren],
             ordered  |-> {} ]

\* However the builds of an instance's hierarchy are disturbed, fail or are
\* repeated: what the driver's reads show appears once, as the abstract
\* hierarchy says, and then never changes.
Abstract ==
  INSTANCE InstanceHierarchy
    WITH Instances <- {"instance"}, Ordered <- {}, Sorted <- {},
         data <- [i \in {"instance"} |-> DataCodes],
         hierarchy <- [i \in {"instance"} |-> View]

ImplementsInstanceHierarchy == Abstract!Spec

\* The steps that may still follow for a call at position p, its next one
\* included.
StepsAfter(p) ==
  CASE p = "createHierarchyConstraint"    -> 8
    [] p = "cloneNodes"                   -> 7
    [] p = "cloneRelationships"           -> 6
    [] p = "setHasData"                   -> 5
    [] p = "markNodesToRemain"            -> 4
    [] p \in {"removeNodesNotMarkedToRemain", "cacheDimension"}                  -> 3
    [] p \in {"removeRemainMarker", "createUniqueConstraint", "createParams"}    -> 2
    [] p \in {"absent", "waiting", "done", "failed"}                             -> 0
    [] OTHER                                                                    -> 1

\* How often the call for job j may still send a statement.
StepsLeft(j) ==
  IF StepsAfter(pos[j]) = 0 THEN 0
  ELSE (StepsAfter(pos[j]) - 1) * MaxRetries + (MaxRetries + 1 - attempt[j])

\* Every step of a call brings its end nearer, however its statements are
\* disturbed and whatever the other calls do meanwhile: a call sends at most
\* 8 * MaxRetries statements.
EveryStepCounts ==
  [][\E j \in Jobs :
       /\ \A k \in Jobs \ {j} : StepsLeft(k)' = StepsLeft(k)
       /\ \/ StepsLeft(j) = 0 /\ StepsLeft(j)' \in 0..(8 * MaxRetries)
          \/ StepsLeft(j)' \in 0..(StepsLeft(j) - 1)]_vars

\* Every call ends, however often a statement is disturbed: the deliveries
\* being bounded, again and again nothing is under way.
CallsEnd == []<>NothingUnderWay
==============================================================================
