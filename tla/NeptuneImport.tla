----------------------------- MODULE NeptuneImport -----------------------------
(***************************************************************************)
(* Importing one instance into Neptune: the operations of                  *)
(* neptune/instance.go, dimension.go and observation.go, each a sequence   *)
(* of statements, called by the import services for the messages (jobs)    *)
(* they receive.  A job may be delivered again; a statement whose answer   *)
(* is lost is sent again by the retry loop, whether the database executed  *)
(* it, never will, or executes it late, after others have been sent; a     *)
(* vertex whose ID exists is refused, and that too is taken for transient  *)
(* (isTransientError).                                                     *)
(***************************************************************************)
EXTENDS ObservationQuery, Functions

CONSTANTS Jobs,           \* [op, arg, copy]: an operation, what it is for, which caller
          Options,        \* dimension options, by the ID of their vertex
          Dimension,      \* the dimension of each option
          OptionsOf,      \* the options of each observation
          LowerCase,      \* the ID with the dimension's name in lower case
          Codes,          \* the codes of the code lists
          Instance,       \* the ID of the instance's vertex
          MaxAttempts,    \* retries of a statement
          MaxRedeliveries,\* bound: how often jobs are delivered again
          MaxLosses,      \* bound: how many answers are lost
          Unreliable,     \* positions at which answers may be lost
          Late,           \* those whose statements may then be executed late
          LateDeliveries, \* may a job be delivered again in a later stage?
          Filters         \* the filters rows are read with

ASSUME ImportAssumption ==
  /\ MaxAttempts \in Nat \ {0} /\ {MaxRedeliveries, MaxLosses} \subseteq Nat
  /\ DOMAIN Dimension = Options /\ LowerCase \in [Options -> Options]
  /\ LateDeliveries \in BOOLEAN /\ Unreliable \cap {"waiting", "done", "failed"} = {} /\ Late \subseteq Unreliable
  /\ \A j \in Jobs :
       /\ j.op = "InsertDimension" => j.arg[1] \in Options
       /\ j.op = "InsertObservationBatch" => j.arg \in Seq(DOMAIN OptionsOf)

VARIABLES graph,
          pos,         \* the statement each job is at
          tries,       \* attempts left for it
          redelivered, \* how often jobs have been delivered again
          lost,        \* how many answers have been lost
          late,        \* statements [nth, at, job, seen] given up and still to be executed
          found,       \* the observations a job found to exist already
          cache        \* uniqueDimensions

vars == <<graph, pos, tries, redelivered, lost, late, found, cache>>

Option(j) == j.arg[1]
Ended(j)  == pos[j] \in {"done", "failed"}

\* The import pipeline: instance, dimensions and codes, observations, the rest.
Stage(j) ==
  CASE j.op = "CreateInstance" -> 1
    [] j.op \in {"InsertDimension", "CreateCodeRelationship", "AddDimensions"} -> 2
    [] j.op = "InsertObservationBatch" -> 3
    [] OTHER -> 4

FirstStatement(j) ==
  CASE j.op = "CreateInstance"         -> "checkInstance"
    [] j.op = "InsertDimension"        -> "getDimension"
    [] j.op = "CreateCodeRelationship" -> "getCode"
    [] j.op = "InsertObservationBatch" -> IF j.arg = <<>> THEN "done" ELSE "getObservations"
    [] OTHER                           -> "setProperties"

------------------------------------------------------------------------------
(* Statements.                                                             *)

InstanceExists == Instance \in graph.vertices

\* AddVersionDetailsToInstance, SetInstanceIsPublished, AddDimensions: without
\* the instance nothing happens, and nothing is reported.
SetProperties(g, op) ==
  IF Instance \in g.vertices THEN [g EXCEPT !.properties = @ \cup {op}] ELSE g

DropDimension(g, o) == DropVertices(g, {o})

\* V(instance).V(dimension).addE: nothing happens unless both exist.
CreateDimensionToInstanceRelationship(g, o) ==
  IF {o, Instance} \subseteq g.vertices THEN AddEdges(g, {<<o, Instance>>}) ELSE g

\* createDimensionId, for all observations of the batch.
dimIDs(batch) == { LowerCase[o] : o \in UNION { OptionsOf[b] : b \in Range(batch) } }

\* One traversal: it ends without an error at the first vertex that is
\* missing, be it a dimension (before any edge) or an observation.
addObservationEdges(g, batch) ==
  LET reached == { i \in DOMAIN batch : \A k \in 1..i : batch[k] \in g.vertices }
  IN  IF dimIDs(batch) \subseteq g.vertices
      THEN AddEdges(g, UNION { { <<batch[i], LowerCase[o]>> : o \in OptionsOf[batch[i]] } : i \in reached })
      ELSE g

\* The vertices that job j creates at position p.
Created(p, j) ==
  CASE p = "createInstance"      -> {Instance}
    [] p = "createDimension"     -> {Option(j)}
    [] p = "addObservationNodes" -> Range(j.arg)
    [] OTHER                     -> {}

\* None of them may exist, and none be created twice: a batch that has a row
\* twice is refused as a whole.
Refused(p, j) ==
  \/ Created(p, j) \cap graph.vertices # {}
  \/ p = "addObservationNodes" /\ ~IsInjective(j.arg)

\* What is executed names the observations that the job had seen when it was sent.
Executed(p, j, seen) ==
  CASE p = "dropDimension"       -> DropDimension(graph, Option(j))
    [] p = "createDimensionEdge" -> CreateDimensionToInstanceRelationship(graph, Option(j))
    [] p = "dropObservations"    -> DropVertices(graph, seen)
    [] p = "addObservationEdges" -> addObservationEdges(graph, j.arg)
    [] p = "createCodeEdge"      ->
         IF InstanceExists THEN AddEdges(graph, {<<Option(j), Instance>>}) ELSE graph
    [] p = "setProperties"       -> SetProperties(graph, j.op)
    [] OTHER                     -> AddVertices(graph, Created(p, j))

------------------------------------------------------------------------------
(* What each operation does after a statement has been answered.           *)

AfterCreateInstance(j) ==
  CASE pos[j] = "checkInstance" -> IF InstanceExists THEN "done" ELSE "createInstance"
    [] OTHER                    -> "done"

AfterInsertDimension(j) ==
  CASE pos[j] = "getDimension"    -> IF Option(j) \in graph.vertices
                                     THEN "dropDimension" ELSE "createDimension"
    [] pos[j] = "dropDimension"   -> "createDimension"
    [] pos[j] = "createDimension" -> "createDimensionEdge"
    [] OTHER                      -> "done"

AfterCreateCodeRelationship(j) ==
  CASE pos[j] = "getCode" -> IF Option(j) \in Codes THEN "createCodeEdge" ELSE "failed"
    [] OTHER              -> "done"

AfterInsertObservationBatch_notRemoved(j) ==
  CASE pos[j] = "getObservations"     -> IF Range(j.arg) \cap graph.vertices = {}
                                         THEN "addObservationNodes" ELSE "addObservationEdges"
    [] pos[j] = "addObservationNodes" -> "addObservationEdges"
    [] OTHER                          -> "done"

AfterInsertObservationBatch_checksAgain(j) ==
  CASE pos[j] = "getObservations"     -> IF Range(j.arg) \cap graph.vertices = {}
                                         THEN "addObservationNodes" ELSE "getObservationsEdges"
    [] pos[j] = "getObservationsEdges" -> "dropObservations"
    [] pos[j] = "dropObservations"    -> "getObservations"
    [] pos[j] = "addObservationNodes" -> "addObservationEdges"
    [] OTHER                          -> "done"

AfterInsertObservationBatch(j) ==
  CASE pos[j] = "getObservations"     -> IF Range(j.arg) \cap graph.vertices = {}
                                         THEN "addObservationNodes" ELSE "getObservationsEdges"
    [] pos[j] = "getObservationsEdges" -> "dropObservations"
    [] pos[j] = "dropObservations"    -> "addObservationNodes"
    [] pos[j] = "addObservationNodes" -> "addObservationEdges"
    [] OTHER                          -> "done"

After(j) ==
  CASE j.op = "CreateInstance"         -> AfterCreateInstance(j)
    [] j.op = "InsertDimension"        -> AfterInsertDimension(j)
    [] j.op = "CreateCodeRelationship" -> AfterCreateCodeRelationship(j)
    [] j.op = "InsertObservationBatch" -> AfterInsertObservationBatch(j)
    [] OTHER                           -> "done"

------------------------------------------------------------------------------
Init ==
  /\ graph = EmptyGraph
  /\ pos = [j \in Jobs |-> "waiting"]
  /\ tries = [j \in Jobs |-> MaxAttempts]
  /\ redelivered = 0 /\ lost = 0 /\ late = {}
  /\ found = [j \in Jobs |-> {}]
  /\ cache = {}

\* A message arrives, for the first time or again.
Deliver(j) ==
  /\ \/ pos[j] = "waiting" /\ UNCHANGED redelivered
     \/ Ended(j) /\ redelivered < MaxRedeliveries /\ redelivered' = redelivered + 1
  /\ \A k \in Jobs : Stage(k) < Stage(j) => pos[k] = "done"
  /\ LateDeliveries \/ \A k \in Jobs : Stage(k) > Stage(j) => pos[k] = "waiting"
  /\ pos' = [pos EXCEPT ![j] = FirstStatement(j)]
  /\ tries' = [tries EXCEPT ![j] = MaxAttempts]
  /\ UNCHANGED <<graph, lost, late, found, cache>>

\* The statement is executed and answered, and the operation goes on.
Answer(j) ==
  /\ pos[j] # "waiting" /\ ~Ended(j)
  /\ ~Refused(pos[j], j)
  /\ graph' = Executed(pos[j], j, found[j])
  /\ pos' = [pos EXCEPT ![j] = After(j)]
  /\ tries' = [tries EXCEPT ![j] = MaxAttempts]
  /\ found' = CASE pos[j] = "getObservations"  -> [found EXCEPT ![j] = Range(j.arg) \cap graph.vertices]
                [] pos[j] = "dropObservations" -> [found EXCEPT ![j] = {}]
                [] OTHER                       -> found
  /\ cache' = IF pos[j] = "createDimensionEdge" THEN cache \cup {Dimension[Option(j)]} ELSE cache
  /\ UNCHANGED <<redelivered, lost, late>>

Retry_forEver(j) == UNCHANGED <<tries, pos, redelivered, found, cache>>

\* retry.Do (module Retry), as far as the graph can tell.
Retry(j) ==
  /\ IF tries[j] > 1
     THEN tries' = [tries EXCEPT ![j] = @ - 1] /\ UNCHANGED pos
     ELSE pos' = [pos EXCEPT ![j] = "failed"] /\ UNCHANGED tries
  /\ UNCHANGED <<redelivered, found, cache>>

\* The database refuses the statement, and it is sent again all the same.
Refuse(j) ==
  /\ pos[j] # "waiting" /\ ~Ended(j)
  /\ Refused(pos[j], j)
  /\ Retry(j)
  /\ UNCHANGED <<graph, lost, late>>

\* The answer is lost: the statement is executed, or it is not, or not yet.
Lose(j) ==
  /\ pos[j] \in Unreliable
  /\ lost < MaxLosses /\ lost' = lost + 1
  /\ \/ ~Refused(pos[j], j) /\ graph' = Executed(pos[j], j, found[j]) /\ UNCHANGED late
     \/ UNCHANGED <<graph, late>>
     \/ /\ pos[j] \in Late
        /\ late' = late \cup {[nth |-> lost', at |-> pos[j], job |-> j, seen |-> found[j]]}
        /\ UNCHANGED graph
  /\ Retry(j)

\* A statement nobody waits for any more is executed, if it is not refused.
ExecuteLate(s) ==
  /\ late' = late \ {s}
  /\ graph' = IF Refused(s.at, s.job) THEN graph ELSE Executed(s.at, s.job, s.seen)
  /\ UNCHANGED <<pos, tries, redelivered, lost, found, cache>>

\* Between messages the services wait.
NothingUnderWay == \A j \in Jobs : pos[j] = "waiting" \/ Ended(j)

Idle == NothingUnderWay /\ UNCHANGED vars

Next ==
  \/ \E j \in Jobs : Deliver(j) \/ Answer(j) \/ Refuse(j) \/ Lose(j)
  \/ \E s \in late : ExecuteLate(s)
  \/ Idle

Spec == Init /\ [][Next]_vars

\* A job that has begun goes on.
FairSpec == Spec /\ \A j \in Jobs : WF_vars(Answer(j) \/ Refuse(j) \/ Lose(j))
------------------------------------------------------------------------------
Observations == DOMAIN OptionsOf

Positions ==
  { "waiting", "done", "failed", "checkInstance", "createInstance", "getDimension", "dropDimension",
    "createDimension", "createDimensionEdge", "getCode", "createCodeEdge", "setProperties",
    "getObservations", "getObservationsEdges", "dropObservations", "addObservationNodes",
    "addObservationEdges" }

GraphOK(g) ==
  /\ DOMAIN g = {"vertices", "edges", "properties"}
  /\ g.vertices \subseteq {Instance} \cup Options \cup Observations
  /\ \A e \in g.edges : e[1] \in g.vertices \cup Codes /\ e[2] \in g.vertices

\* The variables keep their types, and no edge is left of a vertex that has
\* been dropped.
TypeOK ==
  /\ GraphOK(graph)
  /\ pos \in [Jobs -> Positions]
  /\ tries \in [Jobs -> 1..MaxAttempts]
  /\ redelivered \in 0..MaxRedeliveries /\ lost \in 0..MaxLosses
  /\ late \subseteq [nth : 1..MaxLosses, at : Late, job : Jobs, seen : SUBSET Observations]
  /\ found \in [Jobs -> SUBSET Observations]
  /\ cache \subseteq { Dimension[o] : o \in Options }

Inserting(op) == { j \in Jobs : j.op = op }

\* When all jobs have succeeded, however often they were delivered, retried or
\* failed before, the graph is exactly the import: every vertex, every
\* observation linked once to each of its options, every option to the instance.
ImportIsExact ==
  (\A j \in Jobs : pos[j] = "done") =>
    LET dims == { Option(j) : j \in Inserting("InsertDimension") }
        obs  == UNION { Range(j.arg) : j \in Inserting("InsertObservationBatch") }
    IN  /\ graph.vertices = {Instance} \cup dims \cup obs
        /\ \A o \in obs, d \in dims :
             Cardinality(Between(graph, o, {d})) = (IF d \in OptionsOf[o] THEN 1 ELSE 0)
        /\ \A d \in dims : Between(graph, d, {Instance}) # {}
        /\ \A j \in Inserting("CreateCodeRelationship") : Between(graph, Option(j), {Instance}) # {}
        /\ \A j \in Jobs : Stage(j) = 4 => j.op \in graph.properties
        /\ cache = { Dimension[d] : d \in dims }

Selects(filter, o) == \A i \in DOMAIN filter : filter[i] # {} => filter[i] \cap OptionsOf[o] # {}

\* As soon as a batch has been inserted, StreamCSVRows returns each of its
\* observations once for the filters that select it and never for the others,
\* whatever is being imported at the time.
FilteredRowsAreExact ==
  \A j \in Inserting("InsertObservationBatch") : pos[j] = "done" =>
    \A o \in Range(j.arg), f \in Filters :
      LET q == buildObservationsQuery(f)
      IN  IsQuery(q) => Rows(graph, q, o) = (IF Selects(f, o) THEN 1 ELSE 0)

\* "Where nodes and relationships already exist, ensure they are upserted"
\* (dimension.go:19): inserting a dimension again costs no observation its
\* link to it.
RelationshipsAreUpserted ==
  \A j \in Inserting("InsertObservationBatch"), k \in Inserting("InsertDimension") :
    pos[j] = "done" /\ pos[k] = "done" =>
      \A o \in Range(j.arg) :
        Option(k) \in OptionsOf[o] => Between(graph, o, {Option(k)}) # {}

\* The statements a call at position p may still have to send, that one included.
StatementsLeft(p) ==
  CASE p = "getObservations"                          -> 5
    [] p \in {"getDimension", "getObservationsEdges"}  -> 4
    [] p \in {"dropDimension", "dropObservations"}     -> 3
    [] p \in {"checkInstance", "createDimension", "getCode", "addObservationNodes"} -> 2
    [] p \in {"waiting", "done", "failed"}             -> 0
    [] OTHER                                          -> 1

\* The requests the call for job j may still send.
RequestsLeft(j) ==
  IF StatementsLeft(pos[j]) = 0 THEN 0
  ELSE (StatementsLeft(pos[j]) - 1) * MaxAttempts + tries[j]

\* Every request of a call brings its end nearer, answered, refused or lost,
\* whatever the other calls and late statements do to the graph in between: a
\* call sends at most 5 * MaxAttempts of them.
EveryRequestCounts ==
  [][\/ \E j \in Jobs :
          /\ \A k \in Jobs \ {j} : RequestsLeft(k)' = RequestsLeft(k)
          /\ \/ RequestsLeft(j) = 0 /\ RequestsLeft(j)' \in 0..(5 * MaxAttempts)
             \/ RequestsLeft(j)' \in 0..(RequestsLeft(j) - 1)
     \/ /\ late' \subseteq late /\ late' # late
        /\ \A k \in Jobs : RequestsLeft(k)' = RequestsLeft(k)]_vars

\* Every call ends, whatever is refused or lost on the way: the deliveries
\* being bounded, again and again nothing is under way.
CallsEnd == []<>NothingUnderWay
==============================================================================
