# TLA+ models of dp-graph

dp-graph is the Go library through which the ONS data services use a graph
database (AWS Neptune or neo4j). This directory holds TLA+ models of the parts
of it that carry logic of their own, TLC configurations and TLAPS proofs.

## Inventory of the system

| part | state it keeps | operations | what is hard about it |
|---|---|---|---|
| `neptune/utils.go` concurrent batches | semaphore, wait group, error and wait channels, shared result map | `processInConcurrentBatches`, `processInBatches` | goroutines, an unbuffered error channel, a caller that is producer and consumer |
| `retry/retry.go` | attempt counter, context | `Do`, `sleep`, `getSleepTime` | cancellation against the back-off timer, exhausted attempts |
| `neptune/neptune.go` query layer | driver pool, limits | `getVertices`, `getStringList`, `getVertex`, `getEdges`, `exec`, `getNumber`, `attemptNeptuneRequest` | a lost answer is retried although the statement was executed |
| `neptune/hierarchy.go`, `mapper.go` | the instance hierarchy in the graph | clone, relate, count, mark, remove; reads | two algorithms that must agree, batches, partial failure, statements that are not idempotent |
| `neptune/instance.go`, `dimension.go`, `observation.go` | instance, dimension and observation vertices and edges, dimension cache | create, insert, remove, stream | delete-then-create, lost answers, missing dimension vertices |
| `neptune/codelist.go`, `codelistsdataset.go` | none | code list queries and their aggregation | flat result lists cut into records, two statements that must agree, rows in any order |
| `neo4j/` | driver pool, dimension cache | the same interface on Cypher, recursion for retries | constraint cache filled before the constraint exists, retry limits |
| `graph/error_consumer.go` | two channels, a goroutine | `NewErrorConsumer`, `Close` | concurrent and repeated `Close`, a busy error channel |
| `graph/graph.go`, `config/config.go` | process-wide configuration | `New`, `Get` | a half-initialised global after a failure, one error channel per call |
| `observation/` | stream position, byte and row counters | `Reader.Read`, `CompositeRowReader.Read`, `Close`, filter | end of stream at a boundary, errors in the middle of composite streams |
| `mock/` | fault switches | the driver interface, answering from the switches | none |
| `models/`, `graph/driver` | none | validation, error values | none |

Calls go from an application through `graph.DB` (an interface over the drivers)
to the neptune or neo4j package, from there through the retry loop to a pool
(gremgo-neptune or golang-neo4j-bolt-driver) and the database. The neptune pool
reports connection errors on a channel that `graph.New` hands back and
`ErrorConsumer` drains. Hierarchies are built by another program,
dp-hierarchy-builder, which calls the operations of `hierarchy.go` in order.

### What makes each part correct

* Concurrent batches: no error and no result is lost or made up, every item is
  processed once, at most `maxWorkers` batches at a time, no goroutine outlives
  the call, the call returns.
* Retry loop: a reported success is that of the last call, a refusal is not
  retried, a cancellation stops it after at most one call, it ends.
* Query layer: exactly one vertex where one is expected, the retry loop's
  classification of errors.
* Instance hierarchies: one vertex for each code with data and each ancestor of
  one, the edges between them, true counts; both ways of building agree;
  nothing half-built is read as if it were whole.
* Import: each observation once, linked once to each of its options; a
  repeated message changes nothing; filtered rows are those the filter selects.
* Code lists: an answer is that of some moment of the call, every code with its
  own label and order, and ErrNotFound only where something was not found.
* neo4j: no option and no observation twice, retries limited, constraints in
  force before the first insertion.
* Error consumer: every error received until `Close`, `Close` waits, any number
  of `Close` calls is safe.
* Configuration and connections: a `DB` without error is complete; its error
  channel is the one the pool writes to.
* Row readers: the bytes read are the rows in order, each once; everything is
  closed.

## Modules

| module | models | role |
|---|---|---|
| `BatchProcessing` | a batched call as its user sees it | abstract specification |
| `ConcurrentBatches` | `neptune/utils.go` | implements `BatchProcessing` |
| `AtLeastOnce` | a statement that may be sent again | abstract specification |
| `Retry` | `retry/retry.go` below `neptune/neptune.go` | implements `AtLeastOnce` |
| `ErrorConsumer` | `graph/error_consumer.go` | component |
| `InstanceHierarchy` | the `Hierarchy` interface of `graph/driver/driver.go` | abstract specification |
| `HierarchyGraph` | the statements of `neptune/query/query.go` on hierarchies, `neptune/mapper.go` | operators |
| `HierarchyBuilder` | `neptune/hierarchy.go`, several builders and a reader on one graph | implements `InstanceHierarchy` |
| `ObservationQuery` | graph of an import, the filter query | operators |
| `NeptuneImport` | `neptune/instance.go`, `dimension.go`, `observation.go` | component |
| `NeoGraph` | the Cypher statements of `neo4j/` on the nodes of one instance, `neo4j/mapper` | operators |
| `NeoStore` | `neo4j/instance.go`, `dimension.go`, `observation.go`, `hierarchy_writer.go`, `neo4j.go` | component; implements `InstanceHierarchy` |
| `CodeLists` | code list queries of both drivers and what they make of the rows | operators |
| `RowStreams` | `observation/reader.go`, `composite_row_reader.go`, `neo4jdriver/row_reader.go` | operators |
| `GraphClient` | `graph/graph.go`, `config/config.go`, `neo4jdriver/driver.go`, health checks, and an application that calls `CodeLists` and `RowStreams` | component |
| `ConcurrentBatchesProofs`, `RetryProofs`, `ErrorConsumerProofs`, `HierarchyBuilderProofs`, `NeptuneImportProofs`, `NeoStoreProofs`, `GraphClientProofs` | | proofs about the component of that name |
| `FiniteSetLemmas` | | facts on sets of numbers and finite sets that four of them need |
| `MC...` | | constants for TLC |

The models build on each other by what they promise rather than by INSTANCE:
`HierarchyBuilder` takes from `BatchProcessing` that batches run in any order
and that one failure does not stop the others, and from `AtLeastOnce` that a
statement may be executed more than once or late; `NeptuneImport` takes the
retry loop in the same way. `NeoStore` and `HierarchyBuilder`, two databases
with different statements, implement the same `InstanceHierarchy`.

### Concurrent batches (`BatchProcessing`, `ConcurrentBatches`)

`ConcurrentBatches` models one call of `processInConcurrentBatches`. `main` is
the position of the calling goroutine, `pc` the position of the goroutine of
each chunk, `wg` and `sem` the wait group and the tokens in `chSemaphore`,
`chWaitClosed` whether the waiter has closed `chWait`. A chunk is a set of
items; since chunks are disjoint it stands for its goroutine and its error too.
Each action is one step between two points at which another goroutine can be
seen: `acquire` and `release` are two steps each, because the order of the
semaphore and the wait group matters. `chErr` is unbuffered, so send and
receive are one action of the caller. Map iteration order is arbitrary, so
`Submit` may pick any subset of the remaining items of the right size.
`processBatch` either succeeds or fails; `MaxFailures` bounds how often it
fails and is a bound on the environment, not of the code.

`BatchProcessing` is the call as its user sees it: the errors of the batches
that failed, the union of the results of the others. `ConcurrentBatches`
implements it under the mapping given at its end.

### Retry loop (`AtLeastOnce`, `Retry`)

`pc` is where `Do` is (head of the loop, sleeping, calling, waiting for the
answer), `attempt` its counter; `timer` and `cancelled` are the two channels of
the `select` in `sleep`. Around it is the world: a request is in flight until
the database executes it, and the client may give up on it before; `inFlight`
and `executed` are keyed by attempt. `isTransientError` refuses two messages
and takes everything else for transient, so an error is "refused" or "lost".
`AtLeastOnce` is the promise the callers rely on: a reported success was
executed, a failure says nothing.

The comment on `Do` (retry.go:34) describes the first sleep as `retryTime`;
`getSleepTime` is first called with attempt 2 (retry.go:56) and gives four times
that. No run is spent on it.

### Error consumer (`ErrorConsumer`)

Producers are the pool's goroutines that send on the unbuffered error channel,
closers the application's goroutines in `Close`. The first `select` of `Close`
and `close(c.closing)` are two steps. `Serialised` tells whether the
application makes one `Close` call at a time. A second `Close` returns nil at
once although the goroutine may still run; `FirstCloseWaits` therefore speaks
of the call that closed the channel.

### Instance hierarchies (`InstanceHierarchy`, `HierarchyGraph`, `HierarchyBuilder`)

`HierarchyGraph` has one operator per Gremlin statement. A generic node stands
for its code, a vertex is `<<instance, node, k>>` with k telling clones apart,
an edge is `<<child, parent, k>>`: both can exist twice.

`HierarchyBuilder` runs one builder per instance. `Program[i]` is the order in
which the external dp-hierarchy-builder calls the operations; two programs are
given: `NewProgram`, the ID-based one, and `OldProgram`, the one that clones all
and trims. The trimming program counts children after trimming. The order in which
`graph/driver/driver.go` lists the operations would count before, and the
counts would then be wrong: that order is the caller's obligation, not a
property of this code. `Strays` are codes that have data
but no generic hierarchy node: `GetCodesWithData` returns them with the others,
and `GetGenericHierarchyNodeIDs` finds no node for them, so that they are
dropped without an error. `SetHasData` sends two statements, the codes with data
and then the flags; they are one step, since the data does not change during a
build. A batched operation is in phase "running" with `left`
giving the attempts left for each batch; `Answer`, `Refuse` and `Lose` settle a
batch or send it again, `ExecuteLate` executes a statement the client gave up.

An application reads hierarchies while they are built. `reader` is where it is
in `buildHierarchyNode`: `BeginRead` finds the element, `ReadOrder` counts the
children with an order (none: by name; all: by order; some: the read fails),
`ReadTheChildren`, `ReadBreadcrumbs` and `EndRead` are the statements after it.
Each is its own step, so a builder may move between any two of them.

`InstanceHierarchy` says: the hierarchy of an instance appears in one step, as
the part of the generic hierarchy that has data or lies above data, with its
counts, flags and order, and never changes again; or the build fails. Both
programs implement it.

`Unreliable` is the set of operations whose answers may be lost. `Repeatable`
names those of the programs that do no harm when they are executed twice or
late; the passing run loses the answers of two of them, the orders and the counts.
The clone operations are not among them, since a second execution clones again
(run `hierarchy_clone_retried`), nor are the two trimming operations that mark
and drop vertices.

### Import into Neptune (`ObservationQuery`, `NeptuneImport`)

A job is a message an import service has received, `[op, arg, copy]`; `pos[j]`
is the statement the operation is at, `tries[j]` the attempts left for it.
`After...` says what each operation does next, `Executed` what a statement does
to the graph. `Refuse` is the database refusing a vertex whose ID exists; the
code takes that for transient, retries it and fails in the end. A batch is a
sequence of rows, and one that has a row twice is refused as well, since `addV`
would give two vertices one ID. `Lose` loses an answer: the statement has been
executed, or never will be, or is executed later (`late`, `ExecuteLate`) on what
the graph has become by then, with what the job had seen when it sent it. `Late`
are the positions at which that happens: all but the two drops in the run,
see "Not modelled". `Deliver` delivers a message for the
first time or again; in the main run the stages (instance; dimensions and
codes; observations; the rest) follow each other, as in the pipeline that
calls this library. `LowerCase` is the ID `createDimensionId` makes, which
lower-cases the name of the dimension; the runs assume lower-case names.

`ObservationQuery` builds the filter query from options per dimension and
evaluates it: `in('isValueOf')` of the first dimension, restricted by a count
over the others. `IsQuery` excludes filters whose first dimension is empty while
a later one is not: the query text then has no source step.

### One instance in neo4j (`NeoGraph`, `NeoStore`)

`NeoGraph` has the nodes and relationships of one instance and one operator per
Cypher statement. Nodes have an identity of the database (`Fresh`) besides what
they stand for, so an option or an observation can be there twice; `constraints`
are the unique constraints that exist, and a statement whose result would break
one (`Breaks`) is refused. `MERGE` and `CREATE` are told apart as in the source.
`InsertObservations` takes the names of the dimensions from the first row of the
batch, for all rows, as the statement that the code builds does: a row with
more dimensions is linked only to those that the first row has, and one with
fewer is matched by nothing and left out without an error. Without the constraint, a row that is in its batch twice is there twice.

`NeoStore` has the operations. Again a job is a message; `pos` is the statement
it is at, `attempt` the argument of the recursion, `outcome` the error it
returned. `cache` is the services' map of dimension labels: `CacheDimension`
looks and adds in one step, under its mutex, and only the call that added the
label goes on to create the constraint. `CreateParams` is the lookup of node IDs
before a batch is sent (`ids`). A statement is executed and answered (`Answer`),
refused by a constraint (`Refuse`), fails for a while and is rolled back
(`Disturb`), or loses its connection before or after the execution (`Lose`);
`checkAttempts` decides what the two operations that retry do then, and the
others return the error. `executed`, `unconstrained` and `built` are history.

A hierarchy is built from a generic tree with the marked nodes kept; `View`
maps the nodes and relationships to those of `InstanceHierarchy`.

### Application, stores, code lists and streams (`CodeLists`, `RowStreams`, `GraphClient`)

`GraphClient` is an application with its stores. `New` opens them one after the
other; `cfg` is the package variable of `config.Get`, which a first call that
fails leaves without a driver, and a later call takes as it is. A call takes a
connection from the pool on neo4j (`conns`), and a stream keeps it until it is
closed. Queries that need two statements (`part`) may meet an edited database
in between (`Edit`). Any statement may fail (`Fail`), but one that waits for a
connection fails only when it has got one that is broken (`CanFail`): while the
pool is exhausted `OpenPool` blocks. The four values of the driver setting are
tried: both databases, the mock, and none. On the mock `CountCodes` answers 1,
as it does in `mock/codelists.go`, and the other queries fail.
`responses` is history: in how many responses Neptune has sent the edges that
`GetCodesOrder` asked for. Codes are asked for in a sequence, which may have one
twice.

`CodeLists` computes what each query answers from `db`, including the cutting of
flat lists into records, with the error for a list of the wrong length, the choice of the latest version of each dataset and
the rows of which the neo4j driver keeps only the first. `RowStreams` has the
readers: `CopyBuffer` is `Reader.Read` into an array of any size, `BoltRead` and
`CompositeRead` the two row readers below it.

## Runs

| run | instance | what it shows |
|---|---|---|
| `batches` | 5 items, chunks of 2, 2 workers, 1 failure | throttle, no stray worker, exact answer, every step counts, termination, refinement |
| `batches_deadlock` | 3 items in batches of 1, 2 workers, 2 failures | **violation** of "Block until all workers finish their work" |
| `retry` | 4 attempts, two jitters | truthful report, at most one late call, termination, refinement |
| `error_consumer` | 2 producers, 2 serialised closers | no panic, first close waits, no lost wake-up, errors drained, close returns |
| `error_consumer_double_close` | 1 producer, 2 closers, not serialised | **violation** of "safely return if it is already closed" |
| `hierarchy_from_codes` | a tree of 4 nodes on 3 levels, every set of data codes, a code without a generic node, batches of 2, 2 attempts, one reader | reads are final, finished hierarchies are readable, every step advances a build, builders end, refinement; with refusals, losses and late executions |
| `hierarchies_together` | a chain of 3 nodes, 2 instances, one per program, one reader | types, complete hierarchies, apart from each other, refinement |
| `hierarchy_clone_retried` | 2 nodes, 2 attempts | **violation** of one clone per node |
| `import` | 3 options of 2 dimensions, 3 observations in 2 batches, 2 services, 1 redelivery, 1 lost answer, executed at once, late or never | exact import, exact filtered rows, every request counts, every call ends |
| `import_dimension_again` | a dimension redelivered late | **violation** of "ensure they are upserted" |
| `neo_store` | 14 sets of messages, 5 options of 3 dimensions, 4 rows, a tree of 4 nodes, 2 attempts, 1 redelivery, 1 lost connection | types and constraints, true reports, exact dimensions, exact observations, hierarchies as abstract, every step counts, every call ends |
| `graph_client` | 5 contents of the code lists, 1 edit, a pool of 1, arrays of 2 and 3 bytes, 4 drivers | nothing stays open, exact streams, right answers, every call ends |

The types are proved for every component. Two runs check them as well, where
TypeOK says most: that no edge is left of a dropped vertex, and that the constraints of
neo4j hold.

Why the bounds are enough. Batches: three chunks on two workers is the least
in which a chunk waits for a token, and the last chunk is smaller. Retry: four
attempts give three sleeps. Error consumer: two of each are needed for a race,
and actions concern one producer and one closer. Hierarchy: three levels tell
parents from ancestors, a node with two children has counts above one and
children with and without an order, batches of two on four nodes give two
batches in either order; two instances suffice because the operators relate a
builder to one other, and they are run on the chain for the size of the run.
One reader suffices because reads write nothing. Import: two dimensions are
needed for the additional part of the filter, two options for a filter to
exclude; one redelivery and one loss were chosen for the size of the run, and
more of them only combine the recoveries. neo4j: the sets of messages are those
that meet on the same nodes (three inserts of one dimension, of which two for the
same option; overlapping batches under the constraint of the instance; two
instance nodes; an upper-case dimension; a row twice in its batch; rows with more
or fewer dimensions than the first of their batch; a hierarchy for data in a leaf, in a
branch, in both, in two branches); messages of different sets touch different
nodes. Two attempts are one retry. Client: a pool of one is the least in which a
connection kept for ever is noticed; two responses are the least that are each
short of the codes asked for, and of the lists of codes one has a code twice;
arrays of two and three bytes are smaller
than, equal to and larger than the rows.
`MaxFailures`, `MaxRedeliveries`, `MaxLosses`, `MaxEdits`, `MaxResponses` and `MaxNews` bound
the environment, everything else is a parameter of the code.

## Fairness

Fairness is assumed only of steps of the program. Goroutines that can run do
run (weak fairness): the caller, the workers and the waiter of a batched call;
the loop of `Do`; a builder; a call of an import service, of a neo4j service or
of an application that has begun. `Retry` assumes in addition that the client
ends every call with an answer or an error, which is the pool's own timeout; the
timer's fairness is an explicit hypothesis of `Returns` and is absent from
`CancelEndsDo`, which must not wait for it. Go's `select` picks among ready cases
at random and channel waiters are queued, hence strong fairness for the two
cases of the consumer's `select`. `GraphClient` assumes that an application
reads on and closes the streams it has, which io.ReadCloser asks of it; fair is
only `Proceed`, which succeeds. No call is promised that the connection it waits
for comes, or that waiting for it fails, so that every call ends because every
connection comes back, and with one that does not (the mutant) calls wait for
ever. No
fairness is assumed of the network, of late executions, of cancellation, of
message deliveries, of the application's calls or of the reader of hierarchies.

## Proofs

Each proof module extends its component. Everything is proved for all values of
the constants under the named assumptions of the component's module.

* `ConcurrentBatchesProofs`: `IInv` adds to the types that the semaphore, the
  wait group and the chunk counter equal the numbers of goroutines in the
  phases that hold them, that started chunks are disjoint, and that failed
  chunks are those about to send or received. TypeOK alone is not inductive:
  that `sem` stays in range, that `wg = 0` means that all workers are gone, and
  that the answer is complete follow from the counting. One lemma per action;
  `PhaseCount` says how a move between phases changes such a number. From `IInv`:
  types, throttle, no stray worker, exact answer, absence of deadlock when fewer
  batches can fail than there are workers, and the refinement. For termination,
  `StepsLeft` adds what each goroutine has still to do to what the items in no
  chunk will need, six steps for each; every step makes it less (`StepsRunOut`),
  since `IInv` says which goroutine makes the step and that it is one of them.
* `RetryProofs`: `IInv` relates `pc`, `attempt`, the latest error and
  `lateCalls` to the cancellation; from it types, truthful report, at most
  one late call and the refinement of `AtLeastOnce`.
* `ErrorConsumerProofs`: `PositionInv` says what each position implies about
  the two channels, `SerialInv` that serialised calls never meet; from it the
  types, no panic when serialised, the synchronous first close, that nothing
  but `Close` ends the consumer, and that a waiting `Close` and the consumer never
  wait for one another (`WaitIsAnswered`).
* `HierarchyBuilderProofs`: the types and that hierarchies are never linked with
  each other, for any programs, refusals, losses and late executions. `IInv`
  adds that statements under way or late (`OnTheWay`) carry nodes of the generic
  hierarchy only, since one executed late is executed on a graph that has
  changed, and that what the reader has read so far is typed (`IsRead`).

  The contents of the hierarchies are proved under `WellBuilt`: every builder
  follows one of the two programs, and only answers of `Repeatable` operations
  are lost. Both passing runs satisfy it; the generic hierarchy, the number of
  builders, the batch size and the attempts are arbitrary. `HierarchyIsComplete`
  says nothing of a hierarchy under construction, so the invariant `BuildInv`
  says, for each builder without an error, what its program has made of the
  graph so far. For the ID-based program (`NewShape`) that is a matter of which
  IDs each operation has covered, in whatever order its batches were executed
  (`Covered`: those of its batches that are no longer left), for the trimming one
  (`OldShape`) of which operations have been done. `Told` says what the builder
  knows, since the IDs it hands on come from earlier answers; `Sent`, that a
  statement that is still to be executed late is one the builder has sent
  before, which makes it harmless; and from the counts on the hierarchy is
  `Final` and what is counted is right (`Counted`), with an error or without.
  One lemma per Gremlin statement says what it adds to the shape of its own
  hierarchy, one that it leaves the others theirs but for orders and code edges
  (`SameFor`, `OrderGrows`), which is what in('clone_of') reaches. The trimming
  program needs that the nodes it marks are those above data: that the ancestors
  are the least set closed under parents (`AncestorsLeast`) takes the place of
  an induction along the hierarchy. From `BuildInv`:

  * a builder that is done has left the complete hierarchy
    (`HierarchyIsComplete`);
  * what a read has got so far is what the finished hierarchy will show
    (`ReadInv`), and stays so whatever is executed between its statements,
    because a read finds no element before the counts (`ReadsAreFinal`);
  * every step is a step of `InstanceHierarchy` or stutters: the hierarchy
    appears when its builder returns from its last operation
    (`ImplementsInstanceHierarchy`);
  * with ID-based builders and a generic hierarchy with one root
    (`SingleRoot`), every node of a finished hierarchy can be read, unless
    only some of its children have an order (`FinishedIsReadable`). A trimmed
    hierarchy has no order, and of two roots getVertex would take neither; the run
    that checks the property has both hypotheses.

  That every step which is not a read advances one build (`BuildsAdvance`) needs
  neither `WellBuilt` nor `BuildInv`: a builder that goes on is within its
  program (`Within`), so a call or a return leaves fewer of them ahead
  (`PointsLeft`); between the two a batch is settled or has an attempt less.
* `NeptuneImportProofs`: the types, and that no edge is ever left of a dropped
  vertex, for any jobs, losses and deliveries in any order. `IInv` adds which
  operation is at which statement, and that a code edge is only added for a
  code that was found. `ExactInv` goes further, under the hypothesis `Pipeline`:
  no late redelivery, a message that creates the instance, names in lower case,
  IDs of different kinds that differ, dimensions inserted for every option of an
  observation, batches without a common observation, an answer for the
  statement that adds their edges, and no dropping statement executed late. (The constants of the run `import` satisfy
  it; each conjunct is an obligation of the pipeline or one of the hazards
  listed in PROJECT.json.) It says that the stages follow each other (`Ordered`), that of the
  callers of a dimension the last to drop its vertex creates it again and links
  it (`DimensionInv`), that the observations of a batch have no edges before the
  last statement and exactly theirs after it (`BatchInv`), and what is never
  taken away (`GrowingInv`). `Keeps` is what the statement of one job leaves of
  the work of the others. From it, the import is exact when all is done, and,
  for filters with the options of one dimension at each place (`ByDimension`),
  so are the filtered rows at any time: the edges the query counts are as many
  as the places of the filter at which the observation has an option.

  `EveryRequestCounts` needs the types only: a call that is delivered has at most
  five statements ahead of it, in an order in which none comes again
  (`StatementsLeft`), and at each at most `MaxAttempts` attempts,
  whatever the others have made of the graph meanwhile.
* `NeoStoreProofs`: `IInv` is TypeOK with `ReportIsExact` (a statement whose
  execution is known to have failed was rolled back; one that was lost ends the
  call), what each position says of its operation (`PosInv`), that the last
  statement of a call under way has not been executed (`NotYet`), and what the
  cache says (`CacheInv`): a label in the cache has its constraint, or one call
  is about to create it, or its creation failed. From this, an option reported
  as inserted is there once when the calls for its dimension have ended.
  `ObsInv` adds for the observations that nodes are numbered, so that a node ID
  belongs to one option (`Numbered`), that every observation is linked to one
  node of each of its options (`Situated`), that a statement that is being sent
  knows all IDs it needs (`Known`), and that a batch reported as inserted is
  there (`Reported`); from it, the exactness of the observations.

  `BuildInv` says how far the graph of the hierarchy has got (`Building`:
  empty, cloned, with its data, trimmed), whichever statements have been
  executed, lost or repeated; what a build that is at a statement can count on
  (`ReadyFor`), and that a hierarchy that has been built once is finished
  (`Finished`). It is kept because a repeated build does no harm: while no node
  has data it takes up the clones that are there, and once one has, its
  `CloneNodes` would break the constraint and is refused, which ends the build
  before it has done anything.
  One lemma per statement says what it makes of each stage (`SetHasDataDone`
  and the like), one that all others leave the hierarchy alone
  (`OthersExecuted`). From it every step is a step of `InstanceHierarchy` or
  stutters, the one that shows the hierarchy being the answer to the last
  statement of the first build that ends well (`ImplementsInstanceHierarchy`).
  The hypothesis is `Buildable`, which the run satisfies: the options inserted
  for the hierarchy are nodes of the generic one; this has one root, because
  GetHierarchyElement finds no root and GetHierarchyRoot returns one; where
  there is a build, there is data below the root, because
  MarkNodesToRemain marks both ends of paths, and of a hierarchy with data at the
  root alone nothing would remain; and one service builds. The sets of jobs,
  the generic hierarchy, retries, redeliveries and losses are arbitrary.

  `EveryStepCounts` is proved in the same way, with `checkAttempts` for the
  attempts: of the eight statements of the longest operation none comes again,
  and only two operations repeat one.
* `GraphClientProofs`: `IInv` says which configuration an open store has
  (`Configured`), who holds a connection (`Holding`, `Pooled`), which streams a
  position has (`Placed`) and which of them may be open (`Tidy`); from it the
  types and that nothing stays open, for any calls, databases and pool sizes.
  `StreamInv` says of every stream that what has been delivered, what the
  Reader has buffered and the rows that no reader has returned, over all
  readers of the composite, together are the whole (`Exact`), that a reader
  that was passed by has no rows left (`PassedBy`), that the counters agree, and
  that an end is only reported at the end. From it, what streams deliver
  (`StreamIsExact`), for rows and arrays of any sizes. The assumption
  `RowsHaveHeader` is what the import on neo4j guarantees: an observation
  is created onto dimensions, and these onto the instance. Without it, one row
  and no header would be taken for a header without rows.

  `AnswerInv` is for the code list queries: during a query what the code lists
  hold is among what has been seen of them since the call began, and what the
  first statement of GetCodes found, edges with an order or none, was so at some
  moment of it (`Asked`). From it, that whoever edits the code lists meanwhile,
  whatever fails and in whatever order rows come, a query is answered rightly
  (`AnswersAreRight`). There is a lemma for each query. They rest on these: a
  flat list of records is cut into the records it was made of (`RecordsOfFlat`);
  folds over rows in any order are taken index by index (`Folded`, with
  `LatestOfRecords` and `DatasetsOfRows`); a list whose neighbours are in order
  is in order (`Rising`); and where there are as many edges as codes, every code
  has one (`OrderOnNeptune`). The assumption `DatabasesAreFinite` says that
  code lists hold finitely many things and that orders and versions are
  numbers; besides it there is no hypothesis. Where a code has several edges,
  GetCodesOrder, which compares numbers of edges with numbers of codes, may count
  one code twice and miss another; the property excepts that
  case by its condition on what the code lists held (`Complete`), and proves for
  all others that no code is missing.
* `FiniteSetLemmas`: a set of numbers has a least member, and so what holds for
  one and carries over to the next number holds for all (`CountingUp`, the
  induction that concatenations of any length need); a finite set of numbers
  has a greatest one, and leaves a number free;
  the image of a finite set is finite; a one-to-one function keeps the size. Where
  an operation is made of parts with some attempts each, a part less outweighs
  any number of attempts (`Weight`, `WeightFalls`).

## Only model-checked

Liveness (`Returns`, `CancelEndsDo`, `ErrorsAreDrained`, `CloseReturns`,
`BuildersEnd`, `CallsEnd`): TLAPS proves no liveness under fairness and no
ENABLED. What these properties rest on besides fairness is proved as safety, for
all values of the constants. For the batched call, `NeverStuck` and
`StepsRunOut`: where fewer batches can fail than there are workers, it is at its
end or has a step left, and it has only so many. For
`Close`, `WaitIsAnswered`. For builders and for the calls of an import or of neo4j,
`BuildsAdvance`, `EveryRequestCounts` and `EveryStepCounts`: no loop, retry or
late answer takes them back. Not proved is that a builder or such a call
always has a step, which TLC checks on the instances. `Do` is bounded by its
counter; how long it takes depends on the client and the timer.

## Findings

Four runs end in a violation, each of one sentence that the repository states.
PROJECT.json gives the lines.

* `batches_deadlock`: workers that fail keep their tokens until the caller takes
  their errors, and the caller takes none while it waits for a token.
* `error_consumer_double_close`: two `Close` calls may both find the channel
  open, and the second to close it panics.
* `hierarchy_clone_retried`: a clone whose answer was lost is made again.
* `import_dimension_again`: a dimension inserted again loses the edges from its
  observations.

In three more places the code differs from what it says of itself. No run is
spent on them: the properties of `graph_client` except exactly these cases, by
name, and state what holds besides.

* `ObservationsCount` "returns the total number of rows read by this reader"
  (`observation/reader.go`, line 92). `Read` goes on after io.EOF (line 54) to
  `obsCount++` (line 61), so that at the end of a stream the count is one more
  than the rows read. `StreamIsExact` states the count until the end.
* "if not all 'usedBy' edges were found, we need to return ErrNotFound"
  (`neptune/codelist.go`, line 296). The test stands inside the loop over the
  responses, and holds each of them alone against the number of codes asked for:
  codes that are all there are ErrNotFound when their orders come in several
  responses, or when one of them is asked for twice. `AnswersAreRight` admits
  ErrNotFound in these cases (`AskedAtOnce`), and else only where a code was missing.
* "non unique results" (`neo4j/neo4jdriver/driver.go`, line 109) is to be the error
  for a second row where one is expected. It is made from `err`, which is nil
  there, and so is nil: GetCodeList, GetEdition and GetCode answer with the first
  row. `Correct` demands a single result of Neptune only.

## Not modelled, and why

Outside of what the properties speak about: logging, metrics, text of queries
and of errors, empty-argument checks (they return before any effect), times
slept, plain records and their validation, test doubles other than the mock
driver, conversion of single properties. The databases are external. Neptune: a
statement is atomic, an ID is unique, `addE` adds parallel edges, `drop()` of a
vertex drops its edges. neo4j: a statement is a transaction, unique constraints
hold at its end, a transient error is rolled back.

Left out of the models, and what is then not shown:

* `New` called concurrently: the package variable `cfg` is read and written
  without a lock, a data race whose outcomes the model would have to guess. The
  stores are opened one after the other, as the services do when they start.
  `New` for no subset skips the check of the driver and would leave a DB whose
  every call panics; the error channel of a later `New` is never sent to.
* A read after the end of a composite stream, which indexes past its readers
  (composite_row_reader.go:26): applications stop at the end. `Close` of the
  pools. A nil filter on neo4j.
* Two builds of one hierarchy at the same time on neo4j, several processes with a
  cache each: a single service with its cache and one build at a time is what the
  repository's callers have.
* `GetHierarchyCodelist`, which returns a property of a node, and
  `CountInsertedObservations` on Neptune.
* `RemoveNodesNotMarkedToRemain` and `MarkNodesToRemain` executed late: after
  the marker has been removed, the first drops the whole hierarchy and the second
  leaves the marker behind. A property for them would need a bound on how late
  Neptune executes a statement that the client has given up; both are listed as
  hazards.
* `removeExistingDimension` and the removal of observations executed late, after
  the same message has created the vertices again: they are gone, and neither
  `ImportIsExact` nor `FilteredRowsAreExact` holds. It takes a statement that
  Neptune executes after the client has given it up, a hazard listed at its line.
* The same Neptune batch inserted by two services at once, and the loss of the
  answer that adds its edges: both give parallel edges. Nothing in the
  repository prevents or promises anything about them, so the run leaves them
  out and the hazards say so.

Behaviour that the properties except by name, since the code has it: on neo4j
`GetHierarchyElement` of the root is ErrNotFound (its pattern wants a parent),
and a hierarchy with data only in its root is trimmed away; an option with an
upper-case dimension is never found by its rows, a row is linked only to the
dimensions that the first of its batch has, and left out if it lacks one of them; of several code
lists, editions or codes neo4j takes the first. On Neptune
`GetCodesOrder` is ErrNotFound for an answer in several responses and for a code
asked for twice, and where a code has several edges
it may miss another one; a code list with two editions makes `GetCodeList` fail with
ErrMultipleFound; codes without a generic node are left out of a hierarchy. What
`ObservationsCount` says at the end of a stream is left out.

## What is left

* A model of concurrent `New` calls, once the configuration has a lock.
* Late statements of the trimming program, under a bound on their delay.
