------------------------------ MODULE GraphClient ------------------------------
(***************************************************************************)
(* An application with dp-graph: it opens its stores (graph/graph.go,      *)
(* config/config.go), one after the other as services do when they start,  *)
(* and then makes calls that only read, several at a time: code list       *)
(* queries (module CodeLists), streams of rows (module RowStreams) and the *)
(* health check, on the driver that the environment chooses.  What the     *)
(* code lists hold may be edited meanwhile.                                *)
(*                                                                         *)
(* On neo4j every statement takes a connection from a pool, which a stream *)
(* keeps until it is closed (neo4jdriver/driver.go).                       *)
(***************************************************************************)
EXTENDS CodeLists, RowStreams

CONSTANTS DriverChoices,    \* the values of GRAPH_DRIVER_TYPE: "neo4j", "neptune", "mock" or "none"
          Workloads,  \* sets of calls [op, q]: what the application asks
          PoolSize,   \* GRAPH_POOL_SIZE
          Sizes,      \* the sizes of the arrays that streams are read into
          Databases,  \* what the code lists may hold
          MaxEdits,   \* bound: how often they are edited
          MaxResponses, \* bound: how many responses the edges of codes come in
          MaxNews     \* bound: how often a store that could not be opened is tried

Tasks  == UNION Workloads
Stores == {"CodeList", "Observation", "Instance"}

ASSUME ClientAssumption ==
  /\ {PoolSize, MaxResponses} \subseteq Nat \ {0} /\ {MaxEdits, MaxNews} \subseteq Nat
  /\ DriverChoices \subseteq {"neo4j", "neptune", "mock", "none"}
  /\ Sizes \subseteq Nat
  /\ \A t \in Tasks : t.op = "StreamCSVRows" =>
       t.q.header \in Seq(Nat) /\ t.q.rows \in Seq(Seq(Nat)) /\ t.q.limit \in Nat \cup {-1}

\* An instance that is not there has no observations: they are created onto
\* dimensions, and those onto the instance.
ASSUME RowsHaveHeader == \A t \in Tasks : t.op = "StreamCSVRows" /\ t.q.header = <<>> => t.q.rows = <<>>

\* A database is finite; codes (any order of their values will do), orders and
\* versions are numbers.
ASSUME DatabasesAreFinite ==
  /\ \A d \in Databases :
       /\ IsFiniteSet(d.codeLists) /\ IsFiniteSet(d.usedBy) /\ IsFiniteSet(d.datasets)
       /\ \A u \in d.usedBy : u.order \in Nat /\ u.code \in Nat
       /\ \A p \in d.datasets : p.version \in Nat
  /\ \A t \in Tasks : t.op = "GetCodesOrder" => t.q.codes \in Seq(Nat)

VARIABLES choice,    \* the environment
          cfg,       \* config.cfg: "nil", without a driver, or with one
          store, tries,
          db, edits,
          conns,     \* the calls that hold a connection
          pos, part, \* where a call is, and at which of its statements
          hasOrder,  \* what the first statement of GetCodes has found
          failed,    \* history: a statement of the call has failed
          seen,      \* history: what the code lists held during the call
          responses, \* history: how many responses the edges of codes came in
          answer,
          stream,    \* the row reader of a stream, with the Reader around it
          delivered, \* history: the bytes that have been read
          unclosed   \* history: <<t, i>>, stream i of t could not be closed

config == <<choice, cfg, store, tries>>
lists  == <<db, edits, seen, responses>>
vars   == <<config, lists, conns, pos, part, hasOrder, failed, answer, stream, delivered, unclosed>>

IsStream(t) == t.op = "StreamCSVRows"

\* The operations of driver.CodeList.
Queries ==
  { "GetCodeLists", "GetCodeList", "GetEditions", "GetEdition", "CountCodes", "GetCodes", "GetCode",
    "GetCodesOrder", "GetCodeDatasets" }

\* Any store has the health check; it is made on that for instances.
StoreOf(t) ==
  CASE IsStream(t) -> "Observation" [] t.op = "Checker" -> "Instance" [] OTHER -> "CodeList"

Ended(t)    == pos[t] = "ended"
Status(s)   == [status |-> s, value |-> {}]

NothingUnderWay == \A t \in Tasks : pos[t] \in {"absent", "idle", "ended"}

------------------------------------------------------------------------------
(* Opening stores.                                                         *)

Init ==
  /\ choice \in DriverChoices /\ cfg = "nil"
  /\ store = [s \in Stores |-> "none"] /\ tries = [s \in Stores |-> 0]
  /\ db \in Databases /\ edits = 0
  /\ conns = {}
  /\ \E W \in Workloads : pos = [t \in Tasks |-> IF t \in W THEN "idle" ELSE "absent"]
  /\ part = [t \in Tasks |-> 1]
  /\ hasOrder = [t \in Tasks |-> FALSE]
  /\ failed = [t \in Tasks |-> FALSE]
  /\ seen = [t \in Tasks |-> {}] /\ responses = [t \in Tasks |-> 0]
  /\ answer = [t \in Tasks |-> Status("none")]
  /\ stream = [t \in Tasks |-> NewReader(<<>>)]
  /\ delivered = [t \in Tasks |-> <<>>]
  /\ unclosed = {}

\* A driver for the choice: dialling neo4j may fail, no choice always does.
Instantiate ==
  CASE choice = "neo4j" -> {"complete", "incomplete"}
    [] choice = "none"  -> {"incomplete"}
    [] OTHER            -> {"complete"}

\* config.Get, with the error it returns.  The configuration is in place before
\* there is a driver, and later calls return it as it is.
Get ==
  IF cfg # "nil" THEN {[cfg |-> cfg, err |-> FALSE]}
  ELSE { [cfg |-> c, err |-> c = "incomplete"] : c \in Instantiate }

\* A driver that is nil implements no subset, and each store is for one.
Implements(c) == c = "complete"

New(s) ==
  /\ \A t \in Tasks : pos[t] \in {"absent", "idle"}
  /\ store[s] # "open" /\ tries[s] < MaxNews
  /\ tries' = [tries EXCEPT ![s] = @ + 1]
  /\ \E g \in Get :
       /\ cfg' = g.cfg
       /\ store' = [store EXCEPT ![s] = IF g.err \/ ~Implements(g.cfg) THEN "failed" ELSE "open"]
  /\ UNCHANGED <<choice, lists, conns, pos, part, hasOrder, failed, answer, stream, delivered, unclosed>>

------------------------------------------------------------------------------
(* The statements of a call.                                               *)

\* These calls look for the edition first.
ChecksEdition(t) == choice = "neo4j" /\ t.op \in {"GetCodes", "GetCode", "GetCodeDatasets"}

\* Calls whose first statement only prepares the second.
Prepares(t) ==
  part[t] = 1 /\ (ChecksEdition(t) \/ (choice = "neptune" /\ (t.op = "GetCodes" \/ IsStream(t))))

\* Other than code list queries there is the ping.  n is the number of responses.
NeptuneAnswers(t, n) ==
  CASE t.op = "GetCodeLists"    -> {GetCodeLists(db, t.q.filtered)}
    [] t.op = "GetCodeList"     -> {GetCodeList(db, t.q)}
    [] t.op = "GetEditions"     -> {GetEditions(db, t.q)}
    [] t.op = "GetEdition"      -> {GetEdition(db, t.q)}
    [] t.op = "CountCodes"      -> {CountCodes(db, t.q)}
    [] t.op = "GetCodes"        -> GetCodes(db, t.q, hasOrder[t])
    [] t.op = "GetCode"         -> {GetCode(db, t.q)}
    [] t.op = "GetCodesOrder"   -> GetCodesOrder(db, t.q, n)
    [] t.op = "GetCodeDatasets" -> GetCodeDatasets(db, t.q)
    [] OTHER                    -> {Ok({})}

NeoAnswers(t) ==
  CASE t.op = "GetCodeLists"    -> {NeoGetCodeLists(db, t.q.filtered)}
    [] t.op = "GetCodeList"     -> NeoGetCodeList(db, t.q)
    [] t.op = "GetEditions"     -> {NeoGetEditions(db, t.q)}
    [] t.op = "GetEdition"      -> NeoGetEdition(db, t.q)
    [] t.op = "GetCodes"        -> {NeoGetCodes(db, t.q)}
    [] t.op = "GetCode"         -> NeoGetCode(db, t.q)
    [] t.op = "GetCodeDatasets" -> NeoGetCodeDatasets(db, t.q)
    [] OTHER                    -> {Ok({})}

Answers(t, n) == IF choice = "neo4j" THEN NeoAnswers(t) ELSE NeptuneAnswers(t, n)

\* An error of the check for the edition, whatever it is, reads as not found;
\* any error of the ping is a state, and no error of the health check.
Critical == Status("CRITICAL")

Failure(t) ==
  IF t.op = "Checker" THEN Critical
  ELSE IF ChecksEdition(t) /\ part[t] = 1 THEN NotFound ELSE Failed

\* A call that has returned; what it held goes back to the pool.
Return(t, a) ==
  /\ pos' = [pos EXCEPT ![t] = "ended"]
  /\ answer' = [answer EXCEPT ![t] = a]

\* The mock checks for the errors it is told to give, and its stores have none
\* of them switched on; it counts one code, and its other calls fail.
MockAnswer(t) ==
  IF t.op = "Checker" THEN Ok({}) ELSE IF t.op = "CountCodes" THEN Ok(1) ELSE Failed

\* What a call returns without a statement.
NoStatement(t) ==
  \/ choice = "mock"
  \/ choice = "neo4j" /\ t.op \in {"CountCodes", "GetCodesOrder"}
  \/ choice = "neptune" /\ t.op = "GetCodesOrder" /\ t.q.codes = <<>>

AtOnce(t) ==
  CASE choice = "mock"    -> MockAnswer(t)
    [] choice = "neo4j"   -> NotImplemented
    [] choice = "neptune" -> Ok(<<>>)

\* Calls are made when the stores have been opened, as far as they could be.
\* Without a driver there is nothing to call, and the application panics.
Call(t) ==
  /\ pos[t] = "idle" /\ store[StoreOf(t)] = "open" /\ \A s \in Stores : tries[s] > 0
  /\ seen' = [seen EXCEPT ![t] = {db}]
  /\ LET begin(p) == pos' = [pos EXCEPT ![t] = p] /\ UNCHANGED answer
     IN  IF cfg # "complete" THEN begin("panicked")
         ELSE IF NoStatement(t) THEN Return(t, AtOnce(t))
         ELSE begin(IF choice = "neo4j" THEN "open" ELSE "query")
  /\ UNCHANGED <<config, db, edits, responses, conns, part, hasOrder, failed, stream, delivered, unclosed>>

\* A connection is taken when one is free.
OpenPool(t) ==
  /\ pos[t] = "open" /\ Cardinality(conns) < PoolSize
  /\ conns' = conns \cup {t}
  /\ pos' = [pos EXCEPT ![t] = "query"]
  /\ UNCHANGED <<config, lists, part, hasOrder, failed, answer, stream, delivered, unclosed>>

\* The first statement is answered, and the call goes on or returns.
Prepare(t) ==
  /\ pos[t] = "query" /\ Prepares(t) /\ ~IsStream(t)
  /\ conns' = conns \ {t}
  /\ hasOrder' = [hasOrder EXCEPT ![t] = choice = "neptune" /\ CountOrderedEdges(db, t.q) > 0]
  /\ IF choice = "neo4j" /\ NotFound \in NeoGetEdition(db, t.q)
     THEN Return(t, NotFound) /\ UNCHANGED part
     ELSE /\ pos' = [pos EXCEPT ![t] = IF choice = "neo4j" THEN "open" ELSE "query"]
          /\ part' = [part EXCEPT ![t] = 2]
          /\ UNCHANGED answer
  /\ UNCHANGED <<config, lists, failed, stream, delivered, unclosed>>

\* The last statement of a code list query or the ping is answered.
Query(t) ==
  /\ pos[t] = "query" /\ ~Prepares(t) /\ ~IsStream(t)
  /\ conns' = conns \ {t}
  /\ \E n \in IF t.op = "GetCodesOrder" THEN 1..MaxResponses ELSE {1} :
       /\ responses' = [responses EXCEPT ![t] = n]
       /\ \E a \in Answers(t, n) : Return(t, a)
  /\ UNCHANGED <<config, db, edits, seen, part, hasOrder, failed, stream, delivered, unclosed>>

\* A connection is had that cannot be used, or the statement fails, for good.
CanFail(t) == pos[t] = "query" \/ (pos[t] = "open" /\ Cardinality(conns) < PoolSize)

Fail_keepsConnection(t) ==
  /\ CanFail(t)
  /\ failed' = [failed EXCEPT ![t] = TRUE]
  /\ Return(t, Failure(t))
  /\ conns' = IF IsStream(t) THEN conns ELSE conns \ {t}
  /\ UNCHANGED <<config, lists, part, hasOrder, stream, delivered, unclosed>>

Fail(t) ==
  /\ CanFail(t)
  /\ failed' = [failed EXCEPT ![t] = TRUE]
  /\ Return(t, Failure(t))
  /\ conns' = conns \ {t}
  /\ UNCHANGED <<config, lists, part, hasOrder, stream, delivered, unclosed>>

------------------------------------------------------------------------------
(* Streams.  q has the header of the instance, <<>> without an instance,   *)
(* the rows the filter selects and the limit, -1 for none.                 *)

Header(t) == IF t.q.header = <<>> THEN <<>> ELSE <<t.q.header>>

Selected(t) == IF t.q.limit = -1 THEN t.q.rows ELSE SubSeq(t.q.rows, 1, Smaller(t.q.limit, Len(t.q.rows)))

\* Neptune has a stream for the header and then one for the rows; in neo4j they
\* are the parts of a UNION ALL.
OpenStreams(t) ==
  /\ pos[t] = "query" /\ IsStream(t)
  /\ LET streams == IF choice = "neo4j" THEN <<OpenStream(Header(t) \o Selected(t))>>
                    ELSE IF part[t] = 1 THEN <<OpenStream(Header(t))>>
                    ELSE <<stream[t].streams[1], OpenStream(Selected(t))>>
     IN  stream' = [stream EXCEPT ![t] = NewReader(streams)]
  /\ IF Prepares(t)
     THEN part' = [part EXCEPT ![t] = 2] /\ UNCHANGED pos
     ELSE pos' = [pos EXCEPT ![t] = "reading"] /\ UNCHANGED part
  /\ UNCHANGED <<config, lists, conns, hasOrder, failed, answer, delivered, unclosed>>

ReadRow(r) == IF choice = "neo4j" THEN BoltRead(r) ELSE CompositeRead(r)

\* The application reads until an end or an error.
Stop(t, err) ==
  /\ pos' = [pos EXCEPT ![t] = "closing"]
  /\ answer' = [answer EXCEPT ![t] = Status(err)]

\* Reader.Read into an array of size n.
Read(t, n) ==
  LET r   == stream[t]
      res == IF r.buffer = <<>> THEN ReadRow(r) ELSE Result(r.buffer, "none", r)
      b   == CopyBuffer(IF r.buffer = <<>> THEN Buffer(res) ELSE r, n)
  IN  /\ pos[t] = "reading"
      /\ IF res.err \in {"none", "EOF"}
         THEN /\ stream' = [stream EXCEPT ![t] = b.reader]
              /\ delivered' = [delivered EXCEPT ![t] = @ \o b.bytes]
              /\ IF b.err = "EOF" THEN Stop(t, "EOF") ELSE UNCHANGED <<pos, answer>>
         ELSE Stop(t, res.err) /\ UNCHANGED <<stream, delivered>>
      /\ UNCHANGED <<config, lists, conns, part, hasOrder, failed, unclosed>>

\* The next row cannot be had.
ReadFails(t) ==
  /\ pos[t] = "reading" /\ stream[t].buffer = <<>>
  /\ Stop(t, "error")
  /\ failed' = [failed EXCEPT ![t] = TRUE]
  /\ UNCHANGED <<config, lists, conns, part, hasOrder, stream, delivered, unclosed>>

\* The application closes what it reads, at an end or before; Close may fail.
Close(t) ==
  /\ pos[t] \in {"reading", "closing"}
  /\ \E fails \in {0} \cup DOMAIN stream[t].streams :
       /\ stream' = [stream EXCEPT ![t] = CompositeClose(@, fails)]
       /\ unclosed' = IF fails = 0 THEN unclosed ELSE unclosed \cup {<<t, fails>>}
  /\ conns' = conns \ {t}
  /\ pos' = [pos EXCEPT ![t] = "ended"]
  /\ UNCHANGED <<config, lists, part, hasOrder, failed, answer, delivered>>

------------------------------------------------------------------------------
\* The code lists get another edition, or another dataset is published, while
\* they are asked for; at other times it is as if they had begun so.
Edit ==
  /\ \E t \in Tasks : pos[t] \in {"open", "query"} /\ StoreOf(t) = "CodeList"
  /\ edits < MaxEdits /\ edits' = edits + 1
  /\ \E d \in Databases \ {db} :
       /\ db' = d
       /\ seen' = [t \in Tasks |-> IF pos[t] \in {"open", "query"} THEN seen[t] \cup {d} ELSE seen[t]]
  /\ UNCHANGED <<config, responses, conns, pos, part, hasOrder, failed, answer, stream, delivered, unclosed>>

\* The application does something else, or is blocked: it waits for a connection.
Idle ==
  /\ \/ NothingUnderWay
     \/ Cardinality(conns) = PoolSize /\ \E t \in Tasks : pos[t] = "open"
  /\ UNCHANGED vars

\* A call goes on.  Nothing makes a statement or a row fail.
Proceed(t) ==
  \/ OpenPool(t) \/ Prepare(t) \/ Query(t)
  \/ OpenStreams(t) \/ (\E n \in Sizes : Read(t, n)) \/ Close(t)

Step(t) == Proceed(t) \/ Fail(t) \/ ReadFails(t)

Next ==
  \/ \E s \in Stores : New(s)
  \/ \E t \in Tasks : Call(t) \/ Step(t)
  \/ Edit \/ Idle

Spec == Init /\ [][Next]_vars

\* A call goes on where it can: it takes a connection that stays free, and the
\* application reads and closes the streams it has.  No call is promised that a
\* connection it waits for comes, or that waiting for it fails.
FairSpec == Spec /\ \A t \in Tasks : WF_vars(Proceed(t))
------------------------------------------------------------------------------
Statuses ==
  { "none", "ok", "error", "EOF", "ErrNotFound", "ErrMultipleFound", "ErrNotImplemented",
    "ErrNoInstanceFound", "ErrNoResultsFound", "CRITICAL" }

Rows == Seq(Nat)

RowsOfDB == [rows : Seq(Rows), open : BOOLEAN]

Readers ==
  [ streams : Seq(RowsOfDB), readerIndex : Nat \ {0}, rowsRead : Nat, buffer : Rows,
    eof : BOOLEAN, totalBytesRead : Nat, obsCount : Nat ]

\* The variables keep their types, and no call meets a store without a driver.
TypeOK ==
  /\ choice \in DriverChoices /\ cfg \in {"nil", "incomplete", "complete"}
  /\ store \in [Stores -> {"none", "failed", "open"}]
  /\ tries \in [Stores -> 0..MaxNews]
  /\ db \in Databases /\ edits \in 0..MaxEdits
  /\ conns \subseteq Tasks
  /\ pos \in [Tasks -> {"absent", "idle", "open", "query", "reading", "closing", "ended"}]
  /\ part \in [Tasks -> 1..2]
  /\ hasOrder \in [Tasks -> BOOLEAN] /\ failed \in [Tasks -> BOOLEAN]
  /\ seen \in [Tasks -> SUBSET Databases] /\ responses \in [Tasks -> 0..MaxResponses]
  /\ DOMAIN answer = Tasks /\ \A t \in Tasks : answer[t].status \in Statuses
  /\ stream \in [Tasks -> Readers] /\ delivered \in [Tasks -> Rows]
  /\ unclosed \subseteq Tasks \X (1..2)

\* Streams of t that are open although the call has ended.
LeftOpen(t) == IF Ended(t) THEN { i \in DOMAIN stream[t].streams : stream[t].streams[i].open } ELSE {}

\* On neo4j a connection is out of the pool exactly while a statement is under
\* way or a stream is read, whatever fails on the way.  A stream stays open only
\* where one could not be closed, it or one before it, or the stream of
\* Neptune's rows could not be opened after that of the header.
NothingStaysOpen ==
  /\ conns = { t \in Tasks : choice = "neo4j" /\ pos[t] \in {"query", "reading", "closing"} }
  /\ Cardinality(conns) <= PoolSize
  /\ \A t \in Tasks : \A i \in LeftOpen(t) :
       \/ \E j \in 1..i : <<t, j>> \in unclosed
       \/ choice = "neptune" /\ failed[t] /\ i = 1 /\ part[t] = 2

\* All that a stream has, as the bytes of the application.
Whole(t) ==
  FlattenSeq(IF choice = "neo4j" THEN [ i \in DOMAIN (Header(t) \o Selected(t)) |->
                                          Append((Header(t) \o Selected(t))[i], Newline) ]
             ELSE Header(t) \o Selected(t))

\* The rows that the streams of a reader still have.
RowsLeft(r) == FlattenSeq([i \in DOMAIN r.streams |-> r.streams[i].rows])

\* Whatever the sizes of the arrays: an application reads the header and the
\* selected rows, each byte once and in order, and is told of the end after the
\* last one.  On neo4j no row is an error, and which one tells whether there is
\* an instance.  Until the end, ObservationsCount is the rows that have been
\* taken from the streams, the header among them; at the end the code counts one
\* more, against its comment (observation/reader.go:92), and it is left out.
StreamIsExact ==
  \A t \in { u \in Tasks : IsStream(u) } :
    LET r == stream[t]
    IN  /\ IsPrefix(delivered[t], Whole(t))
        /\ r.totalBytesRead = Len(delivered[t])
        /\ pos[t] \in {"reading", "closing"} /\ ~r.eof =>
             r.obsCount = Len(Header(t)) + Len(Selected(t)) - Len(RowsLeft(r))
        /\ answer[t].status = "EOF" => delivered[t] = Whole(t) /\ RowsLeft(r) = <<>>
        /\ choice = "neo4j" =>
             /\ answer[t].status = "EOF" => Selected(t) # <<>>
             /\ answer[t].status = "ErrNoResultsFound" => delivered[t] = Whole(t) /\ Header(t) # <<>> /\ Selected(t) = <<>>
             /\ answer[t].status = "ErrNoInstanceFound" => Header(t) = <<>> /\ delivered[t] = <<>>

\* What d holds of what a code list query asks for.
Found(d, t) ==
  CASE t.op = "GetCodeLists"  -> IF t.q.filtered THEN d.geography ELSE d.codeLists
    [] t.op \in {"GetCodeList", "GetEditions"} -> Lists(d, t.q.id)
    [] t.op = "GetEdition"    -> Edition(d, t.q.id, t.q.edition)
    [] t.op \in {"CountCodes", "GetCodes"} -> CodeEdges(d, t.q)
    [] t.op = "GetCode"       -> { u \in CodeEdges(d, t.q) : u.code = t.q.code }
    [] t.op = "GetCodesOrder" -> AskedEdges(d, t.q)
    [] t.op = "GetCodeDatasets" ->
         { u \in CodeEdges(d, t.q) : u.code = t.q.code } \X Published(d, t.q.code)

\* All of it is there; a count is there of nothing.
Exists(d, t) ==
  CASE t.op = "GetCodesOrder" -> Range(t.q.codes) \subseteq { u.code : u \in Found(d, t) }
    [] t.op = "CountCodes"    -> TRUE
    [] OTHER                  -> Found(d, t) # {}

\* Queries for one code list, edition or code, which answer with its name.
One == {"GetCodeList", "GetEdition", "GetCode"}

Name(t) ==
  CASE t.op = "GetCodeList" -> t.q.id [] t.op = "GetEdition" -> t.q.edition [] t.op = "GetCode" -> t.q.code

\* No code has two edges.
Single(edges) == \A u, v \in edges : u.code = v.code => u = v

\* Each x that there is, and how many of vs have it at i.
Tally(vs, i, value) ==
  /\ DOMAIN value = { v[i] : v \in vs }
  /\ \A x \in DOMAIN value : value[x] = Cardinality({ v \in vs : v[i] = x })

Record(u) == [label |-> u.label, code |-> u.code]

\* The codes of all edges, one after the other: by their orders if during the
\* call all had one, by their values if none had.
InOrder(d, t, value) ==
  \E s \in SetToSeqs(Found(d, t)) :
    /\ value = [i \in DOMAIN s |-> Record(s[i])]
    /\ (\A x \in seen[t] : Found(x, t) # {} /\ \A u \in Found(x, t) : u.order > 0) =>
         \A i, j \in DOMAIN s : i < j => s[i].order <= s[j].order
    /\ (\A x \in seen[t] : \A u \in Found(x, t) : u.order = 0) =>
         \A i, j \in DOMAIN s : i < j => s[i].code <= s[j].code

\* Entries <<dataset, label, edition, version>> for all that is published with
\* the code, with the latest version of each dataset and edition: under all
\* labels that the code has, or in neo4j under one for each dataset.
Latest(d, t, value) ==
  LET versions(x) == { p.version : p \in { p \in Published(d, t.q.code) : p.id = x[1] /\ p.edition = x[3] } }
  IN  /\ \A x \in value :
           /\ x[4] \in versions(x) /\ \A v \in versions(x) : v <= x[4]
           /\ \E f \in Found(d, t) : x[2] = f[1].label
      /\ \A f \in Found(d, t) : \E x \in value :
           x[1] = f[2].id /\ x[3] = f[2].edition /\ (choice = "neptune" => x[2] = f[1].label)
      /\ choice = "neo4j" => \A x, y \in value : x[1] = y[1] => x[2] = y[2]

\* The value answers t, if the code lists hold d.  neo4j has a code list as often
\* as it has nodes with different labels, and does not tell one node from several:
\* the error "non unique results" (neo4jdriver/driver.go:109) is made from nil.
Correct(d, t, value) ==
  LET found == Found(d, t)
  IN  CASE t.op = "GetCodeLists"  ->
             Tally(IF choice = "neptune" THEN found ELSE { <<v[1], v \in d.geography>> : v \in found }, 1, value)
        [] t.op = "GetEditions"   -> Tally(found, 2, value)
        [] t.op \in One           -> value = {Name(t)} /\ (choice = "neptune" => Cardinality(found) = 1)
        [] t.op = "CountCodes"    -> Single(found) => value = Cardinality({ u.code : u \in found })
        [] t.op = "GetCodes"      ->
             IF choice = "neptune" THEN InOrder(d, t, value)
             ELSE /\ DOMAIN value = { Record(u) : u \in found }
                  /\ \A x \in DOMAIN value : value[x] = Cardinality({ u \in found : Record(u) = x })
        [] t.op = "GetCodesOrder" ->
             /\ DOMAIN value = { u.code : u \in found }
             /\ \A c \in DOMAIN value : \E u \in found : u.code = c /\ u.order = value[c]
        [] t.op = "GetCodeDatasets" -> Latest(d, t, value)

\* Nothing is missing in d.  Neptune tells of no code lists, and of no datasets,
\* with an empty list; and a code that has several edges, to several editions or
\* to one, can stand in for another one in GetCodesOrder, which compares numbers.
Complete(d, t) ==
  \/ Exists(d, t)
  \/ choice = "neptune" /\ t.op \in {"GetCodeLists", "GetCodeDatasets"}
  \/ t.op = "GetCodesOrder" /\ ~Single(Found(d, t))

\* The orders came in one response, and no code was asked for twice.
AskedAtOnce(t) == responses[t] = 1 /\ IsInjective(t.q.codes)

\* Some of the codes had an order during the call, and some had none.
Mixed(t) ==
  /\ \E d \in seen[t] : \E u \in Found(d, t) : u.order > 0
  /\ \E d \in seen[t] : \E u \in Found(d, t) : u.order = 0

\* That a is right for t.
RightAnswer(t, a) ==
  /\ a.status = "ok" => \E d \in seen[t] : Correct(d, t, a.value) /\ Complete(d, t)
  /\ a.status = "ErrNotFound" =>
       \/ \E d \in seen[t] : ~Exists(d, t)
       \/ failed[t] /\ ChecksEdition(t) /\ part[t] = 1
       \/ t.op = "GetCodesOrder" /\ ~AskedAtOnce(t)
  /\ a.status = "ErrMultipleFound" => \E d \in seen[t] : Cardinality(Found(d, t)) > 1
  /\ a.status = "error" => failed[t] \/ (t.op = "GetCodes" /\ Mixed(t))

\* However the code lists are edited during a call, and in whatever order rows
\* come: the databases answer each query with what the code lists held at some
\* moment of the call, the lists, editions and codes as often as they are there,
\* numbers of codes, codes in their order, and the latest versions.  They tell
\* ErrNotFound only where at some moment what is asked for was not there, where
\* an error of the check for the edition hides it, or, in GetCodesOrder, where
\* the orders came in several responses or a code was asked for twice, although
\* neptune/codelist.go:296 has it only for edges that were not found;
\* ErrMultipleFound only where there was more than one; and an error only where
\* a statement failed or GetCodes met codes with an order and codes without.
AnswersAreRight ==
  choice # "mock" =>
    \A t \in { u \in Tasks : u.op \in Queries /\ Ended(u) } : RightAnswer(t, answer[t])

\* A call that has begun ends, and again and again none is under way, although
\* a call waits as long as no connection is free: every connection comes back to
\* the pool, and no store is opened without a driver to call.
CallsEnd == []<>NothingUnderWay
==============================================================================
