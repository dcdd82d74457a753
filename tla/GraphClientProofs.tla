--------------------------- MODULE GraphClientProofs ---------------------------
(***************************************************************************)
(* Proofs about GraphClient, for any calls, any driver, pool, array sizes  *)
(* and contents of the code lists: its types, that nothing stays open,     *)
(* that what an application reads of a stream is the header and the rows   *)
(* it selects, and that code list queries are answered with what the code  *)
(* lists held during the call.                                             *)
(***************************************************************************)
EXTENDS GraphClient, TLAPS, FiniteSetTheorems, SequenceTheorems, FiniteSetLemmas

------------------------------------------------------------------------------
(* What the readers of module RowStreams return.                           *)

LEMMA ReaderFields ==
  ASSUME NEW r \in Readers
  PROVE  /\ r.streams \in Seq(RowsOfDB) /\ Len(r.streams) \in Nat
         /\ r.readerIndex \in Nat \ {0} /\ r.buffer \in Rows
BY LenProperties DEF Readers

LEMMA NewReaderType ==
  ASSUME NEW s \in Seq(RowsOfDB)
  PROVE  NewReader(s) \in Readers /\ NewReader(s).streams = s
PROOF
<1>1. <<>> \in Rows
  BY DEF Rows
<1> QED
  BY <1>1 DEF NewReader, Readers

LEMMA TakeRowType ==
  ASSUME NEW r \in Readers, NEW i \in 1..Len(r.streams), r.streams[i].rows # <<>>
  PROVE  /\ TakeRow(r, i) \in Readers
         /\ Len(TakeRow(r, i).streams) = Len(r.streams)
         /\ Head(r.streams[i].rows) \in Rows
PROOF
<1> DEFINE s == r.streams[i]
           left == [s EXCEPT !.rows = Tail(s.rows)]
           streams == [r.streams EXCEPT ![i] = left]
<1>1. r.streams \in Seq(RowsOfDB)
  BY ReaderFields
<1>2. s \in RowsOfDB
  BY <1>1, ElementOfSeq
<1>3. s.rows \in Seq(Rows)
  BY <1>2 DEF RowsOfDB
<1>4. Tail(s.rows) \in Seq(Rows) /\ Head(s.rows) \in Rows
  BY <1>3, HeadTailProperties
<1>5. left \in RowsOfDB
  BY <1>2, <1>4 DEF RowsOfDB
<1>6. TakeRow(r, i) = [r EXCEPT !.streams = streams]
  BY DEF TakeRow
<1> HIDE DEF left
<1>7. streams \in Seq(RowsOfDB) /\ Len(streams) = Len(r.streams)
  BY <1>1, <1>5, ExceptSeq
<1> HIDE DEF streams
<1>8. [r EXCEPT !.streams = streams] \in Readers /\ [r EXCEPT !.streams = streams].streams = streams
  BY <1>7 DEF Readers
<1> QED
  BY <1>4, <1>6, <1>7, <1>8

LEMMA CountReader ==
  ASSUME NEW r \in Readers, NEW n \in Nat
  PROVE  /\ [r EXCEPT !.rowsRead = n] \in Readers
         /\ [r EXCEPT !.rowsRead = n].streams = r.streams
         /\ [r EXCEPT !.totalBytesRead = n] \in Readers
         /\ [r EXCEPT !.totalBytesRead = n].streams = r.streams
PROOF
<1>1. [r EXCEPT !.rowsRead = n] \in Readers
  BY DEF Readers
<1>2. [r EXCEPT !.totalBytesRead = n] \in Readers
  BY DEF Readers
<1>3. [r EXCEPT !.rowsRead = n].streams = r.streams
  BY DEF Readers
<1>4. [r EXCEPT !.totalBytesRead = n].streams = r.streams
  BY DEF Readers
<1> QED
  BY <1>1, <1>2, <1>3, <1>4

LEMMA ReadRowType ==
  ASSUME NEW r \in Readers, Len(r.streams) > 0
  PROVE  LET res == ReadRow(r)
         IN  /\ res.row \in Rows /\ res.err \in Statuses
             /\ res.reader \in Readers /\ Len(res.reader.streams) = Len(r.streams)
PROOF
<1>0. <<>> \in Rows
  BY DEF Rows
<1>b. "none" \in Statuses /\ "EOF" \in Statuses
  BY DEF Statuses
<1>a. \A res, row, err, q : res = Result(row, err, q) => res.row = row /\ res.err = err /\ res.reader = q
  BY DEF Result
<1>1. CASE choice = "neo4j"
  <2>1. 1 \in 1..Len(r.streams)
    BY ReaderFields
  <2>2. CASE r.streams[1].rows # <<>>
    <3> DEFINE row == Append(Head(r.streams[1].rows), Newline)
               q   == TakeRow(r, 1)
    <3>1. q \in Readers /\ Len(q.streams) = Len(r.streams) /\ Head(r.streams[1].rows) \in Rows
      BY <2>1, <2>2, TakeRowType
    <3>2. row \in Rows
      BY <3>1 DEF Newline, Rows
    <3>3. ReadRow(r) = Result(row, "none", [q EXCEPT !.rowsRead = @ + 1])
      BY <1>1, <2>2 DEF ReadRow, BoltRead
    <3> HIDE DEF row, q
    <3> DEFINE counted == [q EXCEPT !.rowsRead = q.rowsRead + 1]
    <3>6. q.rowsRead + 1 \in Nat
      BY <3>1 DEF Readers
    <3>4. counted \in Readers /\ counted.streams = q.streams
      BY <3>1, <3>6, CountReader
    <3> HIDE DEF counted
    <3>5. ReadRow(r) = Result(row, "none", counted)
      BY <3>3 DEF counted
    <3> QED
      BY <1>a, <1>b, <3>1, <3>2, <3>4, <3>5
  <2>3. CASE r.streams[1].rows = <<>>
    <3>1. PICK e \in Statuses : ReadRow(r) = Result(<<>>, e, r)
      <4> DEFINE e == CASE r.rowsRead = 0 -> "ErrNoInstanceFound"
                        [] r.rowsRead = 1 -> "ErrNoResultsFound"
                        [] OTHER -> "EOF"
      <4>1. e \in Statuses
        BY DEF Statuses
      <4>2. ReadRow(r) = Result(<<>>, e, r)
        BY <1>1, <2>3 DEF ReadRow, BoltRead
      <4> HIDE DEF e
      <4> QED
        BY <4>1, <4>2
    <3> QED
      BY <1>0, <1>a, <3>1
  <2> QED
    BY <2>2, <2>3
<1>2. CASE choice # "neo4j"
  <2> DEFINE next == { i \in r.readerIndex..Len(r.streams) :
                         /\ r.streams[i].rows # <<>>
                         /\ \A j \in r.readerIndex..(i - 1) : r.streams[j].rows = <<>> }
             first == CHOOSE i \in next : TRUE
  <2>1. CASE next # {}
    <3>1. first \in next
      BY <2>1
    <3>2. first \in 1..Len(r.streams) /\ r.streams[first].rows # <<>>
      BY <3>1, ReaderFields
    <3> DEFINE row == Head(r.streams[first].rows)
               moved(i) == [r EXCEPT !.readerIndex = i]
    <3>3. ReadRow(r) = Result(row, "none", TakeRow(moved(first), first))
      BY <1>2, <2>1 DEF ReadRow, CompositeRead
    <3> HIDE DEF first
    <3>4. moved(first) \in Readers /\ moved(first).streams = r.streams
      BY <3>2, ReaderFields DEF Readers
    <3> HIDE DEF moved
    <3>5. /\ TakeRow(moved(first), first) \in Readers
          /\ Len(TakeRow(moved(first), first).streams) = Len(r.streams)
          /\ row \in Rows
      BY <3>2, <3>4, TakeRowType
    <3> HIDE DEF row
    <3> QED
      BY <1>a, <1>b, <3>3, <3>5
  <2>2. CASE next = {}
    <3> DEFINE q == [r EXCEPT !.readerIndex = Len(r.streams) + 1]
    <3>1. ReadRow(r) = Result(<<>>, "EOF", q)
      BY <1>2, <2>2 DEF ReadRow, CompositeRead
    <3>2. q \in Readers /\ q.streams = r.streams
      BY ReaderFields DEF Readers
    <3> HIDE DEF q
    <3> QED
      BY <1>0, <1>a, <1>b, <3>1, <3>2
  <2> QED
    BY <2>1, <2>2
<1> QED
  BY <1>1, <1>2

LEMMA BufferType ==
  ASSUME NEW res, res.row \in Rows, res.reader \in Readers
  PROVE  Buffer(res) \in Readers /\ Buffer(res).streams = res.reader.streams
PROOF
<1> DEFINE r    == res.reader
           row  == res.row
           over == (res.err = "EOF")
           q    == [r EXCEPT !.buffer = row, !.eof = over, !.obsCount = @ + 1]
<1>1. Buffer(res) = q
  BY DEF Buffer
<1>2. r \in Readers /\ row \in Rows
  OBVIOUS
<1>3. PICK b \in BOOLEAN : b = over
  OBVIOUS
<1>4. q = [r EXCEPT !.buffer = row, !.eof = b, !.obsCount = @ + 1]
  BY <1>3
<1> HIDE DEF row, over, q
<1> DEFINE p1 == [r EXCEPT !.buffer = row]
           p2 == [p1 EXCEPT !.eof = b]
<1>a. p1 \in Readers /\ p1.streams = r.streams
  BY <1>2 DEF Readers
<1>b. q = [p2 EXCEPT !.obsCount = @ + 1]
  BY <1>2, <1>4 DEF Readers
<1> HIDE DEF p1
<1>c. p2 \in Readers /\ p2.streams = r.streams
  BY <1>a DEF Readers
<1> HIDE DEF p2
<1>5. q \in Readers /\ q.streams = r.streams
  BY <1>b, <1>c DEF Readers
<1> QED
  BY <1>1, <1>5

LEMMA CopyBufferType ==
  ASSUME NEW r \in Readers, NEW n \in Nat
  PROVE  LET b == CopyBuffer(r, n)
         IN  /\ b.bytes \in Rows /\ b.err \in Statuses
             /\ b.reader \in Readers /\ b.reader.streams = r.streams
PROOF
<1> DEFINE copied == Smaller(n, Len(r.buffer))
           bytes  == SubSeq(r.buffer, 1, copied)
           rest   == SubSeq(r.buffer, copied + 1, Len(r.buffer))
           q      == [r EXCEPT !.buffer = rest, !.totalBytesRead = @ + copied]
           err    == IF Len(r.buffer) <= n /\ r.eof THEN "EOF" ELSE "none"
<1>1. CopyBuffer(r, n) = [bytes |-> bytes, err |-> err, reader |-> q]
  BY DEF CopyBuffer
<1>2. r.buffer \in Seq(Nat) /\ Len(r.buffer) \in Nat
  BY ReaderFields, LenProperties DEF Rows
<1>3. copied \in 0..Len(r.buffer)
  BY <1>2 DEF Smaller
<1> HIDE DEF copied
<1>4. bytes \in Rows /\ rest \in Rows
  <2>1. \A i \in 1..Len(r.buffer) : r.buffer[i] \in Nat
    BY <1>2, ElementOfSeq
  <2>2. bytes \in Seq(Nat)
    BY <1>2, <1>3, <2>1, SubSeqProperties
  <2>3. rest \in Seq(Nat)
    BY <1>2, <1>3, <2>1, SubSeqProperties
  <2> QED
    BY <2>2, <2>3 DEF Rows
<1> HIDE DEF bytes, rest
<1> DEFINE p == [r EXCEPT !.buffer = rest]
<1>a. p \in Readers /\ p.streams = r.streams
  BY <1>4 DEF Readers
<1>b. q = [p EXCEPT !.totalBytesRead = p.totalBytesRead + copied]
  BY DEF Readers
<1> HIDE DEF p, q
<1>c. p.totalBytesRead + copied \in Nat
  <2>1. copied \in Nat
    BY <1>2, <1>3
  <2> QED
    BY <1>a, <2>1 DEF Readers
<1>5. q \in Readers /\ q.streams = r.streams
  BY <1>a, <1>b, <1>c, CountReader
<1>6. err \in Statuses
  BY DEF Statuses
<1> HIDE DEF q, err
<1> QED
  BY <1>1, <1>4, <1>5, <1>6

LEMMA CompositeCloseType ==
  ASSUME NEW r \in Readers, NEW fails \in Nat
  PROVE  LET q == CompositeClose(r, fails)
         IN  /\ q \in Readers /\ Len(q.streams) = Len(r.streams)
             /\ \A i \in DOMAIN q.streams : q.streams[i].open => fails # 0 /\ fails <= i
PROOF
<1> DEFINE n == Len(r.streams)
           closed(i) == IF fails = 0 \/ i < fails THEN [r.streams[i] EXCEPT !.open = FALSE] ELSE r.streams[i]
           streams == [i \in DOMAIN r.streams |-> closed(i)]
           q == [r EXCEPT !.streams = streams]
<1>1. CompositeClose(r, fails) = q
  BY DEF CompositeClose
<1>2. r.streams \in Seq(RowsOfDB) /\ n \in Nat /\ DOMAIN r.streams = 1..n
  BY ReaderFields, LenProperties
<1>3. ASSUME NEW i \in 1..n
      PROVE  closed(i) \in RowsOfDB /\ (closed(i).open => fails # 0 /\ fails <= i)
  <2>1. r.streams[i] \in RowsOfDB
    BY <1>2, ElementOfSeq
  <2>2. [r.streams[i] EXCEPT !.open = FALSE] \in RowsOfDB /\ ~[r.streams[i] EXCEPT !.open = FALSE].open
    BY <2>1 DEF RowsOfDB
  <2> QED
    BY <2>1, <2>2
<1> HIDE DEF closed
<1>4. streams \in [1..n -> RowsOfDB]
  BY <1>2, <1>3
<1>5. streams \in Seq(RowsOfDB)
  BY <1>2, <1>4, SeqDef
<1>6. Len(streams) = n
  BY <1>2, <1>4, <1>5, LenProperties
<1>7. \A i \in DOMAIN streams : streams[i].open => fails # 0 /\ fails <= i
  BY <1>2, <1>3
<1> HIDE DEF streams
<1>8. q \in Readers /\ q.streams = streams
  BY <1>5 DEF Readers
<1> QED
  BY <1>1, <1>6, <1>7, <1>8

------------------------------------------------------------------------------
(* What a call returns and what its streams hold.                          *)

LEMMA AnswersAreKnown ==
  ASSUME NEW t \in Tasks, NEW n, NEW a \in Answers(t, n)
  PROVE  a.status \in Statuses
PROOF
<1>1. \A v : Ok(v).status \in Statuses
  BY DEF Ok, Statuses
<1>2. NotFound.status \in Statuses /\ MultipleFound.status \in Statuses /\ Failed.status \in Statuses
  BY DEF NotFound, MultipleFound, Failed, Statuses
<1>3. \A k, v : exactlyOne(k, v).status \in Statuses
  BY <1>1, <1>2 DEF exactlyOne
<1>4. CASE choice = "neo4j"
  <2>1. \A b \in NeoGetCodeList(db, t.q) : b.status \in Statuses
    BY <1>1, <1>2 DEF NeoGetCodeList, readSingle
  <2>2. \A b \in NeoGetEdition(db, t.q) : b.status \in Statuses
    BY <1>1, <1>2 DEF NeoGetEdition, readSingle
  <2>3. \A b \in NeoGetCode(db, t.q) : b.status \in Statuses
    BY <1>1, <1>2 DEF NeoGetCode, readSingle
  <2>4. \A b \in NeoGetCodeDatasets(db, t.q) : b.status \in Statuses
    <3> DEFINE us    == { u \in CodeEdges(db, t.q) : u.code = t.q.code }
               rows  == { [d |-> d, label |-> u.label] : u \in us, d \in Published(db, t.q.code) }
               f(rs) == UNION { LatestVersions(id, CodesDatasets(rs)[id]) : id \in DOMAIN CodesDatasets(rs) }
               orderings == SetToSeqs(rows)
    <3>1. NeoGetCodeDatasets(db, t.q) = IF rows = {} THEN {NotFound} ELSE { Ok(f(rs)) : rs \in orderings }
      BY DEF NeoGetCodeDatasets
    <3> HIDE DEF rows, f, orderings
    <3> QED
      BY <1>1, <1>2, <3>1
  <2>5. NeoGetCodeLists(db, t.q.filtered).status \in Statuses
    BY <1>1, <1>2 DEF NeoGetCodeLists, read
  <2>6. NeoGetEditions(db, t.q).status \in Statuses
    BY <1>1, <1>2 DEF NeoGetEditions, read
  <2>7. NeoGetCodes(db, t.q).status \in Statuses
    BY <1>1, <1>2 DEF NeoGetCodes, read
  <2> QED
    BY <1>1, <1>4, <2>1, <2>2, <2>3, <2>4, <2>5, <2>6, <2>7 DEF Answers, NeoAnswers
<1>5. CASE choice # "neo4j"
  <2>0. \A vs, k : createRecords(vs, k).status \in Statuses
    BY <1>1, <1>2 DEF createRecords
  <2>1. \A b \in GetCodes(db, t.q, hasOrder[t]) : b.status \in Statuses
    BY <1>1, <1>2, <2>0 DEF GetCodes
  <2>2. \A b \in GetCodesOrder(db, t.q, n) : b.status \in Statuses
    <3> DEFINE us       == AskedEdges(db, t.q)
               batches  == { f \in [us -> 1..n] : n = 1 \/ Range(f) = 1..n }
               orders   == { m \in [{ u.code : u \in us } -> { u.order : u \in us }] :
                               \A c \in DOMAIN m : \E u \in us : u.code = c /\ u.order = m[c] }
               short(f) == \E i \in 1..n : Cardinality({ u \in us : f[u] = i }) < Len(t.q.codes)
               told(f)  == IF short(f) THEN {NotFound} ELSE { Ok(m) : m \in orders }
    <3>1. GetCodesOrder(db, t.q, n) = UNION { told(f) : f \in batches }
      BY DEF GetCodesOrder
    <3> HIDE DEF short, orders, batches
    <3> QED
      BY <1>1, <1>2, <3>1
  <2>3. \A b \in GetCodeDatasets(db, t.q) : b.status \in Statuses
    <3> DEFINE us     == { u \in CodeEdges(db, t.q) : u.code = t.q.code }
               values == { Flat(rs) : rs \in SetToSeqs({ <<u.label, d.edition, d.version, d.id>>
                                                          : u \in us, d \in Published(db, t.q.code) }) }
               told(vs) == LET records == createRecords(vs, 4)
                           IN  IF records.status = "ok" THEN Ok(buildResponse(buildLatestVersionMaps(records.value)))
                               ELSE records
    <3>1. GetCodeDatasets(db, t.q) = { told(vs) : vs \in values }
      BY DEF GetCodeDatasets
    <3>2. \A vs : told(vs).status \in Statuses
      BY <1>1, <2>0
    <3> HIDE DEF told, values
    <3> QED
      BY <3>1, <3>2
  <2>4. GetCodeLists(db, t.q.filtered).status \in Statuses /\ CountCodes(db, t.q).status \in Statuses
    BY <1>1 DEF GetCodeLists, CountCodes
  <2>5. GetEditions(db, t.q).status \in Statuses
    BY <1>1, <1>2 DEF GetEditions
  <2>6. /\ GetCodeList(db, t.q).status \in Statuses /\ GetEdition(db, t.q).status \in Statuses
        /\ GetCode(db, t.q).status \in Statuses
    BY <1>3 DEF GetCodeList, GetEdition, GetCode
  <2> QED
    BY <1>1, <1>5, <2>1, <2>2, <2>3, <2>4, <2>5, <2>6 DEF Answers, NeptuneAnswers
<1> QED
  BY <1>4, <1>5

LEMMA RowsOfStreams ==
  ASSUME NEW t \in Tasks, IsStream(t)
  PROVE  /\ OpenStream(Header(t)) \in RowsOfDB
         /\ OpenStream(Selected(t)) \in RowsOfDB
         /\ OpenStream(Header(t) \o Selected(t)) \in RowsOfDB
PROOF
<1>1. t.q.header \in Rows /\ t.q.rows \in Seq(Rows) /\ t.q.limit \in Nat \cup {-1}
  BY ClientAssumption DEF IsStream, Rows
<1>2. Header(t) \in Seq(Rows)
  BY <1>1 DEF Header
<1>3. Selected(t) \in Seq(Rows)
  <2> DEFINE n == Smaller(t.q.limit, Len(t.q.rows))
  <2>1. Len(t.q.rows) \in Nat
    BY <1>1, LenProperties
  <2>2. t.q.limit # -1 => n \in 0..Len(t.q.rows)
    BY <1>1, <2>1 DEF Smaller
  <2> HIDE DEF n
  <2>3. \A i \in 1..Len(t.q.rows) : t.q.rows[i] \in Rows
    BY <1>1, ElementOfSeq
  <2>4. t.q.limit # -1 => SubSeq(t.q.rows, 1, n) \in Seq(Rows)
    BY <2>1, <2>2, <2>3, SubSeqProperties
  <2> QED
    BY <1>1, <2>4 DEF Selected, n
<1>4. Header(t) \o Selected(t) \in Seq(Rows)
  BY <1>2, <1>3, ConcatProperties
<1> QED
  BY <1>2, <1>3, <1>4 DEF OpenStream, RowsOfDB

------------------------------------------------------------------------------
(* The inductive invariant.                                                *)

\* A store is open only with a driver, and there is none without a choice.
Configured ==
  /\ cfg = "complete" => choice # "none"
  /\ \A s \in Stores : store[s] = "open" => cfg = "complete"

Opened(t) == Len(stream[t].streams)

\* Where a call is tells the driver and how many streams it has opened.
Placed(t) ==
  /\ pos[t] \in {"absent", "idle"} => part[t] = 1
  /\ pos[t] = "open" => choice = "neo4j"
  /\ pos[t] \in {"query", "reading", "closing"} => choice \in {"neo4j", "neptune"}
  /\ Opened(t) <= 2 /\ (~IsStream(t) => Opened(t) = 0)
  /\ pos[t] \in {"absent", "idle", "open"} => Opened(t) = 0
  /\ pos[t] = "query" => Opened(t) = IF IsStream(t) /\ choice = "neptune" /\ part[t] = 2 THEN 1 ELSE 0
  /\ pos[t] \in {"reading", "closing"} => Opened(t) >= 1

\* The parts of NothingStaysOpen.
Holding == conns = { t \in Tasks : choice = "neo4j" /\ pos[t] \in {"query", "reading", "closing"} }

Pooled == IsFiniteSet(conns) /\ Cardinality(conns) <= PoolSize

Tidy(t) ==
  \A i \in LeftOpen(t) :
    \/ \E j \in 1..i : <<t, j>> \in unclosed
    \/ choice = "neptune" /\ failed[t] /\ i = 1 /\ part[t] = 2

IInv ==
  /\ TypeOK /\ Configured /\ Holding /\ Pooled
  /\ \A t \in Tasks : Placed(t) /\ Tidy(t)

LEMMA IInvIsEnough == IInv => NothingStaysOpen
BY DEF IInv, Holding, Pooled, Tidy, NothingStaysOpen

LEMMA Freed ==
  ASSUME Pooled, NEW t
  PROVE  IsFiniteSet(conns \ {t}) /\ Cardinality(conns \ {t}) <= PoolSize
PROOF
<1>1. PoolSize \in Nat /\ Cardinality(conns) \in Nat
  BY ClientAssumption, FS_CardinalityType DEF Pooled
<1> QED
  BY <1>1, FS_RemoveElement DEF Pooled

LEMMA OpenedType ==
  ASSUME TypeOK, NEW t \in Tasks
  PROVE  /\ stream[t] \in Readers /\ Opened(t) \in Nat
         /\ DOMAIN stream[t].streams = 1..Opened(t)
BY ReaderFields, LenProperties DEF TypeOK, Opened

\* It holds when the application starts, with any environment.
THEOREM Initially == Init => IInv
PROOF
<1> SUFFICES ASSUME Init PROVE IInv
  OBVIOUS
<1> USE DEF Init
<1>1. <<>> \in Seq(RowsOfDB) /\ Len(<<>>) = 0 /\ <<>> \in Rows
  BY EmptySeq DEF Rows
<1>2. NewReader(<<>>) \in Readers /\ NewReader(<<>>).streams = <<>>
  BY <1>1, NewReaderType
<1>3. PICK W \in Workloads : pos = [t \in Tasks |-> IF t \in W THEN "idle" ELSE "absent"]
  OBVIOUS
<1>4. MaxNews \in Nat /\ MaxEdits \in Nat /\ PoolSize \in Nat /\ MaxResponses \in Nat
  BY ClientAssumption
<1>5. \A t \in Tasks : Opened(t) = 0
  BY <1>1, <1>2 DEF Opened
<1>6. TypeOK
  <2>1. Status("none").status \in Statuses
    BY DEF Status, Statuses
  <2> QED
    BY <1>1, <1>2, <1>3, <1>4, <2>1 DEF TypeOK
<1>7. Configured
  BY DEF Configured
<1>8. Holding /\ Pooled
  BY <1>3, <1>4, FS_EmptySet DEF Holding, Pooled
<1>9. ASSUME NEW t \in Tasks PROVE Placed(t) /\ Tidy(t)
  BY <1>3, <1>5 DEF Placed, Tidy, LeftOpen, Ended
<1> QED
  BY <1>6, <1>7, <1>8, <1>9 DEF IInv

------------------------------------------------------------------------------
(* Every step keeps it.                                                    *)

LEMMA Unmoved ==
  ASSUME NEW u \in Tasks, Placed(u), Tidy(u), choice' = choice,
         pos'[u] = pos[u], part'[u] = part[u], stream'[u] = stream[u], failed'[u] = failed[u],
         unclosed \subseteq unclosed'
  PROVE  Placed(u)' /\ Tidy(u)'
PROOF
<1>1. Opened(u)' = Opened(u) /\ LeftOpen(u)' = LeftOpen(u)
  BY DEF Opened, LeftOpen, Ended
<1>2. Placed(u)'
  BY <1>1 DEF Placed
<1>3. Tidy(u)'
  BY <1>1 DEF Tidy
<1> QED
  BY <1>2, <1>3

LEMMA NewKeeps == ASSUME IInv, NEW s \in Stores, New(s) PROVE IInv'
PROOF
<1> USE DEF New
<1>1. PICK g \in Get : /\ cfg' = g.cfg
                       /\ store' = [store EXCEPT ![s] = IF g.err \/ ~Implements(g.cfg) THEN "failed" ELSE "open"]
  OBVIOUS
<1>2. g.cfg \in {"nil", "incomplete", "complete"} /\ (cfg # "nil" => g.cfg = cfg)
      /\ (g.cfg = "complete" => choice # "none")
  BY DEF IInv, Configured, TypeOK, Get, Instantiate
<1>3. TypeOK'
  <2>1. tries' \in [Stores -> 0..MaxNews]
    BY ClientAssumption DEF IInv, TypeOK
  <2> QED
    BY <1>1, <1>2, <2>1 DEF IInv, TypeOK, lists
<1>4. Configured'
  BY <1>1, <1>2 DEF IInv, TypeOK, Configured, Implements
<1>5. Holding' /\ Pooled'
  BY DEF IInv, Holding, Pooled
<1>6. ASSUME NEW u \in Tasks PROVE Placed(u)' /\ Tidy(u)'
  BY Unmoved DEF IInv
<1> QED
  BY <1>3, <1>4, <1>5, <1>6 DEF IInv

LEMMA CallKeeps == ASSUME IInv, NEW t \in Tasks, Call(t) PROVE IInv'
PROOF
<1> USE DEF Call
<1>1. /\ TypeOK /\ Configured /\ Holding /\ Pooled
      /\ pos[t] = "idle" /\ Placed(t) /\ part[t] = 1 /\ Opened(t) = 0
  BY DEF IInv, Placed
<1>2. cfg = "complete" /\ choice # "none" /\ choice \in {"neo4j", "neptune", "mock"}
  <2>1. StoreOf(t) \in Stores
    BY DEF StoreOf, Stores
  <2> QED
    BY <1>1, <2>1, ClientAssumption DEF Configured, TypeOK
<1>3. \E p \in {"open", "query", "ended"} :
        /\ pos' = [pos EXCEPT ![t] = p]
        /\ p = "open" => choice = "neo4j"
        /\ p = "query" => choice = "neptune"
  BY <1>2 DEF Return, NoStatement
<1>4. PICK p \in {"open", "query", "ended"} :
        pos' = [pos EXCEPT ![t] = p] /\ (p = "open" => choice = "neo4j") /\ (p = "query" => choice = "neptune")
  BY <1>3
<1>5. DOMAIN answer' = Tasks /\ \A u \in Tasks : answer'[u].status \in Statuses
  <2>1. AtOnce(t).status \in Statuses
    BY <1>2 DEF AtOnce, MockAnswer, Failed, NotImplemented, Ok, Statuses
  <2>2. answer' = answer \/ \E a : a.status \in Statuses /\ answer' = [answer EXCEPT ![t] = a]
    BY <1>2, <2>1 DEF Return
  <2> QED
    BY <1>1, <2>2 DEF TypeOK
<1>6. TypeOK'
  <2>1. pos' \in [Tasks -> {"absent", "idle", "open", "query", "reading", "closing", "ended"}]
    BY <1>1, <1>4 DEF TypeOK
  <2>2. seen' \in [Tasks -> SUBSET Databases]
    BY <1>1 DEF TypeOK
  <2> QED
    BY <1>1, <1>5, <2>1, <2>2 DEF TypeOK, config
<1>7. Configured'
  BY <1>1 DEF Configured, config
<1>8. Holding' /\ Pooled'
  BY <1>1, <1>4 DEF Holding, Pooled, TypeOK, config
<1>9. Placed(t)' /\ Tidy(t)'
  <2>1. Opened(t)' = 0 /\ pos'[t] = p
    BY <1>1, <1>4 DEF Opened, TypeOK
  <2>2. Placed(t)'
    BY <1>1, <1>4, <2>1 DEF Placed, config
  <2>3. LeftOpen(t)' = {}
    BY <1>1, OpenedType DEF LeftOpen
  <2> QED
    BY <2>2, <2>3 DEF Tidy
<1>10. ASSUME NEW u \in Tasks, u # t PROVE Placed(u)' /\ Tidy(u)'
  BY <1>1, <1>4, <1>10, Unmoved DEF IInv, TypeOK, config
<1> QED
  BY <1>6, <1>7, <1>8, <1>9, <1>10 DEF IInv

LEMMA OpenPoolKeeps == ASSUME IInv, NEW t \in Tasks, OpenPool(t) PROVE IInv'
PROOF
<1> USE DEF OpenPool, config, lists
<1>1. /\ TypeOK /\ Configured /\ Holding /\ Pooled
      /\ pos[t] = "open" /\ Placed(t) /\ choice = "neo4j" /\ Opened(t) = 0
  BY DEF IInv, Placed
<1>2. TypeOK'
  BY <1>1 DEF TypeOK
<1>3. Configured'
  BY <1>1 DEF Configured
<1>4. Holding'
  BY <1>1 DEF Holding, TypeOK
<1>5. Pooled'
  <2>1. Cardinality(conns) \in Nat /\ PoolSize \in Nat
    BY <1>1, ClientAssumption, FS_CardinalityType DEF Pooled
  <2>2. IsFiniteSet(conns)
    BY <1>1 DEF Pooled
  <2>3. /\ IsFiniteSet(conns \cup {t})
        /\ Cardinality(conns \cup {t}) = IF t \in conns THEN Cardinality(conns) ELSE Cardinality(conns) + 1
    BY <2>2, FS_AddElement
  <2> QED
    BY <2>1, <2>3 DEF Pooled
<1>6. Placed(t)' /\ Tidy(t)'
  BY <1>1 DEF Placed, Opened, Tidy, LeftOpen, Ended, TypeOK
<1>7. ASSUME NEW u \in Tasks, u # t PROVE Placed(u)' /\ Tidy(u)'
  BY <1>1, <1>7, Unmoved DEF IInv, TypeOK
<1> QED
  BY <1>2, <1>3, <1>4, <1>5, <1>6, <1>7 DEF IInv

\* A call that returns without a stream.
LEMMA ReturnKeeps ==
  ASSUME IInv, NEW t \in Tasks, pos[t] \in {"open", "query"}, NEW a, a.status \in Statuses, Return(t, a),
         conns' = conns \ {t}, UNCHANGED <<config, db, edits, seen, part, stream, delivered, unclosed>>,
         responses' \in [Tasks -> 0..MaxResponses],
         hasOrder' \in [Tasks -> BOOLEAN], failed' \in [Tasks -> BOOLEAN],
         \A u \in Tasks \ {t} : failed'[u] = failed[u],
         Opened(t) > 0 => choice = "neptune" /\ failed'[t] /\ part[t] = 2 /\ Opened(t) = 1
  PROVE  IInv'
PROOF
<1> USE DEF Return, config
<1>1. TypeOK /\ Configured /\ Holding /\ Pooled /\ Placed(t)
  BY DEF IInv
<1>2. TypeOK'
  BY <1>1 DEF TypeOK
<1>3. Configured'
  BY <1>1 DEF Configured
<1>4. Holding'
  BY <1>1 DEF Holding, TypeOK
<1>5. Pooled'
  BY <1>1, Freed DEF Pooled
<1>6. Placed(t)'
  BY <1>1 DEF Placed, Opened, TypeOK
<1>7. Tidy(t)'
  <2>1. LeftOpen(t)' \subseteq 1..Opened(t)
    BY <1>1, OpenedType DEF LeftOpen
  <2>2. Opened(t) \in Nat
    BY <1>1, OpenedType
  <2> QED
    BY <2>1, <2>2 DEF Tidy
<1>8. ASSUME NEW u \in Tasks, u # t PROVE Placed(u)' /\ Tidy(u)'
  BY <1>1, <1>8, Unmoved DEF IInv, TypeOK
<1> QED
  BY <1>2, <1>3, <1>4, <1>5, <1>6, <1>7, <1>8 DEF IInv

LEMMA PrepareKeeps == ASSUME IInv, NEW t \in Tasks, Prepare(t) PROVE IInv'
PROOF
<1>1. /\ TypeOK /\ Configured /\ Holding /\ Pooled
      /\ pos[t] = "query" /\ ~IsStream(t) /\ Placed(t) /\ Opened(t) = 0 /\ choice \in {"neo4j", "neptune"}
  BY DEF IInv, Placed, Prepare
<1>2. hasOrder' \in [Tasks -> BOOLEAN]
  BY <1>1 DEF Prepare, TypeOK
<1>3. CASE choice = "neo4j" /\ NotFound \in NeoGetEdition(db, t.q)
  <2>1. NotFound.status \in Statuses
    BY DEF NotFound, Statuses
  <2>2. /\ Return(t, NotFound) /\ conns' = conns \ {t}
        /\ UNCHANGED <<config, lists, part, failed, stream, delivered, unclosed>>
    BY <1>3 DEF Prepare
  <2> QED
    BY <1>1, <1>2, <2>1, <2>2, ReturnKeeps DEF TypeOK, lists
<1>4. CASE ~(choice = "neo4j" /\ NotFound \in NeoGetEdition(db, t.q))
  <2> USE DEF config, lists
  <2>1. /\ pos' = [pos EXCEPT ![t] = IF choice = "neo4j" THEN "open" ELSE "query"]
        /\ part' = [part EXCEPT ![t] = 2] /\ conns' = conns \ {t}
        /\ UNCHANGED <<config, lists, failed, answer, stream, delivered, unclosed>>
    BY <1>4 DEF Prepare
  <2>2. TypeOK'
    BY <1>1, <1>2, <2>1 DEF TypeOK
  <2>3. Configured'
    BY <1>1, <2>1 DEF Configured
  <2>4. Holding'
    BY <1>1, <2>1 DEF Holding, TypeOK
  <2>5. Pooled'
    BY <1>1, <2>1, Freed DEF Pooled
  <2>6. Placed(t)' /\ Tidy(t)'
    BY <1>1, <2>1 DEF Placed, Opened, Tidy, LeftOpen, Ended, TypeOK
  <2>7. ASSUME NEW u \in Tasks, u # t PROVE Placed(u)' /\ Tidy(u)'
    BY <1>1, <2>1, <2>7, Unmoved DEF IInv, TypeOK
  <2> QED
    BY <2>2, <2>3, <2>4, <2>5, <2>6, <2>7 DEF IInv
<1> QED
  BY <1>3, <1>4

LEMMA QueryKeeps == ASSUME IInv, NEW t \in Tasks, Query(t) PROVE IInv'
PROOF
<1>1. pos[t] = "query" /\ TypeOK /\ Opened(t) = 0
  BY DEF IInv, Placed, Query
<1>2. PICK n \in 1..MaxResponses : /\ responses' = [responses EXCEPT ![t] = n]
                                    /\ \E a \in Answers(t, n) : Return(t, a)
  <2>1. 1 \in 1..MaxResponses
    BY ClientAssumption
  <2> QED
    BY <2>1 DEF Query
<1>3. PICK a \in Answers(t, n) : Return(t, a)
  BY <1>2
<1>4. a.status \in Statuses
  BY AnswersAreKnown
<1>5. conns' = conns \ {t} /\ UNCHANGED <<config, db, edits, seen, part, hasOrder, failed, stream, delivered, unclosed>>
  BY DEF Query
<1>6. responses' \in [Tasks -> 0..MaxResponses]
  BY <1>1, <1>2 DEF TypeOK
<1> QED
  BY <1>1, <1>3, <1>4, <1>5, <1>6, ReturnKeeps DEF TypeOK

LEMMA FailKeeps == ASSUME IInv, NEW t \in Tasks, Fail(t) PROVE IInv'
PROOF
<1>1. pos[t] \in {"open", "query"} /\ TypeOK /\ Placed(t)
  BY DEF IInv, Fail, CanFail
<1>2. Failure(t).status \in Statuses
  BY DEF Failure, Critical, Status, NotFound, Failed, Statuses
<1>3. /\ failed' = [failed EXCEPT ![t] = TRUE] /\ Return(t, Failure(t)) /\ conns' = conns \ {t}
      /\ UNCHANGED <<config, lists, part, hasOrder, stream, delivered, unclosed>>
  BY DEF Fail, CanFail
<1>4. Opened(t) > 0 => choice = "neptune" /\ failed'[t] /\ part[t] = 2 /\ Opened(t) = 1
  BY <1>1, <1>3 DEF Placed, TypeOK
<1>5. failed' \in [Tasks -> BOOLEAN] /\ \A u \in Tasks \ {t} : failed'[u] = failed[u]
  BY <1>1, <1>3 DEF TypeOK
<1> QED
  BY <1>1, <1>2, <1>3, <1>4, <1>5, ReturnKeeps DEF TypeOK, lists

LEMMA OpenStreamsKeeps == ASSUME IInv, NEW t \in Tasks, OpenStreams(t) PROVE IInv'
PROOF
<1> USE DEF config, lists
<1>1. /\ TypeOK /\ Configured /\ Holding /\ Pooled
      /\ pos[t] = "query" /\ IsStream(t) /\ Placed(t) /\ choice \in {"neo4j", "neptune"}
      /\ UNCHANGED <<config, lists, conns, hasOrder, failed, answer, delivered, unclosed>>
  BY DEF IInv, Placed, OpenStreams
<1> DEFINE streams == IF choice = "neo4j" THEN <<OpenStream(Header(t) \o Selected(t))>>
                      ELSE IF part[t] = 1 THEN <<OpenStream(Header(t))>>
                      ELSE <<stream[t].streams[1], OpenStream(Selected(t))>>
<1>2. stream' = [stream EXCEPT ![t] = NewReader(streams)]
  BY DEF OpenStreams
<1>3. /\ streams \in Seq(RowsOfDB)
      /\ Len(streams) = IF choice = "neptune" /\ part[t] # 1 THEN 2 ELSE 1
  <2>1. choice = "neptune" /\ part[t] # 1 => stream[t].streams[1] \in RowsOfDB
    <3> SUFFICES ASSUME choice = "neptune", part[t] # 1 PROVE stream[t].streams[1] \in RowsOfDB
      OBVIOUS
    <3>1. Opened(t) = 1
      BY <1>1 DEF Placed, TypeOK
    <3>2. stream[t].streams \in Seq(RowsOfDB) /\ 1 \in 1..Len(stream[t].streams)
      BY <1>1, <3>1, OpenedType, ReaderFields DEF Opened
    <3> QED
      BY <3>2, ElementOfSeq
  <2> QED
    BY <1>1, <2>1, RowsOfStreams
<1> HIDE DEF streams
<1>4. NewReader(streams) \in Readers /\ NewReader(streams).streams = streams
  BY <1>3, NewReaderType
<1>5. \/ /\ choice = "neptune" /\ part[t] = 1 /\ part' = [part EXCEPT ![t] = 2] /\ pos' = pos
      \/ /\ choice = "neo4j" \/ part[t] # 1
         /\ pos' = [pos EXCEPT ![t] = "reading"] /\ part' = part
  BY <1>1 DEF OpenStreams, Prepares, ChecksEdition, IsStream
<1>6. TypeOK'
  BY <1>1, <1>2, <1>4, <1>5 DEF TypeOK
<1>7. Configured'
  BY <1>1 DEF Configured
<1>8. Holding' /\ Pooled'
  BY <1>1, <1>5 DEF Holding, Pooled, TypeOK
<1>9. Opened(t)' = Len(streams)
  BY <1>1, <1>2, <1>4 DEF Opened, TypeOK
<1>10. Placed(t)'
  BY <1>1, <1>3, <1>5, <1>9 DEF Placed, TypeOK
<1>11. Tidy(t)'
  BY <1>1, <1>5 DEF Tidy, LeftOpen, Ended, TypeOK
<1>12. ASSUME NEW u \in Tasks, u # t PROVE Placed(u)' /\ Tidy(u)'
  BY <1>1, <1>2, <1>5, <1>12, Unmoved DEF IInv, TypeOK
<1> QED
  BY <1>6, <1>7, <1>8, <1>10, <1>11, <1>12 DEF IInv

\* The application goes on reading, or stops to close the stream.
LEMMA ReadingKeeps ==
  ASSUME IInv, NEW t \in Tasks, pos[t] = "reading", NEW r \in Readers, Len(r.streams) = Opened(t),
         stream' = [stream EXCEPT ![t] = r], delivered' \in [Tasks -> Rows],
         NEW e \in Statuses, UNCHANGED <<pos, answer>> \/ Stop(t, e),
         failed' \in [Tasks -> BOOLEAN], \A u \in Tasks \ {t} : failed'[u] = failed[u],
         UNCHANGED <<config, lists, conns, part, hasOrder, unclosed>>
  PROVE  IInv'
PROOF
<1> USE DEF Stop, Status, config, lists
<1>1. TypeOK /\ Configured /\ Holding /\ Pooled /\ Placed(t)
  BY DEF IInv
<1>2. TypeOK'
  <2>1. stream' \in [Tasks -> Readers]
    BY <1>1 DEF TypeOK
  <2>2. pos' \in [Tasks -> {"absent", "idle", "open", "query", "reading", "closing", "ended"}]
    BY <1>1 DEF TypeOK
  <2>3. DOMAIN answer' = Tasks
    BY <1>1 DEF TypeOK
  <2>4. ASSUME NEW u \in Tasks PROVE answer'[u].status \in Statuses
    <3>1. DOMAIN answer = Tasks /\ answer[u].status \in Statuses
      BY <1>1 DEF TypeOK
    <3>2. answer' = answer \/ answer' = [answer EXCEPT ![t] = Status(e)]
      OBVIOUS
    <3>3. Status(e).status = e
      OBVIOUS
    <3>4. answer'[u] = answer[u] \/ answer'[u] = Status(e)
      BY <3>1, <3>2
    <3> QED
      BY <3>1, <3>3, <3>4
  <2> QED
    BY <1>1, <2>1, <2>2, <2>3, <2>4 DEF TypeOK
<1>3. Configured'
  BY <1>1 DEF Configured
<1>4. Holding' /\ Pooled'
  BY <1>1 DEF Holding, Pooled, TypeOK
<1>5. Opened(t)' = Opened(t)
  BY <1>1 DEF Opened, TypeOK
<1>6. Placed(t)'
  BY <1>1, <1>5 DEF Placed, TypeOK
<1>7. Tidy(t)'
  BY <1>1 DEF Tidy, LeftOpen, Ended, TypeOK
<1>8. ASSUME NEW u \in Tasks, u # t PROVE Placed(u)' /\ Tidy(u)'
  BY <1>1, <1>8, Unmoved DEF IInv, TypeOK
<1> QED
  BY <1>2, <1>3, <1>4, <1>6, <1>7, <1>8 DEF IInv

LEMMA ReadKeeps == ASSUME IInv, NEW t \in Tasks, NEW n \in Sizes, Read(t, n) PROVE IInv'
PROOF
<1>1. TypeOK /\ pos[t] = "reading" /\ Placed(t) /\ n \in Nat
  BY ClientAssumption DEF IInv, Read
<1> DEFINE r   == stream[t]
           res == IF r.buffer = <<>> THEN ReadRow(r) ELSE Result(r.buffer, "none", r)
           b   == CopyBuffer(IF r.buffer = <<>> THEN Buffer(res) ELSE r, n)
<1>2. r \in Readers /\ Len(r.streams) > 0 /\ r.buffer \in Rows /\ Len(r.streams) = Opened(t)
  BY <1>1, OpenedType, ReaderFields DEF Placed, Opened
<1>3. res.row \in Rows /\ res.err \in Statuses /\ res.reader \in Readers /\ Len(res.reader.streams) = Opened(t)
  <2>1. CASE r.buffer = <<>>
    BY <1>2, <2>1, ReadRowType
  <2>2. CASE r.buffer # <<>>
    <3>1. "none" \in Statuses
      BY DEF Statuses
    <3> QED
      BY <1>2, <2>2, <3>1 DEF Result
  <2> QED
    BY <2>1, <2>2
<1>4. /\ UNCHANGED <<config, lists, conns, part, hasOrder, failed, unclosed>>
      /\ \/ /\ stream' = [stream EXCEPT ![t] = b.reader]
            /\ delivered' = [delivered EXCEPT ![t] = @ \o b.bytes]
            /\ UNCHANGED <<pos, answer>> \/ Stop(t, "EOF")
         \/ Stop(t, res.err) /\ UNCHANGED <<stream, delivered>>
  BY DEF Read
<1> HIDE DEF res
<1>5. b.bytes \in Rows /\ b.reader \in Readers /\ Len(b.reader.streams) = Opened(t)
  BY <1>1, <1>2, <1>3, BufferType, CopyBufferType
<1> HIDE DEF b
<1>6. "EOF" \in Statuses /\ failed \in [Tasks -> BOOLEAN] /\ delivered \in [Tasks -> Rows]
  BY <1>1 DEF Statuses, TypeOK
<1>7. CASE /\ stream' = [stream EXCEPT ![t] = b.reader]
           /\ delivered' = [delivered EXCEPT ![t] = @ \o b.bytes]
           /\ UNCHANGED <<pos, answer>> \/ Stop(t, "EOF")
  <2>1. delivered[t] \o b.bytes \in Rows
    BY <1>5, <1>6, ConcatProperties DEF Rows
  <2>2. delivered' \in [Tasks -> Rows]
    BY <1>6, <1>7, <2>1
  <2> QED
    BY <1>1, <1>4, <1>5, <1>6, <1>7, <2>2, ReadingKeeps
<1>8. CASE Stop(t, res.err) /\ UNCHANGED <<stream, delivered>>
  <2>1. stream' = [stream EXCEPT ![t] = r]
    BY <1>1, <1>8 DEF TypeOK
  <2> QED
    BY <1>1, <1>2, <1>3, <1>4, <1>6, <1>8, <2>1, ReadingKeeps
<1> QED
  BY <1>4, <1>7, <1>8

LEMMA ReadFailsKeeps == ASSUME IInv, NEW t \in Tasks, ReadFails(t) PROVE IInv'
PROOF
<1>1. /\ TypeOK /\ pos[t] = "reading" /\ Stop(t, "error") /\ failed' = [failed EXCEPT ![t] = TRUE]
      /\ UNCHANGED <<config, lists, conns, part, hasOrder, stream, delivered, unclosed>>
  BY DEF IInv, ReadFails
<1>2. stream[t] \in Readers /\ Len(stream[t].streams) = Opened(t)
  BY <1>1 DEF TypeOK, Opened
<1>3. stream' = [stream EXCEPT ![t] = stream[t]]
  BY <1>1 DEF TypeOK
<1>4. "error" \in Statuses /\ delivered' \in [Tasks -> Rows] /\ failed' \in [Tasks -> BOOLEAN]
  BY <1>1 DEF Statuses, TypeOK
<1>5. \A u \in Tasks \ {t} : failed'[u] = failed[u]
  BY <1>1 DEF TypeOK
<1> QED
  BY <1>1, <1>2, <1>3, <1>4, <1>5, ReadingKeeps

LEMMA CloseKeeps == ASSUME IInv, NEW t \in Tasks, Close(t) PROVE IInv'
PROOF
<1> USE DEF config, lists
<1>1. /\ TypeOK /\ Configured /\ Holding /\ Pooled /\ Placed(t)
      /\ pos[t] \in {"reading", "closing"} /\ conns' = conns \ {t} /\ pos' = [pos EXCEPT ![t] = "ended"]
      /\ UNCHANGED <<config, lists, part, hasOrder, failed, answer, delivered>>
  BY DEF IInv, Close
<1>2. PICK fails \in {0} \cup DOMAIN stream[t].streams :
        /\ stream' = [stream EXCEPT ![t] = CompositeClose(@, fails)]
        /\ unclosed' = IF fails = 0 THEN unclosed ELSE unclosed \cup {<<t, fails>>}
  BY DEF Close
<1>3. stream[t] \in Readers /\ Opened(t) \in 1..2 /\ fails \in 0..Opened(t)
  BY <1>1, OpenedType DEF Placed
<1> DEFINE q == CompositeClose(stream[t], fails)
<1>4. /\ q \in Readers /\ Len(q.streams) = Opened(t)
      /\ \A i \in DOMAIN q.streams : q.streams[i].open => fails # 0 /\ fails <= i
  BY <1>3, CompositeCloseType DEF Opened
<1>5. stream' = [stream EXCEPT ![t] = q]
  BY <1>1, <1>2 DEF TypeOK
<1> HIDE DEF q
<1>6. stream' \in [Tasks -> Readers] /\ stream'[t] = q
  BY <1>1, <1>4, <1>5 DEF TypeOK
<1>7. unclosed' \subseteq Tasks \X (1..2) /\ unclosed \subseteq unclosed'
  BY <1>1, <1>2, <1>3 DEF TypeOK
<1>8. TypeOK'
  BY <1>1, <1>6, <1>7 DEF TypeOK
<1>9. Configured'
  BY <1>1 DEF Configured
<1>10. Holding'
  BY <1>1 DEF Holding, TypeOK
<1>11. Pooled'
  BY <1>1, Freed DEF Pooled
<1>12. Placed(t)'
  BY <1>1, <1>4, <1>6 DEF Placed, Opened, TypeOK
<1>13. Tidy(t)'
  <2>1. DOMAIN q.streams = 1..Opened(t)
    BY <1>3, <1>4, ReaderFields, LenProperties
  <2>2. \A i \in LeftOpen(t)' : i \in 1..Opened(t) /\ fails # 0 /\ fails <= i
    BY <1>4, <1>6, <2>1 DEF LeftOpen
  <2>3. ASSUME NEW i \in LeftOpen(t)' PROVE fails \in 1..i /\ <<t, fails>> \in unclosed'
    BY <1>2, <1>3, <2>2, <2>3
  <2> QED
    BY <2>3 DEF Tidy
<1>14. ASSUME NEW u \in Tasks, u # t PROVE Placed(u)' /\ Tidy(u)'
  BY <1>1, <1>5, <1>7, <1>14, Unmoved DEF IInv, TypeOK
<1> QED
  BY <1>8, <1>9, <1>10, <1>11, <1>12, <1>13, <1>14 DEF IInv

LEMMA EditKeeps == ASSUME IInv, Edit PROVE IInv'
PROOF
<1> USE DEF Edit
<1>1. TypeOK'
  BY ClientAssumption DEF IInv, TypeOK, config
<1>2. Configured' /\ Holding' /\ Pooled'
  BY DEF IInv, Configured, Holding, Pooled, config
<1>3. ASSUME NEW u \in Tasks PROVE Placed(u)' /\ Tidy(u)'
  BY <1>3, Unmoved DEF IInv, config
<1> QED
  BY <1>1, <1>2, <1>3 DEF IInv

\* Each step of the application, of a call or of an editor keeps it.
THEOREM Inductive == IInv /\ [Next]_vars => IInv'
PROOF
<1> SUFFICES ASSUME IInv, [Next]_vars PROVE IInv'
  OBVIOUS
<1>1. ASSUME UNCHANGED vars PROVE IInv'
  <2> USE <1>1 DEF vars, config, lists
  <2>1. TypeOK'
    BY DEF IInv, TypeOK
  <2>2. Configured' /\ Holding' /\ Pooled'
    BY DEF IInv, Configured, Holding, Pooled
  <2>3. ASSUME NEW u \in Tasks PROVE Placed(u)' /\ Tidy(u)'
    BY <2>3, Unmoved DEF IInv
  <2> QED
    BY <2>1, <2>2, <2>3 DEF IInv
<1>2. ASSUME NEW s \in Stores, New(s) PROVE IInv'
  BY <1>2, NewKeeps
<1>3. ASSUME NEW t \in Tasks, Call(t) PROVE IInv'
  BY <1>3, CallKeeps
<1>4. ASSUME NEW t \in Tasks, Step(t) PROVE IInv'
  BY <1>4, OpenPoolKeeps, PrepareKeeps, QueryKeeps, FailKeeps, OpenStreamsKeeps, ReadKeeps,
     ReadFailsKeeps, CloseKeeps DEF Step, Proceed
<1> QED
  BY <1>1, <1>2, <1>3, <1>4, EditKeeps DEF Next, Idle

\* So it holds in every behaviour of the clients.
THEOREM Invariance == Spec => []IInv
BY Initially, Inductive, PTL DEF Spec

------------------------------------------------------------------------------
(* What follows from it.                                                   *)

\* The variables keep their types, and no call meets a store without a driver
\* (config.Get, graph.New).
THEOREM TypeCorrect == Spec => []TypeOK
<1>1. IInv => TypeOK
  BY DEF IInv
<1> QED
  BY <1>1, Invariance, PTL

\* Every connection and every stream that a call takes is given back, whatever
\* fails and however many calls there are (Read, StreamRows, Pool.Rows,
\* StreamCSVRows, CompositeRowReader.Close), but for the cases it names.
THEOREM NothingStaysOpenAlways == Spec => []NothingStaysOpen
BY IInvIsEnough, Invariance, PTL

------------------------------------------------------------------------------
(* Sequences of sequences.                                                 *)

\* f[i] is the concatenation of the first i members of ss.
Joins(f, ss, n) ==
  f = [i \in 1..n |-> IF i = 1 THEN ss[i] ELSE f[i - 1] \o ss[i]]

LEMMA JoinsExist ==
  ASSUME NEW S, NEW ss \in Seq(Seq(S)), NEW m \in 1..Len(ss)
  PROVE  \E f : Joins(f, ss, m)
PROOF
<1> DEFINE G == { n \in Nat : \E f : Joins(f, ss, n) }
<1>1. Len(ss) \in Nat
  BY LenProperties
<1>2. 1 \in G
  <2> DEFINE f == [i \in 1..1 |-> ss[1]]
  <2>1. Joins(f, ss, 1)
    BY DEF Joins
  <2> QED
    BY <2>1
<1>3. ASSUME NEW k \in 1..(Len(ss) - 1), k \in G PROVE k + 1 \in G
  <2>1. k \in Nat /\ k >= 1
    OBVIOUS
  <2>2. PICK f : Joins(f, ss, k)
    BY <1>3
  <2> DEFINE g == [i \in 1..(k + 1) |-> IF i = k + 1 THEN f[k] \o ss[k + 1] ELSE f[i]]
  <2>3. ASSUME NEW i \in 1..(k + 1) PROVE g[i] = IF i = 1 THEN ss[i] ELSE g[i - 1] \o ss[i]
    <3>1. CASE i = k + 1
      <4>1. i # 1 /\ i - 1 = k /\ k \in 1..(k + 1) /\ k # k + 1
        BY <2>1, <3>1
      <4>2. g[i] = f[k] \o ss[i] /\ g[k] = f[k]
        BY <3>1, <4>1
      <4> HIDE DEF g
      <4> QED
        BY <4>1, <4>2
    <3>2. CASE i # k + 1
      <4>1. i \in 1..k
        BY <2>1, <3>2
      <4>2. f[i] = IF i = 1 THEN ss[i] ELSE f[i - 1] \o ss[i]
        BY <2>2, <4>1 DEF Joins
      <4>3. i # 1 => i - 1 \in 1..(k + 1) /\ i - 1 # k + 1
        BY <2>1, <4>1
      <4>4. g[i] = f[i] /\ (i # 1 => g[i - 1] = f[i - 1])
        BY <3>2, <4>3
      <4> HIDE DEF g
      <4> QED
        BY <4>2, <4>4
    <3> QED
      BY <3>1, <3>2
  <2>4. g = [i \in 1..(k + 1) |-> g[i]]
    OBVIOUS
  <2> HIDE DEF g
  <2>5. g = [i \in 1..(k + 1) |-> IF i = 1 THEN ss[i] ELSE g[i - 1] \o ss[i]]
    BY <2>3, <2>4
  <2>6. Joins(g, ss, k + 1)
    BY <2>5 DEF Joins
  <2> QED
    BY <2>1, <2>6
<1> HIDE DEF G
<1>4. 1..Len(ss) \subseteq G
  BY <1>1, <1>2, <1>3, CountingUp
<1> QED
  BY <1>4 DEF G

\* It does not matter which two of three sequences are joined first.
Associate(a, b, c) == (a \o b) \o c = a \o (b \o c)

LEMMA JoiningAssociates ==
  ASSUME NEW S, NEW a \in Seq(S), NEW b \in Seq(S), NEW c \in Seq(S)
  PROVE  Associate(a, b, c)
BY ConcatAssociative, Z3 DEF Associate

LEMMA JoinsType ==
  ASSUME NEW S, NEW ss \in Seq(Seq(S)), NEW f, NEW m \in 1..Len(ss), Joins(f, ss, m)
  PROVE  \A n \in 1..m : f[n] \in Seq(S)
PROOF
<1> DEFINE G == { n \in 1..m : f[n] \in Seq(S) }
<1>1. Len(ss) \in Nat /\ m \in Nat /\ m >= 1 /\ m <= Len(ss)
  BY LenProperties
<1>2. \A i \in 1..m : ss[i] \in Seq(S)
  BY <1>1, ElementOfSeq
<1>3. f[1] = ss[1] /\ \A i \in 1..(m - 1) : f[i + 1] = f[i] \o ss[i + 1]
  <2>1. f[1] = ss[1]
    BY <1>1 DEF Joins
  <2>2. ASSUME NEW i \in 1..(m - 1) PROVE f[i + 1] = f[i] \o ss[i + 1]
    <3>1. i + 1 \in 1..m /\ i + 1 # 1 /\ (i + 1) - 1 = i
      BY <1>1
    <3> QED
      BY <3>1 DEF Joins
  <2> QED
    BY <2>1, <2>2
<1>4. 1 \in G
  BY <1>1, <1>2, <1>3
<1>5. ASSUME NEW i \in 1..(m - 1), i \in G PROVE i + 1 \in G
  <2>1. i + 1 \in 1..m /\ f[i] \in Seq(S)
    BY <1>1, <1>5
  <2>2. f[i] \o ss[i + 1] \in Seq(S)
    BY <1>2, <2>1, ConcatProperties
  <2> QED
    BY <1>3, <2>1, <2>2
<1> HIDE DEF G
<1>6. 1..m \subseteq G
  BY <1>1, <1>4, <1>5, CountingUp
<1> QED
  BY <1>6 DEF G

LEMMA FlattenIsJoin ==
  ASSUME NEW S, NEW ss \in Seq(Seq(S)), ss # <<>>
  PROVE  \E f : Joins(f, ss, Len(ss)) /\ FlattenSeq(ss) = f[Len(ss)]
PROOF
<1>1. Len(ss) \in 1..Len(ss) /\ Len(ss) # 0
  BY EmptySeq, LenProperties
<1> DEFINE g == CHOOSE f : f = [i \in 1..Len(ss) |-> IF i = 1 THEN ss[i] ELSE f[i - 1] \o ss[i]]
<1>2. \E f : f = [i \in 1..Len(ss) |-> IF i = 1 THEN ss[i] ELSE f[i - 1] \o ss[i]]
  BY <1>1, JoinsExist DEF Joins
<1>3. g = [i \in 1..Len(ss) |-> IF i = 1 THEN ss[i] ELSE g[i - 1] \o ss[i]]
  BY <1>2
<1>4. FlattenSeq(ss) = g[Len(ss)]
  BY <1>1 DEF FlattenSeq
<1> HIDE DEF g
<1> QED
  BY <1>3, <1>4 DEF Joins

LEMMA FlattenFirst ==
  ASSUME NEW S, NEW ss \in Seq(Seq(S)), ss # <<>>
  PROVE  FlattenSeq(ss) = Head(ss) \o FlattenSeq(Tail(ss)) /\ FlattenSeq(ss) \in Seq(S)
PROOF
<1> DEFINE n == Len(ss)
           ts == Tail(ss)
<1>1. n \in Nat /\ n >= 1 /\ ss[1] = Head(ss) /\ \A i \in 1..n : ss[i] \in Seq(S)
  BY EmptySeq, LenProperties, ElementOfSeq
<1>2. ts \in Seq(Seq(S)) /\ Len(ts) = n - 1 /\ \A i \in 1..(n - 1) : ts[i] = ss[i + 1]
  BY HeadTailProperties
<1>3. PICK f : Joins(f, ss, n) /\ FlattenSeq(ss) = f[n]
  BY FlattenIsJoin
<1> HIDE DEF ts, n
<1>4. f[1] = ss[1] /\ \A i \in 1..(n - 1) : f[i + 1] = f[i] \o ss[i + 1]
  <2>1. f[1] = ss[1]
    BY <1>1, <1>3 DEF Joins
  <2>2. ASSUME NEW i \in 1..(n - 1) PROVE f[i + 1] = f[i] \o ss[i + 1]
    <3>1. i + 1 \in 1..n /\ i + 1 # 1 /\ (i + 1) - 1 = i
      BY <1>1
    <3> QED
      BY <1>3, <3>1 DEF Joins
  <2> QED
    BY <2>1, <2>2
<1>5. \A i \in 1..n : f[i] \in Seq(S)
  <2>1. n \in 1..Len(ss)
    BY <1>1 DEF n
  <2> QED
    BY <1>3, <2>1, JoinsType
<1>6. CASE n = 1
  <2>1. ts = <<>>
    BY <1>2, <1>6, EmptySeq
  <2>2. FlattenSeq(ts) = <<>>
    BY <2>1, EmptySeq DEF FlattenSeq
  <2>3. ss[1] \o <<>> = ss[1] /\ ss[1] \in Seq(S)
    BY <1>1, ConcatEmptySeq
  <2> QED
    BY <1>1, <1>3, <1>4, <1>6, <2>2, <2>3 DEF ts
<1>7. CASE n # 1
  <2>0. n - 1 \in Nat /\ n - 1 >= 1
    BY <1>1, <1>7
  <2>1. ts # <<>>
    BY <1>2, <2>0, EmptySeq
  <2>2. PICK g : Joins(g, ts, n - 1) /\ FlattenSeq(ts) = g[n - 1]
    BY <1>2, <2>1, FlattenIsJoin
  <2>3. g[1] = ss[2] /\ \A i \in 1..(n - 2) : g[i + 1] = g[i] \o ss[i + 2]
    <3>1. g[1] = ss[2]
      BY <1>2, <2>0, <2>2 DEF Joins
    <3>2. ASSUME NEW i \in 1..(n - 2) PROVE g[i + 1] = g[i] \o ss[i + 2]
      <4>1. i + 1 \in 1..(n - 1) /\ i + 1 # 1 /\ (i + 1) - 1 = i /\ (i + 1) + 1 = i + 2
        BY <1>1
      <4>2. g[i + 1] = g[i] \o ts[i + 1]
        BY <2>2, <4>1 DEF Joins
      <4> QED
        BY <1>2, <4>1, <4>2
    <3> QED
      BY <3>1, <3>2
  <2>4. \A i \in 1..(n - 1) : g[i] \in Seq(S)
    <3>1. n - 1 \in 1..Len(ts)
      BY <1>2, <2>0
    <3> QED
      BY <1>2, <2>2, <3>1, JoinsType
  <2> DEFINE G == { i \in 1..(n - 1) : f[i + 1] = ss[1] \o g[i] }
  <2>5. 1 \in G
    <3>1. 1 \in 1..(n - 1) /\ 1 + 1 = 2
      BY <2>0
    <3>2. f[1 + 1] = f[1] \o ss[1 + 1]
      BY <1>4, <3>1
    <3>3. f[1 + 1] = ss[1] \o g[1]
      BY <1>4, <2>3, <3>1, <3>2
    <3> QED
      BY <3>1, <3>3
  <2>6. ASSUME NEW i \in 1..((n - 1) - 1), i \in G PROVE i + 1 \in G
    <3>1. i \in 1..(n - 2) /\ i + 1 \in 1..(n - 1) /\ (i + 1) + 1 = i + 2 /\ i \in 1..(n - 1) /\ i + 2 \in 1..n
          /\ 1 \in 1..n
      BY <1>1
    <3>2. f[i + 1] = ss[1] \o g[i]
      BY <2>6
    <3>3. f[(i + 1) + 1] = f[i + 1] \o ss[(i + 1) + 1]
      BY <1>4, <3>1
    <3>4. f[(i + 1) + 1] = (ss[1] \o g[i]) \o ss[i + 2]
      BY <3>1, <3>2, <3>3
    <3>5. ss[1] \in Seq(S) /\ g[i] \in Seq(S) /\ ss[i + 2] \in Seq(S)
      BY <1>1, <2>4, <3>1
    <3>6. (ss[1] \o g[i]) \o ss[i + 2] = ss[1] \o (g[i] \o ss[i + 2])
      <4>1. Associate(ss[1], g[i], ss[i + 2])
        BY <3>5, JoiningAssociates
      <4> QED
        BY <4>1 DEF Associate
    <3>7. f[(i + 1) + 1] = ss[1] \o g[i + 1]
      BY <2>3, <3>1, <3>4, <3>6
    <3> QED
      BY <3>1, <3>7
  <2> HIDE DEF G
  <2>7. 1..(n - 1) \subseteq G
    BY <2>0, <2>5, <2>6, CountingUp
  <2>8. f[(n - 1) + 1] = ss[1] \o g[n - 1]
    <3>1. n - 1 \in 1..(n - 1)
      BY <2>0
    <3>2. n - 1 \in G
      BY <2>7, <3>1
    <3> QED
      BY <3>2 DEF G
  <2>9. (n - 1) + 1 = n
    BY <1>1
  <2> QED
    <3>1. n \in 1..n
      BY <1>1
    <3>2. f[n] = ss[1] \o g[n - 1]
      BY <2>8, <2>9
    <3>3. f[n] \in Seq(S)
      BY <1>5, <3>1
    <3> QED
      BY <1>1, <1>3, <2>2, <3>2, <3>3 DEF ts
<1> QED
  BY <1>6, <1>7

------------------------------------------------------------------------------
(* The bytes of rows.                                                      *)

Line(row) == IF choice = "neo4j" THEN Append(row, Newline) ELSE row

Lines(rows) == [i \in DOMAIN rows |-> Line(rows[i])]

Bytes(rows) == FlattenSeq(Lines(rows))

LEMMA LineType ==
  ASSUME NEW row \in Rows
  PROVE  Line(row) \in Rows
BY AppendProperties DEF Line, Newline, Rows

LEMMA LinesType ==
  ASSUME NEW rows \in Seq(Rows)
  PROVE  /\ Lines(rows) \in Seq(Rows) /\ Len(Lines(rows)) = Len(rows)
         /\ \A i \in 1..Len(rows) : Lines(rows)[i] = Line(rows[i])
PROOF
<1>1. Len(rows) \in Nat /\ DOMAIN rows = 1..Len(rows) /\ \A i \in 1..Len(rows) : rows[i] \in Rows
  BY LenProperties, ElementOfSeq
<1>2. \A i \in 1..Len(rows) : Line(rows[i]) \in Rows
  BY <1>1, LineType
<1> DEFINE ls == [i \in 1..Len(rows) |-> Line(rows[i])]
<1>3. ls \in Seq(Rows)
  BY <1>1, <1>2, SeqDef
<1>4. DOMAIN ls = 1..Len(rows) /\ DOMAIN ls = 1..Len(ls) /\ Len(ls) \in Nat
  BY <1>3, LenProperties
<1>5. Len(ls) = Len(rows)
  BY <1>1, <1>4
<1>6. Lines(rows) = ls
  BY <1>1 DEF Lines
<1> QED
  BY <1>3, <1>5, <1>6

LEMMA BytesOfNone == Bytes(<<>>) = <<>>
PROOF
<1>1. <<>> \in Seq(Rows) /\ Len(<<>>) = 0
  BY EmptySeq
<1>2. Len(Lines(<<>>)) = 0 /\ Lines(<<>>) \in Seq(Rows)
  BY <1>1, LinesType
<1>3. Lines(<<>>) = <<>>
  BY <1>2, EmptySeq
<1> QED
  BY <1>1, <1>3 DEF Bytes, FlattenSeq

LEMMA BytesFirst ==
  ASSUME NEW rows \in Seq(Rows), rows # <<>>
  PROVE  Bytes(rows) = Line(Head(rows)) \o Bytes(Tail(rows))
PROOF
<1> DEFINE ls == Lines(rows)
           ts == Tail(rows)
<1>1. /\ ls \in Seq(Rows) /\ Len(ls) = Len(rows)
      /\ \A i \in 1..Len(rows) : ls[i] = Line(rows[i])
  BY LinesType
<1>2. /\ ts \in Seq(Rows) /\ Len(ts) = Len(rows) - 1
      /\ \A i \in 1..(Len(rows) - 1) : ts[i] = rows[i + 1]
  BY HeadTailProperties
<1>3. Len(rows) \in Nat \ {0} /\ rows[1] = Head(rows)
  BY EmptySeq, LenProperties
<1>4. ls # <<>>
  BY <1>1, <1>3, EmptySeq
<1> HIDE DEF ls, ts
<1>5. /\ Tail(ls) \in Seq(Rows) /\ Len(Tail(ls)) = Len(ls) - 1
      /\ \A i \in 1..(Len(ls) - 1) : Tail(ls)[i] = ls[i + 1]
  BY <1>1, <1>4, HeadTailProperties
<1>6. Head(ls) = Line(Head(rows))
  BY <1>1, <1>3, <1>4, EmptySeq
<1>7. Tail(ls) = Lines(ts)
  <2>1. /\ Lines(ts) \in Seq(Rows) /\ Len(Lines(ts)) = Len(ts)
        /\ \A i \in 1..Len(ts) : Lines(ts)[i] = Line(ts[i])
    BY <1>2, LinesType
  <2>2. Len(Tail(ls)) = Len(Lines(ts))
    BY <1>1, <1>2, <1>5, <2>1
  <2>3. ASSUME NEW i \in 1..Len(Tail(ls)) PROVE Tail(ls)[i] = Lines(ts)[i]
    <3>1. i \in 1..(Len(rows) - 1) /\ i + 1 \in 1..Len(rows)
      BY <1>1, <1>3, <1>5
    <3>2. Tail(ls)[i] = Line(rows[i + 1])
      BY <1>1, <1>5, <3>1
    <3>3. Lines(ts)[i] = Line(ts[i]) /\ ts[i] = rows[i + 1]
      BY <1>2, <2>1, <3>1
    <3> QED
      BY <3>2, <3>3
  <2> QED
    BY <1>5, <2>1, <2>2, <2>3, SeqEqual
<1>8. FlattenSeq(ls) = Head(ls) \o FlattenSeq(Tail(ls))
  BY <1>1, <1>4, FlattenFirst DEF Rows
<1> QED
  BY <1>6, <1>7, <1>8 DEF Bytes, ls, ts

LEMMA BytesType ==
  ASSUME NEW rows \in Seq(Rows)
  PROVE  Bytes(rows) \in Rows
PROOF
<1>1. Lines(rows) \in Seq(Rows)
  BY LinesType
<1>2. CASE Lines(rows) = <<>>
  BY <1>2, EmptySeq DEF Bytes, FlattenSeq, Rows
<1>3. CASE Lines(rows) # <<>>
  BY <1>1, <1>3, FlattenFirst DEF Bytes, Rows
<1> QED
  BY <1>2, <1>3

LEMMA WholeIsBytes ==
  ASSUME NEW t \in Tasks, IsStream(t)
  PROVE  /\ Whole(t) = Bytes(Header(t) \o Selected(t))
         /\ Header(t) \o Selected(t) \in Seq(Rows)
         /\ Header(t) \in Seq(Rows) /\ Selected(t) \in Seq(Rows)
         /\ Len(Header(t) \o Selected(t)) = Len(Header(t)) + Len(Selected(t))
PROOF
<1>1. Header(t) \in Seq(Rows) /\ Selected(t) \in Seq(Rows)
  <2>1. OpenStream(Header(t)) \in RowsOfDB /\ OpenStream(Selected(t)) \in RowsOfDB
    BY RowsOfStreams
  <2> QED
    BY <2>1 DEF OpenStream, RowsOfDB
<1>2. Header(t) \o Selected(t) \in Seq(Rows)
      /\ Len(Header(t) \o Selected(t)) = Len(Header(t)) + Len(Selected(t))
  BY <1>1, ConcatProperties
<1> DEFINE rows == Header(t) \o Selected(t)
<1>3. Whole(t) = Bytes(rows)
  <2>1. CASE choice = "neo4j"
    BY <2>1 DEF Whole, Bytes, Lines, Line
  <2>2. CASE choice # "neo4j"
    <3>1. Lines(rows) = rows
      <4>1. DOMAIN rows = 1..Len(rows)
        BY <1>2, LenProperties
      <4>2. rows = [i \in DOMAIN rows |-> rows[i]]
        BY <1>2, LenProperties
      <4> QED
        BY <2>2, <4>2 DEF Lines, Line
    <3> QED
      BY <2>2, <3>1 DEF Whole, Bytes
  <2> QED
    BY <2>1, <2>2
<1> QED
  BY <1>1, <1>2, <1>3

------------------------------------------------------------------------------
(* The rows a reader has not read, over all of its streams.                *)

LEMMA FirstOfConcat ==
  ASSUME NEW S, NEW a \in Seq(S), a # <<>>, NEW b \in Seq(S)
  PROVE  a \o b # <<>> /\ Head(a \o b) = Head(a) /\ Tail(a \o b) = Tail(a) \o b
PROOF
<1> DEFINE c == a \o b
<1>1. /\ Len(a) \in Nat \ {0} /\ Len(b) \in Nat
      /\ c \in Seq(S) /\ Len(c) = Len(a) + Len(b)
      /\ \A i \in 1..(Len(a) + Len(b)) : c[i] = IF i <= Len(a) THEN a[i] ELSE b[i - Len(a)]
  BY EmptySeq, LenProperties, ConcatProperties
<1>2. c # <<>>
  BY <1>1, EmptySeq
<1>3. Tail(a) \in Seq(S) /\ Len(Tail(a)) = Len(a) - 1 /\ \A i \in 1..(Len(a) - 1) : Tail(a)[i] = a[i + 1]
  BY HeadTailProperties
<1>4. Head(c) = Head(a)
  <2>1. Head(c) = c[1] /\ Head(a) = a[1]
    BY <1>1, <1>2
  <2> HIDE DEF c
  <2>2. 1 \in 1..(Len(a) + Len(b)) /\ 1 <= Len(a)
    BY <1>1
  <2> QED
    BY <1>1, <2>1, <2>2
<1> HIDE DEF c
<1>5. Tail(c) \in Seq(S) /\ Len(Tail(c)) = Len(c) - 1 /\ \A i \in 1..(Len(c) - 1) : Tail(c)[i] = c[i + 1]
  BY <1>1, <1>2, HeadTailProperties
<1> DEFINE d == Tail(a) \o b
<1>6. /\ d \in Seq(S) /\ Len(d) = Len(Tail(a)) + Len(b)
      /\ \A i \in 1..(Len(Tail(a)) + Len(b)) :
           d[i] = IF i <= Len(Tail(a)) THEN Tail(a)[i] ELSE b[i - Len(Tail(a))]
  BY <1>3, ConcatProperties
<1> HIDE DEF d
<1>7. ASSUME NEW i \in 1..Len(Tail(c)) PROVE Tail(c)[i] = d[i]
  <2>1. i \in 1..(Len(c) - 1) /\ i + 1 \in 1..(Len(a) + Len(b)) /\ i \in 1..(Len(Tail(a)) + Len(b))
    BY <1>1, <1>3, <1>5
  <2>2. Tail(c)[i] = IF i + 1 <= Len(a) THEN a[i + 1] ELSE b[i + 1 - Len(a)]
    BY <1>1, <1>5, <2>1
  <2>3. CASE i + 1 <= Len(a)
    <3>1. i <= Len(Tail(a)) /\ i \in 1..(Len(a) - 1)
      BY <1>1, <1>3, <2>3
    <3> QED
      BY <1>3, <1>6, <2>1, <2>2, <2>3, <3>1
  <2>4. CASE ~(i + 1 <= Len(a))
    <3>1. ~(i <= Len(Tail(a))) /\ i - Len(Tail(a)) = i + 1 - Len(a)
      BY <1>1, <1>3, <2>4
    <3> QED
      BY <1>6, <2>1, <2>2, <2>4, <3>1
  <2> QED
    BY <2>3, <2>4
<1>8. Len(Tail(c)) = Len(d)
  BY <1>1, <1>3, <1>5, <1>6
<1>9. Tail(c) = d
  BY <1>5, <1>6, <1>7, <1>8, SeqEqual
<1> QED
  BY <1>2, <1>4, <1>9 DEF c, d

RowsOf(r, i) == r.streams[i].rows

Unread(r) == IF Len(r.streams) = 2 THEN RowsOf(r, 1) \o RowsOf(r, 2) ELSE RowsOf(r, 1)

\* A stream that has been left has no rows.
PassedBy(r) == \A j \in 1..Len(r.streams) : j < r.readerIndex => RowsOf(r, j) = <<>>

\* A reader of the driver, with its streams.
IsReading(r) == r \in Readers /\ Len(r.streams) = IF choice = "neo4j" THEN 1 ELSE 2

LEMMA UnreadType ==
  ASSUME NEW r, IsReading(r)
  PROVE  /\ \A i \in 1..Len(r.streams) : RowsOf(r, i) \in Seq(Rows)
         /\ Unread(r) \in Seq(Rows) /\ Len(Unread(r)) \in Nat
         /\ r.streams \in Seq(RowsOfDB)
PROOF
<1>1. r.streams \in Seq(RowsOfDB)
  BY ReaderFields DEF IsReading
<1>2. ASSUME NEW i \in 1..Len(r.streams) PROVE RowsOf(r, i) \in Seq(Rows)
  <2>1. r.streams[i] \in RowsOfDB
    BY <1>1, ElementOfSeq
  <2> QED
    BY <2>1 DEF RowsOfDB, RowsOf
<1>3. Unread(r) \in Seq(Rows)
  <2>1. CASE Len(r.streams) = 2
    BY <1>2, <2>1, ConcatProperties DEF Unread
  <2>2. CASE Len(r.streams) # 2
    BY <1>2, <2>2 DEF Unread, IsReading
  <2> QED
    BY <2>1, <2>2
<1> QED
  BY <1>1, <1>2, <1>3, LenProperties

\* The rows that are left are those of the first stream and then the second.
LEMMA LeftIsUnread ==
  ASSUME NEW r, IsReading(r)
  PROVE  RowsLeft(r) = Unread(r)
PROOF
<1> DEFINE ss == [i \in DOMAIN r.streams |-> r.streams[i].rows]
<1>0. r.streams \in Seq(RowsOfDB) /\ \A i \in 1..Len(r.streams) : RowsOf(r, i) \in Seq(Rows)
  BY UnreadType
<1>1. DOMAIN r.streams = 1..Len(r.streams) /\ Len(r.streams) \in {1, 2}
  BY <1>0, LenProperties DEF IsReading
<1>2. \A i \in 1..Len(r.streams) : ss[i] = RowsOf(r, i) /\ ss[i] \in Seq(Rows)
  BY <1>0, <1>1 DEF RowsOf
<1>3. ss = [i \in 1..Len(r.streams) |-> ss[i]]
  BY <1>1
<1> HIDE DEF ss
<1>4. ss \in Seq(Seq(Rows)) /\ Len(ss) = Len(r.streams)
  <2> DEFINE S == Seq(Rows)
  <2>1. \A i \in 1..Len(r.streams) : ss[i] \in S
    BY <1>2
  <2> HIDE DEF S
  <2>2. ss \in [1..Len(r.streams) -> S]
    BY <1>3, <2>1
  <2>3. ss \in Seq(S)
    BY <1>1, <2>2, SeqDef
  <2>4. Len(ss) = Len(r.streams)
    BY <1>1, <1>3, <2>3, LenProperties
  <2> QED
    BY <2>3, <2>4 DEF S
<1>5. ss # <<>>
  BY <1>1, <1>4, EmptySeq
<1>6. PICK f : Joins(f, ss, Len(ss)) /\ FlattenSeq(ss) = f[Len(ss)]
  BY <1>4, <1>5, FlattenIsJoin
<1> DEFINE n == Len(ss)
<1>7. n \in {1, 2} /\ f = [i \in 1..n |-> IF i = 1 THEN ss[i] ELSE f[i - 1] \o ss[i]] /\ n = Len(r.streams)
  BY <1>1, <1>4, <1>6 DEF Joins
<1> HIDE DEF n
<1>8. FlattenSeq(ss) = Unread(r)
  <2>1. f[1] = ss[1]
    <3>1. 1 \in 1..n
      BY <1>7
    <3> QED
      BY <1>7, <3>1
  <2>2. CASE n = 1
    BY <1>2, <1>6, <1>7, <2>1, <2>2 DEF Unread, n
  <2>3. CASE n = 2
    <3>1. 1 \in 1..n /\ 2 \in 1..n /\ 2 # 1 /\ 2 - 1 = 1
      BY <2>3
    <3>2. f[2] = f[2 - 1] \o ss[2]
      BY <1>7, <3>1
    <3>3. ss[1] = RowsOf(r, 1) /\ ss[2] = RowsOf(r, 2)
      BY <1>2, <1>7, <3>1
    <3> QED
      BY <1>6, <1>7, <2>1, <2>3, <3>1, <3>2, <3>3 DEF Unread, n
  <2> QED
    BY <1>7, <2>2, <2>3
<1> QED
  BY <1>8 DEF RowsLeft, ss

LEMMA TakenRow ==
  ASSUME NEW r \in Readers, NEW i \in 1..Len(r.streams), RowsOf(r, i) # <<>>
  PROVE  LET q == TakeRow(r, i)
         IN  /\ RowsOf(q, i) = Tail(RowsOf(r, i))
             /\ \A j \in 1..Len(r.streams) : j # i => RowsOf(q, j) = RowsOf(r, j)
             /\ q \in Readers /\ Len(q.streams) = Len(r.streams)
             /\ q.readerIndex = r.readerIndex /\ q.rowsRead = r.rowsRead /\ q.eof = r.eof
             /\ q.totalBytesRead = r.totalBytesRead /\ q.obsCount = r.obsCount
PROOF
<1> DEFINE s == r.streams[i]
           left == [s EXCEPT !.rows = Tail(s.rows)]
           streams == [r.streams EXCEPT ![i] = left]
<1>1. r.streams \in Seq(RowsOfDB) /\ DOMAIN r.streams = 1..Len(r.streams)
  BY ReaderFields, LenProperties
<1>2. s \in RowsOfDB
  BY <1>1, ElementOfSeq
<1>3. left.rows = Tail(s.rows)
  BY <1>2 DEF RowsOfDB
<1>4. TakeRow(r, i) = [r EXCEPT !.streams = streams]
  BY DEF TakeRow
<1> HIDE DEF left
<1>5. streams[i] = left /\ (\A j \in 1..Len(r.streams) : j # i => streams[j] = r.streams[j])
  BY <1>1
<1> HIDE DEF streams
<1>6. LET q == [r EXCEPT !.streams = streams]
      IN  /\ q.streams = streams
          /\ q.readerIndex = r.readerIndex /\ q.rowsRead = r.rowsRead /\ q.eof = r.eof
          /\ q.totalBytesRead = r.totalBytesRead /\ q.obsCount = r.obsCount
  BY DEF Readers
<1>7. TakeRow(r, i) \in Readers /\ Len(TakeRow(r, i).streams) = Len(r.streams)
  BY TakeRowType DEF RowsOf
<1> QED
  BY <1>3, <1>4, <1>5, <1>6, <1>7 DEF RowsOf

\* A reader returns the first row that has not been read.
LEMMA NextRow ==
  ASSUME NEW r, IsReading(r), PassedBy(r), Unread(r) # <<>>
  PROVE  LET res == ReadRow(r)
             q   == res.reader
         IN  /\ res.err = "none" /\ res.row = Line(Head(Unread(r)))
             /\ IsReading(q) /\ PassedBy(q) /\ Unread(q) = Tail(Unread(r))
             /\ q.eof = r.eof /\ q.totalBytesRead = r.totalBytesRead /\ q.obsCount = r.obsCount
             /\ choice = "neo4j" => q.rowsRead = r.rowsRead + 1
PROOF
<1>1. r \in Readers /\ Len(r.streams) = IF choice = "neo4j" THEN 1 ELSE 2
  BY DEF IsReading
<1>2. /\ \A i \in 1..Len(r.streams) : RowsOf(r, i) \in Seq(Rows)
      /\ r.readerIndex \in Nat \ {0}
  BY <1>1, UnreadType, ReaderFields
<1>a. \A res, row, err, q : res = Result(row, err, q) => res.row = row /\ res.err = err /\ res.reader = q
  BY DEF Result
<1>3. CASE choice = "neo4j"
  <2>1. Unread(r) = RowsOf(r, 1) /\ RowsOf(r, 1) # <<>> /\ 1 \in 1..Len(r.streams)
    BY <1>1, <1>3 DEF Unread
  <2> DEFINE row == Append(Head(r.streams[1].rows), Newline)
             p   == TakeRow(r, 1)
             q   == [p EXCEPT !.rowsRead = @ + 1]
  <2>2. /\ RowsOf(p, 1) = Tail(RowsOf(r, 1)) /\ p \in Readers /\ Len(p.streams) = Len(r.streams)
        /\ p.readerIndex = r.readerIndex /\ p.rowsRead = r.rowsRead /\ p.eof = r.eof
        /\ p.totalBytesRead = r.totalBytesRead /\ p.obsCount = r.obsCount
    BY <1>1, <2>1, TakenRow
  <2>3. ReadRow(r) = Result(row, "none", q)
    BY <1>3, <2>1 DEF ReadRow, BoltRead, RowsOf
  <2>4. row = Line(Head(Unread(r)))
    BY <1>3, <2>1 DEF Line, RowsOf
  <2> HIDE DEF p, row
  <2>5. /\ q \in Readers /\ q.streams = p.streams /\ q.rowsRead = p.rowsRead + 1
        /\ q.readerIndex = p.readerIndex /\ q.eof = p.eof
        /\ q.totalBytesRead = p.totalBytesRead /\ q.obsCount = p.obsCount
    BY <2>2 DEF Readers
  <2> HIDE DEF q
  <2>6. RowsOf(q, 1) = RowsOf(p, 1) /\ Len(q.streams) = 1
    BY <1>1, <1>3, <2>2, <2>5 DEF RowsOf
  <2>7. Unread(q) = Tail(Unread(r))
    BY <2>1, <2>2, <2>6 DEF Unread
  <2>8. PassedBy(q)
    <3>1. r.readerIndex = 1 \/ RowsOf(r, 1) = <<>>
      BY <1>2, <2>1 DEF PassedBy
    <3>2. q.readerIndex = 1
      BY <2>1, <2>2, <2>5, <3>1
    <3> QED
      BY <2>6, <3>2 DEF PassedBy
  <2>9. IsReading(q)
    BY <1>3, <2>5, <2>6 DEF IsReading
  <2> QED
    BY <1>a, <2>2, <2>3, <2>4, <2>5, <2>7, <2>8, <2>9
<1>4. CASE choice # "neo4j"
  <2>0. Len(r.streams) = 2 /\ Unread(r) = RowsOf(r, 1) \o RowsOf(r, 2)
        /\ RowsOf(r, 1) \in Seq(Rows) /\ RowsOf(r, 2) \in Seq(Rows)
    BY <1>1, <1>2, <1>4 DEF Unread
  <2> DEFINE k == IF RowsOf(r, 1) # <<>> THEN 1 ELSE 2
             next == { i \in r.readerIndex..Len(r.streams) :
                         /\ r.streams[i].rows # <<>>
                         /\ \A j \in r.readerIndex..(i - 1) : r.streams[j].rows = <<>> }
             moved == [r EXCEPT !.readerIndex = k]
             p == TakeRow(moved, k)
             row == Head(RowsOf(r, k))
  <2>1. RowsOf(r, k) # <<>> /\ k \in 1..2 /\ (k = 2 => RowsOf(r, 1) = <<>>)
    <3>1. RowsOf(r, 1) = <<>> => RowsOf(r, 2) # <<>>
      BY <2>0, ConcatEmptySeq
    <3> QED
      BY <3>1
  <2>2. next = {k}
    <3>1. k \in r.readerIndex..2
      BY <1>1, <1>2, <1>4, <2>1 DEF PassedBy
    <3>2. k \in next
      BY <1>2, <2>0, <2>1, <3>1 DEF RowsOf
    <3>3. \A i \in next : i = k
      BY <1>2, <2>0, <2>1, <3>1 DEF RowsOf
    <3> HIDE DEF next, k
    <3> QED
      BY <3>2, <3>3
  <2>3. (CHOOSE i \in next : TRUE) = k /\ next # {}
    <3> HIDE DEF next, k
    <3> QED
      BY <2>2
  <2>4. ReadRow(r) = Result(row, "none", p)
    <3> DEFINE first == CHOOSE i \in next : TRUE
    <3>1. ReadRow(r) = Result(Head(r.streams[first].rows), "none", TakeRow([r EXCEPT !.readerIndex = first], first))
      BY <1>4, <2>3 DEF ReadRow, CompositeRead
    <3> HIDE DEF first, next, k
    <3>2. first = k
      BY <2>3 DEF first
    <3> QED
      BY <3>1, <3>2 DEF RowsOf
  <2> HIDE DEF next, k, p, row
  <2>5. /\ moved \in Readers /\ moved.streams = r.streams /\ moved.readerIndex = k
        /\ moved.rowsRead = r.rowsRead /\ moved.eof = r.eof
        /\ moved.totalBytesRead = r.totalBytesRead /\ moved.obsCount = r.obsCount
    BY <1>1, <2>1 DEF Readers
  <2> HIDE DEF moved
  <2>6. /\ RowsOf(p, k) = Tail(RowsOf(r, k)) /\ \A j \in 1..2 : j # k => RowsOf(p, j) = RowsOf(r, j)
    <3>1. RowsOf(moved, k) # <<>> /\ k \in 1..Len(moved.streams)
          /\ \A j \in 1..2 : RowsOf(moved, j) = RowsOf(r, j)
      BY <2>0, <2>1, <2>5 DEF RowsOf
    <3>2. /\ RowsOf(p, k) = Tail(RowsOf(moved, k))
          /\ \A j \in 1..Len(moved.streams) : j # k => RowsOf(p, j) = RowsOf(moved, j)
      BY <2>5, <3>1, TakenRow DEF p
    <3>3. Len(moved.streams) = 2
      BY <2>0, <2>5
    <3> QED
      BY <2>1, <3>1, <3>2, <3>3
  <2>7. /\ p \in Readers /\ Len(p.streams) = 2
        /\ p.readerIndex = k /\ p.eof = r.eof
        /\ p.totalBytesRead = r.totalBytesRead /\ p.obsCount = r.obsCount
    <3>1. RowsOf(moved, k) # <<>> /\ k \in 1..Len(moved.streams)
      BY <2>0, <2>1, <2>5 DEF RowsOf
    <3> QED
      BY <2>0, <2>5, <3>1, TakenRow DEF p
  <2>8. Head(Unread(r)) = row /\ Unread(p) = Tail(Unread(r))
    <3>1. CASE k = 1
      <4>1. /\ Head(RowsOf(r, 1) \o RowsOf(r, 2)) = Head(RowsOf(r, 1))
            /\ Tail(RowsOf(r, 1) \o RowsOf(r, 2)) = Tail(RowsOf(r, 1)) \o RowsOf(r, 2)
        BY <2>0, <2>1, <3>1, FirstOfConcat
      <4>2. Unread(p) = RowsOf(p, 1) \o RowsOf(p, 2)
        BY <2>7 DEF Unread
      <4>3. RowsOf(p, 1) = Tail(RowsOf(r, 1)) /\ RowsOf(p, 2) = RowsOf(r, 2)
        BY <2>6, <3>1
      <4> QED
        BY <2>0, <3>1, <4>1, <4>2, <4>3 DEF row
    <3>2. CASE k = 2
      <4>1. RowsOf(r, 1) = <<>> /\ RowsOf(p, 1) = <<>>
        BY <2>1, <2>6, <3>2
      <4>2. Unread(r) = RowsOf(r, 2)
        BY <2>0, <4>1, ConcatEmptySeq
      <4>3. Tail(RowsOf(r, 2)) \in Seq(Rows)
        BY <2>0, <2>1, <3>2, HeadTailProperties
      <4>4. Unread(p) = <<>> \o Tail(RowsOf(r, 2))
        BY <2>6, <2>7, <3>2, <4>1 DEF Unread
      <4>5. Unread(p) = Tail(RowsOf(r, 2))
        BY <4>3, <4>4, ConcatEmptySeq
      <4> QED
        BY <3>2, <4>2, <4>5 DEF row
    <3> QED
      BY <2>1, <3>1, <3>2
  <2>9. PassedBy(p)
    BY <2>1, <2>6, <2>7 DEF PassedBy
  <2>10. IsReading(p)
    BY <1>4, <2>7 DEF IsReading
  <2>11. Line(row) = row
    BY <1>4 DEF Line
  <2> QED
    BY <1>4, <1>a, <2>4, <2>7, <2>8, <2>9, <2>10, <2>11
<1> QED
  BY <1>3, <1>4

\* What it says when there is none left.
LEMMA NoRow ==
  ASSUME NEW r, IsReading(r), PassedBy(r), Unread(r) = <<>>
  PROVE  LET res == ReadRow(r)
             q   == res.reader
         IN  /\ res.row = <<>>
             /\ IsReading(q) /\ PassedBy(q) /\ Unread(q) = <<>>
             /\ q.eof = r.eof /\ q.totalBytesRead = r.totalBytesRead /\ q.obsCount = r.obsCount
             /\ choice # "neo4j" => res.err = "EOF"
             /\ choice = "neo4j" =>
                  /\ q.rowsRead = r.rowsRead
                  /\ r.rowsRead = 0 => res.err = "ErrNoInstanceFound"
                  /\ r.rowsRead = 1 => res.err = "ErrNoResultsFound"
                  /\ r.rowsRead \notin {0, 1} => res.err = "EOF"
PROOF
<1>1. r \in Readers /\ Len(r.streams) = IF choice = "neo4j" THEN 1 ELSE 2
  BY DEF IsReading
<1>2. /\ \A i \in 1..Len(r.streams) : RowsOf(r, i) \in Seq(Rows)
      /\ r.readerIndex \in Nat \ {0}
  BY <1>1, UnreadType, ReaderFields
<1>a. \A res, row, err, q : res = Result(row, err, q) => res.row = row /\ res.err = err /\ res.reader = q
  BY DEF Result
<1>3. CASE choice = "neo4j"
  <2>1. RowsOf(r, 1) = <<>>
    BY <1>1, <1>3 DEF Unread
  <2> DEFINE e == CASE r.rowsRead = 0 -> "ErrNoInstanceFound"
                    [] r.rowsRead = 1 -> "ErrNoResultsFound"
                    [] OTHER -> "EOF"
  <2>2. ReadRow(r) = Result(<<>>, e, r)
    BY <1>3, <2>1 DEF ReadRow, BoltRead, RowsOf
  <2>3. /\ r.rowsRead = 0 => e = "ErrNoInstanceFound"
        /\ r.rowsRead = 1 => e = "ErrNoResultsFound"
        /\ r.rowsRead \notin {0, 1} => e = "EOF"
    OBVIOUS
  <2> HIDE DEF e
  <2> QED
    BY <1>3, <1>a, <2>2, <2>3
<1>4. CASE choice # "neo4j"
  <2>1. Len(r.streams) = 2 /\ RowsOf(r, 1) \o RowsOf(r, 2) = <<>>
        /\ RowsOf(r, 1) \in Seq(Rows) /\ RowsOf(r, 2) \in Seq(Rows)
    BY <1>1, <1>2, <1>4 DEF Unread
  <2>2. RowsOf(r, 1) = <<>> /\ RowsOf(r, 2) = <<>>
    BY <2>1, ConcatEqualIffEmpty
  <2> DEFINE q == [r EXCEPT !.readerIndex = Len(r.streams) + 1]
  <2>3. \A i \in r.readerIndex..Len(r.streams) : r.streams[i].rows = <<>>
    BY <1>2, <2>1, <2>2 DEF RowsOf
  <2>4. ReadRow(r) = Result(<<>>, "EOF", q)
    BY <1>4, <2>3 DEF ReadRow, CompositeRead
  <2>5. /\ q \in Readers /\ q.streams = r.streams /\ q.eof = r.eof
        /\ q.totalBytesRead = r.totalBytesRead /\ q.obsCount = r.obsCount
    BY <1>1, <2>1 DEF Readers
  <2> HIDE DEF q
  <2>6. PassedBy(q) /\ Unread(q) = <<>> /\ IsReading(q)
    BY <1>4, <2>1, <2>2, <2>5 DEF PassedBy, Unread, RowsOf, IsReading
  <2> QED
    BY <1>4, <1>a, <2>4, <2>5, <2>6
<1> QED
  BY <1>3, <1>4

------------------------------------------------------------------------------
(* What an application has read.                                           *)

\* An instance that is not there has no rows that a stream could select.
LEMMA NoneWithoutHeader ==
  ASSUME NEW t \in Tasks, IsStream(t), Header(t) = <<>>
  PROVE  Selected(t) = <<>>
PROOF
<1>1. t.op = "StreamCSVRows" /\ t.q.limit \in Nat \cup {-1}
  BY ClientAssumption DEF IsStream
<1>2. t.q.header = <<>>
  <2>1. SUFFICES ASSUME t.q.header # <<>> PROVE FALSE
    OBVIOUS
  <2>2. Header(t) = <<t.q.header>>
    BY <2>1 DEF Header
  <2> QED
    BY <2>2
<1>3. t.q.rows = <<>> /\ Len(<<>>) = 0
  BY <1>1, <1>2, RowsHaveHeader, EmptySeq
<1>4. t.q.limit # -1 => Smaller(t.q.limit, 0) = 0
  BY <1>1 DEF Smaller
<1>5. SubSeq(<<>>, 1, 0) = <<>>
  OBVIOUS
<1> QED
  BY <1>3, <1>4, <1>5 DEF Selected

Total(t) == Len(Header(t)) + Len(Selected(t))

\* Nothing has been read, and no end has been met.
Quiet(t) ==
  /\ delivered[t] = <<>> /\ stream[t].totalBytesRead = 0
  /\ answer[t].status \notin {"EOF", "ErrNoResultsFound", "ErrNoInstanceFound"}

\* What has been read, what the buffer holds and what has not been read yet are
\* the whole, the counters agree, and an end is the end.
Exact(t, r, bytes, status) ==
  LET rest == Unread(r)
  IN  /\ PassedBy(r)
      /\ (bytes \o r.buffer) \o Bytes(rest) = Whole(t)
      /\ r.totalBytesRead = Len(bytes)
      /\ ~r.eof => r.obsCount + Len(rest) = Total(t)
      /\ r.eof => r.obsCount = Total(t) + 1 /\ rest = <<>> /\ r.buffer = <<>>
      /\ choice = "neo4j" => r.rowsRead + Len(rest) = Total(t)
      /\ status = "EOF" => r.eof /\ (choice = "neo4j" => r.rowsRead \notin {0, 1})
      /\ choice = "neo4j" /\ status \in {"ErrNoResultsFound", "ErrNoInstanceFound"} =>
           /\ rest = <<>> /\ r.buffer = <<>>
           /\ r.rowsRead = IF status = "ErrNoResultsFound" THEN 1 ELSE 0

Streamed(t) ==
  /\ pos[t] \in {"absent", "idle", "open", "query", "reading"} => answer[t].status = "none"
  /\ pos[t] = "reading" => ~stream[t].eof
  /\ pos[t] \in {"reading", "closing"} => IsReading(stream[t])
  /\ pos[t] = "query" /\ choice = "neptune" /\ part[t] = 2 => RowsOf(stream[t], 1) = Header(t)
  /\ ~IsReading(stream[t]) => Quiet(t)
  /\ IsReading(stream[t]) => Exact(t, stream[t], delivered[t], answer[t].status)

StreamInv == \A t \in Tasks : IsStream(t) => Streamed(t)

LEMMA NoneIsNoEnd ==
  "none" \notin {"EOF", "ErrNoResultsFound", "ErrNoInstanceFound"}
OBVIOUS

LEMMA NewReaderFields ==
  ASSUME NEW s
  PROVE  LET r == NewReader(s)
         IN  /\ r.streams = s /\ r.readerIndex = 1 /\ r.rowsRead = 0 /\ r.buffer = <<>> /\ r.eof = FALSE
             /\ r.totalBytesRead = 0 /\ r.obsCount = 0
BY DEF NewReader

LEMMA InitStreamed == ASSUME Init PROVE StreamInv
PROOF
<1> SUFFICES ASSUME NEW t \in Tasks PROVE Streamed(t)
  BY DEF StreamInv
<1>1. /\ answer[t].status = "none" /\ delivered[t] = <<>> /\ stream[t] = NewReader(<<>>)
      /\ pos[t] \in {"idle", "absent"}
  BY DEF Init, Status
<1>2. stream[t].totalBytesRead = 0 /\ stream[t].streams = <<>>
  BY <1>1, NewReaderFields
<1>3. ~IsReading(stream[t])
  <2>1. Len(<<>>) = 0
    BY EmptySeq
  <2> QED
    BY <1>2, <2>1 DEF IsReading
<1> QED
  BY <1>1, <1>2, <1>3 DEF Streamed, Quiet

\* What is as before, for one call.
Same(u) ==
  /\ choice' = choice /\ pos'[u] = pos[u] /\ part'[u] = part[u] /\ stream'[u] = stream[u]
  /\ delivered'[u] = delivered[u] /\ answer'[u] = answer[u]

LEMMA SameStreamed ==
  ASSUME NEW u \in Tasks, Streamed(u), Same(u)
  PROVE  Streamed(u)'
PROOF
<1> USE DEF Same
<1>1. IsReading(stream[u])' <=> IsReading(stream[u])
  BY DEF IsReading
<1>2. Quiet(u)' <=> Quiet(u)
  BY DEF Quiet
<1>3. Exact(u, stream[u], delivered[u], answer[u].status)' <=> Exact(u, stream[u], delivered[u], answer[u].status)
  BY DEF Exact, Whole, Bytes, Lines, Line, Header, Selected, Total
<1>4. (RowsOf(stream[u], 1) = Header(u))' <=> RowsOf(stream[u], 1) = Header(u)
  BY DEF RowsOf, Header
<1> QED
  BY <1>1, <1>2, <1>3, <1>4 DEF Streamed

\* A step of one call leaves the others where they are.
LEMMA OthersAreSame ==
  ASSUME TypeOK, NEW t \in Tasks, Call(t) \/ Step(t), NEW u \in Tasks, u # t
  PROVE  Same(u)
PROOF
<1> USE DEF Same, TypeOK, config, lists, Return, Stop
<1>1. CASE Call(t)
  BY <1>1 DEF Call
<1>2. CASE OpenPool(t)
  BY <1>2 DEF OpenPool
<1>3. CASE Prepare(t)
  BY <1>3 DEF Prepare
<1>4. CASE Query(t)
  BY <1>4 DEF Query
<1>5. CASE Fail(t)
  BY <1>5 DEF Fail, CanFail
<1>6. CASE OpenStreams(t)
  BY <1>6 DEF OpenStreams
<1>7. ASSUME NEW n \in Sizes, Read(t, n) PROVE Same(u)
  BY <1>7 DEF Read
<1>8. CASE ReadFails(t)
  BY <1>8 DEF ReadFails
<1>9. CASE Close(t)
  BY <1>9 DEF Close
<1> QED
  BY <1>1, <1>2, <1>3, <1>4, <1>5, <1>6, <1>7, <1>8, <1>9 DEF Step, Proceed

\* Calls, connections and failures leave a stream as it is.
LEMMA CallStreams ==
  ASSUME IInv, NEW t \in Tasks, IsStream(t), Streamed(t), Call(t)
  PROVE  Streamed(t)'
PROOF
<1> USE DEF Call, config
<1>1. TypeOK /\ Placed(t) /\ part[t] = 1 /\ Opened(t) = 0 /\ pos[t] = "idle"
  BY DEF IInv, Placed
<1>2. ~IsReading(stream[t]) /\ ~IsReading(stream[t])'
  BY <1>1 DEF IsReading, Opened
<1>3. Quiet(t) /\ answer[t].status = "none"
  BY <1>1, <1>2 DEF Streamed
<1>4. /\ pos'[t] # "reading" /\ pos'[t] # "closing"
      /\ \/ answer'[t] = answer[t]
         \/ pos'[t] = "ended" /\ answer'[t].status \in {"ok", "error", "ErrNotImplemented"}
  <2>0. StoreOf(t) \in Stores
    BY DEF StoreOf, Stores
  <2>1. choice \in {"neo4j", "neptune", "mock"}
    BY <2>0, ClientAssumption DEF IInv, Configured, TypeOK
  <2>2. AtOnce(t).status \in {"ok", "error", "ErrNotImplemented"}
    BY <2>1 DEF AtOnce, MockAnswer, Ok, Failed, NotImplemented
  <2> QED
    BY <1>1, <2>2 DEF Return, TypeOK
<1>5. Quiet(t)'
  BY <1>3, <1>4 DEF Quiet
<1>6. pos'[t] \in {"absent", "idle", "open", "query", "reading"} => answer'[t].status = "none"
  BY <1>3, <1>4
<1>7. pos'[t] = "query" /\ choice = "neptune" => part'[t] # 2
  BY <1>1
<1> QED
  BY <1>2, <1>4, <1>5, <1>6, <1>7 DEF Streamed

LEMMA OpenPoolStreams ==
  ASSUME IInv, NEW t \in Tasks, IsStream(t), Streamed(t), OpenPool(t)
  PROVE  Streamed(t)'
PROOF
<1> USE DEF OpenPool, config
<1>1. TypeOK /\ Placed(t) /\ choice = "neo4j" /\ Opened(t) = 0 /\ pos[t] = "open"
  BY DEF IInv, Placed
<1>2. ~IsReading(stream[t]) /\ ~IsReading(stream[t])'
  BY <1>1 DEF IsReading, Opened
<1>3. Quiet(t) /\ answer[t].status = "none"
  BY <1>1, <1>2 DEF Streamed
<1>4. Quiet(t)' /\ pos'[t] = "query"
  BY <1>1, <1>3 DEF Quiet, TypeOK
<1> QED
  BY <1>1, <1>2, <1>3, <1>4 DEF Streamed

LEMMA FailStreams ==
  ASSUME IInv, NEW t \in Tasks, IsStream(t), Streamed(t), Fail(t)
  PROVE  Streamed(t)'
PROOF
<1> USE DEF Fail, CanFail, config
<1>1. TypeOK /\ Placed(t) /\ pos[t] \in {"open", "query"}
  BY DEF IInv
<1>2. ~IsReading(stream[t])
  BY <1>1 DEF IsReading, Placed, Opened
<1>3. ~IsReading(stream[t])'
  BY <1>2 DEF IsReading
<1>4. Quiet(t)
  BY <1>2 DEF Streamed
<1>5. pos'[t] = "ended" /\ answer'[t].status \in {"CRITICAL", "ErrNotFound", "error"}
  BY <1>1 DEF Return, Failure, Critical, Status, NotFound, Failed, TypeOK
<1>6. Quiet(t)'
  BY <1>4, <1>5 DEF Quiet
<1> QED
  BY <1>3, <1>5, <1>6 DEF Streamed

\* A reader that has been opened has all rows before it.
LEMMA Opening ==
  ASSUME NEW t \in Tasks, IsStream(t), NEW s \in Seq(RowsOfDB), IsReading(NewReader(s)),
         Unread(NewReader(s)) = Header(t) \o Selected(t)
  PROVE  Exact(t, NewReader(s), <<>>, "none")
PROOF
<1> DEFINE r == NewReader(s)
           rows == Header(t) \o Selected(t)
<1>1. /\ r.readerIndex = 1 /\ r.rowsRead = 0 /\ r.buffer = <<>> /\ r.eof = FALSE
      /\ r.totalBytesRead = 0 /\ r.obsCount = 0
  BY NewReaderFields
<1>2. Whole(t) = Bytes(rows) /\ rows \in Seq(Rows) /\ Len(rows) = Total(t) /\ Len(rows) \in Nat
  BY WholeIsBytes, LenProperties DEF Total
<1>3. PassedBy(r)
  <2> HIDE DEF r
  <2>1. Len(r.streams) \in Nat
    BY ReaderFields DEF IsReading, r
  <2> QED
    BY <1>1, <2>1 DEF PassedBy
<1>4. Bytes(rows) \in Rows
  BY <1>2, BytesType
<1>5. (<<>> \o <<>>) \o Bytes(rows) = Bytes(rows) /\ Len(<<>>) = 0
  BY <1>4, ConcatEmptySeq, EmptySeq DEF Rows
<1> HIDE DEF r, rows
<1>6. Unread(r) = rows
  BY DEF r, rows
<1> QED
  BY <1>1, <1>2, <1>3, <1>5, <1>6 DEF Exact, r

LEMMA OpenStreamsStreams ==
  ASSUME IInv, NEW t \in Tasks, IsStream(t), Streamed(t), OpenStreams(t)
  PROVE  Streamed(t)'
PROOF
<1>1. /\ TypeOK /\ Placed(t) /\ pos[t] = "query" /\ choice \in {"neo4j", "neptune"}
      /\ UNCHANGED <<config, delivered, answer>>
  BY DEF IInv, Placed, OpenStreams
<1>2. ~IsReading(stream[t])
  BY <1>1 DEF IsReading, Placed, Opened
<1>3. Quiet(t) /\ delivered[t] = <<>> /\ answer[t].status = "none"
  BY <1>1, <1>2 DEF Streamed, Quiet
<1> DEFINE streams == IF choice = "neo4j" THEN <<OpenStream(Header(t) \o Selected(t))>>
                      ELSE IF part[t] = 1 THEN <<OpenStream(Header(t))>>
                      ELSE <<stream[t].streams[1], OpenStream(Selected(t))>>
           r == NewReader(streams)
<1>4. stream'[t] = r
  BY <1>1 DEF OpenStreams, TypeOK
<1>5. choice' = choice /\ delivered'[t] = <<>> /\ answer'[t] = answer[t]
  BY <1>1, <1>3 DEF config
<1>6. \A rows : OpenStream(rows).rows = rows
  BY DEF OpenStream
<1>7. /\ OpenStream(Header(t)) \in RowsOfDB /\ OpenStream(Selected(t)) \in RowsOfDB
      /\ OpenStream(Header(t) \o Selected(t)) \in RowsOfDB
  BY RowsOfStreams
<1>8. r.streams = streams /\ r.totalBytesRead = 0 /\ r.eof = FALSE
  BY NewReaderFields
<1>9. CASE choice = "neptune" /\ part[t] = 1
  <2>1. pos'[t] = "query" /\ part'[t] = 2
    BY <1>1, <1>9 DEF OpenStreams, Prepares, IsStream, TypeOK
  <2>2. streams = <<OpenStream(Header(t))>>
    BY <1>9
  <2> HIDE DEF streams, r
  <2>3. RowsOf(r, 1) = Header(t) /\ Len(r.streams) = 1
    BY <1>6, <1>8, <2>2 DEF RowsOf
  <2>4. ~IsReading(r)
    BY <1>9, <2>3 DEF IsReading
  <2>5. Quiet(t)'
    BY <1>3, <1>4, <1>5, <1>8 DEF Quiet
  <2>6. (RowsOf(stream[t], 1) = Header(t))'
    BY <1>4, <2>3 DEF Header
  <2>7. ~IsReading(stream[t])'
    BY <1>4, <1>5, <2>4 DEF IsReading
  <2> QED
    BY <1>3, <1>5, <2>1, <2>5, <2>6, <2>7 DEF Streamed
<1>10. CASE ~(choice = "neptune" /\ part[t] = 1)
  <2>1. pos'[t] = "reading"
    BY <1>1, <1>10 DEF OpenStreams, Prepares, ChecksEdition, IsStream, TypeOK
  <2>2. streams \in Seq(RowsOfDB) /\ IsReading(r) /\ Unread(r) = Header(t) \o Selected(t)
    <3>1. CASE choice = "neo4j"
      <4>1. streams = <<OpenStream(Header(t) \o Selected(t))>>
        BY <3>1
      <4> HIDE DEF streams
      <4>2. streams \in Seq(RowsOfDB) /\ Len(streams) = 1
        BY <1>7, <4>1
      <4>3. r \in Readers
        BY <4>2, NewReaderType
      <4> HIDE DEF r
      <4>4. Len(r.streams) = 1 /\ RowsOf(r, 1) = Header(t) \o Selected(t)
        <5>1. streams[1] = OpenStream(Header(t) \o Selected(t))
          BY <4>1
        <5>2. streams[1].rows = Header(t) \o Selected(t)
          BY <1>6, <5>1
        <5> QED
          BY <1>8, <4>2, <5>2 DEF RowsOf
      <4>5. IsReading(r)
        BY <3>1, <4>3, <4>4 DEF IsReading
      <4> QED
        BY <4>2, <4>4, <4>5 DEF Unread
    <3>2. CASE choice # "neo4j"
      <4> DEFINE first == stream[t].streams[1]
      <4>1. part[t] = 2 /\ choice = "neptune" /\ Opened(t) = 1
        BY <1>1, <1>10, <3>2 DEF TypeOK, Placed
      <4>2. first.rows = Header(t)
        BY <1>1, <4>1 DEF Streamed, RowsOf
      <4>3. first \in RowsOfDB
        <5>1. stream[t].streams \in Seq(RowsOfDB) /\ 1 \in 1..Len(stream[t].streams)
          BY <1>1, <4>1, OpenedType, ReaderFields DEF Opened
        <5> QED
          BY <5>1, ElementOfSeq
      <4>4. streams = <<first, OpenStream(Selected(t))>>
        BY <1>10, <3>2, <4>1
      <4> HIDE DEF streams, first
      <4>5. streams \in Seq(RowsOfDB) /\ Len(streams) = 2
        BY <1>7, <4>3, <4>4
      <4>6. r \in Readers
        BY <4>5, NewReaderType
      <4> HIDE DEF r
      <4>7. Len(r.streams) = 2 /\ RowsOf(r, 1) = Header(t) /\ RowsOf(r, 2) = Selected(t)
        BY <1>6, <1>8, <4>2, <4>4, <4>5 DEF RowsOf
      <4>8. IsReading(r)
        BY <3>2, <4>6, <4>7 DEF IsReading
      <4> QED
        BY <4>5, <4>7, <4>8 DEF Unread
    <3> QED
      BY <3>1, <3>2
  <2> HIDE DEF streams
  <2>3. Exact(t, r, <<>>, "none")
    BY <2>2, Opening
  <2> HIDE DEF r
  <2>4. IsReading(stream[t])'
    BY <1>4, <1>5, <2>2 DEF IsReading
  <2>5. Exact(t, stream[t], delivered[t], answer[t].status)'
    BY <1>3, <1>4, <1>5, <2>3 DEF Exact, Whole, Bytes, Lines, Line, Header, Selected, Total
  <2> QED
    BY <1>3, <1>4, <1>5, <1>8, <2>1, <2>4, <2>5 DEF Streamed
<1> QED
  BY <1>9, <1>10

LEMMA BytesAssociate ==
  ASSUME NEW x \in Rows, NEW y \in Rows, NEW z \in Rows
  PROVE  (x \o y) \o z = x \o (y \o z)
<1>1. Associate(x, y, z)
  BY JoiningAssociates DEF Rows
<1> QED
  BY <1>1 DEF Associate

\* A row goes from what has not been read into the buffer.
LEMMA Buffering ==
  ASSUME NEW t \in Tasks, IsStream(t), NEW r, IsReading(r), NEW bytes \in Rows,
         Exact(t, r, bytes, "none"), ~r.eof, r.buffer = <<>>,
         ReadRow(r).err \in {"none", "EOF"}
  PROVE  LET q == Buffer(ReadRow(r))
         IN  /\ IsReading(q) /\ Exact(t, q, bytes, "none")
             /\ q.eof /\ choice = "neo4j" => q.rowsRead \notin {0, 1}
PROOF
<1> DEFINE res  == ReadRow(r)
           p    == res.reader
           row  == res.row
           over == (res.err = "EOF")
           q    == [p EXCEPT !.buffer = row, !.eof = over, !.obsCount = @ + 1]
<1>1. Buffer(res) = q
  BY DEF Buffer
<1>2. PassedBy(r) /\ r \in Readers /\ r.obsCount \in Nat /\ r.rowsRead \in Nat
  BY DEF Exact, IsReading, Readers
<1>3. IsReading(p) /\ PassedBy(p) /\ row \in Rows /\ p.totalBytesRead = r.totalBytesRead /\ p.obsCount = r.obsCount
  <2>1. row \in Rows
    <3>1. Len(r.streams) > 0
      BY DEF IsReading
    <3> QED
      BY <1>2, <3>1, ReadRowType
  <2> QED
    BY <1>2, <2>1, NextRow, NoRow
<1>4. PICK b \in BOOLEAN : b = over
  OBVIOUS
<1> HIDE DEF row, p, over, res
<1>5. /\ q \in Readers /\ q.streams = p.streams /\ q.buffer = row /\ q.eof = b
      /\ q.obsCount = p.obsCount + 1 /\ q.totalBytesRead = p.totalBytesRead /\ q.rowsRead = p.rowsRead
      /\ q.readerIndex = p.readerIndex
  <2> DEFINE p1 == [p EXCEPT !.buffer = row]
             p2 == [p1 EXCEPT !.eof = b]
  <2>1. p \in Readers
    BY <1>3 DEF IsReading
  <2>2. q = [p2 EXCEPT !.obsCount = @ + 1]
    BY <1>4, <2>1 DEF Readers
  <2>3. /\ p1 \in Readers /\ p1.streams = p.streams /\ p1.buffer = row
        /\ p1.obsCount = p.obsCount /\ p1.totalBytesRead = p.totalBytesRead /\ p1.rowsRead = p.rowsRead
        /\ p1.readerIndex = p.readerIndex
    BY <1>3, <2>1 DEF Readers
  <2> HIDE DEF p1, q
  <2>4. /\ p2 \in Readers /\ p2.streams = p.streams /\ p2.buffer = row /\ p2.eof = b
        /\ p2.obsCount = p.obsCount /\ p2.totalBytesRead = p.totalBytesRead /\ p2.rowsRead = p.rowsRead
        /\ p2.readerIndex = p.readerIndex
    BY <2>3 DEF Readers
  <2> HIDE DEF p2
  <2> QED
    BY <2>2, <2>4 DEF Readers
<1> HIDE DEF q
<1>6. IsReading(q) /\ PassedBy(q) /\ Unread(q) = Unread(p)
  BY <1>3, <1>5 DEF IsReading, PassedBy, Unread, RowsOf
<1>7. Unread(r) \in Seq(Rows) /\ Len(Unread(r)) \in Nat
  BY UnreadType
<1>8. CASE Unread(r) # <<>>
  <2>1. /\ ~b /\ row = Line(Head(Unread(r))) /\ Unread(q) = Tail(Unread(r))
        /\ choice = "neo4j" => q.rowsRead = r.rowsRead + 1
    BY <1>2, <1>4, <1>5, <1>6, <1>8, NextRow DEF row, p, over, res
  <2>2. /\ Bytes(Unread(r)) = row \o Bytes(Unread(q))
        /\ Unread(q) \in Seq(Rows) /\ Len(Unread(q)) = Len(Unread(r)) - 1
    BY <1>7, <1>8, <2>1, BytesFirst, HeadTailProperties
  <2>3. Bytes(Unread(q)) \in Rows
    BY <2>2, BytesType
  <2>4. (bytes \o <<>>) \o (row \o Bytes(Unread(q))) = Whole(t)
    BY <2>2 DEF Exact
  <2>5. (bytes \o row) \o Bytes(Unread(q)) = Whole(t)
    <3>1. bytes \o <<>> = bytes
      BY ConcatEmptySeq DEF Rows
    <3>2. (bytes \o row) \o Bytes(Unread(q)) = bytes \o (row \o Bytes(Unread(q)))
      BY <1>3, <2>3, BytesAssociate
    <3> QED
      BY <2>4, <3>1, <3>2
  <2>6. r.obsCount + Len(Unread(r)) = Total(t) /\ (choice = "neo4j" => r.rowsRead + Len(Unread(r)) = Total(t))
        /\ r.totalBytesRead = Len(bytes)
    BY DEF Exact
  <2>7. q.obsCount + Len(Unread(q)) = Total(t) /\ (choice = "neo4j" => q.rowsRead + Len(Unread(q)) = Total(t))
    BY <1>2, <1>3, <1>5, <1>7, <2>1, <2>2, <2>6
  <2>8. Exact(t, q, bytes, "none")
    BY <1>3, <1>5, <1>6, <2>1, <2>5, <2>6, <2>7 DEF Exact
  <2> QED
    BY <1>1, <1>5, <1>6, <2>1, <2>8 DEF res
<1>9. CASE Unread(r) = <<>>
  <2>1. row = <<>> /\ Unread(q) = <<>>
    BY <1>2, <1>6, <1>9, NoRow DEF row, p, res
  <2>2. b /\ (choice = "neo4j" => q.rowsRead = r.rowsRead /\ r.rowsRead \notin {0, 1})
    BY <1>2, <1>4, <1>5, <1>9, NoRow DEF p, over, res
  <2>3. Len(Unread(r)) = 0
    BY <1>9, EmptySeq
  <2>4. (bytes \o <<>>) \o Bytes(<<>>) = Whole(t)
    BY <1>9 DEF Exact
  <2>5. /\ r.obsCount + Len(Unread(r)) = Total(t) /\ (choice = "neo4j" => r.rowsRead + Len(Unread(r)) = Total(t))
        /\ r.totalBytesRead = Len(bytes)
    BY DEF Exact
  <2>6. q.obsCount = Total(t) + 1 /\ (choice = "neo4j" => q.rowsRead + Len(Unread(q)) = Total(t))
    BY <1>2, <1>3, <1>5, <1>9, <2>1, <2>2, <2>3, <2>5
  <2>7. Exact(t, q, bytes, "none")
    BY <1>3, <1>5, <1>6, <2>1, <2>2, <2>4, <2>5, <2>6 DEF Exact
  <2> QED
    BY <1>1, <1>5, <1>6, <2>2, <2>7 DEF res
<1> QED
  BY <1>8, <1>9

\* Bytes go from the buffer to the application.
LEMMA Copying ==
  ASSUME NEW t \in Tasks, IsStream(t), NEW r, IsReading(r), NEW bytes \in Rows,
         Exact(t, r, bytes, "none"), NEW n \in Nat
  PROVE  LET b == CopyBuffer(r, n)
         IN  /\ IsReading(b.reader) /\ Exact(t, b.reader, bytes \o b.bytes, "none")
             /\ b.reader.eof = r.eof /\ b.reader.rowsRead = r.rowsRead
             /\ b.err = "EOF" <=> r.eof
PROOF
<1> DEFINE copied == Smaller(n, Len(r.buffer))
           taken  == SubSeq(r.buffer, 1, copied)
           rest   == SubSeq(r.buffer, copied + 1, Len(r.buffer))
           q      == [r EXCEPT !.buffer = rest, !.totalBytesRead = @ + copied]
           err    == IF Len(r.buffer) <= n /\ r.eof THEN "EOF" ELSE "none"
<1>1. CopyBuffer(r, n) = [bytes |-> taken, err |-> err, reader |-> q]
  BY DEF CopyBuffer
<1>2. r \in Readers /\ r.buffer \in Seq(Nat) /\ Len(r.buffer) \in Nat /\ r.totalBytesRead \in Nat
  BY LenProperties DEF IsReading, Readers, Rows
<1>3. copied \in 0..Len(r.buffer)
  BY <1>2 DEF Smaller
<1>4. err = "EOF" <=> r.eof
  <2>1. r.eof => Len(r.buffer) = 0
    BY EmptySeq DEF Exact
  <2> QED
    BY <2>1
<1> HIDE DEF copied, err
<1>5. taken \in Rows /\ rest \in Rows /\ Len(taken) = copied
  <2>1. \A i \in 1..Len(r.buffer) : r.buffer[i] \in Nat
    BY <1>2, ElementOfSeq
  <2>2. taken \in Seq(Nat) /\ Len(taken) = IF 1 <= copied THEN copied - 1 + 1 ELSE 0
    BY <1>2, <1>3, <2>1, SubSeqProperties
  <2>3. rest \in Seq(Nat)
    BY <1>2, <1>3, <2>1, SubSeqProperties
  <2> QED
    BY <1>3, <2>2, <2>3 DEF Rows
<1>6. taken \o rest = r.buffer
  <2>1. 1 \in 1..(Len(r.buffer) + 1) /\ copied \in (1 - 1)..Len(r.buffer) /\ Len(r.buffer) \in copied..Len(r.buffer)
    BY <1>2, <1>3
  <2>2. taken \o rest = SubSeq(r.buffer, 1, Len(r.buffer))
    BY <1>2, <2>1, ConcatAdjacentSubSeq DEF taken, rest
  <2> QED
    BY <1>2, <2>2, SubSeqFull
<1> HIDE DEF taken, rest
<1>7. /\ q.streams = r.streams /\ q.buffer = rest /\ q.totalBytesRead = r.totalBytesRead + copied
      /\ q.readerIndex = r.readerIndex /\ q.rowsRead = r.rowsRead /\ q.eof = r.eof /\ q.obsCount = r.obsCount
  BY <1>2 DEF Readers
<1>8. q \in Readers
  <2> DEFINE p == [r EXCEPT !.buffer = rest]
  <2>1. p \in Readers /\ p.totalBytesRead = r.totalBytesRead
    BY <1>2, <1>5 DEF Readers
  <2>2. q = [p EXCEPT !.totalBytesRead = @ + copied]
    BY <1>2 DEF Readers
  <2>3. copied \in Nat
    BY <1>2, <1>3
  <2> HIDE DEF p, q
  <2> QED
    BY <2>1, <2>2, <2>3 DEF Readers
<1> HIDE DEF q
<1>9. IsReading(q) /\ (PassedBy(q) <=> PassedBy(r)) /\ Unread(q) = Unread(r)
  BY <1>7, <1>8 DEF IsReading, PassedBy, Unread, RowsOf
<1>10. (bytes \o taken) \o rest = bytes \o r.buffer
  <2>1. (bytes \o taken) \o rest = bytes \o (taken \o rest)
    BY <1>5, BytesAssociate
  <2> QED
    BY <1>6, <2>1
<1>11. Len(bytes \o taken) = Len(bytes) + copied
  BY <1>5, ConcatProperties DEF Rows
<1>12. r.eof => rest = <<>>
  <2>1. r.eof => taken \o rest = <<>>
    BY <1>6 DEF Exact
  <2> QED
    BY <1>5, <2>1, ConcatEqualIffEmpty DEF Rows
<1>13. Exact(t, q, bytes \o taken, "none")
  BY <1>7, <1>9, <1>10, <1>11, <1>12 DEF Exact
<1> QED
  BY <1>1, <1>4, <1>7, <1>9, <1>13

\* Why the application stopped, when there was no error to stop it.
LEMMA Stopping ==
  ASSUME NEW t \in Tasks, NEW r, NEW bytes, Exact(t, r, bytes, "none"),
         NEW e, e = "EOF" => r.eof /\ (choice = "neo4j" => r.rowsRead \notin {0, 1}),
         choice = "neo4j" /\ e = "ErrNoResultsFound" => Unread(r) = <<>> /\ r.buffer = <<>> /\ r.rowsRead = 1,
         choice = "neo4j" /\ e = "ErrNoInstanceFound" => Unread(r) = <<>> /\ r.buffer = <<>> /\ r.rowsRead = 0
  PROVE  Exact(t, r, bytes, e)
BY DEF Exact

LEMMA ReadStreams ==
  ASSUME IInv, NEW t \in Tasks, IsStream(t), Streamed(t), NEW n \in Sizes, Read(t, n)
  PROVE  Streamed(t)'
PROOF
<1> DEFINE r    == stream[t]
           res  == IF r.buffer = <<>> THEN ReadRow(r) ELSE Result(r.buffer, "none", r)
           full == IF r.buffer = <<>> THEN Buffer(res) ELSE r
           b    == CopyBuffer(full, n)
<1>1. TypeOK /\ pos[t] = "reading" /\ n \in Nat /\ delivered[t] \in Rows
  BY ClientAssumption DEF IInv, Read, TypeOK
<1>2. /\ IsReading(r) /\ ~r.eof /\ Exact(t, r, delivered[t], "none") /\ answer[t].status = "none"
  BY <1>1 DEF Streamed
<1>3. /\ choice' = choice
      /\ res.err \in {"none", "EOF"} =>
           /\ stream' = [stream EXCEPT ![t] = b.reader]
           /\ delivered' = [delivered EXCEPT ![t] = @ \o b.bytes]
           /\ b.err = "EOF" => Stop(t, "EOF")
           /\ b.err # "EOF" => UNCHANGED <<pos, answer>>
      /\ res.err \notin {"none", "EOF"} => Stop(t, res.err) /\ UNCHANGED <<stream, delivered>>
  BY DEF Read, config
<1>4. \A e : Stop(t, e) => pos'[t] = "closing" /\ answer'[t].status = e
  BY <1>1 DEF Stop, Status, TypeOK
<1>5. CASE res.err \in {"none", "EOF"}
  <2>1. IsReading(full) /\ Exact(t, full, delivered[t], "none")
        /\ (full.eof /\ choice = "neo4j" => full.rowsRead \notin {0, 1})
    <3>1. CASE r.buffer = <<>>
      BY <1>1, <1>2, <1>5, <3>1, Buffering
    <3>2. CASE r.buffer # <<>>
      BY <1>2, <3>2
    <3> QED
      BY <3>1, <3>2
  <2> HIDE DEF full
  <2>2. /\ IsReading(b.reader) /\ Exact(t, b.reader, delivered[t] \o b.bytes, "none")
        /\ b.reader.eof = full.eof /\ b.reader.rowsRead = full.rowsRead
        /\ b.err = "EOF" <=> full.eof
    BY <1>1, <2>1, Copying
  <2>3. stream'[t] = b.reader /\ delivered'[t] = delivered[t] \o b.bytes
    BY <1>1, <1>3, <1>5 DEF TypeOK
  <2> HIDE DEF b, res
  <2>4. CASE b.err = "EOF"
    <3>1. pos'[t] = "closing" /\ answer'[t].status = "EOF"
      BY <1>3, <1>4, <1>5, <2>4
    <3>2. Exact(t, b.reader, delivered[t] \o b.bytes, "EOF")
      BY <2>1, <2>2, <2>4, Stopping
    <3>3. IsReading(stream[t])' /\ Exact(t, stream[t], delivered[t], answer[t].status)'
      <4>1. IsReading(stream[t])'
        BY <1>3, <2>2, <2>3 DEF IsReading
      <4>2. Exact(t, stream[t], delivered[t], answer[t].status)'
        BY <1>3, <2>3, <3>1, <3>2 DEF Exact, Whole, Bytes, Lines, Line, Header, Selected, Total
      <4> QED
        BY <4>1, <4>2
    <3> QED
      BY <3>1, <3>3 DEF Streamed
  <2>5. CASE b.err # "EOF"
    <3>1. pos'[t] = "reading" /\ answer'[t].status = "none"
      BY <1>1, <1>2, <1>3, <1>5, <2>5
    <3>2. IsReading(stream[t])' /\ Exact(t, stream[t], delivered[t], answer[t].status)' /\ ~stream'[t].eof
      BY <1>3, <2>2, <2>3, <2>5, <3>1 DEF IsReading, Exact, Whole, Bytes, Lines, Line, Header, Selected, Total
    <3> QED
      BY <3>1, <3>2 DEF Streamed
  <2> QED
    BY <2>4, <2>5
<1>6. CASE res.err \notin {"none", "EOF"}
  <2>1. /\ pos'[t] = "closing" /\ answer'[t].status = res.err
        /\ stream'[t] = r /\ delivered'[t] = delivered[t]
    BY <1>3, <1>4, <1>6
  <2>2. r.buffer = <<>> /\ res = ReadRow(r)
    BY <1>6 DEF Result
  <2>3. PassedBy(r) /\ Unread(r) = <<>>
    BY <1>2, <1>6, <2>2, NextRow DEF Exact
  <2> HIDE DEF res, r
  <2>4. /\ choice = "neo4j" /\ res.err = "ErrNoResultsFound" => r.rowsRead = 1
        /\ choice = "neo4j" /\ res.err = "ErrNoInstanceFound" => r.rowsRead = 0
    BY <1>2, <2>2, <2>3, NoRow
  <2>5. Exact(t, r, delivered[t], res.err)
    BY <1>2, <1>6, <2>2, <2>3, <2>4, Stopping
  <2>6. IsReading(stream[t])' /\ Exact(t, stream[t], delivered[t], answer[t].status)'
    BY <1>2, <1>3, <2>1, <2>5 DEF IsReading, Exact, Whole, Bytes, Lines, Line, Header, Selected, Total
  <2> QED
    BY <2>1, <2>6 DEF Streamed
<1> QED
  BY <1>5, <1>6

LEMMA ReadFailsStreams ==
  ASSUME IInv, NEW t \in Tasks, IsStream(t), Streamed(t), ReadFails(t)
  PROVE  Streamed(t)'
PROOF
<1>1. TypeOK /\ pos[t] = "reading" /\ Stop(t, "error") /\ UNCHANGED <<choice, stream, delivered>>
  BY DEF IInv, ReadFails, config
<1>2. IsReading(stream[t]) /\ Exact(t, stream[t], delivered[t], "none")
  BY <1>1 DEF Streamed
<1>3. pos'[t] = "closing" /\ answer'[t].status = "error"
  BY <1>1 DEF Stop, Status, TypeOK
<1>4. Exact(t, stream[t], delivered[t], "error")
  BY <1>2, Stopping
<1>5. IsReading(stream[t])' /\ Exact(t, stream[t], delivered[t], answer[t].status)'
  BY <1>1, <1>2, <1>3, <1>4 DEF IsReading, Exact, Whole, Bytes, Lines, Line, Header, Selected, Total
<1> QED
  BY <1>3, <1>5 DEF Streamed

LEMMA ClosedReader ==
  ASSUME NEW r, IsReading(r), NEW fails \in Nat
  PROVE  LET q == CompositeClose(r, fails)
         IN  /\ IsReading(q) /\ Unread(q) = Unread(r) /\ (PassedBy(q) <=> PassedBy(r))
             /\ q.buffer = r.buffer /\ q.eof = r.eof /\ q.rowsRead = r.rowsRead
             /\ q.totalBytesRead = r.totalBytesRead /\ q.obsCount = r.obsCount
PROOF
<1> DEFINE closed(i) == IF fails = 0 \/ i < fails THEN [r.streams[i] EXCEPT !.open = FALSE] ELSE r.streams[i]
           streams == [i \in DOMAIN r.streams |-> closed(i)]
           q == [r EXCEPT !.streams = streams]
<1>1. CompositeClose(r, fails) = q
  BY DEF CompositeClose
<1>2. r \in Readers /\ r.streams \in Seq(RowsOfDB) /\ DOMAIN r.streams = 1..Len(r.streams) /\ Len(r.streams) \in 1..2
  BY ReaderFields, LenProperties DEF IsReading
<1>3. q \in Readers /\ Len(q.streams) = Len(r.streams)
  BY <1>1, <1>2, CompositeCloseType
<1>4. ASSUME NEW i \in 1..Len(r.streams) PROVE closed(i).rows = RowsOf(r, i)
  <2>1. r.streams[i] \in RowsOfDB
    BY <1>2, ElementOfSeq
  <2> QED
    BY <2>1 DEF RowsOfDB, RowsOf
<1> HIDE DEF closed
<1>5. \A i \in 1..Len(r.streams) : streams[i].rows = RowsOf(r, i)
  BY <1>2, <1>4
<1> HIDE DEF streams
<1>6. /\ q.streams = streams /\ q.buffer = r.buffer /\ q.eof = r.eof /\ q.rowsRead = r.rowsRead
      /\ q.readerIndex = r.readerIndex /\ q.totalBytesRead = r.totalBytesRead /\ q.obsCount = r.obsCount
  BY <1>2 DEF Readers
<1> HIDE DEF q
<1>7. \A i \in 1..Len(r.streams) : RowsOf(q, i) = RowsOf(r, i)
  BY <1>5, <1>6 DEF RowsOf
<1>8. IsReading(q)
  BY <1>3 DEF IsReading
<1>9. Unread(q) = Unread(r)
  <2>1. RowsOf(q, 1) = RowsOf(r, 1) /\ (Len(r.streams) = 2 => RowsOf(q, 2) = RowsOf(r, 2))
    <3> DEFINE n == Len(r.streams)
    <3>0. n \in 1..2
      BY <1>2
    <3> HIDE DEF n
    <3>1. 1 \in 1..n /\ (n = 2 => 2 \in 1..n)
      BY <3>0
    <3> QED
      BY <1>7, <3>1 DEF n
  <2>2. Unread(q) = IF Len(q.streams) = 2 THEN RowsOf(q, 1) \o RowsOf(q, 2) ELSE RowsOf(q, 1)
    BY DEF Unread
  <2>3. Unread(r) = IF Len(r.streams) = 2 THEN RowsOf(r, 1) \o RowsOf(r, 2) ELSE RowsOf(r, 1)
    BY DEF Unread
  <2>4. CASE Len(r.streams) = 2
    BY <1>3, <2>1, <2>2, <2>3, <2>4
  <2>5. CASE Len(r.streams) # 2
    BY <1>3, <2>1, <2>2, <2>3, <2>5
  <2> QED
    BY <2>4, <2>5
<1>10. PassedBy(q) <=> PassedBy(r)
  BY <1>3, <1>6, <1>7 DEF PassedBy
<1> QED
  BY <1>1, <1>6, <1>8, <1>9, <1>10

LEMMA CloseStreams ==
  ASSUME IInv, NEW t \in Tasks, IsStream(t), Streamed(t), Close(t)
  PROVE  Streamed(t)'
PROOF
<1>1. /\ TypeOK /\ pos[t] \in {"reading", "closing"} /\ pos' = [pos EXCEPT ![t] = "ended"]
      /\ UNCHANGED <<choice, answer, delivered>>
  BY DEF IInv, Close, config
<1>2. PICK fails \in {0} \cup DOMAIN stream[t].streams : stream' = [stream EXCEPT ![t] = CompositeClose(@, fails)]
  BY DEF Close
<1>3. fails \in Nat
  BY <1>1, OpenedType DEF Opened
<1> DEFINE q == CompositeClose(stream[t], fails)
<1>4. stream'[t] = q
  BY <1>1, <1>2 DEF TypeOK
<1>5. IsReading(stream[t]) /\ Exact(t, stream[t], delivered[t], answer[t].status)
  BY <1>1 DEF Streamed
<1>6. /\ IsReading(q) /\ Unread(q) = Unread(stream[t]) /\ (PassedBy(q) <=> PassedBy(stream[t]))
      /\ q.buffer = stream[t].buffer /\ q.eof = stream[t].eof /\ q.rowsRead = stream[t].rowsRead
      /\ q.totalBytesRead = stream[t].totalBytesRead /\ q.obsCount = stream[t].obsCount
  BY <1>3, <1>5, ClosedReader
<1> HIDE DEF q
<1>7. Exact(t, q, delivered[t], answer[t].status)
  BY <1>5, <1>6 DEF Exact
<1>8. IsReading(stream[t])' /\ Exact(t, stream[t], delivered[t], answer[t].status)'
  BY <1>1, <1>4, <1>6, <1>7 DEF IsReading, Exact, Whole, Bytes, Lines, Line, Header, Selected, Total
<1>9. pos'[t] = "ended"
  BY <1>1 DEF TypeOK
<1> QED
  BY <1>8, <1>9 DEF Streamed

LEMMA StreamStep ==
  ASSUME IInv, StreamInv, [Next]_vars
  PROVE  StreamInv'
PROOF
<1> SUFFICES ASSUME NEW u \in Tasks, IsStream(u) PROVE Streamed(u)'
  BY DEF StreamInv, IsStream
<1>1. TypeOK /\ Streamed(u)
  BY DEF IInv, StreamInv
<1>2. ASSUME UNCHANGED vars PROVE Streamed(u)'
  BY <1>1, <1>2, SameStreamed DEF vars, config, Same
<1>3. ASSUME NEW s \in Stores, New(s) PROVE Streamed(u)'
  BY <1>1, <1>3, SameStreamed DEF New, Same
<1>4. ASSUME Edit PROVE Streamed(u)'
  BY <1>1, <1>4, SameStreamed DEF Edit, config, Same
<1>5. ASSUME NEW t \in Tasks, Call(t) \/ Step(t) PROVE Streamed(u)'
  <2>1. CASE t # u
    BY <1>1, <1>5, <2>1, OthersAreSame, SameStreamed
  <2>2. CASE t = u
    <3>1. ~Prepare(u) /\ ~Query(u)
      BY DEF Prepare, Query
    <3> QED
      BY <1>1, <1>5, <2>2, <3>1, CallStreams, OpenPoolStreams, FailStreams, OpenStreamsStreams, ReadStreams,
         ReadFailsStreams, CloseStreams DEF Step, Proceed
  <2> QED
    BY <2>1, <2>2
<1> QED
  BY <1>2, <1>3, <1>4, <1>5 DEF Next, Idle

LEMMA StreamsAreExact ==
  ASSUME IInv, StreamInv
  PROVE  StreamIsExact
PROOF
<1> SUFFICES ASSUME NEW t \in Tasks, IsStream(t)
             PROVE  LET r == stream[t]
                    IN  /\ IsPrefix(delivered[t], Whole(t))
                        /\ r.totalBytesRead = Len(delivered[t])
                        /\ pos[t] \in {"reading", "closing"} /\ ~r.eof =>
                             r.obsCount = Len(Header(t)) + Len(Selected(t)) - Len(RowsLeft(r))
                        /\ answer[t].status = "EOF" => delivered[t] = Whole(t) /\ RowsLeft(r) = <<>>
                        /\ choice = "neo4j" =>
                             /\ answer[t].status = "EOF" => Selected(t) # <<>>
                             /\ answer[t].status = "ErrNoResultsFound" =>
                                  delivered[t] = Whole(t) /\ Header(t) # <<>> /\ Selected(t) = <<>>
                             /\ answer[t].status = "ErrNoInstanceFound" => Header(t) = <<>> /\ delivered[t] = <<>>
  BY DEF StreamIsExact
<1> DEFINE r == stream[t]
<1>1. Streamed(t) /\ delivered[t] \in Rows /\ r \in Readers
  BY DEF StreamInv, IInv, TypeOK
<1>2. /\ Header(t) \in Seq(Rows) /\ Len(Header(t)) \in 0..1 /\ Selected(t) \in Seq(Rows) /\ Len(Selected(t)) \in Nat
      /\ Whole(t) \in Rows
  <2>1. /\ Header(t) \in Seq(Rows) /\ Selected(t) \in Seq(Rows)
        /\ Header(t) \o Selected(t) \in Seq(Rows) /\ Whole(t) = Bytes(Header(t) \o Selected(t))
    BY WholeIsBytes
  <2>2. Len(Header(t)) \in 0..1
    BY EmptySeq DEF Header
  <2> QED
    BY <2>1, <2>2, BytesType, LenProperties
<1>3. \A x, y \in Rows : IsPrefix(x, x \o y)
  <2> SUFFICES ASSUME NEW x \in Rows, NEW y \in Rows PROVE IsPrefix(x, x \o y)
    OBVIOUS
  <2>1. Len(x) \in Nat /\ Len(y) \in Nat /\ Len(x \o y) = Len(x) + Len(y) /\ x \o y \in Seq(Nat)
        /\ \A i \in 1..(Len(x) + Len(y)) : (x \o y)[i] = IF i <= Len(x) THEN x[i] ELSE y[i - Len(x)]
    BY LenProperties, ConcatProperties DEF Rows
  <2>2. SubSeq(x \o y, 1, Len(x)) = SubSeq(x, 1, Len(x))
    <3>1. \A i \in 1..Len(x) : (x \o y)[i] = x[i] /\ x[i] \in Nat
      BY <2>1, ElementOfSeq DEF Rows
    <3> DEFINE a == x \o y
               p == SubSeq(a, 1, Len(x))
               q == SubSeq(x, 1, Len(x))
    <3>2. /\ p \in Seq(Nat) /\ Len(p) = IF 1 <= Len(x) THEN Len(x) - 1 + 1 ELSE 0
          /\ \A i \in 1..(Len(x) - 1 + 1) : p[i] = a[1 + i - 1]
      BY <2>1, <3>1, SubSeqProperties
    <3>3. /\ q \in Seq(Nat) /\ Len(q) = IF 1 <= Len(x) THEN Len(x) - 1 + 1 ELSE 0
          /\ \A i \in 1..(Len(x) - 1 + 1) : q[i] = x[1 + i - 1]
      BY <2>1, <3>1, SubSeqProperties
    <3>4. Len(p) = Len(x) /\ Len(q) = Len(x)
      BY <2>1, <3>2, <3>3
    <3> HIDE DEF p, q
    <3>5. ASSUME NEW i \in 1..Len(p) PROVE p[i] = q[i]
      BY <2>1, <3>1, <3>2, <3>3, <3>4
    <3>6. p = q
      BY <3>2, <3>3, <3>4, <3>5, SeqEqual
    <3> QED
      BY <3>6 DEF p, q
  <2> QED
    BY <2>1, <2>2 DEF IsPrefix
<1>4. CASE ~IsReading(r)
  <2>1. delivered[t] = <<>> /\ r.totalBytesRead = 0 /\ pos[t] \notin {"reading", "closing"}
        /\ answer[t].status \notin {"EOF", "ErrNoResultsFound", "ErrNoInstanceFound"}
    BY <1>1, <1>4 DEF Streamed, Quiet
  <2>2. <<>> \in Rows /\ <<>> \o Whole(t) = Whole(t) /\ Len(<<>>) = 0
    BY <1>2, EmptySeq, ConcatEmptySeq DEF Rows
  <2>3. IsPrefix(<<>>, Whole(t))
    BY <1>2, <1>3, <2>2
  <2> QED
    BY <2>1, <2>2, <2>3
<1>5. CASE IsReading(r)
  <2> DEFINE rest == Unread(r)
             more == r.buffer \o Bytes(rest)
  <2>1. Exact(t, r, delivered[t], answer[t].status)
    BY <1>1, <1>5 DEF Streamed
  <2>2. rest \in Seq(Rows) /\ Bytes(rest) \in Rows /\ r.buffer \in Rows
    BY <1>1, <1>5, UnreadType, BytesType, ReaderFields
  <2>3. Whole(t) = delivered[t] \o more /\ more \in Rows
    <3>1. more \in Rows
      BY <2>2, ConcatProperties DEF Rows
    <3>2. (delivered[t] \o r.buffer) \o Bytes(rest) = delivered[t] \o more
      BY <1>1, <2>2, BytesAssociate
    <3> QED
      BY <2>1, <3>1, <3>2 DEF Exact
  <2>4. IsPrefix(delivered[t], Whole(t))
    BY <1>1, <1>3, <2>3
  <2>5. rest = <<>> /\ r.buffer = <<>> => delivered[t] = Whole(t)
    <3> SUFFICES ASSUME rest = <<>>, r.buffer = <<>> PROVE delivered[t] = Whole(t)
      OBVIOUS
    <3>1. more = <<>>
      BY BytesOfNone, ConcatEmptySeq DEF Rows
    <3>2. delivered[t] \o <<>> = delivered[t]
      BY <1>1, ConcatEmptySeq DEF Rows
    <3> QED
      BY <2>3, <3>1, <3>2
  <2> HIDE DEF more
  <2>6. answer[t].status = "EOF" => rest = <<>> /\ r.buffer = <<>>
    BY <2>1 DEF Exact
  <2>7. rest = RowsLeft(r)
    BY <1>5, LeftIsUnread
  <2>8. Len(rest) \in Nat /\ (rest = <<>> => Len(rest) = 0)
    BY <2>2, LenProperties, EmptySeq
  <2>9. r.rowsRead \in Nat
    BY <1>1 DEF Readers
  <2>10. /\ Len(Header(t)) = 0 <=> Header(t) = <<>>
         /\ Len(Selected(t)) = 0 <=> Selected(t) = <<>>
    BY <1>2, EmptySeq
  <2>11. choice = "neo4j" /\ answer[t].status = "EOF" => Selected(t) # <<>>
    <3> SUFFICES ASSUME choice = "neo4j", answer[t].status = "EOF", Selected(t) = <<>> PROVE FALSE
      OBVIOUS
    <3>1. rest = <<>> /\ r.rowsRead + Len(rest) = Total(t) /\ r.rowsRead \notin {0, 1}
      BY <2>1, <2>6 DEF Exact
    <3>2. r.rowsRead = Len(Header(t)) + Len(Selected(t))
      BY <2>8, <2>9, <3>1 DEF Total
    <3>3. Len(Selected(t)) = 0
      BY <2>10
    <3> QED
      BY <1>2, <3>1, <3>2, <3>3
  <2>12. choice = "neo4j" /\ answer[t].status = "ErrNoResultsFound" =>
           rest = <<>> /\ r.buffer = <<>> /\ Header(t) # <<>> /\ Selected(t) = <<>>
    <3> SUFFICES ASSUME choice = "neo4j", answer[t].status = "ErrNoResultsFound"
                 PROVE  rest = <<>> /\ r.buffer = <<>> /\ Header(t) # <<>> /\ Selected(t) = <<>>
      OBVIOUS
    <3>1. rest = <<>> /\ r.buffer = <<>> /\ r.rowsRead = 1 /\ r.rowsRead + Len(rest) = Total(t)
      BY <2>1 DEF Exact
    <3>2. Len(Header(t)) + Len(Selected(t)) = 1
      BY <2>8, <3>1 DEF Total
    <3>3. Len(Header(t)) = 0 => Len(Selected(t)) = 0
      BY <2>10, NoneWithoutHeader
    <3>4. Len(Header(t)) = 1 /\ Len(Selected(t)) = 0
      BY <1>2, <3>2, <3>3
    <3> QED
      BY <2>10, <3>1, <3>4
  <2>13. choice = "neo4j" /\ answer[t].status = "ErrNoInstanceFound" =>
           rest = <<>> /\ r.buffer = <<>> /\ Header(t) = <<>> /\ Selected(t) = <<>>
    <3> SUFFICES ASSUME choice = "neo4j", answer[t].status = "ErrNoInstanceFound"
                 PROVE  rest = <<>> /\ r.buffer = <<>> /\ Header(t) = <<>> /\ Selected(t) = <<>>
      OBVIOUS
    <3>1. rest = <<>> /\ r.buffer = <<>> /\ r.rowsRead = 0 /\ r.rowsRead + Len(rest) = Total(t)
      BY <2>1 DEF Exact
    <3>2. Len(Header(t)) + Len(Selected(t)) = 0
      BY <2>8, <3>1 DEF Total
    <3> QED
      BY <1>2, <2>10, <3>1, <3>2
  <2>14. Header(t) = <<>> /\ Selected(t) = <<>> => Whole(t) = <<>>
    <3>1. Whole(t) = Bytes(Header(t) \o Selected(t)) /\ <<>> \o <<>> = <<>>
      BY WholeIsBytes, ConcatEmptySeq, EmptySeq
    <3> QED
      BY <3>1, BytesOfNone
  <2>15. r.totalBytesRead = Len(delivered[t])
    BY <2>1 DEF Exact
  <2>16. ~r.eof => r.obsCount = Len(Header(t)) + Len(Selected(t)) - Len(RowsLeft(r))
    <3>1. r.obsCount \in Nat
      BY <1>1 DEF Readers
    <3>2. ~r.eof => r.obsCount + Len(rest) = Len(Header(t)) + Len(Selected(t))
      BY <2>1 DEF Exact, Total
    <3> HIDE DEF rest, r
    <3> QED
      BY <1>2, <2>7, <2>8, <3>1, <3>2
  <2> HIDE DEF rest
  <2> QED
    BY <2>4, <2>5, <2>6, <2>7, <2>11, <2>12, <2>13, <2>14, <2>15, <2>16
<1> QED
  BY <1>4, <1>5

\* An application that reads a stream to its end has got the header and the
\* selected rows, whatever the sizes of its arrays, whatever fails and whoever
\* else reads (Reader.Read, CompositeRowReader.Read, BoltRowReader.Read).
THEOREM StreamsStayExact == Spec => []StreamIsExact
PROOF
<1>1. Init => StreamInv
  BY InitStreamed
<1>2. IInv /\ StreamInv /\ [Next]_vars => StreamInv'
  BY StreamStep
<1>3. IInv /\ StreamInv => StreamIsExact
  BY StreamsAreExact
<1> QED
  BY <1>1, <1>2, <1>3, Invariance, PTL DEF Spec

------------------------------------------------------------------------------
(* What code lists answer: records of a flat list.                         *)

\* Positions in a list of records of k fields.
LEMMA Positioned ==
  ASSUME NEW k \in {2, 4}, NEW i \in Nat, NEW j \in Nat, j >= 1, NEW m \in 1..k
  PROVE  /\ (i + 1) * k = i * k + k /\ i * k \in Nat /\ (i * k) \div k = i /\ (i * k) % k = 0
         /\ (j - 1) * k + m \in Nat /\ (j - 1) * k + m >= 1
         /\ j <= i => (j - 1) * k + m <= i * k
         /\ j = i + 1 => (j - 1) * k + m > i * k /\ (j - 1) * k + m - i * k = m
         /\ j * k - ((j - 1) * k + 1) + 1 = k /\ ((j - 1) * k + 1) + m - 1 = (j - 1) * k + m
         /\ (j - 1) * k + 1 <= j * k
PROOF
<1>1. CASE k = 2
  BY <1>1
<1>2. CASE k = 4
  BY <1>2
<1> QED
  BY <1>1, <1>2

\* A flat list of records is cut into the records it was made of
\* (statementSummary, createRecords).
LEMMA RecordsOfFlat ==
  ASSUME NEW k \in {2, 4}, NEW S, NEW rs \in Seq(Seq(S)), \A i \in 1..Len(rs) : Len(rs[i]) = k
  PROVE  createRecords(Flat(rs), k) = Ok(rs)
PROOF
<1> DEFINE n == Len(rs)
           v == Flat(rs)
<1>1. n \in Nat /\ \A i \in 1..n : rs[i] \in Seq(S) /\ Len(rs[i]) = k
  BY LenProperties, ElementOfSeq
<1>2. Len(v) = n * k /\ \A j \in 1..n : \A m \in 1..k : v[(j - 1) * k + m] = rs[j][m] /\ v[(j - 1) * k + m] \in S
  <2>1. CASE rs = <<>>
    <3>1. n = 0 /\ v = <<>>
      BY <2>1, EmptySeq DEF Flat, FlattenSeq
    <3>2. Len(v) = 0
      BY <3>1, EmptySeq
    <3> HIDE DEF n, v
    <3> QED
      BY <3>1, <3>2
  <2>2. CASE rs # <<>>
    <3>1. PICK f : Joins(f, rs, n) /\ v = f[n]
      BY <2>2, FlattenIsJoin DEF Flat
    <3>2. n \in 1..n /\ n # 0
      BY <2>2, <1>1, EmptySeq
    <3>3. \A i \in 1..n : f[i] \in Seq(S)
      BY <3>1, <3>2, JoinsType
    <3>4. f[1] = rs[1] /\ \A i \in 1..(n - 1) : f[i + 1] = f[i] \o rs[i + 1]
      <4> HIDE DEF n
      <4>1. f[1] = rs[1]
        BY <1>1, <3>1, <3>2 DEF Joins
      <4>2. ASSUME NEW i \in 1..(n - 1) PROVE f[i + 1] = f[i] \o rs[i + 1]
        <5>1. i + 1 \in 1..n /\ i + 1 # 1 /\ (i + 1) - 1 = i
          BY <1>1
        <5> QED
          BY <3>1, <5>1 DEF Joins
      <4> QED
        BY <4>1, <4>2
    <3> DEFINE G == { i \in 1..n : /\ Len(f[i]) = i * k
                                   /\ \A j \in 1..i : \A m \in 1..k : f[i][(j - 1) * k + m] = rs[j][m] }
    <3> HIDE DEF n, v
    <3>5. 1 \in G
      <4>1. 1 * k = k /\ (1 - 1) * k = 0
        BY Positioned
      <4>2. \A m \in 1..k : 0 + m = m
        OBVIOUS
      <4>3. \A j \in 1..1 : j = 1
        OBVIOUS
      <4> QED
        BY <1>1, <3>2, <3>4, <4>1, <4>2, <4>3
    <3>6. ASSUME NEW i \in 1..(n - 1), i \in G PROVE i + 1 \in G
      <4>1. i + 1 \in 1..n /\ i \in 1..n /\ i \in Nat
        BY <1>1
      <4>2. f[i] \in Seq(S) /\ rs[i + 1] \in Seq(S) /\ Len(f[i]) = i * k /\ Len(rs[i + 1]) = k
        BY <1>1, <3>3, <3>6, <4>1
      <4>3. /\ Len(f[i + 1]) = i * k + k
            /\ \A p \in 1..(i * k + k) : f[i + 1][p] = IF p <= i * k THEN f[i][p] ELSE rs[i + 1][p - i * k]
        <5>1. PICK a \in Seq(S) : a = f[i]
          BY <4>2
        <5>2. PICK b \in Seq(S) : b = rs[i + 1]
          BY <4>2
        <5>3. /\ Len(a \o b) = Len(a) + Len(b)
              /\ \A p \in 1..(Len(a) + Len(b)) : (a \o b)[p] = IF p <= Len(a) THEN a[p] ELSE b[p - Len(a)]
          BY ConcatProperties
        <5> QED
          BY <3>4, <4>2, <5>1, <5>2, <5>3
      <4>4. Len(f[i + 1]) = (i + 1) * k
        <5>1. 1 \in 1..k
          OBVIOUS
        <5> QED
          BY <4>1, <4>3, <5>1, Positioned
      <4>5. ASSUME NEW j \in 1..(i + 1), NEW m \in 1..k PROVE f[i + 1][(j - 1) * k + m] = rs[j][m]
        <5> DEFINE p == (j - 1) * k + m
        <5>1. /\ p \in Nat /\ p >= 1 /\ i * k \in Nat /\ k \in Nat
              /\ j <= i => p <= i * k
              /\ j = i + 1 => p > i * k /\ p - i * k = m
          BY <4>1, Positioned
        <5>2. m \in Nat /\ m <= k
          OBVIOUS
        <5>3. CASE j <= i
          <6>1. j \in 1..i
            BY <4>1, <5>3
          <6>2. f[i][p] = rs[j][m]
            BY <3>6, <6>1
          <6>3. p \in 1..(i * k + k) /\ p <= i * k
            <7> HIDE DEF p
            <7> DEFINE q == i * k
            <7> HIDE DEF q
            <7>1. q \in Nat /\ p <= q
              BY <5>1, <5>3 DEF q
            <7>2. p \in 1..(q + k) /\ p <= q
              BY <5>1, <7>1
            <7> QED
              BY <7>2 DEF q
          <6>4. \A x \in 1..(i * k + k) : x <= i * k => f[i + 1][x] = f[i][x]
            BY <4>3
          <6> HIDE DEF p
          <6>5. f[i + 1][p] = f[i][p]
            BY <6>3, <6>4
          <6> QED
            BY <6>2, <6>5 DEF p
        <5>4. CASE ~(j <= i)
          <6>1. j = i + 1
            BY <4>1, <5>4
          <6>2. p \in 1..(i * k + k) /\ ~(p <= i * k) /\ p - i * k = m
            <7> HIDE DEF p
            <7> DEFINE q == i * k
            <7> HIDE DEF q
            <7>1. q \in Nat /\ p > q /\ p - q = m
              BY <5>1, <6>1 DEF q
            <7>2. p \in 1..(q + k) /\ ~(p <= q)
              BY <5>1, <5>2, <7>1
            <7> QED
              BY <7>1, <7>2 DEF q
          <6>3. \A x \in 1..(i * k + k) : ~(x <= i * k) => f[i + 1][x] = rs[i + 1][x - i * k]
            BY <4>3
          <6> HIDE DEF p
          <6>4. f[i + 1][p] = rs[i + 1][p - i * k]
            BY <6>2, <6>3
          <6> QED
            BY <6>1, <6>2, <6>4 DEF p
        <5> QED
          BY <5>3, <5>4
      <4> QED
        BY <4>1, <4>4, <4>5
    <3> HIDE DEF G
    <3>7. 1..n \subseteq G
      BY <1>1, <3>5, <3>6, CountingUp
    <3>8. n \in G
      BY <3>2, <3>7
    <3>9. \A j \in 1..n : \A m \in 1..k : rs[j][m] \in S
      BY <1>1, ElementOfSeq
    <3> QED
      BY <3>1, <3>8, <3>9 DEF G
  <2> QED
    BY <2>1, <2>2
<1> HIDE DEF v, n
<1>3. 1 \in 1..k /\ k \in Nat
  OBVIOUS
<1>4. Len(v) \div k = n /\ Len(v) % k = 0
  BY <1>1, <1>2, <1>3, Positioned
<1>5. createRecords(v, k) = Ok([i \in 1..n |-> SubSeq(v, (i - 1) * k + 1, i * k)])
  BY <1>4 DEF createRecords
<1>6. ASSUME NEW j \in 1..n PROVE SubSeq(v, (j - 1) * k + 1, j * k) = rs[j]
  <2> DEFINE a == (j - 1) * k + 1
             b == j * k
  <2>1. j \in Nat /\ j >= 1
    BY <1>1
  <2>2. a \in Nat /\ a <= b /\ b - a + 1 = k /\ \A m \in 1..k : a + m - 1 = (j - 1) * k + m
    BY <1>3, <2>1, Positioned
  <2>3. b \in Nat
    BY <1>3, <2>1, Positioned
  <2> HIDE DEF a, b
  <2>4. \A x \in a..b : v[x] \in S
    <3> SUFFICES ASSUME NEW x \in a..b PROVE v[x] \in S
      OBVIOUS
    <3> DEFINE m == x - a + 1
    <3>1. m \in 1..k /\ a + m - 1 = x
      BY <1>3, <2>2, <2>3
    <3> HIDE DEF m
    <3>2. (j - 1) * k + m = x
      BY <2>2, <3>1
    <3> QED
      BY <1>2, <3>1, <3>2
  <2>5. /\ SubSeq(v, a, b) \in Seq(S) /\ Len(SubSeq(v, a, b)) = k
        /\ \A m \in 1..k : SubSeq(v, a, b)[m] = v[a + m - 1]
    <3>1. /\ SubSeq(v, a, b) \in Seq(S) /\ Len(SubSeq(v, a, b)) = IF a <= b THEN b - a + 1 ELSE 0
          /\ \A m \in 1..(b - a + 1) : SubSeq(v, a, b)[m] = v[a + m - 1]
      BY <2>2, <2>3, <2>4, SubSeqProperties
    <3> QED
      BY <2>2, <3>1
  <2>6. ASSUME NEW m \in 1..k PROVE SubSeq(v, a, b)[m] = rs[j][m]
    <3>1. SubSeq(v, a, b)[m] = v[(j - 1) * k + m]
      BY <2>2, <2>5
    <3>2. v[(j - 1) * k + m] = rs[j][m]
      BY <1>2
    <3> QED
      BY <3>1, <3>2
  <2>7. rs[j] \in Seq(S) /\ Len(rs[j]) = k
    BY <1>1
  <2>8. SubSeq(v, a, b) = rs[j]
    BY <2>5, <2>6, <2>7, SeqEqual
  <2> QED
    BY <2>8 DEF a, b
<1>7. rs = [i \in 1..n |-> rs[i]]
  BY <1>1, LenProperties DEF n
<1>8. createRecords(v, k) = Ok([i \in 1..n |-> rs[i]])
  <2>1. [i \in 1..n |-> SubSeq(v, (i - 1) * k + 1, i * k)] = [i \in 1..n |-> rs[i]]
    BY <1>6
  <2> QED
    BY <1>5, <2>1
<1> QED
  BY <1>7, <1>8 DEF v

------------------------------------------------------------------------------
(* What code lists answer: folds over rows.                                *)

\* The maps that folds begin with.
NoMap == [x \in {} |-> 0]

\* Of a record: its dataset, dimension and edition.
Key(r) == <<r[4], r[1], r[2]>>

\* The latest versions so far, and one more record (buildLatestVersionMaps).
Later(latest, r) ==
  LET k == <<r[4], r[1], r[2]>>
  IN  IF k \notin DOMAIN latest \/ latest[k] < r[3]
      THEN [x \in DOMAIN latest \cup {k} |-> IF x = k THEN r[3] ELSE latest[x]]
      ELSE latest

\* The datasets so far, and one more row (mapper.CodesDatasets).
Known(datasets, r) ==
  LET known == r.d.id \in DOMAIN datasets
      old   == IF known THEN datasets[r.d.id] ELSE [label |-> r.label, versions |-> {}]
  IN  [x \in DOMAIN datasets \cup {r.d.id} |->
         IF x = r.d.id THEN [old EXCEPT !.versions = @ \cup {<<r.d.edition, r.d.version>>}]
         ELSE datasets[x]]

\* One more row, for either of the folds.
With(kind, m, r) == IF kind = "latest" THEN Later(m, r) ELSE Known(m, r)

\* g[s] is the fold over the rows with the indices s.
Folded(kind, g, rs, n) ==
  g = [s \in SUBSET (1..n) |-> IF s = {} THEN NoMap ELSE With(kind, g[s \ {Max(s)}], rs[Max(s)])]

\* Folds take the greatest index first.
LEMMA GreatestIndex ==
  ASSUME NEW i \in Nat, NEW s, s \subseteq 1..(i + 1), i + 1 \in s
  PROVE  Max(s) = i + 1
PROOF
<1> DEFINE is(x) == x \in s /\ \A y \in s : x >= y
<1>1. is(i + 1)
  OBVIOUS
<1>2. ASSUME NEW x, is(x) PROVE x = i + 1
  BY <1>2
<1>3. Max(s) = CHOOSE x \in s : \A y \in s : x >= y
  BY DEF Max
<1> QED
  BY <1>1, <1>2, <1>3

\* The recursion of a fold has a solution, built up index by index.
LEMMA FoldExists ==
  ASSUME NEW kind, NEW rs, NEW n \in Nat
  PROVE  \E g : Folded(kind, g, rs, n)
PROOF
<1> DEFINE G == { i \in Nat : \E g : Folded(kind, g, rs, i - 1) }
<1>1. 1 \in G
  <2> DEFINE g == [s \in {{}} |-> NoMap]
  <2>1. SUBSET (1..(1 - 1)) = {{}}
    OBVIOUS
  <2>2. Folded(kind, g, rs, 1 - 1)
    BY <2>1 DEF Folded
  <2> QED
    BY <2>2
<1>2. ASSUME NEW k \in 1..n, k \in G PROVE k + 1 \in G
  <2> DEFINE i == k - 1
  <2>1. i \in Nat /\ (k + 1) - 1 = i + 1
    OBVIOUS
  <2>2. PICK f : Folded(kind, f, rs, i)
    BY <1>2
  <2> HIDE DEF i
  <2> DEFINE g == [s \in SUBSET (1..(i + 1)) |->
                     IF i + 1 \in s THEN With(kind, f[s \ {i + 1}], rs[i + 1]) ELSE f[s]]
  <2>3. ASSUME NEW s \in SUBSET (1..(i + 1))
        PROVE  g[s] = IF s = {} THEN NoMap ELSE With(kind, g[s \ {Max(s)}], rs[Max(s)])
    <3>1. CASE i + 1 \in s
      <4>1. Max(s) = i + 1
        BY <2>1, <3>1, GreatestIndex
      <4>2. s \ {i + 1} \in SUBSET (1..(i + 1)) /\ i + 1 \notin s \ {i + 1}
        OBVIOUS
      <4>3. g[s \ {i + 1}] = f[s \ {i + 1}]
        BY <4>2
      <4>4. g[s] = With(kind, f[s \ {i + 1}], rs[i + 1])
        BY <3>1
      <4> HIDE DEF g
      <4> QED
        BY <3>1, <4>1, <4>3, <4>4
    <3>2. CASE i + 1 \notin s
      <4>1. s \in SUBSET (1..i)
        BY <2>1, <3>2
      <4>2. f[s] = IF s = {} THEN NoMap ELSE With(kind, f[s \ {Max(s)}], rs[Max(s)])
        BY <2>2, <4>1 DEF Folded
      <4>3. g[s] = f[s] /\ g[s \ {Max(s)}] = f[s \ {Max(s)}]
        BY <3>2
      <4> HIDE DEF g
      <4> QED
        BY <4>2, <4>3
    <3> QED
      BY <3>1, <3>2
  <2>4. g = [s \in SUBSET (1..(i + 1)) |-> g[s]]
    OBVIOUS
  <2> HIDE DEF g
  <2>5. Folded(kind, g, rs, i + 1)
    BY <2>3, <2>4 DEF Folded
  <2>6. k + 1 \in Nat
    OBVIOUS
  <2> QED
    BY <2>1, <2>5, <2>6
<1> HIDE DEF G
<1>3. (n + 1) - 1 = n /\ n + 1 \in Nat /\ n + 1 \in 1..(n + 1)
  OBVIOUS
<1>4. 1..(n + 1) \subseteq G
  BY <1>1, <1>2, <1>3, CountingUp
<1>5. n + 1 \in G
  BY <1>3, <1>4
<1> QED
  BY <1>3, <1>5 DEF G

\* What is folded over the first rows, row by row.
LEMMA FoldSteps ==
  ASSUME NEW kind, NEW rs, NEW n \in Nat, NEW g, Folded(kind, g, rs, n)
  PROVE  /\ g[1..0] = NoMap
         /\ \A i \in 0..(n - 1) : g[1..(i + 1)] = With(kind, g[1..i], rs[i + 1])
PROOF
<1>1. g[1..0] = NoMap
  <2>1. 1..0 = {} /\ 1..0 \in SUBSET (1..n)
    OBVIOUS
  <2> QED
    BY <2>1 DEF Folded
<1>2. ASSUME NEW i \in 0..(n - 1) PROVE g[1..(i + 1)] = With(kind, g[1..i], rs[i + 1])
  <2> DEFINE s == 1..(i + 1)
  <2>1. i \in Nat /\ s \subseteq 1..(i + 1) /\ i + 1 \in s /\ s \in SUBSET (1..n) /\ s \ {i + 1} = 1..i
    OBVIOUS
  <2> HIDE DEF s
  <2>2. Max(s) = i + 1 /\ s # {}
    BY <2>1, GreatestIndex
  <2>3. g[s] = With(kind, g[s \ {Max(s)}], rs[Max(s)])
    BY <2>1, <2>2 DEF Folded
  <2>4. g[s] = With(kind, g[1..i], rs[i + 1])
    BY <2>1, <2>2, <2>3
  <2> QED
    BY <2>4 DEF s
<1> QED
  BY <1>1, <1>2

\* The map of the latest versions is such a fold.
LEMMA LatestIsFold ==
  ASSUME NEW rs, NEW n \in Nat, DOMAIN rs = 1..n
  PROVE  \E g : Folded("latest", g, rs, n) /\ buildLatestVersionMaps(rs) = g[1..n]
PROOF
<1> DEFINE g == CHOOSE f : f = [s \in SUBSET (1..n) |->
                   IF s = {} THEN NoMap ELSE Later(f[s \ {Max(s)}], rs[Max(s)])]
<1>1. \E f : f = [s \in SUBSET (1..n) |->
                   IF s = {} THEN NoMap ELSE Later(f[s \ {Max(s)}], rs[Max(s)])]
  <2>1. PICK f : Folded("latest", f, rs, n)
    BY FoldExists
  <2>2. \A m, r : With("latest", m, r) = Later(m, r)
    BY DEF With
  <2>3. f = [s \in SUBSET (1..n) |-> IF s = {} THEN NoMap ELSE Later(f[s \ {Max(s)}], rs[Max(s)])]
    BY <2>1, <2>2 DEF Folded
  <2> QED
    BY <2>3
<1>2. g = [s \in SUBSET (1..n) |-> IF s = {} THEN NoMap ELSE Later(g[s \ {Max(s)}], rs[Max(s)])]
  BY <1>1
<1>3. buildLatestVersionMaps(rs) = g[1..n]
  BY DEF buildLatestVersionMaps, FoldLeft, MapThenFoldSet, NoMap, Later
<1> HIDE DEF g
<1>4. \A m, r : With("latest", m, r) = Later(m, r)
  BY DEF With
<1>5. Folded("latest", g, rs, n)
  BY <1>2, <1>4 DEF Folded
<1> QED
  BY <1>3, <1>5

\* And so is that of the datasets.
LEMMA KnownIsFold ==
  ASSUME NEW rs, NEW n \in Nat, DOMAIN rs = 1..n
  PROVE  \E g : Folded("known", g, rs, n) /\ CodesDatasets(rs) = g[1..n]
PROOF
<1> DEFINE base == [x \in {} |-> {}]
           g == CHOOSE f : f = [s \in SUBSET (1..n) |->
                   IF s = {} THEN base ELSE Known(f[s \ {Max(s)}], rs[Max(s)])]
<1>0. base = NoMap
  BY DEF NoMap
<1>4. \A m, r : With("known", m, r) = Known(m, r)
  BY DEF With
<1>1. \E f : f = [s \in SUBSET (1..n) |->
                   IF s = {} THEN base ELSE Known(f[s \ {Max(s)}], rs[Max(s)])]
  <2>1. PICK f : Folded("known", f, rs, n)
    BY FoldExists
  <2>2. f = [s \in SUBSET (1..n) |-> IF s = {} THEN base ELSE Known(f[s \ {Max(s)}], rs[Max(s)])]
    BY <1>0, <1>4, <2>1 DEF Folded
  <2> QED
    BY <2>2
<1>2. g = [s \in SUBSET (1..n) |-> IF s = {} THEN base ELSE Known(g[s \ {Max(s)}], rs[Max(s)])]
  BY <1>1
<1>3. CodesDatasets(rs) = g[1..n]
  BY DEF CodesDatasets, FoldLeft, MapThenFoldSet, Known
<1> HIDE DEF g
<1>6. ASSUME NEW s \in SUBSET (1..n)
      PROVE  (IF s = {} THEN base ELSE Known(g[s \ {Max(s)}], rs[Max(s)]))
             = (IF s = {} THEN NoMap ELSE With("known", g[s \ {Max(s)}], rs[Max(s)]))
  <2>1. With("known", g[s \ {Max(s)}], rs[Max(s)]) = Known(g[s \ {Max(s)}], rs[Max(s)])
    BY <1>4
  <2> QED
    BY <1>0, <2>1
<1> HIDE DEF base
<1>7. g = [s \in SUBSET (1..n) |-> IF s = {} THEN NoMap ELSE With("known", g[s \ {Max(s)}], rs[Max(s)])]
  BY <1>2, <1>6
<1>5. Folded("known", g, rs, n)
  BY <1>7 DEF Folded
<1> QED
  BY <1>3, <1>5

\* g[1..i] is what there is of datasets after i rows.
KnownSteps(g, rs, n) ==
  g[1..0] = NoMap /\ \A i \in 0..(n - 1) : g[1..(i + 1)] = Known(g[1..i], rs[i + 1])

\* The map of the datasets is made row by row.
LEMMA KnownByRow ==
  ASSUME NEW rs, NEW n \in Nat, DOMAIN rs = 1..n
  PROVE  \E g : KnownSteps(g, rs, n) /\ CodesDatasets(rs) = g[1..n]
PROOF
<1>1. PICK g : Folded("known", g, rs, n) /\ CodesDatasets(rs) = g[1..n]
  BY KnownIsFold
<1>2. g[1..0] = NoMap
  BY <1>1, FoldSteps
<1>3. \A i \in 0..(n - 1) : g[1..(i + 1)] = With("known", g[1..i], rs[i + 1])
  BY <1>1, FoldSteps
<1>4. \A i \in 0..(n - 1) : g[1..(i + 1)] = Known(g[1..i], rs[i + 1])
  BY <1>3 DEF With
<1>5. KnownSteps(g, rs, n)
  BY <1>2, <1>4 DEF KnownSteps
<1> QED
  BY <1>1, <1>5

\* g[1..i] is what there is of the latest versions after i records.
LatestSteps(g, rs, n) ==
  g[1..0] = NoMap /\ \A i \in 0..(n - 1) : g[1..(i + 1)] = Later(g[1..i], rs[i + 1])

\* The map of the latest versions is made record by record.
LEMMA LatestByRow ==
  ASSUME NEW rs, NEW n \in Nat, DOMAIN rs = 1..n
  PROVE  \E g : LatestSteps(g, rs, n) /\ buildLatestVersionMaps(rs) = g[1..n]
PROOF
<1>1. PICK g : Folded("latest", g, rs, n) /\ buildLatestVersionMaps(rs) = g[1..n]
  BY LatestIsFold
<1>2. g[1..0] = NoMap
  BY <1>1, FoldSteps
<1>3. \A i \in 0..(n - 1) : g[1..(i + 1)] = With("latest", g[1..i], rs[i + 1])
  BY <1>1, FoldSteps
<1>4. \A i \in 0..(n - 1) : g[1..(i + 1)] = Later(g[1..i], rs[i + 1])
  BY <1>3 DEF With
<1>5. LatestSteps(g, rs, n)
  BY <1>2, <1>4 DEF LatestSteps
<1> QED
  BY <1>1, <1>5

\* The greatest third field that the records of a key have.
IsLatest(m, rs, n) ==
  /\ DOMAIN m = { Key(rs[j]) : j \in 1..n }
  /\ \A j \in 1..n : rs[j][3] <= m[Key(rs[j])]
  /\ \A k \in DOMAIN m : \E j \in 1..n : k = Key(rs[j]) /\ m[k] = rs[j][3]

\* The latest version of each dataset and edition is kept, in whatever order
\* the records come.
LEMMA LatestOfRecords ==
  ASSUME NEW n \in Nat, NEW rs, DOMAIN rs = 1..n, \A j \in 1..n : rs[j][3] \in Nat,
         NEW m, m = buildLatestVersionMaps(rs)
  PROVE  IsLatest(m, rs, n)
PROOF
<1>1. PICK g : LatestSteps(g, rs, n) /\ m = g[1..n]
  BY LatestByRow
<1>2. g[1..0] = NoMap /\ \A i \in 0..(n - 1) : g[1..(i + 1)] = Later(g[1..i], rs[i + 1])
  BY <1>1 DEF LatestSteps
<1> DEFINE good(i) == /\ DOMAIN g[1..i] = { Key(rs[j]) : j \in 1..i }
                      /\ \A j \in 1..i : rs[j][3] <= g[1..i][Key(rs[j])]
                      /\ \A k \in DOMAIN g[1..i] : \E j \in 1..i : k = Key(rs[j]) /\ g[1..i][k] = rs[j][3]
           G == { i \in 1..(n + 1) : good(i - 1) }
<1>3. 1 \in G
  <2>1. g[1..(1 - 1)] = NoMap /\ 1..(1 - 1) = {} /\ DOMAIN NoMap = {}
    BY <1>2 DEF NoMap
  <2>2. good(1 - 1)
    BY <2>1
  <2> HIDE DEF good
  <2> QED
    BY <2>2
<1>4. ASSUME NEW i1 \in 1..((n + 1) - 1), i1 \in G PROVE i1 + 1 \in G
  <2> DEFINE i == i1 - 1
  <2>1. i \in 0..(n - 1) /\ (i1 + 1) - 1 = i + 1 /\ i1 + 1 \in 1..(n + 1) /\ i + 1 \in 1..n
    OBVIOUS
  <2> HIDE DEF i
  <2>2. good(i)
    BY <1>4 DEF i
  <2> DEFINE a == g[1..i]
             b == g[1..(i + 1)]
             r == rs[i + 1]
             k == Key(r)
  <2>3. b = Later(a, r) /\ r[3] \in Nat
    BY <1>2, <2>1
  <2>4. /\ DOMAIN a = { Key(rs[j]) : j \in 1..i }
        /\ \A j \in 1..i : rs[j][3] <= a[Key(rs[j])]
        /\ \A x \in DOMAIN a : \E j \in 1..i : x = Key(rs[j]) /\ a[x] = rs[j][3]
    BY <2>2
  <2>5. \A x \in DOMAIN a : a[x] \in Nat
    <3>1. \A j \in 1..i : rs[j][3] \in Nat
      BY <2>1
    <3> HIDE DEF a
    <3> QED
      BY <2>4, <3>1
  <2>6. \A j \in 1..(i + 1) : j \in 1..i \/ j = i + 1
    BY <2>1
  <2> HIDE DEF a, b, good
  <2>7. /\ DOMAIN b = DOMAIN a \cup {k}
        /\ \A x \in DOMAIN a \ {k} : b[x] = a[x]
        /\ k \in DOMAIN a /\ r[3] <= a[k] => b[k] = a[k]
        /\ ~(k \in DOMAIN a /\ r[3] <= a[k]) => b[k] = r[3]
    <3>1. b = IF k \notin DOMAIN a \/ a[k] < r[3]
              THEN [x \in DOMAIN a \cup {k} |-> IF x = k THEN r[3] ELSE a[x]] ELSE a
      BY <2>3 DEF Later, Key
    <3> HIDE DEF k, r
    <3>2. CASE k \notin DOMAIN a \/ a[k] < r[3]
      <4>1. b = [x \in DOMAIN a \cup {k} |-> IF x = k THEN r[3] ELSE a[x]]
        BY <3>1, <3>2
      <4>2. ~(k \in DOMAIN a /\ r[3] <= a[k])
        BY <2>3, <2>5, <3>2
      <4> QED
        BY <4>1, <4>2
    <3>3. CASE ~(k \notin DOMAIN a \/ a[k] < r[3])
      <4>1. b = a /\ k \in DOMAIN a /\ r[3] <= a[k]
        BY <2>3, <2>5, <3>1, <3>3
      <4> QED
        BY <4>1
    <3> QED
      BY <3>2, <3>3
  <2>8. DOMAIN b = { Key(rs[j]) : j \in 1..(i + 1) }
    <3>1. 1..i \subseteq 1..(i + 1) /\ i + 1 \in 1..(i + 1)
      BY <2>1
    <3> QED
      BY <2>4, <2>6, <2>7, <3>1
  <2>9. ASSUME NEW j \in 1..(i + 1) PROVE rs[j][3] <= b[Key(rs[j])]
    <3>1. CASE j = i + 1
      BY <2>3, <2>7, <3>1
    <3>2. CASE j \in 1..i
      <4>1. Key(rs[j]) \in DOMAIN a /\ rs[j][3] <= a[Key(rs[j])] /\ rs[j][3] \in Nat
        BY <2>1, <2>4, <3>2
      <4>2. CASE Key(rs[j]) # k
        BY <2>7, <4>1, <4>2
      <4>3. CASE Key(rs[j]) = k
        <5>1. k \in DOMAIN a /\ rs[j][3] <= a[k] /\ a[k] \in Nat
          BY <2>5, <4>1, <4>3
        <5> HIDE DEF k, r
        <5>2. rs[j][3] <= b[k]
          BY <2>3, <2>7, <4>1, <5>1
        <5> QED
          BY <4>3, <5>2
      <4> QED
        BY <4>2, <4>3
    <3> QED
      BY <2>6, <3>1, <3>2
  <2>10. ASSUME NEW x \in DOMAIN b PROVE \E j \in 1..(i + 1) : x = Key(rs[j]) /\ b[x] = rs[j][3]
    <3>1. 1..i \subseteq 1..(i + 1) /\ i + 1 \in 1..(i + 1)
      BY <2>1
    <3>2. CASE x # k
      <4>1. x \in DOMAIN a /\ b[x] = a[x]
        BY <2>7, <3>2
      <4> QED
        BY <2>4, <3>1, <4>1
    <3>3. CASE x = k /\ k \in DOMAIN a /\ r[3] <= a[k]
      <4>1. b[x] = a[x] /\ x \in DOMAIN a
        BY <2>7, <3>3
      <4> QED
        BY <2>4, <3>1, <4>1
    <3>4. CASE x = k /\ ~(k \in DOMAIN a /\ r[3] <= a[k])
      <4>1. b[x] = r[3]
        BY <2>7, <3>4
      <4> QED
        BY <3>1, <3>4, <4>1
    <3> QED
      BY <3>2, <3>3, <3>4
  <2>11. good(i + 1)
    BY <2>8, <2>9, <2>10 DEF good, b
  <2> QED
    BY <2>1, <2>11
<1> HIDE DEF G
<1>5. 1..(n + 1) \subseteq G
  <2>1. n + 1 \in Nat
    OBVIOUS
  <2> QED
    BY <1>3, <1>4, <2>1, CountingUp
<1>6. n + 1 \in G /\ (n + 1) - 1 = n
  BY <1>5
<1>7. good(n)
  BY <1>6 DEF G
<1> QED
  BY <1>1, <1>7 DEF IsLatest

\* The versions that rs has of dataset id, each with its edition.
VersionsIn(rs, n, id) == { <<rs[j].d.edition, rs[j].d.version>> : j \in { i \in 1..n : rs[i].d.id = id } }

\* The datasets of the rows, each with all its versions and the label of a row.
IsKnown(m, rs, n) ==
  /\ DOMAIN m = { rs[j].d.id : j \in 1..n }
  /\ \A id \in DOMAIN m : m[id].versions = VersionsIn(rs, n, id)
  /\ \A id \in DOMAIN m : \E j \in 1..n : m[id].label = rs[j].label

\* Of every dataset all versions are kept.
LEMMA DatasetsOfRows ==
  ASSUME NEW n \in Nat, NEW rs, DOMAIN rs = 1..n, NEW m, m = CodesDatasets(rs)
  PROVE  IsKnown(m, rs, n)
PROOF
<1>1. PICK g : KnownSteps(g, rs, n) /\ m = g[1..n]
  BY KnownByRow
<1>2. g[1..0] = NoMap /\ \A i \in 0..(n - 1) : g[1..(i + 1)] = Known(g[1..i], rs[i + 1])
  BY <1>1 DEF KnownSteps
<1> DEFINE good(i) == /\ DOMAIN g[1..i] = { rs[j].d.id : j \in 1..i }
                      /\ \A id \in DOMAIN g[1..i] :
                           g[1..i][id] = [label |-> g[1..i][id].label, versions |-> VersionsIn(rs, i, id)]
                      /\ \A id \in DOMAIN g[1..i] : \E j \in 1..i : g[1..i][id].label = rs[j].label
           G == { i \in 1..(n + 1) : good(i - 1) }
<1>3. 1 \in G
  <2>1. g[1..(1 - 1)] = NoMap /\ 1..(1 - 1) = {} /\ DOMAIN NoMap = {}
    BY <1>2 DEF NoMap
  <2>2. good(1 - 1)
    BY <2>1
  <2> HIDE DEF good
  <2> QED
    BY <2>2
<1>4. ASSUME NEW i1 \in 1..((n + 1) - 1), i1 \in G PROVE i1 + 1 \in G
  <2> DEFINE i == i1 - 1
  <2>1. i \in 0..(n - 1) /\ (i1 + 1) - 1 = i + 1 /\ i1 + 1 \in 1..(n + 1) /\ i + 1 \in 1..n
    OBVIOUS
  <2> HIDE DEF i
  <2>2. good(i)
    BY <1>4 DEF i
  <2> DEFINE a == g[1..i]
             b == g[1..(i + 1)]
             r == rs[i + 1]
             k == r.d.id
             known == k \in DOMAIN a
             old == IF known THEN a[k] ELSE [label |-> r.label, versions |-> {}]
  <2>3. b = [x \in DOMAIN a \cup {k} |->
               IF x = k THEN [old EXCEPT !.versions = @ \cup {<<r.d.edition, r.d.version>>}] ELSE a[x]]
    BY <1>2, <2>1 DEF Known
  <2>4. /\ DOMAIN a = { rs[j].d.id : j \in 1..i }
        /\ \A id \in DOMAIN a : a[id] = [label |-> a[id].label, versions |-> VersionsIn(rs, i, id)]
        /\ \A id \in DOMAIN a : \E j \in 1..i : a[id].label = rs[j].label
    BY <2>2
  <2>5. /\ \A j \in 1..(i + 1) : j \in 1..i \/ j = i + 1
        /\ 1..i \subseteq 1..(i + 1) /\ i + 1 \in 1..(i + 1)
    BY <2>1
  <2> HIDE DEF a, b, good
  <2>6. old = [label |-> old.label, versions |-> VersionsIn(rs, i, k)]
    <3>1. CASE known
      <4>1. k \in DOMAIN a /\ old = a[k]
        BY <3>1
      <4> HIDE DEF old, k, known
      <4> QED
        BY <2>4, <4>1
    <3>2. CASE ~known
      <4>1. VersionsIn(rs, i, k) = {}
        <5>1. k \notin { rs[j].d.id : j \in 1..i }
          BY <2>4, <3>2
        <5> HIDE DEF k
        <5> QED
          BY <5>1 DEF VersionsIn
      <4>2. old = [label |-> r.label, versions |-> {}]
        BY <3>2
      <4> HIDE DEF old, k, known
      <4> QED
        BY <4>1, <4>2
    <3> QED
      BY <3>1, <3>2
  <2>11. \E j \in 1..(i + 1) : old.label = rs[j].label
    <3>1. CASE known
      <4>1. k \in DOMAIN a /\ old = a[k]
        BY <3>1
      <4> HIDE DEF old, k, known
      <4> QED
        BY <2>4, <2>5, <4>1
    <3>2. CASE ~known
      <4>1. old = [label |-> r.label, versions |-> {}]
        BY <3>2
      <4>2. old.label = r.label
        BY <4>1
      <4> QED
        BY <2>5, <4>2
    <3> QED
      BY <3>1, <3>2
  <2>7. \A x : VersionsIn(rs, i + 1, x) =
          VersionsIn(rs, i, x) \cup (IF x = k THEN {<<r.d.edition, r.d.version>>} ELSE {})
    BY <2>5 DEF VersionsIn
  <2> HIDE DEF old, k, known
  <2>8. DOMAIN b = { rs[j].d.id : j \in 1..(i + 1) }
    <3>1. DOMAIN b = DOMAIN a \cup {k}
      BY <2>3
    <3> QED
      BY <2>4, <2>5, <3>1 DEF k
  <2>9. ASSUME NEW x \in DOMAIN b
        PROVE  b[x] = [label |-> b[x].label, versions |-> VersionsIn(rs, i + 1, x)]
    <3>1. CASE x = k
      <4>1. b[x] = [old EXCEPT !.versions = @ \cup {<<r.d.edition, r.d.version>>}]
        BY <2>3, <3>1
      <4>2. PICK l : old = [label |-> l, versions |-> VersionsIn(rs, i, k)]
        BY <2>6
      <4> HIDE DEF r
      <4>3. b[x] = [label |-> l, versions |-> VersionsIn(rs, i, k) \cup {<<r.d.edition, r.d.version>>}]
        BY <4>1, <4>2
      <4>4. VersionsIn(rs, i + 1, x) = VersionsIn(rs, i, k) \cup {<<r.d.edition, r.d.version>>}
        BY <2>7, <3>1
      <4>5. b[x].label = l
        BY <4>3
      <4> QED
        BY <4>3, <4>4, <4>5
    <3>2. CASE x # k
      <4>1. x \in DOMAIN a /\ b[x] = a[x]
        BY <2>3, <3>2
      <4>2. VersionsIn(rs, i + 1, x) = VersionsIn(rs, i, x)
        BY <2>7, <3>2
      <4> QED
        BY <2>4, <4>1, <4>2
    <3> QED
      BY <3>1, <3>2
  <2>12. ASSUME NEW x \in DOMAIN b PROVE \E j \in 1..(i + 1) : b[x].label = rs[j].label
    <3>1. CASE x = k
      <4>1. b[x] = [old EXCEPT !.versions = @ \cup {<<r.d.edition, r.d.version>>}]
        BY <2>3, <3>1
      <4>2. PICK l, v : old = [label |-> l, versions |-> v]
        BY <2>6
      <4>3. old.label = l
        BY <4>2
      <4> HIDE DEF r
      <4>4. b[x].label = l
        BY <4>1, <4>2
      <4> QED
        BY <2>11, <4>3, <4>4
    <3>2. CASE x # k
      <4>1. x \in DOMAIN a /\ b[x] = a[x]
        BY <2>3, <3>2
      <4> QED
        BY <2>4, <2>5, <4>1
    <3> QED
      BY <3>1, <3>2
  <2>10. good(i + 1)
    BY <2>8, <2>9, <2>12 DEF good, b
  <2> QED
    BY <2>1, <2>10
<1> HIDE DEF G
<1>5. 1..(n + 1) \subseteq G
  <2>1. n + 1 \in Nat
    OBVIOUS
  <2> QED
    BY <1>3, <1>4, <2>1, CountingUp
<1>6. n + 1 \in G /\ (n + 1) - 1 = n
  BY <1>5
<1>7. good(n)
  BY <1>6 DEF G
<1>8. \A id \in DOMAIN m : m[id].versions = VersionsIn(rs, n, id)
  <2>1. \A id \in DOMAIN m : m[id] = [label |-> m[id].label, versions |-> VersionsIn(rs, n, id)]
    BY <1>1, <1>7
  <2> HIDE DEF good
  <2> QED
    BY <2>1
<1> QED
  BY <1>1, <1>7, <1>8 DEF IsKnown

------------------------------------------------------------------------------
(* What code lists answer, query by query.                                 *)

\* The rows of a finite set in any order: all of them, and nothing else.
LEMMA AllInSomeOrder ==
  ASSUME NEW S, IsFiniteSet(S), NEW s \in SetToSeqs(S)
  PROVE  \E n \in Nat : /\ DOMAIN s = 1..n /\ s = [i \in 1..n |-> s[i]]
                        /\ S = { s[i] : i \in 1..n }
                        /\ \A i \in 1..n : s[i] \in S
PROOF
<1> DEFINE n == Cardinality(S)
<1>1. n \in Nat
  BY FS_CardinalityType
<1>2. s \in [1..n -> S] /\ \A i, j \in 1..n : i # j => s[i] # s[j]
  BY DEF SetToSeqs
<1> HIDE DEF n
<1>3. s \in Injection(1..n, S)
  BY <1>2 DEF Injection, IsInjective
<1>4. Cardinality(1..n) = Cardinality(S)
  BY <1>1, FS_Interval DEF n
<1>5. s \in Surjection(1..n, S)
  BY <1>3, <1>4, FS_Injection
<1>6. S = { s[i] : i \in 1..n }
  BY <1>2, <1>5 DEF Surjection
<1> QED
  BY <1>1, <1>2, <1>6

\* Each code list and each edition is there as often as it has nodes.
LEMMA NodesAreTallied ==
  ASSUME NEW vs, NEW i
  PROVE  Tally(vs, i, PerNode(vs, i))
BY DEF Tally, PerNode

\* A query meets finitely many nodes, edges and datasets.
LEMMA FinitelyMany ==
  ASSUME NEW d \in Databases, NEW q
  PROVE  /\ IsFiniteSet(Lists(d, q.id)) /\ IsFiniteSet(Edition(d, q.id, q.edition))
         /\ IsFiniteSet(CodeEdges(d, q)) /\ IsFiniteSet(Published(d, q.code))
         /\ CodeEdges(d, q) \subseteq d.usedBy /\ Edition(d, q.id, q.edition) \subseteq Lists(d, q.id)
PROOF
<1>1. IsFiniteSet(d.codeLists) /\ IsFiniteSet(d.usedBy) /\ IsFiniteSet(d.datasets)
  BY DatabasesAreFinite
<1>2. /\ Lists(d, q.id) \subseteq d.codeLists /\ Edition(d, q.id, q.edition) \subseteq Lists(d, q.id)
      /\ CodeEdges(d, q) \subseteq d.usedBy /\ Published(d, q.code) \subseteq d.datasets
  BY DEF Lists, Edition, CodeEdges, UsedBy, Published
<1>3. Edition(d, q.id, q.edition) \subseteq d.codeLists
  BY <1>2
<1> QED
  BY <1>1, <1>2, <1>3, FS_Subset

\* So does one for a code list, an edition or a code.
LEMMA FoundIsFinite ==
  ASSUME NEW d \in Databases, NEW t \in Tasks, t.op \in One
  PROVE  IsFiniteSet(Found(d, t))
PROOF
<1>1. CASE t.op = "GetCodeList"
  BY <1>1, FinitelyMany DEF Found
<1>2. CASE t.op = "GetEdition"
  BY <1>2, FinitelyMany DEF Found
<1>3. CASE t.op = "GetCode"
  <2>1. Found(d, t) \subseteq CodeEdges(d, t.q)
    BY <1>3 DEF Found
  <2>2. IsFiniteSet(CodeEdges(d, t.q))
    BY FinitelyMany
  <2> QED
    BY <2>1, <2>2, FS_Subset
<1> QED
  BY <1>1, <1>2, <1>3 DEF One

\* One is one, none is not found, and more are too many.
LEMMA ExactlyOne ==
  ASSUME NEW S, IsFiniteSet(S), NEW value, NEW a, a = exactlyOne(Cardinality(S), value)
  PROVE  \/ a.status = "ok" /\ a.value = value /\ Cardinality(S) = 1 /\ S # {}
         \/ a.status = "ErrNotFound" /\ S = {}
         \/ a.status = "ErrMultipleFound" /\ Cardinality(S) > 1
PROOF
<1>1. Cardinality(S) \in Nat /\ (Cardinality(S) = 0 <=> S = {})
  BY FS_CardinalityType, FS_EmptySet
<1>2. CASE Cardinality(S) = 0
  BY <1>1, <1>2 DEF exactlyOne, NotFound
<1>3. CASE Cardinality(S) > 1
  BY <1>1, <1>3 DEF exactlyOne, MultipleFound
<1>4. CASE Cardinality(S) = 1
  BY <1>1, <1>4 DEF exactlyOne, Ok
<1> QED
  BY <1>1, <1>2, <1>3, <1>4

\* That a, made of n responses, answers t with the code lists as they are.
Judged(t, a, n) ==
  /\ a.status = "ok" => Correct(db, t, a.value) /\ Complete(db, t)
  /\ a.status = "ErrNotFound" =>
       ~Exists(db, t) \/ (t.op = "GetCodesOrder" /\ ~(n = 1 /\ IsInjective(t.q.codes)))
  /\ a.status = "ErrMultipleFound" => Cardinality(Found(db, t)) > 1
  /\ a.status = "error" => t.op = "GetCodes" /\ Mixed(t)

\* Queries that look for a code list, an edition or a code, and those for lists
\* of them, answer from the code lists as they are.
Plain == {"GetCodeLists", "GetCodeList", "GetEditions", "GetEdition", "CountCodes", "GetCode"}

\* The number of edges is that of the codes, if no code has two.
LEMMA SingleEdges ==
  ASSUME NEW us, IsFiniteSet(us), Single(us)
  PROVE  Cardinality({ u.code : u \in us }) = Cardinality(us)
PROOF
<1> DEFINE f == [u \in us |-> u.code]
<1>1. DOMAIN f = us /\ \A u, v \in us : f[u] = f[v] => u = v
  BY DEF Single
<1>2. { u.code : u \in us } = { f[u] : u \in us }
  OBVIOUS
<1> HIDE DEF f
<1> QED
  BY <1>1, <1>2, SameSize

\* On Neptune a plain query is answered with what there is.
LEMMA PlainOnNeptune ==
  ASSUME NEW t \in Tasks, t.op \in Plain, choice = "neptune", db \in Databases,
         NEW n, NEW a \in NeptuneAnswers(t, n)
  PROVE  Judged(t, a, n)
PROOF
<1> USE DEF NeptuneAnswers
<1>1. CASE t.op = "GetCodeLists"
  <2> DEFINE L == Found(db, t)
  <2>1. a = Ok(PerNode(L, 1))
    BY <1>1 DEF GetCodeLists, Found
  <2>2. a.status = "ok" /\ a.value = PerNode(L, 1)
    BY <2>1 DEF Ok
  <2>a. Tally(L, 1, a.value)
    BY <2>2, NodesAreTallied
  <2>3. Correct(db, t, a.value)
    BY <1>1, <2>a DEF Correct, One
  <2>4. Complete(db, t)
    BY <1>1 DEF Complete
  <2> QED
    BY <2>2, <2>3, <2>4 DEF Judged
<1>2. CASE t.op = "GetEditions"
  <2> DEFINE L == Found(db, t)
  <2>1. a = IF L = {} THEN NotFound ELSE Ok(PerNode(L, 2))
    BY <1>2 DEF GetEditions, Found
  <2>2. CASE L = {}
    <3>1. a = NotFound /\ ~Exists(db, t)
      BY <1>2, <2>1, <2>2 DEF Exists
    <3> QED
      BY <3>1 DEF Judged, NotFound
  <2>3. CASE L # {}
    <3>1. a.status = "ok" /\ a.value = PerNode(L, 2)
      BY <2>1, <2>3 DEF Ok
    <3>a. Tally(L, 2, a.value)
      BY <3>1, NodesAreTallied
    <3>2. Correct(db, t, a.value)
      BY <1>2, <3>a DEF Correct, One
    <3>3. Complete(db, t)
      BY <1>2, <2>3 DEF Complete, Exists
    <3> QED
      BY <3>1, <3>2, <3>3 DEF Judged
  <2> QED
    BY <2>2, <2>3
<1>3. CASE t.op = "CountCodes"
  <2> DEFINE us == Found(db, t)
  <2>1. a = Ok(Cardinality(us)) /\ IsFiniteSet(us)
    BY <1>3, FinitelyMany DEF CountCodes, Found
  <2>2. a.status = "ok" /\ a.value = Cardinality(us)
    BY <2>1 DEF Ok
  <2>3. Single(us) => a.value = Cardinality({ u.code : u \in us })
    BY <2>1, <2>2, SingleEdges
  <2>4. Correct(db, t, a.value)
    BY <1>3, <2>3 DEF Correct, One
  <2>5. Complete(db, t)
    BY <1>3 DEF Complete, Exists
  <2> QED
    BY <2>2, <2>4, <2>5 DEF Judged
<1>4. CASE t.op \in One
  <2>1. a = exactlyOne(Cardinality(Found(db, t)), {Name(t)})
    BY <1>4 DEF One, Found, Name, GetCodeList, GetEdition, GetCode
  <2>2. IsFiniteSet(Found(db, t))
    BY <1>4, FoundIsFinite
  <2>3. \/ a.status = "ok" /\ a.value = {Name(t)} /\ Cardinality(Found(db, t)) = 1 /\ Found(db, t) # {}
        \/ a.status = "ErrNotFound" /\ Found(db, t) = {}
        \/ a.status = "ErrMultipleFound" /\ Cardinality(Found(db, t)) > 1
    BY <2>1, <2>2, ExactlyOne
  <2>4. Exists(db, t) <=> Found(db, t) # {}
    BY <1>4 DEF Exists, One
  <2>5. a.status = "ok" => Correct(db, t, a.value)
    BY <1>4, <2>3 DEF Correct, One
  <2> QED
    BY <2>3, <2>4, <2>5 DEF Judged, Complete
<1> QED
  BY <1>1, <1>2, <1>3, <1>4 DEF Plain, One

\* A list whose neighbours do not decrease does not decrease.
LEMMA Rising ==
  ASSUME NEW n \in Nat, NEW f, \A i \in 1..n : f[i] \in Nat, \A i \in 1..(n - 1) : f[i] <= f[i + 1]
  PROVE  \A i, j \in 1..n : i < j => f[i] <= f[j]
PROOF
<1> DEFINE G == { m \in Nat : \A i \in 1..n : m \in 1..n /\ i < m => f[i] <= f[m] }
<1>1. 1 \in G
  OBVIOUS
<1>2. ASSUME NEW m \in 1..(n - 1), m \in G PROVE m + 1 \in G
  <2>1. m \in 1..n /\ m + 1 \in 1..n /\ m \in Nat /\ m + 1 \in Nat
    OBVIOUS
  <2>2. ASSUME NEW i \in 1..n, i < m + 1 PROVE f[i] <= f[m + 1]
    <3>1. f[m] <= f[m + 1] /\ f[i] \in Nat /\ f[m] \in Nat /\ f[m + 1] \in Nat
      BY <2>1
    <3>2. i = m \/ i < m
      BY <2>1, <2>2
    <3>3. i < m => f[i] <= f[m]
      BY <1>2, <2>1
    <3> QED
      BY <3>1, <3>2, <3>3
  <2> QED
    BY <2>1, <2>2
<1> HIDE DEF G
<1>3. 1..n \subseteq G
  BY <1>1, <1>2, CountingUp
<1> QED
  BY <1>3 DEF G

\* Pairs come back from a flat list.
LEMMA PairsAreKept ==
  ASSUME NEW n \in Nat, NEW a, NEW b, NEW rs, rs = [i \in 1..n |-> <<a[i], b[i]>>]
  PROVE  createRecords(Flat(rs), 2) = Ok(rs)
PROOF
<1> DEFINE T == { a[i] : i \in 1..n } \cup { b[i] : i \in 1..n }
<1>1. \A i \in 1..n : a[i] \in T /\ b[i] \in T
  OBVIOUS
<1> HIDE DEF T
<1>2. ASSUME NEW i \in 1..n PROVE rs[i] \in Seq(T) /\ Len(rs[i]) = 2
  <2>1. rs[i] = <<a[i], b[i]>> /\ a[i] \in T /\ b[i] \in T
    BY <1>1
  <2> QED
    BY <2>1
<1>3. rs \in Seq(Seq(T))
  BY <1>2, SeqDef
<1>4. Len(rs) = n
  BY <1>3, LenProperties
<1> QED
  BY <1>2, <1>3, <1>4, RecordsOfFlat

\* The records are the codes of the edges s, which are all of us, in the order
\* of a key.
AreCodesOf(records, us, key, s) ==
  /\ records.status = "ok" /\ createCodes(records.value) = [i \in DOMAIN s |-> Record(s[i])]
  /\ \A i \in DOMAIN s : s[i] \in us
  /\ \A i, j \in DOMAIN s : i < j => key[s[i]] <= key[s[j]]

\* GetCodes makes such records.
LEMMA CodesOfEdges ==
  ASSUME NEW d \in Databases, NEW q, NEW key, NEW s \in OrderedBy(CodeEdges(d, q), key),
         \A u \in CodeEdges(d, q) : key[u] \in Nat, NEW records,
         records = createRecords(Flat([ i \in DOMAIN s |-> <<s[i].label, s[i].code>> ]), 2)
  PROVE  AreCodesOf(records, CodeEdges(d, q), key, s)
PROOF
<1> DEFINE us == CodeEdges(d, q)
<1>1. IsFiniteSet(us)
  BY FinitelyMany
<1>2. s \in SetToSeqs(us) /\ \A i \in 1..(Len(s) - 1) : key[s[i]] <= key[s[i + 1]]
  BY DEF OrderedBy
<1>3. PICK n \in Nat : /\ DOMAIN s = 1..n /\ s = [i \in 1..n |-> s[i]]
                       /\ us = { s[i] : i \in 1..n }
                       /\ \A i \in 1..n : s[i] \in us
  BY <1>1, <1>2, AllInSomeOrder
<1>4. Len(s) = n
  <2>1. s \in Seq(us)
    BY <1>3, SeqDef
  <2> QED
    BY <1>3, <2>1, LenProperties
<1> DEFINE a == [i \in 1..n |-> s[i].label]
           b == [i \in 1..n |-> s[i].code]
           rs == [i \in 1..n |-> <<a[i], b[i]>>]
<1>5. createRecords(Flat(rs), 2) = Ok(rs)
  <2>1. rs = [i \in 1..n |-> <<a[i], b[i]>>]
    OBVIOUS
  <2> HIDE DEF a, b, rs
  <2> QED
    BY <2>1, PairsAreKept
<1>6. [ i \in DOMAIN s |-> <<s[i].label, s[i].code>> ] = rs
  BY <1>3
<1>7. records.status = "ok" /\ createCodes(records.value) = [i \in DOMAIN s |-> Record(s[i])]
  <2>1. records = Ok(rs)
    BY <1>5, <1>6
  <2>2. DOMAIN rs = 1..n /\ \A i \in 1..n : rs[i][1] = s[i].label /\ rs[i][2] = s[i].code
    OBVIOUS
  <2> HIDE DEF rs
  <2>3. createCodes(rs) = [i \in 1..n |-> [label |-> rs[i][1], code |-> rs[i][2]]]
    BY <2>2 DEF createCodes
  <2>4. \A i \in 1..n : [label |-> rs[i][1], code |-> rs[i][2]] = Record(s[i])
    BY <2>2 DEF Record
  <2>5. createCodes(rs) = [i \in 1..n |-> Record(s[i])]
    BY <2>3, <2>4
  <2>6. records.status = "ok" /\ records.value = rs
    BY <2>1 DEF Ok
  <2> QED
    BY <1>3, <2>5, <2>6
<1>8. \A i, j \in 1..n : i < j => key[s[i]] <= key[s[j]]
  <2> DEFINE f == [i \in 1..n |-> key[s[i]]]
  <2>1. \A i \in 1..n : f[i] \in Nat
    BY <1>3
  <2>2. \A i \in 1..(n - 1) : f[i] <= f[i + 1]
    <3>1. \A i \in 1..(n - 1) : i \in 1..n /\ i + 1 \in 1..n
      OBVIOUS
    <3> QED
      BY <1>2, <1>4, <3>1
  <2>3. \A i \in 1..n : f[i] = key[s[i]]
    OBVIOUS
  <2> HIDE DEF f
  <2>4. \A i, j \in 1..n : i < j => f[i] <= f[j]
    BY <2>1, <2>2, Rising
  <2> QED
    BY <2>3, <2>4
<1> QED
  BY <1>3, <1>7, <1>8 DEF AreCodesOf

\* What the first statement of GetCodes finds.
LEMMA SomeOrdered ==
  ASSUME NEW d \in Databases, NEW q
  PROVE  CountOrderedEdges(d, q) > 0 <=> \E u \in CodeEdges(d, q) : u.order > 0
PROOF
<1> DEFINE S == { u \in CodeEdges(d, q) : u.order > 0 }
<1>1. S \subseteq CodeEdges(d, q) /\ IsFiniteSet(CodeEdges(d, q))
  BY FinitelyMany
<1> HIDE DEF S
<1>2. IsFiniteSet(S)
  BY <1>1, FS_Subset
<1>3. Cardinality(S) \in Nat /\ (Cardinality(S) = 0 <=> S = {})
  BY <1>2, FS_CardinalityType, FS_EmptySet
<1>4. Cardinality(S) > 0 <=> S # {}
  BY <1>3
<1> QED
  BY <1>4 DEF CountOrderedEdges, S

\* GetCodes of Neptune answers rightly: what its first statement has found was
\* so at some moment, and tells how the codes are ordered.
LEMMA CodesOnNeptune ==
  ASSUME NEW t \in Tasks, t.op = "GetCodes", choice = "neptune",
         db \in Databases, db \in seen[t], seen[t] \subseteq Databases, hasOrder[t] \in BOOLEAN,
         NEW d \in seen[t], hasOrder[t] <=> CountOrderedEdges(d, t.q) > 0,
         NEW n, NEW a \in GetCodes(db, t.q, hasOrder[t])
  PROVE  Judged(t, a, n)
PROOF
<1> DEFINE us == CodeEdges(db, t.q)
           key == IF hasOrder[t] THEN ByOrder(us) ELSE ByValue(us)
           records(s) == createRecords(Flat([ i \in DOMAIN s |-> <<s[i].label, s[i].code>> ]), 2)
<1>1. \A x : Found(x, t) = CodeEdges(x, t.q)
  BY DEF Found
<1>2. /\ d \in Databases /\ (hasOrder[t] <=> \E u \in CodeEdges(d, t.q) : u.order > 0)
      /\ \A u \in CodeEdges(d, t.q) : u.order \in Nat
  <2>1. d \in Databases
    OBVIOUS
  <2>2. CodeEdges(d, t.q) \subseteq d.usedBy
    BY <2>1, FinitelyMany
  <2>3. CountOrderedEdges(d, t.q) > 0 <=> \E u \in CodeEdges(d, t.q) : u.order > 0
    BY <2>1, SomeOrdered
  <2> QED
    BY <2>1, <2>2, <2>3, DatabasesAreFinite
<1>3. Exists(db, t) <=> us # {}
  BY <1>1 DEF Exists
<1>4. CASE us = {}
  <2>1. a = NotFound
    BY <1>4 DEF GetCodes
  <2> QED
    BY <1>3, <1>4, <2>1 DEF Judged, NotFound
<1>5. CASE us # {} /\ hasOrder[t] /\ \E u \in us : u.order = 0
  <2>1. a = Failed
    BY <1>5 DEF GetCodes
  <2>2. Mixed(t)
    BY <1>1, <1>2, <1>5 DEF Mixed
  <2> QED
    BY <2>1, <2>2 DEF Judged, Failed
<1>6. CASE us # {} /\ ~(hasOrder[t] /\ \E u \in us : u.order = 0)
  <2>1. PICK s \in OrderedBy(us, key) :
          a = IF records(s).status = "ok" THEN Ok(createCodes(records(s).value)) ELSE records(s)
    BY <1>6 DEF GetCodes
  <2>2. \A u \in us : u.order \in Nat /\ u.code \in Nat
    <3>1. us \subseteq db.usedBy
      BY FinitelyMany
    <3> HIDE DEF us
    <3> QED
      BY <3>1, DatabasesAreFinite
  <2>3. /\ hasOrder[t] => \A u \in us : key[u] = u.order
        /\ ~hasOrder[t] => \A u \in us : key[u] = u.code
    BY DEF ByOrder, ByValue
  <2>4. \A u \in us : key[u] \in Nat
    BY <2>2, <2>3
  <2> DEFINE rs == records(s)
  <2>5. rs = createRecords(Flat([ i \in DOMAIN s |-> <<s[i].label, s[i].code>> ]), 2)
    OBVIOUS
  <2> HIDE DEF key, rs
  <2>6. AreCodesOf(rs, us, key, s)
    BY <2>4, <2>5, CodesOfEdges
  <2>7. /\ rs.status = "ok" /\ createCodes(rs.value) = [i \in DOMAIN s |-> Record(s[i])]
        /\ \A i \in DOMAIN s : s[i] \in us
        /\ \A i, j \in DOMAIN s : i < j => key[s[i]] <= key[s[j]]
    BY <2>6 DEF AreCodesOf
  <2>8. a.status = "ok" /\ a.value = [i \in DOMAIN s |-> Record(s[i])]
    <3>1. a = IF rs.status = "ok" THEN Ok(createCodes(rs.value)) ELSE rs
      BY <2>1 DEF rs
    <3>2. a = Ok([i \in DOMAIN s |-> Record(s[i])])
      BY <2>7, <3>1
    <3> QED
      BY <3>2 DEF Ok
  <2>9. ASSUME \A x \in seen[t] : Found(x, t) # {} /\ \A u \in Found(x, t) : u.order > 0
        PROVE  \A i, j \in DOMAIN s : i < j => s[i].order <= s[j].order
    <3>1. hasOrder[t]
      BY <1>1, <1>2, <2>9
    <3> QED
      BY <2>3, <2>7, <3>1
  <2>10. ASSUME \A x \in seen[t] : \A u \in Found(x, t) : u.order = 0
         PROVE  \A i, j \in DOMAIN s : i < j => s[i].code <= s[j].code
    <3>1. ~hasOrder[t]
      BY <1>1, <1>2, <2>10
    <3> QED
      BY <2>3, <2>7, <3>1
  <2>11. s \in SetToSeqs(Found(db, t))
    BY <1>1, <2>1 DEF OrderedBy
  <2>12. InOrder(db, t, a.value)
    BY <2>8, <2>9, <2>10, <2>11 DEF InOrder
  <2>13. Correct(db, t, a.value)
    BY <2>12 DEF Correct, One
  <2> QED
    BY <1>3, <1>6, <2>8, <2>13 DEF Judged, Complete
<1> QED
  BY <1>4, <1>5, <1>6

\* A list has at most as many members as it is long, and as many if none is
\* there twice.
LEMMA Members ==
  ASSUME NEW s \in Seq(Nat)
  PROVE  /\ IsFiniteSet(Range(s)) /\ Cardinality(Range(s)) \in Nat /\ Cardinality(Range(s)) <= Len(s)
         /\ IsInjective(s) => Cardinality(Range(s)) = Len(s)
PROOF
<1> DEFINE n == Len(s)
<1>1. n \in Nat /\ DOMAIN s = 1..n /\ s = [i \in 1..n |-> s[i]]
  BY LenProperties
<1>2. Range(s) = { s[i] : i \in 1..n }
  BY <1>1 DEF Range
<1>3. n = Len(s)
  OBVIOUS
<1> HIDE DEF n
<1>4. IsFiniteSet(1..n) /\ Cardinality(1..n) = n
  <2>1. 1 \in Int /\ n \in Int
    BY <1>1
  <2>2. IsFiniteSet(1..n) /\ Cardinality(1..n) = IF 1 > n THEN 0 ELSE n - 1 + 1
    BY <2>1, FS_Interval
  <2>3. (IF 1 > n THEN 0 ELSE n - 1 + 1) = n
    BY <1>1
  <2> QED
    BY <2>2, <2>3
<1>5. s \in Surjection(1..n, Range(s))
  BY <1>1, <1>2 DEF Surjection
<1>6. IsFiniteSet(Range(s)) /\ Cardinality(Range(s)) <= n
  BY <1>4, <1>5, FS_Surjection
<1>7. ASSUME IsInjective(s) PROVE Cardinality(Range(s)) = n
  <2>1. DOMAIN s = 1..n /\ \A x, y \in 1..n : s[x] = s[y] => x = y
    BY <1>1, <1>7 DEF IsInjective
  <2>2. Cardinality({ s[i] : i \in 1..n }) = Cardinality(1..n)
    <3> DEFINE D == 1..n
    <3>1. IsFiniteSet(D) /\ DOMAIN s = D /\ \A x, y \in D : s[x] = s[y] => x = y
      BY <1>4, <2>1
    <3> HIDE DEF D
    <3>2. Cardinality({ s[i] : i \in D }) = Cardinality(D)
      BY <3>1, SameSize
    <3> QED
      BY <3>2 DEF D
  <2> QED
    BY <1>2, <1>4, <2>2
<1>8. Cardinality(Range(s)) \in Nat
  BY <1>6, FS_CardinalityType
<1> QED
  BY <1>6, <1>7, <1>3, <1>8

\* As many codes among some as there are some of are all of them.
LEMMA AllCodes ==
  ASSUME NEW us, IsFiniteSet(us), NEW C, IsFiniteSet(C), \A u \in us : u.code \in C
  PROVE  /\ Single(us) /\ Cardinality(us) >= Cardinality(C) => C = { u.code : u \in us }
         /\ C = { u.code : u \in us } => Cardinality(us) >= Cardinality(C)
PROOF
<1> DEFINE D == { u.code : u \in us }
           f == [u \in us |-> u.code]
<1>1. D \subseteq C
  OBVIOUS
<1>2. Cardinality(us) \in Nat /\ Cardinality(C) \in Nat
  BY FS_CardinalityType
<1>3. Single(us) => Cardinality(D) = Cardinality(us)
  BY SingleEdges
<1>4. Cardinality(D) <= Cardinality(us)
  <2>1. f \in Surjection(us, D)
    BY DEF Surjection
  <2> HIDE DEF f, D
  <2> QED
    BY <2>1, FS_Surjection
<1> HIDE DEF D
<1>5. Cardinality(D) <= Cardinality(C) /\ (Cardinality(D) = Cardinality(C) => C = D) /\ Cardinality(D) \in Nat
  BY <1>1, FS_Subset, FS_CardinalityType
<1>6. Single(us) /\ Cardinality(us) >= Cardinality(C) => C = D
  BY <1>2, <1>3, <1>5
<1>7. C = D => Cardinality(us) >= Cardinality(C)
  BY <1>2, <1>4, <1>5
<1> QED
  BY <1>6, <1>7 DEF D

\* GetCodesOrder: as many edges as there are codes are one for each of them, if
\* no code has two; and one response to codes that are asked for once each is
\* too short only where an edge is missing.
LEMMA OrderOnNeptune ==
  ASSUME NEW t \in Tasks, t.op = "GetCodesOrder", choice = "neptune", db \in Databases,
         NEW n \in Nat \ {0}, NEW a \in GetCodesOrder(db, t.q, n)
  PROVE  Judged(t, a, n)
PROOF
<1> DEFINE us      == AskedEdges(db, t.q)
           codes   == t.q.codes
           C       == Range(codes)
           part1(f, i) == { u \in us : f[u] = i }
           short(f) == \E i \in 1..n : Cardinality(part1(f, i)) < Len(codes)
           orders  == { m \in [{ u.code : u \in us } -> { u.order : u \in us }] :
                          \A c \in DOMAIN m : \E u \in us : u.code = c /\ u.order = m[c] }
<1>1. codes \in Seq(Nat) /\ Len(codes) \in Nat
  BY DatabasesAreFinite, LenProperties
<1>2. /\ IsFiniteSet(C) /\ Cardinality(C) \in Nat /\ Cardinality(C) <= Len(codes)
      /\ IsInjective(codes) => Cardinality(C) = Len(codes)
  BY <1>1, Members
<1>3. IsFiniteSet(us) /\ Cardinality(us) \in Nat /\ \A u \in us : u.code \in C
  <2>1. us \subseteq db.usedBy /\ \A u \in us : u.code \in C
    BY DEF AskedEdges, UsedBy
  <2> HIDE DEF us, C
  <2> QED
    BY <2>1, DatabasesAreFinite, FS_Subset, FS_CardinalityType
<1>4. Found(db, t) = us /\ (Exists(db, t) <=> C \subseteq { u.code : u \in us })
  BY DEF Found, Exists
<1>5. PICK f \in [us -> 1..n] : a \in IF short(f) THEN {NotFound} ELSE { Ok(m) : m \in orders }
  BY DEF GetCodesOrder
<1> HIDE DEF us, C, orders
<1>6. CASE short(f)
  <2>1. a = NotFound
    BY <1>5, <1>6
  <2>2. ASSUME n = 1, IsInjective(codes) PROVE ~Exists(db, t)
    <3>1. PICK i \in 1..n : Cardinality(part1(f, i)) < Len(codes)
      BY <1>6
    <3>2. part1(f, i) = us
      BY <1>5, <2>2
    <3>3. Cardinality(us) < Cardinality(C)
      BY <1>2, <2>2, <3>1, <3>2
    <3>4. C # { u.code : u \in us }
      BY <1>2, <1>3, <3>3, AllCodes
    <3> QED
      BY <1>3, <1>4, <3>4
  <2> QED
    BY <2>1, <2>2 DEF Judged, NotFound
<1>7. CASE ~short(f)
  <2>1. PICK m \in orders : a = Ok(m)
    BY <1>5, <1>7
  <2>2. a.status = "ok" /\ a.value = m
    BY <2>1 DEF Ok
  <2>3. /\ DOMAIN m = { u.code : u \in us }
        /\ \A c \in DOMAIN m : \E u \in us : u.code = c /\ u.order = m[c]
    BY <2>1 DEF orders
  <2>4. Correct(db, t, m)
    BY <1>4, <2>3 DEF Correct, One
  <2>5. ASSUME Single(us) PROVE Exists(db, t)
    <3> DEFINE B == part1(f, 1)
    <3>1. B \subseteq us /\ 1 \in 1..n
      OBVIOUS
    <3>2. ~(Cardinality(B) < Len(codes))
      BY <1>7, <3>1
    <3> HIDE DEF B
    <3>3. IsFiniteSet(B) /\ Cardinality(B) \in Nat /\ Single(B) /\ \A u \in B : u.code \in C
      BY <1>3, <2>5, <3>1, FS_Subset, FS_CardinalityType DEF Single
    <3>4. Cardinality(B) >= Cardinality(C)
      BY <1>1, <1>2, <3>2, <3>3
    <3>5. C = { u.code : u \in B }
      BY <1>2, <3>3, <3>4, AllCodes
    <3> QED
      BY <1>4, <3>1, <3>5
  <2>6. Complete(db, t)
    BY <1>4, <2>5 DEF Complete
  <2> QED
    BY <2>2, <2>4, <2>6 DEF Judged
<1> QED
  BY <1>6, <1>7

\* The edges of a code.
Coded(d, q) == { u \in CodeEdges(d, q) : u.code = q.code }

\* The versions of dataset id and edition e that are published with a code.
VersionsOf(d, q, id, e) == { p.version : p \in { p \in Published(d, q.code) : p.id = id /\ p.edition = e } }

\* The value has the latest version of each published dataset and edition, on
\* Neptune under every label of the code and on neo4j under one.
LatestOf(d, q, value) ==
  /\ \A x \in value : x[4] \in VersionsOf(d, q, x[1], x[3]) /\ \A v \in VersionsOf(d, q, x[1], x[3]) : v <= x[4]
  /\ \A x \in value : \E u \in Coded(d, q) : x[2] = u.label
  /\ \A u \in Coded(d, q) : \A p \in Published(d, q.code) : \E x \in value :
       x[1] = p.id /\ x[3] = p.edition /\ (choice = "neptune" => x[2] = u.label)
  /\ choice = "neo4j" => \A x, y \in value : x[1] = y[1] => x[2] = y[2]

\* That is what is promised of GetCodeDatasets.
LEMMA LatestIsCorrect ==
  ASSUME NEW t \in Tasks, t.op = "GetCodeDatasets", NEW d, NEW value, LatestOf(d, t.q, value)
  PROVE  Correct(d, t, value)
PROOF
<1>1. Found(d, t) = Coded(d, t.q) \X Published(d, t.q.code)
  BY DEF Found, Coded
<1>2. \A x \in value : \E f \in Found(d, t) : x[2] = f[1].label
  <2> SUFFICES ASSUME NEW x \in value PROVE \E f \in Found(d, t) : x[2] = f[1].label
    OBVIOUS
  <2>1. PICK u \in Coded(d, t.q) : x[2] = u.label
    BY DEF LatestOf
  <2>2. PICK p \in Published(d, t.q.code) : TRUE
    BY DEF LatestOf, VersionsOf
  <2>3. <<u, p>> \in Found(d, t) /\ <<u, p>>[1] = u
    BY <1>1
  <2> QED
    BY <2>1, <2>3
<1>3. \A f \in Found(d, t) : \E x \in value :
        x[1] = f[2].id /\ x[3] = f[2].edition /\ (choice = "neptune" => x[2] = f[1].label)
  <2> SUFFICES ASSUME NEW f \in Found(d, t)
               PROVE  \E x \in value :
                        x[1] = f[2].id /\ x[3] = f[2].edition /\ (choice = "neptune" => x[2] = f[1].label)
    OBVIOUS
  <2>1. f[1] \in Coded(d, t.q) /\ f[2] \in Published(d, t.q.code)
    BY <1>1
  <2> QED
    BY <2>1 DEF LatestOf
<1>4. Latest(d, t, value)
  BY <1>2, <1>3 DEF Latest, LatestOf, VersionsOf
<1> QED
  BY <1>4 DEF Correct, One

\* GetCodeDatasets of Neptune answers rightly.
LEMMA DatasetsOnNeptune ==
  ASSUME NEW t \in Tasks, t.op = "GetCodeDatasets", choice = "neptune", db \in Databases,
         NEW n0, NEW a \in GetCodeDatasets(db, t.q)
  PROVE  Judged(t, a, n0)
PROOF
<1> DEFINE q == t.q
           us == { u \in CodeEdges(db, q) : u.code = q.code }
           pub == Published(db, q.code)
           record(u, p) == <<u.label, p.edition, p.version, p.id>>
           records == { record(u, p) : u \in us, p \in pub }
<1>1. IsFiniteSet(us) /\ IsFiniteSet(pub) /\ \A p \in pub : p.version \in Nat
  <2>1. us \subseteq CodeEdges(db, q) /\ IsFiniteSet(CodeEdges(db, q)) /\ IsFiniteSet(pub)
    BY FinitelyMany
  <2>2. \A p \in pub : p.version \in Nat
    BY DatabasesAreFinite DEF Published
  <2> HIDE DEF us, pub
  <2> QED
    BY <2>1, <2>2, FS_Subset
<1>2. IsFiniteSet(records)
  <2> DEFINE S == us \X pub
             f == [x \in S |-> record(x[1], x[2])]
  <2>1. IsFiniteSet({ f[x] : x \in S })
    <3>1. IsFiniteSet(S)
      <4> HIDE DEF us, pub
      <4> QED
        BY <1>1, FS_Product
    <3>2. DOMAIN f = S
      OBVIOUS
    <3> HIDE DEF f, S
    <3> QED
      BY <3>1, <3>2, FiniteImage
  <2>2. ASSUME NEW x \in S PROVE f[x] \in records
    <3>1. x[1] \in us /\ x[2] \in pub
      OBVIOUS
    <3>2. f[x] = record(x[1], x[2])
      OBVIOUS
    <3> HIDE DEF f, record, us, pub
    <3> QED
      BY <3>1, <3>2
  <2>3. ASSUME NEW r \in records PROVE \E x \in S : r = f[x]
    <3>1. PICK u \in us, p \in pub : r = record(u, p)
      OBVIOUS
    <3> HIDE DEF us, pub
    <3>2. <<u, p>> \in S
      OBVIOUS
    <3>3. f[<<u, p>>] = record(u, p)
      BY <3>2
    <3> QED
      BY <3>1, <3>2, <3>3
  <2> HIDE DEF f, S, records
  <2>4. { f[x] : x \in S } = records
    BY <2>2, <2>3
  <2> QED
    BY <2>1, <2>4
<1> DEFINE cut(rs) == createRecords(Flat(rs), 4)
<1>3. PICK rs \in SetToSeqs(records) :
        a = IF cut(rs).status = "ok" THEN Ok(buildResponse(buildLatestVersionMaps(cut(rs).value))) ELSE cut(rs)
  BY DEF GetCodeDatasets
<1> HIDE DEF records
<1>4. PICK n \in Nat : /\ DOMAIN rs = 1..n /\ rs = [i \in 1..n |-> rs[i]]
                       /\ records = { rs[i] : i \in 1..n }
                       /\ \A i \in 1..n : rs[i] \in records
  BY <1>2, <1>3, AllInSomeOrder
<1>5. /\ \A u \in us, p \in pub : \E j \in 1..n : rs[j] = record(u, p)
      /\ \A j \in 1..n : \E u \in us, p \in pub : rs[j] = record(u, p)
  <2>1. \A u \in us, p \in pub : record(u, p) \in records
    BY DEF records
  <2>2. \A r \in records : \E u \in us, p \in pub : r = record(u, p)
    BY DEF records
  <2> HIDE DEF record, us, pub
  <2> QED
    BY <1>4, <2>1, <2>2
<1>6. cut(rs) = Ok(rs)
  <2> DEFINE T == { rs[i][1] : i \in 1..n } \cup { rs[i][2] : i \in 1..n }
                  \cup { rs[i][3] : i \in 1..n } \cup { rs[i][4] : i \in 1..n }
  <2>1. \A i \in 1..n : rs[i][1] \in T /\ rs[i][2] \in T /\ rs[i][3] \in T /\ rs[i][4] \in T
    OBVIOUS
  <2> HIDE DEF T, us, pub
  <2>2. ASSUME NEW i \in 1..n PROVE rs[i] \in Seq(T) /\ Len(rs[i]) = 4
    <3>1. PICK u \in us, p \in pub : rs[i] = <<u.label, p.edition, p.version, p.id>>
      BY <1>5
    <3>2. u.label \in T /\ p.edition \in T /\ p.version \in T /\ p.id \in T
      BY <2>1, <3>1
    <3> QED
      BY <3>1, <3>2
  <2>3. rs \in Seq(Seq(T))
    <3> DEFINE U == Seq(T)
    <3>1. \A i \in 1..n : rs[i] \in U
      BY <2>2
    <3> HIDE DEF U
    <3>2. rs \in [1..n -> U]
      BY <1>4, <3>1
    <3>3. rs \in Seq(U)
      BY <3>2, SeqDef
    <3> QED
      BY <3>3 DEF U
  <2>4. Len(rs) = n
    BY <1>4, <2>3, LenProperties
  <2> QED
    BY <2>2, <2>3, <2>4, RecordsOfFlat
<1> DEFINE m == buildLatestVersionMaps(rs)
           value == buildResponse(m)
<1>7. \A j \in 1..n : rs[j][3] \in Nat
  BY <1>1, <1>5
<1> HIDE DEF m
<1>a. IsLatest(m, rs, n)
  BY <1>4, <1>7, LatestOfRecords DEF m
<1>8. /\ DOMAIN m = { Key(rs[j]) : j \in 1..n }
      /\ \A j \in 1..n : rs[j][3] <= m[Key(rs[j])]
      /\ \A k \in DOMAIN m : \E j \in 1..n : k = Key(rs[j]) /\ m[k] = rs[j][3]
  BY <1>a DEF IsLatest
<1>9. \A u \in us, p \in pub : <<p.id, u.label, p.edition>> \in DOMAIN m /\ p.version <= m[<<p.id, u.label, p.edition>>]
  <2> SUFFICES ASSUME NEW u \in us, NEW p \in pub
               PROVE  <<p.id, u.label, p.edition>> \in DOMAIN m /\ p.version <= m[<<p.id, u.label, p.edition>>]
    OBVIOUS
  <2>1. PICK j \in 1..n : rs[j] = record(u, p)
    BY <1>5
  <2>2. Key(rs[j]) = <<p.id, u.label, p.edition>> /\ rs[j][3] = p.version
    BY <2>1 DEF Key
  <2> QED
    BY <1>8, <2>2
<1>10. \A k \in DOMAIN m : \E u \in us, p \in pub : k = <<p.id, u.label, p.edition>> /\ m[k] = p.version
  <2> SUFFICES ASSUME NEW k \in DOMAIN m
               PROVE  \E u \in us, p \in pub : k = <<p.id, u.label, p.edition>> /\ m[k] = p.version
    OBVIOUS
  <2>1. PICK j \in 1..n : k = Key(rs[j]) /\ m[k] = rs[j][3]
    BY <1>8
  <2>2. PICK u \in us, p \in pub : rs[j] = record(u, p)
    BY <1>5
  <2> QED
    BY <2>1, <2>2 DEF Key
<1>11. value = { <<k[1], k[2], k[3], m[k]>> : k \in DOMAIN m }
  BY DEF buildResponse
<1> HIDE DEF value, record, us, pub
<1>12. ASSUME NEW x \in value
       PROVE  \E u \in us, p \in pub : /\ x[1] = p.id /\ x[2] = u.label /\ x[3] = p.edition /\ x[4] = p.version
                                       /\ x[4] = m[<<p.id, u.label, p.edition>>]
  <2>1. PICK k \in DOMAIN m : x = <<k[1], k[2], k[3], m[k]>>
    BY <1>11
  <2>2. PICK u \in us, p \in pub : k = <<p.id, u.label, p.edition>> /\ m[k] = p.version
    BY <1>10
  <2> QED
    BY <2>1, <2>2
<1>13. ASSUME NEW x \in value
       PROVE  x[4] \in VersionsOf(db, q, x[1], x[3]) /\ \E u \in Coded(db, q) : x[2] = u.label
  <2>1. PICK u \in us, p \in pub : x[1] = p.id /\ x[2] = u.label /\ x[3] = p.edition /\ x[4] = p.version
    BY <1>12
  <2> QED
    BY <2>1 DEF VersionsOf, Coded, us, pub
<1>14. ASSUME NEW x \in value, NEW v \in VersionsOf(db, q, x[1], x[3]) PROVE v <= x[4]
  <2>1. PICK u \in us, p \in pub : x[1] = p.id /\ x[3] = p.edition /\ x[4] = m[<<p.id, u.label, p.edition>>]
    BY <1>12
  <2>2. PICK o \in pub : o.id = x[1] /\ o.edition = x[3] /\ v = o.version
    BY DEF VersionsOf, pub
  <2>3. o.version <= m[<<o.id, u.label, o.edition>>]
    BY <1>9
  <2> QED
    BY <2>1, <2>2, <2>3
<1>15. ASSUME NEW u \in us, NEW p \in pub
       PROVE  \E x \in value : x[1] = p.id /\ x[2] = u.label /\ x[3] = p.edition
  <2> DEFINE k == <<p.id, u.label, p.edition>>
  <2>1. k \in DOMAIN m
    BY <1>9
  <2>2. <<k[1], k[2], k[3], m[k]>> \in value
    BY <1>11, <2>1
  <2> QED
    BY <2>2
<1>16. LatestOf(db, q, value)
  BY <1>13, <1>14, <1>15 DEF LatestOf, Coded, us, pub
<1>17. a.status = "ok" /\ a.value = value
  BY <1>3, <1>6 DEF Ok, value, m
<1>18. Correct(db, t, a.value) /\ Complete(db, t)
  BY <1>16, <1>17, LatestIsCorrect DEF Complete
<1> QED
  BY <1>17, <1>18 DEF Judged

\* What read tells of the rows.
LEMMA RowsAreRead ==
  ASSUME NEW rows, NEW mapped, NEW a, a = read(rows, mapped)
  PROVE  \/ a.status = "ok" /\ rows # {} /\ a.value = mapped
         \/ a.status = "ErrNotFound" /\ rows = {}
BY DEF read, Ok, NotFound

\* On neo4j, too, a plain query is answered with what there is.
LEMMA PlainOnNeo ==
  ASSUME NEW t \in Tasks, t.op \in Plain \ {"CountCodes"}, choice = "neo4j",
         NEW n, NEW a \in NeoAnswers(t)
  PROVE  Judged(t, a, n)
PROOF
<1> USE DEF NeoAnswers
<1>1. CASE t.op = "GetCodeLists"
  <2> DEFINE L == Found(db, t)
             rows == { <<v[1], v \in db.geography>> : v \in L }
  <2>1. a = read(rows, CodeListIDs(rows))
    BY <1>1 DEF NeoGetCodeLists, Found
  <2>2. rows = {} <=> L = {}
    <3> HIDE DEF L
    <3> QED
      OBVIOUS
  <2>3. Exists(db, t) <=> L # {}
    BY <1>1 DEF Exists
  <2>4. Tally(rows, 1, CodeListIDs(rows))
    BY NodesAreTallied DEF CodeListIDs
  <2>5. Correct(db, t, CodeListIDs(rows))
    BY <1>1, <2>4 DEF Correct, One
  <2> HIDE DEF rows, L
  <2>6. \/ a.status = "ok" /\ rows # {} /\ a.value = CodeListIDs(rows)
        \/ a.status = "ErrNotFound" /\ rows = {}
    BY <2>1, RowsAreRead
  <2> QED
    BY <2>2, <2>3, <2>5, <2>6 DEF Judged, Complete
<1>2. CASE t.op = "GetEditions"
  <2> DEFINE L == Found(db, t)
  <2>1. a = read(L, Editions(L))
    BY <1>2 DEF NeoGetEditions, Found
  <2>2. Exists(db, t) <=> L # {}
    BY <1>2 DEF Exists
  <2>3. Tally(L, 2, Editions(L))
    BY NodesAreTallied DEF Editions
  <2>4. Correct(db, t, Editions(L))
    BY <1>2, <2>3 DEF Correct, One
  <2> HIDE DEF L
  <2>5. \/ a.status = "ok" /\ L # {} /\ a.value = Editions(L)
        \/ a.status = "ErrNotFound" /\ L = {}
    BY <2>1, RowsAreRead
  <2> QED
    BY <2>2, <2>4, <2>5 DEF Judged, Complete
<1>3. CASE t.op \in One
  <2>1. PICK mapped : /\ a \in readSingle(mapped)
                      /\ mapped = {} <=> Found(db, t) = {}
                      /\ \A m \in mapped : m = {Name(t)}
    <3> USE DEF Found, Name
    <3>1. CASE t.op = "GetCodeList"
      <4> DEFINE F == Lists(db, t.q.id)
                 ms == { {t.q.id} : v \in F }
      <4>1. a \in readSingle(ms)
        BY <3>1 DEF NeoGetCodeList
      <4>2. Found(db, t) = F /\ Name(t) = t.q.id
        BY <3>1
      <4>3. (ms = {} <=> F = {}) /\ \A m \in ms : m = {Name(t)}
        BY <4>2
      <4> HIDE DEF ms, F
      <4> QED
        BY <4>1, <4>2, <4>3
    <3>2. CASE t.op = "GetEdition"
      <4> DEFINE F == Edition(db, t.q.id, t.q.edition)
                 ms == { {v[2]} : v \in F }
      <4>1. a \in readSingle(ms)
        BY <3>2 DEF NeoGetEdition
      <4>2. Found(db, t) = F /\ Name(t) = t.q.edition
        BY <3>2
      <4>3. \A v \in F : v[2] = t.q.edition
        BY DEF Edition
      <4> HIDE DEF F
      <4>4. (ms = {} <=> F = {}) /\ \A m \in ms : m = {Name(t)}
        BY <4>2, <4>3
      <4> HIDE DEF ms
      <4> QED
        BY <4>1, <4>2, <4>4
    <3>3. CASE t.op = "GetCode"
      <4> DEFINE F == { w \in CodeEdges(db, t.q) : w.code = t.q.code }
                 ms == { {u.code} : u \in F }
      <4>1. a \in readSingle(ms)
        BY <3>3 DEF NeoGetCode
      <4>2. Found(db, t) = F /\ Name(t) = t.q.code
        BY <3>3
      <4>3. \A u \in F : u.code = t.q.code
        OBVIOUS
      <4>4. ms = {} <=> F = {}
        <5> HIDE DEF F
        <5> QED
          OBVIOUS
      <4>5. \A m \in ms : m = {Name(t)}
        <5> HIDE DEF F
        <5> QED
          BY <4>2, <4>3
      <4> HIDE DEF ms, F
      <4> QED
        BY <4>1, <4>2, <4>4, <4>5
    <3> QED
      BY <1>3, <3>1, <3>2, <3>3 DEF One
  <2>2. \/ a.status = "ok" /\ mapped # {} /\ a.value = {Name(t)}
        \/ a.status = "ErrNotFound" /\ mapped = {}
    BY <2>1 DEF readSingle, Ok, NotFound
  <2>3. Exists(db, t) <=> Found(db, t) # {}
    BY <1>3 DEF Exists, One
  <2>4. a.status = "ok" => Correct(db, t, a.value)
    BY <1>3, <2>2 DEF Correct, One
  <2> QED
    BY <2>1, <2>2, <2>3, <2>4 DEF Judged, Complete
<1> QED
  BY <1>1, <1>2, <1>3 DEF Plain, One

\* GetCodes of neo4j answers rightly.
LEMMA CodesOnNeo ==
  ASSUME NEW t \in Tasks, t.op = "GetCodes", choice = "neo4j", NEW n, NEW a \in NeoAnswers(t)
  PROVE  Judged(t, a, n)
PROOF
<1> DEFINE us == CodeEdges(db, t.q)
<1>1. a = read(us, Codes(us))
  BY DEF NeoAnswers, NeoGetCodes
<1>2. Found(db, t) = us /\ (Exists(db, t) <=> us # {})
  BY DEF Exists, Found
<1>3. Codes(us) = [x \in { Record(u) : u \in us } |-> Cardinality({ u \in us : Record(u) = x })]
  BY DEF Codes, Record
<1> HIDE DEF us
<1>4. \/ a.status = "ok" /\ us # {} /\ a.value = Codes(us)
      \/ a.status = "ErrNotFound" /\ us = {}
  BY <1>1, RowsAreRead
<1>5. Correct(db, t, Codes(us))
  BY <1>2, <1>3 DEF Correct, One
<1> QED
  BY <1>2, <1>4, <1>5 DEF Judged, Complete

\* The greatest of some numbers, and of 0, is one of them.
LEMMA GreatestOfSome ==
  ASSUME NEW V, IsFiniteSet(V), V # {}, V \subseteq Nat
  PROVE  max(V) \in V /\ \A v \in V : v <= max(V)
PROOF
<1>1. PICK g \in V : \A v \in V : v <= g
  <2>1. V \subseteq Nat
    OBVIOUS
  <2> QED
    BY <2>1, GreatestNumber
<1> DEFINE W == V \cup {0}
           is(x) == x \in W /\ \A y \in W : x >= y
<1>2. \A v \in V : v \in Nat
  OBVIOUS
<1>3. is(g)
  BY <1>1, <1>2
<1>4. ASSUME NEW x, is(x) PROVE x = g
  <2>1. x >= g /\ g >= x /\ x \in Nat /\ g \in Nat
    BY <1>2, <1>3, <1>4
  <2> QED
    BY <2>1
<1>5. Max(W) = CHOOSE x \in W : \A y \in W : x >= y
  BY DEF Max
<1>6. Max(W) = g
  BY <1>3, <1>4, <1>5
<1> QED
  BY <1>1, <1>6 DEF max

\* GetCodeDatasets of neo4j answers rightly.
LEMMA DatasetsOnNeo ==
  ASSUME NEW t \in Tasks, t.op = "GetCodeDatasets", choice = "neo4j", db \in Databases,
         NEW n0, NEW a \in NeoGetCodeDatasets(db, t.q)
  PROVE  Judged(t, a, n0)
PROOF
<1> DEFINE q == t.q
           us == { u \in CodeEdges(db, q) : u.code = q.code }
           pub == Published(db, q.code)
           row(u, p) == [d |-> p, label |-> u.label]
           rows == { row(u, p) : u \in us, p \in pub }
           value(m) == UNION { LatestVersions(id, m[id]) : id \in DOMAIN m }
<1>1. IsFiniteSet(us) /\ IsFiniteSet(pub) /\ \A p \in pub : p.version \in Nat
  <2>1. us \subseteq CodeEdges(db, q) /\ IsFiniteSet(CodeEdges(db, q)) /\ IsFiniteSet(pub)
    BY FinitelyMany
  <2>2. \A p \in pub : p.version \in Nat
    BY DatabasesAreFinite DEF Published
  <2> HIDE DEF us, pub
  <2> QED
    BY <2>1, <2>2, FS_Subset
<1>2. IsFiniteSet(rows)
  <2> DEFINE S == us \X pub
             f == [x \in S |-> row(x[1], x[2])]
  <2>1. IsFiniteSet({ f[x] : x \in S })
    <3>1. IsFiniteSet(S)
      <4> HIDE DEF us, pub
      <4> QED
        BY <1>1, FS_Product
    <3>2. DOMAIN f = S
      OBVIOUS
    <3> HIDE DEF f, S
    <3> QED
      BY <3>1, <3>2, FiniteImage
  <2>2. ASSUME NEW x \in S PROVE f[x] \in rows
    <3>1. x[1] \in us /\ x[2] \in pub
      OBVIOUS
    <3>2. f[x] = row(x[1], x[2])
      OBVIOUS
    <3> HIDE DEF f, row, us, pub
    <3> QED
      BY <3>1, <3>2
  <2>3. ASSUME NEW r \in rows PROVE \E x \in S : r = f[x]
    <3>1. PICK u \in us, p \in pub : r = row(u, p)
      OBVIOUS
    <3> HIDE DEF us, pub
    <3>2. <<u, p>> \in S
      OBVIOUS
    <3>3. f[<<u, p>>] = row(u, p)
      BY <3>2
    <3> QED
      BY <3>1, <3>2, <3>3
  <2> HIDE DEF f, S, rows
  <2>4. { f[x] : x \in S } = rows
    BY <2>2, <2>3
  <2> QED
    BY <2>1, <2>4
<1>3. CASE rows = {}
  <2>1. a = NotFound
    BY <1>3 DEF NeoGetCodeDatasets
  <2>2. ~Exists(db, t)
    <3>1. \A u \in us, p \in pub : row(u, p) \in rows
      OBVIOUS
    <3>2. us = {} \/ pub = {}
      <4> HIDE DEF row, rows, us, pub
      <4> QED
        BY <1>3, <3>1
    <3> QED
      BY <3>2 DEF Exists, Found
  <2> QED
    BY <2>1, <2>2 DEF Judged, NotFound
<1>4. CASE rows # {}
  <2>a. NeoGetCodeDatasets(db, q) =
          IF rows = {} THEN {NotFound} ELSE { Ok(value(CodesDatasets(s))) : s \in SetToSeqs(rows) }
    BY DEF NeoGetCodeDatasets
  <2>0. a \in { Ok(value(CodesDatasets(s))) : s \in SetToSeqs(rows) }
    <3> HIDE DEF rows, value
    <3> QED
      BY <1>4, <2>a
  <2>1. PICK rs \in SetToSeqs(rows) : a = Ok(value(CodesDatasets(rs)))
    <3> HIDE DEF rows, value
    <3> QED
      BY <2>0
  <2> HIDE DEF rows
  <2>2. PICK n \in Nat : /\ DOMAIN rs = 1..n /\ rs = [i \in 1..n |-> rs[i]]
                         /\ rows = { rs[i] : i \in 1..n }
                         /\ \A i \in 1..n : rs[i] \in rows
    BY <1>2, <2>1, AllInSomeOrder
  <2>3. /\ \A u \in us, p \in pub : \E j \in 1..n : rs[j].d = p
        /\ \A j \in 1..n : rs[j].d \in pub /\ \E u \in us : rs[j].label = u.label
    <3>1. \A u \in us, p \in pub : row(u, p) \in rows /\ row(u, p).d = p
      BY DEF rows
    <3>2. \A r \in rows : r.d \in pub /\ \E u \in us : r.label = u.label
      <4> SUFFICES ASSUME NEW r \in rows PROVE r.d \in pub /\ \E u \in us : r.label = u.label
        OBVIOUS
      <4>1. PICK u \in us, p \in pub : r = row(u, p)
        BY DEF rows
      <4> HIDE DEF us, pub, rows
      <4>2. r.d = p /\ r.label = u.label
        BY <4>1
      <4> QED
        BY <4>2
    <3> HIDE DEF row, us, pub
    <3>3. \A u \in us, p \in pub : \E j \in 1..n : rs[j].d = p
      BY <2>2, <3>1
    <3>4. \A j \in 1..n : rs[j].d \in pub /\ \E u \in us : rs[j].label = u.label
      <4> SUFFICES ASSUME NEW j \in 1..n
                   PROVE  rs[j].d \in pub /\ \E u \in us : rs[j].label = u.label
        OBVIOUS
      <4>1. rs[j] \in rows
        BY <2>2
      <4> QED
        BY <3>2, <4>1
    <3> QED
      BY <3>3, <3>4
  <2>4. PICK u0 \in us : TRUE
    BY <1>4 DEF rows
  <2>5. \A p \in pub : \E j \in 1..n : rs[j].d = p
    BY <2>3, <2>4
  <2> DEFINE m == CodesDatasets(rs)
  <2> HIDE DEF us, pub, m
  <2>6. IsKnown(m, rs, n)
    BY <2>2, DatasetsOfRows DEF m
  <2>7. DOMAIN m = { p.id : p \in pub }
    BY <2>3, <2>5, <2>6 DEF IsKnown
  <2>8. ASSUME NEW id \in DOMAIN m
        PROVE  m[id].versions = { <<p.edition, p.version>> : p \in { x \in pub : x.id = id } }
    BY <2>3, <2>5, <2>6 DEF IsKnown, VersionsIn
  <2>9. ASSUME NEW id \in DOMAIN m, NEW e
        PROVE  { v[2] : v \in { w \in m[id].versions : w[1] = e } } = VersionsOf(db, q, id, e)
    <3> DEFINE V == { v[2] : v \in { w \in m[id].versions : w[1] = e } }
    <3>1. ASSUME NEW x \in V PROVE x \in VersionsOf(db, q, id, e)
      <4>1. PICK p \in pub : p.id = id /\ p.edition = e /\ x = p.version
        BY <2>8
      <4> QED
        BY <4>1 DEF VersionsOf, pub
    <3>2. ASSUME NEW x \in VersionsOf(db, q, id, e) PROVE x \in V
      <4>1. PICK p \in pub : p.id = id /\ p.edition = e /\ x = p.version
        BY DEF VersionsOf, pub
      <4>2. <<p.edition, p.version>> \in m[id].versions
        BY <2>8, <4>1
      <4> QED
        BY <4>1, <4>2
    <3> QED
      BY <3>1, <3>2
  <2>10. \A id, e : IsFiniteSet(VersionsOf(db, q, id, e)) /\ VersionsOf(db, q, id, e) \subseteq Nat
    <3> TAKE id, e
    <3> DEFINE S == { p \in pub : p.id = id /\ p.edition = e }
               f == [p \in S |-> p.version]
    <3>1. VersionsOf(db, q, id, e) = { f[p] : p \in S }
      BY DEF VersionsOf, pub
    <3>2. S \subseteq pub /\ DOMAIN f = S
      OBVIOUS
    <3>3. \A p \in S : f[p] \in Nat
      BY <1>1
    <3> HIDE DEF S, f
    <3>4. IsFiniteSet(S)
      BY <1>1, <3>2, FS_Subset
    <3> QED
      BY <3>1, <3>2, <3>3, <3>4, FiniteImage
  <2>11. ASSUME NEW x \in value(m)
         PROVE  /\ x[4] \in VersionsOf(db, q, x[1], x[3])
                /\ \A v \in VersionsOf(db, q, x[1], x[3]) : v <= x[4]
    <3>1. PICK id \in DOMAIN m : x \in LatestVersions(id, m[id])
      OBVIOUS
    <3>2. PICK w \in m[id].versions :
            x = <<id, m[id].label, w[1], max({ v[2] : v \in { y \in m[id].versions : y[1] = w[1] } })>>
      BY <3>1 DEF LatestVersions
    <3> DEFINE e == w[1]
    <3>3. x[1] = id /\ x[3] = e /\ x[4] = max({ v[2] : v \in { y \in m[id].versions : y[1] = e } })
      BY <3>2
    <3>4. w[2] \in { v[2] : v \in { y \in m[id].versions : y[1] = e } }
      OBVIOUS
    <3> HIDE DEF e
    <3>5. x[4] = max(VersionsOf(db, q, id, e)) /\ VersionsOf(db, q, id, e) # {}
      BY <2>9, <3>3, <3>4
    <3>6. /\ max(VersionsOf(db, q, id, e)) \in VersionsOf(db, q, id, e)
          /\ \A v \in VersionsOf(db, q, id, e) : v <= max(VersionsOf(db, q, id, e))
      BY <2>10, <3>5, GreatestOfSome
    <3> HIDE DEF value
    <3> QED
      BY <3>3, <3>5, <3>6
  <2>12. ASSUME NEW p \in pub PROVE \E x \in value(m) : x[1] = p.id /\ x[3] = p.edition
    <3> DEFINE id == p.id
               e == p.edition
               x == <<id, m[id].label, e, max({ v[2] : v \in { y \in m[id].versions : y[1] = e } })>>
    <3>1. id \in DOMAIN m /\ <<e, p.version>> \in m[id].versions
      BY <2>7, <2>8
    <3>2. e \in { v[1] : v \in m[id].versions }
      BY <3>1
    <3>3. x \in LatestVersions(id, m[id])
      <4> HIDE DEF e, id
      <4> QED
        BY <3>2 DEF LatestVersions
    <3>4. x \in value(m)
      BY <3>1, <3>3
    <3>5. x[1] = id /\ x[3] = e
      OBVIOUS
    <3> HIDE DEF x, value
    <3> QED
      BY <3>4, <3>5
  <2>16. ASSUME NEW x \in value(m) PROVE x[1] \in DOMAIN m /\ x[2] = m[x[1]].label
    <3>1. PICK id \in DOMAIN m : x \in LatestVersions(id, m[id])
      OBVIOUS
    <3>2. PICK w \in m[id].versions :
            x = <<id, m[id].label, w[1], max({ v[2] : v \in { y \in m[id].versions : y[1] = w[1] } })>>
      BY <3>1 DEF LatestVersions
    <3>3. x[1] = id /\ x[2] = m[id].label
      BY <3>2
    <3> HIDE DEF value
    <3> QED
      BY <3>3
  <2> HIDE DEF value
  <2>13. LatestOf(db, q, value(m))
    <3>1. ASSUME NEW x \in value(m) PROVE \E u \in Coded(db, q) : x[2] = u.label
      <4>1. PICK j \in 1..n : m[x[1]].label = rs[j].label
        BY <2>6, <2>16 DEF IsKnown
      <4> QED
        BY <2>3, <2>16, <4>1 DEF Coded, us
    <3>2. \A x, y \in value(m) : x[1] = y[1] => x[2] = y[2]
      BY <2>16
    <3> QED
      BY <2>11, <2>12, <3>1, <3>2 DEF LatestOf, Coded, us, pub
  <2>14. a.status = "ok" /\ a.value = value(m)
    BY <2>1 DEF m, Ok
  <2>15. Correct(db, t, a.value)
    BY <2>13, <2>14, LatestIsCorrect
  <2>17. Exists(db, t)
    <3>1. <<u0, CHOOSE p \in pub : TRUE>> \in us \X pub
      <4>1. pub # {}
        BY <1>4 DEF rows
      <4> QED
        BY <4>1
    <3> QED
      BY <3>1 DEF Exists, Found, us, pub
  <2> QED
    BY <2>14, <2>15, <2>17 DEF Judged, Complete
<1> QED
  BY <1>3, <1>4

------------------------------------------------------------------------------
(* Calls that are answered while the code lists are edited.                *)

\* Calls that are answered by a statement.
AsksDatabase(t) == choice = "neo4j" => t.op \notin {"CountCodes", "GetCodesOrder"}

\* During a query what the code lists hold is among what has been seen; what the
\* first statement of GetCodes has found was so at some moment.
Asked(t) ==
  /\ pos[t] \in {"open", "query"} => db \in seen[t] /\ AsksDatabase(t)
  /\ pos[t] = "query" /\ choice = "neptune" /\ part[t] = 2 =>
       \E d \in seen[t] : hasOrder[t] <=> CountOrderedEdges(d, t.q) > 0
  /\ Ended(t) /\ choice # "mock" => RightAnswer(t, answer[t])

AnswerInv == \A t \in Tasks : t.op \in Queries => Asked(t)

\* Any statement that answers a query answers it rightly.
LEMMA AnsweredRightly ==
  ASSUME IInv, NEW t \in Tasks, t.op \in Queries, Asked(t), pos[t] = "query", ~Prepares(t),
         NEW n \in Nat \ {0}, NEW a \in Answers(t, n)
  PROVE  Judged(t, a, n)
PROOF
<1>1. /\ db \in Databases /\ db \in seen[t] /\ seen[t] \subseteq Databases /\ hasOrder[t] \in BOOLEAN
      /\ part[t] \in 1..2 /\ choice \in {"neo4j", "neptune"} /\ AsksDatabase(t)
  BY DEF IInv, TypeOK, Placed, Asked
<1>2. t.op \in Plain \cup {"GetCodes", "GetCodesOrder", "GetCodeDatasets"}
  BY DEF Queries, Plain
<1>3. CASE choice = "neo4j"
  <2>1. a \in NeoAnswers(t) /\ t.op \notin {"CountCodes", "GetCodesOrder"}
    BY <1>1, <1>3 DEF Answers, AsksDatabase
  <2>2. CASE t.op = "GetCodes"
    BY <1>3, <2>1, <2>2, CodesOnNeo
  <2>3. CASE t.op = "GetCodeDatasets"
    <3>1. a \in NeoGetCodeDatasets(db, t.q)
      BY <2>1, <2>3 DEF NeoAnswers
    <3> QED
      BY <1>1, <1>3, <2>3, <3>1, DatasetsOnNeo
  <2>4. CASE t.op \in Plain
    BY <1>3, <2>1, <2>4, PlainOnNeo
  <2> QED
    BY <1>2, <2>1, <2>2, <2>3, <2>4
<1>4. CASE choice = "neptune"
  <2>1. a \in NeptuneAnswers(t, n)
    BY <1>4 DEF Answers
  <2>2. CASE t.op = "GetCodes"
    <3>1. a \in GetCodes(db, t.q, hasOrder[t])
      BY <2>1, <2>2 DEF NeptuneAnswers
    <3>2. part[t] = 2
      BY <1>1, <1>4, <2>2 DEF Prepares
    <3>3. PICK d \in seen[t] : hasOrder[t] <=> CountOrderedEdges(d, t.q) > 0
      BY <1>4, <3>2 DEF Asked
    <3> QED
      BY <1>1, <1>4, <2>2, <3>1, <3>3, CodesOnNeptune
  <2>3. CASE t.op = "GetCodesOrder"
    <3>1. a \in GetCodesOrder(db, t.q, n)
      BY <2>1, <2>3 DEF NeptuneAnswers
    <3> QED
      BY <1>1, <1>4, <2>3, <3>1, OrderOnNeptune
  <2>4. CASE t.op = "GetCodeDatasets"
    <3>1. a \in GetCodeDatasets(db, t.q)
      BY <2>1, <2>4 DEF NeptuneAnswers
    <3> QED
      BY <1>1, <1>4, <2>4, <3>1, DatasetsOnNeptune
  <2>5. CASE t.op \in Plain
    BY <1>1, <1>4, <2>1, <2>5, PlainOnNeptune
  <2> QED
    BY <1>2, <2>2, <2>3, <2>4, <2>5
<1> QED
  BY <1>1, <1>3, <1>4

\* What is promised of an answer is the same after a step that keeps the driver
\* and what the query has seen.
LEMMA SamePromise ==
  ASSUME NEW t \in Tasks, NEW a, choice' = choice, seen'[t] = seen[t], answer'[t] = a
  PROVE  /\ \A d : Correct(d, t, answer[t].value)' <=> Correct(d, t, a.value)
         /\ \A d : Complete(d, t)' <=> Complete(d, t)
         /\ Mixed(t)' <=> Mixed(t)
PROOF
<1>1. \A d : InOrder(d, t, answer[t].value)' <=> InOrder(d, t, a.value)
  BY DEF InOrder
<1>2. \A d : Latest(d, t, answer[t].value)' <=> Latest(d, t, a.value)
  BY DEF Latest
<1>3. \A d : Correct(d, t, answer[t].value)' <=> Correct(d, t, a.value)
  BY <1>1, <1>2 DEF Correct
<1>4. \A d : Complete(d, t)' <=> Complete(d, t)
  BY DEF Complete
<1>5. Mixed(t)' <=> Mixed(t)
  BY DEF Mixed
<1> QED
  BY <1>3, <1>4, <1>5

\* An answer that is right stays right.
LEMMA StaysRight ==
  ASSUME NEW t \in Tasks, NEW a, choice' = choice, seen'[t] = seen[t], failed[t] => failed'[t],
         part'[t] = part[t], responses'[t] = responses[t], answer'[t] = a, RightAnswer(t, a)
  PROVE  RightAnswer(t, answer[t])'
PROOF
<1>1. /\ \A d : Correct(d, t, answer[t].value)' <=> Correct(d, t, a.value)
      /\ \A d : Complete(d, t)' <=> Complete(d, t)
      /\ Mixed(t)' <=> Mixed(t)
  BY SamePromise
<1>2. (ChecksEdition(t)' <=> ChecksEdition(t)) /\ (AskedAtOnce(t)' <=> AskedAtOnce(t))
  BY DEF ChecksEdition, AskedAtOnce
<1> QED
  BY <1>1, <1>2 DEF RightAnswer

\* An answer of a statement is right after it.
LEMMA AnsweredNow ==
  ASSUME NEW t \in Tasks, NEW n, NEW a, Judged(t, a, n), db \in seen[t],
         choice' = choice, seen'[t] = seen[t], responses'[t] = n, answer'[t] = a, pos'[t] = "ended"
  PROVE  Asked(t)'
PROOF
<1>1. /\ \A d : Correct(d, t, answer[t].value)' <=> Correct(d, t, a.value)
      /\ \A d : Complete(d, t)' <=> Complete(d, t)
      /\ Mixed(t)' <=> Mixed(t)
  BY SamePromise
<1>2. AskedAtOnce(t)' <=> n = 1 /\ IsInjective(t.q.codes)
  BY DEF AskedAtOnce
<1>3. RightAnswer(t, answer[t])'
  <2>1. PICK d \in seen'[t] : d = db
    OBVIOUS
  <2> QED
    BY <1>1, <1>2, <2>1 DEF RightAnswer, Judged
<1> QED
  BY <1>3 DEF Asked

\* What a query, and its answer, rest on is as before.
AsBefore(u) ==
  /\ choice' = choice /\ pos'[u] = pos[u] /\ part'[u] = part[u] /\ hasOrder'[u] = hasOrder[u]
  /\ answer'[u] = answer[u] /\ responses'[u] = responses[u] /\ (failed[u] => failed'[u])

\* A step that leaves this alone leaves a query asked or answered.
LEMMA AskedAsBefore ==
  ASSUME NEW u \in Tasks, Asked(u), AsBefore(u), db' = db, seen'[u] = seen[u]
  PROVE  Asked(u)'
PROOF
<1> USE DEF AsBefore
<1>1. (Ended(u)' <=> Ended(u)) /\ (AsksDatabase(u)' <=> AsksDatabase(u))
  BY DEF Ended, AsksDatabase
<1>2. RightAnswer(u, answer[u]) => RightAnswer(u, answer[u])'
  <2> SUFFICES ASSUME RightAnswer(u, answer[u]) PROVE RightAnswer(u, answer[u])'
    OBVIOUS
  <2>1. PICK a : a = answer[u]
    OBVIOUS
  <2> QED
    BY <2>1, StaysRight
<1> QED
  BY <1>1, <1>2 DEF Asked

\* A step of one call leaves other queries alone.
LEMMA OthersAsBefore ==
  ASSUME TypeOK, NEW t \in Tasks, Call(t) \/ Step(t), NEW u \in Tasks, u # t
  PROVE  AsBefore(u) /\ db' = db /\ seen'[u] = seen[u]
PROOF
<1> USE DEF AsBefore, TypeOK, config, lists, Return, Stop
<1>1. CASE Call(t)
  BY <1>1 DEF Call
<1>2. CASE OpenPool(t)
  BY <1>2 DEF OpenPool
<1>3. CASE Prepare(t)
  BY <1>3 DEF Prepare
<1>4. CASE Query(t)
  BY <1>4 DEF Query
<1>5. CASE Fail(t)
  BY <1>5 DEF Fail, CanFail
<1>6. CASE OpenStreams(t)
  BY <1>6 DEF OpenStreams
<1>7. ASSUME NEW n \in Sizes, Read(t, n) PROVE AsBefore(u) /\ db' = db /\ seen'[u] = seen[u]
  BY <1>7 DEF Read
<1>8. CASE ReadFails(t)
  BY <1>8 DEF ReadFails
<1>9. CASE Close(t)
  BY <1>9 DEF Close
<1> QED
  BY <1>1, <1>2, <1>3, <1>4, <1>5, <1>6, <1>7, <1>8, <1>9 DEF Step, Proceed

\* A step of a query keeps the invariant.
LEMMA CallAsks ==
  ASSUME IInv, NEW t \in Tasks, t.op \in Queries, Call(t)
  PROVE  Asked(t)'
PROOF
<1>0. StoreOf(t) \in Stores
  BY DEF StoreOf, Stores
<1>1. TypeOK /\ cfg = "complete" /\ part[t] = 1 /\ choice \in {"neo4j", "neptune", "mock"}
  BY <1>0, ClientAssumption DEF IInv, Configured, Placed, Call, TypeOK
<1>2. choice' = choice /\ db' = db /\ part'[t] = 1 /\ seen'[t] = {db}
  BY <1>1 DEF Call, TypeOK, config
<1>3. CASE NoStatement(t)
  <2>1. pos'[t] = "ended" /\ answer'[t] = AtOnce(t)
    BY <1>1, <1>3 DEF Call, TypeOK, Return
  <2>2. CASE choice = "mock"
    BY <1>2, <2>1, <2>2 DEF Asked
  <2>3. CASE choice = "neo4j"
    <3>1. answer'[t].status = "ErrNotImplemented"
      BY <2>1, <2>3 DEF AtOnce, NotImplemented
    <3>2. RightAnswer(t, answer[t])'
      BY <3>1 DEF RightAnswer
    <3> QED
      BY <2>1, <3>2 DEF Asked
  <2>4. CASE choice = "neptune"
    <3>1. t.op = "GetCodesOrder" /\ t.q.codes = <<>>
      BY <1>3, <2>4 DEF NoStatement
    <3>2. PICK a : a = AtOnce(t)
      OBVIOUS
    <3>3. a.status = "ok" /\ a.value = <<>>
      BY <2>4, <3>2 DEF AtOnce, Ok
    <3>4. Range(t.q.codes) = {} /\ Found(db, t) = {}
      <4>1. Range(<<>>) = {}
        BY EmptySeq DEF Range
      <4> QED
        BY <3>1, <4>1 DEF Found, AskedEdges
    <3>5. Correct(db, t, a.value)
      <4>1. DOMAIN <<>> = {}
        OBVIOUS
      <4> QED
        BY <3>1, <3>3, <3>4, <4>1 DEF Correct, One
    <3>6. Complete(db, t)
      BY <3>1, <3>4 DEF Complete, Exists
    <3>7. answer'[t] = a
      BY <2>1, <3>2
    <3>8. /\ \A d : Correct(d, t, a.value)' <=> Correct(d, t, a.value)
          /\ \A d : Complete(d, t)' <=> Complete(d, t)
      BY <1>2, <3>1 DEF Correct, Complete, One
    <3>9. RightAnswer(t, answer[t])'
      <4>1. PICK d \in seen'[t] : d = db
        BY <1>2
      <4> QED
        BY <3>3, <3>5, <3>6, <3>7, <3>8, <4>1 DEF RightAnswer
    <3> QED
      BY <2>1, <3>9 DEF Asked
  <2> QED
    BY <1>1, <2>2, <2>3, <2>4
<1>4. CASE ~NoStatement(t)
  <2>1. pos'[t] \in {"query", "open"}
    BY <1>1, <1>4 DEF Call, TypeOK
  <2>2. db' \in seen'[t] /\ AsksDatabase(t)'
    BY <1>2, <1>4 DEF AsksDatabase, NoStatement
  <2> QED
    BY <1>2, <2>1, <2>2 DEF Asked, Ended
<1> QED
  BY <1>3, <1>4

LEMMA OpenPoolAsks ==
  ASSUME IInv, NEW t \in Tasks, Asked(t), OpenPool(t)
  PROVE  Asked(t)'
PROOF
<1>1. TypeOK /\ choice = "neo4j"
  BY DEF IInv, Placed, OpenPool
<1>2. choice' = choice /\ db' = db /\ seen' = seen /\ pos'[t] = "query" /\ pos[t] = "open"
  BY <1>1 DEF OpenPool, TypeOK, config, lists
<1> QED
  BY <1>1, <1>2 DEF Asked, Ended, AsksDatabase

LEMMA PrepareAsks ==
  ASSUME IInv, NEW t \in Tasks, Asked(t), Prepare(t)
  PROVE  Asked(t)'
PROOF
<1>1. TypeOK /\ pos[t] = "query" /\ Prepares(t) /\ db \in seen[t] /\ AsksDatabase(t)
  BY DEF IInv, Asked, Prepare
<1>2. /\ choice' = choice /\ db' = db /\ seen' = seen /\ responses' = responses
      /\ hasOrder'[t] = (choice = "neptune" /\ CountOrderedEdges(db, t.q) > 0)
  BY <1>1 DEF Prepare, TypeOK, config, lists
<1>3. CASE choice = "neo4j" /\ NotFound \in NeoGetEdition(db, t.q)
  <2>1. t.op \in {"GetCodes", "GetCode", "GetCodeDatasets"}
    BY <1>1, <1>3 DEF Prepares, ChecksEdition
  <2>2. Edition(db, t.q.id, t.q.edition) = {}
    <3>1. { {v[2]} : v \in Edition(db, t.q.id, t.q.edition) } = {}
      BY <1>3 DEF NeoGetEdition, readSingle, Ok, NotFound
    <3> QED
      BY <3>1
  <2>3. CodeEdges(db, t.q) = {}
    BY <2>2 DEF CodeEdges, UsedBy
  <2>4. ~Exists(db, t)
    BY <2>1, <2>3 DEF Exists, Found
  <2>5. Judged(t, NotFound, responses[t])
    BY <2>4 DEF Judged, NotFound
  <2>6. answer'[t] = NotFound /\ pos'[t] = "ended"
    BY <1>1, <1>3 DEF Prepare, Return, TypeOK
  <2>7. PICK n, a : n = responses[t] /\ a = NotFound
    OBVIOUS
  <2> QED
    BY <1>1, <1>2, <2>5, <2>6, <2>7, AnsweredNow
<1>4. CASE ~(choice = "neo4j" /\ NotFound \in NeoGetEdition(db, t.q))
  <2>1. pos'[t] \in {"open", "query"}
    BY <1>1, <1>4 DEF Prepare, TypeOK
  <2>2. choice = "neptune" => (hasOrder'[t] <=> CountOrderedEdges(db, t.q) > 0)
    BY <1>2
  <2>3. AsksDatabase(t)'
    BY <1>1, <1>2 DEF AsksDatabase
  <2> QED
    BY <1>1, <1>2, <2>1, <2>2, <2>3 DEF Asked, Ended
<1> QED
  BY <1>3, <1>4

LEMMA QueryAsks ==
  ASSUME IInv, NEW t \in Tasks, t.op \in Queries, Asked(t), Query(t)
  PROVE  Asked(t)'
PROOF
<1>1. TypeOK /\ pos[t] = "query" /\ ~Prepares(t) /\ db \in seen[t]
  BY DEF IInv, Query, Asked
<1>2. choice' = choice /\ seen' = seen
  BY DEF Query, config
<1>3. PICK n \in (IF t.op = "GetCodesOrder" THEN 1..MaxResponses ELSE {1}) :
        responses' = [responses EXCEPT ![t] = n] /\ \E a \in Answers(t, n) : Return(t, a)
  BY DEF Query
<1>4. n \in Nat \ {0}
  BY ClientAssumption
<1>5. PICK a \in Answers(t, n) : Return(t, a)
  BY <1>3
<1>6. answer'[t] = a /\ pos'[t] = "ended" /\ responses'[t] = n
  BY <1>1, <1>3, <1>5 DEF Return, TypeOK
<1>7. Judged(t, a, n)
  BY <1>1, <1>4, AnsweredRightly
<1> QED
  BY <1>1, <1>2, <1>6, <1>7, AnsweredNow

LEMMA FailAsks ==
  ASSUME IInv, NEW t \in Tasks, t.op \in Queries, Fail(t)
  PROVE  Asked(t)'
PROOF
<1>1. TypeOK
  BY DEF IInv
<1>2. /\ failed'[t] /\ pos'[t] = "ended" /\ answer'[t] = Failure(t)
      /\ choice' = choice /\ part'[t] = part[t]
  BY <1>1 DEF Fail, Return, TypeOK, config
<1>3. \/ Failure(t).status = "error"
      \/ Failure(t).status = "ErrNotFound" /\ ChecksEdition(t) /\ part[t] = 1
  BY DEF Failure, Queries, NotFound, Failed
<1>4. ChecksEdition(t)' <=> ChecksEdition(t)
  BY <1>2 DEF ChecksEdition
<1>5. RightAnswer(t, answer[t])'
  BY <1>2, <1>3, <1>4 DEF RightAnswer
<1> QED
  BY <1>2, <1>5 DEF Asked

LEMMA EditAsks ==
  ASSUME IInv, NEW u \in Tasks, Asked(u), Edit
  PROVE  Asked(u)'
PROOF
<1>1. TypeOK /\ AsBefore(u)
  BY DEF IInv, AsBefore, Edit, config
<1>2. CASE pos[u] \in {"open", "query"}
  <2>1. db' \in seen'[u] /\ seen[u] \subseteq seen'[u]
    BY <1>1, <1>2 DEF Edit, TypeOK
  <2>2. pos'[u] \in {"open", "query"}
    BY <1>1, <1>2 DEF AsBefore
  <2>3. AsksDatabase(u)' <=> AsksDatabase(u)
    BY <1>1 DEF AsksDatabase, AsBefore
  <2> QED
    BY <1>1, <1>2, <2>1, <2>2, <2>3 DEF Asked, AsBefore, Ended
<1>3. CASE pos[u] \notin {"open", "query"}
  <2>1. seen'[u] = seen[u]
    BY <1>1, <1>3 DEF Edit, TypeOK
  <2>2. Ended(u)' <=> Ended(u)
    BY <1>1 DEF AsBefore, Ended
  <2>3. RightAnswer(u, answer[u]) => RightAnswer(u, answer[u])'
    <3> SUFFICES ASSUME RightAnswer(u, answer[u]) PROVE RightAnswer(u, answer[u])'
      OBVIOUS
    <3>1. PICK a : a = answer[u]
      OBVIOUS
    <3> QED
      BY <1>1, <2>1, <3>1, StaysRight DEF AsBefore
  <2> QED
    BY <1>1, <1>3, <2>2, <2>3 DEF Asked, AsBefore
<1> QED
  BY <1>2, <1>3

LEMMA AnswerStep ==
  ASSUME IInv, AnswerInv, [Next]_vars
  PROVE  AnswerInv'
PROOF
<1> SUFFICES ASSUME NEW u \in Tasks, u.op \in Queries PROVE Asked(u)'
  BY DEF AnswerInv
<1>1. TypeOK /\ Asked(u)
  BY DEF IInv, AnswerInv
<1>2. ASSUME UNCHANGED vars PROVE Asked(u)'
  BY <1>1, <1>2, AskedAsBefore DEF vars, config, lists, AsBefore
<1>3. ASSUME NEW s \in Stores, New(s) PROVE Asked(u)'
  BY <1>1, <1>3, AskedAsBefore DEF New, lists, AsBefore
<1>4. ASSUME Edit PROVE Asked(u)'
  BY <1>1, <1>4, EditAsks
<1>5. ASSUME NEW t \in Tasks, Call(t) \/ Step(t) PROVE Asked(u)'
  <2>1. CASE t # u
    BY <1>1, <1>5, <2>1, OthersAsBefore, AskedAsBefore
  <2>2. CASE t = u
    <3>1. ~IsStream(u)
      BY DEF Queries, IsStream
    <3>2. pos[u] \notin {"reading", "closing"}
      BY <3>1 DEF IInv, Placed
    <3>3. ~OpenStreams(u) /\ ~ReadFails(u) /\ ~Close(u) /\ \A n \in Sizes : ~Read(u, n)
      BY <3>1, <3>2 DEF OpenStreams, ReadFails, Close, Read
    <3>4. Call(u) \/ OpenPool(u) \/ Prepare(u) \/ Query(u) \/ Fail(u)
      BY <1>5, <2>2, <3>3 DEF Step, Proceed
    <3> QED
      BY <1>1, <3>4, CallAsks, OpenPoolAsks, PrepareAsks, QueryAsks, FailAsks
  <2> QED
    BY <2>1, <2>2
<1> QED
  BY <1>2, <1>3, <1>4, <1>5 DEF Next, Idle

\* Whoever edits the code lists meanwhile, whatever fails, in whatever order
\* rows come and whatever the code lists hold: a query is answered with what
\* they held at some moment of the call, and ErrNotFound, ErrMultipleFound and
\* errors are answered only where RightAnswer says so (the queries of
\* neptune/codelist.go, neptune/codelistsdataset.go and neo4j/codelists.go,
\* with the mappers).
THEOREM QueriesAreAnsweredRightly == Spec => []AnswersAreRight
PROOF
<1>1. Init => AnswerInv
  BY DEF Init, AnswerInv, Asked, Ended
<1>2. IInv /\ AnswerInv /\ [Next]_vars => AnswerInv'
  BY AnswerStep
<1>3. AnswerInv => AnswersAreRight
  BY DEF AnswerInv, Asked, AnswersAreRight
<1> QED
  BY <1>1, <1>2, <1>3, Invariance, PTL DEF Spec
================================================================================
