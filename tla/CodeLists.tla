------------------------------ MODULE CodeLists ------------------------------
(***************************************************************************)
(* The code list queries of both drivers: neptune/codelist.go and          *)
(* codelistsdataset.go, neo4j/codelists.go and the mappers of its rows.    *)
(*                                                                         *)
(* db is what the database holds: codeLists, the code list nodes           *)
(* <<listID, edition, k>>, one for each edition (k tells duplicates        *)
(* apart); geography, those with the property a filter asks for; usedBy,   *)
(* the edges [list, code, label, order] from codes to code lists (order is *)
(* 0 where there is none); and datasets, [id, edition, version, published, *)
(* codes] with the codes that are inDataset.                               *)
(*                                                                         *)
(* An answer is [status, value]; a statement reads the database as a       *)
(* whole.  The order of rows that no order() asks for is arbitrary.        *)
(***************************************************************************)
EXTENDS Integers, FiniteSets, Sequences, SequencesExt, FiniteSetsExt

Ok(value)      == [status |-> "ok", value |-> value]
NotFound       == [status |-> "ErrNotFound", value |-> {}]
MultipleFound  == [status |-> "ErrMultipleFound", value |-> {}]
NotImplemented == [status |-> "ErrNotImplemented", value |-> {}]
Failed         == [status |-> "error", value |-> {}]

Lists(db, id)         == { v \in db.codeLists : v[1] = id }
Edition(db, id, e)    == { v \in Lists(db, id) : v[2] = e }
UsedBy(db, lists)     == { u \in db.usedBy : u.list \in lists }
CodeEdges(db, q)      == UsedBy(db, Edition(db, q.id, q.edition))
Published(db, code)   == { d \in db.datasets : d.published /\ code \in d.codes }

\* One result for every node: the ID of a list with several editions is there
\* as often.
PerNode(vs, i) == [x \in { v[i] : v \in vs } |-> Cardinality({ v \in vs : v[i] = x })]

------------------------------------------------------------------------------
(* Neptune.                                                                *)

\* The number of what is asked for has to be one.
exactlyOne(n, value) ==
  IF n = 0 THEN NotFound ELSE IF n > 1 THEN MultipleFound ELSE Ok(value)

\* No list is no error.
GetCodeLists(db, filtered) == Ok(PerNode(IF filtered THEN db.geography ELSE db.codeLists, 1))

\* CodeListExists counts nodes, and so editions.
GetCodeList(db, q) == exactlyOne(Cardinality(Lists(db, q.id)), {q.id})

GetEditions(db, q) ==
  IF Lists(db, q.id) = {} THEN NotFound ELSE Ok(PerNode(Lists(db, q.id), 2))

GetEdition(db, q) == exactlyOne(Cardinality(Edition(db, q.id, q.edition)), {q.edition})

CountCodes(db, q) == Ok(Cardinality(CodeEdges(db, q)))

GetCode(db, q) ==
  exactlyOne(Cardinality({ u \in CodeEdges(db, q) : u.code = q.code }), {q.code})

\* The flat list a query answers with, for the records in the order rs.
Flat(rs) == FlattenSeq(rs)

\* A list that cannot be cut into records of that size is an error.
createRecords(values, valuesPerRecord) ==
  IF Len(values) % valuesPerRecord # 0 THEN Failed
  ELSE Ok([ i \in 1..(Len(values) \div valuesPerRecord) |->
              SubSeq(values, (i - 1) * valuesPerRecord + 1, i * valuesPerRecord) ])

\* The first statement of GetCodes.
CountOrderedEdges(db, q) == Cardinality({ u \in CodeEdges(db, q) : u.order > 0 })

\* order().by(key, asc): any order in which the keys do not decrease.  An edge
\* without the property that is ordered by fails the traversal.
OrderedBy(us, key) ==
  { s \in SetToSeqs(us) : \A i \in 1..(Len(s) - 1) : key[s[i]] <= key[s[i + 1]] }

ByOrder(us) == [u \in us |-> u.order]
ByValue(us) == [u \in us |-> u.code]

createCodes(records) == [ i \in DOMAIN records |-> [label |-> records[i][1], code |-> records[i][2]] ]

\* The second statement of GetCodes, by the order or by the value of the codes.
GetCodes(db, q, hasOrder) ==
  LET us       == CodeEdges(db, q)
      sorted   == OrderedBy(us, IF hasOrder THEN ByOrder(us) ELSE ByValue(us))
      values   == { Flat([ i \in DOMAIN s |-> <<s[i].label, s[i].code>> ]) : s \in sorted }
  IN  IF us = {} THEN {NotFound}
      ELSE IF hasOrder /\ \E u \in us : u.order = 0 THEN {Failed}
      ELSE { LET records == createRecords(vs, 2)
             IN  IF records.status = "ok" THEN Ok(createCodes(records.value)) ELSE records : vs \in values }

\* GetUsedByEdgesFromNodeIDs knows no edition.
AskedEdges(db, q) == { u \in UsedBy(db, Lists(db, q.id)) : u.code \in Range(q.codes) }

\* The edges come in n responses, only a single one of which may be empty, and
\* each response is compared with the number of codes that are asked for.  Of
\* edges of one code the last one read counts.
GetCodesOrder(db, q, n) ==
  LET us       == AskedEdges(db, q)
      batches  == { f \in [us -> 1..n] : n = 1 \/ Range(f) = 1..n }
      short(f) == \E i \in 1..n : Cardinality({ u \in us : f[u] = i }) < Len(q.codes)
      orders   == { m \in [{ u.code : u \in us } -> { u.order : u \in us }] :
                      \A c \in DOMAIN m : \E u \in us : u.code = c /\ u.order = m[c] }
  IN  UNION { IF short(f) THEN {NotFound} ELSE { Ok(m) : m \in orders } : f \in batches }

buildLatestVersionMaps_last(records) ==
  FoldLeft(LAMBDA latest, r :
             [x \in DOMAIN latest \cup {<<r[4], r[1], r[2]>>} |->
                IF x = <<r[4], r[1], r[2]>> THEN r[3] ELSE latest[x]],
           [x \in {} |-> 0], records)

\* <<datasetID, dimension, edition>> to version
buildLatestVersionMaps(records) ==
  FoldLeft(LAMBDA latest, r :
             LET k == <<r[4], r[1], r[2]>>
             IN  IF k \notin DOMAIN latest \/ latest[k] < r[3]
                 THEN [x \in DOMAIN latest \cup {k} |-> IF x = k THEN r[3] ELSE latest[x]]
                 ELSE latest,
           [x \in {} |-> 0], records)

buildResponse(did2Dim) == { <<k[1], k[2], k[3], did2Dim[k]>> : k \in DOMAIN did2Dim }

\* A record for every usedBy edge of the code and every published dataset.
GetCodeDatasets(db, q) ==
  LET us     == { u \in CodeEdges(db, q) : u.code = q.code }
      values == { Flat(rs) : rs \in SetToSeqs({ <<u.label, d.edition, d.version, d.id>>
                                               : u \in us, d \in Published(db, q.code) }) }
  IN  { LET records == createRecords(vs, 4)
        IN  IF records.status = "ok" THEN Ok(buildResponse(buildLatestVersionMaps(records.value)))
            ELSE records : vs \in values }

------------------------------------------------------------------------------
(* neo4j.                                                                  *)

\* Rows to an answer; of several rows where one is expected the first is kept,
\* and the error "non unique results" is WithMessage(nil), which is none.
read(rows, mapped) == IF rows = {} THEN NotFound ELSE Ok(mapped)

readSingle(mapped) == IF mapped = {} THEN {NotFound} ELSE { Ok(m) : m \in mapped }

\* The mappers: what is kept of rows, and how often it is there.
CodeListIDs(rows) == PerNode(rows, 1)
Editions(rows)    == PerNode(rows, 2)
Codes(rows)       ==
  LET model(u) == [label |-> u.label, code |-> u.code]
  IN  [x \in { model(u) : u \in rows } |-> Cardinality({ u \in rows : model(u) = x })]

\* distinct labels: one row for the editions of a list that have the same ones.
NeoGetCodeLists(db, filtered) ==
  LET rows == { <<v[1], v \in db.geography>> : v \in IF filtered THEN db.geography ELSE db.codeLists }
  IN  read(rows, CodeListIDs(rows))

NeoGetCodeList(db, q) == readSingle({ {q.id} : v \in Lists(db, q.id) })

NeoGetEditions(db, q) == read(Lists(db, q.id), Editions(Lists(db, q.id)))

NeoGetEdition(db, q) == readSingle({ {v[2]} : v \in Edition(db, q.id, q.edition) })

NeoGetCodes(db, q) == read(CodeEdges(db, q), Codes(CodeEdges(db, q)))

NeoGetCode(db, q) ==
  readSingle({ {u.code} : u \in { w \in CodeEdges(db, q) : w.code = q.code } })

\* A dataset has one entry, with the label of its first row (mapper.CodesDatasets).
CodesDatasets(rows) ==
  FoldLeft(LAMBDA datasets, r :
             LET known == r.d.id \in DOMAIN datasets
                 old   == IF known THEN datasets[r.d.id] ELSE [label |-> r.label, versions |-> {}]
             IN  [x \in DOMAIN datasets \cup {r.d.id} |->
                    IF x = r.d.id THEN [old EXCEPT !.versions = @ \cup {<<r.d.edition, r.d.version>>}]
                    ELSE datasets[x]],
           [x \in {} |-> {}], rows)

\* The largest number, if it is positive.
max(input) == Max(input \cup {0})

LatestVersions(id, data) ==
  { <<id, data.label, e, max({ v[2] : v \in { w \in data.versions : w[1] = e } })>>
    : e \in { v[1] : v \in data.versions } }

NeoGetCodeDatasets(db, q) ==
  LET us   == { u \in CodeEdges(db, q) : u.code = q.code }
      rows == { [d |-> d, label |-> u.label] : u \in us, d \in Published(db, q.code) }
      answer(rs) == LET m == CodesDatasets(rs)
                    IN  Ok(UNION { LatestVersions(id, m[id]) : id \in DOMAIN m })
  IN  IF rows = {} THEN {NotFound} ELSE { answer(rs) : rs \in SetToSeqs(rows) }
==============================================================================
