------------------------------ MODULE RowStreams ------------------------------
(***************************************************************************)
(* Streams of rows: observation/reader.go, composite_row_reader.go and     *)
(* neo4jdriver/row_reader.go.  A row is a sequence of bytes.  A stream of  *)
(* the database (external) has the rows that are left and is open or not.  *)
(*                                                                         *)
(* A row reader has streams that it reads one after the other, two for     *)
(* Neptune and one for neo4j, a buffer for the rest of a row, and the      *)
(* counters of the Reader around it.                                       *)
(***************************************************************************)
EXTENDS Integers, Sequences

OpenStream(rows) == [rows |-> rows, open |-> TRUE]

NewReader(streams) ==
  [ streams |-> streams, readerIndex |-> 1, rowsRead |-> 0, buffer |-> <<>>,
    eof |-> FALSE, totalBytesRead |-> 0, obsCount |-> 0 ]

Newline == 0

\* What a row reader returns, and itself afterwards.
Result(row, err, r) == [row |-> row, err |-> err, reader |-> r]

\* The row the stream with number i has next.
TakeRow(r, i) == [r EXCEPT !.streams[i].rows = Tail(@)]

\* BoltRowReader.Read: the first row is the header.
BoltRead(r) ==
  LET rows == r.streams[1].rows
  IN  IF rows # <<>>
      THEN Result(Append(Head(rows), Newline), "none", [TakeRow(r, 1) EXCEPT !.rowsRead = @ + 1])
      ELSE Result(<<>>, CASE r.rowsRead = 0 -> "ErrNoInstanceFound"
                          [] r.rowsRead = 1 -> "ErrNoResultsFound"
                          [] OTHER -> "EOF", r)

\* CompositeRowReader.Read: a stream at its end is left for the next one.
CompositeRead_firstOnly(r) ==
  LET i == r.readerIndex
  IN  IF r.streams[i].rows # <<>>
      THEN Result(Head(r.streams[i].rows), "none", TakeRow(r, i))
      ELSE Result(<<>>, "EOF", [r EXCEPT !.readerIndex = i + 1])

CompositeRead(r) ==
  LET next == { i \in r.readerIndex..Len(r.streams) :
                  /\ r.streams[i].rows # <<>>
                  /\ \A j \in r.readerIndex..(i - 1) : r.streams[j].rows = <<>> }
      i    == CHOOSE i \in next : TRUE
  IN  IF next # {}
      THEN Result(Head(r.streams[i].rows), "none", TakeRow([r EXCEPT !.readerIndex = i], i))
      ELSE Result(<<>>, "EOF", [r EXCEPT !.readerIndex = Len(r.streams) + 1])

\* The end counts as a row.
Buffer(res) ==
  [res.reader EXCEPT !.buffer = res.row, !.eof = (res.err = "EOF"), !.obsCount = @ + 1]

Smaller(n, m) == IF n < m THEN n ELSE m

\* Reader.Read into an array of size n, once the buffer holds (the rest of) a
\* row: the bytes that are copied, and the error.
CopyBuffer(r, n) ==
  LET copied == Smaller(n, Len(r.buffer))
  IN  [ bytes  |-> SubSeq(r.buffer, 1, copied),
        err    |-> IF Len(r.buffer) <= n /\ r.eof THEN "EOF" ELSE "none",
        reader |-> [r EXCEPT !.buffer = SubSeq(@, copied + 1, Len(@)),
                             !.totalBytesRead = @ + copied] ]

\* CompositeRowReader.Close: the first error ends it; fails is the stream that
\* cannot be closed, 0 for none.
CompositeClose(r, fails) ==
  [r EXCEPT !.streams = [i \in DOMAIN @ |->
     IF fails = 0 \/ i < fails THEN [@[i] EXCEPT !.open = FALSE] ELSE @[i]]]
==============================================================================
