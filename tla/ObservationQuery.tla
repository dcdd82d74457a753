--------------------------- MODULE ObservationQuery ---------------------------
(***************************************************************************)
(* The vertices and edges of one imported instance, and the query that     *)
(* StreamCSVRows sends for a filter (neptune/observation.go,               *)
(* observation/filter.go).  Vertices have IDs chosen by the program, so    *)
(* none exists twice; an edge is <<from, to, k>>, k telling parallel edges *)
(* apart.  A filter is a sequence of sets of dimension options, one per    *)
(* dimension, each with a name.                                            *)
(***************************************************************************)
EXTENDS Integers, Sequences, FiniteSets

EmptyGraph == [vertices |-> {}, edges |-> {}, properties |-> {}]

AddVertices(g, V) == [g EXCEPT !.vertices = @ \cup V]

Between(g, v, V) == { e \in g.edges : e[1] = v /\ e[2] \in V }

\* addE: one more edge, whether or not there is one already.
AddEdges(g, pairs) ==
  [g EXCEPT !.edges = @ \cup
     { <<p[1], p[2], Cardinality(Between(g, p[1], {p[2]})) + 1>> : p \in pairs }]

\* drop() of vertices takes their edges with it.
DropVertices(g, V) ==
  [g EXCEPT !.vertices = @ \ V,
            !.edges = { e \in @ : e[1] \notin V /\ e[2] \notin V }]

------------------------------------------------------------------------------
IsEmpty(filter) == \A i \in DOMAIN filter : filter[i] = {}

buildObservationsQuery_countingAll(filter) ==
  LET full == { i \in DOMAIN filter : filter[i] # {} }
  IN  [ all        |-> IsEmpty(filter),
        first      |-> IF 1 \in full THEN filter[1] ELSE {},
        additional |-> UNION { filter[i] : i \in full \ {1} },
        dimensions |-> Len(filter) - 1 ]

\* The first dimension selects, the others restrict.  Without options for the
\* first one there is no source to select from.
buildObservationsQuery(filter) ==
  LET full == { i \in DOMAIN filter : filter[i] # {} }
  IN  [ all        |-> IsEmpty(filter),
        first      |-> IF 1 \in full THEN filter[1] ELSE {},
        additional |-> UNION { filter[i] : i \in full \ {1} },
        dimensions |-> Cardinality(full \ {1}) ]

IsQuery(q) == q.all \/ q.first # {}

\* How many rows query q has for observation o.
Rows(g, q, o) ==
  CASE q.all -> Cardinality({o} \cap g.vertices)
    [] ~q.all /\ (q.dimensions = 0 \/ Cardinality(Between(g, o, q.additional)) = q.dimensions) ->
         Cardinality(Between(g, o, q.first))
    [] OTHER -> 0
==============================================================================
