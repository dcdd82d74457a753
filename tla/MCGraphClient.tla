----------------------------- MODULE MCGraphClient -----------------------------
(***************************************************************************)
(* Small instances of GraphClient for TLC: one or two or three calls at a  *)
(* time, a pool with one connection.                                       *)
(***************************************************************************)
EXTENDS GraphClient

Edge(list, code, label, order) == [list |-> list, code |-> code, label |-> label, order |-> order]

OneOff == <<"list", "one-off", 1>>
Second == <<"list", "second", 1>>
Twin   == <<"list", "one-off", 2>>

Dataset(id, edition, version, published, codes) ==
  [id |-> id, edition |-> edition, version |-> version, published |-> published, codes |-> codes]

Datasets ==
  { Dataset("cpih", "time-series", 1, TRUE, {1}), Dataset("cpih", "time-series", 2, TRUE, {1, 2}),
    Dataset("cpih", "time-series", 3, FALSE, {1}), Dataset("cpih", "2019", 1, TRUE, {1}),
    Dataset("ashe", "2019", 1, TRUE, {2}) }

Holds(nodes, edges, datasets) ==
  [codeLists |-> nodes, geography |-> nodes \cap {Second}, usedBy |-> edges, datasets |-> datasets]

\* Codes with orders that are not those of their values, and without orders; a
\* second edition; a duplicate; nothing.
Ordered   == { Edge(OneOff, 1, "age", 3), Edge(OneOff, 2, "age", 1), Edge(OneOff, 3, "age", 2) }
Unordered == { Edge(OneOff, 1, "age", 0), Edge(OneOff, 2, "age", 0) }

MCDatabases ==
  { Holds({OneOff}, Ordered, Datasets),
    Holds({OneOff}, Unordered, Datasets \ { d \in Datasets : d.version = 2 }),
    Holds({OneOff, Second}, Unordered \cup {Edge(Second, 1, "age", 2), Edge(Second, 3, "age", 1)}, Datasets),
    Holds({OneOff, Twin}, Unordered \cup {Edge(Twin, 1, "years", 0)},
           { d \in Datasets : d.edition = "time-series" }),
    Holds({}, {}, {}) }

Query1(op, code, codes, filtered) ==
  [op |-> op, q |-> [id |-> "list", edition |-> "one-off", code |-> code, codes |-> codes, filtered |-> filtered]]
Ask(op) == Query1(op, 1, <<1, 2>>, FALSE)

Stream(header, rows, limit) ==
  [op |-> "StreamCSVRows", q |-> [header |-> header, rows |-> rows, limit |-> limit]]

Long    == Stream(<<1, 2, 3>>, << <<4>>, <<5, 6, 7, 8>> >>, -1)
Limited == Stream(<<1, 2>>, << <<3, 4>>, <<5>> >>, 1)
NoRows  == Stream(<<1, 2>>, << >>, -1)
Nothing == Stream(<< >>, << >>, -1)

Ping == Ask("Checker")

MCWorkloads ==
  { { Ask(op) } : op \in { "GetCodeList", "GetEditions", "GetEdition", "CountCodes",
                          "GetCode", "GetCodesOrder" } }
  \cup { { Query1("GetCodeLists", 1, <<>>, b) } : b \in BOOLEAN }
  \cup { { Query1("GetCodesOrder", 1, <<1, 2, 3>>, FALSE) }, { Query1("GetCodesOrder", 1, <<1, 1>>, FALSE) },
         { Query1("GetCodesOrder", 1, <<>>, FALSE) },
         { Ask("GetCodes"), Ping }, { Ask("GetCodeDatasets") }, { Ask("GetCode"), Ask("GetEdition") },
         { Long }, { Limited, NoRows }, { Limited, Ask("GetEdition") }, { Nothing, Ping } }
================================================================================
