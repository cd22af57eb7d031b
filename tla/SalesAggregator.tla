-------------------------- MODULE SalesAggregator --------------------------
(***************************************************************************)
(* Summing the line items of one financial date into one row per product   *)
(* (sync/SalesAggregator.cpp).  A step is one turn of the loop over the    *)
(* records of the date; where they come from is in SalesPages.             *)
(*                                                                         *)
(* ReplaceName is a faulty variant of Merge, and IndexNextRow one of       *)
(* FirstOfProduct; no action uses them.                                    *)
(***************************************************************************)
EXTENDS Integers, SequencesExt

CONSTANTS Apps,       \* products; 0 stands for "no product"
          Units,      \* net units of a line item
          Names,      \* product names, the empty one not included
          MaxRecords  \* bound on the line items of the date

ASSUME AppsAssumption == Apps \subseteq Int \ {0}
ASSUME LineUnitsAssumption == Units \subseteq Int
ASSUME MaxRecordsAssumption == MaxRecords \in Nat

VARIABLES records,     \* the items the loop has seen
          rows,
          indexByApp   \* position of a product's row

rowVars == <<records, rows, indexByApp>>

NoName == ""

(* "counted": line_item_type is Package and package_sale_type is Steam.    *)
(* The two gross counters are summed like the net units.                   *)
Records == [app : Apps \cup {0}, counted : BOOLEAN, units : Units,
            name : Names \cup {NoName}]

RowsInit ==
  /\ records = <<>>
  /\ rows = <<>>
  /\ indexByApp = [a \in {} |-> 0]

Take(rec) ==
  /\ Len(records) < MaxRecords
  /\ records' = Append(records, rec)

IsCounted(rec) == rec.counted /\ rec.app # 0

Skip(rec) ==
  /\ Take(rec)
  /\ ~IsCounted(rec)
  /\ UNCHANGED <<rows, indexByApp>>

IndexNextRow(rec) ==
  /\ Take(rec)
  /\ IsCounted(rec)
  /\ rec.app \notin DOMAIN indexByApp
  /\ rows' = Append(rows, [app |-> rec.app, units |-> rec.units,
                           name |-> rec.name])
  /\ indexByApp' = [a \in DOMAIN indexByApp \cup {rec.app} |->
                      IF a = rec.app THEN Len(rows) + 2 ELSE indexByApp[a]]

FirstOfProduct(rec) ==
  /\ Take(rec)
  /\ IsCounted(rec)
  /\ rec.app \notin DOMAIN indexByApp
  /\ rows' = Append(rows, [app |-> rec.app, units |-> rec.units,
                           name |-> rec.name])
  /\ indexByApp' = [a \in DOMAIN indexByApp \cup {rec.app} |->
                      IF a = rec.app THEN Len(rows) + 1 ELSE indexByApp[a]]

ReplaceName(rec) ==
  /\ Take(rec)
  /\ IsCounted(rec)
  /\ rec.app \in DOMAIN indexByApp
  /\ LET i == indexByApp[rec.app]
     IN rows' = [rows EXCEPT ![i].units = @ + rec.units, ![i].name = rec.name]
  /\ UNCHANGED indexByApp

Merge(rec) ==
  /\ Take(rec)
  /\ IsCounted(rec)
  /\ rec.app \in DOMAIN indexByApp
  /\ LET i == indexByApp[rec.app]
     IN rows' = [rows EXCEPT
                   ![i].units = @ + rec.units,
                   ![i].name = IF rec.name # NoName THEN rec.name ELSE @]
  /\ UNCHANGED indexByApp

-----------------------------------------------------------------------------
(* Every variable keeps its type; the index of a product names its row.    *)
RowsTypeOK ==
  /\ records \in Seq(Records)
  /\ rows \in Seq([app : Apps, units : Int, name : Names \cup {NoName}])
  /\ DOMAIN indexByApp \subseteq Apps
  /\ \A a \in DOMAIN indexByApp : indexByApp[a] \in DOMAIN rows

(* The positions of a product's items, and of those that give a name.      *)
Of(app) == {j \in DOMAIN records : IsCounted(records[j]) /\ records[j].app = app}
Named(app) == {j \in Of(app) : records[j].name # NoName}

(* The rows are one per product with an item that counts, never two of the *)
(* same product (the table's primary key), and each has the sum of its     *)
(* product's units and the last name that an item of the product gave,     *)
(* however the items of several products are mixed.                        *)
RowsAreSums ==
  /\ {rows[i].app : i \in DOMAIN rows} = {a \in Apps : Of(a) # {}}
  /\ \A i, j \in DOMAIN rows : rows[i].app = rows[j].app => i = j
  /\ \A i \in DOMAIN rows :
       LET app == rows[i].app
       IN /\ rows[i].units = SumFunction([j \in Of(app) |-> records[j].units])
          /\ rows[i].name = IF Named(app) = {} THEN NoName
                            ELSE records[Max(Named(app))].name
=============================================================================
