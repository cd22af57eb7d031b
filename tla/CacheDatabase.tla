--------------------------- MODULE CacheDatabase ---------------------------
(***************************************************************************)
(* The local cache as a file of SQL tables (storage/Database.cpp,          *)
(* storage/Migrations.cpp).  A writing call is a list of statements run    *)
(* between BEGIN IMMEDIATE and COMMIT; the engine (external) refuses a     *)
(* statement that breaks a constraint of the schema, and any statement may *)
(* fail because of the disk.  The user interface reads committed data      *)
(* only, from a connection of its own.                                     *)
(*                                                                         *)
(* A table is a set of rows.  The mark and the times of sync_state are     *)
(* only "set or not"; units are net units, the other counters are stored   *)
(* and summed in the same way.                                             *)
(*                                                                         *)
(* InsertFirst, DayAfterNewest, ExecuteAtOnce, CommitOnError and           *)
(* QueryRangeOpenEnd are faulty variants of the definition that follows    *)
(* each; no action uses them.                                              *)
(***************************************************************************)
EXTENDS Integers, SequencesExt

CONSTANTS Apps,   \* products (their app ids)
          Dates,  \* financial dates; their order is the numeric one
          Units,  \* net units of a row
          MaxRows \* bound on the rows of one date

ASSUME StoredDatesAssumption == Dates \subseteq Nat \ {0}
ASSUME NewestAssumption ==
  \A S \in SUBSET Dates : S # {} => \E d \in S : \A e \in S : e <= d
ASSUME UnitsAssumption == Units \subseteq Int
ASSUME MaxRowsAssumption == MaxRows \in Nat

VARIABLES file,     \* the committed database
          conn,     \* the worker's connection; "V1" and "V2" are the two steps
            \* of ApplyMigrations
          call,     \* the call being executed
          tx,       \* the database as the open transaction sees it
          todo,     \* the call's statements still to run
          answer    \* what the last call returned

vars == <<file, conn, call, tx, todo, answer>>

NoTx == [version |-> -1]

SaleRows == [date : Dates, app : Apps, units : Units]

(* "version" is schema_version, 0 when the table is absent; "column" says  *)
(* that sync_state has the column backfill_cursor.                         *)
Files ==
  [products : SUBSET Apps, sales : SUBSET SaleRows, mark : BOOLEAN,
   cursor : Dates \cup {0}, synced : BOOLEAN, version : 0..2,
   column : BOOLEAN]

PrimaryKey(sales) ==
  \A r, s \in sales : r.date = s.date /\ r.app = s.app => r = s

(* A file that does not exist yet, and the files of the first version: all *)
(* that its schema and the keys of its tables allow.                       *)
NewFile == [products |-> {}, sales |-> {}, mark |-> FALSE, cursor |-> 0,
            synced |-> FALSE, version |-> 0, column |-> FALSE]

OldFiles ==
  {f \in Files :
     /\ f.version = 1 /\ ~f.column /\ f.cursor = 0
     /\ IsFiniteSet(f.products) /\ IsFiniteSet(f.sales)
     /\ PrimaryKey(f.sales)
     /\ \A r \in f.sales : r.app \in f.products}

(* The calls; AggregateDate never returns two rows of one product.         *)
Rows(n) == {rows \in [1..n -> [app : Apps, units : Units]] :
              \A i, j \in 1..n : rows[i].app = rows[j].app => i = j}

Calls ==
  [op : {"replace"}, date : Dates, rows : UNION {Rows(n) : n \in 0..MaxRows}]
    \cup [op : {"clear", "mark", "synced"}]
    \cup [op : {"cursor"}, date : Dates \cup {0}]

Cache == INSTANCE CacheTable WITH
  table <- [products |-> file.products, sales |-> file.sales,
            mark |-> file.mark, cursor |-> file.cursor,
            synced |-> file.synced],
  answer <- IF answer \in {"disk", "constraint"} THEN "failed" ELSE answer

NoCall == [op |-> "none"]

Init ==
  /\ file \in {NewFile} \cup OldFiles
  /\ conn = "Closed"
  /\ call = NoCall
  /\ tx = NoTx
  /\ todo = <<>>
  /\ answer = "none"

-----------------------------------------------------------------------------
(* The statements of a call.                                               *)

SaleRow(date, row) == [date |-> date, app |-> row.app, units |-> row.units]

InsertFirst(date, row) ==
  <<[do |-> "insert", row |-> SaleRow(date, row)],
    [do |-> "upsert", app |-> row.app]>>

UpsertThenInsert(date, row) ==
  <<[do |-> "upsert", app |-> row.app],
    [do |-> "insert", row |-> SaleRow(date, row)]>>

(* The date is deleted, then row k has the statements 2 k and 2 k + 1.     *)
ReplaceDate(date, rows) ==
  [k \in 1..2 * Len(rows) + 1 |->
     IF k = 1 THEN [do |-> "delete date", date |-> date]
              ELSE UpsertThenInsert(date, rows[k \div 2])[1 + (k % 2)]]

ClearAllSales == <<[do |-> "delete sales"], [do |-> "delete products"],
                   [do |-> "reset state"]>>

SchemaV1 == <<[do |-> "create tables"], [do |-> "version", to |-> 1]>>

SchemaV2 == <<[do |-> "add column"], [do |-> "seed cursor"],
              [do |-> "version", to |-> 2]>>

Statements(c) ==
  CASE c.op = "replace" -> ReplaceDate(c.date, c.rows)
    [] c.op = "clear" -> ClearAllSales
    [] c.op = "create" -> SchemaV1
    [] c.op = "upgrade" -> SchemaV2
    [] OTHER -> <<[do |-> "set column", call |-> c]>>

(* The statements the engine refuses: a second table or column of a name,  *)
(* a second row of a key, a row that refers to no product, a product that  *)
(* a row refers to.                                                        *)
Refused(s, t) ==
  \/ s.do = "create tables" /\ t.version # 0
  \/ s.do = "add column" /\ t.column
  \/ s.do = "insert"
       /\ (s.row.app \notin t.products
             \/ \E r \in t.sales : r.date = s.row.date /\ r.app = s.row.app)
  \/ s.do = "delete products" /\ t.sales # {}

DayAfterNewest(sales) ==
  1 + CHOOSE d \in {r.date : r \in sales} : \A r \in sales : r.date <= d

NewestDate(sales) ==
  CHOOSE d \in {r.date : r \in sales} : \A r \in sales : r.date <= d

SeedCursor(t) ==
  IF ~t.mark /\ t.sales # {} THEN [t EXCEPT !.cursor = NewestDate(t.sales)]
                             ELSE t

Set(c, t) ==
  CASE c.op = "mark" -> [t EXCEPT !.mark = TRUE]
    [] c.op = "synced" -> [t EXCEPT !.synced = TRUE]
    [] c.op = "cursor" -> [t EXCEPT !.cursor = c.date]

Run(s, t) ==
  CASE s.do = "delete date" ->
         [t EXCEPT !.sales = {r \in @ : r.date # s.date}]
    [] s.do = "upsert" -> [t EXCEPT !.products = @ \cup {s.app}]
    [] s.do = "insert" -> [t EXCEPT !.sales = @ \cup {s.row}]
    [] s.do = "delete sales" -> [t EXCEPT !.sales = {}]
    [] s.do = "delete products" -> [t EXCEPT !.products = {}]
    [] s.do = "reset state" ->
         [t EXCEPT !.mark = FALSE, !.synced = FALSE, !.cursor = 0]
    [] s.do = "add column" -> [t EXCEPT !.column = TRUE]
    [] s.do = "seed cursor" -> SeedCursor(t)
    [] s.do = "version" -> [t EXCEPT !.version = s.to]
    [] s.do = "set column" -> Set(s.call, t)
    [] OTHER -> t

-----------------------------------------------------------------------------
(* The connection.                                                         *)

(* sqlite3_open_v2 and the pragmas.                                        *)
Open ==
  /\ conn = "Closed"
  /\ conn' = "Opening"
  /\ UNCHANGED <<file, call, tx, todo, answer>>

Request(c) ==
  /\ call = NoCall
  /\ call' = c
  /\ todo' = Statements(c)
  /\ answer' = "none"
  /\ UNCHANGED <<file, conn, tx>>

(* GetSchemaVersion, which ApplyMigrations calls once: a read that fails   *)
(* says 0, as if the table were absent.                                    *)
ReadVersion ==
  /\ conn = "Opening"
  /\ \E version \in {file.version, 0} :
       conn' = CASE version = 0 -> "V1" [] version = 1 -> "V2"
                 [] version = 2 -> "Open"
  /\ UNCHANGED <<file, call, tx, todo, answer>>

Migrate ==
  \/ conn = "V1" /\ Request([op |-> "create"])
  \/ conn = "V2" /\ Request([op |-> "upgrade"])

Write(c) == conn = "Open" /\ Request(c)

(* BEGIN IMMEDIATE; a single update runs in a transaction of its own.      *)
Begin ==
  /\ call # NoCall
  /\ tx = NoTx
  /\ tx' = file
  /\ UNCHANGED <<file, conn, call, todo, answer>>

Return(result) ==
  /\ call' = NoCall
  /\ tx' = NoTx
  /\ todo' = <<>>
  /\ answer' = result

CommitOnError(result) ==
  /\ call # NoCall
  /\ file' = IF tx = NoTx THEN file ELSE tx
  /\ Return(result)
  /\ conn' = IF conn = "Open" THEN "Open" ELSE "Closed"

(* A failing BEGIN leaves no transaction, a failing statement is followed  *)
(* by ROLLBACK, and the engine rolls back a commit it cannot write.  A     *)
(* migration that fails closes the connection.                             *)
Rollback(result) ==
  /\ call # NoCall
  /\ Return(result)
  /\ conn' = IF conn = "Open" THEN "Open" ELSE "Closed"
  /\ UNCHANGED file

ExecuteAtOnce ==
  /\ tx # NoTx
  /\ todo # <<>>
  /\ IF Refused(Head(todo), tx)
     THEN Rollback("constraint")
     ELSE /\ tx' = Run(Head(todo), tx)
          /\ file' = tx'
          /\ todo' = Tail(todo)
          /\ UNCHANGED <<conn, call, answer>>

(* The next statement, which the engine runs or refuses.                   *)
Execute ==
  /\ tx # NoTx
  /\ todo # <<>>
  /\ IF Refused(Head(todo), tx)
     THEN Rollback("constraint")
     ELSE /\ tx' = Run(Head(todo), tx)
          /\ todo' = Tail(todo)
          /\ UNCHANGED <<file, conn, call, answer>>

Commit ==
  /\ tx # NoTx
  /\ todo = <<>>
  /\ file' = tx
  /\ Return("done")
  /\ conn' = IF conn = "V1" THEN "V2" ELSE "Open"

DiskError == Rollback("disk")

(* The process ends, between two statements or between two calls.          *)
Crash ==
  /\ conn # "Closed"
  /\ Return("none")
  /\ conn' = "Closed"
  /\ UNCHANGED file

Next ==
  \/ Open \/ ReadVersion \/ Migrate
  \/ \E c \in Calls : Write(c)
  \/ Begin \/ Execute \/ Commit \/ DiskError \/ Crash

Spec == Init /\ [][Next]_vars

-----------------------------------------------------------------------------
(* What the user interface reads of the committed data.                    *)

Sum(rows) == SumFunction([r \in rows |-> r.units])

Between(a, b) == {r \in file.sales : a <= r.date /\ r.date <= b}

BeforeEnd(a, b) == {r \in file.sales : a <= r.date /\ r.date < b}

(* GROUP BY product of the rows that join with a product.                  *)
Grouped(rows) ==
  {[app |-> a, units |-> Sum({r \in rows : r.app = a})] :
     a \in {r.app : r \in rows} \cap file.products}

(* The view of one day lists every product.                                *)
QueryDate(d) ==
  {[app |-> a, units |-> Sum({r \in Between(d, d) : r.app = a})] :
     a \in file.products}

QueryRangeOpenEnd(a, b) == Grouped(BeforeEnd(a, b))

QueryRange(a, b) == Grouped(Between(a, b))
QueryLifetime == Grouped(file.sales)

SumForDate(d) == Sum({r \in file.sales : r.date = d})
SumForRange(a, b) == Sum(Between(a, b))
SumLifetime == Sum(file.sales)

-----------------------------------------------------------------------------
(* Every variable keeps its type.                                          *)
TypeOK ==
  /\ file \in Files
  /\ conn \in {"Closed", "Opening", "V1", "V2", "Open"}
  /\ call \in Calls \cup [op : {"none", "create", "upgrade"}]
  /\ tx \in Files \cup {NoTx}
  /\ answer \in {"none", "done", "disk", "constraint"}

(* The list a view shows and the total the tooltip and the menu show for   *)
(* the same period agree in every committed state: no sale is lost in the  *)
(* join with the products or counted twice by the grouping.                *)
ListMatchesTotal ==
  /\ \A a, b \in Dates : Sum(QueryRange(a, b)) = SumForRange(a, b)
  /\ \A d \in Dates : Sum(QueryDate(d)) = SumForDate(d)
  /\ Sum(QueryLifetime) = SumLifetime

(* No call fails but for the disk: the order of the statements satisfies   *)
(* the keys of the schema whatever the tables hold, and a migration that   *)
(* was interrupted can be run again.  The one statement that is refused is *)
(* the first of a migration that could not read the version.               *)
OnlyDiskErrors ==
  tx # NoTx /\ todo # <<>> /\ Refused(Head(todo), tx)
    => call.op = "create" /\ file.version # 0

(* The schema and its version number change together: an open connection   *)
(* finds the column the worker's checkpoints are stored in.                *)
SchemaMatchesVersion ==
  /\ file.column <=> file.version = 2
  /\ conn = "Open" => file.column

(* Each writing call takes effect completely or not at all, and says which *)
(* of the two, whatever statement fails and wherever the process dies.     *)
WritesAreAtomic == Cache!TableSpec

(* "Keeps sync_state row and timestamps." (Database.h:52, of               *)
(* ClearAllSales).  Does not hold: the time of the last successful         *)
(* synchronization is reset.                                               *)
ClearKeepsTimes ==
  [][call.op = "clear" /\ answer' = "done"
       => file'.synced = file.synced]_vars
=============================================================================
