------------------------ MODULE CacheDatabaseProofs ------------------------
(***************************************************************************)
(* Proofs about CacheDatabase, for any products, dates and units and any   *)
(* number of rows: no statement of a call is refused, the schema follows   *)
(* its version, and a call is one step of CacheTable.                      *)
(*                                                                         *)
(* The heart is what a transaction has done after n statements (After): a  *)
(* statement takes After(n) to After(n + 1) and is never refused           *)
(* (Progress), and after all statements the call has the effect that       *)
(* CacheTable promises (Effects).  That a list adds up to its total is one *)
(* sum taken in two orders (SumOfGroups), over sales that every step leaves*)
(* finite (FiniteNext).                                                    *)
(***************************************************************************)
EXTENDS CacheDatabase, Sums, SequenceTheorems, TLAPS

AllCalls == Calls \cup [op : {"create", "upgrade"}]

(* A committed file keeps the keys, and has no cursor before version 2.    *)
FileInv(f) ==
  /\ f \in Files
  /\ PrimaryKey(f.sales)
  /\ \A r \in f.sales : r.app \in f.products
  /\ f.column <=> f.version = 2
  /\ f.version < 2 => f.cursor = 0

(* A migration runs on the version it is for, any other call on version 2. *)
Fits(c, f) ==
  /\ c.op = "create" => f.version = 0
  /\ c.op = "upgrade" => f.version = 1
  /\ c \in Calls => f.version = 2

Upserted(rows, n) == {rows[i].app : i \in {j \in DOMAIN rows : 2 * j <= n}}

Inserted(date, rows, n) ==
  {SaleRow(date, rows[i]) : i \in {j \in DOMAIN rows : 2 * j + 1 <= n}}

AfterReplace(c, f, n) ==
  [f EXCEPT !.products = @ \cup Upserted(c.rows, n),
            !.sales = IF n = 0 THEN @
                      ELSE {r \in @ : r.date # c.date}
                             \cup Inserted(c.date, c.rows, n)]

AfterClear(f, n) ==
  [f EXCEPT !.sales = IF n < 1 THEN @ ELSE {},
            !.products = IF n < 2 THEN @ ELSE {},
            !.mark = IF n < 3 THEN @ ELSE FALSE,
            !.synced = IF n < 3 THEN @ ELSE FALSE,
            !.cursor = IF n < 3 THEN @ ELSE 0]

AfterCreate(f, n) == [f EXCEPT !.version = IF n < 2 THEN @ ELSE 1]

AfterUpgrade(f, n) ==
  [f EXCEPT !.column = IF n < 1 THEN @ ELSE TRUE,
            !.cursor = IF n < 2 \/ f.mark \/ f.sales = {} THEN @
                       ELSE NewestDate(f.sales),
            !.version = IF n < 3 THEN @ ELSE 2]

After(c, f, n) ==
  IF c.op = "replace" THEN AfterReplace(c, f, n)
  ELSE IF c.op = "clear" THEN AfterClear(f, n)
  ELSE IF c.op = "create" THEN AfterCreate(f, n)
  ELSE IF c.op = "upgrade" THEN AfterUpgrade(f, n)
  ELSE IF n = 0 THEN f ELSE Set(c, f)

-----------------------------------------------------------------------------
(* The statements and what each does.                                      *)

(* The kinds of calls and what their fields hold.                          *)
LEMMA CallKinds ==
  ASSUME NEW c \in AllCalls
  PROVE  /\ c.op \in {"replace", "clear", "mark", "synced", "cursor",
                      "create", "upgrade"}
         /\ c.op = "replace" => c.date \in Dates
                                /\ \E n \in 0..MaxRows : c.rows \in Rows(n)
         /\ c.op = "cursor" => c.date \in Dates \cup {0}
  BY DEF AllCalls, Calls

(* The statements of each kind of call.                                    *)
LEMMA StatementsOf ==
  ASSUME NEW c \in AllCalls
  PROVE  /\ c.op = "replace" => Statements(c) = ReplaceDate(c.date, c.rows)
         /\ c.op = "clear" => Statements(c) = ClearAllSales
         /\ c.op = "create" => Statements(c) = SchemaV1
         /\ c.op = "upgrade" => Statements(c) = SchemaV2
         /\ c.op \in {"mark", "synced", "cursor"} =>
              Statements(c) = <<[do |-> "set column", call |-> c]>>
  <1>1. c.op = "replace" => Statements(c) = ReplaceDate(c.date, c.rows)
    BY Zenon DEF Statements
  <1>2. c.op = "clear" => Statements(c) = ClearAllSales
    BY Zenon DEF Statements
  <1>3. c.op = "create" => Statements(c) = SchemaV1
    BY Zenon DEF Statements
  <1>4. c.op = "upgrade" => Statements(c) = SchemaV2
    BY Zenon DEF Statements
  <1>5. c.op = "mark" => Statements(c) = <<[do |-> "set column", call |-> c]>>
    BY Zenon DEF Statements
  <1>6. c.op = "synced" => Statements(c) = <<[do |-> "set column", call |-> c]>>
    BY Zenon DEF Statements
  <1>7. c.op = "cursor" => Statements(c) = <<[do |-> "set column", call |-> c]>>
    BY Zenon DEF Statements
  <1> QED
    BY <1>1, <1>2, <1>3, <1>4, <1>5, <1>6, <1>7

(* Every number is even or odd.                                            *)
LEMMA Halves ==
  ASSUME NEW k \in Nat
  PROVE  \E i \in Nat : k = 2 * i \/ k = 2 * i + 1
  <1>1. k \div 2 \in Nat /\ (k = 2 * (k \div 2) \/ k = 2 * (k \div 2) + 1)
    OBVIOUS
  <1> QED
    BY <1>1

(* Arithmetic on the positions 2 i and 2 i + 1 of the statements of row i. *)
LEMMA Doubles ==
  ASSUME NEW n \in Nat, NEW i \in 1..n
  PROVE  /\ 2 * i \in 2..2 * n + 1 /\ 2 * i + 1 \in 2..2 * n + 1
         /\ (2 * i) \div 2 = i /\ (2 * i + 1) \div 2 = i
         /\ 1 + ((2 * i) % 2) = 1 /\ 1 + ((2 * i + 1) % 2) = 2
  <1>1. 2 * i \in 2..2 * n + 1 /\ 2 * i + 1 \in 2..2 * n + 1
    OBVIOUS
  <1>2. (2 * i) \div 2 = i /\ (2 * i + 1) \div 2 = i
    OBVIOUS
  <1>3. (2 * i) % 2 = 0 /\ (2 * i + 1) % 2 = 1
    OBVIOUS
  <1> QED
    BY <1>1, <1>2, <1>3

(* A replacement begins by deleting the date.                              *)
LEMMA ReplaceStatements ==
  ASSUME NEW date, NEW n \in Nat, NEW rows \in Rows(n)
  PROVE  /\ Len(ReplaceDate(date, rows)) = 2 * n + 1
         /\ ReplaceDate(date, rows)[1] = [do |-> "delete date", date |-> date]
  <1>1. Len(rows) = n
    BY DEF Rows
  <1>2. Len(ReplaceDate(date, rows)) = 2 * n + 1
    BY <1>1 DEF ReplaceDate
  <1>3. ReplaceDate(date, rows)[1] = [do |-> "delete date", date |-> date]
    <2>1. 1 \in 1..2 * Len(rows) + 1
      BY <1>1
    <2> QED
      BY <2>1, Zenon DEF ReplaceDate
  <1> QED
    BY <1>2, <1>3

(* Row i is stored by statement 2 i, its product, and 2 i + 1, the row.    *)
LEMMA RowStatements ==
  ASSUME NEW date, NEW n \in Nat, NEW rows \in Rows(n), NEW i \in 1..n
  PROVE  /\ ReplaceDate(date, rows)[2 * i] =
              [do |-> "upsert", app |-> rows[i].app]
         /\ ReplaceDate(date, rows)[2 * i + 1] =
              [do |-> "insert", row |-> SaleRow(date, rows[i])]
  <1>1. Len(rows) = n
    BY DEF Rows
  <1>2. ASSUME NEW k \in 2..2 * n + 1
        PROVE  ReplaceDate(date, rows)[k] =
                 UpsertThenInsert(date, rows[k \div 2])[1 + (k % 2)]
    <2>1. k \in 1..2 * Len(rows) + 1 /\ k # 1
      BY <1>1
    <2> QED
      BY <2>1, Zenon DEF ReplaceDate
  <1>3. /\ ReplaceDate(date, rows)[2 * i] = UpsertThenInsert(date, rows[i])[1]
        /\ ReplaceDate(date, rows)[2 * i + 1] = UpsertThenInsert(date, rows[i])[2]
    <2> HIDE DEF ReplaceDate, UpsertThenInsert
    <2>1. /\ 2 * i \in 2..2 * n + 1 /\ 2 * i + 1 \in 2..2 * n + 1
          /\ (2 * i) \div 2 = i /\ (2 * i + 1) \div 2 = i
          /\ 1 + ((2 * i) % 2) = 1 /\ 1 + ((2 * i + 1) % 2) = 2
      BY Doubles
    <2> QED
      BY <1>2, <2>1, Zenon
  <1> QED
    BY <1>3 DEF UpsertThenInsert

(* The changes that a statement makes, by name.                            *)
Reset(t) == [t EXCEPT !.mark = FALSE, !.synced = FALSE, !.cursor = 0]
Versioned(t, v) == [t EXCEPT !.version = v]
Widened(t) == [t EXCEPT !.column = TRUE]
Marked(t) == [t EXCEPT !.mark = TRUE]
Synced(t) == [t EXCEPT !.synced = TRUE]
WithSales(t, rows) == [t EXCEPT !.sales = rows]
WithProducts(t, apps) == [t EXCEPT !.products = apps]

(* What each kind of statement does.                                       *)
LEMMA RunOf ==
  ASSUME NEW s, NEW t
  PROVE  /\ s.do = "delete date" =>
              Run(s, t) = WithSales(t, {r \in t.sales : r.date # s.date})
         /\ s.do = "upsert" =>
              Run(s, t) = WithProducts(t, t.products \cup {s.app})
         /\ s.do = "insert" => Run(s, t) = WithSales(t, t.sales \cup {s.row})
         /\ s.do = "delete sales" => Run(s, t) = [t EXCEPT !.sales = {}]
         /\ s.do = "delete products" => Run(s, t) = [t EXCEPT !.products = {}]
         /\ s.do = "reset state" => Run(s, t) = Reset(t)
         /\ s.do = "add column" => Run(s, t) = Widened(t)
         /\ s.do = "seed cursor" => Run(s, t) = SeedCursor(t)
         /\ s.do = "version" => Run(s, t) = Versioned(t, s.to)
         /\ s.do = "set column" => Run(s, t) = Set(s.call, t)
         /\ s.do = "create tables" => Run(s, t) = t
  <1>1. s.do = "delete date" =>
          Run(s, t) = WithSales(t, {r \in t.sales : r.date # s.date})
    BY Zenon DEF Run, WithSales
  <1>2. s.do = "upsert" => Run(s, t) = WithProducts(t, t.products \cup {s.app})
    BY Zenon DEF Run, WithProducts
  <1>3. s.do = "insert" => Run(s, t) = WithSales(t, t.sales \cup {s.row})
    BY Zenon DEF Run, WithSales
  <1>4. s.do = "delete sales" => Run(s, t) = [t EXCEPT !.sales = {}]
    BY Zenon DEF Run
  <1>5. s.do = "delete products" => Run(s, t) = [t EXCEPT !.products = {}]
    BY Zenon DEF Run
  <1>6. s.do = "reset state" => Run(s, t) = Reset(t)
    BY Zenon DEF Run, Reset
  <1>7. s.do = "add column" => Run(s, t) = Widened(t)
    BY Zenon DEF Run, Widened
  <1>8. s.do = "seed cursor" => Run(s, t) = SeedCursor(t)
    BY Zenon DEF Run
  <1>9. s.do = "version" => Run(s, t) = Versioned(t, s.to)
    BY Zenon DEF Run, Versioned
  <1>10. s.do = "set column" => Run(s, t) = Set(s.call, t)
    BY Zenon DEF Run
  <1>11. s.do = "create tables" => Run(s, t) = t
    BY Zenon DEF Run
  <1> QED
    BY <1>1, <1>2, <1>3, <1>4, <1>5, <1>6, <1>7, <1>8, <1>9, <1>10, <1>11

(* What each setter of sync_state does.                                    *)
LEMMA SetOf ==
  ASSUME NEW c, NEW t
  PROVE  /\ c.op = "mark" => Set(c, t) = Marked(t)
         /\ c.op = "synced" => Set(c, t) = Synced(t)
         /\ c.op = "cursor" => Set(c, t) = [t EXCEPT !.cursor = c.date]
  <1>1. c.op = "mark" => Set(c, t) = Marked(t)
    BY Zenon DEF Set, Marked
  <1>2. c.op = "synced" => Set(c, t) = Synced(t)
    BY Zenon DEF Set, Synced
  <1>3. c.op = "cursor" => Set(c, t) = [t EXCEPT !.cursor = c.date]
    BY Zenon DEF Set
  <1> QED
    BY <1>1, <1>2, <1>3

-----------------------------------------------------------------------------
(* Files are equal if their tables and columns are.                        *)
LEMMA SameFile ==
  ASSUME NEW f \in Files, NEW g \in Files,
         f.products = g.products, f.sales = g.sales, f.mark <=> g.mark,
         f.cursor = g.cursor, f.synced <=> g.synced, f.version = g.version,
         f.column <=> g.column
  PROVE  f = g
  BY DEF Files

(* The statements that no constraint concerns.                             *)
LEMMA NotRefused ==
  ASSUME NEW s, NEW t,
         s.do \notin {"create tables", "add column", "insert", "delete products"}
  PROVE  ~Refused(s, t)
  BY DEF Refused

-----------------------------------------------------------------------------
(* One statement of each call.                                             *)

(* A clear, statement by statement: the products are deleted when no row   *)
(* refers to one any more.                                                 *)
LEMMA ProgressClear ==
  ASSUME NEW f \in Files, NEW n \in 0..2
  PROVE  /\ ~Refused(ClearAllSales[n + 1], AfterClear(f, n))
         /\ Run(ClearAllSales[n + 1], AfterClear(f, n)) = AfterClear(f, n + 1)
  <1> DEFINE t == AfterClear(f, n)
             u == AfterClear(f, n + 1)
             s == ClearAllSales[n + 1]
  <1>1. /\ ClearAllSales[1].do = "delete sales"
        /\ ClearAllSales[2].do = "delete products"
        /\ ClearAllSales[3].do = "reset state"
    BY DEF ClearAllSales
  <1>2. t \in Files /\ u \in Files
    BY DEF AfterClear, Files
  <1>3. CASE n = 0
    <2>1. n + 1 = 1
      BY <1>3
    <2>2. s.do = "delete sales"
      BY <1>1, <2>1, Zenon
    <2> DEFINE g == [t EXCEPT !.sales = {}]
    <2>3. g \in Files
      BY <1>2 DEF Files
    <2>4. /\ g.products = u.products /\ g.sales = u.sales
          /\ g.mark <=> u.mark
          /\ g.cursor = u.cursor
          /\ g.synced <=> u.synced
          /\ g.version = u.version
          /\ g.column <=> u.column
      BY <1>3 DEF AfterClear, Files
    <2>5. g = u
      BY <1>2, <2>3, <2>4, SameFile
    <2> HIDE DEF s, t, u
    <2>6. Run(s, t) = g
      BY <2>2, RunOf, Zenon
    <2>7. ~Refused(s, t)
      BY <2>2, NotRefused
    <2> QED
      BY <2>5, <2>6, <2>7 DEF s, t, u
  <1>4. CASE n = 1
    <2>1. n + 1 = 2
      BY <1>4
    <2>2. s.do = "delete products"
      BY <1>1, <2>1, Zenon
    <2>3. t.sales = {}
      BY <1>4 DEF AfterClear, Files
    <2> DEFINE g == [t EXCEPT !.products = {}]
    <2>4. g \in Files
      BY <1>2 DEF Files
    <2>5. /\ g.products = u.products /\ g.sales = u.sales
          /\ g.mark <=> u.mark
          /\ g.cursor = u.cursor
          /\ g.synced <=> u.synced
          /\ g.version = u.version
          /\ g.column <=> u.column
      BY <1>4 DEF AfterClear, Files
    <2>6. g = u
      BY <1>2, <2>4, <2>5, SameFile
    <2> HIDE DEF s, t, u
    <2>7. Run(s, t) = g
      BY <2>2, RunOf, Zenon
    <2>8. ~Refused(s, t)
      BY <2>2, <2>3 DEF Refused
    <2> QED
      BY <2>6, <2>7, <2>8 DEF s, t, u
  <1>5. CASE n = 2
    <2>1. n + 1 = 3
      BY <1>5
    <2>2. s.do = "reset state"
      BY <1>1, <2>1, Zenon
    <2> DEFINE g == Reset(t)
    <2>3. g \in Files
      BY <1>2 DEF Files, Reset
    <2>4. /\ g.products = u.products /\ g.sales = u.sales
          /\ g.mark <=> u.mark
          /\ g.cursor = u.cursor
          /\ g.synced <=> u.synced
          /\ g.version = u.version
          /\ g.column <=> u.column
      BY <1>5 DEF AfterClear, Files, Reset
    <2>5. g = u
      BY <1>2, <2>3, <2>4, SameFile
    <2> HIDE DEF s, t, u
    <2>6. Run(s, t) = g
      BY <2>2, RunOf, Zenon
    <2>7. ~Refused(s, t)
      BY <2>2, NotRefused
    <2> QED
      BY <2>5, <2>6, <2>7 DEF s, t, u
  <1> QED
    BY <1>3, <1>4, <1>5

(* The first version of the schema, statement by statement.                *)
LEMMA ProgressCreate ==
  ASSUME NEW f \in Files, f.version = 0, NEW n \in 0..1
  PROVE  /\ ~Refused(SchemaV1[n + 1], AfterCreate(f, n))
         /\ Run(SchemaV1[n + 1], AfterCreate(f, n)) = AfterCreate(f, n + 1)
  <1> DEFINE t == AfterCreate(f, n)
             u == AfterCreate(f, n + 1)
             s == SchemaV1[n + 1]
  <1>1. /\ SchemaV1[1].do = "create tables"
        /\ SchemaV1[2].do = "version" /\ SchemaV1[2].to = 1
    BY DEF SchemaV1
  <1>2. t \in Files /\ u \in Files
    BY DEF AfterCreate, Files
  <1>3. CASE n = 0
    <2>1. n + 1 = 1
      BY <1>3
    <2>2. s.do = "create tables"
      BY <1>1, <2>1, Zenon
    <2>3. t.version = 0
      BY <1>3 DEF AfterCreate, Files
    <2> DEFINE g == t
    <2>4. g \in Files
      BY <1>2 DEF Files
    <2>5. /\ g.products = u.products /\ g.sales = u.sales
          /\ g.mark <=> u.mark
          /\ g.cursor = u.cursor
          /\ g.synced <=> u.synced
          /\ g.version = u.version
          /\ g.column <=> u.column
      BY <1>3 DEF AfterCreate, Files
    <2>6. g = u
      BY <1>2, <2>4, <2>5, SameFile
    <2> HIDE DEF s, t, u
    <2>7. Run(s, t) = g
      BY <2>2, RunOf, Zenon
    <2>8. ~Refused(s, t)
      BY <2>2, <2>3 DEF Refused
    <2> QED
      BY <2>6, <2>7, <2>8 DEF s, t, u
  <1>4. CASE n = 1
    <2>1. n + 1 = 2
      BY <1>4
    <2>2. s.do = "version" /\ s.to = 1
      BY <1>1, <2>1, Zenon
    <2> DEFINE g == Versioned(t, 1)
    <2>3. g \in Files
      BY <1>2 DEF Files, Versioned
    <2>4. /\ g.products = u.products /\ g.sales = u.sales
          /\ g.mark <=> u.mark
          /\ g.cursor = u.cursor
          /\ g.synced <=> u.synced
          /\ g.version = u.version
          /\ g.column <=> u.column
      BY <1>4 DEF AfterCreate, Files, Versioned
    <2>5. g = u
      BY <1>2, <2>3, <2>4, SameFile
    <2> HIDE DEF s, t, u
    <2>6. Run(s, t) = g
      <3>1. Run(s, t) = Versioned(t, s.to)
        BY <2>2, RunOf, Zenon
      <3> QED
        BY <2>2, <3>1
    <2>7. ~Refused(s, t)
      BY <2>2, NotRefused
    <2> QED
      BY <2>5, <2>6, <2>7 DEF s, t, u
  <1> QED
    BY <1>3, <1>4

(* The newest date of some rows is the date of one of them.                *)
LEMMA Newest ==
  ASSUME NEW sales \in SUBSET SaleRows, sales # {}
  PROVE  /\ NewestDate(sales) \in Dates
         /\ \E r \in sales : r.date = NewestDate(sales)
  <1> DEFINE D == {r.date : r \in sales}
  <1>1. D \in SUBSET Dates /\ D # {}
    BY DEF SaleRows
  <1>2. \E d \in D : \A e \in D : e <= d
    BY <1>1, NewestAssumption
  <1>3. \E d \in D : \A r \in sales : r.date <= d
    BY <1>2
  <1>4. NewestDate(sales) \in D
    BY <1>3 DEF NewestDate
  <1> QED
    BY <1>1, <1>4

(* An upgrade that has run halfway leaves a file.                          *)
LEMMA UpgradeFiles ==
  ASSUME NEW f \in Files, NEW n \in Nat
  PROVE  AfterUpgrade(f, n) \in Files
  <1> DEFINE a == IF n < 1 THEN f.column ELSE TRUE
             b == IF n < 2 \/ f.mark \/ f.sales = {} THEN f.cursor
                  ELSE NewestDate(f.sales)
             v == IF n < 3 THEN f.version ELSE 2
  <1>1. a \in BOOLEAN
    BY DEF Files
  <1>2. b \in Dates \cup {0}
    BY Newest DEF Files
  <1>3. v \in 0..2
    BY DEF Files
  <1>4. AfterUpgrade(f, n) = [f EXCEPT !.column = a, !.cursor = b, !.version = v]
    BY DEF AfterUpgrade
  <1> HIDE DEF a, b, v
  <1> QED
    BY <1>1, <1>2, <1>3, <1>4 DEF Files

(* The second version of the schema, statement by statement: the column is *)
(* not there yet, and the cursor is set when it is.                        *)
LEMMA ProgressUpgrade ==
  ASSUME NEW f \in Files, f.version = 1, ~f.column, NEW n \in 0..2
  PROVE  /\ ~Refused(SchemaV2[n + 1], AfterUpgrade(f, n))
         /\ Run(SchemaV2[n + 1], AfterUpgrade(f, n)) = AfterUpgrade(f, n + 1)
  <1> DEFINE t == AfterUpgrade(f, n)
             u == AfterUpgrade(f, n + 1)
             s == SchemaV2[n + 1]
  <1>1. /\ SchemaV2[1].do = "add column"
        /\ SchemaV2[2].do = "seed cursor"
        /\ SchemaV2[3].do = "version" /\ SchemaV2[3].to = 2
    BY DEF SchemaV2
  <1>2. t \in Files /\ u \in Files
    BY UpgradeFiles
  <1>3. CASE n = 0
    <2>1. n + 1 = 1
      BY <1>3
    <2>2. s.do = "add column"
      BY <1>1, <2>1, Zenon
    <2>3. ~t.column
      BY <1>3 DEF AfterUpgrade, Files
    <2> DEFINE g == Widened(t)
    <2>4. g \in Files
      BY <1>2 DEF Files, Widened
    <2>5. /\ g.products = u.products /\ g.sales = u.sales
          /\ g.mark <=> u.mark
          /\ g.cursor = u.cursor
          /\ g.synced <=> u.synced
          /\ g.version = u.version
          /\ g.column <=> u.column
      BY <1>3 DEF AfterUpgrade, Files, Widened
    <2>6. g = u
      BY <1>2, <2>4, <2>5, SameFile
    <2> HIDE DEF s, t, u
    <2>7. Run(s, t) = g
      BY <2>2, RunOf, Zenon
    <2>8. ~Refused(s, t)
      BY <2>2, <2>3 DEF Refused
    <2> QED
      BY <2>6, <2>7, <2>8 DEF s, t, u
  <1>4. CASE n = 1
    <2>1. n + 1 = 2
      BY <1>4
    <2>2. s.do = "seed cursor"
      BY <1>1, <2>1, Zenon
    <2>3. t.sales = f.sales /\ (t.mark <=> f.mark)
      BY <1>4 DEF AfterUpgrade, Files
    <2> DEFINE g == SeedCursor(t)
    <2>4. g \in Files
      <3>1. f.sales = {} \/ NewestDate(f.sales) \in Dates
        BY Newest DEF Files
      <3> QED
        BY <1>2, <2>3, <3>1 DEF Files, SeedCursor
    <2>5. /\ g.products = u.products /\ g.sales = u.sales
          /\ g.mark <=> u.mark
          /\ g.cursor = u.cursor
          /\ g.synced <=> u.synced
          /\ g.version = u.version
          /\ g.column <=> u.column
      BY <1>4, <2>3 DEF AfterUpgrade, Files, SeedCursor
    <2>6. g = u
      BY <1>2, <2>4, <2>5, SameFile
    <2> HIDE DEF s, t, u
    <2>7. Run(s, t) = g
      BY <2>2, RunOf, Zenon
    <2>8. ~Refused(s, t)
      BY <2>2, NotRefused
    <2> QED
      BY <2>6, <2>7, <2>8 DEF s, t, u
  <1>5. CASE n = 2
    <2>1. n + 1 = 3
      BY <1>5
    <2>2. s.do = "version" /\ s.to = 2
      BY <1>1, <2>1, Zenon
    <2> DEFINE g == Versioned(t, 2)
    <2>3. g \in Files
      BY <1>2 DEF Files, Versioned
    <2>4. /\ g.products = u.products /\ g.sales = u.sales
          /\ g.mark <=> u.mark
          /\ g.cursor = u.cursor
          /\ g.synced <=> u.synced
          /\ g.version = u.version
          /\ g.column <=> u.column
      BY <1>5 DEF AfterUpgrade, Files, Versioned
    <2>5. g = u
      BY <1>2, <2>3, <2>4, SameFile
    <2> HIDE DEF s, t, u
    <2>6. Run(s, t) = g
      <3>1. Run(s, t) = Versioned(t, s.to)
        BY <2>2, RunOf, Zenon
      <3> QED
        BY <2>2, <3>1
    <2>7. ~Refused(s, t)
      BY <2>2, NotRefused
    <2> QED
      BY <2>5, <2>6, <2>7 DEF s, t, u
  <1> QED
    BY <1>3, <1>4, <1>5

(* A setter has one statement, which no constraint refuses.                *)
LEMMA ProgressSet ==
  ASSUME NEW f, NEW c, NEW s, s.do = "set column", s.call = c
  PROVE  ~Refused(s, f) /\ Run(s, f) = Set(c, f)
  <1>1. ~Refused(s, f)
    BY NotRefused
  <1>2. Run(s, f) = Set(s.call, f)
    BY RunOf, Zenon
  <1> QED
    BY <1>1, <1>2

(* Statement 2 i gives row i its product, statement 2 i + 1 inserts it.    *)
LEMMA UpsertedUpTo ==
  ASSUME NEW m \in Nat, NEW rows \in Rows(m), NEW i \in 1..m
  PROVE  /\ Upserted(rows, 2 * i) = Upserted(rows, 2 * i - 1) \cup {rows[i].app}
         /\ Upserted(rows, 2 * i + 1) = Upserted(rows, 2 * i)
  <1>1. DOMAIN rows = 1..m
    BY DEF Rows
  <1>2. \A j \in 1..m : 2 * j <= 2 * i <=> j = i \/ 2 * j <= 2 * i - 1
    OBVIOUS
  <1>3. \A j \in 1..m : 2 * j <= 2 * i + 1 <=> 2 * j <= 2 * i
    OBVIOUS
  <1>4. Upserted(rows, 2 * i) = Upserted(rows, 2 * i - 1) \cup {rows[i].app}
    BY <1>1, <1>2, Zenon DEF Upserted
  <1>5. Upserted(rows, 2 * i + 1) = Upserted(rows, 2 * i)
    BY <1>1, <1>3, Zenon DEF Upserted
  <1> QED
    BY <1>4, <1>5

(* Statement 2 i adds no row, and 2 i + 1 adds row i.                      *)
LEMMA InsertedUpTo ==
  ASSUME NEW date, NEW m \in Nat, NEW rows \in Rows(m), NEW i \in 1..m
  PROVE  /\ Inserted(date, rows, 2 * i) = Inserted(date, rows, 2 * i - 1)
         /\ Inserted(date, rows, 2 * i + 1) =
              Inserted(date, rows, 2 * i) \cup {SaleRow(date, rows[i])}
  <1>1. DOMAIN rows = 1..m
    BY DEF Rows
  <1>2. \A j \in 1..m : 2 * j + 1 <= 2 * i <=> 2 * j + 1 <= 2 * i - 1
    OBVIOUS
  <1>3. \A j \in 1..m : 2 * j + 1 <= 2 * i + 1 <=> j = i \/ 2 * j + 1 <= 2 * i
    OBVIOUS
  <1>4. Inserted(date, rows, 2 * i) = Inserted(date, rows, 2 * i - 1)
    BY <1>1, <1>2, Zenon DEF Inserted
  <1>5. Inserted(date, rows, 2 * i + 1) =
          Inserted(date, rows, 2 * i) \cup {SaleRow(date, rows[i])}
    BY <1>1, <1>3, Zenon DEF Inserted
  <1> QED
    BY <1>4, <1>5

(* A replacement that has run halfway leaves a file.                       *)
LEMMA ReplaceFiles ==
  ASSUME NEW f \in Files, NEW c, c.date \in Dates, NEW m \in Nat,
         c.rows \in [1..m -> [app : Apps, units : Units]], NEW n
  PROVE  AfterReplace(c, f, n) \in Files
  <1>1. Upserted(c.rows, n) \subseteq Apps
    BY DEF Upserted
  <1>2. Inserted(c.date, c.rows, n) \subseteq SaleRows
    BY DEF Inserted, SaleRow, SaleRows
  <1> QED
    BY <1>1, <1>2 DEF AfterReplace, Files

(* Two files that agree but for the tables of sales and products.          *)
Tables(t, f, apps, rows) ==
  /\ t.products = apps
  /\ t.sales = rows
  /\ t.mark <=> f.mark
  /\ t.cursor = f.cursor
  /\ t.synced <=> f.synced
  /\ t.version = f.version
  /\ t.column <=> f.column

(* A file with other sales differs in nothing else.                        *)
LEMMA WithSalesIs ==
  ASSUME NEW t \in Files, NEW rows \in SUBSET SaleRows
  PROVE  /\ WithSales(t, rows) \in Files
         /\ Tables(WithSales(t, rows), t, t.products, rows)
  BY DEF WithSales, Tables, Files

(* A file with other products differs in nothing else.                     *)
LEMMA WithProductsIs ==
  ASSUME NEW t \in Files, NEW apps \in SUBSET Apps
  PROVE  /\ WithProducts(t, apps) \in Files
         /\ Tables(WithProducts(t, apps), t, apps, t.sales)
  BY DEF WithProducts, Tables, Files

(* Two files that differ from a third only in the tables, and have the same*)
(* tables, are equal.                                                      *)
LEMMA SameTables ==
  ASSUME NEW f \in Files, NEW t \in Files, NEW g \in Files, NEW u \in Files,
         NEW apps, NEW rows,
         Tables(t, f, t.products, t.sales), Tables(g, t, apps, rows),
         Tables(u, f, apps, rows)
  PROVE  g = u
  BY SameFile DEF Tables

(* A replacement that has run halfway differs only in the tables.          *)
LEMMA AfterReplaceIs ==
  ASSUME NEW f \in Files, NEW c, NEW n \in Nat
  PROVE  Tables(AfterReplace(c, f, n), f, f.products \cup Upserted(c.rows, n),
                IF n = 0 THEN f.sales
                ELSE {r \in f.sales : r.date # c.date}
                       \cup Inserted(c.date, c.rows, n))
  BY DEF AfterReplace, Files, Tables

(* A replacement, statement by statement: a product may be there already, a*)
(* row's product is there because its upsert ran before, and its key is    *)
(* free because the date was deleted and a product comes once.             *)
LEMMA ProgressReplace ==
  ASSUME NEW f \in Files, NEW c, c.date \in Dates, NEW m \in Nat,
         c.rows \in Rows(m), NEW n \in 0..2 * m
  PROVE  LET s == ReplaceDate(c.date, c.rows)[n + 1]
         IN  /\ ~Refused(s, AfterReplace(c, f, n))
             /\ Run(s, AfterReplace(c, f, n)) = AfterReplace(c, f, n + 1)
  <1> DEFINE s == ReplaceDate(c.date, c.rows)[n + 1]
             t == AfterReplace(c, f, n)
             u == AfterReplace(c, f, n + 1)
             others == {r \in f.sales : r.date # c.date}
  <1>1. /\ c.rows \in [1..m -> [app : Apps, units : Units]]
        /\ \A i, j \in 1..m : c.rows[i].app = c.rows[j].app => i = j
    BY DEF Rows
  <1>2. t \in Files /\ u \in Files
    BY <1>1, ReplaceFiles
  <1>3. /\ n = 0 => Tables(t, f, f.products \cup Upserted(c.rows, n), f.sales)
        /\ n # 0 => Tables(t, f, f.products \cup Upserted(c.rows, n),
                           others \cup Inserted(c.date, c.rows, n))
    <2>1. n \in Nat
      OBVIOUS
    <2> QED
      BY <2>1, AfterReplaceIs, Zenon
  <1>4. Tables(u, f, f.products \cup Upserted(c.rows, n + 1),
               others \cup Inserted(c.date, c.rows, n + 1))
    <2>1. n + 1 \in Nat /\ n + 1 # 0
      OBVIOUS
    <2> QED
      BY <2>1, AfterReplaceIs, Zenon
  <1>5. Tables(t, f, t.products, t.sales)
    BY <1>3 DEF Tables
  <1>6. t.products \in SUBSET Apps /\ t.sales \in SUBSET SaleRows
    BY <1>2 DEF Files
  <1>7. ASSUME n = 0
        PROVE  ~Refused(s, t) /\ Run(s, t) = u
    <2>1. n + 1 = 1
      BY <1>7
    <2>2. s = [do |-> "delete date", date |-> c.date]
      <3>1. ReplaceDate(c.date, c.rows)[1] = [do |-> "delete date", date |-> c.date]
        BY ReplaceStatements
      <3> QED
        BY <2>1, <3>1, Zenon
    <2>3. Upserted(c.rows, n) = {} /\ Upserted(c.rows, n + 1) = {}
          /\ Inserted(c.date, c.rows, n + 1) = {}
      <3>1. \A j \in 1..m : ~(2 * j <= n) /\ ~(2 * j <= n + 1) /\ ~(2 * j + 1 <= n + 1)
        BY <1>7
      <3> QED
        BY <1>1, <3>1 DEF Upserted, Inserted
    <2> HIDE DEF s, t, u
    <2>4. t.products = f.products /\ t.sales = f.sales
      BY <1>7, <1>3, <2>3 DEF Tables
    <2> DEFINE g == WithSales(t, {r \in t.sales : r.date # c.date})
    <2>5. g \in Files /\ Tables(g, t, t.products, {r \in t.sales : r.date # c.date})
      BY <1>2, <1>6, WithSalesIs
    <2>6. Tables(u, f, t.products, {r \in t.sales : r.date # c.date})
      BY <1>4, <2>3, <2>4
    <2> HIDE DEF g
    <2>7. g = u
      BY <1>2, <1>5, <2>5, <2>6, SameTables
    <2>8. s.do = "delete date" /\ s.date = c.date
      BY <2>2
    <2>9. Run(s, t) = WithSales(t, {r \in t.sales : r.date # s.date})
      BY <2>8, RunOf, Zenon
    <2>10. ~Refused(s, t)
      BY <2>8, NotRefused
    <2>11. Run(s, t) = g
      BY <2>8, <2>9, Zenon DEF g
    <2> QED
      BY <2>7, <2>10, <2>11
  <1>8. ASSUME NEW i \in 1..m, n = 2 * i - 1
        PROVE  ~Refused(s, t) /\ Run(s, t) = u
    <2>1. n + 1 = 2 * i /\ n # 0
      BY <1>8
    <2>2. s.do = "upsert" /\ s.app = c.rows[i].app
      <3>1. ReplaceDate(c.date, c.rows)[2 * i] =
              [do |-> "upsert", app |-> c.rows[i].app]
        BY RowStatements
      <3>2. s = [do |-> "upsert", app |-> c.rows[i].app]
        BY <2>1, <3>1, Zenon
      <3> HIDE DEF s
      <3> QED
        BY <3>2
    <2>3. /\ Upserted(c.rows, n + 1) = Upserted(c.rows, n) \cup {c.rows[i].app}
          /\ Inserted(c.date, c.rows, n + 1) = Inserted(c.date, c.rows, n)
      <3>1. Upserted(c.rows, 2 * i) =
              Upserted(c.rows, 2 * i - 1) \cup {c.rows[i].app}
        BY UpsertedUpTo
      <3>2. Inserted(c.date, c.rows, 2 * i) = Inserted(c.date, c.rows, 2 * i - 1)
        BY InsertedUpTo
      <3>3. 2 * i - 1 = n /\ 2 * i = n + 1
        BY <1>8
      <3> DEFINE a == 2 * i
                 b == 2 * i - 1
      <3>4. a = n + 1 /\ b = n
        BY <3>3
      <3>5. /\ Upserted(c.rows, a) = Upserted(c.rows, b) \cup {c.rows[i].app}
            /\ Inserted(c.date, c.rows, a) = Inserted(c.date, c.rows, b)
        BY <3>1, <3>2
      <3> HIDE DEF a, b
      <3> QED
        BY <3>4, <3>5
    <2> HIDE DEF s, t, u
    <2>4. /\ t.products = f.products \cup Upserted(c.rows, n)
          /\ t.sales = others \cup Inserted(c.date, c.rows, n)
      BY <1>3, <2>1 DEF Tables
    <2> HIDE DEF others
    <2> DEFINE g == WithProducts(t, t.products \cup {c.rows[i].app})
    <2>5. g \in Files /\ Tables(g, t, t.products \cup {c.rows[i].app}, t.sales)
      BY <1>1, <1>2, <1>6, WithProductsIs
    <2>6. Tables(u, f, t.products \cup {c.rows[i].app}, t.sales)
      <3>1. t.products \cup {c.rows[i].app} = f.products \cup Upserted(c.rows, n + 1)
        BY <2>3, <2>4
      <3>2. t.sales = others \cup Inserted(c.date, c.rows, n + 1)
        BY <2>3, <2>4
      <3> QED
        BY <1>4, <3>1, <3>2
    <2> HIDE DEF g
    <2>7. g = u
      BY <1>2, <1>5, <2>5, <2>6, SameTables
    <2>8. Run(s, t) = WithProducts(t, t.products \cup {s.app})
      BY <2>2, RunOf, Zenon
    <2>9. Run(s, t) = g
      BY <2>2, <2>8, Zenon DEF g
    <2>10. ~Refused(s, t)
      BY <2>2, NotRefused
    <2> QED
      BY <2>7, <2>9, <2>10
  <1>9. ASSUME NEW i \in 1..m, n = 2 * i
        PROVE  ~Refused(s, t) /\ Run(s, t) = u
    <2> DEFINE row == SaleRow(c.date, c.rows[i])
    <2>1. n + 1 = 2 * i + 1 /\ n # 0
      BY <1>9
    <2>2. s.do = "insert" /\ s.row = row
      <3>1. ReplaceDate(c.date, c.rows)[2 * i + 1] = [do |-> "insert", row |-> row]
        BY RowStatements
      <3>2. s = [do |-> "insert", row |-> row]
        BY <2>1, <3>1, Zenon
      <3> HIDE DEF s, row
      <3> QED
        BY <3>2
    <2>3. /\ Upserted(c.rows, n + 1) = Upserted(c.rows, n)
          /\ Inserted(c.date, c.rows, n + 1) =
               Inserted(c.date, c.rows, n) \cup {row}
      <3>1. Upserted(c.rows, 2 * i + 1) = Upserted(c.rows, 2 * i)
        BY UpsertedUpTo
      <3>2. Inserted(c.date, c.rows, 2 * i + 1) =
              Inserted(c.date, c.rows, 2 * i) \cup {row}
        BY InsertedUpTo
      <3> QED
        BY <1>9, <2>1, <3>1, <3>2, Zenon
    <2>4. row \in SaleRows /\ row.date = c.date /\ row.app = c.rows[i].app
      BY <1>1 DEF SaleRow, SaleRows
    <2> HIDE DEF s, t, u
    <2>5. /\ t.products = f.products \cup Upserted(c.rows, n)
          /\ t.sales = others \cup Inserted(c.date, c.rows, n)
      BY <1>3, <2>1 DEF Tables
    <2>6. row.app \in t.products
      <3>1. c.rows[i].app \in Upserted(c.rows, n)
        BY <1>1, <1>9 DEF Upserted
      <3> QED
        BY <2>4, <2>5, <3>1
    <2>7. ASSUME NEW r \in t.sales, r.date = row.date, r.app = row.app
          PROVE  FALSE
      <3>1. r \in Inserted(c.date, c.rows, n)
        BY <2>4, <2>5, <2>7
      <3>2. PICK j \in 1..m : 2 * j + 1 <= n /\ r = SaleRow(c.date, c.rows[j])
        BY <1>1, <3>1 DEF Inserted
      <3>3. r.app = c.rows[j].app
        BY <3>2 DEF SaleRow
      <3>4. j = i
        BY <1>1, <2>4, <2>7, <3>3
      <3> QED
        BY <1>9, <3>2, <3>4
    <2> HIDE DEF row, others
    <2> DEFINE g == WithSales(t, t.sales \cup {row})
    <2>8. g \in Files /\ Tables(g, t, t.products, t.sales \cup {row})
      BY <1>2, <1>6, <2>4, WithSalesIs
    <2>9. Tables(u, f, t.products, t.sales \cup {row})
      <3>1. t.products = f.products \cup Upserted(c.rows, n + 1)
        BY <2>3, <2>5
      <3>2. t.sales \cup {row} = others \cup Inserted(c.date, c.rows, n + 1)
        BY <2>3, <2>5
      <3> QED
        BY <1>4, <3>1, <3>2
    <2> HIDE DEF g
    <2>10. g = u
      BY <1>2, <1>5, <2>8, <2>9, SameTables
    <2>11. Run(s, t) = WithSales(t, t.sales \cup {s.row})
      BY <2>2, RunOf, Zenon
    <2>12. Run(s, t) = g
      BY <2>2, <2>11, Zenon DEF g
    <2>13. ~Refused(s, t)
      BY <2>2, <2>6, <2>7 DEF Refused
    <2> QED
      BY <2>10, <2>12, <2>13
  <1>10. n = 0 \/ \E i \in 1..m : n = 2 * i - 1 \/ n = 2 * i
    <2>1. n \in Nat
      OBVIOUS
    <2>2. PICK i \in Nat : n = 2 * i \/ n = 2 * i + 1
      BY <2>1, Halves, Zenon
    <2>3. CASE n = 2 * i
      BY <2>3
    <2>4. CASE n = 2 * i + 1
      <3>1. i + 1 \in 1..m /\ n = 2 * (i + 1) - 1
        BY <2>4
      <3> QED
        BY <3>1
    <2> QED
      BY <2>2, <2>3, <2>4
  <1> HIDE DEF s, t, u
  <1>11. ~Refused(s, t) /\ Run(s, t) = u
    <2>1. CASE n = 0
      BY <1>7, <2>1
    <2>2. ASSUME NEW i \in 1..m, n = 2 * i - 1 \/ n = 2 * i
          PROVE  ~Refused(s, t) /\ Run(s, t) = u
      BY <1>8, <1>9, <2>2, Zenon
    <2> QED
      BY <1>10, <2>1, <2>2
  <1> QED
    BY <1>11 DEF s, t, u

-----------------------------------------------------------------------------
(* All calls.                                                              *)

(* What a call has done halfway, by its kind.                              *)
LEMMA AfterOf ==
  ASSUME NEW c \in AllCalls, NEW f, NEW n
  PROVE  /\ c.op = "replace" => After(c, f, n) = AfterReplace(c, f, n)
         /\ c.op = "clear" => After(c, f, n) = AfterClear(f, n)
         /\ c.op = "create" => After(c, f, n) = AfterCreate(f, n)
         /\ c.op = "upgrade" => After(c, f, n) = AfterUpgrade(f, n)
         /\ c.op \in {"mark", "synced", "cursor"} =>
              After(c, f, n) = IF n = 0 THEN f ELSE Set(c, f)
  BY DEF After

(* The number of statements of each kind of call.                          *)
LEMMA Lengths ==
  ASSUME NEW c \in AllCalls
  PROVE  /\ c.op = "replace" =>
              \E m \in Nat : c.rows \in Rows(m)
                             /\ Len(Statements(c)) = 2 * m + 1
         /\ c.op = "clear" => Len(Statements(c)) = 3
         /\ c.op = "create" => Len(Statements(c)) = 2
         /\ c.op = "upgrade" => Len(Statements(c)) = 3
         /\ c.op \in {"mark", "synced", "cursor"} => Len(Statements(c)) = 1
  <1>1. ASSUME c.op = "replace"
        PROVE  \E m \in Nat : c.rows \in Rows(m)
                              /\ Len(Statements(c)) = 2 * m + 1
    <2>1. PICK m \in 0..MaxRows : c.rows \in Rows(m)
      BY <1>1, CallKinds
    <2>2. m \in Nat
      BY MaxRowsAssumption
    <2>3. Len(ReplaceDate(c.date, c.rows)) = 2 * m + 1
      BY <2>1, <2>2, ReplaceStatements
    <2>4. Statements(c) = ReplaceDate(c.date, c.rows)
      BY <1>1, StatementsOf
    <2> QED
      BY <2>1, <2>2, <2>3, <2>4
  <1>2. Len(ClearAllSales) = 3 /\ Len(SchemaV1) = 2 /\ Len(SchemaV2) = 3
    BY DEF ClearAllSales, SchemaV1, SchemaV2
  <1>3. Len(<<[do |-> "set column", call |-> c]>>) = 1
    OBVIOUS
  <1> QED
    BY <1>1, <1>2, <1>3, StatementsOf

(* Statement n + 1 of a call is not refused and takes what n statements    *)
(* have made of the file to what n + 1 make of it.                         *)
LEMMA Progress ==
  ASSUME NEW f, FileInv(f), NEW c \in AllCalls, Fits(c, f),
         NEW n \in Nat, n < Len(Statements(c))
  PROVE  /\ ~Refused(Statements(c)[n + 1], After(c, f, n))
         /\ Run(Statements(c)[n + 1], After(c, f, n)) = After(c, f, n + 1)
  <1>1. f \in Files
    BY DEF FileInv
  <1>2. CASE c.op = "replace"
    <2>1. PICK m \in Nat : c.rows \in Rows(m) /\ Len(Statements(c)) = 2 * m + 1
      BY <1>2, Lengths
    <2>2. n \in 0..2 * m
      BY <2>1
    <2>3. c.date \in Dates
      BY <1>2, CallKinds
    <2>4. LET s == ReplaceDate(c.date, c.rows)[n + 1]
          IN  /\ ~Refused(s, AfterReplace(c, f, n))
              /\ Run(s, AfterReplace(c, f, n)) = AfterReplace(c, f, n + 1)
      BY <1>1, <2>1, <2>2, <2>3, ProgressReplace
    <2>5. /\ Statements(c) = ReplaceDate(c.date, c.rows)
          /\ After(c, f, n) = AfterReplace(c, f, n)
          /\ After(c, f, n + 1) = AfterReplace(c, f, n + 1)
      BY <1>2, StatementsOf, AfterOf
    <2> QED
      BY <2>4, <2>5
  <1>3. CASE c.op = "clear"
    <2>1. Len(Statements(c)) = 3
      BY <1>3, Lengths
    <2>2. n \in 0..2
      BY <2>1
    <2>3. /\ ~Refused(ClearAllSales[n + 1], AfterClear(f, n))
          /\ Run(ClearAllSales[n + 1], AfterClear(f, n)) = AfterClear(f, n + 1)
      BY <1>1, <2>2, ProgressClear
    <2>4. /\ Statements(c) = ClearAllSales
          /\ After(c, f, n) = AfterClear(f, n)
          /\ After(c, f, n + 1) = AfterClear(f, n + 1)
      <3>1. Statements(c) = ClearAllSales
        BY <1>3, StatementsOf
      <3>2. After(c, f, n) = AfterClear(f, n)
        BY <1>3, AfterOf
      <3>3. After(c, f, n + 1) = AfterClear(f, n + 1)
        BY <1>3, AfterOf
      <3> QED
        BY <3>1, <3>2, <3>3
    <2> QED
      BY <2>3, <2>4
  <1>4. CASE c.op = "create"
    <2>1. Len(Statements(c)) = 2
      BY <1>4, Lengths
    <2>2. n \in 0..1 /\ f.version = 0
      BY <1>4, <2>1 DEF Fits
    <2>3. /\ ~Refused(SchemaV1[n + 1], AfterCreate(f, n))
          /\ Run(SchemaV1[n + 1], AfterCreate(f, n)) = AfterCreate(f, n + 1)
      BY <1>1, <2>2, ProgressCreate
    <2>4. /\ Statements(c) = SchemaV1
          /\ After(c, f, n) = AfterCreate(f, n)
          /\ After(c, f, n + 1) = AfterCreate(f, n + 1)
      <3>1. Statements(c) = SchemaV1
        BY <1>4, StatementsOf
      <3>2. After(c, f, n) = AfterCreate(f, n)
        BY <1>4, AfterOf
      <3>3. After(c, f, n + 1) = AfterCreate(f, n + 1)
        BY <1>4, AfterOf
      <3> QED
        BY <3>1, <3>2, <3>3
    <2> QED
      BY <2>3, <2>4
  <1>5. CASE c.op = "upgrade"
    <2>1. Len(Statements(c)) = 3
      BY <1>5, Lengths
    <2>2. n \in 0..2 /\ f.version = 1
      BY <1>5, <2>1 DEF Fits
    <2>3. ~f.column
      BY <2>2 DEF FileInv
    <2>4. /\ ~Refused(SchemaV2[n + 1], AfterUpgrade(f, n))
          /\ Run(SchemaV2[n + 1], AfterUpgrade(f, n)) = AfterUpgrade(f, n + 1)
      BY <1>1, <2>2, <2>3, ProgressUpgrade
    <2>5. /\ Statements(c) = SchemaV2
          /\ After(c, f, n) = AfterUpgrade(f, n)
          /\ After(c, f, n + 1) = AfterUpgrade(f, n + 1)
      <3>1. Statements(c) = SchemaV2
        BY <1>5, StatementsOf
      <3>2. After(c, f, n) = AfterUpgrade(f, n)
        BY <1>5, AfterOf
      <3>3. After(c, f, n + 1) = AfterUpgrade(f, n + 1)
        BY <1>5, AfterOf
      <3> QED
        BY <3>1, <3>2, <3>3
    <2> QED
      BY <2>4, <2>5
  <1>6. CASE c.op \in {"mark", "synced", "cursor"}
    <2>1. Len(Statements(c)) = 1
      BY <1>6, Lengths
    <2>2. n = 0 /\ n + 1 = 1
      BY <2>1
    <2> DEFINE s == Statements(c)[1]
    <2>3. s.do = "set column" /\ s.call = c
      <3>1. Statements(c) = <<[do |-> "set column", call |-> c]>>
        BY <1>6, StatementsOf
      <3>2. <<[do |-> "set column", call |-> c]>>[1] = [do |-> "set column", call |-> c]
        OBVIOUS
      <3>3. s = [do |-> "set column", call |-> c]
        BY <3>1, <3>2, Zenon
      <3> HIDE DEF s
      <3> QED
        BY <3>3
    <2>4. After(c, f, n) = f
      BY <1>6, <2>2, AfterOf
    <2>5. After(c, f, n + 1) = Set(c, f)
      BY <1>6, <2>2, AfterOf
    <2>6. Statements(c)[n + 1] = s
      BY <2>2, Zenon
    <2> HIDE DEF s
    <2> QED
      BY <2>3, <2>4, <2>5, <2>6, ProgressSet
  <1> QED
    BY <1>2, <1>3, <1>4, <1>5, <1>6, CallKinds

(* Before its first statement a call has changed nothing.                  *)
LEMMA AfterStart ==
  ASSUME NEW f \in Files, NEW c \in AllCalls
  PROVE  After(c, f, 0) = f
  <1>1. CASE c.op = "replace"
    <2> DEFINE g == AfterReplace(c, f, 0)
    <2>1. Upserted(c.rows, 0) = {}
      <3>1. PICK m \in 0..MaxRows : c.rows \in Rows(m)
        BY <1>1, CallKinds
      <3>2. DOMAIN c.rows = 1..m
        BY <3>1 DEF Rows
      <3>3. \A j \in DOMAIN c.rows : ~(2 * j <= 0)
        BY <3>2
      <3> QED
        BY <3>3 DEF Upserted
    <2>2. g = f
      BY <2>1 DEF AfterReplace, Files
    <2> QED
      BY <1>1, <2>2, AfterOf
  <1>2. CASE c.op = "clear"
    <2>1. AfterClear(f, 0) = f
      <3> DEFINE g == AfterClear(f, 0)
      <3>1. g \in Files
        BY DEF AfterClear, Files
      <3>2. /\ g.products = f.products /\ g.sales = f.sales
            /\ g.mark <=> f.mark
            /\ g.cursor = f.cursor
            /\ g.synced <=> f.synced
            /\ g.version = f.version
            /\ g.column <=> f.column
        BY DEF AfterClear, Files
      <3> HIDE DEF g
      <3>3. g = f
        BY <3>1, <3>2, SameFile
      <3> QED
        BY <3>3 DEF g
    <2> QED
      BY <1>2, <2>1, AfterOf
  <1>3. CASE c.op = "create"
    <2>1. AfterCreate(f, 0) = f
      BY DEF AfterCreate, Files
    <2> QED
      BY <1>3, <2>1, AfterOf
  <1>4. CASE c.op = "upgrade"
    <2>1. AfterUpgrade(f, 0) = f
      <3> DEFINE g == AfterUpgrade(f, 0)
      <3>1. g \in Files
        <4>1. g = [f EXCEPT !.column = f.column, !.cursor = f.cursor,
                            !.version = f.version]
          BY DEF AfterUpgrade
        <4> HIDE DEF g
        <4> QED
          BY <4>1 DEF Files
      <3>2. /\ g.products = f.products /\ g.sales = f.sales
            /\ g.mark <=> f.mark
            /\ g.cursor = f.cursor
            /\ g.synced <=> f.synced
            /\ g.version = f.version
            /\ g.column <=> f.column
        BY DEF AfterUpgrade, Files
      <3> HIDE DEF g
      <3>3. g = f
        BY <3>1, <3>2, SameFile
      <3> QED
        BY <3>3 DEF g
    <2> QED
      BY <1>4, <2>1, AfterOf
  <1>5. CASE c.op \in {"mark", "synced", "cursor"}
    BY <1>5, AfterOf
  <1> QED
    BY <1>1, <1>2, <1>3, <1>4, <1>5, CallKinds

-----------------------------------------------------------------------------
(* The effect of a whole call.                                             *)

Table(f) == [products |-> f.products, sales |-> f.sales, mark |-> f.mark,
             cursor |-> f.cursor, synced |-> f.synced]

TableSet == [products : SUBSET Apps, sales : SUBSET SaleRows, mark : BOOLEAN,
             cursor : Dates \cup {0}, synced : BOOLEAN]

(* What a call leaves: a file that keeps the invariant, has the contents   *)
(* CacheTable promises, and the version that the call is for.              *)
Done(c, f, g) ==
  /\ FileInv(g)
  /\ Table(g) = Cache!Effect(c, Table(f))
  /\ c.op = "create" => g.version = 1
  /\ c.op = "upgrade" => g.version = 2
  /\ c \in Calls => g.version = 2

(* Two tables are equal if their columns are.                              *)
LEMMA SameTable ==
  ASSUME NEW t \in TableSet, NEW u \in TableSet,
         t.products = u.products, t.sales = u.sales, t.mark <=> u.mark,
         t.cursor = u.cursor, t.synced <=> u.synced
  PROVE  t = u
  BY DEF TableSet

(* The contents of a file as CacheTable sees them.                         *)
LEMMA TableOf ==
  ASSUME NEW f \in Files
  PROVE  /\ Table(f) \in TableSet
         /\ Table(f).products = f.products /\ Table(f).sales = f.sales
         /\ Table(f).mark <=> f.mark
         /\ Table(f).cursor = f.cursor
         /\ Table(f).synced <=> f.synced
  BY DEF Table, TableSet, Files

(* What CacheTable promises of each kind of call.                          *)
LEMMA EffectOf ==
  ASSUME NEW c, NEW t
  PROVE  /\ c.op = "replace" =>
              Cache!Effect(c, t) =
                [t EXCEPT !.products = @ \cup {c.rows[i].app : i \in DOMAIN c.rows},
                          !.sales = Cache!OtherDates(@, c.date)
                                      \cup Cache!RowsOf(c.date, c.rows)]
         /\ c.op = "clear" => Cache!Effect(c, t) = Cache!EmptyTable
         /\ c.op = "upgrade" =>
              Cache!Effect(c, t) = [t EXCEPT !.cursor = Cache!Seed(t)]
         /\ c.op = "mark" => Cache!Effect(c, t) = Marked(t)
         /\ c.op = "cursor" => Cache!Effect(c, t) = [t EXCEPT !.cursor = c.date]
         /\ c.op = "synced" => Cache!Effect(c, t) = Synced(t)
         /\ c.op = "create" => Cache!Effect(c, t) = t
  <1>1. c.op = "replace" =>
          Cache!Effect(c, t) =
            [t EXCEPT !.products = @ \cup {c.rows[i].app : i \in DOMAIN c.rows},
                      !.sales = Cache!OtherDates(@, c.date)
                                  \cup Cache!RowsOf(c.date, c.rows)]
    BY Zenon DEF Cache!Effect
  <1>2. c.op = "clear" => Cache!Effect(c, t) = Cache!EmptyTable
    BY Zenon DEF Cache!Effect
  <1>3. c.op = "upgrade" => Cache!Effect(c, t) = [t EXCEPT !.cursor = Cache!Seed(t)]
    BY Zenon DEF Cache!Effect
  <1>4. c.op = "mark" => Cache!Effect(c, t) = Marked(t)
    BY Zenon DEF Cache!Effect, Marked
  <1>5. c.op = "cursor" => Cache!Effect(c, t) = [t EXCEPT !.cursor = c.date]
    BY Zenon DEF Cache!Effect
  <1>6. c.op = "synced" => Cache!Effect(c, t) = Synced(t)
    BY Zenon DEF Cache!Effect, Synced
  <1>7. c.op = "create" => Cache!Effect(c, t) = t
    BY Zenon DEF Cache!Effect
  <1> QED
    BY <1>1, <1>2, <1>3, <1>4, <1>5, <1>6, <1>7

(* After all statements of a replacement all rows are in.                  *)
LEMMA AllRows ==
  ASSUME NEW date, NEW m \in Nat, NEW rows \in Rows(m)
  PROVE  /\ Upserted(rows, 2 * m + 1) = {rows[i].app : i \in DOMAIN rows}
         /\ Inserted(date, rows, 2 * m + 1) = Cache!RowsOf(date, rows)
  <1>1. DOMAIN rows = 1..m
    BY DEF Rows
  <1>2. \A j \in 1..m : 2 * j <= 2 * m + 1 /\ 2 * j + 1 <= 2 * m + 1
    OBVIOUS
  <1>3. Upserted(rows, 2 * m + 1) = {rows[i].app : i \in DOMAIN rows}
    BY <1>1, <1>2, Zenon DEF Upserted
  <1>4. Inserted(date, rows, 2 * m + 1) = Cache!RowsOf(date, rows)
    BY <1>1, <1>2, Zenon DEF Inserted, SaleRow, Cache!RowsOf
  <1> QED
    BY <1>3, <1>4

(* A replacement does what CacheTable promises: the products and rows of   *)
(* the date are those of the call, and the keys hold.                      *)
LEMMA EffectReplace ==
  ASSUME NEW f, FileInv(f), NEW c \in AllCalls, c.op = "replace", f.version = 2
  PROVE  Done(c, f, After(c, f, Len(Statements(c))))
  <1>1. PICK m \in Nat : c.rows \in Rows(m) /\ Len(Statements(c)) = 2 * m + 1
    BY Lengths
  <1> DEFINE g == AfterReplace(c, f, 2 * m + 1)
             apps == {c.rows[i].app : i \in DOMAIN c.rows}
             rows == Cache!RowsOf(c.date, c.rows)
             others == {r \in f.sales : r.date # c.date}
  <1>2. f \in Files /\ c.date \in Dates
    BY CallKinds DEF FileInv
  <1>3. /\ c.rows \in [1..m -> [app : Apps, units : Units]]
        /\ \A i, j \in 1..m : c.rows[i].app = c.rows[j].app => i = j
        /\ DOMAIN c.rows = 1..m
    BY <1>1 DEF Rows
  <1>4. Upserted(c.rows, 2 * m + 1) = apps
    BY <1>1, AllRows
  <1>5. Inserted(c.date, c.rows, 2 * m + 1) = rows
    BY <1>1, AllRows
  <1>6. Tables(g, f, f.products \cup apps, others \cup rows)
    <2>1. 2 * m + 1 \in Nat /\ 2 * m + 1 # 0
      OBVIOUS
    <2> QED
      BY <1>2, <1>4, <1>5, <2>1, AfterReplaceIs
  <1>7. g \in Files
    BY <1>1, <1>2, <1>3, ReplaceFiles
  <1>8. After(c, f, Len(Statements(c))) = g
    BY <1>1, AfterOf
  <1>9. /\ apps \subseteq Apps /\ rows \subseteq SaleRows
        /\ \A r \in rows : r.date = c.date /\ r.app \in apps
        /\ \A r, s \in rows : r.app = s.app => r = s
    BY <1>2, <1>3 DEF Cache!RowsOf, SaleRows
  <1> HIDE DEF g, apps, rows
  <1>10. FileInv(g)
    <2>1. PrimaryKey(others \cup rows)
      BY <1>9 DEF FileInv, PrimaryKey
    <2>2. \A r \in others \cup rows : r.app \in f.products \cup apps
      BY <1>9 DEF FileInv
    <2> QED
      BY <1>6, <1>7, <2>1, <2>2 DEF FileInv, Tables
  <1>11. Table(g) = Cache!Effect(c, Table(f))
    <2> DEFINE t == Table(f)
               u == [t EXCEPT !.products = @ \cup apps,
                              !.sales = Cache!OtherDates(@, c.date) \cup rows]
    <2>1. Cache!Effect(c, t) = u
      BY EffectOf, Zenon DEF apps, rows
    <2>2. t \in TableSet /\ t.products = f.products /\ t.sales = f.sales
          /\ (t.mark <=> f.mark) /\ t.cursor = f.cursor /\ (t.synced <=> f.synced)
      BY <1>2, TableOf
    <2> HIDE DEF t
    <2>3. u \in TableSet
      BY <1>9, <2>2 DEF TableSet, Cache!OtherDates
    <2>4. /\ u.products = f.products \cup apps
          /\ u.sales = others \cup rows
          /\ u.mark <=> f.mark
          /\ u.cursor = f.cursor
          /\ u.synced <=> f.synced
      BY <2>2 DEF TableSet, Cache!OtherDates
    <2>5. /\ Table(g) \in TableSet
          /\ Table(g).products = g.products /\ Table(g).sales = g.sales
          /\ Table(g).mark <=> g.mark
          /\ Table(g).cursor = g.cursor
          /\ Table(g).synced <=> g.synced
      BY <1>7, TableOf
    <2> HIDE DEF u
    <2>6. Table(g) = u
      BY <1>6, <2>3, <2>4, <2>5, SameTable DEF Tables
    <2> QED
      BY <2>1, <2>6 DEF t
  <1> QED
    BY <1>6, <1>8, <1>10, <1>11 DEF Done, Tables

(* The kinds of calls; the migrations are none.                            *)
LEMMA NotACall ==
  ASSUME NEW c \in Calls
  PROVE  c.op \in {"replace", "clear", "mark", "synced", "cursor"}
  BY DEF Calls

(* A clear does what CacheTable promises.                                  *)
LEMMA EffectClear ==
  ASSUME NEW f, FileInv(f), NEW c \in AllCalls, c.op = "clear", f.version = 2
  PROVE  Done(c, f, After(c, f, Len(Statements(c))))
  <1> DEFINE g == AfterClear(f, 3)
  <1>1. f \in Files
    BY DEF FileInv
  <1>2. g \in Files
    BY <1>1 DEF AfterClear, Files
  <1>3. /\ g.products = {} /\ g.sales = {}
        /\ ~g.mark
        /\ g.cursor = 0
        /\ ~g.synced
        /\ g.version = f.version
        /\ g.column <=> f.column
    BY <1>1 DEF AfterClear, Files
  <1>4. After(c, f, Len(Statements(c))) = g
    <2>1. Len(Statements(c)) = 3
      BY Lengths
    <2> QED
      BY <2>1, AfterOf
  <1> HIDE DEF g
  <1>5. FileInv(g)
    BY <1>2, <1>3 DEF FileInv, PrimaryKey
  <1>6. Table(g) = Cache!Effect(c, Table(f))
    <2> DEFINE u == Cache!EmptyTable
    <2>1. Cache!Effect(c, Table(f)) = u
      BY EffectOf
    <2>2. /\ u \in TableSet
          /\ u.products = {} /\ u.sales = {} /\ ~u.mark /\ u.cursor = 0 /\ ~u.synced
      BY DEF Cache!EmptyTable, Cache!NoCursor, TableSet
    <2>3. /\ Table(g) \in TableSet
          /\ Table(g).products = g.products /\ Table(g).sales = g.sales
          /\ Table(g).mark <=> g.mark
          /\ Table(g).cursor = g.cursor
          /\ Table(g).synced <=> g.synced
      BY <1>2, TableOf
    <2> HIDE DEF u
    <2>4. Table(g) = u
      BY <1>3, <2>2, <2>3, SameTable
    <2> QED
      BY <2>1, <2>4
  <1> QED
    BY <1>3, <1>4, <1>5, <1>6 DEF Done

(* The first migration changes nothing that CacheTable sees.               *)
LEMMA EffectCreate ==
  ASSUME NEW f, FileInv(f), NEW c \in AllCalls, c.op = "create", f.version = 0
  PROVE  Done(c, f, After(c, f, Len(Statements(c))))
  <1> DEFINE g == AfterCreate(f, 2)
  <1>1. f \in Files
    BY DEF FileInv
  <1>2. g \in Files
    BY <1>1 DEF AfterCreate, Files
  <1>3. /\ g.products = f.products /\ g.sales = f.sales
        /\ g.mark <=> f.mark
        /\ g.cursor = f.cursor
        /\ g.synced <=> f.synced
        /\ g.version = 1
        /\ g.column <=> f.column
    BY <1>1 DEF AfterCreate, Files
  <1>4. After(c, f, Len(Statements(c))) = g
    <2>1. Len(Statements(c)) = 2
      BY Lengths
    <2> QED
      BY <2>1, AfterOf
  <1> HIDE DEF g
  <1>5. FileInv(g)
    BY <1>2, <1>3 DEF FileInv
  <1>6. Table(g) = Cache!Effect(c, Table(f))
    <2>1. Cache!Effect(c, Table(f)) = Table(f)
      BY EffectOf
    <2>2. /\ Table(g) \in TableSet
          /\ Table(g).products = g.products /\ Table(g).sales = g.sales
          /\ Table(g).mark <=> g.mark
          /\ Table(g).cursor = g.cursor
          /\ Table(g).synced <=> g.synced
      BY <1>2, TableOf
    <2>3. /\ Table(f) \in TableSet
          /\ Table(f).products = f.products /\ Table(f).sales = f.sales
          /\ Table(f).mark <=> f.mark
          /\ Table(f).cursor = f.cursor
          /\ Table(f).synced <=> f.synced
      BY <1>1, TableOf
    <2>4. Table(g) = Table(f)
      BY <1>3, <2>2, <2>3, SameTable
    <2> QED
      BY <2>1, <2>4
  <1> QED
    BY <1>3, <1>4, <1>5, <1>6, NotACall DEF Done

(* The second migration seeds the cursor of a cache without a mark with the*)
(* newest date, and changes nothing else that CacheTable sees.             *)
LEMMA EffectUpgrade ==
  ASSUME NEW f, FileInv(f), NEW c \in AllCalls, c.op = "upgrade", f.version = 1
  PROVE  Done(c, f, After(c, f, Len(Statements(c))))
  <1> DEFINE g == AfterUpgrade(f, 3)
             seed == IF f.mark \/ f.sales = {} THEN f.cursor
                     ELSE NewestDate(f.sales)
  <1>1. f \in Files /\ f.cursor = 0
    BY DEF FileInv
  <1>2. f.sales # {} => /\ NewestDate(f.sales) \in Dates
                        /\ \E r \in f.sales : r.date = NewestDate(f.sales)
    BY <1>1, Newest DEF Files
  <1>3. seed \in Dates \cup {0}
    BY <1>1, <1>2
  <1>4. g = [f EXCEPT !.column = TRUE, !.cursor = seed, !.version = 2]
    BY DEF AfterUpgrade
  <1>5. After(c, f, Len(Statements(c))) = g
    <2>1. Len(Statements(c)) = 3
      BY Lengths
    <2> QED
      BY <2>1, AfterOf
  <1>6. Cache!Seed(Table(f)) = seed
    <2>1. /\ Table(f).sales = f.sales
          /\ Table(f).mark <=> f.mark
      BY <1>1, TableOf
    <2> QED
      BY <1>1, <2>1 DEF Cache!Seed, Cache!NoCursor, NewestDate
  <1> HIDE DEF g, seed
  <1>7. g \in Files
    <2> DEFINE a == TRUE
               v == 2
    <2>1. a \in BOOLEAN /\ v \in 0..2
      OBVIOUS
    <2>2. g = [f EXCEPT !.column = a, !.cursor = seed, !.version = v]
      BY <1>4
    <2> HIDE DEF a, v
    <2> QED
      BY <1>1, <1>3, <2>1, <2>2 DEF Files
  <1>8. /\ g.products = f.products /\ g.sales = f.sales
        /\ g.mark <=> f.mark
        /\ g.cursor = seed
        /\ g.synced <=> f.synced
        /\ g.version = 2
        /\ g.column
    BY <1>1, <1>4 DEF Files
  <1>9. FileInv(g)
    BY <1>7, <1>8 DEF FileInv
  <1>10. Table(g) = Cache!Effect(c, Table(f))
    <2> DEFINE t == Table(f)
               u == [t EXCEPT !.cursor = seed]
    <2>1. Cache!Effect(c, t) = u
      BY <1>6, EffectOf
    <2>2. /\ t \in TableSet
          /\ t.products = f.products /\ t.sales = f.sales
          /\ t.mark <=> f.mark
          /\ t.synced <=> f.synced
      BY <1>1, TableOf
    <2> HIDE DEF t
    <2>3. /\ u \in TableSet
          /\ u.products = f.products /\ u.sales = f.sales
          /\ u.mark <=> f.mark
          /\ u.cursor = seed
          /\ u.synced <=> f.synced
      BY <1>3, <2>2 DEF TableSet
    <2>4. /\ Table(g) \in TableSet
          /\ Table(g).products = g.products /\ Table(g).sales = g.sales
          /\ Table(g).mark <=> g.mark
          /\ Table(g).cursor = g.cursor
          /\ Table(g).synced <=> g.synced
      BY <1>7, TableOf
    <2> HIDE DEF u
    <2>5. Table(g) = u
      BY <1>8, <2>3, <2>4, SameTable
    <2> QED
      BY <2>1, <2>5 DEF t
  <1> QED
    BY <1>5, <1>8, <1>9, <1>10 DEF Done

(* A setter does what CacheTable promises.                                 *)
LEMMA EffectSet ==
  ASSUME NEW f, FileInv(f), NEW c \in AllCalls,
         c.op \in {"mark", "synced", "cursor"}, f.version = 2
  PROVE  Done(c, f, After(c, f, Len(Statements(c))))
  <1> DEFINE g == Set(c, f)
             t == Table(f)
             u == Cache!Effect(c, t)
  <1>1. f \in Files
    BY DEF FileInv
  <1>2. After(c, f, Len(Statements(c))) = g
    <2>1. Len(Statements(c)) = 1
      BY Lengths
    <2> QED
      BY <2>1, AfterOf
  <1>3. /\ t \in TableSet
        /\ t.products = f.products /\ t.sales = f.sales
        /\ t.mark <=> f.mark
        /\ t.cursor = f.cursor
        /\ t.synced <=> f.synced
    BY <1>1, TableOf
  <1> HIDE DEF t
  <1>4. /\ g \in Files
        /\ g.products = f.products /\ g.sales = f.sales
        /\ g.version = f.version
        /\ g.column <=> f.column
        /\ u \in TableSet
        /\ u.products = g.products /\ u.sales = g.sales
        /\ u.mark <=> g.mark
        /\ u.cursor = g.cursor
        /\ u.synced <=> g.synced
    <2>1. CASE c.op = "mark"
      <3> DEFINE h == Marked(f)
                 v == Marked(t)
      <3>1. h \in Files /\ h.products = f.products /\ h.sales = f.sales
            /\ h.version = f.version /\ (h.column <=> f.column)
            /\ h.mark /\ h.cursor = f.cursor /\ (h.synced <=> f.synced)
        BY <1>1 DEF Files, Marked
      <3>2. v \in TableSet /\ v.products = t.products /\ v.sales = t.sales
            /\ v.mark /\ v.cursor = t.cursor /\ (v.synced <=> t.synced)
        BY <1>3 DEF TableSet, Marked
      <3>3. g = h /\ u = v
        BY <2>1, SetOf, EffectOf, Zenon
      <3> HIDE DEF g, u, h, v
      <3> QED
        BY <1>3, <3>1, <3>2, <3>3
    <2>2. CASE c.op = "synced"
      <3> DEFINE h == Synced(f)
                 v == Synced(t)
      <3>1. h \in Files /\ h.products = f.products /\ h.sales = f.sales
            /\ h.version = f.version /\ (h.column <=> f.column)
            /\ h.synced /\ h.cursor = f.cursor /\ (h.mark <=> f.mark)
        BY <1>1 DEF Files, Synced
      <3>2. v \in TableSet /\ v.products = t.products /\ v.sales = t.sales
            /\ v.synced /\ v.cursor = t.cursor /\ (v.mark <=> t.mark)
        BY <1>3 DEF TableSet, Synced
      <3>3. g = h /\ u = v
        BY <2>2, SetOf, EffectOf, Zenon
      <3> HIDE DEF g, u, h, v
      <3> QED
        BY <1>3, <3>1, <3>2, <3>3
    <2>3. CASE c.op = "cursor"
      <3> DEFINE h == [f EXCEPT !.cursor = c.date]
                 v == [t EXCEPT !.cursor = c.date]
      <3>1. c.date \in Dates \cup {0}
        BY <2>3, CallKinds
      <3>2. h \in Files /\ h.products = f.products /\ h.sales = f.sales
            /\ h.version = f.version /\ (h.column <=> f.column)
            /\ h.cursor = c.date /\ (h.synced <=> f.synced) /\ (h.mark <=> f.mark)
        BY <1>1, <3>1 DEF Files
      <3>3. v \in TableSet /\ v.products = t.products /\ v.sales = t.sales
            /\ v.cursor = c.date /\ (v.synced <=> t.synced) /\ (v.mark <=> t.mark)
        BY <1>3, <3>1 DEF TableSet
      <3>4. g = h /\ u = v
        BY <2>3, SetOf, EffectOf, Zenon
      <3> HIDE DEF g, u, h, v
      <3> QED
        BY <1>3, <3>2, <3>3, <3>4
    <2> QED
      BY <2>1, <2>2, <2>3
  <1> HIDE DEF g, u
  <1>5. FileInv(g)
    BY <1>4 DEF FileInv
  <1>6. Table(g) = u
    <2>1. /\ Table(g) \in TableSet
          /\ Table(g).products = g.products /\ Table(g).sales = g.sales
          /\ Table(g).mark <=> g.mark
          /\ Table(g).cursor = g.cursor
          /\ Table(g).synced <=> g.synced
      BY <1>4, TableOf
    <2> QED
      BY <1>4, <2>1, SameTable
  <1>7. Table(g) = Cache!Effect(c, Table(f))
    BY <1>6 DEF u, t
  <1> QED
    BY <1>2, <1>4, <1>5, <1>7 DEF Done

(* After all its statements a call has done what CacheTable promises.      *)
LEMMA Effects ==
  ASSUME NEW f, FileInv(f), NEW c \in AllCalls, Fits(c, f)
  PROVE  Done(c, f, After(c, f, Len(Statements(c))))
  <1>1. c.op \notin {"create", "upgrade"} => c \in Calls
    BY DEF AllCalls
  <1>2. CASE c.op = "replace"
    BY <1>1, <1>2, EffectReplace DEF Fits
  <1>3. CASE c.op = "clear"
    BY <1>1, <1>3, EffectClear DEF Fits
  <1>4. CASE c.op = "create"
    BY <1>4, EffectCreate DEF Fits
  <1>5. CASE c.op = "upgrade"
    BY <1>5, EffectUpgrade DEF Fits
  <1>6. CASE c.op \in {"mark", "synced", "cursor"}
    BY <1>1, <1>6, EffectSet DEF Fits
  <1> QED
    BY <1>2, <1>3, <1>4, <1>5, <1>6, CallKinds

(* A call that has run halfway leaves a file.                              *)
LEMMA AfterFiles ==
  ASSUME NEW f \in Files, NEW c \in AllCalls, NEW n \in Nat
  PROVE  After(c, f, n) \in Files
  <1>1. CASE c.op = "replace"
    <2>1. PICK m \in Nat : c.rows \in Rows(m)
      BY <1>1, Lengths
    <2>2. AfterReplace(c, f, n) \in Files
      BY <1>1, <2>1, CallKinds, ReplaceFiles DEF Rows
    <2> QED
      BY <1>1, <2>2, AfterOf
  <1>2. CASE c.op = "clear"
    <2>1. AfterClear(f, n) \in Files
      BY DEF AfterClear, Files
    <2> QED
      BY <1>2, <2>1, AfterOf
  <1>3. CASE c.op = "create"
    <2>1. AfterCreate(f, n) \in Files
      BY DEF AfterCreate, Files
    <2> QED
      BY <1>3, <2>1, AfterOf
  <1>4. CASE c.op = "upgrade"
    BY <1>4, UpgradeFiles, AfterOf
  <1>5. CASE c.op \in {"mark", "synced", "cursor"}
    <2>1. Marked(f) \in Files /\ Synced(f) \in Files
      BY DEF Marked, Synced, Files
    <2>2. c.op = "cursor" => [f EXCEPT !.cursor = c.date] \in Files
      BY CallKinds DEF Files
    <2>3. Set(c, f) \in Files
      BY <1>5, <2>1, <2>2, SetOf
    <2> QED
      BY <1>5, <2>3, AfterOf
  <1> QED
    BY <1>1, <1>2, <1>3, <1>4, <1>5, CallKinds

-----------------------------------------------------------------------------
(* The statements of a call are a sequence; Rest is what is left of it     *)
(* after n of them.                                                        *)
StatementsSet(c) == {Statements(c)[k] : k \in 1..Len(Statements(c))}

(* The statements of a call are a sequence.                                *)
LEMMA StatementsSeq ==
  ASSUME NEW c \in AllCalls
  PROVE  Statements(c) \in Seq(StatementsSet(c))
  <1>1. ASSUME NEW S, NEW s \in Seq(S)
        PROVE  s \in Seq({s[k] : k \in 1..Len(s)})
    <2>1. Len(s) \in Nat /\ s \in [1..Len(s) -> S]
      BY <1>1, LenProperties
    <2>2. s \in [1..Len(s) -> {s[k] : k \in 1..Len(s)}]
      BY <2>1
    <2> QED
      BY <2>1, <2>2, SeqDef
  <1>2. \E S : Statements(c) \in Seq(S)
    <2>1. CASE c.op = "replace"
      <3> DEFINE s == ReplaceDate(c.date, c.rows)
                 N == 2 * Len(c.rows) + 1
      <3>1. PICK m \in Nat : c.rows \in Rows(m)
        BY <2>1, Lengths
      <3>2. N \in Nat
        BY <3>1 DEF Rows
      <3>3. s \in [1..N -> {s[k] : k \in 1..N}]
        BY Zenon DEF ReplaceDate
      <3> HIDE DEF N
      <3>4. s \in Seq({s[k] : k \in 1..N})
        BY <3>2, <3>3, SeqDef
      <3> QED
        BY <2>1, <3>4, StatementsOf
    <2>2. CASE c.op = "clear"
      <3>1. ClearAllSales \in Seq({ClearAllSales[1], ClearAllSales[2],
                                   ClearAllSales[3]})
        BY DEF ClearAllSales
      <3> QED
        BY <2>2, <3>1, StatementsOf
    <2>3. CASE c.op = "create"
      <3>1. SchemaV1 \in Seq({SchemaV1[1], SchemaV1[2]})
        BY DEF SchemaV1
      <3> QED
        BY <2>3, <3>1, StatementsOf
    <2>4. CASE c.op = "upgrade"
      <3>1. SchemaV2 \in Seq({SchemaV2[1], SchemaV2[2], SchemaV2[3]})
        BY DEF SchemaV2
      <3> QED
        BY <2>4, <3>1, StatementsOf
    <2>5. CASE c.op \in {"mark", "synced", "cursor"}
      <3> DEFINE e == [do |-> "set column", call |-> c]
      <3>1. <<e>> \in Seq({e})
        OBVIOUS
      <3> QED
        BY <2>5, <3>1, StatementsOf
    <2> QED
      BY <2>1, <2>2, <2>3, <2>4, <2>5, CallKinds
  <1> QED
    BY <1>1, <1>2 DEF StatementsSet

Rest(c, n, s) ==
  /\ s \in Seq(StatementsSet(c))
  /\ Len(s) = Len(Statements(c)) - n
  /\ \A k \in 1..Len(s) : s[k] = Statements(c)[n + k]

(* Before the first statement all of them are left.                        *)
LEMMA RestStart ==
  ASSUME NEW c \in AllCalls
  PROVE  Len(Statements(c)) \in Nat /\ Rest(c, 0, Statements(c))
  <1>1. Statements(c) \in Seq(StatementsSet(c))
    BY StatementsSeq
  <1>2. Len(Statements(c)) \in Nat
    BY <1>1, LenProperties
  <1>3. \A k \in 1..Len(Statements(c)) : 0 + k = k
    BY <1>2
  <1> QED
    BY <1>1, <1>2, <1>3 DEF Rest

(* The next of the statements that are left is number n + 1.               *)
LEMMA RestTail ==
  ASSUME NEW c \in AllCalls, NEW n \in Nat, NEW s, Rest(c, n, s), s # <<>>
  PROVE  /\ n < Len(Statements(c))
         /\ Head(s) = Statements(c)[n + 1]
         /\ Rest(c, n + 1, Tail(s))
  <1>1. s \in Seq(StatementsSet(c)) /\ Len(Statements(c)) \in Nat
    BY RestStart DEF Rest
  <1>2. Len(s) \in Nat /\ Len(s) >= 1
    BY <1>1, EmptySeq
  <1>3. /\ Tail(s) \in Seq(StatementsSet(c))
        /\ Len(Tail(s)) = Len(s) - 1
        /\ \A i \in 1..Len(Tail(s)) : Tail(s)[i] = s[i + 1]
    BY <1>1, HeadTailProperties
  <1>4. Len(s) = Len(Statements(c)) - n
    BY DEF Rest
  <1>5. ASSUME NEW k \in 1..Len(Tail(s))
        PROVE  Tail(s)[k] = Statements(c)[n + 1 + k]
    <2>1. k + 1 \in 1..Len(s) /\ n + (k + 1) = n + 1 + k
      BY <1>2, <1>3
    <2>2. s[k + 1] = Statements(c)[n + (k + 1)]
      BY <2>1 DEF Rest
    <2> QED
      BY <1>3, <2>1, <2>2
  <1>6. Head(s) = s[1] /\ s[1] = Statements(c)[n + 1]
    BY <1>1, <1>2 DEF Rest
  <1>7. Len(Tail(s)) = Len(Statements(c)) - (n + 1)
    BY <1>1, <1>2, <1>3, <1>4
  <1> QED
    BY <1>1, <1>2, <1>3, <1>4, <1>5, <1>6, <1>7 DEF Rest

(* When none is left, all have run.                                        *)
LEMMA RestEnd ==
  ASSUME NEW c \in AllCalls, NEW n \in Nat, Rest(c, n, <<>>)
  PROVE  n = Len(Statements(c))
  <1>1. Len(Statements(c)) \in Nat
    BY RestStart
  <1>2. 0 = Len(Statements(c)) - n
    BY DEF Rest
  <1> QED
    BY <1>1, <1>2

-----------------------------------------------------------------------------
(* The inductive invariant: each migration runs at its place of the        *)
(* connection, any other call on an open one, and the open transaction     *)
(* holds what the call's first n statements did to the committed file; of  *)
(* a migration that misread the version none has run.                      *)

ConnInv ==
  /\ conn \in {"Closed", "Opening", "V1", "V2", "Open"}
  /\ call = NoCall \/ call \in AllCalls
  /\ conn \in {"Closed", "Opening"} => call = NoCall
  /\ call \in Calls => conn = "Open"
  /\ call.op = "create" => conn = "V1"
  /\ call.op = "upgrade" => conn = "V2"
  /\ conn = "V2" => file.version = 1
  /\ conn = "Open" => file.version = 2

Misread == call.op = "create" /\ file.version # 0

RunInv ==
  /\ call = NoCall => tx = NoTx /\ todo = <<>>
  /\ call \in AllCalls =>
       \E n \in Nat :
         /\ Rest(call, n, todo)
         /\ tx = NoTx \/ Misread => n = 0
         /\ tx # NoTx => tx = After(call, file, n)

IInv ==
  /\ FileInv(file)
  /\ ConnInv
  /\ RunInv
  /\ answer \in {"none", "done", "disk", "constraint"}

(* A file is told from "no transaction".                                   *)
LEMMA NotNoTx ==
  ASSUME NEW f \in Files
  PROVE  f # NoTx
  <1>1. f.version \in 0..2
    BY DEF Files
  <1>2. NoTx.version = -1
    BY DEF NoTx
  <1> QED
    BY <1>1, <1>2

(* "No call" is told from every call.                                      *)
LEMMA NoCallIsNone ==
  /\ NoCall.op = "none"
  /\ NoCall \notin AllCalls
  /\ NoCall \notin Calls
  /\ \A c \in AllCalls : c # NoCall
  <1>1. NoCall.op = "none"
    BY DEF NoCall
  <1>2. \A c \in AllCalls : c.op # "none"
    BY CallKinds
  <1>3. Calls \subseteq AllCalls
    BY DEF AllCalls
  <1> QED
    BY <1>1, <1>2, <1>3

(* The files of the first version keep the keys.                           *)
LEMMA OldFile ==
  ASSUME NEW f \in OldFiles
  PROVE  FileInv(f) /\ IsFiniteSet(f.sales) /\ IsFiniteSet(f.products)
  BY DEF OldFiles, FileInv

(* The invariant holds initially, whatever file there is.                  *)
LEMMA InvInit == Init => IInv
<1> SUFFICES ASSUME Init
             PROVE  IInv
  OBVIOUS
<1>1. FileInv(file)
  <2>1. CASE file = NewFile
    BY <2>1 DEF NewFile, FileInv, Files, PrimaryKey
  <2>2. CASE file \in OldFiles
    BY <2>2, OldFile
  <2> QED
    BY <2>1, <2>2 DEF Init
<1>2. ConnInv
  BY NoCallIsNone DEF Init, ConnInv
<1>3. RunInv
  BY NoCallIsNone DEF Init, RunInv
<1> QED
  BY <1>1, <1>2, <1>3 DEF Init, IInv

(* A call that starts: nothing is run yet.                                 *)
LEMMA InvRequest ==
  ASSUME IInv, NEW c \in AllCalls, Request(c),
         c \in Calls => conn = "Open",
         c.op = "create" => conn = "V1", c.op = "upgrade" => conn = "V2"
  PROVE  IInv'
  <1>1. /\ call = NoCall /\ call' = c /\ todo' = Statements(c)
        /\ answer' = "none" /\ file' = file /\ conn' = conn /\ tx' = tx
    BY DEF Request
  <1>2. tx' = NoTx
    BY <1>1 DEF IInv, RunInv
  <1>3. FileInv(file)'
    BY <1>1 DEF IInv
  <1>4. ConnInv'
    <2>1. conn \notin {"Closed", "Opening"}
      BY DEF AllCalls
    <2> QED
      BY <1>1, <2>1 DEF IInv, ConnInv
  <1>5. RunInv'
    <2>1. Rest(c, 0, Statements(c))
      BY RestStart
    <2> QED
      BY <1>1, <1>2, <2>1, NoCallIsNone DEF RunInv
  <1> QED
    BY <1>1, <1>3, <1>4, <1>5 DEF IInv

(* A call that ends: nothing is left of it.                                *)
LEMMA InvReturn ==
  ASSUME IInv, call' = NoCall, tx' = NoTx, todo' = <<>>, FileInv(file)',
         answer' \in {"none", "done", "disk", "constraint"},
         conn' \in {"Closed", "Opening", "V1", "V2", "Open"},
         conn' = "V2" => file'.version = 1,
         conn' = "Open" => file'.version = 2
  PROVE  IInv'
  <1>1. ConnInv'
    BY NoCallIsNone DEF ConnInv
  <1>2. RunInv'
    BY NoCallIsNone DEF RunInv
  <1> QED
    BY <1>1, <1>2 DEF IInv

(* An open transaction holds what n of the call's statements did.          *)
LEMMA InTransaction ==
  ASSUME IInv, tx # NoTx
  PROVE  /\ call \in AllCalls /\ FileInv(file)
         /\ ~Misread => Fits(call, file)
         /\ \E n \in Nat : /\ Rest(call, n, todo) /\ tx = After(call, file, n)
                           /\ Misread => n = 0
<1>1. FileInv(file) /\ ConnInv /\ RunInv
  BY DEF IInv
<1>2. call \in AllCalls
  BY <1>1 DEF ConnInv, RunInv
<1>3. ~Misread => Fits(call, file)
  BY <1>1, <1>2 DEF ConnInv, Misread, Fits
<1>4. \E n \in Nat : /\ Rest(call, n, todo) /\ tx = After(call, file, n)
                     /\ Misread => n = 0
  BY <1>1, <1>2 DEF RunInv
<1> QED
  BY <1>1, <1>2, <1>3, <1>4

(* The statement that an open transaction runs next is not refused, and    *)
(* takes it one statement further.                                         *)
LEMMA NeverRefused ==
  ASSUME IInv, tx # NoTx, todo # <<>>, ~Misread
  PROVE  /\ ~Refused(Head(todo), tx)
         /\ \E n \in Nat :
              /\ Rest(call, n + 1, Tail(todo))
              /\ Run(Head(todo), tx) = After(call, file, n + 1)
  <1>1. /\ call \in AllCalls /\ Fits(call, file) /\ FileInv(file)
        /\ \E n \in Nat : Rest(call, n, todo) /\ tx = After(call, file, n)
    BY InTransaction
  <1>2. PICK n \in Nat : Rest(call, n, todo) /\ tx = After(call, file, n)
    BY <1>1
  <1>3. /\ n < Len(Statements(call))
        /\ Head(todo) = Statements(call)[n + 1]
        /\ Rest(call, n + 1, Tail(todo))
    BY <1>1, <1>2, RestTail
  <1>4. /\ ~Refused(Statements(call)[n + 1], After(call, file, n))
        /\ Run(Statements(call)[n + 1], After(call, file, n)) =
             After(call, file, n + 1)
    BY <1>1, <1>3, Progress
  <1> QED
    BY <1>2, <1>3, <1>4

(* A migration that misread the version stops at its first statement, which*)
(* creates the tables that are there.                                      *)
LEMMA MisreadIsRefused ==
  ASSUME IInv, tx # NoTx, Misread
  PROVE  todo # <<>> /\ Refused(Head(todo), tx)
  <1>1. /\ call \in AllCalls /\ FileInv(file) /\ call.op = "create"
        /\ file.version # 0
    BY InTransaction DEF Misread
  <1>2. Rest(call, 0, todo) /\ tx = After(call, file, 0)
    BY InTransaction
  <1>3. Len(Statements(call)) = 2 /\ Statements(call) = SchemaV1
    BY <1>1, Lengths, StatementsOf
  <1>4. todo # <<>>
    BY <1>1, <1>2, <1>3, RestEnd
  <1>5. Head(todo) = Statements(call)[0 + 1]
    BY <1>1, <1>2, <1>4, RestTail
  <1>6. Head(todo).do = "create tables"
    <2>1. Head(todo) = SchemaV1[1]
      BY <1>3, <1>5
    <2>2. SchemaV1[1].do = "create tables"
      BY DEF SchemaV1
    <2> QED
      BY <2>1, <2>2, Zenon
  <1>7. tx.version # 0
    BY <1>1, <1>2, AfterStart DEF FileInv
  <1> QED
    BY <1>4, <1>6, <1>7 DEF Refused

(* The next statement is run, or it is the first one of a migration that   *)
(* misread the version, which is given up.                                 *)
LEMMA ExecuteCases ==
  ASSUME IInv, Execute
  PROVE  \/ Misread /\ Rollback("constraint")
         \/ /\ ~Misread /\ tx' = Run(Head(todo), tx) /\ todo' = Tail(todo)
            /\ UNCHANGED <<file, conn, call, answer>>
  BY NeverRefused, MisreadIsRefused DEF Execute

(* A commit makes the effect of the whole call the committed file.         *)
LEMMA CommitIsDone ==
  ASSUME IInv, Commit
  PROVE  call \in AllCalls /\ Fits(call, file) /\ Done(call, file, file')
  <1>1. ~Misread
    BY MisreadIsRefused DEF Commit
  <1>2. /\ call \in AllCalls /\ Fits(call, file) /\ FileInv(file)
        /\ \E n \in Nat : Rest(call, n, todo) /\ tx = After(call, file, n)
    BY <1>1, InTransaction DEF Commit
  <1>3. PICK n \in Nat : Rest(call, n, todo) /\ tx = After(call, file, n)
    BY <1>2
  <1>4. n = Len(Statements(call))
    BY <1>2, <1>3, RestEnd DEF Commit
  <1>5. Done(call, file, After(call, file, Len(Statements(call))))
    BY <1>2, Effects
  <1> QED
    BY <1>2, <1>3, <1>4, <1>5 DEF Commit

(* Every step preserves the invariant.                                     *)
LEMMA InvNext == IInv /\ [Next]_vars => IInv'
<1> SUFFICES ASSUME IInv, [Next]_vars
             PROVE  IInv'
  OBVIOUS
<1>0. file.version \in 0..2
  BY DEF IInv, FileInv, Files
<1>1. CASE Open
  <2>1. /\ call = NoCall /\ call' = NoCall /\ tx' = NoTx /\ todo' = <<>>
        /\ file' = file /\ answer' = answer /\ conn' = "Opening"
    BY <1>1 DEF Open, IInv, ConnInv, RunInv
  <2> QED
    BY <2>1, InvReturn DEF IInv
<1>2. CASE ReadVersion
  <2>1. /\ call = NoCall /\ call' = NoCall /\ tx' = NoTx /\ todo' = <<>>
        /\ file' = file /\ answer' = answer
    BY <1>2 DEF ReadVersion, IInv, ConnInv, RunInv
  <2>2. \/ conn' = "V1"
        \/ conn' = "V2" /\ file.version = 1
        \/ conn' = "Open" /\ file.version = 2
    BY <1>0, <1>2 DEF ReadVersion
  <2> QED
    BY <2>1, <2>2, InvReturn DEF IInv
<1>3. CASE Migrate
  <2>1. ASSUME NEW op \in {"create", "upgrade"}, Request([op |-> op]),
               conn = IF op = "create" THEN "V1" ELSE "V2"
        PROVE  IInv'
    <3> DEFINE c == [op |-> op]
    <3>1. c \in AllCalls /\ c.op = op
      BY DEF AllCalls
    <3>2. Request(c)
      BY <2>1
    <3> HIDE DEF c
    <3>3. c \notin Calls
      BY <3>1, NotACall
    <3> QED
      BY <2>1, <3>1, <3>2, <3>3, InvRequest
  <2> QED
    BY <1>3, <2>1 DEF Migrate
<1>4. ASSUME NEW c \in Calls, Write(c)
      PROVE  IInv'
  <2>1. c \in AllCalls /\ conn = "Open" /\ Request(c)
    BY <1>4 DEF Write, AllCalls
  <2>2. c.op \notin {"create", "upgrade"}
    BY NotACall
  <2> QED
    BY <2>1, <2>2, InvRequest
<1>5. CASE Begin
  <2>1. /\ call # NoCall /\ tx = NoTx /\ tx' = file /\ file' = file /\ conn' = conn
        /\ call' = call /\ todo' = todo /\ answer' = answer
    BY <1>5 DEF Begin
  <2>2. call \in AllCalls
    BY <2>1 DEF IInv, ConnInv
  <2>3. Rest(call, 0, todo)
    <3>1. PICK n \in Nat : Rest(call, n, todo) /\ (tx = NoTx => n = 0)
      BY <2>2 DEF IInv, RunInv
    <3> QED
      BY <2>1, <3>1
  <2>4. After(call, file, 0) = file /\ file # NoTx
    BY <2>2, AfterStart, NotNoTx DEF IInv, FileInv
  <2>5. RunInv'
    BY <2>1, <2>2, <2>3, <2>4 DEF RunInv
  <2>6. ConnInv' /\ FileInv(file)'
    BY <2>1 DEF IInv, ConnInv
  <2> QED
    BY <2>1, <2>5, <2>6 DEF IInv
<1>6. CASE Execute
  <2>1. CASE Misread /\ Rollback("constraint")
    <3>1. /\ call' = NoCall /\ tx' = NoTx /\ todo' = <<>> /\ file' = file
          /\ answer' = "constraint" /\ conn' \in {conn, "Closed"}
          /\ conn' \in {"Closed", "Open"}
      BY <2>1 DEF Rollback, Return
    <3> QED
      BY <3>1, InvReturn DEF IInv, ConnInv
  <2>2. CASE /\ ~Misread /\ tx' = Run(Head(todo), tx) /\ todo' = Tail(todo)
             /\ UNCHANGED <<file, conn, call, answer>>
    <3>1. call \in AllCalls /\ FileInv(file)
      BY <1>6, InTransaction DEF Execute
    <3>2. PICK n \in Nat : Rest(call, n + 1, Tail(todo))
                           /\ Run(Head(todo), tx) = After(call, file, n + 1)
      BY <1>6, <2>2, NeverRefused DEF Execute
    <3>3. /\ tx' = After(call, file, n + 1) /\ todo' = Tail(todo)
          /\ file' = file /\ conn' = conn /\ call' = call /\ answer' = answer
      BY <2>2, <3>2
    <3>4. n + 1 \in Nat
      OBVIOUS
    <3>5. tx' # NoTx
      BY <3>1, <3>3, <3>4, AfterFiles, NotNoTx DEF FileInv
    <3>6. ~Misread'
      BY <2>2, <3>3 DEF Misread
    <3>7. RunInv'
      BY <3>1, <3>2, <3>3, <3>4, <3>5, <3>6, NoCallIsNone DEF RunInv
    <3>8. ConnInv' /\ FileInv(file)'
      BY <3>3 DEF IInv, ConnInv
    <3> QED
      BY <3>3, <3>7, <3>8 DEF IInv
  <2> QED
    BY <1>6, <2>1, <2>2, ExecuteCases
<1>7. CASE Commit
  <2>1. call \in AllCalls /\ Fits(call, file) /\ Done(call, file, file')
    BY <1>7, CommitIsDone
  <2>2. /\ call' = NoCall /\ tx' = NoTx /\ todo' = <<>> /\ answer' = "done"
        /\ conn' = IF conn = "V1" THEN "V2" ELSE "Open"
    BY <1>7 DEF Commit, Return
  <2>3. conn = "V1" => call.op = "create"
    BY <2>1 DEF IInv, ConnInv, AllCalls
  <2>4. conn # "V1" => call.op = "upgrade" \/ call \in Calls
    BY <2>1 DEF IInv, ConnInv, AllCalls
  <2>5. /\ conn' = "V2" => file'.version = 1
        /\ conn' = "Open" => file'.version = 2
    BY <2>1, <2>2, <2>3, <2>4 DEF Done
  <2> QED
    BY <2>1, <2>2, <2>5, InvReturn DEF Done
<1>8. CASE DiskError
  <2>1. /\ call' = NoCall /\ tx' = NoTx /\ todo' = <<>> /\ answer' = "disk"
        /\ file' = file /\ conn' = IF conn = "Open" THEN "Open" ELSE "Closed"
    BY <1>8 DEF DiskError, Rollback, Return
  <2>2. conn' = "Open" => file'.version = 2
    BY <2>1 DEF IInv, ConnInv
  <2> QED
    BY <2>1, <2>2, InvReturn DEF IInv
<1>9. CASE Crash
  <2>1. /\ call' = NoCall /\ tx' = NoTx /\ todo' = <<>> /\ answer' = "none"
        /\ file' = file /\ conn' = "Closed"
    BY <1>9 DEF Crash, Return
  <2> QED
    BY <2>1, InvReturn DEF IInv
<1>10. CASE UNCHANGED vars
  BY <1>10 DEF vars, IInv, ConnInv, RunInv, Misread
<1> QED
  BY <1>1, <1>2, <1>3, <1>4, <1>5, <1>6, <1>7, <1>8, <1>9, <1>10 DEF Next

(* The invariant holds always.                                             *)
LEMMA Invariant == Spec => []IInv
BY InvInit, InvNext, PTL DEF Spec

-----------------------------------------------------------------------------
(* Every variable keeps its type.                                          *)
THEOREM CacheTypeCorrect == Spec => []TypeOK
<1>1. IInv => TypeOK
  <2> SUFFICES ASSUME IInv
               PROVE  TypeOK
    OBVIOUS
  <2>1. file \in Files /\ conn \in {"Closed", "Opening", "V1", "V2", "Open"}
        /\ answer \in {"none", "done", "disk", "constraint"}
    BY DEF IInv, FileInv, ConnInv
  <2>2. call \in Calls \cup [op : {"none", "create", "upgrade"}]
    BY DEF IInv, ConnInv, NoCall, AllCalls
  <2>3. tx \in Files \cup {NoTx}
    <3>1. CASE tx # NoTx
      <4>1. /\ call \in AllCalls
            /\ \E n \in Nat : tx = After(call, file, n)
        BY <3>1, InTransaction
      <4> QED
        BY <2>1, <4>1, AfterFiles
    <3> QED
      BY <3>1
  <2> QED
    BY <2>1, <2>2, <2>3 DEF TypeOK
<1> QED
  BY Invariant, <1>1, PTL

(* No statement breaks a key of the schema, whatever the tables hold, but  *)
(* the first one of a migration that could not read the version: only the  *)
(* disk makes a call fail (Database::ReplaceDate, ClearAllSales and        *)
(* ApplyMigrations).                                                       *)
THEOREM NothingIsRefused == Spec => []OnlyDiskErrors
<1>1. IInv => OnlyDiskErrors
  BY NeverRefused DEF OnlyDiskErrors, Misread
<1> QED
  BY Invariant, <1>1, PTL

(* An open connection finds the column of version 2 (ApplyMigrations).     *)
THEOREM SchemaFollowsVersion == Spec => []SchemaMatchesVersion
<1>1. IInv => SchemaMatchesVersion
  BY DEF IInv, FileInv, ConnInv, SchemaMatchesVersion
<1> QED
  BY Invariant, <1>1, PTL

(* Only a commit changes the file.                                         *)
LEMMA OnlyCommitWrites ==
  ASSUME IInv, [Next]_vars, file' # file
  PROVE  Commit
  <1>1. ASSUME Execute
        PROVE  file' = file
    BY <1>1, ExecuteCases DEF Rollback
  <1>2. ASSUME NEW c, Request(c)
        PROVE  file' = file
    BY <1>2 DEF Request
  <1>3. Migrate => file' = file
    BY <1>2 DEF Migrate
  <1>4. ASSUME NEW c \in Calls, Write(c)
        PROVE  file' = file
    BY <1>2, <1>4 DEF Write
  <1>5. /\ Open => file' = file
        /\ ReadVersion => file' = file
        /\ Begin => file' = file
        /\ DiskError => file' = file
        /\ Crash => file' = file
        /\ UNCHANGED vars => file' = file
    BY DEF Open, ReadVersion, Begin, DiskError, Rollback, Crash, vars
  <1> QED
    BY <1>1, <1>3, <1>4, <1>5 DEF Next

-----------------------------------------------------------------------------
(* A writing call is one step of CacheTable: it takes effect completely    *)
(* and answers so, or has no effect and answers so, whatever statement the *)
(* disk fails and wherever the process dies (Database.h).                  *)
Shown == IF answer \in {"disk", "constraint"} THEN "failed" ELSE answer

(* A commit performs the call.                                             *)
LEMMA CommitPerforms ==
  ASSUME IInv, Commit
  PROVE  Cache!Perform
  <1>1. Done(call, file, file') /\ call \in AllCalls
    BY CommitIsDone
  <1>2. Table(file') = Cache!Effect(call, Table(file))
    BY <1>1 DEF Done
  <1>3. call # Cache!NoCall /\ call' = Cache!NoCall
    BY <1>1, NoCallIsNone DEF Commit, Return, NoCall, Cache!NoCall
  <1>4. Shown' = "done"
    BY DEF Commit, Return, Shown
  <1> QED
    BY <1>2, <1>3, <1>4 DEF Cache!Perform, Table, Shown

(* A request begins a call.                                                *)
LEMMA RequestAsks ==
  ASSUME NEW c \in AllCalls, Request(c)
  PROVE  Cache!Ask
  <1>1. call = Cache!NoCall /\ call' # Cache!NoCall
    BY NoCallIsNone DEF Request, NoCall, Cache!NoCall
  <1>2. file' = file /\ Shown' = "none"
    BY DEF Request, Shown
  <1> QED
    BY <1>1, <1>2 DEF Cache!Ask, Shown

(* A rollback refuses the call.                                            *)
LEMMA FailureRefuses ==
  ASSUME NEW result \in {"disk", "constraint"}, Rollback(result)
  PROVE  Cache!Refuse
  <1>1. call # Cache!NoCall /\ call' = Cache!NoCall
    BY DEF Rollback, Return, NoCall, Cache!NoCall
  <1>2. file' = file /\ Shown' = "failed"
    BY DEF Rollback, Return, Shown
  <1> QED
    BY <1>1, <1>2 DEF Cache!Refuse, Shown

(* CacheDatabase implements CacheTable: of a writing call of Database.h all*)
(* statements take effect, or none, whatever fails.                        *)
THEOREM CallsAreAtomic == Spec => WritesAreAtomic
<1> DEFINE unchanged == UNCHANGED <<Table(file), call, Shown>>
<1>1. Init => Cache!TableInit
  BY DEF Init, NoCall, Cache!NoCall, Cache!TableInit
<1>2. IInv /\ [Next]_vars => Cache!TableNext \/ unchanged
  <2> SUFFICES ASSUME IInv, [Next]_vars
               PROVE  Cache!TableNext \/ unchanged
    OBVIOUS
  <2>1. ASSUME file' = file, call' = call, answer' = answer
        PROVE  unchanged
    BY <2>1 DEF Table, Shown
  <2> HIDE DEF unchanged
  <2>2. CASE Open \/ ReadVersion \/ Begin \/ UNCHANGED vars
    BY <2>1, <2>2 DEF Open, ReadVersion, Begin, vars
  <2>3. CASE Migrate
    <3>1. PICK c \in AllCalls : Request(c)
      BY <2>3 DEF Migrate, AllCalls
    <3> QED
      BY <3>1, RequestAsks DEF Cache!TableNext
  <2>4. ASSUME NEW c \in Calls, Write(c)
        PROVE  Cache!TableNext
    BY <2>4, RequestAsks DEF Write, AllCalls, Cache!TableNext
  <2>5. CASE Execute
    BY <2>1, <2>5, ExecuteCases, FailureRefuses DEF Cache!TableNext
  <2>6. CASE Commit
    BY <2>6, CommitPerforms DEF Cache!TableNext
  <2>7. CASE DiskError
    BY <2>7, FailureRefuses DEF DiskError, Cache!TableNext
  <2>8. CASE Crash
    <3>1. call' = Cache!NoCall /\ file' = file /\ Shown' = "none"
      BY <2>8 DEF Crash, Return, Shown, NoCall, Cache!NoCall
    <3> QED
      BY <3>1 DEF Cache!Die, Cache!TableNext, Shown
  <2> QED
    BY <2>2, <2>3, <2>4, <2>5, <2>6, <2>7, <2>8 DEF Next
<1>3. IInv /\ [Next]_vars
        => [Cache!TableNext]_<<[products |-> file.products, sales |-> file.sales,
                                mark |-> file.mark, cursor |-> file.cursor,
                                synced |-> file.synced],
                               call,
                               IF answer \in {"disk", "constraint"} THEN "failed"
                               ELSE answer>>
  BY <1>2 DEF Table, Shown
<1> QED
  BY Invariant, <1>1, <1>3, PTL DEF Spec, WritesAreAtomic, Cache!TableSpec

-----------------------------------------------------------------------------
(* The sums that the views show.                                           *)

(* Every table of a file is finite.                                        *)
FiniteFile == IsFiniteSet(file.sales) /\ IsFiniteSet(file.products)

(* The tables of every file there may be are finite.                       *)
LEMMA FiniteInit == Init => FiniteFile
<1> SUFFICES ASSUME Init
             PROVE  FiniteFile
  OBVIOUS
<1>1. CASE file = NewFile
  BY <1>1, FS_EmptySet DEF NewFile, FiniteFile
<1>2. CASE file \in OldFiles
  BY <1>2, OldFile DEF FiniteFile
<1> QED
  BY <1>1, <1>2 DEF Init

(* Every step leaves the tables finite.                                    *)
LEMMA FiniteNext == IInv /\ FiniteFile /\ [Next]_vars => FiniteFile'
<1> SUFFICES ASSUME IInv, FiniteFile, [Next]_vars, file' # file
             PROVE  FiniteFile'
  BY DEF FiniteFile
<1>1. /\ call \in AllCalls
      /\ Table(file') = Cache!Effect(call, Table(file))
      /\ file' \in Files /\ file \in Files
  BY OnlyCommitWrites, CommitIsDone DEF Done, FileInv, IInv
<1> DEFINE t == Table(file)
<1>2. /\ t \in TableSet
      /\ t.products = file.products /\ t.sales = file.sales
      /\ Table(file').products = file'.products
      /\ Table(file').sales = file'.sales
  BY <1>1, TableOf
<1> HIDE DEF t
<1>3. CASE call.op = "replace"
  <2>1. PICK n \in Nat : call.rows \in Rows(n)
    BY <1>1, <1>3, CallKinds
  <2> DEFINE app == [i \in 1..n |-> call.rows[i].app]
             row == [i \in 1..n |-> [date |-> call.date,
                                     app |-> call.rows[i].app,
                                     units |-> call.rows[i].units]]
             apps == {call.rows[i].app : i \in DOMAIN call.rows}
             rows == Cache!RowsOf(call.date, call.rows)
             others == Cache!OtherDates(t.sales, call.date)
  <2>2. DOMAIN call.rows = 1..n /\ IsFiniteSet(1..n)
    BY <2>1, FS_Interval DEF Rows
  <2>3. apps = {app[i] : i \in 1..n} /\ rows = {row[i] : i \in 1..n}
    BY <2>2 DEF Cache!RowsOf
  <2>4. file'.products = t.products \cup apps /\ file'.sales = others \cup rows
    <3>1. Cache!Effect(call, t) =
            [t EXCEPT !.products =
                        @ \cup {call.rows[i].app : i \in DOMAIN call.rows},
                      !.sales = Cache!OtherDates(@, call.date)
                                  \cup Cache!RowsOf(call.date, call.rows)]
      BY <1>3, EffectOf
    <3> QED
      BY <1>1, <1>2, <3>1 DEF TableSet, t
  <2>5. IsFiniteSet(others) /\ IsFiniteSet(t.products)
    BY <1>2, FS_Subset DEF Cache!OtherDates, FiniteFile
  <2> HIDE DEF app, row, apps, rows, others
  <2>6. IsFiniteSet(apps) /\ IsFiniteSet(rows)
    BY <2>2, <2>3, FiniteImage
  <2>7. IsFiniteSet(file'.products) /\ IsFiniteSet(file'.sales)
    BY <2>4, <2>5, <2>6, FS_Union
  <2> QED
    BY <2>7 DEF FiniteFile
<1>4. CASE call.op = "clear"
  <2>1. file'.sales = {} /\ file'.products = {}
    <3>1. Cache!Effect(call, t) = Cache!EmptyTable
      BY <1>4, EffectOf
    <3> QED
      BY <1>1, <1>2, <3>1 DEF Cache!EmptyTable, t
  <2> QED
    BY <2>1, FS_EmptySet DEF FiniteFile
<1>5. CASE call.op \notin {"replace", "clear"}
  <2>1. call.op \in {"upgrade", "mark", "cursor", "synced", "create"}
    BY <1>1, <1>5, CallKinds
  <2>2. \/ Cache!Effect(call, t) = [t EXCEPT !.cursor = Cache!Seed(t)]
        \/ Cache!Effect(call, t) = Marked(t)
        \/ Cache!Effect(call, t) = [t EXCEPT !.cursor = call.date]
        \/ Cache!Effect(call, t) = Synced(t)
        \/ Cache!Effect(call, t) = t
    BY <2>1, EffectOf
  <2>3. file'.sales = file.sales /\ file'.products = file.products
    BY <1>1, <1>2, <2>2 DEF TableSet, Marked, Synced, t
  <2> QED
    BY <2>3 DEF FiniteFile
<1> QED
  BY <1>3, <1>4, <1>5

(* Whatever products are listed: if they include those of some rows, the   *)
(* sums per product add up to the sum of the rows.                         *)
LEMMA ListedSum ==
  ASSUME NEW rows, IsFiniteSet(rows), NEW K, IsFiniteSet(K),
         \A r \in rows : r.app \in K /\ r.units \in Int
  PROVE  Sum({[app |-> a, units |-> Sum({r \in rows : r.app = a})] : a \in K})
           = Sum(rows)
<1> DEFINE f == [r \in rows |-> r.units]
           c == [r \in rows |-> r.app]
           Of(a) == {r \in rows : r.app = a}
           h == [a \in K |-> SumFunctionOnSet(f, {r \in rows : c[r] = a})]
           m == [a \in K |-> [app |-> a, units |-> Sum(Of(a))]]
           T == {[app |-> a, units |-> Sum(Of(a))] : a \in K}
           g == [r \in T |-> r.units]
<1>1. SumFunctionOnSet(h, K) = SumFunctionOnSet(f, rows)
  <2>1. (\A r \in rows : f[r] \in Int) /\ (\A r \in rows : c[r] \in K)
    OBVIOUS
  <2> HIDE DEF f, c
  <2> QED
    BY <2>1, SumOfGroups
<1>2. Sum(rows) = SumFunctionOnSet(f, rows)
  BY DEF Sum, SumFunction
<1>3. ASSUME NEW a \in K
      PROVE  Sum(Of(a)) = h[a] /\ h[a] \in Int
  <2>1. {r \in rows : c[r] = a} = Of(a)
    OBVIOUS
  <2>2. h[a] = SumFunctionOnSet(f, Of(a))
    BY <2>1
  <2>3. IsFiniteSet(Of(a)) /\ \A r \in Of(a) : f[r] \in Int
    BY FS_Subset
  <2>4. Sum(Of(a)) = SumFunctionOnSet([r \in Of(a) |-> r.units], Of(a))
    BY DEF Sum, SumFunction
  <2>5. \A r \in Of(a) : [s \in Of(a) |-> s.units][r] = f[r]
    OBVIOUS
  <2> HIDE DEF h, f, Of
  <2>6. SumFunctionOnSet([r \in Of(a) |-> r.units], Of(a)) =
          SumFunctionOnSet(f, Of(a))
    BY <2>3, <2>5, SumEqual
  <2>7. SumFunctionOnSet(f, Of(a)) \in Int
    BY <2>3, SumType
  <2> QED
    BY <2>2, <2>4, <2>6, <2>7
<1>4. SumFunctionOnSet(g, T) = SumFunctionOnSet(h, K)
  <2>1. \A a \in K : m[a] \in T /\ g[m[a]] = h[a]
    BY <1>3
  <2>2. \A a, b \in K : m[a] = m[b] => a = b
    OBVIOUS
  <2>3. \A r \in T : \E a \in K : m[a] = r
    OBVIOUS
  <2> HIDE DEF h, m, T, g, Of
  <2> QED
    BY <1>3, <2>1, <2>2, <2>3, SumRenamed
<1>5. Sum(T) = SumFunctionOnSet(g, T)
  BY DEF Sum, SumFunction
<1> QED
  BY <1>1, <1>2, <1>4, <1>5

(* In every committed state the list of a period and its total agree       *)
(* (SalesReader::QueryDate, QueryRange, QueryLifetime and the sums), for   *)
(* any number of rows: every row has its product, so none is lost in the   *)
(* join, and a product that is listed without rows adds nothing.           *)
THEOREM ListsAddUp == Spec => []ListMatchesTotal
<1>1. IInv /\ FiniteFile => ListMatchesTotal
  <2> SUFFICES ASSUME IInv, FiniteFile
               PROVE  ListMatchesTotal
    OBVIOUS
  <2>1. \A r \in file.sales : r.app \in file.products /\ r.units \in Int
    BY UnitsAssumption DEF IInv, FileInv, Files, SaleRows
  <2>2. ASSUME NEW rows \in SUBSET file.sales
        PROVE  Sum(Grouped(rows)) = Sum(rows)
    <3> DEFINE K == {r.app : r \in rows} \cap file.products
    <3>1. IsFiniteSet(rows) /\ IsFiniteSet(K)
      BY FS_Subset DEF FiniteFile
    <3>2. \A r \in rows : r.app \in K /\ r.units \in Int
      BY <2>1
    <3> HIDE DEF K
    <3>3. Sum({[app |-> a, units |-> Sum({r \in rows : r.app = a})] : a \in K})
            = Sum(rows)
      BY <3>1, <3>2, ListedSum
    <3> QED
      BY <3>3 DEF Grouped, K
  <2>3. ASSUME NEW a \in Dates, NEW b \in Dates
        PROVE  Sum(QueryRange(a, b)) = SumForRange(a, b)
    <3>1. Between(a, b) \in SUBSET file.sales
      BY DEF Between
    <3> QED
      BY <2>2, <3>1 DEF QueryRange, SumForRange
  <2>4. ASSUME NEW d \in Dates
        PROVE  Sum(QueryDate(d)) = SumForDate(d)
    <3>1. Between(d, d) = {r \in file.sales : r.date = d}
      <4>1. file.sales \subseteq SaleRows /\ d \in Nat
        BY StoredDatesAssumption DEF IInv, FileInv, Files
      <4>2. \A r \in file.sales : r.date \in Nat
        BY <4>1, StoredDatesAssumption DEF SaleRows
      <4> QED
        BY <4>1, <4>2 DEF Between
    <3>2. IsFiniteSet(Between(d, d))
      BY FS_Subset DEF FiniteFile, Between
    <3>3. \A r \in Between(d, d) : r.app \in file.products /\ r.units \in Int
      BY <2>1 DEF Between
    <3>4. Sum(QueryDate(d)) = Sum(Between(d, d))
      BY <3>2, <3>3, ListedSum DEF QueryDate, FiniteFile
    <3> QED
      BY <3>1, <3>4 DEF SumForDate
  <2>5. Sum(QueryLifetime) = SumLifetime
    BY <2>2 DEF QueryLifetime, SumLifetime
  <2> QED
    BY <2>3, <2>4, <2>5 DEF ListMatchesTotal
<1>2. Spec => []FiniteFile
  BY Invariant, FiniteInit, FiniteNext, PTL DEF Spec
<1> QED
  BY <1>1, <1>2, Invariant, PTL
=============================================================================
