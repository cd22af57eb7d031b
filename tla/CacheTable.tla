----------------------------- MODULE CacheTable -----------------------------
(***************************************************************************)
(* What storage/Database.h promises of a call that writes the cache: it    *)
(* takes effect completely and answers "done", or has no effect at all and *)
(* answers "failed".  A process that dies during a call leaves the cache   *)
(* as it was.  CacheDatabase is the transaction that keeps this promise.   *)
(*                                                                         *)
(* In one point the effect is that of the code and not the promised one:   *)
(* "clear" resets the time of the last successful synchronization          *)
(* (Database.cpp:293), which Database.h:52 says is kept.                   *)
(***************************************************************************)
EXTENDS Naturals, Sequences

CONSTANTS Apps,   \* products (their app ids)
          Dates,  \* financial dates, positive; their order is the numeric one
          Units   \* net units of a row

VARIABLES table,   \* the committed contents of sales.db
          call,    \* the call being executed
          answer   \* what the last call returned

NoCursor == 0

SaleRows == [date : Dates, app : Apps, units : Units]

EmptyTable == [products |-> {}, sales |-> {}, mark |-> FALSE,
               cursor |-> NoCursor, synced |-> FALSE]

NoCall == [op |-> "none"]

RowsOf(date, rows) ==
  {[date |-> date, app |-> rows[i].app, units |-> rows[i].units] :
     i \in DOMAIN rows}

OtherDates(sales, date) == {r \in sales : r.date # date}

(* A version 1 cache without a mark resumes after its newest stored date,  *)
(* whether its first synchronization was finished or not.                  *)
Seed(t) ==
  IF ~t.mark /\ t.sales # {}
  THEN CHOOSE d \in {r.date : r \in t.sales} : \A r \in t.sales : r.date <= d
  ELSE NoCursor

Effect(c, t) ==
  CASE c.op = "replace" ->
         [t EXCEPT !.products = @ \cup {c.rows[i].app : i \in DOMAIN c.rows},
                   !.sales = OtherDates(@, c.date) \cup RowsOf(c.date, c.rows)]
    [] c.op = "clear" -> EmptyTable
    [] c.op = "upgrade" -> [t EXCEPT !.cursor = Seed(t)]
    [] c.op = "mark" -> [t EXCEPT !.mark = TRUE]
    [] c.op = "cursor" -> [t EXCEPT !.cursor = c.date]
    [] c.op = "synced" -> [t EXCEPT !.synced = TRUE]
    [] OTHER -> t

TableInit == call = NoCall /\ answer = "none"

Ask == call = NoCall /\ call' # NoCall /\ UNCHANGED table /\ answer' = "none"

Perform ==
  /\ call # NoCall
  /\ table' = Effect(call, table)
  /\ answer' = "done"
  /\ call' = NoCall

Refuse ==
  /\ call # NoCall
  /\ answer' = "failed"
  /\ call' = NoCall
  /\ UNCHANGED table

(* The process dies.                                                       *)
Die ==
  /\ call' = NoCall
  /\ answer' = "none"
  /\ UNCHANGED table

TableNext == Ask \/ Perform \/ Refuse \/ Die

TableSpec == TableInit /\ [][TableNext]_<<table, call, answer>>
=============================================================================
