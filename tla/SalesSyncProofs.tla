-------------------------- MODULE SalesSyncProofs --------------------------
(***************************************************************************)
(* Theorems about SalesSync, for every set of dates, every number of pages *)
(* and every number of changes at the service; last, that the worker writes*)
(* the cache by the calls of CacheTable.                                   *)
(***************************************************************************)
EXTENDS SalesSync, TLAPS

(* What holds of the cache and of the cache that survives a loss of power. *)
CacheInv(c) ==
  /\ c.mark <= clock /\ c.lastSync <= clock
  /\ \A d \in Dates : Covered(c, d)
  /\ CompleteUpTo(c, c.lastSync)
  /\ c.cursor # NoCursor => c.sales[c.cursor] # {}

(* No change id in use is above the last one given out.                    *)
Bounds ==
  /\ \A d \in Dates : revision[d] <= clock
  /\ result <= clock
  /\ now <= clock

InLoop == pc \in {"Fetch", "Checkpoint", "EndBackfill", "Finish"}

(* What the rest of the pass owes: every date that has not changed since   *)
(* the query, which is what the mark and the time that the pass will store *)
(* speak of, is current, skipped or still to be processed.                 *)
LoopInv ==
  InLoop =>
    /\ result \in {0, now} /\ now # 0
    /\ db.mark <= now /\ db.lastSync <= now
    /\ \A d \in Dates : \/ revision[d] > now
                        \/ d \in todo
                        \/ Current(db, d)
                        \/ d \in db.lost
    /\ pc \in {"EndBackfill", "Finish"} => todo = {}

(* Only dates that have figures are processed.                             *)
TodoInv == \A d \in todo : revision[d] > 0

(* The pages of the date being fetched agree with what the service         *)
(* publishes, or the date has changed since the query, which puts it above *)
(* the old and the new mark and after the old and the new time.            *)
FetchInv ==
  pc = "Fetch" =>
    /\ page > 0 => seen # {}
    /\ \A d \in Dates : IsOldest(d) =>
         seen \subseteq {revision[d]} \/ revision[d] > now

(* The same of the date that was just stored.                              *)
StoredInv ==
  pc = "Checkpoint" =>
    \A d \in Dates : IsOldest(d) =>
      /\ db.sales[d] # {}
      /\ db.sales[d] = {revision[d]} \/ revision[d] > now

PassInv == LoopInv /\ TodoInv /\ FetchInv /\ StoredInv

IInv == TypeOK /\ Bounds /\ CacheInv(db) /\ CacheInv(disk) /\ PassInv

-----------------------------------------------------------------------------
(* Type correctness: the constant records first, then one case per action. *)

(* A new or a rebuilt file is a cache record.                              *)
LEMMA EmptyCacheType == EmptyCache \in CacheRecord
  BY DEF EmptyCache, CacheRecord, NoMark, NoCursor

(* The initial values have their types.                                    *)
LEMMA TypeInit == Init => TypeOK
<1> SUFFICES ASSUME Init
             PROVE  TypeOK
  OBVIOUS
<1>1. page \in 0..PagesPerDate
  BY PagesAssumption DEF Init
<1>2. revision \in [Dates -> Nat] /\ clock \in Nat /\ result \in Nat
      /\ now \in Nat
  BY DEF Init
<1>3. db \in CacheRecord /\ disk \in CacheRecord
  BY EmptyCacheType DEF Init
<1>4. status \in Statuses
  BY DEF Init, Statuses
<1> QED
  BY <1>1, <1>2, <1>3, <1>4 DEF Init, TypeOK

(* ClearAllSales leaves a cache record.                                    *)
LEMMA ClearedType ==
  ASSUME NEW c \in CacheRecord
  PROVE  Cleared(c) \in CacheRecord
  BY DEF Cleared, CacheRecord, NoMark, NoCursor

(* Every failure of a request maps to a status.                            *)
LEMMA StatusFromKindType ==
  ASSUME NEW kind \in Kinds
  PROVE  StatusFromKind(kind) \in Statuses
  BY DEF Kinds, StatusFromKind, Statuses

(* The locals of no pass have their types.                                 *)
LEMMA DropLocalsType ==
  ASSUME DropLocals
  PROVE  /\ initial' \in BOOLEAN
         /\ result' \in Nat /\ now' \in Nat
         /\ todo' \in SUBSET Dates
         /\ page' \in 0..PagesPerDate
         /\ seen' \in SUBSET Nat
<1>1. 0 \in 0..PagesPerDate
  BY PagesAssumption
<1> QED
  BY <1>1 DEF DropLocals

(* Every step keeps the types.                                             *)
LEMMA TypeNext == TypeOK /\ [Next]_vars => TypeOK'
<1> SUFFICES ASSUME TypeOK, [Next]_vars
             PROVE  TypeOK'
  OBVIOUS
<1> USE DEF service, cache, pass
<1>1. CASE UNCHANGED vars
  BY <1>1 DEF vars, TypeOK
<1>2. ASSUME NEW d \in Dates, Revise(d)
      PROVE  TypeOK'
  BY <1>2 DEF Revise, TypeOK
<1>3. CASE Flush
  BY <1>3 DEF Flush, TypeOK
<1>4. CASE Crash
  BY <1>4, DropLocalsType DEF Crash, EndProcess, TypeOK, Statuses
<1>5. CASE PowerLoss
  BY <1>5, DropLocalsType DEF PowerLoss, EndProcess, TypeOK, Statuses
<1>6. CASE Launch
  BY <1>6 DEF Launch, TypeOK
<1>7. CASE Rebuild
  BY <1>7, EmptyCacheType DEF Rebuild, TypeOK
<1>8. CASE Startup
  BY <1>8 DEF Startup, TypeOK, Statuses
<1>9. CASE RequestClearCache
  BY <1>9 DEF RequestClearCache, TypeOK
<1>10. CASE Wake
  BY <1>10 DEF Wake, TypeOK
<1>11. CASE BeginPass
  BY <1>11 DEF BeginPass, TypeOK, Statuses
<1>12. CASE OpenFailed
  BY <1>12, DropLocalsType DEF OpenFailed, EndPass, TypeOK, Statuses
<1>13. CASE ClearIfRequested
  BY <1>13, ClearedType DEF ClearIfRequested, IgnoringErrors, TypeOK
<1>14. CASE LoadKey
  BY <1>14 DEF LoadKey, IgnoringErrors, TypeOK
<1>15. CASE KeyMissing
  BY <1>15, DropLocalsType DEF KeyMissing, EndPass, TypeOK, Statuses
<1>16. ASSUME NEW kind \in Kinds, ChangedDatesFailed(kind)
       PROVE  TypeOK'
  BY <1>16, DropLocalsType, StatusFromKindType
  DEF ChangedDatesFailed, EndPass, TypeOK
<1>17. CASE NoChanges
  <2>1. db' \in CacheRecord
    BY <1>17 DEF NoChanges, IgnoringErrors, TypeOK, CacheRecord
  <2> QED
    BY <1>17, <2>1, DropLocalsType DEF NoChanges, EndPass, TypeOK, Statuses
<1>18. CASE ChangesFound
  <2>1. db' \in CacheRecord
    BY <1>18 DEF ChangesFound, TypeOK, CacheRecord, Skipped, ChangedDates
  <2>2. todo' \in SUBSET Dates
    BY <1>18 DEF ChangesFound, ChangedDates
  <2> QED
    BY <1>18, <2>1, <2>2, PagesAssumption DEF ChangesFound, TypeOK
<1>19. ASSUME NEW d \in Dates, FetchPage(d)
       PROVE  TypeOK'
  <2>1. page' \in 0..PagesPerDate
    BY <1>19, PagesAssumption DEF FetchPage, TypeOK
  <2>2. seen' \in SUBSET Nat
    BY <1>19 DEF FetchPage, TypeOK
  <2> QED
    BY <1>19, <2>1, <2>2 DEF FetchPage, TypeOK
<1>20. ASSUME NEW kind \in Kinds, FetchFailed(kind)
       PROVE  TypeOK'
  BY <1>20, DropLocalsType, StatusFromKindType
  DEF FetchFailed, EndPass, TypeOK
<1>21. ASSUME NEW d \in Dates, StoreDate(d)
       PROVE  TypeOK'
  <2>1. db' \in CacheRecord
    BY <1>21 DEF StoreDate, ReplaceDate, TypeOK, CacheRecord
  <2> QED
    BY <1>21, <2>1 DEF StoreDate, TypeOK
<1>22. CASE StoreFailed
  BY <1>22, DropLocalsType DEF StoreFailed, EndPass, TypeOK, Statuses
<1>23. ASSUME NEW d \in Dates, Checkpoint(d)
       PROVE  TypeOK'
  <2>1. db' \in CacheRecord
    BY <1>23 DEF Checkpoint, IgnoringErrors, TypeOK, CacheRecord
  <2> QED
    BY <1>23, <2>1, PagesAssumption DEF Checkpoint, TypeOK
<1>24. CASE AdvanceMark
  <2>1. db' \in CacheRecord
    BY <1>24 DEF AdvanceMark, IgnoringErrors, TypeOK, CacheRecord
  <2> QED
    BY <1>24, <2>1 DEF AdvanceMark, TypeOK
<1>25. CASE EndBackfill
  <2>1. db' \in CacheRecord
    BY <1>25 DEF EndBackfill, IgnoringErrors, TypeOK, CacheRecord, NoCursor
  <2> QED
    BY <1>25, <2>1 DEF EndBackfill, TypeOK
<1>26. CASE Finish
  <2>1. db' \in CacheRecord
    BY <1>26 DEF Finish, IgnoringErrors, TypeOK, CacheRecord
  <2> QED
    BY <1>26, <2>1, DropLocalsType DEF Finish, EndPass, TypeOK, Statuses
<1> QED
  BY <1>1, <1>2, <1>3, <1>4, <1>5, <1>6, <1>7, <1>8, <1>9, <1>10, <1>11,
     <1>12, <1>13, <1>14, <1>15, <1>16, <1>17, <1>18, <1>19, <1>20, <1>21,
     <1>22, <1>23, <1>24, <1>25, <1>26
  DEF Next, Worker, Disturbance

(* The worker, the service and the cache keep their types: in particular   *)
(* no date is fetched past its last page (GetAllDetailedSalesForDate).     *)
THEOREM TypeCorrect == Spec => []TypeOK
  BY TypeInit, TypeNext, PTL DEF Spec

-----------------------------------------------------------------------------
(* The inductive invariant: lemmas about the cache.                        *)

(* A cache without rows, mark, cursor and time promises nothing.           *)
LEMMA BlankInv ==
  ASSUME TypeOK, NEW c, c.sales = [d \in Dates |-> {}], c.mark = 0,
         c.cursor = 0, c.lastSync = 0
  PROVE  CacheInv(c)
<1>1. \A d \in Dates : revision[d] \in Nat
  BY DEF TypeOK
<1>2. ASSUME NEW d \in Dates
      PROVE  Covered(c, d) /\ (revision[d] <= 0 => Current(c, d))
  <2>1. CASE revision[d] = 0
    BY <2>1 DEF Covered, Current
  <2>2. CASE revision[d] > 0
    BY <1>1, <2>2 DEF Covered
  <2> QED
    BY <1>1, <2>1, <2>2
<1> QED
  BY <1>2 DEF CacheInv, CompleteUpTo, NoCursor, TypeOK

(* A new or a rebuilt file promises nothing.                               *)
LEMMA EmptyCacheInv == TypeOK => CacheInv(EmptyCache)
<1> DEFINE c == EmptyCache
<1>1. c.sales = [d \in Dates |-> {}] /\ c.mark = 0 /\ c.cursor = 0
      /\ c.lastSync = 0
  BY DEF EmptyCache, NoMark, NoCursor
<1> HIDE DEF c
<1>2. TypeOK => CacheInv(c)
  BY <1>1, BlankInv
<1> QED
  BY <1>2 DEF c

(* What holds of a cache still holds after a step that leaves the service  *)
(* alone and copies it.                                                    *)
LEMMA DbStable ==
  ASSUME UNCHANGED service
  PROVE  /\ CacheInv(db) /\ db' = db => CacheInv(db)'
         /\ CacheInv(disk) /\ disk' = disk => CacheInv(disk)'
         /\ CacheInv(db) /\ disk' = db => CacheInv(disk)'
         /\ CacheInv(disk) /\ db' = disk => CacheInv(db)'
  BY DEF service, CacheInv, Covered, Current, CompleteUpTo

(* A cleared cache promises nothing.                                       *)
LEMMA ClearedInv ==
  ASSUME TypeOK, TypeOK', UNCHANGED service, db' = Cleared(db)
  PROVE  CacheInv(db)'
<1>1. /\ db'.sales = [d \in Dates |-> {}] /\ db'.mark = 0
      /\ db'.cursor = 0 /\ db'.lastSync = 0
  BY DEF Cleared, TypeOK, CacheRecord, NoMark, NoCursor
<1>2. CacheInv(db')
  BY <1>1, BlankInv
<1> QED
  BY <1>2 DEF CacheInv, Covered, Current, CompleteUpTo, service

(* A return to a state outside the pass owes nothing.                      *)
LEMMA OutsidePass ==
  ASSUME TodoInv, UNCHANGED service, todo' \in {todo, {}},
         pc' \notin {"Fetch", "Checkpoint", "EndBackfill", "Finish"}
  PROVE  PassInv'
  BY DEF PassInv, LoopInv, TodoInv, FetchInv, StoredInv, InLoop,
         service

(* The invariant holds initially.                                          *)
LEMMA InitInv == Init => IInv
<1> SUFFICES ASSUME Init
             PROVE  IInv
  OBVIOUS
<1>1. TypeOK
  BY TypeInit
<1>2. Bounds
  BY DEF Init, Bounds
<1>3. CacheInv(db) /\ CacheInv(disk)
  BY <1>1, EmptyCacheInv DEF Init
<1>4. PassInv
  BY DEF Init, PassInv, LoopInv, TodoInv, FetchInv, StoredInv, InLoop
<1> QED
  BY <1>1, <1>2, <1>3, <1>4 DEF IInv

-----------------------------------------------------------------------------
(* One lemma per action that touches what the invariant speaks of.         *)

(* A change at the service lifts its date above every mark in use.         *)
LEMMA ReviseInv ==
  ASSUME IInv, NEW d \in Dates, Revise(d)
  PROVE  Bounds' /\ CacheInv(db)' /\ CacheInv(disk)' /\ PassInv'
<1> USE DEF service, cache, pass
<1>1. /\ clock \in Nat /\ clock' = clock + 1 /\ revision' \in [Dates -> Nat]
      /\ revision \in [Dates -> Nat]
      /\ revision'[d] = clock + 1
      /\ \A e \in Dates : e # d => revision'[e] = revision[e]
      /\ result \in Nat /\ now \in Nat /\ db.mark \in Nat
      /\ disk.mark \in Nat /\ db.lastSync \in Nat /\ disk.lastSync \in Nat
      /\ todo \in SUBSET Dates
  BY DEF IInv, TypeOK, CacheRecord, Revise
<1>2. UNCHANGED <<db, disk, pc, result, now, todo, page, seen>>
  BY DEF Revise
<1>3. Bounds'
  BY <1>1, <1>2 DEF IInv, Bounds
<1>4. CacheInv(db)'
  BY <1>1, <1>2 DEF IInv, CacheInv, Covered, Current, CompleteUpTo
<1>5. CacheInv(disk)'
  BY <1>1, <1>2 DEF IInv, CacheInv, Covered, Current, CompleteUpTo
<1>6. LoopInv'
  BY <1>1, <1>2 DEF IInv, PassInv, LoopInv, InLoop, Bounds, Current
<1>7. TodoInv'
  BY <1>1, <1>2 DEF IInv, PassInv, TodoInv
<1>8. FetchInv'
  BY <1>1, <1>2 DEF IInv, PassInv, FetchInv, Bounds, CacheInv, IsOldest
<1>9. StoredInv'
  BY <1>1, <1>2 DEF IInv, PassInv, StoredInv, Bounds, IsOldest
<1> QED
  BY <1>3, <1>4, <1>5, <1>6, <1>7, <1>8, <1>9 DEF PassInv

(* "Nothing changed" makes the new mark safe: all dates at or below it are *)
(* covered because they are at or below the old one.                       *)
LEMMA NoChangesInv ==
  ASSUME IInv, TypeOK', NoChanges
  PROVE  CacheInv(db)'
<1> USE DEF service, cache, pass
<1>1. /\ UNCHANGED service
      /\ clock \in Nat /\ revision \in [Dates -> Nat] /\ db.mark \in Nat
      /\ db \in CacheRecord
  BY DEF IInv, TypeOK, CacheRecord, NoChanges, EndPass
<1>2. CacheInv(db)
  BY DEF IInv
<1>3. PICK mark \in {clock, db.mark} :
        db' \in {[db EXCEPT !.mark = mark], db}
  BY DEF NoChanges, IgnoringErrors
<1>4. CASE db' = db
  BY <1>1, <1>2, <1>4, DbStable
<1>5. CASE db' = [db EXCEPT !.mark = mark]
  <2>1. /\ db'.sales = db.sales /\ db'.cursor = db.cursor /\ db'.mark = mark
        /\ db'.lastSync = db.lastSync /\ db'.lost = db.lost
    BY <1>1, <1>5 DEF CacheRecord
  <2>2. ASSUME NEW d \in Dates
        PROVE  Current(db, d) \/ d \in db.lost
    <3>1. Covered(db, d)
      BY <1>2 DEF CacheInv
    <3>2. ~(revision[d] > PassMark)
      BY DEF NoChanges, ChangedDates
    <3>3. PassMark <= db.mark
      BY <1>1 DEF PassMark, NoMark
    <3>4. PassMark \in Nat
      BY <1>1 DEF PassMark, NoMark
    <3> QED
      BY <1>1, <3>1, <3>2, <3>3, <3>4 DEF Covered
  <2>3. \A d \in Dates : Covered(db, d)'
    BY <1>1, <2>1, <2>2 DEF Covered, Current
  <2> QED
    BY <1>1, <1>2, <2>1, <2>3 DEF CacheInv, CompleteUpTo, Current
<1> QED
  BY <1>3, <1>4, <1>5

(* The query: a date that is neither to be processed nor skipped was       *)
(* covered below the old mark.                                             *)
LEMMA ChangesFoundInv ==
  ASSUME IInv, TypeOK', ChangesFound
  PROVE  Bounds' /\ CacheInv(db)' /\ PassInv'
<1> USE DEF service, cache, pass
<1>1. /\ UNCHANGED service
      /\ clock \in Nat /\ revision \in [Dates -> Nat] /\ db.mark \in Nat
      /\ db \in CacheRecord /\ result' \in {clock, 0} /\ now' = clock
      /\ pc' = "Fetch" /\ page' = 0 /\ seen' = {}
      /\ db.cursor \in Dates \cup {0}
  BY DEF IInv, TypeOK, CacheRecord, ChangesFound, NoCursor
<1>2. CacheInv(db)
  BY DEF IInv
<1> DEFINE changed == ChangedDates(PassMark)
<1>3. PICK cursor \in IgnoringErrors(db.cursor, NoCursor) :
        /\ todo' = changed \ Skipped(changed, cursor)
        /\ db' = [db EXCEPT !.lost = @ \cup
                     {d \in Skipped(changed, cursor) : ~Current(db, d)}]
  BY DEF ChangesFound
<1> DEFINE skipped == Skipped(changed, cursor)
<1>4. /\ db'.sales = db.sales /\ db'.cursor = db.cursor /\ db'.mark = db.mark
      /\ db'.lastSync = db.lastSync
      /\ db'.lost = db.lost \cup {d \in skipped : ~Current(db, d)}
  BY <1>1, <1>3 DEF CacheRecord
<1>5. /\ changed = {d \in Dates : revision[d] > PassMark}
      /\ changed # {} /\ skipped \subseteq changed
      /\ PassMark \in Nat /\ PassMark <= db.mark
  BY <1>1 DEF ChangedDates, Skipped, PassMark, NoMark, ChangesFound
<1> HIDE DEF changed, skipped
<1>6. CacheInv(db)'
  BY <1>1, <1>2, <1>4 DEF CacheInv, Covered, Current, CompleteUpTo
<1>7. Bounds'
  BY <1>1 DEF IInv, Bounds
<1>8. TodoInv'
  BY <1>1, <1>3, <1>5 DEF TodoInv, changed
<1>9. FetchInv'
  BY <1>1 DEF FetchInv
<1>10. ASSUME NEW d \in Dates
       PROVE  d \in todo' \/ Current(db, d)' \/ d \in db'.lost
  <2>1. CASE d \in changed
    BY <1>1, <1>3, <1>4, <2>1 DEF Current, skipped, changed
  <2>2. CASE d \notin changed
    <3>1. ~(revision[d] > db.mark)
      BY <1>1, <1>5, <2>2
    <3> QED
      BY <1>1, <1>2, <1>4, <3>1 DEF CacheInv, Covered, Current
  <2> QED
    BY <2>1, <2>2
<1>11. LoopInv'
  <2>1. clock # 0
    <3>1. PICK d \in Dates : revision[d] > PassMark /\ revision[d] <= clock
      BY <1>5 DEF IInv, Bounds
    <3> QED
      BY <1>1, <1>5, <3>1
  <2> QED
    BY <1>1, <1>2, <1>4, <1>10, <2>1 DEF LoopInv, CacheInv, InLoop
<1>12. StoredInv'
  BY <1>1 DEF StoredInv
<1> QED
  BY <1>6, <1>7, <1>8, <1>9, <1>11, <1>12 DEF PassInv

(* Two dates cannot both be the oldest.                                    *)
LEMMA OldestUnique ==
  ASSUME TypeOK, NEW d, NEW e, IsOldest(d), IsOldest(e)
  PROVE  d = e
<1>1. d \in Nat /\ e \in Nat /\ d <= e /\ e <= d
  BY DatesAssumption DEF TypeOK, IsOldest
<1> QED
  BY <1>1

(* A page read now agrees with what the service publishes now.             *)
LEMMA FetchPageInv ==
  ASSUME IInv, TypeOK', NEW d \in Dates, FetchPage(d)
  PROVE  PassInv'
<1> USE DEF service, cache, pass
<1>1. /\ UNCHANGED <<service, db, pc, result, now, todo>>
      /\ pc = "Fetch" /\ IsOldest(d) /\ seen' = seen \cup {revision[d]}
  BY DEF FetchPage
<1>2. ASSUME NEW e \in Dates, IsOldest(e)'
      PROVE  seen' \subseteq {revision[e]} \/ revision[e] > now
  <2>1. IsOldest(e)
    BY <1>1, <1>2 DEF IsOldest
  <2>2. e = d
    BY <1>1, <2>1, OldestUnique DEF IInv
  <2> QED
    BY <1>1, <2>1, <2>2 DEF IInv, PassInv, FetchInv
<1>3. FetchInv'
  BY <1>1, <1>2 DEF FetchInv
<1>4. LoopInv' /\ TodoInv' /\ StoredInv'
  BY <1>1 DEF IInv, PassInv, LoopInv, TodoInv, StoredInv, InLoop,
              Current
<1> QED
  BY <1>3, <1>4 DEF PassInv

(* Rows read at several change ids are stored only for a date that is      *)
(* above the marks and will be read again.                                 *)
LEMMA StoreDateInv ==
  ASSUME IInv, TypeOK', NEW d \in Dates, StoreDate(d)
  PROVE  CacheInv(db)' /\ PassInv'
<1> USE DEF service, cache, pass
<1>1. /\ UNCHANGED <<service, result, now, todo, page, seen>>
      /\ pc = "Fetch" /\ IsOldest(d) /\ pc' = "Checkpoint"
      /\ d \in todo /\ page = PagesPerDate
      /\ clock \in Nat /\ revision \in [Dates -> Nat] /\ db \in CacheRecord
  BY DEF StoreDate, IsOldest, IInv, TypeOK
<1>2. /\ db'.sales = [db.sales EXCEPT ![d] = seen] /\ db'.cursor = db.cursor
      /\ db'.mark = db.mark /\ db'.lastSync = db.lastSync
      /\ db'.lost = db.lost \ {d}
      /\ db.sales \in [Dates -> SUBSET Nat]
      /\ db.cursor \in Dates \cup {NoCursor}
  BY <1>1 DEF StoreDate, ReplaceDate, CacheRecord
<1>3. /\ db'.sales[d] = seen
      /\ \A e \in Dates : e # d => db'.sales[e] = db.sales[e]
  BY <1>2
<1>4. seen # {} /\ revision[d] > 0
  BY <1>1, PagesAssumption DEF IInv, PassInv, FetchInv, TodoInv
<1>5. seen = {revision[d]} \/ revision[d] > now
  BY <1>1, <1>4 DEF IInv, PassInv, FetchInv
<1>5a. /\ db.mark <= now /\ db.lastSync <= now /\ now \in Nat
       /\ db.mark \in Nat /\ db.lastSync \in Nat /\ revision[d] \in Nat
  BY <1>1 DEF IInv, PassInv, LoopInv, InLoop, TypeOK, CacheRecord
<1>6. seen = {revision[d]} => Current(db, d)'
  BY <1>1, <1>3, <1>4 DEF Current
<1>7. CacheInv(db)'
  <2> HIDE DEF service, cache, pass
  <2>0. CacheInv(db)
    BY DEF IInv
  <2>1. ASSUME NEW e \in Dates
        PROVE  Covered(db, e)'
    <3>1. CASE e = d
      BY <1>1, <1>2, <1>5, <1>5a, <1>6, <3>1 DEF Covered, service
    <3>2. CASE e # d
      <4>1. Covered(db, e)
        BY <2>0 DEF CacheInv
      <4>2. revision'[e] = revision[e]
        BY <1>1 DEF service
      <4> QED
        BY <1>2, <1>3, <3>2, <4>1, <4>2 DEF Covered, Current
    <3> QED
      BY <3>1, <3>2
  <2>2. ASSUME NEW e \in Dates, db.sales[e] # {}
        PROVE  db'.sales[e] # {}
    BY <1>3, <1>4, <2>2
  <2>3. db'.mark <= clock' /\ db'.lastSync <= clock'
    BY <1>1, <1>2, <2>0 DEF CacheInv, service
  <2>4. db'.cursor # NoCursor => db'.sales[db'.cursor] # {}
    BY <1>2, <2>0, <2>2 DEF CacheInv
  <2>5. ASSUME NEW e \in Dates, revision[e] <= db.lastSync
        PROVE  Current(db, e)' \/ e \in db'.lost
    <3>1. CASE e = d
      BY <1>5, <1>5a, <1>6, <2>5, <3>1
    <3>2. CASE e # d
      <4>1. Current(db, e) \/ e \in db.lost
        BY <2>0, <2>5 DEF CacheInv, CompleteUpTo
      <4>2. revision'[e] = revision[e]
        BY <1>1 DEF service
      <4> QED
        BY <1>2, <1>3, <3>2, <4>1, <4>2 DEF Current
    <3> QED
      BY <3>1, <3>2
  <2>6. CompleteUpTo(db, db.lastSync)'
    BY <1>1, <1>2, <2>5 DEF CompleteUpTo, Current, service
  <2> QED
    BY <2>1, <2>3, <2>4, <2>6 DEF CacheInv, CompleteUpTo, Covered, Current
<1>8. LoopInv'
  BY <1>1, <1>2, <1>3 DEF IInv, PassInv, LoopInv, InLoop, Current
<1>9. TodoInv' /\ FetchInv'
  BY <1>1 DEF IInv, PassInv, TodoInv, FetchInv
<1>10. StoredInv'
  <2>1. ASSUME NEW e \in Dates, IsOldest(e)'
        PROVE  e = d
    <3>1. IsOldest(e)
      BY <1>1, <2>1 DEF IsOldest
    <3> QED
      BY <1>1, <3>1, OldestUnique DEF IInv
  <2> QED
    BY <1>1, <1>3, <1>4, <1>5, <2>1 DEF StoredInv
<1> QED
  BY <1>7, <1>8, <1>9, <1>10 DEF PassInv

(* The cursor names the date that was just stored.                         *)
LEMMA CheckpointInv ==
  ASSUME IInv, TypeOK', NEW d \in Dates, Checkpoint(d)
  PROVE  CacheInv(db)' /\ PassInv'
<1> USE DEF service, cache, pass
<1>1. /\ UNCHANGED <<service, result, now>>
      /\ pc = "Checkpoint" /\ IsOldest(d) /\ pc' = "Fetch"
      /\ todo' = todo \ {d} /\ page' = 0 /\ seen' = {}
      /\ revision \in [Dates -> Nat] /\ db \in CacheRecord
      /\ db' \in {db, [db EXCEPT !.cursor = d]}
  BY DEF Checkpoint, IInv, TypeOK, IgnoringErrors
<1>2. /\ db'.sales = db.sales /\ db'.cursor \in {db.cursor, d}
      /\ db'.mark = db.mark /\ db'.lastSync = db.lastSync
      /\ db'.lost = db.lost
  BY <1>1 DEF CacheRecord
<1>3. /\ db.sales[d] # {} /\ revision[d] > 0
      /\ db.sales[d] = {revision[d]} \/ revision[d] > now
  BY <1>1 DEF IInv, PassInv, StoredInv, TodoInv, IsOldest
<1>4. CacheInv(db)'
  BY <1>1, <1>2, <1>3 DEF IInv, CacheInv, Covered, Current, CompleteUpTo
<1>5. Current(db, d) \/ revision[d] > now
  BY <1>1, <1>3 DEF Current
<1>6. LoopInv'
  BY <1>1, <1>2, <1>5 DEF IInv, PassInv, LoopInv, InLoop, Current
<1>7. TodoInv' /\ FetchInv' /\ StoredInv'
  BY <1>1 DEF IInv, PassInv, TodoInv, FetchInv, StoredInv
<1> QED
  BY <1>4, <1>6, <1>7 DEF PassInv

(* Nothing is left to process: whatever is not above the new mark is       *)
(* current or was skipped.                                                 *)
LEMMA AdvanceMarkInv ==
  ASSUME IInv, TypeOK', AdvanceMark
  PROVE  CacheInv(db)' /\ PassInv' /\ db.mark <= db'.mark
<1> USE DEF service, cache, pass
<1>1. /\ UNCHANGED <<service, result, now, todo, page, seen>>
      /\ pc = "Fetch" /\ todo = {} /\ pc' = "EndBackfill"
      /\ clock \in Nat /\ result \in Nat /\ revision \in [Dates -> Nat]
      /\ now \in Nat /\ db \in CacheRecord
      /\ \/ db' = db
         \/ result # 0 /\ db' = [db EXCEPT !.mark = result]
  BY DEF AdvanceMark, IInv, TypeOK, IgnoringErrors
<1>2. /\ db'.sales = db.sales /\ db'.cursor = db.cursor
      /\ db'.lastSync = db.lastSync /\ db'.lost = db.lost
      /\ db'.mark = db.mark \/ (result # 0 /\ db'.mark = result)
      /\ db.mark \in Nat
  BY <1>1 DEF CacheRecord
<1>3. /\ db.mark <= now /\ db.lastSync <= now /\ result \in {0, now}
      /\ \A d \in Dates : revision[d] > now \/ Current(db, d) \/ d \in db.lost
  BY <1>1 DEF IInv, PassInv, LoopInv, InLoop
<1>4. ASSUME db'.mark = db.mark
      PROVE  CacheInv(db)' /\ db.mark <= db'.mark
  <2>1. CacheInv(db)'
    BY <1>1, <1>2, <1>4 DEF IInv, CacheInv, Covered, Current, CompleteUpTo
  <2> QED
    BY <1>2, <1>4, <2>1
<1>5. ASSUME result # 0, db'.mark = result
      PROVE  CacheInv(db)' /\ db.mark <= db'.mark
  <2>1. /\ db.mark <= result
        /\ \A d \in Dates : revision[d] > result \/ Current(db, d)
                             \/ d \in db.lost
    BY <1>3, <1>5
  <2>2. \A d \in Dates : Covered(db, d)'
    BY <1>1, <1>2, <1>5, <2>1 DEF Covered, Current
  <2>3. CacheInv(db)'
    BY <1>1, <1>2, <1>5, <2>2
    DEF IInv, Bounds, CacheInv, CompleteUpTo, Current
  <2> QED
    BY <1>5, <2>1, <2>3
<1>6. PassInv'
  BY <1>1, <1>2, <1>3 DEF IInv, PassInv, LoopInv, TodoInv, FetchInv,
     StoredInv, InLoop, Current
<1>7. CacheInv(db)' /\ db.mark <= db'.mark
  BY <1>2, <1>4, <1>5
<1> QED
  BY <1>6, <1>7

(* The cursor of a backfill that is complete is deleted, nothing else.     *)
LEMMA EndBackfillInv ==
  ASSUME IInv, TypeOK', EndBackfill
  PROVE  CacheInv(db)' /\ PassInv'
<1> USE DEF service, cache, pass
<1>1. /\ UNCHANGED <<service, result, now, todo, page, seen>>
      /\ pc = "EndBackfill" /\ pc' = "Finish" /\ db \in CacheRecord
      /\ db' \in {db, [db EXCEPT !.cursor = NoCursor]}
  BY DEF EndBackfill, IgnoringErrors, IInv, TypeOK
<1>2. /\ db'.sales = db.sales /\ db'.cursor \in {db.cursor, NoCursor}
      /\ db'.mark = db.mark /\ db'.lastSync = db.lastSync /\ db'.lost = db.lost
  BY <1>1 DEF CacheRecord
<1>3. CacheInv(db)'
  BY <1>1, <1>2 DEF IInv, CacheInv, Covered, Current, CompleteUpTo
<1>4. PassInv'
  BY <1>1, <1>2 DEF IInv, PassInv, LoopInv, TodoInv, FetchInv,
     StoredInv, InLoop, Current
<1> QED
  BY <1>3, <1>4

(* The time is stamped on a cache that is complete up to it: nothing is    *)
(* left to process, and whatever changed later is after the time.          *)
LEMMA FinishInv ==
  ASSUME IInv, TypeOK', Finish
  PROVE  CacheInv(db)'
<1> USE DEF service, cache, pass
<1>1. /\ UNCHANGED service /\ pc = "Finish" /\ db \in CacheRecord
  BY DEF Finish, EndPass, IInv, TypeOK
<1>2. /\ db'.sales = db.sales /\ db'.cursor = db.cursor
      /\ db'.mark = db.mark /\ db'.lost = db.lost
      /\ db'.lastSync \in {db.lastSync, now}
  BY <1>1 DEF Finish, CacheRecord, IgnoringErrors
<1>3. /\ now <= clock /\ clock \in Nat /\ now \in Nat
      /\ revision \in [Dates -> Nat]
      /\ \A d \in Dates : revision[d] > now \/ Current(db, d) \/ d \in db.lost
  BY <1>1 DEF IInv, TypeOK, Bounds, PassInv, LoopInv, InLoop
<1>4. CompleteUpTo(db, db.lastSync)'
  BY <1>1, <1>2, <1>3 DEF IInv, CacheInv, Current, CompleteUpTo
<1> QED
  BY <1>1, <1>2, <1>3, <1>4 DEF IInv, CacheInv, Covered, Current

(* Every step preserves the invariant.                                     *)
LEMMA InvNext == IInv /\ [Next]_vars => IInv'
<1> SUFFICES ASSUME IInv, [Next]_vars
             PROVE  IInv'
  OBVIOUS
<1>1. TypeOK'
  BY TypeNext DEF IInv
<1>2. TypeOK /\ Bounds /\ CacheInv(db) /\ CacheInv(disk) /\ PassInv /\ TodoInv
  BY DEF IInv, PassInv
<1>3. clock \in Nat /\ revision \in [Dates -> Nat]
  BY <1>2 DEF TypeOK
<1> SUFFICES Bounds' /\ CacheInv(db)' /\ CacheInv(disk)' /\ PassInv'
  BY <1>1 DEF IInv
<1>4. CASE UNCHANGED vars
  BY <1>2, <1>4 DEF vars, service, cache, pass, Bounds, CacheInv, Covered,
     Current, CompleteUpTo, PassInv, LoopInv, TodoInv, FetchInv, StoredInv,
     InLoop, IsOldest
<1>5. ASSUME NEW d \in Dates, Revise(d)
      PROVE  Bounds' /\ CacheInv(db)' /\ CacheInv(disk)' /\ PassInv'
  BY <1>5, ReviseInv
<1>6. CASE Flush
  <2>1. UNCHANGED <<service, db, pc, pass>> /\ disk' = db
    BY <1>6 DEF Flush
  <2>2. CacheInv(db)' /\ CacheInv(disk)'
    BY <1>2, <2>1, DbStable
  <2> QED
    BY <1>2, <2>1, <2>2 DEF service, pass, Bounds, Current, PassInv,
       LoopInv, TodoInv, FetchInv, StoredInv, InLoop, IsOldest
<1>7. ASSUME UNCHANGED service, result' \in {result, 0}, now' \in {now, 0}
      PROVE  Bounds'
  BY <1>2, <1>3, <1>7 DEF Bounds, service, TypeOK
<1>8. CASE Crash \/ PowerLoss
  <2>1. /\ UNCHANGED <<service, disk>> /\ db' \in {db, disk} /\ pc' = "Launch"
        /\ result' = 0 /\ now' = 0 /\ todo' = {}
    BY <1>8 DEF Crash, PowerLoss, EndProcess, DropLocals, cache
  <2>2. CacheInv(db)' /\ CacheInv(disk)'
    BY <1>2, <2>1, DbStable
  <2> QED
    BY <1>2, <1>7, <2>1, <2>2, OutsidePass
<1>9. CASE Rebuild
  <2>1. /\ UNCHANGED <<service, result, now, todo>> /\ pc' = "Start"
        /\ db' = EmptyCache /\ disk' = EmptyCache
    BY <1>9 DEF Rebuild, pass
  <2>2. CacheInv(db') /\ CacheInv(disk')
    BY <1>2, <2>1, EmptyCacheInv
  <2>3. CacheInv(db)' /\ CacheInv(disk)'
    BY <2>1, <2>2 DEF CacheInv, Covered, Current, CompleteUpTo, service
  <2> QED
    BY <1>2, <1>7, <2>1, <2>3, OutsidePass
<1>10. CASE Launch \/ Startup \/ RequestClearCache \/ Wake \/ BeginPass
            \/ LoadKey
  <2>1. UNCHANGED <<service, db, disk, result, now, todo, page, seen>>
    BY <1>10 DEF Launch, Startup, RequestClearCache, Wake, BeginPass, LoadKey,
       cache, pass
  <2>2. \/ pc' = pc
        \/ pc' \notin {"Fetch", "Checkpoint", "EndBackfill", "Finish"}
    BY <1>10 DEF Launch, Startup, RequestClearCache, Wake, BeginPass, LoadKey
  <2>3. CacheInv(db)' /\ CacheInv(disk)'
    BY <1>2, <2>1, DbStable
  <2>4. CASE pc' = pc
    BY <1>2, <1>7, <2>1, <2>3, <2>4 DEF service, Current, PassInv,
       LoopInv, TodoInv, FetchInv, StoredInv, InLoop, IsOldest
  <2>5. CASE pc' \notin {"Fetch", "Checkpoint", "EndBackfill", "Finish"}
    BY <1>2, <1>7, <2>1, <2>3, <2>5, OutsidePass
  <2> QED
    BY <2>2, <2>4, <2>5
<1>11. ASSUME NEW s, EndPass(s), CacheInv(db)'
       PROVE  Bounds' /\ CacheInv(db)' /\ CacheInv(disk)' /\ PassInv'
  <2>1. /\ UNCHANGED <<service, disk>> /\ result' = 0 /\ now' = 0
        /\ todo' = {} /\ pc' = "Waiting"
    BY <1>11 DEF EndPass, DropLocals
  <2>2. CacheInv(disk)'
    BY <1>2, <2>1, DbStable
  <2> QED
    BY <1>2, <1>7, <1>11, <2>1, <2>2, OutsidePass
<1>12. ASSUME NEW s, EndPass(s), UNCHANGED db
       PROVE  Bounds' /\ CacheInv(db)' /\ CacheInv(disk)' /\ PassInv'
  <2>1. CacheInv(db)'
    BY <1>2, <1>12, DbStable DEF EndPass
  <2> QED
    BY <1>11, <1>12, <2>1
<1>13. CASE OpenFailed \/ KeyMissing \/ StoreFailed
  BY <1>12, <1>13 DEF OpenFailed, KeyMissing, StoreFailed
<1>14. ASSUME NEW kind \in Kinds, ChangedDatesFailed(kind) \/ FetchFailed(kind)
       PROVE  Bounds' /\ CacheInv(db)' /\ CacheInv(disk)' /\ PassInv'
  BY <1>12, <1>14 DEF ChangedDatesFailed, FetchFailed
<1>15. CASE ClearIfRequested
  <2>1. /\ UNCHANGED <<service, disk, result, now, todo>> /\ pc' = "Key"
        /\ db' \in {db, Cleared(db)}
    BY <1>15 DEF ClearIfRequested, IgnoringErrors, pass
  <2>2. CacheInv(db)'
    BY <1>1, <1>2, <2>1, ClearedInv, DbStable
  <2>3. CacheInv(disk)'
    BY <1>2, <2>1, DbStable
  <2> QED
    BY <1>2, <1>7, <2>1, <2>2, <2>3, OutsidePass
<1>16. CASE NoChanges
  BY <1>1, <1>11, <1>16, NoChangesInv DEF NoChanges
<1>17. ASSUME UNCHANGED <<service, disk>>
       PROVE  CacheInv(disk)'
  BY <1>2, <1>17, DbStable
<1>18. CASE ChangesFound
  BY <1>1, <1>17, <1>18, ChangesFoundInv DEF ChangesFound
<1>19. ASSUME NEW d \in Dates, FetchPage(d)
       PROVE  Bounds' /\ CacheInv(db)' /\ CacheInv(disk)' /\ PassInv'
  <2>1. UNCHANGED <<service, db, disk, result, now>>
    BY <1>19 DEF FetchPage, cache
  <2>2. CacheInv(db)'
    BY <1>2, <2>1, DbStable
  <2> QED
    BY <1>1, <1>7, <1>17, <1>19, <2>1, <2>2, FetchPageInv
<1>20. ASSUME NEW d \in Dates, StoreDate(d)
       PROVE  Bounds' /\ CacheInv(db)' /\ CacheInv(disk)' /\ PassInv'
  <2>1. UNCHANGED <<service, disk, result, now>>
    BY <1>20 DEF StoreDate, pass
  <2> QED
    BY <1>1, <1>7, <1>17, <1>20, <2>1, StoreDateInv
<1>21. ASSUME NEW d \in Dates, Checkpoint(d)
       PROVE  Bounds' /\ CacheInv(db)' /\ CacheInv(disk)' /\ PassInv'
  <2>1. UNCHANGED <<service, disk, result, now>>
    BY <1>21 DEF Checkpoint
  <2> QED
    BY <1>1, <1>7, <1>17, <1>21, <2>1, CheckpointInv
<1>22. CASE AdvanceMark
  <2>1. UNCHANGED <<service, disk, result, now>>
    BY <1>22 DEF AdvanceMark, pass
  <2> QED
    BY <1>1, <1>7, <1>17, <1>22, <2>1, AdvanceMarkInv
<1>23. CASE EndBackfill
  <2>1. UNCHANGED <<service, disk, result, now>>
    BY <1>23 DEF EndBackfill, pass
  <2> QED
    BY <1>1, <1>7, <1>17, <1>23, <2>1, EndBackfillInv
<1>24. CASE Finish
  BY <1>1, <1>11, <1>24, FinishInv DEF Finish
<1> QED
  BY <1>4, <1>5, <1>6, <1>8, <1>9, <1>10, <1>13, <1>14, <1>15, <1>16, <1>18,
     <1>19, <1>20, <1>21, <1>22, <1>23, <1>24
  DEF Next, Worker, Disturbance

(* The invariant holds always.                                             *)
LEMMA InvCorrect == Spec => []IInv
  BY InitInv, InvNext, PTL DEF Spec

-----------------------------------------------------------------------------
(* No update is lost: a date whose rows are not what the service publishes *)
(* stays above the stored mark, in the cache and in the cache a loss of    *)
(* power would leave, or is one that a resumed backfill skipped.           *)
THEOREM NoUpdateIsLost == Spec => []NoLostUpdate
<1>1. IInv => NoLostUpdate
  BY DEF IInv, CacheInv, NoLostUpdate
<1> QED
  BY <1>1, InvCorrect, PTL

(* The backfill cursor names a stored date (RunSynchronization checkpoints *)
(* after ReplaceDate, ClearAllSales resets both).                          *)
THEOREM CursorNamesStoredDate == Spec => []CheckpointBehindData
<1>1. IInv => CheckpointBehindData
  BY DEF IInv, CacheInv, CheckpointBehindData
<1> QED
  BY <1>1, InvCorrect, PTL

(* The time of a successful synchronization, which lets a start skip its   *)
(* first pass, is never later than what the cache holds: but for skipped   *)
(* dates it has the figures of every date that did not change after it.    *)
THEOREM FreshCacheIsUpToDate == Spec => []FreshCacheIsComplete
<1>1. IInv => FreshCacheIsComplete
  BY DEF IInv, CacheInv, FreshCacheIsComplete
<1> QED
  BY <1>1, InvCorrect, PTL

(* Of all steps of a state that satisfies the invariant, only those that   *)
(* replace the cache lower the mark.                                       *)
LEMMA MarkStep == IInv /\ [Next]_vars =>
  (db'.mark < db.mark => db' \in {disk, EmptyCache, Cleared(db)})
<1> SUFFICES ASSUME IInv, [Next]_vars, db'.mark < db.mark
             PROVE  db' \in {disk, EmptyCache, Cleared(db)}
  OBVIOUS
<1> USE DEF cache
<1>1. TypeOK /\ TypeOK' /\ db.mark \in Nat /\ clock \in Nat
      /\ db \in CacheRecord /\ db.mark <= clock
  BY TypeNext DEF IInv, TypeOK, CacheRecord, CacheInv
<1>2. ASSUME UNCHANGED db
      PROVE  FALSE
  BY <1>1, <1>2
<1>3. CASE UNCHANGED vars
  BY <1>2, <1>3 DEF vars
<1>4. CASE \/ Flush \/ Crash \/ Launch \/ Startup \/ RequestClearCache \/ Wake
           \/ BeginPass \/ OpenFailed \/ LoadKey \/ KeyMissing \/ StoreFailed
           \/ \E d \in Dates : Revise(d) \/ FetchPage(d)
           \/ \E kind \in Kinds : ChangedDatesFailed(kind) \/ FetchFailed(kind)
  BY <1>2, <1>4 DEF Flush, Crash, Launch, Startup, RequestClearCache, Wake,
     BeginPass, OpenFailed, LoadKey, KeyMissing, StoreFailed, Revise,
     FetchPage, ChangedDatesFailed, FetchFailed
<1>5. CASE PowerLoss \/ Rebuild \/ ClearIfRequested
  BY <1>2, <1>5 DEF PowerLoss, Rebuild, ClearIfRequested, IgnoringErrors
<1>6. CASE NoChanges
  <2>1. PICK mark \in {clock, db.mark} :
          db' \in {[db EXCEPT !.mark = mark], db}
    BY <1>6 DEF NoChanges, IgnoringErrors
  <2>2. db'.mark \in {clock, db.mark}
    BY <1>1, <2>1 DEF CacheRecord
  <2> QED
    BY <1>1, <2>2
<1>7. CASE ChangesFound
  BY <1>1, <1>7 DEF ChangesFound, CacheRecord
<1>8. ASSUME NEW d \in Dates, StoreDate(d) \/ Checkpoint(d)
      PROVE  FALSE
  <2>1. StoreDate(d) => db'.mark = db.mark
    BY <1>1 DEF StoreDate, ReplaceDate, CacheRecord
  <2>2. Checkpoint(d) => db'.mark = db.mark
    BY <1>1 DEF Checkpoint, IgnoringErrors, CacheRecord
  <2> QED
    BY <1>1, <1>8, <2>1, <2>2
<1>9. CASE AdvanceMark
  <2>1. db.mark <= db'.mark /\ db'.mark \in Nat
    BY <1>1, <1>9, AdvanceMarkInv DEF TypeOK, CacheRecord
  <2> QED
    BY <1>1, <2>1
<1>10. CASE EndBackfill \/ Finish
  BY <1>1, <1>10 DEF EndBackfill, Finish, IgnoringErrors, CacheRecord
<1> QED
  BY <1>3, <1>4, <1>5, <1>6, <1>7, <1>8, <1>9, <1>10
  DEF Next, Worker, Disturbance

(* The stored mark never goes back on its own: only a clear, a rebuild or  *)
(* the return to an earlier cache lowers it, and they take the data along. *)
THEOREM MarkIsMonotone == Spec => MarkRegressesOnlyWithData
<1>1. IInv /\ [Next]_vars =>
        [db'.mark < db.mark => db' \in {disk, EmptyCache, Cleared(db)}]_vars
  BY MarkStep
<1> QED
  BY <1>1, InvCorrect, PTL DEF Spec, MarkRegressesOnlyWithData
-----------------------------------------------------------------------------
(* Every step sets the status and the place of the worker consistently.    *)
LEMMA StatusStep ==
  SyncingWhilePassRuns /\ [Next]_vars => SyncingWhilePassRuns'
<1> SUFFICES ASSUME SyncingWhilePassRuns, [Next]_vars
             PROVE  SyncingWhilePassRuns'
  OBVIOUS
<1> USE DEF SyncingWhilePassRuns
<1>1. ASSUME NEW kind \in Kinds
      PROVE  StatusFromKind(kind) # "Syncing"
  BY <1>1 DEF Kinds, StatusFromKind
<1>2. ASSUME NEW s, EndPass(s), s # "Syncing"
      PROVE  SyncingWhilePassRuns'
  BY <1>2 DEF EndPass
<1>3. CASE \/ UNCHANGED vars \/ Flush \/ Crash \/ PowerLoss
           \/ Launch \/ Rebuild \/ Startup \/ RequestClearCache \/ Wake
           \/ \E d \in Dates : Revise(d)
  BY <1>3 DEF vars, Flush, Crash, PowerLoss, EndProcess, Launch, Rebuild,
     Startup, RequestClearCache, Wake, Revise
<1>4. CASE \/ BeginPass \/ ClearIfRequested \/ LoadKey \/ ChangesFound
           \/ AdvanceMark \/ EndBackfill
  BY <1>4 DEF BeginPass, ClearIfRequested, LoadKey, ChangesFound, AdvanceMark,
     EndBackfill
<1>5. CASE \E d \in Dates : FetchPage(d) \/ StoreDate(d) \/ Checkpoint(d)
  BY <1>5 DEF FetchPage, StoreDate, Checkpoint
<1>6. CASE OpenFailed \/ KeyMissing \/ StoreFailed \/ NoChanges \/ Finish
  BY <1>2, <1>6 DEF OpenFailed, KeyMissing, StoreFailed, NoChanges, Finish
<1>7. CASE \E kind \in Kinds : ChangedDatesFailed(kind) \/ FetchFailed(kind)
  BY <1>1, <1>2, <1>7 DEF ChangedDatesFailed, FetchFailed
<1> QED
  BY <1>3, <1>4, <1>5, <1>6, <1>7 DEF Next, Worker, Disturbance

(* The user sees "Syncing" exactly while a pass runs: no return of         *)
(* RunSynchronization leaves the status behind, nor does a restart.        *)
THEOREM StatusFollowsPass == Spec => []SyncingWhilePassRuns
<1>1. Init => SyncingWhilePassRuns
  BY DEF Init, SyncingWhilePassRuns
<1> QED
  BY <1>1, StatusStep, PTL DEF Spec
-----------------------------------------------------------------------------
(* The steps of the worker and the calls of the cache (CacheTable).        *)

Product == "product"

HasData(c) == \E d \in Dates : c.sales[d] # {}

(* What CacheTable calls the contents of a cache: the rows of a date stand *)
(* as one row of one product, whose figures are the pages' change ids.     *)
Contents(c) ==
  [products |-> IF HasData(c) THEN {Product} ELSE {},
   sales |-> {[date |-> d, app |-> Product, units |-> c.sales[d]] :
                d \in {e \in Dates : c.sales[e] # {}}},
   mark |-> c.mark # NoMark, cursor |-> c.cursor, synced |-> c.lastSync # 0]

Cache == INSTANCE CacheTable
           WITH Apps <- {Product}, Units <- SUBSET Nat,
                table <- Contents(db), call <- pc, answer <- pc

ReplaceCall(d, ids) ==
  [op |-> "replace", date |-> d,
   rows |-> <<[app |-> Product, units |-> ids]>>]

CursorCall(d) == [op |-> "cursor", date |-> d]

SyncCalls ==
  {ReplaceCall(d, ids) : d \in Dates, ids \in SUBSET Nat}
    \cup {CursorCall(d) : d \in Dates \cup {NoCursor}}
    \cup {[op |-> op] : op \in {"clear", "mark", "synced"}}

(* The contents change by one call; or a cache that does not open at the   *)
(* start is deleted, or a loss of power brings an earlier one back.        *)
OneCall ==
  \/ \E c \in SyncCalls : Contents(db') = Cache!Effect(c, Contents(db))
  \/ pc = "Launch" /\ Contents(db') = Cache!EmptyTable
  \/ pc' = "Launch" /\ Contents(db') = Contents(disk)

(* Every step of the worker is at most one transaction of the cache, with  *)
(* the effect that Database.h promises of it; no step writes two columns   *)
(* that the code writes by two calls, so that a crash, a loss of power and *)
(* the other thread come between any two of them.                          *)
WritesAreCalls == [][OneCall]_(Contents(db))

(* The contents are given by four fields of the record.                    *)
LEMMA SameContents ==
  ASSUME NEW c, NEW e, c.sales = e.sales, c.mark = e.mark,
         c.cursor = e.cursor, c.lastSync = e.lastSync
  PROVE  Contents(c) = Contents(e)
  BY DEF Contents, HasData

(* Without rows, mark, cursor and time the contents are a new file's.      *)
LEMMA BlankContents ==
  ASSUME NEW c, c.sales = [d \in Dates |-> {}], c.mark = 0, c.cursor = 0,
         c.lastSync = 0
  PROVE  Contents(c) = Cache!EmptyTable
<1>1. {e \in Dates : c.sales[e] # {}} = {}
  OBVIOUS
<1>2. ~HasData(c)
  BY DEF HasData
<1> QED
  BY <1>1, <1>2 DEF Contents, Cache!EmptyTable, Cache!NoCursor, NoMark

(* ReplaceDate: the rows of the date are exchanged, the others stay.       *)
LEMMA ReplaceContents ==
  ASSUME NEW c \in CacheRecord, NEW e \in CacheRecord, NEW d \in Dates,
         NEW ids \in SUBSET Nat, ids # {},
         e.sales = [c.sales EXCEPT ![d] = ids],
         e.mark = c.mark, e.cursor = c.cursor, e.lastSync = c.lastSync
  PROVE  Contents(e) = Cache!Effect(ReplaceCall(d, ids), Contents(c))
<1> DEFINE call == ReplaceCall(d, ids)
           t == Contents(c)
           row == [date |-> d, app |-> Product, units |-> ids]
<1>1. /\ call.op = "replace" /\ call.date = d
      /\ call.rows = <<[app |-> Product, units |-> ids]>>
  BY DEF ReplaceCall
<1>2. Cache!Effect(call, t) =
        [t EXCEPT !.products =
                    @ \cup {call.rows[i].app : i \in DOMAIN call.rows},
                  !.sales = Cache!OtherDates(@, call.date)
                              \cup Cache!RowsOf(call.date, call.rows)]
  BY <1>1 DEF Cache!Effect
<1>3. /\ {call.rows[i].app : i \in DOMAIN call.rows} = {Product}
      /\ Cache!RowsOf(call.date, call.rows) = {row}
  BY <1>1 DEF Cache!RowsOf
<1>4. t.products \cup {Product} = Contents(e).products
  <2>1. HasData(e)
    BY DEF HasData, CacheRecord
  <2> QED
    BY <2>1 DEF Contents
<1>5. Cache!OtherDates(t.sales, d) \cup {row} = Contents(e).sales
  <2> DEFINE stored(f) == {x \in Dates : f.sales[x] # {}}
             rows(f) == {[date |-> x, app |-> Product, units |-> f.sales[x]] :
                           x \in stored(f)}
  <2>1. t.sales = rows(c) /\ Contents(e).sales = rows(e)
    BY DEF Contents
  <2>2. /\ e.sales[d] = ids
        /\ \A x \in Dates : x # d => e.sales[x] = c.sales[x]
    BY DEF CacheRecord
  <2>3. {r \in rows(c) : r.date # d} \cup {row} = rows(e)
    <3>1. ASSUME NEW r \in rows(c), r.date # d
          PROVE  r \in rows(e)
      BY <2>2, <3>1
    <3>2. row \in rows(e)
      BY <2>2
    <3>3. ASSUME NEW r \in rows(e), r # row
          PROVE  r \in rows(c) /\ r.date # d
      BY <2>2, <3>3
    <3> QED
      BY <3>1, <3>2, <3>3
  <2> QED
    BY <2>1, <2>3 DEF Cache!OtherDates
<1>6. /\ t = [products |-> t.products, sales |-> t.sales, mark |-> t.mark,
              cursor |-> t.cursor, synced |-> t.synced]
      /\ t.mark = Contents(e).mark /\ t.cursor = Contents(e).cursor
      /\ t.synced = Contents(e).synced
  BY DEF Contents
<1>7. Contents(e) = [products |-> Contents(e).products,
                     sales |-> Contents(e).sales, mark |-> Contents(e).mark,
                     cursor |-> Contents(e).cursor,
                     synced |-> Contents(e).synced]
  BY DEF Contents
<1> HIDE DEF call, t, row
<1> QED
  BY <1>1, <1>2, <1>3, <1>4, <1>5, <1>6, <1>7 DEF call, t

Tables == [products : SUBSET {Product}, mark : BOOLEAN, synced : BOOLEAN,
           cursor : Dates \cup {NoCursor},
           sales : SUBSET [date : Dates, app : {Product}, units : SUBSET Nat]]

(* Two tables are the same if their columns are.                           *)
LEMMA SameTables ==
  ASSUME NEW t \in Tables, NEW u \in Tables, t.products = u.products,
         t.sales = u.sales, t.mark <=> u.mark, t.cursor = u.cursor,
         t.synced <=> u.synced
  PROVE  t = u
  BY DEF Tables

(* The columns of the contents.                                            *)
LEMMA ContentsType ==
  ASSUME NEW c \in CacheRecord
  PROVE  /\ Contents(c) \in Tables
         /\ Contents(c).mark <=> c.mark # 0
         /\ Contents(c).cursor = c.cursor
         /\ Contents(c).synced <=> c.lastSync # 0
<1>1. {[date |-> d, app |-> Product, units |-> c.sales[d]] :
         d \in {e \in Dates : c.sales[e] # {}}}
        \in SUBSET [date : Dates, app : {Product}, units : SUBSET Nat]
  BY DEF CacheRecord
<1>2. (IF HasData(c) THEN {Product} ELSE {}) \in SUBSET {Product}
  OBVIOUS
<1>3. c.cursor \in Dates \cup {NoCursor} /\ c.lastSync \in Nat
  BY DEF CacheRecord
<1> QED
  BY <1>1, <1>2, <1>3 DEF Contents, Tables, NoMark

Marked(t) == [t EXCEPT !.mark = TRUE]
Synced(t) == [t EXCEPT !.synced = TRUE]

(* The calls that write one column.                                        *)
LEMMA ColumnContents ==
  ASSUME NEW c \in CacheRecord, NEW e \in CacheRecord, e.sales = c.sales
  PROVE  /\ e.mark # 0 /\ e.cursor = c.cursor /\ e.lastSync = c.lastSync
              => Contents(e) = Cache!Effect([op |-> "mark"], Contents(c))
         /\ e.mark = c.mark /\ e.lastSync = c.lastSync
              => Contents(e) =
                   Cache!Effect(CursorCall(e.cursor), Contents(c))
         /\ e.mark = c.mark /\ e.cursor = c.cursor /\ e.lastSync # 0
              => Contents(e) = Cache!Effect([op |-> "synced"], Contents(c))
<1> DEFINE t == Contents(c)
           u == Contents(e)
<1>1. t.products = u.products /\ t.sales = u.sales
  BY DEF Contents, HasData
<1>2. /\ t \in Tables /\ u \in Tables
      /\ t.mark <=> c.mark # 0
      /\ u.mark <=> e.mark # 0
      /\ t.cursor = c.cursor /\ u.cursor = e.cursor
      /\ t.synced <=> c.lastSync # 0
      /\ u.synced <=> e.lastSync # 0
  BY ContentsType
<1>3. /\ Cache!Effect([op |-> "mark"], t) = Marked(t)
      /\ Cache!Effect([op |-> "synced"], t) = Synced(t)
  BY Zenon DEF Cache!Effect, Marked, Synced
<1>4. Cache!Effect(CursorCall(e.cursor), t) = [t EXCEPT !.cursor = e.cursor]
  BY Zenon DEF Cache!Effect, CursorCall
<1> HIDE DEF t, u
<1>5. ASSUME e.mark # 0, e.cursor = c.cursor, e.lastSync = c.lastSync
      PROVE  u = Marked(t)
  <2>1. /\ Marked(t) \in Tables /\ Marked(t).products = t.products
        /\ Marked(t).sales = t.sales /\ Marked(t).cursor = t.cursor
        /\ Marked(t).mark
        /\ Marked(t).synced <=> t.synced
    BY <1>2 DEF Marked, Tables
  <2> QED
    BY <1>1, <1>2, <1>5, <2>1, SameTables
<1>6. ASSUME e.mark = c.mark, e.lastSync = c.lastSync
      PROVE  u = [t EXCEPT !.cursor = e.cursor]
  <2> DEFINE v == [t EXCEPT !.cursor = e.cursor]
  <2>1. /\ v \in Tables /\ v.products = t.products /\ v.sales = t.sales
        /\ v.cursor = e.cursor
        /\ v.mark <=> t.mark
        /\ v.synced <=> t.synced
    BY <1>2 DEF Tables, CacheRecord
  <2> HIDE DEF v
  <2>2. u = v
    BY <1>1, <1>2, <1>6, <2>1, SameTables
  <2> QED
    BY <2>2 DEF v
<1>7. ASSUME e.mark = c.mark, e.cursor = c.cursor, e.lastSync # 0
      PROVE  u = Synced(t)
  <2>1. /\ Synced(t) \in Tables /\ Synced(t).products = t.products
        /\ Synced(t).sales = t.sales /\ Synced(t).cursor = t.cursor
        /\ Synced(t).synced
        /\ Synced(t).mark <=> t.mark
    BY <1>2 DEF Synced, Tables
  <2> QED
    BY <1>1, <1>2, <1>7, <2>1, SameTables
<1> QED
  BY <1>3, <1>4, <1>5, <1>6, <1>7, Zenon DEF t, u

(* ClearAllSales leaves what a new file has.                               *)
LEMMA ClearContents ==
  ASSUME NEW c \in CacheRecord
  PROVE  Contents(Cleared(c)) = Cache!Effect([op |-> "clear"], Contents(c))
<1> DEFINE e == Cleared(c)
<1>1. /\ e.sales = [d \in Dates |-> {}] /\ e.mark = 0 /\ e.cursor = 0
      /\ e.lastSync = 0
  BY DEF Cleared, CacheRecord, NoMark, NoCursor
<1> HIDE DEF e
<1>2. Contents(e) = Cache!EmptyTable
  BY <1>1, BlankContents
<1>3. Cache!Effect([op |-> "clear"], Contents(c)) = Cache!EmptyTable
  BY DEF Cache!Effect
<1> QED
  BY <1>2, <1>3 DEF e

(* Each step of a state that satisfies the invariant is one call.          *)
LEMMA StepIsOneCall ==
  IInv /\ [Next]_vars => [OneCall]_(Contents(db))
<1> SUFFICES ASSUME IInv, [Next]_vars, Contents(db') # Contents(db)
             PROVE  OneCall
  OBVIOUS
<1> USE DEF cache
<1>1. /\ db \in CacheRecord /\ db' \in CacheRecord
      /\ db.mark \in Nat /\ clock \in Nat /\ db.mark <= clock
  BY TypeNext DEF IInv, TypeOK, CacheRecord, CacheInv
<1>2. ASSUME UNCHANGED db
      PROVE  FALSE
  BY <1>2
<1>3. CASE UNCHANGED vars
  BY <1>2, <1>3 DEF vars
<1>4. CASE \/ Flush \/ Crash \/ Launch \/ Startup \/ RequestClearCache \/ Wake
           \/ BeginPass \/ OpenFailed \/ LoadKey \/ KeyMissing \/ StoreFailed
           \/ \E d \in Dates : Revise(d) \/ FetchPage(d)
           \/ \E kind \in Kinds : ChangedDatesFailed(kind) \/ FetchFailed(kind)
  BY <1>2, <1>4 DEF Flush, Crash, Launch, Startup, RequestClearCache, Wake,
     BeginPass, OpenFailed, LoadKey, KeyMissing, StoreFailed, Revise,
     FetchPage, ChangedDatesFailed, FetchFailed
<1>5. CASE PowerLoss
  BY <1>5 DEF PowerLoss, EndProcess, OneCall
<1>6. CASE Rebuild
  <2>1. pc = "Launch" /\ db' = EmptyCache
    BY <1>6 DEF Rebuild
  <2>2. /\ EmptyCache.sales = [d \in Dates |-> {}] /\ EmptyCache.mark = 0
        /\ EmptyCache.cursor = 0 /\ EmptyCache.lastSync = 0
    BY DEF EmptyCache, NoMark, NoCursor
  <2>3. Contents(EmptyCache) = Cache!EmptyTable
    BY <2>2, BlankContents
  <2> QED
    BY <2>1, <2>3 DEF OneCall
<1>7. ASSUME NEW c \in SyncCalls, Contents(db') = Cache!Effect(c, Contents(db))
      PROVE  OneCall
  BY <1>7 DEF OneCall
<1>8. CASE ClearIfRequested
  <2>1. db' = Cleared(db)
    BY <1>2, <1>8 DEF ClearIfRequested, IgnoringErrors
  <2>2. [op |-> "clear"] \in SyncCalls
    BY DEF SyncCalls
  <2> QED
    BY <1>1, <1>7, <2>1, <2>2, ClearContents
<1>9. ASSUME NEW m \in Nat, db' = [db EXCEPT !.mark = m], m >= db.mark
      PROVE  OneCall
  <2>1. /\ db'.sales = db.sales /\ db'.cursor = db.cursor /\ db'.mark = m
        /\ db'.lastSync = db.lastSync
    BY <1>1, <1>9 DEF CacheRecord
  <2>2. m # 0
    <3> SUFFICES ASSUME m = 0 PROVE FALSE
      OBVIOUS
    <3>1. db'.mark = db.mark
      BY <1>1, <1>9, <2>1
    <3> QED
      BY <2>1, <3>1, SameContents
  <2>3. [op |-> "mark"] \in SyncCalls
    BY DEF SyncCalls
  <2> QED
    BY <1>1, <1>7, <2>1, <2>2, <2>3, ColumnContents
<1>10. CASE NoChanges
  <2>1. PICK mark \in {clock, db.mark} : db' = [db EXCEPT !.mark = mark]
    BY <1>2, <1>10 DEF NoChanges, IgnoringErrors
  <2>2. mark \in Nat /\ mark >= db.mark
    BY <1>1, <2>1
  <2> QED
    BY <1>9, <2>1, <2>2
<1>11. CASE ChangesFound
  <2>1. /\ db'.sales = db.sales /\ db'.cursor = db.cursor
        /\ db'.mark = db.mark /\ db'.lastSync = db.lastSync
    BY <1>1, <1>11 DEF ChangesFound, CacheRecord
  <2> QED
    BY <2>1, SameContents
<1>12. ASSUME NEW d \in Dates, StoreDate(d)
       PROVE  OneCall
  <2>1. seen # {} /\ seen \in SUBSET Nat
    BY <1>12, PagesAssumption
    DEF StoreDate, IInv, PassInv, FetchInv, TypeOK
  <2>2. /\ db'.sales = [db.sales EXCEPT ![d] = seen] /\ db'.mark = db.mark
        /\ db'.cursor = db.cursor /\ db'.lastSync = db.lastSync
    BY <1>1, <1>12 DEF StoreDate, ReplaceDate, CacheRecord
  <2>3. ReplaceCall(d, seen) \in SyncCalls
    BY <2>1 DEF SyncCalls
  <2> QED
    BY <1>1, <1>7, <2>1, <2>2, <2>3, ReplaceContents
<1>13. ASSUME NEW d \in Dates \cup {NoCursor}, db' = [db EXCEPT !.cursor = d]
       PROVE  OneCall
  <2>1. /\ db'.sales = db.sales /\ db'.mark = db.mark /\ db'.cursor = d
        /\ db'.lastSync = db.lastSync
    BY <1>1, <1>13 DEF CacheRecord
  <2>2. CursorCall(d) \in SyncCalls
    BY DEF SyncCalls
  <2> QED
    BY <1>1, <1>7, <2>1, <2>2, ColumnContents
<1>14. ASSUME NEW d \in Dates, Checkpoint(d)
       PROVE  OneCall
  BY <1>2, <1>13, <1>14 DEF Checkpoint, IgnoringErrors
<1>15. CASE EndBackfill
  BY <1>2, <1>13, <1>15 DEF EndBackfill, IgnoringErrors
<1>16. CASE AdvanceMark
  <2>1. db' = [db EXCEPT !.mark = result] /\ result \in Nat
    BY <1>2, <1>16 DEF AdvanceMark, IgnoringErrors, IInv, TypeOK
  <2>2. db'.mark = result /\ db.mark <= db'.mark
    BY <1>1, <1>16, <2>1, TypeNext, AdvanceMarkInv DEF IInv, CacheRecord
  <2> QED
    BY <1>1, <1>9, <2>1, <2>2
<1>17. CASE Finish
  <2>1. db' = [db EXCEPT !.lastSync = now] /\ now # 0
    BY <1>2, <1>17 DEF Finish, IgnoringErrors, IInv, PassInv, LoopInv, InLoop
  <2>2. /\ db'.sales = db.sales /\ db'.mark = db.mark
        /\ db'.cursor = db.cursor /\ db'.lastSync # 0
    BY <1>1, <2>1 DEF CacheRecord
  <2>3. [op |-> "synced"] \in SyncCalls
    BY DEF SyncCalls
  <2> QED
    BY <1>1, <1>7, <2>2, <2>3, ColumnContents
<1> QED
  BY <1>3, <1>4, <1>5, <1>6, <1>8, <1>10, <1>11, <1>12, <1>14, <1>15, <1>16,
     <1>17
  DEF Next, Worker, Disturbance

(* SalesSync is cut where the transactions of the cache are: a pass writes *)
(* by calls that CacheTable promises and CacheDatabase carries out, one in *)
(* a step.                                                                 *)
THEOREM SyncWritesByCalls == Spec => WritesAreCalls
  BY InvCorrect, StepIsOneCall, PTL DEF Spec, WritesAreCalls
=============================================================================
