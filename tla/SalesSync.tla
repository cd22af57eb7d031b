----------------------------- MODULE SalesSync -----------------------------
(***************************************************************************)
(* The synchronization worker of Steam Sales Tray and the local cache it   *)
(* maintains (sync/SalesSyncService.cpp over storage/Database.cpp).        *)
(*                                                                         *)
(* The partner service keeps figures for financial dates.  Every change of *)
(* a date's figures gets a new change id; a query with a high-water mark   *)
(* returns the dates whose last change is above the mark, and a new mark.  *)
(* A pass fetches each returned date page by page, replaces the date's     *)
(* rows in one transaction, and moves the stored mark only after the last  *)
(* date.  The first ("initial") synchronization also checkpoints the last  *)
(* stored date in a cursor, to resume after an interruption.               *)
(*                                                                         *)
(* The figures of a date are abstracted to the change id they carry, and   *)
(* the rows stored for a date to the set of change ids its pages were read *)
(* at: a singleton is a consistent read, {} a date that was never stored.  *)
(*                                                                         *)
(* ClearEveryPass, CheckpointOnFetch, SkipFailedDate, StoreAnyMark and     *)
(* TakeTimeAtEnd are faulty variants of the definition that follows each;  *)
(* no action uses them.                                                    *)
(***************************************************************************)
EXTENDS Integers

CONSTANTS Dates,         \* financial dates; their order is the numeric one
          MaxRevision,   \* bound on the changes made at the service
          PagesPerDate,  \* pages the service splits one date into
          DatabaseFails  \* a database call whose result is ignored may fail

ASSUME DatesAssumption == Dates \subseteq Nat \ {0}
ASSUME MaxRevisionAssumption == MaxRevision \in Nat
ASSUME PagesAssumption == PagesPerDate \in Nat \ {0}
ASSUME DatabaseFailsAssumption == DatabaseFails \in BOOLEAN

VARIABLES
  revision,   \* service: change id of each date's figures, 0 = no figures
  clock,      \* service: the last change id given out
  db,         \* the cache as committed transactions leave it
  disk,       \* the cache that would survive a loss of power
  isOpen,     \* the worker's connection is open
  clearCacheRequested,
  status,     \* status_.status
  pc,         \* where the worker thread is
  initial,    \* the pass runs without a mark
  result,     \* changed.resultHighwatermark, 0 = absent
  now,        \* the time of the query, as the last change id given out
  todo,       \* the rest of toProcess
  page,       \* pages of the current date fetched so far
  seen        \* change ids those pages were read at

service == <<revision, clock>>
cache == <<db, disk>>
pass == <<initial, result, now, todo, page, seen>>
vars == <<service, cache, isOpen, clearCacheRequested, status, pc, pass>>

NoMark == 0
NoCursor == 0

(* The columns of sync_state that the worker reads back, and the rows; the *)
(* columns that only the window shows (last_error) are in TrayApp.  A time *)
(* (lastSync, 0 = NULL) is the last change id given out at that time.      *)
(* "lost" is a history variable, not a column: the dates a resumed         *)
(* backfill skipped although their rows were out of date.                  *)
EmptyCache ==
  [sales |-> [d \in Dates |-> {}], mark |-> NoMark, cursor |-> NoCursor,
   lastSync |-> 0, lost |-> {}]

Kinds == {"Offline", "RateLimited", "ServerError", "Auth", "Parse",
          "TooLarge", "Other"}

StatusFromKind(kind) ==
  CASE kind \in {"Offline", "RateLimited", "ServerError"} -> "Offline"
    [] kind = "Auth" -> "AuthenticationFailed"
    [] kind = "Parse" -> "ParseError"
    [] OTHER -> "ApiError"

Statuses == {"Idle", "Syncing", "MissingApiKey", "AuthenticationFailed",
             "Offline", "ApiError", "ParseError", "DatabaseError"}

Init ==
  /\ revision = [d \in Dates |-> 0]
  /\ clock = 0
  /\ db = EmptyCache
  /\ disk = EmptyCache
  /\ isOpen = FALSE
  /\ clearCacheRequested = FALSE
  /\ status = "Idle"
  /\ pc = "Launch"
  /\ initial = FALSE
  /\ result = 0
  /\ now = 0
  /\ todo = {}
  /\ page = 0
  /\ seen = {}

(* A pass that returns drops its local variables.                          *)
DropLocals ==
  /\ initial' = FALSE
  /\ result' = 0
  /\ now' = 0
  /\ todo' = {}
  /\ page' = 0
  /\ seen' = {}

-----------------------------------------------------------------------------
(* The partner service (external).                                         *)

Revise(d) ==
  /\ clock < MaxRevision
  /\ clock' = clock + 1
  /\ revision' = [revision EXCEPT ![d] = clock + 1]
  /\ UNCHANGED <<cache, isOpen, clearCacheRequested, status, pc, pass>>

ChangedDates(mark) == {d \in Dates : revision[d] > mark}

-----------------------------------------------------------------------------
(* The machine: the journal is in WAL mode with synchronous = NORMAL, so a *)
(* committed transaction outlives the process at once but a loss of power  *)
(* only after the next flush.                                              *)

Flush ==
  /\ disk # db
  /\ disk' = db
  /\ UNCHANGED <<service, db, isOpen, clearCacheRequested, status, pc, pass>>

EndProcess ==
  /\ isOpen' = FALSE
  /\ clearCacheRequested' = FALSE
  /\ status' = "Idle"
  /\ pc' = "Launch"
  /\ DropLocals
  /\ UNCHANGED service

Crash ==
  /\ pc # "Launch"
  /\ EndProcess
  /\ UNCHANGED cache

PowerLoss ==
  /\ EndProcess
  /\ db' = disk
  /\ UNCHANGED disk

-----------------------------------------------------------------------------
(* Start of the process.                                                   *)

(* App::Run with a cache that opens, or a user who declines a rebuild.     *)
Launch ==
  /\ pc = "Launch"
  /\ pc' = "Start"
  /\ UNCHANGED <<service, cache, isOpen, clearCacheRequested, status, pass>>

(* App::Run when the cache does not open and the user lets it be deleted.  *)
Rebuild ==
  /\ pc = "Launch"
  /\ pc' = "Start"
  /\ db' = EmptyCache
  /\ disk' = EmptyCache
  /\ UNCHANGED <<service, isOpen, clearCacheRequested, status, pass>>

(* The head of SalesSyncService::Run.  Without a stored time of a          *)
(* successful synchronization the first pass starts at once; with one it   *)
(* depends on how old that time is.                                        *)
Startup ==
  /\ pc = "Start"
  /\ isOpen' \in BOOLEAN
  /\ \/ pc' = "Begin" /\ UNCHANGED status
     \/ isOpen' /\ db.lastSync # 0 /\ pc' = "Waiting" /\ status' = "Idle"
  /\ UNCHANGED <<service, cache, clearCacheRequested, pass>>

RequestClearCache ==
  /\ pc # "Launch"
  /\ ~clearCacheRequested
  /\ clearCacheRequested' = TRUE
  /\ UNCHANGED <<service, cache, isOpen, status, pc, pass>>

(* A manual refresh, a change of settings or the timer ends the wait.      *)
Wake ==
  /\ pc = "Waiting"
  /\ pc' = "Begin"
  /\ UNCHANGED <<service, cache, isOpen, clearCacheRequested, status, pass>>

-----------------------------------------------------------------------------
(* RunSynchronization.  The code ignores the results of all its database   *)
(* calls but ReplaceDate and Open: a write that fails leaves the record as *)
(* it is, a read that fails returns the value of an empty cache.           *)

IgnoringErrors(good, bad) == {good} \cup IF DatabaseFails THEN {bad} ELSE {}

EndPass(s) ==
  /\ pc' = "Waiting"
  /\ status' = s
  /\ DropLocals
  /\ UNCHANGED <<service, disk, isOpen, clearCacheRequested>>

BeginPass ==
  /\ pc = "Begin"
  /\ isOpen' = TRUE
  /\ pc' = "Clear"
  /\ status' = "Syncing"
  /\ UNCHANGED <<service, cache, clearCacheRequested, pass>>

OpenFailed ==
  /\ pc = "Begin"
  /\ ~isOpen
  /\ UNCHANGED db
  /\ EndPass("DatabaseError")

(* ClearAllSales, one transaction.                                         *)
Cleared(c) ==
  [c EXCEPT !.sales = [d \in Dates |-> {}], !.mark = NoMark,
            !.lastSync = 0, !.cursor = NoCursor, !.lost = {}]

ClearEveryPass ==
  /\ pc = "Clear"
  /\ pc' = "Key"
  /\ IF clearCacheRequested THEN db' \in IgnoringErrors(Cleared(db), db)
                            ELSE UNCHANGED db
  /\ UNCHANGED <<service, disk, isOpen, clearCacheRequested, status, pass>>

(* The flag is taken first; a clear that fails is not asked for again.     *)
ClearIfRequested ==
  /\ pc = "Clear"
  /\ pc' = "Key"
  /\ clearCacheRequested' = FALSE
  /\ IF clearCacheRequested THEN db' \in IgnoringErrors(Cleared(db), db)
                            ELSE UNCHANGED db
  /\ UNCHANGED <<service, disk, isOpen, status, pass>>

(* Loads the key and reads the mark; a failed read yields "no mark".       *)
LoadKey ==
  /\ pc = "Key"
  /\ pc' = "Query"
  /\ initial' \in IgnoringErrors(db.mark = NoMark, TRUE)
  /\ UNCHANGED <<service, cache, isOpen, clearCacheRequested, status, result,
                 now, todo, page, seen>>

KeyMissing ==
  /\ pc = "Key"
  /\ UNCHANGED db
  /\ EndPass("MissingApiKey")

PassMark == IF initial THEN NoMark ELSE db.mark

ChangedDatesFailed(kind) ==
  /\ pc = "Query"
  /\ UNCHANGED db
  /\ EndPass(StatusFromKind(kind))

NoChanges ==
  /\ pc = "Query"
  /\ ChangedDates(PassMark) = {}
  /\ \E mark \in {clock, db.mark} :    \* db.mark: the answer names no mark
       db' \in IgnoringErrors([db EXCEPT !.mark = mark], db)
  /\ EndPass("Idle")

Current(c, d) == c.sales[d] = {revision[d]} \ {0}

(* The dates of "changed" that a backfill resumed at "cursor" leaves out.  *)
Skipped(changed, cursor) == {d \in changed : initial /\ d <= cursor}

(* The dates to process.  The cursor is read only by an initial pass; a    *)
(* failed read yields "no cursor".                                         *)
ChangesFound ==
  /\ pc = "Query"
  /\ ChangedDates(PassMark) # {}
  /\ \E cursor \in IgnoringErrors(db.cursor, NoCursor) :
       LET changed == ChangedDates(PassMark)
           skipped == Skipped(changed, cursor)
       IN /\ todo' = changed \ skipped
          /\ db' = [db EXCEPT !.lost = @ \cup
                                {d \in skipped : ~Current(db, d)}]
  /\ result' \in {clock, 0}
  /\ now' = clock
  /\ page' = 0
  /\ seen' = {}
  /\ pc' = "Fetch"
  /\ UNCHANGED <<service, disk, isOpen, clearCacheRequested, status, initial>>

IsOldest(d) == d \in todo /\ \A e \in todo : d <= e

CheckpointOnFetch(d) ==
  /\ pc = "Fetch"
  /\ IsOldest(d)
  /\ page < PagesPerDate
  /\ page' = page + 1
  /\ seen' = seen \cup {revision[d]}
  /\ db' = IF initial THEN [db EXCEPT !.cursor = d] ELSE db
  /\ UNCHANGED <<service, disk, isOpen, clearCacheRequested, status, pc,
                 initial, result, now, todo>>

(* One request of GetAllDetailedSalesForDate.                              *)
FetchPage(d) ==
  /\ pc = "Fetch"
  /\ IsOldest(d)
  /\ page < PagesPerDate
  /\ page' = page + 1
  /\ seen' = seen \cup {revision[d]}
  /\ UNCHANGED <<service, cache, isOpen, clearCacheRequested, status, pc,
                 initial, result, now, todo>>

SkipFailedDate(kind) ==
  /\ pc = "Fetch"
  /\ page < PagesPerDate
  /\ todo' = {d \in todo : ~IsOldest(d)}
  /\ page' = 0
  /\ seen' = {}
  /\ UNCHANGED <<service, cache, isOpen, clearCacheRequested, status, pc,
                 initial, result, now>>

FetchFailed(kind) ==
  /\ pc = "Fetch"
  /\ todo # {}
  /\ page < PagesPerDate
  /\ UNCHANGED db
  /\ EndPass(StatusFromKind(kind))

ReplaceDate(d) == [db EXCEPT !.sales[d] = seen, !.lost = @ \ {d}]

StoreDate(d) ==
  /\ pc = "Fetch"
  /\ IsOldest(d)
  /\ page = PagesPerDate
  /\ db' = ReplaceDate(d)
  /\ pc' = "Checkpoint"
  /\ UNCHANGED <<service, disk, isOpen, clearCacheRequested, status, pass>>

StoreFailed ==
  /\ pc = "Fetch"
  /\ todo # {}
  /\ page = PagesPerDate
  /\ UNCHANGED db
  /\ EndPass("DatabaseError")

Checkpoint(d) ==
  /\ pc = "Checkpoint"
  /\ IsOldest(d)
  /\ IF initial THEN db' \in IgnoringErrors([db EXCEPT !.cursor = d], db)
                ELSE UNCHANGED db
  /\ todo' = todo \ {d}
  /\ page' = 0
  /\ seen' = {}
  /\ pc' = "Fetch"
  /\ UNCHANGED <<service, disk, isOpen, clearCacheRequested, status, initial,
                 result, now>>

StoreAnyMark ==
  /\ pc = "Fetch"
  /\ todo = {}
  /\ db' \in IgnoringErrors([db EXCEPT !.mark = result], db)
  /\ pc' = "EndBackfill"
  /\ UNCHANGED <<service, disk, isOpen, clearCacheRequested, status, pass>>

AdvanceMark ==
  /\ pc = "Fetch"
  /\ todo = {}
  /\ IF result # 0 THEN db' \in IgnoringErrors([db EXCEPT !.mark = result], db)
                   ELSE UNCHANGED db
  /\ pc' = "EndBackfill"
  /\ UNCHANGED <<service, disk, isOpen, clearCacheRequested, status, pass>>

(* The cursor of a backfill that is complete is deleted.                   *)
EndBackfill ==
  /\ pc = "EndBackfill"
  /\ IF initial
     THEN db' \in IgnoringErrors([db EXCEPT !.cursor = NoCursor], db)
     ELSE UNCHANGED db
  /\ pc' = "Finish"
  /\ UNCHANGED <<service, disk, isOpen, clearCacheRequested, status, pass>>

TakeTimeAtEnd ==
  /\ pc = "Finish"
  /\ db' \in IgnoringErrors([db EXCEPT !.lastSync = clock], db)
  /\ EndPass("Idle")

(* The time that is stored is the one taken after the query.               *)
Finish ==
  /\ pc = "Finish"
  /\ db' \in IgnoringErrors([db EXCEPT !.lastSync = now], db)
  /\ EndPass("Idle")

-----------------------------------------------------------------------------
Worker ==
  \/ Launch \/ Startup \/ Wake
  \/ BeginPass \/ ClearIfRequested \/ LoadKey \/ NoChanges \/ ChangesFound
  \/ \E d \in Dates : FetchPage(d) \/ StoreDate(d) \/ Checkpoint(d)
  \/ AdvanceMark \/ EndBackfill \/ Finish

(* What may go wrong in a pass, and what the user or the machine may do to *)
(* the cache.                                                              *)
Disturbance ==
  \/ OpenFailed \/ KeyMissing \/ StoreFailed
  \/ \E kind \in Kinds : ChangedDatesFailed(kind) \/ FetchFailed(kind)
  \/ RequestClearCache \/ Rebuild \/ Crash \/ PowerLoss

Next ==
  \/ Worker
  \/ Disturbance
  \/ Flush
  \/ \E d \in Dates : Revise(d)

Spec == Init /\ [][Next]_vars

(* The worker thread is never blocked for good: every call it makes        *)
(* returns, and the wait ends by the timer or by a request.                *)
FairSpec == Spec /\ WF_vars(Worker)

-----------------------------------------------------------------------------
CacheRecord ==
  [sales : [Dates -> SUBSET Nat], mark : Nat, cursor : Dates \cup {NoCursor},
   lastSync : Nat, lost : SUBSET Dates]

(* Every variable keeps its type; in particular no date is fetched past    *)
(* its last page (the loop of GetAllDetailedSalesForDate).                 *)
TypeOK ==
  /\ revision \in [Dates -> Nat]
  /\ clock \in Nat
  /\ db \in CacheRecord
  /\ disk \in CacheRecord
  /\ isOpen \in BOOLEAN
  /\ clearCacheRequested \in BOOLEAN
  /\ status \in Statuses
  /\ pc \in {"Launch", "Start", "Waiting", "Begin", "Clear", "Key", "Query",
             "Fetch", "Checkpoint", "EndBackfill", "Finish"}
  /\ initial \in BOOLEAN
  /\ result \in Nat
  /\ now \in Nat
  /\ todo \in SUBSET Dates
  /\ page \in 0..PagesPerDate
  /\ seen \in SUBSET Nat

Covered(c, d) == Current(c, d) \/ revision[d] > c.mark \/ d \in c.lost

(* A date whose stored rows are not what the service publishes is above    *)
(* the stored mark, so that the next query returns it again: no failure,   *)
(* crash, loss of power, failed write, change in the middle of a pass or   *)
(* between two pages lets the mark move past a date that was not stored    *)
(* ("a failed date must NOT advance the global mark").  The one exception  *)
(* is a date that a resumed backfill skipped (see SafeToAdvance).          *)
NoLostUpdate == \A d \in Dates : Covered(db, d) /\ Covered(disk, d)

(* The checkpoint of a backfill never runs ahead of the data: the date it  *)
(* names was stored, also in the cache that survives a loss of power, and  *)
(* whatever pass, clear or rebuild the cursor was left over from.          *)
CheckpointBehindData ==
  \A c \in {db, disk} : c.cursor # NoCursor => c.sales[c.cursor] # {}

(* A cache with the time of a successful synchronization, which lets the   *)
(* next start skip its first pass, is complete up to that time: it has the *)
(* figures of every date that did not change later, but for skipped dates. *)
(* Neither a clear, a rebuild or a loss of power leaves the time without   *)
(* the data it stands for, nor does the time cover what changed while the  *)
(* pass was fetching or what a later pass left half done.                  *)
CompleteUpTo(c, time) ==
  \A d \in Dates :
    revision[d] <= time => Current(c, d) \/ d \in c.lost

FreshCacheIsComplete ==
  \A c \in {db, disk} : CompleteUpTo(c, c.lastSync)

(* The status shown to the user is "Syncing" exactly while a pass runs:    *)
(* each of the pass's returns sets a final status.                         *)
SyncingWhilePassRuns ==
  status = "Syncing" <=>
    pc \in {"Clear", "Key", "Query", "Fetch", "Checkpoint", "EndBackfill",
            "Finish"}

(* The stored mark goes back only together with the data it stands for: in *)
(* a clear, a rebuild or a return to an earlier state of the whole cache.  *)
MarkRegressesOnlyWithData ==
  [][db'.mark < db.mark => db' \in {disk, EmptyCache, Cleared(db)}]_vars

(* Once the passes stop failing and nothing clears the cache any more, the *)
(* cache comes to agree with the service for good, but for skipped dates.  *)
Converges ==
  <>[][~Disturbance]_vars
    => <>[](\A d \in Dates : Current(db, d) \/ d \in db.lost)

(* "Every date succeeded: now it is safe to advance the global mark."      *)
(* (SalesSyncService.cpp:343): a date that is not current is still above   *)
(* the mark.  Does not hold: a resumed backfill skips every date up to its *)
(* cursor, also the ones that changed since they were stored.              *)
SafeToAdvance == \A d \in Dates : Current(db, d) \/ revision[d] > db.mark
=============================================================================
