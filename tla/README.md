# Steam Sales Tray: verification project

Steam Sales Tray is a Windows tray application. A worker thread asks Steam's
partner service which financial dates changed, fetches the changed dates page
by page, sums their line items into one row per product and day, and stores
them in a local SQLite file. The user interface thread shows totals in the
tray's tooltip, a sales window and notification balloons, and has a settings
dialog in which the user enters an API key, sets preferences and clears the
cache.

This directory holds TLA+ modules of the parts in which something can go wrong
that a test would hardly reach, TLC configurations that check them on small
instances, and proofs for every instance of what matters most. `PROJECT.json`
maps each definition to the source lines it stands for, and lists the runs, the
hazards, the findings, the theorems, and for each property a faulty variant of
a definition that the property catches.

    tlc -config SalesSync.cfg SalesSync        check a run
    tlapm SalesSyncProofs.tla                  check the proofs of a module

## 1. Inventory

### Threads and shared state

Two threads, one process (a second start hands its command to the first and
ends). The user interface thread owns the windows, the tray icon, the dialog
and a database connection for reading. The worker owns an HTTP session and a
connection for writing. They share:

| shared                                             | written by                                   | read by      |
|----------------------------------------------------|----------------------------------------------|--------------|
| three events (stop, manual, settings)              | interface sets, worker resets (stop: nobody) | worker       |
| `clearCacheRequested_` (atomic)                    | interface sets, worker takes                 | worker       |
| `status_` under a mutex                            | worker                                       | interface    |
| the main window's queue, messages without data     | worker                                       | interface    |
| sales.db                                           | worker                                       | both         |
| apikey.bin                                         | interface                                    | both         |
| preferences (registry)                             | interface                                    | both         |

### Components

| component (src/src/...) | state | operations | what makes it correct |
|---|---|---|---|
| Synchronization worker (`sync/SalesSyncService`) | mark, cursor and times in `sync_state`, status, deadline, the locals of a pass | `Run`, `RunSynchronization`, `RequestRefresh`, `RequestClearCache`, `NotifySettingsChanged`, `Stop` | no changed date is lost, whatever fails; the cache catches up; requests reach the worker; exit ends |
| Application (`app/App`) | tooltip, dialog outcome, visibility | `HandleMessage`, `UpdateTray`, `MaybeShowNotification`, `OnSettings`, menu commands | what is on the screen is what the worker last did |
| Local cache (`storage/Database`, `Migrations`) | products, daily_product_sales, sync_state, schema_version | `Open`, `ReplaceDate`, `ClearAllSales`, setters, queries, two migrations | writes are all or nothing; keys hold; lists and totals agree; upgrades keep the data |
| Financial API client (`steam/SteamFinancialClient`, `network/WinHttpClient`, `steam/SteamJsonParser`) | cursor and page of a fetch | `GetChangedDates`, `GetDetailedSales`, `GetAllDetailedSalesForDate` | every item once; no failure taken for an empty date; every fetch ends |
| Aggregation (`sync/SalesAggregator`) | rows, index by product | `AggregateDate` | one row per product with the right sum and name |
| Secret store (`security/DpapiSecretStore`) | apikey.bin, apikey.bin.tmp | `Store`, `Load`, `HasStoredKey`, `Remove` | never a torn key; the answers are true |
| Settings dialog (`ui/SettingsDialog`), preferences (`storage/SettingsStore`, `platform/StartupManager`) | controls, initial values, outcome; registry | `OnInitDialog`, `OnSave`, `OnClearCache`, `OnRemoveKey`, cancel | what is shown is stored; every change is told to the worker |
| JSON parser (`steam/SteamJsonParser`) | none | `GetResponse`, `ParseDetailedSalesPage`, `ParseChangedDates` | every spelling of a number means the same; no error is a page |
| Sales window (`ui/SalesWindow`), calendar (`platform/TimeUtil`) | periods, selection, list, status line, visibility | `ShowAndFocus`, `Refresh`, `ReloadList`, `PopulatePeriodCombo`, `OnSettingsChanged` | shows the period it says, of the right day; keeps the user's choice; agrees with the cache |
| Tray icon and menu (`tray/`) | the icon's identity, `added_`, the tooltip | `Add`, `Recreate`, `SetTooltip`, `ShowBalloon`, `Remove` | one icon, there after every restart of Explorer, with the last tooltip |
| Single instance and start (`app/Main`, `app/SingleInstance`) | mutex, window | hand-off of a command | one instance; every hand-off ends |
| Secure string, URL encoder, other platform helpers, resources | none | conversions | |

Interactions: dialog -> application -> worker (events), worker -> client ->
service, worker -> aggregation -> cache, worker -> secret store, worker ->
application (messages) -> status, cache, tray, sales window.

Hard behaviours: a pass can fail or be interrupted between any two of its
database transactions; the service changes while a pass runs and between two
pages of one date; SQLite in WAL mode with `synchronous=NORMAL` loses committed
transactions, newest first, in a loss of power; both threads read shared state
piecemeal; modal dialogs pump messages, so that handlers nest; the key file is
replaced while the other thread may read it; starts race with the creation and
the end of the instance; Explorer restarts between any two calls of the shell;
the financial day ends inside a handler. The hazards in `PROJECT.json` give
each at its line.

## 2. Modules

Order in which they were written, most important first.

| module | models | composes |
|---|---|---|
| `SalesSync` | a pass against the service and the cache, crashes, losses of power | worker, service (external), the cache as one record |
| `TrayApp` | both threads, events, messages, status, tooltip, window, dialog, exit | worker's control flow with the interface |
| `CacheTable` | what a writing call of the cache promises (abstract) | |
| `CacheDatabase` | statements, transactions, constraints, migrations, queries | implements `CacheTable` |
| `FinancialClient` | classification of an answer and the page loop | client, WinHTTP results, parser results |
| `SalesAggregator` | the aggregation loop | |
| `SalesPages`, `MCSalesPages` | from the bodies of the answers to the rows | parser, the records of all pages, `SalesAggregator` |
| `SecretStore` | the key file | dialog's calls and worker's reads |
| `SettingsDialog` | dialogs, message boxes, saves | dialog, registry, `OnSettings` |
| `MCSettings` | the two before for one run: they share no variable, and the first state chooses which of them runs | |
| `TrayIcon` | the icon of each process against the shell | TrayIcon objects, Explorer (external) |
| `Launch` | starts, mutex, hand-off, the life of the instance | `TrayIcon`, `App::Run`, commands, kills |
| `SalesWindow` | periods, days, menu and tooltip | sales window, preferences, `OnSettings`, the clock |
| `SalesSyncProofs`, `TrayAppProofs`, `CacheDatabaseProofs`, `LaunchProofs`, `SalesWindowProofs` | theorems about the module of that name | |
| `FinancialDataProofs` | theorems | FinancialClient, SalesPages, SalesAggregator |
| `SettingsProofs` | theorems | SettingsDialog, SecretStore |
| `Sums` | lemmas about sums over finite sets, least and greatest numbers | |

The constants are numbers, sets of model values or sets of strings that a .cfg
can write down; only SalesPages, whose constants are numbers below zero and the
bodies of answers, has an MC module; MCSettings exists for its run only.

In each module the definitions named in its header as faulty variants are not
used by any action. Each is one plausible mistake in the definition it precedes
or stands by; replacing the definition by it must make a property fail.

### SalesSync

*The data.* Each change at the service gets a new change id (`clock`); a date's
figures are the id of their last change (`revision`). Times are told in change
ids too: `now`, the time a pass asks the service at, and `lastSync`, the stored
time, are the last id given out at that time. The rows stored for a date
are the set of ids its pages were read at, so that a date read across a change
({1, 2}) is told from a consistent one ({2}). `db` is the cache as the process
sees it, `disk` what a loss of power would leave: an earlier state of `db`,
because WAL frames reach the disk in order (`Flush`). `lost` is a history
variable, explained at `SafeToAdvance` below.

*The steps.* `RunSynchronization` is cut wherever it commits, asks the service
or takes a request: `BeginPass`, `ClearIfRequested`, `LoadKey`, the query
(`NoChanges`, `ChangesFound`, `ChangedDatesFailed`), for the oldest date of the
rest `FetchPage` once per page, `StoreDate`, `Checkpoint`, then `AdvanceMark`,
`EndBackfill` and `Finish`. Every early return is an action (`KeyMissing`,
`OpenFailed`, `FetchFailed`, `StoreFailed`) that leaves through `EndPass`, which
drops the locals. The code looks at the result of `Open` and `ReplaceDate` only; every
other database call either works or leaves the record as it is
(`IgnoringErrors`), and a failing read returns the value of an empty cache.
`Crash` and `PowerLoss` may come at any moment; `Rebuild` is the deletion of a
cache that does not open, which `App::Run` offers.

*Abstractions.* One key and one partner. Rows of a date are stored whole
(`CacheDatabase` justifies it, with `SyncWritesByCalls` of section 5). The
answer may or may not name a mark. The age of the last synchronization is a free
choice at start.

### TrayApp

Each action is a step between two points at which the other thread can look.
The worker's actions follow the posts, the assignments of the status and the
database calls of `Run` and `RunSynchronization`. A handler of the interface
thread is a sequence of reads and writes (`tasks`), because it reads the status,
the figures and the error in several calls. The figures are a version number
that a stored date increments; a clear may set it to 0.

`HandleMessage` runs only when no handler runs (`Free`). The settings dialog is
open or not (`outcome.open`): it is modal but pumps messages, so messages of the
worker are handled while it is open, and everything it stores is visible to the
worker at once, while the worker is told only when the dialog returns.
`Exit` destroys the window (messages in the queue are lost; posts to it do
nothing), lets an open dialog return, sets the stop event and joins the worker.

`HasStoredKey` and `Load` may fail to read a key that is stored (see SecretStore
below): the tooltip at the start is one of `KeyTips`, and `misread` is a history
of whether the status reports a stored key as missing.

`WaitForMultipleObjects` returns the first signalled event of stop, manual,
settings, and resets it. The interval is read twice (`ResetDeadline`,
`ComputeWait`) as in the code.

### CacheTable and CacheDatabase

`CacheTable` is the promise of the header: a writing call takes effect
completely and answers "done", or has no effect and answers "failed", or the
process dies and it has no effect. In one point the effect is that of the code
and not the promised one: a clear resets the time of the last successful
synchronization, a finding (section 3). `CacheDatabase` runs a call as a list of SQL
statements in a transaction on a copy (`tx`) of the committed file. The engine
refuses what the schema forbids (`Refused`: existing table or column, primary
key, foreign key in both directions); any statement may fail by the disk, and
the process may die anywhere. `WritesAreAtomic` is `CacheTable`'s specification
under the mapping that hides `tx`, the statements and the two kinds of failure.
Migrations run from a file that does not exist and from every file that the
schema and the keys of the first version allow: products without sales, a time
without a mark. `ReadVersion` is `GetSchemaVersion`, which says 0 also when it
cannot read; the first migration is then tried on tables that are there, refused
and rolled back, and `Open` fails.

### FinancialClient, SalesPages, SalesAggregator

`HttpResults` enumerates every combination of fields in which
`WinHttpClient::Get` returns; `Classify` and `Outcome` are the client's mapping
of them; a body may be a page, an error, both at once, or neither. The page loop
follows `max_id`. A well-behaved service answers with
the items after the cursor and the id of the last one; a misbehaving one with
any cursor (`misbehaves`, chosen at the start). Items arrive while a fetch runs.

`SalesPages` looks inside an answer. The bodies that the service may send are a
constant, `Answers`, of which nothing is assumed but their shape (`IsBody`).
A JSON value is a type, the number that is written there and, of a string, its
text: nothing, a numeral, or something that begins with digits or not. An integer
of the program lies in `-Limit..Limit - 1`, an unsigned one reaches to
`2 * Limit - 1`, and the operators are the functions of
SteamJsonParser.cpp by name: `GetInt64`, `GetNumberAsString`, `Status` (for
`GetResponse`), `AppNames`, `ParseRecord`, `Located`. `PageParsed` appends the
records of an answer to those of the earlier ones, `AggregateNext` takes the
records one after the other with the actions of `SalesAggregator`, of which
`Skip`, `FirstOfProduct` and `Merge` are the branches of the loop. The rows are
compared with sums over the records (`RowsAreSums`) and with what is written in
the answers (`RowsMatchAnswers`). The answers differ from a plain one in one
respect per item, so that the types and their neighbours vary, not their
products (`MCSalesPages`; the theorems are about any answers). `CursorIsExact`
reads the cursor of each request off the answer before it (`CursorOf`), not off
the parser. An array of records under none of the known keys, or something else
than an array under one, counts as an empty page, as in the code.

### SecretStore

`Store` writes a temporary file, flushes it and renames it over the key file;
each system call is a step that may fail. The worker opens the file twice per
pass, for `HasStoredKey` and for `Load`, and each may fail although the file is
there: it cannot be opened, for one while the rename replaces it (`OpenFailed`),
its size or its contents cannot be read, or DPAPI does not open it
(`ReadFailed`). The code treats all of this as "no key". A handle without `FILE_SHARE_DELETE` makes a rename or removal fail.
After a loss of power a file whose data was not flushed is `Torn`, and a removal
may be undone.

### SettingsDialog

`stack` holds the modal calls (dialogs and message boxes), the innermost last: a
call returns only when it is innermost, while every open dialog without a box
takes input. `unheard` is a history of changes nobody was told of. What
`OnSettings` does with the outcome is `Return`. Any write to the registry may
fail without notice, as in the code.

### TrayIcon and Launch

`TrayIcon` has one object per process and one shell. `Add` sets owner and
tooltip, and each call of `Shell_NotifyIconW` is a step (`DeleteStale`,
`TryAdd`, `AddRefused`), between which Explorer may stop, start again or drop an
icon whose window is gone. Explorer accepts NIM_ADD if it runs, the identity is
free, the object has an owner, and the GUID is not bound to another path. The
answer of NIM_MODIFY is ignored, as in the code.

`Launch` follows every start from `CreateMutexW` to the end of the process: `at`
is its station in `wWinMain` and `App::Run`. The message boxes of `App::Run` run
a message loop, so that commands of other starts and `TaskbarCreated` are
handled before the icon or the worker exists (`Pumps`). `fate` is a history of
what became of each command. Any instance may be killed.

### SalesWindow

The clock is read once for each date that is asked for, so a handler takes a
sequence of readings (`Readings`) among which midnight may lie; C++ leaves the
order of a range's two readings open (`ReloadList`). The list, the menu and the
tooltip are sets of dates, without figures. `EnsureCreated` is a part of
`ShowAndFocus`; `SettingsReturn` is `App::OnSettings` after its dialog, which
may lie under another one.

## 3. Runs

Expected to pass:

| run | bounds | properties |
|---|---|---|
| `SalesSync` | 2 dates, 2 changes, 2 pages | `NoLostUpdate`, `CheckpointBehindData`, `FreshCacheIsComplete`, `MarkRegressesOnlyWithData`, `Converges` |
| `TrayAppWindow` | 1 version of the figures, 1 notification, 2 messages | `DisplayIsCurrent`, `LastNotificationShown`, `ExitEnds` |
| `TrayAppSettings` | 1 message, figures constant | `DisplayIsCurrent`, `WorkerFollowsSettings`, `ClearIsNotForgotten` |
| `CacheDatabase` | 2 products, 2 dates, 2 units, 2 rows a call | `ListMatchesTotal`, `OnlyDiskErrors`, `SchemaMatchesVersion`, `WritesAreAtomic` |
| `FinancialClient` | 4 items, 2 a page, at most 5 pages | `EveryItemOnce`, `NoFailureTakenForSuccess`, `CallReturns` |
| `SalesPages` | 2 answers, 3 records, Limit 2, 2 names | `RowsAreSums`, `RowsMatchAnswers`, `CursorIsExact` |
| `Settings` | 2 dialogs, 2 preferences, 1 key; or 2 keys and the key file | `EveryChangeIsTold`, `SaveStoresControls`, `KeyFileIsWhole`, `AnswerIsTrue` |
| `Launch` | 2 starts, 2 tooltips, 2 restarts of Explorer | `AtMostOneInstance`, `OneIcon`, `IconIsShown`, `TooltipIsCurrent`, `HandOffEnds` |
| `SalesWindow` | 2 days, 2 dialogs | `ListIsOfPeriod`, `MenuIsOfDay`, `PeriodIsKept`, `HiddenLifetimeIsNowhere`, `MidnightIsNoticed` |

The type invariants of TrayApp, CacheDatabase and SalesPages (`PagesTypeOK`) are
checked by their runs and proved as well; the other type invariants, and
`SyncingWhilePassRuns` of SalesSync, are proved for every instance (section 5)
and no run repeats them.

Why the bounds are enough:

- *SalesSync*: two dates give a pass that stores one and fails on the other, a
  cursor with dates on both sides, and a resumed backfill; two pages give a
  change between them; two changes give a date that is revised after it was
  stored or while it is fetched. `NoLostUpdate` and its companions are proved
  for all bounds, so the run serves to find mistakes cheaply and to check
  `Converges`.
- *TrayAppWindow*: two messages in the queue let a whole pass end before the
  first is handled. Without "interval" among the uses the default interval is
  stored. *TrayAppSettings*: what the dialog changes is independent of the
  figures, so these do not vary, and one waiting message is enough to read
  stale state. The safety properties of both are proved for all bounds and uses
  together.
- *CacheDatabase*: a foreign key and a primary key involve two rows of one date
  or one product of two dates. All properties are proved for any number of them.
- *FinancialClient*: five pages are as many as four items that arrive one at a
  time need, with the answer that ends the loop.
- *SalesPages*: three records are two of one product around one of another, two
  answers are a product spread over pages with a name on one of them; with a
  limit of 2 the number 3 is above the signed range and would be taken for -1, a
  product too, and a cursor of 3 would go back as -1. All four properties are proved for any answers and limit.
- *Launch*: two starts are the instance and one that races with its beginning
  and its end, or succeeds it. The safety properties are proved for any number.
- *SalesWindow*: midnight comes once; a period that begins before the first day
  reaches back into `Dates`. The invariants are proved for any number of days.
- *Settings*: two keys tell the old content of the file from the new one. Two dialogs are one on top of another; "interval" takes the
  stored value 7, which is not valid, and "startup" stands for the check boxes.

Deadlock is checked except in TrayApp, where the process ends ("Gone"), in
Launch, where the last start ends, and in SalesPages, where the loop ends with
its last record.

Expected to be violated, each a finding in `PROJECT.json`:

- `SalesSync_SafeToAdvance`. A backfill is interrupted after date 1 was stored
  and the cursor names it. Date 1 changes. The resumed backfill asks without a
  mark, is told of both dates, skips date 1 as "not newer than the cursor", and
  stores the service's mark, which is above date 1's change: it is not fetched
  again until it changes once more. `NoLostUpdate` says that this is the only
  way to lose an update.
- `SettingsDialog_SavedPreferencesStored`. `OnSave` writes the preferences and
  then refuses the key; the dialog stays open and goes on comparing with the
  values it opened with. A check box set back before the next save equals its
  initial value and is not written: the registry keeps what the refused save
  stored.
- `CacheDatabase_ClearKeepsTimes`. Database.h:52 says that `ClearAllSales` keeps
  the timestamps; it resets `last_successful_sync_utc`. The code is right:
  `FreshCacheIsComplete` needs the reset, or the next start would skip its first
  pass over an empty cache.

The last one disagrees with a comment only. Each run has the bounds of its
module's passing run, or smaller ones.

Other comments that the code does not keep, in the models as the code has it:

- Migrations.cpp:54 says that the upgrade seeds the cursor of a database that "is
  mid-backfill". A first synchronization that is finished, but by a pass whose
  answer named no mark, is seeded too (`OldFiles` has such files). The next pass
  takes itself for a resumed backfill and skips the dates up to the cursor; if
  its answer names a mark, changes of these dates are lost as in
  `SalesSync_SafeToAdvance`.
- DpapiSecretStore.h:33 says of `HasStoredKey` "True if a structurally valid key
  file exists". It is false also when the file cannot be opened or read
  (`OpenFailed`, `ReadFailed`): the pass reports a stored key as missing until the
  next one (`misread` in TrayApp). No run claims the contrary.
- SettingsStore.h:21-22 says that values below 15 minutes are clamped up to 15.
  They are replaced by the default of 30 (`Read`), and the comparison with 15 is
  never reached.
- The timer starts a pass after the key was rejected, of which
  SteamFinancialClient.h:16 says "stop retrying".

Behaviour of the models that disagrees with nothing the repository says but is
worth knowing: a date with more pages than `kMaxPagesPerDate` is truncated and
reported as a success; the first message of a pass is posted before the status
it announces is set, so the tooltip may show the old status until the next
message; a second pass that ends before the first one's message is handled
replaces its notification; a clear that fails is not tried again; a clear requested just
before exit is not done.

Of the start and the icon: a start while the instance has no window (it creates
it, shows its error box, or is about to exit) loses its command; a second start
that is still there when the instance ends keeps the mutex, so that a third one
does not become the instance; the mutex is named `Local\`, so that what Launch
says of one instance is true of each session of a user; "refresh" handed over before the worker starts is
dropped; the worker starts only after the user has dismissed the box "Failed to
add the notification-area icon" (App.cpp:90). A `TaskbarCreated` that is handled
when the icon has already been added under the window's number makes the second
NIM_ADD fail: the icon stays, but counts as not added and keeps its tooltip. A
`TaskbarCreated` handled in the box about the cache calls `Add` without an owner
and gives the GUID up for good.

Of the sales window: a midnight between the two readings of a range makes it a
day longer or shorter; the menu may show the same date as "Today" and as
"Yesterday"; with a manual interval nothing rewrites the tooltip at midnight; a
period that could not be stored jumps back when the settings dialog returns;
without a cache the list says "Total: 0".

## 4. Fairness

- `SalesSync!FairSpec`: weak fairness of the worker's own steps. Its calls
  return (WinHTTP and SQLite have timeouts), and its wait ends by the timer or a
  request. `Converges` concerns behaviours in which failures, clears, crashes
  and rebuilds eventually stop. Changes at the service end by the bound; the
  timer, requests and flushes go on.
- `TrayApp!FairSpec`: weak fairness of the worker, of the passing of time and of
  what the interface thread does by itself; strong fairness of `HandleMessage`,
  which the user's input, handled by the same thread, may disable again and
  again: `GetMessageW` returns posted messages before input. The user owes
  nothing: `ExitEnds` starts at the moment of exit.
- `Launch!FairSpec`: weak fairness of what each process does by itself, since
  calls of the shell and the window system return; strong fairness of the
  messages, which a tooltip update or a call of `Add` on the same thread may
  disable again and again. The user owes nothing: `HandOffEnds` holds although
  he may leave a message box open for ever.
- `SalesWindow!FairSpec`: weak fairness of a worker's message while the stored
  interval is not "manual": the timer starts pass after pass and each ends with
  a message.
- `FinancialClient!FairSpec`: weak fairness of the client; every request ends by
  a timeout at the latest.

## 5. Proofs

### SalesSyncProofs

For every finite or infinite set of positive dates, every number of pages, every
number of changes, with or without failing database calls:

- `TypeCorrect`, `NoUpdateIsLost`, `CursorNamesStoredDate`,
  `FreshCacheIsUpToDate`, `MarkIsMonotone`, `StatusFollowsPass`: the type invariant and the five safety
  properties of the run.

`NoLostUpdate` is not inductive. Its strengthening `IInv` says, besides types:

- `Bounds`: no change id in use is above `clock`, so a new change is above every
  mark.
- `CacheInv(db)`, `CacheInv(disk)`: the properties, of the cache as it is and as
  a loss of power would leave it.
- `LoopInv`: while dates are processed, every date that did not change after the
  query (`now`) is current, skipped, or still to be processed, and the mark the
  pass is going to store is that of the query. This is what allows `AdvanceMark`
  and what `Finish` may claim with the time of the query.
- `TodoInv`, `FetchInv`, `StoredInv`: the pages read so far of the oldest date
  agree with the service, or the date changed since the query and is above both
  marks. This is what allows a date to leave the list.

One lemma for each action that touches the cache or the pass, one step per
action in `InvNext`. `SyncingWhilePassRuns` is inductive by itself
(`StatusStep`); `MarkRegressesOnlyWithData` follows step by step from `IInv`
(`MarkStep`).

`SyncWritesByCalls` connects the worker with the cache: `Contents` maps the
record of SalesSync to a table of `CacheTable` (the rows of a date stand as one
row), and every step changes it by one call (`SyncCalls`) with the effect that
`CacheTable` gives it, unless the file is deleted at a start or a loss of power
sets it back. With `CallsAreAtomic` of CacheDatabaseProofs this is why a
date, the mark and the cursor may be single values there. It needs `IInv`: a
stored date has rows (`FetchInv`) and a mark that is written is not "no mark"
(`CacheInv`, `LoopInv`). That each action is at most one call is a statement
about the model's grain: no crash between two calls is left out.

### TrayAppProofs

For any bounds on messages, notifications and figures, any failures of a
request and anything the user does: `AppTypeCorrect`, `DisplayCatchesUp`,
`NotificationIsShown`, `WorkerCatchesUp`, `ClearIsTaken`, the type invariant and
the four safety properties of the two runs together.

The properties speak of the moments when both threads rest, which says nothing
of the steps before; the invariant says at every other moment what is still to
come. `Coming`: the interface is about to end, an event is set, the worker is at
a station from which a message follows, or a message waits. `TooltipInv`: the
tooltip is right, or a task that reads again is in the list (and the status read
is the present one if only its use is left), or `Coming`; a tooltip that the end
of the dialog will write over has been preceded by a request. `WindowInv` says
the same of the window, `NoteInv` of the notification, `SettingsInv` (`Told`) of
preferences and key, `ClearInv` of the flag. `Ordered` says which task follows
which one in the list: with it, a status that was read is used next, and the
event is set after the flag. One lemma per kind of step: a move, a status, a
message, a write to the cache, the end of a pass, the wait, each kind of task,
each action of the user.

### CacheDatabaseProofs

For any products, dates and units and any number of rows: `CacheTypeCorrect`,
`NothingIsRefused` (`OnlyDiskErrors`), `SchemaFollowsVersion` and the refinement `CallsAreAtomic`: a call is one step of `CacheTable`. Also
`ListsAddUp` (`ListMatchesTotal`): for every range of dates the rows of the list
and of the menu add up to the total that is shown with them.

*The argument.* `After(call, file, n)` is what the first n statements of a call
have made of the committed file, written in closed form for each kind of call.
`Progress`: the statement n + 1 takes `After(n)` to `After(n + 1)` and the
engine does not refuse it. This is where the order of the statements matters: in
a replacement the product of row i is there because statement 2 i put it, and no
row of that key is there because the date was deleted and `AggregateDate`
returns a product once; the products are deleted when no row refers to one; the
column is added by the only version that lacks it. `Effects`: after all
statements the file has the contents `CacheTable` promises and keeps `FileInv`,
the keys of the schema and "the column is there at version 2, the cursor is not
used before it". `ReadVersion` may take a file for new; of
the migration that follows (`Misread`) nothing is executed, because its first
statement is refused. The invariant then says that an open transaction is
`After(call, file, n)` for the n whose statements are not in `todo` (`RunInv`),
and that a migration runs only while the connection opens, the upgrade on its
version, any other call only on version 2 (`ConnInv`). Without `RunInv` a commit could
write anything; without `ConnInv` a cursor could be stored before the upgrade
has made its column. Begin and Execute stutter in `CacheTable`, Commit performs,
a disk error refuses, the end of the process dies.

`ListsAddUp` follows from `FileInv` (a row's product is in the
table of products, so the list leaves no row out) and from the tables being
finite (`FiniteFile`), by `SumOfGroups`.

### LaunchProofs

For any number of starts, tooltips, commands and restarts: `LaunchTypeCorrect`,
`OneInstanceOnly`, `OneIconOnly`, `IconStays`, `TooltipFollows`. The invariant:

- `MutexInv`: a process at a station of the instance has a handle, and so has
  every one with a window or a worker; at most one is the instance. Nobody can
  create the mutex while a handle is open, which is why it is inductive.
- `ObjectInv`: which TrayIcon objects have an owner, a pending call, an added
  icon, by station.
- `ShellInv`: an icon under a window's number is that window's; an icon under
  the GUID is of a process that is gone or uses the GUID.
- `IconInv`: for each window (`IconOf`), the icon is shown with the tooltip of
  the object, or a call of `Add` is under way, or a broadcast waits, or Explorer
  is away. This is what survives a stop of Explorer between any two calls.

### SalesWindowProofs

For any first and last day and any number of dialogs: `WindowTypeCorrect`,
`ListFollowsPeriod`, `MenuFollowsDay`, `PeriodComesBack`,
`LifetimeStaysHidden`. What the combo box and the tooltip offer (`OfferInv`) and
the stored period (`StoredInv`) complete the four properties to an inductive
invariant; that list and menu stay right follows from facts about `DatesOf` on
two readings one day apart.

### FinancialDataProofs

*The requests.* For every number of items, page size and bound on the pages:
`ClientTypeCorrect`, `FailureIsReported` (a result that counts as a success is a
page, by cases over the ways a request ends), and, when the bound on the pages
is enough for the date (`MaxItems <= MaxPages * PageSize`),
`NoItemMissedOrDoubled`. Its invariant says that the ids collected are exactly
those up to the cursor (`Collected`), and that the cursor has moved by whole
pages or has passed the items of the call (`Progress`).

*The rows.* For every limit of an integer, all bodies the service may answer
with and any number of records: `PagesTypeCorrect`, `CursorGoesBackExact`,
`RowsAddUp` (`RowsAreSums`) and `RowsAreWhatWasAnswered` (`RowsMatchAnswers`).
`RowsAddUp` also says that no product has two rows, on which the replacement of
a date in CacheDatabase relies. The invariant:

- `FetchInv`: what was collected, and that the cursor is that of the last answer.
- `PrefixInv`: the aggregation has seen the beginning of what was collected.
- `IndexInv`: `indexByApp` and `rows` are inverse to each other. `RowsAreSums`
  does not mention the index, but without this a merge could go to the row of
  another product.
- `SumsInv`: the rows are the sums and the last names of the records seen so
  far. A turn of the loop (`SkipTurn`, `FirstTurn`, `MergeTurn`) adds one record
  to one sum (`OneMoreTotal`, `OneMoreName`).
- `PlacesInv`: the records of all pages can be numbered by the places of their
  items in the answers, each place once (`IsNumbering`). This is what the
  records say about the answers: `RowsMatchAnswers` sums over places,
  `RowsAreSums` over records, and sums over the two are equal because each is
  the other renamed (`SumRenamed`).

`CursorGoesBackExact` goes by the types of a value (`ParsedCursor`): an integer
above the signed range is written by the branch for unsigned ones, and only a
value below zero reaches the signed branch, where nothing wraps. Each turn of
the loop compares one answer (`OneMoreAnswer`).

That a record says what its item says, however the numbers are spelt, is
`RecordAsWritten`; it needs `NumbersFit`, because a number above the limit
becomes another product. `Items` selects by a recursive function; that it exists
is proved (`SelectionExists`).

### Sums

The lemmas about sums that CacheDatabaseProofs and FinancialDataProofs use:
`SumFunctionOnSet` of the community modules is a fold, of which the prover knows
nothing, and induction with an operator is out of its reach. It is replaced by
an argument about sets: if a fact were false for some subset of a finite set, it
would be false for a subset of which no element can be removed
(`MinimalSubset`, from the library's well-founded ordering of finite subsets).
From this: that the sums of all subsets exist and are unique (`SumsExist`,
`SumsAgree`), that the fold computes them (`SumIsSums`), and then `SumRemove`,
`SumUnion`, `SumOfGroups` (a sum by groups), `SumRenamed`.

### SettingsProofs

*The dialogs.* For any preferences, keys, contents of the registry and number of dialogs open
at once: `DialogTypeCorrect`, `ChangesAreTold`, `SavesAreStored`. The invariant:

- `DialogInv`: a control of an open dialog shows a value that can be chosen or
  the one it opened with, so that only values that can be chosen are written.
- `StackInv`: each dialog has one call, later dialogs have later calls, and the
  boxes of a dialog come after its call. Hence the call that returns is that of
  the last dialog, and no box of it is left (`LastReturns`).
- `HeardInv`: for every change nobody was told of there is an open dialog whose
  outcome makes `OnSettings` tell of it. An outcome only grows (`NotifyGrows`),
  and what a dialog that returns does not tell of is in the outcome of another.

`SavesAreStored` is an action property: of all steps only `Save` ends a dialog
as saved (`SavedBySave`).

*The key file.* For any keys: `StoreTypeCorrect`, `KeyFileIsNeverTorn`,
`StoreAnswersTruly`. The invariant adds that a Store that runs has not touched
the file (`SavingInv`), that the temporary file holds the key when it is flushed
and is flushed when it is moved.

### Assumptions

The named ASSUMEs of the modules (dates are positive, any of them have a
greatest, there is at least one page, contents are distinct, no process is
called like the GUID, every integer other than 0 may be a product and every
integer a number of units, an answer has the shape of a JSON body), which TLC
evaluates in each run; and, built into the models: SQLite transactions are
atomic and durable in order; `MoveFileExW` replaces a name in one step; change
ids grow and a query returns every date above its mark; a posted message arrives
while the window exists.

### Only model-checked

Liveness (`Converges`, `ExitEnds`, `CallReturns`, `HandOffEnds`,
`MidnightIsNoticed`), which the prover does not reach: it has no rules for
fairness and ENABLED. Every other property of the passing runs is a theorem. The
three properties that are expected to fail are false, so that a counterexample is
all there is.

## 6. Not modelled

- Another key naming another partner: the mark of the first is kept by the code.
- The interface's connection failing to open, in TrayApp, which assumes it is
  open; Launch and SalesWindow allow it.
- `ParseChangedDates`, which reads a list of strings and a mark with the
  functions that SalesPages has; the age of a stored time (`SecondsSinceUtc`),
  a free choice in SalesSync; URL encoding, logging, paths, layout, geometry,
  column widths, resources: sequential functions or data.
- NIM_SETVERSION, NIM_SETFOCUS and the foreground rules of Windows, whose
  results nobody looks at; a minimized sales window.
- A queue that is full (10,000 messages): `Post` waits at the bound of the model
  only to keep it finite.
- DPAPI, WinHTTP, SQLite and yyjson themselves; they are external and appear as
  the results that the code distinguishes.

## 7. Plan

Extending the model: a service per key in SalesSync, so that a change of the
partner is a step; the interface's own connection and the rebuild of a cache
that does not open in TrayApp.

Proving more: that the worker of TrayApp takes the steps of SalesSync's, under a
mapping that hides the dates.
