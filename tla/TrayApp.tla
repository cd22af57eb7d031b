------------------------------ MODULE TrayApp ------------------------------
(***************************************************************************)
(* The two threads of Steam Sales Tray: the user interface thread          *)
(* (app/App.cpp, ui/SalesWindow.cpp) and the synchronization worker        *)
(* (sync/SalesSyncService.cpp).  They share three events, a status         *)
(* snapshot under a mutex, an atomic flag, the registry and the database;  *)
(* the worker wakes the user interface with messages that carry no data.   *)
(*                                                                         *)
(* What a pass does to the cache is SalesSync's subject; here the figures  *)
(* are a version number, and every place where the threads can interleave  *)
(* is a step of its own.  A handler of the user interface is the sequence  *)
(* of the reads and writes it makes ("tasks").                             *)
(*                                                                         *)
(* SendAndWait and PostAnyway, PostTotalsAsProgress, CompleteSilently,     *)
(* NotifyForKeyOnly and SetEventFirst are faulty variants of the           *)
(* definition that follows them; no action uses them.                      *)
(***************************************************************************)
EXTENDS Naturals, Sequences

CONSTANTS MaxTotal,    \* bound on the versions of the figures
          MaxNotes,    \* bound on the notifications built
          QueueBound,  \* bound on the messages waiting for the main window
          FetchErrors, \* the failures of a request that are told apart
          Uses         \* what the user does in an instance; without
                       \* "interval" the default one is stored

ASSUME BoundsAssumption ==
  MaxTotal \in Nat /\ MaxNotes \in Nat /\ QueueBound \in Nat \ {0}
ASSUME FetchErrorsAssumption ==
  FetchErrors \subseteq {"Offline", "AuthenticationFailed", "ApiError",
                        "ParseError"}

ASSUME UsesAssumption ==
  Uses \subseteq {"window", "refresh", "interval", "key", "clear"}

VARIABLES
  (* shared *)
  stop, manual, settings,   \* the three events are set
  clearRequested,           \* clearCacheRequested_
  interval,                 \* registry: the timer is in use
  keyStored,                \* the secret store holds a key
  status, note,             \* status_: its status and notification
  total, lastError,         \* database: version of the figures, last_error
  queue,                    \* messages posted to the main window
  (* worker *)
  wpc, deadline, timed,     \* deadlineTick_; the wait has a timeout
  (* user interface *)
  ui, tasks, st, tooltip, visible, window, outcome,
  (* history *)
  issued, shown, heard,
  misread                   \* the status reports a stored key as missing

events == <<stop, manual, settings>>
snapshot == <<status, note, misread>>
database == <<total, lastError>>
preferences == <<interval, keyStored>>
worker == <<wpc, deadline, timed>>
display == <<tooltip, visible, window>>
history == <<issued, shown, heard>>
vars == <<events, clearRequested, preferences, snapshot, database, queue,
          worker, ui, tasks, st, display, outcome, history>>

Statuses == FetchErrors \cup {"Idle", "Syncing", "MissingApiKey",
                              "DatabaseError"}

NoOutcome == [open |-> FALSE, key |-> FALSE, prefs |-> FALSE, clear |-> FALSE]

(* HasStoredKey may fail to read a key that is stored (SecretStore).       *)
KeyTips == [text : {"API key required"} \cup IF keyStored THEN {"Ready"} ELSE {},
            total : {0}]

Init ==
  /\ stop = FALSE /\ manual = FALSE /\ settings = FALSE
  /\ clearRequested = FALSE
  /\ interval \in IF "interval" \in Uses THEN BOOLEAN ELSE {TRUE}
  /\ keyStored \in BOOLEAN
  /\ status = "Idle" /\ note = 0
  /\ total = 0 /\ lastError = FALSE
  /\ queue = <<>>
  /\ wpc = "Start" /\ deadline = "zero" /\ timed = FALSE
  /\ ui = "Running" /\ tasks = <<>> /\ st = status
  /\ tooltip \in KeyTips /\ visible = FALSE
  /\ window = [total |-> 0, error |-> FALSE]
  /\ outcome = NoOutcome
  /\ issued = 0 /\ shown = {} /\ heard = FALSE /\ misread = FALSE

-----------------------------------------------------------------------------
(* The worker.  Each action below is one step between two points where the *)
(* other thread can look.                                                  *)

Go(from, to) == wpc = from /\ wpc' = to

Untouched == <<events, clearRequested, preferences, ui, tasks, st, display,
               outcome, shown, heard, deadline, timed>>

SendAndWait(message) ==
  /\ ui = "Running"
  /\ Len(queue) < QueueBound
  /\ queue' = Append(queue, message)

PostAnyway(message) ==
  Len(queue) < QueueBound /\ queue' = Append(queue, message)

(* PostMessageW: nothing arrives once the window is destroyed.             *)
Post(message) ==
  IF ui = "Running"
  THEN Len(queue) < QueueBound /\ queue' = Append(queue, message)
  ELSE UNCHANGED queue

PostAt(from, message, to) ==
  /\ Go(from, to)
  /\ Post(message)
  /\ UNCHANGED <<Untouched, snapshot, database, issued>>

SetStatusAt(from, s, to) ==
  /\ Go(from, to)
  /\ status' = s
  /\ misread' = FALSE
  /\ UNCHANGED <<Untouched, note, database, queue, issued>>

(* Run, before the first wait.                                             *)
StartWithPass ==
  /\ Go("Start", "Begin")
  /\ UNCHANGED <<Untouched, snapshot, database, queue, issued>>

StartFresh == SetStatusAt("Start", "Idle", "Deadline")

PostStarted == PostAt("Begin", "SYNC", "Syncing")
SetSyncing == SetStatusAt("Syncing", "Syncing", "Open")

OpenFailed == SetStatusAt("Open", "DatabaseError", "PostFailed")

OpenDatabase ==
  /\ Go("Open", "Clear")
  /\ UNCHANGED <<Untouched, snapshot, database, queue, issued>>

ClearIfRequested ==
  /\ Go("Clear", "Key")
  /\ clearRequested' = FALSE
  /\ total' \in IF clearRequested THEN {0, total} ELSE {total}
  /\ UNCHANGED <<events, preferences, snapshot, lastError, queue, deadline,
                 timed, ui, tasks, st, display, outcome, history>>

(* HasStoredKey or Load fails: there is no key, or it cannot be read.      *)
KeyMissing ==
  /\ Go("Key", "PostFailed")
  /\ status' = "MissingApiKey"
  /\ misread' = keyStored
  /\ UNCHANGED <<Untouched, note, database, queue, issued>>

LoadKey ==
  /\ keyStored
  /\ Go("Key", "Query")
  /\ UNCHANGED <<Untouched, snapshot, database, queue, issued>>

FetchFailed(from, s) == SetStatusAt(from, s, "RecordError")
StoreFailed == SetStatusAt("Dates", "DatabaseError", "RecordError")

(* SetLastError, whose own failure is ignored.                             *)
RecordError ==
  /\ Go("RecordError", "PostFailed")
  /\ lastError' \in {TRUE, lastError}
  /\ UNCHANGED <<Untouched, snapshot, total, queue, issued>>

ClearError(from, to) ==
  /\ Go(from, to)
  /\ lastError' \in {FALSE, lastError}
  /\ UNCHANGED <<Untouched, snapshot, total, queue, issued>>

PostFailed == PostAt("PostFailed", "SYNC", "Deadline")

NoChanges == ClearError("Query", "IdleUnchanged")
SetIdleUnchanged == SetStatusAt("IdleUnchanged", "Idle", "PostCompleted")

ChangesFound ==
  /\ Go("Query", "PostProgress")
  /\ UNCHANGED <<Untouched, snapshot, database, queue, issued>>

PostProgress == PostAt("PostProgress", "SYNC", "Dates")

StoreDate ==
  /\ Go("Dates", "PostProgress")
  /\ total < MaxTotal
  /\ total' = total + 1
  /\ UNCHANGED <<Untouched, snapshot, lastError, queue, issued>>

AllStored == ClearError("Dates", "IdleDone")

(* The notification and the final status become visible together.          *)
SetIdleDone ==
  /\ Go("IdleDone", "PostTotals")
  /\ status' = "Idle"
  /\ misread' = FALSE
  /\ \/ note' = 0 /\ UNCHANGED issued
     \/ issued < MaxNotes /\ issued' = issued + 1 /\ note' = issued'
  /\ UNCHANGED <<Untouched, database, queue>>

PostTotalsAsProgress == PostAt("PostTotals", "SYNC", "PostCompleted")
PostTotals == PostAt("PostTotals", "TOTALS", "PostCompleted")
CompleteSilently ==
  /\ Go("PostCompleted", "Deadline")
  /\ UNCHANGED <<Untouched, snapshot, database, queue, issued>>
PostCompleted == PostAt("PostCompleted", "SYNC", "Deadline")

(* resetDeadline and ComputeWaitMs read the interval one after the other.  *)
ResetDeadline ==
  /\ Go("Deadline", "Compute")
  /\ deadline' = IF interval THEN "armed" ELSE "zero"
  /\ UNCHANGED <<events, clearRequested, preferences, snapshot, database,
                 queue, timed, ui, tasks, st, display, outcome, history>>

ComputeWait ==
  /\ Go("Compute", "Waiting")
  /\ timed' = interval
  /\ UNCHANGED <<events, clearRequested, preferences, snapshot, database,
                 queue, deadline, ui, tasks, st, display, outcome, history>>

Tick ==
  /\ deadline = "armed"
  /\ deadline' = "passed"
  /\ UNCHANGED <<events, clearRequested, preferences, snapshot, database,
                 queue, wpc, timed, ui, tasks, st, display, outcome, history>>

(* WaitForMultipleObjects returns the first event of the array that is set *)
(* and resets it; the stop event is reset by nobody.                       *)
Wait ==
  /\ wpc = "Waiting"
  /\ timed' = FALSE
  /\ \/ stop /\ wpc' = "Stopped" /\ UNCHANGED events
     \/ ~stop /\ manual /\ manual' = FALSE /\ wpc' = "Begin"
        /\ UNCHANGED <<stop, settings>>
     \/ ~stop /\ ~manual /\ settings /\ settings' = FALSE /\ wpc' = "Begin"
        /\ UNCHANGED <<stop, manual>>
     \/ ~stop /\ ~manual /\ ~settings /\ timed /\ deadline # "armed"
        /\ wpc' = "Begin" /\ UNCHANGED events
  /\ UNCHANGED <<clearRequested, preferences, snapshot, database, queue,
                 deadline, ui, tasks, st, display, outcome, history>>

Worker ==
  \/ StartWithPass \/ StartFresh \/ PostStarted \/ SetSyncing
  \/ OpenFailed \/ OpenDatabase \/ ClearIfRequested \/ KeyMissing \/ LoadKey
  \/ \E s \in FetchErrors : FetchFailed("Query", s) \/ FetchFailed("Dates", s)
  \/ StoreFailed \/ RecordError \/ PostFailed
  \/ NoChanges \/ SetIdleUnchanged
  \/ ChangesFound \/ PostProgress \/ StoreDate \/ AllStored \/ SetIdleDone
  \/ PostTotals \/ PostCompleted \/ ResetDeadline \/ ComputeWait \/ Wait

-----------------------------------------------------------------------------
(* The user interface thread.                                              *)

Free == ui = "Running" /\ tasks = <<>>

WorkerSide == <<snapshot, database, worker, issued>>

(* App::HandleMessage: UpdateTray and SalesWindow::Refresh for every       *)
(* message of the worker, and MaybeShowNotification after new totals.      *)
UpdateTray == <<"GetStatus", "SetTooltip">>

Handler(message) ==
  UpdateTray \o <<"Refresh">>
    \o IF message = "TOTALS" THEN <<"Balloon">> ELSE <<>>

HandleMessage ==
  /\ Free
  /\ queue # <<>>
  /\ tasks' = Handler(Head(queue))
  /\ queue' = Tail(queue)
  /\ heard' = TRUE
  /\ UNCHANGED <<events, clearRequested, preferences, WorkerSide, ui, st,
                 display, outcome, shown>>

Do(task) ==
  /\ tasks # <<>>
  /\ Head(tasks) = task
  /\ tasks' = Tail(tasks)
  /\ UNCHANGED <<WorkerSide, ui, preferences, queue, outcome, heard>>

GetStatus ==
  /\ Do("GetStatus")
  /\ st' = status
  /\ UNCHANGED <<events, clearRequested, display, shown>>

Tip(s, figures) ==
  CASE s = "MissingApiKey" -> [text |-> "API key required", total |-> 0]
    [] s = "Syncing" -> [text |-> "Updating", total |-> 0]
    [] s = "AuthenticationFailed" -> [text |-> "Check API key", total |-> 0]
    [] s = "Idle" -> [text |-> "Today", total |-> figures]
    [] OTHER -> [text |-> "Update failed", total |-> 0]

(* The end of UpdateTray, whose local variable goes out of scope.          *)
SetTooltip ==
  /\ Do("SetTooltip")
  /\ tooltip' = Tip(st, total)
  /\ st' = "Idle"
  /\ UNCHANGED <<events, clearRequested, visible, window, shown>>

UpdateTooltipForKeyState ==
  /\ Do("KeyTooltip")
  /\ tooltip' \in KeyTips
  /\ UNCHANGED <<events, clearRequested, st, visible, window, shown>>

(* ReloadList reads the figures and then the error line; a hidden window   *)
(* does not reload.                                                        *)
Reload == <<"ReloadList", "StatusLine">>

Refresh ==
  /\ tasks # <<>>
  /\ Head(tasks) = "Refresh"
  /\ tasks' = (IF visible THEN Reload ELSE <<>>) \o Tail(tasks)
  /\ UNCHANGED <<events, clearRequested, preferences, WorkerSide, ui, st,
                 queue, display, outcome, shown, heard>>

ReloadList ==
  /\ Do("ReloadList")
  /\ window' = [window EXCEPT !.total = total]
  /\ UNCHANGED <<events, clearRequested, st, tooltip, visible, shown>>

UpdateStatusLine ==
  /\ Do("StatusLine")
  /\ window' = [window EXCEPT !.error = lastError]
  /\ UNCHANGED <<events, clearRequested, st, tooltip, visible, shown>>

ShowWindow ==
  /\ Do("Show")
  /\ visible' = TRUE
  /\ UNCHANGED <<events, clearRequested, st, tooltip, window, shown>>

MaybeShowNotification ==
  /\ Do("Balloon")
  /\ shown' = IF note # 0 THEN shown \cup {note} ELSE shown
  /\ UNCHANGED <<events, clearRequested, st, display>>

(* RequestClearCache stores the flag and then sets the event.              *)
StoreClearFlag ==
  /\ Do("ClearFlag")
  /\ clearRequested' = TRUE
  /\ UNCHANGED <<events, st, display, shown>>

SetManualEvent ==
  /\ Do("SetManual")
  /\ manual' = TRUE
  /\ UNCHANGED <<stop, settings, clearRequested, st, display, shown>>

NotifySettingsChanged ==
  /\ Do("SetSettings")
  /\ settings' = TRUE
  /\ UNCHANGED <<stop, manual, clearRequested, st, display, shown>>

Start(newTasks) ==
  /\ Free
  /\ tasks' = newTasks
  /\ UNCHANGED <<events, clearRequested, preferences, WorkerSide, ui, st,
                 queue, shown, heard>>

ShowSales ==
  /\ "window" \in Uses
  /\ Start(Reload \o <<"Show">>)
  /\ UNCHANGED <<display, outcome>>

HideSales ==
  /\ visible
  /\ Start(<<>>)
  /\ visible' = FALSE
  /\ UNCHANGED <<tooltip, window, outcome>>

(* A period is chosen in the window's list.                                *)
SelectPeriod ==
  /\ visible
  /\ Start(Reload)
  /\ UNCHANGED <<display, outcome>>

(* From the menu or a second start, or by the button of the window, which  *)
(* reloads after the request.                                              *)
RefreshNow ==
  /\ "refresh" \in Uses
  /\ Start(<<"SetManual">>) \/ (visible /\ Start(<<"SetManual">> \o Reload))
  /\ UNCHANGED <<display, outcome>>

(* The settings dialog is modal but runs the message loop.  Keys and       *)
(* preferences are stored while it is open; the worker is told on closing. *)
OpenSettings ==
  /\ Uses \cap {"interval", "key", "clear"} # {}
  /\ ~outcome.open
  /\ Start(<<>>)
  /\ outcome' = [NoOutcome EXCEPT !.open = TRUE]
  /\ UNCHANGED display

Dialog(field) ==
  /\ Free
  /\ outcome.open
  /\ outcome' = [outcome EXCEPT ![field] = TRUE]
  /\ UNCHANGED <<events, clearRequested, WorkerSide, ui, tasks, st, queue,
                 display, shown, heard>>

SaveInterval ==
  /\ "interval" \in Uses
  /\ Dialog("prefs")
  /\ interval' = ~interval
  /\ UNCHANGED keyStored

(* OnSave stores a key, OnRemoveKey removes it.                            *)
ChangeKey ==
  /\ "key" \in Uses
  /\ Dialog("key")
  /\ keyStored' \in BOOLEAN
  /\ UNCHANGED interval

ClearCache ==
  /\ "clear" \in Uses
  /\ Dialog("clear")
  /\ UNCHANGED preferences

NotifyForKeyOnly(o) == IF o.clear THEN <<"ClearFlag", "SetManual">>
                       ELSE IF o.key THEN <<"SetSettings">> ELSE <<>>

SetEventFirst(o) == IF o.clear THEN <<"SetManual", "ClearFlag">>
                    ELSE IF o.key \/ o.prefs THEN <<"SetSettings">> ELSE <<>>

(* What OnSettings tells the worker of the dialog's outcome.               *)
Notify(o) == IF o.clear THEN <<"ClearFlag", "SetManual">>
             ELSE IF o.key \/ o.prefs THEN <<"SetSettings">> ELSE <<>>

AfterDialog(o) ==
  Notify(o) \o Reload \o IF o.key THEN <<"KeyTooltip">> ELSE UpdateTray

CloseSettings ==
  /\ outcome.open
  /\ Start(AfterDialog(outcome))
  /\ outcome' = NoOutcome
  /\ UNCHANGED display

(* Exit destroys the main window, and with it an open dialog and the       *)
(* messages that wait; Stop sets the stop event and joins the worker.      *)
Exit ==
  /\ Free
  /\ ui' = "Quitting"
  /\ queue' = <<>>
  /\ tasks' = IF outcome.open THEN AfterDialog(outcome) ELSE <<>>
  /\ outcome' = NoOutcome
  /\ UNCHANGED <<events, clearRequested, preferences, WorkerSide, st, display,
                 shown, heard>>

Stop ==
  /\ ui = "Quitting"
  /\ tasks = <<>>
  /\ ui' = "Joining"
  /\ stop' = TRUE
  /\ UNCHANGED <<manual, settings, clearRequested, preferences, WorkerSide,
                 tasks, st, queue, display, outcome, shown, heard>>

Joined ==
  /\ ui = "Joining"
  /\ wpc = "Stopped"
  /\ ui' = "Gone"
  /\ UNCHANGED <<events, clearRequested, preferences, WorkerSide, tasks, st,
                 queue, display, outcome, shown, heard>>

(* What the thread does by itself, and what the user does.                 *)
Interface ==
  \/ HandleMessage \/ GetStatus \/ SetTooltip \/ UpdateTooltipForKeyState
  \/ Refresh \/ ReloadList \/ UpdateStatusLine \/ ShowWindow
  \/ MaybeShowNotification \/ StoreClearFlag \/ SetManualEvent
  \/ NotifySettingsChanged \/ Stop \/ Joined

User ==
  \/ ShowSales \/ HideSales \/ SelectPeriod \/ RefreshNow
  \/ OpenSettings \/ SaveInterval \/ ChangeKey \/ ClearCache \/ CloseSettings
  \/ Exit

Next == Worker \/ Tick \/ Interface \/ User

Spec == Init /\ [][Next]_vars

(* Both threads run, every call of the worker returns, time passes, and    *)
(* messages that were posted are not starved by the user's input, which    *)
(* GetMessageW returns only when there are none.                           *)
FairSpec ==
  /\ Spec
  /\ WF_vars(Worker) /\ WF_vars(Tick)
  /\ WF_vars(Interface) /\ SF_vars(HandleMessage)

-----------------------------------------------------------------------------
(* Every variable keeps its type; no message is left to a destroyed window.*)
TypeOK ==
  /\ stop \in BOOLEAN /\ manual \in BOOLEAN /\ settings \in BOOLEAN
  /\ clearRequested \in BOOLEAN
  /\ interval \in BOOLEAN /\ keyStored \in BOOLEAN
  /\ status \in Statuses /\ note \in 0..MaxNotes
  /\ total \in 0..MaxTotal /\ lastError \in BOOLEAN
  /\ Len(queue) <= QueueBound
  /\ ui # "Running" => queue = <<>>
  /\ wpc \in {"Start", "Begin", "Syncing", "Open", "Clear", "Key", "Query",
              "PostProgress", "Dates", "IdleDone", "PostTotals",
              "IdleUnchanged", "PostCompleted", "RecordError", "PostFailed",
              "Deadline", "Compute", "Waiting", "Stopped"}
  /\ deadline \in {"zero", "armed", "passed"} /\ timed \in BOOLEAN
  /\ ui \in {"Running", "Quitting", "Joining", "Gone"}
  /\ st \in Statuses
  /\ visible \in BOOLEAN
  /\ window \in [total : 0..MaxTotal, error : BOOLEAN]
  /\ outcome \in [open : BOOLEAN, key : BOOLEAN, prefs : BOOLEAN,
                  clear : BOOLEAN]
  /\ issued \in 0..MaxNotes /\ shown \subseteq 1..MaxNotes
  /\ misread \in BOOLEAN

(* No message waits, no handler runs, and the worker sleeps.               *)
Quiet == Free /\ queue = <<>> /\ wpc = "Waiting"

NoRequest == Quiet /\ ~manual /\ ~settings

(* When both threads rest and no request is left, the tooltip and a        *)
(* visible sales window show the status and the figures as they are: every *)
(* change the worker makes is followed by a message that makes the         *)
(* interface read again, whatever the order of the reads, and also after   *)
(* the settings dialog wrote a tooltip of its own; and it does not say     *)
(* "Syncing" for good, on whatever way the pass was left.  Before the first*)
(* message the tooltip is the one of the start.                            *)
DisplayIsCurrent ==
  NoRequest =>
    /\ status # "Syncing"
    /\ heard => tooltip = Tip(status, total)
    /\ visible => window = [total |-> total, error |-> lastError]

(* When both threads rest, the last notification built has been shown.     *)
LastNotificationShown == Quiet /\ note # 0 => note \in shown

(* When both threads rest and no request is left, the worker's sleep is    *)
(* timed exactly if the stored interval says so, with a deadline set, and  *)
(* no key is reported missing that is stored, unless the last pass failed  *)
(* to read it: whatever the dialog changed while a pass ran has reached the*)
(* worker.                                                                 *)
WorkerFollowsSettings ==
  NoRequest /\ ~outcome.open =>
    /\ timed = interval
    /\ timed => deadline # "zero"
    /\ status = "MissingApiKey" => ~keyStored \/ misread

(* When both threads rest, a request to clear the cache has been taken by  *)
(* a pass, or the last pass could not open the database: the flag is set   *)
(* before the event, so that the pass the event starts sees it.            *)
ClearIsNotForgotten == NoRequest /\ clearRequested => status = "DatabaseError"

(* Exit ends the process: the worker never waits for the thread that waits *)
(* for it.                                                                 *)
ExitEnds == ui = "Quitting" ~> ui = "Gone"
=============================================================================
