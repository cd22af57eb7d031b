----------------------------- MODULE SalesWindow -----------------------------
(***************************************************************************)
(* What the interface thread shows of which days: the sales window with its*)
(* list of periods (ui/SalesWindow.cpp), the figures of the tooltip and of *)
(* the menu (App::UpdateTray, App::ComputeSummary), against the clock of   *)
(* the financial day (platform/TimeUtil.cpp) and the settings dialog.      *)
(*                                                                         *)
(* A figure is the set of dates that its query asks for; what the queries  *)
(* return is in CacheDatabase, and when the worker sends its messages is in*)
(* TrayApp.  A handler runs to its end, but the clock goes on while it     *)
(* runs: each handler takes four readings of the clock, of which midnight  *)
(* may come before any, and uses as many as the code makes.                *)
(*                                                                         *)
(* EightDays, EndYesterday, SaveFallback, RebuildShown and KeepFigures are *)
(* faulty variants of the definition that follows them.                    *)
(***************************************************************************)
EXTENDS Integers

CONSTANTS FirstDay, LastDay,   \* the days that pass
          MaxDialogs           \* bound on settings dialogs open at once

ASSUME DaysAssumption == FirstDay \in Int /\ LastDay \in Int
                         /\ FirstDay <= LastDay
ASSUME DialogsAssumption == MaxDialogs \in Nat

VARIABLES
  day,           \* the financial day
  cacheOpen,     \* dbOpen_: this thread's connection
  hideLifetime, savedPeriod, interval,   \* the stored preferences
  dialogs,       \* calls of OnSettings that have not returned
  window,        \* the sales window: "none", "hidden" or "shown"
  periods,       \* what its combo box offers
  selected,      \* the period that is selected there
  list,          \* the dates whose rows it lists
  loaded,        \* history: the readings of the clock for the list
  tip, menu,     \* the figures of the tooltip and of the open menu
  opened,        \* history: the readings of the clock for the menu
  chosen,        \* history: the period the user selected last
  refused        \* history: that choice could not be stored

preferences == <<hideLifetime, savedPeriod, interval>>
windowVars == <<window, periods, selected, list, loaded>>
menuVars == <<menu, opened>>
vars == <<day, cacheOpen, preferences, dialogs, windowVars, tip, menuVars,
          chosen, refused>>

Days == FirstDay..LastDay
Dates == (FirstDay - 29)..LastDay
Periods == {"Today", "Yesterday", "Last7Days", "Last30Days", "Lifetime"}
StoredPeriods == Periods \cup {"invalid"}

NoTip == [today |-> {}, lifetime |-> FALSE]
NoMenu == [p \in {"Today", "Yesterday", "Last7Days", "Last30Days"} |-> {}]

(* Four readings of the clock during one handler.                          *)
Readings ==
  {r \in [1..4 -> {day, day + 1} \cap Days] :
     \A i \in 1..3 : r[i] <= r[i + 1]}

EightDays(period, from, to) ==
  CASE period = "Today"      -> {to}
    [] period = "Yesterday"  -> {to - 1}
    [] period = "Last7Days"  -> (from - 7)..to
    [] period = "Last30Days" -> (from - 29)..to
    [] period = "Lifetime"   -> Dates

(* The dates of a period, of two readings that a range takes.              *)
DatesOf(period, from, to) ==
  CASE period = "Today"      -> {to}
    [] period = "Yesterday"  -> {to - 1}
    [] period = "Last7Days"  -> (from - 6)..to
    [] period = "Last30Days" -> (from - 29)..to
    [] period = "Lifetime"   -> Dates

Init ==
  /\ day = FirstDay
  /\ cacheOpen \in BOOLEAN
  /\ hideLifetime \in BOOLEAN
  /\ savedPeriod \in StoredPeriods
  /\ interval \in {"timed", "manual"}
  /\ dialogs = 0
  /\ window = "none" /\ periods = {} /\ selected = "Today"
  /\ list = {} /\ loaded = {}
  /\ tip = NoTip
  /\ menu = NoMenu /\ opened = {}
  /\ chosen = savedPeriod /\ refused = FALSE

(* The arguments of a range are evaluated in an order that the compiler    *)
(* chooses.  Without a connection every query returns no row.              *)
ReloadList(a, b) ==
  /\ list' \in IF cacheOpen
               THEN {DatesOf(selected', a, b), DatesOf(selected', b, a)}
               ELSE {{}}
  /\ loaded' = {a, b}

Offered == IF hideLifetime THEN Periods \ {"Lifetime"} ELSE Periods

SaveFallback ==
  /\ periods' = Offered
  /\ selected' = IF savedPeriod \in Offered THEN savedPeriod ELSE "Today"
  /\ savedPeriod' = selected'

PopulatePeriodCombo ==
  /\ periods' = Offered
  /\ selected' = IF savedPeriod \in Offered THEN savedPeriod ELSE "Today"
  /\ UNCHANGED savedPeriod

KeepFigures(today, status) ==
  tip' = IF status # "Idle" \/ ~cacheOpen THEN NoTip
         ELSE IF tip.today # {} THEN [tip EXCEPT !.lifetime = ~hideLifetime]
         ELSE [today |-> {today}, lifetime |-> ~hideLifetime]

(* Only a worker at rest has its figures shown.                            *)
UpdateTray(today, status) ==
  tip' = IF status = "Idle" /\ cacheOpen
         THEN [today |-> {today}, lifetime |-> ~hideLifetime]
         ELSE NoTip

Refresh(a, b) ==
  IF window = "shown"
  THEN UNCHANGED <<window, periods, selected>> /\ ReloadList(a, b)
  ELSE UNCHANGED windowVars

(* A message of the worker.                                                *)
Message ==
  \E r \in Readings, status \in {"Idle", "other"} :
    /\ UpdateTray(r[1], status)
    /\ Refresh(r[2], r[3])
    /\ day' = r[4]
    /\ UNCHANGED <<cacheOpen, preferences, dialogs, menuVars, chosen, refused>>

Midnight ==
  /\ day < LastDay
  /\ day' = day + 1
  /\ UNCHANGED <<cacheOpen, preferences, dialogs, windowVars, tip, menuVars,
                 chosen, refused>>

(* The window is created when it is first shown, with the stored period.   *)
ShowAndFocus ==
  \E r \in Readings :
    /\ window' = "shown"
    /\ IF window = "none" THEN PopulatePeriodCombo
       ELSE UNCHANGED <<periods, selected, savedPeriod>>
    /\ ReloadList(r[1], r[2])
    /\ day' = r[4]
    /\ UNCHANGED <<cacheOpen, hideLifetime, interval, dialogs, tip, menuVars,
                   chosen, refused>>

(* Closing hides.                                                          *)
Close ==
  /\ window = "shown"
  /\ window' = "hidden"
  /\ UNCHANGED <<day, cacheOpen, preferences, dialogs, periods, selected,
                 list, loaded, tip, menuVars, chosen, refused>>

(* CBN_SELCHANGE; nobody looks whether the registry takes the value.       *)
SelectPeriod(period) ==
  \E r \in Readings, stored \in BOOLEAN :
    /\ window = "shown"
    /\ period \in periods
    /\ selected' = period
    /\ savedPeriod' = IF stored THEN period ELSE savedPeriod
    /\ chosen' = period
    /\ refused' = ~stored
    /\ ReloadList(r[1], r[2])
    /\ day' = r[4]
    /\ UNCHANGED <<cacheOpen, hideLifetime, interval, dialogs, window,
                   periods, tip, menuVars>>

(* The button, which reloads without waiting for the worker.               *)
RefreshNow ==
  \E r \in Readings :
    /\ window = "shown"
    /\ UNCHANGED <<window, periods, selected>>
    /\ ReloadList(r[1], r[2])
    /\ day' = r[4]
    /\ UNCHANGED <<cacheOpen, preferences, dialogs, tip, menuVars, chosen,
                   refused>>

OpenSettings ==
  /\ dialogs < MaxDialogs
  /\ dialogs' = dialogs + 1
  /\ UNCHANGED <<day, cacheOpen, preferences, windowVars, tip, menuVars,
                 chosen, refused>>

(* A save stores at once, and its dialog may stay open.                    *)
SavePreferences ==
  /\ dialogs > 0
  /\ hideLifetime' \in BOOLEAN
  /\ interval' \in {"timed", "manual"}
  /\ UNCHANGED <<day, cacheOpen, savedPeriod, dialogs, windowVars, tip,
                 menuVars, chosen, refused>>

RebuildShown(a, b) ==
  IF window # "shown" THEN UNCHANGED <<windowVars, savedPeriod>>
  ELSE PopulatePeriodCombo /\ ReloadList(a, b) /\ UNCHANGED window

OnSettingsChanged(a, b) ==
  IF window = "none" THEN UNCHANGED <<windowVars, savedPeriod>>
  ELSE PopulatePeriodCombo /\ ReloadList(a, b) /\ UNCHANGED window

(* OnSettings after its dialog; a changed key has a text of its own.       *)
SettingsReturn ==
  \E r \in Readings, status \in {"Idle", "other"} :
    /\ dialogs > 0
    /\ dialogs' = dialogs - 1
    /\ OnSettingsChanged(r[1], r[2])
    /\ UpdateTray(r[3], status) \/ tip' = NoTip
    /\ day' = r[4]
    /\ UNCHANGED <<cacheOpen, hideLifetime, interval, menuVars, chosen,
                   refused>>

EndYesterday(r) ==
  [Today      |-> {r[1]},
   Yesterday  |-> {r[2] - 1},
   Last7Days  |-> (r[3] - 6)..(r[1] - 1),
   Last30Days |-> (r[4] - 29)..r[1]]

(* The ranges end at the first reading and begin at readings of their own. *)
Summary(r) ==
  [Today      |-> {r[1]},
   Yesterday  |-> {r[2] - 1},
   Last7Days  |-> (r[3] - 6)..r[1],
   Last30Days |-> (r[4] - 29)..r[1]]

(* The figures stand in the menu until it is left.                         *)
ShowContextMenu ==
  \E r \in Readings :
    /\ menu' = IF cacheOpen THEN Summary(r) ELSE NoMenu
    /\ opened' = IF cacheOpen THEN {r[i] : i \in 1..4} ELSE {}
    /\ day' = r[4]
    /\ UNCHANGED <<cacheOpen, preferences, dialogs, windowVars, tip, chosen,
                   refused>>

CloseMenu ==
  /\ menu # NoMenu
  /\ menu' = NoMenu /\ opened' = {}
  /\ UNCHANGED <<day, cacheOpen, preferences, dialogs, windowVars, tip, chosen,
                 refused>>

(* The process ends, and the program is started again.                     *)
Restart ==
  /\ cacheOpen' \in BOOLEAN
  /\ dialogs' = 0
  /\ window' = "none" /\ periods' = {} /\ selected' = "Today"
  /\ list' = {} /\ loaded' = {}
  /\ tip' = NoTip
  /\ menu' = NoMenu /\ opened' = {}
  /\ UNCHANGED <<day, preferences, chosen, refused>>

(* An open menu takes the user's input; another start of the program can   *)
(* have the window shown or a dialog opened in spite of it.                *)
User ==
  \/ ShowAndFocus \/ OpenSettings \/ CloseMenu
  \/ /\ menu = NoMenu
     /\ \/ Close \/ RefreshNow \/ ShowContextMenu
        \/ \E period \in Periods : SelectPeriod(period)
        \/ SavePreferences \/ SettingsReturn

Next == Message \/ Midnight \/ User \/ Restart

Spec == Init /\ [][Next]_vars

(* With an interval the worker runs a pass again and again, and each ends  *)
(* with a message.                                                         *)
FairSpec == Spec /\ WF_vars(interval = "timed" /\ Message)

-----------------------------------------------------------------------------
(* Every variable keeps its type; the selection is one of those offered.   *)
TypeOK ==
  /\ day \in Days /\ dialogs \in 0..MaxDialogs
  /\ cacheOpen \in BOOLEAN /\ hideLifetime \in BOOLEAN
  /\ savedPeriod \in StoredPeriods /\ chosen \in StoredPeriods
  /\ interval \in {"timed", "manual"} /\ refused \in BOOLEAN
  /\ window \in {"none", "hidden", "shown"}
  /\ periods \subseteq Periods /\ selected \in periods \cup {"Today"}
  /\ list \subseteq Dates
  /\ loaded \subseteq Days /\ opened \subseteq Days
  /\ tip.today \subseteq Days /\ tip.lifetime \in BOOLEAN
  /\ DOMAIN menu = DOMAIN NoMenu

Length == [Today |-> 1, Yesterday |-> 1, Last7Days |-> 7, Last30Days |-> 30]

(* The dates of a period on a day: so many, up to the day or the day before*)
PeriodOn(period, d) ==
  IF period = "Lifetime" THEN Dates
  ELSE LET last == IF period = "Yesterday" THEN d - 1 ELSE d
       IN  (last - Length[period] + 1)..last

(* Dates that belong to a period on each of some days, and on any of them. *)
Either(period, days) == UNION {PeriodOn(period, d) : d \in days}
Common(period, days) ==
  {x \in Either(period, days) : \A d \in days : x \in PeriodOn(period, d)}

(* Whatever midnight, the settings and the user do, the list holds the     *)
(* period that its combo box shows: a day or a week is exact, and one that *)
(* was read across midnight lacks no date that belongs to both days and    *)
(* has none that belongs to neither (SalesWindow::ReloadList).             *)
ListIsOfPeriod ==
  window # "none" /\ cacheOpen =>
    /\ Common(selected, loaded) \subseteq list
    /\ list \subseteq Either(selected, loaded)

(* The same of the four rows of the menu, which are read one after the     *)
(* other (App::ComputeSummary).                                            *)
MenuIsOfDay ==
  menu # NoMenu =>
    \A p \in DOMAIN menu :
      /\ Common(p, opened) \subseteq menu[p]
      /\ menu[p] \subseteq Either(p, opened)

(* The period that the user selected comes back after a restart, and after *)
(* Lifetime was hidden and shown again: "Restore the saved period by its   *)
(* enum value; fall back to the first entry if it is no longer present"    *)
(* (SalesWindow.cpp:204).                                                  *)
PeriodIsKept ==
  window # "none" /\ ~refused =>
    selected = IF chosen \in periods THEN chosen ELSE "Today"

(* When no dialog is open the stored preference is what is on the screen,  *)
(* also of a window that was hidden when it changed.                       *)
HiddenLifetimeIsNowhere ==
  dialogs = 0 =>
    /\ window # "none" => ("Lifetime" \in periods <=> ~hideLifetime)
    /\ hideLifetime => selected # "Lifetime" /\ ~tip.lifetime

(* With an interval the figures of a day that is over leave the tooltip and*)
(* the window that is shown.                                               *)
MidnightIsNoticed ==
  \A d \in Days :
    day = d ~>
      \/ interval = "manual"
      \/ /\ tip.today \subseteq d..LastDay
         /\ window = "shown" => loaded \subseteq d..LastDay
=============================================================================
