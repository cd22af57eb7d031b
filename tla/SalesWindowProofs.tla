-------------------------- MODULE SalesWindowProofs --------------------------
(***************************************************************************)
(* Proofs about SalesWindow, for any span of days and any number of        *)
(* dialogs.                                                                *)
(***************************************************************************)
EXTENDS SalesWindow, TLAPS

(* What the combo box offers is the preference while no dialog is open; a  *)
(* window that was never created selects nothing.                          *)
OfferInv ==
  /\ window = "none" => selected = "Today"
  /\ dialogs = 0 =>
       /\ window # "none" => periods = Offered
       /\ hideLifetime => ~tip.lifetime

(* The stored period is the chosen one unless the registry refused it.     *)
StoredInv == ~refused => savedPeriod = chosen

IInv == TypeOK /\ ListIsOfPeriod /\ MenuIsOfDay /\ PeriodIsKept /\ OfferInv
        /\ StoredInv

-----------------------------------------------------------------------------
(* Two readings of one handler are a day apart at most.                    *)
LEMMA ReadingsApart ==
  ASSUME TypeOK, NEW r \in Readings, NEW i \in 1..4, NEW j \in 1..4
  PROVE  /\ r[i] \in Days /\ r[i] \in {day, day + 1}
         /\ r[i] <= r[j] + 1
BY DaysAssumption DEF TypeOK, Readings, Days

(* A range between two readings lacks no date that belongs to both days and*)
(* has none that belongs to neither, in whichever order it reads them.     *)
LEMMA RangeOfReadings ==
  ASSUME NEW period \in Periods, NEW a \in Days, NEW b \in Days,
         a <= b + 1, b <= a + 1
  PROVE  /\ Common(period, {a, b}) \subseteq DatesOf(period, a, b)
         /\ DatesOf(period, a, b) \subseteq Either(period, {a, b})
         /\ DatesOf(period, a, b) \subseteq Dates
<1> USE DaysAssumption DEF Days, Dates
<1>1. CASE period = "Today"
  BY <1>1 DEF Common, Either, PeriodOn, Length, DatesOf
<1>2. CASE period = "Yesterday"
  BY <1>2 DEF Common, Either, PeriodOn, Length, DatesOf
<1>3. CASE period = "Last7Days"
  BY <1>3 DEF Common, Either, PeriodOn, Length, DatesOf
<1>4. CASE period = "Last30Days"
  BY <1>4 DEF Common, Either, PeriodOn, Length, DatesOf
<1>5. CASE period = "Lifetime"
  BY <1>5 DEF Common, Either, PeriodOn, DatesOf
<1> QED
  BY <1>1, <1>2, <1>3, <1>4, <1>5 DEF Periods

(* The list after a reload.                                                *)
LEMMA Reloaded ==
  ASSUME selected' \in Periods, NEW a \in Days, NEW b \in Days,
         a <= b + 1, b <= a + 1, ReloadList(a, b)
  PROVE  /\ list' \subseteq Dates
         /\ loaded' \subseteq Days
         /\ cacheOpen => /\ Common(selected', loaded') \subseteq list'
                         /\ list' \subseteq Either(selected', loaded')
<1>1. /\ Common(selected', {a, b}) \subseteq DatesOf(selected', a, b)
      /\ DatesOf(selected', a, b) \subseteq Either(selected', {a, b})
      /\ DatesOf(selected', a, b) \subseteq Dates
  BY RangeOfReadings
<1>2. /\ Common(selected', {b, a}) \subseteq DatesOf(selected', b, a)
      /\ DatesOf(selected', b, a) \subseteq Either(selected', {b, a})
      /\ DatesOf(selected', b, a) \subseteq Dates
  BY RangeOfReadings
<1>3. {a, b} = {b, a}
  OBVIOUS
<1>4. loaded' = {a, b}
  BY DEF ReloadList
<1>5. CASE list' = {} /\ ~cacheOpen
  BY <1>4, <1>5
<1>6. CASE list' = DatesOf(selected', a, b)
  BY <1>1, <1>4, <1>6
<1>7. CASE list' = DatesOf(selected', b, a)
  BY <1>2, <1>3, <1>4, <1>7
<1> QED
  BY <1>5, <1>6, <1>7 DEF ReloadList

(* What is in the combo box after it was filled.                           *)
LEMMA Populated ==
  ASSUME PopulatePeriodCombo
  PROVE  /\ periods' = Offered /\ periods' \subseteq Periods
         /\ selected' = IF savedPeriod \in periods' THEN savedPeriod ELSE "Today"
         /\ selected' \in periods' /\ selected' \in Periods
         /\ hideLifetime => selected' # "Lifetime"
         /\ savedPeriod' = savedPeriod
BY DEF PopulatePeriodCombo, Offered, Periods

(* The rows of the menu.                                                   *)
LEMMA Summarized ==
  ASSUME TypeOK, NEW r \in Readings, NEW p \in DOMAIN Summary(r)
  PROVE  /\ Common(p, {r[i] : i \in 1..4}) \subseteq Summary(r)[p]
         /\ Summary(r)[p] \subseteq Either(p, {r[i] : i \in 1..4})
<1>1. /\ r[1] \in Int /\ r[2] \in Int /\ r[3] \in Int /\ r[4] \in Int
      /\ r[3] <= r[1] + 1 /\ r[1] <= r[3] /\ r[4] <= r[1] + 1 /\ r[1] <= r[4]
  BY DaysAssumption DEF TypeOK, Readings, Days
<1>2. {r[i] : i \in 1..4} = {r[1], r[2], r[3], r[4]}
  OBVIOUS
<1>3. CASE p = "Today"
  <2>1. PeriodOn(p, r[1]) = Summary(r)[p]
    BY <1>1, <1>3 DEF PeriodOn, Length, Summary
  <2> QED
    BY <1>2, <2>1 DEF Common, Either
<1>4. CASE p = "Yesterday"
  <2>1. PeriodOn(p, r[2]) = Summary(r)[p]
    BY <1>1, <1>4 DEF PeriodOn, Length, Summary
  <2> QED
    BY <1>2, <2>1 DEF Common, Either
<1>5. CASE p = "Last7Days"
  BY <1>1, <1>5 DEF Common, Either, PeriodOn, Length, Summary
<1>6. CASE p = "Last30Days"
  BY <1>1, <1>6 DEF Common, Either, PeriodOn, Length, Summary
<1> QED
  BY <1>3, <1>4, <1>5, <1>6 DEF Summary

-----------------------------------------------------------------------------
(* The invariant holds initially.                                          *)
LEMMA InvInit == Init => IInv
<1> SUFFICES ASSUME Init PROVE IInv
  OBVIOUS
<1>1. TypeOK
  <2>1. tip.today \subseteq Days /\ tip.lifetime \in BOOLEAN
    BY DEF Init, NoTip
  <2>2. day \in Days /\ dialogs \in 0..MaxDialogs
    BY DaysAssumption, DialogsAssumption DEF Init, Days
  <2> QED
    BY <2>1, <2>2 DEF Init, TypeOK
<1>2. ListIsOfPeriod /\ MenuIsOfDay /\ PeriodIsKept /\ StoredInv
  BY DEF Init, ListIsOfPeriod, MenuIsOfDay, PeriodIsKept, StoredInv
<1>3. OfferInv
  BY DEF Init, OfferInv, NoTip
<1> QED
  BY <1>1, <1>2, <1>3 DEF IInv

-----------------------------------------------------------------------------
(* A handler that fills the list leaves a list of its period.              *)
LEMMA ListReloaded ==
  ASSUME TypeOK, NEW r \in Readings, NEW i \in 1..4, NEW j \in 1..4,
         selected' \in Periods, cacheOpen' = cacheOpen, ReloadList(r[i], r[j])
  PROVE  /\ list' \subseteq Dates /\ loaded' \subseteq Days
         /\ ListIsOfPeriod'
<1>1. /\ r[i] \in Days /\ r[j] \in Days
      /\ r[i] <= r[j] + 1 /\ r[j] <= r[i] + 1
  BY ReadingsApart
<1> QED
  BY <1>1, Reloaded DEF ListIsOfPeriod

(* The tooltip after an update or a text for the key.                      *)
LEMMA TipUpdated ==
  ASSUME NEW today \in Days, NEW status \in {"Idle", "other"},
         UpdateTray(today, status) \/ tip' = NoTip
  PROVE  /\ tip'.today \subseteq Days /\ tip'.lifetime \in BOOLEAN
         /\ hideLifetime => ~tip'.lifetime
<1>1. CASE tip' = NoTip
  BY <1>1 DEF NoTip
<1>2. CASE tip' = [today |-> {today}, lifetime |-> ~hideLifetime]
  BY <1>2
<1> QED
  BY <1>1, <1>2 DEF UpdateTray

(* Every step keeps the invariant; the parts of it that a step may disturb *)
(* follow from the lemmas above.                                           *)
LEMMA InvNext == IInv /\ [Next]_vars => IInv'
<1> SUFFICES ASSUME IInv, [Next]_vars PROVE IInv'
  OBVIOUS
<1>0. /\ TypeOK /\ ListIsOfPeriod /\ MenuIsOfDay /\ PeriodIsKept
      /\ OfferInv /\ StoredInv
      /\ selected \in Periods
  BY DEF IInv, TypeOK, Periods
<1> USE DEF preferences, windowVars, menuVars
<1>1. CASE UNCHANGED vars
  BY <1>0, <1>1 DEF vars, IInv, TypeOK, ListIsOfPeriod, MenuIsOfDay,
                    PeriodIsKept, OfferInv, StoredInv, Offered
<1>2. CASE Message
  <2>1. PICK r \in Readings, status \in {"Idle", "other"} :
          /\ UpdateTray(r[1], status)
          /\ Refresh(r[2], r[3])
          /\ day' = r[4]
          /\ UNCHANGED <<cacheOpen, preferences, dialogs, menuVars, chosen,
                         refused>>
    BY <1>2 DEF Message
  <2>2. UNCHANGED <<window, periods, selected>>
    BY <2>1 DEF Refresh
  <2>3. /\ list' \subseteq Dates /\ loaded' \subseteq Days
        /\ ListIsOfPeriod'
    <3>1. CASE window = "shown"
      BY <1>0, <2>1, <2>2, <3>1, ListReloaded DEF Refresh
    <3>2. CASE window # "shown"
      BY <1>0, <2>1, <3>2 DEF Refresh, ListIsOfPeriod, TypeOK
    <3> QED
      BY <3>1, <3>2
  <2>4. /\ tip'.today \subseteq Days /\ tip'.lifetime \in BOOLEAN
        /\ hideLifetime => ~tip'.lifetime
    <3>1. r[1] \in Days /\ r[3] \in Days
      BY <1>0, ReadingsApart
    <3> QED
      BY <2>1, <3>1, TipUpdated
  <2>5. TypeOK'
    BY <1>0, <2>1, <2>2, <2>3, <2>4, ReadingsApart DEF TypeOK
  <2>6. MenuIsOfDay' /\ PeriodIsKept' /\ StoredInv'
    BY <1>0, <2>1, <2>2 DEF MenuIsOfDay, PeriodIsKept, StoredInv
  <2>7. OfferInv'
    BY <1>0, <2>1, <2>2, <2>4 DEF OfferInv, Offered
  <2> QED
    BY <2>3, <2>5, <2>6, <2>7 DEF IInv
<1>3. CASE Midnight
  <2>1. day' \in Days
    BY <1>0, <1>3, DaysAssumption DEF Midnight, TypeOK, Days
  <2> QED
    BY <1>0, <1>3, <2>1
       DEF Midnight, IInv, TypeOK, ListIsOfPeriod, MenuIsOfDay, PeriodIsKept,
           OfferInv, StoredInv, Offered
<1>4. CASE ShowAndFocus
  <2>1. PICK r \in Readings :
          /\ window' = "shown"
          /\ IF window = "none" THEN PopulatePeriodCombo
             ELSE UNCHANGED <<periods, selected, savedPeriod>>
          /\ ReloadList(r[1], r[2])
          /\ day' = r[4]
          /\ UNCHANGED <<cacheOpen, hideLifetime, interval, dialogs, tip,
                         menuVars, chosen, refused>>
    BY <1>4 DEF ShowAndFocus
  <2>2. /\ periods' \subseteq Periods /\ selected' \in periods' \cup {"Today"}
        /\ selected' \in Periods /\ savedPeriod' = savedPeriod
        /\ dialogs = 0 => periods' = Offered
    BY <1>0, <2>1, Populated DEF TypeOK, OfferInv
  <2>3. /\ list' \subseteq Dates /\ loaded' \subseteq Days
        /\ ListIsOfPeriod'
    BY <1>0, <2>1, <2>2, ListReloaded
  <2>4. TypeOK'
    BY <1>0, <2>1, <2>2, <2>3, ReadingsApart DEF TypeOK
  <2>5. MenuIsOfDay' /\ StoredInv' /\ OfferInv'
    BY <1>0, <2>1, <2>2 DEF MenuIsOfDay, StoredInv, OfferInv, Offered
  <2>6. PeriodIsKept'
    BY <1>0, <2>1, <2>2, Populated DEF PeriodIsKept, StoredInv
  <2> QED
    BY <2>3, <2>4, <2>5, <2>6 DEF IInv
<1>5. CASE Close \/ OpenSettings \/ SavePreferences \/ CloseMenu
  <2>1. TypeOK'
    BY <1>0, <1>5, DialogsAssumption
       DEF Close, OpenSettings, SavePreferences, CloseMenu, TypeOK, NoMenu
  <2>2. ListIsOfPeriod' /\ PeriodIsKept' /\ StoredInv'
    BY <1>0, <1>5
       DEF Close, OpenSettings, SavePreferences, CloseMenu, ListIsOfPeriod,
           PeriodIsKept, StoredInv
  <2>3. MenuIsOfDay'
    BY <1>0, <1>5
       DEF Close, OpenSettings, SavePreferences, CloseMenu, MenuIsOfDay
  <2>4. OfferInv'
    BY <1>0, <1>5
       DEF Close, OpenSettings, SavePreferences, CloseMenu, OfferInv, Offered,
           TypeOK
  <2> QED
    BY <2>1, <2>2, <2>3, <2>4 DEF IInv
<1>6. CASE RefreshNow
  <2>1. PICK r \in Readings :
          /\ window = "shown"
          /\ UNCHANGED <<window, periods, selected>>
          /\ ReloadList(r[1], r[2])
          /\ day' = r[4]
          /\ UNCHANGED <<cacheOpen, preferences, dialogs, tip, menuVars,
                         chosen, refused>>
    BY <1>6 DEF RefreshNow
  <2>2. /\ list' \subseteq Dates /\ loaded' \subseteq Days
        /\ ListIsOfPeriod'
    BY <1>0, <2>1, ListReloaded
  <2>3. TypeOK'
    BY <1>0, <2>1, <2>2, ReadingsApart DEF TypeOK
  <2> QED
    BY <1>0, <2>1, <2>2, <2>3
       DEF IInv, MenuIsOfDay, PeriodIsKept, OfferInv, StoredInv, Offered
<1>7. ASSUME NEW period \in Periods, SelectPeriod(period)
      PROVE  IInv'
  <2>1. PICK r \in Readings, stored \in BOOLEAN :
          /\ window = "shown"
          /\ period \in periods
          /\ selected' = period
          /\ savedPeriod' = IF stored THEN period ELSE savedPeriod
          /\ chosen' = period
          /\ refused' = ~stored
          /\ ReloadList(r[1], r[2])
          /\ day' = r[4]
          /\ UNCHANGED <<cacheOpen, hideLifetime, interval, dialogs, window,
                         periods, tip, menuVars>>
    BY <1>7 DEF SelectPeriod
  <2>2. /\ list' \subseteq Dates /\ loaded' \subseteq Days
        /\ ListIsOfPeriod'
    BY <1>0, <2>1, ListReloaded
  <2>3. savedPeriod' \in StoredPeriods /\ chosen' \in StoredPeriods
    BY <1>0, <2>1 DEF StoredPeriods, TypeOK
  <2>4. TypeOK'
    BY <1>0, <2>1, <2>2, <2>3, ReadingsApart DEF TypeOK
  <2>5. MenuIsOfDay' /\ PeriodIsKept' /\ StoredInv'
    BY <1>0, <2>1 DEF MenuIsOfDay, PeriodIsKept, StoredInv
  <2>6. OfferInv'
    BY <1>0, <2>1 DEF OfferInv, Offered
  <2> QED
    BY <2>2, <2>4, <2>5, <2>6 DEF IInv
<1>8. CASE SettingsReturn
  <2>1. PICK r \in Readings, status \in {"Idle", "other"} :
          /\ dialogs > 0
          /\ dialogs' = dialogs - 1
          /\ OnSettingsChanged(r[1], r[2])
          /\ UpdateTray(r[3], status) \/ tip' = NoTip
          /\ day' = r[4]
          /\ UNCHANGED <<cacheOpen, hideLifetime, interval, menuVars, chosen,
                         refused>>
    BY <1>8 DEF SettingsReturn
  <2>2. /\ tip'.today \subseteq Days /\ tip'.lifetime \in BOOLEAN
        /\ hideLifetime => ~tip'.lifetime
    <3>1. r[1] \in Days /\ r[3] \in Days
      BY <1>0, ReadingsApart
    <3> QED
      BY <2>1, <3>1, TipUpdated
  <2>3. /\ window' = window /\ savedPeriod' = savedPeriod
        /\ window # "none" => PopulatePeriodCombo /\ ReloadList(r[1], r[2])
        /\ window = "none" =>
             UNCHANGED <<window, periods, selected, list, loaded>>
    BY <2>1 DEF OnSettingsChanged, PopulatePeriodCombo
  <2>4. /\ periods' \subseteq Periods /\ selected' \in periods' \cup {"Today"}
        /\ selected' \in Periods
        /\ window # "none" => periods' = Offered
    BY <1>0, <2>3, Populated DEF TypeOK
  <2>5. /\ list' \subseteq Dates /\ loaded' \subseteq Days
        /\ ListIsOfPeriod'
    <3>1. CASE window # "none"
      BY <1>0, <2>1, <2>3, <2>4, <3>1, ListReloaded
    <3>2. CASE window = "none"
      BY <1>0, <2>3, <3>2 DEF ListIsOfPeriod, TypeOK
    <3> QED
      BY <3>1, <3>2
  <2>6. dialogs' \in 0..MaxDialogs
    BY <1>0, <2>1, DialogsAssumption DEF TypeOK
  <2>7. TypeOK'
    BY <1>0, <2>1, <2>2, <2>3, <2>4, <2>5, <2>6, ReadingsApart DEF TypeOK
  <2>8. MenuIsOfDay' /\ StoredInv'
    BY <1>0, <2>1, <2>3 DEF MenuIsOfDay, StoredInv
  <2>9. OfferInv'
    BY <1>0, <2>1, <2>2, <2>3, <2>4 DEF OfferInv, Offered
  <2>10. PeriodIsKept'
    BY <1>0, <2>1, <2>3, Populated DEF PeriodIsKept, StoredInv
  <2> QED
    BY <2>5, <2>7, <2>8, <2>9, <2>10 DEF IInv
<1>9. CASE ShowContextMenu
  <2>1. PICK r \in Readings :
          /\ menu' = IF cacheOpen THEN Summary(r) ELSE NoMenu
          /\ opened' = IF cacheOpen THEN {r[i] : i \in 1..4} ELSE {}
          /\ day' = r[4]
          /\ UNCHANGED <<cacheOpen, preferences, dialogs, windowVars, tip,
                         chosen, refused>>
    BY <1>9 DEF ShowContextMenu
  <2>2. MenuIsOfDay'
    BY <1>0, <2>1, Summarized DEF MenuIsOfDay
  <2>3. DOMAIN menu' = DOMAIN NoMenu /\ opened' \subseteq Days
    BY <1>0, <2>1, ReadingsApart DEF Summary, NoMenu
  <2>4. TypeOK'
    BY <1>0, <2>1, <2>3, ReadingsApart DEF TypeOK
  <2> QED
    BY <1>0, <2>1, <2>2, <2>4
       DEF IInv, ListIsOfPeriod, PeriodIsKept, OfferInv, StoredInv, Offered
<1>10. CASE Restart
  <2>1. tip'.today \subseteq Days /\ tip'.lifetime \in BOOLEAN
        /\ ~tip'.lifetime
    BY <1>10 DEF Restart, NoTip
  <2>2. TypeOK'
    BY <1>0, <1>10, <2>1, DialogsAssumption DEF Restart, TypeOK
  <2>3. ListIsOfPeriod' /\ MenuIsOfDay' /\ PeriodIsKept' /\ StoredInv'
    BY <1>0, <1>10
       DEF Restart, ListIsOfPeriod, MenuIsOfDay, PeriodIsKept, StoredInv
  <2>4. OfferInv'
    BY <1>10, <2>1 DEF Restart, OfferInv
  <2> QED
    BY <2>2, <2>3, <2>4 DEF IInv
<1> QED
  BY <1>1, <1>2, <1>3, <1>4, <1>5, <1>6, <1>7, <1>8, <1>9, <1>10
     DEF Next, User

(* The invariant holds always.                                             *)
LEMMA Invariant == FairSpec => []IInv
BY InvInit, InvNext, PTL DEF FairSpec, Spec

-----------------------------------------------------------------------------
(* Every variable keeps its type.                                          *)
THEOREM WindowTypeCorrect == FairSpec => []TypeOK
<1>1. IInv => TypeOK
  BY DEF IInv
<1> QED
  BY Invariant, <1>1, PTL

(* The list holds the period that its combo box shows, also when midnight  *)
(* passes while it is read (SalesWindow::ReloadList).                      *)
THEOREM ListFollowsPeriod == FairSpec => []ListIsOfPeriod
<1>1. IInv => ListIsOfPeriod
  BY DEF IInv
<1> QED
  BY Invariant, <1>1, PTL

(* So do the rows of the menu (App::ComputeSummary).                       *)
THEOREM MenuFollowsDay == FairSpec => []MenuIsOfDay
<1>1. IInv => MenuIsOfDay
  BY DEF IInv
<1> QED
  BY Invariant, <1>1, PTL

(* The user's period comes back (SalesWindow::PopulatePeriodCombo).        *)
THEOREM PeriodComesBack == FairSpec => []PeriodIsKept
<1>1. IInv => PeriodIsKept
  BY DEF IInv
<1> QED
  BY Invariant, <1>1, PTL

(* Nothing shows a hidden Lifetime once the dialogs are closed             *)
(* (SalesWindow::OnSettingsChanged).                                       *)
THEOREM LifetimeStaysHidden == FairSpec => []HiddenLifetimeIsNowhere
<1>1. IInv => HiddenLifetimeIsNowhere
  <2> SUFFICES ASSUME IInv, dialogs = 0
               PROVE  /\ window # "none" =>
                           ("Lifetime" \in periods <=> ~hideLifetime)
                      /\ hideLifetime => selected # "Lifetime" /\ ~tip.lifetime
    BY DEF HiddenLifetimeIsNowhere
  <2>1. TypeOK /\ OfferInv
    BY DEF IInv
  <2> QED
    BY <2>1 DEF TypeOK, OfferInv, Offered, Periods
<1> QED
  BY Invariant, <1>1, PTL
=============================================================================
