---------------------------- MODULE TrayAppProofs ----------------------------
(***************************************************************************)
(* Proofs about TrayApp, for any number of messages, notifications and     *)
(* versions of the figures, and whatever the user does.                    *)
(*                                                                         *)
(* The properties speak of the moments when both threads rest.  The        *)
(* inductive invariant says what is still to come at all other moments:    *)
(* either the display is right, or a task that reads again waits, or the   *)
(* worker is on its way to a message (Coming).                             *)
(***************************************************************************)
EXTENDS TrayApp, SequenceTheorems, TLAPS

Messages == {"SYNC", "TOTALS"}

TaskNames == {"GetStatus", "SetTooltip", "KeyTooltip", "Refresh", "ReloadList",
              "StatusLine", "Show", "Balloon", "ClearFlag", "SetManual",
              "SetSettings"}

In(x, s) == \E i \in 1..Len(s) : s[i] = x

(* Which task follows which one: a handler is never half done.             *)
Ordered(s) ==
  \A i \in 1..Len(s) :
    /\ s[i] = "ClearFlag" => i < Len(s) /\ s[i + 1] = "SetManual"
    /\ s[i] = "GetStatus" => i < Len(s) /\ s[i + 1] = "SetTooltip"
    /\ s[i] = "SetTooltip" => i = 1 \/ s[i - 1] = "GetStatus"
    /\ s[i] = "ReloadList" => i < Len(s) /\ s[i + 1] = "StatusLine"
    /\ s[i] \in {"KeyTooltip", "Show"} => i = Len(s)
    /\ s[i] = "Refresh" => \A j \in (i + 1)..Len(s) : s[j] = "Balloon"

(* The stations of the worker from which a message follows.                *)
Passing == {"Begin", "Syncing", "Open", "Clear", "Key", "Query",
            "PostProgress", "Dates", "IdleDone", "PostTotals",
            "IdleUnchanged", "PostCompleted", "RecordError", "PostFailed"}

(* The type invariant, in three parts.                                     *)
SharedTypes ==
  /\ stop \in BOOLEAN /\ manual \in BOOLEAN /\ settings \in BOOLEAN
  /\ clearRequested \in BOOLEAN
  /\ interval \in BOOLEAN /\ keyStored \in BOOLEAN
  /\ total \in 0..MaxTotal /\ lastError \in BOOLEAN
  /\ Len(queue) <= QueueBound
  /\ ui # "Running" => queue = <<>>

WorkerTypes ==
  /\ status \in Statuses /\ note \in 0..MaxNotes /\ issued \in 0..MaxNotes
  /\ misread \in BOOLEAN
  /\ wpc \in Passing \cup {"Start", "Deadline", "Compute", "Waiting", "Stopped"}
  /\ deadline \in {"zero", "armed", "passed"} /\ timed \in BOOLEAN

DisplayTypes ==
  /\ ui \in {"Running", "Quitting", "Joining", "Gone"}
  /\ st \in Statuses
  /\ visible \in BOOLEAN
  /\ window \in [total : 0..MaxTotal, error : BOOLEAN]
  /\ outcome \in [open : BOOLEAN, key : BOOLEAN, prefs : BOOLEAN,
                  clear : BOOLEAN]
  /\ shown \subseteq 1..MaxNotes

TypeInv == SharedTypes /\ WorkerTypes /\ DisplayTypes

ListInv ==
  /\ queue \in Seq(Messages)
  /\ tasks \in Seq(TaskNames)
  /\ Ordered(tasks)

SyncingAt == {"Open", "Clear", "Key", "Query", "PostProgress", "Dates",
              "IdleDone", "IdleUnchanged"}

ThreadInv ==
  /\ stop \/ wpc = "Stopped" => ui # "Running"
  /\ wpc = "Start" => status = "Idle"
  /\ status = "Syncing" => wpc \in SyncingAt
  /\ ~outcome.open => outcome = NoOutcome

(* The interface will be woken once more, or it is about to end.           *)
Coming == ui # "Running" \/ manual \/ settings \/ wpc \in Passing
          \/ queue # <<>>

TooltipInv ==
  /\ heard /\ ~Coming =>
       \/ In("GetStatus", tasks)
       \/ In("SetTooltip", tasks) /\ st = status
       \/ ~In("SetTooltip", tasks) /\ tooltip = Tip(status, total)
  /\ In("KeyTooltip", tasks) =>
       Coming \/ In("SetManual", tasks) \/ In("SetSettings", tasks)

WindowInv ==
  (visible \/ In("Show", tasks)) /\ ~Coming =>
    \/ In("Refresh", tasks)
    \/ In("ReloadList", tasks)
    \/ /\ window.total = total
       /\ In("StatusLine", tasks) \/ window.error = lastError

NoteInv ==
  note # 0 => \/ note \in shown \/ ui # "Running" \/ wpc = "PostTotals"
              \/ In("TOTALS", queue) \/ In("Balloon", tasks)

(* The worker has been told of a change, or is going to be.                *)
Told(changed) == changed \/ manual \/ settings \/ In("SetManual", tasks)
                 \/ In("SetSettings", tasks)

SettingsInv ==
  /\ wpc = "Compute" /\ deadline = "zero" => ~interval \/ Told(outcome.prefs)
  /\ wpc = "Waiting" =>
       \/ timed = interval /\ (timed => deadline # "zero")
       \/ Told(outcome.prefs)
  /\ status = "MissingApiKey" =>
       ~keyStored \/ misread \/ wpc \in {"Begin", "Syncing"}
         \/ Told(outcome.key)

ClearInv ==
  clearRequested =>
    \/ manual \/ In("SetManual", tasks)
    \/ wpc \in {"Begin", "Syncing", "Open", "Clear"}
    \/ /\ status = "DatabaseError"
       /\ wpc \in {"PostFailed", "Deadline", "Compute", "Waiting", "Stopped"}

IInv ==
  /\ TypeInv /\ ListInv /\ ThreadInv
  /\ TooltipInv /\ WindowInv /\ NoteInv /\ SettingsInv /\ ClearInv

-----------------------------------------------------------------------------
(* Lists of tasks and messages.                                            *)

(* The rest of a list keeps its order.                                     *)
LEMMA TailElements ==
  ASSUME NEW S, NEW s \in Seq(S), s # <<>>
  PROVE  /\ Len(s) \in Nat \ {0} /\ Head(s) = s[1]
         /\ Tail(s) \in Seq(S) /\ Len(Tail(s)) = Len(s) - 1
         /\ \A i \in 1..Len(Tail(s)) : Tail(s)[i] = s[i + 1]
  OBVIOUS

(* What is in a list is its head or in the rest.                           *)
LEMMA InTail ==
  ASSUME NEW S, NEW s \in Seq(S), s # <<>>, NEW x
  PROVE  In(x, s) <=> x = Head(s) \/ In(x, Tail(s))
  <1>1. ASSUME In(x, s), x # Head(s)
        PROVE  In(x, Tail(s))
    <2>1. PICK i \in 1..Len(s) : s[i] = x
      BY <1>1 DEF In
    <2>2. i # 1
      BY <1>1, <2>1, TailElements
    <2>3. i - 1 \in 1..Len(Tail(s)) /\ Tail(s)[i - 1] = s[(i - 1) + 1]
      BY <2>2, TailElements
    <2>4. (i - 1) + 1 = i
      OBVIOUS
    <2> QED
      BY <2>1, <2>3, <2>4 DEF In
  <1>2. ASSUME In(x, Tail(s))
        PROVE  In(x, s)
    <2>1. PICK i \in 1..Len(Tail(s)) : Tail(s)[i] = x
      BY <1>2 DEF In
    <2>2. i + 1 \in 1..Len(s) /\ s[i + 1] = x
      BY <2>1, TailElements
    <2> QED
      BY <2>2 DEF In
  <1>3. ASSUME x = Head(s)
        PROVE  In(x, s)
    BY <1>3, TailElements DEF In
  <1> QED
    BY <1>1, <1>2, <1>3

(* Nothing is in the empty list.                                           *)
LEMMA NothingIn ==
  ASSUME NEW x
  PROVE  ~In(x, <<>>)
  BY DEF In

(* A message that is posted is there, and those before it stay.            *)
LEMMA InAppend ==
  ASSUME NEW S, NEW s \in Seq(S), NEW m \in S, NEW x
  PROVE  /\ Append(s, m) \in Seq(S) /\ Append(s, m) # <<>>
         /\ Len(Append(s, m)) = Len(s) + 1
         /\ In(x, s) \/ x = m => In(x, Append(s, m))
  BY DEF In

(* What the head of a list of tasks says of the rest.                      *)
LEMMA TailOrdered ==
  ASSUME NEW s \in Seq(TaskNames), s # <<>>, Ordered(s)
  PROVE  /\ Tail(s) \in Seq(TaskNames) /\ Ordered(Tail(s))
         /\ Head(s) = "ClearFlag" => In("SetManual", Tail(s))
         /\ Head(s) = "GetStatus" => In("SetTooltip", Tail(s))
         /\ Head(s) = "ReloadList" => In("StatusLine", Tail(s))
         /\ Head(s) \in {"KeyTooltip", "Show"} => Tail(s) = <<>>
         /\ Head(s) = "SetTooltip" /\ In("SetTooltip", Tail(s)) =>
              In("GetStatus", Tail(s))
         /\ Head(s) = "Refresh" =>
              \A j \in 1..Len(Tail(s)) : Tail(s)[j] = "Balloon"
  <1> DEFINE t == Tail(s)
  <1>0. /\ Len(s) \in Nat \ {0} /\ Head(s) = s[1]
        /\ t \in Seq(TaskNames) /\ Len(t) = Len(s) - 1
        /\ \A i \in 1..Len(t) : t[i] = s[i + 1]
    BY TailElements
  <1>1. Ordered(t)
    <2> SUFFICES
          ASSUME NEW i \in 1..Len(t)
          PROVE  /\ t[i] = "ClearFlag" => i < Len(t) /\ t[i + 1] = "SetManual"
                 /\ t[i] = "GetStatus" => i < Len(t) /\ t[i + 1] = "SetTooltip"
                 /\ t[i] = "SetTooltip" => i = 1 \/ t[i - 1] = "GetStatus"
                 /\ t[i] = "ReloadList" => i < Len(t) /\ t[i + 1] = "StatusLine"
                 /\ t[i] \in {"KeyTooltip", "Show"} => i = Len(t)
                 /\ t[i] = "Refresh" =>
                      \A j \in (i + 1)..Len(t) : t[j] = "Balloon"
      BY DEF Ordered
    <2>1. i + 1 \in 1..Len(s) /\ t[i] = s[i + 1] /\ Len(t) = Len(s) - 1
          /\ i \in Nat /\ Len(s) \in Nat
      BY <1>0
    <2>2. i < Len(t) => t[i + 1] = s[(i + 1) + 1]
      BY <1>0
    <2>3. i # 1 => t[i - 1] = s[(i + 1) - 1]
      BY <1>0
    <2>4. \A j \in (i + 1)..Len(t) : j + 1 \in ((i + 1) + 1)..Len(s)
                                      /\ t[j] = s[j + 1]
      BY <1>0
    <2> HIDE DEF t
    <2> QED
      BY <2>1, <2>2, <2>3, <2>4 DEF Ordered
  <1>2. /\ Head(s) = "ClearFlag" => In("SetManual", t)
        /\ Head(s) = "GetStatus" => In("SetTooltip", t)
        /\ Head(s) = "ReloadList" => In("StatusLine", t)
    <2>1. 1 < Len(s) => 1 \in 1..Len(t) /\ t[1] = s[1 + 1]
      BY <1>0
    <2> HIDE DEF t
    <2> QED
      BY <1>0, <2>1 DEF Ordered, In
  <1>3. Head(s) \in {"KeyTooltip", "Show"} => t = <<>>
    <2>0. 1 \in 1..Len(s)
      BY <1>0
    <2>1. Head(s) \in {"KeyTooltip", "Show"} => Len(s) = 1
      BY <1>0, <2>0 DEF Ordered
    <2>2. Len(t) = 0 => t = <<>>
      BY <1>0, EmptySeq
    <2> QED
      BY <1>0, <2>1, <2>2
  <1>4. Head(s) = "SetTooltip" /\ In("SetTooltip", t) => In("GetStatus", t)
    <2> SUFFICES ASSUME s[1] = "SetTooltip", NEW i \in 1..Len(t),
                        t[i] = "SetTooltip"
                 PROVE  In("GetStatus", t)
      BY <1>0 DEF In
    <2>1. i + 1 \in 1..Len(s) /\ s[i + 1] = "SetTooltip" /\ i + 1 # 1
      BY <1>0
    <2>2. s[(i + 1) - 1] = "GetStatus"
      BY <2>1 DEF Ordered
    <2>3. i # 1 /\ (i + 1) - 1 = i
      BY <2>2, "GetStatus" # "SetTooltip"
    <2>4. i - 1 \in 1..Len(t) /\ t[i - 1] = s[(i - 1) + 1] /\ (i - 1) + 1 = i
      BY <1>0, <2>3
    <2> QED
      BY <2>2, <2>3, <2>4 DEF In
  <1>5. Head(s) = "Refresh" => \A j \in 1..Len(t) : t[j] = "Balloon"
    <2> SUFFICES ASSUME s[1] = "Refresh", NEW j \in 1..Len(t)
                 PROVE  t[j] = "Balloon"
      BY <1>0
    <2>1. 1 \in 1..Len(s) /\ j + 1 \in (1 + 1)..Len(s) /\ t[j] = s[j + 1]
      BY <1>0
    <2> HIDE DEF t
    <2> QED
      BY <2>1 DEF Ordered
  <1> QED
    BY <1>0, <1>1, <1>2, <1>3, <1>4, <1>5

(* The lists of the messages: they read everything again.                  *)
LEMMA HandlerList ==
  ASSUME NEW m \in Messages
  PROVE  /\ Handler(m) \in Seq(TaskNames) /\ Ordered(Handler(m))
         /\ In("GetStatus", Handler(m)) /\ In("Refresh", Handler(m))
         /\ ~In("KeyTooltip", Handler(m)) /\ ~In("Show", Handler(m))
         /\ m = "TOTALS" => In("Balloon", Handler(m))
  <1> DEFINE h == Handler(m)
  <1>1. /\ h \in Seq(TaskNames)
        /\ Len(h) = IF m = "TOTALS" THEN 4 ELSE 3
        /\ h[1] = "GetStatus" /\ h[2] = "SetTooltip" /\ h[3] = "Refresh"
        /\ m = "TOTALS" => h[4] = "Balloon"
    <2>1. CASE m = "TOTALS"
      BY <2>1 DEF Handler, UpdateTray, TaskNames
    <2>2. CASE m = "SYNC"
      BY <2>2 DEF Handler, UpdateTray, TaskNames
    <2> QED
      BY <2>1, <2>2 DEF Messages
  <1> HIDE DEF h
  <1>2. Ordered(h)
    BY <1>1 DEF Ordered
  <1>3. In("GetStatus", h) /\ In("Refresh", h)
        /\ (m = "TOTALS" => In("Balloon", h))
    BY <1>1 DEF In
  <1>4. ~In("KeyTooltip", h) /\ ~In("Show", h)
    BY <1>1 DEF In
  <1> QED
    BY <1>1, <1>2, <1>3, <1>4 DEF h

(* The lists of the user's actions on the sales window.                    *)
LEMMA WindowLists ==
  /\ Reload \in Seq(TaskNames) /\ Ordered(Reload)
  /\ In("ReloadList", Reload)
  /\ \A x \in {"SetTooltip", "KeyTooltip", "Show"} : ~In(x, Reload)
  /\ Reload \o <<"Show">> \in Seq(TaskNames) /\ Ordered(Reload \o <<"Show">>)
  /\ In("ReloadList", Reload \o <<"Show">>)
  /\ \A x \in {"SetTooltip", "KeyTooltip"} : ~In(x, Reload \o <<"Show">>)
  /\ <<"SetManual">> \in Seq(TaskNames) /\ Ordered(<<"SetManual">>)
  /\ In("SetManual", <<"SetManual">>)
  /\ \A x \in {"SetTooltip", "KeyTooltip", "Show"} : ~In(x, <<"SetManual">>)
  /\ <<"SetManual">> \o Reload \in Seq(TaskNames)
  /\ Ordered(<<"SetManual">> \o Reload)
  /\ In("SetManual", <<"SetManual">> \o Reload)
  /\ In("ReloadList", <<"SetManual">> \o Reload)
  /\ \A x \in {"SetTooltip", "KeyTooltip", "Show"} :
       ~In(x, <<"SetManual">> \o Reload)
  <1>1. /\ Reload \in Seq(TaskNames) /\ Len(Reload) = 2
        /\ Reload[1] = "ReloadList" /\ Reload[2] = "StatusLine"
    BY DEF Reload, TaskNames
  <1> DEFINE s == Reload \o <<"Show">>
             m == <<"SetManual">>
             r == <<"SetManual">> \o Reload
  <1>2. /\ s \in Seq(TaskNames) /\ Len(s) = 3
        /\ s[1] = "ReloadList" /\ s[2] = "StatusLine" /\ s[3] = "Show"
    BY DEF Reload, TaskNames
  <1>3. m \in Seq(TaskNames) /\ Len(m) = 1 /\ m[1] = "SetManual"
    BY DEF TaskNames
  <1>4. /\ r \in Seq(TaskNames) /\ Len(r) = 3
        /\ r[1] = "SetManual" /\ r[2] = "ReloadList" /\ r[3] = "StatusLine"
    BY DEF Reload, TaskNames
  <1> HIDE DEF s, m, r
  <1>5. /\ Ordered(Reload) /\ In("ReloadList", Reload)
        /\ \A x \in {"SetTooltip", "KeyTooltip", "Show"} : ~In(x, Reload)
    BY <1>1 DEF Ordered, In
  <1>6. /\ Ordered(s) /\ In("ReloadList", s)
        /\ \A x \in {"SetTooltip", "KeyTooltip"} : ~In(x, s)
    BY <1>2 DEF Ordered, In
  <1>7. /\ Ordered(m) /\ In("SetManual", m)
        /\ \A x \in {"SetTooltip", "KeyTooltip", "Show"} : ~In(x, m)
    BY <1>3 DEF Ordered, In
  <1>8. /\ Ordered(r) /\ In("SetManual", r) /\ In("ReloadList", r)
        /\ \A x \in {"SetTooltip", "KeyTooltip", "Show"} : ~In(x, r)
    BY <1>4 DEF Ordered, In
  <1> QED
    BY <1>1, <1>2, <1>3, <1>4, <1>5, <1>6, <1>7, <1>8 DEF s, m, r

(* The list that ends a dialog: the worker is told of what changed, the    *)
(* window reloads, and the tooltip is read again unless the key changed.   *)
LEMMA DialogList ==
  ASSUME NEW o, o.clear \in BOOLEAN, o.key \in BOOLEAN, o.prefs \in BOOLEAN
  PROVE  /\ AfterDialog(o) \in Seq(TaskNames) /\ Ordered(AfterDialog(o))
         /\ In("ReloadList", AfterDialog(o)) /\ ~In("Show", AfterDialog(o))
         /\ o.clear \/ o.key \/ o.prefs =>
              \/ In("SetManual", AfterDialog(o))
              \/ In("SetSettings", AfterDialog(o))
         /\ o.key => ~In("SetTooltip", AfterDialog(o))
         /\ ~o.key => In("GetStatus", AfterDialog(o))
                      /\ ~In("KeyTooltip", AfterDialog(o))
  <1> DEFINE a == AfterDialog(o)
  <1> USE DEF AfterDialog, Notify, Reload, UpdateTray, TaskNames
  <1>1. CASE o.clear /\ o.key
    <2>1. /\ a \in Seq(TaskNames) /\ Len(a) = 5
          /\ a[1] = "ClearFlag" /\ a[2] = "SetManual" /\ a[3] = "ReloadList"
          /\ a[4] = "StatusLine" /\ a[5] = "KeyTooltip"
      BY <1>1
    <2> HIDE DEF a
    <2>2. Ordered(a)
      BY <2>1 DEF Ordered
    <2> QED
      BY <1>1, <2>1, <2>2 DEF a, In
  <1>2. CASE o.clear /\ ~o.key
    <2>1. /\ a \in Seq(TaskNames) /\ Len(a) = 6
          /\ a[1] = "ClearFlag" /\ a[2] = "SetManual" /\ a[3] = "ReloadList"
          /\ a[4] = "StatusLine" /\ a[5] = "GetStatus" /\ a[6] = "SetTooltip"
      BY <1>2
    <2> HIDE DEF a
    <2>2. Ordered(a)
      BY <2>1 DEF Ordered
    <2> QED
      BY <1>2, <2>1, <2>2 DEF a, In
  <1>3. CASE ~o.clear /\ o.key
    <2>1. /\ a \in Seq(TaskNames) /\ Len(a) = 4
          /\ a[1] = "SetSettings" /\ a[2] = "ReloadList" /\ a[3] = "StatusLine"
          /\ a[4] = "KeyTooltip"
      BY <1>3
    <2> HIDE DEF a
    <2>2. Ordered(a)
      BY <2>1 DEF Ordered
    <2> QED
      BY <1>3, <2>1, <2>2 DEF a, In
  <1>4. CASE ~o.clear /\ ~o.key /\ o.prefs
    <2>1. /\ a \in Seq(TaskNames) /\ Len(a) = 5
          /\ a[1] = "SetSettings" /\ a[2] = "ReloadList" /\ a[3] = "StatusLine"
          /\ a[4] = "GetStatus" /\ a[5] = "SetTooltip"
      BY <1>4
    <2> HIDE DEF a
    <2>2. Ordered(a)
      BY <2>1 DEF Ordered
    <2> QED
      BY <1>4, <2>1, <2>2 DEF a, In
  <1>5. CASE ~o.clear /\ ~o.key /\ ~o.prefs
    <2>1. /\ a \in Seq(TaskNames) /\ Len(a) = 4
          /\ a[1] = "ReloadList" /\ a[2] = "StatusLine" /\ a[3] = "GetStatus"
          /\ a[4] = "SetTooltip"
      BY <1>5
    <2> HIDE DEF a
    <2>2. Ordered(a)
      BY <2>1 DEF Ordered
    <2> QED
      BY <1>5, <2>1, <2>2 DEF a, In
  <1> QED
    BY <1>1, <1>2, <1>3, <1>4, <1>5

-----------------------------------------------------------------------------
(* The worker.                                                             *)

(* A step that only moves the worker between stations of a pass, or into   *)
(* one.                                                                    *)
LEMMA MoveSteps ==
  ASSUME IInv,
         StartWithPass \/ OpenDatabase \/ LoadKey \/ ChangesFound
  PROVE  IInv'
  <1> USE DEF StartWithPass, OpenDatabase, LoadKey, ChangesFound, Go,
              Untouched, events, preferences, display, snapshot, database
  <1>1. TypeInv' /\ ListInv'
    <2>1. SharedTypes'
      BY DEF IInv, TypeInv, SharedTypes
    <2>2. WorkerTypes'
      BY DEF IInv, TypeInv, WorkerTypes, Passing
    <2>3. DisplayTypes'
      BY DEF IInv, TypeInv, DisplayTypes
    <2>4. ListInv'
      BY DEF IInv, ListInv
    <2> QED
      BY <2>1, <2>2, <2>3, <2>4 DEF TypeInv
  <1>2. ThreadInv'
    BY DEF IInv, ThreadInv, SyncingAt
  <1>3. TooltipInv' /\ WindowInv'
    BY DEF IInv, TooltipInv, WindowInv, Coming, Passing
  <1>4. NoteInv'
    BY DEF IInv, NoteInv
  <1>5. SettingsInv' /\ ClearInv'
    BY DEF IInv, SettingsInv, ClearInv, Told
  <1> QED
    BY <1>1, <1>2, <1>3, <1>4, <1>5 DEF IInv

(* A status.                                                               *)
LEMMA StatusSteps ==
  ASSUME IInv,
         \/ StartFresh \/ SetSyncing \/ OpenFailed \/ KeyMissing
         \/ StoreFailed \/ SetIdleUnchanged
         \/ \E s \in FetchErrors : FetchFailed("Query", s)
                                   \/ FetchFailed("Dates", s)
  PROVE  IInv'
  <1> USE FetchErrorsAssumption
      DEF StartFresh, SetSyncing, OpenFailed, KeyMissing, StoreFailed,
          SetIdleUnchanged, FetchFailed, SetStatusAt, Go,
          Untouched, events, preferences, display, snapshot, database
  <1>1. TypeInv' /\ ListInv'
    <2>1. SharedTypes'
      BY DEF IInv, TypeInv, SharedTypes
    <2>2. WorkerTypes'
      <3>1. misread' \in BOOLEAN
        <4>1. misread' \in {FALSE, keyStored}
          OBVIOUS
        <4>2. keyStored \in BOOLEAN
          BY DEF IInv, TypeInv, SharedTypes
        <4> QED
          BY <4>1, <4>2, Zenon
      <3>2. /\ status' \in Statuses /\ note' \in 0..MaxNotes
            /\ issued' \in 0..MaxNotes
            /\ wpc' \in Passing \cup {"Deadline"}
        BY DEF IInv, TypeInv, WorkerTypes, Passing, Statuses
      <3>3. deadline' \in {"zero", "armed", "passed"} /\ timed' \in BOOLEAN
        BY DEF IInv, TypeInv, WorkerTypes
      <3> QED
        BY ONLY <3>1, <3>2, <3>3 DEF WorkerTypes
    <2>3. DisplayTypes'
      BY DEF IInv, TypeInv, DisplayTypes
    <2>4. ListInv'
      BY DEF IInv, ListInv
    <2> QED
      BY <2>1, <2>2, <2>3, <2>4 DEF TypeInv
  <1>2. ThreadInv'
    BY DEF IInv, ThreadInv, SyncingAt
  <1>3. TooltipInv' /\ WindowInv'
    BY DEF IInv, TooltipInv, WindowInv, Coming, Passing, ThreadInv
  <1>4. NoteInv'
    BY DEF IInv, NoteInv
  <1>5. SettingsInv' /\ ClearInv'
    BY DEF IInv, SettingsInv, ClearInv, Told
  <1> QED
    BY <1>1, <1>2, <1>3, <1>4, <1>5 DEF IInv

(* A message: the interface will be woken, or is about to end.             *)
LEMMA PostSteps ==
  ASSUME IInv,
         \/ PostStarted \/ PostProgress \/ PostTotals \/ PostCompleted
         \/ PostFailed
  PROVE  IInv'
  <1>0. /\ queue' \in Seq(Messages) /\ Len(queue') <= QueueBound
        /\ ui # "Running" => queue' = queue
        /\ ui = "Running" => queue' # <<>>
        /\ In("TOTALS", queue) => In("TOTALS", queue')
        /\ wpc = "PostTotals" /\ ui = "Running" => In("TOTALS", queue')
    <2>1. PICK m \in Messages : Post(m) /\ (wpc = "PostTotals" => m = "TOTALS")
      BY DEF PostStarted, PostProgress, PostTotals, PostCompleted, PostFailed,
             PostAt, Go, Messages
    <2>2. queue \in Seq(Messages) /\ Len(queue) \in Nat
          /\ Len(queue) <= QueueBound /\ QueueBound \in Nat
      BY BoundsAssumption DEF IInv, TypeInv, SharedTypes, ListInv
    <2>3. CASE ui = "Running"
      <3>1. Len(queue) < QueueBound /\ queue' = Append(queue, m)
        BY <2>1, <2>3 DEF Post
      <3>2. /\ Append(queue, m) \in Seq(Messages) /\ Append(queue, m) # <<>>
            /\ Len(Append(queue, m)) = Len(queue) + 1
            /\ In("TOTALS", queue) \/ "TOTALS" = m
                 => In("TOTALS", Append(queue, m))
        BY <2>2, InAppend
      <3> QED
        BY <2>1, <2>2, <2>3, <3>1, <3>2
    <2>4. CASE ui # "Running"
      BY <2>1, <2>2, <2>4 DEF Post
    <2> QED
      BY <2>3, <2>4
  <1> USE DEF PostStarted, PostProgress, PostTotals, PostCompleted, PostFailed,
              PostAt, Go, Untouched, events, preferences, display, snapshot,
              database
  <1>1. TypeInv' /\ ListInv'
    <2>1. SharedTypes'
      BY <1>0 DEF IInv, TypeInv, SharedTypes
    <2>2. WorkerTypes'
      BY DEF IInv, TypeInv, WorkerTypes, Passing, Statuses
    <2>3. DisplayTypes'
      BY DEF IInv, TypeInv, DisplayTypes
    <2>4. ListInv'
      BY <1>0 DEF IInv, ListInv
    <2> QED
      BY <2>1, <2>2, <2>3, <2>4 DEF TypeInv
  <1>2. ThreadInv'
    BY DEF IInv, ThreadInv, SyncingAt
  <1>3. TooltipInv' /\ WindowInv'
    BY <1>0 DEF IInv, TooltipInv, WindowInv, Coming, Passing
  <1>4. NoteInv'
    BY <1>0 DEF IInv, NoteInv
  <1>5. SettingsInv' /\ ClearInv'
    BY DEF IInv, SettingsInv, ClearInv, Told
  <1> QED
    BY <1>1, <1>2, <1>3, <1>4, <1>5 DEF IInv

(* The cache.                                                              *)
LEMMA CacheSteps ==
  ASSUME IInv,
         \/ ClearIfRequested \/ RecordError \/ NoChanges \/ StoreDate
         \/ AllStored
  PROVE  IInv'
  <1>0. /\ total' \in 0..MaxTotal /\ lastError' \in BOOLEAN
        /\ \/ wpc = "Clear" /\ wpc' = "Key" /\ clearRequested' = FALSE
           \/ /\ clearRequested' = clearRequested
              /\ \/ wpc = "RecordError" /\ wpc' = "PostFailed"
                 \/ wpc = "Query" /\ wpc' = "IdleUnchanged"
                 \/ wpc = "Dates" /\ wpc' \in {"PostProgress", "IdleDone"}
        /\ UNCHANGED <<stop, manual, settings, interval, keyStored, status,
                       note, misread, queue, deadline, timed, ui, tasks, st,
                       tooltip, visible, window, outcome, issued, shown,
                       heard>>
    <2> USE DEF Go, ClearError, Untouched, events, preferences, display,
                snapshot, database, history
    <2>0. total \in 0..MaxTotal /\ lastError \in BOOLEAN /\ MaxTotal \in Nat
      BY BoundsAssumption DEF IInv, TypeInv, SharedTypes
    <2>1. CASE ClearIfRequested
      BY <2>0, <2>1 DEF ClearIfRequested
    <2>2. CASE RecordError
      BY <2>0, <2>2 DEF RecordError
    <2>3. CASE NoChanges
      BY <2>0, <2>3 DEF NoChanges
    <2>4. CASE StoreDate
      BY <2>0, <2>4 DEF StoreDate
    <2>5. CASE AllStored
      BY <2>0, <2>5 DEF AllStored
    <2> QED
      BY <2>1, <2>2, <2>3, <2>4, <2>5
  <1>1. TypeInv' /\ ListInv'
    <2>1. SharedTypes'
      BY <1>0 DEF IInv, TypeInv, SharedTypes
    <2>2. WorkerTypes'
      BY <1>0 DEF IInv, TypeInv, WorkerTypes, Passing, Statuses
    <2>3. DisplayTypes'
      BY <1>0 DEF IInv, TypeInv, DisplayTypes
    <2>4. ListInv'
      BY <1>0 DEF IInv, ListInv
    <2> QED
      BY <2>1, <2>2, <2>3, <2>4 DEF TypeInv
  <1>2. ThreadInv'
    BY <1>0 DEF IInv, ThreadInv, SyncingAt
  <1>3. TooltipInv' /\ WindowInv'
    BY <1>0 DEF IInv, TooltipInv, WindowInv, Coming, Passing
  <1>4. NoteInv'
    BY <1>0 DEF IInv, NoteInv
  <1>5. SettingsInv' /\ ClearInv'
    BY <1>0 DEF IInv, SettingsInv, ClearInv, Told
  <1> QED
    BY <1>1, <1>2, <1>3, <1>4, <1>5 DEF IInv

(* The end of a pass that stored dates.                                    *)
LEMMA DoneStep ==
  ASSUME IInv, SetIdleDone
  PROVE  IInv'
  <1> USE DEF SetIdleDone, Go, Untouched, events, preferences, display,
              database
  <1>1. TypeInv' /\ ListInv'
    <2>1. SharedTypes'
      BY DEF IInv, TypeInv, SharedTypes
    <2>2. WorkerTypes'
      <3>1. misread' \in BOOLEAN
        OBVIOUS
      <3>2. /\ status' \in Statuses /\ note' \in 0..MaxNotes
            /\ issued' \in 0..MaxNotes /\ wpc' \in Passing
        BY BoundsAssumption DEF IInv, TypeInv, WorkerTypes, Passing, Statuses
      <3>3. deadline' \in {"zero", "armed", "passed"} /\ timed' \in BOOLEAN
        BY DEF IInv, TypeInv, WorkerTypes
      <3> QED
        BY ONLY <3>1, <3>2, <3>3 DEF WorkerTypes
    <2>3. DisplayTypes'
      BY DEF IInv, TypeInv, DisplayTypes
    <2>4. ListInv'
      BY DEF IInv, ListInv
    <2> QED
      BY <2>1, <2>2, <2>3, <2>4 DEF TypeInv
  <1>2. ThreadInv'
    BY DEF IInv, ThreadInv, SyncingAt
  <1>3. TooltipInv' /\ WindowInv'
    BY DEF IInv, TooltipInv, WindowInv, Coming, Passing
  <1>4. NoteInv'
    BY DEF IInv, NoteInv
  <1>5. SettingsInv' /\ ClearInv'
    BY DEF IInv, SettingsInv, ClearInv, Told
  <1> QED
    BY <1>1, <1>2, <1>3, <1>4, <1>5 DEF IInv

(* The timer and the wait.                                                 *)
LEMMA WaitSteps ==
  ASSUME IInv, ResetDeadline \/ ComputeWait \/ Tick \/ Wait
  PROVE  IInv'
  <1> USE DEF ResetDeadline, ComputeWait, Tick, Wait, Go, events, preferences,
              display, snapshot, database, history
  <1>1. TypeInv' /\ ListInv'
    <2>1. SharedTypes'
      BY DEF IInv, TypeInv, SharedTypes
    <2>2. WorkerTypes'
      <3>1. CASE ResetDeadline
        BY <3>1 DEF IInv, TypeInv, WorkerTypes, Passing
      <3>2. CASE ComputeWait
        BY <3>2 DEF IInv, TypeInv, WorkerTypes, SharedTypes
      <3>3. CASE Tick
        BY <3>3 DEF IInv, TypeInv, WorkerTypes
      <3>4. CASE Wait
        BY <3>4 DEF IInv, TypeInv, WorkerTypes, Passing
      <3> QED
        BY <3>1, <3>2, <3>3, <3>4
    <2>3. DisplayTypes'
      BY DEF IInv, TypeInv, DisplayTypes
    <2>4. ListInv'
      BY DEF IInv, ListInv
    <2> QED
      BY <2>1, <2>2, <2>3, <2>4 DEF TypeInv
  <1>2. ThreadInv'
    BY DEF IInv, ThreadInv, SyncingAt
  <1>3. TooltipInv' /\ WindowInv'
    BY DEF IInv, TooltipInv, WindowInv, Coming, Passing, ThreadInv, TypeInv,
           WorkerTypes
  <1>4. NoteInv'
    BY DEF IInv, NoteInv
  <1>5. SettingsInv' /\ ClearInv'
    BY DEF IInv, SettingsInv, ClearInv, Told, TypeInv, SharedTypes,
           WorkerTypes
  <1> QED
    BY <1>1, <1>2, <1>3, <1>4, <1>5 DEF IInv

(* Every step of the worker preserves the invariant.                       *)
LEMMA WorkerSteps ==
  ASSUME IInv, Worker \/ Tick
  PROVE  IInv'
  BY MoveSteps, StatusSteps, PostSteps, CacheSteps, DoneStep, WaitSteps
  DEF Worker

-----------------------------------------------------------------------------
(* The tasks of the interface.                                             *)

(* A task leaves the list, and the others stay in their order.             *)
LEMMA TaskLeaves ==
  ASSUME IInv, NEW task \in TaskNames,
         tasks # <<>>, Head(tasks) = task, tasks' = Tail(tasks)
  PROVE  /\ tasks' \in Seq(TaskNames) /\ Ordered(tasks')
         /\ \A x : In(x, tasks) <=> x = task \/ In(x, tasks')
         /\ task = "ClearFlag" => In("SetManual", tasks')
         /\ task = "GetStatus" => In("SetTooltip", tasks')
         /\ task = "ReloadList" => In("StatusLine", tasks')
         /\ task \in {"KeyTooltip", "Show"} => tasks' = <<>>
         /\ task = "SetTooltip" /\ In("SetTooltip", tasks')
              => In("GetStatus", tasks')
  <1>1. tasks \in Seq(TaskNames) /\ Ordered(tasks)
    BY DEF IInv, ListInv
  <1>2. \A x : In(x, tasks) <=> x = task \/ In(x, Tail(tasks))
    BY <1>1, InTail
  <1> QED
    BY <1>1, <1>2, TailOrdered

(* What is to come does not depend on the display.                         *)
LEMMA ComingStays ==
  ASSUME UNCHANGED <<ui, manual, settings, wpc, queue>>
  PROVE  Coming' <=> Coming
  BY DEF Coming

(* The tasks that read and write the display.                              *)
LEMMA DisplayTasks ==
  ASSUME IInv,
         \/ GetStatus \/ SetTooltip \/ UpdateTooltipForKeyState \/ ReloadList
         \/ UpdateStatusLine \/ ShowWindow \/ MaybeShowNotification
  PROVE  IInv'
  <1>0. PICK task \in {"GetStatus", "SetTooltip", "KeyTooltip", "ReloadList",
                       "StatusLine", "Show", "Balloon"} :
          /\ Do(task)
          /\ UNCHANGED <<events, clearRequested>>
          /\ IF task = "GetStatus" THEN st' = status
             ELSE IF task = "SetTooltip" THEN st' = "Idle"
             ELSE UNCHANGED st
          /\ IF task = "SetTooltip" THEN tooltip' = Tip(st, total)
             ELSE IF task = "KeyTooltip" THEN tooltip' \in KeyTips
             ELSE UNCHANGED tooltip
          /\ IF task = "ReloadList"
             THEN window' = [window EXCEPT !.total = total]
             ELSE IF task = "StatusLine"
             THEN window' = [window EXCEPT !.error = lastError]
             ELSE UNCHANGED window
          /\ IF task = "Show" THEN visible' = TRUE ELSE UNCHANGED visible
          /\ IF task = "Balloon" /\ note # 0 THEN shown' = shown \cup {note}
             ELSE UNCHANGED shown
    BY DEF GetStatus, SetTooltip, UpdateTooltipForKeyState, ReloadList,
           UpdateStatusLine, ShowWindow, MaybeShowNotification, display
  <1>1. UNCHANGED <<stop, manual, settings, clearRequested, interval,
                    keyStored, status, note, misread, total, lastError, queue,
                    wpc, deadline, timed, ui, outcome, issued, heard>>
    BY <1>0 DEF Do, WorkerSide, events, preferences, snapshot, database, worker
  <1>2. /\ tasks' \in Seq(TaskNames) /\ Ordered(tasks')
        /\ \A x : In(x, tasks) <=> x = task \/ In(x, tasks')
        /\ task = "GetStatus" => In("SetTooltip", tasks')
        /\ task = "ReloadList" => In("StatusLine", tasks')
        /\ task \in {"KeyTooltip", "Show"} => tasks' = <<>>
        /\ task = "SetTooltip" /\ In("SetTooltip", tasks')
             => In("GetStatus", tasks')
    <2>1. task \in TaskNames /\ tasks # <<>> /\ Head(tasks) = task
          /\ tasks' = Tail(tasks)
      BY <1>0 DEF Do, TaskNames
    <2> QED
      BY <2>1, TaskLeaves
  <1>3. Coming' <=> Coming
    BY <1>1, ComingStays
  <1>4. TypeInv' /\ ListInv'
    <2>1. SharedTypes' /\ WorkerTypes'
      BY <1>1 DEF IInv, TypeInv, SharedTypes, WorkerTypes
    <2>2. DisplayTypes'
      <3> USE DEF IInv, TypeInv, DisplayTypes, WorkerTypes, SharedTypes
      <3>1. st' \in Statuses /\ visible' \in BOOLEAN
        BY <1>0 DEF Statuses
      <3>2. window' \in [total : 0..MaxTotal, error : BOOLEAN]
        BY <1>0
      <3>3. shown' \subseteq 1..MaxNotes
        BY <1>0, BoundsAssumption
      <3> QED
        BY <1>1, <3>1, <3>2, <3>3
    <2>3. ListInv'
      BY <1>1, <1>2 DEF IInv, ListInv
    <2> QED
      BY <2>1, <2>2, <2>3 DEF TypeInv
  <1>5. ThreadInv'
    BY <1>1 DEF IInv, ThreadInv
  <1>6. TooltipInv'
    <2>1. ASSUME heard, ~Coming, ~In("GetStatus", tasks')
          PROVE  \/ In("SetTooltip", tasks') /\ st' = status
                 \/ ~In("SetTooltip", tasks') /\ tooltip' = Tip(status, total)
      <3>1. CASE task = "GetStatus"
        BY <1>0, <1>2, <3>1
      <3>2. CASE task = "SetTooltip"
        BY <1>0, <1>2, <2>1, <3>2 DEF IInv, TooltipInv
      <3>3. CASE task = "KeyTooltip"
        <4>1. ~In("SetManual", tasks') /\ ~In("SetSettings", tasks')
          BY <1>2, <3>3, NothingIn
        <4> QED
          BY <1>2, <2>1, <3>3, <4>1 DEF IInv, TooltipInv
      <3>4. CASE task \notin {"GetStatus", "SetTooltip", "KeyTooltip"}
        BY <1>0, <1>2, <2>1, <3>4 DEF IInv, TooltipInv
      <3> QED
        BY <3>1, <3>2, <3>3, <3>4
    <2>2. ASSUME In("KeyTooltip", tasks')
          PROVE  Coming \/ In("SetManual", tasks') \/ In("SetSettings", tasks')
      BY <1>0, <1>2, <2>2 DEF IInv, TooltipInv
    <2> QED
      BY <1>1, <1>3, <2>1, <2>2 DEF TooltipInv
  <1>7. WindowInv'
    <2> SUFFICES ASSUME visible' \/ In("Show", tasks'), ~Coming,
                        ~In("Refresh", tasks'), ~In("ReloadList", tasks')
                 PROVE  /\ window'.total = total
                        /\ In("StatusLine", tasks') \/ window'.error = lastError
      BY <1>1, <1>3 DEF WindowInv
    <2>1. visible \/ In("Show", tasks)
      BY <1>0, <1>2
    <2>2. window \in [total : 0..MaxTotal, error : BOOLEAN]
      BY DEF IInv, TypeInv, DisplayTypes
    <2>3. CASE task = "ReloadList"
      BY <1>0, <1>2, <2>2, <2>3
    <2>4. CASE task = "StatusLine"
      BY <1>0, <1>2, <2>1, <2>2, <2>4 DEF IInv, WindowInv
    <2>5. CASE task \notin {"ReloadList", "StatusLine"}
      BY <1>0, <1>2, <2>1, <2>5 DEF IInv, WindowInv
    <2> QED
      BY <2>3, <2>4, <2>5
  <1>8. NoteInv'
    BY <1>0, <1>1, <1>2 DEF IInv, NoteInv
  <1>9. SettingsInv'
    <2>1. \A c \in BOOLEAN : Told(c) <=> Told(c)'
      BY <1>0, <1>1, <1>2 DEF Told
    <2> QED
      BY <1>1, <2>1 DEF IInv, SettingsInv, TypeInv, DisplayTypes
  <1>10. ClearInv'
    BY <1>0, <1>1, <1>2 DEF IInv, ClearInv
  <1> QED
    BY <1>4, <1>5, <1>6, <1>7, <1>8, <1>9, <1>10 DEF IInv

(* The tasks that tell the worker.                                         *)
LEMMA RequestTasks ==
  ASSUME IInv,
         StoreClearFlag \/ SetManualEvent \/ NotifySettingsChanged
  PROVE  IInv'
  <1>0. PICK task \in {"ClearFlag", "SetManual", "SetSettings"} :
          /\ Do(task)
          /\ UNCHANGED <<stop, st, display, shown>>
          /\ IF task = "ClearFlag" THEN clearRequested' = TRUE
             ELSE UNCHANGED clearRequested
          /\ IF task = "SetManual" THEN manual' = TRUE ELSE UNCHANGED manual
          /\ IF task = "SetSettings" THEN settings' = TRUE
             ELSE UNCHANGED settings
    BY DEF StoreClearFlag, SetManualEvent, NotifySettingsChanged, events
  <1>1. UNCHANGED <<stop, interval, keyStored, status, note, misread, total,
                    lastError, queue, wpc, deadline, timed, ui, st, tooltip,
                    visible, window, outcome, issued, shown, heard>>
    BY <1>0 DEF Do, WorkerSide, preferences, snapshot, database, worker, display
  <1>2. /\ tasks' \in Seq(TaskNames) /\ Ordered(tasks')
        /\ \A x : In(x, tasks) <=> x = task \/ In(x, tasks')
        /\ task = "ClearFlag" => In("SetManual", tasks')
    <2>1. task \in TaskNames /\ tasks # <<>> /\ Head(tasks) = task
          /\ tasks' = Tail(tasks)
      BY <1>0 DEF Do, TaskNames
    <2> QED
      BY <2>1, TaskLeaves
  <1>3. /\ Coming => Coming'
        /\ task # "ClearFlag" => Coming'
    BY <1>0, <1>1 DEF Coming
  <1>4. TypeInv' /\ ListInv'
    <2>1. SharedTypes'
      BY <1>0, <1>1 DEF IInv, TypeInv, SharedTypes
    <2>2. WorkerTypes' /\ DisplayTypes'
      BY <1>1 DEF IInv, TypeInv, WorkerTypes, DisplayTypes
    <2>3. ListInv'
      BY <1>1, <1>2 DEF IInv, ListInv
    <2> QED
      BY <2>1, <2>2, <2>3 DEF TypeInv
  <1>5. ThreadInv'
    BY <1>1 DEF IInv, ThreadInv
  <1>6. TooltipInv' /\ WindowInv'
    BY <1>0, <1>1, <1>2, <1>3 DEF IInv, TooltipInv, WindowInv
  <1>7. NoteInv'
    BY <1>0, <1>1, <1>2 DEF IInv, NoteInv
  <1>8. SettingsInv'
    <2>1. \A c \in BOOLEAN : Told(c) => Told(c)'
      BY <1>0, <1>1, <1>2 DEF Told
    <2> QED
      BY <1>1, <2>1 DEF IInv, SettingsInv, TypeInv, DisplayTypes
  <1>9. ClearInv'
    BY <1>0, <1>1, <1>2 DEF IInv, ClearInv
  <1> QED
    BY <1>4, <1>5, <1>6, <1>7, <1>8, <1>9 DEF IInv

(* A hidden window drops the task, a visible one reads twice.  Only the    *)
(* notification can come after it.                                         *)
LEMMA RefreshStep ==
  ASSUME IInv, Refresh
  PROVE  IInv'
  <1>0. /\ tasks # <<>> /\ Head(tasks) = "Refresh"
        /\ tasks' = (IF visible THEN Reload ELSE <<>>) \o Tail(tasks)
        /\ UNCHANGED <<stop, manual, settings, clearRequested, interval,
                       keyStored, status, note, misread, total, lastError,
                       queue, wpc, deadline, timed, ui, st, tooltip, visible,
                       window, outcome, issued, shown, heard>>
    BY DEF Refresh, WorkerSide, events, preferences, snapshot, database, worker,
           display
  <1> DEFINE t == Tail(tasks)
  <1>1. /\ t \in Seq(TaskNames) /\ Ordered(t)
        /\ \A j \in 1..Len(t) : t[j] = "Balloon"
        /\ \A x : In(x, tasks) <=> x = "Refresh" \/ In(x, t)
    <2>1. tasks \in Seq(TaskNames) /\ Ordered(tasks)
      BY DEF IInv, ListInv
    <2>2. \A x : In(x, tasks) <=> x = Head(tasks) \/ In(x, Tail(tasks))
      BY <1>0, <2>1, InTail
    <2> QED
      BY <1>0, <2>1, <2>2, TailOrdered
  <1>2. /\ tasks' \in Seq(TaskNames) /\ Ordered(tasks')
        /\ In("Balloon", t) => In("Balloon", tasks')
        /\ visible => In("ReloadList", tasks')
        /\ \A x \in TaskNames \ {"ReloadList", "StatusLine", "Balloon"} :
             ~In(x, tasks')
    <2>1. CASE visible
      <3>1. /\ Reload \in Seq(TaskNames) /\ Len(Reload) = 2
            /\ Reload[1] = "ReloadList" /\ Reload[2] = "StatusLine"
        BY DEF Reload, TaskNames
      <3>2. tasks' = Reload \o t
        BY <1>0, <2>1
      <3>3. /\ tasks' \in Seq(TaskNames) /\ Len(tasks') = 2 + Len(t)
            /\ \A i \in 1..(2 + Len(t)) :
                 tasks'[i] = IF i <= 2 THEN Reload[i] ELSE t[i - 2]
        <4> HIDE DEF t
        <4>1. /\ Reload \o t \in Seq(TaskNames)
              /\ Len(Reload \o t) = Len(Reload) + Len(t)
              /\ \A i \in 1..(Len(Reload) + Len(t)) : (Reload \o t)[i] =
                   IF i <= Len(Reload) THEN Reload[i] ELSE t[i - Len(Reload)]
          BY <1>1, <3>1, ConcatProperties
        <4> QED
          BY <3>1, <3>2, <4>1
      <3> HIDE DEF t
      <3>4. Len(t) \in Nat
        BY <1>1
      <3>5. /\ tasks'[1] = "ReloadList" /\ tasks'[2] = "StatusLine"
            /\ \A i \in 3..Len(tasks') : tasks'[i] = "Balloon"
        BY <1>1, <3>1, <3>3, <3>4
      <3>6. Ordered(tasks')
        BY <3>3, <3>4, <3>5 DEF Ordered
      <3>7. In("Balloon", t) => In("Balloon", tasks')
        <4> SUFFICES ASSUME NEW j \in 1..Len(t)
                     PROVE  In("Balloon", tasks')
          BY DEF In
        <4>1. j + 2 \in 1..Len(tasks') /\ tasks'[j + 2] = "Balloon"
          BY <3>3, <3>4, <3>5
        <4> QED
          BY <4>1 DEF In
      <3>8. In("ReloadList", tasks')
        BY <3>3, <3>4, <3>5 DEF In
      <3>9. \A i \in 1..Len(tasks') :
              tasks'[i] \in {"ReloadList", "StatusLine", "Balloon"}
        BY <3>3, <3>4, <3>5
      <3> QED
        BY <3>3, <3>6, <3>7, <3>8, <3>9 DEF In
    <2>2. CASE ~visible
      <3>1. tasks' = t
        BY <1>0, <1>1, <2>2, ConcatEmptySeq
      <3> HIDE DEF t
      <3> QED
        BY <1>1, <2>2, <3>1 DEF In
    <2> QED
      BY <2>1, <2>2
  <1> HIDE DEF t
  <1>3. Coming' <=> Coming
    BY <1>0, ComingStays
  <1>4. \A x \in TaskNames \ {"Refresh", "ReloadList", "StatusLine",
                             "Balloon"} :
          ~In(x, tasks) /\ ~In(x, tasks')
    BY <1>1, <1>2 DEF In
  <1>5. TypeInv' /\ ListInv'
    BY <1>0, <1>2 DEF IInv, TypeInv, SharedTypes, WorkerTypes, DisplayTypes,
                      ListInv
  <1>6. ThreadInv'
    BY <1>0 DEF IInv, ThreadInv
  <1>7. TooltipInv'
    BY <1>0, <1>3, <1>4 DEF IInv, TooltipInv, TaskNames
  <1>8. WindowInv'
    BY <1>0, <1>2, <1>3, <1>4 DEF WindowInv, TaskNames
  <1>9. NoteInv'
    BY <1>0, <1>1, <1>2 DEF IInv, NoteInv
  <1>10. SettingsInv' /\ ClearInv'
    BY <1>0, <1>4 DEF IInv, SettingsInv, ClearInv, Told, TaskNames
  <1> QED
    BY <1>5, <1>6, <1>7, <1>8, <1>9, <1>10 DEF IInv

(* A message: its handler reads everything again.                          *)
LEMMA MessageStep ==
  ASSUME IInv, HandleMessage
  PROVE  IInv'
  <1>0. /\ ui = "Running" /\ tasks = <<>> /\ queue # <<>>
        /\ queue \in Seq(Messages) /\ Len(queue) <= QueueBound
        /\ queue' = Tail(queue)
        /\ tasks' = Handler(Head(queue))
        /\ UNCHANGED <<stop, manual, settings, clearRequested, interval,
                       keyStored, status, note, misread, total, lastError,
                       wpc, deadline, timed, ui, st, tooltip, visible, window,
                       outcome, issued, shown>>
        /\ heard' = TRUE
    BY DEF HandleMessage, Free, WorkerSide, events, preferences, snapshot,
           database, worker, display, IInv, ListInv, TypeInv, SharedTypes
  <1> DEFINE m == Head(queue)
  <1>1. /\ m \in Messages
        /\ queue' \in Seq(Messages) /\ Len(queue') = Len(queue) - 1
        /\ Len(queue) \in Nat
        /\ In("TOTALS", queue) <=> "TOTALS" = m \/ In("TOTALS", queue')
    BY <1>0, TailElements, InTail, ElementOfSeq
  <1> HIDE DEF m
  <1>2. /\ tasks' \in Seq(TaskNames) /\ Ordered(tasks')
        /\ In("GetStatus", tasks') /\ In("Refresh", tasks')
        /\ ~In("KeyTooltip", tasks') /\ ~In("Show", tasks')
        /\ m = "TOTALS" => In("Balloon", tasks')
    BY <1>0, <1>1, HandlerList DEF m
  <1>3. \A x : ~In(x, tasks)
    BY <1>0, NothingIn
  <1>4. TypeInv' /\ ListInv'
    <2>1. SharedTypes'
      BY <1>0, <1>1, BoundsAssumption DEF IInv, TypeInv, SharedTypes
    <2>2. WorkerTypes' /\ DisplayTypes'
      BY <1>0 DEF IInv, TypeInv, WorkerTypes, DisplayTypes
    <2>3. ListInv'
      BY <1>1, <1>2 DEF ListInv
    <2> QED
      BY <2>1, <2>2, <2>3 DEF TypeInv
  <1>5. ThreadInv'
    BY <1>0 DEF IInv, ThreadInv
  <1>6. TooltipInv' /\ WindowInv'
    BY <1>2 DEF TooltipInv, WindowInv
  <1>7. NoteInv'
    BY <1>0, <1>1, <1>2, <1>3 DEF IInv, NoteInv
  <1>8. SettingsInv' /\ ClearInv'
    BY <1>0, <1>3 DEF IInv, SettingsInv, ClearInv, Told
  <1> QED
    BY <1>4, <1>5, <1>6, <1>7, <1>8 DEF IInv

(* The interface stops the worker and waits for its end.                   *)
LEMMA EndSteps ==
  ASSUME IInv, Stop \/ Joined
  PROVE  IInv'
  <1>1. /\ ui # "Running" /\ ui' \in {"Joining", "Gone"}
        /\ stop' \in {stop, TRUE}
        /\ UNCHANGED <<manual, settings, clearRequested, interval, keyStored,
                       status, note, misread, total, lastError, queue, wpc,
                       deadline, timed, tasks, st, tooltip, visible, window,
                       outcome, issued, shown, heard>>
    BY DEF Stop, Joined, WorkerSide, events, preferences, snapshot, database,
           worker, display
  <1>2. TypeInv' /\ ListInv'
    <2>1. SharedTypes'
      BY <1>1 DEF IInv, TypeInv, SharedTypes
    <2>2. WorkerTypes' /\ DisplayTypes'
      BY <1>1 DEF IInv, TypeInv, WorkerTypes, DisplayTypes
    <2>3. ListInv'
      BY <1>1 DEF IInv, ListInv
    <2> QED
      BY <2>1, <2>2, <2>3 DEF TypeInv
  <1>3. ThreadInv'
    BY <1>1 DEF IInv, ThreadInv
  <1>4. TooltipInv' /\ WindowInv' /\ NoteInv'
    BY <1>1 DEF TooltipInv, WindowInv, NoteInv, Coming
  <1>5. SettingsInv' /\ ClearInv'
    BY <1>1 DEF IInv, SettingsInv, ClearInv, Told
  <1> QED
    BY <1>2, <1>3, <1>4, <1>5 DEF IInv

(* Every step of a handler preserves the invariant.                        *)
LEMMA InterfaceSteps ==
  ASSUME IInv, Interface
  PROVE  IInv'
  BY DisplayTasks, RequestTasks, RefreshStep, MessageStep, EndSteps
  DEF Interface

-----------------------------------------------------------------------------
(* The user.                                                               *)

(* Nothing but tasks that read the window or tell the worker: the tooltip  *)
(* is left alone.                                                          *)
LEMMA WindowActions ==
  ASSUME IInv, ShowSales \/ HideSales \/ SelectPeriod \/ RefreshNow
  PROVE  IInv'
  <1>0. /\ ui = "Running" /\ tasks = <<>>
        /\ UNCHANGED <<stop, manual, settings, clearRequested, interval,
                       keyStored, status, note, misread, total, lastError,
                       queue, wpc, deadline, timed, ui, st, tooltip, window,
                       outcome, issued, shown, heard>>
        /\ \/ tasks' = Reload \o <<"Show">> /\ UNCHANGED visible
           \/ tasks' = <<>> /\ visible' = FALSE
           \/ tasks' = Reload /\ UNCHANGED visible
           \/ tasks' = <<"SetManual">> /\ UNCHANGED visible
           \/ tasks' = <<"SetManual">> \o Reload /\ UNCHANGED visible
    BY DEF ShowSales, HideSales, SelectPeriod, RefreshNow, Start, Free,
           WorkerSide, events, preferences, snapshot, database, worker, display
  <1>1. /\ tasks' \in Seq(TaskNames) /\ Ordered(tasks')
        /\ \A x \in {"SetTooltip", "KeyTooltip"} : ~In(x, tasks')
        /\ \/ In("ReloadList", tasks')
           \/ ~In("Show", tasks') /\ ~visible'
           \/ ~In("Show", tasks') /\ UNCHANGED visible
    <2>1. /\ <<>> \in Seq(TaskNames) /\ Ordered(<<>>)
          /\ \A x : ~In(x, <<>>)
      BY DEF Ordered, In
    <2> QED
      BY <1>0, <2>1, WindowLists
  <1>2. \A x : ~In(x, tasks)
    BY <1>0, NothingIn
  <1>3. Coming' <=> Coming
    BY <1>0, ComingStays
  <1>4. TypeInv' /\ ListInv'
    <2>1. SharedTypes' /\ WorkerTypes'
      BY <1>0 DEF IInv, TypeInv, SharedTypes, WorkerTypes
    <2>2. DisplayTypes'
      BY <1>0 DEF IInv, TypeInv, DisplayTypes
    <2>3. ListInv'
      BY <1>0, <1>1 DEF IInv, ListInv
    <2> QED
      BY <2>1, <2>2, <2>3 DEF TypeInv
  <1>5. ThreadInv'
    BY <1>0 DEF IInv, ThreadInv
  <1>6. TooltipInv'
    BY <1>0, <1>1, <1>2, <1>3 DEF IInv, TooltipInv
  <1>7. WindowInv'
    BY <1>0, <1>1, <1>2, <1>3 DEF IInv, WindowInv
  <1>8. NoteInv'
    BY <1>0, <1>2 DEF IInv, NoteInv
  <1>9. SettingsInv' /\ ClearInv'
    BY <1>0, <1>2 DEF IInv, SettingsInv, ClearInv, Told
  <1> QED
    BY <1>4, <1>5, <1>6, <1>7, <1>8, <1>9 DEF IInv

(* The dialog opens, stores, and reports.                                  *)
LEMMA DialogActions ==
  ASSUME IInv, OpenSettings \/ SaveInterval \/ ChangeKey \/ ClearCache
  PROVE  IInv'
  <1>0. /\ tasks = <<>>
        /\ UNCHANGED <<stop, manual, settings, clearRequested, status, note,
                       misread, total, lastError, queue, wpc, deadline, timed,
                       ui, tasks, st, tooltip, visible, window, issued, shown,
                       heard>>
        /\ interval' \in BOOLEAN /\ keyStored' \in BOOLEAN
        /\ outcome' \in [open : BOOLEAN, key : BOOLEAN, prefs : BOOLEAN,
                         clear : BOOLEAN]
        /\ outcome'.open
        /\ (outcome.prefs \/ interval' # interval) => outcome'.prefs
        /\ (outcome.key \/ keyStored' # keyStored) => outcome'.key
    <2>0. /\ outcome \in [open : BOOLEAN, key : BOOLEAN, prefs : BOOLEAN,
                          clear : BOOLEAN]
          /\ ~outcome.open => outcome = NoOutcome
          /\ interval \in BOOLEAN /\ keyStored \in BOOLEAN
      BY DEF IInv, TypeInv, SharedTypes, DisplayTypes, ThreadInv
    <2> USE DEF Free, WorkerSide, events, preferences, snapshot, database,
                worker, display
    <2>1. CASE OpenSettings
      BY <2>0, <2>1 DEF OpenSettings, Start, NoOutcome
    <2>2. CASE SaveInterval
      BY <2>0, <2>2 DEF SaveInterval, Dialog
    <2>3. CASE ChangeKey
      BY <2>0, <2>3 DEF ChangeKey, Dialog
    <2>4. CASE ClearCache
      BY <2>0, <2>4 DEF ClearCache, Dialog
    <2> QED
      BY <2>1, <2>2, <2>3, <2>4
  <1>1. TypeInv' /\ ListInv'
    <2>1. SharedTypes'
      BY <1>0 DEF IInv, TypeInv, SharedTypes
    <2>2. WorkerTypes' /\ DisplayTypes'
      BY <1>0 DEF IInv, TypeInv, WorkerTypes, DisplayTypes
    <2>3. ListInv'
      BY <1>0 DEF IInv, ListInv
    <2> QED
      BY <2>1, <2>2, <2>3 DEF TypeInv
  <1>2. ThreadInv'
    BY <1>0 DEF IInv, ThreadInv
  <1>3. TooltipInv' /\ WindowInv' /\ NoteInv'
    BY <1>0 DEF IInv, TooltipInv, WindowInv, NoteInv, Coming
  <1>4. SettingsInv' /\ ClearInv'
    BY <1>0 DEF IInv, SettingsInv, ClearInv, Told
  <1> QED
    BY <1>1, <1>2, <1>3, <1>4 DEF IInv

(* The dialog ends: whatever it changed, the worker will be told of.       *)
LEMMA CloseStep ==
  ASSUME IInv, CloseSettings
  PROVE  IInv'
  <1>0. /\ ui = "Running" /\ tasks = <<>>
        /\ tasks' = AfterDialog(outcome) /\ outcome' = NoOutcome
        /\ UNCHANGED <<stop, manual, settings, clearRequested, interval,
                       keyStored, status, note, misread, total, lastError,
                       queue, wpc, deadline, timed, ui, st, tooltip, visible,
                       window, issued, shown, heard>>
    BY DEF CloseSettings, Start, Free, WorkerSide, events, preferences,
           snapshot, database, worker, display
  <1>1. /\ outcome.clear \in BOOLEAN /\ outcome.key \in BOOLEAN
        /\ outcome.prefs \in BOOLEAN
    BY DEF IInv, TypeInv, DisplayTypes
  <1>2. /\ tasks' \in Seq(TaskNames) /\ Ordered(tasks')
        /\ In("ReloadList", tasks') /\ ~In("Show", tasks')
        /\ outcome.clear \/ outcome.key \/ outcome.prefs =>
             In("SetManual", tasks') \/ In("SetSettings", tasks')
        /\ outcome.key => ~In("SetTooltip", tasks')
        /\ ~outcome.key => In("GetStatus", tasks') /\ ~In("KeyTooltip", tasks')
    BY <1>0, <1>1, DialogList
  <1>3. \A x : ~In(x, tasks)
    BY <1>0, NothingIn
  <1>4. Coming' <=> Coming
    BY <1>0, ComingStays
  <1>5. TypeInv' /\ ListInv'
    <2>1. SharedTypes' /\ WorkerTypes'
      BY <1>0 DEF IInv, TypeInv, SharedTypes, WorkerTypes
    <2>2. DisplayTypes'
      BY <1>0 DEF IInv, TypeInv, DisplayTypes, NoOutcome
    <2>3. ListInv'
      BY <1>0, <1>2 DEF IInv, ListInv
    <2> QED
      BY <2>1, <2>2, <2>3 DEF TypeInv
  <1>6. ThreadInv'
    BY <1>0 DEF IInv, ThreadInv
  <1>7. TooltipInv'
    BY <1>0, <1>2, <1>3, <1>4 DEF IInv, TooltipInv
  <1>8. WindowInv' /\ NoteInv'
    BY <1>0, <1>2, <1>3, <1>4 DEF IInv, WindowInv, NoteInv
  <1>9. SettingsInv'
    BY <1>0, <1>2, <1>3 DEF IInv, SettingsInv, Told
  <1>10. ClearInv'
    BY <1>0, <1>3 DEF IInv, ClearInv
  <1> QED
    BY <1>5, <1>6, <1>7, <1>8, <1>9, <1>10 DEF IInv

(* Exit drops the messages that wait, and nothing is promised any more.    *)
LEMMA ExitStep ==
  ASSUME IInv, Exit
  PROVE  IInv'
  <1>0. /\ tasks = <<>> /\ ui' = "Quitting" /\ queue' = <<>>
        /\ tasks' = IF outcome.open THEN AfterDialog(outcome) ELSE <<>>
        /\ outcome' = NoOutcome
        /\ UNCHANGED <<stop, manual, settings, clearRequested, interval,
                       keyStored, status, note, misread, total, lastError,
                       wpc, deadline, timed, st, tooltip, visible, window,
                       issued, shown, heard>>
    BY DEF Exit, Free, WorkerSide, events, preferences, snapshot, database,
           worker, display
  <1>1. /\ outcome.clear \in BOOLEAN /\ outcome.key \in BOOLEAN
        /\ outcome.prefs \in BOOLEAN
        /\ ~outcome.open => ~outcome.prefs /\ ~outcome.key
    BY DEF IInv, TypeInv, DisplayTypes, ThreadInv, NoOutcome
  <1>2. /\ tasks' \in Seq(TaskNames) /\ Ordered(tasks')
        /\ outcome.key \/ outcome.prefs =>
             In("SetManual", tasks') \/ In("SetSettings", tasks')
    <2>1. CASE outcome.open
      BY <1>0, <1>1, <2>1, DialogList
    <2>2. CASE ~outcome.open
      <3>1. <<>> \in Seq(TaskNames) /\ Ordered(<<>>)
        BY DEF Ordered
      <3> QED
        BY <1>0, <1>1, <2>2, <3>1
    <2> QED
      BY <2>1, <2>2
  <1>3. \A x : ~In(x, tasks)
    BY <1>0, NothingIn
  <1>4. TypeInv' /\ ListInv'
    <2>1. SharedTypes' /\ WorkerTypes'
      BY <1>0, BoundsAssumption
      DEF IInv, TypeInv, SharedTypes, WorkerTypes
    <2>2. DisplayTypes'
      BY <1>0 DEF IInv, TypeInv, DisplayTypes, NoOutcome
    <2>3. ListInv'
      BY <1>0, <1>2 DEF ListInv
    <2> QED
      BY <2>1, <2>2, <2>3 DEF TypeInv
  <1>5. ThreadInv'
    BY <1>0 DEF IInv, ThreadInv
  <1>6. TooltipInv' /\ WindowInv' /\ NoteInv'
    BY <1>0 DEF TooltipInv, WindowInv, NoteInv, Coming
  <1>7. SettingsInv'
    BY <1>0, <1>1, <1>2, <1>3 DEF IInv, SettingsInv, Told
  <1>8. ClearInv'
    BY <1>0, <1>3 DEF IInv, ClearInv
  <1> QED
    BY <1>4, <1>5, <1>6, <1>7, <1>8 DEF IInv

(* Everything the user does preserves the invariant.                       *)
LEMMA UserSteps ==
  ASSUME IInv, User
  PROVE  IInv'
  BY WindowActions, DialogActions, CloseStep, ExitStep DEF User

-----------------------------------------------------------------------------
(* The theorems.                                                           *)

(* The invariant holds initially.                                          *)
LEMMA InitInv ==
  ASSUME Init
  PROVE  IInv
  <1>1. /\ tasks = <<>> /\ queue = <<>> /\ ~clearRequested /\ ~heard /\ ~visible
        /\ wpc = "Start" /\ status = "Idle" /\ note = 0 /\ ui = "Running"
        /\ ~stop /\ outcome = NoOutcome /\ total = 0 /\ ~lastError
    BY DEF Init
  <1>2. \A x : ~In(x, tasks)
    BY <1>1, NothingIn
  <1>3. SharedTypes
    <2>1. interval \in BOOLEAN /\ keyStored \in BOOLEAN /\ lastError \in BOOLEAN
          /\ manual \in BOOLEAN /\ settings \in BOOLEAN /\ stop \in BOOLEAN
          /\ clearRequested \in BOOLEAN
      BY DEF Init
    <2>2. total \in 0..MaxTotal /\ Len(queue) <= QueueBound
      BY <1>1, BoundsAssumption
    <2> QED
      BY <1>1, <2>1, <2>2 DEF SharedTypes
  <1>4. WorkerTypes /\ DisplayTypes
    <2>1. st = status /\ deadline = "zero" /\ timed = FALSE /\ issued = 0
          /\ misread \in BOOLEAN
          /\ visible = FALSE /\ shown = {}
      BY DEF Init
    <2>2. window \in [total : 0..MaxTotal, error : BOOLEAN]
      BY BoundsAssumption DEF Init
    <2>3. WorkerTypes
      <3>1. 0 \in 0..MaxNotes /\ "Idle" \in Statuses
        BY BoundsAssumption DEF Statuses
      <3>2. wpc \in Passing \cup {"Start", "Deadline", "Compute", "Waiting",
                                "Stopped"}
        BY <1>1
      <3>3. deadline \in {"zero", "armed", "passed"} /\ timed \in BOOLEAN
        BY <2>1
      <3> QED
        BY <1>1, <2>1, <3>1, <3>2, <3>3 DEF WorkerTypes
    <2>4. DisplayTypes
      BY <1>1, <2>1, <2>2 DEF DisplayTypes, Statuses, NoOutcome
    <2> QED
      BY <2>3, <2>4
  <1>5. ListInv
    BY <1>1 DEF ListInv, Ordered
  <1>6. ThreadInv
    BY <1>1 DEF ThreadInv
  <1>7. TooltipInv /\ WindowInv /\ NoteInv
    BY <1>1, <1>2 DEF TooltipInv, WindowInv, NoteInv
  <1>8. SettingsInv /\ ClearInv
    BY <1>1 DEF SettingsInv, ClearInv
  <1> QED
    BY <1>3, <1>4, <1>5, <1>6, <1>7, <1>8 DEF IInv, TypeInv

(* A step that changes nothing preserves the invariant.                    *)
LEMMA StutterInv ==
  ASSUME IInv, UNCHANGED vars
  PROVE  IInv'
  <1> USE DEF vars, events, snapshot, database, preferences, worker, display,
              history
  <1>1. SharedTypes' /\ WorkerTypes'
    BY DEF IInv, TypeInv, SharedTypes, WorkerTypes
  <1>2. DisplayTypes' /\ ListInv' /\ ThreadInv'
    BY DEF IInv, TypeInv, DisplayTypes, ListInv, ThreadInv
  <1>3. TooltipInv' /\ WindowInv' /\ NoteInv'
    BY DEF IInv, TooltipInv, WindowInv, NoteInv, Coming
  <1>4. SettingsInv' /\ ClearInv'
    BY DEF IInv, SettingsInv, ClearInv, Told
  <1> QED
    BY <1>1, <1>2, <1>3, <1>4 DEF IInv, TypeInv

(* The invariant holds always.                                             *)
LEMMA Invariance == Spec => []IInv
  <1>1. IInv /\ [Next]_vars => IInv'
    BY WorkerSteps, InterfaceSteps, UserSteps, StutterInv DEF Next
  <1> QED
    BY InitInv, <1>1, PTL DEF Spec

(* Every variable keeps its type, and a destroyed window has no messages.  *)
THEOREM AppTypeCorrect == Spec => []TypeOK
  <1>1. IInv => TypeOK
    <2> SUFFICES ASSUME IInv
                 PROVE  TypeOK
      OBVIOUS
    <2>1. SharedTypes /\ WorkerTypes /\ DisplayTypes
      BY DEF IInv, TypeInv
    <2> QED
      BY <2>1, Zenon DEF TypeOK, SharedTypes, WorkerTypes, DisplayTypes, Passing
  <1> QED
    BY Invariance, <1>1, PTL

(* When both threads rest and nothing is requested, the tooltip and a      *)
(* visible window show what is stored, however the messages, the readings  *)
(* and the end of the dialog fell.                                         *)
THEOREM DisplayCatchesUp == Spec => []DisplayIsCurrent
  <1>1. IInv => DisplayIsCurrent
    <2> SUFFICES ASSUME IInv, NoRequest
                 PROVE  /\ status # "Syncing"
                        /\ heard => tooltip = Tip(status, total)
                        /\ visible =>
                             window = [total |-> total, error |-> lastError]
      BY DEF DisplayIsCurrent
    <2>1. /\ ui = "Running" /\ tasks = <<>> /\ queue = <<>> /\ wpc = "Waiting"
          /\ ~manual /\ ~settings
      BY DEF NoRequest, Quiet, Free
    <2>2. ~Coming /\ \A x : ~In(x, tasks)
      BY <2>1, NothingIn DEF Coming, Passing
    <2>3. status # "Syncing"
      BY <2>1 DEF IInv, ThreadInv, SyncingAt
    <2>4. heard => tooltip = Tip(status, total)
      BY <2>2 DEF IInv, TooltipInv
    <2>5. visible => window.total = total /\ window.error = lastError
      BY <2>2 DEF IInv, WindowInv
    <2>6. window \in [total : 0..MaxTotal, error : BOOLEAN]
      BY DEF IInv, TypeInv, DisplayTypes
    <2> QED
      BY <2>3, <2>4, <2>5, <2>6
  <1> QED
    BY Invariance, <1>1, PTL

(* When both threads rest, the last notification built has been shown.     *)
THEOREM NotificationIsShown == Spec => []LastNotificationShown
  <1>1. IInv => LastNotificationShown
    BY NothingIn DEF IInv, NoteInv, LastNotificationShown, Quiet, Free
  <1> QED
    BY Invariance, <1>1, PTL

(* When both threads rest and nothing is requested, the worker sleeps as   *)
(* the stored preferences and the stored key say.                          *)
THEOREM WorkerCatchesUp == Spec => []WorkerFollowsSettings
  <1>1. IInv => WorkerFollowsSettings
    <2> SUFFICES ASSUME IInv, NoRequest, ~outcome.open
                 PROVE  /\ timed = interval
                        /\ timed => deadline # "zero"
                        /\ status = "MissingApiKey" => ~keyStored \/ misread
      BY DEF WorkerFollowsSettings
    <2>1. tasks = <<>> /\ wpc = "Waiting" /\ ~manual /\ ~settings
      BY DEF NoRequest, Quiet, Free
    <2>2. ~outcome.prefs /\ ~outcome.key
      BY DEF IInv, ThreadInv, NoOutcome
    <2>3. ~Told(outcome.prefs) /\ ~Told(outcome.key)
      BY <2>1, <2>2, NothingIn DEF Told
    <2> QED
      BY <2>1, <2>3 DEF IInv, SettingsInv
  <1> QED
    BY Invariance, <1>1, PTL

(* When both threads rest and nothing is requested, a request to clear the *)
(* cache has been taken, or the database could not be opened.              *)
THEOREM ClearIsTaken == Spec => []ClearIsNotForgotten
  <1>1. IInv => ClearIsNotForgotten
    BY NothingIn DEF IInv, ClearInv, ClearIsNotForgotten, NoRequest, Quiet, Free
  <1> QED
    BY Invariance, <1>1, PTL

=============================================================================
