--------------------------- MODULE SettingsDialog ---------------------------
(***************************************************************************)
(* The settings dialog (ui/SettingsDialog.cpp), the preferences it writes  *)
(* (storage/SettingsStore.cpp, platform/StartupManager.cpp) and what the   *)
(* application does when it returns (App::OnSettings).                     *)
(*                                                                         *)
(* The dialog and its message boxes are modal, but each runs a message     *)
(* loop: the tray menu, or a second start with --settings, opens another   *)
(* dialog on top.  All open dialogs take input, and the call of a dialog   *)
(* or a box returns only when it is the innermost one ("stack").           *)
(*                                                                         *)
(* A preference is a number; a check box is 0 or 1.  SkipStartup and       *)
(* ForgetChanges are faulty variants of the definition that follows each;  *)
(* no action uses them.                                                    *)
(***************************************************************************)
EXTENDS Naturals, Sequences

CONSTANTS Prefs,         \* the preferences of an instance
          Intervals,     \* contents of the registry value of the interval
          Keys, NoKey,   \* keys the user enters
          MaxDialogs     \* bound on the dialogs open at once

ASSUME PrefsAssumption ==
  Prefs \subseteq {"interval", "notify", "startup", "hideLifetime"}
ASSUME IntervalsAssumption == Intervals \subseteq Nat
ASSUME KeysAssumption == NoKey \notin Keys
ASSUME MaxDialogsAssumption == MaxDialogs \in Nat \ {0}

VARIABLES registry,  \* the stored preferences
          keyFile,   \* the stored key
          dialogs,   \* the open dialogs, the outermost first
          stack,     \* the modal calls, the innermost last
          unheard    \* history: changes that nobody was told of yet

vars == <<registry, keyFile, dialogs, stack, unheard>>

(* GetRefreshInterval takes anything else for the default.                 *)
ValidIntervals == {0, 15, 30, 60, 120, 360}
DefaultInterval == 30

Read(stored) ==
  [p \in Prefs |->
     IF p = "interval" /\ stored[p] \notin ValidIntervals
     THEN DefaultInterval ELSE stored[p]]

Values(p) == IF p = "interval" THEN Intervals ELSE 0..1

Choices(p) == Values(p) \cap IF p = "interval" THEN ValidIntervals ELSE 0..1

Registries ==
  {r \in [Prefs -> Intervals \cup 0..1] : \A p \in Prefs : r[p] \in Values(p)}

(* SettingsOutcome.                                                        *)
NoChange == [key |-> FALSE, clear |-> FALSE, prefs |-> FALSE,
             saved |-> FALSE]

(* "failed" (history): a write of the save that ended the dialog failed.   *)
NewDialog == [initial |-> Read(registry), controls |-> Read(registry),
              edit |-> NoKey, outcome |-> NoChange, ended |-> FALSE,
              failed |-> FALSE]

(* A dialog that has ended leaves only its outcome behind.                 *)
Ended(outcome, failed) ==
  [initial |-> <<>>, controls |-> <<>>, edit |-> NoKey, outcome |-> outcome,
   ended |-> TRUE, failed |-> failed]

Init ==
  /\ registry \in Registries
  /\ keyFile \in Keys \cup {NoKey}
  /\ dialogs = <<>>
  /\ stack = <<>>
  /\ unheard = {}

-----------------------------------------------------------------------------
Frame(call, i) == [call |-> call, of |-> i]

Innermost(call, i) ==
  /\ stack # <<>>
  /\ stack[Len(stack)] = Frame(call, i)

Pop == stack' = SubSeq(stack, 1, Len(stack) - 1)

(* A dialog takes input while it is open and shows no message box.         *)
TakesInput(i) ==
  /\ ~dialogs[i].ended
  /\ \A f \in DOMAIN stack : stack[f].of = i => stack[f].call = "dialog"

OnInitDialog ==
  /\ Len(dialogs) < MaxDialogs
  /\ dialogs' = Append(dialogs, NewDialog)
  /\ stack' = Append(stack, Frame("dialog", Len(dialogs) + 1))
  /\ UNCHANGED <<registry, keyFile, unheard>>

Change(i, p, v) ==
  /\ TakesInput(i)
  /\ dialogs' = [dialogs EXCEPT ![i].controls[p] = v]
  /\ UNCHANGED <<registry, keyFile, stack, unheard>>

Type(i, k) ==
  /\ TakesInput(i)
  /\ dialogs' = [dialogs EXCEPT ![i].edit = k]
  /\ UNCHANGED <<registry, keyFile, stack, unheard>>

(* OnClearCache and OnRemoveKey ask first; a key is looked for before the  *)
(* question.                                                               *)
Ask(i, question) ==
  /\ TakesInput(i)
  /\ question = "remove" => keyFile # NoKey
  /\ stack' = Append(stack, Frame(question, i))
  /\ UNCHANGED <<registry, keyFile, dialogs, unheard>>

AnswerNo(i) ==
  /\ Innermost("clear", i) \/ Innermost("remove", i)
  /\ Pop
  /\ UNCHANGED <<registry, keyFile, dialogs, unheard>>

OnClearCache(i) ==
  /\ Innermost("clear", i)
  /\ Pop
  /\ dialogs' = [dialogs EXCEPT ![i].outcome.clear = TRUE]
  /\ unheard' = unheard \cup {"clear"}
  /\ UNCHANGED <<registry, keyFile>>

(* Remove succeeds also when the file is gone by now.                      *)
OnRemoveKey(i) ==
  /\ Innermost("remove", i)
  /\ Pop
  /\ keyFile' = NoKey
  /\ dialogs' = [dialogs EXCEPT ![i].outcome.key = TRUE]
  /\ unheard' = unheard \cup {"key"}
  /\ UNCHANGED registry

-----------------------------------------------------------------------------
(* OnSave.                                                                 *)

Changed(i) == {p \in Prefs : dialogs[i].controls[p] # dialogs[i].initial[p]}

SkipStartup(i, failing) ==
  registry' = [p \in Prefs |-> IF p \in Changed(i) \ (failing \cup {"startup"})
                               THEN dialogs[i].controls[p] ELSE registry[p]]

(* The result of a write is ignored.                                       *)
WritePreferences(i, failing) ==
  registry' = [p \in Prefs |-> IF p \in Changed(i) \ failing
                               THEN dialogs[i].controls[p] ELSE registry[p]]

ForgetChanges(i) == dialogs[i].outcome

(* hideLifetime needs no synchronization.                                  *)
WithPreferences(i) ==
  [dialogs[i].outcome EXCEPT !.prefs = @ \/ Changed(i) \ {"hideLifetime"} # {}]

(* The preferences are written first.                                      *)
BeginSave(i, failing) ==
  /\ TakesInput(i)
  /\ failing \subseteq Changed(i)
  /\ WritePreferences(i, failing)
  /\ UNCHANGED stack

UnheardPreferences(i) ==
  (IF Changed(i) \ {"hideLifetime"} # {} THEN {"prefs"} ELSE {})
    \cup (IF "hideLifetime" \in Changed(i) THEN {"display"} ELSE {})

(* The validator rejects the key, or it cannot be stored: the dialog stays *)
(* open with what it has written.                                          *)
SaveRefused(i, failing) ==
  /\ BeginSave(i, failing)
  /\ dialogs[i].edit # NoKey
  /\ dialogs' = [dialogs EXCEPT ![i].outcome = WithPreferences(i)]
  /\ unheard' = unheard \cup UnheardPreferences(i)
  /\ UNCHANGED keyFile

(* A key that the validator accepts or cannot test is stored; an empty     *)
(* edit keeps the stored key.                                              *)
Save(i, failing) ==
  /\ BeginSave(i, failing)
  /\ LET newKey == dialogs[i].edit # NoKey
         outcome == WithPreferences(i)
     IN /\ dialogs' = [dialogs EXCEPT ![i] =
                         Ended([outcome EXCEPT !.key = @ \/ newKey,
                                                  !.saved = TRUE],
                               failing # {})]
        /\ keyFile' = IF newKey THEN dialogs[i].edit ELSE keyFile
        /\ unheard' = unheard \cup UnheardPreferences(i)
                        \cup IF newKey THEN {"key"} ELSE {}

Cancel(i) ==
  /\ TakesInput(i)
  /\ dialogs' = [dialogs EXCEPT ![i] =
                   Ended(dialogs[i].outcome, FALSE)]
  /\ UNCHANGED <<registry, keyFile, stack, unheard>>

-----------------------------------------------------------------------------
(* App::OnSettings after the dialog: what the worker is told makes it read *)
(* the key and the preferences again; the windows are always redrawn.      *)

Notify(o) == IF o.clear THEN {"clear", "key", "prefs", "display"}
             ELSE IF o.key \/ o.prefs THEN {"key", "prefs", "display"}
             ELSE {"display"}

Return(i) ==
  /\ Innermost("dialog", i)
  /\ dialogs[i].ended
  /\ Pop
  /\ dialogs' = SubSeq(dialogs, 1, i - 1)
  /\ unheard' = unheard \ Notify(dialogs[i].outcome)
  /\ UNCHANGED <<registry, keyFile>>

Next ==
  \/ OnInitDialog
  \/ \E i \in DOMAIN dialogs :
       \/ \E p \in Prefs : \E v \in Choices(p) : Change(i, p, v)
       \/ \E k \in Keys \cup {NoKey} : Type(i, k)
       \/ Ask(i, "clear") \/ Ask(i, "remove") \/ AnswerNo(i)
       \/ OnClearCache(i) \/ OnRemoveKey(i)
       \/ \E failing \in SUBSET Prefs :
            SaveRefused(i, failing) \/ Save(i, failing)
       \/ Cancel(i) \/ Return(i)

Spec == Init /\ [][Next]_vars

-----------------------------------------------------------------------------
(* Every variable keeps its type; a dialog offers the interval it shows    *)
(* and its call has not returned.                                          *)
TypeOK ==
  /\ registry \in Registries
  /\ keyFile \in Keys \cup {NoKey}
  /\ Len(dialogs) <= MaxDialogs
  /\ \A i \in DOMAIN dialogs :
       /\ ~dialogs[i].ended => \A p \in Prefs :
            dialogs[i].controls[p] \in Choices(p) \cup
              IF p = "interval" THEN {DefaultInterval} ELSE {}
       /\ dialogs[i].edit \in Keys \cup {NoKey}
       /\ dialogs[i].outcome \in [key : BOOLEAN, clear : BOOLEAN,
                                     prefs : BOOLEAN, saved : BOOLEAN]
       /\ dialogs[i].failed \in BOOLEAN
       /\ \E f \in DOMAIN stack : stack[f] = Frame("dialog", i)
  /\ unheard \subseteq {"key", "clear", "prefs", "display"}

(* When the last dialog has returned, the worker and the windows have been *)
(* told of every change of the key and of the preferences and of every     *)
(* request to clear the cache, also of changes made by a save that was     *)
(* refused and by a dialog that was cancelled, and whatever dialogs were   *)
(* open at once.                                                           *)
EveryChangeIsTold == dialogs = <<>> => unheard = {}

Saved(i) ==
  /\ i \in DOMAIN dialogs'
  /\ dialogs'[i].outcome.saved /\ ~dialogs[i].outcome.saved
  /\ ~dialogs'[i].failed

(* A save whose writes succeed leaves stored what the dialog shows, if the *)
(* dialog still knows what was stored before, also over a stored interval  *)
(* that is not valid.                                                      *)
SaveStoresControls ==
  [][\A i \in DOMAIN dialogs :
       Saved(i) /\ dialogs[i].initial = Read(registry)
         => Read(registry') = dialogs[i].controls]_vars

(* "1) Persist non-secret preferences." (SettingsDialog.cpp:202): also     *)
(* after a save that was refused.  Does not hold: the initial values the   *)
(* controls are compared with are not those that the refused save stored,  *)
(* so that a preference changed back is not written.                       *)
SavedPreferencesStored ==
  [][\A i \in DOMAIN dialogs :
       Saved(i) => Read(registry') = dialogs[i].controls]_vars
=============================================================================
