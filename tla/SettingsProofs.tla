--------------------------- MODULE SettingsProofs ---------------------------
(***************************************************************************)
(* Proofs about SettingsDialog, for any preferences, contents of the       *)
(* registry and keys and any number of dialogs that are open at once, and  *)
(* about the file that keeps the key it stores (SecretStore), for any keys.*)
(*                                                                         *)
(* The inductive invariant of the dialogs has three layers: what an open   *)
(* dialog shows (DialogInv), the order of the modal calls (StackInv), from *)
(* which it follows that the call that returns is that of the last dialog, *)
(* and that a change nobody was told of is in the outcome of an open dialog*)
(* (HeardInv).                                                             *)
(*                                                                         *)
(* That of the key file adds to the properties what each step of Store     *)
(* relies on: what is in the temporary file, and that the old file is still*)
(* in place while a Store runs (SavingInv).                                *)
(***************************************************************************)
EXTENDS SettingsDialog, SecretStore, TLAPS

Shown(p) == Choices(p) \cup IF p = "interval" THEN {DefaultInterval} ELSE {}

Outcomes == [key : BOOLEAN, clear : BOOLEAN, prefs : BOOLEAN, saved : BOOLEAN]

Settings == [Prefs -> Nat]

(* An ended dialog leaves <<>> for its controls.                           *)
Dialog == [initial : Settings \cup {<<>>}, controls : Settings \cup {<<>>},
           edit : Keys \cup {NoKey}, outcome : Outcomes, ended : BOOLEAN,
           failed : BOOLEAN]

(* A control shows a value that can be chosen or the one it opened with.   *)
ShowsValues(d) ==
  ~d.ended =>
    /\ d.initial \in Settings
    /\ d.controls \in Settings
    /\ \A p \in Prefs : /\ d.initial[p] \in Shown(p)
                        /\ d.controls[p] \in Choices(p) \cup {d.initial[p]}

DialogInv ==
  /\ dialogs \in Seq(Dialog)
  /\ Len(dialogs) <= MaxDialogs
  /\ \A i \in DOMAIN dialogs : ShowsValues(dialogs[i])

StoreInv == registry \in Registries /\ keyFile \in Keys \cup {NoKey}

Frames == [call : {"dialog", "clear", "remove"}, of : Nat]

(* Each open dialog has one call; later dialogs have later calls, and the  *)
(* boxes of a dialog come after its call.                                  *)
StackInv ==
  /\ stack \in Seq(Frames)
  /\ \A g \in 1..Len(stack) :
       /\ stack[g].of \in 1..Len(dialogs)
       /\ \E f \in 1..g : stack[f] = Frame("dialog", stack[g].of)
  /\ \A i \in 1..Len(dialogs) :
       \E f \in 1..Len(stack) : stack[f] = Frame("dialog", i)
  /\ \A f, g \in 1..Len(stack) :
       f < g /\ stack[f].call = "dialog" /\ stack[g].call = "dialog"
         => stack[f].of < stack[g].of

(* OnSettings will tell of every change when some open dialog returns.     *)
HeardInv ==
  \A c \in unheard :
    /\ c \in {"key", "clear", "prefs", "display"}
    /\ \E i \in 1..Len(dialogs) : c \in Notify(dialogs[i].outcome)

IInv == DialogInv /\ StoreInv /\ StackInv /\ HeardInv

-----------------------------------------------------------------------------
(* Values and outcomes.                                                    *)

(* The values of a preference are numbers.                                 *)
LEMMA ValuesAreNumbers ==
  ASSUME NEW p \in Prefs
  PROVE  Values(p) \subseteq Nat /\ Shown(p) \subseteq Nat
         /\ Choices(p) \subseteq Values(p)
  BY IntervalsAssumption DEF Values, Shown, Choices, ValidIntervals,
     DefaultInterval

(* What a new dialog shows is what it reads from the registry.             *)
LEMMA ReadShows ==
  ASSUME NEW r \in Registries
  PROVE  Read(r) \in Settings /\ \A p \in Prefs : Read(r)[p] \in Shown(p)
  <1>1. ASSUME NEW p \in Prefs
        PROVE  Read(r)[p] \in Shown(p)
    <2>1. r[p] \in Values(p)
      BY DEF Registries
    <2>2. CASE p = "interval" /\ r[p] \notin ValidIntervals
      BY <2>2 DEF Read, Shown
    <2>3. CASE p = "interval" /\ r[p] \in ValidIntervals
      BY <2>1, <2>3 DEF Read, Shown, Choices, Values
    <2>4. CASE p # "interval"
      BY <2>1, <2>4 DEF Read, Shown, Choices, Values
    <2> QED
      BY <2>2, <2>3, <2>4
  <1>2. Read(r) = [p \in Prefs |-> Read(r)[p]]
    BY DEF Read
  <1> QED
    BY <1>1, <1>2, ValuesAreNumbers DEF Settings

(* An outcome that reports more tells of more.                             *)
LEMMA NotifyGrows ==
  ASSUME NEW o \in Outcomes, NEW n \in Outcomes,
         o.key => n.key, o.clear => n.clear, o.prefs => n.prefs
  PROVE  Notify(o) \subseteq Notify(n)
  BY DEF Outcomes, Notify

(* What OnSettings tells the worker of, by the fields of the outcome.      *)
LEMMA NotifyTells ==
  ASSUME NEW o \in Outcomes
  PROVE  /\ "display" \in Notify(o)
         /\ o.key \/ o.prefs => {"key", "prefs"} \subseteq Notify(o)
         /\ o.clear => "clear" \in Notify(o)
         /\ Notify(o) \subseteq {"key", "clear", "prefs", "display"}
  BY DEF Outcomes, Notify

-----------------------------------------------------------------------------
(* A step that replaces the record of one dialog.                          *)

(* The record of one dialog is replaced by another.                        *)
LEMMA ReplaceDialog ==
  ASSUME NEW s \in Seq(Dialog), NEW i \in 1..Len(s), NEW d \in Dialog
  PROVE  /\ [s EXCEPT ![i] = d] \in Seq(Dialog)
         /\ Len([s EXCEPT ![i] = d]) = Len(s)
         /\ \A j \in 1..Len(s) :
              [s EXCEPT ![i] = d][j] = IF j = i THEN d ELSE s[j]
  OBVIOUS

(* The call stack does not look into the dialogs.                          *)
LEMMA StackStays ==
  ASSUME IInv, UNCHANGED stack, Len(dialogs') = Len(dialogs)
  PROVE  StackInv'
  BY DEF IInv, StackInv, Frame

(* A step that changes one dialog, keeps what its outcome tells of and adds*)
(* only changes it tells of, keeps what is said of the dialogs.            *)
LEMMA OneDialogChanges ==
  ASSUME IInv, NEW i \in 1..Len(dialogs), NEW d \in Dialog,
         ShowsValues(d),
         Notify(dialogs[i].outcome) \subseteq Notify(d.outcome),
         dialogs' = [dialogs EXCEPT ![i] = d],
         NEW more \in SUBSET Notify(d.outcome),
         unheard' = unheard \cup more
  PROVE  DialogInv' /\ HeardInv' /\ Len(dialogs') = Len(dialogs)
  <1>1. /\ dialogs' \in Seq(Dialog)
        /\ Len(dialogs') = Len(dialogs)
        /\ \A j \in 1..Len(dialogs) :
             dialogs'[j] = IF j = i THEN d ELSE dialogs[j]
    BY ReplaceDialog DEF IInv, DialogInv
  <1>2. DialogInv'
    BY <1>1 DEF IInv, DialogInv
  <1>3. ASSUME NEW c \in unheard'
        PROVE  /\ c \in {"key", "clear", "prefs", "display"}
               /\ \E j \in 1..Len(dialogs') : c \in Notify(dialogs'[j].outcome)
    <2>1. CASE c \in more
      <3>1. d.outcome \in Outcomes
        BY DEF Dialog
      <3> QED
        BY <1>1, <2>1, <3>1, NotifyTells
    <2>2. CASE c \in unheard
      <3>1. PICK j \in 1..Len(dialogs) : c \in Notify(dialogs[j].outcome)
        BY <2>2 DEF IInv, HeardInv
      <3>2. c \in Notify(dialogs'[j].outcome)
        BY <1>1, <3>1
      <3> QED
        BY <1>1, <2>2, <3>2 DEF IInv, HeardInv
    <2> QED
      BY <2>1, <2>2
  <1>4. HeardInv'
    BY <1>3 DEF HeardInv
  <1> QED
    BY <1>1, <1>2, <1>4

-----------------------------------------------------------------------------
(* The calls.                                                              *)

(* A message box opens above the call of its dialog.                       *)
LEMMA BoxOpens ==
  ASSUME IInv, NEW i \in DOMAIN dialogs, NEW question \in {"clear", "remove"},
         Ask(i, question)
  PROVE  IInv'
  <1>1. StackInv'
    <2>1. i \in 1..Len(dialogs) /\ Len(dialogs) \in Nat /\ Len(stack) \in Nat
      BY DEF IInv, DialogInv, StackInv
    <2>2. /\ stack' \in Seq(Frames)
          /\ Len(stack') = Len(stack) + 1
          /\ \A f \in 1..Len(stack) : stack'[f] = stack[f]
          /\ stack'[Len(stack) + 1] = Frame(question, i)
      <3>1. stack \in Seq(Frames) /\ Frame(question, i) \in Frames
        BY <2>1 DEF IInv, StackInv, Frame, Frames
      <3> QED
        BY <3>1 DEF Ask
    <2>3. ASSUME NEW j \in 1..Len(dialogs)
          PROVE  \E f \in 1..Len(stack) : /\ stack[f] = Frame("dialog", j)
                                          /\ stack'[f] = Frame("dialog", j)
                                          /\ f \in 1..Len(stack')
      <3>1. PICK f \in 1..Len(stack) : stack[f] = Frame("dialog", j)
        BY DEF IInv, StackInv
      <3> QED
        BY <2>1, <2>2, <3>1
    <2>4. ASSUME NEW g \in 1..Len(stack')
          PROVE  /\ stack'[g].of \in 1..Len(dialogs)
                 /\ \E f \in 1..g : stack'[f] = Frame("dialog", stack'[g].of)
      <3>1. CASE g = Len(stack) + 1
        <4>1. stack'[g].of = i
          BY <2>2, <3>1 DEF Frame
        <4>2. PICK f \in 1..Len(stack) : stack'[f] = Frame("dialog", i)
          BY <2>1, <2>3
        <4>3. f \in 1..g
          BY <2>1, <3>1
        <4> QED
          BY <2>1, <4>1, <4>2, <4>3
      <3>2. CASE g \in 1..Len(stack)
        <4>1. stack'[g] = stack[g] /\ stack[g].of \in 1..Len(dialogs)
          BY <2>2, <3>2 DEF IInv, StackInv
        <4>2. PICK f \in 1..g : stack[f] = Frame("dialog", stack[g].of)
          BY <3>2 DEF IInv, StackInv
        <4>3. stack'[f] = stack[f]
          BY <2>1, <2>2, <3>2
        <4> QED
          BY <4>1, <4>2, <4>3
      <3> QED
        BY <2>1, <2>2, <3>1, <3>2
    <2>5. \A f \in 1..Len(stack') :
            stack'[f].call = "dialog" => f \in 1..Len(stack)
                                         /\ stack'[f] = stack[f]
      BY <2>1, <2>2 DEF Frame
    <2>6. dialogs' = dialogs
      BY DEF Ask
    <2> QED
      BY <2>2, <2>3, <2>4, <2>5, <2>6 DEF IInv, StackInv
  <1> QED
    BY <1>1 DEF IInv, DialogInv, StoreInv, HeardInv, Ask, ShowsValues

(* A prefix of a sequence.                                                 *)
LEMMA PrefixOf ==
  ASSUME NEW S, NEW s \in Seq(S), NEW n \in Nat, n <= Len(s)
  PROVE  /\ SubSeq(s, 1, n) \in Seq(S)
         /\ Len(SubSeq(s, 1, n)) = n
         /\ \A j \in 1..n : SubSeq(s, 1, n)[j] = s[j]
  OBVIOUS

(* A box is no dialog's call, so that what is left keeps the order.        *)
LEMMA BoxReturns ==
  ASSUME IInv, NEW i \in DOMAIN dialogs,
         Innermost("clear", i) \/ Innermost("remove", i), Pop,
         Len(dialogs') = Len(dialogs)
  PROVE  StackInv'
  <1>1. /\ stack \in Seq(Frames)
        /\ Len(stack) \in Nat \ {0}
        /\ stack[Len(stack)].call # "dialog"
    BY DEF IInv, StackInv, Innermost, Frame
  <1>2. /\ stack' \in Seq(Frames)
        /\ Len(stack') = Len(stack) - 1
        /\ \A f \in 1..Len(stack') : stack'[f] = stack[f]
    <2>1. Len(stack) - 1 \in Nat /\ Len(stack) - 1 <= Len(stack)
      BY <1>1
    <2> QED
      BY <1>1, <2>1, PrefixOf DEF Pop
  <1>3. ASSUME NEW j \in 1..Len(dialogs)
        PROVE  \E f \in 1..Len(stack') : stack'[f] = Frame("dialog", j)
    <2>1. PICK f \in 1..Len(stack) : stack[f] = Frame("dialog", j)
      BY DEF IInv, StackInv
    <2>2. f # Len(stack)
      BY <1>1, <2>1 DEF Frame
    <2>3. f \in 1..Len(stack')
      BY <1>1, <1>2, <2>2
    <2> QED
      BY <1>2, <2>1, <2>3
  <1>4. ASSUME NEW g \in 1..Len(stack')
        PROVE  /\ stack'[g].of \in 1..Len(dialogs)
               /\ \E f \in 1..g : stack'[f] = Frame("dialog", stack'[g].of)
    <2>1. g \in 1..Len(stack) /\ \A f \in 1..g : f \in 1..Len(stack')
      BY <1>1, <1>2
    <2> QED
      BY <1>2, <2>1 DEF IInv, StackInv
  <1>5. \A f \in 1..Len(stack') : f \in 1..Len(stack)
    BY <1>1, <1>2
  <1> QED
    BY <1>2, <1>3, <1>4, <1>5 DEF IInv, StackInv

(* The dialog whose call returns is the last one.                          *)
LEMMA LastReturns ==
  ASSUME IInv, NEW i \in DOMAIN dialogs, Return(i)
  PROVE  i = Len(dialogs)
  <1>1. /\ Len(dialogs) \in Nat
        /\ i \in 1..Len(dialogs)
        /\ Len(stack) \in Nat
        /\ stack[Len(stack)] = Frame("dialog", i)
    BY DEF IInv, DialogInv, StackInv, Return, Innermost
  <1>2. PICK f \in 1..Len(stack) : stack[f] = Frame("dialog", Len(dialogs))
    <2>1. Len(dialogs) \in 1..Len(dialogs)
      BY <1>1
    <2> QED
      BY <2>1 DEF IInv, StackInv
  <1>3. f < Len(stack) => Len(dialogs) < i
    BY <1>1, <1>2 DEF IInv, StackInv, Frame
  <1>4. f = Len(stack) => Len(dialogs) = i
    BY <1>1, <1>2 DEF Frame
  <1> QED
    BY <1>1, <1>2, <1>3, <1>4

(* A new dialog is the last one, with a call of its own.                   *)
LEMMA DialogOpens ==
  ASSUME IInv, OnInitDialog
  PROVE  IInv'
  <1>1. /\ NewDialog \in Dialog
        /\ ShowsValues(NewDialog)
    <2>1. registry \in Registries
      BY DEF IInv, StoreInv
    <2>2. NoChange \in Outcomes
      BY DEF NoChange, Outcomes
    <2> QED
      BY <2>1, <2>2, ReadShows DEF NewDialog, Dialog, ShowsValues
  <1>2. /\ dialogs' \in Seq(Dialog)
        /\ Len(dialogs') = Len(dialogs) + 1
        /\ \A j \in 1..Len(dialogs) : dialogs'[j] = dialogs[j]
        /\ dialogs'[Len(dialogs) + 1] = NewDialog
    BY <1>1 DEF IInv, DialogInv, OnInitDialog
  <1>3. DialogInv'
    <2>1. Len(dialogs') <= MaxDialogs
      BY <1>2, MaxDialogsAssumption DEF OnInitDialog, IInv, DialogInv
    <2>2. ASSUME NEW j \in 1..Len(dialogs')
          PROVE  ShowsValues(dialogs'[j])
      BY <1>1, <1>2 DEF IInv, DialogInv
    <2> QED
      BY <1>2, <2>1, <2>2 DEF DialogInv
  <1>4. StackInv'
    <2>1. Len(dialogs) \in Nat /\ Len(stack) \in Nat
      BY DEF IInv, DialogInv, StackInv
    <2>2. /\ stack' \in Seq(Frames)
          /\ Len(stack') = Len(stack) + 1
          /\ \A f \in 1..Len(stack) : stack'[f] = stack[f]
          /\ stack'[Len(stack) + 1] = Frame("dialog", Len(dialogs) + 1)
      <3>1. stack \in Seq(Frames) /\ Frame("dialog", Len(dialogs) + 1) \in Frames
        BY <2>1 DEF IInv, StackInv, Frame, Frames
      <3> QED
        BY <3>1 DEF OnInitDialog
    <2>3. ASSUME NEW g \in 1..Len(stack')
          PROVE  /\ stack'[g].of \in 1..Len(dialogs')
                 /\ \E f \in 1..g : stack'[f] = Frame("dialog", stack'[g].of)
      <3>1. CASE g = Len(stack) + 1
        BY <1>2, <2>1, <2>2, <3>1 DEF Frame
      <3>2. CASE g \in 1..Len(stack)
        <4>1. stack'[g] = stack[g] /\ stack[g].of \in 1..Len(dialogs)
          BY <2>2, <3>2 DEF IInv, StackInv
        <4>2. PICK f \in 1..g : stack[f] = Frame("dialog", stack[g].of)
          BY <3>2 DEF IInv, StackInv
        <4>3. f \in 1..Len(stack)
          BY <2>1, <3>2
        <4> QED
          BY <1>2, <2>1, <2>2, <4>1, <4>2, <4>3
      <3> QED
        BY <2>1, <2>2, <3>1, <3>2
    <2>4. ASSUME NEW i \in 1..Len(dialogs')
          PROVE  \E f \in 1..Len(stack') : stack'[f] = Frame("dialog", i)
      <3>1. CASE i = Len(dialogs) + 1
        BY <2>1, <2>2, <3>1
      <3>2. CASE i \in 1..Len(dialogs)
        <4>1. PICK f \in 1..Len(stack) : stack[f] = Frame("dialog", i)
          BY <3>2 DEF IInv, StackInv
        <4>2. f \in 1..Len(stack')
          BY <2>1, <2>2
        <4> QED
          BY <2>2, <4>1, <4>2
      <3> QED
        BY <1>2, <2>1, <3>1, <3>2
    <2>5. ASSUME NEW f \in 1..Len(stack'), NEW g \in 1..Len(stack'), f < g,
                 stack'[f].call = "dialog", stack'[g].call = "dialog"
          PROVE  stack'[f].of < stack'[g].of
      <3>1. f \in 1..Len(stack) /\ stack[f].of \in 1..Len(dialogs)
        BY <2>1, <2>2, <2>5 DEF IInv, StackInv
      <3>2. CASE g = Len(stack) + 1
        BY <2>1, <2>2, <3>1, <3>2 DEF Frame
      <3>3. CASE g \in 1..Len(stack)
        BY <2>2, <2>5, <3>1, <3>3 DEF IInv, StackInv
      <3> QED
        BY <2>1, <2>2, <3>2, <3>3
    <2> QED
      BY <2>2, <2>3, <2>4, <2>5 DEF StackInv
  <1>5. HeardInv'
    <2>1. \A j \in 1..Len(dialogs) : j \in 1..Len(dialogs')
      BY <1>2 DEF IInv, DialogInv
    <2> QED
      BY <1>2, <2>1 DEF IInv, HeardInv, OnInitDialog
  <1> QED
    BY <1>3, <1>4, <1>5 DEF IInv, StoreInv, OnInitDialog

(* The last dialog is removed; what its outcome does not tell of is in the *)
(* outcome of another.                                                     *)
LEMMA DialogReturns ==
  ASSUME IInv, NEW i \in DOMAIN dialogs, Return(i)
  PROVE  IInv'
  <1>1. /\ i = Len(dialogs) /\ Len(dialogs) \in Nat \ {0}
        /\ Len(stack) \in Nat \ {0}
        /\ stack[Len(stack)] = Frame("dialog", i)
    <2>1. i = Len(dialogs)
      BY LastReturns
    <2>2. dialogs \in Seq(Dialog) /\ stack \in Seq(Frames) /\ stack # <<>>
      BY DEF IInv, DialogInv, StackInv, Return, Innermost
    <2> QED
      BY <2>1, <2>2 DEF Return, Innermost
  <1>2. /\ dialogs' \in Seq(Dialog)
        /\ Len(dialogs') = Len(dialogs) - 1
        /\ \A j \in 1..Len(dialogs') : dialogs'[j] = dialogs[j]
    BY <1>1 DEF IInv, DialogInv, Return
  <1>3. DialogInv'
    BY <1>1, <1>2, MaxDialogsAssumption DEF IInv, DialogInv
  <1>4. StackInv'
    <2>1. /\ stack' \in Seq(Frames)
          /\ Len(stack') = Len(stack) - 1
          /\ \A f \in 1..Len(stack') : stack'[f] = stack[f]
      <3>1. Len(stack) - 1 \in Nat /\ Len(stack) - 1 <= Len(stack)
        BY <1>1
      <3>2. stack \in Seq(Frames) /\ Pop
        BY DEF IInv, StackInv, Return
      <3> QED
        BY <3>1, <3>2, PrefixOf DEF Pop
    <2>2. \A f \in 1..Len(stack') : f \in 1..Len(stack) /\ f < Len(stack)
      BY <1>1, <2>1
    <2>3. ASSUME NEW g \in 1..Len(stack')
          PROVE  /\ stack'[g].of \in 1..Len(dialogs')
                 /\ \E f \in 1..g : stack'[f] = Frame("dialog", stack'[g].of)
      <3>1. stack[g].of \in 1..Len(dialogs) /\ stack'[g] = stack[g]
        BY <2>1, <2>2 DEF IInv, StackInv
      <3>2. PICK f \in 1..g : stack[f] = Frame("dialog", stack[g].of)
        BY <2>2 DEF IInv, StackInv
      <3>3. f \in 1..Len(stack')
        BY <1>1, <2>1, <3>2
      <3>4. stack[f].of < i
        <4>1. /\ f \in 1..Len(stack) /\ f < Len(stack)
              /\ Len(stack) \in 1..Len(stack)
          BY <1>1, <2>2, <3>3
        <4>2. stack[f].call = "dialog" /\ stack[Len(stack)].call = "dialog"
              /\ stack[Len(stack)].of = i
          BY <1>1, <3>2 DEF Frame
        <4> QED
          BY <4>1, <4>2 DEF IInv, StackInv
      <3>5. stack[g].of \in 1..Len(dialogs')
        BY <1>1, <1>2, <3>1, <3>2, <3>4 DEF Frame
      <3>6. stack'[f] = Frame("dialog", stack'[g].of)
        BY <2>1, <3>1, <3>2, <3>3
      <3> QED
        BY <3>1, <3>5, <3>6
    <2>4. ASSUME NEW j \in 1..Len(dialogs')
          PROVE  \E f \in 1..Len(stack') : stack'[f] = Frame("dialog", j)
      <3>1. j \in 1..Len(dialogs) /\ j # i
        BY <1>1, <1>2
      <3>2. PICK f \in 1..Len(stack) : stack[f] = Frame("dialog", j)
        BY <3>1 DEF IInv, StackInv
      <3>3. f # Len(stack)
        BY <1>1, <3>1, <3>2 DEF Frame
      <3> QED
        BY <1>1, <2>1, <3>2, <3>3
    <2> QED
      BY <2>1, <2>2, <2>3, <2>4 DEF IInv, StackInv
  <1>5. HeardInv'
    <2>1. ASSUME NEW c \in unheard'
          PROVE  /\ c \in {"key", "clear", "prefs", "display"}
                 /\ \E j \in 1..Len(dialogs') : c \in Notify(dialogs'[j].outcome)
      <3>1. c \in unheard /\ c \notin Notify(dialogs[i].outcome)
        BY DEF Return
      <3>2. PICK j \in 1..Len(dialogs) : c \in Notify(dialogs[j].outcome)
        BY <3>1 DEF IInv, HeardInv
      <3>3. j \in 1..Len(dialogs')
        BY <1>1, <1>2, <3>1, <3>2
      <3> QED
        BY <1>2, <3>1, <3>2, <3>3 DEF IInv, HeardInv
    <2> QED
      BY <2>1 DEF HeardInv
  <1> QED
    BY <1>3, <1>4, <1>5 DEF IInv, StoreInv, Return

-----------------------------------------------------------------------------
(* The controls.                                                           *)

(* The record of an open dialog has its type.                              *)
LEMMA DialogAt ==
  ASSUME IInv, NEW i \in DOMAIN dialogs
  PROVE  /\ i \in 1..Len(dialogs)
         /\ dialogs[i] \in Dialog
         /\ dialogs[i].outcome \in Outcomes
         /\ ShowsValues(dialogs[i])
  <1>1. dialogs \in Seq(Dialog) /\ i \in 1..Len(dialogs)
    BY DEF IInv, DialogInv
  <1>2. dialogs[i] \in Dialog
    BY <1>1
  <1> QED
    BY <1>1, <1>2 DEF IInv, DialogInv, Dialog

(* A control is set to a value that can be chosen.                         *)
LEMMA ControlChanges ==
  ASSUME IInv, NEW i \in DOMAIN dialogs, NEW p \in Prefs, NEW v \in Choices(p),
         Change(i, p, v)
  PROVE  IInv'
  <1> DEFINE d == [dialogs[i] EXCEPT !.controls[p] = v]
  <1>1. ~dialogs[i].ended
    BY DEF Change, TakesInput
  <1>2. v \in Nat
    BY ValuesAreNumbers
  <1>3. /\ dialogs[i].initial \in Settings
        /\ dialogs[i].controls \in Settings
        /\ \A q \in Prefs :
             /\ dialogs[i].initial[q] \in Shown(q)
             /\ dialogs[i].controls[q] \in Choices(q) \cup {dialogs[i].initial[q]}
    BY <1>1, DialogAt DEF ShowsValues
  <1>4. [dialogs[i].controls EXCEPT ![p] = v] \in Settings
    BY <1>2, <1>3 DEF Settings
  <1>5. d \in Dialog /\ d.outcome = dialogs[i].outcome
    BY <1>4, DialogAt DEF Dialog
  <1>6. ShowsValues(d)
    <2>1. /\ d.initial = dialogs[i].initial
          /\ d.controls = [dialogs[i].controls EXCEPT ![p] = v]
      BY DialogAt DEF Dialog
    <2> HIDE DEF d
    <2> QED
      BY <1>3, <1>4, <2>1 DEF ShowsValues, Settings
  <1>7. dialogs' = [dialogs EXCEPT ![i] = d]
    BY DEF Change
  <1> HIDE DEF d
  <1>8. unheard' = unheard \cup {}
    BY DEF Change
  <1>9. DialogInv' /\ HeardInv' /\ Len(dialogs') = Len(dialogs)
    BY <1>5, <1>6, <1>7, <1>8, DialogAt, OneDialogChanges
  <1>10. StackInv'
    BY <1>9, StackStays DEF Change
  <1> QED
    BY <1>9, <1>10 DEF IInv, StoreInv, Change

(* The key is edited.                                                      *)
LEMMA KeyIsTyped ==
  ASSUME IInv, NEW i \in DOMAIN dialogs, NEW k \in Keys \cup {NoKey}, Type(i, k)
  PROVE  IInv'
  <1> DEFINE d == [dialogs[i] EXCEPT !.edit = k]
  <1>1. d \in Dialog /\ d.outcome = dialogs[i].outcome /\ ShowsValues(d)
    BY DialogAt DEF Dialog, ShowsValues
  <1>2. dialogs' = [dialogs EXCEPT ![i] = d]
    BY DEF Type
  <1> HIDE DEF d
  <1>3. unheard' = unheard \cup {}
    BY DEF Type
  <1>4. DialogInv' /\ HeardInv' /\ Len(dialogs') = Len(dialogs)
    BY <1>1, <1>2, <1>3, DialogAt, OneDialogChanges
  <1>5. StackInv'
    BY <1>4, StackStays DEF Type
  <1> QED
    BY <1>4, <1>5 DEF IInv, StoreInv, Type

-----------------------------------------------------------------------------
(* The answers to the questions.                                           *)

(* A question answered with no closes its box and changes nothing else.    *)
LEMMA Refused ==
  ASSUME IInv, NEW i \in DOMAIN dialogs, AnswerNo(i)
  PROVE  IInv'
  <1>1. StackInv'
    BY BoxReturns DEF AnswerNo
  <1> QED
    BY <1>1 DEF IInv, DialogInv, StoreInv, HeardInv, AnswerNo, ShowsValues

(* A clear is noted in the outcome of the dialog.                          *)
LEMMA ClearRequested ==
  ASSUME IInv, NEW i \in DOMAIN dialogs, OnClearCache(i)
  PROVE  IInv'
  <1> DEFINE o == [dialogs[i].outcome EXCEPT !.clear = TRUE]
             d == [dialogs[i] EXCEPT !.outcome.clear = TRUE]
  <1>1. /\ o \in Outcomes /\ o.clear
        /\ o.key = dialogs[i].outcome.key /\ o.prefs = dialogs[i].outcome.prefs
    BY DialogAt DEF Outcomes
  <1>2. d \in Dialog /\ d.outcome = o /\ ShowsValues(d)
    BY <1>1, DialogAt DEF Dialog, ShowsValues
  <1>3. dialogs' = [dialogs EXCEPT ![i] = d]
    BY DEF OnClearCache
  <1> HIDE DEF d, o
  <1>4. Notify(dialogs[i].outcome) \subseteq Notify(d.outcome)
    BY <1>1, <1>2, DialogAt, NotifyGrows
  <1>5. {"clear"} \subseteq Notify(d.outcome)
    BY <1>1, <1>2, NotifyTells
  <1>6. DialogInv' /\ HeardInv' /\ Len(dialogs') = Len(dialogs)
    <2>1. unheard' = unheard \cup {"clear"}
      BY DEF OnClearCache
    <2> QED
      BY <1>2, <1>3, <1>4, <1>5, <2>1, DialogAt, OneDialogChanges
  <1>7. StackInv'
    BY <1>6, BoxReturns DEF OnClearCache
  <1> QED
    BY <1>6, <1>7 DEF IInv, StoreInv, OnClearCache

(* A removed key is noted in the outcome of the dialog.                    *)
LEMMA KeyRemoved ==
  ASSUME IInv, NEW i \in DOMAIN dialogs, OnRemoveKey(i)
  PROVE  IInv'
  <1> DEFINE o == [dialogs[i].outcome EXCEPT !.key = TRUE]
             d == [dialogs[i] EXCEPT !.outcome.key = TRUE]
  <1>1. /\ o \in Outcomes /\ o.key
        /\ o.clear = dialogs[i].outcome.clear
        /\ o.prefs = dialogs[i].outcome.prefs
    BY DialogAt DEF Outcomes
  <1>2. d \in Dialog /\ d.outcome = o /\ ShowsValues(d)
    BY <1>1, DialogAt DEF Dialog, ShowsValues
  <1>3. dialogs' = [dialogs EXCEPT ![i] = d]
    BY DEF OnRemoveKey
  <1> HIDE DEF d, o
  <1>4. Notify(dialogs[i].outcome) \subseteq Notify(d.outcome)
    BY <1>1, <1>2, DialogAt, NotifyGrows
  <1>5. {"key"} \subseteq Notify(d.outcome)
    BY <1>1, <1>2, NotifyTells
  <1>6. DialogInv' /\ HeardInv' /\ Len(dialogs') = Len(dialogs)
    <2>1. unheard' = unheard \cup {"key"}
      BY DEF OnRemoveKey
    <2> QED
      BY <1>2, <1>3, <1>4, <1>5, <2>1, DialogAt, OneDialogChanges
  <1>7. StackInv'
    BY <1>6, BoxReturns DEF OnRemoveKey
  <1>8. StoreInv'
    BY DEF IInv, StoreInv, OnRemoveKey
  <1> QED
    BY <1>6, <1>7, <1>8 DEF IInv

-----------------------------------------------------------------------------
(* The end of a dialog.                                                    *)

(* An ended dialog has a record.                                           *)
LEMMA EndedDialog ==
  ASSUME NEW o \in Outcomes, NEW f \in BOOLEAN
  PROVE  /\ Ended(o, f) \in Dialog
         /\ Ended(o, f).outcome = o
         /\ ShowsValues(Ended(o, f))
  BY DEF Ended, Dialog, ShowsValues

(* A dialog ends without saving; its outcome stays.                        *)
LEMMA Cancelled ==
  ASSUME IInv, NEW i \in DOMAIN dialogs, Cancel(i)
  PROVE  IInv'
  <1> DEFINE d == Ended(dialogs[i].outcome, FALSE)
  <1>1. d \in Dialog /\ d.outcome = dialogs[i].outcome /\ ShowsValues(d)
    BY DialogAt, EndedDialog
  <1>2. dialogs' = [dialogs EXCEPT ![i] = d] /\ unheard' = unheard \cup {}
    BY DEF Cancel
  <1> HIDE DEF d
  <1>3. DialogInv' /\ HeardInv' /\ Len(dialogs') = Len(dialogs)
    BY <1>1, <1>2, DialogAt, OneDialogChanges
  <1>4. StackInv'
    BY <1>3, StackStays DEF Cancel
  <1> QED
    BY <1>3, <1>4 DEF IInv, StoreInv, Cancel

(* What is written was chosen, and the outcome tells of what was changed.  *)
LEMMA PreferencesWritten ==
  ASSUME IInv, NEW i \in DOMAIN dialogs, NEW failing \in SUBSET Prefs,
         BeginSave(i, failing)
  PROVE  registry' \in Registries
  <1>1. ~dialogs[i].ended
    BY DEF BeginSave, TakesInput
  <1>2. \A p \in Changed(i) : p \in Prefs /\ dialogs[i].controls[p] \in Values(p)
    BY <1>1, DialogAt, ValuesAreNumbers DEF ShowsValues, Changed
  <1>3. \A p \in Prefs : registry[p] \in Values(p)
    BY DEF IInv, StoreInv, Registries
  <1>4. \A p \in Prefs : registry'[p] \in Values(p)
    BY <1>2, <1>3 DEF BeginSave, WritePreferences
  <1>5. \A p \in Prefs : Values(p) \subseteq Intervals \cup 0..1
    BY DEF Values
  <1>6. registry' = [p \in Prefs |-> registry'[p]]
    BY DEF BeginSave, WritePreferences
  <1> QED
    BY <1>4, <1>5, <1>6 DEF Registries

(* The outcome of a save tells of the preferences it has written.          *)
LEMMA PreferencesTold ==
  ASSUME IInv, NEW i \in DOMAIN dialogs
  PROVE  /\ WithPreferences(i) \in Outcomes
         /\ WithPreferences(i).key = dialogs[i].outcome.key
         /\ WithPreferences(i).clear = dialogs[i].outcome.clear
         /\ dialogs[i].outcome.prefs => WithPreferences(i).prefs
         /\ UnheardPreferences(i) \subseteq Notify(WithPreferences(i))
  <1>1. dialogs[i].outcome \in Outcomes
    BY DialogAt
  <1>2. /\ WithPreferences(i) \in Outcomes
        /\ WithPreferences(i).key = dialogs[i].outcome.key
        /\ WithPreferences(i).clear = dialogs[i].outcome.clear
        /\ dialogs[i].outcome.prefs => WithPreferences(i).prefs
        /\ Changed(i) \ {"hideLifetime"} # {} => WithPreferences(i).prefs
    BY <1>1 DEF Outcomes, WithPreferences
  <1>3. UnheardPreferences(i) \subseteq Notify(WithPreferences(i))
    BY <1>2, NotifyTells DEF UnheardPreferences
  <1> QED
    BY <1>2, <1>3

(* A save that refuses the key has written the preferences and tells of    *)
(* them.                                                                   *)
LEMMA SaveIsRefused ==
  ASSUME IInv, NEW i \in DOMAIN dialogs, NEW failing \in SUBSET Prefs,
         SaveRefused(i, failing)
  PROVE  IInv'
  <1> DEFINE o == WithPreferences(i)
             d == [dialogs[i] EXCEPT !.outcome = o]
  <1>1. d \in Dialog /\ d.outcome = o /\ ShowsValues(d)
    BY DialogAt, PreferencesTold DEF Dialog, ShowsValues
  <1>2. dialogs' = [dialogs EXCEPT ![i] = d]
    BY DEF SaveRefused
  <1> HIDE DEF d
  <1>3. Notify(dialogs[i].outcome) \subseteq Notify(d.outcome)
    BY <1>1, DialogAt, PreferencesTold, NotifyGrows
  <1>4. UnheardPreferences(i) \subseteq Notify(d.outcome)
    BY <1>1, PreferencesTold
  <1>5. DialogInv' /\ HeardInv' /\ Len(dialogs') = Len(dialogs)
    <2>1. unheard' = unheard \cup UnheardPreferences(i)
      BY DEF SaveRefused
    <2> QED
      BY <1>1, <1>2, <1>3, <1>4, <2>1, DialogAt, OneDialogChanges
  <1>6. StackInv'
    BY <1>5, StackStays DEF SaveRefused, BeginSave
  <1>7. StoreInv'
    BY PreferencesWritten DEF IInv, StoreInv, SaveRefused
  <1> QED
    BY <1>5, <1>6, <1>7 DEF IInv

(* A save that ends the dialog tells of all it has stored.                 *)
LEMMA Saves ==
  ASSUME IInv, NEW i \in DOMAIN dialogs, NEW failing \in SUBSET Prefs,
         Save(i, failing)
  PROVE  IInv'
  <1> DEFINE newKey == dialogs[i].edit # NoKey
             w == WithPreferences(i)
             o == [w EXCEPT !.key = @ \/ newKey, !.saved = TRUE]
             d == Ended(o, failing # {})
             more == UnheardPreferences(i) \cup IF newKey THEN {"key"} ELSE {}
  <1>1. /\ dialogs' = [dialogs EXCEPT ![i] = d]
        /\ unheard' = unheard \cup more
        /\ keyFile' = IF newKey THEN dialogs[i].edit ELSE keyFile
    BY DEF Save
  <1>2. /\ w \in Outcomes
        /\ w.key = dialogs[i].outcome.key
        /\ w.clear = dialogs[i].outcome.clear
        /\ dialogs[i].outcome.prefs => w.prefs
        /\ UnheardPreferences(i) \subseteq Notify(w)
    BY PreferencesTold
  <1>3. newKey \in BOOLEAN
    OBVIOUS
  <1> HIDE DEF w
  <1>4. /\ o \in Outcomes
        /\ w.key => o.key
        /\ newKey => o.key
        /\ o.clear = w.clear
        /\ o.prefs = w.prefs
    BY <1>2, <1>3 DEF Outcomes
  <1> HIDE DEF o
  <1>5. d \in Dialog /\ d.outcome = o /\ ShowsValues(d)
    BY <1>4, EndedDialog
  <1> HIDE DEF d
  <1>6. Notify(dialogs[i].outcome) \subseteq Notify(d.outcome)
    BY <1>2, <1>4, <1>5, DialogAt, NotifyGrows
  <1>7. more \in SUBSET Notify(d.outcome)
    <2>1. Notify(w) \subseteq Notify(o)
      BY <1>2, <1>4, NotifyGrows
    <2>2. newKey => "key" \in Notify(o)
      BY <1>4, NotifyTells
    <2> QED
      BY <1>2, <1>5, <2>1, <2>2
  <1> HIDE DEF more
  <1>8. DialogInv' /\ HeardInv' /\ Len(dialogs') = Len(dialogs)
    BY <1>1, <1>5, <1>6, <1>7, DialogAt, OneDialogChanges
  <1>9. StackInv'
    BY <1>8, StackStays DEF Save, BeginSave
  <1>10. StoreInv'
    <2>1. registry' \in Registries
      BY PreferencesWritten DEF Save
    <2>2. dialogs[i].edit \in Keys \cup {NoKey}
      BY DialogAt DEF Dialog
    <2> QED
      BY <1>1, <2>1, <2>2 DEF IInv, StoreInv
  <1> QED
    BY <1>8, <1>9, <1>10 DEF IInv

-----------------------------------------------------------------------------
(* The invariant holds always.                                             *)

(* The invariant holds initially.                                          *)
LEMMA InitInv == Init => IInv
  BY MaxDialogsAssumption
  DEF Init, IInv, DialogInv, StoreInv, StackInv, HeardInv

(* Every step preserves the invariant.                                     *)
LEMMA NextInv == IInv /\ [Next]_vars => IInv'
  <1> SUFFICES ASSUME IInv, [Next]_vars PROVE IInv'
    OBVIOUS
  <1>1. CASE OnInitDialog
    BY <1>1, DialogOpens
  <1>2. ASSUME NEW i \in DOMAIN dialogs, NEW p \in Prefs, NEW v \in Choices(p),
               Change(i, p, v)
        PROVE  IInv'
    BY <1>2, ControlChanges
  <1>3. ASSUME NEW i \in DOMAIN dialogs, NEW k \in Keys \cup {NoKey}, Type(i, k)
        PROVE  IInv'
    BY <1>3, KeyIsTyped
  <1>4. ASSUME NEW i \in DOMAIN dialogs,
               Ask(i, "clear") \/ Ask(i, "remove")
        PROVE  IInv'
    BY <1>4, BoxOpens
  <1>5. ASSUME NEW i \in DOMAIN dialogs, AnswerNo(i)
        PROVE  IInv'
    BY <1>5, Refused
  <1>6. ASSUME NEW i \in DOMAIN dialogs, OnClearCache(i)
        PROVE  IInv'
    BY <1>6, ClearRequested
  <1>7. ASSUME NEW i \in DOMAIN dialogs, OnRemoveKey(i)
        PROVE  IInv'
    BY <1>7, KeyRemoved
  <1>8. ASSUME NEW i \in DOMAIN dialogs, NEW failing \in SUBSET Prefs,
               SaveRefused(i, failing)
        PROVE  IInv'
    BY <1>8, SaveIsRefused
  <1>9. ASSUME NEW i \in DOMAIN dialogs, NEW failing \in SUBSET Prefs,
               Save(i, failing)
        PROVE  IInv'
    BY <1>9, Saves
  <1>10. ASSUME NEW i \in DOMAIN dialogs, Cancel(i)
         PROVE  IInv'
    BY <1>10, Cancelled
  <1>11. ASSUME NEW i \in DOMAIN dialogs, Return(i)
         PROVE  IInv'
    BY <1>11, DialogReturns
  <1>12. CASE UNCHANGED vars
    BY <1>12 DEF vars, IInv, DialogInv, StoreInv, StackInv, HeardInv, Frame
  <1> QED
    BY <1>1, <1>2, <1>3, <1>4, <1>5, <1>6, <1>7, <1>8, <1>9, <1>10, <1>11,
       <1>12 DEF Next

(* The invariant holds always.                                             *)
LEMMA Invariant == Spec => []IInv
  BY InitInv, NextInv, PTL DEF Spec

(* Every variable keeps its type: what is stored is a value of its         *)
(* preference, a control shows what can be chosen or the default, and every*)
(* dialog whose call has not returned is on the stack.                     *)
THEOREM DialogTypeCorrect == Spec => []TypeOK
  <1>1. IInv => TypeOK
    <2> SUFFICES ASSUME IInv PROVE TypeOK
      OBVIOUS
    <2>1. ASSUME NEW i \in DOMAIN dialogs
          PROVE  /\ ~dialogs[i].ended => \A p \in Prefs :
                      dialogs[i].controls[p] \in Shown(p)
                 /\ dialogs[i].edit \in Keys \cup {NoKey}
                 /\ dialogs[i].outcome \in Outcomes
                 /\ dialogs[i].failed \in BOOLEAN
      BY DialogAt DEF Dialog, ShowsValues, Shown
    <2>2. ASSUME NEW i \in DOMAIN dialogs
          PROVE  \E f \in DOMAIN stack : stack[f] = Frame("dialog", i)
      BY DialogAt DEF IInv, StackInv
    <2>3. unheard \subseteq {"key", "clear", "prefs", "display"}
      BY DEF IInv, HeardInv
    <2> QED
      BY <2>1, <2>2, <2>3
      DEF TypeOK, Shown, Outcomes, IInv, DialogInv, StoreInv
  <1> QED
    BY Invariant, <1>1, PTL

(* When the last dialog has returned nothing is left that the worker or the*)
(* windows were not told of.                                               *)
THEOREM ChangesAreTold == Spec => []EveryChangeIsTold
  <1>1. IInv => EveryChangeIsTold
    BY DEF IInv, HeardInv, EveryChangeIsTold
  <1> QED
    BY Invariant, <1>1, PTL

-----------------------------------------------------------------------------
(* What a save stores.                                                     *)

(* A step that changes one record but not whether it is saved saves no     *)
(* dialog.                                                                 *)
LEMMA OtherRecord ==
  ASSUME IInv, NEW i \in DOMAIN dialogs, NEW j \in DOMAIN dialogs,
         NEW d \in Dialog, d.outcome.saved = dialogs[j].outcome.saved,
         dialogs' = [dialogs EXCEPT ![j] = d]
  PROVE  ~Saved(i)
  <1>1. dialogs' \in Seq(Dialog) /\ Len(dialogs') = Len(dialogs)
        /\ dialogs'[i] = IF i = j THEN d ELSE dialogs[i]
    BY DialogAt, ReplaceDialog DEF IInv, DialogInv
  <1> QED
    BY <1>1 DEF Saved

(* Only Save ends a dialog as saved.                                       *)
LEMMA SavedBySave ==
  ASSUME IInv, Next, NEW i \in DOMAIN dialogs, Saved(i)
  PROVE  \E failing \in SUBSET Prefs : Save(i, failing)
  <1> SUFFICES ASSUME \A failing \in SUBSET Prefs : ~Save(i, failing)
               PROVE  FALSE
    OBVIOUS
  <1>1. ASSUME OnInitDialog PROVE FALSE
    <2>1. dialogs'[i] = dialogs[i]
      BY <1>1 DEF IInv, DialogInv, OnInitDialog
    <2> QED
      BY <2>1 DEF Saved
  <1>2. ASSUME NEW j \in DOMAIN dialogs, NEW p \in Prefs, NEW v \in Choices(p),
               Change(j, p, v)
        PROVE  FALSE
    <2> DEFINE d == [dialogs[j] EXCEPT !.controls[p] = v]
    <2>1. ~dialogs[j].ended
      BY <1>2 DEF Change, TakesInput
    <2>2. v \in Nat
      BY ValuesAreNumbers
    <2>3. [dialogs[j].controls EXCEPT ![p] = v] \in Settings
      BY <2>1, <2>2, DialogAt DEF ShowsValues, Settings
    <2>4. d \in Dialog /\ d.outcome = dialogs[j].outcome
      BY <2>3, DialogAt DEF Dialog
    <2>5. dialogs' = [dialogs EXCEPT ![j] = d]
      BY <1>2 DEF Change
    <2> HIDE DEF d
    <2> QED
      BY <2>4, <2>5, OtherRecord
  <1>3. ASSUME NEW j \in DOMAIN dialogs, NEW k \in Keys \cup {NoKey}, Type(j, k)
        PROVE  FALSE
    <2> DEFINE d == [dialogs[j] EXCEPT !.edit = k]
    <2>1. d \in Dialog /\ d.outcome = dialogs[j].outcome
      BY DialogAt DEF Dialog
    <2>2. dialogs' = [dialogs EXCEPT ![j] = d]
      BY <1>3 DEF Type
    <2> HIDE DEF d
    <2> QED
      BY <2>1, <2>2, OtherRecord
  <1>4. ASSUME NEW j \in DOMAIN dialogs,
               Ask(j, "clear") \/ Ask(j, "remove") \/ AnswerNo(j)
        PROVE  FALSE
    BY <1>4 DEF Ask, AnswerNo, Saved
  <1>5. ASSUME NEW j \in DOMAIN dialogs, OnClearCache(j)
        PROVE  FALSE
    <2> DEFINE d == [dialogs[j] EXCEPT !.outcome.clear = TRUE]
    <2>1. d \in Dialog /\ d.outcome.saved = dialogs[j].outcome.saved
      BY DialogAt DEF Dialog, Outcomes
    <2>2. dialogs' = [dialogs EXCEPT ![j] = d]
      BY <1>5 DEF OnClearCache
    <2> HIDE DEF d
    <2> QED
      BY <2>1, <2>2, OtherRecord
  <1>6. ASSUME NEW j \in DOMAIN dialogs, OnRemoveKey(j)
        PROVE  FALSE
    <2> DEFINE d == [dialogs[j] EXCEPT !.outcome.key = TRUE]
    <2>1. d \in Dialog /\ d.outcome.saved = dialogs[j].outcome.saved
      BY DialogAt DEF Dialog, Outcomes
    <2>2. dialogs' = [dialogs EXCEPT ![j] = d]
      BY <1>6 DEF OnRemoveKey
    <2> HIDE DEF d
    <2> QED
      BY <2>1, <2>2, OtherRecord
  <1>7. ASSUME NEW j \in DOMAIN dialogs, NEW failing \in SUBSET Prefs,
               SaveRefused(j, failing)
        PROVE  FALSE
    <2> DEFINE o == WithPreferences(j)
               d == [dialogs[j] EXCEPT !.outcome = o]
    <2>1. o.saved = dialogs[j].outcome.saved
      BY DialogAt DEF WithPreferences, Outcomes
    <2>2. d \in Dialog /\ d.outcome = o
      BY DialogAt, PreferencesTold DEF Dialog
    <2>3. dialogs' = [dialogs EXCEPT ![j] = d]
      BY <1>7 DEF SaveRefused
    <2> HIDE DEF d, o
    <2> QED
      BY <2>1, <2>2, <2>3, OtherRecord
  <1>8. ASSUME NEW j \in DOMAIN dialogs, NEW failing \in SUBSET Prefs,
               Save(j, failing)
        PROVE  FALSE
    <2>1. j # i
      BY <1>8
    <2>2. dialogs'[i] = dialogs[i]
      BY <1>8, <2>1 DEF Save, IInv, DialogInv
    <2> QED
      BY <2>2 DEF Saved
  <1>9. ASSUME NEW j \in DOMAIN dialogs, Cancel(j)
        PROVE  FALSE
    <2> DEFINE d == Ended(dialogs[j].outcome, FALSE)
    <2>1. d \in Dialog /\ d.outcome = dialogs[j].outcome
      BY DialogAt, EndedDialog
    <2>2. dialogs' = [dialogs EXCEPT ![j] = d]
      BY <1>9 DEF Cancel
    <2> HIDE DEF d
    <2> QED
      BY <2>1, <2>2, OtherRecord
  <1>10. ASSUME NEW j \in DOMAIN dialogs, Return(j)
         PROVE  FALSE
    <2>1. j \in 1..Len(dialogs) /\ dialogs \in Seq(Dialog)
      BY DialogAt DEF IInv, DialogInv
    <2>2. dialogs' = SubSeq(dialogs, 1, j - 1)
      BY <1>10 DEF Return
    <2>3. j - 1 \in Nat /\ j - 1 <= Len(dialogs)
      BY <2>1
    <2>4. \A k \in DOMAIN dialogs' : dialogs'[k] = dialogs[k]
      BY <2>1, <2>2, <2>3, PrefixOf
    <2> QED
      BY <2>4 DEF Saved
  <1> QED
    BY <1>1, <1>2, <1>3, <1>4, <1>5, <1>6, <1>7, <1>8, <1>9, <1>10 DEF Next

(* A value that can be chosen is read as it was written.                   *)
LEMMA ChosenIsRead ==
  ASSUME NEW r, NEW p \in Prefs, r[p] \in Choices(p)
  PROVE  Read(r)[p] = r[p]
  BY DEF Read, Choices

(* A save whose writes succeed leaves in the registry what its controls    *)
(* show, if they began with what was stored.                               *)
LEMMA SaveStores ==
  ASSUME IInv, NEW i \in DOMAIN dialogs, Save(i, {}),
         dialogs[i].initial = Read(registry)
  PROVE  Read(registry') = dialogs[i].controls
  <1>1. /\ dialogs[i].controls \in Settings
        /\ \A p \in Prefs : dialogs[i].controls[p] \in
                              Choices(p) \cup {dialogs[i].initial[p]}
    BY DialogAt DEF Save, BeginSave, TakesInput, ShowsValues
  <1>2. registry' = [p \in Prefs |-> IF p \in Changed(i)
                       THEN dialogs[i].controls[p] ELSE registry[p]]
    BY DEF Save, BeginSave, WritePreferences
  <1>3. ASSUME NEW p \in Prefs
        PROVE  Read(registry')[p] = dialogs[i].controls[p]
    <2>1. CASE p \in Changed(i)
      <3>1. registry'[p] = dialogs[i].controls[p]
        BY <1>2, <2>1
      <3>2. registry'[p] \in Choices(p)
        BY <1>1, <2>1, <3>1 DEF Changed
      <3> QED
        BY <3>1, <3>2, ChosenIsRead
    <2>2. CASE p \notin Changed(i)
      <3>1. registry'[p] = registry[p]
        BY <1>2, <2>2
      <3>2. Read(registry')[p] = Read(registry)[p]
        BY <3>1 DEF Read
      <3> QED
        BY <2>2, <3>2 DEF Changed
    <2> QED
      BY <2>1, <2>2
  <1>4. Read(registry') = [p \in Prefs |-> Read(registry')[p]]
    BY DEF Read
  <1> QED
    BY <1>1, <1>3, <1>4 DEF Settings

(* A save whose writes succeed leaves stored what the dialog shows.        *)
THEOREM SavesAreStored == Spec => SaveStoresControls
  <1>1. IInv /\ [Next]_vars =>
          [\A i \in DOMAIN dialogs :
             Saved(i) /\ dialogs[i].initial = Read(registry)
               => Read(registry') = dialogs[i].controls]_vars
    <2> SUFFICES ASSUME IInv, Next, NEW i \in DOMAIN dialogs, Saved(i),
                        dialogs[i].initial = Read(registry)
                 PROVE  Read(registry') = dialogs[i].controls
      OBVIOUS
    <2>1. PICK failing \in SUBSET Prefs : Save(i, failing)
      BY SavedBySave
    <2>2. failing = {}
      <3>1. /\ WithPreferences(i) \in Outcomes
            /\ dialogs[i].outcome \in Outcomes
        BY PreferencesTold, DialogAt
      <3>2. dialogs'[i].failed = (failing # {})
        BY <2>1, DialogAt DEF Save, Ended, IInv, DialogInv
      <3> QED
        BY <3>2 DEF Saved
    <2> QED
      BY <2>1, <2>2, SaveStores
  <1> QED
    BY Invariant, <1>1, PTL DEF Spec, SaveStoresControls

-----------------------------------------------------------------------------
(* The key file.                                                           *)

SavingInv ==
  /\ ui # "Idle" => key \in ApiKeys /\ answer = "none" /\ file = before
  /\ ui \in {"Flush", "Move"} => tmp = key
  /\ ui = "Move" => flushed

StoreIInv ==
  StoreTypeOK /\ KeyFileIsWhole /\ AnswerIsTrue /\ SavingInv

-----------------------------------------------------------------------------
(* The invariant holds initially.                                          *)
LEMMA StoreInitially == StoreInit => StoreIInv
BY ContentsAssumption
   DEF StoreInit, StoreIInv, StoreTypeOK, KeyFileIsWhole, AnswerIsTrue,
       SavingInv, Contents

(* Every step preserves the invariant.                                     *)
LEMMA StoreInductive == StoreIInv /\ [StoreNext]_storeVars => StoreIInv'
<1> SUFFICES ASSUME StoreIInv, [StoreNext]_storeVars PROVE StoreIInv'
  OBVIOUS
<1> USE ContentsAssumption
    DEF StoreIInv, StoreTypeOK, KeyFileIsWhole, AnswerIsTrue, SavingInv,
        Contents
<1>1. ASSUME NEW k \in ApiKeys, BeginStore(k) PROVE StoreIInv'
  BY <1>1 DEF BeginStore, files, worker
<1>2. CASE CreateTemporary
  BY <1>2 DEF CreateTemporary, Step, worker
<1>3. CASE CreateFailed
  BY <1>3 DEF CreateFailed, ReturnResult, files, worker
<1>4. CASE WriteTemporary
  BY <1>4 DEF WriteTemporary, Step, worker
<1>5. CASE FlushTemporary
  BY <1>5 DEF FlushTemporary, Step, worker
<1>6. CASE Move
  BY <1>6 DEF Move, ReturnResult, worker
<1>7. CASE StepFailed
  BY <1>7 DEF StepFailed, Step, files, worker
<1>8. CASE DeleteTemporary
  BY <1>8 DEF DeleteTemporary, ReturnResult, worker
<1>9. CASE Remove
  BY <1>9 DEF Remove
<1>10. CASE RemoveFailed
  BY <1>10 DEF RemoveFailed, files, worker
<1>11. CASE Settle
  BY <1>11 DEF Settle, interface, worker
<1>12. CASE Look
  BY <1>12 DEF Look, files, interface
<1>13. CASE OpenFile
  BY <1>13 DEF OpenFile, files, interface
<1>14. CASE OpenFailed
  BY <1>14 DEF OpenFailed, files, interface
<1>15. CASE ReadFile
  <2>1. /\ handle' \in BOOLEAN
        /\ wpc' \in {"Load", "Idle"} /\ loaded' \in {loaded, file}
        /\ UNCHANGED <<files, interface>>
    BY <1>15, Zenon DEF ReadFile
  <2> QED
    BY <2>1 DEF files, interface
<1>16. CASE Crash
  BY <1>16 DEF Crash, Restart
<1>17. CASE PowerLoss
  BY <1>17 DEF PowerLoss, Restart
<1>18. CASE ReadFailed
  <2>1. /\ handle' \in BOOLEAN /\ wpc' = "Missing"
        /\ UNCHANGED <<files, interface, loaded>>
    BY <1>18, Zenon DEF ReadFailed
  <2> QED
    BY <2>1 DEF files, interface
<1>19. CASE UNCHANGED storeVars
  BY <1>19 DEF storeVars, files, interface, worker
<1> QED
  BY <1>1, <1>2, <1>3, <1>4, <1>5, <1>6, <1>7, <1>8, <1>9,
     <1>10, <1>11, <1>12, <1>13, <1>14, <1>15, <1>16, <1>17, <1>18,
     <1>19 DEF StoreNext

(* The invariant holds always.                                             *)
LEMMA StoreInvariant == StoreSpec => []StoreIInv
BY StoreInitially, StoreInductive, PTL DEF StoreSpec

(* Every variable of the store keeps its type.                             *)
THEOREM StoreTypeCorrect == StoreSpec => []StoreTypeOK
<1>1. StoreIInv => StoreTypeOK
  BY DEF StoreIInv
<1> QED
  BY <1>1, StoreInvariant, PTL

(* No reader, crash or loss of power ever finds a partly written key file. *)
THEOREM KeyFileIsNeverTorn == StoreSpec => []KeyFileIsWhole
<1>1. StoreIInv => KeyFileIsWhole
  BY DEF StoreIInv
<1> QED
  BY <1>1, StoreInvariant, PTL

(* What Store and Remove answer is what happened to the file.              *)
THEOREM StoreAnswersTruly == StoreSpec => []AnswerIsTrue
<1>1. StoreIInv => AnswerIsTrue
  BY DEF StoreIInv
<1> QED
  BY <1>1, StoreInvariant, PTL
=============================================================================
