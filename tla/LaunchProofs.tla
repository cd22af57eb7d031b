---------------------------- MODULE LaunchProofs ----------------------------
(***************************************************************************)
(* Proofs about Launch, for any set of starts, tooltips and commands and   *)
(* any number of restarts of Explorer.                                     *)
(*                                                                         *)
(* The inductive invariant has two layers.  ProcessInv ties the stations   *)
(* of a start to the mutex, its window and its TrayIcon object; the mutual *)
(* exclusion follows from it.  ShellInv and IconInv tie the icons that the *)
(* shell shows to the object of the one instance.                          *)
(***************************************************************************)
EXTENDS Launch, TLAPS

(* The instance holds the mutex; what a start owns it has at its stations. *)
ProcessInv ==
  \A p \in Starts :
    /\ IsInstance(p) => p \in handles
    /\ p \in window => at[p] \in {"open", "cacheBox", "add", "adding",
                                  "iconBox", "start", "loop"}
    /\ p \in working => at[p] \in {"loop"}

(* Add runs at the stations where it is called, on an icon not yet added.  *)
ObjectInv ==
  \A p \in Starts :
    /\ at[p] \in {"open", "cacheBox", "add", "adding"} => p \in window
    /\ calling[p] # "none" =>
         /\ at[p] \in {"cacheBox", "adding", "iconBox", "loop"}
         /\ p \in window
         /\ ~tray[p].added
    /\ calling[p] = "delete" => tray[p].useGuid
    /\ tray[p].owner => at[p] \in {"adding", "iconBox", "start", "loop",
                                   "remove", "leave"}
    /\ at[p] \in {"adding", "iconBox", "start", "loop"} => tray[p].owner
    /\ ~IsInstance(p) => ~tray[p].added
    /\ tray[p].added => tray[p].owner
    /\ tray[p].tip = wanted[p]

(* An icon names a window, and an icon without the GUID its own; a process *)
(* that still runs and has an icon is the instance, and the icon has the   *)
(* identity the object uses.                                               *)
ShellInv ==
  /\ ~explorer => \A i \in Identities : shell[i] = NoIcon
  /\ \A i \in Identities : shell[i].window = None => shell[i] = NoIcon
  /\ \A p \in Starts : shell[p].window \in {None, p}
  /\ \A i \in Identities, p \in Starts :
       shell[i].window = p /\ at[p] # "gone" =>
         /\ IsInstance(p)
         /\ tray[p].owner
         /\ tray[p].useGuid <=> i = Guid
  /\ \A p \in Starts : calling[p] = "add" /\ tray[p].useGuid =>
       shell[Guid] = NoIcon

(* What the shell shows of an instance that is not in the middle of Add and*)
(* has handled its messages.                                               *)
IconOf(p) ==
  /\ at[p] \in {"adding", "iconBox", "start", "loop"}
  /\ calling[p] = "none"
  /\ explorer
  /\ broadcasts[p] = 0
  => IF tray[p].added
     THEN shell[Identity(p)] = [window |-> p, tip |-> wanted[p]]
     ELSE ~tray[p].useGuid /\ shell[p].window = p

IconInv == \A p \in window : IconOf(p)

MutexInv == TypeOK /\ ProcessInv /\ AtMostOneInstance
IInv == MutexInv /\ ObjectInv /\ ShellInv /\ IconInv

-----------------------------------------------------------------------------
(* The mutex.                                                              *)

(* Before the first start nobody has the mutex.                            *)
LEMMA MutexInit == Init => MutexInv
BY NoneAssumption, RestartsAssumption
   DEF Init, TrayInit, MutexInv, TypeOK, ProcessInv, AtMostOneInstance,
       IsInstance, InstanceStations, Icons, TrayObjects, NoIcon, NewTray,
       Fates

(* No icon and every object that a call leaves behind have their types.    *)
LEMMA RecordTypes ==
  ASSUME NEW object \in TrayObjects, NEW tip \in Tips
  PROVE  /\ NoIcon \in Icons
         /\ NewTray \in TrayObjects
         /\ [object EXCEPT !.owner = TRUE, !.tip = tip] \in TrayObjects
         /\ [object EXCEPT !.added = TRUE] \in TrayObjects
         /\ [object EXCEPT !.added = FALSE] \in TrayObjects
         /\ [object EXCEPT !.useGuid = FALSE] \in TrayObjects
         /\ [object EXCEPT !.tip = tip] \in TrayObjects
         /\ \A p \in Starts : [window |-> p, tip |-> object.tip] \in Icons
BY DEF TrayObjects, Icons, NoIcon, NewTray

(* Every step keeps the types.                                             *)
LEMMA TypeNext == MutexInv /\ [Next]_vars => TypeOK'
<1> SUFFICES ASSUME MutexInv, [Next]_vars PROVE TypeOK'
  OBVIOUS
<1> USE DEF MutexInv, TypeOK, shellVars, trayVars, processVars, Fates,
            InstanceStations
<1>1. CASE UNCHANGED vars
  BY <1>1 DEF vars
<1>2. CASE Shell
  <2>1. CASE ExplorerStops /\ UNCHANGED processVars
    <3>1. restarts' \in 0..MaxRestarts
      BY <2>1, RestartsAssumption DEF ExplorerStops
    <3>2. shell' \in [Identities -> Icons]
      BY <2>1 DEF ExplorerStops, NoIcon, Icons
    <3> QED
      BY <2>1, <3>1, <3>2 DEF ExplorerStops
  <2>2. CASE ExplorerStarts(window) /\ UNCHANGED processVars
    BY <2>2 DEF ExplorerStarts
  <2>3. CASE Sweep(window) /\ UNCHANGED processVars
    BY <2>3 DEF Sweep, NoIcon, Icons
  <2> QED
    BY <1>2, <2>1, <2>2, <2>3 DEF Shell
<1>3. ASSUME NEW p \in Starts, Process(p)
      PROVE  TypeOK'
  <2>1. CASE HandOff(p) \/ CreateMainWindow(p) \/ WindowFailed(p)
             \/ OpenCache(p) \/ Added(p) \/ QuitBox(p) \/ StartWorker(p)
    BY <2>1 DEF HandOff, CreateMainWindow, WindowFailed, OpenCache, Added,
                QuitBox, LeaveBox, StartWorker, Go, ProcessInv, IsInstance
  <2>2. CASE End(p)
    BY <2>2 DEF End, ObjectGone, NewTray, TrayObjects, ProcessInv
  <2>3. CASE AddIcon(p)
    <3>1. PICK tip \in Tips : Add(p, tip)
      BY <2>3 DEF AddIcon
    <3>2. [tray[p] EXCEPT !.owner = TRUE, !.tip = tip] \in TrayObjects
      BY RecordTypes
    <3>3. /\ tray' \in [Starts -> TrayObjects]
          /\ calling' \in [Starts -> {"none", "delete", "add"}]
          /\ wanted' \in [Starts -> Tips \cup {None}]
      BY <3>1, <3>2 DEF Add, BeginAdd
    <3> QED
      BY <2>3, <3>3 DEF AddIcon, Go
  <2>4. CASE StopWorker(p)
    BY <2>4 DEF StopWorker, Go
  <2>5. CASE RemoveIcon(p)
    <3>1. /\ tray' \in [Starts -> TrayObjects]
          /\ shell' \in [Identities -> Icons]
      BY <2>5 DEF RemoveIcon, Remove, TrayObjects, NoIcon, Icons
    <3> QED
      BY <2>5, <3>1 DEF RemoveIcon, Go
  <2>6. CASE DeleteStale(p) /\ UNCHANGED processVars
    BY <2>6 DEF DeleteStale, NoIcon, Icons
  <2>7. CASE TryAdd(p) /\ UNCHANGED processVars
    BY <2>7 DEF TryAdd, TrayObjects, Icons
  <2>8. CASE AddRefused(p) /\ UNCHANGED processVars
    <3>1. [tray EXCEPT ![p].useGuid = FALSE] \in [Starts -> TrayObjects]
      BY DEF TrayObjects
    <3>2. [tray EXCEPT ![p].added = FALSE] \in [Starts -> TrayObjects]
      BY DEF TrayObjects
    <3> QED
      BY <2>8, <3>1, <3>2 DEF AddRefused
  <2> QED
    BY <1>3, <2>1, <2>2, <2>3, <2>4, <2>5, <2>6, <2>7, <2>8 DEF Process
<1>4. ASSUME NEW p \in Starts, User(p)
      PROVE  TypeOK'
  <2>1. ASSUME NEW c \in Commands, Start(p, c) \/ MutexRefused(p, c)
        PROVE  TypeOK'
    <3>1. at' \in [Starts -> InstanceStations \cup {"idle", "handOff", "end",
                                                   "gone"}]
      BY <2>1 DEF Start, CreateMutex, MutexRefused, Go
    <3>2. handles' \in SUBSET Starts /\ handles \subseteq handles'
      BY <2>1 DEF Start, CreateMutex, MutexRefused
    <3> QED
      BY <2>1, <3>1, <3>2 DEF Start, MutexRefused
  <2>2. CASE AnswerBox(p)
    BY <2>2 DEF AnswerBox, LeaveBox, Go
  <2>3. CASE UpdateTray(p)
    <3>1. PICK tip \in Tips : SetTooltip(p, tip)
      BY <2>3 DEF UpdateTray
    <3>2. [tray EXCEPT ![p].tip = tip] \in [Starts -> TrayObjects]
      BY DEF TrayObjects
    <3>3. [shell EXCEPT ![Identity(p)].tip = tip] \in [Identities -> Icons]
      BY DEF Icons
    <3> QED
      BY <2>3, <3>1, <3>2, <3>3 DEF UpdateTray, SetTooltip
  <2>4. CASE Exit(p)
    BY <2>4 DEF Exit
  <2>5. CASE Kill(p)
    BY <2>5 DEF Kill, ObjectGone, NewTray, TrayObjects
  <2> QED
    BY <1>4, <2>1, <2>2, <2>3, <2>4, <2>5 DEF User
<1>5. ASSUME NEW p \in Starts, Messages(p)
      PROVE  TypeOK'
  <2>1. CASE HandleTaskbarCreated(p)
    <3>1. [tray[p] EXCEPT !.added = FALSE] \in TrayObjects
      BY DEF TrayObjects
    <3>2. /\ tray' \in [Starts -> TrayObjects]
          /\ calling' \in [Starts -> {"none", "delete", "add"}]
      BY <2>1, <3>1 DEF HandleTaskbarCreated, Recreate, BeginAdd
    <3>3. broadcasts' \in [Starts -> Nat]
      BY <2>1 DEF HandleTaskbarCreated
    <3> QED
      BY <2>1, <3>2, <3>3 DEF HandleTaskbarCreated
  <2>2. ASSUME NEW q \in Starts, HandleCommand(p, q)
        PROVE  TypeOK'
    BY <2>2 DEF HandleCommand
  <2> QED
    BY <1>5, <2>1, <2>2 DEF Messages
<1> QED
  BY <1>1, <1>2, <1>3, <1>4, <1>5 DEF Next

(* The mutex, the window and the worker of a start follow its stations, and*)
(* whoever creates the mutex found nobody holding it.                      *)
LEMMA ProcessNext ==
  MutexInv /\ [Next]_vars => ProcessInv' /\ AtMostOneInstance'
<1> SUFFICES ASSUME MutexInv, [Next]_vars
             PROVE  ProcessInv' /\ AtMostOneInstance'
  OBVIOUS
<1> USE DEF MutexInv, TypeOK, ProcessInv, AtMostOneInstance, IsInstance,
            InstanceStations
<1>1. CASE UNCHANGED <<at, handles, window, working>>
  BY <1>1
<1>2. CASE Shell \/ UNCHANGED vars
  BY <1>1, <1>2 DEF Shell, vars, processVars
<1>3. ASSUME NEW p \in Starts, Process(p)
      PROVE  ProcessInv' /\ AtMostOneInstance'
  <2>1. CASE HandOff(p)
    BY <2>1 DEF HandOff, Go
  <2>2. CASE End(p)
    BY <2>2 DEF End
  <2>3. CASE CreateMainWindow(p)
    BY <2>3 DEF CreateMainWindow, Go
  <2>4. CASE WindowFailed(p)
    BY <2>4 DEF WindowFailed, Go
  <2>5. CASE OpenCache(p)
    BY <2>5 DEF OpenCache, Go
  <2>6. CASE AddIcon(p)
    BY <2>6 DEF AddIcon, Go
  <2>7. CASE Added(p)
    BY <2>7 DEF Added, Go
  <2>8. CASE QuitBox(p)
    BY <2>8 DEF QuitBox, LeaveBox, Go
  <2>9. CASE StartWorker(p)
    BY <2>9 DEF StartWorker, Go
  <2>10. CASE StopWorker(p)
    BY <2>10 DEF StopWorker, Go
  <2>11. CASE RemoveIcon(p)
    BY <2>11 DEF RemoveIcon, Go
  <2> QED
    BY <1>1, <1>3, <2>1, <2>2, <2>3, <2>4, <2>5, <2>6, <2>7, <2>8, <2>9,
       <2>10, <2>11 DEF Process, processVars
<1>4. ASSUME NEW p \in Starts, User(p)
      PROVE  ProcessInv' /\ AtMostOneInstance'
  <2>1. ASSUME NEW c \in Commands, Start(p, c)
        PROVE  ProcessInv' /\ AtMostOneInstance'
    BY <2>1 DEF Start, CreateMutex
  <2>2. ASSUME NEW c \in Commands, MutexRefused(p, c)
        PROVE  ProcessInv' /\ AtMostOneInstance'
    BY <2>2 DEF MutexRefused, Go
  <2>3. CASE AnswerBox(p)
    BY <2>3 DEF AnswerBox, LeaveBox, Go
  <2>4. CASE UpdateTray(p)
    BY <1>1, <2>4 DEF UpdateTray, processVars
  <2>5. CASE Exit(p)
    BY <2>5 DEF Exit, Pumps
  <2>6. CASE Kill(p)
    BY <2>6 DEF Kill
  <2> QED
    BY <1>4, <2>1, <2>2, <2>3, <2>4, <2>5, <2>6 DEF User
<1>5. ASSUME NEW p \in Starts, Messages(p)
      PROVE  ProcessInv' /\ AtMostOneInstance'
  BY <1>1, <1>5 DEF Messages, HandleTaskbarCreated, HandleCommand,
                    processVars
<1> QED
  BY <1>2, <1>3, <1>4, <1>5 DEF Next

(* Every variable of the processes, of their icons and of the shell keeps  *)
(* its type.                                                               *)
THEOREM LaunchTypeCorrect == FairSpec => []TypeOK
<1>1. MutexInv /\ [Next]_vars => MutexInv'
  BY TypeNext, ProcessNext DEF MutexInv
<1>2. MutexInv => TypeOK
  BY DEF MutexInv
<1> QED
  BY MutexInit, <1>1, <1>2, PTL DEF FairSpec, Spec

(* However many starts race with each other and with the end of the        *)
(* instance, at most one of them is the instance.                          *)
THEOREM OneInstanceOnly == FairSpec => []AtMostOneInstance
<1>1. MutexInv /\ [Next]_vars => MutexInv'
  BY TypeNext, ProcessNext DEF MutexInv
<1>2. MutexInv => AtMostOneInstance
  BY DEF MutexInv
<1> QED
  BY MutexInit, <1>1, <1>2, PTL DEF FairSpec, Spec

-----------------------------------------------------------------------------
(* The icons.                                                              *)

(* Before the first start there is no icon.                                *)
LEMMA IconInit == Init => IInv
BY MutexInit, NoneAssumption
   DEF Init, TrayInit, IInv, ObjectInv, ShellInv, IconInv, IsInstance,
       InstanceStations, Identities, NoIcon, NewTray

(* The object of a start follows the stations of the start.                *)
LEMMA ObjectNext == IInv /\ [Next]_vars => ObjectInv'
<1> SUFFICES ASSUME IInv, [Next]_vars PROVE ObjectInv'
  OBVIOUS
<1> USE DEF IInv, MutexInv, TypeOK, ProcessInv, ObjectInv, IsInstance,
            InstanceStations
<1>1. CASE UNCHANGED <<at, window, calling, tray, wanted>>
  BY <1>1
<1>2. CASE Shell \/ UNCHANGED vars
  BY <1>1, <1>2 DEF Shell, vars, processVars, trayVars, ExplorerStops,
                    ExplorerStarts, Sweep
<1>3. ASSUME NEW p \in Starts, Process(p)
      PROVE  ObjectInv'
  <2>1. CASE HandOff(p)
    BY <2>1 DEF HandOff, Go, trayVars
  <2>2. CASE End(p)
    BY <2>2 DEF End, ObjectGone, NewTray
  <2>3. CASE CreateMainWindow(p)
    BY <2>3 DEF CreateMainWindow, Go, trayVars
  <2>4. CASE WindowFailed(p)
    BY <2>4 DEF WindowFailed, Go, trayVars
  <2>5. CASE OpenCache(p)
    BY <2>5 DEF OpenCache, Go, trayVars
  <2>6. CASE AddIcon(p)
    <3>1. PICK tip \in Tips : Add(p, tip)
      BY <2>6 DEF AddIcon
    <3>2. /\ tray'[p] = [tray[p] EXCEPT !.owner = TRUE, !.tip = tip]
          /\ \A q \in Starts : q # p => tray'[q] = tray[q]
          /\ wanted'[p] = tip
          /\ \A q \in Starts : q # p => wanted'[q] = wanted[q]
      BY <3>1 DEF Add, BeginAdd
    <3>3. /\ tray'[p].owner /\ tray'[p].tip = tip
          /\ tray'[p].added = tray[p].added
          /\ tray'[p].useGuid = tray[p].useGuid
      BY <3>2 DEF TrayObjects
    <3>4. /\ calling'[p] = IF tray'[p].useGuid THEN "delete" ELSE "add"
          /\ \A q \in Starts : q # p => calling'[q] = calling[q]
      BY <3>1, <3>3 DEF Add, BeginAdd, TrayObjects
    <3>5. ~tray[p].added /\ p \in window
      BY <2>6 DEF AddIcon, Go
    <3>6. /\ at'[p] = "adding" /\ window' = window
          /\ \A q \in Starts : q # p => at'[q] = at[q]
      BY <2>6 DEF AddIcon, Go
    <3>7. ASSUME NEW q \in Starts, q # p
          PROVE  /\ at'[q] = at[q] /\ tray'[q] = tray[q]
                 /\ calling'[q] = calling[q] /\ wanted'[q] = wanted[q]
      BY <3>2, <3>4, <3>6, <3>7
    <3>8. tray'[p].tip = wanted'[p] /\ ~tray'[p].added
      BY <3>2, <3>3, <3>5
    <3> QED
      BY <3>3, <3>4, <3>5, <3>6, <3>7, <3>8
  <2>7. CASE Added(p)
    BY <2>7 DEF Added, Rest, Go, trayVars
  <2>8. CASE QuitBox(p)
    BY <2>8 DEF QuitBox, LeaveBox, Rest, Go, trayVars
  <2>9. CASE StartWorker(p)
    BY <2>9 DEF StartWorker, Go, trayVars
  <2>10. CASE StopWorker(p)
    BY <2>10 DEF StopWorker, Go, trayVars
  <2>11. CASE RemoveIcon(p)
    BY <2>11 DEF RemoveIcon, Remove, Go, TrayObjects
  <2>12. CASE DeleteStale(p) /\ UNCHANGED processVars
    BY <2>12 DEF DeleteStale, processVars
  <2>13. CASE TryAdd(p) /\ UNCHANGED processVars
    BY <2>13 DEF TryAdd, Accepts, processVars, TrayObjects
  <2>14. CASE AddRefused(p) /\ UNCHANGED processVars
    BY <2>14 DEF AddRefused, processVars, TrayObjects
  <2> QED
    BY <1>3, <2>1, <2>2, <2>3, <2>4, <2>5, <2>6, <2>7, <2>8, <2>9, <2>10,
       <2>11, <2>12, <2>13, <2>14 DEF Process
<1>4. ASSUME NEW p \in Starts, User(p)
      PROVE  ObjectInv'
  <2>1. ASSUME NEW c \in Commands, Start(p, c)
        PROVE  ObjectInv'
    BY <2>1 DEF Start, CreateMutex, trayVars
  <2>2. ASSUME NEW c \in Commands, MutexRefused(p, c)
        PROVE  ObjectInv'
    BY <2>2 DEF MutexRefused, Go, trayVars
  <2>3. CASE AnswerBox(p)
    BY <2>3 DEF AnswerBox, LeaveBox, Rest, Go, trayVars
  <2>4. CASE UpdateTray(p)
    BY <2>4 DEF UpdateTray, SetTooltip, processVars, TrayObjects
  <2>5. CASE Exit(p)
    BY <2>5 DEF Exit, Pumps, Rest, ShellInv
  <2>6. CASE Kill(p)
    BY <2>6 DEF Kill, ObjectGone, NewTray
  <2> QED
    BY <1>4, <2>1, <2>2, <2>3, <2>4, <2>5, <2>6 DEF User
<1>5. ASSUME NEW p \in Starts, Messages(p)
      PROVE  ObjectInv'
  <2>1. CASE HandleTaskbarCreated(p)
    <3>1. /\ tray' = [tray EXCEPT ![p].added = FALSE]
          /\ calling' = [calling EXCEPT
                           ![p] = IF tray[p].useGuid THEN "delete" ELSE "add"]
      BY <2>1 DEF HandleTaskbarCreated, Recreate, BeginAdd, TrayObjects
    <3> QED
      BY <2>1, <3>1
         DEF HandleTaskbarCreated, Pumps, processVars, TrayObjects
  <2>2. ASSUME NEW q \in Starts, HandleCommand(p, q)
        PROVE  ObjectInv'
    BY <2>2 DEF HandleCommand, trayVars
  <2> QED
    BY <1>5, <2>1, <2>2 DEF Messages
<1> QED
  BY <1>2, <1>3, <1>4, <1>5 DEF Next

(* A process at work on its icon is the only one that has an icon.         *)
LEMMA OnlyInstance ==
  ASSUME IInv, NEW p \in Starts, IsInstance(p),
         NEW q \in Starts, q # p
  PROVE  /\ calling[q] = "none"
         /\ q \notin window
         /\ \A i \in Identities : shell[i].window = q => at[q] = "gone"
BY DEF IInv, MutexInv, TypeOK, ProcessInv, AtMostOneInstance, IsInstance,
       InstanceStations, ObjectInv, ShellInv

(* A new tooltip changes no icon but in its tooltip.                       *)
LEMMA UpdateTrayShell ==
  ASSUME IInv, NEW p \in Starts, UpdateTray(p)
  PROVE  ShellInv'
<1>1. PICK tip \in Tips : SetTooltip(p, tip)
  BY DEF UpdateTray
<1>2. \A q \in Starts : /\ tray'[q].owner <=> tray[q].owner
                        /\ tray'[q].useGuid <=> tray[q].useGuid
  BY <1>1 DEF SetTooltip, TrayObjects, IInv, MutexInv, TypeOK
<1>3. /\ at' = at /\ calling' = calling /\ explorer' = explorer
  BY DEF UpdateTray, processVars
<1>4. shell' # shell => explorer
  BY <1>1 DEF SetTooltip, Modifies
<1>5. \A i \in Identities : shell'[i].window = shell[i].window
  BY <1>1 DEF SetTooltip, Icons, IInv, MutexInv, TypeOK
<1>6. \A i \in Identities : shell'[i] = shell[i] \/ shell[i].window = p
  BY <1>1 DEF SetTooltip, Modifies, Icons, IInv, MutexInv, TypeOK
<1>7. \A i \in Identities : shell[i].window = None => shell'[i] = NoIcon
  BY <1>6, NoneAssumption DEF IInv, ShellInv
<1>8. Guid \in Identities /\ Starts \subseteq Identities
  BY DEF Identities
<1>9. ShellInv
  BY DEF IInv
<1>10. ~explorer' => \A i \in Identities : shell'[i] = NoIcon
  BY <1>3, <1>4, <1>9 DEF ShellInv
<1>11. \A i \in Identities : shell'[i].window = None => shell'[i] = NoIcon
  BY <1>5, <1>7
<1>12. \A q \in Starts : shell'[q].window \in {None, q}
  BY <1>5, <1>8, <1>9 DEF ShellInv
<1>13. \A i \in Identities, q \in Starts :
         shell'[i].window = q /\ at'[q] # "gone" =>
           /\ IsInstance(q)'
           /\ tray'[q].owner
           /\ tray'[q].useGuid <=> i = Guid
  BY <1>2, <1>3, <1>5, <1>9 DEF ShellInv, IsInstance
<1>14. \A q \in Starts :
         calling'[q] = "add" /\ tray'[q].useGuid => shell'[Guid] = NoIcon
  BY <1>2, <1>3, <1>7, <1>8, <1>9 DEF ShellInv, NoIcon
<1> QED
  BY <1>10, <1>11, <1>12, <1>13, <1>14 DEF ShellInv

(* The icons that the shell shows stay those of the one instance.          *)
LEMMA ShellNext == IInv /\ [Next]_vars => ShellInv'
<1> SUFFICES ASSUME IInv, [Next]_vars PROVE ShellInv'
  OBVIOUS
<1> USE NoneAssumption, GuidAssumption
    DEF IInv, MutexInv, TypeOK, ShellInv, IsInstance, InstanceStations,
        Identities
<1>1. CASE UNCHANGED <<explorer, shell, at, calling, tray>>
  BY <1>1
<1>2. CASE Shell
  <2>1. CASE ExplorerStops /\ UNCHANGED processVars
    BY <2>1 DEF ExplorerStops, processVars, trayVars, NoIcon
  <2>2. CASE ExplorerStarts(window) /\ UNCHANGED processVars
    BY <2>2 DEF ExplorerStarts, processVars
  <2>3. CASE Sweep(window) /\ UNCHANGED processVars
    BY <2>3 DEF Sweep, processVars, trayVars, NoIcon
  <2> QED
    BY <1>2, <2>1, <2>2, <2>3 DEF Shell
<1>3. ASSUME NEW p \in Starts, Process(p)
      PROVE  ShellInv'
  <2>1. CASE HandOff(p) \/ CreateMainWindow(p) \/ WindowFailed(p)
             \/ OpenCache(p) \/ Added(p) \/ QuitBox(p) \/ StartWorker(p)
             \/ StopWorker(p)
    BY <2>1 DEF HandOff, CreateMainWindow, WindowFailed, OpenCache, Added,
                QuitBox, LeaveBox, StartWorker, StopWorker, Go, shellVars,
                trayVars
  <2>2. CASE End(p)
    BY <2>2 DEF End, ObjectGone, NewTray, shellVars
  <2>3. CASE AddIcon(p)
    <3>1. /\ tray'[p].owner /\ tray'[p].useGuid = tray[p].useGuid
          /\ \A q \in Starts : q # p => tray'[q] = tray[q]
      BY <2>3 DEF AddIcon, Add, BeginAdd, TrayObjects
    <3>2. /\ calling'[p] = IF tray[p].useGuid THEN "delete" ELSE "add"
          /\ \A q \in Starts : q # p => calling'[q] = calling[q]
      BY <2>3 DEF AddIcon, Add, BeginAdd, TrayObjects
    <3> QED
      BY <2>3, <3>1, <3>2 DEF AddIcon, Go, shellVars
  <2>4. CASE RemoveIcon(p)
    <3>1. IsInstance(p)
      BY <2>4 DEF RemoveIcon, Go
    <3>2. /\ tray'[p].owner = tray[p].owner
          /\ tray'[p].useGuid = tray[p].useGuid
          /\ \A q \in Starts : q # p => tray'[q] = tray[q]
      BY <2>4 DEF RemoveIcon, Remove, TrayObjects
    <3> QED
      BY <2>4, <3>1, <3>2, OnlyInstance
         DEF RemoveIcon, Remove, Identity, NoIcon, Go
  <2>5. CASE DeleteStale(p) /\ UNCHANGED processVars
    <3>1. IsInstance(p)
      BY <2>5 DEF DeleteStale, ObjectInv
    <3> QED
      BY <2>5, <3>1, OnlyInstance DEF DeleteStale, processVars, NoIcon
  <2>6. CASE TryAdd(p) /\ UNCHANGED processVars
    <3>1. IsInstance(p)
      BY <2>6 DEF TryAdd, ObjectInv
    <3>2. /\ tray'[p].owner = tray[p].owner
          /\ tray'[p].useGuid = tray[p].useGuid
          /\ \A q \in Starts : q # p => tray'[q] = tray[q]
      BY <2>6 DEF TryAdd, TrayObjects
    <3>3. \A q \in Starts : calling'[q] = "none"
      BY <2>6, <3>1, OnlyInstance DEF TryAdd
    <3> QED
      BY <2>6, <3>1, <3>2, <3>3, OnlyInstance
         DEF TryAdd, Accepts, Identity, processVars
  <2>7. CASE AddRefused(p) /\ UNCHANGED processVars
    <3>1. /\ tray'[p].owner = tray[p].owner
          /\ \A q \in Starts : q # p => tray'[q] = tray[q]
          /\ tray[p].useGuid => ~tray'[p].useGuid
          /\ ~tray[p].useGuid => ~tray'[p].useGuid
      <4>1. CASE tray[p].useGuid
        BY <2>7, <4>1 DEF AddRefused, TrayObjects
      <4>2. CASE ~tray[p].useGuid
        BY <2>7, <4>2 DEF AddRefused, TrayObjects
      <4> QED
        BY <4>1, <4>2
    <3>2. \A q \in Starts : calling'[q] = "add" => calling[q] = "add"
      BY <2>7 DEF AddRefused
    <3>3. \A i \in Identities : shell[i].window = p => ~tray[p].useGuid
      BY <2>7 DEF AddRefused, NoIcon, ObjectInv
    <3> QED
      BY <2>7, <3>1, <3>2, <3>3 DEF AddRefused, processVars, shellVars
  <2> QED
    BY <1>3, <2>1, <2>2, <2>3, <2>4, <2>5, <2>6, <2>7 DEF Process
<1>4. ASSUME NEW p \in Starts, User(p)
      PROVE  ShellInv'
  <2>1. ASSUME NEW c \in Commands, Start(p, c) \/ MutexRefused(p, c)
        PROVE  ShellInv'
    BY <2>1 DEF Start, CreateMutex, MutexRefused, Go, shellVars, trayVars
  <2>2. CASE AnswerBox(p)
    BY <2>2 DEF AnswerBox, LeaveBox, Go, shellVars, trayVars
  <2>3. CASE UpdateTray(p)
    BY <2>3, UpdateTrayShell
  <2>4. CASE Exit(p)
    BY <2>4 DEF Exit, shellVars
  <2>5. CASE Kill(p)
    BY <2>5 DEF Kill, ObjectGone, NewTray, shellVars
  <2> QED
    BY <1>4, <2>1, <2>2, <2>3, <2>4, <2>5 DEF User
<1>5. ASSUME NEW p \in Starts, Messages(p)
      PROVE  ShellInv'
  <2>1. CASE HandleTaskbarCreated(p)
    <3>1. /\ tray' = [tray EXCEPT ![p].added = FALSE]
          /\ calling' = [calling EXCEPT
                           ![p] = IF tray[p].useGuid THEN "delete" ELSE "add"]
      BY <2>1 DEF HandleTaskbarCreated, Recreate, BeginAdd, TrayObjects
    <3> QED
      BY <2>1, <3>1
         DEF HandleTaskbarCreated, shellVars, processVars, TrayObjects
  <2>2. ASSUME NEW q \in Starts, HandleCommand(p, q)
        PROVE  ShellInv'
    BY <2>2 DEF HandleCommand, shellVars, trayVars
  <2> QED
    BY <1>5, <2>1, <2>2 DEF Messages
<1> QED
  BY <1>1, <1>2, <1>3, <1>4, <1>5
     DEF Next, vars, shellVars, trayVars, processVars

(* A step that leaves a window's process, object, messages and the shell   *)
(* alone, or moves it between stations after the icon was added.           *)
LEMMA IconKept ==
  ASSUME IInv, NEW q \in window,
         at'[q] = at[q] \/ (at[q] \in {"adding", "iconBox", "start"} /\
                            at'[q] \in {"iconBox", "start", "loop"}),
         calling'[q] = calling[q], broadcasts'[q] = broadcasts[q],
         explorer' = explorer, shell' = shell, tray'[q] = tray[q],
         wanted'[q] = wanted[q]
  PROVE  IconOf(q)'
<1>1. IconOf(q)
  BY DEF IInv, IconInv
<1>2. Identity(q)' = Identity(q)
  BY DEF Identity
<1> QED
  BY <1>1, <1>2 DEF IconOf

(* A new tooltip reaches the icon when the object counts it as added.      *)
LEMMA UpdateTrayIcon ==
  ASSUME IInv, NEW p \in Starts, UpdateTray(p)
  PROVE  IconOf(p)'
<1>1. PICK tip \in Tips : SetTooltip(p, tip)
  BY DEF UpdateTray
<1>2. /\ at' = at /\ calling' = calling /\ explorer' = explorer
      /\ broadcasts' = broadcasts /\ p \in window
  BY DEF UpdateTray, processVars, Pumps
<1>3. /\ tray'[p].added <=> tray[p].added
      /\ tray'[p].useGuid <=> tray[p].useGuid
      /\ wanted'[p] = tip
  BY <1>1 DEF SetTooltip, TrayObjects, IInv, MutexInv, TypeOK
<1>4. Identity(p)' = Identity(p) /\ Identity(p) \in Identities
  BY <1>3 DEF Identity, Identities
<1>5. IconOf(p)
  BY <1>2 DEF IInv, IconInv
<1>6. ASSUME tray[p].added, explorer, shell[Identity(p)].window = p
      PROVE  shell'[Identity(p)] = [window |-> p, tip |-> tip]
  BY <1>1, <1>4, <1>6 DEF SetTooltip, Modifies, Icons, IInv, MutexInv, TypeOK
<1>7. ~tray[p].added => shell' = shell
  BY <1>1 DEF SetTooltip, Modifies
<1>8. CASE tray[p].added
  BY <1>2, <1>3, <1>4, <1>5, <1>6, <1>8 DEF IconOf
<1>9. CASE ~tray[p].added
  BY <1>2, <1>3, <1>5, <1>7, <1>9 DEF IconOf
<1> QED
  BY <1>8, <1>9

(* The last call of Add leaves an icon: the one it added, or one that was  *)
(* there and that made the shell refuse.                                   *)
LEMMA AddIcons ==
  ASSUME IInv, NEW p \in window, TryAdd(p) \/ AddRefused(p),
         UNCHANGED processVars
  PROVE  IconOf(p)'
<1>1. p \in Starts
  BY DEF IInv, MutexInv, TypeOK
<1>2. ObjectInv /\ ShellInv
  BY DEF IInv
<1>3. CASE TryAdd(p)
  <2>1. /\ tray'[p].useGuid <=> tray[p].useGuid
        /\ tray'[p].added
        /\ wanted' = wanted
    BY <1>1, <1>3 DEF TryAdd, TrayObjects, IInv, MutexInv, TypeOK
  <2>2. Identity(p)' = Identity(p) /\ Identity(p) \in Identities
    BY <1>1, <2>1 DEF Identity, Identities
  <2>3. shell'[Identity(p)] = [window |-> p, tip |-> tray[p].tip]
    BY <1>3, <2>2 DEF TryAdd, IInv, MutexInv, TypeOK
  <2>4. tray[p].tip = wanted[p]
    BY <1>1, <1>2 DEF ObjectInv
  <2> QED
    BY <2>1, <2>2, <2>3, <2>4 DEF IconOf
<1>4. CASE AddRefused(p) /\ tray[p].useGuid
  <2>1. calling'[p] = "add"
    BY <1>4 DEF AddRefused
  <2> QED
    BY <2>1 DEF IconOf
<1>5. CASE AddRefused(p) /\ ~tray[p].useGuid
  <2>1. /\ ~tray'[p].added
        /\ ~tray'[p].useGuid
        /\ shell' = shell /\ explorer' = explorer
        /\ broadcasts' = broadcasts
    BY <1>1, <1>5
       DEF AddRefused, shellVars, TrayObjects, IInv, MutexInv, TypeOK
  <2>2. ASSUME explorer, at[p] \in {"adding", "iconBox", "start", "loop"}
        PROVE  shell[p] # NoIcon
    BY <1>1, <1>2, <1>5, <2>2 DEF AddRefused, Accepts, Identity, ObjectInv
  <2>3. shell[p] # NoIcon => shell[p].window = p
    BY <1>1, <1>2 DEF ShellInv, Identities
  <2> QED
    BY <2>1, <2>2, <2>3 DEF IconOf, processVars
<1> QED
  BY <1>3, <1>4, <1>5

(* What a window shows survives every step of every process and the shell. *)
LEMMA IconNext == IInv /\ [Next]_vars => IconInv'
<1> SUFFICES ASSUME IInv, [Next]_vars, NEW q \in window'
             PROVE  IconOf(q)'
  BY DEF IconInv
<1>1. /\ TypeOK /\ ProcessInv /\ AtMostOneInstance /\ ObjectInv /\ ShellInv
      /\ window \subseteq Starts
      /\ \A p \in Starts : p \in window => IsInstance(p)
  BY DEF IInv, MutexInv, TypeOK, ProcessInv, IsInstance, InstanceStations
<1>2. CASE UNCHANGED vars
  BY <1>2, IconKept DEF vars, shellVars, trayVars, processVars
<1>3. CASE Shell
  <2>1. CASE ExplorerStops
    BY <2>1 DEF ExplorerStops, IconOf
  <2>2. CASE ExplorerStarts(window) /\ UNCHANGED processVars
    BY <1>1, <2>2 DEF ExplorerStarts, processVars, IconOf, TypeOK
  <2>3. CASE Sweep(window) /\ UNCHANGED processVars
    <3>1. q \in window /\ q \in Starts /\ IconOf(q)
      BY <1>1, <2>3 DEF processVars, IInv, IconInv
    <3>2. \A i \in Identities :
            shell[i].window \in window => shell'[i] = shell[i]
      BY <1>1, <2>3 DEF Sweep, TypeOK
    <3>3. Identity(q)' = Identity(q) /\ Identity(q) \in Identities
          /\ q \in Identities
      BY <2>3, <3>1 DEF Sweep, trayVars, Identity, Identities
    <3> QED
      BY <2>3, <3>1, <3>2, <3>3 DEF Sweep, trayVars, processVars, IconOf
  <2> QED
    BY <1>3, <2>1, <2>2, <2>3 DEF Shell
<1>4. ASSUME NEW p \in Starts, Process(p)
      PROVE  IconOf(q)'
  <2>1. CASE HandOff(p) \/ End(p)
    <3>1. at'[p] \in {"end", "gone"} /\ window' = window
      BY <1>1, <2>1 DEF HandOff, End, Go, TypeOK
    <3>2. CASE q = p
      BY <3>1, <3>2 DEF IconOf
    <3>3. CASE q # p
      BY <1>1, <2>1, <3>1, <3>3, IconKept
         DEF HandOff, End, Go, ObjectGone, TypeOK, trayVars, shellVars
    <3> QED
      BY <3>2, <3>3
  <2>2. CASE CreateMainWindow(p) \/ WindowFailed(p) \/ OpenCache(p)
    <3>1. at'[p] \in {"open", "windowBox", "add", "cacheBox"}
          /\ window' \subseteq window \cup {p}
      BY <1>1, <2>2 DEF CreateMainWindow, WindowFailed, OpenCache, Go, TypeOK
    <3>2. CASE q = p
      BY <3>1, <3>2 DEF IconOf
    <3>3. CASE q # p
      BY <1>1, <2>2, <3>1, <3>3, IconKept
         DEF CreateMainWindow, WindowFailed, OpenCache, Go, TypeOK, trayVars,
             shellVars
    <3> QED
      BY <3>2, <3>3
  <2>3. CASE Added(p) \/ QuitBox(p) \/ StartWorker(p)
    BY <1>1, <2>3, IconKept
       DEF Added, QuitBox, LeaveBox, StartWorker, Go, TypeOK, trayVars,
           shellVars
  <2>4. CASE AddIcon(p)
    <3>1. /\ calling'[p] # "none"
          /\ at[p] = "add" /\ window' = window
      BY <1>1, <2>4 DEF AddIcon, Add, BeginAdd, Go, TypeOK
    <3>2. q = p
      BY <1>1, <3>1 DEF AtMostOneInstance, IsInstance, InstanceStations
    <3> QED
      BY <3>1, <3>2 DEF IconOf
  <2>5. CASE StopWorker(p) \/ RemoveIcon(p)
    <3>1. IsInstance(p) /\ p \notin window /\ window' = window
      BY <1>1, <2>5
         DEF StopWorker, RemoveIcon, Go, IsInstance, InstanceStations,
             ProcessInv
    <3> QED
      BY <1>1, <3>1 DEF AtMostOneInstance
  <2>6. CASE (DeleteStale(p) \/ TryAdd(p) \/ AddRefused(p))
             /\ UNCHANGED processVars
    <3>1. IsInstance(p) /\ p \in window /\ window' = window
      BY <1>1, <2>6
         DEF DeleteStale, TryAdd, AddRefused, ObjectInv, processVars
    <3>2. q = p
      BY <1>1, <3>1 DEF AtMostOneInstance
    <3>3. CASE DeleteStale(p)
      BY <1>1, <3>2, <3>3 DEF DeleteStale, IconOf, TypeOK
    <3> QED
      BY <2>6, <3>1, <3>2, <3>3, AddIcons
  <2> QED
    BY <1>4, <2>1, <2>2, <2>3, <2>4, <2>5, <2>6 DEF Process
<1>5. ASSUME NEW p \in Starts, User(p)
      PROVE  IconOf(q)'
  <2>1. ASSUME NEW c \in Commands, Start(p, c) \/ MutexRefused(p, c)
        PROVE  IconOf(q)'
    <3>1. at[p] = "idle" /\ window' = window
          /\ \A r \in Starts : r # p => at'[r] = at[r]
      BY <1>1, <2>1 DEF Start, CreateMutex, MutexRefused, Go, TypeOK
    <3>2. q # p
      BY <1>1, <3>1 DEF IsInstance, InstanceStations
    <3> QED
      BY <1>1, <2>1, <3>1, <3>2, IconKept
         DEF Start, MutexRefused, trayVars, shellVars
  <2>2. CASE AnswerBox(p)
    <3>1. \/ /\ at[p] \in {"windowBox", "cacheBox"}
             /\ at'[p] \in {"leave", "add"}
          \/ at[p] = "iconBox" /\ at'[p] = "start"
      BY <1>1, <2>2 DEF AnswerBox, LeaveBox, Go, TypeOK
    <3>2. window' = window /\ \A r \in Starts : r # p => at'[r] = at[r]
      BY <1>1, <2>2 DEF AnswerBox, LeaveBox, Go, TypeOK
    <3>3. CASE at'[p] \in {"leave", "add"} /\ q = p
      BY <3>3 DEF IconOf
    <3>4. CASE at'[p] = "start" \/ q # p
      BY <1>1, <2>2, <3>1, <3>2, <3>4, IconKept
         DEF AnswerBox, LeaveBox, trayVars, shellVars
    <3> QED
      BY <3>1, <3>3, <3>4
  <2>3. CASE UpdateTray(p)
    <3>1. IsInstance(p) /\ window' = window
      BY <1>1, <2>3 DEF UpdateTray, Pumps, processVars
    <3>2. q = p
      BY <1>1, <3>1 DEF AtMostOneInstance
    <3> QED
      BY <2>3, <3>2, UpdateTrayIcon
  <2>4. CASE Exit(p)
    <3>1. IsInstance(p) /\ window' = window \ {p}
      BY <1>1, <2>4 DEF Exit, Pumps
    <3> QED
      BY <1>1, <3>1 DEF AtMostOneInstance
  <2>5. CASE Kill(p)
    <3>1. IsInstance(p) /\ window' = window \ {p}
      BY <1>1, <2>5 DEF Kill, IsInstance
    <3> QED
      BY <1>1, <3>1 DEF AtMostOneInstance
  <2> QED
    BY <1>5, <2>1, <2>2, <2>3, <2>4, <2>5 DEF User
<1>6. ASSUME NEW p \in Starts, Messages(p)
      PROVE  IconOf(q)'
  <2>1. CASE HandleTaskbarCreated(p)
    <3>1. calling'[p] # "none" /\ p \in window /\ window' = window
      BY <1>1, <2>1
         DEF HandleTaskbarCreated, Pumps, Recreate, BeginAdd, processVars,
             TypeOK
    <3>2. q = p
      BY <1>1, <3>1 DEF AtMostOneInstance
    <3> QED
      BY <3>1, <3>2 DEF IconOf
  <2>2. ASSUME NEW r \in Starts, HandleCommand(p, r)
        PROVE  IconOf(q)'
    BY <2>2, IconKept DEF HandleCommand, shellVars, trayVars
  <2> QED
    BY <1>6, <2>1, <2>2 DEF Messages
<1> QED
  BY <1>2, <1>3, <1>4, <1>5, <1>6 DEF Next

-----------------------------------------------------------------------------
(* The whole invariant is inductive.                                       *)
LEMMA Invariant == Spec => []IInv
<1>1. IInv /\ [Next]_vars => IInv'
  BY TypeNext, ProcessNext, ObjectNext, ShellNext, IconNext DEF IInv, MutexInv
<1> QED
  BY IconInit, <1>1, PTL DEF Spec

(* At most one icon of a process that runs, whatever identity Add ended    *)
(* with (TrayIcon::Add).                                                   *)
THEOREM OneIconOnly == Spec => []OneIcon
<1>1. IInv => OneIcon
  <2> SUFFICES ASSUME IInv, NEW i \in Identities, NEW j \in Identities,
                      shell[i].window # None, shell[j].window # None,
                      at[shell[i].window] # "gone",
                      at[shell[j].window] # "gone"
               PROVE  i = j
    BY DEF OneIcon
  <2>1. shell[i].window \in Starts /\ shell[j].window \in Starts
    BY DEF IInv, MutexInv, TypeOK, Icons
  <2>2. shell[i].window = shell[j].window
    BY <2>1 DEF IInv, ShellInv, MutexInv, AtMostOneInstance
  <2>3. tray[shell[i].window].useGuid <=> i = Guid
    BY <2>1 DEF IInv, ShellInv
  <2>4. tray[shell[i].window].useGuid <=> j = Guid
    BY <2>1, <2>2 DEF IInv, ShellInv
  <2>5. i = Guid <=> j = Guid
    BY <2>3, <2>4
  <2>6. ASSUME i # Guid
        PROVE  i = j
    <3>1. i \in Starts /\ j \in Starts
      BY <2>5, <2>6 DEF Identities
    <3>2. i = shell[i].window /\ j = shell[j].window
      BY <3>1 DEF IInv, ShellInv
    <3> QED
      BY <2>2, <3>2
  <2> QED
    BY <2>5, <2>6
<1> QED
  BY Invariant, <1>1, PTL

(* A window whose messages are handled is at a station after Add.          *)
LEMMA SettledIcon ==
  ASSUME IInv, NEW p \in Starts, Settled(p), at[p] # "cacheBox"
  PROVE  IF tray[p].added
         THEN shell[Identity(p)] = [window |-> p, tip |-> wanted[p]]
         ELSE ~tray[p].useGuid /\ shell[p].window = p
<1>1. p \in window /\ calling[p] = "none" /\ at[p] \in {"iconBox", "loop"}
  BY DEF Settled, Pumps, Rest
<1> QED
  BY <1>1 DEF IInv, IconInv, IconOf, Settled

(* Explorer's restarts never leave the instance without an icon            *)
(* (TrayIcon::Recreate, App::HandleMessage).                               *)
THEOREM IconStays == Spec => []IconIsShown
<1>1. IInv => IconIsShown
  <2> SUFFICES ASSUME IInv, NEW p \in Starts, Settled(p), at[p] # "cacheBox"
               PROVE  \E i \in Identities : shell[i].window = p
    BY DEF IconIsShown
  <2>1. Identity(p) \in Identities /\ p \in Identities
    BY DEF Identity, Identities
  <2>2. CASE tray[p].added
    <3>1. shell[Identity(p)] = [window |-> p, tip |-> wanted[p]]
      BY <2>2, SettledIcon
    <3>2. shell[Identity(p)].window = p
      BY <3>1
    <3> QED
      BY <2>1, <3>2
  <2>3. CASE ~tray[p].added
    BY <2>1, <2>3, SettledIcon
  <2> QED
    BY <2>2, <2>3
<1> QED
  BY Invariant, <1>1, PTL

(* An icon that counts as added has the last tooltip asked for             *)
(* (TrayIcon::SetTooltip); one that does not is not under the GUID.        *)
THEOREM TooltipFollows == Spec => []TooltipIsCurrent
<1>1. IInv => TooltipIsCurrent
  BY SettledIcon DEF TooltipIsCurrent
<1> QED
  BY Invariant, <1>1, PTL
=============================================================================
