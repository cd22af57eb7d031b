------------------------------ MODULE TrayIcon ------------------------------
(***************************************************************************)
(* The icon in the notification area (tray/TrayIcon.cpp) of each process,  *)
(* against Explorer, which may stop and start again at any time.  The shell*)
(* knows an icon by the program's GUID, which it has bound to one path of  *)
(* the executable, or by a window and a number.  Every call of             *)
(* Shell_NotifyIconW is a step of its own.                                 *)
(*                                                                         *)
(* Launch says when a process takes these steps.  RecreateIfMissing,       *)
(* RetryGuid and ReturnFirst are faulty variants of the definition that    *)
(* follows them.                                                           *)
(***************************************************************************)
EXTENDS Naturals

CONSTANTS Starts,       \* the processes, one for each start of the program
          Tips,         \* the texts of a tooltip
          MaxRestarts,  \* bound on the times Explorer starts again
          None          \* no process and no text

Guid == "guid"

ASSUME NoneAssumption == None \notin Starts /\ None \notin Tips
ASSUME GuidAssumption == Guid \notin Starts
ASSUME RestartsAssumption == MaxRestarts \in Nat

VARIABLES
  explorer,    \* the shell takes calls
  restarts,    \* the times it started again
  guidBound,   \* the shell has bound the GUID to another path
  shell,       \* the icons it shows, by identity
  tray,        \* the TrayIcon object of each process
  calling,     \* the next call of Shell_NotifyIconW that Add makes
  broadcasts,  \* "TaskbarCreated" messages that wait for its window
  wanted       \* history: the last tooltip asked for

shellVars == <<explorer, restarts, guidBound, shell>>
trayVars == <<tray, calling, broadcasts, wanted>>

Identities == Starts \cup {Guid}
Icons == [window : Starts \cup {None}, tip : Tips \cup {None}]
NoIcon == [window |-> None, tip |-> None]
TrayObjects == [owner : BOOLEAN, tip : Tips \cup {None}, added : BOOLEAN,
                useGuid : BOOLEAN]
NewTray == [owner |-> FALSE, tip |-> None, added |-> FALSE, useGuid |-> TRUE]

TrayInit ==
  /\ explorer \in BOOLEAN
  /\ restarts = 0
  /\ guidBound \in BOOLEAN
  /\ shell = [i \in Identities |-> NoIcon]
  /\ tray = [p \in Starts |-> NewTray]
  /\ calling = [p \in Starts |-> "none"]
  /\ broadcasts = [p \in Starts |-> 0]
  /\ wanted = [p \in Starts |-> None]

(* BuildData: what the shell finds the icon by.                            *)
Identity(p) == IF tray[p].useGuid THEN Guid ELSE p

(* NIM_ADD; a TrayIcon that never had an owner passes no window.           *)
Accepts(p) ==
  /\ explorer
  /\ tray[p].owner
  /\ tray[p].useGuid => ~guidBound
  /\ shell[Identity(p)] = NoIcon

(* Add with an owner, a tooltip, and the first call.                       *)
BeginAdd(p, object) ==
  /\ tray' = [tray EXCEPT ![p] = object]
  /\ calling' = [calling EXCEPT ![p] =
                   IF object.useGuid THEN "delete" ELSE "add"]

Add(p, tip) ==
  /\ BeginAdd(p, [tray[p] EXCEPT !.owner = TRUE, !.tip = tip])
  /\ wanted' = [wanted EXCEPT ![p] = tip]

RecreateIfMissing(p) ==
  IF tray[p].added THEN UNCHANGED <<tray, calling>>
  ELSE BeginAdd(p, tray[p])

RetryGuid(p) ==
  BeginAdd(p, [tray[p] EXCEPT !.added = FALSE, !.useGuid = TRUE])

(* The answer to "TaskbarCreated".                                         *)
Recreate(p) == BeginAdd(p, [tray[p] EXCEPT !.added = FALSE])

(* A registration of the GUID that lingers is cleared before the first try.*)
DeleteStale(p) ==
  /\ calling[p] = "delete"
  /\ calling' = [calling EXCEPT ![p] = "add"]
  /\ shell' = IF explorer THEN [shell EXCEPT ![Guid] = NoIcon] ELSE shell
  /\ UNCHANGED <<explorer, restarts, guidBound, tray, broadcasts, wanted>>

TryAdd(p) ==
  /\ calling[p] = "add"
  /\ Accepts(p)
  /\ calling' = [calling EXCEPT ![p] = "none"]
  /\ shell' = [shell EXCEPT ![Identity(p)] =
                 [window |-> p, tip |-> tray[p].tip]]
  /\ tray' = [tray EXCEPT ![p].added = TRUE]
  /\ UNCHANGED <<explorer, restarts, guidBound, broadcasts, wanted>>

(* The GUID is given up for good; without it the icon is given up.         *)
AddRefused(p) ==
  /\ calling[p] = "add"
  /\ ~Accepts(p)
  /\ IF tray[p].useGuid
     THEN /\ tray' = [tray EXCEPT ![p].useGuid = FALSE]
          /\ UNCHANGED calling
     ELSE /\ tray' = [tray EXCEPT ![p].added = FALSE]
          /\ calling' = [calling EXCEPT ![p] = "none"]
  /\ UNCHANGED <<shellVars, broadcasts, wanted>>

(* NIM_MODIFY of an icon that the object believes to be there; Explorer    *)
(* refuses it when it knows no such icon, and nobody looks at the answer.  *)
Modifies(p) ==
  tray[p].added /\ explorer /\ shell[Identity(p)].window = p

ReturnFirst(p, tip) ==
  /\ wanted' = [wanted EXCEPT ![p] = tip]
  /\ tray' = IF tray[p].added THEN [tray EXCEPT ![p].tip = tip] ELSE tray
  /\ shell' = IF Modifies(p)
              THEN [shell EXCEPT ![Identity(p)].tip = tip] ELSE shell

SetTooltip(p, tip) ==
  /\ wanted' = [wanted EXCEPT ![p] = tip]
  /\ tray' = [tray EXCEPT ![p].tip = tip]
  /\ shell' = IF Modifies(p)
              THEN [shell EXCEPT ![Identity(p)].tip = tip] ELSE shell

Remove(p) ==
  /\ tray' = [tray EXCEPT ![p].added = FALSE]
  /\ shell' = IF tray[p].added /\ explorer
              THEN [shell EXCEPT ![Identity(p)] = NoIcon]
              ELSE shell

(* The process ends, and with it its window and its TrayIcon.              *)
ObjectGone(p) ==
  /\ tray' = [tray EXCEPT ![p] = NewTray]
  /\ calling' = [calling EXCEPT ![p] = "none"]
  /\ broadcasts' = [broadcasts EXCEPT ![p] = 0]
  /\ wanted' = [wanted EXCEPT ![p] = None]

(* Explorer stops and forgets its icons; when it starts it tells the       *)
(* windows that exist.                                                     *)
ExplorerStops ==
  /\ explorer
  /\ restarts < MaxRestarts
  /\ explorer' = FALSE
  /\ restarts' = restarts + 1
  /\ shell' = [i \in Identities |-> NoIcon]
  /\ UNCHANGED <<guidBound, trayVars>>

ExplorerStarts(windows) ==
  /\ ~explorer
  /\ explorer' = TRUE
  /\ broadcasts' = [p \in Starts |->
                      IF p \in windows THEN broadcasts[p] + 1
                      ELSE broadcasts[p]]
  /\ UNCHANGED <<restarts, guidBound, shell, tray, calling, wanted>>

(* Explorer drops an icon whose window is gone when the pointer passes it. *)
Sweep(windows) ==
  /\ \E i \in Identities :
       /\ shell[i] # NoIcon
       /\ shell[i].window \notin windows
       /\ shell' = [shell EXCEPT ![i] = NoIcon]
  /\ UNCHANGED <<explorer, restarts, guidBound, trayVars>>
=============================================================================
