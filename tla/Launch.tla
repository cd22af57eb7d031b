------------------------------- MODULE Launch -------------------------------
(***************************************************************************)
(* The starts of the program (app/Main.cpp, app/SingleInstance.cpp) and    *)
(* the life of the instance around its message loop (App::Run), composed   *)
(* with the icon of each process and with Explorer (TrayIcon).             *)
(*                                                                         *)
(* Every start creates or opens a named mutex.  The one that creates it is *)
(* the instance; every other looks for the instance's window, posts its    *)
(* command there and ends.  A process holds its handle to the end, also    *)
(* when it only handed a command over.                                     *)
(*                                                                         *)
(* SearchWindow and LoopOnly are faulty variants of the definition that    *)
(* follows them; no action uses them.                                      *)
(***************************************************************************)
EXTENDS TrayIcon

CONSTANT Commands   \* what a start is asked to do

VARIABLES
  at,        \* where each start is
  handles,   \* the processes with a handle of the mutex
  window,    \* the processes whose main window exists
  working,   \* the processes whose worker runs
  command,   \* what each start is to do
  fate       \* what became of the command of each start

processVars == <<at, handles, window, working, command, fate>>
vars == <<shellVars, trayVars, processVars>>

Fates == {"none", "posted", "handled", "dropped", "lost"}

Init ==
  /\ TrayInit
  /\ at = [p \in Starts |-> "idle"]
  /\ handles = {} /\ window = {} /\ working = {}
  /\ command = [p \in Starts |-> None]
  /\ fate = [p \in Starts |-> "none"]

(* The stations of the one that created the mutex, from wWinMain's call of *)
(* App::Run to the end of it.                                              *)
InstanceStations == {"create", "windowBox", "open", "cacheBox", "add",
                     "adding", "iconBox", "start", "loop", "remove", "leave"}

Go(p, from, to) == at[p] = from /\ at' = [at EXCEPT ![p] = to]

SearchWindow(p) ==
  /\ handles' = handles \cup {p}
  /\ at' = [at EXCEPT ![p] = IF window = {} THEN "create" ELSE "handOff"]

(* SingleInstance: create-or-open is one call; the last error tells which. *)
CreateMutex(p) ==
  /\ handles' = handles \cup {p}
  /\ at' = [at EXCEPT ![p] = IF handles = {} THEN "create" ELSE "handOff"]

Start(p, c) ==
  /\ at[p] = "idle"
  /\ CreateMutex(p)
  /\ command' = [command EXCEPT ![p] = c]
  /\ UNCHANGED <<shellVars, trayVars, window, working, fate>>

(* CreateMutexW fails: the start does not count as the instance.           *)
MutexRefused(p, c) ==
  /\ Go(p, "idle", "handOff")
  /\ command' = [command EXCEPT ![p] = c]
  /\ UNCHANGED <<shellVars, trayVars, handles, window, working, fate>>

(* SignalExistingInstance, whose answer wWinMain ignores.                  *)
HandOff(p) ==
  /\ Go(p, "handOff", "end")
  /\ fate' = [fate EXCEPT ![p] = IF window # {} THEN "posted" ELSE "lost"]
  /\ UNCHANGED <<shellVars, trayVars, handles, window, working, command>>

(* ~SingleInstance, the last thing a process does.                         *)
End(p) ==
  /\ at[p] \in {"end", "leave"}
  /\ at' = [at EXCEPT ![p] = "gone"]
  /\ handles' = handles \ {p}
  /\ ObjectGone(p)
  /\ UNCHANGED <<shellVars, window, working, command, fate>>

-----------------------------------------------------------------------------
(* App::Run.                                                               *)

CreateMainWindow(p) ==
  /\ Go(p, "create", "open")
  /\ window' = window \cup {p}
  /\ UNCHANGED <<shellVars, trayVars, handles, working, command, fate>>

WindowFailed(p) ==
  /\ Go(p, "create", "windowBox")
  /\ UNCHANGED <<shellVars, trayVars, handles, window, working, command,
                 fate>>

(* The cache opens, or a message box asks what to do.                      *)
OpenCache(p) ==
  /\ Go(p, "open", "add") \/ Go(p, "open", "cacheBox")
  /\ UNCHANGED <<shellVars, trayVars, handles, window, working, command,
                 fate>>

Rest(p) == calling[p] = "none"

AddIcon(p) ==
  /\ Go(p, "add", "adding")
  /\ \E tip \in Tips : Add(p, tip)
  /\ UNCHANGED <<shellVars, broadcasts, handles, window, working, command,
                 fate>>

Added(p) ==
  /\ Rest(p)
  /\ Go(p, "adding", IF tray[p].added THEN "start" ELSE "iconBox")
  /\ UNCHANGED <<shellVars, trayVars, handles, window, working, command,
                 fate>>

(* A message box returns when the user answers it, and by itself when the  *)
(* main window was destroyed beneath it.                                   *)
LeaveBox(p) ==
  /\ Rest(p)
  /\ \/ Go(p, "windowBox", "leave")
     \/ Go(p, "cacheBox", "add")
     \/ Go(p, "iconBox", "start")
  /\ UNCHANGED <<shellVars, trayVars, handles, window, working, command,
                 fate>>

AnswerBox(p) == (p \in window \/ at[p] = "windowBox") /\ LeaveBox(p)
QuitBox(p) == at[p] = "iconBox" /\ p \notin window /\ LeaveBox(p)

StartWorker(p) ==
  /\ Go(p, "start", "loop")
  /\ working' = working \cup {p}
  /\ UNCHANGED <<shellVars, trayVars, handles, window, command, fate>>

LoopOnly(p) == at[p] = "loop" /\ p \in window /\ Rest(p)

(* Messages are dispatched in the loop and in the loop of a message box.   *)
Pumps(p) ==
  at[p] \in {"cacheBox", "iconBox", "loop"} /\ p \in window /\ Rest(p)

(* A registered message of another start.  A refresh sets an event that    *)
(* exists only when the worker was started.                                *)
HandleCommand(p, q) ==
  /\ Pumps(p)
  /\ fate[q] = "posted"
  /\ fate' = [fate EXCEPT ![q] =
                IF command[q] = "refresh" /\ p \notin working
                THEN "dropped" ELSE "handled"]
  /\ UNCHANGED <<shellVars, trayVars, at, handles, window, working, command>>

HandleTaskbarCreated(p) ==
  /\ Pumps(p)
  /\ broadcasts[p] > 0
  /\ broadcasts' = [broadcasts EXCEPT ![p] = @ - 1]
  /\ Recreate(p)
  /\ UNCHANGED <<shellVars, wanted, processVars>>

(* A message of the worker or the end of the settings dialog.              *)
UpdateTray(p) ==
  /\ Pumps(p)
  /\ \E tip \in Tips : SetTooltip(p, tip)
  /\ UNCHANGED <<explorer, restarts, guidBound, calling, broadcasts,
                 processVars>>

(* Exit is an item of the menu of the icon.  The messages of the window    *)
(* are gone with it.                                                       *)
Exit(p) ==
  /\ Pumps(p)
  /\ \E i \in Identities : shell[i].window = p
  /\ window' = window \ {p}
  /\ fate' = [q \in Starts |-> IF fate[q] = "posted" THEN "lost" ELSE fate[q]]
  /\ broadcasts' = [broadcasts EXCEPT ![p] = 0]
  /\ UNCHANGED <<shellVars, tray, calling, wanted, at, handles, working,
                 command>>

(* GetMessageW returns 0; Stop joins the worker.                           *)
StopWorker(p) ==
  /\ p \notin window
  /\ Go(p, "loop", "remove")
  /\ working' = working \ {p}
  /\ UNCHANGED <<shellVars, trayVars, handles, window, command, fate>>

RemoveIcon(p) ==
  /\ Go(p, "remove", "leave")
  /\ Remove(p)
  /\ UNCHANGED <<explorer, restarts, guidBound, calling, broadcasts, wanted,
                 handles, window, working, command, fate>>

(* The process is ended from outside; its icon stays with the shell.       *)
Kill(p) ==
  /\ at[p] \in InstanceStations
  /\ at' = [at EXCEPT ![p] = "gone"]
  /\ handles' = handles \ {p}
  /\ window' = window \ {p}
  /\ working' = working \ {p}
  /\ fate' = IF p \in window
             THEN [q \in Starts |->
                     IF fate[q] = "posted" THEN "lost" ELSE fate[q]]
             ELSE fate
  /\ ObjectGone(p)
  /\ UNCHANGED <<shellVars, command>>

Shell ==
  \/ ExplorerStops /\ UNCHANGED processVars
  \/ ExplorerStarts(window) /\ UNCHANGED processVars
  \/ Sweep(window) /\ UNCHANGED processVars

(* What a process does by itself.                                          *)
Process(p) ==
  \/ HandOff(p) \/ End(p) \/ CreateMainWindow(p) \/ WindowFailed(p)
  \/ OpenCache(p) \/ AddIcon(p) \/ Added(p) \/ QuitBox(p)
  \/ StartWorker(p) \/ StopWorker(p) \/ RemoveIcon(p)
  \/ (DeleteStale(p) \/ TryAdd(p) \/ AddRefused(p)) /\ UNCHANGED processVars

User(p) ==
  \/ \E c \in Commands : Start(p, c) \/ MutexRefused(p, c)
  \/ AnswerBox(p) \/ UpdateTray(p) \/ Exit(p) \/ Kill(p)

Messages(p) ==
  HandleTaskbarCreated(p) \/ \E q \in Starts : HandleCommand(p, q)

Next ==
  \/ Shell
  \/ \E p \in Starts : Process(p) \/ User(p) \/ Messages(p)

Spec == Init /\ [][Next]_vars

(* Calls of the shell and of the window system return, and a thread that   *)
(* dispatches messages gets to those that wait.                            *)
FairSpec ==
  /\ Spec
  /\ \A p \in Starts : WF_vars(Process(p)) /\ SF_vars(Messages(p))

-----------------------------------------------------------------------------
(* Every variable keeps its type; only the instance has a window, a worker *)
(* and an icon to add.                                                     *)
TypeOK ==
  /\ explorer \in BOOLEAN /\ guidBound \in BOOLEAN
  /\ restarts \in 0..MaxRestarts
  /\ shell \in [Identities -> Icons]
  /\ tray \in [Starts -> TrayObjects]
  /\ calling \in [Starts -> {"none", "delete", "add"}]
  /\ broadcasts \in [Starts -> Nat]
  /\ wanted \in [Starts -> Tips \cup {None}]
  /\ at \in [Starts -> InstanceStations \cup {"idle", "handOff", "end",
                                             "gone"}]
  /\ handles \subseteq Starts
  /\ window \subseteq handles /\ working \subseteq handles
  /\ command \in [Starts -> Commands \cup {None}]
  /\ fate \in [Starts -> Fates]

IsInstance(p) == at[p] \in InstanceStations

(* "Enforces one running instance per Windows user via a named mutex"      *)
(* (SingleInstance.h:8): of any number of starts that race with each other *)
(* and with the end of the instance, at most one is the instance.          *)
AtMostOneInstance ==
  \A p, q \in Starts : IsInstance(p) /\ IsInstance(q) => p = q

(* At most one icon that the shell shows belongs to a process that runs,   *)
(* whatever of Add's calls failed and whatever identity they ended with.   *)
OneIcon ==
  \A i, j \in Identities :
    /\ shell[i].window # None /\ shell[j].window # None
    /\ at[shell[i].window] # "gone" /\ at[shell[j].window] # "gone"
    => i = j

Settled(p) == Pumps(p) /\ explorer /\ broadcasts[p] = 0

(* Whenever Explorer runs and the thread has handled its messages, an icon *)
(* of the instance is there to click on, however often Explorer started    *)
(* again and whatever the thread was doing then.                           *)
IconIsShown ==
  \A p \in Starts :
    Settled(p) /\ at[p] # "cacheBox" => \E i \in Identities : shell[i].window = p

(* An icon that the object counts as added shows the last tooltip asked    *)
(* for, also when it was asked for while Explorer was away; an icon under  *)
(* the GUID is never one that the object has given up.                     *)
TooltipIsCurrent ==
  \A p \in Starts :
    Settled(p) /\ at[p] # "cacheBox" =>
      /\ tray[p].added =>
           shell[Identity(p)] = [window |-> p, tip |-> wanted[p]]
      /\ tray[p].added \/ shell[p].window = p

(* Every start that is not the instance ends, and its command is handled   *)
(* or the instance that should have handled it was not there to the end: a *)
(* message box of the instance does not keep a command waiting.            *)
HandOffEnds ==
  \A p \in Starts :
    at[p] = "handOff" ~>
      at[p] = "gone" /\ fate[p] \in {"handled", "dropped", "lost"}
=============================================================================
