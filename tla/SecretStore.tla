---------------------------- MODULE SecretStore ----------------------------
(***************************************************************************)
(* The file that holds the protected API key                               *)
(* (security/DpapiSecretStore.cpp).  The settings dialog stores and        *)
(* removes the key on the user interface thread while the worker opens the *)
(* file twice at the head of a pass, in HasStoredKey and in Load.          *)
(*                                                                         *)
(* The file system is external: a handle opened without FILE_SHARE_DELETE  *)
(* makes a replacement or removal of the file fail; a loss of power keeps  *)
(* the data that was flushed, a rename that was written through, and       *)
(* perhaps what was not.                                                   *)
(*                                                                         *)
(* The envelope (magic, version, length) is abstracted to "a content is a  *)
(* whole key or it is Torn".  MoveUnflushed and IgnoreMoveError are faulty *)
(* variants of the definition that follows each; no action uses them.      *)
(***************************************************************************)
CONSTANTS ApiKeys, \* the keys the user enters
          NoFile,  \* the file does not exist
          Torn     \* a file whose data was not written completely

ASSUME ContentsAssumption ==
  NoFile \notin ApiKeys /\ Torn \notin ApiKeys \cup {NoFile}

Contents == ApiKeys \cup {NoFile, Torn}

VARIABLES
  file,     \* apikey.bin as programs see it
  disk,     \* apikey.bin as a loss of power would leave it
  tmp,      \* apikey.bin.tmp
  flushed,  \* the data of the temporary file is on the disk
  ui, key,  \* the user interface thread: in Store(key), or "Idle"
  answer,   \* what its last call returned
  wpc,      \* the worker thread
  handle,   \* the worker has the file open
  loaded,   \* the key the worker's last pass runs with
  before    \* history: the file when the user interface's call began

files == <<file, disk, tmp, flushed>>
interface == <<ui, key, answer, before>>
worker == <<wpc, handle, loaded>>
storeVars == <<files, interface, worker>>

StoreInit ==
  /\ file \in ApiKeys \cup {NoFile} /\ disk = file
  /\ tmp = NoFile /\ flushed = FALSE
  /\ ui = "Idle" /\ key = NoFile /\ answer = "none"
  /\ wpc = "Idle" /\ handle = FALSE /\ loaded = NoFile
  /\ before = file

-----------------------------------------------------------------------------
(* Store.                                                                  *)

Step(from, to) == ui = from /\ ui' = to /\ UNCHANGED <<key, before, worker>>

ReturnResult(result) ==
  /\ answer' = result
  /\ ui' = "Idle"
  /\ UNCHANGED <<key, before>>

(* DPAPI protects the key.                                                 *)
BeginStore(k) ==
  /\ ui = "Idle"
  /\ ui' = "Create"
  /\ key' = k
  /\ before' = file
  /\ answer' = "none"
  /\ UNCHANGED <<files, worker>>

(* CREATE_ALWAYS empties a file that a crash left behind.                  *)
CreateTemporary ==
  /\ Step("Create", "Write")
  /\ tmp' = Torn
  /\ flushed' = FALSE
  /\ UNCHANGED <<file, disk, answer>>

CreateFailed ==
  /\ ui = "Create"
  /\ ReturnResult("failed")
  /\ UNCHANGED <<files, worker>>

WriteTemporary ==
  /\ Step("Write", "Flush")
  /\ tmp' = key
  /\ UNCHANGED <<file, disk, flushed, answer>>

MoveUnflushed ==
  /\ Step("Flush", "Move")
  /\ UNCHANGED <<files, answer>>

FlushTemporary ==
  /\ Step("Flush", "Move")
  /\ flushed' = TRUE
  /\ UNCHANGED <<file, disk, tmp, answer>>

(* MoveFileExW, replacing and written through.                             *)
Move ==
  /\ ui = "Move"
  /\ ~handle
  /\ file' = tmp
  /\ disk' = IF flushed THEN tmp ELSE Torn
  /\ tmp' = NoFile
  /\ ReturnResult("stored")
  /\ UNCHANGED <<flushed, worker>>

(* A write, a flush or a move that fails; the move always does while the   *)
(* worker reads.                                                           *)
IgnoreMoveError ==
  /\ ui \in {"Write", "Flush", "Move"}
  /\ IF ui = "Move"
     THEN ReturnResult("stored") /\ UNCHANGED <<files, worker>>
     ELSE Step(ui, "Cleanup") /\ UNCHANGED <<files, answer>>

StepFailed ==
  /\ ui \in {"Write", "Flush", "Move"}
  /\ Step(ui, "Cleanup")
  /\ UNCHANGED <<files, answer>>

DeleteTemporary ==
  /\ ui = "Cleanup"
  /\ tmp' = NoFile
  /\ ReturnResult("failed")
  /\ UNCHANGED <<file, disk, flushed, worker>>

-----------------------------------------------------------------------------
(* Remove.  The removal of the name reaches the disk later.                *)
Remove ==
  /\ ui = "Idle"
  /\ file # NoFile => ~handle
  /\ before' = file
  /\ file' = NoFile
  /\ answer' = "removed"
  /\ UNCHANGED <<disk, tmp, flushed, ui, key, wpc, handle, loaded>>

RemoveFailed ==
  /\ ui = "Idle"
  /\ file # NoFile
  /\ before' = file
  /\ answer' = "failed"
  /\ UNCHANGED <<files, ui, key, worker>>

Settle ==
  /\ disk # file
  /\ disk' = file
  /\ UNCHANGED <<file, tmp, flushed, interface, worker>>

-----------------------------------------------------------------------------
(* The worker: HasStoredKey, then Load, each of which opens the file,      *)
(* reads it and closes it.                                                 *)

Look ==
  /\ wpc \in {"Idle", "Missing"}
  /\ wpc' = "HasStoredKey"
  /\ loaded' = NoFile
  /\ UNCHANGED <<files, interface, handle>>

OpenFile ==
  /\ wpc \in {"HasStoredKey", "Load"}
  /\ ~handle
  /\ file # NoFile
  /\ handle' = TRUE
  /\ UNCHANGED <<files, interface, wpc, loaded>>

(* There is no file, or it cannot be opened: another program has it open   *)
(* without sharing, or MoveFileExW on the other thread is replacing it.    *)
(* HasStoredKey and Load answer the same to both.                          *)
OpenFailed ==
  /\ wpc \in {"HasStoredKey", "Load"}
  /\ ~handle
  /\ wpc' = "Missing"
  /\ UNCHANGED <<files, interface, handle, loaded>>

(* HasStoredKey sees the header only; Load opens the envelope.             *)
ReadFile ==
  /\ handle
  /\ wpc = "Load" => file # Torn
  /\ handle' = FALSE
  /\ IF wpc = "HasStoredKey" THEN wpc' = "Load" /\ UNCHANGED loaded
                             ELSE wpc' = "Idle" /\ loaded' = file
  /\ UNCHANGED <<files, interface>>

(* A size or a read that fails, a header that is not ours, or, in Load, a  *)
(* protected key that DPAPI does not open.                                 *)
ReadFailed ==
  /\ handle
  /\ handle' = FALSE
  /\ wpc' = "Missing"
  /\ UNCHANGED <<files, interface, loaded>>

-----------------------------------------------------------------------------
Restart ==
  /\ ui' = "Idle" /\ answer' = "none" /\ wpc' = "Idle" /\ handle' = FALSE
  /\ loaded' = NoFile
  /\ UNCHANGED <<key, before, flushed>>

Crash ==
  /\ Restart
  /\ UNCHANGED <<file, disk, tmp>>

PowerLoss ==
  /\ Restart
  /\ file' = disk
  /\ tmp' \in IF tmp = NoFile THEN {NoFile}
              ELSE {NoFile, IF flushed THEN tmp ELSE Torn}
  /\ UNCHANGED disk

StoreNext ==
  \/ \E k \in ApiKeys : BeginStore(k)
  \/ CreateTemporary \/ CreateFailed \/ WriteTemporary \/ FlushTemporary
  \/ Move \/ StepFailed \/ DeleteTemporary
  \/ Remove \/ RemoveFailed \/ Settle
  \/ Look \/ OpenFile \/ OpenFailed \/ ReadFile \/ ReadFailed
  \/ Crash \/ PowerLoss

StoreSpec == StoreInit /\ [][StoreNext]_storeVars

-----------------------------------------------------------------------------
(* Every variable keeps its type; a temporary file that is about to be     *)
(* flushed is not flushed yet.                                             *)
StoreTypeOK ==
  /\ file \in Contents /\ disk \in Contents /\ tmp \in Contents
  /\ flushed \in BOOLEAN
  /\ ui \in {"Idle", "Create", "Write", "Flush", "Move", "Cleanup"}
  /\ key \in ApiKeys \cup {NoFile}
  /\ answer \in {"none", "stored", "removed", "failed"}
  /\ wpc \in {"Idle", "HasStoredKey", "Load", "Missing"}
  /\ handle \in BOOLEAN
  /\ loaded \in Contents
  /\ before \in Contents
  /\ ui \in {"Write", "Flush"} => ~flushed

(* The key file holds a whole key or does not exist, for every reader, at  *)
(* every moment of a Store, after a crash and after a loss of power.       *)
KeyFileIsWhole == file # Torn /\ disk # Torn

(* The answer of Store is true: "stored" means that the file holds the new *)
(* key, also after a loss of power, and "failed" that the old state of the *)
(* file is untouched.                                                      *)
AnswerIsTrue ==
  /\ answer = "stored" => file = key /\ disk = key
  /\ answer = "failed" => file = before
=============================================================================
