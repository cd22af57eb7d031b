----------------------------- MODULE MCSettings -----------------------------
(***************************************************************************)
(* The dialog and the file of the key, checked by one run.  They share no  *)
(* variable (the dialog knows a key as stored or not): the first state     *)
(* chooses which of them runs, and the other stays as it was.              *)
(***************************************************************************)
EXTENDS SettingsDialog, SecretStore

VARIABLE part  \* the part that runs

SettingsInit ==
  /\ part \in {"dialog", "key file"}
  /\ Init /\ StoreInit
  /\ part = "dialog" => file = NoFile
  /\ part = "key file" =>
       keyFile = NoKey /\ registry = CHOOSE r \in Registries : TRUE

SettingsNext ==
  /\ UNCHANGED part
  /\ \/ part = "dialog" /\ Next /\ UNCHANGED storeVars
     \/ part = "key file" /\ StoreNext /\ UNCHANGED vars

SettingsSpec == SettingsInit /\ [][SettingsNext]_<<part, vars, storeVars>>
=============================================================================
