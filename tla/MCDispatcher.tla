---------------------------- MODULE MCDispatcher ----------------------------
(***************************************************************************)
(* Small instances, for TLC, of the dispatcher and of what its tasks leave *)
(* behind them: the state of the game, the rows of the database, the       *)
(* environments of scripts.  A behaviour plays one scene and the other     *)
(* parts rest as they began.                                               *)
(***************************************************************************)
EXTENDS Dispatcher, GlobalSave, Storage, Scripts

CONSTANT Scenes
VARIABLE scene

OtherThreads == {"io_service", "scheduler"}

serverVars == <<scene, vars, saveVars, storageVars, scriptVars>>

Plays(s, next) == scene = s /\ next /\ UNCHANGED scene

ServerInit ==
  /\ scene \in Scenes
  /\ Init /\ StorageInit /\ ScriptsInit
  /\ GlobalSaveInit
  /\ scene = "save" \/ (saveTimer = {} /\ gameState = "normal" /\ ~ shutsDown)

ServerNext ==
  \/ Plays("dispatcher", Next) /\ UNCHANGED <<saveVars, storageVars, scriptVars>>
  \/ Plays("save", GlobalSaveNext) /\ UNCHANGED <<vars, storageVars, scriptVars>>
  \/ Plays("storage", StorageNext) /\ UNCHANGED <<vars, saveVars, scriptVars>>
  \/ Plays("scripts", ScriptsNext) /\ UNCHANGED <<vars, saveVars, storageVars>>

ServerSpec == ServerInit /\ [][ServerNext]_serverVars

\* Only what plays is bound to go on; a save at rest has nothing to go on with.
LiveServer ==
  /\ ServerSpec
  /\ \/ scene = "dispatcher" /\ Fairness
     \/ scene # "dispatcher" /\ GlobalSaveFairness
=============================================================================
