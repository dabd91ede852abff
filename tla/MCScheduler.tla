---------------------------- MODULE MCScheduler ----------------------------
(***************************************************************************)
(* Small instances, for TLC, of the scheduler, and of affairs that last    *)
(* from one event to the next: shops and conversations of NPCs, guilds,    *)
(* and wars, whose ends are events.  A behaviour plays one scene and the   *)
(* other parts rest as they began.                                         *)
(***************************************************************************)
EXTENDS Scheduler, Shops, Guilds, Wars

CONSTANT Scenes
VARIABLE scene

GameThreads == {"dispatcher", "io_service"}
MCSideOf == [p \in Soldiers |-> IF p = "x" THEN "A" ELSE "B"]

affairVars == <<scene, vars, shopVars, guildVars, warVars>>

Plays(s, next) == scene = s /\ next /\ UNCHANGED scene

AffairsInit ==
  /\ scene \in Scenes
  /\ Init /\ ShopsInit /\ WarsInit
  /\ GuildsInit /\ (scene = "guilds" \/ given = 0)

AffairsNext ==
  \/ Plays("scheduler", FreshNext) /\ UNCHANGED <<shopVars, guildVars, warVars>>
  \/ Plays("shops", ShopsNext) /\ UNCHANGED <<vars, guildVars, warVars>>
  \/ Plays("guilds", GuildsNext) /\ UNCHANGED <<vars, shopVars, warVars>>
  \/ Plays("wars", WarsNext) /\ UNCHANGED <<vars, shopVars, guildVars>>

AffairsSpec == AffairsInit /\ [][AffairsNext]_affairVars
LiveAffairs == AffairsSpec /\ (scene = "scheduler" => Fairness)
=============================================================================
