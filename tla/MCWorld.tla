------------------------------- MODULE MCWorld -------------------------------
(***************************************************************************)
(* Small instances, for TLC, of the modules of the game world and of       *)
(* PoolLocks.  A behaviour plays one scene: the component it is named for  *)
(* moves and the others rest as they began.                                *)
(***************************************************************************)
EXTENDS Party, Walk, Items, Decay, Creatures, Chat, Abilities, Targets, PoolLocks

CONSTANT Scenes
VARIABLE scene

WalkRequests ==
  {<<"playerUseItem", 1>>, <<"playerMoveItem", 1>>, <<"playerMoveCreature", 1>>,
   <<"playerRotateItem", 1>>}

\* A corpse rots to bones, a pool of blood dries, a ring burns while it is worn.
MCTypes == {"corpse", "bones", "on", "off", "pool"}
MCDecayTo == [k \in MCTypes |->
  CASE k = "corpse" -> "bones" [] k = "off" -> "never" [] OTHER -> "gone"]
MCDecayTime == [k \in MCTypes |->
  CASE k = "corpse" -> 8 [] k = "bones" -> 2 [] k = "on" -> 4 [] k = "off" -> 0 [] k = "pool" -> 6]
MCClass == [k \in MCTypes |->
  CASE k = "corpse" -> "container" [] k = "pool" -> "top" [] OTHER -> "none"]
MCEquipTo == [k \in MCTypes |-> IF k = "off" THEN "on" ELSE "never"]
MCDeEquipTo == [k \in MCTypes |-> IF k = "on" THEN "off" ELSE "never"]

\* A helmet gives a share, a star a sum and lies in stacks, a ring hides and speeds up what
\* wears it, a hat lets nobody paralyze, and so does the robe.
MCKinds == {"helm", "star", "on", "off", "hat", "rag"}
MCGives == [k \in MCKinds \cup {"robe", "rags"} |->
  CASE k = "helm" -> [GivesNothing EXCEPT !.percent = 50]
    [] k = "star" -> [GivesNothing EXCEPT !.flat = 2]
    [] k = "on" -> [GivesNothing EXCEPT !.hides = TRUE, !.speed = 3]
    [] k = "hat" -> [GivesNothing EXCEPT !.suppresses = {"paralyze"}]
    [] k = "robe" -> [GivesNothing EXCEPT !.suppresses = {"paralyze"}, !.hides = TRUE, !.flat = 1]
    [] OTHER -> GivesNothing]
MCAtLevel == [k \in MCKinds |-> IF k = "hat" THEN 2 ELSE 1]
MCWornAs == [k \in MCKinds |-> IF k = "off" THEN "on" ELSE k]
MCTakenAs == [k \in MCKinds |-> IF k = "on" THEN "off" ELSE k]
MCTurnsTo == [k \in MCKinds |->
  CASE k \in {"on", "helm"} -> {"rag"} [] k \in {"hat", "rag"} -> {"helm"} [] OTHER -> {}]
MCReplaced == {<<"hat", "helm">>, <<"rag", "helm">>}
MCAilments ==
  {[type |-> "haste", id |-> "combat", skill |-> 0, speed |-> 5],
   [type |-> "paralyze", id |-> "combat", skill |-> 0, speed |-> -5],
   [type |-> "invisible", id |-> "combat", skill |-> 0, speed |-> 0],
   [type |-> "attributes", id |-> "default", skill |-> 3, speed |-> 0],
   [type |-> "attributes", id |-> "default", skill |-> -1, speed |-> 0]}

\* The cave lies under a field: down there one sees up, and is heard; the rest is far away.
MCLevel == [p \in Spots |-> IF p = "cave" THEN 8 ELSE 7]
MCHere == {<<p, p>> : p \in Spots}
MCInSight == MCHere \cup {<<"here", "near">>, <<"near", "here">>, <<"cave", "here">>}
MCAround == MCInSight \cup {<<"here", "cave">>}
MCTooFar == {p \in Spots \X Spots : "far" \in {p[1], p[2]} /\ p[1] # p[2] /\ "near" \notin {p[1], p[2]}}
MCOrders == {<<"knight", "wolf", "imp">>, <<"imp", "wolf", "knight">>}

worldVars == <<scene, locksVars, partyVars, walkVars, itemVars, decayVars, creatureVars,
               chatVars, abilityVars, targetVars>>

Plays(s, next) == scene = s /\ next /\ UNCHANGED scene
\* Those that rest do so in one state, without a timer.
Unless(s, rest) == scene = s \/ rest

SceneInit ==
  /\ scene \in Scenes
  /\ LocksInit /\ PartyInit /\ ItemsInit /\ ChatInit
  /\ WalkInit /\ Unless("walk", creature.kind = "player" /\ creature.away = 0)
  /\ Unless("items", owed = 2)
  /\ DecayInit /\ Unless("decay", \E i \in DecayThings : item[i].kind = "corpse")
  /\ CreaturesInit
  /\ Unless("creatures", spawnedMap = CHOOSE f \in [Lairs -> Beasts] : IsInjective(f))
  /\ AbilitiesInit /\ Unless("abilities", hero.attire = "rags")
  /\ TargetsInit
  /\ Unless("targets", \A c \in Fray : fray[c].spot = (IF c = "imp" THEN NoSpot ELSE "far"))

SceneNext ==
  \/ Plays("locks", LocksNext) /\ UNCHANGED <<partyVars, walkVars, itemVars, decayVars, creatureVars,
                                  chatVars, abilityVars, targetVars>>
  \/ Plays("party", PartyNext) /\ UNCHANGED <<locksVars, walkVars, itemVars, decayVars, creatureVars,
                                  chatVars, abilityVars, targetVars>>
  \/ Plays("walk", WalkNext) /\ UNCHANGED <<locksVars, partyVars, itemVars, decayVars, creatureVars,
                                  chatVars, abilityVars, targetVars>>
  \/ Plays("items", ItemsNext) /\ UNCHANGED <<locksVars, partyVars, walkVars, decayVars, creatureVars,
                                  chatVars, abilityVars, targetVars>>
  \/ Plays("decay", DecayNext) /\ UNCHANGED <<locksVars, partyVars, walkVars, itemVars, creatureVars,
                                  chatVars, abilityVars, targetVars>>
  \/ Plays("creatures", CreaturesNext) /\ UNCHANGED <<locksVars, partyVars, walkVars, itemVars, decayVars,
                                  chatVars, abilityVars, targetVars>>
  \/ Plays("chat", ChatNext) /\ UNCHANGED <<locksVars, partyVars, walkVars, itemVars, decayVars,
                                  creatureVars, abilityVars, targetVars>>
  \/ Plays("abilities", AbilitiesNext) /\ UNCHANGED <<locksVars, partyVars, walkVars, itemVars, decayVars,
                                  creatureVars, chatVars, targetVars>>
  \/ Plays("targets", TargetsNext) /\ UNCHANGED <<locksVars, partyVars, walkVars, itemVars, decayVars,
                                  creatureVars, chatVars, abilityVars>>

\* What players carry is conserved, and what decays of it decays once (Items and Decay).
ThingsKept == ItemsConserved /\ DecaysOnce

\* What fighters are worth is what they wear and suffer, and who fights or follows another
\* may do so (Abilities and Targets).
FightersSound == AbilitiesMatch /\ TargetsHold

SceneSpec == SceneInit /\ [][SceneNext]_worldVars

\* Only what plays is bound to go on; a walk at rest has nothing to go on with.
LiveScenes ==
  /\ SceneSpec
  /\ \/ scene = "locks" /\ LocksFairness
     \/ scene # "locks" /\ WalkFairness
=============================================================================
