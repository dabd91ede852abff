------------------------------ MODULE Creatures ------------------------------
(***************************************************************************)
(* Monsters: spawns, summons, the check lists (source/spawn.cpp, game.cpp, *)
(* creature.cpp, monster.cpp).                                             *)
(*                                                                         *)
(* A monster is counted as long as the map, its master, its spawn, a check *)
(* list or releaseThings refers to it.  It thinks, and dies, only while it *)
(* is in a check list; idle ones are taken out of it, lazily; a spawn has  *)
(* a timer only while one of its places is empty.                          *)
(*                                                                         *)
(* Abstractions.  One spawn.  Who sees whom, and hence when a monster is   *)
(* idle, is chosen freely; so are the friends and targets it counts left   *)
(* out.  A creature has health or has none.  The time since lastSpawn is   *)
(* enough or not.  The player does not die and does not come back.         *)
(***************************************************************************)
EXTENDS FiniteSets, Lists

CONSTANTS
  Beasts,         \* objects of monsters; free again once deleted
  Hunter,         \* a player
  NoCreature,
  Lairs,          \* the places of the spawn
  MaxDeeds        \* BOUND: what players and scripts do

NoLair == 0
Breathing == Beasts \cup {Hunter}

ASSUME CreaturesAssumption ==
  /\ Hunter \notin Beasts /\ NoCreature \notin Breathing
  /\ NoLair \notin Lairs /\ IsFiniteSet(Lairs) /\ IsFiniteSet(Beasts)
  /\ \E home \in [Lairs -> Beasts] : IsInjective(home)
  /\ MaxDeeds \in Nat

VARIABLES
  being,          \* the objects
  summons,        \* of each
  spawnedMap,     \* the monster of each place, if any
  checkSpawnEvent,
  toAddCheck,     \* toAddCheckCreatureVector; a creature is in one list, once
  checkVectors,   \* checkCreatureVectors, as one
  turn,           \* those checkCreatures has still to visit
  checking,       \* whether it is at it
  releaseList,    \* releaseThings: how often a creature is in it
  unwatched,      \* history: places emptied by a conviction with no timer running
  deeds           \* BOUND

creatureVars == <<being, summons, spawnedMap, checkSpawnEvent, toAddCheck, checkVectors, turn,
                  checking, releaseList, unwatched, deeds>>
Scene == [b |-> being, summons |-> summons, spawned |-> spawnedMap, event |-> checkSpawnEvent,
          toAdd |-> toAddCheck, free |-> releaseList, lost |-> unwatched]

NothingToRelease == [c \in Breathing |-> 0]

\* listed: checkVector is not -1
Unborn == [refs |-> 0, placed |-> FALSE, removed |-> FALSE, health |-> FALSE, master |-> NoCreature,
           isIdle |-> TRUE, checked |-> FALSE, listed |-> FALSE, spawn |-> NoLair]
createMonster == [Unborn EXCEPT !.health = TRUE]
\* One of the free objects: which one does not matter.
Free(w) == LET f == {c \in Beasts : w.b[c] = Unborn} IN IF f = {} THEN {} ELSE {CHOOSE c \in f : TRUE}
Present(w, c) == w.b[c].placed /\ ~ w.b[c].removed

-----------------------------------------------------------------------------
(* References, summons.                                                    *)

\* The destructor lets the summons go.
orphan(w, s) ==
  IF w.b[s].refs = 1 THEN [w EXCEPT !.b[s] = Unborn]
  ELSE [w EXCEPT !.b[s] = [w.b[s] EXCEPT !.refs = @ - 1, !.master = NoCreature]]
unRef(w, c) ==
  IF w.b[c].refs > 1 THEN [w EXCEPT !.b[c].refs = @ - 1]
  ELSE [InTurn(orphan, [w EXCEPT !.b[c] = Unborn], SetToSeq(w.summons[c])) EXCEPT !.summons[c] = {}]

Mutant_addSummon(w, m, c) ==            \* the master does not count
  [w EXCEPT !.b[c].master = m, !.summons[m] = @ \cup {c}]
addSummon(w, m, c) ==
  [w EXCEPT !.b[c] = [w.b[c] EXCEPT !.refs = @ + 1, !.master = m], !.summons[m] = @ \cup {c}]
removeSummon(w, m, c) ==
  IF c \notin w.summons[m] THEN w
  ELSE unRef([w EXCEPT !.b[c].master = NoCreature, !.summons[m] = @ \ {c}], c)

-----------------------------------------------------------------------------
(* The check lists.                                                        *)

addCreatureCheck(w, c) ==
  IF w.b[c].removed THEN w
  ELSE IF w.b[c].listed THEN [w EXCEPT !.b[c].checked = TRUE]
  ELSE [w EXCEPT !.b[c] = [w.b[c] EXCEPT !.refs = @ + 1, !.checked = TRUE, !.listed = TRUE],
                 !.toAdd = @ \cup {c}]
removeCreatureCheck(w, c) == IF w.b[c].listed THEN [w EXCEPT !.b[c].checked = FALSE] ELSE w

setIdle(w, c, idle) ==
  LET v == [w EXCEPT !.b[c].isIdle = idle]
  IN  IF w.b[c].removed \/ ~ w.b[c].health THEN w
      ELSE IF idle THEN removeCreatureCheck(v, c) ELSE addCreatureCheck(v, c)

Mutant_changeHealth(w, c, alive) ==     \* hurt first, and woken then
  setIdle([w EXCEPT !.b[c].health = @ /\ alive], c, FALSE)
changeHealth(w, c, alive) ==
  [setIdle(w, c, FALSE) EXCEPT !.b[c].health = @ /\ alive]

kill(w, s) == unRef([changeHealth(w, s, FALSE) EXCEPT !.b[s].master = NoCreature], s)
destroySummons(w, m) == [InTurn(kill, w, SetToSeq(w.summons[m])) EXCEPT !.summons[m] = {}]

-----------------------------------------------------------------------------
(* Into the world, and out of it.                                          *)

startEvent(w) == [w EXCEPT !.event = TRUE, !.lost = {}]

\* idle: what the monster finds, looking around.
placeCreature(w, c, idle) ==
  addCreatureCheck(setIdle([w EXCEPT !.b[c] = [w.b[c] EXCEPT !.refs = @ + 1, !.placed = TRUE]], c, idle), c)

freeThing(w, c) == [w EXCEPT !.free[c] = @ + 1]

removeOne(w, c) ==
  LET seen == IF w.b[c].spawn # NoLair THEN startEvent(w) ELSE w
      asleep == IF c = Hunter THEN seen ELSE setIdle(seen, c, TRUE)
      gone == [asleep EXCEPT !.b[c].removed = TRUE]
      m == w.b[c].master
      alone == IF m # NoCreature /\ ~ gone.b[m].removed THEN removeSummon(gone, m, c) ELSE gone
  IN  IF w.b[c].removed THEN w ELSE removeCreatureCheck(freeThing(alone, c), c)

\* The summons follow; theirs have been destroyed when they became summons.
removeCreature(w, c) ==
  LET v == removeOne(w, c)
  IN  IF w.b[c].removed THEN w ELSE InTurn(removeOne, v, SetToSeq(v.summons[c]))

\* addSummon, place, and removeSummon if there was no room.
placeSummon(w, m, c, room, idle) ==
  LET v == addSummon([w EXCEPT !.b[c] = createMonster], m, c)
  IN  IF room THEN placeCreature(v, c, idle) ELSE removeSummon(v, m, c)

onDeath(w, c) ==
  LET m == w.b[c].master
      v == IF m # NoCreature THEN removeSummon(w, m, c) ELSE w
  IN  removeCreature(destroySummons(v, c), c)

-----------------------------------------------------------------------------
(* The tasks of the dispatcher.                                            *)

Become(w) ==
  /\ being' = w.b /\ summons' = w.summons /\ spawnedMap' = w.spawned
  /\ checkSpawnEvent' = w.event /\ toAddCheck' = w.toAdd /\ releaseList' = w.free
  /\ unwatched' = w.lost
NotChecking == ~ checking /\ UNCHANGED <<turn, checking, checkVectors>>

often(w, c, n) == InTurn(unRef, w, [k \in 1 .. n |-> c])
Cleaned(w) ==
  LET clean(v, c) == often(v, c, w.free[c])
  IN  InTurn(clean, [w EXCEPT !.free = NothingToRelease], SetToSeq({c \in Breathing : w.free[c] > 0}))

\* The lists are visited in rounds; at random, all of them are in this one or one is.
StartCheckCreatures ==
  /\ ~ checking
  /\ LET all == checkVectors \cup toAddCheck IN turn' \in {all} \cup {{c} : c \in all}
  /\ checkVectors' = checkVectors \cup toAddCheck
  /\ checking' = TRUE
  /\ Become([Scene EXCEPT !.toAdd = {}])
  /\ UNCHANGED deeds

\* A monster thinks: it despawns, or looks around and sleeps or wakes, or calls
\* another (unless it is somebody's).
Thought(w, c) ==
  {w}
  \cup (IF c = Hunter THEN {}
        ELSE {setIdle(removeCreature(w, c), c, TRUE)}
             \cup {setIdle(w, c, idle) : idle \in BOOLEAN}
             \cup (IF w.b[c].master # NoCreature THEN {}
                   ELSE UNION {{placeSummon(w, c, s, room, FALSE) : room \in BOOLEAN} :
                                 s \in {x \in Free(w) : Cardinality(w.summons[c]) < 1}}))

VisitOne ==
  /\ checking
  /\ \E c \in turn :
       /\ turn' = turn \ {c}
       /\ IF being[c].checked
          THEN /\ \/ ~ being[c].health /\ Become(onDeath(Scene, c))
                  \/ \E w \in Thought(Scene, c) : Become(w)  \* or the death was refused
               /\ UNCHANGED checkVectors
          ELSE /\ Become(freeThing([Scene EXCEPT !.b[c].listed = FALSE], c))
               /\ checkVectors' = checkVectors \ {c}
  /\ UNCHANGED <<checking, deeds>>

EndCheckCreatures ==
  /\ checking /\ turn = {}
  /\ checking' = FALSE
  /\ Become(Cleaned(Scene))
  /\ UNCHANGED <<turn, checkVectors, deeds>>

\* Places whose monster is gone are emptied; one of the empty ones is tried.
Deserted == {s \in Lairs : spawnedMap[s] # NoCreature /\ being[spawnedMap[s]].removed}
Emptied ==
  LET l == SetToSeq(Deserted)
  IN  InTurn(unRef, [Scene EXCEPT !.spawned = [s \in Lairs |-> IF s \in Deserted THEN NoCreature ELSE @[s]]],
             [k \in DOMAIN l |-> spawnedMap[l[k]]])
put(w, s, c, idle) ==
  LET v == placeCreature([w EXCEPT !.b[c] = createMonster], c, idle)
  IN  [v EXCEPT !.b[c] = [v.b[c] EXCEPT !.refs = @ + 1, !.spawn = s], !.spawned[s] = c]

checkSpawn ==
  /\ NotChecking
  /\ checkSpawnEvent
  /\ LET empty == {s \in Lairs : Emptied.spawned[s] = NoCreature}
     IN  \/ Become([Emptied EXCEPT !.event = empty # {}])     \* too early, or no room
         \/ \E s \in empty, c \in Free(Emptied), idle \in BOOLEAN :
              Become([put(Emptied, s, c, idle) EXCEPT !.event = empty # {s}])
  /\ UNCHANGED deeds

cleanupThings == NotChecking /\ releaseList # NothingToRelease /\ Become(Cleaned(Scene)) /\ UNCHANGED deeds

-----------------------------------------------------------------------------
(* What players and scripts do.                                            *)

Deed == NotChecking /\ deeds < MaxDeeds /\ deeds' = deeds + 1

\* Something comes into sight of c, or leaves it.
LookAround(c) ==
  /\ Deed /\ Present(Scene, c)
  /\ \E idle \in BOOLEAN : Become(setIdle(Scene, c, idle))

Hurt(c) == Deed /\ Present(Scene, c) /\ \E alive \in BOOLEAN : Become(changeHealth(Scene, c, alive))

doRemoveCreature(c) == Deed /\ Present(Scene, c) /\ Become(removeCreature(Scene, c))

HunterSummons(c) ==
  /\ Deed /\ Present(Scene, Hunter) /\ c \in Free(Scene)
  /\ \E room \in BOOLEAN : Become(placeSummon(Scene, Hunter, c, room, FALSE))

convinceCreature(c) ==
  /\ Deed /\ Present(Scene, Hunter) /\ Present(Scene, c)
  /\ being[c].master # Hunter
  /\ LET old == being[c].master
         v == destroySummons(IF old = NoCreature THEN Scene ELSE removeSummon(Scene, old, c), c)
         mine == addSummon(v, Hunter, c)
         s == being[c].spawn
         left == unRef([mine EXCEPT !.spawned[s] = NoCreature, !.b[c].spawn = NoLair,
                                    !.lost = IF v.event THEN @ ELSE @ \cup {s}], c)
     IN  \E idle \in BOOLEAN :
           Become(setIdle(IF s = NoLair THEN mine ELSE left, c, idle))

\* The spawn has started up, and the player has come.
CreaturesInit ==
  /\ LET home == CHOOSE f \in [Lairs -> Beasts] : IsInjective(f) IN
       /\ spawnedMap = home
       /\ being = [c \in Breathing |->
            IF c = Hunter THEN [createMonster EXCEPT !.refs = 2, !.placed = TRUE, !.isIdle = FALSE,
                                                     !.checked = TRUE, !.listed = TRUE]
            ELSE IF \E s \in Lairs : home[s] = c
            THEN [createMonster EXCEPT !.refs = 2, !.placed = TRUE,
                                       !.spawn = CHOOSE s \in Lairs : home[s] = c]
            ELSE Unborn]
  /\ summons = [c \in Breathing |-> {}]
  /\ checkSpawnEvent = FALSE /\ unwatched = {}
  /\ toAddCheck = {Hunter} /\ checkVectors = {}
  /\ turn = {} /\ checking = FALSE
  /\ releaseList = NothingToRelease /\ deeds = 0

CreaturesNext ==
  \/ StartCheckCreatures \/ VisitOne \/ EndCheckCreatures
  \/ checkSpawn
  \/ cleanupThings
  \/ \E c \in Beasts : \/ LookAround(c) \/ Hurt(c) \/ HunterSummons(c) \/ convinceCreature(c)
  \/ \E c \in Breathing : doRemoveCreature(c)

CreaturesSpec == CreaturesInit /\ [][CreaturesNext]_creatureVars

-----------------------------------------------------------------------------
(* Properties.                                                             *)

CreaturesTypeOK ==
  /\ \A c \in Breathing :
       /\ being[c].refs \in Nat
       /\ {being[c].placed, being[c].removed, being[c].health, being[c].isIdle, being[c].checked,
           being[c].listed} \subseteq BOOLEAN
       /\ being[c].master \in Breathing \cup {NoCreature}
       /\ being[c].spawn \in Lairs \cup {NoLair}
  /\ summons \in [Breathing -> SUBSET Beasts]
  /\ spawnedMap \in [Lairs -> Beasts \cup {NoCreature}]
  /\ {checkSpawnEvent, checking} \subseteq BOOLEAN
  /\ {toAddCheck, checkVectors, turn} \subseteq SUBSET Breathing
  /\ releaseList \in [Breathing -> Nat]
  /\ unwatched \subseteq Lairs /\ deeds \in 0..MaxDeeds

\* A creature is kept exactly as long as something refers to it, and a summon and
\* its master agree, however summons are called, convinced, killed, left behind by
\* a master who logs out, and found gone by their spawn.
CreaturesCounted ==
  \A c \in Breathing :
    /\ being[c].refs = (IF Present(Scene, c) THEN 1 ELSE 0) + releaseList[c]
                       + (IF being[c].listed THEN 1 ELSE 0)
                       + Cardinality({m \in Breathing : c \in summons[m]})
                       + Cardinality({s \in Lairs : spawnedMap[s] = c})
    /\ \A m \in Breathing : c \in summons[m] <=> being[c].master = m
    /\ being[c].listed <=> c \in toAddCheck \cup checkVectors

\* A monster that is awake, or has no health left, is in a check list and will be
\* visited there; summons do not outlive their masters; and an empty place of the
\* spawn has a timer.  It has none, though, if a conviction emptied it, which starts
\* no timer: such a place stays empty until another monster of the spawn goes.
NobodyForgotten ==
  /\ \A c \in Beasts :
       Present(Scene, c) =>
         /\ ~ being[c].isIdle \/ ~ being[c].health => being[c].checked /\ being[c].listed
         /\ being[c].master # NoCreature => ~ being[being[c].master].removed
  /\ \A s \in Lairs \ unwatched :
       spawnedMap[s] = NoCreature \/ being[spawnedMap[s]].removed => checkSpawnEvent

\* No creature is deleted while something refers to it, kept when nothing does, or left
\* alive where nobody looks after it.
CreaturesKept == CreaturesTypeOK /\ CreaturesCounted /\ NobodyForgotten
=============================================================================
