----------------------------- MODULE MCSession -----------------------------
(***************************************************************************)
(* Small instances of Session for TLC.  A behaviour plays one scene, which *)
(* binds only the network, the caster and the operator: which connection   *)
(* may ask for which character, how many tasks the network leaves waiting, *)
(* and the states the world is put in.                                     *)
(***************************************************************************)
EXTENDS Session

CONSTANTS
  Scenes,             \* the scenes of this instance
  First, Second,      \* sets of connections of players
  Late,               \* one that comes while a takeover waits
  Full                \* a watcher who comes when the cast is full

VARIABLE scene

\* Two characters of one account, one of another, and a gamemaster.  In the cfg Ben may
\* always enter too, so that with one seat it is the account that keeps him out.
Characters == {"Ana", "Ben", "Cid", "Gm"}
Accounts == [n \in Characters |-> CASE n \in {"Ana", "Ben"} -> 1 [] n = "Cid" -> 2 [] n = "Gm" -> 3]

Scene(asks, tasks, states) == [asks |-> asks, tasks |-> tasks, states |-> states]
Plays(s) ==
  CASE s = "takeover" -> Scene((First \cup Second \cup Late) \X {"Ana"}, 1, {"normal"})
    [] s = "account"  -> Scene(First \X {"Ana", "Ben"} \cup Second \X {"Ana"}, 2, {"normal"})
    [] s = "room"     -> Scene((First \cup Second) \X {"Ana", "Cid"}, 1, {"normal"})
    [] s = "closing"  -> Scene(First \X {"Ana"} \cup Second \X {"Gm"}, 1,
                               {"normal", "closing", "closed"})
    [] s = "kicked"   -> Scene((First \cup Second) \X {"Ana"}, 1, {"normal", "closed"})
    [] s = "cast"     -> Scene((First \cup Watchers) \X {"Ana"}, 1, {"normal"})

Comes(p) == conn[p] = "none" /\ conn'[p] # "none"

\* While the late connection is there no other comes; nobody takes over in the room.
\* The watcher who is refused is served at once, and ends the scene.
Turns(p) ==
  IF p \in Full THEN Len(cSpectators) = MaxViewers /\ m_taskList = <<>>
  ELSE IF p \in Late THEN m_eventConnect # {} /\ m_taskList = <<>>
  ELSE /\ \A q \in Late : conn[q] = "none"
       /\ scene = "room" => getPlayersByName(character'[p]) = {}

Refused ==
  \A q \in Full : \/ conn[q] = "none"
                  \/ conn[q] = "open" /\ m_refCount[q] = 0 /\ m_refCount'[q] > 0

SceneInit == Init /\ scene \in Scenes
SceneNext ==
  /\ Next
  /\ \A p \in Protocols : Comes(p) => <<p, character'[p]>> \in Plays(scene).asks /\ Turns(p)
  /\ Refused
  /\ Network => Len(m_taskList) < Plays(scene).tasks
  /\ gameState' \in Plays(scene).states
  /\ castAutoList' # {} => scene = "cast"
  /\ UNCHANGED scene

SceneSpec == SceneInit /\ [][SceneNext]_<<vars, scene>>
LiveScenes == SceneSpec /\ Fairness
=============================================================================
