---------------------------- MODULE MCConnection ----------------------------
(***************************************************************************)
(* Small instances, for TLC, of what serves one client: its connection, of *)
(* which one message collects output while another is written, queued or   *)
(* released; the tiles it shows; its windows.  A behaviour plays one scene *)
(* and the other parts rest.                                               *)
(***************************************************************************)
EXTENDS Connection, View, Windows

CONSTANTS Scenes, t1, t2, p1, p2, d1, d2
VARIABLE scene

TwoMessages == {"m1", "m2"}
MCChest == [p \in {p1, p2} |-> IF p = p1 THEN d1 ELSE d2]

clientVars == <<scene, vars, viewVars, windowVars>>

\* A tile with a border and perhaps a ground, and one with nothing; those who watch see both,
\* or neither at first; those who rest do so in one state.
Start ==
  /\ \E X \in (IF scene = "view" THEN {{}, Tiles} ELSE {{}}) : \A v \in Viewers : client[v].sight = X
  /\ tile[t1].top # <<>> /\ tile[t2].ground = <<>>
  /\ tile[t1].ground # <<>> => Head(tile[t1].ground) = CHOOSE x \in Grounds : TRUE
  /\ scene # "view" => tile[t1].ground # <<>>
  /\ at = [p \in People |-> 0]
  /\ scene # "windows" => \A c \in Boxes \ Chests : parent[c] = 0

ClientInit == scene \in Scenes /\ Init /\ ViewInit /\ WindowsInit /\ Start

Plays(s, next) == scene = s /\ next /\ UNCHANGED scene
ClientNext ==
  \/ Plays("connection", Next) /\ UNCHANGED <<viewVars, windowVars>>
  \/ Plays("view", ViewNext) /\ UNCHANGED <<vars, windowVars>>
  \/ Plays("windows", WindowsNext) /\ UNCHANGED <<vars, viewVars>>

\* Only the connection is bound to go on.
LiveClient ==
  /\ ClientInit /\ [][ClientNext]_clientVars
  /\ scene = "connection" => Fairness
=============================================================================
