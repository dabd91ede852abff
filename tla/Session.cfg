SPECIFICATION LiveScenes
CONSTANTS
  Names <- Characters
  Account <- Accounts
  Exempt = {"Ben", "Gm"}
  Premium = {"Cid"}
  SkipWait = FALSE
  MaxPlayers = 1
  MaxViewers = 2
  MaxTasks = 2
  Protocols = {p1, p2, p3, v1, v2, v3}
  Watchers = {v1, v2, v3}
  First = {p1}
  Second = {p2}
  Late = {p3}
  Full = {v3}
  Bodies = {b1, b2}
  Scenes = {"takeover", "room", "account", "closing", "kicked", "cast"}
  Nil = Nil
INVARIANTS OneCharacterPerAccount WorldOfClients RefsExact
PROPERTIES SeatsKept AbandonedLeaves
\* The server may hang or crash.
CHECK_DEADLOCK FALSE
