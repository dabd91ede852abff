SPECIFICATION SceneSpec
CONSTANTS
  Names <- Characters
  Account <- Accounts
  Exempt = {"Ben", "Gm"}
  Premium = {"Cid"}
  SkipWait = FALSE
  MaxPlayers = 1
  MaxViewers = 2
  MaxTasks = 2
  Protocols = {p1, v1}
  Watchers = {v1}
  First = {p1}
  Second = {}
  Late = {}
  Full = {}
  Bodies = {b1, b2}
  Scenes = {"cast"}
  Nil = Nil
INVARIANT ViewersWatchACast
CHECK_DEADLOCK FALSE
