SPECIFICATION LiveAffairs
CONSTANTS
  Scenes = {"scheduler", "shops", "guilds", "wars"}
  Clients <- GameThreads
  Events = {e1, e2}
  MaxDelay = 2
  MaxLate = 1
  MaxId = 3
  Buyers = {u1, u2}
  NoBuyer = NoBuyer
  Npcs = {n1, n2}
  NoNpc = NoNpc
  Callbacks = {k1, k2, k3, k4}
  NoCallback = NoCallback
  MaxTalks = 4
  Fellows = {f1, f2, f3}
  NoFellow = NoFellow
  GuildIds = {1, 2}
  GuildMaxPlayer = 2
  MaxDecrees = 3
  MaxFalls = 1
  Sides = {"A", "B"}
  Soldiers = {"x", "y"}
  SideOf <- MCSideOf
  WarIds = {1, 2}
  FragLimit = 1
  Purse0 = 2
  MaxFrags = 2
INVARIANTS TypeOK SleepsNoLonger IdsMatch ShopsAgree GuildsSound WarsSettle
PROPERTIES StoppedNeverRuns FiresTimers
\* The process ends when an empty heap is popped; the bounds of the other scenes are reached.
CHECK_DEADLOCK FALSE
