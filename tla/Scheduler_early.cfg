SPECIFICATION AffairsSpec
CONSTANTS
  Scenes = {"scheduler"}
  Clients = {dispatcher}
  Events = {e1, e2}
  MaxDelay = 2
  MaxLate = 1
  MaxId = 3
  Buyers = {u1, u2}
  NoBuyer = NoBuyer
  Npcs = {n1, n2}
  NoNpc = NoNpc
  Callbacks = {k1, k2, k3, k4}
  NoCallback = NoCallback
  MaxTalks = 4
  Fellows = {f1, f2, f3}
  NoFellow = NoFellow
  GuildIds = {1, 2}
  GuildMaxPlayer = 2
  MaxDecrees = 3
  MaxFalls = 1
  Sides = {"A", "B"}
  Soldiers = {"x", "y"}
  SideOf <- MCSideOf
  WarIds = {1, 2}
  FragLimit = 1
  Purse0 = 2
  MaxFrags = 2
PROPERTY PopsWhatIsDue
\* The process ends when an empty heap is popped.
CHECK_DEADLOCK FALSE
