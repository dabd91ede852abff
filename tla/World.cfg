SPECIFICATION LiveScenes
CONSTANTS
  Scenes = {"locks", "party", "walk", "items", "decay", "creatures", "chat", "abilities", "targets"}
  Connections = {"game", "admin"}
  Answering = {"game"}
  Admins = {"admin"}
  NoConnection = NoConnection
  Heroes = {h1, h2, h3}
  Parties = {p1, p2}
  NoParty = NoParty
  Nobody = Nobody
  Requests <- WalkRequests
  NoRequest = NoRequest
  MaxAway = 1
  MaxInputs = 2
  WalkIds = {1, 2, 3, 4}
  Stacks = {i1, i2, i3, i4, i5, i6, i7, i8}
  Bag = Bag
  Sword = Sword
  Player = Player
  Tile = Tile
  Nil = Nil
  NSlots = 3
  MaxStack = 3
  BagSize = 2
  Strength = 8
  MaxCalls = 2
  DecayThings = {d1, d2, d3, d4, d5}
  NoItem = NoItem
  ItemTypes <- MCTypes
  DecayTo <- MCDecayTo
  DecayTime <- MCDecayTime
  StopTime = {"off"}
  Class <- MCClass
  EquipTo <- MCEquipTo
  DeEquipTo <- MCDeEquipTo
  Buckets = 3
  MaxScripts = 2
  Beasts = {b1, b2}
  Hunter = hunter
  NoCreature = NoCreature
  Lairs = {1}
  MaxDeeds = 2
  Speakers = {s1, s2}
  Clubs = {c1}
  NoClub = NoClub
  PrivateIds = {100, 101}
  MaxChats = 5
  BodySlots = {"head", "hand"}
  Attires = {"robe", "rags"}
  Kinds <- MCKinds
  Gives <- MCGives
  AtLevel <- MCAtLevel
  Eventful = {"helm", "star", "off", "on", "hat"}
  InStacks = {"star"}
  WornAs <- MCWornAs
  TakenAs <- MCTakenAs
  TurnsTo <- MCTurnsTo
  Replaced <- MCReplaced
  Ailments <- MCAilments
  MaxLevel = 2
  MaxEvents = 4
  Fighters = {"knight"}
  Foes = {"wolf", "imp"}
  NoFoe = "nobody"
  Spots = {"here", "near", "cave", "far"}
  NoSpot = "nowhere"
  Level <- MCLevel
  InSight <- MCInSight
  OnScreen <- MCHere
  Around <- MCAround
  TooFar <- MCTooFar
  Orders <- MCOrders
  MaxTurns = 3
INVARIANTS BufferIsListedOnce PartiesAgree WalkSound ThingsKept CreaturesKept ChannelsForget FightersSound
PROPERTIES StopsOnlyCrossed WalksEnd
CHECK_DEADLOCK FALSE
