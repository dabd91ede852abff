SPECIFICATION LiveClient
CONSTANTS
  Scenes = {"connection", "view", "windows"}
  Msgs <- TwoMessages
  NoMsg = NoMsg
  Viewers = {v1, v2}
  Seers = {v2}
  Tiles = {t1, t2}
  Grounds = {g1, g2}
  Borders = {e1}
  Splashes = {s1, s2}
  Fields = {f1}
  Goods = {}
  Wights = {c1, c2, c3}
  Shown = 3
  MaxKnown = 2
  MaxChanges = 4
  t1 = t1
  t2 = t2
  p1 = p1
  p2 = p2
  d1 = d1
  d2 = d2
  People = {p1, p2}
  Spots = {0, 1, 2}
  Lockers = {0}
  Boxes = {b1, b2, d1, d2}
  Chests = {d1, d2}
  Chest <- MCChest
  Cids = {0, 1}
  Nowhere = Nowhere
  MaxMoves = 3
INVARIANTS ConnectionSound ClientSeesTheWorld WindowsInReach
PROPERTY ClosesCompletely
\* The connection ends deleted.
CHECK_DEADLOCK FALSE
