SPECIFICATION Spec
CONSTANTS
  Players = {p1, p2, p3}
  Bags = {}
  Swords = {s1}
  Deeds = {d1, d2}
  Houses = {h1}
  NoPlayer = NoPlayer
  NoItem = NoItem
  NoHouse = NoHouse
  Ground = Ground
  Nowhere = Nowhere
SYMMETRY Symmetry
PROPERTY SellerOwns
