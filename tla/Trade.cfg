SPECIFICATION Spec
CONSTANTS
  Players = {p1, p2, p3, p4}
  Bags = {b1, b2}
  Swords = {}
  Deeds = {d1, d2}
  Houses = {h1}
  NoPlayer = NoPlayer
  NoItem = NoItem
  NoHouse = NoHouse
  Ground = Ground
  Nowhere = Nowhere
SYMMETRY Symmetry
INVARIANTS TradesAgree OfferStaysAtHand
PROPERTY OnlyByExchange
