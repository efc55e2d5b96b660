SPECIFICATION Spec
CONSTANTS
  a = a
  b = b
  c = c
  potion = potion
  sword = sword
  Players = {a, b, c}
  NoPlayer = NoPlayer
  NoItem = NoItem
  Account <- OwnAccounts
  Nation <- OneNation
  GameMasters = {}
  Novices = {}
  Zones = {"moradon"}
  FreeZones = {"moradon"}
  HaveMax = 0
  Countable = {}
  Single = {}
  StackMax = 3
  CountMod = 16
  CoinMax = 2
  Tradeable = {}
  OfferMax = 2
  StartGold <- OneCoin
  StartBag <- NoBag
  AddAmounts = {1}
  ItemCounts = {}
  ListBound = 0
  EarnAmounts = {1}
  Finds = {}
  Pursuits = {"mining"}
  FindBound = 2
  GoldBound = 3
SYMMETRY Symmetric
INVARIANTS TypeOK Linked OffersBelongToTrade
PROPERTIES GoldKept KeepsPromise
