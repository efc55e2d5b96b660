SPECIFICATION FairSpec
CONSTANTS
  a = a
  b = b
  c = c
  potion = potion
  sword = sword
  Players = {a, b}
  NoPlayer = NoPlayer
  NoItem = NoItem
  Account <- OwnAccounts
  Nation <- TwoNations
  GameMasters = {}
  Novices = {}
  Zones = {"moradon", "eslant"}
  FreeZones = {"moradon"}
  HaveMax = 0
  Countable = {}
  Single = {}
  StackMax = 2
  CountMod = 16
  CoinMax = 1
  Tradeable = {}
  OfferMax = 2
  StartGold <- OneCoin
  StartBag <- NoBag
  AddAmounts = {1}
  ItemCounts = {}
  ListBound = 0
  EarnAmounts = {}
  Finds = {}
  Pursuits = {"mining", "preparing", "stall", "genie"}
  FindBound = 2
  GoldBound = 2
PROPERTY LeavesTrade
