SPECIFICATION Spec
CONSTANTS
  a = a
  b = b
  c = c
  potion = potion
  sword = sword
  Players = {a, b}
  NoPlayer = NoPlayer
  NoItem = NoItem
  Account <- OwnAccounts
  Nation <- TwoNations
  GameMasters = {}
  Novices = {}
  Zones = {"moradon"}
  FreeZones = {"moradon"}
  HaveMax = 2
  Countable = {potion}
  Single = {sword}
  StackMax = 2
  CountMod = 16
  CoinMax = 2
  Tradeable = {potion, sword}
  OfferMax = 2
  StartGold <- NoCoin
  StartBag <- MixedBags
  AddAmounts = {}
  ItemCounts = {1, 16}
  ListBound = 16
  EarnAmounts = {}
  Finds <- FoundSword
  Pursuits = {}
  FindBound = 1
  GoldBound = 2
INVARIANT OffersBelongToTrade
PROPERTIES DecisionBinds ItemsKept GhostsAreCuts
