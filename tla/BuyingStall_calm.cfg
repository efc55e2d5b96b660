SPECIFICATION FairSpec
CONSTANTS
  k = k
  a = a
  b = b
  potion = potion
  sword = sword
  Collectors = {k}
  Suppliers = {a, b}
  NoPlayer = NoPlayer
  NoItem = NoItem
  HaveMax = 2
  Countable = {potion}
  Single = {sword}
  StackMax = 4
  CountMod = 16
  CoinMax = 9
  MaxMerch = 2
  Orders <- Lists
  Amounts = {1, 2}
  StartGold <- Funds
  StartBag <- Goods
  Crowding = FALSE
INVARIANTS TypeOK OrderFunded
PROPERTIES SalesAreAtomic FilledOrderCloses
