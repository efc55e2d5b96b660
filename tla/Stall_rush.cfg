SPECIFICATION FairSpec
CONSTANTS
  k = k
  a = a
  b = b
  potion = potion
  sword = sword
  Keepers = {k}
  Shoppers = {a, b}
  NoPlayer = NoPlayer
  NoItem = NoItem
  HaveMax = 1
  Countable = {potion}
  Single = {sword}
  StackMax = 2
  CountMod = 16
  CoinMax = 9
  MaxMerch = 1
  Sellable = {potion, sword}
  Postings <- GoldOrCash
  Amounts = {1}
  Starts <- OneStack
  Finds <- FoundPotion
  FindBound = 2
  Moves = {}
  Leavers = {k, a}
  Splitting = TRUE
  Hasty = TRUE
PROPERTIES GoldNeverGrows SoldOutCloses
CHECK_DEADLOCK FALSE
