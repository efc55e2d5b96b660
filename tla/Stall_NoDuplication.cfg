SPECIFICATION Spec
CONSTANTS
  k = k
  a = a
  b = b
  potion = potion
  sword = sword
  Keepers = {k}
  Shoppers = {a}
  NoPlayer = NoPlayer
  NoItem = NoItem
  HaveMax = 2
  Countable = {potion}
  Single = {sword}
  StackMax = 2
  CountMod = 16
  CoinMax = 9
  MaxMerch = 1
  Sellable = {potion, sword}
  Postings <- Whole
  Amounts = {1, 2}
  Starts <- TwoPotions
  Finds = {}
  FindBound = 0
  Moves <- Swap
  Leavers = {}
  Splitting = FALSE
  Hasty = TRUE
INVARIANTS NoDuplication
