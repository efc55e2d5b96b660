CONSTANTS
  chief = chief  vice = vice  potion = potion  ring = ring  j1 = j1  j2 = j2
  Members = {chief, vice}
  Officers = {chief, vice}
  Countable = {potion}
  Single = {ring}
  NoItem = NoItem
  HaveMax = 1
  BankMax = 2
  StackMax = 2
  CountMod = 8
  CoinMax = 1
  Amounts = {1, 2, 8}
  Errands <- EachErrand
  StartGold <- PurseEach
  StartBag <- BagEach
  StartRows <- RowsStart
  GoldBound = 1
  Jobs = {j1, j2}
  Rush = FALSE
SYMMETRY Either
SPECIFICATION Spec
INVARIANT TypeOK
PROPERTIES GoodsKept GoldKept RowsFollow
CHECK_DEADLOCK FALSE
