CONSTANTS
  karus = karus
  Chiefs = {karus}
  Nation <- Sides
  Times = {0, 8}
  BattleZones = {4, 5}
  FlagVictory = 1
  AllMonuments = 1
  BanAnnounce = 1
  BanExecute = 2
  MaxDead = 1
  MaxCaptures = 1
  MaxOrders = 4
SPECIFICATION Spec
INVARIANTS TypeOK LosersBanished PeaceRestored OnTime
PROPERTY WarEnds
