SPECIFICATION Spec
CONSTANTS
  c1 = c1
  c2 = c2
  c3 = c3
  c4 = c4
  c5 = c5
  c6 = c6
  NoCard = none
  Card = {c1, c2, c3}
  KindOf <- HavocDeck
  Encounters <- TimeEater
  MonsterMaxHp = 3
  PlayerMaxHp = 3
  EnergyMaster = 3
  HandSize = 3
  HandCap = 4
  ChaosPlays = 2
  ClockLimit = 2
  PlayerThorns = FALSE
  Belt = {}
  UnceasingTop = FALSE
  MaxTurn = 3
INVARIANTS
  NoCardStranded
CHECK_DEADLOCK FALSE
