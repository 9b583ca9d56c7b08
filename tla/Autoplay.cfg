SPECIFICATION FairSpec
CONSTANTS
  c1 = c1
  c2 = c2
  c3 = c3
  c4 = c4
  c5 = c5
  c6 = c6
  NoCard = none
  Card = {c1, c2, c3, c4, c5, c6}
  KindOf <- AutoplayDeck
  Encounters <- TwoPlain
  MonsterMaxHp = 2
  PlayerMaxHp = 4
  EnergyMaster = 2
  HandSize = 3
  HandCap = 4
  ChaosPlays = 3
  ClockLimit = 2
  PlayerThorns = FALSE
  Belt = {"distilled_chaos"}
  UnceasingTop = TRUE
  MaxTurn = 3
INVARIANTS
  TypeOK OnePileEach NoCardStranded HavocMarksOnePlay
PROPERTIES PumpSettles CardsLeaveOnlyByRule
CHECK_DEADLOCK FALSE
