SPECIFICATION Spec
CONSTANTS
  c1 = c1
  c2 = c2
  c3 = c3
  c4 = c4
  c5 = c5
  c6 = c6
  NoCard = none
  Card = {c1, c2, c3, c4}
  KindOf <- AttackDeck
  Encounters <- Attackers
  MonsterMaxHp = 3
  PlayerMaxHp = 4
  EnergyMaster = 2
  HandSize = 2
  HandCap = 4
  ChaosPlays = 3
  ClockLimit = 2
  PlayerThorns = TRUE
  Belt = {"smoke_bomb", "distilled_chaos"}
  UnceasingTop = FALSE
  MaxTurn = 4
INVARIANTS
  ForcedMovesHold OverMeansDecided TurnEndsOnce
PROPERTIES ImplementsRounds DeadStaysDead
CHECK_DEADLOCK FALSE
