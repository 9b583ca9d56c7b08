SPECIFICATION Spec
CONSTANTS
  DeckCap = 10
  BeltCap = 3
  RandomCards = {"heavy", "trick"}
  RandomCurses = {"regret", "parasite"}
  RandomPotions = {"fairy", "plain"}
  MatchKinds = {"heavy", "regret"}
  MatchAttempts = 1
  GiftRows = 2
  SkullAsks = 2
  FightSteps = 3
  Visits <- Rooms
INVARIANTS
  LivingRunsHaveHealth
  WayOut
  FairiesAgree
  DollCountsCurses
  ParticlesLookAlike
PROPERTIES
  GoldAccounted
