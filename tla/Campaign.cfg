SPECIFICATION FairSpec
CONSTANTS
  Seeds <- TwoSeeds
  MaxAttempts = 2
  SeedsPerLaunch = 1
  MaxFaults = 2
  MaxLaunches = 8
  MaxActions = 1
  MaxNoops = 1
  MaxErrors = 1
  MaxStuck = 2
INVARIANTS LedgerTrue
PROPERTIES ImplementsLedger CampaignEnds
CHECK_DEADLOCK FALSE
