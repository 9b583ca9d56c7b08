SPECIFICATION FairSpec
CONSTANT DoubleBoss = TRUE
INVARIANTS TypeOK EncountersLast DoorNeedsKeys
PROPERTIES ClimbsThePath BossesDiffer RunEnds
CHECK_DEADLOCK FALSE
