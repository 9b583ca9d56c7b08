SPECIFICATION Spec
CONSTANTS
  Groups <- Encounters
  Called <- Gremlin
  MaxRecords = 6
  MaxPending = 2
INVARIANTS
  AimIsTrue
  FieldFits
  NoOrphans
  PostureMatchesMove
PROPERTIES
  HalfDeadRises
CHECK_DEADLOCK FALSE
