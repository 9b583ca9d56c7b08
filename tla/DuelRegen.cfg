SPECIFICATION Spec
CONSTANTS
  HandCap = 6
  PowerCap = 8
  Faces = 2
  Countdown = 3
  PanacheCards = 2
  Blast = 30
  CalendarDay = 2
  ActNumber = 1
  TurnCap = 2
  PlayCap = 2
  Loadouts <- RegenLoadouts
CHECK_DEADLOCK FALSE
INVARIANT OneTurnPowersGone
