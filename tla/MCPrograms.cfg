CONSTANTS
  MAX_SENSOR = 3
  RETRY_COUNT = 2
  MaxCpu = 40
  RowNumbers = {1, 3, 4}
  AnalogSteps = {2, 9}
  Heights <- SomeHeights
  MaxBars = 4
  MaxRows = 2
  MaxVolume = 3
  VolumeFrames = 2
  Length = 3
  MaxPresses = 2
  MaxAbove = 2
  MaxAdjust = 2
SPECIFICATION MCSpec
INVARIANTS
  ShowsSelected PreviousUndoesNext DisabledIfNoneIsThere BarsApart
  BarsOffTheTitle LastFrameIsShown
PROPERTIES
  AppliedIsShown PlaysTheHighlighted MuteGivesBack
CHECK_DEADLOCK FALSE
