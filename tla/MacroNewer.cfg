CONSTANTS
  XKey = {"x", "y"}
  MAX_KEYSTEPS = 2
  MaxTyped = 3
  Config <- MCConfig
  NumPalettes = 2
  MaxRecorded = 33
SPECIFICATION MCSpec
PROPERTIES NewerExits
CHECK_DEADLOCK FALSE
