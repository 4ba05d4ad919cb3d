CONSTANTS
  a = a
  Client = {a}
  Splash = Splash
  Backlight = {0, 2}
  Contrast = {2}
  Leds = {1}
  set_backlight = TRUE
  LcdLevel = 1
  Command = {8, 16, 32, 110, 118, 128}
  Value = {2, 15}
  Buffer = {"R", "W", "T"}
  Pieces = 2
  MaxFrames = 2
  MaxCommands = 2
  MaxQueued = 2
SPECIFICATION MCSpec
INVARIANTS ShowsFrames
PROPERTIES
  BacklightOfDrawn OwnerIsUpToDate CarriedOutAsSent AnswersMatch GoneIsRemoved
CHECK_DEADLOCK FALSE
