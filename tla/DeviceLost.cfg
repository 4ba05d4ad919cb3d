CONSTANTS
  a = a
  Client = {a}
  Splash = Splash
  Backlight = {0, 2}
  Contrast = {2}
  Leds = {1}
  set_backlight = TRUE
  LcdLevel = 0
  Command = {8, 16, 32, 110, 118, 128}
  Value = {2, 15}
  Buffer = {"R", "W", "T"}
  Pieces = 2
  MaxFrames = 2
  MaxCommands = 2
  MaxQueued = 2
SPECIFICATION MCSpec
INVARIANTS NoUpdateLost
CHECK_DEADLOCK FALSE
