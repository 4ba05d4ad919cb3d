CONSTANTS
  a = a
  Client = {a}
  Splash = Splash
  Backlight = {0}
  Contrast = {2}
  Leds = {1}
  set_backlight = TRUE
  LcdLevel = 0
  Command = {8, 32}
  Value = {2}
  Buffer = {"R"}
  Pieces = 2
  MaxFrames = 2
  MaxCommands = 2
  MaxQueued = 2
SPECIFICATION MCSpec
INVARIANTS UpdatesArePackets
CHECK_DEADLOCK FALSE
