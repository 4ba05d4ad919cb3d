CONSTANTS
  a = a
  b = b
  Client <- OneClient
  Clock = Clock
  Kbd = Kbd
  None = None
  MaxPending = 1
  MaxBusy = 3
SPECIFICATION TimedSpec
INVARIANTS TypeOK DrawsStableScreen
PROPERTIES MutexReleased ClockIsShown
