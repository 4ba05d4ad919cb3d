CONSTANTS
  a = a
  b = b
  Client <- OneClient
  Clock = Clock
  Kbd = Kbd
  None = None
  MaxPending = 1
  MaxBusy = 2
SPECIFICATION TimedSpec
PROPERTIES NoRefreshMissed
