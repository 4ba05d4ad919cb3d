CONSTANTS
  a = a
  b = b
  g = g
  l1 = l1
  Client <- MCClient
  Clock = Clock
  Fd <- MCFd
  Key <- MCKey
  L1 = l1
SPECIFICATION Spec
PROPERTIES HandlerKeepsKeys
