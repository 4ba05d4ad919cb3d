CONSTANTS
  Key = {k1, k2, k3}
  Value = {v1, v2}
  Plugin = {pa, pb, pz}
  OLD = OLD
  Proc = {p1, p2, p3}
  Client = {c1, c2}
  CLOCK = CLOCK
  NULL = NULL
  PAUSE = 2
SPECIFICATION MCSpec
INVARIANTS OthersKept
CHECK_DEADLOCK FALSE
