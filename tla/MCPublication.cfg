SPECIFICATION Spec
CONSTANTS
  h1 = h1
  h2 = h2
  c1 = c1
  c2 = c2
  Handlers = {h1, h2}
  Cells = {c1, c2}
  Windows <- MCWindows
  Capacities = {0, 2}
  MaxSold = 1
  Resolution = 2
  Limit = 2
  MaxEpoch = 2
  NoValue = NoValue
SYMMETRY Symmetric
INVARIANTS TypeOK OneValuePerCell GoneFromLaterEpochs
CHECK_DEADLOCK FALSE
