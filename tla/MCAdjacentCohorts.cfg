SPECIFICATION Spec
CONSTANTS
  a = a
  b = b
  x = x
  y = y
  Durable = TRUE
  Resources = {a, b}
  Cells <- MCCells
  Slot <- MCSlot
  Adjacent <- MCAdjacent
  Windows <- MCWindows
  Contents = {x, y}
  Pasts <- MCPasts
  MinimumParticipants = 1
  MaxPosition = 2
  NoOffer = NoOffer
  NoAggregate = NoAggregate
SYMMETRY Symmetric
INVARIANTS AdjacentCohortsAgree
CHECK_DEADLOCK FALSE
