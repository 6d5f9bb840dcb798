SPECIFICATION Spec
CONSTANTS
  a = a
  b = b
  x = x
  y = y
  Durable = FALSE
  Resources = {a, b}
  Cells <- MCCells
  Slot <- MCSlot
  Adjacent <- MCAdjacent
  Windows <- MCWindows
  Contents = {x, y}
  Pasts <- MCPasts
  MinimumParticipants = 1
  MaxPosition = 2
  NoOffer = NoOffer
  NoAggregate = NoAggregate
SYMMETRY Symmetric
INVARIANTS TypeOK SourceOrder AdjacentCohortsAgree
PROPERTIES PublicSpec
CHECK_DEADLOCK FALSE
