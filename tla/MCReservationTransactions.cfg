SPECIFICATION Spec
CONSTANTS
  c1 = c1
  c2 = c2
  r1 = r1
  r2 = r2
  k1 = k1
  k2 = k2
  noon = noon
  later = later
  Sessions = {c1, c2}
  Reservations = {r1, r2}
  Keys = {k1, k2}
  Products = {noon}
  Market <- MCMarket
  Start <- MCStart
  Resources <- MCResources
  InitialOffers <- MCInitialOffers
  MaxOffer = 1
  NoOffer = NoOffer
  HoldTime = 1
  MinimumParticipants = 1
  Powers = {1}
  OfferLevels = {1}
  MaxTime = 1
  NoProduct = NoProduct
  NoKey = NoKey
  NoCall = NoCall
SYMMETRY Symmetric
INVARIANTS TypeOK NoUniqueViolation ActivatedStaysActivated
PROPERTIES LedgerSpec
CHECK_DEADLOCK FALSE
