SPECIFICATION Spec
CONSTANTS
  r1 = r1
  r2 = r2
  r3 = r3
  k1 = k1
  k2 = k2
  k3 = k3
  own = own
  moved = moved
  Reservations = {r1, r2, r3}
  Keys = {k1, k2, k3}
  Products <- MCProducts
  ProductsOf <- MCProductsOf
  Market <- MCMarket
  Start <- MCStart
  Resources <- MCResources
  InitialOffers <- MCInitialOffers
  MaxOffer = 2
  NoOffer = NoOffer
  HoldTime = 1
  MinimumParticipants = 2
  Powers = {2, 3}
  OfferLevels = {1}
  MaxTime = 2
  NoProduct = NoProduct
  NoEntry = NoEntry
  NoActivation = NoActivation
CONSTRAINT OneOfferMoves
SYMMETRY Symmetric
INVARIANTS TypeOK KeysNameOneReservation RecordsAgree
PROPERTIES SoldWithinOffer LedgerSpec
CHECK_DEADLOCK FALSE
