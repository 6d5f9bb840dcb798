SPECIFICATION FairAdapterSpec
CONSTANTS
  Reservations = {}
  Products = {}
  Market = Market
  Resources <- MCResources
  MaxOffer = 2
  NoOffer = NoOffer
  MinimumParticipants = 1
  Powers = {1, 3}
  Handlers = {h1, h2}
  LastInterval = 2
  Requested <- MCRequested
INVARIANTS
  LoopDecides OnlyAllocation AdapterTypeOK ReplayAgrees
  ReportsCoverDelivery
PROPERTIES ReplayNeverFails EventSettles
