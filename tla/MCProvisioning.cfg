SPECIFICATION ProvisioningSpec
CONSTANTS
  Durable = TRUE
  Envelopes <- MCEnvelopes
  Messages <- MCMessages
  Elements <- MCElements
  Horizon = 4
  Resolution = 2
  Unit = 6
  Day = 8
  MaximumAge = 1
  MaximumSkew = 1
  None = None
  Records <- MCRecords
  Owners = {"own", "other"}
  MaxMessages = 2
INVARIANTS
  BudgetsHold ActivationsStayInside OffersEveryCoveredBucket
  ProvisioningTypeOK VersionNamesOneRecord
  StaleOffersWereOvertaken
CHECK_DEADLOCK FALSE
