SPECIFICATION FairSpec
CONSTANTS
  Ingest = {p1, p2}
  Client = {c1}
  MaxVersions = 2
  MaxResends = 1
  MaxDeaths = 1
INVARIANTS
  PullTypeOK
  NothingDroppedSilently
  RowIsLastPayload
PROPERTIES
  DeliverySpec
  DeliveriesSettle
CHECK_DEADLOCK FALSE
