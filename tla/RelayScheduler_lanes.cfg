\* Lanes, attempts and the shared budget; receipts settle.
SPECIFICATION FairSpec
CONSTANTS
  Job <- Work
  CLASS_COUNT = 5
  DEFICIT_LIMIT = 4
  ROUNDS = 2
  CONTROL_HEADROOM = 1
  Control = {2, 4}
  Scopes = {"endpoint"}
  MAX_JOBS = 2
  MAX_BYTES = 2
  COVER_BYTES = 1
  RETAINED_LIMIT <- TwoItems
  APPLICATION_LIMIT <- OneItem
  MaxLanes = 1
  Capacity = 2
  AdminCapacity = 1
  MAX_IN_FLIGHT = 2
  BULK_LIMIT = 1
  CONNECT_RETRY_ATTEMPTS = 1
  COVER_LIMIT = 1
  Cases <- Mixes
  Profiles = {TRUE, FALSE}
INVARIANTS  CoverCreditKept  
PROPERTIES ReceiptsSettle
CHECK_DEADLOCK FALSE
