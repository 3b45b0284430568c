\* Liveness over a network that loses frames and credits.
CONSTANTS
  alice = alice
  bob = bob
  Peers <- BothPeers
  Kinds <- AllPurposes
  MaxSent <- OneWay3
  MAX_SKIP = 4
  RESERVE = 1
  SKIP_KEY_TTL = 2
  Lossy = TRUE
  MaxTime = 1
SPECIFICATION FairSpec
CHECK_DEADLOCK FALSE
PROPERTY CountersSettle
