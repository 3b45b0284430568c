\* Liveness: an attached subscriber is served, also next to another of its class.
SPECIFICATION FairSpec
CONSTANTS
  qa = qa
  qb = qb
  Queues = {qa}
  CapSets = {1, 2}
  GrantIds = {1}
  Pushes <- TwoBulk
  Subs <- ServedSubs
  Nonces = {}
  LeaseTimes = {2}
  Bounds = {0}
  MAX_GRANTS = 2
  MAX_QUEUES = 2
  MAX_REPLAY = 4
  MAX_SUBS = 2
  MAX_TOTAL = 4
  MAX_CELLS = 3
  MAX_BYTES = 3
  GRANT_LIFETIME = 1
  MAX_LEASE = 2
  RATE = 1
  MINUTE = 2
  SKEW = 0
  FirstEpoch = 1
  MaxEpoch = 2
  MaxGen = 2
  MaxTime = 2
PROPERTIES NoSilentLoss SubscriberIsServed
