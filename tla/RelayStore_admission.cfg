\* The store without streams: grants, leases, replay records and deposits.
SPECIFICATION Spec
CONSTANTS
  qa = qa
  qb = qb
  Queues = {qa, qb}
  CapSets = {1, 2}
  GrantIds = {1, 2}
  Pushes <- AdmissionPushes
  Subs = {}
  Nonces = {1}
  LeaseTimes = {2, 3}
  Bounds = {0, 2}
  MAX_GRANTS = 2
  MAX_QUEUES = 2
  MAX_REPLAY = 2
  MAX_SUBS = 1
  MAX_TOTAL = 3
  MAX_CELLS = 2
  MAX_BYTES = 3
  GRANT_LIFETIME = 2
  MAX_LEASE = 2
  RATE = 1
  MINUTE = 2
  SKEW = 0
  FirstEpoch = 1
  MaxEpoch = 2
  MaxGen = 2
  MaxTime = 3
INVARIANTS Accounting PurgedOnTime RetryIsDuplicate
