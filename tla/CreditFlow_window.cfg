\* Reordering, duplication, restarts and key expiry; more frames than the window of 4 counters.
CONSTANTS
  alice = alice
  bob = bob
  Peers <- BothPeers
  Kinds <- Mixed
  MaxSent <- OneWay5
  MAX_SKIP = 5
  RESERVE = 1
  SKIP_KEY_TTL = 2
  Lossy = FALSE
  MaxTime = 3
SPECIFICATION Spec
CHECK_DEADLOCK FALSE
INVARIANTS CreditSound FreshCreditCompletes RepairAnswered NonceUnique
INVARIANTS RepairOpens RestoreAccepted NoCounterAbandoned
PROPERTIES CreditNeverRetreats ImplementsDelivery
