SPECIFICATION TextSpec
CONSTANTS
  oda = oda
  ann = ann
  ben = ben
  cal = cal
  t1 = t1
  Owner = oda
  Members <- All
  Texts = {t1}
  Author <- ByOwner
  AckLimit = 2
  OutboxLimit = 1
  InboxLimit = 1
  ParkLimit = 1
  EpochDistance = 1
  Cases <- Settled
PROPERTIES TextsConfirmed
CHECK_DEADLOCK FALSE
