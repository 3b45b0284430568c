\* One operation, repeated deliveries, failed saves, crashes of both sides, and
\* time enough for the record to outlive its retention; or two operations on a
\* journal with room for one record.
SPECIFICATION FairSpec
CONSTANTS
  oa = oa
  ob = ob
  Ops = {oa, ob}
  Digests = {1, 2}
  Outcomes = {"x"}
  Deadline <- Deadlines
  WORKERS = 2
  RECORDS = 1
  RETENTION = 2
  WINDOW = 2
  Cases <- RepeatedOrShared
  MaxTime = 4
CHECK_DEADLOCK FALSE
INVARIANTS AtMostOnce AnswersAgree StartedIsKnown PermitsConserved
PROPERTIES OperationsSettle
