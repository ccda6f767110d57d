SPECIFICATION FairSpec
CONSTANTS
  MaxEvents = 3
  Size <- MCSize
  MaxBatch = 2
  BATCH_MAX_BYTES = 6
  SEQ_PER_ATTEMPT = 3
  RETRY_SEQ_STRIDE = 6
  MaxAttempts = 2
  MaxRetries = 1
INVARIANTS NothingStranded
PROPERTIES KeepsThePromise SendsNoMore EventsArrive
CHECK_DEADLOCK FALSE
