SPECIFICATION Spec
CONSTANTS
  MaxThreads = 2
  BATCH_JOBS = 2
  QUEUE_DEPTH = 1
  MaxJobs = 6
INVARIANTS TypeOK NoLostWakeup
PROPERTIES ImplementsOrderedQueue EventuallyDelivered DropTerminatesWhenResultsFit
CHECK_DEADLOCK FALSE
