SPECIFICATION Spec
CONSTANTS
  MaxThreads = 2
  BATCH_JOBS = 2
  QUEUE_DEPTH = 1
  MaxJobs = 4
PROPERTIES DropTerminates
CHECK_DEADLOCK FALSE
