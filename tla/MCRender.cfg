CONSTANTS
  MaxJobs = 2
  MaxRetries = 1
  Grace = 1
  MaxCrashes = 1
SPECIFICATION FairSpec
PROPERTIES
  StopSparesOpenJobs
  KeepsLifecycle
  IdleWorkerStops
  EndsOrStrands
