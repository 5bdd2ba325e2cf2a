SPECIFICATION Spec
CONSTANTS
  MaxJobs = 2
  MaxFaults = 1
INVARIANTS TypeOK WholeOutcome AutoFailsOnce
PROPERTIES JobsEnd SiteComesBack
CHECK_DEADLOCK FALSE
