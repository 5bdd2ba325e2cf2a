SPECIFICATION FairSpec
CONSTANTS
  Sessions = {s1}
  Owners = {o}
  Requests = {r1, r2, r3}
  MaxAttempts = 3
  MaxRestarts = 1
  MaxFailures = 1
INVARIANTS OneCallAtATime CallsBounded PassedIsWritten
PROPERTIES ProcessingEnds PassedIsFinal
CHECK_DEADLOCK FALSE
