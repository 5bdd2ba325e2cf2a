SPECIFICATION Spec
CONSTANTS
  Versions = {v1, v2}
  Packages = {p, q}
  Workers = {w1, w2}
  Asked <- Every
  MaxRequests = 3
  MaxMeeting = 2
SYMMETRY Alike
INVARIANTS LatestWasReleased ShownIsLatest
PROPERTIES ReleasesAreReviewed ImplementsMemory
CHECK_DEADLOCK FALSE
