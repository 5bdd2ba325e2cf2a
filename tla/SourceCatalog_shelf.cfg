SPECIFICATION Spec
CONSTANTS
  Versions = {v1, v2}
  Packages = {p, q}
  Workers = {w1, w2}
  Asked <- Every
  MaxRequests = 3
  MaxMeeting = 2
SYMMETRY Alike

PROPERTIES DeveloperNeverPublishes
CHECK_DEADLOCK FALSE
