\* The background cleanup meets a stream started meanwhile.
CONSTANTS
  MaxSessions = 1
  MaxFailures = 2
  None = None
SPECIFICATION Spec
CHECK_DEADLOCK FALSE
PROPERTIES
  StopsOnlyStaleSessions
