\* Two sessions over several starts; the second failed poll in a row gives up.
CONSTANTS
  MaxSessions = 2
  MaxFailures = 2
  None = None
SPECIFICATION Spec
CHECK_DEADLOCK FALSE
INVARIANTS
  EverySessionAccountedFor
  OneSessionPerKind
PROPERTY StartResolves
