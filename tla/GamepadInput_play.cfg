\* The whole of a session's input.
CONSTANTS
  None = None
  Other = {}
SPECIFICATION Spec
PROPERTIES
  ViewOncePerTap
  ConfirmStaysInMenu
  GuideArrives
  PulseIsReleased
  StateReachesServer
