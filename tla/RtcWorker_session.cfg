\* One candidate each way over channels that hold one message, and both ends of a session.
CONSTANTS
  r1 = r1
  l1 = l1
  hd = hd
  fhd = fhd
  FirstSize = FirstSize
  Remote <- MCRemote
  Local <- MCLocal
  Sizes <- MCSizes
  CommandCap = 1
  EventCap = 1
SPECIFICATION Spec
INVARIANTS
  CandidateCrossesOnce
  ResolutionArrives
PROPERTIES
  GatheredIsPosted
  EndIsNoticed
  DroppedWorkerEnds
