\* What a full channel drops, under the fairness of the session run.
CONSTANTS
  r1 = r1
  l1 = l1
  hd = hd
  fhd = fhd
  FirstSize = FirstSize
  Remote <- MCRemote
  Local <- MCLocal
  Sizes <- OneSize
  CommandCap = 1
  EventCap = 1
SPECIFICATION Spec
PROPERTY DroppedIsSuperseded
