\* Channels of one place; an overflow leaves one unit or two of three.
CONSTANTS
  MaxGathered = 2
  MaxBatches = 1
  MaxPackets = 1
  MaxBuffers = 1
  MaxQueued = 3
  StartBuffer = 2
  MaxPending = 3
  Duration <- MCDuration
  None = None
SPECIFICATION Spec
INVARIANT EnoughIsPlayed
PROPERTIES
  SoundInOrder
  SoundGoesOn
