\* Five frames in eleven packets, of numbers and timestamps that wrap around midway.
CONSTANTS
  Stream <- MCStream
  Unusable <- MCUnusable
  FirstSeq = 25
  SeqWidth = 32
  FirstTime = 12
  TimeWidth = 16
  None = None
  Grace = 3
  Interval = 3
  Cooldown = 2
SPECIFICATION SessionSpec
INVARIANTS
  UnitIsWhole
  IntactFrameCompletes
  IntroducedOnce
PROPERTIES
  UnitsInOrder
  GapIsNoticed
  FirstPictureIsSought
