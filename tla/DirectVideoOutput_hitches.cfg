\* The renderer may be slower than the decoder's wait.
CONSTANTS
  MaxGeneration = 4
  MayTimeOut = TRUE
  None = None
  Failed = Failed
SPECIFICATION Spec
INVARIANTS
  NoWriteToFreedTexture
  DrawnPictureIsWhole
PROPERTIES
  ShowsPicturesInOrder
  PendingPictureIsShown
  EndedSessionStopsDecoder
