\* The damage limit moves between two and three frames; the queue holds one unit.
CONSTANTS
  DamageLimits <- MCDamageLimits
  PendingLimits <- MCPendingLimits
  Sent <- MCSent
  Nothing = Nothing
SPECIFICATION DecodeSpec
INVARIANTS
  DecodeTypeOK
  DeltaFollowsKeyframe
PROPERTIES
  KeyframeWaitEnds
  ErrorStartsRecovery
  DecoderIsPrimed
