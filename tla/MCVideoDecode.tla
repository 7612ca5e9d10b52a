----------------------------- MODULE MCVideoDecode -----------------------------
(* Instance of VideoDecode for TLC: small damage and queue limits, so that resyncs *)
(* and refused units come early.                                                   *)
EXTENDS VideoDecode

MCDamageLimits == {2, 3}
MCPendingLimits == {1}
MCSent == {"delta", "idr", "key", "big"}
================================================================================
