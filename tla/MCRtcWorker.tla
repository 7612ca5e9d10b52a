----------------------------- MODULE MCRtcWorker -----------------------------
(* Instance of RtcWorker for TLC: one candidate each way and one or two sizes. *)
EXTENDS RtcWorker

CONSTANTS r1, l1, hd, fhd

MCRemote == {r1}
MCLocal == {l1}
OneSize == {hd}
MCSizes == {hd, fhd}
================================================================================
