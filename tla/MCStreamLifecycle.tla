--------------------------- MODULE MCStreamLifecycle ---------------------------
(* Instance of StreamLifecycle for TLC: the constants are given in the .cfg files. *)
EXTENDS StreamLifecycle
================================================================================
