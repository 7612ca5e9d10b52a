-------------------------- MODULE MCDirectVideoOutput --------------------------
(* Instance of DirectVideoOutput for TLC: the constants are given in the .cfg files. *)
EXTENDS DirectVideoOutput
================================================================================
