---------------------------- MODULE MCAudioRenderer ----------------------------
(* AudioRenderer for TLC. *)
EXTENDS AudioRenderer

MCDuration == {1, 2}
================================================================================
