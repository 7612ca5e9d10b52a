------------------------------- MODULE MCRtcSession ------------------------------
(* Instance of RtcSession for TLC: five frames whose numbers wrap around midway, and the *)
(* times of session.rs in tenths of a second. *)
EXTENDS RtcSession

\* A packet that begins a NAL unit, one that goes on with it, and padding.
Begin(f) == [frame |-> f, head |-> TRUE, empty |-> FALSE]
GoOn(f)  == [frame |-> f, head |-> FALSE, empty |-> FALSE]
Pad(f)   == [frame |-> f, head |-> FALSE, empty |-> TRUE]

MCStream ==
  << Begin(1), Begin(1), GoOn(1), Begin(2), GoOn(2), Begin(3), Begin(3), GoOn(3),
     Pad(3), Begin(4), Begin(5) >>
MCUnusable == {4}
================================================================================
