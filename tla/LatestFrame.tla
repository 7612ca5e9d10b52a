------------------------------ MODULE LatestFrame ------------------------------
(***************************************************************************)
(* What the video path promises its viewer, without threads, slots or      *)
(* textures: the decoder completes pictures, numbered in the order it      *)
(* completes them, and each presentation puts a completed picture on the   *)
(* screen that is newer than the one before it.  Pictures may be skipped,  *)
(* never presented twice and never presented out of order, and nothing is  *)
(* completed or presented once the stream is closed.                       *)
(***************************************************************************)
EXTENDS Naturals

VARIABLES
  published,  \* how many pictures the decoder has completed
  shown,      \* the number of the picture on screen, 0 for none
  presented,  \* how many presentations there were
  open        \* the stream is being played

vars == <<published, shown, presented, open>>

Init == published = 0 /\ shown = 0 /\ presented = 0 /\ open = TRUE

Publish ==
  /\ open
  /\ published' = published + 1
  /\ UNCHANGED <<shown, presented, open>>

Show ==
  /\ open
  /\ shown' \in (shown + 1)..published
  /\ presented' = presented + 1
  /\ UNCHANGED <<published, open>>

Close ==
  /\ open
  /\ open' = FALSE
  /\ shown' = 0
  /\ UNCHANGED <<published, presented>>

Next == Publish \/ Show \/ Close

Spec == Init /\ [][Next]_vars
================================================================================
