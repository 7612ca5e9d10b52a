-------------------------- MODULE GamepadInput_proofs --------------------------
(***************************************************************************)
(* Proofs about GamepadInput, whatever other buttons there are: type       *)
(* correctness, that the press which chose Guide stays in the menu, that   *)
(* the game sees one View for a short press of Back, and that the Guide    *)
(* button it sees follows the pulse.                                       *)
(***************************************************************************)
EXTENDS GamepadInput, TLAPS

\* While the A that chose Guide is down, ignore_confirm_until_release withholds it.
MenuConfirmWithheld == menuA => ignore /\ "a" \in held

\* A sample with View waits in the slot.
ViewWaits == slot # None /\ "view" \in slot

\* View is in the slot or about to get there only for a short press that is still owed.
ViewIsOwed == relay \/ ViewWaits => owed

\* A short press is resolved only when the View of the one before has left the slot: the
\* sample taken when Back went down has replaced it.
OneViewAtATime ==
  /\ relay => ~ViewWaits /\ since = "none"
  /\ since # "none" /\ ui # "sample" => ~ViewWaits
  /\ paused \/ ignore => ~ViewWaits

GestureInv == MenuConfirmWithheld /\ ViewIsOwed /\ OneViewAtATime
--------------------------------------------------------------------------------
(* The invariants hold initially. *)
LEMMA InvInit == Init => TypeOK /\ GestureInv
  BY NoneAssumption
  DEF Init, TypeOK, Frame, Button, GestureInv, MenuConfirmWithheld, ViewIsOwed, ViewWaits,
      OneViewAtATime

(* What is sampled is a frame without Guide. *)
LEMMA SampledType ==
  ASSUME held' \subseteq Button, NEW view \in BOOLEAN
  PROVE  Sampled(view) \in Frame /\ "nexus" \notin Sampled(view)
  BY OtherAssumption DEF Sampled, Button, Frame

(* A sample holds View exactly when Back is relayed. *)
LEMMA SampledView ==
  ASSUME held' \subseteq Button, NEW view \in BOOLEAN
  PROVE  "view" \in Sampled(view) <=> view
  BY OtherAssumption DEF Sampled, Button

(* A command of the overlay keeps the types. *)
LEMMA OverlayTypes ==
  ASSUME TypeOK, NEW down, Overlay(down)
  PROVE  /\ paused' \in BOOLEAN /\ pulsed' \in BOOLEAN /\ ignore' \in BOOLEAN
         /\ dropped' \in BOOLEAN /\ menuA' \in BOOLEAN
<1>1. paused' \in BOOLEAN /\ pulsed' \in BOOLEAN /\ ignore' \in BOOLEAN
      /\ dropped' \in BOOLEAN
  BY DEF TypeOK, Overlay, PressGuide, Resume
<1>2. menuA' \in BOOLEAN
  <2>1. CASE menuA' = ("a" \in down)
    BY <2>1, SMT
  <2>2. CASE menuA' = (menuA /\ "a" \in down)
    BY <2>2, Zenon
  <2>3. QED
    BY <2>1, <2>2 DEF Overlay
<1>3. QED
  BY <1>1, <1>2

(* Every step keeps the types. *)
LEMMA TypeStep == TypeOK /\ [Next]_vars => TypeOK'
<1> SUFFICES ASSUME TypeOK, [Next]_vars PROVE TypeOK'
  OBVIOUS
<1> USE DEF gesture, session, round, history
<1>1. CASE Poll
  <2>1. /\ ui' = "sample" /\ held' \subseteq Button
        /\ UNCHANGED <<slot, rtc, started, pulse, last, ready, server>>
    BY <1>1 DEF Poll
  <2>2. CASE KeepHolding \/ OpenPauseOverlay \/ Release
    <3>1. since' \in {"none", "short", "long"}
      BY <2>2 DEF KeepHolding, OpenPauseOverlay, Release
    <3>2. paused' \in BOOLEAN /\ relay' \in BOOLEAN /\ owed' \in BOOLEAN
      BY <2>2, Zenon DEF TypeOK, KeepHolding, OpenPauseOverlay, Release
    <3>3. UNCHANGED <<ignore, pulsed, dropped>> /\ menuA' = (menuA /\ "a" \in held')
      BY <1>1, <2>2 DEF Poll, KeepHolding, OpenPauseOverlay, Release
    <3>4. menuA' \in BOOLEAN
      BY <3>3, Zenon
    <3>5. QED
      BY <2>1, <3>1, <3>2, <3>3, <3>4 DEF TypeOK
  <2>3. CASE paused /\ Overlay(held')
    <3>1. since' = "none" /\ relay' = FALSE /\ UNCHANGED owed
      BY <1>1, <2>3 DEF Poll, KeepHolding, OpenPauseOverlay, Release
    <3>2. QED
      BY <2>1, <2>3, <3>1, OverlayTypes DEF TypeOK
  <2>4. QED
    BY <1>1, <2>2, <2>3 DEF Poll
<1>2. CASE Sample
  <2>1. held' \subseteq Button /\ relay \in BOOLEAN
    BY <1>2 DEF TypeOK, Sample
  <2>2. Sampled(relay) \in Frame /\ "nexus" \notin Sampled(relay)
    BY <2>1, SampledType
  <2>3. QED
    BY <1>2, <2>2 DEF TypeOK, Sample, SendGamepadFrame
<1>3. CASE Draw
  <2>1. CASE paused /\ Overlay(held)
    BY <1>3, <2>1, OverlayTypes DEF TypeOK, Draw
  <2>2. CASE UNCHANGED <<paused, pulsed, ignore, menuA, dropped>>
    BY <1>3, <2>2 DEF TypeOK, Draw
  <2>3. QED
    BY <1>3, <2>1, <2>2 DEF Draw
<1>4. CASE Repoll
  <2>1. menuA' \in BOOLEAN
    BY <1>4, Zenon DEF Repoll
  <2>2. QED
    BY <1>4, <2>1, SampledType DEF TypeOK, Repoll, SendGamepadFrame
<1>5. CASE HoldElapses
  BY <1>5 DEF TypeOK, HoldElapses
<1>6. CASE DrainPulses
  BY <1>6 DEF TypeOK, DrainPulses
<1>7. CASE SendGamepad
  <2>1. Outgoing \in Frame
    BY DEF TypeOK, Outgoing, Frame
  <2>2. QED
    BY <1>7, <2>1, NoneAssumption DEF TypeOK, SendGamepad, Omit, Transmit, Fail
<1>8. CASE HandleChannelOpen
  BY <1>8 DEF TypeOK, HandleChannelOpen
<1>9. CASE PulseElapses
  BY <1>9 DEF TypeOK, PulseElapses
<1>10. CASE UNCHANGED vars
  BY <1>10 DEF TypeOK, vars
<1>11. QED
  BY <1>1, <1>2, <1>3, <1>4, <1>5, <1>6, <1>7, <1>8, <1>9, <1>10
  DEF Next, UiStep, RtcStep

(* Every step keeps the gesture's invariant. *)
LEMMA GestureStep == TypeOK /\ GestureInv /\ [Next]_vars => GestureInv'
<1> SUFFICES ASSUME TypeOK, GestureInv, [Next]_vars PROVE GestureInv'
  OBVIOUS
<1> USE DEF gesture, session, round, history, GestureInv, MenuConfirmWithheld, ViewIsOwed,
            ViewWaits, OneViewAtATime
<1>1. CASE Poll
  <2>1. ~relay
    BY <1>1 DEF TypeOK, Poll
  <2>2. ui' = "sample" /\ UNCHANGED slot
    BY <1>1 DEF Poll
  <2>3. MenuConfirmWithheld'
    <3>1. CASE paused
      <4>1. Overlay(held')
        BY <1>1, <3>1 DEF Poll, KeepHolding, OpenPauseOverlay, Release
      <4>2. CASE PressGuide /\ menuA' = ("a" \in held')
        BY <4>2 DEF PressGuide
      <4>3. CASE menuA' = (menuA /\ "a" \in held') /\ UNCHANGED ignore
        BY <4>3 DEF TypeOK
      <4>4. QED
        BY <4>1, <4>2, <4>3 DEF Overlay, Resume
    <3>2. CASE ~paused
      <4>1. menuA' = (menuA /\ "a" \in held') /\ UNCHANGED ignore
        BY <1>1, <3>2 DEF Poll
      <4>2. QED
        BY <4>1 DEF TypeOK
    <3>3. QED
      BY <3>1, <3>2
  <2>4. ViewIsOwed' /\ (relay' => ~ViewWaits' /\ since' = "none")
    <3>1. CASE Release
      BY <1>1, <2>1, <2>2, <3>1 DEF TypeOK, Poll, Release
    <3>2. CASE ~Release
      BY <1>1, <2>1, <2>2, <3>2 DEF Poll, KeepHolding, OpenPauseOverlay
    <3>3. QED
      BY <3>1, <3>2
  <2>5. paused' \/ ignore' => ~ViewWaits'
    BY <1>1, <2>2
    DEF Poll, KeepHolding, OpenPauseOverlay, Release, Overlay, PressGuide, Resume
  <2>6. QED
    BY <2>2, <2>3, <2>4, <2>5
<1>2. CASE Sample
  <2>1. "view" \in Sampled(relay) <=> relay
    BY <1>2, SampledView DEF TypeOK, Sample
  <2>2. QED
    BY <1>2, <2>1 DEF Sample, SendGamepadFrame
<1>3. CASE Draw
  BY <1>3 DEF TypeOK, Draw, Overlay, PressGuide, Resume
<1>4. CASE Repoll
  <2>1. "view" \notin Sampled(FALSE) /\ ~relay
    BY <1>4, SampledView DEF TypeOK, Repoll
  <2>2. QED
    BY <1>4, <2>1 DEF Repoll, SendGamepadFrame
<1>5. CASE HoldElapses
  BY <1>5 DEF HoldElapses
<1>6. CASE DrainPulses
  BY <1>6 DEF DrainPulses
<1>7. CASE SendGamepad
  BY <1>7 DEF SendGamepad, Omit, Transmit, Fail, Outgoing
<1>8. CASE HandleChannelOpen
  BY <1>8 DEF HandleChannelOpen
<1>9. CASE PulseElapses
  BY <1>9 DEF PulseElapses
<1>10. CASE UNCHANGED vars
  BY <1>10 DEF vars
<1>11. QED
  BY <1>1, <1>2, <1>3, <1>4, <1>5, <1>6, <1>7, <1>8, <1>9, <1>10
  DEF Next, UiStep, RtcStep
--------------------------------------------------------------------------------
\* Type correctness, with any set of other buttons.
THEOREM TypeCorrect == Safety => []TypeOK
  BY InvInit, TypeStep, PTL DEF Safety

\* The confirm in the menu is withheld until its release, and a View is owed for each
\* short press of Back and waits alone.
THEOREM GestureInvHolds == Safety => []GestureInv
  BY InvInit, TypeStep, GestureStep, PTL DEF Safety

\* No sample holds the press of A that chose Guide in the pause overlay.
THEOREM MenuPressStaysInMenu == Safety => ConfirmStaysInMenu
<1>1. TypeOK /\ GestureInv /\ [Next]_vars
        => [slot' # slot /\ slot' # None /\ "a" \in slot' => ~menuA']_vars
  <2> SUFFICES ASSUME TypeOK, GestureInv, Next,
                      slot' # slot, slot' # None, "a" \in slot'
               PROVE  ~menuA'
    OBVIOUS
  <2> USE DEF gesture, session, round, history
  <2>1. Sample \/ Repoll
    BY DEF Next, UiStep, RtcStep, Poll, KeepHolding, OpenPauseOverlay, Release, Overlay,
           PressGuide, Resume, Draw, HoldElapses, DrainPulses, SendGamepad,
           HandleChannelOpen, PulseElapses
  <2>2. ~(ignore /\ "a" \in held') /\ "a" \in held'
    BY <2>1 DEF Sample, Repoll, SendGamepadFrame, Sampled
  <2>3. QED
    BY <2>1, <2>2 DEF GestureInv, MenuConfirmWithheld, Sample, Repoll
<1>2. QED
  BY <1>1, TypeCorrect, GestureInvHolds, PTL DEF Safety, ConfirmStaysInMenu

\* View goes down at the game only for a short press of Back, once for each.
THEOREM OneViewPerTap == Safety => ViewOncePerTap
<1>1. TypeOK /\ GestureInv /\ [Next]_vars
        => ["view" \notin server /\ "view" \in server' => owed]_vars
  <2> SUFFICES ASSUME TypeOK, GestureInv, Next, "view" \notin server, "view" \in server'
               PROVE  owed
    OBVIOUS
  <2> USE DEF gesture, session, round, history
  <2>1. SendGamepad
    BY DEF Next, UiStep, RtcStep, Poll, Sample, Draw, Repoll, HoldElapses, DrainPulses,
           HandleChannelOpen, PulseElapses
  <2>2. "view" \in Outgoing
    BY <2>1 DEF SendGamepad, Omit, Transmit, Fail
  <2>3. QED
    BY <2>2 DEF Outgoing, GestureInv, ViewIsOwed, ViewWaits
<1>2. QED
  BY <1>1, TypeCorrect, GestureInvHolds, PTL DEF Safety, ViewOncePerTap

\* Guide is down at the game only while its release is still to come, and is down while
\* its pulse runs, unless the packet that says so was lost or a new press is on its way.
PulseInv ==
  /\ "nexus" \in server => pulse # "none" \/ pulsed \/ dropped
  /\ pulse # "none" => "nexus" \in server \/ started \/ pulsed \/ dropped

LEMMA PulseStep == TypeOK /\ PulseInv /\ [Next]_vars => PulseInv'
<1> SUFFICES ASSUME TypeOK, PulseInv, [Next]_vars PROVE PulseInv'
  OBVIOUS
<1> USE DEF gesture, session, round, history, PulseInv
<1>1. CASE Poll
  <2>1. UNCHANGED <<rtc, started, pulse, server>>
    BY <1>1 DEF Poll
  <2>2. UNCHANGED <<pulsed, dropped>> \/ pulsed'
    BY <1>1 DEF Poll, Overlay, PressGuide, Resume
  <2>3. QED
    BY <2>1, <2>2
<1>2. CASE Draw
  <2>1. UNCHANGED <<rtc, started, pulse, server>>
    BY <1>2 DEF Draw
  <2>2. UNCHANGED <<pulsed, dropped>> \/ pulsed'
    BY <1>2 DEF Draw, Overlay, PressGuide, Resume
  <2>3. QED
    BY <2>1, <2>2
<1>3. CASE Sample \/ Repoll \/ HoldElapses
  BY <1>3 DEF Sample, Repoll, HoldElapses
<1>4. CASE DrainPulses
  BY <1>4 DEF DrainPulses, TypeOK
<1>5. CASE SendGamepad
  <2>1. /\ UNCHANGED pulsed /\ started' = FALSE
        /\ pulse' = IF pulse = "due" THEN "none" ELSE pulse
        /\ dropped' = IF Forced THEN server' # Outgoing ELSE dropped
        /\ server' \in {Outgoing, server}
    BY <1>5 DEF SendGamepad, Omit, Transmit, Fail
  <2>2. "nexus" \in Outgoing <=> pulse = "running"
    BY DEF Outgoing, TypeOK
  <2>3. started => pulse = "running"
    BY DEF TypeOK
  <2>4. pulse \in {"none", "running", "due"}
    BY DEF TypeOK
  <2>5. QED
    BY <2>1, <2>2, <2>3, <2>4 DEF Forced
<1>6. CASE HandleChannelOpen
  BY <1>6 DEF HandleChannelOpen
<1>7. CASE PulseElapses
  BY <1>7 DEF PulseElapses
<1>8. CASE UNCHANGED vars
  BY <1>8 DEF vars
<1>9. QED
  BY <1>1, <1>2, <1>3, <1>4, <1>5, <1>6, <1>7, <1>8 DEF Next, UiStep, RtcStep

\* However presses, pulses and sampled frames interleave and whatever is suppressed: when
\* no pulse is left and none of its own packets was lost, the game does not hold Guide;
\* while one runs, it does (worker.rs run_session).  GuideArrives and PulseIsReleased need
\* this, and that the rounds go on.
THEOREM GuideFollowsPulse == Safety => []PulseInv
<1>1. Init => PulseInv
  BY DEF Init, PulseInv
<1>2. QED
  BY <1>1, TypeCorrect, PulseStep, PTL DEF Safety
================================================================================
