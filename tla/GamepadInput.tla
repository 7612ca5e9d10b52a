------------------------------ MODULE GamepadInput ------------------------------
(***************************************************************************)
(* The gamepad's way to the game: the UI loop that samples it and resolves *)
(* the hold-to-pause gesture (shell/mod.rs, input.rs), the one-place slot  *)
(* and the pulses it leaves for the RTC thread (rtc/worker.rs), and the    *)
(* unreliable input channel of the protocol (rtc/protocol.rs).             *)
(*                                                                         *)
(* A gamepad frame is the set of its buttons that are down; sticks,        *)
(* triggers, touch zones and a controller's own Guide button are further   *)
(* values of a frame.  Of the overlay's items those that resume the game   *)
(* are modelled; while Settings covers a paused stream nothing is sampled  *)
(* either.  Whether the last packet is older than GAMEPAD_REFRESH_INTERVAL *)
(* is a choice, and the pulse's 100 ms do not pass between the two steps   *)
(* of one round.  The input channel neither repeats nor orders packets:    *)
(* one that comes after a later one has an old sequence number and counts  *)
(* as lost.                                                                *)
(***************************************************************************)
EXTENDS Naturals

CONSTANTS
  None,   \* no frame
  Other   \* the buttons but Back, A and Guide

Button == {"back", "a"} \cup Other
Frame == SUBSET ({"view", "a", "nexus"} \cup Other)

ASSUME NoneAssumption == \A frame \in Frame : None # frame
ASSUME OtherAssumption == Other \cap {"back", "a", "view", "nexus"} = {}

VARIABLES
  ui,         \* the step of the shell's loop: "sample", "draw", "poll"
  held,       \* what SDL's controller state says is down
  paused,     \* StreamingSession.paused
  since,      \* back_hold_since: "none", or "short" or "long" ago
  relay,      \* relay_back_as_view
  ignore,     \* ignore_confirm_until_release
  pulsed,     \* gamepad_pulses is not empty
  slot,       \* latest_gamepad
  rtc,        \* where the RTC thread's round is
  started,    \* pulse_started
  pulse,      \* active_gamepad_pulse: "none", "running", or "due" for its release
  last,       \* the frame of last_gamepad_sent
  ready,      \* input_channel_ready
  server,     \* the last frame the server received
  menuA,      \* history: A is down since Guide was chosen in the overlay
  owed,       \* history: a short press of Back has not reached the server
  dropped     \* history: Guide's last press or release was lost, or not sent

gesture == <<paused, since, relay>>
session == <<ignore, pulsed, slot>>
round   == <<rtc, started, pulse, last, ready, server>>
history == <<menuA, owed, dropped>>
vars == <<ui, held, gesture, session, round, history>>

Init ==
  /\ ui = "poll" /\ held = {}
  /\ paused = FALSE /\ since = "none" /\ relay = FALSE
  /\ ignore = FALSE /\ pulsed = FALSE /\ slot = None
  /\ rtc = "pulses" /\ started = FALSE /\ pulse = "none"
  /\ last = None /\ ready = FALSE /\ server = {}
  /\ menuA = FALSE /\ owed = FALSE /\ dropped = FALSE
--------------------------------------------------------------------------------
(* The UI thread: the beginning of one pass, up to the commands. *)

\* press_guide_button, after set_paused(FALSE).
PressGuideOnly ==
  /\ paused' = FALSE
  /\ pulsed' = TRUE /\ ignore' = ignore /\ dropped' = FALSE
PressGuide ==
  /\ paused' = FALSE
  /\ pulsed' = TRUE /\ ignore' = TRUE /\ dropped' = FALSE

Resume == paused' = FALSE /\ UNCHANGED <<pulsed, ignore, dropped>>

\* handle_paused_overlay_command: one of these, another item, or none.
Overlay(down) ==
  \/ PressGuide /\ menuA' = ("a" \in down)
  \/ (Resume \/ UNCHANGED <<paused, pulsed, ignore, dropped>>) /\ menuA' = (menuA /\ "a" \in down)

\* The gesture's outcomes while the game is played, and while it is paused.
KeepHolding ==
  /\ ~paused /\ "back" \in held' /\ since # "long"
  /\ since' = "short" /\ relay' = FALSE
  /\ UNCHANGED <<paused, owed>>
OpenPauseOverlay ==
  /\ ~paused /\ "back" \in held' /\ since = "long"
  /\ since' = "none" /\ relay' = FALSE /\ paused' = TRUE
  /\ UNCHANGED owed
ReleaseLong ==
  /\ ~paused /\ "back" \notin held'
  /\ since' = "none" /\ relay' = (since # "none")
  /\ owed' = (owed \/ since = "short")
  /\ UNCHANGED paused
Release ==
  /\ ~paused /\ "back" \notin held'
  /\ since' = "none" /\ relay' = (since = "short")
  /\ owed' = (owed \/ since = "short")
  /\ UNCHANGED paused

\* A press of A that came and went between two polls leaves its event only, so an item of
\* the overlay may be confirmed whatever is held.
Poll ==
  /\ ui = "poll"
  /\ ui' = "sample"
  /\ held' \in SUBSET Button
  /\ \/ /\ KeepHolding \/ OpenPauseOverlay \/ Release
        /\ menuA' = (menuA /\ "a" \in held')
        /\ UNCHANGED <<ignore, pulsed, dropped>>
     \/ /\ paused /\ Overlay(held')
        /\ since' = "none" /\ relay' = FALSE
        /\ UNCHANGED owed
  /\ UNCHANGED <<slot, round>>
--------------------------------------------------------------------------------
(* The UI thread: sampling. *)

\* read_gamepad_frame: Back itself is withheld.
Sampled(view) == (held' \ {"back"}) \cup (IF view THEN {"view"} ELSE {})

\* send_stream_gamepad_state, and StreamingSession::send_gamepad_frame behind it.
SendGamepadFrame(view) ==
  IF paused THEN UNCHANGED <<ignore, slot>>
  ELSE IF ignore /\ "a" \in held' THEN UNCHANGED <<ignore, slot>>
  ELSE ignore' = FALSE /\ slot' = Sampled(view)

Sample ==
  /\ ui = "sample"
  /\ ui' = "draw" /\ relay' = FALSE
  /\ UNCHANGED held
  /\ SendGamepadFrame(relay)
  /\ UNCHANGED <<paused, since, pulsed, round, history>>

\* build_ui: an item of the overlay may be touched.
Draw ==
  /\ ui = "draw"
  /\ ui' = "poll"
  /\ \/ UNCHANGED <<paused, pulsed, ignore, menuA, dropped>>
     \/ paused /\ Overlay(held)
  /\ UNCHANGED <<held, since, relay, slot, round, owed>>

\* Until the frame's time is over the controller is read again every 4 ms; a late frame
\* goes on at once.
Repoll ==
  /\ ui = "poll"
  /\ held' \in SUBSET Button
  /\ SendGamepadFrame(FALSE)
  /\ menuA' = (menuA /\ "a" \in held')
  /\ UNCHANGED <<ui, gesture, pulsed, round, owed, dropped>>

\* PAUSE_HOLD_DURATION.
HoldElapses ==
  /\ since = "short"
  /\ since' = "long"
  /\ UNCHANGED <<ui, held, paused, relay, session, round, history>>
--------------------------------------------------------------------------------
(* The RTC thread's round. *)

\* All queued pulses are taken; the last one counts.
DrainPulses ==
  /\ rtc = "pulses"
  /\ rtc' = "gamepad"
  /\ started' = pulsed /\ pulsed' = FALSE
  /\ pulse' = IF pulsed THEN "running" ELSE pulse
  /\ UNCHANGED <<ui, held, gesture, ignore, slot, last, ready, server, history>>

\* What this round sends: Guide stays asserted while its pulse runs.
Outgoing == (IF slot = None THEN {} ELSE slot)
            \cup (IF pulse = "running" THEN {"nexus"} ELSE {})

\* The press and the release of a pulse are sent in any case.
ForcedPress == started
ForcedRelease == pulse = "due"
Forced == started \/ pulse = "due"

\* send_sampled_gamepad_frame: an unchanged frame may be left out.
ToSendOnChange == Forced \/ (slot # None /\ last # Outgoing)
ToSend == Forced \/ slot # None
Omit == (~ToSend \/ (~Forced /\ last = Outgoing)) /\ UNCHANGED <<last, server>>

\* What is sent may be lost; last_gamepad_sent does not tell.
Transmit ==
  /\ ToSend /\ ready
  /\ last' = Outgoing
  /\ server' \in {Outgoing, server}

\* A channel that is not ready sends nothing, and any other may fail to.
Fail == ToSend /\ UNCHANGED <<last, server>>

SendGamepad ==
  /\ rtc = "gamepad"
  /\ rtc' = "pulses" /\ started' = FALSE
  /\ slot' = None
  /\ pulse' = IF pulse = "due" THEN "none" ELSE pulse
  /\ Omit \/ Transmit \/ Fail
  /\ owed' = (owed /\ ~("view" \in server' \ server))
  /\ dropped' = IF Forced THEN server' # Outgoing ELSE dropped
  /\ UNCHANGED <<ui, held, gesture, ignore, pulsed, ready, menuA>>

\* The input channel opens.
HandleChannelOpen ==
  /\ rtc = "pulses" /\ ~ready
  /\ ready' = TRUE
  /\ UNCHANGED <<ui, held, gesture, session, rtc, started, pulse, last, server, history>>

\* GAMEPAD_PULSE_DURATION.
PulseElapses ==
  /\ rtc = "pulses" /\ pulse = "running"
  /\ pulse' = "due"
  /\ UNCHANGED <<ui, held, gesture, session, rtc, started, last, ready, server, history>>
--------------------------------------------------------------------------------
UiStep == Poll \/ Sample \/ Draw
RtcStep == DrainPulses \/ SendGamepad

Next ==
  \/ UiStep \/ Repoll \/ HoldElapses
  \/ RtcStep \/ HandleChannelOpen \/ PulseElapses

(* Both threads run and time passes: in the end the last packet is old, and of    *)
(* those that are sent for ever one arrives.                                      *)
Arrives == SendGamepad /\ Transmit /\ server' = Outgoing
Fairness ==
  /\ WF_vars(UiStep) /\ WF_vars(RtcStep)
  /\ WF_vars(HoldElapses) /\ SF_vars(PulseElapses)
  /\ SF_vars(Arrives)

Safety == Init /\ [][Next]_vars
Spec == Safety /\ Fairness
--------------------------------------------------------------------------------
TypeOK ==
  /\ ui \in {"poll", "sample", "draw"}
  /\ held \subseteq Button
  /\ paused \in BOOLEAN /\ since \in {"none", "short", "long"}
  /\ relay \in BOOLEAN /\ (relay => ui = "sample")
  /\ ignore \in BOOLEAN /\ pulsed \in BOOLEAN /\ (slot # None => slot \in Frame /\ "nexus" \notin slot)
  /\ rtc \in {"pulses", "gamepad"} /\ pulse \in {"none", "running", "due"}
  /\ started \in BOOLEAN /\ (started => rtc = "gamepad" /\ pulse = "running")
  /\ (last # None => last \in Frame) /\ ready \in BOOLEAN
  /\ server \in Frame
  /\ menuA \in BOOLEAN /\ owed \in BOOLEAN /\ dropped \in BOOLEAN

(* "Withheld while held, replayed as a single View tap only if released before    *)
(* the pause fired" (shell/mod.rs): the game sees View go down at most once for a  *)
(* short press of Back, and never for one that paused it.                          *)
ViewOncePerTap == []["view" \notin server /\ "view" \in server' => owed]_vars

(* The press of A that chose Guide in the overlay is not the game's: no sample    *)
(* taken before A is released holds it (session.rs ignore_confirm_until_release). *)
ConfirmStaysInMenu ==
  [][slot' # slot /\ slot' # None /\ "a" \in slot' => ~menuA']_vars

(* Guide pressed once the channel is open reaches the game, whatever the gamepad  *)
(* does or is kept from doing meanwhile, unless just its packet is lost (worker.rs *)
(* run_session).                                                                  *)
GuideArrives == pulsed /\ ready ~> "nexus" \in server \/ dropped

(* "A pulse must have a distinct release packet even when normal controller input *)
(* is temporarily suppressed" (worker.rs): Guide is released, or pressed again,   *)
(* unless just that packet is lost.                                               *)
PulseIsReleased == "nexus" \in server ~> "nexus" \notin server \/ pulsed \/ dropped

(* However many packets are lost, the game comes to see what the player holds,    *)
(* once that stays the same and is not withheld: refreshes make up for losses     *)
(* (GAMEPAD_REFRESH_INTERVAL).                                                    *)
Steady == <>[](~paused /\ ready /\ "back" \notin held) /\ <>[][UNCHANGED held]_vars
StateReachesServer == Steady => <>[](ignore \/ server = held)
================================================================================
