------------------------------- MODULE RtcSession -------------------------------
(***************************************************************************)
(* One streaming session around the packet receiver of module VideoRtp     *)
(* (api/streaming/rtc/session.rs, RtcSession::pump): the peer's events,    *)
(* its messages, the introduction to the server (api_xbox/streaming/rtc/   *)
(* protocol.rs, control/channel.rs), and when the server is asked for a    *)
(* keyframe, by the watchdog that waits for the first packet too.          *)
(*                                                                         *)
(* A pump takes no time: it reads the clock once, so time passes between   *)
(* pumps, in ticks.  An Instant is its age, counted up to the limit it is  *)
(* compared with; "never" is an age at that limit where the code treats    *)
(* the two alike.  The input channel is in module GamepadInput; the rtc    *)
(* crate, which raises the events, chooses freely among them.              *)
(***************************************************************************)
EXTENDS VideoRtp

CONSTANTS
  Grace,     \* INITIAL_VIDEO_GRACE
  Interval,  \* INITIAL_VIDEO_KEYFRAME_INTERVAL
  Cooldown   \* KEYFRAME_REQUEST_COOLDOWN

ASSUME TimesAssumption ==
  /\ Grace \in Nat /\ Interval \in Nat /\ Cooldown \in Nat \ {0}
  /\ Cooldown <= Grace /\ Cooldown <= Interval

VARIABLES
  phase,      \* where pump is; "idle" between two pumps
  connected,  \* connection_state is Connected
  tracked,    \* VideoReceiver knows its track and receiver
  received,   \* VideoReceiver.received_packet
  wanted,     \* pump's keyframe_requested
  watching,   \* the age of initial_video_watchdog_started_at, or None
  retried,    \* the age of last_initial_video_keyframe_request
  asked,      \* the age of last_keyframe_request
  opened,     \* the data channels that have opened
  stage,      \* XboxRtcProtocol.handshake_stage
  said,       \* history: what was sent on the message and control channels
  quiet       \* history: ticks the server could have been asked for the first picture
              \* and was not

watchdog == <<watching, retried, asked>>
protocol == <<opened, stage, said>>
sessionVars ==
  <<vars, phase, connected, tracked, received, wanted, watchdog, protocol, quiet>>

\* The handshake, then on its acknowledgement the control channel's two messages and
\* startup_messages.
Introduction == <<"handshake", "authorization", "gamepadChanged", "startup">>
Patience == IF Grace < Interval THEN Interval ELSE Grace
CanAsk == tracked \/ "control" \in opened

SessionInit ==
  /\ Init
  /\ phase = "idle" /\ connected = FALSE /\ tracked = FALSE /\ received = FALSE
  /\ wanted = FALSE /\ watching = None /\ retried = Interval /\ asked = Cooldown
  /\ opened = {} /\ stage = "WaitingForChannels" /\ said = <<>> /\ quiet = 0
--------------------------------------------------------------------------------
(* Between pumps. *)

Older(age, limit) == IF age < limit THEN age + 1 ELSE age
Tick ==
  /\ phase = "idle"
  /\ watching' = IF watching = None THEN None ELSE Older(watching, Grace)
  /\ retried' = Older(retried, Interval)
  /\ asked' = Older(asked, Cooldown)
  /\ quiet' = IF received THEN quiet ELSE Older(quiet, Patience)
  /\ UNCHANGED <<vars, phase, connected, tracked, received, wanted, protocol>>

BeginPump ==
  /\ phase = "idle"
  /\ phase' = "events"
  /\ UNCHANGED <<vars, connected, tracked, received, wanted, watchdog, protocol, quiet>>
--------------------------------------------------------------------------------
(* handle_peer_events. *)

ConnectionStateChange(now) ==
  /\ phase = "events"
  /\ connected' = now
  /\ quiet' = IF connected THEN quiet ELSE 0
  /\ UNCHANGED <<vars, phase, tracked, received, wanted, watchdog, protocol>>

\* OnTrack(OnOpen) of the video track.
OpenTrack ==
  /\ phase = "events"
  /\ tracked' = TRUE
  /\ quiet' = IF CanAsk THEN quiet ELSE 0
  /\ UNCHANGED <<vars, phase, connected, received, wanted, watchdog, protocol>>

\* OnDataChannel(OnOpen): the message channel's starts the handshake.
HandleChannelOpen(channel) ==
  /\ phase = "events"
  /\ opened' = opened \cup {channel}
  /\ IF channel = "message" /\ stage = "WaitingForChannels"
     THEN stage' = "WaitingForHandshakeAck" /\ said' = Append(said, "handshake")
     ELSE UNCHANGED <<stage, said>>
  /\ quiet' = IF CanAsk THEN quiet ELSE 0
  /\ UNCHANGED <<vars, phase, connected, tracked, received, wanted, watchdog>>

EventsHandled ==
  /\ phase = "events"
  /\ phase' = "messages"
  /\ UNCHANGED <<vars, connected, tracked, received, wanted, watchdog, protocol, quiet>>
--------------------------------------------------------------------------------
(* handle_peer_messages, then drain_decoder. *)

\* A packet of the open video track.  A frame given up or unusable asks for a keyframe;
\* one that is complete may, by what it holds or when the decoder's queue refuses it.
Accepted(i) == i \in Full /\ ~Late(i)
Damages(i) == Accepted(i) /\ (GivesUp(i) \/ (Assembled(i) /\ Stream[i].frame \in Unusable))
ReceivePacket(i) ==
  /\ phase = "messages" /\ tracked
  /\ Receive(i)
  /\ received' = TRUE
  /\ wanted' \in {wanted \/ Damages(i)} \cup (IF Accepted(i) /\ Assembled(i) THEN {TRUE} ELSE {})
  /\ UNCHANGED <<phase, connected, tracked, watchdog, protocol, quiet>>

\* handle_data_channel_message.  What is sent on the control channel before it is open is
\* at the mercy of the rtc crate, and is not sent again.
IntroduceAgain ==
  /\ said' \in {said \o SubSeq(Introduction, 2, 4)}
               \cup (IF "control" \in opened THEN {} ELSE {Append(said, "startup")})
  /\ UNCHANGED stage
Introduce ==
  /\ said' \in {said \o SubSeq(Introduction, 2, 4)}
               \cup (IF "control" \in opened THEN {} ELSE {Append(said, "startup")})
  /\ stage' = "Ready"
HandshakeAck ==
  /\ phase = "messages"
  /\ stage = "WaitingForHandshakeAck"
  /\ Introduce
  /\ UNCHANGED <<vars, phase, connected, tracked, received, wanted, watchdog, opened, quiet>>

\* The decoder can only have failed on what it was given.
DrainDecoder ==
  /\ phase = "messages"
  /\ phase' = "watch"
  /\ wanted' \in {wanted, wanted \/ received}
  /\ UNCHANGED <<vars, connected, tracked, received, watchdog, protocol, quiet>>
--------------------------------------------------------------------------------
(* The clock is read: initial_video_keyframe_due, then request_keyframe. *)

\* connected_at: get_or_insert(now).
RestartedAt == 0
StartedAt == IF watching = None THEN 0 ELSE watching
Due == StartedAt >= Grace /\ retried >= Interval
WatchFirstPacket ==
  /\ phase = "watch"
  /\ phase' = "request"
  /\ IF received \/ ~connected
     THEN watching' = None /\ retried' = Interval /\ wanted' = wanted
     ELSE /\ watching' = StartedAt
          /\ retried' = IF Due THEN 0 ELSE retried
          /\ wanted' = (wanted \/ Due)
  /\ UNCHANGED <<vars, connected, tracked, received, asked, protocol, quiet>>

\* A notification on the control channel and a PLI for the track, as far as there are
\* such; the cooldown begins in any case.
RequestKeyframe ==
  /\ phase = "request"
  /\ phase' = "idle" /\ wanted' = FALSE
  /\ IF wanted /\ asked >= Cooldown
     THEN asked' = 0 /\ quiet' = IF CanAsk THEN 0 ELSE quiet
     ELSE UNCHANGED <<asked, quiet>>
  /\ UNCHANGED <<vars, connected, tracked, received, watching, retried, protocol>>
--------------------------------------------------------------------------------
Pump ==
  \/ BeginPump
  \/ \E now \in BOOLEAN : ConnectionStateChange(now)
  \/ OpenTrack
  \/ \E channel \in {"control", "message"} : HandleChannelOpen(channel)
  \/ EventsHandled
  \/ \E i \in Packet : ReceivePacket(i)
  \/ HandshakeAck
  \/ DrainDecoder
  \/ WatchFirstPacket
  \/ RequestKeyframe

SessionNext == Tick \/ Pump
SessionSpec == SessionInit /\ [][SessionNext]_sessionVars
--------------------------------------------------------------------------------
SessionTypeOK ==
  /\ phase \in {"idle", "events", "messages", "watch", "request"}
  /\ connected \in BOOLEAN /\ tracked \in BOOLEAN /\ received \in BOOLEAN /\ wanted \in BOOLEAN
  /\ watching \in 0..Grace \cup {None} /\ retried \in 0..Interval /\ asked \in 0..Cooldown
  /\ opened \subseteq {"control", "message"}
  /\ stage \in {"WaitingForChannels", "WaitingForHandshakeAck", "Ready"}
  /\ said \in Seq({"handshake", "authorization", "gamepadChanged", "startup"})
  /\ quiet \in 0..Patience

(* While a connected session waits for its first packet and the server can be     *)
(* told, no pump leaves it unasked for a picture for longer than the grace period *)
(* or the interval: neither a reconnection, nor a request made before any channel *)
(* was there, nor the cooldown it began silences the watchdog (session.rs         *)
(* initial_video_keyframe_due and request_keyframe).                              *)
FirstPictureIsSought ==
  [][phase = "request" /\ phase' = "idle" /\ connected /\ ~received /\ CanAsk
       => quiet' < Patience]_sessionVars

(* The server is told who plays once, in order, and no more than the handshake    *)
(* before it has acknowledged that, however often a channel opens or the          *)
(* acknowledgement is repeated (protocol.rs, handle_channel_open_inner;           *)
(* channel.rs, handle_data_channel_message).                                      *)
Before(m, n) == \E p, q \in DOMAIN Introduction : p < q /\ Introduction[p] = m /\ Introduction[q] = n
IntroducedOnce == \A i, j \in DOMAIN said : i < j => Before(said[i], said[j])
================================================================================
