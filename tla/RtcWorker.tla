------------------------------- MODULE RtcWorker -------------------------------
(***************************************************************************)
(* The RTC thread of one streaming session (api/streaming/rtc/worker.rs)   *)
(* and the UI side that owns it (api_xbox/streaming/backend.rs, with       *)
(* app/stream_session/playback.rs around it): two bounded channels between *)
(* them, the exchange of ICE candidates with the signalling service, the   *)
(* keepalives, and the two ways the pair ends -- the thread reports a      *)
(* terminal event, or the UI drops the worker.                             *)
(*                                                                         *)
(* send_lossy drops what does not fit; only a terminal event is sent with  *)
(* a blocking send.  Candidates are members of small sets; gamepad frames, *)
(* audio batches and pictures travel elsewhere and are left out, as is the *)
(* text of a status.                                                       *)
(***************************************************************************)
EXTENDS Integers, Sequences, FiniteSets

CONSTANTS
  Remote,      \* the server's ICE candidates
  Local,       \* the ICE candidates this client gathers
  Sizes,       \* the video sizes the server announces after the first
  CommandCap,  \* MAX_PENDING_COMMANDS
  EventCap,    \* MAX_PENDING_EVENTS
  FirstSize    \* the size both sides assume before any announcement

ASSUME CapsAssumption == CommandCap \in Nat \ {0} /\ EventCap \in Nat \ {0}
ASSUME SetsAssumption ==
  /\ FirstSize \notin Sizes \cup Local
  /\ Local \cap Sizes = {} /\ Remote \cap (Local \cup Sizes) = {}
  /\ {"pointer", "stop"} \cap Remote = {}

VARIABLES
  rtc,         \* where the RTC thread is
  commands,    \* the commands channel: remote candidates, "pointer", "stop"
  events,      \* the events channel
  outbox,      \* events this round of run_session has yet to send_lossy
  closed,      \* session.connection_state is Closed
  size,        \* last_server_video_size
  added,       \* how often each remote candidate was added to the peer
  gathered,    \* local candidates the peer has gathered
  ui,          \* where the UI thread is, as the owner of the worker
  seen,        \* remote_ice_candidates
  toAdd,       \* candidates of the poll response not yet handled
  pendingIce,  \* pending_local_ice_candidates
  postJob,     \* ice_post_job: "flight", or "none"
  posting,     \* the candidates that job posts
  pollJob,     \* ice_poll_job: "flight", or "none"
  keepalive,   \* keepalive_job: "flight", or "none"
  shownSize,   \* StreamingSession.stream_video_size
  ended,       \* the terminal event this drain has met, or "no"
  posted,      \* external: how often the service was sent each local candidate
  dropped,     \* history: candidates and sizes a full or disconnected channel dropped,
               \* sent neither again nor, a size, in a later announcement
  unposted     \* history: local candidates in posts that failed

peer    == <<closed, size, added, gathered>>
thread  == <<rtc, outbox, peer>>
remote  == <<seen, toAdd, pollJob>>
local   == <<pendingIce, postJob, posting>>
backend == <<remote, local, keepalive, shownSize, ended>>
history == <<posted, dropped, unposted>>
vars == <<thread, commands, events, ui, backend, history>>

Dropped == ui = "dropped"
Event ==
  [type : {"local"}, batch : SUBSET Local] \cup [type : {"resolution"}, size : Sizes]
  \cup [type : {"status", "closed", "error"}]
Batch(e) == IF e.type = "local" THEN e.batch ELSE {}
Carried(e) == IF e.type = "resolution" THEN {e.size} ELSE Batch(e)
Superseded(e) == IF e.type = "resolution" THEN Sizes ELSE Batch(e)

Init ==
  /\ rtc = "negotiating" /\ outbox = <<>> /\ closed = FALSE /\ size = FirstSize
  /\ added = [c \in Remote |-> 0] /\ gathered = {}
  /\ commands = <<>> /\ events = <<>>
  /\ ui = "frame" /\ seen = {} /\ toAdd = {} /\ pollJob = "none"
  /\ pendingIce = {} /\ postJob = "none" /\ posting = {}
  /\ keepalive = "none" /\ shownSize = FirstSize /\ ended = "no"
  /\ posted = [l \in Local |-> 0] /\ dropped = {} /\ unposted = {}
--------------------------------------------------------------------------------
(* The RTC thread. *)

\* create_peer and the SDP exchange succeed; the first status is sent.
Negotiated ==
  /\ rtc = "negotiating"
  /\ rtc' = "sending"
  /\ outbox' = <<[type |-> "status"]>>
  /\ UNCHANGED <<peer, commands, events, ui, backend, history>>

\* The thread fails: negotiation fails or times out, the socket fails, or it panics.
ThreadFails ==
  /\ \/ rtc \in {"negotiating", "commands", "pump"}
     \/ rtc = "sending" /\ outbox = <<>> /\ ~closed
  /\ rtc' = "failed"
  /\ UNCHANGED <<outbox, peer, commands, events, ui, backend, history>>

\* drain_commands: one command, or the end of the drain.
DrainCommandEmptyOnly ==
  /\ rtc = "commands"
  /\ IF commands = <<>>
     THEN rtc' = "pump" /\ UNCHANGED <<commands, added>>
     ELSE /\ commands' = Tail(commands)
          /\ rtc' = IF Head(commands) = "stop" THEN "done" ELSE rtc
          /\ \/ added' = added
             \/ /\ Head(commands) \in Remote
                /\ added' = [added EXCEPT ![Head(commands)] = @ + 1]
  /\ UNCHANGED <<outbox, closed, size, gathered, events, ui, backend, history>>
DrainCommand ==
  /\ rtc = "commands"
  /\ IF commands = <<>>
     THEN rtc' = (IF Dropped THEN "done" ELSE "pump") /\ UNCHANGED <<commands, added>>
     ELSE /\ commands' = Tail(commands)
          /\ rtc' = IF Head(commands) = "stop" THEN "done" ELSE rtc
          /\ \/ added' = added
             \/ /\ Head(commands) \in Remote
                /\ added' = [added EXCEPT ![Head(commands)] = @ + 1]
  /\ UNCHANGED <<outbox, closed, size, gathered, events, ui, backend, history>>

\* session.pump succeeds: what changed goes out in run_session's order.
PumpOneNotice ==
  /\ rtc = "pump"
  /\ rtc' = "sending"
  /\ \E found \in SUBSET (Local \ gathered), now \in Sizes \cup {size}, status \in BOOLEAN :
       /\ gathered' = gathered \cup found
       /\ size' = now
       /\ outbox' = (IF found = {} THEN <<>> ELSE <<[type |-> "local", batch |-> found]>>)
                    \o (IF status THEN <<[type |-> "status"]>>
                        ELSE IF now = size THEN <<>>
                        ELSE <<[type |-> "resolution", size |-> now]>>)
       /\ closed' \in {FALSE, status}
  /\ UNCHANGED <<commands, events, added, ui, backend, history>>
Pump ==
  /\ rtc = "pump"
  /\ rtc' = "sending"
  /\ \E found \in SUBSET (Local \ gathered), now \in Sizes \cup {size}, status \in BOOLEAN :
       /\ gathered' = gathered \cup found
       /\ size' = now
       /\ outbox' = (IF found = {} THEN <<>> ELSE <<[type |-> "local", batch |-> found]>>)
                    \o (IF status THEN <<[type |-> "status"]>> ELSE <<>>)
                    \o (IF now = size THEN <<>> ELSE <<[type |-> "resolution", size |-> now]>>)
       /\ closed' \in {FALSE, status}
  /\ UNCHANGED <<commands, events, added, ui, backend, history>>

\* session.pump fails: a status is sent, and the loop continues after a pause.
PumpError ==
  /\ rtc = "pump"
  /\ rtc' = "sending"
  /\ outbox' = <<[type |-> "status"]>>
  /\ UNCHANGED <<peer, commands, events, ui, backend, history>>

\* send_lossy of one event: dropped when the channel is full or disconnected.
SendLossy ==
  /\ rtc = "sending" /\ outbox # <<>>
  /\ outbox' = Tail(outbox)
  /\ IF Len(events) < EventCap /\ ~Dropped
     THEN events' = Append(events, Head(outbox)) /\ dropped' = dropped \ Superseded(Head(outbox))
     ELSE /\ events' = events
          /\ dropped' = (dropped \ Superseded(Head(outbox))) \cup Carried(Head(outbox))
  /\ UNCHANGED <<rtc, peer, commands, ui, backend, posted, unposted>>

\* The round is over: a closed connection ends the thread, else it waits and goes on.
EndRound ==
  /\ rtc = "sending" /\ outbox = <<>>
  /\ rtc' = IF closed THEN "closed" ELSE "commands"
  /\ UNCHANGED <<outbox, peer, commands, events, ui, backend, history>>

\* send_important_event blocks until there is room, or the receiver is gone.
Terminal == [type |-> IF rtc = "closed" THEN "closed" ELSE "error"]
ReportEndLossy ==
  /\ rtc \in {"closed", "failed"}
  /\ rtc' = "done"
  /\ events' = IF Len(events) < EventCap THEN Append(events, Terminal) ELSE events
  /\ UNCHANGED <<outbox, peer, commands, ui, backend, history>>
ReportEnd ==
  /\ rtc \in {"closed", "failed"}
  /\ Dropped \/ Len(events) < EventCap
  /\ rtc' = "done"
  /\ events' = IF Dropped THEN events ELSE Append(events, Terminal)
  /\ UNCHANGED <<outbox, peer, commands, ui, backend, history>>
--------------------------------------------------------------------------------
(* The UI thread.  A tick drains the events and, unless they end the session,     *)
(* runs maintain: post local ICE, poll remote ICE, keep alive.                    *)

Tick ==
  /\ ui = "frame"
  /\ ui' = "drain"
  /\ UNCHANGED <<thread, commands, events, backend, history>>

\* try_recv of one event.
ReceiveEventReplacing ==
  /\ ui = "drain" /\ events # <<>>
  /\ LET e == Head(events) IN
       /\ pendingIce' = Batch(e)
       /\ shownSize' = IF e.type = "resolution" THEN e.size ELSE shownSize
       /\ ended' = IF e.type \in {"closed", "error"} THEN e.type ELSE ended
  /\ events' = Tail(events)
  /\ UNCHANGED <<thread, commands, ui, remote, postJob, posting, keepalive, history>>
ReceiveEvent ==
  /\ ui = "drain" /\ events # <<>>
  /\ LET e == Head(events) IN
       /\ pendingIce' = pendingIce \cup Batch(e)
       /\ shownSize' = IF e.type = "resolution" THEN e.size ELSE shownSize
       /\ ended' = IF e.type \in {"closed", "error"} THEN e.type ELSE ended
  /\ events' = Tail(events)
  /\ UNCHANGED <<thread, commands, ui, remote, postJob, posting, keepalive, history>>

\* No event is left: an error or a close stops the stream, else maintain begins with
\* post_local_ice, which has at most one post under way.
PostLocalIceCloned ==
  IF postJob = "flight" \/ pendingIce = {}
  THEN UNCHANGED <<postJob, pendingIce, posting>>
  ELSE postJob' = "flight" /\ posting' = pendingIce /\ pendingIce' = pendingIce
PostLocalIce ==
  IF postJob = "flight" \/ pendingIce = {}
  THEN UNCHANGED <<postJob, pendingIce, posting>>
  ELSE postJob' = "flight" /\ posting' = pendingIce /\ pendingIce' = {}

EventsDrained ==
  /\ ui = "drain" /\ events = <<>>
  /\ IF ended # "no"
     THEN ui' = "stopping" /\ UNCHANGED local
     ELSE ui' = "poll" /\ PostLocalIce
  /\ UNCHANGED <<thread, commands, events, remote, keepalive, shownSize, ended, history>>

\* poll_remote_ice: a poll that has ended, however long ago, gives candidates, some of
\* them given before, or none.  If it has not, or there is none, a new one may be due.
PollRemoteIce ==
  /\ ui = "poll"
  /\ \/ /\ pollJob = "flight"
        /\ pollJob' = "none"
        /\ toAdd' \in SUBSET Remote
        /\ ui' = "adding"
     \/ /\ pollJob' \in {pollJob, "flight"}
        /\ ui' = "keepalive"
        /\ toAdd' = toAdd
  /\ UNCHANGED <<thread, commands, events, seen, local, keepalive, shownSize, ended, history>>

\* One candidate of the response: a new one is remembered, and sent lossily.
CommandFits == Len(commands) < CommandCap /\ rtc \notin {"failed", "done"}
SendCommand(c) == commands' = IF CommandFits THEN Append(commands, c) ELSE commands
AddRemote ==
  /\ ui = "adding" /\ toAdd # {}
  /\ \E c \in toAdd :
       /\ toAdd' = toAdd \ {c}
       /\ seen' = seen \cup {c}
       /\ IF c \in seen THEN commands' = commands ELSE SendCommand(c)
       /\ dropped' = IF c \in seen \/ CommandFits THEN dropped ELSE dropped \cup {c}
  /\ UNCHANGED <<thread, events, ui, pollJob, local, keepalive, shownSize, ended, posted,
                 unposted>>

\* The response is handled; the next poll starts if its second has passed.
RemoteAdded ==
  /\ ui = "adding" /\ toAdd = {}
  /\ pollJob' \in {"none", "flight"}
  /\ ui' = "keepalive"
  /\ UNCHANGED <<thread, commands, events, seen, toAdd, local, keepalive, shownSize, ended,
                 history>>

\* keep_alive: a session the service no longer knows is stopped with an error.  Else the
\* job goes on, or has ended and the next is due or not.
KeepAlive ==
  /\ ui = "keepalive"
  /\ \/ keepalive = "flight" /\ keepalive' = "none" /\ ui' = "stopping"
     \/ keepalive' \in {"none", "flight"} /\ ui' = "frame"
  /\ UNCHANGED <<thread, commands, events, remote, local, shownSize, ended, history>>

\* A touch on the running stream: send_pointer_event.
PointerEvent ==
  /\ ui = "frame"
  /\ SendCommand("pointer")
  /\ UNCHANGED <<thread, events, ui, backend, history>>

\* The user exits the game: exit_stream.
ExitStream ==
  /\ ui = "frame"
  /\ ui' = "stopping"
  /\ UNCHANGED <<thread, commands, events, backend, history>>

\* stream.stop() has been answered (or the user logged out, without it): the session
\* is dropped, and the worker's Drop sends Stop before the channels disconnect.
DropWorker ==
  /\ ui \in {"stopping", "frame"}
  /\ ui' = "dropped"
  /\ SendCommand("stop")
  /\ events' = <<>>
  /\ UNCHANGED <<thread, backend, history>>
--------------------------------------------------------------------------------
(* The signalling service: posts in flight end while the UI awaits. *)

\* A post arrives; or it fails, before or after it has arrived.
PostEnds ==
  /\ ui \in {"frame", "stopping"} /\ postJob = "flight"
  /\ postJob' = "none" /\ posting' = {}
  /\ \/ posted' = [l \in Local |-> posted[l] + (IF l \in posting THEN 1 ELSE 0)]
        /\ unposted' = unposted
     \/ posted' = posted /\ unposted' = unposted \cup posting
  /\ UNCHANGED <<thread, commands, events, ui, remote, pendingIce, keepalive, shownSize, ended,
                 dropped>>
--------------------------------------------------------------------------------
Finished == Dropped /\ rtc = "done" /\ UNCHANGED vars

ThreadStep == DrainCommand \/ Pump \/ PumpError \/ SendLossy \/ EndRound \/ ReportEnd
UiStep == Tick \/ ReceiveEvent \/ PollRemoteIce \/ AddRemote \/ RemoteAdded \/ KeepAlive

Next ==
  \/ Negotiated \/ ThreadFails \/ ThreadStep
  \/ UiStep \/ EventsDrained \/ PointerEvent \/ ExitStream \/ DropWorker
  \/ PostEnds
  \/ Finished

(* Both threads run.  The SDP exchange ends within its timeout, and so does every *)
(* request.  The UI drains events faster than the RTC thread, which pauses in     *)
(* each round, produces them, and the thread drains commands faster than touches  *)
(* arrive, once per frame.  Neither side need ever end the session.               *)
Fairness ==
  /\ WF_vars(Negotiated \/ ThreadFails) /\ WF_vars(ThreadStep)
  /\ WF_vars(UiStep) /\ SF_vars(EventsDrained)
  /\ WF_vars(ui = "stopping" /\ DropWorker)
  /\ SF_vars(PostEnds)

Safety == Init /\ [][Next]_vars
Spec == Safety /\ Fairness
--------------------------------------------------------------------------------
TypeOK ==
  /\ rtc \in {"negotiating", "commands", "pump", "sending", "closed", "failed", "done"}
  /\ commands \in Seq(Remote \cup {"pointer", "stop"}) /\ Len(commands) <= CommandCap
  /\ events \in Seq(Event) /\ Len(events) <= EventCap
  /\ outbox \in Seq(Event)
  /\ closed \in BOOLEAN /\ size \in Sizes \cup {FirstSize}
  /\ added \in [Remote -> Nat] /\ gathered \in SUBSET Local
  /\ ui \in {"frame", "drain", "poll", "adding", "keepalive", "stopping", "dropped"}
  /\ seen \in SUBSET Remote /\ toAdd \in SUBSET Remote
  /\ pendingIce \in SUBSET Local
  /\ postJob \in {"none", "flight"} /\ posting \in SUBSET Local
  /\ pollJob \in {"none", "flight"} /\ keepalive \in {"none", "flight"}
  /\ shownSize \in Sizes \cup {FirstSize}
  /\ ended \in {"no", "closed", "error"}
  /\ posted \in [Local -> Nat] /\ unposted \in SUBSET Local
  /\ dropped \in SUBSET (Remote \cup Local \cup Sizes)

(* A candidate crosses once: however often the service repeats one, the peer is   *)
(* given it at most once, and whatever becomes of the posts, the service is sent  *)
(* each gathered one at most once (backend.rs poll_remote_ice, post_local_ice).   *)
CandidateCrossesOnce ==
  /\ \A c \in Remote : added[c] <= 1
  /\ \A l \in Local : posted[l] <= 1

(* The UI shows the size the thread last announced, once nothing is on its way any *)
(* more: an announcement gets past the candidates and the status sent before it,   *)
(* past a failing pump, and is never overtaken by an older one (worker.rs          *)
(* run_session).  Excepted is the one that was itself dropped on a full channel;   *)
(* DroppedIsSuperseded is about that.                                              *)
ResolutionArrives ==
  rtc = "commands" /\ ui \in {"poll", "adding", "keepalive"} /\ events = <<>> =>
    shownSize = size \/ size \in dropped

(* A gathered candidate is sent to the service, across the events still to be      *)
(* drained and the post under way; unless its own post failed or the session       *)
(* ended, or its batch was dropped on a full channel, which DroppedIsSuperseded is *)
(* about (backend.rs post_local_ice).                                              *)
GatheredIsPosted ==
  \A l \in Local :
    l \in gathered ~>
      posted[l] > 0 \/ l \in dropped \cup unposted \/ rtc = "done" \/ ui = "dropped"

(* "a full or disconnected channel just drops the value, since every event/command *)
(* here is either superseded by the next tick or, for `Stop`, best-effort anyway"  *)
(* (worker.rs, at send_lossy): a candidate or a size that a channel dropped is     *)
(* sent again, or a newer size announced, while the session lasts.                 *)
DroppedIsSuperseded ==
  \A v \in Remote \cup Local \cup Sizes :
    v \in dropped ~> v \notin dropped \/ rtc = "done" \/ ui = "dropped"

(* A thread that ends by itself is noticed: even with the events channel full,    *)
(* the UI learns of it and drops the worker.                                      *)
EndIsNoticed == rtc = "done" ~> Dropped

(* A dropped worker's thread ends, whether or not Stop found room in the channel, *)
(* and even while it negotiates or blocks on its last report.                     *)
DroppedWorkerEnds == Dropped ~> rtc = "done"
================================================================================
