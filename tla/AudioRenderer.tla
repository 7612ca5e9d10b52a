----------------------------- MODULE AudioRenderer -----------------------------
(***************************************************************************)
(* The sound's way from the RTC thread to the device: the packets one      *)
(* round of that thread gathers and its lossy batch channel (rtc/rtp.rs,   *)
(* rtc/worker.rs), the UI's tick that takes the batches (session.rs), and  *)
(* the renderer with its decode worker and SDL's queue                     *)
(* (streaming/audio.rs).  The renderer outlives the streaming sessions.    *)
(*                                                                         *)
(* A packet is known by whether it was received before or after a moment,  *)
(* chosen freely, at which the stream turns: that suffices to see whether  *)
(* sound is heard out of order.  Queued sound is counted in units of time. *)
(* SampleBuilder (external) delivers packets in order or not at all.       *)
(***************************************************************************)
EXTENDS Naturals, Sequences

CONSTANTS
  MaxGathered,  \* MAX_PENDING_AUDIO_PACKETS
  MaxBatches,   \* MAX_PENDING_AUDIO_BATCHES
  MaxPackets,   \* MAX_PENDING_OPUS_PACKETS
  MaxBuffers,   \* MAX_PENDING_PCM_BUFFERS
  MaxQueued,    \* MAX_QUEUED_AUDIO_BYTES
  StartBuffer,  \* AUDIO_START_BUFFER_BYTES
  Duration,     \* how much sound a packet may hold
  MaxPending,   \* bound: packets one drain takes
  None          \* no samples

Mark == {"before", "after"}
Samples == [mark : Mark, size : Duration]

ASSUME LimitsAssumption ==
  /\ {MaxGathered, MaxBatches, MaxPackets, MaxBuffers, MaxQueued} \subseteq Nat \ {0}
  /\ StartBuffer \in 1..MaxQueued
  /\ MaxPending \in Nat /\ MaxPending >= MaxGathered
  /\ Duration # {} /\ Duration \subseteq 1..MaxQueued
  /\ None \notin Samples

VARIABLES
  streaming,  \* the app's state holds a StreamingSession
  turn,       \* external: the mark of what the server sends
  gathered,   \* AudioReceiver.packets
  batches,    \* the channel audio_tx, audio_rx
  pending,    \* pending_audio_packets, and what submit_packets has yet to send
  ui,         \* the step of the UI's tick
  packets,    \* the channel to the decode worker
  worker,     \* "idle", "sending" its samples, or "dead"
  hand,       \* the samples it is sending
  buffers,    \* the channel back
  queue,      \* SDL's queue, unit by unit
  playing,    \* the device is not paused
  started,    \* AudioRenderer.started
  heard       \* history: the mark of the last unit played

session == <<streaming, turn, gathered, batches>>
decoder == <<packets, worker, hand, buffers>>
device  == <<queue, playing, started, heard>>
vars == <<session, pending, ui, decoder, device>>

Init ==
  /\ streaming = TRUE /\ turn = "before" /\ gathered = <<>> /\ batches = <<>>
  /\ pending = <<>> /\ ui = "drain"
  /\ packets = <<>> /\ worker = "idle" /\ hand = None /\ buffers = <<>>
  /\ queue = <<>> /\ playing = FALSE /\ started = FALSE /\ heard = "before"
--------------------------------------------------------------------------------
(* The RTC thread. *)

Turn ==
  /\ turn = "before"
  /\ turn' = "after"
  /\ UNCHANGED <<streaming, gathered, batches, pending, ui, decoder, device>>

\* AudioRtp::receive leaves what is too much in the sample builder.
Receive ==
  /\ streaming /\ Len(gathered) < MaxGathered
  /\ gathered' = Append(gathered, turn)
  /\ UNCHANGED <<streaming, turn, batches, pending, ui, decoder, device>>

\* A full channel drops the batch.
SendBatch ==
  /\ streaming /\ gathered # <<>>
  /\ gathered' = <<>>
  /\ batches' = IF Len(batches) < MaxBatches THEN Append(batches, gathered) ELSE batches
  /\ UNCHANGED <<streaming, turn, pending, ui, decoder, device>>
--------------------------------------------------------------------------------
(* The UI's tick: drain_backend_events. *)

\* The loop ends at an empty channel.  A batch beyond the bound stands for one sent
\* just after that.
MoreToDrain == batches # <<>> /\ Len(pending) + Len(Head(batches)) <= MaxPending

DrainBatch ==
  /\ ui = "drain" /\ MoreToDrain
  /\ pending' = pending \o Head(batches) /\ batches' = Tail(batches)
  /\ UNCHANGED <<streaming, turn, gathered, ui, decoder, device>>

EventsDrained ==
  /\ ui = "drain" /\ streaming /\ ~MoreToDrain
  /\ ui' = "submit"
  /\ UNCHANGED <<session, pending, decoder, device>>

\* The session goes with its channel and what it has not submitted.
EndStream ==
  /\ ui = "drain" /\ streaming
  /\ streaming' = FALSE /\ gathered' = <<>> /\ batches' = <<>> /\ pending' = <<>>
  /\ UNCHANGED <<turn, ui, decoder, device>>

StartStream ==
  /\ ~streaming
  /\ streaming' = TRUE
  /\ UNCHANGED <<turn, gathered, batches, pending, ui, decoder, device>>
--------------------------------------------------------------------------------
(* AudioRenderer::submit_packets. *)

\* A device that has run dry is paused until the start buffer is full again.
SubmitPackets ==
  /\ ui = "submit"
  /\ ui' = "send"
  /\ IF started /\ queue = <<>> THEN playing' = FALSE /\ started' = FALSE
     ELSE UNCHANGED <<playing, started>>
  /\ UNCHANGED <<session, pending, decoder, queue, heard>>

\* A full channel drops the packet.
SendPacketRequeueing ==
  /\ ui = "send" /\ pending # <<>> /\ worker # "dead"
  /\ IF Len(packets) < MaxPackets
     THEN packets' = Append(packets, Head(pending)) /\ pending' = Tail(pending)
     ELSE UNCHANGED packets /\ pending' = Append(Tail(pending), Head(pending))
  /\ UNCHANGED <<session, ui, worker, hand, buffers, device>>
SendPacket ==
  /\ ui = "send" /\ pending # <<>> /\ worker # "dead"
  /\ packets' = IF Len(packets) < MaxPackets THEN Append(packets, Head(pending)) ELSE packets
  /\ pending' = Tail(pending)
  /\ UNCHANGED <<session, ui, worker, hand, buffers, device>>

\* restart_decode_worker: a new decoder or thread may be refused.
SpawnDecodeWorker(first) ==
  worker' = "idle" /\ packets' = first /\ hand' = None /\ buffers' = <<>>
RestartDecodeWorker(first) ==
  /\ queue' = <<>> /\ playing' = FALSE /\ started' = FALSE
  /\ SpawnDecodeWorker(first) \/ UNCHANGED decoder
  /\ UNCHANGED heard

SendToDeadWorker ==
  /\ ui = "send" /\ pending # <<>> /\ worker = "dead"
  /\ RestartDecodeWorker(<<Head(pending)>>)
  /\ pending' = Tail(pending)
  /\ UNCHANGED <<session, ui>>

PacketsSent ==
  /\ ui = "send" /\ pending = <<>>
  /\ ui' = "receive"
  /\ UNCHANGED <<session, pending, decoder, device>>

\* What would not fit clears the queue first.
Overflows(size) == Len(queue) + size > MaxQueued

\* The device is resumed once enough is queued.
EnoughOffByOne(length) == length > StartBuffer
Enough(length) == length >= StartBuffer

QueueSamplesStarted ==
  /\ ui = "receive" /\ buffers # <<>>
  /\ LET samples == Head(buffers)
         units == [i \in 1..samples.size |-> samples.mark]
         kept == IF Overflows(samples.size) THEN <<>> ELSE queue
         stillPlaying == playing /\ ~Overflows(samples.size)
     IN /\ queue' \in {kept \o units, kept}
        /\ playing' = (stillPlaying \/ (~started /\ Enough(Len(queue'))))
        /\ started' = (started \/ Enough(Len(queue')))
  /\ buffers' = Tail(buffers)
  /\ UNCHANGED <<session, pending, ui, packets, worker, hand, heard>>
QueueSamples ==
  /\ ui = "receive" /\ buffers # <<>>
  /\ LET samples == Head(buffers)
         units == [i \in 1..samples.size |-> samples.mark]
         kept == IF Overflows(samples.size) THEN <<>> ELSE queue
         stillStarted == started /\ ~Overflows(samples.size)
         stillPlaying == playing /\ ~Overflows(samples.size)
     IN /\ queue' \in {kept \o units, kept}  \* SDL may refuse them
        /\ playing' = (stillPlaying \/ (~stillStarted /\ Enough(Len(queue'))))
        /\ started' = (stillStarted \/ Enough(Len(queue')))
  /\ buffers' = Tail(buffers)
  /\ UNCHANGED <<session, pending, ui, packets, worker, hand, heard>>

NoMoreSamples ==
  /\ ui = "receive" /\ buffers = <<>>
  /\ ui' = "drain"
  /\ IF worker = "dead" THEN RestartDecodeWorker(<<>>) ELSE UNCHANGED <<decoder, device>>
  /\ UNCHANGED <<session, pending>>
--------------------------------------------------------------------------------
(* The decode worker, and the device. *)

\* A packet that cannot be decoded is skipped.
DecodePacket ==
  /\ worker = "idle" /\ packets # <<>>
  /\ packets' = Tail(packets)
  /\ \/ \E size \in Duration :
          hand' = [mark |-> Head(packets), size |-> size] /\ worker' = "sending"
     \/ UNCHANGED <<worker, hand>>
  /\ UNCHANGED <<session, pending, ui, buffers, device>>

\* It waits for room.
SendSamples ==
  /\ worker = "sending" /\ Len(buffers) < MaxBuffers
  /\ buffers' = Append(buffers, hand)
  /\ worker' = "idle" /\ hand' = None
  /\ UNCHANGED <<session, pending, ui, packets, device>>

\* The channel to a thread that has panicked is gone; what it sent can still be received.
WorkerPanics ==
  /\ worker = "idle" /\ packets # <<>>
  /\ worker' = "dead" /\ packets' = <<>>
  /\ UNCHANGED <<session, pending, ui, hand, buffers, device>>

Play ==
  /\ playing /\ queue # <<>>
  /\ heard' = Head(queue) /\ queue' = Tail(queue)
  /\ UNCHANGED <<session, pending, ui, decoder, playing, started>>
--------------------------------------------------------------------------------
RtcStep == Receive \/ SendBatch
UiStep ==
  \/ DrainBatch \/ EventsDrained
  \/ SubmitPackets \/ SendPacket \/ SendToDeadWorker \/ PacketsSent
  \/ QueueSamples \/ NoMoreSamples
WorkerStep == DecodePacket \/ SendSamples

Next == Turn \/ RtcStep \/ UiStep \/ EndStream \/ StartStream \/ WorkerStep \/ WorkerPanics \/ Play

(* All threads run and the server goes on sending, at the pace the device plays,  *)
(* so that not all sound is cleared before any is played; a decoder, a thread and *)
(* SDL do not fail for ever.                                                      *)
Decoded == DecodePacket /\ worker' = "sending"
Queued  == QueueSamples /\ Len(queue') > 0 /\ (~Overflows(Head(buffers).size) => Len(queue') > Len(queue))
Spawned == UiStep /\ worker = "dead" /\ worker' = "idle"

Fairness ==
  /\ WF_vars(Receive) /\ WF_vars(SendBatch) /\ WF_vars(WorkerStep) /\ WF_vars(UiStep)
  /\ SF_vars(Play) /\ SF_vars(Decoded) /\ SF_vars(Queued) /\ SF_vars(Spawned)

Safety == Init /\ [][Next]_vars
Spec == Safety /\ Fairness
--------------------------------------------------------------------------------
TypeOK ==
  /\ streaming \in BOOLEAN /\ turn \in Mark
  /\ gathered \in Seq(Mark) /\ Len(gathered) <= MaxGathered
  /\ batches \in Seq(Seq(Mark)) /\ Len(batches) <= MaxBatches
  /\ pending \in Seq(Mark) /\ Len(pending) <= MaxPending
  /\ ui \in {"drain", "submit", "send", "receive"}
  /\ packets \in Seq(Mark) /\ Len(packets) <= MaxPackets
  /\ worker \in {"idle", "sending", "dead"}
  /\ hand \in Samples \cup {None} /\ (worker = "sending" <=> hand # None)
  /\ buffers \in Seq(Samples) /\ Len(buffers) <= MaxBuffers
  /\ queue \in Seq(Mark) /\ Len(queue) <= MaxQueued /\ playing \in BOOLEAN /\ started \in BOOLEAN
  /\ heard \in Mark

(* Sound enough to start with is played, never left in a paused queue: not after  *)
(* an overflow, a restart or a refusal either (submit_packets).                   *)
EnoughIsPlayed == queue # <<>> /\ ~playing => Len(queue) < StartBuffer

(* Sound is heard in the order it was received, over all the channels that drop   *)
(* some of it, over clears and new workers, and from one session to the next.     *)
SoundInOrder == [][heard = "after" => heard' = "after"]_vars

(* As long as a session goes on and no worker panics again, there is sound again  *)
(* and again: an overflow, a dry queue, a dead worker and a blocked one are       *)
(* recovered from (audio.rs submit_packets, restart_decode_worker).               *)
Calm == <>[]streaming /\ <>[][worker' = "dead" => UNCHANGED worker]_vars
SoundGoesOn == Calm => []<><<Play>>_vars
================================================================================
