--------------------------- MODULE DirectVideoOutput ---------------------------
(***************************************************************************)
(* The hand-off of decoded pictures from the decoder thread to the render  *)
(* thread, for one streaming session: the two textures and the mutex that  *)
(* guards them (streaming/video/mod.rs), the decoder thread's use of them  *)
(* (streaming/video/worker.rs), the slots a picture's number travels       *)
(* through (media.rs, rtc/worker.rs, app/stream_session/session.rs) and    *)
(* the render thread that registers, shows and frees the textures          *)
(* (shell/surface.rs).                                                     *)
(*                                                                         *)
(* Three threads interleave: the decoder, the RTC thread that carries      *)
(* results, and the render thread.  The mutex of DirectVideoOutput is held *)
(* exactly while the decoder writes a texture (decoder = "decoding"); the  *)
(* render thread's calls hold it for one step.  Frame ids of VideoReceiver *)
(* are one-to-one with generations and are not kept apart.                 *)
(***************************************************************************)
EXTENDS Integers

CONSTANTS
  MaxGeneration,  \* bound: pictures the decoder may complete
  MayTimeOut,     \* whether MAX_PENDING_TEXTURE_WAIT may pass before the renderer shows
  None,           \* an empty Option
  Failed          \* a decode result that is an Err

ASSUME ConstantsAssumption ==
  /\ MaxGeneration \in Nat \ {0}
  /\ MayTimeOut \in BOOLEAN

VARIABLES
  targets,         \* state.targets is Some
  displayed,       \* state.displayed: the texture the renderer last marked
  pending,         \* state.pending: the picture published and not yet marked
  nextGeneration,  \* state.next_generation
  decoder,         \* where the decoder thread is
  target,          \* DirectVideoTargetGuard.index of the latest decode
  content,         \* the generation whose picture each texture holds, Dirty for none
  latest,          \* VideoDecodeWorker.latest_result
  drained,         \* VideoReceiver.latest_frame
  slot,            \* RtcWorker.latest_frame
  current,         \* StreamingSession.current_video_frame
  render,          \* where the render thread is
  textures,        \* VitaSurface.video_textures (and direct_video_output) are Some
  shown,           \* displayed_video_texture, with the frame of last_frame_id
  presented,       \* METRICS.presented
  overrun,         \* history: pictures a timed-out wait let the decoder overwrite
  lost             \* history: pictures whose result an error replaced

output  == <<targets, displayed, pending, nextGeneration>>
slots   == <<latest, drained, slot, current>>
surface == <<textures, shown, presented>>
history == <<overrun, lost>>
vars == <<output, decoder, target, content, slots, render, surface, history>>

Texture == {0, 1}
Dirty == 0
Frame == [index : Texture, generation : 1..MaxGeneration]

ASSUME OptionAssumption ==
  /\ None \notin Frame
  /\ None \notin Texture
  /\ Failed \notin Frame
  /\ Failed # None

Init ==
  /\ targets = FALSE /\ displayed = None /\ pending = None /\ nextGeneration = 0
  /\ decoder = "starting" /\ target = 0
  /\ content = [t \in Texture |-> Dirty]
  /\ latest = None /\ drained = None /\ slot = None /\ current = None
  /\ render = "tick"
  /\ textures = FALSE /\ shown = None /\ presented = 0
  /\ overrun = {} /\ lost = {}
--------------------------------------------------------------------------------
(* The decoder thread. *)

\* VideoDecodeWorker::spawn: the hardware decoder exists, decoder_ready is set.
SpawnDecoder ==
  /\ decoder = "starting"
  /\ decoder' = "idle"
  /\ UNCHANGED <<output, target, content, slots, render, surface, history>>

\* The texture lock_decode_target picks once it stops waiting.
DecodeIndexOnScreen ==
  IF pending # None THEN pending.index
  ELSE IF displayed = None THEN 0 ELSE displayed
DecodeIndex ==
  IF pending # None THEN pending.index
  ELSE IF displayed = None THEN 0 ELSE 1 - displayed

\* lock_decode_target after its wait, and the start of the decode into the texture.
Acquire ==
  /\ IF targets
     THEN /\ decoder' = "decoding"
          /\ target' = DecodeIndex
          /\ content' = [content EXCEPT ![DecodeIndex] = Dirty]
          /\ overrun' = IF pending = None THEN overrun
                        ELSE overrun \cup {pending.generation}
     ELSE /\ decoder' = "idle"
          /\ UNCHANGED <<target, content, overrun>>
  /\ UNCHANGED <<output, slots, render, surface, lost>>

\* An access unit arrives and the decoder asks for a texture.
LockDecodeTarget ==
  /\ decoder = "idle"
  /\ nextGeneration < MaxGeneration
  /\ \/ /\ pending = None
        /\ Acquire
     \/ /\ pending # None
        /\ decoder' = "waiting"
        /\ UNCHANGED <<output, target, content, slots, render, surface, history>>

\* wait_timeout_while returns: woken with nothing pending or no targets, or timed out.
WaitUntilFree ==
  /\ decoder = "waiting"
  /\ targets /\ pending = None
  /\ Acquire
WaitTimeoutWhile ==
  /\ decoder = "waiting"
  /\ ~targets \/ pending = None \/ MayTimeOut
  /\ Acquire

\* DirectVideoTargetGuard::publish; the guard, and with it the mutex, is dropped.
PublishedFrame == [index |-> target, generation |-> nextGeneration]
Publish ==
  /\ decoder = "decoding"
  /\ decoder' = "publishing"
  /\ nextGeneration' = nextGeneration + 1
  /\ target' = target
  /\ pending' = PublishedFrame'
  /\ content' = [content EXCEPT ![target] = nextGeneration']
  /\ UNCHANGED <<targets, displayed, slots, render, surface, history>>

\* publish_result of the picture just published, replacing an undrained result.
PublishResult ==
  /\ decoder = "publishing"
  /\ decoder' = "idle"
  /\ latest' = PublishedFrame
  /\ UNCHANGED <<output, target, content, drained, slot, current, render, surface, history>>

\* No picture came out, or the unit's generation went stale: the guard is dropped.
DecodeWithoutPicture ==
  /\ decoder = "decoding"
  /\ decoder' = "idle"
  /\ UNCHANGED <<output, target, content, slots, render, surface, history>>

\* publish_result of an Err: the decode failed or panicked, or (from "idle") the
\* decoder could not be recreated.
DecodeFailed ==
  /\ decoder = "decoding" \/ (decoder = "idle" /\ nextGeneration < MaxGeneration)
  /\ decoder' = "idle"
  /\ latest' = Failed
  /\ lost' = IF latest \in Frame THEN lost \cup {latest.generation} ELSE lost
  /\ UNCHANGED <<output, target, content, drained, slot, current, render, surface, overrun>>

\* DecoderCommand::Stop after the session, and with it the RTC worker, was dropped.
StopDecoder ==
  /\ decoder \in {"starting", "idle"}
  /\ render \in {"detach", "free", "off"}
  /\ decoder' = "stopped"
  /\ UNCHANGED <<output, target, content, slots, render, surface, history>>
--------------------------------------------------------------------------------
(* The RTC thread. *)

\* VideoReceiver::drain_decoder: takes the result; an Err carries no picture.
DrainDecoder ==
  /\ latest # None
  /\ latest' = None
  /\ drained' = IF latest = Failed THEN drained ELSE latest
  /\ UNCHANGED <<output, decoder, target, content, slot, current, render, surface, history>>

\* run_session hands the drained picture to the UI's slot, replacing an older one.
ForwardFrameLossy ==
  /\ drained # None
  /\ slot' = IF slot = None THEN drained ELSE slot
  /\ drained' = None
  /\ UNCHANGED <<output, decoder, target, content, latest, current, render, surface, history>>
ForwardFrame ==
  /\ drained # None
  /\ slot' = drained
  /\ drained' = None
  /\ UNCHANGED <<output, decoder, target, content, latest, current, render, surface, history>>
--------------------------------------------------------------------------------
(* The render thread: one round is tick, sync, mark, draw. *)

\* drain_backend_events takes the latest picture, if there is a new one.
TakeLatestFrame ==
  /\ render = "tick"
  /\ render' = "sync"
  /\ current' = IF slot = None THEN current ELSE slot
  /\ slot' = None
  /\ UNCHANGED <<output, decoder, target, content, latest, drained, surface, history>>

\* ensure_direct_video_output creates both textures and registers them: set_targets.
SetTargets ==
  /\ render = "sync"
  /\ ~textures
  /\ decoder # "starting"
  /\ textures' = TRUE
  /\ targets' = TRUE /\ displayed' = None /\ pending' = None
  /\ shown' = None
  /\ UNCHANGED <<nextGeneration, decoder, target, content, slots, render, presented, history>>

\* sync_video_frame finds no picture, or the one it already showed.
IsNewFrameAlways == current # None
IsNewFrame == current # None /\ current # shown
NoNewFrame ==
  /\ render = "sync"
  /\ textures \/ decoder = "starting"
  /\ ~IsNewFrame
  /\ render' = "draw"
  /\ UNCHANGED <<output, decoder, target, content, slots, surface, history>>

\* mark_displayed: the texture becomes the displayed one, and pending is cleared if
\* it was this very picture.
MarkDisplayed ==
  /\ render = "sync"
  /\ textures
  /\ IsNewFrame
  /\ decoder # "decoding"
  /\ render' = "marked"
  /\ displayed' = current.index
  /\ pending' = IF pending = current THEN None ELSE pending
  /\ UNCHANGED <<targets, nextGeneration, decoder, target, content, slots, surface, history>>

\* The rest of sync_video_frame: the surface switches to the marked texture.
SwitchTexture ==
  /\ render = "marked"
  /\ render' = "draw"
  /\ shown' = current
  /\ presented' = presented + 1
  /\ UNCHANGED <<output, decoder, target, content, slots, textures, history>>

\* draw_scene copies the shown texture to the canvas.
DrawScene ==
  /\ render = "draw"
  /\ render' = "tick"
  /\ UNCHANGED <<output, decoder, target, content, slots, surface, history>>

\* The session ends and is dropped; the next sync_video_frame gets None.
EndSession ==
  /\ render = "tick"
  /\ render' = "detach"
  /\ current' = None
  /\ UNCHANGED <<output, decoder, target, content, latest, drained, slot, surface, history>>

\* detach_direct_video_output, first half: clear_targets waits for the mutex.
ClearDisplayedOnly ==
  /\ render = "detach"
  /\ textures
  /\ decoder # "decoding"
  /\ render' = "free"
  /\ displayed' = None
  /\ UNCHANGED <<targets, pending, nextGeneration, decoder, target, content, slots, surface,
                 history>>
ClearTargetsUnlocked ==
  /\ render = "detach"
  /\ textures
  /\ render' = "free"
  /\ targets' = FALSE /\ displayed' = None /\ pending' = None
  /\ UNCHANGED <<nextGeneration, decoder, target, content, slots, surface, history>>
ClearTargets ==
  /\ render = "detach"
  /\ textures
  /\ decoder # "decoding"
  /\ render' = "free"
  /\ targets' = FALSE /\ displayed' = None /\ pending' = None
  /\ UNCHANGED <<nextGeneration, decoder, target, content, slots, surface, history>>

\* detach_direct_video_output, second half: the textures are dropped.
FreeTextures ==
  /\ render = "free" \/ (render = "detach" /\ ~textures)
  /\ render' = "off"
  /\ textures' = FALSE
  /\ shown' = None
  /\ UNCHANGED <<output, decoder, target, content, slots, presented, history>>
--------------------------------------------------------------------------------
Finished ==
  /\ render = "off" /\ decoder = "stopped" /\ latest = None /\ drained = None
  /\ UNCHANGED vars

DecoderStep == WaitTimeoutWhile \/ Publish \/ PublishResult \/ DecodeWithoutPicture
               \/ DecodeFailed \/ StopDecoder
RenderStep == TakeLatestFrame \/ SetTargets \/ NoNewFrame \/ SwitchTexture \/ DrawScene
              \/ FreeTextures

Next ==
  \/ SpawnDecoder \/ LockDecodeTarget \/ DecoderStep
  \/ DrainDecoder \/ ForwardFrame
  \/ RenderStep \/ MarkDisplayed \/ EndSession \/ ClearTargets
  \/ Finished

(* Every thread keeps running.  Access units need not arrive (no fairness on      *)
(* LockDecodeTarget) and the session need not end; the render thread gets the     *)
(* mutex in the end because the decoder gives it up between access units.         *)
DecoderProgress ==
  WaitTimeoutWhile \/ Publish \/ PublishResult \/ DecodeWithoutPicture \/ StopDecoder
  \/ (decoder = "decoding" /\ DecodeFailed)
Fairness ==
  /\ WF_vars(DecoderProgress)
  /\ WF_vars(DrainDecoder) /\ WF_vars(ForwardFrame)
  /\ WF_vars(RenderStep) /\ SF_vars(MarkDisplayed) /\ SF_vars(ClearTargets)

Safety == Init /\ [][Next]_vars
Spec == Safety /\ Fairness
--------------------------------------------------------------------------------
Generation == 0..MaxGeneration

TypeOK ==
  /\ targets \in BOOLEAN
  /\ displayed \in Texture \cup {None}
  /\ pending \in Frame \cup {None}
  /\ nextGeneration \in Generation
  /\ decoder \in {"starting", "idle", "waiting", "decoding", "publishing", "stopped"}
  /\ target \in Texture
  /\ content \in [Texture -> Generation]
  /\ latest \in Frame \cup {None, Failed}
  /\ drained \in Frame \cup {None}
  /\ slot \in Frame \cup {None}
  /\ current \in Frame \cup {None}
  /\ render \in {"tick", "sync", "marked", "draw", "detach", "free", "off"}
  /\ textures \in BOOLEAN
  /\ shown \in Frame \cup {None}
  /\ presented \in Nat
  /\ overrun \in SUBSET Generation
  /\ lost \in SUBSET Generation

(* The decoder never writes into a texture the render thread has dropped: a       *)
(* decode in progress holds the mutex that clear_targets needs, and no decode     *)
(* starts after it (mod.rs, surface.rs detach_direct_video_output).               *)
NoWriteToFreedTexture == decoder = "decoding" => textures

(* When draw_scene runs, the texture it copies holds the very picture the UI was  *)
(* told it holds, whole, unless a wait for the renderer timed out and let the     *)
(* decoder reuse that texture.                                                    *)
DrawnPictureIsWhole ==
  render = "draw" /\ shown # None =>
    content[shown.index] = shown.generation \/ shown.generation \in overrun

(* No texture is drawn while the decoder writes it, as the comment on             *)
(* DirectVideoOutput has it: the two threads are synchronized on the textures.    *)
NoDrawDuringDecode ==
  ~ (render = "draw" /\ shown # None /\ decoder = "decoding" /\ target = shown.index)

(* The timeout is the only cause of tearing: a texture is drawn while the decoder *)
(* writes it only if a timed-out wait gave that picture's texture away.           *)
TearsOnlyAfterTimeout ==
  render = "draw" /\ shown # None /\ decoder = "decoding" /\ target = shown.index =>
    shown.generation \in overrun

(* Pictures reach the screen in the order they were completed, each at most once. *)
Abstract == INSTANCE LatestFrame WITH
  published <- nextGeneration,
  shown <- IF shown = None THEN 0 ELSE shown.generation,
  presented <- presented,
  open <- render # "off"
ShowsPicturesInOrder == Abstract!Spec

(* A picture waiting to be shown is shown, or superseded by a newer one, unless   *)
(* an error replaced its result before the RTC thread drained it.                 *)
PendingPictureIsShown ==
  \A g \in 1..MaxGeneration :
    (pending # None /\ pending.generation = g) ~>
      \/ shown # None /\ shown.generation >= g
      \/ nextGeneration > g
      \/ g \in lost
      \/ render = "off"

(* Ending the session frees the textures and lets the decoder thread stop, even   *)
(* one that is waiting for a picture to be shown.                                 *)
EndedSessionStopsDecoder ==
  render = "detach" ~> (decoder = "stopped" /\ ~textures)
--------------------------------------------------------------------------------
(* The inductive invariant behind the safety theorems, in five parts. *)

\* The frame whose texture the renderer last marked: shown lags it by one step.
Marked == IF render = "marked" THEN current ELSE shown

\* The texture of frame f holds f's picture, or was given away by a timed-out wait.
Whole(f) == content[f.index] = f.generation \/ f.generation \in overrun

\* The bound leaves room for the picture in progress, and a published one is counted.
Counted ==
  /\ decoder \in {"waiting", "decoding"} => nextGeneration < MaxGeneration
  /\ decoder = "publishing" => nextGeneration > 0

Phases ==
  /\ targets => textures /\ render \in {"tick", "sync", "marked", "draw", "detach"}
  /\ textures => targets \/ render = "free"
  /\ decoder = "decoding" => targets
  /\ decoder = "starting" => ~textures
  /\ render = "marked" => current # None /\ targets
  /\ render \in {"detach", "free", "off"} => current = None
  /\ pending # None => targets /\ pending.generation = nextGeneration
  /\ displayed = (IF targets /\ Marked # None THEN Marked.index ELSE None)

\* Frames further down the pipeline are older; only the shown frame may still be current.
Older(f, g) == f \in Frame /\ g \in Frame => f.generation < g.generation
PipelineOrder ==
  /\ latest \in Frame => latest.generation <= nextGeneration
  /\ drained # None => drained.generation <= nextGeneration
  /\ slot # None => slot.generation <= nextGeneration
  /\ current # None => current.generation <= nextGeneration
  /\ shown # None => shown.generation <= nextGeneration
  /\ decoder = "publishing" =>
       /\ Older(latest, PublishedFrame) /\ Older(drained, PublishedFrame)
       /\ Older(slot, PublishedFrame) /\ Older(current, PublishedFrame)
       /\ Older(shown, PublishedFrame)
  /\ Older(drained, latest) /\ Older(slot, latest)
  /\ Older(current, latest) /\ Older(shown, latest)
  /\ Older(slot, drained) /\ Older(current, drained) /\ Older(shown, drained)
  /\ Older(current, slot) /\ Older(shown, slot)
  /\ shown # None /\ current # None => shown = current \/ shown.generation < current.generation
  /\ render = "marked" => Older(shown, current)

\* Before the textures are registered nothing has been decoded.
NothingYet ==
  ~targets /\ render \in {"tick", "sync", "draw"} =>
    /\ decoder \in {"starting", "idle", "waiting", "stopped"}
    /\ latest \notin Frame /\ drained = None /\ slot = None /\ current = None /\ shown = None

\* A frame on its way to the renderer is the pending one or was overrun; the pending and
\* the marked frame are whole; a frame the decoder writes over was overrun.
InFlight(f) == f.generation \in overrun \/ f = pending
TextureOwnership ==
  targets =>
    /\ latest \in Frame => InFlight(latest)
    /\ drained # None => InFlight(drained)
    /\ slot # None => InFlight(slot)
    /\ current # None => InFlight(current) \/ current = Marked
    /\ decoder = "publishing" => pending = PublishedFrame
    /\ pending # None => Whole(pending)
    /\ Marked # None => Whole(Marked)
    /\ pending # None /\ Marked # None /\ pending.index = Marked.index =>
         Marked.generation \in overrun
    /\ decoder = "decoding" /\ Marked # None /\ Marked.index = target =>
         Marked.generation \in overrun
    /\ decoder = "decoding" /\ pending # None =>
         pending.generation \in overrun /\ pending.index = target

StrongInvariant == Counted /\ Phases /\ PipelineOrder /\ NothingYet /\ TextureOwnership
================================================================================
