------------------------------ MODULE VideoDecode ------------------------------
(***************************************************************************)
(* The compressed side of the video path: the RTC thread that decides      *)
(* which access units the decoder gets and when to ask the server for a    *)
(* keyframe (rtc/rtp.rs, rtc/media.rs, rtc/session.rs), and the decoder    *)
(* thread that takes them from a bounded queue while Reset commands        *)
(* overtake them in another (streaming/video/worker.rs).                   *)
(*                                                                         *)
(* A generation number is only ever compared with the current one, so a    *)
(* unit carries whether it is of the current generation, and a new         *)
(* generation makes every unit in flight stale.  What an access unit holds *)
(* is one of five kinds; the fps estimate, which picks the damage and      *)
(* queue limits, is a choice from the given limits.                        *)
(***************************************************************************)
EXTENDS Integers, Sequences

\* What inspect_h264_access_unit tells apart: "delta" has no IDR and "params" an SPS
\* only, "idr" an IDR only, "key" both, and "big" both, larger than the decoder.
Kind == {"delta", "params", "idr", "key", "big"}
HasIdr(k) == k \in {"idr", "key", "big"}
HasResolution(k) == k \in {"params", "key", "big"}
TooLarge(k) == k = "big"

CONSTANTS
  DamageLimits,   \* what record_damage's damage_limit may be
  PendingLimits,  \* what submit_access_unit's pending_limit may be
  Sent,           \* the kinds of access units the server sends
  Nothing         \* no unit, no decoder, no result

ASSUME LimitsAssumption ==
  /\ DamageLimits \subseteq Nat \ {0} /\ DamageLimits # {}
  /\ PendingLimits \subseteq Nat \ {0} /\ PendingLimits # {}
  /\ Sent \subseteq Kind
  /\ Nothing \notin {"blank", "primed", "ok", "err"}
  /\ Nothing \notin [kind : Kind, fresh : BOOLEAN]

VARIABLES
  rtc,         \* where RtcSession::pump is
  waiting,     \* VideoRtp.waiting_for_keyframe
  tooLarge,    \* VideoRtp.stream_too_large
  damage,      \* VideoRtp.damage_score
  requested,   \* pump's keyframe_requested
  errors,      \* drain_decoder's decode_errors > 0
  cooling,     \* KEYFRAME_REQUEST_COOLDOWN has not elapsed
  asked,       \* the server owes a keyframe
  queue,       \* the access_units channel
  resets,      \* Reset commands in the commands channel
  latestResult,  \* latest_result: Nothing, "ok" or "err"
  stage,       \* where the decoder thread is
  unit,        \* the access unit it handles
  hw,          \* its HwVideoDecoder: Nothing, "blank", or "primed" with SPS and PPS
  registered,  \* the renderer has registered its textures
  keyed,       \* history: the decoder holds a keyframe of this generation
  gap          \* history: a keyframe of this generation was lost on the way

rtp     == <<waiting, tooLarge, damage>>
session == <<requested, errors, cooling, asked>>
worker == <<stage, unit, hw>>
decodeHistory == <<keyed, gap>>
decodeVars ==
  <<rtc, rtp, session, queue, resets, latestResult, worker, registered, decodeHistory>>

Unit == [kind : Kind, fresh : BOOLEAN]

DecodeInit ==
  /\ rtc = "messages"
  /\ waiting = FALSE /\ tooLarge = FALSE /\ damage = 0
  /\ requested = FALSE /\ errors = FALSE /\ cooling = FALSE /\ asked = FALSE
  /\ queue = <<>> /\ resets = 0 /\ latestResult = Nothing
  /\ stage = "select" /\ unit = Nothing /\ hw = "blank"
  /\ registered = FALSE
  /\ keyed = FALSE /\ gap = TRUE
--------------------------------------------------------------------------------
(* The RTC thread: one pump reads messages, drains the decoder, asks for a keyframe. *)

\* generation.fetch_add: every unit queued or being decoded is stale from now on.
Stale(u) == [u EXCEPT !.fresh = FALSE]
BumpNothing == UNCHANGED <<queue, unit>> /\ keyed' = FALSE /\ gap' = FALSE
BumpGeneration ==
  /\ queue' = [i \in DOMAIN queue |-> Stale(queue[i])]
  /\ unit' = IF unit = Nothing THEN Nothing ELSE Stale(unit)
  /\ keyed' = FALSE /\ gap' = FALSE
SameGeneration == UNCHANGED <<queue, unit, keyed, gap>>

\* record_damage: enough damage starts a resync, unless one is under way.
RecordDamageNoWait ==
  \E limit \in DamageLimits :
    \/ /\ waiting \/ damage + 1 < limit
       /\ damage' = IF waiting THEN damage ELSE damage + 1
       /\ waiting' = waiting
       /\ SameGeneration
    \/ /\ ~waiting /\ damage + 1 >= limit
       /\ damage' = 0
       /\ waiting' = FALSE
       /\ BumpGeneration
RecordDamage ==
  \E limit \in DamageLimits :
    \/ /\ waiting \/ damage + 1 < limit
       /\ damage' = IF waiting THEN damage ELSE damage + 1
       /\ waiting' = waiting
       /\ SameGeneration
    \/ /\ ~waiting /\ damage + 1 >= limit
       /\ damage' = 0
       /\ waiting' = TRUE
       /\ BumpGeneration

\* receive drops an incomplete or invalid frame.  The call may end there, or complete
\* the next frame too; the dropped frame may have been the server's answer.
LoseFrame ==
  /\ rtc = "messages"
  /\ rtc' \in {"messages", "completing"}
  /\ requested' = TRUE
  /\ RecordDamage
  /\ asked' \in {asked, FALSE}
  /\ UNCHANGED <<tooLarge, errors, cooling, resets, latestResult, stage, hw, registered>>

\* A complete access unit larger than the decoder.
DropTooLarge ==
  /\ tooLarge' = TRUE /\ waiting' = TRUE /\ requested' = TRUE
  /\ IF waiting THEN SameGeneration ELSE BumpGeneration
  /\ UNCHANGED damage

\* A complete access unit without the keyframe the stream waits for.
DropUntilKeyframeSilently ==
  /\ waiting' = TRUE /\ requested' = requested
  /\ SameGeneration
  /\ UNCHANGED <<tooLarge, damage>>
DropUntilKeyframe ==
  /\ waiting' = TRUE /\ requested' = TRUE
  /\ SameGeneration
  /\ UNCHANGED <<tooLarge, damage>>

\* An undamaged frame makes up for a damaged one.
HealUnsaturated(d) == d - 1
Heal(d) == IF d = 0 THEN 0 ELSE d - 1

\* submit_access_unit: refused when the queue is at its limit or the unit is oversized.
Submit(k) ==
  /\ waiting' = FALSE /\ tooLarge' = FALSE
  /\ damage' = IF waiting THEN 0 ELSE IF rtc = "completing" THEN damage ELSE Heal(damage)
  /\ \/ /\ \E limit \in PendingLimits : Len(queue) < limit
        /\ queue' = Append(queue, [kind |-> k, fresh |-> TRUE])
        /\ UNCHANGED <<requested, unit, keyed, gap>>
     \/ /\ requested' = TRUE
        /\ gap' = (gap \/ HasIdr(k))
        /\ UNCHANGED <<queue, unit, keyed>>

\* receive completes a frame.
Wanted(k) ==
  /\ tooLarge => HasResolution(k) /\ HasIdr(k)
  /\ waiting => HasIdr(k)
ReceiveFrame(k) ==
  /\ rtc \in {"messages", "completing"}
  /\ rtc' = "messages"
  /\ \/ TooLarge(k) /\ DropTooLarge
     \/ ~TooLarge(k) /\ ~Wanted(k) /\ DropUntilKeyframe
     \/ ~TooLarge(k) /\ Wanted(k) /\ Submit(k)
  /\ asked' = (asked /\ ~HasIdr(k))
  /\ UNCHANGED <<errors, cooling, resets, latestResult, stage, hw, registered>>

\* handle_peer_messages finds nothing more to read.
MessagesRead ==
  /\ rtc = "messages"
  /\ rtc' = "drain"
  /\ UNCHANGED <<rtp, session, queue, resets, latestResult, worker, registered, decodeHistory>>

\* drain_decoder takes a result.
DrainResultUncounted ==
  /\ rtc = "drain"
  /\ latestResult # Nothing
  /\ latestResult' = Nothing
  /\ UNCHANGED <<rtc, rtp, session, queue, resets, worker, registered, decodeHistory>>
DrainResult ==
  /\ rtc = "drain"
  /\ latestResult # Nothing
  /\ latestResult' = Nothing
  /\ errors' = (errors \/ latestResult = "err")
  /\ requested' = (requested \/ latestResult = "err")
  /\ UNCHANGED <<rtc, rtp, cooling, asked, queue, resets, worker, registered, decodeHistory>>

\* drain_decoder is done; after an error reset_decoder starts a new generation.
Drained ==
  /\ rtc = "drain"
  /\ latestResult = Nothing
  /\ IF errors THEN rtc' = "reset" /\ BumpGeneration
               ELSE rtc' = "request" /\ SameGeneration
  /\ UNCHANGED <<rtp, session, resets, latestResult, stage, hw, registered>>

\* The rest of reset_decoder sends Reset; then wait_for_keyframe.
SendResetOnly ==
  /\ rtc = "reset"
  /\ rtc' = "request"
  /\ resets' = resets + 1
  /\ errors' = FALSE
  /\ UNCHANGED <<rtp, requested, cooling, asked, queue, latestResult, worker, registered,
                 decodeHistory>>
SendReset ==
  /\ rtc = "reset"
  /\ rtc' = "request"
  /\ resets' = resets + 1
  /\ errors' = FALSE
  /\ waiting' = TRUE
  /\ UNCHANGED <<tooLarge, damage, requested, cooling, asked, queue, latestResult, worker,
                 registered, decodeHistory>>

\* request_keyframe: a request during the cooldown is dropped.
RequestKeyframe ==
  /\ rtc = "request"
  /\ rtc' = "messages"
  /\ requested' = FALSE
  /\ IF requested /\ ~cooling
     THEN asked' = TRUE /\ cooling' = TRUE
     ELSE UNCHANGED <<asked, cooling>>
  /\ UNCHANGED <<rtp, errors, queue, resets, latestResult, worker, registered, keyed, gap>>

CooldownElapses ==
  /\ cooling
  /\ cooling' = FALSE
  /\ UNCHANGED <<rtc, rtp, requested, errors, asked, queue, resets, latestResult, worker,
                 registered, decodeHistory>>
--------------------------------------------------------------------------------
(* The decoder thread. *)

\* select_biased tries the commands first: a Reset drops the decoder.
PollCommands ==
  /\ stage = "select"
  /\ IF resets > 0
     THEN /\ resets' = resets - 1
          /\ hw' = Nothing
          /\ keyed' = FALSE /\ gap' = (gap \/ keyed)
          /\ stage' = stage
     ELSE /\ stage' = "polled"
          /\ UNCHANGED <<resets, hw, keyed, gap>>
  /\ UNCHANGED <<rtc, rtp, session, queue, latestResult, unit, registered>>

\* Then it tries the units, whatever was sent in between; with none, it blocks.
PollUnits ==
  /\ stage = "polled"
  /\ IF queue = <<>>
     THEN stage' = "select" /\ UNCHANGED <<queue, unit>>
     ELSE stage' = "taken" /\ unit' = Head(queue) /\ queue' = Tail(queue)
  /\ UNCHANGED <<rtc, rtp, session, resets, latestResult, hw, registered, decodeHistory>>

\* The unit is handled: the decoder thread is back at its select.
Done == stage' = "select" /\ unit' = Nothing

\* decode_queued_access_unit up to the hardware call: a stale unit is discarded, a
\* missing decoder recreated, and the unit skipped while no textures are registered.
StartUnit ==
  /\ stage = "taken"
  /\ \/ /\ ~unit.fresh
        /\ Done
        /\ UNCHANGED <<hw, latestResult, gap>>
     \/ /\ unit.fresh /\ hw = Nothing
        /\ Done
        /\ latestResult' = "err"
        /\ gap' = TRUE
        /\ hw' = hw
     \/ /\ unit.fresh /\ ~registered
        /\ Done
        /\ hw' = IF hw = Nothing THEN "blank" ELSE hw
        /\ gap' = (gap \/ HasIdr(unit.kind))
        /\ latestResult' = latestResult
     \/ /\ unit.fresh /\ registered
        /\ stage' = "decoding"
        /\ hw' = IF hw = Nothing THEN "blank" ELSE hw
        /\ UNCHANGED <<unit, latestResult, gap>>
  /\ UNCHANGED <<rtc, rtp, session, queue, resets, registered, keyed>>

\* What the hardware makes of the unit: without parameters it fails.
Primes == hw = "primed" \/ HasResolution(unit.kind)
Outcome == IF Primes THEN {"picture", "nothing", "error"} ELSE {"error"}

\* The hardware call returns or panics.  A unit gone stale meanwhile leaves no result,
\* not even an error's: then the decoder is kept, and the error may have cost it its
\* parameters.  Otherwise an error discards the decoder.
FinishDecode ==
  /\ stage = "decoding"
  /\ Done
  /\ \E outcome \in Outcome :
       IF unit.fresh /\ outcome = "error"
       THEN /\ hw' = Nothing
            /\ latestResult' = "err"
            /\ keyed' = FALSE /\ gap' = TRUE
       ELSE /\ hw' \in IF outcome = "error" THEN {hw, "blank"} ELSE {"primed"}
            /\ latestResult' = IF unit.fresh /\ outcome = "picture" THEN "ok" ELSE latestResult
            /\ keyed' = (keyed \/ (unit.fresh /\ HasIdr(unit.kind)))
            /\ gap' = gap
  /\ UNCHANGED <<rtc, rtp, session, queue, resets, registered>>

\* The render thread registers its textures (DirectVideoOutput.set_targets).
RegisterTargets ==
  /\ ~registered
  /\ registered' = TRUE
  /\ UNCHANGED <<rtc, rtp, session, queue, resets, latestResult, worker, decodeHistory>>
--------------------------------------------------------------------------------
RtcStep == MessagesRead \/ DrainResult \/ Drained \/ SendReset \/ RequestKeyframe
DecodeStep == PollCommands \/ PollUnits \/ StartUnit \/ FinishDecode

DecodeNext ==
  \/ LoseFrame
  \/ \E k \in Sent : ReceiveFrame(k)
  \/ RtcStep \/ CooldownElapses
  \/ DecodeStep \/ RegisterTargets

(* Both threads run, and every pump reads its messages to the end.  The server    *)
(* keeps sending frames, and of the keyframes it sends when asked, one with its   *)
(* parameter sets arrives in the end while the decoder's queue has room.  The     *)
(* hardware does not fail for good.                                               *)
AnswerArrives == asked /\ ReceiveFrame("key") /\ queue' # queue
DecoderOpens == StartUnit /\ stage' = "decoding" /\ unit.kind = "key"
UnitPrimes == FinishDecode /\ hw' = "primed"
DecodeFairness ==
  /\ WF_decodeVars(RtcStep) /\ WF_decodeVars(CooldownElapses)
  /\ WF_decodeVars(DecodeStep) /\ WF_decodeVars(RegisterTargets)
  /\ SF_decodeVars(MessagesRead) /\ SF_decodeVars(ReceiveFrame("delta"))
  /\ SF_decodeVars(AnswerArrives) /\ SF_decodeVars(DecoderOpens) /\ SF_decodeVars(UnitPrimes)

DecodeSafety == DecodeInit /\ [][DecodeNext]_decodeVars
DecodeSpec == DecodeSafety /\ DecodeFairness
--------------------------------------------------------------------------------
DecodeTypeOK ==
  /\ rtc \in {"messages", "completing", "drain", "reset", "request"}
  /\ waiting \in BOOLEAN /\ tooLarge \in BOOLEAN /\ damage \in Nat
  /\ requested \in BOOLEAN /\ errors \in BOOLEAN
  /\ cooling \in BOOLEAN /\ asked \in BOOLEAN
  /\ queue \in Seq(Unit)
  /\ resets \in Nat
  /\ latestResult \in {Nothing, "ok", "err"}
  /\ stage \in {"select", "polled", "taken", "decoding"}
  /\ unit \in Unit \cup {Nothing}
  /\ hw \in {Nothing, "blank", "primed"}
  /\ registered \in BOOLEAN
  /\ keyed \in BOOLEAN /\ gap \in BOOLEAN

(* The decoder only decodes a delta unit of the current generation on top of a    *)
(* keyframe of that generation, unless that keyframe was refused, skipped, failed *)
(* or discarded by a late Reset: neither a resync nor a reset lets a delta slip   *)
(* through (rtp.rs receive and record_damage, media.rs drain_decoder).            *)
DeltaFollowsKeyframe ==
  stage = "decoding" /\ unit.fresh /\ ~HasIdr(unit.kind) => keyed \/ gap

(* A stream that waits for a keyframe gets one queued, however many requests fall *)
(* into the cooldown and however many of the server's answers are lost.           *)
KeyframeWaitEnds == waiting ~> ~waiting

(* A decode error is noticed by the RTC thread, or its report was replaced by the *)
(* picture of a keyframe that a new decoder took.                                 *)
ErrorStartsRecovery == latestResult = "err" ~> waiting \/ hw = "primed"

(* Once frames stop being lost and units refused, a decoder without parameter     *)
(* sets, new or recreated, gets them: no error leaves the picture frozen.         *)
Refusal == \E k \in Sent : ReceiveFrame(k) /\ ~TooLarge(k) /\ Wanted(k) /\ queue' = queue
CalmStream == <>[][~LoseFrame /\ ~Refusal]_decodeVars
DecoderIsPrimed == CalmStream => (hw # "primed" ~> hw = "primed")
================================================================================
