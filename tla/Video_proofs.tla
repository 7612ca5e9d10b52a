------------------------------ MODULE Video_proofs ------------------------------
(***************************************************************************)
(* Theorems about the two sides of the video decoder.                      *)
(*                                                                         *)
(* VideoDecode, for any limits and kinds of access units: KeyframeInv says *)
(* where the keyframe of the current generation is, from which it follows  *)
(* that the decoder never decodes a delta without it.                      *)
(*                                                                         *)
(* DirectVideoOutput, for any number of pictures and whether or not the    *)
(* decoder's wait may time out: StrongInvariant is inductive relative to   *)
(* TypeOK; the safety properties and the refinement of LatestFrame follow  *)
(* from the two.                                                           *)
(***************************************************************************)
EXTENDS VideoDecode, DirectVideoOutput, SequenceTheorems, TLAPS
--------------------------------------------------------------------------------
(* VideoDecode: its types. *)

LEMMA UnitParts ==
  /\ Nothing \notin Unit
  /\ \A u \in Unit : /\ u.kind \in Kind /\ u.fresh \in BOOLEAN
                     /\ Stale(u) \in Unit /\ ~Stale(u).fresh
  /\ \A k \in Kind : [kind |-> k, fresh |-> TRUE] \in Unit
BY LimitsAssumption DEF Unit, Stale

LEMMA BumpTypes ==
  ASSUME DecodeTypeOK, BumpGeneration
  PROVE  /\ queue' \in Seq(Unit) /\ unit' \in Unit \cup {Nothing}
         /\ keyed' \in BOOLEAN /\ gap' \in BOOLEAN
         /\ (unit' = Nothing <=> unit = Nothing)
         /\ unit' # Nothing => ~unit'.fresh
         /\ \A i \in 1..Len(queue') : ~queue'[i].fresh
<1>1. /\ Len(queue) \in Nat /\ DOMAIN queue = 1..Len(queue)
      /\ \A i \in 1..Len(queue) : queue[i] \in Unit
  BY DEF DecodeTypeOK
<1>2. /\ queue' = [i \in 1..Len(queue) |-> Stale(queue[i])]
      /\ unit' = IF unit = Nothing THEN Nothing ELSE Stale(unit)
      /\ keyed' = FALSE /\ gap' = FALSE
  BY <1>1 DEF BumpGeneration
<1>3. \A i \in 1..Len(queue) : Stale(queue[i]) \in Unit /\ ~Stale(queue[i]).fresh
  BY <1>1, UnitParts
<1>4. queue' \in Seq(Unit) /\ Len(queue') = Len(queue)
  BY <1>1, <1>2, <1>3
<1>5. unit # Nothing => unit \in Unit
  BY DEF DecodeTypeOK
<1>6. QED
  BY <1>1, <1>2, <1>3, <1>4, <1>5, UnitParts

LEMMA DecodeInitTypes == DecodeInit => DecodeTypeOK
<1> SUFFICES ASSUME DecodeInit PROVE DecodeTypeOK
  OBVIOUS
<1>1. waiting \in BOOLEAN /\ tooLarge \in BOOLEAN /\ requested \in BOOLEAN /\ errors \in BOOLEAN
      /\ cooling \in BOOLEAN /\ asked \in BOOLEAN /\ registered \in BOOLEAN
      /\ keyed \in BOOLEAN /\ gap \in BOOLEAN
  BY Zenon DEF DecodeInit
<1>2. damage \in Nat /\ resets \in Nat /\ queue \in Seq(Unit)
  BY DEF DecodeInit
<1>3. QED
  BY <1>1, <1>2 DEF DecodeInit, DecodeTypeOK

LEMMA RecordDamageTypes ==
  ASSUME DecodeTypeOK, RecordDamage
  PROVE  /\ waiting' \in BOOLEAN /\ damage' \in Nat
         /\ queue' \in Seq(Unit) /\ unit' \in Unit \cup {Nothing}
         /\ keyed' \in BOOLEAN /\ gap' \in BOOLEAN
         /\ (waiting' = waiting /\ SameGeneration) \/ (waiting' = TRUE /\ ~waiting /\ BumpGeneration)
<1>1. PICK limit \in DamageLimits :
        \/ /\ waiting \/ damage + 1 < limit
           /\ damage' = IF waiting THEN damage ELSE damage + 1
           /\ waiting' = waiting
           /\ SameGeneration
        \/ /\ ~waiting /\ damage + 1 >= limit
           /\ damage' = 0
           /\ waiting' = TRUE
           /\ BumpGeneration
  BY DEF RecordDamage
<1>2. CASE BumpGeneration /\ waiting' = TRUE /\ damage' = 0 /\ ~waiting
  BY <1>2, BumpTypes
<1>3. CASE waiting' = waiting /\ SameGeneration /\ damage' = IF waiting THEN damage ELSE damage + 1
  BY <1>3 DEF DecodeTypeOK, SameGeneration
<1>4. QED
  BY <1>1, <1>2, <1>3

LEMMA ReceiveTypes ==
  ASSUME DecodeTypeOK, NEW k \in Kind, ReceiveFrame(k)
  PROVE  DecodeTypeOK'
<1>1. /\ rtc' = "messages" /\ asked' = (asked /\ ~HasIdr(k))
      /\ UNCHANGED <<errors, cooling, resets, latestResult, stage, hw, registered>>
  BY DEF ReceiveFrame
<1>2. HasIdr(k) \in BOOLEAN
  BY DEF HasIdr
<1>3. CASE DropTooLarge
  <2>1. /\ tooLarge' = TRUE /\ waiting' = TRUE /\ requested' = TRUE /\ damage' = damage
        /\ SameGeneration \/ BumpGeneration
    BY <1>3 DEF DropTooLarge
  <2>2. queue' \in Seq(Unit) /\ unit' \in Unit \cup {Nothing} /\ keyed' \in BOOLEAN /\ gap' \in BOOLEAN
    BY <2>1, BumpTypes DEF SameGeneration, DecodeTypeOK
  <2>3. QED
    BY <1>1, <1>2, <2>1, <2>2 DEF DecodeTypeOK
<1>4. CASE DropUntilKeyframe
  BY <1>1, <1>2, <1>4 DEF DropUntilKeyframe, SameGeneration, DecodeTypeOK
<1>5. CASE Submit(k)
  <2>1. [kind |-> k, fresh |-> TRUE] \in Unit
    BY UnitParts
  <2>2. damage' \in Nat
    BY <1>5 DEF Submit, Heal, DecodeTypeOK
  <2>3. queue' \in Seq(Unit) /\ unit' \in Unit \cup {Nothing} /\ keyed' \in BOOLEAN
        /\ gap' \in BOOLEAN /\ requested' \in BOOLEAN
    <3>1. CASE queue' = Append(queue, [kind |-> k, fresh |-> TRUE])
               /\ UNCHANGED <<requested, unit, keyed, gap>>
      BY <2>1, <3>1 DEF DecodeTypeOK
    <3>2. CASE requested' = TRUE /\ gap' = (gap \/ HasIdr(k)) /\ UNCHANGED <<queue, unit, keyed>>
      BY <1>2, <3>2 DEF DecodeTypeOK
    <3>3. QED
      BY <1>5, <3>1, <3>2 DEF Submit
  <2>4. waiting' \in BOOLEAN /\ tooLarge' \in BOOLEAN
    BY <1>5, Zenon DEF Submit
  <2>5. asked' \in BOOLEAN
    BY <1>1
  <2>6. QED
    BY <1>1, <2>2, <2>3, <2>4, <2>5 DEF DecodeTypeOK
<1>6. QED
  BY <1>3, <1>4, <1>5 DEF ReceiveFrame

LEMMA DecodeTypesStep == DecodeTypeOK /\ [DecodeNext]_decodeVars => DecodeTypeOK'
<1> SUFFICES ASSUME DecodeTypeOK, [DecodeNext]_decodeVars PROVE DecodeTypeOK'
  OBVIOUS
<1> USE DEF rtp, session, worker, decodeHistory
<1>1. CASE LoseFrame
  <2>1. RecordDamage /\ rtc' \in {"messages", "completing"} /\ requested' = TRUE
        /\ asked' \in {asked, FALSE}
        /\ UNCHANGED <<tooLarge, errors, cooling, resets, latestResult, stage, hw, registered>>
    BY <1>1 DEF LoseFrame
  <2>2. requested' \in BOOLEAN /\ asked' \in BOOLEAN
    BY <2>1 DEF DecodeTypeOK
  <2>3. rtc' \in {"messages", "completing", "drain", "reset", "request"}
    BY <2>1
  <2>4. /\ waiting' \in BOOLEAN /\ damage' \in Nat
        /\ queue' \in Seq(Unit) /\ unit' \in Unit \cup {Nothing}
        /\ keyed' \in BOOLEAN /\ gap' \in BOOLEAN
    BY <2>1, RecordDamageTypes
  <2>5. QED
    BY <2>1, <2>2, <2>3, <2>4 DEF DecodeTypeOK
<1>2. ASSUME NEW k \in Sent, ReceiveFrame(k) PROVE DecodeTypeOK'
  BY <1>2, ReceiveTypes, LimitsAssumption
<1>3. CASE MessagesRead
  BY <1>3 DEF MessagesRead, DecodeTypeOK
<1>4. CASE DrainResult
  BY <1>4 DEF DrainResult, DecodeTypeOK
<1>5. CASE Drained
  <2>1. queue' \in Seq(Unit) /\ unit' \in Unit \cup {Nothing} /\ keyed' \in BOOLEAN /\ gap' \in BOOLEAN
    BY <1>5, BumpTypes DEF Drained, SameGeneration, DecodeTypeOK
  <2>2. QED
    BY <1>5, <2>1 DEF Drained, DecodeTypeOK
<1>6. CASE SendReset
  <2>1. /\ rtc' = "request"
        /\ UNCHANGED <<tooLarge, damage, requested, cooling, asked, queue, latestResult, stage, unit,
                      hw, registered, keyed, gap>>
    BY <1>6 DEF SendReset
  <2>2. errors' \in BOOLEAN /\ waiting' \in BOOLEAN
    BY <1>6, Zenon DEF SendReset
  <2>3. resets' \in Nat
    BY <1>6 DEF SendReset, DecodeTypeOK
  <2>4. QED
    BY <2>1, <2>2, <2>3 DEF DecodeTypeOK
<1>7. CASE RequestKeyframe
  <2>1. /\ rtc' = "messages"
        /\ UNCHANGED <<waiting, tooLarge, damage, errors, queue, resets, latestResult, stage, unit, hw,
                      registered, keyed, gap>>
    BY <1>7 DEF RequestKeyframe
  <2>2. requested' \in BOOLEAN
    BY <1>7, Zenon DEF RequestKeyframe
  <2>3. asked' \in BOOLEAN /\ cooling' \in BOOLEAN
    BY <1>7 DEF RequestKeyframe, DecodeTypeOK
  <2>4. QED
    BY <2>1, <2>2, <2>3 DEF DecodeTypeOK
<1>8. CASE CooldownElapses
  <2>1. UNCHANGED <<rtc, waiting, tooLarge, damage, requested, errors, asked, queue, resets,
                    latestResult, stage, unit, hw, registered, keyed, gap>>
    BY <1>8 DEF CooldownElapses
  <2>2. cooling' \in BOOLEAN
    BY <1>8, Zenon DEF CooldownElapses
  <2>3. QED
    BY <2>1, <2>2 DEF DecodeTypeOK
<1>9. CASE PollCommands
  <2>1. UNCHANGED <<rtc, waiting, tooLarge, damage, requested, errors, cooling, asked, queue,
                    latestResult, unit, registered>>
    BY <1>9 DEF PollCommands
  <2>2. /\ resets' \in Nat /\ hw' \in {Nothing, "blank", "primed"}
        /\ stage' \in {"select", "polled", "taken", "decoding"}
    BY <1>9 DEF PollCommands, DecodeTypeOK
  <2>3. keyed' \in BOOLEAN /\ gap' \in BOOLEAN
    BY <1>9 DEF PollCommands, DecodeTypeOK
  <2>4. QED
    BY <2>1, <2>2, <2>3 DEF DecodeTypeOK
<1>10. CASE PollUnits
  BY <1>10 DEF PollUnits, DecodeTypeOK
<1>11. CASE StartUnit
  <2>1. gap' \in BOOLEAN
    BY <1>11 DEF StartUnit, DecodeTypeOK, HasIdr
  <2>2. QED
    BY <1>11, <2>1 DEF StartUnit, Done, DecodeTypeOK
<1>12. CASE FinishDecode
  <2>1. PICK outcome \in Outcome :
          IF unit.fresh /\ outcome = "error"
          THEN /\ hw' = Nothing
               /\ latestResult' = "err"
               /\ keyed' = FALSE /\ gap' = TRUE
          ELSE /\ hw' \in IF outcome = "error" THEN {hw, "blank"} ELSE {"primed"}
               /\ latestResult' = IF unit.fresh /\ outcome = "picture" THEN "ok" ELSE latestResult
               /\ keyed' = (keyed \/ (unit.fresh /\ HasIdr(unit.kind)))
               /\ gap' = gap
    BY <1>12 DEF FinishDecode
  <2>2. keyed' \in BOOLEAN /\ gap' \in BOOLEAN
    BY <2>1 DEF DecodeTypeOK
  <2>3. hw' \in {Nothing, "blank", "primed"} /\ latestResult' \in {Nothing, "ok", "err"}
    BY <2>1 DEF DecodeTypeOK
  <2>4. QED
    BY <1>12, <2>2, <2>3 DEF FinishDecode, Done, DecodeTypeOK
<1>13. CASE RegisterTargets
  BY <1>13 DEF RegisterTargets, DecodeTypeOK
<1>14. CASE UNCHANGED decodeVars
  BY <1>14 DEF decodeVars, DecodeTypeOK
<1>15. QED
  BY <1>1, <1>2, <1>3, <1>4, <1>5, <1>6, <1>7, <1>8, <1>9, <1>10, <1>11, <1>12, <1>13, <1>14
  DEF DecodeNext, RtcStep, DecodeStep

(* The RTC thread's and the decoder thread's state is well typed, for any limits,   *)
(* queue and kinds of units; the damage score never goes below zero.                *)
THEOREM DecodeTypeCorrect == DecodeSafety => []DecodeTypeOK
  BY DecodeInitTypes, DecodeTypesStep, PTL DEF DecodeSafety
--------------------------------------------------------------------------------
(* VideoDecode: where the keyframe of the current generation is.  It was decoded  *)
(* or lost, or no unit of its generation was queued yet, or it is on its way, in  *)
(* front of every delta.                                                          *)

Keyframe(u) == u.fresh /\ HasIdr(u.kind)
Delta(u)    == u.fresh /\ ~HasIdr(u.kind)
InHand      == unit # Nothing /\ Keyframe(unit)
Settled     == keyed \/ gap

NothingFresh ==
  /\ unit # Nothing => ~unit.fresh
  /\ \A i \in 1..Len(queue) : ~queue[i].fresh
KeyframeOnItsWay == InHand \/ \E i \in 1..Len(queue) : Keyframe(queue[i])
DeltasBehind ==
  /\ unit # Nothing => ~Delta(unit)
  /\ InHand \/ \A i \in 1..Len(queue) :
                 Delta(queue[i]) => \E j \in 1..(i - 1) : Keyframe(queue[j])

KeyframeInv ==
  /\ tooLarge => waiting
  /\ waiting \/ rtc = "reset" => NothingFresh
  /\ unit = Nothing <=> stage \in {"select", "polled"}
  /\ Settled \/ waiting \/ rtc = "reset" \/ KeyframeOnItsWay
  /\ Settled \/ DeltasBehind

LEMMA NewGeneration ==
  ASSUME DecodeTypeOK, KeyframeInv, BumpGeneration, stage' = stage,
         waiting' \/ rtc' = "reset", tooLarge' => waiting'
  PROVE  KeyframeInv'
<1>1. NothingFresh'
  BY BumpTypes DEF NothingFresh
<1>2. DeltasBehind'
  BY <1>1 DEF NothingFresh, DeltasBehind, Delta
<1>3. (unit = Nothing <=> stage \in {"select", "polled"})'
  BY BumpTypes DEF KeyframeInv
<1>4. QED
  BY <1>1, <1>2, <1>3 DEF KeyframeInv

LEMMA SameUnits ==
  ASSUME UNCHANGED <<queue, unit>>
  PROVE  /\ NothingFresh' <=> NothingFresh
         /\ KeyframeOnItsWay' <=> KeyframeOnItsWay
         /\ DeltasBehind' <=> DeltasBehind
BY DEF NothingFresh, KeyframeOnItsWay, DeltasBehind, InHand, Keyframe, Delta

\* A step that moves no unit, outside a reset.
LEMMA NothingMoved ==
  ASSUME KeyframeInv, UNCHANGED <<queue, unit>>, Settled => Settled',
         stage' = stage \/ (stage = "select" /\ stage' = "polled")
                        \/ (stage = "polled" /\ stage' = "select")
                        \/ (stage = "taken" /\ stage' = "decoding"),
         waiting' = waiting, tooLarge' => tooLarge,
         rtc' = "reset" <=> rtc = "reset"
  PROVE  KeyframeInv'
<1>1. (unit = Nothing <=> stage \in {"select", "polled"})'
  BY DEF KeyframeInv
<1>2. QED
  BY <1>1, SameUnits DEF KeyframeInv

\* The decoder thread is done with its unit.
LEMMA UnitHandled ==
  ASSUME KeyframeInv, unit # Nothing, unit' = Nothing, stage' = "select",
         UNCHANGED <<queue, rtc, waiting, tooLarge>>,
         unit.fresh => Settled', Settled => Settled'
  PROVE  KeyframeInv'
<1>1. NothingFresh => NothingFresh'
  BY DEF NothingFresh
<1>2. KeyframeOnItsWay /\ ~unit.fresh => KeyframeOnItsWay'
  BY DEF KeyframeOnItsWay, InHand, Keyframe
<1>3. DeltasBehind /\ ~unit.fresh => DeltasBehind'
  BY DEF DeltasBehind, InHand, Keyframe, Delta
<1>4. (unit = Nothing <=> stage \in {"select", "polled"})'
  OBVIOUS
<1>5. QED
  BY <1>1, <1>2, <1>3, <1>4 DEF KeyframeInv

LEMMA SubmitKeeps ==
  ASSUME DecodeTypeOK, KeyframeInv, NEW k \in Kind, Submit(k), Wanted(k),
         rtc # "reset", rtc' = "messages", stage' = stage
  PROVE  KeyframeInv'
<1>1. ~waiting' /\ ~tooLarge'
  BY DEF Submit
<1>2. CASE /\ queue' = Append(queue, [kind |-> k, fresh |-> TRUE])
           /\ UNCHANGED <<unit, keyed, gap>>
  <2> DEFINE n == Len(queue) + 1
  <2>1. /\ n \in Nat \ {0} /\ Len(queue') = n
        /\ \A i \in 1..(n - 1) : queue'[i] = queue[i]
        /\ queue'[n] = [kind |-> k, fresh |-> TRUE]
    BY <1>2 DEF DecodeTypeOK
  <2>2. Keyframe(queue'[n]) <=> HasIdr(k)
    BY <2>1 DEF Keyframe
  <2>3. CASE waiting
    <3>1. HasIdr(k) /\ NothingFresh
      BY <2>3 DEF Wanted, KeyframeInv
    <3>2. \A i \in 1..n : i # n => ~queue'[i].fresh
      BY <2>1, <3>1 DEF NothingFresh
    <3>3. \A i \in 1..n : ~Delta(queue'[i])
      BY <2>1, <3>1, <3>2 DEF Delta
    <3>4. KeyframeOnItsWay'
      BY <2>1, <2>2, <3>1 DEF KeyframeOnItsWay
    <3>5. DeltasBehind'
      BY <1>2, <2>1, <3>1, <3>3 DEF DeltasBehind, NothingFresh, Delta
    <3>6. QED
      BY <1>1, <1>2, <3>4, <3>5 DEF KeyframeInv
  <2>4. CASE ~waiting
    <3>1. KeyframeOnItsWay => KeyframeOnItsWay'
      BY <1>2, <2>1 DEF KeyframeOnItsWay, InHand
    <3>2. ASSUME KeyframeOnItsWay, DeltasBehind PROVE DeltasBehind'
      <4>1. (unit # Nothing => ~Delta(unit))' /\ (InHand' <=> InHand)
        BY <1>2, <3>2 DEF DeltasBehind, Delta, InHand, Keyframe
      <4>2. SUFFICES ASSUME ~InHand, NEW i \in 1..n, Delta(queue'[i])
                     PROVE  \E j \in 1..(i - 1) : Keyframe(queue'[j])
        BY <2>1, <4>1 DEF DeltasBehind
      <4>3. CASE i = n
        BY <2>1, <3>2, <4>2, <4>3 DEF KeyframeOnItsWay
      <4>4. CASE i # n
        <5>1. i \in 1..Len(queue) /\ Delta(queue[i])
          BY <2>1, <4>2, <4>4
        <5>2. PICK j \in 1..(i - 1) : Keyframe(queue[j])
          BY <3>2, <4>2, <5>1 DEF DeltasBehind
        <5>3. queue'[j] = queue[j]
          BY <2>1, <5>1
        <5>4. QED
          BY <5>2, <5>3
      <4>5. QED
        BY <4>3, <4>4
    <3>3. Settled' <=> Settled
      BY <1>2 DEF Settled
    <3>4. QED
      BY <1>1, <1>2, <2>4, <3>1, <3>2, <3>3 DEF KeyframeInv
  <2>5. QED
    BY <2>3, <2>4
<1>3. CASE gap' = (gap \/ HasIdr(k)) /\ UNCHANGED <<queue, unit, keyed>>
  <2>1. (Settled => Settled') /\ (HasIdr(k) => Settled')
    BY <1>3 DEF Settled
  <2>2. waiting => Settled'
    BY <2>1 DEF Wanted
  <2>3. QED
    BY <1>1, <1>3, <2>1, <2>2, SameUnits DEF KeyframeInv
<1>4. QED
  BY <1>2, <1>3 DEF Submit

LEMMA ReceiveKeeps ==
  ASSUME DecodeTypeOK, KeyframeInv, NEW k \in Kind, ReceiveFrame(k)
  PROVE  KeyframeInv'
<1>1. rtc \in {"messages", "completing"} /\ rtc' = "messages" /\ stage' = stage
  BY DEF ReceiveFrame
<1>2. CASE DropTooLarge
  <2>1. waiting'
    BY <1>2 DEF DropTooLarge
  <2>2. CASE ~waiting
    BY <1>1, <1>2, <2>1, <2>2, NewGeneration DEF DropTooLarge
  <2>3. CASE waiting
    <3>1. UNCHANGED <<queue, unit, keyed, gap>>
      BY <1>2, <2>3 DEF DropTooLarge, SameGeneration
    <3>2. QED
      BY <1>1, <2>1, <2>3, <3>1, SameUnits DEF KeyframeInv, Settled
  <2>4. QED
    BY <2>2, <2>3
<1>3. CASE ~Wanted(k) /\ DropUntilKeyframe
  <2>1. waiting
    BY <1>3 DEF Wanted, KeyframeInv
  <2>2. waiting' /\ UNCHANGED <<queue, unit, keyed, gap>>
    BY <1>3 DEF DropUntilKeyframe, SameGeneration
  <2>3. QED
    BY <1>1, <2>1, <2>2, SameUnits DEF KeyframeInv, Settled
<1>4. CASE Wanted(k) /\ Submit(k)
  BY <1>1, <1>4, SubmitKeeps
<1>5. QED
  BY <1>2, <1>3, <1>4 DEF ReceiveFrame

LEMMA PollUnitsKeeps ==
  ASSUME DecodeTypeOK, KeyframeInv, PollUnits
  PROVE  KeyframeInv'
<1>1. /\ stage = "polled" /\ unit = Nothing
      /\ UNCHANGED <<rtc, waiting, tooLarge, keyed, gap>>
  BY DEF PollUnits, KeyframeInv, rtp, decodeHistory
<1>2. Settled' <=> Settled
  BY <1>1 DEF Settled
<1>3. CASE queue = <<>> /\ stage' = "select" /\ UNCHANGED <<queue, unit>>
  BY <1>1, <1>2, <1>3, NothingMoved
<1>4. CASE queue # <<>> /\ stage' = "taken" /\ unit' = Head(queue) /\ queue' = Tail(queue)
  <2>1. /\ Len(queue) \in Nat \ {0} /\ Len(queue') = Len(queue) - 1
        /\ unit' = queue[1] /\ unit' \in Unit
        /\ \A i \in 1..Len(queue') : queue'[i] = queue[i + 1]
    BY <1>4 DEF DecodeTypeOK
  <2>2. unit' # Nothing
    BY <2>1, UnitParts
  <2>3. NothingFresh => NothingFresh'
    BY <2>1 DEF NothingFresh
  <2>4. ASSUME KeyframeOnItsWay PROVE KeyframeOnItsWay'
    <3>1. PICK i \in 1..Len(queue) : Keyframe(queue[i])
      BY <1>1, <2>4 DEF KeyframeOnItsWay, InHand
    <3>2. CASE i = 1
      BY <2>1, <2>2, <3>1, <3>2 DEF KeyframeOnItsWay, InHand
    <3>3. CASE i # 1
      <4>1. i - 1 \in 1..Len(queue') /\ queue'[i - 1] = queue[i]
        BY <2>1, <3>3
      <4>2. QED
        BY <3>1, <4>1 DEF KeyframeOnItsWay
    <3>4. QED
      BY <3>2, <3>3
  <2>5. ASSUME DeltasBehind PROVE DeltasBehind'
    <3>1. \A i \in 1..Len(queue) : Delta(queue[i]) => \E j \in 1..(i - 1) : Keyframe(queue[j])
      BY <1>1, <2>5 DEF DeltasBehind, InHand
    <3>2. ~Delta(unit')
      BY <2>1, <3>1
    <3>3. SUFFICES ASSUME ~InHand', NEW i \in 1..Len(queue'), Delta(queue'[i])
                   PROVE  \E j \in 1..(i - 1) : Keyframe(queue'[j])
      BY <3>2 DEF DeltasBehind
    <3>4. i + 1 \in 1..Len(queue) /\ Delta(queue[i + 1])
      BY <2>1, <3>3
    <3>5. PICK j \in 1..i : Keyframe(queue[j])
      BY <3>1, <3>4
    <3>6. j # 1
      BY <2>1, <2>2, <3>3, <3>5 DEF InHand
    <3>7. j - 1 \in 1..(i - 1) /\ queue'[j - 1] = queue[j]
      BY <2>1, <3>4, <3>5, <3>6
    <3>8. QED
      BY <3>5, <3>7
  <2>6. QED
    BY <1>1, <1>2, <1>4, <2>2, <2>3, <2>4, <2>5 DEF KeyframeInv
<1>5. QED
  BY <1>3, <1>4 DEF PollUnits

LEMMA StartKeeps ==
  ASSUME DecodeTypeOK, KeyframeInv, StartUnit
  PROVE  KeyframeInv'
<1>1. /\ stage = "taken" /\ unit # Nothing /\ UNCHANGED <<queue, rtc, waiting, tooLarge, keyed>>
  BY DEF StartUnit, KeyframeInv, rtp
<1>2. CASE ~unit.fresh /\ Done /\ gap' = gap
  BY <1>1, <1>2, UnitHandled DEF Done, Settled
<1>3. CASE Done /\ gap' = TRUE
  BY <1>1, <1>3, UnitHandled DEF Done, Settled
<1>4. CASE unit.fresh /\ Done /\ gap' = (gap \/ HasIdr(unit.kind))
  <2>1. Settled => Settled'
    BY <1>1, <1>4 DEF Settled
  <2>2. HasIdr(unit.kind) => Settled'
    BY <1>4 DEF Settled
  <2>3. ~HasIdr(unit.kind) => Settled
    BY <1>1, <1>4 DEF KeyframeInv, DeltasBehind, Delta
  <2>4. QED
    BY <1>1, <1>4, <2>1, <2>2, <2>3, UnitHandled DEF Done
<1>5. CASE stage' = "decoding" /\ UNCHANGED <<unit, gap>>
  BY <1>1, <1>5, NothingMoved DEF Settled
<1>6. QED
  BY <1>2, <1>3, <1>4, <1>5 DEF StartUnit

LEMMA FinishKeeps ==
  ASSUME DecodeTypeOK, KeyframeInv, FinishDecode
  PROVE  KeyframeInv'
<1>1. /\ stage = "decoding" /\ unit # Nothing /\ unit' = Nothing /\ stage' = "select"
      /\ UNCHANGED <<queue, rtc, waiting, tooLarge>>
  BY DEF FinishDecode, Done, KeyframeInv, rtp
<1>2. \/ gap' = TRUE
      \/ gap' = gap /\ keyed' = (keyed \/ (unit.fresh /\ HasIdr(unit.kind)))
  BY DEF FinishDecode
<1>3. Settled => Settled'
  BY <1>2 DEF Settled
<1>4. unit.fresh /\ HasIdr(unit.kind) => Settled'
  BY <1>2 DEF Settled
<1>5. unit.fresh /\ ~HasIdr(unit.kind) => Settled
  BY <1>1 DEF KeyframeInv, DeltasBehind, Delta
<1>6. QED
  BY <1>1, <1>3, <1>4, <1>5, UnitHandled

LEMMA KeyframeStep == DecodeTypeOK /\ KeyframeInv /\ [DecodeNext]_decodeVars => KeyframeInv'
<1> SUFFICES ASSUME DecodeTypeOK, KeyframeInv, [DecodeNext]_decodeVars PROVE KeyframeInv'
  OBVIOUS
<1> USE DEF rtp, session, worker, decodeHistory
<1>1. CASE LoseFrame
  <2>1. RecordDamage /\ rtc = "messages" /\ rtc' \in {"messages", "completing"}
        /\ UNCHANGED <<tooLarge, stage>>
    BY <1>1 DEF LoseFrame
  <2>2. CASE waiting' = waiting /\ SameGeneration
    BY <2>1, <2>2, NothingMoved DEF SameGeneration, Settled
  <2>3. CASE waiting' = TRUE /\ BumpGeneration
    BY <2>1, <2>3, NewGeneration
  <2>4. QED
    BY <2>1, <2>2, <2>3, RecordDamageTypes
<1>2. ASSUME NEW k \in Sent, ReceiveFrame(k) PROVE KeyframeInv'
  BY <1>2, ReceiveKeeps, LimitsAssumption
<1>3. CASE MessagesRead
  BY <1>3, NothingMoved DEF MessagesRead, Settled
<1>4. CASE DrainResult
  BY <1>4, NothingMoved DEF DrainResult, Settled
<1>5. CASE Drained
  <2>1. rtc = "drain" /\ UNCHANGED <<waiting, tooLarge, stage>>
    BY <1>5 DEF Drained
  <2>2. CASE rtc' = "reset" /\ BumpGeneration
    <3>1. tooLarge' => waiting'
      BY <2>1 DEF KeyframeInv
    <3>2. QED
      BY <2>1, <2>2, <3>1, NewGeneration
  <2>3. CASE rtc' = "request" /\ SameGeneration
    BY <2>1, <2>3, NothingMoved DEF SameGeneration, Settled
  <2>4. QED
    BY <1>5, <2>2, <2>3 DEF Drained
<1>6. CASE SendReset
  <2>1. rtc = "reset" /\ waiting' = TRUE /\ UNCHANGED <<tooLarge, queue, unit, stage, keyed, gap>>
    BY <1>6 DEF SendReset
  <2>2. QED
    BY <2>1, SameUnits DEF KeyframeInv, Settled
<1>7. CASE RequestKeyframe
  BY <1>7, NothingMoved DEF RequestKeyframe, Settled
<1>8. CASE CooldownElapses
  BY <1>8, NothingMoved DEF CooldownElapses, Settled
<1>9. CASE PollCommands
  <2>1. /\ UNCHANGED <<rtc, waiting, tooLarge, queue, unit>>
        /\ stage' = stage \/ (stage = "select" /\ stage' = "polled")
    BY <1>9 DEF PollCommands
  <2>2. Settled => Settled'
    BY <1>9 DEF PollCommands, Settled
  <2>3. QED
    BY <2>1, <2>2, NothingMoved
<1>10. CASE PollUnits
  BY <1>10, PollUnitsKeeps
<1>11. CASE StartUnit
  BY <1>11, StartKeeps
<1>12. CASE FinishDecode
  BY <1>12, FinishKeeps
<1>13. CASE RegisterTargets
  BY <1>13, NothingMoved DEF RegisterTargets, Settled
<1>14. CASE UNCHANGED decodeVars
  BY <1>14, NothingMoved DEF decodeVars, Settled
<1>15. QED
  BY <1>1, <1>2, <1>3, <1>4, <1>5, <1>6, <1>7, <1>8, <1>9, <1>10, <1>11, <1>12, <1>13, <1>14
  DEF DecodeNext, RtcStep, DecodeStep

LEMMA KeyframeInit == DecodeInit => KeyframeInv
BY DEF DecodeInit, KeyframeInv, Settled, NothingFresh

LEMMA KeyframeInvariant == DecodeSafety => []KeyframeInv
<1>1. DecodeSafety => []DecodeTypeOK
  BY DecodeTypeCorrect
<1>2. QED
  BY <1>1, KeyframeInit, KeyframeStep, PTL DEF DecodeSafety

(* The decoder decodes a delta only after the keyframe of its generation, unless  *)
(* that keyframe was refused, skipped, failed or discarded by a late Reset, for   *)
(* any damage and queue limits and any mix of access units: every resync and      *)
(* reset makes stale what is on its way before the wait for a keyframe starts.    *)
THEOREM DeltasFollowKeyframe == DecodeSafety => []DeltaFollowsKeyframe
<1>1. KeyframeInv => DeltaFollowsKeyframe
  BY DEF KeyframeInv, DeltaFollowsKeyframe, DeltasBehind, Delta, Settled
<1>2. QED
  BY <1>1, KeyframeInvariant, PTL
--------------------------------------------------------------------------------
(* DirectVideoOutput. *)

\* What is known of a frame, so that the record set need not be expanded.
LEMMA FrameParts ==
  /\ \A f \in Frame : f.index \in Texture /\ f.generation \in Generation /\ f.generation > 0
  /\ \A i \in Texture, g \in 1..MaxGeneration : [index |-> i, generation |-> g] \in Frame
BY ConstantsAssumption DEF Frame, Generation

\* The texture handed to the decoder is one of the two.
LEMMA DecodeIndexInRange == TypeOK => DecodeIndex \in Texture
BY FrameParts, OptionAssumption DEF TypeOK, DecodeIndex, Texture

\* Every variable keeps its type, the picture count staying within its bound.
THEOREM CountedAndTyped == Safety => [](TypeOK /\ Counted)
<1> DEFINE Inv == TypeOK /\ Counted
<1>1. Init => Inv
  <2> SUFFICES ASSUME Init PROVE Inv
    OBVIOUS
  <2>1. presented \in Nat /\ nextGeneration \in Generation /\ Dirty \in Generation
        /\ target \in Texture
    BY ConstantsAssumption DEF Init, Generation, Dirty, Texture
  <2>2. content \in [Texture -> Generation]
    BY <2>1 DEF Init
  <2>3. QED
    BY <2>1, <2>2 DEF Init, TypeOK, Counted
<1>2. Inv /\ [Next]_vars => Inv'
  <2> SUFFICES ASSUME Inv, [Next]_vars PROVE Inv'
    OBVIOUS
  <2> USE OptionAssumption DEF TypeOK, Counted, output, slots, surface, history
  <2>0. ASSUME Acquire, nextGeneration < MaxGeneration PROVE Inv'
    <3>1. DecodeIndex \in Texture /\ Dirty \in Generation
      BY DecodeIndexInRange, ConstantsAssumption DEF Dirty, Generation
    <3>2. content' \in [Texture -> Generation]
      BY <2>0, <3>1 DEF Acquire
    <3>3. overrun' \in SUBSET Generation
      BY <2>0, FrameParts DEF Acquire
    <3>4. QED
      BY <2>0, <3>1, <3>2, <3>3 DEF Acquire
  <2>1. CASE SpawnDecoder BY <2>1 DEF SpawnDecoder
  <2>2. CASE LockDecodeTarget BY <2>2, <2>0 DEF LockDecodeTarget
  <2>3. CASE WaitTimeoutWhile BY <2>3, <2>0 DEF WaitTimeoutWhile
  <2>4. CASE Publish
    <3>1. nextGeneration' \in 1..MaxGeneration /\ nextGeneration' \in Generation
      BY <2>4, ConstantsAssumption DEF Publish, Generation
    <3>2. pending' \in Frame
      BY <2>4, <3>1, FrameParts DEF Publish, PublishedFrame
    <3>3. content' \in [Texture -> Generation]
      BY <2>4, <3>1 DEF Publish
    <3>4. QED
      BY <2>4, <3>1, <3>2, <3>3 DEF Publish
  <2>5. CASE PublishResult
    <3>1. nextGeneration \in 1..MaxGeneration
      BY <2>5 DEF PublishResult, Generation
    <3>2. PublishedFrame \in Frame
      BY <3>1, FrameParts DEF PublishedFrame
    <3>3. QED
      BY <2>5, <3>2 DEF PublishResult
  <2>6. CASE DecodeWithoutPicture BY <2>6 DEF DecodeWithoutPicture
  <2>7. CASE DecodeFailed
    <3>1. lost' \in SUBSET Generation
      BY <2>7, FrameParts DEF DecodeFailed
    <3>2. QED
      BY <2>7, <3>1 DEF DecodeFailed
  <2>8. CASE StopDecoder BY <2>8 DEF StopDecoder
  <2>9. CASE DrainDecoder BY <2>9 DEF DrainDecoder
  <2>10. CASE ForwardFrame BY <2>10 DEF ForwardFrame
  <2>11. CASE TakeLatestFrame BY <2>11 DEF TakeLatestFrame
  <2>12. CASE SetTargets BY <2>12 DEF SetTargets
  <2>13. CASE NoNewFrame BY <2>13 DEF NoNewFrame
  <2>14. CASE MarkDisplayed BY <2>14, FrameParts DEF MarkDisplayed, IsNewFrame
  <2>15. CASE SwitchTexture BY <2>15 DEF SwitchTexture
  <2>16. CASE DrawScene BY <2>16 DEF DrawScene
  <2>17. CASE EndSession BY <2>17 DEF EndSession
  <2>18. CASE ClearTargets BY <2>18 DEF ClearTargets
  <2>19. CASE FreeTextures BY <2>19 DEF FreeTextures
  <2>20. CASE Finished BY <2>20 DEF Finished, vars
  <2>21. CASE UNCHANGED vars BY <2>21 DEF vars
  <2>22. QED
    BY <2>1, <2>2, <2>3, <2>4, <2>5, <2>6, <2>7, <2>8, <2>9, <2>10, <2>11, <2>12, <2>13,
       <2>14, <2>15, <2>16, <2>17, <2>18, <2>19, <2>20, <2>21
    DEF Next, DecoderStep, RenderStep
<1>3. QED
  BY <1>1, <1>2, PTL DEF Safety

\* Every variable of the hand-off keeps its type, whatever the three threads do.
THEOREM TypeCorrect == Safety => []TypeOK
BY CountedAndTyped, PTL

\* The threads' positions agree with the textures and the output's state.
LEMMA PhasesStep ==
  TypeOK /\ Phases /\ PipelineOrder /\ NothingYet /\ [Next]_vars => Phases'
<1> SUFFICES ASSUME TypeOK /\ Phases /\ PipelineOrder /\ NothingYet, [Next]_vars PROVE Phases'
  OBVIOUS
<1> USE OptionAssumption, FrameParts DEF TypeOK, Phases, NothingYet, Marked, PublishedFrame, output, slots, surface, history
<1>0. ASSUME Acquire PROVE Phases'
  BY <1>0 DEF Acquire
<1>1. CASE SpawnDecoder BY <1>1 DEF SpawnDecoder
<1>2. CASE LockDecodeTarget BY <1>2, <1>0 DEF LockDecodeTarget
<1>3. CASE WaitTimeoutWhile BY <1>3, <1>0 DEF WaitTimeoutWhile
<1>4. CASE Publish BY <1>4 DEF Publish, PublishedFrame
<1>5. CASE PublishResult BY <1>5 DEF PublishResult
<1>6. CASE DecodeWithoutPicture BY <1>6 DEF DecodeWithoutPicture
<1>7. CASE DecodeFailed BY <1>7 DEF DecodeFailed
<1>8. CASE StopDecoder BY <1>8 DEF StopDecoder
<1>9. CASE DrainDecoder BY <1>9 DEF DrainDecoder
<1>10. CASE ForwardFrame BY <1>10 DEF ForwardFrame
<1>11. CASE TakeLatestFrame BY <1>11 DEF TakeLatestFrame
<1>12. CASE SetTargets BY <1>12 DEF SetTargets
<1>13. CASE NoNewFrame BY <1>13 DEF NoNewFrame, IsNewFrame
<1>14. CASE MarkDisplayed BY <1>14 DEF MarkDisplayed, IsNewFrame
<1>15. CASE SwitchTexture BY <1>15 DEF SwitchTexture
<1>16. CASE DrawScene BY <1>16 DEF DrawScene
<1>17. CASE EndSession BY <1>17 DEF EndSession
<1>18. CASE ClearTargets BY <1>18 DEF ClearTargets
<1>19. CASE FreeTextures BY <1>19 DEF FreeTextures
<1>20. CASE UNCHANGED vars BY <1>20 DEF vars
<1>21. QED
  BY <1>1, <1>2, <1>3, <1>4, <1>5, <1>6, <1>7, <1>8, <1>9, <1>10, <1>11, <1>12, <1>13,
     <1>14, <1>15, <1>16, <1>17, <1>18, <1>19, <1>20
  DEF Next, DecoderStep, RenderStep, Finished

\* No slot ever holds a newer picture than one nearer the decoder.
LEMMA PipelineOrderStep ==
  TypeOK /\ Counted /\ Phases /\ PipelineOrder /\ NothingYet /\ [Next]_vars => PipelineOrder'
<1> SUFFICES ASSUME TypeOK /\ Counted /\ Phases /\ PipelineOrder /\ NothingYet, [Next]_vars PROVE PipelineOrder'
  OBVIOUS
<1> USE OptionAssumption, FrameParts, ConstantsAssumption DEF TypeOK, Counted, Phases, PipelineOrder, Older, PublishedFrame, Generation, output, slots, surface, history
<1>0. ASSUME Acquire PROVE PipelineOrder'
  BY <1>0 DEF Acquire
<1>1. CASE SpawnDecoder BY <1>1 DEF SpawnDecoder
<1>2. CASE LockDecodeTarget BY <1>2, <1>0 DEF LockDecodeTarget
<1>3. CASE WaitTimeoutWhile BY <1>3, <1>0 DEF WaitTimeoutWhile
<1>4. CASE Publish BY <1>4 DEF Publish, PublishedFrame
<1>5. CASE PublishResult BY <1>5 DEF PublishResult
<1>6. CASE DecodeWithoutPicture BY <1>6 DEF DecodeWithoutPicture
<1>7. CASE DecodeFailed BY <1>7 DEF DecodeFailed
<1>8. CASE StopDecoder BY <1>8 DEF StopDecoder
<1>9. CASE DrainDecoder BY <1>9 DEF DrainDecoder
<1>10. CASE ForwardFrame BY <1>10 DEF ForwardFrame
<1>11. CASE TakeLatestFrame BY <1>11 DEF TakeLatestFrame
<1>12. CASE SetTargets BY <1>12 DEF SetTargets
<1>13. CASE NoNewFrame BY <1>13 DEF NoNewFrame, IsNewFrame
<1>14. CASE MarkDisplayed BY <1>14 DEF MarkDisplayed, IsNewFrame
<1>15. CASE SwitchTexture BY <1>15 DEF SwitchTexture
<1>16. CASE DrawScene BY <1>16 DEF DrawScene
<1>17. CASE EndSession BY <1>17 DEF EndSession
<1>18. CASE ClearTargets BY <1>18 DEF ClearTargets
<1>19. CASE FreeTextures BY <1>19 DEF FreeTextures
<1>20. CASE UNCHANGED vars BY <1>20 DEF vars
<1>21. QED
  BY <1>1, <1>2, <1>3, <1>4, <1>5, <1>6, <1>7, <1>8, <1>9, <1>10, <1>11, <1>12, <1>13,
     <1>14, <1>15, <1>16, <1>17, <1>18, <1>19, <1>20
  DEF Next, DecoderStep, RenderStep, Finished

\* Nothing is decoded before the textures are registered.
LEMMA NothingYetStep ==
  TypeOK /\ Phases /\ NothingYet /\ [Next]_vars => NothingYet'
<1> SUFFICES ASSUME TypeOK /\ Phases /\ NothingYet, [Next]_vars PROVE NothingYet'
  OBVIOUS
<1> USE OptionAssumption DEF TypeOK, Phases, NothingYet, output, slots, surface, history
<1>0. ASSUME Acquire PROVE NothingYet'
  BY <1>0 DEF Acquire
<1>1. CASE SpawnDecoder BY <1>1 DEF SpawnDecoder
<1>2. CASE LockDecodeTarget BY <1>2, <1>0 DEF LockDecodeTarget
<1>3. CASE WaitTimeoutWhile BY <1>3, <1>0 DEF WaitTimeoutWhile
<1>4. CASE Publish BY <1>4 DEF Publish, PublishedFrame
<1>5. CASE PublishResult BY <1>5 DEF PublishResult
<1>6. CASE DecodeWithoutPicture BY <1>6 DEF DecodeWithoutPicture
<1>7. CASE DecodeFailed BY <1>7 DEF DecodeFailed
<1>8. CASE StopDecoder BY <1>8 DEF StopDecoder
<1>9. CASE DrainDecoder BY <1>9 DEF DrainDecoder
<1>10. CASE ForwardFrame BY <1>10 DEF ForwardFrame
<1>11. CASE TakeLatestFrame BY <1>11 DEF TakeLatestFrame
<1>12. CASE SetTargets BY <1>12 DEF SetTargets
<1>13. CASE NoNewFrame BY <1>13 DEF NoNewFrame, IsNewFrame
<1>14. CASE MarkDisplayed BY <1>14 DEF MarkDisplayed, IsNewFrame
<1>15. CASE SwitchTexture BY <1>15 DEF SwitchTexture
<1>16. CASE DrawScene BY <1>16 DEF DrawScene
<1>17. CASE EndSession BY <1>17 DEF EndSession
<1>18. CASE ClearTargets BY <1>18 DEF ClearTargets
<1>19. CASE FreeTextures BY <1>19 DEF FreeTextures
<1>20. CASE UNCHANGED vars BY <1>20 DEF vars
<1>21. QED
  BY <1>1, <1>2, <1>3, <1>4, <1>5, <1>6, <1>7, <1>8, <1>9, <1>10, <1>11, <1>12, <1>13,
     <1>14, <1>15, <1>16, <1>17, <1>18, <1>19, <1>20
  DEF Next, DecoderStep, RenderStep, Finished

\* The decoder only takes a texture whose picture is shown by nobody, or overruns it.
LEMMA TextureOwnershipStep ==
  TypeOK /\ Counted /\ Phases /\ PipelineOrder /\ NothingYet /\ TextureOwnership /\ [Next]_vars => TextureOwnership'
<1> SUFFICES ASSUME TypeOK /\ Counted /\ Phases /\ PipelineOrder /\ NothingYet /\ TextureOwnership, [Next]_vars PROVE TextureOwnership'
  OBVIOUS
<1> USE OptionAssumption, FrameParts DEF TypeOK, Phases, PipelineOrder, NothingYet, TextureOwnership, Whole, InFlight, Marked, Older, PublishedFrame, DecodeIndex, output, slots, surface, history
<1>0. ASSUME Acquire PROVE TextureOwnership'
  <2>1. CASE ~targets
    BY <1>0, <2>1 DEF Acquire
  <2>2. CASE targets
    <3>1. /\ decoder' = "decoding" /\ target' = DecodeIndex /\ DecodeIndex \in Texture
          /\ overrun \subseteq overrun'
          /\ \A t \in Texture : t # DecodeIndex => content'[t] = content[t]
          /\ UNCHANGED <<targets, displayed, pending, latest, drained, slot, current,
                        render, shown>>
      BY <1>0, <2>2, DecodeIndexInRange DEF Acquire
    <3>2. CASE pending = None
      <4>1. Marked # None => Marked.index \in Texture /\ DecodeIndex # Marked.index
        BY <3>2, <2>2 DEF Texture
      <4>2. Marked # None => Whole(Marked)'
        BY <3>1, <4>1, <2>2
      <4>3. QED
        BY <3>1, <3>2, <4>1, <4>2, <2>2
    <3>3. CASE pending # None
      <4>1. DecodeIndex = pending.index /\ pending.generation \in overrun'
        BY <1>0, <2>2, <3>3 DEF Acquire
      <4>2. Marked # None => Whole(Marked)'
        BY <3>1, <3>3, <4>1, <2>2
      <4>3. QED
        BY <3>1, <3>3, <4>1, <4>2, <2>2
    <3>4. QED
      BY <3>2, <3>3
  <2>3. QED
    BY <2>1, <2>2
<1>1. CASE SpawnDecoder BY <1>1 DEF SpawnDecoder
<1>2. CASE LockDecodeTarget BY <1>2, <1>0 DEF LockDecodeTarget
<1>3. CASE WaitTimeoutWhile BY <1>3, <1>0 DEF WaitTimeoutWhile
<1>4. CASE Publish BY <1>4 DEF Publish, PublishedFrame
<1>5. CASE PublishResult BY <1>5 DEF PublishResult
<1>6. CASE DecodeWithoutPicture BY <1>6 DEF DecodeWithoutPicture
<1>7. CASE DecodeFailed BY <1>7 DEF DecodeFailed
<1>8. CASE StopDecoder BY <1>8 DEF StopDecoder
<1>9. CASE DrainDecoder BY <1>9 DEF DrainDecoder
<1>10. CASE ForwardFrame BY <1>10 DEF ForwardFrame
<1>11. CASE TakeLatestFrame BY <1>11 DEF TakeLatestFrame
<1>12. CASE SetTargets BY <1>12 DEF SetTargets
<1>13. CASE NoNewFrame BY <1>13 DEF NoNewFrame, IsNewFrame
<1>14. CASE MarkDisplayed
  <2>1. /\ Marked' = current /\ current # None /\ current # shown /\ Marked = shown /\ targets
        /\ pending' = IF pending = current THEN None ELSE pending
        /\ decoder # "decoding"
        /\ UNCHANGED <<targets, nextGeneration, decoder, target, content, overrun, latest,
                      drained, slot, current, shown>>
    BY <1>14 DEF MarkDisplayed, IsNewFrame
  <2>2. CASE pending = current
    <3>0. current \in Frame /\ current.generation \in Nat
      BY <2>1 DEF Generation
    <3>1. (latest \in Frame => latest # current) /\ drained # current /\ slot # current
      BY <2>1, <3>0
    <3>2. decoder # "publishing"
      <4>1. decoder = "publishing" => pending = PublishedFrame /\ Older(current, PublishedFrame)
        BY <2>1 
      <4>2. Older(current, current) => FALSE
        BY <3>0
      <4>3. QED
        BY <4>1, <4>2, <2>2
    <3>3. QED
      BY <2>1, <2>2, <3>1, <3>2
  <2>3. CASE pending # current
    <3>1. current.generation \in overrun
      BY <2>1, <2>3
    <3>2. QED
      BY <2>1, <2>3, <3>1
  <2>4. QED
    BY <2>2, <2>3
<1>15. CASE SwitchTexture BY <1>15 DEF SwitchTexture
<1>16. CASE DrawScene BY <1>16 DEF DrawScene
<1>17. CASE EndSession BY <1>17 DEF EndSession
<1>18. CASE ClearTargets BY <1>18 DEF ClearTargets
<1>19. CASE FreeTextures BY <1>19 DEF FreeTextures
<1>20. CASE UNCHANGED vars BY <1>20 DEF vars
<1>21. QED
  BY <1>1, <1>2, <1>3, <1>4, <1>5, <1>6, <1>7, <1>8, <1>9, <1>10, <1>11, <1>12, <1>13,
     <1>14, <1>15, <1>16, <1>17, <1>18, <1>19, <1>20
  DEF Next, DecoderStep, RenderStep, Finished

\* The inductive invariant: positions of the threads, age of the pictures in the slots
\* and ownership of the two textures agree in every reachable state.
THEOREM StrongInvariantHolds == Safety => [](TypeOK /\ StrongInvariant)
<1> DEFINE Typed == TypeOK /\ Counted
           Inv == Typed /\ Phases /\ PipelineOrder /\ NothingYet /\ TextureOwnership
<1>1. Init /\ Typed => Inv
  <2> SUFFICES ASSUME Init, Typed PROVE Phases /\ PipelineOrder /\ NothingYet /\ TextureOwnership
    OBVIOUS
  <2>1. Phases /\ NothingYet /\ TextureOwnership
    BY OptionAssumption DEF Init, Phases, NothingYet, TextureOwnership, Marked
  <2>2. PipelineOrder
    BY OptionAssumption DEF Init, PipelineOrder, Older
  <2>3. QED
    BY <2>1, <2>2
<1>2. Inv /\ Typed' /\ [Next]_vars => Inv'
  BY PhasesStep, PipelineOrderStep, NothingYetStep, TextureOwnershipStep
<1>3. Inv => TypeOK /\ StrongInvariant
  BY DEF StrongInvariant
<1> HIDE DEF Inv
<1>4. QED
  BY <1>1, <1>2, <1>3, CountedAndTyped, PTL DEF Safety

\* The decoder never writes into a texture the render thread has dropped.
THEOREM WritesOnlyLiveTextures == Safety => []NoWriteToFreedTexture
<1>1. TypeOK /\ StrongInvariant => NoWriteToFreedTexture
  BY DEF StrongInvariant, Phases, NoWriteToFreedTexture
<1>2. QED
  BY <1>1, StrongInvariantHolds, PTL

\* The texture copied to the canvas holds the picture the renderer was told it holds,
\* unless a timed-out wait let the decoder overrun it.
THEOREM DrawsWholePictures == Safety => []DrawnPictureIsWhole
<1>1. TypeOK /\ StrongInvariant => DrawnPictureIsWhole
  <2> SUFFICES ASSUME TypeOK, StrongInvariant, render = "draw", shown # None
               PROVE Whole(shown)
    BY DEF DrawnPictureIsWhole, Whole
  <2>1. targets /\ Marked = shown
    BY DEF StrongInvariant, Phases, NothingYet, Marked
  <2>2. QED
    BY <2>1 DEF StrongInvariant, TextureOwnership
<1>2. QED
  BY <1>1, StrongInvariantHolds, PTL

\* A texture is drawn while the decoder writes it only if a timed-out wait gave away the
\* texture of the very picture on the screen.
THEOREM TearsOnlyOverrunPictures == Safety => []TearsOnlyAfterTimeout
<1>1. TypeOK /\ StrongInvariant => TearsOnlyAfterTimeout
  <2> SUFFICES ASSUME TypeOK, StrongInvariant, render = "draw", shown # None,
                      decoder = "decoding", target = shown.index
               PROVE shown.generation \in overrun
    BY DEF TearsOnlyAfterTimeout
  <2>1. targets /\ Marked = shown
    BY DEF StrongInvariant, Phases, NothingYet, Marked
  <2>2. QED
    BY <2>1 DEF StrongInvariant, TextureOwnership
<1>2. QED
  BY <1>1, StrongInvariantHolds, PTL

\* While the renderer shows every picture before the decoder's wait times out, the two
\* threads are synchronized on the textures: none is drawn while it is written.
THEOREM SynchronizedWithoutTimeouts ==
  Safety => [](~MayTimeOut => NoDrawDuringDecode)
<1> DEFINE NoOverrun == ~MayTimeOut => overrun = {}
<1> DEFINE Inv == TypeOK /\ StrongInvariant
<1>1. Init => NoOverrun
  BY DEF Init
<1>2. Inv /\ NoOverrun /\ [Next]_vars => NoOverrun'
  <2> SUFFICES ASSUME ~MayTimeOut, Inv, overrun = {}, [Next]_vars PROVE overrun' = {}
    OBVIOUS
  <2> USE DEF history
  <2>1. CASE LockDecodeTarget BY <2>1 DEF LockDecodeTarget, Acquire
  <2>2. CASE WaitTimeoutWhile
    <3>1. ~targets => pending = None
      BY DEF StrongInvariant, Phases
    <3>2. pending = None
      BY <2>2, <3>1 DEF WaitTimeoutWhile
    <3>3. QED
      BY <2>2, <3>2 DEF WaitTimeoutWhile, Acquire
  <2>3. CASE UNCHANGED overrun BY <2>3
  <2>4. CASE ~(LockDecodeTarget \/ WaitTimeoutWhile \/ UNCHANGED overrun)
    BY <2>4
    DEF Next, DecoderStep, RenderStep, Finished, vars, SpawnDecoder, Publish, PublishResult,
        DecodeWithoutPicture, DecodeFailed, StopDecoder, DrainDecoder, ForwardFrame,
        TakeLatestFrame, SetTargets, NoNewFrame, MarkDisplayed, SwitchTexture, DrawScene,
        EndSession, ClearTargets, FreeTextures
  <2>5. QED
    BY <2>1, <2>2, <2>3, <2>4
<1>3. Inv /\ NoOverrun => (~MayTimeOut => NoDrawDuringDecode)
  BY DEF StrongInvariant, Phases, NothingYet, TextureOwnership, Marked, NoDrawDuringDecode
<1> HIDE DEF Inv, NoOverrun
<1>4. Safety => []Inv
  BY StrongInvariantHolds DEF Inv
<1>5. QED
  BY <1>1, <1>2, <1>3, <1>4, PTL DEF Safety

\* The three threads together implement the abstract stream of pictures: what reaches
\* the screen is newer than what was there, whatever results are dropped on the way.
THEOREM ShowsInOrder == Safety => ShowsPicturesInOrder
<1> DEFINE Inv == TypeOK /\ StrongInvariant
<1> USE OptionAssumption
<1>1. Init => Abstract!Init
  BY DEF Init, Abstract!Init
<1>2. Inv /\ [Next]_vars => [Abstract!Next]_Abstract!vars
  <2> SUFFICES ASSUME Inv, [Next]_vars PROVE [Abstract!Next]_Abstract!vars
    OBVIOUS
  <2> USE DEF Abstract!vars, output, slots, surface, history
  <2>0. ASSUME Acquire PROVE UNCHANGED Abstract!vars
    BY <2>0 DEF Acquire
  <2>1. CASE Publish
    <3>1. render # "off"
      BY <2>1 DEF Publish, StrongInvariant, Phases
    <3>2. Abstract!Publish
      BY <2>1, <3>1 DEF Publish, Abstract!Publish
    <3>3. QED
      BY <3>2 DEF Abstract!Next
  <2>2. CASE SwitchTexture
    <3>1. current \in Frame /\ current.generation \in 1..nextGeneration /\ shown' = current
      BY <2>2, FrameParts
      DEF SwitchTexture, StrongInvariant, Phases, PipelineOrder, TypeOK, Generation
    <3>2. shown # None => shown \in Frame /\ shown.generation < current.generation
      BY <2>2, <3>1 DEF SwitchTexture, StrongInvariant, PipelineOrder, Older, TypeOK
    <3>3. shown # None => shown.generation \in Nat
      BY <3>2, FrameParts DEF Generation
    <3>4. nextGeneration \in Nat /\ current # None
      BY <3>1 DEF TypeOK, Generation
    <3>5. Abstract!Show
      BY <2>2, <3>1, <3>2, <3>3, <3>4 DEF SwitchTexture, Abstract!Show
    <3>6. QED
      BY <3>5 DEF Abstract!Next
  <2>3. CASE FreeTextures
    <3>1. Abstract!Close
      BY <2>3 DEF FreeTextures, Abstract!Close
    <3>2. QED
      BY <3>1 DEF Abstract!Next
  <2>4. CASE SetTargets
    <3>1. shown = None
      BY <2>4 DEF SetTargets, StrongInvariant, Phases, NothingYet
    <3>2. QED
      BY <2>4, <3>1 DEF SetTargets
  <2>5. CASE SpawnDecoder BY <2>5 DEF SpawnDecoder
  <2>6. CASE LockDecodeTarget BY <2>6, <2>0 DEF LockDecodeTarget
  <2>7. CASE WaitTimeoutWhile BY <2>7, <2>0 DEF WaitTimeoutWhile
  <2>8. CASE PublishResult BY <2>8 DEF PublishResult
  <2>9. CASE DecodeWithoutPicture BY <2>9 DEF DecodeWithoutPicture
  <2>10. CASE DecodeFailed BY <2>10 DEF DecodeFailed
  <2>11. CASE StopDecoder BY <2>11 DEF StopDecoder
  <2>12. CASE DrainDecoder BY <2>12 DEF DrainDecoder
  <2>13. CASE ForwardFrame BY <2>13 DEF ForwardFrame
  <2>14. CASE TakeLatestFrame BY <2>14 DEF TakeLatestFrame
  <2>15. CASE NoNewFrame BY <2>15 DEF NoNewFrame
  <2>16. CASE MarkDisplayed BY <2>16 DEF MarkDisplayed
  <2>17. CASE DrawScene BY <2>17 DEF DrawScene
  <2>18. CASE EndSession BY <2>18 DEF EndSession
  <2>19. CASE ClearTargets BY <2>19 DEF ClearTargets
  <2>20. CASE UNCHANGED vars BY <2>20 DEF vars
  <2>21. QED
    BY <2>1, <2>2, <2>3, <2>4, <2>5, <2>6, <2>7, <2>8, <2>9, <2>10, <2>11, <2>12, <2>13,
       <2>14, <2>15, <2>16, <2>17, <2>18, <2>19, <2>20
    DEF Next, DecoderStep, RenderStep, Finished
<1>3. QED
  BY <1>1, <1>2, StrongInvariantHolds, PTL DEF Safety, ShowsPicturesInOrder, Abstract!Spec

\* Where the number of the pending picture is, until the renderer has marked it.
PendingOnItsWay ==
  pending # None /\ render \notin {"detach", "free", "off"} =>
    \/ decoder = "publishing" \/ pending \in {latest, drained, slot}
    \/ pending = current /\ current # shown
    \/ pending.generation \in lost
PendingInv ==
  /\ PendingOnItsWay
  /\ render = "marked" => pending # current

LEMMA PendingStep == TypeOK /\ StrongInvariant /\ PendingInv /\ [Next]_vars => PendingInv'
<1> SUFFICES ASSUME TypeOK, StrongInvariant, PendingInv, [Next]_vars PROVE PendingInv'
  OBVIOUS
<1> USE OptionAssumption, FrameParts
    DEF PendingInv, PendingOnItsWay, TypeOK, output, slots, surface, history
<1>1. /\ pending # None => targets /\ pending.generation = nextGeneration
      /\ render = "marked" => current # None
  BY DEF StrongInvariant, Phases
<1>2. /\ latest \in Frame => latest.generation <= nextGeneration
      /\ drained # None => drained.generation <= nextGeneration
      /\ slot # None => slot.generation <= nextGeneration
      /\ current # None => current.generation <= nextGeneration
  BY DEF StrongInvariant, PipelineOrder
<1>3. /\ drained # None /\ latest \in Frame => drained.generation < latest.generation
      /\ slot # None /\ drained # None => slot.generation < drained.generation
      /\ current # None /\ slot # None => current.generation < slot.generation
      /\ shown # None /\ slot # None => shown.generation < slot.generation
  BY DEF StrongInvariant, PipelineOrder, Older
<1>4. ASSUME Acquire, decoder \in {"idle", "waiting"} PROVE PendingInv'
  BY <1>4 DEF Acquire
<1>5. CASE LockDecodeTarget \/ WaitTimeoutWhile
  BY <1>4, <1>5 DEF LockDecodeTarget, WaitTimeoutWhile
<1>6. CASE Publish
  <2>1. /\ decoder' = "publishing" /\ pending' = PublishedFrame' /\ nextGeneration' = nextGeneration + 1
        /\ UNCHANGED <<render, current>>
    BY <1>6 DEF Publish
  <2>2. pending'.generation = nextGeneration + 1
    BY <2>1 DEF PublishedFrame
  <2>3. render = "marked" => pending' # current'
    BY <1>1, <1>2, <2>1, <2>2, ConstantsAssumption DEF Generation
  <2>4. QED
    BY <2>1, <2>3
<1>7. CASE PublishResult
  <2>1. pending # None => pending = PublishedFrame
    BY <1>1, <1>7 DEF PublishResult, StrongInvariant, TextureOwnership
  <2>2. QED
    BY <1>7, <2>1 DEF PublishResult
<1>8. CASE DecodeFailed
  BY <1>8 DEF DecodeFailed
<1>9. CASE DrainDecoder
  <2>1. pending # None /\ pending = drained => latest \notin Frame
    BY <1>1, <1>2, <1>3, ConstantsAssumption DEF Generation
  <2>2. QED
    BY <1>9, <2>1 DEF DrainDecoder
<1>10. CASE ForwardFrame
  <2>1. pending # None /\ pending = slot => drained = None
    BY <1>1, <1>2, <1>3, ConstantsAssumption DEF Generation
  <2>2. QED
    BY <1>10, <2>1 DEF ForwardFrame
<1>11. CASE TakeLatestFrame
  <2>1. pending # None /\ pending = current => slot = None
    BY <1>1, <1>2, <1>3, ConstantsAssumption DEF Generation
  <2>2. slot # None => slot # shown
    BY <1>3, ConstantsAssumption DEF Generation
  <2>3. QED
    BY <1>11, <2>1, <2>2 DEF TakeLatestFrame
<1>12. CASE MarkDisplayed
  BY <1>1, <1>12 DEF MarkDisplayed, IsNewFrame
<1>13. CASE SetTargets \/ EndSession \/ ClearTargets
  BY <1>13 DEF SetTargets, EndSession, ClearTargets
<1>14. CASE SwitchTexture
  BY <1>14 DEF SwitchTexture
<1>15. CASE FreeTextures
  BY <1>15 DEF FreeTextures
<1>16. CASE SpawnDecoder \/ DecodeWithoutPicture \/ StopDecoder
  BY <1>16 DEF SpawnDecoder, DecodeWithoutPicture, StopDecoder
<1>17. CASE NoNewFrame \/ DrawScene
  BY <1>17 DEF NoNewFrame, DrawScene
<1>18. CASE UNCHANGED vars
  BY <1>18 DEF vars
<1>19. QED
  BY <1>5, <1>6, <1>7, <1>8, <1>9, <1>10, <1>11, <1>12, <1>13, <1>14, <1>15, <1>16, <1>17, <1>18
  DEF Next, DecoderStep, RenderStep, Finished

(* The number of a picture that waits to be shown is never lost on its way over the   *)
(* slots that newer results, forwarded pictures and rounds of the UI replace: it is   *)
(* in one of them and not yet shown, or an error took its place (worker.rs            *)
(* publish_result).  So a decoder that waits for the renderer waits for a picture the *)
(* renderer will get.  PendingPictureIsShown needs this, and that the slots move on.  *)
THEOREM PendingPictureStays == Safety => []PendingOnItsWay
<1>1. Init => PendingInv
  BY DEF Init, PendingInv, PendingOnItsWay
<1>2. PendingInv => PendingOnItsWay
  BY DEF PendingInv
<1>3. QED
  BY <1>1, <1>2, StrongInvariantHolds, PendingStep, PTL DEF Safety
================================================================================
