---------------------------- MODULE RtcSession_proofs ----------------------------
(***************************************************************************)
(* Proofs about RtcSession and the packet receiver inside it, for every    *)
(* stream of packets and all times: their type invariants, that units are  *)
(* whole and in order and gaps noticed, that the first picture is sought,  *)
(* and what the server is told.                                            *)
(***************************************************************************)
EXTENDS RtcSession, SequenceTheorems, FiniteSetTheorems, FunctionTheorems, WellFoundedInduction, TLAPS

Types == TypeOK /\ SessionTypeOK
--------------------------------------------------------------------------------
(* Sequence numbers and timestamps stay within their widths. *)

LEMMA NumbersInRange ==
  ASSUME NEW i \in Packet
  PROVE  Following(i) \in 0..(SeqWidth - 1) /\ Time(i) \in 0..(TimeWidth - 1)
<1>1. i \in Nat /\ Stream[i].frame \in Nat
  <2>1. Stream \in Seq([frame : Nat, head : BOOLEAN, empty : BOOLEAN]) /\ i \in DOMAIN Stream
    BY StreamAssumption DEF Packet
  <2>2. Len(Stream) \in Nat /\ DOMAIN Stream = 1..Len(Stream)
    BY <2>1
  <2>3. Stream[i] \in [frame : Nat, head : BOOLEAN, empty : BOOLEAN]
    BY <2>1, <2>2, ElementOfSeq
  <2>4. QED
    BY <2>1, <2>2, <2>3
<1>2. SeqWidth \in Nat \ {0} /\ TimeWidth \in Nat \ {0} /\ FirstSeq \in Nat /\ FirstTime \in Nat
  BY StreamAssumption
<1>3. \A n \in Nat, w \in Nat \ {0} : n % w \in 0..(w - 1)
  OBVIOUS
<1>4. SeqOf(i) \in Nat
  BY <1>1, <1>2, <1>3 DEF SeqOf
<1>5. Following(i) \in 0..(SeqWidth - 1)
  <2>1. SeqOf(i) + 1 \in Nat
    BY <1>4
  <2>2. QED
    BY <1>2, <1>3, <2>1 DEF Following
<1>6. Time(i) \in 0..(TimeWidth - 1)
  <2>1. FirstTime + Stream[i].frame \in Nat
    BY <1>1, <1>2
  <2>2. QED
    BY <1>2, <1>3, <2>1 DEF Time
<1>7. QED
  BY <1>5, <1>6

LEMMA MarkerFollowed ==
  ASSUME NEW S \in SUBSET Full, \E m \in S : Marker[m]
  PROVE  Following(CHOOSE m \in S : Marker[m]) \in 0..(SeqWidth - 1)
<1>1. (CHOOSE m \in S : Marker[m]) \in Packet
  BY DEF Full
<1>2. QED
  BY <1>1, NumbersInRange

LEMMA ExpectedInRange ==
  ASSUME TypeOK, NEW i \in Full
  PROVE  Expected(i) \in 0..(SeqWidth - 1) \cup {None}
<1>1. CASE GivesUp(i) /\ \E m \in pending : Marker[m]
  BY <1>1, MarkerFollowed DEF TypeOK, Expected
<1>2. CASE ~(GivesUp(i) /\ \E m \in pending : Marker[m])
  BY <1>2 DEF TypeOK, Expected
<1>3. QED
  BY <1>1, <1>2

LEMMA FrameOfFull ==
  ASSUME NEW S \in SUBSET Full
  PROVE  FrameOf(S) \in Frame \cup {0}
BY DEF FrameOf, Frame

(* A packet received leaves the receiver well typed.  *)
LEMMA ReceiveTypes ==
  ASSUME TypeOK, NEW i \in Packet, Receive(i)
  PROVE  TypeOK'
<1>1. CASE ReceivePadding(i)
  BY <1>1, NumbersInRange DEF TypeOK, ReceivePadding, history
<1>2. CASE IgnoreLate(i)
  BY <1>2 DEF TypeOK, IgnoreLate, vars, receiver, history
<1>3. ASSUME i \in Full PROVE Held(i) \in SUBSET Full /\ Stream[i].frame \in Frame
  BY <1>3 DEF TypeOK, Held, Frame
<1>4. CASE Collect(i)
  <2>1. i \in Full /\ Held(i) \in SUBSET Full /\ FrameOf(pending) \in Frame \cup {0}
    BY <1>3, <1>4, FrameOfFull DEF Collect, TypeOK
  <2>2. settled' \in Frame \cup {0} /\ requested' \in BOOLEAN
    BY <1>4, <2>1 DEF Collect, NoteDamage, TypeOK, GivesUp
  <2>3. QED
    BY <1>4, <2>1, <2>2, ExpectedInRange DEF Collect, TypeOK
<1>5. CASE Complete(i)
  <2>1. i \in Full /\ Held(i) \in SUBSET Full /\ Stream[i].frame \in Frame
    BY <1>3, <1>5 DEF Complete
  <2>2. expected' \in 0..(SeqWidth - 1)
    BY <1>5, <2>1, MarkerFollowed DEF Complete, Assembled
  <2>3. last' \in 0..(TimeWidth - 1)
    BY <1>5, NumbersInRange DEF Complete
  <2>4. QED
    BY <1>5, <2>1, <2>2, <2>3 DEF Complete, TypeOK, GivesUp
<1>6. CASE Discard(i)
  BY <1>3, <1>6 DEF Discard, TypeOK
<1>7. QED
  BY <1>1, <1>2, <1>4, <1>5, <1>6 DEF Receive
--------------------------------------------------------------------------------
(* Type correctness. *)

LEMMA PatienceFacts ==
  /\ Patience \in Nat \ {0} /\ Grace <= Patience /\ Interval <= Patience
  /\ Grace \in Nat \ {0} /\ Interval \in Nat \ {0} /\ Cooldown \in Nat \ {0}
  /\ Cooldown <= Grace /\ Cooldown <= Interval
BY TimesAssumption DEF Patience

LEMMA NoneIsNoAge == None \notin Nat
BY StreamAssumption

LEMMA SaidGrows ==
  ASSUME NEW m \in {"handshake", "authorization", "gamepadChanged", "startup"},
         said \in Seq({"handshake", "authorization", "gamepadChanged", "startup"})
  PROVE  /\ Append(said, m) \in Seq({"handshake", "authorization", "gamepadChanged", "startup"})
         /\ said \o SubSeq(Introduction, 2, 4)
              \in Seq({"handshake", "authorization", "gamepadChanged", "startup"})
BY DEF Introduction

LEMMA TypesInit == SessionInit => Types
<1>1. SessionInit => TypeOK
  <2> SUFFICES ASSUME SessionInit PROVE TypeOK
    OBVIOUS
  <2>1. known \in BOOLEAN /\ requested \in BOOLEAN
    BY Zenon DEF SessionInit, Init
  <2>2. QED
    BY <2>1 DEF SessionInit, Init, TypeOK
<1>2. ASSUME SessionInit PROVE SessionTypeOK
  <2>1. retried \in 0..Interval /\ asked \in 0..Cooldown /\ quiet \in 0..Patience
    BY <1>2, PatienceFacts DEF SessionInit
  <2>2. said \in Seq({"handshake", "authorization", "gamepadChanged", "startup"})
    BY <1>2 DEF SessionInit
  <2>3. QED
    BY <1>2, <2>1, <2>2 DEF SessionInit, SessionTypeOK
<1>3. QED
  BY <1>1, <1>2 DEF Types

LEMMA TypesStep == Types /\ [SessionNext]_sessionVars => Types'
<1> SUFFICES ASSUME TypeOK, SessionTypeOK, [SessionNext]_sessionVars
             PROVE  TypeOK' /\ SessionTypeOK'
  BY DEF Types
<1> USE NoneIsNoAge, PatienceFacts
<1>1. CASE Tick
  BY <1>1 DEF Tick, Older, TypeOK, SessionTypeOK, vars, receiver, history, protocol
<1>2. CASE BeginPump
  BY <1>2 DEF BeginPump, TypeOK, SessionTypeOK, vars, receiver, history, watchdog, protocol
<1>3. ASSUME NEW now \in BOOLEAN, ConnectionStateChange(now) PROVE TypeOK' /\ SessionTypeOK'
  BY <1>3 DEF ConnectionStateChange, TypeOK, SessionTypeOK, vars, receiver, history, watchdog, protocol
<1>4. CASE OpenTrack
  BY <1>4 DEF OpenTrack, TypeOK, SessionTypeOK, vars, receiver, history, watchdog, protocol
<1>5. ASSUME NEW channel \in {"control", "message"}, HandleChannelOpen(channel)
      PROVE  TypeOK' /\ SessionTypeOK'
  <2>1. TypeOK'
    BY <1>5 DEF HandleChannelOpen, TypeOK, vars, receiver, history
  <2>2. said' \in Seq({"handshake", "authorization", "gamepadChanged", "startup"})
    BY <1>5, SaidGrows DEF HandleChannelOpen, SessionTypeOK
  <2>3. QED
    BY <1>5, <2>1, <2>2 DEF HandleChannelOpen, SessionTypeOK, watchdog
<1>6. CASE EventsHandled
  BY <1>6 DEF EventsHandled, TypeOK, SessionTypeOK, vars, receiver, history, watchdog, protocol
<1>7. ASSUME NEW i \in Packet, ReceivePacket(i) PROVE TypeOK' /\ SessionTypeOK'
  <2>1. TypeOK'
    BY <1>7, ReceiveTypes DEF ReceivePacket
  <2>2. wanted' \in BOOLEAN
    BY <1>7 DEF ReceivePacket, SessionTypeOK, Damages, Accepted, GivesUp, Late
  <2>3. QED
    BY <1>7, <2>1, <2>2 DEF ReceivePacket, SessionTypeOK, watchdog, protocol
<1>8. CASE HandshakeAck
  <2>1. TypeOK'
    BY <1>8 DEF HandshakeAck, TypeOK, vars, receiver, history
  <2>2. said' \in Seq({"handshake", "authorization", "gamepadChanged", "startup"})
    BY <1>8, SaidGrows DEF HandshakeAck, Introduce, SessionTypeOK
  <2>3. QED
    BY <1>8, <2>1, <2>2 DEF HandshakeAck, Introduce, SessionTypeOK, watchdog
<1>9. CASE DrainDecoder
  BY <1>9 DEF DrainDecoder, TypeOK, SessionTypeOK, vars, receiver, history, watchdog, protocol
<1>10. CASE WatchFirstPacket
  BY <1>10 DEF WatchFirstPacket, Due, StartedAt, TypeOK, SessionTypeOK, vars, receiver, history, protocol
<1>11. CASE RequestKeyframe
  <2>1. asked' \in 0..Cooldown
    BY <1>11 DEF RequestKeyframe, SessionTypeOK
  <2>2. quiet' \in 0..Patience
    BY <1>11 DEF RequestKeyframe, SessionTypeOK
  <2>3. QED
    BY <1>11, <2>1, <2>2 DEF RequestKeyframe, TypeOK, SessionTypeOK, vars, receiver, history, protocol
<1>12. CASE UNCHANGED sessionVars
  BY <1>12 DEF sessionVars, TypeOK, SessionTypeOK, vars, receiver, history, watchdog, protocol
<1>13. QED
  BY <1>1, <1>2, <1>3, <1>4, <1>5, <1>6, <1>7, <1>8, <1>9, <1>10, <1>11, <1>12
  DEF SessionNext, Pump

(* Whatever the network and the peer do, the session's and the receiver's state   *)
(* are well typed: no age, sequence number or timestamp leaves its range.         *)
THEOREM TypeCorrect == SessionSpec => []Types
BY TypesInit, TypesStep, PTL DEF SessionSpec
--------------------------------------------------------------------------------
(* The packets, their frames and their numbers. *)

Modulo(x, W) == IF x < 0 THEN x + W ELSE IF x < W THEN x ELSE x - W

LEMMA ModuloNear ==
  ASSUME NEW W \in Nat \ {0}, NEW x \in (-W)..(2 * W - 1)
  PROVE  x % W = Modulo(x, W)
<1>1. CASE x < 0
  BY <1>1 DEF Modulo
<1>2. CASE 0 <= x /\ x < W
  BY <1>2 DEF Modulo
<1>3. CASE W <= x
  BY <1>3 DEF Modulo
<1>4. QED
  BY <1>1, <1>2, <1>3

LEMMA PacketFacts ==
  /\ Len(Stream) \in Nat /\ Packet = 1..Len(Stream) /\ Full \subseteq Packet /\ Packet \subseteq Nat
  /\ \A i \in Packet : Stream[i].frame \in Nat /\ Stream[i] \in [frame : Nat, head : BOOLEAN, empty : BOOLEAN]
<1>1. Stream \in Seq([frame : Nat, head : BOOLEAN, empty : BOOLEAN])
  BY StreamAssumption
<1>2. Len(Stream) \in Nat /\ Packet = 1..Len(Stream)
  BY <1>1 DEF Packet
<1>3. \A i \in Packet : Stream[i] \in [frame : Nat, head : BOOLEAN, empty : BOOLEAN]
  BY <1>1, <1>2, ElementOfSeq
<1>4. QED
  BY <1>2, <1>3 DEF Full

LEMMA FrameFacts ==
  /\ Cardinality(Frame) \in Nat /\ Frame = 1..Cardinality(Frame)
  /\ \A i \in Full : Stream[i].frame \in Frame
<1> DEFINE frame == [i \in Full |-> Stream[i].frame]
<1>1. IsFiniteSet(Full)
  <2>1. IsFiniteSet(1..Len(Stream))
    BY PacketFacts, FS_Interval
  <2>2. QED
    BY <2>1, PacketFacts, FS_Subset
<1>2. frame \in Surjection(Full, Frame)
  BY Fun_IsSurj DEF Frame
<1>3. Cardinality(Frame) \in Nat
  BY <1>1, <1>2, FS_Surjection, FS_CardinalityType
<1>4. QED
  BY <1>3, StreamAssumption DEF Frame

LEMMA InOrder ==
  ASSUME NEW i \in Packet, NEW j \in Packet
  PROVE  /\ i <= j => Stream[i].frame <= Stream[j].frame
         /\ Stream[i].frame < Stream[j].frame => i < j
  BY StreamAssumption, PacketFacts

(* A frame's timestamp tells it from every other, and which of the two is newer. *)
LEMMA TimeTells ==
  ASSUME NEW i \in Full, NEW j \in Full
  PROVE  /\ Time(i) = Time(j) <=> Stream[i].frame = Stream[j].frame
         /\ Newer(Time(i), Time(j)) <=> Stream[i].frame > Stream[j].frame
<1> DEFINE a == Stream[i].frame
           b == Stream[j].frame
           F == Cardinality(Frame)
<1>1. F \in Nat /\ a \in 1..F /\ b \in 1..F
  BY FrameFacts
<1>2. TimeWidth \in Nat \ {0} /\ FirstTime \in 0..(TimeWidth - 1) /\ 2 * F < TimeWidth
  BY StreamAssumption
<1> HIDE DEF a, b, F
<1>3. Time(i) = Modulo(FirstTime + a, TimeWidth) /\ Time(j) = Modulo(FirstTime + b, TimeWidth)
  BY <1>1, <1>2, ModuloNear DEF Time, a, b
<1>4. Time(i) \in 0..(TimeWidth - 1) /\ Time(j) \in 0..(TimeWidth - 1)
  BY <1>1, <1>2, <1>3 DEF Modulo
<1>5. (Time(i) - Time(j)) % TimeWidth = Modulo(Time(i) - Time(j), TimeWidth)
  BY <1>2, <1>4, ModuloNear
<1>6. Modulo(Time(i) - Time(j), TimeWidth) = Modulo(a - b, TimeWidth)
  BY <1>1, <1>2, <1>3 DEF Modulo
<1>7. (TimeWidth \div 2) \in Int /\ 2 * (TimeWidth \div 2) <= TimeWidth /\ TimeWidth <= 2 * (TimeWidth \div 2) + 1
  BY <1>2
<1>8. Time(i) = Time(j) <=> a = b
  BY <1>1, <1>2, <1>3 DEF Modulo
<1>9. Newer(Time(i), Time(j)) <=> a > b
  BY <1>1, <1>2, <1>5, <1>6, <1>7 DEF Newer, Modulo
<1>10. QED
  BY <1>8, <1>9 DEF a, b

(* So does a sequence number, among the packets. *)
LEMMA NumberTells ==
  /\ \A i, k \in Packet : SeqOf(i) = Following(k) <=> i = k + 1
  /\ \A m, i \in Packet : i <= m => Behind(m, i) = m - i
<1> DEFINE N == Len(Stream)
<1>1. N \in Nat /\ Packet = 1..N /\ SeqWidth \in Nat \ {0} /\ FirstSeq \in 0..(SeqWidth - 1)
      /\ 2 * N <= SeqWidth
  BY PacketFacts, StreamAssumption
<1> HIDE DEF N
<1>2. ASSUME NEW i \in Packet
      PROVE  SeqOf(i) = Modulo(FirstSeq + i, SeqWidth) /\ SeqOf(i) \in 0..(SeqWidth - 1)
  <2>1. FirstSeq + i \in (-SeqWidth)..(2 * SeqWidth - 1) /\ FirstSeq + i \in Nat
    BY <1>1
  <2>2. SeqOf(i) = Modulo(FirstSeq + i, SeqWidth)
    BY <1>1, <2>1, ModuloNear DEF SeqOf
  <2>3. QED
    BY <1>1, <2>1, <2>2 DEF Modulo
<1>3. ASSUME NEW k \in Packet
      PROVE  Following(k) = Modulo(FirstSeq + k + 1, SeqWidth)
  <2>1. SeqOf(k) = Modulo(FirstSeq + k, SeqWidth) /\ SeqOf(k) \in 0..(SeqWidth - 1)
    BY <1>2
  <2>2. SeqOf(k) + 1 \in (-SeqWidth)..(2 * SeqWidth - 1)
    BY <1>1, <2>1
  <2>3. Following(k) = Modulo(SeqOf(k) + 1, SeqWidth)
    BY <1>1, <2>2, ModuloNear DEF Following
  <2>4. QED
    BY <1>1, <2>1, <2>3 DEF Modulo
<1>4. ASSUME NEW i \in Packet, NEW k \in Packet
      PROVE  SeqOf(i) = Following(k) <=> i = k + 1
  <2>1. SeqOf(i) = Modulo(FirstSeq + i, SeqWidth) /\ Following(k) = Modulo(FirstSeq + k + 1, SeqWidth)
    BY <1>2, <1>3
  <2>2. QED
    BY <1>1, <2>1 DEF Modulo
<1>5. ASSUME NEW m \in Packet, NEW i \in Packet, i <= m
      PROVE  Behind(m, i) = m - i
  <2>1. /\ SeqOf(m) = Modulo(FirstSeq + m, SeqWidth) /\ SeqOf(m) \in 0..(SeqWidth - 1)
        /\ SeqOf(i) = Modulo(FirstSeq + i, SeqWidth) /\ SeqOf(i) \in 0..(SeqWidth - 1)
    BY <1>2
  <2>2. SeqOf(m) - SeqOf(i) \in (-SeqWidth)..(2 * SeqWidth - 1)
    BY <1>1, <2>1
  <2>3. Behind(m, i) = Modulo(SeqOf(m) - SeqOf(i), SeqWidth)
    BY <1>1, <2>2, ModuloNear DEF Behind
  <2>4. QED
    BY <1>1, <1>5, <2>1, <2>3 DEF Modulo
<1>6. QED
  BY <1>4, <1>5

--------------------------------------------------------------------------------
(* Which frames the receiver is at. *)

OfFrame(S, f) == S # {} /\ S \subseteq Packets[f]

FramesInv ==
  /\ pending # {} => \E f \in Frame : OfFrame(pending, f) /\ f > FrameOf(unit)
  /\ unit = {} <=> last = None
  /\ unit # {} => \E f \in Frame : OfFrame(unit, f) /\ \A i \in Packets[f] : last = Time(i)

LEMMA PacketsOf ==
  /\ \A f \in Frame : Packets[f] = {i \in Full : Stream[i].frame = f}
  /\ \A f \in Frame : \A S :
       OfFrame(S, f) => FrameOf(S) = f /\ (CHOOSE i \in S : TRUE) \in Packets[f]
<1>1. \A f \in Frame : Packets[f] = {i \in Full : Stream[i].frame = f}
  BY DEF Packets
<1>2. ASSUME NEW f \in Frame, NEW S, OfFrame(S, f)
      PROVE  FrameOf(S) = f /\ (CHOOSE i \in S : TRUE) \in Packets[f]
  <2>1. (CHOOSE i \in S : TRUE) \in S
    BY <1>2 DEF OfFrame
  <2>2. QED
    BY <1>1, <1>2, <2>1 DEF OfFrame, FrameOf
<1>3. QED
  BY <1>1, <1>2

(* A packet that is not late belongs to the pending frame, or to a newer one than any *)
(* before.                                                                            *)
LEMMA Arrival ==
  ASSUME TypeOK, FramesInv, NEW i \in Full, ~Late(i)
  PROVE  /\ Stream[i].frame \in Frame /\ OfFrame(Held(i), Stream[i].frame)
         /\ i \in Held(i) /\ Stream[i].frame > FrameOf(unit)
         /\ ~GivesUp(i) /\ pending # {} => OfFrame(pending, Stream[i].frame)
<1> DEFINE f == Stream[i].frame
<1>1. f \in Frame /\ i \in Packets[f] /\ \A g \in Frame : g \in Nat /\ g > 0
  BY FrameFacts, PacketsOf
<1>2. CASE pending # {}
  <2>1. PICK g \in Frame : OfFrame(pending, g) /\ g > FrameOf(unit)
    BY <1>2 DEF FramesInv
  <2> DEFINE p == CHOOSE j \in pending : TRUE
  <2>2. p \in Full /\ Stream[p].frame = g /\ PendingTime = Time(p)
    BY <2>1, PacketsOf DEF PendingTime
  <2> HIDE DEF p
  <2>3. Time(i) = PendingTime <=> f = g
    BY <2>2, TimeTells
  <2>4. Newer(Time(i), PendingTime) <=> f > g
    BY <2>2, TimeTells
  <2>5. CASE GivesUp(i)
    <3>1. f > g /\ Held(i) = {i}
      BY <2>4, <2>5 DEF GivesUp, Held
    <3>2. FrameOf(unit) \in Nat
      <4>1. unit \in SUBSET Full
        BY DEF TypeOK
      <4>2. FrameOf(unit) \in Frame \cup {0}
        BY <4>1, FrameOfFull
      <4>3. QED
        BY <1>1, <4>2
    <3>3. QED
      BY <1>1, <2>1, <2>5, <3>1, <3>2 DEF OfFrame
  <2>6. CASE ~GivesUp(i)
    <3>1. f = g /\ Held(i) = pending \cup {i}
      BY <1>2, <2>3, <2>6 DEF GivesUp, Held, Late
    <3>2. QED
      BY <1>1, <2>1, <3>1 DEF OfFrame
  <2>7. QED
    BY <2>5, <2>6
<1>3. CASE pending = {}
  <2>1. Held(i) = {i}
    BY <1>3 DEF Held
  <2>2. OfFrame(Held(i), f) /\ i \in Held(i)
    BY <1>1, <2>1 DEF OfFrame
  <2>3. f > FrameOf(unit)
    <3>1. CASE last = None
      <4>1. unit = {}
        BY <3>1 DEF FramesInv
      <4>2. FrameOf(unit) = 0
        BY <4>1 DEF FrameOf
      <4>3. QED
        BY <1>1, <4>2
    <3>2. CASE last # None
      <4>1. PICK g \in Frame : OfFrame(unit, g) /\ \A j \in Packets[g] : last = Time(j)
        BY <3>2 DEF FramesInv
      <4>2. PICK j \in unit : j \in Full /\ Stream[j].frame = g /\ last = Time(j)
        BY <4>1, PacketsOf DEF OfFrame
      <4>3. Newer(Time(i), Time(j))
        BY <1>3, <3>2, <4>2 DEF Late
      <4>4. f > g
        BY <4>2, <4>3, TimeTells
      <4>5. QED
        BY <4>1, <4>4, PacketsOf
    <3>3. QED
      BY <3>1, <3>2
  <2>4. QED
    BY <1>1, <1>3, <2>2, <2>3
<1>4. QED
  BY <1>2, <1>3

LEMMA FramesStep ==
  ASSUME TypeOK, FramesInv, [Next]_vars
  PROVE  FramesInv' /\ (units' # units => FrameOf(unit') > FrameOf(unit))
<1> USE DEF receiver, history
<1>1. ASSUME UNCHANGED <<pending, last, unit, units>> PROVE FramesInv' /\ units' = units
  <2>1. FrameOf(unit)' = FrameOf(unit)
    BY <1>1 DEF FrameOf
  <2>2. QED
    BY <1>1, <2>1 DEF FramesInv, OfFrame
<1>2. CASE UNCHANGED vars
  BY <1>1, <1>2 DEF vars
<1>3. ASSUME NEW i \in Packet, ReceivePadding(i) \/ IgnoreLate(i)
      PROVE  FramesInv' /\ units' = units
  BY <1>1, <1>3 DEF ReceivePadding, IgnoreLate, vars
<1>4. ASSUME NEW i \in Packet, Collect(i)
      PROVE  FramesInv' /\ units' = units
  <2>1. i \in Full /\ pending' = Held(i) /\ UNCHANGED <<last, unit, units>>
    BY <1>4 DEF Collect
  <2>2. /\ Stream[i].frame \in Frame /\ OfFrame(Held(i), Stream[i].frame)
        /\ Stream[i].frame > FrameOf(unit)
    BY <1>4, <2>1, Arrival DEF Collect
  <2>3. FrameOf(unit)' = FrameOf(unit)
    BY <2>1 DEF FrameOf
  <2>4. QED
    BY <2>1, <2>2, <2>3 DEF FramesInv, OfFrame
<1>5. ASSUME NEW i \in Packet, Complete(i)
      PROVE  FramesInv' /\ FrameOf(unit') > FrameOf(unit)
  <2>1. i \in Full /\ pending' = {} /\ unit' = Held(i) /\ last' = Time(i)
    BY <1>5 DEF Complete
  <2>2. /\ Stream[i].frame \in Frame /\ OfFrame(Held(i), Stream[i].frame)
        /\ Stream[i].frame > FrameOf(unit)
    BY <1>5, <2>1, Arrival DEF Complete
  <2>3. \A j \in Packets[Stream[i].frame] : last' = Time(j)
    BY <2>1, <2>2, PacketsOf, TimeTells
  <2>4. last' # None
    <3>1. Time(i) \in 0..(TimeWidth - 1)
      BY <2>1, PacketFacts, NumbersInRange
    <3>2. QED
      BY <2>1, <3>1, StreamAssumption
  <2>5. unit' # {}
    BY <2>1, <2>2 DEF OfFrame
  <2>6. FramesInv'
    BY <2>1, <2>2, <2>3, <2>4, <2>5 DEF FramesInv, OfFrame
  <2>7. FrameOf(unit') = Stream[i].frame
    BY <2>1, <2>2, PacketsOf
  <2>8. QED
    BY <2>2, <2>6, <2>7
<1>6. ASSUME NEW i \in Packet, Discard(i)
      PROVE  FramesInv' /\ units' = units
  <2>1. pending' = {} /\ UNCHANGED <<last, unit, units>>
    BY <1>6 DEF Discard
  <2>2. QED
    BY <2>1 DEF FramesInv, OfFrame
<1>7. QED
  BY <1>2, <1>3, <1>4, <1>5, <1>6 DEF Next, Receive
--------------------------------------------------------------------------------
(* What is expected next is the packet after the last one of the frame settled last,  *)
(* and of the last unit's unless a keyframe was requested since.                      *)

After(k, f) == \A j \in Full : j <= k <=> Stream[j].frame <= f
Awaits(number, f) == \E k \in Packet : number = Following(k) /\ After(k, f)

NumbersInv ==
  /\ expected # None => Awaits(expected, settled)
  /\ unit # {} /\ ~requested => Awaits(expected, FrameOf(unit))

LEMMA MarkerEnds ==
  ASSUME NEW f \in Frame, NEW m \in Packets[f], Marker[m]
  PROVE  After(m, f)
<1>1. m \in Full /\ Stream[m].frame = f /\ \A j \in Packets[f] : j <= m
  BY PacketsOf DEF Marker
<1>2. ASSUME NEW j \in Full PROVE j <= m <=> Stream[j].frame <= f
  <2>1. j \in Packet /\ m \in Packet /\ j \in Nat /\ m \in Nat /\ Stream[j].frame \in Nat /\ f \in Nat
    BY <1>1, PacketFacts
  <2>2. j <= m => Stream[j].frame <= f
    BY <1>1, <2>1, InOrder
  <2>3. Stream[j].frame < f => j < m
    BY <1>1, <2>1, InOrder
  <2>4. Stream[j].frame = f => j <= m
    BY <1>1, PacketsOf
  <2>5. QED
    BY <2>1, <2>2, <2>3, <2>4
<1>3. QED
  BY <1>2 DEF After

LEMMA MarkerAwaits ==
  ASSUME NEW f \in Frame, NEW S, OfFrame(S, f), \E m \in S : Marker[m]
  PROVE  Awaits(Following(CHOOSE m \in S : Marker[m]), f)
<1> DEFINE m == CHOOSE n \in S : Marker[n]
<1>1. m \in Packets[f] /\ Marker[m]
  BY DEF OfFrame
<1> HIDE DEF m
<1>2. m \in Packet
  <2>1. m \in Full
    BY <1>1, PacketsOf
  <2>2. QED
    BY <2>1, PacketFacts
<1>3. Awaits(Following(m), f)
  BY <1>1, <1>2, MarkerEnds DEF Awaits
<1>4. QED
  BY <1>3 DEF m

LEMMA ExpectedAwaits ==
  ASSUME TypeOK, FramesInv, NumbersInv, NEW i \in Full, Expected(i) # None
  PROVE  LET f == IF GivesUp(i) THEN FrameOf(pending) ELSE settled
         IN  f \in Nat /\ Awaits(Expected(i), f)
<1>1. CASE ~GivesUp(i)
  <2>1. Awaits(Expected(i), settled)
    BY <1>1 DEF Expected, NumbersInv
  <2>2. settled \in Nat
    BY FrameFacts DEF TypeOK
  <2>3. QED
    BY <1>1, <2>1, <2>2
<1>2. CASE GivesUp(i)
  <2>1. \E m \in pending : Marker[m]
    BY <1>2 DEF Expected
  <2>2. PICK f \in Frame : OfFrame(pending, f)
    BY <1>2 DEF GivesUp, FramesInv
  <2>3. Awaits(Expected(i), f)
    BY <1>2, <2>1, <2>2, MarkerAwaits DEF Expected
  <2>4. f \in Nat /\ FrameOf(pending) = f
    BY <2>2, FrameFacts, PacketsOf
  <2>5. QED
    BY <1>2, <2>3, <2>4
<1>3. QED
  BY <1>1, <1>2

(* What is assembled is a frame's packets from the beginning of a NAL unit on; all of *)
(* them if the packet before was known.                                               *)
LEMMA AssembledWhole ==
  ASSUME TypeOK, FramesInv, NumbersInv, NEW i \in Full, ~Late(i), Assembled(i)
  PROVE  LET f == Stream[i].frame IN
         /\ \E m \in Held(i) : Marker[m]
         /\ \E first \in Held(i) :
              /\ Stream[first].head /\ Held(i) = {j \in Packets[f] : first <= j}
              /\ Expected(i) \in {None, SeqOf(first)}
         /\ Expected(i) # None => Held(i) = Packets[f]
<1> DEFINE f == Stream[i].frame
           S == Held(i)
<1>1. f \in Frame /\ S \subseteq Packets[f] /\ Packets[f] = {j \in Full : Stream[j].frame = f}
  BY Arrival, PacketsOf DEF OfFrame
<1>2. PICK m \in S, first \in S :
        /\ Marker[m] /\ Gapless(m, S)
        /\ \A j \in S : Behind(m, j) <= Behind(m, first)
        /\ Stream[first].head /\ Expected(i) \in {None, SeqOf(first)}
  BY DEF Assembled
<1> HIDE DEF S, f
<1>3. \A j \in Packets[f] : j \in Packet /\ j \in Nat /\ j \in Full
  <2>1. \A j \in Full : j \in Packet /\ j \in Nat
    BY PacketFacts
  <2>2. QED
    BY <1>1, <2>1
<1>4. \A j \in Packets[f] : j <= m
  BY <1>1, <1>2 DEF Marker
<1>5. \A j \in Packets[f] : Behind(m, j) = m - j
  BY <1>1, <1>2, <1>3, <1>4, NumberTells
<1>6. \A j \in S : first <= j
  BY <1>1, <1>2, <1>3, <1>5
<1>7. ASSUME NEW j \in Packets[f], first <= j PROVE j \in S
  <2>1. {Behind(m, n) : n \in S} = 0..(Cardinality(S) - 1)
    BY <1>2 DEF Gapless
  <2>2. Cardinality(S) \in Nat
    <3>1. IsFiniteSet(1..Len(Stream))
      BY PacketFacts, FS_Interval
    <3>2. S \subseteq 1..Len(Stream)
      BY <1>1, <1>3, PacketFacts
    <3>3. QED
      BY <3>1, <3>2, FS_Subset, FS_CardinalityType
  <2>3. m - first \in 0..(Cardinality(S) - 1)
    BY <1>1, <1>2, <1>5, <2>1
  <2>4. m \in Nat /\ first \in Nat /\ j \in Nat /\ j <= m
    BY <1>1, <1>2, <1>3, <1>4
  <2>5. m - j \in 0..(Cardinality(S) - 1)
    BY <1>7, <2>2, <2>3, <2>4
  <2>6. PICK n \in S : Behind(m, n) = m - j
    BY <2>1, <2>5
  <2>7. n \in Nat /\ m - n = m - j
    BY <1>1, <1>3, <1>5, <2>6
  <2>8. n = j
    BY <2>4, <2>7
  <2>9. QED
    BY <2>6, <2>8
<1>8. S = {j \in Packets[f] : first <= j}
  BY <1>1, <1>6, <1>7
<1>9. ASSUME Expected(i) # None PROVE S = Packets[f]
  <2>1. PICK g \in Nat : Awaits(Expected(i), g)
    BY <1>9, ExpectedAwaits
  <2>2. PICK k \in Packet : Expected(i) = Following(k) /\ After(k, g)
    BY <2>1 DEF Awaits
  <2>3. first \in Packet /\ SeqOf(first) = Following(k)
    BY <1>1, <1>2, <1>3, <1>9, <2>2
  <2>4. first = k + 1
    BY <2>2, <2>3, NumberTells
  <2>5. k \in Nat /\ first \in Full /\ Stream[first].frame = f
    BY <1>1, <1>2, PacketFacts
  <2>6. ASSUME NEW j \in Packets[f] PROVE first <= j
    <3>1. j \in Full /\ Stream[j].frame = f /\ j \in Nat
      BY <1>1, <1>3
    <3>2. ~(first <= k)
      BY <2>4, <2>5
    <3>3. ~(f <= g)
      BY <2>2, <2>5, <3>2 DEF After
    <3>4. ~(j <= k)
      BY <2>2, <3>1, <3>3 DEF After
    <3>5. QED
      BY <2>4, <2>5, <3>1, <3>4
  <2>7. QED
    BY <1>1, <1>8, <2>6
<1>10. QED
  BY <1>2, <1>8, <1>9 DEF S, f

(* Padding moves the expected number on within no frame. *)
LEMMA PaddingAwaits ==
  ASSUME NEW i \in Packet, Stream[i].empty, NEW f, Awaits(expected, f),
         expected' = IF expected = SeqOf(i) THEN Following(i) ELSE expected
  PROVE  Awaits(expected', f)
<1>1. PICK k \in Packet : expected = Following(k) /\ After(k, f)
  BY DEF Awaits
<1>2. CASE expected = SeqOf(i)
  <2>1. i = k + 1
    BY <1>1, <1>2, NumberTells
  <2>2. \A j \in Full : j \in Nat /\ j # i
    BY PacketFacts DEF Full
  <2>3. \A j \in Full : j <= i <=> j <= k
    BY <2>1, <2>2, PacketFacts
  <2>4. After(i, f)
    BY <1>1, <2>3 DEF After
  <2>5. QED
    BY <1>2, <2>4 DEF Awaits
<1>3. CASE expected # SeqOf(i)
  BY <1>3
<1>4. QED
  BY <1>2, <1>3

LEMMA FollowingIsNumber == \A k \in Packet : Following(k) # None
  BY NumbersInRange, StreamAssumption

LEMMA NumbersStep ==
  ASSUME TypeOK, FramesInv, NumbersInv, [Next]_vars
  PROVE  NumbersInv'
<1> USE DEF receiver, history
<1>1. ASSUME UNCHANGED unit PROVE FrameOf(unit)' = FrameOf(unit)
  BY <1>1 DEF FrameOf
<1>2. ASSUME NEW n, NEW f PROVE Awaits(n, f) <=> \E k \in Packet : n = Following(k) /\ After(k, f)
  BY DEF Awaits
<1>3. CASE UNCHANGED <<expected, unit, requested, settled>>
  BY <1>1, <1>3 DEF NumbersInv, Awaits, After, Following, SeqOf
<1>4. ASSUME NEW i \in Packet, ReceivePadding(i) PROVE NumbersInv'
  <2>1. /\ Stream[i].empty /\ UNCHANGED <<unit, requested, settled>>
        /\ expected' = IF expected = SeqOf(i) THEN Following(i) ELSE expected
    BY <1>4 DEF ReceivePadding
  <2>2. \A f : Awaits(expected, f) => Awaits(expected', f)
    BY <2>1, PaddingAwaits
  <2>3. expected # None \/ expected' = None
    <3>1. SeqOf(i) # None
      BY PacketFacts, StreamAssumption DEF SeqOf
    <3>2. QED
      BY <2>1, <3>1
  <2>4. QED
    BY <1>1, <2>1, <2>2, <2>3 DEF NumbersInv, Awaits, After, Following, SeqOf
<1>5. ASSUME NEW i \in Packet, Collect(i) PROVE NumbersInv'
  <2>1. /\ i \in Full /\ ~Late(i) /\ expected' = Expected(i) /\ UNCHANGED unit
        /\ requested' = (requested \/ GivesUp(i))
        /\ settled' = IF GivesUp(i) THEN FrameOf(pending) ELSE settled
    BY <1>5 DEF Collect, NoteDamage
  <2>2. expected' # None => Awaits(expected', settled')
    BY <2>1, ExpectedAwaits
  <2>3. ~GivesUp(i) => Expected(i) = expected
    BY DEF Expected
  <2>4. unit # {} /\ ~requested' => Awaits(expected', FrameOf(unit))
    BY <2>1, <2>3 DEF NumbersInv
  <2>5. QED
    BY <1>1, <2>1, <2>2, <2>4 DEF NumbersInv, Awaits, After, Following, SeqOf
<1>6. ASSUME NEW i \in Packet, Complete(i) PROVE NumbersInv'
  <2>1. /\ i \in Full /\ ~Late(i) /\ Assembled(i) /\ unit' = Held(i)
        /\ expected' = Following(CHOOSE m \in Held(i) : Marker[m])
        /\ settled' = Stream[i].frame
    BY <1>6 DEF Complete
  <2>2. Stream[i].frame \in Frame /\ OfFrame(Held(i), Stream[i].frame)
    BY <2>1, Arrival
  <2>3. \E m \in Held(i) : Marker[m]
    BY <2>1, AssembledWhole
  <2>4. Awaits(expected', Stream[i].frame)
    BY <2>1, <2>2, <2>3, MarkerAwaits
  <2>5. FrameOf(unit)' = Stream[i].frame /\ Stream[i].frame \in Nat
    <3>1. FrameOf(unit') = Stream[i].frame
      BY <2>1, <2>2, PacketsOf
    <3>2. QED
      BY <2>2, <3>1, FrameFacts DEF FrameOf
  <2>6. QED
    BY <2>1, <2>4, <2>5 DEF NumbersInv, Awaits, After, Following, SeqOf
<1>7. ASSUME NEW i \in Packet, Discard(i) PROVE NumbersInv'
  BY <1>7 DEF Discard, NumbersInv
<1>8. QED
  BY <1>3, <1>4, <1>5, <1>6, <1>7 DEF Next, Receive, IgnoreLate, vars

(* A unit is whole, and follows on the one before unless a keyframe was requested. *)
LEMMA WholeStep ==
  ASSUME TypeOK, FramesInv, NumbersInv, UnitIsWhole, [Next]_vars
  PROVE  UnitIsWhole' /\ (units' # units /\ unit # {} => FollowsOn(unit', unit) \/ requested \/ requested')
<1> USE DEF receiver, history
<1>1. ASSUME UNCHANGED <<unit, known>> PROVE UnitIsWhole'
  BY <1>1 DEF UnitIsWhole, FrameOf
<1>2. ASSUME NEW i \in Packet, Complete(i)
      PROVE  UnitIsWhole' /\ (unit # {} => FollowsOn(unit', unit) \/ requested \/ requested')
  <2> DEFINE f == Stream[i].frame
  <2>1. /\ i \in Full /\ ~Late(i) /\ Assembled(i) /\ unit' = Held(i)
        /\ known' = (Expected(i) # None) /\ requested' = GivesUp(i)
    BY <1>2 DEF Complete
  <2>2. /\ f \in Frame /\ OfFrame(Held(i), f) /\ FrameOf(Held(i)) = f /\ f > FrameOf(unit)
        /\ Packets[f] = {j \in Full : Stream[j].frame = f}
    BY <2>1, Arrival, PacketsOf
  <2>3. PICK first \in Held(i) :
          /\ Stream[first].head /\ Held(i) = {j \in Packets[f] : first <= j}
          /\ Expected(i) \in {None, SeqOf(first)}
    BY <2>1, AssembledWhole
  <2>4. Expected(i) # None => Held(i) = Packets[f]
    BY <2>1, AssembledWhole
  <2> HIDE DEF f
  <2>5. UnitIsWhole'
    <3>1. FrameOf(unit)' = f
      BY <2>1, <2>2 DEF FrameOf
    <3>2. QED
      BY <2>1, <2>2, <2>3, <2>4, <3>1 DEF UnitIsWhole, OfFrame
  <2>6. ASSUME unit # {}, ~requested, ~GivesUp(i) PROVE FollowsOn(unit', unit)
    <3> DEFINE g == FrameOf(unit)
    <3>1. PICK k \in Packet : expected = Following(k) /\ After(k, g)
      BY <2>6 DEF NumbersInv, Awaits
    <3>2. Expected(i) = expected
      BY <2>6 DEF Expected
    <3>3. Expected(i) # None
      BY <3>1, <3>2, FollowingIsNumber
    <3>4. first \in Full /\ first \in Packet /\ Stream[first].frame = f
      BY <2>2, PacketFacts DEF OfFrame
    <3>5. first = k + 1
      BY <2>3, <3>1, <3>2, <3>3, <3>4, NumberTells
    <3>6. g \in Frame
      BY <2>6, PacketsOf DEF FramesInv
    <3> HIDE DEF g
    <3>7. f \in Nat /\ g \in Nat /\ g < f /\ g + 1 \in Frame
      BY <2>2, <3>6, FrameFacts DEF g
    <3>8. PICK j \in Full : Stream[j].frame = g + 1
      BY <3>7 DEF Frame
    <3>9. first <= j
      BY <3>1, <3>5, <3>7, <3>8, PacketFacts DEF After
    <3>10. f <= g + 1
      BY <3>4, <3>8, <3>9, PacketFacts, InOrder
    <3>11. f = g + 1
      BY <3>7, <3>10
    <3>12. QED
      BY <2>1, <2>2, <2>4, <3>3, <3>11 DEF FollowsOn, g
  <2>7. QED
    BY <2>1, <2>5, <2>6
<1>3. CASE UNCHANGED <<unit, units, known>>
  BY <1>1, <1>3
<1>4. QED
  BY <1>2, <1>3 DEF Next, Receive, ReceivePadding, IgnoreLate, Collect, Discard, vars

(* A frame without padding in it is an interval of packets, from one that begins a    *)
(* NAL unit to its marker.                                                            *)
LEMMA SmallestPacket ==
  ASSUME NEW S \in SUBSET Nat, S # {}
  PROVE  \E x \in S : \A y \in S : x <= y
<1>1. PICK x \in S : \A y \in S : ~(<<y, x>> \in OpToRel(<, Nat))
  BY NatLessThanWellFounded, WFMin, Zenon
<1>2. \A y \in S : ~(y < x)
  BY <1>1, Zenon DEF OpToRel
<1>3. QED
  BY <1>2

LEMMA FrameIsInterval ==
  ASSUME NEW f \in Frame, ~Padded(f)
  PROVE  \E first, m \in Packet :
           /\ Packets[f] = first..m /\ first <= m
           /\ Stream[first].head /\ Marker[m]
           /\ \A k \in Packet : After(k, f - 1) => k + 1 = first
<1> DEFINE S == Packets[f]
<1>1. /\ S = {j \in Full : Stream[j].frame = f} /\ S \subseteq Nat /\ S \subseteq Full
      /\ Len(Stream) \in Nat /\ Packet = 1..Len(Stream) /\ Full \subseteq Packet /\ f \in Nat
      /\ \A j \in Packet : Stream[j].frame \in Nat
  <2>1. S = {j \in Full : Stream[j].frame = f}
    BY PacketsOf
  <2>2. /\ Len(Stream) \in Nat /\ Packet = 1..Len(Stream) /\ Full \subseteq Packet /\ Packet \subseteq Nat
        /\ \A j \in Packet : Stream[j].frame \in Nat
    BY PacketFacts
  <2>3. f \in Nat
    BY FrameFacts
  <2>4. S \subseteq Full /\ S \subseteq Nat
    BY <2>1, <2>2
  <2>5. QED
    BY <2>1, <2>2, <2>3, <2>4
<1>2. S # {}
  BY <1>1 DEF Frame
<1> HIDE DEF S
<1>3. PICK first \in S : \A j \in S : first <= j
  BY <1>1, <1>2, SmallestPacket
<1>4. PICK m \in S : \A j \in S : j <= m
  <2> DEFINE fromEnd == {Len(Stream) - j : j \in S}
  <2>1. fromEnd \in SUBSET Nat /\ fromEnd # {}
    BY <1>1, <1>2
  <2>2. PICK x \in fromEnd : \A y \in fromEnd : x <= y
    BY <2>1, SmallestPacket
  <2>3. PICK m \in S : x = Len(Stream) - m
    BY <2>2
  <2>4. \A j \in S : Len(Stream) - m <= Len(Stream) - j
    BY <2>2, <2>3
  <2>5. QED
    BY <1>1, <2>4
<1>5. first \in Packet /\ m \in Packet /\ first \in Nat /\ m \in Nat /\ first <= m
      /\ Stream[first].frame = f /\ Stream[m].frame = f /\ first \in Full /\ m \in Full
  BY <1>1, <1>3, <1>4
<1>6. ASSUME NEW i \in Packet, i < m, \A j \in Full : Stream[j].frame < f => j < i
      PROVE  i \in Full
  BY <1>4, <1>6 DEF Padded, Full, S
<1>7. ASSUME NEW j \in Full, Stream[j].frame < f PROVE j < first
  BY <1>1, <1>5, <1>7, InOrder
<1>8. S = first..m
  <2>1. ASSUME NEW i \in first..m PROVE i \in S
    <3>1. i \in Packet /\ i \in Nat /\ first <= i /\ i <= m
      BY <1>1, <1>5
    <3>2. i \in Full
      <4>1. CASE i = m
        BY <1>5, <4>1
      <4>2. CASE i < m
        <5>1. \A j \in Full : Stream[j].frame < f => j < i
          BY <1>1, <1>5, <1>7, <3>1
        <5>2. QED
          BY <1>6, <3>1, <4>2, <5>1
      <4>3. QED
        BY <1>5, <3>1, <4>1, <4>2
    <3>3. f <= Stream[i].frame /\ Stream[i].frame <= f
      BY <1>5, <3>1, InOrder
    <3>4. QED
      BY <1>1, <3>1, <3>2, <3>3
  <2>2. QED
    BY <1>1, <1>3, <1>4, <1>5, <2>1
<1>9. Marker[m]
  BY <1>4, <1>5 DEF Marker, S
<1>10. Stream[first].head
  <2>1. IsFirst(first)
    BY <1>3, <1>5 DEF IsFirst, S
  <2>2. QED
    BY <1>5, <2>1, StreamAssumption
<1>11. ASSUME NEW k \in Packet, After(k, f - 1) PROVE k + 1 = first
  <2>1. k \in Nat /\ k < first
    <3>1. ~(first <= k)
      BY <1>1, <1>5, <1>11 DEF After
    <3>2. QED
      BY <1>1, <1>5, <3>1
  <2>2. ASSUME k + 1 < first PROVE FALSE
    <3>1. k + 1 \in Packet /\ k + 1 \in Nat /\ k + 1 < m
      BY <1>1, <1>5, <2>1, <2>2
    <3>2. \A j \in Full : Stream[j].frame < f => j < k + 1
      <4>1. \A j \in Full : Stream[j].frame < f => Stream[j].frame <= f - 1
        BY <1>1
      <4>2. QED
        BY <1>1, <1>11, <2>1, <4>1 DEF After
    <3>3. k + 1 \in Full
      BY <1>6, <3>1, <3>2
    <3>4. ~(Stream[k + 1].frame <= f - 1)
      BY <1>11, <2>1, <3>3 DEF After
    <3>5. Stream[k + 1].frame = f
      <4>1. Stream[k + 1].frame <= f /\ Stream[k + 1].frame \in Nat
        BY <1>1, <1>5, <2>2, <3>1, InOrder
      <4>2. QED
        BY <1>1, <3>4, <4>1
    <3>6. k + 1 \in S
      BY <1>1, <3>3, <3>5
    <3>7. QED
      BY <1>3, <1>5, <2>2, <3>1, <3>6
  <2>3. QED
    BY <1>5, <2>1, <2>2
<1>12. QED
  BY <1>5, <1>8, <1>9, <1>10, <1>11 DEF S

(* All packets of such a frame are assembled, when the packet after the frame before  *)
(* is expected or none is.                                                            *)
LEMMA IntactAssembles ==
  ASSUME NEW f \in Frame, ~Padded(f), NEW i \in Full, Held(i) = Packets[f],
         Expected(i) # None => Awaits(Expected(i), f - 1)
  PROVE  Assembled(i)
<1>1. PICK first, m \in Packet :
        /\ Packets[f] = first..m /\ first <= m
        /\ Stream[first].head /\ Marker[m]
        /\ \A k \in Packet : After(k, f - 1) => k + 1 = first
  BY FrameIsInterval
<1>2. first \in Nat /\ m \in Nat /\ first..m \subseteq Packet
  <2>1. Packets[f] \subseteq Packet
    <3>1. Packets[f] = {j \in Full : Stream[j].frame = f}
      BY PacketsOf
    <3>2. QED
      BY <3>1 DEF Full
  <2>2. QED
    BY <1>1, <2>1, PacketFacts
<1>3. \A j \in first..m : Behind(m, j) = m - j
  BY <1>1, <1>2, NumberTells
<1>4. {Behind(m, j) : j \in first..m} = 0..(m - first)
  <2>1. ASSUME NEW d \in 0..(m - first) PROVE \E j \in first..m : d = Behind(m, j)
    <3>1. m - d \in first..m /\ m - (m - d) = d
      BY <1>2
    <3>2. QED
      BY <1>3, <3>1
  <2>2. \A j \in first..m : Behind(m, j) \in 0..(m - first)
    BY <1>2, <1>3
  <2>3. QED
    BY <2>1, <2>2
<1>5. Cardinality(first..m) = m - first + 1
  BY <1>1, <1>2, FS_Interval
<1>6. Gapless(m, first..m)
  BY <1>1, <1>2, <1>4, <1>5 DEF Gapless
<1>7. \A j \in first..m : Behind(m, j) <= Behind(m, first)
  BY <1>1, <1>2, <1>3
<1>8. Expected(i) \in {None, SeqOf(first)}
  <2>1. ASSUME Expected(i) # None PROVE Expected(i) = SeqOf(first)
    <3>1. PICK k \in Packet : Expected(i) = Following(k) /\ After(k, f - 1)
      BY <2>1 DEF Awaits
    <3>2. first = k + 1
      BY <1>1, <3>1
    <3>3. QED
      BY <1>1, <3>1, <3>2, NumberTells
  <2>2. QED
    BY <2>1
<1>9. first \in Held(i) /\ m \in Held(i)
  BY <1>1, <1>2
<1>10. QED
  BY <1>1, <1>6, <1>7, <1>8, <1>9 DEF Assembled

LEMMA IntactStep ==
  ASSUME TypeOK, FramesInv, NumbersInv, IntactFrameCompletes, [Next]_vars
  PROVE  IntactFrameCompletes'
<1> USE DEF receiver, history
<1>1. CASE UNCHANGED <<pending, settled>>
  BY <1>1 DEF IntactFrameCompletes
<1>2. CASE pending' = {}
  <2>1. \A f \in Frame : Packets[f] # {}
    BY PacketsOf DEF Frame
  <2>2. QED
    BY <1>2, <2>1 DEF IntactFrameCompletes
<1>3. ASSUME NEW i \in Packet, Collect(i) PROVE IntactFrameCompletes'
  <2>1. /\ i \in Full /\ ~Late(i) /\ ~Assembled(i) /\ pending' = Held(i) /\ expected' = Expected(i)
    BY <1>3 DEF Collect
  <2>2. NumbersInv'
    BY NumbersStep
  <2>3. ASSUME NEW f \in Frame, pending' = Packets[f], ~Padded(f), settled' = f - 1 PROVE FALSE
    <3>1. Expected(i) # None => Awaits(Expected(i), f - 1)
      BY <2>1, <2>2, <2>3 DEF NumbersInv, Awaits, After, Following, SeqOf
    <3>2. QED
      BY <2>1, <2>3, <3>1, IntactAssembles
  <2>4. QED
    BY <2>3 DEF IntactFrameCompletes
<1>4. QED
  BY <1>1, <1>2, <1>3
  DEF Next, Receive, ReceivePadding, IgnoreLate, Complete, Discard, vars

ReceiverInv == TypeOK /\ FramesInv /\ NumbersInv /\ UnitIsWhole /\ IntactFrameCompletes

LEMMA ReceiverInit == Init => ReceiverInv
<1> SUFFICES ASSUME Init PROVE ReceiverInv
  OBVIOUS
<1>1. TypeOK
  BY DEF Init, TypeOK
<1>2. FramesInv /\ NumbersInv /\ UnitIsWhole
  BY DEF Init, FramesInv, NumbersInv, UnitIsWhole
<1>3. IntactFrameCompletes
  <2>1. \A f \in Frame : Packets[f] # {}
    BY PacketsOf DEF Frame
  <2>2. QED
    BY <2>1 DEF Init, IntactFrameCompletes
<1>4. QED
  BY <1>1, <1>2, <1>3 DEF ReceiverInv

LEMMA ReceiverStep == ReceiverInv /\ [Next]_vars => ReceiverInv'
<1> SUFFICES ASSUME ReceiverInv, [Next]_vars PROVE ReceiverInv'
  OBVIOUS
<1>1. TypeOK'
  <2>1. CASE UNCHANGED vars
    BY <2>1 DEF ReceiverInv, TypeOK, vars, receiver, history
  <2>2. CASE Next
    BY <2>2, ReceiveTypes DEF ReceiverInv, Next
  <2>3. QED
    BY <2>1, <2>2
<1>2. FramesInv' /\ NumbersInv' /\ UnitIsWhole'
  BY FramesStep, NumbersStep, WholeStep DEF ReceiverInv
<1>3. IntactFrameCompletes'
  BY IntactStep DEF ReceiverInv
<1>4. QED
  BY <1>1, <1>2, <1>3 DEF ReceiverInv

(* The pump feeds the receiver and leaves it alone otherwise: a session is a        *)
(* behaviour of the receiver (session.rs, handle_peer_messages).                    *)
THEOREM SessionReceives == SessionSpec => Spec
<1>1. SessionInit => Init
  BY DEF SessionInit
<1>2. [SessionNext]_sessionVars => [Next]_vars
  BY DEF SessionNext, Pump, sessionVars, Tick, BeginPump, ConnectionStateChange, OpenTrack,
         HandleChannelOpen, EventsHandled, ReceivePacket, Next, HandshakeAck, DrainDecoder,
         WatchFirstPacket, RequestKeyframe
<1>3. QED
  BY <1>1, <1>2, PTL DEF SessionSpec, Spec

(* What is handed on is one frame from a NAL unit's beginning to its marker, and    *)
(* the whole frame if the packet before it was known: for every stream of packets,  *)
(* every loss, repetition and order, and wherever the numbers wrap.                 *)
THEOREM UnitsAreWhole == SessionSpec => []UnitIsWhole
<1>1. ReceiverInv => UnitIsWhole
  BY DEF ReceiverInv
<1>2. QED
  BY <1>1, ReceiverInit, ReceiverStep, SessionReceives, PTL DEF Spec

(* A frame of which all has come is not held up when the one before it was settled  *)
(* and no padding came between: any loss and repetition, and numbers that wrap.     *)
THEOREM IntactFramesComplete == SessionSpec => []IntactFrameCompletes
<1>1. ReceiverInv => IntactFrameCompletes
  BY DEF ReceiverInv
<1>2. QED
  BY <1>1, ReceiverInit, ReceiverStep, SessionReceives, PTL DEF Spec

(* Frames are handed on in the order they were sent in, each once: no packet that   *)
(* comes again completes a frame again.                                             *)
THEOREM UnitsComeInOrder == SessionSpec => UnitsInOrder
<1>1. ReceiverInv /\ [Next]_vars => (units' # units => FrameOf(unit') > FrameOf(unit))
  BY FramesStep DEF ReceiverInv
<1>2. QED
  BY <1>1, ReceiverInit, ReceiverStep, SessionReceives, PTL DEF Spec, UnitsInOrder

(* Between two units no frame is skipped, and no beginning of one, without a        *)
(* keyframe request: the decoder never misses a reference unnoticed.                *)
THEOREM GapsAreNoticed == SessionSpec => GapIsNoticed
<1>1. ReceiverInv /\ [Next]_vars =>
        (units' # units /\ unit # {} => FollowsOn(unit', unit) \/ requested \/ requested')
  BY WholeStep DEF ReceiverInv
<1>2. QED
  BY <1>1, ReceiverInit, ReceiverStep, SessionReceives, PTL DEF Spec, GapIsNoticed
--------------------------------------------------------------------------------
(***************************************************************************)
(* The watchdog.  Until the first packet no one else asks for a keyframe,  *)
(* so a cooldown that runs was begun by the watchdog's last attempt or     *)
(* before its grace period: it is over when the next attempt is due.  What *)
(* the server has waited for is then no more than the time since that      *)
(* attempt, or since the grace period began.                               *)
(***************************************************************************)
CooldownIsOld ==
  \/ asked = Cooldown \/ watching = None
  \/ watching # None /\ watching <= asked
  \/ retried <= asked

WaitIsShort ==
  connected /\ CanAsk =>
    /\ watching = None => quiet = 0
    /\ watching # None /\ watching < Grace => quiet <= watching
    /\ retried < Interval /\ ~(phase = "request" /\ wanted) => quiet <= retried

AboutToAsk ==
  /\ wanted => phase = "request" /\ asked >= Cooldown
  /\ phase = "request" /\ wanted => retried = 0
  /\ phase = "request" /\ connected /\ ~wanted => watching < Grace \/ retried < Interval

Watched ==
  /\ phase \in {"idle", "request"} /\ connected => watching # None
  /\ watching = None => retried = Interval

WatchInv == ~received => CooldownIsOld /\ WaitIsShort /\ AboutToAsk /\ Watched

LEMMA WatchInvInit == SessionInit => WatchInv
BY PatienceFacts
DEF SessionInit, WatchInv, CooldownIsOld, WaitIsShort, AboutToAsk, Watched

LEMMA TickKeepsWatch ==
  ASSUME SessionTypeOK, WatchInv, Tick, ~received
  PROVE  CooldownIsOld' /\ WaitIsShort' /\ AboutToAsk' /\ Watched'
<1> USE NoneIsNoAge, PatienceFacts
<1>1. phase = "idle" /\ phase' = "idle" /\ connected' = connected /\ wanted' = wanted
      /\ CanAsk' = CanAsk
  BY DEF Tick, CanAsk, protocol
<1>2. (watching = None) = (watching' = None)
  BY DEF Tick, Older, SessionTypeOK
<1>3. CooldownIsOld'
  BY <1>2 DEF Tick, Older, SessionTypeOK, WatchInv, CooldownIsOld
<1>4. WaitIsShort'
  BY <1>1, <1>2 DEF Tick, Older, SessionTypeOK, WatchInv, WaitIsShort, Watched
<1>5. AboutToAsk' /\ Watched'
  BY <1>1, <1>2 DEF Tick, Older, SessionTypeOK, WatchInv, AboutToAsk, Watched
<1>6. QED
  BY <1>3, <1>4, <1>5

\* The watchdog looks at the clock with no packet received.
LEMMA WatchKeepsWatch ==
  ASSUME SessionTypeOK, WatchInv, WatchFirstPacket, ~received
  PROVE  CooldownIsOld' /\ WaitIsShort' /\ AboutToAsk' /\ Watched'
<1> USE NoneIsNoAge, PatienceFacts
<1>1. ~wanted /\ phase' = "request" /\ asked' = asked /\ quiet' = quiet
      /\ connected' = connected /\ CanAsk' = CanAsk
  BY DEF WatchFirstPacket, WatchInv, AboutToAsk, CanAsk, protocol
<1>2. CASE ~connected
  BY <1>1, <1>2
  DEF WatchFirstPacket, SessionTypeOK, CooldownIsOld, WaitIsShort, AboutToAsk, Watched
<1>3. CASE connected /\ Due
  <2>1. watching' = StartedAt /\ retried' = 0 /\ wanted' = TRUE
    BY <1>3 DEF WatchFirstPacket
  <2>2. watching # None /\ watching = Grace /\ retried = Interval /\ StartedAt = Grace
    BY <1>3 DEF Due, StartedAt, SessionTypeOK
  <2>3. asked = Cooldown
    BY <2>2 DEF WatchInv, CooldownIsOld, SessionTypeOK
  <2>4. QED
    BY <1>1, <2>1, <2>2, <2>3 DEF CooldownIsOld, WaitIsShort, AboutToAsk, Watched
<1>4. CASE connected /\ ~Due
  <2>1. watching' = StartedAt /\ retried' = retried /\ wanted' = FALSE
    BY <1>1, <1>4 DEF WatchFirstPacket
  <2>2. StartedAt \in 0..Grace /\ (StartedAt < Grace \/ retried < Interval)
    BY <1>4 DEF Due, StartedAt, SessionTypeOK
  <2>3. CooldownIsOld'
    BY <1>1, <2>1, <2>2 DEF WatchInv, CooldownIsOld, StartedAt, SessionTypeOK
  <2>4. WaitIsShort'
    BY <1>1, <1>4, <2>1, <2>2
    DEF WatchFirstPacket, WatchInv, WaitIsShort, Watched, StartedAt, SessionTypeOK
  <2>5. AboutToAsk' /\ Watched'
    BY <1>1, <2>1, <2>2 DEF AboutToAsk, Watched
  <2>6. QED
    BY <2>3, <2>4, <2>5
<1>5. QED
  BY <1>2, <1>3, <1>4

LEMMA RequestKeepsWatch ==
  ASSUME SessionTypeOK, WatchInv, RequestKeyframe, ~received
  PROVE  CooldownIsOld' /\ WaitIsShort' /\ AboutToAsk' /\ Watched'
<1> USE NoneIsNoAge, PatienceFacts
<1>1. phase = "request" /\ phase' = "idle" /\ ~wanted' /\ watching' = watching
      /\ retried' = retried /\ connected' = connected /\ CanAsk' = CanAsk
  BY DEF RequestKeyframe, CanAsk, protocol
<1>2. CASE wanted
  <2>1. asked' = 0 /\ retried = 0 /\ (CanAsk => quiet' = 0)
    BY <1>1, <1>2 DEF RequestKeyframe, WatchInv, AboutToAsk
  <2>2. QED
    BY <1>1, <1>2, <2>1
    DEF SessionTypeOK, WatchInv, CooldownIsOld, WaitIsShort, AboutToAsk, Watched
<1>3. CASE ~wanted
  <2>1. asked' = asked /\ quiet' = quiet
    BY <1>3 DEF RequestKeyframe
  <2>2. QED
    BY <1>1, <1>3, <2>1
    DEF WatchInv, CooldownIsOld, WaitIsShort, AboutToAsk, Watched
<1>4. QED
  BY <1>2, <1>3 DEF SessionTypeOK

LEMMA WatchInvStep ==
  SessionTypeOK /\ WatchInv /\ [SessionNext]_sessionVars => WatchInv'
<1> SUFFICES ASSUME SessionTypeOK, WatchInv, [SessionNext]_sessionVars, ~received'
             PROVE  CooldownIsOld' /\ WaitIsShort' /\ AboutToAsk' /\ Watched'
  BY DEF WatchInv
<1> USE NoneIsNoAge, PatienceFacts
<1> USE DEF WatchInv, CooldownIsOld, WaitIsShort, AboutToAsk, Watched, CanAsk
<1>1. CASE Tick
  <2>1. ~received
    BY <1>1 DEF Tick
  <2>2. QED
    BY <1>1, <2>1, TickKeepsWatch
<1>2. CASE BeginPump
  BY <1>2 DEF BeginPump, watchdog, protocol
<1>3. ASSUME NEW now \in BOOLEAN, ConnectionStateChange(now)
      PROVE  CooldownIsOld' /\ WaitIsShort' /\ AboutToAsk' /\ Watched'
  BY <1>3 DEF ConnectionStateChange, SessionTypeOK, watchdog, protocol
<1>4. CASE OpenTrack
  BY <1>4 DEF OpenTrack, SessionTypeOK, watchdog, protocol
<1>5. ASSUME NEW channel \in {"control", "message"}, HandleChannelOpen(channel)
      PROVE  CooldownIsOld' /\ WaitIsShort' /\ AboutToAsk' /\ Watched'
  BY <1>5 DEF HandleChannelOpen, SessionTypeOK, watchdog
<1>6. CASE EventsHandled
  BY <1>6 DEF EventsHandled, watchdog, protocol
<1>7. ASSUME NEW i \in Packet, ReceivePacket(i) PROVE FALSE
  BY <1>7 DEF ReceivePacket
<1>8. CASE HandshakeAck
  BY <1>8 DEF HandshakeAck, watchdog
<1>9. CASE DrainDecoder
  BY <1>9 DEF DrainDecoder, SessionTypeOK, watchdog, protocol
<1>10. CASE WatchFirstPacket
  <2>1. ~received
    BY <1>10 DEF WatchFirstPacket
  <2>2. QED
    BY <1>10, <2>1, WatchKeepsWatch
<1>11. CASE RequestKeyframe
  <2>1. ~received
    BY <1>11 DEF RequestKeyframe
  <2>2. QED
    BY <1>11, <2>1, RequestKeepsWatch
<1>12. CASE UNCHANGED sessionVars
  BY <1>12 DEF sessionVars, watchdog, protocol
<1>13. QED
  BY <1>1, <1>2, <1>3, <1>4, <1>5, <1>6, <1>7, <1>8, <1>9, <1>10, <1>11, <1>12
  DEF SessionNext, Pump

(* For any times with the cooldown no longer than the other two: however often    *)
(* the connection comes and goes and whenever the track or the control channel    *)
(* opens, a session without a packet goes on asking for its first picture.        *)
THEOREM PictureIsSought == SessionSpec => FirstPictureIsSought
<1>1. ASSUME SessionTypeOK, WatchInv, [SessionNext]_sessionVars,
             phase = "request", phase' = "idle", connected, ~received, CanAsk
      PROVE  quiet' < Patience
  <2>1. RequestKeyframe
    BY <1>1
    DEF SessionNext, Pump, sessionVars, Tick, BeginPump, ConnectionStateChange, OpenTrack,
        HandleChannelOpen, EventsHandled, ReceivePacket, HandshakeAck, DrainDecoder,
        WatchFirstPacket
  <2>2. CASE wanted
    BY <1>1, <2>1, <2>2, PatienceFacts DEF RequestKeyframe, WatchInv, AboutToAsk
  <2>3. CASE ~wanted
    BY <1>1, <2>1, <2>3, PatienceFacts, NoneIsNoAge
    DEF RequestKeyframe, SessionTypeOK, WatchInv, WaitIsShort, AboutToAsk, Watched
  <2>4. QED
    BY <2>2, <2>3
<1>2. SessionInit => Types /\ WatchInv
  BY TypesInit, WatchInvInit
<1>3. Types /\ WatchInv /\ [SessionNext]_sessionVars => Types' /\ WatchInv'
  BY TypesStep, WatchInvStep DEF Types
<1>4. Types /\ WatchInv /\ [SessionNext]_sessionVars =>
        [phase = "request" /\ phase' = "idle" /\ connected /\ ~received /\ CanAsk
           => quiet' < Patience]_sessionVars
  BY <1>1 DEF Types
<1>5. QED
  BY <1>2, <1>3, <1>4, PTL DEF SessionSpec, FirstPictureIsSought
--------------------------------------------------------------------------------
(* The introduction: each stage of the handshake has said just so much. *)

SaidSoFar ==
  \/ stage = "WaitingForChannels" /\ said = <<>>
  \/ stage = "WaitingForHandshakeAck" /\ said = <<"handshake">>
  \/ stage = "Ready" /\ said \in {Introduction, <<"handshake", "startup">>}

LEMMA SaidInOrder == SaidSoFar => IntroducedOnce
<1>1. ASSUME said \in {<<>>, <<"handshake">>} PROVE IntroducedOnce
  BY <1>1 DEF IntroducedOnce
<1>2. ASSUME said = Introduction PROVE IntroducedOnce
  BY <1>2 DEF IntroducedOnce, Before
<1>3. ASSUME said = <<"handshake", "startup">> PROVE IntroducedOnce
  <2>1. Before("handshake", "startup")
    <3>1. 1 \in DOMAIN Introduction /\ 4 \in DOMAIN Introduction
          /\ Introduction[1] = "handshake" /\ Introduction[4] = "startup"
      BY DEF Introduction
    <3>2. QED
      BY <3>1 DEF Before
  <2>2. QED
    BY <1>3, <2>1 DEF IntroducedOnce
<1>4. QED
  BY <1>1, <1>2, <1>3 DEF SaidSoFar

Message == {"handshake", "authorization", "gamepadChanged", "startup"}

LEMMA WithoutControl == Append(<<"handshake">>, "startup") = <<"handshake", "startup">>
<1>1. <<"handshake">> \in Seq(Message) /\ Len(<<"handshake">>) = 1 /\ "startup" \in Message
  BY DEF Message
<1>2. <<"handshake", "startup">> \in Seq(Message) /\ Len(<<"handshake", "startup">>) = 2
  BY DEF Message
<1>3. /\ Append(<<"handshake">>, "startup") \in Seq(Message)
      /\ Len(Append(<<"handshake">>, "startup")) = 2
      /\ Append(<<"handshake">>, "startup")[1] = "handshake"
      /\ Append(<<"handshake">>, "startup")[2] = "startup"
  BY <1>1, AppendProperties
<1>4. \A i \in 1..2 : Append(<<"handshake">>, "startup")[i] = <<"handshake", "startup">>[i]
  BY <1>3
<1>5. QED
  BY <1>2, <1>3, <1>4, SeqEqual

LEMMA WithControl == <<"handshake">> \o SubSeq(Introduction, 2, 4) = Introduction
<1>1. Introduction \in Seq(Message) /\ Len(Introduction) = 4
  BY DEF Message, Introduction
<1>2. <<"handshake">> \in Seq(Message) /\ Len(<<"handshake">>) = 1
  BY DEF Message
<1>3. \A i \in 2..4 : Introduction[i] \in Message
  BY DEF Introduction, Message
<1> DEFINE rest == SubSeq(Introduction, 2, 4)
<1>4. /\ rest \in Seq(Message) /\ Len(rest) = 3
      /\ \A i \in 1..3 : rest[i] = Introduction[i + 1]
  BY <1>3, SubSeqProperties
<1>5. /\ <<"handshake">> \o rest \in Seq(Message) /\ Len(<<"handshake">> \o rest) = 4
      /\ \A i \in 1..4 :
           (<<"handshake">> \o rest)[i] = IF i <= 1 THEN <<"handshake">>[i] ELSE rest[i - 1]
  BY <1>2, <1>4, ConcatProperties
<1>6. \A i \in 1..4 : (<<"handshake">> \o rest)[i] = Introduction[i]
  <2>1. Introduction[1] = "handshake"
    BY DEF Introduction
  <2>2. QED
    BY <1>4, <1>5, <2>1
<1>7. QED
  BY <1>1, <1>5, <1>6, SeqEqual

LEMMA SaidSoFarStep == SaidSoFar /\ [SessionNext]_sessionVars => SaidSoFar'
<1> SUFFICES ASSUME SaidSoFar, [SessionNext]_sessionVars PROVE SaidSoFar'
  OBVIOUS
<1>1. ASSUME NEW channel \in {"control", "message"}, HandleChannelOpen(channel)
      PROVE  SaidSoFar'
  <2>1. CASE stage = "WaitingForChannels" /\ channel = "message"
    <3>1. said = <<>> /\ Append(said, "handshake") = <<"handshake">>
      BY <2>1 DEF SaidSoFar
    <3>2. QED
      BY <1>1, <2>1, <3>1 DEF HandleChannelOpen, SaidSoFar
  <2>2. CASE ~(stage = "WaitingForChannels" /\ channel = "message")
    BY <1>1, <2>2 DEF HandleChannelOpen, SaidSoFar
  <2>3. QED
    BY <2>1, <2>2
<1>2. CASE HandshakeAck
  <2>1. said = <<"handshake">> /\ stage' = "Ready"
    BY <1>2 DEF HandshakeAck, Introduce, SaidSoFar
  <2>2. said' \in {Introduction, <<"handshake", "startup">>}
    BY <1>2, <2>1, WithControl, WithoutControl DEF HandshakeAck, Introduce
  <2>3. QED
    BY <2>1, <2>2 DEF SaidSoFar
<1>3. CASE ~HandshakeAck /\ ~(\E channel \in {"control", "message"} : HandleChannelOpen(channel))
  <2>1. UNCHANGED <<stage, said>>
    BY <1>3
    DEF SessionNext, Pump, sessionVars, protocol, Tick, BeginPump, ConnectionStateChange,
        OpenTrack, EventsHandled, ReceivePacket, DrainDecoder, WatchFirstPacket, RequestKeyframe
  <2>2. QED
    BY <2>1 DEF SaidSoFar
<1>4. QED
  BY <1>1, <1>2, <1>3

(* However often channels open and acknowledgements come, the server hears each   *)
(* part of the introduction at most once and in order.                            *)
THEOREM Introduced == SessionSpec => []IntroducedOnce
<1>1. SessionInit => SaidSoFar
  BY DEF SessionInit, SaidSoFar
<1>2. QED
  BY <1>1, SaidInOrder, SaidSoFarStep, PTL DEF SessionSpec
================================================================================
