-------------------------------- MODULE VideoRtp --------------------------------
(***************************************************************************)
(* The reassembly of access units from RTP packets (api/streaming/rtc/     *)
(* rtp.rs, VideoRtp::receive up to inspect_h264_access_unit).  What        *)
(* becomes of a complete unit, and of the damage recorded here, is in      *)
(* module VideoDecode.                                                     *)
(*                                                                         *)
(* The server sends the packets of Stream in order; the network delivers   *)
(* any of them at any time, as often as it likes or never.  The receiver   *)
(* sees their sequence numbers and timestamps, which wrap around, never    *)
(* their places in Stream.  Payloads are left out, but for whether one is  *)
(* empty, whether it begins a NAL unit, and which frames cannot be         *)
(* depacketized or are too long.                                           *)
(***************************************************************************)
EXTENDS Integers, Sequences, FiniteSets

CONSTANTS
  Stream,     \* the packets sent: [frame, head, empty]
  Unusable,   \* the frames whose depacketization fails
  FirstSeq,   \* the sequence number of the first packet
  SeqWidth,   \* 2^16
  FirstTime,  \* the timestamp of frame 0
  TimeWidth,  \* 2^32
  None        \* no sequence number, no timestamp

Packet == DOMAIN Stream
Full == {i \in Packet : ~Stream[i].empty}
Frame == {Stream[i].frame : i \in Full}
Packets == [f \in Frame |-> {i \in Full : Stream[i].frame = f}]
IsFirst(i) == \A j \in Packets[Stream[i].frame] : i <= j

ASSUME StreamAssumption ==
  /\ Stream \in Seq([frame : Nat, head : BOOLEAN, empty : BOOLEAN])
  /\ \A i, j \in Packet : i <= j => Stream[i].frame <= Stream[j].frame
  /\ \A i \in Full : IsFirst(i) => Stream[i].head
  /\ Frame = 1..Cardinality(Frame) /\ Unusable \subseteq Frame
  /\ {SeqWidth, TimeWidth} \subseteq Nat
  /\ FirstSeq \in 0..(SeqWidth - 1) /\ FirstTime \in 0..(TimeWidth - 1)
  /\ 2 * Len(Stream) <= SeqWidth /\ 2 * Cardinality(Frame) < TimeWidth
  /\ None \notin Nat

VARIABLES
  pending,    \* PendingVideoFrame.packets
  expected,   \* next_sequence
  last,       \* last_frame_timestamp
  unit,       \* history: the packets of the last unit that was completed
  units,      \* history: how many were
  known,      \* history: next_sequence was known when it was
  settled,    \* history: the frame last completed, given up or unusable
  requested   \* history: keyframe_requested was set since the last unit, or with it

receiver == <<pending, expected, last>>
history  == <<unit, units, known, settled, requested>>
vars == <<receiver, history>>

Init ==
  /\ pending = {} /\ expected = None /\ last = None
  /\ unit = {} /\ units = 0 /\ known = FALSE /\ settled = 0 /\ requested = FALSE
--------------------------------------------------------------------------------
(* Sequence numbers and timestamps. *)

SeqOf(i) == (FirstSeq + i) % SeqWidth
Following(i) == (SeqOf(i) + 1) % SeqWidth
Time(i) == (FirstTime + Stream[i].frame) % TimeWidth
Marker == [i \in Full |-> \A j \in Packets[Stream[i].frame] : j <= i]

\* timestamp_is_newer.
NewerOrSame(t, u) == (t - u) % TimeWidth < TimeWidth \div 2
Newer(t, u) == LET distance == (t - u) % TimeWidth IN distance # 0 /\ distance < TimeWidth \div 2

FrameOf(packets) == IF packets = {} THEN 0 ELSE Stream[CHOOSE i \in packets : TRUE].frame
PendingTime == Time(CHOOSE i \in pending : TRUE)
--------------------------------------------------------------------------------
(* receive: a packet that is not empty and not late. *)

\* A packet of a newer frame than the pending one: that is given up.
GivesUp(i) == pending # {} /\ Time(i) # PendingTime /\ Newer(Time(i), PendingTime)
Late(i) ==
  IF pending # {} THEN Time(i) # PendingTime /\ ~Newer(Time(i), PendingTime)
                  ELSE last # None /\ ~Newer(Time(i), last)

\* The packets held once it has arrived: insert drops a repeated sequence number.
Held(i) == (IF GivesUp(i) THEN {} ELSE pending) \cup {i}

\* What is expected then: the packet after the marker of a frame given up, if it came.
Expected(i) ==
  IF ~GivesUp(i) THEN expected
  ELSE IF \E m \in pending : Marker[m] THEN Following(CHOOSE m \in pending : Marker[m])
  ELSE None

\* PendingVideoFrame::assemble: with the marker, from the expected packet or, if none is,
\* one that begins a NAL unit, without a hole.
BehindUnwrapped(m, i) == SeqOf(m) - SeqOf(i)
Behind(m, i) == (SeqOf(m) - SeqOf(i)) % SeqWidth
GapIgnored(m, packets) == TRUE
Gapless(m, packets) == {Behind(m, i) : i \in packets} = 0..(Cardinality(packets) - 1)
Assembled(i) ==
  \E m \in Held(i) :
    /\ Marker[m] /\ Gapless(m, Held(i))
    /\ \E first \in Held(i) :
         /\ \A j \in Held(i) : Behind(m, j) <= Behind(m, first)
         /\ Stream[first].head
         /\ Expected(i) \in {None, SeqOf(first)}
--------------------------------------------------------------------------------
(* receive. *)

\* An empty packet moves the expected sequence number on.
ReceivePadding(i) ==
  /\ Stream[i].empty
  /\ expected' = IF expected = SeqOf(i) THEN Following(i) ELSE expected
  /\ UNCHANGED <<pending, last, history>>

IgnoreLate(i) ==
  /\ i \in Full /\ Late(i)
  /\ UNCHANGED vars

\* record_damage and a keyframe request for a frame given up.
NoteDamage(i) ==
  /\ requested' = (requested \/ GivesUp(i))
  /\ settled' = IF GivesUp(i) THEN FrameOf(pending) ELSE settled

\* FrameAssembly::Pending.
Collect(i) ==
  /\ i \in Full /\ ~Late(i) /\ ~Assembled(i)
  /\ pending' = Held(i) /\ expected' = Expected(i)
  /\ NoteDamage(i)
  /\ UNCHANGED <<last, unit, units, known>>

\* FrameAssembly::Complete.
CompleteForgetful(i) ==
  /\ i \in Full /\ ~Late(i) /\ Assembled(i) /\ Stream[i].frame \notin Unusable
  /\ pending' = {} /\ expected' = None
  /\ last' = Time(i)
  /\ unit' = Held(i) /\ units' = units + 1 /\ known' = (Expected(i) # None)
  /\ settled' = Stream[i].frame /\ requested' = GivesUp(i)
Complete(i) ==
  /\ i \in Full /\ ~Late(i) /\ Assembled(i) /\ Stream[i].frame \notin Unusable
  /\ pending' = {} /\ expected' = Following(CHOOSE m \in Held(i) : Marker[m])
  /\ last' = Time(i)
  /\ unit' = Held(i) /\ units' = units + 1 /\ known' = (Expected(i) # None)
  /\ settled' = Stream[i].frame /\ requested' = GivesUp(i)

\* FrameAssembly::Invalid.
Discard(i) ==
  /\ i \in Full /\ ~Late(i) /\ Assembled(i) /\ Stream[i].frame \in Unusable
  /\ pending' = {} /\ expected' = None
  /\ settled' = Stream[i].frame /\ requested' = TRUE
  /\ UNCHANGED <<last, unit, units, known>>

Receive(i) ==
  ReceivePadding(i) \/ IgnoreLate(i) \/ Collect(i) \/ Complete(i) \/ Discard(i)
Next == \E i \in Packet : Receive(i)
Spec == Init /\ [][Next]_vars
--------------------------------------------------------------------------------
TypeOK ==
  /\ pending \subseteq Full /\ unit \subseteq Full /\ units \in Nat
  /\ expected \in 0..(SeqWidth - 1) \cup {None} /\ last \in 0..(TimeWidth - 1) \cup {None}
  /\ settled \in Frame \cup {0}
  /\ known \in BOOLEAN /\ requested \in BOOLEAN

(* However packets are lost, repeated and reordered, and wherever the numbers     *)
(* wrap, what is handed on is one frame the server sent, from a NAL unit's        *)
(* beginning to its marker; and all of it, unless the packet before it is unknown *)
(* after damage or at the start (PendingVideoFrame::assemble).                    *)
UnitIsWhole ==
  unit # {} =>
    LET f == FrameOf(unit) IN
    /\ unit \subseteq Packets[f]
    /\ known => unit = Packets[f]
    /\ \E i \in unit : Stream[i].head /\ unit = {j \in Packets[f] : i <= j}

(* Frames are handed on in the order they were sent in, each once: packets that   *)
(* come late or twice start no frame again, not even the last one when nothing is *)
(* known of the packet that should follow it (VideoRtp::receive,                  *)
(* timestamp_is_newer).                                                           *)
UnitsInOrder == [][units' # units => FrameOf(unit') > FrameOf(unit)]_vars

(* Once the stream has begun no frame is skipped, and none handed on without its  *)
(* beginning, but after a keyframe request: the decoder never misses a reference  *)
(* unnoticed (VideoRtp::receive).                                                 *)
FollowsOn(whole, before) ==
  LET f == FrameOf(whole) IN f = FrameOf(before) + 1 /\ whole = Packets[f]
GapIsNoticed ==
  [][units' # units /\ unit # {} => FollowsOn(unit', unit) \/ requested \/ requested']_vars

(* A frame of which every packet has come is held up only if nothing of the frame *)
(* before it was seen, or padding was sent within it or came out of turn between  *)
(* the two (VideoRtp::receive, PendingVideoFrame::assemble).                      *)
Padded(f) ==
  \E i \in Packet : /\ Stream[i].empty
                    /\ \A j \in Full : Stream[j].frame < f => j < i
                    /\ \E m \in Packets[f] : i < m
IntactFrameCompletes ==
  \A f \in Frame : pending = Packets[f] /\ ~Padded(f) => settled # f - 1
================================================================================
