-------------------------- MODULE AudioRenderer_proofs -------------------------
(***************************************************************************)
(* Proofs about AudioRenderer, for channels, queues and packets of any     *)
(* size: type correctness, that sound enough to start with is played, and  *)
(* that sound is heard in the order it was received.                       *)
(***************************************************************************)
EXTENDS AudioRenderer, TLAPS

\* The device is paused exactly while the renderer has not started.
PlayingInv ==
  /\ started <=> playing
  /\ ~started => Len(queue) < StartBuffer

\* A sequence of marks holds nothing received before the turn behind something received
\* after it.
Sorted(s) == \A i, j \in 1..Len(s) : i <= j /\ s[i] = "after" => s[j] = "after"
Has(s, mark) == \E i \in 1..Len(s) : s[i] = mark

\* The same of the batches, and the marks of the buffers.
BatchesSorted(b) ==
  \A i, j \in 1..Len(b) :
    /\ Sorted(b[i])
    /\ i < j /\ Has(b[i], "after") => ~Has(b[j], "before")
BatchesHave(b, mark) == \E i \in 1..Len(b) : Has(b[i], mark)
Marks(b) == [i \in 1..Len(b) |-> b[i].mark]
HandHas(mark) == hand # None /\ hand.mark = mark

\* Where sound received before the turn still is: up to each place on its way.
TurnHasBefore    == turn = "before"
GatherHasBefore  == TurnHasBefore \/ Has(gathered, "before")
BatchesHasBefore == GatherHasBefore \/ BatchesHave(batches, "before")
PendingHasBefore == BatchesHasBefore \/ Has(pending, "before")
PacketsHasBefore == PendingHasBefore \/ Has(packets, "before")
WorkerHasBefore  == PacketsHasBefore \/ HandHas("before")
BuffersHasBefore == WorkerHasBefore \/ Has(Marks(buffers), "before")
QueueHasBefore   == BuffersHasBefore \/ Has(queue, "before")

\* No place holds sound received after the turn when one that comes before it on the way
\* holds sound received before.
SortedInv ==
  /\ Sorted(gathered) /\ BatchesSorted(batches) /\ Sorted(pending)
  /\ Sorted(packets) /\ Sorted(Marks(buffers)) /\ Sorted(queue)
OrderInv ==
  /\ Has(gathered, "after") => ~TurnHasBefore
  /\ BatchesHave(batches, "after") => ~GatherHasBefore
  /\ Has(pending, "after") => ~BatchesHasBefore
  /\ Has(packets, "after") => ~PendingHasBefore
  /\ HandHas("after") => ~PacketsHasBefore
  /\ Has(Marks(buffers), "after") => ~WorkerHasBefore
  /\ Has(queue, "after") => ~BuffersHasBefore
  /\ heard = "after" => ~QueueHasBefore
--------------------------------------------------------------------------------
(* Sequences of marks. *)

(* Nothing is in an empty sequence. *)
LEMMA EmptyHas == Sorted(<<>>) /\ \A m \in Mark : ~Has(<<>>, m)
  BY DEF Sorted, Has

(* What a sequence holds with one more mark. *)
LEMMA AppendHas ==
  ASSUME NEW s \in Seq(Mark), NEW m \in Mark, NEW n \in Mark
  PROVE  /\ Append(s, m) \in Seq(Mark)
         /\ Has(Append(s, m), n) <=> Has(s, n) \/ m = n
<1> DEFINE t == Append(s, m)
<1>1. t \in Seq(Mark) /\ Len(t) = Len(s) + 1 /\ t[Len(s) + 1] = m
      /\ \A i \in 1..Len(s) : t[i] = s[i]
  OBVIOUS
<1>2. Has(s, n) \/ m = n => Has(t, n)
  <2>1. Len(s) + 1 \in 1..Len(t) /\ 1..Len(s) \subseteq 1..Len(t)
    BY <1>1
  <2>2. QED
    BY <1>1, <2>1 DEF Has
<1>3. Has(t, n) => Has(s, n) \/ m = n
  <2>1. \A i \in 1..Len(t) : i \in 1..Len(s) \/ i = Len(s) + 1
    BY <1>1
  <2>2. QED
    BY <1>1, <2>1 DEF Has
<1>4. QED
  BY <1>1, <1>2, <1>3

(* A mark may follow a sorted sequence unless it was received before one in it. *)
LEMMA AppendSorted ==
  ASSUME NEW s \in Seq(Mark), NEW m \in Mark, Sorted(s), Has(s, "after") => m = "after"
  PROVE  Sorted(Append(s, m))
<1> DEFINE t == Append(s, m)
<1>1. Len(t) = Len(s) + 1 /\ t[Len(s) + 1] = m /\ \A i \in 1..Len(s) : t[i] = s[i]
  OBVIOUS
<1>2. SUFFICES ASSUME NEW i \in 1..Len(t), NEW j \in 1..Len(t), i <= j, t[i] = "after"
               PROVE  t[j] = "after"
  BY DEF Sorted
<1>3. CASE j \in 1..Len(s)
  <2>1. i \in 1..Len(s)
    BY <1>2, <1>3
  <2>2. QED
    BY <1>1, <1>2, <1>3, <2>1 DEF Sorted
<1>4. CASE j = Len(s) + 1
  <2>1. CASE i = j
    BY <1>2, <2>1
  <2>2. CASE i # j
    <3>1. i \in 1..Len(s)
      BY <1>1, <1>2, <1>4, <2>2
    <3>2. Has(s, "after")
      BY <1>1, <1>2, <3>1 DEF Has
    <3>3. QED
      BY <1>1, <1>4, <3>2
  <2>3. QED
    BY <2>1, <2>2
<1>5. QED
  BY <1>1, <1>3, <1>4

(* The rest of a sequence holds nothing more, and all of it if its head is old. *)
LEMMA TailHas ==
  ASSUME NEW s \in Seq(Mark), s # <<>>
  PROVE  /\ Head(s) \in Mark /\ Tail(s) \in Seq(Mark) /\ Len(Tail(s)) = Len(s) - 1
         /\ Has(s, Head(s))
         /\ \A n \in Mark : Has(Tail(s), n) => Has(s, n)
         /\ Sorted(s) => Sorted(Tail(s))
         /\ Sorted(s) /\ Head(s) = "after" => ~Has(s, "before")
<1>1. Head(s) = s[1] /\ Len(s) \in Nat \ {0} /\ Head(s) \in Mark
  OBVIOUS
<1>2. Tail(s) \in Seq(Mark) /\ Len(Tail(s)) = Len(s) - 1
      /\ \A i \in 1..(Len(s) - 1) : Tail(s)[i] = s[i + 1]
  OBVIOUS
<1>3. \A i \in 1..(Len(s) - 1) : i + 1 \in 1..Len(s)
  BY <1>1
<1>4. \A n \in Mark : Has(Tail(s), n) => Has(s, n)
  BY <1>2, <1>3 DEF Has
<1>5. Has(s, Head(s))
  BY <1>1 DEF Has
<1>6. Sorted(s) => Sorted(Tail(s))
  BY <1>1, <1>2, <1>3 DEF Sorted
<1>7. Sorted(s) /\ Head(s) = "after" => ~Has(s, "before")
  BY <1>1 DEF Sorted, Has
<1>8. QED
  BY <1>1, <1>2, <1>4, <1>5, <1>6, <1>7

(* Two sequences in a row. *)
LEMMA ConcatHas ==
  ASSUME NEW s \in Seq(Mark), NEW t \in Seq(Mark)
  PROVE  /\ s \o t \in Seq(Mark) /\ Len(s \o t) = Len(s) + Len(t)
         /\ \A n \in Mark : Has(s \o t, n) <=> Has(s, n) \/ Has(t, n)
         /\ Sorted(s) /\ Sorted(t) /\ (Has(s, "after") => ~Has(t, "before")) => Sorted(s \o t)
<1> DEFINE u == s \o t
<1>1. /\ u \in Seq(Mark) /\ Len(u) = Len(s) + Len(t) /\ Len(s) \in Nat /\ Len(t) \in Nat
      /\ \A i \in 1..Len(s) : u[i] = s[i]
      /\ \A i \in 1..Len(t) : u[Len(s) + i] = t[i]
  OBVIOUS
<1>2. \A i \in 1..Len(u) : i \in 1..Len(s) \/ (i - Len(s) \in 1..Len(t) /\ i > Len(s))
  BY <1>1
<1>3. \A i \in 1..Len(t) : Len(s) + i \in 1..Len(u)
  BY <1>1
<1>4. \A i \in 1..Len(s) : i \in 1..Len(u)
  BY <1>1
<1>5. \A i \in 1..Len(u) : i \notin 1..Len(s) => u[i] = t[i - Len(s)]
  BY <1>1, <1>2
<1>6. ASSUME NEW n \in Mark PROVE Has(u, n) <=> Has(s, n) \/ Has(t, n)
  <2>1. Has(u, n) => Has(s, n) \/ Has(t, n)
    BY <1>1, <1>2, <1>5 DEF Has
  <2>2. Has(s, n) => Has(u, n)
    BY <1>1, <1>4 DEF Has
  <2>3. Has(t, n) => Has(u, n)
    BY <1>1, <1>3 DEF Has
  <2>4. QED
    BY <2>1, <2>2, <2>3
<1>7. ASSUME Sorted(s), Sorted(t), Has(s, "after") => ~Has(t, "before") PROVE Sorted(u)
  <2>1. SUFFICES ASSUME NEW i \in 1..Len(u), NEW j \in 1..Len(u), i <= j, u[i] = "after"
                 PROVE  u[j] = "after"
    BY DEF Sorted
  <2>2. CASE j \in 1..Len(s)
    <3>1. i \in 1..Len(s)
      BY <2>1, <2>2
    <3>2. QED
      BY <1>1, <1>7, <2>1, <2>2, <3>1 DEF Sorted
  <2>3. CASE j \notin 1..Len(s) /\ i \in 1..Len(s)
    <3>1. Has(s, "after")
      BY <1>1, <2>1, <2>3 DEF Has
    <3>2. u[j] = t[j - Len(s)] /\ j - Len(s) \in 1..Len(t)
      BY <1>2, <1>5, <2>3
    <3>3. t[j - Len(s)] \in Mark /\ t[j - Len(s)] # "before"
      BY <1>7, <3>1, <3>2 DEF Has
    <3>4. QED
      BY <3>2, <3>3 DEF Mark
  <2>4. CASE j \notin 1..Len(s) /\ i \notin 1..Len(s)
    <3>1. /\ u[j] = t[j - Len(s)] /\ j - Len(s) \in 1..Len(t)
          /\ u[i] = t[i - Len(s)] /\ i - Len(s) \in 1..Len(t)
      BY <1>2, <1>5, <2>4
    <3>2. i - Len(s) <= j - Len(s)
      BY <1>1, <2>1
    <3>3. QED
      BY <1>7, <2>1, <3>1, <3>2 DEF Sorted
  <2>5. QED
    BY <2>2, <2>3, <2>4
<1>8. QED
  BY <1>1, <1>6, <1>7

(* One more batch. *)
LEMMA BatchesAppend ==
  ASSUME NEW b \in Seq(Seq(Mark)), NEW s \in Seq(Mark)
  PROVE  /\ Append(b, s) \in Seq(Seq(Mark))
         /\ \A n \in Mark : BatchesHave(Append(b, s), n) <=> BatchesHave(b, n) \/ Has(s, n)
         /\ BatchesSorted(b) /\ Sorted(s) /\ (BatchesHave(b, "after") => ~Has(s, "before"))
              => BatchesSorted(Append(b, s))
<1> DEFINE c == Append(b, s)
<1>1. /\ c \in Seq(Seq(Mark)) /\ Len(b) \in Nat /\ Len(c) = Len(b) + 1
      /\ c[Len(b) + 1] = s /\ \A i \in 1..Len(b) : c[i] = b[i]
  OBVIOUS
<1>2. /\ \A i \in 1..Len(c) : i \in 1..Len(b) \/ i = Len(b) + 1
      /\ Len(b) + 1 \in 1..Len(c) /\ \A i \in 1..Len(b) : i \in 1..Len(c)
  BY <1>1
<1>3. ASSUME NEW n \in Mark PROVE BatchesHave(c, n) <=> BatchesHave(b, n) \/ Has(s, n)
  BY <1>1, <1>2, Zenon DEF BatchesHave
<1>4. ASSUME BatchesSorted(b), Sorted(s), BatchesHave(b, "after") => ~Has(s, "before")
      PROVE  BatchesSorted(c)
  <2>1. \A i \in 1..Len(c) : Sorted(c[i])
    BY <1>1, <1>2, <1>4 DEF BatchesSorted
  <2>2. ASSUME NEW i \in 1..Len(c), NEW j \in 1..Len(c), i < j, Has(c[i], "after")
        PROVE  ~Has(c[j], "before")
    <3>1. i \in 1..Len(b)
      BY <1>1, <1>2, <2>2
    <3>2. Has(b[i], "after")
      BY <1>1, <2>2, <3>1
    <3>3. CASE j \in 1..Len(b)
      BY <1>1, <1>4, <2>2, <3>1, <3>2, <3>3 DEF BatchesSorted
    <3>4. CASE j = Len(b) + 1
      <4>1. c[j] = s
        BY <1>1, <3>4
      <4>2. BatchesHave(b, "after")
        BY <3>1, <3>2 DEF BatchesHave
      <4>3. QED
        BY <1>4, <4>1, <4>2
    <3>5. QED
      BY <1>2, <3>3, <3>4
  <2>3. QED
    BY <2>1, <2>2 DEF BatchesSorted
<1>5. QED
  BY <1>1, <1>3, <1>4

(* The first batch, and the rest. *)
LEMMA BatchesTail ==
  ASSUME NEW b \in Seq(Seq(Mark)), b # <<>>
  PROVE  /\ Head(b) \in Seq(Mark) /\ Tail(b) \in Seq(Seq(Mark)) /\ Len(Tail(b)) = Len(b) - 1
         /\ \A n \in Mark : Has(Head(b), n) \/ BatchesHave(Tail(b), n) => BatchesHave(b, n)
         /\ BatchesSorted(b) =>
              /\ Sorted(Head(b)) /\ BatchesSorted(Tail(b))
              /\ Has(Head(b), "after") => ~BatchesHave(Tail(b), "before")
<1>1. /\ Len(b) \in Nat \ {0} /\ Head(b) = b[1] /\ Head(b) \in Seq(Mark)
      /\ Tail(b) \in Seq(Seq(Mark)) /\ Len(Tail(b)) = Len(b) - 1
      /\ \A i \in 1..(Len(b) - 1) : Tail(b)[i] = b[i + 1]
  OBVIOUS
<1>2. 1 \in 1..Len(b) /\ \A i \in 1..(Len(b) - 1) : i + 1 \in 1..Len(b) /\ 1 < i + 1
  BY <1>1
<1>3. \A n \in Mark : Has(Head(b), n) => BatchesHave(b, n)
  BY <1>1, <1>2, Zenon DEF BatchesHave
<1>4. \A n \in Mark : BatchesHave(Tail(b), n) => BatchesHave(b, n)
  BY <1>1, <1>2 DEF BatchesHave
<1>5. ASSUME BatchesSorted(b)
      PROVE  /\ Sorted(Head(b)) /\ BatchesSorted(Tail(b))
             /\ Has(Head(b), "after") => ~BatchesHave(Tail(b), "before")
  <2>1. Sorted(Head(b))
    BY <1>1, <1>2, <1>5 DEF BatchesSorted
  <2>2. ASSUME NEW i \in 1..Len(Tail(b)), NEW j \in 1..Len(Tail(b))
        PROVE  /\ Sorted(Tail(b)[i])
               /\ i < j /\ Has(Tail(b)[i], "after") => ~Has(Tail(b)[j], "before")
    <3>1. /\ i + 1 \in 1..Len(b) /\ j + 1 \in 1..Len(b) /\ (i < j => i + 1 < j + 1)
          /\ Tail(b)[i] = b[i + 1] /\ Tail(b)[j] = b[j + 1]
      BY <1>1, <1>2
    <3>2. QED
      BY <1>5, <3>1 DEF BatchesSorted
  <2>3. BatchesSorted(Tail(b))
    BY <2>2 DEF BatchesSorted
  <2>4. ASSUME Has(Head(b), "after"), NEW i \in 1..Len(Tail(b)) PROVE ~Has(Tail(b)[i], "before")
    <3>1. i + 1 \in 1..Len(b) /\ 1 < i + 1 /\ Tail(b)[i] = b[i + 1]
      BY <1>1, <1>2
    <3>2. QED
      BY <1>1, <1>2, <1>5, <2>4, <3>1 DEF BatchesSorted
  <2>5. QED
    BY <2>1, <2>3, <2>4 DEF BatchesHave
<1>6. QED
  BY <1>1, <1>3, <1>4, <1>5

(* The marks of buffers. *)
LEMMA MarksType ==
  ASSUME NEW b \in Seq(Samples)
  PROVE  /\ Marks(b) \in Seq(Mark) /\ Len(Marks(b)) = Len(b)
         /\ b # <<>> => /\ Marks(b) # <<>> /\ Head(Marks(b)) = Head(b).mark
                        /\ Marks(Tail(b)) = Tail(Marks(b))
         /\ \A x \in Samples : Marks(Append(b, x)) = Append(Marks(b), x.mark)
<1>1. /\ Len(b) \in Nat /\ DOMAIN b = 1..Len(b) /\ \A i \in 1..Len(b) : b[i] \in Samples
  OBVIOUS
<1>2. \A i \in 1..Len(b) : b[i].mark \in Mark
  BY <1>1 DEF Samples
<1>3. Marks(b) \in Seq(Mark) /\ Len(Marks(b)) = Len(b)
  BY <1>1, <1>2 DEF Marks
<1>4. ASSUME b # <<>> PROVE /\ Marks(b) # <<>> /\ Head(Marks(b)) = Head(b).mark
                           /\ Marks(Tail(b)) = Tail(Marks(b))
  <2>1. Len(b) # 0 /\ Head(b) = b[1]
    BY <1>1, <1>4
  <2>2. Marks(b) # <<>> /\ Head(Marks(b)) = Head(b).mark
    BY <1>1, <1>3, <2>1 DEF Marks
  <2>3. /\ Tail(b) \in Seq(Samples) /\ Len(Tail(b)) = Len(b) - 1
        /\ \A i \in 1..(Len(b) - 1) : Tail(b)[i] = b[i + 1]
    BY <1>4
  <2>4. /\ Tail(Marks(b)) \in Seq(Mark) /\ Len(Tail(Marks(b))) = Len(b) - 1
        /\ \A i \in 1..(Len(b) - 1) : Tail(Marks(b))[i] = Marks(b)[i + 1]
    BY <1>3, <2>2
  <2>5. \A i \in 1..(Len(b) - 1) : Marks(b)[i + 1] = b[i + 1].mark
    BY <1>1 DEF Marks
  <2>6. \A t \in Seq(Mark) : Len(t) = Len(b) - 1 => t = [i \in 1..(Len(b) - 1) |-> t[i]]
    OBVIOUS
  <2>7. Marks(Tail(b)) = [i \in 1..(Len(b) - 1) |-> Tail(b)[i].mark]
    BY <2>3 DEF Marks
  <2>8. QED
    BY <2>2, <2>3, <2>4, <2>5, <2>6, <2>7
<1>5. ASSUME NEW x \in Samples PROVE Marks(Append(b, x)) = Append(Marks(b), x.mark)
  <2>1. x.mark \in Mark
    BY DEF Samples
  <2>2. /\ Len(Append(b, x)) = Len(b) + 1 /\ Append(b, x)[Len(b) + 1] = x
        /\ \A i \in 1..Len(b) : Append(b, x)[i] = b[i]
    OBVIOUS
  <2>3. /\ Append(Marks(b), x.mark) \in Seq(Mark)
        /\ Len(Append(Marks(b), x.mark)) = Len(b) + 1
        /\ Append(Marks(b), x.mark)[Len(b) + 1] = x.mark
        /\ \A i \in 1..Len(b) : Append(Marks(b), x.mark)[i] = Marks(b)[i]
    BY <1>3, <2>1
  <2>4. \A i \in 1..(Len(b) + 1) : Append(Marks(b), x.mark)[i] = Append(b, x)[i].mark
    <3>1. \A i \in 1..Len(b) : Marks(b)[i] = b[i].mark
      BY DEF Marks
    <3>2. \A i \in 1..(Len(b) + 1) : i \in 1..Len(b) \/ i = Len(b) + 1
      BY <1>1
    <3>3. QED
      BY <2>2, <2>3, <3>1, <3>2
  <2>5. Append(Marks(b), x.mark) = [i \in 1..(Len(b) + 1) |-> Append(Marks(b), x.mark)[i]]
    BY <2>3
  <2>6. Marks(Append(b, x)) = [i \in 1..(Len(b) + 1) |-> Append(b, x)[i].mark]
    BY <2>2 DEF Marks
  <2>7. QED
    BY <2>4, <2>5, <2>6
<1>6. QED
  BY <1>3, <1>4, <1>5

(* Units of sound. *)
LEMMA UnitsHave ==
  ASSUME NEW m \in Mark, NEW size \in Nat
  PROVE  LET u == [i \in 1..size |-> m] IN
         /\ u \in Seq(Mark) /\ Len(u) = size /\ Sorted(u)
         /\ \A n \in Mark : Has(u, n) => n = m
  BY DEF Sorted, Has
--------------------------------------------------------------------------------
(* Type correctness, and that the device plays once enough is queued. *)

(* Channels and queues that are empty. *)
LEMMA EmptyType ==
  /\ <<>> \in Seq(Mark) /\ <<>> \in Seq(Seq(Mark)) /\ <<>> \in Seq(Samples) /\ Len(<<>>) = 0
  /\ 0 <= MaxGathered /\ 0 <= MaxBatches /\ 0 <= MaxPending /\ 0 <= MaxPackets
  /\ 0 <= MaxBuffers /\ 0 <= MaxQueued /\ 0 < StartBuffer
  BY LimitsAssumption

LEMMA TypeInit == Init => TypeOK /\ PlayingInv
<1> SUFFICES ASSUME Init PROVE TypeOK /\ PlayingInv
  OBVIOUS
<1>1. TypeOK
  BY EmptyType DEF Init, TypeOK, Mark
<1>2. PlayingInv
  BY EmptyType DEF Init, PlayingInv
<1>3. QED
  BY <1>1, <1>2

(* What is queued after samples arrive. *)
LEMMA QueuedType ==
  ASSUME TypeOK, QueueSamples
  PROVE  /\ queue' \in Seq(Mark) /\ Len(queue') <= MaxQueued
         /\ buffers # <<>> /\ Head(buffers) \in Samples
<1> DEFINE samples == Head(buffers)
           units == [i \in 1..samples.size |-> samples.mark]
           kept == IF Overflows(samples.size) THEN <<>> ELSE queue
<1>1. buffers # <<>> /\ samples \in Samples
  BY DEF TypeOK, QueueSamples
<1>2. samples.mark \in Mark /\ samples.size \in 1..MaxQueued /\ MaxQueued \in Nat
  BY <1>1, LimitsAssumption DEF Samples
<1>3. units \in Seq(Mark) /\ Len(units) = samples.size
  BY <1>2, UnitsHave
<1>4. kept \in Seq(Mark) /\ Len(kept) <= MaxQueued /\ Len(kept) + samples.size <= MaxQueued
  <2>1. CASE Overflows(samples.size)
    BY <1>2, <2>1
  <2>2. CASE ~Overflows(samples.size)
    BY <1>2, <2>2 DEF TypeOK, Overflows
  <2>3. QED
    BY <2>1, <2>2
<1> HIDE DEF units, kept
<1>5. kept \o units \in Seq(Mark) /\ Len(kept \o units) = Len(kept) + Len(units)
  BY <1>3, <1>4, ConcatHas
<1>6. queue' \in {kept \o units, kept}
  BY DEF QueueSamples, kept, units
<1>7. QED
  BY <1>1, <1>3, <1>4, <1>5, <1>6

(* A restart leaves a paused device, and a decoder that is new or as it was. *)
LEMMA RestartType ==
  ASSUME TypeOK, NEW first, first \in {<<>>} \cup {<<m>> : m \in Mark}, RestartDecodeWorker(first)
  PROVE  /\ packets' \in Seq(Mark) /\ Len(packets') <= MaxPackets
         /\ worker' \in {"idle", "sending", "dead"}
         /\ hand' \in Samples \cup {None} /\ (worker' = "sending" <=> hand' # None)
         /\ buffers' \in Seq(Samples) /\ Len(buffers') <= MaxBuffers
         /\ queue' = <<>> /\ queue' \in Seq(Mark) /\ Len(queue') <= MaxQueued
         /\ playing' = FALSE /\ started' = FALSE /\ heard' = heard
<1>1. first \in Seq(Mark) /\ Len(first) <= MaxPackets
  <2>1. CASE first = <<>>
    BY <2>1, EmptyType
  <2>2. ASSUME NEW m \in Mark, first = <<m>> PROVE first \in Seq(Mark) /\ Len(first) <= MaxPackets
    BY <2>2, LimitsAssumption
  <2>3. QED
    BY <2>1, <2>2
<1>2. CASE SpawnDecodeWorker(first)
  BY <1>1, <1>2, EmptyType DEF RestartDecodeWorker, SpawnDecodeWorker
<1>3. CASE UNCHANGED decoder
  BY <1>3, EmptyType DEF RestartDecodeWorker, TypeOK, decoder
<1>4. QED
  BY <1>2, <1>3, EmptyType DEF RestartDecodeWorker

LEMMA TypeStep == TypeOK /\ [Next]_vars => TypeOK'
<1> SUFFICES ASSUME TypeOK, [Next]_vars PROVE TypeOK'
  OBVIOUS
<1> USE LimitsAssumption DEF TypeOK, session, decoder, device
<1>1. CASE Turn
  BY <1>1 DEF Turn, Mark
<1>2. CASE Receive
  BY <1>2 DEF Receive
<1>3. CASE SendBatch
  BY <1>3 DEF SendBatch
<1>4. CASE DrainBatch
  <2>1. /\ pending \o Head(batches) \in Seq(Mark)
        /\ Len(pending \o Head(batches)) = Len(pending) + Len(Head(batches))
    BY <1>4, BatchesTail, ConcatHas DEF DrainBatch, MoreToDrain
  <2>2. batches' \in Seq(Seq(Mark)) /\ Len(batches') <= MaxBatches
    BY <1>4, BatchesTail DEF DrainBatch, MoreToDrain
  <2>3. QED
    BY <1>4, <2>1, <2>2 DEF DrainBatch, MoreToDrain
<1>5. CASE EventsDrained
  BY <1>5 DEF EventsDrained
<1>6. CASE EndStream
  BY <1>6, EmptyType DEF EndStream
<1>7. CASE StartStream
  BY <1>7 DEF StartStream
<1>8. CASE SubmitPackets
  BY <1>8 DEF SubmitPackets
<1>9. CASE SendPacket
  BY <1>9 DEF SendPacket
<1>10. CASE SendToDeadWorker
  <2>1. Head(pending) \in Mark /\ Tail(pending) \in Seq(Mark) /\ Len(Tail(pending)) <= MaxPending
    BY <1>10, TailHas DEF SendToDeadWorker
  <2>2. <<Head(pending)>> \in {<<m>> : m \in Mark}
    BY <2>1
  <2>3. RestartDecodeWorker(<<Head(pending)>>)
    BY <1>10 DEF SendToDeadWorker
  <2>4. QED
    BY <1>10, <2>1, <2>2, <2>3, RestartType DEF SendToDeadWorker
<1>11. CASE PacketsSent
  BY <1>11 DEF PacketsSent
<1>12. CASE QueueSamples
  <2>1. playing' \in BOOLEAN /\ started' \in BOOLEAN
    BY <1>12, Zenon DEF QueueSamples
  <2>2. buffers' \in Seq(Samples) /\ Len(buffers') <= MaxBuffers
    BY <1>12 DEF QueueSamples
  <2>3. QED
    BY <1>12, <2>1, <2>2, QueuedType DEF QueueSamples
<1>13. CASE NoMoreSamples
  <2>1. CASE worker = "dead"
    BY <1>13, <2>1, RestartType DEF NoMoreSamples
  <2>2. CASE worker # "dead"
    BY <1>13, <2>2 DEF NoMoreSamples
  <2>3. QED
    BY <2>1, <2>2
<1>14. CASE DecodePacket
  <2>1. Head(packets) \in Mark /\ Tail(packets) \in Seq(Mark) /\ Len(Tail(packets)) <= MaxPackets
    BY <1>14, TailHas DEF DecodePacket
  <2>2. ASSUME NEW size \in Duration
        PROVE  [mark |-> Head(packets), size |-> size] \in Samples \ {None}
    BY <2>1 DEF Samples
  <2>3. QED
    BY <1>14, <2>1, <2>2 DEF DecodePacket
<1>15. CASE SendSamples
  BY <1>15 DEF SendSamples
<1>16. CASE WorkerPanics
  BY <1>16 DEF WorkerPanics
<1>17. CASE Play
  BY <1>17, TailHas DEF Play
<1>18. CASE UNCHANGED vars
  BY <1>18 DEF vars
<1>19. QED
  BY <1>1, <1>2, <1>3, <1>4, <1>5, <1>6, <1>7, <1>8, <1>9, <1>10, <1>11, <1>12, <1>13, <1>14,
     <1>15, <1>16, <1>17, <1>18 DEF Next, RtcStep, UiStep, WorkerStep

(* Only submit_packets, a restart and the device itself touch the queue. *)
LEMMA PlayingStep == TypeOK /\ PlayingInv /\ [Next]_vars => PlayingInv'
<1> SUFFICES ASSUME TypeOK, PlayingInv, [Next]_vars PROVE PlayingInv'
  OBVIOUS
<1> USE DEF PlayingInv, device
<1>1. CASE UNCHANGED device
  BY <1>1
<1>2. CASE SubmitPackets
  BY <1>2, LimitsAssumption DEF SubmitPackets
<1>3. ASSUME NEW first, RestartDecodeWorker(first) PROVE PlayingInv'
  BY <1>3, LimitsAssumption DEF RestartDecodeWorker
<1>4. CASE QueueSamples
  <2>1. queue' \in Seq(Mark) /\ StartBuffer \in Nat
    BY <1>4, QueuedType, LimitsAssumption
  <2>2. (started' <=> playing') /\ (~started' => ~Enough(Len(queue')))
    BY <1>4, Zenon DEF QueueSamples
  <2>3. QED
    BY <2>1, <2>2 DEF Enough
<1>5. CASE Play
  BY <1>5, TailHas DEF Play, TypeOK
<1>6. QED
  BY <1>1, <1>2, <1>3, <1>4, <1>5
  DEF Next, RtcStep, UiStep, WorkerStep, vars, Turn, Receive, SendBatch, DrainBatch,
      EventsDrained, EndStream, StartStream, SendPacket, SendToDeadWorker, PacketsSent,
      NoMoreSamples, DecodePacket, SendSamples, WorkerPanics

(* The sizes of all channels and queues stay within their limits: "150ms max       *)
(* queue" (audio.rs), whatever arrives at once after a stall.                     *)
THEOREM TypeCorrect == Safety => []TypeOK
  BY TypeInit, TypeStep, PTL DEF Safety

(* Sound enough to start with is played, whatever was cleared, refused or          *)
(* restarted before (submit_packets).                                             *)
THEOREM PlaysEnough == Safety => []EnoughIsPlayed
<1>1. PlayingInv => EnoughIsPlayed
  BY DEF PlayingInv, EnoughIsPlayed
<1>2. QED
  BY <1>1, TypeInit, TypeStep, PlayingStep, PTL DEF Safety
--------------------------------------------------------------------------------
(* Sound is heard in the order it was received. *)

InOrder == SortedInv /\ OrderInv

\* Empty channels and queues.
LEMMA EmptyOrdered ==
  /\ Sorted(<<>>) /\ BatchesSorted(<<>>) /\ Marks(<<>>) = <<>>
  /\ \A m \in Mark : ~Has(<<>>, m) /\ ~BatchesHave(<<>>, m)
  BY DEF Sorted, Has, BatchesSorted, BatchesHave, Marks

LEMMA OrderInit == Init => InOrder
  BY EmptyOrdered
  DEF Init, InOrder, SortedInv, OrderInv, HandHas, Mark, TurnHasBefore, GatherHasBefore,
      BatchesHasBefore, PendingHasBefore, PacketsHasBefore, WorkerHasBefore, BuffersHasBefore,
      QueueHasBefore

(* A sequence of one mark. *)
LEMMA SingleHas ==
  ASSUME NEW m \in Mark
  PROVE  Sorted(<<m>>) /\ \A n \in Mark : Has(<<m>>, n) <=> n = m
  BY DEF Sorted, Has

(* A step that gives the decoder nothing but the head of pending, and drops what the  *)
(* others hold, keeps the order.                                                      *)
LEMMA RestartOrdered ==
  ASSUME TypeOK, InOrder, UNCHANGED session, NEW first, RestartDecodeWorker(first),
         \/ first = <<>> /\ pending' = pending
         \/ pending # <<>> /\ first = <<Head(pending)>> /\ pending' = Tail(pending)
  PROVE  InOrder'
<1> USE DEF InOrder, SortedInv, OrderInv, TurnHasBefore, GatherHasBefore, BatchesHasBefore,
            PendingHasBefore, PacketsHasBefore, WorkerHasBefore, BuffersHasBefore,
            QueueHasBefore, Mark, session
<1>1. queue' = <<>> /\ heard' = heard
  BY DEF RestartDecodeWorker
<1>2. /\ Sorted(pending') /\ (Has(pending', "before") => Has(pending, "before"))
      /\ (Has(pending', "after") => Has(pending, "after"))
  <2>1. CASE pending' = pending
    BY <2>1
  <2>2. CASE pending # <<>> /\ pending' = Tail(pending)
    BY <2>2, TailHas DEF TypeOK
  <2>3. QED
    BY <2>1, <2>2
<1>3. CASE UNCHANGED decoder
  BY <1>1, <1>2, <1>3, EmptyOrdered DEF decoder, HandHas
<1>4. CASE SpawnDecodeWorker(first)
  <2>1. packets' = first /\ buffers' = <<>> /\ hand' = None
    BY <1>4 DEF SpawnDecodeWorker
  <2>2. /\ Sorted(first) /\ (Has(first, "before") => Has(pending, "before"))
        /\ (Has(first, "after") => Has(pending, "after") /\ ~Has(pending, "before"))
    <3>1. CASE first = <<>>
      BY <3>1, EmptyOrdered
    <3>2. CASE pending # <<>> /\ first = <<Head(pending)>>
      <4>1. /\ Head(pending) \in Mark /\ Has(pending, Head(pending))
            /\ Head(pending) = "after" => ~Has(pending, "before")
        BY <3>2, TailHas DEF TypeOK
      <4>2. QED
        BY <3>2, <4>1, SingleHas
    <3>3. QED
      BY <3>1, <3>2
  <2>3. QED
    BY <1>1, <1>2, <2>1, <2>2, EmptyOrdered DEF HandHas
<1>5. QED
  BY <1>3, <1>4 DEF RestartDecodeWorker

LEMMA OrderStep == TypeOK /\ InOrder /\ [Next]_vars => InOrder'
<1> SUFFICES ASSUME TypeOK, InOrder, [Next]_vars PROVE InOrder'
  OBVIOUS
<1> USE DEF InOrder, SortedInv, OrderInv, TurnHasBefore, GatherHasBefore, BatchesHasBefore,
            PendingHasBefore, PacketsHasBefore, WorkerHasBefore, BuffersHasBefore,
            QueueHasBefore, Mark
<1>1. CASE Turn
  BY <1>1 DEF Turn, decoder, device, HandHas
<1>2. CASE Receive
  <2>1. Sorted(gathered') /\ \A n \in Mark : Has(gathered', n) <=> Has(gathered, n) \/ turn = n
    BY <1>2, AppendHas, AppendSorted DEF Receive, TypeOK
  <2>2. QED
    BY <1>2, <2>1 DEF Receive, decoder, device, HandHas, TypeOK
<1>3. CASE SendBatch
  <2>1. /\ BatchesSorted(batches')
        /\ \A n \in Mark :
             BatchesHave(batches', n) => BatchesHave(batches, n) \/ Has(gathered, n)
    BY <1>3, BatchesAppend DEF SendBatch, TypeOK
  <2>2. QED
    BY <1>3, <2>1, EmptyOrdered DEF SendBatch, decoder, device, HandHas
<1>4. CASE DrainBatch
  <2>1. /\ BatchesSorted(batches')
        /\ \A n \in Mark : BatchesHave(batches', n) => BatchesHave(batches, n)
        /\ \A n \in Mark : Has(Head(batches), n) => BatchesHave(batches, n)
        /\ Sorted(Head(batches)) /\ Head(batches) \in Seq(Mark)
        /\ Has(Head(batches), "after") => ~BatchesHave(batches', "before")
    BY <1>4, BatchesTail DEF DrainBatch, MoreToDrain, TypeOK
  <2>2. /\ Sorted(pending')
        /\ \A n \in Mark : Has(pending', n) <=> Has(pending, n) \/ Has(Head(batches), n)
    BY <1>4, <2>1, ConcatHas DEF DrainBatch, TypeOK
  <2>3. QED
    BY <1>4, <2>1, <2>2 DEF DrainBatch, decoder, device, HandHas
<1>5. CASE EndStream
  BY <1>5, EmptyOrdered DEF EndStream, decoder, device, HandHas
<1>6. CASE SubmitPackets
  BY <1>6 DEF SubmitPackets, session, decoder, HandHas
<1>7. CASE SendPacket
  <2>1. /\ Sorted(pending') /\ Has(pending, Head(pending)) /\ Head(pending) \in Mark
        /\ \A n \in Mark : Has(pending', n) => Has(pending, n)
        /\ Head(pending) = "after" => ~Has(pending, "before")
    BY <1>7, TailHas DEF SendPacket, TypeOK
  <2>2. /\ Sorted(packets')
        /\ \A n \in Mark : Has(packets', n) => Has(packets, n) \/ n = Head(pending)
    BY <1>7, <2>1, AppendHas, AppendSorted DEF SendPacket, TypeOK
  <2>3. QED
    BY <1>7, <2>1, <2>2 DEF SendPacket, session, device, HandHas
<1>8. CASE SendToDeadWorker
  BY <1>8, RestartOrdered DEF SendToDeadWorker
<1>9. CASE QueueSamples
  <2> DEFINE samples == Head(buffers)
             units == [i \in 1..samples.size |-> samples.mark]
             kept == IF Overflows(samples.size) THEN <<>> ELSE queue
  <2>1. samples \in Samples /\ samples.mark \in Mark /\ samples.size \in Nat
    <3>1. samples \in Samples
      BY <1>9, QueuedType
    <3>2. \A x \in Samples : x.mark \in Mark /\ x.size \in Duration
      BY DEF Samples
    <3>3. Duration \subseteq Nat
      BY LimitsAssumption
    <3>4. QED
      BY <3>1, <3>2, <3>3
  <2>2. /\ Sorted(Marks(buffers')) /\ Has(Marks(buffers), samples.mark)
        /\ \A n \in Mark : Has(Marks(buffers'), n) => Has(Marks(buffers), n)
        /\ samples.mark = "after" => ~Has(Marks(buffers), "before")
    <3>1. buffers # <<>> /\ buffers' = Tail(buffers) /\ buffers \in Seq(Samples)
      BY <1>9 DEF QueueSamples, TypeOK
    <3>2. /\ Marks(buffers) \in Seq(Mark) /\ Marks(buffers) # <<>>
          /\ Head(Marks(buffers)) = samples.mark /\ Marks(buffers') = Tail(Marks(buffers))
      BY <3>1, MarksType
    <3>3. QED
      BY <3>2, TailHas
  <2>3. /\ units \in Seq(Mark) /\ Sorted(units)
        /\ \A n \in Mark : Has(units, n) => n = samples.mark
    BY <2>1, UnitsHave
  <2>4. kept \in Seq(Mark) /\ Sorted(kept) /\ \A n \in Mark : Has(kept, n) => Has(queue, n)
    BY EmptyOrdered, EmptyType DEF TypeOK
  <2>5. queue' \in {kept \o units, kept}
    BY <1>9 DEF QueueSamples
  <2> HIDE DEF samples, units, kept
  <2>6. /\ Sorted(queue')
        /\ \A n \in Mark : Has(queue', n) => Has(queue, n) \/ n = samples.mark
    <3>1. Has(kept, "after") => ~Has(units, "before")
      BY <2>2, <2>3, <2>4
    <3>2. /\ Sorted(kept \o units)
          /\ \A n \in Mark : Has(kept \o units, n) <=> Has(kept, n) \/ Has(units, n)
      BY <2>3, <2>4, <3>1, ConcatHas
    <3>3. QED
      BY <2>3, <2>4, <2>5, <3>2
  <2>7. UNCHANGED <<session, pending, packets, hand, heard>>
    BY <1>9 DEF QueueSamples
  <2>8. QED
    BY <2>1, <2>2, <2>6, <2>7 DEF session, HandHas
<1>10. CASE NoMoreSamples
  <2>1. CASE worker = "dead"
    BY <1>10, <2>1, RestartOrdered DEF NoMoreSamples
  <2>2. CASE worker # "dead"
    BY <1>10, <2>2 DEF NoMoreSamples, session, decoder, device, HandHas
  <2>3. QED
    BY <2>1, <2>2
<1>11. CASE DecodePacket
  <2>1. /\ Sorted(packets') /\ Has(packets, Head(packets)) /\ Head(packets) \in Mark
        /\ \A n \in Mark : Has(packets', n) => Has(packets, n)
        /\ Head(packets) = "after" => ~Has(packets, "before")
    BY <1>11, TailHas DEF DecodePacket, TypeOK
  <2>2. \A n \in Mark : HandHas(n)' => n = Head(packets)
    BY <1>11 DEF DecodePacket, HandHas, TypeOK
  <2>3. QED
    BY <1>11, <2>1, <2>2 DEF DecodePacket, session, device
<1>12. CASE SendSamples
  <2>1. hand \in Samples /\ hand.mark \in Mark /\ HandHas(hand.mark)
    BY <1>12 DEF SendSamples, TypeOK, Samples, HandHas
  <2>2. /\ Marks(buffers) \in Seq(Mark) /\ Marks(buffers') = Append(Marks(buffers), hand.mark)
    BY <1>12, <2>1, MarksType DEF SendSamples, TypeOK
  <2>3. /\ Sorted(Marks(buffers'))
        /\ \A n \in Mark : Has(Marks(buffers'), n) <=> Has(Marks(buffers), n) \/ n = hand.mark
    BY <2>1, <2>2, AppendHas, AppendSorted
  <2>4. QED
    BY <1>12, <2>1, <2>3 DEF SendSamples, session, device, HandHas
<1>13. CASE WorkerPanics
  BY <1>13, EmptyOrdered DEF WorkerPanics, session, device, HandHas
<1>14. CASE Play
  <2>1. /\ Sorted(queue') /\ Has(queue, heard') /\ heard' \in Mark
        /\ \A n \in Mark : Has(queue', n) => Has(queue, n)
        /\ heard' = "after" => ~Has(queue, "before")
    BY <1>14, TailHas DEF Play, TypeOK
  <2>2. QED
    BY <1>14, <2>1 DEF Play, session, decoder, HandHas
<1>15. CASE UNCHANGED vars \/ EventsDrained \/ StartStream \/ PacketsSent
  BY <1>15 DEF vars, EventsDrained, StartStream, PacketsSent, session, decoder, device, HandHas
<1>16. QED
  BY <1>1, <1>2, <1>3, <1>4, <1>5, <1>6, <1>7, <1>8, <1>9, <1>10, <1>11, <1>12, <1>13, <1>14,
     <1>15 DEF Next, RtcStep, UiStep, WorkerStep

(* Whatever the channels drop, and over overflows, restarts and sessions, no sound is *)
(* heard after sound that was received later (streaming/audio.rs, rtc/worker.rs).     *)
THEOREM HeardInOrder == Safety => SoundInOrder
<1>1. TypeOK /\ InOrder /\ [Next]_vars => [heard = "after" => heard' = "after"]_vars
  <2> SUFFICES ASSUME TypeOK, InOrder, Next, heard = "after" PROVE heard' = "after"
    BY DEF vars, device
  <2>1. CASE Play
    <3>1. ~Has(queue, "before") /\ Has(queue, heard') /\ heard' \in Mark
      BY <2>1, TailHas DEF Play, TypeOK, InOrder, OrderInv, QueueHasBefore
    <3>2. QED
      BY <3>1 DEF Mark
  <2>2. CASE ~Play
    BY <2>2
    DEF Next, RtcStep, UiStep, WorkerStep, device, Turn, Receive, SendBatch, DrainBatch,
        EventsDrained, EndStream, StartStream, SubmitPackets, SendPacket, SendToDeadWorker,
        RestartDecodeWorker, PacketsSent, QueueSamples, NoMoreSamples, DecodePacket,
        SendSamples, WorkerPanics
  <2>3. QED
    BY <2>1, <2>2
<1>2. QED
  BY <1>1, TypeInit, TypeStep, OrderInit, OrderStep, PTL DEF Safety, SoundInOrder
================================================================================
