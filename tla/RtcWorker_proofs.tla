---------------------------- MODULE RtcWorker_proofs ---------------------------
(***************************************************************************)
(* Proofs about RtcWorker, for any candidates and channels of any size:    *)
(* type correctness, that a candidate crosses at most once, either way,    *)
(* that none is mislaid and an end is always reported, and that the size   *)
(* announced last is shown.                                                *)
(***************************************************************************)
EXTENDS RtcWorker, TLAPS

\* A local candidate travels in the batch of an event.
Holds(s, l) == \E i \in 1..Len(s) : l \in Batch(s[i])
HeldOnce(s, l) == \A i, j \in 1..Len(s) : l \in Batch(s[i]) /\ l \in Batch(s[j]) => i = j

\* Between two rounds all events have been sent.
OutboxInv == rtc \in {"negotiating", "commands", "pump"} => outbox = <<>>

\* A remote candidate that was sent or added is remembered, and sent once.
RemoteInv ==
  \A c \in Remote :
    /\ added[c] <= 1
    /\ added[c] > 0 => c \in seen /\ \A i \in 1..Len(commands) : commands[i] # c
    /\ (\E i \in 1..Len(commands) : commands[i] = c) => c \in seen
    /\ \A i, j \in 1..Len(commands) : commands[i] = c /\ commands[j] = c => i = j

\* A gathered candidate is in one place only, until it has been posted.
InPost(l) == postJob = "flight" /\ l \in posting
LocalInv ==
  \A l \in Local :
    /\ HeldOnce(outbox, l) /\ HeldOnce(events, l)
    /\ Holds(outbox, l) => ~Holds(events, l) /\ l \notin pendingIce /\ ~InPost(l) /\ posted[l] = 0
    /\ Holds(events, l) => l \notin pendingIce /\ ~InPost(l) /\ posted[l] = 0
    /\ l \in pendingIce => ~InPost(l) /\ posted[l] = 0
    /\ InPost(l) => posted[l] = 0
    /\ posted[l] <= 1
    /\ l \notin gathered => ~Holds(outbox, l) /\ ~Holds(events, l) /\ l \notin pendingIce
                            /\ ~InPost(l) /\ posted[l] = 0
--------------------------------------------------------------------------------
(* Events, and sequences of them. *)

LEMMA EventFields ==
  /\ \A e \in Event : /\ Batch(e) \subseteq Local /\ Carried(e) \subseteq Local \cup Sizes
                      /\ Superseded(e) \subseteq Local \cup Sizes
                      /\ e.type # "resolution" => Superseded(e) \subseteq Local
                      /\ e.type = "resolution" => Superseded(e) = Sizes
                      /\ e.type = "resolution" => e.size \in Sizes
  /\ [type |-> "status"] \in Event /\ [type |-> "closed"] \in Event /\ [type |-> "error"] \in Event
  /\ \A b \in SUBSET Local : [type |-> "local", batch |-> b] \in Event
  /\ \A z \in Sizes : [type |-> "resolution", size |-> z] \in Event
  BY DEF Event, Batch, Carried, Superseded

LEMMA EmptyChannels ==
  /\ <<>> \in Seq(Event) /\ <<>> \in Seq(Remote \cup {"pointer", "stop"}) /\ Len(<<>>) = 0
  /\ 0 <= CommandCap /\ 0 <= EventCap
  /\ \A l \in Local : ~Holds(<<>>, l) /\ HeldOnce(<<>>, l)
  BY CapsAssumption DEF Holds, HeldOnce

(* An event of one's own. *)
LEMMA SingleHolds ==
  ASSUME NEW e \in Event, NEW l \in Local
  PROVE  <<e>> \in Seq(Event) /\ (Holds(<<e>>, l) <=> l \in Batch(e)) /\ HeldOnce(<<e>>, l)
  BY DEF Holds, HeldOnce

(* The first event, and those after it. *)
LEMMA TailHolds ==
  ASSUME NEW s \in Seq(Event), s # <<>>
  PROVE  /\ Head(s) \in Event /\ Tail(s) \in Seq(Event) /\ Len(Tail(s)) = Len(s) - 1
         /\ \A l \in Local : /\ l \in Batch(Head(s)) => Holds(s, l)
                             /\ Holds(Tail(s), l) => Holds(s, l)
                             /\ HeldOnce(s, l) => /\ HeldOnce(Tail(s), l)
                                                  /\ l \in Batch(Head(s)) => ~Holds(Tail(s), l)
<1>1. /\ Head(s) \in Event /\ Head(s) = s[1] /\ 1 \in 1..Len(s)
      /\ Tail(s) \in Seq(Event) /\ Len(Tail(s)) = Len(s) - 1
      /\ \A i \in 1..Len(Tail(s)) : i + 1 \in 1..Len(s) /\ Tail(s)[i] = s[i + 1] /\ i + 1 # 1
      /\ \A i, j \in 1..Len(Tail(s)) : i + 1 = j + 1 => i = j
  OBVIOUS
<1>2. ASSUME NEW l \in Local
      PROVE  /\ l \in Batch(Head(s)) => Holds(s, l)
             /\ Holds(Tail(s), l) => Holds(s, l)
             /\ HeldOnce(s, l) => /\ HeldOnce(Tail(s), l)
                                  /\ l \in Batch(Head(s)) => ~Holds(Tail(s), l)
  <2>1. l \in Batch(Head(s)) => Holds(s, l)
    BY <1>1 DEF Holds
  <2>2. Holds(Tail(s), l) => Holds(s, l)
    BY <1>1 DEF Holds
  <2>3. HeldOnce(s, l) => HeldOnce(Tail(s), l)
    BY <1>1 DEF HeldOnce
  <2>4. HeldOnce(s, l) /\ l \in Batch(Head(s)) => ~Holds(Tail(s), l)
    BY <1>1 DEF HeldOnce, Holds
  <2>5. QED
    BY <2>1, <2>2, <2>3, <2>4
<1>3. QED
  BY <1>1, <1>2

(* Events in a row. *)
LEMMA ConcatHolds ==
  ASSUME NEW s \in Seq(Event), NEW t \in Seq(Event)
  PROVE  /\ s \o t \in Seq(Event) /\ Len(s \o t) = Len(s) + Len(t)
         /\ \A l \in Local :
              /\ Holds(s \o t, l) => Holds(s, l) \/ Holds(t, l)
              /\ HeldOnce(s, l) /\ HeldOnce(t, l) /\ ~(Holds(s, l) /\ Holds(t, l))
                   => HeldOnce(s \o t, l)
<1> DEFINE u == s \o t
<1>1. /\ u \in Seq(Event) /\ Len(u) = Len(s) + Len(t) /\ Len(s) \in Nat /\ Len(t) \in Nat
      /\ \A i \in 1..Len(u) :
           \/ i \in 1..Len(s) /\ u[i] = s[i]
           \/ i - Len(s) \in 1..Len(t) /\ u[i] = t[i - Len(s)]
  OBVIOUS
<1> HIDE DEF u
<1>2. ASSUME NEW l \in Local, Holds(u, l) PROVE Holds(s, l) \/ Holds(t, l)
  BY <1>1, <1>2 DEF Holds
<1>3. ASSUME NEW l \in Local, HeldOnce(s, l), HeldOnce(t, l), ~(Holds(s, l) /\ Holds(t, l))
      PROVE  HeldOnce(u, l)
  <2>1. SUFFICES ASSUME NEW i \in 1..Len(u), NEW j \in 1..Len(u),
                        l \in Batch(u[i]), l \in Batch(u[j])
                 PROVE  i = j
    BY DEF HeldOnce
  <2>2. CASE i \in 1..Len(s) /\ u[i] = s[i] /\ j \in 1..Len(s) /\ u[j] = s[j]
    BY <1>3, <2>1, <2>2 DEF HeldOnce
  <2>3. CASE /\ i - Len(s) \in 1..Len(t) /\ u[i] = t[i - Len(s)]
             /\ j - Len(s) \in 1..Len(t) /\ u[j] = t[j - Len(s)]
    <3>1. i - Len(s) = j - Len(s)
      BY <1>3, <2>1, <2>3 DEF HeldOnce
    <3>2. QED
      BY <1>1, <3>1
  <2>4. CASE /\ i \in 1..Len(s) /\ u[i] = s[i]
             /\ j - Len(s) \in 1..Len(t) /\ u[j] = t[j - Len(s)]
    BY <1>3, <2>1, <2>4 DEF Holds
  <2>5. CASE /\ j \in 1..Len(s) /\ u[j] = s[j]
             /\ i - Len(s) \in 1..Len(t) /\ u[i] = t[i - Len(s)]
    BY <1>3, <2>1, <2>5 DEF Holds
  <2>6. QED
    BY <1>1, <2>2, <2>3, <2>4, <2>5
<1>4. QED
  BY <1>1, <1>2, <1>3 DEF u

LEMMA AppendHolds ==
  ASSUME NEW s \in Seq(Event), NEW e \in Event
  PROVE  /\ Append(s, e) \in Seq(Event) /\ Len(Append(s, e)) = Len(s) + 1
         /\ \A l \in Local :
              /\ Holds(Append(s, e), l) => Holds(s, l) \/ l \in Batch(e)
              /\ HeldOnce(s, l) /\ ~(Holds(s, l) /\ l \in Batch(e)) => HeldOnce(Append(s, e), l)
<1>1. Append(s, e) = s \o <<e>> /\ <<e>> \in Seq(Event) /\ Len(<<e>>) = 1
  OBVIOUS
<1>2. QED
  BY <1>1, ConcatHolds, SingleHolds

(* What a round of pump may send. *)
LEMMA PumpedType ==
  ASSUME TypeOK, NEW found \in SUBSET (Local \ gathered), NEW now \in Sizes \cup {size},
         NEW status \in BOOLEAN,
         NEW sent,
         sent = (IF found = {} THEN <<>> ELSE <<[type |-> "local", batch |-> found]>>)
                \o (IF status THEN <<[type |-> "status"]>> ELSE <<>>)
                \o (IF now = size THEN <<>> ELSE <<[type |-> "resolution", size |-> now]>>)
  PROVE  /\ sent \in Seq(Event)
         /\ \A l \in Local : HeldOnce(sent, l) /\ (Holds(sent, l) => l \in found)
<1> DEFINE a == IF found = {} THEN <<>> ELSE <<[type |-> "local", batch |-> found]>>
           b == IF status THEN <<[type |-> "status"]>> ELSE <<>>
           c == IF now = size THEN <<>> ELSE <<[type |-> "resolution", size |-> now]>>
<1>1. a \in Seq(Event) /\ \A l \in Local : HeldOnce(a, l) /\ (Holds(a, l) => l \in found)
  <2>1. found \in SUBSET Local /\ [type |-> "local", batch |-> found] \in Event
    BY EventFields
  <2>2. Batch([type |-> "local", batch |-> found]) = found
    BY DEF Batch
  <2>3. CASE found = {}
    BY <2>3, EmptyChannels
  <2>4. CASE found # {}
    BY <2>1, <2>2, <2>4, SingleHolds
  <2>5. QED
    BY <2>3, <2>4
<1>2. b \in Seq(Event) /\ \A l \in Local : HeldOnce(b, l) /\ ~Holds(b, l)
  <2>1. [type |-> "status"] \in Event /\ Batch([type |-> "status"]) = {}
    BY EventFields DEF Batch
  <2>2. CASE status
    BY <2>1, <2>2, SingleHolds
  <2>3. CASE ~status
    BY <2>3, EmptyChannels
  <2>4. QED
    BY <2>2, <2>3
<1>3. c \in Seq(Event) /\ \A l \in Local : HeldOnce(c, l) /\ ~Holds(c, l)
  <2>1. CASE now = size
    BY <2>1, EmptyChannels
  <2>2. CASE now # size
    <3>1. [type |-> "resolution", size |-> now] \in Event
          /\ Batch([type |-> "resolution", size |-> now]) = {}
      BY <2>2, EventFields DEF Batch
    <3>2. QED
      BY <2>2, <3>1, SingleHolds
  <2>3. QED
    BY <2>1, <2>2
<1> HIDE DEF a, b, c
<1>4. a \o b \in Seq(Event) /\ \A l \in Local : HeldOnce(a \o b, l) /\ (Holds(a \o b, l) => l \in found)
  BY <1>1, <1>2, ConcatHolds
<1>5. sent = (a \o b) \o c
  BY DEF a, b, c
<1> DEFINE ab == a \o b
<1> HIDE DEF ab
<1>6. ab \in Seq(Event) /\ \A l \in Local : HeldOnce(ab, l) /\ (Holds(ab, l) => l \in found)
  BY <1>4 DEF ab
<1>7. sent = ab \o c
  BY <1>5 DEF ab
<1>8. /\ ab \o c \in Seq(Event)
      /\ \A l \in Local : /\ Holds(ab \o c, l) => Holds(ab, l) \/ Holds(c, l)
                          /\ HeldOnce(ab, l) /\ HeldOnce(c, l) /\ ~(Holds(ab, l) /\ Holds(c, l))
                               => HeldOnce(ab \o c, l)
  BY <1>3, <1>6, ConcatHolds, Zenon
<1>9. QED
  BY <1>3, <1>6, <1>7, <1>8, Zenon
--------------------------------------------------------------------------------
LEMMA InvInit == Init => TypeOK /\ OutboxInv /\ RemoteInv /\ LocalInv
<1> SUFFICES ASSUME Init PROVE TypeOK /\ OutboxInv /\ RemoteInv /\ LocalInv
  OBVIOUS
<1>1. TypeOK /\ OutboxInv
  BY EmptyChannels DEF Init, TypeOK, OutboxInv
<1>2. RemoteInv
  BY EmptyChannels DEF Init, RemoteInv
<1>3. LocalInv
  BY EmptyChannels DEF Init, LocalInv, InPost
<1>4. QED
  BY <1>1, <1>2, <1>3

(* A command that fits. *)
LEMMA SendCommandType ==
  ASSUME TypeOK, NEW c \in Remote \cup {"pointer", "stop"}, SendCommand(c)
  PROVE  /\ commands' \in Seq(Remote \cup {"pointer", "stop"}) /\ Len(commands') <= CommandCap
         /\ \/ commands' = commands
            \/ /\ Len(commands') = Len(commands) + 1 /\ commands'[Len(commands) + 1] = c
               /\ \A i \in 1..Len(commands) : commands'[i] = commands[i]
  BY CapsAssumption DEF TypeOK, SendCommand, CommandFits

LEMMA TypeStep == TypeOK /\ OutboxInv /\ [Next]_vars => TypeOK' /\ OutboxInv'
<1> SUFFICES ASSUME TypeOK, OutboxInv, [Next]_vars PROVE TypeOK' /\ OutboxInv'
  OBVIOUS
<1> USE DEF TypeOK, OutboxInv, peer, thread, remote, local, backend, history
<1>1. CASE Negotiated \/ PumpError
  <2>1. <<[type |-> "status"]>> \in Seq(Event)
    BY EventFields
  <2>2. QED
    <3>1. CASE Negotiated
      BY <2>1, <3>1 DEF Negotiated
    <3>2. CASE PumpError
      BY <2>1, <3>2 DEF PumpError
    <3>3. QED
      BY <1>1, <3>1, <3>2
<1>2. CASE ThreadFails
  BY <1>2 DEF ThreadFails
<1>3. CASE DrainCommand
  <2>1. CASE commands = <<>>
    BY <1>3, <2>1 DEF DrainCommand
  <2>2. CASE commands # <<>>
    <3>1. /\ Tail(commands) \in Seq(Remote \cup {"pointer", "stop"})
          /\ Len(Tail(commands)) <= CommandCap
      BY <2>2, CapsAssumption
    <3>2. added' \in [Remote -> Nat]
      BY <1>3, <2>2 DEF DrainCommand
    <3>3. rtc' \in {"done", "commands"} /\ commands' = Tail(commands) /\ outbox = <<>>
      BY <1>3, <2>2 DEF DrainCommand
    <3>4. UNCHANGED <<outbox, closed, size, gathered, events, ui, backend, history>>
      BY <1>3 DEF DrainCommand
    <3>5. QED
      BY <3>1, <3>2, <3>3, <3>4
  <2>3. QED
    BY <2>1, <2>2
<1>4. CASE Pump
  <2>1. PICK found \in SUBSET (Local \ gathered), now \in Sizes \cup {size}, status \in BOOLEAN :
          /\ gathered' = gathered \cup found
          /\ size' = now
          /\ outbox' = (IF found = {} THEN <<>> ELSE <<[type |-> "local", batch |-> found]>>)
                       \o (IF status THEN <<[type |-> "status"]>> ELSE <<>>)
                       \o (IF now = size THEN <<>> ELSE <<[type |-> "resolution", size |-> now]>>)
          /\ closed' \in {FALSE, status}
    BY <1>4, Zenon DEF Pump
  <2>2. outbox' \in Seq(Event)
    BY <2>1, PumpedType
  <2>3. /\ gathered' \in SUBSET Local /\ size' \in Sizes \cup {FirstSize} /\ closed' \in BOOLEAN
    BY <2>1
  <2>4. rtc' = "sending" /\ UNCHANGED <<commands, events, added, ui, backend, history>>
    BY <1>4 DEF Pump
  <2>5. QED
    BY <2>2, <2>3, <2>4
<1>5. CASE SendLossy
  <2>1. /\ Head(outbox) \in Event /\ Tail(outbox) \in Seq(Event)
        /\ Carried(Head(outbox)) \subseteq Local \cup Sizes
    BY <1>5, TailHolds, EventFields DEF SendLossy
  <2>2. events' \in Seq(Event) /\ Len(events') <= EventCap
    <3>1. CASE events' = events
      BY <3>1
    <3>2. CASE Len(events) < EventCap /\ events' = Append(events, Head(outbox))
      BY <2>1, <3>2, AppendHolds, CapsAssumption
    <3>3. QED
      BY <1>5, <3>1, <3>2 DEF SendLossy
  <2>3. dropped' \in SUBSET (Remote \cup Local \cup Sizes)
    BY <1>5, <2>1 DEF SendLossy
  <2>4. QED
    BY <1>5, <2>1, <2>2, <2>3 DEF SendLossy
<1>6. CASE EndRound
  BY <1>6 DEF EndRound
<1>7. CASE ReportEnd
  <2>1. Terminal \in Event
    BY EventFields DEF Terminal
  <2>2. events' \in Seq(Event) /\ Len(events') <= EventCap
    BY <1>7, <2>1, AppendHolds, CapsAssumption DEF ReportEnd
  <2>3. QED
    BY <1>7, <2>2 DEF ReportEnd
<1>8. CASE ReceiveEvent
  <2>1. /\ Head(events) \in Event /\ Tail(events) \in Seq(Event) /\ Len(Tail(events)) <= EventCap
    BY <1>8, TailHolds, CapsAssumption DEF ReceiveEvent
  <2>2. /\ pendingIce' \in SUBSET Local /\ shownSize' \in Sizes \cup {FirstSize}
        /\ ended' \in {"no", "closed", "error"}
    BY <1>8, <2>1, EventFields DEF ReceiveEvent
  <2>3. QED
    BY <1>8, <2>1, <2>2 DEF ReceiveEvent
<1>9. CASE Tick \/ ExitStream
  BY <1>9 DEF Tick, ExitStream
<1>10. CASE EventsDrained
  <2>1. /\ pendingIce' \in SUBSET Local /\ posting' \in SUBSET Local
        /\ postJob' \in {"none", "flight"}
        /\ ui' \in {"stopping", "poll"}
    BY <1>10 DEF EventsDrained, PostLocalIce
  <2>2. QED
    BY <1>10, <2>1 DEF EventsDrained
<1>11. CASE PollRemoteIce
  BY <1>11 DEF PollRemoteIce
<1>12. CASE AddRemote
  <2>1. PICK c \in toAdd :
          /\ toAdd' = toAdd \ {c} /\ seen' = seen \cup {c}
          /\ IF c \in seen THEN commands' = commands ELSE SendCommand(c)
          /\ dropped' = IF c \in seen \/ CommandFits THEN dropped ELSE dropped \cup {c}
    BY <1>12 DEF AddRemote
  <2>2. commands' \in Seq(Remote \cup {"pointer", "stop"}) /\ Len(commands') <= CommandCap
    BY <2>1, SendCommandType
  <2>3. QED
    BY <1>12, <2>1, <2>2 DEF AddRemote
<1>13. CASE RemoteAdded \/ KeepAlive
  BY <1>13 DEF RemoteAdded, KeepAlive
<1>14. CASE PointerEvent
  <2>1. commands' \in Seq(Remote \cup {"pointer", "stop"}) /\ Len(commands') <= CommandCap
    BY <1>14, SendCommandType DEF PointerEvent
  <2>2. QED
    BY <1>14, <2>1 DEF PointerEvent
<1>15. CASE DropWorker
  <2>1. commands' \in Seq(Remote \cup {"pointer", "stop"}) /\ Len(commands') <= CommandCap
    BY <1>15, SendCommandType DEF DropWorker
  <2>2. QED
    BY <1>15, <2>1, EmptyChannels DEF DropWorker
<1>16. CASE PostEnds
  <2>1. posted' \in [Local -> Nat] /\ unposted' \in SUBSET Local
    BY <1>16 DEF PostEnds
  <2>2. QED
    BY <1>16, <2>1 DEF PostEnds
<1>17. CASE UNCHANGED vars
  BY <1>17 DEF vars
<1>18. QED
  BY <1>1, <1>2, <1>3, <1>4, <1>5, <1>6, <1>7, <1>8, <1>9, <1>10, <1>11, <1>12, <1>13, <1>14,
     <1>15, <1>16, <1>17 DEF Next, ThreadStep, UiStep, Finished

\* An owner that is gone does not come back.
LEMMA DroppedStays == Dropped /\ [Next]_vars => Dropped'
  BY DEF Dropped, Next, ThreadStep, UiStep, Finished, vars, thread, peer, backend, remote, local,
         history, Negotiated, ThreadFails, DrainCommand, Pump, PumpError, SendLossy, EndRound,
         ReportEnd, Tick, ReceiveEvent, EventsDrained, PollRemoteIce, AddRemote, RemoteAdded,
         KeepAlive, PointerEvent, ExitStream, DropWorker, PostEnds
--------------------------------------------------------------------------------
(* The server's candidates: one command for each. *)

LEMMA RemoteStep == TypeOK /\ RemoteInv /\ [Next]_vars => RemoteInv'
<1> SUFFICES ASSUME TypeOK, RemoteInv, [Next]_vars PROVE RemoteInv'
  OBVIOUS
<1>1. CASE DrainCommand
  <2>1. CASE commands = <<>>
    BY <1>1, <2>1 DEF DrainCommand, RemoteInv, backend, remote
  <2>2. CASE commands # <<>>
    <3> DEFINE first == Head(commands)
    <3>1. /\ commands' = Tail(commands) /\ seen' = seen
          /\ \/ added' = added
             \/ first \in Remote /\ added' = [added EXCEPT ![first] = @ + 1]
      BY <1>1, <2>2 DEF DrainCommand, backend, remote
    <3>2. /\ 1 \in 1..Len(commands) /\ first = commands[1] /\ Len(commands') \in Nat
          /\ \A i \in 1..Len(commands') : /\ i + 1 \in 1..Len(commands) /\ i + 1 # 1
                                          /\ commands'[i] = commands[i + 1]
          /\ \A i, j \in 1..Len(commands') : i + 1 = j + 1 => i = j
      BY <2>2, <3>1 DEF TypeOK
    <3> HIDE DEF first
    <3>3. SUFFICES ASSUME NEW c \in Remote
                   PROVE  /\ added'[c] <= 1
                          /\ added'[c] > 0 => c \in seen' /\ \A i \in 1..Len(commands') : commands'[i] # c
                          /\ (\E i \in 1..Len(commands') : commands'[i] = c) => c \in seen'
                          /\ \A i, j \in 1..Len(commands') :
                               commands'[i] = c /\ commands'[j] = c => i = j
      BY DEF RemoteInv
    <3>4. /\ added[c] \in Nat /\ added[c] <= 1
          /\ added[c] > 0 => c \in seen /\ \A i \in 1..Len(commands) : commands[i] # c
          /\ (\E i \in 1..Len(commands) : commands[i] = c) => c \in seen
          /\ \A i, j \in 1..Len(commands) : commands[i] = c /\ commands[j] = c => i = j
      BY DEF RemoteInv, TypeOK
    <3>5. CASE added'[c] = added[c]
      BY <3>1, <3>2, <3>4, <3>5
    <3>6. CASE first = c /\ added'[c] = added[c] + 1
      <4>1. added[c] = 0 /\ c \in seen
        <5>1. 1 \in 1..Len(commands) /\ commands[1] = c
          BY <3>2, <3>6
        <5>2. c \in seen /\ ~(added[c] > 0)
          BY <3>4, <5>1
        <5>3. QED
          BY <3>4, <5>2
      <4>2. \A i \in 1..Len(commands') : commands'[i] # c
        BY <3>2, <3>4, <3>6
      <4>3. QED
        BY <3>1, <3>6, <4>1, <4>2
    <3>7. QED
      BY <3>1, <3>5, <3>6 DEF TypeOK
  <2>3. QED
    BY <2>1, <2>2
<1>2. CASE AddRemote
  <2>1. PICK c \in toAdd :
          /\ seen' = seen \cup {c}
          /\ IF c \in seen THEN commands' = commands ELSE SendCommand(c)
    BY <1>2 DEF AddRemote
  <2>2. added' = added
    BY <1>2 DEF AddRemote, thread, peer
  <2>3. CASE commands' = commands
    BY <2>1, <2>2, <2>3 DEF RemoteInv
  <2>4. CASE c \notin seen /\ commands' # commands
    <3>1. /\ Len(commands') = Len(commands) + 1 /\ commands'[Len(commands) + 1] = c
          /\ \A i \in 1..Len(commands) : commands'[i] = commands[i]
          /\ Len(commands) \in Nat /\ c \in Remote
      BY <2>1, <2>4, SendCommandType DEF TypeOK
    <3>2. \A i \in 1..Len(commands') : i \in 1..Len(commands) \/ i = Len(commands) + 1
      BY <3>1
    <3>3. added[c] = 0 /\ \A i \in 1..Len(commands) : commands[i] # c
      BY <2>4, <3>1 DEF RemoteInv, TypeOK
    <3>4. QED
      BY <2>1, <2>2, <3>1, <3>2, <3>3 DEF RemoteInv
  <2>5. QED
    BY <2>1, <2>3, <2>4
<1>3. ASSUME NEW c \in {"pointer", "stop"}, SendCommand(c), UNCHANGED <<added, seen>>
      PROVE  RemoteInv'
  <2>1. CASE commands' = commands
    BY <1>3, <2>1 DEF RemoteInv
  <2>2. CASE commands' # commands
    <3>1. /\ Len(commands') = Len(commands) + 1 /\ commands'[Len(commands) + 1] \notin Remote
          /\ \A i \in 1..Len(commands) : commands'[i] = commands[i]
          /\ Len(commands) \in Nat
      BY <1>3, <2>2, SendCommandType, SetsAssumption DEF TypeOK
    <3>2. \A i \in 1..Len(commands') : i \in 1..Len(commands) \/ i = Len(commands) + 1
      BY <3>1
    <3>3. QED
      BY <1>3, <3>1, <3>2 DEF RemoteInv
  <2>3. QED
    BY <2>1, <2>2
<1>4. CASE PointerEvent \/ DropWorker
  BY <1>3, <1>4 DEF PointerEvent, DropWorker, thread, peer, backend, remote
<1>5. CASE UNCHANGED <<added, seen, commands>>
  BY <1>5 DEF RemoteInv
<1>6. QED
  BY <1>1, <1>2, <1>4, <1>5
  DEF Next, ThreadStep, UiStep, Finished, vars, thread, peer, backend, remote,
      Negotiated, ThreadFails, Pump, PumpError, SendLossy, EndRound, ReportEnd, Tick, ReceiveEvent,
      EventsDrained, PollRemoteIce, RemoteAdded, KeepAlive, ExitStream, PostEnds
--------------------------------------------------------------------------------
(* This client's candidates: each in one place. *)

LEMMA LocalKept ==
  ASSUME LocalInv, UNCHANGED <<outbox, events, gathered, pendingIce, postJob, posting, posted>>
  PROVE  LocalInv'
  BY Zenon DEF LocalInv, InPost, Holds, HeldOnce

LEMMA LocalStep == TypeOK /\ OutboxInv /\ LocalInv /\ [Next]_vars => LocalInv'
<1> SUFFICES ASSUME TypeOK, OutboxInv, LocalInv, [Next]_vars PROVE LocalInv'
  OBVIOUS
<1> USE DEF peer, thread, remote, local, backend, history
<1>1. CASE Negotiated \/ PumpError
  <2>1. /\ outbox' = <<[type |-> "status"]>>
        /\ UNCHANGED <<events, gathered, pendingIce, postJob, posting, posted>>
    BY <1>1 DEF Negotiated, PumpError
  <2>2. \A l \in Local : ~Holds(outbox', l) /\ HeldOnce(outbox', l)
    BY <2>1, EventFields, SingleHolds DEF Batch
  <2>3. QED
    BY <2>1, <2>2 DEF LocalInv, InPost
<1>2. CASE Pump
  <2>1. PICK found \in SUBSET (Local \ gathered), now \in Sizes \cup {size}, status \in BOOLEAN :
          /\ gathered' = gathered \cup found
          /\ size' = now
          /\ outbox' = (IF found = {} THEN <<>> ELSE <<[type |-> "local", batch |-> found]>>)
                       \o (IF status THEN <<[type |-> "status"]>> ELSE <<>>)
                       \o (IF now = size THEN <<>> ELSE <<[type |-> "resolution", size |-> now]>>)
          /\ closed' \in {FALSE, status}
    BY <1>2, Zenon DEF Pump
  <2>2. \A l \in Local : HeldOnce(outbox', l) /\ (Holds(outbox', l) => l \in found)
    BY <2>1, PumpedType
  <2>3. UNCHANGED <<events, pendingIce, postJob, posting, posted>>
    BY <1>2 DEF Pump
  <2>4. QED
    BY <2>1, <2>2, <2>3 DEF LocalInv, InPost
<1>3. CASE SendLossy
  <2>1. /\ Head(outbox) \in Event /\ outbox' = Tail(outbox)
        /\ \A l \in Local : /\ l \in Batch(Head(outbox)) => Holds(outbox, l)
                            /\ Holds(outbox', l) => Holds(outbox, l)
                            /\ HeldOnce(outbox', l)
                            /\ l \in Batch(Head(outbox)) => ~Holds(outbox', l)
    BY <1>3, TailHolds DEF SendLossy, TypeOK, LocalInv
  <2>2. \A l \in Local : /\ Holds(events', l) => Holds(events, l) \/ l \in Batch(Head(outbox))
                         /\ HeldOnce(events', l)
    <3>1. \A l \in Local : HeldOnce(events, l) /\ ~(Holds(events, l) /\ l \in Batch(Head(outbox)))
      BY <2>1 DEF LocalInv
    <3>2. CASE events' = events
      BY <3>1, <3>2
    <3>3. CASE events' = Append(events, Head(outbox))
      BY <2>1, <3>1, <3>3, AppendHolds DEF TypeOK
    <3>4. QED
      BY <1>3, <3>2, <3>3 DEF SendLossy
  <2>3. UNCHANGED <<gathered, pendingIce, postJob, posting, posted>>
    BY <1>3 DEF SendLossy
  <2>4. QED
    BY <2>1, <2>2, <2>3 DEF LocalInv, InPost
<1>4. CASE ReportEnd
  <2>1. Terminal \in Event /\ Batch(Terminal) = {}
    BY EventFields DEF Terminal, Batch
  <2>2. \A l \in Local : (Holds(events', l) => Holds(events, l)) /\ HeldOnce(events', l)
    BY <1>4, <2>1, AppendHolds DEF ReportEnd, TypeOK, LocalInv
  <2>3. UNCHANGED <<outbox, gathered, pendingIce, postJob, posting, posted>>
    BY <1>4 DEF ReportEnd
  <2>4. QED
    BY <2>2, <2>3 DEF LocalInv, InPost
<1>5. CASE ReceiveEvent
  <2>1. \A l \in Local : /\ l \in Batch(Head(events)) => Holds(events, l)
                         /\ Holds(events', l) => Holds(events, l)
                         /\ HeldOnce(events', l)
                         /\ l \in Batch(Head(events)) => ~Holds(events', l)
    BY <1>5, TailHolds DEF ReceiveEvent, TypeOK, LocalInv
  <2>2. /\ pendingIce' = pendingIce \cup Batch(Head(events))
        /\ UNCHANGED <<outbox, gathered, postJob, posting, posted>>
    BY <1>5 DEF ReceiveEvent
  <2>3. ASSUME NEW l \in Local, l \in Batch(Head(events))
        PROVE  /\ ~Holds(events', l) /\ ~Holds(outbox, l) /\ ~InPost(l) /\ posted[l] = 0
               /\ l \in gathered
    <3>1. Holds(events, l) /\ ~Holds(events', l)
      BY <2>1, <2>3, Zenon
    <3>2. ~Holds(outbox, l) /\ ~InPost(l) /\ posted[l] = 0 /\ l \in gathered
      BY <3>1, Zenon DEF LocalInv
    <3>3. QED
      BY <3>1, <3>2
  <2>4. SUFFICES ASSUME NEW l \in Local
                 PROVE  /\ HeldOnce(outbox', l) /\ HeldOnce(events', l)
                        /\ Holds(outbox', l) => /\ ~Holds(events', l) /\ l \notin pendingIce'
                                                /\ ~InPost(l)' /\ posted'[l] = 0
                        /\ Holds(events', l) => l \notin pendingIce' /\ ~InPost(l)' /\ posted'[l] = 0
                        /\ l \in pendingIce' => ~InPost(l)' /\ posted'[l] = 0
                        /\ InPost(l)' => posted'[l] = 0
                        /\ posted'[l] <= 1
                        /\ l \notin gathered' => /\ ~Holds(outbox', l) /\ ~Holds(events', l)
                                                 /\ l \notin pendingIce' /\ ~InPost(l)' /\ posted'[l] = 0
    BY DEF LocalInv
  <2>5. /\ HeldOnce(events', l) /\ (Holds(events', l) => Holds(events, l))
        /\ outbox' = outbox /\ gathered' = gathered /\ posted' = posted
        /\ (l \in pendingIce' <=> l \in pendingIce \/ l \in Batch(Head(events)))
        /\ (InPost(l)' <=> InPost(l))
    <3>1. HeldOnce(events', l) /\ (Holds(events', l) => Holds(events, l))
      BY <2>1, Zenon
    <3>2. /\ outbox' = outbox /\ gathered' = gathered /\ posted' = posted
          /\ (l \in pendingIce' <=> l \in pendingIce \/ l \in Batch(Head(events)))
          /\ (InPost(l)' <=> InPost(l))
      BY <2>2 DEF InPost
    <3>3. QED
      BY <3>1, <3>2
  <2>6. /\ HeldOnce(outbox, l)
        /\ Holds(outbox, l) => ~Holds(events, l) /\ l \notin pendingIce /\ ~InPost(l) /\ posted[l] = 0
        /\ Holds(events, l) => l \notin pendingIce /\ ~InPost(l) /\ posted[l] = 0
        /\ l \in pendingIce => ~InPost(l) /\ posted[l] = 0
        /\ InPost(l) => posted[l] = 0
        /\ posted[l] <= 1
        /\ l \notin gathered => ~Holds(outbox, l) /\ ~Holds(events, l) /\ l \notin pendingIce
                                /\ ~InPost(l) /\ posted[l] = 0
    BY DEF LocalInv
  <2>7. QED
    BY <2>3, <2>5, <2>6
<1>6. CASE EventsDrained
  <2>1. UNCHANGED <<outbox, events, gathered, posted>>
    BY <1>6 DEF EventsDrained
  <2>2. \/ UNCHANGED <<pendingIce, posting>> /\ (postJob' = "flight" => postJob = "flight")
        \/ postJob # "flight" /\ posting' = pendingIce /\ pendingIce' = {}
    BY <1>6 DEF EventsDrained, PostLocalIce
  <2>3. QED
    BY <2>1, <2>2 DEF LocalInv, InPost
<1>7. CASE DropWorker
  <2>1. events' = <<>> /\ UNCHANGED <<outbox, gathered, pendingIce, postJob, posting, posted>>
    BY <1>7 DEF DropWorker
  <2>2. QED
    BY <2>1, EmptyChannels DEF LocalInv, InPost
<1>8. CASE PostEnds
  <2>1. /\ postJob = "flight" /\ postJob' # "flight"
        /\ UNCHANGED <<outbox, events, gathered, pendingIce>>
        /\ \/ posted' = posted
           \/ posted' = [l \in Local |-> posted[l] + (IF l \in posting THEN 1 ELSE 0)]
    BY <1>8 DEF PostEnds
  <2>2. \A l \in Local : posted'[l] = posted[l] \/ (l \in posting /\ posted'[l] = posted[l] + 1)
    BY <2>1 DEF TypeOK
  <2>3. QED
    BY <2>1, <2>2 DEF LocalInv, InPost
<1>9. CASE UNCHANGED <<outbox, events, gathered, pendingIce, postJob, posting, posted>>
  BY <1>9, LocalKept
<1>10. QED
  BY <1>1, <1>2, <1>3, <1>4, <1>5, <1>6, <1>7, <1>8, <1>9
  DEF Next, ThreadStep, UiStep, Finished, vars, ThreadFails, DrainCommand, EndRound,
      Tick, PollRemoteIce, AddRemote, RemoteAdded, KeepAlive, PointerEvent, ExitStream
--------------------------------------------------------------------------------
(* Announcements of a size: among the events on their way the last one announces the *)
(* thread's size; without any, the UI shows it.  An announcement dropped is excused. *)

IsSize(e) == e.type = "resolution"
Announces(s) == \E i \in 1..Len(s) : IsSize(s[i])
AllAnnounce(s, z) == \A i \in 1..Len(s) : IsSize(s[i]) => s[i].size = z
LastAnnounces(s, z) ==
  \A i \in 1..Len(s) :
    IsSize(s[i]) /\ (\A j \in 1..Len(s) : i < j => ~IsSize(s[j])) => s[i].size = z

SizeInv ==
  /\ AllAnnounce(outbox, size)
  /\ size = FirstSize => shownSize = FirstSize /\ ~Announces(outbox) /\ ~Announces(events)
  /\ ~Dropped /\ size \notin dropped /\ ~Announces(outbox) =>
       LastAnnounces(events, size) /\ (Announces(events) \/ shownSize = size)

LEMMA EmptyAnnounces ==
  ~Announces(<<>>) /\ \A z : AllAnnounce(<<>>, z) /\ LastAnnounces(<<>>, z)
  BY DEF Announces, AllAnnounce, LastAnnounces

LEMMA AppendAnnounces ==
  ASSUME NEW s \in Seq(Event), NEW e \in Event
  PROVE  /\ Announces(Append(s, e)) <=> Announces(s) \/ IsSize(e)
         /\ \A z : /\ IsSize(e) /\ e.size = z => LastAnnounces(Append(s, e), z)
                   /\ ~IsSize(e) /\ LastAnnounces(s, z) => LastAnnounces(Append(s, e), z)
<1>1. /\ Len(s) \in Nat /\ Len(Append(s, e)) = Len(s) + 1 /\ Append(s, e)[Len(s) + 1] = e
      /\ \A i \in 1..Len(s) : Append(s, e)[i] = s[i]
  OBVIOUS
<1> DEFINE t == Append(s, e)
           n == Len(s)
<1> HIDE DEF t, n
<1>2. /\ n \in Nat /\ Len(t) = n + 1 /\ Len(s) = n /\ t[n + 1] = e
      /\ \A i \in 1..n : t[i] = s[i]
      /\ \A i \in 1..(n + 1) : i = n + 1 \/ (i \in 1..n /\ i < n + 1)
      /\ \A i \in 1..n : i \in 1..(n + 1)
      /\ n + 1 \in 1..(n + 1)
  BY <1>1 DEF t, n
<1>3. Announces(t) <=> Announces(s) \/ IsSize(e)
  BY <1>2 DEF Announces
<1>4. ASSUME NEW z, IsSize(e), e.size = z PROVE LastAnnounces(t, z)
  BY <1>2, <1>4 DEF LastAnnounces
<1>5. ASSUME NEW z, ~IsSize(e), LastAnnounces(s, z) PROVE LastAnnounces(t, z)
  BY <1>2, <1>5 DEF LastAnnounces
<1>6. QED
  BY <1>3, <1>4, <1>5 DEF t

LEMMA TailAnnounces ==
  ASSUME NEW s \in Seq(Event), s # <<>>
  PROVE  /\ Announces(s) <=> IsSize(Head(s)) \/ Announces(Tail(s))
         /\ \A z : /\ AllAnnounce(s, z) => /\ AllAnnounce(Tail(s), z)
                                           /\ IsSize(Head(s)) => Head(s).size = z
                   /\ LastAnnounces(s, z) => /\ LastAnnounces(Tail(s), z)
                                             /\ IsSize(Head(s)) /\ ~Announces(Tail(s)) => Head(s).size = z
<1> DEFINE t == Tail(s)
           n == Len(t)
<1>1. /\ n \in Nat /\ Len(s) = n + 1 /\ Head(s) = s[1] /\ \A i \in 1..n : t[i] = s[i + 1]
  OBVIOUS
<1> HIDE DEF t, n
<1>2. /\ Len(t) = n /\ Len(s) = n + 1 /\ Head(s) = s[1] /\ \A i \in 1..n : t[i] = s[i + 1]
      /\ \A i \in 1..n : i + 1 \in 1..(n + 1)
      /\ \A i \in 1..(n + 1) : i = 1 \/ (i - 1 \in 1..n /\ s[i] = t[i - 1])
      /\ 1 \in 1..(n + 1)
  BY <1>1 DEF n
<1>3. Announces(s) <=> IsSize(Head(s)) \/ Announces(t)
  BY <1>2 DEF Announces
<1>4. ASSUME NEW z, AllAnnounce(s, z)
      PROVE  AllAnnounce(t, z) /\ (IsSize(Head(s)) => Head(s).size = z)
  BY <1>2, <1>4 DEF AllAnnounce
<1>5. ASSUME NEW z, LastAnnounces(s, z) PROVE LastAnnounces(t, z)
  <2>1. SUFFICES ASSUME NEW i \in 1..n, IsSize(t[i]), \A j \in 1..n : i < j => ~IsSize(t[j])
                 PROVE  t[i].size = z
    BY <1>2 DEF LastAnnounces
  <2>2. ASSUME NEW j \in 1..(n + 1), i + 1 < j PROVE ~IsSize(s[j])
    <3>1. j - 1 \in 1..n /\ s[j] = t[j - 1] /\ i < j - 1
      BY <1>1, <1>2, <2>2
    <3>2. QED
      BY <2>1, <3>1
  <2>3. IsSize(s[i + 1]) /\ i + 1 \in 1..(n + 1)
    BY <1>2, <2>1
  <2>4. s[i + 1].size = z
    BY <1>2, <1>5, <2>2, <2>3 DEF LastAnnounces
  <2>5. QED
    BY <1>2, <2>4
<1>6. ASSUME NEW z, LastAnnounces(s, z), IsSize(Head(s)), ~Announces(t) PROVE Head(s).size = z
  <2>1. ASSUME NEW j \in 1..(n + 1), 1 < j PROVE ~IsSize(s[j])
    BY <1>2, <1>6, <2>1 DEF Announces
  <2>2. QED
    BY <1>2, <1>6, <2>1 DEF LastAnnounces
<1>7. QED
  BY <1>3, <1>4, <1>5, <1>6 DEF t

(* A round of pump announces a size if it is a new one. *)
Pumped(found, now, was, status) ==
  (IF found = {} THEN <<>> ELSE <<[type |-> "local", batch |-> found]>>)
  \o (IF status THEN <<[type |-> "status"]>> ELSE <<>>)
  \o (IF now = was THEN <<>> ELSE <<[type |-> "resolution", size |-> now]>>)

LEMMA PumpedAnnounces ==
  ASSUME NEW found \in SUBSET Local, NEW now, NEW was, NEW status \in BOOLEAN,
         now \in Sizes \cup {was}
  PROVE  /\ AllAnnounce(Pumped(found, now, was, status), now)
         /\ Announces(Pumped(found, now, was, status)) <=> now # was
<1> DEFINE a == IF found = {} THEN <<>> ELSE <<[type |-> "local", batch |-> found]>>
           b == IF status THEN <<[type |-> "status"]>> ELSE <<>>
           c == IF now = was THEN <<>> ELSE <<[type |-> "resolution", size |-> now]>>
<1>1. a \in Seq(Event) /\ ~Announces(a)
  <2>1. [type |-> "local", batch |-> found] \in Event
    BY EventFields
  <2>2. QED
    BY <2>1, EmptyChannels DEF Announces, IsSize
<1>2. b \in Seq(Event) /\ ~Announces(b)
  <2>1. [type |-> "status"] \in Event
    BY EventFields
  <2>2. QED
    BY <2>1, EmptyChannels DEF Announces, IsSize
<1>3. c \in Seq(Event) /\ (Announces(c) <=> now # was) /\ AllAnnounce(c, now)
  <2>1. now # was => [type |-> "resolution", size |-> now] \in Event
    BY EventFields
  <2>2. QED
    BY <2>1, EmptyChannels DEF Announces, AllAnnounce, IsSize
<1> HIDE DEF a, b, c
<1>4. ASSUME NEW s \in Seq(Event), NEW u \in Seq(Event), ~Announces(s)
      PROVE  /\ s \o u \in Seq(Event) /\ (Announces(s \o u) <=> Announces(u))
             /\ \A z : AllAnnounce(u, z) => AllAnnounce(s \o u, z)
  <2> DEFINE r == s \o u
             n == Len(s)
             m == Len(u)
  <2>1. /\ r \in Seq(Event) /\ Len(r) = n + m /\ n \in Nat /\ m \in Nat
        /\ \A i \in 1..(n + m) : \/ i \in 1..n /\ r[i] = s[i]
                                 \/ i - n \in 1..m /\ r[i] = u[i - n]
        /\ \A i \in 1..m : i + n \in 1..(n + m) /\ r[i + n] = u[i]
    OBVIOUS
  <2> HIDE DEF r
  <2>2. Announces(r) <=> Announces(u)
    BY <1>4, <2>1 DEF Announces
  <2>3. ASSUME NEW z, AllAnnounce(u, z) PROVE AllAnnounce(r, z)
    <3>1. SUFFICES ASSUME NEW i \in 1..(n + m), IsSize(r[i]) PROVE r[i].size = z
      BY <2>1 DEF AllAnnounce
    <3>2. CASE i \in 1..n /\ r[i] = s[i]
      BY <1>4, <3>1, <3>2 DEF Announces
    <3>3. CASE i - n \in 1..m /\ r[i] = u[i - n]
      <4>1. IsSize(u[i - n])
        BY <3>1, <3>3
      <4>2. QED
        BY <2>3, <3>3, <4>1 DEF AllAnnounce
    <3>4. QED
      BY <2>1, <3>1, <3>2, <3>3
  <2>4. QED
    BY <2>1, <2>2, <2>3 DEF r
<1>5. a \o b \in Seq(Event) /\ ~Announces(a \o b)
  BY <1>1, <1>2, <1>4
<1>6. Announces((a \o b) \o c) <=> now # was
  BY <1>3, <1>4, <1>5
<1>7. AllAnnounce((a \o b) \o c, now)
  BY <1>3, <1>4, <1>5
<1>8. Pumped(found, now, was, status) = (a \o b) \o c
  BY DEF a, b, c, Pumped
<1>9. QED
  BY <1>6, <1>7, <1>8

LEMMA SizeStep ==
  ASSUME TypeOK, OutboxInv, SizeInv, [Next]_vars
  PROVE  SizeInv'
<1> USE DEF peer, thread, remote, local, backend, history
<1>0. Dropped => Dropped'
  BY DroppedStays
<1>1. ASSUME UNCHANGED <<outbox, size, shownSize, events>>, dropped \subseteq dropped' PROVE SizeInv'
  BY <1>0, <1>1 DEF SizeInv, AllAnnounce, LastAnnounces, Announces
<1>2. SUFFICES /\ AllAnnounce(outbox', size')
               /\ size' = FirstSize => shownSize' = FirstSize /\ ~Announces(outbox') /\ ~Announces(events')
               /\ ~Dropped' /\ size' \notin dropped' /\ ~Announces(outbox') =>
                    LastAnnounces(events', size') /\ (Announces(events') \/ shownSize' = size')
  BY DEF SizeInv, AllAnnounce, LastAnnounces, Announces
<1>3. CASE Negotiated \/ PumpError
  <2>1. outbox = <<>> /\ outbox' = <<[type |-> "status"]>> /\ UNCHANGED <<size, shownSize, events, dropped>>
    BY <1>3 DEF Negotiated, PumpError, OutboxInv
  <2>2. ~Announces(outbox') /\ AllAnnounce(outbox', size)
    BY <2>1 DEF Announces, AllAnnounce, IsSize
  <2>3. ~Announces(outbox)
    BY <2>1, EmptyAnnounces
  <2>4. QED
    BY <1>0, <2>1, <2>2, <2>3 DEF SizeInv
<1>4. CASE Pump
  <2>1. PICK found \in SUBSET (Local \ gathered), now \in Sizes \cup {size}, status \in BOOLEAN :
          /\ gathered' = gathered \cup found
          /\ size' = now
          /\ outbox' = (IF found = {} THEN <<>> ELSE <<[type |-> "local", batch |-> found]>>)
                       \o (IF status THEN <<[type |-> "status"]>> ELSE <<>>)
                       \o (IF now = size THEN <<>> ELSE <<[type |-> "resolution", size |-> now]>>)
          /\ closed' \in {FALSE, status}
    BY <1>4, Zenon DEF Pump
  <2>2. AllAnnounce(outbox', now) /\ (Announces(outbox') <=> now # size)
    <3>1. found \in SUBSET Local
      OBVIOUS
    <3>2. now \in Sizes \cup {size} /\ status \in BOOLEAN
      OBVIOUS
    <3>3. outbox' = Pumped(found, now, size, status)
      BY <2>1 DEF Pumped
    <3>4. /\ AllAnnounce(Pumped(found, now, size, status), now)
          /\ Announces(Pumped(found, now, size, status)) <=> now # size
      BY <3>1, <3>2, PumpedAnnounces
    <3>5. QED
      BY <3>3, <3>4 DEF AllAnnounce, Announces
  <2>3. outbox = <<>> /\ UNCHANGED <<shownSize, events, dropped>>
    BY <1>4 DEF Pump, OutboxInv
  <2>4. ~Announces(outbox)
    BY <2>3, EmptyAnnounces
  <2>5. now = FirstSize => now = size
    BY SetsAssumption
  <2>6. QED
    BY <1>0, <2>1, <2>2, <2>3, <2>4, <2>5 DEF SizeInv
<1>5. CASE SendLossy
  <2> DEFINE e == Head(outbox)
  <2>1. /\ outbox # <<>> /\ outbox \in Seq(Event) /\ events \in Seq(Event) /\ e \in Event
        /\ outbox' = Tail(outbox) /\ UNCHANGED <<size, shownSize>>
    BY <1>5, TailHolds DEF SendLossy, TypeOK
  <2>2. /\ Announces(outbox) <=> IsSize(e) \/ Announces(outbox')
        /\ AllAnnounce(outbox', size) /\ (IsSize(e) => e.size = size)
    BY <2>1, TailAnnounces DEF SizeInv
  <2> HIDE DEF e
  <2>a. /\ size \notin Local /\ (IsSize(e) => Superseded(e) = Sizes)
        /\ ~IsSize(e) => Superseded(e) \subseteq Local
    BY <2>1, EventFields, SetsAssumption DEF TypeOK, IsSize
  <2>3. CASE events' = Append(events, e) /\ dropped' = dropped \ Superseded(e)
    <3>1. /\ Announces(events') <=> Announces(events) \/ IsSize(e)
          /\ IsSize(e) => LastAnnounces(events', size)
          /\ ~IsSize(e) /\ LastAnnounces(events, size) => LastAnnounces(events', size)
      BY <2>1, <2>2, <2>3, AppendAnnounces
    <3>2. QED
      BY <1>0, <2>1, <2>2, <2>a, <2>3, <3>1 DEF SizeInv
  <2>4. CASE events' = events /\ dropped' = (dropped \ Superseded(e)) \cup Carried(e)
    <3>1. IsSize(e) => size \in dropped'
      BY <2>2, <2>4 DEF Carried, IsSize
    <3>2. QED
      BY <1>0, <2>1, <2>2, <2>a, <2>4, <3>1 DEF SizeInv
  <2>5. QED
    BY <1>5, <2>3, <2>4 DEF SendLossy, e
<1>6. CASE ReportEnd
  <2>1. Terminal \in Event /\ ~IsSize(Terminal)
    BY EventFields DEF Terminal, IsSize
  <2>2. UNCHANGED <<outbox, size, shownSize, dropped>>
    BY <1>6 DEF ReportEnd
  <2>3. CASE events' = events
    BY <1>0, <2>2, <2>3 DEF SizeInv
  <2>4. CASE events' = Append(events, Terminal)
    <3>1. /\ Announces(events') <=> Announces(events)
          /\ LastAnnounces(events, size) => LastAnnounces(events', size)
      BY <2>1, <2>4, AppendAnnounces DEF TypeOK
    <3>2. QED
      BY <1>0, <2>2, <3>1 DEF SizeInv
  <2>5. QED
    BY <1>6, <2>3, <2>4 DEF ReportEnd
<1>7. CASE ReceiveEvent
  <2> DEFINE e == Head(events)
  <2>1. /\ events # <<>> /\ events \in Seq(Event) /\ events' = Tail(events)
        /\ shownSize' = IF IsSize(e) THEN e.size ELSE shownSize
        /\ UNCHANGED <<outbox, size, dropped>>
    BY <1>7 DEF ReceiveEvent, TypeOK, IsSize
  <2>2. /\ Announces(events) <=> IsSize(e) \/ Announces(events')
        /\ LastAnnounces(events, size) => /\ LastAnnounces(events', size)
                                          /\ IsSize(e) /\ ~Announces(events') => e.size = size
    BY <2>1, TailAnnounces
  <2>3. QED
    BY <1>0, <2>1, <2>2 DEF SizeInv
<1>8. CASE DropWorker
  <2>1. events' = <<>> /\ Dropped' /\ UNCHANGED <<outbox, size, shownSize>>
    BY <1>8 DEF DropWorker, Dropped
  <2>2. QED
    BY <2>1, EmptyAnnounces DEF SizeInv
<1>9. CASE UNCHANGED <<outbox, size, shownSize, events>> /\ dropped \subseteq dropped'
  BY <1>1, <1>9 DEF SizeInv, AllAnnounce, LastAnnounces, Announces
<1>10. QED
  BY <1>3, <1>4, <1>5, <1>6, <1>7, <1>8, <1>9
  DEF Next, ThreadStep, UiStep, Finished, vars, ThreadFails, DrainCommand, EndRound,
      Tick, PollRemoteIce, AddRemote, RemoteAdded, KeepAlive, PointerEvent, ExitStream,
      EventsDrained, PostEnds
--------------------------------------------------------------------------------
(* The other direction: a gathered candidate stays in some place. *)

NoCandidateAstray ==
  \A l \in gathered :
    \/ Holds(outbox, l) \/ Holds(events, l) \/ l \in pendingIce \/ InPost(l)
    \/ posted[l] > 0 \/ l \in dropped \cup unposted \/ Dropped

LEMMA HoldsAppended ==
  ASSUME NEW s \in Seq(Event), NEW e \in Event, NEW l, Holds(s, l) \/ l \in Batch(e)
  PROVE  Holds(Append(s, e), l)
<1>1. /\ Len(Append(s, e)) = Len(s) + 1 /\ Len(s) \in Nat
      /\ Append(s, e)[Len(s) + 1] = e
      /\ \A i \in 1..Len(s) : Append(s, e)[i] = s[i]
  OBVIOUS
<1>2. QED
  BY <1>1 DEF Holds

LEMMA HoldsBehind ==
  ASSUME NEW s \in Seq(Event), s # <<>>, NEW l, Holds(s, l), l \notin Batch(Head(s))
  PROVE  Holds(Tail(s), l)
<1>1. /\ Head(s) = s[1] /\ Len(Tail(s)) = Len(s) - 1 /\ Len(s) \in Nat
      /\ \A i \in 1..Len(s) : i = 1 \/ (i - 1 \in 1..Len(Tail(s)) /\ Tail(s)[i - 1] = s[i])
  OBVIOUS
<1>2. PICK i \in 1..Len(s) : l \in Batch(s[i])
  BY DEF Holds
<1>3. i - 1 \in 1..Len(Tail(s)) /\ Tail(s)[i - 1] = s[i]
  BY <1>1, <1>2
<1>4. QED
  BY <1>2, <1>3 DEF Holds

LEMMA PumpedHolds ==
  ASSUME NEW b \in SUBSET Local, NEW s \in Seq(Event), NEW t \in Seq(Event), NEW l \in b
  PROVE  Holds((<<[type |-> "local", batch |-> b]>> \o s) \o t, l)
<1> DEFINE e == [type |-> "local", batch |-> b]
           u == (<<e>> \o s) \o t
<1>1. e \in Event /\ Batch(e) = b
  BY EventFields DEF Batch
<1> HIDE DEF e
<1>2. Len(u) = 1 + Len(s) + Len(t) /\ Len(s) \in Nat /\ Len(t) \in Nat /\ u[1] = e
  BY <1>1
<1>3. 1 \in 1..Len(u) /\ l \in Batch(u[1])
  BY <1>1, <1>2
<1>4. QED
  BY <1>3 DEF Holds, e

LEMMA AstrayStep == TypeOK /\ OutboxInv /\ NoCandidateAstray /\ [Next]_vars => NoCandidateAstray'
<1> SUFFICES ASSUME TypeOK, OutboxInv, NoCandidateAstray, [Next]_vars,
                    NEW l \in gathered'
             PROVE  \/ Holds(outbox', l) \/ Holds(events', l) \/ l \in pendingIce' \/ InPost(l)'
                    \/ posted'[l] > 0 \/ l \in dropped' \cup unposted' \/ Dropped'
  BY DEF NoCandidateAstray
<1> USE DEF peer, thread, remote, local, backend, history
<1>0. Dropped => Dropped'
  BY DroppedStays
<1>1. ASSUME l \in gathered
      PROVE  \/ Holds(outbox, l) \/ Holds(events, l) \/ l \in pendingIce \/ InPost(l)
             \/ posted[l] > 0 \/ l \in dropped \cup unposted \/ Dropped'
  BY <1>0, <1>1 DEF NoCandidateAstray
<1>2. outbox = <<>> => ~Holds(outbox, l)
  BY DEF Holds
<1>3. CASE Negotiated \/ PumpError
  <2>1. outbox = <<>> /\ UNCHANGED <<gathered, events, pendingIce, postJob, posting, posted, dropped, unposted>>
    BY <1>3 DEF Negotiated, PumpError, OutboxInv
  <2>2. QED
    BY <1>1, <1>2, <2>1 DEF InPost
<1>4. CASE Pump
  <2>1. outbox = <<>> /\ UNCHANGED <<events, pendingIce, postJob, posting, posted, dropped, unposted>>
    BY <1>4 DEF Pump, OutboxInv
  <2>2. CASE l \in gathered
    BY <1>1, <1>2, <2>1, <2>2 DEF InPost
  <2>3. CASE l \notin gathered
    <3>1. PICK found \in SUBSET (Local \ gathered), now \in Sizes \cup {size}, status \in BOOLEAN :
            /\ gathered' = gathered \cup found
            /\ size' = now
            /\ outbox' = (IF found = {} THEN <<>> ELSE <<[type |-> "local", batch |-> found]>>)
                         \o (IF status THEN <<[type |-> "status"]>> ELSE <<>>)
                         \o (IF now = size THEN <<>> ELSE <<[type |-> "resolution", size |-> now]>>)
            /\ closed' \in {FALSE, status}
      BY <1>4, Zenon DEF Pump
    <3> DEFINE s == IF status THEN <<[type |-> "status"]>> ELSE <<>>
               t == IF now = size THEN <<>> ELSE <<[type |-> "resolution", size |-> now]>>
    <3>2. l \in found /\ found \in SUBSET Local
      BY <2>3, <3>1
    <3>3. s \in Seq(Event)
      <4>1. [type |-> "status"] \in Event
        BY EventFields
      <4>2. QED
        BY <4>1
    <3>4. t \in Seq(Event)
      <4>1. now # size => [type |-> "resolution", size |-> now] \in Event
        BY EventFields
      <4>2. QED
        BY <4>1
    <3>5. outbox' = (<<[type |-> "local", batch |-> found]>> \o s) \o t
      BY <3>1, <3>2
    <3> HIDE DEF s, t
    <3>6. QED
      BY <3>2, <3>3, <3>4, <3>5, PumpedHolds
  <2>4. QED
    BY <2>2, <2>3
<1>5. CASE SendLossy
  <2> DEFINE e == Head(outbox)
  <2>1. /\ outbox # <<>> /\ outbox \in Seq(Event) /\ events \in Seq(Event) /\ e \in Event
        /\ outbox' = Tail(outbox)
        /\ UNCHANGED <<gathered, pendingIce, postJob, posting, posted, unposted>>
    BY <1>5, TailHolds DEF SendLossy, TypeOK
  <2>2. /\ l \in Batch(e) => l \in Carried(e)
        /\ l \notin Batch(e) => l \notin Superseded(e)
    <3>1. l \in Local
      BY <2>1 DEF TypeOK
    <3>2. QED
      BY <3>1, SetsAssumption DEF Batch, Carried, Superseded
  <2>3. Holds(outbox, l) => l \in Batch(e) \/ Holds(outbox', l)
    BY <2>1, HoldsBehind
  <2>4. CASE events' = Append(events, e) /\ dropped' = dropped \ Superseded(e)
    <3>1. Holds(events, l) \/ l \in Batch(e) => Holds(events', l)
      BY <2>1, <2>4, HoldsAppended
    <3>2. QED
      BY <1>1, <2>1, <2>2, <2>3, <2>4, <3>1 DEF InPost
  <2>5. CASE events' = events /\ dropped' = (dropped \ Superseded(e)) \cup Carried(e)
    BY <1>1, <2>1, <2>2, <2>3, <2>5 DEF InPost
  <2>6. QED
    BY <1>5, <2>4, <2>5 DEF SendLossy
<1>6. CASE ReportEnd
  <2>1. Terminal \in Event
    BY EventFields DEF Terminal
  <2>2. Holds(events, l) => Holds(events', l)
    BY <1>6, <2>1, HoldsAppended DEF ReportEnd, TypeOK
  <2>3. UNCHANGED <<outbox, gathered, pendingIce, postJob, posting, posted, dropped, unposted>>
    BY <1>6 DEF ReportEnd
  <2>4. QED
    BY <1>1, <2>2, <2>3 DEF InPost
<1>7. CASE ReceiveEvent
  <2>1. Holds(events, l) => l \in Batch(Head(events)) \/ Holds(events', l)
    BY <1>7, HoldsBehind DEF ReceiveEvent, TypeOK
  <2>2. /\ pendingIce' = pendingIce \cup Batch(Head(events))
        /\ UNCHANGED <<outbox, gathered, postJob, posting, posted, dropped, unposted>>
    BY <1>7 DEF ReceiveEvent
  <2>3. QED
    BY <1>1, <2>1, <2>2 DEF InPost
<1>8. CASE EventsDrained
  <2>1. UNCHANGED <<outbox, events, gathered, posted, dropped, unposted>>
    BY <1>8 DEF EventsDrained
  <2>2. \/ UNCHANGED <<pendingIce, posting>> /\ (postJob = "flight" => postJob' = "flight")
        \/ postJob # "flight" /\ postJob' = "flight" /\ posting' = pendingIce
    BY <1>8 DEF EventsDrained, PostLocalIce
  <2>3. QED
    BY <1>1, <2>1, <2>2 DEF InPost
<1>9. CASE DropWorker
  BY <1>9 DEF DropWorker, Dropped
<1>10. CASE PostEnds
  <2>1. /\ UNCHANGED <<outbox, events, gathered, pendingIce, dropped>>
        /\ \/ /\ posted' = [k \in Local |-> posted[k] + (IF k \in posting THEN 1 ELSE 0)]
              /\ unposted' = unposted
           \/ posted' = posted /\ unposted' = unposted \cup posting
    BY <1>10 DEF PostEnds
  <2>2. l \in Local /\ posted[l] \in Nat
    BY <2>1 DEF TypeOK
  <2>3. QED
    BY <1>1, <2>1, <2>2 DEF InPost
<1>11. CASE /\ UNCHANGED <<outbox, events, gathered, pendingIce, postJob, posting, posted, unposted>>
            /\ dropped \subseteq dropped'
  BY <1>1, <1>11 DEF InPost
<1>12. QED
  BY <1>3, <1>4, <1>5, <1>6, <1>7, <1>8, <1>9, <1>10, <1>11
  DEF Next, ThreadStep, UiStep, Finished, vars, ThreadFails, DrainCommand, EndRound,
      Tick, PollRemoteIce, AddRemote, RemoteAdded, KeepAlive, PointerEvent, ExitStream
--------------------------------------------------------------------------------
(* A thread that is done was told to stop, or its last report is still to be read or *)
(* has been read.                                                                     *)

Reported == \E i \in 1..Len(events) : events[i].type \in {"closed", "error"}
ToldToStop == \E i \in 1..Len(commands) : commands[i] = "stop"
EndInv ==
  /\ rtc = "done" => Dropped \/ ended # "no" \/ Reported
  /\ ToldToStop => Dropped
  /\ ended # "no" => ui \in {"drain", "stopping", "dropped"}

LEMMA EndStep == TypeOK /\ EndInv /\ [Next]_vars => EndInv'
<1> SUFFICES ASSUME TypeOK, EndInv, [Next]_vars PROVE EndInv'
  OBVIOUS
<1> USE DEF peer, thread, remote, local, backend, history
<1>1. CASE DrainCommand
  <2>1. UNCHANGED <<events, ui, ended>> /\ (Reported' <=> Reported) /\ (Dropped' <=> Dropped)
    BY <1>1 DEF DrainCommand, Reported, Dropped
  <2>2. CASE commands = <<>>
    BY <1>1, <2>1, <2>2 DEF DrainCommand, EndInv, ToldToStop
  <2>3. CASE commands # <<>>
    <3>1. /\ commands' = Tail(commands) /\ rtc = "commands"
          /\ rtc' = IF Head(commands) = "stop" THEN "done" ELSE rtc
      BY <1>1, <2>3 DEF DrainCommand
    <3>2. /\ 1 \in 1..Len(commands) /\ Head(commands) = commands[1]
          /\ \A i \in 1..Len(commands') : i + 1 \in 1..Len(commands) /\ commands'[i] = commands[i + 1]
      BY <2>3, <3>1 DEF TypeOK
    <3>3. Head(commands) = "stop" => ToldToStop
      BY <3>2 DEF ToldToStop
    <3>4. ToldToStop' => ToldToStop
      BY <3>2 DEF ToldToStop
    <3>5. QED
      BY <2>1, <3>1, <3>3, <3>4 DEF EndInv
  <2>4. QED
    BY <2>2, <2>3
<1>2. CASE SendLossy
  <2>1. UNCHANGED <<rtc, commands, ui, ended>> /\ rtc = "sending"
    BY <1>2 DEF SendLossy
  <2>2. QED
    BY <2>1 DEF EndInv, ToldToStop, Dropped
<1>3. CASE ReportEnd
  <2>1. /\ UNCHANGED <<commands, ui, ended>> /\ rtc' = "done"
        /\ Dropped \/ events' = Append(events, Terminal)
    BY <1>3 DEF ReportEnd
  <2>2. ASSUME events' = Append(events, Terminal) PROVE Reported'
    <3>1. Terminal \in Event /\ Terminal.type \in {"closed", "error"}
      BY EventFields DEF Terminal
    <3>2. Len(events') = Len(events) + 1 /\ Len(events) \in Nat /\ events'[Len(events) + 1] = Terminal
      BY <2>2, <3>1 DEF TypeOK
    <3>3. QED
      BY <3>1, <3>2 DEF Reported
  <2>3. QED
    BY <2>1, <2>2 DEF EndInv, ToldToStop, Dropped
<1>4. CASE ReceiveEvent
  <2>1. /\ events # <<>> /\ events' = Tail(events) /\ ui = "drain" /\ UNCHANGED <<rtc, commands, ui>>
        /\ ended' = IF Head(events).type \in {"closed", "error"} THEN Head(events).type ELSE ended
    BY <1>4 DEF ReceiveEvent
  <2>2. Reported => Reported' \/ Head(events).type \in {"closed", "error"}
    <3>1. /\ Head(events) = events[1] /\ Len(events) \in Nat
          /\ \A i \in 1..Len(events) :
               i = 1 \/ (i - 1 \in 1..Len(events') /\ events'[i - 1] = events[i])
      BY <2>1 DEF TypeOK
    <3>2. QED
      BY <3>1 DEF Reported
  <2>3. QED
    BY <2>1, <2>2 DEF EndInv, ToldToStop, Dropped
<1>5. CASE AddRemote
  <2>1. PICK c \in toAdd : commands' = commands \/ SendCommand(c)
    BY <1>5 DEF AddRemote
  <2>2. UNCHANGED <<rtc, events, ui, ended>> /\ c # "stop"
    BY <1>5, SetsAssumption DEF AddRemote, TypeOK
  <2>3. ToldToStop' => ToldToStop
    <3>1. CASE commands' = commands
      BY <3>1 DEF ToldToStop
    <3>2. CASE /\ Len(commands') = Len(commands) + 1 /\ commands'[Len(commands) + 1] = c
               /\ \A i \in 1..Len(commands) : commands'[i] = commands[i]
      <4>1. \A i \in 1..Len(commands') : i \in 1..Len(commands) \/ i = Len(commands) + 1
        BY <3>2 DEF TypeOK
      <4>2. QED
        BY <2>2, <3>2, <4>1 DEF ToldToStop
    <3>3. QED
      BY <2>1, <3>1, <3>2, SendCommandType DEF TypeOK
  <2>4. QED
    BY <2>2, <2>3 DEF EndInv, Reported, Dropped
<1>6. CASE PointerEvent
  <2>1. UNCHANGED <<rtc, events, ui, ended>> /\ SendCommand("pointer")
    BY <1>6 DEF PointerEvent
  <2>2. ToldToStop' => ToldToStop
    <3>1. CASE commands' = commands
      BY <3>1 DEF ToldToStop
    <3>2. CASE /\ Len(commands') = Len(commands) + 1 /\ commands'[Len(commands) + 1] = "pointer"
               /\ \A i \in 1..Len(commands) : commands'[i] = commands[i]
      <4>1. \A i \in 1..Len(commands') : i \in 1..Len(commands) \/ i = Len(commands) + 1
        BY <3>2 DEF TypeOK
      <4>2. QED
        BY <3>2, <4>1 DEF ToldToStop
    <3>3. QED
      BY <2>1, <3>1, <3>2, SendCommandType
  <2>3. QED
    BY <2>1, <2>2 DEF EndInv, Reported, Dropped
<1>7. CASE DropWorker
  BY <1>7 DEF DropWorker, EndInv, Dropped
<1>8. CASE Negotiated \/ ThreadFails \/ Pump \/ PumpError \/ EndRound
  <2>1. UNCHANGED <<commands, events, ui, ended>> /\ rtc' # "done"
    BY <1>8 DEF Negotiated, ThreadFails, Pump, PumpError, EndRound
  <2>2. QED
    BY <2>1 DEF EndInv, Reported, ToldToStop, Dropped
<1>9. CASE Tick \/ PollRemoteIce \/ RemoteAdded \/ KeepAlive \/ ExitStream \/ EventsDrained
  <2>1. /\ UNCHANGED <<rtc, commands, events, ended>> /\ ~Dropped
        /\ ended = "no" \/ ui' = "stopping" \/ (ui = "frame" /\ ui' = "drain")
    BY <1>9 DEF Tick, PollRemoteIce, RemoteAdded, KeepAlive, ExitStream, EventsDrained, EndInv, Dropped
  <2>2. QED
    BY <2>1 DEF EndInv, Reported, ToldToStop, Dropped
<1>10. CASE UNCHANGED <<rtc, commands, events, ui, ended>>
  BY <1>10 DEF EndInv, Reported, ToldToStop, Dropped
<1>11. QED
  BY <1>1, <1>2, <1>3, <1>4, <1>5, <1>6, <1>7, <1>8, <1>9, <1>10
  DEF Next, ThreadStep, UiStep, Finished, vars, PostEnds
--------------------------------------------------------------------------------
(* The types of both threads and of what is between them; no channel exceeds its     *)
(* limit.                                                                            *)
THEOREM TypeCorrect == Safety => []TypeOK
  BY InvInit, TypeStep, PTL DEF Safety

(* For any candidates and limits: a remote candidate, however often the service       *)
(* repeats it, is given to the peer at most once, and over the events, the pending    *)
(* set and the post jobs no gathered one is sent to the service twice (backend.rs     *)
(* poll_remote_ice and post_local_ice, worker.rs run_session).                        *)
THEOREM CandidatesCrossOnce == Safety => []CandidateCrossesOnce
<1>1. RemoteInv /\ LocalInv => CandidateCrossesOnce
  BY DEF RemoteInv, LocalInv, CandidateCrossesOnce
<1>2. QED
  BY <1>1, InvInit, TypeStep, RemoteStep, LocalStep, PTL DEF Safety

(* For any sizes and limits: the UI shows the size the thread announced last, unless  *)
(* that announcement was dropped on a full channel: whatever was sent before it,      *)
(* dropped, or met a failing pump, and however sizes come back (worker.rs).           *)
THEOREM ResolutionsArrive == Safety => []ResolutionArrives
<1>1. Init => SizeInv
  BY EmptyAnnounces DEF Init, SizeInv
<1>2. OutboxInv /\ SizeInv => ResolutionArrives
  BY EmptyAnnounces DEF OutboxInv, SizeInv, ResolutionArrives, Dropped
<1>3. QED
  BY <1>1, <1>2, InvInit, TypeStep, SizeStep, PTL DEF Safety

(* No gathered candidate is lost silently: it is in one of the places it travels      *)
(* through, or sent to the service, or its event was dropped, its post failed or the  *)
(* session ended.  GatheredIsPosted needs this, and that each place is emptied.       *)
THEOREM CandidatesStay == Safety => []NoCandidateAstray
<1>1. Init => NoCandidateAstray
  BY DEF Init, NoCandidateAstray
<1>2. QED
  BY <1>1, InvInit, TypeStep, AstrayStep, PTL DEF Safety

(* A thread that has ended was dropped, or its report is in the events channel or was *)
(* read by the drain that will stop the stream: a full channel delays it but never    *)
(* swallows it, and no Stop arrives from an owner that is still there (worker.rs      *)
(* send_important_event, Drop).  EndIsNoticed needs this, and that the UI runs on.     *)
THEOREM EndsAreReported == Safety => []EndInv
<1>1. Init => EndInv
  BY DEF Init, EndInv, ToldToStop
<1>2. QED
  BY <1>1, InvInit, TypeStep, EndStep, PTL DEF Safety
================================================================================
