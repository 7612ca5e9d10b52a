------------------------- MODULE StreamLifecycle_proofs ------------------------
(***************************************************************************)
(* Proofs about StreamLifecycle, for any number of sessions and of polls   *)
(* that may fail: type correctness, that every running session is known,   *)
(* and that the cleanup before each start leaves one session of a kind and *)
(* never stops the app's own.                                              *)
(***************************************************************************)
EXTENDS StreamLifecycle, FiniteSetTheorems, TLAPS

\* Which screens hold a session, and which states of the start job have created one.
HoldsSession == screen \in {"connecting", "streaming"}
SessionInv ==
  /\ start # "none" => screen = "starting"
  /\ started # None <=> Starting
  /\ current # None <=> HoldsSession
  /\ stopping # "no" => HoldsSession

\* The sessions a cleanup would find now, and those OneSessionPerKind counts.
Listed == {s \in alive : offeringOf[s] \in {"home", primary}}
Counted(k) == {s \in alive \ unlisted : KindOf(offeringOf[s]) = k}

\* What the cleanup before a start has still to stop.  An aborted play request may create
\* a session at any time.
CleanupInv ==
  /\ alive \subseteq 1..created
  /\ late # {} => careless
  /\ start = "clean" /\ ~careless => Active(kind) \subseteq startPaths
  /\ start = "play" /\ ~careless => Active(kind) = {}
  /\ ~careless => alive \subseteq Listed \cup unlisted
  /\ \A k \in Kind : ~careless => \A s, t \in Counted(k) : s = t
--------------------------------------------------------------------------------
LEMMA InvInit == Init => TypeOK /\ SessionInv
<1> SUFFICES ASSUME Init PROVE TypeOK /\ SessionInv
  OBVIOUS
<1>1. 0 \in 0..(MaxFailures - 1) /\ 0 \in 0..MaxSessions
  BY BoundsAssumption
<1>2. offeringOf \in [Session -> Offering] /\ screen \in Screen
  BY DEF Init, Offering, Screen
<1>3. TypeOK
  BY <1>1, <1>2 DEF Init, TypeOK, Kind
<1>4. SessionInv
  BY DEF Init, SessionInv, HoldsSession, Starting
<1>5. QED
  BY <1>3, <1>4

LEMMA CleanupInit == Init => CleanupInv /\ EverySessionAccountedFor
  BY DEF Init, CleanupInv, Counted, EverySessionAccountedFor

(* The next session of the service. *)
LEMMA CreateType ==
  ASSUME TypeOK, NEW o \in Offering, Create(o)
  PROVE  /\ created + 1 \in Session /\ created' = created + 1 /\ created' \in 0..MaxSessions
         /\ offeringOf' \in [Session -> Offering]
         /\ alive' = alive \cup {created + 1} /\ alive' \in SUBSET Session
         /\ offeringOf'[created + 1] = o /\ \A s \in 1..created : offeringOf'[s] = offeringOf[s]
<1>1. created \in 0..MaxSessions /\ created < MaxSessions /\ offeringOf \in [Session -> Offering]
  BY DEF TypeOK, Create
<1>2. created + 1 \in Session /\ created + 1 \in 0..MaxSessions /\ created + 1 \notin 1..created
  BY <1>1, BoundsAssumption DEF Session
<1>3. 1..created \subseteq Session
  BY <1>1, BoundsAssumption DEF Session
<1>4. alive \in SUBSET Session
  BY DEF TypeOK
<1>5. created' = created + 1 /\ alive' = alive \cup {created + 1}
      /\ offeringOf' = [offeringOf EXCEPT ![created + 1] = o]
  BY DEF Create
<1>6. QED
  BY <1>1, <1>2, <1>3, <1>4, <1>5

(* The offering a kind's requests reach is one, and what is listed for the kind and *)
(* counted is of it.                                                                *)
LEMMA ReachedType ==
  ASSUME TypeOK, NEW k \in Kind
  PROVE  Reached(k) \in Offering /\ Reached(k) \in {"home", primary} /\ KindOf(Reached(k)) = k
  BY DEF TypeOK, Reached, Offering, Kind, KindOf

LEMMA CountedIsActive ==
  ASSUME TypeOK, CleanupInv, ~careless, NEW k \in Kind
  PROVE  Counted(k) \subseteq Active(k)
  BY DEF TypeOK, CleanupInv, Counted, Active, Listed, Reached, KindOf, Kind

LEMMA TypeStep == TypeOK /\ SessionInv /\ [Next]_vars => TypeOK'
<1> SUFFICES ASSUME TypeOK, SessionInv, [Next]_vars PROVE TypeOK'
  OBVIOUS
<1> USE BoundsAssumption DEF TypeOK, app, config, jobs, cleanup, service, history, left, Screen
<1>1. CASE LoadCredentials \/ PumpList \/ Back \/ OpenSettings \/ LeaveSettings
  <2>1. settings' \in BOOLEAN /\ screen' \in Screen
    BY <1>1 DEF LoadCredentials, PumpList, Back, OpenSettings, LeaveSettings
  <2>2. UNCHANGED <<paused, kind, current, stopping, jobs, cleanup, config, service, history>>
    BY <1>1 DEF LoadCredentials, PumpList, Back, OpenSettings, LeaveSettings
  <2>3. QED
    BY <2>1, <2>2
<1>1a. CASE PumpCredentials
  <2>1. screen' \in Screen /\ bg' \in Kind \cup {"off"} /\ (bgPaths' = None \/ bgPaths' = bgPaths)
        /\ primary' \in {"cloud", "f2p"} /\ fallback' \in BOOLEAN /\ unlisted' \in SUBSET Session
    BY <1>1a DEF PumpCredentials, Kind
  <2>2. UNCHANGED <<settings, paused, kind, current, stopping, jobs, service, abandoned, unstopped,
                    careless>>
    BY <1>1a DEF PumpCredentials
  <2>3. QED
    BY <2>1, <2>2
<1>2. ASSUME NEW k \in Kind, ChooseStreamKind(k) PROVE TypeOK'
  BY <1>2 DEF ChooseStreamKind
<1>3. CASE Logout
  <2>1. abandoned' \in SUBSET Session
    BY <1>3 DEF Logout, Abandon
  <2>2. screen' \in Screen /\ current' = None /\ paused' \in BOOLEAN
    BY <1>3 DEF Logout
  <2>3. UNCHANGED <<settings, kind, stopping, jobs, cleanup, config, service, unstopped, unlisted,
                    careless>>
    BY <1>3 DEF Logout
  <2>4. QED
    BY <2>1, <2>2, <2>3
<1>4. CASE StartStream
  BY <1>4 DEF StartStream
<1>5. CASE AbortStart
  <2>1. abandoned' \in SUBSET Session /\ late' \in SUBSET Offering /\ started' = None
    <3>1. Reached(kind) \in Offering /\ "f2p" \in Offering
      BY ReachedType DEF Offering
    <3>2. QED
      BY <1>5, <3>1 DEF AbortStart, Abandon
  <2>2. careless' \in BOOLEAN
    BY <1>5, Zenon DEF AbortStart
  <2>3. QED
    BY <1>5, <2>1, <2>2 DEF AbortStart
<1>6. CASE CancelConnecting \/ ExitGame
  BY <1>6 DEF CancelConnecting, ExitGame
<1>7. CASE SetPaused
  <2>1. paused' \in BOOLEAN
    BY <1>7, Zenon DEF SetPaused
  <2>2. QED
    BY <1>7, <2>1 DEF SetPaused
<1>8. CASE ListActive
  <2>1. startPaths' \in SUBSET Session /\ careless' \in BOOLEAN
        /\ start' \in {"clean", "play"}
    BY <1>8 DEF ListActive, Active
  <2>2. QED
    BY <1>8, <2>1 DEF ListActive
<1>9. CASE StopActive
  <2>1. /\ startPaths' \in SUBSET Session /\ alive' \in SUBSET Session
        /\ abandoned' \in SUBSET Session /\ unstopped' \in SUBSET Session
        /\ unlisted' \in SUBSET Session
    BY <1>9 DEF StopActive, Ends, Remains
  <2>2. careless' \in BOOLEAN /\ start' \in {"clean", "play"}
    BY <1>9, Zenon DEF StopActive
  <2>3. QED
    BY <1>9, <2>1, <2>2 DEF StopActive
<1>10. CASE Play \/ PlayFallback
  <2>1. start' \in {"answering", "failed", "fallback"} /\ unlisted' \in SUBSET Session
        /\ created' \in 0..MaxSessions /\ offeringOf' \in [Session -> Offering]
        /\ alive' \in SUBSET Session /\ (start' = "answering" => created' \in Session)
    <3>1. CASE Play /\ start' = "answering" /\ Create(Reached(kind)) /\ unlisted' = unlisted
      BY <3>1, CreateType, ReachedType
    <3>2. CASE /\ start' = "answering" /\ Create("f2p")
               /\ unlisted' = unlisted \cup {created + 1}
      <4>1. "f2p" \in Offering
        BY DEF Offering
      <4>2. QED
        BY <3>2, <4>1, CreateType
    <3>3. CASE /\ start' \in {"failed", "fallback"}
               /\ UNCHANGED <<created, offeringOf, alive, unlisted>>
      BY <3>3
    <3>4. QED
      BY <1>10, <3>1, <3>2, <3>3 DEF Play, PlayFallback, Refused
  <2>2. started' = IF start' = "answering" THEN created' ELSE None
    BY <1>10 DEF Play, PlayFallback
  <2>3. UNCHANGED <<app, startPaths, poll, failures, cleanup, config, late, abandoned, unstopped,
                    careless>>
    BY <1>10 DEF Play, PlayFallback
  <2>4. QED
    BY <2>1, <2>2, <2>3
<1>11. CASE PlayAnswered
  BY <1>11 DEF PlayAnswered, Abandon
<1>12. CASE PumpStart
  BY <1>12 DEF PumpStart
<1>13. CASE LatePlay
  <2> PICK o \in late :
        /\ late' = late \ {o}
        /\ \/ Create(o) /\ abandoned' = abandoned \cup {created + 1}
           \/ UNCHANGED <<created, offeringOf, alive, abandoned>>
        /\ UNCHANGED <<app, jobs, cleanup, config, unstopped, unlisted, careless>>
    BY <1>13 DEF LatePlay
  <2>1. CASE Create(o) /\ abandoned' = abandoned \cup {created + 1}
    BY <2>1, CreateType
  <2>2. CASE UNCHANGED <<created, offeringOf, alive, abandoned>>
    BY <2>2
  <2>3. QED
    BY <2>1, <2>2
<1>14. CASE StartPoll \/ PollEnds
  BY <1>14 DEF StartPoll, PollEnds
<1>15. CASE PumpPoll
  <2>1. CASE Provisioned \/ NotYetProvisioned
    <3>1. /\ screen' \in Screen /\ paused' \in BOOLEAN /\ stopping' \in {"no", "list", "error"}
          /\ failures' \in 0..(MaxFailures - 1)
      <4>1. CASE Provisioned
        BY <4>1 DEF Provisioned
      <4>2. CASE NotYetProvisioned
        BY <4>2 DEF NotYetProvisioned
      <4>3. QED
        BY <2>1, <4>1, <4>2
    <3>2. UNCHANGED <<current, abandoned>>
      BY <2>1 DEF Provisioned, NotYetProvisioned
    <3>3. QED
      BY <1>15, <3>1, <3>2 DEF PumpPoll
  <2>2. CASE PollFailed
    <3>1. abandoned' \in SUBSET Session
      BY <2>2 DEF PollFailed, Abandon
    <3>2. failures' \in 0..(MaxFailures - 1)
      BY <2>2 DEF PollFailed
    <3>3. QED
      BY <1>15, <2>2, <3>1, <3>2 DEF PumpPoll, PollFailed
  <2>3. QED
    BY <1>15, <2>1, <2>2 DEF PumpPoll
<1>16. CASE StreamEnds
  <2>1. /\ stopping' \in {"list", "error"} /\ settings' = FALSE
        /\ UNCHANGED <<screen, paused, kind, current, jobs, cleanup, config, service, history>>
    BY <1>16 DEF StreamEnds
  <2>2. stopping' \in {"no", "list", "error"} /\ settings' \in BOOLEAN
    BY <2>1
  <2>3. QED
    BY <2>1, <2>2
<1>17. CASE StopEnds
  <2>1. UNCHANGED <<settings, kind, jobs, cleanup, config, created, offeringOf, late, careless>>
    BY <1>17 DEF StopEnds
  <2>2. /\ screen' \in Screen /\ stopping' \in {"no", "list", "error"}
        /\ current' \in Session \cup {None} /\ paused' \in BOOLEAN
    BY <1>17 DEF StopEnds
  <2>3. /\ alive' \in SUBSET Session /\ abandoned' \in SUBSET Session
        /\ unstopped' \in SUBSET Session /\ unlisted' \in SUBSET Session
    BY <1>17 DEF StopEnds, Ends
  <2>4. QED
    BY <2>1, <2>2, <2>3
<1>18. CASE BgList
  BY <1>18 DEF BgList, BgNext, Active, Kind
<1>19. CASE BgStop
  BY <1>19 DEF BgStop, BgNext, Kind, Ends, Remains
<1>20. CASE SessionExpires
  BY <1>20 DEF SessionExpires, Ends
<1>21. CASE UNCHANGED vars
  BY <1>21 DEF vars
<1>22. QED
  BY <1>1, <1>2, <1>3, <1>4, <1>5, <1>6, <1>7, <1>8, <1>9, <1>10, <1>11, <1>12, <1>13, <1>14,
     <1>15, <1>16, <1>17, <1>18, <1>19, <1>20, <1>21, <1>1a DEF Next, UserStep, StartJobStep

(* A session is held by the screens that show it and by a start that created it. *)
LEMMA SessionStep == TypeOK /\ SessionInv /\ [Next]_vars => SessionInv'
<1> SUFFICES ASSUME TypeOK, SessionInv, [Next]_vars PROVE SessionInv'
  OBVIOUS
<1> USE DEF SessionInv, HoldsSession, Starting, app, jobs, Shows, UiFree
<1>1. CASE LoadCredentials \/ PumpCredentials \/ PumpList \/ UserStep
  BY <1>1
  DEF LoadCredentials, PumpCredentials, PumpList, UserStep, ChooseStreamKind, Back,
      OpenSettings, LeaveSettings, MenuReachable, Logout, StartStream, AbortStart,
      CancelConnecting, SetPaused, ExitGame
<1>2. CASE ListActive \/ StopActive \/ PlayAnswered
  BY <1>2 DEF ListActive, StopActive, PlayAnswered
<1>3. CASE Play \/ PlayFallback
  <2>1. start' = "answering" => created' # None
    BY <1>3, BoundsAssumption DEF Play, PlayFallback, Refused, Create, TypeOK, Session
  <2>2. QED
    BY <1>3, <2>1 DEF Play, PlayFallback, Refused
<1>4. CASE PumpStart
  BY <1>4 DEF PumpStart
<1>5. CASE LatePlay \/ BgList \/ BgStop \/ SessionExpires \/ UNCHANGED vars
  BY <1>5 DEF LatePlay, BgList, BgStop, SessionExpires, vars
<1>6. CASE StartPoll \/ PollEnds \/ PumpPoll
  BY <1>6 DEF StartPoll, PollEnds, PumpPoll, Provisioned, NotYetProvisioned, PollFailed
<1>7. CASE StreamEnds \/ StopEnds
  BY <1>7 DEF StreamEnds, StopEnds, TypeOK
<1>8. QED
  BY <1>1, <1>2, <1>3, <1>4, <1>5, <1>6, <1>7 DEF Next, StartJobStep

(* No step forgets a running session without leaving it behind or trying to stop it. *)
LEMMA AccountedStep ==
  TypeOK /\ SessionInv /\ EverySessionAccountedFor /\ [Next]_vars => EverySessionAccountedFor'
<1> SUFFICES ASSUME TypeOK, SessionInv, EverySessionAccountedFor, [Next]_vars
             PROVE  EverySessionAccountedFor'
  OBVIOUS
<1> USE DEF EverySessionAccountedFor, SessionInv, HoldsSession, Starting, app, jobs, service,
            history, left, Shows, UiFree, Abandon
<1>1. CASE LoadCredentials \/ PumpCredentials \/ PumpList \/ UserStep
  BY <1>1
  DEF LoadCredentials, PumpCredentials, PumpList, UserStep, ChooseStreamKind, Back,
      OpenSettings, LeaveSettings, MenuReachable, Logout, StartStream, AbortStart,
      CancelConnecting, SetPaused, ExitGame
<1>2. CASE ListActive \/ PlayAnswered
  BY <1>2 DEF ListActive, PlayAnswered
<1>2a. CASE StopActive
  <2>1. UNCHANGED <<current, started>> /\ (Remains \/ \E s \in startPaths : Ends(s))
    BY <1>2a DEF StopActive
  <2>2. QED
    BY <2>1 DEF Remains, Ends
<1>3. CASE Play \/ PlayFallback
  BY <1>3 DEF Play, PlayFallback, Refused, Create
<1>4. CASE PumpStart
  BY <1>4 DEF PumpStart
<1>5. CASE LatePlay
  BY <1>5 DEF LatePlay, Create
<1>6. CASE StartPoll \/ PollEnds \/ PumpPoll
  BY <1>6 DEF StartPoll, PollEnds, PumpPoll, Provisioned, NotYetProvisioned, PollFailed
<1>7. CASE StreamEnds \/ StopEnds
  BY <1>7 DEF StreamEnds, StopEnds, Ends
<1>8. CASE BgStop
  <2>1. UNCHANGED <<current, started>> /\ (Remains \/ \E s \in bgPaths : Ends(s))
    BY <1>8 DEF BgStop
  <2>2. QED
    BY <2>1 DEF Remains, Ends
<1>8a. CASE BgList \/ SessionExpires \/ UNCHANGED vars
  BY <1>8a DEF BgList, SessionExpires, Ends, vars
<1>9. QED
  BY <1>1, <1>2, <1>2a, <1>3, <1>4, <1>5, <1>6, <1>7, <1>8, <1>8a DEF Next, StartJobStep

(* Steps that create no session, and leave the kind, the credentials and the start *)
(* job alone.                                                                       *)
LEMMA CleanupKept ==
  ASSUME CleanupInv, UNCHANGED <<kind, start, startPaths, created, offeringOf, primary>>,
         alive' \subseteq alive, late' \subseteq late, careless => careless',
         late' = {} \/ careless' = careless, alive' \cap unlisted \subseteq unlisted'
  PROVE  CleanupInv'
<1>1. Active(kind)' \subseteq Active(kind)
  BY DEF Active, Reached
<1>2. Listed \cap alive' \subseteq Listed' /\ \A k \in Kind : Counted(k)' \subseteq Counted(k)
  BY DEF Listed, Counted
<1>3. QED
  BY <1>1, <1>2 DEF CleanupInv

(* A session that ended, or did not. *)
LEMMA EndsOrRemains ==
  ASSUME Remains \/ \E s : Ends(s)
  PROVE  alive' \subseteq alive /\ alive' \cap unlisted \subseteq unlisted'
  BY DEF Remains, Ends, left

(* The service counts its sessions. *)
LEMMA CreateCounts ==
  ASSUME TypeOK, alive \subseteq 1..created, NEW o \in Offering, Create(o)
  PROVE  alive' \subseteq 1..created'
<1>1. created \in Nat
  BY DEF TypeOK
<1>2. alive' = alive \cup {created + 1} /\ created' = created + 1
  BY CreateType
<1>3. QED
  BY <1>1, <1>2

(* A new session is the only one counted of its kind, if nothing was careless, or no *)
(* cleanup will see it.                                                              *)
LEMMA CleanupCreate ==
  ASSUME TypeOK, CleanupInv, NEW o \in Offering, Create(o), start' \notin {"clean", "play"},
         UNCHANGED <<careless, late, primary>>,
         \/ unlisted' = unlisted \cup {created + 1}
         \/ /\ unlisted' = unlisted /\ o \in {"home", primary}
            /\ careless \/ Counted(KindOf(o)) = {}
  PROVE  CleanupInv'
<1>1. alive' \subseteq 1..created'
  BY CreateCounts DEF CleanupInv
<1>2. /\ alive' = alive \cup {created + 1} /\ offeringOf'[created + 1] = o
      /\ \A t \in alive : offeringOf'[t] = offeringOf[t]
  BY CreateType DEF CleanupInv
<1>3. ASSUME ~careless' PROVE alive' \subseteq Listed' \cup unlisted'
  <2>1. alive \subseteq Listed \cup unlisted
    BY <1>3 DEF CleanupInv
  <2>2. Listed \subseteq Listed' /\ unlisted \subseteq unlisted'
    BY <1>2 DEF Listed
  <2>3. created + 1 \in Listed' \cup unlisted'
    BY <1>2 DEF Listed
  <2>4. QED
    BY <1>2, <2>1, <2>2, <2>3
<1>4. ASSUME ~careless', NEW k \in Kind, NEW s \in Counted(k)', NEW t \in Counted(k)' PROVE s = t
  <2>1. CASE unlisted' = unlisted \cup {created + 1}
    <3>1. Counted(k)' \subseteq Counted(k)
      BY <1>2, <2>1 DEF Counted
    <3>2. QED
      BY <1>4, <3>1 DEF CleanupInv
  <2>2. CASE unlisted' = unlisted /\ Counted(KindOf(o)) = {}
    <3>1. CASE k = KindOf(o)
      <4>1. Counted(k)' \subseteq {created + 1}
        BY <1>2, <2>2, <3>1 DEF Counted
      <4>2. QED
        BY <1>4, <4>1
    <3>2. CASE k # KindOf(o)
      <4>1. Counted(k)' \subseteq Counted(k)
        BY <1>2, <2>2, <3>2 DEF Counted
      <4>2. QED
        BY <1>4, <4>1 DEF CleanupInv
    <3>3. QED
      BY <3>1, <3>2
  <2>3. QED
    BY <1>4, <2>1, <2>2
<1>5. QED
  BY <1>1, <1>3, <1>4 DEF CleanupInv

LEMMA CleanupStep ==
  TypeOK /\ SessionInv /\ CleanupInv /\ [Next]_vars => CleanupInv'
<1> SUFFICES ASSUME TypeOK, SessionInv, CleanupInv, [Next]_vars PROVE CleanupInv'
  OBVIOUS
<1> USE DEF app, config, jobs, service, history, left, Shows, UiFree
<1>1. CASE LoadCredentials \/ PumpList \/ Back \/ OpenSettings
           \/ LeaveSettings \/ Logout \/ CancelConnecting \/ SetPaused \/ ExitGame
  <2>1. UNCHANGED <<kind, start, startPaths, created, offeringOf, alive, late, careless, primary,
                    unlisted>>
    BY <1>1
    DEF LoadCredentials, PumpList, Back, OpenSettings, LeaveSettings, Logout,
        CancelConnecting, SetPaused, ExitGame
  <2>2. QED
    BY <2>1, CleanupKept
<1>1a. CASE PumpCredentials
  <2>1. /\ UNCHANGED <<created, offeringOf, alive, late, careless>>
        /\ start' \notin {"clean", "play"}
    BY <1>1a DEF PumpCredentials, SessionInv
  <2>2. CASE UNCHANGED <<primary, unlisted>>
    BY <2>1, <2>2 DEF CleanupInv, Listed, Counted
  <2>3. CASE unlisted' = unlisted \cup {s \in alive : offeringOf[s] \notin {"home", primary'}}
    <3>1. alive' \subseteq Listed' \cup unlisted'
      BY <2>1, <2>3 DEF Listed
    <3>2. \A k \in Kind : Counted(k)' \subseteq Counted(k)
      BY <2>1, <2>3 DEF Counted
    <3>3. QED
      BY <2>1, <3>1, <3>2 DEF CleanupInv
  <2>4. QED
    BY <1>1a, <2>2, <2>3 DEF PumpCredentials
<1>2. CASE (\E k \in Kind : ChooseStreamKind(k)) \/ StartStream
  <2>1. /\ UNCHANGED <<created, offeringOf, alive, late, careless, primary, unlisted>>
        /\ start' \notin {"clean", "play"}
    BY <1>2 DEF ChooseStreamKind, StartStream, SessionInv
  <2>2. QED
    BY <2>1 DEF CleanupInv, Listed, Counted
<1>3. CASE ListActive
  <2>1. UNCHANGED <<kind, created, offeringOf, alive, late, primary, unlisted>>
    BY <1>3 DEF ListActive
  <2>2. CASE start' = "clean" /\ startPaths' = Active(kind) /\ careless' = careless
    BY <2>1, <2>2 DEF CleanupInv, Active, Reached, Listed, Counted
  <2>3. CASE start' = "play" /\ careless' = TRUE
    BY <2>1, <2>3 DEF CleanupInv
  <2>4. QED
    BY <1>3, <2>2, <2>3 DEF ListActive
<1>4. CASE StopActive
  <2>1. UNCHANGED <<kind, created, offeringOf, late, primary>> /\ start = "clean"
    BY <1>4 DEF StopActive
  <2>2. CASE startPaths = {}
    <3>1. start' = "play" /\ UNCHANGED <<startPaths, careless, alive, unlisted>>
      BY <1>4, <2>2 DEF StopActive, Remains
    <3>2. QED
      BY <2>1, <2>2, <3>1 DEF CleanupInv, Active, Reached, Listed, Counted
  <2>3. CASE startPaths # {}
    <3>1. PICK s \in startPaths :
            /\ startPaths' = startPaths \ {s}
            /\ \/ Ends(s) /\ careless' = careless
               \/ Remains /\ careless' = TRUE
            /\ start' = start
      BY <1>4, <2>3 DEF StopActive
    <3>2. CASE Ends(s) /\ careless' = careless
      <4>1. alive' = alive \ {s} /\ unlisted' = unlisted \ {s}
        BY <3>2 DEF Ends
      <4>2. Active(kind)' \subseteq Active(kind) \ {s}
        BY <2>1, <4>1 DEF Active, Reached
      <4>3. Listed \ {s} \subseteq Listed' /\ \A k \in Kind : Counted(k)' \subseteq Counted(k)
        BY <2>1, <4>1 DEF Listed, Counted
      <4>4. QED
        BY <2>1, <3>1, <3>2, <4>1, <4>2, <4>3 DEF CleanupInv
    <3>3. CASE Remains /\ careless' = TRUE
      BY <2>1, <3>1, <3>3 DEF CleanupInv, Remains
    <3>4. QED
      BY <3>1, <3>2, <3>3
  <2>4. QED
    BY <2>2, <2>3
<1>5. CASE Play \/ PlayFallback
  <2>1. start' \notin {"clean", "play"} /\ UNCHANGED <<kind, late, careless, primary>>
    BY <1>5 DEF Play, PlayFallback, Refused
  <2>2. CASE Play /\ Create(Reached(kind)) /\ unlisted' = unlisted
    <3>1. /\ kind \in Kind /\ Reached(kind) \in Offering
          /\ Reached(kind) \in {"home", primary} /\ KindOf(Reached(kind)) = kind
      BY ReachedType DEF TypeOK
    <3>2. careless \/ Counted(kind) = {}
      BY <2>2, <3>1, CountedIsActive DEF CleanupInv, Play
    <3>3. QED
      BY <2>1, <2>2, <3>1, <3>2, CleanupCreate
  <2>3. CASE Create("f2p") /\ unlisted' = unlisted \cup {created + 1}
    <3>1. "f2p" \in Offering
      BY DEF Offering
    <3>2. QED
      BY <2>1, <2>3, <3>1, CleanupCreate
  <2>4. CASE UNCHANGED <<created, offeringOf, alive, unlisted>>
    BY <2>1, <2>4 DEF CleanupInv, Listed, Counted
  <2>5. QED
    BY <1>5, <2>2, <2>3, <2>4 DEF Play, PlayFallback, Refused
<1>6. CASE PlayAnswered \/ PumpStart
  <2>1. /\ UNCHANGED <<created, offeringOf, alive, late, careless, primary, unlisted>>
        /\ start' \notin {"clean", "play"}
    BY <1>6 DEF PlayAnswered, PumpStart
  <2>2. QED
    BY <2>1 DEF CleanupInv, Listed, Counted
<1>7. CASE AbortStart
  <2>1. UNCHANGED <<created, offeringOf, alive, primary, unlisted>> /\ start' = "none"
    BY <1>7 DEF AbortStart
  <2>2. (late' # {} => careless') /\ (careless => careless')
    BY <1>7 DEF AbortStart, CleanupInv
  <2>3. QED
    BY <2>1, <2>2 DEF CleanupInv, Listed, Counted
<1>8. CASE LatePlay
  <2>1. PICK o \in late :
          /\ late' = late \ {o}
          /\ \/ Create(o) /\ abandoned' = abandoned \cup {created + 1}
             \/ UNCHANGED <<created, offeringOf, alive, abandoned>>
          /\ UNCHANGED <<app, jobs, cleanup, config, unstopped, unlisted, careless>>
    BY <1>8 DEF LatePlay
  <2>2. careless /\ careless' /\ o \in Offering
    BY <2>1 DEF CleanupInv, TypeOK
  <2>3. alive' \subseteq 1..created'
    <3>1. CASE Create(o)
      BY <2>2, <3>1, CreateCounts DEF CleanupInv
    <3>2. CASE UNCHANGED <<created, offeringOf, alive>>
      BY <3>2 DEF CleanupInv
    <3>3. QED
      BY <2>1, <3>1, <3>2
  <2>4. QED
    BY <2>2, <2>3 DEF CleanupInv
<1>9. CASE StartPoll \/ PollEnds \/ PumpPoll \/ StreamEnds \/ BgList \/ UNCHANGED vars
  <2>1. UNCHANGED <<kind, start, startPaths, created, offeringOf, late, careless, primary, alive,
                    unlisted>>
    BY <1>9
    DEF StartPoll, PollEnds, PumpPoll, Provisioned, NotYetProvisioned, PollFailed, StreamEnds,
        BgList, vars
  <2>2. QED
    BY <2>1, CleanupKept
<1>9a. CASE StopEnds \/ BgStop \/ SessionExpires
  <2>1. UNCHANGED <<kind, start, startPaths, created, offeringOf, late, careless, primary>>
    BY <1>9a DEF StopEnds, BgStop, SessionExpires
  <2>2. alive' \subseteq alive /\ alive' \cap unlisted \subseteq unlisted'
    <3>1. CASE StopEnds /\ UNCHANGED <<alive, unlisted>>
      BY <3>1
    <3>2. CASE Remains \/ \E s : Ends(s)
      BY <3>2, EndsOrRemains
    <3>3. QED
      BY <1>9a, <3>1, <3>2 DEF StopEnds, BgStop, SessionExpires
  <2>3. QED
    BY <2>1, <2>2, CleanupKept
<1>10. QED
  BY <1>1, <1>1a, <1>2, <1>3, <1>4, <1>5, <1>6, <1>7, <1>8, <1>9, <1>9a
  DEF Next, UserStep, StartJobStep
--------------------------------------------------------------------------------
(* The types of the app, its jobs and the service, for every bound on sessions.  *)
THEOREM TypeCorrect == Safety => []TypeOK
  BY InvInit, TypeStep, SessionStep, PTL DEF Safety

(* Every session that still runs is held by the app, was left behind by a step    *)
(* known to leave one, or its stop request failed (connection.rs, playback.rs).   *)
THEOREM SessionsAccountedFor == Safety => []EverySessionAccountedFor
  BY InvInit, CleanupInit, TypeStep, SessionStep, AccountedStep, PTL DEF Safety

(* The cleanup before each start leaves one session of a kind among those it can    *)
(* list, unless one of its requests failed or a play request outlived its job: the   *)
(* credentials it asks with are those the start plays with, so what it does not list *)
(* is what a start fell back to or an earlier sign-in reached (connection.rs,        *)
(* api.rs start_stream, entry.rs pump_credentials).                                  *)
THEOREM OneOfAKind == Safety => []OneSessionPerKind
<1>1. CleanupInv => OneSessionPerKind
  <2> SUFFICES ASSUME CleanupInv, NEW k \in Kind, ~careless PROVE Cardinality(Counted(k)) <= 1
    BY DEF OneSessionPerKind, Counted
  <2>1. CASE Counted(k) = {}
    BY <2>1, FS_EmptySet
  <2>2. CASE Counted(k) # {}
    <3>1. PICK s \in Counted(k) : TRUE
      BY <2>2
    <3>2. Counted(k) = {s}
      BY <3>1 DEF CleanupInv
    <3>3. QED
      BY <3>2, FS_Singleton
  <2>3. QED
    BY <2>1, <2>2
<1>2. QED
  BY <1>1, InvInit, CleanupInit, TypeStep, SessionStep, CleanupStep, PTL DEF Safety

(* The cleanup of a start never stops the session the app uses or is starting: only  *)
(* the user's own stop, the service, or the cleanup spawned after sign-in does (the   *)
(* latter is what StopsOnlyStaleSessions is violated by; connection.rs, command.rs).  *)
OwnSessionIsSpared ==
  [][\A s \in {current, started} :
       s \in alive \ alive' => StopEnds \/ SessionExpires \/ BgStop]_vars

(* When a start stops what it found, its screen shows: the app neither plays nor     *)
(* connects, and the start has no session yet (connection.rs cleanup_active_sessions).*)
THEOREM StartsSpareOwnSession == Safety => OwnSessionIsSpared
<1>1. ASSUME TypeOK, SessionInv, Next, NEW s \in {current, started}, s \in alive \ alive'
      PROVE  StopEnds \/ SessionExpires \/ BgStop
  <2>1. CASE StopActive
    <3>1. start = "clean"
      BY <2>1 DEF StopActive
    <3>2. ~HoldsSession /\ ~Starting
      BY <3>1, <1>1 DEF SessionInv, HoldsSession, Starting
    <3>3. s = None
      BY <3>2, <1>1 DEF SessionInv
    <3>4. QED
      BY <3>3, <1>1, BoundsAssumption DEF TypeOK
  <2>2. CASE Play \/ PlayFallback \/ LatePlay
    <3>1. alive \subseteq alive'
      BY <2>2 DEF Play, PlayFallback, Refused, LatePlay, Create
    <3>2. QED
      BY <3>1, <1>1
  <2>3. CASE LoadCredentials \/ PumpCredentials \/ PumpList \/ UserStep \/ ListActive
             \/ PlayAnswered \/ PumpStart \/ StartPoll \/ PollEnds \/ PumpPoll
             \/ StreamEnds \/ BgList
    <3>1. alive' = alive
      BY <2>3
      DEF LoadCredentials, PumpCredentials, PumpList, UserStep, ChooseStreamKind, Back,
          OpenSettings, LeaveSettings, Logout, StartStream, AbortStart, CancelConnecting,
          SetPaused, ExitGame, ListActive, PlayAnswered, PumpStart, StartPoll, PollEnds,
          PumpPoll, StreamEnds, BgList, service
    <3>2. QED
      BY <3>1, <1>1
  <2>4. QED
    BY <1>1, <2>1, <2>2, <2>3 DEF Next, StartJobStep
<1>2. ASSUME TypeOK, SessionInv, [Next]_vars
      PROVE  [\A s \in {current, started} :
                s \in alive \ alive' => StopEnds \/ SessionExpires \/ BgStop]_vars
  BY <1>1, <1>2
<1>3. QED
  BY <1>2, InvInit, TypeStep, SessionStep, PTL DEF Safety, OwnSessionIsSpared

\* What pump_connection relies on while it shows StartingStream.
StartIsPolled == screen = "starting" => start # "none" /\ ~settings /\ UiFree

LEMMA PolledStep == TypeOK /\ SessionInv /\ StartIsPolled /\ [Next]_vars => StartIsPolled'
<1> SUFFICES ASSUME TypeOK, SessionInv, StartIsPolled, [Next]_vars PROVE StartIsPolled'
  OBVIOUS
<1> USE DEF StartIsPolled, SessionInv, HoldsSession, app, jobs, Shows, UiFree
<1>1. CASE LoadCredentials \/ PumpCredentials \/ PumpList
  BY <1>1 DEF LoadCredentials, PumpCredentials, PumpList
<1>2. CASE UserStep
  BY <1>2
  DEF UserStep, ChooseStreamKind, Back, OpenSettings, LeaveSettings, MenuReachable, Logout,
      StartStream, AbortStart, CancelConnecting, SetPaused, ExitGame
<1>3. CASE StartJobStep
  BY <1>3 DEF StartJobStep, ListActive, StopActive, Play, PlayFallback, Refused, PlayAnswered
<1>4. CASE PumpStart
  BY <1>4 DEF PumpStart
<1>5. CASE StartPoll \/ PollEnds \/ PumpPoll
  BY <1>5 DEF StartPoll, PollEnds, PumpPoll, Provisioned, NotYetProvisioned, PollFailed
<1>6. CASE StreamEnds \/ StopEnds
  BY <1>6 DEF StreamEnds, StopEnds, TypeOK
<1>7. CASE LatePlay \/ BgList \/ BgStop \/ SessionExpires \/ UNCHANGED vars
  BY <1>7 DEF LatePlay, BgList, BgStop, SessionExpires, vars
<1>8. QED
  BY <1>1, <1>2, <1>3, <1>4, <1>5, <1>6, <1>7 DEF Next

(* A start is never shown without a job to poll, nor under Settings or during a stop, *)
(* where its result would not be taken, whichever request fails or was aborted        *)
(* (connection.rs pump_connection).  StartResolves needs this, and that jobs end.     *)
THEOREM StartsArePolled == Safety => []StartIsPolled
<1>1. Init => StartIsPolled
  BY DEF Init, StartIsPolled
<1>2. QED
  BY <1>1, InvInit, TypeStep, SessionStep, PolledStep, PTL DEF Safety
================================================================================
