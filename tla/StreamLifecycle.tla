---------------------------- MODULE StreamLifecycle ----------------------------
(***************************************************************************)
(* The life of a streaming session between the app and the service: the    *)
(* screens of the app that lead to a stream and away from it (app/entry.rs,*)
(* app/command.rs, app/stream_session), the request jobs those screens     *)
(* poll, the cleanup that runs in the background after sign-in, and the    *)
(* sessions the service holds for this account.                            *)
(*                                                                         *)
(* The UI is one thread: what a handler does between two awaits is one     *)
(* step, and while it awaits a stop request only jobs and the service move.*)
(* Requests may fail before or after they reach the service.  List         *)
(* positions, titles, tokens and the texts of errors are left out.         *)
(***************************************************************************)
EXTENDS Integers, FiniteSets

CONSTANTS
  MaxSessions,  \* bound: sessions the service may create
  MaxFailures,  \* MAX_CONSECUTIVE_POLL_FAILURES
  None          \* no session, no list of paths

Kind == {"cloud", "home"}
\* What the account can stream from, each with credentials of its own: the titles it
\* subscribes to, its consoles, and what is free to play.
Offering == {"cloud", "home", "f2p"}
KindOf(offering) == IF offering = "home" THEN "home" ELSE "cloud"
Session == 1..MaxSessions

ASSUME BoundsAssumption ==
  /\ MaxSessions \in Nat \ {0} /\ MaxFailures \in Nat \ {0}
  /\ None \notin Session /\ None # {}

\* The constructors of AppState.
Screen == {"signin", "credentials", "menu", "loading", "list", "starting", "connecting",
           "streaming", "error"}

VARIABLES
  screen,      \* AppState, with Settings unwrapped
  settings,    \* the state is Settings { return_to: screen }
  paused,      \* StreamingSession.paused
  kind,        \* the StreamKind of the screen
  current,     \* the session of Connecting and Streaming
  start,       \* the job of StartingStream
  startPaths,  \* the stale sessions that job has yet to stop
  started,     \* the session its play request created
  poll,        \* poll_job of Connecting, with its result
  failures,    \* consecutive_failures
  primary,     \* the offering of config.cloud
  fallback,    \* config.cloud_f2p is Some
  stopping,    \* the screen to show once an awaited stop is answered, or "no"
  bg,          \* the kind the background cleanup is at, or "off"
  bgPaths,     \* the sessions it has yet to stop, None before it has listed them
  created,     \* external: how many sessions the service has created
  offeringOf,  \* external: their offerings
  alive,       \* external: those still running
  late,        \* external: offerings of play requests under way whose job was aborted
  abandoned,   \* history: running sessions left behind without a stop request
  unstopped,   \* history: running sessions whose stop request failed
  unlisted,    \* history: running sessions whose offering the cleanups of their kind do not ask
  careless     \* history: a cleanup request failed, or a play request outlived its job

app     == <<screen, settings, paused, kind, current, stopping>>
config  == <<primary, fallback>>
jobs    == <<start, startPaths, started, poll, failures>>
cleanup == <<bg, bgPaths>>
service == <<created, offeringOf, alive, late>>
left    == <<abandoned, unstopped, unlisted>>
history == <<left, careless>>
vars == <<app, config, jobs, cleanup, service, history>>

Init ==
  /\ screen = "signin" /\ settings = FALSE /\ paused = FALSE /\ kind = "cloud"
  /\ current = None /\ stopping = "no" /\ primary = "cloud" /\ fallback = FALSE
  /\ start = "none" /\ startPaths = {} /\ started = None /\ poll = "none" /\ failures = 0
  /\ bg = "off" /\ bgPaths = None
  /\ created = 0 /\ offeringOf = [s \in Session |-> "cloud"] /\ alive = {} /\ late = {}
  /\ abandoned = {} /\ unstopped = {} /\ unlisted = {} /\ careless = FALSE

UiFree == stopping = "no"
Shows(s) == UiFree /\ screen = s /\ ~settings

\* credentials_for: a request for a kind reaches one offering, and what is listed for the
\* kind are the sessions of that one.
Reached(k) == IF k = "home" THEN "home" ELSE primary
Active(k) == {s \in alive : offeringOf[s] = Reached(k)}

\* A session ends at the service, or goes on although it was to be stopped; the app lets
\* one go that may be running.
Ends(s) ==
  /\ alive' = alive \ {s}
  /\ abandoned' = abandoned \ {s} /\ unstopped' = unstopped \ {s} /\ unlisted' = unlisted \ {s}
Remains == UNCHANGED <<alive, left>>
Abandon(s) == abandoned' = abandoned \cup ({s} \cap alive)
--------------------------------------------------------------------------------
(* The way to the list of titles or consoles. *)

\* Sign-in, by a saved login or a device code, and then load_credentials.
LoadCredentials ==
  /\ Shows("signin")
  /\ screen' = "credentials"
  /\ UNCHANGED <<settings, paused, kind, current, stopping, jobs, cleanup, config, service, history>>

\* pump_credentials: success sets the credentials and spawns the cleanup of both kinds
\* (bound: one at a time).  Those for what is free to play stand in for the others, if
\* only they were granted; otherwise they are the fallback, if they were.
PumpCredentials ==
  /\ Shows("credentials")
  /\ \/ /\ screen' = "menu" /\ bg = "off" /\ bg' = "cloud" /\ bgPaths' = None
        /\ primary' \in {"cloud", "f2p"} /\ fallback' \in BOOLEAN
        /\ primary' = "f2p" => ~fallback'
        /\ unlisted' = unlisted \cup {s \in alive : offeringOf[s] \notin {"home", primary'}}
     \/ screen' = "signin" /\ UNCHANGED <<cleanup, config, unlisted>>
  /\ UNCHANGED <<settings, paused, kind, current, stopping, jobs, service, abandoned,
                 unstopped, careless>>

ChooseStreamKind(k) ==
  /\ Shows("menu")
  /\ screen' = "loading" /\ kind' = k
  /\ UNCHANGED <<settings, paused, current, stopping, jobs, cleanup, config, service, history>>

\* pump_titles, pump_consoles.
PumpList ==
  /\ Shows("loading")
  /\ screen' \in {"list", "error"}
  /\ UNCHANGED <<settings, paused, kind, current, stopping, jobs, cleanup, config, service, history>>

Back ==
  /\ Shows("loading") \/ Shows("list") \/ Shows("error")
  /\ screen' = "menu"
  /\ UNCHANGED <<settings, paused, kind, current, stopping, jobs, cleanup, config, service, history>>

\* open_settings wraps the state, leave_settings unwraps it.
MenuReachable == Shows("loading") \/ Shows("list") \/ (Shows("streaming") /\ paused)
OpenSettings ==
  /\ MenuReachable
  /\ settings' = TRUE
  /\ UNCHANGED <<screen, paused, kind, current, stopping, jobs, cleanup, config, service, history>>
LeaveSettings ==
  /\ UiFree /\ settings
  /\ settings' = FALSE
  /\ UNCHANGED <<screen, paused, kind, current, stopping, jobs, cleanup, config, service, history>>

\* activate_menu_item(Logout): the state, with the stream it may hold, is replaced.
Logout ==
  /\ MenuReachable
  /\ screen' = "signin"
  /\ current' = None /\ paused' = FALSE
  /\ Abandon(current)
  /\ UNCHANGED <<settings, kind, stopping, jobs, cleanup, config, service, unstopped, unlisted,
                 careless>>
--------------------------------------------------------------------------------
(* StartingStream and its job: cleanup_active_sessions, then start_stream. *)

StartStreamUncleaned ==
  /\ Shows("list")
  /\ screen' = "starting" /\ start' = "play"
  /\ UNCHANGED <<settings, paused, kind, current, stopping, startPaths, started, poll, failures,
                 cleanup, config, service, history>>
StartStream ==
  /\ Shows("list")
  /\ screen' = "starting" /\ start' = "list"
  /\ UNCHANGED <<settings, paused, kind, current, stopping, startPaths, started, poll, failures,
                 cleanup, config, service, history>>

\* get_active_session_paths; on an error the cleanup is skipped.
ListActive ==
  /\ start = "list"
  /\ \/ start' = "clean" /\ startPaths' = Active(kind) /\ careless' = careless
     \/ start' = "play" /\ startPaths' = {} /\ careless' = TRUE
  /\ UNCHANGED <<app, started, poll, failures, cleanup, config, service, left>>

\* stop_session of one path; an error is only logged.
StopActive ==
  /\ start = "clean"
  /\ IF startPaths = {}
     THEN start' = "play" /\ Remains /\ UNCHANGED <<startPaths, careless>>
     ELSE \E s \in startPaths :
            /\ startPaths' = startPaths \ {s}
            /\ \/ Ends(s) /\ careless' = careless
               \/ Remains /\ careless' = TRUE
            /\ start' = start
  /\ UNCHANGED <<app, started, poll, failures, cleanup, config, created, offeringOf, late>>

\* The play request reaches the service (bound: MaxSessions), or is refused or lost.
Create(offering) ==
  /\ created < MaxSessions
  /\ created' = created + 1
  /\ offeringOf' = [offeringOf EXCEPT ![created + 1] = offering]
  /\ alive' = alive \cup {created + 1}
Refused == start' = "failed" /\ UNCHANGED <<created, offeringOf, alive, unlisted>>
Play ==
  /\ start = "play"
  /\ \/ start' = "answering" /\ Create(Reached(kind)) /\ unlisted' = unlisted
     \/ Refused
     \/ /\ kind = "cloud" /\ fallback
        /\ start' = "fallback" /\ UNCHANGED <<created, offeringOf, alive, unlisted>>
  /\ started' = IF start' = "answering" THEN created' ELSE None
  /\ UNCHANGED <<app, startPaths, poll, failures, cleanup, config, late, abandoned, unstopped,
                 careless>>

\* "OfferingDoesNotContainTitle": the title is asked for again among those free to play.
\* No cleanup of the kind lists that session, while config.cloud is for another offering.
PlayFallback ==
  /\ start = "fallback"
  /\ \/ /\ start' = "answering" /\ Create("f2p")
        /\ unlisted' = unlisted \cup {created + 1}
     \/ Refused
  /\ started' = IF start' = "answering" THEN created' ELSE None
  /\ UNCHANGED <<app, startPaths, poll, failures, cleanup, config, late, abandoned, unstopped,
                 careless>>

\* Its answer arrives, or is lost.
PlayAnswered ==
  /\ start = "answering"
  /\ \/ start' = "ok" /\ abandoned' = abandoned
     \/ start' = "failed" /\ Abandon(started)
  /\ started' = IF start' = "ok" THEN started ELSE None
  /\ UNCHANGED <<app, startPaths, poll, failures, cleanup, config, service, unstopped, unlisted,
                 careless>>

\* pump_connection of StartingStream.
PumpStartForgetful ==
  /\ Shows("starting")
  /\ start = "ok"
  /\ start' = "none"
  /\ screen' = "connecting" /\ current' = started
  /\ started' = None /\ failures' = 0 /\ poll' = "none"
  /\ UNCHANGED <<settings, paused, kind, stopping, startPaths, cleanup, config, service, history>>
PumpStart ==
  /\ Shows("starting")
  /\ start \in {"ok", "failed"}
  /\ start' = "none"
  /\ IF start = "ok"
     THEN screen' = "connecting" /\ current' = started
     ELSE screen' = "error" /\ current' = None
  /\ started' = None /\ failures' = 0 /\ poll' = "none"
  /\ UNCHANGED <<settings, paused, kind, stopping, startPaths, cleanup, config, service, history>>

\* The start's session exists, whether or not its answer has arrived.
Starting == start \in {"answering", "ok"}

\* Back in StartingStream aborts the job, wherever it is.
AbortStart ==
  /\ Shows("starting")
  /\ screen' = "list"
  /\ start' = "none" /\ startPaths' = {} /\ started' = None
  /\ Abandon(started)
  /\ late' = CASE start = "play"     -> late \cup {Reached(kind)}
               [] start = "fallback" -> late \cup {"f2p"}
               [] OTHER              -> late
  /\ careless' = (careless \/ start \in {"play", "fallback"})
  /\ UNCHANGED <<settings, paused, kind, current, stopping, poll, failures, cleanup, config,
                 created, offeringOf, alive, unstopped, unlisted>>

\* The play request of an aborted job reaches the service after all, or is lost.
LatePlay ==
  \E offering \in late :
    /\ late' = late \ {offering}
    /\ \/ Create(offering) /\ abandoned' = abandoned \cup {created + 1}
       \/ UNCHANGED <<created, offeringOf, alive, abandoned>>
    /\ UNCHANGED <<app, jobs, cleanup, config, unstopped, unlisted, careless>>
--------------------------------------------------------------------------------
(* Connecting: the provisioning poll. *)

StartPoll ==
  /\ Shows("connecting") /\ poll = "none"
  /\ poll' = "flight"
  /\ UNCHANGED <<app, start, startPaths, started, failures, cleanup, config, service, history>>

\* poll_provisioning ends.  "404" is an error whose text contains it: the answer for a
\* session the service no longer has, or another error's text that happens to.
PollEnds ==
  /\ poll = "flight"
  /\ poll' \in IF current \in alive THEN {"provisioned", "other", "failed", "404"}
                                    ELSE {"404", "failed"}
  /\ UNCHANGED <<app, start, startPaths, started, failures, cleanup, config, service, history>>

\* handle_connecting_poll_result.
Provisioned ==
  /\ poll = "provisioned"
  /\ \/ screen' = "streaming" /\ paused' = FALSE /\ stopping' = stopping
     \/ stopping' = "error" /\ UNCHANGED <<screen, paused>>
  /\ UNCHANGED <<current, failures, abandoned>>
NotYetProvisioned ==
  /\ poll = "other"
  /\ failures' = 0
  /\ UNCHANGED <<screen, paused, current, stopping, abandoned>>
PollFailed ==
  /\ poll \in {"failed", "404"}
  /\ IF poll = "404" \/ failures + 1 >= MaxFailures
     THEN screen' = "error" /\ current' = None /\ failures' = 0
          /\ Abandon(current)
     ELSE failures' = failures + 1 /\ UNCHANGED <<screen, current, abandoned>>
  /\ UNCHANGED <<paused, stopping>>
PumpPoll ==
  /\ Shows("connecting")
  /\ Provisioned \/ NotYetProvisioned \/ PollFailed
  /\ poll' = "none"
  /\ UNCHANGED <<settings, kind, start, startPaths, started, cleanup, config, service, unstopped,
                 unlisted, careless>>

\* Back in Connecting stops the session; a poll under way is detached.
CancelConnecting ==
  /\ Shows("connecting")
  /\ stopping' = "list"
  /\ poll' = "none"
  /\ UNCHANGED <<screen, settings, paused, kind, current, start, startPaths, started, failures,
                 cleanup, config, service, history>>
--------------------------------------------------------------------------------
(* Streaming. *)

SetPaused ==
  /\ Shows("streaming")
  /\ paused' = ~paused
  /\ UNCHANGED <<screen, settings, kind, current, stopping, jobs, cleanup, config, service, history>>

ExitGame ==
  /\ Shows("streaming") /\ paused
  /\ stopping' = "list"
  /\ UNCHANGED <<screen, settings, paused, kind, current, jobs, cleanup, config, service, history>>

\* pump_rtc_session, also under Settings: a closed connection, or an error or a lost
\* keepalive; into_streaming finds the session wherever it is.
StreamEndsUnderSettings ==
  /\ UiFree /\ screen = "streaming"
  /\ IF settings
     THEN screen' = "menu" /\ current' = None /\ stopping' = "no"
     ELSE stopping' \in {"list", "error"} /\ UNCHANGED <<screen, current>>
  /\ settings' = FALSE
  /\ UNCHANGED <<paused, kind, jobs, cleanup, config, service, history>>
StreamEnds ==
  /\ UiFree /\ screen = "streaming"
  /\ stopping' \in {"list", "error"}
  /\ settings' = FALSE
  /\ UNCHANGED <<screen, paused, kind, current, jobs, cleanup, config, service, history>>

\* stream.stop() is answered, or fails; either way the session is dropped.
StopEnds ==
  /\ stopping # "no"
  /\ screen' = stopping /\ stopping' = "no"
  /\ current' = None /\ paused' = FALSE
  /\ \/ Ends(current)
     \/ unstopped' = unstopped \cup ({current} \cap alive) /\ UNCHANGED <<alive, abandoned, unlisted>>
  /\ UNCHANGED <<settings, kind, jobs, cleanup, config, created, offeringOf, late, careless>>
--------------------------------------------------------------------------------
(* The background cleanup, and the service. *)

BgNext ==
  /\ bg' = IF bg = "cloud" THEN "home" ELSE "off"
  /\ bgPaths' = None
BgList ==
  /\ bg # "off" /\ bgPaths = None
  /\ \/ bgPaths' = Active(bg) /\ bg' = bg
     \/ BgNext
  /\ UNCHANGED <<app, config, jobs, service, history>>
BgStop ==
  /\ bg # "off" /\ bgPaths # None
  /\ IF bgPaths = {}
     THEN BgNext /\ Remains
     ELSE \E s \in bgPaths :
            /\ bgPaths' = bgPaths \ {s}
            /\ Ends(s) \/ Remains
            /\ bg' = bg
  /\ UNCHANGED <<app, config, jobs, created, offeringOf, late, careless>>

\* The service ends a session of its own accord.
SessionExpires ==
  /\ \E s \in alive : Ends(s)
  /\ UNCHANGED <<app, jobs, cleanup, config, created, offeringOf, late, careless>>
--------------------------------------------------------------------------------
StartJobStep == ListActive \/ StopActive \/ Play \/ PlayFallback \/ PlayAnswered
UserStep == (\E k \in Kind : ChooseStreamKind(k)) \/ Back \/ OpenSettings \/ LeaveSettings
            \/ Logout \/ StartStream \/ AbortStart \/ CancelConnecting \/ SetPaused \/ ExitGame

Next ==
  \/ LoadCredentials \/ PumpCredentials \/ PumpList
  \/ UserStep
  \/ StartJobStep \/ PumpStart \/ LatePlay
  \/ StartPoll \/ PollEnds \/ PumpPoll
  \/ StreamEnds \/ StopEnds
  \/ BgList \/ BgStop \/ SessionExpires

(* Every request is answered or times out after 30 s, and every tick polls the    *)
(* job of the screen.  The user need not do anything.                             *)
Fairness ==
  /\ WF_vars(StartJobStep) /\ WF_vars(PumpStart)
  /\ WF_vars(StartPoll) /\ WF_vars(PollEnds) /\ WF_vars(PumpPoll)
  /\ WF_vars(StopEnds) /\ WF_vars(BgList \/ BgStop)

Safety == Init /\ [][Next]_vars
Spec == Safety /\ Fairness
--------------------------------------------------------------------------------
TypeOK ==
  /\ screen \in Screen
  /\ settings \in BOOLEAN /\ paused \in BOOLEAN /\ kind \in Kind
  /\ current \in Session \cup {None}
  /\ start \in {"none", "list", "clean", "play", "fallback", "answering", "ok", "failed"}
  /\ startPaths \in SUBSET Session /\ started \in Session \cup {None}
  /\ poll \in {"none", "flight", "provisioned", "other", "failed", "404"}
  /\ failures \in 0..(MaxFailures - 1)
  /\ stopping \in {"no", "list", "error"}
  /\ bg \in Kind \cup {"off"}
  /\ bgPaths = None \/ bgPaths \in SUBSET Session
  /\ created \in 0..MaxSessions /\ offeringOf \in [Session -> Offering] /\ alive \in SUBSET Session
  /\ late \in SUBSET Offering
  /\ primary \in {"cloud", "f2p"} /\ fallback \in BOOLEAN
  /\ abandoned \in SUBSET Session /\ unstopped \in SUBSET Session
  /\ unlisted \in SUBSET Session /\ careless \in BOOLEAN

(* Every session still running at the service is the one the app uses or starts,  *)
(* unless the app left it behind unstopped -- by a logout, an aborted start, a    *)
(* lost answer or given-up polls -- or its stop request failed.  Exiting, going   *)
(* back, and a stream that ends by itself, even under Settings, leave none.       *)
EverySessionAccountedFor ==
  \A s \in alive : s = current \/ s = started \/ s \in abandoned \/ s \in unstopped

(* The cleanup that precedes each start works: an account has one session of a    *)
(* kind at a time, unless a cleanup request failed or a play request outlived its *)
(* aborted job.  Not counted are the sessions no cleanup sees: those a start fell *)
(* back to the free offering for, and those of an offering whose credentials a    *)
(* later sign-in replaced (api.rs start_stream, get_active_session_paths).        *)
OneSessionPerKind ==
  \A k \in Kind :
    Cardinality({s \in alive \ unlisted : KindOf(offeringOf[s]) = k}) <= 1 \/ careless

(* StartingStream always ends: no failing request leaves the screen without a job *)
(* to poll.                                                                       *)
StartResolves == screen = "starting" ~> screen # "starting"

(* "Found {} stale {kind:?} session(s), stopping" (connection.rs): the sessions a *)
(* cleanup stops are stale, never the one the app is connecting to or playing.    *)
StopsOnlyStaleSessions ==
  [][\A s \in alive \ alive' : s = current => bgPaths' = bgPaths]_vars
================================================================================
