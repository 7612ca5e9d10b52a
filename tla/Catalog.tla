-------------------------------- MODULE Catalog --------------------------------
(***************************************************************************)
(* The title list's metadata and images: the UI thread that asks for them  *)
(* while the list is shown (app/titles.rs, app/service.rs) and the catalog *)
(* worker thread that loads them (api/catalog/worker.rs), joined by two    *)
(* bounded job channels and a bounded result channel.                      *)
(*                                                                         *)
(* A tick of the list is three steps, between which the worker runs:       *)
(* prune and request for the selected title, prefetch for its neighbours,  *)
(* take results.  A place that becomes free in the moment between the two  *)
(* sends of one prefetch counts as free before or after both.  Cover and   *)
(* background are handled alike, each with its own pending set, and are    *)
(* one kind here, "art".  Pixels are left out.  A job is one step, RunJob; *)
(* CatalogCache has its file in the on-disk cache, and the old worker that *)
(* finishes a last job after a restart.                                    *)
(***************************************************************************)
EXTENDS Integers, FiniteSets, SequencesExt

CONSTANTS
  Count,           \* service.titles.len()
  Unlisted,        \* the titles without a metadata_id
  Radius,          \* ICON_CACHE_RADIUS
  ResultsPerTick,  \* RESULTS_PER_TICK
  JobCap,          \* MAX_PENDING_CATALOG_JOBS
  PrefetchCap,     \* MAX_PENDING_PREFETCH_JOBS
  ResultCap,       \* MAX_PENDING_CATALOG_RESULTS
  Locale,          \* the languages of the settings
  MaxPanics,       \* bound: jobs that may panic
  None             \* no details, no job

Title == 0..(Count - 1)
Key == [title : Title, kind : {"metadata", "icon", "art"}]
Job == [key : Key, locale : Locale]
Result == [key : Key, value : Locale \cup {"empty"}]

ASSUME CatalogAssumption ==
  /\ Count \in Nat \ {0} /\ Unlisted \subseteq Title /\ Radius \in Nat
  /\ {JobCap, PrefetchCap, ResultCap, ResultsPerTick} \subseteq Nat \ {0}
  /\ MaxPanics \in Nat /\ Locale # {} /\ "empty" \notin Locale
  /\ None \notin Locale \cup {"empty"} \cup Job \cup Result

VARIABLES
  listed,      \* the state is TitleList: its ticks run
  tick,        \* where pump_title_details is
  left,        \* how many results it may still take
  selected,    \* TitleList.selected, 0 elsewhere
  locale,      \* settings.locale
  details,     \* Game.details: None, "empty" (no links) or the language they are in
  images,      \* the Game.icon and Game.box_art that are Some
  pending,     \* the pending sets
  jobs,        \* the jobs channel
  prefetches,  \* the prefetch_jobs channel
  results,     \* the results channel
  stage,       \* where the worker thread is
  work,        \* the job it runs, or the result it sends
  lost         \* history: what the current worker's panicked jobs were to load

list     == <<listed, tick, left, selected, locale>>
titles   == <<details, images>>
worker   == <<stage, work>>
channels == <<jobs, prefetches, results>>
vars == <<list, titles, pending, channels, worker, lost>>

Metadata(t) == [title |-> t, kind |-> "metadata"]
Icon(t)     == [title |-> t, kind |-> "icon"]
Art(t)      == [title |-> t, kind |-> "art"]

\* title_distance: the list wraps around.
Abs(n) == IF n < 0 THEN -n ELSE n
Distance(t) == LET direct == Abs(t - selected) IN
               IF direct < Count - direct THEN direct ELSE Count - direct
Near(t) == Distance(t) <= Radius

Init ==
  /\ listed = FALSE /\ tick = "idle" /\ left = 0 /\ selected = 0
  /\ locale \in Locale
  /\ details = [t \in Title |-> None] /\ images = {}
  /\ pending = {} /\ jobs = <<>> /\ prefetches = <<>> /\ results = <<>>
  /\ stage = "select" /\ work = None /\ lost = {}
--------------------------------------------------------------------------------
(* The UI thread: the screens around the list. *)

\* pump_titles, after the mode menu: the service's list replaces the old one.
PumpTitles ==
  /\ ~listed
  /\ listed' = TRUE /\ selected' = 0
  /\ details' = [t \in Title |-> None] /\ images' = {}
  /\ UNCHANGED <<tick, left, locale, pending, channels, worker, lost>>

\* Settings, a stream that ends, or its aborted start, return to the list as it was.
ReturnToList ==
  /\ ~listed
  /\ listed' = TRUE /\ selected' \in Title
  /\ UNCHANGED <<tick, left, locale, titles, pending, channels, worker, lost>>

\* Back, Settings, or a title is started.
LeaveList ==
  /\ listed /\ tick = "idle"
  /\ listed' = FALSE /\ selected' = 0
  /\ UNCHANGED <<tick, left, locale, titles, pending, channels, worker, lost>>

\* The selection moves: by one, to another initial, or by a search.
MoveSelection ==
  /\ listed /\ tick = "idle"
  /\ selected' \in Title \ {selected}
  /\ UNCHANGED <<listed, tick, left, locale, titles, pending, channels, worker, lost>>

\* restart_catalog_worker: a new worker with new channels, and empty pending sets.
RestartCatalogWorker ==
  /\ pending' = {} /\ lost' = {}
  /\ jobs' = <<>> /\ prefetches' = <<>> /\ results' = <<>>
  /\ stage' = "select" /\ work' = None

\* set_locale: another language invalidates the catalog.
SetLocale ==
  /\ ~listed
  /\ locale' \in Locale \ {locale}
  /\ details' = [t \in Title |-> None] /\ images' = {}
  /\ RestartCatalogWorker
  /\ UNCHANGED <<listed, tick, left, selected>>

\* Logging out, and signing in again, restart the worker; a new list follows.
Logout ==
  /\ tick = "idle"
  /\ listed' = FALSE /\ selected' = 0
  /\ details' = [t \in Title |-> None] /\ images' = {}
  /\ RestartCatalogWorker
  /\ UNCHANGED <<tick, left, locale>>
--------------------------------------------------------------------------------
(* The UI thread: one tick of the list, pump_title_details. *)

\* send_job: what does not fit is refused, and so not pending.
JobFor(key) == [key |-> key, locale |-> locale]
RequestMarkedAnyway(key) ==
  /\ jobs' = IF Len(jobs) < JobCap THEN Append(jobs, JobFor(key)) ELSE jobs
  /\ pending' = pending \cup {key}
Request(key) ==
  IF Len(jobs) < JobCap
  THEN jobs' = Append(jobs, JobFor(key)) /\ pending' = pending \cup {key}
  ELSE UNCHANGED <<jobs, pending>>

\* prune_title_images keeps the art of the selected title, and icons near it.
Kept(image) == IF image.kind = "art" THEN image.title = selected ELSE Near(image.title)

\* prune_title_images, then ensure_title_details_job.
EnsureTitleDetails ==
  /\ listed /\ tick = "idle"
  /\ tick' = "prefetch"
  /\ images' = {i \in images : Kept(i)}
  /\ LET wanted == IF details[selected] = None THEN Metadata(selected) ELSE Art(selected) IN
     CASE details[selected] = None /\ selected \in Unlisted /\ wanted \notin pending ->
            details' = [details EXCEPT ![selected] = "empty"] /\ UNCHANGED <<jobs, pending>>
       [] wanted \in pending \cup images' \/ details[selected] = "empty" ->
            UNCHANGED <<details, jobs, pending>>
       [] OTHER -> Request(wanted) /\ UNCHANGED details
  /\ UNCHANGED <<listed, left, selected, locale, prefetches, results, worker, lost>>

\* min_by_key: the first of the nearest titles.
Nearest(set) ==
  CHOOSE t \in set :
    \A u \in set : Distance(t) < Distance(u) \/ (Distance(t) = Distance(u) /\ t <= u)

\* ensure_icon_prefetch_job wants the metadata of the nearest title that has none, unless
\* it is pending, and the icon of the nearest title that lacks it.
MissingAnything == {t \in Title : Near(t)}
Missing == {t \in Title : Near(t) /\ details[t] = None}
WantedMetadata ==
  IF Missing = {} \/ Metadata(Nearest(Missing)) \in pending \/ Nearest(Missing) \in Unlisted
  THEN <<>> ELSE <<Metadata(Nearest(Missing))>>

WithoutIcon ==
  {t \in Title : Near(t) /\ details[t] \in Locale /\ Icon(t) \notin images \cup pending}
WantedIcon == IF WithoutIcon = {} THEN <<>> ELSE <<Icon(Nearest(WithoutIcon))>>

\* send_prefetch: as many as fit, and these are pending.
PrefetchUnmarked(keys) ==
  /\ prefetches' = prefetches \o [i \in DOMAIN keys |-> JobFor(keys[i])]
  /\ pending' = pending
Prefetch(keys) ==
  /\ prefetches' = prefetches \o [i \in DOMAIN keys |-> JobFor(keys[i])]
  /\ pending' = pending \cup ToSet(keys)
Fitting(keys) ==
  LET room == PrefetchCap - Len(prefetches) IN
  IF Len(keys) <= room THEN keys ELSE SubSeq(keys, 1, room)

EnsureIconPrefetch ==
  /\ tick = "prefetch"
  /\ tick' = "results" /\ left' = ResultsPerTick
  /\ Prefetch(Fitting(WantedMetadata \o WantedIcon))
  /\ details' = [t \in Title |->
                   IF t \in Missing \cap Unlisted /\ t = Nearest(Missing) /\ Metadata(t) \notin pending
                   THEN "empty" ELSE details[t]]
  /\ UNCHANGED <<listed, selected, locale, images, jobs, results, worker, lost>>

\* try_recv of one result: its key is no longer pending, and what arrives too late for
\* the selection is dropped.
DeliverAlways(result) ==
  images' = IF result.value # "empty" THEN images \cup {result.key} ELSE images \ {result.key}
DeliverImage(result) ==
  images' = IF result.value # "empty" /\ Kept(result.key) THEN images \cup {result.key}
                                                          ELSE images
Settled(result) == pending \ {result.key}
TakeResult ==
  /\ tick = "results" /\ left > 0 /\ results # <<>>
  /\ LET result == Head(results) IN
       /\ pending' = Settled(result)
       /\ IF result.key.kind = "metadata"
          THEN details' = [details EXCEPT ![result.key.title] = result.value]
               /\ UNCHANGED images
          ELSE DeliverImage(result) /\ UNCHANGED details
  /\ results' = Tail(results) /\ left' = left - 1
  /\ UNCHANGED <<listed, tick, selected, locale, jobs, prefetches, worker, lost>>

EndTick ==
  /\ tick = "results" /\ (left = 0 \/ results = <<>>)
  /\ tick' = "idle" /\ left' = 0
  /\ UNCHANGED <<listed, selected, locale, titles, pending, channels, worker, lost>>
--------------------------------------------------------------------------------
(* The worker thread. *)

\* select_biased tries the jobs first, then the prefetches.
TakeJob ==
  /\ stage = "select"
  /\ IF jobs = <<>>
     THEN prefetches # <<>> /\ stage' = "polled" /\ UNCHANGED <<jobs, work>>
     ELSE stage' = "running" /\ work' = Head(jobs) /\ jobs' = Tail(jobs)
  /\ UNCHANGED <<list, titles, pending, prefetches, results, lost>>
TakePrefetch ==
  /\ stage = "polled"
  /\ stage' = "running" /\ work' = Head(prefetches) /\ prefetches' = Tail(prefetches)
  /\ UNCHANGED <<list, titles, pending, jobs, results, lost>>

\* CatalogJob::run: a failure is a result too, without details or image.
RunJob(value) ==
  /\ stage = "running"
  /\ stage' = "sending" /\ work' = [key |-> work.key, value |-> value]
  /\ UNCHANGED <<list, titles, pending, channels, lost>>

\* A panic is caught; the worker goes on without a result (bound: MaxPanics).
JobPanics ==
  /\ stage = "running" /\ Cardinality(lost) < MaxPanics
  /\ stage' = "select" /\ work' = None
  /\ lost' = lost \cup {work.key}
  /\ UNCHANGED <<list, titles, pending, channels>>

\* The blocking send of the result.
SendResult ==
  /\ stage = "sending" /\ Len(results) < ResultCap
  /\ stage' = "select" /\ work' = None
  /\ results' = Append(results, work)
  /\ UNCHANGED <<list, titles, pending, jobs, prefetches, lost>>
--------------------------------------------------------------------------------
TickStep == EnsureTitleDetails \/ EnsureIconPrefetch \/ TakeResult \/ EndTick
Run == stage = "running" /\ \E value \in {work.locale, "empty"} : RunJob(value)
WorkerStep == TakeJob \/ TakePrefetch \/ Run \/ SendResult

Next ==
  \/ PumpTitles \/ ReturnToList \/ LeaveList \/ MoveSelection
  \/ SetLocale \/ Logout
  \/ TickStep \/ WorkerStep \/ JobPanics

(* While the list is shown it ticks, and the worker thread runs: every fetch ends  *)
(* within its 8 s timeout, and one that is repeated for ever does not always fail. *)
ArtLoads(t) == stage = "running" /\ work.key = Art(t) /\ RunJob(work.locale)
Fairness ==
  /\ WF_vars(TickStep) /\ WF_vars(WorkerStep)
  /\ \A t \in Title : SF_vars(ArtLoads(t))

Safety == Init /\ [][Next]_vars
Spec == Safety /\ Fairness
--------------------------------------------------------------------------------
TypeOK ==
  /\ listed \in BOOLEAN
  /\ tick \in {"idle", "prefetch", "results"} /\ left \in 0..ResultsPerTick
  /\ selected \in Title /\ locale \in Locale
  /\ details \in [Title -> Locale \cup {None, "empty"}]
  /\ images \subseteq Key /\ pending \subseteq Key /\ lost \subseteq Key
  /\ jobs \in Seq(Job) /\ Len(jobs) <= JobCap
  /\ prefetches \in Seq(Job) /\ Len(prefetches) <= PrefetchCap
  /\ results \in Seq(Result) /\ Len(results) <= ResultCap
  /\ stage \in {"select", "polled", "running", "sending"}
  /\ work \in Job \cup Result \cup {None}

(* "The pending-request set matching kind, so a fetch isn't re-queued while in     *)
(* flight" (titles.rs): what is pending is exactly what a channel or the worker    *)
(* holds, once -- but for panicked jobs, which stay pending until a restart.       *)
InFlight(key) ==
  Cardinality({i \in DOMAIN jobs : jobs[i].key = key})
  + Cardinality({i \in DOMAIN prefetches : prefetches[i].key = key})
  + Cardinality({i \in DOMAIN results : results[i].key = key})
  + (IF work # None /\ work.key = key THEN 1 ELSE 0)
FetchedOnce ==
  \A key \in Key :
    InFlight(key) + (IF key \in lost THEN 1 ELSE 0) = (IF key \in pending THEN 1 ELSE 0)

(* No title shows details in another language than the settings': nothing an old  *)
(* worker loaded arrives after a change (settings.rs set_locale, service.rs).     *)
DetailsInLocale == \A t \in Title : details[t] \in {None, "empty", locale}

(* Each tick holds the images of its own selection only, whatever arrives late:   *)
(* the art of one title and the icons near it (titles.rs prune_title_images).     *)
ImagesNearSelection == tick # "idle" => \A image \in images : Kept(image)

(* Once the user rests on a title, every title near it gets its details, although *)
(* only the nearest one without is ever asked for, unless a job panicked: that one *)
(* is asked for no more, and those behind it wait with it (titles.rs).            *)
Resting == <>[]listed /\ <>[][UNCHANGED selected]_vars
NeighboursGetDetails ==
  Resting => \A t \in Title : Near(t) ~> ~Near(t) \/ details[t] # None \/ lost # {}

(* The art of the title the user rests on is shown in the end, however full the   *)
(* channels were when it was wanted and however often loading it failed.          *)
SelectedArtIsShown ==
  Resting =>
    \A t \in Title :
      (selected = t /\ details[t] \in Locale) ~>
        Art(t) \in images \/ selected # t \/ details[t] = None \/ lost # {}
================================================================================
