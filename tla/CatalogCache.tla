------------------------------ MODULE CatalogCache ------------------------------
(***************************************************************************)
(* The catalog worker with its on-disk cache (api/catalog/cache.rs and the *)
(* metadata half of api/catalog/worker.rs), around the list and channels   *)
(* of Catalog.  Loading a title's details is to read its file, or to fetch *)
(* them and to write the file: removed first, then written, so that it is  *)
(* partial for a while, and stays so if the program is killed or the       *)
(* device is full.                                                         *)
(*                                                                         *)
(* A new worker is spawned while the old one may be in the middle of a job *)
(* or has one queued: it finishes that job, with its file, and exits when  *)
(* it finds the result channel closed.  Files of images change how a job   *)
(* is answered, never in which language, and are left in Run.              *)
(***************************************************************************)
EXTENDS Catalog

CONSTANT Followed    \* bound: the titles whose metadata.json files are followed

File == Followed \X Locale
Progress == [job : Job, step : {"read", "fetch", "write"}]

ASSUME CacheAssumption ==
  /\ Followed \subseteq Title
  /\ {"absent", "partial"} \cap Locale = {} /\ None \notin Progress

VARIABLES
  files,   \* the language of the details in each file, "absent" or "partial"
  step,    \* where the worker is in a job on a followed file
  orphan   \* the old worker's job, and where it is in it, or None

cache == <<files, step, orphan>>
cacheVars == <<vars, cache>>

HasFile(job) == job.key.kind = "metadata" /\ job.key.title \in Followed

\* cache::game_path: the language is part of the path.
GamePathAnyLocale(job) == <<job.key.title, CHOOSE l \in Locale : TRUE>>
GamePath(job) == <<job.key.title, job.locale>>

CacheInit ==
  /\ Init
  /\ files = [f \in File |-> "absent"] /\ step = "read" /\ orphan = None
--------------------------------------------------------------------------------
(* A metadata job, whichever thread runs it. *)

\* cache::read, and serde_json: only a whole file holds details.
Holds(path, value) == value \in Locale /\ files[path] = value
\* cache::write removes the file and writes it anew, as far as it gets.
Written(job) == {job.locale, "partial", "absent"}
\* cache::clear removes the directory, as far as it gets.
Cleared == {[f \in File |-> IF f \in gone THEN "absent" ELSE files[f]] : gone \in SUBSET File}

\* load_cached_metadata, fetch_details, save_cached_metadata: without a file that can be read,
\* or with one that does not parse and is removed if possible, the details are fetched; the
\* file that is there is removed before they are written.
Continues(job, at, next) ==
  \/ /\ at = "read" /\ next = "fetch"
     /\ \/ UNCHANGED files
        \/ /\ files[GamePath(job)] = "partial"
           /\ files' = [files EXCEPT ![GamePath(job)] = "absent"]
  \/ /\ at = "fetch" /\ next = "write"
     /\ files' = [files EXCEPT ![GamePath(job)] = "partial"]

\* What it answers: the file's details; none, if the fetch failed; or what was fetched,
\* even if the directory cannot be made or the write fails.
Answers(job, at, value) ==
  \/ at = "read" /\ Holds(GamePath(job), value) /\ UNCHANGED files
  \/ at = "fetch" /\ value \in {job.locale, "empty"} /\ UNCHANGED files
  \/ /\ at = "write" /\ value = job.locale
     /\ \E outcome \in Written(job) : files' = [files EXCEPT ![GamePath(job)] = outcome]

LoadGoesOn ==
  /\ stage = "running" /\ HasFile(work)
  /\ \E next \in {"fetch", "write"} : Continues(work, step, next) /\ step' = next
  /\ UNCHANGED <<vars, orphan>>
LoadEnds ==
  /\ stage = "running" /\ HasFile(work)
  /\ \E value \in Locale \cup {"empty"} : Answers(work, step, value) /\ RunJob(value)
  /\ step' = "read" /\ UNCHANGED orphan

OrphanGoesOn ==
  /\ orphan # None
  /\ \E next \in {"fetch", "write"} :
       Continues(orphan.job, orphan.step, next) /\ orphan' = [orphan EXCEPT !.step = next]
  /\ UNCHANGED <<vars, step>>
\* Its send fails and the thread ends.
OrphanEnds ==
  /\ orphan # None
  /\ \E value \in Locale \cup {"empty"} : Answers(orphan.job, orphan.step, value)
  /\ orphan' = None
  /\ UNCHANGED <<vars, step>>
--------------------------------------------------------------------------------
(* The new worker, and the old one. *)

\* The job the old worker still runs: its own, or the first it finds queued.
LastJob ==
  CASE stage = "running" -> work
    [] stage = "sending" -> None
    [] stage = "select" /\ jobs # <<>> -> Head(jobs)
    [] OTHER -> IF prefetches # <<>> THEN Head(prefetches) ELSE None

\* bound: one old worker at a time.
LeaveWorkerBehind ==
  /\ orphan = None
  /\ orphan' = IF LastJob # None /\ HasFile(LastJob)
               THEN [job |-> LastJob, step |-> step] ELSE None
  /\ step' = "read"

\* invalidate_catalog_for_locale_change.
ChangeLocale == SetLocale /\ LeaveWorkerBehind /\ files' \in Cleared

\* Logging out leaves the files.
LeaveAccount == Logout /\ LeaveWorkerBehind /\ UNCHANGED files

\* The program is killed, and started again: no thread survives, and the files do.
Restart == Logout /\ orphan' = None /\ step' = "read" /\ UNCHANGED files

CacheNext ==
  \/ /\ \/ PumpTitles \/ ReturnToList \/ LeaveList \/ MoveSelection \/ TickStep
        \/ TakeJob \/ TakePrefetch \/ SendResult
        \/ stage = "running" /\ ~HasFile(work) /\ Run
     /\ UNCHANGED cache
  \/ JobPanics /\ step' = "read" /\ UNCHANGED <<files, orphan>>
  \/ LoadGoesOn \/ LoadEnds \/ OrphanGoesOn \/ OrphanEnds
  \/ ChangeLocale \/ LeaveAccount \/ Restart

CacheSafety == CacheInit /\ [][CacheNext]_cacheVars
--------------------------------------------------------------------------------
CacheTypeOK ==
  /\ files \in [File -> Locale \cup {"absent", "partial"}]
  /\ step \in {"read", "fetch", "write"}
  /\ orphan \in Progress \cup {None}
================================================================================
