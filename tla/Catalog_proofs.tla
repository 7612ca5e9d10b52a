----------------------------- MODULE Catalog_proofs ----------------------------
(***************************************************************************)
(* Proofs about Catalog and CatalogCache, for lists, channels and radii of *)
(* any size: type correctness, that details are shown in the settings'     *)
(* language, and that the worker with the on-disk cache implements the one *)
(* whose jobs are a single step, so that what holds of that holds of it.   *)
(***************************************************************************)
EXTENDS CatalogCache, FiniteSetTheorems, FunctionTheorems, WellFoundedInduction, TLAPS

\* What the worker thread has in hand.
WorkInv ==
  /\ stage = "running" => work \in Job
  /\ stage = "sending" => work \in Result
  /\ stage = "polled" => prefetches # <<>>

\* Everything on its way to the list is in the settings' language.
LocaleInv ==
  /\ \A i \in 1..Len(jobs) : jobs[i].locale = locale
  /\ \A i \in 1..Len(prefetches) : prefetches[i].locale = locale
  /\ \A i \in 1..Len(results) : results[i].value \in {locale, "empty"}
  /\ stage = "running" => work.locale = locale
  /\ stage = "sending" => work.value \in {locale, "empty"}
--------------------------------------------------------------------------------
(* Every set of titles has a nearest one. *)

LEMMA SmallestNat ==
  ASSUME NEW T \in SUBSET Nat, T # {}
  PROVE  \E x \in T : \A y \in T : x <= y
<1>1. PICK x \in T : \A y \in T : ~(<<y, x>> \in OpToRel(<, Nat))
  BY NatLessThanWellFounded, WFMin, Zenon
<1>2. \A y \in T : ~(y < x)
  BY <1>1 DEF OpToRel
<1>3. QED
  BY <1>2

LEMMA FirstTitle == 0 \in Title
  BY CatalogAssumption DEF Title

LEMMA DistanceType == TypeOK => \A t \in Title : Distance(t) \in Nat
  BY CatalogAssumption DEF TypeOK, Distance, Abs, Title

LEMMA NearestType ==
  ASSUME TypeOK, NEW T \in SUBSET Title, T # {}
  PROVE  Nearest(T) \in T
<1> DEFINE D == {Distance(t) : t \in T}
<1>1. PICK d \in D : \A e \in D : d <= e
  BY SmallestNat, DistanceType
<1> DEFINE F == {t \in T : Distance(t) = d}
<1>2. F \in SUBSET Nat /\ F # {}
  BY <1>1 DEF Title
<1>3. PICK t \in F : \A u \in F : t <= u
  BY <1>2, SmallestNat
<1>4. \A u \in T : Distance(t) < Distance(u) \/ (Distance(t) = Distance(u) /\ t <= u)
  <2> TAKE u \in T
  <2>1. Distance(t) <= Distance(u) /\ Distance(t) \in Nat /\ Distance(u) \in Nat
    BY <1>1, <1>3, DistanceType
  <2>2. CASE Distance(u) = Distance(t)
    BY <1>3, <2>2
  <2>3. CASE Distance(u) # Distance(t)
    BY <2>1, <2>3
  <2>4. QED
    BY <2>2, <2>3
<1>5. QED
  BY <1>3, <1>4 DEF Nearest
--------------------------------------------------------------------------------
(* Keys, jobs and the channels that take them. *)

LEMMA KeyTypes ==
  ASSUME NEW t \in Title
  PROVE  Metadata(t) \in Key /\ Icon(t) \in Key /\ Art(t) \in Key
  BY DEF Metadata, Icon, Art, Key

LEMMA JobFields ==
  /\ \A j \in Job : j.key \in Key /\ j.locale \in Locale
  /\ \A r \in Result : r.key \in Key /\ r.value \in Locale \cup {"empty"}
  /\ \A k \in Key : k.title \in Title
  BY DEF Job, Result, Key

LEMMA JobForType ==
  ASSUME TypeOK, NEW key \in Key
  PROVE  JobFor(key) \in Job /\ JobFor(key).locale = locale /\ JobFor(key).key = key
  BY DEF TypeOK, JobFor, Job

(* Empty channels. *)
LEMMA EmptyChannels ==
  /\ <<>> \in Seq(Job) /\ <<>> \in Seq(Result) /\ Len(<<>>) = 0
  /\ 0 <= JobCap /\ 0 <= PrefetchCap /\ 0 <= ResultCap
  BY CatalogAssumption

(* One more message, and the messages after the first. *)
LEMMA AppendOne ==
  ASSUME NEW S, NEW s \in Seq(S), NEW x \in S
  PROVE  /\ Append(s, x) \in Seq(S) /\ Len(Append(s, x)) = Len(s) + 1
         /\ \A i \in 1..Len(Append(s, x)) : Append(s, x)[i] = x \/ (i \in 1..Len(s) /\ Append(s, x)[i] = s[i])
  OBVIOUS

LEMMA TailRest ==
  ASSUME NEW S, NEW s \in Seq(S), s # <<>>
  PROVE  /\ Head(s) \in S /\ Head(s) = s[1] /\ 1 \in 1..Len(s)
         /\ Tail(s) \in Seq(S) /\ Len(Tail(s)) = Len(s) - 1
         /\ \A i \in 1..Len(Tail(s)) : i + 1 \in 1..Len(s) /\ Tail(s)[i] = s[i + 1]
  OBVIOUS

(* send_job: what is sent fits. *)
LEMMA RequestType ==
  ASSUME TypeOK, NEW key \in Key, Request(key)
  PROVE  /\ jobs' \in Seq(Job) /\ Len(jobs') <= JobCap /\ pending' \subseteq Key
         /\ \A i \in 1..Len(jobs') : jobs'[i].locale = locale
                                     \/ (i \in 1..Len(jobs) /\ jobs'[i] = jobs[i])
<1>1. CASE Len(jobs) < JobCap
  <2>1. jobs \in Seq(Job) /\ JobFor(key) \in Job /\ JobFor(key).locale = locale
    BY JobForType DEF TypeOK
  <2>2. jobs' = Append(jobs, JobFor(key)) /\ pending' = pending \cup {key}
    BY <1>1 DEF Request
  <2>3. /\ jobs' \in Seq(Job) /\ Len(jobs') = Len(jobs) + 1
        /\ \A i \in 1..Len(jobs') : jobs'[i] = JobFor(key)
                                    \/ (i \in 1..Len(jobs) /\ jobs'[i] = jobs[i])
    BY <2>1, <2>2, AppendOne
  <2>4. QED
    BY <1>1, <2>1, <2>2, <2>3, CatalogAssumption DEF TypeOK
<1>2. CASE ~(Len(jobs) < JobCap)
  BY <1>2 DEF Request, TypeOK
<1>3. QED
  BY <1>1, <1>2

(* ensure_icon_prefetch_job wants keys of titles in the list. *)
LEMMA WantedType ==
  ASSUME TypeOK
  PROVE  WantedMetadata \o WantedIcon \in Seq(Key)
<1>1. WantedMetadata \in Seq(Key)
  <2>1. CASE Missing = {} \/ Metadata(Nearest(Missing)) \in pending \/ Nearest(Missing) \in Unlisted
    BY <2>1 DEF WantedMetadata
  <2>2. CASE ~(Missing = {} \/ Metadata(Nearest(Missing)) \in pending
               \/ Nearest(Missing) \in Unlisted)
    <3>1. Nearest(Missing) \in Title
      BY <2>2, NearestType DEF Missing
    <3>2. Metadata(Nearest(Missing)) \in Key
      BY <3>1, KeyTypes
    <3>3. QED
      BY <2>2, <3>2 DEF WantedMetadata
  <2>3. QED
    BY <2>1, <2>2
<1>2. WantedIcon \in Seq(Key)
  <2>1. CASE WithoutIcon = {}
    BY <2>1 DEF WantedIcon
  <2>2. CASE WithoutIcon # {}
    <3>1. Nearest(WithoutIcon) \in Title
      BY <2>2, NearestType DEF WithoutIcon
    <3>2. Icon(Nearest(WithoutIcon)) \in Key
      BY <3>1, KeyTypes
    <3>3. QED
      BY <2>2, <3>2 DEF WantedIcon
  <2>3. QED
    BY <2>1, <2>2
<1>3. QED
  BY <1>1, <1>2

(* send_prefetch takes what fits. *)
LEMMA FittingType ==
  ASSUME TypeOK, NEW keys \in Seq(Key)
  PROVE  Fitting(keys) \in Seq(Key) /\ Len(prefetches) + Len(Fitting(keys)) <= PrefetchCap
<1> DEFINE room == PrefetchCap - Len(prefetches)
<1>1. room \in Nat /\ PrefetchCap \in Nat /\ Len(prefetches) \in Nat /\ Len(keys) \in Nat
  BY CatalogAssumption DEF TypeOK
<1>2. CASE Len(keys) <= room
  <2>1. Fitting(keys) = keys
    BY <1>2 DEF Fitting
  <2>2. QED
    BY <1>1, <1>2, <2>1
<1>3. CASE ~(Len(keys) <= room)
  <2>1. Fitting(keys) = SubSeq(keys, 1, room)
    BY <1>3 DEF Fitting
  <2>2. SubSeq(keys, 1, room) \in Seq(Key) /\ Len(SubSeq(keys, 1, room)) = room
    BY <1>1, <1>3
  <2>3. QED
    BY <1>1, <2>1, <2>2
<1>4. QED
  BY <1>2, <1>3

LEMMA PrefetchType ==
  ASSUME TypeOK, NEW keys \in Seq(Key), Len(prefetches) + Len(keys) <= PrefetchCap, Prefetch(keys)
  PROVE  /\ prefetches' \in Seq(Job) /\ Len(prefetches') <= PrefetchCap /\ pending' \subseteq Key
         /\ \A i \in 1..Len(prefetches') :
              prefetches'[i].locale = locale
              \/ (i \in 1..Len(prefetches) /\ prefetches'[i] = prefetches[i])
<1> DEFINE new == [i \in DOMAIN keys |-> JobFor(keys[i])]
<1>1. DOMAIN keys = 1..Len(keys) /\ Len(keys) \in Nat /\ \A i \in 1..Len(keys) : keys[i] \in Key
  OBVIOUS
<1>2. \A i \in 1..Len(keys) : JobFor(keys[i]) \in Job /\ JobFor(keys[i]).locale = locale
  BY <1>1, JobForType
<1>3. new \in Seq(Job) /\ Len(new) = Len(keys) /\ \A i \in 1..Len(new) : new[i].locale = locale
  BY <1>1, <1>2
<1> HIDE DEF new
<1>4. prefetches' = prefetches \o new /\ prefetches \in Seq(Job)
  BY DEF Prefetch, new, TypeOK
<1>5. /\ prefetches' \in Seq(Job) /\ Len(prefetches') = Len(prefetches) + Len(new)
      /\ \A i \in 1..Len(prefetches') :
           \/ i \in 1..Len(prefetches) /\ prefetches'[i] = prefetches[i]
           \/ i - Len(prefetches) \in 1..Len(new) /\ prefetches'[i] = new[i - Len(prefetches)]
  <2>1. \A s, t \in Seq(Job) :
          /\ s \o t \in Seq(Job) /\ Len(s \o t) = Len(s) + Len(t)
          /\ \A i \in 1..Len(s \o t) :
               \/ i \in 1..Len(s) /\ (s \o t)[i] = s[i]
               \/ i - Len(s) \in 1..Len(t) /\ (s \o t)[i] = t[i - Len(s)]
    OBVIOUS
  <2>2. QED
    BY <1>3, <1>4, <2>1, Zenon
<1>6. pending' \subseteq Key
  BY <1>1 DEF Prefetch, TypeOK, ToSet
<1>7. QED
  BY <1>3, <1>5, <1>6
--------------------------------------------------------------------------------
(* Type correctness. *)

LEMMA InvInit == Init => TypeOK /\ WorkInv /\ LocaleInv /\ DetailsInLocale
<1> SUFFICES ASSUME Init PROVE TypeOK /\ WorkInv /\ LocaleInv /\ DetailsInLocale
  OBVIOUS
<1>1. selected \in Title /\ left \in 0..ResultsPerTick
  BY CatalogAssumption DEF Init, Title
<1>2. TypeOK
  BY <1>1, EmptyChannels DEF Init, TypeOK
<1>3. WorkInv /\ LocaleInv /\ DetailsInLocale
  BY EmptyChannels DEF Init, WorkInv, LocaleInv, DetailsInLocale
<1>4. QED
  BY <1>2, <1>3

LEMMA TypeStep == TypeOK /\ WorkInv /\ [Next]_vars => TypeOK' /\ WorkInv'
<1> SUFFICES ASSUME TypeOK, WorkInv, [Next]_vars PROVE TypeOK' /\ WorkInv'
  OBVIOUS
<1> USE DEF list, titles, worker, channels
<1>1. CASE PumpTitles \/ ReturnToList \/ LeaveList \/ MoveSelection
  <2>1. /\ listed' \in BOOLEAN /\ selected' \in Title /\ images' \subseteq Key
        /\ details' \in [Title -> Locale \cup {None, "empty"}]
    BY <1>1, FirstTitle DEF PumpTitles, ReturnToList, LeaveList, MoveSelection, TypeOK
  <2>2. UNCHANGED <<tick, left, locale, pending, channels, worker, lost>>
    BY <1>1 DEF PumpTitles, ReturnToList, LeaveList, MoveSelection
  <2>3. QED
    BY <2>1, <2>2 DEF TypeOK, WorkInv
<1>2. ASSUME RestartCatalogWorker
      PROVE  /\ pending' \subseteq Key /\ lost' \subseteq Key
             /\ jobs' \in Seq(Job) /\ Len(jobs') <= JobCap
             /\ prefetches' \in Seq(Job) /\ Len(prefetches') <= PrefetchCap
             /\ results' \in Seq(Result) /\ Len(results') <= ResultCap
             /\ stage' = "select" /\ work' = None
  BY <1>2, EmptyChannels DEF RestartCatalogWorker
<1>3. CASE SetLocale
  BY <1>2, <1>3 DEF SetLocale, TypeOK, WorkInv
<1>4. CASE Logout
  <2>1. selected' \in Title
    BY <1>4, CatalogAssumption DEF Logout, Title
  <2>2. QED
    BY <1>2, <1>4, <2>1 DEF Logout, TypeOK, WorkInv
<1>5. CASE EnsureTitleDetails
  <2>1. /\ tick' = "prefetch" /\ images' \subseteq Key
        /\ UNCHANGED <<listed, left, selected, locale, prefetches, results, worker, lost>>
    BY <1>5 DEF EnsureTitleDetails, TypeOK
  <2>2. /\ details' \in [Title -> Locale \cup {None, "empty"}]
        /\ jobs' \in Seq(Job) /\ Len(jobs') <= JobCap /\ pending' \subseteq Key
    <3> DEFINE wanted == IF details[selected] = None THEN Metadata(selected) ELSE Art(selected)
    <3>1. wanted \in Key
      BY KeyTypes DEF TypeOK
    <3>2. CASE details' = [details EXCEPT ![selected] = "empty"] /\ UNCHANGED <<jobs, pending>>
      BY <3>2 DEF TypeOK
    <3>3. CASE UNCHANGED <<details, jobs, pending>>
      BY <3>3 DEF TypeOK
    <3>4. CASE Request(wanted) /\ UNCHANGED details
      BY <3>1, <3>4, RequestType DEF TypeOK
    <3>5. QED
      BY <1>5, <3>2, <3>3, <3>4, Zenon DEF EnsureTitleDetails
  <2>3. QED
    BY <2>1, <2>2 DEF TypeOK, WorkInv
<1>6. CASE EnsureIconPrefetch
  <2> DEFINE keys == Fitting(WantedMetadata \o WantedIcon)
  <2>1. /\ prefetches' \in Seq(Job) /\ Len(prefetches') <= PrefetchCap /\ pending' \subseteq Key
        /\ prefetches # <<>> => prefetches' # <<>>
    <3>1. keys \in Seq(Key) /\ Len(prefetches) + Len(keys) <= PrefetchCap /\ Prefetch(keys)
      BY <1>6, WantedType, FittingType DEF EnsureIconPrefetch
    <3>2. prefetches # <<>> => prefetches' # <<>>
      BY <3>1 DEF Prefetch, TypeOK
    <3>3. QED
      BY <3>1, <3>2, PrefetchType
  <2>2. /\ tick' = "results" /\ left' \in 0..ResultsPerTick
        /\ UNCHANGED <<listed, selected, locale, images, jobs, results, worker, lost>>
    BY <1>6, CatalogAssumption DEF EnsureIconPrefetch
  <2>3. details' \in [Title -> Locale \cup {None, "empty"}]
    BY <1>6 DEF EnsureIconPrefetch, TypeOK
  <2>4. QED
    BY <2>1, <2>2, <2>3 DEF TypeOK, WorkInv
<1>7. CASE TakeResult
  <2>1. /\ Head(results) \in Result /\ Tail(results) \in Seq(Result)
        /\ Len(Tail(results)) <= ResultCap
    BY <1>7, TailRest, CatalogAssumption DEF TakeResult, TypeOK
  <2>2. /\ Head(results).key \in Key /\ Head(results).value \in Locale \cup {"empty"}
        /\ Head(results).key.title \in Title
    BY <2>1, JobFields
  <2>3. /\ details' \in [Title -> Locale \cup {None, "empty"}]
        /\ images' \subseteq Key /\ pending' \subseteq Key
    BY <1>7, <2>2 DEF TakeResult, Settled, DeliverImage, TypeOK
  <2>4. left' \in 0..ResultsPerTick
    BY <1>7, CatalogAssumption DEF TakeResult, TypeOK
  <2>5. QED
    BY <1>7, <2>1, <2>3, <2>4 DEF TakeResult, TypeOK, WorkInv
<1>8. CASE EndTick
  BY <1>8, CatalogAssumption DEF EndTick, TypeOK, WorkInv
<1>9. CASE TakeJob
  <2>1. CASE jobs = <<>>
    BY <1>9, <2>1 DEF TakeJob, TypeOK, WorkInv
  <2>2. CASE jobs # <<>>
    <3>1. Head(jobs) \in Job /\ Tail(jobs) \in Seq(Job) /\ Len(Tail(jobs)) <= JobCap
      BY <2>2, TailRest, CatalogAssumption DEF TypeOK
    <3>2. QED
      BY <1>9, <2>2, <3>1 DEF TakeJob, TypeOK, WorkInv
  <2>3. QED
    BY <2>1, <2>2
<1>10. CASE TakePrefetch
  <2>1. /\ Head(prefetches) \in Job /\ Tail(prefetches) \in Seq(Job)
        /\ Len(Tail(prefetches)) <= PrefetchCap
    BY <1>10, TailRest, CatalogAssumption DEF TakePrefetch, TypeOK, WorkInv
  <2>2. QED
    BY <1>10, <2>1 DEF TakePrefetch, TypeOK, WorkInv
<1>11. CASE Run
  <2>1. PICK value \in {work.locale, "empty"} : RunJob(value)
    BY <1>11 DEF Run
  <2>2. [key |-> work.key, value |-> value] \in Result
    BY <2>1, JobFields DEF RunJob, WorkInv, Result
  <2>3. QED
    BY <2>1, <2>2 DEF RunJob, TypeOK, WorkInv
<1>12. CASE JobPanics
  <2>1. work.key \in Key
    BY <1>12, JobFields DEF JobPanics, WorkInv
  <2>2. QED
    BY <1>12, <2>1 DEF JobPanics, TypeOK, WorkInv
<1>13. CASE SendResult
  <2>1. results' \in Seq(Result) /\ Len(results') <= ResultCap
    BY <1>13, AppendOne, CatalogAssumption DEF SendResult, TypeOK, WorkInv
  <2>2. QED
    BY <1>13, <2>1 DEF SendResult, TypeOK, WorkInv
<1>14. CASE UNCHANGED vars
  BY <1>14 DEF vars, TypeOK, WorkInv
<1>15. QED
  BY <1>1, <1>3, <1>4, <1>5, <1>6, <1>7, <1>8, <1>9, <1>10, <1>11, <1>12, <1>13, <1>14
  DEF Next, TickStep, WorkerStep
--------------------------------------------------------------------------------
(* The language of what is loaded. *)

LEMMA LocaleStep ==
  TypeOK /\ WorkInv /\ LocaleInv /\ DetailsInLocale /\ [Next]_vars => LocaleInv' /\ DetailsInLocale'
<1> SUFFICES ASSUME TypeOK, WorkInv, LocaleInv, DetailsInLocale, [Next]_vars
             PROVE  LocaleInv' /\ DetailsInLocale'
  OBVIOUS
<1> USE DEF list, titles, worker, channels, LocaleInv, DetailsInLocale
<1>1. CASE PumpTitles \/ ReturnToList \/ LeaveList \/ MoveSelection \/ EndTick
  BY <1>1 DEF PumpTitles, ReturnToList, LeaveList, MoveSelection, EndTick
<1>2. CASE SetLocale \/ Logout
  BY <1>2, EmptyChannels DEF SetLocale, Logout, RestartCatalogWorker
<1>3. CASE EnsureTitleDetails
  <2> DEFINE wanted == IF details[selected] = None THEN Metadata(selected) ELSE Art(selected)
  <2>1. UNCHANGED <<selected, locale, prefetches, results, worker>>
    BY <1>3 DEF EnsureTitleDetails
  <2>2. CASE details' = [details EXCEPT ![selected] = "empty"] /\ UNCHANGED <<jobs, pending>>
    BY <2>1, <2>2 DEF TypeOK
  <2>3. CASE UNCHANGED <<details, jobs, pending>>
    BY <2>1, <2>3
  <2>4. CASE Request(wanted) /\ UNCHANGED details
    <3>1. wanted \in Key
      BY KeyTypes DEF TypeOK
    <3>2. \A i \in 1..Len(jobs') : jobs'[i].locale = locale
      BY <2>4, <3>1, RequestType
    <3>3. QED
      BY <2>1, <2>4, <3>2
  <2>5. QED
    BY <1>3, <2>2, <2>3, <2>4, Zenon DEF EnsureTitleDetails
<1>4. CASE EnsureIconPrefetch
  <2> DEFINE keys == Fitting(WantedMetadata \o WantedIcon)
  <2>1. \A i \in 1..Len(prefetches') : prefetches'[i].locale = locale
    <3>1. keys \in Seq(Key) /\ Len(prefetches) + Len(keys) <= PrefetchCap /\ Prefetch(keys)
      BY <1>4, WantedType, FittingType DEF EnsureIconPrefetch
    <3>2. QED
      BY <3>1, PrefetchType
  <2>2. /\ \A t \in Title : details'[t] \in {details[t], "empty"}
        /\ UNCHANGED <<locale, jobs, results, worker>>
    BY <1>4 DEF EnsureIconPrefetch
  <2>3. QED
    BY <2>1, <2>2
<1>5. CASE TakeResult
  <2>1. /\ Head(results).value \in {locale, "empty"}
        /\ \A i \in 1..Len(Tail(results)) : Tail(results)[i].value \in {locale, "empty"}
    BY <1>5, TailRest DEF TakeResult, TypeOK
  <2>2. \A t \in Title : details'[t] \in {details[t], Head(results).value}
    BY <1>5 DEF TakeResult, TypeOK
  <2>3. results' = Tail(results) /\ UNCHANGED <<locale, jobs, prefetches, worker>>
    BY <1>5 DEF TakeResult
  <2>4. QED
    BY <2>1, <2>2, <2>3
<1>6. CASE TakeJob
  <2>1. CASE jobs = <<>>
    BY <1>6, <2>1 DEF TakeJob
  <2>2. CASE jobs # <<>>
    <3>1. /\ Head(jobs).locale = locale
          /\ \A i \in 1..Len(Tail(jobs)) : Tail(jobs)[i].locale = locale
      BY <2>2, TailRest DEF TypeOK
    <3>2. QED
      BY <1>6, <2>2, <3>1 DEF TakeJob
  <2>3. QED
    BY <2>1, <2>2
<1>7. CASE TakePrefetch
  <2>1. /\ Head(prefetches).locale = locale
        /\ \A i \in 1..Len(Tail(prefetches)) : Tail(prefetches)[i].locale = locale
    BY <1>7, TailRest DEF TakePrefetch, TypeOK, WorkInv
  <2>2. QED
    BY <1>7, <2>1 DEF TakePrefetch
<1>8. CASE Run
  BY <1>8 DEF Run, RunJob
<1>9. CASE JobPanics
  BY <1>9 DEF JobPanics
<1>10. CASE SendResult
  <2>1. \A i \in 1..Len(results') : results'[i].value \in {locale, "empty"}
    BY <1>10, AppendOne DEF SendResult, TypeOK, WorkInv
  <2>2. QED
    BY <1>10, <2>1 DEF SendResult
<1>11. CASE UNCHANGED vars
  BY <1>11 DEF vars
<1>12. QED
  BY <1>1, <1>2, <1>3, <1>4, <1>5, <1>6, <1>7, <1>8, <1>9, <1>10, <1>11
  DEF Next, TickStep, WorkerStep
--------------------------------------------------------------------------------
(* The types of the list, the channels and the worker, whatever their sizes; no      *)
(* channel exceeds its limit.                                                        *)
THEOREM TypeCorrect == Safety => []TypeOK
  BY InvInit, TypeStep, PTL DEF Safety

(* No title shows details in a language other than the settings', for any list and   *)
(* languages: what an old worker loaded is not kept (settings.rs, service.rs).       *)
THEOREM DetailsFollowLocale == Safety => []DetailsInLocale
  BY InvInit, TypeStep, LocaleStep, PTL DEF Safety
--------------------------------------------------------------------------------
(* Images near the selection: only a tick's first step, which drops the others, makes  *)
(* a tick out of no tick, and the selection stays where it is until the tick's end.    *)

ImagesInv == (tick # "idle" => listed) /\ ImagesNearSelection

LEMMA ImagesStep == ImagesInv /\ [Next]_vars => ImagesInv'
<1> SUFFICES ASSUME ImagesInv, [Next]_vars PROVE ImagesInv'
  OBVIOUS
<1> USE DEF list, titles, worker, channels, ImagesInv, ImagesNearSelection
<1>1. ASSUME UNCHANGED selected PROVE \A image : Kept(image)' <=> Kept(image)
  BY <1>1 DEF Kept, Near, Distance
<1>2. CASE UNCHANGED <<listed, tick, selected, images>>
  BY <1>1, <1>2
<1>3. CASE PumpTitles \/ ReturnToList \/ LeaveList \/ MoveSelection \/ SetLocale \/ Logout \/ EndTick
  BY <1>3 DEF PumpTitles, ReturnToList, LeaveList, MoveSelection, SetLocale, Logout, EndTick
<1>4. CASE EnsureTitleDetails
  <2>1. listed' /\ UNCHANGED selected /\ images' = {i \in images : Kept(i)}
    BY <1>4 DEF EnsureTitleDetails
  <2>2. QED
    BY <1>1, <2>1
<1>5. CASE EnsureIconPrefetch
  <2>1. tick = "prefetch" /\ UNCHANGED <<listed, selected, images>>
    BY <1>5 DEF EnsureIconPrefetch
  <2>2. QED
    BY <1>1, <2>1
<1>6. CASE TakeResult
  <2>1. UNCHANGED <<listed, tick, selected>> /\ tick # "idle"
    BY <1>6 DEF TakeResult
  <2>2. \A image \in images' : image \in images \/ Kept(image)
    BY <1>6 DEF TakeResult, DeliverImage
  <2>3. QED
    BY <1>1, <2>1, <2>2
<1>7. QED
  BY <1>2, <1>3, <1>4, <1>5, <1>6
  DEF Next, TickStep, WorkerStep, TakeJob, TakePrefetch, Run, RunJob, JobPanics, SendResult, vars

(* Each tick holds the images of its own selection only, for any list and radius       *)
(* (titles.rs prune_title_images and the results that arrive late).                    *)
THEOREM ImagesStayNear == Safety => []ImagesNearSelection
<1>1. Init => ImagesInv
  BY DEF Init, ImagesInv, ImagesNearSelection
<1>2. ImagesInv => ImagesNearSelection
  BY DEF ImagesInv
<1>3. QED
  BY <1>1, <1>2, ImagesStep, PTL DEF Safety
--------------------------------------------------------------------------------
(* How often a key is on its way in a channel. *)

Places(s, key) == {i \in DOMAIN s : s[i].key = key}
OneIf(condition) == IF condition THEN 1 ELSE 0

LEMMA PlacesFinite ==
  ASSUME NEW S, NEW s \in Seq(S), NEW key
  PROVE  IsFiniteSet(Places(s, key)) /\ Cardinality(Places(s, key)) \in Nat
<1>1. DOMAIN s = 1..Len(s) /\ Len(s) \in Nat
  OBVIOUS
<1>2. IsFiniteSet(1..Len(s))
  BY <1>1, FS_Interval
<1>3. Places(s, key) \subseteq 1..Len(s)
  BY <1>1 DEF Places
<1>4. QED
  BY <1>2, <1>3, FS_Subset, FS_CardinalityType

LEMMA NoPlaces == \A key : Cardinality(Places(<<>>, key)) = 0
<1>1. \A key : Places(<<>>, key) = {}
  BY DEF Places
<1>2. QED
  BY <1>1, FS_EmptySet

LEMMA PlacesAppend ==
  ASSUME NEW S, NEW s \in Seq(S), NEW x \in S, NEW key
  PROVE  Cardinality(Places(Append(s, x), key)) =
           Cardinality(Places(s, key)) + OneIf(x.key = key)
<1>1. Len(s) \in Nat /\ DOMAIN s = 1..Len(s) /\ DOMAIN Append(s, x) = 1..(Len(s) + 1)
      /\ Append(s, x)[Len(s) + 1] = x /\ \A i \in 1..Len(s) : Append(s, x)[i] = s[i]
  OBVIOUS
<1>2. Len(s) + 1 \notin Places(s, key)
  BY <1>1 DEF Places
<1>3. CASE x.key = key
  <2>1. Places(Append(s, x), key) = Places(s, key) \cup {Len(s) + 1}
    BY <1>1, <1>3 DEF Places
  <2>2. QED
    BY <1>2, <1>3, <2>1, PlacesFinite, FS_AddElement DEF OneIf
<1>4. CASE x.key # key
  <2>1. Places(Append(s, x), key) = Places(s, key)
    BY <1>1, <1>4 DEF Places
  <2>2. QED
    BY <1>4, <2>1, PlacesFinite DEF OneIf
<1>5. QED
  BY <1>3, <1>4

LEMMA PlacesTail ==
  ASSUME NEW S, NEW s \in Seq(S), s # <<>>, NEW key
  PROVE  /\ Cardinality(Places(s, key)) =
              Cardinality(Places(Tail(s), key)) + OneIf(Head(s).key = key)
         /\ Cardinality(Places(Tail(s), key)) \in Nat
<1>1. /\ Len(s) \in Nat \ {0} /\ DOMAIN s = 1..Len(s) /\ DOMAIN Tail(s) = 1..(Len(s) - 1)
      /\ Head(s) = s[1] /\ \A i \in 1..(Len(s) - 1) : Tail(s)[i] = s[i + 1]
      /\ Tail(s) \in Seq(S)
  OBVIOUS
<1> DEFINE Rest == Places(s, key) \ {1}
           shift == [i \in Places(Tail(s), key) |-> i + 1]
<1>2. shift \in Bijection(Places(Tail(s), key), Rest)
  <2>1. \A i \in Places(Tail(s), key) : i \in Nat /\ i + 1 \in Rest
    BY <1>1 DEF Places
  <2>2. \A j \in Rest : j - 1 \in Places(Tail(s), key) /\ j \in Int
    BY <1>1 DEF Places
  <2>3. \A i, k \in Places(Tail(s), key) : shift[i] = shift[k] => i = k
    BY <2>1
  <2>4. \A j \in Rest : \E i \in Places(Tail(s), key) : shift[i] = j
    <3> TAKE j \in Rest
    <3>1. shift[j - 1] = j
      BY <2>2
    <3>2. QED
      BY <2>2, <3>1
  <2>5. shift \in [Places(Tail(s), key) -> Rest]
    BY <2>1
  <2>6. QED
    BY <2>3, <2>4, <2>5, Fun_IsBij
<1>3. Cardinality(Rest) = Cardinality(Places(Tail(s), key)) /\ IsFiniteSet(Rest)
  <2>1. IsFiniteSet(Places(Tail(s), key))
    BY <1>1, PlacesFinite
  <2>2. ExistsBijection(Places(Tail(s), key), Rest)
    BY <1>2 DEF ExistsBijection
  <2>3. QED
    BY <2>1, <2>2, FS_Bijection
<1>4. CASE Head(s).key = key
  <2>1. 1 \in Places(s, key)
    BY <1>1, <1>4 DEF Places
  <2>2. Places(s, key) = Rest \cup {1} /\ 1 \notin Rest
    BY <2>1
  <2>3. Cardinality(Rest \cup {1}) = Cardinality(Rest) + 1
    BY <1>3, FS_AddElement
  <2>4. QED
    BY <1>1, <1>3, <1>4, <2>2, <2>3, PlacesFinite DEF OneIf
<1>5. CASE Head(s).key # key
  <2>1. Places(s, key) = Rest
    BY <1>1, <1>5 DEF Places
  <2>2. Cardinality(Places(s, key)) = Cardinality(Places(Tail(s), key))
        /\ Cardinality(Places(s, key)) \in Nat
    BY <1>3, <2>1, PlacesFinite
  <2>3. QED
    BY <1>5, <2>2 DEF OneIf
<1>6. QED
  BY <1>4, <1>5
--------------------------------------------------------------------------------
(* A key is fetched once: what is sent was not pending, and what is taken from one      *)
(* place is put into the next.                                                          *)

InJobs(key)       == Cardinality(Places(jobs, key))
InPrefetches(key) == Cardinality(Places(prefetches, key))
InResults(key)    == Cardinality(Places(results, key))
AtWork(key)       == OneIf(work # None /\ work.key = key)

IdleHasNothing == stage \in {"select", "polled"} => work = None
OnceInv == FetchedOnce /\ IdleHasNothing

LEMMA FetchedOnceParts ==
  FetchedOnce <=>
    \A key \in Key : InJobs(key) + InPrefetches(key) + InResults(key) + AtWork(key)
                       + OneIf(key \in lost) = OneIf(key \in pending)
  BY DEF FetchedOnce, InFlight, InJobs, InPrefetches, InResults, AtWork, OneIf, Places

LEMMA PartsAreNumbers ==
  ASSUME TypeOK, NEW key
  PROVE  /\ InJobs(key) \in Nat /\ InPrefetches(key) \in Nat /\ InResults(key) \in Nat
         /\ AtWork(key) \in {0, 1}
         /\ \A condition \in BOOLEAN : OneIf(condition) \in {0, 1}
  BY PlacesFinite DEF TypeOK, InJobs, InPrefetches, InResults, AtWork, OneIf

LEMMA PartsNext ==
  ASSUME NEW key
  PROVE  /\ InJobs(key)' = Cardinality(Places(jobs', key))
         /\ InPrefetches(key)' = Cardinality(Places(prefetches', key))
         /\ InResults(key)' = Cardinality(Places(results', key))
         /\ AtWork(key)' = OneIf(work' # None /\ work'.key = key)
  BY DEF InJobs, InPrefetches, InResults, AtWork, Places, OneIf

(* What is neither a job nor a result is not at work. *)
LEMMA NoneIsNoMessage == None \notin Job /\ None \notin Result
  BY CatalogAssumption

LEMMA WantedTwo ==
  ASSUME TypeOK
  PROVE  LET keys == WantedMetadata \o WantedIcon IN
         /\ keys \in Seq(Key) /\ Len(keys) \in 0..2
         /\ \A i \in 1..Len(keys) : keys[i] \notin pending
         /\ \A i, j \in 1..Len(keys) : i # j => keys[i] # keys[j]
<1>1. /\ WantedMetadata \in Seq(Key) /\ Len(WantedMetadata) \in 0..1
      /\ \A i \in 1..Len(WantedMetadata) :
           WantedMetadata[i].kind = "metadata" /\ WantedMetadata[i] \notin pending
  <2>1. CASE WantedMetadata = <<>>
    BY <2>1
  <2>2. CASE WantedMetadata # <<>>
    <3>1. WantedMetadata = <<Metadata(Nearest(Missing))>> /\ Missing # {}
          /\ Metadata(Nearest(Missing)) \notin pending
      BY <2>2 DEF WantedMetadata
    <3>2. Nearest(Missing) \in Title
      BY <3>1, NearestType DEF Missing
    <3>3. Metadata(Nearest(Missing)) \in Key /\ Metadata(Nearest(Missing)).kind = "metadata"
      BY <3>2, KeyTypes DEF Metadata
    <3>4. QED
      BY <3>1, <3>3
  <2>3. QED
    BY <2>1, <2>2
<1>2. /\ WantedIcon \in Seq(Key) /\ Len(WantedIcon) \in 0..1
      /\ \A i \in 1..Len(WantedIcon) : WantedIcon[i].kind = "icon" /\ WantedIcon[i] \notin pending
  <2>1. CASE WantedIcon = <<>>
    BY <2>1
  <2>2. CASE WantedIcon # <<>>
    <3>1. WantedIcon = <<Icon(Nearest(WithoutIcon))>> /\ WithoutIcon # {}
      BY <2>2 DEF WantedIcon
    <3>2. WithoutIcon \in SUBSET Title
      BY DEF WithoutIcon
    <3>3. Nearest(WithoutIcon) \in WithoutIcon
      BY <3>1, <3>2, NearestType
    <3>4. Nearest(WithoutIcon) \in Title /\ Icon(Nearest(WithoutIcon)) \notin pending
      BY <3>3 DEF WithoutIcon
    <3>5. Icon(Nearest(WithoutIcon)) \in Key /\ Icon(Nearest(WithoutIcon)).kind = "icon"
      BY <3>4, KeyTypes DEF Icon
    <3>6. QED
      BY <3>1, <3>4, <3>5
  <2>3. QED
    BY <2>1, <2>2
<1>3. \A s, u \in Seq(Key) :
        /\ s \o u \in Seq(Key) /\ Len(s \o u) = Len(s) + Len(u)
        /\ \A i \in 1..Len(s \o u) : (s \o u)[i] = IF i <= Len(s) THEN s[i] ELSE u[i - Len(s)]
  OBVIOUS
<1> DEFINE keys == WantedMetadata \o WantedIcon
<1>4. /\ keys \in Seq(Key) /\ Len(keys) = Len(WantedMetadata) + Len(WantedIcon)
      /\ \A i \in 1..Len(keys) :
           keys[i] = IF i <= Len(WantedMetadata) THEN WantedMetadata[i]
                                                 ELSE WantedIcon[i - Len(WantedMetadata)]
  BY <1>1, <1>2, <1>3
<1> HIDE DEF keys
<1>5. \A i \in 1..Len(keys) :
        /\ keys[i] \notin pending
        /\ keys[i].kind = IF i <= Len(WantedMetadata) THEN "metadata" ELSE "icon"
  BY <1>1, <1>2, <1>4
<1>6. \A i, j \in 1..Len(keys) : i # j => keys[i] # keys[j]
  BY <1>1, <1>2, <1>4, <1>5
<1>7. QED
  BY <1>1, <1>2, <1>4, <1>5, <1>6 DEF keys

LEMMA FittingTwo ==
  ASSUME TypeOK
  PROVE  LET keys == Fitting(WantedMetadata \o WantedIcon) IN
         /\ keys \in Seq(Key) /\ Len(keys) \in 0..2
         /\ \A i \in 1..Len(keys) : keys[i] \notin pending
         /\ \A i, j \in 1..Len(keys) : i # j => keys[i] # keys[j]
<1> DEFINE keys == WantedMetadata \o WantedIcon
           room == PrefetchCap - Len(prefetches)
<1>1. /\ keys \in Seq(Key) /\ Len(keys) \in 0..2
      /\ \A i \in 1..Len(keys) : keys[i] \notin pending
      /\ \A i, j \in 1..Len(keys) : i # j => keys[i] # keys[j]
  BY WantedTwo
<1>2. room \in Nat
  BY CatalogAssumption DEF TypeOK
<1> HIDE DEF keys
<1>3. CASE Len(keys) <= room
  BY <1>1, <1>3 DEF Fitting, keys
<1>4. CASE ~(Len(keys) <= room)
  <2>1. Fitting(keys) = SubSeq(keys, 1, room)
    BY <1>4 DEF Fitting
  <2>2. /\ SubSeq(keys, 1, room) \in Seq(Key) /\ Len(SubSeq(keys, 1, room)) = room
        /\ \A i \in 1..room : SubSeq(keys, 1, room)[i] = keys[i] /\ i \in 1..Len(keys)
    BY <1>1, <1>2, <1>4
  <2>3. QED
    BY <1>1, <1>2, <1>4, <2>1, <2>2 DEF keys
<1>5. QED
  BY <1>3, <1>4

LEMMA PrefetchedOnce ==
  ASSUME TypeOK, NEW keys \in Seq(Key), Len(keys) \in 0..2, Prefetch(keys),
         \A i, j \in 1..Len(keys) : i # j => keys[i] # keys[j]
  PROVE  \A key : InPrefetches(key)' =
                    InPrefetches(key) + OneIf(\E i \in 1..Len(keys) : keys[i] = key)
<1>1. prefetches \in Seq(Job) /\ prefetches' = prefetches \o [i \in DOMAIN keys |-> JobFor(keys[i])]
  BY DEF TypeOK, Prefetch
<1>2. \A i \in 1..Len(keys) : JobFor(keys[i]) \in Job /\ JobFor(keys[i]).key = keys[i]
  <2>1. \A i \in 1..Len(keys) : keys[i] \in Key
    OBVIOUS
  <2>2. QED
    BY <2>1, JobForType
<1>3. CASE Len(keys) = 0
  <2>1. prefetches' = prefetches
    BY <1>1, <1>3
  <2>2. QED
    BY <1>3, <2>1, PartsAreNumbers DEF InPrefetches, OneIf
<1>4. CASE Len(keys) = 1
  <2>1. [i \in DOMAIN keys |-> JobFor(keys[i])] = <<JobFor(keys[1])>>
    BY <1>4
  <2>2. prefetches' = Append(prefetches, JobFor(keys[1])) /\ JobFor(keys[1]).key = keys[1]
        /\ JobFor(keys[1]) \in Job
    BY <1>1, <1>2, <1>4, <2>1
  <2>3. \A key : Cardinality(Places(Append(prefetches, JobFor(keys[1])), key))
                   = Cardinality(Places(prefetches, key)) + OneIf(keys[1] = key)
    BY <1>1, <2>2, PlacesAppend
  <2>4. \A key : InPrefetches(key)' = InPrefetches(key) + OneIf(keys[1] = key)
    BY <2>2, <2>3, PartsNext DEF InPrefetches
  <2>5. QED
    BY <1>4, <2>4 DEF OneIf
<1>5. CASE Len(keys) = 2
  <2> DEFINE one == Append(prefetches, JobFor(keys[1]))
  <2>1. [i \in DOMAIN keys |-> JobFor(keys[i])] = <<JobFor(keys[1]), JobFor(keys[2])>>
    BY <1>5
  <2>2. /\ JobFor(keys[1]) \in Job /\ JobFor(keys[1]).key = keys[1]
        /\ JobFor(keys[2]) \in Job /\ JobFor(keys[2]).key = keys[2]
        /\ prefetches' = Append(one, JobFor(keys[2])) /\ one \in Seq(Job)
    BY <1>1, <1>2, <1>5, <2>1
  <2>3. \A key : Cardinality(Places(one, key)) = InPrefetches(key) + OneIf(keys[1] = key)
    BY <1>1, <2>2, PlacesAppend DEF InPrefetches
  <2> HIDE DEF one
  <2>4. \A key : InPrefetches(key)' = Cardinality(Places(one, key)) + OneIf(keys[2] = key)
    <3>1. \A key : Cardinality(Places(Append(one, JobFor(keys[2])), key))
                     = Cardinality(Places(one, key)) + OneIf(keys[2] = key)
      BY <2>2, PlacesAppend
    <3>2. QED
      BY <2>2, <3>1, PartsNext
  <2>5. keys[1] # keys[2]
    BY <1>5
  <2>6. QED
    <3>1. \A i : i \in 1..Len(keys) <=> i = 1 \/ i = 2
      BY <1>5
    <3>2. SUFFICES ASSUME NEW key
                   PROVE  OneIf(keys[1] = key) + OneIf(keys[2] = key)
                            = OneIf(\E i \in 1..Len(keys) : keys[i] = key)
      BY <2>3, <2>4, PartsAreNumbers DEF OneIf
    <3>3. QED
      BY <2>5, <3>1 DEF OneIf
<1>6. Len(keys) = 0 \/ Len(keys) = 1 \/ Len(keys) = 2
  OBVIOUS
<1>7. QED
  BY <1>3, <1>4, <1>5, <1>6
--------------------------------------------------------------------------------
LEMMA OnceStep ==
  ASSUME TypeOK, WorkInv, OnceInv, [Next]_vars
  PROVE  OnceInv'
<1> USE DEF list, titles, worker, channels
<1>1. \A key \in Key : InJobs(key) + InPrefetches(key) + InResults(key) + AtWork(key)
                         + OneIf(key \in lost) = OneIf(key \in pending)
  BY FetchedOnceParts DEF OnceInv
<1>2. SUFFICES /\ \A key \in Key : InJobs(key)' + InPrefetches(key)' + InResults(key)' + AtWork(key)'
                                   + OneIf(key \in lost') = OneIf(key \in pending')
               /\ stage' \in {"select", "polled"} => work' = None
  <2>1. FetchedOnce' <=>
          \A key \in Key : InJobs(key)' + InPrefetches(key)' + InResults(key)' + AtWork(key)'
                             + OneIf(key \in lost') = OneIf(key \in pending')
    BY DEF FetchedOnce, InFlight, InJobs, InPrefetches, InResults, AtWork, OneIf, Places
  <2>2. QED
    BY <2>1 DEF OnceInv, IdleHasNothing
<1>3. stage \in {"select", "polled"} => work = None
  BY DEF OnceInv, IdleHasNothing
<1>4. ASSUME NEW key
      PROVE  /\ jobs' = jobs => InJobs(key)' = InJobs(key)
             /\ prefetches' = prefetches => InPrefetches(key)' = InPrefetches(key)
             /\ results' = results => InResults(key)' = InResults(key)
             /\ work' = work => AtWork(key)' = AtWork(key)
  BY PartsNext DEF InJobs, InPrefetches, InResults, AtWork
<1>5. CASE UNCHANGED <<pending, channels, worker, lost>>
  BY <1>1, <1>3, <1>4, <1>5
<1>6. CASE RestartCatalogWorker
  <2>1. \A key : InJobs(key)' = 0 /\ InPrefetches(key)' = 0 /\ InResults(key)' = 0 /\ AtWork(key)' = 0
    BY <1>6, PartsNext, NoPlaces DEF RestartCatalogWorker, OneIf
  <2>2. QED
    BY <1>6, <2>1 DEF RestartCatalogWorker, OneIf
<1>7. CASE EnsureTitleDetails
  <2> DEFINE wanted == IF details[selected] = None THEN Metadata(selected) ELSE Art(selected)
  <2>1. UNCHANGED <<prefetches, results, worker, lost>>
    BY <1>7 DEF EnsureTitleDetails
  <2>2. CASE UNCHANGED <<jobs, pending>>
    BY <1>5, <2>1, <2>2
  <2>3. CASE Request(wanted) /\ wanted \notin pending /\ Len(jobs) < JobCap
    <3>1. wanted \in Key
      BY KeyTypes DEF TypeOK
    <3> HIDE DEF wanted
    <3>2. JobFor(wanted) \in Job /\ JobFor(wanted).key = wanted /\ jobs \in Seq(Job)
      BY <3>1, JobForType DEF TypeOK
    <3>3. jobs' = Append(jobs, JobFor(wanted)) /\ pending' = pending \cup {wanted}
      BY <2>3 DEF Request
    <3>4. \A key : Cardinality(Places(Append(jobs, JobFor(wanted)), key)) = InJobs(key) + OneIf(wanted = key)
      BY <3>2, PlacesAppend DEF InJobs
    <3>5. \A key : InJobs(key)' = InJobs(key) + OneIf(wanted = key)
      BY <3>3, <3>4, PartsNext
    <3>6. \A key \in Key : OneIf(key \in pending') = OneIf(key \in pending) + OneIf(wanted = key)
      BY <2>3, <3>3 DEF OneIf
    <3>7. ASSUME NEW key \in Key
          PROVE  /\ InJobs(key) \in Nat /\ InPrefetches(key) \in Nat /\ InResults(key) \in Nat
                 /\ AtWork(key) \in {0, 1} /\ OneIf(key \in lost) \in {0, 1}
                 /\ OneIf(key \in pending) \in {0, 1} /\ OneIf(wanted = key) \in {0, 1}
      BY PartsAreNumbers DEF OneIf
    <3>8. \A key \in Key : /\ InPrefetches(key)' = InPrefetches(key) /\ InResults(key)' = InResults(key)
                           /\ AtWork(key)' = AtWork(key) /\ OneIf(key \in lost') = OneIf(key \in lost)
      BY <1>4, <2>1
    <3>9. QED
      BY <1>1, <1>3, <2>1, <3>5, <3>6, <3>7, <3>8
  <2>4. CASE Request(wanted) /\ ~(Len(jobs) < JobCap)
    BY <1>5, <2>1, <2>4 DEF Request
  <2>5. QED
    BY <1>7, <2>2, <2>3, <2>4 DEF EnsureTitleDetails
<1>8. CASE EnsureIconPrefetch
  <2> DEFINE keys == Fitting(WantedMetadata \o WantedIcon)
  <2>1. Prefetch(keys) /\ UNCHANGED <<jobs, results, worker, lost>>
    BY <1>8 DEF EnsureIconPrefetch
  <2>2. /\ keys \in Seq(Key) /\ Len(keys) \in 0..2
        /\ \A i \in 1..Len(keys) : keys[i] \notin pending
        /\ \A i, j \in 1..Len(keys) : i # j => keys[i] # keys[j]
    BY FittingTwo
  <2> HIDE DEF keys
  <2> DEFINE Sent(key) == OneIf(\E i \in 1..Len(keys) : keys[i] = key)
  <2>3. \A key : InPrefetches(key)' = InPrefetches(key) + Sent(key)
    BY <2>1, <2>2, PrefetchedOnce
  <2>4. \A key : key \in pending' <=> key \in pending \/ \E i \in 1..Len(keys) : keys[i] = key
    BY <2>1, <2>2 DEF Prefetch, ToSet
  <2>5. \A key \in Key : OneIf(key \in pending') = OneIf(key \in pending) + Sent(key)
    BY <2>2, <2>4 DEF OneIf
  <2>6. ASSUME NEW key \in Key
        PROVE  /\ InJobs(key) \in Nat /\ InPrefetches(key) \in Nat /\ InResults(key) \in Nat
               /\ AtWork(key) \in {0, 1} /\ OneIf(key \in lost) \in {0, 1}
               /\ OneIf(key \in pending) \in {0, 1}
               /\ Sent(key) \in {0, 1}
    BY PartsAreNumbers DEF OneIf
  <2>7. \A key \in Key : /\ InJobs(key)' = InJobs(key) /\ InResults(key)' = InResults(key)
                         /\ AtWork(key)' = AtWork(key) /\ OneIf(key \in lost') = OneIf(key \in lost)
    BY <1>4, <2>1
  <2> HIDE DEF Sent
  <2>8. \A key \in Key : InJobs(key)' + InPrefetches(key)' + InResults(key)' + AtWork(key)'
                          + OneIf(key \in lost') = OneIf(key \in pending')
    <3> TAKE key \in Key
    <3>1. InJobs(key) + InPrefetches(key) + InResults(key) + AtWork(key)
            + OneIf(key \in lost) = OneIf(key \in pending)
      BY <1>1
    <3>2. QED
      BY <3>1, <2>3, <2>5, <2>6, <2>7
  <2>9. QED
    BY <2>8, <1>3, <2>1
<1>9. CASE TakeResult
  <2>1. /\ results # <<>> /\ results' = Tail(results) /\ pending' = pending \ {Head(results).key}
        /\ UNCHANGED <<jobs, prefetches, worker, lost>>
    BY <1>9 DEF TakeResult, Settled
  <2>2. results \in Seq(Result)
    BY DEF TypeOK
  <2>3. \A key : InResults(key) = InResults(key)' + OneIf(Head(results).key = key)
    BY <2>1, <2>2, PlacesTail, PartsNext DEF InResults
  <2>4. \A key : InResults(key)' \in Nat
    BY <2>1, <2>2, PlacesTail, PartsNext
  <2>5. QED
    BY <1>1, <1>3, <1>4, <2>1, <2>3, <2>4, PartsAreNumbers DEF OneIf
<1>10. CASE TakeJob
  <2>1. CASE jobs = <<>>
    BY <1>1, <1>3, <1>4, <1>10, <2>1 DEF TakeJob
  <2>2. CASE jobs # <<>>
    <3>1. /\ jobs' = Tail(jobs) /\ work' = Head(jobs) /\ work = None /\ stage' = "running"
          /\ UNCHANGED <<pending, prefetches, results, lost>>
      BY <1>3, <1>10, <2>2 DEF TakeJob
    <3>2. jobs \in Seq(Job) /\ Head(jobs) # None
      BY <2>2, TailRest, NoneIsNoMessage DEF TypeOK
    <3>3. \A key : InJobs(key) = InJobs(key)' + OneIf(Head(jobs).key = key)
      BY <2>2, <3>1, <3>2, PlacesTail, PartsNext DEF InJobs
    <3>4. \A key : InJobs(key)' \in Nat
      BY <2>2, <3>1, <3>2, PlacesTail, PartsNext
    <3>5. \A key : AtWork(key) = 0 /\ AtWork(key)' = OneIf(Head(jobs).key = key)
      BY <3>1, <3>2, PartsNext DEF AtWork, OneIf
    <3>6. \A key \in Key : /\ InPrefetches(key)' = InPrefetches(key) /\ InResults(key)' = InResults(key)
                           /\ InPrefetches(key) \in Nat /\ InResults(key) \in Nat
                           /\ OneIf(Head(jobs).key = key) \in {0, 1} /\ OneIf(key \in lost) \in {0, 1}
      BY <1>4, <3>1, PartsAreNumbers DEF OneIf
    <3>7. \A key \in Key : InJobs(key)' + InPrefetches(key)' + InResults(key)' + AtWork(key)'
                            + OneIf(key \in lost') = OneIf(key \in pending')
      <4> TAKE key \in Key
      <4>1. InJobs(key) + InPrefetches(key) + InResults(key) + AtWork(key)
              + OneIf(key \in lost) = OneIf(key \in pending)
        BY <1>1
      <4>2. QED
        BY <4>1, <3>1, <3>3, <3>4, <3>5, <3>6
    <3>8. QED
      BY <3>7, <3>1
  <2>3. QED
    BY <2>1, <2>2
<1>11. CASE TakePrefetch
  <2>1. /\ prefetches # <<>> /\ prefetches' = Tail(prefetches) /\ work' = Head(prefetches)
        /\ work = None /\ stage' = "running" /\ UNCHANGED <<pending, jobs, results, lost>>
    BY <1>3, <1>11 DEF TakePrefetch, WorkInv
  <2>2. prefetches \in Seq(Job) /\ Head(prefetches) # None
    BY <2>1, TailRest, NoneIsNoMessage DEF TypeOK
  <2>3. \A key : InPrefetches(key) = InPrefetches(key)' + OneIf(Head(prefetches).key = key)
    BY <2>1, <2>2, PlacesTail, PartsNext DEF InPrefetches
  <2>4. \A key : InPrefetches(key)' \in Nat
    BY <2>1, <2>2, PlacesTail, PartsNext
  <2>5. \A key : AtWork(key) = 0 /\ AtWork(key)' = OneIf(Head(prefetches).key = key)
    BY <2>1, <2>2, PartsNext DEF AtWork, OneIf
  <2>6. \A key \in Key : /\ InJobs(key)' = InJobs(key) /\ InResults(key)' = InResults(key)
                         /\ InJobs(key) \in Nat /\ InResults(key) \in Nat
                         /\ OneIf(Head(prefetches).key = key) \in {0, 1} /\ OneIf(key \in lost) \in {0, 1}
    BY <1>4, <2>1, PartsAreNumbers DEF OneIf
  <2>7. \A key \in Key : InJobs(key)' + InPrefetches(key)' + InResults(key)' + AtWork(key)'
                          + OneIf(key \in lost') = OneIf(key \in pending')
    <3> TAKE key \in Key
    <3>1. InJobs(key) + InPrefetches(key) + InResults(key) + AtWork(key)
            + OneIf(key \in lost) = OneIf(key \in pending)
      BY <1>1
    <3>2. QED
      BY <3>1, <2>1, <2>3, <2>4, <2>5, <2>6
  <2>8. QED
    BY <2>7, <2>1
<1>12. CASE Run
  <2>1. PICK value \in {work.locale, "empty"} : RunJob(value)
    BY <1>12 DEF Run
  <2>2. /\ work' = [key |-> work.key, value |-> value] /\ stage' = "sending" /\ work \in Job
        /\ UNCHANGED <<pending, channels, lost>>
    BY <2>1 DEF RunJob, WorkInv
  <2>3. work' \in Result /\ work'.key = work.key
    BY <2>1, <2>2, JobFields DEF Result
  <2>4. \A key : AtWork(key)' = AtWork(key)
    BY <2>2, <2>3, NoneIsNoMessage, PartsNext DEF AtWork
  <2>5. QED
    BY <1>1, <1>4, <2>2, <2>4
<1>13. CASE JobPanics
  <2>1. /\ work' = None /\ lost' = lost \cup {work.key} /\ work \in Job
        /\ UNCHANGED <<pending, channels>>
    BY <1>13 DEF JobPanics, WorkInv
  <2>2. \A key : AtWork(key) = OneIf(work.key = key) /\ AtWork(key)' = 0
    BY <2>1, NoneIsNoMessage, PartsNext DEF AtWork, OneIf
  <2>3. work.key \notin lost
    BY <1>1, <2>1, <2>2, JobFields, PartsAreNumbers DEF OneIf
  <2>4. \A key : OneIf(key \in lost') = OneIf(key \in lost) + OneIf(work.key = key)
    BY <2>1, <2>3 DEF OneIf
  <2>5. QED
    BY <1>1, <1>4, <2>1, <2>2, <2>4, PartsAreNumbers
<1>14. CASE SendResult
  <2>1. /\ results' = Append(results, work) /\ work' = None /\ work \in Result
        /\ results \in Seq(Result) /\ UNCHANGED <<pending, jobs, prefetches, lost>>
    BY <1>14 DEF SendResult, WorkInv, TypeOK
  <2>2. \A key : InResults(key)' = InResults(key) + OneIf(work.key = key)
    BY <2>1, PlacesAppend, PartsNext DEF InResults
  <2>3. \A key : AtWork(key) = OneIf(work.key = key) /\ AtWork(key)' = 0
    BY <2>1, NoneIsNoMessage, PartsNext DEF AtWork, OneIf
  <2>4. QED
    BY <1>1, <1>4, <2>1, <2>2, <2>3, PartsAreNumbers
<1>15. QED
  BY <1>5, <1>6, <1>7, <1>8, <1>9, <1>10, <1>11, <1>12, <1>13, <1>14
  DEF Next, TickStep, WorkerStep, PumpTitles, ReturnToList, LeaveList, MoveSelection, SetLocale,
      Logout, EndTick, vars

(* A fetch is queued at most once while in flight, and what is pending is in flight    *)
(* but for panicked jobs, for any list, channels and number of panics (titles.rs).     *)
THEOREM FetchesOnce == Safety => []FetchedOnce
<1>1. Init => TypeOK /\ WorkInv /\ OnceInv
  <2>1. ASSUME Init PROVE OnceInv
    <3>1. \A key : InJobs(key) = 0 /\ InPrefetches(key) = 0 /\ InResults(key) = 0 /\ AtWork(key) = 0
      BY <2>1, NoPlaces DEF Init, InJobs, InPrefetches, InResults, AtWork, OneIf
    <3>2. pending = {} /\ lost = {} /\ work = None
      BY <2>1 DEF Init
    <3>3. QED
      BY <3>1, <3>2, FetchedOnceParts DEF OnceInv, IdleHasNothing, OneIf
  <2>2. QED
    BY <2>1, InvInit
<1>2. TypeOK /\ WorkInv /\ OnceInv /\ [Next]_vars => (TypeOK /\ WorkInv /\ OnceInv)'
  BY TypeStep, OnceStep
<1>3. OnceInv => FetchedOnce
  BY DEF OnceInv
<1>4. QED
  BY <1>1, <1>2, <1>3, PTL DEF Safety
--------------------------------------------------------------------------------
(* The cache: what a file holds is in the language its path names. *)

FilesInLocale ==
  /\ files \in [File -> Locale \cup {"absent", "partial"}]
  /\ \A f \in File : files[f] \in {f[2], "absent", "partial"}

OrphanInv == orphan # None => orphan.job \in Job /\ HasFile(orphan.job)

LEMMA PathOfJob ==
  ASSUME NEW job \in Job, HasFile(job)
  PROVE  GamePath(job) \in File /\ GamePath(job)[2] = job.locale
  BY JobFields DEF HasFile, GamePath, File

(* A step of a job leaves every file in its language, and answers in the job's. *)
LEMMA JobKeepsFiles ==
  ASSUME FilesInLocale, NEW job \in Job, HasFile(job), NEW at, NEW next, NEW value,
         Continues(job, at, next) \/ Answers(job, at, value)
  PROVE  FilesInLocale'
<1>1. GamePath(job) \in File /\ GamePath(job)[2] = job.locale /\ job.locale \in Locale
  BY PathOfJob, JobFields
<1>2. CASE UNCHANGED files
  BY <1>2 DEF FilesInLocale
<1>3. ASSUME NEW outcome \in Written(job),
             files' = [files EXCEPT ![GamePath(job)] = outcome]
      PROVE  FilesInLocale'
  BY <1>1, <1>3 DEF FilesInLocale, Written
<1>4. CASE files' = [files EXCEPT ![GamePath(job)] = "partial"]
           \/ files' = [files EXCEPT ![GamePath(job)] = "absent"]
  BY <1>3, <1>4 DEF Written
<1>5. QED
  BY <1>2, <1>3, <1>4 DEF Continues, Answers

LEMMA AnswerInLocale ==
  ASSUME FilesInLocale, NEW job \in Job, HasFile(job), NEW at, NEW value, Answers(job, at, value)
  PROVE  value \in {job.locale, "empty"}
<1>1. GamePath(job) \in File /\ GamePath(job)[2] = job.locale
  BY PathOfJob
<1>2. CASE Holds(GamePath(job), value)
  BY <1>1, <1>2, CacheAssumption DEF Holds, FilesInLocale
<1>3. QED
  BY <1>2 DEF Answers

(* The job an old worker is left with. *)
LEMMA LastJobType ==
  ASSUME TypeOK, WorkInv, LastJob # None
  PROVE  LastJob \in Job
<1>1. CASE stage = "running"
  BY <1>1 DEF LastJob, WorkInv
<1>2. CASE stage = "select" /\ jobs # <<>>
  BY <1>2, TailRest DEF LastJob, TypeOK
<1>3. CASE stage # "running" /\ ~(stage = "select" /\ jobs # <<>>)
  BY <1>3, TailRest DEF LastJob, TypeOK
<1>4. QED
  BY <1>1, <1>2, <1>3

LEMMA FilesStep ==
  ASSUME TypeOK, WorkInv, FilesInLocale, OrphanInv, [CacheNext]_cacheVars
  PROVE  FilesInLocale' /\ OrphanInv'
<1>1. CASE UNCHANGED <<files, orphan>>
  BY <1>1 DEF FilesInLocale, OrphanInv
<1>2. CASE LoadGoesOn \/ LoadEnds
  <2>1. work \in Job /\ HasFile(work) /\ UNCHANGED orphan
    BY <1>2 DEF LoadGoesOn, LoadEnds, WorkInv
  <2>2. FilesInLocale'
    BY <1>2, <2>1, JobKeepsFiles DEF LoadGoesOn, LoadEnds
  <2>3. QED
    BY <2>1, <2>2 DEF OrphanInv
<1>3. CASE OrphanGoesOn \/ OrphanEnds
  <2>1. orphan.job \in Job /\ HasFile(orphan.job)
    BY <1>3 DEF OrphanGoesOn, OrphanEnds, OrphanInv
  <2>2. FilesInLocale'
    BY <1>3, <2>1, JobKeepsFiles DEF OrphanGoesOn, OrphanEnds
  <2>3. OrphanInv'
    <3>1. CASE OrphanGoesOn
      <4>1. PICK next \in {"fetch", "write"} : orphan' = [orphan EXCEPT !.step = next]
        BY <3>1 DEF OrphanGoesOn
      <4>2. orphan'.job = orphan.job
        BY <4>1
      <4>3. QED
        BY <2>1, <4>2 DEF OrphanInv, HasFile
    <3>2. CASE OrphanEnds
      BY <3>2 DEF OrphanEnds, OrphanInv
    <3>3. QED
      BY <1>3, <3>1, <3>2
  <2>4. QED
    BY <2>2, <2>3
<1>4. CASE ChangeLocale \/ LeaveAccount
  <2>1. OrphanInv'
    BY <1>4, LastJobType DEF ChangeLocale, LeaveAccount, LeaveWorkerBehind, OrphanInv, HasFile
  <2>2. FilesInLocale'
    BY <1>4 DEF ChangeLocale, Cleared, LeaveAccount, FilesInLocale
  <2>3. QED
    BY <2>1, <2>2
<1>5. CASE Restart
  BY <1>5 DEF Restart, FilesInLocale, OrphanInv
<1>6. QED
  BY <1>1, <1>2, <1>3, <1>4, <1>5 DEF CacheNext, cacheVars, cache

LEMMA CacheTypeStep ==
  ASSUME TypeOK, WorkInv, FilesInLocale, CacheTypeOK, [CacheNext]_cacheVars, FilesInLocale'
  PROVE  CacheTypeOK'
<1>1. files' \in [File -> Locale \cup {"absent", "partial"}]
  BY DEF FilesInLocale
<1>2. step' \in {"read", "fetch", "write"}
  BY DEF CacheNext, cacheVars, cache, LoadGoesOn, LoadEnds, OrphanGoesOn, OrphanEnds, ChangeLocale,
         LeaveAccount, LeaveWorkerBehind, Restart, CacheTypeOK
<1>3. orphan' \in Progress \cup {None}
  <2>1. CASE ChangeLocale \/ LeaveAccount
    <3>1. LastJob # None => [job |-> LastJob, step |-> step] \in Progress
      BY LastJobType DEF Progress, CacheTypeOK
    <3>2. QED
      BY <2>1, <3>1 DEF ChangeLocale, LeaveAccount, LeaveWorkerBehind
  <2>2. CASE OrphanGoesOn
    BY <2>2 DEF OrphanGoesOn, CacheTypeOK, Progress
  <2>3. CASE OrphanEnds \/ Restart
    BY <2>3 DEF OrphanEnds, Restart
  <2>4. CASE UNCHANGED orphan
    BY <2>4 DEF CacheTypeOK
  <2>5. QED
    BY <2>1, <2>2, <2>3, <2>4 DEF CacheNext, cacheVars, cache, LoadGoesOn, LoadEnds
<1>4. QED
  BY <1>1, <1>2, <1>3 DEF CacheTypeOK

(* Every step of the worker with its cache is one of Catalog's, or none. *)
LEMMA CacheStep ==
  ASSUME WorkInv, FilesInLocale, [CacheNext]_cacheVars
  PROVE  [Next]_vars
<1>1. CASE LoadEnds
  <2>1. PICK value \in Locale \cup {"empty"} : Answers(work, step, value) /\ RunJob(value)
    BY <1>1 DEF LoadEnds
  <2>2. stage = "running" /\ work \in Job /\ HasFile(work)
    BY <1>1 DEF LoadEnds, WorkInv
  <2>3. value \in {work.locale, "empty"}
    BY <2>1, <2>2, AnswerInLocale
  <2>4. QED
    BY <2>1, <2>2, <2>3 DEF Next, WorkerStep, Run
<1>2. CASE LoadGoesOn \/ OrphanGoesOn \/ OrphanEnds
  BY <1>2 DEF LoadGoesOn, OrphanGoesOn, OrphanEnds
<1>3. CASE ChangeLocale \/ LeaveAccount \/ Restart \/ JobPanics
  BY <1>3 DEF ChangeLocale, LeaveAccount, Restart, Next
<1>4. CASE PumpTitles \/ ReturnToList \/ LeaveList \/ MoveSelection \/ TickStep
           \/ TakeJob \/ TakePrefetch \/ SendResult \/ Run
  BY <1>4 DEF Next, WorkerStep
<1>5. CASE UNCHANGED cacheVars
  BY <1>5 DEF cacheVars
<1>6. QED
  BY <1>1, <1>2, <1>3, <1>4, <1>5 DEF CacheNext

LEMMA CacheInitInv == CacheInit => Init /\ FilesInLocale /\ OrphanInv /\ CacheTypeOK
  BY DEF CacheInit, FilesInLocale, OrphanInv, CacheTypeOK

LEMMA CacheInvHolds == CacheSafety => [](TypeOK /\ WorkInv /\ FilesInLocale /\ OrphanInv /\ CacheTypeOK)
<1> DEFINE Inv == TypeOK /\ WorkInv /\ FilesInLocale /\ OrphanInv /\ CacheTypeOK
<1>1. CacheInit => Inv
  BY CacheInitInv, InvInit
<1>2. Inv /\ [CacheNext]_cacheVars => Inv'
  BY FilesStep, CacheStep, TypeStep, CacheTypeStep
<1>3. QED
  BY <1>1, <1>2, PTL DEF CacheSafety

(* The types of the files, and of the place in a job of the worker and the old one.  *)
THEOREM CacheTypeCorrect == CacheSafety => []CacheTypeOK
  BY CacheInvHolds, PTL

(* The worker that reads and writes its files, is left behind by a restart in the    *)
(* middle of one, or is killed in it, implements the worker whose jobs are one step  *)
(* (api/catalog/worker.rs): whatever is on disk, a job answers in its own language.  *)
THEOREM CacheImplementsCatalog == CacheSafety => Safety
<1>1. CacheSafety => [](TypeOK /\ WorkInv /\ FilesInLocale /\ OrphanInv /\ CacheTypeOK)
  BY CacheInvHolds
<1>2. WorkInv /\ FilesInLocale /\ [CacheNext]_cacheVars => [Next]_vars
  BY CacheStep
<1>3. CacheInit => Init
  BY CacheInitInv
<1>4. QED
  BY <1>1, <1>2, <1>3, PTL DEF CacheSafety, Safety

(* So no title shows details in another language, with the cache either, although    *)
(* a language change may leave files and an old worker that still writes one.        *)
THEOREM CachedDetailsFollowLocale == CacheSafety => []DetailsInLocale
  BY CacheImplementsCatalog, DetailsFollowLocale, PTL

(* And no title or image is fetched twice at the same time, whatever becomes of its   *)
(* file: a job that fails, is cut short or hits a partial one still answers once.     *)
THEOREM CachedFetchesOnce == CacheSafety => []FetchedOnce
  BY CacheImplementsCatalog, FetchesOnce, PTL

(* And while a tick works the app holds the images of its selection only.             *)
THEOREM CachedImagesStayNear == CacheSafety => []ImagesNearSelection
  BY CacheImplementsCatalog, ImagesStayNear, PTL
================================================================================
