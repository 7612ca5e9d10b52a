# GreenVita in TLA+

GreenVita is an Xbox Cloud Gaming client for the PS Vita.  This directory holds a
verification project for it: TLA+ modules translated from the Rust code, TLC
configurations that model-check them on small instances, and TLAPS proofs of theorems
that hold for every value of the constants.  Paths below are relative to the
repository; `PROJECT.json` maps every definition to the lines it stands for.

Check a run with `tlc -workers 2 -config <cfg> <module>` and the proofs with
`tlapm <module>`, from this directory.

## 1. The system

The program has one UI thread, which runs the shell loop, the app's state machine and a
`current_thread` tokio runtime, and four worker threads: the RTC thread (UDP, SCTP, RTP,
Opus packets), the video decoder, the audio decoder, and the catalog worker.  They talk
through bounded `crossbeam` channels, one-place slots, atomics and one mutex with a
condition variable.  Spawned tokio tasks ("jobs") run on the UI thread, between ticks.

| Component | Source (`src/src/`) | State | Operations | Hard part |
|---|---|---|---|---|
| Direct video output | `streaming/video/mod.rs`, `shell/surface.rs` | two textures, displayed and pending index, the mutex | decoder waits, decodes, publishes; renderer marks, draws, creates and drops textures | timed wait, raw pointers across threads, picture numbers that cross four slots |
| Video decode worker | `streaming/video/worker.rs` | unit queue, command queue, generation, hardware decoder, result slot | submit, reset, stop, decode, publish a result | commands overtake units; units go stale at any time |
| RTP receiver, RTC session, keyframe recovery | `api/streaming/rtc/{rtp,media,session}.rs` | packets of a frame, expected sequence number, damage score, keyframe wait, size limit, watchdog, cooldown | pump: receive and assemble, resync, reset, watch for the first packet, request a keyframe | lost, repeated and reordered packets, wrapping numbers, lost answers, reconnections, two clocks |
| RTC worker thread | `api/streaming/rtc/worker.rs` | commands, events, what was announced | negotiate, round, shutdown | lossy sends on full channels, both ends of a shutdown |
| Xbox streaming backend | `api_xbox/streaming/backend.rs`, `app/stream_session/` | seen candidates, gathered candidates, three job slots | drain events, post and poll ICE, keepalive, stop | a candidate must cross once, a failed post |
| App and session lifecycle | `app/{state,command,entry,service}.rs`, `app/stream_session/`, `app/ui/` | the `AppState`, its jobs, the sessions at the service | start, poll, stream, pause, settings, log out, clean up | aborted jobs, detached tasks, nested states |
| Title list and catalog worker | `app/titles.rs`, `app/service.rs`, `api/catalog/worker.rs` | pending sets, job and result channels, details and images | one tick of requests, taking results, restart | refused and repeated requests, panics, late results |
| On-disk catalog cache | `api/catalog/{cache,worker}.rs` | a file per title and language | read, remove, write, clear | kills during a write, two workers at one file |
| Sign-in and login token store | `api_xbox/auth.rs`, `safe_memory.rs`, `app/entry.rs` | token file, key in Safe Memory, device code, copies of `MsalAuth` | request and poll a code, save, load, migrate, clear | kills between two writes, detached copies, lost answers |
| Audio path | `streaming/audio.rs`, `AudioRtp` in `rtc/rtp.rs` | batch, packet and sample channels, SDL's queue, start threshold | gather, submit, decode, queue, start, clear, restart | three lossy channels in a row, thresholds, a worker that dies or blocks |
| Control channel and input | `api_xbox/streaming/control/`, `streaming/input.rs`, `shell/` | handshake stage, gamepad slot, pulses, sequence number | handshake, send frames, hold-to-pause | an overwritten slot, wrapping numbers |
| RTC setup, transport, hardware decoder, settings, translations, drawing | the rest | | | system calls, formats, layout |

How they interact:

- RTC thread to decoder: `submit_access_unit` (bounded queue, may refuse), `Reset` and
  `Stop` (a second queue the decoder reads first), the generation counter; back through
  the one-place result slot.
- Decoder to renderer: textures through `DirectVideoOutput`'s mutex, and the number of
  the picture through result slot, RTC event, `latest_frame` and the surface.
- UI to RTC thread: commands (lossy), events (lossy, but for the last report).
- RTC thread to UI to audio decoder and back: batches of packets (lossy), packets (lossy),
  samples (the decoder waits), then SDL's queue.
- App to service: HTTPS requests in jobs; a job whose handle is dropped runs on, one that
  is aborted stops at its next await.
- UI to catalog worker: two job channels, one result channel.
- All jobs that need a login hold a clone of `MsalAuth`; file and key are shared.

What makes each correct: the picture shown is whole and in order (video output); a delta
is decoded on its keyframe only, units are whole and gaps noticed, and recovery ends
(decode, RTP); sound is heard in order and starts again (audio); a candidate crosses
at most once and shutdown ends (RTC worker, backend); the server is told once who plays and
is asked for the first picture (session); every session that costs the user
a slot at the service is known to the app (lifecycle); a fetch is in flight once, and
what arrives fits the selection and language (catalog); a saved login can be opened, and
is gone after a logout (token store).

## 2. Modules

| Module | What it models |
|---|---|
| `LatestFrame` | the abstract promise of the picture hand-off: the shown picture is one that was published, and never an older one than the last |
| `DirectVideoOutput` | both textures, the mutex with its timed wait, and the chain of slots from the decoder to `draw_scene` |
| `VideoRtp` | the reassembly of access units from RTP packets that are lost, repeated and reordered |
| `RtcSession` | the pump around `VideoRtp`: the peer's events and messages, the introduction to the server, the first-packet watchdog and the keyframe requests |
| `RtcSession_proofs` | theorems about both |
| `VideoDecode` | the RTC thread's decisions about access units, and the decoder thread |
| `Video_proofs` | theorems about `VideoDecode` and `DirectVideoOutput` |
| `RtcWorker` | the RTC thread's rounds and channels, composed with the UI-side backend and the signalling service |
| `RtcWorker_proofs` | its theorems |
| `StreamLifecycle` | the app's states and jobs as far as they create, use and stop sessions at the service |
| `StreamLifecycle_proofs` | its theorems |
| `Catalog` | the tick of the title list and the catalog worker |
| `CatalogCache` | the same with the worker's jobs at the on-disk cache step by step, and the old worker a restart leaves behind |
| `Catalog_proofs` | theorems about both |
| `TokenStore` | the sign-in with a device code, the token file, the key and the copies of the login |
| `TokenStore_proofs` | its theorems |
| `GamepadInput` | the shell loop's sampling and hold-to-pause gesture, the slot and pulses it leaves the RTC thread, the unreliable input channel |
| `GamepadInput_proofs` | its theorems |
| `AudioRenderer` | the sound's way from the packets of one round of the RTC thread to the device |
| `AudioRenderer_proofs` | its theorems |
| `MC*` | the instances: sets of values for the constants, symmetry |

### DirectVideoOutput

`displayed`, `pending`, `nextGeneration` and `targets` are the fields behind the mutex.
`LockDecodeTarget` takes it, `WaitTimeoutWhile` is `wait_timeout_while` (woken by
`MarkDisplayed` and `ClearTargets`, or, if `MayTimeOut`, by time).  The decoder keeps the
mutex while it writes a texture, until `Publish` or a failed decode drops the guard;
drawing a texture needs no mutex, which is why a timed-out wait can tear.
`PublishResult`, `DrainDecoder`, `ForwardFrame` and `TakeLatestFrame` carry the picture
number; `MarkDisplayed`, `SwitchTexture` and `DrawScene` are `sync_video_frame` and
`draw_scene`.  `EndSession`, `ClearTargets`, `FreeTextures` end it.
What each texture holds, and how many unmarked pictures were overwritten, are history
variables.  The numbers wrap at 2^64 in the code; `MaxGeneration` bounds them here.

### VideoRtp

`Stream` is what the server sends; the network delivers any packet of it at any time, as
often as it likes or never.  `pending`, `expected` and `last` are the receiver's fields.
`Collect`, `Complete` and `Discard` are the three results of `assemble`, with what
`receive` does before it (giving up an older frame, ignoring a late packet) and after.
`units` counts what was handed on, so that the same frame handed on twice is seen.
The receiver computes with sequence numbers and timestamps modulo `SeqWidth` and
`TimeWidth` (16 and 32 bits in the code); the properties speak of the packets themselves.
Reordering is so free here that no bound on it is needed, but that the stream be shorter
than half of either width.

### RtcSession

Extends `VideoRtp` by the rest of one `pump`, in its order: `BeginPump` and the events
(`ConnectionStateChange`, `OpenTrack`, `HandleChannelOpen`), the messages (`ReceivePacket`,
which is `Receive` of `VideoRtp`, and `HandshakeAck`), `DrainDecoder`, then the moment the
clock is read (`WatchFirstPacket`, `RequestKeyframe`).  `watching`, `retried` and `asked` are
the three instants as ages, which only `Tick` between two pumps raises.  Which events the
rtc crate raises, in which order and how often, is free; so is what becomes of a message sent
before its channel has opened.  `said` and `quiet` are history variables.

### VideoDecode

A unit has one of five kinds (delta, SPS only, IDR only, both, both and too large) and
whether it is of the current generation.  `RtcStep` is one `pump`: read messages, feed
frames, drain the decoder, ask for a keyframe.  `DecodeStep` is one turn of
`run_decode_loop`, split where the two threads interleave: the biased choice, the stale
check before the hardware call, the one after it.  Frame rates only choose limits, so
`DamageLimits` and `PendingLimits` are sets from which each use picks.

### RtcWorker

`commands` and `events` are the two channels; `SendLossy` drops on a full one.  A
session's three parts are the thread's round (`rtc`), the UI's tick (`ui`) and the
requests under way; a poll or keepalive job is looked at by the tick only, which finds it
ended or not.  `posted` counts what the service received, `dropped` remembers the candidates
and sizes a full channel dropped until they are sent again or, a size, a newer one is
announced, and `unposted` the candidates of posts that failed.

### StreamLifecycle

`screen`, `settings` and `paused` are the `AppState` and what nests in it.  `created`,
`offeringOf` and `alive` are the sessions at the service; `abandoned` and `unstopped` record
those the app left without a stop request, or whose request failed.  Aborting and
detaching a job are different actions: `LatePlay` is a play request that reaches the
service although its job was aborted.

Each session has an *offering*: the account's consoles, its subscription's titles, or what is
free to play.  `primary` and `fallback` are the credentials `config.cloud` and
`config.cloud_f2p` that `PumpCredentials` sets; a cloud start that the primary offering does
not contain is repeated with the fallback (`PlayFallback`).  The listing a cleanup works from
asks with `config.cloud` only (`Active`), so `unlisted` records the sessions it cannot see:
those of a fallback, and those of an offering that a later sign-in replaced.

### Catalog

`pending` is the union of the four pending sets, keyed by title and kind; cover and
background are handled alike and are one kind, "art".  A tick is three steps
(`EnsureTitleDetails`, `EnsureIconPrefetch`, `TakeResult`...), between which the worker
runs; the two sends of one prefetch are not told apart in time.  `lost` records what panicked jobs were to load: the code never
clears their pending entries until a restart.

### CatalogCache

Extends `Catalog`: a job whose file is followed takes the steps of `Continues` and `Answers`
instead of one `Run`, and everything else is `Catalog`'s own action.  `files` holds, for each
title and language, the language of the details in `metadata.json`, "absent" or "partial".
`LeaveWorkerBehind` is what `restart_catalog_worker` does to the thread it replaces: it
finishes its job, or the first it finds queued, as `orphan`, and ends when its result cannot
be sent.  `ChangeLocale` clears the directory as far as it gets; `Restart` kills everything
but the files.

### TokenStore

`code` is the device code as the sign-in service has it; the poll job only learns of it
what an answer tells, and an answer may be lost.  The file is absent, partial, plain or
sealed for an account with a key.  `io` is the next
access of the save, load or clear under way; since they run without an await, no other
task runs between, but `Restart` (a kill) may.  Every access may fail: `RemoveFile`, whose
errors the code ignores, may leave the file; a key that cannot be saved ends the save
(`CreateKey`), and so may sealing or making the directory once the key is there
(`GiveUpSaving`).  `leftover` remembers a file that is still there after its removal was
tried or its key replaced, `kept` a logout that could clear neither file nor key.  `polls`
are the provisioning jobs with
their copy of the login, `orphans` those under way at a logout.

### GamepadInput

`ui` is the place in the shell loop's pass: `Poll` reads the events, resolves the gesture
(`KeepHolding`, `OpenPauseOverlay`, `Release`) and runs the commands, `Sample` is
`send_stream_gamepad_state`, `Draw` the commands of a touched overlay, `Repoll` the
samples taken while the frame's time is not over.  `slot` and `pulsed` are what
`RtcWorker` hands to its thread; `DrainPulses` and `SendGamepad` are the first half of
that thread's round, which `RtcWorker` leaves out.  `server` is the last frame the game
received: a packet sent is received or lost, and `last` does not tell which.  `menuA`,
`owed` and `dropped` are history variables.

### AudioRenderer

`gathered`, `batches`, `pending`, `packets`, `hand`, `buffers` and `queue` are the places
the sound passes, in this order: a round's packets, the batch channel, the UI's list,
the packet channel, the decode worker, the sample channel, SDL's queue.  `ui` is the place
in the tick: `DrainBatch` is `drain_backend_events`, and `SubmitPackets`, `SendPacket`,
`SendToDeadWorker`, `QueueSamples`, `NoMoreSamples` are the parts of `submit_packets`, between
which the worker and the device run.  A new decoder or thread may be refused
(`RestartDecodeWorker`), and so may samples by SDL.  Packets have no identity: each bears
only whether it was received before or after one freely chosen moment, which is enough to
see any two of them change places.  `heard` is that mark of the last unit played, a history
variable.  The renderer outlives sessions, and so do the packets it holds.

## 3. Runs

| Run | Expect | Checks |
|---|---|---|
| `hitches` | pass | no write to dropped textures; what is drawn is the picture the UI was given unless a timed-out wait overwrote it; tearing only through such a wait; order (refinement of `LatestFrame`); a pending picture is shown; a session's end stops the decoder |
| `recovery` | pass | a delta is decoded only on its generation's keyframe unless that was lost on the way; a keyframe wait ends; errors start a recovery; the decoder gets its parameter sets again |
| `network` | pass | the introduction is said once and in order; a connected session without a packet is never silent for longer than the grace period or the interval; a unit handed on is one frame, gapless to its marker, and whole if the packet before it is known; units come in the order of the stream and no frame is handed on twice; a gap between units asks for a keyframe; an intact frame is not held up but after an unseen one, or padding within it or out of turn |
| `session` | pass | candidates cross at most once each way; a new size is shown, past everything sent before it, and a gathered candidate posted, unless that very value was dropped on a full channel or its post failed; the RTC thread's end is noticed and a dropped worker ends |
| `superseded` | violation | `DroppedIsSuperseded`: a candidate or size that a full channel dropped is never sent again, although a comment says the next tick supersedes it |
| `sessions` | pass | every session still running is the one in use or being started, or one left behind by a logout, an aborted start, a lost answer, given-up polls or a failed stop request; one session per kind among those whose offering the cleanups list, unless a cleanup failed or a play request outlived its job; starting ends |
| `stale` | violation | `StopsOnlyStaleSessions`: the cleanup spawned after sign-in stops the stream the user has just started |
| `list` | pass | each fetch in flight at most once; details in the settings' language, whatever files and old workers are left; images only near the selection |
| `rest` | pass | a user who rests on a title gets its art and the details of its neighbours, unless a job panicked |
| `play` | pass | the game sees one View per short press of Back and none for a hold; the press that chose Guide in the overlay stays there; Guide arrives and is released; what is held reaches the game in spite of lost packets |
| `sound` | pass | a queue with the start buffer in it is playing; sound is heard in the order received; a session that goes on is heard again and again |
| `login` | pass | a saved login can be opened and is not plaintext, whenever the app was killed, unless its removal failed or a save was given up after replacing its key; a logout is final if it could clear file or key, but for a detached poll; an approved code is redeemed or expires |

The two violations are real disagreements between the code and what a comment or a log
line says; `PROJECT.json` quotes both sides.

### Bounds

- `hitches`: four pictures.  Two textures, one pending and one displayed index
  need two; a third one overruns, and a fourth one recovers from the overrun.
- `network`: eleven packets of five frames, padding and unusable frames among them, with
  both kinds of numbers wrapping midway.  The session's times are 3, 3 and 2 ticks: the
  cooldown is shorter than the other two, as in the code (300 and 500 ms), and each can end
  in a pump of its own.
- `recovery`: one queued unit and damage limits of two and three, so that the limit moves
  while damage is counted, as it does with the frame rate.  A longer queue adds no new kind
  of staleness, since a generation change marks all of it.  The stream sends deltas,
  keyframes with and without parameter sets, and ones that are too large.
- `session`: one candidate each way, two new sizes, channels of one place, so that both full
  channels, both directions at once and an announcement that overtakes another's loss
  happen.  `superseded`: the same with one new size.
- `sessions`: two sessions, so one may be left behind while the next is started, and two
  failed polls (ten in the code); any of the three offerings, so a fallback session may be
  met by a later start.  The bound on sessions is why this model may stop.
- `list`: four titles around a selection that sees one to each side, so one is out of
  reach and the ring is not all near; one of them has metadata, and its file is followed in
  two languages; channels of one place; one panic, one old worker at a time.  `rest`: two titles within
  reach of each other, so one waits behind the other, which may never come because its job
  panicked, and either language; three titles, one without metadata, were checked in one
  language and without panics, for longer than the run may take otherwise.
- `login`: two accounts, three keys (old, new, lost) and two polls, so an orphan and a
  current one run at once.

- `play`: the state is finite as it is.  Other buttons than Back and A are handled like A
  but for `ignore`, so the run has none; the proofs hold with any.
- `sound`: channels of one place and rounds of two packets, so that each channel is soon
  full; SDL's queue holds three units and starts at two, and a packet decodes to one or
  two, so an overflow leaves less or more than the threshold behind.  `MaxPending` bounds
  what one drain takes: in the code the RTC thread could send batch after batch while the
  UI drains, here the one beyond three packets stands for one sent just after.

Where a module has proofs, its type invariant and the strengthenings are proved there and
not checked by a run as well; TLC agrees with each on the instance of that module's run.
Only `VideoDecode` has a run that checks its type invariant, `DecodeTypeOK`.

### Fairness

Fairness is stated in each module beside `Spec`.  Threads keep running (weak fairness of
their steps).  Beyond that:

- `DirectVideoOutput`: units need not arrive and sessions need not end.  The renderer
  gets the mutex in the end (strong fairness of `MarkDisplayed` and `ClearTargets`)
  because the decoder releases it between units.
- `VideoDecode`: the server goes on sending frames and a keyframe it was asked for
  arrives in the end while the queue has room; hardware does not fail for ever.  Without
  these no code could end a wait.
- `RtcWorker`: negotiation (45 s) and requests end by their timeouts; the UI drains
  events faster than the paced RTC loop produces them.
- `StreamLifecycle`: requests end by the client's 30 s timeout; every tick polls the job
  of the screen; the user need do nothing.
- `Catalog`: the list ticks while it is shown, fetches end by their 8 s timeout, and one
  that is repeated for ever does not always fail.
- `GamepadInput`: both threads run and time passes: a hold becomes long, a pulse ends, and
  of packets sent again and again one arrives.  Nothing is assumed of the player.
- `AudioRenderer`: all threads run, the server goes on sending, and at the pace the device
  plays (strong fairness of `Play`: not all sound is cleared before any is played, as it
  could be if packets came faster for ever).  A decoder, a thread and SDL that are tried
  again and again do not fail for ever.  `SoundGoesOn` says so only of a session that goes
  on and a worker that panics no more.
- `VideoRtp`, `RtcSession`, `CatalogCache`, `TokenStore`: none; all their properties are safety.

## 4. Proofs

The proof modules show type correctness and the safety properties of their component
for every value of the constants, from the named assumptions of the module alone.

`Video_proofs`, the decoder's near side (`VideoDecode`).  `DeltaFollowsKeyframe` speaks of the
moment of decoding; `KeyframeInv` follows the keyframe there.  A resync or reset first makes
every unit on its way stale and only then does the wait for a keyframe start, so while it
lasts no unit of the current generation is queued (`NothingFresh`).  It ends by queueing a
keyframe.  From then on the keyframe was decoded, or refused, skipped, failed or discarded
(`Settled`), or it is on its way (`KeyframeOnItsWay`), in front of every delta (`DeltasBehind`):
the queue is in order and a command overtakes all of it or nothing.

The far side (`DirectVideoOutput`).  "What is drawn is the picture the UI was given" is not
inductive: it depends on who may write which texture now.  `StrongInvariant` adds
`Counted` (numbers are below `nextGeneration`), `Phases` (what the two threads' places say
of the shared fields), `PipelineOrder` (numbers do not decrease from the surface back to
the decoder), `NothingYet` (before the first picture) and `TextureOwnership` (the
texture being written is neither displayed nor that of an unread pending picture, but
after a timeout).  From it follow
`WritesOnlyLiveTextures`, `DrawsWholePictures` and `TearsOnlyOverrunPictures`.
`PendingOnItsWay` says where the number of a picture that waits to be shown is: in the
decoder's hand, in one of the slots, at the surface, or an error took its place in the
result slot; a newer number replaces an older one in a slot, and the pending one is the
newest.  `ShowsInOrder` is the refinement of `LatestFrame`: initial states map to initial states and every step to
a publication, a showing, a close or a stutter.  `SynchronizedWithoutTimeouts` shows
that with `MayTimeOut = FALSE` no texture is drawn while it is written: the timeout is the
only cause of tearing.

`TokenStore_proofs`.  That a login found while idle is readable depends on what a save or
clear that is under way leaves to be done.  `StoreInv` says so for each stage:
`SavesUnderRecord` (a chosen key is the one in Safe Memory), `ReadableOrLeft` (an
unreadable file exists only before the access that is to remove it, or outlived it, or lost
its key to a save that was given up: `leftover`), `PlaintextOnlyAtLoad`,
`OnlyOrphansHoldTokens` (after a logout nobody holds a token but the polls that were under
way) and `CopyOnlyWhileSigningIn`.  Each step preserves each part; the promises are
consequences, `ApprovalCounts` of the single steps.

`GamepadInput_proofs`.  That a View reaching the game is owed needs to be known of the
slot and of the relay; and since sending it settles the debt, that no second tap is
resolved while the View of the first waits: the sample taken when Back went down has
replaced it (`OneViewAtATime`).  `MenuConfirmWithheld` says that while the confirm is down
the session ignores it.  Two action properties follow.  `PulseInv` relates the game's Guide to
the pulse that presses it: down only while the release is to come, and down while it runs,
unless one of its packets was lost or a new press waits.

`AudioRenderer_proofs`.  `PlayingInv` ties the device to `started` and, while that is
false, the queue to less than the start buffer; `EnoughIsPlayed` is half of it.  That sound
is in order takes the whole way: `SortedInv` says that each place holds nothing received
before the moment behind something received after it, `OrderInv` that no place holds
something received after it while a place that comes before it on the way still holds
something received before.  Each step moves or drops at one place, and the lemmas on `Append`,
`Tail` and concatenation carry the two over.

`StreamLifecycle_proofs`.  `SessionInv` says which screens and which stages of the start job
hold a session; with it `EverySessionAccountedFor` is inductive.  `CleanupInv` follows the
cleanup before a start: while paths are being stopped all sessions the listing of the kind sees are among
them, and when the play request is sent there are none of these, unless a cleanup request
failed before or a play request outlived its job (`careless`).  A running session is one the
listings see or is `unlisted`, and of those they see there are no two of a kind (`Counted`).  `StartsSpareOwnSession` sets the violation `stale` in its place: of all the
steps that stop a session, only the cleanup after sign-in can meet one the app is starting or
using against the user's will; the cleanup of a start runs when there is none.

`Catalog_proofs`.  The type invariant needs `WorkInv` (what the worker holds in which stage)
and that a set of titles has a nearest one, which the library's well-founded minimum gives.
`LocaleInv` says that all in the three channels and in the worker's hand is in the settings'
language: a change of language replaces the channels and the worker.  `CatalogCache` is shown
to implement `Catalog`: `FilesInLocale` says that a file holds details of the language its
path names, so what a job answers from it is what `Catalog`'s `Run` allows; all other steps
are `Catalog`'s or leave its variables alone.  Whatever holds of `Catalog` then holds with the
cache: `DetailsInLocale`, `FetchedOnce` and `ImagesNearSelection`.
`FetchesOnce` counts the places of a key in the two job channels, the result channel and at
the worker; the lemmas on `Append` and `Tail` say how a message that moves changes the
counts, and `IdleHasNothing` that a worker looking for a job holds none.  `ImagesStayNear`
needs only that a tick works on a list that is there (`ImagesInv`).

`RtcWorker_proofs`.  `RemoteInv`: a remote candidate that is in the command channel or was
added is in `remote_ice_candidates`, is in the channel once, and not any more once added.
`LocalInv`: a local candidate is in one place only - an event about to be sent, the event
channel, the pending set, a post under way - and in none once it was posted.  `OutboxInv`
says that between two rounds no event is left to send.  `SizeInv` carries
`ResolutionsArrive`: the events of a round announce the current size or none, and once they
are sent the last announcement in the channel is the current size, or there is none and the
UI shows it - unless that size is in `dropped`.  Two more invariants are the safety side
of what the run checks as liveness: `NoCandidateAstray`, that a gathered candidate is in some
place, was posted, or is in `dropped` or `unposted`, and `EndInv`, that the report of a thread that ended by itself
is in the channel or was read, however full the channel was.

`RtcSession_proofs`.  `PictureIsSought` rests on an invariant that bounds `quiet` by the ages
of the watchdog's instants: while nothing was received, a session that could ask has been
quiet no longer than since it connected or last asked.  `Introduced` follows the handshake
stage: what has been said is what that stage allows, in order.
The receiver's promises hold of the session because each of its steps is one of the
receiver or leaves it alone (`SessionReceives`).  `FramesInv`: what is pending is of one
frame, later than the last unit's, whose time is `last`; that a comparison of times modulo
the width is one of frames, and the distance of two sequence numbers one of places in the
stream, follows from the stream being at most half as long as the numbers go round
(`StreamAssumption`).  `NumbersInv`: the number expected next is that of the packet after
the last one of the frame settled last, which is the last unit's frame if no keyframe was
asked for since.  A run of consecutive numbers from a NAL unit's beginning to a marker is then the end
of a frame, and the whole frame when it begins with the number expected.  For
`IntactFramesComplete` the same facts are used the other way: when the frame before is settled
and no padding lies between or within, the frame's first packet has the number expected and
its last the marker, so the packet that completes it hands it on.

Only model-checked: the liveness properties, since the prover has no rules for fairness.
Of several the safety half, that what must happen can still happen, is proved: for
`GatheredIsPosted` (`CandidatesStay`), `EndIsNoticed` (`EndsAreReported`),
`PendingPictureIsShown` (`PendingPictureStays`), `GuideArrives` and `PulseIsReleased`
(`GuideFollowsPulse`), `StartResolves` (`StartsArePolled`), and `NeighboursGetDetails` and
`SelectedArtIsShown` (`FetchesOnce`: what is pending is under way, or its job panicked).  For
these TLC adds that each place is emptied in the end; the others rest on TLC alone, in
particular the recovery of `VideoDecode`, which goes through failures of later units, and
`SoundGoesOn`.

## 5. Behaviours worth knowing

Beyond the two violations (`stale` and `superseded`), the models make these explicit; none contradicts a statement
in the repository, so they are conditions inside the properties:

- When the renderer is slower than the decoder's wait, both use one texture: the picture
  drawn then may be torn (`overrun` in `DirectVideoOutput`; `SynchronizedWithoutTimeouts`
  proves that nothing else tears).
- Opening the pause overlay sends nothing, so the game sees what was held then as held
  until it is resumed.  A short press of Back lives in one sample: if the next one replaces
  it before the RTC thread's round, or its packet is lost, the game never sees it.
- Resume, unlike Guide, does not withhold the press of A that chose it.
- A keyframe request made during the cooldown is forgotten.  When a unit was refused by a
  full queue then, and nothing goes wrong after, none is asked for (`RequestKeyframe` in
  `VideoDecode`).
- A keyframe request starts the cooldown even if neither the track nor the control channel
  is there to carry it (`RequestKeyframe` in `RtcSession`).  Any packet ends the watch for the
  first picture, padding too.
- If the acknowledgement of the handshake comes before the control channel has opened, the
  authorization may be lost and is not sent again (`Introduce` in `RtcSession`).
- A request for a device code that fails leads over an error screen to the mode menu, without
  a login (`LeaveError` in `TokenStore`); so does a login rejected while the profile is fetched.
- If the answer that hands out the token is lost, the app polls on until the code expires,
  and shows a new one (`AuthorizationLost`).
- After a language change the old worker may still write a file of the old language into the
  cleared cache, where nobody looks for it until the language is chosen again.  The cached
  list of games (`games.json`) is kept over a logout and names no account: if the next
  account's request for its list fails, it is shown this one.
- A frame all of whose packets are lost holds up the next one, intact as it may be, until
  a packet of the frame after it gives that up too; padding within a frame or out of turn
  does the same (`IntactFrameCompletes` in `VideoRtp`).
- A session started with the fallback credentials is listed by no cleanup: after a logout
  from a paused stream, or an aborted start, it runs until the service ends it, beside the
  next one (`unlisted` in `StreamLifecycle`).  So does one of a sign-in whose offering
  the next sign-in replaced.
- A file whose removal fails stays: a plaintext token then outlives its migration if the write
  fails too, and an unreadable file is read again at the next start.  A save that is given
  up after it made a new key leaves the old file under a key that is gone (`leftover`).
- A logout that can clear neither the file nor the key leaves the login, and the next start
  signs in with it (`kept`).
- After a reset the decoder is a new one without parameter sets, and a keyframe that is only
  an IDR ends the wait all the same.  `DecoderIsPrimed` shows that the failed decode then
  leads to the next reset and request, until one comes with its parameter sets.
- A provisioning poll that is still running when the user cancels and logs out saves its
  refreshed login after the logout (`haunted` in `TokenStore`), and one that is rejected
  clears whatever login is saved by then.
- `send_lossy` on a full channel loses for good what is announced only once: a local candidate,
  a new video size, and a remote candidate, which is remembered as seen before it is sent
  (`SendLossy` and `AddRemote` in `RtcWorker`; the run `superseded`).
- `session.pump` has no error path that returns `Err` today; `PumpError` is the handler that
  is there for one.
- Sound of a session that has ended stays in SDL's queue and in the decode worker, and is
  heard when the next session fills the queue to the threshold (`EndStream` in
  `AudioRenderer`).
- A catalog job that panics leaves its key pending, and since only the nearest title
  without metadata is asked for, those behind it wait with it (`lost` in `Catalog`).
- Sessions are left running at the service by a logout from a paused stream, an aborted
  start, and a connection that gives up after ten failed polls (`abandoned` in
  `StreamLifecycle`); the next start's cleanup finds them, but for those
  no listing sees.
- Migrating a plaintext token removes it first: if sealing fails or the app is killed, the
  user has to sign in again.

## 6. Not modelled

Pointer packets (one message each, without state beyond the sequence number of `GamepadInput`)
and the way the server's reports reach its video size are left out.
Out of scope: HTTP, JSON, SDP and ICE formats, ciphers,
DTLS and SCTP (libraries); `sceAvPlayer`/AVCDEC calls and memory blocks, of which only
outcomes matter; settings and translations, which are saved and looked up without
behaviour over time; all drawing.  In `Catalog` and
`CatalogCache` the files of images (they change how a job ends, not in which language), the
cached game list, the avatar and the search filter (a search only moves the selection) are
left out.

## 7. Plan

Order of the work, the most important behaviour first; all of it is done.

1. `DirectVideoOutput`, `LatestFrame` and their proofs.
2. `VideoDecode`.
3. `RtcWorker` with the backend, and proofs.
4. `StreamLifecycle` and its proofs.
5. `Catalog` and its proofs.
6. `TokenStore` and its proofs, then the sign-in with a device code.
7. `VideoRtp`.
8. `GamepadInput` and its proofs.
9. `AudioRenderer` and its proofs.
10. `RtcSession`: the first-packet watchdog and the introduction, and proofs.
11. `CatalogCache` and its proofs.
12. Theorems for `VideoDecode` and `IntactFrameCompletes`, so that each invariant and action
    property a passing run checks is proved, and the safety halves of liveness properties.

Left: a proof that the whole of `VideoDecode` implements a two-state abstraction (picture
intact, waiting for a keyframe), so that what the renderer is given could be stated end to end.
