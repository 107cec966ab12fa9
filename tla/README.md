# litepipe in TLA+

litepipe records what a Mac shows and hears into a local SQLite archive. It is
two programs: a Swift app (`src/apps/litepipe-mac`) that supervises, and a Rust
engine (`src/crates`, a fork of screenpipe) that captures, transcribes, detects
meetings and serves an HTTP API on `127.0.0.1:3030`. These modules model the
parts of both whose correctness depends on the order in which things happen.

Paths below are relative to `src/`; `engine/` abbreviates
`crates/screenpipe-engine/src/`, `db/` `crates/screenpipe-db/src/`, `audio/`
`crates/screenpipe-audio/src/` and `mac/` `apps/litepipe-mac/Sources/litepipe/`.

Contents: [inventory](#inventory), [modules](#modules),
[runs](#runs), [counterexamples](#counterexamples), [proofs](#proofs),
[plan](#plan), [not modelled](#not-modelled).

## Inventory

| Component | State | Operations | Interacts with |
|---|---|---|---|
| Write queue, `db/write_queue.rs` | channel of 512 writes, current batch, `WRITE_PAUSED`, `RESUME_NOTIFY` | `submit`; drain loop: receive, gate, execute batch, answer | write pool, write semaphore, sleep monitor |
| ImmediateTx, `db/db.rs` 105-191, 598-709 | a pooled connection, the write permit, `committed` | begin with retry, commit, drop (spawns ROLLBACK) | shares pool and semaphore with the queue |
| Sleep monitor, `engine/sleep_monitor.rs` | screen lock flag, recent-wake flag | will-sleep, did-wake (callback threads), delayed resume (task) | write queue; capture stream invalidation |
| Engine supervisor, `mac/Engine.swift`, `ArchiveWindow.swift`, `App.swift`, `Settings.swift` | status, pid, respawn budget and timer, exit source, poll timer, timed pause | start, stop, pause, restart, respawn, poll, delete with the engine stopped, quit | signals and watches the engine process; HTTP |
| Microphone gate, `mac/Engine.swift` 390-412 | `micGateBusy`, `micGateInMeeting` | poll the meeting state, POST `/audio/start` or `/audio/stop` | audio manager of whichever engine listens |
| Audio manager, `audio/audio_manager/`, `audio/device/device_manager.rs` | running flag; enabled and paused devices; maps of streams, flags and recording handles; the memory of the device monitor | start, stop; pause and resume a device; a pass of the monitor every 2 s; stop and restart of the outputs for protected content | gate, engine's own delayed start, hardware, wake, monitor watcher |
| Meeting detector, `engine/meeting_detector.rs` | `MeetingState`, `last_explicit_stop_id` | scan every few seconds, advance, store start or end, sync the flag | meetings table, manual lock, event bus |
| Meeting handlers, `engine/routes/meetings.rs` | the manual-meeting lock | start, resume, stop, status, delete, update, merge, split | the same, concurrently with the loop |
| Live transcription, `audio/meeting_streaming/` | the live session | asks for the end of a quiet meeting | event bus |
| Chunk reconciliation, `audio/audio_manager/reconciliation.rs`, `manager.rs` 791-940, `engine/routes/retranscribe.rs` | audio files, rows of `audio_chunks` with status and attempts, pending-transcription files, `RECONCILIATION_RUNNING` | record, transcribe live, sweep (query, batch, transcribe, merge, store, clean), retry, drop, retranscribe | write queue, files, two callers of the sweep |
| Event capture, `engine/ui_recorder.rs`, `event_driven_capture.rs`, `frame_linker.rs`, `frame_linker_actor.rs` | batch of events, trigger ring, memory of each monitor's loop, linker channel, rows and frames waiting for each other | record an input, flush, drain triggers, capture or skip, pair, expire | frames and `ui_events` tables, screen lock, ignored windows |
| Retention and compaction, `engine/retention.rs` and neighbours | eviction cursor, snapshot files | evict, compact | database, files |
| Redaction workers, `crates/screenpipe-redact` | work cursors | claim, redact, write back | database |
| Hot frame cache, `engine/hot_frame_cache.rs` | today's frames in memory | push, warm, evict | capture and timeline |
| Vault, `crates/screenpipe-vault` | locked flag, migration progress | lock, unlock, migrate | files |

What is hard about them, and what makes them correct:

* **Write path.** Two kinds of writers share one permit and a pool of three
  connections. Every statement may fail, futures may be dropped at any await,
  SQLite may roll a transaction back on its own, and the machine may go to sleep
  between any two steps. Correct: at most one writer between BEGIN and its end;
  every caller is answered exactly once, and truthfully (but for the writes that swallow
  an error of their element rows); connections go back clean
  and are not used up; nothing waits for ever.
* **Supervision.** Stop does not wait for the process it signals, so engines
  overlap on one port; exits, respawn timers, late answers of earlier polls,
  delayed starts and the user's clicks come in any order. Correct: one engine
  that has not been told to stop, and it is the tracked one; the shown status is
  true; a crash is respawned or shown; respawning ends; the microphone follows
  the meeting.
* **Meetings.** A loop and concurrent handlers cut by awaits share a table, a
  lock, a flag and an event bus, and the engine may die between any two
  statements. Correct: one open meeting, and someone who will end it; the lock
  names an open row; a stop is final; the flag comes down.
* **Audio devices.** The monitor's pass is cut by openings that take seconds, while
  requests, the watcher of protected content and the hardware change the maps it
  decides from, and no lock covers two of them. Correct: a pause
  that has taken hold lasts; an input is recorded again after whatever
  happened to it; a substitute goes when the device it stands for is back.
* **Reconciliation.** Merging, storing and deleting touch files, three tables and a
  journal of pending files, and the process may die, or any of them fail, in
  between; live transcription, a retry, a second caller and the user touch the same
  chunks. Correct: registered speech is in a text or in audio that is kept; it is
  told once; what is told can be played; no chunk that holds samples stays pending for
  ever.
* **Event capture.** A row and the frame it belongs to are produced by different
  tasks and reported through a channel that drops when it is full; each monitor's
  loop sees every trigger, some only as "lagged". Correct: an event is linked to a
  frame of a monitor that its trigger applies to, in whatever order row and frame come; what a loop
  remembers of its last frame is true.

The list of hazards, each at its line and with the property that watches it, is
in `PROJECT.json`.

## Modules

    AckedStore          what submit() promises          (abstract)
      ^ implemented by
    WriteQueue          queue, ImmediateTx, pool, sleep gate
      MC_WriteQueue           instances
      WriteQueue_proofs       theorems
      WriteQueue_refinement   the proof that it implements AckedStore
    EngineController    supervisor, microphone gate, engine processes
      MC_EngineController, EngineController_proofs
    MeetingLifecycle    detection loop, handlers, table, bus
      MC_MeetingLifecycle, MeetingLifecycle_proofs
    AudioDevices        device monitor, openings, pauses, outputs
      AudioDevices_proofs
    SpeechLedger        what is owed to those who spoke (abstract)
      ^ implemented by
    Reconciliation      chunks, sweep, merge, retry, retranscribe
      Reconciliation_proofs   theorems, with the proof that it implements SpeechLedger
    EventCapture        UI recorder, capture loops, frame linker
      EventCapture_proofs
    LeastElement        the least-number principle, for the last four

Each component module has one action per handler or per stretch of code between
two awaits. An operator whose comment begins with `Mutation:` is not part of a
specification: it is a plausible bug, kept to show that a property can fail.

### WriteQueue

| TLA+ | Code |
|---|---|
| `queue`, `closed`, `client` | the mpsc channel, its dropped senders, the oneshot answers |
| `batch`, `next`, `result` | `batch`, loop position and `results` of `execute_batch` |
| `pc`, `attempt`, `held` | where the drain loop and each transaction stand, `attempt`, their connection |
| `permits`, `pool` | `write_semaphore`, idle connections of `write_pool` |
| `inTx`, `dirty`, `disk`, `poisoned` | SQLite: connections in a transaction, its rows, durable rows, connections that met a fatal error |
| `paused`, `notify`, `settling`, `notifying` | `WRITE_PAUSED`, `RESUME_NOTIFY`, the wake tasks in their 5 s delay and between store and notify |
| `Submit` ... `Exit` | `submit`, `recv_many` |
| `Gate`, `Park`, `ParkTimeout` | the sleep gate, which tests the flag once and then waits on the Notify or 120 s |
| `TakePermit` ... `BeginBroken` | the acquire-and-BEGIN loop, the same in `execute_batch` and `begin_immediate_with_retry` |
| `ExecOk` ... `Respond` | the loop over the batch, ROLLBACK or COMMIT, the answers |
| `TxCommit`, `TxDrop`, `TxRollback`, `TxCancel` | `ImmediateTx::commit`, its drop, the ROLLBACK the drop spawns, a future dropped before an ImmediateTx exists |

SQLite is an environment: each statement has the outcomes the code distinguishes.
`Faults` switches on `"row"` (constraint errors), `"io"` (the connection-fatal
errors of `sqlite_error.rs`) and `"full"` (errors the code takes for row errors
although SQLite has rolled the transaction back). A `WriteOp` is one write with
one row, or, in `Compound`, two statements. `Lenient` holds the writes that swallow an
error of their element rows and answer Ok nevertheless: `InsertDeferredElements`
(`db/write_queue.rs:959-979`) and `InsertFramesBatch` (1332-1340). `db/db.rs:2516-2517`
says so ("Errors are logged and swallowed so that the primary OCR insert path is never
blocked"), and the caller at 3021-3034 ignores the answer. Even a connection-fatal error
is swallowed there, and the batch commits on that connection (`ExecSwallowed`). What
`OkDurable` and the refinement promise is promised of the other writes, in a batch with
lenient ones; `OkComplete`, which promises it of all, is refuted below.

The pool replaces a detached connection: sqlx's `PoolConnection::detach` gives the slot
and its permit back, "allowing it to open a replacement"; the call that keeps the slot
taken is `leak`. The comments at `db/db.rs:161-164`, 168-169 and 653-658, that a detach
"permanently removes the slot from the pool", describe `leak` and not the call made. `Finished` lets the system stop when everything is
done, so deadlock is checked.

`AckedStore` says what a caller may rely on: an item is kept whole or not at all,
is answered once, and the answer tells which. `ImplementsAckedStore` maps `kept`
to the writes all of whose rows are on disk; its items are the writes that propagate
their errors.

### EngineController

Every callback of the app runs whole on the main queue, so it is one action; the
HTTP requests, the timers, the engine processes and the user interleave.

| TLA+ | Code |
|---|---|
| `status`, `pid`, `restartAttempts`, `restartWork`, `intentionalStop`, `procSource`, `healthTimer`, `micGateInMeeting` | the properties of `EngineController` |
| `lateStarts`, `wiping` | starts scheduled by `restart()` and after a deletion, deletions running |
| `resumeWork`, `timedPause`, `sink` | the window's resume timer, whether the pause is a timed one, queued deliveries of `$status` |
| `poll`, `post` | the chain health, meeting status, gate of each poll; the gate's POST (`micGateBusy` while there is one) |
| `proc`, `termed` | engine processes: none, booting, serving; those sent SIGTERM |
| `running`, `monitor`, `autoStart` | `AudioManager` status, its device monitor, the start ten seconds after boot |
| `Start`, `Stop` and the user's actions | `start()`, `stop()`, shortcut, window, settings |
| `ExitHandler`, `RestartFires` | the exit source's handler and the respawn |
| `PollHealth` ... `GateReply` | `pollHealth`, `syncMicGate` and their completions |
| `Boot`, `Crash`, `Terminate`, `AutoStart` ... `FinishPost` | the engine: port check, exit, `AudioManager::start/stop` |

An engine that finds its port taken exits. A request is answered by whichever
engine holds the port. `RefusePost` and `TimeOutPost` are a failed request and
the client's 2 s limit, after which the server drops the handler where it stands.

### MeetingLifecycle

| TLA+ | Code |
|---|---|
| `rows`, `ends` | the meetings table; the ids that ended in the merge window of 120 s, oldest first |
| `manual`, `flag` | the `RwLock<Option<i64>>`, the v2 override flag |
| `stopQ`, `autoQ` | the subscriptions `detector_stop_tracking`, `meeting_auto_end_requested` |
| `det`, `tick`, `lastStop` | `MeetingState`, where the loop stands, `last_explicit_stop_id` |
| `req` | the requests in flight, each at an await |
| `DrainStop` ... `SyncFlag` | one pass of the loop |
| `InCall`, `NoCall` | `advance_state` and `handle_no_apps_running`; what the scanner sees and which grace periods have elapsed is nondeterministic |
| `Resolve`, `ClearStale`, `MostRecent` | `resolve_meeting_status_from` |
| `StartInsert` ... `StopSignal` | the start, resume and stop handlers |
| `Restart`, `Shutdown`, `CloseOrphans`, `Reattach` | death and new start of the engine |

`userStopped` is a history variable: rows whose last stop a user asked for.
Every database statement may fail once the budget `faults` allows it.

### AudioDevices

An opening of a device has an id, which stands for its `AudioStream`, its
`is_running` flag and the task that records it; the maps hold ids.

| TLA+ | Code |
|---|---|
| `stream`, `flag`, `handle` | `DeviceManager::streams` and `states`, `recording_handles` |
| `on`, `dead`, `rec` | openings whose flag is set, whose stream has disconnected, whose recorder runs |
| `enabled`, `disabled`, `status`, `follow` | `enabled_devices`, `user_disabled_devices`, the manager's status, `use_system_default_audio` |
| `call` | where each caller of `start_device` stands: before its check, or in the opening |
| `mon` | the monitor: place in its pass, what it has read (`todo`, `snap`, `avail`), what it remembers between passes (`last`, `disc`, `missing`, `sub`) |
| `StartCheck`, `StartOpened`, `StartFails` | `start_device` before, after and instead of the opened stream; every request may come in between |
| `MonitorTop` ... `Sweep` | one pass of `start_device_monitor`: status, system default, inputs, outputs, stale handles, reconnection, single devices, substitute of a missing pinned input |
| `Pause`, `Resume`, `StopAll`, `StartAll` | the requests of `manager.rs` |
| `DrmStop` ... `DrmRestart` | `stop_output_devices` and `start_output_devices`, called by `monitor_watcher.rs` |
| `Unplug`, `Plug`, `SwitchDefault`, `StreamDies`, `Wake`, `ProtectedContent` | the hardware and the system |

### Reconciliation

Chunk *i* is the *i*-th segment recorded. A recording is abstracted to the segments
whose audio it contains and those it contains more than once (`segs`, `again`), a text
to the segments it tells and tells twice, so that losses and repetitions can be seen;
their order inside one recording is that of the chunks and no property needs it. "The
speech of a chunk" is never looked into. A batch is a set of chunks: `NextBatch` takes
from those that are left the ones the grouping loop of the code would put into its next
batch.

| TLA+ | Code |
|---|---|
| `file`, `row`, `attempts`, `text`, `pend` | the audio files, `audio_chunks`, `audio_transcriptions`, `pending-transcriptions/chunk-<id>.json` |
| `captured`, `ripe`, `stale` | segments recorded, over ten minutes old, over two hours old |
| `inflight` | speech on its way through live transcription |
| `sweep`, `running` | where each of the two callers stands, `RECONCILIATION_RUNNING` |
| `RetryPending`, `QueryCandidates`, `ReadBatch` | the beginning of a sweep: retries, candidates, the next batch |
| `TranscribeFails`, `BatchSilent`, `Transcribed`, `Merge`, `SavePending`, `StoreText`, `RemovePending`, `DeleteSecondaries` | one batch, between its awaits |
| `DropCheck`, `DropDelete`, `RetranscribeRead`, `RetranscribeStore` | the two requests, each cut at its await; `dropping` is the drop between its check and its deletion |
| `Crash` | the process dies and starts anew (an orderly shutdown aborts the same tasks) |

`SpeechLedger` says what the archive owes: a piece of speech is unheard, waits, and is then
told for good. `ImplementsSpeechLedger` maps a registered
piece to "told" when a text speaks of it and to "waiting" when a chunk that is to be
transcribed, or was kept after its last attempt, holds it; anything else is "lost", which
the ledger does not know. Texts, files, batches and the journal do not occur in it.

A batch whose file decodes to no samples (`Empty`) is skipped without an attempt
(`reconciliation.rs:297`), as is one whose session cannot be created (310-319); a failed
attempt may itself fail to be recorded (343-358).

`owed` is a history variable: speech that was registered and not dropped by the user.

### EventCapture

A correlation id is the number of the event; its row is named by it too. `on` of an
event is the set of monitors whose loops take its trigger for theirs
(`trigger_applies_to_monitor`): for a click or a focus change any set, since each loop
decides by bounds it read when it started, and an event without a point, or with a point
in none of the bounds, applies to all; every monitor for the rest.

| TLA+ | Code |
|---|---|
| `batch`, `scroll` | `EventBatch`, `ScrollBurstTracker` |
| `ring`, `lagged` | each loop's receiver of the trigger broadcast, and whether it has overrun |
| `loop` | the memory of a loop: `last_content_hash`, `last_frame_id`, the anchor of shared elements, the triggers drained |
| `chan`, `waitingRows`, `waitingFrames` | the linker's channel, `pending_events`, a map by correlation id of which the ids are kept, and `pending_frames` |
| `Input`, `BurstEnds`, `Flush` | the UI recorder |
| `Drain`, `Internal`, `Capture`, `Skip`, `Blocked`, `CaptureFails`, `Discard` | `event_driven_capture_loop`: what triggers there are, and how a capture may end |
| `Deliver`, `UpdateFails`, `Expire` | the actor, `FrameLinker`, `tick` |

`claimed` and `lost` are history variables: ids the linker was sent a frame for, and
ids that a full channel, a limit or a failure has cost their link.

## Runs

Each run answers one question. The states are distinct states found.

| Run | Question | States |
|---|---|---|
| `WQ_faults` | Does the queue keep its promises when any statement of a batch or transaction may fail, one write swallows its failures, and a future may be dropped? | 220 660 |
| `WQ_sleep` | Is every caller answered, and the permit returned, through a sleep and any failure, implicit rollbacks included? | 239 394 |
| `EC_lifecycle` | Is there one live engine, and the shown status true, through two clicks, a quit, a kill, a lost grant and a slow answer? | 699 395 |
| `EC_recovery` | Is a crash noticed, does respawning end, and does the microphone settle with the meeting although engines crash, start their audio themselves and a start may fail? | 160 947 |
| `MT_restart` | Through three requests, two detections and a restart anywhere, is an open meeting always somebody's, and does a stop reach the loop? | 2 079 412 |
| `MT_faults` | Do table, flag and bus recover from a failed statement, resumes and deletions? | 408 967 |
| `RC_merge` | Is speech told once and playable, when two callers sweep, a drop and a retranscription interfere and the engine, the disk, the renames or a read fail? | 700 514 |
| `RC_recovery` | Is speech kept, and every chunk settled, through a crash or failure at any step of a sweep, a retry or a late live insert? | 170 092 |
| `AD_pause` | Does a silent paused device stay silent, and the output return, with pauses, stops and protected content at any point of an opening? | 411 821 |
| `AD_inputs` | Does an input recover from whatever the hardware does, and does a substitute leave that was not unplugged itself? | 513 268 |
| `EV_links` | Are events linked, and to frames of a monitor they apply to, in every order of rows, frames and drops, with overruns, pauses and failures? | 2 010 373 |
| `EV_elements` | Does a frame refer to the elements of its own content? *No.* | |

### Bounds and why they are enough

* **Write queue.** Three writes and batches of two put a write in the batch, one
  behind it in the channel (which, of capacity two, can be full) and one compound
  write in either place. One transaction and the drain loop are two contenders
  for the permit; `AskTx`, drop and ROLLBACK of a second transaction would be the
  same steps. Two connections distinguish "the other connection is stuck" from
  "mine is"; two attempts distinguish a retry from the last attempt. One cancelled
  future leaves one stuck connection, which is what the retry is for. The
  theorems hold for all of these constants. In `WQ_sleep` a single sleep suffices
  for the liveness properties, as the 120 s timer opens the gate whatever the
  flag says; a second one is what breaks `PauseHolds`, which is therefore not listed
  (below). Of the three writes one is lenient, beside a compound and a plain one.
* **Supervisor.** Three engine slots hold an engine shutting down, one left by a
  killed app and the tracked one. A poll ends before the second next one begins
  (3 s apart, two requests of 2 s), and the effect of a second chain in flight is
  that of the same chain later, so there is one. Respawn budgets of one and two,
  for the code's five, reach the same branch. The run about the
  process has the audio off, the run about the microphone no clicks;
  the theorems have both.
* **Meetings.** Two detections are what reopening and re-detection need, three
  requests a start, its stop and another start. One request is in flight at a
  time, as the Mac app sends them. `SlowCalls = FALSE` lets a request span the
  beginning of one pass of the loop but not of two: passes are seconds apart.
  `EarlyCalls = FALSE` says that none arrives before the loop has reattached after
  a start. Both are constants, because what happens without them is worth knowing
  (below). The theorems allow any number of clients and requests in flight, slow or not,
  except `OpenIsOwned`, which has one at a time.
* **Audio devices.** `AD_pause` has one input, one output and follows the system: what an
  output and an input share is the code of `start_device`, and the interference it is
  about (a request between the check and the end of an opening) needs one device. One
  event of the hardware and two requests are a pause or a stop and its counterpart, and
  three ids per device two openings that overlap and an older one.
  `AD_inputs` has the two inputs that a pinned device and its substitute need: three
  events (gone, switched, back) when the system's default is followed, four (both
  gone, both back) when it is not.
* **Reconciliation.** Three segments and batches of two give a full batch, the chunk
  that does not fit and, with `MaxGap` 1, a gap that divides. One segment is
  silent. `RC_merge` sweeps two chunks at a time, so that a sweep ends before its
  work does, with both requests and no crash; `RC_recovery` has four segments, of which
  a sweep sees three, lets live transcription be slower than the ten minutes, and has no
  requests. One attempt, for the code's five, reaches the branch "last attempt"; one
  failure in a behaviour, a failing statement included, is what the code is written for,
  and two break it if one is a statement's (below); without those the theorems allow
  any number.
* **Event capture.** Two monitors are a loop and "another loop". A click applies to
  either, both or none and is triggered at once, a scroll to both, at the end of its
  burst. Of the kinds left out a key differs from a scroll in having no burst, and a focus
  change from a click in forgetting the last content; the theorems have them. Ring, channel and waiting lists of one are overrun by the
  second event. Two events and one frame show every order of a row and its frame, and
  a duplicate after it. With more frames, ignored and throttled windows, the safety
  properties are theorems.

### Fairness

* `WriteQueue`: weak fairness of the drain loop, of each actor's BEGIN loop and of
  the end of each transaction. These are tokio tasks of a running runtime, their
  waits have timeouts (30 s, 10 s, 5 s, SQLite's busy timeout), and an ImmediateTx
  is a value that is committed or dropped. Nothing is assumed of callers, of
  sleep and wake, or of the wake task: callers are answered by the 120 s timer
  alone.
* `EngineController`: weak fairness of what the main queue runs (timers that are
  set, completions), of the answer to every request (URLSession completes within
  its timeout), of SIGTERM, boot and loading. None of clicks, crashes, launches or
  meetings.
* `MeetingLifecycle`: weak fairness of the loop and of each handler, and strong
  fairness of `GoScan`: the screen does not stay locked for ever, so a loop that
  comes again and again to its check without a manual meeting scans again.
* `AudioDevices`: weak fairness of the monitor's and the watcher's loops, which sleep
  and go on, of the end of an opening, and of recorders that poll their flag. A
  stream whose device is gone times out. None of hardware, users or recorders that
  fail by themselves.
* `Reconciliation`: weak fairness of the clock (ten minutes pass), of live
  transcription, of the loop that sweeps every 120 s and of every step of a sweep.
  The call at the end of a session and all requests may never come.
* `EventCapture` has none: `RowsLinked` says what has been linked by the time the
  channel is empty, which needs no fairness.

### What the properties leave out on purpose

`OkDurable` and `ImplementsAckedStore` speak of the writes that propagate their errors.
`ImplementsAckedStore` speaks of writes with one statement when a row error occurs: a
compound write that fails on its second keeps the first, as the code has no SAVEPOINT.
It is checked without `"full"` (see `WQ_autocommit`). `CleanPool` speaks of
executions in which no future was dropped during BEGIN. `OneEngine` speaks of an
app that has not been killed. `MicOpens` assumes that no request outlasts two
seconds. `OpenOwned`, `LockMeansOpen` and `StopReachesDetector` are checked without
database failures, deletions and a second client, `FlagSettles` with failures and
deletions. `OpenOwned` is checked without auto-ends (`MT_late_stop.cfg`).
`StopReachesDetector` speaks of a loop that still tracks the application of the row.
`PausedStaysSilent` speaks of a device on which the pause has taken hold: it neither
records nor is being opened (`AD_pause_undone.cfg`). `SubstituteLeaves` is checked without
stop and start, and of behaviours in which the monitor never counts the substitute itself
among the disconnected devices (`AD_substitute_stays.cfg`). `NoLoss` is checked with one
failure or crash and without requests (`RC_lost.cfg`, `RC_drop.cfg`), `Settles` of files
that hold samples (`RC_stuck.cfg`), `TextOnce` without crashes and failing statements.
`OwnScreen` asks no more of an event that applies to every monitor than that it is linked
to some frame. Where the code does less than one would like, a counterexample below
says so.

`TextPlayable` says nothing of a chunk whose file is gone, and `ImplementsSpeechLedger` is
checked without retranscription, which replaces a text on purpose, and without drops. `RowsLinked` excuses
the ids in `lost`, which only a full channel, a full list, the TTL, a failed statement
or a superseded burst add to.

## Counterexamples

`EV_elements` refutes a statement of the repository and is the finding of
`PROJECT.json`. `engine/event_driven_capture.rs:648-649`: "When consecutive frames have
the same content_hash, we skip inserting elements and reference the previous frame's
elements instead", and 1265: "If the current content_hash matches the previous frame's
hash". The reference is computed at 1268 before the capture, from the hash of the
capture *before*. The first capture of a loop sets both that hash and the anchor
(710-716), so that the next one, of other content, is stored with a reference to the
first one's elements, and `db/db.rs:2971-2980` then does not insert its own. The same
happens whenever the capture before showed the anchor's content. The frame is found by
the text of a screen it does not show. Two captures are enough; no content is repeated.

Other statements, each with a configuration that refutes it. They are kept out of the
runs to keep those few, and show what the assumptions of the properties are for:

| Configuration | Refuted | Where it is said, what happens |
|---|---|---|
| `WQ_autocommit.cfg` | `NothingEarly` | After an implicit rollback taken for a row error the rest of the batch is written in autocommit; its callers are told Err and the audio pipeline stores the chunk again. |
| `WQ_lenient.cfg` | `OkComplete` | A write of element rows fails, the error is logged (`db/db.rs:2516-2517`), and the caller is told Ok with rows missing. |
| `WQ_lost_resume.cfg` | `ResumeReaches` | A resume between the loop's read of the flag and its first creation of the Notify is lost; the queue waits for the 120 s timer. |
| `WQ_poisoned.cfg` | `PoisonedDropped` | `db/write_queue.rs:1512-1516`: the batch loop "drops the connection instead of reusing it". It does so only if ROLLBACK fails too. |
| `WQ_stale_resume.cfg` | `PauseHolds` | `engine/sleep_monitor.rs:478-480`: the drain loop will "block until resumed on wake". The gate waits on a Notify that can hold the permit of an earlier resume, and does not read the flag again: the first batch of the second sleep goes through while the machine sleeps. |
| `EC_lost_timer.cfg` | `TimedPauseEnds` | `mac/ArchiveWindow.swift:96-98`: "The timer is what turns 'pause for fifteen minutes' into a stop now and a start later." A status delivery queued before the click cancels the timer after it; capture stays off. |
| `EC_wipe.cfg` | `WipeAlone` | `mac/Settings.swift:336`: "Pause the engine, run the destructive op, resume — avoids DB write races." The engine has only been signalled when the deletion starts. |
| `EC_pause_overridden.cfg` | `PauseLasts` | The start of `restart()`, 0.4 s later, undoes a pause. |
| `EC_deaf.cfg` | `MicOpensAnyway` | A POST dropped in the middle of the model load leaves the manager marked running with no device monitor; the microphone never opens. |
| `EC_gate_lie.cfg` | `GateTellsTruth` | The engine answers success with an empty body, which the gate takes for a failure, and a failure with JSON, which it takes for success. |
| `EC_uninvited.cfg` | `MicOnlyInMeetings` | The engine opens the microphone ten seconds after boot; the gate closes it at its next post. |
| `MT_app_drift.cfg` | `StopReachesAnyApp` | Two call applications: the tracked app has changed, the stop signal names the old one and is dropped. |
| `MT_deleted_lock.cfg` | `LockMeansOpen` | A deleted manual meeting keeps the lock. |
| `MT_flag.cfg` | `ManualFlagOn` | The end of a pass lowers the flag that a start has just raised; with the lock held, no later pass corrects it. |
| `MT_late_stop.cfg` | `OpenOwned` | A stop that spans a pass ends the row of a meeting which an auto-end has just ended and a detection is about to reopen; its signal takes the loop off the reopened row, which nobody ends. |
| `MT_user_stop.cfg` | `UserStopHolds` | `db/db.rs:10076-10078` calls the explicit-stop filter "the durable guarantee that survives restarts". The loop's own end of the same meeting, decided before the stop and stored after it, erases the reason, and the next detection reopens the meeting the user stopped. |
| `MT_placeholder.cfg` | `PlaceholderFilled` | A failed insert leaves the placeholder id in an active meeting. |
| `AD_two_streams.cfg` | `InReach` | A pause and resume while the device is being opened open it twice; the second opening to end replaces the flag of the first, whose recorder nobody can stop. |
| `AD_pause_undone.cfg` | `Quiet` | `audio/audio_manager/manager.rs:531`: a pause during an opening finds nothing to stop, and the opening then starts to record the paused device. |
| `AD_protected.cfg` | `OutputsYield` | `engine/vision_manager/monitor_watcher.rs:81-85`: only outputs that run when protected content appears are stopped and remembered (`manager.rs:1124`); one that the monitor is about to start is recorded while the content is shown. |
| `AD_substitute_stays.cfg` | `SubstituteNeverStays` | `device_monitor.rs:181-193`. The pinned input is unplugged and its substitute recorded; the substitute is unplugged too and enters the disconnected devices; the pinned one returns, and the sweep stops the substitute but leaves it in that set (1366-1376); it returns, the reconnection (1078-1115) starts it, and it is recorded for ever. |
| `AD_no_substitute.cfg` | `SubstituteComes` | `audio/audio_manager/device_monitor.rs:124-131`, 355-358: a missing pinned input is to get a substitute. The pass that finds it unplugged takes it out of `enabled_devices` (1144), where the search for missing inputs expects it. |
| `RC_drop.cfg` | `NoLoss` | `engine/routes/retranscribe.rs:217-241`: between the check and the deletion of a drop a sweep merges the next chunk into the dropped one and deletes its row; the deletion takes the speech of both. |
| `RC_stuck.cfg` | `Settles` | A file that decodes to no samples: `continue` at `reconciliation.rs:297` counts no attempt, and every sweep picks the chunk again. |
| `RC_lost.cfg` | `NoLoss` | A crash between `StoreText` and `RemovePending` leaves a pending file that names the second chunk, which keeps its row. A retry of it that fails once, then a sweep that merges a third chunk into the second, then the retry again: it deletes the second chunk with the audio of the third (`reconciliation.rs:494`, 764). |
| `RC_duplicate.cfg` | `TextOnce` | A crash between `Merge` and `SavePending`: the first file holds both segments and the second chunk is still pending. The next sweep joins them again, and speech is told twice. |
| `EV_same_screen.cfg` | `SameScreen` | `engine/event_driven_capture.rs:1488`: "the events belong to the previous frame visually (screen is the same)". A trigger within the debounce interval is linked to the last frame without a look at the screen. |

Read on the way and not modelled as properties: a merged file that cannot be written
counts no attempt, so the same batch is transcribed again at every sweep
(`reconciliation.rs:474-485`); `audio_chunk_exists(..).unwrap_or(false)` takes a failed
query for a deleted chunk and drops its pending text (833-836), the chunk is
transcribed anew; a retry has no paths of the secondary files, which stay on disk
(847-850); `stop_device_recording` does not release the stream (`manager.rs:499-522`),
the next opening does; a start of the new default input that fails once
(`device_monitor.rs:599-643`) is not tried again while another input runs; resuming a
device starts it whether the manager runs or not; the
set that "is cleared on global start/stop"
(`manager.rs:135`) is not; a failed flush drops its batch of events without a retry
(`ui_recorder.rs:844-857`).

## Proofs

Each theorem is `Spec => []P`, or `Spec => P` for an action property or a refinement,
for every value of the constants that satisfies the assumptions of the module (limits
and capacities are positive numbers, names that mean "nothing" are not among the things
named) and the hypothesis given. No bound of a run is one.

| Module | Theorem | Property | Hypothesis |
|---|---|---|---|
| `WriteQueue_proofs` | `Invariance` | `IInv` | |
| | `TypeCorrect` | `TypeOK` | |
| | `SingleWriter` | `OneWriter` | |
| | `Durability` | `OkDurable` | |
| | `PoolAvailable` | `PoolNotStarved` | |
| | `PoolClean` | `CleanPool` | |
| `WriteQueue_refinement` | `NothingLost` | `ChannelInv` | |
| | `AnswerInvariant` | `AInv` | no `"full"` |
| | `CommitFirst` | `NothingEarly` | no `"full"` |
| | `Refinement` | `ImplementsAckedStore` | no `"full"` |
| `EngineController_proofs` | `Invariant` | `IInv` | |
| | `Tracked` | `OneEngine` | |
| | `Shown` | `StatusHonest` | |
| | `Withdrawn` | `RespawnOnlyAfterCrash` | |
| | `Budget` | `TypeOK` | |
| `MeetingLifecycle_proofs` | `TypeInvariant` | `Types` | |
| | `TypeCorrect` | `TypeOK` | |
| | `OneAtATime` | `OneOpen` | |
| | `LockIsOpen` | `Intact => LockMeansOpen` | no early calls, no deletes |
| | `StopIsHeard` | `Intact => StopReachesDetector` | one call application |
| | `OpenIsOwned` | `Intact => OpenOwned` | one request at a time, none a resume; `Timely` |
| `AudioDevices_proofs` | `TypeInvariant` | `Types` | |
| | `TypeCorrect` | `TypeOK` | |
| | `StaysSilent` | `PausedStaysSilent` | |
| `Reconciliation_proofs` | `Invariant` | `Inv1` | |
| | `TypeCorrect` | `TypeOK` | |
| | `Pickable` | `NoZombie` | |
| | `Playable` | `TextPlayable` | |
| | `OwedKept` | `Inv2` | `Steady` |
| | `NothingOwedLost` | `NoLoss` | `Steady` |
| | `ToldForGood` | `[][StaysTold]_vars` | `Steady` |
| | `Refinement` | `ImplementsSpeechLedger` | `Steady` |
| | `ClaimsApart` | `Inv3` | `Prompt` |
| | `ToldOnce` | `TextOnce` | `Prompt` |
| `EventCapture_proofs` | `Invariant` | `IInv` | |
| | `TablesGrow` | `Grows` | |
| | `Paired` | `NeverBoth` | |
| | `LinkedToOwnScreen` | `OwnScreen` | |
| | `TrueMemory` | `Remembered` | |
| | `AllLinked` | `RowsLinked` | |
| | `TypeCorrect` | `TypeOK` | |
| `LeastElement` | `Least` | least-number principle | |

### Hypotheses

The hypotheses leave out what a counterexample, or the code itself, gives up:

* No `"full"`: SQLite does not roll back by itself on an error the code takes for a row
  error. Otherwise `WQ_autocommit.cfg`. The theorems of `WriteQueue_proofs` and
  `NothingLost` do without.
* `Intact`: no statement has failed so far. It is part of what is proved, and the number
  of failures allowed is not bounded. One failure in a stop handler is enough to keep the
  lock, or the loop, on the ended meeting.
* No early calls, no deletes: each of them leaves a lock behind. A request that locks a
  row before the loop has closed what the last run left open has it closed under the
  lock; a delete does not touch the lock (`MT_deleted_lock.cfg`).
* One call application (`\A a, b \in Apps : a = b`): otherwise the signal names the app
  the meeting was stored with while the loop follows another, and is dropped (as in
  `MT_app_drift.cfg`); when the loop comes back to the first it still tracks the meeting.
* One request at a time, none a resume, and `Timely`: the loop takes a stop signal from the
  queue while the meeting it names is still ended. Each of the three is needed, as traces
  of TLC show. A stop drained late takes the loop off a meeting that was reopened since
  (`MT_late_stop.cfg`). That cannot happen in `MT_restart`, where TLC finds `Timely` to hold;
  as the loop drains one signal a pass, enough stops and starts between two passes get
  there too. With two clients a slow start locks the row it has inserted over
  the lock of a faster one. With a resume, a stop can clear the lock of a row that was
  stopped, resumed and locked again while it stood between its look at the lock and the
  clearing, since it compares ids only. Deletes, early calls and automatic ends are
  allowed.
* `Steady == Faults \subseteq {"crash", "stt", "disk"} /\ Users = {}`: any
  number of crashes, failures of the engine and of writes to disk, and live transcription
  as slow as it likes, but no requests. A drop may take another chunk's speech along
  (`RC_drop.cfg`), and a retranscription replaces a text by what the engine says now. A
  failing statement lets a retry delete what a later batch has merged into its chunk
  (`RC_lost.cfg`); an unreadable file and a rename that fails twice are given up by the
  code.
* `Prompt == SlowLive = FALSE /\ Faults \subseteq {"stt", "disk", "rename", "read"}`: live
  transcription takes less than the ten minutes that a sweep waits, statements do not
  fail and the process does not die between merge and journal (`RC_duplicate.cfg`).
  Retranscription and drops are allowed.

### Arguments

**Write queue.** `IInv == TypeOK /\ PermitInv /\ PoolInv /\ BatchInv /\ ResultInv /\
RowsInv /\ TxInv /\ OkDurable`. None of the properties is inductive alone:

* `OneWriter` needs to know which places an actor can be in at all (`PermitInv`), or
  a drain loop at `"rollback"` could give back a second permit.
* `PoolNotStarved` needs that a connection outside the pool is held by an actor in a
  holding state (`PoolInv`); with one permit there is no such other actor.
* `OkDurable` is made true by `Respond`, which answers `result`; that those rows are
  durable is `RowsInv`: rows of a result "ok" are in the open transaction or, if it is
  gone, already on disk. To preserve it, `next` must point into the batch (`BatchInv`)
  and every result before it be an answer (`ResultInv`). The delicate case is
  the implicit rollback: `RowsInv` then promises nothing until COMMIT, which fails.
* `CleanPool` needs that a transaction belongs to the actor that runs it (`TxInv`),
  from which `PoolInv` takes its connection out of the pool.

**Refinement.** COMMIT is the abstract "keep", the answers are the abstract "tell". That
an answer finds its write in the state it reports needs `AInv`: a waiting write is in
the channel or in the batch, once (`ChannelInv`); only what has been executed is
uncommitted, in an open transaction (`OpenInv`); nothing of an unanswered write is
durable before COMMIT (`FreshInv`); a strict write with result "err" is not kept whole
(`ErrInv`, where a compound write that fails on its second statement is the case to
look at). Each action is then a step of `AckedStore` or leaves `Kept` and `Told` alone.

**Supervisor.** `IInv` adds to the three properties that the tracked process and the
watched one are the same, and absent after an intentional stop (`TrackInv`), and an
accounting of starts (`BudgetInv`): attempts, the current engine and the starts already
scheduled never exceed the respawn budget plus the clicks made, which is what bounds
`restartAttempts`.

**Meetings.** `Types` holds for any clients, requests and failures. Beside `TypeOK` it
says that at most one row is open (`OneOpen`, which makes `LastOpen` the open row), that
a start whose row is being stored belongs to a detected call, and that only a stop ends a
meeting. The two safety properties speak of moments of rest; what makes them true there
is a debt that somebody still has to pay:

* `LockOwed`: a lock on a row that is not open is about to be looked at, by the loop
  (`LoopLooks`) or by a handler that has yet to resolve the status (`HandlerLooks`), or
  is the very lock one of them is about to clear. Whoever ends a row also looks, and
  whoever looks clears what it saw; if the lock has changed between, the new one is
  somebody else's debt. A loop that has not reattached holds no lock (`BootLock`).
* `StopOwed`: if the loop follows a stopped meeting under its stored name, a stop handler
  still carries the word, or the signal is in the queue, or the loop is off. The loop
  never turns to such a meeting anew: what it reattaches to, reopens or inserts is open
  and has no reason to have ended. Nor does it come to the stored name by a change of
  app, as a meeting of a call application is followed in one (`AppHeld`). A signal sent
  to a loop that is not subscribed is lost, but then the loop follows nothing
  (`BootIdle`).

These two hold for any number of clients and requests in flight, slow ones included, where
the runs have one client.

`OpenIsOwned` is about the other direction, from the open row to its owner, and its
invariant `OwnHeld` says in whose hands the row is at every step, not only at rest. An open
row is the manual meeting, or a handler is about to lock it, or the loop has it in hand
(`InHand`): it tracks it, is about to end it, or is off or booting and will reattach to it
(`Owned`). The delicate places are those where somebody lets go. Where the loop clears a lock
or stops following a meeting, that meeting is closed (`LoopShut`); a handler takes the lock
away only from a meeting that is closed or that the loop has in hand (`UnlockedKept`); a
drained stop signal names a closed one (`Timely`). The loop's actions are shown to
preserve the three directly (`LoopOwns`), and those of the handlers to take nothing out of the
loop's hands (`Keeps`, `OwnersKept`).

**Audio devices.** `PausedStaysSilent` rests on the types alone, and on who does what: only
the end of an opening adds a recorder, and then of the device it opens (`RecordsOne`);
only `StartCheck` begins one, after it has seen that the device is not paused
(`OpeningSilent`); all else takes recorders away or leaves the openings alone
(`MonitorSilent`, `OthersSilent`).

**Reconciliation.** Three layers, each on top of the one before:

1. `Inv1`, under all faults and requests: only one sweeper is active (`Solo`), what it
   has in hand was read from files that are still there (`Sound`), and texts, saved
   jobs and the audio of a request tell nothing that their chunk's file does not hold
   (`AudioInv`). `TextPlayable` follows, and `NoZombie` because every statement that
   counts an attempt also decides the status.
2. `Inv2`, for losses. Owed speech is told, or waits *in its own chunk* (`WaitsAlone`): this is
   stronger than `NoLoss` and what makes the deletion of secondaries safe. A job that
   may delete chunks tells all they hold (`Covers`), and so does a pending file that
   outlives a crash (`PendInv`): it is retried before any new batch is formed, so
   nothing has been merged into its chunks in the meantime. That is what a failing
   statement breaks.
3. `Inv3`, for repetitions. The claims of two chunks (what they hold, tell and have been
   asked to tell) are disjoint, except for the first chunk of a batch and its other
   chunks from the merge to the deletion (`ApartInv`); with no crash that window
   closes. A chunk that is not ripe is as it was recorded (`FreshInv`), so the live text
   arrives before a sweep can see the chunk.

**The ledger of speech.** `Inv2` makes "lost" unreachable, since owed speech is told or waits
in its own chunk, and `StaysTold` keeps "told". What is left is that each step moves the
pieces it moves to one stage: recording makes one piece wait and leaves the texts alone
(`CaptureHears`), and every other step puts only what it tells into the books
(`OthersTell`), so it is a `Tell` of the pieces whose stage changes, or a stutter.

The minima that a batch is built from (`Min`, the oldest chunks) have no definition the
provers can compute with; `Least` and Cardinality-free bounds stand in for them.

**Event capture.** `RowsLinked` needs to say where a link that has not been made yet is:
a stored row is in the channel or waits (`RowsKept`), so is a frame reported for it
(`FramesKept`), and the linker never holds both (`NeverBoth`): when the channel is empty
both would wait, which is impossible. `OwnScreen` needs that no loop takes up a trigger
of another monitor, nor sends, nor keeps a pair of an event and a frame that may not be
linked (`MayLink` in the types of ring, channel and waiting lists). That tables only grow
(`TablesGrow`) keeps such pairs valid from one step to the next.

### Only model-checked

Liveness: `EveryWriteAnswered`, `PermitReturned`, `MicReleased`, `MicOpens`,
`RespawnEnds`, `CrashNoticed`, `FlagSettles`, `StopsEnd`, `Settles`, `OutputReturns`,
`InputRecovers` and `SubstituteLeaves` need fairness and ENABLED, which are outside the
prover's reach. Every other property of a passing run is stated by a theorem, for some
under the hypotheses above. No module has a recursive operator.

## Plan

Modules, in the order in which they matter:

1. *Done:* the write path and its safety theorems, the supervisor with the microphone
   gate, the meeting lifecycle, the audio devices, reconciliation, event capture.
2. *Done:* the safety properties of the six components, as far as they hold for every
   value of the constants, and the refinements of `AckedStore` and `SpeechLedger`, as
   theorems.
3. Meetings: update, merge, split, bulk deletion, and handlers dropped by a
   disconnect; an abstract one-open-meeting specification.
4. Reconciliation across devices: the removal of duplicates between microphone and
   speaker, and a ledger that also says that speech is told once.
5. `Retention` (eviction against concurrent inserts), `HotFrameCache`, `Redaction`,
   `Vault`: smaller, independent.

## Not modelled

* The other queries of `db.rs` and the contents of rows: they are SQL and data.
* Capture, OCR, accessibility, transcription and redaction models: inputs.
* Calendar enrichment of meetings and the note a stop appends: data that no
  property distinguishes. (A failure to append it after the row has ended is
  modelled.)
* Of the audio manager: receivers and their drain at a stop, the Windows
  communications output, migration of old settings, refresh of models, changes of
  settings. The monitor's error back-off is the choice to skip a device, its grace time
  for a missing device two passes, and the synchronisation of outputs with the system
  is the action that ensures an output.
* Of reconciliation: other devices and duplicates across them, cloud chunks, the
  look-back of seven days, speaker backfill, deletion of a time range, the mirror of
  live meetings. The outcomes of the chunks of one batch are recorded in one step.
* Of event capture: contents without a hash (windows that are read by OCR), triggers
  that no event caused, except idle captures, high-FPS sessions, the comparison of
  images, loops restarted for a reconnected monitor. The debounce and the 30 s floor
  are chance. One window has the focus, so `screen` is one for all monitors.
* Screen lock state of the sleep monitor, and its analytics. A lock pauses a capture
  loop in `EventCapture`.
* Secrets, sync, connections, team memory, pipes: switched off in this fork, mostly
  remote protocols.
* The Tauri app, `packages/`, `ee/` and vendored code: not part of the product.
* Process ids are never reused in the model: the exit source clears the pid in the
  turn of the main queue that sees the exit.
