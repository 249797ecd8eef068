# MG-VMS: a TLA+ model of the video pipeline

TLA+ modules, model-checking runs and machine-checked proofs about the backend
of MG-VMS (`src/backend/`): the code that keeps an ffmpeg process per camera and
hands its frames to an analysis task, follows the configuration in the database,
dispatches to plugins, turns plate readings into events and vehicles into
identities, records segments and indexes them, and carries commands from the API
to the pipeline. The modules are written from the source; `PROJECT.json` maps
every definition to the lines it models and lists runs, mutants, findings,
hazards and theorems.

## The system

The backend is one Python process (or two, `MGVMS_ROLE=api|pipeline`, joined by
Redis). Its event loop runs REST routes and some thirty background tasks over
MongoDB; decoding and analysis run in threads and in ffmpeg processes.

| Part | State | Operations | Interacts with |
|---|---|---|---|
| ffmpeg worker registry, `frame_source.py` | `_workers`, its lock, one thread and one process per worker, reconnect semaphore | `start`, `stop`, `stop_all`, `_reader_loop` | called from pool threads by the supervisor, from the event loop at shutdown |
| frame delivery, `frame_source.py`, `ai_engine.py` | latest frame and number per worker, `_frame_waiters` | publish, `_notify_new_frame`, `wait_for_new_frame`, `_camera_loop` | reader threads against coroutines |
| AI supervisor, `ai_engine.py` | dirty flags, targeted cameras, delays, runtime configuration, `_camera_tasks` | `ai_loop`, `signal_*`, reloads, `_sync_frame_source_workers`, `_reconcile_camera_tasks` | routes write to the database, then signal; calls the registry |
| ANPR tracker, `anpr_tracker.py` | one `TrackedVehicle` per vehicle in view | `record_reading`, `tick_missing` | called by the plate stage of `pipeline_v2/camera_worker.py` |
| analysis tasks, `ai_engine.py` | one task per camera, burst semaphore, downstream counters | `_camera_loop`, `_reconcile_camera_tasks`, `_process_downstream` | supervisor, frame delivery, pool threads |
| plugin bus, `plugin_manager/`, `pipeline_v2/registry.py` | entries with state and error counters, contexts, stored configurations, cached graphs | dispatch, quarantine, load, reload, lazy refresh | pipeline, admin routes |
| vehicle identities, `routes/vehicles.py`, `routes/identity_merge_ai.py` | groups of plates, merge suggestions | create, delete, merge, batch, accept, reject, auto-approve | requests and loops over the database |
| recorder, `recorder.py` | ffmpeg recorders, cursor of indexed segments, purges | index, retention, watchdog, suspension | file system, database, requests |
| command queue, `redis_bus.py`, `pipeline_commands.py` | a Redis list and reply keys | RPC with timeout and direct call | routes, pipeline |
| lifecycle, video core, WebRTC, realtime, workflow engine, PTZ, smart zones, parking sessions, authentication, drivers, frontend | see `PROJECT.json` | | |

What is hard in it: threads against coroutines without a common lock; state
read before an `await` and used after it; flags cleared after the work they
announce; restarts that overlap the threads they replace; counters and delays
that stand in for messages that may be lost. `PROJECT.json` lists each such
place under `hazards`.

What makes each part correct:

* registry: no reader thread, process or reconnect slot is ever lost; a reader
  that is told to stop ends; a changed configuration takes effect;
* delivery: no wake-up is lost, whatever loops are cancelled and replaced; a wait
  leaves its entry in `_frame_waiters` only when it is cancelled; and only the
  latest frame of the current worker is analysed;
* supervisor: every change reaches memory, workers and tasks; targeted changes
  touch only their target;
* analysis tasks: one loop per camera, no burst place or downstream count lost,
  nothing that was stopped goes on for ever;
* tracker: an entry is announced once per stay, an exit follows an entry, and a
  vehicle that is gone is forgotten;
* plugin bus: a plugin that fails too often is out until somebody lets it in, and
  the plugin that runs is the registered one with the stored configuration;
* identities: no implausible family, no plate lost by a merge, an accepted
  suggestion applied, a pair compared once;
* recorder: no finished segment is passed over or recorded twice, and each is
  indexed in the end;
* command queue: each side carries a command out once at most, a caller gets the
  answer to its own command or makes the direct call, the pipeline carries commands
  out in the order of their calls, and no stored setting is lost (with exceptions,
  see Findings).

## Modules

| Module | Role |
|---|---|
| `WorkerRegistry` | abstract: which worker each camera has, and that a changed config hangs |
| `FrameSource` | registry and reader threads, detailed; implements `WorkerRegistry` |
| `FrameFeed` | abstract: one frame on offer at a time, taken by the consumer |
| `FrameDelivery` | publication, waiters and consumer; implements `FrameFeed` |
| `AiSupervisor` | routes, flags, reloads and synchronisation, over `WorkerRegistry` |
| `AnprTracker` | the table of vehicles of one camera |
| `CameraTasks` | tasks, bursts, threads and downstream jobs of the analysis |
| `PluginBus` | one plugin: loader, bus, configuration, graph |
| `IdentityMerge` | identities and merge suggestions |
| `Recorder` | segments, index, purges of one camera |
| `CommandOutcome` | abstract: what a caller is promised of its command |
| `CommandQueue` | queue, answers, direct calls, restarts; implements `CommandOutcome` |
| `CameraLoopProofs` | theorems about `FrameDelivery` and `AnprTracker` |
| the other `...Proofs` | theorems about the module of that name |
| `MC...` | instances for TLC |

How they fit together: `AiSupervisor` decides which workers (`FrameSource`) and
which tasks (`CameraTasks`) a camera has; `FrameDelivery` joins the two;
`CameraTasks` ends in the plate stage (`AnprTracker`) and in the dispatch to
plugins (`PluginBus`); readings become identities (`IdentityMerge`). What the
supervisor takes for one step, a `start()` or `stop()`, is many in `FrameSource`:
`WorkerRegistry` says what both mean by it, the one promises it (`RegistryKept`)
and the other asks for no more (`RegistryUsed`). `Recorder`
and `CommandQueue` stand beside this chain; the reload that `AiSupervisor` models
in detail is one step of `CommandQueue`. Otherwise each module takes the effect
of its neighbours as free choices.

A definition with a comment that starts with "Mutant:" stands before
the one it distorts. It is not part of the model: it shows that a
property fails when the code has a plausible bug.

### FrameSource and WorkerRegistry

Two callers, `supervisor` and `shutdown`, step through `start()`, `stop()` and
`stop_all()`: `pc` is their place, `target`, `wanted`, `victim`, `back` and
`pendingStops` their locals and arguments, `lock` the owner of `_workers_lock`.
`start()` from `EnterStart` to `LeaveStart` holds the lock; its body is one step,
except that it may call `stop()`, which is modelled step by step (`Pop`, `Signal`,
`Terminate`, `Join`) for both of its callers. The lock is a plain
`threading.Lock`, so `Pop` waits for it even when its caller is the owner.

A reader thread moves through `phase`: the test at the top of its loop, the
semaphore (or its timeout), the spawn, then the inner loop (`gate`, `reading`),
the finally clause (`cleanup`) and the decision to retry or give up (`verdict`).
`slot`, `freeSlots`, `proc`, `produced`, `stopEvent` and `failures` are the
variables of the same purpose in the code. Left out: how long anything waits,
frame contents, metrics, stderr. A wait is a step that may come late; a blocking
read of a live process is a step that need never come.

For the registry of the abstract specification the mapping takes the configuration
of each registered worker (`Fleet`) and whether a caller waits for the lock it holds
(`Hung`): a worker has come when it is entered in `_workers` and is gone when it is
popped, not when its thread ends.

### FrameDelivery and FrameFeed

The state is that of one camera: the registered worker (`current`), which of its
workers were stopped, the reader threads (an old one may still publish after its
worker was replaced), the number and age of the latest frame of each, the
loops the camera was given one after the other, with their entries in
`_frame_waiters`, their events and the last frame each took. The
four assignments that publish a frame are one step, which the interpreter lock
justifies for what a consumer can see; the notification is another.
A coroutine runs from one `await` to the next while no other one does (`Turn`).
`Delist` cancels the loop at its `await`: in a wait, `CancelledError` passes
through `wait_for_new_frame()`, which handles only `asyncio.TimeoutError`, so the
entry stays (`CancelTask`); `wait_for()` may also swallow the cancellation
(`CancelMissed`), and then the loop goes on beside its successor until it looks
for its spec. `FrameFeed` says what the loops are promised; the mapping takes
`get_latest_frame_seq()` for what is on offer and the registered task for the
loop it is owed to.

### AiSupervisor

A database read is two steps, the question evaluated by the database
(`DbAnswers`) and the answer used (`ReceiveDoc`, `Plan`); routes run in between.
Documents are versions. `expired` stands for the three delays, compared in the
code with the time at which the cycle began, so they expire while the supervisor
sleeps. `frame_source.start()` and `stop()` appear as their effect; a `start()`
with a changed configuration never returns, as shown in `FrameSource`, and the
supervisor is then `hung`: the same `WorkerRegistry`, with `workers` for its fleet. A
database error before the first cycle ends the loop
(`dead`). `EditCamera` covers routes, which will signal, and the status loop,
which changes a camera between online and offline without a signal.

### AnprTracker

One camera. A cycle that reaches the plate stage sees a subset of the vehicles
in the scene (`Detect`), records readings (`Record`) and counts the others as
missing (`Tick`). A cycle with no vehicle in it never gets there, as in
the code. Keys are ByteTrack numbers, or plate texts for detections without a
number. `news` holds the events of the last step. `open`, `missed` and `stay` are
history variables that no action reads except to update them. `TrackerInit`,
`TrackerNext` and `TrackerSpec` are named so because `CameraLoopProofs` extends
this module beside `FrameDelivery`.

### CameraTasks

A task is created when its camera is listed (`List`) and cancelled when it is
delisted (`Delist`); `pc` says at which `await` it is. A cancellation takes effect
at once, except in a wait that has just ended: `asyncio.wait_for` of Python 3.11
then returns its result and the cancellation is gone (`escaped`), so that the loop
runs until it looks for its spec. The analysis runs in a thread that no
cancellation stops (`analysing`). `left` counts the passes of a burst, `free` is
the semaphore, `inflight` the downstream counter and `jobs` the jobs there are.
The result of an analysis is a choice: an error, no burst, or a burst advised.

### PluginBus

One plugin of one process. Each load makes a new instance and entry, numbered in
order. `on_load()` and `on_config_change()` are awaited, so loads, requests and
calls in flight interleave; the plugin declares what state it likes. `missed` and
`pardoned` are history variables: instances that read the store before its last
change, and entries that a reload or refresh made ready although they had too many
errors. The graph is what `pipeline_v2/registry.py` caches for one camera.

### IdentityMerge

Every database access is a step; requests, two batches, the automatic approval
and a bulk deletion interleave, and a restart forgets what was under way. An
identity is its set of plates, in the order of creation; a suggestion is a pair
of identities and the batch that compared it. `raced` and `overlapped` are history
variables that name the races the code has, so that the properties say that
nothing else goes wrong.

### Recorder

One camera. Segments are numbered in the order of their file names. A step is
what happens between two awaits of `_index_segments()`, `_apply_retention()` or
the loop; a request runs the same index. `index` holds the locals of each call:
where it is, its candidate, the list it made when it began. A terminated process is
forgotten at once and may complete its file later. A purge is an actor: the loop's
own, on a full disk, for which the tick waits, and those of `Purges`, the background
task and the route, which go on beside the index, the loop and a recording. A name that cannot be read, and a
duration that is too long, do not occur: ffmpeg writes the names.

### CommandQueue and CommandOutcome

Two routes stand for the commands: `PUT /ai/config`, whose effect is modelled,
and the transcoding of a recording, whose
route takes an error for no answer. `split` is the role: two containers, or one
process that runs both sides. A caller sends, waits, gives up at any time and then
makes the direct call; `command_loop()` takes one command after the other, which
may fail at any point. The API, the pipeline and Redis may restart at any time.

`update_runtime_config()` changes the memory and begins a write of all of it
(`Patch`), which is in `flight` until it comes to the database (`Land`). Several
writes may be in flight, one of the loop and one of each direct call, and land in
any order. A thread of the driver encodes the memory when it begins or only when it
sends, so what lands is the memory of either moment. A write whose call fails, or
whose process ends, has landed by then or never does (`Drop`): a document that
reaches the database later than that is left out. `ai_loop()` reads the document
15 s after its process started, long after the last write of the process before.
`runs`, `before`, `stale` and `foreign` are history variables; `stale` holds the
writes in flight that were taken before the document was loaded or that another
write has overtaken. `CommandOutcome` has only the outcome
of a call and who carried it out: the mapping forgets the queue and the answers.

## Runs

| Run | Instance | Shows |
|---|---|---|
| `frame_source` | 1 camera, 2 configs, 2 workers, 1 slot, 1 failure | types, slots, orphans, refinement of `WorkerRegistry`; stopped readers die, nobody waits for a slot for ever |
| `frame_source_restart` | the same | **violation**: a changed config is not applied |
| `frame_delivery` | 2 workers, 2 frames each, 2 loops | wake-ups, entries, refinement of `FrameFeed` with liveness |
| `ai_supervisor` | 2 cameras, 2 configs, 2 changes | targeted signals, partial sync, use of `WorkerRegistry`, convergence |
| `anpr_tracker` | 2 tracks, 1 text, 2 readings, 3 misses | types, forgetting, pairing; deadlock |
| `anpr_tracker_stay` | 1 track, 1 reading, 2 misses | **violation**: two entries in one stay |
| `plugin_bus` | 2 loads, 2 configurations, 2 calls, 2 requests, threshold 2 | quarantine in and out, graph, configuration |
| `camera_tasks` | 2 cameras, 2 tasks, 1 burst of 2 passes, 2 jobs | places, jobs, loops; stopped loops and bursts end |
| `identity_merge` | 3 plates, 2 identities, 1 request, 2 batches | families, suggestions, comparisons, plates |
| `recorder` | 2 segments, the loop, beside 1 request or 1 background purge | cursor, documents, every segment indexed in the end |
| `command_queue` | 2 calls: two PUTs, or a PUT and a clip | refinement of `CommandOutcome` with liveness, order in the pipeline, settings, the queue drains |
| `command_queue_fallback` | 1 PUT, 1 older setting, 1 clip | **violation**: the direct call loses settings |

### Bounds

* `FrameSource`: two workers are enough for a worker and its replacement to
  contend for one slot while `stop_all()` runs; `MaxFailures` 1 reaches both tests
  of the limit.
* `FrameDelivery`: two workers give a replacement whose numbers start again, with
  the old reader still publishing; two frames can be skipped, repeated and
  coincide in number; two loops give one that was cancelled, or missed it, beside
  its successor.
* `AiSupervisor`: `MaxChanges` counts edits and database errors together: two give
  a change during the handling of another, or a failure during a change. Signals
  and cycles are not bounded. `MCSpec` begins with one camera that is analysed and
  one that is off; the first change makes the other fleets.
* `AnprTracker`: `MinReadings` 2 and `LostCycles` 3 separate first, middle and
  last; cycles, readings and silences are not bounded.
* `CameraTasks`: two tasks are two cameras, or one camera that came back; one
  place makes them contend. Passes, analyses and jobs are not bounded otherwise.
* `PluginBus`: an instance and its replacement, a call that ends after another has
  reached the threshold, two configurations that overlap; errors go two beyond
  the threshold.
* `IdentityMerge`: two identities of at most two of three plates, so that a family
  can be too large; one request beside the automatic approval and the bulk
  deletion; two batches that overlap.
* `Recorder`: an open segment and the one before it; the loop and one request,
  which suffice for every race of two calls of the index; the loop, its own purge
  and one in the background, which suffice for a purge beside the index and for two
  purges at once. A behaviour has either the request or the background purge
  (`beside` of `MCRecorder`): the two together are out of TLC's reach. The theorems
  hold for any numbers of both.
* `CommandQueue`: two calls of a behaviour (`MaxCalls`) suffice for one that waits
  behind another and is given up, and for two writes of one process in flight at
  once; each may be carried out by both sides, so that up to four are. The document
  may hold either setting from an earlier run. The PUTs are alike, so one of them
  comes first (`First`). Restarts are not bounded.

Deadlock is checked for `AnprTracker`. The others may stop: when
their bounds are used up (workers, frames and loops of `FrameDelivery` too), when a lock is lost (`FrameSource`), when the loop died
or hangs (`AiSupervisor`), or when there is nothing left to do. Symmetry is used
in safety runs only.

### Fairness

* `FrameSource`: weak fairness of every step a thread or a caller takes on its
  own, and of the exit of a process that got SIGTERM or is killed. A process need
  not end by itself, a frame need not come, a read of a live process need not
  return, no call need be made.
* `FrameDelivery`: a reader that published notifies, and the event loop runs every
  loop that is ready: strong fairness of each, because a step of another coroutine,
  which is short, disables it again and again, while asyncio takes what is ready in
  turn. The timeout of the wait is *not* fair, so that liveness does not rest on
  polling.
* `AiSupervisor`: the event loop runs, the database answers, a route that began
  ends, and each delay expires if the supervisor sleeps again and again (strong
  fairness: the sleep of a cycle is interrupted by the next cycle, but the clock
  goes on). Errors are bounded by `MaxChanges`: the database recovers.
* `CameraTasks`: the event loop runs its tasks, timeouts included, and an analysis
  in a thread ends. No camera need be listed again, no job need end.
* `Recorder`: strong fairness of the loop's tick and of each of its steps: a database
  that fails, a restart or a request may interrupt it any number of times, but
  not always; the loop's own purge goes on. Requests, background purges and processes
  owe nothing.
* `CommandQueue`: both event loops run, waits have a timeout and a command that is
  being carried out ends, well or badly. That an answer arrives is not assumed.

## Findings

Three disagreements between the code and its own text have a run:

1. `start()` cannot restart a worker: it waits for the lock it holds
   (`frame_source.py:499`). The supervisor and the registry hang with it.
2. A vehicle in the scene can be announced twice (`anpr_tracker.py:218`, `240`).
3. The direct call of `PUT /ai/config` in the API container erases the settings
   that container has never read (`routers.py:1466`, `ai_engine.py:219-222`),
   although the fallback is said to change nothing.

A theorem says how far each of them goes, for every size of the system:

1. Once the lock is lost no worker of any camera comes or goes (`RegistryFrozen`),
   but nothing else loses it: if `start()` is only asked for the configuration that
   a registered worker has, no caller ever waits for itself (`OnlyChangesHang`).
2. A vehicle is announced once per stay if its plate is read whenever it comes back
   into view, and within ten minutes (`OneEntryWhenRead`): the count of misses that
   a sighting without a reading does not reset, and the time limit, are the only
   causes. Its condition leaves arrivals, absences and readings free.
3. With API and pipeline in one process, a direct call whose write was taken after
   the document had been loaded, and which no other write overtook, drops no setting
   (`FallbackSafeInOneProcess`): what the run finds needs the second container. It
   does not say that the fallback is safe in one process: its races with the loop
   are below.

Others are in the models, and the properties are stated so as to live with them:

* A frame can be analysed twice (`frame_source.py:626`): the result of a woken wait
  is not compared with `after_seq`, although line 595 says it never happens.
* A signal raised during a reload is wiped out by its end (`ai_engine.py:194`,
  `214`), although line 125 says that the next cycle reloads; the delay of 10 s
  repairs it, as `Converges` shows.
* A loop that is cancelled while it waits for a frame leaves its `asyncio.Event` in
  `_frame_waiters` (`frame_source.py:620-625` handles only `asyncio.TimeoutError`,
  `ai_engine.py:1111` cancels) until the next frame of the camera, which never comes
  if the worker is stopped with the loop. Lines 544-546 of `frame_source.py` say
  that single use keeps orphans from piling up "si une boucle caméra s'arrête".
  `EntriesAccounted` claims only that no other end of a wait leaves an entry, and
  `NoLostWakeup` that such entries keep nobody asleep.
* A success never ends a quarantine: `plugin_manager/bus.py:84-86` says that a
  plugin is out of the dispatch until the administrator lets it in "ou reset auto
  sur un succès isolé", but `_mark_success()` (line 99) clears the count of errors
  and leaves the state, and a plugin in quarantine gets no new call that could
  succeed. `QuarantineLifted` states what the code does, against this comment.
* A successful `on_config_change` ends a quarantine but does not clear
  `consecutive_errors`, although lines 50-52 of `plugin_manager/bus.py` say so:
  `reload_config()` (`loader.py:344`) sets only the state, and the next error, or a
  late one, brings the quarantine back. `QuarantineComplete` allows for such entries
  (`pardoned`).
* A `PUT /ai/config` that was given up is still in the list: if a newer PUT is carried
  out by its own caller in the meantime, the pipeline then carries out the older one,
  which overwrites it. `PipelineInOrder` is about the pipeline alone.
* Two writes of the settings by one process, one of the loop and one of a direct call
  or two of direct calls, may be in flight at once, each with the whole memory of its
  time (`ai_engine.py:219-224`). If the older lands last, the newer setting is in
  memory but not in the document, until the next write or restart. `SettingsKept`
  excepts overtaken writes.
* The graph cache is not invalidated when a plugin's state changes by
  `unquarantine()`, a configuration or a refresh (`CacheCoherent` claims only the
  entry and its flag); and a new configuration ends a quarantine, although
  `plugins_bus.py:192` calls the route the only manual way.
* A suggestion one of whose identities has been merged away is refused at each
  automatic approval and stays pending for ever; a suggestion that was rejected
  after the approval read it is merged and marked accepted.
* A segment whose process was terminated while it wrote it can be passed over.
* A camera that comes back can have two loops for a while.

## Proofs

TLAPS checks the theorems for all values of the constants that satisfy the named
assumptions (finite sets, positive limits, distinct model values). Each
proof module states an inductive invariant, shows that `Init` establishes it and
that each action keeps it, and derives the properties. Every safety property that
a run expects to hold is a theorem, and so is the type invariant of every detailed
module, also where no run lists it any more (`FrameDelivery`, `AiSupervisor`).

* **FrameSource.** The properties are not inductive: that no reader is orphaned
  depends on what the callers are about to do (`ControlOK`: the locals of a
  caller at each place; only the supervisor ever holds the lock), on the registry
  (`RegistryOK`: a registered worker was created for its camera and was not told
  to stop) and on the attempt (`AttemptOK`). Slots are counted with the
  cardinality theorems: a step changes the set of holders by at most the reader
  that takes it. Theorems: `TypeCorrect`, `SlotsConserved`, `NothingOrphaned`, and
  `NestedStopNeverReturns`, the cause of finding 1. `RegistryRefined` takes the
  steps of callers and readers one by one to `WorkerRegistry`: the body of `start()`
  is its `Start` or its `Hang`, `Pop` its `Stop`, and nothing else shows.
  `RegistryFrozen` follows from it. `OnlyChangesHang` has an invariant of its own,
  `AskedOK`: between the question and the lock, the worker that the supervisor
  asks about may only go.
* **AiSupervisor.** `SyncScope` says which cameras a synchronisation still has
  to handle. Theorems: `TypeCorrect`, `TargetsNeverForgotten`,
  `PartialSyncSurgical`, and `RegistryUsedAsPromised`: each step of a
  synchronisation is one that `WorkerRegistry` has, so what `FrameSource`
  guarantees is all that the supervisor needs of it.
* **FrameDelivery** (in `CameraLoopProofs`). `NextLoopNew` says that a loop not
  created yet has taken nothing; `LookAgainRegistered` that between
  the registration and the second look the entry is in the list or was notified.
  With the types and `EntriesAccounted`, which is inductive beside them, they make
  `NoLostWakeup` inductive. Theorems: `TypeCorrect`, `WakeupsKept`,
  `EntriesOwned`, and `FeedRefined`, that every step is a step of the feed or
  leaves it unchanged.
* **AnprTracker** (in `CameraLoopProofs`). `Counted` relates the misses the code
  counts to those in a row; `Paired` says that the open entries are the announced
  vehicles of the table. Theorems: `TrackerTypes`, `AbsentVehiclesForgotten`,
  `AnnouncementsPaired`. For `OneEntryWhenRead`, `StayKept` adds that under its
  condition the code never counts more misses than there were in a row, so that a
  vehicle that stays is still in the table, and announced.
* **CameraTasks.** A place of the semaphore is held by a task that waits or
  analyses (`Shape`); what a step does to the places is one of three things
  (nothing, one taken, one given back), and each keeps their number, by the
  cardinality theorems (`LoopAccounts`, `AccountsKeepPlaces`). `Registration` says
  that a camera's registered task is its own. Theorems: `Types`, `PlacesHold`,
  `LoopsHold`.
* **PluginBus.** `LoaderInv`: an instance not registered yet is untouched, and one
  that is loading has the stored configuration or missed a change. Theorems:
  `Types`, `QuarantineHolds`, `GraphCoherent`, `ConfigStale`, `QuarantineExits`.
* **IdentityMerge.** `PlanCurrent` says that a merge nobody raced covers its
  identities with what it read, then with what it wrote; `PlanFollowed` that it
  keeps the older one and that the younger has gone before it is marked; `Bounded`
  carries the size limit through what is about to be written; `Listed` relates
  what batches have yet to compare to what they recorded. Theorems: `Types`,
  `FamilyHolds`, `AcceptedHolds`, `ComparedHolds`, `PlatesHold`.
* **Recorder.** A segment is `Passed` if the index need not come back to it. What
  precedes the cursor, any document, and what a call has before it is passed
  (`CursorOK`, `DocsOK`, `CallsOK`), and a purge has deleted the files of the
  documents it is done with (`PurgesOK`); this is inductive because the newest
  file is left alone. `RacesKnown` makes calls with the same candidate know of each
  other. Theorems: `Types`, `NothingSkipped`, `OneDocument`, and `DocumentsKept`,
  that a document leaves the index only after its file.
* **CommandQueue.** A command is `Due` while it is in the list or just taken from
  it, and in one place only (`QueueOK`). How often each side has carried it out
  follows from where it is (`PipelineRuns`) and from where its call is
  (`CallerRuns`). `OrderOK` makes `PipelineInOrder` inductive: of two calls one
  after the other, the command of the first, given up or not, is in front of the
  second's until it is carried out or lost. `FlightPlace`: a write is in flight only
  while its command is being carried out by that side. `FlightCovers`: a write that
  is not `stale`, and with it the memory it came from, holds all that is stored;
  `MemoryCovers`: so does the memory of a pipeline that has loaded the document. Both
  except what the other container has written. An overtaken write has no such
  guarantee, which is why `SettingsKept` excepts it.
  Theorems: `TypeCorrect`, `OnceEach`, `OrderKept`, `DocumentKept`,
  `FallbackSafeInOneProcess`, and `OutcomeRefined`, that every step of a caller,
  the pipeline or a restart is a step of `CommandOutcome` or a stutter.

Two theorems have a condition on the steps of the environment, `SameConfigAsked`
and `ReadWhenSeen`. Neither stops the system: under the first, workers are started,
stopped and shut down, under the second, vehicles come, are read, are missed and
leave; TLC explores 166543 and 5380 states of the instances above under them.

Only model-checked: all liveness (`StoppedReaderDies`, `NoEndlessSlotWait`,
`NewFrameTaken`, `Converges`, `LoopsAndBurstsEnd`, `SegmentsIndexed`,
`QueueDrains`, and that of `CommandOutcome`), which the prover does not reach, and
the three violations, which are counterexamples.

## Not modelled

Frame contents, detection, tracking and plate recognition (numerical); delays
and metrics; exceptions the code does not expect inside a reader thread;
`configure()`, `reset_camera()` and `pop_ready_events()` of the tracker, which
production code does not call; a clock that goes back between two segments;
storage pools, event flags and durations of recordings; signals sent over Redis
without an answer, the commands other than the two, and the file that a late
transcode leaves behind for good (`streaming.py:1464`); that with two containers
each has its own plugin bus, of which only the pipeline's dispatches; what a
language model answers. Whole parts left out are listed with their reasons in
`PROJECT.json`; most of the source is input and output over the database and
devices, without state of its own.

## Plan

In order of importance:

1. Parking sessions: the dwell state of `smart_zones/engine.py`, its snapshot, and
   the loop of `routes/parking_sessions.py` that opens and closes sessions, over
   restarts of the pipeline. Property: at most one session per plate and camera.
2. A `WorkerRegistry` whose workers may give up, with `FrameSource` and
   `AiSupervisor` shown to implement and to use it: a worker that gave up stays
   registered (`frame_source.py:496`), and what repairs it is outside both modules.
3. Hysteresis of `lifecycle.py` as the source of online and offline changes.
4. `routes/vehicle_dedup.py`: suggestions of groups of plates and their review.
