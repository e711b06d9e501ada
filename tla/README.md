# LlamaManager in TLA+

LlamaManager is a Windows desktop application (Rust, Dioxus) that manages a
local `llama-server`: it starts, observes, stops and kills one managed child
process, drives the router of an already running server, keeps a library of
model files, edits `models.ini`, records telemetry and raises alerts. This
directory holds TLA+ modules of the parts whose correctness depends on order,
failure or concurrency, TLC configurations that check them on small instances,
and TLAPS proofs of what matters most.

`PROJECT.json` lists the components, the runs, the mapping from definitions to
source lines, the hazards each property is for, and the theorems.

## How to run

    tlc -workers 2 -config ServerLifecycle.cfg MCServerLifecycle
    tlapm ServerLifecycleProofs.tla

Each run is a module `MC*.tla` with a configuration; which ones belong together is
in `PROJECT.json` under `runs`.

## Inventory

All sources are under `src/src`. `lib.rs` chooses which files implement a
module (`server_ui_clean.rs` is `server_ui`, `router_management_ui.rs` is
`router_management`, `streaming_inference_probe_router.rs` is
`streaming_inference_probe`, and so on); only those are considered.

| Component | State | Operations | Interacts with | What makes it correct |
|---|---|---|---|---|
| server process supervision (`server_process.rs`) | the `current` child, its cached exit evidence, its Job Object | spawn, attach, observe, cooperative stop, force kill, clear | operating system; held under one mutex by the lifecycle | one child at a time; never forgotten; killed with the application; evidence written once |
| SERVER LAB lifecycle (`server_ui_clean.rs`, `server_console.rs`) | ownership, operation, phase, readiness, generation, confirmation, cancellation flag | START, STOP, RESTART, FORCE KILL, process monitor | supervisor mutex, view signal, readiness poll | buttons never dead; phase tells the truth; operations end |
| readiness (`server_readiness.rs`) | deadline, attempts | wait for health, then inference | child process, cancellation flag | ends; cancellation and exit win over a late answer |
| server logs (`server_logs.rs`) | bounded ring, bounded file with rotation, phase tracker | append, snapshot, mark, drain | two drain threads, the view | memory and disk bounded; entries kept in order |
| launch command (`server_command.rs`) | none | build, validate | profile | pure |
| router client (`router.rs`, `router_operations.rs`) | single-flight flag, cancellation, last outcome | load, unload, switch, wait, recover | the router over HTTP | one operation at a time; the outcome tells the truth about both models |
| router management (`router_management_ui.rs`, `router_observability.rs`) | rows, busy and loading flags, evidence, tracker, preferences | refresh, operate, invalidate, save | router client threads, persistence | a late answer never overwrites newer evidence |
| switch benchmark (`router_switch_benchmark.rs`) | envelope, legs, stored runs | baseline, A-B-A round trip, recovery | router operations, SQLite | a run that failed is recorded as such; A is restored |
| telemetry history (`telemetry_history.rs`) | bounded time series, last compaction, counters | push, expire, compact, project, count | telemetry worker | ordered, bounded, extrema and markers survive compaction |
| alerts (`telemetry_alerts.rs`, `telemetry_alert_ui.rs`) | per rule and series: pending windows, active flag, bounded event history | observe, update threshold | telemetry worker, preferences | hysteresis and debounce; raised and cleared alternate; no alert from stale data |
| GPU telemetry (`gpu_telemetry.rs`) | previous sample per adapter, worker thread, channel | sample, stale, stop | platform API, view | stale is never shown as live |
| hardware telemetry (`hardware_telemetry.rs`, `telemetry_ui.rs`) | previous counters, worker thread | sample, publish | history, alerts | worker stops on drop |
| inference telemetry (`inference_telemetry.rs`, `passive_inference_metrics.rs`, `streaming_inference_probe_router.rs`, `inference_telemetry_ui_live.rs`) | previous counters, ring of samples, probe busy flag | poll, probe, cancel | server over HTTP | counters that go backwards are resets; probe never overlaps |
| telemetry overhead (`telemetry_overhead.rs`) | stages of a measurement | idle, measured, compare | telemetry worker | verdict only from valid evidence |
| model library (`model_library.rs`, `model_store.rs`, `model_library_actions.rs`, `model_library_ui.rs`) | models and locations in SQLite with status, scan activity | scan, cancel, relink, remove, reconcile | file system, SQLite, dialogs | a scan never loses a file it has seen; cancelled scans change nothing they did not visit |
| configuration write (`config_write.rs`) | target file, backups, temporary files | validated write, backup, prune, restore | file system | target always a complete version; a usable backup always exists |
| `models.ini` (`models_ini.rs`, `models_ini_editor.rs`, `models_ini_effective.rs`, `models_ini_validation.rs`, `models_ini_ui.rs`) | line-preserving document | parse, set, remove, resolve inheritance | configuration write | edits change only what they name |
| benchmark (`benchmark.rs`, `llama.rs`) | child process, cancellation | run, parse | operating system | a process that was started is ended |
| profiles and compatibility (`profile_generator.rs`, `compatibility.rs`, `multimodal.rs`, `gguf.rs`) | none | decide, plan, parse | model library | pure decisions |
| storage and paths (`persistence.rs`, `paths.rs`, `error.rs`) | SQLite schema version, settings | open, migrate, save | SQLite | migrations all or nothing |
| shell and views (`app.rs`, `app_shell.rs`, `main.rs`, `*_ui.rs`) | selected surface, rendered state | mount, unmount, render | everything above | rendering only |

### What is hard here

* **Threads without a scheduler.** Each click spawns a thread. Two locks (the
  supervisor's mutex, the signal's own lock) order them, and state is checked
  in one critical section and written in a later one.
* **Long waits under a lock.** The readiness wait and the grace period of a
  stop hold the supervisor's mutex.
* **Late results.** Readiness, exits, router answers and scans arrive after the
  state they were asked for has changed.
* **Two readings that should be one.** A file is fingerprinted, then inspected; a
  router is asked for its child, then the child for a completion; a pump decides
  to go on, then takes its snapshot.
* **Partial failure.** A spawn that succeeds with a Job Object that does not;
  a switch whose load succeeded and whose wait was cancelled; a file write that
  is interrupted between backup and replacement.
* **Bounds.** Log ring and file, history points, alert events, backups.

The hazards, each at its line and with the properties for it, are in
`PROJECT.json`.

## The server lifecycle

### Modules

* `ServerSlot` is what the supervisor promises: one slot, at most one running
  child, a child is adopted once it exists and released only when it is dead,
  and when the application ends nothing it supervised lives on.
* `ServerSupervisor` is `server_process.rs`: `os` is what the operating system
  knows of each child, `current` is `ServerProcessSupervisor.current`,
  `evidence` the cached `exit_evidence`. Its actions are the bodies of the
  supervisor's methods; all run under the mutex their caller holds, except
  `ProcessExit`, the child's own exit.
* `ServerLifecycle` extends it with the threads of `server_ui_clean.rs`. `pc`
  says where each worker thread is; each step is one critical section: one
  read or write of the signal, one acquisition or release of the mutex, one
  change of the cancellation flag. `ui` holds the fields of `ServerUiState`
  that decisions read. `supLock` and `stateLock` are the two locks. `monitor`
  is the state of the process monitor each adoption spawns.

The steps of `run_start` are `StartCheck` to `StartTail`, those of
`run_graceful_stop` are `StopCheck` to `Restart`, those of `run_force_kill` are
`KillCheck` to `KillClear`, those of `spawn_process_monitor` are `MonitorCheck`
to `MonitorError`. `FailStartLocked` and `StopFailedLocked` are the error arms
whose `match` scrutinee keeps the mutex guard alive; `KillTail` keeps the
signal's write guard until `KillClear`, because `state.write()` is bound for the
whole block.

The HTTP answers of the server, the exit of the child and its code, failures
of the spawn, of the Job Object, of Ctrl+C and of the inspection are
nondeterministic. `generation` is a counter compared only for equality, so the
model uses the child adopted last.

### Runs

| Run | Bounds | Shows |
|---|---|---|
| `server_lifecycle` | 2 threads, 2 children, every button, 3 clicks, 1 death of the application; 2.9 million states | `BusyIsWorked`, `LiveIsSupervised`, `OwnedIsWatched`, `EvidenceIsFinal`, refinement of `ServerSlot` |
| `cooperative` | 2 threads, 2 children, START, STOP and RESTART, 2 clicks, 1 death of the application, fair; 230,000 states | no stop stays pending, every operation ends, also when operations overlap |
| `no_lock_cycle` | 3 threads, every button, 4 clicks; a counterexample | FORCE KILL waits for the mutex with the signal locked, a failing start the other way round |

Two threads are enough for every pairwise overlap of operations, which is where
checks go stale, and the third click lets a later operation run on what the
overlap left behind. Two children are enough for a stale observation of an old
child beside a new one. `CHECK_DEADLOCK` is off because the clicks are bounded:
the system rests when they are used up.

Fairness: operating system threads run, and the locks they wait for are
released in finite time, so weak fairness of a thread's next step; a poll loop
comes back to its deadline check and the clock goes on, hence strong fairness
of `PollTimeout`. The user owes no click, and the server owes neither an exit
nor an answer. FORCE KILL is left out of `cooperative` because with two threads
it can wait for ever (`no_lock_cycle`).

That an owned server has a process (`OwnedHasProcess`) and that the phase Ready is
of the current generation (`ReadyIsCurrent`) are what one would expect and do not
hold: a failed second start empties the slot the view owns, and a delayed start
stores its readiness over a newer generation. Both are among the known deviations
below; `OwnedIsWatched` says what remains of ownership. It accepts that a monitor
gives up after one failed inspection, which is what the code does. The interval
between the creation of a child and its Job Object, in which a death of the
application lets the child live on, fills `escaped` (`ApplicationDies`):
`LiveIsSupervised` names those children as the one exception.

### Proved

`ServerLifecycleProofs` proves, for every set of threads and children and every
bound of clicks and crashes, from the assumptions `NoneAssumption` and
`LifecycleAssumption` only:

* `TypeCorrect`: `Spec => []TypeOK`.
* `BusyCorrect`: `BusyIsWorked`. It is inductive beside the type: the operation
  is set and reset in the same critical sections in which a worker enters and
  leaves the set of those that owe its end.
* `SupervisionCorrect` and `LiveCorrect`: `LiveIsSupervised` alone is not
  inductive, since a spawn needs to know that no other thread is between spawn
  and assignment. `SupervisionInv` adds that the mutex is held at the labels
  where the code keeps its guard, that an attaching thread's slot is empty and
  its child is of this session, and that the slot never holds an escaped child.
* `Implements`: `Spec => ImplementsSlot`. Each step maps to a step of
  `ServerSlot` or leaves its variables alone: a spawn is `Create`, an
  assignment `Adopt`, exits and kills `Die`, `ClearExited` and the clearing
  before a spawn `Release`.
* `EvidenceCorrect`: exit evidence is written once. The proof needs that only
  a thread at `terminate` writes forced evidence and that it found none.
* `WatchCorrect`: an owned server in the slot is watched by its own monitor.

`TypeOK` and `SupervisionInv` are in no run: their theorems say more than a run
could. Liveness (`EveryOperationEnds`, `StoppingEnds`) is only model-checked.

## The router operations

* `RouterServer` is the router as the program sees it: each model is unloaded,
  loading, ready or in a phase the program does not know, and the registry's
  `failed` flag may stand beside any phase; an accepted load or unload has its
  effect sooner or later or never, other clients load and unload, models are
  evicted. It is external and owes nothing, not even progress.
* `OperationController` is the promise: one operation is Running at a time, and
  each ends as Succeeded, Failed or Cancelled.
* `RouterOperations` is `router_operations.rs`: the callers that share the
  controller. `discover` reads the registry first, `post` sends the load or the
  unload, `wait` polls until the model is ready or unloaded, fails, the deadline
  passes or the caller cancels; a switch goes on with `postSource` and
  `waitSource`; `finish` records the outcome. A request is refused, accepted and
  answered, or accepted and its answer lost. `ChecksCancel` is where the code
  looks at the cancellation; a reload of the registry does not look between its
  discovery and its request. A switch whose target is ready at the first look compares the
  phase only, so it goes on to unload its source although the target's failed flag
  is set; the last look then refuses it.

| Run | Bounds | Shows |
|---|---|---|
| `router_operations` | 2 callers, 2 models, 2 calls of any kind, symmetric; 2.2 million states | `SingleFlight`, `SourceGivenForReadyTarget`, `SuccessIsObserved`, refinement of `OperationController` |

Two models are what a switch needs, and every call names at most two. The second
caller is the one that must be turned away. There is no fairness here: that a load
and an unload end is checked where they are used (`TripEnds`), that the view
becomes free again is `BusyEnds` of the Router Control view. The waits of a switch
and of a preload are the same code and are not checked for their end separately.

Proved in `RouterOperationsProofs`, for any callers, models and number of calls,
from `OperationsAssumption`: types, `SingleFlight` with its strengthening (the
controller is Running exactly while one caller works), `EvidenceInv`,
`SourceGivenForReadyTarget`, `SuccessIsObserved` and the refinement. The
argument: what a caller holds at `postSource` and at a successful `finish` is a
registry it has read itself since, so nothing the router does can falsify it;
`EvidenceInv` says which registry that is at each label.

Left out: model identity, compatibility and the runtime's fingerprint are one
nondeterministic refusal; models have no aliases (`switch_model` looks its source
up by id only); HTTP and JSON.

## The Router Control view

`RouterControl` is `router_management_ui.rs` with the tracker of
`router_observability.rs`. `ui` holds the fields of `ControlState` that
decisions read: the address and the authentication in the form, the selected
runtime, the tracker, the pending flag and the operation shown. `job` are the
threads of `refresh_router` and `refresh_runtime`, each with the target and the
tracker it captured when it was started; `dispatch` is the thread of
`run_action`, `operator` the one it spawns for the operation. Snapshots carry
what they were observed from. `OperationController` is instantiated for the
controller, which is what `RouterOperations` implements.

Two gaps of the code are steps of the model:

* `shown` is what `busy()` was when the view was rendered last (`Render`). Controls
  are disabled by that, not by the state of now, and the inputs do not look at
  `busy()` again (`EditAddress`, `EditAuth`), and an edit resets the
  loading flag of a refresh in flight (`Invalidate`), whose answer then lands over
  the new form.
* The handler of a button decides on a copy of the state (`Copies`, in `handler`)
  and writes later (`BeginReconcile`, `BeginRuntime`, `BeginAction`); the other
  threads write in between.

A thread may panic: what the operation panics with is recovered
(`OperatorPanics`, `Recovered`), a panic of a refreshing thread or of the
dispatcher is caught by nobody (`RefreshPanics`, `DispatcherPanics`).

| Run | Bounds | Shows |
|---|---|---|
| `router_control` | 2 addresses, 2 authentications, 2 runtimes, 2 threads, 4 clicks and edits, fair; 543,000 states | `BusyIsServed`, `MutationIsOfSnapshot`, `BusyEnds` |
| `router_authority` | 1 address, 2 authentications, 1 runtime, 1 thread, 3 clicks and edits; a counterexample | an operation is dispatched with a key on the authority of a snapshot that was observed with another (`MutationIsAuthorized`) |

Two values of each part of a target are enough to tell the old one from the new
one. Four events let a refresh begin, an edit reset its flag, a second refresh begin
beside it, and an action be dispatched on what the later answer left. Fairness:
threads run and requests have timeouts, so every refresh and every operation comes
to its end; the user owes nothing. `BusyEnds` asks nothing where a panic that
nothing catches ended a thread.

What holds although refreshes overlap: the view is busy only while a thread has yet
to end it, no operation is left Running in the controller (`BusyIsServed`), and an
operation goes to the endpoint, and uses the runtime, of the live snapshot its
handler looked at (`MutationIsOfSnapshot`). What the repository says beyond this,
that the authentication is among what an edit invalidates and that refreshes are
serialized with router work, the code does not do: the first is the run
`router_authority`, the second `Serialized` among the known deviations.

Proved in `RouterControlProofs`, for any targets, threads and events, from
`ControlAssumption`: types, `BusyServed` (`BusyIsServed`) and `MutationOfSnapshot`
(`MutationIsOfSnapshot`). The invariant `SafetyInv` beside the types says that the
loading flag is set only while a thread refreshes, that the tracker a refresh of the
runtime retained is not loading (it was copied before the flag was set), that the
dispatcher and the operator fit and nothing is Running once the dispatcher is off,
and that a handler for an action holds a live snapshot of the target it will
dispatch to. `BusyEnds` is only model-checked. The preferences file, the
selection of a row and the rendering of the rows are left out.

## The configuration editor

* `SafeFile` is the promise about one file: the program only replaces it as a
  whole, and only when the version it replaces is kept; a version that another
  program wrote since is the only one that can get lost.
* `ConfigWrite` is `config_write.rs`, one action per file operation: the backup
  is created (`CreateBackup`), filled (`CopyBackup`), old ones are pruned
  (`Prune`), the temporary file is created and filled (`CreateTemp`,
  `FillTemp`), and it replaces the target (`Replace`). A save backs up first and
  prunes before it commits; a restore fills its temporary file first and prunes
  after (`AfterCopy`, `AfterFill`, `AfterReplace`). Every step may fail, with
  the cleanup the code does on that path. Backups are numbered in the order of
  the time stamps in their names. `missed` is a history variable.
* `ConfigEditor` adds the session of `models_ini_editor.rs` (the loaded source,
  the canonical source, the raw draft, the mode) and the handlers of
  `models_ini_ui.rs`, plus a program that dies between two file operations and
  other programs that write the file. The handlers run on the thread of the
  view, so nothing is edited while files are written (`Ready`).

| Run | Bounds | Shows |
|---|---|---|
| `config_editor` | 2 documents, 1 text that does not parse, retention 2, 4 backups, 1 foreign write, 1 death; 843,000 states | `LatestIsRestorable`, `LoadedIsOnDisk`, `SavedIsShown`, `SourceOutlivesRestore`, refinement of `SafeFile` |

Four backups with a retention of two let the backup that a restore has selected
become old enough to be pruned, and failed saves push backups out. There is no
fairness: nothing here must happen.

Proved in `ConfigEditorProofs` for any documents, retention and bounds, from
`WriterAssumption` and `EditorAssumption`: types; the target is missing or a
complete version (`WholeCorrect`); `LoadedIsOnDisk`; `SavedIsShown`;
`SourceOutlivesRestore`; `Implements`. The inductive invariant `Inv` has four
named parts: what each step of an operation has prepared and secured
(`OperationInv`), which backups can exist (`BackupInv`), how the session's three
sources relate (`SessionInv`) and when the session shows the file (`DiskInv`).
The refinement needs that an operation that is about to replace the target has
backed up the version that is there, unless others wrote it since.
`RestorableCorrect` proves `LatestIsRestorable`, which counts the backups newer
than the latest one. `RestorableInv` strengthens it twice: it says the same of the
backup the running operation has just made, which is the latest one next, and it
does not count a backup that is still being copied, since a copy that fails takes
it away again. Pruning removes the oldest backups only, so a pruned backup has as
many newer ones as retention keeps.

Left out: a power loss (synced files are whole, `sync_all` is trusted), more than
one target, failures to remove a file during cleanup, directory creation, and
semantic validation: a document that parses is valid. `Blank` is the
empty default section that a new configuration starts with.

## The switch benchmark

`SwitchBenchmark` is `run_switch_round_trip` of `router_switch_benchmark.rs`,
composed with `RouterOperations`: it EXTENDS that module and drives its one
caller. `trip` is what the function holds on its stack (the step, the loads
counted per model, the legs measured so far, the outcome, the recovery), `stored`
the runs of `RouterSwitchBenchmarkStore`. `Prepare` is `prepare_envelope`; each
call of the controller is `Call` (which model is loaded or unloaded, by `Asked`),
the steps of `RouterOperations` under it (`Operate`), and `Return`, where success
goes to the next step and failure to the one recovery. `Confirm` and `Token` are
the second look at the registry and the first token of `run_leg`. `World` are the
router's own steps and its other clients. `Callers` may hold others, who stay idle:
the controller is the thread's own.

| Run | Bounds | Shows |
|---|---|---|
| `switch_benchmark` | 1 round trip (7 operations at most), 2 models, 3 intrusions of other clients, fair; 538,000 states | `RunIsWhatItSays`, `TripEnds` |

Two models are the trip; an intrusion each is needed to undo a load, to undo its
recovery and to make a phase unexpected. An intrusion is any step of the router
that is not the completion of a load. Fairness: the thread goes on and the
deadline of a wait comes; the router owes nothing, so a model may load for ever.

Proved in the second part of `RouterOperationsProofs`, for any models, any number
of runs and of intrusions, from `OperationsAssumption` and `BenchmarkAssumption`
(the two models differ, the record of a recovery is not `None`):

* `RunsAreOperations`: `BenchmarkSpec => Spec`. The round trip takes steps of the
  controller only, so it inherits what is proved of the router operations:
  `LegsAreObserved` is that inheritance (the refinement and `SuccessIsObserved`).
* `RunCorrect`: `RunIsWhatItSays`. `BenchmarkInv` adds to the invariant of the
  operations what each step has made of the record (`TripInv`): which legs are
  complete, how often each model was loaded and at what a failure left the trip.
  It is needed because a leg takes its history from those counts, two operations
  before it is complete, and its last phase from the registry of `Confirm`.

`TripEnds` is only model-checked.

## The server logs

`ServerLogs` is `server_logs.rs` with its users: for each start a capture (the
ring `entries`, and `current`, the size it believes the file to have), two drains
(`spawn_log_drain`) and a pump (`spawn_log_pump`). A drain reads a line and pushes
it to the ring (`Drain`), then appends it to the file (`AppendLine`) or fails to
(`AppendFails`: nothing opened, or a part written). The captures of all starts on
a port share `file`. A start
opens the capture (`OpenCapture`: the size of the file is read here, while drains of
an earlier server may still have lines for it), spawns the process (`SpawnServer`,
`SpawnFails`) and hands it to the page (`Adopt`). The pump reads whether to go on
(`PumpDecides`), takes its snapshot (`PumpReads`), then writes the page
(`PumpWrites`): the right side of the assignment is evaluated before the signal is
locked. `Adopt`, `ReadinessEnds` and `Disown` are the writes of ownership and logs by
the lifecycle; starts that overlap are `ServerLifecycle`'s, here they follow each
other. A line is its
length.

| Run | Bounds | Shows |
|---|---|---|
| `server_logs` | 2 servers on one port, 2 lines of 2 bytes with a heading of 1, ring 3, file 5, 1 failure of the disk, a pipe or a spawn, fair; 849,000 states | `FileIsBounded`, `PageCatchesUp` |

The two lines fill the file beyond its limit, so rotation happens; two servers are
enough for a drain or a pump of the old one to meet the new one. `MCServerLogs`
also evaluates `RingIsNewest` for every sequence of up to four lines of one to
four bytes, shorter, as long and longer than the ring. Fairness: the pump sleeps
180 ms and goes on. `file.disturbed` marks what `FileIsBounded` does not promise:
two captures that are open at a time, or a failed write (see the known deviations).

Proved in `ServerLogsProofs`, for any number of servers, lines and failures and any
limits, from `LogsAssumption`: `FileCorrect`, which is `FileIsBounded`. The limit
alone is not inductive, since a capture rotates by its own count. `LogsInv` adds
that as long as nothing disturbed the file, every capture that may still write to
it counts the bytes that are there. `PageCatchesUp` is only model-checked.

## Telemetry

* `TimeSeries` is `telemetry_history.rs` as functions of a series: `Push` with
  expiry, compaction and the limit of points, and the chart (`Segments`, `Gaps`).
* `AlertEngine` is `telemetry_alerts.rs` with the board of `telemetry_alert_ui.rs`.
  A sample is evaluated by every rule of its metric, in order, up to one that finds
  it late: `Evaluated` are those before it, `Evaluation` is what a rule makes of
  the sample, and `Observed` is the board after all samples of a turn.
  `AdjustedThreshold` changes a threshold and clears the windows.
* `TelemetryProviders` are `hardware_telemetry.rs` and the collector of
  `gpu_telemetry.rs`: what a snapshot says given the one before it and what the
  platform answers, stale readings and adapters that disappeared included.
* `Telemetry` is the worker of `telemetry_ui.rs`. `SampleAll` is one turn of its
  loop: both providers, the history (`telemetry_chart_ui.rs`), the alerts, the
  page. `AdjustThreshold` is the user's, between turns.
  `SampleWhileSetBack` is a turn in which the wall clock goes back between two
  readings. The adapters of a turn are observed in the order of `Before`, and the
  first that a series or a rule refuses ends the turn's observation.
  `fed` (per series), `watched` (per rule and series) and `lastLive` are history
  variables.

| Run | Bounds | Shows |
|---|---|---|
| `telemetry` | 1 host, an adapter that moves from index 1 to index 2 while a device whose UUID cannot be read takes index 1, 2 rules, 5 answers of the platform, 5 samples, 1 disturbance; 78,000 states | `ExtremaSurvive`, `LinesNeverBridge`, `StaleIsLastLive`, `AlertsAgreeWithCards`, `AlertsAreEarned` |

Time is in seconds, buckets of 4, at most 3 points and a retention of 6, so that
within five samples a bucket is compacted twice, samples expire and the limit of
points takes some. The answers contain every kind of reading: live, failed, unsupported, an adapter
that is gone, a UUID that moves to another index, an index that another device
takes, a UUID that cannot be read, processor counters that do not fit. Whether a
failed call of the library is an error or means that the library is unavailable is
an input (`failure`), as it is the library's result code that decides. A sample is
refused for its source (`telemetry_history.rs:417`) nowhere: the page takes the
source from the reading (`telemetry_chart_ui.rs:156`), and a provider reads each
metric from one source. The default rules of the code are two, with other numbers.
There is nothing here that must happen; the worker is a loop.

Proved in `TelemetryProofs` are all five, for any devices, rules, thresholds, history
policy and answers, however many samples are taken and however often the clock is
set back. The assumptions are `DevicesAssumption`, `PolicyAssumption` (what
`HistoryPolicy::validate` and `ChartOptions::validate` accept), `RulesAssumption` (what
`AlertEngine::with_capacities` accepts) and `AnswersAssumption` (a time is a natural
number, an answer a number). `TypedInv` says that clock and readings are such.

* `StaleCorrect`. The cards alone are not enough, since a provider answers a failed
  query from the readings it keeps: `ReadingsInv` says that those carry what was
  last live, of the adapters that are not enumerated too, and that the page shows
  them.
* `ExtremaCorrect`. A series is compacted again and again, and what compaction kept
  once is all it can choose from the next time. `Faithful` says what a series still
  knows of everything it was fed: it is a subsequence of it in which only drawable
  samples between two of one bucket are missing (`Thinned`), it begins where
  nothing older is promised (`Bounds`), and every bucket that begins after its
  oldest sample keeps one sample at or below and one at or above each that was fed
  (`Extremal`). `SelectedThinned` and `ExtremesKept` are that one compaction
  preserves this, `PushKeeps` is the whole of `Push`.
* `LinesCorrect`. From `Thinned`: two neighbours of a series with samples missing
  between them lie in one bucket with those, and the decimation for the pixels
  drops no more (`Drawn`). `Joined` compares neighbours only, so this is what
  makes it enough.
* `AgreementCorrect`. The page and the board are written in one turn, so the
  invariant is the property and `BoardShape`. The work is in the step: the rules of
  a sample are evaluated one after the other, a late one ends it, and no adapter
  after it is observed.
* `EarnedCorrect`. `EvidenceInv` says that an open window is backed: its start is the
  time of one of the last samples its rule evaluated, it counts no more samples than
  there are since, and all of those were live and on its side of the threshold of
  now. A window is not enough by itself, since it keeps a time and a count only.

## The model library

* `Compatibility` has the rules of `compatibility.rs` and `multimodal.rs` as far
  as the status of a verdict goes, and what makes stored evidence stale.
* `ModelStore` has the tables of `model_store.rs` and each transaction on them as
  a function; `Reconcile` is what marks locations missing at the end of a scan.
* `ModelLibrary` is the page (`model_library_ui.rs`) and the scan
  (`model_library.rs`). A worker is the thread of one operation. A scan takes each
  path through `Walk`, `Fingerprint`, `Lookup` and `LookupProjector`, `TouchRow` or
  `TouchProjectorRow` of a row that is known, `Inspect` and `Save` of one that is
  not, `Mark` and `MarkProjector` of a file that cannot be read; it ends with
  `ReconcileModels`, `ReconcileRest` and `Summary`. The other operations read the
  file they were given (`ReadFile`, `Examine`) and `Apply`. All but the removals
  recompute the verdicts: `Recompute` reads the runtime, `ListModels` the models,
  then `EvaluateNext` and `StoreVerdict` alternate. `Finish`, `Load` and `Publish`
  read the page's next snapshot and write it; when it cannot be loaded the old one
  stays. Every statement and every transaction is a step of its own, and each may
  fail.

Files are written, moved, deleted and locked between any two steps, a scan is
cancelled, a runtime is selected, the page is left and opened again while its thread
goes on (`Orphan`) or cannot load its tables. A file is its content, which stands for
its hash, and a stamp, which stands for size and time. `Beneath` are the paths that
start with a folder, which is what the reconciliation compares; `Listed` are those of
them that the walk lists, which follows no link and takes `*.gguf` only. `past` is a
history variable, the files that left their path; `CameBack` says that one of them is
back, with its stamp.

| Run | Bounds | Shows |
|---|---|---|
| `model_library` | 2 paths in a folder and one behind a link, a model, its projector and a malformed file, 2 threads, 3 operations (cancellations, selections of a runtime and page changes count), 1 incident, files change at the 2 listed paths, fair; 633,000 states | `MissingHasReason`, `CompleteScanIsTruth`, `FreshVerdictsAreOfRuntime`, `BusyEnds` |

Two paths let a file move and a projector stand beside its model; the third can be
scanned itself, or added by hand, and is then reconciled by a scan that cannot list
it. Three operations let a scan meet what two earlier ones left; one incident
suffices for every property that names an undisturbed or an excused operation, and two
threads for an orphan beside the page's own. For a file to come back it takes more
incidents (the file goes away, another one stands there between the two readings of a
scan, the first one comes back); there the proofs speak. `clean` and `excused` of a
worker are history variables. Fairness: a thread that was spawned is scheduled.

Proved in `ModelLibraryProofs`, for any paths, folders, threads, operations, files
and runtimes and any number of incidents, from `LibraryAssumption`:
`MissingCorrect` (`MissingHasReason`), `ScanCorrect` (`CompleteScanIsTruth`) and
`FreshVerdictsCorrect` (`FreshVerdictsAreOfRuntime`). All three rest on
`LibraryCorrect`, the invariant `LibraryInv`:

* `Tables`: a row has the content of the file its fingerprint was read of, or that
  file left its path (`past`). A scan that meets a known fingerprint keeps the row
  without reading the file; that this is right cannot be seen from the scan alone,
  it needs every earlier operation to have left such rows. A torn row, of a file
  that was replaced between the two readings, has the fingerprint of the one that
  left.
* `ThreadInv` of every thread, orphans included: what it fingerprinted is or was at
  its path; every path it is done with was seen as a model or is excused; if it is
  undisturbed, what it settled is the truth of its path. What it read before another
  thread committed may be stale, which is why each of its steps has its own clause.
* `Verdicts`: every stored verdict is that of the runtime stored with it, whichever
  was selected since, and of some projector. This is what makes the comparison of
  `is_stale` enough for the runtime, after failed operations and on pages that are
  opened too.

What the properties leave out is what the code does differently: a row behind a link
or of another name turns missing although its file is there, and a row just marked
unreadable does (`MissingMeansAbsent`); a torn row is reused when its file comes back
with size and time unchanged (`CameBack`); a verdict may be of a projector that was
removed (`StaleEntriesAreMarked`). `BusyEnds` is only model-checked.

## Inference telemetry

* `InferenceEvidence` is `inference_telemetry.rs` with the labels of the panel:
  which path of the final event of a completion each metric is read from, what is
  shown of it. `MCInferenceTelemetry` evaluates `AcceptanceIsSound` for every
  combination of small counters.
* `InferenceTelemetry` is the panel of `inference_telemetry_ui_live.rs`. `monitor`
  is the thread that discovers the child behind a router
  (`MonitorDiscovers`), polls it with retries (`MonitorPolls`), asks whether the
  endpoint can be reached (`MonitorReaches`) and writes what it found if its
  generation is still the panel's (`MonitorWrites`). A probe is the thread of
  `run_probe`: attach, begin, discover, check the slots, complete; what the router
  refuses is asked of a child on the same host (`ProbeFallsBack`). Behind the
  endpoints a router loads and unloads models, each a process with a new port.

| Run | Bounds | Shows |
|---|---|---|
| `inference` | a router with a model loaded and a second one, a plain server, 2 probe threads, 2 clicks, 2 incidents, fair; 741,000 states | `LiveCardsAreOfAttached`, `LiveRequestIsUnbroken`, `EvidenceIsAttributed`, `ProbeEnds` |

Two incidents unload a model and load another one, or replace a process; two
clicks attach one endpoint while the probe of another is on its way. Fairness:
threads run and requests have a timeout.
Threads have no identity: a click takes the first probe that is free.

Proved in `InferenceProofs`, for any models, endpoints, probe threads, clicks and
incidents, from `InferenceAssumption`: `LiveCardsCorrect`
(`LiveCardsAreOfAttached`), `LiveRequestCorrect` (`LiveRequestIsUnbroken`) and
`EvidenceCorrect` (`EvidenceIsAttributed`). `TelemetryInv` says what the panel, the
poll and each probe hold at each step: a port that was discovered belongs to the
model whose name goes with it, also after its process is gone (`Named`); a sample
that is about to be written is of the endpoint the poll was started with; and a
request that is not stale has seen samples of no process but the one that is shown,
which is how a second one is noticed. The generation and the comparison of the
endpoint are what keep late results out. `AcceptanceIsRatio` is about the acceptance a
card shows, for all counters: never above the whole, and their ratio rounded down
where the client computes it. `ProbeEnds` is only model-checked.

## Findings

Two runs expect a violation: `no_lock_cycle` and `router_authority`. The documents
they contradict are quoted in `PROJECT.json`.

### Known deviations

Further behaviours of the code that differ from what the repository says or from
what one would expect. Each row is a counterexample TLC reports for a definition that
is kept in the module named, with the constants given; nothing relies on them.

| Definition | How to see it | What happens |
|---|---|---|
| `ServerLifecycle!StopIsNotCrash` | `ServerLifecycle.cfg` with this PROPERTY | monitor and stop both mark the exit of a stopping server; the second mark (`server_ui_clean.rs:584`) reads Crashed, while `docs/10_COMPLETION_MATRIX.md:145` tells stop and crash apart |
| `ServerLifecycle!LiveServerIsOwned` | `ServerLifecycle.cfg` with this INVARIANT | a monitor's late write (`server_ui_clean.rs:498`) disowns a server that was started meanwhile |
| `ServerLifecycle!OwnedHasProcess` | `ServerLifecycle.cfg` with this INVARIANT | two starts overlap (`server_ui_clean.rs:274`); the second empties the slot (`server_process.rs:337`), fails to spawn, and the view owns a server there is no process of |
| `ServerLifecycle!ReadyIsCurrent` | `ServerLifecycle.cfg` with this INVARIANT | the readiness of an earlier start is stored over a newer generation (`server_ui_clean.rs:402`) |
| `RouterControl!Serialized` | `RouterControl.cfg` with this INVARIANT | an edit that was under way when a refresh began resets the loading flag of the refresh (`router_management_ui.rs:295`); the view is free, and a second refresh or an operation begins beside the first, while `docs/evidence/M5_ROUTER_SWITCHING_2026-08-18.md:42` calls them serialized |
| `ConfigEditor!TempsAreRemoved` | `ConfigEditor.cfg` with this INVARIANT | a save whose flush fails leaves its temporary file (`config_write.rs:198`), against `docs/validation/M3_CONFIG_WRITE_POLICY.md:37` |
| `Telemetry!MissingGapsAreReal` | `Telemetry.cfg` with this INVARIANT, `Answers <- MCSteadyAnswers`, `BucketWidth = 5`, `GapLimit = 2`, `MaxPoints = 8`, `MaxSamples = 6`, `Retention = 30` | compaction alone makes a gap of a history that never paused (`telemetry_history.rs:798`) |
| `ModelLibrary!MissingMeansAbsent` | `ModelLibrary.cfg` with this PROPERTY | a scan marks as missing a model that is there: one added by hand behind a link its walk does not follow, since the reconciliation takes every stored path that starts with the folder (`model_store.rs:288`), or one it has just marked unreadable (`model_library.rs:246`); `docs/evidence/M2_MODEL_LIBRARY_2026-08-18.md:25` tells missing from unreadable |
| `ModelLibrary!StaleEntriesAreMarked` | `ModelLibrary.cfg` with this INVARIANT, one worker, `MaxOperations = 4`, `MaxIncidents = 0` | a projector is removed, and the verdict that was computed with it is shown on as fresh: the removal does not recompute (`model_library_ui.rs:540`) and `is_stale` ignores the projector (`compatibility.rs:65`), while `docs/10_COMPLETION_MATRIX.md:107` says "stale entries are represented truthfully" |

Seen while translating, and part of the models:

* The log file can exceed its limit when the drains of one server are still
  writing while the next capture of the port is open, or after a write that
  failed half way: `current_bytes` is the capture's own count
  (`docs/evidence/M4_SERVER_LIFECYCLE_2026-08-18.md:89` says "bounded in memory
  and on disk"). Lines read after the pump's last snapshot are not shown.
* A file that is replaced between the two readings of a scan leaves a row with the
  fingerprint of one file and the content of another. The next scan reads it again,
  unless the first file has come back with its size and time: then the row is
  reused (`model_library.rs:181`). `CameBack` marks those paths.
* A folder that cannot be listed marks its models missing. A model removed while an
  orphaned scan runs can reappear. After a relink the canonical path of a model may
  name a file with other content, as long as a file exists there.
* Evidence of a probe that reached an older child and reports late stays LIVE next
  to the samples of the new one until the next poll
  (`docs/validation/M6_TELEMETRY_VISUAL_VERIFICATION.md:44`); `LiveRequestIsUnbroken`
  counts the samples since it was shown. A child that dies during the fallback
  shows the endpoint as disconnected until the next poll.
* The first token of a benchmark leg is any event of the stream, an error too; a
  load of a leg may find its target loaded already, by another client.

## What is proved and what is only checked

Every invariant and every action property that a passing run checks is proved for
every value of the constants, as the sections say, but for those named here:

* Liveness: `EveryOperationEnds`, `StoppingEnds`, `TripEnds`, `PageCatchesUp`,
  `ProbeEnds` and the two `BusyEnds`. ENABLED and fairness are out of the prover's
  reach.
* `RingIsNewest`, which `MCServerLogs` evaluates on bounded inputs: it sums the
  bytes of a sequence, which is a fold.

Liveness is thus all that a run checks and no theorem states. The induction
theorems of the library take an operator as a parameter, which the provers cannot
instantiate. Where the telemetry needs induction over positions, `TelemetryProofs`
takes the least counterexample, which exists by the library's facts about
well-founded orders (`LeastNat`, `NatSet`). For the same reason `TimeSeries` and
`AlertEngine` say with sets and positions which samples remain and what each rule
evaluates. Only the list of past alert events is a fold, and no theorem is about it.
`MCInferenceTelemetry` evaluates `AcceptanceIsSound` for whole responses;
`AcceptanceIsRatio` proves it of the acceptance, for all numbers.

| Proofs | About | Theorems of properties |
|---|---|---|
| `ServerLifecycleProofs` | `ServerLifecycle`, `ServerSupervisor`, `ServerSlot` | 5 |
| `ConfigEditorProofs` | `ConfigEditor`, `ConfigWrite`, `SafeFile` | 5 |
| `RouterOperationsProofs` | `RouterOperations`, `OperationController`; `SwitchBenchmark` | 5 |
| `RouterControlProofs` | `RouterControl` | 2 |
| `InferenceProofs` | `InferenceTelemetry` | 3 |
| `ServerLogsProofs` | `ServerLogs` | 1 |
| `ModelLibraryProofs` | `ModelLibrary`, `ModelStore`, `Compatibility` | 3 |
| `TelemetryProofs` | `Telemetry`, `TelemetryProviders`, `TimeSeries`, `AlertEngine` | 5 |

The assumptions on constants are the named ASSUMEs of the modules; TLC evaluates
them in the runs. Most say that `None` is none of the values it is compared with.
Beyond those, `LibraryAssumption` says that a file is a model, a projector or
malformed, that the first disk holds files, that a walk lists only what is beneath its
folder and that an operation names paths that exist; `DevicesAssumption` that indices
and UUIDs are numbers; `LogsAssumption` that there are lines to log (`Sizes # {}`);
`PolicyAssumption` and `RulesAssumption` are the validation of the constructors; the bounds are natural
numbers.

The inductive invariants of the model library and of the inference telemetry were
checked by TLC as well, with the constants of their runs; they are in no run, since
the theorems say more.

## Not modelled

* Of the lifecycle: poisoning of a mutex by a panic; the log export; refreshing
  the source of the launch command; the unmounting of the view while workers run;
  numeric pids and exit codes beyond zero and nonzero.
* Of the logs: redaction, export, the severity shown; the open of the file that
  fails at a start (it ends the start before there is a capture, see `FailStart`).
* Of telemetry: metrics of an adapter beyond two, the process reading, the counter
  tracker and the SVG of the history, the worker of `gpu_telemetry.rs` that the
  page does not use; a page that is left ends the behaviour.
* Of the library: the list of scan roots, texts, the history of benchmarks in the
  same database, `identify_relink_target` (called by nothing). `inspect_gguf`
  reads a file twice, which is one read here.
* Of inference telemetry: HTTP and JSON as bytes, the API key, the LAN opt-in
  beyond refusal, `InferenceTelemetryTracker` and `inference_telemetry_ui.rs`
  (used by nothing), leaving the panel, `Drop`. Ports of children are never used
  twice in the model; the discovery of a child and the completion it is asked for
  are one step; the values of metrics are small numbers.
* `telemetry_overhead.rs`, `llama.rs`, `server_command.rs`, `gguf.rs` and
  `profile_generator.rs` compute from their arguments and keep nothing between
  calls; `persistence.rs` and `paths.rs` are schema statements in one transaction
  each and directory names; `app.rs` and `app_shell.rs` draw.
* `models_ini.rs` and its relatives keep a document line by line; what a document
  means is a model value for `ConfigEditor`.
* `benchmark.rs` runs one child with a cancellation flag.

## Plan

Modelled is what is shared between threads or survives a crash. What is left, in
this order:

1. `OperationController` composed through `RouterControl`: that the view's
   controller implements it is checked through `RouterOperations` only.
2. `EffectiveConfig`: inheritance and the effective value of a key of `models.ini`
   as operators, against a reference definition over small documents.
3. `Benchmark`: the child process and its cancellation.

The number of runs is kept to a dozen, one for each question; a new one replaces
the one that has least left to say.
