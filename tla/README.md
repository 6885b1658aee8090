# Verification of CZUR SDK Open

CZUR SDK Open (`sdk_open`) is a local service written in C++. Clients open a
command WebSocket, create a session, open cameras and scanners, preview,
capture and process images; providers talk to the hardware. This directory
models the stateful parts of the service in TLA+, checks small instances with
TLC, and proves every safety property these instances check with TLAPS, for
instances of any size. Paths below are relative to the repository; `cas` stands for
`application/command_application_service.cpp`.

## 1. The system

### Threads and locks

| Actor | What it runs |
|---|---|
| command io thread (one) | every command request, the open and close handler of a connection, `ShutdownActiveSessions` |
| capture worker (one per task) | `CaptureTaskService::RunCaptureTask` |
| processing worker (at most one per device) | `RunProcessingQueue` |
| enhance worker (one per task) | `ImageEnhanceTaskService::RunTask` |
| scan threads of the scan providers | the scan and its events, which enhance and convert the pages |
| provider threads | preview frames, hard-grab keys, device removal reports |
| HTTP threads | assets, uploads, the admin page, offline activation |
| TLS rotation thread | rotates the certificate, reloads the listeners |

`storage_lifecycle_mu_` (recursive) orders the commands that write files, the
provider events that create or finish tasks, and `storage.cleanup_temp`, which
only tries it. Every table has a mutex of its own, never held across a call.

### Components

| Component | State | Operations | Hard part | What makes it correct |
|---|---|---|---|---|
| Capture tasks (`application/capture_task_service.cpp`) | task table, capture windows, cool-downs, processing queues, active workers, counters | reserve, abort, start, capture, enqueue, process, cleanup | hand-offs between three threads, failed thread starts, cleanup in between | exclusive capture per device, no lost task or image, counters agree, tasks end |
| TLS file transaction (`runtime/sdk_tls_file_transaction.h`) | installed files, staged and backup files, journal | commit, rollback, recover | crash or failing system call anywhere | the bundle changes as a whole or not at all; leftovers are resolved |
| Sessions, devices, streams (`cas`, `video_session_service.cpp`, command WS server) | sessions, opened devices, stream bindings, provider's devices and streams | create/destroy session, open/close, video start/stop, connection close, removal, reload, shutdown | removal reports and reloads while handlers run | nothing stays with a closed connection; whatever is open has an owner |
| Image enhance tasks (`application/image_enhance_task_service.cpp`) | task table, active workers, cancel flags, quota | start, steps, convert, confirm quota, cancel, cleanup | completed is visible before the quota is confirmed; exceptions | final outcomes, paid results, workers exit |
| SANE and TWAIN scans (`cas`, mock providers) | provider and service snapshots of a task | scan, scan_get, scan_cancel, events, connection close | two snapshots, two mutexes, finalization in two threads | snapshots settle, polling sees the end, no deadlock |
| Capture pipeline (`application/capture_pipeline_service.cpp`) | assets and outputs of one capture, its stages | stage, thumbnail, page process, colour mode, format convert, enhance | ids by number of pages, early returns, enhancement of a partial result | every page delivered; stages name assets that exist |
| Authorization and quotas (`application/authorization_service.cpp`) | sessions, calls to the provider under way, trial units | create, refresh, destroy, activate offline, consume, require a feature | the session is read, the provider called without a lock, the answer stored, from three threads | only the entitled pass; closed connections stay without a session |
| Video WebSocket (`transport/sdk_ws_video_server.cpp`) | pending and active viewers, posted tasks | validate, open, publish, close stream, restart | validation and open are two callbacks, closing is posted from other threads | viewers leave with their stream |
| Scanner watches and sources (`cas`) | watches, opened TWAIN sources, the running cleanup | watch start/stop, open, close, release by close handler and shutdown | a source that cannot be closed, or is closed by another client | no opened source is lost, gone connections hold nothing |
| Storage lifecycle, assets, uploads (`cas`, HTTP server) | asset table, owners, work directory, the lifecycle lock | register, resolve, upload, download, convert, cleanup | writers on four kinds of threads, downloads without a lock | an asset has its file; a reader finds it |
| Certificate manager (`runtime/sdk_tls_certificate_manager.cpp`) | key, certificate, CA and state files, the lock | provision, renew, rotate | four renames and their undo, crashes, two processes | key and certificate match; a pair survives |
| Application lifecycle (`runtime/sdk_app.cpp`) | running listeners, rotation thread, loaded pairs | start, stop, rotate, reload | start that fails half-way, stop during a reload | a stopped service is silent; listeners serve the rotated pair |
| Runtime configuration and records, admin views, facades, private provider | little or none | parsing, forwarding | - | not modelled, see section 7 |

How they interact: the io thread calls every service and is the only one to
start tasks, except for a hard-grab key, which a provider thread reports. Tasks
take files from and put files into the work directory, which a cleanup empties;
their results become assets, which HTTP threads serve. A session of
Authorization is the key to devices, streams and assets; closing its connection
releases them one table after the other. The rotation thread restarts the
listeners, and with them the numbering of connections.

`PROJECT.json` lists the components with their sources, and under `hazards` the
places in the code that are hard to test, with the properties that watch them
or the reason why none does.

## 2. Modules

| Module | Models | Remarks |
|---|---|---|
| `CaptureTask` | capture tasks with their callers (`capture.take`, hard grab, cleanup) | one action per critical section of `mu_`, or per step outside it |
| `CaptureTaskProofs` | theorems about `CaptureTask` | section 5, as for all modules of proofs |
| `TlsSuite` | what a commit promises: the bundle in force changes as a whole | abstract specification |
| `TlsFileTransaction` | commit, rollback, recovery; every change of a directory is a step | refines `TlsSuite` |
| `TlsFileTransactionProofs` | theorems about it, and that it implements `TlsSuite` | |
| `DeviceSession` | sessions, devices, streams, removal reports, reload, shutdown | one step per table lock or provider call of a handler |
| `ImageEnhanceTask` | enhance tasks, workers, quota, cleanup | one step per critical section or provider call |
| `ImageEnhanceTaskProofs` | theorems about `ImageEnhanceTask` and, in its last part, about `ScanTasks` | |
| `ScanTasks` | SANE and TWAIN scans with the mock providers' threads | one step per lock; the two mutexes that matter are variables |
| `CapturePipeline` | the stages of one capture and its enhancement | what `CaptureTask` sees as one step with an outcome |
| `CapturePipelineProofs` | theorems about `CapturePipeline` | |
| `Authorization` | sessions, entitlement, quota | read, call and store are three steps |
| `VideoViewers` | bindings, viewers, the video listener | EXTENDS `Authorization`, whose sessions it is composed with |
| `VideoViewersProofs` | theorems about `Authorization` and about `VideoViewers`, and that the second implements the first | |
| `MediaAssets` | assets, uploads, downloads, image commands, scans and OCR as far as they write files, cleanup | one step per critical section, provider call or file operation |
| `MediaAssetsProofs` | theorems about `MediaAssets` | |
| `ScannerSessions` | watches and opened sources | one step per loop round of a cleanup |
| `DeviceSessionProofs` | theorems about `DeviceSession` and, in its last part, about `ScannerSessions` | |
| `LeafCertificates` | the certificate files and the processes that renew them | one step per rename |
| `SdkApp` | the service process: main thread, rotation thread, listeners | EXTENDS `LeafCertificates`, of which the service is one updater |
| `SdkAppProofs` | theorems about both, and that `SdkApp` implements `LeafCertificates` | |
| `MC*` | the instances TLC runs | constants only |

Variables carry the names of the members they model where TLA+ allows it, and
every definition is tied to its lines in `PROJECT.json` (`map`). Operators whose
comment begins with "Mutant" are plausible bugs: for every property of a
passing run, replacing the operator that follows by the mutant makes TLC
report a violation. They are not part of the specifications. `TypeOK` of a module
documents the range of its variables; section 5 proves it. `ScanTasks` and
`ScannerSessions` prefix their `Init`, `Next`, `Spec` and `TypeOK`, so that a module
of proofs can extend them beside another component.

**CaptureTask.** `lifecycle` is `storage_lifecycle_mu_` as far as the service's
callers hold it: from `ReserveTask` to `StartReservedTask` or
`AbortReservedTask` (`handoff`), and during a cleanup. A capture worker is
named by its task, a processing worker by the task that spawned it. The clock
is abstract: a cool-down may end at any time after it began, so every timing
the 1500 ms allow is included. Whether the quota is granted is
nondeterministic. The image of a hard grab is on disk when its reservation is
made. `onDisk` is the work directory; the provider's `CleanupTemp` empties it, or
refuses or fails. What a failed one removes is left in `onDisk`: a cleanup runs only
when every registered task has ended, and the image of an ended task is not looked
at again.

**TlsFileTransaction.** Calls hold a file lock, so one runs at a time. A file's
content is the generation of the bundle it belongs to. A crash may happen
between any two steps and any call may fail; a directory fsync may fail after
its rename took effect. The crash is that of the process: what was renamed stays
renamed. A journal that is in place although writing it failed is `stray`: first
its own call is undoing it, and if that is interrupted it is left for the next
recovery, which cannot tell. `TlsSuite` is implemented under the refinement
mapping `suite <- Shown`: the content every file has once the transaction on disk
has been recovered, or, while a journal is stray, the files before its commit
(`former`), to which the undoing has to lead. The step that removes a journal
left behind is excepted in so many words (`InstallsAtomically`).

**DeviceSession.** `io` is the request the io thread is in: operation, place,
connection, device, stream id and the devices or streams still to release. A
session is the set of devices its token covers, or none. `orphaned` are
connections a reload dropped without a close handler, `unclaimed` devices
re-opened while their removal was being reported; both are history the
properties exempt, and the first is what the finding below is about. The
provider is the mock one: `StopVideo` joins the stream thread, which may be the
one reporting the removal. Stream ids are compared as strings in the code and
as numbers here, the same up to 9.

**ImageEnhanceTask.** A worker's `pc` is where `RunTaskImpl` is. Cancellation is
looked at only at the beginning and before each enabled step, as in the code.
Charges are units per capability with the code's normalization; a refused
capability leaves those charged before it. `Throw` is the catch of `RunTask`.
A cleanup whose provider reports an error may have removed any outputs (`lost`)
and leaves the tasks as they were.

**ScanTasks.** `prov` is the provider's `tasks_`, `table` is `sane_tasks_` and
`twain_tasks_`; `storage` and `provMu` say who holds `storage_lifecycle_mu_` and
the providers' `mu_`. A dispatched event is a routine any actor may be in
(`actor[a].at`), and `then` is where it returns to. A snapshot is its status,
`cancel_requested` and whether its paths are scanned pages or the final output.

**CapturePipeline.** `at` is the stage, `assets` and `outputs` are the result's
lists, `named` the asset ids that finished stages refer to. A file's content is
the page it shows, so that a page lost, doubled or mixed up is seen. Image
providers may refuse, fail, or split a picture into pages with any names.
`FinalPages` is what the enhancement is given: like the code it takes the final
thumbnails (`final_thumbnail`) for pages too. `PagesOf` is what a list of assets
delivers, the thumbnails left aside.

**Authorization and VideoViewers.** `call[th]` is the provider call a thread is
in, with the session it read before. The provider is external: it holds the
licence and the trial units, and may unlock the licence between two looks.
`raced` records connections that closed during an offline activation, `late`
viewers whose stream closed between validation and opening; properties exempt
both by name, since the code does not prevent them. Closing a stream and
publishing a frame are tasks posted to the video io thread, in order.

**MediaAssets.** A file is named by its task and its role. A cleanup has two
halves, the provider's deletion and the clearing of the tables (`io.at =
"forget"`). When the provider fails (`CleanupFails`) it may have removed any of the
files, and the handler returns without the second half; `lost` remembers the
files the index, or a scan or command under way, still named then, and the
properties except exactly these until they are written again. `reading[r].late`
marks a download overlapped by a cleanup.

**ScannerSessions.** The twenty rounds of `WaitTwainTasksTerminal` are `MaxPolls`.
SANE and TWAIN watches are two tables with the same code, never looked at
together; the run uses one.

**LeafCertificates and SdkApp.** A pair is a number, so that a key and a
certificate match when their numbers do. Each kind of fault happens at most
once. The service's own updates run in its main thread (provisioning) and its
monitor thread (rotation), everybody else's in another process; a customer may
replace the pair while no update runs. `monitor.at` distinguishes the test of
the predicate from the wait, so that a lost notification is among the
behaviours. The lock is one for the whole machine, as the file lock is. On
Windows it is a mutex in the `Local\` namespace
(`sdk_tls_certificate_manager.cpp:81`), one per logon session: there the model
describes updaters of one session, and says nothing of a service and an
installer that run in different ones.

## 3. Runs

| Run | Question | Bounds | States |
|---|---|---|---|
| `capture_safety` | do windows, queues, workers, images and counters stay consistent, and do started tasks end? | 1 connection, 2 devices (one with a hard-grab key), 3 tasks | 700,446 |
| `capture_pipeline` | does every page arrive, under names that exist? | 2 page outputs, 2 enhancement steps | 1,082,764 |
| `image_enhance` | are outcomes final, paid for and on disk, and do workers exit? | 2 tasks, 2 pages, 4 pipelines | 973,498 |
| `device_session` | is everything a connection holds released, and does everything open have an owner? | 1 device, 2 connections, 3 streams, TLS on | 554,920 |
| `auth_viewers` | who passes, what stays of a closed connection, do viewers leave? | 1 connection, 1 token, 2 methods, 1 trial unit, 1 viewer, 1 stream, 1 posted frame | 405,380 |
| `scan_tasks` | do scans end, and what keeps one from it; do their snapshots settle? | a TWAIN scan with a SANE scan or a second TWAIN scan, 1 polling round | 950,346 |
| `scanner_sessions` | are sources and watches given back? | 2 connections, 2 sources, 2 rounds of waiting | 421,640 |
| `media_assets` | does an asset have its file, and does a download find it? | 2 connections (symmetric), 1 upload, 1 download, 2 tasks | 3,040,326 |
| `tls_transaction` | does a bundle install as a whole, but for a stray journal left behind? | 3 files, 2 commits, 4 faults | 62,036 |
| `service_life` | do pair, listeners and threads survive starts, stops, rotations and a fault? | the service and an installer, 3 pairs, 1 fault | 857,683 |
| `capture_hardgrab` | finding: a hard grab ends another capture's exclusion | 1 device, 3 tasks | - |
| `tls_reload_ids` | finding: connection ids are used again after a reload | 2 connections | - |

`CHECK_DEADLOCK FALSE` stands where the system really stops: every task id,
stream id, pair or connection of the bound is used up, the picture is done, or
the server has stopped.

Why the bounds suffice. *Captures*: a hazard needs a task in processing, one in
the queue and one being captured, on one device, beside another device.
*Pipeline*: the code distinguishes one page from several, listed and with a
file; two outputs reach every combination, and a second step follows a skipped
or failed first. *Enhancement*: tasks share only the tables and the cleanup, so
two suffice, and the pipelines cover a shared capability, a step that may be
skipped, online beside local, and no step at all. *Devices*: two connections
compete for one device; a third stream id allows a stale binding beside a live
one. *Authorization*: the races are between the three threads on one session;
what the proofs say holds for any number of connections. *Scans*: scans of
different kinds share the lifecycle mutex and the io thread only; two of one
provider share its mutex too, so `Together` takes a TWAIN scan with either (the io thread
handles one request at a time, so a third adds nobody new). *Sources*: a
source closed by its opener beside one closed by the other connection or hanging;
two rounds of waiting let a scan end before, between and after them. *Assets*: an
asset of one task is the input of another; every writer exists once, and all of
them meet the one cleanup. *TLS*: the second commit meets the leftovers of the
first; four faults allow a failed write of the journal, a crash in the undoing,
one in the recovery and one more in the recovery of that; three files leave a first, a middle and a last
rename. *Service*: two updaters meet at the lock; a third pair is generated on
the leftovers of a second that failed.

### Properties

*Captures.* `ExclusiveManualCapture` (one manual capture acquires per device, on
devices no hard grab comes from), `WindowHasOwner` (a busy device is being
captured: the window is given back on every path), `ProcessingIsSerial` (a
device with queued work has one processing worker, an idle one has none),
`WorkersFindTheirTask` (cleanup never removes a task a worker refers to),
`ImageKept` (nor an image that is still needed), `SummaryAgrees` (session
counters against the history of the tasks), `TaskHistory` (finished tasks keep
their outcome), `StartedTasksEnd`.

*Pipeline.* `SucceededDeliversPages` (a success has every page, once, in order;
page names that collide after sanitizing are excepted, since `AddAsset` then
replaces one page by the other), `EnhancedFromAllPages` (a success that was
enhanced was made of every page, once, in order; a conversion refused half-way
must not come out as one), `StagesNameAssets`.

*Enhancement.* `CompletedHasOutput` (but for what a failed cleanup removed),
`CompletedIsPaid`, `OutcomeIsFinal`, `WorkersExit`.

*Devices.* `ClosedHoldNothing`, `OpenDevicesAreHeld`, `PreviewsCanBeStopped`,
`CleanupEnds` (the close handler ends although it joins threads that report
removals).

*Authorization and viewers.* `GrantsAreEntitled`, `ClosedSessionsRaced`,
`OnlyLateViewersLinger`, `ClosedViewersLeave`.

*Scans.* `SaneSettles` (a SANE scan whose thread has ended never looks
unfinished), `CompletedMeansConverted` (a completed document is the document,
while its connection is there), `TwainBusyUntilWritten` (a cancelled scan still
counts as active while it writes), `ScansEnd` (every scan ends, unless two of one
provider cross their locks: `LocksCrossed`, section 4).

*Sources.* `OpenSourcesAreRecorded`, `GoneConnectionsHoldNothing`.

*Assets.* `AssetsHaveFiles`, `ReadersFindFiles`, both but for what a failed
cleanup removed.

*TLS.* `InstallsAtomically` (the refinement of `TlsSuite`), `BackupsSuffice` (under
a PENDING journal rollback has all it needs), `LeftoversResolved`, each with its
exception for a stray journal.

Some properties name an exception by a history variable: `unclaimed`, `raced`,
`late`, `stuck`, `lost`, `stray`, and `CompletedMeansConverted` asks that the
connection is `present`. Each stands for a case the code does not prevent. The
hazard of that case is therefore recorded in `PROJECT.json` and not caught; what
the property shows is that the case is the only one.

*Service.* `AtRestConsistent`, `PairSurvives`, `CustomerPairStays`, `OffIsSilent`,
`ListenersServeRotated`, `StopEnds`.

### Fairness

*Captures and enhancement*: weak fairness of every worker: threads are
scheduled, the wait for a capture has a timeout (`capture_task_service.cpp`
467-485), steps and conversions return. Clients are not fair: nobody has to
send a request. *TLS*: the calls are repeated and the faults run out; the
rotation thread calls again at its interval. *Devices*: weak fairness of the
io thread's current handler and of a removal report under way. *Scans*: weak
fairness of the io thread's current request, strong fairness of a scan thread,
which competes for the provider's mutex with a client that may cancel again and
again: a mutex that is free again and again is got in the end. *Viewers*: weak
fairness of the video io thread, which runs what was posted and sees closed
connections. *Service*: weak fairness of the main thread, of the monitor thread
(its timed wait ends) and of the certificate calls either makes; nobody has to
start or stop the service. The other runs claim no liveness.

## 4. Findings

Each of these is a run with a counterexample; `PROJECT.json` quotes the line the
code departs from.

1. `capture_hardgrab`: a hard grab takes only the cool-down, but its worker
   erases the device's capture window. If staging takes longer than the
   cool-down, a second manual capture starts beside the first.
2. `tls_reload_ids`: `Stop` forgets the connections before their close handlers
   can run and the new listener numbers from 1, so the first client after a
   reload has the session, devices and streams of an old one.

Seen while modelling, in behaviours the properties of the runs except or do not
look at:

- `runtime/sdk_tls_file_transaction.h:352`: the COMPLETE journal is in place when the
  fsync of its directory fails. The commit then rolls the files back under it
  (line 728), and a crash half-way leaves a mixed pair the next recovery keeps,
  where CHANGELOG.md:10 speaks of credentials recovered as one validated set. The
  run takes these steps; `InstallsAtomically` excepts exactly the journal a second
  fault leaves behind (`stray`).
- `cas:6367`: when the provider's `CleanupTemp` fails, the handler returns before
  any table is cleared, although the provider removes two directories one after
  the other. The index, and tasks that completed, may name files that are gone;
  `AssetsHaveFiles`, `ReadersFindFiles` and `CompletedHasOutput` except these.
- `capture_task_service.cpp:590`: every kind that begins with `final_` is taken for
  a page of the enhancement. With `thumbnail_final`, which is the default, the
  provider gets the thumbnails among the pages, and its results replace all assets
  as pages. `EnhancedFromAllPages` says that no page is missing, not that only
  pages are there.
- `cas:4236`: `video.stop` of another connection leaves a binding, and the next
  `video.start` answers with its stale stream id.
- `runtime/sdk_app.cpp:581`: a request handled between `ShutdownActiveSessions` and
  the end of the server opens a device nobody closes.
- `cas:6280`: `twain.scan_get` stores the "converting" it took over after the event
  has stored the result; every later poll finds the conversion in progress, and
  cleanup stays busy.
- `providers/mock/mock_provider_factory.cpp:2354`: the thread of a cancelled mock
  scan reports with `mu_` held and waits for the lifecycle mutex, which a new scan
  request holds while it waits for `mu_`: a deadlock, `LocksCrossed`. `scan_tasks`
  reaches it, and shows that nothing else keeps a scan from ending.
- `runtime/sdk_tls_certificate_manager.cpp:1065`: a customer who replaces the pair
  after `IsManagedLeaf` was read and before the lock is taken has it overwritten.
  The model lets the customer act only while no update runs, so that
  `CustomerPairStays` does not cover this.
- `runtime/sdk_tls_certificate_manager.cpp:803`: when the old key could not be
  moved aside, the undo deletes it. `PairSurvives` excepts that fault.
- `cas:5846`: `sane.scan_get` of a scan the provider still knows after a cleanup
  registers its deleted pages again. `AssetsHaveFiles` excepts that.

## 5. Proofs

Every theorem holds for constants of any size; the assumptions are the named
`ASSUME`s of the modules (bounds are naturals, null values lie outside their
sets, `"io"` names no upload and no scan), which TLC evaluates in the runs.

**`CaptureTaskProofs`** (any connections, devices and number of tasks)

| Theorem | States |
|---|---|
| `TypeCorrect` | `TypeOK`; no session counter goes below zero |
| `WorkersNeverOrphaned` | `WorkersFindTheirTask` |
| `HistoryKept` | `TaskHistory` |
| `WindowsNeverLeak` | `WindowHasOwner` |
| `CapturesExclude` | `ExclusiveManualCapture` |
| `ImagesKept` | `ImageKept` |
| `ProcessingSerial` | `ProcessingIsSerial` |
| `SummariesAgree` | `SummaryAgrees` |

None of the properties is inductive. `BaseInv` ties the three states a client
sees (`status`, `acquisition`, `processing`) to the place where the task's
worker is (`TaskPhase`), says that a started task is registered and marked as
active until it ends (`Registered`), that ids not drawn are unused (`Drawn`),
what the holder of the lifecycle mutex knows (`LifecycleHolder`: a cleanup has
seen every registered task ended), that queues hold captured tasks of their
device, each once (`QueuesSound`), and that a processing worker has a task of
its own (`WorkersSound`). Each action has a lemma that it keeps `BaseInv`. The
hazard of cleanup is resolved by `Registered` with `LifecycleHolder`: what a
worker holds has not ended, so a cleanup that saw every task ended meets no
worker, and none appears while it holds the mutex. The capture windows need
`WindowMoves`: a step leaves windows and claimants alone, gives a free window to
a new capture, or ends one capture and frees its device. `WindowHasOwner` is
invariant for all devices because a hard grab can only free a window too
early, never keep one; exclusion needs `WindowHeld`, which holds where no hard
grab does that. `ServingInv` says that a device with queued work is marked as
served, that a marked device has a live worker, and that two live workers never
serve one device; a worker lives until the critical section in which it finds the
queue empty and takes the mark away. `CountedInv` is `SummaryAgrees` with a name for
each set of tasks that is counted; a step moves at most one task from one set to
another, which changes two cardinalities by one.

**`VideoViewersProofs`**

| Theorem | States |
|---|---|
| `SessionsWellFormed` | `TypeOK` of `Authorization` |
| `OnlyEntitledPass` | `GrantsAreEntitled` |
| `ClosedStayClosed` | `ClosedSessionsRaced` |
| `ViewersRefineSessions` | `VideoSpec => Spec` of `Authorization` |
| `SessionsSafeWithViewers` | both invariants, in the composition |
| `ViewersFollowStreams` | `OnlyLateViewersLinger` |

`AuthInv` adds to the invariants what each thread carries between its steps
(`CallOK`): a feature that waits for a unit was found to need one with the context
read before; a call of the io thread belongs to a connection that is there; an
activation belongs to one that is there or in `raced`. A thread's step changes its
own call only (`OthersKeep`). Every step of `VideoViewers` is a step of
`Authorization` on its variables or leaves them alone, provided that the
connection in `video` is one (`VideoConnOK`), so the invariants carry over.
`VideoInv` states in addition which viewer has its close to come (`LeavingInv`):
a viewer of a stream that is gone has its close due or posted, or was opened in
the gap between validation and opening (`late`); nobody was told of a stream that
is bound but not answered yet (`StartInv`). `ViewersFollowStreams` (`OnlyLateViewersLinger`)
follows.

**`SdkAppProofs`**

| Theorem | States |
|---|---|
| `LeafTypes` | `LeafTypeOK` |
| `LeafAtRest` | `AtRestConsistent` |
| `LeafSurvives` | `PairSurvives` |
| `LeafCustomerStays` | `CustomerPairStays` |
| `ServiceIsUpdater` | `Spec => LeafSpec` |
| `ServiceKeepsPairs` | the three properties, while the service runs |
| `OffStaysSilent` | `OffIsSilent` |
| `ListenersFresh` | `ListenersServeRotated` |

`Inv` says who is under the lock (`LockInv`), where the customer's pair may be
(`CustomerInv`), and at each rename what lies where whatever failed (`StepInv`).
On top of it `QuietInv` follows the pair in use from name to name when nothing
worse than a staged rename failed, and `WholeInv` finds a whole pair when one fault
happened, with `UnmixedInv`: one fault never leaves halves of two pairs in use. `ServiceIsUpdater`
goes action by action: the threads of the service make the calls of one updater
and touch the files in no other way. `OffInv` bounds the running listeners by
where the main thread is, and the monitor exists only between the end of `Start`
and the join. For the listeners, `NewerInv` says that the pair in use and the one
an update would restore are never older than the one last rotated to, and
`ServeInv` that a start, or a round of reloads without a failure, has refreshed
the listeners it has passed.

**`CapturePipelineProofs`** (any number of pages and steps)

| Theorem | States |
|---|---|
| `StagesFollow` | `StagesNameAssets` |
| `CapturesDeliver` | `SucceededDeliversPages` |
| `EnhancementsComplete` | `EnhancedFromAllPages` |

`HeldInv` says that asset ids are only added (`AddAssetIds`) until the
enhancement replaces the list, `InputInv` what the next stage takes as its
input. `DeliverInv` follows the pages: which picture each file has (`FilesInv`),
that the final assets of the list are those of the pages delivered so far, in
their order (`FinalsInv`), hence that the pages read off the list are the
pictures (`PagesInv`), and that what is first given to an enhancement delivers all
of them (`GivenInv`). The pages, and what is given, are read off by a loop over the
list (`CollectUpTo`, a recursive function); leaving out the thumbnails before or
after the loop gives the same pages (`FinalsDeliver`). What the loop computes is
proved without induction: if two such loops over lists that agree differed, there would be a
least round where they do (`LeastNumber`, from the well-foundedness of the
numbers), and each round follows from the one before.

**`TlsFileTransactionProofs`** (any files, commits and faults)

| Theorem | States |
|---|---|
| `TypeCorrect` | `TypeOK` |
| `RollbackFindsBackups` | `BackupsSuffice` |
| `Refinement` | `InstallsAtomically` |

`ControlInv` says what a commit, a rollback and a recovery know at each step
(which entries the journal has, how far the loop is), `DiskInv` what lies in the
directory then: before the first rename everything is as it was, during the
renames a prefix is new, during a rollback a prefix is old again. From it the
content every file would have after a recovery (`Effective`) is computed for
each state (`RecoveredPending`, `RecoveredBackups`); one step only changes it, the
rename that makes the journal COMPLETE, and that is `TlsSuite`'s step. While a
journal is stray and being undone, the same invariant says that the undoing
ends with the files of before the commit (`former`), which is what is shown all
along; a stray journal left behind is excepted in both statements, and section 4
says why it has to be.

**`ImageEnhanceTaskProofs`** (any tasks, pages, pipelines; any scans)

| Theorem | States |
|---|---|
| `TypeCorrect` | `TypeOK` |
| `CompletedKeepsOutput` | `CompletedHasOutput` |
| `CompletedPaysExactly` | `CompletedIsPaid` |
| `OutcomesStay` | `OutcomeIsFinal` |
| `ScanTypeCorrect` | `ScanTypeOK` |
| `SaneScansSettle` | `SaneSettles` |
| `DocumentsConverted` | `CompletedMeansConverted` |
| `TwainStaysBusy` | `TwainBusyUntilWritten` |

For the enhancements, `TaskInv` ties the status to the worker's place
(`StatusPhase`), keeps a task with a worker registered and its files on disk, a
failed cleanup being refused beside workers like any other (`Registered`), and says what has been charged at each place (`Paid`): nothing
before the confirmation, in the confirmation each capability that is not in
`unpaid`. For the scans, `ScanInv` first says where each thread can be and where
its event returns to (`ThreadPlace`, `IoPlace`, `KindPlace`) and who holds the two
locks there (`StorageInv`, `ProvMuInv`). On top of it a snapshot, wherever it is
carried, is never ahead of the provider's (`SnapInv`, `TwainInv`), and the end of
a SANE scan is stored last (`SettleInv`): `CancelScan` holds the provider's mutex
until its event has been stored, so the scan cannot end with the older snapshot
still on its way, and while the event of the scan's own thread waits for the
lifecycle lock, nobody else finds an unfinished snapshot to store. Each action
has a lemma that says what it changes (`EnterDoes` to `WaitDoes`), each conjunct
one that every action keeps it.

**`DeviceSessionProofs`** (any connections, streams and devices; any sources)

| Theorem | States |
|---|---|
| `TypeCorrect` | `TypeOK` |
| `ClosedReleased` | `ClosedHoldNothing` |
| `OpenDevicesHeld` | `OpenDevicesAreHeld` |
| `PreviewsStoppable` | `PreviewsCanBeStopped` |
| `CleanWithoutReload` | `NewConnectionsStartClean`, if not `TlsEnabled` |
| `ScannerTypeCorrect` | `ScannerTypeOK` |
| `SourcesRecorded` | `OpenSourcesAreRecorded` |
| `ConnectionsLeaveNothing` | `GoneConnectionsHoldNothing` |

`HandlerInv` is what a handler at its place knows, `ReleaseInv` the order in which
a close handler takes bindings and devices, `HoldersInv` that only a connection of
the server, or one being released, holds anything. `HeldInv` names for every open
device the one who will close it, `PreviewInv` that no device is closed before its
preview. `CleanWithoutReload` proves the statement finding 2 refutes from the one
hypothesis that the listener is never reloaded (`FreshInv`: ids not drawn hold
nothing), so the reload is its only cause. In the last part `CleanupInv` says how far the running cleanup is,
`WatchInv` and `RecordInv` what it has left behind.

**`MediaAssetsProofs`** (any connections, uploads, downloads and tasks)

| Theorem | States |
|---|---|
| `TypeCorrect` | `TypeOK` |
| `AssetsOnDisk` | `AssetsHaveFiles` |
| `DownloadsFindFiles` | `ReadersFindFiles` |

`LockInv` ties the lifecycle lock to the places of the threads that take it;
`IoInv`, `UploadInv` and `ScanInv` say that a file about to be registered exists or
is `lost`. Only a cleanup could change that: an upload excludes it with the lock, a
command runs on the same thread, and the pages of a scan stay on disk until a
cleanup has let the service forget the scan. A cleanup that fails takes from
`files` only what nobody names or what it puts into `lost` (`CleanupLoses`), and a
file leaves `lost` only by being written (`LostStay`), so "on disk or lost" is
kept by every step; a download follows the asset it resolved (`ReaderInv`).

Only model-checked: the liveness properties (`StartedTasksEnd`, `WorkersExit`,
`CleanupEnds`, `ScansEnd`, `ClosedViewersLeave`, `StopEnds`, `LeftoversResolved`),
since liveness under fairness and ENABLED are beyond this prover. Induction over
data is beyond it, too; `CapturePipelineProofs` does with least numbers instead.

## 6. Plan

What would come next, by weight:

1. What task services have in common (accepted, running, one outcome) as one
   abstract specification implemented by `CaptureTask` and `ImageEnhanceTask`,
   step by step.
2. The safety half of the liveness properties: what a waiting thread waits for is
   always held by one that can move (the lock order of `ScanTasks`, `SdkApp` and
   `DeviceSession` as invariants).
3. Composition of `Authorization` with the start of a capture: a unit charged
   for a task that never starts (`cas:2828`).
4. The order of events a client sees (`capture_task_service.cpp:745`).

New modules take their parameters as constants with named assumptions, have one
action per operation and no RECURSIVE operator, so that they can be proved
about. Runs stay at two or three actors of each kind; components that share
state are composed in one run rather than given a run each.

## 7. Not modelled

- Events to clients and their order (`PublishSessionUpdate`, `PublishEvent`):
  what is sent is left out everywhere.
- Destructors and the joining of workers at exit.
- A capture that ends after its timeout: the code ignores the late result.
- Image contents, formats, paths and messages; contents of certificates.
- Options, profiles and properties of devices and scanners: reads and writes
  that go through to a provider. `sane.open` leaves no record in the service.
- The branch of `CaptureRaw` that asks a device: a worker always captures before.
- macOS installation of a rotated pair, beyond the file transaction it uses.
- Loss of the page cache in a power failure (the transaction's fsyncs matter
  there only).
- HTTP routing, configuration parsing, runtime records, admin views and the
  facades: sequential code without shared state. The private Windows provider is
  an adapter to closed libraries. Front ends, examples and `third_party` are not
  part of the service.
