---------------------------- MODULE CaptureTask ----------------------------
(***************************************************************************)
(* CaptureTaskService (application/capture_task_service.cpp): the life of  *)
(* a capture task from its reservation by the command handler or by a      *)
(* hard-grab key event, through the capture worker, to the per-device      *)
(* processing queue and its worker, together with the callers that decide  *)
(* in which order the service is entered (HandleCaptureTake,               *)
(* BuildHardGrabPayload, HandleStorageCleanupTemp).                        *)
(*                                                                         *)
(* Every action is one critical section of CaptureTaskService::mu_, or one *)
(* step taken outside it.  The callers hold storage_lifecycle_mu_ from     *)
(* ReserveTask to StartReservedTask/AbortReservedTask and for the whole of *)
(* a cleanup: `lifecycle' is that mutex.                                   *)
(*                                                                         *)
(* A capture worker is named by its task; a processing worker by the task  *)
(* whose enqueueing spawned it.  The clock is abstract: a cool-down may    *)
(* end at any moment after it began.                                       *)
(***************************************************************************)
EXTENDS Naturals, Sequences, FiniteSets

CONSTANTS
  Conns,            \* command connections
  Devices,          \* device ids
  HardGrabDevices,  \* the devices with a hard-grab key
  MaxTasks          \* bound on next_task_seq_, for model checking

ASSUME CaptureAssumption ==
  /\ Conns # {} /\ Devices # {}
  /\ HardGrabDevices \subseteq Devices
  /\ MaxTasks \in Nat

TaskId == 1..MaxTasks
NoTask == 0

VARIABLES
  nextTaskSeq,       \* next_task_seq_
  known,             \* the keys of tasks_ and requests_
  request,           \* requests_: connection, device and source of a task
  status, acquisition, processing,  \* the three states of a CaptureTaskSnapshot
  activeCapture,     \* active_capture_devices_
  activeProcessing,  \* active_processing_devices_
  coolingDown,       \* devices whose capture_cooldown_until_ is in the future
  queue,             \* processing_queues_
  activeWorkers,     \* active_worker_task_ids_
  summary,           \* session_summaries_
  lifecycle,         \* storage_lifecycle_mu_: who holds it and how far it got
  handoff,           \* the task between ReserveTask and Start/AbortReservedTask
  capturePc,         \* where RunCaptureTask of a task is
  processPc,         \* where the RunProcessingQueue spawned by a task is
  processTask,       \* the task that worker is processing
  onDisk             \* tasks whose image file exists under the work directory

serviceVars == <<nextTaskSeq, known, request, status, acquisition, processing,
                 activeCapture, activeProcessing, coolingDown, queue,
                 activeWorkers, summary>>
callerVars == <<lifecycle, handoff>>
workerVars == <<capturePc, processPc, processTask>>
vars == <<serviceVars, callerVars, workerVars, onDisk>>

Requests == [conn : Conns, device : Devices, source : {"manual", "hardgrab"}]
Terminal == {"succeeded", "failed"}
NoCounts == [captured |-> 0, processed |-> 0, failed |-> 0, pending |-> 0]
DeviceOf(t) == request[t].device

Init ==
  /\ nextTaskSeq = 1
  /\ known = {}
  /\ request = [t \in TaskId |-> CHOOSE r \in Requests : TRUE]
  /\ status = [t \in TaskId |-> "none"]
  /\ acquisition = [t \in TaskId |-> "none"]
  /\ processing = [t \in TaskId |-> "none"]
  /\ activeCapture = {}
  /\ activeProcessing = {}
  /\ coolingDown = {}
  /\ queue = [d \in Devices |-> <<>>]
  /\ activeWorkers = {}
  /\ summary = [c \in Conns |-> [d \in Devices |-> NoCounts]]
  /\ lifecycle = "free"
  /\ handoff = NoTask
  /\ capturePc = [t \in TaskId |-> "none"]
  /\ processPc = [t \in TaskId |-> "none"]
  /\ processTask = [t \in TaskId |-> NoTask]
  /\ onDisk = {}

-----------------------------------------------------------------------------
(* The command handler and the device-action callback.                     *)

\* Mutant: a running capture outlives its cool-down unnoticed.
RefusedByCooldownOnly(d) == d \in coolingDown

\* ReserveTask refuses a device whose physical capture is running
\* (DeviceBusy) before it looks at the cool-down (RateLimited).
Refused(d) == d \in activeCapture \/ d \in coolingDown

\* A refused reservation has used up a task id and changes nothing else.
RefuseTask(d) ==
  /\ lifecycle = "free"
  /\ nextTaskSeq \in TaskId
  /\ Refused(d)
  /\ nextTaskSeq' = nextTaskSeq + 1
  /\ UNCHANGED <<known, request, status, acquisition, processing, activeCapture,
                 activeProcessing, coolingDown, queue, activeWorkers, summary>>
  /\ UNCHANGED <<callerVars, workerVars, onDisk>>

\* A manual capture takes the device's capture window, a hard grab (whose
\* image the provider has already written) only starts the cool-down.
ReserveTask(c, d, source) ==
  LET t == nextTaskSeq IN
  /\ lifecycle = "free"
  /\ nextTaskSeq \in TaskId
  /\ source = "hardgrab" => d \in HardGrabDevices
  /\ ~Refused(d)
  /\ nextTaskSeq' = nextTaskSeq + 1
  /\ known' = known \cup {t}
  /\ request' = [request EXCEPT ![t] = [conn |-> c, device |-> d, source |-> source]]
  /\ status' = [status EXCEPT ![t] = "queued"]
  /\ acquisition' = [acquisition EXCEPT ![t] = "queued"]
  /\ processing' = [processing EXCEPT ![t] = "not_started"]
  /\ activeCapture' = IF source = "manual" THEN activeCapture \cup {d} ELSE activeCapture
  /\ coolingDown' = coolingDown \cup {d}
  /\ onDisk' = IF source = "hardgrab" THEN onDisk \cup {t} ELSE onDisk
  /\ lifecycle' = "handoff"
  /\ handoff' = t
  /\ UNCHANGED <<activeProcessing, queue, activeWorkers, summary, workerVars>>

\* What AbortReservedTask and a failed thread start undo.
ForgetReservation(t) ==
  /\ known' = known \ {t}
  /\ activeCapture' = activeCapture \ {DeviceOf(t)}
  /\ coolingDown' = coolingDown \ {DeviceOf(t)}
  /\ lifecycle' = "free"
  /\ handoff' = NoTask
  /\ UNCHANGED <<nextTaskSeq, request, status, acquisition, processing,
                 activeProcessing, queue, activeWorkers, summary, workerVars, onDisk>>

\* ConsumeQuota refused: the caller aborts the reservation.
AbortReservedTask ==
  /\ lifecycle = "handoff"
  /\ handoff \in known
  /\ acquisition[handoff] = "queued"
  /\ ForgetReservation(handoff)

\* The quota is consumed but no thread can be started.
StartReservedTaskFails ==
  /\ lifecycle = "handoff"
  /\ handoff \in known
  /\ acquisition[handoff] = "queued"
  /\ ForgetReservation(handoff)

\* Mutant: the started worker is not registered.
StartUnregistered ==
  /\ lifecycle = "handoff"
  /\ handoff \in known
  /\ capturePc' = [capturePc EXCEPT ![handoff] = "spawned"]
  /\ lifecycle' = "free"
  /\ handoff' = NoTask
  /\ UNCHANGED <<serviceVars, processPc, processTask, onDisk>>

StartReservedTask ==
  /\ lifecycle = "handoff"
  /\ handoff \in known
  /\ acquisition[handoff] = "queued"
  /\ activeWorkers' = activeWorkers \cup {handoff}
  /\ capturePc' = [capturePc EXCEPT ![handoff] = "spawned"]
  /\ lifecycle' = "free"
  /\ handoff' = NoTask
  /\ UNCHANGED <<nextTaskSeq, known, request, status, acquisition, processing,
                 activeCapture, activeProcessing, coolingDown, queue, summary,
                 processPc, processTask, onDisk>>

CooldownEnds(d) ==
  /\ d \in coolingDown
  /\ coolingDown' = coolingDown \ {d}
  /\ UNCHANGED <<nextTaskSeq, known, request, status, acquisition, processing,
                 activeCapture, activeProcessing, queue, activeWorkers, summary>>
  /\ UNCHANGED <<callerVars, workerVars, onDisk>>

-----------------------------------------------------------------------------
(* RunCaptureTask.                                                         *)

\* The early return of a worker that finds its task gone.
CaptureWorkerGivesUp(t) ==
  /\ capturePc' = [capturePc EXCEPT ![t] = "exited"]
  /\ UNCHANGED <<serviceVars, callerVars, processPc, processTask, onDisk>>

BeginCapture(t) ==
  /\ capturePc[t] = "spawned"
  /\ IF t \in known
     THEN /\ status' = [status EXCEPT ![t] = "running"]
          /\ acquisition' = [acquisition EXCEPT ![t] = "capturing"]
          /\ capturePc' = [capturePc EXCEPT ![t] = "acquiring"]
          /\ UNCHANGED <<nextTaskSeq, known, request, processing, activeCapture,
                         activeProcessing, coolingDown, queue, activeWorkers, summary>>
          /\ UNCHANGED <<callerVars, processPc, processTask, onDisk>>
     ELSE CaptureWorkerGivesUp(t)

\* CaptureRaw returns an image: that of the hard-grab event, or the one the
\* provider has written into the task's raw directory.
AcquireImage(t) ==
  /\ capturePc[t] = "acquiring"
  /\ capturePc' = [capturePc EXCEPT ![t] = "staging"]
  /\ onDisk' = IF request[t].source = "manual" THEN onDisk \cup {t} ELSE onDisk
  /\ UNCHANGED <<serviceVars, callerVars, processPc, processTask>>

\* The provider reports an error or throws, or the wait times out.
AcquireFails(t) ==
  /\ capturePc[t] = "acquiring"
  /\ request[t].source = "manual"
  /\ capturePc' = [capturePc EXCEPT ![t] = "failing"]
  /\ UNCHANGED <<serviceVars, callerVars, processPc, processTask, onDisk>>

\* StageCapturedRaw cannot copy the original or the laser image.
StageFails(t) ==
  /\ capturePc[t] = "staging"
  /\ capturePc' = [capturePc EXCEPT ![t] = "failing"]
  /\ UNCHANGED <<serviceVars, callerVars, processPc, processTask, onDisk>>

\* Mutant: a captured task is not counted as pending.
BumpWithoutPending(t, captured, processed, failed, pending) ==
  [summary EXCEPT ![request[t].conn][request[t].device].captured = @ + captured,
                  ![request[t].conn][request[t].device].failed = @ + failed]

Bump(t, captured, processed, failed, pending) ==
  LET r == request[t]
      s == summary[r.conn][r.device]
  IN  [summary EXCEPT ![r.conn][r.device] =
         [captured |-> s.captured + captured, processed |-> s.processed + processed,
          failed |-> s.failed + failed, pending |-> s.pending + pending]]

\* StageCapturedRaw succeeds and the task enters its device's processing
\* queue; the first task of an idle device also starts the device's
\* processing worker.  If that thread cannot be started the task leaves the
\* queue again and its worker goes on to fail it.
EnqueueCaptured(t, spawned) ==
  LET d == DeviceOf(t)
      spawn == d \notin activeProcessing
  IN
  /\ capturePc[t] = "staging"
  /\ t \in onDisk
  /\ ~spawned => spawn
  /\ IF t \in known
     THEN /\ acquisition' = [acquisition EXCEPT ![t] = "captured"]
          /\ processing' = [processing EXCEPT ![t] = "queued"]
          /\ activeCapture' = activeCapture \ {d}
          /\ summary' = Bump(t, 1, 0, 0, 1)
          /\ queue' = IF spawned THEN [queue EXCEPT ![d] = Append(@, t)] ELSE queue
          /\ activeProcessing' = IF spawned THEN activeProcessing \cup {d} ELSE activeProcessing
          /\ processPc' = IF spawned /\ spawn THEN [processPc EXCEPT ![t] = "polling"] ELSE processPc
          /\ capturePc' = [capturePc EXCEPT ![t] = IF spawned THEN "exited" ELSE "unprocessed"]
          /\ UNCHANGED <<nextTaskSeq, known, request, status, coolingDown, activeWorkers>>
          /\ UNCHANGED <<callerVars, processTask, onDisk>>
     ELSE CaptureWorkerGivesUp(t)

\* Mutant: the failure path forgets the capture window.
FailureKeepsWindow(t) ==
  /\ capturePc[t] = "failing"
  /\ t \in known
  /\ status' = [status EXCEPT ![t] = "failed"]
  /\ acquisition' = [acquisition EXCEPT ![t] = "failed"]
  /\ processing' = [processing EXCEPT ![t] = "skipped"]
  /\ activeWorkers' = activeWorkers \ {t}
  /\ summary' = Bump(t, 0, 0, 1, 0)
  /\ capturePc' = [capturePc EXCEPT ![t] = "exited"]
  /\ UNCHANGED <<nextTaskSeq, known, request, activeCapture, activeProcessing,
                 coolingDown, queue, callerVars, processPc, processTask, onDisk>>

CompleteCaptureFailure(t) ==
  /\ capturePc[t] = "failing"
  /\ IF t \in known
     THEN /\ status' = [status EXCEPT ![t] = "failed"]
          /\ acquisition' = [acquisition EXCEPT ![t] = "failed"]
          /\ processing' = [processing EXCEPT ![t] = "skipped"]
          /\ activeCapture' = activeCapture \ {DeviceOf(t)}
          /\ activeWorkers' = activeWorkers \ {t}
          /\ summary' = Bump(t, 0, 0, 1, 0)
          /\ capturePc' = [capturePc EXCEPT ![t] = "exited"]
          /\ UNCHANGED <<nextTaskSeq, known, request, activeProcessing, coolingDown, queue>>
          /\ UNCHANGED <<callerVars, processPc, processTask, onDisk>>
     ELSE CaptureWorkerGivesUp(t)

\* The counters once a task has left the pending ones.
Processed(s, outcome) ==
  [captured |-> s.captured,
   processed |-> IF outcome = "succeeded" THEN s.processed + 1 ELSE s.processed,
   failed |-> IF outcome = "succeeded" THEN s.failed ELSE s.failed + 1,
   pending |-> IF s.pending > 0 THEN s.pending - 1 ELSE s.pending]

\* The critical section of CompleteProcessingTask, run by a processing worker
\* or by a capture worker whose processing worker could not be started.
CompleteProcessingTask(t, outcome) ==
  IF t \in known
  THEN /\ status' = [status EXCEPT ![t] = outcome]
       /\ processing' = [processing EXCEPT ![t] = outcome]
       /\ activeWorkers' = activeWorkers \ {t}
       /\ summary' = [summary EXCEPT ![request[t].conn][request[t].device] =
                        Processed(@, outcome)]
       /\ UNCHANGED <<nextTaskSeq, known, request, acquisition, activeCapture,
                      activeProcessing, coolingDown, queue>>
  ELSE UNCHANGED serviceVars

FailUnprocessed(t) ==
  /\ capturePc[t] = "unprocessed"
  /\ CompleteProcessingTask(t, "failed")
  /\ capturePc' = [capturePc EXCEPT ![t] = "exited"]
  /\ UNCHANGED <<callerVars, processPc, processTask, onDisk>>

-----------------------------------------------------------------------------
(* RunProcessingQueue; w is the task whose enqueueing spawned the worker.  *)

\* Mutant: the exiting worker leaves its device marked as served.
StopStillServing(w) ==
  /\ processPc[w] = "polling"
  /\ queue[DeviceOf(w)] = <<>>
  /\ processPc' = [processPc EXCEPT ![w] = "exited"]
  /\ UNCHANGED <<serviceVars, callerVars, capturePc, processTask, onDisk>>

\* The worker finds the queue empty and gives up the device in the same
\* critical section.
StopProcessing(w) ==
  /\ processPc[w] = "polling"
  /\ queue[DeviceOf(w)] = <<>>
  /\ activeProcessing' = activeProcessing \ {DeviceOf(w)}
  /\ processPc' = [processPc EXCEPT ![w] = "exited"]
  /\ UNCHANGED <<nextTaskSeq, known, request, status, acquisition, processing,
                 activeCapture, coolingDown, queue, activeWorkers, summary>>
  /\ UNCHANGED <<callerVars, capturePc, processTask, onDisk>>

\* Mutant: the task is read but stays in the queue.
StillQueued(d) == queue

OldestQueued(d) == Head(queue[d])
WithoutOldest(d) == [queue EXCEPT ![d] = Tail(@)]

\* The worker takes the oldest task; one that is no longer known is skipped.
TakeFromQueue(w) ==
  LET d == DeviceOf(w)
      t == OldestQueued(d)
  IN
  /\ processPc[w] = "polling"
  /\ queue[d] # <<>>
  /\ queue' = WithoutOldest(d)
  /\ IF t \in known
     THEN /\ processing' = [processing EXCEPT ![t] = "running"]
          /\ processPc' = [processPc EXCEPT ![w] = "running"]
          /\ processTask' = [processTask EXCEPT ![w] = t]
     ELSE UNCHANGED <<processing, processPc, processTask>>
  /\ UNCHANGED <<nextTaskSeq, known, request, status, acquisition, activeCapture,
                 activeProcessing, coolingDown, activeWorkers, summary>>
  /\ UNCHANGED <<callerVars, capturePc, onDisk>>

\* The pipeline succeeds, fails or throws; without the original it fails.
FinishProcessing(w, outcome) ==
  LET t == processTask[w] IN
  /\ processPc[w] = "running"
  /\ outcome = "succeeded" => t \in onDisk
  /\ CompleteProcessingTask(t, outcome)
  /\ processPc' = [processPc EXCEPT ![w] = "polling"]
  /\ processTask' = [processTask EXCEPT ![w] = NoTask]
  /\ UNCHANGED <<callerVars, capturePc, onDisk>>

-----------------------------------------------------------------------------
(* storage.cleanup_temp: ActiveTaskCount, the provider's CleanupTemp, then *)
(* ClearFinishedTasks, all under storage_lifecycle_mu_.                    *)

\* Mutant: a reserved task is not yet active.
RunningTasks == {t \in known : status[t] = "running"}

ActiveTasks == {t \in known : status[t] \notin Terminal}

\* The try_lock succeeds and no task is active.
BeginCleanup ==
  /\ lifecycle = "free"
  /\ ActiveTasks = {}
  /\ lifecycle' = "cleaning"
  /\ UNCHANGED <<serviceVars, handoff, workerVars, onDisk>>

\* The storage provider empties the work directory.
CleanupTemp ==
  /\ lifecycle = "cleaning"
  /\ onDisk' = {}
  /\ lifecycle' = "clearing"
  /\ UNCHANGED <<serviceVars, handoff, workerVars>>

\* The storage provider refuses or fails: nothing is cleared.  It may have removed a part of
\* the files; they are all of ended tasks, and nothing in this module looks at those again.
CleanupTempFails ==
  /\ lifecycle = "cleaning"
  /\ lifecycle' = "free"
  /\ UNCHANGED <<serviceVars, handoff, workerVars, onDisk>>

ClearFinishedTasks ==
  /\ lifecycle = "clearing"
  /\ known' = known \cap activeWorkers
  /\ lifecycle' = "free"
  /\ UNCHANGED <<nextTaskSeq, request, status, acquisition, processing, activeCapture,
                 activeProcessing, coolingDown, queue, activeWorkers, summary>>
  /\ UNCHANGED <<handoff, workerVars, onDisk>>

-----------------------------------------------------------------------------
\* capture.take, once its request and the session are accepted.
HandleCaptureTake(c, d) == RefuseTask(d) \/ ReserveTask(c, d, "manual")

\* The event of a hard-grab key whose image was captured asks for a task the
\* same way, and is refused the same way.
BuildHardGrabPayload(c, d) == RefuseTask(d) \/ ReserveTask(c, d, "hardgrab")

\* What follows in both handlers: the quota, and the thread.
HandOff == AbortReservedTask \/ StartReservedTaskFails \/ StartReservedTask

CallerStep ==
  \/ \E c \in Conns, d \in Devices : HandleCaptureTake(c, d) \/ BuildHardGrabPayload(c, d)
  \/ HandOff
  \/ \E d \in Devices : CooldownEnds(d)
  \/ BeginCleanup
  \/ CleanupTemp
  \/ CleanupTempFails
  \/ ClearFinishedTasks

CaptureStep(t) ==
  \/ BeginCapture(t)
  \/ AcquireImage(t)
  \/ AcquireFails(t)
  \/ StageFails(t)
  \/ \E spawned \in BOOLEAN : EnqueueCaptured(t, spawned)
  \/ CompleteCaptureFailure(t)
  \/ FailUnprocessed(t)

ProcessStep(w) ==
  \/ StopProcessing(w)
  \/ TakeFromQueue(w)
  \/ \E outcome \in Terminal : FinishProcessing(w, outcome)

Next ==
  \/ CallerStep
  \/ \E t \in TaskId : CaptureStep(t) \/ ProcessStep(t)

\* Threads are scheduled, the wait in CaptureRaw ends by its timeout, and the
\* pipeline returns: every worker that can take a step eventually takes one.
Fairness == \A t \in TaskId : WF_vars(CaptureStep(t)) /\ WF_vars(ProcessStep(t))

Spec == Init /\ [][Next]_vars /\ Fairness

-----------------------------------------------------------------------------
(* Properties.                                                             *)

CapturePcs == {"none", "spawned", "acquiring", "staging", "failing",
               "unprocessed", "exited"}
ProcessPcs == {"none", "polling", "running", "exited"}
CaptureLive(t) == capturePc[t] \notin {"none", "exited"}
ProcessLive(w) == processPc[w] \in {"polling", "running"}

\* Every variable of the service, its callers and its workers has its type;
\* in particular no counter of a session summary goes below zero.
TypeOK ==
  /\ nextTaskSeq \in 1..(MaxTasks + 1)
  /\ known \subseteq TaskId
  /\ request \in [TaskId -> Requests]
  /\ status \in [TaskId -> {"none", "queued", "running"} \cup Terminal]
  /\ acquisition \in [TaskId -> {"none", "queued", "capturing", "captured", "failed"}]
  /\ processing \in [TaskId -> {"none", "not_started", "queued", "running", "skipped"}
                              \cup Terminal]
  /\ activeCapture \subseteq Devices
  /\ activeProcessing \subseteq Devices
  /\ coolingDown \subseteq Devices
  /\ queue \in [Devices -> Seq(TaskId)]
  /\ activeWorkers \subseteq TaskId
  /\ summary \in [Conns -> [Devices ->
                   [captured : Nat, processed : Nat, failed : Nat, pending : Nat]]]
  /\ lifecycle \in {"free", "handoff", "cleaning", "clearing"}
  /\ handoff \in TaskId \cup {NoTask}
  /\ capturePc \in [TaskId -> CapturePcs]
  /\ processPc \in [TaskId -> ProcessPcs]
  /\ processTask \in [TaskId -> TaskId \cup {NoTask}]
  /\ onDisk \subseteq TaskId

\* The manual captures of a device between their reservation and the end of
\* their acquisition: the time their device's camera is theirs.
Acquiring(d) ==
  {t \in known : /\ DeviceOf(t) = d
                 /\ request[t].source = "manual"
                 /\ acquisition[t] \in {"queued", "capturing"}}

\* The physical capture window belongs to one manual capture at a time:
\* ReserveTask answers DeviceBusy to the second.
ExclusiveCapture == \A d \in Devices : Cardinality(Acquiring(d)) <= 1

\* The same for the devices no hard grab comes from, whatever happens on
\* the other devices.
ExclusiveManualCapture ==
  \A d \in Devices \ HardGrabDevices : Cardinality(Acquiring(d)) <= 1

\* A device is never left busy: whoever holds a capture window is a manual
\* capture that has not ended, so the window is given back on every path
\* (abort, failed thread start, failed capture, captured image).
WindowHasOwner == \A d \in activeCapture : Acquiring(d) # {}

\* No captured task is lost and no device is processed twice at once: a
\* device with queued work has exactly one processing worker, an idle device
\* has none, and at most one of its tasks is being processed.
ProcessingIsSerial ==
  \A d \in Devices :
    LET live == {w \in TaskId : ProcessLive(w) /\ DeviceOf(w) = d}
        running == {t \in TaskId : processing[t] = "running" /\ DeviceOf(t) = d}
    IN /\ Cardinality(live) = IF d \in activeProcessing THEN 1 ELSE 0
       /\ queue[d] # <<>> => d \in activeProcessing
       /\ Cardinality(running) <= 1

\* The early returns of the workers never fire: a task that is being captured,
\* waits in a queue or is being processed is still registered, whatever
\* cleanups have run meanwhile.
WorkersFindTheirTask ==
  /\ \A t \in TaskId : CaptureLive(t) => t \in known /\ t \in activeWorkers
  /\ \A d \in Devices : \A i \in DOMAIN queue[d] :
       queue[d][i] \in known /\ queue[d][i] \in activeWorkers
  /\ \A w \in TaskId : processPc[w] = "running" =>
       processTask[w] \in known /\ processTask[w] \in activeWorkers

\* A cleanup never removes an image a task still needs: the one a hard grab
\* has handed over (the hand-off window ActiveTaskCount speaks of), the one
\* being staged, and the one waiting for or in processing.
ImageKept ==
  \A t \in known :
    \/ /\ request[t].source = "hardgrab"
       /\ acquisition[t] \in {"queued", "capturing"}
    \/ capturePc[t] = "staging"
    \/ processing[t] \in {"queued", "running"}
    => t \in onDisk

\* The counters of capture.session.updated and session.get agree with what
\* has happened to the tasks of the connection and device.
SummaryAgrees ==
  \A c \in Conns, d \in Devices :
    LET mine == {t \in TaskId : /\ t < nextTaskSeq /\ request[t].conn = c
                                /\ DeviceOf(t) = d}
        s == summary[c][d]
        count(P(_)) == Cardinality({t \in mine : P(t)})
    IN /\ s.captured = count(LAMBDA t : acquisition[t] = "captured")
       /\ s.processed = count(LAMBDA t : processing[t] = "succeeded")
       /\ s.failed = count(LAMBDA t : "failed" \in {acquisition[t], processing[t]})
       /\ s.pending = count(LAMBDA t : processing[t] \in {"queued", "running"})

\* A finished task keeps its outcome, and only a finished task, or one that
\* was never started, is forgotten.
TaskHistory ==
  [][\A t \in TaskId :
       /\ status[t] \in Terminal => status'[t] = status[t]
       /\ t \in known \ known' => status[t] \in Terminal \/ t = handoff]_vars

\* Every task whose worker was started ends, and its client hears of it.
StartedTasksEnd == \A t \in TaskId : capturePc[t] = "spawned" ~> status[t] \in Terminal
=============================================================================
