------------------------- MODULE CaptureTaskProofs -------------------------
(* Proofs about CaptureTask.  Part 1: every variable keeps its type.       *)
EXTENDS CaptureTask, TLAPS, FiniteSetTheorems

USE DEF Terminal

LEMMA InitType == Init => TypeOK
<1> SUFFICES ASSUME Init PROVE TypeOK
  OBVIOUS
<1>1. Requests # {}
  <2>1. PICK c \in Conns, d \in Devices : TRUE
    BY CaptureAssumption
  <2>2. [conn |-> c, device |-> d, source |-> "manual"] \in Requests
    BY <2>1 DEF Requests
  <2> QED BY <2>2
<1>2. (CHOOSE r \in Requests : TRUE) \in Requests
  BY <1>1
<1>3. request \in [TaskId -> Requests]
  BY <1>2 DEF Init
<1>4. summary \in [Conns -> [Devices ->
                   [captured : Nat, processed : Nat, failed : Nat, pending : Nat]]]
  BY DEF Init, NoCounts
<1>5. queue \in [Devices -> Seq(TaskId)]
  BY DEF Init
<1> QED BY <1>3, <1>4, <1>5, CaptureAssumption
    DEF Init, TypeOK, CapturePcs, ProcessPcs

LEMMA BumpType ==
  ASSUME TypeOK, NEW t \in TaskId,
         NEW a \in Nat, NEW b \in Nat, NEW c \in Nat, NEW e \in Nat
  PROVE  Bump(t, a, b, c, e) \in [Conns -> [Devices ->
           [captured : Nat, processed : Nat, failed : Nat, pending : Nat]]]
<1> DEFINE r == request[t]
           Counts == [captured : Nat, processed : Nat, failed : Nat, pending : Nat]
           s == summary[r.conn][r.device]
<1>1. r.conn \in Conns /\ r.device \in Devices
  BY DEF TypeOK, Requests
<1>2. s \in Counts
  BY <1>1 DEF TypeOK
<1>3. [captured |-> s.captured + a, processed |-> s.processed + b,
       failed |-> s.failed + c, pending |-> s.pending + e] \in Counts
  BY <1>2
<1> QED BY <1>1, <1>3 DEF Bump, TypeOK

LEMMA CompleteProcessingType ==
  ASSUME TypeOK, NEW t \in TaskId \cup {NoTask}, NEW outcome \in Terminal,
         CompleteProcessingTask(t, outcome)
  PROVE  /\ status' \in [TaskId -> {"none", "queued", "running"} \cup Terminal]
         /\ processing' \in [TaskId -> {"none", "not_started", "queued", "running",
                                        "skipped"} \cup Terminal]
         /\ activeWorkers' \subseteq TaskId
         /\ summary' \in [Conns -> [Devices ->
              [captured : Nat, processed : Nat, failed : Nat, pending : Nat]]]
<1>1. CASE t \notin known
  BY <1>1 DEF CompleteProcessingTask, TypeOK, serviceVars
<1>2. CASE t \in known
  <2> DEFINE r == request[t]
             Counts == [captured : Nat, processed : Nat, failed : Nat, pending : Nat]
             s == summary[r.conn][r.device]
  <2>1. t \in TaskId /\ r.conn \in Conns /\ r.device \in Devices
    BY <1>2 DEF TypeOK, Requests
  <2>2. s \in Counts
    BY <2>1 DEF TypeOK
  <2>3. Processed(s, outcome) \in Counts
    BY <2>2 DEF Processed
  <2>4. summary' \in [Conns -> [Devices -> Counts]]
    <3> DEFINE row == [summary[r.conn] EXCEPT ![r.device] = Processed(s, outcome)]
    <3>1. row \in [Devices -> Counts]
      BY <2>1, <2>3 DEF TypeOK
    <3>2. [summary EXCEPT ![r.conn] = row] \in [Conns -> [Devices -> Counts]]
      BY <2>1, <3>1 DEF TypeOK
    <3>3. summary' = [summary EXCEPT ![r.conn] = row]
      BY <1>2 DEF CompleteProcessingTask
    <3> QED BY <3>2, <3>3
  <2> QED BY <1>2, <2>1, <2>4 DEF CompleteProcessingTask, TypeOK
<1> QED BY <1>1, <1>2

LEMMA NextType == TypeOK /\ [Next]_vars => TypeOK'
<1> SUFFICES ASSUME TypeOK, [Next]_vars PROVE TypeOK'
  OBVIOUS
<1> USE CaptureAssumption DEF CapturePcs, ProcessPcs, serviceVars, callerVars, workerVars
<1>1. ASSUME NEW d \in Devices, RefuseTask(d) PROVE TypeOK'
  BY <1>1 DEF TypeOK, RefuseTask, TaskId
<1>2. ASSUME NEW c \in Conns, NEW d \in Devices, NEW source \in {"manual", "hardgrab"},
             ReserveTask(c, d, source)
      PROVE TypeOK'
  <2>1. [conn |-> c, device |-> d, source |-> source] \in Requests
    BY <1>2 DEF Requests
  <2>2. nextTaskSeq \in TaskId /\ nextTaskSeq' \in 1..(MaxTasks + 1)
    BY <1>2 DEF ReserveTask, TypeOK, TaskId
  <2> QED BY <1>2, <2>1, <2>2 DEF TypeOK, ReserveTask
<1>3. CASE AbortReservedTask
  BY <1>3 DEF TypeOK, AbortReservedTask, ForgetReservation
<1>4. CASE StartReservedTaskFails
  BY <1>4 DEF TypeOK, StartReservedTaskFails, ForgetReservation
<1>5. CASE StartReservedTask
  BY <1>5 DEF TypeOK, StartReservedTask
<1>6. ASSUME NEW d \in Devices, CooldownEnds(d) PROVE TypeOK'
  BY <1>6 DEF TypeOK, CooldownEnds
<1>7. CASE BeginCleanup
  BY <1>7 DEF TypeOK, BeginCleanup
<1>8. CASE CleanupTemp
  BY <1>8 DEF TypeOK, CleanupTemp
<1>9. CASE CleanupTempFails
  BY <1>9 DEF TypeOK, CleanupTempFails
<1>10. CASE ClearFinishedTasks
  BY <1>10 DEF TypeOK, ClearFinishedTasks
<1>11. ASSUME NEW t \in TaskId, CaptureStep(t) PROVE TypeOK'
  <2> USE DEF CaptureWorkerGivesUp
  <2>1. CASE BeginCapture(t)
    BY <2>1 DEF TypeOK, BeginCapture
  <2>2. CASE AcquireImage(t)
    BY <2>2 DEF TypeOK, AcquireImage
  <2>3. CASE AcquireFails(t)
    BY <2>3 DEF TypeOK, AcquireFails
  <2>4. CASE StageFails(t)
    BY <2>4 DEF TypeOK, StageFails
  <2>5. ASSUME NEW spawned \in BOOLEAN, EnqueueCaptured(t, spawned) PROVE TypeOK'
    <3>1. DeviceOf(t) \in Devices
      BY DEF TypeOK, Requests, DeviceOf
    <3>2. Bump(t, 1, 0, 0, 1) \in [Conns -> [Devices ->
            [captured : Nat, processed : Nat, failed : Nat, pending : Nat]]]
      BY BumpType
    <3>3. Append(queue[DeviceOf(t)], t) \in Seq(TaskId)
      BY <3>1 DEF TypeOK
    <3>4. queue' \in [Devices -> Seq(TaskId)]
      <4> DEFINE longer == [queue EXCEPT ![DeviceOf(t)] = Append(@, t)]
      <4>1. longer \in [Devices -> Seq(TaskId)]
        BY <3>1, <3>3 DEF TypeOK
      <4>2. queue \in [Devices -> Seq(TaskId)]
        BY DEF TypeOK
      <4>3. queue' = longer \/ queue' = queue
        BY <2>5 DEF EnqueueCaptured
      <4> QED BY <4>1, <4>2, <4>3
    <3>5. summary' \in [Conns -> [Devices ->
            [captured : Nat, processed : Nat, failed : Nat, pending : Nat]]]
      BY <2>5, <3>2 DEF TypeOK, EnqueueCaptured
    <3>6. /\ capturePc' \in [TaskId -> CapturePcs]
          /\ processPc' \in [TaskId -> ProcessPcs]
      BY <2>5 DEF TypeOK, EnqueueCaptured
    <3>7. /\ acquisition' \in [TaskId -> {"none", "queued", "capturing", "captured", "failed"}]
          /\ processing' \in [TaskId -> {"none", "not_started", "queued", "running", "skipped"}
                                        \cup Terminal]
      BY <2>5 DEF TypeOK, EnqueueCaptured
    <3>8. activeCapture' \subseteq Devices /\ activeProcessing' \subseteq Devices
      BY <2>5, <3>1 DEF TypeOK, EnqueueCaptured
    <3>9. UNCHANGED <<nextTaskSeq, known, request, status, coolingDown, activeWorkers,
                      lifecycle, handoff, processTask, onDisk>>
      BY <2>5 DEF EnqueueCaptured
    <3> QED BY <3>4, <3>5, <3>6, <3>7, <3>8, <3>9 DEF TypeOK
  <2>6. CASE CompleteCaptureFailure(t)
    <3>1. Bump(t, 0, 0, 1, 0) \in [Conns -> [Devices ->
            [captured : Nat, processed : Nat, failed : Nat, pending : Nat]]]
      BY BumpType
    <3>2. /\ status' \in [TaskId -> {"none", "queued", "running"} \cup Terminal]
          /\ acquisition' \in [TaskId -> {"none", "queued", "capturing", "captured", "failed"}]
      BY <2>6 DEF TypeOK, CompleteCaptureFailure
    <3>3. /\ processing' \in [TaskId -> {"none", "not_started", "queued", "running", "skipped"}
                                        \cup Terminal]
          /\ capturePc' \in [TaskId -> CapturePcs]
      BY <2>6 DEF TypeOK, CompleteCaptureFailure, CapturePcs
    <3>4. /\ activeCapture' \subseteq Devices /\ activeWorkers' \subseteq TaskId
          /\ summary' \in [Conns -> [Devices ->
                [captured : Nat, processed : Nat, failed : Nat, pending : Nat]]]
      BY <2>6, <3>1 DEF TypeOK, CompleteCaptureFailure
    <3>5. UNCHANGED <<nextTaskSeq, known, request, activeProcessing, coolingDown, queue,
                      lifecycle, handoff, processPc, processTask, onDisk>>
      BY <2>6 DEF CompleteCaptureFailure
    <3> QED BY <3>2, <3>3, <3>4, <3>5 DEF TypeOK
  <2>7. CASE FailUnprocessed(t)
    <3>1. CompleteProcessingTask(t, "failed")
      BY <2>7 DEF FailUnprocessed
    <3>2. UNCHANGED <<nextTaskSeq, known, request, acquisition, activeCapture,
                      activeProcessing, coolingDown, queue>>
      BY <3>1 DEF CompleteProcessingTask
    <3> QED BY <2>7, <3>1, <3>2, CompleteProcessingType DEF TypeOK, FailUnprocessed
  <2> QED BY <1>11, <2>1, <2>2, <2>3, <2>4, <2>5, <2>6, <2>7 DEF CaptureStep
<1>12. ASSUME NEW w \in TaskId, ProcessStep(w) PROVE TypeOK'
  <2>1. CASE StopProcessing(w)
    BY <2>1 DEF TypeOK, StopProcessing
  <2>2. CASE TakeFromQueue(w)
    <3>1. DeviceOf(w) \in Devices
      BY DEF TypeOK, Requests, DeviceOf
    <3>2. queue[DeviceOf(w)] \in Seq(TaskId) /\ queue[DeviceOf(w)] # <<>>
      BY <2>2, <3>1 DEF TypeOK, TakeFromQueue
    <3>3. Head(queue[DeviceOf(w)]) \in TaskId /\ Tail(queue[DeviceOf(w)]) \in Seq(TaskId)
      BY <3>2
    <3>4. queue' \in [Devices -> Seq(TaskId)]
      BY <2>2, <3>1, <3>3, SMTT(30) DEF TypeOK, TakeFromQueue, WithoutOldest
    <3>5. /\ processPc' \in [TaskId -> ProcessPcs]
          /\ processTask' \in [TaskId -> TaskId \cup {NoTask}]
      <4>1. OldestQueued(DeviceOf(w)) \in TaskId
        BY <3>3 DEF OldestQueued
      <4>2. processPc' \in [TaskId -> ProcessPcs]
        BY <2>2 DEF TypeOK, TakeFromQueue, ProcessPcs
      <4>3. processTask' \in [TaskId -> TaskId \cup {NoTask}]
        <5>1. \/ processTask' = processTask
              \/ processTask' = [processTask EXCEPT ![w] = OldestQueued(DeviceOf(w))]
          BY <2>2 DEF TakeFromQueue
        <5> QED BY <4>1, <5>1 DEF TypeOK
      <4> QED BY <4>2, <4>3
    <3>6. processing' \in [TaskId -> {"none", "not_started", "queued", "running", "skipped"}
                                     \cup Terminal]
      BY <2>2 DEF TypeOK, TakeFromQueue
    <3>7. UNCHANGED <<nextTaskSeq, known, request, status, acquisition, activeCapture,
                      activeProcessing, coolingDown, activeWorkers, summary, lifecycle,
                      handoff, capturePc, onDisk>>
      BY <2>2 DEF TakeFromQueue, callerVars
    <3> QED BY <3>4, <3>5, <3>6, <3>7 DEF TypeOK
  <2>3. ASSUME NEW outcome \in Terminal, FinishProcessing(w, outcome) PROVE TypeOK'
    <3>1. CompleteProcessingTask(processTask[w], outcome) /\ processTask[w] \in TaskId \cup {NoTask}
      BY <2>3 DEF FinishProcessing, TypeOK
    <3>2. UNCHANGED <<nextTaskSeq, known, request, acquisition, activeCapture,
                      activeProcessing, coolingDown, queue>>
      BY <3>1 DEF CompleteProcessingTask
    <3> QED BY <2>3, <3>1, <3>2, CompleteProcessingType DEF TypeOK, FinishProcessing
  <2> QED BY <1>12, <2>1, <2>2, <2>3 DEF ProcessStep
<1>13. CASE UNCHANGED vars
  BY <1>13 DEF TypeOK, vars
<1> QED BY <1>1, <1>2, <1>3, <1>4, <1>5, <1>6, <1>7, <1>8, <1>9, <1>10, <1>11, <1>12, <1>13
    DEF Next, CallerStep, HandleCaptureTake, BuildHardGrabPayload, HandOff

\* The types of the service's state hold for any number of connections,
\* devices and tasks; in particular CompleteProcessingTask never takes a
\* pending counter below zero.
THEOREM TypeCorrect == Spec => []TypeOK
BY InitType, NextType, PTL DEF Spec

-----------------------------------------------------------------------------
(* Part 2: the inductive invariant.  It ties the three states a client     *)
(* sees to the place where the task's worker is, says what the holder of   *)
(* storage_lifecycle_mu_ knows, and what is in the queues.                 *)

\* What the program counter of a capture worker says about its task.
TaskPhase(t) ==
  /\ capturePc[t] = "none" =>
       /\ status[t] \in {"none", "queued"} /\ acquisition[t] \in {"none", "queued"}
       /\ processing[t] \in {"none", "not_started"}
       /\ t \in known => t = handoff
  /\ capturePc[t] = "spawned" =>
       status[t] = "queued" /\ acquisition[t] = "queued" /\ processing[t] = "not_started"
  /\ capturePc[t] \in {"acquiring", "staging", "failing"} =>
       status[t] = "running" /\ acquisition[t] = "capturing" /\ processing[t] = "not_started"
  /\ capturePc[t] = "unprocessed" =>
       status[t] = "running" /\ acquisition[t] = "captured" /\ processing[t] = "queued"
  /\ capturePc[t] = "exited" =>
       \/ /\ status[t] = "running" /\ acquisition[t] = "captured"
          /\ processing[t] \in {"queued", "running"}
       \/ /\ status[t] \in Terminal /\ acquisition[t] \in {"captured", "failed"}
          /\ processing[t] \in {"skipped"} \cup Terminal

\* A started task that has not ended is registered and has its worker's mark.
Registered(t) ==
  capturePc[t] # "none" /\ status[t] \notin Terminal => t \in known /\ t \in activeWorkers

\* Ids not yet drawn are unused; hard grabs come from devices with a key.
Drawn(t) ==
  /\ t >= nextTaskSeq => t \notin known /\ capturePc[t] = "none"
  /\ t \in known /\ request[t].source = "hardgrab" => DeviceOf(t) \in HardGrabDevices

\* The holder of storage_lifecycle_mu_: a hand-off holds a registered task no
\* worker knows yet; a cleanup has seen every registered task ended.
LifecycleHolder ==
  /\ lifecycle = "handoff" =>
       /\ handoff \in known /\ capturePc[handoff] = "none"
       /\ status[handoff] = "queued" /\ acquisition[handoff] = "queued"
       /\ processing[handoff] = "not_started"
  /\ lifecycle # "handoff" => handoff = NoTask
  /\ lifecycle \in {"cleaning", "clearing"} => \A t \in known : status[t] \in Terminal

\* Queued tasks are captured, belong to the queue's device and are queued once.
QueuesSound ==
  \A d \in Devices : \A i \in DOMAIN queue[d] :
    /\ capturePc[queue[d][i]] = "exited" /\ processing[queue[d][i]] = "queued"
    /\ DeviceOf(queue[d][i]) = d
    /\ \A j \in DOMAIN queue[d] : queue[d][i] = queue[d][j] => i = j

\* A running worker has a task of its own, which is in no queue.
WorkersSound ==
  \A w \in TaskId : processPc[w] = "running" =>
    /\ processTask[w] \in TaskId
    /\ capturePc[processTask[w]] = "exited" /\ processing[processTask[w]] = "running"
    /\ \A v \in TaskId : processPc[v] = "running" /\ processTask[v] = processTask[w] => v = w

\* On a device without hard grabs the window is held by its one capture.
WindowHeld ==
  \A d \in Devices \ HardGrabDevices : \A t \in Acquiring(d) :
    d \in activeCapture /\ \A u \in Acquiring(d) : u = t

TaskInv == \A t \in TaskId : TaskPhase(t) /\ Registered(t) /\ Drawn(t)
BaseInv == TypeOK /\ TaskInv /\ LifecycleHolder /\ QueuesSound /\ WorkersSound

LEMMA InitInv == Init => BaseInv
<1> SUFFICES ASSUME Init PROVE BaseInv
  OBVIOUS
<1>1. TypeOK
  BY InitType
<1>2. TaskInv
  BY CaptureAssumption DEF Init, TaskInv, TaskPhase, Registered, Drawn
<1>3. LifecycleHolder
  BY DEF Init, LifecycleHolder
<1>4. QueuesSound
  BY DEF Init, QueuesSound
<1>5. WorkersSound
  BY DEF Init, WorkersSound
<1> QED BY <1>1, <1>2, <1>3, <1>4, <1>5 DEF BaseInv

LEMMA RefuseKeepsInv ==
  ASSUME BaseInv, NEW d \in Devices, RefuseTask(d)
  PROVE  TaskInv' /\ LifecycleHolder' /\ QueuesSound' /\ WorkersSound'
<1> USE DEF BaseInv, TypeOK, RefuseTask,
            serviceVars, callerVars, workerVars, DeviceOf, CaptureLive
<1>1. TaskInv'
  BY DEF TaskInv, TaskPhase, Registered, Drawn, LifecycleHolder
<1>2. LifecycleHolder'
  BY DEF LifecycleHolder, TaskInv, TaskPhase, Registered
<1>3. QueuesSound'
  BY DEF QueuesSound, TaskInv, TaskPhase, Drawn
<1>4. WorkersSound'
  BY DEF WorkersSound, TaskInv, TaskPhase
<1> QED BY <1>1, <1>2, <1>3, <1>4

LEMMA ReserveKeepsInv ==
  ASSUME BaseInv, NEW c \in Conns, NEW d \in Devices, NEW source \in {"manual", "hardgrab"},
         ReserveTask(c, d, source)
  PROVE  TaskInv' /\ LifecycleHolder' /\ QueuesSound' /\ WorkersSound'
<1> USE DEF BaseInv, TypeOK, ReserveTask,
            serviceVars, callerVars, workerVars, DeviceOf, CaptureLive
<1>a. /\ nextTaskSeq \in TaskId /\ nextTaskSeq \notin known
      /\ capturePc[nextTaskSeq] = "none"
      /\ \A u \in TaskId : u >= nextTaskSeq + 1 => u >= nextTaskSeq /\ u # nextTaskSeq
  BY DEF TaskInv, Drawn, TaskId
<1>b. request'[nextTaskSeq] = [conn |-> c, device |-> d, source |-> source]
  BY <1>a
<1>1. TaskInv'
  <2> SUFFICES ASSUME NEW u \in TaskId
               PROVE  TaskPhase(u)' /\ Registered(u)' /\ Drawn(u)'
    BY DEF TaskInv
  <2>1. CASE u = nextTaskSeq
    BY <1>a, <1>b, <2>1 DEF TaskInv, TaskPhase, Registered, Drawn, TaskId
  <2>2. CASE u # nextTaskSeq
    <3>1. u \in known => capturePc[u] # "none"
      BY DEF TaskInv, TaskPhase, LifecycleHolder, NoTask, TaskId
    <3> QED BY <1>a, <2>2, <3>1 DEF TaskInv, TaskPhase, Registered, Drawn
  <2> QED BY <2>1, <2>2
<1>2. LifecycleHolder'
  BY <1>a DEF LifecycleHolder, TaskInv, TaskPhase
<1>3. QueuesSound'
  BY <1>a DEF QueuesSound, TaskInv, TaskPhase, Drawn
<1>4. WorkersSound'
  BY <1>a DEF WorkersSound, TaskInv, TaskPhase
<1> QED BY <1>1, <1>2, <1>3, <1>4

LEMMA AbortKeepsInv ==
  ASSUME BaseInv, AbortReservedTask \/ StartReservedTaskFails
  PROVE  TaskInv' /\ LifecycleHolder' /\ QueuesSound' /\ WorkersSound'
<1> USE DEF BaseInv, TypeOK, AbortReservedTask, StartReservedTaskFails, ForgetReservation,
            serviceVars, callerVars, workerVars, DeviceOf, CaptureLive
<1>1. TaskInv'
  BY DEF TaskInv, TaskPhase, Registered, Drawn, LifecycleHolder
<1>2. LifecycleHolder'
  BY DEF LifecycleHolder, TaskInv, TaskPhase, Registered
<1>3. QueuesSound'
  BY DEF QueuesSound, TaskInv, TaskPhase, Drawn
<1>4. WorkersSound'
  BY DEF WorkersSound, TaskInv, TaskPhase
<1> QED BY <1>1, <1>2, <1>3, <1>4

LEMMA StartKeepsInv ==
  ASSUME BaseInv, StartReservedTask
  PROVE  TaskInv' /\ LifecycleHolder' /\ QueuesSound' /\ WorkersSound'
<1> USE DEF BaseInv, TypeOK, StartReservedTask,
            serviceVars, callerVars, workerVars, DeviceOf, CaptureLive
<1>1. TaskInv'
  BY DEF TaskInv, TaskPhase, Registered, Drawn, LifecycleHolder
<1>2. LifecycleHolder'
  BY DEF LifecycleHolder, TaskInv, TaskPhase, Registered
<1>3. QueuesSound'
  BY DEF QueuesSound, TaskInv, TaskPhase, Drawn
<1>4. WorkersSound'
  BY DEF WorkersSound, TaskInv, TaskPhase
<1> QED BY <1>1, <1>2, <1>3, <1>4

LEMMA CooldownKeepsInv ==
  ASSUME BaseInv, NEW d \in Devices, CooldownEnds(d)
  PROVE  TaskInv' /\ LifecycleHolder' /\ QueuesSound' /\ WorkersSound'
<1> USE DEF BaseInv, TypeOK, CooldownEnds,
            serviceVars, callerVars, workerVars, DeviceOf, CaptureLive
<1>1. TaskInv'
  BY DEF TaskInv, TaskPhase, Registered, Drawn, LifecycleHolder
<1>2. LifecycleHolder'
  BY DEF LifecycleHolder, TaskInv, TaskPhase, Registered
<1>3. QueuesSound'
  BY DEF QueuesSound, TaskInv, TaskPhase, Drawn
<1>4. WorkersSound'
  BY DEF WorkersSound, TaskInv, TaskPhase
<1> QED BY <1>1, <1>2, <1>3, <1>4

LEMMA CleanupKeepsInv ==
  ASSUME BaseInv, BeginCleanup \/ CleanupTemp \/ CleanupTempFails \/ ClearFinishedTasks
  PROVE  TaskInv' /\ LifecycleHolder' /\ QueuesSound' /\ WorkersSound'
<1> USE DEF BaseInv, TypeOK, BeginCleanup, CleanupTemp, CleanupTempFails, ClearFinishedTasks, ActiveTasks,
            serviceVars, callerVars, workerVars, DeviceOf, CaptureLive
<1>1. TaskInv'
  BY DEF TaskInv, TaskPhase, Registered, Drawn, LifecycleHolder
<1>2. LifecycleHolder'
  BY DEF LifecycleHolder, TaskInv, TaskPhase, Registered
<1>3. QueuesSound'
  BY DEF QueuesSound, TaskInv, TaskPhase, Drawn
<1>4. WorkersSound'
  BY DEF WorkersSound, TaskInv, TaskPhase
<1> QED BY <1>1, <1>2, <1>3, <1>4

LEMMA BeginKeepsInv ==
  ASSUME BaseInv, NEW t \in TaskId, BeginCapture(t)
  PROVE  TaskInv' /\ LifecycleHolder' /\ QueuesSound' /\ WorkersSound'
<1> USE DEF BaseInv, TypeOK, BeginCapture, CaptureWorkerGivesUp,
            serviceVars, callerVars, workerVars, DeviceOf, CaptureLive
<1>1. TaskInv'
  BY DEF TaskInv, TaskPhase, Registered, Drawn, LifecycleHolder
<1>2. LifecycleHolder'
  BY DEF LifecycleHolder, TaskInv, TaskPhase, Registered
<1>3. QueuesSound'
  BY DEF QueuesSound, TaskInv, TaskPhase, Drawn
<1>4. WorkersSound'
  BY DEF WorkersSound, TaskInv, TaskPhase
<1> QED BY <1>1, <1>2, <1>3, <1>4

LEMMA AcquireKeepsInv ==
  ASSUME BaseInv, NEW t \in TaskId, AcquireImage(t) \/ AcquireFails(t) \/ StageFails(t)
  PROVE  TaskInv' /\ LifecycleHolder' /\ QueuesSound' /\ WorkersSound'
<1> USE DEF BaseInv, TypeOK, AcquireImage, AcquireFails, StageFails,
            serviceVars, callerVars, workerVars, DeviceOf, CaptureLive
<1>1. TaskInv'
  BY DEF TaskInv, TaskPhase, Registered, Drawn, LifecycleHolder
<1>2. LifecycleHolder'
  BY DEF LifecycleHolder, TaskInv, TaskPhase, Registered
<1>3. QueuesSound'
  BY DEF QueuesSound, TaskInv, TaskPhase, Drawn
<1>4. WorkersSound'
  BY DEF WorkersSound, TaskInv, TaskPhase
<1> QED BY <1>1, <1>2, <1>3, <1>4

LEMMA EnqueueKeepsInv ==
  ASSUME BaseInv, NEW t \in TaskId, NEW spawned \in BOOLEAN, EnqueueCaptured(t, spawned)
  PROVE  TaskInv' /\ LifecycleHolder' /\ QueuesSound' /\ WorkersSound'
<1>1. TaskInv'
  BY DEF BaseInv, TypeOK, EnqueueCaptured, CaptureWorkerGivesUp, serviceVars, callerVars,
         DeviceOf, TaskInv, TaskPhase, Registered, Drawn, LifecycleHolder
<1>2. LifecycleHolder'
  BY DEF BaseInv, TypeOK, EnqueueCaptured, CaptureWorkerGivesUp, serviceVars, callerVars,
         LifecycleHolder, TaskInv, TaskPhase, Registered
<1>3. QueuesSound'
  <2> DEFINE d == DeviceOf(t)
  <2>1. /\ request' = request
        /\ \/ queue' = queue
           \/ queue' = [queue EXCEPT ![d] = Append(queue[d], t)] /\ capturePc'[t] = "exited"
              /\ processing'[t] = "queued"
        /\ \A u \in TaskId : u # t => processing'[u] = processing[u] /\ capturePc'[u] = capturePc[u]
        /\ capturePc[t] = "staging"
    BY DEF BaseInv, TypeOK, EnqueueCaptured, CaptureWorkerGivesUp, serviceVars
  <2>2. d \in Devices /\ queue \in [Devices -> Seq(TaskId)] /\ queue[d] \in Seq(TaskId)
    BY DEF BaseInv, TypeOK, Requests, DeviceOf
  <2>3. \A e \in Devices : \A i \in DOMAIN queue[e] :
          /\ queue[e][i] \in TaskId /\ queue[e][i] # t
          /\ capturePc[queue[e][i]] = "exited" /\ processing[queue[e][i]] = "queued"
          /\ DeviceOf(queue[e][i]) = e
          /\ \A j \in DOMAIN queue[e] : queue[e][i] = queue[e][j] => i = j
    BY <2>1, <2>2 DEF BaseInv, QueuesSound
  <2>4. CASE queue' = queue
    BY <2>1, <2>3, <2>4 DEF QueuesSound, DeviceOf
  <2>5. CASE /\ queue' = [queue EXCEPT ![d] = Append(queue[d], t)]
             /\ capturePc'[t] = "exited" /\ processing'[t] = "queued"
    <3> SUFFICES ASSUME NEW e \in Devices, NEW i \in DOMAIN queue'[e]
                 PROVE  /\ capturePc'[queue'[e][i]] = "exited"
                        /\ processing'[queue'[e][i]] = "queued"
                        /\ request'[queue'[e][i]].device = e
                        /\ \A j \in DOMAIN queue'[e] : queue'[e][i] = queue'[e][j] => i = j
      BY DEF QueuesSound, DeviceOf
    <3>1. CASE e # d
      <4>1. queue'[e] = queue[e]
        BY <2>2, <2>5, <3>1
      <4> QED BY <2>1, <2>3, <4>1 DEF DeviceOf
    <3>2. CASE e = d
      <4>1. queue'[d] = Append(queue[d], t)
        BY <2>2, <2>5
      <4>2. \A j \in DOMAIN queue'[d] :
              (j \in DOMAIN queue[d] /\ queue'[d][j] = queue[d][j])
              \/ (j = Len(queue[d]) + 1 /\ queue'[d][j] = t)
        BY <2>2, <4>1
      <4>3. CASE i \in DOMAIN queue[d] /\ queue'[d][i] = queue[d][i]
        BY <2>1, <2>3, <2>2, <3>2, <4>2, <4>3 DEF DeviceOf
      <4>4. CASE i = Len(queue[d]) + 1 /\ queue'[d][i] = t
        BY <2>1, <2>2, <2>3, <2>5, <3>2, <4>2, <4>4 DEF DeviceOf
      <4> QED BY <3>2, <4>2, <4>3, <4>4
    <3> QED BY <3>1, <3>2
  <2> QED BY <2>1, <2>4, <2>5
<1>4. WorkersSound'
  BY DEF BaseInv, TypeOK, EnqueueCaptured, CaptureWorkerGivesUp, serviceVars,
         WorkersSound, TaskInv, TaskPhase
<1> QED BY <1>1, <1>2, <1>3, <1>4

LEMMA FailureKeepsInv ==
  ASSUME BaseInv, NEW t \in TaskId, CompleteCaptureFailure(t)
  PROVE  TaskInv' /\ LifecycleHolder' /\ QueuesSound' /\ WorkersSound'
<1> USE DEF BaseInv, TypeOK, CompleteCaptureFailure, CaptureWorkerGivesUp,
            serviceVars, callerVars, workerVars, DeviceOf, CaptureLive
<1>1. TaskInv'
  BY DEF TaskInv, TaskPhase, Registered, Drawn, LifecycleHolder
<1>2. LifecycleHolder'
  BY DEF LifecycleHolder, TaskInv, TaskPhase, Registered
<1>3. QueuesSound'
  BY DEF QueuesSound, TaskInv, TaskPhase, Drawn
<1>4. WorkersSound'
  BY DEF WorkersSound, TaskInv, TaskPhase
<1> QED BY <1>1, <1>2, <1>3, <1>4

LEMMA UnprocessedKeepsInv ==
  ASSUME BaseInv, NEW t \in TaskId, FailUnprocessed(t)
  PROVE  TaskInv' /\ LifecycleHolder' /\ QueuesSound' /\ WorkersSound'
<1> USE DEF BaseInv, TypeOK, FailUnprocessed, CompleteProcessingTask,
            serviceVars, callerVars, workerVars, DeviceOf, CaptureLive
<1>1. TaskInv'
  BY SMTT(30) DEF TaskInv, TaskPhase, Registered, Drawn, LifecycleHolder
<1>2. LifecycleHolder'
  BY DEF LifecycleHolder, TaskInv, TaskPhase, Registered
<1>3. QueuesSound'
  <2>1. \A d \in Devices : \A i \in DOMAIN queue[d] : queue[d][i] # t /\ queue[d][i] \in TaskId
    BY DEF QueuesSound, DeviceOf
  <2> QED BY <2>1, SMTT(30) DEF QueuesSound
<1>4. WorkersSound'
  BY SMTT(30) DEF WorkersSound, TaskInv, TaskPhase
<1> QED BY <1>1, <1>2, <1>3, <1>4

LEMMA StopKeepsInv ==
  ASSUME BaseInv, NEW w \in TaskId, StopProcessing(w)
  PROVE  TaskInv' /\ LifecycleHolder' /\ QueuesSound' /\ WorkersSound'
<1> USE DEF BaseInv, TypeOK, StopProcessing,
            serviceVars, callerVars, workerVars, DeviceOf, CaptureLive
<1>1. TaskInv'
  BY DEF TaskInv, TaskPhase, Registered, Drawn, LifecycleHolder
<1>2. LifecycleHolder'
  BY DEF LifecycleHolder, TaskInv, TaskPhase, Registered
<1>3. QueuesSound'
  BY DEF QueuesSound, TaskInv, TaskPhase, Drawn
<1>4. WorkersSound'
  BY DEF WorkersSound, TaskInv, TaskPhase
<1> QED BY <1>1, <1>2, <1>3, <1>4

LEMMA TakeKeepsInv ==
  ASSUME BaseInv, NEW w \in TaskId, TakeFromQueue(w)
  PROVE  TaskInv' /\ LifecycleHolder' /\ QueuesSound' /\ WorkersSound'
<1> DEFINE d == DeviceOf(w)
           t == Head(queue[d])
<1>1. /\ d \in Devices /\ queue[d] \in Seq(TaskId) /\ queue[d] # <<>>
      /\ queue \in [Devices -> Seq(TaskId)]
  BY DEF BaseInv, TypeOK, Requests, DeviceOf, TakeFromQueue
<1>2. /\ 1 \in DOMAIN queue[d] /\ t = queue[d][1] /\ t \in TaskId
      /\ \A i \in DOMAIN Tail(queue[d]) :
           i + 1 \in DOMAIN queue[d] /\ Tail(queue[d])[i] = queue[d][i + 1] /\ i \in Nat
  BY <1>1
<1>3. \A e \in Devices : \A i \in DOMAIN queue[e] :
        /\ queue[e][i] \in TaskId
        /\ capturePc[queue[e][i]] = "exited" /\ processing[queue[e][i]] = "queued"
        /\ DeviceOf(queue[e][i]) = e
        /\ \A j \in DOMAIN queue[e] : queue[e][i] = queue[e][j] => i = j
  BY DEF BaseInv, TypeOK, QueuesSound
<1>4. TaskPhase(t) /\ Registered(t)
  BY <1>2 DEF BaseInv, TaskInv
<1>5. /\ capturePc[t] = "exited" /\ processing[t] = "queued" /\ DeviceOf(t) = d
      /\ status[t] = "running" /\ t \in known
  BY <1>1, <1>2, <1>3, <1>4 DEF TaskPhase, Registered
<1>6. /\ queue' = [queue EXCEPT ![d] = Tail(queue[d])]
      /\ processing' = [processing EXCEPT ![t] = "running"]
      /\ processPc' = [processPc EXCEPT ![w] = "running"]
      /\ processTask' = [processTask EXCEPT ![w] = t]
      /\ UNCHANGED <<nextTaskSeq, known, request, status, acquisition, activeWorkers,
                     lifecycle, handoff, capturePc>>
  BY <1>5 DEF TakeFromQueue, OldestQueued, WithoutOldest, callerVars
<1>7. TaskInv'
  BY <1>2, <1>5, <1>6 DEF BaseInv, TypeOK, DeviceOf, TaskInv, TaskPhase, Registered, Drawn
<1>8. LifecycleHolder'
  BY <1>5, <1>6 DEF BaseInv, TypeOK, LifecycleHolder
<1>9. QueuesSound'
  <2> SUFFICES ASSUME NEW e \in Devices, NEW i \in DOMAIN queue'[e]
               PROVE  /\ capturePc'[queue'[e][i]] = "exited"
                      /\ processing'[queue'[e][i]] = "queued"
                      /\ request'[queue'[e][i]].device = e
                      /\ \A j \in DOMAIN queue'[e] : queue'[e][i] = queue'[e][j] => i = j
    BY DEF QueuesSound, DeviceOf
  <2>1. \A u \in TaskId : u # t => processing'[u] = processing[u]
    BY <1>6 DEF BaseInv, TypeOK
  <2>2. CASE e # d
    <3>1. queue'[e] = queue[e]
      BY <1>1, <1>6, <2>2
    <3>2. queue[e][i] # t
      BY <1>2, <1>3, <1>5, <2>2, <3>1
    <3>3. /\ queue[e][i] \in TaskId /\ i \in DOMAIN queue[e]
          /\ capturePc[queue[e][i]] = "exited" /\ processing[queue[e][i]] = "queued"
          /\ DeviceOf(queue[e][i]) = e
          /\ \A j \in DOMAIN queue[e] : queue[e][i] = queue[e][j] => i = j
      BY <1>3, <3>1
    <3> QED BY <1>6, <2>1, <3>1, <3>2, <3>3 DEF DeviceOf
  <2>3. CASE e = d
    <3>1. queue'[d] = Tail(queue[d])
      BY <1>1, <1>6
    <3>2. i + 1 \in DOMAIN queue[d] /\ queue'[d][i] = queue[d][i + 1] /\ i \in Nat
      BY <1>2, <2>3, <3>1
    <3>3. queue[d][i + 1] # t
      <4>1. i + 1 # 1
        BY <1>1, <2>3, <3>1, <3>2
      <4> QED BY <1>1, <1>2, <1>3, <3>2, <4>1
    <3>4. ASSUME NEW j \in DOMAIN queue'[d], queue'[d][i] = queue'[d][j] PROVE i = j
      <4>1. j + 1 \in DOMAIN queue[d] /\ queue'[d][j] = queue[d][j + 1] /\ j \in Nat
        BY <1>2, <3>1
      <4>2. \A k \in DOMAIN queue[d] : queue[d][i + 1] = queue[d][k] => i + 1 = k
        BY <1>1, <1>3, <3>2
      <4>3. queue[d][i + 1] = queue[d][j + 1]
        BY <3>2, <3>4, <4>1
      <4>4. i + 1 = j + 1
        BY <4>1, <4>2, <4>3
      <4> QED BY <3>2, <4>1, <4>4
    <3> QED BY <1>1, <1>3, <1>6, <2>1, <2>3, <3>2, <3>3, <3>4 DEF DeviceOf
  <2> QED BY <2>2, <2>3
<1>10. WorkersSound'
  BY <1>2, <1>5, <1>6 DEF BaseInv, TypeOK, WorkersSound
<1> QED BY <1>7, <1>8, <1>9, <1>10

LEMMA FinishKeepsInv ==
  ASSUME BaseInv, NEW w \in TaskId, NEW outcome \in Terminal, FinishProcessing(w, outcome)
  PROVE  TaskInv' /\ LifecycleHolder' /\ QueuesSound' /\ WorkersSound'
<1> USE DEF BaseInv, TypeOK, FinishProcessing, CompleteProcessingTask,
            serviceVars, callerVars, workerVars, DeviceOf, CaptureLive
<1> DEFINE t == processTask[w]
<1>a. /\ t \in TaskId /\ capturePc[t] = "exited" /\ processing[t] = "running"
      /\ status[t] = "running" /\ acquisition[t] = "captured" /\ t \in known
      /\ processPc[w] = "running"
  BY DEF WorkersSound, TaskInv, TaskPhase, Registered
<1>b. /\ status' = [status EXCEPT ![t] = outcome]
      /\ processing' = [processing EXCEPT ![t] = outcome]
      /\ activeWorkers' = activeWorkers \ {t}
      /\ UNCHANGED <<nextTaskSeq, known, request, acquisition, queue, lifecycle, handoff, capturePc>>
  BY <1>a
<1>1. TaskInv'
  BY <1>a, <1>b DEF TaskInv, TaskPhase, Registered, Drawn
<1>2. LifecycleHolder'
  BY <1>a, <1>b DEF LifecycleHolder
<1>3. QueuesSound'
  <2>1. \A d \in Devices : \A i \in DOMAIN queue[d] : queue[d][i] # t /\ queue[d][i] \in TaskId
    BY <1>a DEF QueuesSound
  <2> QED BY <1>a, <1>b, <2>1 DEF QueuesSound
<1>4. WorkersSound'
  BY DEF WorkersSound, TaskInv, TaskPhase
<1> QED BY <1>1, <1>2, <1>3, <1>4

LEMMA StepInv == BaseInv /\ [Next]_vars => BaseInv'
<1> SUFFICES ASSUME BaseInv, [Next]_vars PROVE BaseInv'
  OBVIOUS
<1> DEFINE Rest == TaskInv /\ LifecycleHolder /\ QueuesSound /\ WorkersSound
<1>1. TypeOK'
  BY NextType DEF BaseInv
<1>2. CASE CallerStep
  BY <1>2, RefuseKeepsInv, ReserveKeepsInv, AbortKeepsInv, StartKeepsInv, CooldownKeepsInv,
     CleanupKeepsInv, <1>1 DEF CallerStep, HandleCaptureTake, BuildHardGrabPayload, HandOff, BaseInv
<1>3. ASSUME NEW t \in TaskId, CaptureStep(t) PROVE Rest'
  BY <1>3, BeginKeepsInv, AcquireKeepsInv, EnqueueKeepsInv, FailureKeepsInv,
     UnprocessedKeepsInv DEF CaptureStep
<1>4. ASSUME NEW w \in TaskId, ProcessStep(w) PROVE Rest'
  BY <1>4, StopKeepsInv, TakeKeepsInv, FinishKeepsInv DEF ProcessStep
<1>5. CASE UNCHANGED vars
  <2> USE <1>5 DEF vars, serviceVars, callerVars, workerVars, BaseInv
  <2>1. TaskInv'
    BY DEF TaskInv, TaskPhase, Registered, Drawn, DeviceOf
  <2>2. LifecycleHolder'
    BY DEF LifecycleHolder
  <2>3. QueuesSound'
    BY DEF QueuesSound, DeviceOf
  <2>4. WorkersSound'
    BY DEF WorkersSound
  <2> QED BY <1>1, <2>1, <2>2, <2>3, <2>4
<1> QED BY <1>1, <1>2, <1>3, <1>4, <1>5 DEF Next, BaseInv

LEMMA BaseInvariant == Spec => []BaseInv
BY InitInv, StepInv, PTL DEF Spec

-----------------------------------------------------------------------------
(* Part 3: the properties.                                                 *)

\* Whatever cleanups run, a worker always finds its task registered: the
\* early returns of RunCaptureTask and RunProcessingQueue are dead code.
THEOREM WorkersNeverOrphaned == Spec => []WorkersFindTheirTask
<1>1. BaseInv => WorkersFindTheirTask
  <2> SUFFICES ASSUME BaseInv PROVE WorkersFindTheirTask
    OBVIOUS
  <2>1. ASSUME NEW t \in TaskId, CaptureLive(t) \/ processing[t] \in {"queued", "running"}
        PROVE  t \in known /\ t \in activeWorkers
    BY <2>1 DEF BaseInv, TypeOK, TaskInv, TaskPhase, Registered, CaptureLive, CapturePcs
  <2>2. \A d \in Devices : \A i \in DOMAIN queue[d] :
          queue[d][i] \in TaskId /\ processing[queue[d][i]] = "queued"
    BY DEF BaseInv, TypeOK, QueuesSound
  <2>3. \A w \in TaskId : processPc[w] = "running" =>
          processTask[w] \in TaskId /\ processing[processTask[w]] = "running"
    BY DEF BaseInv, WorkersSound
  <2> QED BY <2>1, <2>2, <2>3 DEF WorkersFindTheirTask
<1> QED BY <1>1, BaseInvariant, PTL

\* A finished task keeps its outcome, and no task is forgotten between its
\* start and its end.
THEOREM HistoryKept == Spec => TaskHistory
<1>1. BaseInv /\ [Next]_vars =>
        [\A t \in TaskId :
           /\ status[t] \in Terminal => status'[t] = status[t]
           /\ t \in known \ known' => status[t] \in Terminal \/ t = handoff]_vars
  <2> SUFFICES ASSUME BaseInv, Next, NEW t \in TaskId
               PROVE  /\ status[t] \in Terminal => status'[t] = status[t]
                      /\ t \in known \ known' => status[t] \in Terminal \/ t = handoff
    OBVIOUS
  <2> USE DEF BaseInv, TypeOK
  <2>1. TaskPhase(t) /\ Registered(t) /\ Drawn(t)
    BY DEF TaskInv
  <2>2. CASE CallerStep
    <3>1. ASSUME NEW c \in Conns, NEW d \in Devices, NEW source \in {"manual", "hardgrab"},
                 ReserveTask(c, d, source)
          PROVE  status[t] \in Terminal => status'[t] = status[t]
      BY <2>1, <3>1 DEF ReserveTask, Drawn, TaskPhase, TaskId
    <3>2. status' = status \/ \E c \in Conns, d \in Devices, source \in {"manual", "hardgrab"} :
                                ReserveTask(c, d, source)
      BY <2>2 DEF CallerStep, HandleCaptureTake, BuildHardGrabPayload, HandOff, RefuseTask,
         AbortReservedTask, StartReservedTaskFails, ForgetReservation,
         StartReservedTask, CooldownEnds, BeginCleanup, CleanupTemp, CleanupTempFails,
         ClearFinishedTasks, serviceVars
    <3>3. t \in known \ known' => status[t] \in Terminal \/ t = handoff
      BY <2>1, <2>2 DEF CallerStep, HandleCaptureTake, BuildHardGrabPayload, HandOff, RefuseTask,
         ReserveTask, AbortReservedTask,
         StartReservedTaskFails, ForgetReservation, StartReservedTask, CooldownEnds,
         BeginCleanup, CleanupTemp, CleanupTempFails, ClearFinishedTasks, serviceVars,
         LifecycleHolder
    <3> QED BY <3>1, <3>2, <3>3
  <2>3. ASSUME NEW u \in TaskId, CaptureStep(u)
        PROVE  known' = known /\ (status[t] \in Terminal => status'[t] = status[t])
    BY <2>1, <2>3, SMTT(30) DEF CaptureStep, BeginCapture, AcquireImage, AcquireFails, StageFails,
       EnqueueCaptured, CompleteCaptureFailure, FailUnprocessed, CompleteProcessingTask,
       CaptureWorkerGivesUp, serviceVars, TaskPhase
  <2>4. ASSUME NEW w \in TaskId, ProcessStep(w)
        PROVE  known' = known /\ (status[t] \in Terminal => status'[t] = status[t])
    <3>1. processPc[w] = "running" =>
            processing[processTask[w]] = "running" /\ capturePc[processTask[w]] = "exited"
      BY DEF WorkersSound
    <3>2. CASE StopProcessing(w) \/ TakeFromQueue(w)
      BY <3>2 DEF StopProcessing, TakeFromQueue, serviceVars
    <3>3. ASSUME NEW outcome \in Terminal, FinishProcessing(w, outcome)
          PROVE  known' = known /\ (status[t] \in Terminal => status'[t] = status[t])
      BY <2>1, <3>1, <3>3 DEF FinishProcessing, CompleteProcessingTask, serviceVars, TaskPhase
    <3> QED BY <2>4, <3>2, <3>3 DEF ProcessStep
  <2> QED BY <2>2, <2>3, <2>4 DEF Next
<1> QED BY <1>1, BaseInvariant, PTL DEF Spec, TaskHistory

-----------------------------------------------------------------------------
(* Part 4: the capture windows and the images.                             *)

\* A step leaves the windows and their claimants alone, or gives a free window
\* to a new manual capture, or ends one capture and frees its device's window.
WindowsStay ==
  activeCapture' = activeCapture /\ \A d \in Devices : Acquiring(d)' = Acquiring(d)
WindowTaken(t, d) ==
  /\ d \notin activeCapture
  /\ activeCapture' = activeCapture \cup {d}
  /\ Acquiring(d)' = Acquiring(d) \cup {t}
  /\ \A e \in Devices \ {d} : Acquiring(e)' = Acquiring(e)
WindowFreed(t) ==
  /\ DeviceOf(t) \in HardGrabDevices \/ t \in Acquiring(DeviceOf(t))
  /\ activeCapture' = activeCapture \ {DeviceOf(t)}
  /\ \A d \in Devices : Acquiring(d)' = Acquiring(d) \ {t}

LEMMA WindowMoves ==
  ASSUME BaseInv, [Next]_vars
  PROVE  \/ WindowsStay
         \/ \E t \in TaskId, d \in Devices : WindowTaken(t, d)
         \/ \E t \in TaskId : WindowFreed(t)
<1> USE DEF BaseInv, TypeOK, serviceVars, callerVars, workerVars, DeviceOf
<1>1. ASSUME NEW c \in Conns, NEW d \in Devices, NEW source \in {"manual", "hardgrab"},
             ReserveTask(c, d, source)
      PROVE  WindowsStay \/ WindowTaken(nextTaskSeq, d)
  <2>1. nextTaskSeq \in TaskId /\ nextTaskSeq \notin known
    BY <1>1 DEF ReserveTask, TaskInv, Drawn, TaskId
  <2>2. /\ request'[nextTaskSeq] = [conn |-> c, device |-> d, source |-> source]
        /\ acquisition'[nextTaskSeq] = "queued" /\ known' = known \cup {nextTaskSeq}
        /\ \A u \in TaskId : u # nextTaskSeq =>
             request'[u] = request[u] /\ acquisition'[u] = acquisition[u]
    BY <1>1, <2>1 DEF ReserveTask
  <2>3. CASE source = "manual"
    <3>1. /\ d \notin activeCapture /\ activeCapture' = activeCapture \cup {d}
      BY <1>1, <2>3 DEF ReserveTask, Refused
    <3>2. Acquiring(d)' = Acquiring(d) \cup {nextTaskSeq}
      BY <2>1, <2>2, <2>3 DEF Acquiring
    <3>3. ASSUME NEW e \in Devices \ {d} PROVE Acquiring(e)' = Acquiring(e)
      <4>1. request'[nextTaskSeq].device # e
        BY <2>2
      <4>2. ASSUME NEW u \in TaskId PROVE (u \in Acquiring(e))' <=> u \in Acquiring(e)
        <5>1. CASE u = nextTaskSeq
          BY <2>1, <4>1, <5>1 DEF Acquiring
        <5>2. CASE u # nextTaskSeq
          BY <2>2, <5>2 DEF Acquiring
        <5> QED BY <5>1, <5>2
      <4>3. Acquiring(e) \subseteq TaskId /\ Acquiring(e)' \subseteq TaskId
        BY <2>1, <2>2 DEF Acquiring
      <4> QED BY <4>2, <4>3
    <3> QED BY <3>1, <3>2, <3>3 DEF WindowTaken
  <2>4. CASE source = "hardgrab"
    <3>1. activeCapture' = activeCapture
      BY <1>1, <2>4 DEF ReserveTask
    <3>2. \A e \in Devices : Acquiring(e)' = Acquiring(e)
      BY <2>1, <2>2, <2>4 DEF Acquiring
    <3> QED BY <3>1, <3>2 DEF WindowsStay
  <2> QED BY <2>3, <2>4
<1>2. ASSUME AbortReservedTask \/ StartReservedTaskFails PROVE WindowFreed(handoff) /\ handoff \in TaskId
  <2>1. /\ handoff \in known /\ handoff \in TaskId /\ acquisition[handoff] = "queued"
        /\ known' = known \ {handoff} /\ UNCHANGED <<request, acquisition>>
        /\ activeCapture' = activeCapture \ {DeviceOf(handoff)}
    BY <1>2 DEF AbortReservedTask, StartReservedTaskFails, ForgetReservation
  <2>2. \A d \in Devices : Acquiring(d)' = Acquiring(d) \ {handoff}
    BY <2>1 DEF Acquiring
  <2>3. Drawn(handoff) /\ request[handoff] \in Requests
    BY <2>1 DEF TaskInv
  <2> QED BY <2>1, <2>2, <2>3 DEF WindowFreed, Drawn, Acquiring, Requests
<1>3. ASSUME NEW t \in TaskId,
             CompleteCaptureFailure(t) \/ \E spawned \in BOOLEAN : EnqueueCaptured(t, spawned)
      PROVE  WindowFreed(t)
  <2>1. /\ t \in known /\ acquisition[t] = "capturing"
        /\ acquisition' \in {[acquisition EXCEPT ![t] = "failed"], [acquisition EXCEPT ![t] = "captured"]}
        /\ activeCapture' = activeCapture \ {DeviceOf(t)} /\ UNCHANGED <<known, request>>
    BY <1>3 DEF CompleteCaptureFailure, EnqueueCaptured, CaptureWorkerGivesUp, TaskInv, TaskPhase,
                Registered
  <2>2. \A d \in Devices : Acquiring(d)' = Acquiring(d) \ {t}
    BY <2>1 DEF Acquiring
  <2>3. Drawn(t) /\ request[t] \in Requests
    BY DEF TaskInv
  <2> QED BY <2>1, <2>2, <2>3 DEF WindowFreed, Drawn, Acquiring, Requests
<1>4. CASE CleanupTemp \/ ClearFinishedTasks
  <2>1. /\ UNCHANGED <<request, acquisition, activeCapture>> /\ known' \subseteq known
        /\ \A t \in known : acquisition[t] \notin {"queued", "capturing"}
    BY <1>4 DEF CleanupTemp, ClearFinishedTasks, LifecycleHolder, TaskInv, TaskPhase, CapturePcs
  <2> QED BY <2>1 DEF WindowsStay, Acquiring
<1>5. ASSUME NEW t \in TaskId, BeginCapture(t) PROVE WindowsStay
  <2>1. /\ UNCHANGED <<request, known, activeCapture>>
        /\ acquisition' \in {acquisition, [acquisition EXCEPT ![t] = "capturing"]}
        /\ acquisition[t] = "queued"
    BY <1>5 DEF BeginCapture, CaptureWorkerGivesUp, TaskInv, TaskPhase
  <2> QED BY <2>1 DEF WindowsStay, Acquiring
<1>6. ASSUME NEW t \in TaskId,
             AcquireImage(t) \/ AcquireFails(t) \/ StageFails(t) \/ FailUnprocessed(t) \/ ProcessStep(t)
      PROVE  WindowsStay
  <2>1. UNCHANGED <<known, request, acquisition, activeCapture>>
    BY <1>6 DEF AcquireImage, AcquireFails, StageFails, FailUnprocessed, CompleteProcessingTask,
                ProcessStep, StopProcessing, TakeFromQueue, FinishProcessing
  <2> QED BY <2>1 DEF WindowsStay, Acquiring
<1>7. ASSUME \/ \E d \in Devices : RefuseTask(d) \/ CooldownEnds(d)
             \/ StartReservedTask \/ BeginCleanup \/ CleanupTempFails \/ UNCHANGED vars
      PROVE  WindowsStay
  <2>1. UNCHANGED <<known, request, acquisition, activeCapture>>
    BY <1>7 DEF RefuseTask, CooldownEnds, StartReservedTask, BeginCleanup, CleanupTempFails, vars
  <2> QED BY <2>1 DEF WindowsStay, Acquiring
<1> QED
  <2>1. CASE CallerStep
    <3>1. nextTaskSeq \in TaskId \/ ~\E c \in Conns, d \in Devices, source \in {"manual", "hardgrab"} :
                                       ReserveTask(c, d, source)
      BY DEF ReserveTask
    <3> QED BY <2>1, <3>1, <1>1, <1>2, <1>4, <1>7 DEF CallerStep, HandleCaptureTake,
       BuildHardGrabPayload, HandOff
  <2>2. CASE \E t \in TaskId : CaptureStep(t)
    BY <2>2, <1>3, <1>5, <1>6 DEF CaptureStep
  <2>3. CASE \E t \in TaskId : ProcessStep(t)
    BY <2>3, <1>6
  <2> QED BY <2>1, <2>2, <2>3, <1>7 DEF Next

LEMMA OwnerStep == BaseInv /\ WindowHasOwner /\ [Next]_vars => WindowHasOwner'
<1> SUFFICES ASSUME BaseInv, WindowHasOwner, [Next]_vars PROVE WindowHasOwner'
  OBVIOUS
<1>1. CASE WindowsStay
  BY <1>1 DEF WindowsStay, WindowHasOwner, BaseInv, TypeOK
<1>2. ASSUME NEW t \in TaskId, NEW d \in Devices, WindowTaken(t, d) PROVE WindowHasOwner'
  BY <1>2 DEF WindowTaken, WindowHasOwner, BaseInv, TypeOK
<1>3. ASSUME NEW t \in TaskId, WindowFreed(t) PROVE WindowHasOwner'
  <2>1. \A d \in Devices : d # DeviceOf(t) => t \notin Acquiring(d)
    BY DEF Acquiring
  <2> QED BY <1>3, <2>1 DEF WindowFreed, WindowHasOwner, BaseInv, TypeOK
<1> QED BY <1>1, <1>2, <1>3, WindowMoves

LEMMA HeldStep == BaseInv /\ WindowHeld /\ [Next]_vars => WindowHeld'
<1> SUFFICES ASSUME BaseInv, WindowHeld, [Next]_vars PROVE WindowHeld'
  OBVIOUS
<1>1. CASE WindowsStay
  BY <1>1 DEF WindowsStay, WindowHeld
<1>2. ASSUME NEW t \in TaskId, NEW d \in Devices, WindowTaken(t, d) PROVE WindowHeld'
  BY <1>2 DEF WindowTaken, WindowHeld
<1>3. ASSUME NEW t \in TaskId, WindowFreed(t) PROVE WindowHeld'
  <2>1. \A d \in Devices : d # DeviceOf(t) => t \notin Acquiring(d)
    BY DEF Acquiring
  <2>2. ASSUME NEW d \in Devices \ HardGrabDevices, d = DeviceOf(t) PROVE Acquiring(d)' = {}
    BY <1>3, <2>2 DEF WindowFreed, WindowHeld
  <2> QED BY <1>3, <2>1, <2>2 DEF WindowFreed, WindowHeld
<1> QED BY <1>1, <1>2, <1>3, WindowMoves

LEMMA ImageStep == BaseInv /\ ImageKept /\ [Next]_vars => ImageKept'
<1> SUFFICES ASSUME BaseInv, ImageKept, [Next]_vars PROVE ImageKept'
  OBVIOUS
<1> USE DEF BaseInv, TypeOK, ImageKept, serviceVars, callerVars, workerVars, DeviceOf
<1>1. ASSUME NEW d \in Devices, RefuseTask(d)
      PROVE  ImageKept'
  BY <1>1 DEF RefuseTask
<1>2. ASSUME NEW c \in Conns, NEW d \in Devices, NEW source \in {"manual", "hardgrab"},
             ReserveTask(c, d, source)
      PROVE  ImageKept'
  BY <1>2 DEF ReserveTask, TaskInv, Drawn, TaskPhase, TaskId
<1>3. CASE AbortReservedTask \/ StartReservedTaskFails
  BY <1>3 DEF AbortReservedTask, StartReservedTaskFails, ForgetReservation, LifecycleHolder, TaskInv, Drawn
<1>4. CASE StartReservedTask
  BY <1>4 DEF StartReservedTask
<1>5. ASSUME NEW d \in Devices, CooldownEnds(d)
      PROVE  ImageKept'
  BY <1>5 DEF CooldownEnds
<1>6. CASE BeginCleanup \/ CleanupTempFails
  BY <1>6 DEF BeginCleanup, CleanupTempFails
<1>7. CASE CleanupTemp \/ ClearFinishedTasks
  BY <1>7 DEF CleanupTemp, ClearFinishedTasks, LifecycleHolder, TaskInv, TaskPhase, CapturePcs
<1>8. ASSUME NEW t \in TaskId, BeginCapture(t)
      PROVE  ImageKept'
  BY <1>8 DEF BeginCapture, CaptureWorkerGivesUp, TaskInv, TaskPhase
<1>9. ASSUME NEW t \in TaskId, AcquireImage(t)
      PROVE  ImageKept'
  <2>1. request[t].source \in {"manual", "hardgrab"}
    BY DEF Requests
  <2>2. acquisition[t] = "capturing" /\ status[t] = "running"
    BY <1>9 DEF AcquireImage, TaskInv, TaskPhase
  <2>3. t \in onDisk'
    BY <1>9, <2>1, <2>2 DEF AcquireImage, TaskInv, Registered
  <2> QED BY <1>9, <2>3 DEF AcquireImage
<1>10. ASSUME NEW t \in TaskId, AcquireFails(t) \/ StageFails(t)
      PROVE  ImageKept'
  BY <1>10 DEF AcquireFails, StageFails, TaskInv, TaskPhase
<1>11. ASSUME NEW t \in TaskId, NEW spawned \in BOOLEAN, EnqueueCaptured(t, spawned)
      PROVE  ImageKept'
  BY <1>11 DEF EnqueueCaptured, CaptureWorkerGivesUp, TaskInv, TaskPhase, Registered, Drawn
<1>12. ASSUME NEW t \in TaskId, CompleteCaptureFailure(t)
      PROVE  ImageKept'
  BY <1>12 DEF CompleteCaptureFailure, CaptureWorkerGivesUp, TaskInv, TaskPhase, Registered, Drawn
<1>13. ASSUME NEW t \in TaskId, FailUnprocessed(t)
      PROVE  ImageKept'
  BY <1>13 DEF FailUnprocessed, CompleteProcessingTask, TaskInv, TaskPhase
<1>14. ASSUME NEW w \in TaskId, StopProcessing(w)
      PROVE  ImageKept'
  BY <1>14 DEF StopProcessing
<1>15. ASSUME NEW w \in TaskId, TakeFromQueue(w)
      PROVE  ImageKept'
  <2> DEFINE u == Head(queue[DeviceOf(w)])
  <2>1. DeviceOf(w) \in Devices /\ queue[DeviceOf(w)] \in Seq(TaskId) /\ queue[DeviceOf(w)] # <<>>
    BY <1>15 DEF TakeFromQueue, Requests
  <2>2. u \in TaskId /\ processing[u] = "queued"
    <3>1. 1 \in DOMAIN queue[DeviceOf(w)] /\ u = queue[DeviceOf(w)][1] /\ u \in TaskId
      BY <2>1
    <3> QED BY <2>1, <3>1 DEF QueuesSound
  <2>3. /\ UNCHANGED <<known, request, acquisition, capturePc, onDisk>>
        /\ processing' = processing \/ processing' = [processing EXCEPT ![u] = "running"]
    BY <1>15 DEF TakeFromQueue, OldestQueued
  <2> QED BY <2>2, <2>3
<1>16. ASSUME NEW w \in TaskId, NEW outcome \in Terminal, FinishProcessing(w, outcome)
      PROVE  ImageKept'
  BY <1>16 DEF FinishProcessing, CompleteProcessingTask, WorkersSound, TaskInv, TaskPhase
<1>17. CASE UNCHANGED vars
  BY <1>17 DEF vars
<1> QED BY <1>1, <1>2, <1>3, <1>4, <1>5, <1>6, <1>7, <1>8, <1>9, <1>10, <1>11, <1>12, <1>13, <1>14, <1>15, <1>16, <1>17
    DEF Next, CallerStep, HandleCaptureTake, BuildHardGrabPayload, HandOff, CaptureStep, ProcessStep

LEMMA WindowInvariant == Spec => [](WindowHasOwner /\ WindowHeld /\ ImageKept)
<1>1. Init => WindowHasOwner /\ WindowHeld /\ ImageKept
  BY DEF Init, WindowHasOwner, WindowHeld, ImageKept, Acquiring
<1> QED BY <1>1, OwnerStep, HeldStep, ImageStep, BaseInvariant, PTL DEF Spec

\* A capture window is never left behind: on every path out of an
\* acquisition, aborted and failed starts included, it is given back.
THEOREM WindowsNeverLeak == Spec => []WindowHasOwner
BY WindowInvariant, PTL

\* For any number of connections and tasks, at most one manual capture of a
\* device acquires at a time, on every device no hard grab comes from.
THEOREM CapturesExclude == Spec => []ExclusiveManualCapture
<1>1. BaseInv /\ WindowHeld => ExclusiveManualCapture
  <2> SUFFICES ASSUME BaseInv, WindowHeld, NEW d \in Devices \ HardGrabDevices
               PROVE  Cardinality(Acquiring(d)) <= 1
    BY DEF ExclusiveManualCapture
  <2>1. CASE Acquiring(d) = {}
    BY <2>1, FS_EmptySet
  <2>2. CASE Acquiring(d) # {}
    <3>1. PICK t \in Acquiring(d) : TRUE
      BY <2>2
    <3>2. Acquiring(d) = {t}
      BY <3>1 DEF WindowHeld
    <3>3. Cardinality(Acquiring(d)) = 1
      BY <3>2, FS_Singleton, Zenon
    <3> QED BY <3>3
  <2> QED BY <2>1, <2>2
<1> QED BY <1>1, BaseInvariant, WindowInvariant, PTL

\* No cleanup, at whatever moment it runs, removes an image that a task has
\* yet to stage or to process.
THEOREM ImagesKept == Spec => []ImageKept
BY WindowInvariant, PTL

-----------------------------------------------------------------------------
(* Part 5: the processing queues.                                          *)

\* A processing worker was spawned by a task whose capture has ended, and its
\* device is marked as served.
WorkerServes(w) ==
  /\ processPc[w] # "none" => capturePc[w] = "exited"
  /\ ProcessLive(w) => DeviceOf(w) \in activeProcessing
  /\ \A v \in TaskId : ProcessLive(v) /\ ProcessLive(w) /\ DeviceOf(v) = DeviceOf(w) => v = w

\* A device is marked as served by its worker, and one with work is served.
DeviceServed(d) ==
  /\ d \in activeProcessing => \E w \in TaskId : ProcessLive(w) /\ DeviceOf(w) = d
  /\ queue[d] # <<>> => d \in activeProcessing

\* A task in processing is in the hands of its device's worker.
InProcessing(t) ==
  processing[t] = "running" =>
    \E w \in TaskId : processPc[w] = "running" /\ processTask[w] = t /\ DeviceOf(w) = DeviceOf(t)

ServingInv ==
  /\ \A w \in TaskId : WorkerServes(w)
  /\ \A d \in Devices : DeviceServed(d)
  /\ \A t \in TaskId : InProcessing(t)

LEMMA ServingInit == Init => ServingInv
BY CaptureAssumption
   DEF Init, ServingInv, WorkerServes, DeviceServed, InProcessing, ProcessLive

\* What most steps leave alone.
LEMMA ServingFrame ==
  ASSUME BaseInv, ServingInv,
         UNCHANGED <<processPc, processTask, activeProcessing, queue>>,
         \A t \in TaskId : capturePc[t] = "exited" => capturePc'[t] = "exited" /\ request'[t] = request[t],
         \A t \in TaskId : processing'[t] = "running" => processing[t] = "running"
  PROVE  ServingInv'
<1>1. \A w \in TaskId : processPc[w] # "none" => request'[w] = request[w] /\ capturePc'[w] = "exited"
  BY DEF ServingInv, WorkerServes
<1>2. \A w \in TaskId : ProcessLive(w)' = ProcessLive(w) /\ (ProcessLive(w) => DeviceOf(w)' = DeviceOf(w))
  BY <1>1 DEF ProcessLive, DeviceOf
<1>3. ASSUME NEW w \in TaskId PROVE WorkerServes(w)'
  BY <1>1, <1>2 DEF ServingInv, WorkerServes
<1>4. ASSUME NEW d \in Devices PROVE DeviceServed(d)'
  BY <1>2 DEF ServingInv, DeviceServed
<1>5. ASSUME NEW t \in TaskId PROVE InProcessing(t)'
  <2> SUFFICES ASSUME processing'[t] = "running" PROVE InProcessing(t)'
    BY DEF InProcessing
  <2>1. PICK w \in TaskId : processPc[w] = "running" /\ processTask[w] = t /\ DeviceOf(w) = DeviceOf(t)
    BY DEF ServingInv, InProcessing
  <2>2. capturePc[t] = "exited"
    BY <2>1 DEF BaseInv, WorkersSound
  <2> QED BY <1>1, <2>1, <2>2 DEF InProcessing, DeviceOf
<1> QED BY <1>3, <1>4, <1>5 DEF ServingInv

LEMMA EnqueueServes ==
  ASSUME BaseInv, ServingInv, NEW t \in TaskId, NEW spawned \in BOOLEAN, EnqueueCaptured(t, spawned)
  PROVE  ServingInv'
<1> DEFINE d == DeviceOf(t)
<1>1. /\ t \in known /\ capturePc[t] = "staging" /\ processing[t] = "not_started"
      /\ processPc[t] = "none" /\ d \in Devices
  BY DEF EnqueueCaptured, BaseInv, TypeOK, TaskInv, TaskPhase, Registered, ServingInv, WorkerServes,
     Requests, DeviceOf
<1>2. /\ processing' = [processing EXCEPT ![t] = "queued"]
      /\ UNCHANGED <<request, processTask>>
      /\ \A u \in TaskId : capturePc[u] = "exited" => capturePc'[u] = "exited"
  BY <1>1 DEF EnqueueCaptured, BaseInv, TypeOK
<1>3. CASE ~spawned
  <2>1. UNCHANGED <<processPc, queue, activeProcessing>>
    BY <1>1, <1>3 DEF EnqueueCaptured
  <2> QED BY <1>2, <2>1, ServingFrame DEF BaseInv, TypeOK
<1>4. CASE spawned
  <2>1. /\ queue' = [queue EXCEPT ![d] = Append(queue[d], t)]
        /\ activeProcessing' = activeProcessing \cup {d}
        /\ processPc' = IF d \in activeProcessing THEN processPc ELSE [processPc EXCEPT ![t] = "polling"]
        /\ capturePc' = [capturePc EXCEPT ![t] = "exited"]
    BY <1>1, <1>4 DEF EnqueueCaptured
  <2>2. \A u \in TaskId : processPc'[u] = IF u = t /\ d \notin activeProcessing THEN "polling" ELSE processPc[u]
    BY <2>1 DEF BaseInv, TypeOK
  <2>3. \A u \in TaskId : ProcessLive(u)' <=> ProcessLive(u) \/ (u = t /\ d \notin activeProcessing)
    BY <1>1, <2>2 DEF ProcessLive
  <2>4. \A u \in TaskId : capturePc'[u] = IF u = t THEN "exited" ELSE capturePc[u]
    BY <2>1 DEF BaseInv, TypeOK
  <2>5. \A u \in TaskId : DeviceOf(u)' = DeviceOf(u)
    BY <1>2 DEF DeviceOf
  <2>6. ASSUME NEW w \in TaskId PROVE WorkerServes(w)'
    BY <1>1, <2>1, <2>2, <2>3, <2>4, <2>5 DEF ServingInv, WorkerServes
  <2>7. ASSUME NEW e \in Devices PROVE DeviceServed(e)'
    <3>1. e # d => queue'[e] = queue[e]
      BY <2>1 DEF BaseInv, TypeOK
    <3> QED BY <2>1, <2>3, <2>5, <3>1 DEF ServingInv, DeviceServed
  <2>8. ASSUME NEW u \in TaskId PROVE InProcessing(u)'
    <3> SUFFICES ASSUME processing'[u] = "running" PROVE InProcessing(u)'
      BY DEF InProcessing
    <3>1. processing[u] = "running"
      BY <1>2 DEF BaseInv, TypeOK
    <3>2. PICK w \in TaskId : processPc[w] = "running" /\ processTask[w] = u /\ DeviceOf(w) = DeviceOf(u)
      BY <3>1 DEF ServingInv, InProcessing
    <3>3. processPc'[w] = "running"
      BY <1>1, <2>2, <3>2
    <3> QED BY <1>2, <2>5, <3>2, <3>3 DEF InProcessing
  <2> QED BY <2>6, <2>7, <2>8 DEF ServingInv
<1> QED BY <1>3, <1>4

LEMMA StopServes ==
  ASSUME BaseInv, ServingInv, NEW w \in TaskId, StopProcessing(w)
  PROVE  ServingInv'
<1> DEFINE d == DeviceOf(w)
<1>1. /\ processPc[w] = "polling" /\ queue[d] = <<>> /\ activeProcessing' = activeProcessing \ {d}
      /\ processPc' = [processPc EXCEPT ![w] = "exited"]
      /\ UNCHANGED <<request, processing, queue, capturePc, processTask>>
  BY DEF StopProcessing
<1>2. \A u \in TaskId : /\ processPc'[u] = IF u = w THEN "exited" ELSE processPc[u]
                        /\ ProcessLive(u)' <=> ProcessLive(u) /\ u # w
                        /\ DeviceOf(u)' = DeviceOf(u)
  BY <1>1 DEF BaseInv, TypeOK, ProcessLive, DeviceOf
<1>3. \A u \in TaskId : ProcessLive(u) /\ u # w => DeviceOf(u) # d
  BY <1>1 DEF ServingInv, WorkerServes, ProcessLive
<1>4. ASSUME NEW u \in TaskId PROVE WorkerServes(u)'
  BY <1>1, <1>2, <1>3 DEF ServingInv, WorkerServes
<1>5. ASSUME NEW e \in Devices PROVE DeviceServed(e)'
  <2>1. CASE e = d
    BY <1>1, <2>1 DEF DeviceServed
  <2>2. CASE e # d
    BY <1>1, <1>2, <2>2 DEF ServingInv, DeviceServed
  <2> QED BY <2>1, <2>2
<1>6. ASSUME NEW u \in TaskId PROVE InProcessing(u)'
  BY <1>1, <1>2 DEF ServingInv, InProcessing
<1> QED BY <1>4, <1>5, <1>6 DEF ServingInv

LEMMA TakeServes ==
  ASSUME BaseInv, ServingInv, NEW w \in TaskId, TakeFromQueue(w)
  PROVE  ServingInv'
<1> DEFINE d == DeviceOf(w)
           t == Head(queue[d])
<1>1. /\ d \in Devices /\ queue[d] \in Seq(TaskId) /\ queue[d] # <<>> /\ processPc[w] = "polling"
  BY DEF BaseInv, TypeOK, Requests, DeviceOf, TakeFromQueue
<1>2. 1 \in DOMAIN queue[d] /\ t = queue[d][1] /\ t \in TaskId
  BY <1>1
<1>3. capturePc[t] = "exited" /\ processing[t] = "queued" /\ DeviceOf(t) = d
  BY <1>1, <1>2 DEF BaseInv, QueuesSound
<1>4. t \in known
  BY <1>2, <1>3 DEF BaseInv, TaskInv, TaskPhase, Registered
<1>5. /\ queue' = [queue EXCEPT ![d] = Tail(queue[d])]
      /\ processing' = [processing EXCEPT ![t] = "running"]
      /\ processPc' = [processPc EXCEPT ![w] = "running"]
      /\ processTask' = [processTask EXCEPT ![w] = t]
      /\ UNCHANGED <<request, activeProcessing, capturePc>>
  BY <1>4 DEF TakeFromQueue, OldestQueued, WithoutOldest
<1>6. \A u \in TaskId : /\ processPc'[u] = IF u = w THEN "running" ELSE processPc[u]
                        /\ processTask'[u] = IF u = w THEN t ELSE processTask[u]
                        /\ processing'[u] = IF u = t THEN "running" ELSE processing[u]
                        /\ DeviceOf(u)' = DeviceOf(u)
  BY <1>5 DEF BaseInv, TypeOK, DeviceOf
<1>7. \A u \in TaskId : ProcessLive(u)' <=> ProcessLive(u)
  BY <1>1, <1>6 DEF ProcessLive
<1>8. ASSUME NEW u \in TaskId PROVE WorkerServes(u)'
  BY <1>1, <1>5, <1>6, <1>7 DEF ServingInv, WorkerServes
<1>9. ASSUME NEW e \in Devices PROVE DeviceServed(e)'
  <2>1. queue'[e] # <<>> => queue[e] # <<>>
    BY <1>1, <1>5 DEF BaseInv, TypeOK
  <2> QED BY <1>5, <1>6, <1>7, <2>1 DEF ServingInv, DeviceServed
<1>10. ASSUME NEW u \in TaskId PROVE InProcessing(u)'
  <2>1. CASE u = t
    BY <1>2, <1>3, <1>6, <2>1 DEF InProcessing
  <2>2. CASE u # t
    BY <1>1, <1>6, <2>2 DEF ServingInv, InProcessing
  <2> QED BY <2>1, <2>2
<1> QED BY <1>8, <1>9, <1>10 DEF ServingInv

LEMMA FinishServes ==
  ASSUME BaseInv, ServingInv, NEW w \in TaskId, NEW outcome \in Terminal, FinishProcessing(w, outcome)
  PROVE  ServingInv'
<1> DEFINE t == processTask[w]
<1>1. /\ t \in TaskId /\ processPc[w] = "running" /\ t \in known
  BY DEF FinishProcessing, BaseInv, WorkersSound, TaskInv, TaskPhase, Registered
<1>2. /\ processing' = [processing EXCEPT ![t] = outcome]
      /\ processPc' = [processPc EXCEPT ![w] = "polling"]
      /\ processTask' = [processTask EXCEPT ![w] = NoTask]
      /\ UNCHANGED <<request, activeProcessing, queue, capturePc>>
  BY <1>1 DEF FinishProcessing, CompleteProcessingTask
<1>3. \A u \in TaskId : /\ processPc'[u] = IF u = w THEN "polling" ELSE processPc[u]
                        /\ u # w => processTask'[u] = processTask[u]
                        /\ processing'[u] = IF u = t THEN outcome ELSE processing[u]
                        /\ DeviceOf(u)' = DeviceOf(u)
  BY <1>2 DEF BaseInv, TypeOK, DeviceOf
<1>4. \A u \in TaskId : ProcessLive(u)' <=> ProcessLive(u)
  BY <1>1, <1>3 DEF ProcessLive
<1>5. ASSUME NEW u \in TaskId PROVE WorkerServes(u)'
  BY <1>1, <1>2, <1>3, <1>4 DEF ServingInv, WorkerServes
<1>6. ASSUME NEW e \in Devices PROVE DeviceServed(e)'
  BY <1>2, <1>3, <1>4 DEF ServingInv, DeviceServed
<1>7. ASSUME NEW u \in TaskId PROVE InProcessing(u)'
  BY <1>1, <1>3 DEF ServingInv, InProcessing
<1> QED BY <1>5, <1>6, <1>7 DEF ServingInv

LEMMA ServingStep == BaseInv /\ ServingInv /\ [Next]_vars => ServingInv'
<1> SUFFICES ASSUME BaseInv, ServingInv, [Next]_vars PROVE ServingInv'
  OBVIOUS
<1>1. CASE CallerStep \/ UNCHANGED vars
  <2>1. UNCHANGED <<processPc, processTask, activeProcessing, queue, processing>>
        \/ \E c \in Conns, d \in Devices, source \in {"manual", "hardgrab"} : ReserveTask(c, d, source)
    BY <1>1 DEF CallerStep, HandleCaptureTake, BuildHardGrabPayload, HandOff, RefuseTask,
       AbortReservedTask, StartReservedTaskFails, ForgetReservation, StartReservedTask, CooldownEnds,
       BeginCleanup, CleanupTemp, CleanupTempFails, ClearFinishedTasks, serviceVars, workerVars, vars
  <2>2. ASSUME NEW c \in Conns, NEW d \in Devices, NEW source \in {"manual", "hardgrab"},
               ReserveTask(c, d, source)
        PROVE  ServingInv'
    <3>1. nextTaskSeq \in TaskId /\ capturePc[nextTaskSeq] = "none"
      BY <2>2 DEF ReserveTask, BaseInv, TaskInv, Drawn, TaskId
    <3>2. /\ UNCHANGED <<processPc, processTask, activeProcessing, queue, capturePc>>
          /\ \A u \in TaskId : u # nextTaskSeq => request'[u] = request[u]
          /\ \A u \in TaskId : processing'[u] = "running" => processing[u] = "running"
      BY <2>2, <3>1 DEF ReserveTask, workerVars, BaseInv, TypeOK
    <3> QED BY <3>1, <3>2, ServingFrame
  <2>3. CASE UNCHANGED <<processPc, processTask, activeProcessing, queue, processing>>
    <3>1. \/ \A u \in TaskId : /\ capturePc[u] = "exited" => capturePc'[u] = "exited"
                              /\ request'[u] = request[u]
          \/ \E c \in Conns, d \in Devices, source \in {"manual", "hardgrab"} : ReserveTask(c, d, source)
      BY <1>1 DEF CallerStep, HandleCaptureTake, BuildHardGrabPayload, HandOff, RefuseTask,
         AbortReservedTask, StartReservedTaskFails, ForgetReservation, StartReservedTask, CooldownEnds,
         BeginCleanup, CleanupTemp, CleanupTempFails, ClearFinishedTasks, serviceVars, workerVars, vars,
         BaseInv, TypeOK, LifecycleHolder
    <3> QED BY <2>2, <2>3, <3>1, ServingFrame
  <2> QED BY <2>1, <2>2, <2>3
<1>2. ASSUME NEW t \in TaskId, CaptureStep(t) PROVE ServingInv'
  <2>1. CASE BeginCapture(t) \/ AcquireImage(t) \/ AcquireFails(t) \/ StageFails(t)
             \/ CompleteCaptureFailure(t) \/ FailUnprocessed(t)
    <3>1. UNCHANGED <<processPc, processTask, activeProcessing, queue, request>>
      BY <2>1 DEF BeginCapture, AcquireImage, AcquireFails, StageFails, CompleteCaptureFailure,
         FailUnprocessed, CompleteProcessingTask, CaptureWorkerGivesUp, serviceVars
    <3>2. \A u \in TaskId : capturePc[u] = "exited" => capturePc'[u] = "exited"
      BY <2>1 DEF BeginCapture, AcquireImage, AcquireFails, StageFails, CompleteCaptureFailure,
         FailUnprocessed, CaptureWorkerGivesUp, BaseInv, TypeOK
    <3>3. \A u \in TaskId : processing'[u] = "running" => processing[u] = "running"
      BY <2>1 DEF BeginCapture, AcquireImage, AcquireFails, StageFails, CompleteCaptureFailure,
         FailUnprocessed, CompleteProcessingTask, CaptureWorkerGivesUp, serviceVars, BaseInv, TypeOK
    <3> QED BY <3>1, <3>2, <3>3, ServingFrame
  <2> QED BY <1>2, <2>1, EnqueueServes DEF CaptureStep
<1>3. ASSUME NEW w \in TaskId, ProcessStep(w) PROVE ServingInv'
  BY <1>3, StopServes, TakeServes, FinishServes DEF ProcessStep
<1> QED BY <1>1, <1>2, <1>3 DEF Next

LEMMA ServingInvariant == Spec => []ServingInv
BY ServingInit, ServingStep, BaseInvariant, PTL DEF Spec

\* On every device RunProcessingQueue runs at most once at a time and works on
\* at most one task; a device with queued work is never without its worker,
\* although the last one gives up the device while new work is being queued.
THEOREM ProcessingSerial == Spec => []ProcessingIsSerial
<1>1. BaseInv /\ ServingInv => ProcessingIsSerial
  <2> SUFFICES ASSUME BaseInv, ServingInv, NEW d \in Devices
               PROVE  /\ Cardinality({w \in TaskId : ProcessLive(w) /\ DeviceOf(w) = d})
                           = IF d \in activeProcessing THEN 1 ELSE 0
                      /\ queue[d] # <<>> => d \in activeProcessing
                      /\ Cardinality({t \in TaskId : processing[t] = "running" /\ DeviceOf(t) = d}) <= 1
    BY DEF ProcessingIsSerial
  <2> DEFINE live == {w \in TaskId : ProcessLive(w) /\ DeviceOf(w) = d}
             running == {t \in TaskId : processing[t] = "running" /\ DeviceOf(t) = d}
  <2>1. Cardinality(live) = IF d \in activeProcessing THEN 1 ELSE 0
    <3>1. CASE d \in activeProcessing
      <4>1. PICK w \in TaskId : ProcessLive(w) /\ DeviceOf(w) = d
        BY <3>1 DEF ServingInv, DeviceServed
      <4>2. live = {w}
        BY <4>1 DEF ServingInv, WorkerServes
      <4>3. Cardinality({w}) = 1
        BY FS_Singleton, Zenon
      <4> QED BY <3>1, <4>2, <4>3
    <3>2. CASE d \notin activeProcessing
      <4>1. live = {}
        BY <3>2 DEF ServingInv, WorkerServes
      <4> QED BY <3>2, <4>1, FS_EmptySet
    <3> QED BY <3>1, <3>2
  <2>2. Cardinality(running) <= 1
    <3>1. CASE running = {}
      BY <3>1, FS_EmptySet
    <3>2. ASSUME NEW t \in running PROVE Cardinality(running) <= 1
      <4>1. ASSUME NEW u \in running PROVE u = t
        BY <3>2, <4>1 DEF ServingInv, InProcessing, WorkerServes, ProcessLive
      <4>2. running = {t}
        BY <3>2, <4>1
      <4>3. Cardinality({t}) = 1
        BY FS_Singleton, Zenon
      <4> QED BY <4>2, <4>3
    <3> QED BY <3>1, <3>2
  <2> QED BY <2>1, <2>2 DEF ServingInv, DeviceServed
<1> QED BY <1>1, BaseInvariant, ServingInvariant, PTL

-----------------------------------------------------------------------------
(* Part 6: the session summaries.                                          *)

\* The tasks a connection has drawn for a device, and those each counter counts.
TasksOf(c, d) == {t \in TaskId : t < nextTaskSeq /\ request[t].conn = c /\ DeviceOf(t) = d}
CapturedOf(c, d) == {t \in TasksOf(c, d) : acquisition[t] = "captured"}
ProcessedOf(c, d) == {t \in TasksOf(c, d) : processing[t] = "succeeded"}
FailedOf(c, d) == {t \in TasksOf(c, d) : "failed" \in {acquisition[t], processing[t]}}
PendingOf(c, d) == {t \in TasksOf(c, d) : processing[t] \in {"queued", "running"}}

Counted(c, d) ==
  /\ summary[c][d].captured = Cardinality(CapturedOf(c, d))
  /\ summary[c][d].processed = Cardinality(ProcessedOf(c, d))
  /\ summary[c][d].failed = Cardinality(FailedOf(c, d))
  /\ summary[c][d].pending = Cardinality(PendingOf(c, d))

CountedInv == \A c \in Conns, d \in Devices : Counted(c, d)

LEMMA CountedIsAgreement == CountedInv => SummaryAgrees
BY DEF CountedInv, Counted, CapturedOf, ProcessedOf, FailedOf, PendingOf, TasksOf, SummaryAgrees

LEMMA CountedSetsFinite ==
  ASSUME NEW c \in Conns, NEW d \in Devices
  PROVE  /\ IsFiniteSet(CapturedOf(c, d)) /\ IsFiniteSet(ProcessedOf(c, d))
         /\ IsFiniteSet(FailedOf(c, d)) /\ IsFiniteSet(PendingOf(c, d))
<1>1. IsFiniteSet(TaskId)
  BY FS_Interval, CaptureAssumption DEF TaskId
<1>2. /\ CapturedOf(c, d) \subseteq TaskId /\ ProcessedOf(c, d) \subseteq TaskId
      /\ FailedOf(c, d) \subseteq TaskId /\ PendingOf(c, d) \subseteq TaskId
  BY DEF CapturedOf, ProcessedOf, FailedOf, PendingOf, TasksOf
<1> QED BY <1>1, <1>2, FS_Subset

LEMMA CountedInit == Init => CountedInv
<1> SUFFICES ASSUME Init, NEW c \in Conns, NEW d \in Devices PROVE Counted(c, d)
  BY DEF CountedInv
<1>1. /\ CapturedOf(c, d) = {} /\ ProcessedOf(c, d) = {} /\ FailedOf(c, d) = {} /\ PendingOf(c, d) = {}
  BY DEF Init, CapturedOf, ProcessedOf, FailedOf, PendingOf, TasksOf
<1> QED BY <1>1, FS_EmptySet DEF Init, Counted, NoCounts

\* A step that moves no task between the counted sets of a connection and device.
SameTasks(c, d) ==
  /\ CapturedOf(c, d)' = CapturedOf(c, d) /\ ProcessedOf(c, d)' = ProcessedOf(c, d)
  /\ FailedOf(c, d)' = FailedOf(c, d) /\ PendingOf(c, d)' = PendingOf(c, d)
SameCounts(c, d) == SameTasks(c, d) /\ summary'[c][d] = summary[c][d]

LEMMA SameKeepsCounted ==
  ASSUME NEW c \in Conns, NEW d \in Devices, Counted(c, d), SameCounts(c, d)
  PROVE  Counted(c, d)'
BY DEF SameCounts, SameTasks, Counted

\* The sets hear only of tasks already drawn, by their states and their request.
LEMMA SameStates ==
  ASSUME BaseInv, NEW c \in Conns, NEW d \in Devices, NEW S \in SUBSET TaskId,
         nextTaskSeq' \in {nextTaskSeq, nextTaskSeq + 1},
         \A t \in TaskId : t < nextTaskSeq => request'[t] = request[t],
         \A t \in TaskId \ S : acquisition'[t] = acquisition[t] /\ processing'[t] = processing[t],
         nextTaskSeq' # nextTaskSeq => nextTaskSeq \notin S,
         \A t \in S : request[t].conn # c \/ DeviceOf(t) # d
  PROVE  SameTasks(c, d)
<1>1. \A t \in TaskId : t = nextTaskSeq => /\ acquisition[t] \in {"none", "queued"}
                                           /\ processing[t] \in {"none", "not_started"}
  BY DEF BaseInv, TypeOK, TaskInv, Drawn, TaskPhase
<1>2. \A t \in TaskId : t < nextTaskSeq' => t < nextTaskSeq \/ (t = nextTaskSeq /\ t \notin S)
  BY DEF BaseInv, TypeOK, TaskId
<1>3. \A t \in TaskId : t < nextTaskSeq => t < nextTaskSeq'
  BY DEF BaseInv, TypeOK, TaskId
<1> QED BY <1>1, <1>2, <1>3 DEF SameTasks, CapturedOf, ProcessedOf, FailedOf, PendingOf, TasksOf, DeviceOf

\* The states of one task move: t's states and the summary of its connection and
\* device change, and all that belongs to other connections or devices stays.
StateMoves(t) ==
  /\ UNCHANGED <<nextTaskSeq, request>>
  /\ \A u \in TaskId \ {t} : acquisition'[u] = acquisition[u] /\ processing'[u] = processing[u]
  /\ \A c \in Conns, d \in Devices :
       request[t].conn # c \/ DeviceOf(t) # d => summary'[c][d] = summary[c][d]

LEMMA MoveKeepsOthers ==
  ASSUME BaseInv, NEW t \in TaskId, StateMoves(t), CountedInv,
         NEW own \in Conns, NEW dev \in Devices, own = request[t].conn, dev = DeviceOf(t),
         Counted(own, dev)'
  PROVE  CountedInv'
<1> SUFFICES ASSUME NEW c \in Conns, NEW d \in Devices PROVE Counted(c, d)'
  BY DEF CountedInv
<1>1. CASE c = own /\ d = dev
  BY <1>1
<1>2. CASE request[t].conn # c \/ DeviceOf(t) # d
  <2>1. SameTasks(c, d)
    <3>1. /\ {t} \in SUBSET TaskId /\ nextTaskSeq' \in {nextTaskSeq, nextTaskSeq + 1}
          /\ \A u \in TaskId : u < nextTaskSeq => request'[u] = request[u]
          /\ \A u \in TaskId \ {t} : acquisition'[u] = acquisition[u] /\ processing'[u] = processing[u]
          /\ nextTaskSeq' # nextTaskSeq => nextTaskSeq \notin {t}
          /\ \A u \in {t} : request[u].conn # c \/ DeviceOf(u) # d
      BY <1>2 DEF StateMoves
    <3> HIDE DEF StateMoves
    <3> QED BY <3>1, SameStates
  <2>2. SameCounts(c, d)
    BY <1>2, <2>1 DEF SameCounts, StateMoves
  <2> QED BY <2>2, SameKeepsCounted DEF CountedInv
<1> QED BY <1>1, <1>2

\* The summary of one connection and device is replaced.
LEMMA SummaryCell ==
  ASSUME TypeOK, NEW t \in TaskId, NEW v,
         summary' = [summary EXCEPT ![request[t].conn][request[t].device] = v]
  PROVE  /\ summary'[request[t].conn][DeviceOf(t)] = v
         /\ \A c \in Conns, d \in Devices :
              request[t].conn # c \/ DeviceOf(t) # d => summary'[c][d] = summary[c][d]
BY DEF TypeOK, Requests, DeviceOf

LEMMA KnownIsDrawn ==
  ASSUME BaseInv, NEW t \in known
  PROVE  t < nextTaskSeq
<1>1. t \in TaskId /\ ~(t >= nextTaskSeq)
  BY DEF BaseInv, TypeOK, TaskInv, Drawn
<1> QED BY <1>1, CaptureAssumption DEF BaseInv, TypeOK, TaskId

LEMMA EnqueueCounts ==
  ASSUME BaseInv, CountedInv, NEW t \in TaskId, NEW spawned \in BOOLEAN, EnqueueCaptured(t, spawned)
  PROVE  CountedInv'
<1>0. PICK c \in Conns, d \in Devices : c = request[t].conn /\ d = DeviceOf(t)
  BY DEF BaseInv, TypeOK, Requests, DeviceOf
<1> DEFINE s == summary[c][d]
<1>1. /\ t \in known /\ t < nextTaskSeq /\ acquisition[t] = "capturing" /\ processing[t] = "not_started"
  BY KnownIsDrawn DEF EnqueueCaptured, BaseInv, TypeOK, TaskInv, TaskPhase, Registered
<1>2. /\ acquisition' = [acquisition EXCEPT ![t] = "captured"]
      /\ processing' = [processing EXCEPT ![t] = "queued"]
      /\ summary' = Bump(t, 1, 0, 0, 1) /\ UNCHANGED <<nextTaskSeq, request>>
  BY <1>1 DEF EnqueueCaptured
<1>3. /\ summary'[c][d] = [captured |-> s.captured + 1, processed |-> s.processed + 0,
                           failed |-> s.failed + 0, pending |-> s.pending + 1]
      /\ \A b \in Conns, e \in Devices :
           request[t].conn # b \/ DeviceOf(t) # e => summary'[b][e] = summary[b][e]
  <2> DEFINE v == [captured |-> s.captured + 1, processed |-> s.processed + 0,
                   failed |-> s.failed + 0, pending |-> s.pending + 1]
  <2>1. summary' = [summary EXCEPT ![request[t].conn][request[t].device] = v]
    BY <1>0, <1>2 DEF Bump, DeviceOf
  <2> HIDE DEF v
  <2>2. /\ summary'[request[t].conn][DeviceOf(t)] = v
        /\ \A b \in Conns, e \in Devices :
             request[t].conn # b \/ DeviceOf(t) # e => summary'[b][e] = summary[b][e]
    BY <2>1, SummaryCell DEF BaseInv
  <2> QED BY <1>0, <2>2 DEF v
<1>4. StateMoves(t)
  BY <1>2, <1>3 DEF StateMoves, BaseInv, TypeOK
<1>5. /\ t \notin CapturedOf(c, d) /\ t \notin PendingOf(c, d)
      /\ CapturedOf(c, d)' = CapturedOf(c, d) \cup {t} /\ PendingOf(c, d)' = PendingOf(c, d) \cup {t}
      /\ ProcessedOf(c, d)' = ProcessedOf(c, d) /\ FailedOf(c, d)' = FailedOf(c, d)
  BY <1>0, <1>1, <1>2 DEF CapturedOf, PendingOf, ProcessedOf, FailedOf, TasksOf, BaseInv, TypeOK, DeviceOf
<1>6. /\ Cardinality(CapturedOf(c, d)') = Cardinality(CapturedOf(c, d)) + 1
      /\ Cardinality(PendingOf(c, d)') = Cardinality(PendingOf(c, d)) + 1
  BY <1>1, <1>5, CountedSetsFinite, FS_AddElement
<1>7. s \in [captured : Nat, processed : Nat, failed : Nat, pending : Nat]
  BY <1>1 DEF BaseInv, TypeOK
<1>8. Counted(c, d)
  BY <1>1 DEF CountedInv
<1>9. Counted(c, d)'
  BY <1>3, <1>5, <1>6, <1>7, <1>8 DEF Counted
<1> QED BY <1>0, <1>4, <1>9, MoveKeepsOthers

LEMMA FailureCounts ==
  ASSUME BaseInv, CountedInv, NEW t \in TaskId, CompleteCaptureFailure(t)
  PROVE  CountedInv'
<1>0. PICK c \in Conns, d \in Devices : c = request[t].conn /\ d = DeviceOf(t)
  BY DEF BaseInv, TypeOK, Requests, DeviceOf
<1> DEFINE s == summary[c][d]
<1>1. /\ t \in known /\ t < nextTaskSeq /\ acquisition[t] = "capturing" /\ processing[t] = "not_started"
  BY KnownIsDrawn DEF CompleteCaptureFailure, BaseInv, TypeOK, TaskInv, TaskPhase, Registered
<1>2. /\ acquisition' = [acquisition EXCEPT ![t] = "failed"]
      /\ processing' = [processing EXCEPT ![t] = "skipped"]
      /\ summary' = Bump(t, 0, 0, 1, 0) /\ UNCHANGED <<nextTaskSeq, request>>
  BY <1>1 DEF CompleteCaptureFailure
<1>3. /\ summary'[c][d] = [captured |-> s.captured + 0, processed |-> s.processed + 0,
                           failed |-> s.failed + 1, pending |-> s.pending + 0]
      /\ \A b \in Conns, e \in Devices :
           request[t].conn # b \/ DeviceOf(t) # e => summary'[b][e] = summary[b][e]
  <2> DEFINE v == [captured |-> s.captured + 0, processed |-> s.processed + 0,
                   failed |-> s.failed + 1, pending |-> s.pending + 0]
  <2>1. summary' = [summary EXCEPT ![request[t].conn][request[t].device] = v]
    BY <1>0, <1>2 DEF Bump, DeviceOf
  <2> HIDE DEF v
  <2>2. /\ summary'[request[t].conn][DeviceOf(t)] = v
        /\ \A b \in Conns, e \in Devices :
             request[t].conn # b \/ DeviceOf(t) # e => summary'[b][e] = summary[b][e]
    BY <2>1, SummaryCell DEF BaseInv
  <2> QED BY <1>0, <2>2 DEF v
<1>4. StateMoves(t)
  BY <1>2, <1>3 DEF StateMoves, BaseInv, TypeOK
<1>5. /\ t \notin FailedOf(c, d) /\ FailedOf(c, d)' = FailedOf(c, d) \cup {t}
      /\ CapturedOf(c, d)' = CapturedOf(c, d) /\ PendingOf(c, d)' = PendingOf(c, d)
      /\ ProcessedOf(c, d)' = ProcessedOf(c, d)
  BY <1>0, <1>1, <1>2 DEF CapturedOf, PendingOf, ProcessedOf, FailedOf, TasksOf, BaseInv, TypeOK, DeviceOf
<1>6. Cardinality(FailedOf(c, d)') = Cardinality(FailedOf(c, d)) + 1
  BY <1>1, <1>5, CountedSetsFinite, FS_AddElement
<1>7. s \in [captured : Nat, processed : Nat, failed : Nat, pending : Nat]
  BY <1>1 DEF BaseInv, TypeOK
<1>8. Counted(c, d)
  BY <1>1 DEF CountedInv
<1>9. Counted(c, d)'
  BY <1>3, <1>5, <1>6, <1>7, <1>8 DEF Counted
<1> QED BY <1>0, <1>4, <1>9, MoveKeepsOthers

LEMMA CompletionCounts ==
  ASSUME BaseInv, CountedInv, NEW t \in TaskId, NEW outcome \in Terminal,
         CompleteProcessingTask(t, outcome), t \in known,
         acquisition[t] = "captured", processing[t] \in {"queued", "running"}
  PROVE  CountedInv'
<1>0. PICK c \in Conns, d \in Devices : c = request[t].conn /\ d = DeviceOf(t)
  BY DEF BaseInv, TypeOK, Requests, DeviceOf
<1> DEFINE s == summary[c][d]
<1>1. t < nextTaskSeq
  BY KnownIsDrawn
<1>2. /\ processing' = [processing EXCEPT ![t] = outcome]
      /\ summary' = [summary EXCEPT ![request[t].conn][request[t].device] = Processed(s, outcome)]
      /\ UNCHANGED <<nextTaskSeq, request, acquisition>>
  BY <1>0 DEF CompleteProcessingTask, DeviceOf
<1>3. /\ summary'[c][d] = Processed(s, outcome)
      /\ \A b \in Conns, e \in Devices :
           request[t].conn # b \/ DeviceOf(t) # e => summary'[b][e] = summary[b][e]
  BY <1>0, <1>2, SummaryCell DEF BaseInv
<1>4. StateMoves(t)
  BY <1>2, <1>3 DEF StateMoves, BaseInv, TypeOK
<1>5. /\ t \in PendingOf(c, d) /\ t \notin ProcessedOf(c, d) /\ t \notin FailedOf(c, d)
      /\ CapturedOf(c, d)' = CapturedOf(c, d) /\ PendingOf(c, d)' = PendingOf(c, d) \ {t}
      /\ ProcessedOf(c, d)' = IF outcome = "succeeded" THEN ProcessedOf(c, d) \cup {t} ELSE ProcessedOf(c, d)
      /\ FailedOf(c, d)' = IF outcome = "succeeded" THEN FailedOf(c, d) ELSE FailedOf(c, d) \cup {t}
  BY <1>0, <1>1, <1>2 DEF CapturedOf, PendingOf, ProcessedOf, FailedOf, TasksOf, BaseInv, TypeOK, DeviceOf
<1>6. /\ Cardinality(PendingOf(c, d)') = Cardinality(PendingOf(c, d)) - 1
      /\ Cardinality(ProcessedOf(c, d)') =
           IF outcome = "succeeded" THEN Cardinality(ProcessedOf(c, d)) + 1 ELSE Cardinality(ProcessedOf(c, d))
      /\ Cardinality(FailedOf(c, d)') =
           IF outcome = "succeeded" THEN Cardinality(FailedOf(c, d)) ELSE Cardinality(FailedOf(c, d)) + 1
  <2>1. Cardinality(PendingOf(c, d) \ {t}) = Cardinality(PendingOf(c, d)) - 1
    BY <1>5, CountedSetsFinite, FS_RemoveElement
  <2>2. /\ Cardinality(ProcessedOf(c, d) \cup {t}) = Cardinality(ProcessedOf(c, d)) + 1
        /\ Cardinality(FailedOf(c, d) \cup {t}) = Cardinality(FailedOf(c, d)) + 1
    BY <1>1, <1>5, CountedSetsFinite, FS_AddElement
  <2> QED BY <1>5, <2>1, <2>2
<1>7. s \in [captured : Nat, processed : Nat, failed : Nat, pending : Nat]
  BY <1>1 DEF BaseInv, TypeOK
<1>8. Counted(c, d)
  BY <1>1 DEF CountedInv
<1>a. s.pending > 0
  <2>1. Cardinality(PendingOf(c, d)') \in Nat
    <3>1. IsFiniteSet(PendingOf(c, d)')
      BY <1>1, <1>5, CountedSetsFinite, FS_RemoveElement
    <3> QED BY <3>1, FS_CardinalityType
  <2> QED BY <1>6, <1>7, <1>8, <2>1 DEF Counted
<1>9. Counted(c, d)'
  BY <1>3, <1>5, <1>6, <1>7, <1>8, <1>a DEF Counted, Processed
<1> QED BY <1>0, <1>4, <1>9, MoveKeepsOthers

LEMMA TakeCounts ==
  ASSUME BaseInv, CountedInv, NEW w \in TaskId, TakeFromQueue(w)
  PROVE  CountedInv'
<1> DEFINE e == DeviceOf(w)
           t == Head(queue[e])
<1>1. e \in Devices /\ queue[e] \in Seq(TaskId) /\ queue[e] # <<>>
  BY DEF BaseInv, TypeOK, Requests, DeviceOf, TakeFromQueue
<1>2. 1 \in DOMAIN queue[e] /\ t = queue[e][1] /\ t \in TaskId
  BY <1>1
<1>3. processing[t] = "queued"
  BY <1>1, <1>2 DEF BaseInv, QueuesSound
<1>4. /\ processing' = processing \/ processing' = [processing EXCEPT ![t] = "running"]
      /\ UNCHANGED <<nextTaskSeq, request, acquisition, summary>>
  BY DEF TakeFromQueue, OldestQueued
<1>5. ASSUME NEW c \in Conns, NEW d \in Devices PROVE SameCounts(c, d)
  BY <1>2, <1>3, <1>4 DEF SameCounts, SameTasks, CapturedOf, PendingOf, ProcessedOf, FailedOf, TasksOf,
     BaseInv, TypeOK, DeviceOf
<1> QED BY <1>5, SameKeepsCounted DEF CountedInv

\* No other step moves a task between the counted states.
LEMMA CalmCounts ==
  ASSUME BaseInv, CountedInv, UNCHANGED summary,
         nextTaskSeq' \in {nextTaskSeq, nextTaskSeq + 1},
         \A t \in TaskId : t < nextTaskSeq => request'[t] = request[t],
         \A t \in TaskId : t < nextTaskSeq =>
           \/ acquisition'[t] = acquisition[t] /\ processing'[t] = processing[t]
           \/ /\ acquisition[t] = "queued" /\ acquisition'[t] = "capturing"
              /\ processing'[t] = processing[t],
         \A t \in TaskId : t = nextTaskSeq =>
           acquisition'[t] \in {"none", "queued"} /\ processing'[t] \in {"none", "not_started"}
  PROVE  CountedInv'
<1>1. \A t \in TaskId : t = nextTaskSeq => /\ acquisition[t] \in {"none", "queued"}
                                           /\ processing[t] \in {"none", "not_started"}
  BY DEF BaseInv, TypeOK, TaskInv, Drawn, TaskPhase
<1>2. \A t \in TaskId : /\ t < nextTaskSeq' => t < nextTaskSeq \/ t = nextTaskSeq
                        /\ t < nextTaskSeq => t < nextTaskSeq'
  BY DEF BaseInv, TypeOK, TaskId
<1>3. ASSUME NEW c \in Conns, NEW d \in Devices PROVE SameCounts(c, d)
  <2>1. CapturedOf(c, d)' = CapturedOf(c, d)
    BY <1>1, <1>2 DEF CapturedOf, TasksOf, DeviceOf
  <2>2. PendingOf(c, d)' = PendingOf(c, d)
    BY <1>1, <1>2 DEF PendingOf, TasksOf, DeviceOf
  <2>3. ProcessedOf(c, d)' = ProcessedOf(c, d)
    BY <1>1, <1>2 DEF ProcessedOf, TasksOf, DeviceOf
  <2>4. FailedOf(c, d)' = FailedOf(c, d)
    BY <1>1, <1>2 DEF FailedOf, TasksOf, DeviceOf
  <2> QED BY <2>1, <2>2, <2>3, <2>4 DEF SameCounts, SameTasks
<1> QED BY <1>3, SameKeepsCounted DEF CountedInv

LEMMA CountedStep == BaseInv /\ CountedInv /\ [Next]_vars => CountedInv'
<1> SUFFICES ASSUME BaseInv, CountedInv, [Next]_vars PROVE CountedInv'
  OBVIOUS
<1>a. \A t \in TaskId : t = nextTaskSeq => /\ acquisition[t] \in {"none", "queued"}
                                           /\ processing[t] \in {"none", "not_started"}
  BY DEF BaseInv, TypeOK, TaskInv, Drawn, TaskPhase
<1>1. CASE CallerStep \/ UNCHANGED vars
  <2>1. ASSUME NEW c \in Conns, NEW d \in Devices, NEW source \in {"manual", "hardgrab"},
               ReserveTask(c, d, source)
        PROVE  CountedInv'
    <3>1. /\ nextTaskSeq \in TaskId /\ nextTaskSeq' = nextTaskSeq + 1 /\ UNCHANGED summary
          /\ request' = [request EXCEPT ![nextTaskSeq] = [conn |-> c, device |-> d, source |-> source]]
          /\ acquisition' = [acquisition EXCEPT ![nextTaskSeq] = "queued"]
          /\ processing' = [processing EXCEPT ![nextTaskSeq] = "not_started"]
      BY <2>1 DEF ReserveTask
    <3>2. \A t \in TaskId : t < nextTaskSeq => /\ request'[t] = request[t] /\ acquisition'[t] = acquisition[t]
                                               /\ processing'[t] = processing[t]
      BY <3>1 DEF BaseInv, TypeOK, TaskId
    <3>3. acquisition'[nextTaskSeq] = "queued" /\ processing'[nextTaskSeq] = "not_started"
      BY <3>1 DEF BaseInv, TypeOK
    <3> QED BY <3>1, <3>2, <3>3, CalmCounts
  <2>2. \/ /\ UNCHANGED <<request, acquisition, processing, summary>>
           /\ nextTaskSeq' \in {nextTaskSeq, nextTaskSeq + 1}
        \/ \E c \in Conns, d \in Devices, source \in {"manual", "hardgrab"} : ReserveTask(c, d, source)
    BY <1>1 DEF CallerStep, HandleCaptureTake, BuildHardGrabPayload, HandOff, RefuseTask,
       AbortReservedTask, StartReservedTaskFails, ForgetReservation, StartReservedTask, CooldownEnds,
       BeginCleanup, CleanupTemp, CleanupTempFails, ClearFinishedTasks, serviceVars, vars
  <2> QED BY <1>a, <2>1, <2>2, CalmCounts
<1>2. ASSUME NEW t \in TaskId, CaptureStep(t) PROVE CountedInv'
  <2>1. CASE BeginCapture(t) \/ AcquireImage(t) \/ AcquireFails(t) \/ StageFails(t)
    <3>1. /\ UNCHANGED <<nextTaskSeq, request, processing, summary>>
          /\ \/ acquisition' = acquisition
             \/ acquisition[t] = "queued" /\ acquisition' = [acquisition EXCEPT ![t] = "capturing"]
                /\ t < nextTaskSeq
      BY <2>1 DEF BeginCapture, AcquireImage, AcquireFails, StageFails, CaptureWorkerGivesUp, serviceVars,
         BaseInv, TypeOK, TaskInv, TaskPhase, Drawn, TaskId
    <3>2. \A u \in TaskId : \/ acquisition'[u] = acquisition[u]
                            \/ /\ acquisition[u] = "queued" /\ acquisition'[u] = "capturing"
                               /\ u < nextTaskSeq
      BY <3>1 DEF BaseInv, TypeOK
    <3>3. \A u \in TaskId : u = nextTaskSeq => ~(u < nextTaskSeq)
      BY DEF TaskId
    <3> QED BY <1>a, <3>1, <3>2, <3>3, CalmCounts
  <2>2. CASE FailUnprocessed(t)
    <3>1. /\ CompleteProcessingTask(t, "failed") /\ t \in known
          /\ acquisition[t] = "captured" /\ processing[t] = "queued"
      BY <2>2 DEF FailUnprocessed, BaseInv, TaskInv, TaskPhase, Registered
    <3> QED BY <3>1, CompletionCounts
  <2> QED BY <1>2, <2>1, <2>2, EnqueueCounts, FailureCounts DEF CaptureStep
<1>3. ASSUME NEW w \in TaskId, ProcessStep(w) PROVE CountedInv'
  <2>1. CASE StopProcessing(w)
    <3>1. UNCHANGED <<nextTaskSeq, request, acquisition, processing, summary>>
      BY <2>1 DEF StopProcessing
    <3> QED BY <1>a, <3>1, CalmCounts
  <2>2. ASSUME NEW outcome \in Terminal, FinishProcessing(w, outcome) PROVE CountedInv'
    <3>1. /\ CompleteProcessingTask(processTask[w], outcome) /\ processTask[w] \in TaskId
          /\ processing[processTask[w]] = "running" /\ capturePc[processTask[w]] = "exited"
      BY <2>2 DEF FinishProcessing, BaseInv, WorkersSound
    <3>2. acquisition[processTask[w]] = "captured" /\ processTask[w] \in known
      BY <3>1 DEF BaseInv, TaskInv, TaskPhase, Registered
    <3> QED BY <3>1, <3>2, CompletionCounts
  <2> QED BY <1>3, <2>1, <2>2, TakeCounts DEF ProcessStep
<1> QED BY <1>1, <1>2, <1>3 DEF Next

LEMMA CountedInvariant == Spec => []CountedInv
BY CountedInit, CountedStep, BaseInvariant, PTL DEF Spec

\* The counters that session.get and capture.session.updated report agree with
\* what has happened to the tasks of the connection and device, in every state:
\* in particular the test on pending in CompleteProcessingTask is never needed.
THEOREM SummariesAgree == Spec => []SummaryAgrees
BY CountedInvariant, CountedIsAgreement, PTL
=============================================================================
